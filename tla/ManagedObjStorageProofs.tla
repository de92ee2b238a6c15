----------------------- MODULE ManagedObjStorageProofs -----------------------
(***************************************************************************)
(* Proofs about ManagedObjStorage, for every page length, number of pages, *)
(* width of the identifier and of both generations, and set of types.      *)
(***************************************************************************)
EXTENDS ManagedObjStorage, Recursion, FiniteSetTheorems

-----------------------------------------------------------------------------
(* Lemmas about the operators of ObjStorage                                *)

PageTable == [PageIndex -> Page]

(* The slots of a page are a finite set.                                   *)
LEMMA FreeSlotsFinite ==
  ASSUME NEW page
  PROVE  /\ FreeSlots(page) \subseteq Slot
         /\ IsFiniteSet(FreeSlots(page))
         /\ Cardinality(FreeSlots(page)) \in Nat
<1>1. IsFiniteSet(Slot)
  BY FS_Interval, SizesAssumption DEF Slot
<1>2. FreeSlots(page) \subseteq Slot
  BY DEF FreeSlots
<1>3. QED
  BY <1>1, <1>2, FS_Subset, FS_CardinalityType

(* The invalid id is an id, and null is not.                               *)
LEMMA InvalidIdType == InvalidId \in ObjId /\ InvalidId # Nil
<1>1. /\ IdModulus - 1 \in 0 .. IdModulus - 1
      /\ GenModulus - 1 \in 0 .. GenModulus - 1
  BY SizesAssumption
<1>2. InvalidId \in ObjId
  BY <1>1 DEF InvalidId, ObjId
<1>3. QED
  BY <1>2, NilAssumption

(* A page that was never used has every slot free.                         *)
LEMMA NewPageSound == /\ NewPage \in Page
                      /\ FreeSlots(NewPage) = Slot
                      /\ NewPage.freeCount = Cardinality(FreeSlots(NewPage))
<1>1. NewPage \in Page
  BY SizesAssumption DEF NewPage, Page
<1>2. FreeSlots(NewPage) = Slot
  BY DEF NewPage, FreeSlots
<1>3. Cardinality(Slot) = PageLength
  BY FS_Interval, SizesAssumption DEF Slot
<1>4. QED
  BY <1>1, <1>2, <1>3 DEF NewPage

(* A division that get() and free() rely on: an identifier leads back to   *)
(* the page and slot it was made for, if identifiers do not wrap.          *)
LEMMA IndexRoundTrip ==
  ASSUME NoIdentifierWrap, NEW p \in PageIndex, NEW s \in Slot
  PROVE  /\ ManagedIndex(p, s) \div PageLength = p
         /\ ManagedIndex(p, s) % PageLength = s
<1>1. p + 1 <= MaxPages /\ p \in Nat /\ s \in Nat
  BY SizesAssumption DEF PageIndex, Slot
<1>2. (p + 1) * PageLength <= MaxPages * PageLength
  BY <1>1, SizesAssumption
<1>3. p * PageLength + s < IdModulus
  BY <1>1, <1>2, SizesAssumption DEF NoIdentifierWrap, Slot
<1>4. ManagedIndex(p, s) = p * PageLength + s
  BY <1>1, <1>3, SizesAssumption DEF ManagedIndex
<1>5. /\ (p * PageLength + s) \div PageLength = p
      /\ (p * PageLength + s) % PageLength = s
  BY <1>1, SizesAssumption DEF Slot
<1>6. QED
  BY <1>4, <1>5

(* Whether they wrap or not, an identifier fits its bits, names a slot,    *)
(* and names no page behind the one it was made for.                       *)
LEMMA IndexRange ==
  ASSUME NEW p \in PageIndex, NEW s \in Slot
  PROVE  /\ ManagedIndex(p, s) \in 0 .. IdModulus - 1
         /\ ManagedIndex(p, s) \div PageLength \in 0 .. p
         /\ ManagedIndex(p, s) % PageLength \in Slot
<1>1. p \in Nat /\ s \in Nat /\ s < PageLength
  BY SizesAssumption DEF PageIndex, Slot
<1>2. p * PageLength + s \in Nat
  BY <1>1, SizesAssumption
<1>3. /\ ManagedIndex(p, s) \in 0 .. IdModulus - 1
      /\ ManagedIndex(p, s) <= p * PageLength + s
  BY <1>2, SizesAssumption DEF ManagedIndex
<1>4. ManagedIndex(p, s) < (p + 1) * PageLength
  BY <1>1, <1>3, SizesAssumption
<1>5. ManagedIndex(p, s) \div PageLength \in 0 .. p
  BY <1>1, <1>3, <1>4, SizesAssumption
<1>6. ManagedIndex(p, s) % PageLength \in Slot
  BY <1>3, SizesAssumption DEF Slot
<1>7. QED
  BY <1>3, <1>5, <1>6

(* Where reserve() finds room.                                             *)
LEMMA ReserveFindsRoom ==
  ASSUME NEW table \in PageTable, NEW n \in 0 .. MaxPages,
         \A p \in PageIndex : p >= n => table[p] = NewPage,
         ReservedPage(table, n) \in PageIndex
  PROVE  LET p == ReservedPage(table, n)
             s == FreeSlotIndex(table[p])
         IN  /\ p \in 0 .. n
             /\ s \in Slot
             /\ table[p].obj[s] = Nil
             /\ (p = n) => \A q \in 0 .. n - 1 : ~HasFreeSlot(table[q])
<1> DEFINE room == PagesWithRoom(table, n)
           p == ReservedPage(table, n)
           free == FreeSlots(table[p])
<1>1. CASE room = {}
  <2>1. p = n
    BY <1>1 DEF ReservedPage
  <2>2. free = Slot
    BY <2>1, NewPageSound
  <2>3. 0 \in free /\ \A t \in free : 0 <= t
    BY <2>2, SizesAssumption DEF Slot
  <2>4. FreeSlotIndex(table[p]) \in free
    BY <2>3 DEF FreeSlotIndex
  <2>5. \A q \in 0 .. n - 1 : ~HasFreeSlot(table[q])
    BY <1>1 DEF PagesWithRoom
  <2>6. QED
    BY <2>1, <2>4, <2>5 DEF FreeSlots
<1>2. CASE room # {}
  <2>1. room \subseteq 0 .. n - 1 /\ room \subseteq Nat
    BY DEF PagesWithRoom
  <2>2. \E q \in room : \A x \in room : q <= x
    BY <1>2, <2>1, SmallestExists
  <2>3. p \in room
    BY <1>2, <2>2 DEF ReservedPage
  <2>4. free # {} /\ free \subseteq Nat
    BY <2>3, SizesAssumption DEF PagesWithRoom, HasFreeSlot, FreeSlots, Slot
  <2>5. \E s \in free : \A t \in free : s <= t
    BY <2>4, SmallestExists
  <2>6. FreeSlotIndex(table[p]) \in free
    BY <2>5 DEF FreeSlotIndex
  <2>7. QED
    BY <2>1, <2>3, <2>6 DEF FreeSlots
<1>3. QED
  BY <1>1, <1>2

-----------------------------------------------------------------------------
(* The inductive invariant                                                 *)

(* A page that was not allocated is as new.                                *)
UnallocatedUnused ==
  \A p \in PageIndex : p >= pageCount => pages[p] = NewPage

(* The id in an object says where it is and how often its slot was stored  *)
(* to, unless it was closed.                                               *)
ResidentIds ==
  \A p \in PageIndex, s \in Slot :
    LET id == pages[p].obj[s]
    IN  id # Nil => \/ id = InvalidId
                    \/ /\ id.identifier = ManagedIndex(p, s)
                       /\ id.generation = (pages[p].stored[s] % SlotModulus) % GenModulus
                       /\ id.type \in Types

(* An id a client was given still says which object it was given for, and  *)
(* its slot was stored to since, if at all.                                *)
NamedIds ==
  \A n \in named :
    /\ n.id.identifier = ManagedIndex(n.ref.page, n.ref.slot)
    /\ n.id.generation = (n.ref.incarnation % SlotModulus) % GenModulus
    /\ n.id.type \in Types
    /\ n.ref.incarnation <= pages[n.ref.page].stored[n.ref.slot]
    /\ Alive(pages, n.ref) => IdOf(pages, n.ref) \in {n.id, InvalidId}

(* No object is owned by C++ and named to a client.                        *)
OwnedNotNamed == \A n \in named : n.ref \notin owned

(* A slot is not stored to beyond the bound.                               *)
StoresBounded ==
  \A p \in PageIndex, s \in Slot : pages[p].stored[s] <= MaxGeneration

IInv == /\ TypeOK
        /\ FreeCountSound
        /\ StoresBounded
        /\ UnallocatedUnused
        /\ ResidentIds
        /\ NamedIds
        /\ OwnedNotNamed
        /\ OwnedAlive

(* The state before the first object is made.                              *)
LEMMA InitIInv == Init => IInv
<1> SUFFICES ASSUME Init PROVE IInv
  OBVIOUS
<1>1. TypeOK
  BY NewPageSound, SizesAssumption DEF Init, TypeOK
<1>2. FreeCountSound
  BY NewPageSound, FreeSlotsFinite DEF Init, FreeCountSound
<1>3. UnallocatedUnused /\ ResidentIds /\ StoresBounded
  BY StorageAssumption DEF Init, UnallocatedUnused, ResidentIds, StoresBounded, NewPage
<1>4. NamedIds /\ OwnedNotNamed /\ OwnedAlive
  BY DEF Init, NamedIds, OwnedNotNamed, OwnedAlive
<1>5. QED
  BY <1>1, <1>2, <1>3, <1>4 DEF IInv

-----------------------------------------------------------------------------
(* What get() returns.  Aliasing comes down to this: with no wrap, an id   *)
(* names the slot it was made for; and if the slot's 32-bit generation,    *)
(* which has not come round, is the id's 8 bits, it cannot have passed the *)
(* incarnation they were cut from.                                         *)
LEMMA GetReturns ==
  ASSUME TypeOK, NamedIds, StoresBounded, NoWrap, NEW n \in named
  PROVE  /\ Get(pages, n.id) \in {Nil, n.ref}
         /\ Get(pages, n.id) = n.ref => Alive(pages, n.ref)
<1> DEFINE r == n.ref
           gen == pages[r.page].stored[r.slot]
<1>1. n.id \in ObjId /\ r \in Ref
  BY DEF TypeOK, Named
<1>2. r.page \in PageIndex /\ r.slot \in Slot /\ r.incarnation \in Nat
  BY <1>1 DEF Ref
<1>3. PageOf(n.id) = r.page /\ SlotOf(n.id) = r.slot
  BY <1>2, IndexRoundTrip DEF NamedIds, PageOf, SlotOf, NoWrap
<1>4. /\ gen \in Nat /\ r.incarnation <= gen
      /\ n.id.generation = (r.incarnation % SlotModulus) % GenModulus
  BY <1>2 DEF TypeOK, Page, NamedIds
<1>13. gen < SlotModulus
  BY <1>2, <1>4, StorageAssumption, SizesAssumption DEF StoresBounded, NoWrap
<1>14. gen % SlotModulus = gen /\ r.incarnation % SlotModulus = r.incarnation
  BY <1>2, <1>4, <1>13, SizesAssumption
<1>5. SUFFICES ASSUME Get(pages, n.id) # Nil
               PROVE  Get(pages, n.id) = r /\ Alive(pages, r)
  BY <1>1, NilAssumption
<1>6. gen = n.id.generation /\ pages[r.page].obj[r.slot] = n.id
  BY <1>3, <1>5, <1>14 DEF Get, Overwritten, SlotGeneration
<1>7. r.incarnation % GenModulus <= r.incarnation
  BY <1>2, SizesAssumption
<1>8. gen = r.incarnation
  BY <1>2, <1>4, <1>6, <1>7, <1>14, SizesAssumption
<1>9. r = [page |-> r.page, slot |-> r.slot, incarnation |-> gen]
  BY <1>1, <1>8 DEF Ref
<1>10. Get(pages, n.id) = r
  BY <1>3, <1>5, <1>9 DEF Get, RefTo
<1>11. Alive(pages, r)
  BY <1>1, <1>6, <1>8, NilAssumption DEF Alive
<1>12. QED
  BY <1>10, <1>11

(* Without that assumption get() still returns null or an object that is   *)
(* in its slot.                                                            *)
LEMMA GetType ==
  ASSUME TypeOK, NamedIds, NEW n \in named, Get(pages, n.id) # Nil
  PROVE  /\ Get(pages, n.id) \in Ref
         /\ Alive(pages, Get(pages, n.id))
<1>1. n.id \in ObjId /\ n.ref \in Ref
  BY DEF TypeOK, Named
<1>2. n.ref.page \in PageIndex /\ n.ref.slot \in Slot
  BY <1>1 DEF Ref
<1>3. PageOf(n.id) \in 0 .. n.ref.page /\ SlotOf(n.id) \in Slot
  BY <1>2, IndexRange DEF NamedIds, PageOf, SlotOf
<1>4. PageOf(n.id) \in PageIndex
  BY <1>2, <1>3, SizesAssumption DEF PageIndex
<1>5. pages[PageOf(n.id)].stored[SlotOf(n.id)] \in Nat
  BY <1>3, <1>4 DEF TypeOK, Page
<1>6. pages[PageOf(n.id)].obj[SlotOf(n.id)] # Nil
  BY <1>1, NilAssumption DEF Get
<1>7. Get(pages, n.id) = RefTo(pages, PageOf(n.id), SlotOf(n.id))
  BY DEF Get
<1>8. QED
  BY <1>3, <1>4, <1>5, <1>6, <1>7 DEF RefTo, Ref, Alive

-----------------------------------------------------------------------------
(* One lemma per way the pages change                                      *)

(* What make<T>() does to the table: the first empty slot of the page with *)
(* room gets an id, and counts one more generation.                        *)
LEMMA MakeShape ==
  ASSUME IInv, NEW t \in Types, Make(t)
  PROVE  LET P == NextPage
             S == NextSlot
             old == pages[P]
             id == StoredId(old, P, S, t)
         IN  /\ P \in PageIndex /\ P \in 0 .. pageCount
             /\ S \in Slot
             /\ old.obj[S] = Nil
             /\ old \in Page /\ old.stored[S] \in Nat
             /\ id \in ObjId /\ id # Nil
             /\ pages' = [pages EXCEPT ![P] =
                            [freeCount  |-> old.freeCount - 1,
                             obj        |-> [old.obj EXCEPT ![S] = id],
                             stored |-> [old.stored EXCEPT ![S] = old.stored[S] + 1]]]
<1> DEFINE P == NextPage
           S == NextSlot
           old == pages[P]
           id == StoredId(old, P, S, t)
<1>1. /\ P \in PageIndex /\ P \in 0 .. pageCount
      /\ S \in Slot
      /\ old.obj[S] = Nil
  <2>1. pages \in PageTable /\ pageCount \in 0 .. MaxPages
    BY DEF IInv, TypeOK, PageTable
  <2>2. \A p \in PageIndex : p >= pageCount => pages[p] = NewPage
    BY DEF IInv, UnallocatedUnused
  <2>3. ReservedPage(pages, pageCount) \in PageIndex
    BY DEF Make, NextPage
  <2>4. QED
    BY <2>1, <2>2, <2>3, ReserveFindsRoom DEF NextPage, NextSlot
<1>2. old \in Page /\ old.stored[S] \in Nat
  BY <1>1 DEF IInv, TypeOK, Page
<1>3. id \in ObjId /\ id # Nil
  <2>0. (old.stored[S] + 1) % SlotModulus \in Nat
    BY <1>2, SizesAssumption
  <2>1. ((old.stored[S] + 1) % SlotModulus) % GenModulus \in 0 .. GenModulus - 1
    BY <2>0, SizesAssumption
  <2>2. QED
    BY <1>1, <2>1, IndexRange, NilAssumption DEF StoredId, ObjId
<1>4. pages' = [pages EXCEPT ![P] =
                  [freeCount  |-> old.freeCount - 1,
                   obj        |-> [old.obj EXCEPT ![S] = id],
                   stored |-> [old.stored EXCEPT ![S] = old.stored[S] + 1]]]
  <2>1. pages \in [PageIndex -> Page]
    BY DEF IInv, TypeOK
  <2>2. old = [freeCount |-> old.freeCount, obj |-> old.obj, stored |-> old.stored]
    BY <1>2 DEF Page
  <2>3. [old EXCEPT !.freeCount = @ - 1] =
          [freeCount |-> old.freeCount - 1, obj |-> old.obj, stored |-> old.stored]
    BY <1>2, <2>2 DEF Page
  <2>4. Reserve(pages, P) =
          [pages EXCEPT ![P] = [freeCount |-> old.freeCount - 1, obj |-> old.obj, stored |-> old.stored]]
    BY <1>1, <2>1, <2>3 DEF Reserve
  <2>5. /\ Reserve(pages, P)[P].freeCount = old.freeCount - 1
        /\ Reserve(pages, P)[P].obj = old.obj
        /\ Reserve(pages, P)[P].stored = old.stored
    BY <1>1, <2>1, <2>4
  <2>6. StoredId(Reserve(pages, P)[P], P, S, t) = id
    BY <2>5 DEF StoredId
  <2>7. pages' = Store(Reserve(pages, P), P, S, t)
    BY DEF Make
  <2>8. StoreIn(Reserve(pages, P)[P], P, S, t) =
          [freeCount  |-> old.freeCount - 1,
           obj        |-> [old.obj EXCEPT ![S] = id],
           stored |-> [old.stored EXCEPT ![S] = old.stored[S] + 1]]
    BY <1>1, <1>2, <2>5, <2>6 DEF StoreIn
  <2>9. pages' = [Reserve(pages, P) EXCEPT ![P] = StoreIn(Reserve(pages, P)[P], P, S, t)]
    BY <2>7 DEF Store
  <2>10. QED
    BY <1>1, <2>1, <2>4, <2>8, <2>9
<1>5. QED
  BY <1>1, <1>2, <1>3, <1>4

(* make<T>(): the slot taken was empty, and its new incarnation is one     *)
(* nobody owns or was given an id for.                                     *)
LEMMA MakeStep ==
  ASSUME IInv, NEW t \in Types, Make(t)
  PROVE  IInv'
<1> DEFINE P == NextPage
           S == NextSlot
           old == pages[P]
           id == StoredId(old, P, S, t)
           r == RefTo(pages', P, S)
<1>1. /\ P \in PageIndex /\ P \in 0 .. pageCount
      /\ S \in Slot
      /\ old.obj[S] = Nil
  BY MakeShape
<1>2. old \in Page /\ old.stored[S] \in Nat
  BY MakeShape
<1>3. id \in ObjId /\ id # Nil
  BY MakeShape
<1>4. pages' = [pages EXCEPT ![P] =
                  [freeCount  |-> old.freeCount - 1,
                   obj        |-> [old.obj EXCEPT ![S] = id],
                   stored |-> [old.stored EXCEPT ![S] = old.stored[S] + 1]]]
  BY MakeShape
<1>5. /\ pageCount' \in 0 .. MaxPages
      /\ pageCount' >= pageCount
      /\ pageCount' > P
  BY <1>1, SizesAssumption DEF IInv, TypeOK, Make, PagesAfterReserve, PageIndex
<1>6. r = [page |-> P, slot |-> S, incarnation |-> old.stored[S] + 1] /\ r \in Ref
  BY <1>1, <1>2, <1>4 DEF IInv, TypeOK, RefTo, Ref, Page
<1>7. pages' \in [PageIndex -> Page]
  BY <1>1, <1>2, <1>3, <1>4 DEF IInv, TypeOK, Page
<1>8. TypeOK'
  BY <1>5, <1>6, <1>7 DEF IInv, TypeOK, Make
<1>9. FreeCountSound'
  <2>1. FreeSlots(pages'[P]) = FreeSlots(old) \ {S} /\ S \in FreeSlots(old)
    BY <1>1, <1>2, <1>3, <1>4 DEF IInv, TypeOK, FreeSlots, Page
  <2>2. Cardinality(FreeSlots(pages'[P])) = Cardinality(FreeSlots(old)) - 1
    BY <2>1, FreeSlotsFinite, FS_RemoveElement
  <2>3. pages'[P].freeCount = old.freeCount - 1
    BY <1>1, <1>4 DEF IInv, TypeOK
  <2>4. old.freeCount >= 1
    <3>1. CASE P = pageCount
      <4>1. old = NewPage
        BY <1>1, <3>1, SizesAssumption DEF IInv, TypeOK, UnallocatedUnused
      <4>2. QED
        BY <4>1, SizesAssumption DEF NewPage
    <3>2. CASE P # pageCount
      <4>1. PagesWithRoom(pages, pageCount) # {}
        BY <3>2 DEF NextPage, ReservedPage
      <4>2. PagesWithRoom(pages, pageCount) \subseteq Nat
        BY SizesAssumption DEF PagesWithRoom
      <4>3. P \in PagesWithRoom(pages, pageCount)
        BY <4>1, <4>2, SmallestExists DEF NextPage, ReservedPage
      <4>4. old.freeCount # 0 /\ old.freeCount >= 0 /\ old.freeCount \in Int
        BY <1>1, <1>2, <4>3 DEF PagesWithRoom, HasFreeSlot, IInv, FreeCountSound, Page
      <4>5. QED
        BY <4>4
    <3>3. QED
      BY <3>1, <3>2
  <2>5. \A p \in PageIndex \ {P} : pages'[p] = pages[p]
    BY <1>4 DEF IInv, TypeOK
  <2>6. Cardinality(FreeSlots(old)) \in Nat /\ old.freeCount \in Int
    BY <1>2, FreeSlotsFinite DEF Page
  <2>7. SUFFICES ASSUME NEW p \in PageIndex
                 PROVE  /\ pages'[p].freeCount >= 0
                        /\ pages'[p].freeCount + lost[p] = Cardinality(FreeSlots(pages'[p]))
    BY DEF FreeCountSound, Make
  <2>8. /\ pages[p].freeCount >= 0 /\ lost[p] \in Nat
        /\ pages[p].freeCount + lost[p] = Cardinality(FreeSlots(pages[p]))
    BY DEF IInv, FreeCountSound, TypeOK
  <2>9. CASE p = P
    BY <2>2, <2>3, <2>4, <2>6, <2>8, <2>9
  <2>10. CASE p # P
    BY <2>5, <2>8, <2>10
  <2>11. QED
    BY <2>9, <2>10
<1>10. UnallocatedUnused'
  BY <1>1, <1>4, <1>5, SizesAssumption DEF IInv, TypeOK, UnallocatedUnused, PageIndex
<1>11. ResidentIds'
  <2>1. /\ id.identifier = ManagedIndex(P, S)
        /\ id.generation = ((old.stored[S] + 1) % SlotModulus) % GenModulus
        /\ id.type = t
    BY DEF StoredId
  <2>2. SUFFICES ASSUME NEW p \in PageIndex, NEW s \in Slot, pages'[p].obj[s] # Nil
                 PROVE  \/ pages'[p].obj[s] = InvalidId
                        \/ /\ pages'[p].obj[s].identifier = ManagedIndex(p, s)
                           /\ pages'[p].obj[s].generation = (pages'[p].stored[s] % SlotModulus) % GenModulus
                           /\ pages'[p].obj[s].type \in Types
    BY DEF ResidentIds
  <2>3. CASE p = P /\ s = S
    BY <1>1, <1>2, <1>4, <2>1, <2>3 DEF IInv, TypeOK, Page
  <2>4. CASE ~(p = P /\ s = S)
    <3>1. /\ pages'[p].obj[s] = pages[p].obj[s]
          /\ pages'[p].stored[s] = pages[p].stored[s]
      BY <1>1, <1>2, <1>4, <2>4 DEF IInv, TypeOK, Page
    <3>2. QED
      BY <2>2, <3>1 DEF IInv, ResidentIds
  <2>5. QED
    BY <2>3, <2>4
<1>12. NamedIds' /\ OwnedNotNamed'
  <2>1. named' = named /\ owned' = owned \union {r}
    BY DEF Make
  <2>2. SUFFICES ASSUME NEW n \in named
                 PROVE  /\ n.ref.incarnation <= pages'[n.ref.page].stored[n.ref.slot]
                        /\ Alive(pages', n.ref) => IdOf(pages', n.ref) \in {n.id, InvalidId}
                        /\ n.ref # r
    BY <2>1 DEF IInv, NamedIds, OwnedNotNamed
  <2>3. /\ n.ref \in Ref
        /\ n.ref.page \in PageIndex /\ n.ref.slot \in Slot /\ n.ref.incarnation \in Nat
        /\ pages[n.ref.page].stored[n.ref.slot] \in Nat
        /\ n.ref.incarnation <= pages[n.ref.page].stored[n.ref.slot]
        /\ Alive(pages, n.ref) => IdOf(pages, n.ref) \in {n.id, InvalidId}
    BY DEF IInv, TypeOK, Named, Ref, Page, NamedIds
  <2>4. CASE n.ref.page = P /\ n.ref.slot = S
    <3>1. pages'[P].stored[S] = old.stored[S] + 1
      BY <1>1, <1>2, <1>4 DEF IInv, TypeOK, Page
    <3>2. QED
      BY <1>2, <1>6, <2>3, <2>4, <3>1 DEF Alive
  <2>5. CASE ~(n.ref.page = P /\ n.ref.slot = S)
    <3>1. /\ pages'[n.ref.page].obj[n.ref.slot] = pages[n.ref.page].obj[n.ref.slot]
          /\ pages'[n.ref.page].stored[n.ref.slot] = pages[n.ref.page].stored[n.ref.slot]
      BY <1>1, <1>2, <1>4, <2>3, <2>5 DEF IInv, TypeOK, Page
    <3>2. QED
      BY <1>6, <2>3, <2>5, <3>1 DEF Alive, IdOf
  <2>6. QED
    BY <2>4, <2>5
<1>13. OwnedAlive'
  <2>1. SUFFICES ASSUME NoWrap, NEW x \in owned \union {r}
                 PROVE  Alive(pages', x)
    BY DEF OwnedAlive, Make, NoWrap
  <2>2. CASE x = r
    BY <1>1, <1>2, <1>3, <1>4, <1>6, <2>2 DEF IInv, TypeOK, Page, Alive
  <2>3. CASE x # r
    <3>1. Alive(pages, x) /\ x.page \in PageIndex /\ x.slot \in Slot
      BY <2>1, <2>3 DEF IInv, OwnedAlive, TypeOK, Ref
    <3>2. ~(x.page = P /\ x.slot = S)
      BY <1>1, <3>1 DEF Alive
    <3>3. /\ pages'[x.page].obj[x.slot] = pages[x.page].obj[x.slot]
          /\ pages'[x.page].stored[x.slot] = pages[x.page].stored[x.slot]
      BY <1>1, <1>2, <1>4, <3>1, <3>2 DEF IInv, TypeOK, Page
    <3>4. QED
      BY <3>1, <3>3 DEF Alive
  <2>4. QED
    BY <2>2, <2>3
<1>15. StoresBounded'
  <2>1. old.stored[S] < MaxGeneration
    BY DEF Make
  <2>2. old.stored[S] + 1 <= MaxGeneration
    BY <1>2, <2>1, StorageAssumption
  <2>3. SUFFICES ASSUME NEW p \in PageIndex, NEW s \in Slot
                 PROVE  pages'[p].stored[s] <= MaxGeneration
    BY DEF StoresBounded
  <2>4. CASE p = P /\ s = S
    BY <1>1, <1>2, <1>4, <2>2, <2>4 DEF IInv, TypeOK, Page
  <2>5. CASE ~(p = P /\ s = S)
    BY <1>1, <1>2, <1>4, <2>5 DEF IInv, TypeOK, Page, StoresBounded
  <2>6. QED
    BY <2>4, <2>5
<1>14. QED
  BY <1>8, <1>9, <1>10, <1>11, <1>12, <1>13, <1>15 DEF IInv

(* A reservation that is not used: only a count goes down.                 *)
LEMMA MakeFailsStep ==
  ASSUME IInv, MakeFails
  PROVE  IInv'
<1> DEFINE P == NextPage
           old == pages[P]
<1>1. P \in PageIndex /\ P \in 0 .. pageCount
  <2>1. pages \in PageTable /\ pageCount \in 0 .. MaxPages
    BY DEF IInv, TypeOK, PageTable
  <2>2. \A p \in PageIndex : p >= pageCount => pages[p] = NewPage
    BY DEF IInv, UnallocatedUnused
  <2>3. ReservedPage(pages, pageCount) \in PageIndex
    BY DEF MakeFails, NextPage
  <2>4. QED
    BY <2>1, <2>2, <2>3, ReserveFindsRoom DEF NextPage
<1>2. old \in Page /\ pages \in [PageIndex -> Page]
  BY <1>1 DEF IInv, TypeOK
<1>3. pages' = [pages EXCEPT ![P] =
                  [freeCount |-> old.freeCount - 1, obj |-> old.obj, stored |-> old.stored]]
  <2>1. [old EXCEPT !.freeCount = @ - 1] =
          [freeCount |-> old.freeCount - 1, obj |-> old.obj, stored |-> old.stored]
    BY <1>2 DEF Page
  <2>2. QED
    BY <1>1, <1>2, <2>1 DEF MakeFails, Reserve
<1>4. /\ pageCount' \in 0 .. MaxPages
      /\ pageCount' >= pageCount
      /\ pageCount' > P
  BY <1>1, SizesAssumption DEF IInv, TypeOK, MakeFails, PagesAfterReserve, PageIndex
<1>5. pages' \in [PageIndex -> Page]
  BY <1>1, <1>2, <1>3 DEF Page
<1>14. lost' = [lost EXCEPT ![P] = lost[P] + 1] /\ lost \in [PageIndex -> Nat]
  BY DEF IInv, TypeOK, MakeFails
<1>15. lost' \in [PageIndex -> Nat]
  BY <1>1, <1>14
<1>6. TypeOK'
  BY <1>4, <1>5, <1>15 DEF IInv, TypeOK, MakeFails
<1>7. \A p \in PageIndex : /\ pages'[p].obj = pages[p].obj
                           /\ pages'[p].stored = pages[p].stored
                           /\ FreeSlots(pages'[p]) = FreeSlots(pages[p])
  BY <1>1, <1>2, <1>3 DEF FreeSlots
<1>8. FreeCountSound'
  <2>2. SUFFICES ASSUME NEW p \in PageIndex
                 PROVE  /\ pages'[p].freeCount >= 0
                        /\ pages'[p].freeCount + lost'[p] = Cardinality(FreeSlots(pages[p]))
    BY <1>7 DEF FreeCountSound
  <2>3. /\ pages[p].freeCount >= 0 /\ pages[p].freeCount \in Int
        /\ pages[p].freeCount + lost[p] = Cardinality(FreeSlots(pages[p]))
        /\ lost[p] \in Nat
    BY <1>2, <1>14 DEF IInv, FreeCountSound, Page
  <2>4. old.freeCount >= 1
    <3>1. CASE P = pageCount
      <4>1. old = NewPage
        BY <1>1, <3>1, SizesAssumption DEF IInv, TypeOK, UnallocatedUnused
      <4>2. QED
        BY <4>1, SizesAssumption DEF NewPage
    <3>2. CASE P # pageCount
      <4>1. PagesWithRoom(pages, pageCount) # {}
        BY <3>2 DEF NextPage, ReservedPage
      <4>2. PagesWithRoom(pages, pageCount) \subseteq Nat
        BY SizesAssumption DEF PagesWithRoom
      <4>3. P \in PagesWithRoom(pages, pageCount)
        BY <4>1, <4>2, SmallestExists DEF NextPage, ReservedPage
      <4>4. old.freeCount # 0 /\ old.freeCount >= 0 /\ old.freeCount \in Int
        BY <1>1, <1>2, <4>3 DEF PagesWithRoom, HasFreeSlot, IInv, FreeCountSound, Page
      <4>5. QED
        BY <4>4
    <3>3. QED
      BY <3>1, <3>2
  <2>5. Cardinality(FreeSlots(pages[p])) \in Nat
    BY FreeSlotsFinite
  <2>6. CASE p = P
    <3>1. pages'[p].freeCount = pages[p].freeCount - 1 /\ lost'[p] = lost[p] + 1
      BY <1>1, <1>2, <1>3, <1>14, <2>6
    <3>2. QED
      BY <2>3, <2>4, <2>5, <2>6, <3>1
  <2>7. CASE p # P
    BY <1>1, <1>2, <1>3, <1>14, <2>3, <2>7
  <2>8. QED
    BY <2>6, <2>7
<1>9. UnallocatedUnused'
  BY <1>1, <1>2, <1>3, <1>4, SizesAssumption DEF IInv, TypeOK, UnallocatedUnused, PageIndex
<1>10. ResidentIds' /\ StoresBounded'
  BY <1>7 DEF IInv, ResidentIds, StoresBounded, MakeFails
<1>11. NamedIds' /\ OwnedNotNamed'
  <2>1. \A n \in named : n.ref.page \in PageIndex
    BY DEF IInv, TypeOK, Named, Ref
  <2>2. QED
    BY <1>7, <2>1 DEF IInv, NamedIds, OwnedNotNamed, MakeFails, Alive, IdOf
<1>12. OwnedAlive'
  <2>1. \A r \in owned : r.page \in PageIndex
    BY DEF IInv, TypeOK, Ref
  <2>2. QED
    BY <1>7, <2>1 DEF IInv, OwnedAlive, MakeFails, Alive, NoWrap
<1>13. QED
  BY <1>6, <1>8, <1>9, <1>10, <1>11, <1>12 DEF IInv

(* free(): the object leaves its slot, provided it is not still owned; an  *)
(* object whose id does not lead back to it stays.                         *)
LEMMA FreeStep ==
  ASSUME IInv, NEW r \in Ref, Alive(pages, r),
         pages' = Free(pages, r), pageCount' = pageCount, named' = named,
         lost' = lost, owned' \subseteq owned, NoWrap => r \notin owned',
         found' \in Ref \union {Nil}, status' \in {"running", "faulted", "terminated"}
  PROVE  IInv'
<1> DEFINE P == r.page
           S == r.slot
           old == pages[P]
<1>1. P \in PageIndex /\ S \in Slot
  BY DEF Ref
<1>2. old \in Page /\ pages \in [PageIndex -> Page] /\ old.obj[S] # Nil
  BY <1>1 DEF IInv, TypeOK, Alive
<1>3. CASE pages' = pages
  <2>1. TypeOK'
    BY <1>3 DEF IInv, TypeOK
  <2>2. FreeCountSound' /\ UnallocatedUnused' /\ ResidentIds' /\ StoresBounded'
    BY <1>3 DEF IInv, FreeCountSound, UnallocatedUnused, ResidentIds, StoresBounded
  <2>3. NamedIds' /\ OwnedNotNamed' /\ OwnedAlive'
    BY <1>3 DEF IInv, NamedIds, OwnedNotNamed, OwnedAlive, NoWrap, Alive, IdOf
  <2>4. QED
    BY <2>1, <2>2, <2>3 DEF IInv
<1>4. CASE pages' = [pages EXCEPT ![P] = Vacate(@, S)]
  <2>2. pages' = [pages EXCEPT ![P] = [freeCount  |-> old.freeCount + 1,
                                       obj        |-> [old.obj EXCEPT ![S] = Nil],
                                       stored |-> old.stored]]
    BY <1>4 DEF Vacate
  <2>3. pages' \in [PageIndex -> Page]
    BY <1>1, <1>2, <2>2 DEF Page
  <2>4. \A p \in PageIndex, s \in Slot :
          /\ pages'[p].stored[s] = pages[p].stored[s]
          /\ pages'[p].obj[s] = IF p = P /\ s = S THEN Nil ELSE pages[p].obj[s]
    BY <1>1, <1>2, <2>2 DEF Page
  <2>5. TypeOK'
    BY <2>3 DEF IInv, TypeOK
  <2>6. FreeCountSound'
    <3>1. FreeSlots(pages'[P]) = FreeSlots(old) \union {S} /\ S \notin FreeSlots(old)
      BY <1>1, <1>2, <2>4 DEF FreeSlots
    <3>2. Cardinality(FreeSlots(pages'[P])) = Cardinality(FreeSlots(old)) + 1
      BY <3>1, FreeSlotsFinite, FS_AddElement
    <3>3. pages'[P].freeCount = old.freeCount + 1
      BY <1>1, <1>2, <2>2
    <3>4. SUFFICES ASSUME NEW p \in PageIndex
                   PROVE  /\ pages'[p].freeCount >= 0
                          /\ pages'[p].freeCount + lost[p] = Cardinality(FreeSlots(pages'[p]))
      BY DEF FreeCountSound
    <3>5. /\ pages[p].freeCount >= 0 /\ pages[p].freeCount \in Int /\ lost[p] \in Nat
          /\ pages[p].freeCount + lost[p] = Cardinality(FreeSlots(pages[p]))
          /\ Cardinality(FreeSlots(pages[p])) \in Nat
      BY <1>2, FreeSlotsFinite DEF IInv, FreeCountSound, TypeOK, Page
    <3>6. CASE p = P
      BY <3>2, <3>3, <3>5, <3>6
    <3>7. CASE p # P
      BY <1>1, <1>2, <2>2, <3>5, <3>7
    <3>8. QED
      BY <3>6, <3>7
  <2>7. UnallocatedUnused'
    <3>1. P < pageCount
      <4>1. \A s \in Slot : NewPage.obj[s] = Nil
        BY DEF NewPage
      <4>2. QED
        BY <1>1, <1>2, <4>1, SizesAssumption DEF IInv, TypeOK, UnallocatedUnused, PageIndex
    <3>2. QED
      BY <1>1, <1>2, <2>2, <3>1, SizesAssumption DEF IInv, TypeOK, UnallocatedUnused, PageIndex
  <2>8. ResidentIds' /\ StoresBounded'
    BY <2>4 DEF IInv, ResidentIds, StoresBounded
  <2>9. NamedIds' /\ OwnedNotNamed'
    <3>1. \A n \in named : n.ref.page \in PageIndex /\ n.ref.slot \in Slot
      BY DEF IInv, TypeOK, Named, Ref
    <3>2. QED
      BY <2>4, <3>1 DEF IInv, NamedIds, OwnedNotNamed, Alive, IdOf
  <2>10. OwnedAlive'
    <3>1. SUFFICES ASSUME NoWrap, NEW x \in owned' PROVE Alive(pages', x)
      BY DEF OwnedAlive, NoWrap
    <3>2. x \in Ref /\ x # r /\ Alive(pages, x)
      BY <3>1 DEF IInv, TypeOK, OwnedAlive
    <3>3. ~(x.page = P /\ x.slot = S)
      BY <3>2 DEF Ref, Alive
    <3>4. x.page \in PageIndex /\ x.slot \in Slot
      BY <3>2 DEF Ref
    <3>5. QED
      BY <2>4, <3>2, <3>3, <3>4 DEF Alive
  <2>11. QED
    BY <2>5, <2>6, <2>7, <2>8, <2>9, <2>10 DEF IInv
<1>5. QED
  BY <1>3, <1>4 DEF Free

(* close(): the object loses its id and keeps its slot.                    *)
LEMMA CloseStep ==
  ASSUME IInv, NEW r \in Ref, CloseStream(r)
  PROVE  IInv'
<1> DEFINE P == r.page
           S == r.slot
           old == pages[P]
<1>1. P \in PageIndex /\ S \in Slot
  BY DEF Ref
<1>2. old \in Page /\ pages \in [PageIndex -> Page] /\ old.obj[S] # Nil
  BY <1>1 DEF IInv, TypeOK, CloseStream, Alive
<1>3. pages' = [pages EXCEPT ![P] = Closed(old, S)]
  BY DEF CloseStream
<1>4. Closed(old, S) \in Page
  BY <1>1, <1>2, InvalidIdType DEF Closed, Page
<1>5. \A p \in PageIndex, s \in Slot :
        /\ pages'[p].stored[s] = pages[p].stored[s]
        /\ pages'[p].obj[s] = IF p = P /\ s = S THEN InvalidId ELSE pages[p].obj[s]
  BY <1>1, <1>2, <1>3 DEF Closed, Page
<1>6. /\ pageCount' = pageCount /\ owned' = owned /\ named' = named
      /\ lost' = lost /\ found' = found /\ status' = status
  BY DEF CloseStream
<1>7. TypeOK'
  BY <1>2, <1>3, <1>4, <1>6 DEF IInv, TypeOK
<1>8. FreeCountSound'
  <2>1. \A p \in PageIndex : FreeSlots(pages'[p]) = FreeSlots(pages[p])
    BY <1>1, <1>2, <1>5, InvalidIdType DEF FreeSlots
  <2>2. \A p \in PageIndex : pages'[p].freeCount = pages[p].freeCount
    BY <1>1, <1>2, <1>3 DEF Closed
  <2>3. QED
    BY <1>6, <2>1, <2>2 DEF IInv, FreeCountSound
<1>9. UnallocatedUnused'
  <2>1. \A s \in Slot : NewPage.obj[s] = Nil
    BY DEF NewPage
  <2>2. P < pageCount
    BY <1>1, <1>2, <2>1, SizesAssumption DEF IInv, TypeOK, UnallocatedUnused, PageIndex
  <2>3. QED
    BY <1>1, <1>2, <1>3, <1>6, <2>2, SizesAssumption DEF IInv, TypeOK, UnallocatedUnused, PageIndex
<1>10. ResidentIds' /\ StoresBounded'
  BY <1>5 DEF IInv, ResidentIds, StoresBounded
<1>11. NamedIds' /\ OwnedNotNamed'
  <2>1. \A n \in named : n.ref.page \in PageIndex /\ n.ref.slot \in Slot
    BY DEF IInv, TypeOK, Named, Ref
  <2>2. Nil # InvalidId
    BY InvalidIdType
  <2>3. \A n \in named : Alive(pages', n.ref) => /\ Alive(pages, n.ref)
                                               /\ IdOf(pages', n.ref) \in {IdOf(pages, n.ref), InvalidId}
    BY <1>1, <1>2, <1>5, <2>1 DEF Alive, IdOf
  <2>4. QED
    BY <1>5, <1>6, <2>1, <2>3 DEF IInv, NamedIds, OwnedNotNamed
<1>12. OwnedAlive'
  <2>1. \A x \in owned : x.page \in PageIndex /\ x.slot \in Slot
    BY DEF IInv, TypeOK, Ref
  <2>2. QED
    BY <1>5, <1>6, <2>1, InvalidIdType DEF IInv, OwnedAlive, Alive, NoWrap
<1>13. QED
  BY <1>7, <1>8, <1>9, <1>10, <1>11, <1>12 DEF IInv

(* An id leaves for the client: what is named from now on is alive, holds  *)
(* the id, and is owned no longer.                                         *)
LEMMA ReleaseStep ==
  ASSUME IInv, NEW r \in Ref, Release(r)
  PROVE  IInv'
<1> DEFINE new == [id |-> IdOf(pages, r), ref |-> r]
<1>1. r.page \in PageIndex /\ r.slot \in Slot
  BY DEF Ref
<1>2. /\ pages' = pages /\ pageCount' = pageCount /\ found' = found /\ status' = status
      /\ owned' = owned \ {r} /\ named' = named \union {new} /\ lost' = lost
      /\ Alive(pages, r) /\ IdOf(pages, r) # InvalidId
  BY DEF Release
<1>3. IdOf(pages, r) \in ObjId
  BY <1>1, <1>2 DEF IInv, TypeOK, Page, Alive, IdOf
<1>4. new \in Named
  BY <1>3 DEF Named
<1>5. TypeOK'
  BY <1>2, <1>4 DEF IInv, TypeOK
<1>6. FreeCountSound' /\ UnallocatedUnused' /\ ResidentIds' /\ StoresBounded'
  BY <1>2 DEF IInv, FreeCountSound, UnallocatedUnused, ResidentIds, StoresBounded
<1>7. NamedIds'
  <2>1. /\ new.id.identifier = ManagedIndex(r.page, r.slot)
        /\ new.id.generation = (pages[r.page].stored[r.slot] % SlotModulus) % GenModulus
        /\ new.id.type \in Types
    BY <1>1, <1>2 DEF IInv, ResidentIds, Alive, IdOf
  <2>2. pages[r.page].stored[r.slot] = r.incarnation /\ r.incarnation \in Nat
    BY <1>2 DEF Alive, Ref
  <2>3. QED
    BY <1>2, <2>1, <2>2 DEF IInv, NamedIds, IdOf, Alive
<1>8. OwnedNotNamed' /\ OwnedAlive'
  BY <1>2 DEF IInv, OwnedNotNamed, OwnedAlive, Alive, NoWrap
<1>9. QED
  BY <1>5, <1>6, <1>7, <1>8 DEF IInv

(* A step that only answers, or ends the program.                          *)
LEMMA IdleStep ==
  ASSUME IInv, pages' = pages, pageCount' = pageCount, named' = named,
         lost' = lost, owned' \subseteq owned,
         found' \in Ref \union {Nil}, status' \in {"running", "faulted", "terminated"}
  PROVE  IInv'
<1>1. TypeOK'
  BY DEF IInv, TypeOK
<1>2. FreeCountSound' /\ UnallocatedUnused' /\ ResidentIds' /\ StoresBounded'
  BY DEF IInv, FreeCountSound, UnallocatedUnused, ResidentIds, StoresBounded
<1>3. NamedIds' /\ OwnedNotNamed' /\ OwnedAlive'
  BY DEF IInv, NamedIds, OwnedNotNamed, OwnedAlive, NoWrap, Alive, IdOf
<1>4. QED
  BY <1>1, <1>2, <1>3 DEF IInv

-----------------------------------------------------------------------------
(* Every step keeps the invariant                                          *)

(* Every step keeps the invariant.                                         *)
LEMMA NextIInv == IInv /\ [Next]_vars => IInv'
<1> SUFFICES ASSUME IInv, [Next]_vars PROVE IInv'
  OBVIOUS
<1>1. /\ owned \subseteq Ref
      /\ \A n \in named : n.ref \in Ref
      /\ found \in Ref \union {Nil}
      /\ status \in {"running", "faulted", "terminated"}
  BY DEF IInv, TypeOK, Named
<1>2. ASSUME NEW t \in Types, Make(t) PROVE IInv'
  BY <1>2, MakeStep
<1>3. CASE MakeFails
  BY <1>3, MakeFailsStep
<1>4. ASSUME NEW r \in owned, Release(r) PROVE IInv'
  BY <1>1, <1>4, ReleaseStep
<1>5. ASSUME NEW r \in owned, DeleteOwned(r) PROVE IInv'
  <2>1. r \in Ref /\ Alive(pages, r) /\ owned' = owned \ {r}
        /\ pageCount' = pageCount /\ named' = named /\ lost' = lost /\ found' = found
    BY <1>1, <1>5 DEF DeleteOwned
  <2>2. CASE OutOfRange(IdOf(pages, r), pageCount)
    BY <1>1, <1>5, <2>1, <2>2, IdleStep DEF DeleteOwned
  <2>3. CASE ~OutOfRange(IdOf(pages, r), pageCount)
    <3>1. pages' = Free(pages, r) /\ status' = status
      BY <1>5, <2>3 DEF DeleteOwned
    <3>2. QED
      BY <1>1, <2>1, <3>1, FreeStep
  <2>4. QED
    BY <2>2, <2>3
<1>6. ASSUME NEW r \in owned, DeleteDangling(r) PROVE IInv'
  BY <1>1, <1>6, IdleStep DEF DeleteDangling
<1>7. ASSUME NEW r \in owned \union {n.ref : n \in named}, CloseStream(r) PROVE IInv'
  BY <1>1, <1>7, CloseStep
<1>8. ASSUME NEW n \in named, Lookup(n.id) PROVE IInv'
  <2>1. found' \in Ref \union {Nil}
    BY <1>8, GetType DEF Lookup, IInv
  <2>2. QED
    BY <1>1, <1>8, <2>1, IdleStep DEF Lookup
<1>9. ASSUME NEW n \in named, ObjectFree(n.id) PROVE IInv'
  <2>1. /\ found' = Get(pages, n.id)
        /\ pageCount' = pageCount /\ owned' = owned /\ named' = named
        /\ lost' = lost /\ status' = status
    BY <1>9 DEF ObjectFree
  <2>2. CASE found' = Nil
    BY <1>1, <1>9, <2>1, <2>2, IdleStep DEF ObjectFree
  <2>3. CASE found' # Nil
    <3>1. found' \in Ref /\ Alive(pages, found')
      BY <2>1, <2>3, GetType DEF IInv
    <3>2. NoWrap => found' = n.ref
      BY <2>1, <2>3, GetReturns DEF IInv
    <3>3. NoWrap => found' \notin owned'
      BY <2>1, <3>2 DEF IInv, OwnedNotNamed
    <3>4. pages' = Free(pages, found')
      BY <1>9, <2>3 DEF ObjectFree
    <3>5. PICK x \in Ref : x = found'
      BY <3>1
    <3>6. QED
      BY <1>1, <2>1, <3>1, <3>3, <3>4, <3>5, FreeStep
  <2>4. QED
    BY <2>2, <2>3
<1>10. ASSUME NEW n \in named, NullDereference(n.id) PROVE IInv'
  BY <1>1, <1>10, IdleStep DEF NullDereference
<1>11. CASE UNCHANGED vars
  BY <1>1, <1>11, IdleStep DEF vars
<1>12. QED
  BY <1>2, <1>3, <1>4, <1>5, <1>6, <1>7, <1>8, <1>9, <1>10, <1>11 DEF Next

(* The conjunction of the parts above holds in every reachable state.      *)
THEOREM StorageInvariant == Spec => []IInv
  BY InitIInv, NextIInv, PTL DEF Spec

(* The variables have their types: in particular every get() of an id a    *)
(* client holds reads a page that is there.                                *)
THEOREM StorageTypes == Spec => []TypeOK
<1>1. IInv => TypeOK
  BY DEF IInv
<1>2. QED
  BY <1>1, StorageInvariant, PTL

(* mCachedFreeSlotCount is right for every page length and page count.     *)
THEOREM FreeCountsAreSound == Spec => []FreeCountSound
<1>1. IInv => FreeCountSound
  BY DEF IInv
<1>2. QED
  BY <1>1, StorageInvariant, PTL

(* A kept id finds the object it was given for or nothing, for every width *)
(* of the generation and however often it wraps, until the slot's own       *)
(* generation, of SlotModulus values, would.                               *)
THEOREM StaleIdsNeverAlias == Spec => []StaleIdNeverAliases
<1>1. IInv => StaleIdNeverAliases
  BY GetReturns DEF IInv, StaleIdNeverAliases
<1>2. QED
  BY <1>1, StorageInvariant, PTL

(* No free by id takes an object from its C++ owner.                       *)
THEOREM OwnedStayAlive == Spec => []OwnedAlive
<1>1. IInv => OwnedAlive
  BY DEF IInv
<1>2. QED
  BY <1>1, StorageInvariant, PTL

(* The argument of the theorem below: the generation in such an id is the  *)
(* whole incarnation, and the slot's.                                      *)
LEMMA ResolvesWhileFits ==
  ASSUME IInv
  PROVE  LiveResolvesUntilWrap
<1> SUFFICES ASSUME NoIdentifierWrap, NEW n \in named,
                    n.ref.incarnation < GenModulus,
                    Alive(pages, n.ref), IdOf(pages, n.ref) # InvalidId
             PROVE  Get(pages, n.id) = n.ref
  BY DEF LiveResolvesUntilWrap
<1> DEFINE r == n.ref
<1>1. n.id \in ObjId /\ r \in Ref
  BY DEF IInv, TypeOK, Named
<1>2. r.page \in PageIndex /\ r.slot \in Slot /\ r.incarnation \in Nat
  BY <1>1 DEF Ref
<1>3. PageOf(n.id) = r.page /\ SlotOf(n.id) = r.slot
  BY <1>2, IndexRoundTrip DEF IInv, NamedIds, PageOf, SlotOf
<1>4. n.id.generation = r.incarnation
  <2>1. r.incarnation % SlotModulus = r.incarnation
    BY <1>2, SizesAssumption
  <2>2. QED
    BY <1>2, <2>1, SizesAssumption DEF IInv, NamedIds
<1>5. pages[r.page].stored[r.slot] = r.incarnation /\ pages[r.page].obj[r.slot] = n.id
  BY DEF IInv, NamedIds, Alive, IdOf
<1>8. SlotGeneration(pages[r.page], r.slot) = r.incarnation
  BY <1>2, <1>5, SizesAssumption DEF SlotGeneration
<1>6. Get(pages, n.id) = RefTo(pages, r.page, r.slot)
  BY <1>3, <1>4, <1>5, <1>8 DEF Get, Overwritten
<1>7. QED
  BY <1>1, <1>5, <1>6 DEF RefTo, Ref

(* An object that was neither freed nor closed is found by its id while    *)
(* its slot's generation still fits the id's bits, however wide they are.  *)
THEOREM LiveObjectsResolve == Spec => []LiveResolvesUntilWrap
<1>1. IInv => LiveResolvesUntilWrap
  BY ResolvesWhileFits
<1>2. QED
  BY <1>1, StorageInvariant, PTL

(* A page is appended only when the slots of every page there is are taken *)
(* or were lost to a failed allocation.                                    *)
THEOREM MemoryGrowsOnlyWhenFull == Spec => GrowsOnlyWhenFull
<1> DEFINE Grows == pageCount' # pageCount =>
                      \A p \in 0 .. pageCount - 1 : Cardinality(FreeSlots(pages[p])) = lost[p]
<1>1. IInv /\ [Next]_vars => [Grows]_vars
  <2> SUFFICES ASSUME IInv, Next, pageCount' # pageCount,
                      NEW p \in 0 .. pageCount - 1
               PROVE  Cardinality(FreeSlots(pages[p])) = lost[p]
    BY DEF vars
  <2>1. NextPage \in PageIndex /\ pageCount' = PagesAfterReserve(pageCount, NextPage)
    BY DEF Next, Make, MakeFails, Release, DeleteOwned, DeleteDangling, CloseStream,
           Lookup, ObjectFree, NullDereference
  <2>2. NextPage = pageCount
    BY <2>1 DEF PagesAfterReserve
  <2>3. pages \in PageTable /\ pageCount \in 0 .. MaxPages
    BY DEF IInv, TypeOK, PageTable
  <2>4. ~HasFreeSlot(pages[p])
    BY <2>1, <2>2, <2>3, ReserveFindsRoom DEF IInv, UnallocatedUnused, NextPage
  <2>5. p \in PageIndex
    BY <2>1, <2>2, SizesAssumption DEF PageIndex
  <2>6. /\ pages[p].freeCount >= 0 /\ pages[p].freeCount \in Int /\ lost[p] \in Nat
        /\ pages[p].freeCount + lost[p] = Cardinality(FreeSlots(pages[p]))
    BY <2>5 DEF IInv, FreeCountSound, TypeOK, Page
  <2>7. FreeSlots(pages[p]) = {} => Cardinality(FreeSlots(pages[p])) = 0
    BY FS_EmptySet
  <2>8. QED
    BY <2>4, <2>6, <2>7 DEF HasFreeSlot
<1>2. QED
  BY <1>1, StorageInvariant, PTL DEF Spec, GrowsOnlyWhenFull
-----------------------------------------------------------------------------
(* The storage implements the table of handles, as long as the slots do    *)
(* not outnumber the identifiers: each call maps to one action of          *)
(* HandleTable, or to none.                                                *)

(* The state of the table of handles, as the refinement mapping has it     *)

Created == {r \in RefSpace : r.incarnation <= pages[r.page].stored[r.slot]}

DetachedRefs == {r \in Residents : IdOf(pages, r) = InvalidId}

Given == {<<n.id, n.ref>> : n \in named}

(* A slot that is taken was stored to.                                     *)
Counted ==
  \A p \in PageIndex, s \in Slot :
    pages[p].obj[s] # Nil => pages[p].stored[s] >= 1

(* The inductive invariant of the refinement.                              *)
RInv == IInv /\ Counted

(* The residents are the references that are alive.                        *)
LEMMA ResidentsAreAlive ==
  RInv => /\ \A r \in Residents : r \in Ref /\ r \in RefSpace /\ Alive(pages, r)
          /\ \A r \in Ref : Alive(pages, r) => r \in Residents
<1> SUFFICES ASSUME RInv
             PROVE  /\ \A r \in Residents : r \in Ref /\ r \in RefSpace /\ Alive(pages, r)
                    /\ \A r \in Ref : Alive(pages, r) => r \in Residents
  OBVIOUS
<1>1. \A p \in PageIndex, s \in Slot : pages[p].stored[s] \in Nat
  BY DEF RInv, IInv, TypeOK, Page
<1>2. ASSUME NEW r \in Residents PROVE r \in Ref /\ r \in RefSpace /\ Alive(pages, r)
  <2>1. PICK ps \in PageIndex \X Slot :
          pages[ps[1]].obj[ps[2]] # Nil /\ r = RefTo(pages, ps[1], ps[2])
    BY DEF Residents
  <2>2. /\ r.page = ps[1] /\ r.slot = ps[2]
        /\ r.incarnation = pages[ps[1]].stored[ps[2]]
        /\ r = [page |-> ps[1], slot |-> ps[2], incarnation |-> r.incarnation]
    BY <2>1 DEF RefTo
  <2>3. r.incarnation \in 1 .. MaxGeneration
    BY <1>1, <2>1, <2>2, StorageAssumption DEF RInv, IInv, Counted, StoresBounded
  <2>4. QED
    BY <1>1, <2>1, <2>2, <2>3 DEF Ref, RefSpace, Alive
<1>3. ASSUME NEW r \in Ref, Alive(pages, r) PROVE r \in Residents
  <2>1. <<r.page, r.slot>> \in PageIndex \X Slot /\ r = RefTo(pages, r.page, r.slot)
    BY <1>3 DEF Ref, Alive, RefTo
  <2>2. pages[r.page].obj[r.slot] # Nil
    BY <1>3 DEF Alive
  <2>3. QED
    BY <2>1, <2>2 DEF Residents
<1>4. QED
  BY <1>2, <1>3

(* The same after a step.                                                  *)
LEMMA ResidentsAreAliveNext ==
  RInv' => /\ \A r \in Residents' : r \in Ref /\ r \in RefSpace /\ Alive(pages', r)
           /\ \A r \in Ref : Alive(pages', r) => r \in Residents'
<1>1. (RInv => /\ \A r \in Residents : r \in Ref /\ r \in RefSpace /\ Alive(pages, r)
               /\ \A r \in Ref : Alive(pages, r) => r \in Residents)'
  BY ResidentsAreAlive, PTL
<1>2. QED
  BY <1>1

-----------------------------------------------------------------------------
(* The invariant                                                           *)

(* No slot is taken in the beginning.                                      *)
LEMMA InitRInv == Init => RInv
<1>1. Init => Counted
  BY StorageAssumption DEF Init, Counted, NewPage
<1>2. QED
  BY <1>1, InitIInv DEF RInv

(* How each kind of step changes the slots and the counts of stores.       *)
LEMMA MakeCounts ==
  ASSUME IInv, NEW t \in Types, Make(t)
  PROVE  /\ NextPage \in PageIndex /\ NextSlot \in Slot
         /\ pages[NextPage].obj[NextSlot] = Nil
         /\ pages[NextPage].stored[NextSlot] \in 0 .. MaxGeneration - 1
         /\ pages'[NextPage].obj[NextSlot] = StoredId(pages[NextPage], NextPage, NextSlot, t)
         /\ pages'[NextPage].obj[NextSlot] \notin {Nil, InvalidId}
         /\ \A p \in PageIndex, s \in Slot :
              IF p = NextPage /\ s = NextSlot
              THEN pages'[p].stored[s] = pages[p].stored[s] + 1
              ELSE /\ pages'[p].stored[s] = pages[p].stored[s]
                   /\ pages'[p].obj[s] = pages[p].obj[s]
<1> DEFINE P == NextPage
           S == NextSlot
           old == pages[P]
           id == StoredId(old, P, S, t)
<1>1. /\ P \in PageIndex /\ S \in Slot /\ old.obj[S] = Nil
      /\ old \in Page /\ old.stored[S] \in Nat /\ id # Nil
  BY MakeShape
<1>2. pages' = [pages EXCEPT ![P] =
                  [freeCount  |-> old.freeCount - 1,
                   obj        |-> [old.obj EXCEPT ![S] = id],
                   stored |-> [old.stored EXCEPT ![S] = old.stored[S] + 1]]]
  BY MakeShape
<1>3. old.stored[S] \in 0 .. MaxGeneration - 1
  BY <1>1, StorageAssumption DEF Make
<1>4. id # InvalidId
  BY NoTypeAssumption DEF StoredId, InvalidId
<1>5. pages \in [PageIndex -> Page]
  BY DEF IInv, TypeOK
<1>6. /\ pages'[P].obj = [old.obj EXCEPT ![S] = id]
      /\ pages'[P].stored = [old.stored EXCEPT ![S] = old.stored[S] + 1]
      /\ \A p \in PageIndex \ {P} : pages'[p] = pages[p]
  BY <1>1, <1>2, <1>5
<1>7. pages'[P].obj[S] = id /\ pages'[P].stored[S] = old.stored[S] + 1
  BY <1>1, <1>6 DEF Page
<1>8. \A s \in Slot \ {S} : /\ pages'[P].stored[s] = pages[P].stored[s]
                            /\ pages'[P].obj[s] = pages[P].obj[s]
  BY <1>1, <1>6 DEF Page
<1>9. QED
  BY <1>1, <1>3, <1>4, <1>6, <1>7, <1>8

(* A reservation changes a count of free slots only.                       *)
LEMMA MakeFailsKeeps ==
  ASSUME IInv, MakeFails, NEW p \in PageIndex, NEW s \in Slot
  PROVE  /\ pages'[p].stored[s] = pages[p].stored[s]
         /\ pages'[p].obj[s] = pages[p].obj[s]
<1>1. pages \in [PageIndex -> Page] /\ pages' = Reserve(pages, NextPage) /\ NextPage \in PageIndex
  BY DEF IInv, TypeOK, MakeFails
<1>2. pages[NextPage] \in Page
  BY <1>1
<1>3. /\ pages'[NextPage].stored = pages[NextPage].stored
      /\ pages'[NextPage].obj = pages[NextPage].obj
  BY <1>1, <1>2 DEF Reserve, Page
<1>4. p # NextPage => pages'[p] = pages[p]
  BY <1>1 DEF Reserve
<1>5. QED
  BY <1>3, <1>4

(* free() empties one slot and counts nothing.                             *)
LEMMA VacateKeeps ==
  ASSUME IInv, NEW r \in Ref, pages' = [pages EXCEPT ![r.page] = Vacate(@, r.slot)],
         NEW p \in PageIndex, NEW s \in Slot
  PROVE  /\ pages'[p].stored[s] = pages[p].stored[s]
         /\ pages'[p].obj[s] = IF p = r.page /\ s = r.slot THEN Nil ELSE pages[p].obj[s]
<1>1. r.page \in PageIndex /\ r.slot \in Slot /\ pages \in [PageIndex -> Page]
  BY DEF Ref, IInv, TypeOK
<1>2. /\ pages'[r.page].stored = pages[r.page].stored
      /\ pages'[r.page].obj = [pages[r.page].obj EXCEPT ![r.slot] = Nil]
      /\ p # r.page => pages'[p] = pages[p]
  BY <1>1 DEF Vacate
<1>3. pages[r.page] \in Page
  BY <1>1
<1>4. QED
  BY <1>1, <1>2, <1>3 DEF Page

(* close() changes the id in one slot and counts nothing.                  *)
LEMMA CloseKeeps ==
  ASSUME IInv, NEW r \in Ref, CloseStream(r), NEW p \in PageIndex, NEW s \in Slot
  PROVE  /\ pages'[p].stored[s] = pages[p].stored[s]
         /\ pages'[p].obj[s] = IF p = r.page /\ s = r.slot THEN InvalidId ELSE pages[p].obj[s]
<1>1. r.page \in PageIndex /\ r.slot \in Slot /\ pages \in [PageIndex -> Page]
  BY DEF Ref, IInv, TypeOK
<1>2. /\ pages'[r.page].stored = pages[r.page].stored
      /\ pages'[r.page].obj = [pages[r.page].obj EXCEPT ![r.slot] = InvalidId]
      /\ p # r.page => pages'[p] = pages[p]
  BY <1>1 DEF Closed, CloseStream
<1>3. pages[r.page] \in Page
  BY <1>1
<1>4. QED
  BY <1>1, <1>2, <1>3 DEF Page

(* A step changes the pages in one of these ways.                          *)
LEMMA PagesChange ==
  ASSUME IInv, Next, pages' # pages
  PROVE  \/ \E t \in Types : Make(t)
         \/ MakeFails
         \/ \E r \in Ref : /\ Alive(pages, r)
                           /\ pages' = [pages EXCEPT ![r.page] = Vacate(@, r.slot)]
         \/ \E r \in Ref : CloseStream(r)
<1>1. owned \subseteq Ref /\ \A n \in named : n.ref \in Ref
  BY DEF IInv, TypeOK, Named
<1>2. ASSUME NEW r \in owned, DeleteOwned(r)
      PROVE  r \in Ref /\ Alive(pages, r) /\ pages' = [pages EXCEPT ![r.page] = Vacate(@, r.slot)]
  BY <1>1, <1>2 DEF DeleteOwned, Free
<1>3. ASSUME NEW n \in named, ObjectFree(n.id)
      PROVE  \E r \in Ref : /\ Alive(pages, r)
                            /\ pages' = [pages EXCEPT ![r.page] = Vacate(@, r.slot)]
  <2>1. Get(pages, n.id) # Nil /\ pages' = Free(pages, Get(pages, n.id))
    BY <1>3 DEF ObjectFree
  <2>2. Get(pages, n.id) \in Ref /\ Alive(pages, Get(pages, n.id))
    BY <2>1, GetType DEF IInv
  <2>3. QED
    BY <2>1, <2>2 DEF Free
<1>4. ASSUME NEW r \in owned \union {n.ref : n \in named}, CloseStream(r) PROVE r \in Ref
  BY <1>1
<1>5. CASE \E r \in owned : Release(r) \/ DeleteDangling(r)
  BY <1>5 DEF Release, DeleteDangling
<1>6. CASE \E n \in named : Lookup(n.id) \/ NullDereference(n.id)
  BY <1>6 DEF Lookup, NullDereference
<1>7. QED
  BY <1>2, <1>3, <1>4, <1>5, <1>6 DEF Next

(* Every step keeps the invariant.                                         *)
LEMMA NextRInv == RInv /\ [Next]_vars => RInv'
<1> SUFFICES ASSUME RInv, [Next]_vars PROVE RInv'
  OBVIOUS
<1>1. IInv'
  BY NextIInv DEF RInv
<1>2. Counted'
  <2>1. SUFFICES ASSUME NEW p \in PageIndex, NEW s \in Slot
                 PROVE  pages'[p].obj[s] # Nil => pages'[p].stored[s] >= 1
    BY DEF Counted
  <2>2. /\ pages[p].stored[s] \in Nat
        /\ pages[p].obj[s] # Nil => pages[p].stored[s] >= 1
    BY DEF RInv, IInv, TypeOK, Page, Counted
  <2>3. CASE pages' = pages
    BY <2>2, <2>3
  <2>4. ASSUME NEW t \in Types, Make(t)
        PROVE  pages'[p].obj[s] # Nil => pages'[p].stored[s] >= 1
    <3>1. CASE p = NextPage /\ s = NextSlot
      <4>1. /\ pages[p].stored[s] \in 0 .. MaxGeneration - 1
            /\ pages'[p].stored[s] = pages[p].stored[s] + 1
        BY <2>4, <3>1, MakeCounts DEF RInv
      <4>2. QED
        BY <4>1, StorageAssumption
    <3>2. CASE ~(p = NextPage /\ s = NextSlot)
      BY <2>2, <2>4, <3>2, MakeCounts DEF RInv
    <3>3. QED
      BY <3>1, <3>2
  <2>5. CASE MakeFails
    BY <2>2, <2>5, MakeFailsKeeps DEF RInv
  <2>6. CASE \E r \in Ref : pages' = [pages EXCEPT ![r.page] = Vacate(@, r.slot)]
    BY <2>2, <2>6, VacateKeeps DEF RInv
  <2>7. ASSUME NEW r \in Ref, CloseStream(r)
        PROVE  pages'[p].obj[s] # Nil => pages'[p].stored[s] >= 1
    <3>1. pages[p].obj[s] # Nil \/ ~(p = r.page /\ s = r.slot)
      BY <2>7 DEF CloseStream, Alive
    <3>2. QED
      BY <2>2, <2>7, <3>1, CloseKeeps DEF RInv
  <2>8. QED
    BY <2>3, <2>4, <2>5, <2>6, <2>7, PagesChange DEF RInv, vars
<1>3. QED
  BY <1>1, <1>2 DEF RInv

-----------------------------------------------------------------------------
(* Each kind of step in the table of handles                               *)

(* make<T>() creates an object there has not been.                         *)
LEMMA MakeCreates ==
  ASSUME RInv, RInv', NEW t \in Types, Make(t)
  PROVE  \E o \in RefSpace : /\ o \notin Created
                             /\ Created' = Created \union {o}
                             /\ Residents' = Residents \union {o}
                             /\ DetachedRefs' = DetachedRefs
<1> DEFINE P == NextPage
           S == NextSlot
           old == pages[P].stored[S]
           o == [page |-> P, slot |-> S, incarnation |-> old + 1]
<1>1. /\ P \in PageIndex /\ S \in Slot
      /\ pages[P].obj[S] = Nil /\ old \in 0 .. MaxGeneration - 1
      /\ pages'[P].obj[S] \notin {Nil, InvalidId}
      /\ pages'[P].stored[S] = old + 1
  BY MakeCounts DEF RInv
<1>2. \A p \in PageIndex, s \in Slot :
        ~(p = P /\ s = S) => /\ pages'[p].stored[s] = pages[p].stored[s]
                             /\ pages'[p].obj[s] = pages[p].obj[s]
  BY MakeCounts DEF RInv
<1>3. o \in RefSpace /\ o \in Ref
  BY <1>1, StorageAssumption DEF RefSpace, Ref
<1>4. \A r \in Ref : (r.page = P /\ r.slot = S /\ r.incarnation = old + 1) => r = o
  BY DEF Ref
<1>5. \A r \in Ref : /\ ~(r.page = P /\ r.slot = S) => (Alive(pages', r) <=> Alive(pages, r))
                     /\ ~(r.page = P /\ r.slot = S) => IdOf(pages', r) = IdOf(pages, r)
                     /\ (r.page = P /\ r.slot = S) => ~Alive(pages, r)
                     /\ (r.page = P /\ r.slot = S /\ Alive(pages', r)) => r = o
  BY <1>1, <1>2, <1>4 DEF Ref, Alive, IdOf
<1>6. Alive(pages', o)
  BY <1>1 DEF Alive
<1>7. Residents' = Residents \union {o}
  BY <1>3, <1>5, <1>6, ResidentsAreAlive, ResidentsAreAliveNext
<1>8. DetachedRefs' = DetachedRefs
  <2>1. IdOf(pages', o) # InvalidId
    BY <1>1 DEF IdOf
  <2>2. \A r \in Residents : r \in Ref /\ Alive(pages, r)
    BY ResidentsAreAlive
  <2>3. \A r \in Residents : IdOf(pages', r) = IdOf(pages, r)
    BY <1>5, <2>2
  <2>4. QED
    BY <1>7, <2>1, <2>3 DEF DetachedRefs
<1>9. o \notin Created /\ Created' = Created \union {o}
  <2>1. o \notin Created
    BY <1>1 DEF Created
  <2>2. ASSUME NEW r \in RefSpace
        PROVE  r.incarnation <= pages'[r.page].stored[r.slot]
                 <=> (r.incarnation <= pages[r.page].stored[r.slot] \/ r = o)
    <3>1. r.page \in PageIndex /\ r.slot \in Slot /\ r.incarnation \in Nat
      BY DEF RefSpace
    <3>2. CASE r.page = P /\ r.slot = S
      <4>1. (r.incarnation = old + 1) <=> (r = o)
        BY <3>2 DEF RefSpace
      <4>2. QED
        BY <1>1, <3>1, <3>2, <4>1
    <3>3. CASE ~(r.page = P /\ r.slot = S)
      BY <1>2, <3>1, <3>3
    <3>4. QED
      BY <3>2, <3>3
  <2>3. QED
    BY <1>3, <2>1, <2>2 DEF Created
<1>10. QED
  BY <1>3, <1>7, <1>8, <1>9

(* What leaves a slot leaves the living objects, and no others do.         *)
LEMMA VacateDestroys ==
  ASSUME RInv, RInv', NEW r \in Ref, Alive(pages, r),
         pages' = [pages EXCEPT ![r.page] = Vacate(@, r.slot)]
  PROVE  /\ r \in Residents
         /\ Created' = Created
         /\ Residents' = Residents \ {r}
         /\ DetachedRefs' = DetachedRefs \ {r}
<1>1. \A p \in PageIndex, s \in Slot :
        /\ pages'[p].stored[s] = pages[p].stored[s]
        /\ pages'[p].obj[s] = IF p = r.page /\ s = r.slot THEN Nil ELSE pages[p].obj[s]
  BY VacateKeeps DEF RInv
<1>2. r \in Residents
  BY ResidentsAreAlive
<1>3. Created' = Created
  BY <1>1 DEF Created, RefSpace
<1>4. \A x \in Ref : /\ (x.page = r.page /\ x.slot = r.slot) => ~Alive(pages', x)
                     /\ (x.page = r.page /\ x.slot = r.slot /\ Alive(pages, x)) => x = r
                     /\ ~(x.page = r.page /\ x.slot = r.slot) =>
                          /\ Alive(pages', x) <=> Alive(pages, x)
                          /\ IdOf(pages', x) = IdOf(pages, x)
  BY <1>1 DEF Ref, Alive, IdOf
<1>5. Residents' = Residents \ {r}
  BY <1>4, ResidentsAreAlive, ResidentsAreAliveNext
<1>6. \A x \in Residents \ {r} : IdOf(pages', x) = IdOf(pages, x)
  BY <1>4, ResidentsAreAlive
<1>7. DetachedRefs' = DetachedRefs \ {r}
  BY <1>5, <1>6 DEF DetachedRefs
<1>8. QED
  BY <1>2, <1>3, <1>5, <1>7

(* close() detaches the object from its id.                                *)
LEMMA CloseDetaches ==
  ASSUME RInv, RInv', NEW r \in Ref, CloseStream(r)
  PROVE  /\ r \in Residents
         /\ Created' = Created
         /\ Residents' = Residents
         /\ DetachedRefs' = DetachedRefs \union {r}
<1>1. \A p \in PageIndex, s \in Slot :
        /\ pages'[p].stored[s] = pages[p].stored[s]
        /\ pages'[p].obj[s] = IF p = r.page /\ s = r.slot THEN InvalidId ELSE pages[p].obj[s]
  BY CloseKeeps DEF RInv
<1>2. Alive(pages, r) /\ r \in Residents
  BY ResidentsAreAlive DEF CloseStream
<1>3. Created' = Created
  BY <1>1 DEF Created, RefSpace
<1>4. \A x \in Ref : /\ Alive(pages', x) <=> Alive(pages, x)
                     /\ x # r /\ Alive(pages, x) => IdOf(pages', x) = IdOf(pages, x)
                     /\ IdOf(pages', r) = InvalidId
  BY <1>1, <1>2, InvalidIdType DEF Ref, Alive, IdOf
<1>5. Residents' = Residents
  BY <1>4, ResidentsAreAlive, ResidentsAreAliveNext
<1>6. DetachedRefs' = DetachedRefs \union {r}
  BY <1>2, <1>4, <1>5, ResidentsAreAlive DEF DetachedRefs
<1>7. QED
  BY <1>2, <1>3, <1>5, <1>6

(* An id is given for one durable object only: it says where the object    *)
(* is, and the incarnation of a durable one fits it.                       *)
LEMMA ReleaseGives ==
  ASSUME NoIdentifierWrap, RInv, NEW r \in Ref, Release(r)
  PROVE  /\ r \in Residents \ DetachedRefs
         /\ IdOf(pages, r) \in ObjId
         /\ \A x \in RefSpace \ {r} :
              (r.incarnation < GenModulus /\ x.incarnation < GenModulus)
                => <<IdOf(pages, r), x>> \notin Given
         /\ Given' = Given \union {<<IdOf(pages, r), r>>}
<1> DEFINE id == IdOf(pages, r)
<1>1. Alive(pages, r) /\ id # InvalidId /\ named' = named \union {[id |-> id, ref |-> r]}
  BY DEF Release
<1>2. r \in Residents \ DetachedRefs
  BY <1>1, ResidentsAreAlive DEF DetachedRefs
<1>3. r.page \in PageIndex /\ r.slot \in Slot /\ r.incarnation \in Nat
  BY DEF Ref
<1>4. id \in ObjId
  BY <1>1, <1>3 DEF RInv, IInv, TypeOK, Page, IdOf, Alive
<1>5. /\ id.identifier = ManagedIndex(r.page, r.slot)
      /\ id.generation = (r.incarnation % SlotModulus) % GenModulus
  BY <1>1, <1>3 DEF RInv, IInv, ResidentIds, IdOf, Alive
<1>6. ASSUME NEW x \in RefSpace, r.incarnation < GenModulus, x.incarnation < GenModulus,
             <<id, x>> \in Given
      PROVE  x = r
  <2>1. PICK n \in named : n.id = id /\ n.ref = x
    BY <1>6 DEF Given
  <2>2. x.page \in PageIndex /\ x.slot \in Slot /\ x.incarnation \in Nat
    BY StorageAssumption DEF RefSpace
  <2>3. ManagedIndex(x.page, x.slot) = ManagedIndex(r.page, r.slot)
        /\ (x.incarnation % SlotModulus) % GenModulus = (r.incarnation % SlotModulus) % GenModulus
    BY <1>5, <2>1 DEF RInv, IInv, NamedIds
  <2>4. x.page = r.page /\ x.slot = r.slot
    BY <1>3, <2>2, <2>3, IndexRoundTrip
  <2>5. /\ x.incarnation % SlotModulus = x.incarnation /\ r.incarnation % SlotModulus = r.incarnation
        /\ x.incarnation % GenModulus = x.incarnation /\ r.incarnation % GenModulus = r.incarnation
    BY <1>3, <1>6, <2>2, SizesAssumption
  <2>6. QED
    BY <2>3, <2>4, <2>5 DEF Ref, RefSpace
<1>7. Given' = Given \union {<<id, r>>}
  <2>1. PICK new : new.id = id /\ new.ref = r /\ named' = named \union {new}
    BY <1>1
  <2>2. {<<n.id, n.ref>> : n \in named'} = {<<n.id, n.ref>> : n \in named} \union {<<id, r>>}
    BY <2>1
  <2>3. QED
    BY <2>2 DEF Given
<1>8. QED
  BY <1>2, <1>4, <1>6, <1>7

(* get() finds what the table of handles says the id finds.                *)
LEMMA GetFinds ==
  ASSUME NoWrap, RInv, NEW n \in named
  PROVE  LET o == Get(pages, n.id)
         IN  \/ /\ o = n.ref /\ o # Nil /\ o \in Ref /\ o \in RefSpace /\ Alive(pages, o)
                /\ o \in Residents \ DetachedRefs /\ o.incarnation < GenModulus
                /\ HoldsIt(o, IdOf(pages, o))
             \/ /\ o = Nil
                /\ \A x \in RefSpace :
                     (x \in Residents \ DetachedRefs /\ x.incarnation < GenModulus)
                       => <<n.id, x>> \notin Given
<1> DEFINE o == Get(pages, n.id)
           r == n.ref
<1>1. n.id \in ObjId /\ r \in Ref /\ r.page \in PageIndex /\ r.slot \in Slot
  BY DEF RInv, IInv, TypeOK, Named, Ref
<1>2. CASE o # Nil
  <2>1. o = r /\ Alive(pages, r)
    BY <1>2, GetReturns DEF RInv, IInv
  <2>2. r \in Residents /\ r \in RefSpace
    BY <1>1, <2>1, ResidentsAreAlive
  <2>3. PageOf(n.id) = r.page /\ SlotOf(n.id) = r.slot
    BY <1>1, IndexRoundTrip DEF RInv, IInv, NamedIds, PageOf, SlotOf, NoWrap
  <2>4. /\ pages[r.page].obj[r.slot] = n.id
        /\ SlotGeneration(pages[r.page], r.slot) = n.id.generation
    BY <1>2, <2>3 DEF Get, Overwritten
  <2>10. pages[r.page].stored[r.slot] = r.incarnation /\ r.incarnation \in Nat
    BY <1>1, <2>1 DEF Alive, Ref
  <2>11. r.incarnation <= MaxGeneration
    BY <1>1, <2>10 DEF RInv, IInv, StoresBounded
  <2>12. r.incarnation % SlotModulus = r.incarnation
    BY <2>10, <2>11, StorageAssumption, SizesAssumption DEF NoWrap
  <2>5. r.incarnation < GenModulus
    BY <1>1, <2>4, <2>10, <2>12, SizesAssumption DEF ObjId, SlotGeneration
  <2>6. n.id # InvalidId
    BY NoTypeAssumption DEF RInv, IInv, NamedIds, InvalidId
  <2>7. r \notin DetachedRefs
    BY <2>4, <2>6 DEF DetachedRefs, IdOf
  <2>8. HoldsIt(r, IdOf(pages, r))
    BY <2>3, <2>4 DEF HoldsIt, IdOf
  <2>9. QED
    BY <1>1, <1>2, <2>1, <2>2, <2>5, <2>7, <2>8
<1>3. CASE o = Nil
  <2>1. SUFFICES ASSUME NEW x \in RefSpace, x \in Residents \ DetachedRefs,
                        x.incarnation < GenModulus, <<n.id, x>> \in Given
                 PROVE  FALSE
    BY <1>3
  <2>2. PICK m \in named : m.id = n.id /\ m.ref = x
    BY <2>1 DEF Given
  <2>3. x \in Ref /\ Alive(pages, x) /\ IdOf(pages, x) # InvalidId
    BY <2>1, ResidentsAreAlive DEF DetachedRefs
  <2>4. Get(pages, m.id) = x
    BY <2>1, <2>2, <2>3, ResolvesWhileFits DEF RInv, LiveResolvesUntilWrap, NoWrap
  <2>5. QED
    BY <1>3, <2>2, <2>3, <2>4, NilAssumption
<1>4. QED
  BY <1>2, <1>3

-----------------------------------------------------------------------------
(* The refinement                                                          *)

(* Calls that change nothing the table of handles shows.                   *)
LEMMA HiddenStep ==
  ASSUME RInv, RInv', named' = named, found' = found,
         \A p \in PageIndex, s \in Slot :
            /\ pages'[p].stored[s] = pages[p].stored[s]
            /\ pages'[p].obj[s] = pages[p].obj[s]
  PROVE  UNCHANGED Handles!tableVars
<1>1. Created' = Created
  BY DEF Created, RefSpace
<1>2. \A r \in Ref : /\ Alive(pages', r) <=> Alive(pages, r)
                     /\ IdOf(pages', r) = IdOf(pages, r)
  BY DEF Ref, Alive, IdOf
<1>3. Residents' = Residents
  BY <1>2, ResidentsAreAlive, ResidentsAreAliveNext
<1>4. DetachedRefs' = DetachedRefs
  BY <1>2, <1>3, ResidentsAreAlive DEF DetachedRefs
<1>5. QED
  BY <1>1, <1>3, <1>4 DEF Handles!tableVars, Created, DetachedRefs

(* No object has been made.                                                *)
LEMMA TableInit == Init => Handles!Init
<1> SUFFICES ASSUME Init PROVE Handles!Init
  OBVIOUS
<1>1. Created = {}
  BY StorageAssumption DEF Init, NewPage, Created, RefSpace
<1>2. Residents = {}
  BY DEF Init, NewPage, Residents
<1>3. DetachedRefs = {} /\ Given = {} /\ found = Nil
  BY <1>2 DEF Init, DetachedRefs, Given
<1>4. QED
  BY <1>1, <1>2, <1>3 DEF Handles!Init, Created, DetachedRefs, Given

(* Every call is one action of the table, or hidden from it.               *)
LEMMA TableStep ==
  NoWrap /\ RInv /\ RInv' /\ [Next]_vars => [Handles!Next]_(Handles!tableVars)
<1> SUFFICES ASSUME NoWrap, RInv, RInv', [Next]_vars
             PROVE  Handles!Next \/ UNCHANGED Handles!tableVars
  OBVIOUS
<1>1. owned \subseteq Ref /\ \A n \in named : n.ref \in Ref /\ n.id \in ObjId
  BY DEF RInv, IInv, TypeOK, Named
<1>2. ASSUME NEW t \in Types, Make(t) PROVE Handles!Next
  <2>1. PICK o \in RefSpace : /\ o \notin Created
                              /\ Created' = Created \union {o}
                              /\ Residents' = Residents \union {o}
                              /\ DetachedRefs' = DetachedRefs
    BY <1>2, MakeCreates
  <2>2. Handles!Create(o)
    BY <1>2, <2>1 DEF Handles!Create, Make, Created, DetachedRefs
  <2>3. QED
    BY <2>2 DEF Handles!Next
<1>3. CASE MakeFails
  BY <1>3, MakeFailsKeeps, HiddenStep DEF MakeFails, RInv
<1>4. ASSUME NEW r \in owned, Release(r) PROVE Handles!Next
  <2>1. /\ r \in Residents \ DetachedRefs
        /\ IdOf(pages, r) \in ObjId
        /\ \A x \in RefSpace \ {r} :
             (r.incarnation < GenModulus /\ x.incarnation < GenModulus)
               => <<IdOf(pages, r), x>> \notin Given
        /\ Given' = Given \union {<<IdOf(pages, r), r>>}
    BY <1>1, <1>4, ReleaseGives DEF NoWrap
  <2>2. /\ Created' = Created /\ Residents' = Residents
        /\ DetachedRefs' = DetachedRefs /\ found' = found
    BY <1>4 DEF Release, Created, DetachedRefs, Residents, IdOf, RefTo
  <2>3. Handles!Give(IdOf(pages, r), r)
    BY <2>1, <2>2 DEF Handles!Give, Created, DetachedRefs, Given
  <2>4. r \in RefSpace
    BY <2>1, ResidentsAreAlive
  <2>5. QED
    BY <2>1, <2>3, <2>4 DEF Handles!Next
<1>5. ASSUME NEW r \in owned, DeleteOwned(r)
      PROVE  Handles!Next \/ UNCHANGED Handles!tableVars
  <2>1. r \in Ref /\ Alive(pages, r) /\ named' = named /\ found' = found
    BY <1>1, <1>5 DEF DeleteOwned
  <2>2. CASE pages' = pages
    BY <2>1, <2>2, HiddenStep
  <2>3. CASE pages' = [pages EXCEPT ![r.page] = Vacate(@, r.slot)]
    <3>1. /\ r \in Residents
          /\ Created' = Created
          /\ Residents' = Residents \ {r}
          /\ DetachedRefs' = DetachedRefs \ {r}
      BY <2>1, <2>3, VacateDestroys
    <3>2. Handles!Destroy(r)
      BY <2>1, <3>1 DEF Handles!Destroy, Created, DetachedRefs
    <3>3. r \in RefSpace
      BY <3>1, ResidentsAreAlive
    <3>4. QED
      BY <3>2, <3>3 DEF Handles!Next
  <2>4. QED
    BY <1>5, <2>2, <2>3 DEF DeleteOwned, Free
<1>6. ASSUME NEW r \in owned, DeleteDangling(r) PROVE UNCHANGED Handles!tableVars
  BY <1>6, HiddenStep DEF DeleteDangling
<1>7. ASSUME NEW r \in owned \union {n.ref : n \in named}, CloseStream(r) PROVE Handles!Next
  <2>1. r \in Ref
    BY <1>1
  <2>2. /\ r \in Residents
        /\ Created' = Created
        /\ Residents' = Residents
        /\ DetachedRefs' = DetachedRefs \union {r}
    BY <1>7, <2>1, CloseDetaches
  <2>3. Handles!Detach(r)
    BY <1>7, <2>2 DEF Handles!Detach, CloseStream, Created, DetachedRefs
  <2>4. r \in RefSpace
    BY <2>2, ResidentsAreAlive
  <2>5. QED
    BY <2>3, <2>4 DEF Handles!Next
<1>8. ASSUME NEW n \in named
      PROVE  /\ Get(pages, n.id) \in RefSpace \union {Nil}
             /\ Handles!Finds(n.id, Get(pages, n.id))
             /\ <<n.id, n.ref>> \in Given
  <2>1. <<n.id, n.ref>> \in Given
    BY DEF Given
  <2>2. CASE Get(pages, n.id) = Nil
    <3>1. \A x \in RefSpace : (x \in Residents \ DetachedRefs /\ x.incarnation < GenModulus)
                                => <<n.id, x>> \notin Given
      BY <2>2, GetFinds
    <3>2. QED
      BY <2>1, <2>2, <3>1 DEF Handles!Finds, Handles!Findable, DetachedRefs, Given
  <2>3. CASE Get(pages, n.id) # Nil
    <3>1. /\ Get(pages, n.id) = n.ref /\ n.ref \in RefSpace
          /\ n.ref \in Residents \ DetachedRefs /\ n.ref.incarnation < GenModulus
      BY <2>3, GetFinds
    <3>2. QED
      BY <2>1, <3>1 DEF Handles!Finds, Handles!Findable, DetachedRefs, Given
  <2>4. QED
    BY <2>2, <2>3
<1>9. ASSUME NEW n \in named, Lookup(n.id) PROVE Handles!Next
  <2>1. /\ Created' = Created /\ Residents' = Residents /\ DetachedRefs' = DetachedRefs
        /\ Given' = Given /\ found' = Get(pages, n.id)
    BY <1>9 DEF Lookup, Created, DetachedRefs, Given, Residents, IdOf, RefTo
  <2>2. Handles!Find(n.id, Get(pages, n.id))
    BY <1>8, <2>1 DEF Handles!Find, Created, DetachedRefs, Given
  <2>3. PICK pair \in Given : pair[1] = n.id
    BY <1>8
  <2>4. QED
    BY <1>8, <2>2, <2>3 DEF Handles!Next, Given
<1>10. ASSUME NEW n \in named, ObjectFree(n.id) PROVE Handles!Next
  <2> DEFINE o == Get(pages, n.id)
  <2>1. found' = o /\ named' = named
    BY <1>10 DEF ObjectFree
  <2>2. PICK pair \in Given : pair[1] = n.id
    BY <1>8
  <2>3. CASE o = Nil
    <3>1. pages' = pages
      BY <1>10, <2>1, <2>3 DEF ObjectFree
    <3>2. /\ Created' = Created /\ Residents' = Residents /\ DetachedRefs' = DetachedRefs
          /\ Given' = Given
      BY <2>1, <3>1 DEF Created, DetachedRefs, Given, Residents, IdOf, RefTo
    <3>3. Handles!Find(n.id, o)
      BY <1>8, <2>1, <3>2 DEF Handles!Find, Created, DetachedRefs, Given
    <3>4. QED
      BY <1>8, <2>2, <3>3 DEF Handles!Next, Given
  <2>4. CASE o # Nil
    <3>1. /\ o \in Ref /\ Alive(pages, o) /\ o \in Residents \ DetachedRefs
          /\ HoldsIt(o, IdOf(pages, o))
      BY <2>4, GetFinds
    <3>2. pages' = [pages EXCEPT ![o.page] = Vacate(@, o.slot)]
      BY <1>10, <2>1, <2>4, <3>1 DEF ObjectFree, Free
    <3>3. /\ Created' = Created
          /\ Residents' = Residents \ {o}
          /\ DetachedRefs' = DetachedRefs \ {o}
      BY <3>1, <3>2, VacateDestroys
    <3>4. DetachedRefs' = DetachedRefs
      BY <3>1, <3>3
    <3>5. Handles!FindAndDestroy(n.id, o)
      BY <1>8, <2>1, <3>3, <3>4 DEF Handles!FindAndDestroy, Created, DetachedRefs, Given
    <3>6. QED
      BY <1>8, <2>2, <3>5 DEF Handles!Next, Given
  <2>5. QED
    BY <2>3, <2>4
<1>11. ASSUME NEW n \in named, NullDereference(n.id) PROVE UNCHANGED Handles!tableVars
  BY <1>11, HiddenStep DEF NullDereference
<1>12. CASE UNCHANGED vars
  BY <1>12, HiddenStep DEF vars
<1>13. QED
  BY <1>2, <1>3, <1>4, <1>5, <1>6, <1>7, <1>9, <1>10, <1>11, <1>12 DEF Next

(* The strengthened invariant holds.                                       *)
LEMMA AlwaysRInv == Spec => []RInv
  BY InitRInv, NextRInv, PTL DEF Spec

(* The storage keeps what the table of handles promises, for every size,   *)
(* while the slots are no more than the identifiers and no slot is stored  *)
(* to 2^32 times: an id finds the object it was given for while that lives *)
(* and was stored before its slot's count passed 8 bits, and nothing from  *)
(* then on.                                                                *)
THEOREM StorageImplementsTable ==
  ASSUME NoWrap
  PROVE  Spec => ImplementsHandleTable
<1>1. Init => Handles!Init
  BY TableInit
<1>2. RInv /\ RInv' /\ [Next]_vars => [Handles!Next]_(Handles!tableVars)
  BY TableStep
<1>3. QED
  BY <1>1, <1>2, AlwaysRInv, PTL DEF Spec, ImplementsHandleTable, Handles!Spec
=============================================================================
