------------------------------ MODULE ObjStorage ------------------------------
(***************************************************************************)
(* The data of ManagedObjStorage (lib/GifToolsManagedObject.h and .cc) as  *)
(* pure operators on a table of pages.  ManagedObjStorage.tla turns them   *)
(* into a state machine.                                                   *)
(*                                                                         *)
(* An object lives in one slot of one page until it is freed, so a C++     *)
(* pointer to it is modelled by a Ref: the slot, and how often the slot    *)
(* had been stored to with that object.  What the slot holds is the        *)
(* object's own mObjId.                                                    *)
(*                                                                         *)
(* `stored` counts the stores to a slot without a width, so that a Ref     *)
(* stands for one object for ever.  The program has no such count: the     *)
(* generation its slot has is SlotGeneration, the count in 32 bits, and    *)
(* that of an id the same cut to 8.                                        *)
(***************************************************************************)
EXTENDS Integers

CONSTANTS
  PageLength,   (* slots of a page: 256 in the code                        *)
  MaxPages,     (* pages memory has room for                               *)
  GenModulus,   (* 2^8: the width of ManagedObjId::generation              *)
  SlotModulus,  (* 2^32: the width of a slot's own generation              *)
  IdModulus,    (* 2^20: the width of ManagedObjId::identifier             *)
  Types,        (* the managed types the model makes objects of            *)
  NoType,       (* the type bits of the invalid id (15)                    *)
  Nil           (* the null pointer                                        *)

Slot      == 0 .. PageLength - 1
PageIndex == 0 .. MaxPages - 1

ObjId == [identifier : 0 .. IdModulus - 1,
          generation : 0 .. GenModulus - 1,
          type       : Types \union {NoType}]

Ref == [page : PageIndex, slot : Slot, incarnation : Nat]

ASSUME SizesAssumption == /\ PageLength \in Nat \ {0}
                          /\ MaxPages   \in Nat \ {0}
                          /\ GenModulus \in Nat \ {0, 1}
                          /\ SlotModulus \in Nat /\ SlotModulus >= GenModulus
                          /\ IdModulus  \in Nat \ {0}
ASSUME NoTypeAssumption == NoType \notin Types
ASSUME NilAssumption    == Nil \notin ObjId /\ Nil \notin Ref

(* managedObjIdMake(): all 32 bits set.  An object whose members were      *)
(* constructed again in place has this id.                                 *)
InvalidId == [identifier |-> IdModulus - 1,
              generation |-> GenModulus - 1,
              type       |-> NoType]

(* The slots never wrap round the 20 bits of the identifier.               *)
NoIdentifierWrap == MaxPages * PageLength <= IdModulus

-----------------------------------------------------------------------------
(* ManagedObjStoragePage                                                   *)

Page == [freeCount : Int,
         obj       : [Slot -> ObjId \union {Nil}],
         stored    : [Slot -> Nat]]

NewPage == [freeCount |-> PageLength,
            obj       |-> [s \in Slot |-> Nil],
            stored    |-> [s \in Slot |-> 0]]

(* Slot::generation, which wraps in 32 bits.                               *)
SlotGeneration(page, s) == page.stored[s] % SlotModulus

ManagedIndex(p, s) == (p * PageLength + s) % IdModulus
PageOf(id)         == id.identifier \div PageLength
SlotOf(id)         == id.identifier % PageLength

FreeSlots(page) == {s \in Slot : page.obj[s] = Nil}

(* mutant: the last free slot is taken for none.                           *)
HasTwoFreeSlots(page) == page.freeCount > 1 /\ FreeSlots(page) # {}

(* freeSlotIndex() finds a slot.  The count is trusted before the slots    *)
(* are looked at.                                                          *)
HasFreeSlot(page) == page.freeCount # 0 /\ FreeSlots(page) # {}

(* mutant: a page with room is taken to have it at the front.              *)
FirstSlotIndex(page) == 0

FreeSlotIndex(page) == CHOOSE s \in FreeSlots(page) : \A t \in FreeSlots(page) : s <= t

-----------------------------------------------------------------------------
(* ManagedObjStorage.  n is mPages.size(); the pages from n on have not    *)
(* been allocated and are NewPage.                                         *)

PagesWithRoom(pages, n) == {p \in 0 .. n - 1 : HasFreeSlot(pages[p])}

(* reserve(): the first page with a free slot, else a page appended.       *)
ReservedPage(pages, n) ==
  IF PagesWithRoom(pages, n) = {}
  THEN n
  ELSE CHOOSE p \in PagesWithRoom(pages, n) : \A q \in PagesWithRoom(pages, n) : p <= q

Reserve(pages, p) == [pages EXCEPT ![p].freeCount = @ - 1]

(* mutant: a page is appended every time.                                  *)
AlwaysOneMore(n, p) == n + 1

PagesAfterReserve(n, p) == IF p = n THEN n + 1 ELSE n

(* mutant: the id is made before the slot's generation is counted up.      *)
StoredIdBeforeCount(page, p, s, t) == [identifier |-> ManagedIndex(p, s),
                                       generation |-> SlotGeneration(page, s) % GenModulus,
                                       type       |-> t]

(* store(): the slot's generation is counted up in its 32 bits, the        *)
(* object's is that in 8.                                                  *)
StoredId(page, p, s, t) == [identifier |-> ManagedIndex(p, s),
                            generation |-> ((page.stored[s] + 1) % SlotModulus) % GenModulus,
                            type       |-> t]

StoreIn(page, p, s, t) == [freeCount |-> page.freeCount,
                           obj       |-> [page.obj EXCEPT ![s] = StoredId(page, p, s, t)],
                           stored    |-> [page.stored EXCEPT ![s] = @ + 1]]

Store(pages, p, s, t) == [pages EXCEPT ![p] = StoreIn(pages[p], p, s, t)]

RefTo(pages, p, s) == [page |-> p, slot |-> s, incarnation |-> pages[p].stored[s]]

Alive(pages, r) == /\ pages[r.page].obj[r.slot] # Nil
                   /\ pages[r.page].stored[r.slot] = r.incarnation

IdOf(pages, r) == pages[r.page].obj[r.slot]

(* mutant: only the 8 bits the id has are compared.                        *)
OverwrittenIn8Bits(pages, id) ==
  SlotGeneration(pages[PageOf(id)], SlotOf(id)) % GenModulus # id.generation

(* get(id), past mPages.at(): the slot's generation is compared with the   *)
(* id's before the slot is read, and the object's id after it.             *)
Overwritten(pages, id) == SlotGeneration(pages[PageOf(id)], SlotOf(id)) # id.generation

(* The id's generation is the slot's, but the slot has been vacated: get   *)
(* calls objId() on a null pointer.                                        *)
Vacated(pages, id) == /\ ~Overwritten(pages, id)
                      /\ pages[PageOf(id)].obj[SlotOf(id)] = Nil

Get(pages, id) ==
  IF ~Overwritten(pages, id) /\ pages[PageOf(id)].obj[SlotOf(id)] = id
  THEN RefTo(pages, PageOf(id), SlotOf(id))
  ELSE Nil

(* free(pointer) looks for the page and the slot the object's own id       *)
(* names, and frees only if that slot holds this very object.              *)
OutOfRange(id, n) == PageOf(id) >= n

HoldsIt(r, id) == PageOf(id) = r.page /\ SlotOf(id) = r.slot

Vacate(page, s) == [freeCount |-> page.freeCount + 1,
                    obj       |-> [page.obj EXCEPT ![s] = Nil],
                    stored    |-> page.stored]

(* mutant: frees what the id names without comparing it with the pointer.  *)
FreeByIdOnly(pages, r) ==
  [pages EXCEPT ![PageOf(IdOf(pages, r))] = Vacate(@, SlotOf(IdOf(pages, r)))]

Free(pages, r) ==
  IF HoldsIt(r, IdOf(pages, r))
  THEN [pages EXCEPT ![r.page] = Vacate(@, r.slot)]
  ELSE pages

(* close() constructs the object in the slot again: it has no id any more. *)
Closed(page, s) == [freeCount |-> page.freeCount,
                    obj       |-> [page.obj EXCEPT ![s] = InvalidId],
                    stored    |-> page.stored]
=============================================================================
