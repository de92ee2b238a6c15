-------------------------- MODULE ManagedObjStorage --------------------------
(***************************************************************************)
(* The storage of managed objects with its two kinds of user: C++ code,    *)
(* which holds objects by UniqueManagedObj (a unique_ptr whose deleter     *)
(* calls the storage), and the client on the far side of the bindings,     *)
(* which holds 32-bit ids and may keep one after the object is gone.       *)
(* The program is single threaded: a step is one call into the storage.    *)
(***************************************************************************)
EXTENDS ObjStorage, FiniteSets

CONSTANTS
  StreamType,     (* the type whose close() constructs the object again in place *)
  MaxGeneration   (* bound: no slot is stored to more often                *)

ASSUME StorageAssumption == /\ StreamType \in Types
                            /\ MaxGeneration \in Nat

VARIABLES
  pages,      (* mPages: a page for every index, allocated below pageCount *)
  pageCount,  (* mPages.size()                                             *)
  owned,      (* the objects a UniqueManagedObj points at                  *)
  named,      (* history: the ids clients were given, and for what object  *)
  lost,       (* history: for each page, the reservations no object came of *)
  found,      (* what the latest get() returned                            *)
  status      (* "running", "faulted" (undefined behaviour trapped) or     *)
              (* "terminated" (an exception left a destructor)             *)

vars == <<pages, pageCount, owned, named, lost, found, status>>

Named == [id : ObjId, ref : Ref]

Init ==
  /\ pages     = [p \in PageIndex |-> NewPage]
  /\ pageCount = 0
  /\ owned     = {}
  /\ named     = {}
  /\ lost      = [p \in PageIndex |-> 0]
  /\ found     = Nil
  /\ status    = "running"

(* The page and slot that reserve() hands out next.                        *)
NextPage == ReservedPage(pages, pageCount)
NextSlot == FreeSlotIndex(pages[NextPage])

(* make<T>(): reserve, construct, store.                                   *)
Make(t) ==
  /\ status = "running"
  /\ NextPage \in PageIndex
  /\ pages[NextPage].stored[NextSlot] < MaxGeneration
  /\ pages'     = Store(Reserve(pages, NextPage), NextPage, NextSlot, t)
  /\ pageCount' = PagesAfterReserve(pageCount, NextPage)
  /\ owned'     = owned \union {RefTo(pages', NextPage, NextSlot)}
  /\ UNCHANGED <<named, lost, found, status>>

(* make<T>() when the object could not be allocated: the slot stays empty, *)
(* the reservation is not given back.                                      *)
MakeFails ==
  /\ status = "running"
  /\ NextPage \in PageIndex
  /\ pages'     = Reserve(pages, NextPage)
  /\ pageCount' = PagesAfterReserve(pageCount, NextPage)
  /\ lost'      = [lost EXCEPT ![NextPage] = @ + 1]
  /\ UNCHANGED <<owned, named, found, status>>

(* objectReleaseAndReturnId: a factory's fresh result leaves its           *)
(* unique_ptr and its id goes to the client.                               *)
Release(r) ==
  /\ status = "running"
  /\ r \in owned
  /\ Alive(pages, r)
  /\ IdOf(pages, r) # InvalidId
  /\ owned' = owned \ {r}
  /\ named' = named \union {[id |-> IdOf(pages, r), ref |-> r]}
  /\ UNCHANGED <<pages, pageCount, lost, found, status>>

(* The destructor of a UniqueManagedObj.  ManagedObjStorage::free throws   *)
(* out of a destructor when the object's id names no page.                 *)
DeleteOwned(r) ==
  /\ status = "running"
  /\ r \in owned
  /\ Alive(pages, r)
  /\ owned' = owned \ {r}
  /\ IF OutOfRange(IdOf(pages, r), pageCount)
     THEN status' = "terminated" /\ pages' = pages
     ELSE pages' = Free(pages, r) /\ status' = status
  /\ UNCHANGED <<pageCount, named, lost, found>>

(* The same destructor when the object is no longer there: it reads freed  *)
(* memory.                                                                 *)
DeleteDangling(r) ==
  /\ status = "running"
  /\ r \in owned
  /\ ~Alive(pages, r)
  /\ status' = "faulted"
  /\ UNCHANGED <<pages, pageCount, owned, named, lost, found>>

(* FFmpegVideoStreamImpl::close() ends in `new (this)`, which makes the    *)
(* object's id invalid while its slot keeps it.  C++ reaches the stream    *)
(* through its unique_ptr, a client through an id that resolves.           *)
CloseStream(r) ==
  /\ status = "running"
  /\ Alive(pages, r)
  /\ IdOf(pages, r).type = StreamType
  /\ r \in owned \/ \E n \in named : Get(pages, n.id) = r
  /\ pages' = [pages EXCEPT ![r.page] = Closed(@, r.slot)]
  /\ UNCHANGED <<pageCount, owned, named, lost, found, status>>

(* get(id), as every binding calls it.  On a vacated slot the WebAssembly  *)
(* build reads the zeros at the start of memory and gets null.             *)
Lookup(id) ==
  /\ status = "running"
  /\ found' = Get(pages, id)
  /\ UNCHANGED <<pages, pageCount, owned, named, lost, status>>

(* objectFree(id): get, and free what it returned.                         *)
ObjectFree(id) ==
  /\ status = "running"
  /\ found' = Get(pages, id)
  /\ pages' = IF found' = Nil THEN pages ELSE Free(pages, found')
  /\ UNCHANGED <<pageCount, owned, named, lost, status>>

(* Either of them on a vacated slot, in a build where null traps.          *)
NullDereference(id) ==
  /\ status = "running"
  /\ Vacated(pages, id)
  /\ status' = "faulted"
  /\ UNCHANGED <<pages, pageCount, owned, named, lost, found>>

Next ==
  \/ \E t \in Types : Make(t)
  \/ MakeFails
  \/ \E r \in owned : Release(r) \/ DeleteOwned(r) \/ DeleteDangling(r)
  \/ \E r \in owned \union {n.ref : n \in named} : CloseStream(r)
  \/ \E n \in named : Lookup(n.id) \/ ObjectFree(n.id) \/ NullDereference(n.id)

Spec == Init /\ [][Next]_vars

-----------------------------------------------------------------------------
(* Properties                                                              *)

(* Every variable has its type.                                            *)
TypeOK ==
  /\ pages \in [PageIndex -> Page]
  /\ pageCount \in 0 .. MaxPages
  /\ owned \subseteq Ref
  /\ named \subseteq Named
  /\ lost \in [PageIndex -> Nat]
  /\ found \in Ref \union {Nil}
  /\ status \in {"running", "faulted", "terminated"}

(* mCachedFreeSlotCount, which reserve() decrements, free() increments and *)
(* freeSlotIndex() trusts, is the number of empty slots of its page but    *)
(* for those an allocation that failed between reserve() and store() has   *)
(* lost: however often slots are vacated and stored to again, none is      *)
(* counted twice and no other is forgotten.                                *)
FreeCountSound ==
  \A p \in PageIndex :
    /\ pages[p].freeCount >= 0
    /\ pages[p].freeCount + lost[p] = Cardinality(FreeSlots(pages[p]))

(* No slot is stored to so often that its 32-bit generation comes round to *)
(* where it was, and no two slots have one identifier.                     *)
NoWrap == NoIdentifierWrap /\ MaxGeneration < SlotModulus

(* A client that keeps an id, however long, and however often the 8-bit    *)
(* generation wraps while the slot is used again, up to 2^32 times, gets   *)
(* the object the id was given for or null: never another object (get,     *)
(* "Object slot was overwritten").                                         *)
StaleIdNeverAliases ==
  NoWrap => \A n \in named : Get(pages, n.id) \in {Nil, n.ref}

(* What a UniqueManagedObj points at is still there: no free by id, of any *)
(* id a client holds, takes an object from under its C++ owner.            *)
OwnedAlive ==
  NoWrap => \A r \in owned : Alive(pages, r)

(* An object that was neither freed nor closed can be found by its id,     *)
(* until its slot has been stored to GenModulus times.                     *)
LiveResolvesUntilWrap ==
  NoIdentifierWrap =>
    \A n \in named : (/\ n.ref.incarnation < GenModulus
                      /\ Alive(pages, n.ref)
                      /\ IdOf(pages, n.ref) # InvalidId) => Get(pages, n.id) = n.ref

(* The same without the bound: get() says null, with the comment that the  *)
(* object's slot was overwritten, of objects that are in their slots.      *)
LiveResolves ==
  \A n \in named : (/\ Alive(pages, n.ref)
                    /\ IdOf(pages, n.ref) # InvalidId) => Get(pages, n.id) = n.ref

(* Memory grows by a page only when every slot of every page is taken or  *)
(* was lost to a failed allocation.                                        *)
GrowsOnlyWhenFull ==
  [][pageCount' # pageCount =>
       \A p \in 0 .. pageCount - 1 : Cardinality(FreeSlots(pages[p])) = lost[p]]_vars

-----------------------------------------------------------------------------
(* What the storage promises, as HandleTable states it: an id is a handle, *)
(* a Ref is an object, and the objects whose incarnation fits the id's     *)
(* generation are the ones a handle finds.                                 *)
Residents == {RefTo(pages, ps[1], ps[2]) :
                ps \in {x \in PageIndex \X Slot : pages[x[1]].obj[x[2]] # Nil}}

RefSpace == [page : PageIndex, slot : Slot, incarnation : 1 .. MaxGeneration]

Handles == INSTANCE HandleTable WITH
  Handle   <- ObjId,
  Object   <- RefSpace,
  Durable  <- {r \in RefSpace : r.incarnation < GenModulus},
  NoObject <- Nil,
  created  <- {r \in RefSpace : r.incarnation <= pages[r.page].stored[r.slot]},
  alive    <- Residents,
  detached <- {r \in Residents : IdOf(pages, r) = InvalidId},
  given    <- {<<n.id, n.ref>> : n \in named},
  answer   <- found

ImplementsHandleTable == Handles!Spec
=============================================================================
