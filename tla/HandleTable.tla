----------------------------- MODULE HandleTable -----------------------------
(***************************************************************************)
(* What a table of handles promises its users, with no word about slots,   *)
(* pages or generations: a handle is given for one object, an object is    *)
(* created once and destroyed once, and a handle finds the object it was   *)
(* given for while that object is alive, and nothing from then on.         *)
(*                                                                         *)
(* Two ways out of the promise are part of it.  An object that is not      *)
(* Durable is never found by a handle, and an object can be detached from  *)
(* its handles while it lives.                                             *)
(***************************************************************************)
CONSTANTS
  Handle,
  Object,
  Durable,        (* some of Object                                         *)
  NoObject        (* none of Object                                         *)

VARIABLES
  created,    (* the objects there have been                               *)
  alive,      (* the objects there are                                     *)
  detached,   (* those of them no handle finds any more                    *)
  given,      (* pairs of a handle and the object it was given for         *)
  answer      (* what the latest lookup found                              *)

tableVars == <<created, alive, detached, given, answer>>

Init ==
  /\ created = {} /\ alive = {} /\ detached = {} /\ given = {}
  /\ answer = NoObject

Findable(o) == o \in (alive \intersect Durable) \ detached

(* o is what handle h finds.                                               *)
Finds(h, o) ==
  \/ Findable(o) /\ <<h, o>> \in given
  \/ o = NoObject /\ \A x \in Object : Findable(x) => <<h, x>> \notin given

Create(o) ==
  /\ o \notin created
  /\ created' = created \union {o}
  /\ alive'   = alive \union {o}
  /\ UNCHANGED <<detached, given, answer>>

(* Among the durable objects a handle stands for one, for ever.            *)
Give(h, o) ==
  /\ o \in alive \ detached
  /\ \A x \in Durable \ {o} : o \in Durable => <<h, x>> \notin given
  /\ given' = given \union {<<h, o>>}
  /\ UNCHANGED <<created, alive, detached, answer>>

Detach(o) ==
  /\ o \in alive
  /\ detached' = detached \union {o}
  /\ UNCHANGED <<created, alive, given, answer>>

Destroy(o) ==
  /\ o \in alive
  /\ alive'    = alive \ {o}
  /\ detached' = detached \ {o}
  /\ UNCHANGED <<created, given, answer>>

Find(h, o) ==
  /\ Finds(h, o)
  /\ answer' = o
  /\ UNCHANGED <<created, alive, detached, given>>

FindAndDestroy(h, o) ==
  /\ Finds(h, o)
  /\ answer' = o
  /\ alive'  = alive \ {o}
  /\ UNCHANGED <<created, detached, given>>

Next ==
  \/ \E o \in Object : Create(o) \/ Detach(o) \/ Destroy(o)
  \/ \E h \in Handle, o \in Object : Give(h, o)
  \/ \E pair \in given, o \in Object \union {NoObject} :
       Find(pair[1], o) \/ FindAndDestroy(pair[1], o)

Spec == Init /\ [][Next]_tableVars
=============================================================================
