----------------------------- MODULE FileReader -----------------------------
(***************************************************************************)
(* What a client of FFmpeg's AVIOContext can rely on: bytes come in the    *)
(* order of the file from where the last call left off or sought to.  A    *)
(* byte is known by its place in the file; FileSize is any byte that is    *)
(* not the file's.  A client strays when it seeks behind the end or reads  *)
(* on there.  From then on the bytes it gets are any bytes and its seeks   *)
(* may fail, but its reads are full, and it is where it should be.         *)
(***************************************************************************)
EXTENDS Integers

CONSTANTS
  FileSize,
  MaxRequest,     (* bound: bytes asked for in one call                    *)
  MaxOffset       (* bound: offsets sought                                 *)

VARIABLES
  position,       (* the place of the next byte                            *)
  asked, left,    (* of the read under way: bytes asked for, and missing   *)
  piece,          (* the bytes handed over last                            *)
  result,         (* what the last call returned                           *)
  strayed         (* the client has been behind the end                    *)

vars == <<position, asked, left, piece, result, strayed>>

Failed == -1

Init ==
  /\ position = 0
  /\ asked = 0 /\ left = 0
  /\ piece = [i \in {} |-> 0]
  /\ result = 0
  /\ strayed = FALSE

Read(n) ==
  /\ asked = 0
  /\ asked' = n /\ left' = n
  /\ UNCHANGED <<position, piece, result, strayed>>

Advance(k) ==
  /\ k <= left
  /\ position' = position + k
  /\ left' = left - k
  /\ UNCHANGED <<asked, result>>

(* Bytes may be handed over a few at a time: also of a read that goes on   *)
(* behind the end, those before the end are the file's.                    *)
HandOver(k) ==
  /\ ~strayed /\ position + k <= FileSize
  /\ Advance(k)
  /\ piece' = [i \in 0 .. k - 1 |-> position + i]
  /\ UNCHANGED strayed

Behind == strayed \/ position >= FileSize

HandOverAny(k) ==
  /\ Behind
  /\ Advance(k)
  /\ piece' \in [0 .. k - 1 -> 0 .. FileSize]
  /\ strayed' = TRUE

(* A byte is missing at the end.                                           *)
PassEnd ==
  /\ left > 0 /\ Behind
  /\ strayed' = TRUE
  /\ UNCHANGED <<position, asked, left, piece, result>>

(* A read returns when it has all bytes it asked for, and never before.    *)
Return ==
  /\ asked # 0 /\ left = 0
  /\ result' = asked
  /\ asked' = 0
  /\ UNCHANGED <<position, left, piece, strayed>>

Seek(offset) ==
  /\ asked = 0
  /\ ~strayed /\ offset <= FileSize
  /\ position' = offset
  /\ result' = offset
  /\ UNCHANGED <<asked, left, piece, strayed>>

(* A seek that fails leaves the client where it was.                       *)
SeekAstray(offset) ==
  /\ asked = 0
  /\ strayed \/ offset > FileSize
  /\ strayed' = TRUE
  /\ \/ position' = offset /\ result' = offset
     \/ position' = position /\ result' = Failed
  /\ UNCHANGED <<asked, left, piece>>

Size ==
  /\ asked = 0
  /\ result' = FileSize
  /\ UNCHANGED <<position, asked, left, piece, strayed>>

(* feof says 0 before the end.  What it says there is not relied on.       *)
Feof ==
  /\ asked = 0
  /\ result' \in {0, 1}
  /\ ~Behind => result' = 0
  /\ UNCHANGED <<position, asked, left, piece, strayed>>

Next ==
  \/ \E n \in 1 .. MaxRequest : Read(n) \/ HandOver(n) \/ HandOverAny(n)
  \/ PassEnd
  \/ Return
  \/ \E offset \in 0 .. MaxOffset : Seek(offset) \/ SeekAstray(offset)
  \/ Size
  \/ Feof

Spec == Init /\ [][Next]_vars
=============================================================================
