---------------------------- MODULE MCFrameSampler ----------------------------
(* FrameSampler with every short stream for TLC.                           *)
EXTENDS FrameSampler

CONSTANTS
  MaxFrames,    (* frames of a stream                                       *)
  MaxTime,      (* time of the last frame                                   *)
  FirstTimes,   (* times of the first frame                                 *)
  MaxDelay,     (* pictures the decoder holds back                          *)
  MaxTail       (* time from the last frame to the end of the stream        *)

MCNoTime == -100

InOrder(S) == CHOOSE s \in [1 .. Cardinality(S) -> S] :
                \A i, j \in DOMAIN s : i < j => s[i] < s[j]

TimeSets == {S \in SUBSET (0 .. MaxTime) :
               /\ Cardinality(S) \in 1 .. MaxFrames
               /\ \E t \in FirstTimes \intersect S : \A x \in S : t <= x}

(* A stream with a gap, for which PrepareFrames goes back in time.         *)
Gap == {[times |-> <<0, 1, 2, 12, 13>>, duration |-> 14, delay |-> 0, refused |-> {}]}

Whole == UNION {{[times    |-> InOrder(S),
                  duration |-> InOrder(S)[Cardinality(S)] + tail,
                  delay    |-> delay,
                  refused  |-> {}] : delay \in 0 .. MaxDelay, tail \in 1 .. MaxTail} : S \in TimeSets}

(* The stream grows at its first, second or last picture.                  *)
Growing == {[v EXCEPT !.refused = k .. Len(v.times)] :
              v \in {w \in Whole : w.delay <= 1 /\ w.duration <= MaxTime}, k \in 1 .. MaxFrames}

(* One of its pictures has no time, or one before the start.               *)
Untimed == UNION {{[v EXCEPT !.times[k] = t] : k \in DOMAIN v.times, t \in {-1, MCNoTime}} :
                    v \in {w \in Whole : w.delay <= 1 /\ w.duration <= MaxTime}}

MCVideos == Gap \union Whole \union Growing \union Untimed

MCSampleTimes == 0 .. MaxTime + 2
MCSampleSteps == 0 .. 4
=============================================================================
