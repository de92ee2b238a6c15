----------------------------- MODULE FrameSampler -----------------------------
(***************************************************************************)
(* How a video stream finds frames by time                                 *)
(* (lib/GifToolsFFmpegVideoStream.cc): PrepareAllFrames and PrepareFrames  *)
(* fill the stream's preparedFrames, PickBestFrame and                     *)
(* PickBestPreparedFrame answer one time.  A step is the start of a call,  *)
(* one avcodec_decode_video2 with the av_read_frame before it, or what the *)
(* loop does with the picture.                                             *)
(*                                                                         *)
(* Times are in units of the stream's time base; a rate of frames per      *)
(* second is given by the time between two samples, 0 for a rate of at     *)
(* most 0.0001.  A picture has no time, NoTime, or a negative one where    *)
(* the stream gives it none.  Packets of the other streams of the file     *)
(* change nothing and are left out.  av_seek_frame(0) rewinds to the first *)
(* packet.                                                                 *)
(* Pictures that sws_scale refuses become null frames; reading through a   *)
(* null frame ends the model: op is "trapped".                             *)
(***************************************************************************)
EXTENDS Integers, Sequences, FiniteSets

CONSTANTS
  Videos,         (* [times : Seq(Int), duration : Nat, delay : Nat,
                     refused : SUBSET Nat]: the times of the frames in the
                     order they come, the duration the container gives, how
                     many pictures the decoder holds back, and those that are
                     larger than the stream was when it was opened          *)
  SampleTimes,    (* the times asked for                                    *)
  SampleSteps,    (* the times between two samples asked for                *)
  NoTime,         (* AV_NOPTS_VALUE, a negative number                      *)
  NoFrame         (* the null frame                                         *)

ASSUME VideosAssumption ==
  \A v \in Videos : /\ DOMAIN v = {"times", "duration", "delay", "refused"}
                    /\ v.times \in Seq(Int) /\ v.times # <<>>
                    /\ v.duration \in Nat /\ v.delay \in Nat
                    /\ v.refused \subseteq 1 .. Len(v.times)
                    /\ \A i, j \in 1 .. Len(v.times) :
                         i < j /\ v.times[i] >= 0 /\ v.times[j] >= 0 => v.times[i] < v.times[j]
(* AV_NOPTS_VALUE, the least of the 64-bit numbers, is farther from 0 than *)
(* any stream is long.                                                     *)
ASSUME TimesAssumption ==
  /\ SampleTimes \subseteq Nat /\ SampleSteps \subseteq Nat
  /\ NoTime \in Int /\ NoTime < 0
  /\ \A v \in Videos : NoTime + v.duration < 0
  /\ NoFrame \notin [time : Int, picture : Int]

VARIABLES
  video,        (* the open stream                                          *)
  op,           (* the call in progress, "idle" between calls               *)
  phase,        (* "reading" packets or "examining" a decoded picture       *)
  sampleTime,   (* the time a frame is looked for                           *)
  step,         (* desiredFrameTimeSeconds                                  *)
  decoder,      (* how many packets it was given and pictures it put out    *)
  endOfStream, frameAcquired,
  prev, curr,   (* the staging frames: a time and the number of a picture   *)
  packets,      (* which of them hold a packet with data: "prev", "curr"    *)
  prepared,     (* preparedFrames                                           *)
  preparation,  (* whether what made them came to its end: "ok", "failed"   *)
  picked        (* what the latest pick returned                            *)

callVars == <<op, phase, sampleTime, step, decoder, endOfStream, frameAcquired, prev, curr,
              packets>>
vars     == <<video, callVars, prepared, preparation, picked>>

Abs(x) == IF x < 0 THEN -x ELSE x

FrameCount    == Len(video.times)
FrameDuration == video.duration \div FrameCount

(* A staging frame whose decodedFrame has nothing in it has picture 0.     *)
Blank == [time |-> 0, picture |-> 0]

(* mutant: the file is rewound, but the decoder is not flushed.            *)
Unflushed == [fed |-> 0, out |-> decoder.out]

Rewound == [fed |-> 0, out |-> 0]

Init ==
  /\ video \in Videos
  /\ op = "idle" /\ phase = "reading"
  /\ sampleTime = 0 /\ step = 0
  /\ decoder = [fed |-> 0, out |-> 0]
  /\ endOfStream = FALSE /\ frameAcquired = FALSE
  /\ prev = Blank /\ curr = Blank /\ packets = {}
  /\ prepared = <<>> /\ preparation = "ok"
  /\ picked = NoFrame

-----------------------------------------------------------------------------
(* The frames prepared                                                     *)

Stretches(n) == {r \in (0 .. n) \X (0 .. n) : r[1] + r[2] <= n}

(* Bisection for the first of the frames that is none of the preceding;    *)
(* counts the frames before it, or is -1 if it met a null frame.  A        *)
(* stretch is what is left to search: the frames before it and its length. *)
Bisect(frames, preceding) ==
  LET after[r \in Stretches(Len(frames))] ==
        LET half == r[2] \div 2
            mid  == r[1] + half + 1
        IN  IF r[2] = 0 THEN r[1]
            ELSE IF frames[mid] = NoFrame THEN -1
            ELSE IF mid \in preceding THEN after[<<mid, r[2] - half - 1>>]
            ELSE after[<<r[1], half>>]
  IN  after[<<0, Len(frames)>>]

(* mutant: std::upper_bound.                                               *)
UpperBound(frames, t) ==
  1 + Bisect(frames, {i \in DOMAIN frames : frames[i] # NoFrame /\ frames[i].time <= t})

Before(frames, t) == {i \in DOMAIN frames : frames[i] # NoFrame /\ frames[i].time < t}

(* std::lower_bound: the first frame at or after t.                        *)
LowerBound(frames, t) == 1 + Bisect(frames, Before(frames, t))

(* The frames looked at behind the bisection: the bound and the one behind *)
(* it, or only the last frame if the bound is the last frame or past it.   *)
Candidates(frames, t) ==
  IF LowerBound(frames, t) < Len(frames)
  THEN {LowerBound(frames, t), LowerBound(frames, t) + 1} ELSE {Len(frames)}

(* Looking for t reads through a null frame.                               *)
NullRead(frames, t) ==
  /\ frames # <<>>
  /\ \/ LowerBound(frames, t) = 0
     \/ \E i \in Candidates(frames, t) \intersect DOMAIN frames : frames[i] = NoFrame

(* PickBestFrameFromPrepared.  The tolerance is in half units, at most 0   *)
(* for none.  The last frame answers whatever the tolerance.               *)
BestPrepared(frames, t, tolerance) ==
  LET lower   == LowerBound(frames, t)
      diff(i) == Abs(frames[i].time - t)
      far(i)  == tolerance > 0 /\ 2 * diff(i) > tolerance
  IN  CASE frames = <<>>       -> NoFrame
        [] lower >= Len(frames) /\ frames # <<>> -> frames[Len(frames)]
        [] lower < Len(frames) ->
             IF far(lower) /\ far(lower + 1) THEN NoFrame
             ELSE IF diff(lower) <= diff(lower + 1) THEN frames[lower] ELSE frames[lower + 1]

HasNull(frames) == \E i \in 1 .. Len(frames) : frames[i] = NoFrame

(* std::sort compares every frame with another, if there is another.       *)
SortReadsNull(frames) == Len(frames) > 1 /\ HasNull(frames)

(* The place of frame i in the order of time.                              *)
Rank(frames, i) ==
  Cardinality({j \in DOMAIN frames : \/ frames[j].time < frames[i].time
                                     \/ frames[j].time = frames[i].time /\ j <= i})

(* Frames of the same time may come in any order: here, as they came.      *)
Sorted(frames) ==
  IF Len(frames) > 1
  THEN [k \in DOMAIN frames |-> frames[CHOOSE i \in DOMAIN frames : Rank(frames, i) = k]]
  ELSE frames

-----------------------------------------------------------------------------
(* The decoder, as FFmpeg's avcodec_decode_video2 documents and does it.   *)
(* Its pictures come in the order of their times, if they have times.      *)

PacketsLeft == decoder.fed < FrameCount

HasPicture(d, ended) == d.fed > d.out /\ (ended \/ d.fed - d.out > video.delay)

(* The picture that a staging frame got last belongs to the decoder and is *)
(* valid until the decoder puts out another.  What sws_scale reads from an *)
(* older one is that picture, or one decoded into its memory since.        *)
Valid(staging) == staging.picture \in {0, decoder.out}

Converted(staging) ==
  IF staging.picture \in video.refused THEN {NoFrame}
  ELSE IF Valid(staging) THEN {staging}
  ELSE {[staging EXCEPT !.picture = p] : p \in staging.picture .. decoder.fed}

-----------------------------------------------------------------------------
(* The calls                                                               *)

(* The flush and rewind before the loop, and fresh staging frames.         *)
StartLoop(call, t, dt) ==
  /\ op' = call /\ sampleTime' = t /\ step' = dt
  /\ phase' = "reading"
  /\ decoder' = Rewound
  /\ endOfStream' = FALSE /\ frameAcquired' = FALSE
  /\ prev' = Blank /\ curr' = Blank /\ packets' = {}

(* The call returns: FlushBuffersGuard flushes and rewinds again.          *)
EndLoop == StartLoop("idle", 0, 0)

(* A rate that is invalid, or not below the stream's own, prepares all.    *)
WantsAll(dt) == dt = 0 \/ dt * FrameCount <= video.duration

PrepareAllFrames ==
  /\ op = "idle"
  /\ StartLoop("prepareAll", 0, 0)
  /\ prepared' = <<>> /\ preparation' = "ok"
  /\ UNCHANGED <<video, picked>>

PrepareFrames(dt) ==
  /\ op = "idle"
  /\ IF WantsAll(dt) THEN StartLoop("prepareAll", 0, 0) ELSE StartLoop("prepare", 0, dt)
  /\ prepared' = <<>> /\ preparation' = "ok"
  /\ UNCHANGED <<video, picked>>

(* A pick that meets a null frame.                                         *)
NullDereference(t) ==
  /\ op = "idle"
  /\ NullRead(prepared, t)
  /\ op' = "trapped"
  /\ UNCHANGED <<video, phase, sampleTime, step, decoder, endOfStream, frameAcquired, prev, curr,
                 packets, prepared, preparation, picked>>

PickBestPreparedFrame(t) ==
  /\ op = "idle"
  /\ ~NullRead(prepared, t)
  /\ picked' = BestPrepared(prepared, t, -1)
  /\ UNCHANGED <<video, callVars, prepared, preparation>>

(* A prepared frame within half a frame's duration, or else the decoder.   *)
PickBestFrame(t) ==
  /\ op = "idle"
  /\ ~NullRead(prepared, t)
  /\ picked' = BestPrepared(prepared, t, FrameDuration)
  /\ IF picked' # NoFrame THEN UNCHANGED callVars ELSE StartLoop("pick", t, 0)
  /\ UNCHANGED <<video, prepared, preparation>>

ClearPreparedFrames ==
  /\ op = "idle"
  /\ prepared' = <<>> /\ preparation' = "ok"
  /\ UNCHANGED <<video, callVars, picked>>

-----------------------------------------------------------------------------
(* The loop                                                                *)

(* mutant: the search goes on at the end of the stream.                    *)
LeavesWithPicture(got, ended) == got

(* while (!frameAcquired), and the break at the end of the stream.         *)
LeavesSearch(got, ended) == got \/ ended

Running == op \in {"prepareAll", "prepare", "pick"}

(* Before the end of the stream av_read_frame puts a packet of the stream  *)
(* into curr's, which is freed first, or finds the end.  After it curr's   *)
(* packet goes to the decoder as it is: the decoder's pictures run out     *)
(* whatever is in it.                                                      *)
PacketsRead ==
  IF endOfStream THEN packets
  ELSE IF PacketsLeft THEN packets \union {"curr"} ELSE packets \ {"curr"}

(* avcodec_decode_video2 puts a picture into curr, or not.                 *)
Decode ==
  /\ Running /\ phase = "reading"
  /\ LET ended == endOfStream \/ ~PacketsLeft
         given == IF ended THEN decoder ELSE [decoder EXCEPT !.fed = @ + 1]
         got   == HasPicture(given, ended)
     IN  /\ endOfStream' = ended
         /\ frameAcquired' = got
         /\ decoder' = IF got THEN [given EXCEPT !.out = @ + 1] ELSE given
         /\ phase' = IF LeavesSearch(got, ended) THEN "examining" ELSE "reading"
         /\ curr' = IF got THEN [time |-> video.times[given.out + 1], picture |-> given.out + 1]
                    ELSE IF ended THEN [time |-> NoTime, picture |-> 0]
                    ELSE curr
  /\ packets' = PacketsRead
  /\ UNCHANGED <<video, op, sampleTime, step, prev, prepared, preparation, picked>>

(* av_read_frame or avcodec_decode_video2 failed -- at the end for a packet *)
(* that is not empty, too: the call gives up, and leaves what it has       *)
(* prepared so far as it came.                                             *)
DecodeFails ==
  /\ Running /\ phase = "reading"
  /\ EndLoop
  /\ preparation' = IF op = "pick" THEN preparation ELSE "failed"
  /\ UNCHANGED <<video, prepared, picked>>

(* mutant: the pictures the decoder holds back are given up.               *)
LoopUntilEnd == ~endOfStream

(* while (!endOfStream || frameAcquired)                                   *)
LoopOn == ~endOfStream \/ frameAcquired

(* The frames are sorted, and the call is over.                            *)
SortAndEnd(frames) ==
  IF SortReadsNull(frames)
  THEN /\ op' = "trapped" /\ prepared' = frames
       /\ UNCHANGED <<phase, sampleTime, step, decoder, endOfStream, frameAcquired, prev, curr, packets>>
  ELSE /\ prepared' = Sorted(frames)
       /\ EndLoop

(* std::swap(prevFrame, currFrame), packets and all.                       *)
SwapStaging ==
  /\ prev' = curr /\ curr' = prev
  /\ packets' = {IF f = "prev" THEN "curr" ELSE "prev" : f \in packets}

(* The end of an iteration: the next one, or the call is over.             *)
NextOrEnd(frames, swaps, nextSample) ==
  /\ IF LoopOn
     THEN /\ phase' = "reading"
          /\ IF swaps THEN SwapStaging ELSE UNCHANGED <<prev, curr, packets>>
          /\ sampleTime' = nextSample
          /\ prepared' = frames
          /\ UNCHANGED <<op, step, decoder, endOfStream, frameAcquired>>
     ELSE IF op = "pick" THEN prepared' = frames /\ EndLoop ELSE SortAndEnd(frames)
  /\ UNCHANGED <<video, preparation, picked>>

(* PrepareAllFrames appends every picture, null or not, and stops at the   *)
(* first that has no time: at the end of the pictures, or before.          *)
ExamineAll ==
  /\ op = "prepareAll" /\ phase = "examining"
  /\ curr.time >= 0
  /\ \E f \in Converted(curr) : NextOrEnd(Append(prepared, f), FALSE, sampleTime)

StopAll ==
  /\ op = "prepareAll" /\ phase = "examining"
  /\ curr.time < 0
  /\ SortAndEnd(prepared)
  /\ UNCHANGED <<video, preparation, picked>>

Near == Abs(curr.time - sampleTime) < FrameDuration

(* mutant: the picture past the sample time is taken without a comparison. *)
FirstPast == FALSE

PrevCloser == Abs(prev.time - sampleTime) < Abs(curr.time - sampleTime)

(* The frame that both PickBestFrame and PrepareFrames choose for          *)
(* sampleTime: the current one if near; the previous one if the current    *)
(* has no time, as when the pictures have ended; past the sample time the  *)
(* closer one; else none yet.                                              *)
Chosen ==
  CASE Near                                       -> curr
    [] ~Near /\ curr.time < 0                     -> prev
    [] ~Near /\ curr.time > sampleTime            -> IF PrevCloser THEN prev ELSE curr
    [] ~Near /\ curr.time \in 0 .. sampleTime     -> NoFrame

ReturnFrame ==
  /\ op = "pick" /\ phase = "examining"
  /\ Chosen # NoFrame
  /\ picked' \in Converted(Chosen)
  /\ EndLoop
  /\ UNCHANGED <<video, prepared, preparation>>

(* mutant: a null frame is kept, as PrepareAllFrames does.                 *)
KeptUnchecked(frames, f) == Append(frames, f)

(* if (frame)                                                              *)
Kept(frames, f) == IF f = NoFrame THEN frames ELSE Append(frames, f)

(* PrepareFrames appends it and goes on to the next sample.  The staging   *)
(* frames are swapped unless the current one was near.                     *)
AppendFrame ==
  /\ op = "prepare" /\ phase = "examining"
  /\ Chosen # NoFrame
  /\ \E f \in Converted(Chosen) :
       NextOrEnd(Kept(prepared, f), ~Near, sampleTime + step)

TryNext ==
  /\ op \in {"pick", "prepare"} /\ phase = "examining"
  /\ Chosen = NoFrame
  /\ NextOrEnd(prepared, TRUE, sampleTime)

Loop == Decode \/ ExamineAll \/ StopAll \/ ReturnFrame \/ AppendFrame \/ TryNext

Next ==
  \/ PrepareAllFrames
  \/ \E dt \in SampleSteps : PrepareFrames(dt)
  \/ \E t \in SampleTimes : PickBestPreparedFrame(t) \/ PickBestFrame(t) \/ NullDereference(t)
  \/ ClearPreparedFrames
  \/ DecodeFails
  \/ Loop

Spec == Init /\ [][Next]_vars

(* A call, once made, runs.                                                *)
FairSpec == Spec /\ WF_vars(Loop)

-----------------------------------------------------------------------------
(* Properties                                                              *)

Pictures == 0 .. FrameCount
Frames   == [time : Int, picture : Pictures]

(* Every variable has its type; the decoder puts out no more than it got.  *)
TypeOK ==
  /\ video \in Videos
  /\ op \in {"idle", "prepareAll", "prepare", "pick", "trapped"}
  /\ phase \in {"reading", "examining"}
  /\ sampleTime \in Nat /\ step \in Nat
  /\ decoder \in [fed : Pictures, out : Pictures] /\ decoder.out <= decoder.fed
  /\ endOfStream \in BOOLEAN /\ frameAcquired \in BOOLEAN
  /\ prev \in Frames /\ curr \in Frames /\ packets \subseteq {"prev", "curr"}
  /\ prepared \in Seq(Frames \union {NoFrame}) /\ preparation \in {"ok", "failed"}
  /\ picked \in Frames \union {NoFrame}

(* The bisection finds the first prepared frame at or after any time,      *)
(* because preparedFrames is in the order of time whenever it is searched. *)
(* (A preparation that failed leaves the frames as they came, and those of *)
(* PrepareFrames may come out of order; and see NullsOnlyFromAll.)         *)
PreparedSearchable ==
  (op = "idle" /\ preparation = "ok" /\ ~HasNull(prepared)) =>
    \A t \in SampleTimes :
      LET bound == LowerBound(prepared, t)
      IN  /\ \A i \in 1 .. bound - 1 : prepared[i].time < t
          /\ \A i \in bound .. Len(prepared) : prepared[i].time >= t

(* No time of the set is nearer to t than the frame.                       *)
Nearest(f, t, times) == \A x \in times : Abs(f.time - t) <= Abs(x - t)

(* The pictures before the first that has no time, where every search      *)
(* ends.                                                                   *)
Leading  == {i \in 1 .. FrameCount : \A j \in 1 .. i : video.times[j] >= 0}
AllTimed == \A i \in 1 .. FrameCount : video.times[i] >= 0

Suits(f, t) == Abs(f.time - t) < FrameDuration \/ Nearest(f, t, {video.times[i] : i \in Leading})

(* The first frame is shown when the stream starts.                        *)
StartsAtStart == video.times[1] \in 0 .. FrameDuration - 1

(* PrepareAllFrames, if nothing fails, prepares every frame before the     *)
(* first that has no time once, in order, with its own picture: of a       *)
(* stream with times none is lost in the decoder when the packets end.     *)
(* (Of a stream of one picture that is refused it prepares the null        *)
(* frame.)                                                                 *)
PrepareAllComplete ==
  [][(op = "prepareAll" /\ op' = "idle" /\ preparation' = "ok") =>
       prepared' = [i \in Leading |-> IF i \in video.refused THEN NoFrame
                                      ELSE [time |-> video.times[i], picture |-> i]]]_vars

(* PickBestFrame that has to decode finds a frame unless decoding fails,   *)
(* whatever time it is asked for: the loop is not left without one.  It    *)
(* returns null only for a picture that is refused.                        *)
PickFindsFrame ==
  [][(op = "pick" /\ phase = "examining" /\ op' = "idle") =>
       Chosen # NoFrame /\ (picked' = NoFrame => Chosen.picture \in video.refused)]_vars

(* What it finds has a picture, and is within a frame's duration of the    *)
(* time asked for, or no frame is nearer of those before the first without *)
(* a time.                                                                 *)
PickAccurate ==
  [][(op = "pick" /\ picked' # NoFrame /\ StartsAtStart) =>
       picked'.picture # 0 /\ Suits(picked', sampleTime)]_vars

(* After PrepareFrames of a stream with times there is such a frame for    *)
(* every sample time, within the stream or behind it, however irregular    *)
(* the times are.  (There may be blank frames beside them.)                *)
EverySamplePrepared ==
  [][(/\ op = "prepare" /\ op' = "idle" /\ preparation' = "ok"
      /\ StartsAtStart /\ AllTimed /\ video.refused = {}) =>
       \A n \in 0 .. video.duration :
         \E i \in 1 .. Len(prepared') :
           prepared'[i].picture # 0 /\ Suits(prepared'[i], n * step)]_vars

(* PrepareFrames, however many pictures are refused and wherever it fails, *)
(* leaves no null frame for a sort or a later pick to read through.  Only  *)
(* PrepareAllFrames does.                                                  *)
NullsOnlyFromAll ==
  [][(op = "prepare" /\ op' # "prepare") => (op' = "idle" /\ ~HasNull(prepared'))]_vars

(* Every call comes to an end: the loop does at the end of the stream.     *)
CallsReturn == Running ~> ~Running

(* FFmpeg/libavcodec/avcodec.h: a decoder that holds back pictures must be *)
(* fed with empty packets at the end of the stream to return them.  So     *)
(* PrepareAllFrames does, which keeps one staging frame.  The other loops  *)
(* swap theirs: their decoder may be given a packet with data once more.   *)
DrainedEmpty ==
  (op = "prepareAll" /\ endOfStream) => "curr" \notin packets

(* FFmpeg/libavcodec/avcodec.h: with refcounted_frames off, a picture is   *)
(* valid only until the decoder is called again.  No older one is used.    *)
PicturesValid ==
  (op \in {"pick", "prepare"} /\ phase = "examining" /\ Chosen # NoFrame) => Valid(Chosen)
=============================================================================
