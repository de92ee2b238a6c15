------------------------ MODULE GifToolsSessionProofs ------------------------
(***************************************************************************)
(* Theorems about GifToolsSession, for sessions of every length and every  *)
(* number of prepared frames.                                              *)
(***************************************************************************)
EXTENDS GifToolsSession, TLAPS

Heaps == [Id -> Object \union {Gone}]

(* An object owns what its type says: a frame the image made after it, a   *)
(* stream frames, the others nothing.  What it owns is alive.              *)
Shaped(h, i) ==
  /\ h[i].type \notin {"VideoFrame", "VideoStream"} => h[i].owns = {}
  /\ h[i].type = "VideoFrame" => h[i].owns = {i + 1} /\ Finds(h, i + 1, "Image")
  /\ h[i].type = "VideoStream" => \A j \in h[i].owns : Finds(h, j, "VideoFrame")

(* The ownership of a heap is in order, x set apart.                       *)
SoundBut(h, x) ==
  \A i \in Id \ {x} :
    /\ h[i] # Gone => Shaped(h, i)
    /\ \A j \in Id \ {i, x} : h[i].owns \intersect h[j].owns = {}

(* What dies was freed, or its owner died; what it owned dies with it.     *)
DiesByOwner(h, S) ==
  \A i \in Id : Destroy(h, S)[i] # h[i] =>
    /\ i \in S \/ \E j \in Id : i \in h[j].owns /\ Destroy(h, S)[j] = Gone
    /\ \A k \in h[i].owns : Destroy(h, S)[k] = Gone

(* The list names living objects that nothing owns.                        *)
Kept(h, list) ==
  /\ \A i \in list \ {0} : Alive(h, i)
  /\ \A i \in Id : h[i].owns \intersect list = {}

(* What lives is listed, or owned, or one of the others.                   *)
Remembered(h, list, others) ==
  \A i \in Id : h[i] # Gone =>
    i \in list \/ i \in others \/ \E j \in Id : i \in h[j].owns

(* Ids are given in order: none is used before.                            *)
Given ==
  /\ \A i \in Id : i > made => heap[i] = Gone
  /\ {currentGifBuilderId, currentInputStreamBufferId, currentInputStreamId,
      currentVideoStreamId} \union freed \union abandoned \subseteq 0 .. made

(* The stream's input stream is there, and the buffer that reads.          *)
Reads(h, stream) ==
  /\ Finds(h, h[stream].uses, "InputStream")
  /\ Finds(h, h[h[stream].uses].uses, "Buffer")

Others == {currentVideoStreamId} \union abandoned

(* The current ids name what they are for, if anything.  The current       *)
(* stream can be read while it is alive, also when the input stream that   *)
(* is current is not its own.                                              *)
CurrentInv ==
  /\ currentGifBuilderId # 0 => Finds(heap, currentGifBuilderId, "GifBuilder")
  /\ Alive(heap, currentInputStreamId) => Finds(heap, currentInputStreamId, "InputStream")
  /\ \A i \in Others : Alive(heap, i) => Finds(heap, i, "VideoStream")
  /\ Alive(heap, currentVideoStreamId) => Reads(heap, currentVideoStreamId)
  /\ gifBuffer # 0 => Finds(heap, gifBuffer, "Buffer")

(* What the client holds is there, what it has freed is not.               *)
ClientInv ==
  /\ \A i \in images : Finds(heap, i, "Image") /\ (i \in vmObjIds \/ i \in FrameImages)
  /\ \A i \in freed : ~Alive(heap, i)
  /\ \A f \in frames : /\ Finds(heap, f.frameId, "VideoFrame")
                        /\ f.frameId \in vmObjIds
                        /\ f.imageId = f.frameId + 1

(* The inductive invariant.                                                *)
IInv ==
  /\ TypeOK
  /\ Given
  /\ SoundBut(heap, 0)
  /\ Kept(heap, vmObjIds)
  /\ Remembered(heap, vmObjIds, Others)
  /\ CurrentInv
  /\ ClientInv
  /\ NoBadPointer

-----------------------------------------------------------------------------
(* What a destructor leaves.                                               *)

(* What a freed object leaves is told from any object.                     *)
LEMMA GoneIsNoObject == Gone \notin Object /\ Gone.owns = {} /\ Gone.type = "none"
  BY SMT DEF Gone, Object, Types

(* What the members of a set own.                                          *)
LEMMA OwnedMembers ==
  ASSUME NEW h, NEW S, NEW i
  PROVE  i \in Owned(h, S) <=> \E j \in S : i \in h[j].owns
  BY DEF Owned

(* What an object owns are ids.                                            *)
LEMMA OwnsTyped ==
  ASSUME NEW h \in Heaps, NEW i \in Id
  PROVE  /\ h[i] \in Object \union {Gone}
         /\ h[i].owns \in SUBSET Id
         /\ h[i] = Gone <=> h[i].type = "none"
  BY GoneIsNoObject DEF Heaps, Object, Types

(* A destructor takes with it what its object owns, and nothing else,      *)
(* and leaves nobody with a pointer to it.                                 *)
LEMMA DestroySound ==
  ASSUME NEW h \in Heaps, NEW S \in SUBSET Id, NEW x,
         \A i \in S : h[i] # Gone,
         SoundBut(h, 0),
         \A i \in Id \ {x} : h[i].owns \intersect S = {}
  PROVE  /\ Destroy(h, S) \in Heaps
         /\ \A i \in Id : Destroy(h, S)[i] \in {h[i], Gone}
         /\ \A i \in S : Destroy(h, S)[i] = Gone
         /\ DiesByOwner(h, S)
         /\ SoundBut(Destroy(h, S), x)
         /\ ~Dangles(h, S)
<1> DEFINE D == Destroyed(h, S)  g == Destroy(h, S)
<1>1. S \subseteq D /\ g = [i \in Id |-> IF i \in D THEN Gone ELSE h[i]]
  BY DEF Destroyed, Destroy
<1>2. \A i \in D : i \in S \/ \E j \in D : i \in h[j].owns
  BY OwnedMembers DEF Destroyed
<1>3. \A i \in Id : h[i].owns \in SUBSET Id
  BY OwnsTyped
<1>4. \A i \in Id : \A k \in h[i].owns : h[i] # Gone /\ Alive(h, k)
  <2> SUFFICES ASSUME NEW i \in Id, NEW k \in h[i].owns PROVE h[i] # Gone /\ Alive(h, k)
    OBVIOUS
  <2>1. h[i] # Gone
    BY GoneIsNoObject
  <2>2. Shaped(h, i)
    BY <2>1 DEF SoundBut, Id
  <2>3. Finds(h, k, "Image") \/ Finds(h, k, "VideoFrame")
    BY <2>2 DEF Shaped
  <2> QED BY <2>1, <2>3 DEF Finds
<1>5. \A i \in D : i \in Id /\ h[i] # Gone
  <2>1. \A i \in Owned(h, S) : Alive(h, i)
    BY <1>4, OwnedMembers
  <2>2. \A i \in Owned(h, Owned(h, S)) : Alive(h, i)
    BY <1>4, <2>1, OwnedMembers DEF Alive
  <2> QED BY <2>1, <2>2 DEF Destroyed, Alive
<1>6. ASSUME NEW i \in Id \ {x}, i \notin D, NEW k \in h[i].owns PROVE k \notin D
  <2> SUFFICES ASSUME k \in D PROVE FALSE
    OBVIOUS
  <2>1. k \notin S
    BY <1>6
  <2>2. PICK j \in D : k \in h[j].owns
    BY <1>2, <2>1
  <2>3. j # i /\ j \in Id /\ i # 0 /\ j # 0
    BY <1>6, <2>2, <1>5 DEF Id
  <2>4. h[i].owns \intersect h[j].owns = {}
    BY <2>3 DEF SoundBut
  <2> QED BY <2>2, <2>4
<1>7. g \in Heaps
  BY <1>1 DEF Heaps
<1>8. SoundBut(g, x)
  <2> SUFFICES ASSUME NEW i \in Id \ {x}
               PROVE  /\ g[i] # Gone => Shaped(g, i)
                      /\ \A j \in Id \ {i, x} : g[i].owns \intersect g[j].owns = {}
    BY DEF SoundBut
  <2>0. i # 0 /\ \A j \in Id : j # 0
    BY DEF Id
  <2>1. \A j \in Id : g[j].owns \subseteq h[j].owns
    BY <1>1, GoneIsNoObject
  <2>2. \A j \in Id \ {i, x} : g[i].owns \intersect g[j].owns = {}
    <3> SUFFICES ASSUME NEW j \in Id \ {i, x} PROVE g[i].owns \intersect g[j].owns = {}
      OBVIOUS
    <3>1. h[i].owns \intersect h[j].owns = {}
      BY <2>0 DEF SoundBut
    <3> QED BY <2>1, <3>1
  <2>3. ASSUME g[i] # Gone PROVE Shaped(g, i)
    <3>1. i \notin D /\ g[i] = h[i]
      BY <1>1, <2>3
    <3>2. \A k \in h[i].owns : k \in Id /\ g[k] = h[k]
      BY <3>1, <1>6, <1>1, <1>3
    <3>3. Shaped(h, i)
      BY <2>0, <2>3, <3>1 DEF SoundBut
    <3> QED BY <3>1, <3>2, <3>3 DEF Shaped, Finds, Alive
  <2> QED BY <2>2, <2>3
<1>9. DiesByOwner(h, S)
  <2>1. ASSUME NEW i \in D, NEW k \in h[i].owns PROVE k \in D
    <3>1. CASE i \in S \/ i \in Owned(h, S)
      BY <3>1, OwnedMembers DEF Destroyed
    <3>2. CASE i \in Owned(h, Owned(h, S))
      <4>1. PICK a \in Owned(h, S) : i \in h[a].owns
        BY <3>2, OwnedMembers
      <4>2. PICK b \in S : a \in h[b].owns
        BY OwnedMembers
      <4>3. a \in Id /\ i \in Id /\ a # 0 /\ b # 0 /\ i # 0
        BY <1>3, <4>1, <4>2 DEF Id
      <4>4. Shaped(h, a) /\ Shaped(h, b) /\ Shaped(h, i)
        BY <4>1, <4>2, <4>3, <1>4, <2>1 DEF SoundBut
      <4>5. h[a].type = "VideoFrame"
        BY <4>1, <4>2, <4>4 DEF Shaped, Finds
      <4>6. h[i].type = "Image"
        BY <4>1, <4>4, <4>5 DEF Shaped, Finds
      <4> QED BY <2>1, <4>4, <4>6 DEF Shaped
    <3> QED BY <3>1, <3>2 DEF Destroyed
  <2> QED BY <1>1, <1>2, <1>3, <1>5, <2>1 DEF DiesByOwner
<1>10. ~Dangles(h, S)
  BY <1>5 DEF Dangles, Alive
<1> QED BY <1>1, <1>7, <1>8, <1>9, <1>10

(* Freeing ids that nothing owns, as the session does.                     *)
LEMMA FreeSound ==
  ASSUME NEW h \in Heaps, NEW list, NEW others, NEW ids \in SUBSET (Id \union {0}),
         SoundBut(h, 0), Kept(h, list), Remembered(h, list, others),
         \A i \in Id : h[i].owns \intersect ids = {}
  PROVE  LET S == Freeable(h, ids)
             g == Destroy(h, S)
         IN  /\ g \in Heaps
             /\ SoundBut(g, 0)
             /\ ~Dangles(h, S)
             /\ Kept(g, list \ ids)
             /\ Remembered(g, list \ ids, others)
             /\ \A i \in Id : g[i] \in {h[i], Gone}
             /\ \A i \in ids \ {0} : g[i] = Gone
             /\ \A i \in Id : g[i] # h[i] /\ i \notin ids =>
                  /\ i \notin list
                  /\ h[i].type \in {"Image", "VideoFrame"}
                  /\ \E j \in Id : i \in h[j].owns /\ g[j] = Gone
<1> DEFINE S == Freeable(h, ids)  g == Destroy(h, S)
<1>1. S \in SUBSET Id /\ S \subseteq ids /\ \A i \in S : h[i] # Gone
  BY DEF Freeable, Alive
<1>2. \A i \in Id \ {0} : h[i].owns \intersect S = {}
  BY <1>1
<1>3. /\ g \in Heaps
      /\ \A i \in Id : g[i] \in {h[i], Gone}
      /\ \A i \in S : g[i] = Gone
      /\ DiesByOwner(h, S)
      /\ SoundBut(g, 0)
      /\ ~Dangles(h, S)
  BY <1>1, <1>2, DestroySound
<1>4. \A i \in Id : h[i].owns \in SUBSET Id
  BY OwnsTyped
<1>5. \A i \in ids \ {0} : g[i] = Gone
  BY <1>1, <1>3 DEF Freeable, Alive
<1>6. ASSUME NEW i \in Id, g[i] # h[i], i \notin ids
      PROVE  /\ i \notin list
             /\ h[i].type \in {"Image", "VideoFrame"}
             /\ \E j \in Id : i \in h[j].owns /\ g[j] = Gone
  <2>1. PICK j \in Id : i \in h[j].owns /\ g[j] = Gone
    BY <1>1, <1>3, <1>6 DEF DiesByOwner
  <2>2. h[j] # Gone /\ j # 0
    BY <2>1, GoneIsNoObject DEF Id
  <2>3. Shaped(h, j)
    BY <2>2 DEF SoundBut
  <2>4. h[i].type \in {"Image", "VideoFrame"}
    BY <2>1, <2>3 DEF Shaped, Finds
  <2> QED BY <2>1, <2>4 DEF Kept
<1>7. Kept(g, list \ ids)
  <2>1. ASSUME NEW i \in (list \ ids) \ {0} PROVE Alive(g, i)
    <3>1. i \in Id /\ h[i] # Gone
      BY DEF Kept, Alive
    <3> QED BY <3>1, <1>6 DEF Alive
  <2>2. \A i \in Id : g[i].owns \subseteq h[i].owns
    BY <1>3, GoneIsNoObject
  <2> QED BY <2>1, <2>2 DEF Kept
<1>8. Remembered(g, list \ ids, others)
  <2> SUFFICES ASSUME NEW i \in Id, g[i] # Gone, i \notin others,
                      \A j \in Id : i \notin g[j].owns
               PROVE  i \in list \ ids
    BY DEF Remembered
  <2>1. i \notin ids /\ h[i] # Gone
    BY <1>3, <1>5 DEF Id
  <2>2. ASSUME NEW j \in Id PROVE i \notin h[j].owns
    <3> SUFFICES ASSUME i \in h[j].owns PROVE FALSE
      OBVIOUS
    <3>1. g[j] # h[j]
      OBVIOUS
    <3> QED BY <1>3, <3>1 DEF DiesByOwner
  <2> QED BY <2>1, <2>2 DEF Remembered
<1> QED BY <1>3, <1>5, <1>6, <1>7, <1>8

(* A heap that got objects behind those it had, x changed but for its      *)
(* type.                                                                   *)
LEMMA GrowSound ==
  ASSUME NEW h \in Heaps, NEW g \in Heaps, NEW n \in Nat, NEW x,
         SoundBut(h, x),
         \A i \in Id : i > n => h[i] = Gone,
         \A i \in Id : i <= n => g[i].type = h[i].type /\ (i # x => g[i] = h[i]),
         \A i \in Id : i > n => i # x /\ g[i].owns \in {{}, {i + 1}} /\ (g[i] # Gone => Shaped(g, i))
  PROVE  SoundBut(g, x)
<1>1. \A i \in Id : h[i].owns \in SUBSET Id
  BY OwnsTyped
<1>2. \A i, t : Finds(h, i, t) => i <= n /\ Finds(g, i, t)
  <2> SUFFICES ASSUME NEW i, NEW t, Finds(h, i, t) PROVE i <= n /\ Finds(g, i, t)
    OBVIOUS
  <2>1. i \in Id /\ i \in Nat /\ h[i] # Gone
    BY DEF Finds, Alive, Id
  <2>2. i <= n
    BY <2>1
  <2>3. g[i] # Gone
    BY <2>1, <2>2, OwnsTyped
  <2> QED BY <2>1, <2>2, <2>3 DEF Finds, Alive
<1>3. ASSUME NEW i \in Id \ {x}, i <= n
      PROVE  (g[i] # Gone => Shaped(g, i)) /\ \A k \in g[i].owns : k <= n
  <2>1. g[i] = h[i]
    BY <1>3
  <2>2. CASE h[i] = Gone
    BY <2>1, <2>2, GoneIsNoObject
  <2>3. CASE h[i] # Gone
    <3>1. Shaped(h, i)
      BY <2>3 DEF SoundBut
    <3> QED BY <2>1, <3>1, <1>2 DEF Shaped
  <2> QED BY <2>2, <2>3
<1>4. ASSUME NEW i \in Id \ {x}, NEW j \in Id \ {i, x}
      PROVE  g[i].owns \intersect g[j].owns = {}
  <2>1. i \in Nat /\ j \in Nat
    BY DEF Id
  <2>2. CASE i <= n /\ j <= n
    <3>1. h[i].owns \intersect h[j].owns = {}
      BY DEF SoundBut
    <3> QED BY <2>2, <3>1
  <2>3. CASE i <= n /\ j > n
    <3>1. \A k \in g[i].owns : k <= n
      BY <1>3, <2>3
    <3>2. \A k \in g[j].owns : k = j + 1
      BY <2>3
    <3> QED BY <2>1, <2>3, <3>1, <3>2
  <2>4. CASE i > n /\ j <= n
    <3>1. \A k \in g[j].owns : k <= n
      BY <1>3, <2>4
    <3>2. \A k \in g[i].owns : k = i + 1
      BY <2>4
    <3> QED BY <2>1, <2>4, <3>1, <3>2
  <2>5. CASE i > n /\ j > n
    <3>1. \A k \in g[j].owns : k = j + 1
      BY <2>5
    <3>2. \A k \in g[i].owns : k = i + 1
      BY <2>5
    <3> QED BY <2>1, <3>1, <3>2
  <2> QED BY <2>1, <2>2, <2>3, <2>4, <2>5
<1>5. \A i \in Id \ {x} : g[i] # Gone => Shaped(g, i)
  BY <1>3 DEF Id
<1> QED BY <1>4, <1>5 DEF SoundBut

-----------------------------------------------------------------------------
(* Two kinds of step: those that free ids, and those that make objects.    *)

(* What the steps need of the invariant.                                   *)
LEMMA InvFacts ==
  ASSUME IInv
  PROVE  /\ MaxObjects \in Nat /\ made \in Nat /\ made <= MaxObjects
         /\ heap \in Heaps
         /\ \A i \in Id : i \in Nat /\ i # 0
         /\ \A i : Alive(heap, i) => i \in Id /\ i <= made
         /\ \A i \in vmObjIds : i \in Nat /\ i <= made
         /\ \A i \in Id : heap[i] # Gone => Shaped(heap, i)
         /\ \A i \in Id : \A j \in Id \ {i} : heap[i].owns \intersect heap[j].owns = {}
<1>1. MaxObjects \in Nat /\ made \in Nat /\ made <= MaxObjects /\ heap \in Heaps
  <2>1. MaxObjects \in Nat /\ made \in 0 .. MaxObjects
    BY BoundsAssumption DEF IInv, TypeOK
  <2>2. heap \in Heaps
    BY DEF IInv, TypeOK, Heaps
  <2> QED BY <2>1, <2>2
<1>2. \A i \in Id : i \in Nat /\ i # 0
  BY DEF Id
<1>3. \A i : Alive(heap, i) => i \in Id /\ i <= made
  BY <1>1, <1>2 DEF IInv, Given, Alive
<1>4. \A i \in vmObjIds : i \in Nat /\ i <= made
  BY <1>1, <1>2, <1>3 DEF IInv, Kept
<1>5. \A i \in Id : heap[i] # Gone => Shaped(heap, i)
  BY <1>2 DEF IInv, SoundBut
<1>6. \A i \in Id : \A j \in Id \ {i} : heap[i].owns \intersect heap[j].owns = {}
  BY <1>2 DEF IInv, SoundBut
<1> QED BY <1>1, <1>2, <1>3, <1>4, <1>5, <1>6

(* The client frees ids that nothing owns, which are neither the GIF, nor  *)
(* the builder, nor what a stream that stays is read through, and forgets  *)
(* them.                                                                   *)
LEMMA FreeKeepsInv ==
  ASSUME IInv, NEW ids \in SUBSET (Id \union {0}), InternalFreeObjIds(ids),
         \A i \in Id : heap[i].owns \intersect ids = {},
         \A i \in ids : Alive(heap, i) => heap[i].type \notin {"Buffer", "GifBuilder"},
         \A i \in ids : Alive(heap, i) /\ heap[i].type = "InputStream" => currentVideoStreamId \in ids,
         UNCHANGED <<abandoned, made, currentIds, gifBuffer>>, vm' \in BOOLEAN,
         images' \subseteq images, images' \intersect ids = {},
         frames' \subseteq frames,
         \A f \in frames' : f.frameId \notin ids,
         \A f \in frames \ frames' : f.imageId \notin images',
         freed' \subseteq freed \union ids, freed' \subseteq Id, freed' \subseteq 0 .. made
  PROVE  IInv'
<1> DEFINE S == Freeable(heap, ids)
<1>1. heap' = Destroy(heap, S) /\ vmObjIds' = vmObjIds \ ids
  BY DEF InternalFreeObjIds, FreeObjects, Unlisted
<1>2. /\ heap' \in Heaps
      /\ SoundBut(heap', 0)
      /\ ~Dangles(heap, S)
      /\ Kept(heap', vmObjIds \ ids)
      /\ Remembered(heap', vmObjIds \ ids, Others)
      /\ \A i \in Id : heap'[i] \in {heap[i], Gone}
      /\ \A i \in ids \ {0} : heap'[i] = Gone
      /\ \A i \in Id : heap'[i] # heap[i] /\ i \notin ids =>
           /\ i \notin vmObjIds
           /\ heap[i].type \in {"Image", "VideoFrame"}
           /\ \E j \in Id : i \in heap[j].owns /\ heap'[j] = Gone
  BY <1>1, InvFacts, FreeSound DEF IInv
<1>3. /\ made' = made
      /\ currentGifBuilderId' = currentGifBuilderId
      /\ currentInputStreamBufferId' = currentInputStreamBufferId
      /\ currentInputStreamId' = currentInputStreamId
      /\ currentVideoStreamId' = currentVideoStreamId
      /\ gifBuffer' = gifBuffer /\ abandoned' = abandoned
  BY DEF currentIds
<1>4. fault' = fault
  BY <1>2 DEF InternalFreeObjIds, FreeObjects
<1>5. TypeOK'
  <2>1. TypeOK
    BY DEF IInv
  <2>2. heap' \in [Id -> Object \union {Gone}]
    BY <1>2 DEF Heaps
  <2> QED BY <2>1, <2>2, <1>1, <1>3, <1>4 DEF TypeOK
<1>6. Given'
  <2>1. Given
    BY DEF IInv
  <2>2. \A i \in Id : i > made' => heap'[i] = Gone
    BY <2>1, <1>2, <1>3 DEF Given
  <2> QED BY <2>1, <2>2, <1>3 DEF Given
<1>7. Kept(heap', vmObjIds') /\ Remembered(heap', vmObjIds', Others')
  BY <1>1, <1>2, <1>3 DEF Others
<1>8. ASSUME NEW i, NEW t, Finds(heap, i, t), t \notin {"Image", "VideoFrame"}, i \notin ids
      PROVE  Finds(heap', i, t) /\ heap'[i] = heap[i]
  BY <1>2, <1>8 DEF Finds, Alive
<1>9. \A i : Alive(heap', i) => Alive(heap, i) /\ heap'[i] = heap[i] /\ i \notin ids
  BY <1>2, InvFacts DEF Alive
<1>10. CurrentInv'
  <2>1. ASSUME currentGifBuilderId # 0 PROVE Finds(heap', currentGifBuilderId, "GifBuilder")
    BY <2>1, <1>8 DEF IInv, CurrentInv, Finds
  <2>2. ASSUME gifBuffer # 0 PROVE Finds(heap', gifBuffer, "Buffer")
    BY <2>2, <1>8 DEF IInv, CurrentInv, Finds
  <2>3. ASSUME Alive(heap', currentInputStreamId) PROVE Finds(heap', currentInputStreamId, "InputStream")
    BY <2>3, <1>9 DEF IInv, CurrentInv, Finds
  <2>4. \A i \in Others : Alive(heap', i) => Finds(heap', i, "VideoStream")
    BY <1>9 DEF IInv, CurrentInv, Finds
  <2>5. ASSUME Alive(heap', currentVideoStreamId) PROVE Reads(heap', currentVideoStreamId)
    <3>1. /\ Reads(heap, currentVideoStreamId)
          /\ currentVideoStreamId \notin ids
          /\ heap'[currentVideoStreamId] = heap[currentVideoStreamId]
      BY <2>5, <1>9 DEF IInv, CurrentInv
    <3> DEFINE input  == heap[currentVideoStreamId].uses
               buffer == heap[input].uses
    <3>2. /\ Finds(heap, input, "InputStream") /\ input \notin ids
          /\ Finds(heap, buffer, "Buffer") /\ buffer \notin ids
      BY <3>1 DEF Reads, Finds
    <3>3. Finds(heap', input, "InputStream") /\ heap'[input] = heap[input]
      BY <3>2, <1>8
    <3>4. Finds(heap', buffer, "Buffer")
      BY <3>2, <1>8
    <3> QED BY <3>1, <3>3, <3>4 DEF Reads
  <2> QED BY <2>1, <2>2, <2>3, <2>4, <2>5, <1>3 DEF CurrentInv, Others
<1>11. ClientInv'
  <2>1. ASSUME NEW f \in frames'
        PROVE  /\ Finds(heap', f.frameId, "VideoFrame")
               /\ f.frameId \in vmObjIds'
               /\ f.imageId = f.frameId + 1
               /\ Finds(heap', f.imageId, "Image")
    <3>1. /\ f \in frames
          /\ Finds(heap, f.frameId, "VideoFrame")
          /\ f.frameId \in vmObjIds /\ f.frameId \notin ids
          /\ f.imageId = f.frameId + 1
      BY DEF IInv, ClientInv
    <3>2. f.frameId \in Id /\ heap'[f.frameId] = heap[f.frameId] /\ heap[f.frameId] # Gone
      BY <3>1, <1>2 DEF Finds, Alive
    <3>3. Shaped(heap', f.frameId)
      BY <3>2, <1>2, InvFacts DEF SoundBut
    <3> QED BY <1>1, <3>1, <3>2, <3>3 DEF Shaped, Finds, Alive
  <2>2. ASSUME NEW i \in images'
        PROVE  Finds(heap', i, "Image") /\ (i \in vmObjIds' \/ i \in FrameImages')
    <3>1. i \in images /\ i \notin ids /\ Finds(heap, i, "Image")
      BY DEF IInv, ClientInv
    <3>2. CASE i \in vmObjIds
      BY <3>1, <3>2, <1>1, <1>2 DEF Finds, Alive
    <3>3. CASE i \in FrameImages
      <4>1. PICK f \in frames : f.imageId = i
        BY <3>3 DEF FrameImages
      <4>2. f \in frames'
        BY <4>1
      <4> QED BY <4>1, <4>2, <2>1 DEF FrameImages
    <3> QED BY <3>1, <3>2, <3>3 DEF IInv, ClientInv
  <2>3. ASSUME NEW i \in freed' PROVE ~Alive(heap', i)
    BY <1>9 DEF IInv, ClientInv
  <2> QED BY <2>1, <2>2, <2>3 DEF ClientInv
<1>12. NoBadPointer'
  BY <1>4 DEF IInv, NoBadPointer
<1> QED BY <1>2, <1>5, <1>6, <1>7, <1>10, <1>11, <1>12 DEF IInv

(* Objects are made behind those that are there.  What is listed of them   *)
(* is not owned, what is not listed is owned or among the others.          *)
LEMMA GrowKeeps ==
  ASSUME IInv, heap' \in Heaps, made' \in made .. MaxObjects,
         \A i \in Id : i <= made => heap'[i] = heap[i],
         \A i \in Id : i > made' => heap'[i] = Gone,
         \A i \in Id : i > made =>
            /\ heap'[i].owns \in {{}, {i + 1}}
            /\ heap'[i].owns \intersect vmObjIds' = {}
            /\ heap'[i] # Gone => /\ Shaped(heap', i)
                                  /\ \/ i \in vmObjIds' \/ i \in Others'
                                     \/ \E j \in Id : i \in heap'[j].owns,
         vmObjIds \subseteq vmObjIds',
         \A i \in vmObjIds' \ vmObjIds : i # 0 => i \in Id /\ i > made /\ heap'[i] # Gone,
         \A i \in Others : Alive(heap, i) => i \in Others'
  PROVE  /\ SoundBut(heap', 0)
         /\ Kept(heap', vmObjIds')
         /\ Remembered(heap', vmObjIds', Others')
         /\ \A i, t : Finds(heap, i, t) => Finds(heap', i, t) /\ heap'[i] = heap[i]
         /\ \A i : Alive(heap', i) /\ i <= made => Alive(heap, i)
<1>1. made \in Nat /\ heap \in Heaps
  BY InvFacts
<1>2. SoundBut(heap', 0)
  <2>1. \A i \in Id : i > made => heap[i] = Gone
    BY DEF IInv, Given
  <2>2. SoundBut(heap, 0)
    BY DEF IInv
  <2>3. \A i \in Id : i # 0
    BY InvFacts
  <2> QED BY <1>1, <2>1, <2>2, <2>3, GrowSound
<1>3. \A i, t : Finds(heap, i, t) => Finds(heap', i, t) /\ heap'[i] = heap[i]
  BY InvFacts DEF Finds, Alive
<1>4. \A i : Alive(heap', i) /\ i <= made => Alive(heap, i)
  BY DEF Alive
<1>5. \A i : Alive(heap, i) => Alive(heap', i)
  BY InvFacts DEF Alive
<1>6. Kept(heap', vmObjIds')
  <2>1. \A i \in vmObjIds' \ {0} : Alive(heap', i)
    BY <1>5 DEF IInv, Kept, Alive
  <2>2. ASSUME NEW i \in Id, i <= made, NEW k \in heap'[i].owns PROVE k \notin vmObjIds'
    <3>1. heap'[i] = heap[i] /\ heap[i] # Gone
      BY <2>2, GoneIsNoObject
    <3>2. k \notin vmObjIds
      BY <2>2, <3>1 DEF IInv, Kept
    <3>3. Shaped(heap, i)
      BY <3>1, InvFacts
    <3>4. Alive(heap, k)
      BY <2>2, <3>1, <3>3 DEF Shaped, Finds
    <3>5. k <= made /\ k \in Nat /\ k # 0
      BY <3>4, InvFacts
    <3> QED BY <3>2, <3>5, <1>1
  <2>3. \A i \in Id : i <= made \/ i > made
    BY <1>1, InvFacts
  <2> QED BY <2>1, <2>2, <2>3 DEF Kept
<1>7. Remembered(heap', vmObjIds', Others')
  <2> SUFFICES ASSUME NEW i \in Id, heap'[i] # Gone
               PROVE  i \in vmObjIds' \/ i \in Others' \/ \E j \in Id : i \in heap'[j].owns
    BY DEF Remembered
  <2>1. CASE i > made
    BY <2>1
  <2>2. CASE i <= made
    <3>1. heap[i] # Gone /\ Alive(heap, i)
      BY <2>2 DEF Alive
    <3>2. CASE i \in vmObjIds \/ i \in Others
      BY <3>1, <3>2
    <3>3. ASSUME NEW j \in Id, i \in heap[j].owns PROVE i \in heap'[j].owns
      <4>1. heap[j] # Gone
        BY <3>3, GoneIsNoObject
      <4>2. j <= made
        BY <4>1, InvFacts DEF Alive
      <4> QED BY <3>3, <4>2
    <3> QED BY <3>1, <3>2, <3>3 DEF IInv, Remembered
  <2> QED BY <2>1, <2>2, <1>1, InvFacts
<1> QED BY <1>2, <1>3, <1>4, <1>6, <1>7

(* What an object owns lives, is an image or a frame, and is not in the    *)
(* free list.                                                              *)
LEMMA OwnedFacts ==
  ASSUME IInv, NEW i \in Id, NEW k \in heap[i].owns
  PROVE  Alive(heap, k) /\ heap[k].type \in {"Image", "VideoFrame"} /\ k \notin vmObjIds
<1>1. heap[i] # Gone
  BY GoneIsNoObject
<1>2. Shaped(heap, i)
  BY <1>1, InvFacts
<1>3. k \notin vmObjIds
  BY DEF IInv, Kept
<1> QED BY <1>2, <1>3 DEF Shaped, Finds

-----------------------------------------------------------------------------
(* The steps that free.                                                    *)

(* deinit().                                                               *)
LEMMA DeinitInv ==
  ASSUME IInv, Deinit
  PROVE  IInv'
<1>1. InternalFreeObjIds({}) /\ vm' = FALSE /\ UNCHANGED <<abandoned, made, currentIds, clientVars>>
  BY DEF Deinit
<1>2. freed \subseteq Id /\ freed \subseteq 0 .. made
  BY DEF IInv, TypeOK, Given
<1> QED BY <1>1, <1>2, FreeKeepsInv DEF clientVars

(* freeVideoFrame(): the image goes with its frame.                        *)
LEMMA FreeVideoFrameInv ==
  ASSUME IInv, NEW frame \in frames, FreeVideoFrame(frame)
  PROVE  IInv'
<1> DEFINE ids == {frame.frameId}
<1>1. /\ InternalFreeObjIds(ids)
      /\ frames' = frames \ {frame} /\ images' = images \ {frame.imageId}
      /\ UNCHANGED <<abandoned, made, vm, currentIds, freed, gifBuffer>>
  BY DEF FreeVideoFrame
<1>2. /\ freed \subseteq Id /\ freed \subseteq 0 .. made /\ vm \in BOOLEAN
      /\ \A f \in frames : f = [frameId |-> f.frameId, imageId |-> f.imageId]
  <2>1. freed \subseteq Id /\ freed \subseteq 0 .. made /\ vm \in BOOLEAN /\ frames \subseteq Frame
    BY DEF IInv, TypeOK, Given
  <2>2. \A f \in Frame : f = [frameId |-> f.frameId, imageId |-> f.imageId]
    BY DEF Frame
  <2> QED BY <2>1, <2>2
<1>3. \A f \in frames : /\ Finds(heap, f.frameId, "VideoFrame") /\ f.frameId \in vmObjIds
                        /\ f.imageId = f.frameId + 1
  BY DEF IInv, ClientInv
<1>4. ids \in SUBSET (Id \union {0}) /\ \A i \in Id : heap[i].owns \intersect ids = {}
  BY <1>3, OwnedFacts DEF Finds, Alive
<1>5. \A i \in ids : heap[i].type \notin {"Buffer", "GifBuilder"}
  BY <1>3 DEF Finds
<1>6. \A i \in ids : heap[i].type # "InputStream"
  BY <1>3 DEF Finds
<1>7. images' \intersect ids = {}
  BY <1>1, <1>3 DEF IInv, ClientInv, Finds
<1>8. \A f \in frames' : f.frameId \notin ids
  BY <1>1, <1>2, <1>3
<1>9. \A f \in frames \ frames' : f.imageId \notin images'
  BY <1>1
<1>10. images' \subseteq images /\ frames' \subseteq frames /\ vm' \in BOOLEAN
  BY <1>1, <1>2
<1>11. freed' \subseteq freed \union ids /\ freed' \subseteq Id /\ freed' \subseteq 0 .. made
  BY <1>1, <1>2
<1>12. UNCHANGED <<abandoned, made, currentIds, gifBuffer>>
  BY <1>1
<1> QED BY <1>1, <1>4, <1>5, <1>6, <1>7, <1>8, <1>9, <1>10, <1>11, <1>12, FreeKeepsInv

(* closeVideoStream(): the frames it prepared go with the stream.          *)
LEMMA CloseVideoStreamInv ==
  ASSUME IInv, CloseVideoStream
  PROVE  IInv'
<1> DEFINE ids == {currentInputStreamId, currentVideoStreamId}
<1>1. InternalFreeObjIds(ids) /\ UNCHANGED <<abandoned, made, vm, currentIds, clientVars>>
  BY DEF CloseVideoStream
<1>2. freed \subseteq Id /\ freed \subseteq 0 .. made /\ vm \in BOOLEAN /\ ids \in SUBSET (Id \union {0})
  BY DEF IInv, TypeOK, Given
<1>3. \A i \in ids : Alive(heap, i) => heap[i].type \in {"InputStream", "VideoStream"}
  BY DEF IInv, CurrentInv, Others, Finds
<1>4. \A i \in Id : heap[i].owns \intersect ids = {}
  BY <1>3, OwnedFacts
<1>5. \A i \in images : i \notin ids
  BY <1>3 DEF IInv, ClientInv, Finds
<1>6. \A f \in frames : f.frameId \notin ids
  BY <1>3 DEF IInv, ClientInv, Finds
<1>7. UNCHANGED <<abandoned, made, currentIds, gifBuffer>> /\ vm' \in BOOLEAN
  BY <1>1, <1>2 DEF clientVars
<1>8. images' = images /\ frames' = frames /\ freed' = freed
  BY <1>1 DEF clientVars
<1> QED BY <1>1, <1>2, <1>3, <1>4, <1>5, <1>6, <1>7, <1>8, FreeKeepsInv

(* freeImage(), a second time too.                                         *)
LEMMA FreeImageInv ==
  ASSUME IInv, NEW image \in images \union freed, FreeImage(image)
  PROVE  IInv'
<1> DEFINE ids == {image}
<1>1. /\ InternalFreeObjIds(ids) /\ image \notin FrameImages
      /\ images' = images \ {image} /\ freed' = freed \union {image}
      /\ UNCHANGED <<abandoned, made, vm, currentIds, frames, gifBuffer>>
  BY DEF FreeImage, MayFreeImage
<1>2. freed \subseteq Id /\ freed \subseteq 0 .. made /\ images \subseteq Id /\ vm \in BOOLEAN
  BY DEF IInv, TypeOK, Given
<1>3. Alive(heap, image) => image \in vmObjIds /\ heap[image].type = "Image"
  BY <1>1 DEF IInv, ClientInv, Finds
<1>4. \A i \in Id : heap[i].owns \intersect ids = {}
  BY <1>3, OwnedFacts
<1>5. image \in 0 .. made /\ image \in Id
  BY <1>2, InvFacts DEF IInv, ClientInv, Finds
<1>6. \A f \in frames' : f.frameId \notin ids
  BY <1>1, <1>3 DEF IInv, ClientInv, Finds
<1>7. \A i \in ids : Alive(heap, i) => heap[i].type # "InputStream"
  BY <1>3
<1>8. /\ UNCHANGED <<abandoned, made, currentIds, gifBuffer>> /\ vm' \in BOOLEAN
      /\ images' \subseteq images /\ images' \intersect ids = {} /\ frames' = frames
  BY <1>1, <1>2
<1>9. /\ ids \in SUBSET (Id \union {0})
      /\ freed' \subseteq freed \union ids /\ freed' \subseteq Id /\ freed' \subseteq 0 .. made
  BY <1>1, <1>2, <1>5
<1>10. \A i \in ids : Alive(heap, i) => heap[i].type \notin {"Buffer", "GifBuilder"}
  BY <1>3
<1> QED BY <1>1, <1>4, <1>6, <1>7, <1>8, <1>9, <1>10, FreeKeepsInv

-----------------------------------------------------------------------------
(* The steps that make objects.                                            *)

(* An object that owns others.                                             *)
LEMMA OwnerFacts ==
  ASSUME NEW type \in Types, NEW owned \in SUBSET Id, NEW used \in Id \union {0}, NEW fits \in BOOLEAN
  PROVE  /\ Owner(type, owned, used, fits) \in Object
         /\ Owner(type, owned, used, fits) # Gone
         /\ Owner(type, owned, used, fits).type = type
         /\ Owner(type, owned, used, fits).owns = owned
         /\ Owner(type, owned, used, fits).uses = used
  BY GoneIsNoObject DEF Owner, Object

(* An object that owns none.                                               *)
LEMMA OwnerlessFacts ==
  ASSUME NEW type \in Types, NEW used \in Id \union {0}, NEW fits \in BOOLEAN
  PROVE  /\ Owner(type, {}, used, fits) \in Object
         /\ Owner(type, {}, used, fits) # Gone
         /\ Owner(type, {}, used, fits).type = type
         /\ Owner(type, {}, used, fits).owns = {}
         /\ Owner(type, {}, used, fits).uses = used
<1>1. {} \in SUBSET Id
  OBVIOUS
<1> QED BY <1>1, OwnerFacts

(* An object that neither owns nor uses others.                            *)
LEMMA PlainFacts ==
  ASSUME NEW type \in Types
  PROVE  /\ Plain(type) \in Object /\ Plain(type) # Gone
         /\ Plain(type).type = type /\ Plain(type).owns = {}
<1>1. Plain(type) = Owner(type, {}, 0, FALSE)
  BY DEF Plain
<1>2. 0 \in Id \union {0} /\ FALSE \in BOOLEAN
  OBVIOUS
<1>3. /\ Owner(type, {}, 0, FALSE) \in Object /\ Owner(type, {}, 0, FALSE) # Gone
      /\ Owner(type, {}, 0, FALSE).type = type /\ Owner(type, {}, 0, FALSE).owns = {}
  BY <1>2, OwnerlessFacts
<1> QED BY <1>1, <1>3

(* While nothing is freed, the client keeps what it holds.                 *)
LEMMA GrowKeepsClient ==
  ASSUME IInv,
         \A i, t : Finds(heap, i, t) => Finds(heap', i, t) /\ heap'[i] = heap[i],
         \A i : Alive(heap', i) /\ i <= made => Alive(heap, i),
         vmObjIds \subseteq vmObjIds', freed' = freed, frames \subseteq frames',
         \A i \in images' \ images : Finds(heap', i, "Image") /\ (i \in vmObjIds' \/ i \in FrameImages),
         \A f \in frames' \ frames : /\ Finds(heap', f.frameId, "VideoFrame")
                                     /\ f.frameId \in vmObjIds'
                                     /\ f.imageId = f.frameId + 1
  PROVE  ClientInv'
<1>1. FrameImages \subseteq FrameImages'
  BY DEF FrameImages
<1>2. \A i \in images' : Finds(heap', i, "Image") /\ (i \in vmObjIds' \/ i \in FrameImages')
  BY <1>1 DEF IInv, ClientInv
<1>3. \A i \in freed : i <= made /\ ~Alive(heap', i)
  BY InvFacts DEF IInv, ClientInv, Given
<1>4. \A f \in frames' : /\ Finds(heap', f.frameId, "VideoFrame")
                         /\ f.frameId \in vmObjIds'
                         /\ f.imageId = f.frameId + 1
  BY DEF IInv, ClientInv
<1> QED BY <1>2, <1>3, <1>4 DEF ClientInv

(* While nothing is freed, the streams stay, and what they are read        *)
(* through.                                                                *)
LEMMA StreamsKept ==
  ASSUME IInv,
         \A i, t : Finds(heap, i, t) => Finds(heap', i, t) /\ heap'[i] = heap[i],
         \A i : Alive(heap', i) /\ i <= made => Alive(heap, i)
  PROVE  /\ \A i \in Others : Alive(heap', i) => Finds(heap', i, "VideoStream")
         /\ Alive(heap', currentVideoStreamId) => Reads(heap', currentVideoStreamId)
<1>1. \A i \in Others : i <= made
  BY InvFacts DEF IInv, Given, Others
<1>2. \A i \in Others : Alive(heap', i) => Finds(heap', i, "VideoStream") /\ heap'[i] = heap[i]
  BY <1>1 DEF IInv, CurrentInv
<1>3. ASSUME Alive(heap', currentVideoStreamId) PROVE Reads(heap', currentVideoStreamId)
  <2>1. Reads(heap, currentVideoStreamId) /\ heap'[currentVideoStreamId] = heap[currentVideoStreamId]
    BY <1>1, <1>2, <1>3 DEF IInv, CurrentInv, Others
  <2> QED BY <2>1 DEF Reads
<1> QED BY <1>2, <1>3

(* While nothing is freed, the current stream and builder stay.            *)
LEMMA GrowKeepsCurrent ==
  ASSUME IInv,
         \A i, t : Finds(heap, i, t) => Finds(heap', i, t) /\ heap'[i] = heap[i],
         \A i : Alive(heap', i) /\ i <= made => Alive(heap, i),
         UNCHANGED <<currentIds, gifBuffer, abandoned>>
  PROVE  CurrentInv'
<1>1. currentInputStreamId <= made /\ \A i \in Others : i <= made
  BY InvFacts DEF IInv, Given, Others
<1>2. currentGifBuilderId # 0 => Finds(heap', currentGifBuilderId, "GifBuilder")
  BY DEF IInv, CurrentInv
<1>3. gifBuffer # 0 => Finds(heap', gifBuffer, "Buffer")
  BY DEF IInv, CurrentInv
<1>4. Alive(heap', currentInputStreamId) => Finds(heap', currentInputStreamId, "InputStream")
  BY <1>1 DEF IInv, CurrentInv
<1>5. /\ \A i \in Others : Alive(heap', i) => Finds(heap', i, "VideoStream")
      /\ Alive(heap', currentVideoStreamId) => Reads(heap', currentVideoStreamId)
  BY StreamsKept
<1> QED BY <1>2, <1>3, <1>4, <1>5 DEF CurrentInv, currentIds, Others

(* The invariant from its parts, for a step that makes objects.            *)
LEMMA GrownInv ==
  ASSUME IInv, heap' \in Heaps, made' \in made .. MaxObjects,
         \A i \in Id : i > made' => heap'[i] = Gone,
         vmObjIds' \ vmObjIds \subseteq Id \union {0}, vm' \in BOOLEAN,
         {currentGifBuilderId', currentInputStreamBufferId', currentInputStreamId',
          currentVideoStreamId'} \subseteq 0 .. made',
         freed' = freed, gifBuffer' = gifBuffer,
         images' \ images \subseteq Id, frames' \ frames \subseteq Frame,
         abandoned' \subseteq (0 .. made') \intersect Id, fault' = fault,
         SoundBut(heap', 0), Kept(heap', vmObjIds'), Remembered(heap', vmObjIds', Others'),
         CurrentInv', ClientInv'
  PROVE  IInv'
<1>1. made \in Nat /\ MaxObjects \in Nat
  BY InvFacts
<1>2. TypeOK
  BY DEF IInv
<1>3. made' \in 0 .. MaxObjects /\ 0 .. made' \subseteq Id \union {0} /\ 0 .. made \subseteq 0 .. made'
  BY <1>1 DEF Id
<1>4. heap' \in [Id -> Object \union {Gone}]
  BY DEF Heaps
<1>5. TypeOK'
  BY <1>2, <1>3, <1>4 DEF TypeOK
<1>6. Given'
  BY <1>3 DEF IInv, Given
<1>7. NoBadPointer'
  BY DEF IInv, NoBadPointer
<1> QED BY <1>5, <1>6, <1>7 DEF IInv

(* What was abandoned stays among the ids that were given.                 *)
LEMMA AbandonedStays ==
  ASSUME IInv, made' \in made .. MaxObjects, abandoned' = abandoned
  PROVE  abandoned' \subseteq (0 .. made') \intersect Id
<1>1. abandoned \subseteq 0 .. made /\ abandoned \subseteq Id
  BY DEF IInv, Given, TypeOK
<1>2. 0 .. made \subseteq 0 .. made'
  BY InvFacts
<1> QED BY <1>1, <1>2

(* imageLoadFromFileBuffer().                                              *)
LEMMA ImageLoadInv ==
  ASSUME IInv, NEW loads \in BOOLEAN, NEW fits \in BOOLEAN, ImageLoadFromFileBuffer(loads, fits)
  PROVE  IInv'
<1> DEFINE buffer == made + 1
           image  == IF loads THEN made + 2 ELSE 0
           new    == Owner("Image", {}, 0, fits)
<1>1. /\ heap' = [i \in Id |-> IF i = buffer THEN Plain("Buffer")
                                ELSE IF i = image THEN new ELSE heap[i]]
      /\ made' = IF loads THEN made + 2 ELSE made + 1
      /\ vmObjIds' = vmObjIds \union {buffer, image}
      /\ images' = images \union ({image} \ {0})
      /\ UNCHANGED <<abandoned, vm, currentIds, freed, frames, gifBuffer, fault>>
      /\ made + 2 <= MaxObjects
  BY DEF ImageLoadFromFileBuffer, Listed, HasRoom
<1>2. /\ made \in Nat /\ MaxObjects \in Nat /\ heap \in Heaps /\ \A i \in Id : i \in Nat /\ i # 0
      /\ \A i \in vmObjIds : i \in Nat /\ i <= made
  BY InvFacts
<1>3. /\ new \in Object /\ new # Gone /\ new.type = "Image" /\ new.owns = {}
      /\ Plain("Buffer") \in Object /\ Plain("Buffer") # Gone
      /\ Plain("Buffer").type = "Buffer" /\ Plain("Buffer").owns = {}
  BY OwnerlessFacts, PlainFacts DEF Types
<1>4. buffer \in Id /\ (image # 0 => image \in Id /\ image = buffer + 1) /\ made' \in made .. MaxObjects
  BY <1>1, <1>2 DEF Id
<1>5. heap' \in Heaps
  BY <1>1, <1>2, <1>3 DEF Heaps
<1>6. \A i \in Id : i > made' => heap'[i] = Gone
  BY <1>1, <1>2 DEF IInv, Given
<1>7. \A i \in Id : i <= made => heap'[i] = heap[i]
  BY <1>1, <1>2
<1>8. ASSUME NEW i \in Id, i > made
      PROVE  /\ heap'[i].owns = {}
             /\ heap'[i] # Gone => Shaped(heap', i) /\ i \in vmObjIds'
  <2>1. i = buffer \/ i = image \/ heap'[i] = Gone
    BY <1>1, <1>8 DEF IInv, Given
  <2>2. heap'[i].owns = {} /\ (heap'[i] # Gone => heap'[i].type \in {"Buffer", "Image"})
    BY <2>1, <1>1, <1>3, GoneIsNoObject
  <2> QED BY <2>1, <2>2, <1>1 DEF Shaped
<1>9. \A i \in vmObjIds' \ vmObjIds : i # 0 => i \in Id /\ i > made /\ heap'[i] # Gone
  BY <1>1, <1>2, <1>3, <1>4
<1>10. Others' = Others
  BY <1>1 DEF Others, currentIds
<1>11. /\ SoundBut(heap', 0) /\ Kept(heap', vmObjIds') /\ Remembered(heap', vmObjIds', Others')
       /\ \A i, t : Finds(heap, i, t) => Finds(heap', i, t) /\ heap'[i] = heap[i]
       /\ \A i : Alive(heap', i) /\ i <= made => Alive(heap, i)
  BY <1>1, <1>4, <1>5, <1>6, <1>7, <1>8, <1>9, <1>10, GrowKeeps
<1>12. CurrentInv' /\ abandoned' \subseteq (0 .. made') \intersect Id
  BY <1>1, <1>4, <1>11, GrowKeepsCurrent, AbandonedStays
<1>13. ClientInv'
  <2>1. \A i \in images' \ images : Finds(heap', i, "Image") /\ i \in vmObjIds'
    BY <1>1, <1>2, <1>3, <1>4 DEF Finds, Alive
  <2> QED BY <1>1, <1>11, <2>1, GrowKeepsClient
<1>14. {currentGifBuilderId', currentInputStreamBufferId', currentInputStreamId',
        currentVideoStreamId'} \subseteq 0 .. made'
  BY <1>1, <1>2, <1>4 DEF IInv, Given, currentIds
<1>15. vm' \in BOOLEAN
  BY <1>1 DEF IInv, TypeOK
<1> QED BY <1>1, <1>4, <1>5, <1>6, <1>11, <1>12, <1>13, <1>14, <1>15, GrownInv

(* An image the client holds, be it that of a frame, is found by its id.   *)
LEMMA ImagesFound ==
  ASSUME IInv, NEW image \in images \union FrameImages
  PROVE  Finds(heap, image, "Image")
<1>1. CASE image \in images
  BY <1>1 DEF IInv, ClientInv
<1>2. CASE image \in FrameImages
  <2>1. PICK f \in frames : f.imageId = image
    BY <1>2 DEF FrameImages
  <2>2. Finds(heap, f.frameId, "VideoFrame") /\ image = f.frameId + 1
    BY <2>1 DEF IInv, ClientInv
  <2>3. Shaped(heap, f.frameId)
    BY <2>2, InvFacts DEF Finds, Alive
  <2> QED BY <2>2, <2>3 DEF Shaped, Finds
<1> QED BY <1>1, <1>2

(* A call that makes and frees nothing.                                    *)
LEMMA QuietInv ==
  ASSUME IInv, NEW more \in SUBSET (images \union FrameImages), images' = images \union more,
         UNCHANGED <<heap, made, vm, vmObjIds, currentIds, abandoned, freed, frames, gifBuffer, fault>>
  PROVE  IInv'
<1>1. \A i \in images' : Finds(heap, i, "Image") /\ (i \in vmObjIds \/ i \in FrameImages)
  BY ImagesFound DEF IInv, ClientInv
<1>2. FrameImages' = FrameImages
  BY DEF FrameImages
<1>3. ClientInv'
  BY <1>1, <1>2 DEF IInv, ClientInv
<1>4. \A i \in images' : i \in Id
  BY <1>1 DEF Finds, Alive
<1>5. TypeOK'
  BY <1>4 DEF IInv, TypeOK, currentIds
<1>6. Given' /\ CurrentInv' /\ NoBadPointer'
  BY DEF IInv, Given, CurrentInv, NoBadPointer, currentIds, Others
<1>7. SoundBut(heap, 0)' /\ Kept(heap, vmObjIds)' /\ Remembered(heap, vmObjIds, Others)'
  BY DEF IInv, currentIds, Others
<1> QED BY <1>3, <1>5, <1>6, <1>7 DEF IInv

(* One object is made that owns nothing, and is listed.                    *)
LEMMA OneMore ==
  ASSUME IInv, NEW new \in Object, new.owns = {}, new.type \notin {"VideoFrame", "VideoStream"},
         made < MaxObjects,
         heap' = [heap EXCEPT ![made + 1] = new],
         made' = made + 1,
         vmObjIds' = vmObjIds \union {made + 1},
         Others' = Others
  PROVE  /\ heap' \in Heaps
         /\ made + 1 \in Id /\ made' \in made .. MaxObjects
         /\ heap'[made + 1] = new /\ new # Gone
         /\ \A i \in Id : i > made' => heap'[i] = Gone
         /\ SoundBut(heap', 0) /\ Kept(heap', vmObjIds') /\ Remembered(heap', vmObjIds', Others')
         /\ \A i, t : Finds(heap, i, t) => Finds(heap', i, t) /\ heap'[i] = heap[i]
         /\ \A i : Alive(heap', i) /\ i <= made => Alive(heap, i)
<1>1. /\ made \in Nat /\ MaxObjects \in Nat /\ heap \in Heaps /\ \A i \in Id : i \in Nat
      /\ \A i \in Id : i > made => heap[i] = Gone
      /\ new # Gone
  BY InvFacts, GoneIsNoObject DEF IInv, Given
<1>2. made + 1 \in Id /\ made' \in made .. MaxObjects
  BY <1>1 DEF Id
<1>3. /\ heap' \in Heaps /\ heap'[made + 1] = new
      /\ \A i \in Id : i # made + 1 => heap'[i] = heap[i]
  BY <1>1, <1>2 DEF Heaps
<1>4. \A i \in Id : i > made' => i > made /\ i # made + 1
  BY <1>1
<1>5. \A i \in Id : i > made' => heap'[i] = Gone
  BY <1>1, <1>3, <1>4
<1>6. \A i \in Id : i <= made => heap'[i] = heap[i]
  BY <1>1, <1>3
<1>7. ASSUME NEW i \in Id, i > made
      PROVE  /\ heap'[i].owns = {}
             /\ heap'[i] # Gone => Shaped(heap', i) /\ i \in vmObjIds'
  <2>1. CASE i = made + 1
    BY <2>1, <1>3 DEF Shaped
  <2>2. CASE i # made + 1
    BY <2>2, <1>1, <1>3, <1>7, GoneIsNoObject
  <2> QED BY <2>1, <2>2
<1>8. made + 1 > made /\ \A i \in vmObjIds' \ vmObjIds : i = made + 1
  BY <1>1
<1>9. \A i \in vmObjIds' \ vmObjIds : i \in Id /\ i > made /\ heap'[i] # Gone
  BY <1>1, <1>2, <1>3, <1>8
<1>10. /\ SoundBut(heap', 0) /\ Kept(heap', vmObjIds') /\ Remembered(heap', vmObjIds', Others')
       /\ \A i, t : Finds(heap, i, t) => Finds(heap', i, t) /\ heap'[i] = heap[i]
       /\ \A i : Alive(heap', i) /\ i <= made => Alive(heap, i)
  BY <1>2, <1>3, <1>5, <1>6, <1>7, <1>9, GrowKeeps
<1> QED BY <1>1, <1>2, <1>3, <1>5, <1>10

(* imageResize().                                                          *)
LEMMA ImageResizeInv ==
  ASSUME IInv, NEW image \in images \union FrameImages, ImageResize(image)
  PROVE  IInv'
<1>1. Finds(heap, image, "Image")
  BY ImagesFound
<1>2. CASE heap[image].fits
  <2>1. /\ images' = images \union {image}
        /\ UNCHANGED <<heap, made, vm, vmObjIds, currentIds, abandoned, freed, frames, gifBuffer, fault>>
    BY <1>1, <1>2 DEF ImageResize
  <2>2. {image} \in SUBSET (images \union FrameImages)
    OBVIOUS
  <2> QED BY <2>1, <2>2, QuietInv
<1>3. CASE ~heap[image].fits
  <2> DEFINE resized == made + 1
             new     == Owner("Image", {}, 0, TRUE)
  <2>1. /\ heap' = [heap EXCEPT ![resized] = new]
        /\ made' = resized
        /\ vmObjIds' = vmObjIds \union {resized}
        /\ images' = images \union {resized}
        /\ UNCHANGED <<abandoned, vm, currentIds, freed, frames, gifBuffer, fault>>
        /\ made + 1 <= MaxObjects
    BY <1>1, <1>3 DEF ImageResize, Listed, HasRoom
  <2>2. new \in Object /\ new.type = "Image" /\ new.owns = {}
    <3>1. "Image" \in Types /\ TRUE \in BOOLEAN /\ 0 \in Id \union {0}
      BY DEF Types
    <3> QED BY <3>1, OwnerlessFacts
  <2>3. made < MaxObjects /\ Others' = Others
    BY <2>1, InvFacts DEF Others, currentIds
  <2>4. /\ heap' \in Heaps
        /\ resized \in Id /\ made' \in made .. MaxObjects
        /\ heap'[resized] = new /\ new # Gone
        /\ \A i \in Id : i > made' => heap'[i] = Gone
        /\ SoundBut(heap', 0) /\ Kept(heap', vmObjIds') /\ Remembered(heap', vmObjIds', Others')
        /\ \A i, t : Finds(heap, i, t) => Finds(heap', i, t) /\ heap'[i] = heap[i]
        /\ \A i : Alive(heap', i) /\ i <= made => Alive(heap, i)
    BY <2>1, <2>2, <2>3, OneMore
  <2>5. CurrentInv' /\ abandoned' \subseteq (0 .. made') \intersect Id
    BY <2>1, <2>4, GrowKeepsCurrent, AbandonedStays
  <2>6. ClientInv'
    <3>1. \A i \in images' \ images : Finds(heap', i, "Image") /\ i \in vmObjIds'
      BY <2>1, <2>2, <2>4 DEF Finds, Alive
    <3> QED BY <2>1, <2>4, <3>1, GrowKeepsClient
  <2>7. {currentGifBuilderId', currentInputStreamBufferId', currentInputStreamId',
          currentVideoStreamId'} \subseteq 0 .. made'
    BY <2>1, <2>4, InvFacts DEF IInv, Given, currentIds
  <2>8. vm' \in BOOLEAN
    BY <2>1 DEF IInv, TypeOK
  <2> QED BY <2>1, <2>4, <2>5, <2>6, <2>7, <2>8, GrownInv
<1> QED BY <1>2, <1>3

(* gifEncoderBegin().                                                      *)
LEMMA GifEncoderBeginInv ==
  ASSUME IInv, GifEncoderBegin
  PROVE  IInv'
<1> DEFINE builder == made + 1
           new     == Plain("GifBuilder")
<1>1. /\ heap' = [heap EXCEPT ![builder] = new]
      /\ made' = builder
      /\ vmObjIds' = vmObjIds \union {builder}
      /\ currentGifBuilderId' = builder
      /\ UNCHANGED <<abandoned, vm, currentInputStreamBufferId, currentInputStreamId,
                     currentVideoStreamId, clientVars, fault>>
      /\ made + 1 <= MaxObjects
  BY DEF GifEncoderBegin, Listed, HasRoom
<1>2. new \in Object /\ new.type = "GifBuilder" /\ new.owns = {}
  BY PlainFacts DEF Types
<1>3. made < MaxObjects /\ Others' = Others
  BY <1>1, InvFacts DEF Others
<1>4. /\ heap' \in Heaps
      /\ builder \in Id /\ made' \in made .. MaxObjects
      /\ heap'[builder] = new /\ new # Gone
      /\ \A i \in Id : i > made' => heap'[i] = Gone
      /\ SoundBut(heap', 0) /\ Kept(heap', vmObjIds') /\ Remembered(heap', vmObjIds', Others')
      /\ \A i, t : Finds(heap, i, t) => Finds(heap', i, t) /\ heap'[i] = heap[i]
      /\ \A i : Alive(heap', i) /\ i <= made => Alive(heap, i)
  BY <1>1, <1>2, <1>3, OneMore
<1>5. Finds(heap', currentGifBuilderId', "GifBuilder")
  BY <1>1, <1>2, <1>4 DEF Finds, Alive
<1>6. CurrentInv'
  <2>1. currentInputStreamId <= made
    BY InvFacts DEF IInv, Given
  <2>2. gifBuffer # 0 => Finds(heap', gifBuffer, "Buffer")
    BY <1>4 DEF IInv, CurrentInv
  <2>3. Alive(heap', currentInputStreamId) => Finds(heap', currentInputStreamId, "InputStream")
    BY <1>4, <2>1 DEF IInv, CurrentInv
  <2>4. /\ \A i \in Others : Alive(heap', i) => Finds(heap', i, "VideoStream")
        /\ Alive(heap', currentVideoStreamId) => Reads(heap', currentVideoStreamId)
    BY <1>4, StreamsKept
  <2> QED BY <1>1, <1>3, <1>5, <2>2, <2>3, <2>4 DEF CurrentInv, clientVars
<1>7. ClientInv'
  BY <1>1, <1>4, GrowKeepsClient DEF clientVars
<1>8. {currentGifBuilderId', currentInputStreamBufferId', currentInputStreamId',
        currentVideoStreamId'} \subseteq 0 .. made'
  BY <1>1, <1>4, InvFacts DEF IInv, Given
<1>9. vm' \in BOOLEAN /\ abandoned' \subseteq (0 .. made') \intersect Id
  BY <1>1, <1>4, AbandonedStays DEF IInv, TypeOK
<1>10. freed' = freed /\ gifBuffer' = gifBuffer /\ images' = images /\ frames' = frames
  BY <1>1 DEF clientVars
<1> QED BY <1>1, <1>4, <1>6, <1>7, <1>8, <1>9, <1>10, GrownInv

(* The client's calls that make and free nothing.                          *)
LEMMA GifEncoderAddImageInv ==
  ASSUME IInv, NEW image \in images \union FrameImages, GifEncoderAddImage(image)
  PROVE  IInv'
<1>1. UNCHANGED <<heap, made, vm, vmObjIds, currentIds, abandoned, images, freed, frames, gifBuffer, fault>>
  BY ImagesFound DEF GifEncoderAddImage, clientVars
<1> QED BY <1>1, QuietInv

(* pickVideoFrame() without a frame to pick.                               *)
LEMMA PickFindsNothingInv ==
  ASSUME IInv, PickFindsNothing
  PROVE  IInv'
<1>1. UNCHANGED <<heap, made, vm, vmObjIds, currentIds, abandoned, images, freed, frames, gifBuffer, fault>>
  BY DEF PickFindsNothing, Picked
<1> QED BY <1>1, QuietInv

(* An open that fails leaves nothing; one that is refused as a file that   *)
(* is not recognised ends the session.                                     *)
LEMMA OpenVideoStreamFailsInv ==
  ASSUME IInv, NEW recognised \in BOOLEAN, OpenVideoStreamFails(recognised)
  PROVE  IInv'
<1>1. /\ made' = made + 2 /\ made + 2 <= MaxObjects
      /\ currentInputStreamBufferId' = made + 1
      /\ currentInputStreamId' = made + 2
      /\ currentVideoStreamId' = 0
      /\ fault' \in {fault, "heap corrupted"}
      /\ heap' = heap /\ vm' = vm /\ vmObjIds' = vmObjIds
      /\ currentGifBuilderId' = currentGifBuilderId /\ abandoned' = abandoned \union StillOpen
      /\ images' = images /\ freed' = freed /\ frames' = frames /\ gifBuffer' = gifBuffer
  BY DEF OpenVideoStreamFails, HasRoom, clientVars
<1>2. made \in Nat /\ MaxObjects \in Nat /\ made' = made + 2 /\ made + 2 <= MaxObjects
  BY <1>1, InvFacts
<1>3. made' \in 0 .. MaxObjects /\ made + 1 \in Id /\ made + 2 \in Id
  BY <1>2 DEF Id
<1>4. TypeOK'
  <2>1. StillOpen \subseteq Id
    BY InvFacts DEF StillOpen
  <2> QED BY <2>1, <1>1, <1>3 DEF IInv, TypeOK
<1>5. Given'
  <2>1. Given
    BY DEF IInv
  <2>2. \A i \in Id : i > made' => heap'[i] = Gone
    <3>1. \A i \in Id : i > made' => i > made
      BY <1>2, InvFacts
    <3> QED BY <2>1, <3>1, <1>1 DEF Given
  <2>3. 0 .. made \subseteq 0 .. made' /\ {0, made + 1, made + 2} \subseteq 0 .. made'
    BY <1>2
  <2>4. StillOpen \subseteq 0 .. made
    BY <2>1 DEF StillOpen, Given
  <2> QED BY <2>1, <2>2, <2>3, <2>4, <1>1 DEF Given
<1>6. ~Alive(heap, made + 2) /\ ~Alive(heap, 0)
  BY <1>2, InvFacts
<1>7. CurrentInv'
  <2>1. \A i \in Others' : i = 0 \/ i \in Others
    BY <1>1 DEF Others, StillOpen
  <2> QED BY <2>1, <1>1, <1>6 DEF IInv, CurrentInv
<1>8. Remembered(heap', vmObjIds', Others')
  BY <1>1 DEF IInv, Remembered, Others, StillOpen, Alive
<1>9. ClientInv' /\ SoundBut(heap', 0) /\ Kept(heap', vmObjIds') /\ NoBadPointer'
  BY <1>1 DEF IInv, ClientInv, FrameImages, NoBadPointer
<1> QED BY <1>4, <1>5, <1>7, <1>8, <1>9 DEF IInv

(* openVideoStream().                                                      *)
LEMMA OpenVideoStreamInv ==
  ASSUME IInv, NEW fits \in BOOLEAN, OpenVideoStream(fits)
  PROVE  IInv'
<1> DEFINE buffer == made + 1
           input  == made + 2
           stream == made + 3
           in     == Owner("InputStream", {}, buffer, FALSE)
           video  == Owner("VideoStream", {}, input, fits)
<1>1. /\ heap' = [heap EXCEPT ![buffer] = Plain("Buffer"), ![input] = in, ![stream] = video]
      /\ made' = stream /\ made + 3 <= MaxObjects
      /\ vmObjIds' = vmObjIds \union {buffer, input}
      /\ currentInputStreamBufferId' = buffer
      /\ currentInputStreamId' = input
      /\ currentVideoStreamId' = stream
      /\ vm' = vm /\ fault' = fault /\ abandoned' = abandoned \union StillOpen
      /\ currentGifBuilderId' = currentGifBuilderId
      /\ images' = images /\ freed' = freed /\ frames' = frames /\ gifBuffer' = gifBuffer
  BY DEF OpenVideoStream, Listed, HasRoom, clientVars
<1>2. /\ made \in Nat /\ MaxObjects \in Nat /\ heap \in Heaps /\ \A i \in Id : i \in Nat /\ i # 0
      /\ \A i \in Id : i > made => heap[i] = Gone
  BY InvFacts DEF IInv, Given
<1>3. buffer \in Id /\ input \in Id /\ stream \in Id /\ made' \in made .. MaxObjects
  BY <1>1, <1>2 DEF Id
<1>4. /\ Plain("Buffer") \in Object /\ Plain("Buffer") # Gone
      /\ Plain("Buffer").type = "Buffer" /\ Plain("Buffer").owns = {}
  BY "Buffer" \in Types, PlainFacts DEF Types
<1>5. in \in Object /\ in # Gone /\ in.type = "InputStream" /\ in.owns = {} /\ in.uses = buffer
  BY "InputStream" \in Types, FALSE \in BOOLEAN, <1>3, OwnerlessFacts DEF Types
<1>6. video \in Object /\ video # Gone /\ video.type = "VideoStream" /\ video.owns = {} /\ video.uses = input
  BY "VideoStream" \in Types, <1>3, OwnerlessFacts DEF Types
<1>7. /\ heap' \in Heaps
      /\ heap'[buffer] = Plain("Buffer") /\ heap'[input] = in /\ heap'[stream] = video
      /\ \A i \in Id : i \notin {buffer, input, stream} => heap'[i] = heap[i]
  <2> HIDE DEF in, video
  <2>1. buffer # input /\ buffer # stream /\ input # stream
    BY <1>2
  <2>2. heap' = [heap EXCEPT ![buffer] = Plain("Buffer"), ![input] = in, ![stream] = video]
    BY <1>1
  <2> HIDE DEF buffer, input, stream
  <2> QED BY <2>1, <2>2, <1>2, <1>3, <1>4, <1>5, <1>6 DEF Heaps
<1>8. \A i \in Id : (i > made' => heap'[i] = Gone) /\ (i <= made => heap'[i] = heap[i])
  <2>1. \A i \in Id : i > made' => i > made /\ i \notin {buffer, input, stream}
    BY <1>1, <1>2
  <2>2. \A i \in Id : i <= made => i \notin {buffer, input, stream}
    BY <1>2
  <2> QED BY <2>1, <2>2, <1>2, <1>7
<1>9. ASSUME NEW i \in Id, i > made
      PROVE  /\ heap'[i].owns = {}
             /\ heap'[i] # Gone => Shaped(heap', i) /\ (i \in vmObjIds' \/ i \in Others')
  <2>1. CASE i \in {buffer, input}
    BY <2>1, <1>1, <1>4, <1>5, <1>7 DEF Shaped
  <2>2. CASE i = stream
    BY <2>2, <1>1, <1>6, <1>7 DEF Shaped, Others
  <2>3. CASE i \notin {buffer, input, stream}
    BY <2>3, <1>2, <1>7, <1>9, GoneIsNoObject
  <2> QED BY <2>1, <2>2, <2>3
<1>10. \A i \in vmObjIds' \ vmObjIds : i \in Id /\ i > made /\ heap'[i] # Gone
  <2>1. heap'[buffer] # Gone /\ heap'[input] # Gone
    BY <1>4, <1>5, <1>7
  <2>2. buffer > made /\ input > made
    BY <1>2
  <2> QED BY <1>1, <1>3, <2>1, <2>2
<1>11. \A i \in Others : Alive(heap, i) => i \in Others'
  BY <1>1 DEF Others, StillOpen
<1>12. vmObjIds \subseteq vmObjIds'
  BY <1>1
<1>13. /\ SoundBut(heap', 0) /\ Kept(heap', vmObjIds') /\ Remembered(heap', vmObjIds', Others')
       /\ \A i, t : Finds(heap, i, t) => Finds(heap', i, t) /\ heap'[i] = heap[i]
       /\ \A i : Alive(heap', i) /\ i <= made => Alive(heap, i)
  BY <1>3, <1>7, <1>8, <1>9, <1>10, <1>11, <1>12, GrowKeeps
<1>14. CurrentInv'
  <2>1. Finds(heap', stream, "VideoStream") /\ heap'[stream].uses = input
    BY <1>3, <1>6, <1>7 DEF Finds, Alive
  <2>2. Finds(heap', input, "InputStream") /\ heap'[input].uses = buffer
    BY <1>3, <1>5, <1>7 DEF Finds, Alive
  <2>3. Finds(heap', buffer, "Buffer")
    BY <1>3, <1>4, <1>7 DEF Finds, Alive
  <2>4. /\ currentGifBuilderId # 0 => Finds(heap', currentGifBuilderId, "GifBuilder")
        /\ gifBuffer # 0 => Finds(heap', gifBuffer, "Buffer")
    BY <1>13 DEF IInv, CurrentInv
  <2>5. \A i \in Others' : Alive(heap', i) => Finds(heap', i, "VideoStream")
    <3>1. \A i \in Others' : i = stream \/ i \in Others
      BY <1>1 DEF Others, StillOpen
    <3>2. \A i \in Others : Alive(heap', i) => Finds(heap', i, "VideoStream")
      BY <1>13, StreamsKept
    <3> QED BY <2>1, <3>1, <3>2
  <2>6. Reads(heap', stream)
    BY <2>1, <2>2, <2>3 DEF Reads
  <2> QED BY <2>2, <2>4, <2>5, <2>6, <1>1 DEF CurrentInv
<1>15. ClientInv'
  BY <1>1, <1>13, GrowKeepsClient
<1>16. {currentGifBuilderId', currentInputStreamBufferId', currentInputStreamId',
        currentVideoStreamId'} \subseteq 0 .. made'
  BY <1>1, <1>2 DEF IInv, Given
<1>17. vm' \in BOOLEAN
  BY <1>1 DEF IInv, TypeOK
<1>18. vmObjIds' \ vmObjIds \subseteq Id \union {0}
  BY <1>10
<1>19. abandoned' \subseteq (0 .. made') \intersect Id
  <2>1. abandoned \subseteq (0 .. made) \intersect Id /\ StillOpen \subseteq (0 .. made) \intersect Id
    BY InvFacts DEF IInv, Given, TypeOK, StillOpen
  <2>2. 0 .. made \subseteq 0 .. made'
    BY <1>1, <1>2
  <2> QED BY <2>1, <2>2, <1>1
<1> QED BY <1>1, <1>3, <1>7, <1>8, <1>13, <1>14, <1>15, <1>16, <1>17, <1>18, <1>19, GrownInv

(* openVideoStream() that throws: its stream belongs to nobody from        *)
(* there on.                                                               *)
LEMMA OpenVideoStreamThrowsInv ==
  ASSUME IInv, NEW fits \in BOOLEAN, OpenVideoStreamThrows(fits)
  PROVE  IInv'
<1> DEFINE input  == made + 2
           stream == made + 3
           video  == Owner("VideoStream", {}, input, fits)
<1>1. /\ heap' = [heap EXCEPT ![stream] = video]
      /\ made' = stream /\ made + 3 <= MaxObjects
      /\ currentInputStreamBufferId' = made + 1
      /\ currentInputStreamId' = input
      /\ abandoned' = abandoned \union {stream}
      /\ vm' = vm /\ fault' = fault /\ vmObjIds' = vmObjIds
      /\ currentGifBuilderId' = currentGifBuilderId /\ currentVideoStreamId' = currentVideoStreamId
      /\ images' = images /\ freed' = freed /\ frames' = frames /\ gifBuffer' = gifBuffer
  BY DEF OpenVideoStreamThrows, HasRoom, clientVars
<1>2. /\ made \in Nat /\ MaxObjects \in Nat /\ heap \in Heaps /\ \A i \in Id : i \in Nat /\ i # 0
      /\ \A i \in Id : i > made => heap[i] = Gone
  BY InvFacts DEF IInv, Given
<1>3. input \in Id /\ stream \in Id /\ made' \in made .. MaxObjects
  BY <1>1, <1>2 DEF Id
<1>4. video \in Object /\ video # Gone /\ video.type = "VideoStream" /\ video.owns = {}
  BY "VideoStream" \in Types, <1>3, OwnerlessFacts DEF Types
<1>5. /\ heap' \in Heaps /\ heap'[stream] = video
      /\ \A i \in Id : i # stream => heap'[i] = heap[i]
  BY <1>1, <1>2, <1>3, <1>4 DEF Heaps
<1>6. \A i \in Id : (i > made' => heap'[i] = Gone) /\ (i <= made => heap'[i] = heap[i])
  <2>1. \A i \in Id : i > made' => i > made /\ i # stream
    BY <1>1, <1>2
  <2>2. \A i \in Id : i <= made => i # stream
    BY <1>2
  <2> QED BY <2>1, <2>2, <1>2, <1>5
<1>7. ASSUME NEW i \in Id, i > made
      PROVE  /\ heap'[i].owns = {}
             /\ heap'[i] # Gone => Shaped(heap', i) /\ i \in Others'
  <2>1. CASE i = stream
    BY <2>1, <1>1, <1>4, <1>5 DEF Shaped, Others
  <2>2. CASE i # stream
    BY <2>2, <1>2, <1>5, <1>7, GoneIsNoObject
  <2> QED BY <2>1, <2>2
<1>8. \A i \in Others : i \in Others'
  BY <1>1 DEF Others
<1>9. /\ SoundBut(heap', 0) /\ Kept(heap', vmObjIds') /\ Remembered(heap', vmObjIds', Others')
      /\ \A i, t : Finds(heap, i, t) => Finds(heap', i, t) /\ heap'[i] = heap[i]
      /\ \A i : Alive(heap', i) /\ i <= made => Alive(heap, i)
  BY <1>1, <1>3, <1>5, <1>6, <1>7, <1>8, GrowKeeps
<1>10. CurrentInv'
  <2>1. ~Alive(heap', input)
    <3>1. input > made /\ input # stream
      BY <1>2
    <3> QED BY <3>1, <1>2, <1>3, <1>5 DEF Alive
  <2>2. /\ \A i \in Others : Alive(heap', i) => Finds(heap', i, "VideoStream")
        /\ Alive(heap', currentVideoStreamId) => Reads(heap', currentVideoStreamId)
    BY <1>9, StreamsKept
  <2>4. \A i \in Others' : i = stream \/ i \in Others
    BY <1>1 DEF Others
  <2>5. Finds(heap', stream, "VideoStream")
    BY <1>3, <1>4, <1>5 DEF Finds, Alive
  <2>3. /\ currentGifBuilderId # 0 => Finds(heap', currentGifBuilderId, "GifBuilder")
        /\ gifBuffer # 0 => Finds(heap', gifBuffer, "Buffer")
    BY <1>9 DEF IInv, CurrentInv
  <2> QED BY <2>1, <2>2, <2>3, <2>4, <2>5, <1>1 DEF CurrentInv
<1>11. ClientInv'
  BY <1>1, <1>9, GrowKeepsClient
<1>12. {currentGifBuilderId', currentInputStreamBufferId', currentInputStreamId',
        currentVideoStreamId'} \subseteq 0 .. made'
  BY <1>1, <1>2 DEF IInv, Given
<1>13. vm' \in BOOLEAN
  BY <1>1 DEF IInv, TypeOK
<1>14. abandoned' \subseteq (0 .. made') \intersect Id
  <2>1. abandoned \subseteq (0 .. made) \intersect Id
    BY DEF IInv, Given, TypeOK
  <2>2. 0 .. made \subseteq 0 .. made' /\ stream \in 0 .. made'
    BY <1>1, <1>2
  <2> QED BY <2>1, <2>2, <1>1, <1>3
<1> QED BY <1>1, <1>3, <1>5, <1>6, <1>9, <1>10, <1>11, <1>12, <1>13, <1>14, GrownInv

-----------------------------------------------------------------------------
(* The steps that make frames.                                             *)

(* g is h with frames and their images behind n.                           *)
HasFrames(h, g, n, ids) ==
  /\ g \in Heaps
  /\ \A i \in Id : i <= n => g[i] = h[i]
  /\ \A i \in Id : i > n /\ i \notin ids /\ i - 1 \notin ids => g[i] = Gone
  /\ \A i \in ids : g[i].owns = {i + 1} /\ Shaped(g, i) /\ Finds(g, i, "VideoFrame")
  /\ \A i \in Id : i - 1 \in ids =>
       i > n /\ i \notin ids /\ g[i].owns = {} /\ Shaped(g, i) /\ Finds(g, i, "Image")

(* New frames, each with its image behind it.                              *)
LEMMA FramesMade ==
  ASSUME NEW h \in Heaps, NEW n \in Nat, NEW ids \in SUBSET Id, NEW fits \in BOOLEAN,
         \A i \in Id : i > n => h[i] = Gone,
         \A i \in ids : i > n /\ i + 1 \in Id /\ i + 1 \notin ids
  PROVE  HasFrames(h, WithFrames(h, ids, fits), n, ids)
<1> DEFINE g        == WithFrames(h, ids, fits)
           frame(i) == Owner("VideoFrame", {i + 1}, 0, FALSE)
           image    == Owner("Image", {}, 0, fits)
<1>1. g = [i \in Id |-> IF i \in ids THEN frame(i) ELSE IF i - 1 \in ids THEN image ELSE h[i]]
  BY DEF WithFrames
<1>2. \A i \in Id : i \in Nat
  BY DEF Id
<1>3. image \in Object /\ image # Gone /\ image.type = "Image" /\ image.owns = {}
  <2>1. "Image" \in Types /\ 0 \in Id \union {0}
    BY DEF Types
  <2> QED BY <2>1, OwnerlessFacts
<1>4. ASSUME NEW i \in ids
      PROVE  /\ frame(i) \in Object /\ frame(i) # Gone
             /\ frame(i).type = "VideoFrame" /\ frame(i).owns = {i + 1}
  <2>1. "VideoFrame" \in Types /\ 0 \in Id \union {0} /\ {i + 1} \in SUBSET Id
    BY DEF Types
  <2>2. PICK owned \in SUBSET Id : owned = {i + 1}
    BY <2>1
  <2>3. /\ Owner("VideoFrame", owned, 0, FALSE) \in Object
        /\ Owner("VideoFrame", owned, 0, FALSE) # Gone
        /\ Owner("VideoFrame", owned, 0, FALSE).type = "VideoFrame"
        /\ Owner("VideoFrame", owned, 0, FALSE).owns = owned
    BY <2>1, GoneIsNoObject DEF Owner, Object
  <2> QED BY <2>2, <2>3
<1> HIDE DEF frame, image, g
<1>5. g \in Heaps
  BY <1>1, <1>3, <1>4 DEF Heaps
<1>6. \A i \in Id : i - 1 \in ids => i > n /\ i \notin ids
  <2> SUFFICES ASSUME NEW i \in Id, i - 1 \in ids PROVE i > n /\ i \notin ids
    OBVIOUS
  <2>1. i = (i - 1) + 1 /\ i - 1 \in Nat /\ i - 1 > n
    BY <1>2
  <2> QED BY <2>1
<1>7. \A i \in Id : i <= n => g[i] = h[i]
  BY <1>1, <1>2, <1>6
<1>8. \A i \in Id : i > n /\ i \notin ids /\ i - 1 \notin ids => g[i] = Gone
  BY <1>1
<1>9. \A i \in Id : i - 1 \in ids => g[i] = image
  BY <1>1, <1>6
<1>10. \A i \in ids : g[i] = frame(i) /\ g[i + 1] = image
  <2> SUFFICES ASSUME NEW i \in ids PROVE g[i] = frame(i) /\ g[i + 1] = image
    OBVIOUS
  <2>1. (i + 1) - 1 = i /\ i + 1 \in Id
    BY <1>2
  <2> QED BY <2>1, <1>1, <1>9
<1>11. \A i \in ids : g[i].owns = {i + 1} /\ Shaped(g, i) /\ Finds(g, i, "VideoFrame")
  BY <1>3, <1>4, <1>10 DEF Shaped, Finds, Alive
<1>12. \A i \in Id : i - 1 \in ids => g[i].owns = {} /\ Shaped(g, i) /\ Finds(g, i, "Image")
  BY <1>3, <1>9 DEF Shaped, Finds, Alive
<1> QED BY <1>5, <1>6, <1>7, <1>8, <1>11, <1>12 DEF g, HasFrames

(* The stream that is alive can be read.                                   *)
LEMMA StreamReadable ==
  ASSUME IInv, HasStream
  PROVE  Readable(currentVideoStreamId) /\ currentVideoStreamId \in Id
  BY DEF IInv, CurrentInv, HasStream, Readable, Reads, Finds, Alive

(* The current stream.                                                     *)
LEMMA FitsTyped ==
  ASSUME IInv, HasStream
  PROVE  heap[currentVideoStreamId] \in Object /\ heap[currentVideoStreamId].fits \in BOOLEAN
<1>1. currentVideoStreamId \in Id /\ heap[currentVideoStreamId] # Gone
  BY DEF HasStream, Finds, Alive
<1>2. heap[currentVideoStreamId] \in Object
  BY <1>1, InvFacts DEF Heaps
<1> QED BY <1>2 DEF Object

(* pickVideoFrame() with a frame.                                          *)
LEMMA PickVideoFrameInv ==
  ASSUME IInv, NEW fromPrepared \in BOOLEAN, PickVideoFrame(fromPrepared)
  PROVE  IInv'
<1> DEFINE frame == made + 1
           fits  == heap[currentVideoStreamId].fits
<1>1. HasStream /\ Readable(currentVideoStreamId) /\ fits \in BOOLEAN
  BY StreamReadable, FitsTyped DEF PickVideoFrame
<1>2. /\ heap' = WithFrames(heap, {frame}, fits)
      /\ vmObjIds' = vmObjIds \union {frame}
      /\ frames' = frames \union {[frameId |-> frame, imageId |-> frame + 1]}
      /\ UNCHANGED <<abandoned, vm, currentIds, images, freed, gifBuffer, fault>>
  <2>1. frame # 0
    BY InvFacts
  <2> QED BY <1>1, <2>1 DEF PickVideoFrame, Listed, Picked, PickedFrame
<1>3. made' = made + 2 /\ made + 2 <= MaxObjects
  BY <1>1 DEF PickVideoFrame, HasRoom
<1>4. /\ made \in Nat /\ MaxObjects \in Nat /\ heap \in Heaps /\ \A i \in Id : i \in Nat
      /\ \A i \in Id : i > made => heap[i] = Gone
      /\ \A i \in vmObjIds : i \in Nat /\ i <= made
  BY InvFacts DEF IInv, Given
<1>5. frame \in Id /\ frame + 1 \in Id /\ made' \in made .. MaxObjects /\ frame + 1 # frame /\ frame > made
  BY <1>3, <1>4 DEF Id
<1>6. /\ heap' \in Heaps
      /\ \A i \in Id : i <= made => heap'[i] = heap[i]
      /\ \A i \in Id : i > made /\ i # frame /\ i - 1 # frame => heap'[i] = Gone
      /\ heap'[frame].owns = {frame + 1} /\ Shaped(heap', frame) /\ Finds(heap', frame, "VideoFrame")
      /\ \A i \in Id : i - 1 = frame =>
           i > made /\ i # frame /\ heap'[i].owns = {} /\ Shaped(heap', i) /\ Finds(heap', i, "Image")
  <2>1. {frame} \in SUBSET Id
    BY <1>5
  <2>2. \A i \in {frame} : i > made /\ i + 1 \in Id /\ i + 1 \notin {frame}
    BY <1>5
  <2>3. HasFrames(heap, heap', made, {frame})
    <3> HIDE DEF frame, fits
    <3> QED BY <1>1, <1>2, <1>4, <2>1, <2>2, FramesMade
  <2> HIDE DEF frame
  <2> QED BY <2>3 DEF HasFrames
<1>7. \A i \in Id : i > made' => heap'[i] = Gone
  <2>1. \A i \in Id : i > made' => i > made /\ i # frame /\ i - 1 # frame
    BY <1>3, <1>4
  <2> QED BY <2>1, <1>6
<1>8. ASSUME NEW i \in Id, i > made
      PROVE  /\ heap'[i].owns \in {{}, {i + 1}}
             /\ heap'[i].owns \intersect vmObjIds' = {}
             /\ heap'[i] # Gone => Shaped(heap', i) /\ (i \in vmObjIds' \/ i \in heap'[frame].owns)
  <2>1. CASE i = frame
    <3>1. frame + 1 \notin vmObjIds'
      BY <1>2, <1>4, <1>5
    <3>2. heap'[frame].owns = {frame + 1} /\ Shaped(heap', frame) /\ frame \in vmObjIds'
      BY <1>2, <1>6
    <3> HIDE DEF frame
    <3> QED BY <2>1, <3>1, <3>2
  <2>2. CASE i - 1 = frame
    <3>1. i = frame + 1
      BY <2>2, <1>4
    <3> QED BY <2>2, <3>1, <1>6
  <2>3. CASE i # frame /\ i - 1 # frame
    BY <2>3, <1>6, <1>8, GoneIsNoObject
  <2> QED BY <2>1, <2>2, <2>3
<1>9. \A i \in vmObjIds' \ vmObjIds : i \in Id /\ i > made /\ heap'[i] # Gone
  BY <1>2, <1>5, <1>6 DEF Finds, Alive
<1>10. Others' = Others
  BY <1>2 DEF Others, currentIds
<1>11. vmObjIds \subseteq vmObjIds'
  BY <1>2
<1>12. /\ SoundBut(heap', 0) /\ Kept(heap', vmObjIds') /\ Remembered(heap', vmObjIds', Others')
       /\ \A i, t : Finds(heap, i, t) => Finds(heap', i, t) /\ heap'[i] = heap[i]
       /\ \A i : Alive(heap', i) /\ i <= made => Alive(heap, i)
  BY <1>5, <1>6, <1>7, <1>8, <1>9, <1>10, <1>11, GrowKeeps
<1>13. CurrentInv' /\ abandoned' \subseteq (0 .. made') \intersect Id
  BY <1>2, <1>5, <1>12, GrowKeepsCurrent, AbandonedStays
<1>14. ClientInv'
  <2>1. \A f \in frames' \ frames : /\ Finds(heap', f.frameId, "VideoFrame")
                                    /\ f.frameId \in vmObjIds'
                                    /\ f.imageId = f.frameId + 1
    BY <1>2, <1>6
  <2> QED BY <1>2, <1>11, <1>12, <2>1, GrowKeepsClient
<1>15. {currentGifBuilderId', currentInputStreamBufferId', currentInputStreamId',
        currentVideoStreamId'} \subseteq 0 .. made'
  BY <1>2, <1>3, <1>4 DEF IInv, Given, currentIds
<1>16. vm' \in BOOLEAN /\ frames' \ frames \subseteq Frame
  <2>1. [frameId |-> frame, imageId |-> frame + 1] \in Frame
    BY <1>5 DEF Frame
  <2>2. vm' \in BOOLEAN
    BY <1>2 DEF IInv, TypeOK
  <2> QED BY <1>2, <2>1, <2>2
<1>17. vmObjIds' \ vmObjIds \subseteq Id \union {0}
  BY <1>9
<1> QED BY <1>2, <1>5, <1>6, <1>7, <1>12, <1>13, <1>14, <1>15, <1>16, <1>17, GrownInv

(* The frames that are prepared take every other id.                       *)
LEMMA PreparedIds ==
  ASSUME NEW m \in Nat, NEW n \in Nat, m + 2 * n <= MaxObjects, MaxObjects \in Nat
  PROVE  LET prepared == {m + 2 * k - 1 : k \in 1 .. n}
         IN  /\ prepared \in SUBSET Id
             /\ \A i \in prepared : /\ i \in Nat /\ i > m /\ i + 1 \in Id /\ i + 1 \notin prepared
                                    /\ i + 1 <= m + 2 * n
<1> DEFINE prepared == {m + 2 * k - 1 : k \in 1 .. n}
<1>1. ASSUME NEW i \in prepared
      PROVE  i \in Id /\ i \in Nat /\ i > m /\ i + 1 \in Id /\ i + 1 \notin prepared /\ i + 1 <= m + 2 * n
  <2>1. PICK k \in 1 .. n : i = m + 2 * k - 1
    OBVIOUS
  <2>2. i \in Nat /\ i > m /\ i + 1 <= m + 2 * n /\ i >= 1
    BY <2>1
  <2>3. i \in Id /\ i + 1 \in Id
    BY <2>2 DEF Id
  <2>4. ASSUME NEW j \in 1 .. n, i + 1 = m + 2 * j - 1 PROVE FALSE
    BY <2>1, <2>4
  <2> QED BY <2>2, <2>3, <2>4
<1> QED BY <1>1

(* Frames are prepared: they belong to the stream.                         *)
LEMMA PrepareFramesInv ==
  ASSUME IInv, NEW n \in 0 .. MaxPrepared, PrepareFrames(n)
  PROVE  IInv'
<1> DEFINE x        == currentVideoStreamId
           old      == heap[x].owns
           prepared == {made + 2 * k - 1 : k \in 1 .. n}
           cleared  == Destroy(heap, old)
           fits     == heap[x].fits
           framed   == WithFrames(cleared, prepared, fits)
<1>1. HasStream /\ Readable(x) /\ x \in Id /\ fits \in BOOLEAN /\ heap[x] \in Object
  BY StreamReadable, FitsTyped DEF PrepareFrames
<1>2. /\ heap' = [framed EXCEPT ![x].owns = prepared]
      /\ UNCHANGED <<abandoned, vm, vmObjIds, currentIds, clientVars, fault>>
  BY <1>1 DEF PrepareFrames
<1>3. made' = made + 2 * n /\ made + 2 * n <= MaxObjects /\ n \in Nat
  BY <1>1, BoundsAssumption DEF PrepareFrames, HasRoom
<1>4. /\ made \in Nat /\ MaxObjects \in Nat /\ heap \in Heaps /\ \A i \in Id : i \in Nat /\ i # 0
      /\ \A i \in Id : i > made => heap[i] = Gone
      /\ \A i : Alive(heap, i) => i \in Id /\ i <= made
      /\ \A i \in Id : heap[i].owns \in SUBSET Id
  BY InvFacts, OwnsTyped DEF IInv, Given
<1>5. heap[x] # Gone /\ heap[x].type = "VideoStream" /\ x <= made
  BY <1>1, <1>4 DEF HasStream, Finds, Alive
<1>6. \A i \in old : heap[i] # Gone /\ i \in Id /\ i \notin vmObjIds /\ heap[i].type = "VideoFrame"
  <2>1. Shaped(heap, x)
    BY <1>1, <1>5, InvFacts
  <2> QED BY <2>1, <1>1, <1>5, OwnedFacts DEF Shaped, Finds, Alive
<1>7. /\ cleared \in Heaps
      /\ \A i \in Id : cleared[i] \in {heap[i], Gone}
      /\ \A i \in old : cleared[i] = Gone
      /\ DiesByOwner(heap, old)
      /\ SoundBut(cleared, x)
  <2>1. \A i \in Id \ {x} : heap[i].owns \intersect old = {}
    BY <1>1, InvFacts
  <2>2. SoundBut(heap, 0) /\ old \in SUBSET Id
    BY <1>6 DEF IInv
  <2>3. heap \in Heaps /\ \A i \in old : heap[i] # Gone
    BY <1>4, <1>6
  <2> HIDE DEF old
  <2> QED BY <2>1, <2>2, <2>3, DestroySound
<1>8. ASSUME NEW i \in Id, i \in vmObjIds \/ heap[i].type \notin {"Image", "VideoFrame"}
      PROVE  cleared[i] = heap[i]
  <2> SUFFICES ASSUME cleared[i] # heap[i] PROVE FALSE
    OBVIOUS
  <2>1. PICK j \in Id : i \in heap[j].owns
    BY <1>1, <1>7 DEF DiesByOwner
  <2> QED BY <2>1, <1>8, OwnedFacts
<1>9. /\ prepared \in SUBSET Id
      /\ \A i \in prepared : i \in Nat /\ i > made /\ i + 1 \in Id /\ i + 1 \notin prepared /\ i + 1 <= made'
  BY <1>3, <1>4, PreparedIds
<1>10. \A i \in Id : i > made => cleared[i] = Gone
  BY <1>4, <1>7
<1>11. HasFrames(cleared, framed, made, prepared)
  <2>1. \A i \in prepared : i > made /\ i + 1 \in Id /\ i + 1 \notin prepared
    BY <1>9
  <2> HIDE DEF cleared, prepared, fits
  <2> QED BY <1>1, <1>4, <1>7, <1>9, <1>10, <2>1, FramesMade
<1>12. framed[x] = heap[x]
  BY <1>1, <1>5, <1>8, <1>11 DEF HasFrames
<1> HIDE DEF cleared, framed, prepared, old, fits
<1>13. /\ heap' \in Heaps
       /\ \A i \in Id : i # x => heap'[i] = framed[i]
       /\ heap'[x] # Gone /\ heap'[x].owns = prepared
       /\ heap'[x].type = "VideoStream" /\ heap'[x].uses = heap[x].uses
  <2>1. heap'[x] = [heap[x] EXCEPT !.owns = prepared] /\ \A i \in Id : i # x => heap'[i] = framed[i]
    BY <1>1, <1>2, <1>11, <1>12 DEF HasFrames, Heaps
  <2>2. /\ heap'[x] \in Object /\ heap'[x].owns = prepared
        /\ heap'[x].type = "VideoStream" /\ heap'[x].uses = heap[x].uses
    BY <2>1, <1>1, <1>5, <1>9 DEF Object
  <2>3. DOMAIN heap' = Id /\ heap' = [i \in Id |-> heap'[i]]
    BY <1>2, <1>11 DEF HasFrames, Heaps
  <2>4. \A i \in Id : heap'[i] \in Object \union {Gone}
    BY <2>1, <2>2, <1>11 DEF HasFrames, Heaps
  <2> QED BY <2>1, <2>2, <2>3, <2>4, GoneIsNoObject DEF Heaps
<1>14. \A i \in Id : i <= made /\ i # x => heap'[i] = cleared[i]
  BY <1>11, <1>13 DEF HasFrames
<1>15. \A i, t : Finds(framed, i, t) => Finds(heap', i, t)
  BY <1>5, <1>12, <1>13 DEF Finds, Alive
<1>16. /\ \A i \in Id : i > made /\ i \notin prepared /\ i - 1 \notin prepared => heap'[i] = Gone
       /\ \A i \in prepared : heap'[i].owns = {i + 1} /\ Shaped(heap', i) /\ Finds(heap', i, "VideoFrame")
       /\ \A i \in Id : i - 1 \in prepared => heap'[i].owns = {} /\ Shaped(heap', i) /\ Finds(heap', i, "Image")
  <2>1. \A i \in Id : i > made => i # x
    BY <1>4, <1>5, <1>1
  <2>2. \A i \in Id : i - 1 \in prepared => i > made /\ i \notin prepared
    BY <1>11 DEF HasFrames
  <2>3. \A i \in prepared : i \in Id /\ i > made
    BY <1>9
  <2> QED BY <2>1, <2>2, <2>3, <1>11, <1>13, <1>15 DEF HasFrames, Shaped
<1>17. \A i \in Id : i > made' => heap'[i] = Gone
  <2>1. \A i \in Id : i > made' => i > made /\ i \notin prepared /\ i - 1 \notin prepared
    <3> SUFFICES ASSUME NEW i \in Id, i > made' PROVE i > made /\ i \notin prepared /\ i - 1 \notin prepared
      OBVIOUS
    <3>1. i \in Nat /\ i > made
      BY <1>3, <1>4
    <3>2. i \notin prepared
      BY <3>1, <1>3, <1>4, <1>9
    <3>3. i - 1 \notin prepared
      BY <3>1, <1>3, <1>4, <1>9
    <3> QED BY <3>1, <3>2, <3>3
  <2> QED BY <2>1, <1>16
<1>18. SoundBut(heap', x)
  <2>1. \A i \in Id : i <= made => heap'[i].type = cleared[i].type /\ (i # x => heap'[i] = cleared[i])
    BY <1>1, <1>5, <1>8, <1>13, <1>14
  <2>2. ASSUME NEW i \in Id, i > made
        PROVE  i # x /\ heap'[i].owns \in {{}, {i + 1}} /\ (heap'[i] # Gone => Shaped(heap', i))
    <3>1. i # x
      BY <2>2, <1>4, <1>5
    <3>2. CASE i \in prepared
      BY <3>1, <3>2, <1>16
    <3>3. CASE i - 1 \in prepared
      BY <3>1, <3>3, <1>16
    <3>4. CASE i \notin prepared /\ i - 1 \notin prepared
      BY <2>2, <3>1, <3>4, <1>16, GoneIsNoObject
    <3> QED BY <3>2, <3>3, <3>4
  <2> QED BY <2>1, <2>2, <1>4, <1>7, <1>10, <1>13, GrowSound
<1>19. ASSUME NEW i \in Id \ {x}, NEW k \in heap'[i].owns PROVE k \notin prepared /\ k \notin vmObjIds
  <2>1. CASE i <= made
    <3>1. heap'[i] = cleared[i] /\ cleared[i] = heap[i]
      BY <2>1, <1>7, <1>14, <1>19, GoneIsNoObject
    <3>2. Alive(heap, k) /\ k \notin vmObjIds
      BY <3>1, <1>19, OwnedFacts
    <3> QED BY <3>2, <1>4, <1>9
  <2>2. CASE i > made
    <3>1. i \in prepared
      BY <2>2, <1>16, <1>19, GoneIsNoObject
    <3>2. k = i + 1 /\ k > made /\ k \in Nat
      BY <3>1, <1>4, <1>9, <1>16, <1>19
    <3>3. \A j \in vmObjIds : j \in Nat /\ j <= made
      BY InvFacts
    <3> QED BY <3>1, <3>2, <3>3, <1>4, <1>9
  <2> QED BY <2>1, <2>2, <1>4
<1>20. SoundBut(heap', 0)
  <2>1. Shaped(heap', x)
    BY <1>13, <1>16 DEF Shaped
  <2> QED BY <2>1, <1>13, <1>18, <1>19 DEF SoundBut
<1>21. \A i \in vmObjIds : i # 0 => i \in Id /\ heap[i] # Gone /\ Alive(heap', i) /\ heap'[i].type = heap[i].type
                                /\ (i # x => heap'[i] = heap[i])
  <2> SUFFICES ASSUME NEW i \in vmObjIds, i # 0
               PROVE  i \in Id /\ heap[i] # Gone /\ Alive(heap', i) /\ heap'[i].type = heap[i].type
                      /\ (i # x => heap'[i] = heap[i])
    OBVIOUS
  <2>1. i \in Id /\ heap[i] # Gone /\ i <= made
    BY <1>4 DEF IInv, Kept, Alive
  <2>2. cleared[i] = heap[i]
    BY <2>1, <1>8
  <2> QED BY <2>1, <2>2, <1>5, <1>13, <1>14 DEF Alive
<1>22. Kept(heap', vmObjIds')
  <2>1. \A i \in prepared : i \notin vmObjIds
    BY <1>4, <1>9, InvFacts
  <2> QED BY <2>1, <1>2, <1>13, <1>19, <1>21 DEF Kept
<1>23. Remembered(heap', vmObjIds', Others')
  <2> SUFFICES ASSUME NEW i \in Id, heap'[i] # Gone
               PROVE  i \in vmObjIds \/ i \in Others \/ \E j \in Id : i \in heap'[j].owns
    BY <1>2 DEF Remembered, Others, currentIds
  <2>1. CASE i > made
    <3>1. CASE i \in prepared
      BY <3>1, <1>1, <1>13
    <3>2. CASE i - 1 \in prepared
      <4>1. heap'[i - 1].owns = {(i - 1) + 1} /\ i - 1 \in Id
        BY <3>2, <1>9, <1>16
      <4>2. (i - 1) + 1 = i
        BY <1>4
      <4> QED BY <4>1, <4>2
    <3> QED BY <2>1, <3>1, <3>2, <1>16
  <2>2. CASE i <= made /\ i # x
    <3>1. cleared[i] = heap[i] /\ heap[i] # Gone /\ i \notin old
      BY <2>2, <1>7, <1>14
    <3>2. ASSUME NEW j \in Id, i \in heap[j].owns PROVE i \in heap'[j].owns
      <4>1. j # x
        BY <3>1, <3>2 DEF old
      <4>2. cleared[j] = heap[j]
        BY <3>1, <3>2, <1>7 DEF DiesByOwner, cleared
      <4>3. j <= made
        BY <3>2, <1>4, GoneIsNoObject
      <4> QED BY <3>2, <4>1, <4>2, <4>3, <1>14
    <3> QED BY <3>1, <3>2 DEF IInv, Remembered
  <2>3. CASE i = x
    BY <2>3 DEF Others
  <2> QED BY <2>1, <2>2, <2>3, <1>4
<1>24. \A i, t : Finds(heap, i, t) /\ t \notin {"Image", "VideoFrame"} =>
         Finds(heap', i, t) /\ heap'[i].uses = heap[i].uses
  <2> SUFFICES ASSUME NEW i, NEW t, Finds(heap, i, t), t \notin {"Image", "VideoFrame"}
               PROVE  Finds(heap', i, t) /\ heap'[i].uses = heap[i].uses
    OBVIOUS
  <2>1. i \in Id /\ heap[i] # Gone /\ heap[i].type = t /\ i <= made
    BY <1>4 DEF Finds, Alive
  <2>2. cleared[i] = heap[i]
    BY <2>1, <1>8
  <2> QED BY <2>1, <2>2, <1>5, <1>13, <1>14 DEF Finds, Alive
<1>25. \A i : Alive(heap', i) /\ i <= made => Alive(heap, i)
  BY <1>5, <1>7, <1>14 DEF Alive
<1>26. /\ currentGifBuilderId' = currentGifBuilderId
       /\ currentInputStreamBufferId' = currentInputStreamBufferId
       /\ currentInputStreamId' = currentInputStreamId
       /\ currentVideoStreamId' = currentVideoStreamId
       /\ images' = images /\ freed' = freed /\ frames' = frames /\ gifBuffer' = gifBuffer
       /\ abandoned' = abandoned /\ vm' = vm /\ vmObjIds' = vmObjIds /\ fault' = fault
  BY <1>2 DEF currentIds, clientVars
<1>27. CurrentInv'
  <2>1. /\ currentGifBuilderId # 0 => Finds(heap', currentGifBuilderId, "GifBuilder")
        /\ gifBuffer # 0 => Finds(heap', gifBuffer, "Buffer")
    BY <1>24 DEF IInv, CurrentInv
  <2>2. Reads(heap, x) /\ heap'[x].uses = heap[x].uses
    BY <1>1, <1>13 DEF HasStream, Finds, IInv, CurrentInv
  <2>3. Reads(heap', x)
    <3> HIDE DEF x
    <3> QED BY <2>2, <1>24 DEF Reads
  <2>4. \A i \in Others : Alive(heap', i) => Finds(heap', i, "VideoStream")
    <3>1. \A i \in Others : i <= made
      BY InvFacts DEF IInv, Given, Others
    <3> QED BY <3>1, <1>24, <1>25 DEF IInv, CurrentInv
  <2>5. Alive(heap', currentInputStreamId) => Finds(heap', currentInputStreamId, "InputStream")
    <3>1. currentInputStreamId <= made
      BY InvFacts DEF IInv, Given
    <3> QED BY <3>1, <1>24, <1>25 DEF IInv, CurrentInv
  <2> QED BY <2>1, <2>3, <2>4, <2>5, <1>26 DEF CurrentInv, Others
<1>28. ClientInv'
  <2>1. ASSUME NEW f \in frames
        PROVE  /\ Finds(heap', f.frameId, "VideoFrame") /\ f.frameId \in vmObjIds
               /\ f.imageId = f.frameId + 1 /\ Finds(heap', f.imageId, "Image")
    <3>1. Finds(heap, f.frameId, "VideoFrame") /\ f.frameId \in vmObjIds /\ f.imageId = f.frameId + 1
      BY DEF IInv, ClientInv
    <3>2. f.frameId \in Id /\ f.frameId # 0
      BY <3>1, <1>4 DEF Finds, Alive
    <3>3. Finds(heap', f.frameId, "VideoFrame")
      BY <3>1, <3>2, <1>21 DEF Finds
    <3>4. Shaped(heap', f.frameId)
      BY <3>2, <3>3, <1>20 DEF SoundBut, Finds, Alive
    <3> QED BY <3>1, <3>3, <3>4 DEF Shaped, Finds
  <2>2. ASSUME NEW i \in images PROVE Finds(heap', i, "Image") /\ (i \in vmObjIds \/ i \in FrameImages)
    <3>1. Finds(heap, i, "Image") /\ (i \in vmObjIds \/ i \in FrameImages)
      BY DEF IInv, ClientInv
    <3>2. CASE i \in vmObjIds
      BY <3>1, <3>2, <1>4, <1>21 DEF Finds, Alive
    <3>3. CASE i \in FrameImages
      BY <3>3, <2>1 DEF FrameImages
    <3> QED BY <3>1, <3>2, <3>3
  <2>3. \A i \in freed : ~Alive(heap', i)
    <3>1. \A i \in freed : i <= made /\ ~Alive(heap, i)
      BY <1>4 DEF IInv, Given, ClientInv
    <3> QED BY <3>1, <1>25
  <2> QED BY <2>1, <2>2, <2>3, <1>26 DEF ClientInv, FrameImages
<1>29. {currentGifBuilderId', currentInputStreamBufferId', currentInputStreamId',
        currentVideoStreamId'} \subseteq 0 .. made'
  BY <1>3, <1>4, <1>26 DEF IInv, Given
<1>30. made' \in made .. MaxObjects /\ vm' \in BOOLEAN
  <2>1. made' \in made .. MaxObjects
    BY <1>3, <1>4
  <2>2. vm' \in BOOLEAN
    BY <1>26 DEF IInv, TypeOK
  <2> QED BY <2>1, <2>2
<1>31. abandoned' \subseteq (0 .. made') \intersect Id
  BY <1>26, <1>30, AbandonedStays
<1> QED BY <1>13, <1>17, <1>20, <1>22, <1>23, <1>26, <1>27, <1>28, <1>29, <1>30, <1>31, GrownInv

-----------------------------------------------------------------------------
(* The end of the encoding makes the GIF's buffer and frees the builder.   *)

(* gifEncoderEnd(): the builder goes, and its buffer stays.                *)
LEMMA GifEncoderEndInv ==
  ASSUME IInv, GifEncoderEnd
  PROVE  IInv'
<1> DEFINE gif     == made + 1
           builder == currentGifBuilderId
           h       == [heap EXCEPT ![gif] = Plain("Buffer")]
           S       == Freeable(h, {builder})
<1>1. /\ builder # 0 /\ made + 1 <= MaxObjects
      /\ heap' = Destroy(h, S)
      /\ vmObjIds' = (vmObjIds \union {gif}) \ {builder}
      /\ gifBuffer' = gif /\ made' = made + 1
      /\ currentGifBuilderId' = 0
      /\ fault' = IF Finds(heap, builder, "GifBuilder") THEN fault ELSE "null"
      /\ currentInputStreamBufferId' = currentInputStreamBufferId
      /\ currentInputStreamId' = currentInputStreamId
      /\ currentVideoStreamId' = currentVideoStreamId
      /\ vm' = vm /\ abandoned' = abandoned
      /\ images' = images /\ freed' = freed /\ frames' = frames
  BY DEF GifEncoderEnd, FreedByEnd, Unlisted, Listed, HasRoom
<1>2. /\ made \in Nat /\ MaxObjects \in Nat /\ heap \in Heaps /\ \A i \in Id : i \in Nat /\ i # 0
      /\ \A i \in Id : i > made => heap[i] = Gone
      /\ \A i : Alive(heap, i) => i \in Id /\ i <= made
      /\ \A i \in vmObjIds : i \in Nat /\ i <= made
      /\ \A i \in Id : heap[i] # Gone => Shaped(heap, i)
      /\ \A i \in Id : \A j \in Id \ {i} : heap[i].owns \intersect heap[j].owns = {}
  BY InvFacts DEF IInv, Given
<1>3. Finds(heap, builder, "GifBuilder") /\ fault' = fault /\ builder \in Id /\ builder <= made
  BY <1>1, <1>2 DEF IInv, CurrentInv, Finds
<1>4. gif \in Id /\ gif > made /\ gif # builder /\ heap[gif] = Gone /\ made' \in made .. MaxObjects
  <2>1. gif \in Id
    BY <1>1, <1>2 DEF Id
  <2> QED BY <2>1, <1>1, <1>2, <1>3
<1>5. /\ Plain("Buffer") \in Object /\ Plain("Buffer") # Gone
      /\ Plain("Buffer").type = "Buffer" /\ Plain("Buffer").owns = {}
  BY "Buffer" \in Types, PlainFacts DEF Types
<1> HIDE DEF gif, builder
<1>6. /\ h \in Heaps /\ h[gif] = Plain("Buffer")
      /\ \A i \in Id : i # gif => h[i] = heap[i]
  BY <1>2, <1>4, <1>5 DEF Heaps
<1>7. heap[builder].owns = {}
  <2>1. Shaped(heap, builder)
    BY <1>2, <1>3 DEF Finds, Alive
  <2> QED BY <2>1, <1>3 DEF Shaped, Finds
<1>8. heap' = [i \in Id |-> IF i = builder THEN Gone ELSE h[i]]
  <2>1. S = {builder}
    BY <1>3, <1>4, <1>6 DEF Freeable, Alive, Finds
  <2>2. h[builder].owns = {}
    BY <1>3, <1>4, <1>6, <1>7
  <2> HIDE DEF h, S
  <2>3. \A i : i \notin Owned(h, {builder}) /\ i \notin Owned(h, {})
    BY <2>2, OwnedMembers
  <2>4. Owned(h, {builder}) = {} /\ Owned(h, {}) = {}
    BY <2>3
  <2>5. Destroyed(h, {builder}) = {builder}
    BY <2>4 DEF Destroyed
  <2>6. Destroy(h, {builder}) = [i \in Id |-> IF i = builder THEN Gone ELSE h[i]]
    BY <2>5 DEF Destroy
  <2>7. heap' = Destroy(h, S)
    BY <1>1
  <2> QED BY <2>1, <2>6, <2>7
<1> HIDE DEF h
<1>9. /\ heap' \in Heaps /\ heap'[builder] = Gone /\ heap'[gif] = Plain("Buffer")
      /\ \A i \in Id : i # gif /\ i # builder => heap'[i] = heap[i]
  BY <1>3, <1>4, <1>6, <1>8 DEF Heaps
<1>10. \A i, t : Finds(heap, i, t) /\ i # builder => Finds(heap', i, t) /\ heap'[i] = heap[i]
  BY <1>2, <1>4, <1>9 DEF Finds, Alive
<1>11. \A i : Alive(heap', i) /\ i # gif => Alive(heap, i) /\ i # builder /\ heap'[i] = heap[i]
  BY <1>9 DEF Alive
<1>12. \A i \in Id : heap'[i].owns \subseteq heap[i].owns
  BY <1>4, <1>5, <1>9, GoneIsNoObject
<1>13. SoundBut(heap', 0)
  <2>1. \A i \in Id : \A j \in Id \ {i} : heap'[i].owns \intersect heap'[j].owns = {}
    BY <1>2, <1>12
  <2>2. ASSUME NEW i \in Id, heap'[i] # Gone PROVE Shaped(heap', i)
    <3>1. CASE i = gif
      BY <3>1, <1>5, <1>9 DEF Shaped
    <3>2. CASE i # gif
      <4>1. heap'[i] = heap[i] /\ Shaped(heap, i)
        BY <2>2, <3>2, <1>2, <1>9
      <4>2. \A k : Finds(heap, k, "Image") => Finds(heap', k, "Image")
        BY <1>3, <1>10 DEF Finds
      <4>3. \A k : Finds(heap, k, "VideoFrame") => Finds(heap', k, "VideoFrame")
        BY <1>3, <1>10 DEF Finds
      <4> QED BY <4>1, <4>2, <4>3 DEF Shaped
    <3> QED BY <3>1, <3>2
  <2> QED BY <2>1, <2>2 DEF SoundBut
<1>14. Kept(heap', vmObjIds')
  <2>1. \A i \in vmObjIds' \ {0} : Alive(heap', i)
    BY <1>1, <1>4, <1>5, <1>9 DEF IInv, Kept, Alive
  <2>2. \A i \in Id : \A k \in heap'[i].owns : k \notin vmObjIds /\ k # gif
    BY <1>2, <1>4, <1>12, OwnedFacts DEF Alive
  <2> QED BY <2>1, <2>2, <1>1 DEF Kept
<1>15. Remembered(heap', vmObjIds', Others')
  <2> SUFFICES ASSUME NEW i \in Id, heap'[i] # Gone
               PROVE  i \in vmObjIds' \/ i \in Others \/ \E j \in Id : i \in heap'[j].owns
    BY <1>1 DEF Remembered, Others
  <2>1. CASE i = gif
    BY <2>1, <1>1, <1>4
  <2>2. CASE i # gif
    <3>1. heap[i] # Gone /\ i # builder
      BY <2>2, <1>9
    <3>2. \A j \in Id : i \in heap[j].owns => i \in heap'[j].owns
      BY <1>4, <1>7, <1>9, GoneIsNoObject
    <3> QED BY <3>1, <3>2, <1>1 DEF IInv, Remembered
  <2> QED BY <2>1, <2>2
<1>16. CurrentInv'
  <2>1. Finds(heap', gif, "Buffer")
    BY <1>4, <1>5, <1>9 DEF Finds, Alive
  <2>2. currentInputStreamId # gif /\ \A i \in Others : i # gif
    BY <1>2, <1>4 DEF IInv, Given, Others
  <2>3. Alive(heap', currentInputStreamId) => Finds(heap', currentInputStreamId, "InputStream")
    BY <2>2, <1>10, <1>11 DEF IInv, CurrentInv
  <2>4. \A i \in Others : Alive(heap', i) => Finds(heap', i, "VideoStream") /\ heap'[i] = heap[i]
    BY <2>2, <1>10, <1>11 DEF IInv, CurrentInv
  <2>5. ASSUME Alive(heap', currentVideoStreamId) PROVE Reads(heap', currentVideoStreamId)
    <3>1. Alive(heap, currentVideoStreamId)
      BY <2>2, <2>5, <1>11 DEF Others
    <3>2. Reads(heap, currentVideoStreamId) /\ heap'[currentVideoStreamId] = heap[currentVideoStreamId]
      BY <2>4, <2>5, <3>1 DEF IInv, CurrentInv, Others
    <3>3. heap[currentVideoStreamId].uses # builder /\ heap[heap[currentVideoStreamId].uses].uses # builder
      BY <3>2, <1>3 DEF Reads, Finds
    <3> QED BY <3>2, <3>3, <1>10 DEF Reads
  <2> QED BY <2>1, <2>3, <2>4, <2>5, <1>1 DEF CurrentInv, Others
<1>17. ClientInv'
  <2>1. ASSUME NEW f \in frames
        PROVE  Finds(heap', f.frameId, "VideoFrame") /\ f.frameId \in vmObjIds' /\ f.imageId = f.frameId + 1
    <3>1. Finds(heap, f.frameId, "VideoFrame") /\ f.frameId \in vmObjIds /\ f.imageId = f.frameId + 1
      BY DEF IInv, ClientInv
    <3>2. f.frameId # builder
      BY <3>1, <1>3 DEF Finds
    <3> QED BY <3>1, <3>2, <1>1, <1>10
  <2>2. ASSUME NEW i \in images PROVE Finds(heap', i, "Image") /\ (i \in vmObjIds' \/ i \in FrameImages)
    <3>1. Finds(heap, i, "Image") /\ (i \in vmObjIds \/ i \in FrameImages)
      BY DEF IInv, ClientInv
    <3>2. i # builder
      BY <3>1, <1>3 DEF Finds
    <3> QED BY <3>1, <3>2, <1>1, <1>10
  <2>3. \A i \in freed : ~Alive(heap', i)
    <3>1. \A i \in freed : i # gif /\ ~Alive(heap, i)
      BY <1>2, <1>4 DEF IInv, Given, ClientInv
    <3> QED BY <3>1, <1>11
  <2> QED BY <2>1, <2>2, <2>3, <1>1 DEF ClientInv, FrameImages
<1>18. TypeOK'
  <2>1. TypeOK
    BY DEF IInv
  <2>2. vmObjIds' \subseteq Id \union {0}
    BY <2>1, <1>1, <1>4 DEF TypeOK
  <2>3. made' \in 0 .. MaxObjects
    BY <1>2, <1>4
  <2>4. heap' \in [Id -> Object \union {Gone}]
    BY <1>9 DEF Heaps
  <2> QED BY <2>1, <2>2, <2>3, <2>4, <1>1, <1>3, <1>4 DEF TypeOK
<1>19. Given'
  <2>1. Given
    BY DEF IInv
  <2>2. 0 .. made \subseteq 0 .. made' /\ 0 \in 0 .. made'
    BY <1>1, <1>2
  <2>3. \A i \in Id : i > made' => i > made /\ i # gif /\ i # builder
    BY <1>1, <1>2, <1>3 DEF gif
  <2>4. \A i \in Id : i > made' => heap'[i] = Gone
    BY <2>3, <1>2, <1>9
  <2> QED BY <2>1, <2>2, <2>4, <1>1 DEF Given
<1>20. NoBadPointer'
  BY <1>3 DEF IInv, NoBadPointer
<1> QED BY <1>13, <1>14, <1>15, <1>16, <1>17, <1>18, <1>19, <1>20 DEF IInv

-----------------------------------------------------------------------------
(* The theorems.                                                           *)

(* The invariant holds in the beginning.                                   *)
LEMMA InitInv == Init => IInv
<1> SUFFICES ASSUME Init PROVE IInv
  OBVIOUS
<1>1. /\ heap = [i \in Id |-> Gone] /\ made = 0 /\ vm = TRUE /\ vmObjIds = {}
      /\ currentGifBuilderId = 0 /\ currentInputStreamBufferId = 0
      /\ currentInputStreamId = 0 /\ currentVideoStreamId = 0
      /\ images = {} /\ freed = {} /\ frames = {} /\ gifBuffer = 0
      /\ abandoned = {} /\ fault = "none"
  BY DEF Init
<1>2. \A i : ~Alive(heap, i)
  BY <1>1 DEF Alive
<1>3. \A i \in Id : heap[i] = Gone
  BY <1>1
<1>4. TypeOK
  BY <1>1, BoundsAssumption DEF TypeOK
<1>5. Given /\ CurrentInv /\ ClientInv /\ NoBadPointer
  BY <1>1, <1>2, <1>3 DEF Given, CurrentInv, ClientInv, NoBadPointer, Others
<1>6. SoundBut(heap, 0) /\ Kept(heap, vmObjIds) /\ Remembered(heap, vmObjIds, Others)
  BY <1>1, <1>3, GoneIsNoObject DEF SoundBut, Kept, Remembered
<1> QED BY <1>4, <1>5, <1>6 DEF IInv

(* Every step keeps the invariant.                                         *)
LEMMA NextInv == IInv /\ [Next]_vars => IInv'
<1> SUFFICES ASSUME IInv, [Next]_vars PROVE IInv'
  OBVIOUS
<1>1. CASE Deinit
  BY <1>1, DeinitInv
<1>2. ASSUME NEW loads \in BOOLEAN, NEW fits \in BOOLEAN, ImageLoadFromFileBuffer(loads, fits) PROVE IInv'
  BY <1>2, ImageLoadInv
<1>3. ASSUME NEW image \in images \union FrameImages, ImageResize(image) \/ GifEncoderAddImage(image) PROVE IInv'
  BY <1>3, ImageResizeInv, GifEncoderAddImageInv
<1>4. ASSUME NEW image \in images \union freed, FreeImage(image) PROVE IInv'
  BY <1>4, FreeImageInv
<1>5. ASSUME NEW fits \in BOOLEAN, OpenVideoStream(fits) \/ OpenVideoStreamThrows(fits) PROVE IInv'
  BY <1>5, OpenVideoStreamInv, OpenVideoStreamThrowsInv
<1>6. ASSUME NEW recognised \in BOOLEAN, OpenVideoStreamFails(recognised) PROVE IInv'
  BY <1>6, OpenVideoStreamFailsInv
<1>7. ASSUME NEW n \in 0 .. MaxPrepared, PrepareFrames(n) PROVE IInv'
  BY <1>7, PrepareFramesInv
<1>8. ASSUME NEW fromPrepared \in BOOLEAN, PickVideoFrame(fromPrepared) PROVE IInv'
  BY <1>8, PickVideoFrameInv
<1>9. CASE PickFindsNothing
  BY <1>9, PickFindsNothingInv
<1>10. ASSUME NEW frame \in frames, FreeVideoFrame(frame) PROVE IInv'
  BY <1>10, FreeVideoFrameInv
<1>11. CASE CloseVideoStream
  BY <1>11, CloseVideoStreamInv
<1>12. CASE GifEncoderBegin
  BY <1>12, GifEncoderBeginInv
<1>13. CASE GifEncoderEnd
  BY <1>13, GifEncoderEndInv
<1>14. CASE UNCHANGED vars
  <2>1. UNCHANGED <<heap, made, vm, vmObjIds, currentIds, abandoned, images, freed, frames, gifBuffer, fault>>
    BY <1>14 DEF vars, clientVars
  <2>2. images' = images \union {}
    BY <2>1
  <2> QED BY <2>1, <2>2, QuietInv
<1> QED BY <1>1, <1>2, <1>3, <1>4, <1>5, <1>6, <1>7, <1>8, <1>9, <1>10, <1>11, <1>12, <1>13, <1>14 DEF Next

(* IInv holds in every state of a session, however long.                   *)
THEOREM InvariantHolds == Spec => []IInv
  BY InitInv, NextInv, PTL DEF Spec

(* Every variable has its type, whatever calls were made.                  *)
THEOREM SessionTypes == Spec => []TypeOK
<1>1. IInv => TypeOK
  BY DEF IInv
<1> QED BY <1>1, InvariantHolds, PTL

(* A client that leaves a frame's image to its frame, and opens files that *)
(* FFmpeg recognises, never makes C++ read through a null or a dangling    *)
(* pointer, in whatever order it calls, also over streams still open.      *)
THEOREM PointersGood == Spec => []NoBadPointer
<1>1. IInv => NoBadPointer
  BY DEF IInv
<1> QED BY <1>1, InvariantHolds, PTL

(* Every object has one owner, and the client's list owns none that another *)
(* object owns.                                                            *)
THEOREM OneOwner == Spec => []OwnedOnce
<1>1. IInv => OwnedOnce
  <2> SUFFICES ASSUME IInv, NEW i \in Living
               PROVE  /\ heap[i].owns \subseteq Living
                      /\ \A j \in Living \ {i} : heap[i].owns \intersect heap[j].owns = {}
                      /\ heap[i].owns \intersect vmObjIds = {}
    BY DEF OwnedOnce
  <2>1. i \in Id
    BY DEF Living
  <2>2. \A k \in heap[i].owns : k \in Living /\ k \notin vmObjIds
    BY <2>1, OwnedFacts DEF Living, Alive
  <2> QED BY <2>1, <2>2, InvFacts DEF Living
<1> QED BY <1>1, InvariantHolds, PTL

(* The free list names only objects that are there.                        *)
THEOREM ListIsLive == Spec => []ListedLive
<1>1. IInv => ListedLive
  BY DEF IInv, Kept, ListedLive, Living, Alive
<1> QED BY <1>1, InvariantHolds, PTL

(* No object is lost but video streams: those whose opening trapped, and   *)
(* those over which another was opened.                                    *)
THEOREM NothingLost == Spec => []NothingForgotten
<1>1. IInv => NothingForgotten
  <2> SUFFICES ASSUME IInv, NEW i \in Living, i \notin vmObjIds, i \notin Others
               PROVE  \E j \in Living : i \in heap[j].owns
    <3>1. IInv => \A i \in Others : Alive(heap, i) => Finds(heap, i, "VideoStream")
      BY DEF IInv, CurrentInv
    <3>2. IInv => \A i \in Living : i \in Others => heap[i].type = "VideoStream"
      BY <3>1 DEF Finds, Living, Alive
    <3> QED BY <3>2 DEF NothingForgotten, Others
  <2>1. PICK j \in Id : i \in heap[j].owns
    BY DEF IInv, Remembered, Living
  <2>2. j \in Living
    BY <2>1, GoneIsNoObject DEF Living
  <2> QED BY <2>1, <2>2
<1> QED BY <1>1, InvariantHolds, PTL

(* A picked frame keeps its image until the client frees the frame.        *)
THEOREM PickedKept == Spec => []PickedFramesKept
<1>1. IInv => PickedFramesKept
  <2> SUFFICES ASSUME IInv, NEW f \in frames
               PROVE  f.frameId \in Living /\ f.imageId \in heap[f.frameId].owns \intersect Living
    BY DEF PickedFramesKept
  <2>1. Finds(heap, f.frameId, "VideoFrame") /\ f.imageId = f.frameId + 1
    BY DEF IInv, ClientInv
  <2>2. Shaped(heap, f.frameId)
    BY <2>1, InvFacts DEF Finds, Alive
  <2> QED BY <2>1, <2>2 DEF Shaped, Finds, Alive, Living
<1> QED BY <1>1, InvariantHolds, PTL

(* The GIF's bytes stay readable after the encoder is gone.                *)
THEOREM GifStays == Spec => []GifReadable
<1>1. IInv => GifReadable
  BY DEF IInv, CurrentInv, GifReadable
<1> QED BY <1>1, InvariantHolds, PTL
=============================================================================
