--------------------------- MODULE GifToolsSession ---------------------------
(***************************************************************************)
(* The class GifTools (src/index.ts) over the WebAssembly bindings, and a  *)
(* client that uses it as tests/GifEncoding.test.ts does, in any order and *)
(* with several images and frames at a time.  A step is one call of the    *)
(* client, with every call of the bindings it makes.                       *)
(*                                                                         *)
(* Objects are named by the ids the bindings return.  A client's id finds  *)
(* the object it was given for or nothing (HandleTable.tla, implemented by *)
(* ManagedObjStorage.tla), so an id here is a number that is never given   *)
(* twice; 0 is the null id.  A C++ pointer is the id of what it points at, *)
(* and reading through it when the object is gone is a fault.              *)
(***************************************************************************)
EXTENDS Naturals, FiniteSets

CONSTANTS
  MaxObjects,     (* bound: objects made in one session                    *)
  MaxPrepared     (* bound: frames one call prepares                       *)

ASSUME BoundsAssumption == MaxObjects \in Nat /\ MaxPrepared \in Nat

Id    == 1 .. MaxObjects
Types == {"Buffer", "Image", "GifBuilder", "InputStream", "VideoStream", "VideoFrame"}

(* owns: the objects its unique_ptrs point at.  uses: the object a plain   *)
(* pointer of it points at, or 0.  fits: for an image, and for the images  *)
(* of a stream's frames, whether it has the extent of the GIF.             *)
Object == [type : Types, owns : SUBSET Id, uses : Id \union {0}, fits : BOOLEAN]
Gone   == [type |-> "none", owns |-> {}, uses |-> 0, fits |-> FALSE]

VARIABLES
  heap,           (* the managed objects                                    *)
  made,           (* how many ids were given                                *)
  vm,             (* the module is there: init() was done, deinit() was not *)
  vmObjIds,       (* the free list                                          *)
  currentGifBuilderId,
  currentInputStreamBufferId,
  currentInputStreamId,
  currentVideoStreamId,
  images,         (* the client: images it got, and has not freed           *)
  freed,          (* images it has freed                                    *)
  frames,         (* frames it has picked, [frameId, imageId]               *)
  gifBuffer,      (* the buffer whose memory the GIF it got is a view of    *)
  abandoned,      (* history: streams the wrapper has lost the id of        *)
  fault           (* what went wrong in C++, "none" if nothing              *)

currentIds == <<currentGifBuilderId, currentInputStreamBufferId,
                currentInputStreamId, currentVideoStreamId>>
clientVars == <<images, freed, frames, gifBuffer>>
vars       == <<heap, made, vm, vmObjIds, currentIds, clientVars, abandoned, fault>>

Frame == [frameId : Id, imageId : Id]

Init ==
  /\ heap = [i \in Id |-> Gone] /\ made = 0
  /\ vm = TRUE
  /\ vmObjIds = {}
  /\ currentGifBuilderId = 0
  /\ currentInputStreamBufferId = 0
  /\ currentInputStreamId = 0
  /\ currentVideoStreamId = 0
  /\ images = {} /\ freed = {} /\ frames = {} /\ gifBuffer = 0
  /\ abandoned = {}
  /\ fault = "none"

-----------------------------------------------------------------------------
(* The bindings                                                            *)

Alive(h, i) == i \in Id /\ h[i] # Gone

(* managedCast: an object of another type is not found.                    *)
Finds(h, i, type) == Alive(h, i) /\ h[i].type = type

HasRoom(n) == made + n <= MaxObjects

Owner(type, owned, used, fits) == [type |-> type, owns |-> owned, uses |-> used, fits |-> fits]
Plain(type) == Owner(type, {}, 0, FALSE)

(* A frame and its image, the frame first: ids i and i + 1.                *)
WithFrames(h, ids, fits) ==
  [i \in Id |-> IF i \in ids     THEN Owner("VideoFrame", {i + 1}, 0, FALSE)
                ELSE IF i - 1 \in ids THEN Owner("Image", {}, 0, fits)
                ELSE h[i]]

(* What a destructor takes along, and whether it meets a dangling pointer. *)
Owned(h, S)    == UNION {h[i].owns : i \in S}
Destroyed(h, S) == S \union Owned(h, S) \union Owned(h, Owned(h, S))
Destroy(h, S)  == [i \in Id |-> IF i \in Destroyed(h, S) THEN Gone ELSE h[i]]
Dangles(h, S)  == \E i \in Destroyed(h, S) : ~Alive(h, i)

(* objectFree for each id: an id that finds nothing is ignored.            *)
Freeable(h, ids) == {i \in ids : Alive(h, i)}

FreeObjects(ids) ==
  /\ heap' = Destroy(heap, Freeable(heap, ids))
  /\ fault' = IF Dangles(heap, Freeable(heap, ids)) THEN "dangling" ELSE fault

-----------------------------------------------------------------------------
(* GifTools                                                                *)

Ready == vm /\ fault = "none"

(* mutant: the id stays in the list.                                       *)
StillListed(list, ids) == list

(* internalFreeObjIds takes the ids off the free list.                     *)
Unlisted(list, ids) == list \ ids

(* mutant: an id is appended only if it is in the list.                    *)
ListedAgain(list, ids) == list \union (ids \intersect list)

(* internalAddObjIds.                                                      *)
Listed(list, ids) == list \union ids

(* The client calls internalFreeObjIds with ids of its own.                *)
InternalFreeObjIds(ids) ==
  /\ FreeObjects(ids)
  /\ vmObjIds' = Unlisted(vmObjIds, ids)

(* deinit() calls internalFreeObjIds without ids.  The rest parameter is   *)
(* then empty and not undefined, so that nothing is freed.                 *)
Deinit ==
  /\ Ready
  /\ currentGifBuilderId = 0
  /\ InternalFreeObjIds({})
  /\ vm' = FALSE
  /\ UNCHANGED <<abandoned, made, currentIds, clientVars>>

(* imageLoadFromFileBuffer: the buffer of the file stays listed.  The id   *)
(* of an image that could not be loaded is 0, and is listed as well.       *)
ImageLoadFromFileBuffer(loads, fits) ==
  /\ Ready
  /\ HasRoom(2)
  /\ LET buffer == made + 1
         image  == IF loads THEN made + 2 ELSE 0
     IN  /\ heap' = [i \in Id |-> IF i = buffer THEN Plain("Buffer")
                                  ELSE IF i = image THEN Owner("Image", {}, 0, fits)
                                  ELSE heap[i]]
         /\ made' = IF loads THEN made + 2 ELSE made + 1
         /\ vmObjIds' = Listed(vmObjIds, {buffer, image})
         /\ images' = images \union ({image} \ {0})
  /\ UNCHANGED <<abandoned, vm, currentIds, freed, frames, gifBuffer, fault>>

(* The images a client can name: those it holds, and those of its frames.  *)
FrameImages == {f.imageId : f \in frames}

(* imageResize to the extent of the GIF: an image that has it is returned  *)
(* itself.                                                                 *)
ImageResize(image) ==
  /\ Ready
  /\ IF ~Finds(heap, image, "Image")
     THEN fault' = "null" /\ UNCHANGED <<heap, made, vmObjIds, images>>
     ELSE IF heap[image].fits
     THEN images' = images \union {image} /\ UNCHANGED <<heap, made, vmObjIds, fault>>
     ELSE /\ HasRoom(1)
          /\ made' = made + 1
          /\ heap' = [heap EXCEPT ![made + 1] = Owner("Image", {}, 0, TRUE)]
          /\ vmObjIds' = Listed(vmObjIds, {made + 1})
          /\ images' = images \union {made + 1}
          /\ UNCHANGED fault
  /\ UNCHANGED <<abandoned, vm, currentIds, freed, frames, gifBuffer>>

(* The stream that is current, if it was not closed.                       *)
StillOpen == {i \in {currentVideoStreamId} : Alive(heap, i)}

(* videoDecoderOpenVideoStream when FFmpeg opens the file.  The stream     *)
(* uses the input stream and that the buffer.  The stream is not listed:   *)
(* when one is still open, its id is overwritten, and nobody has it.       *)
OpenVideoStream(fits) ==
  /\ Ready
  /\ HasRoom(3)
  /\ LET buffer == made + 1  input == made + 2  stream == made + 3
     IN  /\ heap' = [heap EXCEPT ![buffer] = Plain("Buffer"),
                                 ![input]  = Owner("InputStream", {}, buffer, FALSE),
                                 ![stream] = Owner("VideoStream", {}, input, fits)]
         /\ made' = stream
         /\ vmObjIds' = Listed(vmObjIds, {buffer, input})
         /\ currentInputStreamBufferId' = buffer
         /\ currentInputStreamId' = input
         /\ currentVideoStreamId' = stream
  /\ abandoned' = abandoned \union StillOpen
  /\ UNCHANGED <<vm, currentGifBuilderId, clientVars, fault>>

(* When it does not: ffmpegVideoStreamOpen destroys its stream and returns *)
(* 0, which is current from then on; the wrapper frees the buffer and the  *)
(* input stream.  If the file was not even recognised, no format was set   *)
(* for avformat_close_input, which then frees the input stream and the     *)
(* buffer's memory as its own.                                             *)
OpenVideoStreamFails(recognised) ==
  /\ Ready
  /\ HasRoom(2)
  /\ made' = made + 2
  /\ currentInputStreamBufferId' = made + 1
  /\ currentInputStreamId' = made + 2
  /\ currentVideoStreamId' = 0
  /\ fault' = IF recognised THEN fault ELSE "heap corrupted"
  /\ abandoned' = abandoned \union StillOpen
  /\ UNCHANGED <<heap, vm, vmObjIds, currentGifBuilderId, clientVars>>

(* When the container records no number of frames, the frame duration is   *)
(* divided by 0: ffmpegVideoStreamOpen traps, and destroys nothing.  The   *)
(* wrapper catches that and frees the buffer and the input stream; the     *)
(* stream that is current is the one before, beside an input stream that   *)
(* is not its own and gone.                                                *)
OpenVideoStreamThrows(fits) ==
  /\ Ready
  /\ HasRoom(3)
  /\ LET input == made + 2  stream == made + 3
     IN  /\ heap' = [heap EXCEPT ![stream] = Owner("VideoStream", {}, input, fits)]
         /\ made' = stream
         /\ currentInputStreamBufferId' = made + 1
         /\ currentInputStreamId' = input
         /\ abandoned' = abandoned \union {stream}
  /\ UNCHANGED <<vm, vmObjIds, currentGifBuilderId, currentVideoStreamId, clientVars, fault>>

(* What FFmpeg reads through when it decodes.                              *)
Readable(stream) ==
  LET input == heap[stream].uses
  IN  Finds(heap, input, "InputStream") /\ Finds(heap, heap[input].uses, "Buffer")

HasStream == Finds(heap, currentVideoStreamId, "VideoStream")

(* videoDecoderPrepareAllFrames and videoDecoderPrepareFrames: the frames  *)
(* prepared before are destroyed, n are made.                              *)
PrepareFrames(n) ==
  /\ Ready
  /\ HasStream
  /\ HasRoom(2 * n)
  /\ IF ~Readable(currentVideoStreamId)
     THEN fault' = "dangling" /\ UNCHANGED <<heap, made>>
     ELSE LET prepared == {made + 2 * k - 1 : k \in 1 .. n}
              cleared  == Destroy(heap, heap[currentVideoStreamId].owns)
          IN  /\ heap' = [WithFrames(cleared, prepared, heap[currentVideoStreamId].fits)
                            EXCEPT ![currentVideoStreamId].owns = prepared]
              /\ made' = made + 2 * n
              /\ UNCHANGED fault
  /\ UNCHANGED <<abandoned, vm, vmObjIds, currentIds, clientVars>>

(* mutant: a prepared frame is handed out itself instead of a clone.       *)
PickedInPlace(fromPrepared) ==
  IF fromPrepared THEN CHOOSE i \in heap[currentVideoStreamId].owns : TRUE ELSE made + 1

(* The frame a pick returns is always a new one.                           *)
PickedFrame(fromPrepared) == made + 1

(* mutant: a null frame is taken for a frame.                              *)
PickedUnchecked(frame) == {[frameId |-> frame, imageId |-> frame + 1]}

(* What the client gets: no frame for the null id.                         *)
Picked(frame) == IF frame = 0 THEN {} ELSE {[frameId |-> frame, imageId |-> frame + 1]}

(* videoDecoderPickClosestVideoFrame and ...PreparedVideoFrame, when they  *)
(* find a frame: a clone of a prepared one, or one decoded.                *)
PickVideoFrame(fromPrepared) ==
  /\ Ready
  /\ HasStream
  /\ fromPrepared => heap[currentVideoStreamId].owns # {}
  /\ HasRoom(2)
  /\ IF ~fromPrepared /\ ~Readable(currentVideoStreamId)
     THEN fault' = "dangling" /\ UNCHANGED <<heap, made, vmObjIds, frames>>
     ELSE LET frame == PickedFrame(fromPrepared)
          IN  /\ heap' = WithFrames(heap, {frame}, heap[currentVideoStreamId].fits)
              /\ made' = made + 2
              /\ vmObjIds' = Listed(vmObjIds, {frame})
              /\ frames' = frames \union Picked(frame)
              /\ UNCHANGED fault
  /\ UNCHANGED <<abandoned, vm, currentIds, images, freed, gifBuffer>>

(* When they find none: the stream was closed, or decoding failed.         *)
PickFindsNothing ==
  /\ Ready
  /\ currentVideoStreamId # 0
  /\ frames' = frames \union Picked(0)
  /\ UNCHANGED <<abandoned, heap, made, vm, vmObjIds, currentIds, images, freed, gifBuffer, fault>>

(* videoDecoderFreeVideoFrame: the image goes with the frame.              *)
FreeVideoFrame(frame) ==
  /\ Ready
  /\ currentVideoStreamId # 0
  /\ InternalFreeObjIds({frame.frameId})
  /\ frames' = frames \ {frame}
  /\ images' = images \ {frame.imageId}
  /\ UNCHANGED <<abandoned, made, vm, currentIds, freed, gifBuffer>>

(* videoDecoderCloseVideoStream: the ids stay current.                     *)
CloseVideoStream ==
  /\ Ready
  /\ currentVideoStreamId # 0
  /\ InternalFreeObjIds({currentInputStreamId, currentVideoStreamId})
  /\ UNCHANGED <<abandoned, made, vm, currentIds, clientVars>>

(* gifEncoderBegin.  The extents are looked at after the builder is made:  *)
(* with an extent of 0 the call throws and the builder stays current.      *)
GifEncoderBegin ==
  /\ Ready
  /\ currentGifBuilderId = 0
  /\ HasRoom(1)
  /\ heap' = [heap EXCEPT ![made + 1] = Plain("GifBuilder")]
  /\ made' = made + 1
  /\ currentGifBuilderId' = made + 1
  /\ vmObjIds' = Listed(vmObjIds, {made + 1})
  /\ UNCHANGED <<abandoned, vm, currentInputStreamBufferId, currentInputStreamId, currentVideoStreamId,
                 clientVars, fault>>

(* gifEncoderAddImage reads the image's extent first.                      *)
GifEncoderAddImage(image) ==
  /\ Ready
  /\ currentGifBuilderId # 0
  /\ fault' = IF Finds(heap, image, "Image") THEN fault ELSE "null"
  /\ UNCHANGED <<abandoned, heap, made, vm, vmObjIds, currentIds, clientVars>>

(* mutant: the line that is commented out in the source.                   *)
FreedAtEnd(gif) == {currentGifBuilderId, gif}

(* gifEncoderEnd frees the builder and leaves the GIF's buffer: the array  *)
(* it returns is a view of that buffer's memory.                           *)
FreedByEnd(gif) == {currentGifBuilderId}

GifEncoderEnd ==
  /\ Ready
  /\ currentGifBuilderId # 0
  /\ HasRoom(1)
  /\ LET gif    == made + 1
         h      == [heap EXCEPT ![gif] = Plain("Buffer")]
         toFree == FreedByEnd(gif)
     IN  /\ heap' = Destroy(h, Freeable(h, toFree))
         /\ vmObjIds' = Unlisted(Listed(vmObjIds, {gif}), toFree)
         /\ gifBuffer' = gif
         /\ made' = gif
         /\ fault' = IF Finds(heap, currentGifBuilderId, "GifBuilder") THEN fault ELSE "null"
  /\ currentGifBuilderId' = 0
  /\ UNCHANGED <<abandoned, vm, currentInputStreamBufferId, currentInputStreamId, currentVideoStreamId,
                 images, freed, frames>>

(* mutant: the client does not look whether the image is the frame's.      *)
FreesAnyImage(image) == TRUE

(* if (frame!.imageId != resizedImg): the client leaves an image to its    *)
(* frame.                                                                  *)
MayFreeImage(image) == image \notin FrameImages

(* The client frees an image, also one that it has freed by another name   *)
(* (imageResize returned the image itself).                                *)
FreeImage(image) ==
  /\ Ready
  /\ MayFreeImage(image)
  /\ InternalFreeObjIds({image})
  /\ images' = images \ {image}
  /\ freed' = freed \union {image}
  /\ UNCHANGED <<abandoned, made, vm, currentIds, frames, gifBuffer>>

Next ==
  \/ Deinit
  \/ \E loads, fits \in BOOLEAN : ImageLoadFromFileBuffer(loads, fits)
  \/ \E image \in images \union FrameImages : ImageResize(image) \/ GifEncoderAddImage(image)
  \/ \E image \in images \union freed : FreeImage(image)
  \/ \E fits \in BOOLEAN : OpenVideoStream(fits)
  \/ \E recognised \in BOOLEAN : OpenVideoStreamFails(recognised)
  \/ \E fits \in BOOLEAN : OpenVideoStreamThrows(fits)
  \/ \E n \in 0 .. MaxPrepared : PrepareFrames(n)
  \/ \E fromPrepared \in BOOLEAN : PickVideoFrame(fromPrepared)
  \/ PickFindsNothing
  \/ \E frame \in frames : FreeVideoFrame(frame)
  \/ CloseVideoStream
  \/ GifEncoderBegin
  \/ GifEncoderEnd

Spec == Init /\ [][Next]_vars

-----------------------------------------------------------------------------
(* Properties                                                              *)

Living == {i \in Id : heap[i] # Gone}

(* Every variable has its type.                                            *)
TypeOK ==
  /\ heap \in [Id -> Object \union {Gone}]
  /\ made \in 0 .. MaxObjects
  /\ vm \in BOOLEAN
  /\ vmObjIds \subseteq Id \union {0}
  /\ {currentGifBuilderId, currentInputStreamBufferId, currentInputStreamId,
      currentVideoStreamId, gifBuffer} \subseteq Id \union {0}
  /\ images \subseteq Id /\ freed \subseteq Id
  /\ frames \subseteq Frame
  /\ abandoned \subseteq Id
  /\ fault \in {"none", "null", "dangling", "heap corrupted"}

(* In whatever order images, frames, streams and the encoder are used and  *)
(* freed, also with several streams open and after openings that failed,   *)
(* C++ never reads through a null or a dangling pointer.  It is said of a  *)
(* client that leaves the image of a frame to the frame (MayFreeImage) and *)
(* has a file FFmpeg recognises: opening another frees memory twice, which *)
(* ends the session with a fault of its own.                               *)
NoBadPointer == fault \in {"none", "heap corrupted"}

(* An object is owned once: by a C++ object, or by the client through the  *)
(* free list.                                                              *)
OwnedOnce ==
  \A i \in Living : /\ heap[i].owns \subseteq Living
                    /\ \A j \in Living \ {i} : heap[i].owns \intersect heap[j].owns = {}
                    /\ heap[i].owns \intersect vmObjIds = {}

(* The free list names living objects, so that freeing it would not free   *)
(* what a slot was used for later.                                         *)
ListedLive == vmObjIds \ {0} \subseteq Living

(* Every object can still be freed: it is listed, or owned by another, or  *)
(* the current video stream, which the wrapper does not list.  Lost are    *)
(* only video streams: those whose opening trapped, and those that were    *)
(* open when the client opened another; with them what they own, but not   *)
(* the buffer and the input stream they read.                              *)
NothingForgotten ==
  \A i \in Living : \/ i \in vmObjIds
                    \/ \E j \in Living : i \in heap[j].owns
                    \/ /\ heap[i].type = "VideoStream"
                       /\ i = currentVideoStreamId \/ i \in abandoned

(* A frame the client picked keeps its image until the client frees it,    *)
(* also when the stream prepares again or is closed.                       *)
PickedFramesKept ==
  \A f \in frames : f.frameId \in Living /\ f.imageId \in heap[f.frameId].owns \intersect Living

(* The memory of the GIF that gifEncoderEnd returned is there while the    *)
(* module is.                                                              *)
GifReadable == (vm /\ gifBuffer # 0) => Finds(heap, gifBuffer, "Buffer")
=============================================================================
