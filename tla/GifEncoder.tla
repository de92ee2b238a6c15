------------------------------ MODULE GifEncoder ------------------------------
(***************************************************************************)
(* A GifBuilder (GifBuilderGIFH, lib/GifToolsImage.cc) over the GifWriter  *)
(* of lib/gif.h: a GIF is begun with the builder, images are added, it is  *)
(* ended once.  A frame holds only what differs from what the frame before *)
(* shows, the rest of it is transparent; the viewer lays it over what it   *)
(* has.  The encoder keeps what the viewer has in oldImage.                *)
(*                                                                         *)
(* A colour is a number.  The viewer gets the palette and the indices of a *)
(* frame when it is written: GifLzwImage.tla is about the way there.       *)
(* GifMakePalette's choice is any palette: nothing here depends on which   *)
(* colours it picks.                                                       *)
(***************************************************************************)
EXTENDS Integers, Sequences

CONSTANTS
  Pixel,          (* the pixels of an image                                 *)
  Colors,         (* numbers                                                *)
  Indices,        (* of the palette but kGifTransIndex: 1 .. 255            *)
  Delays,         (* delays asked for                                       *)
  DelayModulus,   (* 2^16: a delay has two bytes in the file                *)
  MaxFrames,      (* bound: images added                                    *)
  Nil             (* no oldImage                                            *)

kGifTransIndex == 0

ASSUME EncoderAssumption ==
  /\ Pixel # {} /\ Colors \subseteq Nat
  /\ Indices # {} /\ kGifTransIndex \notin Indices
  /\ Delays \subseteq Nat /\ DelayModulus \in Nat \ {0}
  /\ MaxFrames \in Nat

Picture == [Pixel -> Colors]
ASSUME NilAssumption == Nil \notin Picture

VARIABLES
  open,           (* fileBuffer->stream is not null                         *)
  firstFrame,
  oldImage,       (* Nil when not allocated                                 *)
  contents,       (* the blocks of the file                                 *)
  returned,       (* what End() gave                                        *)
  canvas,         (* the viewer: what it shows, Nil where nothing was laid  *)
  accepted        (* history: the delays of the images AddImage took        *)

vars == <<open, firstFrame, oldImage, contents, returned, canvas, accepted>>

Palette == [Indices -> Colors]
Frame   == [Pixel -> Indices \union {kGifTransIndex}]

Block(kind, delay) == [kind |-> kind, delay |-> delay]
HeaderBlock        == Block("header", 0)
LoopBlock          == Block("loop", 0)
TrailerBlock       == Block("trailer", 0)

Diff(c, d) == IF c < d THEN d - c ELSE c - d

(* GifBegin.  oldImage is allocated and not yet written: it has any value. *)
Begun(delay) == IF delay = 0 THEN <<HeaderBlock>> ELSE <<HeaderBlock, LoopBlock>>

Init ==
  /\ open = TRUE /\ firstFrame = TRUE
  /\ oldImage \in Picture
  /\ \E delay \in Delays : contents = Begun(delay)
  /\ returned = <<>> /\ accepted = <<>>
  /\ canvas = [p \in Pixel |-> Nil]

(* GifGetClosestPaletteColor: one of the closest, and never the index of   *)
(* the transparent pixel.                                                  *)
Closest(pal, c) == {i \in Indices : \A j \in Indices : Diff(pal[i], c) <= Diff(pal[j], c)}

(* What GifWriteFrame compares with: no image for the first frame.         *)
LastFrame(first, old) == IF first THEN Nil ELSE old

(* mutant: a pixel whose new colour is near enough is left as it is.       *)
NearlyUnchanged(last, image, p) == last # Nil /\ Diff(last[p], image[p]) <= 1

Unchanged(last, image, p) == last # Nil /\ last[p] = image[p]

(* GifThresholdImage: the indices it can choose.                           *)
Thresholded(last, image, pal) ==
  {f \in Frame :
     \A p \in Pixel : IF Unchanged(last, image, p) THEN f[p] = kGifTransIndex
                      ELSE f[p] \in Closest(pal, image[p])}

(* mutant: outFrame gets the colours that were asked for.                  *)
AskedColors(last, image, pal, indices) == image

(* The colours it leaves in outFrame, which is oldImage.                   *)
OutFrame(last, image, pal, indices) ==
  [p \in Pixel |-> IF indices[p] = kGifTransIndex THEN last[p] ELSE pal[indices[p]]]

(* The viewer lays a frame over what it has.                               *)
Laid(under, pal, indices) ==
  [p \in Pixel |-> IF indices[p] = kGifTransIndex THEN under[p] ELSE pal[indices[p]]]

(* mutant: the delay is not cut to two bytes.                              *)
WholeDelay(delay) == delay

DelayInFile(delay) == delay % DelayModulus

(* GifWriteFrame.                                                          *)
WriteFrame(image, delay, pal, indices) ==
  LET last == LastFrame(firstFrame, oldImage)
  IN  /\ indices \in Thresholded(last, image, pal)
      /\ firstFrame' = FALSE
      /\ oldImage' = OutFrame(last, image, pal, indices)
      /\ contents' = Append(contents, Block("frame", DelayInFile(delay)))
      /\ canvas' = Laid(canvas, pal, indices)

(* AddImage with an image of the extent given to Begin (the TypeScript     *)
(* wrapper asserts that it is).                                            *)
AddImage(image, delay, pal, indices) ==
  /\ Len(accepted) < MaxFrames
  /\ delay # 0 /\ open
  /\ accepted' = Append(accepted, delay)
  /\ WriteFrame(image, delay, pal, indices)
  /\ UNCHANGED <<open, returned>>

(* AddImage gives false: no delay, pixels of another format, or after End. *)
RefuseImage(delay, rgba) ==
  /\ delay = 0 \/ ~rgba \/ ~open
  /\ UNCHANGED vars

(* mutant: stream = NULL is left out.                                      *)
StaysOpen == open

OpenAfterEnd == FALSE

(* End.  The contents are moved out, oldImage is freed.  The second call   *)
(* gives no buffer.                                                        *)
End ==
  /\ IF ~open
     THEN UNCHANGED <<open, oldImage, contents, returned>>
     ELSE /\ open' = OpenAfterEnd
          /\ oldImage' = Nil
          /\ returned' = returned \o contents \o <<TrailerBlock>>
          /\ contents' = <<>>
  /\ UNCHANGED <<firstFrame, canvas, accepted>>

Next ==
  \/ \E image \in Picture, delay \in Delays, pal \in Palette, indices \in Frame :
       AddImage(image, delay, pal, indices)
  \/ \E delay \in Delays, rgba \in BOOLEAN : RefuseImage(delay, rgba)
  \/ End

Spec == Init /\ [][Next]_vars

-----------------------------------------------------------------------------
(* Properties                                                              *)

(* Every variable has its type.                                            *)
TypeOK ==
  /\ open \in BOOLEAN /\ firstFrame \in BOOLEAN
  /\ oldImage \in Picture \union {Nil}
  /\ {contents, returned} \subseteq
       Seq([kind : {"header", "loop", "frame", "trailer"}, delay : 0 .. DelayModulus - 1])
  /\ canvas \in [Pixel -> Colors \union {Nil}]
  /\ accepted \in Seq(Delays \ {0})

(* The encoder knows what the viewer has: from the first frame on oldImage *)
(* is what the frames written so far show, so that what it leaves          *)
(* transparent is what was meant to stay.                                  *)
ViewerShowsOldImage == (open /\ ~firstFrame) => canvas = oldImage

(* Every pixel that is shown after an image was added is the image's, or   *)
(* as near to it as the frame's palette has one, whatever was shown        *)
(* before: errors do not add up from frame to frame.                       *)
ShownFaithfully ==
  [][\A image \in Picture, delay \in Delays, pal \in Palette, indices \in Frame :
       AddImage(image, delay, pal, indices) =>
         \A p \in Pixel :
           /\ canvas'[p] \in Colors
           /\ \A i \in Indices : Diff(canvas'[p], image[p]) <= Diff(pal[i], image[p])]_vars

Frames == [i \in 1 .. Len(accepted) |-> Block("frame", accepted[i] % DelayModulus)]

Written == returned \o contents

(* The file is its header, at most once the block that makes it loop, a    *)
(* frame for every image that was taken, in order and with what two bytes  *)
(* hold of its delay, and one trailer if it was ended, with nothing behind *)
(* it, in whatever order the calls come.                                   *)
EndedOnce ==
  \E start \in {<<HeaderBlock>>, <<HeaderBlock, LoopBlock>>} :
    Written = start \o Frames \o (IF open THEN <<>> ELSE <<TrailerBlock>>)

FramesWritten == SelectSeq(Written, LAMBDA b : b.kind = "frame")

(* What a viewer makes of a delay: it is in hundredths of a second.        *)
MillisecondsShown(block) == 10 * block.delay

(* src/index.ts: the delay of gifEncoderAddImage is in milliseconds.  So   *)
(* each frame is shown, to the hundredth of a second that a GIF can say.   *)
DelaysInMilliseconds ==
  \A i \in 1 .. Len(FramesWritten) :
    Diff(MillisecondsShown(FramesWritten[i]), accepted[i]) < 10

(* oldImage is there whenever the writer would use it, and freed once.     *)
OldImageWhileOpen == open <=> oldImage # Nil
=============================================================================
