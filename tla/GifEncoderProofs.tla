--------------------------- MODULE GifEncoderProofs ---------------------------
(***************************************************************************)
(* Theorems about the GIF builder and writer: for any set of pixels, any   *)
(* colours, palette entries and delays, and any number of images.          *)
(***************************************************************************)
EXTENDS GifEncoder, TLAPS

BlockType == [kind : {"header", "loop", "frame", "trailer"}, delay : 0 .. DelayModulus - 1]

(* The contents are with the writer until the file is closed, and with    *)
(* the client from there on.                                               *)
ContentsInOnePlace == IF open THEN returned = <<>> ELSE contents = <<>>

Starts == {<<HeaderBlock>>, <<HeaderBlock, LoopBlock>>}

IInv ==
  /\ TypeOK
  /\ OldImageWhileOpen
  /\ ViewerShowsOldImage
  /\ ContentsInOnePlace
  /\ EndedOnce

-----------------------------------------------------------------------------
(* Colours and frames.                                                     *)

(* Nothing is nearer to a colour than itself.                              *)
LEMMA NearestToItself ==
  ASSUME NEW c \in Colors, NEW d \in Colors
  PROVE  Diff(c, c) <= Diff(d, c)
BY EncoderAssumption DEF Diff

(* A frame written by the encoder shows, at every pixel, a colour of its   *)
(* palette, unless the pixel is transparent: then there is an image before *)
(* it, with the colour asked for.                                          *)
LEMMA TransparentIsUnchanged ==
  ASSUME NEW last, NEW image, NEW pal \in Palette,
         NEW indices \in Thresholded(last, image, pal), NEW p \in Pixel
  PROVE  IF indices[p] = kGifTransIndex
         THEN last # Nil /\ last[p] = image[p]
         ELSE indices[p] \in Closest(pal, image[p])
<1>1. Closest(pal, image[p]) \subseteq Indices
  BY DEF Closest
<1>2. kGifTransIndex \notin Closest(pal, image[p])
  BY <1>1, EncoderAssumption
<1>3. IF Unchanged(last, image, p) THEN indices[p] = kGifTransIndex
      ELSE indices[p] \in Closest(pal, image[p])
  BY DEF Thresholded
<1> QED
  BY <1>2, <1>3 DEF Unchanged

(* What the encoder keeps of a frame is a picture.                         *)
LEMMA OutFrameIsPicture ==
  ASSUME NEW last \in Picture \union {Nil}, NEW image \in Picture, NEW pal \in Palette,
         NEW indices \in Thresholded(last, image, pal)
  PROVE  OutFrame(last, image, pal, indices) \in Picture
<1>1. SUFFICES ASSUME NEW p \in Pixel
               PROVE  (IF indices[p] = kGifTransIndex THEN last[p] ELSE pal[indices[p]]) \in Colors
  BY DEF OutFrame, Picture
<1>2. CASE indices[p] = kGifTransIndex
  <2>1. last \in Picture
    BY <1>2, TransparentIsUnchanged
  <2> QED
    BY <1>2, <2>1 DEF Picture
<1>3. CASE indices[p] # kGifTransIndex
  <2>1. indices[p] \in Indices
    BY <1>3, TransparentIsUnchanged DEF Closest
  <2> QED
    BY <1>3, <2>1 DEF Palette
<1> QED
  BY <1>2, <1>3

(* The viewer and the encoder end a frame with the same picture, if they   *)
(* began with the same, or if there was none.                              *)
LEMMA LaidIsOutFrame ==
  ASSUME NEW under, NEW last, NEW image, NEW pal \in Palette,
         NEW indices \in Thresholded(last, image, pal),
         last = Nil \/ under = last
  PROVE  Laid(under, pal, indices) = OutFrame(last, image, pal, indices)
<1>1. \A p \in Pixel : indices[p] = kGifTransIndex => under[p] = last[p]
  BY TransparentIsUnchanged
<1> QED
  BY <1>1 DEF Laid, OutFrame

-----------------------------------------------------------------------------
(* The invariant holds initially.                                          *)

(* The blocks are of their type.                                           *)
LEMMA BlockTypes ==
  /\ {HeaderBlock, LoopBlock, TrailerBlock} \subseteq BlockType
  /\ \A delay \in Nat : Block("frame", delay % DelayModulus) \in BlockType
<1>1. \A delay \in Nat : delay % DelayModulus \in 0 .. DelayModulus - 1
  BY EncoderAssumption
<1> QED
  BY <1>1, EncoderAssumption DEF HeaderBlock, LoopBlock, TrailerBlock, Block, BlockType

(* A file starts with blocks.                                              *)
LEMMA StartTypes == Starts \subseteq Seq(BlockType)
<1>1. HeaderBlock \in BlockType /\ LoopBlock \in BlockType
  BY BlockTypes
<1>2. <<HeaderBlock>> \in Seq(BlockType) /\ <<HeaderBlock, LoopBlock>> \in Seq(BlockType)
  BY <1>1
<1> QED
  BY <1>2 DEF Starts

(* GifBegin writes one of the starts.                                      *)
LEMMA BegunStarts ==
  ASSUME NEW delay \in Delays
  PROVE  Begun(delay) \in Starts /\ Begun(delay) \in Seq(BlockType)
BY StartTypes DEF Begun, Starts

(* There is no file in the beginning.                                      *)
LEMMA InitIInv == Init => IInv
<1> SUFFICES ASSUME Init PROVE IInv
  OBVIOUS
<1>1. PICK delay \in Delays : contents = Begun(delay)
  BY DEF Init
<1>2. TypeOK
  <2>1. contents \in Seq(BlockType) /\ returned \in Seq(BlockType)
    BY <1>1, BegunStarts DEF Init
  <2> QED
    BY <2>1 DEF Init, TypeOK, BlockType
<1>3. OldImageWhileOpen
  BY NilAssumption DEF Init, OldImageWhileOpen
<1>4. ViewerShowsOldImage
  BY DEF Init, ViewerShowsOldImage
<1>5. ContentsInOnePlace
  BY DEF Init, ContentsInOnePlace
<1>6. EndedOnce
  <2>1. Frames = <<>> /\ returned = <<>> /\ open
    BY DEF Init, Frames
  <2>2. Begun(delay) = Begun(delay) \o <<>> \o <<>>
    BY BegunStarts
  <2>3. Written = Begun(delay) \o Frames \o <<>>
    BY <1>1, <2>1, <2>2, BegunStarts DEF Written
  <2> QED
    BY <2>1, <2>3, BegunStarts DEF EndedOnce, Starts
<1> QED
  BY <1>2, <1>3, <1>4, <1>5, <1>6 DEF IInv

-----------------------------------------------------------------------------
(* The frames of the images taken.                                         *)

(* They are blocks.                                                        *)
LEMMA FramesType ==
  ASSUME accepted \in Seq(Delays \ {0})
  PROVE  Frames \in Seq(BlockType) /\ Len(Frames) = Len(accepted)
<1>1. \A i \in 1 .. Len(accepted) : accepted[i] \in Nat
  <2>1. \A i \in 1 .. Len(accepted) : accepted[i] \in Delays \ {0}
    OBVIOUS
  <2> QED
    BY <2>1, EncoderAssumption
<1>2. \A i \in 1 .. Len(accepted) : Block("frame", accepted[i] % DelayModulus) \in BlockType
  BY <1>1, BlockTypes
<1> QED
  BY <1>2 DEF Frames

(* One more image is one more frame.                                       *)
LEMMA FramesGrow ==
  ASSUME accepted \in Seq(Delays \ {0}), NEW delay \in Delays \ {0},
         accepted' = Append(accepted, delay)
  PROVE  Frames' = Append(Frames, Block("frame", delay % DelayModulus))
<1> DEFINE frame(d) == Block("frame", d % DelayModulus)
<1>1. /\ Len(accepted') = Len(accepted) + 1
      /\ \A i \in 1 .. Len(accepted') :
           accepted'[i] = IF i = Len(accepted) + 1 THEN delay ELSE accepted[i]
  OBVIOUS
<1>2. Frames \in Seq(BlockType) /\ Len(Frames) = Len(accepted) /\ frame(delay) \in BlockType
  BY FramesType, BlockTypes, EncoderAssumption
<1>3. Frames = [i \in 1 .. Len(accepted) |-> frame(accepted[i])]
  BY DEF Frames
<1>4. Frames' = [i \in 1 .. Len(accepted) + 1 |-> frame(accepted'[i])]
  BY <1>1 DEF Frames
<1> HIDE DEF frame
<1>5. Frames' = [i \in 1 .. Len(accepted) + 1 |->
                   IF i = Len(accepted) + 1 THEN frame(delay) ELSE frame(accepted[i])]
  BY <1>1, <1>4
<1>6. Frames' = Append(Frames, frame(delay))
  BY <1>2, <1>3, <1>5
<1> QED
  BY <1>6 DEF frame

-----------------------------------------------------------------------------
(* One lemma for each of the calls.                                        *)

(* A frame is added: what it leaves transparent is on the canvas           *)
(* already.                                                                *)
LEMMA AddImageIInv ==
  ASSUME IInv, NEW image \in Picture, NEW delay \in Delays, NEW pal \in Palette,
         NEW indices \in Frame, AddImage(image, delay, pal, indices)
  PROVE  IInv'
<1> DEFINE last == LastFrame(firstFrame, oldImage)
           block == Block("frame", DelayInFile(delay))
<1>1. /\ open /\ open' = open /\ returned' = returned
      /\ indices \in Thresholded(last, image, pal)
      /\ firstFrame' = FALSE
      /\ oldImage' = OutFrame(last, image, pal, indices)
      /\ contents' = Append(contents, block)
      /\ canvas' = Laid(canvas, pal, indices)
      /\ accepted' = Append(accepted, delay)
      /\ delay # 0
  BY DEF AddImage, WriteFrame
<1>2. last \in Picture \union {Nil}
  BY DEF LastFrame, IInv, TypeOK
<1>3. last = Nil \/ canvas = last
  BY <1>1 DEF LastFrame, IInv, ViewerShowsOldImage
<1>4. oldImage' \in Picture
  BY <1>1, <1>2, OutFrameIsPicture
<1>5. canvas' = oldImage'
  BY <1>1, <1>3, LaidIsOutFrame
<1>6. block \in BlockType /\ block.kind = "frame"
  <2>1. delay % DelayModulus \in 0 .. DelayModulus - 1
    BY EncoderAssumption
  <2> QED
    BY <2>1 DEF Block, DelayInFile, BlockType
<1>7. contents \in Seq(BlockType) /\ returned \in Seq(BlockType) /\ accepted \in Seq(Delays \ {0})
  BY DEF IInv, TypeOK, BlockType
<1>8. TypeOK'
  <2>1. contents' \in Seq(BlockType)
    BY <1>1, <1>6, <1>7
  <2>2. canvas' \in [Pixel -> Colors \union {Nil}]
    BY <1>4, <1>5 DEF Picture
  <2>3. accepted' \in Seq(Delays \ {0})
    BY <1>1, <1>7
  <2> QED
    BY <1>1, <1>4, <1>7, <2>1, <2>2, <2>3 DEF TypeOK, BlockType
<1>9. OldImageWhileOpen'
  BY <1>1, <1>4, NilAssumption DEF OldImageWhileOpen
<1>10. ViewerShowsOldImage'
  BY <1>5 DEF ViewerShowsOldImage
<1>11. ContentsInOnePlace'
  BY <1>1 DEF ContentsInOnePlace, IInv
<1>12. EndedOnce'
  <2>1. PICK start \in Starts : Written = start \o Frames \o <<>>
    BY <1>1 DEF IInv, EndedOnce, Starts
  <2>2. start \in Seq(BlockType) /\ Frames \in Seq(BlockType)
    BY <1>7, StartTypes, FramesType
  <2>3. Frames' = Append(Frames, block)
    BY <1>1, <1>7, FramesGrow DEF DelayInFile
  <2>4. returned = <<>>
    BY <1>1 DEF IInv, ContentsInOnePlace
  <2>5. contents = start \o Frames
    BY <1>7, <2>1, <2>2, <2>4 DEF Written
  <2>6. contents' = start \o Append(Frames, block) \o <<>>
    <3>1. Append(start \o Frames, block) = start \o Append(Frames, block)
      BY <1>6, <2>2
    <3>2. start \o Append(Frames, block) \in Seq(BlockType)
      BY <1>6, <2>2
    <3>3. \A s \in Seq(BlockType) : s = s \o <<>>
      OBVIOUS
    <3> QED
      BY <1>1, <2>5, <3>1, <3>2, <3>3
  <2>7. Written' = contents'
    BY <1>1, <1>6, <1>7, <2>4 DEF Written
  <2> QED
    BY <1>1, <2>3, <2>6, <2>7 DEF EndedOnce, Starts
<1> QED
  BY <1>8, <1>9, <1>10, <1>11, <1>12 DEF IInv

(* The file is closed, or there was none.                                  *)
LEMMA EndIInv == IInv /\ End => IInv'
<1> SUFFICES ASSUME IInv, End PROVE IInv'
  OBVIOUS
<1>1. contents \in Seq(BlockType) /\ returned \in Seq(BlockType)
  BY DEF IInv, TypeOK, BlockType
<1>2. CASE ~open
  BY <1>2 DEF End, IInv, TypeOK, OldImageWhileOpen, ViewerShowsOldImage, ContentsInOnePlace,
              EndedOnce, Written, Frames
<1>3. CASE open
  <2>1. /\ open' = FALSE /\ oldImage' = Nil /\ contents' = <<>>
        /\ returned' = returned \o contents \o <<TrailerBlock>>
        /\ UNCHANGED <<firstFrame, canvas, accepted>>
    BY <1>3 DEF End, OpenAfterEnd
  <2>2. returned = <<>>
    BY <1>3 DEF IInv, ContentsInOnePlace
  <2>3. PICK start \in Starts : Written = start \o Frames \o <<>>
    BY <1>3 DEF IInv, EndedOnce, Starts
  <2>4. start \in Seq(BlockType) /\ Frames \in Seq(BlockType) /\ TrailerBlock \in BlockType
    BY BlockTypes, StartTypes, FramesType DEF IInv, TypeOK
  <2>5. contents = start \o Frames
    BY <1>1, <2>2, <2>3, <2>4 DEF Written
  <2>6. returned' = start \o Frames \o <<TrailerBlock>> /\ returned' \in Seq(BlockType)
    BY <1>1, <2>1, <2>2, <2>4, <2>5
  <2>7. TypeOK'
    <3>1. /\ firstFrame' \in BOOLEAN /\ canvas' \in [Pixel -> Colors \union {Nil}]
          /\ accepted' \in Seq(Delays \ {0})
      BY <2>1 DEF IInv, TypeOK
    <3>2. contents' \in Seq(BlockType)
      BY <2>1
    <3> QED
      BY <2>1, <2>6, <3>1, <3>2 DEF TypeOK, BlockType
  <2>8. EndedOnce'
    <3>1. Written' = returned' /\ Frames' = Frames
      BY <2>1, <2>6 DEF Written, Frames
    <3> QED
      BY <2>1, <2>6, <3>1 DEF EndedOnce, Starts
  <2> QED
    BY <2>1, <2>7, <2>8 DEF IInv, OldImageWhileOpen, ViewerShowsOldImage, ContentsInOnePlace
<1> QED
  BY <1>2, <1>3

(* Every step keeps the invariant.                                         *)
LEMMA StepIInv == IInv /\ [Next]_vars => IInv'
<1> SUFFICES ASSUME IInv, [Next]_vars PROVE IInv'
  OBVIOUS
<1>1. ASSUME NEW image \in Picture, NEW delay \in Delays, NEW pal \in Palette,
             NEW indices \in Frame, AddImage(image, delay, pal, indices)
      PROVE  IInv'
  BY <1>1, AddImageIInv
<1>2. CASE End
  BY <1>2, EndIInv
<1>3. CASE UNCHANGED vars
  BY <1>3 DEF vars, IInv, TypeOK, OldImageWhileOpen, ViewerShowsOldImage, ContentsInOnePlace,
              EndedOnce, Written, Frames
<1>4. ASSUME NEW delay \in Delays, NEW rgba \in BOOLEAN, RefuseImage(delay, rgba)
      PROVE  IInv'
  BY <1>3, <1>4 DEF RefuseImage
<1> QED
  BY <1>1, <1>2, <1>3, <1>4 DEF Next

(* The invariant always holds.                                             *)
LEMMA AlwaysIInv == Spec => []IInv
BY InitIInv, StepIInv, PTL DEF Spec

-----------------------------------------------------------------------------
(* The theorems.                                                           *)

(* The encoder's state has its types whatever is called.                   *)
THEOREM EncoderTypes == Spec => []TypeOK
<1>1. IInv => TypeOK
  BY DEF IInv
<1> QED
  BY <1>1, AlwaysIInv, PTL

(* GifWriteFrame and GifEnd use and free oldImage only while it is there.  *)
THEOREM OldImageIsThere == Spec => []OldImageWhileOpen
<1>1. IInv => OldImageWhileOpen
  BY DEF IInv
<1> QED
  BY <1>1, AlwaysIInv, PTL

(* What the encoder compares the next image with is what the viewer shows. *)
THEOREM ViewerInStep == Spec => []ViewerShowsOldImage
<1>1. IInv => ViewerShowsOldImage
  BY DEF IInv
<1> QED
  BY <1>1, AlwaysIInv, PTL

(* The file has its header, the frames of the images that were taken and   *)
(* one trailer, in this order, whatever is called.                         *)
THEOREM FileInOrder == Spec => []EndedOnce
<1>1. IInv => EndedOnce
  BY DEF IInv
<1> QED
  BY <1>1, AlwaysIInv, PTL

(* After an image was added the viewer shows it as nearly as the frame's   *)
(* palette allows, whatever was shown before.                              *)
THEOREM FrameIsShown == Spec => ShownFaithfully
<1> DEFINE Shown ==
      \A image \in Picture, delay \in Delays, pal \in Palette, indices \in Frame :
        AddImage(image, delay, pal, indices) =>
          \A p \in Pixel :
            /\ canvas'[p] \in Colors
            /\ \A i \in Indices : Diff(canvas'[p], image[p]) <= Diff(pal[i], image[p])
<1>1. IInv => Shown
  <2> SUFFICES ASSUME IInv,
                      NEW image \in Picture, NEW delay \in Delays, NEW pal \in Palette,
                      NEW indices \in Frame, AddImage(image, delay, pal, indices),
                      NEW p \in Pixel
               PROVE  /\ canvas'[p] \in Colors
                      /\ \A i \in Indices : Diff(canvas'[p], image[p]) <= Diff(pal[i], image[p])
    OBVIOUS
  <2> DEFINE last == LastFrame(firstFrame, oldImage)
  <2>1. open /\ indices \in Thresholded(last, image, pal)
        /\ canvas' = Laid(canvas, pal, indices)
    BY DEF AddImage, WriteFrame
  <2>2. image[p] \in Colors /\ \A i \in Indices : pal[i] \in Colors
    BY DEF Picture, Palette
  <2>3. CASE indices[p] = kGifTransIndex
    <3>1. last # Nil /\ last[p] = image[p]
      BY <2>1, <2>3, TransparentIsUnchanged
    <3>2. canvas = last
      BY <2>1, <3>1 DEF LastFrame, IInv, ViewerShowsOldImage
    <3>3. canvas'[p] = image[p]
      BY <2>1, <2>3, <3>1, <3>2 DEF Laid
    <3> QED
      BY <2>2, <3>3, NearestToItself
  <2>4. CASE indices[p] # kGifTransIndex
    <3>1. indices[p] \in Closest(pal, image[p])
      BY <2>1, <2>4, TransparentIsUnchanged
    <3>2. canvas'[p] = pal[indices[p]]
      BY <2>1, <2>4 DEF Laid
    <3> QED
      BY <2>2, <3>1, <3>2 DEF Closest
  <2> QED
    BY <2>3, <2>4
<1>2. IInv /\ [Next]_vars => [Shown]_vars
  BY <1>1
<1> QED
  BY <1>2, AlwaysIInv, PTL DEF Spec, ShownFaithfully
=============================================================================
