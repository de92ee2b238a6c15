------------------------------ MODULE GifLzwImage ------------------------------
(***************************************************************************)
(* GifWriteLzwImage (lib/gif.h) as a whole: the compression of GifLzw.tla  *)
(* hands every code to the bit writer of GifBits.tla, whose status lives   *)
(* as long as the image.                                                   *)
(***************************************************************************)
EXTENDS GifLzw, GifBits

VARIABLES
  stat,       (* GifBitStatus                                               *)
  buffer,     (* the bytes of the file since the image began                *)
  sent        (* history: the bits of the codes, in order                   *)

bitWriter == <<stat, buffer, sent>>
imageVars == <<vars, bitWriter>>

BitsOfCodes(cs) ==
  LET bits[n \in 0 .. Len(cs)] ==
        IF n = 0 THEN <<>> ELSE bits[n - 1] \o BitsOf(cs[n].code, cs[n].size)
  IN  bits[Len(cs)]

(* The first code clears the viewer's dictionary.                          *)
ImageInit ==
  /\ Init
  /\ LET first == WriteBits(EmptyStat, BitsOfCodes(codes))
     IN  stat = first.stat /\ buffer = first.out
  /\ sent = BitsOfCodes(codes)

(* One GifWriteCode for each of the codes.                                 *)
SendCodes(cs) ==
  /\ LET done == WriteBits(stat, BitsOfCodes(cs))
     IN  stat' = done.stat /\ buffer' = buffer \o done.out
  /\ sent' = sent \o BitsOfCodes(cs)

(* The last codes, what is left of a byte and a chunk, and the terminator. *)
SendLast(cs) ==
  /\ LET done == WriteBits(stat, BitsOfCodes(cs))
     IN  buffer' = buffer \o done.out \o LastChunk(Filled(done.stat)) \o <<0>>
  /\ stat' = EmptyStat
  /\ sent' = sent \o BitsOfCodes(cs)

TakePixel(value) ==
  \/ ExtendRun(value) /\ UNCHANGED bitWriter
  \/ WriteRun(value) /\ SendCodes(codes')

EndImage == WriteFooter /\ SendLast(codes')

View == Reads /\ UNCHANGED bitWriter

ImageNext ==
  \/ \E value \in 0 .. ClearCode - 1 : TakePixel(value)
  \/ EndImage
  \/ View

ImageSpec == ImageInit /\ [][ImageNext]_imageVars

(* The viewer reads what is written.                                       *)
FairImageSpec == ImageSpec /\ WF_imageVars(View)

-----------------------------------------------------------------------------
(* Properties                                                              *)

(* Every variable has its type: what is put into the file is a byte, and   *)
(* the chunk in progress is not full between two codes.                    *)
ImageTypeOK ==
  /\ TypeOK
  /\ stat \in Stat /\ Len(stat.chunk) < ChunkBytes
  /\ buffer \in Seq(Byte)
  /\ sent \in Seq(Bit)

(* However the codes fall on the boundaries of bytes and chunks, a viewer  *)
(* reads the bits of all of them, in order, and then less than a byte of   *)
(* zeros.                                                                  *)
CodesSurvive ==
  written =>
    LET read == BitsOfBytes(ReadImage(buffer).bytes)
    IN  /\ Len(read) - Len(sent) \in 0 .. ByteBits - 1
        /\ \A i \in 1 .. Len(read) : read[i] = IF i <= Len(sent) THEN sent[i] ELSE 0

(* The image ends where the viewer thinks it ends: no chunk in it is empty,*)
(* and nothing of it is left over that would be read as the next block.    *)
EndsWhereRead == written => ReadImage(buffer).next = Len(buffer) + 1
=============================================================================
