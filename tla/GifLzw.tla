-------------------------------- MODULE GifLzw --------------------------------
(***************************************************************************)
(* The compression of GifWriteLzwImage (lib/gif.h), with a viewer at the   *)
(* other end.  The encoder and the decoder of a GIF never exchange the     *)
(* dictionary nor the width of a code: each builds its own, and the image  *)
(* survives only if they stay in step, through every change of the width   *)
(* and every time the dictionary is full.                                  *)
(*                                                                         *)
(* A code is written with the number of bits it is written in.  The viewer *)
(* reads each code as soon as it is written; it shares nothing with the    *)
(* encoder, so reading later makes no difference.                          *)
(***************************************************************************)
EXTENDS Integers, Sequences

CONSTANTS
  BitDepth,       (* of the palette: 8 in the code                         *)
  MaxBits,        (* of a code: 12 in the code                             *)
  Images          (* the palette indices of an image, row by row           *)

ASSUME LzwAssumption ==
  /\ BitDepth \in Nat /\ BitDepth >= 2
  /\ MaxBits \in Nat /\ MaxBits > BitDepth
  /\ \A image \in Images : image \in Seq(0 .. 2^BitDepth - 1) /\ image # <<>>
(* What powers of two are: an entry one over a barrier has a bit more.     *)
ASSUME PowersAssumption ==
  \A n \in 0 .. MaxBits : 2^n \in Nat /\ 2^(n + 1) = 2 * 2^n

ClearCode   == 2^BitDepth
EndCode     == ClearCode + 1
LastCode    == 2^MaxBits - 1       (* 4095                                  *)
MinCodeSize == BitDepth

VARIABLES
  image,
  count,        (* pixels taken so far                                      *)
  curCode,      (* the code of the current run, -1 for none                 *)
  codetree,     (* [code, value -> code]: m_next where it is not 0          *)
  codeSize, maxCode,
  written,      (* whether the footer has been written                      *)
  codes,        (* codes on their way, [code, size]                         *)
  table,        (* the viewer: code -> pixels                               *)
  width,        (* the viewer: bits of the next code                        *)
  previous,     (* the viewer: the code before, -1 after a clear            *)
  shown,        (* the viewer: pixels of the image it has shown             *)
  garbled       (* the viewer has read something it cannot make sense of    *)

encoder == <<image, count, curCode, codetree, codeSize, maxCode, written>>
viewer  == <<table, width, previous, shown, garbled>>
vars    == <<encoder, codes, viewer>>

Code(c, size) == [code |-> c, size |-> size]

EmptyTree == [x \in {} |-> 0]
Roots     == [c \in 0 .. ClearCode - 1 |-> <<c>>]

Init ==
  /\ image \in Images
  /\ count = 0 /\ curCode = -1 /\ codetree = EmptyTree
  /\ codeSize = MinCodeSize + 1 /\ maxCode = ClearCode + 1
  /\ written = FALSE
  /\ codes = <<Code(ClearCode, MinCodeSize + 1)>>
  /\ table = Roots /\ width = MinCodeSize + 1 /\ previous = -1
  /\ shown = 0 /\ garbled = FALSE

-----------------------------------------------------------------------------
(* The encoder                                                             *)

Known(value) == <<curCode, value>> \in DOMAIN codetree

(* nextValue.                                                              *)
Takes(value) ==
  /\ ~written /\ codes = <<>> /\ count < Len(image)
  /\ value = image[count + 1]
  /\ count' = count + 1
  /\ UNCHANGED <<image, written, viewer>>

(* The pixel starts a run, or continues one the dictionary knows.          *)
ExtendRun(value) ==
  /\ Takes(value)
  /\ curCode < 0 \/ Known(value)
  /\ curCode' = IF curCode < 0 THEN value ELSE codetree[<<curCode, value>>]
  /\ UNCHANGED <<codetree, codeSize, maxCode, codes>>

(* mutant: one entry later.                                                *)
WiderOneLater(max, size) == IF max > 2^size THEN size + 1 ELSE size

(* The number of codes has broken a size barrier.                          *)
Wider(max, size) == IF max >= 2^size THEN size + 1 ELSE size

Full(max) == max = LastCode

(* mutants: the dictionary is not cleared; its size is not set back.       *)
KeptTree == codetree
KeptCode == maxCode + 1

ClearedTree == EmptyTree
ClearedCode == ClearCode + 1

(* The run ends: its code is written and the run with the pixel goes into  *)
(* the dictionary, which is cleared when it is full.                       *)
WriteRun(value) ==
  /\ Takes(value)
  /\ curCode >= 0 /\ ~Known(value)
  /\ LET entry == maxCode + 1
         size  == Wider(entry, codeSize)
         run   == Code(curCode, codeSize)
     IN  IF Full(entry)
         THEN /\ codes' = <<run, Code(ClearCode, size)>>
              /\ codetree' = ClearedTree
              /\ codeSize' = MinCodeSize + 1
              /\ maxCode' = ClearedCode
         ELSE /\ codes' = <<run>>
              /\ codetree' = [x \in DOMAIN codetree \union {<<curCode, value>>} |->
                                IF x = <<curCode, value>> THEN entry ELSE codetree[x]]
              /\ codeSize' = size
              /\ maxCode' = entry
  /\ curCode' = value

(* The footer.                                                             *)
WriteFooter ==
  /\ ~written /\ codes = <<>> /\ count = Len(image)
  /\ codes' = <<Code(curCode, codeSize), Code(ClearCode, codeSize),
                Code(ClearCode + 1, MinCodeSize + 1)>>
  /\ written' = TRUE
  /\ UNCHANGED <<image, count, curCode, codetree, codeSize, maxCode, viewer>>

-----------------------------------------------------------------------------
(* The viewer, as GIF89a describes it                                      *)

NextEntry == IF DOMAIN table = DOMAIN Roots THEN EndCode + 1
             ELSE CHOOSE c \in EndCode + 2 .. LastCode + 1 :
                    c - 1 \in DOMAIN table /\ c \notin DOMAIN table

(* The pixels a code stands for, if it stands for any.                     *)
Readable(c) == c \in DOMAIN table \/ (previous >= 0 /\ c = NextEntry)
Pixels(c)   == IF c \in DOMAIN table THEN table[c]
               ELSE Append(table[previous], Head(table[previous]))

(* They are the next pixels of the image that were taken.                  *)
AreNext(pixels) ==
  /\ shown + Len(pixels) <= count
  /\ SubSeq(image, shown + 1, shown + Len(pixels)) = pixels

ReadsCode == codes # <<>> /\ ~garbled

ReadClear ==
  /\ ReadsCode
  /\ Head(codes) = Code(ClearCode, width)
  /\ codes' = Tail(codes)
  /\ table' = Roots /\ width' = MinCodeSize + 1 /\ previous' = -1
  /\ UNCHANGED <<encoder, shown, garbled>>

ReadEnd ==
  /\ ReadsCode
  /\ Head(codes) = Code(EndCode, width)
  /\ codes' = Tail(codes)
  /\ UNCHANGED <<encoder, viewer>>

(* The pixels are shown, and the code before with the first of them goes   *)
(* into the viewer's dictionary.                                           *)
ReadRun ==
  /\ ReadsCode
  /\ LET c     == Head(codes).code
         run   == Pixels(c)
         grows == previous >= 0 /\ NextEntry <= LastCode
     IN  /\ c \notin {ClearCode, EndCode}
         /\ Head(codes).size = width /\ Readable(c)
         /\ AreNext(run)
         /\ shown' = shown + Len(run)
         /\ previous' = c
         /\ table' = IF grows
                     THEN [x \in DOMAIN table \union {NextEntry} |->
                             IF x = NextEntry THEN Append(table[previous], Head(run))
                             ELSE table[x]]
                     ELSE table
         /\ width' = IF grows /\ NextEntry + 1 = 2^width /\ width < MaxBits
                     THEN width + 1 ELSE width
  /\ codes' = Tail(codes)
  /\ UNCHANGED <<encoder, garbled>>

(* Bits of another width, a code that stands for nothing, or for other     *)
(* pixels than were taken: from there on the viewer is lost.               *)
Misread ==
  /\ codes # <<>>
  /\ LET c == Head(codes).code
     IN  \/ garbled
         \/ Head(codes).size # width
         \/ c \notin {ClearCode, EndCode} /\ (~Readable(c) \/ ~AreNext(Pixels(c)))
  /\ garbled' = TRUE
  /\ codes' = <<>>
  /\ UNCHANGED <<encoder, table, width, previous, shown>>

Reads == ReadClear \/ ReadEnd \/ ReadRun \/ Misread

Next ==
  \/ \E value \in 0 .. ClearCode - 1 : ExtendRun(value) \/ WriteRun(value)
  \/ WriteFooter
  \/ Reads

Spec == Init /\ [][Next]_vars

-----------------------------------------------------------------------------
(* Properties                                                              *)

AllCodes == 0 .. LastCode

(* Every variable has its type: the dictionary never outgrows its 4096     *)
(* nodes.                                                                  *)
TypeOK ==
  /\ image \in Seq(0 .. ClearCode - 1) /\ count \in 0 .. Len(image) /\ curCode \in AllCodes \union {-1}
  /\ DOMAIN codetree \subseteq AllCodes \X (0 .. ClearCode - 1)
  /\ \A x \in DOMAIN codetree : codetree[x] \in AllCodes
  /\ codeSize \in MinCodeSize + 1 .. MaxBits /\ maxCode \in AllCodes
  /\ written \in BOOLEAN /\ garbled \in BOOLEAN
  /\ codes \in Seq([code : Nat, size : Nat])
  /\ DOMAIN table \subseteq AllCodes
  /\ width \in MinCodeSize + 1 .. MaxBits /\ previous \in AllCodes \union {-1}
  /\ shown \in 0 .. count

(* The viewer shows the pixels of the image, in order: it is never at a    *)
(* loss while there are pixels to come.                                    *)
PixelsSurvive == garbled => (written /\ shown = Len(image))

(* Once the footer is written, every pixel is shown.                       *)
AllShown == written ~> shown = Len(image)

(* The viewer's dictionary has what the encoder's has, up to the one entry *)
(* it is behind, and no entry for another run.                             *)
InStep ==
  (codes = <<>> /\ ~garbled /\ ~written) =>
    \A x \in DOMAIN codetree : codetree[x] # maxCode =>
      /\ codetree[x] \in DOMAIN table
      /\ table[codetree[x]] = Append(table[x[1]], x[2])
=============================================================================
