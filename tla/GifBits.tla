-------------------------------- MODULE GifBits --------------------------------
(***************************************************************************)
(* How codes become bytes of the file (GifWriteBit, GifWriteChunk,         *)
(* GifWriteCode and the end of GifWriteLzwImage, lib/gif.h), and how a     *)
(* viewer gets them back.  The bytes are written in chunks, each behind    *)
(* its length; a length of 0 ends the image.                               *)
(***************************************************************************)
EXTENDS Integers, Sequences

CONSTANTS
  ByteBits,       (* bits of a byte: 8 in the code                          *)
  ChunkBytes      (* bytes of a full chunk: 255 in the code                 *)

ASSUME BitsAssumption ==
  /\ ByteBits \in Nat \ {0}
  /\ ChunkBytes \in 1 .. 2^ByteBits - 1
(* What powers of two are: a byte has one more value for each of its bits. *)
ASSUME BytePowersAssumption ==
  /\ 2^0 = 1
  /\ \A n \in 0 .. ByteBits : 2^n \in Nat /\ 2^(n + 1) = 2 * 2^n

Bit  == {0, 1}
Byte == 0 .. 2^ByteBits - 1

(* GifBitStatus; chunk holds the chunkIndex bytes it has.                  *)
Stat == [bitIndex : 0 .. ByteBits - 1, byte : Byte, chunk : Seq(Byte)]

EmptyStat == [bitIndex |-> 0, byte |-> 0, chunk |-> <<>>]

(* GifWriteBit.                                                            *)
WriteBit(s, bit) ==
  LET byte == s.byte + bit * 2^s.bitIndex
  IN  IF s.bitIndex + 1 = ByteBits
      THEN [bitIndex |-> 0, byte |-> 0, chunk |-> Append(s.chunk, byte)]
      ELSE [s EXCEPT !.byte = byte, !.bitIndex = @ + 1]

(* GifWriteChunk: the length, and the bytes.  It starts a new byte.        *)
Chunk(s) == <<Len(s.chunk)>> \o s.chunk

(* mutants: one byte too late; in the middle of the last byte.             *)
OverFull(s)   == Len(s.chunk) = ChunkBytes + 1
NearlyFull(s) == Len(s.chunk) = ChunkBytes - 1 /\ s.bitIndex > 0

ChunkFull(s) == Len(s.chunk) = ChunkBytes

(* A bit of GifWriteCode: what it leaves in stat, and what the bits so far *)
(* have added to the file.                                                 *)
WithBit(done, bit) ==
  LET next == WriteBit(done.stat, bit)
  IN  IF ChunkFull(next)
      THEN [stat |-> EmptyStat, out |-> done.out \o Chunk(next)]
      ELSE [stat |-> next, out |-> done.out]

(* The loop of GifWriteCode, one bit after the other.                      *)
WriteBits(s, bits) ==
  LET after[n \in 0 .. Len(bits)] ==
        IF n = 0 THEN [stat |-> s, out |-> <<>>] ELSE WithBit(after[n - 1], bits[n])
  IN  after[Len(bits)]

(* The lowest bit comes first.                                             *)
BitsOf(code, length) == [i \in 1 .. length |-> (code \div 2^(i - 1)) % 2]

(* while( stat.bitIndex ) GifWriteBit(stat, 0): it looks for no full chunk.*)
Filled(s) ==
  IF s.bitIndex = 0 THEN s
  ELSE [bitIndex |-> 0, byte |-> 0, chunk |-> Append(s.chunk, s.byte)]

(* mutant: the last chunk is written even when there is none.              *)
AlwaysChunk(s) == Chunk(s)

LastChunk(s) == IF s.chunk = <<>> THEN <<>> ELSE Chunk(s)

-----------------------------------------------------------------------------
(* The viewer: the bytes of an image at the start of a file, and the place *)
(* behind it, 0 if there is none.                                          *)

NoImage == [bytes |-> <<>>, next |-> 0]

ReadImage(file) ==
  LET read[at \in 1 .. Len(file) + 1] ==
        IF at > Len(file) \/ at + file[at] > Len(file) THEN NoImage
        ELSE IF file[at] = 0 THEN [bytes |-> <<>>, next |-> at + 1]
        ELSE LET rest == read[at + file[at] + 1]
             IN  [rest EXCEPT !.bytes = SubSeq(file, at + 1, at + file[at]) \o @]
  IN  read[1]

BitsOfBytes(bytes) ==
  [i \in 1 .. Len(bytes) * ByteBits |->
     BitsOf(bytes[1 + ((i - 1) \div ByteBits)], ByteBits)[1 + ((i - 1) % ByteBits)]]
=============================================================================
