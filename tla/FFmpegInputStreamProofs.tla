----------------------- MODULE FFmpegInputStreamProofs -----------------------
(***************************************************************************)
(* Theorems about the input stream under FFmpeg's AVIOContext: for files   *)
(* and buffers of any size, and any number of calls of any client.         *)
(***************************************************************************)
EXTENDS FFmpegInputStream, TLAPS

(* The buffer is empty or full: it is filled with the whole file at once,  *)
(* and emptied by a bypass.                                                *)
AllOrNothing == ~eof_reached /\ buf_end \in {0, FileSize}

CallConsistent ==
  /\ call = "none" => asked = 0 /\ left = 0
  /\ call = "read" => asked # 0
  /\ call = "seek" => strayed /\ asked = 0 /\ target >= BufferStart

(* A demuxer that stays inside the file makes the first fill with the      *)
(* header it reads, and never another: the buffer is the file.             *)
BeforeFill ==
  /\ buf_end = 0 /\ buf_ptr = 0 /\ pos = 0 /\ currBufferOffset = 0
  /\ \/ call = "none" /\ calls = 0
     \/ call = "read" /\ left \in 1 .. FileSize

AfterFill == buf_end = FileSize /\ pos = FileSize

WholeFile ==
  ~strayed => /\ contents = [i \in Places |-> i]
              /\ BeforeFill \/ AfterFill
              /\ Position <= FileSize

IInv ==
  /\ TypeOK
  /\ AllOrNothing
  /\ CallConsistent
  /\ WholeFile

-----------------------------------------------------------------------------
(* One call of the callback.                                               *)

(* The file fills the buffer, whatever the cursor: there is never more     *)
(* left than FFmpeg has room for.                                          *)
LEMMA FillsWholeBuffer ==
  ASSUME TypeOK, AllOrNothing
  PROVE  /\ Destination = 0
         /\ BytesRead(FileSize - Destination) = FileSize
         /\ FillResult = FileSize
<1>1. Destination = 0
  BY SizesAssumption DEF Destination, AllOrNothing
<1>2. BytesRead(FileSize) = FileSize
  BY SizesAssumption DEF BytesRead, Larger, TypeOK
<1> QED
  BY <1>1, <1>2, SizesAssumption DEF FillResult, ReadResult

(* The first fill puts the bytes of the file where they are already.       *)
LEMMA FillStep ==
  ASSUME TypeOK, AllOrNothing, Fill
  PROVE  /\ currBufferOffset' = currBufferOffset + FileSize
         /\ pos' = pos + FileSize
         /\ buf_ptr' = 0 /\ buf_end' = FileSize
         /\ eof_reached' = eof_reached
         /\ contents' \in [Places -> Places \union {Garbage}]
         /\ currBufferOffset = 0 => contents' = contents
<1>1. /\ contents' = Copied(0, FileSize)
      /\ currBufferOffset' = currBufferOffset + FileSize
      /\ pos' = pos + FileSize /\ buf_ptr' = 0 /\ buf_end' = FileSize
      /\ eof_reached' = eof_reached
  BY FillsWholeBuffer, SizesAssumption DEF Fill
<1>2. contents \in [Places -> Places \union {Garbage}]
  BY DEF TypeOK
<1>3. \A place : ByteAt(place) \in Places \union {Garbage}
  BY <1>2 DEF ByteAt
<1>4. Copied(0, FileSize) \in [Places -> Places \union {Garbage}]
  BY <1>2, <1>3 DEF Copied
<1>5. ASSUME currBufferOffset = 0 PROVE Copied(0, FileSize) = contents
  BY <1>2, <1>5 DEF Copied
<1> QED
  BY <1>1, <1>4, <1>5

(* A read past the buffer takes all that is left to read.                  *)
LEMMA BypassStep ==
  ASSUME TypeOK, AllOrNothing, Bypass
  PROVE  /\ currBufferOffset' \in Nat
         /\ pos' = pos + left
         /\ buf_ptr' = 0 /\ buf_end' = 0 /\ left' = 0
         /\ eof_reached' = eof_reached
         /\ piece' \in [0 .. left - 1 -> Places \union {Garbage}]
<1>1. BytesRead(left) = left /\ left \in Nat /\ left > FileSize
  BY SizesAssumption DEF TypeOK, Bypass, BytesRead, Larger
<1>2. ReadResult(left) = left
  BY <1>1 DEF ReadResult
<1>3. \A place : ByteAt(place) \in Places \union {Garbage}
  BY DEF ByteAt, TypeOK
<1>4. [i \in 0 .. left - 1 |-> ByteAt(currBufferOffset + i)]
        \in [0 .. left - 1 -> Places \union {Garbage}]
  BY <1>3
<1> QED
  BY <1>1, <1>2, <1>4, SizesAssumption DEF TypeOK, Bypass

-----------------------------------------------------------------------------
(* The invariant is inductive.                                             *)

(* A part of the file that a read may answer is a piece.                   *)
LEMMA PieceTypes ==
  ASSUME NEW len \in 0 .. MaxRequest, NEW f \in [0 .. len - 1 -> Places \union {Garbage}]
  PROVE  f \in Pieces
BY DEF Pieces

(* The stream begins in front of the file.                                 *)
LEMMA InitIInv == Init => IInv
<1> SUFFICES ASSUME Init PROVE IInv
  OBVIOUS
<1>1. piece \in Pieces
  <2>1. piece \in [0 .. 0 - 1 -> Places \union {Garbage}]
    BY DEF Init, Nothing
  <2>2. 0 \in 0 .. MaxRequest
    BY SizesAssumption
  <2> QED
    BY <2>1, <2>2, PieceTypes
<1>2. contents \in [Places -> Places \union {Garbage}]
  BY DEF Init
<1>3. TypeOK
  <2>1. {currBufferOffset, pos} \subseteq Nat
    BY DEF Init
  <2>4. eof_reached \in BOOLEAN /\ strayed \in BOOLEAN
    BY Zenon DEF Init
  <2>2. /\ buf_end \in 0 .. FileSize /\ buf_ptr \in 0 .. buf_end /\ buf_end <= pos
        /\ asked \in 0 .. MaxRequest /\ left \in 0 .. asked
        /\ target \in 0 .. MaxOffset /\ result \in Nat /\ calls \in 0 .. MaxCalls
    BY SizesAssumption DEF Init
  <2>3. call \in {"none", "read", "seek"}
    BY DEF Init
  <2> QED
    BY <1>1, <1>2, <2>1, <2>2, <2>3, <2>4 DEF TypeOK
<1>4. AllOrNothing /\ CallConsistent
  BY DEF Init, AllOrNothing, CallConsistent
<1>5. WholeFile
  BY SizesAssumption DEF Init, WholeFile, BeforeFill, Position, BufferStart
<1> QED
  BY <1>3, <1>4, <1>5 DEF IInv

(* avio_read() begins.                                                     *)
LEMMA ReadIInv ==
  ASSUME IInv, NEW n \in 1 .. MaxRequest, Read(n)
  PROVE  IInv'
<1>1. TypeOK'
  BY SizesAssumption DEF IInv, TypeOK, Read, Calls, streamVars, avioVars
<1>2. AllOrNothing' /\ CallConsistent'
  BY DEF IInv, TypeOK, AllOrNothing, CallConsistent, Read, Calls, streamVars, avioVars
<1>3. WholeFile'
  BY SizesAssumption DEF IInv, TypeOK, WholeFile, BeforeFill, AfterFill, Position, BufferStart,
     Read, Calls, streamVars, avioVars
<1> QED
  BY <1>1, <1>2, <1>3 DEF IInv

(* Bytes are copied out of the buffer.                                     *)
LEMMA CopyOutIInv ==
  ASSUME IInv, CopyOut
  PROVE  IInv'
<1> DEFINE len == Smaller(Available, left)
<1>1. /\ len \in 1 .. left /\ len <= Available /\ left \in Nat /\ left <= MaxRequest
      /\ Available = buf_end - buf_ptr
  BY SizesAssumption DEF IInv, TypeOK, CopyOut, Available, Smaller
<1>2. \A place : ByteAt(place) \in Places \union {Garbage}
  BY DEF ByteAt, IInv, TypeOK
<1>3. /\ piece' = [i \in 0 .. len - 1 |-> ByteAt(buf_ptr + i)]
      /\ buf_ptr' = buf_ptr + len /\ left' = left - len
  BY DEF CopyOut
<1>4. piece' \in Pieces
  <2>1. piece' \in [0 .. len - 1 -> Places \union {Garbage}]
    BY <1>2, <1>3
  <2>2. len \in 0 .. MaxRequest
    BY <1>1, SizesAssumption
  <2> QED
    BY <2>1, <2>2, PieceTypes
<1>5. TypeOK'
  BY <1>1, <1>3, <1>4, SizesAssumption DEF IInv, TypeOK, CopyOut, streamVars
<1>6. AllOrNothing' /\ CallConsistent'
  BY DEF IInv, AllOrNothing, CallConsistent, CopyOut, streamVars
<1>7. WholeFile'
  BY <1>1, <1>3, SizesAssumption
  DEF IInv, TypeOK, WholeFile, BeforeFill, AfterFill, Position, BufferStart, CopyOut, streamVars
<1> QED
  BY <1>5, <1>6, <1>7 DEF IInv

(* The buffer is filled, or passed by, in the middle of a read.            *)
LEMMA FillToReadIInv ==
  ASSUME IInv, FillToRead
  PROVE  IInv'
<1>1. /\ currBufferOffset' = currBufferOffset + FileSize
      /\ pos' = pos + FileSize
      /\ buf_ptr' = 0 /\ buf_end' = FileSize
      /\ eof_reached' = eof_reached
      /\ contents' \in [Places -> Places \union {Garbage}]
      /\ currBufferOffset = 0 => contents' = contents
  BY FillStep DEF IInv, FillToRead
<1>2. TypeOK'
  <2>1. strayed' \in BOOLEAN
    BY DEF IInv, TypeOK, FillToRead, Strays
  <2> QED
    BY <1>1, <2>1, SizesAssumption DEF IInv, TypeOK, FillToRead
<1>3. AllOrNothing' /\ CallConsistent'
  BY <1>1 DEF IInv, AllOrNothing, CallConsistent, FillToRead
<1>4. ASSUME ~strayed' PROVE ~strayed /\ BeforeFill
  <2>1. ~strayed /\ ~(Position >= FileSize)
    BY <1>4, Zenon DEF FillToRead, Strays
  <2> SUFFICES ASSUME AfterFill PROVE FALSE
    BY <2>1 DEF IInv, WholeFile
  <2> QED
    BY <2>1, SizesAssumption
    DEF AfterFill, FillToRead, Exhausted, Available, IInv, TypeOK, Position, BufferStart
<1>5. WholeFile'
  BY <1>1, <1>4, SizesAssumption
  DEF IInv, TypeOK, WholeFile, BeforeFill, AfterFill, Position, BufferStart, FillToRead
<1> QED
  BY <1>2, <1>3, <1>5 DEF IInv

(* The buffer is passed by at the end of the file, or behind it.           *)
LEMMA BypassIInv ==
  ASSUME IInv, Bypass
  PROVE  IInv' /\ strayed' /\ (strayed \/ Position >= FileSize)
<1>1. /\ currBufferOffset' \in Nat
      /\ pos' = pos + left
      /\ buf_ptr' = 0 /\ buf_end' = 0 /\ left' = 0
      /\ eof_reached' = eof_reached
      /\ piece' \in [0 .. left - 1 -> Places \union {Garbage}]
  BY BypassStep DEF IInv
<1>6. strayed \/ Position >= FileSize
  BY SizesAssumption DEF IInv, TypeOK, WholeFile, BeforeFill, AfterFill, Position, BufferStart,
     Bypass, Exhausted, Available
<1>2. strayed'
  BY <1>6, Zenon DEF Bypass, Strays
<1>3. piece' \in Pieces
  <2>1. left \in 0 .. MaxRequest
    BY SizesAssumption DEF IInv, TypeOK
  <2> QED
    BY <1>1, <2>1, PieceTypes
<1>4. TypeOK'
  <2>1. strayed' \in BOOLEAN
    BY DEF IInv, TypeOK, Bypass, Strays
  <2> QED
    BY <1>1, <1>3, <2>1, SizesAssumption DEF IInv, TypeOK, Bypass
<1>5. AllOrNothing' /\ CallConsistent' /\ WholeFile'
  BY <1>1, <1>2 DEF IInv, AllOrNothing, CallConsistent, WholeFile, Bypass
<1> QED
  BY <1>2, <1>4, <1>5, <1>6 DEF IInv

(* avio_read() returns.                                                    *)
LEMMA ReturnFromReadIInv ==
  ASSUME IInv, ReturnFromRead
  PROVE  IInv'
<1>1. TypeOK'
  BY SizesAssumption DEF IInv, TypeOK, ReturnFromRead, Returns, streamVars, avioVars
<1>2. AllOrNothing' /\ CallConsistent'
  BY DEF IInv, AllOrNothing, CallConsistent, ReturnFromRead, Returns, streamVars, avioVars
<1>3. WholeFile'
  BY SizesAssumption DEF IInv, TypeOK, WholeFile, BeforeFill, AfterFill, Position, BufferStart,
     ReturnFromRead, Returns, streamVars, avioVars
<1> QED
  BY <1>1, <1>2, <1>3 DEF IInv

(* Inside the file every offset is in the buffer.                          *)
LEMMA OffsetsInBuffer ==
  ASSUME IInv, NEW offset \in 0 .. MaxOffset, Seek(offset), ~strayed'
  PROVE  /\ ~strayed /\ AfterFill /\ offset \in 0 .. FileSize
         /\ BufferStart = 0
         /\ SeekInside(offset)
<1>1. ~strayed /\ offset \in 0 .. FileSize /\ call = "none" /\ calls > 0
  <2>1. ~strayed /\ offset <= FileSize /\ call = "none" /\ calls > 0
    <3>1. ~strayed /\ ~(offset > FileSize) /\ call = "none" /\ calls > 0
      BY Zenon DEF Seek, Calls, Strays
    <3> QED
      BY <3>1, SizesAssumption
  <2> QED
    BY <2>1, SizesAssumption
<1>2. AfterFill
  BY <1>1 DEF IInv, WholeFile, BeforeFill
<1>3. BufferStart = 0 /\ buf_end = FileSize
  BY <1>2, SizesAssumption DEF AfterFill, BufferStart
<1>4. ~SeekAhead(offset) /\ ~SeekByCallback(offset)
  BY <1>1, <1>3, SizesAssumption DEF SeekAhead, SeekByCallback
<1> QED
  BY <1>1, <1>2, <1>3, <1>4 DEF Seek

(* avio_seek() begins, and ends if the place is in the buffer.             *)
LEMMA SeekIInv ==
  ASSUME IInv, NEW offset \in 0 .. MaxOffset, Seek(offset)
  PROVE  IInv'
<1>4. strayed' \in BOOLEAN
  BY DEF IInv, TypeOK, Seek, Strays
<1>1. CASE SeekInside(offset)
  <2>1. TypeOK'
    BY <1>1, <1>4, SizesAssumption
    DEF IInv, TypeOK, Seek, Calls, SeekInside, Returns, BufferStart, streamVars
  <2>2. AllOrNothing' /\ CallConsistent'
    BY <1>1 DEF IInv, AllOrNothing, CallConsistent, Seek, Calls, SeekInside, Returns
  <2>3. WholeFile'
    <3> SUFFICES ASSUME ~strayed' PROVE WholeFile'
      BY DEF WholeFile
    <3> QED
      BY <1>1, OffsetsInBuffer, SizesAssumption
      DEF IInv, TypeOK, WholeFile, AfterFill, Position, BufferStart, SeekInside, Returns, streamVars
  <2> QED
    BY <2>1, <2>2, <2>3 DEF IInv
<1>2. CASE SeekAhead(offset)
  <2>1. strayed'
    BY <1>2, OffsetsInBuffer, SizesAssumption DEF SeekAhead, AfterFill
  <2>2. TypeOK'
    BY <1>2, <1>4, SizesAssumption DEF IInv, TypeOK, Seek, Calls, SeekAhead, streamVars, avioVars
  <2>3. CallConsistent'
    BY <1>2, <2>1, SizesAssumption
    DEF IInv, TypeOK, CallConsistent, Seek, Calls, SeekAhead, BufferStart, streamVars, avioVars
  <2>4. AllOrNothing' /\ WholeFile'
    BY <1>2, <2>1 DEF IInv, AllOrNothing, WholeFile, SeekAhead, avioVars
  <2> QED
    BY <2>2, <2>3, <2>4 DEF IInv
<1>3. CASE SeekByCallback(offset)
  <2>1. strayed'
    BY <1>3, OffsetsInBuffer, SizesAssumption DEF SeekByCallback, AfterFill
  <2>2. currBufferOffset' \in Nat
    BY <1>3, SizesAssumption DEF IInv, TypeOK, SeekByCallback, BufferStart, Smaller
  <2>3. TypeOK'
    BY <1>3, <1>4, <2>2, SizesAssumption
    DEF IInv, TypeOK, Seek, Calls, SeekByCallback, Returns, SeekResult, avioVars
  <2>4. AllOrNothing' /\ CallConsistent' /\ WholeFile'
    BY <1>3, <2>1 DEF IInv, AllOrNothing, CallConsistent, WholeFile, SeekByCallback, Returns, avioVars
  <2> QED
    BY <2>3, <2>4 DEF IInv
<1> QED
  BY <1>1, <1>2, <1>3 DEF Seek

(* The buffer is filled to reach a place behind it, which a demuxer that   *)
(* stays inside the file never needs.                                      *)
LEMMA FillToSeekIInv ==
  ASSUME IInv, FillToSeek
  PROVE  IInv' /\ strayed
<1>1. /\ currBufferOffset' = currBufferOffset + FileSize
      /\ pos' = pos + FileSize
      /\ buf_ptr' = 0 /\ buf_end' = FileSize
      /\ eof_reached' = eof_reached
      /\ contents' \in [Places -> Places \union {Garbage}]
  BY FillStep DEF IInv, FillToSeek
<1>2. strayed
  BY DEF IInv, CallConsistent, FillToSeek
<1>3. TypeOK'
  BY <1>1, SizesAssumption DEF IInv, TypeOK, FillToSeek, clientVars
<1>4. CallConsistent'
  BY <1>1, <1>2, SizesAssumption
  DEF IInv, TypeOK, CallConsistent, BufferStart, FillToSeek, clientVars
<1>5. AllOrNothing' /\ WholeFile'
  BY <1>1, <1>2 DEF IInv, AllOrNothing, WholeFile, FillToSeek, clientVars
<1> QED
  BY <1>2, <1>3, <1>4, <1>5 DEF IInv

(* avio_seek() returns from there.                                         *)
LEMMA ReturnFromSeekIInv ==
  ASSUME IInv, ReturnFromSeek
  PROVE  IInv' /\ strayed
<1>1. strayed
  BY DEF IInv, CallConsistent, ReturnFromSeek
<1>2. buf_ptr' \in 0 .. buf_end
  BY SizesAssumption DEF IInv, TypeOK, CallConsistent, ReturnFromSeek, PtrAt, BufferStart
<1>3. TypeOK'
  BY <1>2, SizesAssumption DEF IInv, TypeOK, ReturnFromSeek, Returns, streamVars
<1>4. AllOrNothing' /\ CallConsistent' /\ WholeFile'
  BY <1>1 DEF IInv, AllOrNothing, CallConsistent, WholeFile, ReturnFromSeek, Returns
<1> QED
  BY <1>1, <1>3, <1>4 DEF IInv

(* avio_size and avio_feof change nothing of the stream.                   *)
LEMMA InquiryIInv ==
  ASSUME IInv, Size \/ Feof
  PROVE  IInv'
<1>1. TypeOK'
  BY SizesAssumption DEF IInv, TypeOK, Size, Feof, FeofResult, Calls, Returns, streamVars, avioVars
<1>2. AllOrNothing' /\ CallConsistent'
  BY DEF IInv, AllOrNothing, CallConsistent, Size, Feof, Calls, Returns, streamVars, avioVars
<1>3. WholeFile'
  BY SizesAssumption DEF IInv, TypeOK, CallConsistent, WholeFile, BeforeFill, AfterFill, Position,
     BufferStart, Size, Feof, Calls, Returns, streamVars, avioVars
<1> QED
  BY <1>1, <1>2, <1>3 DEF IInv

(* Every step keeps the invariant.                                         *)
LEMMA StepIInv == IInv /\ [Next]_vars => IInv'
<1> SUFFICES ASSUME IInv, [Next]_vars PROVE IInv'
  OBVIOUS
<1>1. CASE UNCHANGED vars
  BY <1>1 DEF vars, streamVars, avioVars, clientVars, IInv, TypeOK, AllOrNothing, CallConsistent,
     WholeFile, BeforeFill, AfterFill, Position, BufferStart
<1> QED
  BY <1>1, ReadIInv, CopyOutIInv, FillToReadIInv, BypassIInv, ReturnFromReadIInv, SeekIInv,
     FillToSeekIInv, ReturnFromSeekIInv, InquiryIInv DEF Next

(* The invariant always holds.                                             *)
LEMMA AlwaysIInv == Spec => []IInv
BY InitIInv, StepIInv, PTL DEF Spec

-----------------------------------------------------------------------------
(* The theorems.                                                           *)

(* The stream and the AVIOContext keep their types.                        *)
THEOREM StreamTypes == Spec => []TypeOK
<1>1. IInv => TypeOK
  BY DEF IInv
<1> QED
  BY <1>1, AlwaysIInv, PTL

(* read() never copies more than FFmpeg has room for.                      *)
THEOREM ReadsNeverOverrun == Spec => []NoOverrun
<1>1. IInv => NoOverrun
  BY DEF IInv, AllOrNothing, NoOverrun
<1> QED
  BY <1>1, AlwaysIInv, PTL

(* The client's file is left as it was by a demuxer that stays inside it.  *)
THEOREM FileStaysIntact == Spec => []FileIntact
<1>1. IInv => FileIntact
  BY DEF IInv, WholeFile, FileIntact
<1> QED
  BY <1>1, AlwaysIInv, PTL

-----------------------------------------------------------------------------
(* What a demuxer sees is a FileReader.                                    *)

(* An opened stream is an opened file.                                     *)
LEMMA ReaderInit == Init => Reader!Init
<1> SUFFICES ASSUME Init PROVE Reader!Init
  OBVIOUS
<1>1. ReaderPosition = 0 /\ ReaderResult = 0
  BY DEF Init, ReaderPosition, ReaderResult, Position, BufferStart
<1> QED
  BY <1>1 DEF Init, Nothing, Reader!Init

(* Outside of a seek that fills, the reader is where the stream is.        *)
LEMMA NotSeeking ==
  ASSUME call # "seek"
  PROVE  ReaderPosition = Position /\ ReaderResult = result
BY DEF ReaderPosition, ReaderResult

(* The beginning of avio_read() is the request of the reader.              *)
LEMMA ReadReads ==
  ASSUME IInv, NEW n \in 1 .. MaxRequest, Read(n)
  PROVE  Reader!Next
<1>1. call = "none" /\ asked = 0
  BY DEF IInv, CallConsistent, Read, Calls
<1>2. ReaderPosition' = ReaderPosition /\ ReaderResult' = ReaderResult
  BY <1>1 DEF Read, avioVars, ReaderPosition, ReaderResult, Position, BufferStart
<1>3. Reader!Read(n)
  BY <1>1, <1>2 DEF Reader!Read, Read
<1> QED
  BY <1>3 DEF Reader!Next

(* The bytes copied out are the next bytes of the file, to a demuxer that  *)
(* has not strayed.                                                        *)
LEMMA CopyOutHandsOver ==
  ASSUME IInv, CopyOut
  PROVE  Reader!Next
<1> DEFINE len == Smaller(Available, left)
<1>1. /\ len \in 1 .. MaxRequest /\ len <= left /\ len <= Available
      /\ Available = buf_end - buf_ptr
  BY SizesAssumption DEF IInv, TypeOK, CopyOut, Available, Smaller
<1>2. ReaderPosition = Position /\ ReaderPosition' = Position' /\ ReaderResult' = ReaderResult
  BY DEF CopyOut, ReaderPosition, ReaderResult
<1>3. Position' = Position + len
  BY <1>1, SizesAssumption DEF CopyOut, Position, BufferStart, IInv, TypeOK
<1>4. Reader!Advance(len)
  BY <1>1, <1>2, <1>3 DEF CopyOut, Reader!Advance
<1>5. CASE strayed
  <2>1. \A i \in 0 .. len - 1 : ByteAt(buf_ptr + i) \in 0 .. FileSize
    BY SizesAssumption DEF ByteAt, IInv, TypeOK, Places, Garbage
  <2>2. piece' \in [0 .. len - 1 -> 0 .. FileSize]
    BY <2>1 DEF CopyOut
  <2>3. Reader!HandOverAny(len)
    BY <1>4, <1>5, <2>2 DEF CopyOut, Reader!HandOverAny, Reader!Behind
  <2> QED
    BY <1>1, <2>3 DEF Reader!Next
<1>6. CASE ~strayed
  <2>1. AfterFill
    BY <1>6, SizesAssumption DEF IInv, WholeFile, BeforeFill, CopyOut, Available
  <2>2. Position = buf_ptr
    BY <2>1, SizesAssumption DEF AfterFill, Position, BufferStart, IInv, TypeOK
  <2>3. \A i \in 0 .. len - 1 : buf_ptr + i \in Places
    BY <1>1, <2>1, SizesAssumption DEF AfterFill, IInv, TypeOK, Places
  <2>4. \A i \in 0 .. len - 1 : ByteAt(buf_ptr + i) = Position + i
    BY <1>6, <2>2, <2>3 DEF ByteAt, IInv, WholeFile
  <2>5. piece' = [i \in 0 .. len - 1 |-> Position + i]
    BY <2>4 DEF CopyOut
  <2>6. Position + len <= FileSize
    BY <1>1, <2>1, <2>2, SizesAssumption DEF AfterFill, IInv, TypeOK
  <2>7. Reader!HandOver(len)
    BY <1>2, <1>4, <1>6, <2>5, <2>6 DEF CopyOut, Reader!HandOver
  <2> QED
    BY <1>1, <2>7 DEF Reader!Next
<1> QED
  BY <1>5, <1>6

(* Of a fill a demuxer sees at most that it has passed the end.            *)
LEMMA FillToReadPasses ==
  ASSUME IInv, FillToRead
  PROVE  [Reader!Next]_Reader!vars
<1>1. pos' = pos + FileSize /\ buf_ptr' = 0 /\ buf_end' = FileSize
  BY FillStep DEF IInv, FillToRead
<1>2. Position' = Position
  BY <1>1, SizesAssumption DEF IInv, TypeOK, FillToRead, Exhausted, Available, Position, BufferStart
<1>3. /\ ReaderPosition = Position
      /\ ReaderPosition' = ReaderPosition /\ ReaderResult' = ReaderResult
      /\ UNCHANGED <<asked, left, piece>>
  BY <1>2 DEF FillToRead, ReaderPosition, ReaderResult
<1>4. CASE strayed' = strayed
  BY <1>3, <1>4 DEF Reader!vars
<1>5. CASE strayed' # strayed
  <2>1. strayed' = TRUE /\ Position >= FileSize
    BY <1>5 DEF FillToRead, Strays, IInv, TypeOK
  <2>2. left > 0
    BY SizesAssumption DEF FillToRead
  <2>3. Reader!PassEnd
    BY <1>3, <2>1, <2>2 DEF Reader!PassEnd, Reader!Behind
  <2> QED
    BY <2>3 DEF Reader!Next
<1> QED
  BY <1>4, <1>5

(* What comes past the buffer comes from behind the end.                   *)
LEMMA BypassHandsOver ==
  ASSUME IInv, Bypass
  PROVE  Reader!Next
<1>1. strayed' /\ (strayed \/ Position >= FileSize)
  BY BypassIInv
<1>2. /\ pos' = pos + left
      /\ buf_ptr' = 0 /\ buf_end' = 0 /\ left' = 0
      /\ piece' \in [0 .. left - 1 -> Places \union {Garbage}]
  BY BypassStep DEF IInv
<1>3. left \in 1 .. MaxRequest
  BY SizesAssumption DEF IInv, TypeOK, Bypass
<1>4. Position' = Position + left
  BY <1>2, <1>3, SizesAssumption
  DEF IInv, TypeOK, Bypass, Exhausted, Available, Position, BufferStart
<1>5. ReaderPosition = Position /\ ReaderPosition' = Position' /\ ReaderResult' = ReaderResult
  BY DEF Bypass, ReaderPosition, ReaderResult
<1>6. Reader!Advance(left)
  <2>1. left' = left - left /\ left <= left
    BY <1>2, <1>3
  <2> QED
    BY <1>4, <1>5, <2>1 DEF Bypass, Reader!Advance
<1>7. piece' \in [0 .. left - 1 -> 0 .. FileSize]
  <2>1. Places \union {Garbage} = 0 .. FileSize
    BY SizesAssumption DEF Places, Garbage
  <2> QED
    BY <1>2, <2>1
<1>8. strayed' = TRUE
  BY <1>1 DEF Bypass, Strays, IInv, TypeOK
<1>9. Reader!HandOverAny(left)
  BY <1>1, <1>5, <1>6, <1>7, <1>8 DEF Reader!HandOverAny, Reader!Behind
<1> QED
  BY <1>3, <1>9 DEF Reader!Next

(* The end of avio_read() is the answer of the reader: it has all bytes.   *)
LEMMA ReturnReturns ==
  ASSUME IInv, ReturnFromRead
  PROVE  Reader!Next
<1>1. ReaderPosition' = ReaderPosition /\ ReaderResult' = result'
  BY DEF ReturnFromRead, Returns, avioVars, ReaderPosition, ReaderResult, Position, BufferStart
<1>2. Reader!Return
  BY <1>1 DEF IInv, CallConsistent, ReturnFromRead, Returns, Reader!Return
<1> QED
  BY <1>2 DEF Reader!Next

(* A seek inside the file succeeds in the buffer; any other brings the     *)
(* client there, or says that it failed.                                   *)
LEMMA SeekSeeks ==
  ASSUME IInv, NEW offset \in 0 .. MaxOffset, Seek(offset)
  PROVE  Reader!Next
<1>1. call = "none" /\ asked = 0 /\ left = 0
  BY DEF IInv, CallConsistent, Seek, Calls
<1>2. ReaderPosition = Position
  BY <1>1, NotSeeking
<1>3. strayed \in BOOLEAN /\ strayed' = (strayed \/ offset > FileSize)
  BY DEF IInv, TypeOK, Seek, Strays
<1>4. UNCHANGED <<asked, left, piece>>
  BY <1>1 DEF Seek, SeekInside, SeekAhead, SeekByCallback, Returns
<1>5. \/ ReaderPosition' = offset /\ ReaderResult' = offset
      \/ ReaderPosition' = ReaderPosition /\ ReaderResult' = -1
  <2>1. CASE SeekInside(offset)
    <3>1. Position' = offset
      BY <2>1, SizesAssumption DEF SeekInside, Position, BufferStart, IInv, TypeOK
    <3> QED
      BY <2>1, <3>1 DEF SeekInside, Returns, ReaderPosition, ReaderResult
  <2>2. CASE SeekAhead(offset)
    BY <2>2 DEF SeekAhead, ReaderPosition, ReaderResult
  <2>3. CASE SeekByCallback(offset)
    BY <1>2, <2>3
    DEF SeekByCallback, Returns, SeekResult, AVERROR, avioVars, ReaderPosition, ReaderResult, Position,
        BufferStart
  <2> QED
    BY <2>1, <2>2, <2>3 DEF Seek
<1>6. CASE strayed'
  <2>1. Reader!SeekAstray(offset)
    BY <1>1, <1>3, <1>4, <1>5, <1>6 DEF Reader!SeekAstray, Reader!Failed
  <2> QED
    BY <2>1 DEF Reader!Next
<1>7. CASE ~strayed'
  <2>1. ~strayed /\ offset \in 0 .. FileSize /\ BufferStart = 0 /\ SeekInside(offset)
    BY <1>7, OffsetsInBuffer
  <2>2. ReaderPosition' = offset /\ ReaderResult' = offset
    <3>1. Position' = offset
      BY <2>1, SizesAssumption DEF SeekInside, Position, BufferStart, IInv, TypeOK
    <3> QED
      BY <2>1, <3>1 DEF SeekInside, Returns, ReaderPosition, ReaderResult
  <2>3. offset <= FileSize
    BY <2>1, SizesAssumption
  <2>4. strayed' = strayed
    BY <1>3, <1>7
  <2>5. Reader!Seek(offset)
    BY <1>1, <1>4, <2>1, <2>2, <2>3, <2>4 DEF Reader!Seek
  <2> QED
    BY <2>5 DEF Reader!Next
<1> QED
  BY <1>6, <1>7

(* What goes on in a seek that fills is not seen.                          *)
LEMMA FillToSeekHidden ==
  ASSUME FillToSeek
  PROVE  UNCHANGED Reader!vars
BY DEF FillToSeek, clientVars, ReaderPosition, ReaderResult, Reader!vars

(* It ends where the reader went when it began.                            *)
LEMMA ReturnFromSeekHidden ==
  ASSUME IInv, ReturnFromSeek
  PROVE  UNCHANGED Reader!vars
<1>1. Position' = target
  BY SizesAssumption DEF IInv, TypeOK, ReturnFromSeek, PtrAt, Position, BufferStart
<1>2. ReaderPosition' = ReaderPosition /\ ReaderResult' = ReaderResult
  BY <1>1 DEF ReturnFromSeek, Returns, ReaderPosition, ReaderResult
<1>3. UNCHANGED <<asked, left, piece, strayed>>
  <2>1. asked = 0 /\ left = 0
    BY DEF IInv, TypeOK, CallConsistent, ReturnFromSeek
  <2> QED
    BY <2>1 DEF ReturnFromSeek, Returns
<1> QED
  BY <1>2, <1>3 DEF Reader!vars

(* Inquiries are answered as the reader answers them.                      *)
LEMMA InquiryAnswers ==
  ASSUME IInv, Size \/ Feof
  PROVE  Reader!Next
<1>1. call = "none" /\ asked = 0 /\ left = 0 /\ ~eof_reached
  BY DEF IInv, CallConsistent, Size, Feof, Calls
<1>2. ReaderPosition' = ReaderPosition /\ ReaderResult' = result' /\ UNCHANGED <<asked, left, piece, strayed>>
  BY <1>1 DEF Size, Feof, Returns, avioVars, ReaderPosition, ReaderResult, Position, BufferStart
<1>3. Reader!Size \/ Reader!Feof
  BY <1>1, <1>2 DEF Size, Feof, FeofResult, Returns, Reader!Size, Reader!Feof
<1> QED
  BY <1>3 DEF Reader!Next

(* Every step of the stream is a step of the reader, or none.              *)
LEMMA ReaderStep == IInv /\ [Next]_vars => [Reader!Next]_Reader!vars
<1> SUFFICES ASSUME IInv, [Next]_vars PROVE [Reader!Next]_Reader!vars
  OBVIOUS
<1>1. CASE UNCHANGED vars
  BY <1>1 DEF vars, streamVars, avioVars, clientVars, Position, BufferStart, ReaderPosition,
     ReaderResult, Reader!vars
<1> QED
  BY <1>1, ReadReads, CopyOutHandsOver, FillToReadPasses, BypassHandsOver, ReturnReturns,
     SeekSeeks, FillToSeekHidden, ReturnFromSeekHidden, InquiryAnswers DEF Next

(* A demuxer gets the bytes of the file in order up to its end, and behind *)
(* the end is where it read or sought to, although read() and the seek     *)
(* function are both wrong.                                                *)
THEOREM StreamReadsFile == Spec => ImplementsFileReader
BY ReaderInit, ReaderStep, AlwaysIInv, PTL DEF Spec, ImplementsFileReader, Reader!Spec
=============================================================================
