-------------------------- MODULE FFmpegInputStream --------------------------
(***************************************************************************)
(* The input stream (lib/GifToolsFFmpegInputStream.cc) under FFmpeg's      *)
(* AVIOContext (FFmpeg/libavformat/aviobuf.c), from the opening of a video *)
(* stream on.  ffmpegVideoStreamOpen gives the AVIOContext the memory of   *)
(* the managed Buffer that holds the file as its own buffer, so that every *)
(* fill copies the file onto itself.  A call of the client (a demuxer) is  *)
(* started by one step, and the loops inside it take a step each time.     *)
(* If read() ever copied more than there is room for, it would answer an   *)
(* error, but the memory behind the buffer would be overwritten: the model *)
(* ends there, with eof_reached, which is set by errors only.              *)
(*                                                                         *)
(* A byte is known by its place in the file.  Offsets of avio_seek are     *)
(* absolute: SEEK_CUR adds the position and goes on as SEEK_SET does.      *)
(***************************************************************************)
EXTENDS Integers

CONSTANTS
  FileSize,       (* bufferSize, and the buffer_size of the AVIOContext    *)
  IO_BUFFER_SIZE,
  SHORT_SEEK_THRESHOLD,
  HeaderSize,     (* ID3v2_HEADER_SIZE                                     *)
  MaxRequest,     (* bound: bytes asked for in one call                    *)
  MaxOffset,      (* bound: offsets sought                                 *)
  MaxCalls        (* bound: calls of the client                            *)

(* A file whose format was recognised has at least the bytes that          *)
(* avformat_open_input looks at first.                                     *)
ASSUME SizesAssumption ==
  /\ FileSize \in Nat \ {0} /\ IO_BUFFER_SIZE \in Nat \ {0} /\ SHORT_SEEK_THRESHOLD \in Nat
  /\ HeaderSize \in 1 .. FileSize
  /\ MaxRequest \in Nat /\ HeaderSize <= MaxRequest
  /\ MaxOffset \in Nat
  /\ MaxCalls \in Nat

VARIABLES
  contents,       (* the Buffer's memory, at each place the byte it holds  *)
  currBufferOffset,
  pos,            (* of the AVIOContext: the place behind its buffer       *)
  buf_ptr, buf_end,   (* offsets from its buffer                           *)
  eof_reached,
  call,           (* what the client is waiting for                        *)
  asked, left,    (* of a read: bytes asked for, and missing               *)
  target,         (* of a seek: the offset                                 *)
  piece,          (* the bytes handed over last                            *)
  result,         (* what the last call returned                           *)
  strayed,        (* history: the client has sought or read behind the end *)
  calls           (* bound: calls so far                                   *)

streamVars == <<contents, currBufferOffset>>
avioVars   == <<pos, buf_ptr, buf_end, eof_reached>>
clientVars == <<call, asked, left, target, piece, result, strayed, calls>>
vars       == <<streamVars, avioVars, clientVars>>

Places  == 0 .. FileSize - 1
Garbage == FileSize            (* any byte of memory that is not the file's *)
AVERROR == -1

Nothing == [i \in {} |-> 0]

Init ==
  /\ contents = [i \in Places |-> i]
  /\ currBufferOffset = 0
  /\ pos = 0 /\ buf_ptr = 0 /\ buf_end = 0
  /\ eof_reached = FALSE
  /\ call = "none" /\ asked = 0 /\ left = 0 /\ target = 0
  /\ piece = Nothing /\ result = 0
  /\ strayed = FALSE /\ calls = 0

Larger(a, b)  == IF a < b THEN b ELSE a
Smaller(a, b) == IF a < b THEN a ELSE b

-----------------------------------------------------------------------------
(* FFmpegInputStreamImpl                                                   *)

(* mutant: a byte more, for a terminating zero.                            *)
BytesReadAndZero(size) == Larger(size, FileSize - currBufferOffset + 1)

(* read() takes the larger of what is asked for and what is left.          *)
BytesRead(size) == Larger(size, FileSize - currBufferOffset)

(* What ffmpegInputStreamRead answers: an error if read() copied more than *)
(* there was room for.                                                     *)
ReadResult(size) == IF BytesRead(size) <= size THEN BytesRead(size) ELSE AVERROR

(* The byte at a place counted from the Buffer's memory.                   *)
ByteAt(place) == IF place \in Places THEN contents[place] ELSE Garbage

(* memcpy to the Buffer's own memory: onto itself it changes nothing, and  *)
(* what an overlapping copy leaves is undefined.                           *)
Copied(dst, bytes) ==
  LET distance == currBufferOffset - dst
  IN  [i \in Places |->
         IF distance = 0 \/ i < dst \/ i >= dst + bytes THEN contents[i]
         ELSE IF distance < bytes /\ -distance < bytes THEN Garbage
         ELSE ByteAt(i + distance)]

(* ffmpegInputStreamSeek moves the cursor and answers EBADF all the same.  *)
SeekResult == AVERROR

-----------------------------------------------------------------------------
(* AVIOContext                                                             *)

(* mutant: as if the buffer were being written.                            *)
StartOfWritten == pos

(* The place in the file of the first byte of its buffer.                  *)
BufferStart == pos - buf_end

Position == BufferStart + buf_ptr

Available == buf_end - buf_ptr

(* fill_buffer appends to its buffer if there is room for another packet.  *)
Destination == IF buf_end + IO_BUFFER_SIZE < FileSize THEN buf_end ELSE 0

FillResult == ReadResult(FileSize - Destination)

(* fill_buffer.                                                            *)
Fill ==
  /\ contents' = Copied(Destination, BytesRead(FileSize - Destination))
  /\ currBufferOffset' = currBufferOffset + BytesRead(FileSize - Destination)
  /\ IF FillResult < 0
     THEN eof_reached' = TRUE /\ UNCHANGED <<pos, buf_ptr, buf_end>>
     ELSE /\ pos' = pos + FillResult
          /\ buf_ptr' = Destination
          /\ buf_end' = Destination + FillResult
          /\ UNCHANGED eof_reached

(* avio_read: bytes are copied out of the buffer while there are any.      *)
CopyOut ==
  /\ call = "read" /\ left > 0 /\ ~eof_reached
  /\ Available > 0
  /\ LET len == Smaller(Available, left)
     IN  /\ piece' = [i \in 0 .. len - 1 |-> ByteAt(buf_ptr + i)]
         /\ buf_ptr' = buf_ptr + len
         /\ left' = left - len
  /\ UNCHANGED <<streamVars, pos, buf_end, eof_reached, call, asked, target, result, strayed, calls>>

(* mutant: the buffer is filled before its last bytes are copied.          *)
NotMore == Available <= left

(* len == 0                                                                *)
Exhausted == Available = 0

Strays(behind) == strayed' = (strayed \/ behind)

(* A request that fits the buffer fills it.                                *)
FillToRead ==
  /\ call = "read" /\ left \in 1 .. FileSize /\ ~eof_reached
  /\ Exhausted
  /\ Fill
  /\ Strays(Position >= FileSize)
  /\ UNCHANGED <<call, asked, left, target, piece, result, calls>>

(* A larger one bypasses it.                                               *)
Bypass ==
  /\ call = "read" /\ left > FileSize /\ ~eof_reached
  /\ Exhausted
  /\ currBufferOffset' = currBufferOffset + BytesRead(left)
  /\ IF ReadResult(left) < 0
     THEN eof_reached' = TRUE /\ UNCHANGED <<pos, buf_ptr, buf_end, left, piece>>
     ELSE /\ pos' = pos + left
          /\ buf_ptr' = 0 /\ buf_end' = 0
          /\ piece' = [i \in 0 .. left - 1 |-> ByteAt(currBufferOffset + i)]
          /\ left' = 0
          /\ UNCHANGED eof_reached
  /\ Strays(Position >= FileSize)
  /\ UNCHANGED <<contents, call, asked, target, result, calls>>

Returns(value) ==
  /\ call' = "none"
  /\ asked' = 0 /\ left' = 0 /\ target' = 0
  /\ result' = value

(* Every byte asked for was handed over.                                   *)
ReturnFromRead ==
  /\ call = "read" /\ left = 0
  /\ Returns(asked)
  /\ UNCHANGED <<streamVars, avioVars, piece, strayed, calls>>

(* avio_seek inside the buffer.                                            *)
SeekInside(offset) ==
  /\ offset - BufferStart \in 0 .. buf_end
  /\ buf_ptr' = offset - BufferStart
  /\ Returns(offset)
  /\ UNCHANGED <<streamVars, pos, buf_end, eof_reached>>

(* A little ahead of it: the bytes between are read.                       *)
SeekAhead(offset) ==
  /\ offset - BufferStart \in buf_end + 1 .. buf_end + SHORT_SEEK_THRESHOLD
  /\ call' = "seek" /\ target' = offset
  /\ UNCHANGED <<streamVars, avioVars, asked, left, result>>

FillToSeek ==
  /\ call = "seek" /\ pos < target /\ ~eof_reached
  /\ Fill
  /\ UNCHANGED clientVars

(* mutant: the sign of the distance to the end of the buffer.              *)
PtrBehind(offset) == buf_end + (pos - offset)

PtrAt(offset) == buf_end - (pos - offset)

ReturnFromSeek ==
  /\ call = "seek" /\ pos >= target /\ ~eof_reached
  /\ buf_ptr' = PtrAt(target)
  /\ Returns(target)
  /\ UNCHANGED <<streamVars, pos, buf_end, eof_reached, piece, strayed, calls>>

(* Anywhere else, and a little back (to half a buffer before it), the seek *)
(* function is called; what it answers ends the call.                      *)
SeekByCallback(offset) ==
  /\ offset - BufferStart \notin 0 .. buf_end + SHORT_SEEK_THRESHOLD
  /\ currBufferOffset' =
       IF BufferStart - offset \in 1 .. (buf_end \div 2) - 1 /\ offset > 0
       THEN BufferStart - Smaller(buf_end \div 2, BufferStart)
       ELSE offset
  /\ Returns(SeekResult)
  /\ UNCHANGED <<contents, avioVars>>

-----------------------------------------------------------------------------
(* The client                                                              *)

Calls ==
  /\ call = "none" /\ ~eof_reached /\ calls < MaxCalls
  /\ calls' = calls + 1

(* avformat_open_input reads a header before anything else is done.        *)
Read(n) ==
  /\ calls = 0 => n = HeaderSize
  /\ Calls
  /\ call' = "read" /\ asked' = n /\ left' = n
  /\ UNCHANGED <<streamVars, avioVars, target, piece, result, strayed>>

Seek(offset) ==
  /\ calls > 0
  /\ Calls
  /\ Strays(offset > FileSize)
  /\ SeekInside(offset) \/ SeekAhead(offset) \/ SeekByCallback(offset)
  /\ UNCHANGED piece

(* avio_size asks the seek function for AVSEEK_SIZE.                       *)
Size ==
  /\ calls > 0
  /\ Calls
  /\ Returns(FileSize)
  /\ UNCHANGED <<streamVars, avioVars, piece, strayed>>

(* avio_feof.  It would try to read on if eof_reached were set.            *)
FeofResult == IF eof_reached THEN 1 ELSE 0

Feof ==
  /\ calls > 0
  /\ Calls
  /\ Returns(FeofResult)
  /\ UNCHANGED <<streamVars, avioVars, piece, strayed>>

Next ==
  \/ \E n \in 1 .. MaxRequest : Read(n)
  \/ CopyOut \/ FillToRead \/ Bypass \/ ReturnFromRead
  \/ \E offset \in 0 .. MaxOffset : Seek(offset)
  \/ FillToSeek \/ ReturnFromSeek
  \/ Size
  \/ Feof

Spec == Init /\ [][Next]_vars

-----------------------------------------------------------------------------
(* Properties                                                              *)

Pieces == UNION {[0 .. len - 1 -> Places \union {Garbage}] : len \in 0 .. MaxRequest}

(* Every variable has its type, and the AVIOContext its pointers in order. *)
TypeOK ==
  /\ contents \in [Places -> Places \union {Garbage}]
  /\ {currBufferOffset, pos} \subseteq Nat
  /\ buf_end \in 0 .. FileSize /\ buf_ptr \in 0 .. buf_end /\ buf_end <= pos
  /\ eof_reached \in BOOLEAN /\ strayed \in BOOLEAN
  /\ call \in {"none", "read", "seek"}
  /\ asked \in 0 .. MaxRequest /\ left \in 0 .. asked
  /\ target \in 0 .. MaxOffset
  /\ piece \in Pieces
  /\ result \in Nat \union {AVERROR}
  /\ calls \in 0 .. MaxCalls

(* read() copies the larger of what FFmpeg has room for and what is left.  *)
(* That is never more than there is room for, for any client: FFmpeg asks  *)
(* for no less than the whole file at a time.                              *)
NoOverrun == ~eof_reached

(* The memory that FFmpeg uses as its buffer is the client's file: as long *)
(* as the demuxer stays inside the file, it is as it was.                  *)
FileIntact == ~strayed => contents = [i \in Places |-> i]

(* A demuxer gets the file's bytes in order up to the end, also of a read  *)
(* that goes on behind it, and inside the file its seeks succeed, although *)
(* the stream's seek function always fails.  Behind the end its reads are  *)
(* full all the same, and its position is what it read or sought to.  A    *)
(* seek that fills is a step of the reader when it begins.                 *)
ReaderPosition == IF call = "seek" THEN target ELSE Position
ReaderResult   == IF call = "seek" THEN target ELSE result

Reader == INSTANCE FileReader WITH position <- ReaderPosition, result <- ReaderResult
ImplementsFileReader == Reader!Spec

(* FFmpeg/libavformat/avio.h: avio_feof is not 0 at the end of the file.   *)
(* So it is at least when the client has been handed bytes behind it.      *)
EndReported == (call = "none" /\ Position > FileSize) => FeofResult # 0
=============================================================================
