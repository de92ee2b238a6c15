# GifTools: specifications

GifTools makes animated GIFs in the browser: a C++ library (`lib/`, compiled to
WebAssembly) decodes images and videos and encodes GIFs, and a TypeScript class
(`src/index.ts`) drives it by integer object ids. These TLA+ modules model the parts
of it that have state worth arguing about, TLC checks them on small instances, and
TLAPS proves for every size what matters most of the storage and the table it
implements, the session, the input stream, the GIF encoder and its compression.

Paths in this file are relative to the repository's root.

## 1. Inventory

Everything is single threaded: the native code runs to its end in each call from
TypeScript. What is hard is not concurrency but *lifetime* (ids, owning and plain
pointers, slots used again), *order of calls*, *loops that end on several flags*, and
*two machines that must stay in step without talking* (a GIF encoder and its viewer).

| Component | State | Operations | What makes it correct |
|---|---|---|---|
| Managed object storage (`lib/GifToolsManagedObject.*`) | pages of 256 slots, each with an object and a 32-bit generation; a cached count of free slots | `make`, `get`, `free`, the deleter | an id finds the object it was given for, or nothing; counts agree with slots; nothing owned is freed by id |
| WebAssembly bindings (`lib/GifToolsWebAssemblyBindings.cc`) | none | release an object from its `unique_ptr` and return its id; look an id up; `objectFree` | casts by type, null results |
| Video stream (`lib/GifToolsFFmpegVideoStream.cc`) | FFmpeg's contexts, `preparedFrames`, inside a call two staging frames | open, close, prepare all frames / at a rate, pick by decoding / from the prepared, clear | frames near the time asked for, none lost, calls return |
| Input stream (`lib/GifToolsFFmpegInputStream.cc`) under FFmpeg's AVIOContext | a cursor over a buffer; FFmpeg's pointers into *the same* buffer | read, seek, size | the demuxer gets the file's bytes, in order; nothing is written outside the buffer |
| Buffer, base64, file | bytes | make, freeze | bounds |
| Images (`lib/GifToolsImage.cc`, stb) | pixels and who frees them | load, clone, resize, save | ownership of pixels |
| GIF builder and `lib/gif.h` | stream, `firstFrame`, `oldImage`, file contents; per frame a palette tree, a dictionary, a bit status | begin, add image, end; make palette, find colour, difference, compress, write bits | the viewer shows what was added |
| TypeScript session (`src/index.ts`) | free list `vmObjIds`, current builder, input and stream ids | the client's calls | no bad pointer, no leak, no early free |
| Native program and test, `gifenc.c` | | | not used by the library |
| FFmpeg, zlib, stb | | | vendored |

They interact by calls only. The client names objects by ids that the storage made;
the session keeps some of them in a list to free later; the storage's objects own other
objects (`unique_ptr`: a stream its prepared frames, a frame its image) or point at
them (a stream at its input stream, that at its buffer).

## 2. Modules

| Module | Models | Uses |
|---|---|---|
| `HandleTable` | the promise of an object table, without slots or generations | |
| `ObjStorage` | the storage's data: pages, slots, ids, as operators | |
| `ManagedObjStorage` | the storage and its two kinds of user, as a state machine | `ObjStorage`, implements `HandleTable` |
| `ManagedObjStorageProofs` | the theorems about it, and that it implements `HandleTable` | `ManagedObjStorage` |
| `FrameSampler` | the four frame-finding calls and the decoder | |
| `FrameSamplerProofs` | the theorems about it | `FrameSampler` |
| `FileReader` | the promise of a file read through FFmpeg, without buffers | |
| `FFmpegInputStream` | the input stream, the AVIOContext and its buffer, with a demuxer | implements `FileReader` |
| `FFmpegInputStreamProofs` | the theorems about it | `FFmpegInputStream` |
| `GifToolsSession` | the TypeScript class, the bindings and object ownership, with a client | ids as `HandleTable` promises |
| `GifToolsSessionProofs` | the theorems about it | `GifToolsSession` |
| `GifEncoder` | the builder and the writer, frame after frame, and a viewer | |
| `GifEncoderProofs` | the theorems about it | `GifEncoder` |
| `GifPalette` | palette tree and nearest colour | |
| `GifPaletteProofs` | the theorems about it | `GifPalette`, `Recursion` |
| `GifLzw` | compression and a viewer | |
| `GifBits` | bits, bytes and chunks, as operators | |
| `GifLzwImage` | `GifWriteLzwImage` as a whole | `GifLzw`, `GifBits` |
| `GifLzwImageProofs` | the theorems about the compression, and that the image implements it | `GifLzw`, `GifLzwImage` |
| `Recursion` | lemmas the proofs about recursive functions share | |
| `MC*` | values of the constants that are not plain | |

`PROJECT.json` lists for every definition the lines it translates.

### Managed object storage

`pages` is `mPages`, a page being `ManagedObjStoragePage`; `pageCount` is its size. An
object is identified by a `Ref`: page, slot, and how many stores to the slot it came with,
which is what a C++ pointer means while the object lives. That count (`stored`) is a history; the slot's
generation is the count modulo `SlotModulus`, 2^32 in the code, and ids and `get` see nothing else. `owned` are
the objects a `UniqueManagedObj` points at, `named` remembers every id a client was
ever given. A step is one call: `Make` (reserve, construct, store), `Release` (the
bindings return an id), `DeleteOwned` (the deleter), `ObjectFree`, `Lookup`,
`CloseStream` (`close()` ends in a placement new, which makes the object's id invalid
while it stays in its slot). `MakeFails` is `make` when the object is not made: the
reservation is never given back, which `lost` counts for each page. Widths are constants (`GenModulus` is 2^8,
`IdModulus` 2^20). After 2^32 stores to one slot its generations come round, and after 2^20 slots the identifiers:
`NoWrap` is the premise under which the statements about ids are made. Undefined behaviour ends a run in `status`: an exception out of the
deleter (`at()` for an invalid id), a read through a dangling owner, or a null read in
`get` where null traps (in WebAssembly it reads zeros and finds nothing, which is
`Lookup`).

### Frame sampler

A stream is its frame times in the order the frames come, its duration and the number of pictures its decoder holds
back. A picture may have no time (`NoTime`) or a negative one anywhere in the stream; those with a time come in its order. A step is the start of a call, one `avcodec_decode_video2` with the
`av_read_frame` before it, or what the loop then does with the picture. `prev` and
`curr` are the staging frames; each names the picture it got, and `Valid` says whether
the decoder still vouches for it. What is converted from a picture taken back is any
picture that may have been decoded into its memory (`Converted`); its time stays right,
which is why the properties about times hold all the same. Decoding may fail at any
point. `packets` says which staging frame holds a packet with data: the two are swapped with their packets, and at the end
of the stream nothing is read into the current one, so that a packet goes to the decoder twice; in `PrepareAllFrames`, which does not swap, it does not (`DrainedEmpty`, which is proved and not run). The model's decoder
gives out its pictures all the same, as one that ignores the packet does, and `DecodeFails` is what one that refuses it does. A stream may grow: `sws_scale` refuses pictures that are larger than the stream was
when it was opened (`refused`), and what is prepared from them is a null frame, which
`PrepareAllFrames` keeps and `PrepareFrames` does not (`NullsOnlyFromAll`). Whatever reads through a null frame
(the sort, or a later search) ends the model in `trapped`.

The three calls meet a picture without a time differently. `PrepareAllFrames` takes it for the end, sorts and succeeds
(what `PrepareAllComplete` says it has then are the pictures before it, and not all); the two searches choose the previous picture there, and `PrepareFrames` goes on. The properties therefore speak of the pictures
before the first such one (`Leading`), and `EverySamplePrepared` of streams without any (`AllTimed`).

Left out: packets of other streams;
streams whose container records no frame count (`FrameDuration` would divide by
zero; the session has the step at which such a stream throws). `std::sort`
is a sort; frames with times have distinct ones, except for frames prepared twice. Three
oddities of the code are in the model and break no property: a frame that is picked
before any picture was kept is the blank staging frame (`StartsAtStart` excludes it
where accuracy is claimed); `PrepareFrames` appends that blank frame, zeroed and of time 0, when it
turns to the previous picture and has kept none, as for a stream of one picture and a longer step
(`EverySamplePrepared` asks for a frame with a picture beside it); and the last prepared frame answers for any later time,
whatever the tolerance.

### Input stream

`ffmpegVideoStreamOpen` gives FFmpeg the memory of the managed `Buffer` that holds the
file as the AVIOContext's own buffer, so that each fill copies the file onto itself.
`contents` is that memory, a byte being known by its place in the file; `currBufferOffset`
is the stream's cursor, `pos`, `buf_ptr` and `buf_end` are FFmpeg's. A call of the
demuxer (`Read`, `Seek`, `Size`, `Feof`) is started by one step, and each turn of the
loops in `avio_read` and `avio_seek` is another (`CopyOut`, `FillToRead`, `Bypass`,
`FillToSeek`). Three things in the code look wrong and turn out not to hurt a demuxer that
stays inside the file:

* `read()` takes the *larger* of what is left and what is asked for. FFmpeg never has
  less room than the whole file, so nothing is overrun (`NoOverrun`); but the end of the
  file is never reported (`StreamEnd`), and a demuxer that reads on gets memory behind it.
* The seek function answers an error always, moved or not. The first fill, made for the header that
  `avformat_open_input` reads, brings the whole file into the buffer, and every seek
  inside the file is then answered from there.
* The fill copies memory onto itself. At distance 0 that changes nothing; at any other the
  result is undefined (`Garbage`), and only a demuxer that strays causes it (`FileIntact`).

`FileReader` says what a demuxer can rely on. Up to the end of the file: the bytes it is handed are the next of the file, also the first
part of a read that crosses the end, and its seeks succeed. Behind the end, and from then on (`strayed`): the bytes are any, a seek may fail and then
leaves it where it was; but every read is full and never stops short, sizes are right, and the position is the one read or sought to.
`avio_feof` answers 0 before the end; at the end nothing of it is relied on, because it is 0 there too, contrary to `avio.h`. Assumed is that a file whose format was recognised has
at least the header's bytes. Offsets relative to the position (`SEEK_CUR`) are taken as
absolute ones, and one opening of a stream is modelled.

### Session

`heap` has an object for each id: its type, what it owns, what it points at. The client
follows `tests/GifEncoding.test.ts` with any number of images and frames in any order,
and as that test does frees a picked frame by its frame id and frees a resized image
only if it is not the frame's own; `NoBadPointer` is said of such a client. It may free an image twice. It may open a stream over one that is open:
the wrapper overwrites the current id, which is on no list, and the first stream lives on unreachable (`StillOpen`). Ids are never reused
here; that they are as good as that is what the storage's refinement says. A file
that FFmpeg does not recognise makes `avformat_close_input` free memory that the storage owns: that
step is there (`OpenVideoStreamFails(FALSE)`), with a fault of its own, which `NoBadPointer` excepts, and ends the
session. A stream without a frame count throws in the middle of the opening
(`OpenVideoStreamThrows`): its object is made and owned by nobody. These streams and those opened over are what the history variable
`abandoned` names, so that `NothingForgotten` can say that nothing else is lost, and `NoBadPointer` and `OwnedOnce` that nothing worse comes of it. One life
from `init` to `deinit` is modelled.

### GIF encoding

`GifEncoder` has the writer's state (`firstFrame`, `oldImage`, blocks written) and a
viewer's canvas. A colour is a number, `Diff` its distance. The palette a frame gets is
any palette, and the indices any that `GifThresholdImage` could choose for it; images have
the extent given to Begin, which the session asserts. `oldImage` starts with
any content, as `malloc` returns it. A delay is taken as it comes: its low 16 bits (`DelayModulus`) go into the file, where they count
hundredths of a second.

`GifPalette` has no steps but the making of the palette: it is an algorithm, checked
over its inputs: a frame, the frame before it or none, and what memory held. It justifies what `GifEncoder` takes of a palette: that a changed pixel gets
a nearest entry, never the transparent one (`ClosestIsNearest`). The changed pixels are moved to the front of the frame they are read from
(`PickChangedPixels`), as in the code. Its
recursions are recursive functions, over the calls that can be made (`Calls`, `Stretches`, `Walks`). The tree's two arrays are the bytes of the struct, one behind the other: they have 255 entries
for nodes 1 to 255, so that node 255 of the first is entry 0 of the second, and that of the second is
padding. The palette is on the stack and uninitialised: each leaf and each byte of the tree holds a value of its own (`Contents`). A byte may name a component
that `comps` does not have; what is read there is any int, another one for each node, and so is the difference from the split when it overflows.
The int product of pixels and entries is assumed not to overflow (`ProductAssumption`): at depth 8 it does from about 16 million changed pixels on.

`GifLzw` has the dictionary as a function from a code and a value to a code, the width and the
largest code. The viewer is written from the format, not from the code, and
is told each code with its width: reading it with another width is `Misread`. `GifLzwImage` sends
the same codes through `GifBits`, so that `CodesSurvive` (the file holds the
codes' bits) and `PixelsSurvive` (the codes stand for the pixels, at the viewer's own
widths) together say that the file shows the image. After the last
run the viewer may widen its codes where the encoder does not, and misread the
clear and the end code; every pixel has been shown by then, which is what
`PixelsSurvive` allows.

## 3. Runs

| Run | Question | Instance |
|---|---|---|
| `StorageReuse` | stale ids, wrapped generations, failed allocations, refinement of `HandleTable` | 2 slots, generation of an id modulo 3, of a slot modulo 5, up to 4 stores to a slot |
| `StoragePages` | counts and growth over several pages, with slots used again, failed allocations, identifiers and generations that wrap | 2 pages of 2 slots, up to 3 stores to a slot, identifier modulo 3, generation of an id modulo 2, of a slot modulo 3 |
| `StorageLiveResolves` | *violated*: are living objects always found? | 1 slot, generation modulo 3 |
| `SamplerCalls` | do the calls find the right frames, and return? | every stream of up to 3 frames within 5 units, and one with a long gap; decoder delay to 2; shorter streams that grow at any picture, or have one picture with no time or a negative one |
| `SamplerPictures` | *violated*: is only a valid picture used? | as above, smaller |
| `SessionOwnership` | lifetimes under any order of calls | 9 objects, 1 prepared frame |
| `LzwImage` | does the image survive compression, bits and chunks? | depth 2, codes to 4 bits, all 2-colour patterns up to 8 long, images of 1, 7, 47 and 48 pixels |
| `EncoderCanvas` | does the viewer show what was added? | 2 pixels, 3 colours, 2 palette entries, 3 frames, delays 1 and 10 modulo 8 |
| `EncoderDelays` | *violated*: is a frame shown for the milliseconds asked for? | as above, delays 30 and 40 modulo 2^16 |
| `InputStreamReads` | does a demuxer get the file, and is nothing overrun? refinement of `FileReader` | file of 5 bytes, IO buffer of 2, short seeks to 2, header of 2; requests to 7, offsets to 13, 6 calls |
| `StreamEnd` | *violated*: does `avio_feof` report the end? | as above, 3 calls |
| `PaletteNearest` | does the walk find a nearest colour? | 3 and 15 entries, frames of up to 5 pixels of 6 colours, none before them or one of one colour, 4 contents of memory |

Why these bounds are enough. *Storage*: two slots give the choice of a slot,
three generations with four stores take every slot past its wrap and back to a value
an old id has; two pages of two slots, with three identifiers and three stores, give pages that fill, free up,
fill again, lose a slot to a failed allocation and collide. *Sampler*: the loop keeps two frames, so three frames show every transition
(first, middle, last), with irregular gaps, a delay longer than half the stream, a picture without a time first, in the middle or last, and
sample times before, at, between and behind frames. *Input stream*: a file that is larger than an IO buffer, requests
and offsets on both sides of the file and of twice the file, so that every branch of the fill and the
seek is taken, with as many calls as bring the cursor out of step and read again. *Session*: nine objects hold a
loaded image with its buffer, a stream with its two helpers, a prepared and a picked
frame with their images, or an encoder with its result. *LZW*: ten dictionary entries lie
between two clears, so that 48 pixels clear it more than once and
the widths change each time; the many patterns and lengths end
codes at every bit of a byte and of a chunk. *Encoder*: two delays that differ in the file and
of which one is cut, so that frames out of order, or with each other's delays, are seen. *Palette*: fewer, as many and more pixels
than entries, in every order; at depth 4 searches pass through unwritten nodes below which other nodes are, and meet components that are not there
and differences that overflow. Which pixels changed is any subset, because any pixel of the frame may be of the colour of the one before.

`DeleteDangling` needs identifiers that wrap: it is taken in `StoragePages` only.

Deadlock is not checked where a run ends by itself: bounded generations, a bounded heap or `deinit`, a bounded
number of calls, an image that is written and read, a palette that is made, a trap, which really stops the module.

### Fairness

`SamplerCalls` assumes weak fairness of the loop, not of the client: a synchronous C++ call that has begun
goes on. `LzwImage` assumes it of the viewer, which reads what is written; nothing is assumed of the encoder.

## 4. What the code does otherwise than it says

* **Objects of a busy slot are not found** (`StorageLiveResolves`). After a slot has been stored to 256
  times its 32-bit generation does not equal the 8 bits of an id again before it wraps itself; every object
  made there is null to its client, and can not be freed by id. Up to then `LiveResolvesUntilWrap`
  holds, and the ids are still safe: `StaleIdNeverAliases` holds past the wrap *because* the full width is compared.
* **A picture is used after the decoder took it back** (`SamplerPictures`).
* **Delays are ten times as long as asked for** (`EncoderDelays`): `index.ts` says milliseconds, the file counts hundredths of a second.
* **The end of the file is not reported** (`StreamEnd`): `read()` never reads short, and `avio_feof` stays 0.

Others break no property, because the model does what the code does and the properties say where the harm ends:

* `PrepareAllFrames` takes a picture without a time in the middle of a stream for the end, and succeeds with the frames before it.
* `PickBestPreparedFrame` compares the first prepared frame at or after the time with the next, never with the one before, which may be closer.
* `PickBestFrame` and `PrepareFrames` may give the decoder a packet with data again at the end of the stream, where `avcodec.h` asks for empty ones.
* `deinit` frees nothing: the rest parameter of `internalFreeObjIds` is never undefined. The comments at `index.ts:76` and `:105` say that it frees everything.
* A null frame in the list that is sorted is read through, and a stream is lost when its opening throws or another is opened over it.

What is not modelled at all (memory that is never freed, a view that is detached when memory grows) is in the hazards of `PROJECT.json` with the reason.

## 5. Proofs

`ManagedObjStorageProofs` proves, for every page length, number of pages, width of generation and
identifier, set of types and bound:
type correctness, `FreeCountSound`, `StaleIdNeverAliases`, `OwnedAlive`, `LiveResolvesUntilWrap` and
`GrowsOnlyWhenFull`. The properties are not inductive. That an owner's object is alive after a client frees by id
needs that no id of a client finds an owned object; that needs that ids and objects correspond; and that the
id an object carries names the slot it is in, with the slot's generation reduced to the id's width. `IInv` is the conjunction of
`TypeOK`, `FreeCountSound` and those facts; one step per action, one lemma for each of the
operators `Store`, `Free`, `Get` and `Closed` on which they rest. The statements about ids have the premise
`NoWrap`: no more slots than identifiers (4096 pages, about a million objects), and no slot stored to as often as its 32-bit generation counts,
since an id that was kept over 2^32 stores could find the object that is there then. The counts (`FreeCountSound`, `GrowsOnlyWhenFull`) need neither.

`GifEncoderProofs` proves, for every set of pixels, colours and palette entries, every delay and any number of images: type
correctness; that `oldImage` is there exactly while the file is open; `ViewerShowsOldImage`, and from it `ShownFaithfully`
(what is shown after a frame is the image, as near as its palette allows, whatever was shown before); and `EndedOnce`, which says what is in the
file: its header, the frames that were added in order with the low 16 bits of their delays, and the trailer once it is closed. The invariant adds what these need of the
contents: they are in one place, the open file or what is left to give the client (`ContentsInOnePlace`).
A pixel can be transparent only where there was an image before it, which is what keeps the uninitialised `oldImage` out
of the first frame (`TransparentIsUnchanged`).

`ManagedObjStorageProofs` also proves that the storage implements `HandleTable` for every size under the same premise
(`StorageImplementsTable`): Init maps to Init, and every call to one step of the table or none. Its invariant is that of the storage with
`Counted`: a generation counts the stores to a slot, so that each object that was ever there has a handle of its own. The refinement alone would be satisfied by a table that never finds anything, since a lookup that
answers nothing twice is a stutter: `LiveResolvesUntilWrap` says the rest.

`FFmpegInputStreamProofs` proves, for every size of the file, the buffers and the requests, and any demuxer: type correctness, `NoOverrun`,
`FileIntact`, and the whole refinement of `FileReader`, behind the end of the file as well as before it. The invariant rests on one fact that no single function of the code shows: the
buffer is empty or it is the whole file (`AllOrNothing`). While the demuxer stays inside the file the buffer is empty only before the first read has filled it
(`WholeFile`), so that no seek calls the callback and no fill finds the cursor elsewhere than at 0; a seek that fills is one of a
demuxer that has strayed (`CallConsistent`), and counts as done when it begins (`ReaderPosition`, `ReaderResult`).

`GifToolsSessionProofs` proves, for sessions of any length with any number of objects and prepared frames, and for the client of section 2, who may open streams over others: type correctness, `NoBadPointer`,
`OwnedOnce`, `ListedLive`, `NothingForgotten`, `PickedFramesKept` and `GifReadable`. None is inductive. The invariant `IInv` adds:
ids are given in order (what is not made yet is not there); ownership has the shape stream, frame, image and no deeper, a frame's image
being made right behind it; the free list names living objects that nobody else owns; the current stream reads through its own input stream, that
through its own buffer; what the client holds lives, or was freed by the client. `DestroySound` is the lemma the calls that free rest on.

`GifLzwImageProofs` proves, for every depth of the palette, longest code and image: type correctness, `PixelsSurvive` and `InStep`. The encoder puts the run it ends with the
next pixel into its dictionary at once; the viewer can only when it has read the code behind that. `IInv` says how far
behind the viewer is in each of six states. When every code was read (`Idle`), it lacks the one newest
entry, and knows what that will be: the run before, and the first pixel of the run in progress, which is why it can read a code it does not have yet. While
a run is on its way (`RunSent`) it lacks two. `RunAndClearSent` and `ClearSent` are the full dictionary, `LastRunSent` and `Finished` the end. The widths agree
because the encoder widens when its newest entry passes the barrier, and the viewer one entry later with one entry fewer. The prover knows nothing of powers: that
2^(n+1) is twice 2^n is `PowersAssumption`, the only fact about them the proof takes, which TLC evaluates up to `MaxBits`; that powers grow is proved from it.

`GifLzwImageProofs` proves that `GifLzwImage` implements `GifLzw`, so that these properties hold of the image as it is written, and, for every number of bits of a byte
and bytes of a chunk, what the bits themselves do: `ImageTypeOK`, `CodesSurvive` and `EndsWhereRead`. Until the footer is written (`BitsInv`), file and status
together hold the bits of the codes so far (`Encodes`): behind the chunks that are in the file a viewer would go on whatever came next (`GoesOn`), it has read their bytes, and
these, the bytes of the chunk in progress and the bits of the byte in progress are the bits sent (`Holds`). A bit changes only
the byte in progress, since nothing is above the bits it has (`BitAdded`, `BitWritten`); a full chunk is one a viewer goes on behind (`ChunkIsRead`, `GoesOnThrough`);
zeros fill the last byte and the empty chunk ends the image (`FilledUp`, `EndWritten`). The recursive functions are never induced on by a rule of the
library, which the provers cannot apply: in the module `Recursion`, `RecursionSolved` shows for any set, rank and step that a recursion which goes down has a solution, and `RankInduction` that what goes
up from smaller ranks holds of all; both by the smallest rank where they would fail. Of powers it takes `BytePowersAssumption`, the
like of `PowersAssumption` for the bits of a byte.

`FrameSamplerProofs` proves, for every set of streams (any number of frames, at increasing times or with none, any decoder delay, any pictures refused), every time and
every rate: type correctness, all the safety properties of `SamplerCalls` and `DrainedEmpty`, which is inductive as it stands. Of the constants it takes `VideosAssumption` and `TimesAssumption` (frames that have times come in their order; the missing time is
negative and farther from 0 than a stream is long). `IInv` says what the staging frames and the decoder have to do with each other: the current frame is the
decoder's latest picture while it is examined (`ExaminesLatest`); the end is reached only when every packet was given
(`EndIsEnd`); in a search the previous frame is the picture before the one in progress, at or before the time asked for (`SearchBehind`);
what `PrepareAllFrames` has prepared are the pictures so far (`AllSoFar`); `PrepareFrames` has kept no null frame (`NoNullSoFar`); and what is there between calls is in
order (`IdleInOrder`). For `EverySamplePrepared` it adds `SamplesServed`: every sample before the current one has its frame, and for every later time the nearest picture
seen is among the prepared frames or still in hand. That is why a picture that was passed over is never missed. Two facts about data are proved without an induction over it: that the bisection is defined and finds what it
should, since a shortest stretch on which it did not would have a shorter one inside it (`SmallestExists`, `TurnShortens`); and that sorting
puts in order and keeps every frame, since it is by rank, and no two frames have the same (`RankOnto`).

`GifPaletteProofs` proves, for every depth of at least 2, every frame, any frame before it, and whatever each leaf and node of the memory, each component that is not
there and each overflowing difference is: type correctness, `ClosestIsNearest`, `FewPixelsExact` and
`SplitsAtMedian`. The module has one step; what there is to prove is one loop and three recursions, each solved and then taken by rank with the lemmas of `Recursion`:

* *The pick.* A changed pixel is read from its own place or from behind the one it goes to, so that none is written over before it is looked at (`PickedOn`);
  what is picked are the colours of the changed pixels, as many as they are (`PickSound`).
* *The sort.* A turn of the loop keeps what is below the pivot before `store` and what is not behind it (`Scanning`), so the pivot comes to rest between
  (`Parted`). The stretch that is sorted on has the center in it and is cut out of the image: nothing before it is above anything in it, nothing behind it below (`Bounded`).
* *The tree.* A call is placed: it has the entries whose leaves are below its node, the transparent one left out, and its split is in their middle (`Placed`). It
  then builds its part (`Built`): it writes nothing but that; if it has a pixel for every entry, every entry has a colour between those of the
  pixels; if it has an entry for every pixel, every pixel has its colour; and each node above such an entry sends a search for the entry's colour to
  the entry's side (`Guides`, `Sided`). `SubPixelsSound` says that both cases pass on to both parts, and `AverageSound` that
  the average of a part stays on the part's side of the split. Both cases are needed: between them, with few pixels and an uneven split, are
  unwritten entries and nodes that a search passes through.
* *The walk.* It answers with nothing farther than any entry that the nodes lead to (`Answers`). An entry on the far side is no nearer than the
  split, so that it is safe to leave it out (`FarBeyond`). With few pixels the walk finds the pixel's own colour, and distance 0 can not be
  beaten by an unwritten entry; otherwise every entry was written, and the nodes lead to all. The node of the transparent entry, written last over whatever the tree put
  there, has only that entry on its left (`MadeSound`).

The two tree arrays are one behind the other in memory, and the last node is written behind the end of both: `NodeWritten` shows that no other
node notices. Of the constants it takes `PaletteAssumption`, `GarbageAssumption`, which says of the memory only what type it has, and `DepthPowersAssumption`, the like of
`PowersAssumption` for the depths. No step of a proof uses `ProductAssumption`: it is there because the model's product is not an int, and without it what is proved would
not be of the code.

Only model-checked: the liveness properties, which are beyond the prover.

## 6. Not modelled

Dithering (never asked for), image codecs and filters (stb), base64 of buffers (a pure conversion no code of the wrapper reaches), file reading, the native program, `gifenc.c`, FFmpeg
beyond what the sampler sees of the decoder and the input stream of the AVIOContext. Of the session: `bufferToBase64` (the binding has another name), the
contents of arrays, the growth of the module's memory, and a second `init()` behind `deinit()`, which would keep the old ids and the
old free list for a new module. Of the images: the storage of their pixels. An image is given its pixels once, when it is made, and nobody
else frees them; what is wrong there (pixels that were acquired are never freed, since `acquire` does not
hand them to the `unique_ptr`) is a plain leak that no order of calls changes.

## 7. Plan

Done, in the order of weight:

1. Storage: model, runs, refinement; proofs of its invariants and of the refinement.
2. Sampler and session: models and runs; proofs of both.
3. GIF encoding: encoder, palette, compression and bits; proofs of all four.
4. Input stream: model, run, refinement and proofs.

Left:

1. `GifToolsSession` over `ManagedObjStorage` instead of numbered ids, on an instance with few slots, so that a stale id of the
   session meets a slot used again.
2. A session with several lives, from `init` to `deinit` and again.
