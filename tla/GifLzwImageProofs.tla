--------------------------- MODULE GifLzwImageProofs ---------------------------
(***************************************************************************)
(* Proofs about GifLzw and GifLzwImage: whatever the image, the depth of   *)
(* its palette and the longest code, the viewer shows the image; and it    *)
(* gets the bits of every code back from the bytes of the file, whatever   *)
(* the bits of a byte and the bytes of a chunk.  The bit writer takes the  *)
(* codes and has no say in them, so that what is proved of the compression *)
(* holds of the image as it is written.                                    *)
(***************************************************************************)
EXTENDS GifLzwImage, Recursion, SequenceTheorems

-----------------------------------------------------------------------------
(* The inductive invariant                                                 *)

Values == 0 .. ClearCode - 1

(* The codes that stand for pixels when the newest entry is top.           *)
Learnt(top) == Values \union (EndCode + 1 .. top)

(* The viewer's dictionary up to the entry top.                            *)
TableUpTo(top) ==
  /\ DOMAIN table = Learnt(top)
  /\ \A c \in Learnt(top) : table[c] \in Seq(Values) /\ table[c] # <<>>
  /\ \A v \in Values : table[v] = <<v>>

(* The viewer has this entry of the encoder's, for the same run.           *)
Shared(x) == /\ x[1] \in DOMAIN table /\ codetree[x] \in DOMAIN table
             /\ table[codetree[x]] = Append(table[x[1]], x[2])

(* They are the pixels of the image behind the first ones, up to last.     *)
Spells(pixels, first, last) ==
  /\ Len(pixels) = last - first
  /\ \A i \in 1 .. Len(pixels) : image[first + i] = pixels[i]

(* What the viewer has when its newest entry is top.                       *)
Sees(top) == TableUpTo(top) /\ (previous = -1 \/ previous \in Learnt(top))

(* It can read code c, and shows by it the pixels taken up to last.        *)
Stands(c, top, last) ==
  /\ c \in Learnt(top) \/ (previous # -1 /\ c = top + 1)
  /\ Spells(Pixels(c), shown, last)

(* The encoder has an empty dictionary.                                    *)
Fresh == codetree = EmptyTree /\ maxCode = EndCode /\ codeSize = MinCodeSize + 1

(* Every code was read.  The viewer is one entry behind, which it makes    *)
(* from the code before and the first pixel of the next run.               *)
Idle ==
  /\ codes = <<>> /\ ~written /\ ~garbled
  /\ maxCode \in EndCode .. LastCode - 1 /\ maxCode < 2^codeSize /\ width = codeSize
  /\ \E top \in EndCode .. LastCode - 1 :
       /\ Sees(top)
       /\ IF previous = -1 THEN Fresh /\ top = EndCode
          ELSE /\ maxCode = top + 1
               /\ \A x \in DOMAIN codetree : IF codetree[x] = maxCode
                                             THEN x = <<previous, image[shown + 1]>>
                                             ELSE Shared(x)
       /\ IF curCode = -1 THEN count = 0 /\ previous = -1 ELSE Stands(curCode, top, count)

(* The next run starts with the last pixel taken.                          *)
Restarted == count >= 1 /\ curCode = image[count]

(* The code of a run is on its way: the viewer is two entries behind.      *)
RunSent ==
  /\ ~written /\ ~garbled /\ Restarted
  /\ maxCode \in EndCode + 1 .. LastCode - 1
  /\ codeSize = Wider(maxCode, width) /\ maxCode <= 2^width
  /\ \E c \in AllCodes, top \in EndCode .. LastCode - 1 :
       /\ codes = <<Code(c, width)>>
       /\ Sees(top) /\ Stands(c, top, count - 1)
       /\ IF previous = -1 THEN top = EndCode /\ maxCode = top + 1 /\ codeSize = width
          ELSE maxCode = top + 2
       /\ \A x \in DOMAIN codetree :
            \/ codetree[x] = maxCode /\ x = <<c, curCode>>
            \/ codetree[x] = maxCode - 1 /\ x = <<previous, image[shown + 1]>> /\ previous # -1
            \/ codetree[x] # maxCode /\ Shared(x)

(* The dictionary is full, and a clear follows the run.                    *)
RunAndClearSent ==
  /\ ~written /\ ~garbled /\ Restarted /\ Fresh
  /\ previous # -1 /\ Sees(LastCode - 2) /\ LastCode <= 2^width
  /\ \E c \in AllCodes :
       /\ codes = <<Code(c, width), Code(ClearCode, Wider(LastCode, width))>>
       /\ Stands(c, LastCode - 2, count - 1)

(* A clear is on its way, in the beginning or behind a run.                *)
ClearSent ==
  /\ ~written /\ ~garbled /\ Fresh
  /\ codes = <<Code(ClearCode, width)>>
  /\ IF curCode = -1 THEN count = 0 /\ shown = 0 ELSE Restarted /\ shown = count - 1

(* The last run is on its way.                                             *)
LastRunSent ==
  /\ written /\ ~garbled /\ count = Len(image)
  /\ \E c \in AllCodes, top \in EndCode .. LastCode - 1 :
       /\ codes = <<Code(c, width), Code(ClearCode, width), Code(EndCode, MinCodeSize + 1)>>
       /\ Sees(top) /\ Stands(c, top, Len(image))

(* All pixels have been shown.                                             *)
Finished ==
  /\ written /\ shown = Len(image) /\ count = Len(image)
  /\ \A i \in 1 .. Len(codes) : codes[i].code \in {ClearCode, EndCode}

IInv == /\ TypeOK /\ image # <<>>
        /\ (Idle \/ RunSent \/ RunAndClearSent \/ ClearSent \/ LastRunSent \/ Finished)

-----------------------------------------------------------------------------
(* Numbers                                                                 *)

(* The powers of two from bits on are no smaller than its own.             *)
LEMMA PowersGrow ==
  ASSUME NEW bits \in 0 .. MaxBits, NEW n \in bits .. MaxBits
  PROVE  2^n >= 2^bits
<1> DEFINE Smaller == {k \in bits .. MaxBits : 2^k < 2^bits}
<1>1. MaxBits \in Nat
  BY LzwAssumption
<1>2. SUFFICES ASSUME Smaller # {} PROVE FALSE
  BY <1>1, PowersAssumption
<1>3. Smaller \subseteq Nat
  BY <1>1
<1>4. PICK m \in Smaller : \A x \in Smaller : m <= x
  BY <1>2, <1>3, SmallestExists
<1>5. m # bits /\ m \in bits + 1 .. MaxBits
  BY <1>1, <1>4, PowersAssumption
<1>6. m - 1 \in bits .. MaxBits /\ m - 1 \notin Smaller
  BY <1>1, <1>4, <1>5
<1>7. 2^(m - 1) \in Nat /\ 2^m = 2 * 2^(m - 1) /\ 2^bits \in Nat
  <2>1. m - 1 \in 0 .. MaxBits /\ (m - 1) + 1 = m
    BY <1>1, <1>6
  <2>2. 2^(m - 1) \in Nat /\ 2^((m - 1) + 1) = 2 * 2^(m - 1)
    BY <2>1, PowersAssumption
  <2>3. QED
    BY <2>1, <2>2, PowersAssumption
<1>8. 2^(m - 1) >= 2^bits
  BY <1>6, <1>7
<1>9. QED
  BY <1>4, <1>7, <1>8

(* What the rest relies on: the codes from a clear to a full dictionary.   *)
LEMMA Sizes ==
  /\ BitDepth \in Nat /\ MaxBits \in Nat
  /\ MinCodeSize \in Nat /\ MinCodeSize + 1 \in 1 .. MaxBits
  /\ ClearCode \in Nat /\ ClearCode >= 4 /\ EndCode = ClearCode + 1
  /\ 2^(MinCodeSize + 1) = 2 * ClearCode
  /\ 2^MaxBits = LastCode + 1
  /\ LastCode \in Nat /\ LastCode >= EndCode + 2
<1>1. BitDepth \in 2 .. MaxBits /\ BitDepth + 1 \in 1 .. MaxBits /\ MaxBits \in Nat
  BY LzwAssumption
<1>2. 2^2 = 4
  OBVIOUS
<1>3. 2^BitDepth \in Nat /\ 2^(BitDepth + 1) = 2 * 2^BitDepth /\ 2^MaxBits \in Nat
  BY <1>1, PowersAssumption
<1>4. 2^BitDepth >= 4
  <2>1. 2 \in 0 .. MaxBits
    BY <1>1
  <2>2. 2^BitDepth >= 2^2
    BY <1>1, <2>1, PowersGrow
  <2>3. QED
    BY <1>2, <2>2
<1>5. 2^MaxBits >= 2^(BitDepth + 1)
  <2>1. BitDepth + 1 \in 0 .. MaxBits /\ MaxBits \in BitDepth + 1 .. MaxBits
    BY <1>1
  <2>2. QED
    BY <2>1, PowersGrow
<1>6. QED
  BY <1>1, <1>3, <1>4, <1>5 DEF MinCodeSize, ClearCode, EndCode, LastCode

-----------------------------------------------------------------------------
(* The viewer                                                              *)

(* What the lemmas need of the types.                                      *)
ImageTyped == /\ image \in Seq(Values) /\ Len(image) \in Nat
              /\ count \in 0 .. Len(image) /\ shown \in 0 .. count
              /\ \A i \in 1 .. Len(image) : image[i] \in Values

(* What the types say of the image and the widths.                         *)
LEMMA TypesOfImage ==
  ASSUME TypeOK
  PROVE  /\ ImageTyped
         /\ width \in MinCodeSize + 1 .. MaxBits /\ width \in Nat
         /\ codeSize \in MinCodeSize + 1 .. MaxBits /\ codeSize \in Nat
         /\ 2^width \in Nat /\ 2^(width + 1) = 2 * 2^width
<1>1. image \in Seq(Values) /\ count \in 0 .. Len(image) /\ shown \in 0 .. count
  BY DEF TypeOK, Values
<1>2. Len(image) \in Nat /\ \A i \in 1 .. Len(image) : image[i] \in Values
  BY <1>1, LenProperties, ElementOfSeq
<1>3. width \in MinCodeSize + 1 .. MaxBits /\ codeSize \in MinCodeSize + 1 .. MaxBits
  BY DEF TypeOK
<1>4. width \in 0 .. MaxBits /\ codeSize \in 0 .. MaxBits
  BY <1>3, Sizes
<1>5. QED
  BY <1>1, <1>2, <1>3, <1>4, PowersAssumption DEF ImageTyped

(* The entry the viewer makes next is the one behind its newest.           *)
LEMMA NextEntryIs ==
  ASSUME NEW top \in EndCode .. LastCode, TableUpTo(top)
  PROVE  NextEntry = top + 1
<1>1. DOMAIN table = Learnt(top) /\ DOMAIN Roots = Values
  BY DEF TableUpTo, Roots, Values
<1>2. CASE top = EndCode
  BY <1>1, <1>2, Sizes DEF Learnt, NextEntry
<1>3. CASE top # EndCode
  <2>1. EndCode + 1 \in Learnt(top) /\ EndCode + 1 \notin Values
    BY <1>3, Sizes DEF Learnt, Values
  <2>2. \A c \in EndCode + 2 .. LastCode + 1 :
          (c - 1 \in Learnt(top) /\ c \notin Learnt(top)) <=> c = top + 1
    BY <1>3, Sizes DEF Learnt, Values
  <2>3. top + 1 \in EndCode + 2 .. LastCode + 1
    BY <1>3, Sizes
  <2>4. NextEntry = CHOOSE c \in EndCode + 2 .. LastCode + 1 :
                      c - 1 \in Learnt(top) /\ c \notin Learnt(top)
    BY <1>1, <2>1 DEF NextEntry
  <2>5. QED
    BY <2>2, <2>3, <2>4
<1>4. QED
  BY <1>2, <1>3

(* A code the viewer can read stands for pixels.                           *)
LEMMA ReadablePixels ==
  ASSUME NEW top \in EndCode .. LastCode - 1, Sees(top),
         NEW c, c \in Learnt(top) \/ (previous # -1 /\ c = top + 1)
  PROVE  /\ c \in Nat /\ c \in AllCodes /\ c \notin {ClearCode, EndCode}
         /\ c \in DOMAIN table <=> c \in Learnt(top)
         /\ previous # -1 => previous \in DOMAIN table /\ previous \in Nat
         /\ Readable(c)
         /\ Pixels(c) \in Seq(Values) /\ Len(Pixels(c)) \in Nat \ {0}
         /\ Head(Pixels(c)) = Pixels(c)[1] /\ Pixels(c)[1] \in Values
<1>1. c \in Nat /\ c \in AllCodes /\ c \notin {ClearCode, EndCode}
  <2>1. c \in Values \/ c \in EndCode + 1 .. top \/ c = top + 1
    BY DEF Learnt
  <2>2. QED
    BY <2>1, Sizes DEF Values, AllCodes
<1>2. DOMAIN table = Learnt(top) /\ NextEntry = top + 1
  BY NextEntryIs, Sizes DEF Sees, TableUpTo
<1>3. previous # -1 => previous \in DOMAIN table /\ previous \in Nat
  BY <1>2, Sizes DEF Sees, Learnt, Values
<1>4. Readable(c)
  BY <1>2, <1>3 DEF Readable
<1>5. \A x \in DOMAIN table : /\ table[x] \in Seq(Values) /\ table[x] # <<>>
                              /\ Append(table[x], Head(table[x])) \in Seq(Values)
                              /\ Append(table[x], Head(table[x])) # <<>>
  <2>1. SUFFICES ASSUME NEW x \in DOMAIN table
                 PROVE  /\ table[x] \in Seq(Values) /\ table[x] # <<>>
                        /\ Append(table[x], Head(table[x])) \in Seq(Values)
                        /\ Append(table[x], Head(table[x])) # <<>>
    OBVIOUS
  <2>2. table[x] \in Seq(Values) /\ table[x] # <<>>
    BY DEF Sees, TableUpTo
  <2>3. Head(table[x]) \in Values
    BY <2>2, HeadTailProperties
  <2>4. QED
    BY <2>2, <2>3, AppendProperties
<1>6. Pixels(c) \in Seq(Values) /\ Pixels(c) # <<>>
  BY <1>2, <1>3, <1>5 DEF Pixels
<1>7. Len(Pixels(c)) \in Nat \ {0}
  BY <1>6, EmptySeq
<1>8. Pixels(c)[1] \in Values
  BY <1>6, <1>7, ElementOfSeq
<1>9. Head(Pixels(c)) = Pixels(c)[1]
  BY <1>6, <1>7
<1>10. QED
  BY <1>1, <1>2, <1>3, <1>4, <1>6, <1>7, <1>8, <1>9

(* Part of a sequence.                                                     *)
LEMMA PartOfSequence ==
  ASSUME NEW S, NEW seq \in Seq(S), Len(seq) \in Nat,
         NEW from \in Int, NEW to \in Int, from >= 1, to <= Len(seq)
  PROVE  /\ SubSeq(seq, from, to) \in Seq(S)
         /\ Len(SubSeq(seq, from, to)) = IF from <= to THEN to - from + 1 ELSE 0
         /\ \A i \in 1 .. to - from + 1 : SubSeq(seq, from, to)[i] = seq[from + i - 1]
  OBVIOUS

(* What spells the image up to what was taken is next.                     *)
LEMMA SpelledAreNext ==
  ASSUME ImageTyped, NEW pixels \in Seq(Values), NEW last \in Nat, last <= count,
         Spells(pixels, shown, last)
  PROVE  AreNext(pixels) /\ Len(pixels) \in Nat /\ shown + Len(pixels) = last
<1>1. Len(pixels) \in Nat /\ shown \in Nat /\ count \in Nat /\ count <= Len(image) /\ Len(image) \in Nat
  BY LenProperties DEF ImageTyped
<1>2. shown + Len(pixels) = last
  BY <1>1 DEF Spells
<1>3. /\ SubSeq(image, shown + 1, shown + Len(pixels)) \in Seq(Values)
      /\ Len(SubSeq(image, shown + 1, shown + Len(pixels))) = Len(pixels)
      /\ \A i \in 1 .. Len(pixels) : SubSeq(image, shown + 1, shown + Len(pixels))[i] = image[shown + i]
  <2> DEFINE from == shown + 1
             to   == shown + Len(pixels)
  <2>1. image \in Seq(Values) /\ from >= 1 /\ to <= Len(image)
    BY <1>1, <1>2 DEF ImageTyped
  <2>2. from \in Int /\ to \in Int /\ to - from + 1 = Len(pixels) /\ (from <= to <=> Len(pixels) # 0)
        /\ \A i \in Int : from + i - 1 = shown + i
    BY <1>1
  <2> HIDE DEF from, to
  <2>3. /\ SubSeq(image, from, to) \in Seq(Values)
        /\ Len(SubSeq(image, from, to)) = IF from <= to THEN to - from + 1 ELSE 0
        /\ \A i \in 1 .. to - from + 1 : SubSeq(image, from, to)[i] = image[from + i - 1]
    BY <1>1, <2>1, <2>2, PartOfSequence
  <2>4. /\ Len(SubSeq(image, from, to)) = Len(pixels)
        /\ \A i \in 1 .. Len(pixels) : SubSeq(image, from, to)[i] = image[shown + i]
    BY <1>1, <2>2, <2>3
  <2>5. QED
    BY <2>3, <2>4 DEF from, to
<1>4. SubSeq(image, shown + 1, shown + Len(pixels)) = pixels
  BY <1>3, SeqEqual DEF Spells
<1>5. QED
  BY <1>1, <1>2, <1>4 DEF AreNext

(* One pixel more.                                                         *)
LEMMA SpellsOneMore ==
  ASSUME NEW pixels \in Seq(Values), NEW first \in Nat, NEW last \in Nat,
         Spells(pixels, first, last), image[last + 1] \in Values
  PROVE  Spells(Append(pixels, image[last + 1]), first, last + 1)
<1>1. Len(pixels) \in Nat
  BY LenProperties
<1>2. /\ Len(Append(pixels, image[last + 1])) = Len(pixels) + 1
      /\ \A i \in 1 .. Len(pixels) : Append(pixels, image[last + 1])[i] = pixels[i]
      /\ Append(pixels, image[last + 1])[Len(pixels) + 1] = image[last + 1]
  BY AppendProperties
<1>3. Len(pixels) = last - first /\ first + (Len(pixels) + 1) = last + 1
  BY <1>1 DEF Spells
<1>4. QED
  BY <1>1, <1>2, <1>3 DEF Spells

(* What reading the code of a run does to the viewer.                      *)
LEMMA RunIsRead ==
  ASSUME TypeOK, NEW top \in EndCode .. LastCode - 1, Sees(top),
         NEW c, c \in Learnt(top) \/ (previous # -1 /\ c = top + 1),
         Head(codes).code = c, ReadRun
  PROVE  /\ shown' = shown + Len(Pixels(c)) /\ previous' = c /\ codes' = Tail(codes)
         /\ UNCHANGED <<encoder, garbled>>
         /\ width' \in MinCodeSize + 1 .. MaxBits
         /\ previous = -1 => table' = table /\ width' = width /\ c \in Learnt(top)
         /\ previous # -1 =>
              /\ TableUpTo(top + 1)'
              /\ table'[top + 1] = Append(table[previous], Pixels(c)[1])
              /\ width' = IF top + 2 = 2^width /\ width < MaxBits THEN width + 1 ELSE width
         /\ \A x \in DOMAIN table : x \in DOMAIN table' /\ table'[x] = table[x]
         /\ DOMAIN table' \subseteq AllCodes
<1>1. /\ c \in Nat /\ DOMAIN table = Learnt(top) /\ NextEntry = top + 1
      /\ previous # -1 => previous \in DOMAIN table /\ previous \in Nat
      /\ Pixels(c) \in Seq(Values) /\ Head(Pixels(c)) = Pixels(c)[1] /\ Pixels(c)[1] \in Values
  BY ReadablePixels, NextEntryIs, Sizes DEF Sees, TableUpTo
<1>2. /\ shown' = shown + Len(Pixels(c)) /\ previous' = c /\ codes' = Tail(codes)
      /\ UNCHANGED <<encoder, garbled>>
  BY DEF ReadRun
<1>3. CASE previous = -1
  <2>1. table' = table /\ width' = width
    BY <1>3 DEF ReadRun
  <2>2. DOMAIN table \subseteq AllCodes
    BY DEF TypeOK
  <2>3. QED
    BY <1>2, <1>3, <2>1, <2>2, TypesOfImage
<1>4. CASE previous # -1
  <2>1. previous >= 0 /\ NextEntry <= LastCode /\ top + 1 \notin DOMAIN table
    BY <1>1, <1>4, Sizes DEF Learnt, Values
  <2>2. table' = [x \in DOMAIN table \union {top + 1} |->
                    IF x = top + 1 THEN Append(table[previous], Pixels(c)[1]) ELSE table[x]]
    BY <1>1, <2>1 DEF ReadRun
  <2>3. width' = IF top + 2 = 2^width /\ width < MaxBits THEN width + 1 ELSE width
    <3>1. NextEntry + 1 = top + 2
      BY <1>1, Sizes
    <3>2. QED
      BY <2>1, <3>1 DEF ReadRun
  <2>4. DOMAIN table \union {top + 1} = Learnt(top + 1)
    BY <1>1, Sizes DEF Learnt
  <2>5. /\ DOMAIN table' = Learnt(top + 1)
        /\ table'[top + 1] = Append(table[previous], Pixels(c)[1])
        /\ \A x \in DOMAIN table : x \in DOMAIN table' /\ table'[x] = table[x]
    BY <2>1, <2>2, <2>4
  <2>6. Append(table[previous], Pixels(c)[1]) \in Seq(Values)
        /\ Append(table[previous], Pixels(c)[1]) # <<>>
    <3>1. table[previous] \in Seq(Values)
      BY <1>1, <1>4 DEF Sees, TableUpTo
    <3>2. QED
      BY <1>1, <3>1, AppendProperties
  <2>7. TableUpTo(top + 1)'
    <3>1. \A x \in Learnt(top + 1) : x \in Learnt(top) \/ x = top + 1
      BY <1>1, <2>4
    <3>2. \A x \in Learnt(top) : table'[x] = table[x] /\ table[x] \in Seq(Values) /\ table[x] # <<>>
      BY <1>1, <2>5 DEF Sees, TableUpTo
    <3>3. \A v \in Values : v \in Learnt(top) /\ table[v] = <<v>>
      BY DEF Learnt, Sees, TableUpTo
    <3>4. QED
      BY <2>5, <2>6, <3>1, <3>2, <3>3 DEF TableUpTo
  <2>8. DOMAIN table' \subseteq AllCodes
    BY <2>5, Sizes DEF Learnt, Values, AllCodes
  <2>9. width' \in MinCodeSize + 1 .. MaxBits
    BY <2>3, TypesOfImage, Sizes
  <2>10. QED
    BY <1>2, <1>4, <2>3, <2>5, <2>7, <2>8, <2>9
<1>5. QED
  BY <1>3, <1>4

-----------------------------------------------------------------------------
(* The steps                                                               *)

(* Sequences of up to three codes.                                         *)
LEMMA ShortSequences ==
  ASSUME NEW S, NEW a \in S, NEW b \in S, NEW c \in S
  PROVE  /\ <<>> \in Seq(S)
         /\ <<a>> \in Seq(S) /\ <<a>> # <<>> /\ Head(<<a>>) = a /\ Tail(<<a>>) = <<>>
         /\ <<a, b>> \in Seq(S) /\ <<a, b>> # <<>> /\ Head(<<a, b>>) = a /\ Tail(<<a, b>>) = <<b>>
         /\ <<a, b, c>> \in Seq(S) /\ <<a, b, c>> # <<>> /\ Head(<<a, b, c>>) = a
         /\ Tail(<<a, b, c>>) = <<b, c>>
  OBVIOUS

AnyCode == [code : Nat, size : Nat]

(* In the beginning a clear is on its way.                                 *)
LEMMA InitIInv == Init => IInv
<1> SUFFICES ASSUME Init PROVE IInv
  OBVIOUS
<1> USE DEF Init
<1>1. image \in Seq(Values) /\ image # <<>>
  BY LzwAssumption DEF Values, ClearCode
<1>2. Len(image) \in Nat
  BY <1>1, LenProperties
<1>3. codes \in Seq(AnyCode)
  <2>1. Code(ClearCode, MinCodeSize + 1) \in AnyCode
    BY Sizes DEF Code, AnyCode
  <2>2. QED
    BY <2>1, ShortSequences
<1>4. TypeOK
  <2>1. DOMAIN codetree = {} /\ DOMAIN table = Values /\ Values \subseteq AllCodes
    BY Sizes DEF EmptyTree, Roots, Values, AllCodes
  <2>2. count \in 0 .. Len(image) /\ shown \in 0 .. count /\ maxCode \in AllCodes
    BY <1>2, Sizes DEF AllCodes
  <2>3. codeSize \in MinCodeSize + 1 .. MaxBits /\ width \in MinCodeSize + 1 .. MaxBits
    BY Sizes
  <2>4. QED
    BY <1>1, <1>3, <2>1, <2>2, <2>3 DEF TypeOK, AnyCode, Values
<1>5. ClearSent
  BY Sizes DEF ClearSent, Fresh, EndCode
<1>6. QED
  BY <1>1, <1>4, <1>5 DEF IInv

(* The encoder waits for the viewer, and the viewer for the encoder.       *)
LEMMA Turns ==
  ASSUME IInv, Next
  PROVE  \/ codes = <<>> /\ ~written /\ ~garbled /\ Idle
            /\ \/ \E value \in Values : ExtendRun(value) \/ WriteRun(value)
               \/ WriteFooter
         \/ codes # <<>> /\ ~Idle /\ Reads
         \/ Finished /\ codes # <<>> /\ Reads
<1>1. CASE codes = <<>>
  <2>1. ~Reads
    BY <1>1 DEF Reads, ReadClear, ReadEnd, ReadRun, Misread, ReadsCode
  <2>2. ~written
    BY <2>1 DEF Next, ExtendRun, WriteRun, WriteFooter, Takes
  <2>3. Idle
    BY <1>1, <2>2 DEF IInv, RunSent, RunAndClearSent, ClearSent, LastRunSent, Finished
  <2>4. QED
    BY <1>1, <2>1, <2>2, <2>3 DEF Next, Values, Idle
<1>2. CASE codes # <<>>
  BY <1>2 DEF Next, ExtendRun, WriteRun, WriteFooter, Takes, Idle
<1>3. QED
  BY <1>1, <1>2

(* A clear is read.                                                        *)
LEMMA ReadClearIInv ==
  ASSUME TypeOK, image # <<>>, ClearSent, Reads
  PROVE  IInv'
<1>1. Code(ClearCode, width) \in AnyCode
  BY TypesOfImage, Sizes DEF Code, AnyCode
<1>2. /\ codes = <<Code(ClearCode, width)>> /\ codes # <<>> /\ Tail(codes) = <<>>
      /\ Head(codes) = Code(ClearCode, width) /\ <<>> \in Seq(AnyCode)
  BY <1>1, ShortSequences DEF ClearSent
<1>3. Head(codes).code = ClearCode /\ Head(codes).size = width
  BY <1>2 DEF Code
<1>4. ReadClear
  <2>1. ~ReadRun /\ ~Misread
    BY <1>3 DEF ReadRun, Misread, ClearSent
  <2>2. ~ReadEnd
    BY <1>3, Sizes DEF ReadEnd, Code
  <2>3. QED
    BY <2>1, <2>2 DEF Reads
<1>5. /\ codes' = <<>> /\ table' = Roots /\ width' = MinCodeSize + 1 /\ previous' = -1
      /\ UNCHANGED <<encoder, shown, garbled>>
  BY <1>2, <1>4 DEF ReadClear
<1>6. TypeOK'
  <2>1. DOMAIN table' = Values /\ Values \subseteq AllCodes
    BY <1>5, Sizes DEF Roots, Values, AllCodes
  <2>2. width' \in MinCodeSize + 1 .. MaxBits /\ previous' \in AllCodes \union {-1}
        /\ codes' \in Seq(AnyCode)
    BY <1>2, <1>5, Sizes
  <2>3. QED
    BY <1>5, <2>1, <2>2 DEF TypeOK, encoder, AnyCode
<1>7. TableUpTo(EndCode)'
  <2>1. Learnt(EndCode) = Values
    BY Sizes DEF Learnt, Values
  <2>2. \A v \in Values : Roots[v] = <<v>> /\ <<v>> \in Seq(Values) /\ <<v>> # <<>>
    BY DEF Roots, Values
  <2>3. DOMAIN Roots = Values
    BY DEF Roots, Values
  <2>4. QED
    BY <1>5, <2>1, <2>2, <2>3 DEF TableUpTo
<1>8. Idle'
  <2> USE <1>5 DEF encoder
  <2>1. codes' = <<>> /\ ~written' /\ ~garbled' /\ Fresh' /\ width' = codeSize'
        /\ maxCode' = EndCode
    BY DEF ClearSent, Fresh
  <2>2. maxCode' \in EndCode .. LastCode - 1 /\ maxCode' < 2^codeSize'
    BY <2>1, Sizes DEF Fresh
  <2>3. Sees(EndCode)'
    BY <1>7 DEF Sees
  <2>4. CASE curCode = -1
    <3>1. curCode' = -1 /\ count' = 0 /\ previous' = -1
      BY <2>4 DEF ClearSent
    <3>2. QED
      BY <2>1, <2>2, <2>3, <3>1, Sizes DEF Idle
  <2>5. CASE curCode # -1
    <3>1. curCode' # -1 /\ Restarted' /\ shown' \in Nat /\ count' = shown' + 1
      BY <2>5, TypesOfImage DEF ClearSent, Restarted, ImageTyped
    <3>2. curCode' \in Values /\ curCode' = image'[shown' + 1]
      BY <3>1, TypesOfImage DEF Restarted, ImageTyped
    <3>3. curCode' \in Learnt(EndCode)' /\ table'[curCode'] = <<curCode'>>
          /\ curCode' \in DOMAIN table'
      BY <1>7, <3>2 DEF TableUpTo, Learnt
    <3>4. Stands(curCode, EndCode, count)'
      BY <3>1, <3>2, <3>3 DEF Stands, Pixels, Spells
    <3>5. QED
      BY <2>1, <2>2, <2>3, <3>1, <3>4, Sizes DEF Idle
  <2>6. QED
    BY <2>4, <2>5
<1>9. QED
  BY <1>5, <1>6, <1>8 DEF IInv, encoder

(* The code of a run is read for the pixels it was written for.            *)
LEMMA RunsAreRead ==
  ASSUME TypeOK, ~garbled, NEW top \in EndCode .. LastCode - 1, Sees(top),
         NEW c, NEW last \in Nat, last <= count, Stands(c, top, last),
         Head(codes) = Code(c, width), Reads
  PROVE  /\ ReadRun /\ Head(codes).code = c
         /\ c \in Learnt(top) \/ (previous # -1 /\ c = top + 1)
         /\ shown + Len(Pixels(c)) = last /\ Len(Pixels(c)) \in Nat \ {0}
         /\ Pixels(c)[1] = image[shown + 1]
<1>1. Head(codes).code = c /\ Head(codes).size = width
  BY DEF Code
<1>2. c \in Learnt(top) \/ (previous # -1 /\ c = top + 1)
  BY DEF Stands
<1>3. /\ Readable(c) /\ c \notin {ClearCode, EndCode}
      /\ Pixels(c) \in Seq(Values) /\ Len(Pixels(c)) \in Nat \ {0}
  BY <1>2, ReadablePixels
<1>4. AreNext(Pixels(c)) /\ shown + Len(Pixels(c)) = last
  BY <1>3, TypesOfImage, SpelledAreNext DEF Stands
<1>5. Pixels(c)[1] = image[shown + 1]
  BY <1>3 DEF Stands, Spells
<1>6. ~Misread /\ ~ReadClear /\ ~ReadEnd
  BY <1>1, <1>3, <1>4 DEF Misread, ReadClear, ReadEnd, Code
<1>7. QED
  BY <1>1, <1>2, <1>3, <1>4, <1>5, <1>6 DEF Reads

(* Reading a run leaves every variable with its type.                      *)
LEMMA RunTypes ==
  ASSUME TypeOK, NEW top \in EndCode .. LastCode - 1, Sees(top),
         NEW c, c \in Learnt(top) \/ (previous # -1 /\ c = top + 1),
         Head(codes).code = c, ReadRun, shown' \in 0 .. count, codes' \in Seq(AnyCode)
  PROVE  TypeOK'
<1>1. /\ previous' = c /\ UNCHANGED <<encoder, garbled>>
      /\ width' \in MinCodeSize + 1 .. MaxBits /\ DOMAIN table' \subseteq AllCodes
  BY RunIsRead
<1>2. c \in AllCodes
  BY ReadablePixels
<1>3. QED
  BY <1>1, <1>2 DEF TypeOK, encoder, AnyCode

(* The last run is read.                                                   *)
LEMMA LastRunIInv ==
  ASSUME TypeOK, image # <<>>, LastRunSent, Reads
  PROVE  IInv'
<1>1. PICK c \in AllCodes, top \in EndCode .. LastCode - 1 :
        /\ codes = <<Code(c, width), Code(ClearCode, width), Code(EndCode, MinCodeSize + 1)>>
        /\ Sees(top) /\ Stands(c, top, Len(image))
  BY DEF LastRunSent
<1>2. /\ Code(c, width) \in AnyCode /\ Code(ClearCode, width) \in AnyCode
      /\ Code(EndCode, MinCodeSize + 1) \in AnyCode
  BY TypesOfImage, Sizes DEF Code, AnyCode, AllCodes
<1>3. /\ Head(codes) = Code(c, width) /\ codes # <<>>
      /\ Tail(codes) = <<Code(ClearCode, width), Code(EndCode, MinCodeSize + 1)>>
      /\ Tail(codes) \in Seq(AnyCode)
  BY <1>1, <1>2, ShortSequences
<1>4. Len(image) \in Nat /\ count = Len(image) /\ shown \in 0 .. count
  BY TypesOfImage DEF LastRunSent, ImageTyped
<1>5. /\ ReadRun /\ Head(codes).code = c
      /\ c \in Learnt(top) \/ (previous # -1 /\ c = top + 1)
      /\ shown + Len(Pixels(c)) = Len(image)
  BY <1>1, <1>3, <1>4, RunsAreRead DEF LastRunSent
<1>6. shown' = Len(image) /\ codes' = Tail(codes) /\ UNCHANGED <<encoder, garbled>>
  BY <1>1, <1>5, RunIsRead
<1>7. TypeOK'
  BY <1>1, <1>3, <1>4, <1>5, <1>6, RunTypes
<1>8. Finished'
  <2>1. codes' = <<Code(ClearCode, width), Code(EndCode, MinCodeSize + 1)>>
    BY <1>3, <1>6
  <2>2. \A i \in 1 .. Len(codes') : codes'[i].code \in {ClearCode, EndCode}
    BY <2>1 DEF Code
  <2>3. QED
    BY <1>4, <1>6, <2>2 DEF Finished, LastRunSent, encoder
<1>9. QED
  BY <1>6, <1>7, <1>8 DEF IInv, encoder

(* A run is read, and the clear behind it is not.                          *)
LEMMA RunAndClearIInv ==
  ASSUME TypeOK, image # <<>>, RunAndClearSent, Reads
  PROVE  IInv'
<1> DEFINE top == LastCode - 2
           clear == Code(ClearCode, Wider(LastCode, width))
<1>1. PICK c \in AllCodes : codes = <<Code(c, width), clear>> /\ Stands(c, top, count - 1)
  BY DEF RunAndClearSent
<1>2. top \in EndCode .. LastCode - 1 /\ Sees(top) /\ previous # -1
  BY Sizes DEF RunAndClearSent
<1> HIDE DEF top
<1>3. Code(c, width) \in AnyCode /\ clear \in AnyCode
  BY TypesOfImage, Sizes DEF Code, AnyCode, AllCodes, Wider
<1>4. /\ Head(codes) = Code(c, width) /\ codes # <<>> /\ Tail(codes) = <<clear>>
      /\ Tail(codes) \in Seq(AnyCode)
  BY <1>1, <1>3, ShortSequences
<1>5. count - 1 \in Nat /\ count - 1 <= count /\ curCode \in Values /\ ~garbled
      /\ shown \in 0 .. count
  BY TypesOfImage DEF RunAndClearSent, Restarted, ImageTyped
<1>6. /\ ReadRun /\ Head(codes).code = c
      /\ c \in Learnt(top) \/ (previous # -1 /\ c = top + 1)
      /\ shown + Len(Pixels(c)) = count - 1
  BY <1>1, <1>2, <1>4, <1>5, RunsAreRead
<1>7. /\ shown' = count - 1 /\ codes' = <<clear>> /\ UNCHANGED <<encoder, garbled>>
      /\ width' = IF top + 2 = 2^width /\ width < MaxBits THEN width + 1 ELSE width
  BY <1>2, <1>4, <1>6, RunIsRead
<1>8. TypeOK'
  <2>1. codes' \in Seq(AnyCode)
    BY <1>4, <1>7
  <2>2. shown' \in 0 .. count
    BY <1>5, <1>7
  <2>3. QED
    BY <1>2, <1>6, <2>1, <2>2, RunTypes
<1>9. Wider(LastCode, width) = width'
  <2>1. top + 2 = LastCode
    BY Sizes DEF top
  <2>2. LastCode = 2^width => width # MaxBits
    BY Sizes
  <2>3. QED
    BY <1>7, <2>1, <2>2, TypesOfImage, Sizes DEF Wider, RunAndClearSent
<1>10. ClearSent'
  BY <1>5, <1>7, <1>9 DEF ClearSent, RunAndClearSent, Restarted, Fresh, encoder, Values
<1>11. QED
  BY <1>7, <1>8, <1>10 DEF IInv, encoder

(* A run is read: the viewer makes the entry it was behind, and is behind  *)
(* by the entry of the run.                                                *)
LEMMA RunSentIInv ==
  ASSUME TypeOK, image # <<>>, RunSent, Reads
  PROVE  IInv'
<1>1. PICK c \in AllCodes, top \in EndCode .. LastCode - 1 :
        /\ codes = <<Code(c, width)>>
        /\ Sees(top) /\ Stands(c, top, count - 1)
        /\ IF previous = -1 THEN top = EndCode /\ maxCode = top + 1 /\ codeSize = width
           ELSE maxCode = top + 2
        /\ \A x \in DOMAIN codetree :
             \/ codetree[x] = maxCode /\ x = <<c, curCode>>
             \/ codetree[x] = maxCode - 1 /\ x = <<previous, image[shown + 1]>> /\ previous # -1
             \/ codetree[x] # maxCode /\ Shared(x)
  BY DEF RunSent
<1>2. Code(c, width) \in AnyCode
  BY TypesOfImage, Sizes DEF Code, AnyCode, AllCodes
<1>3. /\ Head(codes) = Code(c, width) /\ codes # <<>> /\ Tail(codes) = <<>>
      /\ Tail(codes) \in Seq(AnyCode)
  BY <1>1, <1>2, ShortSequences
<1>4. /\ count \in Nat /\ count - 1 \in Nat /\ count - 1 <= count /\ shown \in 0 .. count
      /\ curCode \in Values /\ curCode = image[count] /\ ~garbled /\ ~written
      /\ maxCode \in EndCode + 1 .. LastCode - 1 /\ maxCode <= 2^width
      /\ codeSize = Wider(maxCode, width)
  <2>1. /\ count >= 1 /\ curCode = image[count] /\ ~garbled /\ ~written
        /\ maxCode \in EndCode + 1 .. LastCode - 1 /\ maxCode <= 2^width
        /\ codeSize = Wider(maxCode, width)
    BY DEF RunSent, Restarted
  <2>2. /\ count \in 0 .. Len(image) /\ Len(image) \in Nat /\ shown \in 0 .. count
        /\ \A i \in 1 .. Len(image) : image[i] \in Values
    BY TypesOfImage DEF ImageTyped
  <2>3. count \in 1 .. Len(image) /\ count - 1 \in Nat /\ count - 1 <= count
    BY <2>1, <2>2
  <2>4. QED
    BY <2>1, <2>2, <2>3
<1>5. /\ ReadRun /\ Head(codes).code = c
      /\ c \in Learnt(top) \/ (previous # -1 /\ c = top + 1)
      /\ shown + Len(Pixels(c)) = count - 1 /\ Pixels(c)[1] = image[shown + 1]
  BY <1>1, <1>3, <1>4, RunsAreRead
<1>6. /\ shown' = count - 1 /\ previous' = c /\ codes' = <<>> /\ UNCHANGED <<encoder, garbled>>
      /\ previous = -1 => table' = table /\ width' = width /\ c \in Learnt(top)
      /\ previous # -1 =>
           /\ TableUpTo(top + 1)'
           /\ table'[top + 1] = Append(table[previous], image[shown + 1])
           /\ width' = IF top + 2 = 2^width /\ width < MaxBits THEN width + 1 ELSE width
      /\ \A x \in DOMAIN table : x \in DOMAIN table' /\ table'[x] = table[x]
  BY <1>1, <1>3, <1>5, RunIsRead
<1>7. TypeOK'
  <2>1. shown' \in 0 .. count /\ codes' \in Seq(AnyCode)
    BY <1>3, <1>4, <1>6
  <2>2. QED
    BY <1>1, <1>5, <2>1, RunTypes
<1>8. c \in Nat /\ c # -1
  BY Sizes DEF AllCodes
<1>9. PICK newTop \in EndCode .. LastCode - 1 :
        /\ maxCode = newTop + 1 /\ TableUpTo(newTop)' /\ c \in Learnt(newTop)
        /\ previous # -1 => newTop = top + 1
  <2>1. CASE previous = -1
    <3>1. TableUpTo(top)' /\ c \in Learnt(top) /\ maxCode = top + 1
      BY <1>1, <1>6, <2>1 DEF Sees, TableUpTo
    <3>2. QED
      BY <2>1, <3>1
  <2>2. CASE previous # -1
    <3>1. TableUpTo(top + 1)' /\ maxCode = top + 2 /\ top + 1 \in EndCode .. LastCode - 1
      BY <1>1, <1>4, <1>6, <2>2, Sizes
    <3>2. c \in Learnt(top + 1)
      BY <1>5, Sizes DEF Learnt, Values
    <3>3. QED
      BY <2>2, <3>1, <3>2, Sizes
  <2>3. QED
    BY <2>1, <2>2
<1>10. Sees(newTop)' /\ previous' # -1
  BY <1>6, <1>8, <1>9 DEF Sees
<1>11. Stands(curCode, newTop, count)'
  <2>1. curCode \in Learnt(newTop) /\ curCode \in DOMAIN table' /\ table'[curCode] = <<curCode>>
    BY <1>4, <1>9 DEF Learnt, TableUpTo
  <2>2. image[(count - 1) + 1] = curCode
    BY <1>4
  <2>3. QED
    BY <1>4, <1>6, <2>1, <2>2 DEF Stands, Pixels, Spells, encoder
<1>12. width' = codeSize /\ maxCode < 2^codeSize
  <2>1. /\ width \in Nat /\ 2^width \in Nat /\ 2^(width + 1) = 2 * 2^width
        /\ width \in MinCodeSize + 1 .. MaxBits
    BY TypesOfImage
  <2>2. CASE previous = -1
    <3>1. 2^width >= 2 * ClearCode
      <4>1. MinCodeSize + 1 \in 0 .. MaxBits
        BY Sizes
      <4>2. 2^width >= 2^(MinCodeSize + 1)
        BY <2>1, <4>1, PowersGrow
      <4>3. QED
        BY <4>2, Sizes
    <3>2. maxCode = ClearCode + 2 /\ codeSize = width /\ width' = width
      BY <1>1, <1>6, <2>2, Sizes
    <3>3. QED
      BY <2>1, <3>1, <3>2, Sizes
  <2>3. CASE previous # -1
    <3>1. maxCode = top + 2 /\ (maxCode = 2^width => width # MaxBits)
      BY <1>1, <1>4, <2>3, Sizes
    <3>2. width' = IF maxCode = 2^width THEN width + 1 ELSE width
      BY <1>6, <2>1, <2>3, <3>1, Sizes
    <3>3. QED
      BY <1>4, <2>1, <3>2, Sizes DEF Wider
  <2>4. QED
    BY <2>2, <2>3
<1>13. \A x \in DOMAIN codetree : IF codetree[x] = maxCode
                                  THEN x = <<c, image[(count - 1) + 1]>>
                                  ELSE Shared(x)'
  <2>1. SUFFICES ASSUME NEW x \in DOMAIN codetree
                 PROVE  IF codetree[x] = maxCode THEN x = <<c, image[(count - 1) + 1]>>
                        ELSE Shared(x)'
    OBVIOUS
  <2>2. CASE codetree[x] = maxCode
    BY <1>1, <1>4, <2>2, Sizes
  <2>3. CASE codetree[x] # maxCode /\ Shared(x)
    BY <1>6, <2>3 DEF Shared, encoder
  <2>4. CASE codetree[x] = maxCode - 1 /\ x = <<previous, image[shown + 1]>> /\ previous # -1
    <3>1. previous \in DOMAIN table
      BY <1>1, <2>4 DEF Sees, TableUpTo
    <3>2. codetree[x] = top + 1 /\ top + 1 \in DOMAIN table' /\ codetree[x] # maxCode
      <4>1. newTop = top + 1 /\ codetree[x] = newTop /\ codetree[x] # maxCode
        BY <1>4, <1>9, <2>4, Sizes
      <4>2. newTop \in EndCode + 1 .. newTop
        BY <1>9, <4>1, Sizes
      <4>3. QED
        BY <1>9, <4>1, <4>2 DEF TableUpTo, Learnt
    <3>3. Shared(x)'
      BY <1>6, <2>4, <3>1, <3>2 DEF Shared, encoder
    <3>4. QED
      BY <3>2, <3>3
  <2>5. QED
    BY <1>1, <2>2, <2>3, <2>4
<1>14. Idle'
  <2>1. codes' = <<>> /\ ~written' /\ ~garbled' /\ maxCode' = maxCode /\ width' = codeSize'
        /\ maxCode' < 2^codeSize' /\ maxCode \in EndCode .. LastCode - 1
        /\ image' = image /\ codetree' = codetree /\ shown' = count - 1 /\ previous' = c
    BY <1>4, <1>6, <1>12, Sizes DEF encoder
  <2>2. \A x \in DOMAIN codetree' : IF codetree'[x] = maxCode'
                                    THEN x = <<previous', image'[shown' + 1]>>
                                    ELSE Shared(x)'
    BY <1>13, <2>1
  <2>3. curCode' # -1
    BY <1>4, <1>6, Sizes DEF encoder, Values
  <2>4. QED
    BY <1>9, <1>10, <1>11, <2>1, <2>2, <2>3 DEF Idle
<1>15. QED
  BY <1>6, <1>7, <1>14 DEF IInv, encoder

(* The end of the image: what is left of it goes out as the last run.      *)
LEMMA WriteFooterIInv ==
  ASSUME TypeOK, image # <<>>, Idle, WriteFooter
  PROVE  IInv'
<1>1. /\ count = Len(image) /\ written' = TRUE
      /\ codes' = <<Code(curCode, codeSize), Code(ClearCode, codeSize),
                    Code(EndCode, MinCodeSize + 1)>>
      /\ UNCHANGED <<image, count, curCode, codetree, codeSize, maxCode, viewer>>
  BY DEF WriteFooter, EndCode
<1>2. count # 0
  <2>1. image \in Seq(Values)
    BY TypesOfImage DEF ImageTyped
  <2>2. QED
    BY <1>1, <2>1, EmptySeq
<1>3. curCode # -1 /\ curCode \in AllCodes /\ width = codeSize /\ ~garbled
  BY <1>2 DEF Idle, TypeOK
<1>4. PICK top \in EndCode .. LastCode - 1 : Sees(top) /\ Stands(curCode, top, count)
  BY <1>3 DEF Idle
<1>5. codes' \in Seq(AnyCode)
  <2>1. /\ Code(curCode, codeSize) \in AnyCode /\ Code(ClearCode, codeSize) \in AnyCode
        /\ Code(EndCode, MinCodeSize + 1) \in AnyCode
    BY <1>3, TypesOfImage, Sizes DEF Code, AnyCode, AllCodes
  <2>2. QED
    BY <1>1, <2>1, ShortSequences
<1>6. TypeOK'
  BY <1>1, <1>5 DEF TypeOK, viewer, AnyCode
<1>7. LastRunSent'
  <2>1. Sees(top)' /\ Stands(curCode, top, Len(image))'
    BY <1>1, <1>4 DEF viewer, Sees, TableUpTo, Stands, Spells, Pixels
  <2>2. codes' = <<Code(curCode', width'), Code(ClearCode, width'), Code(EndCode, MinCodeSize + 1)>>
        /\ written' /\ ~garbled' /\ count' = Len(image') /\ curCode' \in AllCodes
    BY <1>1, <1>3 DEF viewer
  <2>3. QED
    BY <2>1, <2>2 DEF LastRunSent
<1>8. QED
  BY <1>1, <1>6, <1>7 DEF IInv

(* What taking a pixel does to the image.                                  *)
LEMMA PixelTaken ==
  ASSUME TypeOK, NEW value \in Values, Takes(value)
  PROVE  /\ count \in Nat /\ count' = count + 1 /\ count' \in 0 .. Len(image)
         /\ value = image[count + 1] /\ value \in AllCodes /\ value # -1
         /\ shown \in 0 .. count /\ shown' = shown /\ shown' \in 0 .. count'
         /\ UNCHANGED <<image, written, viewer>>
<1>1. /\ count \in 0 .. Len(image) /\ Len(image) \in Nat /\ shown \in 0 .. count
  BY TypesOfImage DEF ImageTyped
<1>2. /\ count < Len(image) /\ value = image[count + 1] /\ count' = count + 1
      /\ UNCHANGED <<image, written, viewer>>
  BY DEF Takes
<1>3. QED
  BY <1>1, <1>2, Sizes DEF Values, AllCodes, viewer

(* The pixel starts a run, or continues one the dictionary knows: of the   *)
(* entries it knows, the viewer is behind by one, which is the run before  *)
(* with its own first pixel behind it.                                     *)
LEMMA ExtendRunIInv ==
  ASSUME TypeOK, image # <<>>, Idle, NEW value \in Values, ExtendRun(value)
  PROVE  IInv'
<1>1. PICK top \in EndCode .. LastCode - 1 :
        /\ Sees(top)
        /\ IF previous = -1 THEN Fresh /\ top = EndCode
           ELSE /\ maxCode = top + 1
                /\ \A x \in DOMAIN codetree : IF codetree[x] = maxCode
                                              THEN x = <<previous, image[shown + 1]>>
                                              ELSE Shared(x)
        /\ IF curCode = -1 THEN count = 0 /\ previous = -1 ELSE Stands(curCode, top, count)
  BY DEF Idle
<1>2. /\ Takes(value) /\ (curCode < 0 \/ Known(value))
      /\ curCode' = IF curCode < 0 THEN value ELSE codetree[<<curCode, value>>]
      /\ UNCHANGED <<codetree, codeSize, maxCode, codes>>
  BY DEF ExtendRun
<1>3. /\ count \in Nat /\ count' = count + 1 /\ count' \in 0 .. Len(image)
      /\ value = image[count + 1] /\ value \in AllCodes /\ value # -1
      /\ shown \in 0 .. count /\ shown' = shown /\ shown' \in 0 .. count'
      /\ UNCHANGED <<image, written, viewer>>
  BY <1>2, PixelTaken
<1>4. curCode \in AllCodes \union {-1} /\ (curCode < 0 <=> curCode = -1)
  BY Sizes DEF TypeOK, AllCodes
<1>5. curCode' \in AllCodes
  BY <1>2, <1>3, <1>4 DEF TypeOK, Known
<1>6. TypeOK'
  BY <1>2, <1>3, <1>5 DEF TypeOK, viewer
<1>7. Stands(curCode', top, count + 1)
  <2>1. CASE curCode = -1
    <3>1. curCode' = value /\ value \in DOMAIN table /\ table[value] = <<value>>
          /\ value \in Learnt(top)
      BY <1>1, <1>2, <1>4, <2>1 DEF Sees, TableUpTo, Learnt
    <3>2. count = 0 /\ shown = 0
      BY <1>1, <1>3, <2>1
    <3>3. QED
      BY <1>3, <3>1, <3>2 DEF Stands, Pixels, Spells
  <2>2. CASE curCode # -1
    <3> DEFINE x == <<curCode, value>>
    <3>1. x \in DOMAIN codetree /\ curCode' = codetree[x] /\ x[1] = curCode /\ x[2] = value
      BY <1>2, <1>4, <2>2 DEF Known
    <3>2. previous # -1 /\ maxCode = top + 1
      BY <1>1, <3>1 DEF Fresh, EmptyTree
    <3>3. IF codetree[x] = maxCode THEN x = <<previous, image[shown + 1]>> ELSE Shared(x)
      BY <1>1, <3>1, <3>2
    <3> HIDE DEF x
    <3>4. /\ curCode \in Learnt(top) \/ (previous # -1 /\ curCode = top + 1)
          /\ Spells(Pixels(curCode), shown, count)
      BY <1>1, <2>2 DEF Stands
    <3>5. Pixels(curCode) \in Seq(Values) /\ Pixels(curCode)[1] = Head(Pixels(curCode))
          /\ Len(Pixels(curCode)) \in Nat \ {0}
      BY <1>1, <3>4, ReadablePixels
    <3>6. Spells(Append(Pixels(curCode), value), shown, count + 1)
      <4>1. image[count + 1] \in Values /\ shown \in Nat
        BY <1>3
      <4>2. QED
        BY <1>3, <3>4, <3>5, <4>1, SpellsOneMore
    <3>7. CASE codetree[x] = maxCode
      <4>1. curCode = previous /\ value = image[shown + 1] /\ curCode' = top + 1
        BY <3>1, <3>2, <3>3, <3>7
      <4>2. previous \in DOMAIN table /\ top + 1 \notin DOMAIN table
        <5>1. DOMAIN table = Learnt(top) /\ previous \in Learnt(top)
          BY <1>1, <3>2 DEF Sees, TableUpTo
        <5>2. top + 1 \notin Learnt(top)
          BY Sizes DEF Learnt, Values
        <5>3. QED
          BY <5>1, <5>2
      <4>3. Head(table[previous]) = value /\ Pixels(curCode) = table[previous]
        BY <3>4, <3>5, <4>1, <4>2 DEF Pixels, Spells
      <4>4. Pixels(top + 1) = Append(Pixels(curCode), value)
        BY <4>2, <4>3 DEF Pixels
      <4>5. QED
        BY <3>2, <3>6, <4>1, <4>4 DEF Stands
    <3>8. CASE codetree[x] # maxCode
      <4>1. /\ curCode \in DOMAIN table /\ codetree[x] \in DOMAIN table
            /\ table[codetree[x]] = Append(table[curCode], value)
        BY <3>1, <3>3, <3>8 DEF Shared
      <4>2. Pixels(codetree[x]) = Append(Pixels(curCode), value)
        BY <4>1 DEF Pixels
      <4>3. codetree[x] \in Learnt(top)
        BY <1>1, <4>1 DEF Sees, TableUpTo
      <4>4. QED
        BY <3>1, <3>6, <4>2, <4>3 DEF Stands
    <3>9. QED
      BY <3>7, <3>8
  <2>3. QED
    BY <2>1, <2>2
<1>8. Idle'
  <2>1. curCode' # -1
    BY <1>5, Sizes DEF AllCodes
  <2>2. Stands(curCode, top, count)' /\ Sees(top)'
    BY <1>1, <1>3, <1>7 DEF viewer, Sees, TableUpTo, Stands, Spells, Pixels
  <2>3. IF previous' = -1 THEN Fresh' /\ top = EndCode
        ELSE /\ maxCode' = top + 1
             /\ \A x \in DOMAIN codetree' : IF codetree'[x] = maxCode'
                                            THEN x = <<previous', image'[shown' + 1]>>
                                            ELSE Shared(x)'
    BY <1>1, <1>2, <1>3 DEF viewer, Fresh, Shared
  <2>4. codes' = <<>> /\ ~written' /\ ~garbled' /\ width' = codeSize'
        /\ maxCode' \in EndCode .. LastCode - 1 /\ maxCode' < 2^codeSize'
    BY <1>2, <1>3 DEF viewer, Idle
  <2>5. QED
    BY <2>1, <2>2, <2>3, <2>4 DEF Idle
<1>9. QED
  BY <1>3, <1>6, <1>8 DEF IInv

(* The run ends, and the dictionary has room: the viewer is two entries    *)
(* behind until it has read the run.                                       *)
LEMMA WriteRunSent ==
  ASSUME TypeOK, Idle, NEW value \in Values, WriteRun(value), ~Full(maxCode + 1),
         NEW top \in EndCode .. LastCode - 1, Sees(top), Stands(curCode, top, count),
         curCode \in AllCodes,
         IF previous = -1 THEN Fresh /\ top = EndCode
         ELSE /\ maxCode = top + 1
              /\ \A x \in DOMAIN codetree : IF codetree[x] = maxCode
                                            THEN x = <<previous, image[shown + 1]>>
                                            ELSE Shared(x)
  PROVE  TypeOK' /\ RunSent'
<1> DEFINE entry == maxCode + 1
           new   == <<curCode, value>>
<1>1. /\ Takes(value) /\ ~Known(value) /\ curCode' = value
      /\ codes' = <<Code(curCode, codeSize)>>
      /\ codetree' = [x \in DOMAIN codetree \union {new} |->
                        IF x = new THEN entry ELSE codetree[x]]
      /\ codeSize' = Wider(entry, codeSize) /\ maxCode' = entry
  BY DEF WriteRun
<1>2. /\ count \in Nat /\ count' = count + 1 /\ count' \in 0 .. Len(image)
      /\ value = image[count + 1] /\ value \in AllCodes
      /\ shown \in 0 .. count /\ shown' = shown /\ shown' \in 0 .. count'
      /\ UNCHANGED <<image, written, viewer>>
  BY <1>1, PixelTaken
<1>3. /\ new \notin DOMAIN codetree /\ new \in DOMAIN codetree' /\ codetree'[new] = entry
      /\ DOMAIN codetree' = DOMAIN codetree \union {new}
      /\ \A x \in DOMAIN codetree : codetree'[x] = codetree[x]
  BY <1>1 DEF Known
<1>4. /\ maxCode \in EndCode .. LastCode - 1 /\ maxCode < 2^codeSize /\ width = codeSize
      /\ ~written /\ ~garbled
  BY DEF Idle
<1>5. entry \in EndCode + 1 .. LastCode - 1 /\ entry <= 2^width
  BY <1>4, TypesOfImage, Sizes DEF Full
<1>6. codeSize' \in MinCodeSize + 1 .. MaxBits
  <2>1. entry < 2^MaxBits
    BY <1>5, Sizes
  <2>2. entry >= 2^codeSize => codeSize # MaxBits
    BY <1>5, <2>1, Sizes
  <2>3. QED
    BY <1>1, <2>2, TypesOfImage, Sizes DEF Wider
<1>7. Code(curCode, codeSize) \in AnyCode /\ codes' \in Seq(AnyCode)
  <2>1. Code(curCode, codeSize) \in AnyCode
    BY TypesOfImage DEF Code, AnyCode, AllCodes
  <2>2. QED
    BY <1>1, <2>1, ShortSequences
<1>8. TypeOK'
  <2>1. DOMAIN codetree' \subseteq AllCodes \X (0 .. ClearCode - 1)
    BY <1>3 DEF TypeOK, Values
  <2>2. entry \in AllCodes
    BY <1>5, Sizes DEF AllCodes
  <2>3. \A x \in DOMAIN codetree' : codetree'[x] \in AllCodes
    BY <1>3, <2>2 DEF TypeOK
  <2>4. QED
    BY <1>1, <1>2, <1>6, <1>7, <2>1, <2>2, <2>3 DEF TypeOK, viewer, AnyCode
<1>9. \A x \in DOMAIN codetree' :
        \/ codetree'[x] = entry /\ x = new
        \/ codetree'[x] = entry - 1 /\ x = <<previous, image[shown + 1]>> /\ previous # -1
        \/ codetree'[x] # entry /\ Shared(x)'
  <2>1. SUFFICES ASSUME NEW x \in DOMAIN codetree
                 PROVE  \/ codetree[x] = entry - 1 /\ x = <<previous, image[shown + 1]>> /\ previous # -1
                        \/ codetree[x] # entry /\ Shared(x)'
    BY <1>3
  <2>2. previous # -1 /\ maxCode = top + 1
    BY DEF Fresh, EmptyTree
  <2>3. CASE codetree[x] = maxCode
    <3>1. codetree[x] = entry - 1
      BY <1>4, <2>3, Sizes
    <3>2. QED
      BY <2>2, <2>3, <3>1
  <2>4. CASE codetree[x] # maxCode
    <3>1. Shared(x) /\ codetree[x] \in Learnt(top)
      BY <2>2, <2>4 DEF Shared, Sees, TableUpTo
    <3>2. codetree[x] # entry
      BY <2>2, <3>1, Sizes DEF Learnt, Values
    <3>3. Shared(x)'
      BY <1>2, <1>3, <3>1 DEF Shared, viewer
    <3>4. QED
      BY <3>2, <3>3
  <2>5. QED
    BY <2>3, <2>4
<1>10. IF previous = -1 THEN top = EndCode /\ entry = top + 1 /\ codeSize' = width
       ELSE entry = top + 2
  <2>1. CASE previous = -1
    <3>1. top = EndCode /\ maxCode = EndCode /\ codeSize = MinCodeSize + 1
      BY <2>1 DEF Fresh
    <3>2. entry < 2^codeSize
      BY <3>1, Sizes
    <3>3. codeSize' = width
      BY <1>1, <1>4, <1>5, <3>2, TypesOfImage, Sizes DEF Wider
    <3>4. QED
      BY <2>1, <3>1, <3>3
  <2>2. CASE previous # -1
    BY <2>2, Sizes
  <2>3. QED
    BY <2>1, <2>2
<1> HIDE DEF entry
<1>11. RunSent'
  <2>1. Sees(top)' /\ Stands(curCode, top, count)
    BY <1>2 DEF viewer, Sees, TableUpTo
  <2>2. Restarted'
    BY <1>1, <1>2 DEF Restarted
  <2>3. /\ ~written' /\ ~garbled' /\ maxCode' = entry /\ codeSize' = Wider(entry, width')
        /\ codes' = <<Code(curCode, width')>> /\ count' - 1 = count
        /\ previous' = previous /\ width' = width /\ image' = image /\ shown' = shown
    BY <1>1, <1>2, <1>4 DEF viewer, entry
  <2>4. \A c \in AllCodes : c = curCode => Stands(c, top, count - 1)'
    BY <1>2, <2>1, <2>3 DEF viewer, Stands, Spells, Pixels
  <2>5. \A x \in DOMAIN codetree' :
          \/ codetree'[x] = maxCode' /\ x = <<curCode, curCode'>>
          \/ codetree'[x] = maxCode' - 1 /\ x = <<previous', image'[shown' + 1]>> /\ previous' # -1
          \/ codetree'[x] # maxCode' /\ Shared(x)'
    BY <1>1, <1>9, <2>3
  <2>6. IF previous' = -1 THEN top = EndCode /\ maxCode' = top + 1 /\ codeSize' = width'
        ELSE maxCode' = top + 2
    BY <1>10, <2>3
  <2>7. maxCode' \in EndCode + 1 .. LastCode - 1 /\ maxCode' <= 2^width'
    BY <1>5, <2>3
  <2>8. QED
    BY <2>1, <2>2, <2>3, <2>4, <2>5, <2>6, <2>7 DEF RunSent
<1>12. QED
  BY <1>8, <1>11

(* The run ends and fills the dictionary: a clear follows its code.        *)
LEMMA WriteRunAndClear ==
  ASSUME TypeOK, Idle, NEW value \in Values, WriteRun(value), Full(maxCode + 1),
         NEW top \in EndCode .. LastCode - 1, Sees(top), Stands(curCode, top, count),
         curCode \in AllCodes,
         IF previous = -1 THEN Fresh /\ top = EndCode ELSE maxCode = top + 1
  PROVE  TypeOK' /\ RunAndClearSent'
<1> DEFINE clear == Code(ClearCode, Wider(LastCode, codeSize))
<1>1. /\ Takes(value) /\ maxCode + 1 = LastCode
      /\ codes' = <<Code(curCode, codeSize), clear>>
      /\ codetree' = EmptyTree /\ codeSize' = MinCodeSize + 1 /\ maxCode' = EndCode
      /\ curCode' = value
  BY DEF WriteRun, Full, ClearedTree, ClearedCode, EndCode
<1>2. /\ count \in Nat /\ count' = count + 1 /\ count' \in 0 .. Len(image)
      /\ value = image[count + 1] /\ value \in AllCodes
      /\ shown \in 0 .. count /\ shown' = shown /\ shown' \in 0 .. count'
      /\ UNCHANGED <<image, written, viewer>>
  BY <1>1, PixelTaken
<1>3. /\ maxCode \in EndCode .. LastCode - 1 /\ maxCode < 2^codeSize /\ width = codeSize
      /\ ~written /\ ~garbled
  BY DEF Idle
<1>4. previous # -1 /\ top = LastCode - 2
  BY <1>1, Sizes DEF Fresh
<1>5. LastCode <= 2^width
  BY <1>1, <1>3, TypesOfImage, Sizes
<1>6. codes' \in Seq(AnyCode)
  <2>1. Code(curCode, codeSize) \in AnyCode /\ clear \in AnyCode
    BY TypesOfImage, Sizes DEF Code, AnyCode, AllCodes, Wider
  <2>2. QED
    BY <1>1, <2>1, ShortSequences
<1>7. TypeOK'
  <2>1. DOMAIN codetree' = {} /\ EndCode \in AllCodes /\ codeSize' \in MinCodeSize + 1 .. MaxBits
    BY <1>1, Sizes DEF EmptyTree, AllCodes
  <2>2. QED
    BY <1>1, <1>2, <1>6, <2>1 DEF TypeOK, viewer, AnyCode
<1>8. RunAndClearSent'
  <2>1. Sees(LastCode - 2)' /\ previous' # -1 /\ LastCode <= 2^width' /\ ~written' /\ ~garbled'
    BY <1>2, <1>3, <1>4, <1>5 DEF viewer, Sees, TableUpTo
  <2>2. Restarted' /\ Fresh'
    BY <1>1, <1>2 DEF Restarted, Fresh
  <2>3. codes' = <<Code(curCode, width'), Code(ClearCode, Wider(LastCode, width'))>>
        /\ count' - 1 = count
    BY <1>1, <1>2, <1>3 DEF viewer
  <2>4. \A c \in AllCodes : c = curCode => Stands(c, LastCode - 2, count - 1)'
    BY <1>2, <1>4, <2>3 DEF viewer, Stands, Spells, Pixels
  <2>5. QED
    BY <2>1, <2>2, <2>3, <2>4 DEF RunAndClearSent
<1>9. QED
  BY <1>7, <1>8

(* The run ends.                                                           *)
LEMMA WriteRunIInv ==
  ASSUME TypeOK, image # <<>>, Idle, NEW value \in Values, WriteRun(value)
  PROVE  IInv'
<1>1. curCode >= 0 /\ curCode # -1 /\ curCode \in AllCodes /\ image' = image
  BY DEF WriteRun, Takes, TypeOK
<1>2. PICK top \in EndCode .. LastCode - 1 :
        /\ Sees(top) /\ Stands(curCode, top, count)
        /\ IF previous = -1 THEN Fresh /\ top = EndCode
           ELSE /\ maxCode = top + 1
                /\ \A x \in DOMAIN codetree : IF codetree[x] = maxCode
                                              THEN x = <<previous, image[shown + 1]>>
                                              ELSE Shared(x)
  BY <1>1 DEF Idle
<1>3. CASE Full(maxCode + 1)
  <2>1. TypeOK' /\ RunAndClearSent'
    BY <1>1, <1>2, <1>3, WriteRunAndClear
  <2>2. QED
    BY <1>1, <2>1 DEF IInv
<1>4. CASE ~Full(maxCode + 1)
  <2>1. TypeOK' /\ RunSent'
    BY <1>1, <1>2, <1>4, WriteRunSent
  <2>2. QED
    BY <1>1, <2>1 DEF IInv
<1>5. QED
  BY <1>3, <1>4

(* Behind the last run there is nothing to show.                           *)
LEMMA FinishedIInv ==
  ASSUME TypeOK, image # <<>>, Finished, codes # <<>>, Reads
  PROVE  IInv'
<1>1. codes \in Seq(AnyCode)
  BY DEF TypeOK, AnyCode
<1>2. Len(codes) \in Nat \ {0} /\ Head(codes) = codes[1]
  BY <1>1, EmptySeq
<1>3. Head(codes).code \in {ClearCode, EndCode}
  BY <1>2 DEF Finished
<1>4. /\ Tail(codes) \in Seq(AnyCode)
      /\ \A i \in 1 .. Len(Tail(codes)) : Tail(codes)[i].code \in {ClearCode, EndCode}
  <2>1. /\ Tail(codes) \in Seq(AnyCode) /\ Len(Tail(codes)) = Len(codes) - 1
        /\ \A i \in 1 .. Len(Tail(codes)) : Tail(codes)[i] = codes[i + 1]
    BY <1>1, HeadTailProperties
  <2>2. \A i \in 1 .. Len(codes) - 1 : i + 1 \in 1 .. Len(codes)
    BY <1>2
  <2>3. QED
    BY <2>1, <2>2 DEF Finished
<1>5. CASE ReadClear
  <2>1. /\ codes' = Tail(codes) /\ table' = Roots /\ width' = MinCodeSize + 1
        /\ previous' = -1 /\ UNCHANGED <<encoder, shown, garbled>>
    BY <1>5 DEF ReadClear
  <2>2. DOMAIN table' \subseteq AllCodes /\ width' \in MinCodeSize + 1 .. MaxBits
    BY <2>1, Sizes DEF Roots, AllCodes
  <2>3. TypeOK'
    BY <1>4, <2>1, <2>2 DEF TypeOK, encoder, AnyCode
  <2>4. Finished'
    BY <1>4, <2>1 DEF Finished, encoder
  <2>5. QED
    BY <2>1, <2>3, <2>4 DEF IInv, encoder
<1>6. CASE ReadEnd
  <2>1. codes' = Tail(codes) /\ UNCHANGED <<encoder, viewer>>
    BY <1>6 DEF ReadEnd
  <2>2. TypeOK'
    BY <1>4, <2>1 DEF TypeOK, encoder, viewer, AnyCode
  <2>3. Finished'
    BY <1>4, <2>1 DEF Finished, encoder, viewer
  <2>4. QED
    BY <2>1, <2>2, <2>3 DEF IInv, encoder
<1>7. CASE ReadRun
  BY <1>3, <1>7 DEF ReadRun
<1>8. CASE Misread
  <2>1. /\ codes' = <<>> /\ garbled' = TRUE
        /\ UNCHANGED <<encoder, table, width, previous, shown>>
    BY <1>8 DEF Misread
  <2>2. codes' \in Seq(AnyCode) /\ Len(codes') = 0
    BY <2>1, EmptySeq
  <2>3. TypeOK'
    BY <2>1, <2>2 DEF TypeOK, encoder, AnyCode
  <2>4. Finished'
    BY <2>1, <2>2 DEF Finished, encoder
  <2>5. QED
    BY <2>1, <2>3, <2>4 DEF IInv, encoder
<1>9. QED
  BY <1>5, <1>6, <1>7, <1>8 DEF Reads

(* Every step keeps the invariant.                                         *)
LEMMA StepIInv == IInv /\ [Next]_vars => IInv'
<1> SUFFICES ASSUME IInv, [Next]_vars PROVE IInv'
  OBVIOUS
<1>1. TypeOK /\ image # <<>>
  BY DEF IInv
<1>2. CASE UNCHANGED vars
  <2>1. TypeOK'
    BY <1>1, <1>2 DEF TypeOK, vars, encoder, viewer
  <2>2. Idle => Idle'
    BY <1>2 DEF vars, encoder, viewer, Idle, Sees, TableUpTo, Fresh, Shared, Stands, Pixels, Spells
  <2>3. RunSent => RunSent'
    BY <1>2 DEF vars, encoder, viewer, RunSent, Restarted, Sees, TableUpTo, Shared, Stands, Pixels,
                Spells
  <2>4. RunAndClearSent => RunAndClearSent'
    BY <1>2 DEF vars, encoder, viewer, RunAndClearSent, Restarted, Fresh, Sees, TableUpTo, Stands,
                Pixels, Spells
  <2>5. (ClearSent => ClearSent') /\ (Finished => Finished')
    BY <1>2 DEF vars, encoder, viewer, ClearSent, Fresh, Restarted, Finished
  <2>6. LastRunSent => LastRunSent'
    BY <1>2 DEF vars, encoder, viewer, LastRunSent, Sees, TableUpTo, Stands, Pixels, Spells
  <2>7. QED
    BY <1>2, <2>1, <2>2, <2>3, <2>4, <2>5, <2>6 DEF IInv, vars, encoder
<1>3. CASE Next
  <2>1. CASE codes = <<>> /\ Idle /\ \E value \in Values : ExtendRun(value) \/ WriteRun(value)
    BY <1>1, <2>1, ExtendRunIInv, WriteRunIInv
  <2>2. CASE codes = <<>> /\ Idle /\ WriteFooter
    BY <1>1, <2>2, WriteFooterIInv
  <2>3. CASE codes # <<>> /\ ~Idle /\ Reads
    BY <1>1, <2>3, RunSentIInv, RunAndClearIInv, ReadClearIInv, LastRunIInv, FinishedIInv DEF IInv
  <2>4. CASE Finished /\ codes # <<>> /\ Reads
    BY <1>1, <2>4, FinishedIInv
  <2>5. QED
    BY <1>3, <2>1, <2>2, <2>3, <2>4, Turns
<1>4. QED
  BY <1>2, <1>3

(* The invariant always holds.                                             *)
LEMMA AlwaysIInv == Spec => []IInv
<1>1. QED
  BY InitIInv, StepIInv, PTL DEF Spec

-----------------------------------------------------------------------------
(* What follows                                                            *)

(* Every variable keeps its type: no code has more than MaxBits bits, and  *)
(* neither dictionary outgrows its nodes.                                  *)
THEOREM LzwTypes == Spec => []TypeOK
<1>1. IInv => TypeOK
  BY DEF IInv
<1>2. QED
  BY <1>1, AlwaysIInv, PTL

(* Whatever the image, the viewer reads every code with the width it was   *)
(* written in and shows by it the pixels it was written for: until all of  *)
(* them are shown it is never at a loss.                                   *)
THEOREM ViewerShowsTheImage == Spec => []PixelsSurvive
<1>1. IInv => PixelsSurvive
  BY DEF IInv, PixelsSurvive, Idle, RunSent, RunAndClearSent, ClearSent, LastRunSent, Finished
<1>2. QED
  BY <1>1, AlwaysIInv, PTL

(* Between two codes the viewer's dictionary has what the encoder's has,   *)
(* up to the last entry.                                                   *)
THEOREM DictionariesInStep == Spec => []InStep
<1>1. IInv => InStep
  <2>1. SUFFICES ASSUME IInv, codes = <<>>, ~garbled, ~written,
                        NEW x \in DOMAIN codetree, codetree[x] # maxCode
                 PROVE  /\ codetree[x] \in DOMAIN table
                        /\ table[codetree[x]] = Append(table[x[1]], x[2])
    BY DEF InStep
  <2>2. Idle
    BY <2>1 DEF IInv, RunSent, RunAndClearSent, ClearSent, LastRunSent, Finished
  <2>3. Shared(x)
    BY <2>1, <2>2 DEF Idle, Fresh, EmptyTree
  <2>4. QED
    BY <2>3 DEF Shared
<1>2. QED
  BY <1>1, AlwaysIInv, PTL

-----------------------------------------------------------------------------
(* Bits of a number                                                        *)

(* A number is divided in one way.                                         *)
LEMMA DividedOnce ==
  ASSUME NEW q \in Nat, NEW d \in Int, NEW r \in 0 .. q - 1
  PROVE  (q * d + r) \div q = d
OBVIOUS

(* Quotient and remainder.                                                 *)
LEMMA Divided ==
  ASSUME NEW q \in Nat, q # 0, NEW b \in Nat
  PROVE  b = q * (b \div q) + (b % q) /\ b % q \in 0 .. q - 1 /\ b \div q \in Nat
OBVIOUS

(* A multiple of the divisor adds to the quotient.                         *)
LEMMA MultipleAdded ==
  ASSUME NEW q \in Nat, q # 0, NEW b \in Nat, NEW m \in Nat
  PROVE  (b + q * m) \div q = (b \div q) + m
<1> DEFINE d == b \div q
           r == b % q
<1>1. b = q * d + r /\ r \in 0 .. q - 1 /\ d \in Nat
  BY Divided
<1> HIDE DEF d, r
<1>2. b + q * m = q * (d + m) + r
  BY <1>1
<1>3. (q * (d + m) + r) \div q = d + m
  BY <1>1, DividedOnce
<1> QED
  BY <1>2, <1>3 DEF d

(* The bits of a byte.                                                     *)
LEMMA Widths ==
  /\ ByteBits \in Nat /\ ByteBits >= 1 /\ ChunkBytes \in Nat /\ ChunkBytes >= 1
  /\ 2^0 = 1 /\ 2^ByteBits \in Nat /\ ChunkBytes \in Byte
  /\ \A n \in 0 .. ByteBits : 2^n \in Nat /\ 2^n # 0
  /\ \A n \in 0 .. ByteBits : 2^(n + 1) = 2 * 2^n
<1>1. ByteBits \in Nat /\ ByteBits >= 1
  BY BitsAssumption
<1>2. \A n \in 0 .. ByteBits : 2^n \in Nat /\ 2^(n + 1) = 2 * 2^n
  BY BytePowersAssumption
<1>3. 2^ByteBits \in Nat
  BY <1>1, <1>2
<1>4. ChunkBytes \in 1 .. 2^ByteBits - 1
  BY BitsAssumption
<1>5. ChunkBytes \in Nat /\ ChunkBytes >= 1 /\ ChunkBytes \in Byte
  BY <1>3, <1>4 DEF Byte
<1>6. \A n \in 0 .. ByteBits : 2^n # 0
  <2> DEFINE Zero == {n \in 0 .. ByteBits : 2^n = 0}
  <2>1. Zero \subseteq Nat
    BY <1>1
  <2>2. SUFFICES ASSUME Zero # {} PROVE FALSE
    OBVIOUS
  <2>3. PICK m \in Zero : \A x \in Zero : m <= x
    <3> HIDE DEF Zero
    <3> QED
      BY <2>1, <2>2, SmallestExists
  <2>4. m # 0 /\ m \in 0 .. ByteBits
    <3>1. m \in 0 .. ByteBits /\ 2^m = 0
      BY <2>3
    <3>2. m = 0 => 2^m = 1
      BY BytePowersAssumption
    <3> QED
      BY <3>1, <3>2
  <2>5. m - 1 \in 0 .. ByteBits /\ (m - 1) + 1 = m /\ ~(m <= m - 1)
    BY <1>1, <2>4
  <2>6. 2^(m - 1) # 0
    BY <2>3, <2>5
  <2>7. 2^(m - 1) \in Nat /\ 2^m = 2 * 2^(m - 1)
    <3>1. 2^(m - 1) \in Nat /\ 2^((m - 1) + 1) = 2 * 2^(m - 1)
      BY <1>2, <2>5
    <3> QED
      BY <2>5, <3>1
  <2> QED
    BY <2>3, <2>6, <2>7
<1> QED
  BY <1>1, <1>2, <1>3, <1>5, <1>6, BytePowersAssumption

(* A power of two is an even multiple of any lower one.                    *)
LEMMA EvenMultiple ==
  ASSUME NEW i \in 1 .. ByteBits, NEW n \in i .. ByteBits
  PROVE  \E p \in Nat : p # 0 /\ 2^n = 2^(i - 1) * (2 * p)
<1> DEFINE Odd == {k \in i .. ByteBits : ~\E p \in Nat : p # 0 /\ 2^k = 2^(i - 1) * (2 * p)}
<1>1. Odd \subseteq Nat
  BY Widths
<1>2. SUFFICES ASSUME Odd # {} PROVE FALSE
  BY Widths
<1>3. PICK m \in Odd : \A x \in Odd : m <= x
  <2> HIDE DEF Odd
  <2> QED
    BY <1>1, <1>2, SmallestExists
<1>4. i - 1 \in 0 .. ByteBits /\ (i - 1) + 1 = i /\ m \in i .. ByteBits
  BY <1>3, Widths
<1>5. 2^(i - 1) \in Nat /\ 2^i = 2 * 2^(i - 1)
  <2>1. 2^(i - 1) \in Nat /\ 2^((i - 1) + 1) = 2 * 2^(i - 1)
    BY <1>4, Widths
  <2> QED
    BY <1>4, <2>1
<1>6. 2^i = 2^(i - 1) * (2 * 1)
  BY <1>5
<1>7. m # i
  BY <1>3, <1>6
<1>8. m - 1 \in i .. ByteBits /\ m - 1 \in 0 .. ByteBits /\ (m - 1) + 1 = m /\ ~(m <= m - 1)
  BY <1>4, <1>7, Widths
<1>9. PICK p \in Nat : p # 0 /\ 2^(m - 1) = 2^(i - 1) * (2 * p)
  BY <1>3, <1>8
<1>10. 2^m = 2 * 2^(m - 1)
  <2>1. 2^((m - 1) + 1) = 2 * 2^(m - 1)
    BY <1>8, Widths
  <2> QED
    BY <1>8, <2>1
<1>11. 2^m = 2^(i - 1) * (2 * (2 * p)) /\ 2 * p \in Nat /\ 2 * p # 0
  BY <1>5, <1>9, <1>10
<1> QED
  BY <1>3, <1>11

(* Bit i of a number, counted from 1.                                      *)
BitAt(b, i) == (b \div 2^(i - 1)) % 2

(* A bit above those of a number leaves the others as they are.            *)
LEMMA BitAdded ==
  ASSUME NEW n \in 0 .. ByteBits - 1, NEW b \in 0 .. 2^n - 1, NEW bit \in Bit
  PROVE  /\ b + bit * 2^n \in 0 .. 2^(n + 1) - 1
         /\ BitAt(b + bit * 2^n, n + 1) = bit
         /\ \A i \in 1 .. n : BitAt(b + bit * 2^n, i) = BitAt(b, i)
<1>1. n \in 0 .. ByteBits /\ n \in Nat /\ (n + 1) - 1 = n
  BY Widths
<1>2. 2^n \in Nat /\ 2^n # 0 /\ 2^(n + 1) = 2 * 2^n
  BY <1>1, Widths
<1>3. b + bit * 2^n \in 0 .. 2^(n + 1) - 1
  BY <1>2 DEF Bit
<1>4. BitAt(b + bit * 2^n, n + 1) = bit
  <2>1. bit \in Int /\ b + bit * 2^n = 2^n * bit + b
    BY <1>2 DEF Bit
  <2>2. (2^n * bit + b) \div 2^n = bit
    BY <1>2, <2>1, DividedOnce
  <2> QED
    BY <1>1, <2>1, <2>2 DEF BitAt, Bit
<1>5. ASSUME NEW i \in 1 .. n
      PROVE  BitAt(b + bit * 2^n, i) = BitAt(b, i)
  <2>1. i \in 1 .. ByteBits /\ n \in i .. ByteBits /\ i - 1 \in 0 .. ByteBits
    BY <1>1, Widths
  <2>2. PICK p \in Nat : p # 0 /\ 2^n = 2^(i - 1) * (2 * p)
    BY <2>1, EvenMultiple
  <2>3. 2^(i - 1) \in Nat /\ 2^(i - 1) # 0
    BY <2>1, Widths
  <2>4. bit * 2^n = 2^(i - 1) * (2 * (bit * p)) /\ bit * p \in Nat
    BY <2>2, <2>3 DEF Bit
  <2>5. b \in Nat /\ 2 * (bit * p) \in Nat
    BY <1>2, <2>4
  <2> DEFINE q == 2^(i - 1)
             d == b \div q
             m == bit * p
  <2>6. q \in Nat /\ q # 0 /\ m \in Nat /\ 2 * m \in Nat /\ b \in Nat /\ bit * 2^n = q * (2 * m)
    BY <2>3, <2>4, <2>5
  <2>7. BitAt(b + bit * 2^n, i) = ((b + q * (2 * m)) \div q) % 2 /\ BitAt(b, i) = d % 2
    BY <2>6 DEF BitAt
  <2> HIDE DEF q, m
  <2>8. (b + q * (2 * m)) \div q = d + 2 * m /\ d \in Nat
    BY <2>6, MultipleAdded, Divided
  <2> HIDE DEF d
  <2>9. (d + 2 * m) % 2 = d % 2
    BY <2>6, <2>8
  <2> QED
    BY <2>7, <2>8, <2>9
<1> QED
  BY <1>3, <1>4, <1>5

(* Above its bits a number has zeros.                                      *)
LEMMA ZerosAbove ==
  ASSUME NEW n \in 0 .. ByteBits - 1, NEW b \in 0 .. 2^n - 1, NEW i \in n + 1 .. ByteBits
  PROVE  BitAt(b, i) = 0
<1>1. i - 1 \in 0 .. ByteBits /\ i - 1 >= n /\ n \in 0 .. ByteBits
  BY Widths
<1>2. 2^(i - 1) \in Nat /\ 2^n \in Nat
  BY <1>1, Widths
<1>3. 2^(i - 1) >= 2^n
  <2>1. CASE i - 1 = n
    BY <1>2, <2>1
  <2>2. CASE i - 1 # n
    <3>1. n + 1 \in 1 .. ByteBits /\ i - 1 \in n + 1 .. ByteBits /\ (n + 1) - 1 = n
      BY <1>1, <2>2, Widths
    <3>2. PICK p \in Nat : p # 0 /\ 2^(i - 1) = 2^((n + 1) - 1) * (2 * p)
      BY <3>1, EvenMultiple
    <3>3. 2^(i - 1) = 2^n * (2 * p)
      BY <3>1, <3>2
    <3> QED
      BY <1>2, <3>2, <3>3
  <2> QED
    BY <2>1, <2>2
<1>4. b \in 0 .. 2^(i - 1) - 1
  BY <1>2, <1>3
<1>5. (2^(i - 1) * 0 + b) \div 2^(i - 1) = 0
  BY <1>2, <1>4, DividedOnce
<1>6. b \div 2^(i - 1) = 0
  BY <1>2, <1>4, <1>5
<1>7. 0 % 2 = 0
  OBVIOUS
<1> QED
  BY <1>6, <1>7 DEF BitAt

-----------------------------------------------------------------------------
(* The viewer's reading of chunks                                          *)

Image == [bytes : Seq(Byte), next : Nat]

(* What is read from a place, when read is what is read from the others.   *)
ReadAt(file, read, at) ==
  IF at > Len(file) \/ at + file[at] > Len(file) THEN NoImage
  ELSE IF file[at] = 0 THEN [bytes |-> <<>>, next |-> at + 1]
  ELSE LET rest == read[at + file[at] + 1]
       IN  [rest EXCEPT !.bytes = SubSeq(file, at + 1, at + file[at]) \o @]

IsReading(file, read) ==
  /\ read \in [1 .. Len(file) + 1 -> Image]
  /\ read = [at \in 1 .. Len(file) + 1 |-> ReadAt(file, read, at)]

(* A reading of a place asks only for one behind it, and gives an image.   *)
LEMMA ReadAtTypes ==
  ASSUME NEW file \in Seq(Byte), NEW at \in 1 .. Len(file) + 1,
         NEW read \in [1 .. Len(file) + 1 -> Image]
  PROVE  /\ ReadAt(file, read, at) \in Image
         /\ at <= Len(file) => file[at] \in Nat
         /\ (at <= Len(file) /\ at + file[at] <= Len(file)) =>
              /\ at + file[at] + 1 \in 1 .. Len(file) + 1 /\ at < at + file[at] + 1
              /\ SubSeq(file, at + 1, at + file[at]) \in Seq(Byte)
<1>1. Byte \subseteq Nat
  BY Widths DEF Byte
<1>2. at <= Len(file) => file[at] \in Byte /\ file[at] \in Nat
  <2>1. at <= Len(file) => at \in 1 .. Len(file)
    OBVIOUS
  <2>2. \A k \in 1 .. Len(file) : file[k] \in Byte
    OBVIOUS
  <2> QED
    BY <1>1, <2>1, <2>2
<1>3. at \in Nat /\ Len(file) \in Nat
  OBVIOUS
<1>4. NoImage \in Image /\ [bytes |-> <<>>, next |-> at + 1] \in Image
  BY <1>3 DEF NoImage, Image
<1>5. ASSUME at <= Len(file), at + file[at] <= Len(file)
      PROVE  /\ at + file[at] + 1 \in 1 .. Len(file) + 1 /\ at < at + file[at] + 1
             /\ SubSeq(file, at + 1, at + file[at]) \in Seq(Byte)
  <2>1. file[at] \in Nat
    BY <1>2, <1>5
  <2>2. at + file[at] + 1 \in 1 .. Len(file) + 1 /\ at < at + file[at] + 1
    BY <1>3, <1>5, <2>1
  <2>3. at + 1 \in 1 .. Len(file) + 1 /\ at + file[at] \in 0 .. Len(file)
    BY <1>3, <1>5, <2>1
  <2>4. SubSeq(file, at + 1, at + file[at]) \in Seq(Byte)
    BY <2>3, SubSeqProperties
  <2> QED
    BY <2>2, <2>4
<1>6. ASSUME at <= Len(file), at + file[at] <= Len(file), file[at] # 0
      PROVE  ReadAt(file, read, at) \in Image
  <2> DEFINE rest == read[at + file[at] + 1]
             part == SubSeq(file, at + 1, at + file[at])
  <2>1. rest \in Image /\ part \in Seq(Byte)
    BY <1>5, <1>6
  <2> HIDE DEF rest, part
  <2>2. part \o rest.bytes \in Seq(Byte)
    BY <2>1 DEF Image
  <2>3. [rest EXCEPT !.bytes = part \o @] \in Image
    BY <2>1, <2>2 DEF Image
  <2>4. ~(at > Len(file)) /\ ~(at + file[at] > Len(file))
    BY <1>2, <1>3, <1>6
  <2>5. ReadAt(file, read, at) = [rest EXCEPT !.bytes = part \o @]
    BY <1>6, <2>4 DEF ReadAt, rest, part
  <2> QED
    BY <2>3, <2>5
<1>7. (at > Len(file) \/ at + file[at] > Len(file)) => ReadAt(file, read, at) \in Image
  BY <1>4 DEF ReadAt
<1>8. ASSUME at <= Len(file), at + file[at] <= Len(file), file[at] = 0
      PROVE  ReadAt(file, read, at) \in Image
  BY <1>2, <1>3, <1>4, <1>8 DEF ReadAt
<1>9. at > Len(file) \/ at <= Len(file)
  BY <1>3
<1>10. at <= Len(file) => at + file[at] > Len(file) \/ at + file[at] <= Len(file)
  BY <1>2, <1>3
<1> QED
  BY <1>2, <1>5, <1>6, <1>7, <1>8, <1>9, <1>10

(* A file has a reading.                                                   *)
LEMMA ReadingExists ==
  ASSUME NEW file \in Seq(Byte)
  PROVE  \E read : IsReading(file, read)
<1> DEFINE D == 1 .. Len(file) + 1
           rank == [at \in D |-> Len(file) + 1 - at]
           step == [at \in D |-> [f \in [D -> Image] |-> ReadAt(file, f, at)]]
<1>1. Len(file) \in Nat /\ NoImage \in Image
  BY DEF NoImage, Image
<1>2. rank \in [D -> 0 .. Len(file)]
  BY <1>1
<1>3. step \in [D -> [[D -> Image] -> Image]]
  BY ReadAtTypes
<1>4. ASSUME NEW at \in D, NEW g \in [D -> Image], NEW h \in [D -> Image],
             \A k \in D : rank[k] < rank[at] => g[k] = h[k]
      PROVE  step[at][g] = step[at][h]
  <2>1. step[at][g] = ReadAt(file, g, at) /\ step[at][h] = ReadAt(file, h, at)
    OBVIOUS
  <2>2. ASSUME at <= Len(file), at + file[at] <= Len(file)
        PROVE  g[at + file[at] + 1] = h[at + file[at] + 1]
    <3>1. at + file[at] + 1 \in D /\ at < at + file[at] + 1 /\ at \in Nat
      BY <2>2, ReadAtTypes
    <3>2. rank[at + file[at] + 1] < rank[at]
      BY <1>1, <3>1
    <3> QED
      BY <1>4, <3>1, <3>2
  <2>3. at > Len(file) \/ (at <= Len(file) /\ file[at] \in Nat)
    BY <1>1, ReadAtTypes
  <2>4. at + file[at] > Len(file) \/ at > Len(file) \/ (at <= Len(file) /\ at + file[at] <= Len(file))
    BY <1>1, <2>3
  <2> HIDE DEF D, rank, step
  <2>5. ReadAt(file, g, at) = ReadAt(file, h, at)
    BY <2>2, <2>4 DEF ReadAt
  <2> QED
    BY <2>1, <2>5
<1>5. Solution(D, Image, step) # {}
  <2>1. Descends(D, Image, rank, step)
    BY <1>4 DEF Descends
  <2> HIDE DEF D, rank, step
  <2> QED
    BY <1>1, <1>2, <1>3, <2>1, RecursionSolved, Zenon
<1>6. PICK read \in [D -> Image] : \A at \in D : read[at] = step[at][read]
  BY <1>5 DEF Solution
<1>7. \A at \in D : read[at] = ReadAt(file, read, at)
  BY <1>6
<1> HIDE DEF step, rank
<1>8. read = [at \in D |-> ReadAt(file, read, at)]
  BY <1>6, <1>7
<1> QED
  BY <1>6, <1>8 DEF IsReading

(* Readings of a file are one and the same.                                *)
LEMMA OneReading ==
  ASSUME NEW file \in Seq(Byte), NEW read, IsReading(file, read),
         NEW f, f = [at \in 1 .. Len(file) + 1 |-> ReadAt(file, f, at)]
  PROVE  f = read
<1> DEFINE D == 1 .. Len(file) + 1
           rank == [at \in D |-> Len(file) + 1 - at]
           Same == {at \in D : f[at] = read[at]}
<1>1. Len(file) \in Nat
  OBVIOUS
<1>2. rank \in [D -> Nat]
  BY <1>1
<1>3. ASSUME NEW at \in D, \A k \in D : rank[k] < rank[at] => k \in Same
      PROVE  at \in Same
  <2>1. ASSUME at <= Len(file), at + file[at] <= Len(file)
        PROVE  f[at + file[at] + 1] = read[at + file[at] + 1]
    <3>1. at + file[at] + 1 \in D /\ at < at + file[at] + 1 /\ at \in Nat
      BY <2>1, ReadAtTypes DEF IsReading
    <3>2. rank[at + file[at] + 1] < rank[at]
      BY <1>1, <3>1
    <3> QED
      BY <1>3, <3>1, <3>2
  <2>2. at > Len(file) \/ (at <= Len(file) /\ file[at] \in Nat)
    BY <1>1, ReadAtTypes DEF IsReading
  <2>3. at + file[at] > Len(file) \/ at > Len(file) \/ (at <= Len(file) /\ at + file[at] <= Len(file))
    BY <1>1, <2>2
  <2>4. f[at] = ReadAt(file, f, at)
    OBVIOUS
  <2>5. read[at] = ReadAt(file, read, at)
    BY DEF IsReading
  <2> HIDE DEF D
  <2>6. ReadAt(file, f, at) = ReadAt(file, read, at)
    BY <2>1, <2>3 DEF ReadAt
  <2> QED
    BY <2>4, <2>5, <2>6
<1>4. \A at \in D : at \in Same
  <2> HIDE DEF D, rank, Same
  <2> QED
    BY <1>2, <1>3, RankInduction
<1>5. \A at \in D : f[at] = read[at]
  BY <1>4
<1>6. f = [at \in D |-> f[at]]
  OBVIOUS
<1>7. read = [at \in D |-> read[at]]
  BY DEF IsReading
<1> HIDE DEF D
<1> QED
  BY <1>5, <1>6, <1>7

(* ReadImage reads from the first place.                                   *)
LEMMA ImageIsRead ==
  ASSUME NEW file \in Seq(Byte), NEW read, IsReading(file, read)
  PROVE  ReadImage(file) = read[1]
<1> DEFINE chosen == CHOOSE f : f = [at \in 1 .. Len(file) + 1 |-> ReadAt(file, f, at)]
<1>1. read = [at \in 1 .. Len(file) + 1 |-> ReadAt(file, read, at)]
  BY DEF IsReading
<1>2. chosen = [at \in 1 .. Len(file) + 1 |-> ReadAt(file, chosen, at)]
  BY <1>1
<1>3. chosen = read
  <2> HIDE DEF chosen
  <2> QED
    BY <1>2, OneReading
<1>4. ReadImage(file) = chosen[1]
  BY DEF ReadImage, ReadAt
<1> QED
  BY <1>3, <1>4

(* A part of a sequence.                                                   *)
LEMMA PartOf ==
  ASSUME NEW S, NEW s \in Seq(S), NEW at \in Nat, NEW n \in Nat, at + n <= Len(s)
  PROVE  SubSeq(s, at + 1, at + n) = [i \in 1 .. n |-> s[at + i]]
<1> DEFINE part == SubSeq(s, at + 1, at + n)
<1>1. \A i \in at + 1 .. at + n : s[i] \in S
  OBVIOUS
<1>2. at + 1 \in Int /\ at + n \in Int /\ (at + n) - (at + 1) + 1 = n
      /\ (IF at + 1 <= at + n THEN (at + n) - (at + 1) + 1 ELSE 0) = n
  OBVIOUS
<1>3. part \in Seq(S) /\ Len(part) = n /\ \A i \in 1 .. n : part[i] = s[(at + 1) + i - 1]
  BY <1>1, <1>2, SubSeqProperties
<1>4. \A i \in 1 .. n : (at + 1) + i - 1 = at + i
  OBVIOUS
<1> HIDE DEF part
<1>5. part = [i \in 1 .. n |-> part[i]]
  BY <1>3
<1>6. \A i \in 1 .. n : part[i] = s[at + i]
  BY <1>3, <1>4
<1>7. part = [i \in 1 .. n |-> s[at + i]]
  BY <1>5, <1>6
<1> QED
  BY <1>7 DEF part

(* The image that a reading behind some bytes of the file gives.           *)
Behind(r, n) == [bytes |-> r.bytes, next |-> IF r.next = 0 THEN 0 ELSE r.next + n]

(* What is read from a place behind front is what is read without it.      *)
LEMMA ReadingBehind ==
  ASSUME NEW front \in Seq(Byte), NEW rest \in Seq(Byte),
         NEW whole, IsReading(front \o rest, whole), NEW read, IsReading(rest, read)
  PROVE  \A at \in 1 .. Len(rest) + 1 : whole[Len(front) + at] = Behind(read[at], Len(front))
<1> DEFINE file == front \o rest
           n == Len(front)
           D == 1 .. Len(rest) + 1
           rank == [at \in D |-> Len(rest) + 1 - at]
           Same == {at \in D : whole[n + at] = Behind(read[at], n)}
<1>1. /\ n \in Nat /\ Len(rest) \in Nat /\ file \in Seq(Byte) /\ Len(file) = n + Len(rest)
      /\ \A k \in 1 .. Len(rest) : file[n + k] = rest[k]
  OBVIOUS
<1>2. rank \in [D -> Nat]
  BY <1>1
<1>3. ASSUME NEW at \in D, \A k \in D : rank[k] < rank[at] => k \in Same
      PROVE  at \in Same
  <2>1. at \in Nat /\ n + at \in 1 .. Len(file) + 1
    BY <1>1
  <2>2. whole[n + at] = ReadAt(file, whole, n + at) /\ read[at] = ReadAt(rest, read, at)
    BY <1>1, <2>1 DEF IsReading
  <2>3. at > Len(rest) \/ (at <= Len(rest) /\ rest[at] \in Nat /\ file[n + at] = rest[at])
    <3>1. at <= Len(rest) => rest[at] \in Nat
      BY ReadAtTypes DEF IsReading
    <3>2. at <= Len(rest) => at \in 1 .. Len(rest)
      BY <1>1
    <3> QED
      BY <1>1, <2>1, <3>1, <3>2
  <2>4. CASE at > Len(rest) \/ at + rest[at] > Len(rest)
    <3>1. n + at > Len(file) \/ (n + at) + file[n + at] > Len(file)
      BY <1>1, <2>1, <2>3, <2>4
    <3>2. whole[n + at] = NoImage /\ read[at] = NoImage
      BY <2>2, <2>4, <3>1 DEF ReadAt
    <3>3. whole[n + at] = Behind(read[at], n)
      BY <3>2 DEF Behind, NoImage
    <3> HIDE DEF n, D
    <3> QED
      BY <3>3
  <2>5. CASE at <= Len(rest) /\ at + rest[at] <= Len(rest)
    <3>1. rest[at] \in Nat /\ file[n + at] = rest[at]
      BY <1>1, <2>1, <2>3, <2>5
    <3>2. ~(n + at > Len(file)) /\ ~((n + at) + file[n + at] > Len(file))
          /\ ~(at > Len(rest)) /\ ~(at + rest[at] > Len(rest))
      BY <1>1, <2>1, <2>5, <3>1
    <3>3. CASE rest[at] = 0
      <4>1. whole[n + at] = [bytes |-> <<>>, next |-> n + at + 1] /\ read[at] = [bytes |-> <<>>, next |-> at + 1]
        BY <2>2, <3>1, <3>2, <3>3 DEF ReadAt
      <4>2. at + 1 # 0 /\ n + at + 1 = (at + 1) + n
        BY <1>1, <2>1
      <4>3. whole[n + at] = Behind(read[at], n)
        BY <4>1, <4>2 DEF Behind
      <4> HIDE DEF n, D
      <4> QED
        BY <4>3
    <3>4. CASE rest[at] # 0
      <4> DEFINE k == at + rest[at] + 1
                 part == SubSeq(rest, at + 1, at + rest[at])
      <4>1. k \in D /\ at < k
        BY <2>5, ReadAtTypes DEF IsReading
      <4>2. k \in Same
        BY <1>1, <1>3, <2>1, <4>1
      <4>3. SubSeq(file, n + at + 1, n + at + file[n + at]) = part
        <5>1. SubSeq(file, n + at + 1, n + at + rest[at]) = [i \in 1 .. rest[at] |-> file[n + at + i]]
          <6>1. n + at \in Nat /\ rest[at] \in Nat /\ n + at + rest[at] <= Len(file)
            <7> HIDE DEF file, n
            <7> QED
              BY <1>1, <2>1, <2>5, <3>1
          <6> HIDE DEF file, n
          <6> QED
            BY <1>1, <6>1, PartOf
        <5>2. part = [i \in 1 .. rest[at] |-> rest[at + i]]
          BY <2>1, <2>5, <3>1, PartOf
        <5>3. ASSUME NEW i \in 1 .. rest[at]
              PROVE  file[n + at + i] = rest[at + i]
          <6>1. at + i \in 1 .. Len(rest) /\ n + at + i = n + (at + i)
            BY <1>1, <2>1, <2>5, <3>1
          <6> HIDE DEF file, n
          <6> QED
            BY <1>1, <6>1
        <5> HIDE DEF part, file, n
        <5> QED
          BY <3>1, <5>1, <5>2, <5>3
      <4>4. (n + at) + file[n + at] + 1 = n + k
        BY <1>1, <2>1, <3>1
      <4>5. whole[n + at] = [whole[n + k] EXCEPT !.bytes = part \o @]
        <5>1. whole[n + at] = [whole[(n + at) + file[n + at] + 1] EXCEPT !.bytes =
                                 SubSeq(file, (n + at) + 1, (n + at) + file[n + at]) \o @]
          BY <2>2, <3>1, <3>2, <3>4 DEF ReadAt
        <5> HIDE DEF part, file, n, k
        <5> QED
          BY <4>3, <4>4, <5>1
      <4>6. read[at] = [read[k] EXCEPT !.bytes = part \o @]
        BY <2>2, <3>2, <3>4 DEF ReadAt
      <4>7. whole[n + k] = Behind(read[k], n)
        BY <4>2
      <4>8. read[k] \in Image
        BY <4>1 DEF IsReading
      <4> HIDE DEF k, part
      <4>9. read[at] = [bytes |-> part \o read[k].bytes, next |-> read[k].next]
        BY <4>6, <4>8 DEF Image
      <4>10. whole[n + at] = [bytes |-> part \o read[k].bytes,
                              next |-> IF read[k].next = 0 THEN 0 ELSE read[k].next + n]
        <5>1. Behind(read[k], n).bytes = read[k].bytes
          BY DEF Behind
        <5>2. whole[n + at] = [Behind(read[k], n) EXCEPT !.bytes = part \o @]
          BY <4>5, <4>7
        <5> QED
          BY <5>1, <5>2 DEF Behind
      <4>11. whole[n + at] = Behind(read[at], n)
        BY <4>9, <4>10 DEF Behind
      <4> HIDE DEF n, D
      <4> QED
        BY <4>11
    <3> QED
      BY <3>3, <3>4
  <2> QED
    BY <1>1, <2>1, <2>3, <2>4, <2>5
<1>4. \A at \in D : at \in Same
  <2> HIDE DEF D, rank, Same
  <2> QED
    BY <1>2, <1>3, RankInduction
<1> QED
  BY <1>4

(* A viewer goes on behind these bytes of a file, and has read bytes.      *)
GoesOn(front, bytes) ==
  \A rest \in Seq(Byte) :
    ReadImage(front \o rest) =
      [bytes |-> bytes \o ReadImage(rest).bytes, next |-> Behind(ReadImage(rest), Len(front)).next]

(* What is read of any file is an image.                                   *)
LEMMA ReadImageTypes ==
  ASSUME NEW file \in Seq(Byte)
  PROVE  ReadImage(file) \in Image
<1>1. PICK read : IsReading(file, read)
  BY ReadingExists
<1>2. ReadImage(file) = read[1] /\ read[1] \in Image
  BY <1>1, ImageIsRead DEF IsReading
<1> QED
  BY <1>2

(* It has read nothing of an empty file.                                   *)
LEMMA GoesOnAtStart == GoesOn(<<>>, <<>>)
<1> SUFFICES ASSUME NEW rest \in Seq(Byte)
             PROVE  ReadImage(<<>> \o rest) =
                      [bytes |-> <<>> \o ReadImage(rest).bytes,
                       next |-> Behind(ReadImage(rest), Len(<<>>)).next]
  BY DEF GoesOn
<1>1. ReadImage(rest) \in Image
  BY ReadImageTypes
<1>2. <<>> \o rest = rest /\ <<>> \o ReadImage(rest).bytes = ReadImage(rest).bytes /\ Len(<<>>) = 0
  BY <1>1 DEF Image
<1>3. Behind(ReadImage(rest), 0).next = ReadImage(rest).next
  BY <1>1 DEF Behind, Image
<1>4. ReadImage(rest) = [bytes |-> ReadImage(rest).bytes, next |-> ReadImage(rest).next]
  BY <1>1 DEF Image
<1> QED
  BY <1>2, <1>3, <1>4

(* Behind a chunk it goes on with the bytes of the chunk.                  *)
LEMMA ChunkIsRead ==
  ASSUME NEW chunk \in Seq(Byte), Len(chunk) \in Byte, chunk # <<>>
  PROVE  GoesOn(<<Len(chunk)>> \o chunk, chunk)
<1> DEFINE n == Len(chunk)
           front == <<n>> \o chunk
<1>1. n \in Nat /\ n # 0 /\ front \in Seq(Byte) /\ Len(front) = n + 1 /\ front[1] = n
      /\ \A i \in 1 .. n : front[i + 1] = chunk[i]
  OBVIOUS
<1> SUFFICES ASSUME NEW rest \in Seq(Byte)
             PROVE  ReadImage(front \o rest) =
                      [bytes |-> chunk \o ReadImage(rest).bytes,
                       next |-> Behind(ReadImage(rest), Len(front)).next]
  BY DEF GoesOn
<1> DEFINE file == front \o rest
<1> HIDE DEF front
<1>2. file \in Seq(Byte) /\ Len(file) = n + 1 + Len(rest) /\ file[1] = n /\ Len(rest) \in Nat
      /\ \A i \in 1 .. n : file[i + 1] = chunk[i]
  <2>1. Len(front) = n + 1 /\ n \in Nat /\ front \in Seq(Byte) /\ rest \in Seq(Byte)
    BY <1>1
  <2> HIDE DEF n
  <2>2. file \in Seq(Byte) /\ Len(file) = (n + 1) + Len(rest) /\ Len(rest) \in Nat
    BY <2>1
  <2>3. \A i \in 1 .. n + 1 : file[i] = front[i]
    BY <2>1
  <2>4. 1 \in 1 .. n + 1 /\ \A i \in 1 .. n : i + 1 \in 1 .. n + 1
    BY <2>1
  <2> HIDE DEF file
  <2> QED
    BY <1>1, <2>2, <2>3, <2>4
<1>3. PICK whole : IsReading(file, whole)
  BY <1>2, ReadingExists
<1>4. PICK read : IsReading(rest, read)
  BY ReadingExists
<1>6. whole[Len(front) + 1] = Behind(read[1], Len(front))
  BY <1>1, <1>2, <1>3, <1>4, ReadingBehind
<1> HIDE DEF file
<1>5. ReadImage(file) = whole[1] /\ ReadImage(rest) = read[1] /\ read[1] \in Image
  <2>1. ReadImage(file) = whole[1] /\ ReadImage(rest) = read[1]
    BY <1>2, <1>3, <1>4, ImageIsRead
  <2>2. ReadImage(rest) \in Image
    BY ReadImageTypes
  <2> QED
    BY <2>1, <2>2
<1>7. whole[1] = ReadAt(file, whole, 1)
  <2>1. 1 \in 1 .. Len(file) + 1
    <3> HIDE DEF n
    <3> QED
      BY <1>1, <1>2
  <2> QED
    BY <1>3, <2>1 DEF IsReading
<1>8. SubSeq(file, 1 + 1, 1 + file[1]) = chunk
  <2> HIDE DEF n
  <2>1. 1 \in Nat /\ n \in Nat /\ 1 + n <= Len(file)
    BY <1>1, <1>2
  <2>2. SubSeq(file, 1 + 1, 1 + n) = [i \in 1 .. n |-> file[1 + i]]
    BY <1>2, <2>1, PartOf
  <2>4. \A i \in 1 .. n : 1 + i = i + 1
    BY <1>1
  <2>3. chunk = [i \in 1 .. n |-> chunk[i]]
    BY DEF n
  <2> QED
    BY <1>2, <2>1, <2>2, <2>3, <2>4
<1>9. whole[1] = [whole[1 + n + 1] EXCEPT !.bytes = chunk \o @]
  <2>1. ~(1 > Len(file)) /\ ~(1 + file[1] > Len(file)) /\ file[1] # 0
    <3> HIDE DEF n
    <3> QED
      BY <1>1, <1>2
  <2>2. whole[1] = [whole[1 + file[1] + 1] EXCEPT !.bytes = SubSeq(file, 1 + 1, 1 + file[1]) \o @]
    BY <1>7, <2>1 DEF ReadAt
  <2> QED
    BY <1>2, <1>8, <2>2
<1>10. 1 + n + 1 = Len(front) + 1
  BY <1>1
<1>11. whole[1] = [Behind(read[1], Len(front)) EXCEPT !.bytes = chunk \o @]
  BY <1>6, <1>9, <1>10
<1>12. whole[1] = [bytes |-> chunk \o read[1].bytes, next |-> Behind(read[1], Len(front)).next]
  BY <1>11 DEF Behind
<1> QED
  BY <1>5, <1>12 DEF file

(* It goes on through one part of a file and then through another.         *)
LEMMA GoesOnThrough ==
  ASSUME NEW front \in Seq(Byte), NEW bytes \in Seq(Byte), GoesOn(front, bytes),
         NEW part \in Seq(Byte), NEW more \in Seq(Byte), GoesOn(part, more)
  PROVE  GoesOn(front \o part, bytes \o more)
<1> SUFFICES ASSUME NEW rest \in Seq(Byte)
             PROVE  ReadImage((front \o part) \o rest) =
                      [bytes |-> (bytes \o more) \o ReadImage(rest).bytes,
                       next |-> Behind(ReadImage(rest), Len(front \o part)).next]
  BY DEF GoesOn
<1> DEFINE r == ReadImage(rest)
           s == ReadImage(part \o rest)
<1>1. r \in Image
  BY ReadImageTypes
<1>2. part \o rest \in Seq(Byte) /\ (front \o part) \o rest = front \o (part \o rest)
      /\ Len(front \o part) = Len(front) + Len(part) /\ Len(front) \in Nat /\ Len(part) \in Nat
  OBVIOUS
<1>3. s = [bytes |-> more \o r.bytes, next |-> Behind(r, Len(part)).next]
  BY DEF GoesOn
<1>4. ReadImage(front \o (part \o rest)) = [bytes |-> bytes \o s.bytes, next |-> Behind(s, Len(front)).next]
  BY <1>2 DEF GoesOn
<1> HIDE DEF r, s
<1>5. bytes \o s.bytes = (bytes \o more) \o r.bytes
  <2>1. r.bytes \in Seq(Byte) /\ s.bytes = more \o r.bytes
    BY <1>1, <1>3 DEF Image
  <2>2. \A last \in Seq(Byte) : (bytes \o more) \o last = bytes \o (more \o last)
    OBVIOUS
  <2>3. (bytes \o more) \o r.bytes = bytes \o (more \o r.bytes)
    BY <2>1, <2>2
  <2> QED
    BY <2>1, <2>3
<1>6. Behind(s, Len(front)).next = Behind(r, Len(front) + Len(part)).next
  <2>1. r.next \in Nat
    BY <1>1 DEF Image
  <2>2. s.next = IF r.next = 0 THEN 0 ELSE r.next + Len(part)
    BY <1>3 DEF Behind
  <2> QED
    BY <1>2, <2>1, <2>2 DEF Behind
<1> QED
  BY <1>2, <1>4, <1>5, <1>6 DEF r

(* The empty chunk ends an image.                                          *)
LEMMA EndIsRead == <<0>> \in Seq(Byte) /\ ReadImage(<<0>>) = [bytes |-> <<>>, next |-> 2]
<1>1. 0 \in Byte
  BY Widths DEF Byte
<1>2. <<0>> \in Seq(Byte) /\ Len(<<0>>) = 1 /\ <<0>>[1] = 0
  BY <1>1
<1>3. PICK read : IsReading(<<0>>, read)
  BY <1>2, ReadingExists
<1>4. ReadImage(<<0>>) = read[1]
  BY <1>2, <1>3, ImageIsRead
<1>5. read[1] = ReadAt(<<0>>, read, 1)
  BY <1>2, <1>3 DEF IsReading
<1>6. ~(1 > Len(<<0>>)) /\ ~(1 + <<0>>[1] > Len(<<0>>))
  BY <1>2
<1>7. ReadAt(<<0>>, read, 1) = [bytes |-> <<>>, next |-> 1 + 1]
  BY <1>2, <1>6 DEF ReadAt
<1> QED
  BY <1>2, <1>4, <1>5, <1>7

-----------------------------------------------------------------------------
(* The bit writer                                                          *)

(* The bits are those of the bytes and then those of the byte in progress. *)
Holds(all, s, bits) ==
  /\ Len(bits) = Len(all) * ByteBits + s.bitIndex
  /\ \A k \in 1 .. Len(all), i \in 1 .. ByteBits :
       bits[(k - 1) * ByteBits + i] = BitAt(all[k], i)
  /\ \A i \in 1 .. s.bitIndex : bits[Len(all) * ByteBits + i] = BitAt(s.byte, i)

(* The states of the bit writer between two bits: nothing is above the     *)
(* bits that the byte has.                                                 *)
BetweenBits == {s \in Stat : s.byte < 2^s.bitIndex}

(* The place of a bit of one of n bytes.                                   *)
LEMMA PlaceOfBit ==
  ASSUME NEW n \in Nat, NEW k \in 1 .. n, NEW i \in 1 .. ByteBits
  PROVE  (k - 1) * ByteBits + i \in 1 .. n * ByteBits
<1>1. ByteBits \in Nat /\ ByteBits >= 1
  BY Widths
<1> DEFINE w == ByteBits
<1> HIDE DEF w
<1>2. w \in Nat /\ w >= 1 /\ i \in 1 .. w
  BY <1>1 DEF w
<1>3. (k - 1) * w \in Nat
  BY <1>2
<1>4. n - k \in Nat /\ (n - k) * w \in Nat /\ n * w = (k - 1) * w + w + (n - k) * w
  BY <1>2
<1>5. (k - 1) * w + i \in 1 .. n * w
  <2> DEFINE a == (k - 1) * w
             b == (n - k) * w
             c == n * w
  <2>1. a \in Nat /\ b \in Nat /\ c = a + w + b
    BY <1>3, <1>4
  <2> HIDE DEF a, b, c
  <2>2. a + i \in 1 .. c
    BY <1>2, <2>1
  <2> QED
    BY <2>2 DEF a, c
<1> QED
  BY <1>5 DEF w

(* A bit is added: in the byte in progress, or as the last of its bits.    *)
LEMMA BitWritten ==
  ASSUME NEW s \in BetweenBits, NEW bit \in Bit, NEW all \in Seq(Byte), NEW bits \in Seq(Bit),
         Holds(all, s, bits)
  PROVE  /\ WriteBit(s, bit) \in BetweenBits
         /\ \/ /\ WriteBit(s, bit).chunk = s.chunk
               /\ Holds(all, WriteBit(s, bit), Append(bits, bit))
            \/ \E byte \in Byte :
                 /\ WriteBit(s, bit) = [bitIndex |-> 0, byte |-> 0, chunk |-> Append(s.chunk, byte)]
                 /\ Holds(Append(all, byte), WriteBit(s, bit), Append(bits, bit))
<1> DEFINE n == s.bitIndex
           byte == s.byte + bit * 2^n
           t == WriteBit(s, bit)
           more == Append(bits, bit)
<1>1. n \in 0 .. ByteBits - 1 /\ s.byte \in Byte /\ s.chunk \in Seq(Byte) /\ s.byte < 2^n
      /\ ByteBits \in Nat /\ ByteBits >= 1 /\ n \in Nat
  BY Widths DEF BetweenBits, Stat
<1>2. s.byte \in 0 .. 2^n - 1
  <2>1. 2^ByteBits \in Nat /\ 2^n \in Nat
    BY <1>1, Widths
  <2> QED
    BY <1>1, <2>1 DEF Byte
<1> HIDE DEF n
<1>3. /\ byte \in 0 .. 2^(n + 1) - 1 /\ BitAt(byte, n + 1) = bit
      /\ \A i \in 1 .. n : BitAt(byte, i) = BitAt(s.byte, i)
  BY <1>1, <1>2, BitAdded
<1>4. Len(all) \in Nat /\ Len(all) * ByteBits \in Nat /\ Len(bits) = Len(all) * ByteBits + n
  BY <1>1 DEF Holds, n
<1>5. more \in Seq(Bit) /\ Len(more) = Len(bits) + 1 /\ more[Len(bits) + 1] = bit
      /\ \A j \in 1 .. Len(bits) : more[j] = bits[j]
  OBVIOUS
<1>6. ASSUME NEW k \in 1 .. Len(all), NEW i \in 1 .. ByteBits
      PROVE  more[(k - 1) * ByteBits + i] = BitAt(all[k], i)
  <2>1. (k - 1) * ByteBits + i \in 1 .. Len(all) * ByteBits
    BY <1>4, PlaceOfBit
  <2>2. (k - 1) * ByteBits + i \in 1 .. Len(bits)
    <3> DEFINE c == Len(all) * ByteBits
               j == (k - 1) * ByteBits + i
    <3> HIDE DEF c, j
    <3>1. c \in Nat /\ Len(bits) = c + n /\ j \in 1 .. c
      BY <1>4, <2>1 DEF c, j
    <3>2. j \in 1 .. Len(bits)
      BY <1>1, <3>1
    <3> QED
      BY <3>2 DEF j
  <2> QED
    BY <1>5, <2>2 DEF Holds
<1>7. ASSUME NEW i \in 1 .. n + 1
      PROVE  more[Len(all) * ByteBits + i] = BitAt(byte, i)
  <2> DEFINE c == Len(all) * ByteBits
  <2>1. \A j \in 1 .. n : bits[c + j] = BitAt(s.byte, j)
    BY DEF Holds, n
  <2>2. c \in Nat /\ Len(bits) = c + n
    BY <1>4
  <2> HIDE DEF c, byte, more
  <2>3. i = n + 1 => more[c + i] = BitAt(byte, i)
    <3>0. SUFFICES ASSUME i = n + 1 PROVE more[c + i] = BitAt(byte, i)
      OBVIOUS
    <3>1. c + i = Len(bits) + 1
      BY <1>1, <2>2, <3>0
    <3> QED
      BY <1>3, <1>5, <3>0, <3>1
  <2>4. i # n + 1 => more[c + i] = BitAt(byte, i)
    <3>0. SUFFICES ASSUME i # n + 1 PROVE more[c + i] = BitAt(byte, i)
      OBVIOUS
    <3>1. i \in 1 .. n /\ c + i \in 1 .. Len(bits)
      BY <1>1, <2>2, <3>0
    <3> QED
      BY <1>3, <1>5, <2>1, <3>1
  <2>5. more[c + i] = BitAt(byte, i)
    BY <2>3, <2>4
  <2> QED
    BY <2>5 DEF c
<1>8. CASE n + 1 = ByteBits
  <2>1. t = [bitIndex |-> 0, byte |-> 0, chunk |-> Append(s.chunk, byte)]
    BY <1>8 DEF WriteBit, n
  <2>2. byte \in Byte
    BY <1>3, <1>8 DEF Byte
  <2>3. 0 \in 0 .. ByteBits - 1 /\ 0 \in Byte /\ 0 < 2^0
    BY <1>1, Widths DEF Byte
  <2>4. Append(s.chunk, byte) \in Seq(Byte)
    BY <1>1, <2>2
  <2>5. t \in BetweenBits
    <3> HIDE DEF t, byte
    <3> QED
      BY <2>1, <2>3, <2>4 DEF BetweenBits, Stat
  <2> DEFINE longer == Append(all, byte)
  <2>6. longer \in Seq(Byte) /\ Len(longer) = Len(all) + 1 /\ longer[Len(all) + 1] = byte
        /\ \A k \in 1 .. Len(all) : longer[k] = all[k]
    <3> HIDE DEF byte
    <3> QED
      BY <2>2
  <2>7. Len(more) = Len(longer) * ByteBits + 0
    <3> DEFINE c == Len(all) * ByteBits
    <3>1. (Len(all) + 1) * ByteBits = c + ByteBits
      BY <1>1, <1>4
    <3> HIDE DEF c, more, longer
    <3>2. Len(more) = (c + n) + 1 /\ c \in Nat
      BY <1>4, <1>5 DEF c
    <3>3. (c + n) + 1 = c + ByteBits /\ c + ByteBits = (c + ByteBits) + 0
      BY <1>1, <1>8, <3>2
    <3> QED
      BY <2>6, <3>1, <3>2, <3>3
  <2>8. ASSUME NEW k \in 1 .. Len(longer), NEW i \in 1 .. ByteBits
        PROVE  more[(k - 1) * ByteBits + i] = BitAt(longer[k], i)
    <3> HIDE DEF longer, more, byte
    <3>1. CASE k = Len(all) + 1
      <4>1. k - 1 = Len(all) /\ i \in 1 .. n + 1
        BY <1>1, <1>4, <1>8, <3>1
      <4> QED
        BY <1>7, <2>6, <3>1, <4>1
    <3>2. CASE k # Len(all) + 1
      <4>1. k \in 1 .. Len(all)
        BY <1>4, <2>6, <3>2
      <4> QED
        BY <1>6, <2>6, <4>1
    <3> QED
      BY <3>1, <3>2
  <2>9. Holds(longer, t, more)
    <3>1. t.bitIndex = 0 /\ \A i \in 1 .. 0 : FALSE
      BY <2>1
    <3> HIDE DEF t, longer, more
    <3> QED
      BY <2>7, <2>8, <3>1 DEF Holds
  <2> QED
    BY <2>1, <2>2, <2>5, <2>9
<1>9. CASE n + 1 # ByteBits
  <2>1. t = [s EXCEPT !.byte = byte, !.bitIndex = n + 1]
    BY <1>9 DEF WriteBit, n
  <2>2. t = [bitIndex |-> n + 1, byte |-> byte, chunk |-> s.chunk]
    BY <2>1 DEF BetweenBits, Stat
  <2>3. n + 1 \in 0 .. ByteBits - 1 /\ n + 1 \in 1 .. ByteBits
    BY <1>1, <1>9
  <2>4. byte \in Byte /\ byte < 2^(n + 1)
    <3>0. (n + 1) \in 1 .. ByteBits /\ ByteBits \in n + 1 .. ByteBits /\ n \in 0 .. ByteBits
      BY <1>1
    <3>1. PICK p \in Nat : p # 0 /\ 2^ByteBits = 2^((n + 1) - 1) * (2 * p)
      BY <3>0, EvenMultiple
    <3>2. (n + 1) - 1 = n /\ 2^n \in Nat /\ 2^(n + 1) = 2 * 2^n
      BY <3>0, <1>1, Widths
    <3>3. 2^ByteBits = 2^(n + 1) * p /\ 2^(n + 1) \in Nat
      BY <3>1, <3>2
    <3>4. 2^ByteBits >= 2^(n + 1)
      BY <3>1, <3>3
    <3> HIDE DEF byte
    <3> QED
      BY <1>3, <3>3, <3>4 DEF Byte
  <2> HIDE DEF t, byte, more
  <2>5. t \in BetweenBits
    BY <1>1, <2>2, <2>3, <2>4 DEF BetweenBits, Stat
  <2>6. Len(more) = Len(all) * ByteBits + (n + 1)
    <3> DEFINE c == Len(all) * ByteBits
    <3>1. c \in Nat /\ Len(more) = (c + n) + 1
      BY <1>4, <1>5
    <3> HIDE DEF c
    <3>2. Len(more) = c + (n + 1)
      BY <1>1, <3>1
    <3> QED
      BY <3>2 DEF c
  <2>7. Holds(all, t, more)
    BY <1>6, <1>7, <2>2, <2>6 DEF Holds
  <2> QED
    BY <2>2, <2>5, <2>7 DEF t, more
<1> QED
  BY <1>8, <1>9

(* Three sequences are joined in either order.                             *)
LEMMA Joined ==
  ASSUME NEW S, NEW a \in Seq(S), NEW b \in Seq(S), NEW c \in Seq(S)
  PROVE  a \o (b \o c) = (a \o b) \o c
BY ConcatAssociative

(* An element is appended to what comes last.                              *)
LEMMA JoinedBefore ==
  ASSUME NEW a \in Seq(Byte), NEW b \in Seq(Byte), NEW x \in Byte
  PROVE  Append(a \o b, x) = a \o Append(b, x)
<1> DEFINE l == Append(a \o b, x)
           r == a \o Append(b, x)
<1>1. a \o b \in Seq(Byte) /\ Len(a \o b) = Len(a) + Len(b) /\ Len(a) \in Nat /\ Len(b) \in Nat
  OBVIOUS
<1>2. l \in Seq(Byte) /\ Len(l) = Len(a) + Len(b) + 1
  BY <1>1
<1>3. Append(b, x) \in Seq(Byte) /\ Len(Append(b, x)) = Len(b) + 1
  OBVIOUS
<1>4. r \in Seq(Byte) /\ Len(r) = Len(a) + (Len(b) + 1)
  BY <1>3
<1>5. ASSUME NEW i \in 1 .. Len(a) + Len(b) + 1
      PROVE  l[i] = r[i]
  <2>1. CASE i <= Len(a)
    BY <1>1, <1>3, <2>1
  <2>2. CASE i > Len(a) /\ i <= Len(a) + Len(b)
    <3>1. l[i] = b[i - Len(a)]
      BY <1>1, <2>2
    <3>2. r[i] = Append(b, x)[i - Len(a)]
      BY <1>1, <1>3, <2>2
    <3>3. i - Len(a) \in 1 .. Len(b)
      BY <1>1, <2>2
    <3> QED
      BY <3>1, <3>2, <3>3
  <2>3. CASE i = Len(a) + Len(b) + 1
    <3>1. l[i] = x
      BY <1>1, <2>3
    <3>2. r[i] = Append(b, x)[i - Len(a)] /\ i - Len(a) = Len(b) + 1
      BY <1>1, <1>3, <2>3
    <3> QED
      BY <3>1, <3>2
  <2> QED
    BY <1>1, <2>1, <2>2, <2>3
<1>6. Len(l) = Len(r) /\ \A i \in 1 .. Len(l) : l[i] = r[i]
  BY <1>1, <1>2, <1>4, <1>5
<1> HIDE DEF l, r
<1>7. l = r
  BY <1>2, <1>4, <1>6
<1> QED
  BY <1>7 DEF l, r

(* The file and the status of the bit writer hold the bits: a viewer goes  *)
(* on behind the chunks that are written, and has read the bytes that come *)
(* before those of the chunk in progress.                                  *)
Encodes(file, s, bits) ==
  /\ s \in BetweenBits /\ Len(s.chunk) < ChunkBytes
  /\ file \in Seq(Byte) /\ bits \in Seq(Bit)
  /\ \E bytes \in Seq(Byte) : GoesOn(file, bytes) /\ Holds(bytes \o s.chunk, s, bits)

(* Nothing is written yet.                                                 *)
LEMMA EmptyEncodes == Encodes(<<>>, EmptyStat, <<>>)
<1>1. EmptyStat \in BetweenBits /\ EmptyStat.chunk = <<>> /\ EmptyStat.bitIndex = 0
  BY Widths DEF EmptyStat, BetweenBits, Stat, Byte
<1>2. ByteBits \in Nat /\ ChunkBytes \in Nat /\ 0 < ChunkBytes
  BY Widths
<1>3. <<>> \in Seq(Byte) /\ <<>> \in Seq(Bit) /\ Len(<<>>) = 0 /\ <<>> \o <<>> = <<>>
  OBVIOUS
<1>4. Holds(<<>>, EmptyStat, <<>>)
  <2>1. \A i \in 1 .. 0 : FALSE
    OBVIOUS
  <2>2. 0 = 0 * ByteBits + 0
    BY <1>2
  <2> QED
    BY <1>1, <1>3, <2>1, <2>2 DEF Holds
<1> QED
  BY <1>1, <1>2, <1>3, <1>4, GoesOnAtStart DEF Encodes

(* Between two bits, and no chunk is full.                                 *)
Pending == {s \in BetweenBits : Len(s.chunk) < ChunkBytes}
Sent == [stat : Pending, out : Seq(Byte)]

(* What a bit does to the status.                                          *)
LEMMA BitTypes ==
  ASSUME NEW s \in Pending, NEW bit \in Bit
  PROVE  /\ WriteBit(s, bit) \in BetweenBits /\ WriteBit(s, bit).chunk \in Seq(Byte)
         /\ Len(WriteBit(s, bit).chunk) \in 0 .. ChunkBytes
         /\ ChunkFull(WriteBit(s, bit)) => WriteBit(s, bit).bitIndex = 0
<1> DEFINE n == s.bitIndex
           t == WriteBit(s, bit)
           bits == [i \in 1 .. n |-> BitAt(s.byte, i)]
<1>1. n \in 0 .. ByteBits - 1 /\ n \in Nat /\ s.byte \in Byte /\ s.byte \in Nat /\ s.chunk \in Seq(Byte)
      /\ s \in BetweenBits /\ Len(s.chunk) < ChunkBytes /\ Len(s.chunk) \in Nat /\ ChunkBytes \in Nat
  BY Widths DEF Pending, BetweenBits, Stat, Byte
<1>2. ASSUME NEW i \in 1 .. n
      PROVE  BitAt(s.byte, i) \in Bit
  <2>1. i - 1 \in 0 .. ByteBits
    BY <1>1, Widths
  <2>2. 2^(i - 1) \in Nat /\ 2^(i - 1) # 0
    BY <2>1, Widths
  <2>3. s.byte \div 2^(i - 1) \in Nat
    BY <1>1, <2>2, Divided
  <2>4. \A d \in Nat : d % 2 \in {0, 1}
    OBVIOUS
  <2> QED
    BY <2>3, <2>4 DEF BitAt, Bit
<1> HIDE DEF n
<1>3. bits \in Seq(Bit) /\ Len(bits) = n /\ \A i \in 1 .. n : bits[i] = BitAt(s.byte, i)
  BY <1>1, <1>2
<1>4. <<>> \in Seq(Byte) /\ Len(<<>>) = 0 /\ \A k \in 1 .. 0 : FALSE
  OBVIOUS
<1> HIDE DEF bits
<1>5. Holds(<<>>, s, bits)
  <2>1. n = 0 * ByteBits + n /\ \A i \in 1 .. n : 0 * ByteBits + i = i
    BY <1>1, Widths
  <2> QED
    BY <1>3, <1>4, <2>1 DEF Holds, n
<1>6. /\ t \in BetweenBits
      /\ \/ t.chunk = s.chunk
         \/ \E byte \in Byte : t = [bitIndex |-> 0, byte |-> 0, chunk |-> Append(s.chunk, byte)]
  BY <1>1, <1>3, <1>4, <1>5, BitWritten
<1> HIDE DEF t
<1>7. CASE t.chunk = s.chunk
  BY <1>1, <1>6, <1>7 DEF ChunkFull, t
<1>8. ASSUME NEW byte \in Byte, t = [bitIndex |-> 0, byte |-> 0, chunk |-> Append(s.chunk, byte)]
      PROVE  t.chunk \in Seq(Byte) /\ Len(t.chunk) \in 0 .. ChunkBytes /\ t.bitIndex = 0
  <2>1. t.chunk = Append(s.chunk, byte) /\ t.bitIndex = 0
    BY <1>8
  <2>2. Append(s.chunk, byte) \in Seq(Byte) /\ Len(Append(s.chunk, byte)) = Len(s.chunk) + 1
    BY <1>1
  <2>3. Len(s.chunk) + 1 \in 0 .. ChunkBytes
    BY <1>1
  <2> QED
    BY <2>1, <2>2, <2>3
<1> QED
  BY <1>6, <1>7, <1>8 DEF t

(* A full chunk is bytes.                                                  *)
LEMMA ChunkTypes ==
  ASSUME NEW s, s.chunk \in Seq(Byte), Len(s.chunk) \in 0 .. ChunkBytes
  PROVE  Len(s.chunk) \in Byte /\ Chunk(s) \in Seq(Byte)
<1>1. Len(s.chunk) \in Byte
  BY Widths DEF Byte
<1> QED
  BY <1>1 DEF Chunk

(* A bit leaves no full chunk.                                             *)
LEMMA BitSent ==
  ASSUME NEW done \in Sent, NEW bit \in Bit
  PROVE  WithBit(done, bit) \in Sent
<1> DEFINE t == WriteBit(done.stat, bit)
<1>1. done.stat \in Pending /\ done.out \in Seq(Byte)
  BY DEF Sent
<1>2. /\ t \in BetweenBits /\ t.chunk \in Seq(Byte) /\ Len(t.chunk) \in 0 .. ChunkBytes
  BY <1>1, BitTypes
<1>3. WithBit(done, bit) = IF ChunkFull(t) THEN [stat |-> EmptyStat, out |-> done.out \o Chunk(t)]
                           ELSE [stat |-> t, out |-> done.out]
  BY DEF WithBit
<1> HIDE DEF t
<1>4. CASE ChunkFull(t)
  <2>1. Chunk(t) \in Seq(Byte)
    BY <1>2, ChunkTypes
  <2>2. done.out \o Chunk(t) \in Seq(Byte)
    BY <1>1, <2>1
  <2>3. EmptyStat \in Pending
    BY EmptyEncodes DEF Encodes, Pending
  <2> QED
    BY <1>3, <1>4, <2>2, <2>3 DEF Sent
<1>5. CASE ~ChunkFull(t)
  <2>1. Len(t.chunk) < ChunkBytes
    BY <1>2, <1>5, Widths DEF ChunkFull
  <2> QED
    BY <1>1, <1>2, <1>3, <1>5, <2>1 DEF Sent, Pending
<1> QED
  BY <1>4, <1>5

(* One more bit is in the file and the status, behind those before.        *)
LEMMA BitEncoded ==
  ASSUME NEW done \in Sent, NEW bit \in Bit, NEW file \in Seq(Byte), NEW bits \in Seq(Bit),
         Encodes(file \o done.out, done.stat, bits)
  PROVE  Encodes(file \o WithBit(done, bit).out, WithBit(done, bit).stat, Append(bits, bit))
<1> DEFINE s == done.stat
           t == WriteBit(s, bit)
           more == Append(bits, bit)
           front == file \o done.out
<1>1. s \in Pending /\ s \in BetweenBits /\ done.out \in Seq(Byte) /\ s.chunk \in Seq(Byte)
      /\ Len(s.chunk) < ChunkBytes /\ Len(s.chunk) \in Nat
  BY DEF Sent, Pending, BetweenBits, Stat
<1>2. front \in Seq(Byte) /\ more \in Seq(Bit)
  BY <1>1
<1>3. /\ t \in BetweenBits /\ t.chunk \in Seq(Byte) /\ Len(t.chunk) \in 0 .. ChunkBytes
      /\ ChunkFull(t) => t.bitIndex = 0
  BY <1>1, BitTypes
<1>4. PICK bytes \in Seq(Byte) : GoesOn(front, bytes) /\ Holds(bytes \o s.chunk, s, bits)
  BY DEF Encodes
<1>5. Holds(bytes \o t.chunk, t, more)
  <2>1. bytes \o s.chunk \in Seq(Byte)
    BY <1>1
  <2>2. \/ t.chunk = s.chunk /\ Holds(bytes \o s.chunk, t, more)
        \/ \E byte \in Byte : /\ t = [bitIndex |-> 0, byte |-> 0, chunk |-> Append(s.chunk, byte)]
                              /\ Holds(Append(bytes \o s.chunk, byte), t, more)
    BY <1>1, <1>4, <2>1, BitWritten
  <2> HIDE DEF t, more
  <2>3. ASSUME NEW byte \in Byte, t = [bitIndex |-> 0, byte |-> 0, chunk |-> Append(s.chunk, byte)]
        PROVE  Append(bytes \o s.chunk, byte) = bytes \o t.chunk
    <3>1. t.chunk = Append(s.chunk, byte)
      BY <2>3
    <3>2. ASSUME NEW b \in Seq(Byte) PROVE Append(bytes \o b, byte) = bytes \o Append(b, byte)
      <4>1. bytes \in Seq(Byte) /\ b \in Seq(Byte) /\ byte \in Byte
        BY <2>3, <3>2
      <4> HIDE DEF s
      <4> QED
        BY <4>1, JoinedBefore
    <3>3. s.chunk \in Seq(Byte)
      BY <1>1
    <3> QED
      BY <3>1, <3>2, <3>3
  <2> QED
    BY <2>2, <2>3
<1>6. WithBit(done, bit) = IF ChunkFull(t) THEN [stat |-> EmptyStat, out |-> done.out \o Chunk(t)]
                           ELSE [stat |-> t, out |-> done.out]
  BY DEF WithBit
<1> HIDE DEF t, more, s
<1>7. CASE ChunkFull(t)
  <2>1. Chunk(t) \in Seq(Byte) /\ Len(t.chunk) \in Byte /\ t.chunk # <<>>
    <3>1. Len(t.chunk) >= 1
      BY <1>7, Widths DEF ChunkFull
    <3> QED
      BY <1>3, <3>1, ChunkTypes
  <2>2. GoesOn(Chunk(t), t.chunk)
    BY <1>3, <2>1, ChunkIsRead DEF Chunk
  <2>3. GoesOn(front \o Chunk(t), bytes \o t.chunk)
    BY <1>2, <1>3, <1>4, <2>1, <2>2, GoesOnThrough
  <2>4. file \o (done.out \o Chunk(t)) = front \o Chunk(t)
    <3>1. \A a, c \in Seq(Byte) : file \o (a \o c) = (file \o a) \o c
      BY Joined
    <3> QED
      BY <1>1, <2>1, <3>1
  <2>5. EmptyStat \in BetweenBits /\ Len(EmptyStat.chunk) < ChunkBytes
        /\ EmptyStat.chunk = <<>> /\ EmptyStat.bitIndex = 0
    BY EmptyEncodes DEF Encodes, EmptyStat
  <2>6. Holds(bytes \o t.chunk, EmptyStat, more)
    <3>1. \A i \in 1 .. 0 : FALSE
      OBVIOUS
    <3>2. t.bitIndex = EmptyStat.bitIndex
      BY <1>3, <1>7, <2>5
    <3> QED
      BY <1>5, <2>5, <3>1, <3>2 DEF Holds
  <2>7. bytes \o t.chunk \in Seq(Byte) /\ (bytes \o t.chunk) \o <<>> = bytes \o t.chunk
        /\ front \o Chunk(t) \in Seq(Byte)
    BY <1>2, <1>3, <2>1
  <2>8. Encodes(front \o Chunk(t), EmptyStat, more)
    <3> HIDE DEF front
    <3> QED
      BY <1>2, <2>3, <2>5, <2>6, <2>7 DEF Encodes
  <2>9. WithBit(done, bit).stat = EmptyStat /\ WithBit(done, bit).out = done.out \o Chunk(t)
    BY <1>6, <1>7
  <2> QED
    BY <2>4, <2>8, <2>9 DEF more
<1>8. CASE ~ChunkFull(t)
  <2>1. Len(t.chunk) < ChunkBytes
    BY <1>3, <1>8, Widths DEF ChunkFull
  <2>2. Encodes(front, t, more)
    <3> HIDE DEF front
    <3> QED
      BY <1>2, <1>3, <1>4, <1>5, <2>1 DEF Encodes
  <2>3. WithBit(done, bit).stat = t /\ WithBit(done, bit).out = done.out
    BY <1>6, <1>8
  <2> QED
    BY <2>2, <2>3 DEF more
<1> QED
  BY <1>7, <1>8

(* The first n elements.                                                   *)
First(seq, n) == [i \in 1 .. n |-> seq[i]]

(* Each element of a sequence makes its beginning longer by one.           *)
LEMMA FirstGrows ==
  ASSUME NEW seq \in Seq(Bit), NEW n \in 0 .. Len(seq) - 1
  PROVE  First(seq, n) \in Seq(Bit) /\ seq[n + 1] \in Bit
         /\ Append(First(seq, n), seq[n + 1]) = First(seq, n + 1)
<1>1. n \in Nat /\ \A i \in 1 .. n + 1 : i \in 1 .. Len(seq) /\ seq[i] \in Bit
  OBVIOUS
<1>2. First(seq, n) \in Seq(Bit) /\ Len(First(seq, n)) = n /\ \A i \in 1 .. n : First(seq, n)[i] = seq[i]
  BY <1>1 DEF First
<1> DEFINE l == Append(First(seq, n), seq[n + 1])
           r == First(seq, n + 1)
<1>3. r \in Seq(Bit) /\ Len(r) = n + 1 /\ \A i \in 1 .. n + 1 : r[i] = seq[i]
  BY <1>1 DEF First
<1>4. seq[n + 1] \in Bit
  BY <1>1
<1>5. l \in Seq(Bit) /\ Len(l) = n + 1 /\ \A i \in 1 .. n + 1 : l[i] = seq[i]
  BY <1>1, <1>2, <1>4
<1> HIDE DEF l, r
<1>6. l = r
  <2>1. Len(l) = Len(r) /\ \A i \in 1 .. Len(l) : l[i] = r[i]
    BY <1>3, <1>5
  <2> QED
    BY <1>3, <1>5, <2>1
<1> QED
  BY <1>2, <1>4, <1>6 DEF l, r

(* The loop over the bits of codes adds them to what the file and the      *)
(* status hold.                                                            *)
LEMMA BitsEncoded ==
  ASSUME NEW s, NEW file \in Seq(Byte), NEW bits \in Seq(Bit), Encodes(file, s, bits),
         NEW more \in Seq(Bit)
  PROVE  /\ WriteBits(s, more) \in Sent
         /\ Encodes(file \o WriteBits(s, more).out, WriteBits(s, more).stat, bits \o more)
<1> DEFINE n == Len(more)
           l == Len(bits)
           all == bits \o more
           base == [stat |-> s, out |-> <<>>]
           turn == [k \in 1 .. n |-> [d \in Sent |-> WithBit(d, more[k])]]
           after == CHOOSE f : f = [k \in 0 .. n |-> IF k = 0 THEN base ELSE WithBit(f[k - 1], more[k])]
<1>1. n \in Nat /\ l \in Nat /\ all \in Seq(Bit) /\ Len(all) = l + n
      /\ \A k \in 1 .. n : more[k] \in Bit /\ all[l + k] = more[k]
  OBVIOUS
<1>2. base \in Sent
  BY DEF Encodes, Sent, Pending
<1>3. turn \in [1 .. n -> [Sent -> Sent]]
  BY <1>1, BitSent
<1>4. after = [k \in 0 .. n |-> IF k = 0 THEN base ELSE WithBit(after[k - 1], more[k])]
  <2> HIDE DEF n, base, turn
  <2>0. Looped(n, Sent, base, turn) # {}
    BY <1>1, <1>2, <1>3, LoopSolved, Zenon
  <2>1. PICK f \in [0 .. n -> Sent] : f = [k \in 0 .. n |-> IF k = 0 THEN base ELSE turn[k][f[k - 1]]]
    BY <2>0 DEF Looped
  <2>2. ASSUME NEW k \in 0 .. n, k # 0
        PROVE  turn[k][f[k - 1]] = WithBit(f[k - 1], more[k])
    <3>1. k \in 1 .. n /\ k - 1 \in 0 .. n
      BY <1>1, <2>2
    <3> QED
      BY <3>1 DEF turn
  <2>3. f = [k \in 0 .. n |-> IF k = 0 THEN base ELSE WithBit(f[k - 1], more[k])]
    BY <2>1, <2>2
  <2> QED
    BY <2>3
<1>5. WriteBits(s, more) = after[n]
  BY DEF WriteBits
<1> DEFINE Good == {k \in 0 .. n : /\ after[k] \in Sent
                                   /\ Encodes(file \o after[k].out, after[k].stat, First(all, l + k))}
<1> HIDE DEF n, l, all, after
<1>6. 0 \in Good
  <2>1. 0 \in 0 .. n /\ after[0] = base /\ l + 0 = l
    BY <1>1, <1>4
  <2>2. First(all, l) = bits
    BY DEF First, all, l
  <2>3. file \o <<>> = file /\ base.out = <<>> /\ base.stat = s
    OBVIOUS
  <2>4. Encodes(file \o base.out, base.stat, First(all, l + 0))
    BY <2>1, <2>2, <2>3
  <2> HIDE DEF base
  <2> QED
    BY <1>2, <2>1, <2>4
<1>7. ASSUME NEW k \in 1 .. n, k - 1 \in Good
      PROVE  k \in Good
  <2> DEFINE d == after[k - 1]
             begun == First(all, l + (k - 1))
  <2>1. k \in 0 .. n /\ k # 0 /\ l + (k - 1) \in 0 .. Len(all) - 1 /\ l + (k - 1) + 1 = l + k
    BY <1>1
  <2>2. d \in Sent /\ Encodes(file \o d.out, d.stat, begun)
    BY <1>7
  <2>3. after[k] = WithBit(d, more[k])
    BY <1>4, <2>1
  <2>4. begun \in Seq(Bit) /\ more[k] \in Bit /\ Append(begun, more[k]) = First(all, l + k)
    <3>1. all[l + (k - 1) + 1] = more[k] /\ more[k] \in Bit
      BY <1>1, <2>1
    <3> QED
      BY <1>1, <2>1, <3>1, FirstGrows
  <2> HIDE DEF d, begun
  <2>5. WithBit(d, more[k]) \in Sent
    BY <2>2, <2>4, BitSent
  <2>6. Encodes(file \o WithBit(d, more[k]).out, WithBit(d, more[k]).stat, Append(begun, more[k]))
    BY <2>2, <2>4, BitEncoded
  <2> QED
    BY <2>1, <2>3, <2>4, <2>5, <2>6
<1>8. \A k \in 0 .. n : k \in Good
  <2> HIDE DEF Good
  <2> QED
    BY <1>1, <1>6, <1>7, LoopInduction
<1>9. First(all, l + n) = all
  BY <1>1 DEF First
<1>10. n \in 0 .. n
  BY <1>1
<1> QED
  BY <1>5, <1>8, <1>9, <1>10 DEF all

-----------------------------------------------------------------------------
(* The bits of codes                                                       *)

(* The bits of a code are bits.                                            *)
LEMMA BitsOfTypes ==
  ASSUME NEW code \in Nat, NEW size \in 0 .. MaxBits
  PROVE  BitsOf(code, size) \in Seq(Bit)
<1>1. MaxBits \in Nat /\ size \in Nat
  BY LzwAssumption
<1>2. ASSUME NEW i \in 1 .. size
      PROVE  (code \div 2^(i - 1)) % 2 \in Bit
  <2>1. i - 1 \in 0 .. MaxBits
    BY <1>1
  <2>2. 2^(i - 1) \in Nat /\ 2^(i - 1) # 0
    <3>1. 0 \in 0 .. MaxBits /\ i - 1 \in 0 .. MaxBits
      BY <1>1, <2>1
    <3>2. 2^(i - 1) >= 2^0
      BY <3>1, PowersGrow
    <3> QED
      BY <3>1, <3>2, Widths, PowersAssumption
  <2>3. code \div 2^(i - 1) \in Nat
    BY <2>2, Divided
  <2>4. \A d \in Nat : d % 2 \in {0, 1}
    OBVIOUS
  <2> QED
    BY <2>3, <2>4 DEF Bit
<1> QED
  BY <1>1, <1>2 DEF BitsOf

(* Codes of at most MaxBits bits.                                          *)
Codes == [code : Nat, size : 0 .. MaxBits]

(* So are those of several codes.                                          *)
LEMMA BitsOfCodesTypes ==
  ASSUME NEW cs \in Seq(Codes)
  PROVE  BitsOfCodes(cs) \in Seq(Bit)
<1> DEFINE n == Len(cs)
           turn == [k \in 1 .. n |-> [b \in Seq(Bit) |-> b \o BitsOf(cs[k].code, cs[k].size)]]
           bits == CHOOSE f : f = [k \in 0 .. n |-> IF k = 0 THEN <<>>
                                                    ELSE f[k - 1] \o BitsOf(cs[k].code, cs[k].size)]
<1>1. n \in Nat /\ <<>> \in Seq(Bit)
  OBVIOUS
<1>2. ASSUME NEW k \in 1 .. n
      PROVE  BitsOf(cs[k].code, cs[k].size) \in Seq(Bit)
  <2>1. cs[k] \in Codes
    OBVIOUS
  <2>2. cs[k].code \in Nat /\ cs[k].size \in 0 .. MaxBits
    BY <2>1 DEF Codes
  <2> QED
    BY <2>2, BitsOfTypes
<1>3. turn \in [1 .. n -> [Seq(Bit) -> Seq(Bit)]]
  BY <1>2
<1>4. bits = [k \in 0 .. n |-> IF k = 0 THEN <<>> ELSE bits[k - 1] \o BitsOf(cs[k].code, cs[k].size)]
  <2> HIDE DEF n, turn
  <2>0. Looped(n, Seq(Bit), <<>>, turn) # {}
    BY <1>1, <1>3, LoopSolved, Zenon
  <2>1. PICK f \in [0 .. n -> Seq(Bit)] : f = [k \in 0 .. n |-> IF k = 0 THEN <<>> ELSE turn[k][f[k - 1]]]
    BY <2>0 DEF Looped
  <2>2. ASSUME NEW k \in 0 .. n, k # 0
        PROVE  turn[k][f[k - 1]] = f[k - 1] \o BitsOf(cs[k].code, cs[k].size)
    <3>1. k \in 1 .. n /\ k - 1 \in 0 .. n
      BY <1>1, <2>2
    <3> QED
      BY <3>1 DEF turn
  <2>3. f = [k \in 0 .. n |-> IF k = 0 THEN <<>> ELSE f[k - 1] \o BitsOf(cs[k].code, cs[k].size)]
    BY <2>1, <2>2
  <2> QED
    BY <2>3
<1> DEFINE Good == {k \in 0 .. n : bits[k] \in Seq(Bit)}
<1> HIDE DEF n, bits
<1>5. 0 \in Good
  BY <1>1, <1>4
<1>6. ASSUME NEW k \in 1 .. n, k - 1 \in Good
      PROVE  k \in Good
  <2>1. k \in 0 .. n /\ k # 0
    BY <1>1
  <2>2. bits[k] = bits[k - 1] \o BitsOf(cs[k].code, cs[k].size)
    BY <1>4, <2>1
  <2> DEFINE code == BitsOf(cs[k].code, cs[k].size)
             begun == bits[k - 1]
  <2>3. begun \in Seq(Bit) /\ code \in Seq(Bit)
    BY <1>2, <1>6
  <2>4. bits[k] = begun \o code
    BY <2>2
  <2> HIDE DEF code, begun
  <2>5. begun \o code \in Seq(Bit)
    BY <2>3
  <2> QED
    BY <2>1, <2>4, <2>5
<1>7. \A k \in 0 .. n : k \in Good
  <2> HIDE DEF Good
  <2> QED
    BY <1>1, <1>5, <1>6, LoopInduction
<1>8. BitsOfCodes(cs) = bits[n]
  BY DEF BitsOfCodes, bits, n
<1>9. n \in 0 .. n
  BY <1>1
<1> QED
  BY <1>7, <1>8, <1>9

-----------------------------------------------------------------------------
(* The end of the image                                                    *)

(* Every bit that a viewer reads of bytes is one of one of them.           *)
LEMMA BitsOfBytesRead ==
  ASSUME NEW bytes \in Seq(Byte)
  PROVE  /\ Len(BitsOfBytes(bytes)) = Len(bytes) * ByteBits /\ Len(bytes) * ByteBits \in Nat
         /\ \A j \in 1 .. Len(bytes) * ByteBits :
              \E k \in 1 .. Len(bytes), i \in 1 .. ByteBits :
                j = (k - 1) * ByteBits + i /\ BitsOfBytes(bytes)[j] = BitAt(bytes[k], i)
<1> DEFINE w == ByteBits
           m == Len(bytes)
           total == m * w
<1>1. w \in Nat /\ w >= 1 /\ m \in Nat
  BY Widths
<1>2. total \in Nat
  BY <1>1
<1>3. BitsOfBytes(bytes) =
        [j \in 1 .. total |-> BitsOf(bytes[1 + ((j - 1) \div w)], w)[1 + ((j - 1) % w)]]
  BY DEF BitsOfBytes
<1> HIDE DEF total
<1>4. Len(BitsOfBytes(bytes)) = total
  BY <1>2, <1>3
<1>5. ASSUME NEW j \in 1 .. total
      PROVE  \E k \in 1 .. m, i \in 1 .. w :
               j = (k - 1) * w + i /\ BitsOfBytes(bytes)[j] = BitAt(bytes[k], i)
  <2> DEFINE d == (j - 1) \div w
             r == (j - 1) % w
  <2>1. j - 1 \in Nat /\ w # 0 /\ j - 1 < total
    BY <1>1, <1>2
  <2>2. j - 1 = w * d + r /\ r \in 0 .. w - 1 /\ d \in Nat
    BY <1>1, <2>1, Divided
  <2> HIDE DEF w, m
  <2>3. BitsOfBytes(bytes)[j] = BitsOf(bytes[1 + d], w)[1 + r]
    BY <1>3
  <2> HIDE DEF d, r
  <2>4. d < m
    <3>1. SUFFICES ASSUME d >= m PROVE FALSE
      BY <1>1, <2>2
    <3> DEFINE e == d - m
    <3>2. e \in Nat /\ d = m + e
      BY <1>1, <2>2, <3>1
    <3> HIDE DEF e
    <3>3. w * e \in Nat /\ w * d = m * w + w * e
      BY <1>1, <3>2
    <3>4. w * d \in Nat
      BY <1>1, <2>2
    <3> DEFINE x == w * d
               y == w * e
    <3>5. x = total + y /\ y \in Nat /\ x \in Nat /\ j - 1 = x + r
      BY <2>2, <3>3, <3>4 DEF total
    <3> HIDE DEF x, y
    <3>6. r \in Nat
      BY <1>1, <2>2
    <3> QED
      BY <1>2, <2>1, <3>5, <3>6
  <2>5. 1 + d \in 1 .. m /\ 1 + r \in 1 .. w /\ (1 + r) - 1 = r
    BY <1>1, <2>2, <2>4
  <2>6. j = ((1 + d) - 1) * w + (1 + r)
    <3> DEFINE x == w * d
    <3>1. x \in Nat /\ j - 1 = x + r /\ ((1 + d) - 1) * w = x
      BY <1>1, <2>2
    <3> HIDE DEF x
    <3>2. j = x + (1 + r)
      BY <1>2, <2>2, <2>5, <3>1
    <3> QED
      BY <3>1, <3>2
  <2>7. BitsOf(bytes[1 + d], w)[1 + r] = BitAt(bytes[1 + d], 1 + r)
    BY <2>5 DEF BitsOf, BitAt
  <2> QED
    BY <2>3, <2>5, <2>6, <2>7
<1> QED
  BY <1>2, <1>4, <1>5 DEF total

(* The bytes and what is behind the bits of the last of them.              *)
Filling(all, bits) ==
  /\ Len(all) * ByteBits - Len(bits) \in 0 .. ByteBits - 1
  /\ \A k \in 1 .. Len(all), i \in 1 .. ByteBits :
       BitAt(all[k], i) = IF (k - 1) * ByteBits + i <= Len(bits) THEN bits[(k - 1) * ByteBits + i] ELSE 0

(* The byte in progress becomes one of the chunk, with zeros behind it.    *)
LEMMA FilledUp ==
  ASSUME NEW s \in Pending, NEW bytes \in Seq(Byte), NEW bits \in Seq(Bit),
         Holds(bytes \o s.chunk, s, bits)
  PROVE  /\ Filled(s).chunk \in Seq(Byte) /\ Len(Filled(s).chunk) \in 0 .. ChunkBytes
         /\ Filling(bytes \o Filled(s).chunk, bits)
<1> DEFINE n == s.bitIndex
           chunk == s.chunk
           all == bytes \o chunk
           c == Len(all) * ByteBits
<1>1. /\ n \in 0 .. ByteBits - 1 /\ n \in Nat /\ s.byte \in Byte /\ chunk \in Seq(Byte)
      /\ Len(chunk) < ChunkBytes /\ Len(chunk) \in Nat /\ ChunkBytes \in Nat
      /\ ByteBits \in Nat /\ ByteBits >= 1
  BY Widths DEF Pending, BetweenBits, Stat
<1>2. s.byte \in 0 .. 2^n - 1
  <2>1. 2^n \in Nat /\ s.byte \in Nat /\ s.byte < 2^n
    BY <1>1, Widths DEF Pending, BetweenBits, Byte
  <2> QED
    BY <2>1
<1> HIDE DEF chunk
<1>3. all \in Seq(Byte) /\ Len(all) \in Nat
  BY <1>1
<1>4. /\ Len(bits) = c + n
      /\ \A k \in 1 .. Len(all), i \in 1 .. ByteBits : bits[(k - 1) * ByteBits + i] = BitAt(all[k], i)
      /\ \A i \in 1 .. n : bits[c + i] = BitAt(s.byte, i)
  BY DEF Holds, chunk
<1> HIDE DEF all, n
<1>5. c \in Nat
  BY <1>1, <1>3
<1>6. ASSUME NEW k \in 1 .. Len(all), NEW i \in 1 .. ByteBits
      PROVE  (k - 1) * ByteBits + i <= Len(bits)
  <2> DEFINE j == (k - 1) * ByteBits + i
  <2>1. j \in 1 .. c
    BY <1>3, PlaceOfBit
  <2> HIDE DEF c, j
  <2>2. j <= Len(bits)
    BY <1>1, <1>4, <1>5, <2>1
  <2> QED
    BY <2>2 DEF j
<1>7. CASE n = 0
  <2>1. Filled(s) = s
    BY <1>7 DEF Filled, n
  <2>2. c - Len(bits) \in 0 .. ByteBits - 1
    <3> HIDE DEF c
    <3> QED
      BY <1>1, <1>4, <1>5, <1>7
  <2>3. Filling(all, bits)
    BY <1>4, <1>6, <2>2 DEF Filling
  <2>4. Filled(s).chunk = chunk /\ Len(chunk) \in 0 .. ChunkBytes
    BY <1>1, <2>1 DEF chunk
  <2> QED
    BY <1>1, <2>3, <2>4 DEF all
<1>8. CASE n # 0
  <2> DEFINE longer == Append(all, s.byte)
  <2>1. Filled(s).chunk = Append(chunk, s.byte)
    BY <1>8 DEF Filled, n, chunk
  <2>2. Append(chunk, s.byte) \in Seq(Byte) /\ Len(Append(chunk, s.byte)) = Len(chunk) + 1
    BY <1>1
  <2>3. Len(chunk) + 1 \in 0 .. ChunkBytes
    BY <1>1
  <2>4. bytes \o Append(chunk, s.byte) = longer
    BY <1>1, JoinedBefore DEF all
  <2>5. Len(longer) = Len(all) + 1 /\ longer[Len(all) + 1] = s.byte
        /\ \A k \in 1 .. Len(all) : longer[k] = all[k]
    BY <1>1, <1>3
  <2> HIDE DEF longer
  <2>6. (Len(all) + 1) * ByteBits = c + ByteBits
    BY <1>1, <1>3
  <2>7. Len(longer) * ByteBits - Len(bits) \in 0 .. ByteBits - 1
    <3>1. (c + ByteBits) - (c + n) \in 0 .. ByteBits - 1
      <4> HIDE DEF c
      <4> QED
        BY <1>1, <1>5, <1>8
    <3> QED
      BY <1>4, <2>5, <2>6, <3>1
  <2>8. ASSUME NEW k \in 1 .. Len(longer), NEW i \in 1 .. ByteBits
        PROVE  BitAt(longer[k], i) = IF (k - 1) * ByteBits + i <= Len(bits)
                                     THEN bits[(k - 1) * ByteBits + i] ELSE 0
    <3>1. CASE k = Len(all) + 1
      <4>1. k - 1 = Len(all) /\ longer[k] = s.byte
        BY <1>3, <2>5, <3>1
      <4>2. c + i <= Len(bits) <=> i <= n
        <5> HIDE DEF c
        <5> QED
          BY <1>1, <1>4, <1>5
      <4>3. i <= n => i \in 1 .. n
        BY <1>1
      <4>4. ~(i <= n) => BitAt(s.byte, i) = 0
        <5>1. ~(i <= n) => i \in n + 1 .. ByteBits
          BY <1>1
        <5> QED
          BY <1>1, <1>2, <5>1, ZerosAbove
      <4>5. BitAt(s.byte, i) = IF c + i <= Len(bits) THEN bits[c + i] ELSE 0
        BY <1>4, <4>2, <4>3, <4>4
      <4> QED
        BY <4>1, <4>5
    <3>2. CASE k # Len(all) + 1
      <4>1. k \in 1 .. Len(all)
        BY <1>3, <2>5, <3>2
      <4> QED
        BY <1>4, <1>6, <2>5, <4>1
    <3> QED
      BY <3>1, <3>2
  <2>9. Filling(longer, bits)
    BY <2>7, <2>8 DEF Filling
  <2> QED
    BY <2>1, <2>2, <2>3, <2>4, <2>9
<1> QED
  BY <1>7, <1>8

(* What a viewer gets from the image, once its end is written.             *)
LEMMA EndWritten ==
  ASSUME NEW s, NEW front, NEW bits, Encodes(front, s, bits)
  PROVE  LET file == front \o LastChunk(Filled(s)) \o <<0>>
             read == BitsOfBytes(ReadImage(file).bytes)
         IN  /\ file \in Seq(Byte)
             /\ ReadImage(file).next = Len(file) + 1
             /\ Len(read) - Len(bits) \in 0 .. ByteBits - 1
             /\ \A i \in 1 .. Len(read) : read[i] = IF i <= Len(bits) THEN bits[i] ELSE 0
<1> DEFINE chunk == Filled(s).chunk
           last == LastChunk(Filled(s))
           file == front \o last \o <<0>>
           read == BitsOfBytes(ReadImage(file).bytes)
<1>1. s \in Pending /\ front \in Seq(Byte) /\ bits \in Seq(Bit)
  BY DEF Encodes, Pending
<1>2. PICK bytes \in Seq(Byte) : GoesOn(front, bytes) /\ Holds(bytes \o s.chunk, s, bits)
  BY DEF Encodes
<1>3. chunk \in Seq(Byte) /\ Len(chunk) \in 0 .. ChunkBytes /\ Filling(bytes \o chunk, bits)
  BY <1>1, <1>2, FilledUp
<1> DEFINE all == bytes \o chunk
<1>4. all \in Seq(Byte)
  <2> HIDE DEF chunk
  <2> QED
    BY <1>3
<1>5. last \in Seq(Byte) /\ GoesOn(front \o last, all) /\ front \o last \in Seq(Byte)
  <2>1. CASE chunk = <<>>
    <3>1. last = <<>>
      BY <2>1 DEF LastChunk
    <3>2. front \o <<>> = front /\ bytes \o <<>> = bytes
      BY <1>1
    <3> HIDE DEF last, chunk
    <3> QED
      BY <1>1, <1>2, <2>1, <3>1, <3>2
  <2>2. CASE chunk # <<>>
    <3>1. last = Chunk(Filled(s))
      BY <2>2 DEF LastChunk
    <3>2. Len(chunk) \in Byte /\ last \in Seq(Byte)
      BY <1>3, <3>1, ChunkTypes
    <3>3. last = <<Len(chunk)>> \o chunk
      BY <3>1 DEF Chunk
    <3> HIDE DEF last, chunk
    <3>4. GoesOn(last, chunk)
      BY <1>3, <2>2, <3>2, <3>3, ChunkIsRead
    <3>5. front \o last \in Seq(Byte)
      BY <1>1, <3>2
    <3> QED
      BY <1>1, <1>2, <1>3, <3>2, <3>4, <3>5, GoesOnThrough
  <2> QED
    BY <2>1, <2>2
<1> DEFINE begun == front \o last
<1> HIDE DEF last, chunk, all
<1>6. ReadImage(file) = [bytes |-> all \o ReadImage(<<0>>).bytes,
                         next |-> Behind(ReadImage(<<0>>), Len(begun)).next]
  BY <1>5, EndIsRead DEF GoesOn
<1>7. file \in Seq(Byte) /\ Len(file) = Len(begun) + 1 /\ Len(begun) \in Nat
  <2>1. begun \in Seq(Byte) /\ <<0>> \in Seq(Byte) /\ Len(<<0>>) = 1 /\ file = begun \o <<0>>
    BY <1>5, EndIsRead
  <2> HIDE DEF begun, file
  <2> QED
    BY <2>1
<1> HIDE DEF begun, file
<1>8. ReadImage(file).bytes = all /\ ReadImage(file).next = 2 + Len(begun)
  <2>1. all \o <<>> = all
    BY <1>4
  <2> DEFINE r == ReadImage(<<0>>)
             here == Len(begun)
  <2>2. r.bytes = <<>> /\ r.next = 2 /\ 2 # 0
    BY EndIsRead
  <2>3. ReadImage(file).bytes = all \o r.bytes /\ ReadImage(file).next = Behind(r, here).next
    BY <1>6
  <2> HIDE DEF r, here
  <2>4. Behind(r, here).next = 2 + here
    BY <2>2 DEF Behind
  <2> QED
    BY <2>1, <2>2, <2>3, <2>4 DEF here
<1>9. ReadImage(file).next = Len(file) + 1
  BY <1>7, <1>8
<1>10. /\ Len(read) = Len(all) * ByteBits /\ Len(all) * ByteBits \in Nat
       /\ \A j \in 1 .. Len(all) * ByteBits :
            \E k \in 1 .. Len(all), i \in 1 .. ByteBits :
              j = (k - 1) * ByteBits + i /\ read[j] = BitAt(all[k], i)
  BY <1>4, <1>8, BitsOfBytesRead
<1> HIDE DEF read
<1>11. Len(read) - Len(bits) \in 0 .. ByteBits - 1
  BY <1>3, <1>10 DEF Filling, all
<1>12. ASSUME NEW j \in 1 .. Len(read)
       PROVE  read[j] = IF j <= Len(bits) THEN bits[j] ELSE 0
  <2>1. PICK k \in 1 .. Len(all), i \in 1 .. ByteBits :
          j = (k - 1) * ByteBits + i /\ read[j] = BitAt(all[k], i)
    BY <1>10
  <2>2. Filling(all, bits)
    BY <1>3 DEF all
  <2> QED
    BY <2>1, <2>2 DEF Filling
<1> QED
  BY <1>7, <1>9, <1>11, <1>12 DEF file, read, begun, last

-----------------------------------------------------------------------------
(* The inductive invariant                                                 *)

(* A step of the image is a step of the compression.                       *)
LEMMA ImageStep == [ImageNext]_imageVars => [Next]_vars
<1>1. ImageNext => Next
  BY DEF ImageNext, TakePixel, EndImage, View, Next
<1>2. UNCHANGED imageVars => UNCHANGED vars
  BY DEF imageVars
<1>3. QED
  BY <1>1, <1>2

(* Until the footer is written the file and the status hold the bits of    *)
(* the codes; from then on the viewer has them.                            *)
BitsInv ==
  /\ stat \in Pending /\ buffer \in Seq(Byte) /\ sent \in Seq(Bit)
  /\ ~written => Encodes(buffer, stat, sent)
  /\ CodesSurvive /\ EndsWhereRead

(* The codes that end a run have no more than MaxBits bits.                *)
LEMMA RunCodes ==
  ASSUME TypeOK, NEW value, WriteRun(value)
  PROVE  codes' \in Seq(Codes)
<1> DEFINE size == Wider(maxCode + 1, codeSize)
           run == Code(curCode, codeSize)
<1>1. curCode \in Nat /\ codeSize \in 0 .. MaxBits /\ codeSize \in Nat /\ MaxBits \in Nat
      /\ maxCode \in Nat /\ ClearCode \in Nat /\ LastCode \in Nat /\ 2^MaxBits = LastCode + 1
  BY Sizes DEF TypeOK, WriteRun, AllCodes
<1>2. run \in Codes
  BY <1>1 DEF Code, Codes
<1>3. CASE Full(maxCode + 1)
  <2>1. size \in 0 .. MaxBits
    <3>1. codeSize = MaxBits => ~(LastCode >= 2^codeSize)
      BY <1>1
    <3>2. maxCode + 1 = LastCode
      BY <1>3 DEF Full
    <3> QED
      BY <1>1, <3>1, <3>2 DEF Wider
  <2> HIDE DEF size, run
  <2>2. Code(ClearCode, size) \in Codes
    BY <1>1, <2>1 DEF Code, Codes
  <2>3. codes' = <<run, Code(ClearCode, size)>>
    BY <1>3 DEF WriteRun, run, size
  <2> QED
    BY <1>2, <2>2, <2>3
<1>4. CASE ~Full(maxCode + 1)
  <2>1. codes' = <<run>>
    BY <1>4 DEF WriteRun
  <2> HIDE DEF run
  <2> QED
    BY <1>2, <2>1
<1> QED
  BY <1>3, <1>4

(* Nor have those of the footer, and an image has a last run.              *)
LEMMA FooterCodes ==
  ASSUME IInv, WriteFooter
  PROVE  codes' \in Seq(Codes)
<1>1. TypeOK /\ image # <<>> /\ ~written /\ codes = <<>> /\ count = Len(image)
  BY DEF IInv, WriteFooter
<1>2. Idle
  BY <1>1 DEF IInv, RunSent, RunAndClearSent, ClearSent, LastRunSent, Finished
<1>3. Len(image) # 0
  BY <1>1 DEF TypeOK
<1>4. curCode \in Nat
  <2>1. curCode # -1
    BY <1>1, <1>2, <1>3 DEF Idle
  <2> QED
    BY <1>1, <2>1, Sizes DEF TypeOK, AllCodes
<1>5. codeSize \in 0 .. MaxBits /\ MinCodeSize + 1 \in 0 .. MaxBits /\ ClearCode \in Nat /\ ClearCode + 1 \in Nat
  BY <1>1, Sizes DEF TypeOK
<1>6. /\ Code(curCode, codeSize) \in Codes /\ Code(ClearCode, codeSize) \in Codes
      /\ Code(ClearCode + 1, MinCodeSize + 1) \in Codes
  BY <1>4, <1>5 DEF Code, Codes
<1> QED
  BY <1>6 DEF WriteFooter

(* The first code is in the status or the file.                            *)
LEMMA InitBits == ImageInit => BitsInv
<1> SUFFICES ASSUME ImageInit PROVE BitsInv
  OBVIOUS
<1> DEFINE bits == BitsOfCodes(codes)
           first == WriteBits(EmptyStat, bits)
<1>1. stat = first.stat /\ buffer = first.out /\ sent = bits /\ ~written
  BY DEF ImageInit, Init
<1>2. codes \in Seq(Codes)
  <2>1. Code(ClearCode, MinCodeSize + 1) \in Codes
    BY Sizes DEF Code, Codes
  <2> QED
    BY <2>1 DEF ImageInit, Init
<1>3. bits \in Seq(Bit) /\ <<>> \in Seq(Byte) /\ <<>> \in Seq(Bit)
  BY <1>2, BitsOfCodesTypes
<1> HIDE DEF bits
<1>4. first \in Sent /\ Encodes(<<>> \o first.out, first.stat, <<>> \o bits)
  BY <1>3, EmptyEncodes, BitsEncoded
<1> HIDE DEF first
<1>5. first.out \in Seq(Byte) /\ first.stat \in Pending
  BY <1>4 DEF Sent
<1>6. <<>> \o first.out = first.out /\ <<>> \o bits = bits
  BY <1>3, <1>5
<1> QED
  BY <1>1, <1>3, <1>4, <1>5, <1>6 DEF BitsInv, CodesSurvive, EndsWhereRead

(* Codes add their bits to what is written and what waits.                 *)
LEMMA CodesAdded ==
  ASSUME BitsInv, ~written, NEW cs \in Seq(Codes)
  PROVE  LET done == WriteBits(stat, BitsOfCodes(cs))
         IN  /\ done.stat \in Pending /\ buffer \o done.out \in Seq(Byte)
             /\ sent \o BitsOfCodes(cs) \in Seq(Bit)
             /\ Encodes(buffer \o done.out, done.stat, sent \o BitsOfCodes(cs))
<1> DEFINE bits == BitsOfCodes(cs)
           done == WriteBits(stat, bits)
<1>1. bits \in Seq(Bit)
  BY BitsOfCodesTypes
<1>2. buffer \in Seq(Byte) /\ sent \in Seq(Bit) /\ Encodes(buffer, stat, sent)
  BY DEF BitsInv
<1> HIDE DEF bits
<1>3. done \in Sent /\ Encodes(buffer \o done.out, done.stat, sent \o bits)
  BY <1>1, <1>2, BitsEncoded
<1> HIDE DEF done
<1>4. done.stat \in Pending /\ buffer \o done.out \in Seq(Byte) /\ sent \o bits \in Seq(Bit)
  BY <1>3 DEF Sent, Encodes
<1> QED
  BY <1>3, <1>4 DEF done, bits

(* A step that leaves the bit writer alone and does not write the footer.  *)
LEMMA KeptBits ==
  ASSUME BitsInv, UNCHANGED <<bitWriter, written>>
  PROVE  BitsInv'
BY DEF BitsInv, bitWriter, CodesSurvive, EndsWhereRead

(* No step of the image loses a bit.                                       *)
LEMMA StepBits ==
  ASSUME IInv, BitsInv, [ImageNext]_imageVars
  PROVE  BitsInv'
<1>1. ASSUME NEW value, ExtendRun(value), UNCHANGED bitWriter
      PROVE  BitsInv'
  <2>1. UNCHANGED written
    BY <1>1 DEF ExtendRun, Takes
  <2> QED
    BY <1>1, <2>1, KeptBits
<1>2. ASSUME NEW value, WriteRun(value), SendCodes(codes')
      PROVE  BitsInv'
  <2>1. ~written /\ written' = written
    BY <1>2 DEF WriteRun, Takes
  <2>2. codes' \in Seq(Codes)
    BY <1>2, RunCodes DEF IInv
  <2>3. /\ stat' \in Pending /\ buffer' \in Seq(Byte) /\ sent' \in Seq(Bit)
        /\ Encodes(buffer', stat', sent')
    BY <1>2, <2>1, <2>2, CodesAdded DEF SendCodes
  <2> QED
    BY <2>1, <2>3 DEF BitsInv, CodesSurvive, EndsWhereRead
<1>3. ASSUME EndImage
      PROVE  BitsInv'
  <2> DEFINE done == WriteBits(stat, BitsOfCodes(codes'))
  <2>1. ~written /\ written' = TRUE /\ codes' \in Seq(Codes)
    BY <1>3, FooterCodes DEF EndImage, WriteFooter
  <2>2. /\ buffer' = buffer \o done.out \o LastChunk(Filled(done.stat)) \o <<0>>
        /\ stat' = EmptyStat /\ sent' = sent \o BitsOfCodes(codes')
    BY <1>3 DEF EndImage, SendLast
  <2>3. /\ sent' \in Seq(Bit) /\ Encodes(buffer \o done.out, done.stat, sent')
    BY <2>1, <2>2, CodesAdded
  <2> HIDE DEF done
  <2>4. /\ buffer' \in Seq(Byte)
        /\ ReadImage(buffer').next = Len(buffer') + 1
        /\ Len(BitsOfBytes(ReadImage(buffer').bytes)) - Len(sent') \in 0 .. ByteBits - 1
        /\ \A i \in 1 .. Len(BitsOfBytes(ReadImage(buffer').bytes)) :
             BitsOfBytes(ReadImage(buffer').bytes)[i] = IF i <= Len(sent') THEN sent'[i] ELSE 0
    BY <2>2, <2>3, EndWritten
  <2>5. stat' \in Pending
    BY <2>2, EmptyEncodes DEF Encodes, Pending
  <2> QED
    BY <2>1, <2>3, <2>4, <2>5 DEF BitsInv, CodesSurvive, EndsWhereRead
<1>4. ASSUME View
      PROVE  BitsInv'
  <2>1. UNCHANGED written
    BY <1>4 DEF View, Reads, ReadClear, ReadEnd, ReadRun, Misread, encoder
  <2> QED
    BY <1>4, <2>1, KeptBits DEF View
<1>5. ASSUME UNCHANGED imageVars
      PROVE  BitsInv'
  <2>1. UNCHANGED <<bitWriter, written>>
    BY <1>5 DEF imageVars, vars, encoder
  <2> QED
    BY <2>1, KeptBits
<1> QED
  BY <1>1, <1>2, <1>3, <1>4, <1>5 DEF ImageNext, TakePixel

(* No behavior of the image does.                                          *)
LEMMA AlwaysBits == ImageSpec => [](IInv /\ BitsInv)
<1>1. ImageInit => IInv /\ BitsInv
  BY InitIInv, InitBits DEF ImageInit
<1>2. IInv /\ BitsInv /\ [ImageNext]_imageVars => (IInv /\ BitsInv)'
  BY ImageStep, StepIInv, StepBits
<1> QED
  BY <1>1, <1>2, PTL DEF ImageSpec

-----------------------------------------------------------------------------
(* What follows                                                            *)

(* What is put into the file is bytes, a full chunk with its length among  *)
(* them, and no chunk is full between two codes.                           *)
THEOREM ImageTypes == ImageSpec => []ImageTypeOK
<1>1. IInv /\ BitsInv => ImageTypeOK
  BY DEF IInv, BitsInv, ImageTypeOK, Pending, BetweenBits
<1> QED
  BY <1>1, AlwaysBits, PTL

(* The viewer gets the bits of all codes back, in order.                   *)
THEOREM CodesAreRead == ImageSpec => []CodesSurvive
<1>1. IInv /\ BitsInv => CodesSurvive
  BY DEF BitsInv
<1> QED
  BY <1>1, AlwaysBits, PTL

(* It goes on exactly behind the image.                                    *)
THEOREM ImageEnds == ImageSpec => []EndsWhereRead
<1>1. IInv /\ BitsInv => EndsWhereRead
  BY DEF BitsInv
<1> QED
  BY <1>1, AlwaysBits, PTL

(* What is written for an image, code by code, is its compression.         *)
THEOREM ImageImplementsLzw == ImageSpec => Spec
<1>1. ImageInit => Init
  BY DEF ImageInit
<1>2. QED
  BY <1>1, ImageStep, PTL DEF ImageSpec, Spec

(* The viewer shows the image that GifWriteLzwImage was given.             *)
THEOREM ImageSurvives == ImageSpec => [](PixelsSurvive /\ InStep)
<1>1. QED
  BY ImageImplementsLzw, ViewerShowsTheImage, DictionariesInStep, PTL
=============================================================================
