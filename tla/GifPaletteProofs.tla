--------------------------- MODULE GifPaletteProofs ---------------------------
(***************************************************************************)
(* Proofs about GifPalette, for every depth, frame, frame before it and    *)
(* content of the memory that is not written.                              *)
(***************************************************************************)
EXTENDS GifPalette, Recursion, FiniteSetTheorems, SequenceTheorems

-----------------------------------------------------------------------------
(* Pixels and swaps                                                        *)

Pixels(n) == [1 .. n -> Rgb]

(* A colour has its components.                                            *)
LEMMA RgbComponents ==
  ASSUME NEW c \in Rgb
  PROVE  /\ c = <<c[1], c[2], c[3]>>
         /\ \A com \in Component : c[com] \in 0 .. 255 /\ c[com] \in Nat /\ c[com] \in Int
BY DEF Rgb, Component

(* t has the pixels of s in another order.                                 *)
Rearranged(n, s, t) ==
  /\ {t[i] : i \in 1 .. n} = {s[i] : i \in 1 .. n}
  /\ \A c \in Rgb : Cardinality({i \in 1 .. n : t[i] = c}) = Cardinality({i \in 1 .. n : s[i] = c})

LEMMA RearrangedTwice ==
  ASSUME NEW n, NEW s, NEW t, NEW u, Rearranged(n, s, t), Rearranged(n, t, u)
  PROVE  Rearranged(n, s, u)
BY DEF Rearranged

(* A swap exchanges two pixels, leaves the others, and loses none.         *)
LEMMA SwapSound ==
  ASSUME NEW n \in Nat, NEW s \in Pixels(n), NEW a \in 0 .. n - 1, NEW b \in 0 .. n - 1
  PROVE  /\ SwapPixels(s, a, b) \in Pixels(n)
         /\ At(SwapPixels(s, a, b), a) = At(s, b)
         /\ At(SwapPixels(s, a, b), b) = At(s, a)
         /\ \A i \in 0 .. n - 1 : i # a /\ i # b => At(SwapPixels(s, a, b), i) = At(s, i)
         /\ Rearranged(n, s, SwapPixels(s, a, b))
<1> DEFINE t == SwapPixels(s, a, b)
           D == 1 .. n
           x == a + 1
           y == b + 1
           turn(i) == IF i = x THEN y ELSE IF i = y THEN x ELSE i
<1>1. x \in D /\ y \in D
  OBVIOUS
<1>2. \A i \in 0 .. n - 1 : i + 1 \in D /\ (i # a => i + 1 # x) /\ (i # b => i + 1 # y)
  OBVIOUS
<1>3. s \in [D -> Rgb] /\ t = [s EXCEPT ![x] = s[y], ![y] = s[x]]
  BY DEF SwapPixels, Pixels
<1>4. \A i \in D : turn(i) \in D /\ turn(turn(i)) = i
  <2> HIDE DEF D, x, y
  <2> QED
    BY <1>1
<1>5. t \in [D -> Rgb] /\ \A i \in D : t[i] = s[turn(i)]
  <2> HIDE DEF t, D, x, y
  <2> QED
    BY <1>1, <1>3
<1>6. \A i \in D : s[i] = t[turn(i)]
  <2> HIDE DEF t, D, x, y, turn
  <2> QED
    BY <1>4, <1>5
<1>7. {t[i] : i \in D} = {s[i] : i \in D}
  <2> HIDE DEF t, D, turn
  <2> QED
    BY <1>4, <1>5, <1>6
<1>8. ASSUME NEW c \in Rgb
      PROVE  Cardinality({i \in D : t[i] = c}) = Cardinality({i \in D : s[i] = c})
  <2> DEFINE S == {i \in D : s[i] = c}
             T == {i \in D : t[i] = c}
             f == [i \in S |-> turn(i)]
  <2>1. IsFiniteSet(S)
    <3>1. IsFiniteSet(D)
      BY FS_Interval
    <3> HIDE DEF D
    <3>2. S \subseteq D
      OBVIOUS
    <3> QED
      BY <3>1, <3>2, FS_Subset
  <2> HIDE DEF t, D, turn
  <2>2. \A i \in S : turn(i) \in T
    BY <1>4, <1>6
  <2>3. \A i \in T : turn(i) \in S
    BY <1>4, <1>5
  <2>4. \A i \in S : i \in D
    OBVIOUS
  <2>5. \A i \in T : i \in D
    OBVIOUS
  <2> HIDE DEF S, T
  <2>6. f \in [S -> T] /\ \A i \in S : f[i] = turn(i)
    BY <2>2
  <2> HIDE DEF f
  <2>7. f \in Injection(S, T)
    BY <1>4, <2>4, <2>6 DEF Injection, IsInjective
  <2>8. f \in Surjection(S, T)
    BY <1>4, <2>3, <2>5, <2>6 DEF Surjection
  <2>9. ExistsBijection(S, T)
    BY <2>7, <2>8 DEF ExistsBijection, Bijection
  <2>10. Cardinality(T) = Cardinality(S)
    BY <2>1, <2>9, FS_Bijection
  <2> QED
    BY <2>10 DEF S, T
<1>9. At(t, a) = At(s, b) /\ At(t, b) = At(s, a)
  <2> HIDE DEF t
  <2>1. t[x] = s[y] /\ t[y] = s[x]
    <3> HIDE DEF x, y, D
    <3> QED
      BY <1>1, <1>5
  <2> QED
    BY <2>1 DEF At
<1>10. \A i \in 0 .. n - 1 : i # a /\ i # b => At(t, i) = At(s, i)
  <2> HIDE DEF t, D, x, y
  <2> QED
    BY <1>2, <1>5 DEF At
<1> QED
  <2> HIDE DEF t
  <2>1. t \in Pixels(n) /\ Rearranged(n, s, t)
    BY <1>5, <1>7, <1>8 DEF Pixels, Rearranged
  <2> QED
    BY <2>1, <1>9, <1>10 DEF t

(* Every position holds a colour.                                          *)
LEMMA AtColors ==
  ASSUME NEW n \in Nat, NEW s \in Pixels(n), NEW i \in 0 .. n - 1
  PROVE  /\ At(s, i) \in Rgb
         /\ \A com \in Component : At(s, i)[com] \in 0 .. 255 /\ At(s, i)[com] \in Nat /\ At(s, i)[com] \in Int
<1>1. At(s, i) \in Rgb
  <2>1. i + 1 \in 1 .. n
    OBVIOUS
  <2> QED
    BY <2>1 DEF At, Pixels
<1> QED
  BY <1>1, RgbComponents

-----------------------------------------------------------------------------
(* The partition                                                           *)

(* t has the pixels of s, those of the stretch in another order.           *)
Within(n, s, t, left, right) ==
  /\ \A j \in 0 .. n - 1 : j < left \/ j >= right => At(t, j) = At(s, j)
  /\ \A j \in left .. right - 1 : \E k \in left .. right - 1 : At(t, j) = At(s, k)
  /\ Rearranged(n, s, t)

(* What holds when the loop of GifPartition is at i: the pixels before     *)
(* store are not above the pivot, those from store to i not below it.      *)
Scanning(n, s, left, right, com, value, acc, i) ==
  /\ acc.image \in Pixels(n) /\ acc.store \in left .. i /\ acc.split \in BOOLEAN
  /\ At(acc.image, right - 1)[com] = value
  /\ \A j \in left .. acc.store - 1 : At(acc.image, j)[com] <= value
  /\ \A j \in acc.store .. i - 1 : At(acc.image, j)[com] >= value
  /\ Within(n, s, acc.image, left, right)

(* A swap inside of a stretch keeps what is in it and what is not.         *)
LEMMA SwapInside ==
  ASSUME NEW n \in Nat, NEW s \in Pixels(n), NEW t \in Pixels(n),
         NEW left \in 0 .. n, NEW right \in 0 .. n,
         NEW a \in left .. right - 1, NEW b \in left .. right - 1,
         Within(n, s, t, left, right)
  PROVE  Within(n, s, SwapPixels(t, a, b), left, right)
<1>1. a \in 0 .. n - 1 /\ b \in 0 .. n - 1
  OBVIOUS
<1> DEFINE u == SwapPixels(t, a, b)
<1>2. /\ At(u, a) = At(t, b) /\ At(u, b) = At(t, a)
      /\ \A i \in 0 .. n - 1 : i # a /\ i # b => At(u, i) = At(t, i)
      /\ Rearranged(n, t, u)
  BY <1>1, SwapSound
<1> HIDE DEF u
<1>3. ASSUME NEW j \in 0 .. n - 1, j < left \/ j >= right
      PROVE  At(u, j) = At(s, j)
  <2>1. j # a /\ j # b
    BY <1>3
  <2> QED
    BY <1>2, <1>3, <2>1 DEF Within
<1>4. ASSUME NEW j \in left .. right - 1
      PROVE  \E k \in left .. right - 1 : At(u, j) = At(s, k)
  <2>1. j \in 0 .. n - 1
    OBVIOUS
  <2>2. \E k \in left .. right - 1 : At(u, j) = At(t, k)
    BY <1>2, <2>1
  <2> QED
    BY <2>2 DEF Within
<1>5. Rearranged(n, s, u)
  BY <1>2, RearrangedTwice DEF Within
<1> QED
  BY <1>3, <1>4, <1>5 DEF u, Within

(* A turn of the loop.                                                     *)
LEMMA ScannedSound ==
  ASSUME NEW n \in Nat, NEW s \in Pixels(n), NEW left \in 0 .. n, NEW right \in 0 .. n,
         NEW com \in Component, NEW value \in Int, NEW acc, NEW i \in left .. right - 2,
         Scanning(n, s, left, right, com, value, acc, i)
  PROVE  Scanning(n, s, left, right, com, value, Scanned(acc, i, com, value), i + 1)
<1> DEFINE t == acc.image
           m == acc.store
           v == At(t, i)[com]
           down == v < value \/ (v = value /\ acc.split)
           next == Scanned(acc, i, com, value)
           u == SwapPixels(t, i, m)
<1>1. /\ t \in Pixels(n) /\ m \in left .. i /\ m \in Int /\ acc.split \in BOOLEAN
      /\ At(t, right - 1)[com] = value
      /\ \A j \in left .. m - 1 : At(t, j)[com] <= value
      /\ \A j \in m .. i - 1 : At(t, j)[com] >= value
      /\ Within(n, s, t, left, right)
  BY DEF Scanning
<1>2. i \in 0 .. n - 1 /\ m \in 0 .. n - 1 /\ i \in left .. right - 1 /\ m \in left .. right - 1
      /\ right - 1 \in 0 .. n - 1 /\ right - 1 # i /\ right - 1 # m /\ m <= i /\ i \in Int
  BY <1>1
<1>3. v \in Int
  BY <1>1, <1>2, AtColors
<1>4. next.image = (IF down THEN u ELSE t) /\ next.store = (IF down THEN m + 1 ELSE m)
      /\ next.split \in BOOLEAN
  BY <1>1 DEF Scanned
<1>5. CASE down
  <2>1. /\ u \in Pixels(n) /\ At(u, i) = At(t, m) /\ At(u, m) = At(t, i)
        /\ \A j \in 0 .. n - 1 : j # i /\ j # m => At(u, j) = At(t, j)
    BY <1>1, <1>2, SwapSound
  <2>2. Within(n, s, u, left, right)
    BY <1>1, <1>2, SwapInside
  <2>3. v <= value
    BY <1>3, <1>5
  <2>4. next.image = u /\ next.store = m + 1
    BY <1>4, <1>5
  <2> HIDE DEF down, next, u, v
  <2>5. At(u, right - 1)[com] = value
    BY <1>1, <1>2, <2>1
  <2>6. ASSUME NEW j \in left .. m PROVE At(u, j)[com] <= value
    <3>1. CASE j = m
      BY <2>1, <2>3, <3>1 DEF v
    <3>2. CASE j # m
      <4> HIDE DEF t, m
      <4>1. j \in left .. m - 1 /\ j \in 0 .. n - 1 /\ j # i
        BY <1>2, <3>2
      <4>2. At(u, j) = At(t, j)
        BY <2>1, <3>2, <4>1
      <4> QED
        BY <1>1, <4>1, <4>2
    <3> QED
      BY <3>1, <3>2
  <2>7. ASSUME NEW j \in m + 1 .. i PROVE At(u, j)[com] >= value
    <3> HIDE DEF t, m
    <3>1. m \in m .. i - 1
      BY <1>2
    <3>2. CASE j = i
      BY <1>1, <2>1, <3>1, <3>2
    <3>3. CASE j # i
      <4>1. j \in m .. i - 1 /\ j \in 0 .. n - 1 /\ j # m
        BY <1>2, <3>3
      <4>2. At(u, j) = At(t, j)
        BY <2>1, <3>3, <4>1
      <4> QED
        BY <1>1, <4>1, <4>2
    <3> QED
      BY <3>2, <3>3
  <2> HIDE DEF t, m
  <2>8. m + 1 \in left .. i + 1 /\ (m + 1) - 1 = m /\ (i + 1) - 1 = i
    BY <1>1, <1>2
  <2>9. Scanning(n, s, left, right, com, value, next, i + 1)
    BY <1>4, <2>1, <2>2, <2>4, <2>5, <2>6, <2>7, <2>8 DEF Scanning
  <2> QED
    BY <2>9 DEF next
<1>6. CASE ~down
  <2>1. v >= value
    BY <1>1, <1>3, <1>6
  <2>2. next.image = t /\ next.store = m
    BY <1>4, <1>6
  <2> HIDE DEF down, next, u, t, m
  <2>3. ASSUME NEW j \in m .. i PROVE At(t, j)[com] >= value
    <3>1. j = i \/ j \in m .. i - 1
      BY <1>2
    <3> QED
      BY <1>1, <2>1, <3>1
  <2>4. m \in left .. i + 1 /\ (i + 1) - 1 = i
    BY <1>1, <1>2
  <2>5. Scanning(n, s, left, right, com, value, next, i + 1)
    BY <1>1, <1>4, <2>2, <2>3, <2>4 DEF Scanning
  <2> QED
    BY <2>5 DEF next
<1> QED
  BY <1>5, <1>6

(* Where it starts.                                                        *)
LEMMA ScanStarts ==
  ASSUME NEW n \in Nat, NEW s \in Pixels(n), NEW left \in 0 .. n, NEW right \in 0 .. n,
         NEW com \in Component, NEW pivot \in left .. right - 1
  PROVE  Scanning(n, s, left, right, com, At(s, pivot)[com],
                  [image |-> SwapPixels(s, pivot, right - 1), store |-> left, split |-> FALSE], left)
<1> DEFINE u == SwapPixels(s, pivot, right - 1)
<1>1. pivot \in 0 .. n - 1 /\ right - 1 \in 0 .. n - 1 /\ right - 1 \in left .. right - 1 /\ left \in left .. left
  OBVIOUS
<1>2. Within(n, s, s, left, right)
  BY DEF Within, Rearranged
<1>3. Within(n, s, u, left, right)
  BY <1>1, <1>2, SwapInside
<1>4. u \in Pixels(n) /\ At(u, right - 1) = At(s, pivot)
  BY <1>1, SwapSound
<1>5. left .. left - 1 = {}
  OBVIOUS
<1> HIDE DEF u
<1>6. Scanning(n, s, left, right, com, At(s, pivot)[com], [image |-> u, store |-> left, split |-> FALSE], left)
  BY <1>1, <1>3, <1>4, <1>5 DEF Scanning
<1> QED
  BY <1>6 DEF u

(* GifPartition: what is before the pivot is not above it, what is behind  *)
(* it is not below.                                                        *)
Parted(s, left, right, com, store) ==
  /\ \A i \in left .. store : At(s, i)[com] <= At(s, store)[com]
  /\ \A i \in store .. right - 1 : At(s, i)[com] >= At(s, store)[com]

(* Functions that make the turns of the loop keep what holds of it.        *)
LEMMA ScannedThrough ==
  ASSUME NEW n \in Nat, NEW s \in Pixels(n), NEW left \in 0 .. n, NEW right \in 0 .. n,
         NEW com \in Component, NEW value \in Int, left < right,
         NEW f, Scanning(n, s, left, right, com, value, f[0], left),
         \A k \in 1 .. right - 1 - left :
           Scanning(n, s, left, right, com, value, f[k - 1], left + k - 1)
             => f[k] = Scanned(f[k - 1], left + k - 1, com, value)
  PROVE  \A k \in 0 .. right - 1 - left : Scanning(n, s, left, right, com, value, f[k], left + k)
<1> DEFINE size == right - 1 - left
           Good == {k \in 0 .. size : Scanning(n, s, left, right, com, value, f[k], left + k)}
<1>1. size \in Nat /\ 0 \in 0 .. size /\ left + 0 = left
      /\ \A k \in 1 .. size : k \in 0 .. size /\ left + k - 1 \in left .. right - 2
                              /\ left + (k - 1) = left + k - 1 /\ (left + k - 1) + 1 = left + k
  OBVIOUS
<1>2. 0 \in Good
  BY <1>1
<1>3. ASSUME NEW k \in 1 .. size, k - 1 \in Good
      PROVE  k \in Good
  <2>1. Scanning(n, s, left, right, com, value, f[k - 1], left + k - 1)
    BY <1>1, <1>3
  <2>2. f[k] = Scanned(f[k - 1], left + k - 1, com, value)
    BY <2>1
  <2> HIDE DEF size
  <2>3. Scanning(n, s, left, right, com, value, Scanned(f[k - 1], left + k - 1, com, value), (left + k - 1) + 1)
    BY <1>1, <2>1, ScannedSound
  <2>4. Scanning(n, s, left, right, com, value, f[k], left + k)
    BY <1>1, <2>2, <2>3
  <2> QED
    BY <1>1, <2>4
<1>4. \A k \in 0 .. size : k \in Good
  <2> HIDE DEF size, Good
  <2> QED
    BY <1>1, <1>2, <1>3, LoopInduction
<1> QED
  BY <1>4

(* The function that Partition defines by recursion.                       *)
Scans(left, right, com, value, base) ==
  CHOOSE g : g = [k \in 0 .. right - 1 - left |->
                    IF k = 0 THEN base ELSE Scanned(g[k - 1], left + k - 1, com, value)]

(* The loop is defined, and holds what it should to its end.               *)
LEMMA ScanSolved ==
  ASSUME NEW n \in Nat, NEW s \in Pixels(n), NEW left \in 0 .. n, NEW right \in 0 .. n,
         NEW com \in Component, NEW value \in Int, left < right,
         NEW base, base = [image |-> base.image, store |-> base.store, split |-> base.split],
         Scanning(n, s, left, right, com, value, base, left)
  PROVE  Scanning(n, s, left, right, com, value,
                  Scans(left, right, com, value, base)[right - 1 - left], right - 1)
<1> DEFINE size == right - 1 - left
           S == {acc \in [image : Pixels(n), store : left .. right, split : BOOLEAN] :
                   \E i \in left .. right - 1 : Scanning(n, s, left, right, com, value, acc, i)}
           Valid(acc, k) == Scanning(n, s, left, right, com, value, acc, left + k - 1)
           turn == [k \in 1 .. size |-> [acc \in S |->
                      IF Valid(acc, k) THEN Scanned(acc, left + k - 1, com, value) ELSE base]]
           Turn(g, k) == IF k = 0 THEN base ELSE Scanned(g[k - 1], left + k - 1, com, value)
           f == CHOOSE g : g = [k \in 0 .. size |-> Turn(g, k)]
<1>1. size \in Nat /\ 0 \in 0 .. size /\ left \in left .. right - 1 /\ size \in 0 .. size /\ left + size = right - 1
      /\ \A k \in 1 .. size : k \in 0 .. size /\ k # 0 /\ k - 1 \in 0 .. size
                              /\ left + k - 1 \in left .. right - 2 /\ left + k \in left .. right - 1
                              /\ left + (k - 1) = left + k - 1 /\ (left + k - 1) + 1 = left + k
  OBVIOUS
<1>2. base \in S
  BY <1>1 DEF Scanning
<1>3. turn \in [1 .. size -> [S -> S]]
  <2>1. ASSUME NEW k \in 1 .. size, NEW acc \in S, Valid(acc, k)
        PROVE  Scanned(acc, left + k - 1, com, value) \in S
    <3> DEFINE next == Scanned(acc, left + k - 1, com, value)
    <3>1. Scanning(n, s, left, right, com, value, next, left + k)
      <4> HIDE DEF size, S
      <4>1. Scanning(n, s, left, right, com, value, next, (left + k - 1) + 1)
        BY <1>1, <2>1, ScannedSound
      <4> QED
        BY <1>1, <4>1
    <3>2. next = [image |-> next.image, store |-> next.store, split |-> next.split]
      BY DEF Scanned
    <3>3. left + k \in left .. right - 1
      BY <1>1
    <3> HIDE DEF next
    <3>4. next.image \in Pixels(n) /\ next.store \in left .. right /\ next.split \in BOOLEAN
      BY <3>1, <3>3 DEF Scanning
    <3>5. next \in S
      BY <3>1, <3>2, <3>3, <3>4
    <3> QED
      BY <3>5 DEF next
  <2> HIDE DEF S, size, Valid
  <2> QED
    BY <1>2, <2>1
<1>4. f = [k \in 0 .. size |-> Turn(f, k)]
  <2>0. Looped(size, S, base, turn) # {}
    <3> HIDE DEF S, size, turn
    <3> QED
      BY <1>1, <1>2, <1>3, LoopSolved, Zenon
  <2>1. PICK g \in [0 .. size -> S] : g = [k \in 0 .. size |-> IF k = 0 THEN base ELSE turn[k][g[k - 1]]]
    <3> HIDE DEF S, size, turn
    <3> QED
      BY <2>0 DEF Looped
  <2>2. g[0] = base
    <3> HIDE DEF S, size, turn
    <3> QED
      BY <1>1, <2>1
  <2>3. ASSUME NEW k \in 1 .. size, Valid(g[k - 1], k)
        PROVE  g[k] = Scanned(g[k - 1], left + k - 1, com, value)
    <3>1. g[k] = turn[k][g[k - 1]] /\ g[k - 1] \in S
      <4> HIDE DEF S, size, turn
      <4> QED
        BY <1>1, <2>1
    <3> HIDE DEF S, size, Valid
    <3> QED
      BY <2>3, <3>1
  <2>4. \A k \in 0 .. size : Scanning(n, s, left, right, com, value, g[k], left + k)
    <3> HIDE DEF S, turn
    <3> QED
      BY <2>2, <2>3, ScannedThrough
  <2>5. ASSUME NEW k \in 0 .. size PROVE g[k] = Turn(g, k)
    <3>1. CASE k = 0
      BY <2>2, <3>1
    <3>2. CASE k # 0
      <4> HIDE DEF S, turn
      <4>1. k \in 1 .. size
        BY <1>1, <3>2
      <4>2. Valid(g[k - 1], k)
        BY <1>1, <2>4, <4>1
      <4> QED
        BY <2>3, <3>2, <4>1, <4>2
    <3> QED
      BY <3>1, <3>2
  <2> HIDE DEF S, turn, size, Turn
  <2>6. g = [k \in 0 .. size |-> Turn(g, k)]
    <3>1. g = [k \in 0 .. size |-> g[k]]
      OBVIOUS
    <3> QED
      BY <2>5, <3>1
  <2> QED
    BY <2>6
<1> HIDE DEF f
<1>5. f[0] = base
  BY <1>1, <1>4
<1>6. \A k \in 1 .. size : f[k] = Scanned(f[k - 1], left + k - 1, com, value)
  BY <1>1, <1>4
<1>7. Scanning(n, s, left, right, com, value, f[size], left + size)
  BY <1>1, <1>5, <1>6, ScannedThrough
<1> HIDE DEF size
<1>8. Scanning(n, s, left, right, com, value, f[size], right - 1)
  BY <1>1, <1>7
<1> QED
  BY <1>8 DEF f, size, Scans

(* GifPartition puts the pivot where it belongs.                           *)
LEMMA PartitionSound ==
  ASSUME NEW n \in Nat, NEW s \in Pixels(n), NEW left \in 0 .. n, NEW right \in 0 .. n,
         NEW com \in Component, NEW pivot \in left .. right - 1
  PROVE  LET p == Partition(s, left, right, com, pivot)
         IN  /\ p.image \in Pixels(n) /\ p.store \in left .. right - 1
             /\ Within(n, s, p.image, left, right)
             /\ Parted(p.image, left, right, com, p.store)
<1> DEFINE value == At(s, pivot)[com]
           base == [image |-> SwapPixels(s, pivot, right - 1), store |-> left, split |-> FALSE]
           last == Scans(left, right, com, value, base)[right - 1 - left]
           t == last.image
           m == last.store
           u == SwapPixels(t, m, right - 1)
           p == Partition(s, left, right, com, pivot)
<1>1. left < right /\ pivot \in 0 .. n - 1 /\ right - 1 \in 0 .. n - 1 /\ right - 1 \in left .. right - 1
  OBVIOUS
<1>2. value \in Int
  BY <1>1, AtColors
<1>3. Scanning(n, s, left, right, com, value, last, right - 1)
  <2>1. Scanning(n, s, left, right, com, value, base, left)
    BY ScanStarts
  <2>2. base = [image |-> base.image, store |-> base.store, split |-> base.split]
    OBVIOUS
  <2> HIDE DEF value, base
  <2> QED
    BY <1>1, <1>2, <2>1, <2>2, ScanSolved
<1>4. p = [image |-> u, store |-> m]
  BY DEF Partition, Scans
<1> HIDE DEF last, value
<1>5. /\ t \in Pixels(n) /\ m \in left .. right - 1 /\ At(t, right - 1)[com] = value
      /\ \A j \in left .. m - 1 : At(t, j)[com] <= value
      /\ \A j \in m .. right - 2 : At(t, j)[com] >= value
      /\ Within(n, s, t, left, right)
  BY <1>3 DEF Scanning
<1> HIDE DEF t, m, p
<1>6. m \in 0 .. n - 1 /\ m \in Int
  BY <1>5
<1>7. Within(n, s, u, left, right)
  BY <1>1, <1>5, SwapInside
<1>8. /\ u \in Pixels(n) /\ At(u, m) = At(t, right - 1) /\ At(u, right - 1) = At(t, m)
      /\ \A j \in 0 .. n - 1 : j # m /\ j # right - 1 => At(u, j) = At(t, j)
  BY <1>1, <1>5, <1>6, SwapSound
<1> HIDE DEF u
<1>9. At(u, m)[com] = value
  BY <1>5, <1>8
<1>10. ASSUME NEW j \in left .. m PROVE At(u, j)[com] <= value
  <2>1. CASE j = m
    BY <1>2, <1>9, <2>1
  <2>2. CASE j # m
    <3>1. j \in left .. m - 1 /\ j \in 0 .. n - 1 /\ j # right - 1
      BY <1>1, <1>5, <2>2
    <3>2. At(u, j) = At(t, j)
      BY <1>8, <2>2, <3>1
    <3> QED
      BY <1>5, <3>1, <3>2
  <2> QED
    BY <2>1, <2>2
<1>11. ASSUME NEW j \in m .. right - 1 PROVE At(u, j)[com] >= value
  <2>1. CASE j = m
    BY <1>2, <1>9, <2>1
  <2>2. CASE j # m /\ j = right - 1
    <3>1. m \in m .. right - 2
      BY <1>5, <2>2
    <3> QED
      BY <1>5, <1>8, <2>2, <3>1
  <2>3. CASE j # m /\ j # right - 1
    <3>1. j \in m .. right - 2 /\ j \in 0 .. n - 1
      BY <1>1, <1>5, <2>3
    <3>2. At(u, j) = At(t, j)
      BY <1>8, <2>3, <3>1
    <3> QED
      BY <1>5, <3>1, <3>2
  <2> QED
    BY <2>1, <2>2, <2>3
<1>12. Parted(u, left, right, com, m)
  BY <1>9, <1>10, <1>11 DEF Parted
<1> QED
  BY <1>4, <1>5, <1>7, <1>8, <1>12 DEF p

-----------------------------------------------------------------------------
(* The sort by the median                                                  *)

(* Nothing before m is above what is behind it.                            *)
CutAt(n, s, com, m) ==
  \A i, j \in 0 .. n - 1 : i < m /\ j >= m => At(s, i)[com] <= At(s, j)[com]

(* The stretch has the center in it, and is cut out of the image.          *)
Bounded(n, c, com, center) ==
  /\ center \in c.left .. c.right - 1
  /\ CutAt(n, c.image, com, c.left)
  /\ CutAt(n, c.image, com, c.right)

Median(n, s, com, center) ==
  /\ \A i \in 0 .. center : At(s, i)[com] <= At(s, center)[com]
  /\ \A i \in center .. n - 1 : At(s, i)[com] >= At(s, center)[com]

(* A stretch that is the center alone.                                     *)
LEMMA BoundedMedian ==
  ASSUME NEW n \in Nat, NEW com \in Component, NEW center \in 0 .. n - 1, NEW s \in Pixels(n),
         CutAt(n, s, com, center), CutAt(n, s, com, center + 1)
  PROVE  Median(n, s, com, center)
<1>1. At(s, center)[com] \in Int
  BY AtColors
<1>2. ASSUME NEW i \in 0 .. center PROVE At(s, i)[com] <= At(s, center)[com]
  <2>1. i = center \/ (i < center /\ center >= center /\ i \in 0 .. n - 1)
    OBVIOUS
  <2> QED
    BY <1>1, <2>1 DEF CutAt
<1>3. ASSUME NEW i \in center .. n - 1 PROVE At(s, i)[com] >= At(s, center)[com]
  <2>1. i = center \/ (center < center + 1 /\ i >= center + 1 /\ i \in 0 .. n - 1)
    OBVIOUS
  <2>2. CASE center < center + 1 /\ i >= center + 1 /\ i \in 0 .. n - 1
    <3>1. At(s, i)[com] \in Int
      BY <2>2, AtColors
    <3>2. At(s, center)[com] <= At(s, i)[com]
      BY <2>2 DEF CutAt
    <3> QED
      BY <1>1, <3>1, <3>2
  <2> QED
    BY <1>1, <2>1, <2>2
<1> QED
  BY <1>2, <1>3 DEF Median

(* Another order within a stretch leaves the cuts around it.               *)
LEMMA CutKept ==
  ASSUME NEW n \in Nat, NEW s, NEW t, NEW left \in 0 .. n, NEW right \in 0 .. n, left < right,
         NEW com, NEW m \in {left, right}, Within(n, s, t, left, right), CutAt(n, s, com, m)
  PROVE  CutAt(n, t, com, m)
<1>1. \A i \in 0 .. n - 1 : \E k \in 0 .. n - 1 : At(t, i) = At(s, k) /\ (k < m <=> i < m)
  <2>1. SUFFICES ASSUME NEW i \in 0 .. n - 1
                 PROVE  \E k \in 0 .. n - 1 : At(t, i) = At(s, k) /\ (k < m <=> i < m)
    OBVIOUS
  <2>2. CASE i < left \/ i >= right
    BY <2>2 DEF Within
  <2>3. CASE ~(i < left \/ i >= right)
    <3>1. i \in left .. right - 1
      BY <2>3
    <3>2. PICK k \in left .. right - 1 : At(t, i) = At(s, k)
      BY <3>1 DEF Within
    <3>3. k \in 0 .. n - 1 /\ (k < m <=> i < m)
      BY <3>1
    <3> QED
      BY <3>2, <3>3
  <2> QED
    BY <2>2, <2>3
<1>2. ASSUME NEW i \in 0 .. n - 1, NEW j \in 0 .. n - 1, i < m, j >= m
      PROVE  At(t, i)[com] <= At(t, j)[com]
  <2>1. PICK k \in 0 .. n - 1 : At(t, i) = At(s, k) /\ k < m
    BY <1>1, <1>2
  <2>2. PICK l \in 0 .. n - 1 : At(t, j) = At(s, l) /\ ~(l < m)
    <3>1. ~(j < m)
      BY <1>2
    <3> QED
      BY <1>1, <3>1
  <2>3. l >= m
    BY <2>2
  <2> QED
    BY <2>1, <2>2, <2>3 DEF CutAt
<1> QED
  BY <1>2 DEF CutAt

(* The place of the pivot cuts the image, before it and behind it.         *)
LEMMA PartedCut ==
  ASSUME NEW n \in Nat, NEW t \in Pixels(n), NEW left \in 0 .. n, NEW right \in 0 .. n,
         NEW com \in Component, NEW m \in left .. right - 1, Parted(t, left, right, com, m),
         CutAt(n, t, com, left), CutAt(n, t, com, right)
  PROVE  CutAt(n, t, com, m) /\ CutAt(n, t, com, m + 1)
<1> DEFINE v(i) == At(t, i)[com]
<1>1. m \in 0 .. n - 1 /\ m \in Int /\ left < right
  OBVIOUS
<1>2. \A i \in 0 .. n - 1 : v(i) \in Int
  BY AtColors
<1>3. \A i \in left .. m : v(i) <= v(m)
  BY DEF Parted
<1>4. \A i \in m .. right - 1 : v(i) >= v(m)
  BY DEF Parted
<1>5. \A i, j \in 0 .. n - 1 : (i < left /\ j >= left) \/ (i < right /\ j >= right) => v(i) <= v(j)
  BY DEF CutAt
<1> HIDE DEF v
<1>6. ASSUME NEW i \in 0 .. n - 1, NEW j \in 0 .. n - 1, i <= m, j >= m
      PROVE  v(i) <= v(j)
  <2>1. CASE i < left
    <3>1. j >= left
      BY <1>6
    <3> QED
      BY <1>5, <2>1, <3>1
  <2>2. CASE j >= right
    <3>1. i < right
      BY <1>6
    <3> QED
      BY <1>5, <2>2, <3>1
  <2>3. CASE i >= left /\ j < right
    <3>1. i \in left .. m /\ j \in m .. right - 1
      BY <1>6, <2>3
    <3>2. v(i) <= v(m) /\ v(m) <= v(j)
      BY <1>3, <1>4, <3>1
    <3> QED
      BY <1>1, <1>2, <3>2
  <2> QED
    BY <2>1, <2>2, <2>3
<1>7. \A i, j \in 0 .. n - 1 : i < m /\ j >= m => i <= m /\ j >= m
  OBVIOUS
<1>8. \A i, j \in 0 .. n - 1 : i < m + 1 /\ j >= m + 1 => i <= m /\ j >= m
  OBVIOUS
<1>9. \A i, j \in 0 .. n - 1 : i < m /\ j >= m => v(i) <= v(j)
  BY <1>6, <1>7
<1>10. \A i, j \in 0 .. n - 1 : i < m + 1 /\ j >= m + 1 => v(i) <= v(j)
  BY <1>6, <1>8
<1> QED
  BY <1>9, <1>10 DEF CutAt, v

(* The two ways the sort can go on, and how long a stretch is.             *)
Lower(c, p) == [image |-> p.image, left |-> c.left, right |-> p.store]
Upper(c, p) == [image |-> p.image, left |-> p.store + 1, right |-> c.right]
Length(c)   == IF c.right > c.left THEN c.right - c.left ELSE 0

Pivoted(c, com) == Partition(c.image, c.left, c.right, com, c.left + (c.right - c.left) \div 2)

(* The body of the recursion, of a function g.                             *)
SortTurn(g, c, com, center) ==
  IF c.left >= c.right - 1 THEN c.image
  ELSE IF CenterBelow(Pivoted(c, com).store, center) THEN g[Lower(c, Pivoted(c, com))]
  ELSE IF CenterAbove(Pivoted(c, com).store, center) THEN g[Upper(c, Pivoted(c, com))]
  ELSE Pivoted(c, com).image

Sorts(n, com, center) == CHOOSE g : g = [c \in Stretches(n) |-> SortTurn(g, c, com, center)]

(* What a turn goes on with is a stretch, and shorter.                     *)
LEMMA PivotedSound ==
  ASSUME NEW n \in Nat, NEW com \in Component, NEW c \in Stretches(n), ~(c.left >= c.right - 1)
  PROVE  LET p == Pivoted(c, com)
         IN  /\ p.image \in Pixels(n) /\ p.store \in c.left .. c.right - 1
             /\ Within(n, c.image, p.image, c.left, c.right)
             /\ Parted(p.image, c.left, c.right, com, p.store)
             /\ Lower(c, p) \in Stretches(n) /\ Length(Lower(c, p)) < Length(c)
             /\ Upper(c, p) \in Stretches(n) /\ Length(Upper(c, p)) < Length(c)
<1> DEFINE p == Pivoted(c, com)
           l == c.left
           r == c.right
           half == (r - l) \div 2
           m == p.store
<1>1. c.image \in Pixels(n) /\ l \in 0 .. n /\ r \in 0 .. n
  BY DEF Stretches, Pixels
<1>2. ~(l >= r - 1)
  OBVIOUS
<1> HIDE DEF l, r
<1>3. half \in Nat /\ half < r - l
  BY <1>1, <1>2
<1> HIDE DEF half
<1>4. l + half \in l .. r - 1
  BY <1>1, <1>3
<1>5. p = Partition(c.image, l, r, com, l + half)
  BY DEF Pivoted, l, r, half
<1>6. p.image \in Pixels(n) /\ m \in l .. r - 1 /\ Within(n, c.image, p.image, l, r) /\ Parted(p.image, l, r, com, m)
  BY <1>1, <1>4, <1>5, PartitionSound
<1> HIDE DEF p, m
<1>7. m \in 0 .. n /\ m + 1 \in 0 .. n /\ m - l < r - l /\ r - (m + 1) < r - l /\ 0 < r - l
  BY <1>1, <1>6
<1>8. Lower(c, p) \in Stretches(n) /\ Length(Lower(c, p)) < Length(c)
  <2>1. Lower(c, p) = [image |-> p.image, left |-> l, right |-> m]
    BY DEF Lower, l, m
  <2>2. Length(Lower(c, p)) = IF m > l THEN m - l ELSE 0
    BY <2>1 DEF Length
  <2>3. Length(c) = r - l
    BY <1>1, <1>7 DEF Length, l, r
  <2> QED
    BY <1>1, <1>6, <1>7, <2>1, <2>2, <2>3 DEF Stretches, Pixels
<1>9. Upper(c, p) \in Stretches(n) /\ Length(Upper(c, p)) < Length(c)
  <2>1. Upper(c, p) = [image |-> p.image, left |-> m + 1, right |-> r]
    BY DEF Upper, r, m
  <2>2. Length(Upper(c, p)) = IF r > m + 1 THEN r - (m + 1) ELSE 0
    BY <2>1 DEF Length
  <2>3. Length(c) = r - l
    BY <1>1, <1>7 DEF Length, l, r
  <2> QED
    BY <1>1, <1>6, <1>7, <2>1, <2>2, <2>3 DEF Stretches, Pixels
<1> QED
  BY <1>6, <1>8, <1>9 DEF p, m, l, r

(* The recursion has a solution.                                           *)
LEMMA SortSolved ==
  ASSUME NEW n \in Nat, NEW com \in Component, NEW center \in Int
  PROVE  Sorts(n, com, center) = [c \in Stretches(n) |-> SortTurn(Sorts(n, com, center), c, com, center)]
<1> DEFINE D == Stretches(n)
           S == Pixels(n)
           rank == [c \in D |-> Length(c)]
           step == [c \in D |-> [g \in [D -> S] |-> SortTurn(g, c, com, center)]]
           base == [i \in 1 .. n |-> <<0, 0, 0>>]
<1>1. base \in S
  BY DEF Pixels, Rgb
<1>2. rank \in [D -> 0 .. n]
  <2>1. ASSUME NEW c \in D PROVE Length(c) \in 0 .. n
    <3>1. c.left \in 0 .. n /\ c.right \in 0 .. n
      BY DEF Stretches
    <3> QED
      BY <3>1 DEF Length
  <2> QED
    BY <2>1
<1>3. \A c \in D : c.image \in S
  BY DEF Stretches, Pixels
<1> HIDE DEF S
<1>4. step \in [D -> [[D -> S] -> S]]
  <2>1. ASSUME NEW c \in D, NEW g \in [D -> S] PROVE SortTurn(g, c, com, center) \in S
    <3>1. CASE c.left >= c.right - 1
      BY <1>3, <3>1 DEF SortTurn
    <3>2. CASE ~(c.left >= c.right - 1)
      <4>1. Lower(c, Pivoted(c, com)) \in D /\ Upper(c, Pivoted(c, com)) \in D /\ Pivoted(c, com).image \in S
        BY <3>2, PivotedSound DEF S
      <4> HIDE DEF D
      <4> QED
        BY <3>2, <4>1 DEF SortTurn
    <3> QED
      BY <3>1, <3>2
  <2> HIDE DEF D
  <2> QED
    BY <2>1
<1>5. ASSUME NEW c \in D, NEW g \in [D -> S], NEW h \in [D -> S],
             \A x \in D : rank[x] < rank[c] => g[x] = h[x]
      PROVE  step[c][g] = step[c][h]
  <2>1. step[c][g] = SortTurn(g, c, com, center) /\ step[c][h] = SortTurn(h, c, com, center)
    OBVIOUS
  <2>2. SortTurn(g, c, com, center) = SortTurn(h, c, com, center)
    <3>1. CASE c.left >= c.right - 1
      BY <3>1 DEF SortTurn
    <3>2. CASE ~(c.left >= c.right - 1)
      <4> DEFINE lower == Lower(c, Pivoted(c, com))
                 upper == Upper(c, Pivoted(c, com))
      <4>1. lower \in D /\ upper \in D /\ Length(lower) < Length(c) /\ Length(upper) < Length(c)
        BY <3>2, PivotedSound
      <4> HIDE DEF lower, upper
      <4>2. rank[lower] < rank[c] /\ rank[upper] < rank[c]
        BY <4>1
      <4> HIDE DEF D, rank, step
      <4>3. g[lower] = h[lower] /\ g[upper] = h[upper]
        BY <1>5, <4>1, <4>2
      <4> QED
        BY <3>2, <4>3 DEF SortTurn, lower, upper
    <3> QED
      BY <3>1, <3>2
  <2> HIDE DEF D, step
  <2> QED
    BY <2>1, <2>2
<1>6. Solution(D, S, step) # {}
  <2>1. Descends(D, S, rank, step)
    BY <1>5 DEF Descends
  <2> HIDE DEF D, rank, step, base
  <2> QED
    BY <1>1, <1>2, <1>4, <2>1, RecursionSolved, Zenon
<1>7. PICK g \in [D -> S] : \A c \in D : g[c] = step[c][g]
  BY <1>6 DEF Solution
<1>8. g = [c \in D |-> SortTurn(g, c, com, center)]
  <2>1. \A c \in D : g[c] = SortTurn(g, c, com, center)
    BY <1>7
  <2> HIDE DEF step, D
  <2>2. g = [c \in D |-> g[c]]
    BY <1>7
  <2> QED
    BY <2>1, <2>2
<1> QED
  BY <1>8 DEF Sorts

(* Sorted on from a stretch with the center in it, the center has the      *)
(* pixel of its rank.                                                      *)
LEMMA SortSound ==
  ASSUME NEW n \in Nat, NEW com \in Component, NEW center \in 0 .. n - 1
  PROVE  \A c \in Stretches(n) : Bounded(n, c, com, center) =>
           /\ Sorts(n, com, center)[c] \in Pixels(n)
           /\ Median(n, Sorts(n, com, center)[c], com, center)
           /\ Rearranged(n, c.image, Sorts(n, com, center)[c])
<1> DEFINE D == Stretches(n)
           f == Sorts(n, com, center)
           rank == [c \in D |-> Length(c)]
           Sorted(c) == f[c] \in Pixels(n) /\ Median(n, f[c], com, center) /\ Rearranged(n, c.image, f[c])
           Good == {c \in D : Bounded(n, c, com, center) => Sorted(c)}
<1>1. \A c \in D : f[c] = SortTurn(f, c, com, center)
  <2>1. f = [c \in D |-> SortTurn(f, c, com, center)]
    BY SortSolved
  <2> HIDE DEF f, D
  <2> QED
    BY <2>1
<1>2. rank \in [D -> Nat]
  <2>1. ASSUME NEW c \in D PROVE Length(c) \in Nat
    <3>1. c.left \in 0 .. n /\ c.right \in 0 .. n
      BY DEF Stretches
    <3> QED
      BY <3>1 DEF Length
  <2> QED
    BY <2>1
<1> HIDE DEF f
<1>3. ASSUME NEW c \in D, \A x \in D : rank[x] < rank[c] => x \in Good, Bounded(n, c, com, center)
      PROVE  Sorted(c)
  <2>1. c.image \in Pixels(n) /\ c.left \in 0 .. n /\ c.right \in 0 .. n
    BY DEF Stretches, Pixels
  <2>2. /\ center \in c.left .. c.right - 1
        /\ CutAt(n, c.image, com, c.left) /\ CutAt(n, c.image, com, c.right)
    BY <1>3 DEF Bounded
  <2>3. CASE c.left >= c.right - 1
    <3>1. c.left = center /\ c.right = center + 1
      BY <2>1, <2>2, <2>3
    <3>2. f[c] = c.image
      BY <1>1, <2>3 DEF SortTurn
    <3>3. Median(n, c.image, com, center)
      BY <2>1, <2>2, <3>1, BoundedMedian
    <3>4. Rearranged(n, c.image, c.image)
      BY DEF Rearranged
    <3> QED
      BY <2>1, <3>2, <3>3, <3>4
  <2>4. CASE ~(c.left >= c.right - 1)
    <3> DEFINE p == Pivoted(c, com)
               t == p.image
               m == p.store
               lower == Lower(c, p)
               upper == Upper(c, p)
    <3>1. /\ t \in Pixels(n) /\ m \in c.left .. c.right - 1
          /\ Within(n, c.image, t, c.left, c.right) /\ Parted(t, c.left, c.right, com, m)
          /\ lower \in D /\ Length(lower) < Length(c) /\ upper \in D /\ Length(upper) < Length(c)
      BY <2>4, PivotedSound
    <3>2. rank[lower] < rank[c] /\ rank[upper] < rank[c]
      BY <3>1
    <3>3. lower = [image |-> t, left |-> c.left, right |-> m]
          /\ upper = [image |-> t, left |-> m + 1, right |-> c.right]
      BY DEF Lower, Upper
    <3>4. f[c] = IF m > center THEN f[lower] ELSE IF m < center THEN f[upper] ELSE t
      BY <1>1, <2>4 DEF SortTurn, CenterBelow, CenterAbove
    <3> HIDE DEF lower, upper, p, t, m, D, rank
    <3>5. c.left < c.right /\ m \in Int /\ center \in Int
      BY <2>1, <2>2, <3>1
    <3>6. CutAt(n, t, com, c.left) /\ CutAt(n, t, com, c.right)
      BY <2>1, <2>2, <3>1, <3>5, CutKept
    <3>7. CutAt(n, t, com, m) /\ CutAt(n, t, com, m + 1)
      BY <2>1, <3>1, <3>6, PartedCut
    <3>8. Rearranged(n, c.image, t)
      BY <3>1 DEF Within
    <3>9. CASE m > center
      <4>1. center \in c.left .. m - 1
        BY <2>1, <2>2, <3>5, <3>9
      <4>2. Bounded(n, lower, com, center)
        BY <3>3, <3>6, <3>7, <4>1 DEF Bounded
      <4>3. Sorted(lower)
        BY <1>3, <3>1, <3>2, <4>2
      <4>4. f[c] = f[lower]
        BY <3>4, <3>9
      <4>5. Rearranged(n, t, f[lower])
        BY <3>3, <4>3
      <4> QED
        BY <3>8, <4>3, <4>4, <4>5, RearrangedTwice
    <3>10. CASE m < center
      <4>1. center \in m + 1 .. c.right - 1 /\ ~(m > center)
        BY <2>1, <2>2, <3>5, <3>10
      <4>2. Bounded(n, upper, com, center)
        BY <3>3, <3>6, <3>7, <4>1 DEF Bounded
      <4>3. Sorted(upper)
        BY <1>3, <3>1, <3>2, <4>2
      <4>4. f[c] = f[upper]
        BY <3>4, <3>10, <4>1
      <4>5. Rearranged(n, t, f[upper])
        BY <3>3, <4>3
      <4> QED
        BY <3>8, <4>3, <4>4, <4>5, RearrangedTwice
    <3>11. CASE m = center
      <4>1. f[c] = t
        BY <3>4, <3>5, <3>11
      <4>2. Median(n, t, com, center)
        BY <3>1, <3>7, <3>11, BoundedMedian
      <4> QED
        BY <3>1, <3>8, <4>1, <4>2
    <3> QED
      BY <3>5, <3>9, <3>10, <3>11
  <2> QED
    BY <2>3, <2>4
<1>4. \A c \in D : c \in Good
  <2>1. \A c \in D : (\A x \in D : rank[x] < rank[c] => x \in Good) => c \in Good
    <3> HIDE DEF D, rank, Sorted
    <3> QED
      BY <1>3
  <2> HIDE DEF D, rank, Good
  <2> QED
    BY <1>2, <2>1, RankInduction
<1> QED
  BY <1>4 DEF f

(* GifPartitionByMedian.                                                   *)
LEMMA MedianSound ==
  ASSUME NEW s \in Seq(Rgb), NEW com \in Component, NEW center \in 0 .. Len(s) - 1
  PROVE  /\ PartitionByMedian(s, com, center) \in Pixels(Len(s))
         /\ Median(Len(s), PartitionByMedian(s, com, center), com, center)
         /\ Rearranged(Len(s), s, PartitionByMedian(s, com, center))
<1> DEFINE n == Len(s)
           c == [image |-> s, left |-> 0, right |-> n]
<1>1. n \in Nat /\ s \in [1 .. n -> Rgb]
  OBVIOUS
<1>2. PartitionByMedian(s, com, center) = Sorts(n, com, center)[c]
  BY DEF PartitionByMedian, Sorts, SortTurn, Pivoted, Lower, Upper
<1> HIDE DEF n
<1>3. c \in Stretches(n)
  BY <1>1 DEF Stretches
<1>4. CutAt(n, s, com, 0) /\ CutAt(n, s, com, n) /\ center \in 0 .. n - 1
  <2>1. \A i \in 0 .. n - 1 : ~(i < 0) /\ ~(i >= n)
    BY <1>1
  <2> QED
    BY <2>1 DEF CutAt, n
<1>5. Bounded(n, c, com, center)
  BY <1>4 DEF Bounded
<1>6. /\ Sorts(n, com, center)[c] \in Pixels(n)
      /\ Median(n, Sorts(n, com, center)[c], com, center)
      /\ Rearranged(n, c.image, Sorts(n, com, center)[c])
  <2> HIDE DEF c
  <2> QED
    BY <1>1, <1>3, <1>4, <1>5, SortSound
<1> QED
  BY <1>2, <1>6 DEF n

-----------------------------------------------------------------------------
(* The average                                                             *)

ColorsOf(s) == {s[i] : i \in 1 .. Len(s)}

(* In each component the colour is among the colours of the set.           *)
Between(c, P) ==
  \A com \in Component : \E a, b \in P : a[com] <= c[com] /\ c[com] <= b[com]

Totals(s, com) ==
  CHOOSE f : f = [k \in 0 .. Len(s) |-> IF k = 0 THEN 0 ELSE f[k - 1] + s[k][com]]

LEMMA ProductOrder ==
  ASSUME NEW n \in Nat, NEW a \in Int, NEW b \in Int, a <= b
  PROVE  n * a <= n * b
OBVIOUS

(* A sum of numbers between two is between their multiples.                *)
LEMMA TotalBetween ==
  ASSUME NEW s \in Seq(Rgb), NEW com \in Component, NEW low \in Nat, NEW high \in Nat,
         \A i \in 1 .. Len(s) : low <= s[i][com] /\ s[i][com] <= high
  PROVE  Total(s, com) \in Nat /\ Len(s) * low <= Total(s, com) /\ Total(s, com) <= Len(s) * high
<1> DEFINE n == Len(s)
           turn == [k \in 1 .. n |-> [x \in Nat |-> x + s[k][com]]]
           f == Totals(s, com)
           Good == {k \in 0 .. n : f[k] \in Nat /\ k * low <= f[k] /\ f[k] <= k * high}
<1>1. n \in Nat /\ \A k \in 1 .. n : s[k][com] \in Nat /\ low <= s[k][com] /\ s[k][com] <= high
  <2>1. \A k \in 1 .. n : s[k] \in Rgb
    OBVIOUS
  <2>2. \A k \in 1 .. n : s[k][com] \in Nat
    BY <2>1, RgbComponents
  <2> QED
    BY <2>2
<1>2. turn \in [1 .. n -> [Nat -> Nat]]
  <2>1. \A k \in 1 .. n : \A x \in Nat : x + s[k][com] \in Nat
    BY <1>1
  <2> HIDE DEF n
  <2> QED
    BY <2>1
<1>3. f = [k \in 0 .. n |-> IF k = 0 THEN 0 ELSE f[k - 1] + s[k][com]]
  <2>0. Looped(n, Nat, 0, turn) # {}
    <3> HIDE DEF n, turn
    <3>1. 0 \in Nat
      OBVIOUS
    <3> QED
      BY <1>1, <1>2, <3>1, LoopSolved, Zenon
  <2> HIDE DEF n
  <2>1. PICK g \in [0 .. n -> Nat] : g = [k \in 0 .. n |-> IF k = 0 THEN 0 ELSE turn[k][g[k - 1]]]
    BY <2>0 DEF Looped
  <2>2. ASSUME NEW k \in 0 .. n, k # 0
        PROVE  turn[k][g[k - 1]] = g[k - 1] + s[k][com]
    <3>1. k \in 1 .. n /\ k - 1 \in 0 .. n
      BY <1>1, <2>2
    <3> QED
      BY <3>1
  <2>3. g = [k \in 0 .. n |-> IF k = 0 THEN 0 ELSE g[k - 1] + s[k][com]]
    BY <2>1, <2>2
  <2> QED
    BY <2>3 DEF Totals, n
<1>4. Total(s, com) = f[n]
  BY DEF Total, Totals
<1> HIDE DEF n, f
<1>5. 0 \in Good
  BY <1>1, <1>3
<1>6. ASSUME NEW k \in 1 .. n, k - 1 \in Good
      PROVE  k \in Good
  <2>1. k \in 0 .. n /\ k # 0 /\ k - 1 \in Nat /\ k \in Nat
    BY <1>1
  <2>2. f[k] = f[k - 1] + s[k][com]
    BY <1>3, <2>1
  <2>3. f[k - 1] \in Nat /\ (k - 1) * low <= f[k - 1] /\ f[k - 1] <= (k - 1) * high
    BY <1>6
  <2>4. (k - 1) * low = k * low - low /\ (k - 1) * high = k * high - high
    BY <2>1
  <2>5. k * low \in Int /\ k * high \in Int
    BY <2>1
  <2>6. s[k][com] \in Nat /\ low <= s[k][com] /\ s[k][com] <= high
    BY <1>1
  <2>7. f[k] \in Nat /\ k * low <= f[k] /\ f[k] <= k * high
    BY <2>2, <2>3, <2>4, <2>5, <2>6
  <2> QED
    BY <2>1, <2>7
<1>7. \A k \in 0 .. n : k \in Good
  <2> HIDE DEF Good
  <2> QED
    BY <1>1, <1>5, <1>6, LoopInduction
<1>8. n \in 0 .. n
  BY <1>1
<1>9. f[n] \in Nat /\ n * low <= f[n] /\ f[n] <= n * high
  BY <1>7, <1>8
<1> QED
  BY <1>4, <1>9 DEF n

(* So is their mean, rounded to the nearest.                               *)
LEMMA MeanBetween ==
  ASSUME NEW n \in Nat \ {0}, NEW t \in Nat, NEW low \in Nat, NEW high \in Nat,
         n * low <= t, t <= n * high
  PROVE  (t + n \div 2) \div n \in low .. high
<1> DEFINE a == t + n \div 2
           q == a \div n
<1>1. n \div 2 \in Nat /\ n \div 2 < n /\ n \in Int /\ 0 < n
  OBVIOUS
<1>2. a \in Nat /\ n * low <= a
  <2>1. n * low \in Nat
    OBVIOUS
  <2> QED
    BY <1>1, <2>1
<1>3. a < n * high + n
  <2>1. n * high \in Nat
    OBVIOUS
  <2> QED
    BY <1>1, <2>1
<1> HIDE DEF a
<1>4. q \in Int /\ n * q <= a /\ a < n * q + n
  BY <1>1, <1>2
<1> HIDE DEF q
<1>5. low <= q
  <2>1. CASE q <= low - 1
    <3>1. n * q <= n * (low - 1)
      BY <1>1, <1>4, <2>1, ProductOrder
    <3>2. n * (low - 1) = n * low - n /\ n * low \in Int /\ n * q \in Int
      BY <1>1, <1>4
    <3> QED
      BY <1>1, <1>2, <1>4, <3>1, <3>2
  <2> QED
    BY <1>4, <2>1
<1>6. q <= high
  <2>1. CASE high + 1 <= q
    <3>1. n * (high + 1) <= n * q
      BY <1>1, <1>4, <2>1, ProductOrder
    <3>2. n * (high + 1) = n * high + n /\ n * high \in Int /\ n * q \in Int
      BY <1>1, <1>4
    <3> QED
      BY <1>1, <1>2, <1>3, <1>4, <3>1, <3>2
  <2> QED
    BY <1>4, <2>1
<1> QED
  BY <1>4, <1>5, <1>6 DEF q, a

(* Of pixels there is a smallest and a largest value.                      *)
LEMMA ExtremesExist ==
  ASSUME NEW s \in Seq(Rgb), s # <<>>, NEW com \in Component
  PROVE  \E a, b \in ColorsOf(s) : \A i \in 1 .. Len(s) : a[com] <= s[i][com] /\ s[i][com] <= b[com]
<1> DEFINE n == Len(s)
           Values == {s[i][com] : i \in 1 .. n}
           Rests == {255 - s[i][com] : i \in 1 .. n}
<1>1. n \in Nat /\ 1 \in 1 .. n
  OBVIOUS
<1>2. \A k \in 1 .. n : s[k][com] \in 0 .. 255 /\ s[k][com] \in Nat /\ s[k][com] \in Int
  <2>1. \A k \in 1 .. n : s[k] \in Rgb
    OBVIOUS
  <2> QED
    BY <2>1, RgbComponents
<1> HIDE DEF n
<1>3. PICK x \in 1 .. n : \A i \in 1 .. n : s[x][com] <= s[i][com]
  <2>1. Values \subseteq Nat
    BY <1>2
  <2>2. s[1][com] \in Values
    BY <1>1
  <2>3. PICK m \in Values : \A v \in Values : m <= v
    <3> HIDE DEF Values
    <3> QED
      BY <2>1, <2>2, SmallestExists
  <2> QED
    BY <2>3
<1>4. PICK y \in 1 .. n : \A i \in 1 .. n : 255 - s[y][com] <= 255 - s[i][com]
  <2>0. \A v \in 0 .. 255 : 255 - v \in Nat
    OBVIOUS
  <2>1. Rests \subseteq Nat
    BY <1>2, <2>0
  <2>2. 255 - s[1][com] \in Rests
    BY <1>1
  <2>3. PICK m \in Rests : \A v \in Rests : m <= v
    <3> HIDE DEF Rests
    <3> QED
      BY <2>1, <2>2, SmallestExists
  <2>4. PICK y \in 1 .. n : m = 255 - s[y][com]
    BY <2>3
  <2>5. \A i \in 1 .. n : 255 - s[i][com] \in Rests
    OBVIOUS
  <2> HIDE DEF Rests
  <2> QED
    BY <2>3, <2>4, <2>5
<1>5. \A i \in 1 .. n : s[i][com] <= s[y][com]
  BY <1>2, <1>4
<1>6. s[x] \in ColorsOf(s) /\ s[y] \in ColorsOf(s)
  BY DEF ColorsOf, n
<1> QED
  BY <1>3, <1>5, <1>6 DEF n

(* The average is a colour, among those averaged.                          *)
LEMMA AverageSound ==
  ASSUME NEW s \in Seq(Rgb), s # <<>>
  PROVE  Average(s) \in Rgb /\ Between(Average(s), ColorsOf(s))
<1> DEFINE n == Len(s)
           mean(com) == (Total(s, com) + n \div 2) \div n
<1>1. n \in Nat \ {0}
  OBVIOUS
<1>2. ASSUME NEW com \in Component
      PROVE  /\ mean(com) \in 0 .. 255
             /\ \E a, b \in ColorsOf(s) : a[com] <= mean(com) /\ mean(com) <= b[com]
  <2>1. PICK a \in ColorsOf(s), b \in ColorsOf(s) :
          \A i \in 1 .. n : a[com] <= s[i][com] /\ s[i][com] <= b[com]
    BY ExtremesExist
  <2>2. a[com] \in 0 .. 255 /\ b[com] \in 0 .. 255 /\ a[com] \in Nat /\ b[com] \in Nat
    <3>1. a \in Rgb /\ b \in Rgb
      BY DEF ColorsOf
    <3> QED
      BY <3>1, RgbComponents
  <2>3. a[com] \in Nat /\ b[com] \in Nat
    BY <2>2
  <2>4. Total(s, com) \in Nat /\ n * a[com] <= Total(s, com) /\ Total(s, com) <= n * b[com]
    BY <2>1, <2>3, TotalBetween
  <2> HIDE DEF n
  <2>5. mean(com) \in a[com] .. b[com]
    BY <1>1, <2>3, <2>4, MeanBetween
  <2> HIDE DEF mean
  <2>6. \A x, y \in 0 .. 255 : \A z \in x .. y : z \in 0 .. 255 /\ x <= z /\ z <= y
    OBVIOUS
  <2>7. mean(com) \in 0 .. 255 /\ a[com] <= mean(com) /\ mean(com) <= b[com]
    BY <2>2, <2>5, <2>6
  <2> QED
    BY <2>7
<1>3. Average(s) = <<mean(1), mean(2), mean(3)>>
  BY DEF Average
<1> HIDE DEF mean
<1>4. 1 \in Component /\ 2 \in Component /\ 3 \in Component /\ \A com \in Component : com = 1 \/ com = 2 \/ com = 3
  BY DEF Component
<1>5. Average(s) \in Rgb
  <2>1. mean(1) \in 0 .. 255 /\ mean(2) \in 0 .. 255 /\ mean(3) \in 0 .. 255
    BY <1>2, <1>4
  <2> QED
    BY <1>3, <2>1 DEF Rgb
<1>6. \A com \in Component : Average(s)[com] = mean(com)
  BY <1>3, <1>4
<1>7. Between(Average(s), ColorsOf(s))
  BY <1>2, <1>6 DEF Between
<1> QED
  BY <1>5, <1>7

(* Of a single colour the average is that.                                 *)
LEMMA AverageExact ==
  ASSUME NEW s \in Seq(Rgb), Len(s) = 1
  PROVE  Average(s) = s[1]
<1>1. s # <<>> /\ s[1] \in Rgb
  OBVIOUS
<1>2. ColorsOf(s) = {s[1]}
  BY DEF ColorsOf
<1>3. Average(s) \in Rgb /\ Between(Average(s), {s[1]})
  BY <1>1, <1>2, AverageSound
<1>4. \A com \in Component : s[1][com] <= Average(s)[com] /\ Average(s)[com] <= s[1][com]
  BY <1>3 DEF Between
<1>5. \A com \in Component : s[1][com] \in Int /\ Average(s)[com] \in Int
  BY <1>1, <1>3, RgbComponents
<1>6. \A com \in Component : Average(s)[com] = s[1][com]
  BY <1>4, <1>5
<1>7. 1 \in Component /\ 2 \in Component /\ 3 \in Component
  BY DEF Component
<1>8. /\ s[1] = <<s[1][1], s[1][2], s[1][3]>>
      /\ Average(s) = <<Average(s)[1], Average(s)[2], Average(s)[3]>>
  BY <1>1, <1>3, RgbComponents
<1>9. Average(s)[1] = s[1][1] /\ Average(s)[2] = s[1][2] /\ Average(s)[3] = s[1][3]
  BY <1>6, <1>7
<1> QED
  BY <1>8, <1>9

-----------------------------------------------------------------------------
(* Nodes of the tree                                                       *)

LEMMA DepthIsNat == \A d \in Depths : d \in Nat /\ d >= 2 /\ d - 1 \in Nat
BY PaletteAssumption

LEMMA PowersSound ==
  ASSUME NEW d \in Depths
  PROVE  /\ \A n \in 0 .. d + 1 : 2^n \in Nat /\ 2^n >= 1
         /\ \A n \in 0 .. d : 2^(n + 1) = 2 * 2^n
         /\ 2^0 = 1
<1> DEFINE Good == {n \in 0 .. d + 1 : 2^n \in Nat /\ 2^n >= 1}
<1>1. d \in Nat /\ d + 1 \in Nat
  BY DepthIsNat
<1>2. 2^0 = 1 /\ \A n \in 0 .. d : 2^n \in Nat /\ 2^(n + 1) = 2 * 2^n
  BY DepthPowersAssumption
<1>3. 0 \in Good
  BY <1>1, <1>2
<1>4. ASSUME NEW k \in 1 .. d + 1, k - 1 \in Good
      PROVE  k \in Good
  <2>1. k - 1 \in 0 .. d /\ (k - 1) + 1 = k /\ k \in 0 .. d + 1
    BY <1>1
  <2>2. 2^(k - 1) \in Nat /\ 2^(k - 1) >= 1
    BY <1>4
  <2>3. 2^k = 2 * 2^(k - 1)
    BY <1>2, <2>1
  <2>4. 2^k \in Nat /\ 2^k >= 1
    BY <2>2, <2>3
  <2> QED
    BY <2>1, <2>4
<1>5. \A k \in 0 .. d + 1 : k \in Good
  <2> HIDE DEF Good
  <2> QED
    BY <1>1, <1>3, <1>4, LoopInduction
<1> QED
  BY <1>2, <1>5

(* Powers grow, at least to the double.                                    *)
LEMMA PowersGrow ==
  ASSUME NEW d \in Depths, NEW n \in 0 .. d + 1, NEW m \in 0 .. n - 1
  PROVE  2 * 2^m <= 2^n
<1> DEFINE Good == {k \in 0 .. d + 1 : \A j \in 0 .. k - 1 : 2 * 2^j <= 2^k}
<1>1. d \in Nat /\ d + 1 \in Nat
  BY DepthIsNat
<1>2. 0 \in Good
  BY <1>1
<1>3. ASSUME NEW k \in 1 .. d + 1, k - 1 \in Good
      PROVE  k \in Good
  <2>1. k - 1 \in 0 .. d /\ (k - 1) + 1 = k /\ k \in 0 .. d + 1 /\ k - 1 \in 0 .. d + 1
    BY <1>1
  <2>2. 2^(k - 1) \in Nat /\ 2^k \in Nat /\ 2^k = 2 * 2^(k - 1)
    BY <2>1, PowersSound
  <2>3. ASSUME NEW j \in 0 .. k - 1 PROVE 2 * 2^j <= 2^k
    <3>1. CASE j = k - 1
      BY <2>2, <3>1
    <3>2. CASE j # k - 1
      <4>1. j \in 0 .. (k - 1) - 1 /\ j \in 0 .. d + 1
        BY <1>1, <2>1, <3>2
      <4>2. 2 * 2^j <= 2^(k - 1) /\ 2^j \in Nat
        BY <1>3, <4>1, PowersSound
      <4> QED
        BY <2>2, <4>2
    <3> QED
      BY <3>1, <3>2
  <2> QED
    BY <2>1, <2>3
<1>4. \A k \in 0 .. d + 1 : k \in Good
  <2> HIDE DEF Good
  <2> QED
    BY <1>1, <1>2, <1>3, LoopInduction
<1> QED
  BY <1>4

(* x is y or below it: a number that begins, in binary, with y.            *)
Spans(y, p, x) == y * p <= x /\ x < (y + 1) * p

Below(d, x, y) == \E m \in 0 .. d : Spans(y, 2^m, x)

LEMMA SpansDoubled ==
  ASSUME NEW y \in Nat, NEW p \in Nat, NEW x \in Nat
  PROVE  /\ Spans(2 * y, p, x) => Spans(y, 2 * p, x)
         /\ Spans(2 * y + 1, p, x) => Spans(y, 2 * p, x)
         /\ Spans(y, 2 * p, x) => Spans(2 * y, p, x) \/ Spans(2 * y + 1, p, x)
<1>1. /\ (2 * y) * p = y * (2 * p) /\ (2 * y + 1) * p = y * (2 * p) + p
      /\ (2 * y + 1 + 1) * p = (y + 1) * (2 * p) /\ (y + 1) * (2 * p) = y * (2 * p) + 2 * p
      /\ y * (2 * p) \in Nat
  OBVIOUS
<1> QED
  BY <1>1 DEF Spans

(* Of a node and its children.                                             *)
LEMMA BelowSound ==
  ASSUME NEW d \in Depths, NEW y \in Nat \ {0}, NEW x \in Nat, x < 2^(d + 1)
  PROVE  /\ Below(d, y, y)
         /\ Below(d, x, 2 * y) \/ Below(d, x, 2 * y + 1) => Below(d, x, y)
         /\ Below(d, x, y) => x = y \/ Below(d, x, 2 * y) \/ Below(d, x, 2 * y + 1)
         /\ Below(d, x, y) => y <= x
<1>1. d \in Nat /\ y \in Nat /\ y >= 1 /\ 0 \in 0 .. d
  BY DepthIsNat
<1>2. /\ \A n \in 0 .. d + 1 : 2^n \in Nat /\ 2^n >= 1
      /\ \A n \in 0 .. d : 2^(n + 1) = 2 * 2^n
      /\ 2^0 = 1
  BY PowersSound
<1>3. Below(d, y, y)
  <2>1. Spans(y, 1, y)
    BY <1>1 DEF Spans
  <2> QED
    BY <1>1, <1>2, <2>1 DEF Below
<1>4. ASSUME NEW z \in {2 * y, 2 * y + 1}, Below(d, x, z)
      PROVE  Below(d, x, y)
  <2>1. PICK m \in 0 .. d : Spans(z, 2^m, x)
    BY <1>4 DEF Below
  <2>2. 2^m \in Nat /\ 2^m >= 1 /\ 2^(m + 1) = 2 * 2^m
    BY <1>1, <1>2
  <2>3. Spans(y, 2^(m + 1), x)
    BY <1>1, <2>1, <2>2, SpansDoubled
  <2>4. m # d
    <3>1. SUFFICES ASSUME m = d PROVE FALSE
      OBVIOUS
    <3>2. y * 2^(d + 1) <= x /\ 2^(d + 1) \in Nat
      BY <1>1, <1>2, <2>3, <3>1 DEF Spans
    <3>3. 2^(d + 1) * 1 <= 2^(d + 1) * y
      BY <1>1, <3>2, ProductOrder
    <3>4. 2^(d + 1) * 1 = 2^(d + 1) /\ 2^(d + 1) * y = y * 2^(d + 1)
      BY <1>1, <3>2
    <3> DEFINE p == 2^(d + 1)
    <3> HIDE DEF p
    <3>5. p <= y * p /\ y * p <= x /\ x < p /\ p \in Nat /\ y * p \in Nat
      BY <1>1, <3>2, <3>3, <3>4 DEF p
    <3> QED
      BY <3>5
  <2>5. m + 1 \in 0 .. d
    BY <1>1, <2>4
  <2> QED
    BY <2>3, <2>5 DEF Below
<1>5. ASSUME Below(d, x, y)
      PROVE  (x = y \/ Below(d, x, 2 * y) \/ Below(d, x, 2 * y + 1)) /\ y <= x
  <2>1. PICK m \in 0 .. d : Spans(y, 2^m, x)
    BY <1>5 DEF Below
  <2>2. CASE m = 0
    <3>1. y * 1 = y /\ (y + 1) * 1 = y + 1
      OBVIOUS
    <3>2. y <= x /\ x < y + 1
      BY <1>2, <2>1, <2>2, <3>1 DEF Spans
    <3> QED
      BY <3>2
  <2>3. CASE m # 0
    <3>1. m - 1 \in 0 .. d /\ (m - 1) + 1 = m /\ m \in 0 .. d + 1
      BY <1>1, <2>3
    <3>2. 2^(m - 1) \in Nat /\ 2^m = 2 * 2^(m - 1) /\ 2^m \in Nat /\ 2^m >= 1
      BY <1>2, <3>1
    <3>3. Spans(2 * y, 2^(m - 1), x) \/ Spans(2 * y + 1, 2^(m - 1), x)
      BY <1>1, <2>1, <3>2, SpansDoubled
    <3>4. y <= x
      <4>1. y * 1 <= y * 2^m
        BY <1>1, <3>2, ProductOrder
      <4>2. y * 2^m <= x /\ y * 2^m \in Nat
        BY <1>1, <2>1, <3>2 DEF Spans
      <4> DEFINE q == y * 2^m
      <4> HIDE DEF q
      <4>3. y * 1 <= q /\ q <= x /\ q \in Nat
        BY <4>1, <4>2 DEF q
      <4> QED
        BY <4>3
    <3> QED
      BY <3>1, <3>3, <3>4 DEF Below
  <2> QED
    BY <2>2, <2>3
<1> QED
  BY <1>3, <1>4, <1>5

(* Nothing is below both children of a node.                               *)
LEMMA BelowApart ==
  ASSUME NEW d \in Depths, NEW y \in Nat \ {0}, NEW x \in Nat
  PROVE  ~(Below(d, x, 2 * y) /\ Below(d, x, 2 * y + 1))
<1>1. SUFFICES ASSUME NEW m \in 0 .. d, NEW j \in 0 .. d,
                      Spans(2 * y, 2^m, x), Spans(2 * y + 1, 2^j, x)
               PROVE  FALSE
  BY DEF Below
<1> DEFINE p == 2^m
           q == 2^j
<1>2. d \in Nat /\ y \in Nat /\ y >= 1 /\ m \in 0 .. d + 1 /\ j \in 0 .. d + 1
  BY DepthIsNat
<1>3. p \in Nat /\ p >= 1 /\ q \in Nat /\ q >= 1
  BY <1>2, PowersSound
<1>4. /\ m = j => p = q
      /\ m < j => 2 * p <= q
      /\ j < m => 2 * q <= p
  <2>1. m < j => m \in 0 .. j - 1
    OBVIOUS
  <2>2. j < m => j \in 0 .. m - 1
    OBVIOUS
  <2> QED
    BY <1>2, <2>1, <2>2, PowersGrow
<1>5. /\ (2 * y) * p <= x /\ x < (2 * y + 1) * p
      /\ (2 * y + 1) * q <= x /\ x < (2 * y + 1 + 1) * q
  BY <1>1 DEF Spans
<1> HIDE DEF p, q
<1> DEFINE a == y * p
           b == y * q
<1>6. /\ (2 * y) * p = 2 * a /\ (2 * y + 1) * p = 2 * a + p
      /\ (2 * y + 1) * q = 2 * b + q /\ (2 * y + 1 + 1) * q = 2 * b + 2 * q
      /\ a \in Nat /\ b \in Nat
  BY <1>2, <1>3
<1>7. CASE p <= q
  <2>1. a <= b
    BY <1>2, <1>3, <1>7, ProductOrder
  <2> HIDE DEF a, b
  <2>2. 2 * b + q <= x /\ x < 2 * a + p
    BY <1>5, <1>6
  <2> QED
    BY <1>3, <1>6, <1>7, <2>1, <2>2
<1>8. CASE 2 * q <= p
  <2>1. y * (2 * q) <= a
    BY <1>2, <1>3, <1>8, ProductOrder
  <2>2. y * (2 * q) = 2 * b
    BY <1>2, <1>3
  <2>3. q * 1 <= q * y
    BY <1>2, <1>3, ProductOrder
  <2>4. q * 1 = q /\ q * y = b
    BY <1>2, <1>3
  <2> DEFINE c == y * (2 * q)
             e == q * 1
             g == q * y
  <2>5. c <= a /\ c = 2 * b /\ e <= g /\ e = q /\ g = b
    BY <2>1, <2>2, <2>3, <2>4
  <2>6. 2 * a <= x /\ x < 2 * b + 2 * q
    BY <1>5, <1>6
  <2> HIDE DEF a, b, c, e, g
  <2>7. q <= b /\ 2 * b <= a
    BY <2>5
  <2> QED
    BY <1>3, <1>6, <2>6, <2>7
<1>9. p <= q \/ 2 * q <= p
  <2>1. m = j \/ m < j \/ j < m
    OBVIOUS
  <2> QED
    BY <1>3, <1>4, <2>1
<1> QED
  BY <1>7, <1>8, <1>9

(* Nothing is below a leaf, and a node is not below its children.          *)
LEMMA BelowLeaf ==
  ASSUME NEW d \in Depths, NEW y \in Nat, y >= 2^d, NEW x \in Nat, x < 2^(d + 1), Below(d, x, y)
  PROVE  x = y
<1>1. d \in Nat /\ d \in 0 .. d + 1 /\ d \in 0 .. d
  BY DepthIsNat
<1>2. 2^d \in Nat /\ 2^d >= 1 /\ 2^(d + 1) = 2 * 2^d
  BY <1>1, PowersSound
<1>3. y \in Nat \ {0}
  BY <1>2
<1>4. x = y \/ Below(d, x, 2 * y) \/ Below(d, x, 2 * y + 1)
  BY <1>3, BelowSound
<1>5. ASSUME NEW z \in {2 * y, 2 * y + 1} PROVE ~Below(d, x, z)
  <2>1. z \in Nat \ {0} /\ z >= 2 * 2^d
    BY <1>2, <1>3
  <2>2. ~(z <= x)
    BY <1>2, <2>1
  <2> QED
    BY <2>1, <2>2, BelowSound
<1> QED
  BY <1>4, <1>5

-----------------------------------------------------------------------------
(* The pixels of the parts                                                 *)

(* A quotient is the largest factor that fits.                             *)
LEMMA QuotientSound ==
  ASSUME NEW x \in Nat, NEW q \in Nat \ {0}
  PROVE  x \div q \in Nat /\ q * (x \div q) <= x /\ x < q * (x \div q) + q
OBVIOUS

(* Neither part has fewer pixels than palette entries unless there are     *)
(* fewer of them at all; nor more unless there are more.                   *)
LEMMA SubPixelsSound ==
  ASSUME NEW n \in Nat \ {0}, NEW first \in Int, NEW split \in Int, NEW last \in Int,
         first < split, split < last
  PROVE  LET m == SubPixels(n, first, split, last)
         IN  /\ m \in 0 .. n - 1
             /\ n >= last - first => m >= split - first /\ n - m >= last - split
             /\ n <= last - first => m <= split - first /\ n - m <= last - split
<1> DEFINE l == last - first
           a == split - first
           m == SubPixels(n, first, split, last)
           b == l - a
<1>1. l \in Nat \ {0} /\ a \in Nat /\ a >= 1 /\ b \in Nat /\ b >= 1 /\ last - split = b /\ n \in Nat /\ n >= 1
      /\ a = l - b
  OBVIOUS
<1>2. m = (n * a) \div l
  BY DEF SubPixels
<1> HIDE DEF l, a, b, m
<1>3. n * a \in Nat
  BY <1>1
<1>4. m \in Nat /\ l * m <= n * a /\ n * a < l * m + l
  BY <1>1, <1>2, <1>3, QuotientSound
<1>5. m <= n - 1
  <2>1. SUFFICES ASSUME m >= n PROVE FALSE
    BY <1>1, <1>4
  <2>2. l * n <= l * m
    BY <1>1, <1>4, <2>1, ProductOrder
  <2>3. n * a = l * n - n * b /\ n * 1 <= n * b /\ n * 1 = n
    <3>1. n * a = n * (l - b)
      BY <1>1
    <3>2. n * (l - b) = l * n - n * b /\ n * 1 = n
      BY <1>1
    <3>3. n * 1 <= n * b
      BY <1>1, ProductOrder
    <3> QED
      BY <3>1, <3>2, <3>3
  <2> DEFINE x == l * n
             y == l * m
             z == n * b
             w == n * a
  <2>4. x \in Int /\ y \in Int /\ z \in Int /\ x <= y /\ y <= w /\ w = x - z /\ n <= z
    BY <1>1, <1>4, <2>2, <2>3
  <2> HIDE DEF x, y, z, w
  <2> QED
    BY <1>1, <2>4
<1> DEFINE w == n * a
           u == l * m
<1>6. w \in Int /\ u \in Int /\ u <= w /\ w < u + l
  BY <1>1, <1>3, <1>4
<1>7. ASSUME n >= l PROVE m >= a /\ n - m >= b
  <2>1. m >= a
    <3>1. SUFFICES ASSUME m <= a - 1 PROVE FALSE
      BY <1>1, <1>4
    <3>2. l * m <= l * (a - 1)
      BY <1>1, <1>4, <3>1, ProductOrder
    <3>3. l * (a - 1) = l * a - l /\ l * a = a * l /\ n * a = a * n /\ a * l \in Int
      BY <1>1
    <3>4. a * l <= a * n
      BY <1>1, <1>7, ProductOrder
    <3> DEFINE x == a * l
    <3>5. x \in Int /\ u <= x - l /\ x <= w
      BY <3>2, <3>3, <3>4
    <3> HIDE DEF x, w, u
    <3> QED
      BY <1>1, <1>6, <3>5
  <2>2. n - m >= b
    <3>1. SUFFICES ASSUME n - b + 1 <= m PROVE FALSE
      BY <1>1, <1>4
    <3>2. l * (n - b + 1) <= l * m
      BY <1>1, <1>4, <3>1, ProductOrder
    <3>3. l * (n - b + 1) = l * n - l * b + l /\ l * n \in Int /\ l * b \in Int /\ l * b = b * l
      BY <1>1
    <3>4. b * l <= b * n
      BY <1>1, <1>7, ProductOrder
    <3>5. n * a = l * n - b * n /\ b * n \in Int
      <4>1. n * a = n * (l - b)
        BY <1>1
      <4>2. n * (l - b) = l * n - b * n
        BY <1>1
      <4> QED
        BY <1>1, <4>1, <4>2
    <3> DEFINE x == l * n
               y == b * l
               z == b * n
    <3>6. x \in Int /\ y \in Int /\ z \in Int /\ x - y + l <= u /\ y <= z /\ w = x - z
      BY <3>2, <3>3, <3>4, <3>5
    <3> HIDE DEF x, y, z, w, u
    <3> QED
      BY <1>1, <1>6, <3>6
  <2> QED
    BY <2>1, <2>2
<1>8. ASSUME n <= l PROVE m <= a /\ n - m <= b
  <2>1. m <= a
    <3>1. SUFFICES ASSUME a + 1 <= m PROVE FALSE
      BY <1>1, <1>4
    <3>2. l * (a + 1) <= l * m
      BY <1>1, <1>4, <3>1, ProductOrder
    <3>3. l * (a + 1) = l * a + l /\ l * a = a * l /\ n * a = a * n /\ a * l \in Int
      BY <1>1
    <3>4. a * n <= a * l
      BY <1>1, <1>8, ProductOrder
    <3> DEFINE x == a * l
    <3>5. x \in Int /\ x + l <= u /\ w <= x
      BY <3>2, <3>3, <3>4
    <3> HIDE DEF x, w, u
    <3> QED
      BY <1>1, <1>6, <3>5
  <2>2. n - m <= b
    <3>1. SUFFICES ASSUME m <= n - b - 1 PROVE FALSE
      BY <1>1, <1>4
    <3>2. l * m <= l * (n - b - 1)
      BY <1>1, <1>4, <3>1, ProductOrder
    <3>3. l * (n - b - 1) = l * n - l * b - l /\ l * n \in Int /\ l * b \in Int /\ l * b = b * l
      BY <1>1
    <3>4. b * n <= b * l
      BY <1>1, <1>8, ProductOrder
    <3>5. n * a = l * n - b * n /\ b * n \in Int
      <4>1. n * a = n * (l - b)
        BY <1>1
      <4>2. n * (l - b) = l * n - b * n
        BY <1>1
      <4> QED
        BY <1>1, <4>1, <4>2
    <3> DEFINE x == l * n
               y == b * l
               z == b * n
    <3>6. x \in Int /\ y \in Int /\ z \in Int /\ u <= x - y - l /\ z <= y /\ w = x - z
      BY <3>2, <3>3, <3>4, <3>5
    <3> HIDE DEF x, y, z, w, u
    <3> QED
      BY <1>1, <1>6, <3>6
  <2> QED
    BY <2>1, <2>2
<1>9. m \in 0 .. n - 1
  BY <1>1, <1>4, <1>5
<1>10. n >= l => m >= a /\ n - m >= b
  BY <1>7
<1>11. n <= l => m <= a /\ n - m <= b
  BY <1>8
<1>12. last - split = b
  BY <1>1
<1> QED
  BY <1>9, <1>10, <1>11, <1>12 DEF m, l, a

(* Part of a sequence of pixels.                                           *)
LEMMA PartOfPixels ==
  ASSUME NEW s \in Seq(Rgb), NEW n, n = Len(s), n \in Nat, NEW m \in 0 .. n
  PROVE  /\ SubSeq(s, 1, m) \in Seq(Rgb) /\ Len(SubSeq(s, 1, m)) = m
         /\ \A i \in 1 .. m : SubSeq(s, 1, m)[i] = s[i]
         /\ SubSeq(s, m + 1, n) \in Seq(Rgb) /\ Len(SubSeq(s, m + 1, n)) = n - m
         /\ \A i \in 1 .. n - m : SubSeq(s, m + 1, n)[i] = s[m + i]
<1>1. \A i \in 1 .. m : s[i] \in Rgb
  OBVIOUS
<1>2. \A i \in m + 1 .. n : s[i] \in Rgb
  OBVIOUS
<1>3. /\ 1 \in Int /\ m \in Int /\ m + 1 \in Int /\ n \in Int
      /\ (IF 1 <= m THEN m - 1 + 1 ELSE 0) = m
      /\ (IF m + 1 <= n THEN n - (m + 1) + 1 ELSE 0) = n - m
      /\ m - 1 + 1 = m /\ n - (m + 1) + 1 = n - m
  OBVIOUS
<1>4. /\ SubSeq(s, 1, m) \in Seq(Rgb) /\ Len(SubSeq(s, 1, m)) = m
      /\ \A i \in 1 .. m : SubSeq(s, 1, m)[i] = s[1 + i - 1]
  BY <1>1, <1>3, SubSeqProperties
<1>5. /\ SubSeq(s, m + 1, n) \in Seq(Rgb) /\ Len(SubSeq(s, m + 1, n)) = n - m
      /\ \A i \in 1 .. n - m : SubSeq(s, m + 1, n)[i] = s[(m + 1) + i - 1]
  BY <1>2, <1>3, SubSeqProperties
<1>6. \A i \in Int : 1 + i - 1 = i /\ (m + 1) + i - 1 = m + i
  OBVIOUS
<1> QED
  BY <1>4, <1>5, <1>6

(* Split at the median, the pixels are on the side of it they belong to,   *)
(* and all of them are there.                                              *)
LEMMA PartsSound ==
  ASSUME NEW s \in Seq(Rgb), NEW com \in Component, NEW m \in 0 .. Len(s) - 1
  PROVE  LET t == PartitionByMedian(s, com, m)
             a == SubSeq(t, 1, m)
             b == SubSeq(t, m + 1, Len(t))
             value == At(t, m)[com]
         IN  /\ a \in Seq(Rgb) /\ Len(a) = m /\ b \in Seq(Rgb) /\ Len(b) = Len(s) - m
             /\ value \in 0 .. 255 /\ value \in Int
             /\ \A c \in ColorsOf(a) : c \in ColorsOf(s) /\ c[com] <= value
             /\ \A c \in ColorsOf(b) : c \in ColorsOf(s) /\ c[com] >= value
             /\ \A c \in ColorsOf(s) : c \in ColorsOf(a) \/ c \in ColorsOf(b)
<1> DEFINE n == Len(s)
           t == PartitionByMedian(s, com, m)
           a == SubSeq(t, 1, m)
           b == SubSeq(t, m + 1, n)
           value == At(t, m)[com]
<1>1. n \in Nat /\ m \in 0 .. n - 1 /\ m \in 0 .. n /\ m \in Nat
  OBVIOUS
<1>2. t \in Pixels(n) /\ Median(n, t, com, m) /\ Rearranged(n, s, t)
  BY MedianSound
<1> HIDE DEF n, t
<1>3. t \in Seq(Rgb) /\ n = Len(t) /\ \A i \in 1 .. n : t[i] \in Rgb
  BY <1>1, <1>2 DEF Pixels
<1>4. /\ a \in Seq(Rgb) /\ Len(a) = m /\ \A i \in 1 .. m : a[i] = t[i]
      /\ b \in Seq(Rgb) /\ Len(b) = n - m /\ \A i \in 1 .. n - m : b[i] = t[m + i]
  BY <1>1, <1>3, PartOfPixels
<1>5. value \in 0 .. 255 /\ value \in Int
  BY <1>1, <1>2, AtColors
<1> HIDE DEF a, b, value
<1>6. ColorsOf(s) = {t[i] : i \in 1 .. n}
  BY <1>2 DEF Rearranged, ColorsOf, n
<1>7. ASSUME NEW c \in ColorsOf(a) PROVE c \in ColorsOf(s) /\ c[com] <= value
  <2>1. PICK i \in 1 .. m : c = t[i]
    BY <1>4 DEF ColorsOf
  <2>2. i \in 1 .. n /\ i - 1 \in 0 .. m /\ (i - 1) + 1 = i
    BY <1>1
  <2>3. At(t, i - 1)[com] <= value
    BY <1>2, <2>2 DEF Median, value
  <2>4. At(t, i - 1) = c
    BY <2>1, <2>2 DEF At
  <2> QED
    BY <1>6, <2>1, <2>2, <2>3, <2>4
<1>8. ASSUME NEW c \in ColorsOf(b) PROVE c \in ColorsOf(s) /\ c[com] >= value
  <2>1. PICK i \in 1 .. n - m : c = t[m + i]
    BY <1>4 DEF ColorsOf
  <2>2. m + i \in 1 .. n /\ m + i - 1 \in m .. n - 1 /\ (m + i - 1) + 1 = m + i
    BY <1>1
  <2>3. At(t, m + i - 1)[com] >= value
    BY <1>2, <2>2 DEF Median, value
  <2>4. At(t, m + i - 1) = c
    BY <2>1, <2>2 DEF At
  <2> QED
    BY <1>6, <2>1, <2>2, <2>3, <2>4
<1>9. ASSUME NEW c \in ColorsOf(s) PROVE c \in ColorsOf(a) \/ c \in ColorsOf(b)
  <2>1. PICK i \in 1 .. n : c = t[i]
    BY <1>6
  <2>2. i \in 1 .. m \/ (i - m \in 1 .. n - m /\ m + (i - m) = i)
    BY <1>1
  <2>3. CASE i \in 1 .. m
    <3>1. a[i] = c
      BY <1>4, <2>1, <2>3
    <3> QED
      BY <1>4, <2>3, <3>1 DEF ColorsOf
  <2>4. CASE i - m \in 1 .. n - m /\ m + (i - m) = i
    <3>1. b[i - m] = c
      BY <1>4, <2>1, <2>4
    <3> QED
      BY <1>4, <2>4, <3>1 DEF ColorsOf
  <2> QED
    BY <2>2, <2>3, <2>4
<1> QED
  BY <1>3, <1>4, <1>5, <1>7, <1>8, <1>9 DEF n, t, a, b, value

-----------------------------------------------------------------------------
(* The calls that build the tree                                           *)

Com(c)    == SplitComponent(c.pixels)
Cut(c)    == SubPixels(Len(c.pixels), c.first, c.split, c.last)
Sorted(c) == PartitionByMedian(c.pixels, Com(c), Cut(c))
SplitOf(c) == At(Sorted(c), Cut(c))[Com(c)]

LeftCall(c) ==
  [pal |-> WithNode(c.pal, c.node, Com(c), SplitOf(c)),
   pixels |-> SubSeq(Sorted(c), 1, Cut(c)), first |-> c.first, last |-> c.split,
   split |-> c.split - c.dist, dist |-> c.dist \div 2, node |-> 2 * c.node]

RightCall(c, left) ==
  [pal |-> left,
   pixels |-> SubSeq(Sorted(c), Cut(c) + 1, Len(Sorted(c))), first |-> c.split, last |-> c.last,
   split |-> c.split + c.dist, dist |-> c.dist \div 2, node |-> 2 * c.node + 1]

Nothing(c) == c.last <= c.first \/ c.pixels = <<>>
OneEntry(c) == c.last = c.first + 1

(* The body of the recursion, of a function f.                             *)
TreeTurn(f, c) ==
  IF Nothing(c) THEN c.pal
  ELSE IF OneEntry(c)
  THEN [c.pal EXCEPT !.color[c.first] = Average(c.pixels), !.made = @ \union {c.first}]
  ELSE f[RightCall(c, f[LeftCall(c)])]

Trees(d) == CHOOSE f : f = [c \in Calls(d) |-> TreeTurn(f, c)]

Width(c) == IF c.last > c.first THEN c.last - c.first ELSE 0

LEMMA CallTypes ==
  ASSUME NEW d \in Depths, NEW c \in Calls(d)
  PROVE  /\ c.pal \in Palettes(d) /\ c.pixels \in Seq(Rgb) /\ Len(c.pixels) \in Nat
         /\ c.first \in 0 .. 2^d /\ c.last \in 0 .. 2^d /\ c.first \in Int /\ c.last \in Int
         /\ c.split \in Int /\ c.dist \in Int /\ c.node \in Nat
         /\ c = [pal |-> c.pal, pixels |-> c.pixels, first |-> c.first, last |-> c.last,
                 split |-> c.split, dist |-> c.dist, node |-> c.node]
         /\ c.last <= c.first + 1 \/ Halved(c, d)
<1>1. 2^d \in Nat
  <2>1. d \in 0 .. d + 1
    BY DepthIsNat
  <2> QED
    BY <2>1, PowersSound
<1>2. /\ c \in [pal : Palettes(d), pixels : Seq(Rgb), first : 0 .. 2^d, last : 0 .. 2^d,
                split : Int, dist : Int, node : Nat]
      /\ c.last <= c.first + 1 \/ Halved(c, d)
  BY DEF Calls
<1>3. c.first \in 0 .. 2^d /\ c.last \in 0 .. 2^d /\ c.pixels \in Seq(Rgb)
  BY <1>2
<1>4. c.first \in Int /\ c.last \in Int /\ Len(c.pixels) \in Nat
  BY <1>1, <1>3
<1> QED
  BY <1>2, <1>4

(* The numbers of the calls of the parts.                                  *)
LEMMA HalvesSound ==
  ASSUME NEW d \in Depths, NEW c, c.first \in 0 .. 2^d, c.last \in 0 .. 2^d, c.split \in Int,
         c.dist \in Int, Halved(c, d), ~(c.last <= c.first), c.last # c.first + 1
  PROVE  /\ c.first < c.split /\ c.split < c.last /\ c.split \in 0 .. 2^d
         /\ c.dist \div 2 \in Int
         /\ \A l : (l.first = c.first /\ l.last = c.split /\ l.split = c.split - c.dist /\ l.dist = c.dist \div 2)
                     => (l.last <= l.first + 1 \/ Halved(l, d))
         /\ \A r : (r.first = c.split /\ r.last = c.last /\ r.split = c.split + c.dist /\ r.dist = c.dist \div 2)
                     => (r.last <= r.first + 1 \/ Halved(r, d))
<1>1. d \in Nat /\ 2^d \in Nat
  <2>1. d \in 0 .. d + 1 /\ d \in Nat
    BY DepthIsNat
  <2> QED
    BY <2>1, PowersSound
<1>2. PICK k \in 0 .. d : /\ c.last = c.split + 2^k
                          /\ c.first \in {c.split - 2^k, c.split - 2^k + 1}
                          /\ c.dist = 2^k \div 2
  BY DEF Halved
<1> DEFINE p == 2^k
<1>3. p \in Nat /\ p >= 1
  BY <1>1, PowersSound
<1>4. c.first \in Int /\ c.last \in Int
  BY <1>1
<1> HIDE DEF p
<1>5. c.last = c.split + p /\ (c.first = c.split - p \/ c.first = c.split - p + 1) /\ c.dist = p \div 2
  BY <1>2 DEF p
<1>6. c.first < c.split /\ c.split < c.last
  BY <1>3, <1>4, <1>5
<1>7. c.split \in 0 .. 2^d
  BY <1>1, <1>6
<1>8. c.dist \div 2 \in Int
  OBVIOUS
<1>9. CASE k = 0
  <2>1. p = 1
    BY <1>1, <1>9, PowersSound DEF p
  <2>2. c.split <= c.first + 1 /\ c.last <= c.split + 1
    BY <1>4, <1>5, <2>1
  <2> QED
    BY <1>6, <1>7, <1>8, <2>2
<1>10. CASE k # 0
  <2> DEFINE q == 2^(k - 1)
  <2>1. k - 1 \in 0 .. d /\ (k - 1) + 1 = k
    BY <1>1, <1>10
  <2>2. q \in Nat /\ p = 2 * q
    <3>1. k - 1 \in 0 .. d + 1
      BY <1>1, <2>1
    <3>2. 2^((k - 1) + 1) = 2 * 2^(k - 1) /\ 2^(k - 1) \in Nat
      BY <2>1, <3>1, PowersSound
    <3> QED
      BY <2>1, <3>2 DEF p
  <2>3. c.dist = q
    BY <1>5, <2>2
  <2>4. ASSUME NEW l, l.first = c.first, l.last = c.split, l.split = c.split - c.dist, l.dist = c.dist \div 2
        PROVE  Halved(l, d)
    <3>1. l.last = l.split + q /\ l.first \in {l.split - q, l.split - q + 1} /\ l.dist = q \div 2
      <4> HIDE DEF q
      <4> QED
        BY <1>4, <1>5, <2>2, <2>3, <2>4
    <3> QED
      BY <2>1, <3>1 DEF Halved
  <2>5. ASSUME NEW r, r.first = c.split, r.last = c.last, r.split = c.split + c.dist, r.dist = c.dist \div 2
        PROVE  Halved(r, d)
    <3>1. r.last = r.split + q /\ r.first \in {r.split - q, r.split - q + 1} /\ r.dist = q \div 2
      <4> HIDE DEF q
      <4> QED
        BY <1>4, <1>5, <2>2, <2>3, <2>5
    <3> QED
      BY <2>1, <3>1 DEF Halved
  <2> QED
    BY <1>6, <1>7, <1>8, <2>4, <2>5
<1> QED
  BY <1>9, <1>10

(* A palette stays one when a node or an entry is written.                 *)
LEMMA WithNodeTypes ==
  ASSUME NEW d, NEW pal \in Palettes(d), NEW node, NEW com \in Component, NEW split \in 0 .. 255
  PROVE  /\ WithNode(pal, node, com, split) \in Palettes(d)
         /\ WithNode(pal, node, com, split).color = pal.color
         /\ WithNode(pal, node, com, split).made = pal.made
         /\ WithNode(pal, node, com, split).tree
              = [pal.tree EXCEPT ![EltAt(d, node)] = com - 1, ![SplitAt(d, node)] = split]
<1>1. com - 1 \in 0 .. 255
  BY DEF Component
<1>2. pal.bitDepth = d /\ pal.tree \in [TreeBytes(d) -> 0 .. 255]
  BY DEF Palettes
<1>3. [pal.tree EXCEPT ![EltAt(d, node)] = com - 1, ![SplitAt(d, node)] = split] \in [TreeBytes(d) -> 0 .. 255]
  BY <1>1, <1>2
<1> QED
  BY <1>2, <1>3 DEF WithNode, Palettes

LEMMA WithEntryTypes ==
  ASSUME NEW d, NEW pal \in Palettes(d), NEW i \in Leaf(d), NEW color \in Rgb
  PROVE  LET made == [pal EXCEPT !.color[i] = color, !.made = @ \union {i}]
         IN  /\ made \in Palettes(d)
             /\ made.color = [pal.color EXCEPT ![i] = color]
             /\ made.tree = pal.tree
             /\ made.made = pal.made \union {i}
BY DEF Palettes

(* What a call goes on with, when it does.                                 *)
LEMMA ChildCalls ==
  ASSUME NEW d \in Depths, NEW c \in Calls(d), ~Nothing(c), ~OneEntry(c)
  PROVE  /\ Len(c.pixels) \in Nat \ {0} /\ Com(c) \in Component /\ Cut(c) \in 0 .. Len(c.pixels) - 1
         /\ c.first < c.split /\ c.split < c.last
         /\ SplitOf(c) \in 0 .. 255
         /\ LeftCall(c) \in Calls(d)
         /\ \A pal \in Palettes(d) : RightCall(c, pal) \in Calls(d)
<1>1. /\ c.pal \in Palettes(d) /\ c.pixels \in Seq(Rgb) /\ Len(c.pixels) \in Nat
      /\ c.first \in 0 .. 2^d /\ c.last \in 0 .. 2^d /\ c.first \in Int /\ c.last \in Int
      /\ c.split \in Int /\ c.dist \in Int /\ c.node \in Nat
      /\ c = [pal |-> c.pal, pixels |-> c.pixels, first |-> c.first, last |-> c.last,
              split |-> c.split, dist |-> c.dist, node |-> c.node]
      /\ c.last <= c.first + 1 \/ Halved(c, d)
  BY CallTypes
<1>2. c.pixels # <<>> /\ ~(c.last <= c.first) /\ c.last # c.first + 1
  BY DEF Nothing, OneEntry
<1>3. Len(c.pixels) \in Nat \ {0}
  BY <1>1, <1>2
<1>4. Halved(c, d)
  BY <1>1, <1>2
<1>5. /\ c.first < c.split /\ c.split < c.last /\ c.split \in 0 .. 2^d
      /\ c.dist \div 2 \in Int
      /\ \A l : (l.first = c.first /\ l.last = c.split /\ l.split = c.split - c.dist /\ l.dist = c.dist \div 2)
                  => (l.last <= l.first + 1 \/ Halved(l, d))
      /\ \A r : (r.first = c.split /\ r.last = c.last /\ r.split = c.split + c.dist /\ r.dist = c.dist \div 2)
                  => (r.last <= r.first + 1 \/ Halved(r, d))
  BY <1>1, <1>2, <1>4, HalvesSound
<1>6. Com(c) \in Component
  BY DEF Com, SplitComponent, Component
<1>7. Cut(c) \in 0 .. Len(c.pixels) - 1
  BY <1>1, <1>3, <1>5, SubPixelsSound DEF Cut
<1>8. /\ SubSeq(Sorted(c), 1, Cut(c)) \in Seq(Rgb)
      /\ SubSeq(Sorted(c), Cut(c) + 1, Len(Sorted(c))) \in Seq(Rgb)
      /\ SplitOf(c) \in 0 .. 255
  BY <1>1, <1>6, <1>7, PartsSound DEF Sorted, SplitOf
<1>9. WithNode(c.pal, c.node, Com(c), SplitOf(c)) \in Palettes(d)
  BY <1>1, <1>6, <1>8, WithNodeTypes
<1>10. 2 * c.node \in Nat /\ 2 * c.node + 1 \in Nat /\ c.split - c.dist \in Int /\ c.split + c.dist \in Int
  BY <1>1
<1>11. LeftCall(c) \in Calls(d)
  <2> DEFINE l == LeftCall(c)
  <2>1. l = [pal |-> WithNode(c.pal, c.node, Com(c), SplitOf(c)), pixels |-> SubSeq(Sorted(c), 1, Cut(c)),
             first |-> c.first, last |-> c.split, split |-> c.split - c.dist, dist |-> c.dist \div 2,
             node |-> 2 * c.node]
    BY DEF LeftCall
  <2> HIDE DEF l
  <2>2. l \in [pal : Palettes(d), pixels : Seq(Rgb), first : 0 .. 2^d, last : 0 .. 2^d,
               split : Int, dist : Int, node : Nat]
    BY <1>1, <1>5, <1>8, <1>9, <1>10, <2>1
  <2>3. l.last <= l.first + 1 \/ Halved(l, d)
    <3>1. l.first = c.first /\ l.last = c.split /\ l.split = c.split - c.dist /\ l.dist = c.dist \div 2
      BY <2>1
    <3> QED
      BY <1>5, <3>1
  <2>4. l \in Calls(d)
    BY <2>2, <2>3 DEF Calls
  <2> QED
    BY <2>4 DEF l
<1>12. ASSUME NEW pal \in Palettes(d) PROVE RightCall(c, pal) \in Calls(d)
  <2> DEFINE r == RightCall(c, pal)
  <2>1. r = [pal |-> pal, pixels |-> SubSeq(Sorted(c), Cut(c) + 1, Len(Sorted(c))),
             first |-> c.split, last |-> c.last, split |-> c.split + c.dist, dist |-> c.dist \div 2,
             node |-> 2 * c.node + 1]
    BY DEF RightCall
  <2> HIDE DEF r
  <2>2. r \in [pal : Palettes(d), pixels : Seq(Rgb), first : 0 .. 2^d, last : 0 .. 2^d,
               split : Int, dist : Int, node : Nat]
    BY <1>1, <1>5, <1>8, <1>10, <2>1
  <2>3. r.last <= r.first + 1 \/ Halved(r, d)
    <3>1. r.first = c.split /\ r.last = c.last /\ r.split = c.split + c.dist /\ r.dist = c.dist \div 2
      BY <2>1
    <3> QED
      BY <1>5, <3>1
  <2>4. r \in Calls(d)
    BY <2>2, <2>3 DEF Calls
  <2> QED
    BY <2>4 DEF r
<1> QED
  BY <1>3, <1>5, <1>6, <1>7, <1>8, <1>11, <1>12

(* Width goes down.                                                        *)
LEMMA ChildWidths ==
  ASSUME NEW d \in Depths, NEW c \in Calls(d), ~Nothing(c), ~OneEntry(c)
  PROVE  /\ Width(c) = c.last - c.first
         /\ Width(LeftCall(c)) < Width(c)
         /\ \A pal : Width(RightCall(c, pal)) < Width(c)
<1>1. c.first < c.split /\ c.split < c.last
  BY ChildCalls
<1>2. c.first \in Int /\ c.last \in Int /\ c.split \in Int
  BY CallTypes
<1>3. Width(LeftCall(c)) = c.split - c.first
  BY <1>1, <1>2 DEF Width, LeftCall
<1>4. \A pal : Width(RightCall(c, pal)) = c.last - c.split
  BY <1>1, <1>2 DEF Width, RightCall
<1>5. Width(c) = c.last - c.first
  BY <1>1, <1>2 DEF Width
<1> QED
  BY <1>1, <1>2, <1>3, <1>4, <1>5

LEMMA TreeTurnTypes ==
  ASSUME NEW d \in Depths, NEW c \in Calls(d), NEW f \in [Calls(d) -> Palettes(d)]
  PROVE  TreeTurn(f, c) \in Palettes(d)
<1>1. CASE Nothing(c)
  BY <1>1, CallTypes DEF TreeTurn
<1>2. CASE ~Nothing(c) /\ OneEntry(c)
  <2>1. /\ c.first \in 0 .. 2^d /\ c.last \in 0 .. 2^d /\ c.last = c.first + 1 /\ c.pal \in Palettes(d)
        /\ c.pixels \in Seq(Rgb) /\ c.pixels # <<>>
    BY <1>2, CallTypes DEF OneEntry, Nothing
  <2>2. d \in 0 .. d + 1
    BY DepthIsNat
  <2>3. c.first \in Leaf(d)
    BY <2>1, <2>2, PowersSound DEF Leaf
  <2>4. Average(c.pixels) \in Rgb
    BY <2>1, AverageSound
  <2> QED
    BY <1>2, <2>1, <2>3, <2>4, WithEntryTypes DEF TreeTurn
<1>3. CASE ~Nothing(c) /\ ~OneEntry(c)
  <2>1. LeftCall(c) \in Calls(d) /\ \A pal \in Palettes(d) : RightCall(c, pal) \in Calls(d)
    BY <1>3, ChildCalls
  <2>2. f[LeftCall(c)] \in Palettes(d)
    BY <2>1
  <2>3. f[RightCall(c, f[LeftCall(c)])] \in Palettes(d)
    BY <2>1, <2>2
  <2> QED
    BY <1>3, <2>3 DEF TreeTurn
<1> QED
  BY <1>1, <1>2, <1>3

(* The recursion has a solution.                                           *)
LEMMA TreeSolved ==
  ASSUME NEW d \in Depths, Palettes(d) # {}
  PROVE  Trees(d) = [c \in Calls(d) |-> TreeTurn(Trees(d), c)]
<1> DEFINE D == Calls(d)
           S == Palettes(d)
           rank == [c \in D |-> Width(c)]
           step == [c \in D |-> [f \in [D -> S] |-> TreeTurn(f, c)]]
<1>1. 2^d \in Nat
  <2>1. d \in 0 .. d + 1
    BY DepthIsNat
  <2> QED
    BY <2>1, PowersSound
<1>2. rank \in [D -> 0 .. 2^d]
  <2>1. ASSUME NEW c \in D PROVE Width(c) \in 0 .. 2^d
    <3>1. c.first \in 0 .. 2^d /\ c.last \in 0 .. 2^d
      BY CallTypes
    <3> QED
      BY <1>1, <3>1 DEF Width
  <2> QED
    BY <2>1
<1>3. step \in [D -> [[D -> S] -> S]]
  <2>1. \A c \in D : \A f \in [D -> S] : TreeTurn(f, c) \in S
    BY TreeTurnTypes
  <2> HIDE DEF D, S
  <2> QED
    BY <2>1
<1>4. ASSUME NEW c \in D, NEW g \in [D -> S], NEW h \in [D -> S],
             \A x \in D : rank[x] < rank[c] => g[x] = h[x]
      PROVE  step[c][g] = step[c][h]
  <2>1. step[c][g] = TreeTurn(g, c) /\ step[c][h] = TreeTurn(h, c)
    OBVIOUS
  <2>2. CASE Nothing(c) \/ OneEntry(c)
    BY <2>1, <2>2 DEF TreeTurn
  <2>3. CASE ~Nothing(c) /\ ~OneEntry(c)
    <3> DEFINE l == LeftCall(c)
               r == RightCall(c, g[l])
    <3>1. l \in D /\ \A pal \in S : RightCall(c, pal) \in D
      BY <2>3, ChildCalls
    <3>2. Width(l) < Width(c) /\ Width(r) < Width(c)
      BY <2>3, ChildWidths
    <3> HIDE DEF l
    <3>3. g[l] = h[l]
      <4>1. rank[l] < rank[c]
        BY <3>1, <3>2
      <4> HIDE DEF D, S, rank, step
      <4> QED
        BY <1>4, <3>1, <4>1
    <3>4. r \in D
      <4> HIDE DEF D, S, rank, step
      <4> QED
        BY <3>1
    <3> HIDE DEF r
    <3>5. rank[r] < rank[c]
      BY <3>2, <3>4
    <3> HIDE DEF D, S, rank, step
    <3>6. g[r] = h[r]
      BY <1>4, <3>4, <3>5
    <3>7. TreeTurn(g, c) = g[r]
      BY <2>3 DEF TreeTurn, r, l
    <3>8. TreeTurn(h, c) = h[r]
      BY <2>3, <3>3 DEF TreeTurn, r, l
    <3> QED
      BY <2>1, <3>6, <3>7, <3>8
  <2> QED
    BY <2>2, <2>3
<1>5. Solution(D, S, step) # {}
  <2>1. Descends(D, S, rank, step)
    BY <1>4 DEF Descends
  <2>2. PICK default \in S : TRUE
    OBVIOUS
  <2> HIDE DEF D, S, rank, step
  <2> QED
    BY <1>1, <1>2, <1>3, <2>1, <2>2, RecursionSolved, Zenon
<1>6. PICK f \in [D -> S] : \A c \in D : f[c] = step[c][f]
  <2> HIDE DEF D, S, step
  <2> QED
    BY <1>5 DEF Solution
<1>7. f = [c \in D |-> TreeTurn(f, c)]
  <2>1. \A c \in D : f[c] = TreeTurn(f, c)
    BY <1>6
  <2> HIDE DEF step, D, S
  <2>2. f = [c \in D |-> f[c]]
    BY <1>6
  <2> QED
    BY <2>1, <2>2
<1> QED
  BY <1>7 DEF Trees

-----------------------------------------------------------------------------
(* Where the calls are in the tree                                         *)

(* What is below a node that is below another is below that.               *)
LEMMA BelowTransitive ==
  ASSUME NEW d \in Depths, NEW y \in Nat \ {0}, NEW x \in Nat, NEW b \in Nat, b < 2^(d + 1),
         Below(d, x, y), Below(d, b, x)
  PROVE  Below(d, b, y)
<1> DEFINE D == 1 .. 2^(d + 1)
           rank == [z \in D |-> 2^(d + 1) - z]
           Good == {z \in D : Below(d, x, z) => Below(d, b, z)}
<1>1. 2^(d + 1) \in Nat
  <2>1. d + 1 \in 0 .. d + 1
    BY DepthIsNat
  <2> QED
    BY <2>1, PowersSound
<1>2. rank \in [D -> Nat]
  BY <1>1
<1>3. x < 2^(d + 1)
  <2>1. x = 0 \/ x \in Nat \ {0}
    OBVIOUS
  <2>2. x \in Nat \ {0} => x <= b
    BY BelowSound
  <2> QED
    BY <1>1, <2>1, <2>2
<1>4. ASSUME NEW z \in D, \A w \in D : rank[w] < rank[z] => w \in Good
      PROVE  z \in Good
  <2>1. z \in Nat \ {0}
    BY <1>1
  <2>2. SUFFICES ASSUME Below(d, x, z) PROVE Below(d, b, z)
    OBVIOUS
  <2>3. x = z \/ \E w \in {2 * z, 2 * z + 1} : Below(d, x, w)
    BY <1>3, <2>1, <2>2, BelowSound
  <2>4. CASE x = z
    BY <2>4
  <2>5. ASSUME NEW w \in {2 * z, 2 * z + 1}, Below(d, x, w)
        PROVE  Below(d, b, z)
    <3>1. w \in Nat \ {0} /\ z < w
      BY <2>1, <2>5
    <3>2. w <= x
      BY <1>3, <2>5, <3>1, BelowSound
    <3>3. w \in D
      BY <1>1, <1>3, <3>1, <3>2
    <3>4. rank[w] < rank[z]
      BY <1>1, <2>1, <3>1, <3>3
    <3> HIDE DEF D, rank
    <3>5. Below(d, b, w)
      BY <1>4, <2>5, <3>3, <3>4
    <3> QED
      BY <2>1, <2>5, <3>5, BelowSound
  <2> QED
    BY <2>3, <2>4, <2>5
<1>5. \A z \in D : z \in Good
  <2> HIDE DEF D, rank, Good
  <2> QED
    BY <1>2, <1>4, RankInduction
<1>6. y \in D
  <2>1. y <= x
    BY <1>3, BelowSound
  <2> QED
    BY <1>1, <1>3, <2>1
<1> QED
  BY <1>5, <1>6

(* The nodes but for that of the transparent entry, which is written last. *)
Inner(d) == {x \in 1 .. 2^d - 1 : x # 2^(d - 1)}

(* The call is for the entries below its node, and splits them in half.    *)
PlacedAt(d, c, k) ==
  LET start == c.node * 2^k - 2^d
  IN  /\ c.node \in Nat \ {0} /\ start \in 0 .. 2^d - 2^k
      /\ c.last = start + 2^k
      /\ c.first = IF start = 0 THEN 1 ELSE start
      /\ k # 0 => c.split = start + 2^(k - 1) /\ c.dist = 2^(k - 1) \div 2

Placed(d, c) == \E k \in 0 .. d : PlacedAt(d, c, k)

(* The powers of a call.                                                   *)
LEMMA PlacedPowers ==
  ASSUME NEW d \in Depths, NEW k \in 0 .. d
  PROVE  /\ d \in Nat /\ d >= 2 /\ k \in Nat
         /\ 2^d \in Nat /\ 2^d >= 1 /\ 2^k \in Nat /\ 2^k >= 1 /\ 2^(d - 1) \in Nat /\ 2^d = 2 * 2^(d - 1)
         /\ 2^(d + 1) \in Nat /\ 2^(d + 1) = 2 * 2^d
         /\ k # 0 => 2^(k - 1) \in Nat /\ 2^(k - 1) >= 1 /\ 2^k = 2 * 2^(k - 1) /\ k - 1 \in 0 .. d
<1>1. d \in Nat /\ d >= 2
  BY DepthIsNat
<1>2. d \in 0 .. d + 1 /\ k \in 0 .. d + 1 /\ d - 1 \in 0 .. d + 1 /\ d + 1 \in 0 .. d + 1
      /\ d \in 0 .. d /\ d - 1 \in 0 .. d /\ (d - 1) + 1 = d
  BY <1>1
<1>3. k # 0 => k - 1 \in 0 .. d /\ k - 1 \in 0 .. d + 1 /\ (k - 1) + 1 = k
  BY <1>1
<1>4. /\ \A n \in 0 .. d + 1 : 2^n \in Nat /\ 2^n >= 1
      /\ \A n \in 0 .. d : 2^(n + 1) = 2 * 2^n
  BY PowersSound
<1>5. 2^((d - 1) + 1) = 2 * 2^(d - 1) /\ 2^(d + 1) = 2 * 2^d
  BY <1>2, <1>4
<1>6. k # 0 => 2^((k - 1) + 1) = 2 * 2^(k - 1)
  BY <1>3, <1>4
<1> QED
  BY <1>1, <1>2, <1>3, <1>4, <1>5, <1>6

(* The entries of a call are below its node.                               *)
LEMMA PlacedEntries ==
  ASSUME NEW d \in Depths, NEW c, Placed(d, c), NEW i \in c.first .. c.last - 1
  PROVE  i \in Leaf(d) /\ i # 0 /\ 2^d + i \in Nat /\ 2^d + i < 2^(d + 1) /\ Below(d, 2^d + i, c.node)
<1>1. PICK k \in 0 .. d : PlacedAt(d, c, k)
  BY DEF Placed
<1> DEFINE p == 2^k
           t == 2^d
           q == c.node * p
<1>2. p \in Nat /\ p >= 1 /\ t \in Nat /\ t >= 1 /\ 2^(d + 1) = 2 * t
  BY PlacedPowers
<1>3. c.node \in Nat \ {0}
  BY <1>1 DEF PlacedAt
<1>4. q \in Nat /\ (c.node + 1) * p = q + p
  <2> HIDE DEF p
  <2> QED
    BY <1>2, <1>3
<1>5. q - t \in 0 .. t - p /\ c.last = (q - t) + p /\ c.first = IF q - t = 0 THEN 1 ELSE q - t
  BY <1>1 DEF PlacedAt
<1> HIDE DEF p, q, t
<1>6. c.first \in Int /\ c.last \in Int
  BY <1>2, <1>4, <1>5
<1>7. i \in Int /\ q <= t + i /\ t + i < q + p /\ i >= 1 /\ i <= t - 1
  BY <1>2, <1>4, <1>5, <1>6
<1>8. i \in Leaf(d) /\ i # 0 /\ t + i \in Nat /\ t + i < 2 * t
  BY <1>2, <1>7 DEF Leaf, t
<1>9. Spans(c.node, p, t + i)
  BY <1>4, <1>7 DEF Spans, q
<1>10. Below(d, t + i, c.node)
  BY <1>9 DEF Below, p
<1> QED
  BY <1>2, <1>8, <1>10 DEF t

(* A call that goes on does so at a node of its own, and its parts are     *)
(* placed below the children.                                              *)
LEMMA PlacedChildren ==
  ASSUME NEW d \in Depths, NEW c, Placed(d, c), ~(c.last <= c.first), c.last # c.first + 1
  PROVE  /\ c.node \in Inner(d)
         /\ \A l : /\ l.first = c.first /\ l.last = c.split /\ l.split = c.split - c.dist
                   /\ l.dist = c.dist \div 2 /\ l.node = 2 * c.node
                   => Placed(d, l)
         /\ \A r : /\ r.first = c.split /\ r.last = c.last /\ r.split = c.split + c.dist
                   /\ r.dist = c.dist \div 2 /\ r.node = 2 * c.node + 1
                   => Placed(d, r)
<1>1. PICK k \in 0 .. d : PlacedAt(d, c, k)
  BY DEF Placed
<1> DEFINE p == 2^k
           t == 2^d
           h == 2^(d - 1)
           s == c.node * p - t
           n == c.node
           g == 2^(k - 1)
<1>2. p \in Nat /\ p >= 1 /\ t \in Nat /\ t >= 1 /\ h \in Nat /\ t = 2 * h /\ d \in Nat /\ k \in Nat
  BY PlacedPowers
<1>3. n \in Nat \ {0} /\ s \in 0 .. t - p /\ c.last = s + p /\ c.first = (IF s = 0 THEN 1 ELSE s)
      /\ (k # 0 => c.split = s + g /\ c.dist = g \div 2)
  BY <1>1 DEF PlacedAt
<1>4. k # 0
  <2>1. SUFFICES ASSUME k = 0 PROVE FALSE
    OBVIOUS
  <2>2. p = 1
    BY <2>1, PowersSound
  <2> HIDE DEF p, t, s
  <2> QED
    BY <1>2, <1>3, <2>2
<1>5. g \in Nat /\ g >= 1 /\ p = 2 * g /\ k - 1 \in 0 .. d
  BY <1>4, PlacedPowers
<1>6. n * p = s + t /\ n * p = 2 * (n * g) /\ n * g \in Nat /\ n * p \in Nat
  <2>1. n * p \in Nat
    <3> HIDE DEF p
    <3> QED
      BY <1>2, <1>3
  <2>2. n * p = n * (2 * g)
    BY <1>5
  <2>3. n * (2 * g) = 2 * (n * g) /\ n * g \in Nat
    <3> HIDE DEF g, n
    <3> QED
      BY <1>3, <1>5
  <2> QED
    BY <1>2, <2>1, <2>2, <2>3
<1>7. s = 0 => g >= 2
  <2>1. SUFFICES ASSUME s = 0, g = 1 PROVE FALSE
    BY <1>5
  <2> HIDE DEF p, t, s, g
  <2>2. c.first = 1 /\ c.last = 2
    BY <1>3, <1>5, <2>1
  <2> QED
    BY <2>2
<1>8. n \in Inner(d)
  <2> DEFINE w == n * g
  <2>1. n <= w
    <3>1. n * 1 <= n * g
      BY <1>3, <1>5, ProductOrder
    <3>2. n * 1 = n
      BY <1>3
    <3> DEFINE e == n * 1
    <3>3. e <= w /\ e = n
      BY <3>1, <3>2
    <3> HIDE DEF e, w
    <3> QED
      BY <3>3
  <2>2. 2 * w = s + t /\ w \in Nat /\ n \in Nat /\ n >= 1
    BY <1>3, <1>6
  <2>3. n # h
    <3>1. SUFFICES ASSUME n = h PROVE FALSE
      OBVIOUS
    <3>2. g = 1 \/ g >= 2
      BY <1>5
    <3>3. CASE g = 1
      <4>1. w = n
        BY <1>3, <3>3
      <4> HIDE DEF w, t, s, g, p, n, h
      <4>2. s = 0
        BY <1>2, <1>3, <2>2, <3>1, <4>1
      <4> QED
        BY <1>7, <3>3, <4>2
    <3>4. CASE g >= 2
      <4>1. h * 2 <= h * g
        BY <1>2, <1>5, <3>4, ProductOrder
      <4>2. h * g = w /\ h * 2 = t
        BY <1>2, <3>1
      <4> DEFINE e == h * 2
                 y == h * g
      <4>3. e <= y /\ e = t /\ y = w
        BY <4>1, <4>2
      <4> HIDE DEF w, t, s, g, p, n, h, e, y
      <4> QED
        BY <1>2, <1>3, <1>5, <2>2, <3>4, <4>3
    <3> QED
      BY <3>2, <3>3, <3>4
  <2> HIDE DEF w, t, s, g, p, n, h
  <2>4. n < t
    BY <1>2, <1>3, <1>5, <2>1, <2>2
  <2> QED
    BY <1>2, <2>2, <2>3, <2>4 DEF Inner, n, t, h
<1>9. (2 * n) * g - t = s /\ (2 * n + 1) * g - t = s + g /\ 2 * n \in Nat \ {0} /\ 2 * n + 1 \in Nat \ {0}
  <2>1. (2 * n) * g = 2 * (n * g) /\ (2 * n + 1) * g = 2 * (n * g) + g
    <3> HIDE DEF n, g
    <3> QED
      BY <1>3, <1>5
  <2> DEFINE w == n * g
             a == (2 * n) * g
             b == (2 * n + 1) * g
             e == n * p
  <2>2. a = 2 * w /\ b = 2 * w + g /\ e = s + t /\ e = 2 * w /\ w \in Nat
    BY <1>6, <2>1
  <2>3. a - t = s /\ b - t = s + g
    <3> HIDE DEF w, a, b, e, s, t, g
    <3> QED
      BY <1>2, <1>3, <1>5, <2>2
  <2>4. 2 * n \in Nat \ {0} /\ 2 * n + 1 \in Nat \ {0}
    <3> HIDE DEF n
    <3> QED
      BY <1>3
  <2> QED
    BY <2>3, <2>4
<1>10. k - 1 # 0 => g = 2 * 2^((k - 1) - 1) /\ 2^((k - 1) - 1) \in Nat
  BY <1>5, PlacedPowers
<1> DEFINE f == 2^((k - 1) - 1)
<1>11. c.split = s + g /\ c.dist = g \div 2 /\ (k - 1 # 0 => g \div 2 = f)
  <2>1. \A z \in Nat : (2 * z) \div 2 = z
    OBVIOUS
  <2>2. k - 1 # 0 => g \div 2 = f
    <3>1. k - 1 # 0 => g = 2 * f /\ f \in Nat
      BY <1>10
    <3> HIDE DEF g, f
    <3> QED
      BY <2>1, <3>1
  <2> QED
    BY <1>3, <1>4, <2>2
<1>12. s \in 0 .. t - g /\ s + g \in 0 .. t - g /\ s + g # 0 /\ c.last = (s + g) + g
  <2> HIDE DEF s, t, g, p
  <2> QED
    BY <1>2, <1>3, <1>5
<1>13. ASSUME NEW l, l.first = c.first, l.last = c.split, l.split = c.split - c.dist,
              l.dist = c.dist \div 2, l.node = 2 * c.node
       PROVE  Placed(d, l)
  <2>1. l.node * g - t = s
    BY <1>9, <1>13
  <2>2. l.last = s + g /\ l.first = (IF s = 0 THEN 1 ELSE s)
    BY <1>3, <1>11, <1>13
  <2>3. k - 1 # 0 => l.split = s + f /\ l.dist = f \div 2
    <3>1. SUFFICES ASSUME k - 1 # 0 PROVE l.split = s + f /\ l.dist = f \div 2
      OBVIOUS
    <3>2. l.split = (s + g) - f /\ l.dist = f \div 2 /\ g = 2 * f /\ f \in Nat
      BY <1>10, <1>11, <1>13, <3>1
    <3> HIDE DEF s, g, f, p, t
    <3> QED
      BY <1>2, <1>3, <3>2
  <2>4. l.node \in Nat \ {0}
    BY <1>9, <1>13
  <2> HIDE DEF s, p, n, h
  <2>5. PlacedAt(d, l, k - 1)
    BY <1>12, <2>1, <2>2, <2>3, <2>4 DEF PlacedAt, f, g, t
  <2> QED
    BY <1>5, <2>5 DEF Placed
<1>14. ASSUME NEW r, r.first = c.split, r.last = c.last, r.split = c.split + c.dist,
              r.dist = c.dist \div 2, r.node = 2 * c.node + 1
       PROVE  Placed(d, r)
  <2>1. r.node * g - t = s + g
    BY <1>9, <1>14
  <2>2. r.last = (s + g) + g /\ r.first = (IF s + g = 0 THEN 1 ELSE s + g)
    BY <1>11, <1>12, <1>14
  <2>3. k - 1 # 0 => r.split = (s + g) + f /\ r.dist = f \div 2
    BY <1>11, <1>14
  <2>4. r.node \in Nat \ {0}
    BY <1>9, <1>14
  <2> HIDE DEF s, p, n, h
  <2>5. PlacedAt(d, r, k - 1)
    BY <1>12, <2>1, <2>2, <2>3, <2>4 DEF PlacedAt, f, g, t
  <2> QED
    BY <1>5, <2>5 DEF Placed
<1> QED
  BY <1>8, <1>13, <1>14

(* new is pal with that node written.                                      *)
NodeSet(d, pal, new, node, com, split) ==
  \A x \in 1 .. 2^d - 1 :
    /\ Elt(new, x) = IF x = node THEN com - 1 ELSE Elt(pal, x)
    /\ Split(new, x) = IF x = node THEN split ELSE Split(pal, x)

(* A node that is written does not disturb another, though the arrays are  *)
(* one entry short.                                                        *)
LEMMA NodeWritten ==
  ASSUME NEW d \in Depths, NEW pal \in Palettes(d), NEW node \in 1 .. 2^d - 1,
         NEW com \in Component, NEW split \in 0 .. 255
  PROVE  NodeSet(d, pal, WithNode(pal, node, com, split), node, com, split)
<1> DEFINE new == WithNode(pal, node, com, split)
           t == 2^d
<1>1. t \in Nat
  <2>1. d \in 0 .. d + 1
    BY DepthIsNat
  <2> QED
    BY <2>1, PowersSound
<1>2. /\ new \in Palettes(d)
      /\ new.tree = [pal.tree EXCEPT ![EltAt(d, node)] = com - 1, ![SplitAt(d, node)] = split]
  <2>1. pal.bitDepth = d /\ pal = [bitDepth |-> pal.bitDepth, color |-> pal.color, tree |-> pal.tree, made |-> pal.made]
    BY DEF Palettes
  <2>2. new.tree = [pal.tree EXCEPT ![EltAt(d, node)] = com - 1, ![SplitAt(d, node)] = split]
    BY <2>1 DEF WithNode
  <2>3. new \in Palettes(d)
    BY WithNodeTypes
  <2> QED
    BY <2>2, <2>3
<1>3. new.bitDepth = d /\ pal.bitDepth = d /\ pal.tree \in [TreeBytes(d) -> 0 .. 255]
  BY <1>2 DEF Palettes
<1> HIDE DEF new, t
<1>4. ASSUME NEW x \in 1 .. t - 1, NEW y \in 1 .. t - 1
      PROVE  /\ EltAt(d, x) \in TreeBytes(d) /\ SplitAt(d, x) \in TreeBytes(d)
             /\ EltAt(d, x) # SplitAt(d, y) /\ SplitAt(d, x) # EltAt(d, y)
             /\ (EltAt(d, x) = EltAt(d, y) <=> x = y)
             /\ (SplitAt(d, x) = SplitAt(d, y) <=> x = y)
  <2>1. /\ x \in 0 .. 2 * (t - 1) + 1 /\ t - 1 + x \in 0 .. 2 * (t - 1) + 1
        /\ x # t - 1 + y /\ t - 1 + x # y
        /\ (t - 1 + x = t - 1 + y <=> x = y)
    BY <1>1
  <2> QED
    BY <2>1 DEF EltAt, SplitAt, TreeBytes, t
<1>5. node \in 1 .. t - 1
  BY DEF t
<1>6. ASSUME NEW x \in 1 .. t - 1
      PROVE  /\ Elt(new, x) = IF x = node THEN com - 1 ELSE Elt(pal, x)
             /\ Split(new, x) = IF x = node THEN split ELSE Split(pal, x)
  <2> DEFINE a == EltAt(d, x)
             b == SplitAt(d, x)
             e == EltAt(d, node)
             f == SplitAt(d, node)
  <2>1. /\ a \in TreeBytes(d) /\ b \in TreeBytes(d) /\ e \in TreeBytes(d) /\ f \in TreeBytes(d)
        /\ a # f /\ b # e /\ e # f /\ (a = e <=> x = node) /\ (b = f <=> x = node)
    BY <1>4, <1>5
  <2>2. new.tree = [pal.tree EXCEPT ![e] = com - 1, ![f] = split]
    BY <1>2
  <2>3. /\ Elt(new, x) = new.tree[a] /\ Split(new, x) = new.tree[b]
        /\ Elt(pal, x) = pal.tree[a] /\ Split(pal, x) = pal.tree[b]
    BY <1>3 DEF Elt, Split
  <2> HIDE DEF a, b, e, f
  <2>4. new.tree[a] = IF x = node THEN com - 1 ELSE pal.tree[a]
    BY <1>3, <2>1, <2>2
  <2>5. new.tree[b] = IF x = node THEN split ELSE pal.tree[b]
    BY <1>3, <2>1, <2>2
  <2> QED
    BY <2>3, <2>4, <2>5
<1> QED
  BY <1>6 DEF NodeSet, new, t

-----------------------------------------------------------------------------
(* What the calls build                                                    *)

(* The node sends a search for the colour of the entry to its side.        *)
Guides(d, pal, i, x) ==
  /\ Below(d, 2^d + i, 2 * x) =>
       Elt(pal, x) + 1 \in Component /\ pal.color[i][Elt(pal, x) + 1] <= Split(pal, x)
  /\ Below(d, 2^d + i, 2 * x + 1) =>
       Elt(pal, x) + 1 \in Component /\ pal.color[i][Elt(pal, x) + 1] >= Split(pal, x)

Sided(d, pal, i, y) == \A x \in Inner(d) : Below(d, x, y) => Guides(d, pal, i, x)

(* A call writes what is its own.                                          *)
Confined(d, c, pal) ==
  /\ \A i \in Leaf(d) : i \notin c.first .. c.last - 1 => pal.color[i] = c.pal.color[i]
  /\ \A x \in 1 .. 2^d - 1 : ~Below(d, x, c.node)
       => Elt(pal, x) = Elt(c.pal, x) /\ Split(pal, x) = Split(c.pal, x)
  /\ pal.made \subseteq c.pal.made \union c.first .. c.last - 1

(* With a pixel for each entry, every entry has a colour among theirs.     *)
AllEntries(d, c, pal) ==
  Len(c.pixels) >= c.last - c.first =>
    \A i \in c.first .. c.last - 1 :
      Between(pal.color[i], ColorsOf(c.pixels)) /\ Sided(d, pal, i, c.node)

(* With an entry for each pixel, every pixel has its colour.               *)
AllPixels(d, c, pal) ==
  Len(c.pixels) <= c.last - c.first =>
    \A q \in ColorsOf(c.pixels) : \E i \in c.first .. c.last - 1 :
      pal.color[i] = q /\ Sided(d, pal, i, c.node)

Built(d, c, pal) == Confined(d, c, pal) /\ AllEntries(d, c, pal) /\ AllPixels(d, c, pal)

(* Nothing to do.                                                          *)
LEMMA NothingBuilt ==
  ASSUME NEW d \in Depths, NEW c \in Calls(d), Nothing(c)
  PROVE  Built(d, c, c.pal)
<1> DEFINE n == Len(c.pixels)
<1>1. c.first \in Int /\ c.last \in Int /\ n \in Nat
  BY CallTypes
<1>2. c.last <= c.first \/ (c.pixels = <<>> /\ n = 0)
  BY DEF Nothing
<1> HIDE DEF n
<1>3. Confined(d, c, c.pal)
  BY DEF Confined
<1>4. AllEntries(d, c, c.pal)
  <2>1. n >= c.last - c.first => c.first .. c.last - 1 = {}
    BY <1>1, <1>2
  <2> QED
    BY <2>1 DEF AllEntries, n
<1>5. AllPixels(d, c, c.pal)
  <2>1. n <= c.last - c.first => 1 .. n = {}
    BY <1>1, <1>2
  <2>2. 1 .. n = {} => ColorsOf(c.pixels) = {}
    BY DEF ColorsOf, n
  <2> QED
    BY <2>1, <2>2 DEF AllPixels, n
<1> QED
  BY <1>3, <1>4, <1>5 DEF Built

(* The bottom of the tree: no node below is on the way to an entry.        *)
LEMMA BottomSided ==
  ASSUME NEW d \in Depths, NEW c, Placed(d, c), c.last = c.first + 1, NEW pal, NEW i
  PROVE  Sided(d, pal, i, c.node)
<1>1. PICK k \in 0 .. d : PlacedAt(d, c, k)
  BY DEF Placed
<1> DEFINE p == 2^k
           t == 2^d
           h == 2^(d - 1)
           n == c.node
           s == n * p - t
<1>2. p \in Nat /\ p >= 1 /\ t \in Nat /\ t >= 1 /\ h \in Nat /\ t = 2 * h /\ 2^(d + 1) = 2 * t /\ k \in Nat
  BY PlacedPowers
<1>3. n \in Nat \ {0} /\ s \in 0 .. t - p /\ c.last = s + p /\ c.first = (IF s = 0 THEN 1 ELSE s)
  BY <1>1 DEF PlacedAt
<1>4. p = 1 \/ (p = 2 /\ s = 0)
  <2> HIDE DEF p, t, s
  <2> QED
    BY <1>2, <1>3
<1>5. n >= t \/ n = h
  <2>1. CASE p = 1
    <3>1. n * p = n
      BY <1>3, <2>1
    <3>2. n - t >= 0
      BY <1>2, <1>3, <3>1
    <3> HIDE DEF t
    <3> QED
      BY <1>2, <1>3, <3>2
  <2>2. CASE p = 2 /\ s = 0
    <3>1. n * p = 2 * n
      BY <1>3, <2>2
    <3>2. 2 * n - t = 0
      BY <2>2, <3>1
    <3> HIDE DEF t, h, p
    <3> QED
      BY <1>2, <1>3, <3>2
  <2> QED
    BY <1>4, <2>1, <2>2
<1> HIDE DEF s, p
<1>6. ASSUME NEW x \in Inner(d), Below(d, x, n) PROVE FALSE
  <2>1. x \in 1 .. t - 1 /\ x # h
    BY DEF Inner
  <2> HIDE DEF t, h, n
  <2>2. x \in Nat /\ x < t /\ x < 2 * t
    BY <1>2, <2>1
  <2>3. CASE n >= t
    <3>1. x = n
      BY <1>2, <1>3, <1>6, <2>2, <2>3, BelowLeaf DEF t
    <3> QED
      BY <1>2, <1>3, <2>2, <2>3, <3>1
  <2>4. CASE n = h
    <3>1. x = n \/ Below(d, x, 2 * n) \/ Below(d, x, 2 * n + 1)
      BY <1>2, <1>3, <1>6, <2>2, BelowSound DEF t
    <3>2. ASSUME NEW y \in {2 * n, 2 * n + 1}, Below(d, x, y) PROVE FALSE
      <4>1. y \in Nat /\ y >= t
        BY <1>2, <1>3, <2>4
      <4>2. x = y
        BY <1>2, <2>2, <3>2, <4>1, BelowLeaf DEF t
      <4> QED
        BY <1>2, <2>2, <4>1, <4>2
    <3> QED
      BY <2>1, <2>4, <3>1, <3>2
  <2> QED
    BY <1>5, <2>3, <2>4
<1> QED
  BY <1>6 DEF Sided

(* One entry: the average of its pixels.                                   *)
LEMMA OneEntryBuilt ==
  ASSUME NEW d \in Depths, NEW c \in Calls(d), Placed(d, c), ~Nothing(c), OneEntry(c),
         NEW pal, pal \in Palettes(d), pal.tree = c.pal.tree, pal.made = c.pal.made \union {c.first},
         pal.color = [c.pal.color EXCEPT ![c.first] = Average(c.pixels)]
  PROVE  Built(d, c, pal)
<1> DEFINE n == Len(c.pixels)
           a == Average(c.pixels)
<1>1. c.first \in Int /\ c.last \in Int /\ n \in Nat /\ c.pixels \in Seq(Rgb) /\ c.pal \in Palettes(d)
  BY CallTypes
<1>2. c.last = c.first + 1 /\ c.pixels # <<>>
  BY DEF Nothing, OneEntry
<1>3. c.first .. c.last - 1 = {c.first} /\ c.last - c.first = 1 /\ n # 0
  BY <1>1, <1>2
<1>4. a \in Rgb /\ Between(a, ColorsOf(c.pixels))
  BY <1>1, <1>2, AverageSound
<1>5. c.first \in Leaf(d)
  BY <1>3, PlacedEntries
<1> HIDE DEF n, a
<1>6. c.pal.color \in [Leaf(d) -> Rgb] /\ pal.bitDepth = d /\ c.pal.bitDepth = d
  BY <1>1 DEF Palettes
<1>7. pal.color[c.first] = a /\ \A i \in Leaf(d) : i # c.first => pal.color[i] = c.pal.color[i]
  BY <1>4, <1>5, <1>6 DEF a
<1>8. Confined(d, c, pal)
  <2>1. \A x \in 1 .. 2^d - 1 : Elt(pal, x) = Elt(c.pal, x) /\ Split(pal, x) = Split(c.pal, x)
    BY <1>6 DEF Elt, Split
  <2> QED
    BY <1>3, <1>7, <2>1 DEF Confined
<1>9. Sided(d, pal, c.first, c.node)
  BY <1>2, BottomSided
<1>10. AllEntries(d, c, pal)
  BY <1>3, <1>4, <1>7, <1>9 DEF AllEntries
<1>11. AllPixels(d, c, pal)
  <2>1. SUFFICES ASSUME n <= 1, NEW q \in ColorsOf(c.pixels) PROVE pal.color[c.first] = q
    BY <1>3, <1>9 DEF AllPixels, n
  <2>2. n = 1
    BY <1>1, <1>3, <2>1
  <2>3. a = c.pixels[1]
    BY <1>1, <2>2, AverageExact DEF n, a
  <2>4. q = c.pixels[1]
    <3>1. PICK i \in 1 .. n : q = c.pixels[i]
      BY <2>1 DEF ColorsOf, n
    <3> QED
      BY <2>2, <3>1
  <2> QED
    BY <1>7, <2>3, <2>4
<1> QED
  BY <1>8, <1>10, <1>11 DEF Built

(* An entry of the first part keeps to its side of the nodes above, when   *)
(* the second part is built.                                               *)
LEMMA SidedAbove ==
  ASSUME NEW d \in Depths, NEW n \in Inner(d), NEW y \in {2 * n, 2 * n + 1}, NEW z \in {2 * n, 2 * n + 1},
         y # z, NEW p, NEW q, NEW i \in Nat, 2^d + i < 2^(d + 1), Below(d, 2^d + i, y), Sided(d, p, i, y),
         q.color[i] = p.color[i], Guides(d, q, i, n),
         \A x \in 1 .. 2^d - 1 : Below(d, x, y) => Elt(q, x) = Elt(p, x) /\ Split(q, x) = Split(p, x)
  PROVE  Sided(d, q, i, n)
<1> DEFINE t == 2^d
           b == t + i
<1>1. t \in Nat /\ t >= 1 /\ 2^(d + 1) = 2 * t
  <2>1. d \in 0 .. d
    BY DepthIsNat
  <2> QED
    BY <2>1, PlacedPowers
<1>2. n \in Nat \ {0} /\ y \in Nat \ {0} /\ z \in Nat \ {0} /\ b \in Nat /\ b < 2^(d + 1)
  BY <1>1 DEF Inner
<1>3. SUFFICES ASSUME NEW x \in Inner(d), Below(d, x, n) PROVE Guides(d, q, i, x)
  BY DEF Sided
<1>4. x \in Nat \ {0} /\ x \in 1 .. t - 1 /\ x < 2^(d + 1)
  BY <1>1 DEF Inner
<1> HIDE DEF t, b
<1>5. x = n \/ Below(d, x, y) \/ Below(d, x, z)
  <2>1. x = n \/ Below(d, x, 2 * n) \/ Below(d, x, 2 * n + 1)
    BY <1>2, <1>3, <1>4, BelowSound
  <2>2. (2 * n = y \/ 2 * n = z) /\ (2 * n + 1 = y \/ 2 * n + 1 = z)
    BY <1>2
  <2> QED
    BY <2>1, <2>2
<1>6. CASE x = n
  BY <1>6
<1>7. CASE Below(d, x, y)
  <2>1. Guides(d, p, i, x)
    BY <1>7 DEF Sided
  <2>2. Elt(q, x) = Elt(p, x) /\ Split(q, x) = Split(p, x)
    BY <1>4, <1>7 DEF t
  <2> QED
    BY <2>1, <2>2 DEF Guides
<1>8. CASE Below(d, x, z)
  <2>1. ASSUME NEW w \in {2 * x, 2 * x + 1} PROVE ~Below(d, b, w)
    <3>1. SUFFICES ASSUME Below(d, b, w) PROVE FALSE
      OBVIOUS
    <3>2. Below(d, b, x)
      <4>1. Below(d, b, 2 * x) \/ Below(d, b, 2 * x + 1)
        BY <3>1
      <4> QED
        BY <1>2, <1>4, <4>1, BelowSound
    <3>3. Below(d, b, z)
      BY <1>2, <1>4, <1>8, <3>2, BelowTransitive
    <3>4. Below(d, b, y)
      BY DEF b, t
    <3>5. Below(d, b, 2 * n) /\ Below(d, b, 2 * n + 1)
      BY <3>3, <3>4
    <3> QED
      BY <1>2, <3>5, BelowApart
  <2> QED
    BY <2>1 DEF Guides, b, t
<1> QED
  BY <1>5, <1>6, <1>7, <1>8

(* A colour between those of a part is on its side of the split.           *)
LEMMA BetweenBound ==
  ASSUME NEW s \in Seq(Rgb), NEW P, NEW com \in Component, NEW value \in Int, NEW c \in Rgb, Between(c, P),
         \A a \in P : a \in ColorsOf(s)
  PROVE  /\ Between(c, ColorsOf(s))
         /\ (\A a \in P : a[com] <= value) => c[com] <= value
         /\ (\A a \in P : a[com] >= value) => c[com] >= value
<1>1. \A a \in P : a \in Rgb
  <2>1. \A i \in 1 .. Len(s) : s[i] \in Rgb
    OBVIOUS
  <2> QED
    BY <2>1 DEF ColorsOf
<1>2. Between(c, ColorsOf(s))
  BY DEF Between
<1>3. PICK a \in P, b \in P : a[com] <= c[com] /\ c[com] <= b[com]
  BY DEF Between
<1>4. a[com] \in Int /\ b[com] \in Int /\ c[com] \in Int
  BY <1>1, RgbComponents
<1>5. (\A e \in P : e[com] <= value) => c[com] <= value
  <2>1. SUFFICES ASSUME b[com] <= value PROVE c[com] <= value
    OBVIOUS
  <2> QED
    BY <1>3, <1>4, <2>1
<1>6. (\A e \in P : e[com] >= value) => c[com] >= value
  <2>1. SUFFICES ASSUME a[com] >= value PROVE c[com] >= value
    OBVIOUS
  <2> QED
    BY <1>3, <1>4, <2>1
<1> QED
  BY <1>2, <1>5, <1>6

(* The pixels of the parts.                                                *)
LEMMA ChildPixels ==
  ASSUME NEW d \in Depths, NEW c \in Calls(d), ~Nothing(c), ~OneEntry(c), NEW p
  PROVE  /\ Len(LeftCall(c).pixels) = Cut(c) /\ Len(RightCall(c, p).pixels) = Len(c.pixels) - Cut(c)
         /\ \A a \in ColorsOf(LeftCall(c).pixels) : a \in ColorsOf(c.pixels)
         /\ \A a \in ColorsOf(LeftCall(c).pixels) : a[Com(c)] <= SplitOf(c)
         /\ \A a \in ColorsOf(RightCall(c, p).pixels) : a \in ColorsOf(c.pixels)
         /\ \A a \in ColorsOf(RightCall(c, p).pixels) : a[Com(c)] >= SplitOf(c)
         /\ \A a \in ColorsOf(c.pixels) :
              a \in ColorsOf(LeftCall(c).pixels) \/ a \in ColorsOf(RightCall(c, p).pixels)
<1> DEFINE left == SubSeq(Sorted(c), 1, Cut(c))
           right == SubSeq(Sorted(c), Cut(c) + 1, Len(Sorted(c)))
<1>1. c.pixels \in Seq(Rgb) /\ Com(c) \in Component /\ Cut(c) \in 0 .. Len(c.pixels) - 1
  BY CallTypes, ChildCalls
<1>2. /\ Len(left) = Cut(c) /\ Len(right) = Len(c.pixels) - Cut(c)
      /\ \A a \in ColorsOf(left) : a \in ColorsOf(c.pixels) /\ a[Com(c)] <= SplitOf(c)
      /\ \A a \in ColorsOf(right) : a \in ColorsOf(c.pixels) /\ a[Com(c)] >= SplitOf(c)
      /\ \A a \in ColorsOf(c.pixels) : a \in ColorsOf(left) \/ a \in ColorsOf(right)
  BY <1>1, PartsSound DEF Sorted, SplitOf
<1>3. LeftCall(c).pixels = left /\ RightCall(c, p).pixels = right
  BY DEF LeftCall, RightCall
<1> HIDE DEF left, right
<1> QED
  BY <1>2, <1>3

(* Both parts.                                                             *)
LEMMA ChildrenBuilt ==
  ASSUME NEW d \in Depths, NEW c \in Calls(d), Placed(d, c), ~Nothing(c), ~OneEntry(c),
         NEW p \in Palettes(d), NEW q \in Palettes(d),
         Built(d, LeftCall(c), p), Built(d, RightCall(c, p), q)
  PROVE  Built(d, c, q)
<1> DEFINE l == LeftCall(c)
           r == RightCall(c, p)
           s == c.pixels
           m == Cut(c)
           n == c.node
           com == Com(c)
           value == SplitOf(c)
           first == c.first
           split == c.split
           last == c.last
           t == 2^d
           here == WithNode(c.pal, n, com, value)
<1>1. /\ s \in Seq(Rgb) /\ Len(s) \in Nat \ {0} /\ com \in Component /\ m \in 0 .. Len(s) - 1
      /\ first < split /\ split < last /\ first \in Int /\ last \in Int /\ split \in Int
      /\ value \in 0 .. 255 /\ c.pal \in Palettes(d)
  BY CallTypes, ChildCalls
<1>2. /\ l.pal = here /\ l.pixels = SubSeq(Sorted(c), 1, m) /\ l.first = first /\ l.last = split
      /\ l.split = split - c.dist /\ l.dist = c.dist \div 2 /\ l.node = 2 * n
  BY DEF LeftCall
<1>3. /\ r.pal = p /\ r.pixels = SubSeq(Sorted(c), m + 1, Len(Sorted(c))) /\ r.first = split /\ r.last = last
      /\ r.split = split + c.dist /\ r.dist = c.dist \div 2 /\ r.node = 2 * n + 1
  BY DEF RightCall
<1>4. n \in Inner(d) /\ Placed(d, l) /\ Placed(d, r)
  <2>1. ~(c.last <= c.first) /\ c.last # c.first + 1
    BY DEF Nothing, OneEntry
  <2> HIDE DEF l, r
  <2> QED
    BY <1>2, <1>3, <2>1, PlacedChildren
<1>5. /\ Len(l.pixels) = m /\ Len(r.pixels) = Len(s) - m /\ value \in Int
      /\ \A a \in ColorsOf(l.pixels) : a \in ColorsOf(s)
      /\ \A a \in ColorsOf(l.pixels) : a[com] <= value
      /\ \A a \in ColorsOf(r.pixels) : a \in ColorsOf(s)
      /\ \A a \in ColorsOf(r.pixels) : a[com] >= value
      /\ \A a \in ColorsOf(s) : a \in ColorsOf(l.pixels) \/ a \in ColorsOf(r.pixels)
  <2> HIDE DEF value
  <2>1. value \in Int
    BY <1>1
  <2> QED
    BY <2>1, ChildPixels DEF value
<1>6. /\ Len(s) >= last - first => m >= split - first /\ Len(s) - m >= last - split
      /\ Len(s) <= last - first => m <= split - first /\ Len(s) - m <= last - split
  BY <1>1, SubPixelsSound DEF Cut
<1>7. /\ t \in Nat /\ t >= 1 /\ 2^(d + 1) = 2 * t
      /\ n \in Nat \ {0} /\ n \in 1 .. t - 1 /\ \A x \in 1 .. t - 1 : x \in Nat /\ x < 2^(d + 1)
  <2>1. t \in Nat /\ t >= 1 /\ 2^(d + 1) = 2 * t
    <3>1. d \in 0 .. d
      BY DepthIsNat
    <3> QED
      BY <3>1, PlacedPowers
  <2> QED
    BY <1>4, <2>1 DEF Inner
<1>8. Confined(d, l, p) /\ AllEntries(d, l, p) /\ AllPixels(d, l, p)
  BY DEF Built
<1>9. Confined(d, r, q) /\ AllEntries(d, r, q) /\ AllPixels(d, r, q)
  BY DEF Built
<1> HIDE DEF l, r, s, m, n, com, value, first, split, last
<1>10. /\ \A i \in Leaf(d) : i \notin first .. split - 1 => p.color[i] = c.pal.color[i]
       /\ \A x \in 1 .. t - 1 : ~Below(d, x, 2 * n) => Elt(p, x) = Elt(here, x) /\ Split(p, x) = Split(here, x)
       /\ p.made \subseteq c.pal.made \union first .. split - 1
  <2>1. here.color = c.pal.color /\ here.made = c.pal.made
    <3>1. c.pal = [bitDepth |-> c.pal.bitDepth, color |-> c.pal.color, tree |-> c.pal.tree, made |-> c.pal.made]
      BY <1>1 DEF Palettes
    <3> QED
      BY <3>1 DEF here, WithNode
  <2> HIDE DEF here
  <2> QED
    BY <1>2, <1>8, <2>1 DEF Confined, t
<1>11. /\ \A i \in Leaf(d) : i \notin split .. last - 1 => q.color[i] = p.color[i]
       /\ \A x \in 1 .. t - 1 : ~Below(d, x, 2 * n + 1) => Elt(q, x) = Elt(p, x) /\ Split(q, x) = Split(p, x)
       /\ q.made \subseteq p.made \union split .. last - 1
  BY <1>3, <1>9 DEF Confined, t
<1>12. \A x \in 1 .. t - 1 :
         /\ Elt(here, x) = IF x = n THEN com - 1 ELSE Elt(c.pal, x)
         /\ Split(here, x) = IF x = n THEN value ELSE Split(c.pal, x)
  <2>1. n \in 1 .. 2^d - 1
    BY <1>7 DEF t
  <2>2. NodeSet(d, c.pal, here, n, com, value)
    BY <1>1, <2>1, NodeWritten DEF here
  <2> HIDE DEF here
  <2> QED
    BY <2>2 DEF NodeSet, t
<1> HIDE DEF t, here
<1>13. /\ \A x \in 1 .. t - 1 : ~(Below(d, x, 2 * n) /\ Below(d, x, 2 * n + 1))
       /\ \A x \in 1 .. t - 1 : ~Below(d, x, n) => x # n /\ ~Below(d, x, 2 * n) /\ ~Below(d, x, 2 * n + 1)
       /\ ~Below(d, n, 2 * n) /\ ~Below(d, n, 2 * n + 1)
  <2>1. \A x \in 1 .. t - 1 : ~(Below(d, x, 2 * n) /\ Below(d, x, 2 * n + 1))
    BY <1>7, BelowApart
  <2>2. \A x \in 1 .. t - 1 : ~Below(d, x, n) => x # n /\ ~Below(d, x, 2 * n) /\ ~Below(d, x, 2 * n + 1)
    BY <1>7, BelowSound
  <2>3. ASSUME NEW y \in {2 * n, 2 * n + 1} PROVE ~Below(d, n, y)
    <3>1. y \in Nat \ {0} /\ ~(y <= n)
      BY <1>7
    <3> QED
      BY <1>7, <3>1, BelowSound
  <2> QED
    BY <2>1, <2>2, <2>3
<1>14. Elt(q, n) = com - 1 /\ Split(q, n) = value /\ (com - 1) + 1 = com
  <2>1. (com - 1) + 1 = com
    BY <1>1 DEF Component
  <2> QED
    BY <1>7, <1>10, <1>11, <1>12, <1>13, <2>1
<1>15. Confined(d, c, q)
  <2>1. ASSUME NEW i \in Leaf(d), i \notin first .. last - 1
        PROVE  q.color[i] = c.pal.color[i]
    <3>1. i \notin first .. split - 1 /\ i \notin split .. last - 1
      BY <1>1, <2>1
    <3> QED
      BY <1>10, <1>11, <3>1
  <2>2. ASSUME NEW x \in 1 .. t - 1, ~Below(d, x, n)
        PROVE  Elt(q, x) = Elt(c.pal, x) /\ Split(q, x) = Split(c.pal, x)
    <3>1. x # n /\ ~Below(d, x, 2 * n) /\ ~Below(d, x, 2 * n + 1)
      BY <1>13, <2>2
    <3> QED
      BY <1>10, <1>11, <1>12, <3>1
  <2>3. q.made \subseteq c.pal.made \union first .. last - 1
    <3>1. \A i : i \in first .. split - 1 \/ i \in split .. last - 1 => i \in first .. last - 1
      BY <1>1
    <3> QED
      BY <1>10, <1>11, <3>1
  <2> QED
    BY <2>1, <2>2, <2>3 DEF Confined, first, last, t, n
<1>16. \A i \in Leaf(d) : p.color[i] \in Rgb /\ q.color[i] \in Rgb
  BY DEF Palettes
<1>17. ASSUME NEW i \in first .. split - 1, Sided(d, p, i, 2 * n), p.color[i][com] <= value
       PROVE  q.color[i] = p.color[i] /\ Sided(d, q, i, n)
  <2>1. i \in Leaf(d) /\ i # 0 /\ 2^d + i < 2^(d + 1) /\ Below(d, 2^d + i, 2 * n)
    BY <1>2, <1>4, PlacedEntries
  <2>2. i \in Nat /\ 2^d + i \in Nat
    BY <1>7, <2>1 DEF Leaf, t
  <2>3. q.color[i] = p.color[i]
    <3>1. i \notin split .. last - 1
      BY <1>1
    <3> QED
      BY <1>11, <2>1, <3>1
  <2>4. Guides(d, q, i, n)
    <3>1. ~Below(d, 2^d + i, 2 * n + 1)
      BY <1>7, <2>1, <2>2, BelowApart
    <3> QED
      BY <1>1, <1>14, <1>17, <2>3, <3>1 DEF Guides
  <2>5. \A x \in 1 .. 2^d - 1 : Below(d, x, 2 * n) => Elt(q, x) = Elt(p, x) /\ Split(q, x) = Split(p, x)
    BY <1>11, <1>13 DEF t
  <2>6. 2 * n # 2 * n + 1
    BY <1>7
  <2>7. Sided(d, q, i, n)
    BY <1>4, <1>17, <2>1, <2>2, <2>3, <2>4, <2>5, <2>6, SidedAbove
  <2> QED
    BY <2>3, <2>7
<1>18. ASSUME NEW i \in split .. last - 1, Sided(d, q, i, 2 * n + 1), q.color[i][com] >= value
       PROVE  Sided(d, q, i, n)
  <2>1. i \in Leaf(d) /\ i # 0 /\ 2^d + i < 2^(d + 1) /\ Below(d, 2^d + i, 2 * n + 1)
    BY <1>3, <1>4, PlacedEntries
  <2>2. i \in Nat /\ 2^d + i \in Nat
    BY <1>7, <2>1 DEF Leaf, t
  <2>3. Guides(d, q, i, n)
    <3>1. ~Below(d, 2^d + i, 2 * n)
      BY <1>7, <2>1, <2>2, BelowApart
    <3> QED
      BY <1>1, <1>14, <1>18, <3>1 DEF Guides
  <2>4. 2 * n # 2 * n + 1
    BY <1>7
  <2> QED
    BY <1>4, <1>18, <2>1, <2>2, <2>3, <2>4, SidedAbove
<1>19. AllEntries(d, c, q)
  <2>1. SUFFICES ASSUME Len(s) >= last - first, NEW i \in first .. last - 1
                 PROVE  Between(q.color[i], ColorsOf(s)) /\ Sided(d, q, i, n)
    BY DEF AllEntries, s, last, first, n
  <2>2. i \in first .. split - 1 \/ i \in split .. last - 1
    BY <1>1
  <2>3. CASE i \in first .. split - 1
    <3>1. Between(p.color[i], ColorsOf(l.pixels)) /\ Sided(d, p, i, 2 * n)
      BY <1>2, <1>5, <1>6, <1>8, <2>1, <2>3 DEF AllEntries
    <3>2. i \in Leaf(d)
      BY <1>2, <1>4, <2>3, PlacedEntries
    <3>3. Between(p.color[i], ColorsOf(s)) /\ p.color[i][com] <= value
      BY <1>1, <1>5, <1>16, <3>1, <3>2, BetweenBound
    <3> QED
      BY <1>17, <2>3, <3>1, <3>3
  <2>4. CASE i \in split .. last - 1
    <3>1. Between(q.color[i], ColorsOf(r.pixels)) /\ Sided(d, q, i, 2 * n + 1)
      BY <1>3, <1>5, <1>6, <1>9, <2>1, <2>4 DEF AllEntries
    <3>2. i \in Leaf(d)
      BY <1>3, <1>4, <2>4, PlacedEntries
    <3>3. Between(q.color[i], ColorsOf(s)) /\ q.color[i][com] >= value
      <4> DEFINE P == ColorsOf(r.pixels)
                 e == q.color[i]
      <4>1. /\ (\A a \in P : a \in ColorsOf(s)) /\ (\A a \in P : a[com] >= value)
            /\ Between(e, P) /\ e \in Rgb /\ value \in Int
        BY <1>5, <1>16, <3>1, <3>2
      <4> HIDE DEF P, e
      <4>2. /\ Between(e, ColorsOf(s))
            /\ (\A a \in P : a[com] >= value) => e[com] >= value
        BY <1>1, <4>1, BetweenBound
      <4> QED
        BY <4>1, <4>2 DEF e
    <3> QED
      BY <1>18, <2>4, <3>1, <3>3
  <2> QED
    BY <2>2, <2>3, <2>4
<1>20. AllPixels(d, c, q)
  <2>1. SUFFICES ASSUME Len(s) <= last - first, NEW a \in ColorsOf(s)
                 PROVE  \E i \in first .. last - 1 : q.color[i] = a /\ Sided(d, q, i, n)
    BY DEF AllPixels, s, last, first, n
  <2>2. CASE a \in ColorsOf(l.pixels)
    <3>1. PICK i \in first .. split - 1 : p.color[i] = a /\ Sided(d, p, i, 2 * n)
      BY <1>2, <1>5, <1>6, <1>8, <2>1, <2>2 DEF AllPixels
    <3>2. a[com] <= value
      BY <1>5, <2>2
    <3>3. q.color[i] = a /\ Sided(d, q, i, n)
      BY <1>17, <3>1, <3>2
    <3>4. i \in first .. last - 1
      BY <1>1
    <3> QED
      BY <3>3, <3>4
  <2>3. CASE a \in ColorsOf(r.pixels)
    <3>1. PICK i \in split .. last - 1 : q.color[i] = a /\ Sided(d, q, i, 2 * n + 1)
      BY <1>3, <1>5, <1>6, <1>9, <2>1, <2>3 DEF AllPixels
    <3>2. a[com] >= value
      BY <1>5, <2>3
    <3>3. Sided(d, q, i, n)
      BY <1>18, <3>1, <3>2
    <3>4. i \in first .. last - 1
      BY <1>1
    <3> QED
      BY <3>1, <3>3, <3>4
  <2> QED
    BY <1>5, <2>1, <2>2, <2>3
<1> QED
  BY <1>15, <1>19, <1>20 DEF Built

(* Every call of the tree builds its part.                                 *)
LEMMA TreeBuilt ==
  ASSUME NEW d \in Depths, NEW c \in Calls(d), Placed(d, c)
  PROVE  Trees(d)[c] \in Palettes(d) /\ Built(d, c, Trees(d)[c])
<1> DEFINE D == Calls(d)
           T == Trees(d)
           rank == [x \in D |-> Width(x)]
           Good == {x \in D : T[x] \in Palettes(d) /\ (Placed(d, x) => Built(d, x, T[x]))}
<1>1. T = [x \in D |-> TreeTurn(T, x)]
  <2>1. Palettes(d) # {}
    BY CallTypes
  <2> QED
    BY <2>1, TreeSolved
<1>2. rank \in [D -> Nat]
  <2>1. 2^d \in Nat
    <3>1. d \in 0 .. d + 1
      BY DepthIsNat
    <3> QED
      BY <3>1, PowersSound
  <2>2. ASSUME NEW x \in D PROVE Width(x) \in Nat
    <3>1. x.first \in Int /\ x.last \in Int
      BY CallTypes
    <3> QED
      BY <3>1 DEF Width
  <2> HIDE DEF D
  <2> QED
    BY <2>2
<1> HIDE DEF T
<1>3. ASSUME NEW x \in D, \A y \in D : rank[y] < rank[x] => y \in Good
      PROVE  x \in Good
  <2>1. T[x] = TreeTurn(T, x)
    BY <1>1
  <2>2. CASE Nothing(x)
    <3>1. T[x] = x.pal
      BY <2>1, <2>2 DEF TreeTurn
    <3>2. x.pal \in Palettes(d)
      BY CallTypes
    <3> QED
      BY <2>2, <3>1, <3>2, NothingBuilt
  <2>3. CASE ~Nothing(x) /\ OneEntry(x)
    <3>1. /\ x.first \in 0 .. 2^d /\ x.last \in 0 .. 2^d /\ x.last = x.first + 1 /\ x.pal \in Palettes(d)
          /\ x.pixels \in Seq(Rgb) /\ x.pixels # <<>>
      BY <2>3, CallTypes DEF OneEntry, Nothing
    <3>2. x.first \in Leaf(d)
      <4>1. d \in 0 .. d + 1
        BY DepthIsNat
      <4> QED
        BY <3>1, <4>1, PowersSound DEF Leaf
    <3>3. Average(x.pixels) \in Rgb
      BY <3>1, AverageSound
    <3>4. T[x] = [x.pal EXCEPT !.color[x.first] = Average(x.pixels), !.made = @ \union {x.first}]
      BY <2>1, <2>3 DEF TreeTurn
    <3>5. /\ T[x] \in Palettes(d)
          /\ T[x].color = [x.pal.color EXCEPT ![x.first] = Average(x.pixels)]
          /\ T[x].tree = x.pal.tree
          /\ T[x].made = x.pal.made \union {x.first}
      <4> DEFINE a == Average(x.pixels)
                 e == x.pal
                 i == x.first
      <4>1. e \in Palettes(d) /\ i \in Leaf(d) /\ a \in Rgb
        BY <3>1, <3>2, <3>3
      <4>2. T[x] = [e EXCEPT !.color[i] = a, !.made = @ \union {i}]
        BY <3>4
      <4> HIDE DEF a, e, i
      <4>3. /\ T[x] \in Palettes(d) /\ T[x].color = [e.color EXCEPT ![i] = a]
            /\ T[x].tree = e.tree /\ T[x].made = e.made \union {i}
        <5>1. e = [bitDepth |-> e.bitDepth, color |-> e.color, tree |-> e.tree, made |-> e.made]
          BY <4>1 DEF Palettes
        <5>2. T[x] = [bitDepth |-> e.bitDepth, color |-> [e.color EXCEPT ![i] = a], tree |-> e.tree,
                      made |-> e.made \union {i}]
          BY <4>2, <5>1
        <5> QED
          BY <4>1, <5>2 DEF Palettes
      <4> QED
        BY <4>3 DEF a, e, i
    <3>6. Placed(d, x) => Built(d, x, T[x])
      BY <2>3, <3>5, OneEntryBuilt
    <3> QED
      BY <3>5, <3>6
  <2>4. CASE ~Nothing(x) /\ ~OneEntry(x)
    <3> DEFINE l == LeftCall(x)
               p == T[l]
               r == RightCall(x, p)
               q == T[r]
    <3>1. l \in D /\ \A pal \in Palettes(d) : RightCall(x, pal) \in D
      BY <2>4, ChildCalls
    <3>2. Width(l) < Width(x) /\ Width(r) < Width(x)
      BY <2>4, ChildWidths
    <3>3. Placed(d, x) => Placed(d, l) /\ Placed(d, r)
      <4>1. /\ l.first = x.first /\ l.last = x.split /\ l.split = x.split - x.dist
            /\ l.dist = x.dist \div 2 /\ l.node = 2 * x.node
        BY DEF LeftCall
      <4>2. /\ r.first = x.split /\ r.last = x.last /\ r.split = x.split + x.dist
            /\ r.dist = x.dist \div 2 /\ r.node = 2 * x.node + 1
        BY DEF RightCall
      <4>3. ~(x.last <= x.first) /\ x.last # x.first + 1
        BY <2>4 DEF Nothing, OneEntry
      <4> HIDE DEF l, p, r
      <4> QED
        BY <4>1, <4>2, <4>3, PlacedChildren
    <3>4. l \in Good
      <4>1. rank[l] < rank[x]
        BY <3>1, <3>2
      <4> HIDE DEF D, l, rank, Good
      <4> QED
        BY <1>3, <3>1, <4>1
    <3>5. p \in Palettes(d) /\ (Placed(d, l) => Built(d, l, p))
      BY <3>4
    <3>6. r \in D
      <4> HIDE DEF D, p
      <4> QED
        BY <3>1, <3>5
    <3>7. r \in Good
      <4>1. rank[r] < rank[x]
        BY <3>2, <3>6
      <4> HIDE DEF D, r, rank, Good
      <4> QED
        BY <1>3, <3>6, <4>1
    <3>8. q \in Palettes(d) /\ (Placed(d, r) => Built(d, r, q))
      BY <3>7
    <3>9. T[x] = q
      BY <2>1, <2>4 DEF TreeTurn
    <3>10. Placed(d, x) => Built(d, x, q)
      <4> HIDE DEF q, p, D
      <4>1. x \in Calls(d)
        BY DEF D
      <4>2. Placed(d, x) => Built(d, LeftCall(x), p) /\ Built(d, RightCall(x, p), q)
        BY <3>3, <3>5, <3>8
      <4> QED
        BY <2>4, <3>5, <3>8, <4>1, <4>2, ChildrenBuilt
    <3> HIDE DEF q
    <3> QED
      BY <3>8, <3>9, <3>10
  <2> QED
    BY <2>2, <2>3, <2>4
<1>4. \A x \in D : x \in Good
  <2> HIDE DEF D, rank, Good
  <2> QED
    BY <1>2, <1>3, RankInduction
<1> QED
  BY <1>4 DEF T

-----------------------------------------------------------------------------
(* The palette that is made                                                *)

(* Every node is below the first.                                          *)
LEMMA BelowFirst ==
  ASSUME NEW d \in Depths, NEW x \in 1 .. 2^d - 1
  PROVE  Below(d, x, 1)
<1> DEFINE Good == {m \in 0 .. d : \A z \in 1 .. 2^m - 1 : Below(d, z, 1)}
<1>1. d \in Nat /\ d \in 0 .. d
  BY DepthIsNat
<1>2. /\ \A n \in 0 .. d + 1 : 2^n \in Nat /\ 2^n >= 1
      /\ \A n \in 0 .. d : 2^(n + 1) = 2 * 2^n
      /\ 2^0 = 1
  BY PowersSound
<1>3. 0 \in Good
  BY <1>1, <1>2
<1>4. ASSUME NEW m \in 1 .. d, m - 1 \in Good
      PROVE  m \in Good
  <2> DEFINE h == 2^(m - 1)
  <2>1. m - 1 \in 0 .. d /\ m - 1 \in 0 .. d + 1 /\ (m - 1) + 1 = m /\ m \in 0 .. d
    BY <1>1
  <2>2. h \in Nat /\ 2^m = 2 * h
    <3>1. 2^((m - 1) + 1) = 2 * 2^(m - 1) /\ 2^(m - 1) \in Nat
      BY <1>2, <2>1
    <3> QED
      BY <2>1, <3>1
  <2>3. ASSUME NEW z \in 1 .. 2^m - 1 PROVE Below(d, z, 1)
    <3>1. CASE z \in 1 .. h - 1
      BY <1>4, <3>1
    <3>2. CASE z \notin 1 .. h - 1
      <4>1. z >= h /\ z < 2 * h /\ z \in Int
        <5> HIDE DEF h
        <5> QED
          BY <2>2, <3>2
      <4>2. 1 * h <= z /\ z < (1 + 1) * h
        <5> HIDE DEF h
        <5> QED
          BY <2>2, <4>1
      <4>3. Spans(1, h, z)
        BY <4>2 DEF Spans
      <4> QED
        BY <2>1, <4>3 DEF Below
    <3> QED
      BY <3>1, <3>2
  <2> QED
    BY <2>1, <2>3
<1>5. \A m \in 0 .. d : m \in Good
  <2> HIDE DEF Good
  <2> QED
    BY <1>1, <1>3, <1>4, LoopInduction
<1> QED
  BY <1>1, <1>5

(* Every node on the way to the entry sends a search for its colour there. *)
Reached(d, pal, i) == \A x \in 1 .. 2^d - 1 : Guides(d, pal, i, x)

(* Which entries can be trusted, and what they are of.                     *)
Made(d, s, pal) ==
  /\ pal \in Palettes(d) /\ pal.made \subseteq Leaf(d) \ {0}
  /\ Len(s) >= 2^d - 1 => \A i \in Leaf(d) \ {0} : Reached(d, pal, i)
  /\ Len(s) <= 2^d - 1 =>
       \A q \in ColorsOf(s) : \E i \in Leaf(d) \ {0} : pal.color[i] = q /\ Reached(d, pal, i)

(* The call GifMakePalette makes.                                          *)
TopCall(d, g, s) ==
  [pal |-> Unwritten(d, g), pixels |-> s, first |-> FirstElt, last |-> 2 * 2^(d - 1),
   split |-> 2^(d - 1), dist |-> 2^(d - 1) \div 2, node |-> 1]

LEMMA UnwrittenTypes ==
  ASSUME NEW d \in Depths, NEW g \in Garbage[d]
  PROVE  Unwritten(d, g) \in Palettes(d)
<1>1. g.color \in [Leaf(d) -> Rgb] /\ g.tree \in [TreeBytes(d) -> 0 .. 255]
  BY GarbageAssumption DEF Contents
<1> QED
  BY <1>1 DEF Unwritten, Palettes

LEMMA TopBuilt ==
  ASSUME NEW d \in Depths, NEW g \in Garbage[d], NEW s \in Seq(Rgb)
  PROVE  /\ SplitPalette(TopCall(d, g, s)) \in Palettes(d)
         /\ Built(d, TopCall(d, g, s), SplitPalette(TopCall(d, g, s)))
<1> DEFINE c == TopCall(d, g, s)
           h == 2^(d - 1)
           t == 2^d
<1>1. /\ d \in Nat /\ d # 0 /\ d - 1 \in 0 .. d /\ d \in 0 .. d
      /\ h \in Nat /\ h >= 1 /\ t \in Nat /\ t = 2 * h
  <2>1. d \in 0 .. d /\ d - 1 \in 0 .. d /\ d # 0
    BY DepthIsNat
  <2> QED
    BY <2>1, PlacedPowers
<1>2. /\ c.pal = Unwritten(d, g) /\ c.pixels = s /\ c.first = 1 /\ c.last = 2 * h
      /\ c.split = h /\ c.dist = h \div 2 /\ c.node = 1
  BY DEF TopCall, FirstElt
<1>3. c \in Calls(d)
  <2>1. Halved(c, d)
    <3>1. c.last = c.split + h /\ c.first \in {c.split - h, c.split - h + 1}
      <4> HIDE DEF c, h
      <4> QED
        BY <1>1, <1>2
    <3> QED
      BY <1>1, <1>2, <3>1 DEF Halved
  <2>2. 1 \in 0 .. t /\ 2 * h \in 0 .. t /\ h \in Int /\ h \div 2 \in Int
    <3> HIDE DEF h, t
    <3> QED
      BY <1>1
  <2>3. c \in [pal : Palettes(d), pixels : Seq(Rgb), first : 0 .. t, last : 0 .. t,
               split : Int, dist : Int, node : Nat]
    <3> HIDE DEF h, t
    <3>1. c = [pal |-> Unwritten(d, g), pixels |-> s, first |-> 1, last |-> 2 * h,
               split |-> h, dist |-> h \div 2, node |-> 1]
      BY DEF TopCall, FirstElt, h
    <3> HIDE DEF c
    <3> QED
      BY <2>2, <3>1, UnwrittenTypes
  <2> HIDE DEF c
  <2> QED
    BY <2>1, <2>3 DEF Calls
<1>4. Placed(d, c)
  <2> DEFINE start == c.node * 2^d - 2^d
  <2>1. start = 0
    <3>1. 1 * t - t = 0
      <4> HIDE DEF t
      <4> QED
        BY <1>1
    <3> HIDE DEF c
    <3> QED
      BY <1>2, <3>1
  <2>2. c.node \in Nat \ {0} /\ 0 \in 0 .. t - t
    <3> HIDE DEF t, c
    <3> QED
      BY <1>1, <1>2
  <2>3. c.last = 0 + t /\ c.split = 0 + h
    <3> HIDE DEF t, h, c
    <3> QED
      BY <1>1, <1>2
  <2> HIDE DEF c, start
  <2>4. PlacedAt(d, c, d)
    BY <1>2, <2>1, <2>2, <2>3 DEF PlacedAt, start
  <2> QED
    BY <1>1, <2>4 DEF Placed
<1>5. SplitPalette(c) = Trees(d)[c]
  <2>1. c.pal.bitDepth = d
    BY <1>2 DEF Unwritten
  <2> HIDE DEF c
  <2> QED
    BY <2>1 DEF SplitPalette, Trees, TreeTurn, Nothing, OneEntry, LeftCall, RightCall, Com, Cut, Sorted, SplitOf
<1> HIDE DEF c
<1>6. SplitPalette(c) \in Palettes(d) /\ Built(d, c, SplitPalette(c))
  BY <1>3, <1>4, <1>5, TreeBuilt
<1> QED
  BY <1>6 DEF c

(* The node of the transparent entry, written last, has no other entry on  *)
(* its left.                                                               *)
LEMMA MadeSound ==
  ASSUME NEW d \in Depths, NEW g \in Garbage[d], NEW s \in Seq(Rgb)
  PROVE  Made(d, s, MadePalette(d, g, s))
<1> DEFINE c == TopCall(d, g, s)
           h == 2^(d - 1)
           t == 2^d
           tree == SplitPalette(c)
           node == WithNode(tree, h, 1, 0)
           pal == MadePalette(d, g, s)
<1>1. /\ d \in Nat /\ d \in 0 .. d /\ d \in 0 .. d + 1
      /\ h \in Nat /\ h >= 1 /\ t \in Nat /\ t = 2 * h /\ 2^(d + 1) = 2 * t /\ t >= 2
  <2>1. d \in 0 .. d /\ d \in 0 .. d + 1 /\ d \in Nat
    BY DepthIsNat
  <2>2. h \in Nat /\ h >= 1 /\ t \in Nat /\ t = 2 * h /\ 2^(d + 1) = 2 * t
    BY <2>1, PlacedPowers
  <2> HIDE DEF h, t
  <2> QED
    BY <2>1, <2>2
<1>2. c.pixels = s /\ c.first = 1 /\ c.last = 2 * h /\ c.node = 1 /\ c.pal = Unwritten(d, g)
  BY DEF TopCall, FirstElt
<1>3. tree \in Palettes(d) /\ Built(d, c, tree)
  BY TopBuilt
<1>4. pal = [node EXCEPT !.color[0] = <<0, 0, 0>>]
  BY DEF MadePalette, TopCall, kGifTransIndex
<1> HIDE DEF pal, c, tree
<1>5. 1 \in Component /\ 0 \in 0 .. 255 /\ h \in 1 .. t - 1
  <2>1. h \in 1 .. t - 1
    <3> HIDE DEF h, t
    <3> QED
      BY <1>1
  <2> QED
    BY <2>1 DEF Component
<1>6. /\ node \in Palettes(d) /\ NodeSet(d, tree, node, h, 1, 0)
      /\ node.color = tree.color /\ node.made = tree.made
  <2>1. node \in Palettes(d) /\ NodeSet(d, tree, node, h, 1, 0)
    BY <1>3, <1>5, WithNodeTypes, NodeWritten
  <2>2. tree = [bitDepth |-> tree.bitDepth, color |-> tree.color, tree |-> tree.tree, made |-> tree.made]
    BY <1>3 DEF Palettes
  <2>3. node.color = tree.color /\ node.made = tree.made
    BY <2>2 DEF WithNode
  <2> QED
    BY <2>1, <2>3
<1> HIDE DEF node
<1>7. 0 \in Leaf(d) /\ <<0, 0, 0>> \in Rgb
  <2>1. 0 \in 0 .. t - 1
    <3> HIDE DEF t
    <3> QED
      BY <1>1
  <2> QED
    BY <2>1 DEF Leaf, Rgb
<1>8. /\ pal \in Palettes(d) /\ pal.made = tree.made /\ pal.bitDepth = d /\ node.bitDepth = d
      /\ pal.tree = node.tree
      /\ \A i \in Leaf(d) \ {0} : pal.color[i] = tree.color[i] /\ pal.color[i] \in Rgb
  <2>1. node = [bitDepth |-> d, color |-> node.color, tree |-> node.tree, made |-> node.made]
        /\ node.color \in [Leaf(d) -> Rgb] /\ node.tree \in [TreeBytes(d) -> 0 .. 255] /\ node.made \subseteq Leaf(d)
    BY <1>6 DEF Palettes
  <2>2. pal = [bitDepth |-> d, color |-> [node.color EXCEPT ![0] = <<0, 0, 0>>], tree |-> node.tree,
               made |-> node.made]
    BY <1>4, <2>1
  <2>3. [node.color EXCEPT ![0] = <<0, 0, 0>>] \in [Leaf(d) -> Rgb]
    BY <1>7, <2>1
  <2>4. \A i \in Leaf(d) \ {0} : pal.color[i] = node.color[i]
    BY <2>1, <2>2
  <2>5. pal \in Palettes(d)
    BY <2>1, <2>2, <2>3 DEF Palettes
  <2> QED
    BY <1>6, <2>1, <2>2, <2>4, <2>5
<1>9. \A x \in 1 .. t - 1 :
        /\ Elt(pal, x) = IF x = h THEN 0 ELSE Elt(tree, x)
        /\ Split(pal, x) = IF x = h THEN 0 ELSE Split(tree, x)
  <2>1. \A x \in 1 .. t - 1 : Elt(pal, x) = Elt(node, x) /\ Split(pal, x) = Split(node, x)
    BY <1>8 DEF Elt, Split
  <2>2. 1 - 1 = 0
    OBVIOUS
  <2> HIDE DEF h
  <2> QED
    BY <1>6, <2>1, <2>2 DEF NodeSet
<1> HIDE DEF h, t
<1>10. ASSUME NEW i \in Leaf(d) \ {0}, Sided(d, tree, i, 1)
       PROVE  Reached(d, pal, i)
  <2>1. i \in 1 .. t - 1 /\ 2^d + i \in Nat /\ 2^d + i < 2^(d + 1) /\ i \in Nat
    <3>1. i \in 0 .. t - 1 /\ i # 0
      BY <1>10 DEF Leaf, t
    <3>2. t + i \in Nat /\ t + i < 2 * t /\ i \in 1 .. t - 1
      BY <1>1, <3>1
    <3> QED
      BY <1>1, <3>2 DEF t
  <2>2. ASSUME NEW x \in 1 .. t - 1, x # h PROVE Guides(d, pal, i, x)
    <3>1. x \in 1 .. 2^d - 1
      BY <2>2 DEF t
    <3>2. Below(d, x, 1)
      BY <3>1, BelowFirst
    <3>3. x \in Inner(d)
      BY <2>2, <3>1 DEF Inner, h
    <3>4. Guides(d, tree, i, x)
      BY <1>10, <3>2, <3>3 DEF Sided
    <3>5. Elt(pal, x) = Elt(tree, x) /\ Split(pal, x) = Split(tree, x) /\ pal.color[i] = tree.color[i]
      BY <1>8, <1>9, <1>10, <2>2
    <3> QED
      BY <3>4, <3>5 DEF Guides
  <2>3. Guides(d, pal, i, h)
    <3>1. ~Below(d, 2^d + i, 2 * h)
      <4>1. SUFFICES ASSUME Below(d, 2^d + i, t) PROVE FALSE
        BY <1>1
      <4>2. 2^d + i = t
        BY <1>1, <2>1, <4>1, BelowLeaf DEF t
      <4>3. t + i # t
        BY <1>1, <2>1
      <4> QED
        BY <4>2, <4>3 DEF t
    <3>2. Elt(pal, h) + 1 = 1 /\ Split(pal, h) = 0
      BY <1>5, <1>9
    <3>3. pal.color[i][1] >= 0
      BY <1>5, <1>8, <1>10, RgbComponents
    <3> QED
      BY <1>5, <3>1, <3>2, <3>3 DEF Guides
  <2> QED
    BY <2>2, <2>3 DEF Reached, t
<1>11. Confined(d, c, tree) /\ AllEntries(d, c, tree) /\ AllPixels(d, c, tree)
  BY <1>3 DEF Built
<1>12. c.first .. c.last - 1 = Leaf(d) \ {0} /\ c.last - c.first = t - 1
  <2>1. 1 .. (2 * h) - 1 = (0 .. t - 1) \ {0} /\ (2 * h) - 1 = t - 1
    BY <1>1
  <2> QED
    BY <1>2, <2>1 DEF Leaf, t
<1>13. pal.made \subseteq Leaf(d) \ {0}
  <2>1. c.pal.made = {}
    BY <1>2 DEF Unwritten
  <2> QED
    BY <1>8, <1>11, <1>12, <2>1 DEF Confined
<1>14. Len(s) >= t - 1 => \A i \in Leaf(d) \ {0} : Reached(d, pal, i)
  BY <1>2, <1>10, <1>11, <1>12 DEF AllEntries
<1>15. Len(s) <= t - 1 => \A q \in ColorsOf(s) : \E i \in Leaf(d) \ {0} : pal.color[i] = q /\ Reached(d, pal, i)
  <2>1. SUFFICES ASSUME Len(s) <= t - 1, NEW q \in ColorsOf(s)
                 PROVE  \E i \in Leaf(d) \ {0} : pal.color[i] = q /\ Reached(d, pal, i)
    OBVIOUS
  <2>2. PICK i \in Leaf(d) \ {0} : tree.color[i] = q /\ Sided(d, tree, i, 1)
    BY <1>2, <1>11, <1>12, <2>1 DEF AllPixels
  <2> QED
    BY <1>8, <1>10, <2>2
<1> QED
  BY <1>8, <1>13, <1>14, <1>15 DEF Made, pal, t

-----------------------------------------------------------------------------
(* The walk                                                                *)

LEMMA DiffSound ==
  ASSUME NEW a \in Rgb, NEW b \in Rgb
  PROVE  /\ Diff(a, b) \in Nat /\ Diff(a, b) <= 765 /\ Diff(a, a) = 0
         /\ \A com \in Component : a[com] - b[com] <= Diff(a, b) /\ b[com] - a[com] <= Diff(a, b)
<1> DEFINE D(com) == Abs(a[com] - b[com])
<1>1. \A com \in Component : a[com] \in 0 .. 255 /\ b[com] \in 0 .. 255 /\ a[com] \in Int /\ b[com] \in Int
  BY RgbComponents
<1>2. ASSUME NEW com \in Component
      PROVE  /\ D(com) \in 0 .. 255 /\ a[com] - b[com] <= D(com) /\ b[com] - a[com] <= D(com)
             /\ Abs(a[com] - a[com]) = 0
  <2> DEFINE x == a[com]
             y == b[com]
  <2>1. x \in 0 .. 255 /\ y \in 0 .. 255
    BY <1>1
  <2> HIDE DEF x, y
  <2>2. Abs(x - y) \in 0 .. 255 /\ x - y <= Abs(x - y) /\ y - x <= Abs(x - y) /\ Abs(x - x) = 0
    BY <2>1 DEF Abs
  <2> QED
    BY <2>2 DEF x, y
<1>3. Diff(a, b) = D(1) + D(2) + D(3) /\ 1 \in Component /\ 2 \in Component /\ 3 \in Component
  BY DEF Diff, Component
<1>4. Diff(a, a) = 0
  BY <1>2, <1>3 DEF Diff
<1> HIDE DEF D
<1>5. D(1) \in 0 .. 255 /\ D(2) \in 0 .. 255 /\ D(3) \in 0 .. 255
  BY <1>2, <1>3
<1>6. /\ Diff(a, b) \in Nat /\ Diff(a, b) <= 765
      /\ D(1) <= Diff(a, b) /\ D(2) <= Diff(a, b) /\ D(3) <= Diff(a, b)
  <2> DEFINE x == D(1)
             y == D(2)
             z == D(3)
  <2>1. x \in 0 .. 255 /\ y \in 0 .. 255 /\ z \in 0 .. 255 /\ Diff(a, b) = x + y + z
    BY <1>3, <1>5
  <2> HIDE DEF x, y, z
  <2>2. /\ Diff(a, b) \in Nat /\ Diff(a, b) <= 765
        /\ x <= Diff(a, b) /\ y <= Diff(a, b) /\ z <= Diff(a, b)
    BY <2>1
  <2> QED
    BY <2>2 DEF x, y, z
<1>8. ASSUME NEW com \in Component
      PROVE  a[com] - b[com] <= Diff(a, b) /\ b[com] - a[com] <= Diff(a, b)
  <2>1. com = 1 \/ com = 2 \/ com = 3
    BY DEF Component
  <2>2. D(com) <= Diff(a, b)
    BY <1>6, <2>1
  <2>3. D(com) \in Int /\ a[com] - b[com] \in Int /\ b[com] - a[com] \in Int /\ Diff(a, b) \in Int
    BY <1>1, <1>2, <1>6
  <2> QED
    BY <1>2, <2>2, <2>3
<1> QED
  BY <1>4, <1>6, <1>8

Bests == [ind : Nat, diff : Nat]

(* What the walk looks at in a node.                                       *)
CompOf(pal, c, x) == Comp(c, Elt(pal, x), x)
Near(pal, c, x) == IF Split(pal, x) > CompOf(pal, c, x) THEN 2 * x ELSE 2 * x + 1
Far(pal, c, x)  == IF Split(pal, x) > CompOf(pal, c, x) THEN 2 * x + 1 ELSE 2 * x
Gap(pal, c, x)  == Distance(Split(pal, x), CompOf(pal, c, x), x)

AtLeaf(pal, c, w) ==
  LET ind == w.node - 2^pal.bitDepth
  IN  IF Better(ind, Diff(c, pal.color[ind]), w.best)
      THEN [ind |-> ind, diff |-> Diff(c, pal.color[ind])] ELSE w.best

NearWalk(pal, c, w)       == [node |-> Near(pal, c, w.node), best |-> w.best]
FarWalk(pal, c, w, found) == [node |-> Far(pal, c, w.node), best |-> found]

(* The body of the recursion, of a function f.                             *)
WalkTurn(f, pal, c, w) ==
  IF w.node > 2^pal.bitDepth - 1 THEN AtLeaf(pal, c, w)
  ELSE LET found == f[NearWalk(pal, c, w)]
       IN  IF LooksBeyond(found, Gap(pal, c, w.node)) THEN f[FarWalk(pal, c, w, found)] ELSE found

WalksOf(d, pal, c) == CHOOSE f : f = [w \in Walks(d) |-> WalkTurn(f, pal, c, w)]

LEMMA WalkPowers ==
  ASSUME NEW d \in Depths
  PROVE  2^d \in Nat /\ 2^d >= 1 /\ 2^(d + 1) \in Nat /\ 2^(d + 1) = 2 * 2^d
<1>1. d \in 0 .. d
  BY DepthIsNat
<1> QED
  BY <1>1, PlacedPowers

(* Where the walk goes on.                                                 *)
LEMMA WalkOn ==
  ASSUME NEW d \in Depths, NEW pal, pal.bitDepth = d, NEW c, NEW w \in Walks(d), ~(w.node > 2^d - 1)
  PROVE  /\ NearWalk(pal, c, w) \in Walks(d) /\ NearWalk(pal, c, w).node > w.node
         /\ \A found \in Bests : /\ FarWalk(pal, c, w, found) \in Walks(d)
                                 /\ FarWalk(pal, c, w, found).node > w.node
<1> DEFINE t == 2^d
<1>1. t \in Nat /\ 2^(d + 1) = 2 * t
  BY WalkPowers
<1>2. w.node \in 1 .. 2 * t - 1 /\ w.best \in Bests
  BY <1>1 DEF Walks, Bests
<1> HIDE DEF t
<1>3. w.node \in 1 .. t - 1
  BY <1>1, <1>2 DEF t
<1>4. \A y \in {2 * w.node, 2 * w.node + 1} : y \in 1 .. 2 * t - 1 /\ y > w.node
  BY <1>1, <1>3
<1>5. /\ Near(pal, c, w.node) \in {2 * w.node, 2 * w.node + 1}
      /\ Far(pal, c, w.node) \in {2 * w.node, 2 * w.node + 1}
  BY DEF Near, Far
<1>6. Walks(d) = [node : 1 .. 2 * t - 1, best : Bests]
  BY <1>1 DEF Walks, Bests
<1> QED
  BY <1>2, <1>4, <1>5, <1>6 DEF NearWalk, FarWalk

LEMMA AtLeafTypes ==
  ASSUME NEW d \in Depths, NEW pal \in Palettes(d), NEW c \in Rgb, NEW w \in Walks(d), w.node > 2^d - 1
  PROVE  /\ w.node - 2^d \in Leaf(d) /\ w.node - 2^d \in Nat
         /\ Diff(c, pal.color[w.node - 2^d]) \in Nat
         /\ w.best \in Bests /\ AtLeaf(pal, c, w) \in Bests
<1> DEFINE t == 2^d
<1>1. t \in Nat /\ 2^(d + 1) = 2 * t
  BY WalkPowers
<1>2. w.node \in 1 .. 2 * t - 1 /\ w.best \in Bests
  BY <1>1 DEF Walks, Bests
<1> HIDE DEF t
<1>3. w.node - t \in 0 .. t - 1
  BY <1>1, <1>2 DEF t
<1>4. w.node - 2^d \in Leaf(d) /\ w.node - 2^d \in Nat
  BY <1>1, <1>3 DEF Leaf, t
<1>5. pal.color[w.node - 2^d] \in Rgb /\ pal.bitDepth = d
  BY <1>4 DEF Palettes
<1>6. Diff(c, pal.color[w.node - 2^d]) \in Nat
  BY <1>5, DiffSound
<1> QED
  BY <1>2, <1>4, <1>5, <1>6 DEF AtLeaf, Bests

LEMMA WalkSolved ==
  ASSUME NEW d \in Depths, NEW pal \in Palettes(d), NEW c \in Rgb
  PROVE  WalksOf(d, pal, c) = [w \in Walks(d) |-> WalkTurn(WalksOf(d, pal, c), pal, c, w)]
<1> DEFINE D == Walks(d)
           top == 2^(d + 1) - 1
           rank == [w \in D |-> top - w.node]
           step == [w \in D |-> [f \in [D -> Bests] |-> WalkTurn(f, pal, c, w)]]
<1>1. top \in Nat /\ pal.bitDepth = d
  <2>1. pal.bitDepth = d
    BY DEF Palettes
  <2>2. 2^(d + 1) \in Nat /\ 2^(d + 1) >= 1
    <3> DEFINE t == 2^d
    <3>1. t \in Nat /\ t >= 1 /\ 2^(d + 1) = 2 * t
      BY WalkPowers
    <3> HIDE DEF t
    <3> QED
      BY <3>1
  <2> QED
    BY <2>1, <2>2
<1>2. /\ \A w \in D : w.node \in 1 .. top /\ w.node \in Int
      /\ rank \in [D -> 0 .. top]
  <2>1. \A w \in D : w.node \in 1 .. top
    BY DEF Walks
  <2> HIDE DEF D, top
  <2>2. \A w \in D : w.node \in Int /\ top - w.node \in 0 .. top
    BY <1>1, <2>1
  <2> QED
    BY <2>1, <2>2
<1> HIDE DEF top
<1>3. step \in [D -> [[D -> Bests] -> Bests]]
  <2>1. ASSUME NEW w \in D, NEW f \in [D -> Bests] PROVE WalkTurn(f, pal, c, w) \in Bests
    <3>1. CASE w.node > 2^d - 1
      BY <1>1, <3>1, AtLeafTypes DEF WalkTurn
    <3>2. CASE ~(w.node > 2^d - 1)
      <4> DEFINE near == NearWalk(pal, c, w)
                 found == f[near]
                 far == FarWalk(pal, c, w, found)
      <4>1. near \in D /\ \A b \in Bests : FarWalk(pal, c, w, b) \in D
        BY <1>1, <3>2, WalkOn
      <4> HIDE DEF D, near
      <4>2. found \in Bests
        BY <4>1
      <4>3. far \in D
        BY <4>1, <4>2
      <4> HIDE DEF far
      <4>4. f[far] \in Bests
        BY <4>3
      <4>5. WalkTurn(f, pal, c, w) = IF LooksBeyond(found, Gap(pal, c, w.node)) THEN f[far] ELSE found
        BY <1>1, <3>2 DEF WalkTurn, far, near
      <4> QED
        BY <4>2, <4>4, <4>5
    <3> QED
      BY <3>1, <3>2
  <2> HIDE DEF D
  <2> QED
    BY <2>1
<1>4. ASSUME NEW w \in D, NEW g \in [D -> Bests], NEW h \in [D -> Bests],
             \A x \in D : rank[x] < rank[w] => g[x] = h[x]
      PROVE  step[w][g] = step[w][h]
  <2>1. step[w][g] = WalkTurn(g, pal, c, w) /\ step[w][h] = WalkTurn(h, pal, c, w)
    OBVIOUS
  <2>2. CASE w.node > 2^d - 1
    BY <1>1, <2>1, <2>2 DEF WalkTurn
  <2>3. CASE ~(w.node > 2^d - 1)
    <3> DEFINE near == NearWalk(pal, c, w)
               far == FarWalk(pal, c, w, g[near])
    <3>1. /\ near \in D /\ near.node > w.node
          /\ \A b \in Bests : FarWalk(pal, c, w, b) \in D /\ FarWalk(pal, c, w, b).node > w.node
      BY <1>1, <2>3, WalkOn
    <3> HIDE DEF near, D
    <3>2. g[near] \in Bests
      BY <3>1
    <3>3. far \in D /\ far.node > w.node
      BY <3>1, <3>2
    <3> HIDE DEF far
    <3>4. ASSUME NEW x \in D, x.node > w.node PROVE g[x] = h[x]
      <4>1. rank[x] < rank[w]
        <5>1. top - x.node < top - w.node
          BY <1>1, <1>2, <3>4
        <5> QED
          BY <5>1
      <4> HIDE DEF rank
      <4> QED
        BY <1>4, <4>1
    <3>5. g[near] = h[near] /\ g[far] = h[far]
      BY <3>1, <3>3, <3>4
    <3>6. WalkTurn(g, pal, c, w) = IF LooksBeyond(g[near], Gap(pal, c, w.node)) THEN g[far] ELSE g[near]
      BY <1>1, <2>3 DEF WalkTurn, far, near
    <3>7. WalkTurn(h, pal, c, w) = IF LooksBeyond(h[near], Gap(pal, c, w.node)) THEN h[far] ELSE h[near]
      BY <1>1, <2>3, <3>5 DEF WalkTurn, far, near
    <3> QED
      BY <2>1, <3>5, <3>6, <3>7
  <2> QED
    BY <2>2, <2>3
<1>5. Solution(D, Bests, step) # {}
  <2>1. Descends(D, Bests, rank, step)
    BY <1>4 DEF Descends
  <2>2. [ind |-> 0, diff |-> 0] \in Bests
    BY DEF Bests
  <2> HIDE DEF D, rank, step
  <2> QED
    BY <1>1, <1>2, <1>3, <2>1, <2>2, RecursionSolved, Zenon
<1>6. PICK f \in [D -> Bests] : \A w \in D : f[w] = step[w][f]
  <2> HIDE DEF D, step
  <2> QED
    BY <1>5 DEF Solution
<1>7. f = [w \in D |-> WalkTurn(f, pal, c, w)]
  <2>1. \A w \in D : f[w] = WalkTurn(f, pal, c, w)
    BY <1>6
  <2> HIDE DEF step, D
  <2>2. f = [w \in D |-> f[w]]
    BY <1>6
  <2> QED
    BY <2>1, <2>2
<1> QED
  BY <1>7 DEF WalksOf

(* What a walk answers: the best it was given, or an entry and how far it  *)
(* is, and nothing farther than an entry that the nodes lead to.           *)
Answers(d, pal, c, w, r) ==
  /\ r \in Bests /\ r.diff <= w.best.diff
  /\ r = w.best \/ (r.ind \in Leaf(d) \ {0} /\ r.diff = Diff(c, pal.color[r.ind]))
  /\ \A i \in Leaf(d) \ {0} :
       Below(d, 2^d + i, w.node) /\ Reached(d, pal, i) => r.diff <= Diff(c, pal.color[i])

LEMMA LeafNumbers ==
  ASSUME NEW d \in Depths, NEW i \in Leaf(d)
  PROVE  i \in Nat /\ 2^d + i \in Nat /\ 2^d + i >= 2^d /\ 2^d + i < 2^(d + 1)
<1> DEFINE t == 2^d
<1>1. t \in Nat /\ 2^(d + 1) = 2 * t
  BY WalkPowers
<1>2. i \in 0 .. t - 1
  BY DEF Leaf
<1> HIDE DEF t
<1>3. i \in Nat /\ t + i \in Nat /\ t + i >= t /\ t + i < 2 * t
  BY <1>1, <1>2
<1> QED
  BY <1>1, <1>3 DEF t

LEMMA LeafAnswers ==
  ASSUME NEW d \in Depths, NEW pal \in Palettes(d), NEW c \in Rgb, NEW w \in Walks(d), w.node > 2^d - 1
  PROVE  Answers(d, pal, c, w, AtLeaf(pal, c, w))
<1> DEFINE t == 2^d
           ind == w.node - t
           diff == Diff(c, pal.color[ind])
           r == AtLeaf(pal, c, w)
<1>1. /\ ind \in Leaf(d) /\ ind \in Nat /\ diff \in Nat /\ w.best \in Bests /\ r \in Bests
  BY AtLeafTypes
<1>2. t \in Nat /\ w.node \in Nat /\ w.node >= t
  <2>1. t \in Nat
    BY WalkPowers
  <2>2. w.node \in Int /\ w.node >= 1
    BY DEF Walks
  <2> HIDE DEF t
  <2>3. w.node > t - 1
    BY DEF t
  <2> QED
    BY <2>1, <2>2, <2>3
<1>3. pal.bitDepth = d
  BY DEF Palettes
<1>4. r = IF ind # 0 /\ diff < w.best.diff THEN [ind |-> ind, diff |-> diff] ELSE w.best
  BY <1>3 DEF AtLeaf, Better, kGifTransIndex
<1>5. w.best.diff \in Nat
  BY <1>1 DEF Bests
<1>6. ASSUME NEW i \in Leaf(d) \ {0}, Below(d, t + i, w.node) PROVE i = ind
  <2>1. t + i \in Nat /\ t + i < 2^(d + 1) /\ i \in Nat
    BY LeafNumbers
  <2>2. t + i = w.node
    BY <1>2, <1>6, <2>1, BelowLeaf DEF t
  <2> HIDE DEF t
  <2>3. w.node - t = i
    BY <1>2, <2>1, <2>2
  <2> QED
    BY <2>3
<1> HIDE DEF ind, r
<1>7. r.diff <= w.best.diff /\ (ind # 0 => r.diff <= diff)
  <2> HIDE DEF diff
  <2>1. CASE ind # 0 /\ diff < w.best.diff
    BY <1>1, <1>4, <1>5, <2>1
  <2>2. CASE ~(ind # 0 /\ diff < w.best.diff)
    BY <1>1, <1>4, <1>5, <2>2
  <2> QED
    BY <2>1, <2>2
<1>8. r = w.best \/ (r.ind \in Leaf(d) \ {0} /\ r.diff = Diff(c, pal.color[r.ind]))
  <2>1. CASE ind # 0 /\ diff < w.best.diff
    <3>1. r.ind = ind /\ r.diff = diff
      BY <1>4, <2>1
    <3> QED
      BY <1>1, <2>1, <3>1
  <2>2. CASE ~(ind # 0 /\ diff < w.best.diff)
    BY <1>4, <2>2
  <2> QED
    BY <2>1, <2>2
<1>9. ASSUME NEW i \in Leaf(d) \ {0}, Below(d, t + i, w.node) PROVE r.diff <= Diff(c, pal.color[i])
  BY <1>6, <1>7, <1>9
<1> QED
  BY <1>1, <1>7, <1>8, <1>9 DEF Answers, r, t

(* What a node holds is two bytes.                                         *)
LEMMA NodeBytes ==
  ASSUME NEW d \in Depths, NEW pal \in Palettes(d), NEW x \in 1 .. 2^d - 1
  PROVE  Elt(pal, x) \in 0 .. 255 /\ Split(pal, x) \in 0 .. 255 /\ Split(pal, x) \in Int
<1> DEFINE t == 2^d
<1>1. t \in Nat
  BY WalkPowers
<1>2. x \in 0 .. 2 * (t - 1) + 1 /\ t - 1 + x \in 0 .. 2 * (t - 1) + 1
  <2>1. x \in 1 .. t - 1
    OBVIOUS
  <2> HIDE DEF t
  <2> QED
    BY <1>1, <2>1
<1>3. EltAt(d, x) \in TreeBytes(d) /\ SplitAt(d, x) \in TreeBytes(d)
  BY <1>2 DEF EltAt, SplitAt, TreeBytes
<1>4. pal.bitDepth = d /\ pal.tree \in [TreeBytes(d) -> 0 .. 255]
  BY DEF Palettes
<1> QED
  BY <1>3, <1>4 DEF Elt, Split

(* From a component of the colour the split is no farther than its bytes.  *)
LEMMA DistanceSound ==
  ASSUME NEW split \in 0 .. 255, NEW comp \in 0 .. 255, NEW x
  PROVE  Distance(split, comp, x) = Abs(split - comp)
<1>1. IntMax \in Nat /\ IntMax >= 1000000
  BY PaletteAssumption
<1>2. ~(split - comp > IntMax)
  BY <1>1
<1> QED
  BY <1>2 DEF Distance

(* The far side is left out only if the split is farther away than the     *)
(* best: every colour behind it that the nodes lead to is so too.          *)
LEMMA FarBeyond ==
  ASSUME NEW d \in Depths, NEW pal \in Palettes(d), NEW c \in Rgb,
         NEW x \in 1 .. 2^d - 1, NEW i \in Leaf(d) \ {0}, Reached(d, pal, i),
         Below(d, 2^d + i, Far(pal, c, x))
  PROVE  Gap(pal, c, x) <= Diff(c, pal.color[i])
<1> DEFINE k == Elt(pal, x) + 1
           split == Split(pal, x)
           e == pal.color[i]
<1>1. Guides(d, pal, i, x) /\ e \in Rgb
  BY DEF Reached, Palettes
<1>2. split \in Int /\ split \in 0 .. 255
  BY NodeBytes
<1>3. ASSUME k \in Component PROVE Gap(pal, c, x) = Abs(split - c[k])
  <2>1. CompOf(pal, c, x) = c[k]
    BY <1>3 DEF CompOf, Comp
  <2>2. c[k] \in 0 .. 255
    BY <1>3, RgbComponents
  <2>3. Distance(split, c[k], x) = Abs(split - c[k])
    <3> HIDE DEF split, k
    <3> QED
      BY <1>2, <2>2, DistanceSound
  <2> QED
    BY <2>1, <2>3 DEF Gap
<1>4. ASSUME k \in Component, split > c[k], e[k] >= split PROVE Gap(pal, c, x) <= Diff(c, e)
  <2>2. Gap(pal, c, x) = Abs(split - c[k])
    BY <1>3, <1>4
  <2>3. c[k] \in Int /\ e[k] \in Int
    BY <1>1, <1>4, RgbComponents
  <2>4. e[k] - c[k] <= Diff(c, e) /\ Diff(c, e) \in Nat
    BY <1>1, <1>4, DiffSound
  <2> HIDE DEF k, split, e
  <2>5. Abs(split - c[k]) = split - c[k]
    BY <1>2, <1>4, <2>3 DEF Abs
  <2> QED
    BY <1>2, <1>4, <2>2, <2>3, <2>4, <2>5
<1>5. ASSUME k \in Component, ~(split > c[k]), e[k] <= split PROVE Gap(pal, c, x) <= Diff(c, e)
  <2>2. Gap(pal, c, x) = Abs(split - c[k])
    BY <1>3, <1>5
  <2>3. c[k] \in Int /\ e[k] \in Int
    BY <1>1, <1>5, RgbComponents
  <2>4. c[k] - e[k] <= Diff(c, e) /\ Diff(c, e) \in Nat
    BY <1>1, <1>5, DiffSound
  <2> HIDE DEF k, split, e
  <2>5. Abs(split - c[k]) = c[k] - split
    BY <1>2, <1>5, <2>3 DEF Abs
  <2> QED
    BY <1>2, <1>5, <2>2, <2>3, <2>4, <2>5
<1>6. CASE split > CompOf(pal, c, x)
  <2>1. Below(d, 2^d + i, 2 * x + 1)
    BY <1>6 DEF Far
  <2>2. k \in Component /\ e[k] >= split
    BY <1>1, <2>1 DEF Guides
  <2>3. CompOf(pal, c, x) = c[k]
    BY <2>2 DEF CompOf, Comp
  <2> HIDE DEF k, split, e
  <2>4. Gap(pal, c, x) <= Diff(c, e)
    BY <1>4, <1>6, <2>2, <2>3
  <2> QED
    BY <2>4 DEF e
<1>7. CASE ~(split > CompOf(pal, c, x))
  <2>1. Below(d, 2^d + i, 2 * x)
    BY <1>7 DEF Far
  <2>2. k \in Component /\ e[k] <= split
    BY <1>1, <2>1 DEF Guides
  <2>3. CompOf(pal, c, x) = c[k]
    BY <2>2 DEF CompOf, Comp
  <2> HIDE DEF k, split, e
  <2>4. Gap(pal, c, x) <= Diff(c, e)
    BY <1>5, <1>7, <2>2, <2>3
  <2> QED
    BY <2>4 DEF e
<1> QED
  BY <1>6, <1>7

LEMMA GapTypes ==
  ASSUME NEW d \in Depths, NEW pal \in Palettes(d), NEW c \in Rgb, garbage \in Garbage[d], NEW x \in 1 .. 2^d - 1
  PROVE  Gap(pal, c, x) \in Int
<1>1. Split(pal, x) \in Int
  BY NodeBytes
<1>2. garbage.stray[x] \in Int /\ garbage.overflow[x] \in Int
  <2>1. garbage.stray[x] \in Ints /\ garbage.overflow[x] \in Ints
    BY GarbageAssumption DEF Contents
  <2> QED
    BY <2>1 DEF Ints
<1>3. CompOf(pal, c, x) \in Int
  <2>1. \A k \in Component : c[k] \in Int
    BY RgbComponents
  <2> QED
    BY <1>2, <2>1 DEF CompOf, Comp
<1>4. Abs(Split(pal, x) - CompOf(pal, c, x)) \in Int
  BY <1>1, <1>3 DEF Abs
<1> QED
  BY <1>2, <1>4 DEF Gap, Distance

LEMMA InnerAnswers ==
  ASSUME NEW d \in Depths, NEW pal \in Palettes(d), NEW c \in Rgb, garbage \in Garbage[d],
         NEW w \in Walks(d), ~(w.node > 2^d - 1),
         NEW found, Answers(d, pal, c, NearWalk(pal, c, w), found),
         NEW last, Answers(d, pal, c, FarWalk(pal, c, w, found), last)
  PROVE  Answers(d, pal, c, w, IF LooksBeyond(found, Gap(pal, c, w.node)) THEN last ELSE found)
<1> DEFINE t == 2^d
           x == w.node
           gap == Gap(pal, c, x)
           r == IF LooksBeyond(found, gap) THEN last ELSE found
<1>1. t \in Nat /\ 2^(d + 1) = 2 * t
  BY WalkPowers
<1>2. x \in Nat /\ x >= 1 /\ w.best \in Bests
  BY <1>1 DEF Walks, Bests
<1>3. x \in 1 .. t - 1
  <2>1. ~(x > t - 1)
    OBVIOUS
  <2> HIDE DEF t, x
  <2> QED
    BY <1>1, <1>2, <2>1
<1>4. gap \in Int
  BY <1>3, GapTypes
<1>5. /\ NearWalk(pal, c, w).node = Near(pal, c, x) /\ NearWalk(pal, c, w).best = w.best
      /\ FarWalk(pal, c, w, found).node = Far(pal, c, x) /\ FarWalk(pal, c, w, found).best = found
  BY DEF NearWalk, FarWalk
<1>6. /\ found \in Bests /\ found.diff <= w.best.diff
      /\ found = w.best \/ (found.ind \in Leaf(d) \ {0} /\ found.diff = Diff(c, pal.color[found.ind]))
      /\ \A i \in Leaf(d) \ {0} :
           Below(d, 2^d + i, Near(pal, c, x)) /\ Reached(d, pal, i) => found.diff <= Diff(c, pal.color[i])
  BY <1>5 DEF Answers
<1>7. /\ last \in Bests /\ last.diff <= found.diff
      /\ last = found \/ (last.ind \in Leaf(d) \ {0} /\ last.diff = Diff(c, pal.color[last.ind]))
      /\ \A i \in Leaf(d) \ {0} :
           Below(d, 2^d + i, Far(pal, c, x)) /\ Reached(d, pal, i) => last.diff <= Diff(c, pal.color[i])
  BY <1>5 DEF Answers
<1>8. found.diff \in Nat /\ last.diff \in Nat /\ w.best.diff \in Nat
  BY <1>2, <1>6, <1>7 DEF Bests
<1>9. r = last \/ (r = found /\ found.diff <= gap)
  <2> HIDE DEF gap
  <2> QED
    BY <1>4, <1>8 DEF LooksBeyond
<1> HIDE DEF gap, r
<1>10. r \in Bests /\ r.diff <= found.diff /\ r.diff \in Nat
  BY <1>6, <1>7, <1>8, <1>9
<1>11. r = w.best \/ (r.ind \in Leaf(d) \ {0} /\ r.diff = Diff(c, pal.color[r.ind]))
  BY <1>6, <1>7, <1>9
<1>12. ASSUME NEW i \in Leaf(d) \ {0}, Below(d, 2^d + i, x), Reached(d, pal, i)
       PROVE  r.diff <= Diff(c, pal.color[i])
  <2>1. 2^d + i \in Nat /\ 2^d + i < 2^(d + 1) /\ 2^d + i >= 2^d
    BY LeafNumbers
  <2>2. 2^d + i # x
    <3> DEFINE b == 2^d + i
    <3>1. b \in Nat /\ b >= t
      BY <2>1
    <3> HIDE DEF b, t
    <3>2. b # x
      BY <1>1, <1>3, <3>1
    <3> QED
      BY <3>2 DEF b
  <2>3. Below(d, 2^d + i, 2 * x) \/ Below(d, 2^d + i, 2 * x + 1)
    BY <1>2, <1>12, <2>1, <2>2, BelowSound
  <2>4. Below(d, 2^d + i, Near(pal, c, x)) \/ Below(d, 2^d + i, Far(pal, c, x))
    BY <2>3 DEF Near, Far
  <2>5. Diff(c, pal.color[i]) \in Nat
    <3>1. pal.color[i] \in Rgb
      BY DEF Palettes
    <3> QED
      BY <3>1, DiffSound
  <2> DEFINE diff == Diff(c, pal.color[i])
  <2>6. CASE Below(d, 2^d + i, Near(pal, c, x))
    <3>1. found.diff <= diff
      BY <1>6, <1>12, <2>6
    <3> HIDE DEF diff
    <3>2. r.diff <= diff
      BY <1>8, <1>10, <2>5, <3>1 DEF diff
    <3> QED
      BY <3>2 DEF diff
  <2>7. CASE Below(d, 2^d + i, Far(pal, c, x))
    <3>1. last.diff <= diff
      BY <1>7, <1>12, <2>7
    <3>2. gap <= diff
      BY <1>3, <1>12, <2>7, FarBeyond DEF gap
    <3> HIDE DEF diff
    <3>3. r.diff <= diff
      BY <1>4, <1>8, <1>9, <2>5, <3>1, <3>2 DEF diff
    <3> QED
      BY <3>3 DEF diff
  <2> QED
    BY <2>4, <2>6, <2>7
<1>13. r.diff <= w.best.diff
  BY <1>6, <1>8, <1>10
<1>14. Answers(d, pal, c, w, r)
  BY <1>10, <1>11, <1>12, <1>13 DEF Answers
<1> QED
  BY <1>14 DEF r, gap

(* The walk from any node.                                                 *)
LEMMA WalkSound ==
  ASSUME NEW d \in Depths, NEW pal \in Palettes(d), NEW c \in Rgb, garbage \in Garbage[d], NEW w \in Walks(d)
  PROVE  Answers(d, pal, c, w, ClosestFrom(pal, c, w))
<1> DEFINE D == Walks(d)
           W == WalksOf(d, pal, c)
           rank == [x \in D |-> 2^(d + 1) - 1 - x.node]
           Good == {x \in D : Answers(d, pal, c, x, W[x])}
<1>1. W = [x \in D |-> WalkTurn(W, pal, c, x)]
  BY WalkSolved
<1>2. pal.bitDepth = d
  BY DEF Palettes
<1>3. ClosestFrom(pal, c, w) = W[w]
  BY <1>2 DEF ClosestFrom, WalksOf, WalkTurn, AtLeaf, NearWalk, FarWalk, Near, Far, Gap, CompOf
<1>4. /\ rank \in [D -> Nat] /\ \A x \in D : x.node \in Int /\ 2^(d + 1) - 1 \in Int
  <2> DEFINE top == 2^(d + 1) - 1
  <2>1. top \in Nat
    <3> DEFINE t == 2^d
    <3>1. t \in Nat /\ t >= 1 /\ 2^(d + 1) = 2 * t
      BY WalkPowers
    <3> HIDE DEF t
    <3> QED
      BY <3>1
  <2>2. \A x \in D : x.node \in 1 .. top
    BY DEF Walks
  <2> HIDE DEF D, top
  <2>3. \A x \in D : x.node \in Int /\ top - x.node \in Nat
    BY <2>1, <2>2
  <2> QED
    BY <2>1, <2>3 DEF top
<1> HIDE DEF W
<1>5. ASSUME NEW x \in D, \A y \in D : rank[y] < rank[x] => y \in Good
      PROVE  x \in Good
  <2>1. W[x] = WalkTurn(W, pal, c, x)
    BY <1>1
  <2>2. CASE x.node > 2^d - 1
    <3>1. W[x] = AtLeaf(pal, c, x)
      BY <1>2, <2>1, <2>2 DEF WalkTurn
    <3> QED
      BY <2>2, <3>1, LeafAnswers
  <2>3. CASE ~(x.node > 2^d - 1)
    <3> DEFINE near == NearWalk(pal, c, x)
               found == W[near]
               far == FarWalk(pal, c, x, found)
               last == W[far]
    <3>1. /\ near \in D /\ near.node > x.node
          /\ \A b \in Bests : FarWalk(pal, c, x, b) \in D /\ FarWalk(pal, c, x, b).node > x.node
      BY <1>2, <2>3, WalkOn
    <3>2. ASSUME NEW y \in D, y.node > x.node PROVE Answers(d, pal, c, y, W[y])
      <4>1. rank[y] < rank[x]
        <5> DEFINE top == 2^(d + 1) - 1
        <5>1. top - y.node < top - x.node
          <6>1. top \in Int /\ x.node \in Int /\ y.node \in Int
            BY <1>4
          <6> HIDE DEF top
          <6> QED
            BY <3>2, <6>1
        <5> QED
          BY <5>1
      <4>2. y \in Good
        <5> HIDE DEF D, rank, Good
        <5> QED
          BY <1>5, <4>1
      <4> QED
        BY <4>2
    <3>3. Answers(d, pal, c, near, found)
      <4> HIDE DEF near, D
      <4> QED
        BY <3>1, <3>2
    <3>4. found \in Bests
      BY <3>3 DEF Answers
    <3>5. Answers(d, pal, c, far, last)
      <4>1. far \in D /\ far.node > x.node
        <5> HIDE DEF found, D
        <5> QED
          BY <3>1, <3>4
      <4> HIDE DEF far, D
      <4> QED
        BY <3>2, <4>1
    <3>6. W[x] = IF LooksBeyond(found, Gap(pal, c, x.node)) THEN last ELSE found
      BY <1>2, <2>1, <2>3 DEF WalkTurn
    <3> HIDE DEF last, found
    <3>7. Answers(d, pal, c, x, W[x])
      BY <2>3, <3>3, <3>5, <3>6, InnerAnswers
    <3> QED
      BY <3>7
  <2> QED
    BY <2>2, <2>3
<1>6. \A x \in D : x \in Good
  <2> HIDE DEF D, rank, Good
  <2> QED
    BY <1>4, <1>5, RankInduction
<1> QED
  BY <1>3, <1>6

-----------------------------------------------------------------------------
(* The pixels that changed                                                 *)

(* Those of the first k pixels that are not as they were.                  *)
ChangedTo(last, frame, k) == {i \in 1 .. k : last[i] # frame[i]}

(* The first k pixels were picked from.                                    *)
PickedTo(n, last, frame, acc, k) ==
  /\ acc \in [frame : Pixels(n), numChanged : Nat] /\ acc.numChanged <= k
  /\ acc.numChanged = Cardinality(ChangedTo(last, frame, k))
  /\ {acc.frame[i] : i \in 1 .. acc.numChanged} = {frame[i] : i \in ChangedTo(last, frame, k)}
  /\ \A i \in 1 .. n : i > k => acc.frame[i] = frame[i]

(* A pixel is picked from its own place or from behind the place it goes   *)
(* to, so none is lost before it was looked at.                            *)
LEMMA PickedOn ==
  ASSUME NEW n \in Nat, NEW last, NEW frame, NEW acc, NEW k \in 1 .. n,
         PickedTo(n, last, frame, acc, k - 1)
  PROVE  PickedTo(n, last, frame, Picked(acc, last, k - 1), k)
<1> DEFINE old == ChangedTo(last, frame, k - 1)
           new == ChangedTo(last, frame, k)
           m == acc.numChanged
           next == Picked(acc, last, k - 1)
<1>1. /\ acc \in [frame : Pixels(n), numChanged : Nat] /\ m \in Nat /\ m <= k - 1
      /\ m = Cardinality(old) /\ {acc.frame[i] : i \in 1 .. m} = {frame[i] : i \in old}
      /\ \A i \in 1 .. n : i > k - 1 => acc.frame[i] = frame[i]
  BY DEF PickedTo
<1>2. /\ k \in Nat /\ k > k - 1 /\ k - 1 + 1 = k /\ k - 1 \in Nat
      /\ \A i \in 1 .. k : i = k \/ i \in 1 .. k - 1
      /\ \A i \in 1 .. k - 1 : i \in 1 .. k /\ i # k
  OBVIOUS
<1>3. acc.frame[k] = frame[k] /\ At(acc.frame, k - 1) = frame[k] /\ At(last, k - 1) = last[k]
  BY <1>1, <1>2 DEF At
<1>4. CASE last[k] = frame[k]
  <2>1. next = acc
    BY <1>3, <1>4 DEF Picked
  <2>2. new = old
    BY <1>2, <1>4 DEF ChangedTo
  <2>3. m <= k /\ \A i \in 1 .. n : i > k => acc.frame[i] = frame[i]
    <3>1. \A i \in 1 .. n : i > k => i > k - 1
      OBVIOUS
    <3> HIDE DEF m
    <3> QED
      BY <1>1, <3>1
  <2> QED
    BY <1>1, <2>1, <2>2, <2>3 DEF PickedTo
<1>5. CASE last[k] # frame[k]
  <2>1. new = old \union {k} /\ k \notin old
    BY <1>2, <1>5 DEF ChangedTo
  <2>2. Cardinality(new) = m + 1
    <3>1. IsFiniteSet(1 .. k - 1)
      BY <1>2, FS_Interval
    <3>2. old \subseteq 1 .. k - 1
      BY DEF ChangedTo
    <3>3. IsFiniteSet(old)
      BY <3>1, <3>2, FS_Subset
    <3> HIDE DEF old, new, m
    <3> QED
      BY <1>1, <2>1, <3>3, FS_AddElement
  <2>3. next = [frame |-> [acc.frame EXCEPT ![m + 1] = frame[k]], numChanged |-> m + 1]
    BY <1>3, <1>5 DEF Picked
  <2>4. m + 1 \in 1 .. n /\ m + 1 \in Nat /\ m + 1 <= k /\ acc.frame \in [1 .. n -> Rgb] /\ frame[k] \in Rgb
    <3>1. acc.frame \in [1 .. n -> Rgb]
      BY <1>1 DEF Pixels
    <3>2. frame[k] \in Rgb
      BY <1>3, <3>1
    <3> HIDE DEF m
    <3> QED
      BY <1>1, <1>2, <3>1, <3>2
  <2> DEFINE to == next.frame
  <2>5. /\ to \in Pixels(n) /\ to[m + 1] = frame[k] /\ next.numChanged = m + 1
        /\ \A i \in 1 .. n : i # m + 1 => to[i] = acc.frame[i]
    BY <2>3, <2>4 DEF Pixels
  <2>6. {to[i] : i \in 1 .. m + 1} = {frame[i] : i \in new}
    <3> HIDE DEF to, old, new, m
    <3>1. \A i \in 1 .. m : i \in 1 .. m + 1 /\ i \in 1 .. n /\ i # m + 1
      BY <1>1, <2>4
    <3>2. \A i \in 1 .. m + 1 : i = m + 1 \/ i \in 1 .. m
      BY <1>1
    <3>3. m + 1 \in 1 .. m + 1
      BY <1>1
    <3>4. \A i \in 1 .. m : to[i] = acc.frame[i]
      BY <2>5, <3>1
    <3>5. {to[i] : i \in 1 .. m + 1} = {acc.frame[i] : i \in 1 .. m} \union {frame[k]}
      BY <2>5, <3>1, <3>2, <3>3, <3>4
    <3>6. {frame[i] : i \in new} = {frame[i] : i \in old} \union {frame[k]}
      BY <2>1
    <3> QED
      BY <1>1, <3>5, <3>6
  <2>7. \A i \in 1 .. n : i > k => to[i] = frame[i]
    <3> HIDE DEF to, m
    <3>1. \A i \in 1 .. n : i > k => i > k - 1 /\ i # m + 1
      BY <2>4
    <3> QED
      BY <1>1, <2>5, <3>1
  <2>8. next \in [frame : Pixels(n), numChanged : Nat]
    BY <2>3, <2>4, <2>5
  <2> HIDE DEF next, m, new, old
  <2>9. /\ next.numChanged <= k /\ next.numChanged = Cardinality(new)
        /\ {next.frame[i] : i \in 1 .. next.numChanged} = {frame[i] : i \in new}
    BY <2>2, <2>4, <2>5, <2>6
  <2> QED
    BY <2>7, <2>8, <2>9 DEF PickedTo, next, new
<1> QED
  BY <1>4, <1>5

Picks(last, frame) ==
  CHOOSE f : f = [k \in 0 .. Len(frame) |-> IF k = 0 THEN [frame |-> frame, numChanged |-> 0]
                                            ELSE Picked(f[k - 1], last, k - 1)]

(* GifPickChangedPixels picks the pixels that changed, and no other.       *)
LEMMA PickSound ==
  ASSUME NEW n \in Nat, NEW last, NEW frame \in Pixels(n)
  PROVE  /\ PickChangedPixels(last, frame) \in Seq(Rgb)
         /\ Len(PickChangedPixels(last, frame)) = Cardinality(ChangedTo(last, frame, n))
         /\ ColorsOf(PickChangedPixels(last, frame)) = {frame[i] : i \in ChangedTo(last, frame, n)}
<1> DEFINE S == [frame : Pixels(n), numChanged : Nat]
           base == [frame |-> frame, numChanged |-> 0]
           turn == [k \in 1 .. n |-> [acc \in S |-> Picked(acc, last, k - 1)]]
           f == Picks(last, frame)
           Good == {k \in 0 .. n : PickedTo(n, last, frame, f[k], k)}
<1>1. Len(frame) = n /\ frame \in [1 .. n -> Rgb]
  BY DEF Pixels
<1>2. base \in S
  OBVIOUS
<1>3. turn \in [1 .. n -> [S -> S]]
  <2>1. ASSUME NEW k \in 1 .. n, NEW acc \in S PROVE Picked(acc, last, k - 1) \in S
    <3>1. k - 1 + 1 = k
      OBVIOUS
    <3>2. At(acc.frame, k - 1) \in Rgb /\ acc.frame \in [1 .. n -> Rgb] /\ acc.numChanged + 1 \in Nat
      BY <3>1 DEF At, Pixels
    <3>3. [acc.frame EXCEPT ![acc.numChanged + 1] = At(acc.frame, k - 1)] \in Pixels(n)
      BY <3>2 DEF Pixels
    <3> QED
      BY <3>2, <3>3 DEF Picked
  <2> HIDE DEF S
  <2> QED
    BY <2>1
<1>4. f = [k \in 0 .. n |-> IF k = 0 THEN base ELSE Picked(f[k - 1], last, k - 1)]
  <2>1. Looped(n, S, base, turn) # {}
    <3> HIDE DEF S, base, turn
    <3> QED
      BY <1>2, <1>3, LoopSolved, Zenon
  <2> HIDE DEF S, base
  <2>2. PICK g \in [0 .. n -> S] : g = [k \in 0 .. n |-> IF k = 0 THEN base ELSE turn[k][g[k - 1]]]
    BY <2>1 DEF Looped
  <2>3. ASSUME NEW k \in 0 .. n, k # 0
        PROVE  turn[k][g[k - 1]] = Picked(g[k - 1], last, k - 1)
    <3>1. k \in 1 .. n /\ k - 1 \in 0 .. n
      BY <2>3
    <3> QED
      BY <3>1
  <2>4. g = [k \in 0 .. n |-> IF k = 0 THEN base ELSE Picked(g[k - 1], last, k - 1)]
    BY <2>2, <2>3
  <2> QED
    BY <1>1, <2>4 DEF Picks, base
<1>5. PickChangedPixels(last, frame) = SubSeq(f[n].frame, 1, f[n].numChanged)
  BY <1>1 DEF PickChangedPixels, Picks
<1> HIDE DEF f
<1>6. 0 \in Good
  <2>1. f[0] = base
    BY <1>4
  <2>2. ChangedTo(last, frame, 0) = {}
    BY DEF ChangedTo
  <2>3. 1 .. 0 = {} /\ 0 <= 0 /\ Cardinality({}) = 0
    BY FS_EmptySet
  <2>4. PickedTo(n, last, frame, base, 0)
    BY <1>2, <2>2, <2>3 DEF PickedTo
  <2> QED
    BY <2>1, <2>4
<1>7. ASSUME NEW k \in 1 .. n, k - 1 \in Good PROVE k \in Good
  <2>1. k \in 0 .. n /\ k # 0
    OBVIOUS
  <2>2. f[k] = Picked(f[k - 1], last, k - 1)
    BY <1>4, <2>1
  <2>3. PickedTo(n, last, frame, f[k], k)
    BY <1>7, <2>2, PickedOn
  <2> QED
    BY <2>1, <2>3
<1>8. \A k \in 0 .. n : k \in Good
  <2> HIDE DEF Good
  <2> QED
    BY <1>6, <1>7, LoopInduction
<1> DEFINE to == f[n].frame
           m == f[n].numChanged
<1>9. /\ to \in [1 .. n -> Rgb] /\ m \in 0 .. n /\ m = Cardinality(ChangedTo(last, frame, n))
      /\ {to[i] : i \in 1 .. m} = {frame[i] : i \in ChangedTo(last, frame, n)}
  <2>1. PickedTo(n, last, frame, f[n], n)
    BY <1>8
  <2>2. m \in Nat /\ m <= n
    BY <2>1 DEF PickedTo
  <2>3. m \in 0 .. n
    <3> HIDE DEF m
    <3> QED
      BY <2>2
  <2> QED
    BY <2>1, <2>3 DEF PickedTo, Pixels
<1> HIDE DEF to, m
<1>10. to \in Seq(Rgb) /\ Len(to) = n
  BY <1>9, SeqDef
<1>11. /\ SubSeq(to, 1, m) \in Seq(Rgb) /\ Len(SubSeq(to, 1, m)) = m
       /\ \A i \in 1 .. m : SubSeq(to, 1, m)[i] = to[i]
  BY <1>9, <1>10, PartOfPixels
<1>12. ColorsOf(SubSeq(to, 1, m)) = {to[i] : i \in 1 .. m}
  BY <1>11 DEF ColorsOf
<1> QED
  BY <1>5, <1>9, <1>11, <1>12 DEF to, m

-----------------------------------------------------------------------------
(* The theorems                                                            *)

(* The walk from the first node, with every entry below it.                *)
LEMMA ClosestSound ==
  ASSUME NEW d \in Depths, palette \in Palettes(d), NEW c \in Rgb, garbage \in Garbage[d]
  PROVE  /\ Closest(c).diff \in Nat
         /\ Closest(c).diff < 1000000 =>
              Closest(c).ind \in Leaf(d) \ {0} /\ Closest(c).diff = Diff(c, palette.color[Closest(c).ind])
         /\ \A i \in Leaf(d) \ {0} :
              Reached(d, palette, i) => Closest(c).diff <= Diff(c, palette.color[i])
<1> DEFINE w == [node |-> 1, best |-> [ind |-> 1, diff |-> 1000000]]
           r == Closest(c)
<1>1. 1 \in 1 .. 2^(d + 1) - 1
  <2> DEFINE t == 2^d
  <2>1. t \in Nat /\ t >= 1 /\ 2^(d + 1) = 2 * t
    BY WalkPowers
  <2> HIDE DEF t
  <2> QED
    BY <2>1
<1>2. w \in Walks(d) /\ w.node = 1 /\ w.best.diff = 1000000
  BY <1>1 DEF Walks
<1>3. r = ClosestFrom(palette, c, w)
  BY DEF Closest
<1> HIDE DEF w, r
<1>4. Answers(d, palette, c, w, r)
  BY <1>2, <1>3, WalkSound
<1>5. r \in Bests /\ r.diff \in Nat
  BY <1>4 DEF Answers, Bests
<1>6. r.diff < 1000000 => r.ind \in Leaf(d) \ {0} /\ r.diff = Diff(c, palette.color[r.ind])
  <2>1. r.diff < 1000000 => r # w.best
    BY <1>2, <1>5
  <2> QED
    BY <1>4, <2>1 DEF Answers
<1>7. ASSUME NEW i \in Leaf(d) \ {0}, Reached(d, palette, i) PROVE r.diff <= Diff(c, palette.color[i])
  <2> DEFINE t == 2^d
  <2>1. 1 * t <= t + i /\ t + i < (1 + 1) * t
    <3>1. t \in Nat /\ 2^(d + 1) = 2 * t /\ i \in Nat /\ t + i >= t /\ t + i < 2^(d + 1)
      BY WalkPowers, LeafNumbers
    <3> HIDE DEF t
    <3> QED
      BY <3>1
  <2>2. d \in 0 .. d
    BY DepthIsNat
  <2>3. Below(d, t + i, 1)
    BY <2>1, <2>2 DEF Below, Spans
  <2> QED
    BY <1>2, <1>4, <1>7, <2>3 DEF Answers
<1> QED
  BY <1>5, <1>6, <1>7 DEF r

(* The palette is the one that the pixels make.                            *)
Inv ==
  /\ depth \in Depths /\ garbage \in Garbage[depth] /\ phase \in {"taken", "made"}
  /\ nextFrame \in Seq(Colors)
  /\ lastFrame \in {NULL} \union [1 .. Len(nextFrame) -> OldColors]
  /\ phase = "taken" => palette = Unwritten(depth, garbage)
  /\ phase = "made"  => palette = MadePalette(depth, garbage, PixelsFor(lastFrame, nextFrame))

LEMMA PixelsTypes ==
  ASSUME NEW s \in Seq(Colors)
  PROVE  s \in Seq(Rgb) /\ \A k \in 1 .. Len(s) : s[k] \in ColorsOf(s) /\ s[k] \in Rgb
<1>1. \A c \in Colors : c \in Rgb
  BY PaletteAssumption
<1>2. Len(s) \in Nat /\ s \in [1 .. Len(s) -> Colors]
  OBVIOUS
<1>3. s \in [1 .. Len(s) -> Rgb]
  BY <1>1, <1>2
<1>4. s \in Seq(Rgb)
  BY <1>2, <1>3, SeqDef
<1> QED
  BY <1>3, <1>4 DEF ColorsOf

(* The pixels the palette is made of are those that changed.               *)
LEMMA PixelsSound ==
  ASSUME nextFrame \in Seq(Colors)
  PROVE  /\ PixelsFor(lastFrame, nextFrame) \in Seq(Rgb)
         /\ Len(PixelsFor(lastFrame, nextFrame)) = Cardinality(Changed)
         /\ \A k \in Changed : nextFrame[k] \in ColorsOf(PixelsFor(lastFrame, nextFrame))
                             /\ nextFrame[k] \in Rgb
<1> DEFINE n == Len(nextFrame)
           s == PixelsFor(lastFrame, nextFrame)
<1>1. /\ nextFrame \in Seq(Rgb) /\ n \in Nat
      /\ \A k \in 1 .. n : nextFrame[k] \in ColorsOf(nextFrame) /\ nextFrame[k] \in Rgb
  BY PixelsTypes
<1>2. nextFrame \in Pixels(n)
  BY <1>1 DEF Pixels
<1>3. CASE lastFrame = NULL
  <2>1. s = nextFrame
    BY <1>3 DEF PixelsFor
  <2>2. Changed = 1 .. n
    BY <1>3 DEF Changed
  <2> HIDE DEF n, s
  <2>3. Cardinality(1 .. n) = n
    BY <1>1, FS_Interval
  <2> QED
    BY <1>1, <2>1, <2>2, <2>3 DEF n, s
<1>4. CASE lastFrame # NULL
  <2>1. s = PickChangedPixels(lastFrame, nextFrame)
    BY <1>4 DEF PixelsFor
  <2>2. Changed = ChangedTo(lastFrame, nextFrame, n)
    BY <1>4 DEF Changed, ChangedTo
  <2>3. /\ s \in Seq(Rgb) /\ Len(s) = Cardinality(Changed)
        /\ ColorsOf(s) = {nextFrame[i] : i \in Changed}
    BY <1>1, <1>2, <2>1, <2>2, PickSound
  <2>4. \A k \in Changed : k \in 1 .. n
    BY DEF Changed
  <2> HIDE DEF n, s
  <2> QED
    BY <1>1, <2>3, <2>4 DEF s
<1> QED
  BY <1>3, <1>4

LEMMA InvHolds == Spec => []Inv
<1>1. Init => Inv
  <2>1. SUFFICES ASSUME Init PROVE Inv
    OBVIOUS
  <2>2. PICK n \in 1 .. MaxPixels : /\ nextFrame \in [1 .. n -> Colors]
                                   /\ lastFrame \in {NULL} \union [1 .. n -> OldColors]
    BY <2>1 DEF Init
  <2>3. nextFrame \in Seq(Colors) /\ Len(nextFrame) = n
    <3>1. n \in Nat
      OBVIOUS
    <3> QED
      BY <2>2, <3>1, SeqDef
  <2> QED
    BY <2>1, <2>2, <2>3 DEF Init, Inv
<1>2. Inv /\ [Next]_vars => Inv'
  <2>1. SUFFICES ASSUME Inv, [Next]_vars PROVE Inv'
    OBVIOUS
  <2>2. CASE MakePalette
    BY <2>1, <2>2 DEF Inv, MakePalette
  <2>3. CASE UNCHANGED vars
    BY <2>1, <2>3 DEF Inv, vars
  <2> QED
    BY <2>1, <2>2, <2>3 DEF Next
<1> QED
  BY <1>1, <1>2, PTL DEF Spec

(* Every variable has its type, in every state: a palette is made of the   *)
(* entries that may be, whatever the calls of GifSplitPalette are.         *)
THEOREM PaletteTypes == Spec => []TypeOK
<1>1. Inv => TypeOK
  <2>1. SUFFICES ASSUME Inv PROVE TypeOK
    OBVIOUS
  <2>2. /\ PixelsFor(lastFrame, nextFrame) \in Seq(Rgb)
        /\ depth \in Depths /\ garbage \in Garbage[depth] /\ phase \in {"taken", "made"}
    BY <2>1, PixelsSound DEF Inv
  <2>3. palette \in Palettes(depth) /\ palette.made \subseteq Leaf(depth) \ {0}
    <3>1. CASE phase = "taken"
      BY <2>1, <2>2, <3>1, UnwrittenTypes DEF Inv, Unwritten
    <3>2. CASE phase = "made"
      BY <2>1, <2>2, <3>2, MadeSound DEF Inv, Made
    <3> QED
      BY <2>2, <3>1, <3>2
  <2>4. /\ palette.bitDepth = depth /\ DOMAIN palette.tree = TreeBytes(depth)
        /\ \A i \in Leaf(depth) : palette.color[i] \in Rgb
    BY <2>3 DEF Palettes
  <2> QED
    BY <2>1, <2>3, <2>4 DEF Inv, TypeOK, Entries, kGifTransIndex
<1> QED
  BY <1>1, InvHolds, PTL

(* What the palette that is made holds for a pixel that changed.           *)
LEMMA MadeFor ==
  ASSUME Inv, phase = "made", NEW k \in Changed
  PROVE  /\ nextFrame[k] \in Rgb /\ palette \in Palettes(depth) /\ 1 \in Leaf(depth) \ {0}
         /\ Cardinality(Changed) <= 2^depth - 1 => Closest(nextFrame[k]).diff = 0
         /\ Cardinality(Changed) >= 2^depth - 1 =>
              \A i \in Leaf(depth) \ {0} : Closest(nextFrame[k]).diff <= Diff(nextFrame[k], palette.color[i])
<1> DEFINE c == nextFrame[k]
           s == PixelsFor(lastFrame, nextFrame)
           r == Closest(c)
<1>1. /\ depth \in Depths /\ garbage \in Garbage[depth] /\ s \in Seq(Rgb)
      /\ Len(s) = Cardinality(Changed) /\ c \in Rgb /\ c \in ColorsOf(s)
  BY PixelsSound DEF Inv
<1>2. Made(depth, s, palette)
  BY <1>1, MadeSound DEF Inv
<1>3. palette \in Palettes(depth)
  BY <1>2 DEF Made
<1>4. /\ r.diff \in Nat
      /\ \A i \in Leaf(depth) \ {0} :
           Reached(depth, palette, i) => r.diff <= Diff(c, palette.color[i])
  BY <1>1, <1>3, ClosestSound
<1> HIDE DEF r, s
<1>5. 1 \in Leaf(depth) \ {0}
  <2> DEFINE h == 2^(depth - 1)
  <2>1. depth \in 0 .. depth
    BY <1>1, DepthIsNat
  <2>2. h \in Nat /\ h >= 1 /\ 2^depth = 2 * h
    BY <1>1, <2>1, PlacedPowers
  <2> HIDE DEF h
  <2>3. 1 \in 0 .. 2^depth - 1
    BY <2>2
  <2> QED
    BY <2>3 DEF Leaf
<1>6. ASSUME Cardinality(Changed) <= 2^depth - 1 PROVE r.diff = 0
  <2>1. PICK i \in Leaf(depth) \ {0} : palette.color[i] = c /\ Reached(depth, palette, i)
    BY <1>1, <1>2, <1>6 DEF Made
  <2>2. r.diff <= Diff(c, c)
    BY <1>4, <2>1
  <2>3. Diff(c, c) = 0
    BY <1>1, DiffSound
  <2> QED
    BY <1>4, <2>2, <2>3
<1>7. ASSUME Cardinality(Changed) >= 2^depth - 1, NEW i \in Leaf(depth) \ {0} PROVE r.diff <= Diff(c, palette.color[i])
  BY <1>1, <1>2, <1>4, <1>7 DEF Made
<1> QED
  BY <1>1, <1>3, <1>5, <1>6, <1>7 DEF r

LEMMA ChangedCount ==
  ASSUME nextFrame \in Seq(Colors)
  PROVE  Cardinality(Changed) \in Nat
<1>1. Len(nextFrame) \in Nat /\ Changed \subseteq 1 .. Len(nextFrame)
  BY DEF Changed
<1>2. IsFiniteSet(1 .. Len(nextFrame))
  BY <1>1, FS_Interval
<1> QED
  BY <1>1, <1>2, FS_Subset, FS_CardinalityType

(* GifGetClosestPaletteColor answers, for every pixel that changed, with   *)
(* an entry that none is nearer than, and never with the transparent one.  *)
THEOREM NearestFound == Spec => []ClosestIsNearest
<1>1. Inv => ClosestIsNearest
  <2>1. SUFFICES ASSUME Inv, phase = "made", NEW k \in Changed
                 PROVE  /\ Closest(nextFrame[k]).ind \in Entries
                        /\ Closest(nextFrame[k]).diff = Diff(nextFrame[k], palette.color[Closest(nextFrame[k]).ind])
                        /\ \A i \in Entries : Closest(nextFrame[k]).diff <= Diff(nextFrame[k], palette.color[i])
    BY DEF ClosestIsNearest
  <2> DEFINE c == nextFrame[k]
             r == Closest(c)
  <2>2. depth \in Depths /\ garbage \in Garbage[depth] /\ Cardinality(Changed) \in Nat
    BY <2>1, ChangedCount DEF Inv
  <2>3. /\ c \in Rgb /\ palette \in Palettes(depth) /\ 1 \in Leaf(depth) \ {0}
        /\ Cardinality(Changed) <= 2^depth - 1 => r.diff = 0
        /\ Cardinality(Changed) >= 2^depth - 1 => \A i \in Leaf(depth) \ {0} : r.diff <= Diff(c, palette.color[i])
    BY <2>1, MadeFor
  <2>4. /\ r.diff \in Nat
        /\ r.diff < 1000000 => r.ind \in Leaf(depth) \ {0} /\ r.diff = Diff(c, palette.color[r.ind])
    BY <2>2, <2>3, ClosestSound
  <2> HIDE DEF c, r
  <2>5. \A i \in Leaf(depth) \ {0} : Diff(c, palette.color[i]) \in Nat /\ Diff(c, palette.color[i]) <= 765
    <3>1. \A i \in Leaf(depth) : palette.color[i] \in Rgb
      BY <2>3 DEF Palettes
    <3> QED
      BY <2>3, <3>1, DiffSound
  <2>6. \A i \in Leaf(depth) \ {0} : r.diff <= Diff(c, palette.color[i])
    <3>1. CASE Cardinality(Changed) <= 2^depth - 1
      <4>1. r.diff = 0
        BY <2>3, <3>1
      <4>2. \A n \in Nat : 0 <= n
        OBVIOUS
      <4> QED
        BY <2>5, <4>1, <4>2
    <3>2. CASE Cardinality(Changed) >= 2^depth - 1
      BY <2>3, <3>2
    <3>3. 2^depth \in Nat
      BY <2>2, WalkPowers
    <3> QED
      BY <2>2, <3>1, <3>2, <3>3
  <2>7. r.diff < 1000000
    <3>1. r.diff <= Diff(c, palette.color[1]) /\ Diff(c, palette.color[1]) \in Nat /\ Diff(c, palette.color[1]) <= 765
      BY <2>3, <2>5, <2>6
    <3> QED
      BY <2>4, <3>1
  <2> QED
    BY <2>4, <2>6, <2>7 DEF Entries, kGifTransIndex, c, r
<1> QED
  BY <1>1, InvHolds, PTL

(* With no more changed pixels than entries, every pixel keeps its colour. *)
THEOREM FewExact == Spec => []FewPixelsExact
<1>1. Inv => FewPixelsExact
  BY MadeFor DEF FewPixelsExact
<1> QED
  BY <1>1, InvHolds, PTL

(* GifPartitionByMedian leaves the pixels as a sort would around center.   *)
THEOREM MedianSplits == Spec => []SplitsAtMedian
<1>1. Inv => SplitsAtMedian
  <2> DEFINE image == PixelsFor(lastFrame, nextFrame)
  <2>1. SUFFICES ASSUME Inv, phase = "taken", NEW com \in Component, NEW center \in 0 .. Len(image) - 1
                 PROVE  LET s == PartitionByMedian(image, com, center)
                        IN  /\ \A i \in 0 .. center : At(s, i)[com] <= At(s, center)[com]
                            /\ \A i \in center .. Len(s) - 1 : At(s, i)[com] >= At(s, center)[com]
                            /\ \A c \in Colors : Cardinality({i \in 1 .. Len(s) : s[i] = c})
                                               = Cardinality({i \in 1 .. Len(image) : image[i] = c})
    BY DEF SplitsAtMedian
  <2> DEFINE s == PartitionByMedian(image, com, center)
             n == Len(image)
  <2>2. image \in Seq(Rgb)
    BY <2>1, PixelsSound DEF Inv
  <2> HIDE DEF image
  <2>3. s \in Pixels(n) /\ Median(n, s, com, center) /\ Rearranged(n, image, s)
    BY <2>1, <2>2, MedianSound
  <2>4. n \in Nat
    BY <2>2
  <2> HIDE DEF s, n
  <2>5. Len(s) = n
    BY <2>3, <2>4 DEF Pixels
  <2>6. \A c \in Colors : Cardinality({i \in 1 .. n : s[i] = c}) = Cardinality({i \in 1 .. n : image[i] = c})
    <3>1. \A c \in Colors : c \in Rgb
      BY PaletteAssumption
    <3> QED
      BY <2>3, <3>1 DEF Rearranged
  <2>7. /\ \A i \in 0 .. center : At(s, i)[com] <= At(s, center)[com]
        /\ \A i \in center .. n - 1 : At(s, i)[com] >= At(s, center)[com]
    BY <2>3 DEF Median
  <2> QED
    BY <2>5, <2>6, <2>7 DEF s, n, image
<1> QED
  BY <1>1, InvHolds, PTL
=============================================================================
