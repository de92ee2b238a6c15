------------------------------ MODULE Recursion ------------------------------
(***************************************************************************)
(* What the proofs know of recursive functions.  The induction theorems of *)
(* the library take operators, which the provers cannot give them; here    *)
(* every set, rank and step is a value, and both the existence of a        *)
(* solution and the induction follow from the smallest rank where they     *)
(* would fail.                                                             *)
(***************************************************************************)
EXTENDS Integers, WellFoundedInduction, TLAPS

(* A set of naturals that is not empty has a smallest element.             *)
LEMMA SmallestExists ==
  ASSUME NEW S, S \subseteq Nat, S # {}
  PROVE  \E m \in S : \A x \in S : m <= x
<1>1. PICK m \in S : \A x \in S : ~(<<x, m>> \in OpToRel(<, Nat))
  BY NatLessThanWellFounded, WFMin, Zenon
<1>2. \A x \in S : ~(x < m)
  BY <1>1 DEF OpToRel
<1>3. QED
  BY <1>2

(* The function step gives the value at an element of D from the values    *)
(* elsewhere, and asks only for those of elements of a smaller rank.       *)
Descends(D, S, rank, step) ==
  \A x \in D : \A g, h \in [D -> S] :
    (\A y \in D : rank[y] < rank[x] => g[y] = h[y]) => step[x][g] = step[x][h]

Solution(D, S, step) == {f \in [D -> S] : \A x \in D : f[x] = step[x][f]}

(* A recursion that goes to elements of smaller rank has a solution.       *)
LEMMA RecursionSolved ==
  ASSUME NEW D, NEW S, NEW default \in S, NEW M \in Nat, NEW rank \in [D -> 0 .. M],
         NEW step \in [D -> [[D -> S] -> S]], Descends(D, S, rank, step)
  PROVE  Solution(D, S, step) # {}
<1> DEFINE Solves(f, m) == \A x \in D : rank[x] < m => f[x] = step[x][f]
           Unsolved == {m \in Nat : ~\E f \in [D -> S] : Solves(f, m)}
<1>0. \A x \in D : rank[x] \in Nat
  OBVIOUS
<1>1. 0 \notin Unsolved
  <2>1. [x \in D |-> default] \in [D -> S]
    OBVIOUS
  <2>2. \A x \in D : ~(rank[x] < 0)
    OBVIOUS
  <2> QED
    BY <2>1, <2>2
<1>2. ASSUME NEW m \in Nat, m \notin Unsolved
      PROVE  m + 1 \notin Unsolved
  <2>1. PICK g \in [D -> S] : Solves(g, m)
    BY <1>2
  <2> DEFINE f == [x \in D |-> IF rank[x] = m THEN step[x][g] ELSE g[x]]
  <2>2. f \in [D -> S]
    OBVIOUS
  <2>3. \A y \in D : rank[y] < m => f[y] = g[y]
    OBVIOUS
  <2>4. \A x \in D : rank[x] < m + 1 => rank[x] = m \/ rank[x] < m
    <3> HIDE DEF Unsolved, f
    <3>1. \A k \in Nat : k < m + 1 => k = m \/ k < m
      OBVIOUS
    <3> QED
      BY <1>0, <3>1
  <2>5. \A x \in D : rank[x] < m + 1 => step[x][f] = step[x][g]
    <3> HIDE DEF f
    <3>1. SUFFICES ASSUME NEW x \in D, rank[x] < m + 1 PROVE step[x][f] = step[x][g]
      OBVIOUS
    <3>2. \A y \in D : rank[y] < rank[x] => rank[y] < m
      BY <3>1
    <3>3. \A y \in D : rank[y] < rank[x] => f[y] = g[y]
      BY <2>3, <3>2
    <3> QED
      BY <2>2, <3>3 DEF Descends
  <2>6. ASSUME NEW x \in D, rank[x] < m + 1
        PROVE  f[x] = step[x][g]
    <3>1. CASE rank[x] = m
      BY <3>1
    <3>2. CASE rank[x] < m
      <4>1. f[x] = g[x]
        BY <2>3, <3>2
      <4>2. g[x] = step[x][g]
        BY <2>1, <3>2
      <4> QED
        BY <4>1, <4>2
    <3>3. rank[x] = m \/ rank[x] < m
      BY <2>4, <2>6
    <3> QED
      BY <3>1, <3>2, <3>3
  <2>7. Solves(f, m + 1)
    <3> HIDE DEF f
    <3> QED
      BY <2>5, <2>6
  <2> QED
    BY <2>2, <2>7
<1>3. Unsolved = {}
  <2>1. Unsolved \subseteq Nat
    OBVIOUS
  <2> HIDE DEF Unsolved
  <2>2. SUFFICES ASSUME Unsolved # {} PROVE FALSE
    OBVIOUS
  <2>3. PICK m \in Unsolved : \A x \in Unsolved : m <= x
    BY <2>1, <2>2, SmallestExists
  <2>4. m # 0 /\ m \in Nat
    BY <1>1, <2>1, <2>3
  <2>5. m - 1 \in Nat /\ m - 1 \notin Unsolved /\ (m - 1) + 1 = m
    BY <2>1, <2>3, <2>4
  <2> QED
    BY <1>2, <2>3, <2>5
<1>4. M + 1 \in Nat /\ M + 1 \notin Unsolved
  <2> HIDE DEF Unsolved
  <2> QED
    BY <1>3
<1>5. PICK f \in [D -> S] : Solves(f, M + 1)
  BY <1>4
<1>6. \A x \in D : rank[x] < M + 1
  OBVIOUS
<1> QED
  BY <1>5, <1>6 DEF Solution

(* What holds of an element whenever it holds of those of smaller rank     *)
(* holds of all.                                                           *)
LEMMA RankInduction ==
  ASSUME NEW D, NEW rank \in [D -> Nat], NEW Good,
         \A x \in D : (\A y \in D : rank[y] < rank[x] => y \in Good) => x \in Good
  PROVE  \A x \in D : x \in Good
<1> DEFINE Bad == {rank[x] : x \in {y \in D : y \notin Good}}
<1>1. Bad \subseteq Nat
  OBVIOUS
<1>2. SUFFICES ASSUME Bad # {} PROVE FALSE
  OBVIOUS
<1>3. PICK m \in Bad : \A k \in Bad : m <= k
  BY <1>1, <1>2, SmallestExists
<1>4. PICK x \in D : x \notin Good /\ rank[x] = m
  BY <1>3
<1>5. \A y \in D : rank[y] < rank[x] => y \in Good
  <2>1. SUFFICES ASSUME NEW y \in D, rank[y] < rank[x], y \notin Good PROVE FALSE
    OBVIOUS
  <2>2. rank[y] \in Bad
    BY <2>1
  <2> HIDE DEF Bad
  <2>3. m <= rank[y] /\ rank[y] < m
    BY <1>3, <1>4, <2>1, <2>2
  <2>4. m \in Nat /\ rank[y] \in Nat
    BY <1>1, <1>3, <2>2
  <2> QED
    BY <2>3, <2>4
<1> QED
  BY <1>4, <1>5

(* The functions of such a recursion, one value from the one before.       *)
Looped(n, S, base, turn) ==
  {f \in [0 .. n -> S] : f = [k \in 0 .. n |-> IF k = 0 THEN base ELSE turn[k][f[k - 1]]]}

(* A recursion over the numbers to n, from each to the next, has a         *)
(* solution.                                                               *)
LEMMA LoopSolved ==
  ASSUME NEW n \in Nat, NEW S, NEW base \in S, NEW turn \in [1 .. n -> [S -> S]]
  PROVE  Looped(n, S, base, turn) # {}
<1> DEFINE D == 0 .. n
           rank == [k \in D |-> k]
           step == [k \in D |-> [f \in [D -> S] |-> IF k = 0 THEN base ELSE turn[k][f[k - 1]]]]
<1>1. \A k \in D : k # 0 => k \in 1 .. n /\ k - 1 \in D /\ k - 1 < k
  OBVIOUS
<1>2. rank \in [D -> 0 .. n]
  OBVIOUS
<1>3. step \in [D -> [[D -> S] -> S]]
  <2>1. ASSUME NEW k \in D, NEW f \in [D -> S]
        PROVE  (IF k = 0 THEN base ELSE turn[k][f[k - 1]]) \in S
    <3> HIDE DEF D
    <3> QED
      BY <1>1
  <2> HIDE DEF D
  <2> QED
    BY <2>1
<1>4. ASSUME NEW k \in D, NEW g \in [D -> S], NEW h \in [D -> S],
             \A j \in D : rank[j] < rank[k] => g[j] = h[j]
      PROVE  step[k][g] = step[k][h]
  <2>1. k # 0 => g[k - 1] = h[k - 1]
    BY <1>1, <1>4
  <2> HIDE DEF D
  <2> QED
    BY <2>1
<1>5. Solution(D, S, step) # {}
  <2>1. Descends(D, S, rank, step)
    BY <1>4 DEF Descends
  <2> HIDE DEF D, rank, step
  <2> QED
    BY <1>2, <1>3, <2>1, RecursionSolved, Zenon
<1>6. PICK f \in [D -> S] : \A k \in D : f[k] = step[k][f]
  BY <1>5 DEF Solution
<1>7. \A k \in D : f[k] = IF k = 0 THEN base ELSE turn[k][f[k - 1]]
  <2> HIDE DEF D
  <2> QED
    BY <1>6
<1> HIDE DEF step, rank
<1>8. f = [k \in D |-> IF k = 0 THEN base ELSE turn[k][f[k - 1]]]
  BY <1>7
<1> QED
  BY <1>8 DEF Looped

(* What holds of 0, and of a number when it holds of the one before.       *)
LEMMA LoopInduction ==
  ASSUME NEW n \in Nat, NEW Good, 0 \in Good, \A k \in 1 .. n : k - 1 \in Good => k \in Good
  PROVE  \A k \in 0 .. n : k \in Good
<1> DEFINE D == 0 .. n
           rank == [k \in D |-> k]
<1>1. rank \in [D -> Nat]
  OBVIOUS
<1>2. ASSUME NEW k \in D, \A j \in D : rank[j] < rank[k] => j \in Good
      PROVE  k \in Good
  <2>1. k # 0 => k \in 1 .. n /\ k - 1 \in D /\ k - 1 < k
    OBVIOUS
  <2> HIDE DEF D
  <2>2. k # 0 => k - 1 \in Good
    BY <1>2, <2>1
  <2> QED
    BY <2>1, <2>2
<1> HIDE DEF D, rank
<1>3. \A k \in D : k \in Good
  BY <1>1, <1>2, RankInduction
<1> QED
  BY <1>3 DEF D
=============================================================================
