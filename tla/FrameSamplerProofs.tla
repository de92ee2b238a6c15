-------------------------- MODULE FrameSamplerProofs --------------------------
(***************************************************************************)
(* Theorems about FrameSampler: for streams of any length, with frames at  *)
(* any times or none, any delay of the decoder and any pictures refused.   *)
(***************************************************************************)
EXTENDS FrameSampler, FiniteSetTheorems, SequenceTheorems, WellFoundedInduction, TLAPS

-----------------------------------------------------------------------------
(* The bisection                                                           *)

(* A set of naturals that is not empty has a smallest element.             *)
LEMMA SmallestExists ==
  ASSUME NEW S, S \subseteq Nat, S # {}
  PROVE  \E m \in S : \A x \in S : m <= x
<1>1. PICK m \in S : \A x \in S : ~(<<x, m>> \in OpToRel(<, Nat))
  BY NatLessThanWellFounded, WFMin, Zenon
<1>2. \A x \in S : ~(x < m)
  BY <1>1 DEF OpToRel
<1>3. QED
  BY <1>2

(* One turn of the bisection, which goes on with after.                    *)
Turn(frames, preceding, after, r) ==
  LET half == r[2] \div 2
      mid  == r[1] + half + 1
  IN  IF r[2] = 0 THEN r[1]
      ELSE IF frames[mid] = NoFrame THEN -1
      ELSE IF mid \in preceding THEN after[<<mid, r[2] - half - 1>>]
      ELSE after[<<r[1], half>>]

(* The middle of a stretch, and what is left of it behind and before.      *)
Middle(r) == r[1] + r[2] \div 2 + 1
Behind(r) == <<Middle(r), r[2] - r[2] \div 2 - 1>>
Ahead(r)  == <<r[1], r[2] \div 2>>

(* The arithmetic of one turn.                                             *)
LEMMA HalfBounds ==
  ASSUME NEW n \in Nat, NEW a \in Nat, NEW l \in Nat, l # 0, a + l <= n
  PROVE  /\ l \div 2 \in 0 .. n /\ l \div 2 < l
         /\ a + l \div 2 + 1 \in 0 .. n /\ a + l \div 2 + 1 >= 1
         /\ l - l \div 2 - 1 \in 0 .. n /\ l - l \div 2 - 1 < l
<1> DEFINE h == l \div 2
<1>1. h \in Nat /\ 2 * h <= l
  OBVIOUS
<1> HIDE DEF h
<1>2. h \in 0 .. n /\ h < l /\ a + h + 1 \in 0 .. n /\ a + h + 1 >= 1
  BY <1>1
<1>3. l - h - 1 \in 0 .. n /\ l - h - 1 < l
  BY <1>1
<1>4. QED
  BY <1>2, <1>3 DEF h

(* A turn leaves a shorter stretch to search.                              *)
LEMMA TurnShortens ==
  ASSUME NEW n \in Nat, NEW r \in Stretches(n)
  PROVE  /\ r[1] \in 0 .. n /\ r[2] \in 0 .. n /\ r[1] + r[2] <= n
         /\ r[2] # 0 => /\ Middle(r) \in 1 .. n
                        /\ Behind(r) \in Stretches(n) /\ Behind(r)[2] < r[2]
                        /\ Ahead(r) \in Stretches(n) /\ Ahead(r)[2] < r[2]
<1>1. r[1] \in 0 .. n /\ r[2] \in 0 .. n /\ r[1] + r[2] <= n
  BY DEF Stretches
<1>2. ASSUME r[2] # 0
      PROVE  /\ Middle(r) \in 1 .. n
             /\ Behind(r) \in Stretches(n) /\ Behind(r)[2] < r[2]
             /\ Ahead(r) \in Stretches(n) /\ Ahead(r)[2] < r[2]
  <2>1. r[1] \in Nat /\ r[2] \in Nat
    BY <1>1
  <2>2. /\ r[2] \div 2 \in 0 .. n /\ r[2] \div 2 < r[2]
        /\ r[1] + r[2] \div 2 + 1 \in 0 .. n /\ r[1] + r[2] \div 2 + 1 >= 1
        /\ r[2] - r[2] \div 2 - 1 \in 0 .. n /\ r[2] - r[2] \div 2 - 1 < r[2]
    BY <1>1, <1>2, <2>1, HalfBounds
  <2> DEFINE h == r[2] \div 2
  <2>3. h \in 0 .. n
    BY <2>2
  <2> HIDE DEF h
  <2>4. /\ r[1] + h + 1 \in 0 .. n /\ r[1] + h + 1 >= 1
        /\ r[2] - h - 1 \in 0 .. n /\ r[2] - h - 1 < r[2] /\ h < r[2]
    BY <2>2 DEF h
  <2>5. r[1] + h + 1 \in 1 .. n
    BY <2>4
  <2>6. (r[1] + h + 1) + (r[2] - h - 1) <= n /\ r[1] + h <= n
    BY <1>1, <2>3, <2>4
  <2>7. /\ <<r[1] + h + 1, r[2] - h - 1>> \in Stretches(n)
        /\ <<r[1], h>> \in Stretches(n)
    BY <1>1, <2>3, <2>4, <2>6 DEF Stretches
  <2>8. QED
    BY <2>4, <2>5, <2>7 DEF h, Middle, Behind, Ahead
<1>3. QED
  BY <1>1, <1>2

(* A turn in terms of these.                                               *)
LEMMA TurnCases ==
  ASSUME NEW frames, NEW preceding, NEW after, NEW r
  PROVE  Turn(frames, preceding, after, r) =
           IF r[2] = 0 THEN r[1]
           ELSE IF frames[Middle(r)] = NoFrame THEN -1
           ELSE IF Middle(r) \in preceding THEN after[Behind(r)]
           ELSE after[Ahead(r)]
BY DEF Turn, Middle, Behind, Ahead

(* The stretches of at most m frames, and the bisection of these.          *)
Short(n, m) == {r \in Stretches(n) : r[2] <= m}
Solves(frames, preceding, n, f, m) ==
  f = [r \in Short(n, m) |-> Turn(frames, preceding, f, r)]

(* A solution for short stretches gives one for stretches of one more.     *)
LEMMA SolutionGrows ==
  ASSUME NEW frames, NEW preceding, NEW n \in Nat, NEW m \in Nat, m # 0,
         NEW g, Solves(frames, preceding, n, g, m - 1)
  PROVE  \E f : Solves(frames, preceding, n, f, m)
<1> DEFINE f == [r \in Short(n, m) |-> Turn(frames, preceding, g, r)]
<1>1. \A r \in Short(n, m - 1) : g[r] = Turn(frames, preceding, g, r)
  BY DEF Solves
<1>2. \A r \in Short(n, m - 1) : r \in Short(n, m)
  BY TurnShortens DEF Short
<1>3. \A r \in Short(n, m - 1) : f[r] = g[r]
  BY <1>1, <1>2
<1>4. ASSUME NEW r \in Short(n, m)
      PROVE  Turn(frames, preceding, f, r) = Turn(frames, preceding, g, r)
  <2>1. CASE r[2] = 0
    BY <2>1, TurnCases
  <2>2. CASE r[2] # 0
    <3>1. r \in Stretches(n) /\ r[2] <= m
      BY DEF Short
    <3>2. /\ Behind(r) \in Stretches(n) /\ Behind(r)[2] < r[2]
          /\ Ahead(r) \in Stretches(n) /\ Ahead(r)[2] < r[2]
          /\ r[2] \in 0 .. n
      BY <2>2, <3>1, TurnShortens
    <3>3. Behind(r)[2] \in 0 .. n /\ Ahead(r)[2] \in 0 .. n
      BY <3>2, TurnShortens
    <3>4. Behind(r)[2] <= m - 1 /\ Ahead(r)[2] <= m - 1
      BY <3>1, <3>2, <3>3
    <3>5. Behind(r) \in Short(n, m - 1) /\ Ahead(r) \in Short(n, m - 1)
      BY <3>2, <3>4 DEF Short
    <3>6. f[Behind(r)] = g[Behind(r)] /\ f[Ahead(r)] = g[Ahead(r)]
      BY <1>3, <3>5
    <3> HIDE DEF f
    <3>7. QED
      BY <3>6, TurnCases
  <2>3. QED
    BY <2>1, <2>2
<1>5. f = [r \in Short(n, m) |-> Turn(frames, preceding, f, r)]
  BY <1>4
<1> HIDE DEF f
<1>6. QED
  BY <1>5 DEF Solves

(* The recursion of the bisection has a solution.                          *)
LEMMA BisectionDefined ==
  ASSUME NEW frames, NEW preceding, NEW n \in Nat
  PROVE  \E after : after = [r \in Stretches(n) |-> Turn(frames, preceding, after, r)]
<1> DEFINE Unsolved == {m \in Nat : ~\E f : Solves(frames, preceding, n, f, m)}
<1>1. ASSUME Unsolved # {} PROVE FALSE
  <2>0. Unsolved \subseteq Nat
    OBVIOUS
  <2> HIDE DEF Unsolved
  <2>1. PICK m \in Unsolved : \A x \in Unsolved : m <= x
    BY <1>1, <2>0, SmallestExists
  <2> USE DEF Unsolved
  <2>2. ASSUME m = 0 PROVE FALSE
    <3> DEFINE f == [r \in Short(n, 0) |-> r[1]]
    <3>1. \A r \in Short(n, 0) : r[2] = 0
      BY TurnShortens DEF Short
    <3>2. \A r \in Short(n, 0) : Turn(frames, preceding, f, r) = r[1]
      BY <3>1, TurnCases
    <3>3. f = [r \in Short(n, 0) |-> Turn(frames, preceding, f, r)]
      BY <3>2
    <3> HIDE DEF f
    <3>4. Solves(frames, preceding, n, f, 0)
      BY <3>3 DEF Solves
    <3>5. QED
      BY <2>1, <2>2, <3>4
  <2>3. m \in Nat /\ m - 1 \in Nat /\ ~(m <= m - 1)
    BY <2>0, <2>1, <2>2
  <2>4. m - 1 \notin Unsolved
    BY <2>1, <2>3
  <2>5. PICK g : Solves(frames, preceding, n, g, m - 1)
    BY <2>3, <2>4
  <2>6. \E f : Solves(frames, preceding, n, f, m)
    BY <2>2, <2>3, <2>5, SolutionGrows
  <2>7. QED
    BY <2>1, <2>6
<1>2. PICK f : Solves(frames, preceding, n, f, n)
  BY <1>1
<1>3. Short(n, n) = Stretches(n)
  BY TurnShortens DEF Short
<1>4. f = [r \in Stretches(n) |-> Turn(frames, preceding, f, r)]
  BY <1>2, <1>3 DEF Solves
<1>5. QED
  BY <1>4

(* What the bisection of a stretch finds: the end of what precedes.        *)
Found(preceding, r, k) ==
  /\ k \in r[1] .. r[1] + r[2]
  /\ \A i \in r[1] + 1 .. k : i \in preceding
  /\ \A i \in k + 1 .. r[1] + r[2] : i \notin preceding

(* What precedes comes first, and there is no null frame.                  *)
Split(frames, preceding) ==
  /\ ~HasNull(frames)
  /\ \A i, j \in DOMAIN frames : i < j /\ j \in preceding => i \in preceding
FoundOrNull(frames, preceding, r, k) ==
  /\ k = -1 \/ k \in r[1] .. r[1] + r[2]
  /\ Split(frames, preceding) => Found(preceding, r, k)

(* By the length of the stretch: every turn keeps what is to be found.     *)
LEMMA BisectionFinds ==
  ASSUME NEW frames, NEW preceding, NEW n \in Nat, DOMAIN frames = 1 .. n, Len(frames) = n,
         NEW after, after = [r \in Stretches(n) |-> Turn(frames, preceding, after, r)]
  PROVE  \A r \in Stretches(n) : FoundOrNull(frames, preceding, r, after[r])
<1> DEFINE Wrong == {m \in Nat : \E r \in Stretches(n) :
                       r[2] = m /\ ~FoundOrNull(frames, preceding, r, after[r])}
<1>1. ASSUME Wrong # {} PROVE FALSE
  <2>0. Wrong \subseteq Nat
    OBVIOUS
  <2> HIDE DEF Wrong
  <2>1. PICK m \in Wrong : \A x \in Wrong : m <= x
    BY <1>1, <2>0, SmallestExists
  <2> USE DEF Wrong
  <2>2. PICK r \in Stretches(n) : r[2] = m /\ ~FoundOrNull(frames, preceding, r, after[r])
    BY <2>1
  <2>3. ASSUME NEW q \in Stretches(n), q[2] < r[2]
        PROVE  FoundOrNull(frames, preceding, q, after[q])
    <3>1. q[2] \in Nat /\ r[2] \in Nat
      BY TurnShortens
    <3>2. q[2] \notin Wrong
      BY <2>1, <2>2, <2>3, <3>1
    <3>3. QED
      BY <3>1, <3>2
  <2> HIDE DEF Wrong
  <2>4. r[1] \in 0 .. n /\ r[2] \in 0 .. n /\ r[1] + r[2] <= n
    BY TurnShortens
  <2>5. after[r] = Turn(frames, preceding, after, r)
    OBVIOUS
  <2>6. CASE r[2] = 0
    <3>1. after[r] = r[1]
      BY <2>5, <2>6, TurnCases
    <3>2. QED
      BY <2>2, <2>4, <2>6, <3>1 DEF FoundOrNull, Found
  <2>7. CASE r[2] # 0
    <3>1. /\ Middle(r) \in 1 .. n
          /\ Behind(r) \in Stretches(n) /\ Behind(r)[2] < r[2]
          /\ Ahead(r) \in Stretches(n) /\ Ahead(r)[2] < r[2]
      BY <2>7, TurnShortens
    <3>2. /\ FoundOrNull(frames, preceding, Behind(r), after[Behind(r)])
          /\ FoundOrNull(frames, preceding, Ahead(r), after[Ahead(r)])
      BY <2>3, <3>1
    <3>3. /\ Behind(r)[1] = Middle(r) /\ Ahead(r)[1] = r[1]
          /\ Behind(r)[1] + Behind(r)[2] = r[1] + r[2]
          /\ Ahead(r)[1] + Ahead(r)[2] + 1 = Middle(r)
          /\ Behind(r)[2] \in Nat /\ Ahead(r)[2] \in Nat
      <4>1. Behind(r)[2] \in Nat /\ Ahead(r)[2] \in Nat
        BY <3>1, TurnShortens
      <4> DEFINE h == r[2] \div 2
      <4>2. h \in Nat
        BY <4>1 DEF Ahead
      <4> HIDE DEF h
      <4>3. Behind(r) = <<r[1] + h + 1, r[2] - h - 1>> /\ Ahead(r) = <<r[1], h>>
            /\ Middle(r) = r[1] + h + 1
        BY DEF h, Behind, Ahead, Middle
      <4>4. QED
        BY <2>4, <4>1, <4>2, <4>3
    <3>4. ASSUME frames[Middle(r)] = NoFrame PROVE FALSE
      <4>1. after[r] = -1
        BY <2>5, <2>7, <3>4, TurnCases
      <4>2. ~Split(frames, preceding)
        BY <3>1, <3>4 DEF Split, HasNull
      <4>3. QED
        BY <2>2, <4>1, <4>2 DEF FoundOrNull
    <3>5. ASSUME frames[Middle(r)] # NoFrame, Middle(r) \in preceding PROVE FALSE
      <4>1. after[r] = after[Behind(r)]
        BY <2>5, <2>7, <3>5, TurnCases
      <4>2. after[r] = -1 \/ after[r] \in r[1] .. r[1] + r[2]
        BY <2>4, <3>1, <3>2, <3>3, <4>1 DEF FoundOrNull
      <4>3. ASSUME Split(frames, preceding) PROVE Found(preceding, r, after[r])
        <5>1. Found(preceding, Behind(r), after[r])
          BY <3>2, <4>1, <4>3 DEF FoundOrNull
        <5>2. \A i \in r[1] + 1 .. Middle(r) : i \in preceding
          <6>1. TAKE i \in r[1] + 1 .. Middle(r)
          <6>2. i \in 1 .. n /\ (i = Middle(r) \/ i < Middle(r))
            BY <2>4, <3>1
          <6>3. QED
            BY <3>1, <3>5, <4>3, <6>2 DEF Split
        <5>3. after[r] \in Int /\ Middle(r) <= after[r]
          BY <3>1, <3>3, <5>1 DEF Found
        <5>4. \A i \in r[1] + 1 .. after[r] : i \in preceding
          <6>1. TAKE i \in r[1] + 1 .. after[r]
          <6>2. i \in r[1] + 1 .. Middle(r) \/ i \in Middle(r) + 1 .. after[r]
            BY <2>4, <3>1, <5>3
          <6>3. QED
            BY <3>3, <5>1, <5>2, <6>2 DEF Found
        <5>5. /\ after[r] \in Behind(r)[1] .. Behind(r)[1] + Behind(r)[2]
              /\ \A i \in after[r] + 1 .. Behind(r)[1] + Behind(r)[2] : i \notin preceding
          BY <5>1 DEF Found
        <5>6. Behind(r)[1] + Behind(r)[2] = r[1] + r[2]
          BY <3>3
        <5>7. \A i \in after[r] + 1 .. r[1] + r[2] : i \notin preceding
          BY <5>5, <5>6
        <5>8. after[r] \in Behind(r)[1] .. r[1] + r[2]
          BY <5>5, <5>6
        <5>9. after[r] \in r[1] .. r[1] + r[2]
          <6>1. r[1] <= Middle(r)
            BY <2>4, <3>1, <3>3
          <6>2. QED
            BY <2>4, <3>1, <3>3, <5>8, <6>1
        <5>10. QED
          BY <5>4, <5>7, <5>9 DEF Found
      <4>4. QED
        BY <2>2, <4>2, <4>3 DEF FoundOrNull
    <3>6. ASSUME frames[Middle(r)] # NoFrame, Middle(r) \notin preceding PROVE FALSE
      <4>1. after[r] = after[Ahead(r)]
        BY <2>5, <2>7, <3>6, TurnCases
      <4>2. after[r] = -1 \/ after[r] \in r[1] .. r[1] + r[2]
        BY <2>4, <3>1, <3>2, <3>3, <4>1 DEF FoundOrNull
      <4>3. ASSUME Split(frames, preceding) PROVE Found(preceding, r, after[r])
        <5>1. Found(preceding, Ahead(r), after[r])
          BY <3>2, <4>1, <4>3 DEF FoundOrNull
        <5>2. \A i \in Middle(r) .. r[1] + r[2] : i \notin preceding
          <6>1. SUFFICES ASSUME NEW i \in Middle(r) .. r[1] + r[2], i \in preceding PROVE FALSE
            OBVIOUS
          <6>2. i \in 1 .. n /\ (i = Middle(r) \/ Middle(r) < i)
            BY <2>4, <3>1
          <6>3. QED
            BY <3>1, <3>6, <4>3, <6>1, <6>2 DEF Split
        <5>3. after[r] \in r[1] .. Middle(r) - 1
          BY <2>4, <3>1, <3>3, <5>1 DEF Found
        <5>4. \A i \in after[r] + 1 .. r[1] + r[2] : i \notin preceding
          <6>1. TAKE i \in after[r] + 1 .. r[1] + r[2]
          <6>2. i \in after[r] + 1 .. Middle(r) - 1 \/ i \in Middle(r) .. r[1] + r[2]
            BY <2>4, <3>1, <5>3
          <6>3. after[r] + 1 .. Middle(r) - 1 = after[r] + 1 .. Ahead(r)[1] + Ahead(r)[2]
            BY <2>4, <3>1, <3>3
          <6>4. QED
            BY <5>1, <5>2, <6>2, <6>3 DEF Found
        <5>5. \A i \in r[1] + 1 .. after[r] : i \in preceding
          BY <3>3, <5>1 DEF Found
        <5>6. after[r] \in r[1] .. r[1] + r[2]
          BY <2>4, <3>1, <3>3, <5>3
        <5>7. QED
          BY <5>4, <5>5, <5>6 DEF Found
      <4>4. QED
        BY <2>2, <4>2, <4>3 DEF FoundOrNull
    <3>7. QED
      BY <3>4, <3>5, <3>6
  <2>8. QED
    BY <2>6, <2>7
<1>2. ASSUME NEW r \in Stretches(n) PROVE FoundOrNull(frames, preceding, r, after[r])
  <2>1. r[2] \in Nat
    BY TurnShortens
  <2>2. QED
    BY <1>1, <2>1
<1>3. QED
  BY <1>2

(* Bisect searches all the frames.                                         *)
LEMMA BisectSearches ==
  ASSUME NEW frames, NEW preceding, NEW n \in Nat, DOMAIN frames = 1 .. n, Len(frames) = n
  PROVE  FoundOrNull(frames, preceding, <<0, n>>, Bisect(frames, preceding))
<1> DEFINE after == CHOOSE f : f = [r \in Stretches(n) |-> Turn(frames, preceding, f, r)]
<1>1. after = [r \in Stretches(n) |-> Turn(frames, preceding, after, r)]
  BY BisectionDefined
<1>2. Bisect(frames, preceding) = after[<<0, n>>]
  BY DEF Bisect, Turn
<1> HIDE DEF after
<1>3. <<0, n>> \in Stretches(n)
  BY DEF Stretches
<1>4. FoundOrNull(frames, preceding, <<0, n>>, after[<<0, n>>])
  BY <1>1, <1>3, BisectionFinds
<1>5. QED
  BY <1>2, <1>4

InOrder(frames) ==
  \A i, j \in 1 .. Len(frames) : i < j => frames[i].time <= frames[j].time

(* The bound is a place among the frames, or behind them, or -- when a     *)
(* null frame was met -- 0.                                                *)
LEMMA LowerBoundRange ==
  ASSUME NEW S, NEW frames \in Seq(S), NEW t
  PROVE  LowerBound(frames, t) \in 0 .. Len(frames) + 1
<1>1. Len(frames) \in Nat /\ DOMAIN frames = 1 .. Len(frames)
  OBVIOUS
<1>2. FoundOrNull(frames, Before(frames, t), <<0, Len(frames)>>, Bisect(frames, Before(frames, t)))
  BY <1>1, BisectSearches
<1>3. QED
  BY <1>1, <1>2 DEF FoundOrNull, LowerBound

(* In frames in the order of time, it parts those before t from the rest.  *)
LEMMA LowerBoundFinds ==
  ASSUME NEW S, \A f \in S : f = NoFrame \/ f.time \in Int,
         NEW frames \in Seq(S), ~HasNull(frames), InOrder(frames), NEW t \in Int
  PROVE  /\ LowerBound(frames, t) \in 1 .. Len(frames) + 1
         /\ \A i \in 1 .. LowerBound(frames, t) - 1 : frames[i].time < t
         /\ \A i \in LowerBound(frames, t) .. Len(frames) : frames[i].time >= t
<1>1. /\ Len(frames) \in Nat /\ DOMAIN frames = 1 .. Len(frames)
      /\ \A i \in 1 .. Len(frames) : frames[i] # NoFrame /\ frames[i].time \in Int
  BY DEF HasNull
<1> DEFINE before == Before(frames, t)
           k == Bisect(frames, before)
<1>2. \A i \in 1 .. Len(frames) : i \in before <=> frames[i].time < t
  BY <1>1 DEF Before
<1>3. Split(frames, before)
  <2>1. ASSUME NEW i \in DOMAIN frames, NEW j \in DOMAIN frames, i < j, j \in before
        PROVE  i \in before
    BY <1>1, <1>2, <2>1 DEF InOrder
  <2>2. QED
    BY <2>1 DEF Split
<1>4. Found(before, <<0, Len(frames)>>, k)
  BY <1>1, <1>3, BisectSearches DEF FoundOrNull
<1>5. LowerBound(frames, t) = k + 1
  <2>1. k \in Int
    BY <1>1, <1>4 DEF Found
  <2>2. QED
    BY <2>1 DEF LowerBound
<1> HIDE DEF before, k
<1>6. /\ k \in 0 .. Len(frames)
      /\ \A i \in 1 .. k : i \in before
      /\ \A i \in k + 1 .. Len(frames) : i \notin before
  BY <1>1, <1>4 DEF Found
<1>7. QED
  BY <1>1, <1>2, <1>5, <1>6

(* What is picked of the frames is one of them, or the null frame.         *)
LEMMA BestPreparedOneOf ==
  ASSUME NEW S, NEW frames \in Seq(S), NEW t, NEW tolerance, ~NullRead(frames, t)
  PROVE  BestPrepared(frames, t, tolerance) \in S \union {NoFrame}
<1>1. Len(frames) \in Nat /\ DOMAIN frames = 1 .. Len(frames)
  OBVIOUS
<1>2. LowerBound(frames, t) \in 0 .. Len(frames) + 1
  BY LowerBoundRange
<1>3. CASE frames = <<>>
  <2>1. Len(frames) = 0 /\ LowerBound(frames, t) >= 0
    BY <1>2, <1>3
  <2>2. QED
    BY <1>2, <1>3, <2>1 DEF BestPrepared
<1>4. CASE frames # <<>> /\ LowerBound(frames, t) >= Len(frames)
  <2>1. Len(frames) \in DOMAIN frames
    BY <1>1, <1>4
  <2>2. ~(LowerBound(frames, t) < Len(frames))
    BY <1>1, <1>2, <1>4
  <2>3. BestPrepared(frames, t, tolerance) = frames[Len(frames)]
    BY <1>4, <2>2 DEF BestPrepared
  <2>4. QED
    BY <2>1, <2>3
<1>5. CASE frames # <<>> /\ LowerBound(frames, t) < Len(frames)
  <2>1. LowerBound(frames, t) # 0
    BY <1>5 DEF NullRead
  <2>2. /\ LowerBound(frames, t) \in DOMAIN frames /\ LowerBound(frames, t) + 1 \in DOMAIN frames
        /\ ~(LowerBound(frames, t) >= Len(frames))
    BY <1>1, <1>2, <1>5, <2>1
  <2>3. frames[LowerBound(frames, t)] \in S /\ frames[LowerBound(frames, t) + 1] \in S
    BY <2>2
  <2>4. QED
    BY <1>5, <2>2, <2>3 DEF BestPrepared
<1>6. QED
  BY <1>1, <1>2, <1>3, <1>4, <1>5

-----------------------------------------------------------------------------
(* The sort                                                                *)

(* The frames that come before frame i, and itself.                        *)
UpTo(frames, i) ==
  {j \in DOMAIN frames : \/ frames[j].time < frames[i].time
                         \/ frames[j].time = frames[i].time /\ j <= i}

Timed(S) == \A f \in S : f.time \in Int

(* The place of a frame is one of the places.                              *)
LEMMA RankRange ==
  ASSUME NEW S, Timed(S), NEW frames \in Seq(S), NEW i \in DOMAIN frames
  PROVE  /\ IsFiniteSet(UpTo(frames, i)) /\ Rank(frames, i) = Cardinality(UpTo(frames, i))
         /\ Rank(frames, i) \in DOMAIN frames
<1>1. Len(frames) \in Nat /\ DOMAIN frames = 1 .. Len(frames)
  OBVIOUS
<1>2. IsFiniteSet(1 .. Len(frames)) /\ Cardinality(1 .. Len(frames)) = Len(frames)
  <2>1. Len(frames) \in Int /\ ~(1 > Len(frames))
    BY <1>1
  <2> DEFINE n == Len(frames)
  <2> HIDE DEF n
  <2>2. n \in Int /\ ~(1 > n)
    BY <2>1 DEF n
  <2>3. IsFiniteSet(1 .. n) /\ Cardinality(1 .. n) = n
    BY <2>2, FS_Interval
  <2>4. QED
    BY <2>3 DEF n
<1>3. UpTo(frames, i) \subseteq 1 .. Len(frames)
  BY <1>1 DEF UpTo
<1>4. i \in UpTo(frames, i)
  BY <1>1 DEF UpTo
<1>5. IsFiniteSet(UpTo(frames, i)) /\ Cardinality(UpTo(frames, i)) <= Len(frames)
  BY <1>2, <1>3, FS_Subset
<1>6. Cardinality(UpTo(frames, i)) \in Nat /\ Cardinality(UpTo(frames, i)) # 0
  BY <1>4, <1>5, FS_CardinalityType, FS_EmptySet
<1>7. Rank(frames, i) = Cardinality(UpTo(frames, i))
  BY DEF Rank, UpTo
<1>8. QED
  BY <1>1, <1>5, <1>6, <1>7

(* Of two frames the later has the greater place.                          *)
LEMMA RankIncreases ==
  ASSUME NEW S, Timed(S), NEW frames \in Seq(S), NEW i \in DOMAIN frames, NEW j \in DOMAIN frames,
         frames[i].time < frames[j].time \/ (frames[i].time = frames[j].time /\ i < j)
  PROVE  Rank(frames, i) < Rank(frames, j)
<1>1. Len(frames) \in Nat /\ DOMAIN frames = 1 .. Len(frames)
  OBVIOUS
<1>2. \A k \in DOMAIN frames : frames[k].time \in Int
  BY DEF Timed
<1>3. UpTo(frames, i) \subseteq UpTo(frames, j)
  BY <1>1, <1>2 DEF UpTo
<1>4. j \in UpTo(frames, j) /\ j \notin UpTo(frames, i)
  BY <1>1, <1>2 DEF UpTo
<1>5. /\ IsFiniteSet(UpTo(frames, j))
      /\ Rank(frames, i) = Cardinality(UpTo(frames, i)) /\ Rank(frames, i) \in DOMAIN frames
      /\ Rank(frames, j) = Cardinality(UpTo(frames, j)) /\ Rank(frames, j) \in DOMAIN frames
  BY RankRange
<1>6. /\ Cardinality(UpTo(frames, i)) <= Cardinality(UpTo(frames, j))
      /\ Cardinality(UpTo(frames, i)) # Cardinality(UpTo(frames, j))
  BY <1>3, <1>4, <1>5, FS_Subset
<1>7. QED
  BY <1>1, <1>5, <1>6

(* Every place is that of one frame.                                       *)
LEMMA RankOnto ==
  ASSUME NEW S, Timed(S), NEW frames \in Seq(S), NEW k \in DOMAIN frames
  PROVE  \E i \in DOMAIN frames : Rank(frames, i) = k
<1> DEFINE D == DOMAIN frames
           r == [i \in D |-> Rank(frames, i)]
<1>1. Len(frames) \in Nat /\ D = 1 .. Len(frames)
  OBVIOUS
<1>2. IsFiniteSet(D)
  BY <1>1, FS_Interval
<1>3. r \in [D -> D]
  BY RankRange
<1>4. ASSUME NEW i \in D, NEW j \in D, r[i] = r[j] PROVE i = j
  <2>1. frames[i].time \in Int /\ frames[j].time \in Int /\ i \in Int /\ j \in Int
    BY <1>1 DEF Timed
  <2>2. /\ Rank(frames, i) = Rank(frames, j)
        /\ Rank(frames, i) \in Int
    BY <1>1, <1>4, RankRange
  <2>3. /\ ~(frames[i].time < frames[j].time \/ (frames[i].time = frames[j].time /\ i < j))
        /\ ~(frames[j].time < frames[i].time \/ (frames[j].time = frames[i].time /\ j < i))
    BY <2>2, RankIncreases
  <2>4. QED
    BY <2>1, <2>3
<1>5. r \in Injection(D, D)
  BY <1>3, <1>4 DEF Injection, IsInjective
<1>6. r \in Surjection(D, D)
  BY <1>2, <1>5, FS_Injection
<1>7. QED
  BY <1>6 DEF Surjection

(* The sort puts the frames in order of time, whatever order they had.     *)
LEMMA SortedInOrder ==
  ASSUME NEW S, Timed(S), NEW frames \in Seq(S)
  PROVE  /\ Sorted(frames) \in Seq(S) /\ Len(Sorted(frames)) = Len(frames)
         /\ InOrder(Sorted(frames))
<1>1. Len(frames) \in Nat /\ DOMAIN frames = 1 .. Len(frames)
  OBVIOUS
<1>2. CASE ~(Len(frames) > 1)
  BY <1>1, <1>2 DEF Sorted, InOrder
<1>3. CASE Len(frames) > 1
  <2> DEFINE at(k) == CHOOSE i \in DOMAIN frames : Rank(frames, i) = k
             sorted == [k \in DOMAIN frames |-> frames[at(k)]]
  <2>1. Sorted(frames) = sorted
    BY <1>3 DEF Sorted
  <2>2. \A k \in DOMAIN frames : at(k) \in DOMAIN frames /\ Rank(frames, at(k)) = k
    BY RankOnto
  <2>3. \A k \in DOMAIN frames : sorted[k] = frames[at(k)] /\ frames[at(k)] \in S
    BY <2>2
  <2>4. sorted \in [1 .. Len(frames) -> S]
    BY <1>1, <2>3
  <2>5. sorted \in Seq(S) /\ Len(sorted) = Len(frames)
    BY <1>1, <2>4
  <2>6. ASSUME NEW k \in 1 .. Len(frames), NEW l \in 1 .. Len(frames), k < l
        PROVE  sorted[k].time <= sorted[l].time
    <3>1. /\ at(k) \in DOMAIN frames /\ Rank(frames, at(k)) = k
          /\ at(l) \in DOMAIN frames /\ Rank(frames, at(l)) = l
      BY <1>1, <2>2
    <3>2. frames[at(k)].time \in Int /\ frames[at(l)].time \in Int
      BY <3>1 DEF Timed
    <3> HIDE DEF at
    <3>3. ASSUME frames[at(l)].time < frames[at(k)].time PROVE FALSE
      <4>1. Rank(frames, at(l)) < Rank(frames, at(k))
        BY <3>1, <3>3, RankIncreases
      <4>2. QED
        BY <2>6, <3>1, <4>1
    <3>4. sorted[k] = frames[at(k)] /\ sorted[l] = frames[at(l)]
      BY <1>1, <2>3
    <3>5. QED
      BY <3>2, <3>3, <3>4
  <2> HIDE DEF sorted
  <2>7. QED
    BY <2>1, <2>5, <2>6 DEF InOrder
<1>4. QED
  BY <1>2, <1>3

(* The sort loses no frame.                                                *)
LEMMA SortedKeepsAll ==
  ASSUME NEW S, Timed(S), NEW frames \in Seq(S), NEW i \in 1 .. Len(frames)
  PROVE  \E k \in 1 .. Len(Sorted(frames)) : Sorted(frames)[k] = frames[i]
<1>1. Len(frames) \in Nat /\ DOMAIN frames = 1 .. Len(frames) /\ Len(Sorted(frames)) = Len(frames)
  BY SortedInOrder
<1>2. CASE ~(Len(frames) > 1)
  BY <1>1, <1>2 DEF Sorted
<1>3. CASE Len(frames) > 1
  <2> DEFINE at(k) == CHOOSE j \in DOMAIN frames : Rank(frames, j) = k
  <2>1. Sorted(frames) = [k \in DOMAIN frames |-> frames[at(k)]]
    BY <1>3 DEF Sorted
  <2> DEFINE r == Rank(frames, i)
  <2>2. r \in DOMAIN frames
    BY <1>1, RankRange
  <2>3. at(r) \in DOMAIN frames /\ Rank(frames, at(r)) = r
    BY <1>1
  <2>4. at(r) = i
    <3>1. /\ frames[i].time \in Int /\ frames[at(r)].time \in Int
          /\ i \in Int /\ at(r) \in Int /\ r \in Int
      BY <1>1, <2>2, <2>3 DEF Timed
    <3> HIDE DEF at, r
    <3>2. /\ ~(frames[i].time < frames[at(r)].time
               \/ (frames[i].time = frames[at(r)].time /\ i < at(r)))
          /\ ~(frames[at(r)].time < frames[i].time
               \/ (frames[at(r)].time = frames[i].time /\ at(r) < i))
      BY <1>1, <2>2, <2>3, <3>1, RankIncreases DEF r
    <3>3. QED
      BY <3>1, <3>2
  <2> HIDE DEF at, r
  <2>5. Sorted(frames)[r] = frames[i]
    BY <2>1, <2>2, <2>4
  <2>6. QED
    BY <1>1, <2>2, <2>5
<1>4. QED
  BY <1>2, <1>3

(* Frames that are in strict order stay as they are.                       *)
LEMMA SortedAsTheyAre ==
  ASSUME NEW S, Timed(S), NEW frames \in Seq(S),
         \A i, j \in 1 .. Len(frames) : i < j => frames[i].time < frames[j].time
  PROVE  Sorted(frames) = frames
<1>1. Len(frames) \in Nat /\ DOMAIN frames = 1 .. Len(frames)
  OBVIOUS
<1>2. \A i \in DOMAIN frames : frames[i].time \in Int
  BY DEF Timed
<1>3. ASSUME NEW i \in DOMAIN frames PROVE Rank(frames, i) = i
  <2>1. UpTo(frames, i) = 1 .. i
    <3>1. ASSUME NEW j \in 1 .. Len(frames) PROVE j \in UpTo(frames, i) <=> j <= i
      <4>1. j < i => frames[j].time < frames[i].time
        BY <1>1
      <4>2. i < j => frames[i].time < frames[j].time
        BY <1>1
      <4>3. i = j => frames[i].time = frames[j].time
        OBVIOUS
      <4>4. QED
        BY <1>1, <1>2, <4>1, <4>2, <4>3 DEF UpTo
    <3>2. UpTo(frames, i) \subseteq 1 .. Len(frames)
      BY <1>1 DEF UpTo
    <3>3. \A j : j \in UpTo(frames, i) <=> j \in 1 .. i
      BY <1>1, <3>1, <3>2
    <3>4. QED
      BY <3>3
  <2>2. i \in Nat /\ Cardinality(1 .. i) = i
    BY <1>1, FS_Interval
  <2>3. QED
    BY <2>1, <2>2, RankRange
<1> DEFINE at(k) == CHOOSE i \in DOMAIN frames : Rank(frames, i) = k
<1>4. \A k \in DOMAIN frames : at(k) = k
  BY <1>3
<1>5. Len(frames) > 1 => Sorted(frames) = [k \in DOMAIN frames |-> frames[at(k)]]
  BY DEF Sorted
<1> HIDE DEF at
<1>6. [k \in DOMAIN frames |-> frames[at(k)]] = frames
  BY <1>1, <1>4
<1>7. ~(Len(frames) > 1) => Sorted(frames) = frames
  BY DEF Sorted
<1>8. QED
  BY <1>5, <1>6, <1>7

-----------------------------------------------------------------------------
(* The inductive invariant                                                 *)

Timeless   == [time |-> NoTime, picture |-> 0]
Picture(i) == [time |-> video.times[i], picture |-> i]
Shown(i)   == IF i \in video.refused THEN NoFrame ELSE Picture(i)

(* How many of the decoder's pictures the loop has dealt with.             *)
Seen == IF phase = "examining" /\ frameAcquired THEN decoder.out - 1 ELSE decoder.out

(* The picture under examination is the decoder's latest; without one the  *)
(* stream and the decoder are empty.                                       *)
ExaminesLatest ==
  phase = "examining" =>
    IF frameAcquired THEN decoder.out # 0 /\ curr = Picture(decoder.out)
                     ELSE curr = Timeless /\ endOfStream /\ decoder.out = FrameCount

EndIsEnd == endOfStream => decoder.fed = FrameCount

(* The pictures dealt with have times.                                     *)
SeenTimed == \A i \in 1 .. Seen : video.times[i] >= 0

(* A search has nothing yet, and leaves only pictures up to its time.      *)
SearchBehind ==
  op = "pick" => /\ picked = NoFrame /\ SeenTimed
                 /\ Seen = 0 => prev = Blank
                 /\ Seen # 0 => prev = Picture(Seen) /\ video.times[Seen] <= sampleTime

AllSoFar == op = "prepareAll" => prepared = [i \in 1 .. Seen |-> Shown(i)] /\ SeenTimed

NoNullSoFar == op = "prepare" => ~HasNull(prepared)

IdleInOrder ==
  (op \in {"idle", "pick"} /\ preparation = "ok" /\ ~HasNull(prepared)) => InOrder(prepared)

IInv == /\ TypeOK
        /\ ExaminesLatest /\ EndIsEnd
        /\ SearchBehind /\ AllSoFar /\ NoNullSoFar /\ IdleInOrder

(* What the assumptions say of the open stream.                            *)
LEMMA VideoFacts ==
  ASSUME video \in Videos
  PROVE  /\ FrameCount \in Nat /\ FrameCount # 0
         /\ video.times \in Seq(Int) /\ \A i \in 1 .. FrameCount : video.times[i] \in Int
         /\ \A i, j \in 1 .. FrameCount :
              i < j /\ video.times[i] >= 0 /\ video.times[j] >= 0 => video.times[i] < video.times[j]
         /\ video.refused \subseteq 1 .. FrameCount
         /\ FrameDuration \in Nat /\ NoTime + FrameDuration < 0
<1>1. /\ video.times \in Seq(Int) /\ video.times # <<>> /\ video.duration \in Nat
      /\ video.refused \subseteq 1 .. Len(video.times)
      /\ \A i, j \in 1 .. Len(video.times) :
           i < j /\ video.times[i] >= 0 /\ video.times[j] >= 0 => video.times[i] < video.times[j]
  BY VideosAssumption
<1>2. FrameCount \in Nat /\ FrameCount # 0 /\ \A i \in 1 .. FrameCount : video.times[i] \in Int
  BY <1>1 DEF FrameCount
<1>3. ASSUME NEW d \in Nat, NEW n \in Nat, n # 0 PROVE d \div n \in Nat /\ d \div n <= d
  <2> DEFINE q == d \div n
  <2>1. q \in Nat /\ n * q <= d
    BY <1>3
  <2> HIDE DEF q
  <2>2. q <= n * q
    BY <1>3, <2>1
  <2>3. n * q \in Nat
    BY <2>1
  <2>4. q \in Nat /\ q <= d
    BY <2>1, <2>2, <2>3
  <2>5. QED
    BY <2>4 DEF q
<1>4. FrameDuration \in Nat /\ FrameDuration <= video.duration
  BY <1>1, <1>2, <1>3 DEF FrameDuration
<1>5. NoTime + FrameDuration < 0
  BY <1>1, <1>4, TimesAssumption
<1>6. QED
  BY <1>1, <1>2, <1>4, <1>5 DEF FrameCount

(* The null frame is no frame; staging frames and pictures are frames.     *)
LEMMA FrameFacts ==
  ASSUME video \in Videos
  PROVE  /\ NoFrame \notin Frames /\ Timed(Frames)
         /\ Blank \in Frames /\ Timeless \in Frames
         /\ \A i \in 1 .. FrameCount : Picture(i) \in Frames /\ Picture(i).time = video.times[i]
<1>1. /\ FrameCount \in Nat /\ FrameCount # 0
      /\ \A i \in 1 .. FrameCount : video.times[i] \in Int
  BY VideoFacts
<1>2. Frames \subseteq [time : Int, picture : Int]
  BY <1>1 DEF Frames, Pictures
<1>3. NoFrame \notin Frames /\ Timed(Frames)
  BY <1>2, TimesAssumption DEF Timed
<1>4. Blank \in Frames /\ Timeless \in Frames
  BY <1>1, TimesAssumption DEF Blank, Timeless, Frames, Pictures
<1>5. \A i \in 1 .. FrameCount : Picture(i) \in Frames /\ Picture(i).time = video.times[i]
  BY <1>1 DEF Picture, Frames, Pictures
<1>6. QED
  BY <1>3, <1>4, <1>5

(* sws_scale makes of a frame a frame of the same time, or none.           *)
LEMMA ConvertedFrames ==
  ASSUME TypeOK, NEW s \in Frames, NEW f \in Converted(s)
  PROVE  /\ f \in Frames \union {NoFrame}
         /\ f = NoFrame => s.picture \in video.refused
         /\ f # NoFrame => f.time = s.time /\ (s.picture # 0 => f.picture # 0)
<1>1. video \in Videos /\ FrameCount \in Nat
  BY VideoFacts DEF TypeOK
<1>2. NoFrame \notin Frames
  BY <1>1, FrameFacts
<1>3. CASE s.picture \in video.refused
  BY <1>3 DEF Converted
<1>4. CASE s.picture \notin video.refused /\ Valid(s)
  BY <1>2, <1>4 DEF Converted
<1>5. CASE s.picture \notin video.refused /\ ~Valid(s)
  <2>1. PICK p \in s.picture .. decoder.fed : f = [s EXCEPT !.picture = p]
    BY <1>5 DEF Converted
  <2>2. s.picture \in Pictures /\ decoder.fed \in Pictures
    BY DEF TypeOK, Frames
  <2>3. p \in Pictures
    BY <1>1, <2>1, <2>2 DEF Pictures
  <2>4. f \in Frames /\ f.time = s.time /\ f.picture = p
    BY <2>1, <2>3 DEF Frames
  <2>5. s.picture # 0 => p # 0
    BY <1>1, <2>1, <2>2 DEF Pictures
  <2>6. QED
    BY <1>2, <2>4, <2>5
<1>6. QED
  BY <1>3, <1>4, <1>5

(* Of the latest picture one is returned, the one before it, or none yet.  *)
LEMMA ChosenFrame ==
  ASSUME IInv, phase = "examining"
  PROVE  /\ Chosen # NoFrame => Chosen \in Frames
         /\ Chosen = NoFrame => frameAcquired /\ curr.time \in 0 .. sampleTime
         /\ ~frameAcquired => Chosen = prev /\ ~Near /\ curr.time < 0
         /\ frameAcquired =>
              /\ decoder.out \in 1 .. FrameCount /\ curr = Picture(decoder.out) /\ curr \in Frames
              /\ curr.time = video.times[decoder.out]
<1>1. /\ video \in Videos /\ TypeOK /\ ExaminesLatest /\ prev \in Frames
      /\ sampleTime \in Nat /\ decoder \in [fed : Pictures, out : Pictures]
      /\ frameAcquired \in BOOLEAN
  BY DEF IInv, TypeOK
<1>2. /\ FrameCount \in Nat /\ FrameDuration \in Nat /\ NoTime + FrameDuration < 0
      /\ NoTime \in Int /\ NoTime < 0
  BY <1>1, VideoFacts, TimesAssumption
<1>3. prev # NoFrame
  BY <1>1, FrameFacts
<1>4. CASE ~frameAcquired
  <2>1. curr = Timeless
    BY <1>1, <1>4 DEF ExaminesLatest
  <2>2. curr.time = NoTime /\ curr.time < 0
    BY <1>2, <2>1 DEF Timeless
  <2>3. Abs(NoTime - sampleTime) = sampleTime - NoTime
    BY <1>1, <1>2 DEF Abs
  <2>4. ~Near
    BY <1>1, <1>2, <2>2, <2>3 DEF Near
  <2>5. ~(curr.time > sampleTime) /\ curr.time \notin 0 .. sampleTime
    BY <1>1, <1>2, <2>2
  <2>6. Chosen = prev
    BY <2>2, <2>4, <2>5 DEF Chosen
  <2>7. QED
    BY <1>1, <1>3, <1>4, <2>2, <2>4, <2>6
<1>5. CASE frameAcquired
  <2>1. decoder.out \in 1 .. FrameCount /\ curr = Picture(decoder.out)
    BY <1>1, <1>2, <1>5 DEF ExaminesLatest, Pictures
  <2>2. curr \in Frames /\ curr # NoFrame /\ curr.time = video.times[decoder.out] /\ curr.time \in Int
    BY <1>1, <2>1, FrameFacts, VideoFacts
  <2>3. Near => Chosen = curr
    <3>1. ASSUME Near PROVE Chosen = curr
      BY <3>1 DEF Chosen
    <3>2. QED
      BY <3>1
  <2>4. (~Near /\ curr.time < 0) => Chosen = prev
    <3>1. curr.time < 0 => ~(curr.time > sampleTime) /\ curr.time \notin 0 .. sampleTime
      BY <1>1, <2>2
    <3>2. QED
      BY <3>1 DEF Chosen
  <2>5. (~Near /\ curr.time > sampleTime) => Chosen \in {curr, prev}
    <3>1. curr.time > sampleTime => ~(curr.time < 0) /\ curr.time \notin 0 .. sampleTime
      BY <1>1, <2>2
    <3>2. QED
      BY <3>1 DEF Chosen
  <2>6. curr.time < 0 \/ curr.time > sampleTime \/ curr.time \in 0 .. sampleTime
    BY <1>1, <2>2
  <2>7. Chosen = NoFrame => curr.time \in 0 .. sampleTime
    BY <1>3, <2>2, <2>3, <2>4, <2>5, <2>6
  <2>8. (~Near /\ curr.time \in 0 .. sampleTime) => Chosen = NoFrame
    <3>1. curr.time \in 0 .. sampleTime => ~(curr.time < 0) /\ ~(curr.time > sampleTime)
      BY <1>1, <2>2
    <3>2. QED
      BY <3>1 DEF Chosen
  <2>9. Chosen \in {curr, prev, NoFrame}
    BY <2>3, <2>4, <2>5, <2>6, <2>8
  <2>10. QED
    BY <1>1, <1>5, <2>1, <2>2, <2>7, <2>9
<1>6. QED
  BY <1>1, <1>4, <1>5

FramesOrNulls == Seq(Frames \union {NoFrame})

(* Frames without a null among them are frames with times.                 *)
LEMMA NoNulls ==
  ASSUME NEW frames \in FramesOrNulls, ~HasNull(frames)
  PROVE  frames \in Seq(Frames)
<1>1. Len(frames) \in Nat /\ frames \in [1 .. Len(frames) -> Frames \union {NoFrame}]
  BY DEF FramesOrNulls
<1>2. \A i \in 1 .. Len(frames) : frames[i] \in Frames
  BY <1>1 DEF HasNull
<1>3. frames \in [1 .. Len(frames) -> Frames]
  BY <1>1, <1>2
<1>4. QED
  BY <1>1, <1>3

(* And the other way round.                                                *)
LEMMA FramesHaveNoNulls ==
  ASSUME video \in Videos, NEW frames \in Seq(Frames)
  PROVE  ~HasNull(frames)
<1>1. \A i \in 1 .. Len(frames) : frames[i] \in Frames
  OBVIOUS
<1>2. QED
  BY <1>1, FrameFacts DEF HasNull

(* A call that starts or returns.                                          *)
LEMMA StartEstablishes ==
  ASSUME IInv, NEW call \in {"idle", "prepareAll", "prepare", "pick"}, NEW t \in Nat, NEW dt \in Nat,
         StartLoop(call, t, dt), video' = video,
         prepared' \in FramesOrNulls, preparation' \in {"ok", "failed"},
         picked' \in Frames \union {NoFrame},
         call = "pick" => picked' = NoFrame,
         call \in {"prepareAll", "prepare"} => prepared' = <<>>,
         (call \in {"idle", "pick"} /\ preparation' = "ok" /\ ~HasNull(prepared')) =>
           InOrder(prepared')
  PROVE  IInv'
<1>1. video \in Videos /\ FrameCount \in Nat
  BY VideoFacts DEF IInv, TypeOK
<1>2. /\ op' = call /\ sampleTime' = t /\ step' = dt /\ phase' = "reading"
      /\ decoder' = Rewound /\ endOfStream' = FALSE /\ frameAcquired' = FALSE
      /\ prev' = Blank /\ curr' = Blank /\ packets' = {}
  BY DEF StartLoop
<1>3. /\ decoder' = [fed |-> 0, out |-> 0] /\ decoder'.fed = 0 /\ decoder'.out = 0
  BY <1>2 DEF Rewound
<1>4. FrameCount' = FrameCount /\ Pictures' = Pictures /\ Frames' = Frames
  BY DEF FrameCount, Pictures, Frames
<1>5. decoder' \in [fed : Pictures, out : Pictures]
  BY <1>1, <1>3 DEF Pictures
<1>6. Blank \in Frames
  BY <1>1, FrameFacts
<1>7. TypeOK'
  <2>1. /\ video' \in Videos /\ op' \in {"idle", "prepareAll", "prepare", "pick", "trapped"}
        /\ phase' \in {"reading", "examining"} /\ sampleTime' \in Nat /\ step' \in Nat
        /\ endOfStream' \in BOOLEAN /\ frameAcquired' \in BOOLEAN
        /\ preparation' \in {"ok", "failed"}
    BY <1>1, <1>2
  <2>2. decoder' \in [fed : Pictures', out : Pictures'] /\ decoder'.out <= decoder'.fed
    BY <1>3, <1>4, <1>5
  <2>3. prev' \in Frames' /\ curr' \in Frames' /\ packets' \subseteq {"prev", "curr"}
    BY <1>2, <1>4, <1>6
  <2>4. prepared' \in Seq(Frames' \union {NoFrame}) /\ picked' \in Frames' \union {NoFrame}
    BY <1>4 DEF FramesOrNulls
  <2>5. QED
    BY <2>1, <2>2, <2>3, <2>4 DEF TypeOK
<1>8. ExaminesLatest' /\ EndIsEnd'
  BY <1>2 DEF ExaminesLatest, EndIsEnd
<1>9. Seen' = 0
  BY <1>2, <1>3 DEF Seen
<1>10. SeenTimed'
  BY <1>9 DEF SeenTimed
<1>11. SearchBehind'
  BY <1>2, <1>9, <1>10 DEF SearchBehind
<1>12. AllSoFar'
  <2>1. [i \in 1 .. Seen' |-> Shown(i)'] = <<>>
    BY <1>9
  <2>2. QED
    BY <1>2, <1>10, <2>1 DEF AllSoFar
<1>13. NoNullSoFar'
  <2>1. call = "prepare" => ~HasNull(prepared')
    BY DEF HasNull
  <2>2. QED
    BY <1>2, <2>1 DEF NoNullSoFar, HasNull
<1>14. IdleInOrder'
  BY <1>2 DEF IdleInOrder, HasNull, InOrder
<1>15. QED
  BY <1>7, <1>8, <1>11, <1>12, <1>13, <1>14 DEF IInv

(* The sort at the end of a preparation, which meets no null or traps.     *)
LEMMA SortKeeps ==
  ASSUME IInv, NEW frames \in FramesOrNulls, op \in {"prepareAll", "prepare"},
         SortAndEnd(frames), UNCHANGED <<video, preparation, picked>>
  PROVE  /\ IInv'
         /\ ~HasNull(frames) => op' = "idle" /\ ~HasNull(prepared')
<1>1. /\ video \in Videos /\ preparation \in {"ok", "failed"} /\ picked \in Frames \union {NoFrame}
  BY DEF IInv, TypeOK
<1>2. CASE SortReadsNull(frames)
  <2>1. /\ op' = "trapped" /\ prepared' = frames
        /\ UNCHANGED <<video, preparation, picked, phase, sampleTime, step, decoder,
                       endOfStream, frameAcquired, prev, curr, packets>>
    BY <1>2 DEF SortAndEnd
  <2>2. TypeOK' /\ ExaminesLatest' /\ EndIsEnd'
    BY <2>1 DEF IInv, TypeOK, ExaminesLatest, EndIsEnd, FramesOrNulls, Frames,
                Pictures, FrameCount, Picture
  <2>3. SearchBehind' /\ AllSoFar' /\ NoNullSoFar' /\ IdleInOrder'
    BY <2>1 DEF SearchBehind, AllSoFar, NoNullSoFar, IdleInOrder
  <2>4. QED
    BY <1>2, <2>2, <2>3 DEF IInv, SortReadsNull
<1>3. CASE ~SortReadsNull(frames)
  <2>1. prepared' = Sorted(frames) /\ StartLoop("idle", 0, 0)
    BY <1>3 DEF SortAndEnd, EndLoop
  <2>2. CASE HasNull(frames)
    <3>1. Sorted(frames) = frames
      BY <1>3, <2>2 DEF SortReadsNull, Sorted
    <3>2. IInv'
      BY <1>1, <2>1, <2>2, <3>1, StartEstablishes
    <3>3. QED
      BY <2>2, <3>2
  <2>3. CASE ~HasNull(frames)
    <3>1. frames \in Seq(Frames) /\ Timed(Frames)
      BY <1>1, <2>3, NoNulls, FrameFacts
    <3>2. Sorted(frames) \in Seq(Frames) /\ InOrder(Sorted(frames))
      BY <3>1, SortedInOrder
    <3>3. ~HasNull(Sorted(frames)) /\ Sorted(frames) \in FramesOrNulls
      BY <1>1, <3>2, FramesHaveNoNulls, SeqMonotonic DEF FramesOrNulls
    <3>4. IInv'
      BY <1>1, <2>1, <3>2, <3>3, StartEstablishes
    <3>5. QED
      BY <2>1, <3>3, <3>4 DEF StartLoop
  <2>4. QED
    BY <2>2, <2>3
<1>4. QED
  BY <1>2, <1>3

(* An iteration that is followed by another.                               *)
LEMMA IterationKeeps ==
  ASSUME IInv, NEW frames \in FramesOrNulls, NEW swaps \in BOOLEAN, NEW nextSample \in Nat,
         Running, LoopOn, NextOrEnd(frames, swaps, nextSample),
         op = "pick" => /\ swaps /\ decoder.out # 0 /\ curr = Picture(decoder.out)
                        /\ video.times[decoder.out] <= nextSample /\ frames = prepared,
         op = "prepareAll" => frames = [i \in 1 .. decoder.out |-> Shown(i)],
         op \in {"pick", "prepareAll"} => \A i \in 1 .. decoder.out : video.times[i] >= 0,
         op = "prepare" => ~HasNull(frames)
  PROVE  IInv' /\ op' = op
<1>1. /\ phase' = "reading" /\ sampleTime' = nextSample /\ prepared' = frames
      /\ IF swaps THEN SwapStaging ELSE UNCHANGED <<prev, curr, packets>>
      /\ UNCHANGED <<video, op, step, decoder, endOfStream, frameAcquired, preparation, picked>>
  BY DEF NextOrEnd
<1>2. FrameCount' = FrameCount /\ Pictures' = Pictures /\ Frames' = Frames
  BY <1>1 DEF FrameCount, Pictures, Frames
<1>3. prev' \in Frames /\ curr' \in Frames /\ packets' \subseteq {"prev", "curr"}
  <2>1. prev \in Frames /\ curr \in Frames /\ packets \subseteq {"prev", "curr"}
    BY DEF IInv, TypeOK
  <2>2. {IF f = "prev" THEN "curr" ELSE "prev" : f \in packets} \subseteq {"prev", "curr"}
    OBVIOUS
  <2>3. CASE swaps
    BY <1>1, <2>1, <2>2, <2>3 DEF SwapStaging
  <2>4. CASE ~swaps
    BY <1>1, <2>1, <2>4
  <2>5. QED
    BY <2>3, <2>4
<1>4. TypeOK'
  <2>1. /\ video' \in Videos /\ op' \in {"idle", "prepareAll", "prepare", "pick", "trapped"}
        /\ phase' \in {"reading", "examining"} /\ sampleTime' \in Nat /\ step' \in Nat
        /\ endOfStream' \in BOOLEAN /\ frameAcquired' \in BOOLEAN
        /\ preparation' \in {"ok", "failed"}
    BY <1>1 DEF IInv, TypeOK
  <2>2. decoder' \in [fed : Pictures', out : Pictures'] /\ decoder'.out <= decoder'.fed
    BY <1>1, <1>2 DEF IInv, TypeOK
  <2>3. prev' \in Frames' /\ curr' \in Frames' /\ packets' \subseteq {"prev", "curr"}
    BY <1>1, <1>2, <1>3
  <2>4. prepared' \in Seq(Frames' \union {NoFrame}) /\ picked' \in Frames' \union {NoFrame}
    BY <1>1, <1>2 DEF IInv, TypeOK, FramesOrNulls
  <2>5. QED
    BY <2>1, <2>2, <2>3, <2>4 DEF TypeOK
<1>5. ExaminesLatest' /\ EndIsEnd'
  BY <1>1, <1>2 DEF IInv, ExaminesLatest, EndIsEnd
<1>6. Seen' = decoder.out
  BY <1>1 DEF Seen
<1>7. SearchBehind'
  BY <1>1, <1>6 DEF IInv, SearchBehind, SeenTimed, SwapStaging, Picture
<1>8. AllSoFar'
  BY <1>1, <1>6 DEF AllSoFar, SeenTimed, Shown, Picture
<1>9. NoNullSoFar'
  BY <1>1 DEF NoNullSoFar, HasNull
<1>10. IdleInOrder'
  BY <1>1 DEF IInv, IdleInOrder, Running, HasNull, InOrder
<1>11. QED
  BY <1>1, <1>4, <1>5, <1>7, <1>8, <1>9, <1>10 DEF IInv

(* One decoded picture, or the end of the stream; nothing is dealt with.   *)
LEMMA DecodeKeeps ==
  ASSUME IInv, Decode
  PROVE  IInv' /\ Seen' = Seen
<1> DEFINE ended == endOfStream \/ ~PacketsLeft
           given == IF ended THEN decoder ELSE [decoder EXCEPT !.fed = decoder.fed + 1]
           got   == HasPicture(given, ended)
<1>1. /\ TypeOK /\ ExaminesLatest /\ EndIsEnd /\ video \in Videos
      /\ decoder \in [fed : Pictures, out : Pictures] /\ decoder.out <= decoder.fed
      /\ endOfStream \in BOOLEAN
  BY DEF IInv, TypeOK
<1>2. /\ FrameCount \in Nat /\ Pictures = 0 .. FrameCount
      /\ decoder.fed \in 0 .. FrameCount /\ decoder.out \in 0 .. FrameCount
      /\ decoder = [fed |-> decoder.fed, out |-> decoder.out]
  BY <1>1, VideoFacts DEF Pictures
<1>3. /\ Running /\ phase = "reading"
      /\ endOfStream' = ended /\ frameAcquired' = got
      /\ decoder' = IF got THEN [given EXCEPT !.out = given.out + 1] ELSE given
      /\ phase' = IF got \/ ended THEN "examining" ELSE "reading"
      /\ curr' = IF got THEN [time |-> video.times[given.out + 1], picture |-> given.out + 1]
                 ELSE IF ended THEN Timeless ELSE curr
      /\ packets' = PacketsRead
      /\ UNCHANGED <<video, op, sampleTime, step, prev, prepared, preparation, picked>>
  BY DEF Decode, LeavesSearch, Timeless
<1>4. /\ given = [fed |-> given.fed, out |-> decoder.out] /\ given.out = decoder.out
      /\ given.fed \in 0 .. FrameCount /\ decoder.out <= given.fed
      /\ ended => given.fed = FrameCount
  <2>1. CASE ended
    <3>1. given = decoder /\ decoder.fed = FrameCount
      BY <1>1, <1>2, <2>1 DEF EndIsEnd, PacketsLeft
    <3>2. QED
      BY <1>1, <1>2, <3>1
  <2>2. CASE ~ended
    <3>1. given = [fed |-> decoder.fed + 1, out |-> decoder.out] /\ decoder.fed < FrameCount
      BY <1>2, <2>2 DEF PacketsLeft
    <3>2. given.fed = decoder.fed + 1 /\ given.out = decoder.out
      BY <3>1
    <3>3. QED
      BY <1>1, <1>2, <2>2, <3>1, <3>2
  <2>3. QED
    BY <2>1, <2>2
<1>5. ended \in BOOLEAN /\ got \in BOOLEAN
  BY DEF HasPicture
<1>6. /\ got => given.fed > decoder.out
      /\ (ended /\ ~got) => decoder.out = FrameCount
  BY <1>1, <1>2, <1>4 DEF HasPicture
<1> HIDE DEF ended, given, got
<1>7. /\ decoder' = [fed |-> given.fed, out |-> decoder'.out]
      /\ decoder'.fed = given.fed
      /\ decoder'.out = IF got THEN decoder.out + 1 ELSE decoder.out
      /\ decoder'.out \in 0 .. FrameCount /\ decoder'.out <= given.fed
  BY <1>2, <1>3, <1>4, <1>6
<1>8. FrameCount' = FrameCount /\ Pictures' = Pictures /\ Frames' = Frames
  BY <1>3 DEF FrameCount, Pictures, Frames
<1>9. got => curr' = Picture(decoder'.out) /\ decoder'.out \in 1 .. FrameCount
  <2>1. ASSUME got PROVE decoder'.out = decoder.out + 1 /\ decoder.out + 1 = given.out + 1
    BY <1>4, <1>7, <2>1
  <2>2. QED
    BY <1>2, <1>3, <1>7, <2>1 DEF Picture
<1>10. curr' \in Frames /\ packets' \subseteq {"prev", "curr"}
  <2>1. packets' \subseteq {"prev", "curr"}
    BY <1>1, <1>3 DEF PacketsRead, TypeOK
  <2>2. curr' \in Frames
    BY <1>1, <1>3, <1>9, FrameFacts DEF TypeOK
  <2>3. QED
    BY <2>1, <2>2
<1>11. TypeOK'
  <2>1. /\ video' \in Videos /\ op' \in {"idle", "prepareAll", "prepare", "pick", "trapped"}
        /\ phase' \in {"reading", "examining"} /\ sampleTime' \in Nat /\ step' \in Nat
        /\ endOfStream' \in BOOLEAN /\ frameAcquired' \in BOOLEAN
        /\ preparation' \in {"ok", "failed"}
    BY <1>1, <1>3, <1>5 DEF TypeOK
  <2>2. decoder' \in [fed : Pictures', out : Pictures'] /\ decoder'.out <= decoder'.fed
    BY <1>2, <1>4, <1>7, <1>8
  <2>3. prev' \in Frames' /\ curr' \in Frames' /\ packets' \subseteq {"prev", "curr"}
    BY <1>1, <1>3, <1>8, <1>10 DEF TypeOK
  <2>4. prepared' \in Seq(Frames' \union {NoFrame}) /\ picked' \in Frames' \union {NoFrame}
    BY <1>1, <1>3, <1>8 DEF TypeOK
  <2>5. QED
    BY <2>1, <2>2, <2>3, <2>4 DEF TypeOK
<1>12. ExaminesLatest'
  <2>1. CASE got
    <3>1. frameAcquired' /\ decoder'.out # 0 /\ curr' = Picture(decoder'.out)
      BY <1>3, <1>9, <2>1
    <3>2. QED
      BY <1>3, <3>1 DEF ExaminesLatest, Picture
  <2>2. CASE ~got /\ ended
    <3>1. ~frameAcquired' /\ endOfStream' /\ curr' = Timeless /\ decoder'.out = FrameCount
      BY <1>3, <1>6, <1>7, <2>2
    <3>2. QED
      BY <1>8, <3>1 DEF ExaminesLatest, Timeless
  <2>3. CASE ~got /\ ~ended
    BY <1>3, <2>3 DEF ExaminesLatest
  <2>4. QED
    BY <1>5, <2>1, <2>2, <2>3
<1>13. EndIsEnd'
  BY <1>1, <1>3, <1>4, <1>7, <1>8 DEF EndIsEnd
<1>14. Seen' = decoder.out /\ Seen = decoder.out
  <2>1. Seen = decoder.out
    BY <1>3 DEF Seen
  <2>2. CASE got
    BY <1>2, <1>3, <1>7, <2>2 DEF Seen
  <2>3. CASE ~got
    BY <1>3, <1>7, <2>3 DEF Seen
  <2>4. QED
    BY <1>5, <2>1, <2>2, <2>3
<1>15. SearchBehind'
  BY <1>3, <1>14 DEF IInv, SearchBehind, SeenTimed, Picture
<1>16. AllSoFar'
  BY <1>3, <1>14 DEF IInv, AllSoFar, SeenTimed, Shown, Picture
<1>17. NoNullSoFar' /\ IdleInOrder'
  BY <1>3 DEF IInv, NoNullSoFar, IdleInOrder
<1>18. QED
  BY <1>11, <1>12, <1>13, <1>14, <1>15, <1>16, <1>17 DEF IInv

(* With the picture examined the pictures dealt with still have times.     *)
LEMMA SeenOneMore ==
  ASSUME IInv, op \in {"pick", "prepareAll"}, phase = "examining", frameAcquired, curr.time >= 0
  PROVE  \A i \in 1 .. decoder.out : video.times[i] >= 0
<1>1. /\ decoder.out \in 1 .. FrameCount /\ curr.time = video.times[decoder.out]
      /\ FrameCount \in Nat
  BY ChosenFrame, VideoFacts DEF IInv, TypeOK
<1>2. Seen = decoder.out - 1 /\ SeenTimed
  BY DEF Seen, IInv, SearchBehind, AllSoFar
<1>3. TAKE i \in 1 .. decoder.out
<1>4. i = decoder.out \/ i \in 1 .. decoder.out - 1
  BY <1>1
<1>5. QED
  BY <1>1, <1>2, <1>4 DEF SeenTimed

(* PrepareAllFrames appends the decoder's latest picture.                  *)
LEMMA ExamineAllKeeps ==
  ASSUME IInv, ExamineAll
  PROVE  IInv' /\ op' = op
<1>1. /\ op = "prepareAll" /\ phase = "examining" /\ curr.time >= 0
      /\ video \in Videos /\ TypeOK /\ AllSoFar /\ FrameCount \in Nat
  BY VideoFacts DEF ExamineAll, IInv, TypeOK
<1>2. PICK f \in Converted(curr) : NextOrEnd(Append(prepared, f), FALSE, sampleTime)
  BY DEF ExamineAll
<1>3. frameAcquired
  <2>1. frameAcquired \in BOOLEAN /\ curr \in Frames /\ NoTime \in Int
    BY <1>1, TimesAssumption DEF TypeOK
  <2>2. ~(curr.time >= 0 /\ curr.time < 0)
    BY <1>1, <2>1, FrameFacts DEF Timed
  <2>3. QED
    BY <1>1, <2>2, ChosenFrame
<1>4. /\ decoder.out \in 1 .. FrameCount /\ curr = Picture(decoder.out) /\ curr \in Frames
      /\ decoder.out \in Nat
  BY <1>1, <1>3, ChosenFrame
<1>5. f = Shown(decoder.out)
  <2>1. curr.picture = decoder.out
    BY <1>4 DEF Picture
  <2>2. f = IF decoder.out \in video.refused THEN NoFrame ELSE curr
    BY <1>2, <2>1 DEF Converted, Valid
  <2>3. QED
    BY <1>4, <2>2 DEF Shown
<1>6. Append(prepared, f) \in FramesOrNulls
  <2>1. f \in Frames \union {NoFrame} /\ prepared \in Seq(Frames \union {NoFrame})
    BY <1>1, <1>2, <1>4, ConvertedFrames DEF TypeOK
  <2>2. QED
    BY <2>1 DEF FramesOrNulls
<1>7. Append(prepared, f) = [i \in 1 .. decoder.out |-> Shown(i)]
  <2>1. prepared = [i \in 1 .. decoder.out - 1 |-> Shown(i)]
    BY <1>1, <1>3 DEF AllSoFar, Seen
  <2>2. Len(prepared) = decoder.out - 1 /\ prepared \in FramesOrNulls
    BY <1>1, <1>4, <2>1 DEF TypeOK, FramesOrNulls
  <2>3. Len(Append(prepared, f)) = decoder.out
    BY <1>4, <2>2 DEF FramesOrNulls
  <2>5. ASSUME NEW i \in 1 .. decoder.out PROVE Append(prepared, f)[i] = Shown(i)
    <3>1. CASE i = decoder.out
      BY <1>4, <1>5, <2>2, <3>1 DEF FramesOrNulls
    <3>2. CASE i # decoder.out
      <4>1. i \in 1 .. decoder.out - 1
        BY <1>4, <3>2
      <4>2. Append(prepared, f)[i] = prepared[i]
        BY <2>2, <4>1 DEF FramesOrNulls
      <4>3. QED
        BY <2>1, <4>1, <4>2
    <3>3. QED
      BY <3>1, <3>2
  <2> DEFINE longer == Append(prepared, f)
  <2> HIDE DEF longer
  <2>6. longer \in [1 .. decoder.out -> Frames \union {NoFrame}]
    BY <1>6, <2>3, LenProperties DEF FramesOrNulls, longer
  <2>7. longer = [i \in 1 .. decoder.out |-> longer[i]]
    BY <2>6
  <2>8. \A i \in 1 .. decoder.out : longer[i] = Shown(i)
    BY <2>5 DEF longer
  <2>9. longer = [i \in 1 .. decoder.out |-> Shown(i)]
    BY <2>7, <2>8
  <2>10. QED
    BY <2>9 DEF longer
<1>8. Running /\ LoopOn /\ sampleTime \in Nat /\ \A i \in 1 .. decoder.out : video.times[i] >= 0
  BY <1>1, <1>3, SeenOneMore DEF Running, LoopOn, TypeOK
<1>9. QED
  BY <1>1, <1>2, <1>6, <1>7, <1>8, IterationKeeps

(* Nothing is left to deal with but a picture without a time: those dealt  *)
(* with are the leading ones.                                              *)
LEMMA SeenIsLeading ==
  ASSUME IInv, op \in {"pick", "prepareAll"}, phase = "examining", curr.time < 0
  PROVE  Leading = 1 .. Seen
<1>1. /\ FrameCount \in Nat /\ SeenTimed /\ ExaminesLatest /\ frameAcquired \in BOOLEAN
      /\ decoder.out \in 0 .. FrameCount
  BY VideoFacts DEF IInv, TypeOK, SearchBehind, AllSoFar, Pictures
<1>2. CASE ~frameAcquired
  <2>1. Seen = FrameCount
    BY <1>1, <1>2 DEF ExaminesLatest, Seen
  <2>2. \A i \in 1 .. FrameCount : \A j \in 1 .. i : j \in 1 .. FrameCount
    BY <1>1
  <2>3. QED
    BY <1>1, <2>1, <2>2 DEF SeenTimed, Leading
<1>3. CASE frameAcquired
  <2> DEFINE k == decoder.out
  <2>1. k \in 1 .. FrameCount /\ video.times[k] < 0 /\ Seen = k - 1
    BY <1>3, ChosenFrame DEF Seen
  <2> HIDE DEF k
  <2>2. ASSUME NEW i \in Leading PROVE i \in 1 .. k - 1
    <3>1. i \in 1 .. FrameCount /\ \A j \in 1 .. i : video.times[j] >= 0
      BY DEF Leading
    <3>2. video.times[k] \in Int
      BY <2>1, VideoFacts DEF IInv, TypeOK
    <3>3. k \notin 1 .. i
      BY <2>1, <3>1, <3>2
    <3>4. QED
      BY <1>1, <2>1, <3>1, <3>3
  <2>3. ASSUME NEW i \in 1 .. k - 1 PROVE i \in Leading
    <3>1. i \in 1 .. FrameCount /\ \A j \in 1 .. i : j \in 1 .. Seen
      BY <1>1, <2>1
    <3>2. QED
      BY <1>1, <3>1 DEF SeenTimed, Leading
  <2>4. QED
    BY <2>1, <2>2, <2>3
<1>4. QED
  BY <1>1, <1>2, <1>3

(* At the first picture without a time all before it are there, in order.  *)
LEMMA StopAllKeeps ==
  ASSUME IInv, StopAll
  PROVE  /\ IInv'
         /\ op' = "idle" => prepared' = [i \in Leading |-> Shown(i)]
<1>1. /\ op = "prepareAll" /\ phase = "examining" /\ curr.time < 0
      /\ SortAndEnd(prepared) /\ UNCHANGED <<video, preparation, picked>>
      /\ video \in Videos /\ TypeOK /\ AllSoFar /\ SeenTimed
      /\ decoder.out \in 0 .. FrameCount
  BY DEF StopAll, IInv, TypeOK, AllSoFar, Pictures
<1>2. FrameCount \in Nat /\ prepared \in FramesOrNulls
  BY <1>1, VideoFacts DEF TypeOK, FramesOrNulls
<1>3. IInv'
  BY <1>1, <1>2, SortKeeps
<1> DEFINE n == Seen
<1>4. n \in 0 .. FrameCount
  <2>1. frameAcquired => decoder.out \in 1 .. FrameCount
    BY <1>1, ChosenFrame
  <2>2. QED
    BY <1>1, <1>2, <2>1 DEF Seen
<1>5. prepared = [i \in 1 .. n |-> Shown(i)] /\ Leading = 1 .. n
  BY <1>1, SeenIsLeading DEF AllSoFar
<1>6. \A i \in 1 .. n : i \in 1 .. FrameCount /\ video.times[i] >= 0
  BY <1>1, <1>2, <1>4 DEF SeenTimed
<1> HIDE DEF n
<1>7. Len(prepared) = n
  BY <1>2, <1>4, <1>5
<1>8. ASSUME op' = "idle" PROVE prepared' = prepared
  <2>1. prepared' = Sorted(prepared) /\ ~SortReadsNull(prepared)
    BY <1>1, <1>8 DEF SortAndEnd
  <2>2. CASE ~HasNull(prepared)
    <3>1. prepared \in Seq(Frames) /\ Timed(Frames)
      BY <1>1, <1>2, <2>2, NoNulls, FrameFacts
    <3>2. \A i \in 1 .. n : prepared[i] = Picture(i)
      BY <1>5, <1>7, <2>2 DEF HasNull, Shown
    <3>3. \A i \in 1 .. n : prepared[i].time = video.times[i]
      BY <1>1, <1>6, <3>2, FrameFacts
    <3>4. \A i, j \in 1 .. n : i < j => video.times[i] < video.times[j]
      BY <1>1, <1>6, VideoFacts
    <3>5. \A i, j \in 1 .. Len(prepared) : i < j => prepared[i].time < prepared[j].time
      BY <1>7, <3>3, <3>4
    <3>6. QED
      BY <2>1, <3>1, <3>5, SortedAsTheyAre
  <2>3. CASE HasNull(prepared)
    BY <2>1, <2>3 DEF SortReadsNull, Sorted
  <2>4. QED
    BY <2>2, <2>3
<1>9. QED
  BY <1>3, <1>5, <1>8

(* No frame chosen: the picture goes to prev, and there is a next one.     *)
LEMMA TryNextKeeps ==
  ASSUME IInv, TryNext
  PROVE  IInv' /\ op' = op
<1>1. /\ op \in {"pick", "prepare"} /\ phase = "examining" /\ Chosen = NoFrame
      /\ NextOrEnd(prepared, TRUE, sampleTime)
      /\ video \in Videos /\ TypeOK
  BY DEF TryNext, IInv, TypeOK
<1>2. frameAcquired /\ curr.time >= 0 /\ curr.time <= sampleTime
  BY <1>1, ChosenFrame
<1>3. /\ decoder.out \in 1 .. FrameCount /\ curr = Picture(decoder.out) /\ curr \in Frames
      /\ curr.time = video.times[decoder.out]
  BY <1>1, <1>2, ChosenFrame
<1>4. decoder.out # 0
  BY <1>3
<1>5. /\ Running /\ LoopOn /\ prepared \in FramesOrNulls /\ sampleTime \in Nat
  BY <1>1, <1>2 DEF Running, LoopOn, TypeOK, FramesOrNulls
<1>6. /\ op = "prepare" => ~HasNull(prepared)
      /\ op = "pick" => \A i \in 1 .. decoder.out : video.times[i] >= 0
  BY <1>1, <1>2, SeenOneMore DEF IInv, NoNullSoFar
<1>7. QED
  BY <1>1, <1>2, <1>3, <1>4, <1>5, <1>6, IterationKeeps

(* PickBestFrame returns.                                                  *)
LEMMA ReturnFrameKeeps ==
  ASSUME IInv, ReturnFrame
  PROVE  IInv'
<1>1. /\ op = "pick" /\ phase = "examining" /\ Chosen # NoFrame /\ picked' \in Converted(Chosen)
      /\ StartLoop("idle", 0, 0) /\ UNCHANGED <<video, prepared, preparation>>
      /\ TypeOK /\ IdleInOrder
  BY DEF ReturnFrame, EndLoop, IInv
<1>2. Chosen \in Frames
  BY <1>1, ChosenFrame
<1>3. picked' \in Frames \union {NoFrame}
  BY <1>1, <1>2, ConvertedFrames
<1>4. /\ prepared \in FramesOrNulls /\ preparation \in {"ok", "failed"}
      /\ (preparation = "ok" /\ ~HasNull(prepared)) => InOrder(prepared)
  BY <1>1 DEF TypeOK, FramesOrNulls, IdleInOrder
<1>5. QED
  BY <1>1, <1>3, <1>4, StartEstablishes

(* PrepareFrames appends, and goes on or sorts what it has.                *)
LEMMA AppendFrameKeeps ==
  ASSUME IInv, AppendFrame
  PROVE  IInv' /\ (op' # "prepare" => op' = "idle" /\ ~HasNull(prepared'))
<1>1. /\ op = "prepare" /\ phase = "examining" /\ Chosen # NoFrame
      /\ video \in Videos /\ TypeOK /\ ~HasNull(prepared) /\ prepared \in FramesOrNulls
      /\ sampleTime + step \in Nat
  BY DEF AppendFrame, IInv, TypeOK, NoNullSoFar, FramesOrNulls
<1>2. PICK f \in Converted(Chosen) : NextOrEnd(Kept(prepared, f), ~Near, sampleTime + step)
  BY DEF AppendFrame
<1> DEFINE frames == Kept(prepared, f)
<1>3. frames \in Seq(Frames)
  <2>1. f \in Frames \union {NoFrame}
    BY <1>1, <1>2, ChosenFrame, ConvertedFrames
  <2>2. prepared \in Seq(Frames)
    BY <1>1, NoNulls
  <2>3. QED
    BY <2>1, <2>2 DEF Kept
<1>4. ~HasNull(frames) /\ frames \in FramesOrNulls
  BY <1>1, <1>3, FramesHaveNoNulls, SeqMonotonic DEF FramesOrNulls
<1> HIDE DEF frames
<1>5. CASE LoopOn
  <2>1. Running /\ (~Near) \in BOOLEAN
    BY <1>1 DEF Running, Near
  <2>2. NextOrEnd(frames, ~Near, sampleTime + step)
    BY <1>2 DEF frames
  <2>3. QED
    BY <1>1, <1>4, <1>5, <2>1, <2>2, IterationKeeps
<1>6. CASE ~LoopOn
  <2>1. SortAndEnd(frames) /\ UNCHANGED <<video, preparation, picked>>
    BY <1>1, <1>2, <1>6 DEF NextOrEnd, frames
  <2>2. QED
    BY <1>1, <1>4, <2>1, SortKeeps
<1>7. QED
  BY <1>5, <1>6

(* A failure ends the call; what was prepared is not searchable.           *)
LEMMA DecodeFailsKeeps ==
  ASSUME IInv, DecodeFails
  PROVE  IInv'
<1>1. /\ Running /\ StartLoop("idle", 0, 0) /\ UNCHANGED <<video, prepared, picked>>
      /\ preparation' = IF op = "pick" THEN preparation ELSE "failed"
      /\ TypeOK /\ IdleInOrder
  BY DEF DecodeFails, EndLoop, IInv
<1>2. /\ prepared' \in FramesOrNulls /\ preparation' \in {"ok", "failed"}
      /\ picked' \in Frames \union {NoFrame}
      /\ (preparation' = "ok" /\ ~HasNull(prepared')) => InOrder(prepared')
  BY <1>1 DEF TypeOK, FramesOrNulls, IdleInOrder, HasNull, InOrder
<1>3. QED
  BY <1>1, <1>2, StartEstablishes

(* No frames are in order.                                                 *)
LEMMA EmptyInOrder == InOrder(<<>>) /\ <<>> \in FramesOrNulls
BY DEF InOrder, FramesOrNulls

(* The calls that come while none is in progress.                          *)
LEMMA CallsKeep ==
  ASSUME IInv,
         \/ PrepareAllFrames
         \/ \E dt \in SampleSteps : PrepareFrames(dt)
         \/ \E t \in SampleTimes : PickBestPreparedFrame(t) \/ PickBestFrame(t) \/ NullDereference(t)
         \/ ClearPreparedFrames
  PROVE  IInv'
<1>1. /\ TypeOK /\ IdleInOrder /\ ExaminesLatest /\ EndIsEnd /\ video \in Videos
      /\ prepared \in FramesOrNulls /\ preparation \in {"ok", "failed"}
      /\ picked \in Frames \union {NoFrame}
  BY DEF IInv, TypeOK, FramesOrNulls
<1>2. ASSUME op = "idle", UNCHANGED <<video, callVars>>,
             prepared' \in FramesOrNulls, preparation' \in {"ok", "failed"},
             picked' \in Frames \union {NoFrame},
             (preparation' = "ok" /\ ~HasNull(prepared')) => InOrder(prepared')
      PROVE  IInv'
  <2>1. UNCHANGED <<video, op, phase, sampleTime, step, decoder, endOfStream, frameAcquired,
                    prev, curr, packets>>
    BY <1>2 DEF callVars
  <2>2. FrameCount' = FrameCount /\ Pictures' = Pictures /\ Frames' = Frames
    BY <2>1 DEF FrameCount, Pictures, Frames
  <2>3. prepared' \in Seq(Frames' \union {NoFrame}) /\ picked' \in Frames' \union {NoFrame}
    BY <1>2, <2>2 DEF FramesOrNulls
  <2>4. TypeOK'
    BY <1>1, <1>2, <2>1, <2>2, <2>3 DEF TypeOK
  <2>5. ExaminesLatest' /\ EndIsEnd'
    BY <1>1, <2>1, <2>2 DEF ExaminesLatest, EndIsEnd, Picture
  <2>6. SearchBehind' /\ AllSoFar' /\ NoNullSoFar'
    BY <1>2, <2>1 DEF SearchBehind, AllSoFar, NoNullSoFar
  <2>7. IdleInOrder'
    BY <1>2 DEF IdleInOrder, HasNull, InOrder
  <2>8. QED
    BY <2>4, <2>5, <2>6, <2>7 DEF IInv
<1>3. CASE PrepareAllFrames
  <2>1. /\ StartLoop("prepareAll", 0, 0) /\ prepared' = <<>> /\ preparation' = "ok"
        /\ UNCHANGED <<video, picked>>
    BY <1>3 DEF PrepareAllFrames
  <2>2. QED
    BY <1>1, <2>1, EmptyInOrder, StartEstablishes
<1>4. ASSUME NEW dt \in SampleSteps, PrepareFrames(dt) PROVE IInv'
  <2>1. /\ StartLoop("prepareAll", 0, 0) \/ StartLoop("prepare", 0, dt)
        /\ prepared' = <<>> /\ preparation' = "ok" /\ UNCHANGED <<video, picked>>
    BY <1>4 DEF PrepareFrames
  <2>2. dt \in Nat
    BY TimesAssumption
  <2>3. QED
    BY <1>1, <2>1, <2>2, EmptyInOrder, StartEstablishes
<1>5. ASSUME NEW t \in SampleTimes, PickBestPreparedFrame(t) PROVE IInv'
  <2>1. /\ op = "idle" /\ ~NullRead(prepared, t) /\ picked' = BestPrepared(prepared, t, -1)
        /\ UNCHANGED <<video, callVars, prepared, preparation>>
    BY <1>5 DEF PickBestPreparedFrame
  <2>2. picked' \in Frames \union {NoFrame}
    BY <1>1, <2>1, BestPreparedOneOf DEF FramesOrNulls
  <2>3. (preparation' = "ok" /\ ~HasNull(prepared')) => InOrder(prepared')
    BY <1>1, <2>1 DEF IdleInOrder, HasNull, InOrder
  <2>4. QED
    BY <1>1, <1>2, <2>1, <2>2, <2>3
<1>6. ASSUME NEW t \in SampleTimes, PickBestFrame(t) PROVE IInv'
  <2>1. /\ op = "idle" /\ ~NullRead(prepared, t)
        /\ picked' = BestPrepared(prepared, t, FrameDuration)
        /\ UNCHANGED <<video, prepared, preparation>>
        /\ IF picked' # NoFrame THEN UNCHANGED callVars ELSE StartLoop("pick", t, 0)
    BY <1>6 DEF PickBestFrame
  <2>2. picked' \in Frames \union {NoFrame}
    BY <1>1, <2>1, BestPreparedOneOf DEF FramesOrNulls
  <2>3. (preparation' = "ok" /\ ~HasNull(prepared')) => InOrder(prepared')
    BY <1>1, <2>1 DEF IdleInOrder, HasNull, InOrder
  <2>4. CASE picked' # NoFrame
    BY <1>1, <1>2, <2>1, <2>2, <2>3, <2>4
  <2>5. CASE picked' = NoFrame
    <3>1. StartLoop("pick", t, 0) /\ t \in Nat
      BY <2>1, <2>5, TimesAssumption
    <3>2. QED
      BY <1>1, <2>1, <2>2, <2>3, <2>5, <3>1, StartEstablishes
  <2>6. QED
    BY <2>4, <2>5
<1>7. ASSUME NEW t \in SampleTimes, NullDereference(t) PROVE IInv'
  <2>1. /\ op' = "trapped"
        /\ UNCHANGED <<video, phase, sampleTime, step, decoder, endOfStream, frameAcquired, prev, curr,
                       packets, prepared, preparation, picked>>
    BY <1>7 DEF NullDereference
  <2>2. FrameCount' = FrameCount /\ Pictures' = Pictures /\ Frames' = Frames
    BY <2>1 DEF FrameCount, Pictures, Frames
  <2>3. TypeOK'
    BY <1>1, <2>1, <2>2 DEF TypeOK
  <2>4. ExaminesLatest' /\ EndIsEnd'
    BY <1>1, <2>1, <2>2 DEF ExaminesLatest, EndIsEnd, Picture
  <2>5. SearchBehind' /\ AllSoFar' /\ NoNullSoFar' /\ IdleInOrder'
    BY <2>1 DEF SearchBehind, AllSoFar, NoNullSoFar, IdleInOrder
  <2>6. QED
    BY <2>3, <2>4, <2>5 DEF IInv
<1>8. CASE ClearPreparedFrames
  <2>1. /\ op = "idle" /\ prepared' = <<>> /\ preparation' = "ok"
        /\ UNCHANGED <<video, callVars, picked>>
    BY <1>8 DEF ClearPreparedFrames
  <2>2. QED
    BY <1>1, <1>2, <2>1, EmptyInOrder
<1>9. QED
  BY <1>3, <1>4, <1>5, <1>6, <1>7, <1>8

(* A stream just opened.                                                   *)
LEMMA InitIInv == Init => IInv
<1>1. SUFFICES ASSUME Init PROVE IInv
  OBVIOUS
<1>2. /\ video \in Videos /\ op = "idle" /\ phase = "reading" /\ sampleTime = 0 /\ step = 0
      /\ decoder = [fed |-> 0, out |-> 0] /\ endOfStream = FALSE /\ frameAcquired = FALSE
      /\ prev = Blank /\ curr = Blank /\ packets = {}
      /\ prepared = <<>> /\ preparation = "ok" /\ picked = NoFrame
  BY <1>1 DEF Init
<1>3. Blank \in Frames /\ FrameCount \in Nat
  BY <1>2, FrameFacts, VideoFacts
<1>4. TypeOK
  <2>1. decoder \in [fed : Pictures, out : Pictures] /\ decoder.out <= decoder.fed
    BY <1>2, <1>3 DEF Pictures
  <2>2. prepared \in Seq(Frames \union {NoFrame})
    BY <1>2
  <2>3. QED
    BY <1>2, <1>3, <2>1, <2>2 DEF TypeOK
<1>5. ExaminesLatest /\ EndIsEnd
  BY <1>2 DEF ExaminesLatest, EndIsEnd
<1>6. SearchBehind /\ AllSoFar /\ NoNullSoFar /\ IdleInOrder
  BY <1>2, EmptyInOrder DEF SearchBehind, AllSoFar, NoNullSoFar, IdleInOrder
<1>7. QED
  BY <1>4, <1>5, <1>6 DEF IInv

(* Every step keeps the inductive invariant.                               *)
LEMMA NextKeeps == IInv /\ [Next]_vars => IInv'
<1>1. SUFFICES ASSUME IInv, [Next]_vars PROVE IInv'
  OBVIOUS
<1>2. CASE UNCHANGED vars
  <2>1. UNCHANGED <<video, op, phase, sampleTime, step, decoder, endOfStream, frameAcquired,
                    prev, curr, packets, prepared, preparation, picked>>
    BY <1>2 DEF vars, callVars
  <2>2. TypeOK' /\ ExaminesLatest' /\ EndIsEnd'
    BY <1>1, <2>1 DEF IInv, TypeOK, ExaminesLatest, EndIsEnd, Frames, Pictures,
                      FrameCount, Picture
  <2>3. SearchBehind' /\ AllSoFar' /\ NoNullSoFar' /\ IdleInOrder'
    BY <1>1, <2>1 DEF IInv, SearchBehind, AllSoFar, SeenTimed, NoNullSoFar, IdleInOrder, Seen, Shown, Picture,
                      HasNull, InOrder
  <2>4. QED
    BY <2>2, <2>3 DEF IInv
<1>3. CASE Loop
  BY <1>1, <1>3, DecodeKeeps, ExamineAllKeeps, StopAllKeeps, ReturnFrameKeeps, AppendFrameKeeps,
     TryNextKeeps DEF Loop
<1>4. CASE DecodeFails
  BY <1>1, <1>4, DecodeFailsKeeps
<1>5. CASE Next /\ ~Loop /\ ~DecodeFails
  BY <1>1, <1>5, CallsKeep DEF Next
<1>6. QED
  BY <1>1, <1>2, <1>3, <1>4, <1>5

-----------------------------------------------------------------------------
(* The theorems                                                            *)

(* In every state of every behaviour the inductive invariant holds.        *)
LEMMA Invariance == Spec => []IInv
BY InitIInv, NextKeeps, PTL DEF Spec

(* Every variable has its type in every state: frames[...] is never read   *)
(* outside of the frames.                                                  *)
THEOREM TypeCorrect == Spec => []TypeOK
<1>1. IInv => TypeOK
  BY DEF IInv
<1>2. QED
  BY <1>1, Invariance, PTL

(* The bisection of PickBestFrameFromPrepared finds the first frame at or  *)
(* after any time, however the frames were prepared.                       *)
THEOREM SearchablePrepared == Spec => []PreparedSearchable
<1>1. ASSUME IInv PROVE PreparedSearchable
  <2>1. SUFFICES ASSUME op = "idle", preparation = "ok", ~HasNull(prepared), NEW t \in SampleTimes
                 PROVE  /\ \A i \in 1 .. LowerBound(prepared, t) - 1 : prepared[i].time < t
                        /\ \A i \in LowerBound(prepared, t) .. Len(prepared) : prepared[i].time >= t
    BY DEF PreparedSearchable
  <2>2. prepared \in Seq(Frames \union {NoFrame}) /\ InOrder(prepared) /\ video \in Videos
    BY <1>1, <2>1 DEF IInv, TypeOK, IdleInOrder
  <2>3. \A f \in Frames \union {NoFrame} : f = NoFrame \/ f.time \in Int
    BY <2>2, FrameFacts DEF Timed
  <2>4. t \in Int
    BY TimesAssumption
  <2>5. QED
    BY <2>1, <2>2, <2>3, <2>4, LowerBoundFinds
<1>2. QED
  BY <1>1, Invariance, PTL

(* Of all that may happen while PrepareAllFrames runs, nothing puts a      *)
(* packet into its staging frame at the end of the stream.                 *)
LEMMA DrainedKept == DrainedEmpty /\ [Next]_vars => DrainedEmpty'
<1>1. SUFFICES ASSUME DrainedEmpty, [Next]_vars, op' = "prepareAll", endOfStream'
               PROVE  "curr" \notin packets'
  BY DEF DrainedEmpty
<1>2. ASSUME NEW call, NEW t, NEW dt, StartLoop(call, t, dt) PROVE FALSE
  BY <1>1, <1>2 DEF StartLoop
<1>3. CASE UNCHANGED <<op, endOfStream, packets>>
  BY <1>1, <1>3 DEF DrainedEmpty
<1>4. CASE Decode
  <2>1. /\ op' = op /\ packets' = PacketsRead
        /\ endOfStream' = (endOfStream \/ ~PacketsLeft)
    BY <1>4 DEF Decode
  <2>2. QED
    BY <1>1, <2>1 DEF DrainedEmpty, PacketsRead
<1>5. CASE ExamineAll
  <2>1. PICK f : NextOrEnd(Append(prepared, f), FALSE, sampleTime)
    BY <1>5 DEF ExamineAll
  <2>2. CASE LoopOn
    BY <1>3, <2>1, <2>2 DEF NextOrEnd
  <2>3. CASE ~LoopOn
    <3>1. op = "prepareAll" /\ SortAndEnd(Append(prepared, f))
      BY <1>5, <2>1, <2>3 DEF ExamineAll, NextOrEnd
    <3>2. QED
      BY <1>1, <1>2, <3>1 DEF SortAndEnd, EndLoop
  <2>4. QED
    BY <2>2, <2>3
<1>6. CASE StopAll
  BY <1>1, <1>2, <1>6 DEF StopAll, SortAndEnd, EndLoop
<1>7. CASE ReturnFrame \/ DecodeFails
  BY <1>2, <1>7 DEF ReturnFrame, DecodeFails, EndLoop
<1>8. CASE AppendFrame \/ TryNext
  <2>1. ASSUME NEW frames, NEW swaps, NEW next,
               op \in {"pick", "prepare"}, NextOrEnd(frames, swaps, next)
        PROVE  FALSE
    BY <1>1, <1>2, <2>1 DEF NextOrEnd, SortAndEnd, EndLoop
  <2>2. CASE AppendFrame
    <3>1. PICK f : NextOrEnd(Kept(prepared, f), ~Near, sampleTime + step)
      BY <2>2 DEF AppendFrame
    <3>2. op \in {"pick", "prepare"}
      BY <2>2 DEF AppendFrame
    <3>3. QED
      BY <2>1, <3>1, <3>2
  <2>3. CASE TryNext
    <3>1. op \in {"pick", "prepare"} /\ NextOrEnd(prepared, TRUE, sampleTime)
      BY <2>3 DEF TryNext
    <3>2. QED
      BY <1>1, <1>2, <3>1 DEF NextOrEnd, SortAndEnd, EndLoop
  <2>4. QED
    BY <1>8, <2>2, <2>3
<1>9. CASE PrepareAllFrames
  BY <1>2, <1>9 DEF PrepareAllFrames
<1>10. ASSUME NEW dt \in SampleSteps, PrepareFrames(dt) PROVE FALSE
  <2>1. StartLoop("prepareAll", 0, 0) \/ StartLoop("prepare", 0, dt)
    BY <1>10 DEF PrepareFrames
  <2>2. QED
    BY <1>2, <2>1
<1>11. ASSUME NEW t \in SampleTimes,
              PickBestPreparedFrame(t) \/ PickBestFrame(t) \/ NullDereference(t)
       PROVE  "curr" \notin packets'
  <2>1. CASE PickBestPreparedFrame(t)
    BY <1>3, <2>1 DEF PickBestPreparedFrame, callVars
  <2>2. CASE PickBestFrame(t)
    <3>1. UNCHANGED callVars \/ StartLoop("pick", t, 0)
      BY <2>2 DEF PickBestFrame
    <3>2. QED
      BY <1>2, <1>3, <3>1 DEF callVars
  <2>3. CASE NullDereference(t)
    BY <1>1, <2>3 DEF NullDereference
  <2>4. QED
    BY <1>11, <2>1, <2>2, <2>3
<1>12. CASE ClearPreparedFrames \/ UNCHANGED vars
  BY <1>3, <1>12 DEF ClearPreparedFrames, vars, callVars
<1>13. QED
  BY <1>1, <1>4, <1>5, <1>6, <1>7, <1>8, <1>9, <1>10, <1>11, <1>12 DEF Next, Loop

(* PrepareAllFrames gives the decoder empty packets at the end of every    *)
(* stream, as decoders that hold back pictures want it.                    *)
THEOREM AllDrained == Spec => []DrainedEmpty
<1>1. Init => DrainedEmpty
  BY DEF Init, DrainedEmpty
<1>2. QED
  BY <1>1, DrainedKept, PTL DEF Spec

(* A loop that ends stays in its call, except by StopAll, ReturnFrame,     *)
(* AppendFrame and a failure.                                              *)
LEMMA CallsStay ==
  ASSUME IInv, [Next]_vars, op \in {"prepareAll", "prepare", "pick"}, op' # op
  PROVE  StopAll \/ ReturnFrame \/ AppendFrame \/ DecodeFails
<1>1. op # "idle"
  OBVIOUS
<1>2. ~UNCHANGED vars
  BY DEF vars, callVars
<1>3. ~Decode
  BY DEF Decode
<1>4. ~ExamineAll /\ ~TryNext
  BY ExamineAllKeeps, TryNextKeeps
<1>5. QED
  BY <1>1, <1>2, <1>3, <1>4 DEF Next, Loop, PrepareAllFrames, PrepareFrames, PickBestPreparedFrame,
     PickBestFrame, NullDereference, ClearPreparedFrames

(* PrepareAllFrames prepares every frame before the first without a time   *)
(* once, in order, with its picture, for a stream of any length and a      *)
(* decoder that holds back any number.                                     *)
THEOREM AllPrepared == Spec => PrepareAllComplete
<1>1. ASSUME IInv, [Next]_vars, op = "prepareAll", op' = "idle", preparation' = "ok"
      PROVE  prepared' = [i \in Leading |-> IF i \in video.refused THEN NoFrame
                                        ELSE [time |-> video.times[i], picture |-> i]]
  <2>1. StopAll \/ ReturnFrame \/ AppendFrame \/ DecodeFails
    BY <1>1, CallsStay
  <2>2. ~ReturnFrame /\ ~AppendFrame
    BY <1>1 DEF ReturnFrame, AppendFrame
  <2>3. ~DecodeFails
    BY <1>1 DEF DecodeFails
  <2>4. prepared' = [i \in Leading |-> Shown(i)]
    BY <1>1, <2>1, <2>2, <2>3, StopAllKeeps
  <2>5. QED
    BY <2>4 DEF Shown, Picture
<1>2. IInv /\ [Next]_vars =>
        [(op = "prepareAll" /\ op' = "idle" /\ preparation' = "ok") =>
           prepared' = [i \in Leading |-> IF i \in video.refused THEN NoFrame
                                        ELSE [time |-> video.times[i], picture |-> i]]]_vars
  BY <1>1
<1>3. QED
  BY <1>2, Invariance, PTL DEF Spec, PrepareAllComplete

(* PrepareFrames never ends with a null frame among its frames.            *)
THEOREM NoNullsPrepared == Spec => NullsOnlyFromAll
<1>1. ASSUME IInv, [Next]_vars, op = "prepare", op' # "prepare"
      PROVE  op' = "idle" /\ ~HasNull(prepared')
  <2>1. StopAll \/ ReturnFrame \/ AppendFrame \/ DecodeFails
    BY <1>1, CallsStay
  <2>2. ~StopAll /\ ~ReturnFrame
    BY <1>1 DEF StopAll, ReturnFrame
  <2>3. CASE AppendFrame
    BY <1>1, <2>3, AppendFrameKeeps
  <2>4. CASE DecodeFails
    <3>1. op' = "idle" /\ prepared' = prepared
      BY <2>4 DEF DecodeFails, EndLoop, StartLoop
    <3>2. ~HasNull(prepared)
      BY <1>1 DEF IInv, NoNullSoFar
    <3>3. QED
      BY <3>1, <3>2
  <2>5. QED
    BY <2>1, <2>2, <2>3, <2>4
<1>2. IInv /\ [Next]_vars =>
        [(op = "prepare" /\ op' # "prepare") => (op' = "idle" /\ ~HasNull(prepared'))]_vars
  BY <1>1
<1>3. QED
  BY <1>2, Invariance, PTL DEF Spec, NullsOnlyFromAll

(* PickBestFrame leaves its loop with a frame, unless decoding fails or    *)
(* the picture is refused.                                                 *)
THEOREM PickFinds == Spec => PickFindsFrame
<1>1. ASSUME IInv, [Next]_vars, op = "pick", phase = "examining", op' = "idle"
      PROVE  Chosen # NoFrame /\ (picked' = NoFrame => Chosen.picture \in video.refused)
  <2>1. StopAll \/ ReturnFrame \/ AppendFrame \/ DecodeFails
    BY <1>1, CallsStay
  <2>2. ~StopAll /\ ~AppendFrame /\ ~DecodeFails
    BY <1>1 DEF StopAll, AppendFrame, DecodeFails
  <2>3. Chosen # NoFrame /\ picked' \in Converted(Chosen)
    BY <2>1, <2>2 DEF ReturnFrame
  <2>4. Chosen \in Frames /\ TypeOK
    BY <1>1, <2>3, ChosenFrame DEF IInv
  <2>5. QED
    BY <2>3, <2>4, ConvertedFrames
<1>2. IInv /\ [Next]_vars =>
        [(op = "pick" /\ phase = "examining" /\ op' = "idle") =>
           Chosen # NoFrame /\ (picked' = NoFrame => Chosen.picture \in video.refused)]_vars
  BY <1>1
<1>3. QED
  BY <1>2, Invariance, PTL DEF Spec, PickFindsFrame

-----------------------------------------------------------------------------
(* Which frames suit                                                       *)

Distance(x, t) == Abs(x - t)

(* The distance of two times.                                              *)
LEMMA DistanceFacts ==
  ASSUME NEW x \in Int, NEW t \in Int
  PROVE  /\ Distance(x, t) \in Nat
         /\ x <= t => Distance(x, t) = t - x
         /\ t <= x => Distance(x, t) = x - t
BY DEF Distance, Abs

(* Of two times on the same side of t the closer one is nearer.            *)
LEMMA CloserIsNearer ==
  ASSUME NEW x \in Int, NEW y \in Int, NEW t \in Int, (y <= x /\ x <= t) \/ (t <= x /\ x <= y)
  PROVE  Distance(x, t) <= Distance(y, t)
BY DEF Distance, Abs

(* Of pictures in order of time those next to t are the nearest.           *)
LEMMA LastIsNearest ==
  ASSUME video \in Videos, NEW k \in 1 .. FrameCount, NEW t \in Nat, video.times[k] <= t,
         NEW i \in 1 .. FrameCount, i <= k, video.times[i] >= 0, video.times[k] >= 0
  PROVE  Distance(video.times[k], t) <= Distance(video.times[i], t)
<1>1. /\ video.times[k] \in Int /\ video.times[i] \in Int
      /\ i < k => video.times[i] < video.times[k]
  BY VideoFacts
<1>2. video.times[i] <= video.times[k]
  BY <1>1
<1>3. QED
  BY <1>1, <1>2, CloserIsNearer

(* The same from the other side.                                           *)
LEMMA FirstIsNearest ==
  ASSUME video \in Videos, NEW k \in 1 .. FrameCount, NEW t \in Nat, t <= video.times[k],
         NEW i \in 1 .. FrameCount, k <= i, video.times[i] >= 0, video.times[k] >= 0
  PROVE  Distance(video.times[k], t) <= Distance(video.times[i], t)
<1>1. /\ video.times[k] \in Int /\ video.times[i] \in Int
      /\ k < i => video.times[k] < video.times[i]
  BY VideoFacts
<1>2. video.times[k] <= video.times[i]
  BY <1>1
<1>3. QED
  BY <1>1, <1>2, CloserIsNearer

(* Suits in terms of distances to the pictures.                            *)
LEMMA SuitsByDistance ==
  ASSUME NEW f, NEW t
  PROVE  Suits(f, t) <=> \/ Distance(f.time, t) < FrameDuration
                         \/ \A i \in Leading :
                              Distance(f.time, t) <= Distance(video.times[i], t)
BY DEF Suits, Nearest, Distance

(* What PickBestFrame finds by decoding is as near as it should be.        *)
THEOREM PicksSuit == Spec => PickAccurate
<1>1. ASSUME IInv, [Next]_vars, op = "pick", picked' # NoFrame, StartsAtStart
      PROVE  picked'.picture # 0 /\ Suits(picked', sampleTime)
  <2>1. /\ TypeOK /\ video \in Videos /\ SearchBehind /\ ExaminesLatest /\ picked = NoFrame
        /\ sampleTime \in Nat /\ frameAcquired \in BOOLEAN
    BY <1>1 DEF IInv, TypeOK, SearchBehind
  <2>2. ReturnFrame
    <3>1. picked' # picked
      BY <1>1, <2>1
    <3>2. ~UNCHANGED vars
      BY <3>1 DEF vars
    <3>3. ~Decode /\ ~TryNext /\ ~DecodeFails
      BY <3>1 DEF Decode, TryNext, NextOrEnd, DecodeFails
    <3>4. QED
      BY <1>1, <3>2, <3>3 DEF Next, Loop, ExamineAll, StopAll, AppendFrame, PrepareAllFrames,
         PrepareFrames, PickBestPreparedFrame, PickBestFrame, NullDereference, ClearPreparedFrames
  <2>3. phase = "examining" /\ Chosen # NoFrame /\ picked' \in Converted(Chosen)
    BY <2>2 DEF ReturnFrame
  <2>4. /\ Chosen \in Frames
        /\ picked'.time = Chosen.time /\ (Chosen.picture # 0 => picked'.picture # 0)
    BY <1>1, <2>1, <2>3, ChosenFrame, ConvertedFrames
  <2>5. /\ FrameCount \in Nat /\ FrameCount # 0 /\ FrameDuration \in Nat
        /\ \A i \in 1 .. FrameCount : video.times[i] \in Int /\ Picture(i).time = video.times[i]
        /\ \A i \in Leading : i \in 1 .. FrameCount /\ video.times[i] >= 0
        /\ 1 \in 1 .. FrameCount
    <3>1. FrameCount \in Nat /\ FrameCount # 0
      BY <2>1, VideoFacts
    <3>2. \A i \in Leading : i \in 1 .. FrameCount /\ i \in 1 .. i
      BY <3>1 DEF Leading
    <3>3. QED
      BY <2>1, <3>1, <3>2, VideoFacts, FrameFacts DEF Leading
  <2>6. SUFFICES Chosen.picture # 0 /\ Suits(Chosen, sampleTime)
    BY <2>4, SuitsByDistance
  <2>7. ASSUME ~Near, curr.time < 0 PROVE Chosen.picture # 0 /\ Suits(Chosen, sampleTime)
    <3> DEFINE n == Seen
    <3>1. Chosen = prev /\ Leading = 1 .. n
      <4>1. ~(curr.time > sampleTime) /\ curr.time \notin 0 .. sampleTime
        <5>1. curr.time \in Int
          BY <2>1 DEF TypeOK, Frames
        <5>2. QED
          BY <2>1, <2>7, <5>1
      <4>2. Chosen = prev
        BY <2>7, <4>1 DEF Chosen
      <4>3. QED
        BY <1>1, <2>3, <2>7, <4>2, SeenIsLeading
    <3>2. n \in 1 .. FrameCount
      <4>1. video.times[1] >= 0
        BY <1>1, <2>5 DEF StartsAtStart
      <4>2. 1 \in Leading
        BY <2>5, <4>1 DEF Leading
      <4>3. n \in Int
        BY <2>1 DEF Seen, TypeOK, Pictures
      <4>4. n \in 1 .. n
        BY <3>1, <4>2, <4>3
      <4>5. QED
        BY <2>5, <3>1, <4>4
    <3> HIDE DEF n
    <3>3. Chosen = Picture(n) /\ video.times[n] <= sampleTime
      BY <1>1, <2>1, <3>1, <3>2 DEF SearchBehind, n
    <3>4. Chosen.time = video.times[n] /\ Chosen.picture = n /\ n # 0
      BY <3>2, <3>3 DEF Picture
    <3>5. \A i \in Leading : i <= n /\ n \in Leading
      BY <2>5, <3>1, <3>2
    <3>6. \A i \in Leading :
            Distance(video.times[n], sampleTime) <= Distance(video.times[i], sampleTime)
      BY <2>1, <2>5, <3>2, <3>3, <3>5, LastIsNearest
    <3>7. QED
      BY <3>4, <3>6, SuitsByDistance
  <2>8. CASE Near \/ ~(curr.time < 0)
    <3> DEFINE k == decoder.out
    <3>0. frameAcquired
      BY <1>1, <2>1, <2>3, <2>8, ChosenFrame
    <3>1. k \in 1 .. FrameCount /\ curr = Picture(k) /\ curr.time = video.times[k]
      BY <1>1, <2>3, <3>0, ChosenFrame
    <3>2. curr.picture = k /\ k # 0 /\ curr.time \in Int
      BY <2>5, <3>1 DEF Picture
    <3>3. CASE Near
      <4>1. Chosen = curr
        BY <3>3 DEF Chosen
      <4>2. Distance(curr.time, sampleTime) < FrameDuration
        BY <3>3 DEF Near, Distance
      <4>3. QED
        BY <3>2, <4>1, <4>2, SuitsByDistance
    <3>4. CASE ~Near
      <4>1. curr.time > sampleTime /\ Chosen = IF PrevCloser THEN prev ELSE curr
        <5>1. curr.time \in 0 .. sampleTime => Chosen = NoFrame
          <6>1. curr.time \in 0 .. sampleTime => ~(curr.time < 0) /\ ~(curr.time > sampleTime)
            BY <2>1, <3>2
          <6>2. QED
            BY <3>4, <6>1 DEF Chosen
        <5>2. curr.time > sampleTime
          BY <2>1, <2>3, <2>8, <3>2, <3>4, <5>1
        <5>3. ~(curr.time < 0)
          BY <2>8, <3>4
        <5>4. curr.time \notin 0 .. sampleTime
          BY <2>3, <5>1
        <5>5. curr.time > sampleTime => Chosen = IF PrevCloser THEN prev ELSE curr
          BY <3>4, <5>3, <5>4 DEF Chosen
        <5>6. QED
          BY <5>2, <5>5
      <4>2. Distance(curr.time, sampleTime) >= FrameDuration
        BY <2>1, <2>5, <3>2, <3>4, DistanceFacts DEF Near, Distance
      <4>3. k # 1
        <5>1. ASSUME k = 1 PROVE FALSE
          <6>1. curr.time < FrameDuration
            BY <1>1, <2>5, <3>1, <3>2, <5>1 DEF StartsAtStart
          <6>2. Distance(curr.time, sampleTime) = curr.time - sampleTime
            BY <2>1, <3>2, <4>1 DEF Distance, Abs
          <6>3. QED
            BY <2>1, <2>5, <3>2, <4>2, <6>1, <6>2
        <5>2. QED
          BY <5>1
      <4>4. k - 1 \in 1 .. FrameCount /\ Seen = k - 1
        BY <2>3, <2>5, <3>0, <3>1, <4>3 DEF Seen
      <4>5. prev = Picture(k - 1) /\ video.times[k - 1] <= sampleTime
        BY <1>1, <2>1, <4>4 DEF SearchBehind
      <4>6. prev.time = video.times[k - 1] /\ prev.picture = k - 1 /\ prev.picture # 0
        BY <4>4, <4>5 DEF Picture
      <4>7. ASSUME NEW i \in Leading
            PROVE  \/ Distance(prev.time, sampleTime) <= Distance(video.times[i], sampleTime)
                   \/ Distance(curr.time, sampleTime) <= Distance(video.times[i], sampleTime)
        <5>1. (i <= k - 1 \/ k <= i) /\ i \in 1 .. FrameCount /\ video.times[i] >= 0
          BY <2>5, <3>1
        <5>2. sampleTime <= video.times[k] /\ video.times[k] >= 0
          BY <2>1, <3>1, <3>2, <4>1
        <5>3. video.times[k - 1] >= 0
          <6>1. SeenTimed /\ k - 1 \in 1 .. Seen
            BY <1>1, <2>1, <4>4 DEF SearchBehind
          <6>2. QED
            BY <6>1 DEF SeenTimed
        <5>4. QED
          BY <2>1, <3>1, <4>4, <4>5, <4>6, <5>1, <5>2, <5>3, LastIsNearest, FirstIsNearest
      <4>8. /\ Distance(prev.time, sampleTime) \in Nat /\ Distance(curr.time, sampleTime) \in Nat
            /\ \A i \in Leading : Distance(video.times[i], sampleTime) \in Nat
        <5>1. \A i \in 1 .. FrameCount : Distance(video.times[i], sampleTime) \in Nat
          BY <2>1, <2>5 DEF Distance, Abs
        <5>2. QED
          BY <2>5, <3>1, <4>4, <4>6, <5>1
      <4>9. PrevCloser <=> Distance(prev.time, sampleTime) < Distance(curr.time, sampleTime)
        BY DEF PrevCloser, Distance
      <4>10. \A i \in Leading :
               Distance(Chosen.time, sampleTime) <= Distance(video.times[i], sampleTime)
        BY <4>1, <4>7, <4>8, <4>9
      <4>11. QED
        BY <3>2, <4>1, <4>6, <4>10, SuitsByDistance
    <3>5. QED
      BY <3>3, <3>4
  <2>9. QED
    BY <2>1, <2>7, <2>8
<1>2. IInv /\ [Next]_vars =>
        [(op = "pick" /\ picked' # NoFrame /\ StartsAtStart) =>
           picked'.picture # 0 /\ Suits(picked', sampleTime)]_vars
  BY <1>1
<1>3. QED
  BY <1>2, Invariance, PTL DEF Spec, PickAccurate

-----------------------------------------------------------------------------
(* The samples of PrepareFrames                                            *)

(* The times of the frames that have a picture.                            *)
PictureTimes(frames) == {frames[i].time : i \in {j \in 1 .. Len(frames) : frames[j].picture # 0}}

(* The times of the pictures the loop can still give, or has given.        *)
InHand == PictureTimes(prepared) \union {x \in {prev.time} : prev.picture # 0}

(* None of the first k pictures is nearer to t than g.                     *)
Covers(g, t, k) == \A i \in 1 .. k : Distance(g, t) <= Distance(video.times[i], t)

Served(frames, t) ==
  \E g \in PictureTimes(frames) : Distance(g, t) < FrameDuration \/ Covers(g, t, FrameCount)

(* Every sample so far has its frame; for every sample to come the nearest *)
(* picture seen is prepared or in prev, though the loop may lag behind the *)
(* pictures and though prev is not always the picture before the current.  *)
SamplesServed ==
  (op = "prepare" /\ StartsAtStart /\ AllTimed /\ video.refused = {}) =>
    /\ FrameDuration < step /\ \E m \in Nat : sampleTime = m * step
    /\ Seen = 0 => sampleTime = 0
    /\ prev.picture = 0 => prev.time = 0 /\ (Seen # 0 => video.times[1] <= sampleTime)
    /\ prev.picture # 0 => \E i \in 1 .. Seen : prev.time = video.times[i]
    /\ Seen # 0 => \A t \in Nat : t >= sampleTime => \E g \in InHand : Covers(g, t, Seen)
    /\ \A n \in Nat : n * step < sampleTime => Served(prepared, n * step)

(* The sample times before the next are those so far and this one.         *)
LEMMA Multiples ==
  ASSUME NEW n \in Nat, NEW m \in Nat, NEW d \in Nat, d > 0
  PROVE  /\ n * d \in Nat /\ m * d \in Nat /\ (m + 1) * d = m * d + d
         /\ n * d < m * d + d => n = m \/ n * d < m * d
<1>1. n * d \in Nat /\ m * d \in Nat /\ (m + 1) * d = m * d + d
  OBVIOUS
<1>2. CASE n < m
  <2>1. PICK k \in Nat : m = n + k + 1
    BY <1>2, m - n - 1 \in Nat, m = n + (m - n - 1) + 1
  <2>2. m * d = n * d + k * d + d /\ k * d \in Nat
    BY <2>1
  <2>3. QED
    BY <1>1, <2>2
<1>3. CASE n > m
  <2>1. PICK k \in Nat : n = m + k + 1
    BY <1>3, n - m - 1 \in Nat, n = m + (n - m - 1) + 1
  <2>2. n * d = m * d + k * d + d /\ k * d \in Nat
    BY <2>1
  <2>3. QED
    BY <1>1, <2>2
<1>4. QED
  BY <1>1, <1>2, <1>3

(* A rate below the stream's own has its samples farther apart than its    *)
(* frames.                                                                 *)
LEMMA StepsExceedFrames ==
  ASSUME video \in Videos, NEW dt \in Nat, ~WantsAll(dt)
  PROVE  FrameDuration < dt
<1>1. /\ FrameCount \in Nat /\ FrameCount # 0 /\ video.duration \in Nat /\ FrameDuration \in Nat
  BY VideoFacts, VideosAssumption
<1>2. video.duration < dt * FrameCount
  BY <1>1 DEF WantsAll
<1>3. ASSUME NEW d \in Nat, NEW n \in Nat, n # 0, d < dt * n PROVE d \div n < dt
  <2> DEFINE q == d \div n
  <2>1. q \in Nat /\ n * q <= d
    BY <1>3
  <2> HIDE DEF q
  <2>2. ASSUME q >= dt PROVE FALSE
    <3>1. PICK k \in Nat : q = dt + k
      BY <2>1, <2>2, q - dt \in Nat, q = dt + (q - dt)
    <3>2. n * q = dt * n + n * k /\ n * k \in Nat
      BY <3>1
    <3>3. QED
      BY <1>3, <2>1, <3>2
  <2>3. QED
    BY <2>1, <2>2 DEF q
<1>4. QED
  BY <1>1, <1>2, <1>3 DEF FrameDuration

(* An appended picture adds its time.                                      *)
LEMMA AppendTimes ==
  ASSUME NEW frames \in Seq(Frames), NEW f \in Frames
  PROVE  /\ PictureTimes(frames) \subseteq PictureTimes(Append(frames, f))
         /\ f.picture # 0 => f.time \in PictureTimes(Append(frames, f))
<1> DEFINE longer == Append(frames, f)
<1>1. /\ Len(frames) \in Nat /\ Len(longer) = Len(frames) + 1
      /\ \A i \in 1 .. Len(frames) : longer[i] = frames[i]
      /\ longer[Len(frames) + 1] = f
  BY AppendProperties, LenProperties
<1> HIDE DEF longer
<1>2. \A i \in 1 .. Len(frames) : i \in 1 .. Len(longer)
  BY <1>1
<1>3. Len(frames) + 1 \in 1 .. Len(longer)
  BY <1>1
<1>4. QED
  BY <1>1, <1>2, <1>3 DEF PictureTimes, longer

(* The sort loses no time.                                                 *)
LEMMA SortedTimes ==
  ASSUME video \in Videos, NEW frames \in Seq(Frames)
  PROVE  PictureTimes(frames) \subseteq PictureTimes(Sorted(frames))
<1>1. Timed(Frames)
  BY FrameFacts
<1>2. \A i \in 1 .. Len(frames) : \E k \in 1 .. Len(Sorted(frames)) : Sorted(frames)[k] = frames[i]
  BY <1>1, SortedKeepsAll
<1>3. QED
  BY <1>2 DEF PictureTimes

(* Prepared frames have times that are numbers.                            *)
LEMMA PictureTimesInt ==
  ASSUME NEW frames \in Seq(Frames), NEW g \in PictureTimes(frames)
  PROVE  g \in Int
<1>1. PICK i \in 1 .. Len(frames) : g = frames[i].time
  BY DEF PictureTimes
<1>2. frames[i] \in Frames
  OBVIOUS
<1>3. QED
  BY <1>1, <1>2 DEF Frames

(* What the iteration that appends a frame leaves for the samples.         *)
LEMMA AppendServes ==
  ASSUME IInv, SamplesServed, op = "prepare", StartsAtStart, AllTimed, video.refused = {},
         phase = "examining", Chosen # NoFrame, NEW f \in Converted(Chosen)
  PROVE  LET frames == Append(prepared, f)
             done   == PictureTimes(frames)
             K      == decoder.out
         IN  /\ Kept(prepared, f) = frames /\ frames \in Seq(Frames)
             /\ PictureTimes(prepared) \subseteq done
             /\ \A n \in Nat : n * step < sampleTime + step => Served(frames, n * step)
             /\ ~frameAcquired =>
                  \A t \in Nat : t >= sampleTime => \E g \in done : Covers(g, t, FrameCount)
             /\ (frameAcquired /\ Near) =>
                  \A t \in Nat : t >= sampleTime + step => \E g \in done : Covers(g, t, K)
             /\ (frameAcquired /\ ~Near) =>
                  \A t \in Nat : t >= sampleTime =>
                    \E g \in done \union {curr.time} : Covers(g, t, K)
<1> DEFINE frames == Append(prepared, f)
           done   == PictureTimes(frames)
           K      == decoder.out
           s      == sampleTime
<1>1. /\ TypeOK /\ video \in Videos /\ s \in Nat /\ step \in Nat /\ frameAcquired \in BOOLEAN
      /\ ~HasNull(prepared) /\ prepared \in FramesOrNulls /\ decoder \in [fed : Pictures, out : Pictures]
      /\ prev \in Frames /\ ExaminesLatest
  BY DEF IInv, TypeOK, NoNullSoFar, FramesOrNulls
<1>2. /\ FrameCount \in Nat /\ FrameCount # 0 /\ FrameDuration \in Nat
      /\ \A i \in 1 .. FrameCount : video.times[i] \in Nat
  BY <1>1, VideoFacts DEF AllTimed
<1>3. /\ FrameDuration < step /\ \E m \in Nat : s = m * step
      /\ Seen = 0 => s = 0
      /\ prev.picture = 0 => prev.time = 0 /\ (Seen # 0 => video.times[1] <= s)
      /\ prev.picture # 0 => \E i \in 1 .. Seen : prev.time = video.times[i]
      /\ Seen # 0 => \A t \in Nat : t >= s => \E g \in InHand : Covers(g, t, Seen)
      /\ \A n \in Nat : n * step < s => Served(prepared, n * step)
  BY DEF SamplesServed
<1>4. prepared \in Seq(Frames)
  BY <1>1, NoNulls
<1>5. /\ Chosen \in Frames /\ f \in Frames /\ f # NoFrame /\ f.time = Chosen.time
      /\ Chosen.picture # 0 => f.picture # 0
  BY <1>1, ChosenFrame, ConvertedFrames, FrameFacts
<1>6. Kept(prepared, f) = frames /\ frames \in Seq(Frames)
  BY <1>4, <1>5 DEF Kept
<1>7. /\ PictureTimes(prepared) \subseteq done
      /\ Chosen.picture # 0 => Chosen.time \in done
  BY <1>4, <1>5, AppendTimes
<1>8. /\ \A g \in done : g \in Int
      /\ \A g \in InHand : g \in Int
  <2>1. \A g \in PictureTimes(prepared) : g \in Int
    BY <1>4, PictureTimesInt
  <2>2. prev.time \in Int
    BY <1>1 DEF Frames
  <2>3. QED
    BY <1>6, <2>1, <2>2, PictureTimesInt DEF InHand
<1> HIDE DEF frames, done
<1>9. \A t : Served(prepared, t) => Served(frames, t)
  BY <1>7 DEF Served, done
<1>10. \A n \in Nat : n * step < s + step => n * step = s \/ n * step < s
  BY <1>1, <1>2, <1>3, Multiples
<1>11. ASSUME Served(frames, s)
       PROVE  \A n \in Nat : n * step < s + step => Served(frames, n * step)
  BY <1>3, <1>9, <1>10, <1>11
<1>12. CASE ~frameAcquired
  <2>1. Chosen = prev /\ Seen = FrameCount
    BY <1>1, <1>12, ChosenFrame DEF ExaminesLatest, Seen
  <2>2. ASSUME NEW t \in Nat, t >= s PROVE \E g \in done : Covers(g, t, FrameCount)
    <3>1. PICK g \in InHand : Covers(g, t, FrameCount)
      BY <1>2, <1>3, <2>1, <2>2
    <3>2. g \in done
      BY <1>7, <2>1, <3>1 DEF InHand
    <3>3. QED
      BY <3>1, <3>2
  <2>3. Served(frames, s)
    BY <1>1, <2>2 DEF Served, done
  <2>4. QED
    BY <1>6, <1>7, <1>11, <1>12, <2>2, <2>3 DEF frames, done
<1>13. CASE frameAcquired
  <2>1. /\ K \in 1 .. FrameCount /\ curr = Picture(K) /\ curr.time = video.times[K]
        /\ curr.time \in Nat /\ curr.picture = K /\ K # 0 /\ Seen = K - 1
    BY <1>1, <1>2, <1>13, ChosenFrame DEF Picture, Seen
  <2>2. CASE Near
    <3>1. Chosen = curr /\ curr.time \in done
      BY <1>7, <2>1, <2>2 DEF Chosen
    <3>2. Distance(curr.time, s) < FrameDuration
      BY <2>2 DEF Near, Distance
    <3>3. Served(frames, s)
      BY <3>1, <3>2 DEF Served, done
    <3>4. curr.time < s + step
      BY <1>1, <1>2, <1>3, <2>1, <3>2 DEF Distance, Abs
    <3>5. ASSUME NEW t \in Nat, t >= s + step PROVE \E g \in done : Covers(g, t, K)
      <4>1. video.times[K] <= t
        BY <1>1, <2>1, <3>4, <3>5
      <4>2. \A i \in 1 .. K : i \in 1 .. FrameCount /\ i <= K
        BY <1>2, <2>1
      <4>3. Covers(curr.time, t, K)
        BY <1>1, <1>2, <2>1, <4>1, <4>2, LastIsNearest DEF Covers
      <4>4. QED
        BY <3>1, <4>3
    <3>6. QED
      BY <1>6, <1>7, <1>11, <1>13, <2>2, <3>3, <3>5 DEF frames, done
  <2>3. CASE ~Near
    <3> DEFINE c == curr.time
    <3>1. c > s /\ Chosen = IF PrevCloser THEN prev ELSE curr
      <4>1. c \in 0 .. s => Chosen = NoFrame
        BY <1>1, <2>1, <2>3 DEF Chosen
      <4>2. c > s /\ ~(c < 0) /\ c \notin 0 .. s
        BY <1>1, <2>1, <4>1
      <4>3. QED
        BY <2>3, <4>2 DEF Chosen
    <3>2. Seen # 0
      <4>1. ASSUME Seen = 0 PROVE FALSE
        <5>1. K = 1 /\ s = 0
          BY <1>3, <2>1, <4>1
        <5>2. c < FrameDuration
          BY <1>2, <2>1, <5>1 DEF StartsAtStart
        <5>3. Abs(c - s) < FrameDuration
          BY <1>2, <2>1, <5>1, <5>2 DEF Abs
        <5>4. QED
          BY <2>3, <5>3 DEF Near
      <4>2. QED
        BY <4>1
    <3>3. /\ Seen \in 1 .. FrameCount /\ Seen < K /\ \A i \in 1 .. K : i \in 1 .. Seen \/ i = K
          /\ \A i \in 1 .. K : i \in 1 .. FrameCount
          /\ \A i \in 1 .. Seen : i \in 1 .. FrameCount /\ i < K
      BY <1>2, <2>1, <3>2
    <3>4. PrevCloser <=> Distance(prev.time, s) < Distance(c, s)
      BY DEF PrevCloser, Distance
    <3>5. prev.time \in Int /\ c \in Nat /\ (prev.picture # 0 => prev.time <= c)
      <4>1. prev.time \in Int
        BY <1>1 DEF Frames
      <4>2. ASSUME NEW i \in 1 .. Seen PROVE video.times[i] <= c
        <5>1. i \in 1 .. FrameCount /\ i < K
          BY <3>3
        <5>2. video.times[i] < video.times[K] /\ video.times[i] \in Nat
          BY <1>1, <1>2, <2>1, <5>1, VideoFacts
        <5>3. QED
          BY <2>1, <5>2
      <4>3. QED
        BY <1>3, <2>1, <4>1, <4>2
    <3>6. ASSUME NEW t \in Nat, t >= s
          PROVE  \E g \in done \union {c} : Covers(g, t, K)
      <4>1. PICK g \in InHand : Covers(g, t, Seen)
        BY <1>3, <3>2, <3>6
      <4>2. g \in Int /\ Distance(g, t) \in Nat /\ Distance(c, t) \in Nat
            /\ \A i \in 1 .. K : Distance(video.times[i], t) \in Nat
        BY <1>2, <1>8, <2>1, <3>3 DEF Distance, Abs
      <4>3. CASE Distance(c, t) <= Distance(g, t)
        <5>1. Covers(c, t, K)
          BY <2>1, <3>3, <4>1, <4>2, <4>3 DEF Covers
        <5>2. QED
          BY <5>1
      <4>4. CASE Distance(g, t) < Distance(c, t)
        <5>1. Covers(g, t, K)
          BY <2>1, <3>3, <4>1, <4>2, <4>4 DEF Covers
        <5>2. g \in done
          <6>1. CASE g \in PictureTimes(prepared)
            BY <1>7, <6>1
          <6>2. CASE g \notin PictureTimes(prepared)
            <7>1. prev.picture # 0 /\ g = prev.time
              BY <4>1, <6>2 DEF InHand
            <7>2. PrevCloser
              <8>1. ASSUME Distance(c, s) <= Distance(g, s) PROVE FALSE
                BY <1>1, <3>1, <3>5, <3>6, <4>2, <4>4, <7>1, <8>1 DEF Distance, Abs
              <8>2. Distance(c, s) \in Nat /\ Distance(g, s) \in Nat
                BY <1>1, <3>5, <4>2 DEF Distance, Abs
              <8>3. QED
                BY <3>4, <7>1, <8>1, <8>2
            <7>3. QED
              BY <1>7, <3>1, <7>1, <7>2
          <6>3. QED
            BY <6>1, <6>2
        <5>3. QED
          BY <5>1, <5>2
      <4>5. QED
        BY <4>2, <4>3, <4>4
    <3>7. Served(frames, s)
      <4>1. PICK g \in done \union {c} : Covers(g, s, K)
        BY <1>1, <3>6
      <4>2. g \in Int /\ Distance(g, s) \in Nat /\ Distance(c, s) \in Nat
            /\ \A i \in 1 .. FrameCount : Distance(video.times[i], s) \in Nat
        BY <1>1, <1>2, <1>8, <2>1 DEF Distance, Abs
      <4>3. Covers(g, s, FrameCount)
        <5>1. ASSUME NEW i \in 1 .. FrameCount PROVE Distance(g, s) <= Distance(video.times[i], s)
          <6>1. CASE i <= K
            BY <2>1, <4>1, <6>1 DEF Covers
          <6>2. CASE K <= i
            <7>1. s <= video.times[K]
              BY <1>1, <2>1, <3>1
            <7>2. Distance(video.times[K], s) <= Distance(video.times[i], s)
              BY <1>1, <1>2, <2>1, <6>2, <7>1, FirstIsNearest
            <7>3. Distance(g, s) <= Distance(video.times[K], s)
              BY <2>1, <4>1 DEF Covers
            <7>4. QED
              BY <2>1, <4>2, <7>2, <7>3
          <6>3. QED
            BY <2>1, <6>1, <6>2
        <5>2. QED
          BY <5>1 DEF Covers
      <4>4. CASE g \in done
        BY <4>3, <4>4 DEF Served, done
      <4>5. CASE g \notin done
        <5>1. g = c
          BY <4>1, <4>5
        <5>2. PrevCloser
          <6>1. ASSUME ~PrevCloser PROVE FALSE
            <7>1. c \in done
              BY <1>7, <2>1, <3>1, <6>1
            <7>2. QED
              BY <4>5, <5>1, <7>1
          <6>2. QED
            BY <6>1
        <5>3. Distance(prev.time, s) < Distance(c, s) /\ Distance(prev.time, s) \in Nat
          BY <1>1, <3>4, <3>5, <5>2 DEF Distance, Abs
        <5>4. CASE prev.picture # 0
          <6>1. PICK i \in 1 .. Seen : prev.time = video.times[i]
            BY <1>3, <5>4
          <6>2. i \in 1 .. FrameCount
            BY <3>3, <6>1
          <6>3. Distance(c, s) <= Distance(prev.time, s)
            BY <4>3, <5>1, <6>1, <6>2 DEF Covers
          <6>4. QED
            BY <4>2, <5>3, <6>3
        <5>5. CASE prev.picture = 0
          <6>1. prev.time = 0 /\ video.times[1] <= s /\ 1 \in 1 .. FrameCount
            BY <1>2, <1>3, <3>2, <5>5
          <6>2. Distance(c, s) <= Distance(video.times[1], s)
            BY <4>3, <5>1, <6>1 DEF Covers
          <6>3. Distance(video.times[1], s) <= Distance(prev.time, s)
            BY <1>1, <1>2, <6>1, CloserIsNearer
          <6>4. QED
            BY <4>2, <5>3, <6>1, <6>2, <6>3
        <5>6. QED
          BY <5>4, <5>5
      <4>6. QED
        BY <4>4, <4>5
    <3>8. QED
      BY <1>6, <1>7, <1>11, <1>13, <2>3, <3>6, <3>7 DEF frames, done
  <2>4. QED
    BY <2>2, <2>3
<1>14. QED
  BY <1>1, <1>12, <1>13

(* The state after a step of the loop, in terms of the one before.         *)
LEMMA SamplesCarry ==
  ASSUME UNCHANGED <<video, step>>, FrameDuration < step, \E m \in Nat : sampleTime' = m * step,
         Seen' = 0 => sampleTime' = 0,
         prev'.picture = 0 =>
           prev'.time = 0 /\ (Seen' # 0 => video.times[1] <= sampleTime'),
         prev'.picture # 0 => \E i \in 1 .. Seen' : prev'.time = video.times[i],
         Seen' # 0 => \A t \in Nat : t >= sampleTime' =>
           \E g \in PictureTimes(prepared') \union {x \in {prev'.time} : prev'.picture # 0} :
             Covers(g, t, Seen'),
         \A n \in Nat : n * step < sampleTime' => Served(prepared', n * step)
  PROVE  SamplesServed'
<1>1. FrameDuration' = FrameDuration /\ FrameCount' = FrameCount
  BY DEF FrameDuration, FrameCount
<1>2. InHand' = PictureTimes(prepared') \union {x \in {prev'.time} : prev'.picture # 0}
  BY DEF InHand, PictureTimes
<1>3. \A g, t : Covers(g, t, Seen') <=> Covers(g, t, Seen)'
  BY DEF Covers
<1>4. \A n : Served(prepared', n * step) <=> Served(prepared, n * step)'
  BY <1>1 DEF Served, Covers, PictureTimes
<1>5. Seen' # 0 => \A t \in Nat : t >= sampleTime' => \E g \in InHand' : Covers(g, t, Seen)'
  BY <1>2, <1>3
<1>6. \A n \in Nat : n * step < sampleTime' => Served(prepared, n * step)'
  BY <1>4
<1>7. QED
  BY <1>1, <1>5, <1>6 DEF SamplesServed

(* PrepareFrames begins with no picture and the sample time 0.             *)
LEMMA StartServes ==
  ASSUME IInv, NEW dt \in SampleSteps, PrepareFrames(dt), op' = "prepare"
  PROVE  SamplesServed'
<1>1. ~WantsAll(dt) /\ StartLoop("prepare", 0, dt) /\ prepared' = <<>> /\ video' = video
  BY DEF PrepareFrames, StartLoop
<1>2. /\ sampleTime' = 0 /\ step' = dt /\ phase' = "reading" /\ decoder'.out = 0 /\ prev' = Blank
  BY <1>1 DEF StartLoop, Rewound
<1>3. Seen' = 0
  BY <1>2 DEF Seen
<1>4. dt \in Nat /\ video \in Videos
  BY TimesAssumption DEF IInv, TypeOK
<1>5. FrameDuration' < step'
  <2>1. FrameDuration' = FrameDuration
    BY <1>1 DEF FrameDuration, FrameCount
  <2>2. QED
    BY <1>1, <1>2, <1>4, <2>1, StepsExceedFrames
<1>6. \E m \in Nat : sampleTime' = m * step'
  BY <1>2, <1>4, 0 * dt = 0
<1>7. prev'.picture = 0 /\ prev'.time = 0
  BY <1>2 DEF Blank
<1>8. \A n \in Nat : ~(n * step' < sampleTime')
  BY <1>2, <1>4
<1>9. QED
  BY <1>2, <1>3, <1>5, <1>6, <1>7, <1>8 DEF SamplesServed

(* Decoding deals with no sample.                                          *)
LEMMA DecodeServes ==
  ASSUME IInv, SamplesServed, Decode
  PROVE  SamplesServed'
<1>1. Seen' = Seen
  BY DecodeKeeps
<1>2. UNCHANGED <<video, op, sampleTime, step, prev, prepared>>
  BY DEF Decode
<1>3. /\ FrameCount' = FrameCount /\ FrameDuration' = FrameDuration
      /\ StartsAtStart' <=> StartsAtStart
      /\ AllTimed' <=> AllTimed
  BY <1>2 DEF StartsAtStart, AllTimed, FrameDuration, FrameCount
<1>4. /\ InHand' = InHand
      /\ \A g, t : Covers(g, t, Seen)' <=> Covers(g, t, Seen)
  BY <1>1, <1>2 DEF InHand, PictureTimes, Covers
<1>5. \A n : Served(prepared, n * step)' <=> Served(prepared, n * step)
  BY <1>2, <1>3 DEF Served, PictureTimes, Covers
<1>6. QED
  BY <1>1, <1>2, <1>3, <1>4, <1>5 DEF SamplesServed

(* A picture before the sample time is the nearest so far, in prev.        *)
LEMMA TryNextServes ==
  ASSUME IInv, SamplesServed, TryNext, op = "prepare", StartsAtStart, AllTimed, video.refused = {}
  PROVE  SamplesServed'
<1>1. /\ phase = "examining" /\ Chosen = NoFrame /\ op' = op
      /\ NextOrEnd(prepared, TRUE, sampleTime) /\ video \in Videos /\ sampleTime \in Nat
  BY TryNextKeeps DEF TryNext, IInv, TypeOK
<1>2. frameAcquired /\ curr.time \in 0 .. sampleTime
  BY <1>1, ChosenFrame
<1> DEFINE K == decoder.out
<1>3. /\ K \in 1 .. FrameCount /\ curr.time = video.times[K] /\ curr.picture = K /\ K # 0
  BY <1>1, <1>2, ChosenFrame DEF Picture
<1>4. /\ phase' = "reading" /\ prev' = curr
      /\ UNCHANGED <<video, op, step, decoder, sampleTime, prepared>>
  BY <1>1, <1>2 DEF NextOrEnd, SwapStaging, LoopOn
<1>5. Seen' = K
  BY <1>4 DEF Seen
<1>6. FrameCount \in Nat
  BY <1>1, VideoFacts
<1>7. ASSUME NEW t \in Nat, t >= sampleTime PROVE Covers(curr.time, t, K)
  <2>1. video.times[K] <= t
    BY <1>1, <1>2, <1>3, <1>7, VideoFacts
  <2>2. \A i \in 1 .. K : i \in 1 .. FrameCount /\ i <= K /\ video.times[i] >= 0
    BY <1>3, <1>6 DEF AllTimed
  <2>3. QED
    BY <1>1, <1>2, <1>3, <2>1, <2>2, LastIsNearest DEF Covers
<1>8. /\ FrameDuration < step /\ \E m \in Nat : sampleTime = m * step
      /\ \A n \in Nat : n * step < sampleTime => Served(prepared, n * step)
  BY DEF SamplesServed
<1>9. K \in 1 .. K
  BY <1>3, <1>6
<1>10. QED
  BY <1>2, <1>3, <1>4, <1>5, <1>7, <1>8, <1>9, SamplesCarry

(* An appended frame serves its sample, and the next one may come.         *)
LEMMA AppendFrameServes ==
  ASSUME IInv, SamplesServed, AppendFrame, op = "prepare", StartsAtStart, AllTimed, video.refused = {},
         op' = "prepare"
  PROVE  SamplesServed'
<1>1. /\ phase = "examining" /\ Chosen # NoFrame /\ video \in Videos /\ TypeOK
      /\ sampleTime \in Nat /\ step \in Nat /\ frameAcquired \in BOOLEAN
  BY DEF AppendFrame, IInv, TypeOK
<1>2. PICK f \in Converted(Chosen) : NextOrEnd(Kept(prepared, f), ~Near, sampleTime + step)
  BY DEF AppendFrame
<1> DEFINE frames == Append(prepared, f)
           done   == PictureTimes(frames)
           K      == decoder.out
<1>3. /\ Kept(prepared, f) = frames /\ frames \in Seq(Frames)
      /\ \A n \in Nat : n * step < sampleTime + step => Served(frames, n * step)
      /\ (frameAcquired /\ Near) =>
           \A t \in Nat : t >= sampleTime + step => \E g \in done : Covers(g, t, K)
      /\ (frameAcquired /\ ~Near) =>
           \A t \in Nat : t >= sampleTime =>
             \E g \in done \union {curr.time} : Covers(g, t, K)
  BY <1>1, AppendServes
<1> HIDE DEF frames, done
<1>4. LoopOn
  <2>1. ASSUME ~LoopOn PROVE FALSE
    <3>1. SortAndEnd(frames)
      BY <1>1, <1>2, <1>3, <2>1 DEF NextOrEnd
    <3>2. QED
      BY <3>1 DEF SortAndEnd, EndLoop, StartLoop
  <2>2. QED
    BY <2>1
<1>5. frameAcquired
  BY <1>1, <1>4 DEF LoopOn, IInv, ExaminesLatest
<1>6. /\ phase' = "reading" /\ sampleTime' = sampleTime + step /\ prepared' = frames
      /\ prev' = IF Near THEN prev ELSE curr
      /\ UNCHANGED <<video, op, step, decoder>>
  BY <1>2, <1>3, <1>4 DEF NextOrEnd, SwapStaging
<1>7. Seen' = K /\ Seen = K - 1
  BY <1>1, <1>5, <1>6 DEF Seen
<1>8. /\ K \in 1 .. FrameCount /\ curr.time = video.times[K] /\ curr.picture = K /\ K # 0
      /\ FrameCount \in Nat /\ FrameDuration \in Nat /\ \A i \in 1 .. FrameCount : video.times[i] \in Nat
  BY <1>1, <1>5, ChosenFrame, VideoFacts DEF Picture, AllTimed
<1>9. /\ FrameDuration < step
      /\ prev.picture = 0 => prev.time = 0 /\ (Seen # 0 => video.times[1] <= sampleTime)
      /\ prev.picture # 0 => \E i \in 1 .. Seen : prev.time = video.times[i]
  BY <1>1 DEF SamplesServed
<1>10. \E m \in Nat : sampleTime' = m * step
  <2>1. PICK m \in Nat : sampleTime = m * step
    BY <1>1 DEF SamplesServed
  <2>2. sampleTime' = (m + 1) * step /\ m + 1 \in Nat
    BY <1>1, <1>6, <1>8, <1>9, <2>1, Multiples
  <2>3. QED
    BY <2>2
<1>11. video.times[1] <= sampleTime'
  <2>1. video.times[1] < FrameDuration /\ 1 \in 1 .. FrameCount
    BY <1>8 DEF StartsAtStart
  <2>2. QED
    BY <1>1, <1>6, <1>8, <1>9, <2>1
<1>12. prev'.picture = 0 => prev'.time = 0
  BY <1>6, <1>8, <1>9
<1>13. prev'.picture # 0 => \E i \in 1 .. Seen' : prev'.time = video.times[i]
  <2>1. \A i \in 1 .. Seen : i \in 1 .. Seen'
    BY <1>7, <1>8
  <2>2. K \in 1 .. Seen'
    BY <1>7, <1>8
  <2>3. QED
    BY <1>6, <1>8, <1>9, <2>1, <2>2
<1>14. ASSUME NEW t \in Nat, t >= sampleTime'
       PROVE  \E g \in PictureTimes(prepared') \union {x \in {prev'.time} : prev'.picture # 0} :
                Covers(g, t, Seen')
  <2>1. t >= sampleTime + step /\ t >= sampleTime
    BY <1>1, <1>6, <1>14
  <2>2. PictureTimes(prepared') = done
    BY <1>6 DEF done
  <2>3. CASE Near
    BY <1>3, <1>5, <1>7, <2>1, <2>2, <2>3
  <2>4. CASE ~Near
    <3>1. {x \in {prev'.time} : prev'.picture # 0} = {curr.time}
      BY <1>6, <1>8, <2>4
    <3>2. QED
      BY <1>3, <1>5, <1>7, <2>1, <2>2, <2>4, <3>1
  <2>5. QED
    BY <2>3, <2>4
<1>15. \A n \in Nat : n * step < sampleTime' => Served(prepared', n * step)
  BY <1>3, <1>6
<1>16. QED
  BY <1>6, <1>7, <1>8, <1>9, <1>10, <1>11, <1>12, <1>13, <1>14, <1>15, SamplesCarry

(* The steps that lead into PrepareFrames or stay in it.                   *)
LEMMA PrepareSteps ==
  ASSUME IInv, [Next]_vars, op' = "prepare"
  PROVE  \/ UNCHANGED vars \/ Decode \/ TryNext \/ AppendFrame
         \/ \E dt \in SampleSteps : PrepareFrames(dt)
<1>1. ~DecodeFails /\ ~ReturnFrame
  BY DEF DecodeFails, ReturnFrame, EndLoop, StartLoop
<1>2. ~StopAll
  BY DEF StopAll, SortAndEnd, EndLoop, StartLoop
<1>3. ~ExamineAll
  BY ExamineAllKeeps DEF ExamineAll
<1>4. ~PrepareAllFrames /\ ~ClearPreparedFrames
  BY DEF PrepareAllFrames, StartLoop, ClearPreparedFrames, callVars
<1>5. ASSUME NEW t \in SampleTimes
      PROVE  ~PickBestPreparedFrame(t) /\ ~PickBestFrame(t) /\ ~NullDereference(t)
  BY DEF PickBestPreparedFrame, PickBestFrame, NullDereference, StartLoop, callVars
<1>6. QED
  BY <1>1, <1>2, <1>3, <1>4, <1>5 DEF Next, Loop

(* Every step keeps what the samples need.                                 *)
LEMMA SamplesKeep ==
  ASSUME IInv, SamplesServed, [Next]_vars
  PROVE  SamplesServed'
<1>1. SUFFICES ASSUME op' = "prepare", StartsAtStart', AllTimed', video'.refused = {} PROVE SamplesServed'
  BY DEF SamplesServed
<1>2. CASE UNCHANGED vars
  BY <1>2 DEF vars, callVars, SamplesServed, StartsAtStart, AllTimed, FrameDuration, FrameCount, InHand, Seen,
              PictureTimes, Covers, Served
<1>3. CASE Decode
  BY <1>3, DecodeServes
<1>4. CASE \E dt \in SampleSteps : PrepareFrames(dt)
  BY <1>1, <1>4, StartServes
<1>5. CASE TryNext \/ AppendFrame
  <2>1. video' = video
    BY <1>5 DEF TryNext, AppendFrame, NextOrEnd
  <2>2. StartsAtStart /\ AllTimed /\ video.refused = {}
    BY <1>1, <2>1 DEF StartsAtStart, AllTimed, FrameDuration, FrameCount
  <2>3. op = "prepare"
    BY <1>1, <1>5, TryNextKeeps DEF AppendFrame
  <2>4. QED
    BY <1>1, <1>5, <2>2, <2>3, TryNextServes, AppendFrameServes
<1>6. QED
  BY <1>1, <1>2, <1>3, <1>4, <1>5, PrepareSteps

(* After PrepareFrames, if nothing failed, every sample time has a frame   *)
(* with a picture that suits it -- for every stream with times, however    *)
(* irregular.                                                              *)
THEOREM SamplesPrepared == Spec => EverySamplePrepared
<1>1. Init => SamplesServed
  BY DEF Init, SamplesServed
<1>2. IInv /\ SamplesServed /\ [Next]_vars => SamplesServed'
  BY SamplesKeep
<1>3. ASSUME IInv, SamplesServed, [Next]_vars,
             op = "prepare", op' = "idle", preparation' = "ok", StartsAtStart, AllTimed, video.refused = {}
      PROVE  \A n \in 0 .. video.duration :
               \E i \in 1 .. Len(prepared') :
                 prepared'[i].picture # 0 /\ Suits(prepared'[i], n * step)
  <2>1. StopAll \/ ReturnFrame \/ AppendFrame \/ DecodeFails
    BY <1>3, CallsStay
  <2>2. AppendFrame
    BY <1>3, <2>1 DEF StopAll, ReturnFrame, DecodeFails
  <2>3. /\ phase = "examining" /\ Chosen # NoFrame /\ video \in Videos /\ TypeOK
        /\ sampleTime \in Nat /\ step \in Nat /\ frameAcquired \in BOOLEAN
    BY <1>3, <2>2 DEF AppendFrame, IInv, TypeOK
  <2>4. PICK f \in Converted(Chosen) : NextOrEnd(Kept(prepared, f), ~Near, sampleTime + step)
    BY <2>2 DEF AppendFrame
  <2> DEFINE frames == Append(prepared, f)
             done   == PictureTimes(frames)
  <2>5. /\ Kept(prepared, f) = frames /\ frames \in Seq(Frames)
        /\ \A n \in Nat : n * step < sampleTime + step => Served(frames, n * step)
        /\ ~frameAcquired =>
             \A t \in Nat : t >= sampleTime => \E g \in done : Covers(g, t, FrameCount)
    BY <1>3, <2>3, AppendServes
  <2> HIDE DEF frames, done
  <2>6. ~LoopOn
    BY <1>3, <2>4 DEF NextOrEnd
  <2>7. ~frameAcquired /\ SortAndEnd(frames)
    BY <1>3, <2>4, <2>5, <2>6 DEF LoopOn, NextOrEnd
  <2>8. prepared' = Sorted(frames)
    BY <1>3, <2>7 DEF SortAndEnd
  <2>9. FrameDuration < step /\ FrameDuration \in Nat
    BY <1>3, <2>3, VideoFacts DEF SamplesServed
  <2>10. ASSUME NEW n \in Nat PROVE Served(frames, n * step)
    <3>1. n * step \in Nat
      BY <2>3
    <3>2. CASE n * step < sampleTime + step
      BY <2>5, <3>2
    <3>3. CASE n * step >= sampleTime
      BY <2>5, <2>7, <3>1, <3>3 DEF Served, done
    <3>4. QED
      BY <2>3, <2>9, <3>1, <3>2, <3>3
  <2>11. \A t : Served(frames, t) => Served(prepared', t)
    BY <2>3, <2>5, <2>8, SortedTimes DEF Served
  <2>12. ASSUME NEW t, Served(prepared', t)
         PROVE  \E i \in 1 .. Len(prepared') : prepared'[i].picture # 0 /\ Suits(prepared'[i], t)
    <3>1. PICK g \in PictureTimes(prepared') :
            Distance(g, t) < FrameDuration \/ Covers(g, t, FrameCount)
      BY <2>12 DEF Served
    <3>2. PICK i \in 1 .. Len(prepared') : prepared'[i].picture # 0 /\ prepared'[i].time = g
      BY <3>1 DEF PictureTimes
    <3>3. Suits(prepared'[i], t)
      BY <3>1, <3>2, SuitsByDistance DEF Covers, Leading
    <3>4. QED
      BY <3>2, <3>3
  <2>13. \A n \in 0 .. video.duration : n \in Nat
    BY <2>3, VideosAssumption
  <2>14. QED
    BY <2>10, <2>11, <2>12, <2>13
<1>4. IInv /\ SamplesServed /\ [Next]_vars =>
        [(/\ op = "prepare" /\ op' = "idle" /\ preparation' = "ok"
          /\ StartsAtStart /\ AllTimed /\ video.refused = {}) =>
           \A n \in 0 .. video.duration :
             \E i \in 1 .. Len(prepared') :
               prepared'[i].picture # 0 /\ Suits(prepared'[i], n * step)]_vars
  BY <1>3
<1>5. QED
  BY <1>1, <1>2, <1>4, Invariance, PTL DEF Spec, EverySamplePrepared
=============================================================================
