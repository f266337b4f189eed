--------------------------- MODULE Agents_proofs ---------------------------
(***************************************************************************)
(* What is proved of the agents and of what becomes of their signals:      *)
(* first what folds, sums and counts come to, for every sequence and every *)
(* finite set, then for each component its inductive invariant and the     *)
(* truths that follow from it.                                             *)
(***************************************************************************)
EXTENDS Agents, FunctionTheorems, FiniteSetTheorems, SequenceTheorems,
        WellFoundedInduction, TLAPS

-----------------------------------------------------------------------------
(* Folds, sums and counts.                                                 *)

(* Induction over the naturals: from the library's minimal elements of a   *)
(* well-founded order.                                                     *)
LEMMA LeastNat ==
  ASSUME NEW T, T \subseteq Nat, T # {}
  PROVE  \E x \in T : \A y \in T : x <= y
  <1> DEFINE R == OpToRel(<, Nat)
  <1>1. IsWellFoundedOn(R, Nat)
    BY NatLessThanWellFounded
  <1>2. R = {z \in Nat \X Nat : z[1] < z[2]}
    BY DEF OpToRel
  <1> HIDE DEF R
  <1>3. PICK x \in T : \A y \in T : ~ (<<y, x>> \in R)
    BY <1>1, WFMin
  <1>4. \A y \in T : ~(y < x)
    BY <1>2, <1>3
  <1>5. QED
    BY <1>4

(* What holds of zero and goes from a number below n to the next, holds up *)
(* to n.                                                                   *)
LEMMA UpTo ==
  ASSUME NEW n \in Nat, NEW Good, 0 \in Good,
         \A k \in 0..(n - 1) : k \in Good => k + 1 \in Good
  PROVE  \A k \in 0..n : k \in Good
  <1> DEFINE Bad == {k \in 0..n : k \notin Good}
  <1> SUFFICES ASSUME Bad # {} PROVE FALSE
    OBVIOUS
  <1>1. Bad \subseteq Nat
    OBVIOUS
  <1>2. PICK x \in Bad : \A y \in Bad : x <= y
    BY <1>1, LeastNat
  <1>3. x \in 1..n
    BY <1>2
  <1>4. x - 1 \in 0..(n - 1) /\ ~(x <= x - 1)
    BY <1>3
  <1>5. x - 1 \in Good
    BY <1>2, <1>4
  <1>6. x - 1 + 1 = x
    BY <1>3
  <1>7. QED
    BY <1>2, <1>4, <1>5, <1>6

-----------------------------------------------------------------------------
(* The library folds a sequence by a function of the sets of its places,   *)
(* taking away the last place of a set.  There is such a function, and on  *)
(* the first k places it runs as the loop does that it stands for.         *)
LEMMA MaxOfFirst ==
  ASSUME NEW k \in Nat \ {0}
  PROVE  Max(1..k) = k /\ (1..k) \ {Max(1..k)} = 1..(k - 1)
  <1>1. k \in 1..k /\ \A y \in 1..k : k >= y
    OBVIOUS
  <1>2. \A x \in 1..k : (\A y \in 1..k : x >= y) => x = k
    OBVIOUS
  <1>3. Max(1..k) = k
    BY <1>1, <1>2 DEF Max
  <1>4. (1..k) \ {k} = 1..(k - 1)
    <2>1. ASSUME NEW j \in Int PROVE j \in (1..k) \ {k} <=> j \in 1..(k - 1)
      OBVIOUS
    <2>2. QED
      BY <2>1
  <1>5. QED
    BY <1>3, <1>4

\* A set of some of the first numbers has a greatest element.
LEMMA MaxOfPart ==
  ASSUME NEW n \in Nat, NEW s \in SUBSET (1..n), s # {}
  PROVE  Max(s) \in s
  <1> DEFINE T == {n - x : x \in s}
  <1>1. T \subseteq Nat /\ T # {}
    <2>1. \A x \in s : n - x \in Nat
      OBVIOUS
    <2>2. QED
      BY <2>1
  <1>2. PICK t \in T : \A y \in T : t <= y
    BY <1>1, LeastNat
  <1>3. PICK x \in s : t = n - x
    BY <1>2
  <1>4. \A y \in s : x >= y
    <2> SUFFICES ASSUME NEW y \in s PROVE x >= y
      OBVIOUS
    <2>1. n - x <= n - y
      BY <1>2, <1>3
    <2>2. QED
      BY <2>1
  <1>5. QED
    BY <1>4 DEF Max

(* One equation of a fold over the parts of D, which takes the element     *)
(* pick[s] out of a part s last.                                           *)
FoldStep(g, base, step, pick, s) ==
  IF s = {} THEN base ELSE step[<<pick[s], g[s \ {pick[s]}]>>]

Folds(D, g, base, step, pick, size) ==
  \A s \in SUBSET D : Cardinality(s) <= size => g[s] = FoldStep(g, base, step, pick, s)

Picks(D, pick) == \A s \in SUBSET D : s # {} => pick[s] \in s

HasFold(D, V, base, step, pick) ==
  \E g \in [SUBSET D -> V] : \A s \in SUBSET D : g[s] = FoldStep(g, base, step, pick, s)

\* A fold that picks one element after another is defined on every part of a finite set.
LEMMA FoldExists ==
  ASSUME NEW D, IsFiniteSet(D), NEW V, NEW base \in V, NEW step \in [D \X V -> V],
         NEW pick, Picks(D, pick)
  PROVE  HasFold(D, V, base, step, pick)
  <1> DEFINE Parts == SUBSET D
             n == Cardinality(D)
             Good == {size \in Nat : \E g \in [Parts -> V] : Folds(D, g, base, step, pick, size)}
  <1>1. n \in Nat /\ \A s \in Parts : IsFiniteSet(s) /\ Cardinality(s) \in 0..n
    <2>1. n \in Nat
      BY FS_CardinalityType
    <2>2. ASSUME NEW s \in Parts PROVE IsFiniteSet(s) /\ Cardinality(s) <= n
      <3>1. s \subseteq D
        OBVIOUS
      <3> HIDE DEF Good
      <3>2. QED
        BY <3>1, FS_Subset
    <2>3. \A s \in Parts : IsFiniteSet(s) => Cardinality(s) \in Nat
      BY FS_CardinalityType
    <2> HIDE DEF n
    <2>4. QED
      BY <2>1, <2>2, <2>3
  <1>2. 0 \in Good
    <2> DEFINE g == [s \in Parts |-> base]
    <2>1. g \in [Parts -> V]
      OBVIOUS
    <2>2. ASSUME NEW s \in Parts, Cardinality(s) <= 0 PROVE s = {}
      BY <1>1, <2>2, FS_EmptySet
    <2>3. Folds(D, g, base, step, pick, 0)
      BY <2>2 DEF Folds, FoldStep
    <2> HIDE DEF g
    <2>4. QED
      BY <2>1, <2>3
  <1>3. ASSUME NEW k \in 0..(n - 1), k \in Good PROVE k + 1 \in Good
    <2>0. k \in Nat
      OBVIOUS
    <2>1. PICK g \in [Parts -> V] : Folds(D, g, base, step, pick, k)
      BY <1>3
    <2> DEFINE h == [s \in Parts |-> FoldStep(g, base, step, pick, s)]
    <2> HIDE DEF Good
    <2>2. ASSUME NEW s \in Parts, s # {}
          PROVE  /\ pick[s] \in s /\ s \ {pick[s]} \in Parts
                 /\ Cardinality(s \ {pick[s]}) = Cardinality(s) - 1
      <3>1. pick[s] \in s
        BY <2>2 DEF Picks
      <3>2. QED
        BY <1>1, <3>1, FS_RemoveElement
    <2>3. h \in [Parts -> V]
      <3>1. ASSUME NEW s \in Parts PROVE FoldStep(g, base, step, pick, s) \in V
        <4>1. CASE s = {}
          BY <4>1 DEF FoldStep
        <4>2. CASE s # {}
          <5> DEFINE x == pick[s]
                     y == g[s \ {x}]
          <5>1. x \in D /\ y \in V
            BY <2>2, <4>2
          <5> HIDE DEF x, y
          <5>2. step[<<x, y>>] \in V
            BY <5>1
          <5>3. QED
            BY <4>2, <5>2 DEF FoldStep, x, y
        <4>3. QED
          BY <4>1, <4>2
      <3>2. QED
        BY <3>1
    <2>4. ASSUME NEW s \in Parts, Cardinality(s) <= k PROVE h[s] = g[s]
      BY <2>1, <2>4 DEF Folds
    <2>5. ASSUME NEW s \in Parts, Cardinality(s) <= k + 1
          PROVE  h[s] = FoldStep(h, base, step, pick, s)
      <3>1. h[s] = FoldStep(g, base, step, pick, s)
        OBVIOUS
      <3> HIDE DEF h
      <3>2. CASE s = {}
        BY <3>1, <3>2 DEF FoldStep
      <3>3. CASE s # {}
        <4> DEFINE r == s \ {pick[s]}
        <4>1. r \in Parts /\ Cardinality(r) = Cardinality(s) - 1
          BY <2>2, <3>3
        <4>2. Cardinality(s) \in Int
          BY <1>1
        <4> HIDE DEF r
        <4>3. h[r] = g[r]
          BY <2>0, <2>4, <2>5, <4>1, <4>2
        <4>4. QED
          BY <3>1, <3>3, <4>3 DEF r, FoldStep
      <3>4. QED
        BY <3>2, <3>3
    <2> HIDE DEF h
    <2>6. Folds(D, h, base, step, pick, k + 1)
      BY <2>5 DEF Folds
    <2>7. QED
      BY <2>0, <2>3, <2>6 DEF Good
  <1>4. n \in Good
    <2> HIDE DEF Good, n
    <2>1. \A k \in 0..n : k \in Good
      BY <1>1, <1>2, <1>3, UpTo
    <2>2. QED
      BY <1>1, <2>1
  <1>5. PICK g \in [Parts -> V] : Folds(D, g, base, step, pick, n)
    BY <1>4
  <1>6. ASSUME NEW s \in Parts PROVE g[s] = FoldStep(g, base, step, pick, s)
    <2> HIDE DEF n
    <2>1. Cardinality(s) <= n
      BY <1>1
    <2>2. QED
      BY <1>5, <2>1 DEF Folds
  <1>7. QED
    BY <1>6 DEF HasFold

(* The values on the first k places. *)
Iterates(iter, n, V, base, step) ==
  /\ iter[{}] = base
  /\ \A k \in 1..n : iter[1..(k - 1)] \in V => iter[1..k] = step[<<k, iter[1..(k - 1)]>>]

Runs(n, V, base, step, last) ==
  \E run \in [0..n -> V] :
    /\ run[0] = base /\ run[n] = last
    /\ \A k \in 1..n : run[k] = step[<<k, run[k - 1]>>]

LEMMA FoldRuns ==
  ASSUME NEW n \in Nat, NEW V, NEW base \in V, NEW step \in [(1..n) \X V -> V],
         NEW iter, Iterates(iter, n, V, base, step)
  PROVE  Runs(n, V, base, step, iter[1..n])
  <1> DEFINE run == [k \in 0..n |-> iter[1..k]]
             Good == {k \in 0..n : iter[1..k] \in V}
  <1>1. 1..0 = {}
    OBVIOUS
  <1>2. 0 \in Good
    BY <1>1 DEF Iterates
  <1>3. ASSUME NEW k \in 0..(n - 1), k \in Good PROVE k + 1 \in Good
    <2>1. k + 1 \in 1..n /\ k + 1 - 1 = k
      OBVIOUS
    <2>2. iter[1..k] \in V
      BY <1>3
    <2>3. iter[1..(k + 1)] = step[<<k + 1, iter[1..k]>>]
      BY <2>1, <2>2 DEF Iterates
    <2>4. QED
      BY <2>1, <2>2, <2>3
  <1> HIDE DEF Good
  <1>4. \A k \in 0..n : k \in Good
    BY <1>2, <1>3, UpTo
  <1>5. \A k \in 0..n : iter[1..k] \in V
    BY <1>4 DEF Good
  <1>6. run \in [0..n -> V] /\ run[0] = base /\ run[n] = iter[1..n]
    BY <1>1, <1>5 DEF Iterates
  <1>7. ASSUME NEW k \in 1..n PROVE run[k] = step[<<k, run[k - 1]>>]
    <2>1. k - 1 \in 0..n /\ k \in 0..n
      OBVIOUS
    <2>2. iter[1..k] = step[<<k, iter[1..(k - 1)]>>]
      BY <1>5, <2>1 DEF Iterates
    <2>3. QED
      BY <2>1, <2>2
  <1> HIDE DEF run
  <1>8. QED
    BY <1>6, <1>7 DEF Runs

-----------------------------------------------------------------------------
(* The sum of a sequence is the last of its running totals. *)
Running(q, run) ==
  /\ run \in [0..Len(q) -> Int] /\ run[0] = 0
  /\ \A k \in 1..Len(q) : run[k] = run[k - 1] + q[k]

(* The same for the sets of places of a sequence of n elements.            *)
HasFoldOfPlaces(n, V, base, step) ==
  \E g \in [SUBSET (1..n) -> V] :
    /\ g[{}] = base
    /\ \A s \in SUBSET (1..n) : s # {} =>
         /\ Max(s) \in 1..n /\ g[s \ {Max(s)}] \in V
         /\ g[s] = step[<<Max(s), g[s \ {Max(s)}]>>]

LEMMA FoldOfPlaces ==
  ASSUME NEW n \in Nat, NEW V, NEW base \in V, NEW step \in [(1..n) \X V -> V]
  PROVE  HasFoldOfPlaces(n, V, base, step)
  <1> DEFINE D == 1..n
             pick == [s \in SUBSET D |-> Max(s)]
  <1>1. IsFiniteSet(D)
    BY FS_Interval
  <1>2. \A s \in SUBSET D : s # {} => Max(s) \in s
    BY MaxOfPart
  <1> HIDE DEF D
  <1>3. Picks(D, pick)
    BY <1>2 DEF Picks
  <1> HIDE DEF pick
  <1>4. step \in [D \X V -> V]
    BY DEF D
  <1>5. PICK g \in [SUBSET D -> V] : \A s \in SUBSET D : g[s] = FoldStep(g, base, step, pick, s)
    <2>1. HasFold(D, V, base, step, pick)
      BY <1>1, <1>3, <1>4, FoldExists
    <2>2. QED
      BY <2>1 DEF HasFold
  <1>6. g[{}] = base
    BY <1>5 DEF FoldStep
  <1>7. ASSUME NEW s \in SUBSET D, s # {}
        PROVE  /\ Max(s) \in D /\ g[s \ {Max(s)}] \in V
               /\ g[s] = step[<<Max(s), g[s \ {Max(s)}]>>]
    <2>1. pick[s] = Max(s)
      BY DEF pick
    <2>2. g[s] = FoldStep(g, base, step, pick, s)
      BY <1>5
    <2>3. Max(s) \in D /\ s \ {Max(s)} \in SUBSET D
      BY <1>2, <1>7
    <2>4. QED
      BY <1>7, <2>1, <2>2, <2>3 DEF FoldStep
  <1>8. QED
    BY <1>6, <1>7 DEF D, HasFoldOfPlaces

\* The sum is the last of the running totals.
LEMMA SumRuns ==
  ASSUME NEW q \in Seq(Int)
  PROVE  \E run : Running(q, run) /\ SumOf(q) = run[Len(q)]
  <1> DEFINE n == Len(q)
             step == [p \in (1..n) \X Int |-> p[2] + q[p[1]]]
             Eq(f) == f = [s \in SUBSET (1..n) |->
                             IF s = {} THEN 0 ELSE f[s \ {Max(s)}] + q[Max(s)]]
             iter == CHOOSE f : Eq(f)
  <1>1. n \in Nat /\ DOMAIN q = 1..n /\ \A k \in 1..n : q[k] \in Int
    OBVIOUS
  <1>2. SumOf(q) = iter[1..n]
    BY <1>1 DEF SumOf, FoldLeft, MapThenFoldSet
  <1> HIDE DEF n
  <1>3. step \in [(1..n) \X Int -> Int]
    BY <1>1
  <1>4. \A k \in 1..n, x \in Int : step[<<k, x>>] = x + q[k]
    OBVIOUS
  <1> HIDE DEF step
  <1>5. PICK g \in [SUBSET (1..n) -> Int] :
           /\ g[{}] = 0
           /\ \A s \in SUBSET (1..n) : s # {} =>
                /\ Max(s) \in 1..n /\ g[s \ {Max(s)}] \in Int
                /\ g[s] = step[<<Max(s), g[s \ {Max(s)}]>>]
    <2>1. 0 \in Int
      OBVIOUS
    <2>2. HasFoldOfPlaces(n, Int, 0, step)
      BY <1>1, <1>3, <2>1, FoldOfPlaces
    <2> HIDE DEF Eq, iter
    <2>3. QED
      BY <2>2 DEF HasFoldOfPlaces
  <1>6. ASSUME NEW s \in SUBSET (1..n), s # {}
        PROVE  g[s] = g[s \ {Max(s)}] + q[Max(s)]
    BY <1>4, <1>5, <1>6
  <1>7. Eq(g)
    BY <1>5, <1>6
  <1>8. Eq(iter)
    BY <1>7
  <1> HIDE DEF iter
  <1>9. iter[{}] = 0
    BY <1>8
  <1>10. ASSUME NEW k \in 1..n, iter[1..(k - 1)] \in Int
         PROVE  iter[1..k] = step[<<k, iter[1..(k - 1)]>>]
    <2>1. k \in Nat \ {0} /\ k \in 1..k /\ 1..k \subseteq 1..n
      BY <1>1
    <2>2. 1..k \in SUBSET (1..n) /\ 1..k # {}
      BY <2>1
    <2>3. Max(1..k) = k /\ (1..k) \ {Max(1..k)} = 1..(k - 1)
      BY <2>1, MaxOfFirst
    <2>4. iter[1..k] = iter[(1..k) \ {Max(1..k)}] + q[Max(1..k)]
      BY <1>8, <2>2
    <2>5. iter[1..k] = iter[1..(k - 1)] + q[k]
      BY <2>3, <2>4
    <2>6. QED
      BY <1>4, <1>10, <2>5
  <1>11. PICK run \in [0..n -> Int] :
           /\ run[0] = 0 /\ run[n] = iter[1..n]
           /\ \A k \in 1..n : run[k] = step[<<k, run[k - 1]>>]
    <2>1. 0 \in Int
      OBVIOUS
    <2>2. Iterates(iter, n, Int, 0, step)
      BY <1>9, <1>10 DEF Iterates
    <2>3. Runs(n, Int, 0, step, iter[1..n])
      BY <1>1, <1>3, <2>1, <2>2, FoldRuns
    <2>4. QED
      BY <2>3 DEF Runs
  <1>12. ASSUME NEW k \in 1..n PROVE run[k] = run[k - 1] + q[k]
    <2>1. k - 1 \in 0..n
      BY <1>1
    <2>2. QED
      BY <1>4, <1>11, <2>1
  <1>13. QED
    BY <1>2, <1>11, <1>12 DEF Running, n

\* Sequences that begin alike have the same totals there.
LEMMA RunsAgree ==
  ASSUME NEW q \in Seq(Int), NEW r \in Seq(Int), Len(q) <= Len(r),
         \A k \in 1..Len(q) : r[k] = q[k],
         NEW run, Running(q, run), NEW other, Running(r, other)
  PROVE  \A k \in 0..Len(q) : other[k] = run[k]
  <1> DEFINE n == Len(q)
             Good == {k \in 0..n : other[k] = run[k]}
  <1>1. n \in Nat /\ Len(r) \in Nat /\ n <= Len(r)
    OBVIOUS
  <1>2. 0 \in Good
    BY <1>1 DEF Running
  <1>3. ASSUME NEW k \in 0..(n - 1), k \in Good PROVE k + 1 \in Good
    <2>1. k + 1 \in 1..n /\ k + 1 \in 1..Len(r) /\ k + 1 - 1 = k
      BY <1>1
    <2>2. run[k + 1] = run[k] + q[k + 1] /\ other[k + 1] = other[k] + r[k + 1]
      BY <2>1 DEF Running
    <2>3. QED
      BY <1>3, <2>1, <2>2
  <1> HIDE DEF Good
  <1>4. \A k \in 0..n : k \in Good
    <2> HIDE DEF n
    <2>1. QED
      BY <1>1, <1>2, <1>3, UpTo
  <1>5. QED
    BY <1>4 DEF Good

\* A row with one number more has one running total more.
LEMMA OneMore ==
  ASSUME NEW q \in Seq(Int), NEW r \in Seq(Int), Len(r) = Len(q) + 1,
         \A k \in 1..Len(q) : r[k] = q[k],
         NEW run, Running(q, run), NEW other, Running(r, other)
  PROVE  other[Len(q) + 1] = run[Len(q)] + r[Len(q) + 1]
  <1>1. Len(q) \in Nat /\ Len(q) \in 0..Len(q) /\ Len(q) <= Len(r)
    OBVIOUS
  <1>2. \A k \in 0..Len(q) : other[k] = run[k]
    BY <1>1, RunsAgree
  <1>3. \A k \in 1..Len(r) : other[k] = other[k - 1] + r[k]
    BY DEF Running
  <1>4. Len(q) + 1 \in 1..Len(r) /\ Len(q) + 1 - 1 = Len(q)
    BY <1>1
  <1>5. other[Len(q) + 1] = other[Len(q)] + r[Len(q) + 1]
    BY <1>3, <1>4
  <1>6. QED
    BY <1>1, <1>2, <1>5

LEMMA SumFacts ==
  /\ SumOf(<<>>) = 0
  /\ \A q \in Seq(Int) : SumOf(q) \in Int
  /\ \A q \in Seq(Int), x \in Int : SumOf(Append(q, x)) = SumOf(q) + x
  <1>1. SumOf(<<>>) = 0
    <2> DEFINE e == <<>>
    <2>1. e \in Seq(Int) /\ Len(e) = 0
      OBVIOUS
    <2> HIDE DEF e
    <2>2. PICK run : Running(e, run) /\ SumOf(e) = run[Len(e)]
      BY <2>1, SumRuns
    <2>3. SumOf(e) = 0
      BY <2>1, <2>2 DEF Running
    <2>4. QED
      BY <2>3 DEF e
  <1>2. ASSUME NEW q \in Seq(Int) PROVE SumOf(q) \in Int
    <2>1. PICK run : Running(q, run) /\ SumOf(q) = run[Len(q)]
      BY SumRuns
    <2>2. Len(q) \in 0..Len(q)
      OBVIOUS
    <2>3. QED
      BY <2>1, <2>2 DEF Running
  <1>3. ASSUME NEW q \in Seq(Int), NEW x \in Int PROVE SumOf(Append(q, x)) = SumOf(q) + x
    <2> DEFINE r == Append(q, x)
               n == Len(q)
    <2>1. n \in Nat /\ r \in Seq(Int) /\ Len(r) = n + 1 /\ r[n + 1] = x /\ \A k \in 1..n : r[k] = q[k]
      OBVIOUS
    <2>2. PICK run : Running(q, run) /\ SumOf(q) = run[n]
      BY SumRuns
    <2> HIDE DEF r
    <2>3. PICK other : Running(r, other) /\ SumOf(r) = other[n + 1]
      BY <2>1, SumRuns
    <2> HIDE DEF n
    <2>4. other[n + 1] = run[n] + r[n + 1]
      BY <2>1, <2>2, <2>3, OneMore DEF n
    <2>5. QED
      BY <2>1, <2>2, <2>3, <2>4 DEF r
  <1>4. QED
    BY <1>1, <1>2, <1>3

-----------------------------------------------------------------------------
(* Sums over finite sets. *)
Pick(s) == CHOOSE x \in s : TRUE

(* What holds of the empty set, and of a set when it holds of what is left *)
(* without the element picked first, holds of every part of a finite set.  *)
LEMMA ByParts ==
  ASSUME NEW D, IsFiniteSet(D), NEW Good, {} \in Good,
         \A s \in SUBSET D : s # {} /\ s \ {Pick(s)} \in Good => s \in Good
  PROVE  \A s \in SUBSET D : s \in Good
  <1> DEFINE Bad == {s \in SUBSET D : s \notin Good}
             Sizes == {Cardinality(s) : s \in Bad}
  <1> SUFFICES ASSUME Bad # {} PROVE FALSE
    OBVIOUS
  <1>1. \A s \in SUBSET D : IsFiniteSet(s) /\ Cardinality(s) \in Nat
    BY FS_Subset, FS_CardinalityType
  <1>2. Sizes \subseteq Nat /\ Sizes # {}
    BY <1>1
  <1>3. PICK m \in Sizes : \A y \in Sizes : m <= y
    BY <1>2, LeastNat
  <1>4. PICK s \in Bad : m = Cardinality(s)
    BY <1>3
  <1>5. s # {}
    BY <1>4
  <1>6. Pick(s) \in s
    BY <1>5 DEF Pick
  <1>7. s \ {Pick(s)} \in SUBSET D /\ s \in SUBSET D
    BY <1>4
  <1>8. Cardinality(s \ {Pick(s)}) = Cardinality(s) - 1
    BY <1>1, <1>6, <1>7, FS_RemoveElement
  <1>9. s \ {Pick(s)} \notin Bad
    <2>1. Cardinality(s) \in Nat /\ ~(Cardinality(s) <= Cardinality(s) - 1)
      BY <1>1, <1>7
    <2>2. QED
      BY <1>3, <1>4, <1>8, <2>1
  <1>10. QED
    BY <1>4, <1>5, <1>7, <1>9

Adds(T, f, run) ==
  /\ run[{}] = 0
  /\ \A s \in SUBSET T : s # {} => run[s] = f[Pick(s)] + run[s \ {Pick(s)}]

\* A sum over a finite set adds its elements one after another, as they are picked.
LEMMA SumAdds ==
  ASSUME NEW T, IsFiniteSet(T), NEW f, \A x \in T : f[x] \in Int
  PROVE  \E run : Adds(T, f, run) /\ SumOver(f, T) = run[T]
  <1> DEFINE Eq(g) == g = [s \in SUBSET T |->
                             IF s = {} THEN 0 ELSE f[Pick(s)] + g[s \ {Pick(s)}]]
             iter == CHOOSE g : Eq(g)
             step == [p \in T \X Int |-> f[p[1]] + p[2]]
             pick == [s \in SUBSET T |-> Pick(s)]
  <1>1. SumOver(f, T) = iter[T]
    BY DEF SumOver, MapThenSumSet, MapThenFoldSet, Pick
  <1>2. step \in [T \X Int -> Int] /\ \A x \in T, y \in Int : step[<<x, y>>] = f[x] + y
    OBVIOUS
  <1>3. \A s \in SUBSET T : s # {} => Pick(s) \in s
    BY DEF Pick
  <1>4. Picks(T, pick) /\ \A s \in SUBSET T : pick[s] = Pick(s)
    BY <1>3 DEF Picks
  <1> HIDE DEF step, pick, Eq, iter
  <1>5. HasFold(T, Int, 0, step, pick)
    <2>1. 0 \in Int
      OBVIOUS
    <2>2. QED
      BY <1>2, <1>4, <2>1, FoldExists
  <1>6. PICK g \in [SUBSET T -> Int] : \A s \in SUBSET T : g[s] = FoldStep(g, 0, step, pick, s)
    BY <1>5 DEF HasFold
  <1>7. ASSUME NEW s \in SUBSET T
        PROVE  g[s] = IF s = {} THEN 0 ELSE f[Pick(s)] + g[s \ {Pick(s)}]
    <2>1. CASE s = {}
      BY <1>6, <2>1 DEF FoldStep
    <2>2. CASE s # {}
      <3>1. Pick(s) \in T /\ g[s \ {Pick(s)}] \in Int
        BY <1>3, <1>6, <2>2
      <3>2. g[s] = step[<<Pick(s), g[s \ {Pick(s)}]>>]
        BY <1>4, <1>6, <2>2 DEF FoldStep
      <3>3. QED
        BY <1>2, <2>2, <3>1, <3>2
    <2>3. QED
      BY <2>1, <2>2
  <1>8. Eq(g)
    BY <1>6, <1>7 DEF Eq
  <1>9. Eq(iter)
    BY <1>8 DEF iter
  <1>10. iter = [s \in SUBSET T |-> IF s = {} THEN 0 ELSE f[Pick(s)] + iter[s \ {Pick(s)}]]
    BY <1>9 DEF Eq
  <1>11. Adds(T, f, iter)
    BY <1>10 DEF Adds
  <1>12. QED
    BY <1>1, <1>11

(* The sum of numbers is a number, and nought of noughts. *)
LEMMA SumIsInt ==
  ASSUME NEW T, IsFiniteSet(T), NEW f, \A x \in T : f[x] \in Int
  PROVE  SumOver(f, T) \in Int /\ ((\A x \in T : f[x] = 0) => SumOver(f, T) = 0)
  <1>1. PICK run : Adds(T, f, run) /\ SumOver(f, T) = run[T]
    BY SumAdds
  <1> DEFINE Good == {s \in SUBSET T : run[s] \in Int /\ ((\A x \in T : f[x] = 0) => run[s] = 0)}
  <1>2. {} \in Good
    BY <1>1 DEF Adds
  <1>3. ASSUME NEW s \in SUBSET T, s # {}, s \ {Pick(s)} \in Good PROVE s \in Good
    <2>1. Pick(s) \in T
      BY <1>3 DEF Pick
    <2>2. run[s] = f[Pick(s)] + run[s \ {Pick(s)}]
      BY <1>1, <1>3 DEF Adds
    <2>3. QED
      BY <1>3, <2>1, <2>2
  <1> HIDE DEF Good
  <1>4. \A s \in SUBSET T : s \in Good
    BY <1>2, <1>3, ByParts
  <1>5. T \in Good
    BY <1>4
  <1>6. QED
    BY <1>1, <1>5 DEF Good

(* A sum in which one number at most grows, and by one, grows by one at    *)
(* most; and one in which none does stays.                                 *)
LEMMA SumGrows ==
  ASSUME NEW T, IsFiniteSet(T), NEW f, \A x \in T : f[x] \in Int,
         NEW g, NEW U, \A x \in T : g[x] = IF x \in U THEN f[x] + 1 ELSE f[x],
         \A x, y \in T \cap U : x = y
  PROVE  SumOver(g, T) = SumOver(f, T) + IF T \cap U = {} THEN 0 ELSE 1
  <1>1. \A x \in T : g[x] \in Int
    OBVIOUS
  <1>2. PICK run : Adds(T, f, run) /\ SumOver(f, T) = run[T]
    BY SumAdds
  <1>3. PICK other : Adds(T, g, other) /\ SumOver(g, T) = other[T]
    BY <1>1, SumAdds
  <1> DEFINE Grown(s) == IF s \cap U = {} THEN 0 ELSE 1
             Good == {s \in SUBSET T : run[s] \in Int /\ other[s] = run[s] + Grown(s)}
  <1>4. {} \in Good
    BY <1>2, <1>3 DEF Adds
  <1>5. ASSUME NEW s \in SUBSET T, s # {}, s \ {Pick(s)} \in Good PROVE s \in Good
    <2> DEFINE x == Pick(s)
               r == s \ {x}
    <2>1. x \in s /\ x \in T
      BY <1>5 DEF Pick
    <2>2. run[s] = f[x] + run[r] /\ other[s] = g[x] + other[r]
      BY <1>2, <1>3, <1>5 DEF Adds
    <2>3. run[r] \in Int /\ other[r] = run[r] + Grown(r)
      BY <1>5
    <2>4. Grown(s) = Grown(r) + IF x \in U THEN 1 ELSE 0
      <3>1. CASE x \in U
        <4>1. r \cap U = {} /\ s \cap U # {}
          BY <2>1, <3>1
        <4>2. QED
          BY <3>1, <4>1
      <3>2. CASE x \notin U
        <4>1. r \cap U = s \cap U
          BY <3>2
        <4>2. QED
          BY <3>2, <4>1
      <3>3. QED
        BY <3>1, <3>2
    <2>5. g[x] = f[x] + (IF x \in U THEN 1 ELSE 0) /\ f[x] \in Int
      BY <2>1
    <2>6. Grown(r) \in Int /\ Grown(s) \in Int
      OBVIOUS
    <2> HIDE DEF x, r, Grown
    <2>7. run[s] \in Int /\ other[s] = run[s] + Grown(s)
      BY <2>2, <2>3, <2>4, <2>5, <2>6
    <2>8. QED
      BY <2>7
  <1> HIDE DEF Good
  <1>6. \A s \in SUBSET T : s \in Good
    BY <1>4, <1>5, ByParts
  <1>7. T \in Good
    BY <1>6
  <1>8. QED
    BY <1>2, <1>3, <1>7 DEF Good

-----------------------------------------------------------------------------
(* The knowledge graph.                                                    *)

(* The inductive invariant.  What the connection sees and what a restart   *)
(* would bring back both have a row of the index for the name of every     *)
(* entity whose last adding did not fail.                                  *)
Tables ==
  [entities : [Ids -> Names \cup {Nameless}],
   index : Seq(Ids \X Names),
   relations : SUBSET (Ids \X Ids \X Kinds)]

HasRow(t, id, name) == \E i \in DOMAIN t.index : t.index[i] = <<id, name>>

IndexedIn(t, excused) ==
  \A id \in Ids :
    t.entities[id] # Nameless /\ id \notin excused => HasRow(t, id, t.entities[id])

GraphIInv ==
  /\ live \in Tables /\ durable \in Tables
  /\ Len(live.index) <= MaxRows /\ Len(durable.index) <= MaxRows
  /\ IndexedIn(live, failed) /\ IndexedIn(durable, failed)

LEMMA GraphInitIInv == GraphInit => GraphIInv
  <1>1. /\ EmptyGraph \in Tables /\ EmptyGraph.index = <<>>
        /\ \A id \in Ids : EmptyGraph.entities[id] = Nameless
    BY DEF EmptyGraph, Tables
  <1>2. Len(EmptyGraph.index) <= MaxRows
    BY <1>1, GraphAssumption
  <1>3. QED
    BY <1>1, <1>2 DEF GraphInit, GraphIInv, IndexedIn

(* An entity that is added has a row of its name, and the others keep what *)
(* they had; a failed adding excuses its own entity only.                  *)
LEMMA WithEntityKeeps ==
  ASSUME NEW t \in Tables, NEW id \in Ids, NEW name \in Names
  PROVE  /\ WithEntity(t, id, name) \in Tables
         /\ WithEntity(t, id, name).index = t.index
         /\ WithEntity(t, id, name).entities[id] = name
         /\ \A other \in Ids \ {id} : WithEntity(t, id, name).entities[other] = t.entities[other]
  BY DEF WithEntity, Tables

LEMMA IndexedKeeps ==
  ASSUME NEW t \in Tables, NEW id \in Ids, NEW name \in Names
  PROVE  /\ Indexed(t, id, name) \in Tables
         /\ Indexed(t, id, name).entities = t.entities
         /\ Len(Indexed(t, id, name).index) = Len(t.index) + 1
         /\ HasRow(Indexed(t, id, name), id, name)
         /\ \A o \in Ids, m \in Names : HasRow(t, o, m) => HasRow(Indexed(t, id, name), o, m)
  <1> DEFINE p == <<id, name>>
             more == Append(t.index, p)
             u == [t EXCEPT !.index = more]
  <1>1. t.index \in Seq(Ids \X Names) /\ p \in Ids \X Names
    BY DEF Tables
  <1>2. /\ more \in Seq(Ids \X Names) /\ Len(more) = Len(t.index) + 1 /\ Len(t.index) \in Nat
        /\ DOMAIN t.index = 1..Len(t.index) /\ DOMAIN more = 1..(Len(t.index) + 1)
        /\ \A i \in DOMAIN t.index : more[i] = t.index[i]
        /\ more[Len(t.index) + 1] = p
    BY <1>1, AppendProperties, LenProperties
  <1>3. Indexed(t, id, name) = u
    BY DEF Indexed
  <1> HIDE DEF more
  <1>4. u = [entities |-> t.entities, index |-> more, relations |-> t.relations]
    BY DEF Tables
  <1> HIDE DEF u
  <1>5. u \in Tables /\ u.entities = t.entities /\ u.index = more
    BY <1>2, <1>4 DEF Tables
  <1>6. HasRow(u, id, name)
    <2>1. Len(t.index) + 1 \in DOMAIN more
      BY <1>2
    <2>2. QED
      BY <1>2, <1>5, <2>1 DEF HasRow
  <1>7. ASSUME NEW o \in Ids, NEW m \in Names, HasRow(t, o, m) PROVE HasRow(u, o, m)
    <2>1. PICK i \in DOMAIN t.index : t.index[i] = <<o, m>>
      BY <1>7 DEF HasRow
    <2>2. i \in DOMAIN more /\ more[i] = <<o, m>>
      BY <1>2, <2>1
    <2>3. QED
      BY <1>5, <2>2 DEF HasRow
  <1>8. QED
    BY <1>2, <1>3, <1>5, <1>6, <1>7

LEMMA GraphNextIInv == GraphIInv /\ [GraphNext]_graphVars => GraphIInv'
  <1> SUFFICES ASSUME GraphIInv, [GraphNext]_graphVars
               PROVE  GraphIInv'
    OBVIOUS
  <1> USE DEF GraphIInv
  <1>1. ASSUME NEW id \in Ids, NEW name \in Names, AddEntity(id, name)
        PROVE  GraphIInv'
    <2> DEFINE t == WithEntity(live, id, name)
               u == Indexed(t, id, name)
    <2>1. t \in Tables /\ t.entities[id] = name /\ t.index = live.index
          /\ \A other \in Ids \ {id} : t.entities[other] = live.entities[other]
      BY WithEntityKeeps
    <2>2. /\ u \in Tables /\ u.entities = t.entities /\ HasRow(u, id, name)
          /\ Len(u.index) = Len(t.index) + 1
          /\ \A o \in Ids, m \in Names : HasRow(t, o, m) => HasRow(u, o, m)
      BY <2>1, IndexedKeeps
    <2>3. /\ live' = u /\ Len(live.index) < MaxRows
          /\ (durable' = u /\ failed' = failed \ {id}) \/ (durable' = durable /\ failed' = failed)
      BY <1>1 DEF AddEntity
    <2> HIDE DEF t, u
    <2>4. ASSUME NEW other \in Ids, u.entities[other] # Nameless, other \notin failed \ {id}
          PROVE  HasRow(u, other, u.entities[other])
      <3>1. CASE other = id
        BY <2>1, <2>2, <3>1
      <3>2. CASE other # id
        <4>1. live.entities[other] # Nameless /\ other \notin failed /\ u.entities[other] = live.entities[other]
          BY <2>1, <2>2, <2>4, <3>2
        <4>2. HasRow(live, other, live.entities[other]) /\ live.entities[other] \in Names
          BY <4>1 DEF IndexedIn, Tables
        <4>3. HasRow(t, other, live.entities[other])
          BY <2>1, <4>2 DEF HasRow
        <4>4. QED
          BY <2>2, <4>1, <4>2, <4>3
      <3>3. QED
        BY <3>1, <3>2
    <2>5. IndexedIn(u, failed \ {id}) /\ IndexedIn(u, failed)
      BY <2>4 DEF IndexedIn
    <2>6. Len(u.index) <= MaxRows
      <3>1. Len(live.index) \in Nat
        BY LenProperties DEF Tables
      <3>2. QED
        BY <2>1, <2>2, <2>3, <3>1, GraphAssumption
    <2>7. QED
      BY <2>2, <2>3, <2>5, <2>6
  <1>2. ASSUME NEW id \in Ids, NEW name \in Names, AddEntityFails(id, name)
        PROVE  GraphIInv'
    <2> DEFINE t == WithEntity(live, id, name)
    <2>1. t \in Tables /\ t.index = live.index
          /\ \A other \in Ids \ {id} : t.entities[other] = live.entities[other]
      BY WithEntityKeeps
    <2>2. live' = t /\ durable' = durable /\ failed' = failed \cup {id}
      BY <1>2 DEF AddEntityFails
    <2> HIDE DEF t
    <2>3. IndexedIn(t, failed \cup {id}) /\ IndexedIn(durable, failed \cup {id})
      BY <2>1 DEF IndexedIn, HasRow
    <2>4. QED
      BY <2>1, <2>2, <2>3
  <1>3. ASSUME NEW a \in Ids, NEW b \in Ids, NEW kind \in Kinds, AddRelationship(a, b, kind)
        PROVE  GraphIInv'
    <2> DEFINE more == live.relations \cup {<<a, b, kind>>}
               u == [live EXCEPT !.relations = more]
    <2>1. more \subseteq Ids \X Ids \X Kinds
      BY DEF Tables
    <2>2. live' = u /\ (durable' = u \/ durable' = durable) /\ failed' = failed
      BY <1>3 DEF AddRelationship
    <2> HIDE DEF more
    <2>3. u = [entities |-> live.entities, index |-> live.index, relations |-> more]
      BY DEF Tables
    <2> HIDE DEF u
    <2>4. u \in Tables /\ u.index = live.index /\ u.entities = live.entities
      BY <2>1, <2>3 DEF Tables
    <2>5. IndexedIn(u, failed)
      BY <2>4 DEF IndexedIn, HasRow
    <2>6. QED
      BY <2>2, <2>4, <2>5
  <1>4. CASE Reopen
    BY <1>4 DEF Reopen
  <1>5. CASE UNCHANGED graphVars
    BY <1>5 DEF graphVars
  <1>6. QED
    BY <1>1, <1>2, <1>3, <1>4, <1>5 DEF GraphNext

(* Both states of the file are indexed, in every reachable state.          *)
THEOREM GraphInvariant == GraphSpec => []GraphIInv
  BY GraphInitIInv, GraphNextIInv, PTL DEF GraphSpec

(* The first row that an entity has of its name is preceded, among the     *)
(* rows of that name, by rows of others only.                              *)
LEMMA FoundUnlessCrowdedOut ==
  ASSUME GraphIInv, NEW id \in Ids, Exists(id), id \notin failed
  PROVE  \/ Found(live.entities[id], id)
         \/ Cardinality(RowsOfOthers(live.entities[id], id)) >= Limit
  <1> DEFINE name == live.entities[id]
             Mine == {i \in DOMAIN live.index : live.index[i] = <<id, name>>}
             Others == RowsOfOthers(name, id)
  <1>1. /\ live \in Tables /\ live.index \in Seq(Ids \X Names)
        /\ DOMAIN live.index = 1..Len(live.index) /\ Len(live.index) \in Nat
    BY LenProperties DEF GraphIInv, Tables
  <1>2. Mine # {} /\ Mine \subseteq Nat
    <2>1. HasRow(live, id, name)
      BY DEF GraphIInv, IndexedIn, Exists
    <2>2. QED
      BY <1>1, <2>1 DEF HasRow
  <1> HIDE DEF Mine
  <1>3. PICK m \in Mine : \A y \in Mine : m <= y
    BY <1>2, LeastNat
  <1>4. m \in DOMAIN live.index /\ m \in Nat /\ live.index[m] = <<id, name>>
    BY <1>1, <1>3 DEF Mine
  <1>5. m \in Rows(name) /\ live.index[m][1] = id
    BY <1>4 DEF Rows
  <1> DEFINE Earlier == {j \in Rows(name) : j < m}
  <1>6. Earlier \subseteq Others
    <2> SUFFICES ASSUME NEW j \in Rows(name), j < m, live.index[j][1] = id PROVE FALSE
      BY DEF RowsOfOthers
    <2>1. j \in DOMAIN live.index /\ j \in Nat /\ live.index[j][2] = name
      BY <1>1 DEF Rows
    <2>2. live.index[j] \in Ids \X Names
      BY <1>1, <2>1, ElementOfSeq
    <2>3. live.index[j] = <<id, name>>
      BY <2>1, <2>2
    <2>4. m <= j
      BY <1>3, <2>1, <2>3 DEF Mine
    <2>5. QED
      BY <1>4, <2>1, <2>4
  <1>7. IsFiniteSet(Others)
    <2>1. Others \subseteq 1..Len(live.index)
      BY <1>1 DEF RowsOfOthers, Rows
    <2>2. IsFiniteSet(1..Len(live.index))
      BY <1>1, FS_Interval
    <2>3. QED
      BY <2>1, <2>2, FS_Subset
  <1>8. /\ Cardinality(Earlier) \in Nat /\ Cardinality(Others) \in Nat
        /\ Cardinality(Earlier) <= Cardinality(Others)
    BY <1>6, <1>7, FS_Subset, FS_CardinalityType
  <1> HIDE DEF Others, name
  <1>9. CASE Cardinality(Earlier) < Limit
    BY <1>5, <1>9 DEF Found, Returned, name
  <1>10. CASE ~(Cardinality(Earlier) < Limit)
    <2> HIDE DEF Earlier
    <2>1. Cardinality(Others) >= Limit
      BY <1>8, <1>10, GraphAssumption
    <2>2. QED
      BY <2>1 DEF Others, name
  <1>11. QED
    BY <1>9, <1>10

(* However often entities are renamed and added again, whatever            *)
(* transaction is left open and whenever the process ends, a search by the *)
(* present name finds the entity unless rows of others fill the answer,    *)
(* and a relation is reached from both its ends (knowledge_graph.py:       *)
(* add_entity, search_entities, get_related).                              *)
THEOREM GraphTruth == GraphSpec => []GraphAnswers
  <1>1. GraphIInv => Findable
    BY FoundUnlessCrowdedOut DEF Findable
  <1>2. EndsAgree
    BY DEF EndsAgree, Exists, Outbound, Inbound
  <1>3. GraphIInv => GraphAnswers
    BY <1>1, <1>2 DEF GraphAnswers
  <1>4. QED
    BY <1>3, GraphInvariant, PTL

-----------------------------------------------------------------------------
(* News and sentiment.                                                     *)

(* A signal that has what it needs to say what it says. *)
Grounded ==
  {s \in [symbol : STRING, action : {"buy", "sell", "hold"}, confidence : Int, view : Int,
          volume : Nat] :
     /\ s.action = "buy" => s.view > 0 /\ s.volume >= 1250
     /\ s.action = "sell" => s.view < 0}

NewsTypes == [good : 0..MaxNews, neutral : 0..(2 * MaxNews), bad : 0..MaxNews]
CrowdTypes == [mood : -10..10, volume : Nat]

(* The inductive invariant: the second service has not answered where it   *)
(* may still add its news, there is a symbol for every analysis, and every *)
(* signal made is grounded.                                                *)
SentimentIInv ==
  /\ turn \in 1..(Len(Symbols) + 1)
  /\ stage \in {"panic", "search", "mood", "volume", "view", "over"}
  /\ stage # "over" => turn <= Len(Symbols)
  /\ news \in NewsTypes /\ crowd \in CrowdTypes
  /\ stage \in {"panic", "search"} => news.neutral <= MaxNews
  /\ signals \in Seq(Grounded) /\ Len(signals) < turn

LEMMA SentimentInitIInv == SentimentInit => SentimentIInv
  <1> SUFFICES ASSUME SentimentInit PROVE SentimentIInv
    OBVIOUS
  <1>1. Len(Symbols) \in Nat /\ MaxNews \in Nat
    BY SentimentAssumption
  <1>2. news \in NewsTypes /\ news.neutral <= MaxNews /\ crowd \in CrowdTypes
    BY <1>1 DEF SentimentInit, NewsTypes, NoNews, CrowdTypes, NoCrowd
  <1>3. signals \in Seq(Grounded) /\ Len(signals) = 0
    BY DEF SentimentInit
  <1>4. QED
    BY <1>1, <1>2, <1>3 DEF SentimentInit, SentimentIInv, StageFrom

-----------------------------------------------------------------------------
\* A part of the score in the best and in the worst case.
LEMMA ProductBounds ==
  ASSUME NEW n \in Nat, NEW x \in Int, NEW b \in Nat, x \in -b..b
  PROVE  x * n \in Int /\ x * n <= b * n /\ x * n >= -(b * n)
  <1>1. (b - x) * n \in Nat /\ (b + x) * n \in Nat
    <2>1. b - x \in Nat /\ b + x \in Nat
      OBVIOUS
    <2>2. \A p, q \in Nat : p * q \in Nat
      OBVIOUS
    <2>3. QED
      BY <2>1, <2>2
  <1>2. (b - x) * n = b * n - x * n /\ (b + x) * n = b * n + x * n
    OBVIOUS
  <1>3. x * n \in Int /\ b * n \in Int
    OBVIOUS
  <1>4. QED
    BY <1>1, <1>2, <1>3

(* A view is less than the whole of the score, whoever has it.             *)
LEMMA ViewsAreBounded ==
  ASSUME news \in NewsTypes, crowd \in CrowdTypes, NEW view \in ModelsViews \cup RulesViews
  PROVE  /\ Count \in Nat /\ news.good \in 0..Count
         /\ ViewTimes(view) \in Int
         /\ ViewTimes(view) <= 100 * Count /\ ViewTimes(view) >= -(100 * Count)
  <1>1. news.good \in Nat /\ news.neutral \in Nat /\ news.bad \in Nat
    BY SentimentAssumption DEF NewsTypes
  <1>2. Count \in Nat /\ news.good \in 0..Count /\ news.bad \in 0..Count
    BY <1>1 DEF Count
  <1> DEFINE c == Count
  <1>3. CASE view \in ModelsViews
    <2>1. view.by = "model" /\ view.score \in -10..10
      BY <1>3, SentimentAssumption DEF ModelsViews
    <2>2. view.score * c \in Int /\ view.score * c <= 10 * c /\ view.score * c >= -(10 * c)
      BY <1>2, <2>1, ProductBounds
    <2>3. ViewTimes(view) = 10 * (view.score * c)
      <3> HIDE DEF c
      <3>1. 10 * view.score * c = 10 * (view.score * c)
        BY <1>2, <2>1 DEF c
      <3>2. QED
        BY <2>1, <3>1 DEF ViewTimes, c
    <2> HIDE DEF c
    <2>4. QED
      BY <1>2, <2>2, <2>3 DEF c
  <1>4. CASE view \in RulesViews
    <2>1. view.by = "rule" /\ crowd.mood \in -10..10
      BY <1>4 DEF RulesViews, CrowdTypes
    <2>2. crowd.mood * c \in Int /\ crowd.mood * c <= 10 * c /\ crowd.mood * c >= -(10 * c)
      BY <1>2, <2>1, ProductBounds
    <2>3. ViewTimes(view) = 48 * (news.good - news.bad) + 4 * (crowd.mood * c)
      <3>1. 4 * crowd.mood * c = 4 * (crowd.mood * c)
        BY <1>2, <2>1
      <3>2. QED
        BY <1>1, <2>1, <3>1 DEF ViewTimes, RuleTimes
    <2> HIDE DEF c
    <2>4. QED
      BY <1>2, <2>2, <2>3 DEF c
  <1>5. QED
    BY <1>2, <1>3, <1>4

(* The score to buy is out of reach without a view for it and a crowd, and *)
(* the score to sell without a view against it.                            *)
LEMMA ScoreNeedsBoth ==
  ASSUME news \in NewsTypes, crowd \in CrowdTypes, NEW view \in ModelsViews \cup RulesViews,
         Count >= MinNews
  PROVE  /\ Score(view) >= 500 * Count => ViewTimes(view) > 0 /\ crowd.volume >= 1250
         /\ Score(view) <= -500 * Count => ViewTimes(view) < 0
  <1> DEFINE c == Count
             v == ViewTimes(view)
             p == Volume \div 25 - 200
  <1>1. /\ c \in Nat \ {0} /\ news.good \in 0..c
        /\ v \in Int /\ v <= 100 * c /\ v >= -(100 * c)
    BY ViewsAreBounded, SentimentAssumption
  <1>2. /\ p \in -200..200
        /\ crowd.volume < 1250 => p \in -200..(-151)
    <2> DEFINE w == crowd.volume
               x == Volume
               y == x \div 25
    <2>1. w \in Nat /\ x = IF w >= 10000 THEN 10000 ELSE w
      BY DEF CrowdTypes, Volume
    <2>2. p = y - 200
      OBVIOUS
    <2> HIDE DEF w, x, p
    <2>3. x \in 0..10000 /\ (w < 1250 => x \in 0..1249)
      BY <2>1
    <2>4. x \in Int /\ y \in Int /\ \E r \in 0..24 : x = 25 * y + r
      BY <2>3
    <2> HIDE DEF y
    <2>5. y \in 0..400 /\ (w < 1250 => y \in 0..49)
      <3>1. PICK r \in 0..24 : x = 25 * y + r
        BY <2>4
      <3>2. r \in Int /\ x \in Int /\ y \in Int /\ 0 <= r /\ r < 25
        BY <2>4
      <3>3. 0 <= x /\ x <= 10000 /\ (w < 1250 => x <= 1249)
        BY <2>3
      <3>4. 0 <= y
        BY <3>1, <3>2, <3>3
      <3>5. y <= 400
        BY <3>1, <3>2, <3>3
      <3>6. w < 1250 => y <= 49
        BY <3>1, <3>2, <3>3
      <3>7. QED
        BY <3>2, <3>4, <3>5, <3>6
    <2>6. QED
      BY <2>2, <2>5 DEF w
  <1>3. Score(view) = 4 * v + 250 * (2 * news.good - c) + p * c
    BY DEF Score
  <1> HIDE DEF c, v, p
  <1>4. p * c \in Int /\ p * c <= 200 * c /\ p * c >= -(200 * c)
    BY <1>1, <1>2, ProductBounds
  <1>5. crowd.volume < 1250 => p * c <= -(151 * c)
    <2>1. SUFFICES ASSUME crowd.volume < 1250 PROVE p * c <= -(151 * c)
      OBVIOUS
    <2>2. -151 - p \in Nat
      BY <1>2, <2>1
    <2>3. (-151 - p) * c \in Nat
      <3>1. \A x, y \in Nat : x * y \in Nat
        OBVIOUS
      <3>2. QED
        BY <1>1, <2>2, <3>1
    <2>4. (-151 - p) * c = -(151 * c) - p * c
      BY <1>1, <1>2
    <2>5. QED
      BY <1>1, <1>4, <2>3, <2>4
  <1>6. crowd.volume \in Nat
    BY DEF CrowdTypes
  <1>7. Score(view) >= 500 * c => v > 0
    BY <1>1, <1>3, <1>4
  <1>8. Score(view) >= 500 * c => crowd.volume >= 1250
    BY <1>1, <1>3, <1>4, <1>5, <1>6
  <1>9. Score(view) <= -500 * c => v < 0
    BY <1>1, <1>3, <1>4
  <1>10. QED
    BY <1>7, <1>8, <1>9 DEF c, v

(* A signal that is made is grounded. *)
LEMMA SignalIsGrounded ==
  ASSUME news \in NewsTypes, crowd \in CrowdTypes, NEW view \in ModelsViews \cup RulesViews,
         turn \in 1..Len(Symbols)
  PROVE  [symbol |-> Symbols[turn], action |-> ActionOf(view),
          confidence |-> SignalConfidence(view),
          view |-> ViewTimes(view), volume |-> crowd.volume] \in Grounded
  <1>1. Symbols[turn] \in STRING /\ crowd.volume \in Nat /\ ViewTimes(view) \in Int /\ Count \in Nat
    BY SentimentAssumption, ViewsAreBounded DEF CrowdTypes
  <1>2. SignalConfidence(view) \in Int
    <2>1. view.confidence \in {0, 30, 40, 100}
      BY DEF ModelsViews, RulesViews
    <2>2. view.confidence \div 2 \in Int
      BY <2>1
    <2>3. QED
      BY <1>1, <2>2 DEF SignalConfidence
  <1>3. /\ ActionOf(view) = "buy" => Count >= MinNews /\ Score(view) >= 500 * Count
        /\ ActionOf(view) = "sell" => Count >= MinNews /\ Score(view) <= -500 * Count
        /\ ActionOf(view) \in {"buy", "sell", "hold"}
    BY DEF ActionOf
  <1>4. /\ ActionOf(view) = "buy" => ViewTimes(view) > 0 /\ crowd.volume >= 1250
        /\ ActionOf(view) = "sell" => ViewTimes(view) < 0
    BY <1>3, ScoreNeedsBoth
  <1>5. QED
    BY <1>1, <1>2, <1>3, <1>4 DEF Grounded

-----------------------------------------------------------------------------
LEMMA SentimentNextIInv == SentimentIInv /\ [SentimentNext]_sentimentVars => SentimentIInv'
  <1> SUFFICES ASSUME SentimentIInv, [SentimentNext]_sentimentVars
               PROVE  SentimentIInv'
    OBVIOUS
  <1>0. /\ Len(Symbols) \in Nat /\ MaxNews \in Nat /\ Len(signals) \in Nat
        /\ news \in NewsTypes /\ crowd \in CrowdTypes /\ signals \in Seq(Grounded)
    BY SentimentAssumption DEF SentimentIInv
  <1>1. CASE FetchCryptoPanic
    <2>1. news' \in NewsTypes /\ news'.neutral <= MaxNews
      BY <1>0, <1>1 DEF FetchCryptoPanic, NewsTypes
    <2>2. QED
      BY <1>1, <2>1 DEF FetchCryptoPanic, Go, SentimentIInv
  <1>2. CASE SearchNews
    <2>1. PICK n \in 0..MaxNews : news' = [news EXCEPT !.neutral = news.neutral + n]
      BY <1>2 DEF SearchNews
    <2>2. news.neutral \in 0..MaxNews
      BY <1>0, <1>2 DEF SentimentIInv, SearchNews, NewsTypes
    <2>3. news.neutral + n \in 0..(2 * MaxNews)
      BY <1>0, <2>2
    <2>4. news' \in NewsTypes
      BY <1>0, <2>1, <2>3 DEF NewsTypes
    <2>5. QED
      BY <1>2, <2>4 DEF SearchNews, Go, SentimentIInv
  <1>3. CASE FetchSentiment
    <2>1. \A votes \in {<<0, 0>>, <<1, 0>>, <<0, 1>>, <<3, 1>>, <<1, 3>>} :
            Mood(votes[1], votes[2]) \in -10..10
      BY DEF Mood
    <2>2. PICK m \in -10..10 : crowd' = [crowd EXCEPT !.mood = m]
      BY <1>3, <2>1 DEF FetchSentiment
    <2>3. crowd' \in CrowdTypes
      BY <1>0, <2>2 DEF CrowdTypes
    <2>4. QED
      BY <1>3, <2>3 DEF FetchSentiment, Go, SentimentIInv
  <1>4. CASE FetchVolume
    <2>1. {0, 1000, 1250, 10000, 20000} \subseteq Nat
      OBVIOUS
    <2>2. PICK v \in Nat : crowd' = [crowd EXCEPT !.volume = v]
      BY <1>4, <2>1 DEF FetchVolume
    <2>3. crowd' \in CrowdTypes
      BY <1>0, <2>2 DEF CrowdTypes
    <2>4. QED
      BY <1>4, <2>3 DEF FetchVolume, Go, SentimentIInv
  <1>5. NoNews \in NewsTypes /\ NoNews.neutral <= MaxNews /\ NoCrowd \in CrowdTypes
    BY <1>0 DEF NewsTypes, NoNews, CrowdTypes, NoCrowd
  <1>6. turn <= Len(Symbols) =>
          /\ turn + 1 \in 1..(Len(Symbols) + 1)
          /\ StageFrom(turn + 1) \in {"panic", "over"}
          /\ StageFrom(turn + 1) # "over" => turn + 1 <= Len(Symbols)
    BY <1>0 DEF StageFrom, SentimentIInv
  <1>7. ASSUME NEW view \in ModelsViews \cup RulesViews, Analyze(view)
        PROVE  SentimentIInv'
    <2> DEFINE s == [symbol |-> Symbols[turn], action |-> ActionOf(view),
                     confidence |-> SignalConfidence(view),
                     view |-> ViewTimes(view), volume |-> crowd.volume]
    <2>1. turn \in 1..Len(Symbols)
      BY <1>0, <1>7 DEF Analyze, SentimentIInv
    <2>2. s \in Grounded
      BY <1>0, <2>1, SignalIsGrounded
    <2>3. signals' = Append(signals, s)
      BY <1>7 DEF Analyze
    <2> HIDE DEF s
    <2>4. signals' \in Seq(Grounded) /\ Len(signals') < turn + 1
      BY <1>0, <2>2, <2>3 DEF SentimentIInv
    <2>5. QED
      BY <1>5, <1>6, <1>7, <2>1, <2>4 DEF Analyze, SentimentIInv
  <1>8. CASE AnalysisFails
    <2>1. turn <= Len(Symbols)
      BY <1>8 DEF AnalysisFails, SentimentIInv
    <2>2. Len(signals) < turn + 1
      BY <1>0 DEF SentimentIInv
    <2>3. QED
      BY <1>0, <1>5, <1>6, <1>8, <2>1, <2>2 DEF AnalysisFails, SentimentIInv
  <1>9. CASE UNCHANGED sentimentVars
    BY <1>9 DEF sentimentVars, SentimentIInv
  <1>10. QED
    BY <1>1, <1>2, <1>3, <1>4, <1>7, <1>8, <1>9 DEF SentimentNext

(* Every signal of a run is grounded, in every reachable state. *)
THEOREM SentimentInvariant == SentimentSpec => []SentimentIInv
  BY SentimentInitIInv, SentimentNextIInv, PTL DEF SentimentSpec

(* Whatever the news, the crowd, the model's view and their failures: no   *)
(* signal is made against the view or without one, and none to buy without *)
(* a crowd (news_sentiment.py:462-475).                                    *)
THEOREM ScoreTruth == SentimentSpec => []ScoreIsGrounded
  <1>1. SentimentIInv => ScoreIsGrounded
    <2>1. ASSUME SentimentIInv, NEW i \in DOMAIN signals PROVE signals[i] \in Grounded
      BY <2>1 DEF SentimentIInv
    <2>2. QED
      BY <2>1 DEF Grounded, ScoreIsGrounded, DirectionNeedsAView, BuyNeedsACrowd
  <1>2. QED
    BY <1>1, SentimentInvariant, PTL

-----------------------------------------------------------------------------
(* The market monitor.                                                     *)

\* What is left of a sequence when d elements are cut off at its front.
LEMMA SuffixOf ==
  ASSUME NEW S, NEW s \in Seq(S), NEW d \in 0..Len(s)
  PROVE  LET t == SubSeq(s, d + 1, Len(s))
         IN  /\ t \in Seq(S) /\ Len(t) = Len(s) - d
             /\ \A j \in 1..(Len(s) - d) : t[j] = s[j + d]
  <1> DEFINE t == SubSeq(s, d + 1, Len(s))
             n == Len(s)
  <1>1. n \in Nat /\ d \in 0..n /\ \A i \in 1..n : s[i] \in S
    OBVIOUS
  <1> HIDE DEF n
  <1>2. \A i \in (d + 1)..n : s[i] \in S
    BY <1>1
  <1>3. /\ SubSeq(s, d + 1, n) \in Seq(S)
        /\ Len(SubSeq(s, d + 1, n)) = IF d + 1 <= n THEN n - (d + 1) + 1 ELSE 0
        /\ \A j \in 1..(n - (d + 1) + 1) : SubSeq(s, d + 1, n)[j] = s[d + 1 + j - 1]
    BY <1>1, <1>2, SubSeqProperties
  <1>4. (IF d + 1 <= n THEN n - (d + 1) + 1 ELSE 0) = n - d
    BY <1>1
  <1>5. ASSUME NEW j \in 1..(n - d) PROVE SubSeq(s, d + 1, n)[j] = s[j + d]
    <2>1. j \in 1..(n - (d + 1) + 1) /\ d + 1 + j - 1 = j + d
      BY <1>1
    <2>2. QED
      BY <1>3, <2>1
  <1>6. QED
    BY <1>3, <1>4, <1>5 DEF n

-----------------------------------------------------------------------------
(* MarketMonitor. *)

(* One more value keeps the inequality of Cauchy and Schwarz between the   *)
(* sum of the squares and the square of the sum.                           *)
LEMMA SquaresGrow ==
  ASSUME NEW m \in Nat, NEW a \in Int, NEW b \in Int, NEW x \in Int,
         m * b >= a * a, m = 0 => a = 0 /\ b = 0
  PROVE  (m + 1) * (b + x * x) >= (a + x) * (a + x)
  <1> DEFINE d == b + m * (x * x) - 2 * (a * x)
             e == a - m * x
  <1>1. (m + 1) * (b + x * x) - (a + x) * (a + x) = (m * b - a * a) + d
    OBVIOUS
  <1>2. m * d = (m * b - a * a) + e * e
    OBVIOUS
  <1>3. e \in Int /\ d \in Int /\ m * b - a * a \in Nat
    OBVIOUS
  <1> HIDE DEF d, e
  <1>4. e * e >= 0
    BY <1>3
  <1>5. m * d >= 0
    BY <1>2, <1>3, <1>4
  <1>6. d >= 0
    <2>1. CASE m = 0
      BY <2>1 DEF d
    <2>2. CASE m > 0
      <3>1. SUFFICES ASSUME d < 0 PROVE FALSE
        BY <1>3
      <3>2. m * d < 0
        BY <1>3, <2>2, <3>1
      <3>3. QED
        BY <1>3, <1>5, <3>2
    <2>3. QED
      BY <2>1, <2>2
  <1>7. QED
    BY <1>1, <1>3, <1>6

\* The sum and the sum of the squares of the first k of a row of numbers.
LEMMA CauchySchwarz ==
  ASSUME NEW q \in Seq(Int), NEW a, Running(q, a),
         NEW b, Running([i \in DOMAIN q |-> q[i] * q[i]], b)
  PROVE  \A k \in 0..Len(q) : k * b[k] >= a[k] * a[k]
  <1> DEFINE n == Len(q)
             sq == [i \in DOMAIN q |-> q[i] * q[i]]
             Good == {k \in 0..n : k * b[k] >= a[k] * a[k]}
  <1>1. n \in Nat /\ DOMAIN q = 1..n /\ \A k \in 1..n : q[k] \in Int
    OBVIOUS
  <1>2. Len(sq) = n /\ \A k \in 1..n : sq[k] = q[k] * q[k]
    BY <1>1
  <1> HIDE DEF sq
  <1>3. Running(sq, b)
    BY DEF sq
  <1>4. /\ a \in [0..n -> Int] /\ a[0] = 0 /\ b \in [0..n -> Int] /\ b[0] = 0
        /\ \A k \in 1..n : a[k] = a[k - 1] + q[k] /\ b[k] = b[k - 1] + q[k] * q[k]
    BY <1>2, <1>3 DEF Running
  <1> HIDE DEF n
  <1>5. 0 \in Good
    BY <1>1, <1>4
  <1>6. ASSUME NEW k \in 0..(n - 1), k \in Good PROVE k + 1 \in Good
    <2>1. /\ k \in Nat /\ k + 1 \in 1..n /\ k + 1 - 1 = k /\ k \in 0..n
          /\ k * b[k] >= a[k] * a[k]
      BY <1>1, <1>6
    <2>2. /\ a[k + 1] = a[k] + q[k + 1] /\ b[k + 1] = b[k] + q[k + 1] * q[k + 1]
          /\ a[k] \in Int /\ b[k] \in Int /\ q[k + 1] \in Int
      <3> DEFINE j == k + 1
      <3>1. j \in 1..n /\ j - 1 = k
        BY <2>1
      <3> HIDE DEF j
      <3>2. a[j] = a[k] + q[j] /\ b[j] = b[k] + q[j] * q[j]
        BY <1>4, <3>1
      <3>3. a[k] \in Int /\ b[k] \in Int
        BY <1>4, <2>1
      <3>4. q[j] \in Int
        BY <1>1, <3>1
      <3>5. QED
        BY <3>2, <3>3, <3>4 DEF j
    <2>3. (k + 1) * (b[k] + q[k + 1] * q[k + 1]) >= (a[k] + q[k + 1]) * (a[k] + q[k + 1])
      BY <1>4, <2>1, <2>2, SquaresGrow
    <2>4. (k + 1) * b[k + 1] >= a[k + 1] * a[k + 1]
      BY <2>2, <2>3
    <2>5. QED
      BY <1>1, <2>1, <2>4
  <1> HIDE DEF Good
  <1>7. \A k \in 0..n : k \in Good
    BY <1>1, <1>5, <1>6, UpTo
  <1>8. QED
    BY <1>7 DEF Good, n

(* No value of n lies over their mean by more than the square root of      *)
(* n - 1 deviations (Samuelson), so that one that lies over it by more     *)
(* than k of them needs n - 1 to be greater than the square of k.          *)
LEMMA FarFromTheOthers ==
  ASSUME NEW m \in Nat, NEW a \in Int, NEW b \in Int, NEW v \in Int, m * b >= a * a
  PROVE  m * ((m + 1) * (b + v * v) - (a + v) * (a + v))
           >= ((m + 1) * v - (a + v)) * ((m + 1) * v - (a + v))
  <1> DEFINE e == m * b - a * a
             above == (m + 1) * v - (a + v)
             spread == (m + 1) * (b + v * v) - (a + v) * (a + v)
  <1>1. above = m * v - a
    OBVIOUS
  <1>2. spread = e + b + m * (v * v) - 2 * (a * v)
    OBVIOUS
  <1>3. m * spread = m * e + (m * b) + m * (m * (v * v)) - 2 * (m * (a * v))
    <2> HIDE DEF e, spread
    <2>1. e \in Int
      BY DEF e
    <2>2. QED
      BY <1>2, <2>1
  <1>4. above * above = m * (m * (v * v)) - 2 * (m * (a * v)) + a * a
    <2> HIDE DEF above
    <2>1. above * above = (m * v - a) * (m * v - a)
      BY <1>1
    <2>2. QED
      BY <2>1
  <1>5. e \in Nat /\ m * b = a * a + e
    OBVIOUS
  <1>6. m * e >= 0
    <2> HIDE DEF e
    <2>1. QED
      BY <1>5
  <1>7. m * spread >= above * above
    <2> DEFINE x == m * (m * (v * v))
               y == m * (a * v)
               z == a * a
               ms == m * spread
               aa == above * above
               me == m * e
               mb == m * b
    <2>1. x \in Int /\ y \in Int /\ z \in Int /\ me \in Int /\ e \in Nat
      BY <1>5
    <2>2. ms = me + mb + x - 2 * y /\ aa = x - 2 * y + z /\ mb = z + e /\ me >= 0
      BY <1>3, <1>4, <1>5, <1>6
    <2> HIDE DEF x, y, z, ms, aa, me, mb, e
    <2>3. ms >= aa
      BY <2>1, <2>2
    <2>4. QED
      BY <2>3 DEF ms, aa
  <1>8. QED
    BY <1>7

\* One of m + 1 samples stands out by k deviations only when m * m > k * k * (m + 1).
LEMMA ManyNeeded ==
  ASSUME NEW m \in Nat, NEW k \in Nat, NEW spread \in Int, NEW above \in Int,
         m * spread >= above * above, spread > 0, above * above > k * k * spread
  PROVE  m * m > k * k * (m + 1)
  <1> DEFINE kk == k * k
             sq == above * above
  <1>1. kk \in Nat /\ sq \in Int
    OBVIOUS
  <1>2. m * spread >= sq /\ sq > kk * spread
    OBVIOUS
  <1> HIDE DEF kk, sq
  <1>3. m > kk
    <2>1. SUFFICES ASSUME m <= kk PROVE FALSE
      BY <1>1
    <2>2. (kk - m) * spread >= 0
      <3>1. kk - m \in Nat /\ spread \in Nat
        BY <1>1, <2>1
      <3>2. \A x, y \in Nat : x * y >= 0
        OBVIOUS
      <3>3. QED
        BY <3>1, <3>2
    <2>3. (kk - m) * spread = kk * spread - m * spread
      BY <1>1
    <2>4. QED
      BY <1>1, <1>2, <2>2, <2>3
  <1>4. m * m >= (kk + 1) * m
    <2>1. (m - (kk + 1)) * m >= 0
      <3>1. m - (kk + 1) \in Nat
        BY <1>1, <1>3
      <3>2. \A x, y \in Nat : x * y >= 0
        OBVIOUS
      <3>3. QED
        BY <3>1, <3>2
    <2>2. (m - (kk + 1)) * m = m * m - (kk + 1) * m
      BY <1>1
    <2>3. QED
      BY <1>1, <2>1, <2>2
  <1>5. (kk + 1) * m = kk * m + m /\ kk * (m + 1) = kk * m + kk
    BY <1>1
  <1>6. m * m > kk * (m + 1)
    BY <1>1, <1>3, <1>4, <1>5
  <1>7. QED
    BY <1>6 DEF kk

\* What the detector of volumes takes for an anomaly.
LEMMA AnomalyIsRare ==
  ASSUME NEW s \in Seq(Nat), Len(s) > 0, NEW k \in Nat, OverMean(s, k, Last(s))
  PROVE  (Len(s) - 1) * (Len(s) - 1) > k * k * Len(s)
  <1> DEFINE n == Len(s)
             sq == [i \in DOMAIN s |-> s[i] * s[i]]
             v == s[n]
             m == n - 1
  <1>1. /\ n \in Nat \ {0} /\ DOMAIN s = 1..n /\ s \in Seq(Int)
        /\ \A i \in 1..n : s[i] \in Nat /\ s[i] * s[i] \in Nat
    <2>1. \A x \in Nat : x * x \in Nat
      OBVIOUS
    <2>2. QED
      BY <2>1
  <1>2. sq \in Seq(Int) /\ Len(sq) = n /\ sq[n] = v * v
    BY <1>1
  <1>3. v \in Nat /\ Last(s) = v /\ m \in Nat /\ n = m + 1
    BY <1>1 DEF Last
  <1>4. PICK a : Running(s, a) /\ SumOf(s) = a[n]
    BY <1>1, SumRuns
  <1>5. PICK b : Running(sq, b) /\ SumOf(sq) = b[Len(sq)]
    <2> HIDE DEF sq
    <2>1. QED
      BY <1>2, SumRuns
  <1>6. m * b[m] >= a[m] * a[m]
    <2>1. \A i \in 0..n : i * b[i] >= a[i] * a[i]
      BY <1>1, <1>4, <1>5, CauchySchwarz
    <2>2. m \in 0..n
      BY <1>3
    <2>3. QED
      BY <2>1, <2>2
  <1>7. Squares(s) = b[n]
    BY <1>2, <1>5 DEF Squares
  <1> HIDE DEF sq, m, n, v
  <1>8. /\ a[n] = a[m] + v /\ b[n] = b[m] + v * v
        /\ a[m] \in Int /\ b[m] \in Int
    <2>1. n \in 1..n /\ n - 1 = m /\ m \in 0..n
      BY <1>1, <1>3
    <2>2. QED
      BY <1>2, <1>4, <1>5, <2>1 DEF Running, n, v
  <1> DEFINE x == a[m]
             y == b[m]
             above == (m + 1) * v - (x + v)
             spread == (m + 1) * (y + v * v) - (x + v) * (x + v)
  <1>9. /\ m \in Nat /\ v \in Int /\ x \in Int /\ y \in Int /\ m * y >= x * x
        /\ a[n] = x + v /\ b[n] = y + v * v
    BY <1>3, <1>6, <1>8
  <1> HIDE DEF x, y
  <1>10. m * spread >= above * above
    BY <1>9, FarFromTheOthers
  <1>11. spread > 0 /\ above * above > k * k * spread
    BY <1>3, <1>4, <1>7, <1>9 DEF OverMean, n
  <1>12. above \in Int /\ spread \in Int
    <2>1. \A p, q \in Int : p * q \in Int /\ p - q \in Int /\ p + q \in Int
      OBVIOUS
    <2>2. m + 1 \in Int /\ v * v \in Int /\ x + v \in Int
      BY <1>9, <2>1
    <2>3. (m + 1) * v \in Int /\ (m + 1) * (y + v * v) \in Int /\ (x + v) * (x + v) \in Int
      <3>1. y \in Int
        BY <1>8 DEF y
      <3>2. y + v * v \in Int
        BY <2>1, <2>2, <3>1
      <3>3. QED
        BY <1>9, <2>1, <2>2, <3>2
    <2>4. QED
      BY <2>1, <2>2, <2>3
  <1> HIDE DEF above, spread
  <1>13. m * m > k * k * (m + 1)
    BY <1>9, <1>10, <1>11, <1>12, ManyNeeded
  <1>14. QED
    BY <1>3, <1>13 DEF n

(* What a check found: of the price, of the volume, of a crash, each at    *)
(* most one, and in this order.                                            *)
Findings == [event : {"spike", "volume", "crash", "book"}, action : {"buy", "sell"}]

Mentions(q, event) == \E i \in DOMAIN q : q[i].event = event

\* A crash has the last word, and a volume is found only when it stands out.
LEMMA WhatIsDetected ==
  ASSUME NEW h, NEW s
  PROVE  /\ Detect(h, s) \in Seq(Findings)
         /\ Mentions(Detect(h, s), "crash") => Last(Detect(h, s)).action = "sell"
         /\ Mentions(Detect(h, s), "volume") => Len(s) >= 5 /\ OverMean(s, Sigmas, Last(s))
  <1> DEFINE E == Findings
             p == PriceSpike(h)
             v == VolumeAnomaly(s, h)
             c == FlashCrash(h)
             pv == p \o v
             q == pv \o c
  <1>1. \/ p = <<>>
        \/ \E e \in E : p = <<e>> /\ e.event = "spike"
    BY DEF PriceSpike, Findings
  <1>2. \/ v = <<>>
        \/ /\ \E e \in E : v = <<e>> /\ e.event = "volume"
           /\ Len(s) >= 5 /\ OverMean(s, Sigmas, Last(s))
    <2>1. CASE Len(s) < 5 \/ ~OverMean(s, Sigmas, Last(s))
      BY <2>1 DEF VolumeAnomaly, VolumeFrom, Findings
    <2>2. CASE ~(Len(s) < 5 \/ ~OverMean(s, Sigmas, Last(s)))
      BY <2>2 DEF VolumeAnomaly, VolumeFrom, Findings
    <2>3. QED
      BY <2>1, <2>2
  <1>3. \/ c = <<>>
        \/ \E e \in E : c = <<e>> /\ e.event = "crash" /\ e.action = "sell"
    BY DEF FlashCrash, Findings
  <1>4. Detect(h, s) = q
    BY DEF Detect
  <1> HIDE DEF p, v, c, pv, q, E
  <1>5. p \in Seq(E) /\ v \in Seq(E) /\ c \in Seq(E)
    <2>1. <<>> \in Seq(E) /\ \A e \in E : <<e>> \in Seq(E)
      OBVIOUS
    <2>2. QED
      BY <1>1, <1>2, <1>3, <2>1
  <1>6. /\ pv \in Seq(E) /\ q \in Seq(E)
        /\ Len(pv) = Len(p) + Len(v) /\ Len(q) = Len(pv) + Len(c)
        /\ \A i \in 1..Len(p) : pv[i] = p[i]
        /\ \A i \in 1..Len(v) : pv[Len(p) + i] = v[i]
        /\ \A i \in 1..Len(pv) : q[i] = pv[i]
        /\ \A i \in 1..Len(c) : q[Len(pv) + i] = c[i]
    BY <1>5 DEF pv, q
  <1>7. /\ Len(p) \in Nat /\ Len(v) \in Nat /\ Len(c) \in Nat /\ Len(pv) \in Nat
        /\ DOMAIN q = 1..Len(q)
    BY <1>5, <1>6
  <1>8. /\ \A i \in 1..Len(p) : p[i].event = "spike"
        /\ \A i \in 1..Len(v) : v[i].event = "volume"
        /\ \A i \in 1..Len(c) : c[i].event = "crash" /\ c[i].action = "sell"
        /\ Len(c) = 0 \/ Len(c) = 1
    BY <1>1, <1>2, <1>3
  <1>9. \A i \in 1..Len(pv) :
          \/ i \in 1..Len(p) /\ pv[i].event = "spike"
          \/ i - Len(p) \in 1..Len(v) /\ pv[i].event = "volume"
    <2> SUFFICES ASSUME NEW i \in 1..Len(pv), i \notin 1..Len(p)
                 PROVE  i - Len(p) \in 1..Len(v) /\ pv[i].event = "volume"
      BY <1>6, <1>8
    <2>1. i - Len(p) \in 1..Len(v) /\ Len(p) + (i - Len(p)) = i
      BY <1>6, <1>7
    <2>2. pv[i] = v[i - Len(p)]
      BY <1>6, <2>1
    <2>3. QED
      BY <1>8, <2>1, <2>2
  <1>10. \A i \in 1..Len(q) :
           \/ i \in 1..Len(pv) /\ q[i] = pv[i]
           \/ i - Len(pv) \in 1..Len(c) /\ q[i] = c[i - Len(pv)]
    <2> SUFFICES ASSUME NEW i \in 1..Len(q), i \notin 1..Len(pv)
                 PROVE  i - Len(pv) \in 1..Len(c) /\ q[i] = c[i - Len(pv)]
      BY <1>6
    <2>1. i - Len(pv) \in 1..Len(c) /\ Len(pv) + (i - Len(pv)) = i
      BY <1>6, <1>7
    <2>2. QED
      BY <1>6, <2>1
  <1>11. ASSUME Mentions(q, "crash") PROVE Last(q).action = "sell"
    <2>1. PICK i \in 1..Len(q) : q[i].event = "crash"
      BY <1>7, <1>11 DEF Mentions
    <2>2. i - Len(pv) \in 1..Len(c)
      BY <1>9, <1>10, <2>1
    <2>3. Len(c) = 1 /\ Len(q) = Len(pv) + 1 /\ 1 \in 1..Len(c)
      <3>1. Len(c) # 0
        BY <2>2
      <3>2. Len(c) = 1
        BY <1>8, <3>1
      <3>3. Len(q) = Len(pv) + Len(c)
        BY <1>6
      <3>4. QED
        BY <3>2, <3>3
    <2>4. q[Len(q)] = c[1]
      BY <1>6, <2>3
    <2>5. QED
      BY <1>8, <2>3, <2>4 DEF Last
  <1>12. ASSUME Mentions(q, "volume") PROVE Len(s) >= 5 /\ OverMean(s, Sigmas, Last(s))
    <2>1. PICK i \in 1..Len(q) : q[i].event = "volume"
      BY <1>7, <1>12 DEF Mentions
    <2>2. i \in 1..Len(pv) /\ pv[i].event = "volume"
      BY <1>8, <1>10, <2>1
    <2>3. i - Len(p) \in 1..Len(v)
      BY <1>9, <2>2
    <2>4. v # <<>>
      BY <2>3
    <2>5. QED
      BY <1>2, <2>4
  <1>13. QED
    BY <1>4, <1>6, <1>11, <1>12 DEF E

-----------------------------------------------------------------------------
(* The inductive invariant: the histories hold samples and stay within     *)
(* their bounds, and a crash has the last word in what a check found.      *)
Samples == [at : Nat, price : Nat]
CheckTypes == [at : {"rest", "asked", "book"}, found : Seq(Findings)]

MonitorIInv ==
  /\ now \in 0..MaxNow /\ samples \in 0..MaxSamples /\ looping \in {"on", "off"}
  /\ prices \in Seq(Samples) /\ Len(prices) <= PriceHistory
  /\ volumes \in Seq(Nat) /\ Len(volumes) <= VolumeLookback
  /\ check \in [Checks -> CheckTypes]
  /\ CrashHasTheLastWord

LEMMA RolledIsBounded ==
  ASSUME NEW S, NEW q \in Seq(S), NEW n \in Nat \ {0}
  PROVE  /\ Rolled(q, n) \in Seq(S) /\ Len(Rolled(q, n)) <= n
         /\ Len(q) > 0 => Len(Rolled(q, n)) > 0
  <1>1. CASE Len(q) > n
    <2> DEFINE d == Len(q) - n
               t == SubSeq(q, d + 1, Len(q))
    <2>1. d \in 0..Len(q) /\ Len(q) - d = n
      BY <1>1
    <2>2. Rolled(q, n) = t
      BY <1>1 DEF Rolled
    <2> HIDE DEF d
    <2>3. t \in Seq(S) /\ Len(t) = n
      BY <2>1, SuffixOf
    <2>4. QED
      BY <2>2, <2>3
  <1>2. CASE ~(Len(q) > n)
    BY <1>2 DEF Rolled
  <1>3. QED
    BY <1>1, <1>2

LEMMA MonitorInitIInv == MonitorInit => MonitorIInv
  <1> SUFFICES ASSUME MonitorInit PROVE MonitorIInv
    OBVIOUS
  <1>1. Asleep \in CheckTypes /\ Asleep.at = "rest"
    BY DEF Asleep, CheckTypes
  <1>2. check \in [Checks -> CheckTypes] /\ \A c \in Checks : check[c].at = "rest"
    BY <1>1 DEF MonitorInit
  <1>3. prices \in Seq(Samples) /\ Len(prices) = 0 /\ volumes \in Seq(Nat) /\ Len(volumes) = 0
    BY DEF MonitorInit
  <1>4. now \in 0..MaxNow /\ samples \in 0..MaxSamples /\ looping \in {"on", "off"}
    BY MonitorAssumption DEF MonitorInit
  <1>5. QED
    BY <1>2, <1>3, <1>4, MonitorAssumption DEF MonitorIInv, CrashHasTheLastWord

\* A check moves on to where no word is said yet.
LEMMA CheckMoves ==
  ASSUME MonitorIInv, NEW c \in Checks, NEW x \in CheckTypes, check' = [check EXCEPT ![c] = x],
         x.at = "book" /\ Mentions(x.found, "crash") => Last(x.found).action = "sell"
  PROVE  check' \in [Checks -> CheckTypes] /\ CrashHasTheLastWord'
  <1>1. check \in [Checks -> CheckTypes]
    BY DEF MonitorIInv
  <1>2. check' \in [Checks -> CheckTypes]
    BY <1>1
  <1>3. \A d \in Checks : check'[d] = IF d = c THEN x ELSE check[d]
    BY <1>1
  <1>4. QED
    BY <1>2, <1>3 DEF MonitorIInv, CrashHasTheLastWord, Mentions

LEMMA MonitorNextIInv == MonitorIInv /\ [MonitorNext]_monitorVars => MonitorIInv'
  <1> SUFFICES ASSUME MonitorIInv, [MonitorNext]_monitorVars
               PROVE  MonitorIInv'
    OBVIOUS
  <1>0. Asleep \in CheckTypes /\ Asleep.at = "rest"
    BY DEF Asleep, CheckTypes
  <1>1. ASSUME NEW c \in Checks, CheckSymbol(c) PROVE MonitorIInv'
    <2> DEFINE x == [at |-> "asked", found |-> <<>>]
    <2>1. x \in CheckTypes /\ x.at = "asked"
      BY DEF CheckTypes
    <2>2. check' = [check EXCEPT ![c] = x]
      BY <1>1 DEF CheckSymbol
    <2> HIDE DEF x
    <2>3. check' \in [Checks -> CheckTypes] /\ CrashHasTheLastWord'
      BY <2>1, <2>2, CheckMoves
    <2>4. samples' \in 0..MaxSamples
      BY <1>1, MonitorAssumption DEF CheckSymbol, MonitorIInv
    <2>5. QED
      BY <1>1, <2>3, <2>4 DEF CheckSymbol, MonitorIInv
  <1>2. ASSUME NEW c \in Checks, TickerFails(c) PROVE MonitorIInv'
    <2>1. check' = [check EXCEPT ![c] = Asleep]
      BY <1>2 DEF TickerFails
    <2>2. check' \in [Checks -> CheckTypes] /\ CrashHasTheLastWord'
      BY <1>0, <2>1, CheckMoves
    <2>3. QED
      BY <1>2, <2>2 DEF TickerFails, MonitorIInv
  <1>3. ASSUME NEW c \in Checks, NEW t \in Tickers, TickerComes(c, t) PROVE MonitorIInv'
    <2> DEFINE e == [at |-> now, price |-> t[1]]
               h == Rolled(Append(prices, e), PriceHistory)
               v == Rolled(Append(volumes, t[2]), VolumeLookback)
               x == [at |-> "book", found |-> Detect(h, v)]
    <2>1. t[1] \in Nat /\ t[2] \in Nat
      BY MonitorAssumption
    <2>2. e \in Samples
      BY <2>1, MonitorAssumption DEF MonitorIInv, Samples
    <2>3. prices' = h /\ volumes' = v /\ check' = [check EXCEPT ![c] = x]
      BY <1>3 DEF TickerComes
    <2> HIDE DEF e
    <2>4. h \in Seq(Samples) /\ Len(h) <= PriceHistory
      <3>1. Append(prices, e) \in Seq(Samples)
        BY <2>2 DEF MonitorIInv
      <3>2. QED
        BY <3>1, RolledIsBounded, MonitorAssumption
    <2>5. v \in Seq(Nat) /\ Len(v) <= VolumeLookback
      <3>1. Append(volumes, t[2]) \in Seq(Nat)
        BY <2>1 DEF MonitorIInv
      <3>2. QED
        BY <3>1, RolledIsBounded, MonitorAssumption
    <2> HIDE DEF h, v
    <2>6. /\ Detect(h, v) \in Seq(Findings)
          /\ Mentions(Detect(h, v), "crash") => Last(Detect(h, v)).action = "sell"
      BY WhatIsDetected
    <2>7. x \in CheckTypes
      BY <2>6 DEF CheckTypes
    <2>8. x.found = Detect(h, v)
      OBVIOUS
    <2> HIDE DEF x
    <2>9. check' \in [Checks -> CheckTypes] /\ CrashHasTheLastWord'
      BY <2>3, <2>6, <2>7, <2>8, CheckMoves
    <2>10. QED
      BY <1>3, <2>3, <2>4, <2>5, <2>9 DEF TickerComes, MonitorIInv
  <1>4. ASSUME NEW c \in Checks, NEW side \in {"buy", "sell", "hold"}, BookComes(c, side)
        PROVE  MonitorIInv'
    <2> DEFINE f == check[c].found \o
                      (IF side = "hold" THEN <<>> ELSE <<[event |-> "book", action |-> side]>>)
               x == [at |-> "rest", found |-> f]
    <2>1. check' = [check EXCEPT ![c] = x]
      BY <1>4 DEF BookComes
    <2>2. f \in Seq(Findings)
      <3>1. check[c].found \in Seq(Findings)
        BY DEF MonitorIInv, CheckTypes
      <3>2. side # "hold" => [event |-> "book", action |-> side] \in Findings
        BY DEF Findings
      <3>3. (IF side = "hold" THEN <<>> ELSE <<[event |-> "book", action |-> side]>>) \in Seq(Findings)
        BY <3>2
      <3>4. QED
        BY <3>1, <3>3
    <2> HIDE DEF f
    <2>3. x \in CheckTypes /\ x.at = "rest"
      BY <2>2 DEF CheckTypes
    <2> HIDE DEF x
    <2>4. check' \in [Checks -> CheckTypes] /\ CrashHasTheLastWord'
      BY <2>1, <2>3, CheckMoves
    <2>5. QED
      BY <1>4, <2>4 DEF BookComes, MonitorIInv
  <1>5. CASE StartMonitoring
    BY <1>5 DEF StartMonitoring, MonitorIInv, CrashHasTheLastWord
  <1>6. CASE StopMonitoring
    <2>1. check' = [check EXCEPT !["loop"] = Asleep] /\ "loop" \in Checks
      BY <1>6 DEF StopMonitoring, Checks
    <2>2. check' \in [Checks -> CheckTypes] /\ CrashHasTheLastWord'
      BY <1>0, <2>1, CheckMoves
    <2>3. QED
      BY <1>6, <2>2 DEF StopMonitoring, MonitorIInv
  <1>7. CASE MonitorTick
    <2>1. now' \in 0..MaxNow
      BY <1>7, MonitorAssumption DEF MonitorTick, MonitorIInv
    <2>2. QED
      BY <1>7, <2>1 DEF MonitorTick, MonitorIInv, CrashHasTheLastWord
  <1>8. CASE UNCHANGED monitorVars
    BY <1>8 DEF monitorVars, MonitorIInv, CrashHasTheLastWord
  <1>9. QED
    BY <1>1, <1>2, <1>3, <1>4, <1>5, <1>6, <1>7, <1>8 DEF MonitorNext

(* Histories within their bounds and the crash's last word, in every       *)
(* reachable state.                                                        *)
THEOREM MonitorInvariant == MonitorSpec => []MonitorIInv
  BY MonitorInitIInv, MonitorNextIInv, PTL DEF MonitorSpec

\* Only a ticker that comes lets a check find an anomaly.
LEMMA AnomalyStep ==
  ASSUME MonitorIInv, MonitorIInv', [MonitorNext]_monitorVars, NEW c \in Checks,
         check'[c].at = "book", check[c].at = "asked", Mentions(check'[c].found, "volume")
  PROVE  (Len(volumes') - 1) * (Len(volumes') - 1) > Sigmas * Sigmas * Len(volumes')
  <1>1. check \in [Checks -> CheckTypes]
    BY DEF MonitorIInv
  <1>2. PICK d \in Checks, t \in Tickers : TickerComes(d, t)
    <2>1. ASSUME NEW d \in Checks, \/ CheckSymbol(d) \/ TickerFails(d)
                                   \/ \E side \in {"buy", "sell", "hold"} : BookComes(d, side)
          PROVE  FALSE
      <3>1. PICK x : check' = [check EXCEPT ![d] = x] /\ x.at # "book"
        BY <2>1 DEF CheckSymbol, TickerFails, BookComes, Asleep
      <3>2. QED
        BY <1>1, <3>1
    <2>2. ~StopMonitoring /\ ~StartMonitoring /\ ~MonitorTick /\ ~UNCHANGED monitorVars
      BY <1>1 DEF StopMonitoring, StartMonitoring, MonitorTick, monitorVars, Asleep
    <2>3. QED
      BY <2>1, <2>2 DEF MonitorNext
  <1> DEFINE h == Rolled(Append(prices, [at |-> now, price |-> t[1]]), PriceHistory)
             v == Rolled(Append(volumes, t[2]), VolumeLookback)
             x == [at |-> "book", found |-> Detect(h, v)]
  <1>3. volumes' = v /\ check' = [check EXCEPT ![d] = x]
    BY <1>2 DEF TickerComes
  <1>4. x.found = Detect(h, v) /\ v \in Seq(Nat) /\ Len(v) \in Nat
    BY <1>3 DEF MonitorIInv
  <1> HIDE DEF x, h, v
  <1>5. d = c
    BY <1>1, <1>3
  <1>6. Mentions(Detect(h, v), "volume")
    BY <1>1, <1>3, <1>4, <1>5
  <1>7. Len(v) >= 5 /\ OverMean(v, Sigmas, Last(v))
    BY <1>6, WhatIsDetected
  <1>8. Sigmas \in Nat /\ Len(v) > 0
    BY <1>4, <1>7, MonitorAssumption
  <1>9. (Len(v) - 1) * (Len(v) - 1) > Sigmas * Sigmas * Len(v)
    BY <1>4, <1>7, <1>8, AnomalyIsRare
  <1>10. QED
    BY <1>3, <1>9

(* For any tickers, windows and bounds: a crash is never talked over by    *)
(* the spike, and no volume is called anomalous among too few to tell,     *)
(* however two checks interleave over the same histories                   *)
(* (market_monitor.py:119, :219, :283).                                    *)
THEOREM DetectorTruth == MonitorSpec => DetectorsAgree
  <1> DEFINE Rare == \A c \in Checks :
               check'[c].at = "book" /\ check[c].at = "asked"
                 /\ (\E i \in DOMAIN check'[c].found : check'[c].found[i].event = "volume")
               => LET n == Len(volumes') IN (n - 1) * (n - 1) > Sigmas * Sigmas * n
  <1>1. MonitorIInv => CrashHasTheLastWord
    BY DEF MonitorIInv
  <1>2. MonitorIInv /\ MonitorIInv' /\ [MonitorNext]_monitorVars => [Rare]_monitorVars
    <2> SUFFICES ASSUME MonitorIInv, MonitorIInv', [MonitorNext]_monitorVars, NEW c \in Checks,
                        check'[c].at = "book", check[c].at = "asked",
                        Mentions(check'[c].found, "volume")
                 PROVE  (Len(volumes') - 1) * (Len(volumes') - 1) > Sigmas * Sigmas * Len(volumes')
      BY DEF Mentions
    <2>1. QED
      BY AnomalyStep
  <1>3. QED
    BY <1>1, <1>2, MonitorInvariant, PTL DEF MonitorSpec, DetectorsAgree, AnomalyNeedsSamples

-----------------------------------------------------------------------------
(* The risk engine and position sizing.                                    *)

LEMMA MinOfPart ==
  ASSUME NEW T, T \subseteq Nat, T # {}
  PROVE  Min(T) \in T
  BY LeastNat DEF Min

\* The size the engine calculates is one that it allows.
LEMMA FixedSize ==
  ASSUME NEW b \in Balances
  PROVE  /\ PositionSize(b) \in Nat \ {0}
         /\ PositionSize(b) * StopLoss <= b * PerTrade
  <1> DEFINE x == b * PerTrade
             z == x \div StopLoss
  <1>1. b \in Nat /\ PerTrade \in Nat /\ StopLoss \in Nat \ {0} /\ x >= StopLoss
    BY RiskSizingAssumption
  <1>2. x \in Nat
    <2>1. \A i, j \in Nat : i * j \in Nat
      OBVIOUS
    <2>2. QED
      BY <1>1, <2>1
  <1> HIDE DEF x
  <1>3. \A i \in Nat, s \in Nat \ {0} : i \div s \in Nat /\ (i \div s) * s <= i /\ (i >= s => i \div s >= 1)
    <2> SUFFICES ASSUME NEW i \in Nat, NEW s \in Nat \ {0}
                 PROVE i \div s \in Nat /\ (i \div s) * s <= i /\ (i >= s => i \div s >= 1)
      OBVIOUS
    <2>1. i \div s \in Nat /\ i % s \in 0..(s - 1) /\ i = s * (i \div s) + (i % s)
      OBVIOUS
    <2>2. QED
      BY <2>1
  <1>4. z \in Nat /\ z * StopLoss <= x /\ z >= 1
    BY <1>1, <1>2, <1>3
  <1>5. PositionSize(b) = z
    BY DEF PositionSize, x
  <1>6. QED
    BY <1>4, <1>5 DEF x

LEMMA DivInt == \A i \in Int, s \in Nat \ {0} : i \div s \in Int
  OBVIOUS

\* A factor and a size are numbers, whoever speaks.
LEMMA FactorIsANumber ==
  ASSUME NEW q \in SeqOf(Voices, 2)
  PROVE  ConvergenceFactor(q) \in 0..250
  <1> DEFINE acting == {i \in DOMAIN q : q[i].action # "hold"}
  <1>1. CASE acting = {}
    BY <1>1 DEF ConvergenceFactor
  <1>2. CASE acting # {}
    <2>1. PICK n \in 0..2 : q \in [1..n -> Voices]
      BY DEF SeqOf
    <2>2. acting \in SUBSET (1..n) /\ acting \subseteq Nat /\ n \in Nat
      BY <2>1
    <2> DEFINE v == q[Min(acting)]
               w == q[Max(acting)]
               alpha == {i \in acting : q[i].source = "alpha"}
               first == IF alpha = {} THEN 0 ELSE AlphaPriority(q[Min(alpha)])
               c == Confident(v)
               d == Confident(w)
               one == (c * 150) \div 100
               two == (Agreement(v, w) * (c + d) * (100 + Bonus(v, w))) \div 20000
               base == IF Cardinality(acting) = 1 THEN one ELSE two
    <2>3. Min(acting) \in acting /\ Max(acting) \in acting
      BY <1>2, <2>2, MinOfPart, MaxOfPart
    <2>4. v \in Voices /\ w \in Voices
      BY <2>1, <2>2, <2>3
    <2>5. c \in Nat /\ d \in Nat
      BY <2>4, RiskSizingAssumption DEF Confident
    <2>6. first \in Nat
      BY DEF AlphaPriority
    <2>7. Agreement(v, w) \in Nat /\ Bonus(v, w) \in Nat
      BY <2>5 DEF Agreement, Bonus, Most
    <2>8. one \in Int /\ two \in Int
      <3>1. c * 150 \in Int
        BY <2>5
      <3>2. \A i, j \in Int : i * j \in Int /\ i + j \in Int
        OBVIOUS
      <3>3. Agreement(v, w) * (c + d) * (100 + Bonus(v, w)) \in Int
        BY <2>5, <2>7, <3>2
      <3>4. QED
        BY <3>1, <3>3, DivInt
    <2>9. ConvergenceFactor(q) = Most(10, Least(100 + base + first, 250))
      BY <1>2 DEF ConvergenceFactor, Convergence
    <2> HIDE DEF one, two, first
    <2>10. 100 + base + first \in Int
      BY <2>6, <2>8
    <2> HIDE DEF base
    <2>11. QED
      BY <2>9, <2>10 DEF Most, Least
  <1>3. QED
    BY <1>1, <1>2

LEMMA DynamicSizeIsANumber ==
  ASSUME NEW b \in Balances, NEW q \in SeqOf(Voices, 2)
  PROVE  DynamicSize(b, q) \in Int
  <1> DEFINE f == ConvergenceFactor(q)
  <1>1. f \in Int
    BY FactorIsANumber
  <1> HIDE DEF f
  <1>2. PerTrade * f \in Int /\ MinSizePct \in Int /\ MaxSizePct \in Int /\ b \in Int
    BY <1>1, RiskSizingAssumption
  <1>3. DynamicRisk(q) \in Int
    BY <1>2 DEF DynamicRisk, Most, Least, f
  <1>4. b * DynamicRisk(q) \in Int
    BY <1>2, <1>3
  <1>5. 100 * StopLoss \in Nat \ {0}
    BY RiskSizingAssumption
  <1>6. QED
    BY <1>4, <1>5, DivInt DEF DynamicSize

-----------------------------------------------------------------------------
(* The inductive invariant: what is held and refused are sizes, and the    *)
(* highest price of a position is not below its entry, which puts its      *)
(* stop, a share of one of the two, above the first one.                   *)
Stops == [entry : Nat, highest : Nat, at : Int]

RiskIInv ==
  /\ balance \in Balances
  /\ held \in Seq(Int) /\ Len(held) <= MaxHeld
  /\ refused \in Seq(Int) /\ Len(refused) <= MaxRefused
  /\ asked \in [size : Int, by : {"nobody", "fixed", "dynamic"}, passed : BOOLEAN]
  /\ stop \in Stops /\ stop.entry <= stop.highest
  /\ stop.at >= stop.entry * (100 - Trail) /\ stop.at <= stop.highest * 100
  /\ SizingAgrees

\* The stop lies between a share of the entry and a share of the highest price.
LEMMA StopIsBetween ==
  ASSUME NEW e \in Nat, NEW h \in Nat, e <= h
  PROVE  /\ Trailing(e, h) \in Int
         /\ Trailing(e, h) >= e * (100 - Trail) /\ Trailing(e, h) <= h * 100
  <1> DEFINE t == 100 - Trail
  <1>1. t \in 0..100
    BY RiskSizingAssumption
  <1>2. \A x \in 0..100 : e * x \in Nat /\ h * x \in Nat /\ e * x <= h * x /\ h * x <= h * 100
    OBVIOUS
  <1>3. e * t \in Nat /\ h * t \in Nat /\ e * t <= h * t /\ h * t <= h * 100
    BY <1>1, <1>2
  <1>4. Trailing(e, h) \in {h * t, e * t}
    BY DEF Trailing
  <1> HIDE DEF t
  <1>5. QED
    BY <1>3, <1>4 DEF t

LEMMA RiskInitIInv == RiskInit => RiskIInv
  <1> SUFFICES ASSUME RiskInit PROVE RiskIInv
    OBVIOUS
  <1>1. held \in Seq(Int) /\ Len(held) = 0 /\ refused \in Seq(Int) /\ Len(refused) = 0
    BY DEF RiskInit
  <1>2. NoStop \in Stops /\ NoStop.entry = 0 /\ NoStop.highest = 0 /\ NoStop.at = 0
    BY DEF NoStop, Stops
  <1>3. 0 * (100 - Trail) = 0
    BY RiskSizingAssumption
  <1>4. NoOrder \in [size : Int, by : {"nobody", "fixed", "dynamic"}, passed : BOOLEAN]
        /\ NoOrder.by = "nobody" /\ ~NoOrder.passed
    BY DEF NoOrder
  <1>5. 0 <= MaxHeld /\ 0 <= MaxRefused
    BY RiskSizingAssumption
  <1>6. asked = NoOrder /\ stop = NoStop /\ balance \in Balances
    BY DEF RiskInit
  <1>7. SizingAgrees
    BY <1>4, <1>6 DEF SizingAgrees
  <1>8. QED
    BY <1>1, <1>2, <1>3, <1>4, <1>5, <1>6, <1>7 DEF RiskIInv

\* An order is held or refused by its size, and its answer is the rules'.
LEMMA OrderKeeps ==
  ASSUME RiskIInv, NEW size \in Int, NEW by \in {"fixed", "dynamic"},
         by = "fixed" => SizeAllowed(size), Order(size, by)
  PROVE  RiskIInv'
  <1>1. asked' = [size |-> size, by |-> by, passed |-> Passes(size)]
    BY DEF Order
  <1>2. Passes(size) \in BOOLEAN
    BY DEF Passes, SizeAllowed, RoomAllowed, DayAllowed, DropAllowed, ExposureAllowed
  <1>3. asked' \in [size : Int, by : {"nobody", "fixed", "dynamic"}, passed : BOOLEAN]
    BY <1>1, <1>2
  <1>4. UNCHANGED <<balance, stop>>
    BY DEF Order
  <1>5. held \in Seq(Int) /\ refused \in Seq(Int) /\ Len(held) <= MaxHeld /\ Len(refused) <= MaxRefused
    BY DEF RiskIInv
  <1>6. CASE Passes(size)
    <2>1. held' = Append(held, size) /\ refused' = refused
      BY <1>6 DEF Order
    <2>2. Len(held) < MaxHeld
      BY <1>6 DEF Passes, RoomAllowed
    <2>3. held' \in Seq(Int) /\ Len(held') <= MaxHeld
      BY <1>5, <2>1, <2>2, RiskSizingAssumption
    <2>4. SumOf(held') = SumOf(held) + size
      BY <1>5, <2>1, SumFacts
    <2>5. SumOf(held') * 100 <= MaxExposed * balance /\ size * StopLoss <= balance * PerTrade
      BY <1>6, <2>4 DEF Passes, ExposureAllowed, SizeAllowed
    <2>6. SizingAgrees'
      <3>1. asked'.size = size /\ asked'.by = by
        BY <1>1
      <3>2. (by = "fixed" => SizeAllowed(asked.size))'
        BY <1>4, <3>1 DEF SizeAllowed
      <3>3. (stop # NoStop => stop.at >= stop.entry * (100 - Trail))'
        BY <1>4 DEF RiskIInv, SizingAgrees
      <3>4. QED
        BY <1>4, <2>5, <3>1, <3>2, <3>3 DEF SizingAgrees
    <2>7. QED
      BY <1>3, <1>4, <1>5, <2>1, <2>3, <2>6 DEF RiskIInv
  <1>7. CASE ~Passes(size)
    <2>1. held' = held /\ refused' = Append(refused, size) /\ Len(refused) < MaxRefused
      BY <1>7 DEF Order
    <2>2. refused' \in Seq(Int) /\ Len(refused') <= MaxRefused
      BY <1>5, <2>1, RiskSizingAssumption
    <2>3. SizingAgrees'
      <3>1. asked'.size = size /\ asked'.by = by /\ ~asked'.passed
        BY <1>1, <1>7
      <3>2. (by = "fixed" => SizeAllowed(asked.size))'
        BY <1>4, <3>1 DEF SizeAllowed
      <3>3. (stop # NoStop => stop.at >= stop.entry * (100 - Trail))'
        BY <1>4 DEF RiskIInv, SizingAgrees
      <3>4. QED
        BY <3>1, <3>2, <3>3 DEF SizingAgrees
    <2>4. QED
      BY <1>3, <1>4, <1>5, <2>1, <2>2, <2>3 DEF RiskIInv
  <1>8. QED
    BY <1>6, <1>7

\* A position's stop is kept between two shares, with the order of before.
LEMMA StopKeeps ==
  ASSUME RiskIInv, UNCHANGED <<balance, held, refused, asked>>, stop' \in Stops,
         stop'.entry <= stop'.highest, stop'.at <= stop'.highest * 100,
         stop'.at >= stop'.entry * (100 - Trail)
  PROVE  RiskIInv'
  <1>1. (asked.by = "fixed" => SizeAllowed(asked.size))'
    BY DEF RiskIInv, SizingAgrees, SizeAllowed
  <1>2. /\ (asked.passed => asked.size * StopLoss <= balance * PerTrade)'
        /\ (asked.passed => SumOf(held) * 100 <= MaxExposed * balance)'
    BY DEF RiskIInv, SizingAgrees
  <1>3. SizingAgrees'
    BY <1>1, <1>2 DEF SizingAgrees
  <1>4. QED
    BY <1>3 DEF RiskIInv

\* Without an order nothing is said of the sizes.
LEMMA NoOrderKeeps ==
  ASSUME RiskIInv, asked' = NoOrder, UNCHANGED stop
  PROVE  /\ SizingAgrees'
         /\ asked' \in [size : Int, by : {"nobody", "fixed", "dynamic"}, passed : BOOLEAN]
         /\ stop' \in Stops /\ stop'.entry <= stop'.highest
         /\ stop'.at >= stop'.entry * (100 - Trail) /\ stop'.at <= stop'.highest * 100
  BY DEF RiskIInv, SizingAgrees, NoOrder

LEMMA RiskNextIInv == RiskIInv /\ [RiskNext]_riskVars => RiskIInv'
  <1> SUFFICES ASSUME RiskIInv, [RiskNext]_riskVars PROVE RiskIInv'
    OBVIOUS
  <1>1. CASE OrderBySize
    <2> DEFINE size == PositionSize(balance)
    <2>1. balance \in Balances
      BY DEF RiskIInv
    <2>2. size \in Nat \ {0} /\ size * StopLoss <= balance * PerTrade
      BY <2>1, FixedSize
    <2>3. Order(size, "fixed")
      BY <1>1 DEF OrderBySize
    <2> HIDE DEF size
    <2>4. SizeAllowed(size) /\ size \in Int
      BY <2>2 DEF SizeAllowed
    <2>5. QED
      BY <2>3, <2>4, OrderKeeps
  <1>2. CASE OrderBySignals
    <2>1. PICK q \in SeqOf(Voices, 2) : Order(DynamicSize(balance, q), "dynamic")
      BY <1>2 DEF OrderBySignals
    <2> DEFINE size == DynamicSize(balance, q)
    <2>2. size \in Int
      BY DynamicSizeIsANumber DEF RiskIInv
    <2>3. Order(size, "dynamic")
      BY <2>1
    <2> HIDE DEF size
    <2>4. QED
      BY <2>2, <2>3, OrderKeeps
  <1>3. CASE ClosePosition
    <2>1. held' \in Seq(Int) /\ Len(held') <= MaxHeld
      BY <1>3, RiskSizingAssumption DEF ClosePosition, RiskIInv
    <2>2. QED
      BY <1>3, <2>1, NoOrderKeeps DEF ClosePosition, RiskIInv
  <1>4. CASE Market
    BY <1>4, NoOrderKeeps DEF Market, RiskIInv
  <1>5. CASE Midnight
    <2>1. refused' \in Seq(Int) /\ Len(refused') <= MaxRefused
      BY <1>5, RiskSizingAssumption DEF Midnight
    <2>2. QED
      BY <1>5, <2>1, NoOrderKeeps DEF Midnight, RiskIInv
  <1>6. CASE Enter
    <2>1. PICK p \in Quotes : stop' = [entry |-> p, highest |-> p, at |-> Trailing(p, p)]
      BY <1>6 DEF Enter
    <2>2. p \in Nat
      BY RiskSizingAssumption
    <2>3. /\ Trailing(p, p) \in Int
          /\ Trailing(p, p) >= p * (100 - Trail) /\ Trailing(p, p) <= p * 100
      BY <2>2, StopIsBetween
    <2>4. stop' \in Stops /\ stop'.entry = p /\ stop'.highest = p /\ stop'.at = Trailing(p, p)
      BY <2>1, <2>2, <2>3 DEF Stops
    <2>5. QED
      BY <1>6, <2>2, <2>3, <2>4, StopKeeps DEF Enter
  <1>7. CASE PriceMoves
    <2>1. PICK p \in Quotes :
            stop' = IF p * 100 <= stop.at THEN NoStop
                    ELSE [entry |-> stop.entry, highest |-> Most(p, stop.highest),
                          at |-> Trailing(stop.entry, Most(p, stop.highest))]
      BY <1>7 DEF PriceMoves
    <2>2. UNCHANGED <<balance, held, refused, asked>>
      BY <1>7 DEF PriceMoves
    <2>3. CASE p * 100 <= stop.at
      <3>1. stop' \in Stops /\ stop'.entry = 0 /\ stop'.highest = 0 /\ stop'.at = 0
        BY <2>1, <2>3 DEF NoStop, Stops
      <3>2. 0 * (100 - Trail) = 0
        BY RiskSizingAssumption
      <3>3. QED
        BY <2>2, <3>1, <3>2, StopKeeps
    <2>4. CASE ~(p * 100 <= stop.at)
      <3> DEFINE h == Most(p, stop.highest)
                 e == stop.entry
      <3>1. p \in Nat /\ stop \in Stops /\ stop.entry <= stop.highest
        BY RiskSizingAssumption DEF RiskIInv
      <3>2. e \in Nat /\ h \in Nat /\ e <= h
        BY <3>1 DEF Stops, Most
      <3>3. stop' = [entry |-> e, highest |-> h, at |-> Trailing(e, h)]
        BY <2>1, <2>4
      <3> HIDE DEF e, h
      <3>4. Trailing(e, h) \in Int /\ Trailing(e, h) >= e * (100 - Trail) /\ Trailing(e, h) <= h * 100
        BY <3>2, StopIsBetween
      <3>5. stop' \in Stops /\ stop'.entry = e /\ stop'.highest = h /\ stop'.at = Trailing(e, h)
        BY <3>2, <3>3, <3>4 DEF Stops
      <3>6. QED
        BY <2>2, <3>2, <3>4, <3>5, StopKeeps
    <2>5. QED
      BY <2>3, <2>4
  <1>8. CASE UNCHANGED riskVars
    <2>1. UNCHANGED <<balance, held, refused, asked>> /\ stop' = stop
      BY <1>8 DEF riskVars
    <2>2. QED
      BY <2>1, StopKeeps DEF RiskIInv
  <1>9. QED
    BY <1>1, <1>2, <1>3, <1>4, <1>5, <1>6, <1>7, <1>8 DEF RiskNext

(* In every behaviour of the risk engine the two lists stay within their   *)
(* bounds, the last order's answer is the one of the rules, and the stop   *)
(* lies between a share of the entry and the highest price.                *)
THEOREM RiskInvariant == RiskSpec => []RiskIInv
  BY RiskInitIInv, RiskNextIInv, PTL DEF RiskSpec

(* The halves of the risk rules agree for every balance, limit and signal: *)
(* a calculated size is never refused for its size, what passes risks no   *)
(* more than a single trade may and stays within the exposure, and no      *)
(* price takes a trailing stop below the first one.                        *)
THEOREM SizingTruth == RiskSpec => []SizingAgrees
  <1>1. RiskIInv => SizingAgrees
    BY DEF RiskIInv
  <1>2. QED
    BY <1>1, RiskInvariant, PTL

-----------------------------------------------------------------------------
(* The alpha seeker.                                                       *)

(* The tables.  The sources of events have kinds of their own.             *)
KindsOf ==
  [exchange_news |-> {"listing"}, whale_alert |-> {"whale_movement"}, influencer |-> {"influencer"},
   onchain |-> {"onchain_netflow"},
   breaking_news |-> {"hack", "exploit", "regulation", "partnership", "mainnet", "upgrade"}]

AllSources == {"exchange_news", "whale_alert", "influencer", "onchain", "breaking_news"}

LEMMA EventTypes ==
  ASSUME NEW e \in Happenings
  PROVE  /\ e \in [kind : STRING, from : STRING, to : STRING, flow : Int]
         /\ Key(e) \in Keys
  BY SeekerAssumption DEF Keys

LEMMA SourcesHaveKinds ==
  ASSUME NEW s \in EventSources, NEW e \in EventsOf[s]
  PROVE  s \in AllSources /\ e \in Happenings /\ e.kind \in KindsOf[s]
  <1>1. s \in AllSources
    BY DEF EventSources, EventsOf, AllSources
  <1>2. QED
    BY <1>1 DEF AllSources, EventsOf, KindsOf, Listings, Whales, Tweets, Flows, Breaking

LEMMA KindsAreApart ==
  ASSUME NEW s \in AllSources, NEW t \in AllSources, s # t
  PROVE  KindsOf[s] \cap KindsOf[t] = {}
  BY DEF AllSources, KindsOf

LEMMA OneSource ==
  ASSUME NEW s \in EventSources, NEW e \in EventsOf[s]
  PROVE  SourceOf(e) = s
  <1>1. \A t \in EventSources : e \in EventsOf[t] => t = s
    BY SourcesHaveKinds, KindsAreApart
  <1>2. QED
    BY <1>1 DEF SourceOf

\* An event that some source reports has its direction and decides by its priority.
LEMMA TableOfReported ==
  ASSUME NEW s \in EventSources, NEW e \in EventsOf[s]
  PROVE  /\ Priority(e) # "medium" /\ EventAction(e) = "hold"
              => e.kind = "whale_movement" /\ {e.to, e.from} \cap Directed = {}
         /\ DecidesAlone(e) <=> /\ Priority(e) # "medium" /\ EventAction(e) # "hold"
                                /\ SourceOf(e) # "onchain"
  <1>1. e \in Happenings /\ s \in AllSources /\ e.kind \in KindsOf[s] /\ SourceOf(e) = s
    BY SourcesHaveKinds, OneSource
  <1>2. e.flow \in Int
    BY <1>1, EventTypes
  <1>3. Priority(e) \in {"immediate", "high", "medium"}
    <2>1. CASE e \in Listings \cup Breaking /\ e.kind \in DOMAIN Forced
      <3>1. Forced[e.kind] \in {"immediate", "high", "medium"}
        BY <2>1, SeekerAssumption
      <3>2. Priority(e) = Forced[e.kind]
        BY <2>1 DEF Priority
      <3>3. QED
        BY <3>1, <3>2
    <2>2. CASE ~(e \in Listings \cup Breaking /\ e.kind \in DOMAIN Forced)
      BY <2>2 DEF Priority
    <2>3. QED
      BY <2>1, <2>2
  <1>unforced. e.kind \in {"whale_movement", "influencer", "onchain_netflow"}
                 => e \notin Listings \cup Breaking
    BY DEF Listings, Breaking
  <1>4. CASE s = "exchange_news"
    <2>1. e.kind = "listing"
      BY <1>1, <1>4 DEF KindsOf
    <2>2. EventAction(e) = "buy"
      BY <2>1 DEF EventAction
    <2>3. /\ Reliability(e) = 100
          /\ BaseConfidence(e) = CASE Priority(e) = "immediate" -> 95
                                   [] Priority(e) = "high" -> 80 [] OTHER -> 60
      BY <1>1, <1>4 DEF BaseConfidence, Reliability
    <2>4. QED
      BY <1>1, <1>3, <1>4, <2>2, <2>3 DEF DecidesAlone, EventConfidence
  <1>5. CASE s = "whale_alert"
    <2>1. e.kind = "whale_movement"
      BY <1>1, <1>5 DEF KindsOf
    <2>2. Priority(e) \in {"high", "medium"}
      BY <1>unforced, <2>1 DEF Priority
    <2>3. EventAction(e) = "hold" => {e.to, e.from} \cap Directed = {}
      BY <2>1 DEF EventAction
    <2>4. /\ Reliability(e) = 85
          /\ BaseConfidence(e) = IF Priority(e) = "high" THEN 80 ELSE 60
      BY <1>1, <1>5, <2>2 DEF BaseConfidence, Reliability
    <2>5. QED
      BY <1>1, <1>5, <2>1, <2>2, <2>3, <2>4 DEF DecidesAlone, EventConfidence
  <1>6. CASE s = "influencer"
    <2>1. e.kind = "influencer"
      BY <1>1, <1>6 DEF KindsOf
    <2>2. Priority(e) = "high" /\ EventAction(e) = "buy"
      BY <1>unforced, <2>1 DEF Priority, EventAction
    <2>3. BaseConfidence(e) = 80 /\ Reliability(e) = 65
      BY <1>1, <1>6, <2>2 DEF BaseConfidence, Reliability
    <2>4. QED
      BY <1>1, <1>6, <2>2, <2>3 DEF DecidesAlone, EventConfidence
  <1>7. CASE s = "onchain"
    <2>1. e.kind = "onchain_netflow" /\ Flow(e) # "neutral"
      BY <1>1, <1>7 DEF KindsOf, EventsOf, Flows
    <2>2. Priority(e) \in {"high", "medium"}
      BY <1>unforced, <2>1 DEF Priority
    <2>3. EventAction(e) \in {"buy", "sell"}
      BY <1>2, <2>1 DEF EventAction, Flow
    <2>4. /\ Reliability(e) = 50
          /\ BaseConfidence(e) = IF Priority(e) = "high" THEN 80 ELSE 60
      BY <1>1, <1>7, <2>2 DEF BaseConfidence, Reliability
    <2>5. QED
      BY <1>1, <1>7, <2>2, <2>3, <2>4 DEF DecidesAlone, EventConfidence
  <1>8. CASE s = "breaking_news"
    <2>1. e.kind \in {"hack", "exploit", "regulation", "partnership", "mainnet", "upgrade"}
      BY <1>1, <1>8 DEF KindsOf
    <2>2. EventAction(e) \in {"buy", "sell"}
      BY <2>1 DEF EventAction
    <2>3. /\ Reliability(e) = 75
          /\ BaseConfidence(e) = CASE Priority(e) = "immediate" -> 95
                                   [] Priority(e) = "high" -> 80 [] OTHER -> 60
      BY <1>1, <1>8 DEF BaseConfidence, Reliability
    <2>4. QED
      BY <1>1, <1>3, <1>8, <2>2, <2>3 DEF DecidesAlone, EventConfidence
  <1>9. QED
    BY <1>1, <1>4, <1>5, <1>6, <1>7, <1>8 DEF AllSources

-----------------------------------------------------------------------------
(* The inductive invariant: a cycle holds events of the sources that have  *)
(* answered; what was told, some source reports; and a key that is         *)
(* forgotten again has cost a cut.                                         *)
Held(c) ==
  \A e \in cycle[c].has : \E s \in EventSources \ cycle[c].waits : e \in EventsOf[s]

Known(k) == IF k \in seen THEN 1 ELSE 0

SeekerIInv ==
  /\ cycle \in [Cycles -> [waits : SUBSET EventSources, has : SUBSET Happenings, on : BOOLEAN]]
  /\ \A c \in Cycles : Held(c)
  /\ seen \subseteq Keys /\ Cardinality(seen) <= MaxSeen
  /\ told \in [Happenings -> Nat] /\ cuts \in Nat
  /\ \A e \in Happenings : told[e] > 0 => \E s \in EventSources : e \in EventsOf[s]
  /\ \A k \in Keys : TimesTold(k) <= cuts + Known(k)

LEMMA FiniteKeys ==
  /\ IsFiniteSet(Keys)
  /\ \A k : IsFiniteSet(EventsWith(k))
  <1>1. IsFiniteSet(Keys)
    <2> DEFINE f == [e \in Happenings |-> Key(e)]
    <2>1. f \in Surjection(Happenings, Keys)
      BY DEF Surjection, Keys
    <2> HIDE DEF f
    <2>2. QED
      BY <2>1, SeekerAssumption, FS_Surjection
  <1>2. ASSUME NEW k PROVE IsFiniteSet(EventsWith(k))
    <2>1. EventsWith(k) \in SUBSET Happenings
      BY DEF EventsWith
    <2>2. QED
      BY <2>1, SeekerAssumption, FS_Subset
  <1>3. QED
    BY <1>1, <1>2

LEMMA InvariantServes == SeekerIInv => AlphaIsSound
  <1> SUFFICES ASSUME SeekerIInv PROVE AlphaIsSound
    OBVIOUS
  <1>1. ToldOnce
    <2> SUFFICES ASSUME NEW k \in Keys PROVE TimesTold(k) <= cuts + 1
      BY DEF ToldOnce
    <2>1. TimesTold(k) <= cuts + Known(k) /\ cuts \in Nat
      BY DEF SeekerIInv
    <2>2. \A e \in EventsWith(k) : told[e] \in Int
      BY DEF SeekerIInv, EventsWith
    <2>3. TimesTold(k) \in Int
      BY <2>2, FiniteKeys, SumIsInt DEF TimesTold
    <2>4. QED
      BY <2>1, <2>3 DEF Known
  <1>2. TablesAgree
    BY TableOfReported DEF SeekerIInv, TablesAgree, PriorityHasDirection, PriorityDecides
  <1>3. QED
    BY <1>1, <1>2 DEF SeekerIInv, AlphaIsSound, MemoryServes, MemoryIsBounded

LEMMA SeekerInitIInv == SeekerInit => SeekerIInv
  <1> SUFFICES ASSUME SeekerInit PROVE SeekerIInv
    OBVIOUS
  <1>1. Quiet \in [waits : SUBSET EventSources, has : SUBSET Happenings, on : BOOLEAN]
    BY DEF Quiet
  <1>2. cycle \in [Cycles -> [waits : SUBSET EventSources, has : SUBSET Happenings, on : BOOLEAN]]
    BY <1>1 DEF SeekerInit
  <1>3. \A c \in Cycles : Held(c)
    BY DEF SeekerInit, Held, Quiet
  <1>4. seen \subseteq Keys /\ Cardinality(seen) <= MaxSeen
    BY FS_EmptySet, SeekerAssumption DEF SeekerInit
  <1>5. told \in [Happenings -> Nat] /\ cuts = 0 /\ \A e \in Happenings : told[e] = 0
    BY DEF SeekerInit
  <1>6. ASSUME NEW k \in Keys PROVE TimesTold(k) <= cuts + Known(k)
    <2>1. \A e \in EventsWith(k) : told[e] = 0
      BY <1>5 DEF EventsWith
    <2>2. SumOver(told, EventsWith(k)) = 0
      BY <2>1, FiniteKeys, SumIsInt
    <2>3. Known(k) = 0
      BY DEF SeekerInit, Known
    <2>4. QED
      BY <1>5, <2>2, <2>3 DEF TimesTold
  <1>7. QED
    BY <1>2, <1>3, <1>4, <1>5, <1>6 DEF SeekerIInv

\* A step of one cycle that tells nothing.
LEMMA CycleMoves ==
  ASSUME SeekerIInv, NEW c \in Cycles,
         NEW x \in [waits : SUBSET EventSources, has : SUBSET Happenings, on : BOOLEAN],
         cycle' = [cycle EXCEPT ![c] = x], UNCHANGED <<seen, told, cuts>>,
         \A e \in x.has : \E s \in EventSources \ x.waits : e \in EventsOf[s]
  PROVE  SeekerIInv'
  <1>1. cycle' \in [Cycles -> [waits : SUBSET EventSources, has : SUBSET Happenings, on : BOOLEAN]]
    BY DEF SeekerIInv
  <1>2. ASSUME NEW d \in Cycles PROVE Held(d)'
    <2>1. CASE d = c
      <3>1. cycle'[d] = x
        BY <2>1 DEF SeekerIInv
      <3>2. QED
        BY <3>1 DEF Held
    <2>2. CASE d # c
      <3>1. cycle'[d] = cycle[d] /\ Held(d)
        BY <2>2 DEF SeekerIInv
      <3>2. QED
        BY <3>1 DEF Held
    <2>3. QED
      BY <2>1, <2>2
  <1>3. \A k \in Keys : (TimesTold(k) <= cuts + Known(k))'
    BY DEF SeekerIInv, TimesTold, Known
  <1>4. /\ seen' \subseteq Keys /\ Cardinality(seen') <= MaxSeen
        /\ told' \in [Happenings -> Nat] /\ cuts' \in Nat
        /\ \A e \in Happenings : told'[e] > 0 => \E s \in EventSources : e \in EventsOf[s]
    BY DEF SeekerIInv
  <1>5. QED
    BY <1>1, <1>2, <1>3, <1>4 DEF SeekerIInv

\* An answer brings events of the source that answers.
LEMMA AnswerKeeps ==
  ASSUME SeekerIInv, NEW c \in Cycles, NEW s \in EventSources, NEW events \in AnswersOf(s),
         SourceAnswers(c, s, events)
  PROVE  SeekerIInv'
  <1> DEFINE w == cycle[c].waits
             h == cycle[c].has
             x == [waits |-> w \ {s}, has |-> h \cup events, on |-> cycle[c].on]
  <1>1. /\ cycle[c] \in [waits : SUBSET EventSources, has : SUBSET Happenings, on : BOOLEAN]
        /\ Held(c) /\ s \in w
    BY DEF SeekerIInv, SourceAnswers
  <1>2. events \subseteq EventsOf[s]
    BY DEF AnswersOf
  <1>3. events \subseteq Happenings
    BY <1>2, SourcesHaveKinds
  <1>4. x \in [waits : SUBSET EventSources, has : SUBSET Happenings, on : BOOLEAN]
    BY <1>1, <1>3
  <1>5. cycle' = [cycle EXCEPT ![c] = x]
    <2> DEFINE r == [[cycle[c] EXCEPT !.waits = w \ {s}] EXCEPT !.has = h \cup events]
    <2>1. r = x
      <3> DEFINE old == cycle[c]
                 a == w \ {s}
                 b == h \cup events
      <3>1. old \in [waits : SUBSET EventSources, has : SUBSET Happenings, on : BOOLEAN]
        BY <1>1
      <3> HIDE DEF old, a, b
      <3>2. PICK u, v, o : old = [waits |-> u, has |-> v, on |-> o]
        <4>1. old = [waits |-> old.waits, has |-> old.has, on |-> old.on]
          BY <3>1
        <4>2. QED
          BY <4>1
      <3>3. [old EXCEPT !.waits = a] = [waits |-> a, has |-> v, on |-> o]
        BY <3>2
      <3>4. [[old EXCEPT !.waits = a] EXCEPT !.has = b] = [waits |-> a, has |-> b, on |-> o]
        <4> DEFINE m == [old EXCEPT !.waits = a]
        <4> HIDE DEF m
        <4>1. m = [waits |-> a, has |-> v, on |-> o]
          BY <3>3 DEF m
        <4>2. [m EXCEPT !.has = b] = [waits |-> a, has |-> b, on |-> o]
          BY <4>1
        <4>3. QED
          BY <4>2 DEF m
      <3>5. old.on = o
        BY <3>2
      <3>6. QED
        BY <3>4, <3>5 DEF old, a, b
    <2>2. cycle' = [d \in Cycles |-> IF d = c THEN r ELSE cycle[d]]
      BY DEF SourceAnswers, SeekerIInv
    <2> HIDE DEF r, x
    <2>3. QED
      BY <2>1, <2>2 DEF SeekerIInv
  <1>6. \A e \in x.has : \E t \in EventSources \ x.waits : e \in EventsOf[t]
    BY <1>1, <1>2 DEF Held
  <1>7. UNCHANGED <<seen, told, cuts>>
    BY DEF SourceAnswers
  <1> HIDE DEF x
  <1>8. QED
    BY <1>4, <1>5, <1>6, <1>7, CycleMoves

\* The end of a cycle tells one event of a key, and no event of a known one.
LEMMA EndKeeps ==
  ASSUME SeekerIInv, NEW c \in Cycles, CycleEnds(c)
  PROVE  SeekerIInv'
  <1> DEFINE R == Remembered(c)
  <1>1. /\ cycle[c] \in [waits : SUBSET EventSources, has : SUBSET Happenings, on : BOOLEAN]
        /\ Held(c)
    BY DEF SeekerIInv
  <1>2. PICK kept \in Cut(R) : seen' = kept /\ cuts' = IF kept = R THEN cuts ELSE cuts + 1
    BY DEF CycleEnds
  <1>u. PICK U \in Unique(c) :
          told' = [e \in Happenings |-> IF e \in U THEN told[e] + 1 ELSE told[e]]
    BY DEF CycleEnds
  <1>3. /\ U \subseteq cycle[c].has /\ U \subseteq Happenings
        /\ \A e \in U : Key(e) \notin seen /\ Key(e) \in R
    BY <1>1, <1>u DEF Unique, Unseen, Remembered
  <1>4. R \subseteq Keys /\ seen \subseteq R
    BY <1>1, EventTypes DEF Remembered, Unseen, SeekerIInv
  <1>5. IsFiniteSet(R) /\ Cardinality(R) \in Nat
    BY <1>4, FiniteKeys, FS_Subset, FS_CardinalityType
  <1>6. kept \subseteq R /\ Cardinality(kept) <= MaxSeen
    BY <1>2, <1>5, SeekerAssumption DEF Cut
  <1>7. told' = [e \in Happenings |-> IF e \in U THEN told[e] + 1 ELSE told[e]]
    BY <1>u
  <1>8. told \in [Happenings -> Nat] /\ cuts \in Nat
    BY DEF SeekerIInv
  <1>9. told' \in [Happenings -> Nat] /\ cuts' \in Nat
    BY <1>2, <1>7, <1>8
  <1>10. ASSUME NEW e \in Happenings, told'[e] > 0
         PROVE  \E s \in EventSources : e \in EventsOf[s]
    <2>1. CASE e \in U
      <3>1. cycle[c].waits = {}
        BY DEF CycleEnds
      <3>2. QED
        BY <1>1, <1>3, <2>1, <3>1 DEF Held
    <2>2. CASE e \notin U
      BY <1>7, <1>10, <2>2 DEF SeekerIInv
    <2>3. QED
      BY <2>1, <2>2
  <1>11. ASSUME NEW k \in Keys PROVE (TimesTold(k) <= cuts + Known(k))'
    <2> DEFINE T == EventsWith(k)
    <2>1. IsFiniteSet(T) /\ T \subseteq Happenings /\ \A e \in T : Key(e) = k
      BY FiniteKeys DEF EventsWith
    <2>2. \A e \in T : told[e] \in Int /\ told'[e] = IF e \in U THEN told[e] + 1 ELSE told[e]
      BY <1>7, <1>8, <2>1
    <2>3. \A d, e \in T \cap U : d = e
      BY <1>u, <2>1 DEF Unique
    <2> DEFINE fresh == IF T \cap U = {} THEN 0 ELSE 1
    <2>4. SumOver(told', T) = SumOver(told, T) + fresh
      BY <2>1, <2>2, <2>3, SumGrows
    <2>5. SumOver(told, T) \in Int
      BY <2>1, <2>2, SumIsInt
    <2>6. TimesTold(k) = SumOver(told, T) /\ TimesTold(k)' = SumOver(told', T)
      BY DEF TimesTold
    <2>7. TimesTold(k) <= cuts + Known(k)
      BY DEF SeekerIInv
    <2>8. fresh = 1 => k \notin seen /\ k \in R
      BY <1>3, <2>1
    <2>9. k \in seen => k \in R
      BY <1>4
    <2>10. Known(k)' = IF k \in kept THEN 1 ELSE 0
      BY <1>2 DEF Known
    <2>11. Known(k) = IF k \in seen THEN 1 ELSE 0
      BY DEF Known
    <2>12. fresh \in {0, 1}
      OBVIOUS
    <2> HIDE DEF fresh, T, R
    <2>13. CASE kept = R
      <3>1. fresh + Known(k) <= Known(k)'
        BY <2>8, <2>9, <2>10, <2>11, <2>12, <2>13
      <3>2. Known(k) \in Int /\ Known(k)' \in Int /\ cuts' = cuts
        BY <1>2, <2>10, <2>11, <2>13
      <3>3. QED
        BY <1>8, <2>4, <2>5, <2>6, <2>7, <2>12, <3>1, <3>2
    <2>14. CASE kept # R
      <3>1. fresh + Known(k) <= 1
        BY <2>8, <2>11, <2>12
      <3>2. Known(k) \in Int /\ Known(k)' \in Nat /\ cuts' = cuts + 1
        BY <1>2, <2>10, <2>11, <2>14
      <3>3. QED
        BY <1>8, <2>4, <2>5, <2>6, <2>7, <2>12, <3>1, <3>2
    <2>15. QED
      BY <2>13, <2>14
  <1>12. cycle' = [cycle EXCEPT ![c] = Quiet]
    BY DEF CycleEnds
  <1>13. cycle' \in [Cycles -> [waits : SUBSET EventSources, has : SUBSET Happenings, on : BOOLEAN]]
    BY <1>12 DEF SeekerIInv, Quiet
  <1>14. ASSUME NEW d \in Cycles PROVE Held(d)'
    <2>1. CASE d = c
      <3>1. cycle'[d] = Quiet
        BY <1>12, <2>1 DEF SeekerIInv
      <3>2. QED
        BY <3>1 DEF Held, Quiet
    <2>2. CASE d # c
      <3>1. cycle'[d] = cycle[d] /\ Held(d)
        BY <1>12, <2>2 DEF SeekerIInv
      <3>2. QED
        BY <3>1 DEF Held
    <2>3. QED
      BY <2>1, <2>2
  <1>15. seen' \subseteq Keys /\ Cardinality(seen') <= MaxSeen
    BY <1>2, <1>4, <1>6
  <1> HIDE DEF R
  <1>16. QED
    BY <1>9, <1>10, <1>11, <1>13, <1>14, <1>15 DEF SeekerIInv

LEMMA SeekerNextIInv == SeekerIInv /\ [SeekerNext]_seekerVars => SeekerIInv'
  <1> SUFFICES ASSUME SeekerIInv, [SeekerNext]_seekerVars PROVE SeekerIInv'
    OBVIOUS
  <1>1. ASSUME NEW c \in Cycles, RunCycle(c) PROVE SeekerIInv'
    <2> DEFINE x == [waits |-> EventSources, has |-> {}, on |-> TRUE]
    <2>1. x \in [waits : SUBSET EventSources, has : SUBSET Happenings, on : BOOLEAN] /\ x.has = {}
      OBVIOUS
    <2>2. cycle' = [cycle EXCEPT ![c] = x] /\ UNCHANGED <<seen, told, cuts>>
      BY <1>1 DEF RunCycle
    <2> HIDE DEF x
    <2>3. QED
      BY <2>1, <2>2, CycleMoves
  <1>2. ASSUME NEW c \in Cycles, CycleCancelled(c) PROVE SeekerIInv'
    <2>1. /\ Quiet \in [waits : SUBSET EventSources, has : SUBSET Happenings, on : BOOLEAN]
          /\ Quiet.has = {}
      BY DEF Quiet
    <2>2. cycle' = [cycle EXCEPT ![c] = Quiet] /\ UNCHANGED <<seen, told, cuts>>
      BY <1>2 DEF CycleCancelled
    <2>3. QED
      BY <2>1, <2>2, CycleMoves
  <1>3. CASE UNCHANGED seekerVars
    BY <1>3 DEF seekerVars, SeekerIInv, Held, TimesTold, Known
  <1>4. QED
    BY <1>1, <1>2, <1>3, AnswerKeeps, EndKeeps DEF SeekerNext

(* In every behaviour of the seeker a cycle holds events of the sources    *)
(* that answered it, and an event that was told is remembered unless the   *)
(* memory was cut.                                                         *)
THEOREM SeekerInvariant == SeekerSpec => []SeekerIInv
  BY SeekerInitIInv, SeekerNextIInv, PTL DEF SeekerSpec

(* An event is told once, but for the cuts of the memory, which stays      *)
(* bounded (AlphaSeekerAgent.run, alpha_seeker.py:650-660); and the tables *)
(* of priorities, directions, reliabilities and boosts agree on what an    *)
(* event that was told decides.                                            *)
THEOREM AlphaTruth == SeekerSpec => []AlphaIsSound
  BY SeekerInvariant, InvariantServes, PTL

-----------------------------------------------------------------------------
(* Backtesting.                                                            *)

(* The deepest fall.                                                       *)
Fractions == Int \X Int
Peaks == [peak : Int, worst : Int \X Int]
Marks == [worth : Nat, entry : Nat]

\* What the loop has found after the first k snapshots.
Deepening(q, run) ==
  /\ run \in [0..Len(q) -> Peaks] /\ run[0] = FirstWorth(q)
  /\ \A k \in 1..Len(q) : run[k] = Deepen(run[k - 1], q[k])

LEMMA DeepenType ==
  ASSUME NEW a \in Peaks, NEW s \in Marks
  PROVE  Deepen(a, s) \in Peaks
  <1> DEFINE peak == IF s.worth > a.peak THEN s.worth ELSE a.peak
             fall == IF peak > 0 THEN <<peak - s.worth, peak>> ELSE <<0, 1>>
             worst == IF Deeper(fall, a.worst) THEN fall ELSE a.worst
  <1>1. a.peak \in Int /\ a.worst \in Int \X Int /\ s.worth \in Int
    BY DEF Peaks, Marks
  <1>2. peak \in Int
    BY <1>1
  <1> HIDE DEF peak
  <1>3. fall \in Int \X Int
    BY <1>1, <1>2
  <1> HIDE DEF fall
  <1>4. worst \in Int \X Int
    BY <1>1, <1>3
  <1>5. Deepen(a, s) = [peak |-> peak, worst |-> worst]
    BY DEF Deepen, peak, fall
  <1> HIDE DEF worst
  <1>6. QED
    BY <1>2, <1>4, <1>5 DEF Peaks

LEMMA DrawdownRuns ==
  ASSUME NEW q \in Seq(Marks)
  PROVE  \E run : Deepening(q, run) /\ MaxDrawdown(q) = run[Len(q)].worst
  <1> DEFINE n == Len(q)
             base == FirstWorth(q)
             step == [p \in (1..n) \X Peaks |-> Deepen(p[2], q[p[1]])]
             Eq(f) == f = [s \in SUBSET (1..n) |->
                             IF s = {} THEN base ELSE Deepen(f[s \ {Max(s)}], q[Max(s)])]
             iter == CHOOSE f : Eq(f)
  <1>1. n \in Nat /\ DOMAIN q = 1..n /\ \A k \in 1..n : q[k] \in Marks
    OBVIOUS
  <1>2. MaxDrawdown(q) = iter[1..n].worst
    BY <1>1 DEF MaxDrawdown, FoldLeft, MapThenFoldSet
  <1>3. base \in Peaks
    <2>1. ASSUME q # <<>> PROVE q[1].worth \in Int
      <3>1. 1 \in 1..n
        BY <1>1, <2>1
      <3>2. q[1] \in Marks
        BY <1>1, <3>1
      <3>3. QED
        BY <3>2 DEF Marks
    <2>2. QED
      BY <2>1 DEF FirstWorth, Peaks
  <1> HIDE DEF n, base
  <1>4. step \in [(1..n) \X Peaks -> Peaks]
    <2>1. \A p \in (1..n) \X Peaks : Deepen(p[2], q[p[1]]) \in Peaks
      BY <1>1, DeepenType
    <2>2. QED
      BY <2>1
  <1>5. \A k \in 1..n, x \in Peaks : step[<<k, x>>] = Deepen(x, q[k])
    OBVIOUS
  <1> HIDE DEF step
  <1>6. PICK g \in [SUBSET (1..n) -> Peaks] :
           /\ g[{}] = base
           /\ \A s \in SUBSET (1..n) : s # {} =>
                /\ Max(s) \in 1..n /\ g[s \ {Max(s)}] \in Peaks
                /\ g[s] = step[<<Max(s), g[s \ {Max(s)}]>>]
    <2>1. HasFoldOfPlaces(n, Peaks, base, step)
      BY <1>1, <1>3, <1>4, FoldOfPlaces
    <2> HIDE DEF Eq, iter
    <2>2. QED
      BY <2>1 DEF HasFoldOfPlaces
  <1>7. ASSUME NEW s \in SUBSET (1..n), s # {}
        PROVE  g[s] = Deepen(g[s \ {Max(s)}], q[Max(s)])
    BY <1>5, <1>6, <1>7
  <1>8. Eq(g)
    BY <1>6, <1>7
  <1>9. Eq(iter)
    BY <1>8
  <1> HIDE DEF iter
  <1>10. iter[{}] = base
    BY <1>9
  <1>11. ASSUME NEW k \in 1..n, iter[1..(k - 1)] \in Peaks
         PROVE  iter[1..k] = step[<<k, iter[1..(k - 1)]>>]
    <2>1. k \in Nat \ {0} /\ k \in 1..k /\ 1..k \subseteq 1..n
      BY <1>1
    <2>2. 1..k \in SUBSET (1..n) /\ 1..k # {}
      BY <2>1
    <2>3. Max(1..k) = k /\ (1..k) \ {Max(1..k)} = 1..(k - 1)
      BY <2>1, MaxOfFirst
    <2>4. iter[1..k] = Deepen(iter[(1..k) \ {Max(1..k)}], q[Max(1..k)])
      BY <1>9, <2>2
    <2>5. iter[1..k] = Deepen(iter[1..(k - 1)], q[k])
      BY <2>3, <2>4
    <2>6. QED
      BY <1>5, <1>11, <2>5
  <1>12. PICK run \in [0..n -> Peaks] :
           /\ run[0] = base /\ run[n] = iter[1..n]
           /\ \A k \in 1..n : run[k] = step[<<k, run[k - 1]>>]
    <2>1. Iterates(iter, n, Peaks, base, step)
      BY <1>10, <1>11 DEF Iterates
    <2>2. Runs(n, Peaks, base, step, iter[1..n])
      BY <1>1, <1>3, <1>4, <2>1, FoldRuns
    <2>3. QED
      BY <2>2 DEF Runs
  <1>13. ASSUME NEW k \in 1..n PROVE run[k] = Deepen(run[k - 1], q[k])
    <2>1. k - 1 \in 0..n
      BY <1>1
    <2>2. QED
      BY <1>5, <1>12, <2>1
  <1>14. QED
    BY <1>2, <1>12, <1>13 DEF Deepening, n, base

\* A product with a positive factor keeps the order, and cancels.
LEMMA Positive ==
  ASSUME NEW x \in Int, NEW y \in Int, NEW z \in Nat \ {0}
  PROVE  x * z <= y * z <=> x <= y
  <1>1. CASE x <= y
    <2>1. \A d \in Nat : d * z >= 0
      OBVIOUS
    <2>2. (y - x) * z >= 0 /\ (y - x) * z = y * z - x * z
      BY <1>1, <2>1
    <2>3. QED
      BY <1>1, <2>2
  <1>2. CASE x > y
    <2>1. \A d \in Nat \ {0} : d * z > 0
      OBVIOUS
    <2>2. (x - y) * z > 0 /\ (x - y) * z = x * z - y * z
      BY <1>2, <2>1
    <2>3. QED
      BY <1>2, <2>2
  <1>3. QED
    BY <1>1, <1>2

\* Falls are compared like the fractions they are.
LEMMA NoDeeper ==
  ASSUME NEW a \in Int, NEW b \in Nat, NEW c \in Int, NEW d \in Nat \ {0},
         NEW e \in Int, NEW f \in Nat \ {0},
         ~Deeper(<<a, b>>, <<c, d>>), ~Deeper(<<c, d>>, <<e, f>>)
  PROVE  ~Deeper(<<a, b>>, <<e, f>>)
  <1>1. a * d <= c * b /\ c * f <= e * d
    BY DEF Deeper
  <1>2. \A x, y \in Int : x * y \in Int /\ x * y = y * x
    OBVIOUS
  <1>3. a * d \in Int /\ c * b \in Int /\ c * f \in Int /\ e * d \in Int /\ a * f \in Int /\ e * b \in Int
    BY <1>2
  <1>4. (a * d) * f <= (c * b) * f
    BY <1>1, <1>3, Positive
  <1>5. (c * f) * b <= (e * d) * b
    <2>1. CASE b = 0
      BY <1>3, <2>1
    <2>2. CASE b # 0
      BY <1>1, <1>3, <2>2, Positive
    <2>3. QED
      BY <2>1, <2>2
  <1>6. (a * d) * f = (a * f) * d /\ (c * b) * f = (c * f) * b /\ (e * d) * b = (e * b) * d
    OBVIOUS
  <1>7. (a * f) * d <= (e * b) * d
    BY <1>4, <1>5, <1>6
  <1>8. a * f <= e * b
    BY <1>3, <1>7, Positive
  <1>9. QED
    BY <1>8 DEF Deeper

Fall(q, i, j) == <<q[i].worth - q[j].worth, q[i].worth>>

\* What holds of the findings in the first k snapshots.
FoundBy(q, k, a) ==
  /\ a.peak \in Nat /\ a.worst \in Nat \X (Nat \ {0})
  /\ \E i \in 1..Len(q) : (i <= k \/ i = 1) /\ q[i].worth = a.peak
  /\ \A i \in 1..k : q[i].worth <= a.peak
  /\ \A i, j \in 1..k : i <= j => ~Deeper(Fall(q, i, j), a.worst)
  /\ a.worst[1] > 0 => \E i, j \in 1..k : i < j /\ a.worst = Fall(q, i, j)

LEMMA FoundNext ==
  ASSUME NEW q \in Seq(Marks), NEW k \in 0..(Len(q) - 1), NEW a \in Peaks, FoundBy(q, k, a)
  PROVE  FoundBy(q, k + 1, Deepen(a, q[k + 1]))
  <1> DEFINE m == k + 1
             w == q[m].worth
             peak == IF w > a.peak THEN w ELSE a.peak
             fall == IF peak > 0 THEN <<peak - w, peak>> ELSE <<0, 1>>
             old == a.worst
             worst == IF Deeper(fall, old) THEN fall ELSE old
  <1>1. k \in Nat /\ m \in 1..Len(q) /\ \A i \in 1..m : i \in 1..k \/ i = m
    OBVIOUS
  <1>2. \A i \in 1..Len(q) : q[i].worth \in Nat
    <2>1. \A i \in 1..Len(q) : q[i] \in Marks
      OBVIOUS
    <2>2. QED
      BY <2>1 DEF Marks
  <1>3. w \in Nat
    BY <1>1, <1>2
  <1>4. a.peak \in Nat /\ old \in Nat \X (Nat \ {0})
    BY DEF FoundBy
  <1>5. Deepen(a, q[k + 1]) = [peak |-> peak, worst |-> worst]
    BY DEF Deepen
  <1>6. peak \in Nat /\ w <= peak /\ a.peak <= peak
    BY <1>3, <1>4
  <1>7. \A i \in 1..m : q[i].worth <= peak
    <2> SUFFICES ASSUME NEW i \in 1..m PROVE q[i].worth <= peak
      OBVIOUS
    <2>1. CASE i = m
      BY <1>6, <2>1
    <2>2. CASE i \in 1..k
      <3>1. q[i].worth <= a.peak /\ q[i].worth \in Nat
        BY <1>2, <2>2 DEF FoundBy
      <3>2. QED
        BY <1>4, <1>6, <3>1
    <2>3. QED
      BY <1>1, <2>1, <2>2
  <1>8. PICK p \in 1..Len(q) : (p <= m \/ p = 1) /\ q[p].worth = peak
    <2>1. CASE w > a.peak
      BY <1>1, <2>1
    <2>2. CASE ~(w > a.peak)
      <3>1. PICK i \in 1..Len(q) : (i <= k \/ i = 1) /\ q[i].worth = a.peak
        BY DEF FoundBy
      <3>2. QED
        BY <1>1, <2>2, <3>1
    <2>3. QED
      BY <2>1, <2>2
  <1>9. fall \in Nat \X (Nat \ {0})
    BY <1>3, <1>6
  <1> HIDE DEF fall
  <1>10. worst \in Nat \X (Nat \ {0}) /\ ~Deeper(fall, worst) /\ ~Deeper(old, worst)
    <2> DEFINE fa == fall[1]
               fb == fall[2]
               oa == old[1]
               ob == old[2]
    <2>1. fa \in Nat /\ fb \in Nat /\ oa \in Nat /\ ob \in Nat /\ fall = <<fa, fb>> /\ old = <<oa, ob>>
      BY <1>4, <1>9
    <2>2. \A x, y \in Nat : x * y \in Nat
      OBVIOUS
    <2>3. fa * ob \in Nat /\ oa * fb \in Nat /\ fa * fb \in Nat /\ oa * ob \in Nat
      BY <2>1, <2>2
    <2>4. CASE Deeper(fall, old)
      <3>1. worst = fall
        BY <2>4
      <3>2. fa * ob > oa * fb
        BY <2>4 DEF Deeper
      <3>3. ~(fa * fb > fa * fb) /\ ~(oa * fb > fa * ob)
        BY <2>3, <3>2
      <3>4. QED
        BY <1>9, <3>1, <3>3 DEF Deeper
    <2>5. CASE ~Deeper(fall, old)
      <3>1. worst = old
        BY <2>5
      <3>2. ~(oa * ob > oa * ob)
        BY <2>3
      <3>3. QED
        BY <1>4, <2>5, <3>1, <3>2 DEF Deeper
    <2>6. QED
      BY <2>4, <2>5
  <1> HIDE DEF w, peak, worst, old
  <1>11. ASSUME NEW i \in 1..m PROVE ~Deeper(Fall(q, i, m), worst)
    <2> DEFINE x == q[i].worth
    <2>1. x \in Nat /\ x <= peak
      BY <1>1, <1>2, <1>7
    <2>2. Fall(q, i, m) = <<x - w, x>>
      BY DEF Fall, w
    <2> HIDE DEF x
    <2>3. ~Deeper(<<x - w, x>>, fall)
      <3>1. CASE peak > 0
        <4>1. fall = <<peak - w, peak>>
          BY <3>1 DEF fall
        <4>2. (x - w) * peak = x * peak - w * peak /\ (peak - w) * x = x * peak - w * x
          BY <1>3, <1>6, <2>1
        <4>3. w * x <= w * peak
          <5>1. \A y, z, u \in Nat : y <= z => u * y <= u * z
            OBVIOUS
          <5>2. QED
            BY <1>3, <1>6, <2>1, <5>1
        <4>4. x * peak \in Int /\ w * peak \in Int /\ w * x \in Int
          BY <1>3, <1>6, <2>1
        <4>5. ~((x - w) * peak > (peak - w) * x)
          BY <4>2, <4>3, <4>4
        <4>6. QED
          BY <4>1, <4>5 DEF Deeper
      <3>2. CASE peak = 0
        <4>1. fall = <<0, 1>> /\ x = 0 /\ w = 0
          BY <1>3, <1>6, <2>1, <3>2 DEF fall
        <4>2. QED
          BY <4>1 DEF Deeper
      <3>3. QED
        BY <1>6, <3>1, <3>2
    <2>4. x - w \in Int
      BY <1>3, <2>1
    <2>5. PICK c, d : fall = <<c, d>> /\ c \in Int /\ d \in Nat \ {0}
      BY <1>9
    <2>6. PICK e, f : worst = <<e, f>> /\ e \in Int /\ f \in Nat \ {0}
      BY <1>10
    <2>7. ~Deeper(<<x - w, x>>, worst)
      BY <1>10, <2>1, <2>3, <2>4, <2>5, <2>6, NoDeeper
    <2>8. QED
      BY <2>2, <2>7
  <1>12. ASSUME NEW i \in 1..k, NEW j \in 1..k, i <= j PROVE ~Deeper(Fall(q, i, j), worst)
    <2> DEFINE x == q[i].worth
               y == q[j].worth
    <2>1. x \in Nat /\ y \in Nat
      BY <1>1, <1>2
    <2>2. Fall(q, i, j) = <<x - y, x>>
      BY DEF Fall
    <2>3. ~Deeper(Fall(q, i, j), old)
      BY <1>12 DEF FoundBy, old
    <2> HIDE DEF x, y
    <2>4. x - y \in Int
      BY <2>1
    <2>5. PICK c, d : old = <<c, d>> /\ c \in Int /\ d \in Nat \ {0}
      BY <1>4
    <2>6. PICK e, f : worst = <<e, f>> /\ e \in Int /\ f \in Nat \ {0}
      BY <1>10
    <2>7. ~Deeper(<<x - y, x>>, <<c, d>>) /\ ~Deeper(<<c, d>>, <<e, f>>)
      BY <1>10, <2>2, <2>3, <2>5, <2>6
    <2>8. ~Deeper(<<x - y, x>>, <<e, f>>)
      BY <2>1, <2>4, <2>5, <2>6, <2>7, NoDeeper
    <2>9. ~Deeper(<<x - y, x>>, worst)
      BY <2>6, <2>8
    <2>10. QED
      BY <2>2, <2>9
  <1>13. ASSUME NEW i \in 1..m, NEW j \in 1..m, i <= j PROVE ~Deeper(Fall(q, i, j), worst)
    <2>1. CASE j = m
      BY <1>11, <2>1
    <2>2. CASE j \in 1..k
      <3>1. i \in 1..k
        BY <1>1, <1>13, <2>2
      <3>2. QED
        BY <1>12, <1>13, <2>2, <3>1
    <2>3. QED
      BY <1>1, <2>1, <2>2
  <1>14. ASSUME worst[1] > 0 PROVE \E i, j \in 1..m : i < j /\ worst = Fall(q, i, j)
    <2>1. CASE worst = old
      <3>1. PICK i \in 1..k, j \in 1..k : i < j /\ old = Fall(q, i, j)
        BY <1>14, <2>1 DEF FoundBy, old
      <3>2. i \in 1..m /\ j \in 1..m
        BY <1>1
      <3>3. QED
        BY <2>1, <3>1, <3>2
    <2>2. CASE worst = fall
      <3>1. fall[1] > 0
        BY <1>14, <2>2
      <3>2. peak > 0 /\ fall = <<peak - w, peak>>
        BY <1>6, <3>1 DEF fall
      <3>3. peak # w
        BY <1>3, <3>1, <3>2
      <3>4. p # m
        BY <1>8, <3>3 DEF w
      <3>5. p \in 1..m /\ p < m
        BY <1>1, <1>8, <3>4
      <3>6. fall = Fall(q, p, m)
        BY <1>8, <3>2 DEF Fall, w
      <3>7. m \in 1..m
        BY <1>1
      <3>8. QED
        BY <2>2, <3>5, <3>6, <3>7
    <2>3. QED
      BY <2>1, <2>2 DEF worst
  <1>15. QED
    BY <1>5, <1>6, <1>7, <1>8, <1>10, <1>13, <1>14 DEF FoundBy

(* The loop over the snapshots finds the deepest fall from any of them to  *)
(* a later one.                                                            *)
LEMMA DeepestFall ==
  ASSUME NEW q \in Seq(Marks)
  PROVE  /\ \A i, j \in DOMAIN q : i <= j => ~Deeper(Fall(q, i, j), MaxDrawdown(q))
         /\ MaxDrawdown(q)[1] > 0 =>
              \E i, j \in DOMAIN q : i < j /\ MaxDrawdown(q) = Fall(q, i, j)
  <1> DEFINE n == Len(q)
  <1>1. n \in Nat /\ DOMAIN q = 1..n
    OBVIOUS
  <1>2. PICK run : Deepening(q, run) /\ MaxDrawdown(q) = run[n].worst
    BY DrawdownRuns
  <1>3. run[0] = FirstWorth(q) /\ run \in [0..n -> Peaks]
    BY <1>2 DEF Deepening
  <1>4. CASE n = 0
    <2>1. MaxDrawdown(q) = <<0, 1>>
      BY <1>2, <1>3, <1>4 DEF FirstWorth
    <2>2. QED
      BY <1>1, <1>4, <2>1
  <1>5. CASE n > 0
    <2> DEFINE Good == {k \in 0..n : FoundBy(q, k, run[k])}
    <2>1. FoundBy(q, 0, run[0])
      <3>1. 1 \in 1..n /\ q # <<>>
        BY <1>1, <1>5
      <3>2. q[1] \in Marks
        BY <1>1, <3>1
      <3>3. run[0].peak = q[1].worth /\ run[0].worst = <<0, 1>>
        BY <1>3, <3>1 DEF FirstWorth
      <3>4. q[1].worth \in Nat
        BY <3>2 DEF Marks
      <3>5. QED
        BY <3>1, <3>3, <3>4 DEF FoundBy
    <2>2. ASSUME NEW k \in 0..(n - 1), k \in Good PROVE k + 1 \in Good
      <3>1. k \in 0..n /\ k + 1 \in 1..n /\ k + 1 - 1 = k /\ k + 1 \in 0..n
        BY <1>1
      <3>2. run[k] \in Peaks
        BY <1>3, <3>1
      <3>3. \A i \in 1..n : run[i] = Deepen(run[i - 1], q[i])
        BY <1>2 DEF Deepening
      <3>4. run[k + 1] = Deepen(run[k], q[k + 1])
        BY <3>1, <3>3
      <3>5. FoundBy(q, k, run[k])
        BY <2>2
      <3>6. FoundBy(q, k + 1, run[k + 1])
        BY <3>2, <3>4, <3>5, FoundNext
      <3>7. QED
        BY <3>1, <3>6
    <2>3. 0 \in Good
      BY <1>1, <2>1
    <2> HIDE DEF Good
    <2>4. \A k \in 0..n : k \in Good
      BY <1>1, <2>2, <2>3, UpTo
    <2>5. FoundBy(q, n, run[n])
      BY <1>1, <2>4 DEF Good
    <2>6. QED
      BY <1>1, <1>2, <2>5 DEF FoundBy
  <1>6. QED
    BY <1>1, <1>4, <1>5

-----------------------------------------------------------------------------
(* Money.                                                                  *)
LEMMA Share ==
  ASSUME NEW x \in Nat, NEW p \in Nat, NEW q \in Nat \ {0}, p <= q
  PROVE  (x * p) \div q \in 0..x
  <1> DEFINE y == x * p
  <1>1. y \in Nat /\ y <= x * q
    <2>1. \A a, b, c \in Nat : b <= c => a * b \in Nat /\ a * b <= a * c
      OBVIOUS
    <2>2. QED
      BY <2>1
  <1> HIDE DEF y
  <1>2. PICK r \in 0..(q - 1) : y = q * (y \div q) + r
    <2>1. y = q * (y \div q) + (y % q) /\ y % q \in 0..(q - 1)
      BY <1>1
    <2>2. QED
      BY <2>1
  <1> DEFINE d == y \div q
  <1>3. d \in Nat
    BY <1>1
  <1> HIDE DEF d
  <1>4. d <= x
    <2>1. d * q <= x * q
      BY <1>1, <1>2, <1>3 DEF d
    <2>2. QED
      BY <1>3, <2>1, Positive
  <1>5. QED
    BY <1>3, <1>4 DEF d, y

LEMMA Quotient ==
  ASSUME NEW x \in Nat, NEW q \in Nat \ {0}
  PROVE  x \div q \in Nat /\ (q <= x => x \div q > 0)
  <1>1. x = q * (x \div q) + (x % q) /\ x % q \in 0..(q - 1) /\ x \div q \in Nat
    OBVIOUS
  <1>2. QED
    BY <1>1

LEMMA FeeIsAShare == \A x \in Nat : Fee(x) \in 0..x
  <1>1. FeePm \in Nat /\ FeePm <= 1000 /\ 1000 \in Nat \ {0}
    BY BacktestAssumption
  <1>2. \A x \in Nat : (x * FeePm) \div 1000 \in 0..x
    BY <1>1, Share
  <1>3. QED
    BY <1>2 DEF Fee

LEMMA Prices ==
  ASSUME NEW p \in Nat \ {0}
  PROVE  BuyPrice(p) \in Nat \ {0} /\ SellPrice(p) \in Nat
  <1>1. (p * SlipBp) \div 10000 \in 0..p
    <2>1. p \in Nat /\ SlipBp \in Nat /\ SlipBp <= 10000 /\ 10000 \in Nat \ {0}
      BY BacktestAssumption
    <2>2. QED
      BY <2>1, Share
  <1>2. QED
    BY <1>1 DEF BuyPrice, SellPrice

\* A position is something, and costs with its fee no more than the cash.
LEMMA BoughtTypes ==
  ASSUME NEW p \in Closes, cash \in Nat, Bought(p).cost > 0, NextEnd \in Nat
  PROVE  /\ Bought(p) \in [size : Nat \ {0}, entry : Nat \ {0}, cost : Nat, fee : Nat, at : Nat]
         /\ Bought(p).at = NextEnd
         /\ cash - Bought(p).cost - Bought(p).fee \in Nat
  <1> DEFINE alloc == (cash * AllocPct) \div 100
             fee == Fee(alloc)
             net == alloc - fee
             b == BuyPrice(p)
  <1>1. p \in Nat \ {0} /\ b <= Unit
    BY BacktestAssumption, PriceAssumption
  <1>2. b \in Nat \ {0}
    BY <1>1, Prices
  <1>3. alloc \in 0..cash
    BY Share, BacktestAssumption
  <1> HIDE DEF b, alloc
  <1>4. fee \in 0..alloc
    BY <1>3, FeeIsAShare
  <1>5. Bought(p) = [size |-> (net * Unit) \div b, entry |-> b, cost |-> net, fee |-> fee, at |-> NextEnd]
    BY DEF Bought, b, alloc
  <1> HIDE DEF fee
  <1>6. net \in Nat \ {0} /\ cash - net - fee \in Nat
    BY <1>3, <1>4, <1>5
  <1> HIDE DEF net
  <1>7. net * Unit \in Nat /\ b <= net * Unit
    <2>1. \A x \in Nat \ {0} : x * 25000 \in Nat /\ 25000 <= x * 25000
      OBVIOUS
    <2>2. net * Unit \in Nat /\ Unit <= net * Unit /\ Unit \in Nat
      BY <1>6, <2>1 DEF Unit
    <2> HIDE DEF Unit
    <2>3. QED
      BY <1>1, <1>2, <2>2
  <1>8. (net * Unit) \div b \in Nat \ {0}
    BY <1>2, <1>7, Quotient
  <1>9. QED
    BY <1>2, <1>4, <1>5, <1>6, <1>8, <1>3

LEMMA GrossIsANumber ==
  ASSUME NEW p \in Nat \ {0}, position.size \in Nat
  PROVE  Gross(p) \in Nat /\ Gross(p) - Fee(Gross(p)) \in Nat
  <1>1. SellPrice(p) \in Nat
    BY Prices
  <1>2. \A x, y \in Nat : x * y \in Nat
    OBVIOUS
  <1>3. position.size * SellPrice(p) \in Nat
    BY <1>1, <1>2
  <1>4. Gross(p) \in Nat
    BY <1>3, Quotient DEF Gross, Unit
  <1>5. Fee(Gross(p)) \in 0..Gross(p)
    BY <1>4, FeeIsAShare
  <1>6. QED
    BY <1>4, <1>5

-----------------------------------------------------------------------------
(* The inductive invariant: what is not reported yet has a last snapshot   *)
(* of the portfolio as it is, and every trade ended before the position    *)
(* was opened.                                                             *)
Positions == [size : Nat, entry : Nat, cost : Nat, fee : Nat, at : Nat]
Trades == [opened : Nat, closed : Nat, pnl : Int, fee : Nat, paid : Nat]

InOrder(i) ==
  /\ trades[i].opened <= trades[i].closed /\ trades[i].closed <= window[2]
  /\ Invested => trades[i].closed < position.at
  /\ i > 1 => trades[i - 1].closed < trades[i].opened

Shown ==
  \/ window = <<0, 0>> /\ snapshots = <<>> /\ cash = Capital
  \/ /\ snapshots # <<>> /\ window \in Int \X Nat
     /\ window[2] = Lookback - 1 + Len(snapshots) /\ window[2] - window[1] = Lookback - 1

LastIsNow ==
  snapshots # <<>> =>
    /\ Last(snapshots).entry = position.entry
    /\ position = Flat => Last(snapshots).worth = cash

Books == cash + position.cost + position.fee = Capital + SumOf(Results)

ReportIsRight ==
  /\ reported.final = cash \/ ClosedByReport
  /\ reported.fall = MaxDrawdown(snapshots)

BacktestIInv ==
  /\ candles \in Seq(Closes) /\ cash \in Nat /\ position \in Positions
  /\ \/ position = Flat
     \/ Invested /\ position.entry > 0 /\ position.at \in 1..window[2] /\ snapshots # <<>>
  /\ trades \in Seq(Trades) /\ snapshots \in Seq(Marks)
  /\ Shown /\ Books
  /\ \A i \in DOMAIN trades : InOrder(i)
  /\ reported = NotYet => LastIsNow
  /\ reported # NotYet => ReportIsRight

LEMMA InvariantIsHonest == BacktestIInv => BacktestIsHonest
  <1> SUFFICES ASSUME BacktestIInv PROVE BacktestIsHonest
    OBVIOUS
  <1>1. NoLookAhead
    BY DEF BacktestIInv, Shown, NoLookAhead
  <1>2. ASSUME reported # NotYet
        PROVE  /\ reported.final = cash \/ ClosedByReport
               /\ \A i, j \in DOMAIN snapshots : i <= j =>
                    ~Deeper(<<snapshots[i].worth - snapshots[j].worth, snapshots[i].worth>>, reported.fall)
               /\ reported.fall[1] > 0 => \E i, j \in DOMAIN snapshots :
                    i < j /\ reported.fall = <<snapshots[i].worth - snapshots[j].worth, snapshots[i].worth>>
    <2>1. (reported.final = cash \/ ClosedByReport) /\ reported.fall = MaxDrawdown(snapshots)
      BY <1>2 DEF BacktestIInv, ReportIsRight
    <2>2. snapshots \in Seq(Marks)
      BY DEF BacktestIInv
    <2>3. QED
      BY <2>1, <2>2, DeepestFall DEF Fall
  <1>3. \A i \in DOMAIN trades :
          /\ trades[i].opened <= trades[i].closed
          /\ i > 1 => trades[i - 1].closed < trades[i].opened
    BY DEF BacktestIInv, InOrder
  <1>4. cash + position.cost + position.fee = Capital + SumOf(Results)
    BY DEF BacktestIInv, Books
  <1>5. BooksBalance
    BY <1>2, <1>3, <1>4 DEF BooksBalance
  <1>6. QED
    BY <1>1, <1>5 DEF BacktestIsHonest

LEMMA BacktestInitIInv == BacktestInit => BacktestIInv
  <1> SUFFICES ASSUME BacktestInit PROVE BacktestIInv
    OBVIOUS
  <1>1. candles \in Seq(Closes)
    <2>1. PICK n \in 1..MaxCandles : candles \in [1..n -> Closes]
      BY DEF BacktestInit
    <2>2. n \in Nat
      BY BacktestAssumption
    <2>3. QED
      BY <2>1, <2>2
  <1>2. cash = Capital /\ position = Flat /\ window = <<0, 0>> /\ snapshots = <<>> /\ trades = <<>>
        /\ reported = NotYet
    BY DEF BacktestInit
  <1>3. Capital \in Nat /\ Flat \in Positions /\ Flat.cost = 0 /\ Flat.fee = 0
    BY BacktestAssumption DEF Flat, Positions
  <1>4. trades \in Seq(Trades) /\ snapshots \in Seq(Marks) /\ DOMAIN trades = {}
    BY <1>2
  <1>5. Results = <<>>
    BY <1>2 DEF Results
  <1>6. Books
    BY <1>2, <1>3, <1>5, SumFacts DEF Books
  <1>7. Shown /\ (reported = NotYet => LastIsNow)
    BY <1>2 DEF Shown, LastIsNow
  <1>8. \A i \in DOMAIN trades : InOrder(i)
    BY <1>4
  <1>9. cash \in Nat /\ position \in Positions /\ position = Flat
    BY <1>2, <1>3
  <1>10. reported # NotYet => ReportIsRight
    BY <1>2
  <1>11. QED
    BY <1>1, <1>4, <1>6, <1>7, <1>8, <1>9, <1>10 DEF BacktestIInv

\* A trade more, a result more.
LEMMA ResultsGrow ==
  ASSUME trades \in Seq(Trades), NEW t \in Trades, trades' = Append(trades, t)
  PROVE  /\ SumOf(Results) \in Int
         /\ SumOf(Results)' = SumOf(Results) + t.pnl - t.paid
  <1> DEFINE x == t.pnl - t.paid
  <1>1. x \in Int /\ \A i \in 1..Len(trades) : trades[i].pnl - trades[i].paid \in Int
    <2>1. \A u \in Trades : u.pnl - u.paid \in Int
      BY DEF Trades
    <2>2. \A i \in 1..Len(trades) : trades[i] \in Trades
      OBVIOUS
    <2>3. QED
      BY <2>1, <2>2
  <1>2. Results \in Seq(Int)
    BY <1>1 DEF Results
  <1>3. Results' = Append(Results, x)
    <2>1. DOMAIN trades' = 1..(Len(trades) + 1) /\ DOMAIN trades = 1..Len(trades) /\ Len(trades) \in Nat
      OBVIOUS
    <2>2. \A i \in 1..(Len(trades) + 1) :
            trades'[i] = IF i = Len(trades) + 1 THEN t ELSE trades[i]
      OBVIOUS
    <2>3. Results' = [i \in 1..(Len(trades) + 1) |-> trades'[i].pnl - trades'[i].paid]
      BY <2>1 DEF Results
    <2>4. Len(Results) = Len(trades) /\ \A i \in 1..Len(trades) : Results[i] = trades[i].pnl - trades[i].paid
      BY <2>1 DEF Results
    <2>5. Append(Results, x) = [i \in 1..(Len(trades) + 1) |-> IF i = Len(trades) + 1 THEN x ELSE Results[i]]
      BY <1>2, <2>4
    <2>6. QED
      BY <2>2, <2>3, <2>4, <2>5
  <1> HIDE DEF x
  <1>4. SumOf(Results)' = SumOf(Results) + x /\ SumOf(Results) \in Int
    BY <1>1, <1>2, <1>3, SumFacts
  <1>5. t.pnl \in Int /\ t.paid \in Int
    BY DEF Trades
  <1>6. QED
    BY <1>4, <1>5 DEF x

\* The last candle shown.
LEMMA WindowIsNat == BacktestIInv => window[2] \in Nat
  <1> SUFFICES ASSUME BacktestIInv PROVE window[2] \in Nat
    OBVIOUS
  <1>1. CASE window = <<0, 0>>
    BY <1>1
  <1>2. CASE window \in Int \X Nat
    BY <1>2
  <1>3. QED
    BY <1>1, <1>2 DEF BacktestIInv, Shown

\* A window more: the next candle is the last one shown.
LEMMA WindowMoves ==
  ASSUME BacktestIInv, HasWindow
  PROVE  /\ NextEnd \in Nat \ {0} /\ window[2] \in Nat /\ window[2] < NextEnd
         /\ Close \in Closes /\ Close \in Nat \ {0}
         /\ WindowOf(NextEnd) \in Int \X Nat
         /\ WindowOf(NextEnd)[2] = Lookback - 1 + Len(snapshots) + 1
         /\ WindowOf(NextEnd)[2] - WindowOf(NextEnd)[1] = Lookback - 1
         /\ WindowOf(NextEnd)[2] = NextEnd
  <1>1. Lookback \in Nat \ {0}
    BY BacktestAssumption
  <1>2. snapshots \in Seq(Marks) /\ Shown /\ candles \in Seq(Closes)
    BY DEF BacktestIInv
  <1>3. Len(snapshots) \in Nat /\ (snapshots # <<>> => Len(snapshots) > 0)
        /\ (snapshots = <<>> => Len(snapshots) = 0)
    BY <1>2
  <1>4. /\ window[2] \in Nat
        /\ NextEnd = Lookback + Len(snapshots)
        /\ window[2] < NextEnd
    <2>1. CASE window = <<0, 0>> /\ snapshots = <<>>
      BY <1>1, <1>3, <2>1 DEF NextEnd
    <2>2. CASE /\ snapshots # <<>> /\ window \in Int \X Nat
               /\ window[2] = Lookback - 1 + Len(snapshots)
      BY <1>1, <1>3, <2>2 DEF NextEnd
    <2>3. QED
      BY <1>2, <2>1, <2>2 DEF Shown
  <1>5. NextEnd \in Nat \ {0} /\ NextEnd <= Len(candles)
    BY <1>1, <1>3, <1>4 DEF HasWindow
  <1>6. Close \in Closes
    <2>1. NextEnd \in 1..Len(candles)
      BY <1>2, <1>5
    <2>2. QED
      BY <1>2, <2>1 DEF Close
  <1>7. WindowOf(NextEnd) = <<NextEnd - Lookback + 1, NextEnd>>
    BY DEF WindowOf
  <1>8. WindowOf(NextEnd)[2] = NextEnd /\ WindowOf(NextEnd)[1] = NextEnd - Lookback + 1
    BY <1>7
  <1>9. QED
    BY <1>1, <1>3, <1>4, <1>5, <1>6, <1>7, <1>8, BacktestAssumption

\* What a step leaves of the invariant, when the books are right again and
\* the trades are in order.
LEMMA StepKeeps ==
  ASSUME BacktestIInv, HasWindow, UNCHANGED candles, reported = NotYet, UNCHANGED reported,
         window' = WindowOf(NextEnd),
         snapshots' = Append(snapshots, [worth |-> Worth(cash', position', Close),
                                         entry |-> position'.entry]),
         cash' \in Nat, position' \in Positions, trades' \in Seq(Trades),
         \/ position' = Flat
         \/ Invested' /\ position'.entry > 0 /\ position'.at \in 1..NextEnd,
         Books', \A i \in DOMAIN trades' : InOrder(i)'
  PROVE  BacktestIInv'
  <1> DEFINE mark == [worth |-> Worth(cash', position', Close), entry |-> position'.entry]
  <1>1. /\ Close \in Nat /\ window' \in Int \X Nat /\ window'[2] = NextEnd
        /\ window'[2] = Lookback - 1 + Len(snapshots) + 1 /\ window'[2] - window'[1] = Lookback - 1
    BY WindowMoves
  <1>2. snapshots \in Seq(Marks) /\ candles' \in Seq(Closes)
    BY DEF BacktestIInv
  <1>3. Worth(cash', position', Close) \in Nat
    <2>1. position'.size \in Nat
      BY DEF Positions
    <2>2. \A x, y \in Nat : x * y \in Nat
      OBVIOUS
    <2>3. position'.size * Close \in Nat
      BY <1>1, <2>1, <2>2
    <2>4. (position'.size * Close) \div Unit \in Nat
      BY <2>3, Quotient DEF Unit
    <2>5. QED
      BY <2>4 DEF Worth
  <1>4. mark \in Marks
    <2>1. position'.entry \in Nat
      BY DEF Positions
    <2>2. QED
      BY <1>3, <2>1 DEF Marks
  <1>5. snapshots' = Append(snapshots, mark)
    OBVIOUS
  <1>6. mark.entry = position'.entry /\ (position' = Flat => mark.worth = cash')
    <2>1. position' = Flat => (position'.size * Close) \div Unit = 0
      BY <1>1 DEF Flat, Unit
    <2>2. QED
      BY <2>1 DEF Worth
  <1> HIDE DEF mark
  <1>7. /\ snapshots' \in Seq(Marks) /\ Len(snapshots') = Len(snapshots) + 1
        /\ Len(snapshots) \in Nat /\ snapshots'[Len(snapshots) + 1] = mark
    BY <1>2, <1>4, <1>5
  <1>8. snapshots' # <<>> /\ Last(snapshots') = mark
    BY <1>7 DEF Last
  <1>9. Shown'
    <2>1. window'[2] = Lookback - 1 + Len(snapshots')
      BY <1>1, <1>7, BacktestAssumption
    <2>2. QED
      BY <1>1, <1>8, <2>1 DEF Shown
  <1>10. LastIsNow'
    BY <1>6, <1>8 DEF LastIsNow
  <1>11. /\ \/ position' = Flat
            \/ /\ Invested' /\ position'.entry > 0 /\ position'.at \in 1..window'[2]
               /\ snapshots' # <<>>
         /\ reported' = NotYet
    BY <1>1, <1>8
  <1>12. QED
    BY <1>2, <1>7, <1>9, <1>10, <1>11 DEF BacktestIInv

\* A sale puts its proceeds in the cash and ends the trade.
LEMMA SaleKeeps ==
  ASSUME BacktestIInv, Invested, NEW p \in Nat \ {0}, NEW at \in Nat, window[2] <= at,
         Sells(p, at), NEW last \in Nat, last = window'[2], at <= last
  PROVE  /\ cash' \in Nat /\ position' = Flat /\ position' \in Positions
         /\ trades' \in Seq(Trades) /\ trades' # <<>> /\ Last(trades').closed = at
         /\ Books' /\ \A i \in DOMAIN trades' : InOrder(i)'
  <1> DEFINE t == Trade(p, at)
             g == Gross(p)
             f == Fee(Gross(p))
             n == Len(trades)
  <1>1. /\ position \in Positions /\ cash \in Nat /\ trades \in Seq(Trades) /\ Books
        /\ \A i \in DOMAIN trades : InOrder(i)
    BY DEF BacktestIInv
  <1>2. position.at \in 1..window[2] /\ window[2] \in Nat
    <2>1. position # Flat
      BY DEF Invested, Flat
    <2>2. position.at \in 1..window[2]
      BY <2>1 DEF BacktestIInv
    <2>3. QED
      BY <2>2, WindowIsNat
  <1>3. position.size \in Nat /\ position.cost \in Nat /\ position.fee \in Nat
    BY <1>1 DEF Positions
  <1>4. g \in Nat /\ f \in Nat /\ g - f \in Nat
    BY <1>3, GrossIsANumber, FeeIsAShare
  <1>5. t = [opened |-> position.at, closed |-> at, pnl |-> g - f - position.cost, fee |-> f, paid |-> position.fee]
    BY DEF Trade
  <1>6. trades' = Append(trades, t) /\ cash' = cash + g - f /\ position' = Flat
    BY DEF Sells
  <1> HIDE DEF t, g, f
  <1>7. t \in Trades
    <2>1. g - f - position.cost \in Int
      BY <1>3, <1>4
    <2>2. QED
      BY <1>2, <1>3, <1>4, <1>5, <2>1 DEF Trades
  <1>8. cash' \in Nat /\ position' \in Positions
    BY <1>1, <1>4, <1>6 DEF Positions, Flat
  <1>9. Books'
    <2>1. SumOf(Results) \in Int /\ SumOf(Results)' = SumOf(Results) + t.pnl - t.paid
      BY <1>1, <1>6, <1>7, ResultsGrow
    <2>2. t.pnl = g - f - position.cost /\ t.paid = position.fee
      <3> DEFINE x == g - f - position.cost
                 y == position.fee
                 z == position.at
      <3>1. t = [opened |-> z, closed |-> at, pnl |-> x, fee |-> f, paid |-> y]
        BY <1>5
      <3> HIDE DEF x, y, z
      <3>2. t.pnl = x /\ t.paid = y
        BY <3>1
      <3>3. QED
        BY <3>2 DEF x, y
    <2>3. cash + position.cost + position.fee = Capital + SumOf(Results)
      BY <1>1 DEF Books
    <2>4. position'.cost = 0 /\ position'.fee = 0
      BY <1>6 DEF Flat
    <2>5. Capital \in Nat
      BY BacktestAssumption
    <2> DEFINE sum == SumOf(Results)
               sum2 == SumOf(Results)'
    <2>6. sum2 = sum + (g - f - position.cost) - position.fee /\ sum \in Int
      BY <2>1, <2>2
    <2>7. cash + position.cost + position.fee = Capital + sum
      BY <2>3
    <2> HIDE DEF sum, sum2
    <2>8. cash' + 0 + 0 = Capital + sum2
      <3> DEFINE cost == position.cost
                 fee == position.fee
      <3>1. /\ cost \in Int /\ fee \in Int /\ cash \in Int /\ sum \in Int /\ Capital \in Int
            /\ g \in Int /\ f \in Int
        BY <1>1, <1>3, <1>4, <2>5, <2>6
      <3>2. /\ sum2 = sum + (g - f - cost) - fee /\ cash + cost + fee = Capital + sum
            /\ cash' = cash + g - f
        BY <1>6, <2>6, <2>7
      <3> HIDE DEF cost, fee
      <3>3. QED
        BY <3>1, <3>2
    <2>9. QED
      BY <2>4, <2>8 DEF Books, sum2
  <1>10. /\ trades' \in Seq(Trades) /\ n \in Nat /\ Len(trades') = n + 1 /\ trades'[n + 1] = t
         /\ \A i \in 1..n : trades'[i] = trades[i]
    BY <1>1, <1>6, <1>7
  <1>11. trades' # <<>> /\ Last(trades') = t /\ t.closed = at /\ t.opened = position.at
    BY <1>5, <1>10 DEF Last
  <1>12. ASSUME NEW i \in DOMAIN trades' PROVE InOrder(i)'
    <2>1. i \in 1..(n + 1) /\ DOMAIN trades = 1..n
      BY <1>1, <1>10
    <2>2. ~Invested'
      BY <1>6 DEF Invested, Flat
    <2>3. CASE i \in 1..n
      <3>1. InOrder(i) /\ trades[i] \in Trades
        BY <1>1, <2>1, <2>3
      <3>2. trades'[i] = trades[i] /\ (i > 1 => trades'[i - 1] = trades[i - 1])
        <4>1. i > 1 => i - 1 \in 1..n
          BY <1>10, <2>3
        <4>2. QED
          BY <1>10, <2>3, <4>1
      <3>3. trades'[i].closed <= window'[2]
        <4>1. trades[i].closed <= window[2] /\ trades[i].closed \in Nat
          BY <3>1 DEF InOrder, Trades
        <4>2. QED
          BY <1>2, <3>2, <4>1
      <3>4. QED
        BY <2>2, <3>1, <3>2, <3>3 DEF InOrder
    <2>4. CASE i = n + 1
      <3>1. trades'[i] = t
        BY <1>10, <2>4
      <3>2. t.opened <= t.closed /\ t.closed <= window'[2]
        BY <1>2, <1>11
      <3>3. ASSUME i > 1 PROVE trades'[i - 1].closed < t.opened
        <4>1. i - 1 = n /\ n \in 1..n
          BY <1>10, <2>4, <3>3
        <4>2. InOrder(n) /\ trades'[n] = trades[n]
          BY <1>1, <1>10, <2>1, <4>1
        <4>3. trades[n].closed < position.at
          BY <4>2 DEF InOrder
        <4>4. QED
          BY <1>11, <4>1, <4>2, <4>3
      <3>4. QED
        BY <2>2, <3>1, <3>2, <3>3 DEF InOrder
    <2>5. QED
      BY <2>1, <2>3, <2>4
  <1>13. QED
    BY <1>6, <1>8, <1>9, <1>10, <1>11, <1>12

LEMMA BacktestNextIInv == BacktestIInv /\ [BacktestNext]_backtestVars => BacktestIInv'
  <1> SUFFICES ASSUME BacktestIInv, [BacktestNext]_backtestVars PROVE BacktestIInv'
    OBVIOUS
  <1>1. ASSUME NEW action \in {"buy", "sell", "hold"}, Step(action) PROVE BacktestIInv'
    <2>1. /\ reported = NotYet /\ HasWindow /\ UNCHANGED <<candles, reported>>
          /\ window' = WindowOf(NextEnd)
          /\ snapshots' = Append(snapshots, [worth |-> Worth(cash', position', Close),
                                             entry |-> position'.entry])
      BY <1>1 DEF Step
    <2>2. /\ position \in Positions /\ cash \in Nat /\ trades \in Seq(Trades) /\ Books
          /\ \A i \in DOMAIN trades : InOrder(i)
          /\ \/ position = Flat
             \/ Invested /\ position.entry > 0 /\ position.at \in 1..window[2]
      BY DEF BacktestIInv
    <2>3. /\ NextEnd \in Nat \ {0} /\ window[2] \in Nat /\ window[2] < NextEnd /\ window'[2] = NextEnd
          /\ Close \in Closes /\ Close \in Nat \ {0}
      BY <2>1, WindowMoves
    <2>4. CASE UNCHANGED <<position, cash, trades>>
      <3>1. \A i \in DOMAIN trades' : InOrder(i)'
        <4> SUFFICES ASSUME NEW i \in DOMAIN trades PROVE InOrder(i)'
          BY <2>4
        <4>1. InOrder(i) /\ trades[i] \in Trades
          BY <2>2
        <4>2. trades[i].closed <= window'[2]
          BY <2>3, <4>1 DEF InOrder, Trades
        <4>3. QED
          BY <2>4, <4>1, <4>2 DEF InOrder, Invested
      <3>2. Books'
        BY <2>2, <2>4 DEF Books, Results
      <3>3. \/ position' = Flat
            \/ Invested' /\ position'.entry > 0 /\ position'.at \in 1..NextEnd
        BY <2>2, <2>3, <2>4 DEF Invested
      <3>4. QED
        BY <2>1, <2>2, <2>4, <3>1, <3>2, <3>3, StepKeeps
    <2>5. CASE action = "buy" /\ ~Invested /\ Buys(Close) /\ UNCHANGED trades
      <3> DEFINE b == Bought(Close)
      <3>1. CASE b.cost > 0
        <4>1. position' = b /\ cash' = cash - b.cost - b.fee
          BY <2>5, <3>1 DEF Buys
        <4>2. /\ b \in [size : Nat \ {0}, entry : Nat \ {0}, cost : Nat, fee : Nat, at : Nat]
              /\ b.at = NextEnd /\ cash - b.cost - b.fee \in Nat
          BY <2>2, <2>3, <3>1, BoughtTypes
        <4> HIDE DEF b
        <4>3. b \in Positions /\ b.size > 0 /\ b.entry > 0 /\ b.cost \in Nat /\ b.fee \in Nat
          BY <4>2 DEF Positions
        <4>4. \A i \in DOMAIN trades' : InOrder(i)'
          <5> SUFFICES ASSUME NEW i \in DOMAIN trades PROVE InOrder(i)'
            BY <2>5
          <5>1. InOrder(i) /\ trades[i] \in Trades
            BY <2>2
          <5>2. trades[i].closed <= window'[2] /\ trades[i].closed < position'.at
            BY <2>3, <4>1, <4>2, <5>1 DEF InOrder, Trades
          <5>3. QED
            BY <2>5, <5>1, <5>2 DEF InOrder
        <4>5. Books'
          <5>1. position.cost = 0 /\ position.fee = 0
            BY <2>2, <2>5 DEF Flat
          <5>2. cash + 0 + 0 = Capital + SumOf(Results)
            BY <2>2, <5>1 DEF Books
          <5>3. Results' = Results
            BY <2>5 DEF Results
          <5> DEFINE sum == Capital + SumOf(Results)
          <5>4. Capital + SumOf(Results)' = sum
            BY <5>3
          <5>5. cash + 0 + 0 = sum
            BY <5>2
          <5> HIDE DEF sum
          <5>6. (cash - b.cost - b.fee) + b.cost + b.fee = sum
            BY <2>2, <4>3, <5>5
          <5>7. QED
            BY <4>1, <5>4, <5>6 DEF Books
        <4>6. cash' \in Nat /\ position' \in Positions /\ trades' \in Seq(Trades)
          BY <2>2, <2>5, <4>1, <4>2, <4>3
        <4>7. Invested' /\ position'.entry > 0 /\ position'.at \in 1..NextEnd
          BY <2>3, <4>1, <4>2, <4>3 DEF Invested
        <4>8. QED
          BY <2>1, <4>4, <4>5, <4>6, <4>7, StepKeeps
      <3>2. CASE ~(b.cost > 0)
        <4>1. UNCHANGED <<position, cash, trades>>
          BY <2>5, <3>2 DEF Buys
        <4>2. QED
          BY <2>4, <4>1
      <3>3. QED
        BY <3>1, <3>2
    <2>6. CASE action = "sell" /\ Invested /\ Sells(Close, NextEnd)
      <3>1. window[2] <= NextEnd /\ NextEnd \in Nat /\ NextEnd = window'[2] /\ NextEnd <= NextEnd
        BY <2>3
      <3> DEFINE at == NextEnd
      <3>2. window[2] <= at /\ at \in Nat /\ at = window'[2] /\ at <= at /\ Sells(Close, at)
        BY <2>6, <3>1
      <3> HIDE DEF at
      <3>3. /\ cash' \in Nat /\ position' = Flat /\ position' \in Positions /\ trades' \in Seq(Trades)
            /\ Books' /\ \A i \in DOMAIN trades' : InOrder(i)'
        BY <2>3, <2>6, <3>2, SaleKeeps
      <3>4. QED
        BY <2>1, <3>3, StepKeeps
    <2>7. QED
      BY <1>1, <2>4, <2>5, <2>6 DEF Step
  <1>2. CASE Finalize
    <2>1. /\ reported = NotYet /\ UNCHANGED <<candles, window, snapshots>>
          /\ reported' = [final |-> LastWorth, fall |-> MaxDrawdown(snapshots), wins |-> Wins(trades')]
      BY <1>2 DEF Finalize
    <2>2. /\ position \in Positions /\ cash \in Nat /\ trades \in Seq(Trades) /\ Books
          /\ \A i \in DOMAIN trades : InOrder(i)
          /\ snapshots \in Seq(Marks) /\ Shown /\ LastIsNow /\ candles \in Seq(Closes)
          /\ \/ position = Flat
             \/ Invested /\ position.entry > 0 /\ position.at \in 1..window[2] /\ snapshots # <<>>
      BY <2>1 DEF BacktestIInv
    <2>3. window[2] \in Nat
      BY WindowIsNat
    <2>4. reported'.final = LastWorth /\ reported'.fall = MaxDrawdown(snapshots)
      BY <2>1
    <2>5. LastWorth \in Nat
      <3>1. CASE snapshots = <<>>
        BY <3>1, BacktestAssumption DEF LastWorth
      <3>2. CASE snapshots # <<>>
        <4>1. Last(snapshots) \in Marks
          BY <2>2, <3>2 DEF Last
        <4>2. QED
          BY <3>2, <4>1 DEF LastWorth, Marks
      <3>3. QED
        BY <3>1, <3>2
    <2>6. reported' # NotYet
      BY <2>4, <2>5 DEF NotYet
    <2>7. Shown' \/ (window' = window /\ snapshots' = snapshots /\ snapshots = <<>>)
      BY <2>1, <2>2 DEF Shown
    <2>8. CASE Invested
      <3> DEFINE p == Last(snapshots).entry
                 at == window[2]
      <3>1. position # Flat
        BY <2>8 DEF Invested, Flat
      <3>2. snapshots # <<>> /\ p = position.entry /\ p > 0
        BY <2>2, <3>1 DEF LastIsNow
      <3>3. p \in Nat \ {0}
        BY <2>2, <3>2 DEF Positions
      <3>4. Sells(p, at)
        BY <1>2, <2>8 DEF Finalize
      <3>5. at \in Nat /\ window[2] <= at /\ at = window'[2] /\ at <= at
        BY <2>1, <2>3
      <3> HIDE DEF at, p
      <3>6. /\ cash' \in Nat /\ position' = Flat /\ position' \in Positions
            /\ trades' \in Seq(Trades) /\ trades' # <<>> /\ Last(trades').closed = at
            /\ Books' /\ \A i \in DOMAIN trades' : InOrder(i)'
        BY <2>8, <3>3, <3>4, <3>5, SaleKeeps
      <3>7. ClosedByReport'
        BY <2>1, <3>2, <3>6 DEF ClosedByReport, at, p
      <3>8. ReportIsRight'
        BY <2>1, <2>4, <3>7 DEF ReportIsRight
      <3>9. Shown'
        BY <2>1, <2>2, <3>2 DEF Shown
      <3>10. candles' \in Seq(Closes) /\ snapshots' \in Seq(Marks)
        BY <2>1, <2>2
      <3>11. QED
        BY <2>6, <3>6, <3>8, <3>9, <3>10 DEF BacktestIInv
    <2>9. CASE ~Invested
      <3>1. UNCHANGED <<position, cash, trades>>
        BY <1>2, <2>9 DEF Finalize
      <3>2. position = Flat
        BY <2>2, <2>9
      <3>3. LastWorth = cash
        BY <2>2, <3>2 DEF LastWorth, LastIsNow, Shown
      <3>4. ReportIsRight'
        BY <2>1, <2>4, <3>1, <3>3 DEF ReportIsRight
      <3>5. Shown' /\ Books'
        BY <2>1, <2>2, <3>1 DEF Shown, Books, Results
      <3>6. \A i \in DOMAIN trades' : InOrder(i)'
        BY <2>1, <2>2, <3>1 DEF InOrder, Invested
      <3>7. candles' \in Seq(Closes) /\ snapshots' \in Seq(Marks) /\ cash' \in Nat
            /\ position' \in Positions /\ trades' \in Seq(Trades) /\ position' = Flat
        BY <2>1, <2>2, <3>1, <3>2
      <3>8. QED
        BY <2>6, <3>4, <3>5, <3>6, <3>7 DEF BacktestIInv
    <2>10. QED
      BY <2>8, <2>9
  <1>3. CASE UNCHANGED backtestVars
    <2>1. UNCHANGED <<candles, window, cash, position, trades, snapshots, reported>>
      BY <1>3 DEF backtestVars
    <2>2. Shown' /\ Books' /\ (LastIsNow' <=> LastIsNow) /\ (ReportIsRight' <=> ReportIsRight)
      BY <2>1 DEF BacktestIInv, Shown, Books, Results, LastIsNow, ReportIsRight, ClosedByReport
    <2>3. \A i \in DOMAIN trades' : InOrder(i)'
      BY <2>1 DEF BacktestIInv, InOrder, Invested
    <2>4. QED
      BY <2>1, <2>2, <2>3 DEF BacktestIInv, Invested
  <1>4. QED
    BY <1>1, <1>2, <1>3 DEF BacktestNext

(* In every backtest the books balance, the trades follow one another and  *)
(* end before the open position began, and the last snapshot shows the     *)
(* portfolio as it is until the report closes it.                          *)
THEOREM BacktestInvariant == BacktestSpec => []BacktestIInv
  BY BacktestInitIInv, BacktestNextIInv, PTL DEF BacktestSpec

(* Every backtest is honest, whatever the candles, the strategy and the    *)
(* capital: no decision sees a later candle, the cash and the cost of the  *)
(* position are the capital and the results of the trades, and the one     *)
(* pass over the equity finds its deepest fall.                            *)
THEOREM BacktestTruth == BacktestSpec => []BacktestIsHonest
  BY BacktestInvariant, InvariantIsHonest, PTL

-----------------------------------------------------------------------------
(* The decision engine.                                                    *)

(* What holds of a sum of numbers: it has the sign of one of them, and     *)
(* lies between nought and so many times the greatest.                     *)
LEMMA SumHasSign ==
  ASSUME NEW T, IsFiniteSet(T), NEW f, \A x \in T : f[x] \in Int
  PROVE  /\ SumOver(f, T) > 0 => \E x \in T : f[x] > 0
         /\ SumOver(f, T) < 0 => \E x \in T : f[x] < 0
  <1>1. PICK run : Adds(T, f, run) /\ SumOver(f, T) = run[T]
    BY SumAdds
  <1> DEFINE Good == {s \in SUBSET T : /\ run[s] \in Int
                                       /\ run[s] > 0 => \E x \in s : f[x] > 0
                                       /\ run[s] < 0 => \E x \in s : f[x] < 0}
  <1>2. {} \in Good
    BY <1>1 DEF Adds
  <1>3. ASSUME NEW s \in SUBSET T, s # {}, s \ {Pick(s)} \in Good PROVE s \in Good
    <2> DEFINE r == s \ {Pick(s)}
               x == Pick(s)
    <2>1. x \in s /\ x \in T
      BY <1>3 DEF Pick
    <2>2. run[s] = f[x] + run[r]
      BY <1>1, <1>3 DEF Adds
    <2>3. /\ run[r] \in Int
          /\ run[r] > 0 => \E y \in r : f[y] > 0
          /\ run[r] < 0 => \E y \in r : f[y] < 0
      BY <1>3
    <2>4. r \subseteq s /\ f[x] \in Int
      BY <2>1
    <2> HIDE DEF r, x
    <2>5. run[s] > 0 => f[x] > 0 \/ run[r] > 0
      BY <2>2, <2>3, <2>4
    <2>6. run[s] < 0 => f[x] < 0 \/ run[r] < 0
      BY <2>2, <2>3, <2>4
    <2>7. run[s] \in Int
      BY <2>2, <2>3, <2>4
    <2>8. QED
      BY <2>1, <2>3, <2>4, <2>5, <2>6, <2>7
  <1> HIDE DEF Good
  <1>4. \A s \in SUBSET T : s \in Good
    BY <1>2, <1>3, ByParts
  <1>5. T \in Good
    BY <1>4
  <1>6. QED
    BY <1>1, <1>5 DEF Good

LEMMA SumIsBounded ==
  ASSUME NEW T, IsFiniteSet(T), NEW m \in Nat, NEW f, \A x \in T : f[x] \in 0..m
  PROVE  SumOver(f, T) \in 0..(m * Cardinality(T))
  <1>1. PICK run : Adds(T, f, run) /\ SumOver(f, T) = run[T]
    BY SumAdds
  <1> DEFINE Good == {s \in SUBSET T : run[s] \in 0..(m * Cardinality(s))}
  <1>2. {} \in Good
    BY <1>1, FS_EmptySet DEF Adds
  <1>3. ASSUME NEW s \in SUBSET T, s # {}, s \ {Pick(s)} \in Good PROVE s \in Good
    <2> DEFINE r == s \ {Pick(s)}
               x == Pick(s)
               c == Cardinality(s)
               d == Cardinality(r)
    <2>1. x \in s /\ x \in T
      BY <1>3 DEF Pick
    <2>2. run[s] = f[x] + run[r]
      BY <1>1, <1>3 DEF Adds
    <2>3. run[r] \in 0..(m * d)
      BY <1>3
    <2>4. IsFiniteSet(s)
      BY FS_Subset
    <2>5. c \in Nat /\ d = c - 1
      BY <2>1, <2>4, FS_RemoveElement, FS_CardinalityType
    <2> HIDE DEF r, x, c, d
    <2>6. m * c = m * d + m /\ m * d \in Int /\ m * c \in Int
      <3>1. \A n \in Int : m * n = m * (n - 1) + m /\ m * n \in Int /\ m * (n - 1) \in Int
        OBVIOUS
      <3>2. QED
        BY <2>5, <3>1
    <2>7. run[s] \in 0..(m * c)
      BY <2>1, <2>2, <2>3, <2>6
    <2>8. QED
      BY <2>7 DEF c
  <1> HIDE DEF Good
  <1>4. \A s \in SUBSET T : s \in Good
    BY <1>2, <1>3, ByParts
  <1>5. T \in Good
    BY <1>4
  <1>6. QED
    BY <1>1, <1>5 DEF Good

\* A finite set of numbers has a greatest one.
LEMMA Greatest ==
  ASSUME NEW T, IsFiniteSet(T), T \subseteq Int, T # {}
  PROVE  \E x \in T : \A y \in T : y <= x
  <1> DEFINE Good == {s \in SUBSET T : s # {} => \E x \in s : \A y \in s : y <= x}
  <1>1. {} \in Good
    OBVIOUS
  <1>2. ASSUME NEW s \in SUBSET T, s # {}, s \ {Pick(s)} \in Good PROVE s \in Good
    <2> DEFINE r == s \ {Pick(s)}
    <2>1. Pick(s) \in s
      BY <1>2 DEF Pick
    <2>2. CASE r = {}
      <3>1. \A y \in s : y = Pick(s)
        BY <2>2
      <3>2. \A y \in s : y <= Pick(s)
        BY <3>1
      <3>3. QED
        BY <2>1, <3>2
    <2>3. CASE r # {}
      <3>1. PICK x \in r : \A y \in r : y <= x
        BY <1>2, <2>3
      <3>2. \A y \in s : y = Pick(s) \/ y <= x
        BY <3>1
      <3>3. x \in Int /\ Pick(s) \in Int /\ x \in s
        BY <2>1
      <3>4. CASE Pick(s) <= x
        BY <3>2, <3>3, <3>4
      <3>5. CASE x <= Pick(s)
        <4>1. \A y \in s : y <= Pick(s)
          BY <3>2, <3>3, <3>5
        <4>2. QED
          BY <2>1, <4>1
      <3>6. QED
        BY <3>3, <3>4, <3>5
    <2>4. QED
      BY <2>2, <2>3
  <1> HIDE DEF Good
  <1>3. \A s \in SUBSET T : s \in Good
    BY <1>1, <1>2, ByParts
  <1>4. QED
    BY <1>3 DEF Good

-----------------------------------------------------------------------------
\* What the engine keeps: signals with a confidence between nought and one.
KeptSignals ==
  {s \in SignalRecord : s.confidence \in 0..100}

Normals(q) == [i \in DOMAIN q |-> Normalized(q[i])]

LEMMA NormalTypes ==
  ASSUME NEW s \in SignalRecord
  PROVE  /\ Normalized(s) \in KeptSignals
         /\ Normalized(s).market = s.market /\ Normalized(s).source = s.source
         /\ Normalized(s).at = s.at
  <1> DEFINE c == IF s.confidence < 0 THEN 0 ELSE IF s.confidence > 100 THEN 100 ELSE s.confidence
  <1>1. c \in 0..100
    BY DEF SignalRecord
  <1>2. Normalized(s) = [s EXCEPT !.confidence = c]
    BY DEF Normalized
  <1> HIDE DEF c
  <1>3. QED
    BY <1>1, <1>2 DEF KeptSignals, SignalRecord

\* The signals kept are finitely many of those given, and at least one of any.
LEMMA SignalsOfAnalysis ==
  ASSUME NEW q \in Seq(KeptSignals)
  PROVE  /\ IsFiniteSet(Signals(q)) /\ Signals(q) \subseteq KeptSignals
         /\ q # <<>> => Signals(q) # {}
  <1>1. IsFiniteSet(DOMAIN q) /\ \A i \in DOMAIN q : q[i] \in KeptSignals /\ q[i].at \in Int
    BY FS_Interval DEF KeptSignals, SignalRecord
  <1>2. IsFiniteSet(Kept(q)) /\ Kept(q) \subseteq DOMAIN q
    BY <1>1, FS_Subset DEF Kept
  <1>3. IsFiniteSet(Signals(q))
    <2> DEFINE f == [i \in Kept(q) |-> q[i]]
    <2>1. f \in Surjection(Kept(q), Signals(q))
      BY DEF Surjection, Signals
    <2>2. QED
      BY <1>2, <2>1, FS_Surjection
  <1>4. Signals(q) \subseteq KeptSignals
    BY <1>1, <1>2 DEF Signals
  <1>5. ASSUME q # <<>> PROVE Signals(q) # {}
    <2> DEFINE Times == {q[i].at : i \in DOMAIN q}
    <2>1. DOMAIN q # {}
      <3>1. Len(q) \in Nat /\ Len(q) # 0 /\ DOMAIN q = 1..Len(q)
        BY <1>5
      <3>2. 1 \in DOMAIN q
        BY <3>1
      <3>3. QED
        BY <3>2
    <2>2. Times # {} /\ Times \subseteq Int
      BY <1>1, <2>1
    <2>3. IsFiniteSet(Times)
      <3> DEFINE f == [i \in DOMAIN q |-> q[i].at]
      <3>1. f \in Surjection(DOMAIN q, Times)
        BY DEF Surjection
      <3> HIDE DEF f, Times
      <3>2. QED
        BY <1>1, <3>1, FS_Surjection
    <2>4. PICK t \in Times : \A u \in Times : u <= t
      <3> HIDE DEF Times
      <3>1. QED
        BY <2>2, <2>3, Greatest
    <2> DEFINE Latest == {i \in DOMAIN q : q[i].at = t}
    <2>5. Latest # {} /\ Latest \subseteq Nat
      BY <2>4
    <2>6. PICK i \in Latest : \A j \in Latest : i <= j
      <3> HIDE DEF Latest
      <3>1. QED
        BY <2>5, LeastNat
    <2>7. i \in DOMAIN q /\ q[i].at = t /\ t \in Int
      BY <2>2, <2>6
    <2>8. ASSUME NEW j \in DOMAIN q PROVE q[j].at < q[i].at \/ (q[j].at = q[i].at /\ i <= j)
      <3>1. q[j].at \in Int /\ q[j].at <= t
        BY <1>1, <2>4
      <3>2. CASE q[j].at = t
        BY <2>6, <2>7, <3>2
      <3>3. CASE q[j].at < t
        BY <2>7, <3>3
      <3>4. QED
        BY <2>7, <3>1, <3>2, <3>3
    <2>9. i \in Kept(q)
      BY <2>7, <2>8 DEF Kept
    <2>10. QED
      BY <2>9 DEF Signals
  <1>6. QED
    BY <1>3, <1>4, <1>5

\* Two signals that change places change nothing when no two of a key tie.
LEMMA SwapKeeps ==
  ASSUME NEW q, NEW i \in DOMAIN q, NEW j \in DOMAIN q, DOMAIN q \subseteq Int,
         \A k \in DOMAIN q : q[k].at \in Int,
         \A k, l \in DOMAIN q : Same(q[k], q[l]) /\ q[k].at = q[l].at => k = l
  PROVE  Signals([q EXCEPT ![i] = q[j], ![j] = q[i]]) = Signals(q)
  <1> DEFINE p == [k \in DOMAIN q |-> IF k = j THEN i ELSE IF k = i THEN j ELSE k]
             r == [q EXCEPT ![i] = q[j], ![j] = q[i]]
  <1>1. /\ DOMAIN r = DOMAIN q
        /\ \A k \in DOMAIN q : p[k] \in DOMAIN q /\ p[p[k]] = k /\ r[k] = q[p[k]]
    OBVIOUS
  <1> HIDE DEF p, r
  <1>2. ASSUME NEW k \in DOMAIN q
        PROVE  k \in Kept(q) <=> \A l \in DOMAIN q : Same(q[k], q[l]) => q[l].at < q[k].at \/ l = k
    BY DEF Kept
  <1>3. ASSUME NEW k \in DOMAIN q
        PROVE  k \in Kept(r) <=>
                 \A l \in DOMAIN q : Same(q[p[k]], q[p[l]]) => q[p[l]].at < q[p[k]].at \/ l = k
    <2>1. \A l \in DOMAIN q :
            Same(q[p[k]], q[p[l]]) /\ q[p[l]].at = q[p[k]].at => p[l] = p[k]
      BY <1>1
    <2>2. \A l \in DOMAIN q : p[l] = p[k] => l = k
      BY <1>1
    <2>3. /\ k \in Kept(r) <=>
                \A l \in DOMAIN q : Same(q[p[k]], q[p[l]]) =>
                  q[p[l]].at < q[p[k]].at \/ (q[p[l]].at = q[p[k]].at /\ k <= l)
          /\ k <= k
      BY <1>1 DEF Kept
    <2>4. \A l \in DOMAIN q : Same(q[p[k]], q[p[l]]) =>
            (q[p[l]].at = q[p[k]].at /\ k <= l <=> l = k)
      BY <2>1, <2>2, <2>3
    <2>5. QED
      BY <2>1, <2>2, <2>3, <2>4
  <1>4. ASSUME NEW k \in DOMAIN q PROVE k \in Kept(r) <=> p[k] \in Kept(q)
    <2>1. p[k] \in DOMAIN q
      BY <1>1
    <2>2. ASSUME k \in Kept(r), NEW l \in DOMAIN q, Same(q[p[k]], q[l])
          PROVE  q[l].at < q[p[k]].at \/ l = p[k]
      <3>1. p[l] \in DOMAIN q /\ p[p[l]] = l
        BY <1>1
      <3>2. q[l].at < q[p[k]].at \/ p[l] = k
        BY <1>3, <2>2, <3>1
      <3>3. QED
        BY <3>1, <3>2
    <2>3. ASSUME p[k] \in Kept(q), NEW l \in DOMAIN q, Same(q[p[k]], q[p[l]])
          PROVE  q[p[l]].at < q[p[k]].at \/ l = k
      <3>1. p[l] \in DOMAIN q /\ p[p[l]] = l /\ p[p[k]] = k
        BY <1>1
      <3>2. q[p[l]].at < q[p[k]].at \/ p[l] = p[k]
        BY <1>2, <2>1, <2>3, <3>1
      <3>3. QED
        BY <3>1, <3>2
    <2>4. QED
      BY <1>2, <1>3, <2>1, <2>2, <2>3
  <1>5. Kept(q) \subseteq DOMAIN q /\ Kept(r) \subseteq DOMAIN q
    BY <1>1 DEF Kept
  <1>6. ASSUME NEW s \in Signals(r) PROVE s \in Signals(q)
    <2>1. PICK k \in Kept(r) : s = r[k]
      BY DEF Signals
    <2>2. k \in DOMAIN q /\ p[k] \in Kept(q) /\ s = q[p[k]]
      BY <1>1, <1>4, <1>5, <2>1
    <2>3. QED
      BY <2>2 DEF Signals
  <1>7. ASSUME NEW s \in Signals(q) PROVE s \in Signals(r)
    <2>1. PICK k \in Kept(q) : s = q[k]
      BY DEF Signals
    <2>2. k \in DOMAIN q /\ p[k] \in DOMAIN q /\ p[p[k]] = k
      BY <1>1, <1>5
    <2>3. p[k] \in Kept(r) /\ s = r[p[k]]
      BY <1>1, <1>4, <2>1, <2>2
    <2>4. QED
      BY <2>3 DEF Signals
  <1>8. Signals(r) = Signals(q)
    BY <1>6, <1>7
  <1>9. QED
    BY <1>8 DEF r

-----------------------------------------------------------------------------
\* The priorities of the alpha signals make a score no smaller, and keep its sign.
LEMMA BoostIsPositive ==
  ASSUME NEW K, IsFiniteSet(K)
  PROVE  Boost(K) \in Int /\ Boost(K) >= 100
  <1> DEFINE V == {n \in Int : n >= 100}
             Eq(g) == g = [s \in SUBSET K |->
                             IF s = {} THEN 100 ELSE (g[s \ {Pick(s)}] * BoostOf(Pick(s))) \div 100]
             iter == CHOOSE g : Eq(g)
             step == [p \in K \X V |-> (p[2] * BoostOf(p[1])) \div 100]
             pick == [s \in SUBSET K |-> Pick(s)]
  <1>1. Boost(K) = iter[K]
    BY DEF Boost, FoldSet, MapThenFoldSet, Pick
  <1>2. ASSUME NEW x \in K, NEW y \in V PROVE (y * BoostOf(x)) \div 100 \in V
    <2>1. BoostOf(x) \in {150, 120, 100}
      BY DEF BoostOf
    <2>2. y * 150 >= 100 * 100 /\ y * 120 >= 100 * 100 /\ y * 100 >= 100 * 100
      OBVIOUS
    <2>3. \A z \in Int : z >= 100 * 100 => z \div 100 \in Int /\ z \div 100 >= 100
      OBVIOUS
    <2>4. QED
      BY <2>1, <2>2, <2>3
  <1>3. step \in [K \X V -> V] /\ \A x \in K, y \in V : step[<<x, y>>] = (y * BoostOf(x)) \div 100
    BY <1>2
  <1>4. \A s \in SUBSET K : s # {} => Pick(s) \in s
    BY DEF Pick
  <1>5. Picks(K, pick) /\ \A s \in SUBSET K : pick[s] = Pick(s)
    BY <1>4 DEF Picks
  <1>6. 100 \in V
    OBVIOUS
  <1> HIDE DEF step, pick, Eq, iter, V
  <1>7. HasFold(K, V, 100, step, pick)
    BY <1>3, <1>5, <1>6, FoldExists
  <1>8. PICK g \in [SUBSET K -> V] : \A s \in SUBSET K : g[s] = FoldStep(g, 100, step, pick, s)
    BY <1>7 DEF HasFold
  <1>9. ASSUME NEW s \in SUBSET K
        PROVE  g[s] = IF s = {} THEN 100 ELSE (g[s \ {Pick(s)}] * BoostOf(Pick(s))) \div 100
    <2>1. CASE s = {}
      BY <1>8, <2>1 DEF FoldStep
    <2>2. CASE s # {}
      <3>1. Pick(s) \in K /\ g[s \ {Pick(s)}] \in V
        BY <1>4, <1>8, <2>2
      <3>2. g[s] = step[<<Pick(s), g[s \ {Pick(s)}]>>]
        BY <1>5, <1>8, <2>2 DEF FoldStep
      <3>3. QED
        BY <1>3, <2>2, <3>1, <3>2
    <2>3. QED
      BY <2>1, <2>2
  <1>10. Eq(g)
    BY <1>8, <1>9 DEF Eq
  <1>11. Eq(iter)
    BY <1>10 DEF iter
  <1> DEFINE Good == {s \in SUBSET K : iter[s] \in V}
  <1>12. {} \in Good
    BY <1>6, <1>11 DEF Eq
  <1>13. ASSUME NEW s \in SUBSET K, s # {}, s \ {Pick(s)} \in Good PROVE s \in Good
    <2>1. Pick(s) \in K /\ iter[s \ {Pick(s)}] \in V
      BY <1>4, <1>13
    <2>2. iter[s] = (iter[s \ {Pick(s)}] * BoostOf(Pick(s))) \div 100
      BY <1>11, <1>13 DEF Eq
    <2>3. iter[s] \in V
      BY <1>2, <2>1, <2>2 DEF V
    <2>4. QED
      BY <2>3
  <1> HIDE DEF Good
  <1>14. \A s \in SUBSET K : s \in Good
    BY <1>12, <1>13, ByParts
  <1>15. K \in Good
    BY <1>14
  <1>16. iter[K] \in V
    BY <1>15 DEF Good
  <1>17. QED
    BY <1>1, <1>16 DEF V

\* A source's score has the sign that one of its signals argues for.
LEMMA SourceHasASign ==
  ASSUME NEW K, IsFiniteSet(K), K \subseteq KeptSignals, NEW source \in SourcesOf(K)
  PROVE  /\ SourceScore(K, source) \in Int
         /\ SourceScore(K, source) > 0 => \E s \in K : s.action = "buy"
         /\ SourceScore(K, source) < 0 => \E s \in K : s.action = "sell"
  <1> DEFINE own == {s \in K : s.source = source}
             f == [s \in own |-> Direction(s) * s.confidence]
             sum == SumOver(f, own)
             n == Cardinality(own)
             b == IF source = "alpha" THEN Boost(own) ELSE 100
             mean == (sum * 60) \div n
  <1>1. IsFiniteSet(own) /\ own # {}
    BY FS_Subset DEF SourcesOf
  <1>2. n \in Nat \ {0}
    BY <1>1, FS_EmptySet, FS_CardinalityType
  <1>3. ASSUME NEW s \in own
        PROVE  /\ f[s] \in Int
               /\ f[s] > 0 => s.action = "buy"
               /\ f[s] < 0 => s.action = "sell"
    <2>1. s.confidence \in 0..100 /\ s.action \in {"buy", "sell", "hold"}
      BY DEF KeptSignals, SignalRecord
    <2>2. CASE s.action = "buy"
      BY <2>1, <2>2 DEF Direction
    <2>3. CASE s.action = "sell"
      BY <2>1, <2>3 DEF Direction
    <2>4. CASE s.action = "hold"
      BY <2>1, <2>4 DEF Direction
    <2>5. QED
      BY <2>1, <2>2, <2>3, <2>4
  <1> HIDE DEF f
  <1>4. sum \in Int
    BY <1>1, <1>3, SumIsInt
  <1>5. /\ sum > 0 => \E s \in own : f[s] > 0
        /\ sum < 0 => \E s \in own : f[s] < 0
    BY <1>1, <1>3, SumHasSign
  <1>6. b \in Int /\ b >= 100
    BY <1>1, BoostIsPositive
  <1>7. SourceScore(K, source) = mean * b
    BY DEF SourceScore, f
  <1> HIDE DEF own, sum, n, b
  <1>8. /\ mean \in Int
        /\ mean > 0 => sum > 0
        /\ mean < 0 => sum < 0
    <2>1. \A x \in Int, m \in Nat \ {0} :
            x \div m \in Int /\ (x <= 0 => x \div m <= 0) /\ (x >= 0 => x \div m >= 0)
      OBVIOUS
    <2>2. sum * 60 \in Int /\ (sum <= 0 => sum * 60 <= 0) /\ (sum >= 0 => sum * 60 >= 0)
      BY <1>4
    <2>3. QED
      BY <1>2, <1>4, <2>1, <2>2
  <1> HIDE DEF mean
  <1>9. mean * b \in Int /\ (mean * b > 0 => mean > 0) /\ (mean * b < 0 => mean < 0)
    <2>1. \A x, y \in Int : y >= 100 =>
            x * y \in Int /\ (x <= 0 => x * y <= 0) /\ (x >= 0 => x * y >= 0)
      OBVIOUS
    <2>2. QED
      BY <1>6, <1>8, <2>1
  <1>10. \A s \in own : s \in K
    BY DEF own
  <1>11. QED
    BY <1>3, <1>5, <1>7, <1>8, <1>9, <1>10

\* The engine decides in a direction that a signal argues for.
LEMMA DecisionIsArguedFor ==
  ASSUME NEW K, IsFiniteSet(K), K \subseteq KeptSignals
  PROVE  /\ MakeDecision(K) \in {"buy", "sell", "hold"}
         /\ MakeDecision(K) # "hold" => \E s \in K : s.action = MakeDecision(K)
  <1> DEFINE S == SourcesOf(K)
             w == [src \in S |-> Weight(src)]
             f == [src \in S |-> Weight(src) * SourceScore(K, src)]
             total == TotalWeight(K)
             sum == WeightedSum(K)
             unit == UnitScore \div 100
  <1>1. IsFiniteSet(S)
    <2> DEFINE g == [s \in K |-> s.source]
    <2>1. g \in Surjection(K, S)
      BY DEF Surjection, SourcesOf
    <2> HIDE DEF g
    <2>2. QED
      BY <2>1, FS_Surjection
  <1>2. ASSUME NEW src \in S PROVE Weight(src) \in 5..30
    BY DEF Weight
  <1>3. ASSUME NEW src \in S
        PROVE  /\ f[src] \in Int
               /\ f[src] > 0 => \E s \in K : s.action = "buy"
               /\ f[src] < 0 => \E s \in K : s.action = "sell"
    <2>1. f[src] = Weight(src) * SourceScore(K, src)
      OBVIOUS
    <2>2. Weight(src) \in 5..30
      BY <1>2
    <2>3. /\ SourceScore(K, src) \in Int
          /\ SourceScore(K, src) > 0 => \E s \in K : s.action = "buy"
          /\ SourceScore(K, src) < 0 => \E s \in K : s.action = "sell"
      BY SourceHasASign
    <2>4. \A x \in 5..30, y \in Int :
            x * y \in Int /\ (y <= 0 => x * y <= 0) /\ (y >= 0 => x * y >= 0)
      OBVIOUS
    <2> HIDE DEF f
    <2>5. QED
      BY <2>1, <2>2, <2>3, <2>4
  <1>4. \A src \in S : w[src] \in 0..30
    BY <1>2
  <1>5. total \in Nat
    <2>1. total = SumOver(w, S)
      BY DEF TotalWeight
    <2> HIDE DEF w, S, total
    <2>2. SumOver(w, S) \in 0..(30 * Cardinality(S))
      BY <1>1, <1>4, SumIsBounded
    <2>3. QED
      BY <2>1, <2>2
  <1>6. /\ sum \in Int
        /\ sum > 0 => \E src \in S : f[src] > 0
        /\ sum < 0 => \E src \in S : f[src] < 0
    <2>1. sum = SumOver(f, S)
      BY DEF WeightedSum
    <2> HIDE DEF f, S, sum
    <2>2. QED
      BY <1>1, <1>3, <2>1, SumIsInt, SumHasSign
  <1>7. unit \in Nat
    BY DEF UnitScore
  <1>8. total * 60 * unit >= 0 /\ total * (-60) * unit <= 0
    <2>1. \A x, y \in Nat : x * 60 * y >= 0 /\ x * (-60) * y <= 0
      OBVIOUS
    <2> HIDE DEF total, unit
    <2>2. QED
      BY <1>5, <1>7, <2>1
  <1>9. Exceeds(K, 60) => sum > 0
    <2>1. Exceeds(K, 60) => sum > total * 60 * unit
      BY DEF Exceeds
    <2>2. total * 60 * unit \in Int
      <3> HIDE DEF total, unit
      <3>1. QED
        BY <1>5, <1>7
    <2> HIDE DEF sum, total, unit
    <2>3. QED
      BY <1>6, <1>8, <2>1, <2>2
  <1>10. FallsBelow(K, -60) => sum < 0
    <2>1. FallsBelow(K, -60) => sum < total * (-60) * unit
      BY DEF FallsBelow
    <2>2. total * (-60) * unit \in Int
      <3> HIDE DEF total, unit
      <3>1. QED
        BY <1>5, <1>7
    <2> HIDE DEF sum, total, unit
    <2>3. QED
      BY <1>6, <1>8, <2>1, <2>2
  <1> HIDE DEF sum, f, S
  <1>11. Exceeds(K, 60) => \E s \in K : s.action = "buy"
    BY <1>3, <1>6, <1>9
  <1>12. FallsBelow(K, -60) => \E s \in K : s.action = "sell"
    BY <1>3, <1>6, <1>10
  <1>13. \/ Exceeds(K, 60) /\ MakeDecision(K) = "buy"
         \/ FallsBelow(K, -60) /\ MakeDecision(K) = "sell"
         \/ MakeDecision(K) = "hold"
    <2>1. CASE Exceeds(K, 60) /\ FallsBelow(K, -60)
      BY <1>6, <1>9, <1>10, <2>1
    <2>2. CASE ~(Exceeds(K, 60) /\ FallsBelow(K, -60))
      BY <2>2 DEF MakeDecision
    <2>3. QED
      BY <2>1, <2>2
  <1>14. QED
    BY <1>11, <1>12, <1>13

-----------------------------------------------------------------------------
\* The confidence of a decision lies between nought and one, bonus and all.
LEMMA ConfidenceIsBounded ==
  ASSUME NEW K, IsFiniteSet(K), K \subseteq KeptSignals, K # {}
  PROVE  Confidence(K) \in 0..(100 * 60)
  <1> DEFINE f == [s \in K |-> s.confidence]
             sum == SumOver(f, K)
             n == Cardinality(K)
             mean == (sum * 60) \div n
             raised == Min({mean + 15 * 60, 95 * 60})
  <1>1. n \in Nat \ {0}
    BY FS_EmptySet, FS_CardinalityType
  <1>2. \A s \in K : f[s] \in 0..100
    BY DEF KeptSignals
  <1> HIDE DEF f
  <1>3. sum \in 0..(100 * n)
    <2>1. 100 \in Nat
      OBVIOUS
    <2>2. QED
      BY <1>2, <2>1, SumIsBounded
  <1>4. Confidence(K) \in {mean, raised}
    BY DEF Confidence, MeanConfidence, f
  <1> HIDE DEF sum, n
  <1>5. mean \in Nat /\ mean <= 6000
    <2>1. sum \in Nat /\ sum * 60 \in Nat /\ sum * 60 <= 6000 * n
      BY <1>1, <1>3
    <2>2. \A x \in Nat, m \in Nat \ {0} : x <= 6000 * m => x \div m \in Nat /\ x \div m <= 6000
      <3> SUFFICES ASSUME NEW x \in Nat, NEW m \in Nat \ {0}, x <= 6000 * m
                   PROVE  x \div m \in Nat /\ x \div m <= 6000
        OBVIOUS
      <3> DEFINE d == x \div m
      <3>1. d \in Nat /\ (m * d) + (x % m) = x /\ x % m \in Nat
        <4>1. d \in Nat /\ x % m \in 0..(m - 1)
          OBVIOUS
        <4>2. x = (m * d) + (x % m)
          OBVIOUS
        <4>3. QED
          BY <4>1, <4>2
      <3> HIDE DEF d
      <3>2. m * d <= 6000 * m
        <4>1. m * d \in Int
          BY <3>1
        <4>2. QED
          BY <3>1, <4>1
      <3>3. d <= 6000
        <4>1. ASSUME d >= 6001 PROVE FALSE
          <5>1. \A y \in Nat : y >= 6001 => m * y >= m * 6001
            OBVIOUS
          <5>2. QED
            BY <3>1, <3>2, <4>1, <5>1
        <4>2. QED
          BY <3>1, <4>1
      <3>4. QED
        BY <3>1, <3>3 DEF d
    <2>3. QED
      BY <1>1, <2>1, <2>2
  <1> HIDE DEF mean
  <1>6. raised \in Nat /\ raised <= 6000
    <2>1. {mean + 900, 5700} \subseteq Nat
      BY <1>5
    <2>2. raised \in {mean + 900, 5700} /\ \A y \in {mean + 900, 5700} : raised <= y
      <3>1. \E x \in {mean + 900, 5700} : \A y \in {mean + 900, 5700} : x <= y
        BY <2>1, LeastNat
      <3>2. raised = Min({mean + 900, 5700})
        OBVIOUS
      <3>3. QED
        BY <3>1, <3>2 DEF Min
    <2> HIDE DEF raised
    <2>3. raised <= 5700 /\ raised \in Nat
      BY <2>1, <2>2
    <2>4. QED
      BY <2>3
  <1> HIDE DEF raised
  <1>7. Confidence(K) = mean \/ Confidence(K) = raised
    BY <1>4
  <1>8. Confidence(K) \in Nat /\ Confidence(K) <= 6000
    BY <1>5, <1>6, <1>7
  <1>9. 100 * 60 \in Nat /\ Confidence(K) <= 100 * 60
    BY <1>8
  <1> DEFINE c == Confidence(K)
             top == 100 * 60
  <1> HIDE DEF c, top
  <1>10. \A m : m \in Nat /\ c \in Nat /\ c <= m => c \in 0..m
    OBVIOUS
  <1>11. c \in 0..top
    <2>1. top \in Nat /\ c \in Nat /\ c <= top
      BY <1>8, <1>9 DEF c, top
    <2>2. QED
      BY <1>10, <2>1
  <1>12. QED
    BY <1>11 DEF c, top

-----------------------------------------------------------------------------
(* The inductive invariant: the decision is the one that follows from the  *)
(* signals of the last analysis, and the rows are of no other.             *)
EngineIInv ==
  /\ given \in Seq(SignalRecord) /\ Len(given) <= MaxSignals
  /\ chosen = Decision(given)
  /\ rows \in [signals : 0..Len(given), decision : BOOLEAN]
  /\ rows.decision => rows.signals = Len(given)
  /\ handed \in BOOLEAN /\ session \in {"good", "broken"}

LEMMA EngineInitIInv == EngineInit => EngineIInv
  <1> SUFFICES ASSUME EngineInit PROVE EngineIInv
    OBVIOUS
  <1>1. given \in Seq(SignalRecord) /\ Len(given) = 0
    BY DEF EngineInit
  <1>2. chosen = Decision(given)
    BY DEF EngineInit, Decision
  <1>3. rows \in [signals : 0..Len(given), decision : BOOLEAN] /\ ~rows.decision
    BY <1>1 DEF EngineInit
  <1>4. handed \in BOOLEAN /\ session \in {"good", "broken"}
    BY DEF EngineInit
  <1>5. QED
    BY <1>1, <1>2, <1>3, <1>4, EngineAssumption DEF EngineIInv

LEMMA EngineNextIInv == EngineIInv /\ [EngineNext]_engineVars => EngineIInv'
  <1> SUFFICES ASSUME EngineIInv, [EngineNext]_engineVars PROVE EngineIInv'
    OBVIOUS
  <1>1. ASSUME NEW k \in 0..MaxSignals, NEW q \in [1..k -> Emitted], NEW n \in 0..(k + 1),
               ProcessSignals(q, n)
        PROVE  EngineIInv'
    <2>1. k \in Nat /\ k <= MaxSignals
      BY EngineAssumption
    <2>2. q \in Seq(SignalRecord) /\ Len(q) = k
      BY <2>1, EngineAssumption
    <2>3. given' = q /\ chosen' = Decision(q) /\ handed' = TRUE
      BY <1>1 DEF ProcessSignals
    <2>4. PICK c \in 0..(k + 1) :
            /\ rows' = [signals |-> IF c < Len(q) THEN c ELSE Len(q), decision |-> c > Len(q)]
            /\ session' = IF c > Len(q) THEN session ELSE "broken"
      <3>1. 0 \in 0..(k + 1)
        BY <2>1
      <3>2. QED
        BY <1>1, <3>1 DEF ProcessSignals
    <2>5. /\ rows' \in [signals : 0..Len(q), decision : BOOLEAN]
          /\ rows'.decision => rows'.signals = Len(q)
      <3>1. c \in Nat /\ Len(q) \in Nat
        BY <2>1, <2>2
      <3>2. rows'.signals = (IF c < Len(q) THEN c ELSE Len(q)) /\ (rows'.decision <=> c > Len(q))
        BY <2>4
      <3>3. (IF c < Len(q) THEN c ELSE Len(q)) \in 0..Len(q)
        BY <3>1
      <3>4. rows' \in [signals : 0..Len(q), decision : BOOLEAN]
        BY <2>4, <3>3
      <3>5. c > Len(q) => ~(c < Len(q))
        BY <3>1
      <3>6. QED
        BY <3>2, <3>4, <3>5
    <2>6. session' \in {"good", "broken"}
      BY <2>4 DEF EngineIInv
    <2>7. QED
      BY <2>1, <2>2, <2>3, <2>5, <2>6 DEF EngineIInv
  <1>2. ASSUME HandOver PROVE EngineIInv'
    <2>1. given' \in Seq(SignalRecord) /\ Len(given') = 0
      BY <1>2 DEF HandOver
    <2>2. chosen' = Decision(given')
      BY <1>2 DEF HandOver, Decision
    <2>3. rows' \in [signals : 0..Len(given'), decision : BOOLEAN] /\ ~rows'.decision
      BY <1>2, <2>1 DEF HandOver
    <2>4. handed' \in BOOLEAN /\ session' \in {"good", "broken"}
      BY <1>2 DEF HandOver, EngineIInv
    <2>5. QED
      BY <2>1, <2>2, <2>3, <2>4, EngineAssumption DEF EngineIInv
  <1>3. ASSUME UNCHANGED engineVars PROVE EngineIInv'
    BY <1>3 DEF EngineIInv, engineVars, Decision, Hold, Signals, Kept
  <1>4. QED
    BY <1>1, <1>2, <1>3 DEF EngineNext

(* In every behaviour of the engine the decision is the one that follows   *)
(* from the signals that were given, and a decision's row in the database  *)
(* has a row of every signal beside it.                                    *)
THEOREM EngineInvariant == EngineSpec => []EngineIInv
  BY EngineInitIInv, EngineNextIInv, PTL DEF EngineSpec

\* The normal forms of the signals that an analysis is given.
LEMMA NormalsOfGiven ==
  ASSUME NEW q \in Seq(SignalRecord)
  PROVE  /\ Normals(q) \in Seq(KeptSignals) /\ DOMAIN Normals(q) = DOMAIN q
         /\ q # <<>> => Normals(q) # <<>>
         /\ q # <<>> => Decision(q) = [action |-> MakeDecision(Signals(Normals(q))),
                                       confidence |-> Confidence(Signals(Normals(q))),
                                       of |-> Signals(Normals(q))]
  <1>1. Len(q) \in Nat /\ DOMAIN q = 1..Len(q) /\ \A i \in DOMAIN q : q[i] \in SignalRecord
    OBVIOUS
  <1>2. \A i \in DOMAIN q : Normalized(q[i]) \in KeptSignals
    BY <1>1, NormalTypes
  <1>3. Normals(q) \in Seq(KeptSignals) /\ DOMAIN Normals(q) = DOMAIN q /\ Len(Normals(q)) = Len(q)
    BY <1>1, <1>2 DEF Normals
  <1>4. q # <<>> => Normals(q) # <<>>
    <2>1. q # <<>> => Len(q) # 0
      OBVIOUS
    <2>2. Normals(q) = <<>> => Len(Normals(q)) = 0
      OBVIOUS
    <2>3. QED
      BY <1>3, <2>1, <2>2
  <1>5. q # <<>> => Decision(q) = [action |-> MakeDecision(Signals(Normals(q))),
                                   confidence |-> Confidence(Signals(Normals(q))),
                                   of |-> Signals(Normals(q))]
    BY DEF Decision, Normals
  <1>6. QED
    BY <1>3, <1>4, <1>5

\* What is normalised changes places with its signals.
LEMMA SwappedNormals ==
  ASSUME NEW q \in Seq(SignalRecord), NEW i \in DOMAIN q, NEW j \in DOMAIN q
  PROVE  LET r == [q EXCEPT ![i] = q[j], ![j] = q[i]]
         IN  /\ r \in Seq(SignalRecord) /\ r # <<>> /\ q # <<>>
             /\ Normals(r) = [Normals(q) EXCEPT ![i] = Normals(q)[j], ![j] = Normals(q)[i]]
  <1> DEFINE r == [q EXCEPT ![i] = q[j], ![j] = q[i]]
  <1>1. Len(q) \in Nat /\ DOMAIN q = 1..Len(q) /\ \A k \in DOMAIN q : q[k] \in SignalRecord
    OBVIOUS
  <1>2. r \in [1..Len(q) -> SignalRecord]
    BY <1>1
  <1>3. r \in Seq(SignalRecord)
    BY <1>1, <1>2
  <1>4. r # <<>> /\ q # <<>>
    BY <1>1, <1>2
  <1>5. \A k \in DOMAIN q : r[k] = IF k = j THEN q[i] ELSE IF k = i THEN q[j] ELSE q[k]
    OBVIOUS
  <1>6. DOMAIN r = DOMAIN q
    OBVIOUS
  <1> HIDE DEF r
  <1>7. Normals(r) = [k \in DOMAIN q |-> Normalized(r[k])]
    BY <1>6 DEF Normals
  <1>8. Normals(r) = [Normals(q) EXCEPT ![i] = Normals(q)[j], ![j] = Normals(q)[i]]
    BY <1>5, <1>7 DEF Normals
  <1>9. QED
    BY <1>3, <1>4, <1>8 DEF r

LEMMA OrderHasNoSay == EngineIInv => OrderOnlyMattersOnTies
  <1> SUFFICES
        ASSUME EngineIInv,
               \A k, l \in DOMAIN given : Same(given[k], given[l]) /\ given[k].at = given[l].at => k = l,
               NEW i \in DOMAIN given, NEW j \in DOMAIN given
        PROVE  LET other == Decision([given EXCEPT ![i] = given[j], ![j] = given[i]])
               IN  other.action = chosen.action /\ other.confidence = chosen.confidence
    BY DEF OrderOnlyMattersOnTies
  <1> DEFINE q == Normals(given)
             r == [given EXCEPT ![i] = given[j], ![j] = given[i]]
  <1>1. given \in Seq(SignalRecord) /\ chosen = Decision(given)
    BY DEF EngineIInv
  <1>2. /\ r \in Seq(SignalRecord) /\ r # <<>> /\ given # <<>>
        /\ Normals(r) = [q EXCEPT ![i] = q[j], ![j] = q[i]]
    BY <1>1, SwappedNormals
  <1>3. DOMAIN q = DOMAIN given /\ q \in Seq(KeptSignals) /\ DOMAIN q \subseteq Int
    BY <1>1, NormalsOfGiven
  <1>4. ASSUME NEW k \in DOMAIN q
        PROVE  /\ q[k].market = given[k].market /\ q[k].source = given[k].source
               /\ q[k].at = given[k].at /\ q[k].at \in Int
    <2>1. given[k] \in SignalRecord /\ q[k] = Normalized(given[k])
      BY <1>1, <1>3 DEF Normals
    <2>2. given[k].at \in Int
      BY <2>1 DEF SignalRecord
    <2>3. QED
      BY <2>1, <2>2, NormalTypes
  <1>5. \A k, l \in DOMAIN q : Same(q[k], q[l]) /\ q[k].at = q[l].at => k = l
    BY <1>3, <1>4 DEF Same
  <1> HIDE DEF q, r
  <1>6. Signals(Normals(r)) = Signals(q)
    <2>1. i \in DOMAIN q /\ j \in DOMAIN q
      BY <1>3
    <2>2. \A k \in DOMAIN q : q[k].at \in Int
      BY <1>4
    <2>3. Signals([q EXCEPT ![i] = q[j], ![j] = q[i]]) = Signals(q)
      BY <1>3, <1>5, <2>1, <2>2, SwapKeeps
    <2>4. QED
      BY <1>2, <2>3
  <1>7. /\ Decision(r).action = MakeDecision(Signals(q))
        /\ Decision(r).confidence = Confidence(Signals(q))
    <2>1. Decision(r) = [action |-> MakeDecision(Signals(Normals(r))),
                         confidence |-> Confidence(Signals(Normals(r))),
                         of |-> Signals(Normals(r))]
      BY <1>2, NormalsOfGiven
    <2>2. QED
      BY <1>6, <2>1
  <1>8. /\ Decision(given).action = MakeDecision(Signals(q))
        /\ Decision(given).confidence = Confidence(Signals(q))
    BY <1>1, <1>2, NormalsOfGiven DEF q
  <1>9. QED
    BY <1>1, <1>7, <1>8 DEF r

LEMMA DecisionTypes ==
  ASSUME EngineIInv
  PROVE  /\ DecisionHasASignal
         /\ chosen.action \in {"buy", "sell", "hold"} /\ chosen.confidence \in 0..(100 * 60)
  <1>1. given \in Seq(SignalRecord) /\ chosen = Decision(given)
    BY DEF EngineIInv
  <1>2. CASE given = <<>>
    BY <1>1, <1>2 DEF Decision, Hold, DecisionHasASignal
  <1>3. CASE given # <<>>
    <2> DEFINE K == Signals(Normals(given))
    <2>1. Normals(given) \in Seq(KeptSignals) /\ Normals(given) # <<>>
      BY <1>1, <1>3, NormalsOfGiven
    <2>2. IsFiniteSet(K) /\ K \subseteq KeptSignals /\ K # {}
      BY <2>1, SignalsOfAnalysis
    <2>3. chosen = [action |-> MakeDecision(K), confidence |-> Confidence(K), of |-> K]
      BY <1>1, <1>3, NormalsOfGiven
    <2> HIDE DEF K
    <2>4. /\ MakeDecision(K) \in {"buy", "sell", "hold"}
          /\ MakeDecision(K) # "hold" => \E s \in K : s.action = MakeDecision(K)
      BY <2>2, DecisionIsArguedFor
    <2>5. Confidence(K) \in 0..(100 * 60)
      BY <2>2, ConfidenceIsBounded
    <2>6. QED
      BY <2>3, <2>4, <2>5 DEF DecisionHasASignal
  <1>4. QED
    BY <1>2, <1>3

(* A decision follows from its signals, for every set of signals that the  *)
(* agents may emit and every number of them: their order matters only when *)
(* two of a key tie, the decision is argued for by one that was kept, and  *)
(* a saved decision has all of its signals in the database.                *)
THEOREM DecisionTruth == EngineSpec => []DecisionFollows
  <1>1. EngineIInv => DecisionFollows
    BY OrderHasNoSay, DecisionTypes DEF DecisionFollows, SavedDecisionHasSignals, EngineIInv
  <1>2. QED
    BY <1>1, EngineInvariant, PTL

(* What the engine decides is an action, with a confidence of nought to    *)
(* one, however the weights, the boosts and the bonus add up.              *)
THEOREM EngineTypes == EngineSpec => []EngineTypeOK
  <1>1. EngineIInv => EngineTypeOK
    <2> SUFFICES ASSUME EngineIInv PROVE EngineTypeOK
      OBVIOUS
    <2>1. rows.signals \in 0..MaxSignals
      BY EngineAssumption DEF EngineIInv
    <2>2. QED
      BY <2>1, DecisionTypes DEF EngineTypeOK, EngineIInv
  <1>2. QED
    BY <1>1, EngineInvariant, PTL

-----------------------------------------------------------------------------
(* The technical analyst.                                                  *)

(* What the analyst makes, and the reading behind it: as many conditions   *)
(* as the strategy demands had all of their values.                        *)
Made ==
  [strategy : STRING, frame : STRING, action : {"buy", "sell"}, confidence : 0..100,
   boosted : BOOLEAN]

Evidenced(s, action, r) ==
  IF action = "buy"
  THEN Cardinality(WithValues(s.entry, r)) >= s.minEntry
  ELSE Cardinality(WithValues(s.exit, r)) >= s.minExit

LEMMA SequenceParts ==
  ASSUME NEW S, NEW q \in Seq(S)
  PROVE  Len(q) \in Nat /\ DOMAIN q = 1..Len(q) /\ \A k \in 1..Len(q) : q[k] \in S
  OBVIOUS

\* However many boosters apply, the boosted confidence is no negative number.
LEMMA BoostedIsNat ==
  ASSUME NEW s, IsStrategy(s), NEW r
  PROVE  Boosted(s, r) \in Nat
  <1> DEFINE q == s.boosters
             n == Len(q)
             Next1(x, k) == IF BoosterApplies(q[k].condition, r) THEN x + q[k].bonus ELSE x
             step == [p \in (1..n) \X Nat |-> Next1(p[2], p[1])]
             Eq(f) == f = [t \in SUBSET (1..n) |->
                             IF t = {} THEN s.base ELSE Next1(f[t \ {Max(t)}], Max(t))]
             iter == CHOOSE f : Eq(f)
  <1>1. /\ n \in Nat /\ DOMAIN q = 1..n /\ \A k \in 1..n : q[k].bonus \in Nat
        /\ s.base \in Nat
    <2>1. q \in Seq([condition : STRING, bonus : Nat]) /\ s.base \in 0..100
      BY DEF IsStrategy
    <2> HIDE DEF q
    <2>2. n \in Nat /\ DOMAIN q = 1..n /\ \A k \in 1..n : q[k] \in [condition : STRING, bonus : Nat]
      BY <2>1, SequenceParts
    <2> HIDE DEF n
    <2>3. \A k \in 1..n : q[k].bonus \in Nat
      BY <2>2
    <2>4. s.base \in Nat
      <3>1. s.base \in 0..100
        BY DEF IsStrategy
      <3>2. \A x \in 0..100 : x \in Nat
        OBVIOUS
      <3>3. QED
        BY <3>1, <3>2
    <2>5. QED
      BY <2>2, <2>3, <2>4
  <1>2. Boosted(s, r) = iter[1..n]
    BY <1>1 DEF Boosted, FoldLeft, MapThenFoldSet
  <1> HIDE DEF n
  <1>3. \A k \in 1..n, x \in Nat : Next1(x, k) \in Nat
    BY <1>1
  <1> HIDE DEF Next1
  <1>4. step \in [(1..n) \X Nat -> Nat] /\ \A k \in 1..n, x \in Nat : step[<<k, x>>] = Next1(x, k)
    BY <1>3
  <1> HIDE DEF step
  <1>5. PICK g \in [SUBSET (1..n) -> Nat] :
           /\ g[{}] = s.base
           /\ \A t \in SUBSET (1..n) : t # {} =>
                /\ Max(t) \in 1..n /\ g[t \ {Max(t)}] \in Nat
                /\ g[t] = step[<<Max(t), g[t \ {Max(t)}]>>]
    <2> DEFINE base == s.base
    <2> HIDE DEF base, Eq, iter
    <2>1. HasFoldOfPlaces(n, Nat, base, step)
      BY <1>1, <1>4, FoldOfPlaces DEF base
    <2>2. QED
      BY <2>1 DEF HasFoldOfPlaces, base
  <1>6. ASSUME NEW t \in SUBSET (1..n), t # {}
        PROVE  g[t] = Next1(g[t \ {Max(t)}], Max(t))
    BY <1>4, <1>5, <1>6
  <1>7. Eq(g)
    BY <1>5, <1>6
  <1>8. Eq(iter)
    BY <1>7
  <1> HIDE DEF iter
  <1>9. iter[{}] = s.base
    BY <1>8
  <1>10. ASSUME NEW k \in 1..n, iter[1..(k - 1)] \in Nat
         PROVE  iter[1..k] = step[<<k, iter[1..(k - 1)]>>]
    <2>1. k \in Nat \ {0} /\ k \in 1..k /\ 1..k \subseteq 1..n
      BY <1>1
    <2>2. 1..k \in SUBSET (1..n) /\ 1..k # {}
      BY <2>1
    <2>3. Max(1..k) = k /\ (1..k) \ {Max(1..k)} = 1..(k - 1)
      BY <2>1, MaxOfFirst
    <2>4. iter[1..k] = Next1(iter[(1..k) \ {Max(1..k)}], Max(1..k))
      BY <1>8, <2>2
    <2>5. iter[1..k] = Next1(iter[1..(k - 1)], k)
      BY <2>3, <2>4
    <2>6. QED
      BY <1>4, <1>10, <2>5
  <1>11. iter[1..n] \in Nat
    <2> DEFINE base == s.base
    <2>1. base \in Nat /\ iter[{}] = base
      BY <1>1, <1>9
    <2> HIDE DEF base
    <2>2. Iterates(iter, n, Nat, base, step)
      BY <1>10, <2>1 DEF Iterates
    <2>3. Runs(n, Nat, base, step, iter[1..n])
      BY <1>1, <1>4, <2>1, <2>2, FoldRuns
    <2>4. QED
      BY <1>1, <2>3 DEF Runs
  <1>12. QED
    BY <1>2, <1>11

\* The conditions that hold had all of their values.
LEMMA HitsHaveValues ==
  ASSUME NEW conditions, IsFiniteSet(DOMAIN conditions), NEW r, DOMAIN r = ReadingFields
  PROVE  Hits(conditions, r) \in Nat /\ Cardinality(WithValues(conditions, r)) \in Nat
         /\ Hits(conditions, r) <= Cardinality(WithValues(conditions, r))
  <1> DEFINE met == {i \in DOMAIN conditions : Holds(conditions[i], r)}
             there == WithValues(conditions, r)
  <1>1. \A indicator : Needs(indicator) \subseteq ReadingFields
    BY DEF Needs, ReadingFields
  <1>2. met \subseteq there
    BY <1>1 DEF Holds, WithValues
  <1>3. IsFiniteSet(there)
    <2>1. there \subseteq DOMAIN conditions
      BY DEF WithValues
    <2>2. QED
      BY <2>1, FS_Subset
  <1> HIDE DEF there
  <1>4. IsFiniteSet(met) /\ Cardinality(met) <= Cardinality(there)
    BY <1>2, <1>3, FS_Subset
  <1>5. Hits(conditions, r) = Cardinality(met)
    BY DEF Hits
  <1> HIDE DEF met
  <1>6. Cardinality(met) \in Nat /\ Cardinality(there) \in Nat
    BY <1>3, <1>4, FS_CardinalityType
  <1>7. QED
    BY <1>4, <1>5, <1>6 DEF there

\* A strategy says nothing or one thing, with the evidence that it demands.
SaysOne(s, r, t) ==
  \E m \in Made : /\ Judge(s, r, t) = <<m>>
                  /\ m.frame = t /\ m.strategy = s.name /\ Evidenced(s, m.action, r)

LEMMA JudgeSays ==
  ASSUME NEW s, IsStrategy(s), NEW r, DOMAIN r = ReadingFields, NEW t \in STRING
  PROVE  Judge(s, r, t) = <<>> \/ SaysOne(s, r, t)
  <1> DEFINE Make(action, confidence) ==
               [strategy |-> s.name, frame |-> t, action |-> action,
                confidence |-> confidence, boosted |-> FALSE]
             bought == Hits(s.entry, r) >= s.minEntry
             missed == Hits(s.entry, r) < s.minEntry
             sold == Hits(s.exit, r) >= s.minExit
             buy == <<Make("buy", EntryConfidence(s, r))>>
             sell == <<Make("sell", s.base)>>
  <1>1. s.name \in STRING /\ s.base \in 0..100 /\ s.minEntry \in Nat /\ s.minExit \in Nat
    BY DEF IsStrategy
  <1>2. EntryConfidence(s, r) \in 0..100
    <2>1. Boosted(s, r) \in Nat /\ s.max \in 0..100
      BY BoostedIsNat DEF IsStrategy
    <2>2. QED
      BY <2>1 DEF EntryConfidence
  <1>3. /\ Hits(s.entry, r) \in Nat /\ Cardinality(WithValues(s.entry, r)) \in Nat
        /\ Hits(s.entry, r) <= Cardinality(WithValues(s.entry, r))
        /\ Hits(s.exit, r) \in Nat /\ Cardinality(WithValues(s.exit, r)) \in Nat
        /\ Hits(s.exit, r) <= Cardinality(WithValues(s.exit, r))
        /\ missed <=> ~bought
    <2>1. IsFiniteSet(DOMAIN s.entry) /\ IsFiniteSet(DOMAIN s.exit)
      BY DEF IsStrategy
    <2>2. QED
      BY <1>1, <2>1, HitsHaveValues
  <1> HIDE DEF buy, sell, missed
  <1>8. /\ bought => Judge(s, r, t) = buy
        /\ ~bought /\ sold => Judge(s, r, t) = sell
        /\ ~bought /\ ~sold => Judge(s, r, t) = <<>>
    <2>1. Judge(s, r, t) = CASE bought -> buy [] missed /\ sold -> sell [] OTHER -> <<>>
      BY DEF Judge, buy, sell, missed
    <2> HIDE DEF bought, sold
    <2>2. missed <=> ~bought
      BY <1>3
    <2>3. QED
      BY <2>1, <2>2
  <1>4. CASE bought
    <2> DEFINE m == Make("buy", EntryConfidence(s, r))
    <2>1. Judge(s, r, t) = <<m>>
      BY <1>4, <1>8 DEF buy
    <2>2. m \in Made /\ m.frame = t /\ m.strategy = s.name /\ m.action = "buy"
      BY <1>1, <1>2 DEF Made
    <2>3. Evidenced(s, "buy", r)
      BY <1>1, <1>3, <1>4 DEF Evidenced
    <2> HIDE DEF m
    <2>4. QED
      BY <2>1, <2>2, <2>3 DEF SaysOne
  <1>5. CASE ~bought /\ sold
    <2> DEFINE m == Make("sell", s.base)
    <2>1. Judge(s, r, t) = <<m>>
      BY <1>5, <1>8 DEF sell
    <2>2. m \in Made /\ m.frame = t /\ m.strategy = s.name /\ m.action = "sell"
      BY <1>1 DEF Made
    <2>3. Evidenced(s, "sell", r)
      BY <1>1, <1>3, <1>5 DEF Evidenced
    <2> HIDE DEF m
    <2>4. QED
      BY <2>1, <2>2, <2>3 DEF SaysOne
  <1>6. CASE ~bought /\ ~sold
    BY <1>6, <1>8
  <1>7. QED
    BY <1>4, <1>5, <1>6

\* The strategies are judged one after another, and the signals gather.
Judging(q, r, t, run) ==
  /\ run \in [0..Len(Strategies) -> Seq(Made)] /\ run[0] = q
  /\ \A k \in 1..Len(Strategies) :
       run[k] = IF Strategies[k].name \in Broken THEN run[k - 1]
                ELSE run[k - 1] \o Judge(Strategies[k], r, t)

LEMMA JudgedRuns ==
  ASSUME NEW q \in Seq(Made), NEW r, DOMAIN r = ReadingFields, NEW t \in STRING
  PROVE  \E run : Judging(q, r, t, run) /\ Judged(q, r, t) = run[Len(Strategies)]
  <1> DEFINE n == Len(Strategies)
             V == Seq(Made)
             Next1(x, k) == IF Strategies[k].name \in Broken THEN x
                            ELSE x \o Judge(Strategies[k], r, t)
             step == [p \in (1..n) \X V |-> Next1(p[2], p[1])]
             Eq(f) == f = [s \in SUBSET (1..n) |->
                             IF s = {} THEN q ELSE Next1(f[s \ {Max(s)}], Max(s))]
             iter == CHOOSE f : Eq(f)
  <1>1. n \in Nat /\ DOMAIN Strategies = 1..n
    BY AnalystAssumption
  <1>2. Judged(q, r, t) = iter[1..n]
    BY <1>1 DEF Judged, FoldLeft, MapThenFoldSet
  <1>3. ASSUME NEW k \in 1..n, NEW x \in V PROVE Next1(x, k) \in V
    <2>1. IsStrategy(Strategies[k])
      BY <1>1, AnalystAssumption
    <2>2. Judge(Strategies[k], r, t) \in V
      <3>1. CASE Judge(Strategies[k], r, t) = <<>>
        BY <3>1
      <3>2. CASE SaysOne(Strategies[k], r, t)
        BY <3>2 DEF SaysOne
      <3>3. QED
        BY <2>1, <3>1, <3>2, JudgeSays
    <2>3. QED
      BY <2>2
  <1> HIDE DEF n, V, Next1
  <1>4. step \in [(1..n) \X V -> V] /\ \A k \in 1..n, x \in V : step[<<k, x>>] = Next1(x, k)
    BY <1>3
  <1>5. q \in V
    BY DEF V
  <1> HIDE DEF step
  <1>6. PICK g \in [SUBSET (1..n) -> V] :
           /\ g[{}] = q
           /\ \A s \in SUBSET (1..n) : s # {} =>
                /\ Max(s) \in 1..n /\ g[s \ {Max(s)}] \in V
                /\ g[s] = step[<<Max(s), g[s \ {Max(s)}]>>]
    <2> HIDE DEF Eq, iter
    <2>1. HasFoldOfPlaces(n, V, q, step)
      BY <1>1, <1>4, <1>5, FoldOfPlaces
    <2>2. QED
      BY <2>1 DEF HasFoldOfPlaces
  <1>7. ASSUME NEW s \in SUBSET (1..n), s # {}
        PROVE  g[s] = Next1(g[s \ {Max(s)}], Max(s))
    BY <1>4, <1>6, <1>7
  <1>8. Eq(g)
    BY <1>6, <1>7
  <1>9. Eq(iter)
    BY <1>8
  <1> HIDE DEF iter
  <1>10. iter[{}] = q
    BY <1>9
  <1>11. ASSUME NEW k \in 1..n, iter[1..(k - 1)] \in V
         PROVE  iter[1..k] = step[<<k, iter[1..(k - 1)]>>]
    <2>1. k \in Nat \ {0} /\ k \in 1..k /\ 1..k \subseteq 1..n
      BY <1>1
    <2>2. 1..k \in SUBSET (1..n) /\ 1..k # {}
      BY <2>1
    <2>3. Max(1..k) = k /\ (1..k) \ {Max(1..k)} = 1..(k - 1)
      BY <2>1, MaxOfFirst
    <2>4. iter[1..k] = Next1(iter[(1..k) \ {Max(1..k)}], Max(1..k))
      BY <1>9, <2>2
    <2>5. iter[1..k] = Next1(iter[1..(k - 1)], k)
      BY <2>3, <2>4
    <2>6. QED
      BY <1>4, <1>11, <2>5
  <1>12. PICK run \in [0..n -> V] :
           /\ run[0] = q /\ run[n] = iter[1..n]
           /\ \A k \in 1..n : run[k] = step[<<k, run[k - 1]>>]
    <2>1. Iterates(iter, n, V, q, step)
      BY <1>10, <1>11 DEF Iterates
    <2>2. Runs(n, V, q, step, iter[1..n])
      BY <1>1, <1>4, <1>5, <2>1, FoldRuns
    <2>3. QED
      BY <2>2 DEF Runs
  <1>13. ASSUME NEW k \in 1..n PROVE run[k] = Next1(run[k - 1], k)
    <2>1. k - 1 \in 0..n
      BY <1>1
    <2>2. QED
      BY <1>4, <1>12, <2>1
  <1>14. QED
    BY <1>2, <1>12, <1>13 DEF Judging, n, V, Next1

-----------------------------------------------------------------------------
\* The names of the strategies that are not broken, and what each of them says.
Sound(j) == Strategies[j].name \notin Broken

Says(j, r, t) == IF Sound(j) THEN Len(Judge(Strategies[j], r, t)) ELSE 0

\* The signals of other frames are those of before, in their places.
OthersStay(p, q, t) ==
  /\ Len(p) <= Len(q)
  /\ \A i \in 1..Len(p) : q[i] = p[i]
  /\ \A i \in 1..Len(q) : i > Len(p) => q[i].frame = t

\* Behind every new signal stands a strategy with its evidence.
NewAreShown(p, q, r) ==
  \A i \in 1..Len(q) : i > Len(p) =>
    \E j \in DOMAIN Strategies :
      q[i].strategy = Strategies[j].name /\ Evidenced(Strategies[j], q[i].action, r)

Gathered(p, q, r, t, k) ==
  /\ OthersStay(p, q, t) /\ NewAreShown(p, q, r)
  /\ \A j \in DOMAIN Strategies :
       Cardinality(Places(q, t, Strategies[j].name)) = IF j <= k THEN Says(j, r, t) ELSE 0

\* The signals of one strategy on one timeframe can be counted.
LEMMA PlacesAreFinite ==
  ASSUME NEW q \in Seq(Made), NEW t, NEW name
  PROVE  /\ IsFiniteSet(Places(q, t, name)) /\ Places(q, t, name) \subseteq 1..Len(q)
         /\ Cardinality(Places(q, t, name)) \in Nat
         /\ Cardinality(Places(q, t, name)) = 0 <=> Places(q, t, name) = {}
  <1>1. Places(q, t, name) \subseteq 1..Len(q)
    BY DEF Places
  <1>2. IsFiniteSet(1..Len(q))
    BY FS_Interval
  <1>3. IsFiniteSet(Places(q, t, name))
    BY <1>1, <1>2, FS_Subset
  <1>4. QED
    BY <1>1, <1>3, FS_CardinalityType, FS_EmptySet

\* One strategy more.
LEMMA OneMoreJudged ==
  ASSUME NEW p \in Seq(Made), NEW q \in Seq(Made), NEW r, DOMAIN r = ReadingFields,
         NEW t \in STRING, NEW k \in 1..Len(Strategies), Gathered(p, q, r, t, k - 1)
  PROVE  Gathered(p, IF Sound(k) THEN q \o Judge(Strategies[k], r, t) ELSE q, r, t, k)
  <1> DEFINE s == Strategies[k]
  <1>1. /\ k \in Nat /\ k \in DOMAIN Strategies /\ DOMAIN Strategies \subseteq Nat
        /\ IsStrategy(s)
        /\ \A j \in DOMAIN Strategies : Strategies[j].name = s.name => j = k
    BY AnalystAssumption
  <1>2. /\ OthersStay(p, q, t) /\ NewAreShown(p, q, r)
        /\ \A j \in DOMAIN Strategies :
             Cardinality(Places(q, t, Strategies[j].name)) = IF j <= k - 1 THEN Says(j, r, t) ELSE 0
    BY DEF Gathered
  <1>3. \A j \in DOMAIN Strategies : j # k => (j <= k <=> j <= k - 1)
    BY <1>1
  <1>4. Cardinality(Places(q, t, s.name)) = 0
    <2>1. ~(k <= k - 1)
      BY <1>1
    <2>2. QED
      BY <1>1, <1>2, <2>1
  <1>5. CASE ~Sound(k) \/ Judge(s, r, t) = <<>>
    <2>1. (IF Sound(k) THEN q \o Judge(s, r, t) ELSE q) = q
      <3>1. q \o <<>> = q
        OBVIOUS
      <3>2. QED
        BY <1>5, <3>1
    <2>2. Says(k, r, t) = 0
      <3>1. Len(<<>>) = 0
        OBVIOUS
      <3>2. QED
        BY <1>5, <3>1 DEF Says
    <2>3. ASSUME NEW j \in DOMAIN Strategies
          PROVE  Cardinality(Places(q, t, Strategies[j].name)) = IF j <= k THEN Says(j, r, t) ELSE 0
      <3>1. CASE j = k
        BY <1>4, <2>2, <3>1
      <3>2. CASE j # k
        BY <1>2, <1>3, <3>2
      <3>3. QED
        BY <3>1, <3>2
    <2>4. QED
      BY <1>2, <2>1, <2>3 DEF Gathered
  <1>6. CASE Sound(k) /\ SaysOne(s, r, t)
    <2>1. PICK m \in Made : /\ Judge(s, r, t) = <<m>>
                            /\ m.frame = t /\ m.strategy = s.name /\ Evidenced(s, m.action, r)
      BY <1>6 DEF SaysOne
    <2> DEFINE u == q \o <<m>>
               n == Len(q)
    <2>2. /\ n \in Nat /\ u \in Seq(Made) /\ Len(u) = n + 1 /\ u[n + 1] = m
          /\ \A i \in 1..n : u[i] = q[i]
      OBVIOUS
    <2>3. (IF Sound(k) THEN q \o Judge(s, r, t) ELSE q) = u /\ Says(k, r, t) = 1
      <3>1. Len(<<m>>) = 1
        OBVIOUS
      <3>2. QED
        BY <1>6, <2>1, <3>1 DEF Says
    <2> HIDE DEF u, s
    <2>4. Len(p) \in Nat /\ Len(p) <= n
      BY <1>2 DEF OthersStay
    <2>5. OthersStay(p, u, t)
      <3>1. \A i \in 1..Len(p) : i \in 1..n /\ u[i] = p[i]
        BY <1>2, <2>2, <2>4 DEF OthersStay
      <3>2. ASSUME NEW i \in 1..Len(u), i > Len(p) PROVE u[i].frame = t
        <4>1. CASE i = n + 1
          BY <2>1, <2>2, <4>1
        <4>2. CASE i \in 1..n
          BY <1>2, <2>2, <3>2, <4>2 DEF OthersStay
        <4>3. QED
          BY <2>2, <4>1, <4>2
      <3>3. Len(p) <= Len(u)
        BY <2>2, <2>4
      <3>4. QED
        BY <3>1, <3>2, <3>3 DEF OthersStay
    <2>6. NewAreShown(p, u, r)
      <3> SUFFICES ASSUME NEW i \in 1..Len(u), i > Len(p)
                   PROVE  \E j \in DOMAIN Strategies :
                            u[i].strategy = Strategies[j].name /\ Evidenced(Strategies[j], u[i].action, r)
        BY DEF NewAreShown
      <3>1. CASE i = n + 1
        BY <1>1, <2>1, <2>2, <3>1 DEF s
      <3>2. CASE i \in 1..n
        BY <1>2, <2>2, <3>2 DEF NewAreShown
      <3>3. QED
        BY <2>2, <3>1, <3>2
    <2>7. ASSUME NEW j \in DOMAIN Strategies
          PROVE  Cardinality(Places(u, t, Strategies[j].name)) = IF j <= k THEN Says(j, r, t) ELSE 0
      <3>1. CASE j = k
        <4>1. Places(q, t, s.name) = {}
          BY <1>4, PlacesAreFinite
        <4>2. Places(u, t, s.name) = {n + 1}
          <5>1. \A i \in 1..n : ~(q[i].frame = t /\ q[i].strategy = s.name)
            BY <4>1 DEF Places
          <5>2. DOMAIN u = 1..(n + 1)
            BY <2>2
          <5>3. \A i \in 1..(n + 1) : i = n + 1 \/ i \in 1..n
            BY <2>2
          <5>4. n + 1 \in 1..(n + 1)
            BY <2>2
          <5>5. QED
            BY <2>1, <2>2, <5>1, <5>2, <5>3, <5>4 DEF Places
        <4>3. Cardinality({n + 1}) = 1
          BY FS_Singleton
        <4>4. k <= k
          BY <1>1
        <4>5. QED
          BY <2>3, <3>1, <4>2, <4>3, <4>4 DEF s
      <3>2. CASE j # k
        <4>1. Strategies[j].name # s.name
          BY <1>1, <3>2 DEF s
        <4>2. Places(u, t, Strategies[j].name) = Places(q, t, Strategies[j].name)
          <5>1. DOMAIN u = 1..(n + 1) /\ DOMAIN q = 1..n
            BY <2>2
          <5>2. \A i \in 1..(n + 1) : i = n + 1 \/ i \in 1..n
            BY <2>2
          <5>3. \A i \in 1..n : i \in 1..(n + 1)
            BY <2>2
          <5>4. u[n + 1].strategy # Strategies[j].name
            BY <2>1, <2>2, <4>1
          <5>5. QED
            BY <2>2, <5>1, <5>2, <5>3, <5>4 DEF Places
        <4>3. QED
          BY <1>2, <1>3, <3>2, <4>2
      <3>3. QED
        BY <3>1, <3>2
    <2>8. QED
      BY <2>3, <2>5, <2>6, <2>7 DEF Gathered, s
  <1>7. QED
    BY <1>1, <1>5, <1>6, JudgeSays

\* All strategies.
LEMMA JudgedGathers ==
  ASSUME NEW p \in Seq(Made), NEW r, DOMAIN r = ReadingFields, NEW t \in STRING,
         \A j \in DOMAIN Strategies : Cardinality(Places(p, t, Strategies[j].name)) = 0
  PROVE  /\ Judged(p, r, t) \in Seq(Made)
         /\ Gathered(p, Judged(p, r, t), r, t, Len(Strategies))
  <1> DEFINE n == Len(Strategies)
  <1>1. PICK run : Judging(p, r, t, run) /\ Judged(p, r, t) = run[n]
    BY JudgedRuns
  <1> DEFINE Good == {k \in 0..n : Gathered(p, run[k], r, t, k)}
  <1>2. n \in Nat /\ DOMAIN Strategies = 1..n
    BY AnalystAssumption
  <1>3. 0 \in Good
    <2>1. run[0] = p /\ 0 \in 0..n
      BY <1>1, <1>2 DEF Judging
    <2>2. \A i \in 1..Len(p) : ~(i > Len(p))
      OBVIOUS
    <2>3. OthersStay(p, p, t) /\ NewAreShown(p, p, r)
      BY <2>2 DEF OthersStay, NewAreShown
    <2>4. \A j \in DOMAIN Strategies : ~(j <= 0)
      BY <1>2
    <2>5. Gathered(p, p, r, t, 0)
      BY <2>3, <2>4 DEF Gathered
    <2>6. QED
      BY <2>1, <2>5
  <1>4. ASSUME NEW k \in 0..(n - 1), k \in Good PROVE k + 1 \in Good
    <2>1. k + 1 \in 1..n /\ k + 1 - 1 = k /\ k \in 0..n /\ k + 1 \in 0..n
      BY <1>2
    <2>2. run[k] \in Seq(Made)
      BY <1>1, <2>1 DEF Judging
    <2>3. run[k + 1] = IF Strategies[k + 1].name \in Broken THEN run[k]
                       ELSE run[k] \o Judge(Strategies[k + 1], r, t)
      BY <1>1, <2>1 DEF Judging
    <2>4. run[k + 1] = IF Sound(k + 1) THEN run[k] \o Judge(Strategies[k + 1], r, t) ELSE run[k]
      BY <2>3 DEF Sound
    <2>5. Gathered(p, run[k], r, t, (k + 1) - 1)
      BY <1>4, <2>1
    <2>6. Gathered(p, run[k + 1], r, t, k + 1)
      BY <2>1, <2>2, <2>4, <2>5, OneMoreJudged
    <2>7. QED
      BY <2>1, <2>6
  <1> HIDE DEF Good
  <1>5. \A k \in 0..n : k \in Good
    <2> HIDE DEF n
    <2>1. QED
      BY <1>2, <1>3, <1>4, UpTo
  <1>6. n \in Good /\ n \in 0..n
    BY <1>2, <1>5
  <1>7. run[n] \in Seq(Made)
    BY <1>1, <1>6 DEF Judging
  <1>8. QED
    BY <1>1, <1>6, <1>7 DEF Good

-----------------------------------------------------------------------------
\* A confirmation changes neither whose signals they are nor what they say.
Alike(q, u) ==
  /\ Len(u) = Len(q)
  /\ \A i \in 1..Len(q) :
       u[i].frame = q[i].frame /\ u[i].strategy = q[i].strategy /\ u[i].action = q[i].action

LEMMA ConfirmedKeeps ==
  ASSUME NEW q \in Seq(Made)
  PROVE  Confirmed(q) \in Seq(Made) /\ Alike(q, Confirmed(q))
  <1> DEFINE u == Confirmed(q)
             n == Len(q)
             c(i) == IF q[i].confidence + MtfBoost > 95 THEN 95 ELSE q[i].confidence + MtfBoost
  <1>1. n \in Nat /\ DOMAIN q = 1..n /\ \A i \in 1..n : q[i] \in Made
    BY SequenceParts
  <1>2. MtfBoost \in Nat
    BY AnalystAssumption
  <1>3. DOMAIN u = 1..n
    BY <1>1 DEF Confirmed
  <1>4. ASSUME NEW i \in 1..n
        PROVE  /\ u[i] \in Made /\ u[i].frame = q[i].frame
               /\ u[i].strategy = q[i].strategy /\ u[i].action = q[i].action
    <2>1. q[i] \in Made /\ q[i].confidence \in 0..100
      BY <1>1 DEF Made
    <2>2. c(i) \in 0..100
      <3>1. \A y \in 0..100 : (IF y + MtfBoost > 95 THEN 95 ELSE y + MtfBoost) \in 0..100
        BY <1>2
      <3>2. q[i].confidence \in 0..100
        BY <2>1
      <3> DEFINE z == q[i].confidence
      <3>4. (IF z + MtfBoost > 95 THEN 95 ELSE z + MtfBoost) \in 0..100
        <4> HIDE DEF z
        <4>1. z \in 0..100
          BY <3>2 DEF z
        <4>2. QED
          BY <3>1, <4>1
      <3>3. QED
        BY <3>4
    <2>3. u[i] = IF Confirms(q[i].action, q)
                 THEN [q[i] EXCEPT !.boosted = TRUE, !.confidence = c(i)] ELSE q[i]
      BY <1>1 DEF Confirmed
    <2> HIDE DEF u, c
    <2>4. CASE Confirms(q[i].action, q)
      <3>1. u[i] = [q[i] EXCEPT !.boosted = TRUE, !.confidence = c(i)]
        BY <2>3, <2>4
      <3>2. QED
        BY <2>1, <2>2, <3>1 DEF Made
    <2>5. CASE ~Confirms(q[i].action, q)
      BY <2>1, <2>3, <2>5
    <2>6. QED
      BY <2>4, <2>5
  <1>5. u = [i \in 1..n |-> u[i]]
    BY <1>1 DEF Confirmed
  <1> HIDE DEF u
  <1>6. u \in [1..n -> Made]
    BY <1>4, <1>5
  <1>7. u \in Seq(Made) /\ Len(u) = n
    BY <1>1, <1>6
  <1>8. Alike(q, u)
    BY <1>4, <1>7 DEF Alike
  <1>9. QED
    BY <1>7, <1>8 DEF u

(* For each timeframe and strategy: as many signals as the reading gives   *)
(* rise to, and the evidence of each.                                      *)
Contained(q, rd, t, j) ==
  Cardinality(Places(q, Timeframes[t], Strategies[j].name)) =
    IF rd[t] # NoReading THEN Says(j, rd[t], Timeframes[t]) ELSE 0

Backed(q, rd, t, j) ==
  \A i \in Places(q, Timeframes[t], Strategies[j].name) :
    Evidenced(Strategies[j], q[i].action, rd[t])

Stand(q, rd) ==
  \A t \in DOMAIN Timeframes, j \in DOMAIN Strategies : Contained(q, rd, t, j) /\ Backed(q, rd, t, j)

LEMMA StandIsSignalsStand == Stand(emitted, read) <=> SignalsStand
  <1>1. ASSUME NEW t \in DOMAIN Timeframes, NEW j \in DOMAIN Strategies
        PROVE  Contained(emitted, read, t, j) <=>
                 Cardinality(Places(emitted, Timeframes[t], Strategies[j].name)) =
                   IF read[t] # NoReading /\ Strategies[j].name \notin Broken
                   THEN Len(Judge(Strategies[j], read[t], Timeframes[t])) ELSE 0
    BY DEF Contained, Says, Sound
  <1>2. FailureIsContained <=>
          \A t \in DOMAIN Timeframes, j \in DOMAIN Strategies : Contained(emitted, read, t, j)
    BY <1>1 DEF FailureIsContained
  <1>3. EvidenceIsThere <=>
          \A t \in DOMAIN Timeframes, j \in DOMAIN Strategies : Backed(emitted, read, t, j)
    BY DEF EvidenceIsThere, Backed, Evidenced
  <1>4. QED
    BY <1>2, <1>3 DEF Stand, SignalsStand

\* Signals stand after a confirmation as before.
LEMMA ConfirmationStands ==
  ASSUME NEW q \in Seq(Made), NEW rd, Stand(q, rd)
  PROVE  Confirmed(q) \in Seq(Made) /\ Stand(Confirmed(q), rd)
  <1> DEFINE u == Confirmed(q)
  <1>1. u \in Seq(Made) /\ Alike(q, u)
    BY ConfirmedKeeps
  <1> HIDE DEF u
  <1>2. DOMAIN q = 1..Len(q) /\ DOMAIN u = 1..Len(q)
    BY <1>1, SequenceParts DEF Alike
  <1>3. \A t, name : Places(u, t, name) = Places(q, t, name)
    BY <1>1, <1>2 DEF Alike, Places
  <1>4. ASSUME NEW t \in DOMAIN Timeframes, NEW j \in DOMAIN Strategies
        PROVE  Contained(u, rd, t, j) /\ Backed(u, rd, t, j)
    <2>1. Contained(q, rd, t, j) /\ Backed(q, rd, t, j)
      BY DEF Stand
    <2>2. Contained(u, rd, t, j)
      BY <1>3, <2>1 DEF Contained
    <2>3. \A i \in Places(q, Timeframes[t], Strategies[j].name) : u[i].action = q[i].action
      BY <1>1, <1>2 DEF Alike, Places
    <2>4. Backed(u, rd, t, j)
      BY <1>3, <2>1, <2>3 DEF Backed
    <2>5. QED
      BY <2>2, <2>4
  <1>5. QED
    BY <1>1, <1>4 DEF Stand, u

\* One timeframe more is read.
LEMMA ReadingStands ==
  ASSUME NEW q \in Seq(Made), NEW rd, Stand(q, rd), DOMAIN rd = DOMAIN Timeframes,
         NEW f \in DOMAIN Timeframes, rd[f] = NoReading,
         NEW r, DOMAIN r = ReadingFields
  PROVE  /\ Judged(q, r, Timeframes[f]) \in Seq(Made)
         /\ Stand(Judged(q, r, Timeframes[f]), [rd EXCEPT ![f] = r])
  <1> DEFINE tf == Timeframes[f]
             u == Judged(q, r, tf)
             after == [rd EXCEPT ![f] = r]
             n == Len(q)
  <1>1. tf \in STRING /\ \A t \in DOMAIN Timeframes : t # f => Timeframes[t] # tf
    BY AnalystAssumption
  <1>2. \A j \in DOMAIN Strategies : Cardinality(Places(q, tf, Strategies[j].name)) = 0
    BY DEF Stand, Contained
  <1>3. u \in Seq(Made) /\ Gathered(q, u, r, tf, Len(Strategies))
    <2> HIDE DEF tf
    <2>1. QED
      BY <1>1, <1>2, JudgedGathers
  <1> HIDE DEF u
  <1>4. /\ OthersStay(q, u, tf) /\ NewAreShown(q, u, r)
        /\ \A j \in DOMAIN Strategies :
             Cardinality(Places(u, tf, Strategies[j].name)) = Says(j, r, tf)
    <2>1. \A j \in DOMAIN Strategies : j <= Len(Strategies)
      BY AnalystAssumption
    <2>2. QED
      BY <1>3, <2>1 DEF Gathered
  <1>5. after[f] = r /\ \A t \in DOMAIN Timeframes : t # f => after[t] = rd[t]
    OBVIOUS
  <1>6. r # NoReading
    <2>1. DOMAIN NoReading = {"price"} /\ "volume" \in ReadingFields
      BY DEF NoReading, ReadingFields
    <2>2. QED
      BY <2>1
  <1>7. /\ n \in Nat /\ Len(u) \in Nat /\ n <= Len(u)
        /\ DOMAIN q = 1..n /\ DOMAIN u = 1..Len(u)
    BY <1>3, <1>4, SequenceParts DEF OthersStay
  <1> HIDE DEF n, after, tf
  <1>8. \A i \in 1..n : i \in 1..Len(u) /\ u[i] = q[i]
    BY <1>4, <1>7 DEF OthersStay, n
  <1>9. \A i \in 1..Len(u) : i \in 1..n \/ i > n
    BY <1>7
  <1>10. ASSUME NEW j \in DOMAIN Strategies
         PROVE  Contained(u, after, f, j) /\ Backed(u, after, f, j)
    <2>1. Contained(u, after, f, j)
      BY <1>4, <1>5, <1>6 DEF Contained, tf
    <2>2. ASSUME NEW i \in Places(u, tf, Strategies[j].name)
          PROVE  Evidenced(Strategies[j], u[i].action, r)
      <3>1. i \in 1..Len(u) /\ u[i].frame = tf /\ u[i].strategy = Strategies[j].name
        BY <1>7 DEF Places
      <3>2. i \notin 1..n
        <4>1. Places(q, tf, Strategies[j].name) = {}
          BY <1>2, PlacesAreFinite
        <4>2. QED
          BY <1>7, <1>8, <3>1, <4>1 DEF Places
      <3>3. i > n
        BY <1>9, <3>1, <3>2
      <3>4. PICK l \in DOMAIN Strategies :
              u[i].strategy = Strategies[l].name /\ Evidenced(Strategies[l], u[i].action, r)
        BY <1>4, <3>1, <3>3 DEF NewAreShown, n
      <3>5. l = j
        BY <3>1, <3>4, AnalystAssumption
      <3>6. QED
        BY <3>4, <3>5
    <2>3. Backed(u, after, f, j)
      BY <1>5, <2>2 DEF Backed, tf
    <2>4. QED
      BY <2>1, <2>3
  <1>11. ASSUME NEW t \in DOMAIN Timeframes, t # f, NEW j \in DOMAIN Strategies
         PROVE  Contained(u, after, t, j) /\ Backed(u, after, t, j)
    <2>1. Contained(q, rd, t, j) /\ Backed(q, rd, t, j)
      BY DEF Stand
    <2>2. Timeframes[t] # tf /\ after[t] = rd[t]
      BY <1>1, <1>5, <1>11
    <2>3. \A i \in 1..Len(u) : u[i].frame = Timeframes[t] => i \in 1..n
      BY <1>4, <1>9, <2>2 DEF OthersStay, n
    <2>4. Places(u, Timeframes[t], Strategies[j].name) = Places(q, Timeframes[t], Strategies[j].name)
      BY <1>7, <1>8, <2>3 DEF Places
    <2>5. Contained(u, after, t, j)
      BY <2>1, <2>2, <2>4 DEF Contained
    <2>6. \A i \in Places(q, Timeframes[t], Strategies[j].name) : u[i] = q[i]
      BY <1>7, <1>8 DEF Places
    <2>7. Backed(u, after, t, j)
      BY <2>1, <2>2, <2>4, <2>6 DEF Backed
    <2>8. QED
      BY <2>5, <2>7
  <1>12. Stand(u, after)
    BY <1>10, <1>11 DEF Stand
  <1>13. QED
    BY <1>3, <1>12 DEF u, after, tf

(* The invariant: what was read is what the signals are judged by, and     *)
(* what is still to be read has given nothing.                             *)
AnalystIInv ==
  /\ frame \in 1..(Len(Timeframes) + 1)
  /\ DOMAIN read = DOMAIN Timeframes
  /\ \A t \in DOMAIN Timeframes : t >= frame => read[t] = NoReading
  /\ emitted \in Seq(Made)
  /\ Stand(emitted, read)

\* No signals stand on no readings.
LEMMA NothingStands ==
  /\ <<>> \in Seq(Made) /\ Stand(<<>>, [t \in DOMAIN Timeframes |-> NoReading])
  <1> DEFINE rd == [t \in DOMAIN Timeframes |-> NoReading]
  <1>1. \A t, name : Places(<<>>, t, name) = {}
    BY DEF Places
  <1>2. \A t \in DOMAIN Timeframes : rd[t] = NoReading
    OBVIOUS
  <1>3. Cardinality({}) = 0
    BY FS_EmptySet
  <1> HIDE DEF rd
  <1>4. Stand(<<>>, rd)
    BY <1>1, <1>2, <1>3 DEF Stand, Contained, Backed
  <1>5. <<>> \in Seq(Made)
    OBVIOUS
  <1>6. QED
    BY <1>4, <1>5 DEF rd

LEMMA AnalystInitIInv == AnalystInit => AnalystIInv
  <1> SUFFICES ASSUME AnalystInit PROVE AnalystIInv
    OBVIOUS
  <1>1. frame = 1 /\ emitted = <<>> /\ read = [t \in DOMAIN Timeframes |-> NoReading]
    BY DEF AnalystInit
  <1>2. 1 \in 1..(Len(Timeframes) + 1)
    BY AnalystAssumption
  <1>3. Stand(emitted, read) /\ emitted \in Seq(Made)
    BY <1>1, NothingStands
  <1>4. QED
    BY <1>1, <1>2, <1>3 DEF AnalystIInv

\* What is passed on stands, confirmed or not.
LEMMA PassedStands ==
  ASSUME NEW q \in Seq(Made), Stand(q, read'), Passed(q)
  PROVE  emitted' \in Seq(Made) /\ Stand(emitted', read')
  <1>1. emitted' = q \/ emitted' = Confirmed(q)
    BY DEF Passed
  <1> DEFINE rd == read'
  <1>2. Stand(q, rd)
    OBVIOUS
  <1> HIDE DEF rd
  <1>3. Confirmed(q) \in Seq(Made) /\ Stand(Confirmed(q), rd)
    BY <1>2, ConfirmationStands
  <1>4. QED
    BY <1>1, <1>2, <1>3 DEF rd

LEMMA AnalystNextIInv == AnalystIInv /\ [AnalystNext]_analystVars => AnalystIInv'
  <1> SUFFICES ASSUME AnalystIInv, [AnalystNext]_analystVars PROVE AnalystIInv'
    OBVIOUS
  <1> DEFINE n == Len(Timeframes)
  <1>1. /\ frame \in 1..(n + 1) /\ DOMAIN read = DOMAIN Timeframes
        /\ \A t \in DOMAIN Timeframes : t >= frame => read[t] = NoReading
        /\ emitted \in Seq(Made) /\ Stand(emitted, read)
    BY DEF AnalystIInv
  <1>2. n \in Nat /\ DOMAIN Timeframes = 1..n
    BY AnalystAssumption
  <1>3. CASE ReadTimeframe
    <2>1. PICK quoted \in Readings, lapse \in Lapses :
            /\ frame <= n
            /\ read' = [read EXCEPT ![frame] = ComputedFrom(quoted, lapse)]
            /\ Passed(Judged(emitted, ComputedFrom(quoted, lapse), Timeframes[frame]))
      BY <1>3 DEF ReadTimeframe
    <2> DEFINE r == ComputedFrom(quoted, lapse)
               q == Judged(emitted, r, Timeframes[frame])
    <2>2. DOMAIN r = ReadingFields
      BY AnalystAssumption DEF ComputedFrom
    <2> HIDE DEF r
    <2>3. frame \in DOMAIN Timeframes /\ read[frame] = NoReading
      BY <1>1, <1>2, <2>1
    <2>4. read' = [read EXCEPT ![frame] = r] /\ Passed(q)
      BY <2>1 DEF r
    <2>5. q \in Seq(Made) /\ Stand(q, [read EXCEPT ![frame] = r])
      BY <1>1, <2>2, <2>3, ReadingStands
    <2> HIDE DEF q
    <2>6. emitted' \in Seq(Made) /\ Stand(emitted', read')
      BY <2>4, <2>5, PassedStands
    <2>7. frame' = frame + 1 /\ frame' \in 1..(n + 1)
      <3>1. frame' = frame + 1
        BY <2>4 DEF Passed
      <3>2. frame \in 1..(n + 1) /\ frame <= n /\ n \in Nat
        BY <1>1, <1>2, <2>1
      <3> HIDE DEF n
      <3>3. QED
        BY <3>1, <3>2
    <2>8. \A t \in DOMAIN Timeframes : t >= frame' => read'[t] = NoReading
      BY <1>1, <1>2, <2>4, <2>7
    <2>9. DOMAIN read' = DOMAIN Timeframes
      BY <1>1, <2>4
    <2>10. QED
      BY <2>6, <2>7, <2>8, <2>9 DEF AnalystIInv
  <1>4. CASE SkipTimeframe
    <2>1. frame <= n /\ read' = read /\ Passed(emitted)
      BY <1>4 DEF SkipTimeframe
    <2>2. emitted' \in Seq(Made) /\ Stand(emitted', read')
      BY <1>1, <2>1, PassedStands
    <2>3. frame' = frame + 1 /\ frame' \in 1..(n + 1)
      <3>1. frame' = frame + 1
        BY <2>1 DEF Passed
      <3>2. frame \in 1..(n + 1) /\ frame <= n /\ n \in Nat
        BY <1>1, <1>2, <2>1
      <3> HIDE DEF n
      <3>3. QED
        BY <3>1, <3>2
    <2>4. \A t \in DOMAIN Timeframes : t >= frame' => read'[t] = NoReading
      BY <1>1, <1>2, <2>1, <2>3
    <2>5. QED
      BY <1>1, <2>1, <2>2, <2>3, <2>4 DEF AnalystIInv
  <1>5. CASE NextSymbol
    <2>1. frame' = 1 /\ emitted' = <<>> /\ read' = [t \in DOMAIN Timeframes |-> NoReading]
      BY <1>5 DEF NextSymbol
    <2>2. 1 \in 1..(n + 1)
      BY <1>2
    <2>3. Stand(emitted', read') /\ emitted' \in Seq(Made)
      BY <2>1, NothingStands
    <2>4. QED
      BY <2>1, <2>2, <2>3 DEF AnalystIInv
  <1>6. CASE UNCHANGED analystVars
    <2>1. frame' = frame /\ read' = read /\ emitted' = emitted
      BY <1>6 DEF analystVars
    <2>2. QED
      BY <1>1, <2>1 DEF AnalystIInv
  <1>7. QED
    BY <1>3, <1>4, <1>5, <1>6 DEF AnalystNext

(* In every behaviour of the analyst the signals so far stand on what was  *)
(* read so far, and the timeframes to come have given nothing.             *)
THEOREM AnalystInvariant == AnalystSpec => []AnalystIInv
  <1>1. QED
    BY AnalystInitIInv, AnalystNextIInv, PTL DEF AnalystSpec

LEMMA AnalystIInvTypes == AnalystIInv => AnalystTypeOK
  <1> SUFFICES ASSUME AnalystIInv PROVE AnalystTypeOK
    OBVIOUS
  <1>1. frame \in 1..(Len(Timeframes) + 1) /\ emitted \in Seq(Made)
    BY DEF AnalystIInv
  <1>2. \A i \in DOMAIN emitted : emitted[i] \in Made
    BY <1>1
  <1>3. QED
    BY <1>1, <1>2 DEF AnalystTypeOK, Made

(* Whichever timeframes and strategies fail, however many there are, every *)
(* sound strategy has its say once on every timeframe read, with as many   *)
(* conditions behind it as it demands whose values were all there, boosted *)
(* or not (analyst.py: the loops over timeframes and strategies, and       *)
(* _evaluate_condition).                                                   *)
THEOREM SignalsTruth == AnalystSpec => []SignalsStand
  <1>1. AnalystIInv => SignalsStand
    BY StandIsSignalsStand DEF AnalystIInv
  <1>2. QED
    BY <1>1, AnalystInvariant, PTL

(* A confidence stays between nought and one, whatever the boosters and    *)
(* the confirmation add.                                                   *)
THEOREM AnalystTypes == AnalystSpec => []AnalystTypeOK
  <1>1. QED
    BY AnalystInvariant, AnalystIInvTypes, PTL

-----------------------------------------------------------------------------
(* The agents side by side.                                                *)

(* A cycle that ends was started: a cut of the memory is paid for by a     *)
(* run.                                                                    *)
CyclesOn == {c \in Cycles : cycle[c].on}

SeekerCounts ==
  /\ runs \in 0..MaxRuns /\ cuts \in Nat
  /\ IsFiniteSet(CyclesOn) /\ cuts + Cardinality(CyclesOn) <= runs

\* A cycle stops, and cuts at most once.
LEMMA StoppingCounts ==
  ASSUME SeekerIInv, SeekerCounts, NEW c \in Cycles, cycle[c].on,
         cycle' = [cycle EXCEPT ![c] = Quiet], runs' = runs, cuts' \in {cuts, cuts + 1}
  PROVE  SeekerCounts'
  <1>1. /\ runs \in 0..MaxRuns /\ cuts \in Nat
        /\ IsFiniteSet(CyclesOn) /\ cuts + Cardinality(CyclesOn) <= runs
    BY DEF SeekerCounts
  <1>2. DOMAIN cycle = Cycles
    BY DEF SeekerIInv
  <1>3. CyclesOn' = CyclesOn \ {c}
    BY <1>2 DEF CyclesOn, Quiet
  <1>4. c \in CyclesOn
    BY DEF CyclesOn
  <1>5. IsFiniteSet(CyclesOn') /\ Cardinality(CyclesOn') = Cardinality(CyclesOn) - 1
    BY <1>1, <1>3, <1>4, FS_RemoveElement
  <1>6. Cardinality(CyclesOn) \in Nat
    BY <1>1, FS_CardinalityType
  <1>7. MaxRuns \in Nat
    BY SeekerAssumption
  <1>8. QED
    BY <1>1, <1>5, <1>6, <1>7 DEF SeekerCounts

\* Every step of the seeker keeps the count.
LEMMA SeekerNextCounts ==
  SeekerIInv /\ SeekerCounts /\ [SeekerNext]_seekerVars => SeekerCounts'
  <1> SUFFICES ASSUME SeekerIInv, SeekerCounts, [SeekerNext]_seekerVars PROVE SeekerCounts'
    OBVIOUS
  <1>1. /\ runs \in 0..MaxRuns /\ cuts \in Nat
        /\ IsFiniteSet(CyclesOn) /\ cuts + Cardinality(CyclesOn) <= runs
    BY DEF SeekerCounts
  <1>2. Cardinality(CyclesOn) \in Nat /\ MaxRuns \in Nat
    BY <1>1, FS_CardinalityType, SeekerAssumption
  <1>3. DOMAIN cycle = Cycles
    BY DEF SeekerIInv
  <1>4. ASSUME NEW c \in Cycles, RunCycle(c) PROVE SeekerCounts'
    <2>1. c \notin CyclesOn /\ runs < MaxRuns /\ runs' = runs + 1 /\ cuts' = cuts
      BY <1>4 DEF RunCycle, CyclesOn
    <2>2. CyclesOn' = CyclesOn \cup {c}
      BY <1>3, <1>4 DEF RunCycle, CyclesOn
    <2>3. IsFiniteSet(CyclesOn') /\ Cardinality(CyclesOn') = Cardinality(CyclesOn) + 1
      BY <1>1, <2>1, <2>2, FS_AddElement
    <2>4. QED
      BY <1>1, <1>2, <2>1, <2>3 DEF SeekerCounts
  <1>5. ASSUME NEW c \in Cycles, CycleEnds(c) PROVE SeekerCounts'
    <2>1. /\ cycle[c].on /\ cycle' = [cycle EXCEPT ![c] = Quiet] /\ runs' = runs
          /\ cuts' \in {cuts, cuts + 1}
      BY <1>5 DEF CycleEnds
    <2>2. QED
      BY <2>1, StoppingCounts
  <1>6. ASSUME NEW c \in Cycles, CycleCancelled(c) PROVE SeekerCounts'
    <2>1. /\ cycle[c].on /\ cycle' = [cycle EXCEPT ![c] = Quiet] /\ runs' = runs
          /\ cuts' \in {cuts, cuts + 1}
      BY <1>6 DEF CycleCancelled
    <2>2. QED
      BY <2>1, StoppingCounts
  <1>7. ASSUME NEW c \in Cycles, NEW s \in EventSources, NEW events, SourceAnswers(c, s, events)
        PROVE  SeekerCounts'
    <2>1. runs' = runs /\ cuts' = cuts
      BY <1>7 DEF SourceAnswers
    <2>2. CyclesOn' = CyclesOn
      BY <1>3, <1>7 DEF SourceAnswers, CyclesOn, SeekerIInv
    <2>3. QED
      BY <1>1, <2>1, <2>2 DEF SeekerCounts
  <1>8. CASE UNCHANGED seekerVars
    BY <1>8 DEF seekerVars, SeekerCounts, CyclesOn
  <1>9. QED
    BY <1>4, <1>5, <1>6, <1>7, <1>8 DEF SeekerNext

(* Cuts and runs keep within their bound, and a cycle within its sources.  *)
THEOREM SeekerTypes == SeekerSpec => []SeekerTypeOK
  <1>1. SeekerInit => SeekerCounts
    <2> SUFFICES ASSUME SeekerInit PROVE SeekerCounts
      OBVIOUS
    <2>1. CyclesOn = {} /\ runs = 0 /\ cuts = 0
      BY DEF SeekerInit, CyclesOn, Quiet
    <2>2. IsFiniteSet({}) /\ Cardinality({}) = 0 /\ MaxRuns \in Nat
      BY FS_EmptySet, SeekerAssumption
    <2>3. QED
      BY <2>1, <2>2 DEF SeekerCounts
  <1>2. SeekerIInv /\ SeekerCounts => SeekerTypeOK
    <2> SUFFICES ASSUME SeekerIInv, SeekerCounts PROVE SeekerTypeOK
      OBVIOUS
    <2>1. runs \in 0..MaxRuns /\ cuts \in 0..MaxRuns
      <3>1. Cardinality(CyclesOn) \in Nat /\ MaxRuns \in Nat
        BY FS_CardinalityType, SeekerAssumption DEF SeekerCounts
      <3>2. QED
        BY <3>1 DEF SeekerCounts
    <2>2. QED
      BY <2>1 DEF SeekerIInv, SeekerTypeOK
  <1>3. QED
    BY <1>1, <1>2, SeekerInvariant, SeekerNextCounts, PTL DEF SeekerSpec

\* The window never leaves the candles.
WindowFits == window \in Int \X Nat /\ window[1] <= window[2] /\ window[2] <= Len(candles)

\* A window moves on by a candle, while there is one.
LEMMA WindowStaysWithin == WindowFits /\ [BacktestNext]_backtestVars => WindowFits'
  <1> SUFFICES ASSUME WindowFits, [BacktestNext]_backtestVars PROVE WindowFits'
    OBVIOUS
  <1>1. Lookback \in Nat \ {0}
    BY BacktestAssumption
  <1>2. window[2] \in Nat
    BY DEF WindowFits
  <1>3. ASSUME NEW action, Step(action) PROVE WindowFits'
    <2>1. HasWindow /\ window' = WindowOf(NextEnd) /\ candles' = candles
      BY <1>3 DEF Step
    <2>2. NextEnd \in Nat /\ NextEnd <= Len(candles)
      BY <1>1, <1>2, <2>1 DEF HasWindow, NextEnd
    <2>3. window' = <<NextEnd - Lookback + 1, NextEnd>>
      BY <2>1 DEF WindowOf
    <2> DEFINE e == NextEnd
    <2> HIDE DEF e
    <2>4. e \in Nat /\ e <= Len(candles) /\ window' = <<e - Lookback + 1, e>>
      BY <2>2, <2>3 DEF e
    <2>5. window' \in Int \X Nat /\ window'[1] = e - Lookback + 1 /\ window'[2] = e
      BY <1>1, <2>4
    <2>6. e - Lookback + 1 <= e
      BY <1>1, <2>4
    <2>7. QED
      BY <2>1, <2>4, <2>5, <2>6 DEF WindowFits
  <1>4. CASE Finalize
    BY <1>4 DEF Finalize, WindowFits
  <1>5. CASE UNCHANGED backtestVars
    BY <1>5 DEF backtestVars, WindowFits
  <1>6. QED
    BY <1>3, <1>4, <1>5 DEF BacktestNext

(* The money and the window of a backtest keep within their bounds.        *)
THEOREM BacktestTypes == BacktestSpec => []BacktestTypeOK
  <1>1. BacktestInit => WindowFits
    <2> SUFFICES ASSUME BacktestInit PROVE WindowFits
      OBVIOUS
    <2>1. PICK n \in 1..MaxCandles : candles \in [1..n -> Closes]
      BY DEF BacktestInit
    <2>2. n \in Nat /\ Len(candles) = n
      BY <2>1, BacktestAssumption
    <2>3. QED
      BY <2>2 DEF BacktestInit, WindowFits
  <1>2. BacktestIInv /\ WindowFits => BacktestTypeOK
    <2> SUFFICES ASSUME BacktestIInv, WindowFits PROVE BacktestTypeOK
      OBVIOUS
    <2>1. cash \in Nat /\ position \in Positions /\ candles \in Seq(Closes)
      BY DEF BacktestIInv
    <2>2. Len(candles) \in Nat /\ window[2] \in Nat
      BY <2>1 DEF WindowFits
    <2>3. QED
      BY <2>1, <2>2 DEF WindowFits, BacktestTypeOK, Positions
  <1>3. QED
    BY <1>1, <1>2, BacktestInvariant, WindowStaysWithin, PTL DEF BacktestSpec

(* The composition does to each component what its own specification says, *)
(* whichever of them is exercised.                                         *)
LEMMA StepsAreTheirOwn ==
  [AgentsNext]_agentsVars =>
    /\ [EngineNext]_engineVars /\ [MonitorNext]_monitorVars /\ [GraphNext]_graphVars
    /\ [SeekerNext]_seekerVars /\ [SentimentNext]_sentimentVars /\ [AnalystNext]_analystVars
    /\ [BacktestNext]_backtestVars /\ [RiskNext]_riskVars
  <1> SUFFICES ASSUME [AgentsNext]_agentsVars
               PROVE  /\ [EngineNext]_engineVars /\ [MonitorNext]_monitorVars
                      /\ [GraphNext]_graphVars /\ [SeekerNext]_seekerVars
                      /\ [SentimentNext]_sentimentVars /\ [AnalystNext]_analystVars
                      /\ [BacktestNext]_backtestVars /\ [RiskNext]_riskVars
    OBVIOUS
  <1>1. CASE UNCHANGED agentsVars
    BY <1>1 DEF agentsVars
  <1>2. CASE AgentsNext
    BY <1>2, Zenon DEF AgentsNext, RestBut
  <1>3. QED
    BY <1>1, <1>2

(* A behaviour of the agents side by side is, for each of them, a          *)
(* behaviour of its own specification.                                     *)
THEOREM ComponentsAreThemselves ==
  AgentsSpec =>
    /\ EngineSpec /\ MonitorSpec /\ GraphSpec /\ SeekerSpec
    /\ SentimentSpec /\ AnalystSpec /\ BacktestSpec /\ RiskSpec
  <1>1. AgentsInit => /\ EngineInit /\ MonitorInit /\ GraphInit /\ SeekerInit
                      /\ SentimentInit /\ AnalystInit /\ BacktestInit /\ RiskInit
    BY DEF AgentsInit
  <1>2. QED
    BY <1>1, StepsAreTheirOwn, PTL
       DEF AgentsSpec, EngineSpec, MonitorSpec, GraphSpec, SeekerSpec, SentimentSpec,
           AnalystSpec, BacktestSpec, RiskSpec

(* Whichever component runs, every variable keeps its type.                *)
THEOREM AgentsTypes == AgentsSpec => []AgentsTypeOK
  <1>1. MonitorIInv => MonitorTypeOK
    BY DEF MonitorIInv, MonitorTypeOK, CheckTypes
  <1>2. GraphIInv => GraphTypeOK
    BY DEF GraphIInv, GraphTypeOK, Tables
  <1>3. SentimentIInv => SentimentTypeOK
    <2> SUFFICES ASSUME SentimentIInv PROVE SentimentTypeOK
      OBVIOUS
    <2>1. turn \in 1..(Len(Symbols) + 1) /\ signals \in Seq(Grounded) /\ Len(signals) < turn
      BY DEF SentimentIInv
    <2>2. Len(Symbols) \in Nat /\ Len(signals) \in Nat
      BY <2>1, SentimentAssumption
    <2>3. Len(signals) <= Len(Symbols)
      BY <2>1, <2>2
    <2>4. QED
      BY <2>3 DEF SentimentIInv, SentimentTypeOK, NewsTypes
  <1>4. RiskIInv => RiskTypeOK
    BY DEF RiskIInv, RiskTypeOK
  <1>5. QED
    BY <1>1, <1>2, <1>3, <1>4, ComponentsAreThemselves, MonitorInvariant, GraphInvariant,
       SentimentInvariant, RiskInvariant, EngineTypes, SeekerTypes, AnalystTypes,
       BacktestTypes, PTL
       DEF AgentsTypeOK

(* What is proved of each component holds where they stand side by side.   *)
THEOREM AgentsTruth ==
  AgentsSpec => /\ [](/\ DecisionFollows /\ GraphAnswers /\ AlphaIsSound /\ ScoreIsGrounded
                      /\ SignalsStand /\ BacktestIsHonest /\ SizingAgrees)
                /\ DetectorsAgree
  BY ComponentsAreThemselves, DecisionTruth, GraphTruth, AlphaTruth, ScoreTruth, SignalsTruth,
     BacktestTruth, SizingTruth, DetectorTruth, PTL

=============================================================================
