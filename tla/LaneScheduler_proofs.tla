------------------------ MODULE LaneScheduler_proofs ------------------------
(***************************************************************************)
(* Proofs about LaneScheduler, for any number of tasks, lanes and workers, *)
(* any priorities and any length of the history.                           *)
(***************************************************************************)
EXTENDS LaneScheduler, FiniteSetTheorems, SequenceTheorems, TLAPS

(***************************************************************************)
(* Sequences without repetition, as queues and histories are.              *)
(***************************************************************************)

NoRepeats(s) == \A i, j \in 1..Len(s) : s[i] = s[j] => i = j
Members(s) == {s[i] : i \in 1..Len(s)}

(* s lists the elements of S, each once. *)
Lists(s, S) == s \in Seq(Tasks) /\ NoRepeats(s) /\ Members(s) = S

LEMMA EmptyLists == Lists(<<>>, {})
  BY EmptySeq DEF Lists, NoRepeats, Members

LEMMA AppendLists ==
    ASSUME NEW s, NEW S, Lists(s, S), NEW t \in Tasks, t \notin S
    PROVE  Lists(Append(s, t), S \cup {t})
  <1> DEFINE a == Append(s, t)
  <1>1. /\ s \in Seq(Tasks) /\ Len(s) \in Nat
        /\ a \in Seq(Tasks) /\ Len(a) = Len(s) + 1
        /\ \A i \in 1..Len(s) : a[i] = s[i]
        /\ a[Len(s) + 1] = t
    BY AppendProperties, LenProperties DEF Lists
  <1> HIDE DEF a
  <1>2. \A i \in 1..Len(s) : s[i] # t
    BY DEF Lists, Members
  <1>3. NoRepeats(a)
    BY <1>1, <1>2 DEF Lists, NoRepeats
  <1>4. Members(a) = S \cup {t}
    BY <1>1 DEF Lists, Members
  <1> QED
    BY <1>1, <1>3, <1>4 DEF Lists, a

LEMMA TailLists ==
    ASSUME NEW s, NEW S, Lists(s, S), s # <<>>
    PROVE  Head(s) \in S /\ Head(s) = s[1] /\ Lists(Tail(s), S \ {Head(s)})
  <1>1. /\ s \in Seq(Tasks) /\ Len(s) \in Nat /\ Len(s) # 0
        /\ Tail(s) \in Seq(Tasks) /\ Len(Tail(s)) = Len(s) - 1
        /\ \A i \in 1..Len(Tail(s)) : Tail(s)[i] = s[i + 1]
    BY HeadTailProperties, LenProperties, EmptySeq DEF Lists
  <1>2. Head(s) = s[1]
    BY <1>1
  <1> DEFINE u == Tail(s)
  <1> HIDE DEF u
  <1>3. /\ u \in Seq(Tasks) /\ Len(u) = Len(s) - 1
        /\ \A i \in 1..Len(u) : u[i] = s[i + 1]
    BY <1>1 DEF u
  <1>4. NoRepeats(u)
    BY <1>1, <1>3 DEF Lists, NoRepeats
  <1>5. Members(u) = S \ {s[1]}
    <2>1. ASSUME NEW i \in 1..Len(u)
          PROVE  u[i] \in S \ {s[1]}
      BY <1>1, <1>3 DEF Lists, NoRepeats, Members
    <2>2. ASSUME NEW x \in S \ {s[1]}
          PROVE  \E i \in 1..Len(u) : u[i] = x
      <3>1. PICK j \in 1..Len(s) : s[j] = x
        BY DEF Lists, Members
      <3>2. j - 1 \in 1..Len(u) /\ u[j - 1] = s[j]
        BY <1>1, <1>3, <3>1
      <3> QED
        BY <3>1, <3>2
    <2> QED
      BY <2>1, <2>2 DEF Members
  <1>6. s[1] \in S
    BY <1>1 DEF Lists, Members
  <1> QED
    BY <1>2, <1>3, <1>4, <1>5, <1>6 DEF Lists, u

(* A part of a sequence, given by its first and its last place. *)
LEMMA PartElements ==
    ASSUME NEW s \in Seq(Tasks), NEW m \in Nat, NEW n \in Nat, 1 <= m, m <= n + 1, n <= Len(s)
    PROVE  /\ SubSeq(s, m, n) \in Seq(Tasks) /\ Len(SubSeq(s, m, n)) = n - m + 1
           /\ \A i \in 1..(n - m + 1) : SubSeq(s, m, n)[i] = s[m + i - 1]
  <1> DEFINE c == SubSeq(s, m, n)
  <1>1. \A i \in m..n : s[i] \in Tasks
    BY LenProperties, ElementOfSeq
  <1>2. /\ c \in Seq(Tasks) /\ Len(c) = IF m <= n THEN n - m + 1 ELSE 0
        /\ \A i \in 1..(n - m + 1) : c[i] = s[m + i - 1]
    BY <1>1, SubSeqProperties
  <1> HIDE DEF c
  <1>3. Len(c) = n - m + 1
    BY <1>2
  <1> QED
    BY <1>2, <1>3 DEF c

(* Putting an element in between. *)
Inserted(s, k, t) == SubSeq(s, 1, k) \o <<t>> \o SubSeq(s, k + 1, Len(s))

IsInserted(y, s, k, t) ==
    /\ y \in Seq(Tasks) /\ Len(y) = Len(s) + 1
    /\ \A i \in 1..(Len(s) + 1) :
          y[i] = IF i <= k THEN s[i] ELSE IF i = k + 1 THEN t ELSE s[i - 1]

LEMMA InsertedElements ==
    ASSUME NEW s \in Seq(Tasks), NEW k \in 0..Len(s), NEW t \in Tasks
    PROVE  IsInserted(Inserted(s, k, t), s, k, t)
  <1> DEFINE a == SubSeq(s, 1, k)
             b == SubSeq(s, k + 1, Len(s))
             m == <<t>>
             x == a \o m
  <1>1. Len(s) \in Nat /\ k \in Nat /\ \A i \in 1..Len(s) : s[i] \in Tasks
    BY LenProperties, ElementOfSeq
  <1>2. a \in Seq(Tasks) /\ Len(a) = k /\ \A i \in 1..k : a[i] = s[i]
    <2>1. k <= Len(s) /\ \A i \in 1..k : 1 + i - 1 = i
      BY <1>1
    <2>2. a \in Seq(Tasks) /\ Len(a) = k - 1 + 1 /\ \A i \in 1..(k - 1 + 1) : a[i] = s[1 + i - 1]
      BY <1>1, <2>1, PartElements
    <2> HIDE DEF a
    <2> QED
      BY <1>1, <2>1, <2>2
  <1>3. b \in Seq(Tasks) /\ Len(b) = Len(s) - k /\ \A i \in 1..(Len(s) - k) : b[i] = s[k + i]
    <2>1. /\ b \in Seq(Tasks)
          /\ Len(b) = IF k + 1 <= Len(s) THEN Len(s) - (k + 1) + 1 ELSE 0
          /\ \A i \in 1..(Len(s) - (k + 1) + 1) : b[i] = s[(k + 1) + i - 1]
      BY <1>1, SubSeqProperties
    <2> HIDE DEF b
    <2> QED
      BY <1>1, <2>1
  <1>4. m \in Seq(Tasks) /\ Len(m) = 1 /\ m[1] = t
    OBVIOUS
  <1> HIDE DEF a, b, m
  <1>5. /\ x \in Seq(Tasks) /\ Len(x) = k + 1
        /\ \A i \in 1..(k + 1) : x[i] = IF i <= k THEN a[i] ELSE m[i - k]
    <2>1. a \in Seq(Tasks) /\ m \in Seq(Tasks) /\ Len(a) = k /\ Len(m) = 1
      BY <1>2, <1>4
    <2>2. /\ a \o m \in Seq(Tasks) /\ Len(a \o m) = Len(a) + Len(m)
          /\ \A i \in 1..(Len(a) + Len(m)) : (a \o m)[i] = IF i <= Len(a) THEN a[i] ELSE m[i - Len(a)]
      BY <2>1, ConcatProperties, Zenon
    <2> QED
      BY <2>1, <2>2
  <1> HIDE DEF x
  <1>6. /\ x \o b \in Seq(Tasks) /\ Len(x \o b) = Len(x) + Len(b)
        /\ \A i \in 1..(Len(x) + Len(b)) : (x \o b)[i] = IF i <= Len(x) THEN x[i] ELSE b[i - Len(x)]
    BY <1>3, <1>5, ConcatProperties
  <1>7. Inserted(s, k, t) = x \o b
    BY DEF Inserted, a, b, m, x
  <1> DEFINE y == x \o b
  <1> HIDE DEF y
  <1>8. /\ y \in Seq(Tasks) /\ Len(y) = Len(s) + 1
        /\ \A i \in 1..(Len(s) + 1) : y[i] = IF i <= k + 1 THEN x[i] ELSE b[i - (k + 1)]
    <2>1. Len(x) = k + 1 /\ Len(x) + Len(b) = Len(s) + 1
      BY <1>1, <1>3, <1>5
    <2> QED
      BY <1>6, <2>1 DEF y
  <1>9. ASSUME NEW i \in 1..(Len(s) + 1)
        PROVE  y[i] = IF i <= k THEN s[i] ELSE IF i = k + 1 THEN t ELSE s[i - 1]
    <2>1. CASE i <= k
      BY <1>1, <1>2, <1>5, <1>8, <2>1
    <2>2. CASE i = k + 1
      BY <1>1, <1>4, <1>5, <1>8, <2>2
    <2>3. CASE i > k + 1
      <3>1. i - (k + 1) \in 1..(Len(s) - k)
        BY <1>1, <2>3
      <3>2. y[i] = b[i - (k + 1)]
        BY <1>1, <1>8, <2>3
      <3>4. b[i - (k + 1)] = s[k + (i - (k + 1))]
        BY <1>3, <3>1
      <3>3. k + (i - (k + 1)) = i - 1
        BY <1>1
      <3> QED
        BY <1>1, <2>3, <3>2, <3>3, <3>4
    <2> QED
      BY <1>1, <2>1, <2>2, <2>3
  <1>10. IsInserted(y, s, k, t)
    BY <1>8, <1>9 DEF IsInserted
  <1> QED
    BY <1>7, <1>10 DEF y

LEMMA InsertedLists ==
    ASSUME NEW s, NEW S, Lists(s, S), NEW k \in 0..Len(s), NEW t \in Tasks, t \notin S
    PROVE  Lists(Inserted(s, k, t), S \cup {t})
  <1> DEFINE y == Inserted(s, k, t)
  <1>1. s \in Seq(Tasks) /\ Len(s) \in Nat
    BY LenProperties DEF Lists
  <1>2. /\ y \in Seq(Tasks) /\ Len(y) = Len(s) + 1
        /\ \A i \in 1..(Len(s) + 1) :
             y[i] = IF i <= k THEN s[i] ELSE IF i = k + 1 THEN t ELSE s[i - 1]
    <2>1. IsInserted(y, s, k, t)
      BY <1>1, InsertedElements
    <2> HIDE DEF y
    <2> QED
      BY <2>1 DEF IsInserted
  <1> HIDE DEF y
  <1>3. \A i \in 1..Len(s) : s[i] # t /\ s[i] \in S
    BY DEF Lists, Members
  <1>4. NoRepeats(y)
    <2> SUFFICES ASSUME NEW i \in 1..(Len(s) + 1), NEW j \in 1..(Len(s) + 1), y[i] = y[j]
                 PROVE  i = j
      BY <1>2 DEF NoRepeats
    <2> DEFINE from(n) == IF n <= k THEN n ELSE n - 1
    <2>1. \A n \in 1..(Len(s) + 1) : n # k + 1 => from(n) \in 1..Len(s) /\ y[n] = s[from(n)]
      BY <1>1, <1>2
    <2>2. y[k + 1] = t
      BY <1>1, <1>2
    <2>3. CASE i = k + 1 \/ j = k + 1
      BY <1>3, <2>1, <2>2, <2>3
    <2>4. CASE i # k + 1 /\ j # k + 1
      <3>1. from(i) = from(j)
        BY <2>1, <2>4 DEF Lists, NoRepeats
      <3> QED
        BY <1>1, <2>4, <3>1
    <2> QED
      BY <2>3, <2>4
  <1>5. Members(y) = S \cup {t}
    <2>1. ASSUME NEW i \in 1..Len(y)
          PROVE  y[i] \in S \cup {t}
      BY <1>1, <1>2, <1>3
    <2>2. ASSUME NEW x \in S
          PROVE  \E i \in 1..Len(y) : y[i] = x
      <3>1. PICK j \in 1..Len(s) : s[j] = x
        BY DEF Lists, Members
      <3>2. CASE j <= k
        BY <1>1, <1>2, <3>1, <3>2
      <3>3. CASE j > k
        <4>1. j + 1 \in 1..Len(y) /\ y[j + 1] = s[(j + 1) - 1] /\ (j + 1) - 1 = j
          BY <1>1, <1>2, <3>3
        <4> QED
          BY <3>1, <4>1
      <3> QED
        BY <1>1, <3>2, <3>3
    <2>3. k + 1 \in 1..Len(y) /\ y[k + 1] = t
      BY <1>1, <1>2
    <2> QED
      BY <2>1, <2>2, <2>3 DEF Members
  <1> QED
    BY <1>2, <1>4, <1>5 DEF Lists, y

(***************************************************************************)
(* The history is the end of all that has ended.                           *)
(***************************************************************************)

EndOf(h, e) == Len(h) <= Len(e) /\ \A i \in 1..Len(h) : h[i] = e[Len(e) - Len(h) + i]

LEMMA ReversedElements ==
    ASSUME NEW s \in Seq(Tasks)
    PROVE  /\ Reverse(s) \in Seq(Tasks) /\ Len(Reverse(s)) = Len(s)
           /\ \A i \in 1..Len(s) : Reverse(s)[i] = s[Len(s) - i + 1]
  <1> DEFINE r == Reverse(s)
  <1>1. Len(s) \in Nat /\ \A i \in 1..Len(s) : s[i] \in Tasks
    BY LenProperties, ElementOfSeq
  <1>2. r \in [1..Len(s) -> Tasks] /\ \A i \in 1..Len(s) : r[i] = s[Len(s) - i + 1]
    BY <1>1 DEF Reverse
  <1> HIDE DEF r
  <1>3. r \in Seq(Tasks)
    BY <1>1, <1>2, SeqDef
  <1>4. Len(r) \in Nat /\ 1..Len(r) = 1..Len(s)
    BY <1>2, <1>3, LenProperties
  <1>5. Len(r) = Len(s)
    BY <1>1, <1>4
  <1> QED
    BY <1>2, <1>3, <1>5 DEF r

LEMMA EndIsSuffix ==
    ASSUME NEW h \in Seq(Tasks), NEW e \in Seq(Tasks), EndOf(h, e)
    PROVE  IsSuffix(h, e)
  <1> DEFINE r == Reverse(h)
             q == Reverse(e)
             n == Len(h)
  <1>1. /\ n \in Nat /\ Len(e) \in Nat /\ n <= Len(e)
        /\ r \in Seq(Tasks) /\ Len(r) = n /\ \A i \in 1..n : r[i] = h[n - i + 1]
        /\ q \in Seq(Tasks) /\ Len(q) = Len(e) /\ \A i \in 1..Len(e) : q[i] = e[Len(e) - i + 1]
    BY ReversedElements, LenProperties DEF EndOf
  <1>2. \A i \in 1..n : h[i] = e[Len(e) - n + i]
    BY DEF EndOf
  <1>3. IsPrefix(r, q) <=> Len(r) <= Len(q) /\ SubSeq(r, 1, Len(r)) = SubSeq(q, 1, Len(r))
    BY DEF IsPrefix
  <1>4. IsSuffix(h, e) <=> IsPrefix(r, q)
    BY DEF IsSuffix
  <1> HIDE DEF r, q, n
  <1>5. \A i \in 1..n : r[i] = q[i]
    <2> SUFFICES ASSUME NEW i \in 1..n PROVE r[i] = q[i]
      OBVIOUS
    <2>1. n - i + 1 \in 1..n /\ Len(e) - n + (n - i + 1) = Len(e) - i + 1 /\ i \in 1..Len(e)
      BY <1>1
    <2>2. h[n - i + 1] = e[Len(e) - n + (n - i + 1)]
      BY <1>2, <2>1
    <2> QED
      BY <1>1, <2>1, <2>2
  <1> DEFINE a == SubSeq(r, 1, n)
             b == SubSeq(q, 1, n)
  <1>6. a \in Seq(Tasks) /\ Len(a) = n - 1 + 1 /\ \A i \in 1..(n - 1 + 1) : a[i] = r[1 + i - 1]
    BY <1>1, PartElements
  <1>7. b \in Seq(Tasks) /\ Len(b) = n - 1 + 1 /\ \A i \in 1..(n - 1 + 1) : b[i] = q[1 + i - 1]
    BY <1>1, PartElements
  <1> HIDE DEF a, b
  <1>8. n - 1 + 1 = n /\ \A i \in 1..n : 1 + i - 1 = i
    BY <1>1
  <1>9. Len(a) = n /\ Len(b) = n /\ \A i \in 1..n : a[i] = b[i]
    <2>1. Len(a) = n /\ Len(b) = n
      BY <1>6, <1>7, <1>8
    <2>2. ASSUME NEW i \in 1..n PROVE a[i] = r[i] /\ b[i] = q[i]
      BY <1>6, <1>7, <1>8
    <2> QED
      BY <1>5, <2>1, <2>2
  <1>10. a = b
    BY <1>6, <1>7, <1>9, SeqEqual
  <1> QED
    BY <1>1, <1>3, <1>4, <1>10 DEF a, b

(* A history of n tasks or more, at most m, before the cut and after it.   *)
RecentOf(h, e) ==
    /\ h \in Seq(Tasks) /\ e \in Seq(Tasks)
    /\ Len(h) <= MaxHistory
    /\ EndOf(h, e)
    /\ Len(h) >= KeepHistory \/ h = e

LEMMA RecordedIsRecent ==
    ASSUME NEW h, NEW e, RecentOf(h, e), NEW t \in Tasks
    PROVE  RecentOf(Recorded(h, t), Append(e, t))
  <1> DEFINE a == Append(h, t)
             b == Append(e, t)
  <1>1. /\ Len(h) \in Nat /\ Len(e) \in Nat
        /\ a \in Seq(Tasks) /\ Len(a) = Len(h) + 1 /\ a[Len(h) + 1] = t
        /\ \A i \in 1..Len(h) : a[i] = h[i]
        /\ b \in Seq(Tasks) /\ Len(b) = Len(e) + 1 /\ b[Len(e) + 1] = t
        /\ \A i \in 1..Len(e) : b[i] = e[i]
    BY AppendProperties, LenProperties DEF RecentOf
  <1>2. Recorded(h, t) = IF Len(a) > MaxHistory THEN SubSeq(a, Len(a) - KeepHistory + 1, Len(a)) ELSE a
    BY DEF Recorded
  <1>3. MaxHistory \in Nat /\ KeepHistory \in Nat /\ KeepHistory >= 1 /\ KeepHistory <= MaxHistory
    BY LaneAssumption
  <1>4. h = e => a = b
    OBVIOUS
  <1> HIDE DEF a, b
  <1>5. EndOf(a, b)
    <2>1. Len(h) <= Len(e) /\ \A i \in 1..Len(h) : h[i] = e[Len(e) - Len(h) + i]
      BY DEF RecentOf, EndOf
    <2>2. Len(b) - Len(a) = Len(e) - Len(h)
      BY <1>1
    <2>3. ASSUME NEW i \in 1..Len(a)
          PROVE  a[i] = b[Len(b) - Len(a) + i]
      <3>1. CASE i = Len(h) + 1
        BY <1>1, <2>2, <3>1
      <3>2. CASE i \in 1..Len(h)
        <4>1. Len(e) - Len(h) + i \in 1..Len(e)
          BY <1>1, <2>1, <3>2
        <4> QED
          BY <1>1, <2>1, <2>2, <3>2, <4>1
      <3> QED
        BY <1>1, <3>1, <3>2
    <2> QED
      BY <1>1, <2>1, <2>3 DEF EndOf
  <1>6. CASE Len(a) <= MaxHistory
    <2>1. Len(a) >= KeepHistory \/ a = b
      BY <1>1, <1>3, <1>4 DEF RecentOf
    <2>2. RecentOf(a, b)
      BY <1>1, <1>5, <1>6, <2>1 DEF RecentOf
    <2>3. Recorded(h, t) = a
      BY <1>1, <1>2, <1>3, <1>6
    <2> QED
      BY <2>2, <2>3 DEF b
  <1>7. CASE Len(a) > MaxHistory
    <2> DEFINE m == Len(a) - KeepHistory + 1
               c == SubSeq(a, m, Len(a))
    <2>1. m \in Int /\ m >= 1 /\ m <= Len(a) /\ Len(a) - m + 1 = KeepHistory
      BY <1>1, <1>3, <1>7
    <2>2. m \in Nat /\ m <= Len(a) + 1
      BY <1>1, <1>3, <1>7
    <2>3. /\ c \in Seq(Tasks) /\ Len(c) = Len(a) - m + 1
          /\ \A i \in 1..(Len(a) - m + 1) : c[i] = a[m + i - 1]
      BY <1>1, <2>1, <2>2, PartElements, SMTT(30)
    <2> HIDE DEF c
    <2>4. Len(c) = KeepHistory /\ \A i \in 1..KeepHistory : c[i] = a[Len(a) - KeepHistory + i]
      <3>1. \A i \in 1..KeepHistory : m + i - 1 = Len(a) - KeepHistory + i
        BY <1>1, <1>3
      <3> QED
        BY <2>1, <2>3, <3>1
    <2>5. EndOf(c, b)
      <3>1. Len(a) <= Len(b) /\ \A i \in 1..Len(a) : a[i] = b[Len(b) - Len(a) + i]
        BY <1>5 DEF EndOf
      <3>2. ASSUME NEW i \in 1..KeepHistory
            PROVE  c[i] = b[Len(b) - KeepHistory + i]
        <4>1. /\ Len(a) - KeepHistory + i \in 1..Len(a)
              /\ Len(b) - Len(a) + (Len(a) - KeepHistory + i) = Len(b) - KeepHistory + i
          BY <1>1, <1>3, <1>7
        <4> QED
          BY <2>4, <3>1, <4>1
      <3> QED
        <4>1. Len(c) = KeepHistory /\ KeepHistory <= Len(b)
          BY <1>1, <1>3, <1>7, <2>4, <3>1
        <4> QED
          BY <3>2, <4>1 DEF EndOf
    <2>6. Recorded(h, t) = c
      BY <1>1, <1>2, <1>3, <1>7 DEF c
    <2> QED
      <3>1. RecentOf(c, b)
        BY <1>1, <1>3, <2>3, <2>4, <2>5 DEF RecentOf
      <3> QED
        BY <2>6, <3>1 DEF b
  <1> QED
    BY <1>1, <1>3, <1>6, <1>7

(***************************************************************************)
(* The inductive invariant.                                                *)
(***************************************************************************)

IsLaneTable(f) == f = [l \in Lanes |-> f[l]]

Types ==
    /\ running \in BOOLEAN
    /\ slot \in [Lanes -> Workers \cup {None}]
    /\ pc \in [Workers -> {"unborn", "ready", "rolling", "busy", "dead"}]
    /\ home \in [Workers -> Lanes]
    /\ job \in [Workers -> Tasks \cup {None}]
    /\ doomed \in [Workers -> BOOLEAN]
    /\ active \in [Lanes -> SUBSET Tasks]
    /\ status \in [Tasks -> {"new", "pending", "running"} \cup Finals]
    /\ lane \in [Tasks -> Lanes] /\ prio \in [Tasks -> Priorities \cup {0}]
    /\ stopAt \in 0..NumLanes /\ awaited \in Workers \cup {None}
    /\ overlapped \in BOOLEAN
    /\ IsLaneTable(queue) /\ IsLaneTable(history) /\ IsLaneTable(ended)

In(l, S) == {t \in Tasks : lane[t] = l /\ status[t] \in S}

(* Queues, active sets and records hold what the status says.              *)
InPlace ==
    \A l \in Lanes :
        /\ Lists(queue[l], In(l, {"pending"}))
        /\ active[l] = In(l, {"running"})
        /\ Lists(ended[l], In(l, Finals))
        /\ RecentOf(history[l], ended[l])

(* Every queue is in order of urgency, which the place of the next task    *)
(* is computed from, and tasks are submitted in the order of their numbers.*)
Precedes(f, t, u) == f[t] > f[u] \/ (f[t] = f[u] /\ t < u)

Sorted ==
    \A l \in Lanes : \A i, j \in 1..Len(queue[l]) :
        i < j => Precedes(prio, queue[l][i], queue[l][j])

InTurn == \A t, u \in Tasks : u < t /\ status[t] # "new" => status[u] # "new"

(* A worker that is in an executor holds a running task of its lane, and   *)
(* nobody else does.                                                       *)
JobsRun ==
    /\ \A w \in Workers : pc[w] = "busy" <=> job[w] # None
    /\ \A w \in Workers :
          job[w] # None => status[job[w]] = "running" /\ lane[job[w]] = home[w]
    /\ \A v, w \in Workers : job[v] # None /\ job[v] = job[w] => v = w
    /\ \A t \in Tasks : status[t] = "running" => \E w \in Workers : job[w] = t

Born == {w \in Workers : pc[w] # "unborn"}

(* Workers are created one after the other.                                *)
BornInTurn == Created \in Nat /\ Born = 1..Created

(* Without an overlap the only live worker of a lane is the one that       *)
(* stop() knows of; it goes through the lanes one by one.                  *)
KnownWorkers ==
    /\ slot[1] = None => Born = {}
    /\ ~overlapped =>
          /\ \A w \in Live : slot[home[w]] = w
          /\ stopAt # 0 => /\ ~running
                           /\ awaited = slot[stopAt]
                           /\ \A w \in Live : home[w] >= stopAt
          /\ ~running /\ stopAt = 0 => Live = {}

IInv ==
    /\ Types
    /\ InPlace
    /\ Sorted /\ InTurn
    /\ JobsRun
    /\ BornInTurn /\ KnownWorkers

LEMMA NumberOfLanes ==
    /\ NumLanes \in Nat /\ NumLanes >= 1 /\ 1 \in Lanes
    /\ MaxTasks \in Nat /\ MaxWorkers \in Nat /\ None \notin Nat
    /\ \A l \in Lanes : l \in Nat /\ l >= 1 /\ l <= NumLanes
  BY LaneAssumption DEF Lanes

LEMMA TasksAndWorkersAreNumbers ==
    /\ \A t \in Tasks : t \in Nat /\ t >= 1 /\ t # None
    /\ \A w \in Workers : w \in Nat /\ w >= 1 /\ w <= MaxWorkers /\ w # None
  BY NumberOfLanes DEF Tasks, Workers

LEMMA IntervalCount ==
    ASSUME NEW n \in Nat
    PROVE  IsFiniteSet(1..n) /\ Cardinality(1..n) = n
  <1>1. IsFiniteSet(1..n) /\ Cardinality(1..n) = IF 1 > n THEN 0 ELSE n - 1 + 1
    BY FS_Interval
  <1> QED
    BY <1>1

LEMMA InitIInv == Init => IInv
  <1> SUFFICES ASSUME Init PROVE IInv
    OBVIOUS
  <1>1. Types
    <2>1. lane \in [Tasks -> Lanes] /\ home \in [Workers -> Lanes] /\ stopAt \in 0..NumLanes
      BY NumberOfLanes DEF Init
    <2>2. IsLaneTable(queue) /\ IsLaneTable(history) /\ IsLaneTable(ended)
      BY DEF Init, IsLaneTable
    <2> QED
      BY <2>1, <2>2 DEF Init, Types
  <1>2. InPlace
    <2> SUFFICES ASSUME NEW l \in Lanes
                 PROVE  /\ Lists(queue[l], In(l, {"pending"}))
                        /\ active[l] = In(l, {"running"})
                        /\ Lists(ended[l], In(l, Finals))
                        /\ RecentOf(history[l], ended[l])
      BY DEF InPlace
    <2>1. In(l, {"pending"}) = {} /\ In(l, {"running"}) = {} /\ In(l, Finals) = {}
      BY DEF Init, In, Finals
    <2>2. RecentOf(<<>>, <<>>)
      BY EmptySeq, LaneAssumption DEF RecentOf, EndOf
    <2> QED
      BY <2>1, <2>2, EmptyLists DEF Init
  <1>3. Sorted /\ InTurn
    BY EmptySeq DEF Init, Sorted, InTurn
  <1>4. JobsRun
    BY DEF Init, JobsRun
  <1>5. Born = {} /\ Live = {} /\ Created = 0
    BY FS_EmptySet DEF Init, Born, Live, Created
  <1>6. BornInTurn /\ KnownWorkers
    BY <1>5 DEF BornInTurn, KnownWorkers, Init
  <1> QED
    BY <1>1, <1>2, <1>3, <1>4, <1>6 DEF IInv

(***************************************************************************)
(* Tasks change their places.                                              *)
(***************************************************************************)

LEMMA MovedIn ==
    ASSUME Types, NEW t \in Tasks, NEW s, status' = [status EXCEPT ![t] = s], lane' = lane,
           NEW l, NEW S
    PROVE  In(l, S)' = IF lane[t] = l /\ s \in S THEN In(l, S) \cup {t} ELSE In(l, S) \ {t}
  BY DEF Types, In

(* How many tasks of a sorted queue a new one is put behind.               *)
LEMMA AheadIsPrefix ==
    ASSUME Types, InPlace, Sorted, NEW l \in Lanes, NEW p \in Priorities,
           NEW k, k = Cardinality({i \in DOMAIN queue[l] : prio[queue[l][i]] >= p})
    PROVE  /\ k \in 0..Len(queue[l])
           /\ \A i \in 1..Len(queue[l]) : i <= k <=> prio[queue[l][i]] >= p
  <1> DEFINE q == queue[l]
             A == {i \in DOMAIN q : prio[q[i]] >= p}
  <1>1. /\ q \in Seq(Tasks) /\ Len(q) \in Nat /\ DOMAIN q = 1..Len(q)
        /\ \A i \in 1..Len(q) : q[i] \in Tasks
    BY LenProperties, ElementOfSeq DEF InPlace, Lists
  <1>2. p \in Int /\ \A t \in Tasks : prio[t] \in Int
    <2>1. prio \in [Tasks -> Priorities \cup {0}]
      BY DEF Types
    <2>2. Priorities \subseteq Int
      BY LaneAssumption
    <2>3. ASSUME NEW t \in Tasks
          PROVE  prio[t] \in Int
      <3>1. prio[t] \in Priorities \/ prio[t] = 0
        BY <2>1
      <3>2. 0 \in Int
        OBVIOUS
      <3> QED
        BY <2>2, <3>1, <3>2, Zenon
    <2> QED
      BY <2>2, <2>3
  <1>3. \A i, j \in 1..Len(q) : i < j => prio[q[i]] >= prio[q[j]]
    BY <1>1, <1>2 DEF Sorted, Precedes
  <1>4. A \subseteq 1..Len(q) /\ k = Cardinality(A)
    BY <1>1
  <1>5. \A i \in A : 1..i \subseteq A
    <2> SUFFICES ASSUME NEW i \in A, NEW j \in 1..i, j < i PROVE j \in A
      BY <1>1
    <2>1. i \in 1..Len(q) /\ j \in 1..Len(q) /\ prio[q[i]] >= p
      BY <1>1
    <2>2. prio[q[j]] >= prio[q[i]] /\ prio[q[j]] \in Int /\ prio[q[i]] \in Int
      BY <1>1, <1>2, <1>3, <2>1
    <2> QED
      BY <1>1, <1>2, <2>1, <2>2
  <1>6. \A i \in 1..Len(q) : i \in A <=> prio[q[i]] >= p
    BY <1>1
  <1> HIDE DEF A, q
  <1>7. IsFiniteSet(A) /\ k \in Nat /\ k <= Len(q)
    <2>1. IsFiniteSet(1..Len(q)) /\ Cardinality(1..Len(q)) = Len(q)
      BY <1>1, IntervalCount
    <2> QED
      BY <1>1, <1>4, <2>1, FS_Subset, FS_CardinalityType
  <1>8. \A i \in A : i <= k
    <2> SUFFICES ASSUME NEW i \in A PROVE i <= k
      OBVIOUS
    <2>1. i \in Nat /\ i >= 1
      BY <1>1, <1>4
    <2>2. Cardinality(1..i) = i
      BY <2>1, IntervalCount
    <2>3. Cardinality(1..i) <= Cardinality(A)
      BY <1>5, <1>7, FS_Subset
    <2> QED
      BY <1>4, <2>2, <2>3
  <1>9. A = 1..k
    <2>1. A \subseteq 1..k
      BY <1>1, <1>4, <1>7, <1>8
    <2>2. IsFiniteSet(1..k) /\ Cardinality(1..k) = k
      BY <1>7, IntervalCount
    <2> QED
      BY <1>4, <2>1, <2>2, FS_Subset
  <1> QED
    BY <1>1, <1>6, <1>7, <1>9 DEF q

LEMMA PrioritiesAreNumbers ==
    ASSUME Types
    PROVE  /\ \A p \in Priorities : p \in Int
           /\ \A t \in Tasks : prio[t] \in Int
  <1>1. prio \in [Tasks -> Priorities \cup {0}]
    BY DEF Types
  <1>2. Priorities \subseteq Int /\ 0 \in Int
    BY LaneAssumption
  <1>3. \A t \in Tasks : prio[t] \in Priorities \/ prio[t] = 0
    BY <1>1
  <1> QED
    BY <1>2, <1>3, Zenon

(* Everything about a lane's tasks, in one line. *)
LaneInPlace(l) ==
    /\ Lists(queue[l], In(l, {"pending"}))
    /\ active[l] = In(l, {"running"})
    /\ Lists(ended[l], In(l, Finals))
    /\ RecentOf(history[l], ended[l])

LEMMA InPlaceByLane == InPlace <=> \A l \in Lanes : LaneInPlace(l)
  BY DEF InPlace, LaneInPlace

(* A submitted task is put behind those that are as urgent.                *)
LEMMA SubmitTasks ==
    ASSUME IInv, NEW t \in Tasks, NEW l \in Lanes, NEW p \in Priorities, Submit(t, l, p)
    PROVE  InPlace' /\ Sorted' /\ InTurn' /\ JobsRun'
  <1> DEFINE k == Cardinality({i \in DOMAIN queue[l] : prio[queue[l][i]] >= p})
             q == queue[l]
             y == Inserted(q, k, t)
  <1>1. Types /\ InPlace /\ Sorted /\ InTurn /\ JobsRun
    BY DEF IInv
  <1>2. /\ status[t] = "new"
        /\ status' = [status EXCEPT ![t] = "pending"]
        /\ lane' = [lane EXCEPT ![t] = l] /\ prio' = [prio EXCEPT ![t] = p]
        /\ UNCHANGED <<active, history, ended, pc, home, job>>
    BY DEF Submit, workerVars
  <1>3. queue' = [queue EXCEPT ![l] = y]
    BY DEF Submit, Enqueued, Inserted
  <1>4. k \in 0..Len(q) /\ \A i \in 1..Len(q) : i <= k <=> prio[q[i]] >= p
    BY <1>1, AheadIsPrefix
  <1>5. Lists(q, In(l, {"pending"})) /\ t \notin In(l, {"pending"})
    BY <1>1, <1>2 DEF InPlace, In
  <1>6. Lists(y, In(l, {"pending"}) \cup {t})
    BY <1>4, <1>5, InsertedLists
  <1>7. /\ q \in Seq(Tasks) /\ Len(q) \in Nat
        /\ y \in Seq(Tasks) /\ Len(y) = Len(q) + 1
        /\ \A i \in 1..(Len(q) + 1) : y[i] = IF i <= k THEN q[i] ELSE IF i = k + 1 THEN t ELSE q[i - 1]
    <2>1. q \in Seq(Tasks) /\ Len(q) \in Nat
      BY <1>5, LenProperties DEF Lists
    <2>2. k \in 0..Len(q)
      BY <1>4
    <2> HIDE DEF k, q
    <2>3. /\ y \in Seq(Tasks) /\ Len(y) = Len(q) + 1
          /\ \A i \in 1..(Len(q) + 1) : y[i] = IF i <= k THEN q[i] ELSE IF i = k + 1 THEN t ELSE q[i - 1]
      <3>1. IsInserted(y, q, k, t)
        BY <2>1, <2>2, InsertedElements
      <3> HIDE DEF y
      <3> QED
        BY <3>1 DEF IsInserted
    <2> QED
      BY <2>1, <2>3
  <1> HIDE DEF k, q, y
  <1>8. /\ In(l, {"pending"})' = In(l, {"pending"}) \cup {t}
        /\ \A m \in Lanes \ {l} : In(m, {"pending"})' = In(m, {"pending"})
        /\ \A m \in Lanes : In(m, {"running"})' = In(m, {"running"}) /\ In(m, Finals)' = In(m, Finals)
    BY <1>1, <1>2 DEF Types, In, Finals
  <1>9. queue'[l] = y /\ \A m \in Lanes \ {l} : queue'[m] = queue[m]
    BY <1>1, <1>3 DEF Types, IsLaneTable
  <1>10. InPlace'
    <2> SUFFICES ASSUME NEW m \in Lanes PROVE LaneInPlace(m)'
      BY DEF InPlace, LaneInPlace
    <2>1. LaneInPlace(m)
      BY <1>1 DEF InPlace, LaneInPlace
    <2>2. CASE m = l
      BY <1>2, <1>6, <1>8, <1>9, <2>1, <2>2 DEF LaneInPlace
    <2>3. CASE m # l
      BY <1>2, <1>8, <1>9, <2>1, <2>3 DEF LaneInPlace
    <2> QED
      BY <2>2, <2>3
  <1>11. Sorted'
    <2>1. \A u \in Tasks : u # t => prio'[u] = prio[u]
      BY <1>1, <1>2 DEF Types
    <2>2. prio'[t] = p
      BY <1>1, <1>2 DEF Types
    <2>3. \A m \in Lanes : \A i \in 1..Len(queue[m]) :
              queue[m][i] \in Tasks /\ status[queue[m][i]] = "pending"
      BY <1>1 DEF InPlace, Lists, Members, In
    <2>4. \A u \in Tasks : status[u] = "pending" => u # t /\ u < t
      BY <1>1, <1>2, TasksAndWorkersAreNumbers DEF InTurn
    <2>5. ASSUME NEW m \in Lanes, m # l, NEW i \in 1..Len(queue[m]), NEW j \in 1..Len(queue[m]), i < j
          PROVE  Precedes(prio', queue[m][i], queue[m][j])
      BY <1>1, <1>9, <2>1, <2>3, <2>4, <2>5 DEF Sorted, Precedes
    <2>6. ASSUME NEW i \in 1..Len(y), NEW j \in 1..Len(y), i < j
          PROVE  Precedes(prio', y[i], y[j])
      <3> DEFINE from(n) == IF n <= k THEN n ELSE n - 1
      <3>1. \A n \in 1..Len(y) : n # k + 1 => from(n) \in 1..Len(q) /\ y[n] = q[from(n)]
        BY <1>4, <1>7
      <3>2. y[k + 1] = t /\ k \in Nat
        BY <1>4, <1>7
      <3>3. \A n \in 1..Len(q) :
                q[n] \in Tasks /\ q[n] # t /\ q[n] < t /\ prio[q[n]] \in Int /\ prio'[q[n]] = prio[q[n]]
        BY <1>1, <2>1, <2>3, <2>4, PrioritiesAreNumbers DEF q
      <3>4. p \in Int
        BY <1>1, PrioritiesAreNumbers
      <3>5. CASE i # k + 1 /\ j # k + 1
        <4>1. from(i) \in 1..Len(q) /\ from(j) \in 1..Len(q) /\ from(i) < from(j)
          BY <2>6, <3>1, <3>2, <3>5
        <4>2. Precedes(prio, q[from(i)], q[from(j)])
          BY <1>1, <4>1 DEF Sorted, q
        <4>3. y[i] = q[from(i)] /\ y[j] = q[from(j)]
          BY <3>1, <3>5
        <4> HIDE DEF from
        <4> QED
          BY <3>3, <4>1, <4>2, <4>3 DEF Precedes
      <3>6. CASE j = k + 1
        <4>1. i <= k /\ i \in 1..Len(q) /\ y[i] = q[i]
          BY <1>4, <1>7, <2>6, <3>2, <3>6
        <4>2. prio[q[i]] >= p
          BY <1>4, <4>1
        <4> QED
          BY <2>2, <3>2, <3>3, <3>4, <3>6, <4>1, <4>2 DEF Precedes
      <3>7. CASE i = k + 1
        <4>1. ~(j - 1 <= k) /\ j - 1 \in 1..Len(q) /\ y[j] = q[j - 1]
          BY <1>4, <1>7, <2>6, <3>2, <3>7
        <4>2. ~(prio[q[j - 1]] >= p)
          BY <1>4, <4>1
        <4> QED
          BY <2>2, <3>2, <3>3, <3>4, <3>7, <4>1, <4>2 DEF Precedes
      <3> QED
        BY <3>5, <3>6, <3>7
    <2> QED
      BY <1>9, <2>5, <2>6 DEF Sorted
  <1>12. InTurn'
    BY <1>1, <1>2, TasksAndWorkersAreNumbers DEF Submit, Types, InTurn
  <1>13. JobsRun'
    BY <1>1, <1>2 DEF Types, JobsRun
  <1> QED
    BY <1>10, <1>11, <1>12, <1>13

(* A lane whose tasks and records do not move.                             *)
LEMMA LaneUntouched ==
    ASSUME Types, InPlace, NEW m \in Lanes, NEW t \in Tasks, NEW s, lane[t] # m,
           lane' = lane, status' = [status EXCEPT ![t] = s],
           queue'[m] = queue[m], active'[m] = active[m], ended'[m] = ended[m], history'[m] = history[m]
    PROVE  LaneInPlace(m)'
  <1>1. In(m, {"pending"})' = In(m, {"pending"}) /\ In(m, {"running"})' = In(m, {"running"})
        /\ In(m, Finals)' = In(m, Finals)
    BY DEF Types, In, Finals
  <1> QED
    BY <1>1 DEF InPlace, LaneInPlace

(* What a worker takes.                                                    *)
LEMMA TakenTask ==
    ASSUME IInv, NEW w \in Workers, CanTake(w), NEW t, t = Head(queue[home[w]])
    PROVE  /\ home[w] \in Lanes /\ t \in Tasks
           /\ lane[t] = home[w] /\ status[t] = "pending"
           /\ Lists(Tail(queue[home[w]]), In(home[w], {"pending"}) \ {t})
           /\ \A u \in In(home[w], {"pending"}) : u # t => Precedes(prio, t, u)
  <1> DEFINE l == home[w]
             q == queue[l]
  <1>1. Types /\ InPlace /\ Sorted
    BY DEF IInv
  <1>2. l \in Lanes
    BY <1>1 DEF Types
  <1>3. Lists(q, In(l, {"pending"})) /\ q # <<>>
    BY <1>1, <1>2 DEF InPlace, CanTake
  <1>4. t \in In(l, {"pending"}) /\ t = q[1] /\ Lists(Tail(q), In(l, {"pending"}) \ {t})
    BY <1>3, TailLists
  <1>5. \A u \in In(l, {"pending"}) : u # t => Precedes(prio, t, u)
    <2> SUFFICES ASSUME NEW u \in In(l, {"pending"}), u # t
                 PROVE  Precedes(prio, t, u)
      OBVIOUS
    <2>1. PICK i \in 1..Len(q) : q[i] = u
      BY <1>3 DEF Lists, Members
    <2>2. Len(q) \in Nat
      BY <1>3, LenProperties DEF Lists
    <2>3. 1 \in 1..Len(q) /\ 1 < i
      BY <1>4, <2>1, <2>2
    <2> HIDE DEF q
    <2>4. Precedes(prio, q[1], q[i])
      BY <1>1, <1>2, <2>3 DEF Sorted, q
    <2> QED
      BY <1>4, <2>1, <2>4
  <1> QED
    BY <1>2, <1>4, <1>5 DEF In

LEMMA TailSorted ==
    ASSUME Types, InPlace, Sorted, NEW l \in Lanes, queue[l] # <<>>,
           queue' = [queue EXCEPT ![l] = Tail(@)], prio' = prio
    PROVE  Sorted'
  <1> DEFINE u == Tail(queue[l])
  <1>1. queue'[l] = u /\ \A m \in Lanes \ {l} : queue'[m] = queue[m]
    BY DEF Types, IsLaneTable
  <1>2. /\ Len(queue[l]) \in Nat /\ Len(u) = Len(queue[l]) - 1
        /\ \A i \in 1..Len(u) : u[i] = queue[l][i + 1]
    BY HeadTailProperties, LenProperties DEF InPlace, Lists
  <1> HIDE DEF u
  <1>3. ASSUME NEW i \in 1..Len(u), NEW j \in 1..Len(u), i < j
        PROVE  Precedes(prio, u[i], u[j])
    <2>1. i + 1 \in 1..Len(queue[l]) /\ j + 1 \in 1..Len(queue[l]) /\ i + 1 < j + 1
      BY <1>2, <1>3
    <2> QED
      BY <1>2, <2>1 DEF Sorted
  <1> QED
    BY <1>1, <1>3 DEF Sorted

LEMMA InTurnKept ==
    ASSUME Types, InTurn, NEW t \in Tasks, NEW s, s # "new", status[t] # "new",
           status' = [status EXCEPT ![t] = s]
    PROVE  InTurn'
  BY DEF Types, InTurn

(* The record of a task that ends in its lane.                             *)
LEMMA ConcludedInPlace ==
    ASSUME Types, InPlace, NEW t \in Tasks, NEW l \in Lanes, lane[t] = l, NEW s \in Finals,
           Conclude(t, l, s), lane' = lane,
           \/ status[t] = "running" /\ queue' = queue
           \/ /\ status[t] = "pending"
              /\ queue' = [queue EXCEPT ![l] = Tail(@)]
              /\ Lists(Tail(queue[l]), In(l, {"pending"}) \ {t})
    PROVE  InPlace'
  <1>1. /\ status' = [status EXCEPT ![t] = s]
        /\ active' = [active EXCEPT ![l] = @ \ {t}]
        /\ history' = [history EXCEPT ![l] = Recorded(@, t)]
        /\ ended' = [ended EXCEPT ![l] = Append(@, t)]
    BY DEF Conclude
  <1>2. /\ s # "pending" /\ s # "running"
        /\ "pending" \notin Finals /\ "running" \notin Finals
    BY DEF Finals
  <1>3. /\ In(l, {"pending"})' = In(l, {"pending"}) \ {t}
        /\ In(l, {"running"})' = In(l, {"running"}) \ {t}
        /\ In(l, Finals)' = In(l, Finals) \cup {t}
    <2>1. In(l, {"pending"})' = In(l, {"pending"}) \ {t}
      BY <1>1, <1>2 DEF Types, In
    <2>2. In(l, {"running"})' = In(l, {"running"}) \ {t}
      BY <1>1, <1>2 DEF Types, In
    <2>3. In(l, Finals)' = In(l, Finals) \cup {t}
      BY <1>1, <1>2 DEF Types, In
    <2> QED
      BY <2>1, <2>2, <2>3
  <1>4. LaneInPlace(l)
    BY InPlaceByLane
  <1>5. active'[l] = active[l] \ {t} /\ history'[l] = Recorded(history[l], t) /\ ended'[l] = Append(ended[l], t)
    BY <1>1 DEF Types, IsLaneTable
  <1>6. LaneInPlace(l)'
    <2>1. t \notin In(l, Finals)
      BY <1>2 DEF In
    <2>2. Lists(ended'[l], In(l, Finals) \cup {t})
      BY <1>4, <1>5, <2>1, AppendLists DEF LaneInPlace
    <2>3. RecentOf(history'[l], ended'[l])
      BY <1>4, <1>5, RecordedIsRecent DEF LaneInPlace
    <2>4. Lists(queue'[l], In(l, {"pending"}) \ {t})
      <3>1. CASE status[t] = "running" /\ queue' = queue
        <4>1. In(l, {"pending"}) \ {t} = In(l, {"pending"})
          BY <3>1 DEF In
        <4> QED
          BY <1>4, <3>1, <4>1 DEF LaneInPlace
      <3>2. CASE /\ queue' = [queue EXCEPT ![l] = Tail(@)]
                 /\ Lists(Tail(queue[l]), In(l, {"pending"}) \ {t})
        BY <3>2 DEF Types, IsLaneTable
      <3> QED
        BY <3>1, <3>2
    <2> QED
      BY <1>3, <1>4, <1>5, <2>2, <2>3, <2>4 DEF LaneInPlace
  <1>7. ASSUME NEW m \in Lanes, m # l
        PROVE  LaneInPlace(m)'
    <2>1. queue'[m] = queue[m] /\ active'[m] = active[m] /\ ended'[m] = ended[m] /\ history'[m] = history[m]
      BY <1>1, <1>7 DEF Types, IsLaneTable
    <2> QED
      BY <1>1, <1>7, <2>1, LaneUntouched
  <1> QED
    BY <1>6, <1>7 DEF InPlace, LaneInPlace

(* The places of a task that begins.                                       *)
LEMMA BegunInPlace ==
    ASSUME Types, InPlace, NEW t \in Tasks, NEW l \in Lanes, lane[t] = l, status[t] = "pending",
           status' = [status EXCEPT ![t] = "running"], lane' = lane,
           active' = [active EXCEPT ![l] = @ \cup {t}],
           queue' = [queue EXCEPT ![l] = Tail(@)],
           Lists(Tail(queue[l]), In(l, {"pending"}) \ {t}),
           UNCHANGED <<history, ended>>
    PROVE  InPlace'
  <1>1. In(l, {"pending"})' = In(l, {"pending"}) \ {t}
    BY DEF Types, In
  <1>2. In(l, {"running"})' = In(l, {"running"}) \cup {t}
    BY DEF Types, In
  <1>3. In(l, Finals)' = In(l, Finals)
    BY DEF Types, In, Finals
  <1>4. LaneInPlace(l)'
    <2>1. queue'[l] = Tail(queue[l]) /\ active'[l] = active[l] \cup {t}
      BY DEF Types, IsLaneTable
    <2>2. LaneInPlace(l)
      BY InPlaceByLane
    <2> QED
      BY <1>1, <1>2, <1>3, <2>1, <2>2 DEF LaneInPlace
  <1>5. ASSUME NEW m \in Lanes, m # l
        PROVE  LaneInPlace(m)'
    <2>1. queue'[m] = queue[m] /\ active'[m] = active[m] /\ ended'[m] = ended[m] /\ history'[m] = history[m]
      BY <1>5 DEF Types, IsLaneTable
    <2> QED
      BY <1>5, <2>1, LaneUntouched
  <1> QED
    BY <1>4, <1>5 DEF InPlace, LaneInPlace

LEMMA TakeTasks ==
    ASSUME IInv, NEW w \in Workers, Take(w)
    PROVE  InPlace' /\ Sorted' /\ InTurn' /\ JobsRun'
  <1> DEFINE t == Head(queue[home[w]])
             l == home[w]
  <1>1. Types /\ InPlace /\ Sorted /\ InTurn /\ JobsRun /\ CanTake(w)
    BY DEF IInv, Take
  <1>2. /\ l \in Lanes /\ t \in Tasks /\ lane[t] = l /\ status[t] = "pending"
        /\ Lists(Tail(queue[l]), In(l, {"pending"}) \ {t})
    BY <1>1, TakenTask
  <1>3. /\ status' = [status EXCEPT ![t] = "running"]
        /\ active' = [active EXCEPT ![l] = @ \cup {t}]
        /\ job' = [job EXCEPT ![w] = t]
        /\ queue' = [queue EXCEPT ![l] = Tail(@)]
        /\ pc' = [pc EXCEPT ![w] = "busy"]
        /\ UNCHANGED <<home, history, ended, lane, prio>>
        /\ queue[l] # <<>> /\ pc[w] # "busy"
    BY DEF Take, CanTake, ticket
  <1> HIDE DEF t, l
  <1>5. InPlace'
    BY <1>1, <1>2, <1>3, BegunInPlace
  <1>6. Sorted'
    BY <1>1, <1>2, <1>3, TailSorted
  <1>7. InTurn'
    BY <1>1, <1>2, <1>3, InTurnKept
  <1>8. JobsRun'
    <2>1. \A v \in Workers : job[v] # t
      BY <1>1, <1>2, TasksAndWorkersAreNumbers DEF JobsRun
    <2>2. t # None
      BY <1>2, TasksAndWorkersAreNumbers
    <2>3. /\ pc' \in [Workers -> {"unborn", "ready", "rolling", "busy", "dead"}]
          /\ pc'[w] = "busy" /\ job'[w] = t
          /\ \A v \in Workers \ {w} : pc'[v] = pc[v] /\ job'[v] = job[v]
          /\ home'[w] = lane[t]
      BY <1>1, <1>2, <1>3 DEF Types, l
    <2>4. status'[t] = "running" /\ \A u \in Tasks \ {t} : status'[u] = status[u]
      BY <1>1, <1>2, <1>3 DEF Types
    <2>5. \A v \in Workers : pc'[v] = "busy" <=> job'[v] # None
      BY <1>1, <2>2, <2>3 DEF JobsRun
    <2>6. ASSUME NEW v \in Workers, job'[v] # None
          PROVE  status'[job'[v]] = "running" /\ lane'[job'[v]] = home'[v]
      <3>1. CASE v = w
        BY <1>3, <2>3, <2>4, <3>1
      <3>2. CASE v # w
        <4>1. job'[v] = job[v] /\ job[v] \in Tasks /\ job[v] # t
          BY <1>1, <2>1, <2>3, <2>6, <3>2 DEF Types
        <4> QED
          BY <1>1, <1>3, <2>4, <2>6, <3>2, <4>1 DEF JobsRun
      <3> QED
        BY <3>1, <3>2
    <2>7. \A u, v \in Workers : job'[v] # None /\ job'[v] = job'[u] => v = u
      BY <1>1, <2>1, <2>3 DEF JobsRun
    <2>8. ASSUME NEW u \in Tasks, status'[u] = "running"
          PROVE  \E v \in Workers : job'[v] = u
      <3>1. CASE u = t
        BY <2>3, <3>1
      <3>2. CASE u # t
        <4>1. PICK v \in Workers : job[v] = u
          BY <1>1, <2>4, <2>8, <3>2 DEF JobsRun
        <4>2. job[w] = None /\ u # None
          BY <1>1, <1>3, TasksAndWorkersAreNumbers DEF JobsRun
        <4> QED
          BY <2>3, <4>1, <4>2
      <3> QED
        BY <3>1, <3>2
    <2> QED
      BY <2>5, <2>6, <2>7, <2>8 DEF JobsRun
  <1> QED
    BY <1>5, <1>6, <1>7, <1>8

LEMMA TakeAndRunTasks ==
    ASSUME IInv, NEW w \in Workers, NEW s \in Finals, TakeAndRun(w, s)
    PROVE  InPlace' /\ Sorted' /\ InTurn' /\ JobsRun'
  <1> DEFINE t == Head(queue[home[w]])
             l == home[w]
  <1>1. Types /\ InPlace /\ Sorted /\ InTurn /\ JobsRun /\ CanTake(w)
    BY DEF IInv, TakeAndRun
  <1>2. /\ l \in Lanes /\ t \in Tasks /\ lane[t] = l /\ status[t] = "pending"
        /\ Lists(Tail(queue[l]), In(l, {"pending"}) \ {t})
    BY <1>1, TakenTask
  <1>3. /\ Conclude(t, l, s)
        /\ queue' = [queue EXCEPT ![l] = Tail(@)]
        /\ \E x \in {"dead", "rolling"} : pc' = [pc EXCEPT ![w] = x]
        /\ UNCHANGED <<home, job, lane, prio>>
        /\ queue[l] # <<>> /\ pc[w] # "busy"
    BY DEF TakeAndRun, CanTake, ticket
  <1> HIDE DEF t, l
  <1>4. status' = [status EXCEPT ![t] = s] /\ s # "new" /\ s # "running"
    BY <1>3 DEF Conclude, Finals
  <1>5. InPlace'
    BY <1>1, <1>2, <1>3, ConcludedInPlace
  <1>6. Sorted'
    BY <1>1, <1>2, <1>3, TailSorted
  <1>7. InTurn'
    BY <1>1, <1>2, <1>4, InTurnKept
  <1>8. JobsRun'
    BY <1>1, <1>2, <1>3, <1>4, TasksAndWorkersAreNumbers DEF JobsRun, Types
  <1> QED
    BY <1>5, <1>6, <1>7, <1>8

(* An executor returns or raises.                                          *)
LEMMA ReleaseTasks ==
    ASSUME IInv, NEW w \in Workers, pc[w] = "busy", NEW s \in Finals, Conclude(job[w], home[w], s),
           NEW x \in {"rolling", "dead"}, Release(w, x), UNCHANGED <<home, queue, ticket>>
    PROVE  InPlace' /\ Sorted' /\ InTurn' /\ JobsRun'
  <1> DEFINE t == job[w]
             l == home[w]
  <1>1. Types /\ InPlace /\ Sorted /\ InTurn /\ JobsRun
    BY DEF IInv
  <1>2. l \in Lanes /\ t \in Tasks /\ lane[t] = l /\ status[t] = "running"
    BY <1>1 DEF JobsRun, Types
  <1>3. /\ Conclude(t, l, s) /\ lane' = lane /\ prio' = prio
        /\ job' = [job EXCEPT ![w] = None] /\ pc' = [pc EXCEPT ![w] = x]
    BY DEF Release, ticket
  <1>4. status' = [status EXCEPT ![t] = s] /\ s # "new" /\ s # "running"
    BY <1>3 DEF Conclude, Finals
  <1>5. InPlace'
    <2> HIDE DEF t, l
    <2> QED
      BY <1>1, <1>2, <1>3, ConcludedInPlace
  <1>6. Sorted'
    BY <1>1, <1>3 DEF Sorted
  <1>7. InTurn'
    <2> HIDE DEF t, l
    <2> QED
      BY <1>1, <1>2, <1>4, InTurnKept
  <1>8. JobsRun'
    BY <1>1, <1>2, <1>3, <1>4 DEF JobsRun, Types
  <1> QED
    BY <1>5, <1>6, <1>7, <1>8

(***************************************************************************)
(* Workers come and go.                                                    *)
(***************************************************************************)

LEMMA CreatedIsBorn == Created = Cardinality(Born)
  BY DEF Created, Born

(* The workers that start() creates, and those it finds.                   *)
LEMMA StartedWorkers ==
    ASSUME IInv, Start
    PROVE  /\ Created \in Nat
           /\ \A w \in Workers : w - Created \in Lanes => pc[w] = "unborn"
           /\ Born' = 1..(Created + NumLanes)
           /\ \A l \in Lanes : Created + l \in Workers
  <1> DEFINE n == Created
  <1>1. n \in Nat /\ Born = 1..n /\ n + NumLanes <= MaxWorkers
    BY DEF IInv, BornInTurn, Start
  <1>2. pc' = [w \in Workers |-> IF w - n \in Lanes THEN "ready" ELSE pc[w]]
    BY DEF Start
  <1> HIDE DEF n
  <1>3. \A w \in Workers : w - n \in Lanes => pc[w] = "unborn"
    BY <1>1, TasksAndWorkersAreNumbers, NumberOfLanes DEF Born
  <1>4. \A w \in Workers : w - n \in Lanes <=> n < w /\ w <= n + NumLanes
    BY <1>1, TasksAndWorkersAreNumbers, NumberOfLanes DEF Lanes
  <1>5. \A w \in Workers : w \in Born' <=> w <= n + NumLanes
    BY <1>1, <1>2, <1>4, TasksAndWorkersAreNumbers, NumberOfLanes DEF Born
  <1>6. 1..(n + NumLanes) \subseteq Workers
    BY <1>1, NumberOfLanes DEF Workers
  <1>7. Born' = 1..(n + NumLanes)
    <2>1. Born' \subseteq Workers
      BY DEF Born
    <2>2. \A w \in Workers : w \in Nat /\ w >= 1
      BY TasksAndWorkersAreNumbers
    <2>3. n + NumLanes \in Nat
      BY <1>1, NumberOfLanes
    <2>4. ASSUME NEW w \in Workers, w <= n + NumLanes
          PROVE  w \in 1..(n + NumLanes)
      BY <2>2, <2>3, <2>4
    <2>5. ASSUME NEW w \in 1..(n + NumLanes)
          PROVE  w \in Workers /\ w <= n + NumLanes
      BY <1>6, <2>3
    <2>6. Born' \subseteq 1..(n + NumLanes)
      BY <1>5, <2>1, <2>4
    <2>7. 1..(n + NumLanes) \subseteq Born'
      BY <1>5, <2>5
    <2> QED
      BY <2>6, <2>7
  <1>8. \A l \in Lanes : n + l \in Workers
    BY <1>1, NumberOfLanes DEF Workers
  <1> QED
    BY <1>1, <1>3, <1>7, <1>8 DEF n

LEMMA StartKeeps == ASSUME IInv, Start PROVE IInv'
  <1> DEFINE n == Created
  <1>1. Types /\ InPlace /\ Sorted /\ InTurn /\ JobsRun /\ KnownWorkers
    BY DEF IInv
  <1>2. /\ n \in Nat
        /\ \A w \in Workers : w - n \in Lanes => pc[w] = "unborn"
        /\ Born' = 1..(n + NumLanes)
        /\ \A l \in Lanes : n + l \in Workers
    BY StartedWorkers
  <1>3. /\ pc' = [w \in Workers |-> IF w - n \in Lanes THEN "ready" ELSE pc[w]]
        /\ home' = [w \in Workers |-> IF w - n \in Lanes THEN w - n ELSE home[w]]
        /\ slot' = [l \in Lanes |-> n + l]
        /\ running' = TRUE /\ overlapped' = (overlapped \/ running \/ stopAt # 0)
        /\ UNCHANGED <<job, doomed, queue, active, history, status, ended, lane, prio, stopAt, awaited>>
    BY DEF Start, taskVars, ticket, stopper
  <1> HIDE DEF n
  <1>4. Types'
    <2>1. slot' \in [Lanes -> Workers \cup {None}]
      BY <1>2, <1>3
    <2>2. pc' \in [Workers -> {"unborn", "ready", "rolling", "busy", "dead"}]
      BY <1>1, <1>3 DEF Types
    <2>3. home' \in [Workers -> Lanes]
      BY <1>1, <1>3 DEF Types
    <2>4. running' \in BOOLEAN /\ overlapped' \in BOOLEAN
      BY <1>1, <1>3 DEF Types
    <2> QED
      BY <1>1, <1>3, <2>1, <2>2, <2>3, <2>4 DEF Types, IsLaneTable
  <1>5. InPlace' /\ Sorted' /\ InTurn'
    BY <1>1, <1>3 DEF InPlace, In, Sorted, InTurn
  <1>6. JobsRun'
    <2>1. \A w \in Workers : w - n \in Lanes => job[w] = None
      BY <1>1, <1>2 DEF JobsRun
    <2>2. \A w \in Workers : job[w] # None => home'[w] = home[w]
      BY <1>3, <2>1
    <2>3. \A w \in Workers : pc'[w] = "busy" <=> pc[w] = "busy"
      BY <1>2, <1>3
    <2> QED
      BY <1>1, <1>3, <2>2, <2>3 DEF JobsRun
  <1>7. BornInTurn'
    <2>1. n + NumLanes \in Nat
      BY <1>2, NumberOfLanes
    <2>2. Created' = Cardinality(Born')
      BY DEF Created, Born
    <2> QED
      BY <1>2, <2>1, <2>2, IntervalCount DEF BornInTurn
  <1>8. KnownWorkers'
    <2>1. slot'[1] # None
      BY <1>2, <1>3, NumberOfLanes, TasksAndWorkersAreNumbers
    <2>2. ASSUME ~overlapped'
          PROVE  /\ \A w \in Live' : slot'[home'[w]] = w
                 /\ stopAt' = 0
      <3>1. ~overlapped /\ ~running /\ stopAt = 0
        BY <1>3, <2>2
      <3>2. Live = {}
        BY <1>1, <3>1 DEF KnownWorkers
      <3>3. \A w \in Workers : pc'[w] \in {"ready", "rolling", "busy"} => w - n \in Lanes
        BY <1>3, <3>2 DEF Live
      <3>4. ASSUME NEW w \in Workers, w - n \in Lanes
            PROVE  slot'[home'[w]] = w
        <4>1. home'[w] = w - n /\ slot'[w - n] = n + (w - n)
          BY <1>3, <3>4
        <4>2. n + (w - n) = w
          BY <1>2, TasksAndWorkersAreNumbers
        <4> QED
          BY <4>1, <4>2
      <3> QED
        BY <1>3, <3>1, <3>3, <3>4 DEF Live
    <2> QED
      BY <1>3, <2>1, <2>2 DEF KnownWorkers
  <1> QED
    BY <1>4, <1>5, <1>6, <1>7, <1>8 DEF IInv

(* A step that creates no worker and leaves stop() where it is.            *)
LEMMA WorkersKept ==
    ASSUME BornInTurn, KnownWorkers, Born' = Born, Live' \subseteq Live,
           UNCHANGED <<slot, home, overlapped, running, stopAt, awaited>>
    PROVE  BornInTurn' /\ KnownWorkers'
  <1>1. Created' = Created
    BY DEF Created, Born
  <1> QED
    BY <1>1 DEF BornInTurn, KnownWorkers

LEMMA MovedWorker ==
    ASSUME Types, NEW w \in Workers, pc[w] \in {"ready", "rolling", "busy"},
           NEW x \in {"ready", "rolling", "busy", "dead"}, pc' = [pc EXCEPT ![w] = x]
    PROVE  Born' = Born /\ Live' \subseteq Live
  BY DEF Types, Born, Live

LEMMA TasksUntouched ==
    ASSUME InPlace, Sorted, InTurn, JobsRun,
           UNCHANGED <<queue, active, history, ended, status, lane, prio, pc, home, job>>
    PROVE  InPlace' /\ Sorted' /\ InTurn' /\ JobsRun'
  <1>1. InPlace' /\ Sorted' /\ InTurn'
    BY DEF InPlace, In, Sorted, InTurn
  <1>2. JobsRun'
    BY DEF JobsRun
  <1> QED
    BY <1>1, <1>2

LEMMA StopKeeps == ASSUME IInv, Stop PROVE IInv'
  <1>1. Types /\ InPlace /\ Sorted /\ InTurn /\ JobsRun /\ BornInTurn /\ KnownWorkers
    BY DEF IInv
  <1>2. /\ running' = FALSE /\ stopAt = 0
        /\ UNCHANGED <<slot, pc, home, job, queue, active, history, status, ended, lane, prio, overlapped>>
    BY DEF Stop, taskVars, ticket
  <1>3. Born' = Born /\ Live' = Live /\ Created' = Created
    BY <1>2 DEF Born, Live, Created
  <1>4. InPlace' /\ Sorted' /\ InTurn' /\ JobsRun'
    BY <1>1, <1>2, TasksUntouched
  <1>5. CASE slot[1] = None
    <2>1. UNCHANGED <<doomed, stopAt, awaited>>
      BY <1>5 DEF Stop, stopper
    <2>2. Live = {}
      BY <1>1, <1>5 DEF KnownWorkers, Born, Live
    <2>3. Types'
      BY <1>1, <1>2, <2>1 DEF Types, IsLaneTable
    <2>4. BornInTurn' /\ KnownWorkers'
      BY <1>1, <1>2, <1>3, <2>1, <2>2 DEF BornInTurn, KnownWorkers
    <2> QED
      BY <1>4, <2>3, <2>4 DEF IInv
  <1>6. CASE slot[1] # None
    <2>1. /\ doomed' = [w \in Workers |-> doomed[w] \/ (w \in Live /\ \E l \in Lanes : slot[l] = w)]
          /\ stopAt' = 1 /\ awaited' = slot[1]
      BY <1>6 DEF Stop
    <2>2. doomed' \in [Workers -> BOOLEAN] /\ stopAt' \in 0..NumLanes /\ awaited' \in Workers \cup {None}
      BY <1>1, <2>1, NumberOfLanes DEF Types
    <2>3. Types'
      BY <1>1, <1>2, <2>2 DEF Types, IsLaneTable
    <2>4. \A w \in Live : home[w] >= 1
      BY <1>1, NumberOfLanes DEF Types, Live
    <2>5. BornInTurn' /\ KnownWorkers'
      BY <1>1, <1>2, <1>3, <1>6, <2>1, <2>4 DEF BornInTurn, KnownWorkers
    <2> QED
      BY <1>4, <2>3, <2>5 DEF IInv
  <1> QED
    BY <1>5, <1>6

LEMMA StopGoesOnKeeps == ASSUME IInv, StopGoesOn PROVE IInv'
  <1>1. Types /\ InPlace /\ Sorted /\ InTurn /\ JobsRun /\ BornInTurn /\ KnownWorkers
    BY DEF IInv
  <1>2. /\ stopAt # 0 /\ pc[awaited] = "dead"
        /\ UNCHANGED <<running, slot, pc, home, job, doomed, queue, active, history, status, ended,
                       lane, prio, overlapped>>
    BY DEF StopGoesOn, taskVars, workerVars, ticket
  <1>3. Born' = Born /\ Live' = Live /\ Created' = Created
    BY <1>2 DEF Born, Live, Created
  <1>4. stopAt \in Nat /\ stopAt >= 1 /\ stopAt <= NumLanes /\ NumLanes \in Nat
    BY <1>1, <1>2, NumberOfLanes DEF Types
  <1>5. \/ stopAt < NumLanes /\ stopAt' = stopAt + 1 /\ awaited' = slot[stopAt + 1]
        \/ stopAt = NumLanes /\ stopAt' = 0 /\ awaited' = None
    BY <1>4 DEF StopGoesOn
  <1>6. Types'
    <2>1. stopAt' \in 0..NumLanes /\ awaited' \in Workers \cup {None}
      BY <1>1, <1>4, <1>5 DEF Types, Lanes
    <2> QED
      BY <1>1, <1>2, <2>1 DEF Types, IsLaneTable
  <1>7. InPlace' /\ Sorted' /\ InTurn' /\ JobsRun'
    BY <1>1, <1>2, TasksUntouched
  <1>8. ASSUME ~overlapped
        PROVE  \A w \in Live : home[w] >= stopAt + 1
    <2> SUFFICES ASSUME NEW w \in Live PROVE home[w] >= stopAt + 1
      OBVIOUS
    <2>1. slot[home[w]] = w /\ home[w] >= stopAt /\ awaited = slot[stopAt]
      BY <1>1, <1>2, <1>8 DEF KnownWorkers
    <2>2. pc[w] # "dead"
      BY DEF Live
    <2>3. home[w] # stopAt
      BY <1>2, <2>1, <2>2
    <2>4. home[w] \in Nat
      BY <1>1, NumberOfLanes DEF Types, Live
    <2> QED
      BY <1>4, <2>1, <2>3, <2>4
  <1>9. \A w \in Live : home[w] <= NumLanes /\ home[w] \in Nat
    BY <1>1, NumberOfLanes DEF Types, Live
  <1>10. BornInTurn' /\ KnownWorkers'
    <2>1. CASE stopAt < NumLanes
      BY <1>1, <1>2, <1>3, <1>4, <1>5, <1>8, <2>1 DEF BornInTurn, KnownWorkers
    <2>2. CASE stopAt = NumLanes
      <3>1. ~overlapped => Live = {}
        BY <1>4, <1>8, <1>9, <2>2
      <3> QED
        BY <1>1, <1>2, <1>3, <1>4, <1>5, <2>2, <3>1 DEF BornInTurn, KnownWorkers
    <2> QED
      BY <1>4, <2>1, <2>2
  <1> QED
    BY <1>6, <1>7, <1>10 DEF IInv

LEMMA SubmitKeeps ==
    ASSUME IInv, NEW t \in Tasks, NEW l \in Lanes, NEW p \in Priorities, Submit(t, l, p)
    PROVE  IInv'
  <1>1. Types /\ BornInTurn /\ KnownWorkers
    BY DEF IInv
  <1>2. /\ status' = [status EXCEPT ![t] = "pending"]
        /\ lane' = [lane EXCEPT ![t] = l] /\ prio' = [prio EXCEPT ![t] = p]
        /\ \E y : queue' = [queue EXCEPT ![l] = y]
        /\ UNCHANGED <<running, slot, pc, home, job, doomed, active, history, ended, stopAt, awaited,
                       overlapped>>
    BY DEF Submit, workerVars, stopper
  <1>3. Types'
    <2>1. status' \in [Tasks -> {"new", "pending", "running"} \cup Finals]
          /\ lane' \in [Tasks -> Lanes] /\ prio' \in [Tasks -> Priorities \cup {0}]
      BY <1>1, <1>2 DEF Types
    <2>2. IsLaneTable(queue')
      BY <1>1, <1>2 DEF Types, IsLaneTable
    <2> QED
      BY <1>1, <1>2, <2>1, <2>2 DEF Types, IsLaneTable
  <1>4. Born' = Born /\ Live' = Live
    BY <1>2 DEF Born, Live
  <1> QED
    BY <1>1, <1>2, <1>3, <1>4, WorkersKept, SubmitTasks DEF IInv

(* What a step of a worker does to the workers.                            *)
LEMMA WorkerMoves ==
    ASSUME IInv, NEW w \in Workers, WorkerStep(w)
    PROVE  /\ pc[w] \in {"ready", "rolling", "busy"}
           /\ \E x \in {"ready", "rolling", "busy", "dead"} : pc' = [pc EXCEPT ![w] = x]
           /\ UNCHANGED <<slot, home, overlapped, running, stopAt, awaited, lane, prio>>
  <1>1. ASSUME Take(w) \/ Rest(w) \/ Exit(w) \/ Cancelled(w)
        PROVE  /\ pc[w] \in {"ready", "rolling", "busy"}
               /\ \E x \in {"ready", "rolling", "busy", "dead"} : pc' = [pc EXCEPT ![w] = x]
               /\ UNCHANGED <<slot, home, overlapped, running, stopAt, awaited, lane, prio>>
    BY <1>1 DEF Take, CanTake, Rest, Exit, Cancelled, Release, ticket, stopper
  <1>2. ASSUME NEW s \in Finals, TakeAndRun(w, s) \/ Finish(w, s)
        PROVE  /\ pc[w] \in {"ready", "rolling", "busy"}
               /\ \E x \in {"ready", "rolling", "busy", "dead"} : pc' = [pc EXCEPT ![w] = x]
               /\ UNCHANGED <<slot, home, overlapped, running, stopAt, awaited, lane, prio>>
    BY <1>2 DEF TakeAndRun, CanTake, Finish, Release, ticket, stopper
  <1> QED
    BY <1>1, <1>2 DEF WorkerStep

(* The types that a step of a worker can disturb.                          *)
LEMMA WorkerTypes ==
    ASSUME IInv, NEW w \in Workers, WorkerStep(w)
    PROVE  Types'
  <1>1. Types
    BY DEF IInv
  <1> DEFINE Touched == /\ job' \in [Workers -> Tasks \cup {None}]
                        /\ doomed' \in [Workers -> BOOLEAN]
                        /\ active' \in [Lanes -> SUBSET Tasks]
                        /\ status' \in [Tasks -> {"new", "pending", "running"} \cup Finals]
                        /\ IsLaneTable(queue)' /\ IsLaneTable(history)' /\ IsLaneTable(ended)'
  <1>2. ASSUME Take(w)
        PROVE  Touched
    <2> DEFINE t == Head(queue[home[w]])
    <2>1. t \in Tasks
      BY <1>2, TakenTask DEF Take
    <2>2. /\ status' = [status EXCEPT ![t] = "running"]
          /\ active' = [active EXCEPT ![home[w]] = @ \cup {t}]
          /\ job' = [job EXCEPT ![w] = t]
          /\ queue' = [queue EXCEPT ![home[w]] = Tail(@)]
          /\ UNCHANGED <<doomed, history, ended>>
      BY <1>2 DEF Take
    <2> HIDE DEF t
    <2> QED
      BY <1>1, <2>1, <2>2, ZenonT(60) DEF Types, IsLaneTable
  <1>3. ASSUME NEW t \in Tasks, NEW s \in Finals, Conclude(t, home[w], s)
        PROVE  /\ active' \in [Lanes -> SUBSET Tasks]
               /\ status' \in [Tasks -> {"new", "pending", "running"} \cup Finals]
               /\ IsLaneTable(history)' /\ IsLaneTable(ended)'
    BY <1>1, <1>3 DEF Types, Conclude, IsLaneTable
  <1>4. ASSUME NEW s \in Finals, TakeAndRun(w, s)
        PROVE  Touched
    <2>1. Head(queue[home[w]]) \in Tasks
      BY <1>4, TakenTask DEF TakeAndRun
    <2>2. /\ Conclude(Head(queue[home[w]]), home[w], s)
          /\ queue' = [queue EXCEPT ![home[w]] = Tail(@)]
          /\ UNCHANGED <<job, doomed>>
      BY <1>4 DEF TakeAndRun
    <2>3. IsLaneTable(queue)'
      BY <1>1, <2>2 DEF Types, IsLaneTable
    <2> QED
      BY <1>1, <1>3, <2>1, <2>2, <2>3 DEF Types
  <1>5. ASSUME pc[w] = "busy", NEW s \in Finals, Conclude(job[w], home[w], s),
               NEW x, Release(w, x), queue' = queue
        PROVE  Touched
    <2>1. job[w] \in Tasks
      BY <1>1, <1>5 DEF IInv, JobsRun, Types
    <2>2. job' \in [Workers -> Tasks \cup {None}] /\ doomed' \in [Workers -> BOOLEAN]
      BY <1>1, <1>5 DEF Types, Release
    <2>3. IsLaneTable(queue)'
      BY <1>1, <1>5 DEF Types, IsLaneTable
    <2> QED
      BY <1>3, <1>5, <2>1, <2>2, <2>3
  <1>6. ASSUME Rest(w) \/ Exit(w)
        PROVE  Touched
    BY <1>1, <1>6 DEF Types, Rest, Exit, taskVars, IsLaneTable
  <1>7. Touched
    <2>1. ASSUME Cancelled(w)
          PROVE  Touched
      BY <1>5, <2>1 DEF Cancelled, Finals
    <2>2. ASSUME NEW s \in Finals, Finish(w, s)
          PROVE  Touched
      BY <1>5, <2>2 DEF Finish
    <2> HIDE DEF Touched
    <2> QED
      BY <1>2, <1>4, <1>6, <2>1, <2>2 DEF WorkerStep
  <1>8. pc' \in [Workers -> {"unborn", "ready", "rolling", "busy", "dead"}]
    BY <1>1, WorkerMoves DEF Types
  <1> QED
    BY <1>1, <1>7, <1>8, WorkerMoves DEF Types

(* What a step of a worker does to the tasks.                              *)
LEMMA WorkerTasks ==
    ASSUME IInv, NEW w \in Workers, WorkerStep(w)
    PROVE  InPlace' /\ Sorted' /\ InTurn' /\ JobsRun'
  <1>1. ASSUME Take(w)
        PROVE  InPlace' /\ Sorted' /\ InTurn' /\ JobsRun'
    BY <1>1, TakeTasks
  <1>2. ASSUME NEW s \in Finals, TakeAndRun(w, s)
        PROVE  InPlace' /\ Sorted' /\ InTurn' /\ JobsRun'
    BY <1>2, TakeAndRunTasks
  <1>3. ASSUME NEW s \in Finals, Finish(w, s)
        PROVE  InPlace' /\ Sorted' /\ InTurn' /\ JobsRun'
    BY <1>3, ReleaseTasks DEF Finish
  <1>4. ASSUME Cancelled(w)
        PROVE  InPlace' /\ Sorted' /\ InTurn' /\ JobsRun'
    BY <1>4, ReleaseTasks DEF Cancelled, Finals
  <1>5. ASSUME Rest(w) \/ Exit(w)
        PROVE  InPlace' /\ Sorted' /\ InTurn' /\ JobsRun'
    <2>1. InPlace' /\ Sorted' /\ InTurn'
      <3>1. UNCHANGED <<queue, active, history, ended, status, lane, prio>>
        BY <1>5 DEF Rest, Exit, taskVars, ticket
      <3> QED
        BY <3>1 DEF IInv, InPlace, In, Sorted, InTurn
    <2>2. /\ \A v \in Workers : pc'[v] = "busy" <=> pc[v] = "busy"
          /\ UNCHANGED <<job, home, status, lane>>
      BY <1>5 DEF IInv, Types, Rest, Exit, taskVars, ticket
    <2>3. JobsRun'
      BY <2>2 DEF IInv, JobsRun
    <2> QED
      BY <2>1, <2>3
  <1> QED
    BY <1>1, <1>2, <1>3, <1>4, <1>5 DEF WorkerStep

LEMMA WorkerKeeps ==
    ASSUME IInv, NEW w \in Workers, WorkerStep(w)
    PROVE  IInv'
  <1>1. Born' = Born /\ Live' \subseteq Live
    <2>1. Types
      BY DEF IInv
    <2>2. PICK x \in {"ready", "rolling", "busy", "dead"} : pc' = [pc EXCEPT ![w] = x]
      BY WorkerMoves
    <2>3. pc[w] \in {"ready", "rolling", "busy"}
      BY WorkerMoves
    <2> QED
      BY <2>1, <2>2, <2>3, MovedWorker
  <1>2. BornInTurn' /\ KnownWorkers'
    BY <1>1, WorkerMoves, WorkersKept DEF IInv
  <1> QED
    BY <1>2, WorkerTypes, WorkerTasks DEF IInv

LEMMA NextIInv == ASSUME IInv, Next PROVE IInv'
  BY SubmitKeeps, StartKeeps, StopKeeps, StopGoesOnKeeps, WorkerKeeps DEF Next

LEMMA StutterIInv == ASSUME IInv, UNCHANGED vars PROVE IInv'
  <1>1. Types /\ InPlace /\ Sorted /\ InTurn /\ JobsRun /\ BornInTurn /\ KnownWorkers
    BY DEF IInv
  <1>2. InPlace' /\ Sorted' /\ InTurn' /\ JobsRun'
    BY <1>1, TasksUntouched DEF vars, workerVars, taskVars, ticket
  <1>3. Types'
    BY <1>1 DEF vars, Types, IsLaneTable
  <1>4. Born' = Born /\ Live' = Live
    BY DEF vars, Born, Live
  <1>5. BornInTurn' /\ KnownWorkers'
    BY <1>1, <1>4, WorkersKept DEF vars
  <1> QED
    BY <1>2, <1>3, <1>5 DEF IInv

(* Everything the theorems below rest on: where the tasks are, in which    *)
(* order, and which workers are left.                                      *)
THEOREM InductiveInvariant == Spec => []IInv
  <1>1. IInv /\ [Next]_vars => IInv'
    BY NextIInv, StutterIInv
  <1> QED
    BY InitIInv, <1>1, PTL DEF Spec

(***************************************************************************)
(* What the invariant says in the words of the specification.              *)
(***************************************************************************)

LEMMA ListedEntries ==
    ASSUME NEW s, NEW S, Lists(s, S), NEW t \in Tasks
    PROVE  Entries(s, t) = IF t \in S THEN 1 ELSE 0
  <1> DEFINE A == {i \in DOMAIN s : s[i] = t}
  <1>1. DOMAIN s = 1..Len(s)
    BY LenProperties DEF Lists
  <1>2. CASE t \in S
    <2>1. PICK i \in 1..Len(s) : s[i] = t
      BY <1>2 DEF Lists, Members
    <2>2. A = {i}
      BY <1>1, <2>1 DEF Lists, NoRepeats
    <2> QED
      BY <1>2, <2>2, FS_Singleton DEF Entries
  <1>3. CASE t \notin S
    <2>1. A = {}
      BY <1>1, <1>3 DEF Lists, Members
    <2> QED
      BY <1>3, <2>1, FS_EmptySet DEF Entries
  <1> QED
    BY <1>2, <1>3

LEMMA InvariantTypes == IInv => TypeOK
  <1> SUFFICES ASSUME IInv PROVE TypeOK
    OBVIOUS
  <1>1. Types /\ \A l \in Lanes : LaneInPlace(l)
    BY InPlaceByLane DEF IInv
  <1>2. /\ \A l \in Lanes : queue[l] \in Seq(Tasks) /\ history[l] \in Seq(Tasks) /\ ended[l] \in Seq(Tasks)
        /\ \A l \in Lanes : Len(history[l]) <= MaxHistory
    BY <1>1 DEF LaneInPlace, Lists, RecentOf
  <1> DEFINE TaskLists == Seq(Tasks)
  <1> HIDE DEF TaskLists
  <1>3. \A l \in Lanes : queue[l] \in TaskLists /\ history[l] \in TaskLists /\ ended[l] \in TaskLists
    BY <1>2 DEF TaskLists
  <1>4. queue \in [Lanes -> TaskLists] /\ history \in [Lanes -> TaskLists] /\ ended \in [Lanes -> TaskLists]
    BY <1>1, <1>3 DEF Types, IsLaneTable
  <1> QED
    BY <1>1, <1>2, <1>4 DEF TypeOK, Types, TaskLists

LEMMA InvariantAccounts == IInv => Accounted
  <1> SUFFICES ASSUME IInv, NEW t \in Tasks, NEW l \in Lanes
               PROVE  LET here(s) == status[t] = s /\ lane[t] = l
                      IN  /\ Entries(queue[l], t) = IF here("pending") THEN 1 ELSE 0
                          /\ t \in active[l] <=> here("running")
                          /\ Cardinality({w \in Holders(t) : home[w] = l}) = IF here("running") THEN 1 ELSE 0
                          /\ Entries(ended[l], t) = IF status[t] \in Finals /\ lane[t] = l THEN 1 ELSE 0
    BY DEF Accounted
  <1>1. LaneInPlace(l) /\ JobsRun
    BY InPlaceByLane DEF IInv
  <1>2. Entries(queue[l], t) = IF status[t] = "pending" /\ lane[t] = l THEN 1 ELSE 0
    BY <1>1, ListedEntries DEF LaneInPlace, In
  <1>3. t \in active[l] <=> status[t] = "running" /\ lane[t] = l
    BY <1>1 DEF LaneInPlace, In
  <1>4. Entries(ended[l], t) = IF status[t] \in Finals /\ lane[t] = l THEN 1 ELSE 0
    BY <1>1, ListedEntries DEF LaneInPlace, In
  <1>5. Cardinality({w \in Holders(t) : home[w] = l})
          = IF status[t] = "running" /\ lane[t] = l THEN 1 ELSE 0
    <2> DEFINE H == {w \in Holders(t) : home[w] = l}
    <2>1. \A w \in H : w \in Workers /\ job[w] = t /\ home[w] = l /\ job[w] # None
      BY TasksAndWorkersAreNumbers DEF Holders
    <2>2. CASE status[t] = "running" /\ lane[t] = l
      <3>1. PICK w \in Workers : job[w] = t
        BY <1>1, <2>2 DEF JobsRun
      <3>2. w \in H
        BY <1>1, <2>2, <3>1, TasksAndWorkersAreNumbers DEF JobsRun, Holders
      <3>3. H = {w}
        BY <1>1, <2>1, <3>1, <3>2 DEF JobsRun
      <3> QED
        BY <2>2, <3>3, FS_Singleton
    <2>3. CASE ~(status[t] = "running" /\ lane[t] = l)
      <3>1. H = {}
        BY <1>1, <2>1, <2>3 DEF JobsRun
      <3> QED
        BY <2>3, <3>1, FS_EmptySet
    <2> QED
      BY <2>2, <2>3
  <1> QED
    BY <1>2, <1>3, <1>4, <1>5

LEMMA InvariantWorkers == IInv => WorkersEnd
  BY DEF IInv, KnownWorkers, WorkersEnd

LEMMA InvariantHistory == IInv => HistoryIsRecent
  BY EndIsSuffix DEF IInv, InPlace, RecentOf, HistoryIsRecent

(* The scheduler loses no task and keeps none twice, whatever is submitted *)
(* and whoever is cancelled; each history is the end of what has ended;    *)
(* started only when stopped, it leaves no worker behind.                  *)
THEOREM LaneSafety == Spec => []LanesSafe
  <1>1. IInv => LanesSafe
    BY InvariantTypes, InvariantAccounts, InvariantWorkers, InvariantHistory DEF LanesSafe
  <1> QED
    BY InductiveInvariant, <1>1, PTL

(***************************************************************************)
(* The scheduler implements the task board.                                *)
(***************************************************************************)

Submitted == {t \in Tasks : status[t] # "new"}
Waiting == [l \in Lanes |-> ToSet(queue[l])]

LEMMA WaitingIsPending ==
    ASSUME IInv, NEW l \in Lanes
    PROVE  ToSet(queue[l]) = In(l, {"pending"})
  <1>1. Lists(queue[l], In(l, {"pending"}))
    BY DEF IInv, InPlace
  <1>2. DOMAIN queue[l] = 1..Len(queue[l])
    BY <1>1, LenProperties DEF Lists
  <1> QED
    BY <1>1, <1>2 DEF Lists, Members, ToSet

LEMMA PendingIsWaited ==
    ASSUME IInv', NEW m \in Lanes
    PROVE  ToSet(queue'[m]) = In(m, {"pending"})'
  <1>1. Lists(queue'[m], In(m, {"pending"})')
    BY DEF IInv, InPlace
  <1>2. DOMAIN queue'[m] = 1..Len(queue'[m])
    BY <1>1, LenProperties DEF Lists
  <1> QED
    BY <1>1, <1>2 DEF Lists, Members, ToSet

(* A task is submitted. *)
LEMMA BoardAdds ==
    ASSUME IInv, IInv', NEW t \in Tasks, NEW l \in Lanes, NEW p \in Priorities, Submit(t, l, p)
    PROVE  Board!Add(t, l, p)
  <1>1. /\ status[t] = "new" /\ \A u \in 1..(t - 1) : status[u] # "new"
        /\ status' = [status EXCEPT ![t] = "pending"]
        /\ lane' = [lane EXCEPT ![t] = l] /\ prio' = [prio EXCEPT ![t] = p]
        /\ active' = active
    BY DEF Submit
  <1>2. Types
    BY DEF IInv
  <1>3. \A u \in Tasks : u < t => u \in Submitted
    BY <1>1, TasksAndWorkersAreNumbers DEF Submitted
  <1>4. Submitted' = Submitted \cup {t} /\ t \notin Submitted
    BY <1>1, <1>2 DEF Submitted, Types
  <1>5. /\ In(l, {"pending"})' = In(l, {"pending"}) \cup {t}
        /\ \A m \in Lanes \ {l} : In(m, {"pending"})' = In(m, {"pending"})
    BY <1>1, <1>2 DEF Types, In
  <1>6. \A m \in Lanes : ToSet(queue[m]) = In(m, {"pending"}) /\ ToSet(queue'[m]) = In(m, {"pending"})'
    BY WaitingIsPending, PendingIsWaited
  <1>7. Waiting' = [Waiting EXCEPT ![l] = @ \cup {t}]
    BY <1>5, <1>6 DEF Waiting
  <1> QED
    BY <1>1, <1>3, <1>4, <1>7 DEF Board!Add, Submitted, Waiting

(* A task leaves the waiting ones, and everything of another lane stays.   *)
LEMMA BoardWaits ==
    ASSUME IInv, IInv', NEW t \in Tasks, NEW s, s \notin {"new", "pending"},
           status[t] # "new", status' = [status EXCEPT ![t] = s], lane' = lane
    PROVE  /\ Submitted' = Submitted
           /\ Waiting' = [Waiting EXCEPT ![lane[t]] = @ \ {t}]
  <1>1. Types /\ lane[t] \in Lanes
    BY DEF IInv, Types
  <1>2. Submitted' = Submitted
    BY <1>1 DEF Submitted, Types
  <1>3. \A m \in Lanes : In(m, {"pending"})' = In(m, {"pending"}) \ {t}
    BY <1>1 DEF Types, In
  <1>4. \A m \in Lanes : m # lane[t] => t \notin In(m, {"pending"})
    BY DEF In
  <1>5. \A m \in Lanes : ToSet(queue[m]) = In(m, {"pending"}) /\ ToSet(queue'[m]) = In(m, {"pending"})'
    BY WaitingIsPending, PendingIsWaited
  <1>6. Waiting' = [Waiting EXCEPT ![lane[t]] = @ \ {t}]
    <2> DEFINE l == lane[t]
    <2>1. \A m \in Lanes : m # l => ToSet(queue'[m]) = ToSet(queue[m])
      BY <1>3, <1>4, <1>5, ZenonT(60)
    <2>2. ToSet(queue'[l]) = ToSet(queue[l]) \ {t} /\ l \in Lanes
      BY <1>1, <1>3, <1>5
    <2> HIDE DEF l
    <2>3. Waiting' = [Waiting EXCEPT ![l] = @ \ {t}]
      BY <2>1, <2>2 DEF Waiting
    <2> QED
      BY <2>3 DEF l
  <1> QED
    BY <1>2, <1>6

LEMMA BoardBegins ==
    ASSUME IInv, IInv', NEW w \in Workers, NEW ends \in BOOLEAN,
           \/ ends = FALSE /\ Take(w)
           \/ ends = TRUE /\ \E s \in Finals : TakeAndRun(w, s)
    PROVE  \E t \in Tasks : Board!Begin(t, ends)
  <1> DEFINE t == Head(queue[home[w]])
  <1>1. CanTake(w) /\ lane' = lane /\ prio' = prio
    BY DEF Take, TakeAndRun, ticket
  <1>2. /\ home[w] \in Lanes /\ t \in Tasks /\ lane[t] = home[w] /\ status[t] = "pending"
        /\ \A u \in In(home[w], {"pending"}) : u # t => Precedes(prio, t, u)
    BY <1>1, TakenTask
  <1>3. \E s : s \notin {"new", "pending"} /\ status' = [status EXCEPT ![t] = s]
    BY DEF Take, TakeAndRun, Conclude, Finals
  <1>4. active' = IF ends THEN active ELSE [active EXCEPT ![lane[t]] = @ \cup {t}]
    <2>1. CASE Take(w) /\ ends = FALSE
      BY <1>2, <2>1 DEF Take
    <2>2. ASSUME NEW s \in Finals, TakeAndRun(w, s), ends = TRUE
          PROVE  active' = active
      <3>1. active' = [active EXCEPT ![lane[t]] = @ \ {t}]
        BY <1>2, <2>2 DEF TakeAndRun, Conclude
      <3>2. t \notin active[lane[t]]
        BY <1>2 DEF IInv, InPlace, In
      <3>3. active \in [Lanes -> SUBSET Tasks]
        BY DEF IInv, Types
      <3> HIDE DEF t
      <3> QED
        BY <3>1, <3>2, <3>3
    <2> QED
      BY <2>1, <2>2
  <1> HIDE DEF t
  <1>5. Submitted' = Submitted /\ Waiting' = [Waiting EXCEPT ![lane[t]] = @ \ {t}]
    BY <1>1, <1>2, <1>3, BoardWaits
  <1>6. Waiting[lane[t]] = In(lane[t], {"pending"})
    BY <1>2, WaitingIsPending DEF Waiting
  <1>7. t \in Waiting[lane[t]] /\ \A u \in Waiting[lane[t]] \ {t} : Board!Before(t, u)
    BY <1>2, <1>6 DEF In, Board!Before, Precedes
  <1>8. Board!Begin(t, ends)
    BY <1>1, <1>4, <1>5, <1>7 DEF Board!Begin, Submitted, Waiting
  <1> QED
    BY <1>2, <1>8

LEMMA BoardEnds ==
    ASSUME IInv, IInv', NEW w \in Workers, pc[w] = "busy", NEW s \in Finals,
           Conclude(job[w], home[w], s), UNCHANGED <<queue, ticket>>
    PROVE  \E t \in Tasks : Board!End(t)
  <1> DEFINE t == job[w]
  <1>1. Types /\ JobsRun /\ InPlace
    BY DEF IInv
  <1>2. t \in Tasks /\ home[w] \in Lanes /\ lane[t] = home[w] /\ status[t] = "running"
    BY <1>1 DEF Types, JobsRun
  <1>3. t \in active[lane[t]]
    BY <1>1, <1>2 DEF InPlace, In
  <1>4. active' = [active EXCEPT ![lane[t]] = @ \ {t}] /\ status' = [status EXCEPT ![t] = s]
    BY <1>2 DEF Conclude
  <1>5. lane' = lane /\ prio' = prio /\ queue' = queue /\ s # "new"
    BY DEF ticket, Finals
  <1> HIDE DEF t
  <1>6. Submitted' = Submitted
    BY <1>1, <1>2, <1>4, <1>5 DEF Submitted, Types
  <1>7. Waiting' = Waiting
    BY <1>5 DEF Waiting
  <1>8. Board!End(t)
    BY <1>3, <1>4, <1>5, <1>6, <1>7 DEF Board!End, Submitted, Waiting
  <1> QED
    BY <1>2, <1>8

LEMMA BoardStutters ==
    ASSUME UNCHANGED <<queue, active, status, lane, prio>>
    PROVE  UNCHANGED Board!boardVars
  BY DEF Board!boardVars

LEMMA BoardStep ==
    ASSUME IInv, IInv', [Next]_vars
    PROVE  [Board!BoardNext]_(Board!boardVars)
  <1>1. ASSUME NEW t \in Tasks, NEW l \in Lanes, NEW p \in Priorities, Submit(t, l, p)
        PROVE  Board!BoardNext
    BY <1>1, BoardAdds DEF Board!BoardNext
  <1>2. ASSUME NEW w \in Workers, WorkerStep(w)
        PROVE  Board!BoardNext \/ UNCHANGED Board!boardVars
    <2>1. ASSUME Take(w)
          PROVE  Board!BoardNext
      <3>1. \E t \in Tasks : Board!Begin(t, FALSE)
        BY <2>1, BoardBegins
      <3> QED
        BY <3>1 DEF Board!BoardNext
    <2>2. ASSUME NEW s \in Finals, TakeAndRun(w, s)
          PROVE  Board!BoardNext
      <3>1. \E t \in Tasks : Board!Begin(t, TRUE)
        BY <2>2, BoardBegins
      <3> QED
        BY <3>1 DEF Board!BoardNext
    <2>3. ASSUME NEW s \in Finals, Finish(w, s)
          PROVE  Board!BoardNext
      <3>1. \E t \in Tasks : Board!End(t)
        BY <2>3, BoardEnds DEF Finish
      <3> QED
        BY <3>1 DEF Board!BoardNext
    <2>4. ASSUME Cancelled(w)
          PROVE  Board!BoardNext
      <3>1. \E t \in Tasks : Board!End(t)
        BY <2>4, BoardEnds DEF Cancelled, Finals
      <3> QED
        BY <3>1 DEF Board!BoardNext
    <2>5. ASSUME Rest(w) \/ Exit(w)
          PROVE  UNCHANGED Board!boardVars
      BY <2>5, BoardStutters DEF Rest, Exit, taskVars, ticket
    <2> QED
      BY <1>2, <2>1, <2>2, <2>3, <2>4, <2>5 DEF WorkerStep
  <1>3. ASSUME Start \/ Stop \/ StopGoesOn \/ UNCHANGED vars
        PROVE  UNCHANGED Board!boardVars
    BY <1>3, BoardStutters DEF Start, Stop, StopGoesOn, vars, taskVars, ticket
  <1> QED
    BY <1>1, <1>2, <1>3 DEF Next

LEMMA BoardBegun == Init => Board!BoardInit
  <1> SUFFICES ASSUME Init PROVE Board!BoardInit
    OBVIOUS
  <1>1. \A l \in Lanes : ToSet(queue[l]) = {}
    BY EmptySeq DEF Init, ToSet
  <1>2. {t \in Tasks : status[t] # "new"} = {}
    BY DEF Init
  <1> QED
    BY <1>1, <1>2 DEF Init, Board!BoardInit

(* Queues, workers and their cancellation implement the task board: a task *)
(* is performed once at most, in its own lane, and in order of urgency.    *)
THEOREM Refinement == Spec => BoardSpec
  <1>1. IInv /\ IInv' /\ [Next]_vars => [Board!BoardNext]_(Board!boardVars)
    BY BoardStep
  <1> QED
    BY BoardBegun, InductiveInvariant, <1>1, PTL DEF Spec, BoardSpec, Board!BoardSpec
==============================================================================
