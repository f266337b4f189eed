---------------------------- MODULE Buses_proofs ----------------------------
(***************************************************************************)
(* Proofs about the two message buses, for any topics, any listeners, any  *)
(* number of messages and of objects: both implement TopicChannel, and a   *)
(* message gets lost, or comes twice, only for the reasons the buses have. *)
(***************************************************************************)
EXTENDS Buses, SequenceTheorems, TLAPS

------------------------------------------------------------------------------
(* What appending to a sequence, and taking its first element, do to its   *)
(* elements.                                                               *)
LEMMA ElementsAre ==
    ASSUME NEW S, NEW s \in Seq(S)
    PROVE  /\ DOMAIN s = 1..Len(s) /\ Len(s) \in Nat
           /\ \A i \in DOMAIN s : s[i] \in S /\ s[i] \in ToSet(s)
           /\ \A x \in ToSet(s) : x \in S /\ \E i \in DOMAIN s : s[i] = x
  BY LenProperties, ElementOfSeq DEF ToSet

LEMMA Appended ==
    ASSUME NEW S, NEW s \in Seq(S), NEW x \in S
    PROVE  /\ Append(s, x) \in Seq(S) /\ Len(Append(s, x)) = Len(s) + 1
           /\ ToSet(Append(s, x)) = ToSet(s) \cup {x}
           /\ \A i, j \in DOMAIN Append(s, x) : i < j =>
                /\ i \in DOMAIN s /\ Append(s, x)[i] = s[i] /\ s[i] \in ToSet(s)
                /\ Append(s, x)[j] = x \/ (j \in DOMAIN s /\ Append(s, x)[j] = s[j])
  <1> DEFINE z == Append(s, x)
  <1>1. /\ z \in Seq(S) /\ Len(z) = Len(s) + 1 /\ DOMAIN z = 1..(Len(s) + 1)
        /\ \A i \in DOMAIN s : z[i] = s[i]
        /\ z[Len(s) + 1] = x
    BY AppendProperties, ElementsAre
  <1>2. DOMAIN s = 1..Len(s) /\ Len(s) \in Nat
    BY ElementsAre
  <1> HIDE DEF z
  <1>3. \A i \in DOMAIN z : i \in DOMAIN s \/ i = Len(s) + 1
    BY <1>1, <1>2
  <1>4. ToSet(z) = ToSet(s) \cup {x}
    <2>1. \A y \in ToSet(z) : y \in ToSet(s) \cup {x}
      BY <1>1, <1>3 DEF ToSet
    <2>2. \A y \in ToSet(s) \cup {x} : y \in ToSet(z)
      BY <1>1, <1>2 DEF ToSet
    <2> QED
      BY <2>1, <2>2
  <1>5. ASSUME NEW i \in DOMAIN z, NEW j \in DOMAIN z, i < j
        PROVE  /\ i \in DOMAIN s /\ z[i] = s[i] /\ s[i] \in ToSet(s)
               /\ z[j] = x \/ (j \in DOMAIN s /\ z[j] = s[j])
    <2>1. i \in DOMAIN s
      BY <1>1, <1>2, <1>5
    <2> QED
      BY <1>1, <1>3, <2>1 DEF ToSet
  <1> QED
    BY <1>1, <1>4, <1>5 DEF z

LEMMA Beheaded ==
    ASSUME NEW S, NEW s \in Seq(S), s # <<>>
    PROVE  /\ Tail(s) \in Seq(S) /\ Len(Tail(s)) = Len(s) - 1
           /\ Head(s) \in S /\ Head(s) = s[1] /\ 1 \in DOMAIN s
           /\ ToSet(s) = {Head(s)} \cup ToSet(Tail(s))
           /\ \A i \in DOMAIN Tail(s) :
                i \in Nat /\ i + 1 \in DOMAIN s /\ 1 < i + 1 /\ Tail(s)[i] = s[i + 1]
  <1> DEFINE z == Tail(s)
  <1>1. /\ DOMAIN s = 1..Len(s) /\ Len(s) \in Nat \ {0} /\ DOMAIN z = 1..(Len(s) - 1)
        /\ z \in Seq(S) /\ Len(z) = Len(s) - 1
        /\ \A i \in DOMAIN z : z[i] = s[i + 1]
        /\ Head(s) = s[1] /\ Head(s) \in S
    BY HeadTailProperties, LenProperties, EmptySeq
  <1> HIDE DEF z
  <1>2. 1 \in DOMAIN s /\ \A i \in DOMAIN z : i \in Nat /\ i + 1 \in DOMAIN s /\ 1 < i + 1
    BY <1>1
  <1>3. ToSet(s) = {Head(s)} \cup ToSet(z)
    <2>1. \A x \in {Head(s)} \cup ToSet(z) : x \in ToSet(s)
      BY <1>1, <1>2 DEF ToSet
    <2>2. ASSUME NEW x \in ToSet(s), x # Head(s) PROVE x \in ToSet(z)
      <3>1. PICK i \in DOMAIN s : s[i] = x
        BY DEF ToSet
      <3>2. i - 1 \in DOMAIN z /\ (i - 1) + 1 = i
        BY <1>1, <2>2, <3>1
      <3>3. z[i - 1] = x
        BY <1>1, <3>1, <3>2
      <3> QED
        BY <3>2, <3>3 DEF ToSet
    <2> QED
      BY <2>1, <2>2
  <1> QED
    BY <1>1, <1>2, <1>3 DEF z

(* One topic of the bus in memory: what was heard of it, what waits in its *)
(* object and how many messages were published.                            *)

(* What waits rises, is newer than all that was heard, and was published. *)
Ordered(h, s, n) ==
  /\ \A i, j \in DOMAIN s : i < j => s[i] < s[j]
  /\ \A x \in ToSet(s) : x <= n /\ \A y \in ToSet(h) : y < x
  /\ \A y \in ToSet(h) : y <= n

LEMMA OrderedWhenEmptied ==
    ASSUME NEW h, NEW s, NEW n, Ordered(h, s, n)
    PROVE  Ordered(h, <<>>, n)
  BY DEF Ordered, ToSet

LEMMA OrderedAtFirst ==
    ASSUME NEW n \in Nat
    PROVE  Ordered(<<>>, <<>>, n)
  BY DEF Ordered, ToSet

LEMMA OrderedWhenPublished ==
    ASSUME NEW h \in Seq(Nat), NEW s \in Seq(Nat), NEW n \in Nat, Ordered(h, s, n)
    PROVE  Ordered(h, Append(s, n + 1), n + 1)
  <1> DEFINE z == Append(s, n + 1)
  <1>1. /\ ToSet(z) = ToSet(s) \cup {n + 1}
        /\ \A i, j \in DOMAIN z : i < j =>
             /\ i \in DOMAIN s /\ z[i] = s[i] /\ s[i] \in ToSet(s)
             /\ z[j] = n + 1 \/ (j \in DOMAIN s /\ z[j] = s[j])
    <2> DEFINE m == n + 1
    <2>1. m \in Nat
      OBVIOUS
    <2> HIDE DEF m
    <2>2. /\ ToSet(Append(s, m)) = ToSet(s) \cup {m}
          /\ \A i, j \in DOMAIN Append(s, m) : i < j =>
               /\ i \in DOMAIN s /\ Append(s, m)[i] = s[i] /\ s[i] \in ToSet(s)
               /\ Append(s, m)[j] = m \/ (j \in DOMAIN s /\ Append(s, m)[j] = s[j])
      BY <2>1, Appended
    <2> QED
      BY <2>2 DEF m
  <1>2. (\A x \in ToSet(h) : x \in Nat) /\ (\A x \in ToSet(s) : x \in Nat)
    BY ElementsAre
  <1> HIDE DEF z
  <1>3. \A x \in ToSet(s) \cup ToSet(h) : x <= n /\ x < n + 1 /\ x <= n + 1
    BY <1>2 DEF Ordered
  <1>4. \A i, j \in DOMAIN z : i < j => z[i] < z[j]
    BY <1>1, <1>3 DEF Ordered
  <1>5. \A x \in ToSet(z) : x <= n + 1 /\ \A y \in ToSet(h) : y < x
    BY <1>1, <1>3 DEF Ordered
  <1>6. Ordered(h, z, n + 1)
    BY <1>3, <1>4, <1>5 DEF Ordered
  <1> QED
    BY <1>6 DEF z

LEMMA OrderedWhenTaken ==
    ASSUME NEW h \in Seq(Nat), NEW s \in Seq(Nat), NEW n \in Nat, Ordered(h, s, n), s # <<>>
    PROVE  /\ Head(s) <= n /\ \A y \in ToSet(h) : y < Head(s)
           /\ Ordered(Append(h, Head(s)), Tail(s), n)
  <1> DEFINE z == Tail(s)
             k == Append(h, Head(s))
  <1>1. /\ ToSet(s) = {Head(s)} \cup ToSet(z) /\ z \in Seq(Nat)
        /\ Head(s) \in Nat /\ Head(s) = s[1] /\ 1 \in DOMAIN s
        /\ \A i \in DOMAIN z : i \in Nat /\ i + 1 \in DOMAIN s /\ 1 < i + 1 /\ z[i] = s[i + 1]
    BY Beheaded
  <1>2. ToSet(k) = ToSet(h) \cup {Head(s)}
    BY <1>1, Appended
  <1> HIDE DEF z, k
  <1>3. \A x \in ToSet(z) : \E i \in DOMAIN z : z[i] = x
    BY DEF ToSet
  <1>4. Head(s) <= n /\ \A y \in ToSet(h) : y < Head(s)
    BY <1>1 DEF Ordered
  <1>5. \A i \in DOMAIN z : Head(s) < z[i]
    BY <1>1 DEF Ordered
  <1>6. \A i, j \in DOMAIN z : i < j => z[i] < z[j]
    <2> SUFFICES ASSUME NEW i \in DOMAIN z, NEW j \in DOMAIN z, i < j
                 PROVE  z[i] < z[j]
      OBVIOUS
    <2>1. /\ i + 1 < j + 1 /\ i + 1 \in DOMAIN s /\ j + 1 \in DOMAIN s
          /\ z[i] = s[i + 1] /\ z[j] = s[j + 1]
      BY <1>1
    <2>2. s[i + 1] < s[j + 1]
      BY <2>1 DEF Ordered
    <2> QED
      BY <2>1, <2>2
  <1>7. \A x \in ToSet(z) : x <= n /\ \A y \in ToSet(k) : y < x
    BY <1>1, <1>2, <1>3, <1>5 DEF Ordered
  <1>8. \A y \in ToSet(k) : y <= n
    BY <1>2, <1>4 DEF Ordered
  <1>9. Ordered(k, z, n)
    BY <1>6, <1>7, <1>8 DEF Ordered
  <1> QED
    BY <1>4, <1>9 DEF z, k

(* What was heard, seen over the one line of the bus in memory. *)
LEMMA OverOneLine ==
    ASSUME NEW h \in Seq(Nat), NEW n \in Nat
    PROVE  /\ OneLine(Append(h, n)) = Append(OneLine(h), <<1, n>>)
           /\ \A i \in DOMAIN OneLine(h) : OneLine(h)[i][2] \in ToSet(h)
  <1> DEFINE z == Append(h, n)
             p == OneLine(h)
             r == Append(p, <<1, n>>)
  <1>1. /\ z \in Seq(Nat) /\ DOMAIN z = 1..(Len(h) + 1)
        /\ \A i \in DOMAIN h : z[i] = h[i]
        /\ z[Len(h) + 1] = n
    BY AppendProperties, LenProperties
  <1>2. DOMAIN h = 1..Len(h) /\ Len(h) \in Nat /\ \A i \in DOMAIN h : h[i] \in Nat
    BY LenProperties, ElementOfSeq
  <1>3. /\ DOMAIN p = 1..Len(h) /\ \A i \in DOMAIN h : p[i] = <<1, h[i]>>
        /\ p = [i \in 1..Len(h) |-> <<1, h[i]>>]
    BY <1>2 DEF OneLine
  <1>4. p \in Seq({1} \X Nat) /\ Len(p) = Len(h)
    <2>1. \A i \in 1..Len(h) : <<1, h[i]>> \in {1} \X Nat
      BY <1>2
    <2>2. p \in Seq({1} \X Nat)
      BY <1>2, <1>3, <2>1, SeqDef
    <2> QED
      BY <1>2, <1>3, <2>2, LenProperties
  <1>5. /\ r \in Seq({1} \X Nat) /\ DOMAIN r = 1..(Len(h) + 1)
        /\ \A i \in DOMAIN p : r[i] = p[i]
        /\ r[Len(h) + 1] = <<1, n>>
    BY <1>4, AppendProperties, LenProperties
  <1>6. OneLine(z) = [i \in DOMAIN z |-> <<1, z[i]>>]
    BY DEF OneLine
  <1>7. OneLine(z) \in Seq({1} \X Nat) /\ Len(OneLine(z)) = Len(h) + 1
    <2>1. \A i \in 1..(Len(h) + 1) : <<1, z[i]>> \in {1} \X Nat
      BY <1>1, ElementOfSeq
    <2>2. OneLine(z) \in Seq({1} \X Nat)
      BY <1>1, <1>2, <1>6, <2>1, SeqDef
    <2> QED
      BY <1>1, <1>2, <1>6, <2>2, LenProperties
  <1> HIDE DEF z, p, r
  <1>8. \A i \in 1..(Len(h) + 1) : OneLine(z)[i] = r[i]
    <2> SUFFICES ASSUME NEW i \in 1..(Len(h) + 1) PROVE OneLine(z)[i] = r[i]
      OBVIOUS
    <2>1. i \in DOMAIN z /\ OneLine(z)[i] = <<1, z[i]>>
      BY <1>1, <1>6
    <2>2. CASE i \in DOMAIN h
      <3>1. i \in DOMAIN p /\ r[i] = p[i] /\ p[i] = <<1, h[i]>> /\ z[i] = h[i]
        BY <1>1, <1>2, <1>3, <1>5, <2>2
      <3> QED
        BY <2>1, <3>1
    <2>3. CASE i = Len(h) + 1
      BY <1>1, <1>5, <2>1, <2>3
    <2> QED
      BY <1>2, <2>2, <2>3
  <1>9. Len(r) = Len(h) + 1
    BY <1>2, <1>5, LenProperties
  <1>10. OneLine(z) = r
    BY <1>5, <1>7, <1>8, <1>9, SeqEqual
  <1>11. \A i \in DOMAIN p : p[i][2] \in ToSet(h)
    BY <1>2, <1>3 DEF ToSet
  <1> QED
    BY <1>10, <1>11 DEF z, p, r

------------------------------------------------------------------------------
(* The bus in memory.                                                      *)

(* What is in the object that new listeners of a topic find. *)
Waiting(t) == IF queues[t] = 0 THEN <<>> ELSE content[queues[t]]

MemoryTypes ==
  /\ running \in BOOLEAN
  /\ queues \in [Subjects -> 0..MaxQueues]
  /\ made \in 0..MaxQueues
  /\ content \in [1..MaxQueues -> Seq(1..MaxSent)]
  /\ ear \in [Ears -> [step : {"off", "waiting", "busy", "ended"}, queue : 0..MaxQueues]]
  /\ published \in [Subjects -> 0..MaxSent]
  /\ heard \in [Subjects -> Seq(1..MaxSent)]
  /\ drained \in [Subjects -> Nat]
  /\ reopened \subseteq Ears

(* An object is of one topic; the others are empty, and a listener has the *)
(* object of its topic or one that is of no topic any more.                *)
ObjectsAreApart ==
  /\ \A t \in Subjects : queues[t] <= made
  /\ \A t, u \in Subjects : queues[t] = queues[u] /\ queues[t] # 0 => t = u
  /\ \A q \in 1..MaxQueues : content[q] # <<>> => \E t \in Subjects : queues[t] = q
  /\ \A l \in Ears : ear[l].step # "off" => ear[l].queue \in 1..made
  /\ \A l \in Ears, t \in Subjects :
       ear[l].step # "off" /\ queues[t] = ear[l].queue => t = SubjectOf[l]

TopicsAreOrdered == \A t \in Subjects : Ordered(heard[t], Waiting(t), published[t])

TopicsAddUp ==
  \A t \in Subjects : published[t] = Len(heard[t]) + drained[t] + Len(Waiting(t))

MemoryIInv ==
  MemoryTypes /\ ObjectsAreApart /\ TopicsAreOrdered /\ TopicsAddUp /\ DeafOnlyAfterClose

LEMMA MemoryInitIInv == MemoryBusInit => MemoryIInv
  <1> SUFFICES ASSUME MemoryBusInit PROVE MemoryIInv
    OBVIOUS
  <1> USE BusUsersAssumption, InMemoryBusAssumption
  <1>1. MemoryTypes
    <2>1. queues \in [Subjects -> 0..MaxQueues] /\ made \in 0..MaxQueues
      BY DEF MemoryBusInit
    <2>2. ear \in [Ears -> [step : {"off", "waiting", "busy", "ended"}, queue : 0..MaxQueues]]
      BY DEF MemoryBusInit
    <2>3. content \in [1..MaxQueues -> Seq(1..MaxSent)] /\ heard \in [Subjects -> Seq(1..MaxSent)]
      BY EmptySeq DEF MemoryBusInit
    <2>4. published \in [Subjects -> 0..MaxSent] /\ drained \in [Subjects -> Nat]
      BY DEF MemoryBusInit
    <2> QED
      BY <2>1, <2>2, <2>3, <2>4 DEF MemoryBusInit, MemoryTypes
  <1>2. ObjectsAreApart
    BY DEF MemoryBusInit, ObjectsAreApart
  <1>3. TopicsAreOrdered /\ TopicsAddUp
    BY OrderedAtFirst DEF MemoryBusInit, TopicsAreOrdered, TopicsAddUp, Waiting
  <1>4. DeafOnlyAfterClose
    BY DEF MemoryBusInit, DeafOnlyAfterClose
  <1> QED
    BY <1>1, <1>2, <1>3, <1>4 DEF MemoryIInv

LEMMA WaitingIsSeq ==
    ASSUME MemoryTypes, NEW t \in Subjects
    PROVE  /\ Waiting(t) \in Seq(1..MaxSent) /\ Waiting(t) \in Seq(Nat) /\ Len(Waiting(t)) \in Nat
           /\ heard[t] \in Seq(Nat) /\ Len(heard[t]) \in Nat
           /\ published[t] \in Nat /\ drained[t] \in Nat
  <1> USE BusUsersAssumption, InMemoryBusAssumption
  <1>1. 1..MaxSent \subseteq Nat
    OBVIOUS
  <1>2. Waiting(t) \in Seq(1..MaxSent) /\ heard[t] \in Seq(1..MaxSent)
    <2>1. queues[t] # 0 => queues[t] \in 1..MaxQueues
      BY DEF MemoryTypes
    <2> QED
      BY <2>1, EmptySeq DEF MemoryTypes, Waiting
  <1>3. Waiting(t) \in Seq(Nat) /\ heard[t] \in Seq(Nat)
    BY <1>1, <1>2, SeqMonotonic
  <1> QED
    BY <1>2, <1>3, LenProperties DEF MemoryTypes

(* An object that is made is empty and nobody's. *)
LEMMA QueueIsFound ==
    ASSUME MemoryIInv, NEW t \in Subjects, HaveQueue(t)
    PROVE  /\ QueueFor(t) \in 1..MaxQueues /\ QueueFor(t) \in 1..made'
           /\ queues'[t] = QueueFor(t) /\ \A u \in Subjects \ {t} : queues'[u] = queues[u]
           /\ queues' \in [Subjects -> 0..MaxQueues]
           /\ made' \in 0..MaxQueues /\ made <= made'
           /\ \A u \in Subjects : queues[u] # 0 => queues'[u] = queues[u]
           /\ queues[t] = 0 => QueueFor(t) = made + 1 /\ made' = made + 1
           /\ content[QueueFor(t)] = Waiting(t)
  <1> USE InMemoryBusAssumption DEF MemoryIInv, MemoryTypes
  <1>1. QueueFor(t) \in 1..MaxQueues /\ QueueFor(t) \in 1..made'
    BY DEF HaveQueue, QueueFor, ObjectsAreApart
  <1>2. queues[t] = 0 => content[QueueFor(t)] = <<>>
    BY <1>1 DEF QueueFor, ObjectsAreApart
  <1>3. queues' = [queues EXCEPT ![t] = QueueFor(t)] /\ made' \in 0..MaxQueues /\ made <= made'
    BY <1>1 DEF HaveQueue, QueueFor
  <1>4. queues[t] = 0 => QueueFor(t) = made + 1 /\ made' = made + 1
    BY DEF HaveQueue, QueueFor
  <1>5. queues[t] # 0 => QueueFor(t) = queues[t]
    BY DEF QueueFor
  <1>6. content[QueueFor(t)] = Waiting(t)
    BY <1>2, <1>5 DEF Waiting
  <1>7. queues'[t] = QueueFor(t) /\ \A u \in Subjects \ {t} : queues'[u] = queues[u]
    BY <1>3
  <1>8. queues' \in [Subjects -> 0..MaxQueues]
    BY <1>1, <1>3
  <1> QED
    BY <1>1, <1>3, <1>4, <1>5, <1>6, <1>7, <1>8

(* With an object found or made, the objects stay apart, and what waits    *)
(* for the others is as before.                                            *)
LEMMA ApartWithQueue ==
    ASSUME MemoryIInv, NEW t \in Subjects, HaveQueue(t),
           content' \in [1..MaxQueues -> Seq(1..MaxSent)],
           \A q \in 1..MaxQueues : q # QueueFor(t) => content'[q] = content[q],
           \/ UNCHANGED ear
           \/ \E l \in Ears, s \in {"waiting", "ended"} :
                ear' = [ear EXCEPT ![l] = [step |-> s, queue |-> QueueFor(t)]] /\ t = SubjectOf[l]
    PROVE  /\ ObjectsAreApart' /\ \A u \in Subjects \ {t} : Waiting(u)' = Waiting(u)
           /\ Waiting(t)' = content'[QueueFor(t)]
           /\ ear' \in [Ears -> [step : {"off", "waiting", "busy", "ended"}, queue : 0..MaxQueues]]
  <1>1. /\ QueueFor(t) \in 1..MaxQueues /\ QueueFor(t) \in 1..made'
        /\ queues'[t] = QueueFor(t) /\ \A u \in Subjects \ {t} : queues'[u] = queues[u]
        /\ queues' \in [Subjects -> 0..MaxQueues]
        /\ made' \in 0..MaxQueues /\ made <= made' /\ made \in 0..MaxQueues
        /\ \A u \in Subjects : queues[u] # 0 => queues'[u] = queues[u]
        /\ queues[t] = 0 => QueueFor(t) = made + 1 /\ made' = made + 1
    BY QueueIsFound DEF MemoryIInv, MemoryTypes
  <1> USE InMemoryBusAssumption
  <1>t. /\ queues \in [Subjects -> 0..MaxQueues]
        /\ ear \in [Ears -> [step : {"off", "waiting", "busy", "ended"}, queue : 0..MaxQueues]]
    BY DEF MemoryIInv, MemoryTypes
  <1>2. \A u \in Subjects : queues'[u] \in 0..MaxQueues /\ queues'[u] <= made' /\ queues[u] <= made
    <2>1. \A u \in Subjects : queues[u] <= made /\ queues[u] \in 0..MaxQueues
      BY <1>t DEF MemoryIInv, ObjectsAreApart
    <2>2. \A u \in Subjects \ {t} : queues'[u] = queues[u] /\ queues[u] <= made'
      BY <1>1, <2>1
    <2>3. queues'[t] \in 0..MaxQueues /\ queues'[t] <= made'
      BY <1>1
    <2> QED
      BY <1>1, <2>1, <2>2, <2>3
  <1>3. \A u \in Subjects \ {t} : queues[u] # 0 => queues[u] # QueueFor(t)
    <2> SUFFICES ASSUME NEW u \in Subjects \ {t}, queues[u] # 0, queues[u] = QueueFor(t)
                 PROVE  FALSE
      OBVIOUS
    <2>1. queues[t] # 0
      BY <1>1, <1>2, <1>t
    <2> QED
      BY <2>1 DEF QueueFor, MemoryIInv, ObjectsAreApart
  <1>4. \A u, v \in Subjects : queues'[u] = queues'[v] /\ queues'[u] # 0 => u = v
    BY <1>1, <1>3 DEF MemoryIInv, ObjectsAreApart
  <1>5. ASSUME NEW q \in 1..MaxQueues, content'[q] # <<>>
        PROVE  \E u \in Subjects : queues'[u] = q
    <2>1. CASE q = QueueFor(t)
      BY <2>1, <1>1
    <2>2. CASE q # QueueFor(t)
      <3>1. PICK u \in Subjects : queues[u] = q
        BY <1>5, <2>2 DEF MemoryIInv, ObjectsAreApart
      <3> QED
        BY <3>1, <1>1
    <2> QED
      BY <2>1, <2>2
  <1>6. \A u \in Subjects \ {t} : Waiting(u)' = Waiting(u)
    <2> SUFFICES ASSUME NEW u \in Subjects \ {t} PROVE Waiting(u)' = Waiting(u)
      OBVIOUS
    <2>1. queues'[u] = queues[u] /\ queues[u] \in 0..MaxQueues
      BY <1>1, <1>t
    <2>2. queues[u] # 0 => content'[queues[u]] = content[queues[u]]
      BY <1>3, <2>1
    <2> QED
      BY <2>1, <2>2 DEF Waiting
  <1>7. Waiting(t)' = content'[QueueFor(t)]
    BY <1>1 DEF Waiting
  <1>8. ASSUME NEW k \in Ears, NEW u \in Subjects
        PROVE  /\ ear[k].step # "off" => ear[k].queue \in 1..made'
               /\ ear[k].step # "off" /\ queues'[u] = ear[k].queue => u = SubjectOf[k]
    <2>1. ear[k].step # "off" => ear[k].queue \in 1..made
      BY DEF MemoryIInv, ObjectsAreApart
    <2>2. ear[k].step # "off" => ear[k].queue \in 1..made'
      BY <1>1, <2>1
    <2>3. ear[k].step # "off" /\ queues'[u] = ear[k].queue => queues[u] = ear[k].queue
      BY <1>1, <2>1
    <2> QED
      BY <2>2, <2>3 DEF MemoryIInv, ObjectsAreApart
  <1>9. /\ \A k \in Ears : ear'[k].step # "off" => ear'[k].queue \in 1..made'
        /\ \A k \in Ears, u \in Subjects :
             ear'[k].step # "off" /\ queues'[u] = ear'[k].queue => u = SubjectOf[k]
        /\ ear' \in [Ears -> [step : {"off", "waiting", "busy", "ended"}, queue : 0..MaxQueues]]
    <2>1. CASE UNCHANGED ear
      BY <1>8, <1>t, <2>1
    <2>2. CASE \E l \in Ears, s \in {"waiting", "ended"} :
                 ear' = [ear EXCEPT ![l] = [step |-> s, queue |-> QueueFor(t)]] /\ t = SubjectOf[l]
      <3>1. PICK l \in Ears, s \in {"waiting", "ended"} :
                 ear' = [ear EXCEPT ![l] = [step |-> s, queue |-> QueueFor(t)]] /\ t = SubjectOf[l]
        BY <2>2
      <3>2. ear'[l].queue = QueueFor(t) /\ \A k \in Ears \ {l} : ear'[k] = ear[k]
        BY <1>t, <3>1
      <3>3. ear' \in [Ears -> [step : {"off", "waiting", "busy", "ended"}, queue : 0..MaxQueues]]
        BY <1>1, <1>t, <3>1
      <3>4. \A u \in Subjects : queues'[u] = ear'[l].queue => u = SubjectOf[l]
        BY <1>1, <1>4, <3>1, <3>2
      <3>5. \A k \in Ears : ear'[k].step # "off" => ear'[k].queue \in 1..made'
        BY <1>1, <1>8, <3>2
      <3>6. \A k \in Ears, u \in Subjects :
             ear'[k].step # "off" /\ queues'[u] = ear'[k].queue => u = SubjectOf[k]
        BY <1>8, <3>2, <3>4
      <3> QED
        BY <3>3, <3>5, <3>6
    <2> QED
      BY <2>1, <2>2
  <1> QED
    BY <1>2, <1>4, <1>5, <1>6, <1>7, <1>9 DEF ObjectsAreApart

(* Publishing appends to what waits for the topic. *)
LEMMA PublishMemoryIInv ==
    ASSUME MemoryIInv, NEW t \in Subjects, PublishMemory(t)
    PROVE  MemoryIInv' /\ Channel!Publish(t)
  <1> USE BusUsersAssumption, InMemoryBusAssumption
  <1> DEFINE q == QueueFor(t)
             n == published[t] + 1
  <1>1. /\ q \in 1..MaxQueues /\ content[q] = Waiting(t)
        /\ queues'[t] = q /\ queues' \in [Subjects -> 0..MaxQueues] /\ made' \in 0..MaxQueues
        /\ \A u \in Subjects \ {t} : queues'[u] = queues[u]
        /\ \A u \in Subjects : queues[u] # 0 => queues'[u] = queues[u]
    BY QueueIsFound DEF PublishMemory
  <1>2. /\ content' = [content EXCEPT ![q] = Append(@, n)]
        /\ published' = [published EXCEPT ![t] = @ + 1]
        /\ published[t] < MaxSent
        /\ UNCHANGED <<running, ear, heard, drained, reopened>> /\ HaveQueue(t)
    BY DEF PublishMemory
  <1>3. /\ Waiting(t) \in Seq(1..MaxSent) /\ Waiting(t) \in Seq(Nat) /\ Len(Waiting(t)) \in Nat
        /\ heard[t] \in Seq(Nat) /\ Len(heard[t]) \in Nat
        /\ published[t] \in Nat /\ drained[t] \in Nat
    BY WaitingIsSeq DEF MemoryIInv
  <1>4. n \in 1..MaxSent
    BY <1>2, <1>3
  <1>5. Append(Waiting(t), n) \in Seq(1..MaxSent) /\ Len(Append(Waiting(t), n)) = Len(Waiting(t)) + 1
    BY <1>3, <1>4, AppendProperties
  <1> HIDE DEF q
  <1>6. content \in [1..MaxQueues -> Seq(1..MaxSent)] /\ published \in [Subjects -> 0..MaxSent]
    BY DEF MemoryIInv, MemoryTypes
  <1>7. /\ content'[q] = Append(Waiting(t), n)
        /\ \A x \in 1..MaxQueues : x # q => content'[x] = content[x]
        /\ content' \in [1..MaxQueues -> Seq(1..MaxSent)]
    BY <1>1, <1>2, <1>5, <1>6
  <1>8. /\ published'[t] = n /\ \A u \in Subjects \ {t} : published'[u] = published[u]
        /\ published' \in [Subjects -> 0..MaxSent]
    BY <1>2, <1>4, <1>6
  <1>9. /\ ObjectsAreApart' /\ \A u \in Subjects \ {t} : Waiting(u)' = Waiting(u)
        /\ Waiting(t)' = Append(Waiting(t), n)
    BY <1>2, <1>7, ApartWithQueue DEF q
  <1>10. MemoryTypes'
    BY <1>1, <1>2, <1>7, <1>8 DEF MemoryIInv, MemoryTypes
  <1>11. TopicsAreOrdered'
    <2>1. Ordered(heard[t], Append(Waiting(t), n), n)
      BY <1>3, OrderedWhenPublished DEF MemoryIInv, TopicsAreOrdered
    <2> HIDE DEF n
    <2>2. Ordered(heard'[t], Waiting(t)', published'[t])
      BY <1>2, <1>8, <1>9, <2>1
    <2>3. ASSUME NEW u \in Subjects \ {t}
          PROVE  Ordered(heard'[u], Waiting(u)', published'[u])
      BY <1>2, <1>8, <1>9 DEF MemoryIInv, TopicsAreOrdered
    <2> QED
      BY <2>2, <2>3 DEF TopicsAreOrdered
  <1>12. TopicsAddUp'
    <2>1. published[t] = Len(heard[t]) + drained[t] + Len(Waiting(t))
      BY DEF MemoryIInv, TopicsAddUp
    <2>2. published[t] + 1 = Len(heard[t]) + drained[t] + (Len(Waiting(t)) + 1)
      <3>1. /\ published[t] \in Nat /\ drained[t] \in Nat
            /\ Len(heard[t]) \in Nat /\ Len(Waiting(t)) \in Nat
        BY <1>3
      <3> QED
        BY <2>1, <3>1
    <2>3. published'[t] = Len(heard'[t]) + drained'[t] + Len(Waiting(t)')
      BY <1>2, <1>5, <1>8, <1>9, <2>2
    <2>4. ASSUME NEW u \in Subjects \ {t}
          PROVE  published'[u] = Len(heard'[u]) + drained'[u] + Len(Waiting(u)')
      BY <1>2, <1>8, <1>9 DEF MemoryIInv, TopicsAddUp
    <2> QED
      BY <2>3, <2>4 DEF TopicsAddUp
  <1>13. DeafOnlyAfterClose'
    <2> SUFFICES ASSUME NEW k \in Ears, ear[k].step \in {"waiting", "busy"},
                        ear[k].queue # queues'[SubjectOf[k]]
                 PROVE  k \in reopened
      BY <1>2 DEF DeafOnlyAfterClose
    <2>1. ear[k].queue \in 1..made /\ made \in Nat /\ SubjectOf[k] \in Subjects
      BY DEF MemoryIInv, ObjectsAreApart, MemoryTypes
    <2>2. ear[k].queue # 0
      BY <2>1
    <2>3. ear[k].queue # queues[SubjectOf[k]]
      BY <1>1, <2>1, <2>2
    <2>4. DeafOnlyAfterClose
      BY DEF MemoryIInv
    <2> QED
      BY <2>3, <2>4 DEF DeafOnlyAfterClose
  <1>14. Channel!Publish(t)
    BY <1>2 DEF Channel!Publish
  <1> QED
    BY <1>9, <1>10, <1>11, <1>12, <1>13, <1>14 DEF MemoryIInv

(* Subscribing and listening make an object at most. *)
LEMMA SubscribeMemoryIInv ==
    ASSUME MemoryIInv, NEW t \in Subjects, SubscribeMemory(t)
    PROVE  MemoryIInv' /\ UNCHANGED <<published, heard>>
  <1>1. HaveQueue(t) /\ UNCHANGED <<running, content, ear, published, heard, drained, reopened>>
    BY DEF SubscribeMemory
  <1>2. /\ content[QueueFor(t)] = Waiting(t)
        /\ queues' \in [Subjects -> 0..MaxQueues] /\ made' \in 0..MaxQueues
        /\ \A u \in Subjects : queues[u] # 0 => queues'[u] = queues[u]
    BY <1>1, QueueIsFound
  <1>3. ObjectsAreApart' /\ \A u \in Subjects : Waiting(u)' = Waiting(u)
    BY <1>1, <1>2, ApartWithQueue DEF MemoryIInv, MemoryTypes
  <1>4. MemoryTypes'
    BY <1>1, <1>2 DEF MemoryIInv, MemoryTypes
  <1>5. TopicsAreOrdered' /\ TopicsAddUp'
    BY <1>1, <1>3 DEF MemoryIInv, TopicsAreOrdered, TopicsAddUp
  <1>6. DeafOnlyAfterClose'
    BY BusUsersAssumption, <1>1, <1>2 DEF MemoryIInv, ObjectsAreApart, DeafOnlyAfterClose
  <1> QED
    BY <1>1, <1>3, <1>4, <1>5, <1>6 DEF MemoryIInv

LEMMA ListenMemoryIInv ==
    ASSUME MemoryIInv, NEW l \in Ears, ListenMemory(l)
    PROVE  MemoryIInv' /\ UNCHANGED <<published, heard>>
  <1> DEFINE t == SubjectOf[l]
  <1>1. /\ t \in Subjects /\ HaveQueue(t) /\ LoopOrEnd \in {"waiting", "ended"}
        /\ ear' = [ear EXCEPT ![l] = [step |-> LoopOrEnd, queue |-> QueueFor(t)]]
        /\ UNCHANGED <<running, content, published, heard, drained, reopened>>
    BY BusUsersAssumption DEF ListenMemory, LoopOrEnd
  <1> HIDE DEF t
  <1>2. /\ content[QueueFor(t)] = Waiting(t) /\ queues'[t] = QueueFor(t)
        /\ queues' \in [Subjects -> 0..MaxQueues] /\ made' \in 0..MaxQueues
        /\ \A u \in Subjects : queues[u] # 0 => queues'[u] = queues[u]
    BY <1>1, QueueIsFound
  <1>3. /\ ObjectsAreApart' /\ \A u \in Subjects : Waiting(u)' = Waiting(u)
        /\ ear' \in [Ears -> [step : {"off", "waiting", "busy", "ended"}, queue : 0..MaxQueues]]
    <2>1. /\ content' \in [1..MaxQueues -> Seq(1..MaxSent)]
          /\ \A q \in 1..MaxQueues : q # QueueFor(t) => content'[q] = content[q]
          /\ content'[QueueFor(t)] = content[QueueFor(t)]
      BY <1>1 DEF MemoryIInv, MemoryTypes
    <2>2. \E k \in Ears, s \in {"waiting", "ended"} :
             ear' = [ear EXCEPT ![k] = [step |-> s, queue |-> QueueFor(t)]] /\ t = SubjectOf[k]
      BY <1>1 DEF t
    <2>3. /\ ObjectsAreApart' /\ \A u \in Subjects \ {t} : Waiting(u)' = Waiting(u)
          /\ Waiting(t)' = content'[QueueFor(t)]
          /\ ear' \in [Ears -> [step : {"off", "waiting", "busy", "ended"}, queue : 0..MaxQueues]]
      BY <1>1, <2>1, <2>2, ApartWithQueue
    <2> QED
      BY <1>2, <2>1, <2>3
  <1>4. MemoryTypes'
    BY <1>1, <1>2, <1>3 DEF MemoryIInv, MemoryTypes
  <1>5. TopicsAreOrdered' /\ TopicsAddUp'
    BY <1>1, <1>3 DEF MemoryIInv, TopicsAreOrdered, TopicsAddUp
  <1>6. DeafOnlyAfterClose'
    <2>1. /\ ear'[l].queue = queues'[t] /\ \A k \in Ears \ {l} : ear'[k] = ear[k]
      BY <1>1, <1>2 DEF MemoryIInv, MemoryTypes
    <2>2. ASSUME NEW k \in Ears \ {l}, ear[k].step \in {"waiting", "busy"},
                 ear[k].queue # queues'[SubjectOf[k]]
          PROVE  k \in reopened
      <3>1. ear[k].queue \in 1..made /\ SubjectOf[k] \in Subjects
        BY <2>2, BusUsersAssumption DEF MemoryIInv, ObjectsAreApart
      <3>2. ear[k].queue # queues[SubjectOf[k]]
        BY <1>2, <2>2, <3>1 DEF MemoryIInv, MemoryTypes
      <3> QED
        BY <2>2, <3>2 DEF MemoryIInv, DeafOnlyAfterClose
    <2> QED
      BY <1>1, <2>1, <2>2 DEF DeafOnlyAfterClose, t
  <1> QED
    BY <1>1, <1>3, <1>4, <1>5, <1>6 DEF MemoryIInv

(* The oldest message of the object goes to the listener: what waited in   *)
(* the object of another topic stays.                                      *)
LEMMA TakeMessageIInv ==
    ASSUME MemoryIInv, NEW l \in Ears, TakeMessage(l)
    PROVE  MemoryIInv' /\ \E t \in Subjects : Channel!Receive(t)
  <1> USE BusUsersAssumption, InMemoryBusAssumption
  <1> DEFINE t == SubjectOf[l]
             q == ear[l].queue
             n == Head(content[q])
  <1>1. /\ t \in Subjects /\ ear[l].step = "waiting" /\ content[q] # <<>>
        /\ content' = [content EXCEPT ![q] = Tail(content[q])]
        /\ heard' = [heard EXCEPT ![t] = Append(@, n)]
        /\ ear' = [ear EXCEPT ![l].step = "busy"]
        /\ UNCHANGED <<running, queues, made, published, drained, reopened>>
    BY DEF TakeMessage, TakeFrom
  <1>2. q \in 1..made /\ q \in 1..MaxQueues
    BY <1>1 DEF MemoryIInv, MemoryTypes, ObjectsAreApart
  <1>3. queues[t] = q /\ Waiting(t) = content[q]
    <2>1. PICK u \in Subjects : queues[u] = q
      BY <1>1, <1>2 DEF MemoryIInv, ObjectsAreApart
    <2>2. u = t
      BY <1>1, <2>1 DEF MemoryIInv, ObjectsAreApart
    <2>3. queues[t] = q /\ q # 0
      BY <1>2, <2>1, <2>2
    <2> QED
      BY <2>3 DEF Waiting
  <1>4. /\ content[q] \in Seq(1..MaxSent) /\ content[q] \in Seq(Nat) /\ Len(content[q]) \in Nat
        /\ heard[t] \in Seq(Nat) /\ Len(heard[t]) \in Nat
        /\ published[t] \in Nat /\ drained[t] \in Nat /\ heard[t] \in Seq(1..MaxSent)
    BY <1>1, <1>3, WaitingIsSeq DEF MemoryIInv, MemoryTypes
  <1> HIDE DEF t, q
  <1>5. /\ n \in 1..MaxSent /\ Tail(content[q]) \in Seq(1..MaxSent)
        /\ Len(Tail(content[q])) = Len(content[q]) - 1
    BY <1>1, <1>4, HeadTailProperties
  <1>6. /\ n <= published[t] /\ \A y \in ToSet(heard[t]) : y < n
        /\ Ordered(Append(heard[t], n), Tail(content[q]), published[t])
    BY <1>1, <1>3, <1>4, OrderedWhenTaken DEF MemoryIInv, TopicsAreOrdered
  <1>7. Append(heard[t], n) \in Seq(1..MaxSent) /\ Len(Append(heard[t], n)) = Len(heard[t]) + 1
    BY <1>4, <1>5, AppendProperties
  <1> HIDE DEF n
  <1>8. /\ content' \in [1..MaxQueues -> Seq(1..MaxSent)] /\ content'[q] = Tail(content[q])
        /\ \A x \in 1..MaxQueues : x # q => content'[x] = content[x]
    BY <1>1, <1>2, <1>5 DEF MemoryIInv, MemoryTypes
  <1>9. /\ heard' \in [Subjects -> Seq(1..MaxSent)] /\ heard'[t] = Append(heard[t], n)
        /\ \A u \in Subjects \ {t} : heard'[u] = heard[u]
    BY <1>1, <1>7 DEF MemoryIInv, MemoryTypes
  <1>10. /\ ear' \in [Ears -> [step : {"off", "waiting", "busy", "ended"}, queue : 0..MaxQueues]]
         /\ \A k \in Ears : ear'[k].queue = ear[k].queue
         /\ \A k \in Ears : ear'[k].step # "off" <=> ear[k].step # "off"
         /\ \A k \in Ears : ear'[k].step \in {"waiting", "busy"} <=> ear[k].step \in {"waiting", "busy"}
    BY <1>1 DEF MemoryIInv, MemoryTypes
  <1>11. Waiting(t)' = Tail(content[q]) /\ \A u \in Subjects \ {t} : Waiting(u)' = Waiting(u)
    <2>1. Waiting(t)' = Tail(content[q])
      BY <1>1, <1>2, <1>3, <1>8 DEF Waiting
    <2>2. ASSUME NEW u \in Subjects \ {t} PROVE Waiting(u)' = Waiting(u)
      <3>1. queues[u] # 0 => queues[u] # q /\ queues[u] \in 1..MaxQueues
        <4>1. queues[u] # 0 => queues[u] # q
          BY <1>1, <1>3 DEF MemoryIInv, ObjectsAreApart
        <4>2. queues[u] # 0 => queues[u] \in 1..MaxQueues
          BY DEF MemoryIInv, MemoryTypes
        <4> QED
          BY <4>1, <4>2
      <3> QED
        BY <1>1, <1>8, <3>1 DEF Waiting
    <2> QED
      BY <2>1, <2>2
  <1>12. MemoryTypes'
    BY <1>1, <1>8, <1>9, <1>10 DEF MemoryIInv, MemoryTypes
  <1>13. ObjectsAreApart'
    <2>1. \A x \in 1..MaxQueues : content'[x] # <<>> => \E u \in Subjects : queues'[u] = x
      BY <1>1, <1>3, <1>8 DEF MemoryIInv, ObjectsAreApart
    <2>2. /\ \A k \in Ears : ear'[k].step # "off" => ear'[k].queue \in 1..made'
          /\ \A k \in Ears, u \in Subjects :
               ear'[k].step # "off" /\ queues'[u] = ear'[k].queue => u = SubjectOf[k]
      BY <1>1, <1>10 DEF MemoryIInv, ObjectsAreApart
    <2> QED
      BY <1>1, <2>1, <2>2 DEF MemoryIInv, ObjectsAreApart
  <1>14. TopicsAreOrdered'
    <2>1. Ordered(heard'[t], Waiting(t)', published'[t])
      BY <1>1, <1>6, <1>9, <1>11
    <2>2. ASSUME NEW u \in Subjects \ {t}
          PROVE  Ordered(heard'[u], Waiting(u)', published'[u])
      BY <1>1, <1>9, <1>11 DEF MemoryIInv, TopicsAreOrdered
    <2> QED
      BY <2>1, <2>2 DEF TopicsAreOrdered
  <1>15. TopicsAddUp'
    <2>1. published'[t] = Len(heard'[t]) + drained'[t] + Len(Waiting(t)')
      <3>1. published[t] = Len(heard[t]) + drained[t] + Len(content[q])
        BY <1>1, <1>3 DEF MemoryIInv, TopicsAddUp
      <3>2. published[t] = (Len(heard[t]) + 1) + drained[t] + (Len(content[q]) - 1)
        <4>1. /\ published[t] \in Nat /\ drained[t] \in Nat
              /\ Len(heard[t]) \in Nat /\ Len(content[q]) \in Nat
          BY <1>4
        <4> DEFINE d == drained[t]
                   h == Len(heard[t])
                   w == Len(content[q])
        <4>2. d \in Nat /\ h \in Nat /\ w \in Nat /\ published[t] = h + d + w
          BY <3>1, <4>1
        <4> HIDE DEF d, h, w
        <4>3. published[t] = (h + 1) + d + (w - 1)
          BY <4>2
        <4> QED
          BY <4>3 DEF d, h, w
      <3> QED
        BY <1>1, <1>5, <1>7, <1>9, <1>11, <3>2
    <2>2. ASSUME NEW u \in Subjects \ {t}
          PROVE  published'[u] = Len(heard'[u]) + drained'[u] + Len(Waiting(u)')
      BY <1>1, <1>9, <1>11 DEF MemoryIInv, TopicsAddUp
    <2> QED
      BY <2>1, <2>2 DEF TopicsAddUp
  <1>16. DeafOnlyAfterClose'
    BY <1>1, <1>10 DEF MemoryIInv, DeafOnlyAfterClose
  <1>17. Channel!Receive(t)
    <2> DEFINE got == [u \in Subjects |-> OneLine(heard[u])]
               gotten == [u \in Subjects |-> OneLine(heard'[u])]
    <2>1. n \in 1..published[t] /\ n \in Nat /\ 1 \in {1}
      BY <1>4, <1>5, <1>6
    <2>2. /\ OneLine(Append(heard[t], n)) = Append(OneLine(heard[t]), <<1, n>>)
          /\ \A i \in DOMAIN OneLine(heard[t]) : OneLine(heard[t])[i][2] \in ToSet(heard[t])
      BY <1>4, <2>1, OverOneLine
    <2>3. \A i \in DOMAIN got[t] : got[t][i][1] = 1 => got[t][i][2] < n
      BY <1>1, <1>6, <2>2
    <2>4. gotten = [got EXCEPT ![t] = Append(@, <<1, n>>)]
      BY <1>1, <1>9, <2>2
    <2>5. \E x \in {1}, m \in 1..published[t] :
             /\ \A i \in DOMAIN got[t] : got[t][i][1] = x => got[t][i][2] < m
             /\ gotten = [got EXCEPT ![t] = Append(@, <<x, m>>)]
      BY <2>1, <2>3, <2>4
    <2> QED
      BY <1>1, <2>5 DEF Channel!Receive
  <1> QED
    BY <1>1, <1>12, <1>13, <1>14, <1>15, <1>16, <1>17 DEF MemoryIInv

(* Neither the loop of a listener nor connect() touches a message. *)
LEMMA LoopMemoryIInv ==
    ASSUME MemoryIInv,
           ConnectMemory \/ (\E l \in Ears : Look(l) \/ CancelListener(l)) \/ UNCHANGED memoryBusVars
    PROVE  MemoryIInv' /\ UNCHANGED <<published, heard>>
  <1>1. /\ UNCHANGED <<queues, made, content, published, heard, drained, reopened>>
        /\ running' \in BOOLEAN
    BY DEF ConnectMemory, Look, CancelListener, memoryBusVars, MemoryIInv, MemoryTypes
  <1>2. /\ ear' \in [Ears -> [step : {"off", "waiting", "busy", "ended"}, queue : 0..MaxQueues]]
        /\ \A k \in Ears : ear'[k].queue = ear[k].queue
        /\ \A k \in Ears : ear'[k].step # "off" => ear[k].step # "off"
        /\ \A k \in Ears : ear'[k].step \in {"waiting", "busy"} => ear[k].step \in {"waiting", "busy"}
    <2>1. CASE UNCHANGED ear
      BY <2>1 DEF MemoryIInv, MemoryTypes
    <2>2. CASE \E l \in Ears, s \in {"waiting", "ended"} :
                 ear[l].step \in {"waiting", "busy"} /\ ear' = [ear EXCEPT ![l].step = s]
      BY <2>2 DEF MemoryIInv, MemoryTypes
    <2> QED
      BY <2>1, <2>2 DEF ConnectMemory, Look, LoopOrEnd, CancelListener, memoryBusVars
  <1>3. \A u \in Subjects : Waiting(u)' = Waiting(u)
    BY <1>1 DEF Waiting
  <1>4. MemoryTypes'
    BY <1>1, <1>2 DEF MemoryIInv, MemoryTypes
  <1>5. ObjectsAreApart'
    BY <1>1, <1>2 DEF MemoryIInv, ObjectsAreApart
  <1>6. TopicsAreOrdered' /\ TopicsAddUp'
    BY <1>1, <1>3 DEF MemoryIInv, TopicsAreOrdered, TopicsAddUp
  <1>7. DeafOnlyAfterClose'
    BY <1>1, <1>2 DEF MemoryIInv, DeafOnlyAfterClose
  <1> QED
    BY <1>1, <1>4, <1>5, <1>6, <1>7 DEF MemoryIInv

(* close() throws away what waits, counts it, and makes the waiting deaf. *)
LEMMA CloseMemoryIInv ==
    ASSUME MemoryIInv, CloseMemory
    PROVE  MemoryIInv' /\ UNCHANGED <<published, heard>>
  <1> USE BusUsersAssumption, InMemoryBusAssumption
  <1>1. /\ running' = FALSE /\ queues' = [t \in Subjects |-> 0]
        /\ content' = [q \in 1..MaxQueues |->
                         IF \E t \in Subjects : queues[t] = q THEN <<>> ELSE content[q]]
        /\ reopened' = reopened \cup {l \in Ears : ear[l].step \in {"waiting", "busy"}}
        /\ UNCHANGED <<made, ear, published, heard>>
    BY DEF CloseMemory
  <1>2. drained' = [t \in Subjects |-> drained[t] + Len(Waiting(t))]
    <2>1. \A t \in Subjects : (IF queues[t] = 0 THEN 0 ELSE Len(content[queues[t]])) = Len(Waiting(t))
      BY EmptySeq DEF Waiting
    <2> QED
      BY <2>1 DEF CloseMemory
  <1>3. \A q \in 1..MaxQueues : content'[q] = <<>>
    BY <1>1 DEF MemoryIInv, ObjectsAreApart
  <1>4. \A t \in Subjects : Waiting(t)' = <<>>
    BY <1>1 DEF Waiting
  <1>5. \A t \in Subjects : Len(Waiting(t)) \in Nat /\ drained[t] \in Nat /\ Len(heard[t]) \in Nat
    BY WaitingIsSeq DEF MemoryIInv
  <1>6. MemoryTypes'
    <2>1. content' \in [1..MaxQueues -> Seq(1..MaxSent)]
      BY <1>1, EmptySeq DEF MemoryIInv, MemoryTypes
    <2>2. queues' \in [Subjects -> 0..MaxQueues] /\ drained' \in [Subjects -> Nat]
      BY <1>1, <1>2, <1>5
    <2> QED
      BY <1>1, <2>1, <2>2 DEF MemoryIInv, MemoryTypes
  <1>7. ObjectsAreApart'
    BY <1>1, <1>3 DEF MemoryIInv, MemoryTypes, ObjectsAreApart
  <1>8. TopicsAreOrdered'
    BY <1>1, <1>4, OrderedWhenEmptied DEF MemoryIInv, TopicsAreOrdered
  <1>9. TopicsAddUp'
    <2> SUFFICES ASSUME NEW t \in Subjects
                 PROVE  published'[t] = Len(heard'[t]) + drained'[t] + Len(Waiting(t)')
      BY DEF TopicsAddUp
    <2>1. Len(Waiting(t)') = 0 /\ drained'[t] = drained[t] + Len(Waiting(t))
      BY <1>2, <1>4, EmptySeq
    <2> QED
      BY <1>1, <1>5, <2>1 DEF MemoryIInv, TopicsAddUp
  <1>10. DeafOnlyAfterClose'
    BY <1>1 DEF DeafOnlyAfterClose
  <1> QED
    BY <1>1, <1>6, <1>7, <1>8, <1>9, <1>10 DEF MemoryIInv

LEMMA MemoryNextIInv ==
    ASSUME MemoryIInv, [MemoryBusNext]_memoryBusVars
    PROVE  MemoryIInv' /\ [Channel!Next]_<<published, [t \in Subjects |-> OneLine(heard[t])]>>
  <1>1. CASE \E t \in Subjects : PublishMemory(t)
    BY <1>1, PublishMemoryIInv DEF Channel!Next
  <1>2. CASE \E t \in Subjects : SubscribeMemory(t)
    BY <1>2, SubscribeMemoryIInv
  <1>3. CASE \E l \in Ears : ListenMemory(l)
    BY <1>3, ListenMemoryIInv
  <1>4. CASE \E l \in Ears : TakeMessage(l)
    BY <1>4, TakeMessageIInv DEF Channel!Next
  <1>5. CASE ConnectMemory \/ (\E l \in Ears : Look(l) \/ CancelListener(l))
             \/ UNCHANGED memoryBusVars
    BY <1>5, LoopMemoryIInv
  <1>6. CASE CloseMemory
    BY <1>6, CloseMemoryIInv
  <1> QED
    BY <1>1, <1>2, <1>3, <1>4, <1>5, <1>6 DEF MemoryBusNext

(* The invariant of the bus in memory holds in every reachable state. *)
THEOREM MemoryInvariant == MemoryBusSpec => []MemoryIInv
  BY MemoryInitIInv, MemoryNextIInv, PTL DEF MemoryBusSpec

(* Listeners that compete for a topic get each message once at most and in *)
(* the order of the publications, also across close() and new objects.     *)
THEOREM MemoryBusImplementsChannel == MemoryBusSpec => MemoryBusInOrder
  <1>1. MemoryBusInit => Channel!Init
    BY DEF MemoryBusInit, Channel!Init, OneLine
  <1>2. MemoryIInv /\ [MemoryBusNext]_memoryBusVars
           => [Channel!Next]_<<published, [t \in Subjects |-> OneLine(heard[t])]>>
    BY MemoryNextIInv
  <1> QED
    BY <1>1, <1>2, MemoryInvariant, PTL DEF MemoryBusSpec, MemoryBusInOrder, Channel!Spec

(* A message that gets lost is one that close() threw away, and a listener *)
(* that waits for nothing on a running bus sat through a close().          *)
LEMMA MemoryDelivers == MemoryBusSpec => [](LostOnlyByClose /\ DeafOnlyAfterClose)
  <1>1. MemoryIInv => LostOnlyByClose /\ DeafOnlyAfterClose
    <2> SUFFICES ASSUME MemoryIInv PROVE LostOnlyByClose
      BY DEF MemoryIInv
    <2>1. \A t \in Subjects : (IF queues[t] = 0 THEN 0 ELSE Len(content[queues[t]])) = Len(Waiting(t))
      BY EmptySeq DEF Waiting
    <2> QED
      BY <2>1 DEF MemoryIInv, TopicsAddUp, LostOnlyByClose
  <1> QED
    BY <1>1, MemoryInvariant, PTL

------------------------------------------------------------------------------
(* The bus over Redis: a buffer for each object, for all its topics.       *)

Letters == Subjects \X (1..MaxSent)
Receipts == Objects \X (1..MaxSent)
Heard == [Subjects -> Seq(Receipts)]
Counts == [Subjects -> 0..MaxSent]
OneUp(n, t) == [n EXCEPT ![t] = @ + 1]
Receiving(h, p, e) == [h EXCEPT ![e[1]] = Append(@, <<p, e[2]>>)]

(* A message was published on a topic of object o and is newer than what   *)
(* was received through o.                                                 *)
Fits(e, topics, o, h, n) ==
  /\ e[1] \in topics /\ e[2] <= n[e[1]]
  /\ \A f \in ToSet(h[e[1]]) : f[1] = o => f[2] < e[2]
Before(e, f) == e[1] = f[1] => e[2] < f[2]

(* Of the messages of a topic in the buffer of object o, later ones have   *)
(* larger numbers, and all of them fit.                                    *)
Line(b, topics, o, h, n) ==
  /\ \A i, j \in DOMAIN b : i < j => Before(b[i], b[j])
  /\ \A e \in ToSet(b) : Fits(e, topics, o, h, n)

LinesAreOrdered ==
  \A o \in Objects : Line(buffer[o], channels[o], o, received, posted)

WasPosted(h, n) == \A t \in Subjects : \A f \in ToSet(h[t]) : f[2] <= n[t]

(* A listener polls an object that was made, and only then has one. *)
PollsAreKnown ==
  \A l \in Ears :
    /\ turn[l] = "polling" => via[l] \in 1..pubsub
    /\ turn[l] # "polling" => via[l] = 0
    /\ turn[l] # "off" => pubsub # 0

NewObjectsAreBare ==
  /\ \A o \in Objects : o > pubsub => channels[o] = {}
  /\ pubsub = 0 => due = NothingDue

(* The objects through which the listeners of a topic may yet get a message *)
(* of it: the present one, and those that one of them still polls.         *)
Carriers(t) ==
  {o \in Objects : /\ t \in channels[o]
                   /\ o = pubsub \/ \E l \in Ears : SubjectOf[l] = t /\ via[l] = o}

(* There is one such object, but for the topics that are twofold, and what *)
(* it has is newer than all that was received through whatever object.     *)
TopicsAreUnmixed ==
  \A t \in Subjects \ twofold :
    /\ \A o, p \in Carriers(t) : o = p
    /\ \A o \in Carriers(t) : \A e \in ToSet(buffer[o]) :
         e[1] = t => \A f \in ToSet(received[t]) : f[2] < e[2]

RedisIInv ==
  /\ RedisBusTypeOK
  /\ PollsAreKnown /\ NewObjectsAreBare
  /\ LinesAreOrdered /\ WasPosted(received, posted)
  /\ TopicsAreUnmixed /\ InOrderUnlessTwofold
  /\ DroppedOnlyByOthers /\ DeafOnlyAfterRenewal

LEMMA RedisTypes ==
    ASSUME RedisBusTypeOK
    PROVE  /\ buffer \in [Objects -> Seq(Letters)] /\ received \in Heard /\ posted \in Counts
           /\ pubsub \in Nat /\ pubsub <= MaxObjects
           /\ pubsub # 0 => pubsub \in Objects
           /\ PresentChannels \subseteq Subjects
           /\ \A o \in Objects : o \in Nat /\ o # 0
  <1>1. buffer \in [Objects -> Seq(Letters)] /\ received \in Heard /\ posted \in Counts
    BY DEF RedisBusTypeOK, Letters, Receipts, Heard, Counts
  <1>2. /\ pubsub \in Nat /\ pubsub <= MaxObjects /\ (pubsub # 0 => pubsub \in Objects)
        /\ \A o \in Objects : o \in Nat /\ o # 0
    BY RedisBusAssumption DEF RedisBusTypeOK, Objects
  <1>3. PresentChannels \subseteq Subjects
    BY <1>2 DEF RedisBusTypeOK, PresentChannels
  <1> QED
    BY <1>1, <1>2, <1>3

LEMMA LetterParts ==
    ASSUME NEW e \in Letters
    PROVE  e[1] \in Subjects /\ e[2] \in 1..MaxSent /\ e[2] \in Nat /\ e = <<e[1], e[2]>>
  BY BusUsersAssumption DEF Letters

LEMMA ReceiptParts ==
    ASSUME NEW h \in Heard, NEW t \in Subjects
    PROVE  /\ h[t] \in Seq(Receipts)
           /\ \A f \in ToSet(h[t]) : f \in Receipts /\ f[2] \in Nat /\ f[1] \in Objects
  <1>1. h[t] \in Seq(Receipts)
    BY DEF Heard
  <1>2. \A f \in ToSet(h[t]) : f \in Receipts
    BY <1>1, ElementsAre
  <1>3. \A f \in Receipts : f[2] \in Nat /\ f[1] \in Objects
    BY BusUsersAssumption DEF Receipts
  <1> QED
    BY <1>1, <1>2, <1>3

LEMMA BareLine ==
    ASSUME NEW topics, NEW o, NEW h, NEW n
    PROVE  Line(<<>>, topics, o, h, n) /\ ToSet(<<>>) = {}
  BY DEF Line, ToSet

(* One more message of t is published. *)
LEMMA LineWhenPosted ==
    ASSUME NEW b \in Seq(Letters), NEW topics, NEW o, NEW h \in Heard, NEW n \in Counts,
           Line(b, topics, o, h, n), WasPosted(h, n),
           NEW t \in Subjects, n[t] < MaxSent,
           NEW e \in Letters, e[1] = t, e[2] = n[t] + 1
    PROVE  /\ OneUp(n, t) \in Counts /\ WasPosted(h, OneUp(n, t))
           /\ \A f \in ToSet(h[t]) : f[2] < e[2]
           /\ Line(b, topics, o, h, OneUp(n, t))
           /\ Append(b, e) \in Seq(Letters) /\ ToSet(Append(b, e)) = ToSet(b) \cup {e}
           /\ t \in topics => Line(Append(b, e), topics, o, h, OneUp(n, t))
  <1> USE BusUsersAssumption
  <1> DEFINE m == OneUp(n, t)
             z == Append(b, e)
  <1>1. \A u \in Subjects : n[u] \in Nat
    BY DEF Counts
  <1>2. m \in Counts /\ m[t] = n[t] + 1 /\ \A u \in Subjects : u # t => m[u] = n[u]
    BY <1>1 DEF Counts, OneUp
  <1>3. e \in Letters /\ e[1] = t /\ e[2] = n[t] + 1
    OBVIOUS
  <1>4. /\ z \in Seq(Letters) /\ ToSet(z) = ToSet(b) \cup {e}
        /\ \A i, j \in DOMAIN z : i < j =>
             /\ i \in DOMAIN b /\ z[i] = b[i] /\ b[i] \in ToSet(b)
             /\ z[j] = e \/ (j \in DOMAIN b /\ z[j] = b[j])
    BY <1>3, Appended
  <1> HIDE DEF m, z
  <1>5. \A u \in Subjects : n[u] <= m[u] /\ m[u] \in Nat
    BY <1>1, <1>2
  <1>6. WasPosted(h, m) /\ \A f \in ToSet(h[t]) : f[2] < e[2]
    <2> SUFFICES ASSUME NEW u \in Subjects, NEW f \in ToSet(h[u])
                 PROVE  f[2] <= m[u] /\ (u = t => f[2] < e[2])
      BY DEF WasPosted
    <2>1. f[2] \in Nat /\ f[2] <= n[u] /\ n[u] \in Nat /\ m[u] \in Nat /\ n[u] <= m[u]
      BY <1>1, <1>5, ReceiptParts DEF WasPosted
    <2> QED
      BY <1>3, <2>1
  <1>7. ASSUME NEW f \in ToSet(b)
        PROVE  Fits(f, topics, o, h, m) /\ Before(f, e)
    <2>1. f \in Letters /\ Fits(f, topics, o, h, n)
      BY ElementsAre DEF Line
    <2>2. PICK u \in Subjects, k \in Nat : f[1] = u /\ f[2] = k
      BY <2>1, LetterParts
    <2>3. k <= n[u]
      BY <2>1, <2>2 DEF Fits
    <2>4. k <= m[u] /\ (u = t => k < n[t] + 1)
      BY <1>1, <1>5, <2>2, <2>3
    <2> QED
      BY <1>3, <2>1, <2>2, <2>4 DEF Fits, Before
  <1>8. Line(b, topics, o, h, m)
    BY <1>7 DEF Line
  <1>9. ASSUME t \in topics PROVE Line(z, topics, o, h, m)
    <2>1. Fits(e, topics, o, h, m)
      BY <1>1, <1>2, <1>3, <1>6, <1>9 DEF Fits
    <2>2. \A i, j \in DOMAIN z : i < j => Before(z[i], z[j])
      BY <1>4, <1>7 DEF Line
    <2>3. \A f \in ToSet(z) : Fits(f, topics, o, h, m)
      BY <1>4, <1>7, <2>1
    <2> QED
      BY <2>2, <2>3 DEF Line
  <1> QED
    BY <1>2, <1>3, <1>4, <1>6, <1>8, <1>9 DEF m, z

(* The oldest message leaves the buffer; those that stay come after it. *)
LEMMA LineWhenPolled ==
    ASSUME NEW b \in Seq(Letters), b # <<>>, NEW topics, NEW o, NEW h, NEW n,
           Line(b, topics, o, h, n)
    PROVE  /\ Head(b) \in Letters /\ Head(b) \in ToSet(b) /\ Fits(Head(b), topics, o, h, n)
           /\ Tail(b) \in Seq(Letters) /\ Line(Tail(b), topics, o, h, n)
           /\ ToSet(b) = {Head(b)} \cup ToSet(Tail(b))
           /\ \A f \in ToSet(Tail(b)) : Before(Head(b), f)
  <1> DEFINE z == Tail(b)
             e == Head(b)
  <1>1. /\ ToSet(b) = {e} \cup ToSet(z) /\ z \in Seq(Letters)
        /\ e \in Letters /\ e = b[1] /\ 1 \in DOMAIN b
        /\ \A i \in DOMAIN z : i \in Nat /\ i + 1 \in DOMAIN b /\ 1 < i + 1 /\ z[i] = b[i + 1]
    BY Beheaded
  <1> HIDE DEF z, e
  <1>2. \A i \in DOMAIN z : Before(e, z[i])
    BY <1>1 DEF Line
  <1>3. \A f \in ToSet(z) : Before(e, f)
    BY <1>2 DEF ToSet
  <1>4. \A i, j \in DOMAIN z : i < j => Before(z[i], z[j])
    <2> SUFFICES ASSUME NEW i \in DOMAIN z, NEW j \in DOMAIN z, i < j
                 PROVE  Before(z[i], z[j])
      OBVIOUS
    <2>1. /\ i + 1 < j + 1 /\ i + 1 \in DOMAIN b /\ j + 1 \in DOMAIN b
          /\ z[i] = b[i + 1] /\ z[j] = b[j + 1]
      BY <1>1
    <2> QED
      BY <2>1 DEF Line
  <1>5. Line(z, topics, o, h, n) /\ Fits(e, topics, o, h, n)
    BY <1>1, <1>4 DEF Line
  <1> QED
    BY <1>1, <1>3, <1>5 DEF z, e

(* A message is received through object p. *)
LEMMA HeardWhenReceived ==
    ASSUME NEW h \in Heard, NEW p \in Objects, NEW e \in Letters
    PROVE  /\ Receiving(h, p, e) \in Heard
           /\ ToSet(Receiving(h, p, e)[e[1]]) = ToSet(h[e[1]]) \cup {<<p, e[2]>>}
           /\ Receiving(h, p, e)[e[1]] = Append(h[e[1]], <<p, e[2]>>)
           /\ \A u \in Subjects : u # e[1] => Receiving(h, p, e)[u] = h[u]
  <1> DEFINE g == Receiving(h, p, e)
  <1>1. PICK t \in Subjects, k \in 1..MaxSent : e[1] = t /\ e[2] = k
    BY LetterParts
  <1>2. <<p, k>> \in Receipts /\ h[t] \in Seq(Receipts)
    BY DEF Receipts, Heard
  <1>3. /\ Append(h[t], <<p, k>>) \in Seq(Receipts)
        /\ ToSet(Append(h[t], <<p, k>>)) = ToSet(h[t]) \cup {<<p, k>>}
    <2> DEFINE r == h[t]
               x == <<p, k>>
    <2>1. r \in Seq(Receipts) /\ x \in Receipts
      BY <1>2
    <2> HIDE DEF r, x
    <2>2. Append(r, x) \in Seq(Receipts) /\ ToSet(Append(r, x)) = ToSet(r) \cup {x}
      BY <2>1, Appended
    <2> QED
      BY <2>2 DEF r, x
  <1>4. g = [h EXCEPT ![t] = Append(h[t], <<p, k>>)]
    BY <1>1 DEF Receiving
  <1> HIDE DEF g
  <1>5. g \in Heard /\ g[t] = Append(h[t], <<p, k>>) /\ \A u \in Subjects : u # t => g[u] = h[u]
    BY <1>3, <1>4 DEF Heard
  <1> QED
    BY <1>1, <1>3, <1>5 DEF g

(* What waits behind it in p, and whatever waits elsewhere, still fits. *)
LEMMA LineWhenReceived ==
    ASSUME NEW b \in Seq(Letters), NEW topics, NEW o \in Objects, NEW h \in Heard,
           NEW n \in Counts, Line(b, topics, o, h, n),
           NEW p \in Objects, NEW e \in Letters, o = p => \A f \in ToSet(b) : Before(e, f)
    PROVE  Line(b, topics, o, Receiving(h, p, e), n)
  <1> DEFINE g == Receiving(h, p, e)
  <1>1. PICK t \in Subjects, k \in 1..MaxSent : e[1] = t /\ e[2] = k
    BY LetterParts
  <1>2. /\ ToSet(g[t]) = ToSet(h[t]) \cup {<<p, k>>}
        /\ \A u \in Subjects : u # t => g[u] = h[u]
    BY <1>1, HeardWhenReceived
  <1> HIDE DEF g
  <1>3. ASSUME NEW f \in ToSet(b)
        PROVE  Fits(f, topics, o, g, n)
    <2>1. f \in Letters /\ Fits(f, topics, o, h, n)
      BY ElementsAre DEF Line
    <2>2. PICK u \in Subjects, j \in Nat : f[1] = u /\ f[2] = j
      BY <2>1, LetterParts
    <2>3. \A x \in ToSet(h[u]) : x[1] = o => x[2] < j
      BY <2>1, <2>2 DEF Fits
    <2>4. u = t /\ o = p => k < j
      BY <1>1, <2>2 DEF Before
    <2>5. \A x \in ToSet(g[u]) : x[1] = o => x[2] < j
      <3>1. CASE u = t
        <4>1. \A x \in ToSet(g[u]) : x \in ToSet(h[u]) \/ x = <<p, k>>
          BY <1>2, <3>1
        <4> QED
          BY <2>3, <2>4, <3>1, <4>1
      <3>2. CASE u # t
        BY <1>2, <2>3, <3>2
      <3> QED
        BY <3>1, <3>2
    <2> QED
      BY <2>1, <2>2, <2>5 DEF Fits
  <1> QED
    BY <1>3 DEF Line, g

LEMMA RedisInitIInv == RedisBusInit => RedisIInv
  <1> SUFFICES ASSUME RedisBusInit PROVE RedisIInv
    OBVIOUS
  <1> USE BusUsersAssumption, RedisBusAssumption
  <1>1. RedisBusTypeOK
    <2>1. buffer \in [Objects -> Seq(Subjects \X (1..MaxSent))]
      BY EmptySeq DEF RedisBusInit
    <2>2. received \in [Subjects -> Seq(Objects \X (1..MaxSent))]
      BY EmptySeq DEF RedisBusInit
    <2>3. posted \in [Subjects -> 0..MaxSent] /\ pubsub \in 0..MaxObjects
      BY DEF RedisBusInit
    <2>4. channels \in [Objects -> SUBSET Subjects] /\ wired \in [Objects -> BOOLEAN]
      BY DEF RedisBusInit
    <2>5. turn \in [Ears -> {"off", "polling", "busy", "ended"}] /\ via \in [Ears -> 0..MaxObjects]
      BY DEF RedisBusInit
    <2>6. due \in [Subjects -> SUBSET (1..MaxSent)]
      BY DEF RedisBusInit, NothingDue
    <2> QED
      BY <2>1, <2>2, <2>3, <2>4, <2>5, <2>6 DEF RedisBusInit, RedisBusTypeOK
  <1>2. PollsAreKnown /\ NewObjectsAreBare
    BY DEF RedisBusInit, PollsAreKnown, NewObjectsAreBare
  <1>3. LinesAreOrdered /\ WasPosted(received, posted)
    BY BareLine DEF RedisBusInit, LinesAreOrdered, WasPosted
  <1>4. TopicsAreUnmixed /\ InOrderUnlessTwofold
    BY BareLine DEF RedisBusInit, TopicsAreUnmixed, Carriers, InOrderUnlessTwofold
  <1>5. DroppedOnlyByOthers /\ DeafOnlyAfterRenewal
    BY DEF RedisBusInit, DroppedOnlyByOthers, DeafOnlyAfterRenewal, NothingDue
  <1> QED
    BY <1>1, <1>2, <1>3, <1>4, <1>5 DEF RedisIInv

(* Where nothing is published or received, and buffers are cut at most, no *)
(* line gets out of order.                                                 *)
LEMMA QuietLines ==
    ASSUME RedisIInv, UNCHANGED <<posted, received>>, twofold \subseteq twofold',
           \A o \in Objects : \/ buffer'[o] = <<>>
                              \/ buffer'[o] = buffer[o] /\ channels[o] \subseteq channels'[o]
    PROVE  LinesAreOrdered' /\ WasPosted(received, posted)' /\ InOrderUnlessTwofold'
  <1>1. ASSUME NEW o \in Objects
        PROVE  Line(buffer'[o], channels'[o], o, received', posted')
    <2>1. CASE buffer'[o] = <<>>
      BY <2>1, BareLine
    <2>2. CASE buffer'[o] = buffer[o] /\ channels[o] \subseteq channels'[o]
      BY <2>2 DEF RedisIInv, LinesAreOrdered, Line, Fits
    <2> QED
      BY <2>1, <2>2
  <1> QED
    BY <1>1 DEF RedisIInv, LinesAreOrdered, WasPosted, InOrderUnlessTwofold

(* And where no object becomes a carrier of a topic, none gets mixed. *)
LEMMA QuietTopics ==
    ASSUME RedisIInv, UNCHANGED received, twofold \subseteq twofold',
           \A o \in Objects : buffer'[o] = <<>> \/ buffer'[o] = buffer[o],
           \A t \in Subjects \ twofold' : Carriers(t)' \subseteq Carriers(t)
    PROVE  TopicsAreUnmixed'
  <1> SUFFICES ASSUME NEW t \in Subjects \ twofold'
               PROVE  /\ \A o, p \in Carriers(t)' : o = p
                      /\ \A o \in Carriers(t)' : \A e \in ToSet(buffer'[o]) :
                           e[1] = t => \A f \in ToSet(received'[t]) : f[2] < e[2]
    BY DEF TopicsAreUnmixed
  <1>1. t \in Subjects \ twofold /\ \A o \in Carriers(t)' : o \in Carriers(t) /\ o \in Objects
    BY DEF Carriers
  <1>2. \A o \in Objects : \A e \in ToSet(buffer'[o]) : e \in ToSet(buffer[o])
    BY BareLine
  <1> QED
    BY <1>1, <1>2 DEF RedisIInv, TopicsAreUnmixed

(* Neither the server's return, nor the connection of an object, nor the   *)
(* loop of a listener touches a message or a subscription.                 *)
LEMMA LoopRedisIInv ==
    ASSUME RedisIInv,
           \/ ServerUp \/ (ConnectRedis /\ ~up)
           \/ \E l \in Ears : ListenRedis(l) \/ Rewire(l) \/ LookAgain(l) \/ CancelEar(l)
           \/ UNCHANGED redisBusVars
    PROVE  RedisIInv' /\ UNCHANGED <<posted, received>>
  <1>1. UNCHANGED <<pubsub, channels, buffer, posted, received, due, subscribed, renewed, twofold>>
    BY DEF ServerUp, ConnectRedis, ListenRedis, Rewire, LookAgain, CancelEar, redisBusVars
  <1>2. up' \in BOOLEAN /\ live' \in BOOLEAN /\ client' \in BOOLEAN
    BY DEF ServerUp, ConnectRedis, ListenRedis, Rewire, LookAgain, CancelEar, redisBusVars,
           RedisIInv, RedisBusTypeOK
  <1>3. wired' \in [Objects -> BOOLEAN]
    <2>1. wired' = wired \/ \E o \in 0..MaxObjects : wired' = [wired EXCEPT ![o] = TRUE]
      BY DEF ServerUp, ConnectRedis, ListenRedis, Rewire, LookAgain, CancelEar, redisBusVars,
             RedisIInv, RedisBusTypeOK
    <2> QED
      BY <2>1 DEF RedisIInv, RedisBusTypeOK
  <1>4. \/ UNCHANGED <<turn, via>>
        \/ \E l \in Ears, s \in {"polling", "ended"} :
             /\ pubsub # 0
             /\ turn' = [turn EXCEPT ![l] = s]
             /\ via' = [via EXCEPT ![l] = IF s = "polling" THEN pubsub ELSE 0]
    <2>1. CASE ServerUp \/ (ConnectRedis /\ ~up) \/ UNCHANGED redisBusVars
      BY <2>1 DEF ServerUp, ConnectRedis, redisBusVars
    <2>2. ASSUME NEW l \in Ears, ListenRedis(l) \/ LookAgain(l)
          PROVE  \E s \in {"polling", "ended"} :
                   /\ pubsub # 0
                   /\ turn' = [turn EXCEPT ![l] = s]
                   /\ via' = [via EXCEPT ![l] = IF s = "polling" THEN pubsub ELSE 0]
      <3>1. pubsub # 0 /\ EnterLoop(l)
        BY <2>2 DEF ListenRedis, LookAgain, RedisIInv, PollsAreKnown
      <3> QED
        BY <3>1 DEF EnterLoop
    <2>3. ASSUME NEW l \in Ears, CancelEar(l)
          PROVE  \E s \in {"polling", "ended"} :
                   /\ pubsub # 0
                   /\ turn' = [turn EXCEPT ![l] = s]
                   /\ via' = [via EXCEPT ![l] = IF s = "polling" THEN pubsub ELSE 0]
      BY <2>3 DEF CancelEar, RedisIInv, PollsAreKnown
    <2>4. ASSUME NEW l \in Ears, Rewire(l) PROVE UNCHANGED <<turn, via>>
      BY <2>4 DEF Rewire
    <2> QED
      BY <2>1, <2>2, <2>3, <2>4
  <1>5. /\ turn' \in [Ears -> {"off", "polling", "busy", "ended"}] /\ via' \in [Ears -> 0..MaxObjects]
        /\ PollsAreKnown'
        /\ \A k \in Ears : turn[k] # "off" => turn'[k] # "off"
        /\ \A k \in Ears : via'[k] \in {via[k], pubsub, 0}
    <2>1. /\ turn \in [Ears -> {"off", "polling", "busy", "ended"}] /\ via \in [Ears -> 0..MaxObjects]
          /\ pubsub \in 0..MaxObjects /\ 0 \in 0..MaxObjects
      BY RedisBusAssumption DEF RedisIInv, RedisBusTypeOK
    <2>2. CASE UNCHANGED <<turn, via>>
      BY <1>1, <2>1, <2>2 DEF RedisIInv, PollsAreKnown
    <2>3. ASSUME NEW l \in Ears, NEW s \in {"polling", "ended"}, pubsub # 0,
                 turn' = [turn EXCEPT ![l] = s],
                 via' = [via EXCEPT ![l] = IF s = "polling" THEN pubsub ELSE 0]
          PROVE  /\ turn' \in [Ears -> {"off", "polling", "busy", "ended"}]
                 /\ via' \in [Ears -> 0..MaxObjects]
                 /\ PollsAreKnown'
                 /\ \A k \in Ears : turn[k] # "off" => turn'[k] # "off"
                 /\ \A k \in Ears : via'[k] \in {via[k], pubsub, 0}
      <3>1. /\ turn' \in [Ears -> {"off", "polling", "busy", "ended"}]
            /\ turn'[l] = s /\ \A k \in Ears \ {l} : turn'[k] = turn[k]
        BY <2>1, <2>3
      <3>2. /\ via' \in [Ears -> 0..MaxObjects]
            /\ via'[l] = (IF s = "polling" THEN pubsub ELSE 0)
            /\ \A k \in Ears \ {l} : via'[k] = via[k]
        BY <2>1, <2>3
      <3>3. pubsub \in 1..pubsub
        BY <2>1, <2>3
      <3>4. PollsAreKnown'
        BY <1>1, <2>3, <3>1, <3>2, <3>3 DEF RedisIInv, PollsAreKnown
      <3> QED
        BY <3>1, <3>2, <3>4
    <2> QED
      BY <1>4, <2>2, <2>3
  <1>6. RedisBusTypeOK'
    BY <1>1, <1>2, <1>3, <1>5 DEF RedisIInv, RedisBusTypeOK
  <1>7. LinesAreOrdered' /\ WasPosted(received, posted)' /\ InOrderUnlessTwofold'
    BY <1>1, QuietLines
  <1>8. TopicsAreUnmixed'
    <2>1. \A t \in Subjects : Carriers(t)' \subseteq Carriers(t)
      BY <1>1, <1>5, RedisTypes DEF Carriers, RedisIInv
    <2> QED
      BY <1>1, <2>1, QuietTopics
  <1>9. NewObjectsAreBare' /\ DroppedOnlyByOthers' /\ DeafOnlyAfterRenewal'
    BY <1>1, <1>5 DEF RedisIInv, NewObjectsAreBare, DroppedOnlyByOthers, DeafOnlyAfterRenewal,
                      PresentChannels
  <1> QED
    BY <1>1, <1>5, <1>6, <1>7, <1>8, <1>9 DEF RedisIInv

(* What is on its way is lost with the server's connections. *)
LEMMA ServerDownIInv ==
    ASSUME RedisIInv, ServerDown
    PROVE  RedisIInv' /\ UNCHANGED <<posted, received>>
  <1>1. /\ up' = FALSE /\ wired' = [o \in Objects |-> FALSE] /\ buffer' = [o \in Objects |-> <<>>]
        /\ due' = [t \in Subjects |-> {}]
        /\ UNCHANGED <<live, client, pubsub, channels, turn, via, posted, received, subscribed,
                       renewed, twofold>>
    BY DEF ServerDown, NothingDue
  <1>2. RedisBusTypeOK'
    <2>1. buffer' \in [Objects -> Seq(Subjects \X (1..MaxSent))]
      BY <1>1, EmptySeq
    <2>2. due' \in [Subjects -> SUBSET (1..MaxSent)] /\ wired' \in [Objects -> BOOLEAN]
      BY <1>1
    <2> QED
      BY <1>1, <2>1, <2>2 DEF RedisIInv, RedisBusTypeOK
  <1>3. PollsAreKnown' /\ NewObjectsAreBare'
    BY <1>1 DEF RedisIInv, PollsAreKnown, NewObjectsAreBare, NothingDue
  <1>4. \A o \in Objects : buffer'[o] = <<>>
    BY <1>1
  <1>5. LinesAreOrdered' /\ WasPosted(received, posted)' /\ InOrderUnlessTwofold'
    BY <1>1, <1>4, QuietLines
  <1>6. TopicsAreUnmixed'
    BY <1>1, <1>4, QuietTopics DEF Carriers
  <1>7. DroppedOnlyByOthers' /\ DeafOnlyAfterRenewal'
    BY <1>1 DEF RedisIInv, DroppedOnlyByOthers, DeafOnlyAfterRenewal, PresentChannels
  <1> QED
    BY <1>1, <1>2, <1>3, <1>5, <1>6, <1>7 DEF RedisIInv

(* A new object has no subscription, so that it carries no topic; the old  *)
(* one stays with those that poll it.                                      *)
LEMMA ReplaceIInv ==
    ASSUME RedisIInv, (ConnectRedis /\ up) \/ Reconnect
    PROVE  RedisIInv' /\ UNCHANGED <<posted, received>>
  <1>1. /\ pubsub < MaxObjects /\ pubsub' = pubsub + 1
        /\ renewed' = renewed \cup PresentChannels
        /\ due' = [t \in Subjects |-> {}]
        /\ UNCHANGED <<up, channels, wired, buffer, turn, via, posted, received, subscribed,
                       twofold>>
        /\ live' \in BOOLEAN /\ client' \in BOOLEAN
    BY DEF ConnectRedis, Reconnect, Replace, NothingDue, RedisIInv, RedisBusTypeOK
  <1>2. /\ pubsub \in Nat /\ pubsub' \in Objects /\ pubsub' > pubsub /\ pubsub' # 0
        /\ pubsub' \in 0..MaxObjects
    BY <1>1, RedisTypes, RedisBusAssumption DEF RedisIInv, Objects
  <1>3. channels[pubsub'] = {}
    BY <1>2 DEF RedisIInv, NewObjectsAreBare
  <1>4. PresentChannels \subseteq Subjects
    BY RedisTypes DEF RedisIInv
  <1>5. RedisBusTypeOK'
    <2>1. due' \in [Subjects -> SUBSET (1..MaxSent)] /\ renewed' \subseteq Subjects
      BY <1>1, <1>4 DEF RedisIInv, RedisBusTypeOK
    <2> QED
      BY <1>1, <1>2, <2>1 DEF RedisIInv, RedisBusTypeOK
  <1>6. PollsAreKnown'
    <2>1. 1..pubsub \subseteq 1..pubsub'
      BY <1>1, <1>2
    <2> QED
      BY <1>1, <1>2, <2>1 DEF RedisIInv, PollsAreKnown
  <1>7. NewObjectsAreBare'
    <2>1. \A o \in Objects : o > pubsub' => o > pubsub
      BY <1>1, <1>2, RedisTypes DEF RedisIInv
    <2> QED
      BY <1>1, <1>2, <2>1 DEF RedisIInv, NewObjectsAreBare
  <1>8. LinesAreOrdered' /\ WasPosted(received, posted)' /\ InOrderUnlessTwofold'
    BY <1>1, QuietLines
  <1>9. TopicsAreUnmixed'
    <2>1. \A t \in Subjects : Carriers(t)' \subseteq Carriers(t)
      BY <1>1, <1>3 DEF Carriers
    <2> QED
      BY <1>1, <2>1, QuietTopics
  <1>10. DroppedOnlyByOthers'
    BY <1>1 DEF DroppedOnlyByOthers
  <1>11. DeafOnlyAfterRenewal'
    BY <1>1 DEF RedisIInv, DeafOnlyAfterRenewal
  <1> QED
    BY <1>1, <1>5, <1>6, <1>7, <1>8, <1>9, <1>10, <1>11 DEF RedisIInv

LEMMA CloseRedisIInv ==
    ASSUME RedisIInv, CloseRedis
    PROVE  RedisIInv' /\ UNCHANGED <<posted, received>>
  <1>1. /\ live' = FALSE
        /\ channels' = [o \in Objects |-> IF o = pubsub THEN {} ELSE channels[o]]
        /\ wired' = [o \in Objects |-> o # pubsub /\ wired[o]]
        /\ buffer' = [o \in Objects |-> IF o = pubsub THEN <<>> ELSE buffer[o]]
        /\ renewed' = renewed \cup PresentChannels
        /\ due' = [t \in Subjects |-> {}]
        /\ UNCHANGED <<up, client, pubsub, turn, via, posted, received, subscribed, twofold>>
    BY DEF CloseRedis, NothingDue
  <1>2. PresentChannels \subseteq Subjects
    BY RedisTypes DEF RedisIInv
  <1>3. RedisBusTypeOK'
    <2>1. buffer' \in [Objects -> Seq(Subjects \X (1..MaxSent))]
      BY <1>1, EmptySeq DEF RedisIInv, RedisBusTypeOK
    <2>2. channels' \in [Objects -> SUBSET Subjects] /\ wired' \in [Objects -> BOOLEAN]
      BY <1>1 DEF RedisIInv, RedisBusTypeOK
    <2>3. due' \in [Subjects -> SUBSET (1..MaxSent)] /\ renewed' \subseteq Subjects
      BY <1>1, <1>2 DEF RedisIInv, RedisBusTypeOK
    <2> QED
      BY <1>1, <2>1, <2>2, <2>3 DEF RedisIInv, RedisBusTypeOK
  <1>4. PollsAreKnown' /\ NewObjectsAreBare'
    BY <1>1 DEF RedisIInv, PollsAreKnown, NewObjectsAreBare, NothingDue
  <1>5. \A o \in Objects : \/ buffer'[o] = <<>>
                           \/ buffer'[o] = buffer[o] /\ channels[o] \subseteq channels'[o]
    BY <1>1
  <1>6. LinesAreOrdered' /\ WasPosted(received, posted)' /\ InOrderUnlessTwofold'
    BY <1>1, <1>5, QuietLines
  <1>7. TopicsAreUnmixed'
    <2>1. \A t \in Subjects : Carriers(t)' \subseteq Carriers(t)
      BY <1>1 DEF Carriers
    <2> QED
      BY <1>1, <1>5, <2>1, QuietTopics
  <1>8. DroppedOnlyByOthers' /\ DeafOnlyAfterRenewal'
    BY <1>1 DEF RedisIInv, DroppedOnlyByOthers, DeafOnlyAfterRenewal
  <1> QED
    BY <1>1, <1>3, <1>4, <1>6, <1>7, <1>8 DEF RedisIInv

(* A topic is subscribed to on the present object: where no listener of it *)
(* polls another one that has it, this is the only carrier.                *)
LEMMA SubscribeRedisIInv ==
    ASSUME RedisIInv, NEW t \in Subjects, SubscribeRedis(t)
    PROVE  RedisIInv' /\ UNCHANGED <<posted, received>>
  <1>1. /\ pubsub # 0
        /\ channels' = [channels EXCEPT ![pubsub] = @ \cup {t}]
        /\ wired' = [wired EXCEPT ![pubsub] = TRUE]
        /\ renewed' = renewed \ {t} /\ subscribed' = subscribed \cup {t}
        /\ twofold' = IF PolledElsewhere(t) THEN twofold \cup {t} ELSE twofold
        /\ UNCHANGED <<up, live, client, pubsub, buffer, turn, via, posted, received, due>>
    BY DEF SubscribeRedis
  <1>2. pubsub \in Objects /\ pubsub \in Nat
    BY <1>1, RedisTypes DEF RedisIInv
  <1>3. /\ channels' \in [Objects -> SUBSET Subjects] /\ channels'[pubsub] = channels[pubsub] \cup {t}
        /\ \A o \in Objects : o # pubsub => channels'[o] = channels[o]
    BY <1>1, <1>2 DEF RedisIInv, RedisBusTypeOK
  <1>4. RedisBusTypeOK'
    <2>1. wired' \in [Objects -> BOOLEAN] /\ twofold' \subseteq Subjects
      BY <1>1 DEF RedisIInv, RedisBusTypeOK
    <2> QED
      BY <1>1, <1>3, <2>1 DEF RedisIInv, RedisBusTypeOK
  <1>5. PollsAreKnown' /\ NewObjectsAreBare'
    <2>1. \A o \in Objects : o > pubsub => o # pubsub
      BY <1>2, RedisTypes DEF RedisIInv
    <2> QED
      BY <1>1, <1>3, <2>1 DEF RedisIInv, PollsAreKnown, NewObjectsAreBare
  <1>6. LinesAreOrdered' /\ WasPosted(received, posted)' /\ InOrderUnlessTwofold'
    BY <1>1, <1>3, QuietLines
  <1>7. TopicsAreUnmixed'
    <2> SUFFICES ASSUME NEW u \in Subjects \ twofold'
                 PROVE  /\ \A o, p \in Carriers(u)' : o = p
                        /\ \A o \in Carriers(u)' : \A e \in ToSet(buffer'[o]) :
                             e[1] = u => \A f \in ToSet(received'[u]) : f[2] < e[2]
      BY DEF TopicsAreUnmixed
    <2>1. u \in Subjects \ twofold
      BY <1>1
    <2>2. CASE Carriers(u)' \subseteq Carriers(u)
      BY <1>1, <2>1, <2>2 DEF RedisIInv, TopicsAreUnmixed
    <2>3. CASE ~(Carriers(u)' \subseteq Carriers(u))
      <3>1. u = t /\ t \notin channels[pubsub]
        BY <1>1, <1>2, <1>3, <2>3 DEF Carriers
      <3>2. ~PolledElsewhere(t)
        BY <1>1, <3>1
      <3>3. \A o \in Carriers(u)' : o = pubsub
        <4> SUFFICES ASSUME NEW o \in Objects, o # pubsub, t \in channels'[o],
                            NEW l \in Ears, SubjectOf[l] = t, via[l] = o
                     PROVE  FALSE
          BY <1>1, <3>1 DEF Carriers
        <4>1. t \in channels[via[l]] /\ via[l] # 0
          BY <1>3, RedisTypes DEF RedisIInv
        <4> QED
          BY <3>2, <4>1 DEF PolledElsewhere
      <3>4. \A e \in ToSet(buffer[pubsub]) : e[1] # u
        BY <1>2, <3>1 DEF RedisIInv, LinesAreOrdered, Line, Fits
      <3> QED
        BY <1>1, <3>3, <3>4
    <2> QED
      BY <2>2, <2>3
  <1>8. DroppedOnlyByOthers'
    BY <1>1 DEF RedisIInv, DroppedOnlyByOthers
  <1>9. DeafOnlyAfterRenewal'
    BY <1>1, <1>3 DEF RedisIInv, DeafOnlyAfterRenewal, PresentChannels
  <1> QED
    BY <1>1, <1>4, <1>5, <1>6, <1>7, <1>8, <1>9 DEF RedisIInv

LEMMA PublishRedisIInv ==
    ASSUME RedisIInv, NEW t \in Subjects, PublishRedis(t)
    PROVE  RedisIInv' /\ RedisChannel!Publish(t)
  <1> DEFINE e == <<t, posted[t] + 1>>
  <1>1. /\ posted[t] < MaxSent /\ posted' = OneUp(posted, t)
        /\ buffer' = [o \in Objects |-> IF Hears(o, t) THEN Append(buffer[o], e) ELSE buffer[o]]
        /\ due' = [due EXCEPT ![t] =
                     IF pubsub # 0 /\ Hears(pubsub, t) THEN @ \cup {posted[t] + 1} ELSE @]
        /\ UNCHANGED <<up, live, client, pubsub, channels, wired, turn, via, received, subscribed,
                       renewed, twofold>>
    BY DEF PublishRedis, OneUp
  <1>2. buffer \in [Objects -> Seq(Letters)] /\ received \in Heard /\ posted \in Counts
    BY RedisTypes DEF RedisIInv
  <1>3. posted[t] + 1 \in 1..MaxSent /\ posted[t] \in Nat
    BY <1>1, <1>2, BusUsersAssumption DEF Counts
  <1>4. RedisChannel!Publish(t)
    BY <1>1 DEF RedisChannel!Publish, OneUp
  <1>5. e = <<t, posted[t] + 1>> /\ e[1] = t /\ e[2] = posted[t] + 1 /\ e \in Letters
    BY <1>3 DEF Letters
  <1> HIDE DEF e
  <1>6. posted' \in Counts /\ WasPosted(received, posted') /\ \A f \in ToSet(received[t]) : f[2] < e[2]
    BY <1>1, <1>2, <1>5, BareLine, EmptySeq, LineWhenPosted DEF RedisIInv
  <1>7. ASSUME NEW o \in Objects
        PROVE  /\ buffer'[o] \in Seq(Letters) /\ ToSet(buffer[o]) \subseteq ToSet(buffer'[o])
               /\ ToSet(buffer'[o]) \subseteq ToSet(buffer[o]) \cup {e}
               /\ Hears(o, t) => e \in ToSet(buffer'[o])
               /\ Line(buffer'[o], channels[o], o, received, posted')
    <2>1. buffer[o] \in Seq(Letters) /\ Line(buffer[o], channels[o], o, received, posted)
      BY <1>2 DEF RedisIInv, LinesAreOrdered
    <2> DEFINE b == buffer[o]
               topics == channels[o]
               n == posted
               h == received
    <2>2. /\ b \in Seq(Letters) /\ Line(b, topics, o, h, n) /\ h \in Heard /\ n \in Counts
          /\ WasPosted(h, n) /\ n[t] < MaxSent /\ posted' = OneUp(n, t)
          /\ e \in Letters /\ e[1] = t /\ e[2] = n[t] + 1
      BY <1>1, <1>2, <1>5, <2>1 DEF RedisIInv
    <2> HIDE DEF b, topics, n, h
    <2>3. /\ Line(b, topics, o, h, OneUp(n, t))
          /\ Append(b, e) \in Seq(Letters) /\ ToSet(Append(b, e)) = ToSet(b) \cup {e}
          /\ t \in topics => Line(Append(b, e), topics, o, h, OneUp(n, t))
      BY <2>2, LineWhenPosted
    <2>4. buffer'[o] = IF Hears(o, t) THEN Append(b, e) ELSE b
      BY <1>1 DEF b
    <2>5. Hears(o, t) => t \in topics
      BY DEF Hears, topics
    <2>6. /\ buffer'[o] \in Seq(Letters) /\ ToSet(b) \subseteq ToSet(buffer'[o])
          /\ ToSet(buffer'[o]) \subseteq ToSet(b) \cup {e}
          /\ Hears(o, t) => e \in ToSet(buffer'[o])
          /\ Line(buffer'[o], topics, o, h, OneUp(n, t))
      BY <2>2, <2>3, <2>4, <2>5
    <2> QED
      BY <2>2, <2>6 DEF b, topics, h
  <1>8. /\ due' \in [Subjects -> SUBSET (1..MaxSent)]
        /\ \A u \in Subjects : \A n \in due'[u] :
             \/ n \in due[u]
             \/ u = t /\ n = posted[t] + 1 /\ pubsub # 0 /\ Hears(pubsub, t)
        /\ pubsub = 0 => due' = due
    BY <1>1, <1>3 DEF RedisIInv, RedisBusTypeOK
  <1>9. RedisBusTypeOK'
    <2>1. buffer' \in [Objects -> Seq(Subjects \X (1..MaxSent))]
      BY <1>1, <1>7 DEF Letters
    <2> QED
      BY <1>1, <1>6, <1>8, <2>1 DEF RedisIInv, RedisBusTypeOK, Counts
  <1>10. PollsAreKnown' /\ NewObjectsAreBare' /\ InOrderUnlessTwofold' /\ DeafOnlyAfterRenewal'
    BY <1>1, <1>8 DEF RedisIInv, PollsAreKnown, NewObjectsAreBare, InOrderUnlessTwofold,
                      DeafOnlyAfterRenewal, PresentChannels
  <1>11. LinesAreOrdered'
    BY <1>1, <1>7 DEF LinesAreOrdered
  <1>12. TopicsAreUnmixed'
    <2> SUFFICES ASSUME NEW u \in Subjects \ twofold
                 PROVE  /\ \A o, p \in Carriers(u) : o = p
                        /\ \A o \in Carriers(u) : \A d \in ToSet(buffer'[o]) :
                             d[1] = u => \A f \in ToSet(received[u]) : f[2] < d[2]
      BY <1>1 DEF TopicsAreUnmixed, Carriers
    <2>1. ASSUME NEW o \in Carriers(u), NEW d \in ToSet(buffer'[o]), d[1] = u
          PROVE  \A f \in ToSet(received[u]) : f[2] < d[2]
      <3>1. o \in Objects
        BY DEF Carriers
      <3>2. CASE d \in ToSet(buffer[o])
        BY <2>1, <3>2 DEF RedisIInv, TopicsAreUnmixed
      <3>3. CASE d = e
        BY <1>5, <1>6, <2>1, <3>3
      <3> QED
        BY <1>7, <3>1, <3>2, <3>3
    <2> QED
      BY <2>1 DEF RedisIInv, TopicsAreUnmixed
  <1>13. DroppedOnlyByOthers'
    <2> SUFFICES ASSUME NEW u \in Subjects, NEW n \in due'[u]
                 PROVE  \/ <<pubsub, n>> \in ToSet(received[u])
                        \/ <<u, n>> \in ToSet(buffer'[pubsub])
                        \/ \E l \in Ears : SubjectOf[l] # u /\ turn[l] # "off"
      BY <1>1 DEF DroppedOnlyByOthers
    <2>1. pubsub \in Objects
      <3>1. pubsub # 0
        BY <1>8 DEF RedisIInv, NewObjectsAreBare, NothingDue
      <3> QED
        BY <3>1, RedisTypes DEF RedisIInv
    <2>2. CASE n \in due[u]
      BY <1>7, <2>1, <2>2 DEF RedisIInv, DroppedOnlyByOthers
    <2>3. CASE u = t /\ n = posted[t] + 1 /\ Hears(pubsub, t)
      BY <1>5, <1>7, <2>1, <2>3
    <2> QED
      BY <1>8, <2>2, <2>3
  <1> QED
    BY <1>1, <1>4, <1>6, <1>9, <1>10, <1>11, <1>12, <1>13 DEF RedisIInv

(* The oldest message of the polled object goes to its listener, or is     *)
(* dropped by a listener of another topic.                                 *)
LEMMA PollIInv ==
    ASSUME RedisIInv, NEW l \in Ears, Poll(l)
    PROVE  RedisIInv' /\ ((\E t \in Subjects : RedisChannel!Receive(t))
                            \/ UNCHANGED <<posted, received>>)
  <1> DEFINE o == via[l]
             e == Head(buffer[o])
             rest == Tail(buffer[o])
             g == Receiving(received, o, e)
  <1>1. /\ turn[l] = "polling" /\ buffer[o] # <<>> /\ buffer' = [buffer EXCEPT ![o] = rest]
        /\ UNCHANGED <<up, live, client, pubsub, channels, wired, posted, due, subscribed,
                       renewed, twofold>>
    BY DEF Poll
  <1>2. o \in 1..pubsub /\ o \in Objects /\ pubsub # 0 /\ pubsub \in Objects
    <2>1. o \in 1..pubsub /\ pubsub # 0
      BY <1>1 DEF RedisIInv, PollsAreKnown
    <2>2. pubsub \in Nat /\ pubsub <= MaxObjects /\ (pubsub # 0 => pubsub \in Objects)
      BY RedisTypes DEF RedisIInv
    <2> QED
      BY <2>1, <2>2, RedisBusAssumption DEF Objects
  <1>3. /\ buffer \in [Objects -> Seq(Letters)] /\ received \in Heard /\ posted \in Counts
        /\ buffer[o] \in Seq(Letters)
    BY <1>2, RedisTypes DEF RedisIInv
  <1>4. Line(buffer[o], channels[o], o, received, posted)
    BY <1>2 DEF RedisIInv, LinesAreOrdered
  <1>5. /\ e \in Letters /\ e \in ToSet(buffer[o]) /\ Fits(e, channels[o], o, received, posted)
        /\ rest \in Seq(Letters) /\ Line(rest, channels[o], o, received, posted)
        /\ ToSet(buffer[o]) = {e} \cup ToSet(rest)
        /\ \A f \in ToSet(rest) : Before(e, f)
    BY <1>1, <1>3, <1>4, LineWhenPolled
  <1>6. \/ /\ e[1] = SubjectOf[l] /\ received' = g
           /\ turn' = [turn EXCEPT ![l] = "busy"] /\ via' = [via EXCEPT ![l] = 0]
        \/ e[1] # SubjectOf[l] /\ received' = received /\ EnterLoop(l)
    BY DEF Poll, Mine, NextRaw, Receiving
  <1> HIDE DEF e, rest, o
  <1>7. e[1] \in Subjects /\ e[2] \in 1..MaxSent /\ e[2] \in Nat /\ e = <<e[1], e[2]>>
    BY <1>5, LetterParts
  <1>8. /\ buffer' \in [Objects -> Seq(Letters)] /\ buffer'[o] = rest
        /\ \A p \in Objects : p # o => buffer'[p] = buffer[p]
        /\ \A p \in Objects : ToSet(buffer'[p]) \subseteq ToSet(buffer[p])
    BY <1>1, <1>2, <1>3, <1>5
  <1>9. ASSUME NEW p \in Objects
        PROVE  /\ Line(buffer'[p], channels[p], p, received, posted)
               /\ p = o => \A f \in ToSet(buffer'[p]) : Before(e, f)
    <2>1. CASE p = o
      BY <1>5, <1>8, <2>1
    <2>2. CASE p # o
      BY <1>8, <2>2 DEF RedisIInv, LinesAreOrdered
    <2> QED
      BY <2>1, <2>2
  <1>10. /\ g \in Heard /\ ToSet(g[e[1]]) = ToSet(received[e[1]]) \cup {<<o, e[2]>>}
         /\ g[e[1]] = Append(received[e[1]], <<o, e[2]>>)
         /\ \A u \in Subjects : u # e[1] => g[u] = received[u]
    BY <1>2, <1>3, <1>5, HeardWhenReceived
  <1>11. ASSUME NEW p \in Objects
         PROVE  Line(buffer'[p], channels[p], p, g, posted)
    BY <1>2, <1>3, <1>5, <1>8, <1>9, LineWhenReceived
  <1>12. e[2] \in 1..posted[e[1]] /\ e[2] <= posted[e[1]]
    BY <1>3, <1>5, <1>7 DEF Fits, Counts
  <1>13. /\ received' \in Heard /\ WasPosted(received', posted') /\ LinesAreOrdered'
         /\ \A u \in Subjects : ToSet(received[u]) \subseteq ToSet(received'[u])
    <2>1. CASE received' = received
      BY <1>1, <1>3, <1>9, <2>1 DEF RedisIInv, LinesAreOrdered
    <2>2. CASE received' = g
      <3>1. WasPosted(g, posted)
        <4> HIDE DEF g
        <4> SUFFICES ASSUME NEW u \in Subjects, NEW f \in ToSet(g[u]) PROVE f[2] <= posted[u]
          BY DEF WasPosted
        <4>1. CASE f \in ToSet(received[u])
          BY <4>1 DEF RedisIInv, WasPosted
        <4>2. CASE f \notin ToSet(received[u])
          <5>1. u = e[1] /\ f = <<o, e[2]>>
            BY <1>10, <4>2
          <5> QED
            BY <1>12, <5>1
        <4> QED
          BY <4>1, <4>2
      <3>2. \A u \in Subjects : ToSet(received[u]) \subseteq ToSet(g[u])
        BY <1>10
      <3> HIDE DEF g
      <3> QED
        BY <1>1, <1>10, <1>11, <2>2, <3>1, <3>2 DEF LinesAreOrdered
    <2> QED
      BY <1>6, <2>1, <2>2
  <1>14. \E s \in {"busy", "polling", "ended"} :
           /\ turn' = [turn EXCEPT ![l] = s]
           /\ via' = [via EXCEPT ![l] = IF s = "polling" THEN pubsub ELSE 0]
    BY <1>6 DEF EnterLoop
  <1>15. /\ turn' \in [Ears -> {"off", "polling", "busy", "ended"}] /\ via' \in [Ears -> 0..MaxObjects]
         /\ PollsAreKnown'
         /\ \A k \in Ears : turn[k] # "off" => turn'[k] # "off"
         /\ turn'[l] # "off"
         /\ \A k \in Ears : via'[k] \in {via[k], pubsub, 0}
    <2>1. /\ turn \in [Ears -> {"off", "polling", "busy", "ended"}] /\ via \in [Ears -> 0..MaxObjects]
          /\ pubsub \in 0..MaxObjects /\ 0 \in 0..MaxObjects
      BY RedisBusAssumption DEF RedisIInv, RedisBusTypeOK
    <2>2. PICK s \in {"busy", "polling", "ended"} :
           /\ turn' = [turn EXCEPT ![l] = s]
           /\ via' = [via EXCEPT ![l] = IF s = "polling" THEN pubsub ELSE 0]
      BY <1>14
    <2>3. /\ turn' \in [Ears -> {"off", "polling", "busy", "ended"}]
          /\ turn'[l] = s /\ \A k \in Ears \ {l} : turn'[k] = turn[k]
      BY <2>1, <2>2
    <2>4. /\ via' \in [Ears -> 0..MaxObjects]
          /\ via'[l] = (IF s = "polling" THEN pubsub ELSE 0)
          /\ \A k \in Ears \ {l} : via'[k] = via[k]
      BY <2>1, <2>2
    <2>5. pubsub \in 1..pubsub
      BY <1>2, <2>1
    <2>6. PollsAreKnown'
      BY <1>1, <1>2, <2>3, <2>4, <2>5 DEF RedisIInv, PollsAreKnown
    <2> QED
      BY <2>3, <2>4, <2>6
  <1>16. RedisBusTypeOK'
    <2>1. /\ buffer' \in [Objects -> Seq(Subjects \X (1..MaxSent))]
          /\ received' \in [Subjects -> Seq(Objects \X (1..MaxSent))]
      BY <1>8, <1>13 DEF Letters, Heard, Receipts
    <2> QED
      BY <1>1, <1>15, <2>1 DEF RedisIInv, RedisBusTypeOK
  <1>17. NewObjectsAreBare' /\ DeafOnlyAfterRenewal'
    BY <1>1 DEF RedisIInv, NewObjectsAreBare, DeafOnlyAfterRenewal, PresentChannels
  <1>18. \A u \in Subjects : Carriers(u)' \subseteq Carriers(u)
    BY <1>1, <1>15, RedisTypes DEF Carriers, RedisIInv
  <1>19. \A u \in Subjects \ twofold : \A p, q \in Carriers(u) : p = q
    BY DEF RedisIInv, TopicsAreUnmixed
  <1>20. received' = g => o \in Carriers(e[1])
    <2>1. ASSUME received' = g PROVE e[1] = SubjectOf[l] \/ g = received
      BY <1>6, <2>1
    <2>2. g # received
      <3>1. Len(g[e[1]]) = Len(received[e[1]]) + 1 /\ Len(received[e[1]]) \in Nat
        <4>1. received[e[1]] \in Seq(Receipts) /\ <<o, e[2]>> \in Receipts
          BY <1>2, <1>3, <1>7 DEF Heard, Receipts
        <4> DEFINE r == received[e[1]]
                   x == <<o, e[2]>>
        <4>2. r \in Seq(Receipts) /\ x \in Receipts
          BY <4>1
        <4> HIDE DEF r, x
        <4>3. Len(Append(r, x)) = Len(r) + 1 /\ Len(r) \in Nat
          BY <4>2, Appended, ElementsAre
        <4> QED
          BY <1>10, <4>3 DEF r, x
      <3> HIDE DEF g
      <3> QED
        BY <3>1
    <2>3. e[1] \in channels[o]
      BY <1>5 DEF Fits
    <2> HIDE DEF g
    <2> QED
      BY <1>2, <2>1, <2>2, <2>3 DEF Carriers, o
  <1>21. \A u \in Subjects \ twofold : u = e[1] /\ received' = g =>
           \A f \in ToSet(received[u]) : f[2] < e[2]
    BY <1>5, <1>20 DEF RedisIInv, TopicsAreUnmixed
  <1>22. TopicsAreUnmixed'
    <2> SUFFICES ASSUME NEW u \in Subjects \ twofold, NEW p \in Carriers(u)', NEW d \in ToSet(buffer'[p]),
                        d[1] = u, NEW f \in ToSet(received'[u])
                 PROVE  f[2] < d[2]
      BY <1>1, <1>18, <1>19 DEF TopicsAreUnmixed
    <2>1. p \in Carriers(u) /\ p \in Objects /\ d \in ToSet(buffer[p])
      BY <1>8, <1>18 DEF Carriers
    <2>2. CASE f \in ToSet(received[u])
      BY <2>1, <2>2 DEF RedisIInv, TopicsAreUnmixed
    <2>3. CASE f \notin ToSet(received[u])
      <3>1. received' = g
        BY <1>6, <2>3
      <3>2. u = e[1] /\ f = <<o, e[2]>>
        BY <1>10, <2>3, <3>1
      <3>3. p = o
        BY <1>19, <1>20, <2>1, <3>1, <3>2
      <3>4. Before(e, d)
        BY <1>9, <2>1, <3>3
      <3> QED
        BY <3>2, <3>4 DEF Before
    <2> QED
      BY <2>2, <2>3
  <1>23. InOrderUnlessTwofold'
    <2> SUFFICES ASSUME NEW u \in Subjects \ twofold, NEW i \in DOMAIN received'[u],
                        NEW j \in DOMAIN received'[u], i < j
                 PROVE  received'[u][i][2] < received'[u][j][2]
      BY <1>1 DEF InOrderUnlessTwofold
    <2>1. CASE received'[u] = received[u]
      BY <2>1 DEF RedisIInv, InOrderUnlessTwofold
    <2>2. CASE received'[u] # received[u]
      <3>1. received' = g /\ u = e[1]
        BY <1>6, <1>10, <2>2
      <3> DEFINE r == received[u]
                 x == <<o, e[2]>>
      <3>2. r \in Seq(Receipts) /\ x \in Receipts /\ received'[u] = Append(r, x) /\ x[2] = e[2]
        BY <1>2, <1>3, <1>7, <1>10, <3>1 DEF Heard, Receipts
      <3>3. \A k, m \in DOMAIN r : k < m => r[k][2] < r[m][2]
        BY DEF RedisIInv, InOrderUnlessTwofold
      <3>4. \A f \in ToSet(r) : f[2] < x[2]
        BY <1>21, <3>1, <3>2
      <3> HIDE DEF r, x
      <3>5. /\ i \in DOMAIN r /\ Append(r, x)[i] = r[i] /\ r[i] \in ToSet(r)
            /\ Append(r, x)[j] = x \/ (j \in DOMAIN r /\ Append(r, x)[j] = r[j])
        BY <3>2, Appended
      <3> QED
        BY <3>2, <3>3, <3>4, <3>5
    <2> QED
      BY <2>1, <2>2
  <1>24. DroppedOnlyByOthers'
    <2> SUFFICES ASSUME NEW u \in Subjects, NEW n \in due[u]
                 PROVE  \/ <<pubsub, n>> \in ToSet(received'[u])
                        \/ <<u, n>> \in ToSet(buffer'[pubsub])
                        \/ \E k \in Ears : SubjectOf[k] # u /\ turn'[k] # "off"
      BY <1>1 DEF DroppedOnlyByOthers
    <2>1. CASE <<pubsub, n>> \in ToSet(received[u])
      BY <1>13, <2>1
    <2>2. CASE \E k \in Ears : SubjectOf[k] # u /\ turn[k] # "off"
      BY <1>15, <2>2
    <2>3. CASE <<u, n>> \in ToSet(buffer[pubsub])
      <3>1. CASE pubsub = o /\ <<u, n>> = e
        <4>1. u = e[1] /\ n = e[2]
          BY <3>1
        <4>2. CASE received' = g
          BY <1>10, <3>1, <4>1, <4>2
        <4>3. CASE e[1] # SubjectOf[l]
          BY <1>15, <4>1, <4>3
        <4> QED
          BY <1>6, <4>2, <4>3
      <3>2. CASE pubsub # o \/ <<u, n>> # e
        BY <1>2, <1>5, <1>8, <2>3, <3>2
      <3> QED
        BY <3>1, <3>2
    <2> QED
      BY <2>1, <2>2, <2>3 DEF RedisIInv, DroppedOnlyByOthers
  <1>25. received' = g => RedisChannel!Receive(e[1])
    <2> SUFFICES ASSUME received' = g PROVE RedisChannel!Receive(e[1])
      OBVIOUS
    <2>1. \A i \in DOMAIN received[e[1]] : received[e[1]][i][1] = o => received[e[1]][i][2] < e[2]
      BY <1>5 DEF Fits, ToSet
    <2>2. \E x \in Objects, n \in 1..posted[e[1]] :
            /\ \A i \in DOMAIN received[e[1]] :
                 received[e[1]][i][1] = x => received[e[1]][i][2] < n
            /\ received' = [received EXCEPT ![e[1]] = Append(@, <<x, n>>)]
      BY <1>2, <1>12, <2>1 DEF Receiving
    <2> QED
      BY <1>1, <2>2 DEF RedisChannel!Receive
  <1> HIDE DEF g
  <1>26. (\E t \in Subjects : RedisChannel!Receive(t)) \/ UNCHANGED <<posted, received>>
    BY <1>1, <1>6, <1>7, <1>25
  <1> QED
    BY <1>13, <1>15, <1>16, <1>17, <1>22, <1>23, <1>24, <1>26 DEF RedisIInv

LEMMA RedisNextIInv ==
    ASSUME RedisIInv, [RedisBusNext]_redisBusVars
    PROVE  RedisIInv' /\ [RedisChannel!Next]_<<posted, received>>
  <1>1. CASE ServerDown
    BY <1>1, ServerDownIInv
  <1>2. CASE (ConnectRedis /\ up) \/ Reconnect
    BY <1>2, ReplaceIInv
  <1>3. CASE CloseRedis
    BY <1>3, CloseRedisIInv
  <1>4. CASE \E t \in Subjects : PublishRedis(t)
    BY <1>4, PublishRedisIInv DEF RedisChannel!Next
  <1>5. CASE \E t \in Subjects : SubscribeRedis(t)
    BY <1>5, SubscribeRedisIInv
  <1>6. CASE \E l \in Ears : Poll(l)
    BY <1>6, PollIInv DEF RedisChannel!Next
  <1>7. CASE \/ ServerUp \/ (ConnectRedis /\ ~up)
             \/ \E l \in Ears : ListenRedis(l) \/ Rewire(l) \/ LookAgain(l) \/ CancelEar(l)
             \/ UNCHANGED redisBusVars
    BY <1>7, LoopRedisIInv
  <1> QED
    BY <1>1, <1>2, <1>3, <1>4, <1>5, <1>6, <1>7 DEF RedisBusNext

(* The invariant of the bus over Redis holds in every reachable state. *)
THEOREM RedisInvariant == RedisBusSpec => []RedisIInv
  BY RedisInitIInv, RedisNextIInv, PTL DEF RedisBusSpec

(* Across outages, replaced objects that are still polled, and listeners   *)
(* that drop each other's messages, a message is received once at most     *)
(* through each object, and none after a later one of that object.         *)
THEOREM RedisBusImplementsChannel == RedisBusSpec => RedisBusInOrder
  <1>1. RedisBusInit => RedisChannel!Init
    BY DEF RedisBusInit, RedisChannel!Init
  <1>2. RedisIInv /\ [RedisBusNext]_redisBusVars => [RedisChannel!Next]_<<posted, received>>
    BY RedisNextIInv
  <1> QED
    BY <1>1, <1>2, RedisInvariant, PTL DEF RedisBusSpec, RedisBusInOrder, RedisChannel!Spec

------------------------------------------------------------------------------
(* The two buses side by side.                                             *)

(* Every variable of the two buses keeps its type: close() never counts    *)
(* more messages than were published.                                      *)
THEOREM BusTypes == MemoryBusSpec /\ RedisBusSpec => [](MemoryBusTypeOK /\ RedisBusTypeOK)
  <1>1. MemoryIInv => MemoryBusTypeOK
    <2> SUFFICES ASSUME MemoryIInv PROVE drained \in [Subjects -> 0..MaxSent]
      BY DEF MemoryIInv, MemoryTypes, MemoryBusTypeOK
    <2>1. ASSUME NEW t \in Subjects PROVE drained[t] \in 0..MaxSent
      <3>1. /\ published[t] \in 0..MaxSent /\ drained[t] \in Nat
            /\ Len(heard[t]) \in Nat /\ Len(Waiting(t)) \in Nat
        BY WaitingIsSeq DEF MemoryIInv, MemoryTypes
      <3>2. published[t] = Len(heard[t]) + drained[t] + Len(Waiting(t))
        BY DEF MemoryIInv, TopicsAddUp
      <3> QED
        BY <3>1, <3>2, BusUsersAssumption
    <2>2. drained \in [Subjects -> Nat]
      BY DEF MemoryIInv, MemoryTypes
    <2> QED
      BY <2>1, <2>2
  <1>2. RedisIInv => RedisBusTypeOK
    BY DEF RedisIInv
  <1> QED
    BY <1>1, <1>2, MemoryInvariant, RedisInvariant, PTL

(* Both buses implement the channel of bus/: once at most, and in order,   *)
(* over each object that the messages of a topic can come through          *)
(* (in_memory_bus.py:45, redis_bus.py:76).                                 *)
THEOREM BusesImplementChannel == MemoryBusSpec /\ RedisBusSpec => BusesInOrder
  BY MemoryBusImplementsChannel, RedisBusImplementsChannel DEF BusesInOrder

(* A message gets lost, a listener deaf, and a message comes twice or late, *)
(* for the reasons the buses have only: close(), a lost connection, a       *)
(* listener of another topic, an object that was replaced, and one that a   *)
(* listener still polled when its topic was subscribed to on the new one.   *)
THEOREM BusesLoseOnlyBy == MemoryBusSpec /\ RedisBusSpec => []BusesDeliver
  <1>1. RedisIInv => DroppedOnlyByOthers /\ DeafOnlyAfterRenewal /\ InOrderUnlessTwofold
    BY DEF RedisIInv
  <1>2. LostOnlyByClose /\ DeafOnlyAfterClose /\ DroppedOnlyByOthers /\ DeafOnlyAfterRenewal
          /\ InOrderUnlessTwofold => BusesDeliver
    BY DEF BusesDeliver
  <1> QED
    BY <1>1, <1>2, MemoryDelivers, RedisInvariant, PTL
==============================================================================
