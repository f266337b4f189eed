---------------------------- MODULE InMemoryBus ----------------------------
(***************************************************************************)
(* InMemoryBus (bus/in_memory_bus.py): one queue object per topic.  A      *)
(* listener holds on to the object it found first; close() empties the     *)
(* objects and forgets them, and whoever comes next makes new ones.        *)
(***************************************************************************)
EXTENDS BusUsers

CONSTANT MaxQueues   \* bound: queue objects that are made

ASSUME InMemoryBusAssumption == MaxQueues \in Nat

VARIABLES
    running,         \* _running
    queues,          \* _queues: the object of a topic, 0 if it has none
    made,            \* how many objects were made
    content,         \* content[q]: what is in object q
    ear,             \* ear[l]: what l does, and with which object
    published,       \* the messages published on a topic
    heard,           \* the messages received from it, in this order
    drained,         \* history: how many messages close() threw away
    reopened         \* history: the listeners that sat through a close()

memoryBusVars == <<running, queues, made, content, ear, published, heard, drained, reopened>>

MemoryBusTypeOK ==
    /\ running \in BOOLEAN
    /\ queues \in [Subjects -> 0..MaxQueues]
    /\ made \in 0..MaxQueues
    /\ content \in [1..MaxQueues -> Seq(1..MaxSent)]
    /\ ear \in [Ears -> [step : {"off", "waiting", "busy", "ended"}, queue : 0..MaxQueues]]
    /\ published \in [Subjects -> 0..MaxSent]
    /\ heard \in [Subjects -> Seq(1..MaxSent)]
    /\ drained \in [Subjects -> 0..MaxSent]
    /\ reopened \subseteq Ears

MemoryBusInit ==
    /\ running = FALSE
    /\ queues = [t \in Subjects |-> 0]
    /\ made = 0
    /\ content = [q \in 1..MaxQueues |-> <<>>]
    /\ ear = [l \in Ears |-> [step |-> "off", queue |-> 0]]
    /\ published = [t \in Subjects |-> 0]
    /\ heard = [t \in Subjects |-> <<>>]
    /\ drained = [t \in Subjects |-> 0]
    /\ reopened = {}

-----------------------------------------------------------------------------

\* The object of a topic, or the one that is made for it.
QueueFor(t) == IF queues[t] = 0 THEN made + 1 ELSE queues[t]

HaveQueue(t) ==
    /\ QueueFor(t) <= MaxQueues
    /\ queues' = [queues EXCEPT ![t] = QueueFor(t)]
    /\ made' = IF QueueFor(t) > made THEN made + 1 ELSE made

ConnectMemory ==
    /\ running' = TRUE
    /\ UNCHANGED <<queues, made, content, ear, published, heard, drained, reopened>>

PublishMemory(t) ==
    /\ published[t] < MaxSent
    /\ HaveQueue(t)
    /\ content' = [content EXCEPT ![QueueFor(t)] = Append(@, published[t] + 1)]
    /\ published' = [published EXCEPT ![t] = @ + 1]
    /\ UNCHANGED <<running, ear, heard, drained, reopened>>

SubscribeMemory(t) ==
    /\ HaveQueue(t)
    /\ UNCHANGED <<running, content, ear, published, heard, drained, reopened>>

\* The head of the loop of listen().
LoopOrEnd == IF running THEN "waiting" ELSE "ended"

ListenMemory(l) ==
    /\ ear[l].step = "off"
    /\ HaveQueue(SubjectOf[l])
    /\ ear' = [ear EXCEPT ![l] = [step |-> LoopOrEnd, queue |-> QueueFor(SubjectOf[l])]]
    /\ UNCHANGED <<running, content, published, heard, drained, reopened>>

TakeFrom(q) == [n |-> Head(content[q]), rest |-> Tail(content[q])]

\* One of the listeners that wait for the object gets its oldest message.
TakeMessage(l) ==
    /\ ear[l].step = "waiting"
    /\ content[ear[l].queue] # <<>>
    /\ content' = [content EXCEPT ![ear[l].queue] = TakeFrom(ear[l].queue).rest]
    /\ heard' = [heard EXCEPT ![SubjectOf[l]] = Append(@, TakeFrom(ear[l].queue).n)]
    /\ ear' = [ear EXCEPT ![l].step = "busy"]
    /\ UNCHANGED <<running, queues, made, published, drained, reopened>>

\* The consumer asks for the next message, or a second went by without one.
Look(l) ==
    /\ ear[l].step = "busy" \/ (ear[l].step = "waiting" /\ content[ear[l].queue] = <<>>)
    /\ ear' = [ear EXCEPT ![l].step = LoopOrEnd]
    /\ UNCHANGED <<running, queues, made, content, published, heard, drained, reopened>>

CancelListener(l) ==
    /\ ear[l].step \in {"waiting", "busy"}
    /\ ear' = [ear EXCEPT ![l].step = "ended"]
    /\ UNCHANGED <<running, queues, made, content, published, heard, drained, reopened>>

CloseMemory ==
    /\ running' = FALSE
    /\ content' = [q \in 1..MaxQueues |->
                    IF \E t \in Subjects : queues[t] = q THEN <<>> ELSE content[q]]
    /\ drained' = [t \in Subjects |->
                    drained[t] + (IF queues[t] = 0 THEN 0 ELSE Len(content[queues[t]]))]
    /\ queues' = [t \in Subjects |-> 0]
    /\ reopened' = reopened \cup {l \in Ears : ear[l].step \in {"waiting", "busy"}}
    /\ UNCHANGED <<made, ear, published, heard>>

-----------------------------------------------------------------------------
MemoryBusNext ==
    \/ ConnectMemory \/ CloseMemory
    \/ \E t \in Subjects : PublishMemory(t) \/ SubscribeMemory(t)
    \/ \E l \in Ears : ListenMemory(l) \/ TakeMessage(l) \/ Look(l) \/ CancelListener(l)

MemoryBusSpec == MemoryBusInit /\ [][MemoryBusNext]_memoryBusVars

-----------------------------------------------------------------------------
\* What was heard, all of it over one line.
OneLine(h) == [i \in DOMAIN h |-> <<1, h[i]>>]

Channel == INSTANCE TopicChannel WITH
                Topics <- Subjects, Lines <- {1}, sent <- published,
                got <- [t \in Subjects |-> OneLine(heard[t])]

\* However many listeners compete for a topic, each message reaches one of them
\* at most, and in the order they were published.
MemoryBusInOrder == Channel!Spec

\* A message that was published is received, waits in the object that new
\* listeners find, or was thrown away by close(): nothing is left in another.
LostOnlyByClose ==
    \A t \in Subjects :
        published[t] = Len(heard[t]) + drained[t]
                        + (IF queues[t] = 0 THEN 0 ELSE Len(content[queues[t]]))

\* Only a listener that sat through a close() may wait, on a running bus, on an
\* object that nobody fills (in_memory_bus.py:59).
DeafOnlyAfterClose ==
    \A l \in Ears :
        ear[l].step \in {"waiting", "busy"} /\ ear[l].queue # queues[SubjectOf[l]]
            => l \in reopened
=============================================================================
