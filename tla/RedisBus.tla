------------------------------ MODULE RedisBus ------------------------------
(***************************************************************************)
(* RedisMessageBus (bus/redis_bus.py).  All listeners of a bus poll the    *)
(* object that _pubsub names when they call its get_message; each drops    *)
(* what belongs to another topic.  A new object takes the place of the old *)
(* one in _pubsub only: a poll under way stays with the old one, which     *)
(* keeps its subscriptions.  Behind it is the client library (external):   *)
(* the server forgets a subscription with its connection, and the library  *)
(* renews both when the object is polled.  Delays are left out.            *)
(***************************************************************************)
EXTENDS BusUsers

CONSTANT MaxObjects  \* bound: pub/sub objects that are made

ASSUME RedisBusAssumption == MaxObjects \in Nat

VARIABLES
    up,              \* the server answers
    live,            \* _running
    client,          \* _redis: made or not
    pubsub,          \* _pubsub: the number of the object it names, 0 for None
    channels,        \* channels[o]: what object o is subscribed to
    wired,           \* wired[o]: the server knows of these subscriptions
    buffer,          \* buffer[o]: what the server has sent to it
    turn,            \* turn[l]: what listener l does
    via,             \* via[l]: the object that l polls, 0 while it does not
    posted,          \* the messages published on a topic
    received,        \* those received from it, each with its object, in this order
    due,             \* history: what the server sent through the present object
    subscribed,      \* history: the topics somebody subscribed to
    renewed,         \* history: those whose subscription stayed with an old object
    twofold          \* history: those subscribed anew while the old one was polled

redisBusVars == <<up, live, client, pubsub, channels, wired, buffer, turn, via, posted,
                  received, due, subscribed, renewed, twofold>>

Objects == 1..MaxObjects

RedisBusTypeOK ==
    /\ up \in BOOLEAN /\ live \in BOOLEAN /\ client \in BOOLEAN
    /\ pubsub \in 0..MaxObjects
    /\ channels \in [Objects -> SUBSET Subjects]
    /\ wired \in [Objects -> BOOLEAN]
    /\ buffer \in [Objects -> Seq(Subjects \X (1..MaxSent))]
    /\ turn \in [Ears -> {"off", "polling", "busy", "ended"}]
    /\ via \in [Ears -> 0..MaxObjects]
    /\ posted \in [Subjects -> 0..MaxSent]
    /\ received \in [Subjects -> Seq(Objects \X (1..MaxSent))]
    /\ due \in [Subjects -> SUBSET (1..MaxSent)]
    /\ subscribed \subseteq Subjects /\ renewed \subseteq Subjects /\ twofold \subseteq Subjects

NothingDue == [t \in Subjects |-> {}]

RedisBusInit ==
    /\ up \in BOOLEAN /\ live = FALSE /\ client = FALSE
    /\ pubsub = 0
    /\ channels = [o \in Objects |-> {}]
    /\ wired = [o \in Objects |-> FALSE]
    /\ buffer = [o \in Objects |-> <<>>]
    /\ turn = [l \in Ears |-> "off"] /\ via = [l \in Ears |-> 0]
    /\ posted = [t \in Subjects |-> 0] /\ received = [t \in Subjects |-> <<>>]
    /\ due = NothingDue /\ subscribed = {} /\ renewed = {} /\ twofold = {}

-----------------------------------------------------------------------------
(* The server and the client library.                                      *)

\* What is on its way is lost with the connections.
ServerDown ==
    /\ up /\ up' = FALSE
    /\ wired' = [o \in Objects |-> FALSE]
    /\ buffer' = [o \in Objects |-> <<>>]
    /\ due' = NothingDue
    /\ UNCHANGED <<live, client, pubsub, channels, turn, via, posted, received, subscribed,
                   renewed, twofold>>

ServerUp ==
    /\ ~up /\ up' = TRUE
    /\ UNCHANGED <<live, client, pubsub, channels, wired, buffer, turn, via, posted, received,
                   due, subscribed, renewed, twofold>>

-----------------------------------------------------------------------------
(* The operations.                                                         *)

PresentChannels == IF pubsub = 0 THEN {} ELSE channels[pubsub]

\* _pubsub names a new object, which has no subscriptions.
Replace ==
    /\ pubsub < MaxObjects
    /\ pubsub' = pubsub + 1
    /\ renewed' = renewed \cup PresentChannels
    /\ due' = NothingDue

\* ping() raises when the server is down: the client is made by then.
ConnectRedis ==
    /\ client' = TRUE
    /\ IF up THEN live' = TRUE /\ Replace ELSE UNCHANGED <<live, pubsub, renewed, due>>
    /\ UNCHANGED <<up, channels, wired, buffer, turn, via, posted, received, subscribed, twofold>>

Hears(o, t) == wired[o] /\ t \in channels[o]

\* Without a client, or when the server is down, publish() raises.
PublishRedis(t) ==
    /\ client /\ up
    /\ posted[t] < MaxSent
    /\ posted' = [posted EXCEPT ![t] = @ + 1]
    /\ buffer' = [o \in Objects |->
                    IF Hears(o, t) THEN Append(buffer[o], <<t, posted[t] + 1>>) ELSE buffer[o]]
    /\ due' = [due EXCEPT ![t] =
                    IF pubsub # 0 /\ Hears(pubsub, t) THEN @ \cup {posted[t] + 1} ELSE @]
    /\ UNCHANGED <<up, live, client, pubsub, channels, wired, turn, via, received, subscribed,
                   renewed, twofold>>

\* Some listener of the topic polls an older object that has it.
PolledElsewhere(t) ==
    \E l \in Ears : SubjectOf[l] = t /\ via[l] \notin {0, pubsub} /\ t \in channels[via[l]]

SubscribeRedis(t) ==
    /\ pubsub # 0 /\ up
    /\ channels' = [channels EXCEPT ![pubsub] = @ \cup {t}]
    /\ wired' = [wired EXCEPT ![pubsub] = TRUE]
    /\ renewed' = renewed \ {t}
    /\ subscribed' = subscribed \cup {t}
    /\ twofold' = IF PolledElsewhere(t) THEN twofold \cup {t} ELSE twofold
    /\ UNCHANGED <<up, live, client, pubsub, buffer, turn, via, posted, received, due>>

\* The head of the loop: get_message is called on the object of this moment.
EnterLoop(l) ==
    /\ turn' = [turn EXCEPT ![l] = IF live THEN "polling" ELSE "ended"]
    /\ via' = [via EXCEPT ![l] = IF live THEN pubsub ELSE 0]

ListenRedis(l) ==
    /\ turn[l] = "off" /\ pubsub # 0
    /\ EnterLoop(l)
    /\ UNCHANGED <<up, live, client, pubsub, channels, wired, buffer, posted, received, due,
                   subscribed, renewed, twofold>>

\* Fault: the topic is taken for known after its first message.
MineOnce(l, t) == t = SubjectOf[l] /\ received[t] = <<>>

Mine(l, t) == t = SubjectOf[l]

\* Fault: the newest message of the buffer is taken for the oldest.
NextRawLast(o) == Last(buffer[o])

NextRaw(o) == Head(buffer[o])

\* get_message: the oldest message goes to its topic's listener, or is dropped.
Poll(l) ==
    /\ turn[l] = "polling" /\ buffer[via[l]] # <<>>
    /\ buffer' = [buffer EXCEPT ![via[l]] = Tail(@)]
    /\ LET t == NextRaw(via[l])[1]
           n == NextRaw(via[l])[2]
       IN  IF Mine(l, t)
           THEN /\ received' = [received EXCEPT ![t] = Append(@, <<via[l], n>>)]
                /\ turn' = [turn EXCEPT ![l] = "busy"]
                /\ via' = [via EXCEPT ![l] = 0]
           ELSE EnterLoop(l) /\ UNCHANGED received
    /\ UNCHANGED <<up, live, client, pubsub, channels, wired, posted, due, subscribed, renewed,
                   twofold>>

\* A poll that finds the connection gone has the library renew it, with the
\* subscriptions of the object.  An object without any raises, which is logged.
Rewire(l) ==
    /\ turn[l] = "polling" /\ up
    /\ channels[via[l]] # {} /\ ~wired[via[l]]
    /\ wired' = [wired EXCEPT ![via[l]] = TRUE]
    /\ UNCHANGED <<up, live, client, pubsub, channels, buffer, turn, via, posted, received, due,
                   subscribed, renewed, twofold>>

\* The second of a poll is over, perhaps as a message comes in, or the poll has
\* raised, or the consumer asks for the next message.
LookAgain(l) ==
    /\ turn[l] \in {"polling", "busy"}
    /\ EnterLoop(l)
    /\ UNCHANGED <<up, live, client, pubsub, channels, wired, buffer, posted, received, due,
                   subscribed, renewed, twofold>>

CancelEar(l) ==
    /\ turn[l] \in {"polling", "busy"}
    /\ turn' = [turn EXCEPT ![l] = "ended"]
    /\ via' = [via EXCEPT ![l] = 0]
    /\ UNCHANGED <<up, live, client, pubsub, channels, wired, buffer, posted, received, due,
                   subscribed, renewed, twofold>>

-----------------------------------------------------------------------------
(* _reconnect_loop and close().                                            *)

\* A ping fails, as the server is down or its own connection is broken; the
\* next one only tells whether the new client works.
Reconnect ==
    /\ live
    /\ Replace
    /\ UNCHANGED <<up, live, client, channels, wired, buffer, turn, via, posted, received,
                   subscribed, twofold>>

\* Only the object that _pubsub names is unsubscribed and closed.
CloseRedis ==
    /\ live' = FALSE
    /\ channels' = [o \in Objects |-> IF o = pubsub THEN {} ELSE channels[o]]
    /\ wired' = [o \in Objects |-> o # pubsub /\ wired[o]]
    /\ buffer' = [o \in Objects |-> IF o = pubsub THEN <<>> ELSE buffer[o]]
    /\ renewed' = renewed \cup PresentChannels
    /\ due' = NothingDue
    /\ UNCHANGED <<up, client, pubsub, turn, via, posted, received, subscribed, twofold>>

-----------------------------------------------------------------------------
RedisBusNext ==
    \/ ServerDown \/ ServerUp \/ ConnectRedis \/ Reconnect \/ CloseRedis
    \/ \E t \in Subjects : PublishRedis(t) \/ SubscribeRedis(t)
    \/ \E l \in Ears : ListenRedis(l) \/ Poll(l) \/ Rewire(l) \/ LookAgain(l) \/ CancelEar(l)

RedisBusSpec == RedisBusInit /\ [][RedisBusNext]_redisBusVars

-----------------------------------------------------------------------------
RedisChannel == INSTANCE TopicChannel WITH
                    Topics <- Subjects, Lines <- Objects, sent <- posted, got <- received

\* Whatever is lost or taken by the wrong listener, a message is received once at
\* most through each pub/sub object, and none after a later one of that object.
RedisBusInOrder == RedisChannel!Spec

\* A message is received twice, or after a later one, only if its topic was
\* subscribed to on a new object while a listener of it was still in a poll of the
\* replaced one (redis_bus.py:76, 133): any other replacement is safe.
InOrderUnlessTwofold ==
    \A t \in Subjects \ twofold : \A i, j \in DOMAIN received[t] :
        i < j => received[t][i][2] < received[t][j][2]

\* A message that the server sent through the present object is received or on its
\* way, unless a listener of another topic could take it (redis_bus.py:79).
DroppedOnlyByOthers ==
    \A t \in Subjects : \A n \in due[t] :
        \/ <<pubsub, n>> \in ToSet(received[t])
        \/ <<t, n>> \in ToSet(buffer[pubsub])
        \/ \E l \in Ears : SubjectOf[l] # t /\ turn[l] # "off"

\* A topic that was subscribed to is no longer only if a failed ping, a close() or
\* a second connect() replaced the object (redis_bus.py:133); an outage between
\* two pings is survived.
DeafOnlyAfterRenewal == subscribed \subseteq PresentChannels \cup renewed
=============================================================================
