-------------------------------- MODULE Buses --------------------------------
(***************************************************************************)
(* What the two message buses promise alike (bus/).                       *)
(***************************************************************************)
EXTENDS InMemoryBus, RedisBus

\* Messages get lost, come twice or come late only for reasons that the users of a
\* bus can name.
BusesDeliver ==
    /\ LostOnlyByClose /\ DeafOnlyAfterClose
    /\ DroppedOnlyByOthers /\ DeafOnlyAfterRenewal /\ InOrderUnlessTwofold

\* Both buses implement the channel: once at most, and in order, over the one queue
\* of a topic in memory and over each pub/sub object of the bus over Redis.
BusesInOrder == MemoryBusInOrder /\ RedisBusInOrder
=============================================================================
