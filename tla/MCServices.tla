----------------------------- MODULE MCServices -----------------------------
(***************************************************************************)
(* The agents, tasks, topics, listeners, loops, pairs and channels with    *)
(* which the services are model-checked.                                   *)
(***************************************************************************)
EXTENDS Services, TLC

CONSTANTS
    alpha, analyst, sentiment,       \* agents
    scan, digest,                    \* tasks one agent asks of another
    topic, other,                    \* topics of a bus
    ear1, ear2,                      \* listeners
    cron, broken, cycle              \* loops of the task scheduler

Links == {<<alpha, analyst>>, <<sentiment, analyst>>, <<analyst, alpha>>}
LinkRights == {[limit |-> 1, jobs |-> {}], [limit |-> 2, jobs |-> {scan}]}

AnyTime == [kind |-> "any", a |-> 0, b |-> 0]
CronFields ==
    (cron :> [minute |-> [kind |-> "step", a |-> 2, b |-> 0],
              hour |-> [kind |-> "range", a |-> 0, b |-> 0], day |-> AnyTime])
    @@ (broken :> [minute |-> [kind |-> "at", a |-> 1, b |-> 0],
                   hour |-> AnyTime, day |-> [kind |-> "bad", a |-> 0, b |-> 0]])
Periods == cycle :> 1

TradedPairs == <<"BTC/USDT", "ETH/USDT">>
ActiveChannels == <<"telegram", "slack">>

EarTopics == (ear1 :> topic) @@ (ear2 :> topic)
=============================================================================
