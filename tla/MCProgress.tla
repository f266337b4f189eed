----------------------------- MODULE MCProgress -----------------------------
(***************************************************************************)
(* The components whose callers wait for something, under their fairness,  *)
(* in one run.  As in MCServices a behaviour exercises one of them, the    *)
(* part, and the others rest.                                              *)
(***************************************************************************)
EXTENDS Delegation, TaskScheduler, TradingSystem, Heartbeat, LLMGateway, MarketData, TLC

CONSTANTS
    alpha, analyst,                  \* agents
    scan,                            \* a task one asks of the other
    broken, cycle,                   \* loops of the task scheduler
    MaxTasks, NumLanes, Priorities, MaxWorkers, None, MaxHistory, KeepHistory, Limit

VARIABLES
    running, slot, pc, home, job, doomed, queue, active, log, status,
    lane, prio, stopAt, awaited, overlapped, ended     \* of the lanes

Lane == INSTANCE LaneScheduler WITH history <- log

laneVars == <<running, slot, pc, home, job, doomed, queue, active, log, status,
              lane, prio, stopAt, awaited, overlapped, ended>>

Links == {<<alpha, analyst>>, <<analyst, alpha>>}
LinkRights == {[limit |-> 1, jobs |-> {}]}

AnyTime == [kind |-> "any", a |-> 0, b |-> 0]
CronFields ==
    broken :> [minute |-> AnyTime, hour |-> AnyTime, day |-> [kind |-> "bad", a |-> 0, b |-> 0]]
Periods == cycle :> 1

TradedPairs == <<"BTC/USDT", "ETH/USDT">>
ActiveChannels == <<"telegram">>

VARIABLE part        \* the component that this behaviour exercises

Parts == {"delegation", "scheduler", "trading", "heartbeat", "gateway", "data", "lanes"}

vars == <<delegationVars, schedulerVars, tradingVars, heartbeatVars, gatewayVars,
          sourceVars, laneVars, part>>

Init ==
    /\ part \in Parts
    /\ DelegationInit /\ SchedulerInit /\ TradingInit /\ HeartbeatInit
    /\ GatewayInit /\ SourceInit /\ Lane!Init
    /\ part # "trading" => replaceable

RestBut(x) ==
    /\ part = x /\ UNCHANGED part
    /\ x # "delegation" => UNCHANGED delegationVars
    /\ x # "scheduler" => UNCHANGED schedulerVars
    /\ x # "trading" => UNCHANGED tradingVars
    /\ x # "heartbeat" => UNCHANGED heartbeatVars
    /\ x # "gateway" => UNCHANGED gatewayVars
    /\ x # "data" => UNCHANGED sourceVars
    /\ x # "lanes" => UNCHANGED laneVars

Next ==
    \/ RestBut("delegation") /\ DelegationNext
    \/ RestBut("scheduler") /\ SchedulerNext
    \/ RestBut("trading") /\ TradingNext
    \/ RestBut("heartbeat") /\ HeartbeatNext
    \/ RestBut("gateway") /\ GatewayNext
    \/ RestBut("data") /\ SourceNext
    \/ RestBut("lanes") /\ Lane!Next

\* The fairness that each module states, which binds nothing while it rests.
Spec ==
    /\ Init /\ [][Next]_vars
    /\ \A c \in Calls : WF_delegationVars(part = "delegation" /\ TimeOut(c))
    /\ WF_schedulerVars(part = "scheduler" /\ TimePasses)
    /\ WF_schedulerVars(part = "scheduler" /\ CancelledLoop)
    /\ WF_schedulerVars(part = "scheduler" /\ StopContinues)
    /\ \A t \in Loops : WF_schedulerVars(part = "scheduler" /\ Turn(t))
    /\ WF_tradingVars(part = "trading" /\ Analyse)
    /\ WF_tradingVars(part = "trading" /\ CheckRisk)
    /\ WF_tradingVars(part = "trading" /\ StopStep)
    /\ \A c \in Reports :
        WF_heartbeatVars(part = "heartbeat" /\ (AlertsDone(c) \/ \E ok \in BOOLEAN : Callback(c, ok)))
    /\ WF_gatewayVars(/\ part = "gateway"
                      /\ (\E t \in Texts : ChatCompletion(t)) \/ CompletionFails \/ CompletionAnswers)
    /\ \A a \in Askers :
        WF_sourceVars(part = "data" /\ (Read(a) \/ FetchFails(a) \/ Fetched(a) \/ Store(a)))
    /\ WF_laneVars(part = "lanes" /\ Lane!StopGoesOn)
    /\ \A w \in Lane!Workers : WF_laneVars(part = "lanes" /\ Lane!WorkerStep(w))

-----------------------------------------------------------------------------
\* What those who wait are owed.  A delegation ends though its executor does not;
\* an interval task goes on and the scheduler's stop returns; every pair has its
\* turn and the shutdown ends; every callback hears of a failed check; every
\* model call and every fetch is answered or given up; a task waiting in a lane
\* with a worker begins, and stopping the lanes ends.
Progress ==
    /\ DelegationEnds
    /\ StopSchedulerReturns /\ IntervalGoesOn
    /\ EveryPairHasItsTurn /\ ShutdownEnds
    /\ EveryCallbackHears
    /\ CallsAnswered
    /\ FetchEnds
    /\ Lane!EveryTaskBegins /\ Lane!StopReturns
=============================================================================
