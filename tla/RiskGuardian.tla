---------------------------- MODULE RiskGuardian ----------------------------
(***************************************************************************)
(* RiskGuardianAgent (agents/risk_guardian.py): the periodic risk checks   *)
(* and the in-memory kill switch they trip.                                *)
(*                                                                         *)
(* run() suspends at every candle request and at the availability probe,   *)
(* so the agent's own monitor loop, the scheduled risk cycle and the risk  *)
(* node of the graph can all be inside run() at once, sharing the switch   *)
(* and the error counter.  A step is what one of them does between two     *)
(* awaits.  Warnings are left out: they change no state of the agent.      *)
(***************************************************************************)
EXTENDS Integers, FiniteSets

CONSTANTS
    Monitor,          \* the task of _monitor_loop
    Callers,          \* the other tasks that call run()
    NumSymbols,       \* len(self.symbols)
    MaxErrors,        \* max_consecutive_errors
    MaxDrawdownPct,   \* limits.max_drawdown_pct, in percent
    MaxDailyLossPct,  \* limits.max_daily_loss_pct, in percent
    MaxPositions,     \* limits.max_positions
    Worths,           \* the portfolio values considered
    Books,            \* the position lists considered: [count, losers]
    None              \* an argument that is not given

Runners == Callers \cup {Monitor}

ASSUME GuardianAssumption ==
    /\ IsFiniteSet(Callers) /\ Monitor \notin Callers
    /\ NumSymbols \in Nat
    /\ MaxErrors \in Nat \ {0}
    /\ MaxDrawdownPct \in Nat /\ MaxDailyLossPct \in Nat /\ MaxPositions \in Nat
    /\ Worths \subseteq Nat
    /\ Books \subseteq [count : Nat, losers : Nat]
    /\ None \notin Nat

VARIABLES
    active,      \* _kill_switch_active
    reason,      \* which check set _kill_switch_reason
    errors,      \* _consecutive_api_errors
    peak,        \* _portfolio_peak_value
    dayStart,    \* _daily_start_balance
    running,     \* _running
    pc,          \* pc[x]: the await at which task x is suspended
    todo,        \* todo[x]: how many symbols x has still to examine
    stopping,    \* how far a call of stop() has come
    api,         \* the exchange: "up" or "down"
    worth,       \* what the portfolio is really worth
    trips        \* history: calls of _trigger_kill_switch since it was off

vars == <<active, reason, errors, peak, dayStart, running, pc, todo, stopping,
          api, worth, trips>>

switch == <<active, reason, trips>>
env == <<api, worth>>

Reasons == {"drawdown", "daily_loss", "positions", "volatility", "api"}
InFlight == {x \in Runners : pc[x] \in {"candles", "probe"}}

TypeOK ==
    /\ active \in BOOLEAN
    /\ reason \in Reasons \cup {"none"}
    /\ errors \in Nat
    /\ peak \in Nat
    /\ dayStart \in Nat
    /\ running \in BOOLEAN
    /\ pc \in [Runners -> {"idle", "candles", "probe", "asleep", "off"}]
    /\ todo \in [Runners -> 0..NumSymbols]
    /\ stopping \in {"no", "cancelling", "closing"}
    /\ api \in {"up", "down"}
    /\ worth \in Worths
    /\ trips \in Nat

Init ==
    /\ active = FALSE /\ reason = "none" /\ trips = 0
    /\ errors = 0 /\ peak = 0 /\ dayStart = 0
    /\ running = FALSE /\ stopping = "no"
    /\ pc = [x \in Runners |-> IF x = Monitor THEN "off" ELSE "idle"]
    /\ todo = [x \in Runners |-> 0]
    /\ api \in {"up", "down"} /\ worth \in Worths

-----------------------------------------------------------------------------
(* The checks.                                                             *)

DrawdownBreached(v, top) == top > 0 /\ (top - v) * 100 > MaxDrawdownPct * top

DailyLossBreached(v, start) == start > 0 /\ (start - v) * 100 > MaxDailyLossPct * start

\* len(check_position_limits(book)).  The positions' values are compared with
\* their own sum, so the exposure test fails for every book that is not empty.
Violations(book) ==
    (IF book.count > MaxPositions THEN 1 ELSE 0)
      + (IF book.count > 0 THEN 1 ELSE 0)
      + book.losers

\* _trigger_kill_switch, which overwrites the reason of an earlier trip.
Trip(kind) ==
    /\ active' = TRUE
    /\ reason' = kind
    /\ trips' = IF active THEN trips + 1 ELSE 1

\* Where a task is once run() has returned: the loop sleeps.
After(x) == IF x = Monitor THEN "asleep" ELSE "idle"

Return(x) ==
    /\ pc' = [pc EXCEPT ![x] = After(x)]
    /\ todo' = [todo EXCEPT ![x] = 0]

\* A cycle may begin: always for a caller; for the loop, while _running is set
\* and no CancelledError is on its way.
Runnable(x) == x = Monitor => running /\ stopping # "cancelling"

\* What x awaited is delivered, not a CancelledError.
Cleared(x) == x = Monitor => stopping # "cancelling"

\* The peak after a cycle that was told v and did not trip on drawdown.
Raised(v) == IF v # None /\ peak > 0 /\ v > peak THEN v ELSE peak

\* Which of the synchronous checks trips, "none" if none does.
Verdict(v, book) ==
    CASE v # None /\ DrawdownBreached(v, peak) -> "drawdown"
      [] v # None /\ ~DrawdownBreached(v, peak) /\ DailyLossBreached(v, dayStart) -> "daily_loss"
      [] OTHER -> IF book # None /\ Violations(book) >= 3 THEN "positions" ELSE "none"

\* Fault: run() does not look at the switch first.
BeginRunUnchecked(x, v, book) ==
    /\ pc[x] = "idle"
    /\ Runnable(x)
    /\ x = Monitor => v = None /\ book = None
    /\ LET kind == Verdict(v, book)
       IN  /\ peak' = IF kind = "drawdown" THEN peak ELSE Raised(v)
           /\ IF kind # "none"
              THEN Trip(kind) /\ Return(x)
              ELSE /\ UNCHANGED switch
                   /\ pc' = [pc EXCEPT ![x] = IF NumSymbols > 0 THEN "candles" ELSE "probe"]
                   /\ todo' = [todo EXCEPT ![x] = NumSymbols]
    /\ UNCHANGED <<errors, dayStart, running, stopping, env>>

\* run(v, book) up to its first await.  The monitor loop passes nothing.
BeginRun(x, v, book) ==
    /\ pc[x] = "idle"
    /\ Runnable(x)
    /\ x = Monitor => v = None /\ book = None
    /\ IF active
       THEN Return(x) /\ UNCHANGED <<switch, peak>>
       ELSE LET kind == Verdict(v, book)
            IN  /\ peak' = IF kind = "drawdown" THEN peak ELSE Raised(v)
                /\ IF kind # "none"
                   THEN Trip(kind) /\ Return(x)
                   ELSE /\ UNCHANGED switch
                        /\ pc' = [pc EXCEPT ![x] = IF NumSymbols > 0 THEN "candles" ELSE "probe"]
                        /\ todo' = [todo EXCEPT ![x] = NumSymbols]
    /\ UNCHANGED <<errors, dayStart, running, stopping, env>>

\* The candles of one symbol have come, or failed: a failure is no spike.
CandlesArrive(x, extreme) ==
    /\ pc[x] = "candles"
    /\ Cleared(x)
    /\ IF extreme
       THEN Trip("volatility") /\ Return(x)
       ELSE /\ UNCHANGED switch
            /\ todo' = [todo EXCEPT ![x] = @ - 1]
            /\ pc' = [pc EXCEPT ![x] = IF todo[x] > 1 THEN "candles" ELSE "probe"]
    /\ UNCHANGED <<errors, peak, dayStart, running, stopping, env>>

\* Fault: an unreachable exchange is not an error, only a "no" is.
ProbeAnswersUpOnly(x) ==
    /\ pc[x] = "probe"
    /\ Cleared(x)
    /\ errors' = 0
    /\ UNCHANGED switch
    /\ Return(x)
    /\ UNCHANGED <<peak, dayStart, running, stopping, env>>

\* is_available has answered, or raised: count or clear, then judge the count.
ProbeAnswers(x) ==
    /\ pc[x] = "probe"
    /\ Cleared(x)
    /\ errors' = IF api = "up" THEN 0 ELSE errors + 1
    /\ IF api = "down" /\ errors' >= MaxErrors THEN Trip("api") ELSE UNCHANGED switch
    /\ Return(x)
    /\ UNCHANGED <<peak, dayStart, running, stopping, env>>

\* The task of a caller is cancelled at an await (TaskScheduler.stop).
CancelRun(x) ==
    /\ x \in Callers
    /\ pc[x] \in {"candles", "probe"}
    /\ Return(x)
    /\ UNCHANGED <<switch, errors, peak, dayStart, running, stopping, env>>

-----------------------------------------------------------------------------
(* The monitor loop's life.                                                *)

Alive == pc[Monitor] # "off"

\* Fault: a restart begins with a new peak.
StartMonitoringAnew(v) ==
    /\ ~Alive
    /\ running' = TRUE
    /\ pc' = [pc EXCEPT ![Monitor] = "idle"]
    /\ peak' = IF v # None THEN v ELSE peak
    /\ dayStart' = IF v # None THEN v ELSE dayStart
    /\ UNCHANGED <<switch, errors, todo, stopping, env>>

\* start_monitoring: a no-op while the task is not done.
StartMonitoring(v) ==
    /\ ~Alive
    /\ running' = TRUE
    /\ pc' = [pc EXCEPT ![Monitor] = "idle"]
    /\ peak' = IF v # None /\ v > peak THEN v ELSE peak
    /\ dayStart' = IF v # None THEN v ELSE dayStart
    /\ UNCHANGED <<switch, errors, todo, stopping, env>>

\* The sleep of check_interval_sec ends.
Wake ==
    /\ pc[Monitor] = "asleep"
    /\ stopping # "cancelling"
    /\ pc' = [pc EXCEPT ![Monitor] = "idle"]
    /\ UNCHANGED <<switch, errors, peak, dayStart, running, todo, stopping, env>>

\* The test of the while loop fails.
LoopEnds ==
    /\ pc[Monitor] = "idle"
    /\ stopping # "cancelling"
    /\ ~running
    /\ pc' = [pc EXCEPT ![Monitor] = "off"]
    /\ UNCHANGED <<switch, errors, peak, dayStart, running, todo, stopping, env>>

\* Fault: stop() cancels the task and leaves _running alone.
StopKeepingRunning ==
    /\ stopping = "no"
    /\ Alive
    /\ stopping' = "cancelling"
    /\ UNCHANGED <<switch, errors, peak, dayStart, running, pc, todo, env>>

\* stop(): clear _running, cancel the task and wait for it.
Stop ==
    /\ stopping = "no"
    /\ running' = FALSE
    /\ stopping' = IF Alive THEN "cancelling" ELSE "no"
    /\ UNCHANGED <<switch, errors, peak, dayStart, pc, todo, env>>

\* CancelledError reaches the loop, at whichever await it is, and ends it;
\* inside a cycle safe_run sees it first and clears _running.
MonitorCancelled ==
    /\ stopping = "cancelling"
    /\ pc' = [pc EXCEPT ![Monitor] = "off"]
    /\ todo' = [todo EXCEPT ![Monitor] = 0]
    /\ running' = IF Monitor \in InFlight THEN FALSE ELSE running
    /\ stopping' = "closing"
    /\ UNCHANGED <<switch, errors, peak, dayStart, env>>

\* stop() resumes and calls BaseAgent.stop.
StopEnds ==
    /\ stopping = "closing"
    /\ running' = FALSE
    /\ stopping' = "no"
    /\ UNCHANGED <<switch, errors, peak, dayStart, pc, todo, env>>

-----------------------------------------------------------------------------
(* The operations of an operator.                                          *)

\* Fault: the reset forgets the error count.
ResetKeepingErrors ==
    /\ active
    /\ active' = FALSE /\ reason' = "none" /\ UNCHANGED trips
    /\ UNCHANGED <<errors, peak, dayStart, running, pc, todo, stopping, env>>

ResetKillSwitch ==
    /\ active
    /\ active' = FALSE /\ reason' = "none" /\ UNCHANGED trips
    /\ errors' = 0
    /\ UNCHANGED <<peak, dayStart, running, pc, todo, stopping, env>>

SetPortfolioValue(v) ==
    /\ peak' = IF v > peak THEN v ELSE peak
    /\ dayStart' = IF dayStart = 0 THEN v ELSE dayStart
    /\ UNCHANGED <<switch, errors, running, pc, todo, stopping, env>>

ResetDailyTracking(v) ==
    /\ dayStart' = v
    /\ UNCHANGED <<switch, errors, peak, running, pc, todo, stopping, env>>

\* The world changes.
World ==
    /\ api' \in {"up", "down"} /\ worth' \in Worths
    /\ UNCHANGED <<switch, errors, peak, dayStart, running, pc, todo, stopping>>

-----------------------------------------------------------------------------
\* A caller knows the portfolio's worth or does not say; the graph's state
\* says 0.0 (gateway/__main__.py:211).
Told == {None, 0, worth}

RunStep(x) ==
    \/ \E v \in Told, book \in Books \cup {None} : BeginRun(x, v, book)
    \/ \E extreme \in BOOLEAN : CandlesArrive(x, extreme)
    \/ ProbeAnswers(x)

Lifecycle ==
    \/ \E v \in {None, worth} : StartMonitoring(v)
    \/ Wake \/ LoopEnds \/ Stop \/ MonitorCancelled \/ StopEnds

Operator == ResetKillSwitch \/ SetPortfolioValue(worth) \/ ResetDailyTracking(worth)

Next ==
    \/ \E x \in Runners : RunStep(x) \/ CancelRun(x)
    \/ Lifecycle
    \/ Operator
    \/ World

Spec == Init /\ [][Next]_vars

\* The event loop resumes the monitor when its sleep is over and when the
\* exchange library answers, which it does at its own request timeout at the
\* latest; it delivers a cancellation and lets stop() finish.
FairSpec ==
    /\ Spec
    /\ WF_vars(RunStep(Monitor))
    /\ WF_vars(Wake) /\ WF_vars(LoopEnds)
    /\ WF_vars(MonitorCancelled) /\ WF_vars(StopEnds)

-----------------------------------------------------------------------------
(* Safety.                                                                 *)

\* The error count never stands at the limit with trading allowed, whichever
\* tasks did the counting and whenever the switch was reset.
ErrorsTrip == errors >= MaxErrors => active

\* The switch is on exactly when it has a reason to be.
ReasonGiven == active <=> reason # "none"

\* The switch says what the counts say, and why.
SwitchIsRight == ErrorsTrip /\ ReasonGiven

\* Tasks that were already past the first test may trip a tripped switch again
\* and overwrite its reason, but each at most once: no cycle begins while it is
\* on (risk_guardian.py:394).
BoundedTrips ==
    active => trips + Cardinality(InFlight) <= Cardinality(Runners)

\* _running promises a live monitor, through starts and stops that overlap.
RunningIsMonitored == running => Alive

\* The peak that drawdown is measured from never falls, not even at a restart.
PeakNeverFalls == [][peak' >= peak]_vars

(* Liveness.                                                               *)

\* A monitor that was told to stop ends, unless it is started again.
StopIsEffective == (~running) ~> (running \/ ~Alive)

\* While the monitor runs, an outage that lasts trips the switch, again after
\* each reset.
OutageTrips == <>[](api = "down" /\ running) => []<>active

\* The monitor does its work as long as it is asked to, and no longer.
MonitorServes == StopIsEffective /\ OutageTrips

(* Claim of the documents, which the code does not keep.                   *)

\* The monitor notices a drawdown (risk_guardian.py:22, README.md:160).
DrawdownNoticed ==
    <>[](running /\ DrawdownBreached(worth, peak)) => <>active
=============================================================================
