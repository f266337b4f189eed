--------------------------- MODULE TaskScheduler ---------------------------
(***************************************************************************)
(* TaskScheduler (utils/scheduler.py): loops that call a coroutine at an   *)
(* interval, or whenever a look at the clock, every 30 seconds, matches    *)
(* three cron fields.  The clock counts half minutes through a calendar of *)
(* MinutesPerHour, HoursPerDay and Days, and begins again.  A loop is       *)
(* resumed within half a minute of its time.  The scheduled functions are  *)
(* coroutines, as in the application, and let a CancelledError pass.       *)
(***************************************************************************)
EXTENDS Integers, Sequences, FiniteSets, SequencesExt

CONSTANTS
    Crons,           \* the tasks of schedule_cron
    Intervals,       \* the tasks of schedule_interval
    Fields,          \* Fields[t]: minute, hour and day field of a cron task
    Period,          \* Period[t]: the interval of the others, in half minutes
    MinutesPerHour, HoursPerDay, Days

Loops == Crons \cup Intervals
Moments == 2 * MinutesPerHour * HoursPerDay * Days

\* A field: any value, a step, a range, one value, or text that int() rejects.
FieldSet == [kind : {"any", "step", "range", "at", "bad"}, a : Nat, b : Nat]

ASSUME SchedulerAssumption ==
    /\ Crons \cap Intervals = {} /\ IsFiniteSet(Loops)
    /\ Fields \in [Crons -> [minute : FieldSet, hour : FieldSet, day : FieldSet]]
    /\ Period \in [Intervals -> Nat \ {0}]
    /\ {MinutesPerHour, HoursPerDay, Days} \subseteq Nat \ {0}

VARIABLES
    on,           \* _running
    listed,       \* _tasks
    loop,         \* loop[t]: where the coroutine of t is; "gone" when it has ended
    nap,          \* nap[t]: half minutes until its sleep is over
    clock,        \* half minutes since the calendar began
    stopping,     \* the position in _tasks at which stop() waits, 0 if it does not
    ran           \* history: ran[t], how often cron task t was running in this minute

schedulerVars == <<on, listed, loop, nap, clock, stopping, ran>>

Alive(t) == loop[t] \in {"created", "busy", "asleep"}

SchedulerTypeOK ==
    /\ on \in BOOLEAN
    /\ listed \in Seq(Loops)
    /\ loop \in [Loops -> {"none", "created", "busy", "asleep", "gone", "died"}]
    /\ nap \in [Loops -> Nat]
    /\ clock \in 0..(Moments - 1)
    /\ stopping \in 0..Cardinality(Loops)
    /\ ran \in [Crons -> Nat]

SchedulerInit ==
    /\ on = FALSE /\ listed = <<>> /\ stopping = 0
    /\ loop = [t \in Loops |-> "none"]
    /\ nap = [t \in Loops |-> 0]
    /\ clock = 0
    /\ ran = [t \in Crons |-> 0]

-----------------------------------------------------------------------------
(* The clock and the cron fields.                                          *)

Minute == (clock \div 2) % MinutesPerHour
Hour == (clock \div (2 * MinutesPerHour)) % HoursPerDay
Day == 1 + clock \div (2 * MinutesPerHour * HoursPerDay)

YesIf(condition) == IF condition THEN "yes" ELSE "no"

\* _match: int() raises on text, and the remainder on a step of 0.
Match(v, f) ==
    CASE f.kind = "any" -> "yes"
      [] f.kind = "step" -> IF f.a = 0 THEN "raises" ELSE YesIf(v % f.a = 0)
      [] f.kind = "range" -> YesIf(v \in f.a..f.b)
      [] f.kind = "at" -> YesIf(v = f.a)
      [] OTHER -> "raises"

\* Fault: the day alone decides.
NowMatchesDay(t) == Match(Day, Fields[t].day)

\* The fields are looked at in turn, until one does not match.
NowMatches(t) ==
    LET minute == Match(Minute, Fields[t].minute)
        hour   == Match(Hour, Fields[t].hour)
    IN  IF minute # "yes" THEN minute
        ELSE IF hour # "yes" THEN hour ELSE Match(Day, Fields[t].day)

-----------------------------------------------------------------------------
(* The loops.                                                              *)

Schedule(t) ==
    /\ loop[t] = "none"
    /\ loop' = [loop EXCEPT ![t] = "created"]
    /\ listed' = Append(listed, t)
    /\ UNCHANGED <<on, nap, clock, stopping, ran>>

Due(t) == loop[t] = "created" \/ (loop[t] = "asleep" /\ nap[t] = 0)

Leave(t, how) ==
    /\ loop' = [loop EXCEPT ![t] = how]
    /\ UNCHANGED <<on, listed, nap, clock, stopping, ran>>

Begin(t) ==
    /\ loop' = [loop EXCEPT ![t] = "busy"]
    /\ ran' = IF t \in Crons THEN [ran EXCEPT ![t] = @ + 1] ELSE ran
    /\ UNCHANGED <<on, listed, nap, clock, stopping>>

Sleep(t, duration) ==
    /\ loop' = [loop EXCEPT ![t] = "asleep"]
    /\ nap' = [nap EXCEPT ![t] = duration]

\* A loop finds that the scheduler is stopped.
LeaveLoop(t) == Due(t) /\ ~on /\ Leave(t, "gone")

IntervalTurn(t) ==
    /\ t \in Intervals
    /\ Due(t) /\ on
    /\ Begin(t)

\* The exception of a field leaves the loop: it is outside the try clause.
CronTurn(t) ==
    /\ t \in Crons
    /\ Due(t) /\ on
    /\ CASE NowMatches(t) = "raises" -> Leave(t, "died")
         [] NowMatches(t) = "yes" -> Begin(t)
         [] OTHER -> Sleep(t, 1) /\ UNCHANGED <<on, listed, clock, stopping, ran>>

Pause(t) == IF t \in Crons THEN 1 ELSE Period[t]

\* The function returns or raises, which is logged.
FunctionEnds(t, ok) ==
    /\ loop[t] = "busy"
    /\ Sleep(t, Pause(t))
    /\ UNCHANGED <<on, listed, clock, stopping, ran>>

-----------------------------------------------------------------------------
(* start() and stop().                                                     *)

StartScheduler ==
    /\ on' = TRUE
    /\ UNCHANGED <<listed, loop, nap, clock, stopping, ran>>

\* The positions of the tasks that are not done, from i on.
From(i) == {k \in i..Len(listed) : Alive(listed[k])}

\* stop() cancels the next task that is not done and waits for its end; after
\* the last one it clears the list.
WaitFor(i) ==
    IF From(i) = {}
    THEN stopping' = 0 /\ listed' = <<>>
    ELSE stopping' = Min(From(i)) /\ UNCHANGED listed

StopScheduler ==
    /\ stopping = 0
    /\ on' = FALSE
    /\ WaitFor(1)
    /\ UNCHANGED <<loop, nap, clock, ran>>

\* The cancelled task ends, wherever it was.
CancelledLoop ==
    /\ stopping # 0
    /\ Alive(listed[stopping])
    /\ Leave(listed[stopping], "gone")

StopContinues ==
    /\ stopping # 0
    /\ ~Alive(listed[stopping])
    /\ WaitFor(stopping + 1)
    /\ UNCHANGED <<on, loop, nap, clock, ran>>

\* Half a minute passes.  A function that runs on counts in the next minute.
TimePasses ==
    /\ \A t \in Loops : ~Due(t)
    /\ clock' = (clock + 1) % Moments
    /\ nap' = [t \in Loops |-> IF nap[t] > 0 THEN nap[t] - 1 ELSE 0]
    /\ ran' = IF clock % 2 = 0 THEN ran
               ELSE [t \in Crons |-> IF loop[t] = "busy" THEN 1 ELSE 0]
    /\ UNCHANGED <<on, listed, loop, stopping>>

-----------------------------------------------------------------------------
Turn(t) == LeaveLoop(t) \/ IntervalTurn(t) \/ CronTurn(t)

SchedulerNext ==
    \/ \E t \in Loops : Schedule(t) \/ Turn(t)
    \/ \E t \in Loops, ok \in BOOLEAN : FunctionEnds(t, ok)
    \/ StartScheduler \/ StopScheduler
    \/ CancelledLoop \/ StopContinues
    \/ TimePasses

SchedulerSpec == SchedulerInit /\ [][SchedulerNext]_schedulerVars

\* Time passes and the event loop resumes what is due.  Functions need not end.
SchedulerFairSpec ==
    /\ SchedulerSpec
    /\ WF_schedulerVars(TimePasses)
    /\ WF_schedulerVars(CancelledLoop) /\ WF_schedulerVars(StopContinues)
    /\ \A t \in Loops : WF_schedulerVars(Turn(t))

-----------------------------------------------------------------------------
\* A cron function begins in a matching minute only, and a minute that matches
\* does not go by without it: 30 seconds between two looks are short enough.
RunsWhenItMatches ==
    [][/\ \A t \in Crons :
             loop[t] # "busy" /\ loop'[t] = "busy" =>
                /\ Match(Minute, Fields[t].minute) = "yes"
                /\ Match(Hour, Fields[t].hour) = "yes"
                /\ Match(Day, Fields[t].day) = "yes"
       /\ clock # clock' /\ clock % 2 = 1 =>
             \A t \in Crons :
                loop[t] = "asleep" /\ NowMatches(t) = "yes" => ran[t] > 0]_schedulerVars

\* The loop does not remember that it ran (scheduler.py:126): a short function
\* may run twice in its minute, but never a third time.
AtMostTwice == \A t \in Crons : ran[t] <= 2

\* Every loop that is alive is in _tasks, where stop() finds it.
NoOrphans == \A t \in Loops : Alive(t) => \E i \in DOMAIN listed : listed[i] = t

\* When stop() has returned nothing is left running, whatever was scheduled or
\* started again while it waited.
StopEndsAll ==
    [][stopping # 0 /\ stopping' = 0 => \A t \in Loops : ~Alive(t)]_schedulerVars

\* stop() returns, however long the functions would run.
StopSchedulerReturns == stopping # 0 ~> stopping = 0

\* An interval task runs again and again, whatever its function raises and
\* whatever becomes of the cron tasks, until the scheduler is stopped.
IntervalGoesOn ==
    \A t \in Intervals :
        loop[t] \notin {"none", "gone"} /\ on
            ~> loop[t] = "busy" \/ ~on \/ stopping # 0

\* The scheduler keeps its loops in hand: none escapes stop(), none runs a third
\* time in a minute, and none runs in a minute that does not match or misses one
\* that does.
LoopsAreKept == []NoOrphans /\ []AtMostTwice /\ RunsWhenItMatches /\ StopEndsAll
=============================================================================
