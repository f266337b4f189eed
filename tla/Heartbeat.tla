----------------------------- MODULE Heartbeat -----------------------------
(***************************************************************************)
(* HeartbeatManager (agents/heartbeat.py): agents report the results of    *)
(* their checks; an unhealthy report is counted and told to the callbacks, *)
(* one after the other, while other reports come in.  max_consecutive      *)
(* failures and the bounds of the history are parameters.  The staleness   *)
(* of a status, a matter of its age alone, is left out.                    *)
(***************************************************************************)
EXTENDS Naturals, Sequences, FiniteSets, SequencesExt

CONSTANTS
    Members,        \* the agents
    Reports,        \* the calls of generate_report() considered
    MaxFailures,    \* max_consecutive_failures
    MaxReports,     \* the length beyond which the history is cut (1000)
    KeptReports,    \* what is left of it then (500)
    MaxCallbacks    \* bound: callbacks that are registered

ASSUME HeartbeatAssumption ==
    /\ {MaxFailures, KeptReports, MaxCallbacks} \subseteq Nat
    /\ MaxReports \in Nat /\ KeptReports <= MaxReports
    /\ Members # {}

VARIABLES
    failures,       \* _consecutive_failures
    history,        \* _history
    callbacks,      \* the number of _callbacks
    report,         \* report[c]: the call c of generate_report
    since,          \* history: since[m], the reports of m after its registration
    told            \* history: told[c], the callbacks that c has called

heartbeatVars == <<failures, history, callbacks, report, since, told>>

Steps == {"none", "alerting", "done", "critical", "cancelled"}
Report == [agent : Members, healthy : BOOLEAN]

HeartbeatTypeOK ==
    /\ failures \in [Members -> Nat]
    /\ history \in Seq(Report)
    /\ callbacks \in 0..MaxCallbacks
    /\ report \in [Reports -> [step : Steps, agent : Members, next : 1..(MaxCallbacks + 1),
                           due : 0..MaxCallbacks, count : Nat]]
    /\ since \in [Members -> Seq(BOOLEAN)]
    /\ told \in [Reports -> SUBSET (1..MaxCallbacks)]

HeartbeatInit ==
    /\ failures = [m \in Members |-> 0]
    /\ history = <<>>
    /\ callbacks = 0
    /\ report \in [Reports -> {[step |-> "none", agent |-> m, next |-> 1, due |-> 0, count |-> 0] :
                               m \in {CHOOSE m \in Members : TRUE}}]
    /\ since = [m \in Members |-> <<>>]
    /\ told = [c \in Reports |-> {}]

-----------------------------------------------------------------------------
\* An agent may be registered again, which forgets its failures.
RegisterAgent(m) ==
    /\ failures' = [failures EXCEPT ![m] = 0]
    /\ since' = [since EXCEPT ![m] = <<>>]
    /\ UNCHANGED <<history, callbacks, report, told>>

AddCallback ==
    /\ callbacks < MaxCallbacks
    /\ callbacks' = callbacks + 1
    /\ UNCHANGED <<failures, history, report, since, told>>

\* HeartbeatReport.__post_init__: without checks a report is healthy.
Healthy(checks) == \A passed \in checks : passed

Counted(m, healthy) == IF healthy THEN 0 ELSE failures[m] + 1

Keep(s) == IF Len(s) > MaxReports THEN SubSeq(s, Len(s) - KeptReports + 1, Len(s)) ELSE s

\* generate_report() up to the first await.
GenerateReport(c, m, checks) ==
    /\ report[c].step = "none"
    /\ LET healthy == Healthy(checks)
       IN  /\ failures' = [failures EXCEPT ![m] = Counted(m, healthy)]
           /\ history' = Keep(Append(history, [agent |-> m, healthy |-> healthy]))
           /\ since' = [since EXCEPT ![m] = Append(@, healthy)]
           /\ report' = [report EXCEPT ![c] =
                [step |-> IF healthy THEN "done" ELSE "alerting",
                 agent |-> m, next |-> 1, due |-> callbacks, count |-> failures'[m]]]
    /\ UNCHANGED <<callbacks, told>>

\* A callback returns or raises, which is logged, and the next one is called.
\* One that is added meanwhile gets its turn: the loop is over the live list.
Callback(c, ok) ==
    /\ report[c].step = "alerting" /\ report[c].next <= callbacks
    /\ told' = [told EXCEPT ![c] = @ \cup {report[c].next}]
    /\ report' = [report EXCEPT ![c].next = @ + 1]
    /\ UNCHANGED <<failures, history, callbacks, since>>

\* Fault: what has become of the counter meanwhile is judged.
IsCriticalNow(c) == failures[report[c].agent] >= MaxFailures

\* The counter was read before the callbacks.
IsCritical(c) == report[c].count >= MaxFailures

AlertsDone(c) ==
    /\ report[c].step = "alerting" /\ report[c].next > callbacks
    /\ report' = [report EXCEPT ![c].step = IF IsCritical(c) THEN "critical" ELSE "done"]
    /\ UNCHANGED <<failures, history, callbacks, since, told>>

\* The caller is cancelled while a callback is awaited.
CancelReport(c) ==
    /\ report[c].step = "alerting" /\ report[c].next <= callbacks
    /\ report' = [report EXCEPT ![c].step = "cancelled"]
    /\ UNCHANGED <<failures, history, callbacks, since, told>>

\* get_agent_status().
HealthyStatus(m) == failures[m] = 0

-----------------------------------------------------------------------------
HeartbeatNext ==
    \/ \E m \in Members : RegisterAgent(m)
    \/ AddCallback
    \/ \E c \in Reports :
        \/ \E m \in Members, checks \in SUBSET BOOLEAN : GenerateReport(c, m, checks)
        \/ \E ok \in BOOLEAN : Callback(c, ok)
        \/ AlertsDone(c) \/ CancelReport(c)

HeartbeatSpec == HeartbeatInit /\ [][HeartbeatNext]_heartbeatVars

\* The callbacks return.
HeartbeatFairSpec ==
    /\ HeartbeatSpec
    /\ \A c \in Reports :
        WF_heartbeatVars(AlertsDone(c) \/ \E ok \in BOOLEAN : Callback(c, ok))

-----------------------------------------------------------------------------
\* The unhealthy reports at the end of a sequence.
InARow(s) == CHOOSE n \in 0..Len(s) :
    /\ \A k \in (Len(s) - n + 1)..Len(s) : ~s[k]
    /\ n = Len(s) \/ s[Len(s) - n]

\* An agent is shown as healthy exactly if its last report was, or if there is
\* none since its registration.
StatusIsTrue ==
    \A m \in Members : HealthyStatus(m) <=> since[m] = <<>> \/ Last(since[m])

\* The places of a history, from i on, that hold reports of the same agent.
Later(h, i) == {j \in i..Len(h) : h[j].agent = h[i].agent}

\* The history keeps the latest reports of every agent, in their order, and
\* stays within its bound.
ReportsAreRecent ==
    /\ Len(history) <= MaxReports
    /\ \A i \in DOMAIN history :
        LET own  == since[history[i].agent]
            rank == Cardinality(Later(history, i))
        IN  rank <= Len(own) => history[i].healthy = own[Len(own) + 1 - rank]

\* An unhealthy report is critical if it was the MaxFailures-th in a row when it
\* was made, whatever was reported while its callbacks ran.
CriticalWhenDue ==
    [][\A c \in Reports :
        /\ report[c].step = "none" /\ report'[c].step = "alerting"
             => report'[c].count = InARow(since'[report'[c].agent])
        /\ report[c].step = "alerting" /\ report'[c].step \in {"done", "critical"}
             => (report'[c].step = "critical" <=> report[c].count >= MaxFailures)]_heartbeatVars

\* Every callback that was there hears of an unhealthy report, even after one
\* that raised, unless the caller is cancelled.
EveryCallbackHears ==
    \A c \in Reports :
        report[c].step = "alerting"
            ~> \/ report[c].step = "cancelled"
               \/ report[c].step # "alerting" /\ 1..report[c].due \subseteq told[c]

\* What is told of an agent is true: its status, its history, and whether a
\* failed check was the one too many.
HealthIsTrue == []StatusIsTrue /\ []ReportsAreRecent /\ CriticalWhenDue
=============================================================================
