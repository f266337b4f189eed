----------------------------- MODULE Delegation -----------------------------
(***************************************************************************)
(* DelegationManager (agents/delegation.py): one agent asks another to do  *)
(* a task, over a permission link, within a limit of delegations at a time *)
(* and within a time limit.  An asynchronous executor suspends delegate(); *)
(* until it ends, the call holds a slot of the target agent.  Executors    *)
(* may delegate in turn, which is one more call here.  mode and direction  *)
(* are recorded by the code and decide nothing.                            *)
(***************************************************************************)
EXTENDS Integers, FiniteSets

CONSTANTS
    Agents,       \* the agents
    Jobs,         \* task names
    Routes,       \* the pairs of agents that may be linked
    Rights,       \* max_concurrent and allowed_tasks of the links considered
    Calls,        \* the calls of delegate() considered
    NoLink        \* no permission

ASSUME DelegationAssumption ==
    /\ Routes \subseteq Agents \X Agents /\ Routes # {}
    /\ Rights \subseteq [limit : Nat, jobs : SUBSET Jobs]
    /\ NoLink \notin Rights
    /\ IsFiniteSet(Calls)

VARIABLES
    links,        \* _permissions
    slots,        \* _agent_concurrency
    underway,     \* the calls in _active
    outcome,      \* outcome[c]: status in _history, "new" before the call
    route,        \* route[c]: from_agent and to_agent
    answer        \* answer[c]: what the caller got, "none" so far, or "cancelled"

delegationVars == <<links, slots, underway, outcome, route, answer>>

AnyRoute == CHOOSE r \in Routes : TRUE
Target(c) == route[c][2]
On(r) == {c \in underway : route[c] = r}

DelegationTypeOK ==
    /\ links \in [Routes -> Rights \cup {NoLink}]
    /\ slots \in [Agents -> 0..Cardinality(Calls)]
    /\ underway \subseteq Calls
    /\ outcome \in [Calls -> {"new", "in_progress", "completed", "failed"}]
    /\ route \in [Calls -> Routes]
    /\ answer \in [Calls -> {"none", "success", "failure", "refused", "cancelled"}]

DelegationInit ==
    /\ links = [r \in Routes |-> NoLink]
    /\ slots = [a \in Agents |-> 0]
    /\ underway = {}
    /\ outcome = [c \in Calls |-> "new"]
    /\ route = [c \in Calls |-> AnyRoute]
    /\ answer = [c \in Calls |-> "none"]

-----------------------------------------------------------------------------
\* A link replaces the one of the same two agents, whatever is under way on it.
AddPermission(r, right) ==
    /\ links' = [links EXCEPT ![r] = right]
    /\ UNCHANGED <<slots, underway, outcome, route, answer>>

RemovePermission(r) ==
    /\ links[r] # NoLink
    /\ links' = [links EXCEPT ![r] = NoLink]
    /\ UNCHANGED <<slots, underway, outcome, route, answer>>

\* Fault: the slots of the agent that asks are counted.
ActiveCountOfSource(r) == slots[r[1]]

\* The count that delegate() compares with the limit.
ActiveCount(r) == slots[r[2]]

CanDelegate(r, job) ==
    /\ links[r] # NoLink
    /\ ActiveCount(r) < links[r].limit
    /\ links[r].jobs = {} \/ job \in links[r].jobs

Idle(c) == outcome[c] = "new" /\ answer[c] = "none"

Refuse(c, r, job) ==
    /\ Idle(c)
    /\ ~CanDelegate(r, job)
    /\ answer' = [answer EXCEPT ![c] = "refused"]
    /\ UNCHANGED <<links, slots, underway, outcome, route>>

\* The request is registered, takes a slot and suspends in its executor.
Delegate(c, r, job) ==
    /\ Idle(c)
    /\ CanDelegate(r, job)
    /\ underway' = underway \cup {c}
    /\ outcome' = [outcome EXCEPT ![c] = "in_progress"]
    /\ slots' = [slots EXCEPT ![r[2]] = @ + 1]
    /\ route' = [route EXCEPT ![c] = r]
    /\ UNCHANGED <<links, answer>>

\* With a plain function, or none, the call ends before anything else happens.
DelegateAtOnce(c, r, job, ok) ==
    /\ Idle(c)
    /\ CanDelegate(r, job)
    /\ outcome' = [outcome EXCEPT ![c] = IF ok THEN "completed" ELSE "failed"]
    /\ answer' = [answer EXCEPT ![c] = IF ok THEN "success" ELSE "failure"]
    /\ route' = [route EXCEPT ![c] = r]
    /\ UNCHANGED <<links, slots, underway>>

\* Fault: the request stays registered, so that it can end again.
ReleaseSlotOnly(c) ==
    /\ slots' = [slots EXCEPT ![Target(c)] = @ - 1]
    /\ UNCHANGED underway

\* The finally clause.
ReleaseSlot(c) ==
    /\ underway' = underway \ {c}
    /\ slots' = [slots EXCEPT ![Target(c)] = IF @ > 0 THEN @ - 1 ELSE 0]

\* The executor returns or raises.
ExecutorEnds(c, ok) ==
    /\ c \in underway
    /\ outcome' = [outcome EXCEPT ![c] = IF ok THEN "completed" ELSE "failed"]
    /\ answer' = [answer EXCEPT ![c] = IF ok THEN "success" ELSE "failure"]
    /\ ReleaseSlot(c)
    /\ UNCHANGED <<links, route>>

\* wait_for cancels the executor.
TimeOut(c) ==
    /\ c \in underway
    /\ outcome' = [outcome EXCEPT ![c] = "failed"]
    /\ answer' = [answer EXCEPT ![c] = "failure"]
    /\ ReleaseSlot(c)
    /\ UNCHANGED <<links, route>>

\* The caller is cancelled: CancelledError passes every except clause, so the
\* slot is released and the history keeps "in_progress".
CancelDelegation(c) ==
    /\ c \in underway
    /\ answer' = [answer EXCEPT ![c] = "cancelled"]
    /\ ReleaseSlot(c)
    /\ UNCHANGED <<links, outcome, route>>

-----------------------------------------------------------------------------
DelegationNext ==
    \/ \E r \in Routes :
        \/ \E right \in Rights : AddPermission(r, right)
        \/ RemovePermission(r)
    \/ \E c \in Calls, r \in Routes, job \in Jobs :
        \/ Refuse(c, r, job)
        \/ Delegate(c, r, job)
        \/ \E ok \in BOOLEAN : DelegateAtOnce(c, r, job, ok)
    \/ \E c \in Calls :
        \/ \E ok \in BOOLEAN : ExecutorEnds(c, ok)
        \/ TimeOut(c)
        \/ CancelDelegation(c)

DelegationSpec == DelegationInit /\ [][DelegationNext]_delegationVars

\* The event loop wakes wait_for when the time is up.
DelegationFairSpec == DelegationSpec /\ \A c \in Calls : WF_delegationVars(TimeOut(c))

-----------------------------------------------------------------------------
\* A slot is taken exactly while a call to that agent is under way, however
\* the call ends (delegation.py:262): none leaks, none is given back twice.
SlotsAreHeld ==
    \A a \in Agents : slots[a] = Cardinality({c \in underway : Target(c) = a})

\* A delegation over a link begins only if no more than max_concurrent are then
\* under way on that link (delegation.py:95), although the code counts those
\* of the target over all links, and links are replaced at any time.
LinkLimitKept ==
    [][\A r \in Routes :
        Cardinality(On(r)') > Cardinality(On(r))
            => links[r] # NoLink /\ Cardinality(On(r)') <= links[r].limit]_delegationVars

\* The history and the callers agree: whoever has an answer finds it there, and
\* "in_progress" is true unless the caller was cancelled.
HistoryIsTrue ==
    \A c \in Calls :
        /\ answer[c] = "success" <=> outcome[c] = "completed"
        /\ answer[c] = "failure" <=> outcome[c] = "failed"
        /\ outcome[c] = "in_progress" <=> c \in underway \/ answer[c] = "cancelled"

\* A delegation ends, even if its executor never does.
DelegationEnds == \A c \in Calls : c \in underway ~> c \notin underway

\* The accounts of the delegations, as the limits rely on them: slots and history
\* are true at all times, and no delegation begins beyond the limit of its link.
LimitsAreKept == []SlotsAreHeld /\ []HistoryIsTrue /\ LinkLimitKept
=============================================================================
