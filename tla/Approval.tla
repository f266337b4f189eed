------------------------------ MODULE Approval ------------------------------
(***************************************************************************)
(* Human-in-the-loop approval: the request table of ApprovalManager        *)
(* (execution/approval.py) and the coroutine ExecutionService._handle_     *)
(* approval (execution/service.py) that creates a request and polls it.    *)
(*                                                                         *)
(* Everything runs on one asyncio event loop, so a step is what happens    *)
(* between two awaits.  create_request does not suspend: creation and the  *)
(* first poll are one step.  Time is the age of a request: Tick lets one   *)
(* second pass, and because a busy loop wakes sleepers late, any number of *)
(* ticks may pass before a sleeper that is due is resumed.  Ages stop at   *)
(* Timeout + 1, after which is_expired stays true, so the clock needs no   *)
(* bound of its own.                                                       *)
(***************************************************************************)
EXTENDS Integers

CONSTANTS
    Requests,        \* the trades that go through execute(), one request each
    Timeout,         \* timeout_sec: both the request's and the caller's limit
    CheckInterval,   \* seconds the caller sleeps between two polls
    Sweeper          \* TRUE when something calls check_expired

ASSUME ApprovalAssumption ==
    /\ Timeout \in Nat
    /\ CheckInterval \in Nat \ {0}
    /\ Sweeper \in BOOLEAN

VARIABLES
    dryRun,      \* execution.dry_run, which is auto_approve_dry_run too: read once
    status,      \* status[r]: ApprovalRequest.status, "none" before creation
    pending,     \* the keys of ApprovalManager._pending
    age,         \* age[r]: seconds since created_at, at most Timeout + 1
    answeredAt,  \* answeredAt[r]: the age at which responded_at was set
    caller,      \* caller[r]: where the coroutine that asked for r is
    waited,      \* waited[r]: the caller's own count of seconds slept
    nap          \* nap[r]: seconds left of the sleep the caller is in

vars == <<dryRun, status, pending, age, answeredAt, caller, waited, nap>>

Verdicts == {"approved", "rejected", "expired"}
Returned == {"granted", "refused", "timed_out", "cancelled"}

TypeOK ==
    /\ dryRun \in BOOLEAN
    /\ status \in [Requests -> {"none", "pending"} \cup Verdicts]
    /\ pending \in SUBSET Requests
    /\ age \in [Requests -> 0..(Timeout + 1)]
    /\ answeredAt \in [Requests -> 0..(Timeout + 1)]
    /\ caller \in [Requests -> {"idle", "sleeping"} \cup Returned]
    /\ waited \in [Requests -> Nat]
    /\ nap \in [Requests -> 0..CheckInterval]

Init ==
    /\ dryRun \in BOOLEAN
    /\ status = [r \in Requests |-> "none"]
    /\ pending = {}
    /\ age = [r \in Requests |-> 0]
    /\ answeredAt = [r \in Requests |-> 0]
    /\ caller = [r \in Requests |-> "idle"]
    /\ waited = [r \in Requests |-> 0]
    /\ nap = [r \in Requests |-> 0]

-----------------------------------------------------------------------------
(* The request.                                                            *)

IsExpired(r) == age[r] > Timeout

\* Fault: is_active forgets the age.
IsActiveAtAnyAge(r) == status[r] = "pending"

IsActive(r) == status[r] = "pending" /\ ~IsExpired(r)

(* The caller, ExecutionService._handle_approval.                          *)

\* A dry run returns True at once and creates no request.
AutoApprove(r) ==
    /\ dryRun
    /\ caller[r] = "idle"
    /\ caller' = [caller EXCEPT ![r] = "granted"]
    /\ UNCHANGED <<dryRun, status, pending, age, answeredAt, waited, nap>>

\* create_request and the first poll, which finds the request pending; with
\* a zero timeout the loop is not entered at all.
Ask(r) ==
    /\ ~dryRun
    /\ caller[r] = "idle"
    /\ status' = [status EXCEPT ![r] = "pending"]
    /\ pending' = pending \cup {r}
    /\ caller' = [caller EXCEPT ![r] = IF Timeout > 0 THEN "sleeping" ELSE "timed_out"]
    /\ nap' = [nap EXCEPT ![r] = IF Timeout > 0 THEN CheckInterval ELSE 0]
    /\ UNCHANGED <<dryRun, age, answeredAt, waited>>

\* Fault: any answer counts as consent.
PollResultAnyAnswer(s) == IF s = "pending" THEN "sleeping" ELSE "granted"

\* What a poll makes of the status it reads.
PollResult(s) ==
    CASE s = "approved" -> "granted"
      [] s \in {"rejected", "expired"} -> "refused"
      [] OTHER -> "sleeping"

\* Fault: each sleep is counted twice.
WakeTwiceCounted(r) ==
    /\ caller[r] = "sleeping"
    /\ nap[r] = 0
    /\ LET total == waited[r] + 2 * CheckInterval
           next  == IF total < Timeout THEN PollResult(status[r]) ELSE "timed_out"
       IN  /\ waited' = [waited EXCEPT ![r] = total]
           /\ caller' = [caller EXCEPT ![r] = next]
           /\ nap' = [nap EXCEPT ![r] = IF next = "sleeping" THEN CheckInterval ELSE 0]
    /\ UNCHANGED <<dryRun, status, pending, age, answeredAt>>

\* Fault: get_request looks in _pending only, where an answer is never found.
WakeWithoutHistory(r) ==
    /\ caller[r] = "sleeping"
    /\ nap[r] = 0
    /\ LET total == waited[r] + CheckInterval
           next  == IF total < Timeout /\ r \in pending THEN "sleeping" ELSE "timed_out"
       IN  /\ waited' = [waited EXCEPT ![r] = total]
           /\ caller' = [caller EXCEPT ![r] = next]
           /\ nap' = [nap EXCEPT ![r] = IF next = "sleeping" THEN CheckInterval ELSE 0]
    /\ UNCHANGED <<dryRun, status, pending, age, answeredAt>>

\* Fault: the loop polls for as long as the request is unanswered.
WakeWithoutLimit(r) ==
    /\ caller[r] = "sleeping"
    /\ nap[r] = 0
    /\ LET next == PollResult(status[r])
       IN  /\ waited' = [waited EXCEPT ![r] = (@ + CheckInterval) % (Timeout + 1)]
           /\ caller' = [caller EXCEPT ![r] = next]
           /\ nap' = [nap EXCEPT ![r] = IF next = "sleeping" THEN CheckInterval ELSE 0]
    /\ UNCHANGED <<dryRun, status, pending, age, answeredAt>>

\* The sleep is over: count it, and poll again only while waited < max_wait.
Wake(r) ==
    /\ caller[r] = "sleeping"
    /\ nap[r] = 0
    /\ LET total == waited[r] + CheckInterval
           next  == IF total < Timeout THEN PollResult(status[r]) ELSE "timed_out"
       IN  /\ waited' = [waited EXCEPT ![r] = total]
           /\ caller' = [caller EXCEPT ![r] = next]
           /\ nap' = [nap EXCEPT ![r] = IF next = "sleeping" THEN CheckInterval ELSE 0]
    /\ UNCHANGED <<dryRun, status, pending, age, answeredAt>>

\* The task that runs execute() is cancelled in its sleep (scheduler.stop):
\* CancelledError leaves the coroutine and the request stays in the table.
CancelCaller(r) ==
    /\ caller[r] = "sleeping"
    /\ caller' = [caller EXCEPT ![r] = "cancelled"]
    /\ nap' = [nap EXCEPT ![r] = 0]
    /\ UNCHANGED <<dryRun, status, pending, age, answeredAt, waited>>

-----------------------------------------------------------------------------
(* The manager's operations.                                               *)

\* Fault: the answered request stays in the table.
RespondKeepingPending(r, v) ==
    /\ r \in pending
    /\ IsActive(r)
    /\ status' = [status EXCEPT ![r] = v]
    /\ answeredAt' = [answeredAt EXCEPT ![r] = age[r]]
    /\ UNCHANGED <<dryRun, pending, age, caller, waited, nap>>

\* Fault: the request is looked up in the history, whatever its status.
RespondFromHistory(r, v) ==
    /\ status[r] # "none"
    /\ ~IsExpired(r)
    /\ status' = [status EXCEPT ![r] = v]
    /\ answeredAt' = [answeredAt EXCEPT ![r] = age[r]]
    /\ pending' = pending \ {r}
    /\ UNCHANGED <<dryRun, age, caller, waited, nap>>

\* approve and reject: look the request up in _pending, refuse it unless it
\* is active, set the verdict, drop it from the table.
Respond(r, v) ==
    /\ r \in pending
    /\ IsActive(r)
    /\ status' = [status EXCEPT ![r] = v]
    /\ answeredAt' = [answeredAt EXCEPT ![r] = age[r]]
    /\ pending' = pending \ {r}
    /\ UNCHANGED <<dryRun, age, caller, waited, nap>>

Approve(r) == Respond(r, "approved")

Reject(r) == Respond(r, "rejected")

Overdue == {r \in pending : IsExpired(r)}

\* check_expired expires every overdue request of the table in one call.
\* Nothing in the repository calls it, so no fairness is assumed of it.
CheckExpired ==
    /\ Sweeper
    /\ Overdue # {}
    /\ status' = [r \in Requests |-> IF r \in Overdue THEN "expired" ELSE status[r]]
    /\ answeredAt' = [r \in Requests |-> IF r \in Overdue THEN age[r] ELSE answeredAt[r]]
    /\ pending' = pending \ Overdue
    /\ UNCHANGED <<dryRun, age, caller, waited, nap>>

\* One second passes for every request that exists.
Tick ==
    /\ age' = [r \in Requests |->
                  IF status[r] # "none" /\ age[r] <= Timeout THEN age[r] + 1 ELSE age[r]]
    /\ nap' = [r \in Requests |-> IF nap[r] > 0 THEN nap[r] - 1 ELSE 0]
    /\ UNCHANGED <<dryRun, status, pending, answeredAt, caller, waited>>

-----------------------------------------------------------------------------
Handle(r) == AutoApprove(r) \/ Ask(r) \/ Wake(r) \/ CancelCaller(r)

Next ==
    \/ \E r \in Requests : Handle(r) \/ Approve(r) \/ Reject(r)
    \/ CheckExpired
    \/ Tick

Spec == Init /\ [][Next]_vars

\* Time passes and the event loop resumes a sleeper that is due.  Nobody has
\* to ask, to answer, to cancel or to sweep.
FairSpec ==
    /\ Spec
    /\ WF_vars(Tick)
    /\ \A r \in Requests : WF_vars(Wake(r))

-----------------------------------------------------------------------------
(* Safety.                                                                 *)

\* A trade goes ahead only on an approval given while the request was alive
\* (service.py:321 reads a status that approve() set under is_active).
GrantedOnlyIfApproved ==
    \A r \in Requests :
        caller[r] = "granted" /\ ~dryRun
            => status[r] = "approved" /\ answeredAt[r] <= Timeout

\* The table holds exactly the requests still waiting for a verdict: no
\* answered request can be answered again, none is lost before its answer.
PendingIsUnanswered == pending = {r \in Requests : status[r] = "pending"}

\* The caller gives up only after the full timeout has really elapsed, though
\* it counts its sleeps and never reads the clock.
NeverGivesUpEarly ==
    \A r \in Requests : caller[r] = "timed_out" => age[r] >= Timeout

\* A verdict is final: approve, reject and check_expired never overwrite it.
VerdictFinal ==
    [][\A r \in Requests : status[r] \in Verdicts => status'[r] = status[r]]_vars

(* Liveness.                                                               *)

\* Every call of _handle_approval returns, whether or not somebody answers: the
\* loop of service.py:316 is bounded by the caller's own count.
CallerReturns ==
    \A r \in Requests : caller[r] = "sleeping" ~> caller[r] \in Returned

\* An approval that a poll still follows is not lost.
HonouredIfPolled ==
    \A r \in Requests :
        (/\ status[r] = "approved"
         /\ caller[r] = "sleeping"
         /\ waited[r] + CheckInterval < Timeout)
            ~> caller[r] \in {"granted", "cancelled"}

(* A claim of the documents, which the code does not keep.                 *)

\* An approved request is executed (service.py:280, "True if approved").
ApprovalHonoured ==
    \A r \in Requests : ~(status[r] = "approved" /\ caller[r] = "timed_out")

-----------------------------------------------------------------------------
(* Refinement.                                                             *)

OutcomeOf(c) ==
    CASE c = "idle" -> "idle"
      [] c = "sleeping" -> "waiting"
      [] c = "granted" -> "go"
      [] OTHER -> "stop"

VerdictOf(s) == IF s = "pending" THEN "open" ELSE s

Gate == INSTANCE ApprovalGate WITH
            dry <- dryRun,
            verdict <- [r \in Requests |-> VerdictOf(status[r])],
            outcome <- [r \in Requests |-> OutcomeOf(caller[r])]

GateSpec == Gate!GateSpec
=============================================================================
