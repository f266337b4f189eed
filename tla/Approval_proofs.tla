-------------------------- MODULE Approval_proofs --------------------------
(***************************************************************************)
(* Proofs about Approval, for any set of trades, any timeout, any poll     *)
(* interval, dry run or not, with or without a sweeper.                    *)
(***************************************************************************)
EXTENDS Approval, TLAPS

(* The inductive invariant.  A caller's place tells what is in the table:  *)
(* a call that has not begun left no trace, and one that is under way in   *)
(* earnest has a request, whose age is at least the time the caller can    *)
(* account for.                                                            *)

IdleLeavesNoTrace ==
    \A r \in Requests :
        caller[r] = "idle" => status[r] = "none" /\ age[r] = 0 /\ waited[r] = 0

AskedHasRequest ==
    \A r \in Requests :
        caller[r] \in {"sleeping", "timed_out"} => status[r] # "none"

SleepIsElapsed ==
    \A r \in Requests :
        caller[r] = "sleeping"
            => age[r] >= Timeout \/ waited[r] + CheckInterval - nap[r] <= age[r]

ApprovedInTime ==
    \A r \in Requests : status[r] = "approved" => answeredAt[r] <= Timeout

IInv ==
    /\ TypeOK
    /\ PendingIsUnanswered
    /\ IdleLeavesNoTrace
    /\ AskedHasRequest
    /\ SleepIsElapsed
    /\ ApprovedInTime
    /\ GrantedOnlyIfApproved
    /\ NeverGivesUpEarly

-----------------------------------------------------------------------------
LEMMA InitIInv == Init => IInv
  BY ApprovalAssumption
  DEF Init, IInv, TypeOK, PendingIsUnanswered, IdleLeavesNoTrace,
      AskedHasRequest, SleepIsElapsed, ApprovedInTime, GrantedOnlyIfApproved,
      NeverGivesUpEarly

\* A dry run's grant touches nothing but the caller.
LEMMA AutoApproveIInv ==
    ASSUME IInv, NEW r \in Requests, AutoApprove(r)
    PROVE  IInv'
  BY DEF IInv, TypeOK, PendingIsUnanswered, IdleLeavesNoTrace, AskedHasRequest,
         SleepIsElapsed, ApprovedInTime, GrantedOnlyIfApproved,
         NeverGivesUpEarly, AutoApprove, Returned

LEMMA AskIInv ==
    ASSUME IInv, NEW r \in Requests, Ask(r)
    PROVE  IInv'
  <1> USE ApprovalAssumption DEF IInv, TypeOK, Ask, Returned, Verdicts
  <1>1. TypeOK'
    OBVIOUS
  <1>2. PendingIsUnanswered' /\ IdleLeavesNoTrace' /\ AskedHasRequest'
    BY DEF PendingIsUnanswered, IdleLeavesNoTrace, AskedHasRequest
  <1>3. SleepIsElapsed' /\ NeverGivesUpEarly'
    BY DEF SleepIsElapsed, NeverGivesUpEarly, IdleLeavesNoTrace
  <1>4. ApprovedInTime' /\ GrantedOnlyIfApproved'
    BY DEF ApprovedInTime, GrantedOnlyIfApproved
  <1>5. QED
    BY <1>1, <1>2, <1>3, <1>4

LEMMA WakeIInv ==
    ASSUME IInv, NEW r \in Requests, Wake(r)
    PROVE  IInv'
  <1> DEFINE total == waited[r] + CheckInterval
             next  == IF total < Timeout THEN PollResult(status[r]) ELSE "timed_out"
  <1> USE ApprovalAssumption DEF IInv
  <1>1. /\ caller[r] = "sleeping" /\ nap[r] = 0
        /\ waited' = [waited EXCEPT ![r] = total]
        /\ caller' = [caller EXCEPT ![r] = next]
        /\ nap' = [nap EXCEPT ![r] = IF next = "sleeping" THEN CheckInterval ELSE 0]
        /\ UNCHANGED <<dryRun, status, pending, age, answeredAt>>
    BY DEF Wake
  <1>2. next \in {"granted", "refused", "sleeping", "timed_out"}
    BY DEF PollResult
  <1>3. next = "granted" => status[r] = "approved"
    BY DEF PollResult
  <1>4. next = "timed_out" => total >= Timeout
    BY DEF PollResult, TypeOK
  <1> HIDE DEF next
  <1>5. TypeOK'
    BY <1>1, <1>2 DEF TypeOK, Returned, Verdicts
  <1>6. PendingIsUnanswered' /\ IdleLeavesNoTrace' /\ AskedHasRequest'
    BY <1>1, <1>2 DEF TypeOK, PendingIsUnanswered, IdleLeavesNoTrace, AskedHasRequest
  <1>7. SleepIsElapsed' /\ NeverGivesUpEarly'
    <2>1. age[r] >= Timeout \/ total <= age[r]
      BY <1>1 DEF SleepIsElapsed, TypeOK
    <2>2. SleepIsElapsed'
      BY <1>1, <2>1 DEF SleepIsElapsed, TypeOK
    <2>3. NeverGivesUpEarly'
      BY <1>1, <1>4, <2>1 DEF NeverGivesUpEarly, TypeOK
    <2>4. QED
      BY <2>2, <2>3
  <1>8. ApprovedInTime' /\ GrantedOnlyIfApproved'
    BY <1>1, <1>3 DEF ApprovedInTime, GrantedOnlyIfApproved, TypeOK
  <1>9. QED
    BY <1>5, <1>6, <1>7, <1>8

LEMMA CancelCallerIInv ==
    ASSUME IInv, NEW r \in Requests, CancelCaller(r)
    PROVE  IInv'
  BY ApprovalAssumption
  DEF IInv, TypeOK, PendingIsUnanswered, IdleLeavesNoTrace, AskedHasRequest,
      SleepIsElapsed, ApprovedInTime, GrantedOnlyIfApproved,
      NeverGivesUpEarly, CancelCaller, Returned

\* approve and reject differ only in the verdict they write.
LEMMA RespondIInv ==
    ASSUME IInv, NEW r \in Requests, NEW v \in {"approved", "rejected"}, Respond(r, v)
    PROVE  IInv'
  <1> USE ApprovalAssumption DEF IInv, TypeOK, Respond, IsActive, IsExpired, Verdicts
  <1>1. TypeOK'
    BY DEF Returned
  <1>2. PendingIsUnanswered' /\ IdleLeavesNoTrace' /\ AskedHasRequest'
    BY DEF PendingIsUnanswered, IdleLeavesNoTrace, AskedHasRequest
  <1>3. SleepIsElapsed' /\ NeverGivesUpEarly'
    BY DEF SleepIsElapsed, NeverGivesUpEarly
  <1>4. ApprovedInTime'
    BY DEF ApprovedInTime
  <1>5. GrantedOnlyIfApproved'
    BY DEF GrantedOnlyIfApproved
  <1>6. QED
    BY <1>1, <1>2, <1>3, <1>4, <1>5

LEMMA CheckExpiredIInv ==
    ASSUME IInv, CheckExpired
    PROVE  IInv'
  <1> USE ApprovalAssumption DEF IInv, TypeOK, CheckExpired, Overdue, IsExpired, Verdicts
  <1>1. TypeOK'
    BY DEF Returned
  <1>2. PendingIsUnanswered' /\ IdleLeavesNoTrace' /\ AskedHasRequest'
    BY DEF PendingIsUnanswered, IdleLeavesNoTrace, AskedHasRequest
  <1>3. SleepIsElapsed' /\ NeverGivesUpEarly'
    BY DEF SleepIsElapsed, NeverGivesUpEarly
  <1>4. ApprovedInTime' /\ GrantedOnlyIfApproved'
    BY DEF ApprovedInTime, GrantedOnlyIfApproved, PendingIsUnanswered
  <1>5. QED
    BY <1>1, <1>2, <1>3, <1>4

LEMMA TickIInv ==
    ASSUME IInv, Tick
    PROVE  IInv'
  <1> USE ApprovalAssumption DEF IInv, TypeOK, Tick
  <1>1. TypeOK'
    OBVIOUS
  <1>2. PendingIsUnanswered' /\ IdleLeavesNoTrace' /\ AskedHasRequest'
    BY DEF PendingIsUnanswered, IdleLeavesNoTrace, AskedHasRequest
  <1>3. SleepIsElapsed' /\ NeverGivesUpEarly'
    BY DEF SleepIsElapsed, NeverGivesUpEarly, AskedHasRequest
  <1>4. ApprovedInTime' /\ GrantedOnlyIfApproved'
    BY DEF ApprovedInTime, GrantedOnlyIfApproved
  <1>5. QED
    BY <1>1, <1>2, <1>3, <1>4

LEMMA NextIInv == IInv /\ [Next]_vars => IInv'
  <1> SUFFICES ASSUME IInv, [Next]_vars
               PROVE  IInv'
    OBVIOUS
  <1>1. ASSUME NEW r \in Requests, Handle(r)
        PROVE  IInv'
    BY <1>1, AutoApproveIInv, AskIInv, WakeIInv, CancelCallerIInv DEF Handle
  <1>2. ASSUME NEW r \in Requests, Approve(r) \/ Reject(r)
        PROVE  IInv'
    BY <1>2, RespondIInv DEF Approve, Reject
  <1>3. CASE CheckExpired
    BY <1>3, CheckExpiredIInv
  <1>4. CASE Tick
    BY <1>4, TickIInv
  <1>5. CASE UNCHANGED vars
    BY <1>5
    DEF IInv, TypeOK, PendingIsUnanswered, IdleLeavesNoTrace, AskedHasRequest,
        SleepIsElapsed, ApprovedInTime, GrantedOnlyIfApproved,
        NeverGivesUpEarly, vars
  <1>6. QED
    BY <1>1, <1>2, <1>3, <1>4, <1>5 DEF Next

-----------------------------------------------------------------------------
\* The strengthening holds in every reachable state.
THEOREM InductiveInvariant == Spec => []IInv
  BY InitIInv, NextIInv, PTL DEF Spec

\* Types: no table, counter or sleeper of the approval loop leaves its range.
THEOREM TypeCorrect == Spec => []TypeOK
  BY InductiveInvariant, PTL DEF IInv

\* A trade goes ahead only on an approval given before the request expired.
THEOREM GrantSafety == Spec => []GrantedOnlyIfApproved
  BY InductiveInvariant, PTL DEF IInv

\* The pending table and the statuses never disagree.
THEOREM TableSafety == Spec => []PendingIsUnanswered
  BY InductiveInvariant, PTL DEF IInv

\* A caller that counts its naps never gives up before the real timeout.
THEOREM PatienceSafety == Spec => []NeverGivesUpEarly
  BY InductiveInvariant, PTL DEF IInv

\* approve, reject and check_expired never overwrite a verdict.
THEOREM VerdictSafety == Spec => VerdictFinal
  <1>1. IInv /\ [Next]_vars
          => [\A r \in Requests : status[r] \in Verdicts => status'[r] = status[r]]_vars
    <2> SUFFICES ASSUME IInv, Next, NEW q \in Requests, status[q] \in Verdicts
                 PROVE  status'[q] = status[q]
      BY DEF vars
    <2> USE DEF IInv, TypeOK, Verdicts
    <2>1. ASSUME NEW r \in Requests, Handle(r)
          PROVE  status'[q] = status[q]
      BY <2>1 DEF Handle, AutoApprove, Ask, Wake, CancelCaller, IdleLeavesNoTrace
    <2>2. ASSUME NEW r \in Requests, Approve(r) \/ Reject(r)
          PROVE  status'[q] = status[q]
      BY <2>2 DEF Approve, Reject, Respond, IsActive
    <2>3. CASE CheckExpired
      BY <2>3 DEF CheckExpired, Overdue, PendingIsUnanswered
    <2>4. CASE Tick
      BY <2>4 DEF Tick
    <2>5. QED
      BY <2>1, <2>2, <2>3, <2>4 DEF Next
  <1>2. QED
    BY <1>1, InductiveInvariant, PTL DEF Spec, VerdictFinal

-----------------------------------------------------------------------------
(* Approval implements ApprovalGate.                                       *)

LEMMA InitRefines == Init => Gate!GateInit
  BY DEF Init, Gate!GateInit, VerdictOf, OutcomeOf

\* What the coroutine does is asking, going ahead, stopping, or nothing.
LEMMA HandleRefines ==
    ASSUME IInv, NEW r \in Requests, Handle(r)
    PROVE  Gate!Open(r) \/ Gate!GoDry(r) \/ Gate!Go(r) \/ Gate!Stop(r)
             \/ UNCHANGED Gate!gateVars
  <1> USE DEF IInv, TypeOK, VerdictOf, OutcomeOf, Returned, Verdicts
  <1>1. CASE AutoApprove(r)
    <2>1. Gate!GoDry(r)
      BY <1>1 DEF AutoApprove, Gate!GoDry
    <2>2. QED
      BY <2>1
  <1>2. CASE Ask(r)
    <2>1. Gate!Open(r)
      BY <1>2 DEF Ask, Gate!Open
    <2>2. QED
      BY <2>1
  <1>3. CASE Wake(r)
    <2>1. Gate!Go(r) \/ Gate!Stop(r) \/ UNCHANGED Gate!gateVars
      BY <1>3 DEF Wake, PollResult, Gate!Go, Gate!Stop, Gate!gateVars
    <2>2. QED
      BY <2>1
  <1>4. CASE CancelCaller(r)
    <2>1. Gate!Stop(r)
      BY <1>4 DEF CancelCaller, Gate!Stop
    <2>2. QED
      BY <2>1
  <1>5. QED
    BY <1>1, <1>2, <1>3, <1>4 DEF Handle

LEMMA NextRefines == IInv /\ [Next]_vars => [Gate!GateNext]_(Gate!gateVars)
  <1> SUFFICES ASSUME IInv, [Next]_vars
               PROVE  Gate!GateNext \/ UNCHANGED Gate!gateVars
    OBVIOUS
  <1>1. ASSUME NEW r \in Requests, Handle(r)
        PROVE  Gate!GateNext \/ UNCHANGED Gate!gateVars
    BY <1>1, HandleRefines DEF Gate!GateNext
  <1>2. ASSUME NEW r \in Requests, NEW v \in {"approved", "rejected"}, Respond(r, v)
        PROVE  Gate!GateNext
    <2>1. Gate!Answer({r}, v)
      BY <1>2 DEF Respond, IsActive, Gate!Answer, IInv, TypeOK, VerdictOf, Verdicts
    <2>2. QED
      BY <2>1 DEF Gate!GateNext, Gate!Answers
  <1>3. CASE CheckExpired
    <2>1. Overdue \in SUBSET Requests /\ \A r \in Overdue : status[r] = "pending"
      BY DEF Overdue, IInv, TypeOK, PendingIsUnanswered
    <2>2. Gate!Answer(Overdue, "expired")
      BY <1>3, <2>1 DEF CheckExpired, Gate!Answer, VerdictOf
    <2>3. QED
      BY <2>1, <2>2 DEF Gate!GateNext, Gate!Answers
  <1>4. CASE Tick
    BY <1>4 DEF Tick, Gate!gateVars
  <1>5. CASE UNCHANGED vars
    BY <1>5 DEF vars, Gate!gateVars
  <1>6. QED
    BY <1>1, <1>2, <1>3, <1>4, <1>5 DEF Next, Approve, Reject

\* The polling loop over the request table is a gate: one final verdict per
\* trade, and no trade goes ahead without an approval.
THEOREM Refinement == Spec => GateSpec
  BY InitRefines, NextRefines, InductiveInvariant, PTL DEF Spec, GateSpec, Gate!GateSpec

=============================================================================
