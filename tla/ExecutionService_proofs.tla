----------------------- MODULE ExecutionService_proofs -----------------------
(***************************************************************************)
(* Proofs about ExecutionService, for any finite set of calls, any pairs,  *)
(* sizes and limits.                                                       *)
(***************************************************************************)
EXTENDS ExecutionService, FiniteSetTheorems, TLAPS

(* The inductive invariant.                                                *)

(* What a call has left behind agrees with how far it has come.            *)
Progress ==
    \A c \in Calls :
        /\ pc[c] # "done" => result[c] = NoCall /\ "filled" \notin audit[c] /\ "rejected" \notin audit[c]
        /\ pc[c] \in {"new", "approving"} => wire[c] = "none"
        /\ pc[c] \in {"approving", "sent"} => action[c] \in {"buy", "sell"}

Executed(c) == result[c] = "executed"

(* The validator remembers executed orders, all of them while they are few. *)
RecentIsExecuted ==
    /\ recent \subseteq ExecutedKeys
    /\ Cardinality(ExecutedKeys) <= MaxRecent => recent = ExecutedKeys

HaveMet(c, d) == d \in met[c] /\ c \in met[d]

SentHaveMet ==
    \A c, d \in Calls : c # d /\ pc[c] = "sent" /\ pc[d] = "sent" => HaveMet(c, d)

(* A call that passed the duplicate check and is not over yet is bound by  *)
(* it already.                                                             *)
DuplicatesHaveMet ==
    \A c, d \in Calls :
        (/\ c # d
         /\ pc[c] = "sent" \/ Executed(c)
         /\ Executed(d)
         /\ Key(c) = Key(d))
            => HaveMet(c, d) \/ Cardinality(ExecutedKeys) > MaxRecent

CrowdCounts == \A s \in Symbols : Cardinality(Sent(s)) <= crowd[s]

IInv ==
    /\ TypeOK
    /\ Progress
    /\ FilledIsPlaced
    /\ SentIsGranted
    /\ RecentIsExecuted /\ SentHaveMet /\ DuplicatesHaveMet
    /\ CrowdCounts /\ RateBound

------------------------------------------------------------------------------
(* Finite sets of calls and of keys.                                       *)

LEMMA CallsAreFinite ==
    ASSUME NEW S, S \subseteq Calls
    PROVE  IsFiniteSet(S) /\ Cardinality(S) \in Nat
  BY ExecutionAssumption, FS_Subset, FS_CardinalityType

LEMMA FewerCalls ==
    ASSUME NEW S, NEW T, S \subseteq T, T \subseteq Calls
    PROVE  Cardinality(S) <= Cardinality(T)
  BY CallsAreFinite, FS_Subset

LEMMA OneMoreCall ==
    ASSUME NEW S, S \subseteq Calls, NEW c \in Calls, c \notin S
    PROVE  Cardinality(S \cup {c}) = Cardinality(S) + 1
  BY CallsAreFinite, FS_AddElement

LEMMA OneCallLess ==
    ASSUME NEW S, S \subseteq Calls, NEW c \in S
    PROVE  Cardinality(S \ {c}) = Cardinality(S) - 1
  BY CallsAreFinite, FS_RemoveElement

(* There are no more executed keys than calls. *)
LEMMA KeysAreFinite == IsFiniteSet(ExecutedKeys) /\ Cardinality(ExecutedKeys) \in Nat
  <1> DEFINE D == {d \in Calls : result[d] = "executed"}
             K == {Key(c) : c \in D}
  <1>1. IsFiniteSet(D)
    BY CallsAreFinite
  <1> DEFINE key == [d \in D |-> Key(d)]
  <1>2. key \in Surjection(D, K)
    BY DEF Surjection
  <1>3. IsFiniteSet(K)
    BY <1>1, <1>2, FS_Surjection
  <1> QED
    BY <1>3, FS_CardinalityType DEF ExecutedKeys

------------------------------------------------------------------------------
(* The effect of a step on the orders that are under way.                  *)

(* The request of c leaves. *)
Leaves(c) ==
    /\ pc[c] \in {"new", "approving"} /\ pc' = [pc EXCEPT ![c] = "sent"]
    /\ action[c] \in {"buy", "sell"}
    /\ Key(c) \notin recent /\ RateAllows(c)
    /\ met' = [d \in Calls |->
                 IF d = c THEN {e \in Calls : pc[e] = "sent"}
                 ELSE IF pc[d] = "sent" THEN met[d] \cup {c} ELSE met[d]]
    /\ crowd' = [crowd EXCEPT ![symbol[c]] =
                   IF Cardinality(Sent(symbol[c])) >= @ THEN Cardinality(Sent(symbol[c])) + 1 ELSE @]
    /\ UNCHANGED <<result, recent, stamp>>

(* No request leaves and no order is executed. *)
Quiet ==
    /\ \A c \in Calls : pc'[c] = "sent" => pc[c] = "sent"
    /\ \A c \in Calls : Executed(c)' <=> Executed(c)
    /\ \A c \in Calls : stamp'[c] < Window => stamp[c] < Window
    /\ UNCHANGED <<recent, met, crowd>>

LEMMA SubmitKinds ==
    ASSUME TypeOK, Progress, NEW c \in Calls, Submit(c), pc[c] \in {"new", "approving"},
           action[c] # "hold", UNCHANGED <<recent, stamp>>
    PROVE  Leaves(c) \/ Quiet
  <1>1. action[c] \in {"buy", "sell"} /\ result[c] = NoCall
    BY DEF TypeOK, Progress, Actions
  <1>2. CASE Stopper(c) # "none"
    <2>1. Finish(c, Stopper(c)) /\ UNCHANGED <<met, crowd>>
      BY <1>2 DEF Submit
    <2>2. Stopper(c) # "executed"
      BY DEF Stopper
    <2> QED
      BY <1>1, <2>1, <2>2 DEF Finish, Quiet, Executed, TypeOK, NoCall
  <1>3. CASE Stopper(c) = "none"
    <2>1. Valid(c) /\ RateAllows(c)
      BY <1>3 DEF Stopper
    <2>2. Key(c) \notin recent
      BY <2>1 DEF Valid
    <2> QED
      BY <1>1, <1>3, <2>1, <2>2 DEF Submit, Leaves
  <1> QED
    BY <1>2, <1>3

LEMMA StepKinds ==
    ASSUME TypeOK, Progress, Next
    PROVE  \/ \E c \in Calls : Leaves(c) \/ Answered(c)
           \/ Quiet
  <1>1. ASSUME NEW c \in Calls, Hold(c) \/ NotGranted(c) \/ Failed(c) \/ Cancel(c)
        PROVE  Quiet
    BY <1>1 DEF Hold, NotGranted, Failed, Cancel, Finish, Quiet, Executed, TypeOK, Progress, NoCall, Gate!Stop
  <1>2. ASSUME NEW c \in Calls, AskApproval(c)
        PROVE  Quiet
    BY <1>2 DEF AskApproval, Finish, Quiet, Executed, TypeOK, Progress, NoCall
  <1>3. ASSUME NEW c \in Calls, Execute(c)
        PROVE  Leaves(c) \/ Quiet
    BY <1>3, SubmitKinds DEF Execute
  <1>4. ASSUME NEW c \in Calls, Granted(c)
        PROVE  Leaves(c) \/ Quiet
    BY <1>4, SubmitKinds DEF Granted, Progress
  <1>5. ASSUME NEW c \in Calls, Freqtrade(c) \/ \E v \in Gate!Answers : HumanAnswers(c, v)
        PROVE  Quiet
    BY <1>5 DEF Freqtrade, HumanAnswers, Quiet, Executed
  <1>6. CASE Database
    BY <1>6 DEF Database, Quiet, Executed
  <1>7. CASE Tick
    BY <1>7, ExecutionAssumption DEF Tick, Quiet, Executed, TypeOK
  <1> QED
    BY <1>1, <1>2, <1>3, <1>4, <1>5, <1>6, <1>7 DEF Next, CallStep

(* A call stays what it is. *)
LEMMA RequestsStay == ASSUME Next PROVE UNCHANGED request
  BY DEF Next, CallStep, Hold, Execute, AskApproval, Granted, NotGranted, Answered, Failed, Cancel,
         Freqtrade, HumanAnswers, Database, Tick

------------------------------------------------------------------------------
LEMMA InitIInv == Init => IInv
  <1> SUFFICES ASSUME Init PROVE IInv
    OBVIOUS
  <1>1. \A s \in Symbols : Sent(s) = {} /\ Live(s) = {}
    BY ExecutionAssumption DEF Init, Sent, Live
  <1>2. ExecutedKeys = {}
    BY DEF Init, ExecutedKeys, NoCall
  <1>3. TypeOK
    <2>1. stamp \in [Calls -> 0..Window]
      BY ExecutionAssumption DEF Init
    <2> QED
      BY <2>1, ZenonT(60) DEF Init, TypeOK, Results, Gate!GateInit
  <1>6. Progress /\ FilledIsPlaced /\ SentIsGranted
    BY DEF Init, Progress, FilledIsPlaced, SentIsGranted, NoCall
  <1>4. RecentIsExecuted /\ SentHaveMet /\ DuplicatesHaveMet
    BY <1>2 DEF Init, RecentIsExecuted, SentHaveMet, DuplicatesHaveMet, Executed, NoCall
  <1>5. CrowdCounts /\ RateBound
    BY <1>1, FS_EmptySet DEF Init, CrowdCounts, RateBound
  <1> QED
    BY <1>3, <1>4, <1>5, <1>6 DEF IInv

(* The type invariant; a step that sends a request sets the histories.     *)

LEMMA SubmitTypes ==
    ASSUME TypeOK, NEW c \in Calls, Submit(c), UNCHANGED request
    PROVE  /\ pc' \in [Calls -> {"new", "approving", "sent", "done"}]
           /\ result' \in [Calls -> Results]
           /\ audit' \in [Calls -> SUBSET {"submitted", "filled", "rejected"}]
           /\ wire' \in [Calls -> {"none", "sent", "placed", "refused"}]
           /\ met' \in [Calls -> SUBSET Calls] /\ crowd' \in [Symbols -> Nat]
  <1>1. Stopper(c) \in Rejections \cup {"none"}
    BY DEF Stopper, Rejections
  <1>2. Cardinality(Sent(symbol[c])) \in Nat
    BY CallsAreFinite DEF Sent
  <1>3. CASE Stopper(c) # "none"
    <2>1. Finish(c, Stopper(c)) /\ Audit(c, "rejected") /\ UNCHANGED <<wire, met, crowd>>
      BY <1>3 DEF Submit
    <2> QED
      BY <1>1, <1>3, <2>1 DEF Finish, Audit, TypeOK, Results
  <1>4. CASE Stopper(c) = "none"
    <2>1. UNCHANGED result /\ pc' \in [Calls -> {"new", "approving", "sent", "done"}]
          /\ wire' \in [Calls -> {"none", "sent", "placed", "refused"}]
      BY <1>4 DEF Submit, TypeOK
    <2>2. audit' \in [Calls -> SUBSET {"submitted", "filled", "rejected"}]
      BY <1>4 DEF Submit, Audit, TypeOK
    <2>3. met' \in [Calls -> SUBSET Calls]
      <3> DEFINE others == {d \in Calls : pc[d] = "sent"}
                 after(d) == IF d = c THEN others
                             ELSE IF d \in others THEN met[d] \cup {c} ELSE met[d]
      <3>1. met' = [d \in Calls |-> after(d)]
        BY <1>4 DEF Submit
      <3>2. \A d \in Calls : after(d) \in SUBSET Calls
        BY DEF TypeOK
      <3> HIDE DEF after
      <3> QED
        BY <3>1, <3>2
    <2>4. crowd' \in [Symbols -> Nat]
      <3> DEFINE k == Cardinality(Sent(symbol[c]))
      <3> HIDE DEF k
      <3>1. k \in Nat
        BY <1>2 DEF k
      <3>2. crowd' = [crowd EXCEPT ![symbol[c]] = IF k >= @ THEN k + 1 ELSE @]
        BY <1>4 DEF Submit, k
      <3> QED
        BY <3>1, <3>2 DEF TypeOK
    <2> QED
      BY <2>1, <2>2, <2>3, <2>4 DEF TypeOK
  <1> QED
    BY <1>3, <1>4

LEMMA GateTypes ==
    ASSUME TypeOK, NEW c \in Calls,
           \/ Gate!Open(c) \/ Gate!GoDry(c) \/ Gate!Go(c) \/ Gate!Stop(c)
           \/ \E v \in Gate!Answers : Gate!Answer({c}, v)
           \/ UNCHANGED gate
    PROVE  /\ verdict' \in [Calls -> {"none", "open"} \cup Gate!Answers]
           /\ outcome' \in [Calls -> {"idle", "waiting", "go", "stop"}]
           /\ dry' \in BOOLEAN
  BY DEF TypeOK, Gate!Open, Gate!GoDry, Gate!Go, Gate!Stop, Gate!Answer, gate, Gate!Answers

LEMMA TypeStep == ASSUME TypeOK, Progress, Next PROVE TypeOK'
  <1>1. UNCHANGED request
    BY RequestsStay
  <1>2. ASSUME NEW c \in Calls, Hold(c) \/ NotGranted(c) \/ Failed(c) \/ Cancel(c)
        PROVE  TypeOK'
    <2>1. UNCHANGED <<recent, stamp, wire, world, met, crowd>>
          /\ (UNCHANGED audit \/ Audit(c, "rejected"))
          /\ (UNCHANGED gate \/ Gate!Stop(c))
          /\ \E why \in {"held", "not_granted", "failed", "cancelled"} : Finish(c, why)
      BY <1>2 DEF Hold, NotGranted, Failed, Cancel
    <2>2. /\ verdict' \in [Calls -> {"none", "open"} \cup Gate!Answers]
          /\ outcome' \in [Calls -> {"idle", "waiting", "go", "stop"}]
          /\ dry' \in BOOLEAN
      BY <2>1, GateTypes
    <2>3. /\ pc' \in [Calls -> {"new", "approving", "sent", "done"}]
          /\ result' \in [Calls -> Results]
      BY <2>1 DEF Finish, TypeOK, Results, Rejections
    <2>4. audit' \in [Calls -> SUBSET {"submitted", "filled", "rejected"}]
      BY <2>1 DEF Audit, TypeOK
    <2> QED
      BY <1>1, <2>1, <2>2, <2>3, <2>4 DEF TypeOK, world, request
  <1>3. ASSUME NEW c \in Calls, Execute(c) \/ Granted(c)
        PROVE  TypeOK'
    <2>1. Submit(c) /\ UNCHANGED <<recent, stamp, world>>
          /\ (UNCHANGED gate \/ Gate!GoDry(c) \/ Gate!Go(c))
      BY <1>3 DEF Execute, Granted
    <2> QED
      BY <1>1, <2>1, SubmitTypes, GateTypes DEF TypeOK, world, request
  <1>4. ASSUME NEW c \in Calls, AskApproval(c)
        PROVE  TypeOK'
    <2>1. pc[c] = "new" /\ UNCHANGED <<request, audit, recent, stamp, world>>
      BY <1>4 DEF AskApproval
    <2>2. /\ pc' \in [Calls -> {"new", "approving", "sent", "done"}]
          /\ result' \in [Calls -> Results]
      BY <1>4 DEF AskApproval, Finish, TypeOK, Results, Rejections
    <2>3. Gate!Open(c) /\ UNCHANGED <<wire, met, crowd>>
      BY <1>4 DEF AskApproval
    <2>4. /\ verdict' \in [Calls -> {"none", "open"} \cup Gate!Answers]
          /\ outcome' \in [Calls -> {"idle", "waiting", "go", "stop"}]
          /\ dry' \in BOOLEAN
      BY <2>3, GateTypes
    <2> QED
      BY <2>1, <2>2, <2>3, <2>4 DEF TypeOK, world, request
  <1>5. ASSUME NEW c \in Calls, Answered(c)
        PROVE  TypeOK'
    <2>1. Key(c) \in Symbols \X {"buy", "sell"}
      BY <1>5 DEF Answered, Progress, TypeOK, Key
    <2>2. recent' \subseteq recent \cup {Key(c)}
      BY <1>5 DEF Answered, RecordOrder, Trimmed, kSubset
    <2>3. stamp' \in [Calls -> 0..Window]
      BY <1>5, ExecutionAssumption DEF Answered, TypeOK
    <2> QED
      BY <1>1, <1>5, <2>1, <2>2, <2>3, GateTypes
      DEF Answered, Audit, Finish, TypeOK, Results, world, request
  <1>6. ASSUME NEW c \in Calls, Freqtrade(c)
        PROVE  TypeOK'
    BY <1>1, <1>6, GateTypes DEF Freqtrade, TypeOK, world, request
  <1>7. ASSUME NEW c \in Calls, NEW v \in Gate!Answers, HumanAnswers(c, v)
        PROVE  TypeOK'
    BY <1>1, <1>7, GateTypes DEF HumanAnswers, TypeOK, world, request
  <1>8. CASE Database
    BY <1>1, <1>8 DEF Database, TypeOK, gate, request
  <1>9. CASE Tick
    <2>1. stamp' \in [Calls -> 0..Window]
      BY <1>9, ExecutionAssumption DEF Tick, TypeOK
    <2> QED
      BY <1>1, <1>9, <2>1 DEF Tick, TypeOK, gate, world, request
  <1> QED
    BY <1>2, <1>3, <1>4, <1>5, <1>6, <1>7, <1>8, <1>9 DEF Next, CallStep

------------------------------------------------------------------------------
(* How far a call has come, what is audited, and what was granted.         *)

Traces == Progress /\ FilledIsPlaced

LEMMA SubmitTraces ==
    ASSUME TypeOK, Traces, NEW c \in Calls, Submit(c), UNCHANGED request,
           pc[c] \in {"new", "approving"}, action[c] # "hold"
    PROVE  Traces'
  <1>1. action[c] \in {"buy", "sell"}
    BY DEF TypeOK, Actions
  <1>2. CASE Stopper(c) # "none"
    <2>1. Finish(c, Stopper(c)) /\ Audit(c, "rejected") /\ UNCHANGED <<wire, met, crowd>>
      BY <1>2 DEF Submit
    <2>2. Stopper(c) \in Rejections /\ Stopper(c) # "executed"
      BY <1>2 DEF Stopper, Rejections
    <2> QED
      BY <1>1, <2>1, <2>2 DEF Finish, Audit, TypeOK, Traces, Progress, FilledIsPlaced, request
  <1>3. CASE Stopper(c) = "none"
    <2>1. /\ pc' = [pc EXCEPT ![c] = "sent"] /\ wire' = [wire EXCEPT ![c] = "sent"]
          /\ Audit(c, "submitted") /\ UNCHANGED result
      BY <1>3 DEF Submit
    <2> QED
      BY <1>1, <2>1 DEF Audit, TypeOK, Traces, Progress, FilledIsPlaced, request, NoCall
  <1> QED
    BY <1>2, <1>3

LEMMA TracesStep == ASSUME TypeOK, Traces, Next PROVE Traces'
  <1> USE DEF Traces
  <1>1. UNCHANGED request
    BY RequestsStay
  <1>2. ASSUME NEW c \in Calls, Hold(c) \/ NotGranted(c) \/ Cancel(c)
        PROVE  Traces'
    <2>1. /\ UNCHANGED <<audit, wire>> /\ pc[c] # "done"
          /\ \E why \in {"held", "not_granted", "cancelled"} : Finish(c, why)
      BY <1>2 DEF Hold, NotGranted, Cancel, Gate!Stop, TypeOK, Progress
    <2> QED
      BY <1>1, <2>1 DEF Finish, TypeOK, Progress, FilledIsPlaced, request
  <1>3. ASSUME NEW c \in Calls, Execute(c) \/ Granted(c)
        PROVE  Traces'
    BY <1>1, <1>3, SubmitTraces DEF Execute, Granted, Progress
  <1>4. ASSUME NEW c \in Calls, AskApproval(c)
        PROVE  Traces'
    <2>1. action[c] \in {"buy", "sell"}
      BY <1>4 DEF AskApproval, TypeOK, Actions
    <2> QED
      BY <1>1, <1>4, <2>1 DEF AskApproval, Finish, TypeOK, Progress, FilledIsPlaced, request
  <1>5. ASSUME NEW c \in Calls, Answered(c)
        PROVE  Traces'
    BY <1>1, <1>5 DEF Answered, Audit, Finish, TypeOK, Progress, FilledIsPlaced, request
  <1>6. ASSUME NEW c \in Calls, Failed(c)
        PROVE  Traces'
    BY <1>1, <1>6 DEF Failed, Audit, Finish, TypeOK, Progress, FilledIsPlaced, request, Rejections
  <1>7. ASSUME NEW c \in Calls, Freqtrade(c)
        PROVE  Traces'
    BY <1>1, <1>7 DEF Freqtrade, TypeOK, Progress, FilledIsPlaced, request
  <1>8. CASE Database \/ Tick \/ \E c \in Calls, v \in Gate!Answers : HumanAnswers(c, v)
    BY <1>1, <1>8 DEF Database, Tick, HumanAnswers, Progress, FilledIsPlaced, request
  <1> QED
    BY <1>2, <1>3, <1>4, <1>5, <1>6, <1>7, <1>8 DEF Next, CallStep

(* A request leaves only with consent, and consent is not taken back.      *)
LEMMA GrantStep == ASSUME TypeOK, Progress, SentIsGranted, Next PROVE SentIsGranted'
  <1> USE DEF SentIsGranted
  <1>1. ASSUME NEW c \in Calls, Execute(c)
        PROVE  SentIsGranted'
    <2>1. UNCHANGED <<dry, verdict>> /\ (ApprovalRequired => dry)
      BY <1>1 DEF Execute, Gate!GoDry, gate
    <2>2. \A d \in Calls : d # c => wire'[d] = wire[d]
      BY <1>1 DEF Execute, Submit, TypeOK
    <2> QED
      BY <2>1, <2>2
  <1>2. ASSUME NEW c \in Calls, Granted(c)
        PROVE  SentIsGranted'
    <2>1. UNCHANGED <<dry, verdict>> /\ verdict[c] = "approved"
      BY <1>2 DEF Granted, Gate!Go
    <2>2. \A d \in Calls : d # c => wire'[d] = wire[d]
      BY <1>2 DEF Granted, Submit, TypeOK
    <2> QED
      BY <2>1, <2>2
  <1>3. ASSUME NEW c \in Calls, AskApproval(c)
        PROVE  SentIsGranted'
    BY <1>3 DEF AskApproval, Gate!Open, TypeOK, Progress
  <1>4. ASSUME NEW c \in Calls, NEW v \in Gate!Answers, HumanAnswers(c, v)
        PROVE  SentIsGranted'
    BY <1>4 DEF HumanAnswers, Gate!Answer, TypeOK
  <1>5. ASSUME NEW c \in Calls, Hold(c) \/ NotGranted(c) \/ Answered(c) \/ Failed(c) \/ Cancel(c)
        PROVE  SentIsGranted'
    BY <1>5 DEF Hold, NotGranted, Answered, Failed, Cancel, Gate!Stop, gate
  <1>6. ASSUME NEW c \in Calls, Freqtrade(c)
        PROVE  SentIsGranted'
    BY <1>6 DEF Freqtrade, gate, TypeOK
  <1>7. CASE Database \/ Tick
    BY <1>7 DEF Database, Tick, gate
  <1> QED
    BY <1>1, <1>2, <1>3, <1>4, <1>5, <1>6, <1>7 DEF Next, CallStep

------------------------------------------------------------------------------
(* Duplicates.  While a step is quiet, nothing changes but that calls end. *)

Duplicates == RecentIsExecuted /\ SentHaveMet /\ DuplicatesHaveMet

LEMMA QuietDuplicates ==
    ASSUME TypeOK, Duplicates, UNCHANGED request, Quiet
    PROVE  Duplicates'
  <1>1. ExecutedKeys' = ExecutedKeys
    BY DEF ExecutedKeys, Key, request, Quiet, Executed
  <1>2. \A c \in Calls : Key(c)' = Key(c)
    BY DEF Key, request
  <1> QED
    BY <1>1, <1>2
    DEF Duplicates, RecentIsExecuted, SentHaveMet, DuplicatesHaveMet, Quiet, HaveMet

(* A request that leaves has met all that are under way, and has no        *)
(* executed twin unless the validator has forgotten.                       *)
LEMMA LeavesDuplicates ==
    ASSUME TypeOK, Progress, Duplicates, UNCHANGED request, NEW c \in Calls, Leaves(c)
    PROVE  Duplicates'
  <1>1. ExecutedKeys' = ExecutedKeys /\ \A d \in Calls : Executed(d)' = Executed(d)
    BY DEF ExecutedKeys, Key, request, Leaves, Executed
  <1>2. \A d \in Calls : Key(d)' = Key(d)
    BY DEF Key, request
  <1>3. pc[c] # "sent" /\ ~Executed(c)
    BY DEF Leaves, Progress, Executed, NoCall
  <1>4. \A d \in Calls : d # c /\ pc[d] = "sent" => HaveMet(c, d)' /\ HaveMet(d, c)'
    BY DEF Leaves, TypeOK, HaveMet
  <1>5. \A d, e \in Calls : d # c /\ e # c /\ HaveMet(d, e) => HaveMet(d, e)'
    BY DEF Leaves, TypeOK, HaveMet
  <1>6. \A d \in Calls : d # c => pc'[d] = pc[d]
    BY DEF Leaves, TypeOK
  <1>7. SentHaveMet'
    BY <1>4, <1>5, <1>6 DEF Duplicates, SentHaveMet
  <1>8. \A d \in Calls : Executed(d) /\ Key(d) = Key(c) => Cardinality(ExecutedKeys) > MaxRecent
    <2>1. ASSUME NEW d \in Calls, Executed(d), Key(d) = Key(c)
          PROVE  Key(c) \in ExecutedKeys
      BY <2>1 DEF ExecutedKeys, Executed
    <2>2. recent # ExecutedKeys => Cardinality(ExecutedKeys) > MaxRecent
      BY KeysAreFinite, ExecutionAssumption DEF Duplicates, RecentIsExecuted
    <2> QED
      BY <2>1, <2>2 DEF Leaves
  <1>9. DuplicatesHaveMet'
    BY <1>1, <1>2, <1>3, <1>5, <1>6, <1>8 DEF Duplicates, DuplicatesHaveMet
  <1>10. RecentIsExecuted'
    BY <1>1 DEF Duplicates, RecentIsExecuted, Leaves
  <1> QED
    BY <1>7, <1>9, <1>10 DEF Duplicates

(* An order that is executed has met every twin that is under way, since   *)
(* both were sent together; what is remembered grows with what is executed.*)
LEMMA AnsweredDuplicates ==
    ASSUME TypeOK, Progress, Duplicates, UNCHANGED request, NEW c \in Calls, Answered(c)
    PROVE  Duplicates'
  <1>1. \A d \in Calls : Key(d)' = Key(d)
    BY DEF Key, request
  <1>2. /\ \A d \in Calls : Executed(d)' <=> d = c \/ Executed(d)
        /\ \A d \in Calls : pc'[d] = "sent" => pc[d] = "sent"
        /\ UNCHANGED met /\ pc[c] = "sent"
    BY DEF Answered, Finish, TypeOK, Executed
  <1>3. ExecutedKeys' = ExecutedKeys \cup {Key(c)}
    BY <1>1, <1>2 DEF ExecutedKeys, Executed
  <1>4. Cardinality(ExecutedKeys) <= Cardinality(ExecutedKeys')
    <2>1. CASE Key(c) \in ExecutedKeys
      <3>1. ExecutedKeys' = ExecutedKeys
        BY <1>3, <2>1
      <3> QED
        BY <3>1, KeysAreFinite
    <2>2. CASE Key(c) \notin ExecutedKeys
      BY <1>3, <2>2, KeysAreFinite, FS_AddElement
    <2> QED
      BY <2>1, <2>2
  <1>5. Cardinality(ExecutedKeys) \in Nat /\ Cardinality(ExecutedKeys') \in Nat
    BY <1>3, KeysAreFinite, FS_AddElement, FS_CardinalityType
  <1>6. RecentIsExecuted'
    <2>1. recent' \in Trimmed(recent \cup {Key(c)})
      BY DEF Answered, RecordOrder
    <2>2. recent' \subseteq recent \cup {Key(c)}
      BY <2>1 DEF Trimmed, kSubset
    <2>3. ASSUME Cardinality(ExecutedKeys') <= MaxRecent
          PROVE  recent' = ExecutedKeys'
      <3>1. recent = ExecutedKeys
        BY <1>4, <1>5, <2>3, ExecutionAssumption DEF Duplicates, RecentIsExecuted
      <3>2. ~(Cardinality(recent \cup {Key(c)}) > MaxRecent)
        BY <1>3, <1>5, <2>3, <3>1, ExecutionAssumption
      <3> QED
        BY <1>3, <2>1, <3>1, <3>2 DEF Trimmed
    <2> QED
      BY <1>3, <2>2, <2>3 DEF Duplicates, RecentIsExecuted
  <1>7. SentHaveMet'
    BY <1>2 DEF Duplicates, SentHaveMet, HaveMet
  <1>8. DuplicatesHaveMet'
    <2> SUFFICES ASSUME NEW d \in Calls, NEW e \in Calls, d # e,
                        pc'[d] = "sent" \/ Executed(d)', Executed(e)', Key(d) = Key(e),
                        ~(Cardinality(ExecutedKeys') > MaxRecent)
                 PROVE  HaveMet(d, e)
      BY <1>1, <1>2 DEF DuplicatesHaveMet, HaveMet
    <2>1. ~(Cardinality(ExecutedKeys) > MaxRecent)
      BY <1>4, <1>5, ExecutionAssumption
    <2>2. CASE Executed(e)
      BY <1>2, <2>1, <2>2 DEF Duplicates, DuplicatesHaveMet
    <2>3. CASE e = c /\ pc[d] = "sent"
      BY <1>2, <2>3 DEF Duplicates, SentHaveMet
    <2>4. CASE e = c /\ Executed(d)
      BY <1>2, <2>1, <2>4 DEF Duplicates, DuplicatesHaveMet, HaveMet
    <2> QED
      BY <1>2, <2>2, <2>3, <2>4
  <1> QED
    BY <1>6, <1>7, <1>8 DEF Duplicates

------------------------------------------------------------------------------
(* The rate limiter.  The calls that are under way for a pair are no more  *)
(* than the most there ever were, and each of them can add one record.     *)

Rate == CrowdCounts /\ RateBound

LEMMA LiveAndSentAreFinite ==
    ASSUME TypeOK, NEW s \in Symbols
    PROVE  /\ Cardinality(Live(s)) \in Nat /\ Cardinality(Sent(s)) \in Nat
           /\ crowd[s] \in Nat /\ MaxPerMinute \in Nat
  BY CallsAreFinite, ExecutionAssumption DEF TypeOK, Live, Sent

LEMMA QuietRate ==
    ASSUME TypeOK, TypeOK', Rate, UNCHANGED request, Quiet
    PROVE  Rate'
  <1> SUFFICES ASSUME NEW s \in Symbols
               PROVE  /\ Cardinality(Sent(s))' <= crowd'[s]
                      /\ Live(s)' # {} => Cardinality(Live(s))' + Cardinality(Sent(s))'
                                            <= MaxPerMinute - 1 + crowd'[s]
    BY DEF Rate, CrowdCounts, RateBound
  <1>1. Live(s)' \subseteq Live(s) /\ Sent(s)' \subseteq Sent(s)
    BY DEF Live, Sent, Quiet, request
  <1>2. Cardinality(Live(s)') <= Cardinality(Live(s)) /\ Cardinality(Sent(s)') <= Cardinality(Sent(s))
    BY <1>1, FewerCalls DEF Live, Sent
  <1>3. Cardinality(Live(s)') \in Nat /\ Cardinality(Sent(s)') \in Nat
    BY LiveAndSentAreFinite, CallsAreFinite DEF Live, Sent
  <1>4. crowd'[s] = crowd[s] /\ (Live(s)' # {} => Live(s) # {})
    BY <1>1 DEF Quiet
  <1>5. /\ Cardinality(Sent(s)) <= crowd[s]
        /\ Live(s) # {} => Cardinality(Live(s)) + Cardinality(Sent(s)) <= MaxPerMinute - 1 + crowd[s]
    BY DEF Rate, CrowdCounts, RateBound
  <1> QED
    BY <1>2, <1>3, <1>4, <1>5, LiveAndSentAreFinite

(* The check leaves room for one record beside those there are.            *)
LEMMA LeavesRate ==
    ASSUME TypeOK, Rate, UNCHANGED request, NEW c \in Calls, Leaves(c)
    PROVE  Rate'
  <1> SUFFICES ASSUME NEW s \in Symbols
               PROVE  /\ Cardinality(Sent(s))' <= crowd'[s]
                      /\ Live(s)' # {} => Cardinality(Live(s))' + Cardinality(Sent(s))'
                                            <= MaxPerMinute - 1 + crowd'[s]
    BY DEF Rate, CrowdCounts, RateBound
  <1>1. Live(s)' = Live(s)
    BY DEF Live, Leaves, request
  <1>2. /\ Cardinality(Sent(s)) <= crowd[s]
        /\ Live(s) # {} => Cardinality(Live(s)) + Cardinality(Sent(s)) <= MaxPerMinute - 1 + crowd[s]
    BY DEF Rate, CrowdCounts, RateBound
  <1>3. CASE s # symbol[c]
    <2>1. Sent(s)' = Sent(s)
      BY <1>3 DEF Sent, Leaves, request, TypeOK
    <2>2. crowd'[s] = crowd[s]
      BY <1>3 DEF Leaves, TypeOK
    <2> QED
      BY <1>1, <1>2, <2>1, <2>2
  <1>4. CASE s = symbol[c]
    <2>1. Sent(s)' = Sent(s) \cup {c} /\ c \notin Sent(s)
      BY <1>4 DEF Sent, Leaves, request, TypeOK
    <2>2. Cardinality(Sent(s)') = Cardinality(Sent(s)) + 1
      BY <2>1, OneMoreCall DEF Sent
    <2>3. crowd'[s] = IF Cardinality(Sent(s)) >= crowd[s] THEN Cardinality(Sent(s)) + 1 ELSE crowd[s]
      BY <1>4 DEF Leaves, TypeOK
    <2>4. Cardinality(Live(s)) < MaxPerMinute
      BY <1>4 DEF Leaves, RateAllows
    <2> QED
      BY <1>1, <1>2, <2>2, <2>3, <2>4, LiveAndSentAreFinite
  <1> QED
    BY <1>3, <1>4

(* A record is made for a call that is under way no longer.                *)
LEMMA AnsweredRate ==
    ASSUME TypeOK, Rate, UNCHANGED request, NEW c \in Calls, Answered(c)
    PROVE  Rate'
  <1> SUFFICES ASSUME NEW s \in Symbols
               PROVE  /\ Cardinality(Sent(s))' <= crowd'[s]
                      /\ Live(s)' # {} => Cardinality(Live(s))' + Cardinality(Sent(s))'
                                            <= MaxPerMinute - 1 + crowd'[s]
    BY DEF Rate, CrowdCounts, RateBound
  <1>1. /\ Cardinality(Sent(s)) <= crowd[s]
        /\ Live(s) # {} => Cardinality(Live(s)) + Cardinality(Sent(s)) <= MaxPerMinute - 1 + crowd[s]
    BY DEF Rate, CrowdCounts, RateBound
  <1>2. crowd' = crowd
    BY DEF Answered
  <1>3. CASE s # symbol[c]
    <2>1. Live(s)' = Live(s) /\ Sent(s)' = Sent(s)
      BY <1>3 DEF Live, Sent, Answered, Finish, request, TypeOK
    <2> QED
      BY <1>1, <1>2, <2>1
  <1>4. CASE s = symbol[c]
    <2>1. Sent(s)' = Sent(s) \ {c} /\ c \in Sent(s)
      BY <1>4 DEF Sent, Answered, Finish, request, TypeOK
    <2>2. Cardinality(Sent(s)') = Cardinality(Sent(s)) - 1
      BY <2>1, OneCallLess DEF Sent
    <2>3. Live(s)' = Live(s) \cup {c}
      BY <1>4, ExecutionAssumption DEF Live, Answered, request, TypeOK
    <2>4. Cardinality(Live(s)') <= Cardinality(Live(s)) + 1
      <3>1. CASE c \in Live(s)
        BY <2>3, <3>1, LiveAndSentAreFinite
      <3>2. CASE c \notin Live(s)
        BY <2>3, <3>2, OneMoreCall, LiveAndSentAreFinite DEF Live
      <3> QED
        BY <3>1, <3>2
    <2>5. Cardinality(Live(s)') \in Nat
      BY CallsAreFinite DEF Live
    <2>6. Live(s) = {} => Cardinality(Live(s)) = 0
      BY FS_EmptySet
    <2> QED
      BY <1>1, <1>2, <2>2, <2>4, <2>5, <2>6, LiveAndSentAreFinite, ExecutionAssumption
  <1> QED
    BY <1>3, <1>4

------------------------------------------------------------------------------
LEMMA NextIInv == ASSUME IInv, Next PROVE IInv'
  <1> USE DEF IInv
  <1>1. UNCHANGED request
    BY RequestsStay
  <1>2. TypeOK'
    BY TypeStep
  <1>3. Progress' /\ FilledIsPlaced'
    BY TracesStep DEF Traces
  <1>4. SentIsGranted'
    BY GrantStep
  <1>5. Duplicates' /\ Rate'
    <2>1. Duplicates /\ Rate
      BY DEF Duplicates, Rate
    <2>2. CASE Quiet
      BY <1>1, <1>2, <2>1, <2>2, QuietDuplicates, QuietRate
    <2>3. ASSUME NEW c \in Calls, Leaves(c)
          PROVE  Duplicates' /\ Rate'
      BY <1>1, <2>1, <2>3, LeavesDuplicates, LeavesRate
    <2>4. ASSUME NEW c \in Calls, Answered(c)
          PROVE  Duplicates' /\ Rate'
      BY <1>1, <2>1, <2>4, AnsweredDuplicates, AnsweredRate
    <2> QED
      BY <2>2, <2>3, <2>4, StepKinds
  <1> QED
    BY <1>2, <1>3, <1>4, <1>5 DEF Duplicates, Rate

LEMMA StutterIInv == ASSUME IInv, UNCHANGED vars PROVE IInv'
  <1>1. ExecutedKeys' = ExecutedKeys /\ \A s \in Symbols : Live(s)' = Live(s) /\ Sent(s)' = Sent(s)
    BY DEF vars, ExecutedKeys, Key, Live, Sent
  <1>2. TypeOK' /\ Progress' /\ FilledIsPlaced' /\ SentIsGranted'
    BY DEF IInv, vars, TypeOK, Progress, FilledIsPlaced, SentIsGranted
  <1>3. RecentIsExecuted' /\ SentHaveMet' /\ DuplicatesHaveMet'
    BY <1>1 DEF IInv, vars, RecentIsExecuted, SentHaveMet, DuplicatesHaveMet, HaveMet, Executed, Key
  <1>4. CrowdCounts' /\ RateBound'
    BY <1>1 DEF IInv, vars, CrowdCounts, RateBound
  <1> QED
    BY <1>2, <1>3, <1>4 DEF IInv

(* Everything the proofs below rest on: where each call is, whom it has    *)
(* met on its way, and how many records a pair has.                        *)
THEOREM InductiveInvariant == Spec => []IInv
  <1>1. IInv /\ [Next]_vars => IInv'
    BY NextIInv, StutterIInv
  <1> QED
    BY InitIInv, <1>1, PTL DEF Spec

(* What any number of calls under way together cannot break: what is       *)
(* reported as filled is at Freqtrade, an order is executed twice only by  *)
(* calls that overlapped or after the validator forgot, and the limiter is *)
(* exceeded by no more than the calls that shared its check.               *)
THEOREM ExecutionSafety == Spec => []ExecutionSafe
  <1>1. IInv => ExecutionSafe
    <2> SUFFICES ASSUME IInv PROVE DuplicatesOnlyByOverlap
      BY DEF IInv, ExecutionSafe
    <2> QED
      BY DEF IInv, DuplicatesHaveMet, DuplicatesOnlyByOverlap, HaveMet, Executed
  <1> QED
    BY InductiveInvariant, <1>1, PTL

(* No request that needed a human's consent leaves without it.             *)
THEOREM ConsentSafety == Spec => []SentIsGranted
  <1>1. IInv => SentIsGranted
    BY DEF IInv
  <1> QED
    BY InductiveInvariant, <1>1, PTL

(* No request leaves while the database shows an active kill switch or     *)
(* cannot be asked, however long the approval took.                        *)
THEOREM KillSwitchSafety == Spec => NothingSentUnderKillSwitch
  <1> DEFINE NoneSent == \A c \in Calls : wire[c] = "none" /\ wire'[c] # "none" => dbUp /\ ~killRow
  <1>1. ASSUME TypeOK, NEW c \in Calls, Submit(c)
        PROVE  NoneSent
    <2>1. Stopper(c) = "none" => dbUp /\ ~killRow
      BY DEF Stopper, RiskPasses, KillSwitchSeen
    <2> QED
      BY <1>1, <2>1 DEF Submit, TypeOK
  <1>2. ASSUME TypeOK, NEW c \in Calls, Freqtrade(c)
        PROVE  NoneSent
    BY <1>2 DEF Freqtrade, TypeOK
  <1>3. ASSUME TypeOK, Next
        PROVE  NoneSent
    <2>1. CASE \E c \in Calls : Submit(c) \/ Freqtrade(c)
      BY <1>1, <1>2, <1>3, <2>1
    <2>2. CASE ~\E c \in Calls : Submit(c) \/ Freqtrade(c)
      <3>1. UNCHANGED wire
        BY <1>3, <2>2
        DEF Next, CallStep, Hold, Execute, AskApproval, Granted, NotGranted, Answered, Failed,
            Cancel, HumanAnswers, Database, Tick
      <3> QED
        BY <3>1
    <2> QED
      BY <2>1, <2>2
  <1>4. TypeOK /\ [Next]_vars => [NoneSent]_vars
    BY <1>3
  <1>5. IInv => TypeOK
    BY DEF IInv
  <1> QED
    BY InductiveInvariant, <1>4, <1>5, PTL DEF Spec, NothingSentUnderKillSwitch
==============================================================================
