------------------------ MODULE RiskGuardian_proofs ------------------------
(***************************************************************************)
(* Proofs about RiskGuardian, for any finite set of tasks, any number of   *)
(* symbols, any limits and any portfolio values.                           *)
(***************************************************************************)
EXTENDS RiskGuardian, FiniteSetTheorems, TLAPS

(* The inductive invariant.  A call of stop() that has cancelled the loop  *)
(* finds it alive and _running clear until the cancellation arrives, and a *)
(* task that waits for candles still has a symbol to examine.              *)

CancelledIsStopped == stopping = "cancelling" => ~running /\ Alive

CandlesAreDue == \A x \in Runners : pc[x] = "candles" => todo[x] > 0

\* TypeOK in two parts: flags, and the rest.
Flags == active \in BOOLEAN /\ running \in BOOLEAN

Figures ==
    /\ reason \in Reasons \cup {"none"}
    /\ errors \in Nat /\ peak \in Nat /\ dayStart \in Nat /\ trips \in Nat
    /\ pc \in [Runners -> {"idle", "candles", "probe", "asleep", "off"}]
    /\ todo \in [Runners -> 0..NumSymbols]
    /\ stopping \in {"no", "cancelling", "closing"}
    /\ api \in {"up", "down"}
    /\ worth \in Worths

IInv ==
    /\ TypeOK
    /\ CancelledIsStopped
    /\ CandlesAreDue
    /\ ErrorsTrip
    /\ ReasonGiven
    /\ RunningIsMonitored

-----------------------------------------------------------------------------
LEMMA TypeOKParts == TypeOK <=> Flags /\ Figures
  BY DEF TypeOK, Flags, Figures

LEMMA TypeOKPartsNext == TypeOK' <=> Flags' /\ Figures'
  BY DEF TypeOK, Flags, Figures

LEMMA RunnersFinite == IsFiniteSet(Runners)
  BY GuardianAssumption, FS_AddElement DEF Runners

\* What a task may be told is a portfolio value or nothing.
LEMMA ToldIsWorth ==
    ASSUME TypeOK, NEW v \in Told
    PROVE  v \in Nat \cup {None}
  BY GuardianAssumption DEF TypeOK, Told

LEMMA InitIInv == Init => IInv
  <1> SUFFICES ASSUME Init PROVE IInv
    OBVIOUS
  <1>1. TypeOK
    <2>1. Flags
      BY DEF Init, Flags
    <2>2. Figures
      BY GuardianAssumption DEF Init, Figures
    <2>3. QED
      BY <2>1, <2>2, TypeOKParts
  <1>2. ErrorsTrip
    BY GuardianAssumption DEF Init, ErrorsTrip
  <1>3. ReasonGiven
    BY DEF Init, ReasonGiven
  <1>4. CancelledIsStopped /\ CandlesAreDue /\ RunningIsMonitored
    BY DEF Init, CancelledIsStopped, CandlesAreDue, RunningIsMonitored
  <1>5. QED
    BY <1>1, <1>2, <1>3, <1>4 DEF IInv

\* The synchronous checks name a reason or none.
LEMMA VerdictType ==
    ASSUME NEW v, NEW book
    PROVE  Verdict(v, book) \in {"drawdown", "daily_loss", "positions", "none"}
  BY DEF Verdict

LEMMA BeginRunIInv ==
    ASSUME IInv, NEW x \in Runners, NEW v \in Told, NEW book, BeginRun(x, v, book)
    PROVE  IInv'
  <1> DEFINE kind == Verdict(v, book)
  <1>1. kind \in {"drawdown", "daily_loss", "positions", "none"}
    BY VerdictType
  <1> HIDE DEF kind
  <1>2. v \in Nat \cup {None} /\ Raised(v) \in Nat
    BY ToldIsWorth DEF IInv, TypeOK, Raised
  <1>3. /\ pc[x] = "idle" /\ Runnable(x)
        /\ UNCHANGED <<errors, dayStart, running, stopping, env>>
    BY DEF BeginRun
  <1>4. CASE active \/ kind # "none"
    <2>1. Return(x)
      BY <1>4 DEF BeginRun, kind
    <2>2. active' /\ reason' \in Reasons /\ trips' \in Nat /\ peak' \in Nat
      BY <1>1, <1>2, <1>4 DEF BeginRun, kind, Trip, IInv, TypeOK, Reasons, ReasonGiven, switch
    <2>3. QED
      BY <1>3, <2>1, <2>2, GuardianAssumption
      DEF IInv, TypeOK, CancelledIsStopped, CandlesAreDue, ErrorsTrip, ReasonGiven,
          RunningIsMonitored, Alive, Return, After, env, Reasons
  <1>5. CASE ~active /\ kind = "none"
    <2>1. /\ pc' = [pc EXCEPT ![x] = IF NumSymbols > 0 THEN "candles" ELSE "probe"]
          /\ todo' = [todo EXCEPT ![x] = NumSymbols]
          /\ UNCHANGED switch /\ peak' \in Nat
      BY <1>2, <1>5 DEF BeginRun, kind, IInv, TypeOK
    <2>2. QED
      BY <1>3, <2>1, GuardianAssumption
      DEF IInv, TypeOK, CancelledIsStopped, CandlesAreDue, ErrorsTrip, ReasonGiven,
          RunningIsMonitored, Alive, env, switch
  <1>6. QED
    BY <1>4, <1>5

LEMMA CandlesArriveIInv ==
    ASSUME IInv, NEW x \in Runners, NEW extreme \in BOOLEAN, CandlesArrive(x, extreme)
    PROVE  IInv'
  <1> USE DEF IInv, CandlesArrive, Return, After, switch, env
  <1>1. Flags'
    BY TypeOKParts DEF Flags, Trip
  <1>2. Figures'
    BY TypeOKParts, GuardianAssumption DEF Figures, Trip, Reasons, CandlesAreDue
  <1>3. ErrorsTrip'
    BY DEF Trip, ErrorsTrip
  <1>4. ReasonGiven'
    BY DEF Trip, ReasonGiven
  <1>5. CandlesAreDue'
    BY TypeOKParts, GuardianAssumption DEF CandlesAreDue, Figures
  <1>6. CancelledIsStopped' /\ RunningIsMonitored'
    <2>1. running' = running /\ stopping' = stopping
      OBVIOUS
    <2>2. Alive => Alive'
      BY TypeOKParts DEF Alive, Figures, Runners
    <2>3. QED
      BY <2>1, <2>2 DEF CancelledIsStopped, RunningIsMonitored
  <1>7. QED
    BY <1>1, <1>2, <1>3, <1>4, <1>5, <1>6, TypeOKPartsNext, Zenon

LEMMA ProbeAnswersIInv ==
    ASSUME IInv, NEW x \in Runners, ProbeAnswers(x)
    PROVE  IInv'
  <1> USE DEF IInv, ProbeAnswers, Return, After, switch, env
  <1>1. Flags'
    BY TypeOKParts DEF Flags, Trip
  <1>2. Figures'
    BY TypeOKParts, GuardianAssumption DEF Figures, Trip, Reasons
  <1>3. ErrorsTrip'
    <2>1. CASE api = "up"
      <3>1. ~(errors' >= MaxErrors)
        BY <2>1, GuardianAssumption
      <3>2. QED
        BY <3>1 DEF ErrorsTrip
    <2>2. CASE api # "up" /\ errors' >= MaxErrors
      <3>1. Trip("api")
        BY <2>2, TypeOKParts DEF Figures
      <3>2. QED
        BY <3>1 DEF Trip, ErrorsTrip
    <2>3. CASE ~(errors' >= MaxErrors)
      BY <2>3 DEF ErrorsTrip
    <2>4. QED
      BY <2>1, <2>2, <2>3
  <1>4. ReasonGiven'
    BY DEF Trip, ReasonGiven
  <1>5. CandlesAreDue'
    BY TypeOKParts, GuardianAssumption DEF CandlesAreDue, Figures
  <1>6. CancelledIsStopped' /\ RunningIsMonitored'
    BY TypeOKParts, GuardianAssumption
    DEF CancelledIsStopped, RunningIsMonitored, Alive, Cleared, Figures
  <1>7. QED
    BY <1>1, <1>2, <1>3, <1>4, <1>5, <1>6, TypeOKPartsNext, Zenon

LEMMA CancelRunIInv ==
    ASSUME IInv, NEW x \in Runners, CancelRun(x)
    PROVE  IInv'
  BY GuardianAssumption
  DEF IInv, TypeOK, CancelledIsStopped, CandlesAreDue, ErrorsTrip, ReasonGiven,
      RunningIsMonitored, Alive, CancelRun, Return, After, switch, env

LEMMA LifecycleIInv ==
    ASSUME IInv, Lifecycle
    PROVE  IInv'
  <1> USE GuardianAssumption
      DEF IInv, TypeOK, CancelledIsStopped, CandlesAreDue, ErrorsTrip, ReasonGiven,
          RunningIsMonitored, Alive, switch, env, Runners
  <1>1. ASSUME NEW v \in {None, worth}, StartMonitoring(v)
        PROVE  IInv'
    BY <1>1 DEF StartMonitoring
  <1>2. CASE Wake
    BY <1>2 DEF Wake
  <1>3. CASE LoopEnds
    BY <1>3 DEF LoopEnds
  <1>4. CASE Stop
    BY <1>4 DEF Stop
  <1>5. CASE MonitorCancelled
    <2>1. ~running /\ ~running'
      BY <1>5 DEF MonitorCancelled
    <2>2. Flags' /\ ErrorsTrip' /\ ReasonGiven'
      BY <1>5, <2>1 DEF MonitorCancelled, Flags
    <2>3. Figures' /\ CandlesAreDue'
      BY <1>5 DEF MonitorCancelled, Figures
    <2>4. CancelledIsStopped' /\ RunningIsMonitored'
      BY <1>5, <2>1 DEF MonitorCancelled
    <2>5. QED
      BY <2>2, <2>3, <2>4, TypeOKPartsNext, Zenon
  <1>6. CASE StopEnds
    BY <1>6 DEF StopEnds
  <1>7. QED
    BY <1>1, <1>2, <1>3, <1>4, <1>5, <1>6 DEF Lifecycle

LEMMA OperatorIInv ==
    ASSUME IInv, Operator \/ World
    PROVE  IInv'
  <1> USE GuardianAssumption
      DEF IInv, TypeOK, CancelledIsStopped, CandlesAreDue, ErrorsTrip, ReasonGiven,
          RunningIsMonitored, Alive, switch, env
  <1>1. CASE ResetKillSwitch
    <2>1. ReasonGiven' /\ Flags' /\ CancelledIsStopped' /\ RunningIsMonitored'
      BY <1>1 DEF ResetKillSwitch, Flags
    <2>2. Figures' /\ CandlesAreDue'
      BY <1>1 DEF ResetKillSwitch, Figures
    <2>3. ErrorsTrip'
      BY <1>1 DEF ResetKillSwitch
    <2>4. QED
      BY <2>1, <2>2, <2>3, TypeOKPartsNext, Zenon
  <1>2. CASE SetPortfolioValue(worth)
    BY <1>2 DEF SetPortfolioValue
  <1>3. CASE ResetDailyTracking(worth)
    BY <1>3 DEF ResetDailyTracking
  <1>4. CASE World
    BY <1>4 DEF World
  <1>5. QED
    BY <1>1, <1>2, <1>3, <1>4 DEF Operator

LEMMA NextIInv == IInv /\ [Next]_vars => IInv'
  <1> SUFFICES ASSUME IInv, [Next]_vars PROVE IInv'
    OBVIOUS
  <1>1. ASSUME NEW x \in Runners, RunStep(x) \/ CancelRun(x)
        PROVE  IInv'
    BY <1>1, BeginRunIInv, CandlesArriveIInv, ProbeAnswersIInv, CancelRunIInv DEF RunStep
  <1>2. CASE UNCHANGED vars
    BY <1>2
    DEF vars, IInv, TypeOK, CancelledIsStopped, CandlesAreDue, ErrorsTrip,
        ReasonGiven, RunningIsMonitored, Alive
  <1>3. QED
    BY <1>1, <1>2, LifecycleIInv, OperatorIInv DEF Next

-----------------------------------------------------------------------------
\* The strengthened invariant holds in every reachable state.
THEOREM InductiveInvariant == Spec => []IInv
  BY InitIInv, NextIInv, PTL DEF Spec

\* Every variable keeps its type.
THEOREM TypeCorrect == Spec => []TypeOK
  <1>1. IInv => TypeOK
    BY DEF IInv
  <1>2. QED
    BY <1>1, InductiveInvariant, PTL

\* Whoever counts the errors, the limit is never reached with the switch off.
THEOREM ErrorSafety == Spec => []ErrorsTrip
  <1>1. IInv => ErrorsTrip
    BY DEF IInv
  <1>2. QED
    BY <1>1, InductiveInvariant, PTL

\* The switch and its reason agree.
THEOREM ReasonSafety == Spec => []ReasonGiven
  <1>1. IInv => ReasonGiven
    BY DEF IInv
  <1>2. QED
    BY <1>1, InductiveInvariant, PTL

\* Starts and stops that overlap never leave _running set without a monitor.
THEOREM MonitorSafety == Spec => []RunningIsMonitored
  <1>1. IInv => RunningIsMonitored
    BY DEF IInv
  <1>2. QED
    BY <1>1, InductiveInvariant, PTL

-----------------------------------------------------------------------------
(* The peak.                                                               *)

LEMMA NextPeak == IInv /\ [Next]_vars => peak' >= peak
  <1> SUFFICES ASSUME IInv, [Next]_vars PROVE peak' >= peak
    OBVIOUS
  <1>1. peak \in Nat /\ worth \in Nat
    BY GuardianAssumption DEF IInv, TypeOK
  <1>2. ASSUME NEW x \in Runners, RunStep(x) \/ CancelRun(x)
        PROVE  peak' >= peak
    <2>1. ASSUME NEW v \in Told, NEW book, BeginRun(x, v, book)
          PROVE  peak' >= peak
      <3>1. peak' \in {peak, Raised(v)}
        BY <2>1 DEF BeginRun
      <3>2. Raised(v) >= peak
        BY <1>1, <2>1, GuardianAssumption DEF Raised, Told
      <3>3. QED
        BY <1>1, <3>1, <3>2
    <2>2. ASSUME UNCHANGED peak
          PROVE  peak' >= peak
      BY <1>1, <2>2
    <2>3. QED
      BY <1>2, <2>1, <2>2 DEF RunStep, CandlesArrive, ProbeAnswers, CancelRun
  <1>3. CASE Lifecycle
    <2>1. ASSUME NEW v \in {None, worth}, StartMonitoring(v)
          PROVE  peak' >= peak
      BY <1>1, <2>1 DEF StartMonitoring
    <2>2. CASE Wake \/ LoopEnds \/ Stop \/ MonitorCancelled \/ StopEnds
      <3>1. peak' = peak
        BY <2>2 DEF Wake, LoopEnds, Stop, MonitorCancelled, StopEnds
      <3>2. QED
        BY <1>1, <3>1
    <2>3. QED
      BY <1>3, <2>1, <2>2 DEF Lifecycle
  <1>4. CASE Operator \/ World
    BY <1>1, <1>4 DEF Operator, ResetKillSwitch, SetPortfolioValue, ResetDailyTracking, World
  <1>5. CASE UNCHANGED vars
    BY <1>1, <1>5 DEF vars
  <1>6. QED
    BY <1>2, <1>3, <1>4, <1>5 DEF Next

\* No step, not even a restart of the monitor, lowers the peak.
THEOREM PeakSafety == Spec => PeakNeverFalls
  <1>1. IInv /\ [Next]_vars => [peak' >= peak]_vars
    BY NextPeak
  <1>2. QED
    BY <1>1, InductiveInvariant, PTL DEF Spec, PeakNeverFalls

-----------------------------------------------------------------------------
(* The number of trips: every task that is under way has yet to spend the  *)
(* one trip it may cause, so trips and tasks together never exceed Runners. *)

LEMMA FlightCount ==
    /\ IsFiniteSet(InFlight)
    /\ Cardinality(InFlight) \in Nat /\ Cardinality(Runners) \in Nat
    /\ Cardinality(InFlight) <= Cardinality(Runners)
  BY RunnersFinite, FS_Subset, FS_CardinalityType DEF InFlight

\* A task that has begun but not departed leaves one place.
LEMMA Departure ==
    ASSUME NEW x \in InFlight, InFlight' = InFlight \ {x}
    PROVE  Cardinality(InFlight') = Cardinality(InFlight) - 1
  BY FlightCount, FS_RemoveElement

\* A task that is not under way is one of the places.
LEMMA Room ==
    ASSUME NEW x \in Runners, x \notin InFlight
    PROVE  Cardinality(InFlight) + 1 <= Cardinality(Runners)
  <1>1. InFlight \cup {x} \subseteq Runners
    BY DEF InFlight
  <1>2. Cardinality(InFlight \cup {x}) = Cardinality(InFlight) + 1
    BY FlightCount, FS_AddElement
  <1>3. Cardinality(InFlight \cup {x}) <= Cardinality(Runners)
    BY <1>1, RunnersFinite, FS_Subset
  <1>4. QED
    BY <1>2, <1>3

\* Nobody departs and the switch stays as it is.
LEMMA NothingSpent ==
    ASSUME BoundedTrips, UNCHANGED switch, InFlight' = InFlight
    PROVE  BoundedTrips'
  BY DEF BoundedTrips, switch

\* A task departs, with or without tripping the switch.
LEMMA Spent ==
    ASSUME IInv, BoundedTrips, NEW x \in InFlight, InFlight' = InFlight \ {x},
           NEW kind, Trip(kind) \/ UNCHANGED switch
    PROVE  BoundedTrips'
  <1>1. Cardinality(InFlight') = Cardinality(InFlight) - 1
    BY Departure
  <1>2. trips \in Nat
    BY TypeOKParts DEF IInv, Figures
  <1>3. CASE Trip(kind) /\ active
    <2>1. trips' = trips + 1 /\ trips + Cardinality(InFlight) <= Cardinality(Runners)
      BY <1>3 DEF Trip, BoundedTrips
    <2>2. trips' + Cardinality(InFlight') <= Cardinality(Runners)
      BY <1>1, <1>2, <2>1, FlightCount
    <2>3. QED
      BY <2>2 DEF BoundedTrips
  <1>4. CASE Trip(kind) /\ ~active
    <2>1. trips' = 1
      BY <1>4 DEF Trip
    <2>2. trips' + Cardinality(InFlight') <= Cardinality(Runners)
      BY <1>1, <2>1, FlightCount
    <2>3. QED
      BY <2>2 DEF BoundedTrips
  <1>5. CASE UNCHANGED switch
    <2>1. CASE active
      <3>1. trips' = trips /\ trips + Cardinality(InFlight) <= Cardinality(Runners)
        BY <1>5, <2>1 DEF switch, BoundedTrips
      <3>2. trips' + Cardinality(InFlight') <= Cardinality(Runners)
        BY <1>1, <1>2, <3>1, FlightCount
      <3>3. QED
        BY <3>2 DEF BoundedTrips
    <2>2. CASE ~active
      BY <1>5, <2>2 DEF switch, BoundedTrips
    <2>3. QED
      BY <2>1, <2>2
  <1>6. QED
    BY <1>3, <1>4, <1>5

LEMMA BeginRunBounded ==
    ASSUME IInv, BoundedTrips, NEW x \in Runners, NEW v, NEW book, BeginRun(x, v, book)
    PROVE  BoundedTrips'
  <1> DEFINE kind == Verdict(v, book)
  <1> HIDE DEF kind
  <1>1. pc[x] = "idle" /\ x \notin InFlight /\ pc \in [Runners -> {"idle", "candles", "probe", "asleep", "off"}]
    BY TypeOKParts DEF BeginRun, InFlight, IInv, Figures
  <1>2. CASE active
    <2>1. UNCHANGED switch /\ Return(x)
      BY <1>2 DEF BeginRun
    <2>2. InFlight' = InFlight
      BY <1>1, <2>1 DEF Return, After, InFlight
    <2>3. QED
      BY <2>1, <2>2, NothingSpent
  <1>3. CASE ~active /\ kind # "none"
    <2>1. Trip(kind) /\ Return(x)
      BY <1>3 DEF BeginRun, kind
    <2>2. InFlight' = InFlight
      BY <1>1, <2>1 DEF Return, After, InFlight
    <2>3. trips' = 1
      BY <1>3, <2>1 DEF Trip
    <2>4. trips' + Cardinality(InFlight') <= Cardinality(Runners)
      BY <1>1, <2>2, <2>3, Room, FlightCount
    <2>5. QED
      BY <2>4 DEF BoundedTrips
  <1>4. CASE ~active /\ kind = "none"
    <2>1. ~active'
      BY <1>4 DEF BeginRun, kind, switch
    <2>2. QED
      BY <2>1 DEF BoundedTrips
  <1>5. QED
    BY <1>2, <1>3, <1>4

LEMMA AnswerBounded ==
    ASSUME IInv, BoundedTrips, NEW x \in Runners,
           ProbeAnswers(x) \/ CancelRun(x) \/ \E extreme \in BOOLEAN : CandlesArrive(x, extreme)
    PROVE  BoundedTrips'
  <1>1. x \in InFlight /\ pc \in [Runners -> {"idle", "candles", "probe", "asleep", "off"}]
    BY TypeOKParts DEF ProbeAnswers, CancelRun, CandlesArrive, InFlight, IInv, Figures
  <1>2. CASE Return(x)
    <2>1. InFlight' = InFlight \ {x}
      BY <1>1, <1>2 DEF Return, After, InFlight
    <2>2. Trip("api") \/ Trip("volatility") \/ UNCHANGED switch
      BY DEF ProbeAnswers, CancelRun, CandlesArrive
    <2>3. QED
      BY <1>1, <2>1, <2>2, Spent
  <1>3. CASE ~Return(x)
    <2>1. UNCHANGED switch /\ pc' = [pc EXCEPT ![x] = IF todo[x] > 1 THEN "candles" ELSE "probe"]
      BY <1>3 DEF ProbeAnswers, CancelRun, CandlesArrive
    <2>2. InFlight' = InFlight
      BY <1>1, <2>1 DEF InFlight
    <2>3. QED
      BY <2>1, <2>2, NothingSpent
  <1>4. QED
    BY <1>2, <1>3

LEMMA LifecycleBounded ==
    ASSUME IInv, BoundedTrips, Lifecycle
    PROVE  BoundedTrips'
  <1>1. UNCHANGED switch /\ pc \in [Runners -> {"idle", "candles", "probe", "asleep", "off"}]
    BY TypeOKParts
    DEF Lifecycle, StartMonitoring, Wake, LoopEnds, Stop, MonitorCancelled, StopEnds, IInv, Figures
  <1>2. CASE MonitorCancelled
    <2>1. pc' = [pc EXCEPT ![Monitor] = "off"]
      BY <1>2 DEF MonitorCancelled
    <2>2. CASE Monitor \in InFlight
      <3>1. InFlight' = InFlight \ {Monitor}
        BY <1>1, <2>1 DEF InFlight
      <3>2. QED
        BY <1>1, <2>2, <3>1, Spent
    <2>3. CASE Monitor \notin InFlight
      <3>1. InFlight' = InFlight
        BY <1>1, <2>1, <2>3 DEF InFlight, Runners
      <3>2. QED
        BY <1>1, <3>1, NothingSpent
    <2>4. QED
      BY <2>2, <2>3
  <1>3. CASE \E v \in {None, worth} : StartMonitoring(v)
    <2>1. InFlight' = InFlight
      BY <1>1, <1>3 DEF StartMonitoring, Alive, InFlight
    <2>2. QED
      BY <1>1, <2>1, NothingSpent
  <1>4. CASE Wake \/ LoopEnds \/ Stop \/ StopEnds
    <2>1. InFlight' = InFlight
      BY <1>1, <1>4 DEF Wake, LoopEnds, Stop, StopEnds, InFlight
    <2>2. QED
      BY <1>1, <2>1, NothingSpent
  <1>5. QED
    BY <1>2, <1>3, <1>4 DEF Lifecycle

LEMMA NextBounded == IInv /\ BoundedTrips /\ [Next]_vars => BoundedTrips'
  <1> SUFFICES ASSUME IInv, BoundedTrips, [Next]_vars PROVE BoundedTrips'
    OBVIOUS
  <1>1. ASSUME NEW x \in Runners, RunStep(x) \/ CancelRun(x)
        PROVE  BoundedTrips'
    BY <1>1, BeginRunBounded, AnswerBounded DEF RunStep
  <1>2. CASE ResetKillSwitch
    BY <1>2 DEF ResetKillSwitch, BoundedTrips
  <1>3. CASE UNCHANGED <<switch, pc>>
    BY <1>3, NothingSpent DEF InFlight
  <1>4. QED
    BY <1>1, <1>2, <1>3, LifecycleBounded
    DEF Next, Operator, SetPortfolioValue, ResetDailyTracking, World, vars, switch

\* Tasks inside run() trip a tripped switch at most once each: since it was last
\* off, no more trips than there are tasks.
THEOREM TripSafety == Spec => []BoundedTrips
  <1>1. Init => BoundedTrips
    BY DEF Init, BoundedTrips
  <1>2. QED
    BY <1>1, NextBounded, InductiveInvariant, PTL DEF Spec

\* The switch says what the counts of errors say, and why it is on.
THEOREM SwitchSafety == Spec => []SwitchIsRight
  BY ErrorSafety, ReasonSafety, PTL DEF SwitchIsRight

=============================================================================
