--------------------------- MODULE DecisionEngine ---------------------------
(***************************************************************************)
(* The decision engine: the signals of one analysis are saved, clamped,    *)
(* deduplicated, weighted and turned into one decision, which is saved in  *)
(* turn, over one database session that the whole application shares.      *)
(*                                                                         *)
(* Models src/src/agents/decision_engine.py, src/src/agents/signal.py and  *)
(* the writing half of src/src/database/repository.py.  The language model *)
(* has no say: chat_completion is synchronous, waiting for its dictionary  *)
(* raises, the explanation is "N/A" and process_signals never suspends.    *)
(* Confidences, weights and thresholds are in hundredths.  SQLAlchemy is   *)
(* external: a session whose commit failed fails until it is rolled back,  *)
(* which no code of the application does.                                  *)
(***************************************************************************)
EXTENDS Totals, FiniteSets

CONSTANTS Emitted,    \* the signals that the agents may emit
          MaxSignals  \* bound: signals in one analysis

VARIABLES given,    \* the signals of the last analysis
          chosen,   \* the decision made of them
          rows,     \* its rows in the database: signals and decision
          handed,   \* whether a decision waits to be taken on
          session   \* "good", or "broken" after a failed commit

engineVars == <<given, chosen, rows, handed, session>>

(* A signal is a record of its market (a symbol on a timeframe), source,    *)
(* action, confidence, priority and timestamp, the field "at".              *)
SignalRecord ==
  [market : STRING, source : STRING, action : {"buy", "sell", "hold"},
   confidence : Int, at : Int, priority : STRING]

ASSUME EngineAssumption == MaxSignals \in Nat /\ Emitted \subseteq SignalRecord

Normalized(s) ==
  [s EXCEPT !.confidence = IF @ < 0 THEN 0 ELSE IF @ > 100 THEN 100 ELSE @]

Same(s, t) == s.market = t.market /\ s.source = t.source

(* Fault: a key keeps the signal that came last. *)
KeptLastCome(q) == {i \in DOMAIN q : \A j \in DOMAIN q : Same(q[i], q[j]) => j <= i}

(* A key keeps its latest signal, the first of those of the same time. *)
Kept(q) ==
  {i \in DOMAIN q : \A j \in DOMAIN q :
     Same(q[i], q[j]) => q[j].at < q[i].at \/ (q[j].at = q[i].at /\ i <= j)}

(* The signals kept, at most one of a key; their order weighs nothing. *)
Signals(q) == {q[i] : i \in Kept(q)}

Direction(s) == CASE s.action = "buy" -> 1 [] s.action = "sell" -> -1 [] OTHER -> 0

Weight(source) ==
  CASE source = "technical" -> 30 [] source \in {"sentiment", "momentum"} -> 20
    [] source = "risk" -> 15 [] source = "on-chain" -> 5 [] OTHER -> 10

(* Every priority signal boosts the score of the alpha source once more,   *)
(* in hundredths; two boosts at most are told apart here.                  *)
BoostOf(s) == CASE s.priority = "immediate" -> 150 [] s.priority = "high" -> 120 [] OTHER -> 100
Boost(kept) == FoldSet(LAMBDA s, b : (b * BoostOf(s)) \div 100, 100, kept)

(* One source's mean of direction times confidence, in 1/60 of a hundredth *)
(* (up to six signals have an exact mean), and boosted.                    *)
SourceScore(kept, source) ==
  LET own == {s \in kept : s.source = source}
      sum == SumOver([s \in own |-> Direction(s) * s.confidence], own)
  IN  ((sum * 60) \div Cardinality(own)) * (IF source = "alpha" THEN Boost(own) ELSE 100)

SourcesOf(kept) == {s.source : s \in kept}

(* The weighted score over the total weight, as a fraction; UnitScore is 1.0. *)
UnitScore == 100 * 60 * 100
TotalWeight(kept) == SumOver([src \in SourcesOf(kept) |-> Weight(src)], SourcesOf(kept))
WeightedSum(kept) ==
  SumOver([src \in SourcesOf(kept) |-> Weight(src) * SourceScore(kept, src)], SourcesOf(kept))

Exceeds(kept, hundredths) ==
  WeightedSum(kept) > TotalWeight(kept) * hundredths * (UnitScore \div 100)
FallsBelow(kept, hundredths) ==
  WeightedSum(kept) < TotalWeight(kept) * hundredths * (UnitScore \div 100)

MakeDecision(kept) ==
  CASE Exceeds(kept, 60) -> "buy" [] FallsBelow(kept, -60) -> "sell" [] OTHER -> "hold"

(* The mean confidence, in 1/60 of a hundredth, with the agreement bonus. *)
Agree(kept) == Cardinality({s.action : s \in kept} \ {"hold"}) = 1
MeanConfidence(kept) ==
  (SumOver([s \in kept |-> s.confidence], kept) * 60) \div Cardinality(kept)
Confidence(kept) ==
  IF Agree(kept) THEN Min({MeanConfidence(kept) + 15 * 60, 95 * 60}) ELSE MeanConfidence(kept)

Hold == [action |-> "hold", confidence |-> 0, of |-> {}]

Decision(q) ==
  IF q = <<>> THEN Hold
  ELSE LET kept == Signals([i \in DOMAIN q |-> Normalized(q[i])])
       IN  [action |-> MakeDecision(kept), confidence |-> Confidence(kept), of |-> kept]

EngineInit ==
  /\ given = <<>> /\ chosen = Hold
  /\ rows = [signals |-> 0, decision |-> FALSE]
  /\ handed = FALSE /\ session = "good"

(* One analysis.  The signals are saved as they came, one commit each; a   *)
(* failed commit is logged and the analysis goes on; n is the number of    *)
(* commits that succeed before the database fails.                         *)
ProcessSignals(q, n) ==
  LET commits == IF session = "broken" THEN 0 ELSE n IN
  /\ ~handed /\ handed' = TRUE
  /\ given' = q
  /\ chosen' = Decision(q)
  /\ rows' = [signals |-> IF commits < Len(q) THEN commits ELSE Len(q),
              decision |-> commits > Len(q)]
  /\ session' = IF commits > Len(q) THEN session ELSE "broken"

(* The caller takes the decision on; the session is all that stays. *)
HandOver ==
  /\ handed /\ handed' = FALSE
  /\ given' = <<>> /\ chosen' = Hold /\ rows' = [signals |-> 0, decision |-> FALSE]
  /\ UNCHANGED session

EngineNext ==
  \/ \E k \in 0..MaxSignals : \E q \in [1..k -> Emitted], n \in 0..(k + 1) : ProcessSignals(q, n)
  \/ HandOver

EngineSpec == EngineInit /\ [][EngineNext]_engineVars

------------------------------------------------------------------------------
EngineTypeOK ==
  /\ chosen.action \in {"buy", "sell", "hold"} /\ chosen.confidence \in 0..(100 * 60)
  /\ rows.signals \in 0..MaxSignals /\ rows.decision \in BOOLEAN
  /\ handed \in BOOLEAN
  /\ session \in {"good", "broken"}

(* "Deterministic: same inputs always produce same outputs": the order in  *)
(* which the parallel agents hand in their signals changes the decision    *)
(* only when two signals of one key carry the same time.                   *)
OrderOnlyMattersOnTies ==
  (\A i, j \in DOMAIN given : Same(given[i], given[j]) /\ given[i].at = given[j].at => i = j)
    => \A i, j \in DOMAIN given :
         LET other == Decision([given EXCEPT ![i] = given[j], ![j] = given[i]])
         IN  /\ other.action = chosen.action
             /\ other.confidence = chosen.confidence

(* The engine decides to trade only in a direction that a signal it kept   *)
(* argues for, through every mean, weight and boost: signals that say sell *)
(* or hold never add up to a buy.                                          *)
DecisionHasASignal ==
  chosen.action # "hold" => \E s \in chosen.of : s.action = chosen.action

(* A decision that is in the database has all of its signals there, and a  *)
(* decision is made whether or not the database takes it.                  *)
SavedDecisionHasSignals == rows.decision => rows.signals = Len(given)

(* The decision follows from its signals: from their content and not their *)
(* order, in the direction of one of them, and as the database has them.   *)
DecisionFollows == OrderOnlyMattersOnTies /\ DecisionHasASignal /\ SavedDecisionHasSignals
==============================================================================
