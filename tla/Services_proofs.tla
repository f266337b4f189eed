--------------------------- MODULE Services_proofs ---------------------------
(***************************************************************************)
(* Proofs about TradingSystem, Delegation, TaskScheduler, Heartbeat and    *)
(* Tracing, for any pairs, channels, agents, loops, periods and bounds,    *)
(* and about all services side by side.                                    *)
(***************************************************************************)
EXTENDS Services, Buses_proofs, Clients_proofs,
        FunctionTheorems, FiniteSetTheorems, SequenceTheorems, TLAPS

-----------------------------------------------------------------------------
(* TradingSystem.                                                           *)

(* The inductive invariant.                                                *)

(* The shutdown has ended what comes before its position, and closed none  *)
(* of the connections that come at it or after it.                         *)
StopsInOrder ==
    /\ app = "new" => \A w \in Work : at[w] = "off"
    /\ app = "up" => open = {"data", "client"}
    /\ app = "stopping" =>
          /\ stage \in 1..8
          /\ \A i \in 1..8 : i < stage /\ Shutdown[i] \in Work => at[Shutdown[i]] = "off"
          /\ stage <= 7 => "data" \in open
          /\ "client" \in open
    /\ app = "down" => \A w \in Work : at[w] = "off"

(* An order is only there when the decision was to trade.                  *)
OrdersAreDecided == orders # {} => graph.decision \in {"buy", "sell"}

(* Whoever goes through the graph does it for a pair.                      *)
PairIsTaken == at["analysis"] \notin {"off", "asleep", "run"} => pair # 0

TradingIInv == TradingTypeOK /\ StopsInOrder /\ PairIsTaken /\ OrdersAreDecided /\ OrdersAreAnnounced

------------------------------------------------------------------------------
LEMMA NodesInOrder ==
    /\ Successor("market_monitor") = "decision"
    /\ Successor("decision") = "execution"
    /\ Successor("execution") = "END"
  <1> DEFINE next(n) == {m \in {e[2] : e \in Edges} : <<n, m>> \in Edges}
  <1>1. /\ next("market_monitor") = {"decision"}
        /\ next("decision") = {"execution"}
        /\ next("execution") = {"END"}
    BY DEF Edges
  <1> QED
    BY <1>1 DEF Successor

LEMMA ShutdownPlaces ==
    /\ Len(Shutdown) = 8
    /\ Shutdown[1] = "analysis" /\ Shutdown[2] = "sentiment" /\ Shutdown[3] = "risk"
    /\ Shutdown[4] = "monitor" /\ Shutdown[5] = "guardian" /\ Shutdown[6] = "alpha"
    /\ Shutdown[7] = "data" /\ Shutdown[8] = "client"
  BY DEF Shutdown

LEMMA Workers ==
    Work = {"analysis", "sentiment", "risk", "monitor", "guardian"}
  BY DEF Work, Cycles, Monitors

Places == {"off", "asleep", "begun", "run", "send",
           "market_monitor", "decision", "execution", "END"}

LEMMA TradingInitIInv == ASSUME TradingInit PROVE TradingIInv
  <1>1. at \in [Work -> Places] /\ \A w \in Work : at[w] = "off"
    BY DEF TradingInit, Places
  <1>2. pair \in 0..Len(Pairs) /\ unsent \in [Cycles -> 0..Len(Channels)] /\ stage \in 0..8
    BY TradingAssumption DEF TradingInit
  <1>3. graph \in [decision : {"buy", "sell", "hold"}, order : BOOLEAN]
    BY DEF TradingInit, Empty
  <1>4. /\ tripped \in BOOLEAN /\ replaceable \in BOOLEAN
        /\ open \subseteq {"data", "client"} /\ orders = {} /\ app = "new"
    BY DEF TradingInit
  <1>5. TradingTypeOK
    BY <1>1, <1>2, <1>3, <1>4 DEF TradingTypeOK, Places
  <1>6. StopsInOrder
    BY <1>1, <1>4 DEF StopsInOrder
  <1>7. PairIsTaken
    BY <1>1, Workers DEF PairIsTaken
  <1> QED
    BY <1>4, <1>5, <1>6, <1>7 DEF TradingIInv, OrdersAreDecided, OrdersAreAnnounced

(* A step of one task of the work, in which no other part of the           *)
(* application takes part.                                                 *)
LEMMA OneTaskMoves ==
    ASSUME TradingTypeOK, StopsInOrder, NEW w \in Work, at[w] # "off",
           NEW x, at' = [at EXCEPT ![w] = x], UNCHANGED <<app, open, stage>>
    PROVE  StopsInOrder'
  BY ShutdownPlaces DEF TradingTypeOK, StopsInOrder

LEMMA AtIsTyped ==
    ASSUME TradingTypeOK, NEW w \in Work, NEW x \in Places, at' = [at EXCEPT ![w] = x]
    PROVE  /\ at' \in [Work -> Places]
           /\ at'[w] = x
           /\ \A v \in Work : v # w => at'[v] = at[v]
  BY DEF TradingTypeOK, Places

(* What concerns the analysis stays when neither it nor its pair moves.    *)
LEMMA AnalysisRests ==
    ASSUME TradingIInv, at'["analysis"] = at["analysis"], UNCHANGED <<pair, graph, orders>>
    PROVE  PairIsTaken' /\ OrdersAreDecided' /\ OrdersAreAnnounced'
  BY DEF TradingIInv, PairIsTaken, OrdersAreDecided, OrdersAreAnnounced

(* Loops, the sentiment and the risk cycle leave the analysis alone.       *)
LEMMA OtherWorkIInv ==
    ASSUME TradingIInv, NEW w \in Work,
           Wake(w) \/ RunEnds(w)
    PROVE  TradingIInv'
  <1>1. PICK x \in {"run", "asleep"} :
          /\ at' = [at EXCEPT ![w] = x]
          /\ w = "analysis" => x = "asleep" /\ at[w] = "run"
    BY DEF Wake, RunEnds
  <1>2. tripped' \in BOOLEAN
    BY DEF TradingIInv, TradingTypeOK, Wake, RunEnds
  <1>3. at[w] # "off" /\ UNCHANGED <<app, pair, graph, unsent, open, stage, replaceable, orders>>
    BY DEF Wake, RunEnds
  <1>4. TradingTypeOK /\ x \in Places
    BY DEF TradingIInv, Places
  <1>5. /\ at' \in [Work -> Places]
        /\ at'[w] = x
        /\ \A v \in Work : v # w => at'[v] = at[v]
    BY <1>1, <1>4, AtIsTyped
  <1>6. TradingTypeOK'
    BY <1>2, <1>3, <1>4, <1>5 DEF TradingTypeOK, Places
  <1>7. StopsInOrder'
    BY <1>1, <1>3, <1>4, OneTaskMoves DEF TradingIInv
  <1>8. CASE w # "analysis"
    BY <1>3, <1>5, <1>6, <1>7, <1>8, AnalysisRests, Workers DEF TradingIInv
  <1>9. CASE w = "analysis"
    <2>1. at["analysis"] = "run" /\ at'["analysis"] = "asleep"
      BY <1>1, <1>5, <1>9
    <2>2. orders = {}
      BY <2>1 DEF TradingIInv, OrdersAreAnnounced
    <2>3. PairIsTaken' /\ OrdersAreDecided' /\ OrdersAreAnnounced'
      BY <1>3, <2>1, <2>2 DEF PairIsTaken, OrdersAreDecided, OrdersAreAnnounced
    <2> QED
      BY <1>6, <1>7, <2>3 DEF TradingIInv
  <1> QED
    BY <1>8, <1>9

LEMMA CheckRiskIInv == ASSUME TradingIInv, CheckRisk PROVE TradingIInv'
  <1>1. "risk" \in Work /\ "risk" \in Cycles /\ Len(Channels) \in 0..Len(Channels) /\ "analysis" \in Work
    BY TradingAssumption DEF Work, Cycles
  <1>2. TradingTypeOK /\ StopsInOrder
    BY DEF TradingIInv
  <1>3. PICK x \in {"asleep", "send"} :
          at' = [at EXCEPT !["risk"] = x] \/ (at' = at /\ at["risk"] = "send" /\ x = "send")
    BY DEF CheckRisk, RiskRunEnds, SendOne, AlertSent
  <1>4. at["risk"] # "off" /\ UNCHANGED <<app, pair, graph, open, stage, replaceable, orders>>
    BY DEF CheckRisk, RiskRunEnds, SendOne, AlertSent
  <1>5. tripped' \in BOOLEAN
    BY <1>2 DEF CheckRisk, RiskRunEnds, SendOne, AlertSent, TradingTypeOK
  <1>6. unsent' \in [Cycles -> 0..Len(Channels)]
    <2>1. CASE \E ok \in BOOLEAN : RiskRunEnds(ok)
      BY <1>1, <1>2, <2>1 DEF RiskRunEnds, TradingTypeOK
    <2>2. CASE SendOne("risk")
      <3>1. unsent["risk"] - 1 \in 0..Len(Channels)
        BY <1>1, <1>2, <2>2, TradingAssumption DEF SendOne, TradingTypeOK
      <3> QED
        BY <1>2, <2>2, <3>1 DEF SendOne, TradingTypeOK
    <2>3. CASE AlertSent
      BY <1>2, <2>3 DEF AlertSent, TradingTypeOK
    <2> QED
      BY <2>1, <2>2, <2>3 DEF CheckRisk
  <1>7. CASE at' = [at EXCEPT !["risk"] = x]
    <2>1. x \in Places
      BY DEF Places
    <2>2. at' \in [Work -> Places] /\ \A v \in Work : v # "risk" => at'[v] = at[v]
      BY <1>1, <1>2, <1>7, <2>1, AtIsTyped
    <2>3. TradingTypeOK'
      BY <1>2, <1>4, <1>5, <1>6, <2>2 DEF TradingTypeOK, Places
    <2>4. StopsInOrder'
      BY <1>1, <1>2, <1>4, <1>7, OneTaskMoves
    <2>5. at'["analysis"] = at["analysis"]
      BY <1>1, <2>2
    <2> QED
      BY <1>4, <2>3, <2>4, <2>5, AnalysisRests DEF TradingIInv
  <1>8. CASE at' = at
    <2>1. TradingTypeOK'
      BY <1>2, <1>4, <1>5, <1>6, <1>8 DEF TradingTypeOK
    <2>2. StopsInOrder'
      BY <1>2, <1>4, <1>8 DEF StopsInOrder
    <2> QED
      BY <1>4, <1>8, <2>1, <2>2, AnalysisRests DEF TradingIInv
  <1> QED
    BY <1>3, <1>7, <1>8

(* The next pair is taken up when no order waits to be announced.          *)
LEMMA TakeIInv ==
    ASSUME TradingIInv, NEW p \in Nat \ {0}, Take(p), at["analysis"] # "off",
           UNCHANGED <<app, unsent, open, stage, tripped, replaceable>>, orders' = {}
    PROVE  TradingIInv'
  <1> USE DEF TradingIInv
  <1>1. "analysis" \in Work
    BY DEF Work, Cycles
  <1>2. \E x \in {"asleep", "begun", "market_monitor"} : at' = [at EXCEPT !["analysis"] = x]
    BY DEF Take, Entry
  <1>3. pair' \in 0..Len(Pairs) /\ graph' \in [decision : {"buy", "sell", "hold"}, order : BOOLEAN]
    <2>1. CASE p > Len(Pairs)
      BY <2>1, TradingAssumption DEF Take, TradingTypeOK
    <2>2. CASE ~(p > Len(Pairs))
      <3>1. pair' = p /\ graph' = Empty
        BY <2>2 DEF Take
      <3>2. p \in 0..Len(Pairs)
        BY <2>2, TradingAssumption
      <3> QED
        BY <3>1, <3>2 DEF Empty
    <2> QED
      BY <2>1, <2>2
  <1>4. TradingTypeOK'
    <2>1. at' \in [Work -> Places]
      BY <1>1, <1>2, AtIsTyped DEF Places
    <2> QED
      BY <1>3, <2>1 DEF TradingTypeOK, Places
  <1>5. StopsInOrder'
    BY <1>1, <1>2, OneTaskMoves
  <1>6. PairIsTaken'
    <2>1. CASE p > Len(Pairs)
      <3>1. at'["analysis"] = "asleep"
        BY <1>1, <2>1 DEF Take, TradingTypeOK
      <3> QED
        BY <3>1 DEF PairIsTaken
    <2>2. CASE ~(p > Len(Pairs))
      <3>1. pair' = p
        BY <2>2 DEF Take
      <3> QED
        BY <3>1 DEF PairIsTaken
    <2> QED
      BY <2>1, <2>2
  <1> QED
    BY <1>4, <1>5, <1>6 DEF OrdersAreDecided, OrdersAreAnnounced

LEMMA AnalyseIInv == ASSUME TradingIInv, Analyse \/ WakeAnalysis PROVE TradingIInv'
  <1> USE DEF TradingIInv
  <1>1. "analysis" \in Work /\ "analysis" \in Cycles /\ pair + 1 \in Nat \ {0} /\ 1 \in Nat \ {0}
    BY TradingAssumption DEF Work, Cycles, TradingTypeOK
  <1>2. CASE WakeAnalysis
    BY <1>1, <1>2, TakeIInv DEF WakeAnalysis, OrdersAreAnnounced
  <1>3. CASE BuildRaises
    BY <1>1, <1>3, TakeIInv DEF BuildRaises, OrdersAreAnnounced
  <1>4. CASE MonitorNode \/ DecisionNode
    <2>1. PICK x \in {"decision", "execution"} : at' = [at EXCEPT !["analysis"] = x]
      BY <1>4, NodesInOrder DEF MonitorNode, DecisionNode
    <2>2. /\ at["analysis"] \in {"market_monitor", "decision"}
          /\ UNCHANGED <<app, pair, unsent, open, stage, tripped, replaceable, orders>>
      BY <1>4 DEF MonitorNode, DecisionNode
    <2>3. graph' \in [decision : {"buy", "sell", "hold"}, order : BOOLEAN]
      BY <1>4 DEF MonitorNode, DecisionNode, TradingTypeOK
    <2>4. at' \in [Work -> Places] /\ at'["analysis"] = x
      BY <1>1, <2>1, AtIsTyped DEF Places
    <2>5. TradingTypeOK'
      BY <2>2, <2>3, <2>4 DEF TradingTypeOK, Places
    <2>6. StopsInOrder'
      BY <1>1, <2>1, <2>2, OneTaskMoves
    <2>7. orders = {}
      BY <2>2 DEF OrdersAreAnnounced
    <2>8. pair # 0
      BY <2>2 DEF PairIsTaken
    <2> QED
      BY <2>2, <2>5, <2>6, <2>7, <2>8 DEF PairIsTaken, OrdersAreDecided, OrdersAreAnnounced
  <1>6. ASSUME NEW placed \in BOOLEAN, ExecutionNode(placed)
        PROVE  TradingIInv'
    <2>1. orders = {}
      BY <1>6 DEF ExecutionNode, OrdersAreAnnounced
    <2>2. /\ at' = [at EXCEPT !["analysis"] = "END"]
          /\ graph' = [graph EXCEPT !.order = placed]
          /\ UNCHANGED <<app, pair, unsent, open, stage, tripped, replaceable>>
      BY <1>6, NodesInOrder DEF ExecutionNode
    <2>3. orders' \subseteq {pair} /\ (orders' # {} => graph.decision \in {"buy", "sell"})
      BY <1>6, <2>1 DEF ExecutionNode, TradingTypeOK
    <2>4. pair \in 1..Len(Pairs)
      BY <1>6, TradingAssumption DEF ExecutionNode, TradingTypeOK, PairIsTaken
    <2>5. TradingTypeOK'
      BY <1>1, <2>2, <2>3, <2>4 DEF TradingTypeOK
    <2>6. StopsInOrder'
      BY <1>1, <1>6, <2>2, OneTaskMoves DEF ExecutionNode
    <2>7. PairIsTaken' /\ OrdersAreDecided' /\ OrdersAreAnnounced'
      BY <1>1, <2>2, <2>3, <2>4 DEF TradingTypeOK, PairIsTaken, OrdersAreDecided, OrdersAreAnnounced
    <2> QED
      BY <2>5, <2>6, <2>7
  <1>7. CASE GraphEnds /\ Announced
    <2>1. /\ at["analysis"] = "END" /\ at' = [at EXCEPT !["analysis"] = "send"]
          /\ unsent' = [unsent EXCEPT !["analysis"] = Len(Channels)]
          /\ UNCHANGED <<app, pair, graph, open, stage, tripped, replaceable, orders>>
      BY <1>7 DEF GraphEnds
    <2>2. Len(Channels) \in 0..Len(Channels)
      BY TradingAssumption
    <2>3. TradingTypeOK'
      BY <2>1, <2>2 DEF TradingTypeOK
    <2>4. StopsInOrder'
      BY <1>1, <2>1, OneTaskMoves
    <2>5. PairIsTaken' /\ OrdersAreDecided' /\ OrdersAreAnnounced'
      BY <1>1, <2>1 DEF TradingTypeOK, PairIsTaken, OrdersAreDecided, OrdersAreAnnounced
    <2> QED
      BY <2>3, <2>4, <2>5
  <1>8. CASE GraphEnds /\ ~Announced
    <2>1. orders = {}
      BY <1>8 DEF OrdersAreDecided, Announced
    <2> QED
      BY <1>1, <1>8, <2>1, TakeIInv DEF GraphEnds
  <1>9. CASE SendOne("analysis")
    BY <1>1, <1>9, TradingAssumption
    DEF SendOne, TradingTypeOK, StopsInOrder, PairIsTaken, OrdersAreDecided, OrdersAreAnnounced
  <1>10. CASE TradeSent
    <2>1. orders' = {}
      BY <1>10 DEF TradeSent, OrdersAreAnnounced
    <2> QED
      BY <1>1, <1>10, <2>1, TakeIInv DEF TradeSent
  <1> QED
    BY <1>2, <1>3, <1>4, <1>6, <1>7, <1>8, <1>9, <1>10 DEF Analyse

(* The application starts, and its switch is reset from outside.           *)
LEMMA StartIInv == ASSUME TradingIInv, Start \/ ResetSwitch \/ Stop PROVE TradingIInv'
  <1> USE DEF TradingIInv
  <1>1. CASE Start
    <2>1. orders = {}
      BY <1>1 DEF Start, StopsInOrder, OrdersAreAnnounced, Work, Cycles
    <2> QED
      <3>1. /\ app' = "up" /\ open' = {"data", "client"} /\ at' = [w \in Work |-> "asleep"]
            /\ UNCHANGED <<pair, graph, unsent, stage, tripped, replaceable, orders>>
        BY <1>1 DEF Start
      <3>2. TradingTypeOK'
        BY <3>1 DEF TradingTypeOK
      <3>3. StopsInOrder'
        BY <3>1 DEF StopsInOrder
      <3>4. at'["analysis"] = "asleep"
        BY <3>1, Workers
      <3> QED
        BY <2>1, <3>1, <3>2, <3>3, <3>4 DEF PairIsTaken, OrdersAreDecided, OrdersAreAnnounced
  <1>2. CASE ResetSwitch
    <2>1. /\ tripped' = FALSE
          /\ UNCHANGED <<app, at, pair, graph, unsent, open, stage, replaceable, orders>>
      BY <1>2 DEF ResetSwitch
    <2>2. TradingTypeOK'
      BY <2>1 DEF TradingTypeOK
    <2>3. StopsInOrder'
      BY <2>1 DEF StopsInOrder
    <2> QED
      BY <2>1, <2>2, <2>3, AnalysisRests
  <1>3. CASE Stop
    <2>1. /\ app = "up" /\ app' = "stopping" /\ stage' = 1
          /\ UNCHANGED <<at, pair, graph, unsent, open, tripped, replaceable, orders>>
      BY <1>3 DEF Stop
    <2>2. TradingTypeOK'
      BY <2>1 DEF TradingTypeOK
    <2>3. StopsInOrder'
      BY <2>1 DEF StopsInOrder
    <2> QED
      BY <2>1, <2>2, <2>3, AnalysisRests
  <1> QED
    BY <1>1, <1>2, <1>3

(* The shutdown ends one more task, or closes one more connection.         *)
LEMMA StopStepIInv == ASSUME TradingIInv, StopStep PROVE TradingIInv'
  <1> USE DEF TradingIInv
  <1> DEFINE x == Shutdown[stage]
  <1>1. stage \in 1..8 /\ app = "stopping"
    BY DEF StopStep, StopsInOrder
  <1>2. x \in Work <=> stage <= 5
    BY <1>1, ShutdownPlaces, Workers
  <1>3. UNCHANGED <<graph, tripped, replaceable>>
    BY DEF StopStep
  <1>4. \/ stage < 8 /\ stage' = stage + 1 /\ app' = app
        \/ stage = 8 /\ stage' = stage /\ app' = "down"
    BY <1>1, ShutdownPlaces DEF StopStep
  <1>5. CASE x \in Work
    <2>1. EndTask(x)
      BY <1>5 DEF StopStep
    <2>2. TradingTypeOK'
      <3>1. app' \in {"new", "up", "stopping", "down"} /\ stage' \in 0..8
        BY <1>1, <1>4
      <3>2. at' \in [Work -> Places]
        BY <1>5, <2>1, AtIsTyped DEF EndTask, Places
      <3>3. pair' \in 0..Len(Pairs)
        BY <2>1, TradingAssumption DEF EndTask, TradingTypeOK
      <3>4. unsent' \in [Cycles -> 0..Len(Channels)]
        BY <2>1, TradingAssumption DEF EndTask, TradingTypeOK
      <3>5. orders' \subseteq 1..Len(Pairs) /\ open' = open
        BY <2>1 DEF EndTask, TradingTypeOK
      <3> QED
        BY <1>3, <3>1, <3>2, <3>3, <3>4, <3>5 DEF TradingTypeOK, Places
    <2>3. StopsInOrder'
      BY <1>1, <1>2, <1>4, <1>5, <2>1, ShutdownPlaces DEF EndTask, TradingTypeOK, StopsInOrder
    <2>4. PairIsTaken' /\ OrdersAreDecided' /\ OrdersAreAnnounced'
      <3>1. /\ at'[x] = "off"
            /\ \A v \in Work : v # x => at'[v] = at[v]
        BY <1>5, <2>1, AtIsTyped DEF EndTask, Places
      <3>2. CASE x = "analysis"
        BY <2>1, <3>1, <3>2 DEF EndTask, PairIsTaken, OrdersAreDecided, OrdersAreAnnounced
      <3>3. CASE x # "analysis"
        <4>1. at'["analysis"] = at["analysis"] /\ UNCHANGED <<pair, graph, orders>>
          BY <1>3, <2>1, <3>1, <3>3, Workers DEF EndTask
        <4> QED
          BY <4>1, AnalysisRests
      <3> QED
        BY <3>2, <3>3
    <2> QED
      BY <2>2, <2>3, <2>4
  <1>6. CASE x \notin Work
    <2>1. open' = open \ {x} /\ UNCHANGED <<at, pair, unsent, orders>>
      BY <1>6 DEF StopStep
    <2>2. TradingTypeOK'
      <3>1. app' \in {"new", "up", "stopping", "down"} /\ stage' \in 0..8
        BY <1>1, <1>4
      <3>2. open' \subseteq {"data", "client"}
        BY <2>1 DEF TradingTypeOK
      <3> QED
        BY <1>3, <2>1, <3>1, <3>2 DEF TradingTypeOK
    <2>3. \A w \in Work : at[w] = "off"
      BY <1>1, <1>2, <1>6, ShutdownPlaces, Workers DEF StopsInOrder
    <2>4. stage = 6 => x = "alpha"
      BY ShutdownPlaces
    <2>5. stage = 7 => x = "data"
      BY ShutdownPlaces
    <2>6. StopsInOrder'
      BY <1>1, <1>2, <1>4, <1>6, <2>1, <2>3, <2>4, <2>5 DEF StopsInOrder
    <2>7. PairIsTaken' /\ OrdersAreDecided' /\ OrdersAreAnnounced'
      BY <1>3, <2>1 DEF PairIsTaken, OrdersAreDecided, OrdersAreAnnounced
    <2> QED
      BY <2>2, <2>6, <2>7
  <1> QED
    BY <1>5, <1>6

LEMMA TradingNextIInv == ASSUME TradingIInv, [TradingNext]_tradingVars PROVE TradingIInv'
  <1>1. CASE UNCHANGED tradingVars
    BY <1>1
    DEF tradingVars, TradingIInv, TradingTypeOK, StopsInOrder, PairIsTaken, OrdersAreDecided, OrdersAreAnnounced
  <1> QED
    BY <1>1, OtherWorkIInv, CheckRiskIInv, AnalyseIInv, StartIInv, StopStepIInv DEF TradingNext

(* Everything the theorems below rest on: how far the shutdown is, and for  *)
(* which pair the analysis is on its way.                                  *)
THEOREM TradingInvariant == TradingSpec => []TradingIInv
  <1>1. TradingIInv /\ [TradingNext]_tradingVars => TradingIInv'
    BY TradingNextIInv
  <1> QED
    BY TradingInitIInv, <1>1, PTL DEF TradingSpec

(* Nothing is in the middle of a call of a connection that the shutdown    *)
(* has closed, and nothing is left that could make one.                    *)
THEOREM ShutdownSafety == TradingSpec => []NothingUsesClosed
  <1>1. TradingIInv => NothingUsesClosed
    <2> SUFFICES ASSUME TradingIInv PROVE NothingUsesClosed
      OBVIOUS
    <2>1. CASE app \in {"new", "down"}
      BY <2>1, Workers DEF TradingIInv, StopsInOrder, NothingUsesClosed, Uses
    <2>2. CASE app = "up"
      BY <2>2 DEF TradingIInv, StopsInOrder, NothingUsesClosed, Uses
    <2>3. CASE app = "stopping"
      <3>1. "client" \in open /\ stage \in 1..8
        BY <2>3 DEF TradingIInv, StopsInOrder
      <3>2. "data" \notin open => stage = 8
        BY <2>3, <3>1 DEF TradingIInv, StopsInOrder
      <3>3. "data" \notin open => \A w \in Work : at[w] = "off"
        BY <2>3, <3>1, <3>2, ShutdownPlaces, Workers DEF TradingIInv, StopsInOrder
      <3> QED
        BY <3>1, <3>3, Workers DEF NothingUsesClosed, Uses
    <2> QED
      BY <2>1, <2>2, <2>3 DEF TradingIInv, TradingTypeOK
  <1> QED
    BY TradingInvariant, <1>1, PTL

(* An order that was placed is announced before the next pair is taken up. *)
THEOREM AnnouncementSafety == TradingSpec => []OrdersAreAnnounced
  <1>1. TradingIInv => OrdersAreAnnounced
    BY DEF TradingIInv
  <1> QED
    BY TradingInvariant, <1>1, PTL

-----------------------------------------------------------------------------
(* Delegation.                                                              *)

Serving(a) == {c \in underway : Target(c) = a}

(* The inductive invariant: types, and the two accounts as they stand.     *)

AccountTypes ==
  /\ links \in [Routes -> Rights \cup {NoLink}]
  /\ slots \in [Agents -> Nat]
  /\ underway \in SUBSET Calls
  /\ outcome \in [Calls -> {"new", "in_progress", "completed", "failed"}]
  /\ route \in [Calls -> Routes]
  /\ answer \in [Calls -> {"none", "success", "failure", "refused", "cancelled"}]

SlotsCount == \A a \in Agents : slots[a] = Cardinality(Serving(a))

DelegationIInv == AccountTypes /\ SlotsCount /\ HistoryIsTrue

------------------------------------------------------------------------------
(* Sets of calls are finite, and a call joins or leaves one as one.        *)

LEMMA CallsAreFinite ==
    ASSUME NEW S, S \subseteq Calls
    PROVE  IsFiniteSet(S) /\ Cardinality(S) \in Nat
  BY DelegationAssumption, FS_Subset, FS_CardinalityType

LEMMA JoinCounts ==
    ASSUME NEW S, S \subseteq Calls, NEW c \in Calls, c \notin S
    PROVE  Cardinality(S \cup {c}) = Cardinality(S) + 1
  BY CallsAreFinite, FS_AddElement

LEMMA LeaveCounts ==
    ASSUME NEW S, S \subseteq Calls, NEW c \in S
    PROVE  Cardinality(S \ {c}) = Cardinality(S) - 1 /\ Cardinality(S) > 0
  <1>1. IsFiniteSet(S) /\ Cardinality(S) \in Nat /\ Cardinality(S \ {c}) \in Nat
    BY CallsAreFinite
  <1>2. Cardinality(S \ {c}) = Cardinality(S) - 1
    BY <1>1, FS_RemoveElement
  <1> QED
    BY <1>1, <1>2

LEMMA RoutesHaveAgents ==
    ASSUME NEW r \in Routes
    PROVE  r[1] \in Agents /\ r[2] \in Agents
  BY DelegationAssumption

------------------------------------------------------------------------------
LEMMA DelegationInitIInv == DelegationInit => DelegationIInv
  <1> SUFFICES ASSUME DelegationInit PROVE DelegationIInv
    OBVIOUS
  <1>1. AnyRoute \in Routes
    BY DelegationAssumption DEF AnyRoute
  <1>2. AccountTypes
    BY <1>1 DEF DelegationInit, AccountTypes
  <1>3. SlotsCount
    BY FS_EmptySet DEF DelegationInit, SlotsCount, Serving
  <1>4. HistoryIsTrue
    BY DEF DelegationInit, HistoryIsTrue
  <1> QED
    BY <1>2, <1>3, <1>4 DEF DelegationIInv

(* Links come and go without touching an account. *)
LEMMA LinksIInv ==
    ASSUME DelegationIInv, NEW r \in Routes,
           RemovePermission(r) \/ \E right \in Rights : AddPermission(r, right)
    PROVE  DelegationIInv' /\ \A x \in Routes : On(x)' = On(x)
  BY DEF DelegationIInv, AccountTypes, SlotsCount, Serving, Target, HistoryIsTrue, On, RemovePermission,
         AddPermission

LEMMA RefuseIInv ==
    ASSUME DelegationIInv, NEW c \in Calls, NEW r \in Routes, NEW job \in Jobs, Refuse(c, r, job)
    PROVE  DelegationIInv' /\ \A x \in Routes : On(x)' = On(x)
  BY DEF DelegationIInv, AccountTypes, SlotsCount, Serving, Target, HistoryIsTrue, On, Refuse, Idle

(* A call that has not begun holds no slot. *)
LEMMA IdleIsNotUnderway ==
    ASSUME DelegationIInv, NEW c \in Calls, Idle(c)
    PROVE  c \notin underway
  BY DEF DelegationIInv, HistoryIsTrue, Idle

LEMMA DelegateAtOnceIInv ==
    ASSUME DelegationIInv, NEW c \in Calls, NEW r \in Routes, NEW job \in Jobs, NEW ok \in BOOLEAN,
           DelegateAtOnce(c, r, job, ok)
    PROVE  DelegationIInv' /\ \A x \in Routes : On(x)' = On(x)
  <1>1. c \notin underway /\ underway' = underway /\ slots' = slots /\ links' = links
    BY IdleIsNotUnderway DEF DelegateAtOnce
  <1>2. \A x \in underway : route'[x] = route[x]
    BY <1>1 DEF DelegateAtOnce, DelegationIInv, AccountTypes
  <1>3. (\A a \in Agents : Serving(a)' = Serving(a)) /\ \A x \in Routes : On(x)' = On(x)
    BY <1>1, <1>2 DEF Serving, Target, On
  <1>4. AccountTypes'
    BY <1>1 DEF DelegateAtOnce, DelegationIInv, AccountTypes
  <1>5. SlotsCount'
    BY <1>1, <1>3 DEF DelegationIInv, SlotsCount
  <1>6. HistoryIsTrue'
    BY <1>1 DEF DelegateAtOnce, DelegationIInv, AccountTypes, HistoryIsTrue
  <1> QED
    BY <1>3, <1>4, <1>5, <1>6 DEF DelegationIInv

(* A delegation that begins adds itself to its target and to its link only, *)
(* and what is under way on the link is part of what the target's slots     *)
(* count, so that the test of the slots is enough for the link.             *)
LEMMA DelegateIInv ==
    ASSUME DelegationIInv, NEW c \in Calls, NEW r \in Routes, NEW job \in Jobs, Delegate(c, r, job)
    PROVE  /\ DelegationIInv'
           /\ \A x \in Routes \ {r} : On(x)' = On(x)
           /\ links[r] # NoLink /\ Cardinality(On(r)') <= links[r].limit
  <1>1. c \notin underway /\ underway \subseteq Calls
    BY IdleIsNotUnderway DEF Delegate, DelegationIInv, AccountTypes
  <1>2. /\ underway' = underway \cup {c} /\ links' = links
        /\ slots' = [slots EXCEPT ![r[2]] = @ + 1]
        /\ route' = [route EXCEPT ![c] = r] /\ route \in [Calls -> Routes]
    BY DEF Delegate, DelegationIInv, AccountTypes
  <1>3. route'[c] = r /\ \A x \in underway : route'[x] = route[x]
    BY <1>1, <1>2
  <1>4. /\ Serving(r[2])' = Serving(r[2]) \cup {c}
        /\ \A a \in Agents \ {r[2]} : Serving(a)' = Serving(a)
    BY <1>1, <1>2, <1>3 DEF Serving, Target
  <1>5. /\ On(r)' = On(r) \cup {c}
        /\ \A x \in Routes \ {r} : On(x)' = On(x)
    BY <1>1, <1>2, <1>3 DEF On
  <1>6. AccountTypes'
    <2>1. slots' \in [Agents -> Nat] /\ underway' \in SUBSET Calls
      BY <1>1, <1>2, RoutesHaveAgents DEF DelegationIInv, AccountTypes
    <2>2. links' \in [Routes -> Rights \cup {NoLink}] /\ route' \in [Calls -> Routes]
      BY <1>2 DEF DelegationIInv, AccountTypes
    <2> QED
      BY <2>1, <2>2 DEF Delegate, DelegationIInv, AccountTypes
  <1>7. SlotsCount'
    <2>1. Cardinality(Serving(r[2]) \cup {c}) = Cardinality(Serving(r[2])) + 1
      BY <1>1, JoinCounts DEF Serving
    <2> QED
      BY <1>2, <1>4, <2>1, RoutesHaveAgents DEF DelegationIInv, AccountTypes, SlotsCount
  <1>8. HistoryIsTrue'
    BY <1>1, <1>2 DEF Delegate, Idle, DelegationIInv, AccountTypes, HistoryIsTrue
  <1>9. links[r] # NoLink /\ Cardinality(On(r)') <= links[r].limit
    <2>1. links[r] # NoLink /\ links[r].limit \in Nat /\ slots[r[2]] < links[r].limit
      BY DelegationAssumption DEF Delegate, CanDelegate, ActiveCount, DelegationIInv, AccountTypes
    <2>2. On(r) \subseteq Serving(r[2]) /\ Serving(r[2]) \subseteq Calls /\ c \notin On(r)
      BY <1>1 DEF On, Serving, Target
    <2>3. Cardinality(On(r)) <= Cardinality(Serving(r[2]))
      BY <2>2, CallsAreFinite, FS_Subset
    <2>4. Cardinality(On(r) \cup {c}) = Cardinality(On(r)) + 1 /\ Cardinality(On(r)) \in Nat
      BY <2>2, JoinCounts, CallsAreFinite
    <2>5. Cardinality(Serving(r[2])) = slots[r[2]] /\ slots[r[2]] \in Nat
      BY RoutesHaveAgents DEF DelegationIInv, AccountTypes, SlotsCount
    <2> QED
      BY <1>5, <2>1, <2>3, <2>4, <2>5
  <1> QED
    BY <1>5, <1>6, <1>7, <1>8, <1>9 DEF DelegationIInv

(* However a delegation ends, the finally clause takes it out of its       *)
(* target's slots once.                                                    *)
LEMMA EndIInv ==
    ASSUME DelegationIInv, NEW c \in Calls, c \in underway, ReleaseSlot(c), UNCHANGED <<links, route>>,
           \/ \E ok \in BOOLEAN :
                /\ outcome' = [outcome EXCEPT ![c] = IF ok THEN "completed" ELSE "failed"]
                /\ answer' = [answer EXCEPT ![c] = IF ok THEN "success" ELSE "failure"]
           \/ answer' = [answer EXCEPT ![c] = "cancelled"] /\ UNCHANGED outcome
    PROVE  DelegationIInv' /\ \A x \in Routes : On(x)' \subseteq On(x)
  <1>1. /\ underway \subseteq Calls /\ underway' = underway \ {c}
        /\ Target(c) \in Agents /\ c \in Serving(Target(c))
    BY RoutesHaveAgents DEF ReleaseSlot, DelegationIInv, AccountTypes, Serving, Target
  <1>2. \A a \in Agents :
          Serving(a)' = IF a = Target(c) THEN Serving(a) \ {c} ELSE Serving(a)
    BY <1>1 DEF Serving, Target
  <1>3. \A x \in Routes : On(x)' \subseteq On(x)
    BY <1>1 DEF On
  <1>4. slots' = [slots EXCEPT ![Target(c)] = IF @ > 0 THEN @ - 1 ELSE 0]
    BY DEF ReleaseSlot
  <1>5. /\ Cardinality(Serving(Target(c)) \ {c}) = Cardinality(Serving(Target(c))) - 1
        /\ Cardinality(Serving(Target(c))) > 0
    BY <1>1, LeaveCounts DEF Serving
  <1>6. slots'[Target(c)] = slots[Target(c)] - 1 /\ slots[Target(c)] > 0
    BY <1>1, <1>4, <1>5 DEF DelegationIInv, AccountTypes, SlotsCount
  <1>7. SlotsCount'
    <2> SUFFICES ASSUME NEW a \in Agents PROVE slots'[a] = Cardinality(Serving(a)')
      BY DEF SlotsCount
    <2>1. CASE a = Target(c)
      <3>1. Cardinality(Serving(a)) = slots[a] /\ Serving(a)' = Serving(a) \ {c}
        BY <1>2, <2>1 DEF DelegationIInv, SlotsCount
      <3>2. Cardinality(Serving(a) \ {c}) = Cardinality(Serving(a)) - 1
        BY <1>5, <2>1
      <3> QED
        BY <2>1, <3>1, <3>2, <1>6
    <2>2. CASE a # Target(c)
      <3>1. slots'[a] = slots[a]
        BY <1>4, <2>2 DEF DelegationIInv, AccountTypes
      <3> QED
        BY <2>2, <3>1, <1>2 DEF DelegationIInv, SlotsCount
    <2> QED
      BY <2>1, <2>2
  <1>8. AccountTypes'
    BY <1>1, <1>4, <1>6 DEF DelegationIInv, AccountTypes
  <1>9. HistoryIsTrue'
    BY <1>1 DEF DelegationIInv, AccountTypes, HistoryIsTrue
  <1> QED
    BY <1>3, <1>7, <1>8, <1>9 DEF DelegationIInv

LEMMA EndsIInv ==
    ASSUME DelegationIInv, NEW c \in Calls,
           TimeOut(c) \/ CancelDelegation(c) \/ \E ok \in BOOLEAN : ExecutorEnds(c, ok)
    PROVE  DelegationIInv' /\ \A x \in Routes : On(x)' \subseteq On(x)
  <1>1. CASE TimeOut(c)
    BY <1>1, EndIInv DEF TimeOut
  <1>2. CASE CancelDelegation(c)
    BY <1>2, EndIInv DEF CancelDelegation
  <1>3. CASE \E ok \in BOOLEAN : ExecutorEnds(c, ok)
    BY <1>3, EndIInv DEF ExecutorEnds
  <1> QED
    BY <1>1, <1>2, <1>3

------------------------------------------------------------------------------
(* What a step may do to a link. *)
LinkStep ==
  \A r \in Routes :
    Cardinality(On(r)') > Cardinality(On(r))
      => links[r] # NoLink /\ Cardinality(On(r)') <= links[r].limit

LEMMA NoGrowth ==
    ASSUME DelegationIInv, \A r \in Routes : On(r)' \subseteq On(r)
    PROVE  LinkStep
  <1> SUFFICES ASSUME NEW r \in Routes PROVE ~(Cardinality(On(r)') > Cardinality(On(r)))
    BY DEF LinkStep
  <1>1. On(r) \subseteq Calls /\ On(r)' \subseteq On(r)
    BY DEF On, DelegationIInv, AccountTypes
  <1>2. Cardinality(On(r)') <= Cardinality(On(r))
    BY <1>1, CallsAreFinite, FS_Subset
  <1>3. Cardinality(On(r)') \in Nat /\ Cardinality(On(r)) \in Nat
    BY <1>1, CallsAreFinite
  <1> QED
    BY <1>2, <1>3

LEMMA DelegationNextIInv ==
    ASSUME DelegationIInv, [DelegationNext]_delegationVars
    PROVE  DelegationIInv' /\ LinkStep
  <1>1. CASE UNCHANGED delegationVars
    <2>1. DelegationIInv' /\ \A r \in Routes : On(r)' = On(r)
      BY <1>1 DEF delegationVars, DelegationIInv, AccountTypes, SlotsCount, Serving, Target,
                  HistoryIsTrue, On
    <2> QED
      BY <2>1, NoGrowth
  <1>2. CASE \E r \in Routes : RemovePermission(r) \/ \E right \in Rights : AddPermission(r, right)
    BY <1>2, LinksIInv, NoGrowth
  <1>3. CASE \E c \in Calls, r \in Routes, job \in Jobs :
               Refuse(c, r, job) \/ \E ok \in BOOLEAN : DelegateAtOnce(c, r, job, ok)
    BY <1>3, RefuseIInv, DelegateAtOnceIInv, NoGrowth
  <1>4. CASE \E c \in Calls, r \in Routes, job \in Jobs : Delegate(c, r, job)
    <2>1. PICK c \in Calls, r \in Routes, job \in Jobs : Delegate(c, r, job)
      BY <1>4
    <2>2. /\ DelegationIInv' /\ \A x \in Routes \ {r} : On(x)' = On(x)
          /\ links[r] # NoLink /\ Cardinality(On(r)') <= links[r].limit
      BY <2>1, DelegateIInv
    <2>3. \A x \in Routes \ {r} : ~(Cardinality(On(x)') > Cardinality(On(x)))
      <3> SUFFICES ASSUME NEW x \in Routes \ {r}
                   PROVE  ~(Cardinality(On(x)') > Cardinality(On(x)))
        OBVIOUS
      <3>1. Cardinality(On(x)) \in Nat /\ On(x)' = On(x)
        BY <2>2, CallsAreFinite DEF On, DelegationIInv, AccountTypes
      <3> QED
        BY <3>1
    <2> QED
      BY <2>2, <2>3 DEF LinkStep
  <1>5. CASE \E c \in Calls :
               \/ \E ok \in BOOLEAN : ExecutorEnds(c, ok)
               \/ TimeOut(c) \/ CancelDelegation(c)
    BY <1>5, EndsIInv, NoGrowth
  <1> QED
    BY <1>1, <1>2, <1>3, <1>4, <1>5 DEF DelegationNext

------------------------------------------------------------------------------
(* Slots and history tell the truth in every reachable state.              *)
THEOREM DelegationInvariant == DelegationSpec => []DelegationIInv
  BY DelegationInitIInv, DelegationNextIInv, PTL DEF DelegationSpec

(* However delegations end, and whatever links are replaced meanwhile, a   *)
(* slot is held exactly while a delegation is under way, the history       *)
(* agrees with the answers, and none begins beyond the limit of its link   *)
(* (delegation.py:95, :171, :262).                                         *)
THEOREM LimitSafety == DelegationSpec => LimitsAreKept
  <1>1. DelegationIInv => SlotsAreHeld /\ HistoryIsTrue
    BY DEF DelegationIInv, SlotsCount, Serving, SlotsAreHeld
  <1>2. DelegationSpec => LinkLimitKept
    <2>1. DelegationIInv /\ [DelegationNext]_delegationVars => [LinkStep]_delegationVars
      BY DelegationNextIInv
    <2>2. DelegationSpec => [][LinkStep]_delegationVars
      BY <2>1, DelegationInvariant, PTL DEF DelegationSpec
    <2> QED
      BY <2>2 DEF LinkStep, LinkLimitKept
  <1> QED
    BY <1>1, <1>2, DelegationInvariant, PTL DEF LimitsAreKept

-----------------------------------------------------------------------------
(* TaskScheduler.                                                          *)

(* TaskScheduler: induction over the naturals, from the library's minimal  *)
(* elements of a well-founded order.                                       *)
LEMMA LeastNat ==
  ASSUME NEW T, T \subseteq Nat, T # {}
  PROVE  \E x \in T : \A y \in T : x <= y
  <1> DEFINE R == OpToRel(<, Nat)
  <1>1. IsWellFoundedOn(R, Nat)
    BY NatLessThanWellFounded
  <1>2. \A x, y \in Nat : <<x, y>> \in R <=> x < y
    BY DEF OpToRel
  <1> HIDE DEF R
  <1>3. PICK x \in T : \A y \in T : ~ (<<y, x>> \in R)
    BY <1>1, WFMin
  <1>4. \A y \in T : ~(y < x)
    BY <1>2, <1>3
  <1>5. QED
    BY <1>4

LEMMA MinIsLeast ==
  ASSUME NEW T, T \subseteq Nat, T # {}
  PROVE  Min(T) \in T /\ \A y \in T : Min(T) <= y
  BY LeastNat DEF Min

(* The inductive invariant.  A task is listed once, and whoever is alive   *)
(* is listed; stop() waits at a place of the list before which nobody is   *)
(* alive.                                                                  *)

Half == clock % 2

StopsInTurn ==
    stopping # 0 =>
      /\ stopping \in DOMAIN listed
      /\ \A i \in 1..(stopping - 1) : ~Alive(listed[i])

ListedOnce ==
    /\ \A i \in DOMAIN listed : loop[listed[i]] # "none"
    /\ \A i, j \in DOMAIN listed : listed[i] = listed[j] => i = j

(* A cron task sleeps for one look at a time.  It ran at most once in the  *)
(* first half of a minute, and when it ran in this half it is not due in   *)
(* it again; one that still sleeps in the half it fell asleep in has run   *)
(* or did not match.                                                       *)
RunsCounted(t) ==
    /\ nap[t] \in 0..1
    /\ loop[t] = "none" => ran[t] = 0
    /\ loop[t] = "busy" => ran[t] > 0
    /\ ran[t] <= Half + 1
    /\ ran[t] = Half + 1 => ~Due(t)
    /\ loop[t] = "asleep" /\ nap[t] > 0 => ran[t] > 0 \/ NowMatches(t) # "yes"

RunsAreCounted == \A t \in Crons : RunsCounted(t)

SchedulerIInv == SchedulerTypeOK /\ NoOrphans /\ StopsInTurn /\ ListedOnce /\ RunsAreCounted

-----------------------------------------------------------------------------
\* A calendar of minutes has an even number of half minutes.
LEMMA MomentsAreEven ==
  Moments \in Nat \ {0} /\ \E k \in Nat : Moments = 2 * k
  <1>1. {MinutesPerHour, HoursPerDay, Days} \subseteq Nat \ {0}
    BY SchedulerAssumption
  <1> DEFINE hours == MinutesPerHour * HoursPerDay
             k == hours * Days
  <1>2. hours \in Nat \ {0}
    BY <1>1
  <1>3. k \in Nat \ {0}
    BY <1>1, <1>2
  <1>4. Moments = 2 * k
    BY <1>1 DEF Moments
  <1>5. QED
    BY <1>3, <1>4

LEMMA SchedulerInitIInv == SchedulerInit => SchedulerIInv
  <1> SUFFICES ASSUME SchedulerInit PROVE SchedulerIInv
    OBVIOUS
  <1> USE SchedulerAssumption DEF SchedulerInit
  <1>1. Moments \in Nat \ {0}
    BY MomentsAreEven
  <1>2. Cardinality(Loops) \in Nat
    BY FS_CardinalityType
  <1>3. <<>> \in Seq(Loops)
    OBVIOUS
  <1>4. 0 \in 0..(Moments - 1) /\ 0 \in 0..Cardinality(Loops)
    BY <1>1, <1>2
  <1>5. SchedulerTypeOK
    BY <1>3, <1>4 DEF SchedulerTypeOK
  <1>6. NoOrphans /\ StopsInTurn /\ ListedOnce
    BY DEF NoOrphans, StopsInTurn, ListedOnce, Alive
  <1>7. RunsAreCounted
    BY DEF RunsAreCounted, RunsCounted, Half, Due, Loops
  <1>8. QED
    BY <1>5, <1>6, <1>7 DEF SchedulerIInv

\* A task is listed once, so that the list is not longer than there are tasks.
LEMMA ListIsShort ==
  ASSUME SchedulerIInv
  PROVE  listed \in Seq(Loops) /\ Len(listed) \in 0..Cardinality(Loops)
  <1>1. listed \in Seq(Loops) /\ Len(listed) \in Nat /\ DOMAIN listed = 1..Len(listed)
    BY DEF SchedulerIInv, SchedulerTypeOK
  <1>2. listed \in Injection(1..Len(listed), Loops)
    BY <1>1 DEF SchedulerIInv, ListedOnce, Injection, IsInjective
  <1>3. IsFiniteSet(Loops) /\ Cardinality(Loops) \in Nat
    BY SchedulerAssumption, FS_CardinalityType
  <1>4. Cardinality(1..Len(listed)) <= Cardinality(Loops)
    BY <1>2, <1>3, FS_Injection
  <1>5. Cardinality(1..Len(listed)) = Len(listed)
    BY <1>1, FS_Interval
  <1>6. QED
    BY <1>1, <1>3, <1>4, <1>5

-----------------------------------------------------------------------------
\* Schedule appends a task that was not there.
LEMMA ScheduleIInv ==
  ASSUME SchedulerIInv, NEW t \in Loops, Schedule(t)
  PROVE  SchedulerIInv'
  <1> USE DEF SchedulerIInv
  <1>0. /\ loop[t] = "none" /\ loop' = [loop EXCEPT ![t] = "created"]
        /\ listed' = Append(listed, t)
        /\ on' = on /\ nap' = nap /\ clock' = clock /\ stopping' = stopping /\ ran' = ran
    BY DEF Schedule
  <1>1. listed \in Seq(Loops) /\ Len(listed) \in Nat /\ DOMAIN listed = 1..Len(listed)
    BY DEF SchedulerTypeOK
  <1>2. /\ DOMAIN listed' = 1..(Len(listed) + 1)
        /\ \A i \in DOMAIN listed : listed'[i] = listed[i]
        /\ listed'[Len(listed) + 1] = t
    BY <1>0, <1>1
  <1>3. SchedulerTypeOK'
    BY <1>0 DEF SchedulerTypeOK
  <1>4. NoOrphans'
    <2> SUFFICES ASSUME NEW u \in Loops, Alive(u)'
                 PROVE  \E i \in DOMAIN listed' : listed'[i] = u
      BY DEF NoOrphans
    <2>1. CASE u = t
      BY <2>1, <1>1, <1>2
    <2>2. CASE u # t
      <3>1. Alive(u)
        BY <2>2, <1>0 DEF Alive, SchedulerTypeOK
      <3>2. QED
        BY <3>1, <1>1, <1>2 DEF NoOrphans
    <2>3. QED
      BY <2>1, <2>2
  <1>5. \A i \in DOMAIN listed : listed[i] \in Loops /\ loop[listed[i]] # "none" /\ listed[i] # t
    BY <1>0, <1>1 DEF ListedOnce
  <1>6. \A i \in DOMAIN listed : loop'[listed[i]] = loop[listed[i]]
    BY <1>0, <1>5 DEF SchedulerTypeOK
  <1>7. StopsInTurn'
    BY <1>0, <1>1, <1>2, <1>5, <1>6 DEF StopsInTurn, Alive
  <1>8. ListedOnce'
    BY <1>0, <1>1, <1>2, <1>5, <1>6 DEF ListedOnce, SchedulerTypeOK
  <1>9. RunsAreCounted'
    <2> SUFFICES ASSUME NEW u \in Crons
                 PROVE  RunsCounted(u)'
      BY DEF RunsAreCounted
    <2>1. u \in Loops
      BY DEF Loops
    <2>2. NowMatches(u)' = NowMatches(u)
      BY <1>0 DEF NowMatches, Minute, Hour, Day
    <2>3. CASE u = t
      BY <2>1, <2>3, <1>0 DEF RunsAreCounted, RunsCounted, SchedulerTypeOK, Half, Due
    <2>4. CASE u # t
      BY <2>1, <2>2, <2>4, <1>0 DEF RunsAreCounted, RunsCounted, SchedulerTypeOK, Half, Due
    <2>5. QED
      BY <2>3, <2>4
  <1>10. QED
    BY <1>3, <1>4, <1>7, <1>8, <1>9

\* A step of one loop that is alive, and of nothing else that stop() reads.
LEMMA OneLoopMoves ==
  ASSUME SchedulerIInv, NEW t \in Loops, Alive(t),
         NEW place \in {"busy", "asleep", "gone", "died"},
         loop' = [loop EXCEPT ![t] = place], listed' = listed, stopping' = stopping
  PROVE  NoOrphans' /\ StopsInTurn' /\ ListedOnce'
  <1> USE DEF SchedulerIInv
  <1>1. loop \in [Loops -> {"none", "created", "busy", "asleep", "gone", "died"}]
    BY DEF SchedulerTypeOK
  <1>2. \A u \in Loops : Alive(u)' => Alive(u)
    BY <1>1 DEF Alive
  <1>3. \A u \in Loops : loop[u] # "none" => loop'[u] # "none"
    BY <1>1
  <1>4. listed \in Seq(Loops) /\ \A i \in DOMAIN listed : listed[i] \in Loops
    BY DEF SchedulerTypeOK
  <1>5. NoOrphans'
    BY <1>2 DEF NoOrphans
  <1>6. StopsInTurn'
    <2> SUFFICES ASSUME stopping # 0, NEW i \in 1..(stopping - 1)
                 PROVE  stopping \in DOMAIN listed /\ ~Alive(listed[i])'
      BY DEF StopsInTurn
    <2>1. stopping \in DOMAIN listed /\ ~Alive(listed[i])
      BY DEF StopsInTurn
    <2>2. i \in DOMAIN listed
      BY <2>1, <1>4
    <2>3. listed[i] \in Loops
      BY <2>2, <1>4
    <2>4. QED
      BY <2>1, <2>3, <1>2 DEF Alive
  <1>7. ListedOnce'
    BY <1>3, <1>4 DEF ListedOnce
  <1>8. QED
    BY <1>5, <1>6, <1>7

\* A loop ends, of itself or cancelled.
LEMMA LeaveIInv ==
  ASSUME SchedulerIInv, NEW t \in Loops, Alive(t),
         NEW how \in {"gone", "died"}, Leave(t, how)
  PROVE  SchedulerIInv'
  <1> USE DEF SchedulerIInv
  <1>1. /\ loop' = [loop EXCEPT ![t] = how]
        /\ on' = on /\ listed' = listed /\ nap' = nap /\ clock' = clock
        /\ stopping' = stopping /\ ran' = ran
    BY DEF Leave
  <1>2. SchedulerTypeOK'
    BY <1>1 DEF SchedulerTypeOK
  <1>3. NoOrphans' /\ StopsInTurn' /\ ListedOnce'
    BY <1>1, OneLoopMoves
  <1>4. RunsAreCounted'
    <2> SUFFICES ASSUME NEW u \in Crons PROVE RunsCounted(u)'
      BY DEF RunsAreCounted
    <2>1. u \in Loops /\ loop \in [Loops -> {"none", "created", "busy", "asleep", "gone", "died"}]
      BY DEF Loops, SchedulerTypeOK
    <2>2. RunsCounted(u) /\ NowMatches(u)' = NowMatches(u)
      BY <1>1 DEF NowMatches, Minute, Hour, Day, RunsAreCounted
    <2>3. QED
      BY <2>1, <2>2, <1>1 DEF RunsCounted, Half, Due
  <1>5. QED
    BY <1>2, <1>3, <1>4

\* The function of a loop that is due begins.
LEMMA BeginIInv ==
  ASSUME SchedulerIInv, NEW t \in Loops, Due(t), Begin(t)
  PROVE  SchedulerIInv'
  <1> USE DEF SchedulerIInv
  <1>1. /\ loop' = [loop EXCEPT ![t] = "busy"]
        /\ ran' = IF t \in Crons THEN [ran EXCEPT ![t] = @ + 1] ELSE ran
        /\ on' = on /\ listed' = listed /\ nap' = nap /\ clock' = clock /\ stopping' = stopping
    BY DEF Begin
  <1>2. ran' \in [Crons -> Nat]
    BY <1>1 DEF SchedulerTypeOK
  <1>3. SchedulerTypeOK'
    BY <1>1, <1>2 DEF SchedulerTypeOK
  <1>4. NoOrphans' /\ StopsInTurn' /\ ListedOnce'
    BY <1>1, OneLoopMoves DEF Alive, Due
  <1>5. RunsAreCounted'
    <2> SUFFICES ASSUME NEW u \in Crons PROVE RunsCounted(u)'
      BY DEF RunsAreCounted
    <2>1. /\ u \in Loops /\ loop \in [Loops -> {"none", "created", "busy", "asleep", "gone", "died"}]
          /\ ran \in [Crons -> Nat]
      BY DEF Loops, SchedulerTypeOK
    <2>2. RunsCounted(u) /\ NowMatches(u)' = NowMatches(u) /\ Half' = Half
      BY <1>1 DEF NowMatches, Minute, Hour, Day, Half, RunsAreCounted
    <2>3. CASE u = t
      <3>1. loop'[u] = "busy" /\ ran'[u] = ran[u] + 1
        BY <2>1, <2>3, <1>1
      <3>2. ran[u] <= Half /\ Half \in 0..1
        BY <2>1, <2>2, <2>3 DEF RunsCounted, Half, SchedulerTypeOK
      <3>3. QED
        BY <2>1, <2>2, <2>3, <3>1, <3>2, <1>1 DEF RunsCounted, Due
    <2>4. CASE u # t
      <3>1. loop'[u] = loop[u] /\ ran'[u] = ran[u]
        BY <2>1, <2>4, <1>1
      <3>2. QED
        BY <2>2, <3>1, <1>1 DEF RunsCounted, Due
    <2>5. QED
      BY <2>3, <2>4
  <1>6. QED
    BY <1>3, <1>4, <1>5

\* A loop that is alive falls asleep: it ran, or its minute does not match.
LEMMA SleepIInv ==
  ASSUME SchedulerIInv, NEW t \in Loops, Alive(t), NEW d \in Nat, Sleep(t, d),
         t \in Crons => d = 1 /\ (loop[t] = "busy" \/ NowMatches(t) # "yes"),
         UNCHANGED <<on, listed, clock, stopping, ran>>
  PROVE  SchedulerIInv'
  <1> USE DEF SchedulerIInv
  <1>1. /\ loop' = [loop EXCEPT ![t] = "asleep"] /\ nap' = [nap EXCEPT ![t] = d]
        /\ on' = on /\ listed' = listed /\ clock' = clock /\ stopping' = stopping /\ ran' = ran
    BY DEF Sleep
  <1>2. SchedulerTypeOK'
    BY <1>1 DEF SchedulerTypeOK
  <1>3. NoOrphans' /\ StopsInTurn' /\ ListedOnce'
    BY <1>1, OneLoopMoves
  <1>4. RunsAreCounted'
    <2> SUFFICES ASSUME NEW u \in Crons PROVE RunsCounted(u)'
      BY DEF RunsAreCounted
    <2>1. /\ u \in Loops /\ loop \in [Loops -> {"none", "created", "busy", "asleep", "gone", "died"}]
          /\ nap \in [Loops -> Nat] /\ ran \in [Crons -> Nat]
      BY DEF Loops, SchedulerTypeOK
    <2>2. RunsCounted(u) /\ NowMatches(u)' = NowMatches(u) /\ Half' = Half
      BY <1>1 DEF NowMatches, Minute, Hour, Day, Half, RunsAreCounted
    <2>3. CASE u = t
      <3>1. loop'[u] = "asleep" /\ nap'[u] = 1
        BY <2>1, <2>3, <1>1
      <3>2. QED
        BY <2>1, <2>2, <2>3, <3>1, <1>1 DEF RunsCounted, Due
    <2>4. CASE u # t
      <3>1. loop'[u] = loop[u] /\ nap'[u] = nap[u]
        BY <2>1, <2>4, <1>1
      <3>2. QED
        BY <2>2, <3>1, <1>1 DEF RunsCounted, Due
    <2>5. QED
      BY <2>3, <2>4
  <1>5. QED
    BY <1>2, <1>3, <1>4

\* A turn of a loop, or the end of its function.
LEMMA TurnIInv ==
  ASSUME SchedulerIInv, NEW t \in Loops, Turn(t)
  PROVE  SchedulerIInv'
  <1>1. Due(t) /\ Alive(t)
    BY DEF Turn, LeaveLoop, IntervalTurn, CronTurn, Due, Alive
  <1>2. CASE LeaveLoop(t)
    BY <1>1, <1>2, LeaveIInv DEF LeaveLoop
  <1>3. CASE IntervalTurn(t)
    BY <1>1, <1>3, BeginIInv DEF IntervalTurn
  <1>4. CASE CronTurn(t)
    <2>1. CASE NowMatches(t) = "raises"
      BY <1>1, <1>4, <2>1, LeaveIInv DEF CronTurn
    <2>2. CASE NowMatches(t) = "yes"
      BY <1>1, <1>4, <2>2, BeginIInv DEF CronTurn
    <2>3. CASE NowMatches(t) # "raises" /\ NowMatches(t) # "yes"
      <3>1. Sleep(t, 1) /\ UNCHANGED <<on, listed, clock, stopping, ran>>
        BY <1>4, <2>3 DEF CronTurn
      <3>2. QED
        BY <1>1, <2>3, <3>1, SleepIInv
    <2>4. QED
      BY <2>1, <2>2, <2>3
  <1>5. QED
    BY <1>2, <1>3, <1>4 DEF Turn

LEMMA FunctionEndsIInv ==
  ASSUME SchedulerIInv, NEW t \in Loops, NEW ok \in BOOLEAN, FunctionEnds(t, ok)
  PROVE  SchedulerIInv'
  <1>1. Pause(t) \in Nat /\ (t \in Crons => Pause(t) = 1)
    BY SchedulerAssumption DEF Pause, Loops
  <1>2. QED
    BY <1>1, SleepIInv DEF FunctionEnds, Alive

-----------------------------------------------------------------------------
\* The places that stop() has still to look at: it waits at the first.
LEMMA WaitsAtTheFirst ==
  ASSUME SchedulerIInv, NEW i \in Nat \ {0}, WaitFor(i),
         \A k \in DOMAIN listed : k < i => ~Alive(listed[k])
  PROVE  \/ /\ stopping' = 0 /\ listed' = <<>>
            /\ \A t \in Loops : ~Alive(t)
         \/ /\ listed' = listed /\ stopping' # 0 /\ stopping' \in DOMAIN listed
            /\ \A k \in 1..(stopping' - 1) : ~Alive(listed[k])
  <1>1. listed \in Seq(Loops) /\ Len(listed) \in Nat /\ DOMAIN listed = 1..Len(listed)
    BY ListIsShort
  <1>2. From(i) \subseteq Nat /\ \A k \in From(i) : k \in DOMAIN listed
    BY <1>1 DEF From
  <1>3. CASE From(i) = {}
    <2>1. \A k \in DOMAIN listed : ~Alive(listed[k])
      BY <1>1, <1>3 DEF From
    <2>2. \A t \in Loops : ~Alive(t)
      BY <2>1 DEF SchedulerIInv, NoOrphans
    <2>3. QED
      BY <1>3, <2>2 DEF WaitFor
  <1>4. CASE From(i) # {}
    <2> DEFINE m == Min(From(i))
    <2>1. m \in From(i) /\ \A k \in From(i) : m <= k
      BY <1>2, <1>4, MinIsLeast
    <2>2. stopping' = m /\ listed' = listed
      BY <1>4 DEF WaitFor
    <2> HIDE DEF m
    <2>3. m \in DOMAIN listed /\ m \in Nat \ {0}
      BY <1>1, <1>2, <2>1
    <2>4. \A k \in 1..(m - 1) : ~Alive(listed[k])
      BY <1>1, <2>1, <2>3 DEF From
    <2>5. QED
      BY <2>2, <2>3, <2>4
  <1>5. QED
    BY <1>3, <1>4

\* stop() looks on along the list, and nothing else changes.
LEMMA WaitIInv ==
  ASSUME SchedulerIInv, NEW i \in Nat \ {0}, WaitFor(i),
         \A k \in DOMAIN listed : k < i => ~Alive(listed[k]),
         on' \in BOOLEAN, UNCHANGED <<loop, nap, clock, ran>>
  PROVE  SchedulerIInv'
  <1> USE DEF SchedulerIInv
  <1>0. loop' = loop /\ nap' = nap /\ clock' = clock /\ ran' = ran
    OBVIOUS
  <1>1. \A t : Alive(t)' = Alive(t)
    BY <1>0 DEF Alive
  <1>2. RunsAreCounted'
    <2>1. Half' = Half /\ \A t \in Crons : NowMatches(t)' = NowMatches(t)
      BY <1>0 DEF NowMatches, Minute, Hour, Day, Half
    <2>2. QED
      BY <2>1, <1>0 DEF RunsAreCounted, RunsCounted, Due
  <1>3. /\ listed \in Seq(Loops) /\ Len(listed) \in 0..Cardinality(Loops)
        /\ DOMAIN listed = 1..Len(listed) /\ Cardinality(Loops) \in Nat
    BY ListIsShort, SchedulerAssumption, FS_CardinalityType
  <1>4. CASE /\ stopping' = 0 /\ listed' = <<>>
             /\ \A t \in Loops : ~Alive(t)
    <2>1. listed' \in Seq(Loops)
      BY <1>4
    <2>2. stopping' \in 0..Cardinality(Loops)
      BY <1>3, <1>4
    <2>3. SchedulerTypeOK'
      BY <2>1, <2>2, <1>0, <1>4 DEF SchedulerTypeOK
    <2>4. NoOrphans' /\ StopsInTurn' /\ ListedOnce'
      BY <1>1, <1>4 DEF NoOrphans, StopsInTurn, ListedOnce
    <2>5. QED
      BY <2>3, <2>4, <1>2
  <1>5. CASE /\ listed' = listed /\ stopping' # 0 /\ stopping' \in DOMAIN listed
             /\ \A k \in 1..(stopping' - 1) : ~Alive(listed[k])
    <2>1. stopping' \in 0..Cardinality(Loops)
      BY <1>3, <1>5
    <2>2. SchedulerTypeOK'
      BY <2>1, <1>0, <1>5 DEF SchedulerTypeOK
    <2>3. NoOrphans' /\ StopsInTurn' /\ ListedOnce'
      BY <1>0, <1>1, <1>5 DEF NoOrphans, StopsInTurn, ListedOnce, Alive
    <2>4. QED
      BY <2>2, <2>3, <1>2
  <1>6. QED
    BY <1>4, <1>5, WaitsAtTheFirst

-----------------------------------------------------------------------------
\* Half a minute passes: nobody is due before it, and the other half of the
\* minute, or the next minute, begins.
LEMMA TimePassesIInv ==
  ASSUME SchedulerIInv, TimePasses
  PROVE  SchedulerIInv'
  <1> USE DEF SchedulerIInv
  <1>1. /\ clock' = (clock + 1) % Moments
        /\ nap' = [t \in Loops |-> IF nap[t] > 0 THEN nap[t] - 1 ELSE 0]
        /\ ran' = IF clock % 2 = 0 THEN ran
                  ELSE [t \in Crons |-> IF loop[t] = "busy" THEN 1 ELSE 0]
        /\ on' = on /\ listed' = listed /\ loop' = loop /\ stopping' = stopping
        /\ \A t \in Loops : ~Due(t)
    BY DEF TimePasses
  <1>2. Moments \in Nat \ {0} /\ clock \in 0..(Moments - 1)
    BY MomentsAreEven DEF SchedulerTypeOK
  <1>3. clock' = IF clock + 1 = Moments THEN 0 ELSE clock + 1
    <2> DEFINE M == Moments
    <2>1. M \in Nat \ {0} /\ clock \in 0..(M - 1)
      BY <1>2
    <2>2. clock' = (clock + 1) % M
      BY <1>1
    <2> HIDE DEF M
    <2>3. clock + 1 = M => (clock + 1) % M = 0
      BY <2>1
    <2>4. clock + 1 # M => (clock + 1) % M = clock + 1
      BY <2>1
    <2>5. QED
      BY <2>2, <2>3, <2>4 DEF M
  <1>4. clock' \in 0..(Moments - 1) /\ Half \in 0..1 /\ Half' = 1 - Half
    BY <1>2, <1>3, MomentsAreEven DEF Half
  <1>5. ran' \in [Crons -> Nat] /\ nap' \in [Loops -> Nat]
    BY <1>1 DEF SchedulerTypeOK
  <1>6. SchedulerTypeOK'
    BY <1>1, <1>4, <1>5 DEF SchedulerTypeOK
  <1>7. NoOrphans' /\ StopsInTurn' /\ ListedOnce'
    BY <1>1 DEF NoOrphans, StopsInTurn, ListedOnce, Alive
  <1>8. RunsAreCounted'
    <2> SUFFICES ASSUME NEW u \in Crons PROVE RunsCounted(u)'
      BY DEF RunsAreCounted
    <2>1. /\ u \in Loops /\ loop \in [Loops -> {"none", "created", "busy", "asleep", "gone", "died"}]
          /\ nap \in [Loops -> Nat] /\ ran \in [Crons -> Nat]
      BY DEF Loops, SchedulerTypeOK
    <2>2. RunsCounted(u) /\ ~Due(u)
      BY <1>1, <2>1 DEF RunsAreCounted
    <2>3. nap'[u] = 0 /\ loop'[u] = loop[u]
      BY <1>1, <2>1, <2>2 DEF RunsCounted
    <2>4. CASE Half = 0
      <3>1. ran'[u] = ran[u]
        BY <1>1, <2>4 DEF Half
      <3>2. QED
        BY <1>4, <2>1, <2>2, <2>3, <2>4, <3>1 DEF RunsCounted, Due
    <2>5. CASE Half = 1
      <3>1. ran'[u] = IF loop[u] = "busy" THEN 1 ELSE 0
        BY <1>1, <2>5 DEF Half
      <3>2. QED
        BY <1>4, <2>1, <2>2, <2>3, <2>5, <3>1 DEF RunsCounted, Due
    <2>6. QED
      BY <1>4, <2>4, <2>5
  <1>9. QED
    BY <1>6, <1>7, <1>8

LEMMA SchedulerNextIInv == SchedulerIInv /\ [SchedulerNext]_schedulerVars => SchedulerIInv'
  <1> SUFFICES ASSUME SchedulerIInv, [SchedulerNext]_schedulerVars PROVE SchedulerIInv'
    OBVIOUS
  <1>1. CASE \E t \in Loops : Schedule(t) \/ Turn(t)
    BY <1>1, ScheduleIInv, TurnIInv
  <1>2. CASE \E t \in Loops, ok \in BOOLEAN : FunctionEnds(t, ok)
    BY <1>2, FunctionEndsIInv
  <1>3. CASE StartScheduler
    <2>1. on' \in BOOLEAN /\ UNCHANGED <<listed, loop, nap, clock, stopping, ran>>
      BY <1>3 DEF StartScheduler
    <2>2. QED
      BY <2>1 DEF SchedulerIInv, SchedulerTypeOK, NoOrphans, StopsInTurn, ListedOnce, RunsAreCounted,
                  RunsCounted, Alive, Due, Half, NowMatches, Minute, Hour, Day
  <1>4. CASE StopScheduler
    <2>1. \A k \in DOMAIN listed : k < 1 => ~Alive(listed[k])
      BY ListIsShort
    <2>2. on' \in BOOLEAN /\ WaitFor(1) /\ UNCHANGED <<loop, nap, clock, ran>>
      BY <1>4 DEF StopScheduler
    <2>3. QED
      BY <2>1, <2>2, WaitIInv
  <1>5. CASE CancelledLoop
    <2>1. listed[stopping] \in Loops
      BY <1>5, ListIsShort DEF CancelledLoop, SchedulerIInv, StopsInTurn
    <2>2. QED
      BY <1>5, <2>1, LeaveIInv DEF CancelledLoop
  <1>6. CASE StopContinues
    <2>1. stopping \in DOMAIN listed /\ stopping \in Nat /\ DOMAIN listed = 1..Len(listed)
      BY <1>6, ListIsShort DEF StopContinues, SchedulerIInv, StopsInTurn
    <2>2. \A k \in DOMAIN listed : k < stopping + 1 => ~Alive(listed[k])
      <3>1. \A k \in 1..(stopping - 1) : ~Alive(listed[k])
        BY <1>6 DEF StopContinues, SchedulerIInv, StopsInTurn
      <3>2. ~Alive(listed[stopping])
        BY <1>6 DEF StopContinues
      <3>3. QED
        BY <2>1, <3>1, <3>2, ListIsShort
    <2>3. on' \in BOOLEAN /\ WaitFor(stopping + 1) /\ UNCHANGED <<loop, nap, clock, ran>>
      BY <1>6 DEF StopContinues, SchedulerIInv, SchedulerTypeOK
    <2>4. stopping + 1 \in Nat \ {0}
      BY <2>1
    <2>5. QED
      BY <2>2, <2>3, <2>4, WaitIInv
  <1>7. CASE TimePasses
    BY <1>7, TimePassesIInv
  <1>8. CASE UNCHANGED schedulerVars
    BY <1>8 DEF schedulerVars, SchedulerIInv, SchedulerTypeOK, NoOrphans, StopsInTurn, ListedOnce,
                RunsAreCounted, RunsCounted, Alive, Due, Half, NowMatches, Minute, Hour, Day
  <1>9. QED
    BY <1>1, <1>2, <1>3, <1>4, <1>5, <1>6, <1>7, <1>8 DEF SchedulerNext

\* The inductive invariant holds in every state of the scheduler.
THEOREM SchedulerInvariant == SchedulerSpec => []SchedulerIInv
  BY SchedulerInitIInv, SchedulerNextIInv, PTL DEF SchedulerSpec

-----------------------------------------------------------------------------
\* A task ran twice in a minute at most: once in each half, or once carried over.
LEMMA NeverThrice == SchedulerIInv => AtMostTwice
  BY DEF SchedulerIInv, SchedulerTypeOK, RunsAreCounted, RunsCounted, Half, AtMostTwice

\* A function begins by a turn of its loop only.
LEMMA OnlyDueBegin ==
  ASSUME SchedulerIInv, [SchedulerNext]_schedulerVars,
         NEW t \in Crons, loop[t] # "busy", loop'[t] = "busy"
  PROVE  NowMatches(t) = "yes"
  <1>1. /\ t \in Loops /\ t \notin Intervals
        /\ loop \in [Loops -> {"none", "created", "busy", "asleep", "gone", "died"}]
    BY SchedulerAssumption DEF Loops, SchedulerIInv, SchedulerTypeOK
  <1>2. ASSUME NEW u \in Loops, Turn(u) PROVE NowMatches(t) = "yes"
    <2>1. CASE u # t
      BY <1>1, <1>2, <2>1 DEF Turn, LeaveLoop, IntervalTurn, CronTurn, Leave, Begin, Sleep
    <2>2. CASE u = t /\ NowMatches(t) # "yes"
      BY <1>1, <1>2, <2>2 DEF Turn, LeaveLoop, IntervalTurn, CronTurn, Leave, Sleep
    <2>3. QED
      BY <2>1, <2>2
  <1>3. ASSUME NEW u \in Loops, NEW ok \in BOOLEAN, FunctionEnds(u, ok) PROVE FALSE
    BY <1>1, <1>3 DEF FunctionEnds, Sleep
  <1>4. ASSUME NEW u \in Loops, Schedule(u) PROVE FALSE
    BY <1>1, <1>4 DEF Schedule
  <1>5. ~CancelledLoop
    BY <1>1, ListIsShort DEF CancelledLoop, Leave
  <1>6. ~(StartScheduler \/ StopScheduler \/ StopContinues \/ TimePasses \/ UNCHANGED schedulerVars)
    BY DEF StartScheduler, StopScheduler, StopContinues, TimePasses, schedulerVars
  <1>7. QED
    BY <1>2, <1>3, <1>4, <1>5, <1>6 DEF SchedulerNext

\* The minute that matches is the minute of every field.
LEMMA MatchIsOfAllFields ==
  ASSUME NEW t, NowMatches(t) = "yes"
  PROVE  /\ Match(Minute, Fields[t].minute) = "yes"
         /\ Match(Hour, Fields[t].hour) = "yes"
         /\ Match(Day, Fields[t].day) = "yes"
  BY DEF NowMatches

\* Time passes only when nobody is due, so that whoever sleeps through it fell
\* asleep in this half minute.
LEMMA NoneIsMissed ==
  ASSUME SchedulerIInv, [SchedulerNext]_schedulerVars, clock # clock',
         NEW t \in Crons, loop[t] = "asleep", NowMatches(t) = "yes"
  PROVE  ran[t] > 0
  <1>1. TimePasses
    BY DEF SchedulerNext, schedulerVars, Schedule, Turn, LeaveLoop, IntervalTurn, CronTurn, Leave,
           Begin, Sleep, FunctionEnds, StartScheduler, StopScheduler, CancelledLoop, StopContinues
  <1>2. t \in Loops /\ nap \in [Loops -> Nat]
    BY DEF Loops, SchedulerIInv, SchedulerTypeOK
  <1>3. nap[t] > 0
    BY <1>1, <1>2 DEF TimePasses, Due
  <1>4. QED
    BY <1>3 DEF SchedulerIInv, RunsAreCounted, RunsCounted

\* stop() returns when nobody is left.
LEMMA NobodyIsLeft ==
  ASSUME SchedulerIInv, [SchedulerNext]_schedulerVars, stopping # 0, stopping' = 0
  PROVE  \A t \in Loops : ~Alive(t)
  <1>1. StopContinues
    BY DEF SchedulerNext, schedulerVars, Schedule, Turn, LeaveLoop, IntervalTurn, CronTurn, Leave,
           Begin, Sleep, FunctionEnds, StartScheduler, StopScheduler, CancelledLoop, TimePasses
  <1>2. stopping \in DOMAIN listed /\ stopping \in Nat /\ DOMAIN listed = 1..Len(listed)
    BY ListIsShort DEF SchedulerIInv, StopsInTurn
  <1>3. \A k \in DOMAIN listed : k < stopping + 1 => ~Alive(listed[k])
    <2>1. \A k \in 1..(stopping - 1) : ~Alive(listed[k])
      BY DEF SchedulerIInv, StopsInTurn
    <2>2. ~Alive(listed[stopping])
      BY <1>1 DEF StopContinues
    <2>3. QED
      BY <1>2, <2>1, <2>2, ListIsShort
  <1>4. WaitFor(stopping + 1) /\ stopping + 1 \in Nat \ {0}
    BY <1>1, <1>2 DEF StopContinues
  <1>5. QED
    BY <1>3, <1>4, WaitsAtTheFirst

\* TaskScheduler keeps its loops in hand (scheduler.py): every loop that is
\* alive is where stop() finds it, none is left when stop() has returned, and a
\* cron task runs in its minutes, in every one of them and twice at most.
THEOREM LoopsInHand == SchedulerSpec => LoopsAreKept
  <1>1. SchedulerIInv => NoOrphans /\ AtMostTwice
    BY NeverThrice DEF SchedulerIInv
  <1>2. SchedulerIInv /\ [SchedulerNext]_schedulerVars =>
          [/\ \A t \in Crons :
                 loop[t] # "busy" /\ loop'[t] = "busy" =>
                    /\ Match(Minute, Fields[t].minute) = "yes"
                    /\ Match(Hour, Fields[t].hour) = "yes"
                    /\ Match(Day, Fields[t].day) = "yes"
           /\ clock # clock' /\ clock % 2 = 1 =>
                 \A t \in Crons :
                    loop[t] = "asleep" /\ NowMatches(t) = "yes" => ran[t] > 0]_schedulerVars
    BY OnlyDueBegin, MatchIsOfAllFields, NoneIsMissed
  <1>3. SchedulerIInv /\ [SchedulerNext]_schedulerVars =>
          [stopping # 0 /\ stopping' = 0 => \A t \in Loops : ~Alive(t)]_schedulerVars
    BY NobodyIsLeft
  <1>4. QED
    BY <1>1, <1>2, <1>3, SchedulerInvariant, PTL
    DEF SchedulerSpec, LoopsAreKept, RunsWhenItMatches, StopEndsAll

-----------------------------------------------------------------------------
(* Heartbeat.                                                              *)

(* The inductive invariant.  The counter of an agent is the number of      *)
(* unhealthy reports at the end of those made since its registration, and  *)
(* the history tells the same of every agent, from its end backwards.      *)

AnyMember == Members \cup {CHOOSE m \in Members : TRUE}

CallTypes == [step : Steps, agent : AnyMember, next : Nat, due : Nat, count : Nat]

HealthTypes ==
    /\ failures \in [Members -> Nat]
    /\ since \in [Members -> Seq(BOOLEAN)]
    /\ history \in Seq(Report)
    /\ callbacks \in Nat
    /\ report \in [Reports -> CallTypes]

\* n unhealthy reports end the sequence s, and no more.
EndsIn(s, n) ==
    /\ n \in 0..Len(s)
    /\ \A k \in (Len(s) - n + 1)..Len(s) : s[k] = FALSE
    /\ n = Len(s) \/ s[Len(s) - n] = TRUE

FailuresInARow == \A m \in Members : EndsIn(since[m], failures[m])

\* What the place i of a history h says, if o holds every agent's own reports.
Agrees(h, o, i) ==
    LET own  == o[h[i].agent]
        rank == Cardinality(Later(h, i))
    IN  rank <= Len(own) => h[i].healthy = own[Len(own) + 1 - rank]

HistoryAgrees == \A i \in DOMAIN history : Agrees(history, since, i)

HealthIInv == HealthTypes /\ FailuresInARow /\ HistoryAgrees /\ Len(history) <= MaxReports

-----------------------------------------------------------------------------
\* How many reports end a sequence is one number, the one that InARow finds.
LEMMA EndsInOneWay ==
  ASSUME NEW s \in Seq(BOOLEAN), NEW n, EndsIn(s, n)
  PROVE  InARow(s) = n
  <1> DEFINE P(k) == /\ \A j \in (Len(s) - k + 1)..Len(s) : ~s[j]
                     /\ k = Len(s) \/ s[Len(s) - k]
  <1>1. Len(s) \in Nat /\ \A j \in 1..Len(s) : s[j] \in BOOLEAN
    OBVIOUS
  <1>2. n \in 0..Len(s) /\ P(n)
    BY <1>1 DEF EndsIn
  <1>3. ASSUME NEW k \in 0..Len(s), NEW l \in 0..Len(s), P(k), P(l), k < l
        PROVE  FALSE
    <2>1. s[Len(s) - k]
      BY <1>1, <1>3
    <2>2. Len(s) - k \in (Len(s) - l + 1)..Len(s)
      BY <1>1, <1>3
    <2>3. QED
      BY <2>1, <2>2, <1>3
  <1>4. ASSUME NEW k \in 0..Len(s), P(k), k # n
        PROVE  FALSE
    <2>1. k < n \/ n < k
      BY <1>1, <1>2, <1>4
    <2> HIDE DEF P
    <2>2. QED
      BY <2>1, <1>2, <1>3, <1>4
  <1>5. InARow(s) = CHOOSE k \in 0..Len(s) : P(k)
    BY DEF InARow
  <1> HIDE DEF P
  <1>6. QED
    BY <1>2, <1>4, <1>5

LEMMA EndsInNext ==
  ASSUME NEW s \in Seq(BOOLEAN), NEW n, EndsIn(s, n), NEW v \in BOOLEAN
  PROVE  EndsIn(Append(s, v), IF v THEN 0 ELSE n + 1)
  <1> DEFINE t == Append(s, v)
  <1>1. /\ Len(s) \in Nat /\ Len(t) = Len(s) + 1
        /\ \A k \in 1..Len(s) : t[k] = s[k]
        /\ t[Len(s) + 1] = v
    OBVIOUS
  <1> HIDE DEF t
  <1>2. CASE v
    BY <1>1, <1>2 DEF EndsIn
  <1>3. CASE ~v
    BY <1>1, <1>3 DEF EndsIn
  <1>4. QED
    BY <1>2, <1>3 DEF t

LEMMA ReportsHaveAgents ==
  ASSUME NEW h \in Seq(Report), NEW i \in DOMAIN h
  PROVE  h[i].agent \in Members
  <1>1. h[i] \in Report
    OBVIOUS
  <1>2. QED
    BY <1>1 DEF Report

\* A rank counts from 1.
LEMMA RankIsPositive ==
  ASSUME NEW h \in Seq(Report), NEW i \in DOMAIN h
  PROVE  IsFiniteSet(Later(h, i)) /\ Cardinality(Later(h, i)) \in Nat \ {0}
  <1>1. Len(h) \in Nat /\ DOMAIN h = 1..Len(h)
    OBVIOUS
  <1>2. IsFiniteSet(i..Len(h))
    BY <1>1, FS_Interval
  <1>3. Later(h, i) \subseteq i..Len(h) /\ i \in Later(h, i)
    BY <1>1 DEF Later
  <1>4. IsFiniteSet(Later(h, i)) /\ Cardinality(Later(h, i)) \in Nat
    BY <1>2, <1>3, FS_Subset, FS_CardinalityType
  <1>5. Cardinality(Later(h, i)) # 0
    BY <1>3, <1>4, FS_EmptySet
  <1>6. QED
    BY <1>4, <1>5

\* What is left of a sequence when d elements are cut off at its front.
LEMMA SuffixOf ==
  ASSUME NEW S, NEW s \in Seq(S), NEW d \in 0..Len(s)
  PROVE  LET t == SubSeq(s, d + 1, Len(s))
         IN  /\ t \in Seq(S) /\ Len(t) = Len(s) - d
             /\ \A j \in 1..(Len(s) - d) : t[j] = s[j + d]
  <1> DEFINE t == SubSeq(s, d + 1, Len(s))
             n == Len(s)
  <1>1. n \in Nat /\ d \in 0..n /\ \A i \in 1..n : s[i] \in S
    OBVIOUS
  <1> HIDE DEF n
  <1>2. \A i \in (d + 1)..n : s[i] \in S
    BY <1>1
  <1>3. /\ SubSeq(s, d + 1, n) \in Seq(S)
        /\ Len(SubSeq(s, d + 1, n)) = IF d + 1 <= n THEN n - (d + 1) + 1 ELSE 0
        /\ \A j \in 1..(n - (d + 1) + 1) : SubSeq(s, d + 1, n)[j] = s[d + 1 + j - 1]
    BY <1>1, <1>2, SubSeqProperties
  <1>4. (IF d + 1 <= n THEN n - (d + 1) + 1 ELSE 0) = n - d
    BY <1>1
  <1>5. ASSUME NEW j \in 1..(n - d) PROVE SubSeq(s, d + 1, n)[j] = s[j + d]
    <2>1. j \in 1..(n - (d + 1) + 1) /\ d + 1 + j - 1 = j + d
      BY <1>1
    <2>2. QED
      BY <1>3, <2>1
  <1>6. QED
    BY <1>3, <1>4, <1>5 DEF n

\* What is cut off at the front of a history changes no rank.
LEMMA RankOfSuffix ==
  ASSUME NEW h \in Seq(Report), NEW d \in 0..Len(h), NEW i \in 1..(Len(h) - d)
  PROVE  LET t == SubSeq(h, d + 1, Len(h))
         IN  t[i] = h[i + d] /\ Cardinality(Later(t, i)) = Cardinality(Later(h, i + d))
  <1> DEFINE t == SubSeq(h, d + 1, Len(h))
             S == Later(t, i)
             T == Later(h, i + d)
             f == [j \in S |-> j + d]
  <1>1. Len(h) \in Nat /\ DOMAIN h = 1..Len(h)
    OBVIOUS
  <1>2. Len(t) = Len(h) - d /\ \A j \in 1..(Len(h) - d) : t[j] = h[j + d]
    BY SuffixOf
  <1> HIDE DEF t
  <1>3. \A j \in Int : j \in S <=> j \in i..(Len(h) - d) /\ h[j + d].agent = h[i + d].agent
    BY <1>1, <1>2 DEF Later
  <1>4. \A j \in Int : j \in T <=> j \in (i + d)..Len(h) /\ h[j].agent = h[i + d].agent
    BY <1>1 DEF Later
  <1>5. S \subseteq Int /\ T \subseteq Int
    BY <1>1, <1>2 DEF Later
  <1>6. i + d \in DOMAIN h
    BY <1>1
  <1>7. IsFiniteSet(T)
    BY <1>6, RankIsPositive
  <1> HIDE DEF S, T
  <1>8. f \in Bijection(S, T)
    <2>1. f \in [S -> T]
      BY <1>1, <1>3, <1>4, <1>5
    <2>2. \A a, b \in S : f[a] = f[b] => a = b
      BY <1>5
    <2>3. \A b \in T : \E a \in S : f[a] = b
      <3> SUFFICES ASSUME NEW b \in T PROVE \E a \in S : f[a] = b
        OBVIOUS
      <3>1. b - d \in S
        BY <1>1, <1>3, <1>4, <1>5
      <3>2. f[b - d] = b
        BY <3>1, <1>5
      <3>3. QED
        BY <3>1, <3>2
    <2>4. QED
      BY <2>1, <2>2, <2>3, Fun_IsBij
  <1>9. Cardinality(S) = Cardinality(T)
    <2>1. ExistsBijection(T, S)
      BY <1>8, Fun_ExistsBijSymmetric DEF ExistsBijection
    <2>2. QED
      BY <1>7, <2>1, FS_Bijection
  <1>10. QED
    BY <1>2, <1>9 DEF t, S, T

\* A history that is kept short still agrees.
LEMMA SuffixAgrees ==
  ASSUME NEW h \in Seq(Report), NEW o, NEW d \in 0..Len(h),
         \A i \in DOMAIN h : Agrees(h, o, i)
  PROVE  \A i \in DOMAIN SubSeq(h, d + 1, Len(h)) : Agrees(SubSeq(h, d + 1, Len(h)), o, i)
  <1> DEFINE t == SubSeq(h, d + 1, Len(h))
  <1>1. Len(h) \in Nat /\ DOMAIN h = 1..Len(h) /\ DOMAIN t = 1..(Len(h) - d)
    OBVIOUS
  <1> SUFFICES ASSUME NEW i \in DOMAIN t PROVE Agrees(t, o, i)
    OBVIOUS
  <1>2. i \in 1..(Len(h) - d) /\ i + d \in DOMAIN h
    BY <1>1
  <1>3. t[i] = h[i + d] /\ Cardinality(Later(t, i)) = Cardinality(Later(h, i + d))
    BY <1>2, RankOfSuffix
  <1>4. Agrees(h, o, i + d)
    BY <1>2
  <1> HIDE DEF t
  <1>5. QED
    BY <1>3, <1>4 DEF Agrees

\* Keep cuts off what is at the front, if anything.
LEMMA KeepIsSuffix ==
  ASSUME NEW h \in Seq(Report)
  PROVE  /\ \E d \in 0..Len(h) : Keep(h) = SubSeq(h, d + 1, Len(h))
         /\ Keep(h) \in Seq(Report)
         /\ Len(Keep(h)) <= MaxReports
  <1>1. Len(h) \in Nat /\ KeptReports \in Nat /\ MaxReports \in Nat /\ KeptReports <= MaxReports
    BY HeartbeatAssumption
  <1>2. CASE Len(h) > MaxReports
    <2> DEFINE d == Len(h) - KeptReports
    <2>1. d \in 0..Len(h) /\ Keep(h) = SubSeq(h, d + 1, Len(h))
      BY <1>1, <1>2 DEF Keep
    <2>2. SubSeq(h, d + 1, Len(h)) \in Seq(Report) /\ Len(SubSeq(h, d + 1, Len(h))) = KeptReports
      BY <1>1, <1>2, <2>1
    <2>3. QED
      BY <1>1, <2>1, <2>2
  <1>3. CASE ~(Len(h) > MaxReports)
    <2>1. Keep(h) = h /\ SubSeq(h, 0 + 1, Len(h)) = h
      BY <1>1, <1>3 DEF Keep
    <2>2. QED
      BY <1>1, <1>3, <2>1
  <1>4. QED
    BY <1>2, <1>3

-----------------------------------------------------------------------------
LEMMA HealthInitIInv == HeartbeatInit => HealthIInv
  <1> SUFFICES ASSUME HeartbeatInit PROVE HealthIInv
    OBVIOUS
  <1>1. failures \in [Members -> Nat] /\ since \in [Members -> Seq(BOOLEAN)]
    BY DEF HeartbeatInit
  <1>2. history = <<>> /\ history \in Seq(Report) /\ callbacks \in Nat
    BY DEF HeartbeatInit
  <1>3. report \in [Reports -> CallTypes]
    <2>1. "none" \in Steps
      BY DEF Steps
    <2>2. \A m \in {CHOOSE m \in Members : TRUE} : m \in AnyMember
      BY DEF AnyMember
    <2> HIDE DEF AnyMember
    <2>3. {[step |-> "none", agent |-> m, next |-> 1, due |-> 0, count |-> 0] :
               m \in {CHOOSE m \in Members : TRUE}} \subseteq CallTypes
      <3>1. ASSUME NEW m \in AnyMember
            PROVE  [step |-> "none", agent |-> m, next |-> 1, due |-> 0, count |-> 0] \in CallTypes
        BY <2>1 DEF CallTypes
      <3>2. QED
        BY <2>2, <3>1
    <2>4. QED
      BY <2>3 DEF HeartbeatInit
  <1>4. FailuresInARow
    BY DEF FailuresInARow, EndsIn, HeartbeatInit
  <1>5. HistoryAgrees /\ Len(history) <= MaxReports
    BY <1>2, HeartbeatAssumption DEF HistoryAgrees
  <1>6. QED
    BY <1>1, <1>2, <1>3, <1>4, <1>5 DEF HealthIInv, HealthTypes

\* What only calls and callbacks change.
LEMMA CallsIInv ==
  ASSUME HealthIInv, UNCHANGED <<failures, history, since>>,
         callbacks' \in Nat, report' \in [Reports -> CallTypes]
  PROVE  HealthIInv'
  BY DEF HealthIInv, HealthTypes, FailuresInARow, HistoryAgrees, Agrees

LEMMA RegisterIInv ==
  ASSUME HealthIInv, NEW m \in Members, RegisterAgent(m)
  PROVE  HealthIInv'
  <1>1. /\ failures' = [failures EXCEPT ![m] = 0] /\ since' = [since EXCEPT ![m] = <<>>]
        /\ history' = history /\ callbacks' = callbacks /\ report' = report
    BY DEF RegisterAgent
  <1>2. HealthTypes
    BY DEF HealthIInv
  <1>3. since' \in [Members -> Seq(BOOLEAN)]
    BY <1>1, <1>2 DEF HealthTypes
  <1>4. HealthTypes'
    BY <1>1, <1>2, <1>3 DEF HealthTypes
  <1>5. FailuresInARow'
    <2>1. EndsIn(<<>>, 0)
      BY DEF EndsIn
    <2>2. QED
      BY <1>1, <1>2, <2>1 DEF HealthIInv, FailuresInARow, HealthTypes
  <1>6. HistoryAgrees'
    <2> SUFFICES ASSUME NEW i \in DOMAIN history PROVE Agrees(history, since', i)
      BY <1>1 DEF HistoryAgrees
    <2>1. Agrees(history, since, i)
      BY DEF HealthIInv, HistoryAgrees
    <2>2. history \in Seq(Report) /\ history[i].agent \in Members
      BY <1>2, ReportsHaveAgents DEF HealthTypes
    <2>3. Cardinality(Later(history, i)) \in Nat \ {0}
      BY <2>2, RankIsPositive
    <2>4. CASE history[i].agent = m
      <3>1. since'[history[i].agent] = <<>>
        BY <1>1, <1>2, <2>2, <2>4 DEF HealthTypes
      <3>2. QED
        BY <2>3, <3>1 DEF Agrees
    <2>5. CASE history[i].agent # m
      <3>1. since'[history[i].agent] = since[history[i].agent]
        BY <1>1, <1>2, <2>2, <2>5 DEF HealthTypes
      <3>2. QED
        BY <2>1, <3>1 DEF Agrees
    <2>6. QED
      BY <2>4, <2>5
  <1>7. QED
    BY <1>1, <1>4, <1>5, <1>6 DEF HealthIInv

\* A report at the end of the history is one more of its agent, at every place
\* of that agent and of no other.
LEMMA AppendAgrees ==
  ASSUME NEW h \in Seq(Report), NEW o \in [Members -> Seq(BOOLEAN)],
         \A i \in DOMAIN h : Agrees(h, o, i),
         NEW m \in Members, NEW v \in BOOLEAN
  PROVE  LET e == [agent |-> m, healthy |-> v]
             p == [o EXCEPT ![m] = Append(@, v)]
         IN  \A i \in DOMAIN Append(h, e) : Agrees(Append(h, e), p, i)
  <1> DEFINE e == [agent |-> m, healthy |-> v]
             p == [o EXCEPT ![m] = Append(o[m], v)]
             g == Append(h, e)
             n == Len(h)
  <1>1. /\ n \in Nat /\ Len(g) = n + 1 /\ DOMAIN h = 1..n /\ DOMAIN g = 1..(n + 1)
        /\ \A i \in 1..n : g[i] = h[i]
        /\ g[n + 1] = e /\ e.agent = m /\ e.healthy = v
    OBVIOUS
  <1>2. /\ p[m] = Append(o[m], v)
        /\ \A a \in Members : a # m => p[a] = o[a]
    OBVIOUS
  <1>3. \A a \in Members : o[a] \in Seq(BOOLEAN) /\ Len(o[a]) \in Nat
    OBVIOUS
  <1>4. \A i \in 1..n : h[i].agent \in Members
    BY <1>1, ReportsHaveAgents
  <1> HIDE DEF e, p, g, n
  <1>5. ASSUME NEW i \in 1..n PROVE Agrees(g, p, i)
    <2> DEFINE a == h[i].agent
               rank == Cardinality(Later(h, i))
    <2>1. a \in Members /\ g[i] = h[i]
      BY <1>1, <1>4
    <2>2. IsFiniteSet(Later(h, i)) /\ rank \in Nat \ {0}
      BY <1>1, RankIsPositive
    <2>3. n + 1 \notin Later(h, i)
      BY <1>1 DEF Later, n
    <2>4. Agrees(h, o, i)
      BY <1>1
    <2>5. rank <= Len(o[a]) => h[i].healthy = o[a][Len(o[a]) + 1 - rank]
      BY <2>4 DEF Agrees
    <2>6. CASE a = m
      <3>1. Later(g, i) = Later(h, i) \cup {n + 1}
        <4>1. \A j \in Int : j \in Later(g, i) <=> j \in i..(n + 1) /\ g[j].agent = m
          BY <1>1, <2>1, <2>6 DEF Later
        <4>2. \A j \in Int : j \in Later(h, i) <=> j \in i..n /\ h[j].agent = m
          BY <1>1, <2>1, <2>6 DEF Later, n
        <4>3. Later(g, i) \subseteq Int /\ Later(h, i) \subseteq Int /\ n + 1 \in Int
          BY <1>1, <2>1 DEF Later, n
        <4>4. ASSUME NEW j \in Int
              PROVE  j \in Later(g, i) <=> j \in Later(h, i) \/ j = n + 1
          <5>1. n \in Nat /\ i \in 1..n /\ g[n + 1].agent = m
            BY <1>1
          <5>2. CASE j = n + 1
            BY <4>1, <5>1, <5>2
          <5>3. CASE j \in i..n
            <6>1. g[j] = h[j] /\ j \in i..(n + 1)
              BY <1>1, <5>1, <5>3
            <6>2. QED
              BY <4>1, <4>2, <5>1, <5>3, <6>1
          <5>4. CASE j # n + 1 /\ j \notin i..n
            <6>1. j \notin i..(n + 1)
              BY <5>1, <5>4
            <6>2. QED
              BY <4>1, <4>2, <5>4, <6>1
          <5>5. QED
            BY <5>2, <5>3, <5>4
        <4>5. QED
          BY <4>3, <4>4
      <3>2. Cardinality(Later(g, i)) = rank + 1
        BY <2>2, <2>3, <3>1, FS_AddElement
      <3>3. Len(p[a]) = Len(o[a]) + 1 /\ \A k \in 1..Len(o[a]) : p[a][k] = o[a][k]
        <4>1. o[m] \in Seq(BOOLEAN)
          BY <1>3
        <4>2. /\ Len(Append(o[m], v)) = Len(o[m]) + 1
              /\ \A k \in 1..Len(o[m]) : Append(o[m], v)[k] = o[m][k]
          BY <4>1
        <4>3. QED
          BY <1>2, <2>6, <4>2
      <3> DEFINE l == Len(o[a])
      <3>4. l \in Nat
        BY <1>3, <2>1
      <3>41. rank \in Nat \ {0}
        BY <2>2
      <3> HIDE DEF a, rank, l
      <3>5. /\ rank + 1 <= l + 1 => rank <= l /\ l + 1 - rank \in 1..l
            /\ (l + 1) + 1 - (rank + 1) = l + 1 - rank
        BY <3>41, <3>4
      <3>6. rank + 1 <= Len(p[a]) => h[i].healthy = p[a][Len(p[a]) + 1 - (rank + 1)]
        <4>1. rank <= l => h[i].healthy = o[a][l + 1 - rank]
          BY <2>5 DEF l
        <4>2. Len(p[a]) = l + 1 /\ \A k \in 1..l : p[a][k] = o[a][k]
          BY <3>3 DEF l
        <4> HIDE DEF l
        <4>3. rank + 1 <= l + 1 => h[i].healthy = p[a][l + 1 - rank]
          BY <3>5, <4>1, <4>2
        <4>4. Len(p[a]) = l + 1 /\ Len(p[a]) + 1 - (rank + 1) = l + 1 - rank
          BY <3>5, <4>2
        <4>5. QED
          BY <4>3, <4>4
      <3>7. QED
        BY <2>1, <3>2, <3>6 DEF Agrees, a
    <2>7. CASE a # m
      <3>1. Later(g, i) = Later(h, i)
        <4>1. /\ \A j \in Int : j \in Later(g, i) <=> j \in i..(n + 1) /\ g[j].agent = a
              /\ \A j \in Int : j \in Later(h, i) <=> j \in i..n /\ h[j].agent = a
              /\ Later(g, i) \subseteq Int /\ Later(h, i) \subseteq Int
          BY <1>1, <2>1 DEF Later, n
        <4>2. g[n + 1].agent # a
          BY <1>1, <2>7
        <4>3. \A j \in i..n : g[j] = h[j]
          BY <1>1
        <4>4. \A j \in Int : j \in i..(n + 1) <=> j \in i..n \/ j = n + 1
          BY <1>1
        <4> HIDE DEF a
        <4>5. \A j \in Int : j \in Later(g, i) <=> j \in Later(h, i)
          BY <4>1, <4>2, <4>3, <4>4
        <4>6. QED
          BY <4>1, <4>5
      <3>2. p[a] = o[a]
        BY <1>2, <2>1, <2>7
      <3>3. QED
        BY <2>1, <2>4, <3>1, <3>2 DEF Agrees
    <2>8. QED
      BY <2>6, <2>7
  <1>6. Agrees(g, p, n + 1)
    <2>1. Later(g, n + 1) = {n + 1}
      BY <1>1 DEF Later
    <2>2. Cardinality(Later(g, n + 1)) = 1
      BY <2>1, FS_Singleton
    <2>3. p[m][Len(p[m]) + 1 - 1] = v
      BY <1>2, <1>3
    <2>4. QED
      BY <1>1, <2>2, <2>3 DEF Agrees
  <1>7. \A i \in DOMAIN g : Agrees(g, p, i)
    BY <1>1, <1>5, <1>6
  <1>8. QED
    BY <1>7 DEF e, p, g

LEMMA GenerateIInv ==
  ASSUME HealthIInv, NEW c \in Reports, NEW m \in Members, NEW checks \in SUBSET BOOLEAN,
         GenerateReport(c, m, checks)
  PROVE  HealthIInv'
  <1> DEFINE v == Healthy(checks)
             e == [agent |-> m, healthy |-> v]
             h == Append(history, e)
  <1>1. v \in BOOLEAN
    BY DEF Healthy
  <1>2. HealthTypes
    BY DEF HealthIInv
  <1> HIDE DEF v
  <1>3. /\ failures' = [failures EXCEPT ![m] = IF v THEN 0 ELSE failures[m] + 1]
        /\ history' = Keep(h)
        /\ since' = [since EXCEPT ![m] = Append(@, v)]
        /\ report' = [report EXCEPT ![c] =
                [step |-> IF v THEN "done" ELSE "alerting",
                 agent |-> m, next |-> 1, due |-> callbacks, count |-> failures'[m]]]
        /\ callbacks' = callbacks
    BY DEF GenerateReport, Counted, v
  <1>4. failures' \in [Members -> Nat]
    BY <1>2, <1>3 DEF HealthTypes
  <1>5. since' \in [Members -> Seq(BOOLEAN)]
    BY <1>1, <1>2, <1>3 DEF HealthTypes
  <1>6. h \in Seq(Report)
    <2>1. e \in Report
      BY <1>1 DEF Report
    <2>2. QED
      BY <2>1, <1>2 DEF HealthTypes
  <1>7. report' \in [Reports -> CallTypes]
    <2>1. /\ m \in AnyMember /\ failures'[m] \in Nat /\ callbacks \in Nat
          /\ (IF v THEN "done" ELSE "alerting") \in Steps
      BY <1>2, <1>4 DEF AnyMember, HealthTypes, Steps
    <2> HIDE DEF AnyMember
    <2>2. [step |-> IF v THEN "done" ELSE "alerting",
           agent |-> m, next |-> 1, due |-> callbacks, count |-> failures'[m]] \in CallTypes
      BY <2>1 DEF CallTypes
    <2>3. QED
      BY <1>2, <1>3, <2>2 DEF HealthTypes
  <1>8. history' \in Seq(Report) /\ Len(history') <= MaxReports
    BY <1>3, <1>6, KeepIsSuffix
  <1>9. HealthTypes'
    BY <1>2, <1>3, <1>4, <1>5, <1>7, <1>8 DEF HealthTypes
  <1>10. FailuresInARow'
    <2> SUFFICES ASSUME NEW a \in Members PROVE EndsIn(since'[a], failures'[a])
      BY DEF FailuresInARow
    <2>1. EndsIn(since[a], failures[a]) /\ since[a] \in Seq(BOOLEAN)
      BY <1>2 DEF HealthIInv, FailuresInARow, HealthTypes
    <2>2. CASE a = m
      <3>1. since'[a] = Append(since[a], v) /\ failures'[a] = IF v THEN 0 ELSE failures[a] + 1
        BY <1>2, <1>3, <2>2 DEF HealthTypes
      <3>2. QED
        BY <1>1, <2>1, <3>1, EndsInNext
    <2>3. CASE a # m
      BY <1>2, <1>3, <2>1, <2>3 DEF HealthTypes
    <2>4. QED
      BY <2>2, <2>3
  <1>11. HistoryAgrees'
    <2>1. \A i \in DOMAIN h : Agrees(h, since', i)
      <3>1. /\ history \in Seq(Report) /\ since \in [Members -> Seq(BOOLEAN)]
            /\ \A i \in DOMAIN history : Agrees(history, since, i)
        BY <1>2 DEF HealthTypes, HealthIInv, HistoryAgrees
      <3>2. QED
        BY <1>1, <1>3, <3>1, AppendAgrees
    <2> HIDE DEF h
    <2>2. PICK d \in 0..Len(h) : Keep(h) = SubSeq(h, d + 1, Len(h))
      BY <1>6, KeepIsSuffix
    <2>3. \A i \in DOMAIN Keep(h) : Agrees(Keep(h), since', i)
      BY <1>6, <2>1, <2>2, SuffixAgrees
    <2>4. QED
      BY <1>3, <2>3 DEF HistoryAgrees
  <1>12. QED
    BY <1>8, <1>9, <1>10, <1>11 DEF HealthIInv

LEMMA HealthNextIInv == HealthIInv /\ [HeartbeatNext]_heartbeatVars => HealthIInv'
  <1> SUFFICES ASSUME HealthIInv, [HeartbeatNext]_heartbeatVars PROVE HealthIInv'
    OBVIOUS
  <1>1. HealthTypes
    BY DEF HealthIInv
  <1>2. CASE \E m \in Members : RegisterAgent(m)
    BY <1>2, RegisterIInv
  <1>3. CASE AddCallback
    BY <1>1, <1>3, CallsIInv DEF AddCallback, HealthTypes
  <1>4. ASSUME NEW c \in Reports, \E m \in Members, checks \in SUBSET BOOLEAN : GenerateReport(c, m, checks)
        PROVE  HealthIInv'
    BY <1>4, GenerateIInv
  <1>5. ASSUME NEW c \in Reports, NEW step \in Steps,
               report' = [report EXCEPT ![c].step = step],
               UNCHANGED <<failures, history, callbacks, since>>
        PROVE  HealthIInv'
    <2>1. report' \in [Reports -> CallTypes]
      BY <1>1, <1>5 DEF HealthTypes, CallTypes
    <2>2. QED
      BY <1>1, <1>5, <2>1, CallsIInv DEF HealthTypes
  <1>6. ASSUME NEW c \in Reports, NEW ok \in BOOLEAN, Callback(c, ok) PROVE HealthIInv'
    <2>1. report' \in [Reports -> CallTypes]
      <3>1. report[c] \in CallTypes /\ report' = [report EXCEPT ![c] = [report[c] EXCEPT !.next = report[c].next + 1]]
        BY <1>1, <1>6 DEF HealthTypes, Callback
      <3>2. [report[c] EXCEPT !.next = report[c].next + 1] \in CallTypes
        BY <3>1 DEF CallTypes
      <3>3. QED
        BY <1>1, <3>1, <3>2 DEF HealthTypes
    <2>2. QED
      BY <1>1, <1>6, <2>1, CallsIInv DEF HealthTypes, Callback
  <1>7. ASSUME NEW c \in Reports, AlertsDone(c) \/ CancelReport(c) PROVE HealthIInv'
    BY <1>5, <1>7 DEF AlertsDone, CancelReport, Steps
  <1>8. CASE UNCHANGED heartbeatVars
    BY <1>1, <1>8, CallsIInv DEF heartbeatVars, HealthTypes
  <1>9. QED
    BY <1>2, <1>3, <1>4, <1>6, <1>7, <1>8 DEF HeartbeatNext

\* The inductive invariant holds in every state of the heartbeat.
THEOREM HealthInvariant == HeartbeatSpec => []HealthIInv
  BY HealthInitIInv, HealthNextIInv, PTL DEF HeartbeatSpec

-----------------------------------------------------------------------------
LEMMA CounterIsStatus == HealthIInv => StatusIsTrue
  <1> SUFFICES ASSUME HealthIInv, NEW m \in Members
               PROVE  HealthyStatus(m) <=> since[m] = <<>> \/ Last(since[m])
    BY DEF StatusIsTrue
  <1>1. EndsIn(since[m], failures[m]) /\ since[m] \in Seq(BOOLEAN)
    BY DEF HealthIInv, FailuresInARow, HealthTypes
  <1> DEFINE s == since[m]
             n == failures[m]
  <1>2. /\ Len(s) \in Nat /\ (s = <<>> <=> Len(s) = 0)
        /\ \A k \in 1..Len(s) : s[k] \in BOOLEAN
    BY <1>1
  <1>3. HealthyStatus(m) <=> n = 0
    BY DEF HealthyStatus
  <1>4. Last(s) = s[Len(s)]
    BY DEF Last
  <1> HIDE DEF s, n
  <1>5. EndsIn(s, n)
    BY <1>1 DEF s, n
  <1>6. CASE Len(s) = 0
    BY <1>2, <1>3, <1>5, <1>6 DEF EndsIn, s
  <1>7. CASE Len(s) # 0 /\ n = 0
    BY <1>2, <1>3, <1>4, <1>5, <1>7 DEF EndsIn, s
  <1>8. CASE Len(s) # 0 /\ n # 0
    <2>1. s[Len(s)] = FALSE /\ s # <<>>
      BY <1>2, <1>5, <1>8 DEF EndsIn
    <2>2. QED
      BY <1>3, <1>4, <1>8, <2>1 DEF s
  <1>9. QED
    BY <1>6, <1>7, <1>8

LEMMA HistoryIsTheLatest == HealthIInv => ReportsAreRecent
  BY DEF HealthIInv, HistoryAgrees, Agrees, ReportsAreRecent

\* A call raises the alarm with the number of failures in a row, and judges by
\* that number when its callbacks are done.
LEMMA JudgedByItsCount ==
  ASSUME HealthIInv, [HeartbeatNext]_heartbeatVars, NEW c \in Reports
  PROVE  /\ report[c].step = "none" /\ report'[c].step = "alerting"
              => report'[c].count = InARow(since'[report'[c].agent])
         /\ report[c].step = "alerting" /\ report'[c].step \in {"done", "critical"}
              => (report'[c].step = "critical" <=> report[c].count >= MaxFailures)
  <1> DEFINE Goal ==
         /\ report[c].step = "none" /\ report'[c].step = "alerting"
              => report'[c].count = InARow(since'[report'[c].agent])
         /\ report[c].step = "alerting" /\ report'[c].step \in {"done", "critical"}
              => (report'[c].step = "critical" <=> report[c].count >= MaxFailures)
  <1>1. report \in [Reports -> CallTypes]
    BY DEF HealthIInv, HealthTypes
  <1>2. report'[c].step = report[c].step => Goal
    OBVIOUS
  <1>3. ASSUME NEW d \in Reports, NEW m \in Members, NEW checks \in SUBSET BOOLEAN,
               GenerateReport(d, m, checks)
        PROVE  Goal
    <2>1. CASE d # c
      BY <1>1, <1>2, <1>3, <2>1 DEF GenerateReport
    <2>2. CASE d = c
      <3>1. /\ report[c].step = "none"
            /\ report'[c].agent = m /\ report'[c].count = failures'[m]
        BY <1>1, <1>3, <2>2 DEF GenerateReport
      <3>2. HealthIInv'
        BY <1>3, GenerateIInv
      <3>3. since'[m] \in Seq(BOOLEAN) /\ EndsIn(since'[m], failures'[m])
        BY <3>2 DEF HealthIInv, FailuresInARow, HealthTypes
      <3>4. InARow(since'[m]) = failures'[m]
        BY <3>3, EndsInOneWay
      <3>5. QED
        BY <3>1, <3>4
    <2>3. QED
      BY <2>1, <2>2
  <1>4. ASSUME NEW d \in Reports, NEW ok \in BOOLEAN, Callback(d, ok) PROVE Goal
    <2>1. report'[c].step = report[c].step
      BY <1>1, <1>4 DEF Callback, CallTypes
    <2>2. QED
      BY <1>2, <2>1
  <1>5. ASSUME NEW d \in Reports, AlertsDone(d) PROVE Goal
    <2>1. CASE d # c
      BY <1>1, <1>2, <1>5, <2>1 DEF AlertsDone
    <2>2. CASE d = c
      <3>1. /\ report[c].step = "alerting"
            /\ report'[c].step = IF IsCritical(c) THEN "critical" ELSE "done"
        BY <1>1, <1>5, <2>2 DEF AlertsDone, CallTypes
      <3>2. QED
        BY <3>1 DEF IsCritical
    <2>3. QED
      BY <2>1, <2>2
  <1>6. ASSUME NEW d \in Reports, CancelReport(d) PROVE Goal
    <2>1. report'[c].step \in {report[c].step, "cancelled"}
      BY <1>1, <1>6 DEF CancelReport, CallTypes
    <2>2. QED
      BY <1>2, <2>1
  <1>7. ASSUME report' = report PROVE Goal
    BY <1>2, <1>7
  <1> HIDE DEF Goal
  <1>8. Goal
    BY <1>3, <1>4, <1>5, <1>6, <1>7 DEF HeartbeatNext, RegisterAgent, AddCallback, heartbeatVars
  <1>9. QED
    BY <1>8 DEF Goal

\* What HeartbeatManager tells of an agent is true (heartbeat.py): its status is
\* the one of its last report, the history holds the latest reports of every
\* agent, and an alarm is critical when the report was one failure too many.
THEOREM HealthTruth == HeartbeatSpec => HealthIsTrue
  <1>1. HealthIInv => StatusIsTrue /\ ReportsAreRecent
    BY CounterIsStatus, HistoryIsTheLatest
  <1>2. HealthIInv /\ [HeartbeatNext]_heartbeatVars =>
          [\A c \in Reports :
             /\ report[c].step = "none" /\ report'[c].step = "alerting"
                  => report'[c].count = InARow(since'[report'[c].agent])
             /\ report[c].step = "alerting" /\ report'[c].step \in {"done", "critical"}
                  => (report'[c].step = "critical" <=> report[c].count >= MaxFailures)]_heartbeatVars
    BY JudgedByItsCount
  <1>3. QED
    BY <1>1, <1>2, HealthInvariant, PTL DEF HeartbeatSpec, HealthIsTrue, CriticalWhenDue

-----------------------------------------------------------------------------
(* Tracing.                                                                *)

(* The inductive invariant.  A serial number is given once: no two ids     *)
(* have it, it ends once, and a span that has ended is not open.  The      *)
(* history is the end of all that ended.                                   *)

Opened(i) == active[i] # NoSpan

OpenOnce ==
    \A i, j \in SpanIds :
        Opened(i) /\ Opened(j) /\ active[i].serial = active[j].serial => i = j

OpenIsNotEnded ==
    \A i \in SpanIds, k \in DOMAIN all : Opened(i) => active[i].serial # all[k].serial

EndedOnce == \A k, l \in DOMAIN all : all[k].serial = all[l].serial => k = l

SpansAreCounted == 1..started = OpenSerials \cup EndedSerials \cup replaced

\* s is the end of t.
EndOfAll(s, t) ==
    /\ Len(s) <= Len(t)
    /\ \A k \in 1..Len(s) : s[k] = t[Len(t) - Len(s) + k]

TracingIInv ==
    /\ TracingTypeOK
    /\ OpenOnce /\ OpenIsNotEnded /\ EndedOnce /\ SpansAreCounted
    /\ EndOfAll(spans, all)
    /\ CompletionBoundsHistory

OpenSpan == [serial : Serials, agent : Callers]

-----------------------------------------------------------------------------
\* What the types say of one span.
LEMMA SpanTypes ==
  ASSUME TracingTypeOK
  PROVE  /\ \A i \in SpanIds : active[i] \in OpenSpan \cup {NoSpan}
         /\ \A i \in SpanIds : Opened(i) =>
              active[i] \in OpenSpan /\ active[i].serial \in Serials /\ active[i].agent \in Callers
         /\ spans \in Seq(Ended) /\ all \in Seq(Ended)
         /\ \A k \in DOMAIN all : all[k] \in Ended /\ all[k].serial \in Serials
         /\ started \in Nat /\ MaxSpans \in Nat
  <1>1. active \in [SpanIds -> OpenSpan \cup {NoSpan}] /\ all \in Seq(Ended) /\ spans \in Seq(Ended)
    BY DEF TracingTypeOK, OpenSpan
  <1>2. \A k \in DOMAIN all : all[k] \in Ended
    BY <1>1
  <1>3. \A e \in Ended : e.serial \in Serials
    BY DEF Ended
  <1>4. \A e \in OpenSpan : e.serial \in Serials /\ e.agent \in Callers
    BY DEF OpenSpan
  <1>5. \A i \in SpanIds : Opened(i) => active[i] \in OpenSpan
    BY <1>1 DEF Opened
  <1>6. started \in Nat /\ MaxSpans \in Nat
    BY TracingAssumption DEF TracingTypeOK
  <1>7. QED
    BY <1>1, <1>2, <1>3, <1>4, <1>5, <1>6

LEMMA TracingInitIInv == TracingInit => TracingIInv
  <1> SUFFICES ASSUME TracingInit PROVE TracingIInv
    OBVIOUS
  <1>1. active = [i \in SpanIds |-> NoSpan] /\ spans = <<>> /\ all = <<>> /\ started = 0 /\ replaced = {}
    BY DEF TracingInit
  <1>2. <<>> \in Seq(Ended) /\ Len(<<>>) = 0 /\ DOMAIN <<>> = {}
    OBVIOUS
  <1>3. MaxSpans \in Nat /\ MaxHistory \in Nat
    BY TracingAssumption
  <1>4. TracingTypeOK
    BY <1>1, <1>2, <1>3 DEF TracingTypeOK
  <1>5. OpenOnce /\ OpenIsNotEnded /\ EndedOnce /\ EndOfAll(spans, all)
    BY <1>1, <1>2 DEF OpenOnce, OpenIsNotEnded, EndedOnce, EndOfAll, Opened
  <1>6. OpenSerials = {} /\ EndedSerials = {}
    BY <1>1, <1>2 DEF OpenSerials, EndedSerials
  <1>7. SpansAreCounted /\ CompletionBoundsHistory
    BY <1>1, <1>2, <1>3, <1>6 DEF SpansAreCounted, CompletionBoundsHistory
  <1>8. QED
    BY <1>4, <1>5, <1>7 DEF TracingIInv

\* A number that was given is not greater than the last one.
LEMMA NumbersAreGiven ==
  ASSUME TracingIInv
  PROVE  /\ \A i \in SpanIds : Opened(i) => active[i].serial <= started
         /\ \A k \in DOMAIN all : all[k].serial <= started
  <1>1. 1..started = OpenSerials \cup EndedSerials \cup replaced /\ started \in Nat
    BY SpanTypes DEF TracingIInv, SpansAreCounted
  <1>2. \A i \in SpanIds : Opened(i) => active[i].serial \in OpenSerials
    BY DEF OpenSerials, Opened
  <1>3. \A k \in DOMAIN all : all[k].serial \in EndedSerials
    BY DEF EndedSerials
  <1>4. QED
    BY <1>1, <1>2, <1>3

LEMMA StartSpanIInv ==
  ASSUME TracingIInv, NEW i \in SpanIds, NEW agent \in Callers, StartSpan(i, agent)
  PROVE  TracingIInv'
  <1> DEFINE new == [serial |-> started + 1, agent |-> agent]
  <1>1. /\ started < MaxSpans /\ started' = started + 1
        /\ active' = [active EXCEPT ![i] = new]
        /\ replaced' = IF active[i] = NoSpan THEN replaced ELSE replaced \cup {active[i].serial}
        /\ spans' = spans /\ all' = all
    BY DEF StartSpan
  <1>2. TracingTypeOK
    BY DEF TracingIInv
  <1>3. started + 1 \in Serials /\ started \in Nat /\ MaxSpans \in Nat
    BY <1>1, <1>2, SpanTypes DEF Serials
  <1>4. new \in OpenSpan /\ new.serial = started + 1
    BY <1>3 DEF OpenSpan
  <1>5. new # NoSpan
    BY <1>4, TracingAssumption DEF OpenSpan
  <1> HIDE DEF new
  <1>6. active'[i] = new /\ \A j \in SpanIds : j # i => active'[j] = active[j]
    BY <1>1, <1>2 DEF TracingTypeOK
  <1>7. TracingTypeOK'
    <2>1. active' \in [SpanIds -> OpenSpan \cup {NoSpan}]
      BY <1>1, <1>2, <1>4 DEF TracingTypeOK, OpenSpan
    <2>2. replaced' \subseteq Serials
      BY <1>1, <1>2, SpanTypes DEF TracingTypeOK, Opened
    <2>3. started' \in 0..MaxSpans
      BY <1>1, <1>3
    <2>4. QED
      BY <1>1, <1>2, <2>1, <2>2, <2>3 DEF TracingTypeOK, OpenSpan
  <1>8. /\ \A j \in SpanIds : Opened(j) => active[j].serial # started + 1
        /\ \A k \in DOMAIN all : all[k].serial # started + 1
    <2>1. \A j \in SpanIds : Opened(j) => active[j].serial \in Nat /\ active[j].serial <= started
      BY <1>2, SpanTypes, NumbersAreGiven DEF Serials
    <2>2. \A k \in DOMAIN all : all[k].serial \in Nat /\ all[k].serial <= started
      BY <1>2, SpanTypes, NumbersAreGiven DEF Serials
    <2>3. QED
      BY <1>3, <2>1, <2>2
  <1>9. OpenOnce' /\ OpenIsNotEnded' /\ EndedOnce'
    <2>1. OpenOnce'
      BY <1>4, <1>6, <1>8 DEF TracingIInv, OpenOnce, Opened
    <2>2. OpenIsNotEnded'
      BY <1>1, <1>4, <1>6, <1>8 DEF TracingIInv, OpenIsNotEnded, Opened
    <2>3. EndedOnce'
      BY <1>1 DEF TracingIInv, EndedOnce
    <2>4. QED
      BY <2>1, <2>2, <2>3
  <1>10. SpansAreCounted'
    <2>1. 1..(started + 1) = (1..started) \cup {started + 1}
      BY <1>3
    <2>2. EndedSerials' = EndedSerials
      BY <1>1 DEF EndedSerials
    <2>3. OpenSerials' \cup replaced' = OpenSerials \cup replaced \cup {started + 1}
      <3>1. \A x : x \in OpenSerials <=> \E j \in SpanIds : Opened(j) /\ active[j].serial = x
        BY DEF OpenSerials, Opened
      <3>2. \A x : x \in OpenSerials' <=> \E j \in SpanIds : active'[j] # NoSpan /\ active'[j].serial = x
        BY DEF OpenSerials
      <3>3. ASSUME NEW x, x \in OpenSerials' \cup replaced' PROVE x \in OpenSerials \cup replaced \cup {started + 1}
        BY <1>1, <1>4, <1>6, <3>1, <3>2, <3>3 DEF Opened
      <3>4. ASSUME NEW x, x \in OpenSerials PROVE x \in OpenSerials' \cup replaced'
        BY <1>1, <1>6, <3>1, <3>2, <3>4 DEF Opened
      <3>5. started + 1 \in OpenSerials' /\ replaced \subseteq replaced'
        BY <1>1, <1>4, <1>5, <1>6, <3>2
      <3>6. QED
        BY <3>3, <3>4, <3>5
    <2>4. 1..started = OpenSerials \cup EndedSerials \cup replaced
      BY DEF TracingIInv, SpansAreCounted
    <2>5. QED
      BY <1>1, <2>1, <2>2, <2>3, <2>4 DEF SpansAreCounted
  <1>11. EndOfAll(spans', all') /\ CompletionBoundsHistory'
    BY <1>1 DEF TracingIInv, CompletionBoundsHistory
  <1>12. QED
    BY <1>7, <1>9, <1>10, <1>11 DEF TracingIInv

\* A span ends: it leaves its id and joins what has ended.
LEMMA SpanEnds ==
  ASSUME TracingIInv, NEW i \in SpanIds, active[i] # NoSpan, NEW ok \in BOOLEAN, NEW hit \in BOOLEAN,
         active' = Pop(i), all' = Append(all, EndOf(i, ok, hit)), UNCHANGED <<started, replaced>>
  PROVE  /\ EndOf(i, ok, hit) \in Ended
         /\ active' \in [SpanIds -> OpenSpan \cup {NoSpan}]
         /\ OpenOnce' /\ OpenIsNotEnded' /\ EndedOnce' /\ SpansAreCounted'
  <1> DEFINE e == EndOf(i, ok, hit)
             n == Len(all)
  <1>1. TracingTypeOK /\ Opened(i)
    BY DEF TracingIInv, Opened
  <1>2. /\ active[i].serial \in Serials /\ active[i].agent \in Callers
        /\ all \in Seq(Ended)
    BY <1>1, SpanTypes
  <1>3. e \in Ended /\ e.serial = active[i].serial
    BY <1>2 DEF EndOf, Ended
  <1>4. active' \in [SpanIds -> OpenSpan \cup {NoSpan}]
    BY <1>1 DEF Pop, TracingTypeOK, OpenSpan
  <1>5. active'[i] = NoSpan /\ \A j \in SpanIds : j # i => active'[j] = active[j]
    BY <1>1 DEF Pop, TracingTypeOK
  <1>6. /\ n \in Nat /\ DOMAIN all = 1..n /\ DOMAIN all' = 1..(n + 1)
        /\ \A k \in 1..n : all'[k] = all[k]
        /\ all'[n + 1] = e
    BY <1>2, <1>3
  <1> HIDE DEF e, n
  <1>7. OpenOnce'
    BY <1>5 DEF TracingIInv, OpenOnce, Opened
  <1>8. OpenIsNotEnded'
    <2> SUFFICES ASSUME NEW j \in SpanIds, NEW k \in 1..(n + 1), active'[j] # NoSpan
                 PROVE  active'[j].serial # all'[k].serial
      BY <1>6 DEF OpenIsNotEnded, Opened
    <2>1. j # i /\ active'[j] = active[j] /\ Opened(j)
      BY <1>5 DEF Opened
    <2>2. CASE k \in 1..n
      BY <1>6, <2>1, <2>2 DEF TracingIInv, OpenIsNotEnded
    <2>3. CASE k = n + 1
      BY <1>1, <1>3, <1>6, <2>1, <2>3 DEF TracingIInv, OpenOnce
    <2>4. QED
      BY <1>6, <2>2, <2>3
  <1>9. EndedOnce'
    <2>1. \A k \in 1..n : all[k].serial # e.serial
      BY <1>1, <1>3, <1>6 DEF TracingIInv, OpenIsNotEnded
    <2> SUFFICES ASSUME NEW k \in 1..(n + 1), NEW l \in 1..(n + 1), all'[k].serial = all'[l].serial
                 PROVE  k = l
      BY <1>6 DEF EndedOnce
    <2>2. CASE k \in 1..n /\ l \in 1..n
      BY <1>6, <2>2 DEF TracingIInv, EndedOnce
    <2>3. CASE k \notin 1..n \/ l \notin 1..n
      BY <1>6, <2>1, <2>3
    <2>4. QED
      BY <2>2, <2>3
  <1>10. SpansAreCounted'
    <2>1. EndedSerials' = EndedSerials \cup {active[i].serial}
      <3>1. \A x : x \in EndedSerials <=> \E k \in 1..n : all[k].serial = x
        BY <1>6 DEF EndedSerials
      <3>2. \A x : x \in EndedSerials' <=> \E k \in 1..(n + 1) : all'[k].serial = x
        BY <1>6 DEF EndedSerials
      <3>3. \A k \in 1..(n + 1) : k \in 1..n \/ k = n + 1
        BY <1>6
      <3>4. \A k \in 1..n : k \in 1..(n + 1)
        BY <1>6
      <3>5. n + 1 \in 1..(n + 1)
        BY <1>6
      <3>6. ASSUME NEW x, x \in EndedSerials' PROVE x \in EndedSerials \cup {active[i].serial}
        BY <1>3, <1>6, <3>1, <3>2, <3>3, <3>6
      <3>7. ASSUME NEW x, x \in EndedSerials PROVE x \in EndedSerials'
        BY <1>6, <3>1, <3>2, <3>4, <3>7
      <3>8. active[i].serial \in EndedSerials'
        BY <1>3, <1>6, <3>2, <3>5
      <3>9. QED
        BY <3>6, <3>7, <3>8
    <2>2. OpenSerials = OpenSerials' \cup {active[i].serial}
      <3>1. \A x : x \in OpenSerials <=> \E j \in SpanIds : Opened(j) /\ active[j].serial = x
        BY DEF OpenSerials, Opened
      <3>2. \A x : x \in OpenSerials' <=> \E j \in SpanIds : active'[j] # NoSpan /\ active'[j].serial = x
        BY DEF OpenSerials
      <3>3. ASSUME NEW x, x \in OpenSerials PROVE x \in OpenSerials' \cup {active[i].serial}
        BY <1>5, <3>1, <3>2, <3>3 DEF Opened
      <3>4. ASSUME NEW x, x \in OpenSerials' PROVE x \in OpenSerials
        BY <1>5, <3>1, <3>2, <3>4 DEF Opened
      <3>5. active[i].serial \in OpenSerials
        BY <1>1, <3>1
      <3>6. QED
        BY <3>3, <3>4, <3>5
    <2>3. 1..started = OpenSerials \cup EndedSerials \cup replaced
      BY DEF TracingIInv, SpansAreCounted
    <2>4. QED
      BY <2>1, <2>2, <2>3 DEF SpansAreCounted
  <1>11. QED
    BY <1>3, <1>4, <1>7, <1>8, <1>9, <1>10 DEF e

-----------------------------------------------------------------------------
\* What is the end of all spans stays it when another one ends.
LEMMA AppendIsEnd ==
  ASSUME NEW S, NEW s \in Seq(S), NEW t \in Seq(S), EndOfAll(s, t), NEW e \in S
  PROVE  EndOfAll(Append(s, e), Append(t, e))
  <1> DEFINE a == Append(s, e)
             b == Append(t, e)
             m == Len(s)
             n == Len(t)
  <1>1. /\ m \in Nat /\ n \in Nat /\ Len(a) = m + 1 /\ Len(b) = n + 1
        /\ \A k \in 1..m : a[k] = s[k]
        /\ \A k \in 1..n : b[k] = t[k]
        /\ a[m + 1] = e /\ b[n + 1] = e
    OBVIOUS
  <1>2. m <= n /\ \A k \in 1..m : s[k] = t[n - m + k]
    BY DEF EndOfAll
  <1> HIDE DEF a, b, m, n
  <1>3. ASSUME NEW k \in 1..(m + 1) PROVE a[k] = b[(n + 1) - (m + 1) + k]
    <2>1. (n + 1) - (m + 1) + k = n - m + k
      BY <1>1
    <2>2. CASE k \in 1..m
      <3>1. n - m + k \in 1..n
        BY <1>1, <1>2, <2>2
      <3>2. QED
        BY <1>1, <1>2, <2>1, <2>2, <3>1
    <2>3. CASE k = m + 1
      <3>1. n - m + k = n + 1
        BY <1>1, <2>3
      <3>2. QED
        BY <1>1, <2>1, <2>3, <3>1
    <2>4. QED
      BY <1>1, <2>2, <2>3
  <1>4. m + 1 <= n + 1
    BY <1>1, <1>2
  <1>5. Len(a) <= Len(b) /\ \A k \in 1..Len(a) : a[k] = b[Len(b) - Len(a) + k]
    BY <1>1, <1>3, <1>4
  <1>6. QED
    BY <1>5 DEF EndOfAll, a, b

\* The end of the end is the end.
LEMMA SuffixIsEnd ==
  ASSUME NEW S, NEW s \in Seq(S), NEW t \in Seq(S), EndOfAll(s, t), NEW d \in 0..Len(s)
  PROVE  EndOfAll(SubSeq(s, d + 1, Len(s)), t)
  <1> DEFINE a == SubSeq(s, d + 1, Len(s))
             m == Len(s)
             n == Len(t)
  <1>1. m \in Nat /\ n \in Nat /\ d \in 0..m
    OBVIOUS
  <1>2. m <= n /\ \A k \in 1..m : s[k] = t[n - m + k]
    BY DEF EndOfAll
  <1>3. Len(a) = m - d /\ \A j \in 1..(m - d) : a[j] = s[j + d]
    BY SuffixOf
  <1> HIDE DEF a, m, n
  <1>4. ASSUME NEW k \in 1..(m - d) PROVE a[k] = t[n - (m - d) + k]
    <2>1. k + d \in 1..m /\ n - m + (k + d) = n - (m - d) + k
      BY <1>1
    <2>2. QED
      BY <1>2, <1>3, <2>1
  <1>5. m - d <= n
    BY <1>1, <1>2
  <1>6. QED
    BY <1>3, <1>4, <1>5 DEF EndOfAll, a, n

\* A history that is too long is cut to its newest half.
LEMMA TrimmedIsSuffix ==
  ASSUME NEW s \in Seq(Ended)
  PROVE  /\ \E d \in 0..Len(s) : Trimmed(s) = SubSeq(s, d + 1, Len(s))
         /\ Trimmed(s) \in Seq(Ended)
         /\ Len(Trimmed(s)) <= MaxHistory
  <1> DEFINE half == (MaxHistory + 1) \div 2
             n == Len(s)
  <1>1. n \in Nat /\ MaxHistory \in Nat \ {0}
    BY TracingAssumption
  <1>2. half \in Nat /\ half <= MaxHistory
    BY <1>1
  <1>3. CASE n <= MaxHistory
    <2>1. Trimmed(s) = s /\ SubSeq(s, 0 + 1, n) = s
      BY <1>1, <1>3 DEF Trimmed
    <2>2. QED
      BY <1>1, <1>3, <2>1
  <1>4. CASE ~(n <= MaxHistory)
    <2>1. Trimmed(s) = SubSeq(s, n + 1 - half, n)
      BY <1>4 DEF Trimmed
    <2> DEFINE d == n - half
    <2> HIDE DEF half, n
    <2>2. d \in 0..n /\ n + 1 - half = d + 1 /\ n - d = half
      BY <1>1, <1>2, <1>4
    <2>3. Trimmed(s) = SubSeq(s, d + 1, n)
      BY <2>1, <2>2
    <2> HIDE DEF d
    <2>4. SubSeq(s, d + 1, n) \in Seq(Ended) /\ Len(SubSeq(s, d + 1, n)) = n - d
      BY <2>2, SuffixOf DEF n
    <2>5. QED
      BY <1>2, <2>2, <2>3, <2>4 DEF n
  <1>5. QED
    BY <1>3, <1>4

LEMMA CompleteSpanIInv ==
  ASSUME TracingIInv, NEW i \in SpanIds, NEW hit \in BOOLEAN, CompleteSpan(i, hit)
  PROVE  TracingIInv'
  <1> DEFINE e == EndOf(i, TRUE, hit)
  <1>1. /\ active[i] # NoSpan /\ active' = Pop(i)
        /\ spans' = Trimmed(Append(spans, e)) /\ all' = Append(all, e)
        /\ started' = started /\ replaced' = replaced
    BY DEF CompleteSpan
  <1>2. /\ e \in Ended
        /\ active' \in [SpanIds -> OpenSpan \cup {NoSpan}]
        /\ OpenOnce' /\ OpenIsNotEnded' /\ EndedOnce' /\ SpansAreCounted'
    BY <1>1, SpanEnds
  <1>3. spans \in Seq(Ended) /\ all \in Seq(Ended) /\ EndOfAll(spans, all)
    BY SpanTypes DEF TracingIInv
  <1> HIDE DEF e
  <1>4. Append(spans, e) \in Seq(Ended) /\ all' \in Seq(Ended)
    BY <1>1, <1>2, <1>3
  <1>5. EndOfAll(Append(spans, e), all')
    BY <1>1, <1>2, <1>3, AppendIsEnd
  <1>6. spans' \in Seq(Ended) /\ Len(spans') <= MaxHistory
    BY <1>1, <1>4, TrimmedIsSuffix
  <1>7. EndOfAll(spans', all')
    <2>1. PICK d \in 0..Len(Append(spans, e)) :
               Trimmed(Append(spans, e)) = SubSeq(Append(spans, e), d + 1, Len(Append(spans, e)))
      BY <1>4, TrimmedIsSuffix
    <2>2. QED
      BY <1>1, <1>4, <1>5, <2>1, SuffixIsEnd
  <1>8. CompletionBoundsHistory'
    BY <1>6, TracingAssumption DEF CompletionBoundsHistory
  <1>9. TracingTypeOK'
    BY <1>1, <1>2, <1>4, <1>6 DEF TracingIInv, TracingTypeOK, OpenSpan
  <1>10. QED
    BY <1>2, <1>7, <1>8, <1>9 DEF TracingIInv

LEMMA FailSpanIInv ==
  ASSUME TracingIInv, NEW i \in SpanIds, FailSpan(i)
  PROVE  TracingIInv'
  <1> DEFINE e == EndOf(i, FALSE, FALSE)
  <1>1. /\ active[i] # NoSpan /\ active' = Pop(i)
        /\ spans' = Append(spans, e) /\ all' = Append(all, e)
        /\ started' = started /\ replaced' = replaced
    BY DEF FailSpan
  <1>2. /\ e \in Ended
        /\ active' \in [SpanIds -> OpenSpan \cup {NoSpan}]
        /\ OpenOnce' /\ OpenIsNotEnded' /\ EndedOnce' /\ SpansAreCounted'
    BY <1>1, SpanEnds
  <1>3. spans \in Seq(Ended) /\ all \in Seq(Ended) /\ EndOfAll(spans, all)
    BY SpanTypes DEF TracingIInv
  <1>4. e.ok = FALSE
    BY DEF EndOf
  <1> HIDE DEF e
  <1>5. spans' \in Seq(Ended) /\ all' \in Seq(Ended)
    BY <1>1, <1>2, <1>3
  <1>6. EndOfAll(spans', all')
    BY <1>1, <1>2, <1>3, AppendIsEnd
  <1>7. CompletionBoundsHistory'
    <2>1. Last(spans') = e
      BY <1>1, <1>2, <1>3 DEF Last
    <2>2. QED
      BY <1>4, <2>1 DEF CompletionBoundsHistory
  <1>8. TracingTypeOK'
    BY <1>1, <1>2, <1>5 DEF TracingIInv, TracingTypeOK, OpenSpan
  <1>9. QED
    BY <1>2, <1>6, <1>7, <1>8 DEF TracingIInv

LEMMA TracingNextIInv == TracingIInv /\ [TracingNext]_tracingVars => TracingIInv'
  <1> SUFFICES ASSUME TracingIInv, [TracingNext]_tracingVars PROVE TracingIInv'
    OBVIOUS
  <1>1. CASE UNCHANGED tracingVars
    BY <1>1 DEF tracingVars, TracingIInv, TracingTypeOK, OpenOnce, OpenIsNotEnded, EndedOnce,
                SpansAreCounted, OpenSerials, EndedSerials, CompletionBoundsHistory, Opened
  <1>2. QED
    BY <1>1, StartSpanIInv, CompleteSpanIInv, FailSpanIInv DEF TracingNext

\* The inductive invariant holds in every state of the tracer.
THEOREM TracingInvariant == TracingSpec => []TracingIInv
  BY TracingInitIInv, TracingNextIInv, PTL DEF TracingSpec

-----------------------------------------------------------------------------
LEMMA SpansAccountFor == TracingIInv => EverySpanAccounted
  <1> SUFFICES ASSUME TracingIInv PROVE EverySpanAccounted
    OBVIOUS
  <1> DEFINE n == Len(all)
             f == [k \in 1..n |-> all[k].serial]
  <1>1. n \in Nat /\ DOMAIN all = 1..n
    BY SpanTypes DEF TracingIInv
  <1>2. OpenSerials \cap EndedSerials = {}
    BY DEF TracingIInv, OpenIsNotEnded, OpenSerials, EndedSerials, Opened
  <1>3. EndedSerials = {f[k] : k \in 1..n}
    BY <1>1 DEF EndedSerials
  <1>4. f \in Bijection(1..n, EndedSerials)
    <2>1. f \in [1..n -> EndedSerials] /\ \A t \in EndedSerials : \E k \in 1..n : f[k] = t
      BY <1>3
    <2>2. \A k, l \in 1..n : f[k] = f[l] => k = l
      BY <1>1 DEF TracingIInv, EndedOnce
    <2>3. QED
      BY <2>1, <2>2, Fun_IsBij
  <1>5. Cardinality(EndedSerials) = n
    <2>1. ExistsBijection(1..n, EndedSerials)
      BY <1>4 DEF ExistsBijection
    <2> HIDE DEF n
    <2>2. IsFiniteSet(1..n) /\ Cardinality(1..n) = n
      BY <1>1, FS_Interval
    <2>3. QED
      BY <2>1, <2>2, FS_Bijection
  <1>6. QED
    BY <1>2, <1>5 DEF EverySpanAccounted, TracingIInv, SpansAreCounted

LEMMA EndIsSuffix ==
  ASSUME NEW S, NEW s \in Seq(S), NEW t \in Seq(S), EndOfAll(s, t)
  PROVE  IsSuffix(s, t)
  <1> DEFINE m == Len(s)
             n == Len(t)
             a == Reverse(s)
             b == Reverse(t)
  <1>1. m \in Nat /\ n \in Nat /\ m <= n /\ \A k \in 1..m : s[k] = t[n - m + k]
    BY DEF EndOfAll
  <1>2. /\ a = [k \in 1..m |-> s[(m - k) + 1]]
        /\ b = [k \in 1..n |-> t[(n - k) + 1]]
    BY DEF Reverse
  <1>3. /\ a \in Seq(S) /\ Len(a) = m /\ b \in Seq(S) /\ Len(b) = n
    <2>1. \A k \in 1..m : s[(m - k) + 1] \in S
      BY <1>1
    <2>2. \A k \in 1..n : t[(n - k) + 1] \in S
      BY <1>1
    <2>3. QED
      BY <1>1, <1>2, <2>1, <2>2
  <1> HIDE DEF m, n
  <1>4. \A k \in 1..m : a[k] = b[k]
    <2> SUFFICES ASSUME NEW k \in 1..m PROVE a[k] = b[k]
      OBVIOUS
    <2>1. (m - k) + 1 \in 1..m /\ n - m + ((m - k) + 1) = (n - k) + 1 /\ k \in 1..n
      BY <1>1
    <2>2. QED
      BY <1>1, <1>2, <2>1
  <1> HIDE DEF a, b
  <1>5. SubSeq(a, 1, m) = SubSeq(b, 1, m)
    <2>1. \A k \in 1..m : a[k] \in S /\ b[k] \in S
      BY <1>1, <1>3, <1>4
    <2>2. /\ SubSeq(a, 1, m) \in Seq(S) /\ SubSeq(b, 1, m) \in Seq(S)
          /\ Len(SubSeq(a, 1, m)) = Len(SubSeq(b, 1, m))
          /\ \A k \in 1..(m - 1 + 1) : SubSeq(a, 1, m)[k] = a[1 + k - 1]
          /\ \A k \in 1..(m - 1 + 1) : SubSeq(b, 1, m)[k] = b[1 + k - 1]
          /\ Len(SubSeq(a, 1, m)) = IF 1 <= m THEN m - 1 + 1 ELSE 0
      BY <1>1, <2>1, SubSeqProperties
    <2>3. Len(SubSeq(a, 1, m)) = m
      BY <1>1, <2>2
    <2>4. \A k \in 1..m : SubSeq(a, 1, m)[k] = SubSeq(b, 1, m)[k]
      BY <1>1, <1>4, <2>2
    <2>5. QED
      BY <2>2, <2>3, <2>4, SeqEqual
  <1>6. QED
    BY <1>1, <1>3, <1>5 DEF IsSuffix, IsPrefix, a, b

-----------------------------------------------------------------------------
\* A finite set of spans, no two of which started together, has an order in
\* which the one that started last comes first: a span's place is the number of
\* those that did not start before it.
LEMMA NewestInExists ==
  ASSUME NEW S, IsFiniteSet(S), S \subseteq Ended,
         \A e, d \in S : e.serial = d.serial => e = d
  PROVE  /\ Cardinality(S) \in Nat
         /\ NewestIn(S) \in [1..Cardinality(S) -> S]
         /\ \A j, k \in 1..Cardinality(S) : j < k => NewestIn(S)[j].serial > NewestIn(S)[k].serial
         /\ \A e \in S : \E j \in 1..Cardinality(S) : NewestIn(S)[j] = e
  <1> DEFINE n == Cardinality(S)
             Above(e) == {d \in S : d.serial >= e.serial}
             rank == [e \in S |-> Cardinality(Above(e))]
             place == [j \in 1..n |-> CHOOSE e \in S : rank[e] = j]
  <1>1. n \in Nat /\ \A e \in S : e.serial \in Nat
    <2>1. \A e \in Ended : e.serial \in Nat
      BY DEF Ended, Serials
    <2>2. QED
      BY <2>1, FS_CardinalityType
  <1>2. ASSUME NEW e \in S
        PROVE  IsFiniteSet(Above(e)) /\ Cardinality(Above(e)) \in 1..n /\ e \in Above(e)
    <2>1. Above(e) \subseteq S /\ e \in Above(e)
      BY <1>1
    <2>2. IsFiniteSet(Above(e)) /\ Cardinality(Above(e)) <= n
      BY <2>1, FS_Subset
    <2>3. Cardinality(Above(e)) \in Nat /\ Cardinality(Above(e)) # 0
      BY <2>1, <2>2, FS_CardinalityType, FS_EmptySet
    <2> HIDE DEF n, Above
    <2>4. QED
      BY <1>1, <2>1, <2>2, <2>3
  <1>3. ASSUME NEW e \in S, NEW d \in S, e.serial > d.serial
        PROVE  rank[e] < rank[d]
    <2>1. Above(e) \subseteq Above(d) /\ Above(e) # Above(d)
      <3>1. Above(e) \subseteq Above(d)
        BY <1>1, <1>3
      <3>2. d \in Above(d) /\ d \notin Above(e)
        BY <1>1, <1>3
      <3>3. QED
        BY <3>1, <3>2
    <2>2. Cardinality(Above(e)) < Cardinality(Above(d))
      <3>1. IsFiniteSet(Above(d))
        BY <1>2
      <3> HIDE DEF Above
      <3>2. QED
        BY <2>1, <3>1, FS_Subset, FS_CardinalityType
    <2>3. QED
      BY <2>2
  <1>4. \A e \in S : rank[e] \in 1..n
    BY <1>2
  <1>5. ASSUME NEW e \in S, NEW d \in S, rank[e] = rank[d] PROVE e = d
    <2> HIDE DEF rank
    <2>1. ~(e.serial > d.serial) /\ ~(d.serial > e.serial)
      BY <1>3, <1>4, <1>5
    <2>2. e.serial = d.serial
      BY <1>1, <2>1
    <2>3. QED
      BY <2>2
  <1>6. rank \in [S -> 1..n]
    BY <1>4
  <1> HIDE DEF rank
  <1>7. \A j \in 1..n : \E e \in S : rank[e] = j
    <2>1. IsFiniteSet(1..n) /\ Cardinality(1..n) = n
      <3> HIDE DEF n
      <3>1. QED
        BY <1>1, FS_Interval
    <2>2. rank \in Injection(S, 1..n)
      BY <1>5, <1>6, Fun_IsInj
    <2>3. rank \in Surjection(S, 1..n)
      BY <2>1, <2>2, FS_Injection
    <2>4. QED
      BY <2>3, Fun_SurjectionProperties
  <1>8. \A j \in 1..n : place[j] \in S /\ rank[place[j]] = j
    BY <1>7
  <1> HIDE DEF place
  <1>9. place \in [1..n -> S]
    BY <1>8 DEF place
  <1>10. \A j, k \in 1..n : j < k => place[j].serial > place[k].serial
    <2> SUFFICES ASSUME NEW j \in 1..n, NEW k \in 1..n, j < k, ~(place[j].serial > place[k].serial)
                 PROVE  FALSE
      OBVIOUS
    <2>1. place[j] \in S /\ place[k] \in S /\ rank[place[j]] = j /\ rank[place[k]] = k
      BY <1>8
    <2>2. place[j].serial = place[k].serial \/ place[k].serial > place[j].serial
      BY <1>1, <2>1
    <2>3. place[k].serial > place[j].serial => k < j
      BY <1>3, <2>1
    <2>4. place[j].serial = place[k].serial => j = k
      BY <2>1
    <2>5. QED
      BY <1>1, <2>2, <2>3, <2>4
  <1> DEFINE f == NewestIn(S)
  <1>11. f \in [1..n -> S] /\ \A j, k \in 1..n : j < k => f[j].serial > f[k].serial
    <2>1. \E g \in [1..n -> S] : \A j, k \in 1..n : j < k => g[j].serial > g[k].serial
      BY <1>9, <1>10
    <2>2. f = CHOOSE g \in [1..n -> S] : \A j, k \in 1..n : j < k => g[j].serial > g[k].serial
      BY DEF NewestIn
    <2> HIDE DEF f, n
    <2>3. QED
      BY <2>1, <2>2
  <1> HIDE DEF f
  <1>12. \A e \in S : \E j \in 1..n : f[j] = e
    <2>1. ASSUME NEW j \in 1..n, NEW k \in 1..n, f[j] = f[k] PROVE j = k
      <3>1. f[j].serial \in Nat /\ f[j].serial = f[k].serial
        BY <1>1, <1>11, <2>1
      <3>2. ~(j < k) /\ ~(k < j)
        BY <1>11, <3>1
      <3>3. QED
        BY <1>1, <3>2
    <2>2. f \in Injection(1..n, S)
      BY <1>11, <2>1, Fun_IsInj
    <2>3. Cardinality(1..n) = n
      <3> HIDE DEF n
      <3>1. QED
        BY <1>1, FS_Interval
    <2>4. IsFiniteSet(S) /\ Cardinality(S) = n
      BY <1>1
    <2> HIDE DEF n
    <2>5. f \in Surjection(1..n, S)
      BY <2>2, <2>3, <2>4, FS_Injection
    <2>6. QED
      BY <2>5 DEF Surjection
  <1>13. QED
    BY <1>1, <1>11, <1>12 DEF f

LEMMA HistoryReadNewestFirst == TracingIInv => NewestFirst
  <1> SUFFICES ASSUME TracingIInv, NEW agent \in Callers
               PROVE  LET seen == GetSpans(2, agent)
                      IN  /\ \A k \in 2..Len(seen) : seen[k - 1].serial > seen[k].serial
                          /\ \A k \in SpansOf(agent) :
                               spans[k] \in ToSet(seen)
                                 \/ \A j \in DOMAIN seen : seen[j].serial > spans[k].serial
    BY DEF NewestFirst
  <1> DEFINE S == {spans[k] : k \in SpansOf(agent)}
             n == Cardinality(S)
             f == NewestIn(S)
             m == IF 2 < n THEN 2 ELSE n
             seen == GetSpans(2, agent)
  <1>1. spans \in Seq(Ended) /\ all \in Seq(Ended) /\ EndOfAll(spans, all)
    BY SpanTypes DEF TracingIInv
  <1>2. \A k \in DOMAIN spans : spans[k] \in Ended
    BY <1>1
  <1>3. IsFiniteSet(S) /\ S \subseteq Ended
    <2> DEFINE g == [k \in SpansOf(agent) |-> spans[k]]
    <2>1. S \subseteq Ended
      BY <1>2 DEF SpansOf
    <2>2. IsFiniteSet(SpansOf(agent))
      <3>1. IsFiniteSet(1..Len(spans))
        BY <1>1, FS_Interval
      <3>2. SpansOf(agent) \subseteq 1..Len(spans)
        BY <1>1 DEF SpansOf
      <3>3. QED
        BY <3>1, <3>2, FS_Subset
    <2>3. g \in Surjection(SpansOf(agent), S)
      BY Fun_IsSurj
    <2>4. IsFiniteSet(S)
      BY <2>2, <2>3, FS_Surjection
    <2>5. QED
      BY <2>1, <2>4
  <1>4. \A e, d \in S : e.serial = d.serial => e = d
    <2>1. ASSUME NEW e \in S PROVE \E k \in DOMAIN all : e = all[k]
      <3>1. PICK k \in DOMAIN spans : e = spans[k]
        BY <2>1 DEF SpansOf
      <3>2. k \in 1..Len(spans) /\ Len(spans) \in Nat /\ Len(all) \in Nat
        BY <1>1, <3>1
      <3>3. Len(all) - Len(spans) + k \in 1..Len(all) /\ spans[k] = all[Len(all) - Len(spans) + k]
        BY <1>1, <3>2 DEF EndOfAll
      <3>4. DOMAIN all = 1..Len(all)
        BY <1>1
      <3>5. QED
        BY <3>1, <3>3, <3>4
    <2>2. QED
      BY <2>1 DEF TracingIInv, EndedOnce
  <1>5. /\ n \in Nat /\ f \in [1..n -> S]
        /\ \A j, k \in 1..n : j < k => f[j].serial > f[k].serial
        /\ \A e \in S : \E j \in 1..n : f[j] = e
    BY <1>3, <1>4, NewestInExists
  <1> HIDE DEF f, n, S
  <1>6. f \in Seq(S) /\ Len(f) = n
    BY <1>5
  <1>7. m \in 0..n
    BY <1>5
  <1>8. seen = SubSeq(f, 1, m)
    BY <1>6 DEF GetSpans, f, S
  <1> HIDE DEF m, seen
  <1>9. Len(seen) = m /\ DOMAIN seen = 1..m /\ \A j \in 1..m : seen[j] = f[j]
    BY <1>5, <1>6, <1>7, <1>8
  <1>10. \A k \in 2..Len(seen) : seen[k - 1].serial > seen[k].serial
    <2> SUFFICES ASSUME NEW k \in 2..m PROVE seen[k - 1].serial > seen[k].serial
      BY <1>9
    <2>1. k - 1 \in 1..m /\ k \in 1..m /\ k - 1 \in 1..n /\ k \in 1..n /\ k - 1 < k
      BY <1>5, <1>7
    <2>2. QED
      BY <1>5, <1>9, <2>1
  <1>11. ASSUME NEW k \in SpansOf(agent)
         PROVE  spans[k] \in ToSet(seen) \/ \A j \in DOMAIN seen : seen[j].serial > spans[k].serial
    <2>1. spans[k] \in S
      BY DEF S
    <2>2. PICK r \in 1..n : f[r] = spans[k]
      BY <1>5, <2>1
    <2>3. CASE r <= m
      <3>1. r \in 1..m
        BY <1>5, <1>7, <2>3
      <3>2. QED
        BY <1>9, <2>2, <3>1 DEF ToSet
    <2>4. CASE ~(r <= m)
      <3>1. \A j \in 1..m : j \in 1..n /\ j < r
        BY <1>5, <1>7, <2>4
      <3>2. QED
        BY <1>5, <1>9, <2>2, <3>1
    <2>5. QED
      BY <2>3, <2>4
  <1>12. QED
    BY <1>10, <1>11 DEF seen

\* What LLMTracer tells is true (tracing.py): every span that was started is
\* active, ended once or was replaced; the history is the end of all that ended,
\* a completion brings it back within its bound, and it is read newest first.
THEOREM TraceTruth == TracingSpec => []TraceIsTrue
  <1>1. TracingIInv => HistoryIsRecent
    BY SpanTypes, EndIsSuffix DEF TracingIInv, HistoryIsRecent
  <1>2. TracingIInv => TraceIsTrue
    BY <1>1, SpansAccountFor, HistoryReadNewestFirst DEF TraceIsTrue, TracingIInv
  <1>3. QED
    BY <1>2, TracingInvariant, PTL

-----------------------------------------------------------------------------
(* The services side by side.                                              *)

(* A serving agent has no more slots taken than there are calls.           *)
THEOREM DelegationTypes == DelegationSpec => []DelegationTypeOK
  <1>1. DelegationIInv => DelegationTypeOK
    <2> SUFFICES ASSUME DelegationIInv PROVE DelegationTypeOK
      OBVIOUS
    <2>1. AccountTypes /\ SlotsCount
      BY DEF DelegationIInv
    <2>2. ASSUME NEW a \in Agents PROVE slots[a] \in 0..Cardinality(Calls)
      <3>1. Serving(a) \subseteq Calls
        BY <2>1 DEF Serving, AccountTypes
      <3>2. IsFiniteSet(Calls) /\ Cardinality(Calls) \in Nat /\ Cardinality(Serving(a)) \in Nat
        BY <3>1, CallsAreFinite
      <3>3. Cardinality(Serving(a)) <= Cardinality(Calls)
        BY <3>1, <3>2, FS_Subset
      <3>4. QED
        BY <2>1, <3>2, <3>3 DEF SlotsCount
    <2>3. slots \in [Agents -> 0..Cardinality(Calls)]
      BY <2>1, <2>2 DEF AccountTypes
    <2>4. QED
      BY <2>1, <2>3 DEF AccountTypes, DelegationTypeOK
  <1>2. QED
    BY <1>1, DelegationInvariant, PTL

(* What a report has told, and whom it tells next, is among the callbacks. *)
Telling ==
  [step : Steps, agent : Members, next : 1..(MaxCallbacks + 1), due : 0..MaxCallbacks, count : Nat]

CallbacksFit ==
  /\ callbacks \in 0..MaxCallbacks
  /\ report \in [Reports -> Telling]
  /\ told \in [Reports -> SUBSET (1..MaxCallbacks)]

LEMMA HeartbeatInitFits == HeartbeatInit => CallbacksFit
  <1> SUFFICES ASSUME HeartbeatInit PROVE CallbacksFit
    OBVIOUS
  <1>1. MaxCallbacks \in Nat /\ Members # {}
    BY HeartbeatAssumption
  <1> DEFINE first == CHOOSE m \in Members : TRUE
  <1>2. first \in Members
    BY <1>1
  <1>3. report \in [Reports -> {[step |-> "none", agent |-> m, next |-> 1, due |-> 0, count |-> 0] :
                                m \in {first}}]
    BY DEF HeartbeatInit
  <1> HIDE DEF first
  <1>4. ASSUME NEW m \in {first}
        PROVE  [step |-> "none", agent |-> m, next |-> 1, due |-> 0, count |-> 0] \in Telling
    BY <1>1, <1>2 DEF Telling, Steps
  <1>5. report \in [Reports -> Telling]
    BY <1>3, <1>4
  <1>6. QED
    BY <1>1, <1>5 DEF HeartbeatInit, CallbacksFit

\* Every step of the heartbeat keeps to the callbacks there are.
LEMMA HeartbeatNextFits ==
  HealthIInv /\ CallbacksFit /\ [HeartbeatNext]_heartbeatVars => CallbacksFit'
  <1> SUFFICES ASSUME HealthIInv, CallbacksFit, [HeartbeatNext]_heartbeatVars PROVE CallbacksFit'
    OBVIOUS
  <1>1. /\ callbacks \in 0..MaxCallbacks /\ report \in [Reports -> Telling]
        /\ told \in [Reports -> SUBSET (1..MaxCallbacks)] /\ MaxCallbacks \in Nat
    BY HeartbeatAssumption DEF CallbacksFit
  <1>2. ASSUME NEW m \in Members, RegisterAgent(m) PROVE CallbacksFit'
    BY <1>1, <1>2 DEF RegisterAgent, CallbacksFit
  <1>3. CASE AddCallback
    BY <1>1, <1>3 DEF AddCallback, CallbacksFit
  <1>4. ASSUME NEW c \in Reports, NEW m \in Members, NEW checks \in SUBSET BOOLEAN,
               GenerateReport(c, m, checks)
        PROVE  CallbacksFit'
    <2> DEFINE n == failures'[m]
               x == [step |-> IF Healthy(checks) THEN "done" ELSE "alerting",
                     agent |-> m, next |-> 1, due |-> callbacks, count |-> n]
    <2>1. n \in Nat
      <3>1. failures \in [Members -> Nat]
        BY DEF HealthIInv, HealthTypes
      <3>2. failures' = [failures EXCEPT ![m] = Counted(m, Healthy(checks))]
        BY <1>4 DEF GenerateReport
      <3>3. Counted(m, Healthy(checks)) \in Nat
        BY <3>1 DEF Counted
      <3>4. QED
        BY <3>1, <3>2, <3>3
    <2>2. report' = [report EXCEPT ![c] = x] /\ UNCHANGED <<callbacks, told>>
      BY <1>4 DEF GenerateReport
    <2> HIDE DEF n
    <2>3. x \in Telling
      BY <1>1, <2>1 DEF Telling, Steps
    <2> HIDE DEF x
    <2>4. QED
      BY <1>1, <2>2, <2>3 DEF CallbacksFit
  <1>5. ASSUME NEW c \in Reports, NEW ok \in BOOLEAN, Callback(c, ok) PROVE CallbacksFit'
    <2>1. /\ report[c] \in Telling /\ report[c].next <= callbacks
          /\ told' = [told EXCEPT ![c] = @ \cup {report[c].next}]
          /\ report' = [report EXCEPT ![c].next = @ + 1] /\ callbacks' = callbacks
      BY <1>1, <1>5 DEF Callback
    <2> DEFINE n == report[c].next
    <2>2. n \in 1..(MaxCallbacks + 1)
      BY <2>1 DEF Telling
    <2>3. n <= callbacks
      BY <2>1
    <2> DEFINE after == [report[c] EXCEPT !.next = n + 1]
    <2>4. report' = [report EXCEPT ![c] = after] /\ told' = [told EXCEPT ![c] = @ \cup {n}]
      BY <1>1, <2>1 DEF Telling
    <2> HIDE DEF n
    <2>5. n \in 1..MaxCallbacks /\ n + 1 \in 1..(MaxCallbacks + 1)
      BY <1>1, <2>2, <2>3
    <2>6. after \in Telling
      BY <2>1, <2>5 DEF Telling
    <2> HIDE DEF after
    <2>7. report' \in [Reports -> Telling]
      BY <1>1, <2>4, <2>6
    <2>8. told' \in [Reports -> SUBSET (1..MaxCallbacks)]
      BY <1>1, <2>4, <2>5
    <2>9. QED
      BY <1>1, <2>1, <2>7, <2>8 DEF CallbacksFit
  <1>6. ASSUME NEW c \in Reports, AlertsDone(c) \/ CancelReport(c) PROVE CallbacksFit'
    <2>1. \E s \in Steps : report' = [report EXCEPT ![c].step = s]
      BY <1>6 DEF AlertsDone, CancelReport, Steps
    <2>2. PICK s \in Steps : report' = [report EXCEPT ![c].step = s]
      BY <2>1
    <2> DEFINE after == [report[c] EXCEPT !.step = s]
    <2>3. report' = [report EXCEPT ![c] = after]
      BY <1>1, <2>2
    <2>4. after \in Telling
      BY <1>1 DEF Telling
    <2> HIDE DEF after
    <2>5. report' \in [Reports -> Telling]
      BY <1>1, <2>3, <2>4
    <2>6. UNCHANGED <<callbacks, told>>
      BY <1>6 DEF AlertsDone, CancelReport
    <2>7. QED
      BY <1>1, <2>5, <2>6 DEF CallbacksFit
  <1>7. CASE UNCHANGED heartbeatVars
    BY <1>7 DEF heartbeatVars, CallbacksFit
  <1>8. QED
    BY <1>2, <1>3, <1>4, <1>5, <1>6, <1>7 DEF HeartbeatNext

(* A report tells the callbacks that are registered, and no others.        *)
THEOREM HeartbeatTypes == HeartbeatSpec => []HeartbeatTypeOK
  <1>1. HealthIInv /\ CallbacksFit => HeartbeatTypeOK
    BY DEF HealthIInv, HealthTypes, CallbacksFit, Telling, HeartbeatTypeOK
  <1>2. QED
    BY <1>1, HealthInvariant, HeartbeatInitFits, HeartbeatNextFits, PTL DEF HeartbeatSpec

\* The attempts of a request are counted up to its retries.
AttemptsFit == attempt \in [Requests -> 0..MaxRetries]

(* No call of the client counts more attempts than it may make.            *)
THEOREM ClientTypes == ClientSpec => []ClientTypeOK
  <1>1. ClientInit => AttemptsFit
    BY RetriesAssumption DEF ClientInit, AttemptsFit
  <1>2. AttemptsFit /\ [ClientNext]_clientVars => AttemptsFit'
    <2>1. [ClientNext]_clientVars => attempt' = attempt
      <3>1. ASSUME NEW r, NEW result, Return(r, result) PROVE attempt' = attempt
        BY <3>1, Zenon DEF Return
      <3>2. ASSUME NEW r, Attempt(r) PROVE attempt' = attempt
        BY <3>1, <3>2, Zenon DEF Attempt, BackOff
      <3>3. ASSUME NEW r, NEW a, Ask(r) \/ Serve(r, a) PROVE attempt' = attempt
        BY <3>3, Zenon DEF Ask, Serve
      <3>4. QED
        BY <3>2, <3>3, Zenon DEF ClientNext, clientVars
    <2>2. QED
      BY <2>1 DEF AttemptsFit
  <1>3. ClientIInv /\ AttemptsFit => ClientTypeOK
    <2> SUFFICES ASSUME ClientIInv, AttemptsFit PROVE ClientTypeOK
      OBVIOUS
    <2>1. WireType
      BY DEF ClientIInv
    <2>2. done \in Seq(Acts)
      BY <2>1, Zenon DEF WireType
    <2>3. \A i \in DOMAIN done : done[i].by \in Requests
      <3> DEFINE A == Acts
      <3>1. \A x \in A : x.by \in Requests
        BY DEF Acts
      <3> HIDE DEF A
      <3>2. done \in Seq(A)
        BY <2>2 DEF A
      <3>3. \A i \in DOMAIN done : done[i] \in A
        BY <3>2
      <3>4. QED
        BY <3>1, <3>3
    <2>4. QED
      BY <2>1, <2>3, Zenon DEF WireType, Wires, AttemptsFit, ClientTypeOK
  <1>4. QED
    BY <1>1, <1>2, <1>3, ClientInvariant, PTL DEF ClientSpec

(* The attempts on the model and on its fallback are counted up to Tries.  *)
THEOREM GatewayTypes == GatewaySpec => []GatewayTypeOK
  <1>1. GatewayIInv => GatewayTypeOK
    <2> SUFFICES ASSUME GatewayIInv PROVE GatewayTypeOK
      OBVIOUS
    <2>1. CallType /\ CountsAreBounded /\ Tries \in Nat
      BY GatewayAssumption DEF GatewayIInv
    <2>2. call.first \in 0..Tries /\ call.second \in 0..Tries
      BY <2>1 DEF CallType, CountsAreBounded
    <2>3. /\ call.at \in Stages /\ call.from \in Sources /\ call.answer \in Scores
          /\ call.level \in Levels /\ call.shown \in Forms
          /\ blocked \subseteq Sources /\ alerts \in Nat
      BY <2>1 DEF CallType
    <2>4. QED
      BY <2>2, <2>3 DEF GatewayTypeOK, Stages, Scores, Levels, Forms
  <1>2. QED
    BY <1>1, GatewayInitIInv, GatewayNextIInv, PTL DEF GatewaySpec

(* The composition does to each service what its own specification says,   *)
(* whichever of them is exercised.                                         *)
LEMMA ServiceStepsAreTheirOwn ==
  [ServicesNext]_servicesVars =>
    /\ [DelegationNext]_delegationVars /\ [SchedulerNext]_schedulerVars
    /\ [TradingNext]_tradingVars /\ [TracingNext]_tracingVars
    /\ [HeartbeatNext]_heartbeatVars /\ [MemoryBusNext]_memoryBusVars
    /\ [RedisBusNext]_redisBusVars /\ [ClientNext]_clientVars
    /\ [GatewayNext]_gatewayVars /\ [SourceNext]_sourceVars
  <1> SUFFICES ASSUME [ServicesNext]_servicesVars
               PROVE  /\ [DelegationNext]_delegationVars /\ [SchedulerNext]_schedulerVars
                      /\ [TradingNext]_tradingVars /\ [TracingNext]_tracingVars
                      /\ [HeartbeatNext]_heartbeatVars /\ [MemoryBusNext]_memoryBusVars
                      /\ [RedisBusNext]_redisBusVars /\ [ClientNext]_clientVars
                      /\ [GatewayNext]_gatewayVars /\ [SourceNext]_sourceVars
    OBVIOUS
  <1>1. CASE UNCHANGED servicesVars
    BY <1>1 DEF servicesVars
  <1>2. CASE ServicesNext
    <2>1. CASE RestBut("delegation") /\ DelegationNext
      BY <2>1, Zenon DEF RestBut
    <2>2. CASE RestBut("scheduler") /\ SchedulerNext
      BY <2>2, Zenon DEF RestBut
    <2>3. CASE RestBut("trading") /\ TradingNext
      BY <2>3, Zenon DEF RestBut
    <2>4. CASE RestBut("tracing") /\ TracingNext
      BY <2>4, Zenon DEF RestBut
    <2>5. CASE RestBut("heartbeat") /\ HeartbeatNext
      BY <2>5, Zenon DEF RestBut
    <2>6. CASE RestBut("memory bus") /\ MemoryBusNext
      BY <2>6, Zenon DEF RestBut
    <2>7. CASE RestBut("redis bus") /\ RedisBusNext
      BY <2>7, Zenon DEF RestBut
    <2>8. CASE RestBut("client") /\ ClientNext
      BY <2>8, Zenon DEF RestBut
    <2>9. CASE RestBut("gateway") /\ GatewayNext
      BY <2>9, Zenon DEF RestBut
    <2>10. CASE RestBut("data") /\ SourceNext
      BY <2>10, Zenon DEF RestBut
    <2>11. QED
      BY <1>2, <2>1, <2>2, <2>3, <2>4, <2>5, <2>6, <2>7, <2>8, <2>9, <2>10, Zenon DEF ServicesNext
  <1>3. QED
    BY <1>1, <1>2

(* A behaviour of the services side by side is, for each of them, a        *)
(* behaviour of its own specification.                                     *)
THEOREM ServicesAreThemselves ==
  ServicesSpec =>
    /\ DelegationSpec /\ SchedulerSpec /\ TradingSpec /\ TracingSpec /\ HeartbeatSpec
    /\ MemoryBusSpec /\ RedisBusSpec /\ ClientSpec /\ GatewaySpec /\ SourceSpec
  <1>1. ServicesInit =>
          /\ DelegationInit /\ SchedulerInit /\ TradingInit /\ TracingInit /\ HeartbeatInit
          /\ MemoryBusInit /\ RedisBusInit /\ ClientInit /\ GatewayInit /\ SourceInit
    BY Zenon DEF ServicesInit
  <1>2. QED
    BY <1>1, ServiceStepsAreTheirOwn, PTL
       DEF ServicesSpec, DelegationSpec, SchedulerSpec, TradingSpec, TracingSpec, HeartbeatSpec,
           MemoryBusSpec, RedisBusSpec, ClientSpec, GatewaySpec, SourceSpec

(* Whichever service runs, every variable keeps its type.                  *)
THEOREM ServicesTypes == ServicesSpec => []ServicesTypeOK
  <1>1. TradingIInv => TradingTypeOK
    BY DEF TradingIInv
  <1>2. SchedulerIInv => SchedulerTypeOK
    BY DEF SchedulerIInv
  <1>3. TracingIInv => TracingTypeOK
    BY DEF TracingIInv
  <1>4. QED
    BY <1>1, <1>2, <1>3, ServicesAreThemselves, TradingInvariant, SchedulerInvariant,
       TracingInvariant, DelegationTypes, HeartbeatTypes, BusTypes, ClientTypes, GatewayTypes,
       PricesAreFresh, PTL
       DEF ServicesTypeOK

(* What is proved of each service holds where they stand side by side.     *)
THEOREM ServicesTruth ==
  ServicesSpec =>
    /\ [](/\ NothingUsesClosed /\ OrdersAreAnnounced /\ TraceIsTrue /\ BusesDeliver
          /\ ClientIsTrue /\ GatewayIsOrderly /\ FreshEnough)
    /\ LimitsAreKept /\ LoopsAreKept /\ HealthIsTrue /\ BusesInOrder
  BY ServicesAreThemselves, ShutdownSafety, AnnouncementSafety, TraceTruth, BusesLoseOnlyBy,
     ClientTruth, GatewayOrder, PricesAreFresh, LimitSafety, LoopsInHand, HealthTruth,
     BusesImplementChannel, PTL

=============================================================================
