--------------------------- MODULE TradingSystem ---------------------------
(***************************************************************************)
(* FKCryptoApp (gateway/__main__.py) with its workflow (gateway/graph.py,  *)
(* gateway/nodes.py) and its notifier (utils/notifications.py): the cycles *)
(* of the task scheduler and the loops of the monitor and the guardian     *)
(* over one data source and one Freqtrade client, and the shutdown.  What  *)
(* the agents, the decision engine and the execution service do inside is  *)
(* a choice among their outcomes here; they have modules of their own.     *)
(***************************************************************************)
EXTENDS Naturals, Sequences, FiniteSets

CONSTANTS
    Pairs,        \* trading.pairs, a sequence
    Channels      \* the active channels of the notifier, a sequence

ASSUME TradingAssumption == Len(Pairs) \in Nat /\ Len(Channels) \in Nat

Cycles == {"analysis", "sentiment", "risk"}       \* run by the task scheduler
Monitors == {"monitor", "guardian"}               \* loops of their own
Work == Cycles \cup Monitors

\* The edges of build_graph.  Every node leads to the decision, but the one
\* entry point is the market monitor: no edge leads to the other agents.
Edges == {<<"market_monitor", "decision">>, <<"analyst", "decision">>,
          <<"sentiment", "decision">>, <<"risk", "decision">>,
          <<"alpha", "decision">>, <<"decision", "execution">>, <<"execution", "END">>}
Entry == "market_monitor"
Successor(n) == CHOOSE m \in {e[2] : e \in Edges} : <<n, m>> \in Edges

VARIABLES
    app,          \* "new", "up", "stopping" or "down"
    at,           \* at[w]: where w is; "off", "asleep", or what it does
    pair,         \* the position of the analysis cycle in Pairs
    graph,        \* AgentState: the decision, and the order of execution_result
    unsent,       \* the channels that a message of a cycle still has to go to
    open,         \* the data source and the client that are not closed
    stage,        \* the position of stop() in Shutdown, 0 before
    tripped,      \* the kill switch of the guardian
    replaceable,  \* external: LangGraph lets create_app replace the stub nodes
    orders        \* history: pairs whose order was placed and not yet announced

tradingVars == <<app, at, pair, graph, unsent, open, stage, tripped, replaceable, orders>>

Empty == [decision |-> "hold", order |-> FALSE]

TradingTypeOK ==
    /\ app \in {"new", "up", "stopping", "down"}
    /\ at \in [Work -> {"off", "asleep", "begun", "run", "send",
                        "market_monitor", "decision", "execution", "END"}]
    /\ pair \in 0..Len(Pairs)
    /\ graph \in [decision : {"buy", "sell", "hold"}, order : BOOLEAN]
    /\ unsent \in [Cycles -> 0..Len(Channels)]
    /\ open \subseteq {"data", "client"}
    /\ stage \in 0..8
    /\ tripped \in BOOLEAN /\ replaceable \in BOOLEAN
    /\ orders \subseteq 1..Len(Pairs)

TradingInit ==
    /\ app = "new"
    /\ at = [w \in Work |-> "off"]
    /\ pair = 0 /\ graph = Empty
    /\ unsent = [c \in Cycles |-> 0]
    /\ open = {} /\ stage = 0
    /\ tripped = FALSE /\ replaceable \in BOOLEAN
    /\ orders = {}

-----------------------------------------------------------------------------
(* Start, the two loops, the sentiment and the risk cycle.                 *)

\* start(): the components, the scheduler with three tasks, and the loops.
Start ==
    /\ app = "new"
    /\ app' = "up"
    /\ open' = {"data", "client"}
    /\ at' = [w \in Work |-> "asleep"]
    /\ UNCHANGED <<pair, graph, unsent, stage, tripped, replaceable, orders>>

\* A loop wakes up, or the scheduler calls the function of a cycle.
Wake(w) ==
    /\ w # "analysis"
    /\ at[w] = "asleep"
    /\ at' = [at EXCEPT ![w] = "run"]
    /\ UNCHANGED <<app, pair, graph, unsent, open, stage, tripped, replaceable, orders>>

\* The run of an agent ends or raises, which is logged.  A run of the guardian
\* may trip the switch, and raise after that.
RunEnds(w) ==
    /\ w # "risk"
    /\ at[w] = "run"
    /\ tripped' \in IF w = "guardian" THEN {tripped, TRUE} ELSE {tripped}
    /\ at' = [at EXCEPT ![w] = "asleep"]
    /\ UNCHANGED <<app, pair, graph, unsent, open, stage, replaceable, orders>>

\* _run_risk_cycle: one alert in every cycle that finds the switch tripped.
RiskRunEnds(ok) ==
    /\ at["risk"] = "run"
    /\ tripped' \in {tripped, TRUE}
    /\ IF ok /\ tripped'
       THEN at' = [at EXCEPT !["risk"] = "send"] /\ unsent' = [unsent EXCEPT !["risk"] = Len(Channels)]
       ELSE at' = [at EXCEPT !["risk"] = "asleep"] /\ UNCHANGED unsent
    /\ UNCHANGED <<app, pair, graph, open, stage, replaceable, orders>>

\* Notifier.send: the channels in turn; one that fails is logged.
SendOne(c) ==
    /\ at[c] = "send" /\ unsent[c] > 0
    /\ unsent' = [unsent EXCEPT ![c] = @ - 1]
    /\ UNCHANGED <<app, at, pair, graph, open, stage, tripped, replaceable, orders>>

AlertSent ==
    /\ at["risk"] = "send" /\ unsent["risk"] = 0
    /\ at' = [at EXCEPT !["risk"] = "asleep"]
    /\ UNCHANGED <<app, pair, graph, unsent, open, stage, tripped, replaceable, orders>>

\* External: reset_kill_switch, which nothing in the application calls.
ResetSwitch ==
    /\ tripped /\ tripped' = FALSE
    /\ UNCHANGED <<app, at, pair, graph, unsent, open, stage, replaceable, orders>>

-----------------------------------------------------------------------------
(* _run_analysis_cycle: each pair in turn goes through the graph.          *)

\* Take up pair p with a new AgentState, or end the cycle.  _build_graph raises
\* when a node cannot be replaced, and the loop goes on to the next pair.
Take(p) ==
    IF p > Len(Pairs)
    THEN /\ at' = [at EXCEPT !["analysis"] = "asleep"]
         /\ pair' = 0
         /\ UNCHANGED graph
    ELSE /\ at' = [at EXCEPT !["analysis"] = IF replaceable THEN Entry ELSE "begun"]
         /\ pair' = p
         /\ graph' = Empty

WakeAnalysis ==
    /\ at["analysis"] = "asleep"
    /\ Take(1)
    /\ UNCHANGED <<app, unsent, open, stage, tripped, replaceable, orders>>

\* Fault: the exception ends the whole cycle.
BuildRaisesOut ==
    /\ at["analysis"] = "begun"
    /\ at' = [at EXCEPT !["analysis"] = "asleep"]
    /\ pair' = 0
    /\ UNCHANGED <<app, graph, unsent, open, stage, tripped, replaceable, orders>>

BuildRaises ==
    /\ at["analysis"] = "begun"
    /\ Take(pair + 1)
    /\ UNCHANGED <<app, unsent, open, stage, tripped, replaceable, orders>>

\* The node of the market monitor, whose failure leaves no signals.
MonitorNode ==
    /\ at["analysis"] = "market_monitor"
    /\ at' = [at EXCEPT !["analysis"] = Successor("market_monitor")]
    /\ UNCHANGED <<app, pair, graph, unsent, open, stage, tripped, replaceable, orders>>

\* The node of the decision engine; a failure decides "hold".
DecisionNode ==
    /\ at["analysis"] = "decision"
    /\ graph' \in {[graph EXCEPT !.decision = d] : d \in {"buy", "sell", "hold"}}
    /\ at' = [at EXCEPT !["analysis"] = Successor("decision")]
    /\ UNCHANGED <<app, pair, unsent, open, stage, tripped, replaceable, orders>>

\* The node of the execution service, which places no order to hold.  It asks
\* the risk engine, which looks for a kill switch among the rows of the
\* database; the switch of the guardian is not among them.
ExecutionNode(placed) ==
    /\ at["analysis"] = "execution"
    /\ placed => graph.decision # "hold"
    /\ graph' = [graph EXCEPT !.order = placed]
    /\ orders' = IF placed THEN orders \cup {pair} ELSE orders
    /\ at' = [at EXCEPT !["analysis"] = Successor("execution")]
    /\ UNCHANGED <<app, pair, unsent, open, stage, tripped, replaceable>>

\* Fault: only purchases are announced.
AnnouncedBuy == graph.decision = "buy"

\* A trade is announced for a decision to buy or sell, whatever became of it.
Announced == graph.decision \in {"buy", "sell"}

GraphEnds ==
    /\ at["analysis"] = "END"
    /\ IF Announced
       THEN /\ at' = [at EXCEPT !["analysis"] = "send"]
            /\ unsent' = [unsent EXCEPT !["analysis"] = Len(Channels)]
            /\ UNCHANGED <<pair, graph>>
       ELSE Take(pair + 1) /\ UNCHANGED unsent
    /\ UNCHANGED <<app, open, stage, tripped, replaceable, orders>>

TradeSent ==
    /\ at["analysis"] = "send" /\ unsent["analysis"] = 0
    /\ orders' = orders \ {pair}
    /\ Take(pair + 1)
    /\ UNCHANGED <<app, unsent, open, stage, tripped, replaceable>>

-----------------------------------------------------------------------------
(* stop(): what it ends, in this order.                                    *)

\* Fault: the connections are closed before the loops that use them end.
ShutdownEarlyClose ==
    <<"analysis", "sentiment", "risk", "alpha", "data", "monitor", "guardian", "client">>

Shutdown == <<"analysis", "sentiment", "risk", "monitor", "guardian", "alpha", "data", "client">>

Stop ==
    /\ app = "up"
    /\ app' = "stopping" /\ stage' = 1
    /\ UNCHANGED <<at, pair, graph, unsent, open, tripped, replaceable, orders>>

\* The task of a loop or of a cycle is cancelled where it waits, and ends.
EndTask(w) ==
    /\ at' = [at EXCEPT ![w] = "off"]
    /\ pair' = IF w = "analysis" THEN 0 ELSE pair
    /\ unsent' = IF w \in Cycles THEN [unsent EXCEPT ![w] = 0] ELSE unsent
    /\ orders' = IF w = "analysis" THEN {} ELSE orders
    /\ UNCHANGED open

StopStep ==
    /\ app = "stopping"
    /\ LET x == Shutdown[stage]
       IN  IF x \in Work THEN EndTask(x)
           ELSE open' = open \ {x} /\ UNCHANGED <<at, pair, unsent, orders>>
    /\ IF stage < Len(Shutdown)
       THEN stage' = stage + 1 /\ UNCHANGED app
       ELSE app' = "down" /\ UNCHANGED stage
    /\ UNCHANGED <<graph, tripped, replaceable>>

-----------------------------------------------------------------------------
Analyse ==
    \/ BuildRaises \/ MonitorNode \/ DecisionNode
    \/ \E placed \in BOOLEAN : ExecutionNode(placed)
    \/ GraphEnds \/ SendOne("analysis") \/ TradeSent

CheckRisk ==
    \/ \E ok \in BOOLEAN : RiskRunEnds(ok)
    \/ SendOne("risk") \/ AlertSent

TradingNext ==
    \/ Start \/ Stop \/ StopStep \/ ResetSwitch
    \/ \E w \in Work : Wake(w) \/ RunEnds(w)
    \/ WakeAnalysis \/ Analyse \/ CheckRisk

TradingSpec == TradingInit /\ [][TradingNext]_tradingVars

\* Every call of a node and of a channel returns or raises: they have timeouts
\* or are retried a bounded number of times.
TradingFairSpec ==
    TradingSpec /\ WF_tradingVars(Analyse) /\ WF_tradingVars(CheckRisk) /\ WF_tradingVars(StopStep)

-----------------------------------------------------------------------------
Uses(w, r) ==
    \/ r = "data" /\ w \in {"monitor", "guardian", "risk"} /\ at[w] = "run"
    \/ r = "data" /\ w = "analysis" /\ at[w] = "market_monitor"
    \/ r = "client" /\ w = "analysis" /\ at[w] = "execution"

\* Nothing is in the middle of a call of a connection that is closed, and nothing
\* is left that could make one when the shutdown is complete.
NothingUsesClosed ==
    /\ \A w \in Work : \A r \in {"data", "client"} : Uses(w, r) => r \in open
    /\ "data" \notin open /\ app # "new" => \A w \in Work : at[w] = "off"

\* An order that was placed has been announced when the next pair is taken up,
\* unless the shutdown cut the cycle off.
OrdersAreAnnounced ==
    /\ orders \subseteq {pair}
    /\ orders # {} => at["analysis"] \in {"END", "send"}

\* Every pair gets its turn in every cycle, whatever fails for one before it.
EveryPairHasItsTurn ==
    \A p \in 1..Len(Pairs) : pair = 1 ~> pair = p \/ stage > 0

\* stop() ends.
ShutdownEnds == app = "stopping" ~> app = "down"

=============================================================================
