------------------------------- MODULE Agents --------------------------------
(***************************************************************************)
(* The agents, what they remember and what becomes of their signals, side  *)
(* by side.  They share no state: a behaviour exercises one of them, the   *)
(* part, and the others rest in their initial states.                      *)
(***************************************************************************)
EXTENDS DecisionEngine, MarketMonitor, KnowledgeGraph, AlphaSeeker,
        NewsSentiment, Analyst, Backtest, RiskSizing

VARIABLE part        \* the component that this behaviour exercises

AgentParts == {"engine", "monitor", "graph", "alpha", "sentiment", "analyst", "backtest", "risk"}

agentsVars == <<engineVars, monitorVars, graphVars, seekerVars, sentimentVars, analystVars,
                backtestVars, riskVars, part>>

\* What two components start with in several ways is fixed where they rest.
AgentsInit ==
    /\ part \in AgentParts
    /\ EngineInit /\ MonitorInit /\ GraphInit /\ SeekerInit
    /\ SentimentInit /\ AnalystInit
    /\ BacktestInit /\ (part # "backtest" => candles = <<10000>>)
    /\ RiskInit /\ (part # "risk" => balance = 1000)

RestBut(x) ==
    /\ part = x /\ UNCHANGED part
    /\ x # "engine" => UNCHANGED engineVars
    /\ x # "monitor" => UNCHANGED monitorVars
    /\ x # "graph" => UNCHANGED graphVars
    /\ x # "alpha" => UNCHANGED seekerVars
    /\ x # "sentiment" => UNCHANGED sentimentVars
    /\ x # "analyst" => UNCHANGED analystVars
    /\ x # "backtest" => UNCHANGED backtestVars
    /\ x # "risk" => UNCHANGED riskVars

AgentsNext ==
    \/ RestBut("engine") /\ EngineNext
    \/ RestBut("monitor") /\ MonitorNext
    \/ RestBut("graph") /\ GraphNext
    \/ RestBut("alpha") /\ SeekerNext
    \/ RestBut("sentiment") /\ SentimentNext
    \/ RestBut("analyst") /\ AnalystNext
    \/ RestBut("backtest") /\ BacktestNext
    \/ RestBut("risk") /\ RiskNext

AgentsSpec == AgentsInit /\ [][AgentsNext]_agentsVars

------------------------------------------------------------------------------
\* Every variable keeps its type.
AgentsTypeOK ==
    /\ EngineTypeOK /\ MonitorTypeOK /\ GraphTypeOK /\ SeekerTypeOK
    /\ SentimentTypeOK /\ AnalystTypeOK /\ BacktestTypeOK /\ RiskTypeOK
==============================================================================
