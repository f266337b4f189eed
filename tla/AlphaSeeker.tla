----------------------------- MODULE AlphaSeeker -----------------------------
(***************************************************************************)
(* The alpha seeker: every cycle asks its sources for events in parallel,  *)
(* drops the events it has seen, and turns the others into signals.  The   *)
(* analysis workflow and the agent's own loop may run cycles at once.      *)
(*                                                                         *)
(* Models src/src/agents/alpha_seeker.py and the signal of                 *)
(* src/src/data/onchain.py.  The sources are external: an answer is any    *)
(* set of their events, also part of them when a source fails midway.      *)
(***************************************************************************)
EXTENDS Totals, FiniteSets, FiniteSetsExt

CONSTANTS Happenings, \* events of the world: [kind, from, to, flow]
          Forced,     \* priority_overrides: kind of event -> forced priority
          Cycles,     \* cycles that may run at once
          MaxSeen,    \* when the memory of seen events is cut
          KeptSeen,   \* how many events the cut leaves
          MaxRuns     \* bound: cycles run

ASSUME SeekerAssumption ==
  /\ IsFiniteSet(Happenings)
  /\ Happenings \subseteq [kind : STRING, from : STRING, to : STRING, flow : Int]
  /\ Forced \in [DOMAIN Forced -> {"immediate", "high", "medium"}]
  /\ MaxSeen \in Nat /\ KeptSeen \in 0..MaxSeen /\ MaxRuns \in Nat

VARIABLES cycle,  \* cycle -> the sources it waits for and the events it has
          seen,   \* _seen_events, by their keys
          told,   \* event -> how many signals were made of it
          cuts,   \* how often the memory was cut
          runs    \* cycles begun

seekerVars == <<cycle, seen, told, cuts, runs>>

(* The flow of a token into (+) or out of (-) the exchanges, in tens of    *)
(* millions, as the on-chain source classifies it.                         *)
Flow(e) ==
  CASE e.flow > 2 -> "strong_bearish" [] e.flow = 2 -> "bearish"
    [] e.flow = -2 -> "bullish" [] e.flow < -2 -> "strong_bullish" [] OTHER -> "neutral"

(* What each source makes events of; weak flows are none. *)
Listings == {e \in Happenings : e.kind = "listing"}
Whales == {e \in Happenings : e.kind = "whale_movement"}
Tweets == {e \in Happenings : e.kind = "influencer"}
Flows == {e \in Happenings : e.kind = "onchain_netflow" /\ Flow(e) # "neutral"}
Breaking == {e \in Happenings : e.kind \in {"hack", "exploit", "regulation", "partnership",
                                            "mainnet", "upgrade"}}

EventsOf ==
  [exchange_news |-> Listings, whale_alert |-> Whales, influencer |-> Tweets,
   onchain |-> Flows, breaking_news |-> Breaking]
EventSources == {s \in DOMAIN EventsOf : EventsOf[s] # {}}
SourceOf(e) == CHOOSE s \in EventSources : e \in EventsOf[s]

(* By what an event is recognised: kind, token and title.  The title of a  *)
(* flow names neither amount nor direction, that of a whale the amount     *)
(* (its flow here), and neither of its two ends.                           *)
Key(e) ==
  CASE e.kind = "onchain_netflow" -> [e EXCEPT !.flow = 0]
    [] e.kind = "whale_movement" -> [e EXCEPT !.from = "", !.to = ""]
    [] OTHER -> e
Keys == {Key(e) : e \in Happenings}

(* What a source may answer: any of its events, but one flow of a token. *)
AnswersOf(s) ==
  {E \in SUBSET EventsOf[s] :
     s = "onchain" => \A d, e \in E : Key(d) = Key(e) => d = e}

(* The exchanges by which a whale's deposit or withdrawal is recognised,   *)
(* and the fewer ones by which it is given a direction.                    *)
Labelled == {"binance", "coinbase", "okx", "kraken", "bybit", "kucoin", "huobi", "bitfinex"}
Directed == {"binance", "coinbase", "okx"}

(* The configuration forces the priority of what the news are about. *)
Priority(e) ==
  IF e \in Listings \cup Breaking /\ e.kind \in DOMAIN Forced THEN Forced[e.kind]
  ELSE CASE e.kind \in {"listing", "hack", "exploit"} -> "immediate"
         [] e.kind \in {"partnership", "influencer"} -> "high"
         [] e.kind = "whale_movement" /\ (e.to \in Labelled \/ e.from \in Labelled) -> "high"
         [] e.kind = "onchain_netflow" /\ Flow(e) \in {"strong_bearish", "strong_bullish"} -> "high"
         [] OTHER -> "medium"

EventAction(e) ==
  CASE e.kind \in {"listing", "partnership", "mainnet", "upgrade", "influencer"} -> "buy"
    [] e.kind \in {"hack", "exploit", "delisting", "regulation"} -> "sell"
    [] e.kind = "whale_movement" /\ e.to \in Directed -> "sell"
    [] e.kind = "whale_movement" /\ e.to \notin Directed /\ e.from \in Directed -> "buy"
    [] e.kind = "onchain_netflow" /\ Flow(e) \in {"bullish", "strong_bullish"} -> "buy"
    [] e.kind = "onchain_netflow" /\ Flow(e) \in {"bearish", "strong_bearish"} -> "sell"
    [] OTHER -> "hold"

(* Base confidence times the reliability of the source, in 1/10000. *)
BaseConfidence(e) ==
  CASE Priority(e) = "immediate" -> 95 [] Priority(e) = "high" -> 80 [] OTHER -> 60

Reliability(e) ==
  CASE SourceOf(e) = "exchange_news" -> 100 [] SourceOf(e) = "whale_alert" -> 85
    [] SourceOf(e) = "breaking_news" -> 75 [] SourceOf(e) = "influencer" -> 65
    [] OTHER -> 50

EventConfidence(e) ==
  LET c == BaseConfidence(e) * Reliability(e) IN IF c > 9900 THEN 9900 ELSE c

(* The boost and the threshold of the decision engine for a lone signal. *)
DecidesAlone(e) ==
  LET boost == CASE Priority(e) = "immediate" -> 150 [] Priority(e) = "high" -> 120
                 [] OTHER -> 100
  IN  EventAction(e) # "hold" /\ EventConfidence(e) * boost > 6000 * 100

Quiet == [waits |-> {}, has |-> {}, on |-> FALSE]

SeekerInit ==
  /\ cycle = [c \in Cycles |-> Quiet] /\ seen = {} /\ cuts = 0 /\ runs = 0
  /\ told = [e \in Happenings |-> 0]

RunCycle(c) ==
  /\ ~cycle[c].on /\ runs < MaxRuns
  /\ cycle' = [cycle EXCEPT ![c] = [waits |-> EventSources, has |-> {}, on |-> TRUE]]
  /\ runs' = runs + 1
  /\ UNCHANGED <<seen, told, cuts>>

(* A source answers with some of its events; a failure gives the part that *)
(* came before it, or nothing.                                             *)
SourceAnswers(c, s, events) ==
  /\ s \in cycle[c].waits
  /\ cycle' = [cycle EXCEPT ![c].waits = @ \ {s}, ![c].has = @ \cup events]
  /\ UNCHANGED <<seen, told, cuts, runs>>

(* Fault: the memory is not looked into. *)
UnseenInCycle(c) == cycle[c].has

Unseen(c) == {e \in cycle[c].has : Key(e) \notin seen}

(* The unique events: of those with one key the first that was reported,   *)
(* which may be any of them.                                               *)
Unique(c) ==
  {U \in SUBSET Unseen(c) :
     /\ \A d, e \in U : Key(d) = Key(e) => d = e
     /\ \A e \in Unseen(c) : \E u \in U : Key(u) = Key(e)}

Remembered(c) == seen \cup {Key(e) : e \in Unseen(c)}

(* The memory is a set: which of its elements a cut leaves is arbitrary.   *)
Cut(s) ==
  IF Cardinality(s) > MaxSeen THEN {k \in SUBSET s : Cardinality(k) = KeptSeen} ELSE {s}

(* All sources have answered: deduplicate, cut the memory, make signals. *)
CycleEnds(c) ==
  /\ cycle[c].on /\ cycle[c].waits = {}
  /\ \E kept \in Cut(Remembered(c)) :
       /\ seen' = kept
       /\ cuts' = IF kept = Remembered(c) THEN cuts ELSE cuts + 1
  /\ \E U \in Unique(c) :
       told' = [e \in Happenings |-> IF e \in U THEN told[e] + 1 ELSE told[e]]
  /\ cycle' = [cycle EXCEPT ![c] = Quiet]
  /\ UNCHANGED runs

(* The cycle is cancelled at its wait; nothing is marked as seen. *)
CycleCancelled(c) ==
  /\ cycle[c].on
  /\ cycle' = [cycle EXCEPT ![c] = Quiet]
  /\ UNCHANGED <<seen, told, cuts, runs>>

SeekerNext ==
  \E c \in Cycles :
    \/ RunCycle(c) \/ CycleEnds(c) \/ CycleCancelled(c)
    \/ \E s \in EventSources :
         \E events \in AnswersOf(s) : SourceAnswers(c, s, events)

SeekerSpec == SeekerInit /\ [][SeekerNext]_seekerVars

------------------------------------------------------------------------------
SeekerTypeOK ==
  /\ seen \subseteq Keys /\ told \in [Happenings -> Nat]
  /\ cuts \in 0..MaxRuns /\ runs \in 0..MaxRuns
  /\ \A c \in Cycles : cycle[c].waits \subseteq EventSources /\ cycle[c].has \subseteq Happenings

(* The events of one key make one signal, whichever cycles overlap and     *)
(* whichever source reports late; only a cut of the memory lets one of     *)
(* them return, and a cut lets it return once.                             *)
EventsWith(k) == {e \in Happenings : Key(e) = k}
TimesTold(k) == SumOver(told, EventsWith(k))

ToldOnce == \A k \in Keys : TimesTold(k) <= cuts + 1

(* The memory does not outgrow its limit, cycle after cycle. *)
MemoryIsBounded == Cardinality(seen) <= MaxSeen

(* The priority that boosts a signal in the decision engine and the        *)
(* direction it has come from two tables: an event that was made a signal  *)
(* with a priority above medium says buy or sell, but for the whales at an *)
(* exchange that only the first table knows.                               *)
PriorityHasDirection ==
  \A e \in Happenings :
    told[e] > 0 /\ Priority(e) # "medium" /\ EventAction(e) = "hold"
      => e.kind = "whale_movement" /\ {e.to, e.from} \cap Directed = {}

(* Through priority, reliability, boost and threshold: an event of medium  *)
(* priority never decides a trade alone, and one of a higher priority with *)
(* a direction always does, but for the flows on the chain, whose source   *)
(* has no reliability of its own.                                          *)
PriorityDecides ==
  \A e \in Happenings : told[e] > 0 =>
    (DecidesAlone(e) <=> /\ Priority(e) # "medium" /\ EventAction(e) # "hold"
                         /\ SourceOf(e) # "onchain")

(* What the memory of the seeker is for: an event is told once, and the    *)
(* memory is bounded.                                                      *)
MemoryServes == ToldOnce /\ MemoryIsBounded

(* What the decision engine makes of an event fits what the event is: the  *)
(* tables of priorities, directions, reliabilities and boosts agree.       *)
TablesAgree == PriorityHasDirection /\ PriorityDecides

(* Alpha events: each is told once, the memory of them is bounded, and the *)
(* tables that weigh them agree.                                           *)
AlphaIsSound == MemoryServes /\ TablesAgree
==============================================================================
