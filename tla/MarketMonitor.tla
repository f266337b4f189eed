--------------------------- MODULE MarketMonitor ---------------------------
(***************************************************************************)
(* The market monitor on one symbol: every check asks for the ticker,      *)
(* appends price and volume to the rolling histories, runs the detectors   *)
(* and then looks at the order book.  The analysis cycle and the agent's   *)
(* own loop may check at once over the same histories.                     *)
(*                                                                         *)
(* Models src/src/agents/market_monitor.py and safe_run and stop of        *)
(* src/src/agents/base.py.  The exchange is external; time is in steps of  *)
(* which Minute make a minute.                                             *)
(***************************************************************************)
EXTENDS Totals

CONSTANTS Tickers,     \* the pairs of a price and a volume the exchange may show
          Minute,      \* window of the flash crash detector
          SpikeWindow, \* window of the price spike detector
          Sigmas,      \* std_multiplier of the volume detector
          VolumeLookback,    \* length of the volume history
          PriceHistory,\* length of the price history
          MaxSamples,  \* bound: samples taken
          MaxNow       \* bound: how far time goes

ASSUME MonitorAssumption ==
  /\ Tickers \subseteq (Nat \ {0}) \X Nat
  /\ Minute \in Nat /\ SpikeWindow \in Nat /\ Sigmas \in Nat /\ MaxSamples \in Nat /\ MaxNow \in Nat
  /\ VolumeLookback \in Nat \ {0} /\ PriceHistory \in Nat \ {0}

Checks == {"cycle", "loop"}

VARIABLES now,      \* the clock
          prices,   \* price history: [at, price], oldest first
          volumes,  \* volume history
          check,    \* the two checks, where each is and what it found, in order
          looping,  \* the state of the monitoring loop
          samples   \* how many samples were taken

monitorVars == <<now, prices, volumes, check, looping, samples>>

Asleep == [at |-> "rest", found |-> <<>>]

MonitorInit ==
  /\ now = 0 /\ prices = <<>> /\ volumes = <<>> /\ looping = "off"
  /\ check = [c \in Checks |-> Asleep] /\ samples = 0

(* The samples at most d old, and the oldest of them. *)
Within(h, d) == SelectSeq(h, LAMBDA e : e.at >= now - d)
Percent(from, to) == <<(to - from) * 100, from>>
AtLeast(p, n) == p[1] >= n * p[2]
AtMost(p, n) == p[1] <= n * p[2]
SinceOldest(h, d) == Percent(Within(h, d)[1].price, Last(h).price)

(* 2 % against the oldest price of the window. *)
PriceSpike(h) ==
  IF Len(h) < 2 THEN <<>>
  ELSE LET change == SinceOldest(h, SpikeWindow) IN
       CASE AtLeast(change, 2) -> <<[event |-> "spike", action |-> "buy"]>>
         [] AtMost(change, -2) -> <<[event |-> "spike", action |-> "sell"]>>
         [] OTHER -> <<>>

(* 5 % down against the oldest price of the last minute. *)
FlashCrash(h) ==
  IF Len(h) >= 2 /\ AtMost(SinceOldest(h, Minute), -5)
  THEN <<[event |-> "crash", action |-> "sell"]>> ELSE <<>>

Squares(s) == SumOf([i \in DOMAIN s |-> s[i] * s[i]])

(* The last volume lies over the mean by more than Sigmas deviations: both *)
(* sides of the comparison times the number of samples, and squared.       *)
OverMean(s, k, v) ==
  LET n == Len(s)
      above == n * v - SumOf(s)
      spread == n * Squares(s) - SumOf(s) * SumOf(s)
  IN  spread > 0 /\ above > 0 /\ above * above > k * k * spread

VolumeFrom(before, s, h) ==
  IF Len(s) < 5 \/ ~OverMean(before, Sigmas, Last(s)) THEN <<>>
  ELSE LET recent == SubSeq(h, IF Len(h) > 5 THEN Len(h) - 4 ELSE 1, Len(h))
       IN  <<[event |-> "volume",
              action |-> IF Len(h) >= 2 /\ Last(recent).price < recent[1].price
                         THEN "sell" ELSE "buy"]>>

(* Fault: the sample is measured against a history without it. *)
VolumeAnomalyBefore(s, h) == VolumeFrom(Front(s), s, h)

VolumeAnomaly(s, h) == VolumeFrom(s, s, h)

Detect(h, s) == PriceSpike(h) \o VolumeAnomaly(s, h) \o FlashCrash(h)

(* A deque with a maximum length. *)
Rolled(q, n) == IF Len(q) > n THEN SubSeq(q, Len(q) - n + 1, Len(q)) ELSE q

(* A check asks for the ticker; the exchange reads it and answers later. *)
CheckSymbol(c) ==
  /\ check[c].at = "rest" /\ samples < MaxSamples
  /\ c = "loop" => looping = "on"
  /\ check' = [check EXCEPT ![c] = [at |-> "asked", found |-> <<>>]]
  /\ samples' = samples + 1
  /\ UNCHANGED <<now, prices, volumes, looping>>

TickerComes(c, t) ==
  /\ check[c].at = "asked"
  /\ LET h == Rolled(Append(prices, [at |-> now, price |-> t[1]]), PriceHistory)
         v == Rolled(Append(volumes, t[2]), VolumeLookback)
     IN  /\ prices' = h /\ volumes' = v
         /\ check' = [check EXCEPT ![c] = [at |-> "book", found |-> Detect(h, v)]]
  /\ UNCHANGED <<now, looping, samples>>

(* No price, an error, no data source: the check finds nothing. *)
TickerFails(c) ==
  /\ check[c].at = "asked"
  /\ check' = [check EXCEPT ![c] = Asleep]
  /\ UNCHANGED <<now, prices, volumes, looping, samples>>

(* The order book is balanced, missing or fails, or one side outweighs the *)
(* other; an empty side fails on its division and finds nothing.           *)
BookComes(c, side) ==
  /\ check[c].at = "book"
  /\ check' = [check EXCEPT ![c] = [at |-> "rest", found |-> @.found \o
       (IF side = "hold" THEN <<>> ELSE <<[event |-> "book", action |-> side]>>)]]
  /\ UNCHANGED <<now, prices, volumes, looping, samples>>

StartMonitoring == /\ looping = "off" /\ looping' = "on"
                   /\ UNCHANGED <<now, prices, volumes, check, samples>>

(* stop cancels the loop where it waits; what its check found is lost. *)
StopMonitoring == /\ looping = "on" /\ looping' = "off"
                  /\ check' = [check EXCEPT !["loop"] = Asleep]
                  /\ UNCHANGED <<now, prices, volumes, samples>>

MonitorTick == /\ now < MaxNow /\ now' = now + 1
               /\ UNCHANGED <<prices, volumes, check, looping, samples>>

MonitorNext ==
  \/ \E c \in Checks : \/ CheckSymbol(c) \/ TickerFails(c)
                       \/ \E t \in Tickers : TickerComes(c, t)
                       \/ \E side \in {"buy", "sell", "hold"} : BookComes(c, side)
  \/ StartMonitoring \/ StopMonitoring \/ MonitorTick

MonitorSpec == MonitorInit /\ [][MonitorNext]_monitorVars

------------------------------------------------------------------------------
MonitorTypeOK ==
  /\ now \in 0..MaxNow /\ samples \in 0..MaxSamples /\ looping \in {"on", "off"}
  /\ Len(prices) <= PriceHistory /\ Len(volumes) <= VolumeLookback
  /\ \A c \in Checks : check[c].at \in {"rest", "asked", "book"}

(* A volume is measured against a history that it is part of, so that no   *)
(* volume, however large, is anomalous before (n - 1)^2 > Sigmas^2 * n: the *)
(* eleventh sample with the three deviations of the configuration, where   *)
(* the code asks for five.                                                 *)
AnomalyNeedsSamples ==
  [][\A c \in Checks :
       check'[c].at = "book" /\ check[c].at = "asked"
         /\ (\E i \in DOMAIN check'[c].found : check'[c].found[i].event = "volume")
       => LET n == Len(volumes') IN (n - 1) * (n - 1) > Sigmas * Sigmas * n]_monitorVars

(* One key of the decision engine stands for all signals of the monitor on *)
(* a symbol, and the latest wins: when a check saw a crash, the last of    *)
(* its price and volume signals says sell, even where the longer window of *)
(* the spike detector says buy.                                            *)
CrashHasTheLastWord ==
  \A c \in Checks :
    (check[c].at = "book" /\ \E i \in DOMAIN check[c].found : check[c].found[i].event = "crash")
      => Last(check[c].found).action = "sell"

(* The detectors together: the crash prevails over the spike, and one      *)
(* sample among few is no anomaly.                                         *)
DetectorsAgree == []CrashHasTheLastWord /\ AnomalyNeedsSamples
==============================================================================
