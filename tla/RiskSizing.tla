----------------------------- MODULE RiskSizing -----------------------------
(***************************************************************************)
(* The rules of the risk engine over a day of trading, the sizes proposed  *)
(* by position sizing, and the trailing stop of a position.                *)
(*                                                                         *)
(* Models src/src/risk/engine.py and src/src/risk/position_sizing.py; the  *)
(* rows of refused orders are execution/service.py's.  Fractions are in    *)
(* hundredths, money and prices are integers.  Here the engine is asked    *)
(* with a balance, a size and the positions, as its signature offers;      *)
(* ExecutionService has the values that the application hands it.          *)
(***************************************************************************)
EXTENDS Totals, FiniteSetsExt

CONSTANTS MaxHeld,     \* max_positions
          PerTrade,    \* risk_per_trade
          StopLoss,    \* stop_loss
          MaxExposed,  \* max_exposure
          MaxDayLoss,  \* max_daily_loss
          DrawdownCap, \* max_drawdown
          MinSizePct, MaxSizePct,  \* the clamp of calculate_dynamic_size
          Trail, Activation,       \* trail_pct, activation_pct
          Balances, Falls, Quotes, \* balances, drawdowns and prices that may occur
          Voices,      \* the signals that may be given
          MaxRefused   \* bound: orders refused in a day

ASSUME RiskSizingAssumption ==
  /\ {PerTrade, MaxExposed, MaxDayLoss, MinSizePct, Activation, DrawdownCap} \subseteq Nat
  /\ StopLoss \in 1..100 /\ Trail \in 0..100 /\ MaxSizePct \in MinSizePct..100
  /\ {MaxHeld, MaxRefused} \subseteq Nat
  /\ Balances \cup Quotes \subseteq Nat \ {0}
  /\ \A b \in Balances : b * PerTrade >= StopLoss  \* no balance is too small for a whole size
  /\ \A v \in Voices : v.confidence \in 0..100

VARIABLES balance, drop,  \* the balance, and the drawdown of the latest snapshot
          held,       \* the sizes of the open positions
          refused,    \* the sizes of the orders refused today
          asked,      \* the last order: its size, who sized it, and the answer
          stop        \* a position's entry, highest price and trailing stop

riskVars == <<balance, drop, held, refused, asked, stop>>

NoOrder == [size |-> 0, by |-> "nobody", passed |-> FALSE]
NoStop == [entry |-> 0, highest |-> 0, at |-> 0]

Least(a, b) == IF a < b THEN a ELSE b
Most(a, b) == IF a > b THEN a ELSE b

RiskInit ==
  /\ balance \in Balances /\ drop = 0 /\ held = <<>> /\ refused = <<>>
  /\ asked = NoOrder /\ stop = NoStop

(* Fault: the size is made for the trailing stop. *)
SizeByTrail(b) == (b * PerTrade) \div Trail

(* calculate_position_size *)
PositionSize(b) == (b * PerTrade) \div StopLoss

(* calculate_convergence_factor, for at most two voices that are no holds  *)
(* (the deviation of two confidences is half their distance).              *)
Confident(v) == v.confidence
Agreement(v, w) == IF v.action = w.action THEN 100 ELSE 0
Bonus(v, w) ==
  LET d == Confident(v) - Confident(w) IN Most(0, 100 - IF d < 0 THEN -d ELSE d)

AlphaPriority(v) ==
  CASE v.priority = "immediate" -> 50 [] v.priority = "high" -> 25 [] OTHER -> 0

Convergence(q, acting) ==
  LET v == q[Min(acting)]
      w == q[Max(acting)]
      base == IF Cardinality(acting) = 1 THEN (Confident(v) * 150) \div 100
              ELSE (Agreement(v, w) * (Confident(v) + Confident(w)) * (100 + Bonus(v, w)))
                     \div 20000
      alpha == {i \in acting : q[i].source = "alpha"}
      first == IF alpha = {} THEN 0 ELSE AlphaPriority(q[Min(alpha)])
  IN  Most(10, Least(100 + base + first, 250))

ConvergenceFactor(q) ==
  LET acting == {i \in DOMAIN q : q[i].action # "hold"}
  IN  IF acting = {} THEN 0 ELSE Convergence(q, acting)

(* calculate_dynamic_size: the risk is clamped, in hundredths of a percent,*)
(* and the size is the risk over the stop loss.                            *)
DynamicRisk(q) ==
  Most(MinSizePct * 100, Least(PerTrade * ConvergenceFactor(q), MaxSizePct * 100))
DynamicSize(b, q) == (b * DynamicRisk(q)) \div (100 * StopLoss)

(* validate_order.  The day's loss counts the refused orders, one percent  *)
(* of their sizes, and no filled one.                                      *)
SizeAllowed(size) == size > 0 /\ size * StopLoss <= balance * PerTrade
DayLoss == SumOf(refused)
DayAllowed == DayLoss < balance * MaxDayLoss
DropAllowed == drop < DrawdownCap
RoomAllowed == Len(held) < MaxHeld
ExposureAllowed(size) == (SumOf(held) + size) * 100 <= MaxExposed * balance

Passes(size) ==
  /\ SizeAllowed(size) /\ RoomAllowed /\ DayAllowed /\ DropAllowed
  /\ ExposureAllowed(size)

Order(size, by) ==
  /\ asked' = [size |-> size, by |-> by, passed |-> Passes(size)]
  /\ IF Passes(size)
     THEN held' = Append(held, size) /\ UNCHANGED refused
     ELSE Len(refused) < MaxRefused /\ refused' = Append(refused, size) /\ UNCHANGED held
  /\ UNCHANGED <<balance, drop, stop>>

OrderBySize == Order(PositionSize(balance), "fixed")
OrderBySignals == \E q \in SeqOf(Voices, 2) : Order(DynamicSize(balance, q), "dynamic")

ClosePosition ==
  /\ held # <<>> /\ held' = Tail(held)
  /\ asked' = NoOrder
  /\ UNCHANGED <<balance, drop, refused, stop>>

Market ==
  /\ balance' \in Balances /\ drop' \in Falls
  /\ asked' = NoOrder
  /\ UNCHANGED <<held, refused, stop>>

Midnight ==
  /\ refused' = <<>> /\ asked' = NoOrder
  /\ UNCHANGED <<balance, drop, held, stop>>

(* apply_trailing_stop, in hundredths of the price unit; the caller keeps  *)
(* the highest price.                                                      *)
Trailing(entry, highest) ==
  IF (highest - entry) * 100 >= Activation * entry
  THEN highest * (100 - Trail) ELSE entry * (100 - Trail)

Enter ==
  /\ stop = NoStop
  /\ \E p \in Quotes : stop' = [entry |-> p, highest |-> p, at |-> Trailing(p, p)]
  /\ UNCHANGED <<balance, drop, held, refused, asked>>

PriceMoves ==
  /\ stop # NoStop
  /\ \E p \in Quotes :
       stop' = IF p * 100 <= stop.at THEN NoStop
               ELSE [entry |-> stop.entry, highest |-> Most(p, stop.highest),
                     at |-> Trailing(stop.entry, Most(p, stop.highest))]
  /\ UNCHANGED <<balance, drop, held, refused, asked>>

RiskNext ==
  \/ OrderBySize \/ OrderBySignals \/ ClosePosition \/ Market \/ Midnight
  \/ Enter \/ PriceMoves

RiskSpec == RiskInit /\ [][RiskNext]_riskVars

------------------------------------------------------------------------------
RiskTypeOK ==
  /\ balance \in Balances /\ Len(held) <= MaxHeld /\ Len(refused) <= MaxRefused
  /\ asked.passed \in BOOLEAN /\ stop.at <= stop.highest * 100

(* The halves of the risk rules agree: an order of the size that the       *)
(* engine calculates is never refused for its size; a size raised by       *)
(* agreeing signals passes only when its whole risk is still the one of a  *)
(* single trade; the engine's positions stay within the exposure that was  *)
(* allowed for a balance; and no price takes a stop below the first one.   *)
SizingAgrees ==
  /\ asked.by = "fixed" => SizeAllowed(asked.size)
  /\ asked.passed => asked.size * StopLoss <= balance * PerTrade
  /\ asked.passed => SumOf(held) * 100 <= MaxExposed * balance
  /\ stop # NoStop => stop.at >= stop.entry * (100 - Trail)
==============================================================================
