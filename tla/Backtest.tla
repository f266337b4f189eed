------------------------------ MODULE Backtest ------------------------------
(***************************************************************************)
(* A backtest: the candles are replayed in windows, the decision made on   *)
(* each window is filled at the candle's close by the simulator, and the   *)
(* snapshots and trades become the report.                                 *)
(*                                                                         *)
(* Models src/src/backtesting/engine.py, data_replay.py, simulator.py and  *)
(* metrics.py.  The decision is any: the decision engine has a module of   *)
(* its own.  Money is an integer; slippage is in ten-thousandths, the fee  *)
(* in thousandths, a size in Unit-ths.  What a position cost is what was   *)
(* allocated to it less the fee, which is size times entry price.          *)
(***************************************************************************)
EXTENDS Totals

CONSTANTS Closes,     \* the closing prices that may occur
          MaxCandles, \* bound: candles of the history
          Lookback,   \* candles in a window
          Capital,    \* initial_capital
          AllocPct,   \* allocation_pct, in hundredths
          FeePm,      \* fee_pct, in thousandths
          SlipBp      \* slippage_pct, in ten-thousandths

ASSUME BacktestAssumption ==
  /\ MaxCandles \in Nat \ {0} /\ Lookback \in Nat \ {0} /\ Capital \in Nat \ {0}
  /\ AllocPct \in 0..100 /\ FeePm \in 0..1000 /\ SlipBp \in 0..10000
  /\ Closes \subseteq Nat \ {0}

VARIABLES candles,   \* the closes of the history
          window,    \* the first and the last candle shown to the agents
          cash, position,
          trades, snapshots,
          reported   \* the result, once the run has ended

backtestVars == <<candles, window, cash, position, trades, snapshots, reported>>

(* So many parts has a size: what one unit of money buys is part of a size *)
(* at any price.                                                           *)
Unit == 25000
Flat == [size |-> 0, entry |-> 0, cost |-> 0, fee |-> 0, at |-> 0]
NotYet == [final |-> -1, fall |-> <<0, 1>>, wins |-> 0]

Invested == position.size > 0

BacktestInit ==
  /\ candles \in UNION {[1..n -> Closes] : n \in 1..MaxCandles}
  /\ window = <<0, 0>>
  /\ cash = Capital /\ position = Flat
  /\ trades = <<>> /\ snapshots = <<>> /\ reported = NotYet

(* stream(): nothing when there are fewer candles than one window needs. *)
Replays == Len(candles) >= Lookback
NextEnd == IF window[2] = 0 THEN Lookback ELSE window[2] + 1
HasWindow == Replays /\ NextEnd <= Len(candles)

WindowOf(last) == <<last - Lookback + 1, last>>

Close == candles[NextEnd]

BuyPrice(price) == price + (price * SlipBp) \div 10000
SellPrice(price) == price - (price * SlipBp) \div 10000
Fee(amount) == (amount * FeePm) \div 1000

ASSUME PriceAssumption == \A price \in Closes : BuyPrice(price) <= Unit

(* simulate_buy *)
Bought(price) ==
  LET alloc == (cash * AllocPct) \div 100
      net == alloc - Fee(alloc)
  IN  [size |-> (net * Unit) \div BuyPrice(price), entry |-> BuyPrice(price),
       cost |-> net, fee |-> Fee(alloc), at |-> NextEnd]

Buys(price) ==
  LET p == Bought(price) IN
  IF p.cost > 0
  THEN position' = p /\ cash' = cash - p.cost - p.fee
  ELSE UNCHANGED <<position, cash>>

Gross(price) == (position.size * SellPrice(price)) \div Unit

(* Fault: the profit leaves out the fee of the way out. *)
TradeWithoutFee(price, at) ==
  [opened |-> position.at, closed |-> at, pnl |-> Gross(price) - position.cost,
   fee |-> Fee(Gross(price)), paid |-> position.fee]

(* simulate_sell: fees is the fee of the way out; the fee paid on the way  *)
(* in, kept here as history, is in no trade's profit.                      *)
Trade(price, at) ==
  [opened |-> position.at, closed |-> at,
   pnl |-> Gross(price) - Fee(Gross(price)) - position.cost,
   fee |-> Fee(Gross(price)), paid |-> position.fee]

Sells(price, at) ==
  /\ trades' = Append(trades, Trade(price, at))
  /\ cash' = cash + Gross(price) - Fee(Gross(price))
  /\ position' = Flat

(* _update_portfolio_value, at the close and after the fill. *)
Worth(c, p, price) == c + (p.size * price) \div Unit

(* One window: decide, fill, take the snapshot. *)
Step(action) ==
  /\ reported = NotYet /\ HasWindow
  /\ window' = WindowOf(NextEnd)
  /\ \/ action = "buy" /\ ~Invested /\ Buys(Close) /\ UNCHANGED trades
     \/ action = "sell" /\ Invested /\ Sells(Close, NextEnd)
     \/ /\ ~(action = "buy" /\ ~Invested) /\ ~(action = "sell" /\ Invested)
        /\ UNCHANGED <<position, cash, trades>>
  /\ snapshots' = Append(snapshots,
       [worth |-> Worth(cash', position', Close), entry |-> position'.entry])
  /\ UNCHANGED <<candles, reported>>

(* _max_drawdown, as a fraction <<fall, peak>>. *)
Deeper(a, b) == a[1] * b[2] > b[1] * a[2]

(* One turn of the loop: the peak so far, and the deepest fall so far. *)
Deepen(acc, s) ==
  LET peak == IF s.worth > acc.peak THEN s.worth ELSE acc.peak
      fall == IF peak > 0 THEN <<peak - s.worth, peak>> ELSE <<0, 1>>
  IN  [peak |-> peak, worst |-> IF Deeper(fall, acc.worst) THEN fall ELSE acc.worst]

FirstWorth(q) == [peak |-> IF q = <<>> THEN 0 ELSE q[1].worth, worst |-> <<0, 1>>]

MaxDrawdown(q) == FoldLeft(Deepen, FirstWorth(q), q).worst

Wins(q) == Len(SelectSeq(q, LAMBDA t : t.pnl > 0))

(* finalize(): an open position is sold at the price in the last snapshot, *)
(* which is the position's own entry price; the value reported is the one  *)
(* that the last snapshot computed.                                        *)
LastWorth == IF snapshots = <<>> THEN Capital ELSE Last(snapshots).worth

Finalize ==
  /\ reported = NotYet /\ ~HasWindow
  /\ IF Invested
     THEN Sells(Last(snapshots).entry, window[2])
     ELSE UNCHANGED <<position, cash, trades>>
  /\ reported' = [final |-> LastWorth, fall |-> MaxDrawdown(snapshots), wins |-> Wins(trades')]
  /\ UNCHANGED <<candles, window, snapshots>>

BacktestNext == (\E action \in {"buy", "sell", "hold"} : Step(action)) \/ Finalize

BacktestSpec == BacktestInit /\ [][BacktestNext]_backtestVars

------------------------------------------------------------------------------
BacktestTypeOK ==
  /\ cash \in Nat /\ position.size \in Nat
  /\ window[1] <= window[2] /\ window[2] \in 0..Len(candles)

(* The books of a backtest balance: what is in cash and in the position at *)
(* its cost is the capital plus the profit of every trade less the fees of *)
(* every way in, a fee that the profit of a trade leaves out; the trades   *)
(* follow one another; the final value is the cash unless the report       *)
(* itself closed the last trade; and the drawdown found in one pass is the *)
(* deepest fall from any snapshot to a later one.                          *)
ClosedByReport ==
  trades # <<>> /\ snapshots # <<>> /\ Last(trades).closed = window[2] /\ Last(snapshots).entry > 0

Results == [i \in DOMAIN trades |-> trades[i].pnl - trades[i].paid]

BooksBalance ==
  /\ cash + position.cost + position.fee = Capital + SumOf(Results)
  /\ \A i \in DOMAIN trades :
       /\ trades[i].opened <= trades[i].closed
       /\ i > 1 => trades[i - 1].closed < trades[i].opened
  /\ reported # NotYet =>
       /\ reported.final = cash \/ ClosedByReport
       /\ \A i, j \in DOMAIN snapshots : i <= j =>
            ~Deeper(<<snapshots[i].worth - snapshots[j].worth, snapshots[i].worth>>, reported.fall)
       /\ reported.fall[1] > 0 => \E i, j \in DOMAIN snapshots :
            i < j /\ reported.fall = <<snapshots[i].worth - snapshots[j].worth, snapshots[i].worth>>

(* "No Look-Ahead Bias - Only exposes data available at each candle's      *)
(* timestamp" (docs/BACKTESTING.md:54): a window ends with the candle that *)
(* is traded on, and as many snapshots as windows were taken by then.      *)
NoLookAhead ==
  window # <<0, 0>> =>
    /\ window[2] = Lookback - 1 + Len(snapshots)
    /\ window[2] - window[1] = Lookback - 1

(* Backtests: the books balance, and no decision sees a later candle. *)
BacktestIsHonest == BooksBalance /\ NoLookAhead
==============================================================================
