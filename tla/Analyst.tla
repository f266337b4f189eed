------------------------------- MODULE Analyst -------------------------------
(***************************************************************************)
(* The technical analyst: for a symbol, one timeframe after another is     *)
(* fetched and read, every strategy judges the reading, and signals that   *)
(* agree are boosted.                                                      *)
(*                                                                         *)
(* Models src/src/agents/analyst.py.  Prices, indicators and volumes are   *)
(* integers; confidences and ratios are in hundredths.  The arithmetic of  *)
(* the indicators is the ta library's and external: a reading is one of    *)
(* Readings, with Missing for what raised or came out as NaN.              *)
(***************************************************************************)
EXTENDS Integers, Sequences, SequencesExt, FiniteSets, FiniteSetsExt

CONSTANTS Timeframes,  \* the timeframes, in the order they are read
          Strategies,  \* the enabled strategies, in the order of their files
          Readings,    \* the indicator values that candles may give
          Broken,      \* strategies whose evaluation raises
          MaxLapses,   \* bound: calculations that fail in one reading
          MtfBoost     \* confirmation_boost, in hundredths

(* What a reading has: the price, the volume and the indicators. *)
ReadingFields ==
  {"price", "volume", "sma", "fast", "slow", "ema200", "rsi", "lower", "middle", "upper",
   "bottom", "macd", "atr", "k", "d", "adx"}

(* A strategy has the conditions of its entry and its exit, with how many  *)
(* of each must hold, and confidences between nought and one.              *)
IsStrategy(s) ==
  /\ s.name \in STRING /\ s.base \in 0..100 /\ s.max \in 0..100
  /\ s.boosters \in Seq([condition : STRING, bonus : Nat])
  /\ IsFiniteSet(DOMAIN s.entry) /\ s.minEntry \in Nat
  /\ IsFiniteSet(DOMAIN s.exit) /\ s.minExit \in Nat

(* Timeframes differ, and no two strategy files have one name. *)
ASSUME AnalystAssumption ==
  /\ MtfBoost \in Nat /\ MaxLapses \in Nat
  /\ Timeframes \in Seq(STRING)
  /\ \A i, j \in DOMAIN Timeframes : Timeframes[i] = Timeframes[j] => i = j
  /\ Len(Strategies) \in Nat /\ DOMAIN Strategies = 1..Len(Strategies)
  /\ \A i \in DOMAIN Strategies : IsStrategy(Strategies[i])
  /\ \A i, j \in DOMAIN Strategies : Strategies[i].name = Strategies[j].name => i = j
  /\ \A r \in Readings : DOMAIN r = ReadingFields /\ \A f \in ReadingFields : r[f] \in Int

VARIABLES frame,   \* the timeframe whose turn it is
          read,    \* timeframe -> the reading it gave, or that it gave none
          emitted  \* the signals of this symbol

analystVars == <<frame, read, emitted>>

Missing == -999
NoReading == [price |-> Missing]

AnalystInit ==
  /\ frame = 1 /\ emitted = <<>>
  /\ read = [t \in DOMAIN Timeframes |-> NoReading]

(* What each calculation of an indicator leaves out when it raises or ends *)
(* in NaN; the average of 200 is NaN with fewer candles than that.  They   *)
(* fail independently of one another.                                      *)
Calculations ==
  {{"rsi"}, {"macd"}, {"ema200"}, {"fast", "slow", "ema200"}, {"lower", "middle"},
   {"atr"}, {"sma"}, {"d"}, {"k", "d"}, {"adx"}, {"upper", "bottom"}}

Lapses == {UNION failed : failed \in UNION {kSubset(n, Calculations) : n \in 0..MaxLapses}}

ComputedFrom(r, lapse) == [f \in DOMAIN r |-> IF f \in lapse THEN Missing ELSE r[f]]

(* What a condition compares; it does not hold when one of them is missing *)
(* (a stochastic without its average is compared without it).              *)
Needs(indicator) ==
  CASE indicator = "EMA" -> {"fast", "slow"}
    [] indicator = "EMA 50/200" -> {"slow", "ema200"}
    [] indicator = "BollingerBands" -> {"lower", "middle", "price"}
    [] indicator = "Volume" -> {"volume", "sma"}
    [] indicator = "DonchianChannel" -> {"upper", "bottom", "price"}
    [] indicator = "Stochastic" -> {"k"}
    [] indicator \in {"rsi", "macd", "atr", "adx"} -> {indicator}
    [] OTHER -> {}

(* The texts that _evaluate_condition recognises; another one never holds. *)
(* A crossover is the relation alone: the value before is not looked at.   *)
Compared(indicator, rule, r) ==
  CASE indicator = "EMA" /\ rule \in {"fast crosses slow", "fast > slow"} -> r.fast > r.slow
    [] indicator = "EMA" /\ rule = "fast < slow" -> r.fast < r.slow
    [] indicator = "EMA 50/200" /\ rule = "fast > slow" -> r.slow > r.ema200
    [] indicator = "rsi" /\ rule = "50 to 70" -> r.rsi > 50 /\ r.rsi < 70
    [] indicator = "rsi" /\ rule = "50 to 65" -> r.rsi > 50 /\ r.rsi < 65
    [] indicator = "rsi" /\ rule = "< 25" -> r.rsi < 25
    [] indicator = "rsi" /\ rule = "< 30" -> r.rsi < 30
    [] indicator = "rsi" /\ rule = "< 40" -> r.rsi < 40
    [] indicator = "rsi" /\ rule = "> 65" -> r.rsi > 65
    [] indicator = "rsi" /\ rule = "> 75" -> r.rsi > 75
    [] indicator = "BollingerBands" /\ rule = "price <= lower" -> r.price <= r.lower
    [] indicator = "BollingerBands" /\ rule = "price >= middle" -> r.price >= r.middle
    [] indicator = "BollingerBands" /\ rule = "price < lower * 0.99" ->
         r.price * 100 < r.lower * 99
    [] indicator = "Volume" /\ rule \in {120, 130, 150, 200, 300} ->
         r.sma # 0 /\ r.volume * 100 > r.sma * rule
    [] indicator = "DonchianChannel" /\ rule = "price >= upper" -> r.price >= r.upper
    [] indicator = "DonchianChannel" /\ rule = "price <= middle" -> r.price * 2 <= r.upper + r.bottom
    [] indicator = "macd" /\ rule = "rising" -> r.macd > 0
    [] indicator = "macd" /\ rule = "falling" -> r.macd < 0
    [] indicator = "atr" -> rule = "expanding"
    [] indicator = "Stochastic" /\ rule = "k < 20 and k > d" ->
         r.k < 20 /\ (r.d = Missing \/ r.k > r.d)
    [] indicator = "adx" /\ rule = "> 25" -> r.adx > 25
    [] OTHER -> FALSE

Holds(c, r) ==
  /\ \A field \in Needs(c.indicator) : r[field] # Missing
  /\ Compared(c.indicator, c.rule, r)

Hits(conditions, r) == Cardinality({i \in DOMAIN conditions : Holds(conditions[i], r)})

(* A booster is skipped also when what it compares is zero. *)
Present(r, field) == r[field] \notin {Missing, 0}

BoosterApplies(condition, r) ==
  CASE condition = "volume > sma * 2" ->
         Present(r, "volume") /\ Present(r, "sma") /\ r.volume > 2 * r.sma
    [] condition = "volume > sma * 3" ->
         Present(r, "volume") /\ Present(r, "sma") /\ r.volume > 3 * r.sma
    [] condition = "price > ema200" ->
         Present(r, "ema200") /\ Present(r, "price") /\ r.price > r.ema200
    [] condition = "adx > 25" -> Present(r, "adx") /\ r.adx > 25
    [] condition = "rsi < 25" -> Present(r, "rsi") /\ r.rsi < 25
    [] condition = "price < lower * 0.99" ->
         Present(r, "lower") /\ Present(r, "price") /\ r.price * 100 < r.lower * 99
    [] OTHER -> FALSE

Boosted(s, r) ==
  FoldLeft(LAMBDA c, b : IF BoosterApplies(b.condition, r) THEN c + b.bonus ELSE c,
           s.base, s.boosters)

EntryConfidence(s, r) == IF Boosted(s, r) > s.max THEN s.max ELSE Boosted(s, r)

(* The entry is judged before the exit: where both are met, a buy. *)
Judge(s, r, t) ==
  LET Make(action, confidence) ==
        [strategy |-> s.name, frame |-> t, action |-> action,
         confidence |-> confidence, boosted |-> FALSE]
  IN  CASE Hits(s.entry, r) >= s.minEntry -> <<Make("buy", EntryConfidence(s, r))>>
        [] Hits(s.entry, r) < s.minEntry /\ Hits(s.exit, r) >= s.minExit ->
             <<Make("sell", s.base)>>
        [] OTHER -> <<>>

(* Fault: a strategy that raises silences those after it. *)
JudgedUntilBroken(q, r, t) ==
  LET sound == {i \in DOMAIN Strategies : \A j \in 1..i : Strategies[j].name \notin Broken}
  IN  FoldLeft(LAMBDA said, i : said \o Judge(Strategies[i], r, t), q, [i \in sound |-> i])

(* A strategy that raises is logged and the next one is judged. *)
Judged(q, r, t) ==
  FoldLeft(LAMBDA said, s : IF s.name \in Broken THEN said ELSE said \o Judge(s, r, t),
           q, Strategies)

(* Two signals of one action, and any two timeframes among all of the      *)
(* signals, make the confirmation.                                         *)
Frames(q) == {q[i].frame : i \in DOMAIN q}

Confirms(action, q) ==
  /\ Cardinality({i \in DOMAIN q : q[i].action = action}) > 1
  /\ Cardinality(Frames(q)) > 1

(* Fault: the boost has no cap. *)
ConfirmedUncapped(q) ==
  [i \in DOMAIN q |->
    IF Confirms(q[i].action, q)
    THEN [q[i] EXCEPT !.boosted = TRUE, !.confidence = @ + MtfBoost]
    ELSE q[i]]

Confirmed(q) ==
  [i \in DOMAIN q |->
    IF Confirms(q[i].action, q)
    THEN [q[i] EXCEPT !.boosted = TRUE,
                      !.confidence = IF @ + MtfBoost > 95 THEN 95 ELSE @ + MtfBoost]
    ELSE q[i]]

(* The last timeframe is followed by the confirmation. *)
Passed(q) ==
  /\ frame' = frame + 1
  /\ emitted' = IF frame = Len(Timeframes) THEN Confirmed(q) ELSE q

ReadTimeframe ==
  /\ frame <= Len(Timeframes)
  /\ \E candles \in Readings, lapse \in Lapses :
       LET r == ComputedFrom(candles, lapse) IN
       /\ read' = [read EXCEPT ![frame] = r]
       /\ Passed(Judged(emitted, r, Timeframes[frame]))

(* Fewer than 50 candles, or the source raises: the next timeframe. *)
SkipTimeframe ==
  /\ frame <= Len(Timeframes)
  /\ Passed(emitted)
  /\ UNCHANGED read

(* The next symbol, or the next cycle. *)
NextSymbol ==
  /\ frame > Len(Timeframes)
  /\ frame' = 1 /\ emitted' = <<>>
  /\ read' = [t \in DOMAIN Timeframes |-> NoReading]

AnalystNext == ReadTimeframe \/ SkipTimeframe \/ NextSymbol

AnalystSpec == AnalystInit /\ [][AnalystNext]_analystVars

------------------------------------------------------------------------------
AnalystTypeOK ==
  /\ frame \in 1..(Len(Timeframes) + 1)
  /\ \A i \in DOMAIN emitted :
       /\ emitted[i].action \in {"buy", "sell"} /\ emitted[i].boosted \in BOOLEAN
       /\ emitted[i].confidence \in 0..100

Places(q, t, name) == {i \in DOMAIN q : q[i].frame = t /\ q[i].strategy = name}

(* What fails, a timeframe or a strategy, takes nobody else's signal away, *)
(* and a boost takes none: every sound strategy has its say, once, on      *)
(* every timeframe that was read, whatever happened before and after.      *)
FailureIsContained ==
  \A t \in DOMAIN Timeframes, i \in DOMAIN Strategies :
    Cardinality(Places(emitted, Timeframes[t], Strategies[i].name)) =
      IF read[t] # NoReading /\ Strategies[i].name \notin Broken
      THEN Len(Judge(Strategies[i], read[t], Timeframes[t])) ELSE 0

(* An indicator that could not be computed is no evidence: behind every    *)
(* signal stand as many conditions as its strategy demands whose values    *)
(* were all there, and a strategy of other indicators is silent.           *)
WithValues(conditions, r) ==
  {i \in DOMAIN conditions : \A field \in Needs(conditions[i].indicator) :
                               field \in DOMAIN r /\ r[field] # Missing}

EvidenceIsThere ==
  \A t \in DOMAIN Timeframes, j \in DOMAIN Strategies :
    LET s == Strategies[j] IN
    \A i \in Places(emitted, Timeframes[t], s.name) :
      IF emitted[i].action = "buy"
      THEN Cardinality(WithValues(s.entry, read[t])) >= s.minEntry
      ELSE Cardinality(WithValues(s.exit, read[t])) >= s.minExit

(* A signal of the analyst stands on its own reading, however many others  *)
(* failed or were boosted beside it.                                       *)
SignalsStand == FailureIsContained /\ EvidenceIsThere
==============================================================================
