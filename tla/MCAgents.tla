------------------------------ MODULE MCAgents ------------------------------
(***************************************************************************)
(* The inputs with which the agents are model-checked: signals, tickers,   *)
(* events, the configured strategies with readings that meet them, prices  *)
(* and the voices behind an order.                                         *)
(***************************************************************************)
EXTENDS Agents

-----------------------------------------------------------------------------
(* Inputs.                                                                 *)

Signal(market, source, action, confidence, at, priority) ==
    [market |-> market, source |-> source, action |-> action,
     confidence |-> confidence, at |-> at, priority |-> priority]

EmittedSignals == {
    Signal("BTC", "alpha", "buy", 100, 1, "immediate"),
    Signal("BTC", "alpha", "sell", 70, 2, "none"),
    Signal("ETH", "alpha", "sell", 100, 2, "immediate"),
    Signal("BTC", "technical", "buy", 100, 1, "none"),
    Signal("BTC", "technical", "hold", 80, 2, "none"),
    Signal("BTC", "technical", "sell", 60, 1, "none"),
    Signal("ETH", "technical", "buy", 70, 1, "none"),
    Signal("BTC", "momentum", "sell", 100, 1, "none")}

\* A price that rises and falls back, with more and more trading.
QuotedTickers == {<<100, 1>>, <<112, 2>>, <<104, 9>>}

Event(kind, from, to, flow) == [kind |-> kind, from |-> from, to |-> to, flow |-> flow]
\* Two whales that move the same amount, and two flows of one token.
WorldEvents == {
    Event("regulation", "", "", 0),
    Event("whale_movement", "x", "kraken", 1), Event("whale_movement", "okx", "x", 1),
    Event("onchain_netflow", "", "", -3), Event("onchain_netflow", "", "", 2)}
ForcedPriorities == [regulation |-> "immediate"]

OneSymbol == <<"BTC">>
ModelViews == {-10, -2, 0, 2, 10}

-----------------------------------------------------------------------------
(* The strategies of config/strategies, and readings that meet them.       *)

Is(indicator, rule) == [indicator |-> indicator, rule |-> rule]
More(condition, bonus) == [condition |-> condition, bonus |-> bonus]

ConfiguredStrategies == <<
    [name |-> "bullish_trend",
     entry |-> <<Is("EMA", "fast crosses slow"), Is("EMA 50/200", "fast > slow"),
                 Is("rsi", "50 to 70"), Is("Volume", 120)>>, minEntry |-> 3,
     exit |-> <<Is("EMA", "fast < slow"), Is("rsi", "< 40")>>, minExit |-> 1,
     base |-> 60, max |-> 95,
     boosters |-> <<More("volume > sma * 2", 15), More("price > ema200", 10), More("adx > 25", 10)>>],
    [name |-> "raising", entry |-> <<>>, minEntry |-> 1, exit |-> <<>>, minExit |-> 1,
     base |-> 50, max |-> 85, boosters |-> <<>>],
    [name |-> "mean_reversion",
     entry |-> <<Is("BollingerBands", "price <= lower"), Is("rsi", "< 30"),
                 Is("Stochastic", "k < 20 and k > d"), Is("Volume", 150)>>, minEntry |-> 2,
     exit |-> <<Is("BollingerBands", "price >= middle"), Is("rsi", "> 65")>>, minExit |-> 1,
     base |-> 50, max |-> 85,
     boosters |-> <<More("rsi < 25", 15), More("price < lower * 0.99", 10),
                    More("volume > sma * 2", 10)>>],
    [name |-> "volume_breakout",
     entry |-> <<Is("DonchianChannel", "price >= upper"), Is("Volume", 200),
                 Is("atr", "expanding"), Is("macd", "rising")>>, minEntry |-> 3,
     exit |-> <<Is("DonchianChannel", "price <= middle"), Is("macd", "falling")>>, minExit |-> 1,
     base |-> 55, max |-> 90,
     boosters |-> <<More("volume > sma * 3", 15), More("consolidation", 15)>>],
    [name |-> "sentiment", entry |-> <<Is("SentimentScore", "> 0.5"), Is("SocialVolume", "rising")>>,
     minEntry |-> 2, exit |-> <<Is("SentimentScore", "< 0")>>, minExit |-> 1,
     base |-> 45, max |-> 80, boosters |-> <<>>]>>

TwoTimeframes == <<"1h", "4h">>

Reading(trend, rsi, band, channel, volume, k) ==
    [fast |-> trend[1], slow |-> trend[2], ema200 |-> trend[3], rsi |-> rsi,
     price |-> band[1], lower |-> band[2], middle |-> band[3],
     upper |-> channel[1], bottom |-> channel[2], volume |-> volume, sma |-> 10,
     macd |-> IF trend[1] > trend[2] THEN 1 ELSE -1, atr |-> 1,
     k |-> k, d |-> k - 5, adx |-> 30]

IndicatorReadings == {
    Reading(<<9, 11, 12>>, 45, <<90, 80, 100>>, <<130, 60>>, 9, 50),
    Reading(<<12, 11, 10>>, 60, <<110, 80, 100>>, <<110, 80>>, 35, 50),
    Reading(<<9, 11, 12>>, 20, <<70, 80, 100>>, <<130, 90>>, 25, 10)}

-----------------------------------------------------------------------------
ClosingPrices == {10000, 10025, 20000}

Voice(action, confidence, source, priority) ==
    [action |-> action, confidence |-> confidence, source |-> source, priority |-> priority]
GivenVoices == {
    Voice("buy", 90, "alpha", "immediate"), Voice("sell", 60, "technical", "none"),
    Voice("hold", 50, "alpha", "high"), Voice("buy", 70, "technical", "none")}
=============================================================================
