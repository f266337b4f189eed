---------------------------- MODULE NewsSentiment ----------------------------
(***************************************************************************)
(* The sentiment agent, one symbol after another: news from two services,  *)
(* the crowd's mood and volume, the view of the language model or the rule *)
(* it falls back to, and the signal made of them.                          *)
(*                                                                         *)
(* Models src/src/agents/news_sentiment.py with src/src/data/news.py and   *)
(* src/src/data/social.py.  The services are external.  News are counted   *)
(* by their mood; a view, a mood and the score are in tenths, hundredths   *)
(* and thousandths of the code's -1.0 to 1.0.                              *)
(***************************************************************************)
EXTENDS Integers, Sequences

CONSTANTS Symbols,  \* the symbols analysed, in order
          MinNews,  \* min_news_count
          MaxNews,  \* bound: news of one mood from one service
          Views     \* what the language model may answer, in tenths

(* The answer of the model is clamped to -1.0 .. 1.0. *)
ASSUME SentimentAssumption ==
  /\ MinNews \in Nat \ {0} /\ MaxNews \in Nat /\ Symbols \in Seq(STRING)
  /\ Views \subseteq -10..10

VARIABLES turn,   \* the symbol analysed now
          stage,  \* how far its analysis is
          news,   \* its news so far: how many good, neutral and bad
          crowd,  \* its social data: mood in tenths, volume of mentions
          signals \* the signals of the run

sentimentVars == <<turn, stage, news, crowd, signals>>

NoNews == [good |-> 0, neutral |-> 0, bad |-> 0]
NoCrowd == [mood |-> 0, volume |-> 0]

(* A symbol's analysis begins with its news, and the run is over after the last. *)
StageFrom(t) == IF t <= Len(Symbols) THEN "panic" ELSE "over"

SentimentInit ==
  /\ turn = 1 /\ stage = StageFrom(1) /\ news = NoNews /\ crowd = NoCrowd /\ signals = <<>>

Go(at) == stage' = at /\ UNCHANGED turn

(* get_crypto_news: without a key, after an error and after a status it    *)
(* cannot use, no news; headlines that the screening stops are not counted. *)
FetchCryptoPanic ==
  /\ stage = "panic"
  /\ \E g, n, b \in 0..MaxNews : news' = [good |-> g, neutral |-> n, bad |-> b]
  /\ Go("search")
  /\ UNCHANGED <<crowd, signals>>

(* search_news: its articles carry no mood. *)
SearchNews ==
  /\ stage = "search"
  /\ \E n \in 0..MaxNews : news' = [news EXCEPT !.neutral = @ + n]
  /\ Go("mood")
  /\ UNCHANGED <<crowd, signals>>

(* get_sentiment: up against down in the latest post; none without a key,  *)
(* after an error, and when nobody votes.                                  *)
Mood(up, down) == IF up + down = 0 THEN 0 ELSE ((up - down) * 10) \div (up + down)

FetchSentiment ==
  /\ stage = "mood"
  /\ \E votes \in {<<0, 0>>, <<1, 0>>, <<0, 1>>, <<3, 1>>, <<1, 3>>} :
       crowd' = [crowd EXCEPT !.mood = Mood(votes[1], votes[2])]
  /\ Go("volume")
  /\ UNCHANGED <<news, signals>>

FetchVolume ==
  /\ stage = "volume"
  /\ \E v \in {0, 1000, 1250, 10000, 20000} : crowd' = [crowd EXCEPT !.volume = v]
  /\ Go("view")
  /\ UNCHANGED <<news, signals>>

Count == news.good + news.neutral + news.bad

(* The rule: six parts the mean mood of the news (0.8, 0 or -0.8), four    *)
(* parts the crowd's; in hundredths, times the number of news.             *)
RuleTimes == 6 * 8 * (news.good - news.bad) + 4 * crowd.mood * Count

(* The view that the score is made of, in hundredths, times the news: the  *)
(* language model's, or the rule's.  The rule has no confidence when the   *)
(* model failed or had none, and 0.3 when there is no model to ask.        *)
ModelsViews == [by : {"model"}, score : Views, confidence : {40, 100}]
RulesViews == [by : {"rule"}, score : {0}, confidence : {0, 30}]
ViewTimes(view) == IF view.by = "rule" THEN RuleTimes ELSE 10 * view.score * Count

Volume == IF crowd.volume >= 10000 THEN 10000 ELSE crowd.volume

(* Fault: no mention at all counts as nothing. *)
ScoreVolumeFromZero(view) ==
  4 * ViewTimes(view) + 250 * (2 * news.good - Count) + (Volume \div 50) * Count

(* 0.40 view, 0.25 good news, 0.20 volume and 0.15 a fear and greed index  *)
(* that stands at its middle; in thousandths, times the number of news.    *)
Score(view) ==
  4 * ViewTimes(view) + 250 * (2 * news.good - Count) + (Volume \div 25 - 200) * Count

ActionOf(view) ==
  CASE Count < MinNews -> "hold"
    [] Count >= MinNews /\ Score(view) >= 500 * Count -> "buy"
    [] Count >= MinNews /\ Score(view) <= -500 * Count -> "sell"
    [] OTHER -> "hold"

(* Half the view's confidence and half the news over fifty, in hundredths. *)
SignalConfidence(view) ==
  LET c == view.confidence \div 2 + Count IN
  IF Count < MinNews THEN 0 ELSE IF c > 95 THEN 95 ELSE c

(* The view comes and the signal is made: the last step of a symbol. *)
Analyze(view) ==
  /\ stage = "view"
  /\ signals' = Append(signals, [symbol |-> Symbols[turn], action |-> ActionOf(view),
                                 confidence |-> SignalConfidence(view),
                                 view |-> ViewTimes(view), volume |-> crowd.volume])
  /\ turn' = turn + 1
  /\ stage' = StageFrom(turn + 1)
  /\ news' = NoNews /\ crowd' = NoCrowd

(* An exception in one symbol's analysis: no signal, and the next symbol. *)
AnalysisFails ==
  /\ stage # "over"
  /\ turn' = turn + 1
  /\ stage' = StageFrom(turn + 1)
  /\ news' = NoNews /\ crowd' = NoCrowd
  /\ UNCHANGED signals

SentimentNext ==
  \/ FetchCryptoPanic \/ SearchNews \/ FetchSentiment \/ FetchVolume
  \/ \E view \in ModelsViews \cup RulesViews : Analyze(view)
  \/ AnalysisFails

SentimentSpec == SentimentInit /\ [][SentimentNext]_sentimentVars

------------------------------------------------------------------------------
SentimentTypeOK ==
  /\ turn \in 1..(Len(Symbols) + 1)
  /\ stage \in {"panic", "search", "mood", "volume", "view", "over"}
  /\ news \in [good : 0..MaxNews, neutral : 0..(2 * MaxNews), bad : 0..MaxNews]
  /\ Len(signals) <= Len(Symbols)

(* The weights and the thresholds together: a signal to buy or to sell is  *)
(* never made against the view of the model or of the rule, nor without    *)
(* one, whatever the news, the crowd and their failures are.               *)
DirectionNeedsAView ==
  \A i \in DOMAIN signals :
    /\ signals[i].action = "buy" => signals[i].view > 0
    /\ signals[i].action = "sell" => signals[i].view < 0

(* A volume of zero counts as -0.2 of the score, so that the best view and *)
(* the best news reach 0.45: no signal to buy is made with fewer than 1250 *)
(* mentions, and none at all where the social service is off or fails.     *)
BuyNeedsACrowd ==
  \A i \in DOMAIN signals : signals[i].action = "buy" => signals[i].volume >= 1250

(* The weights of the score leave no way to trade on part of the evidence. *)
ScoreIsGrounded == DirectionNeedsAView /\ BuyNeedsACrowd
==============================================================================
