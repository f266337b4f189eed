--------------------------- MODULE Clients_proofs ---------------------------
(***************************************************************************)
(* Proofs about the clients of the outside world: FreqtradeClient, for any *)
(* set of requests and any number of retries; LLMGateway, for any sources, *)
(* attempts and calls; MarketData, for any askers, keys and times.         *)
(***************************************************************************)
EXTENDS FreqtradeClient, LLMGateway, MarketData, TLAPS

------------------------------------------------------------------------------
(* The client of the trading bot.                                          *)

Wires == {"idle", "sent", "good", "timeout", "broken", "server", "limited", "refused", "over"}

Acts == [by : Requests, payload : {Payload(w) : w \in Wants \cup {NoWant}}]

ActedFor(r) == \E i \in DOMAIN done : done[i].by = r

(* The inductive invariant.  The bot acts at the moment it answers, so that *)
(* a request that is still to be served, or was turned away, has no act to  *)
(* its name; and nothing has ended before the wire is over.                 *)

WireType ==
  /\ wire \in [Requests -> Wires] /\ want \in [Requests -> Wants \cup {NoWant}]
  /\ ended \in [Requests -> {None, "answer", "pong", "no pong", "FreqtradeAPIError",
                             "AttributeError"}]
  /\ done \in Seq(Acts)

UnservedDidNothing ==
  \A r \in Requests : wire[r] \in {"idle", "sent", "limited", "refused"} => ~ActedFor(r)

GoodMeansDone ==
  \A r \in Requests : wire[r] = "good" /\ Changing(want[r]) => ActedFor(r)

EndedWhenOver == \A r \in Requests : wire[r] # "over" => ended[r] = None

AnsweredMeansDone ==
  \A r \in Requests : ended[r] = "answer" /\ Changing(want[r]) => ActedFor(r)

ClientIInv ==
  /\ WireType /\ UnservedDidNothing /\ GoodMeansDone
  /\ EndedWhenOver /\ AnsweredMeansDone /\ ActsAtMostOnce

------------------------------------------------------------------------------
LEMMA ClientInitIInv == ClientInit => ClientIInv
  BY DEF ClientInit, ClientIInv, WireType, Wires, UnservedDidNothing, GoodMeansDone, EndedWhenOver,
         AnsweredMeansDone, ActsAtMostOnce, ActedFor, NoWant, None

LEMMA AskIInv ==
    ASSUME ClientIInv, NEW r \in Requests, Ask(r)
    PROVE  ClientIInv'
  <1> USE DEF ClientIInv, Ask
  <1>1. PICK w \in Wants : want' = [want EXCEPT ![r] = w]
    OBVIOUS
  <1>2. \A x \in Requests : ActedFor(x)' <=> ActedFor(x)
    BY DEF ActedFor
  <1>3. \A x \in Requests \ {r} : wire'[x] = wire[x] /\ want'[x] = want[x]
    BY <1>1 DEF WireType
  <1>4. ~ActedFor(r) /\ ended[r] = None /\ wire'[r] = "sent"
    BY DEF UnservedDidNothing, EndedWhenOver, WireType
  <1>5. WireType'
    BY <1>1 DEF WireType, Wires
  <1>6. UnservedDidNothing' /\ EndedWhenOver'
    BY <1>2, <1>3, <1>4 DEF UnservedDidNothing, EndedWhenOver
  <1>7. GoodMeansDone'
    BY <1>2, <1>3, <1>4 DEF GoodMeansDone
  <1>8. AnsweredMeansDone'
    BY <1>2, <1>3, <1>4 DEF AnsweredMeansDone, None
  <1>9. ActsAtMostOnce'
    BY DEF ActsAtMostOnce
  <1> QED
    BY <1>5, <1>6, <1>7, <1>8, <1>9

(* The bot acts and the request is no longer the one to be served. *)
LEMMA ActIInv ==
    ASSUME ClientIInv, NEW r \in Requests, wire[r] = "sent",
           NEW answer \in {"good", "timeout", "broken", "server"},
           wire' = [wire EXCEPT ![r] = answer], done' = CarriedOut(r),
           UNCHANGED <<want, attempt, ended>>
    PROVE  ClientIInv'
  <1> DEFINE entry == [by |-> r, payload |-> Payload(want[r])]
  <1>1. entry \in Acts
    BY DEF ClientIInv, WireType, Acts
  <1>2. entry.by = r /\ done' = Append(done, entry)
    BY DEF CarriedOut
  <1> HIDE DEF entry
  <1>3. done \in Seq(Acts)
    BY DEF ClientIInv, WireType
  <1>4. /\ done' \in Seq(Acts)
        /\ DOMAIN done' = 1..(Len(done) + 1) /\ DOMAIN done = 1..Len(done)
        /\ done'[Len(done) + 1] = entry /\ Len(done) \in Nat
        /\ \A i \in DOMAIN done : done'[i] = done[i]
    BY <1>1, <1>2, <1>3
  <1>5. WireType'
    BY <1>4 DEF ClientIInv, WireType, Wires
  <1>6. \A x \in Requests : ActedFor(x)' <=> ActedFor(x) \/ x = r
    BY <1>2, <1>4 DEF ActedFor
  <1>7. UnservedDidNothing' /\ GoodMeansDone' /\ EndedWhenOver' /\ AnsweredMeansDone'
    BY <1>6 DEF ClientIInv, WireType, UnservedDidNothing, GoodMeansDone, EndedWhenOver,
                AnsweredMeansDone
  <1>8. ActsAtMostOnce'
    <2>1. \A i \in DOMAIN done : done[i].by # r
      BY DEF ClientIInv, UnservedDidNothing, ActedFor
    <2> QED
      BY <1>2, <1>4, <2>1 DEF ClientIInv, ActsAtMostOnce
  <1> QED
    BY <1>5, <1>7, <1>8 DEF ClientIInv

(* The bot answers without having acted. *)
LEMMA NoActIInv ==
    ASSUME ClientIInv, NEW r \in Requests, wire[r] = "sent",
           NEW answer \in {"good", "timeout", "broken", "server", "limited", "refused"},
           answer # "good" \/ ~Changing(want[r]),
           wire' = [wire EXCEPT ![r] = answer], UNCHANGED <<want, attempt, done, ended>>
    PROVE  ClientIInv'
  <1>1. WireType' /\ EndedWhenOver'
    BY DEF ClientIInv, WireType, Wires, EndedWhenOver
  <1>2. ActsAtMostOnce' /\ AnsweredMeansDone' /\ \A q \in Requests : ActedFor(q)' <=> ActedFor(q)
    BY DEF ClientIInv, ActsAtMostOnce, AnsweredMeansDone, ActedFor
  <1>3. ~ActedFor(r)
    BY DEF ClientIInv, UnservedDidNothing
  <1>4. \A q \in Requests : wire'[q] = IF q = r THEN answer ELSE wire[q]
    BY DEF ClientIInv, WireType
  <1>5. UnservedDidNothing'
    BY <1>2, <1>3, <1>4 DEF ClientIInv, UnservedDidNothing
  <1>6. GoodMeansDone'
    BY <1>2, <1>4 DEF ClientIInv, GoodMeansDone
  <1> QED
    BY <1>1, <1>2, <1>5, <1>6 DEF ClientIInv

LEMMA ServeIInv ==
    ASSUME ClientIInv, NEW r \in Requests,
           NEW answer \in {"good", "timeout", "broken", "server", "limited", "refused"},
           Serve(r, answer)
    PROVE  ClientIInv'
  <1>1. CASE answer \in {"good", "timeout", "broken", "server"} /\ done' = CarriedOut(r)
    BY <1>1, ActIInv DEF Serve
  <1>2. CASE (answer # "good" \/ ~Changing(want[r])) /\ UNCHANGED done
    BY <1>2, NoActIInv DEF Serve
  <1> QED
    BY <1>1, <1>2 DEF Serve

(* However a call ends, only a good answer is returned as one. *)
LEMMA ReturnIInv ==
    ASSUME ClientIInv, NEW r \in Requests, wire[r] \notin {"idle", "sent", "over"},
           NEW result \in {"answer", "FreqtradeAPIError", "AttributeError"},
           result = "answer" => wire[r] = "good", Return(r, result)
    PROVE  ClientIInv'
  <1>1. PICK told \in {"answer", "pong", "no pong", "FreqtradeAPIError", "AttributeError"} :
          /\ told = "answer" => wire[r] = "good"
          /\ wire' = [wire EXCEPT ![r] = "over"] /\ ended' = [ended EXCEPT ![r] = told]
          /\ UNCHANGED <<want, attempt, done>>
    BY DEF Return
  <1>2. WireType' /\ EndedWhenOver'
    BY <1>1 DEF ClientIInv, WireType, Wires, EndedWhenOver, None
  <1>3. ActsAtMostOnce' /\ \A q \in Requests : ActedFor(q)' <=> ActedFor(q)
    BY <1>1 DEF ClientIInv, ActsAtMostOnce, ActedFor
  <1>4. \A q \in Requests : /\ wire'[q] = IF q = r THEN "over" ELSE wire[q]
                            /\ ended'[q] = IF q = r THEN told ELSE ended[q]
    BY <1>1 DEF ClientIInv, WireType
  <1>5. UnservedDidNothing' /\ GoodMeansDone'
    <2>1. ASSUME NEW q \in Requests, wire'[q] \in {"idle", "sent", "limited", "refused"}
          PROVE  ~ActedFor(q)'
      <3>1. wire'[q] = wire[q]
        BY <1>4, <2>1
      <3> QED
        BY <1>3, <2>1, <3>1 DEF ClientIInv, UnservedDidNothing
    <2>2. ASSUME NEW q \in Requests, wire'[q] = "good", Changing(want[q])
          PROVE  ActedFor(q)'
      <3>1. wire'[q] = wire[q]
        BY <1>4, <2>2
      <3> QED
        BY <1>3, <2>2, <3>1 DEF ClientIInv, GoodMeansDone
    <2>3. \A q \in Requests : Changing(want[q])' <=> Changing(want[q])
      BY <1>1 DEF Changing
    <2> QED
      BY <2>1, <2>2, <2>3 DEF UnservedDidNothing, GoodMeansDone
  <1>6. AnsweredMeansDone'
    BY <1>1, <1>3, <1>4 DEF ClientIInv, GoodMeansDone, AnsweredMeansDone
  <1> QED
    BY <1>2, <1>3, <1>5, <1>6 DEF ClientIInv

LEMMA AttemptIInv ==
    ASSUME ClientIInv, NEW r \in Requests, Attempt(r)
    PROVE  ClientIInv'
  <1>1. \/ Return(r, "answer") /\ wire[r] = "good"
        \/ Return(r, "AttributeError") /\ wire[r] \notin {"idle", "sent", "over"}
        \/ Return(r, "FreqtradeAPIError") /\ wire[r] \notin {"idle", "sent", "over"}
    BY DEF Attempt, BackOff, Retried
  <1> QED
    BY <1>1, ReturnIInv

LEMMA ClientNextIInv ==
    ASSUME ClientIInv, [ClientNext]_clientVars
    PROVE  ClientIInv'
  <1>1. CASE UNCHANGED clientVars
    BY <1>1 DEF clientVars, ClientIInv, WireType, UnservedDidNothing, GoodMeansDone, EndedWhenOver,
                AnsweredMeansDone, ActsAtMostOnce, ActedFor
  <1>2. CASE ClientNext
    BY <1>2, AskIInv, ServeIInv, AttemptIInv DEF ClientNext
  <1> QED
    BY <1>1, <1>2

------------------------------------------------------------------------------
(* What the bot did and what its callers are told is in step with the wire *)
(* at all times.                                                           *)
THEOREM ClientInvariant == ClientSpec => []ClientIInv
  BY ClientInitIInv, ClientNextIInv, PTL DEF ClientSpec

(* However answers get lost, a call makes the bot act once at most, an     *)
(* answer means that it acted, and a refusal that it did not               *)
(* (client.py:102).                                                        *)
THEOREM ClientTruth == ClientSpec => []ClientIsTrue
  <1>1. ClientIInv => ClientIsTrue
    BY DEF ClientIInv, WireType, UnservedDidNothing, AnsweredMeansDone, ActedFor, ClientIsTrue,
           AnswerIsTrue
  <1> QED
    BY <1>1, ClientInvariant, PTL

------------------------------------------------------------------------------
(* The gateway to the models.                                              *)

(* The inductive invariant.  The attempts are counted up to Tries, a call  *)
(* that has not been let through, or was turned away, has no answer and    *)
(* has shown nothing, and one that is let through is not severe.           *)

Levels == {"safe", "low", "medium", "high", "critical"}

Forms == {"nothing", "wrapped", "raw"}
Stages == {"idle", "prompt", "ask", "over", "raised", "unread"}
Scores == -1..1

CallType ==
  /\ blocked \subseteq Sources /\ alerts \in Nat
  /\ call \in [at : Stages, from : Sources, level : Levels, shown : Forms,
               first : Nat, second : Nat, answer : Scores, calls : Nat]

CountsAreBounded ==
  /\ call.first <= Tries /\ call.second <= Tries
  /\ call.at = "ask" => call.second < Tries
  /\ call.at \in {"idle", "prompt"} => call.first = 0 /\ call.second = 0

UnaskedIsNeutral == call.at \in {"idle", "prompt"} => call.answer = 0 /\ call.shown = "nothing"

AskedIsHarmless == call.at = "ask" => call.level \notin {"high", "critical"}

GatewayIInv ==
  /\ CallType /\ CountsAreBounded /\ UnaskedIsNeutral /\ AskedIsHarmless
  /\ FallbackIsLast /\ SilentWhileBlocked /\ NoModelSeesSevere

------------------------------------------------------------------------------
LEMMA SourcesShare == Shared \in Sources
  BY DEF Sources

LEMMA LevelIs ==
    ASSUME NEW t \in Texts
    PROVE  Level(t) \in Levels /\ (Severe(t) <=> Level(t) \in {"high", "critical"})
  BY DEF Texts, Level, Levels, Severe

LEMMA GatewayInitIInv == GatewayInit => GatewayIInv
  BY GatewayAssumption, SourcesShare
  DEF GatewayInit, NoCall, GatewayIInv, CallType, Levels, Forms, Stages, Scores, CountsAreBounded, UnaskedIsNeutral,
      AskedIsHarmless, FallbackIsLast, SilentWhileBlocked, NoModelSeesSevere

(* Screening a text blocks a source at most. *)
LEMMA CheckedBlocked ==
    ASSUME GatewayIInv, NEW src \in Sources, NEW t, CheckInput(src, t)
    PROVE  blocked' \subseteq Sources /\ blocked \subseteq blocked' /\ alerts' \in Nat
  BY DEF GatewayIInv, CallType, CheckInput

(* A text of a source ends the call or leads to a prompt, and to no model  *)
(* yet; the source is not the shared one.                                  *)
LEMMA ClassifyIInv ==
    ASSUME GatewayIInv, NEW src \in Feeds, NEW t \in Texts, Classify(src, t)
    PROVE  GatewayIInv'
  <1>1. src \in Sources
    BY DEF Sources
  <1>2. blocked' \subseteq Sources /\ alerts' \in Nat
    BY <1>1, CheckedBlocked DEF Classify
  <1>3. call' = [at |-> IF Passes(src, t) THEN "prompt" ELSE "over", from |-> src,
                 level |-> "safe", shown |-> "nothing",
                 first |-> 0, second |-> 0, answer |-> 0, calls |-> call.calls + 1]
    BY DEF Classify, NoCall
  <1>4. call.calls + 1 \in Nat
    BY DEF GatewayIInv, CallType
  <1>5. CallType'
    BY <1>1, <1>2, <1>3, <1>4 DEF CallType, Levels, Forms, Stages, Scores
  <1> QED
    BY <1>3, <1>5, GatewayAssumption
    DEF GatewayIInv, CountsAreBounded, UnaskedIsNeutral, AskedIsHarmless, FallbackIsLast,
        SilentWhileBlocked, NoModelSeesSevere

LEMMA ChatIInv == ASSUME GatewayIInv, Chat PROVE GatewayIInv'
  <1>1. call' = [at |-> "prompt", from |-> Shared, level |-> "safe", shown |-> "nothing",
                 first |-> 0, second |-> 0, answer |-> 0, calls |-> call.calls + 1]
    BY DEF Chat, NoCall
  <1>2. call.calls + 1 \in Nat
    BY DEF GatewayIInv, CallType
  <1>3. CallType'
    BY <1>1, <1>2, SourcesShare DEF CallType, Levels, Forms, Stages, Scores, Chat, GatewayIInv
  <1> QED
    BY <1>1, <1>3, GatewayAssumption
    DEF GatewayIInv, CountsAreBounded, UnaskedIsNeutral, AskedIsHarmless, FallbackIsLast,
        SilentWhileBlocked, NoModelSeesSevere

(* A model is asked only when the shared source is not blocked, after this *)
(* very text was judged.                                                   *)
LEMMA ChatCompletionIInv ==
    ASSUME GatewayIInv, NEW t \in Texts, ChatCompletion(t)
    PROVE  GatewayIInv'
  <1>1. blocked' \subseteq Sources /\ alerts' \in Nat
    BY CheckedBlocked, SourcesShare DEF ChatCompletion
  <1>2. Passes(Shared, t) => Shared \notin blocked' /\ Level(t) \notin {"high", "critical"}
    BY LevelIs DEF ChatCompletion, CheckInput, Passes
  <1>3. /\ call' = [call EXCEPT !.at = IF Passes(Shared, t) THEN "ask" ELSE "over",
                               !.level = Level(t)]
        /\ call.at = "prompt"
    BY DEF ChatCompletion
  <1>4. CallType'
    <2> DEFINE x == IF Passes(Shared, t) THEN "ask" ELSE "over"
               v == Level(t)
    <2>1. v \in Levels /\ x \in Stages /\ call' = [call EXCEPT !.at = x, !.level = v]
      BY <1>3, LevelIs DEF Stages
    <2> HIDE DEF x, v
    <2> QED
      BY <1>1, <2>1 DEF GatewayIInv, CallType
  <1>5. /\ call'.first = 0 /\ call'.second = 0 /\ call'.answer = 0 /\ call'.shown = "nothing"
        /\ call'.at \in {"ask", "over"}
        /\ call'.at = "ask" => Shared \notin blocked' /\ call'.level \notin {"high", "critical"}
    BY <1>2, <1>3 DEF GatewayIInv, CallType, CountsAreBounded, UnaskedIsNeutral
  <1> QED
    BY <1>4, <1>5, GatewayAssumption
    DEF GatewayIInv, CountsAreBounded, UnaskedIsNeutral, AskedIsHarmless, FallbackIsLast,
        SilentWhileBlocked, NoModelSeesSevere

(* An attempt counts for the model or for the fallback, and shows it the   *)
(* message in the one form or the other.                                   *)
LEMMA AttemptedIs ==
    ASSUME GatewayIInv, call.at = "ask"
    PROVE  /\ Attempted \in [at : Stages, from : Sources, level : Levels, shown : Forms,
                             first : Nat, second : Nat, answer : Scores, calls : Nat]
           /\ Attempted.level \notin {"high", "critical"}
           /\ Attempted.first \in 0..Tries /\ Attempted.second \in 0..Tries
           /\ Attempted.second > 0 => Attempted.first = Tries
           /\ Attempted.shown = "raw" <=> Attempted.second > 0
  <1>1. /\ call \in [at : Stages, from : Sources, level : Levels, shown : Forms,
                     first : Nat, second : Nat, answer : Scores, calls : Nat]
        /\ call.level \notin {"high", "critical"}
        /\ call.first \in 0..Tries /\ call.second \in 0..(Tries - 1)
        /\ call.second > 0 => call.first = Tries
        /\ Tries \in Nat \ {0}
    BY GatewayAssumption DEF GatewayIInv, CallType, CountsAreBounded, AskedIsHarmless, FallbackIsLast
  <1>2. CASE MoreOfFirst
    <2> DEFINE n == call.first + 1
    <2>1. Attempted = [call EXCEPT !.first = n, !.shown = "wrapped"]
      BY <1>2 DEF Attempted
    <2>2. n \in 0..Tries /\ n \in Nat /\ call.second = 0 /\ "wrapped" \in Forms
      BY <1>1, <1>2 DEF MoreOfFirst, Forms
    <2> HIDE DEF n
    <2>3. Attempted \in [at : Stages, from : Sources, level : Levels, shown : Forms,
                        first : Nat, second : Nat, answer : Scores, calls : Nat]
      BY <1>1, <2>1, <2>2
    <2>4. /\ Attempted.level = call.level /\ Attempted.first = n /\ Attempted.second = 0
          /\ Attempted.shown = "wrapped"
      BY <1>1, <2>1, <2>2
    <2> QED
      BY <1>1, <2>2, <2>3, <2>4
  <1>3. CASE ~MoreOfFirst
    <2> DEFINE n == call.second + 1
    <2>1. Attempted = [call EXCEPT !.second = n, !.shown = "raw"]
      BY <1>3 DEF Attempted
    <2>2. n \in 0..Tries /\ n \in Nat /\ n > 0 /\ call.first = Tries /\ "raw" \in Forms
      BY <1>1, <1>3 DEF MoreOfFirst, Forms
    <2> HIDE DEF n
    <2>3. Attempted \in [at : Stages, from : Sources, level : Levels, shown : Forms,
                        first : Nat, second : Nat, answer : Scores, calls : Nat]
      BY <1>1, <2>1, <2>2
    <2>4. /\ Attempted.level = call.level /\ Attempted.first = Tries /\ Attempted.second = n
          /\ Attempted.shown = "raw"
      BY <1>1, <2>1, <2>2
    <2> QED
      BY <1>1, <2>2, <2>3, <2>4
  <1> QED
    BY <1>2, <1>3

(* The attempt leaves the call at work, or ends it with or without answer. *)
LEMMA AfterAttempt ==
    ASSUME GatewayIInv, call.at = "ask", UNCHANGED <<blocked, alerts>>,
           NEW x \in {"ask", "over", "raised", "unread"}, NEW n \in Scores,
           call' = [Attempted EXCEPT !.at = x, !.answer = n],
           x = "ask" => Attempted.second # Tries, x = "raised" => Attempted.second = Tries
    PROVE  GatewayIInv'
  <1> DEFINE a == Attempted
  <1>1. /\ a \in [at : Stages, from : Sources, level : Levels, shown : Forms,
                  first : Nat, second : Nat, answer : Scores, calls : Nat]
        /\ a.level \notin {"high", "critical"}
        /\ a.first \in 0..Tries /\ a.second \in 0..Tries
        /\ a.second > 0 => a.first = Tries
        /\ a.shown = "raw" <=> a.second > 0
    BY AttemptedIs
  <1>2. Shared \notin blocked /\ Tries \in Nat \ {0} /\ x \in Stages
    BY GatewayAssumption DEF GatewayIInv, SilentWhileBlocked, Stages
  <1>3. call' = [a EXCEPT !.at = x, !.answer = n] /\ (x = "ask" => a.second # Tries)
        /\ (x = "raised" => a.second = Tries)
    OBVIOUS
  <1> HIDE DEF a
  <1>4. call' \in [at : Stages, from : Sources, level : Levels, shown : Forms,
                  first : Nat, second : Nat, answer : Scores, calls : Nat]
    BY <1>1, <1>2, <1>3
  <1>5. /\ call'.at = x /\ call'.first = a.first /\ call'.second = a.second
        /\ call'.shown = a.shown /\ call'.level = a.level
    BY <1>1, <1>3
  <1>6. CallType'
    BY <1>4 DEF GatewayIInv, CallType
  <1>7. CountsAreBounded' /\ UnaskedIsNeutral' /\ AskedIsHarmless'
    BY <1>1, <1>2, <1>3, <1>5 DEF CountsAreBounded, UnaskedIsNeutral, AskedIsHarmless
  <1>8. FallbackIsLast' /\ SilentWhileBlocked' /\ NoModelSeesSevere'
    BY <1>1, <1>2, <1>3, <1>5 DEF FallbackIsLast, SilentWhileBlocked, NoModelSeesSevere
  <1> QED
    BY <1>6, <1>7, <1>8 DEF GatewayIInv

LEMMA CompletionFailsIInv == ASSUME GatewayIInv, CompletionFails PROVE GatewayIInv'
  <1> DEFINE a == Attempted
             x == IF a.second = Tries THEN "raised" ELSE "ask"
  <1>1. call.at = "ask" /\ UNCHANGED <<blocked, alerts>> /\ call' = [a EXCEPT !.at = x]
    BY DEF CompletionFails
  <1>2. a \in [at : Stages, from : Sources, level : Levels, shown : Forms,
              first : Nat, second : Nat, answer : Scores, calls : Nat]
    BY <1>1, AttemptedIs
  <1>3. /\ x \in {"ask", "over", "raised", "unread"}
        /\ x = "ask" => a.second # Tries
        /\ x = "raised" => a.second = Tries
    OBVIOUS
  <1> HIDE DEF a, x
  <1>4. a.answer \in Scores /\ call' = [a EXCEPT !.at = x, !.answer = a.answer]
    BY <1>1, <1>2
  <1> QED
    BY <1>1, <1>3, <1>4, AfterAttempt DEF a

(* What an answer is worth, if it can be read at all. *)
LEMMA CompletionAnswersIInv == ASSUME GatewayIInv, CompletionAnswers PROVE GatewayIInv'
  <1> DEFINE a == Attempted
  <1>1. call.at = "ask" /\ UNCHANGED <<blocked, alerts>>
    BY DEF CompletionAnswers
  <1>2. a \in [at : Stages, from : Sources, level : Levels, shown : Forms,
              first : Nat, second : Nat, answer : Scores, calls : Nat]
    BY <1>1, AttemptedIs
  <1>3. PICK v \in Answers :
            call' = IF Unreadable(v) THEN [a EXCEPT !.at = "unread"]
                    ELSE [a EXCEPT !.at = "over", !.answer = ParsedScore(v)]
    BY DEF CompletionAnswers
  <1>4. CASE Unreadable(v)
    <2> HIDE DEF a
    <2>1. a.answer \in Scores /\ call' = [a EXCEPT !.at = "unread", !.answer = a.answer]
      BY <1>2, <1>3, <1>4
    <2> QED
      BY <1>1, <2>1, AfterAttempt DEF a
  <1>5. CASE ~Unreadable(v)
    <2>1. ParsedScore(v) \in Scores
      BY <1>5 DEF Scores, ParsedScore, Clamp, Answers, Unreadable, Garbled, Misshapen, NoContent
    <2>2. call' = [a EXCEPT !.at = "over", !.answer = ParsedScore(v)]
      BY <1>3, <1>5
    <2> QED
      BY <1>1, <2>1, <2>2, AfterAttempt
  <1> QED
    BY <1>4, <1>5

LEMMA CallReturnsIInv == ASSUME GatewayIInv, CallReturns PROVE GatewayIInv'
  BY GatewayAssumption, SourcesShare
  DEF CallReturns, NoCall, GatewayIInv, CallType, Levels, Forms, Stages, Scores, CountsAreBounded, UnaskedIsNeutral,
      AskedIsHarmless, FallbackIsLast, SilentWhileBlocked, NoModelSeesSevere

LEMMA OperatorIInv ==
    ASSUME GatewayIInv, ResetAlerts \/ \E src \in Sources : UnblockSource(src)
    PROVE  GatewayIInv'
  BY DEF ResetAlerts, UnblockSource, GatewayIInv, CallType, CountsAreBounded, UnaskedIsNeutral,
         AskedIsHarmless, FallbackIsLast, SilentWhileBlocked, NoModelSeesSevere

LEMMA GatewayNextIInv ==
    ASSUME GatewayIInv, [GatewayNext]_gatewayVars
    PROVE  GatewayIInv'
  <1>1. CASE UNCHANGED gatewayVars
    BY <1>1 DEF gatewayVars, GatewayIInv, CallType, CountsAreBounded, UnaskedIsNeutral,
                AskedIsHarmless, FallbackIsLast, SilentWhileBlocked, NoModelSeesSevere
  <1>2. CASE GatewayNext
    BY <1>2, ClassifyIInv, ChatIInv, ChatCompletionIInv, CompletionFailsIInv,
       CompletionAnswersIInv, CallReturnsIInv, OperatorIInv DEF GatewayNext
  <1> QED
    BY <1>1, <1>2

------------------------------------------------------------------------------
(* While the source that all user messages share is blocked no model is    *)
(* asked and every answer is neutral; the fallback comes after every       *)
(* attempt on the model, and is the one that gets the message unscreened   *)
(* (litellm_gateway.py:142); neither gets one whose level is severe,       *)
(* whatever texts are given and whoever unblocks sources in between        *)
(* (litellm_gateway.py:91).                                                *)
THEOREM GatewayOrder == GatewaySpec => []GatewayIsOrderly
  <1>1. GatewayIInv => GatewayIsOrderly
    BY DEF GatewayIInv, GatewayIsOrderly
  <1> QED
    BY <1>1, GatewayInitIInv, GatewayNextIInv, PTL DEF GatewaySpec

------------------------------------------------------------------------------
(* The exchange source and its cache.                                      *)

(* The inductive invariant.  A call that fetches has begun within the last *)
(* Flight, what it has read it read since then, and an entry of the cache  *)
(* expires at most Ttl and Flight after its value was read.                *)

AnyKey == Keys \cup {0}
Times == 0..MaxTime
Asking == [at : {"rest", "fetch", "answer", "store", "done", "raised"}, key : AnyKey,
           tries : 0..(MaxTries - 1), read : Times, since : Times,
           from : {"none", "cache", "exchange"}]
Entries == [value : 0..MaxTime, until : 0..(MaxTime + Ttl)]

SourceType ==
  /\ time \in 1..MaxTime /\ exchange \in BOOLEAN /\ redis \in {"none", "connected", "lost"}
  /\ cache \in [Keys -> Entries]
  /\ asked \in [Askers -> Asking]

FetchesAreYoung ==
  \A a \in Askers :
    /\ Busy(a) => asked[a].key \in Keys /\ asked[a].since <= time /\ time <= asked[a].since + Flight
    /\ asked[a].at \in {"answer", "store"} => asked[a].since <= asked[a].read

EntriesAreYoung == \A k \in Keys : cache[k].until <= cache[k].value + Ttl + Flight

SourceIInv == SourceType /\ FetchesAreYoung /\ EntriesAreYoung /\ FreshEnough

LEMMA AnyKeys == 0 \in AnyKey /\ Keys \subseteq AnyKey /\ 0 \in Times /\ 0 \in 0..(MaxTries - 1)
  BY SourceAssumption DEF AnyKey, Times

LEMMA RestIsAsking == Rest \in Asking
  BY AnyKeys DEF Rest, Asking

LEMMA SourceInitIInv == SourceInit => SourceIInv
  <1> SUFFICES ASSUME SourceInit PROVE SourceIInv
    OBVIOUS
  <1>1. NoEntry \in Entries
    BY SourceAssumption DEF NoEntry, Entries
  <1>2. SourceType
    <2>1. cache \in [Keys -> Entries] /\ asked \in [Askers -> Asking]
      BY <1>1, RestIsAsking DEF SourceInit
    <2>2. time \in 1..MaxTime
      BY SourceAssumption DEF SourceInit
    <2> QED
      BY <2>1, <2>2 DEF SourceInit, SourceType
  <1>3. FetchesAreYoung /\ EntriesAreYoung /\ FreshEnough
    BY SourceAssumption DEF SourceInit, NoEntry, Rest, FetchesAreYoung, Busy, EntriesAreYoung, FreshEnough
  <1> QED
    BY <1>2, <1>3 DEF SourceIInv

(* A step that changes one call only: the others are as young as before.   *)
LEMMA OneCallMoves ==
    ASSUME SourceIInv, NEW a \in Askers, NEW c \in Asking,
           asked' = [asked EXCEPT ![a] = c], UNCHANGED time,
           c.at \in {"fetch", "answer", "store"} =>
              c.key \in Keys /\ c.since <= time /\ time <= c.since + Flight,
           c.at \in {"answer", "store"} => c.since <= c.read,
           c.at = "done" => c.since - c.read < Ttl + Flight
    PROVE  asked' \in [Askers -> Asking] /\ FetchesAreYoung' /\ FreshEnough'
  <1>1. asked' \in [Askers -> Asking] /\ asked'[a] = c /\ \A b \in Askers : b # a => asked'[b] = asked[b]
    BY DEF SourceIInv, SourceType
  <1>2. FetchesAreYoung'
    BY <1>1 DEF SourceIInv, FetchesAreYoung, Busy
  <1>3. FreshEnough'
    BY <1>1 DEF SourceIInv, FreshEnough
  <1> QED
    BY <1>1, <1>2, <1>3

LEMMA CallFields ==
    ASSUME SourceIInv, NEW a \in Askers
    PROVE  /\ asked[a] \in Asking /\ asked[a].since \in Times /\ asked[a].read \in Times
           /\ asked[a].tries \in 0..(MaxTries - 1) /\ time \in 1..MaxTime /\ time \in Times
           /\ asked[a].at \in {"fetch", "answer", "store"} =>
                asked[a].key \in Keys /\ asked[a].since <= time /\ time <= asked[a].since + Flight
           /\ asked[a].at \in {"answer", "store"} => asked[a].since <= asked[a].read
  <1>1. asked[a] \in Asking /\ time \in 1..MaxTime /\ time \in Times
    BY DEF SourceIInv, SourceType, Times
  <1> QED
    BY <1>1 DEF SourceIInv, Asking, FetchesAreYoung, Busy

LEMMA AskForIInv ==
    ASSUME SourceIInv, NEW a \in Askers, NEW k \in Keys, AskFor(a, k)
    PROVE  SourceIInv'
  <1> USE SourceAssumption
  <1>1. UNCHANGED <<time, cache, redis>> /\ exchange' \in BOOLEAN
    BY DEF AskFor, SourceIInv, SourceType
  <1>2. time \in Times /\ cache[k] \in Entries /\ cache[k].value \in Times /\ k \in AnyKey
    BY AnyKeys DEF SourceIInv, SourceType, Entries, Times
  <1>3. CASE Fresh(k) /\ asked' = [asked EXCEPT ![a] = [Rest EXCEPT !.at = "done", !.key = k, !.since = time,
                                          !.read = cache[k].value, !.from = "cache"]]
    <2> DEFINE c == [Rest EXCEPT !.at = "done", !.key = k, !.since = time,
                                 !.read = cache[k].value, !.from = "cache"]
    <2>1. c \in Asking /\ c.at = "done" /\ c.since = time /\ c.read = cache[k].value
      BY <1>2, RestIsAsking DEF Rest, Asking
    <2>2. cache[k].until > time /\ cache[k].until <= cache[k].value + Ttl + Flight
      BY <1>3 DEF Fresh, SourceIInv, EntriesAreYoung
    <2>3. c.since - c.read < Ttl + Flight
      BY <1>2, <2>1, <2>2 DEF Entries, Times
    <2> HIDE DEF c
    <2>4. asked' \in [Askers -> Asking] /\ FetchesAreYoung' /\ FreshEnough'
      BY <1>1, <1>3, <2>1, <2>3, OneCallMoves DEF c
    <2> QED
      BY <1>1, <2>4 DEF SourceIInv, SourceType, EntriesAreYoung
  <1>4. CASE asked' = [asked EXCEPT ![a] = [Rest EXCEPT !.at = "fetch", !.key = k, !.since = time]]
    <2> DEFINE c == [Rest EXCEPT !.at = "fetch", !.key = k, !.since = time]
    <2>1. c \in Asking /\ c.at = "fetch" /\ c.since = time /\ c.key \in Keys
      BY <1>2, RestIsAsking DEF Rest, Asking
    <2>2. c.since <= time /\ time <= c.since + Flight
      BY <1>2, <2>1 DEF Times
    <2> HIDE DEF c
    <2>3. asked' \in [Askers -> Asking] /\ FetchesAreYoung' /\ FreshEnough'
      BY <1>1, <1>4, <2>1, <2>2, OneCallMoves DEF c
    <2> QED
      BY <1>1, <2>3 DEF SourceIInv, SourceType, EntriesAreYoung
  <1> QED
    BY <1>3, <1>4 DEF AskFor

(* The steps of a call that leave the cache alone. *)
LEMMA FetchIInv ==
    ASSUME SourceIInv, NEW a \in Askers,
           Read(a) \/ FetchFails(a) \/ FetchRaises(a) \/ Fetched(a) \/ CallerGoesOn(a)
    PROVE  SourceIInv'
  <1> USE SourceAssumption
  <1>1. UNCHANGED <<time, cache, redis, exchange>>
    BY DEF Read, FetchFails, FetchRaises, Fetched, CallerGoesOn
  <1>2. /\ asked[a] \in Asking /\ asked[a].since \in Times /\ asked[a].read \in Times
        /\ asked[a].tries \in 0..(MaxTries - 1) /\ time \in 1..MaxTime /\ time \in Times
        /\ asked[a].at \in {"fetch", "answer", "store"} =>
             asked[a].key \in Keys /\ asked[a].since <= time /\ time <= asked[a].since + Flight
        /\ asked[a].at \in {"answer", "store"} => asked[a].since <= asked[a].read
    BY CallFields
  <1>3. SUFFICES asked' \in [Askers -> Asking] /\ FetchesAreYoung' /\ FreshEnough'
    BY <1>1 DEF SourceIInv, SourceType, EntriesAreYoung
  <1>4. CASE Read(a)
    <2> DEFINE c == [asked[a] EXCEPT !.at = "answer", !.read = time]
    <2>1. /\ c \in Asking /\ c.at = "answer" /\ c.read = time
          /\ c.since = asked[a].since /\ c.key = asked[a].key
      BY <1>2 DEF Asking
    <2>2. asked' = [asked EXCEPT ![a] = c]
      BY <1>4 DEF Read, SourceIInv, SourceType
    <2> HIDE DEF c
    <2> QED
      BY <1>1, <1>2, <1>4, <2>1, <2>2, OneCallMoves DEF Read
  <1>5. CASE FetchFails(a) /\ MoreTries(a)
    <2> DEFINE c == [asked[a] EXCEPT !.at = "fetch", !.read = 0, !.tries = asked[a].tries + 1]
    <2>1. asked[a].tries + 1 \in 0..(MaxTries - 1) /\ asked[a].at \in {"fetch", "answer"}
      BY <1>2, <1>5 DEF MoreTries, FetchFails
    <2>2. c \in Asking /\ c.at = "fetch" /\ c.since = asked[a].since /\ c.key = asked[a].key
      BY <1>2, <2>1, AnyKeys DEF Asking
    <2>3. asked' = [asked EXCEPT ![a] = c]
      BY <1>5 DEF FetchFails, MoreTries
    <2> HIDE DEF c
    <2> QED
      BY <1>1, <1>2, <2>1, <2>2, <2>3, OneCallMoves
  <1>6. CASE FetchRaises(a) \/ (FetchFails(a) /\ ~MoreTries(a))
    <2> DEFINE c == [asked[a] EXCEPT !.at = "raised"]
    <2>1. c \in Asking /\ c.at = "raised"
      BY <1>2 DEF Asking
    <2>2. asked' = [asked EXCEPT ![a] = c]
      BY <1>6 DEF FetchRaises, FetchFails
    <2> HIDE DEF c
    <2> QED
      BY <1>1, <2>1, <2>2, OneCallMoves
  <1>7. CASE Fetched(a)
    <2> DEFINE c == [asked[a] EXCEPT !.at = "store"]
    <2>1. /\ c \in Asking /\ c.at = "store" /\ c.read = asked[a].read
          /\ c.since = asked[a].since /\ c.key = asked[a].key
      BY <1>2 DEF Asking
    <2>2. asked' = [asked EXCEPT ![a] = c]
      BY <1>7 DEF Fetched
    <2> HIDE DEF c
    <2> QED
      BY <1>1, <1>2, <1>7, <2>1, <2>2, OneCallMoves DEF Fetched
  <1>8. CASE CallerGoesOn(a)
    <2>1. asked' = [asked EXCEPT ![a] = Rest] /\ Rest.at = "rest"
      BY <1>8 DEF CallerGoesOn, Rest
    <2> QED
      BY <1>1, <2>1, RestIsAsking, OneCallMoves
  <1> QED
    BY <1>4, <1>5, <1>6, <1>7, <1>8

(* What is stored was read while the call was under way, and expires Ttl    *)
(* from now.                                                               *)
LEMMA StoreIInv ==
    ASSUME SourceIInv, NEW a \in Askers, Store(a)
    PROVE  SourceIInv'
  <1> USE SourceAssumption
  <1>1. UNCHANGED <<time, redis, exchange>>
    BY DEF Store
  <1>2. /\ asked[a] \in Asking /\ asked[a].since \in Times /\ asked[a].read \in Times
        /\ time \in 1..MaxTime /\ time \in Times /\ asked[a].key \in Keys
        /\ asked[a].since <= time /\ time <= asked[a].since + Flight
        /\ asked[a].since <= asked[a].read
    BY CallFields DEF Store
  <1>3. asked' \in [Askers -> Asking] /\ FetchesAreYoung' /\ FreshEnough'
    <2> DEFINE c == [asked[a] EXCEPT !.at = "done", !.from = "exchange"]
    <2>1. c \in Asking /\ c.at = "done" /\ c.since = asked[a].since /\ c.read = asked[a].read
      BY <1>2 DEF Asking
    <2>2. c.since - c.read < Ttl + Flight
      BY <1>2, <2>1 DEF Times
    <2>3. asked' = [asked EXCEPT ![a] = c]
      BY DEF Store, SourceIInv, SourceType
    <2> HIDE DEF c
    <2> QED
      BY <1>1, <2>1, <2>2, <2>3, OneCallMoves
  <1>4. cache' \in [Keys -> Entries] /\ EntriesAreYoung'
    <2>1. CASE UNCHANGED cache
      BY <2>1 DEF SourceIInv, SourceType, EntriesAreYoung
    <2>2. CASE cache' = [cache EXCEPT ![asked[a].key] = CacheEntry(a)]
      <3>1. /\ CacheEntry(a) \in Entries
            /\ CacheEntry(a).until <= CacheEntry(a).value + Ttl + Flight
        <4>1. time + Ttl \in 0..(MaxTime + Ttl) /\ time + Ttl <= asked[a].read + Ttl + Flight
          BY <1>2 DEF Times
        <4> QED
          BY <1>2, <4>1 DEF CacheEntry, Entries, Times
      <3>2. cache \in [Keys -> Entries]
        BY DEF SourceIInv, SourceType
      <3>3. /\ cache' \in [Keys -> Entries] /\ cache'[asked[a].key] = CacheEntry(a)
            /\ \A k \in Keys : k # asked[a].key => cache'[k] = cache[k]
        BY <1>2, <2>2, <3>1, <3>2
      <3> QED
        BY <3>1, <3>3 DEF SourceIInv, EntriesAreYoung
    <2> QED
      BY <2>1, <2>2 DEF Store
  <1> QED
    BY <1>1, <1>3, <1>4 DEF SourceIInv, SourceType

(* Time passes while no fetch outlives Flight. *)
LEMMA PassingIInv == ASSUME SourceIInv, Passing PROVE SourceIInv'
  <1> USE SourceAssumption
  <1>1. /\ time' = time + 1 /\ time < MaxTime /\ UNCHANGED <<cache, redis, exchange, asked>>
        /\ \A a \in Askers : Busy(a) => time < asked[a].since + Flight
    BY DEF Passing
  <1>2. SourceType'
    BY <1>1 DEF SourceIInv, SourceType
  <1>3. FetchesAreYoung'
    <2> SUFFICES ASSUME NEW a \in Askers
                 PROVE  /\ Busy(a) => /\ asked[a].key \in Keys /\ asked[a].since <= time + 1
                                      /\ time + 1 <= asked[a].since + Flight
                        /\ asked[a].at \in {"answer", "store"} => asked[a].since <= asked[a].read
      BY <1>1 DEF FetchesAreYoung, Busy
    <2>1. asked[a].since \in 0..MaxTime /\ time \in 1..MaxTime
      BY CallFields DEF Times
    <2> QED
      BY <1>1, <2>1 DEF SourceIInv, FetchesAreYoung
  <1>4. EntriesAreYoung' /\ FreshEnough'
    BY <1>1 DEF SourceIInv, EntriesAreYoung, FreshEnough
  <1> QED
    BY <1>2, <1>3, <1>4 DEF SourceIInv

LEMMA SourceNextIInv == ASSUME SourceIInv, [SourceNext]_sourceVars PROVE SourceIInv'
  <1>1. CASE StartSource \/ StopSource \/ UNCHANGED sourceVars
    BY <1>1 DEF StartSource, StopSource, sourceVars, SourceIInv, SourceType, FetchesAreYoung, Busy,
                EntriesAreYoung, FreshEnough
  <1>2. CASE SourceNext
    BY <1>1, <1>2, PassingIInv, AskForIInv, FetchIInv, StoreIInv DEF SourceNext
  <1> QED
    BY <1>1, <1>2

(* No price that a caller gets is older than the cache's time to live and  *)
(* the longest fetch together, whatever fetches overlap, fail and are      *)
(* stored in whatever order (cache.py, ccxt_source.py).                    *)
THEOREM PricesAreFresh == SourceSpec => [](SourceTypeOK /\ FreshEnough)
  <1>1. SourceIInv => SourceTypeOK /\ FreshEnough
    BY DEF SourceIInv, SourceType, Asking, Times, Entries, SourceTypeOK
  <1> QED
    BY <1>1, SourceInitIInv, SourceNextIInv, PTL DEF SourceSpec
==============================================================================
