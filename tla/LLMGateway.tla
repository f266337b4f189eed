----------------------------- MODULE LLMGateway -----------------------------
(***************************************************************************)
(* One call of the language model at a time: the screening of what is sent *)
(* (blocked sources, alerts), the attempts on the model, which is given    *)
(* the screened message, and on the model it falls back to, which is given *)
(* the message as it came, and the sentiment read from the answer.         *)
(*                                                                         *)
(* Models src/src/llm/litellm_gateway.py and the screening of              *)
(* src/src/security/__init__.py.  A text is the number of injection and of *)
(* suspicious patterns found in it.  litellm is external: a completion     *)
(* answers or raises.                                                      *)
(***************************************************************************)
EXTENDS Integers

CONSTANTS Feeds,       \* the sources of texts ("sentiment_<symbol>")
          Shared,      \* the one source of all user messages ("llm_user_input")
          Tries,       \* retries per model
          MaxCalls     \* bound: calls made of the gateway

ASSUME GatewayAssumption ==
  /\ Shared \notin Feeds
  /\ Tries \in Nat \ {0} /\ MaxCalls \in Nat

VARIABLES blocked,  \* the sources the middleware has blocked
          alerts,   \* its count of alerts
          call      \* the call under way

gatewayVars == <<blocked, alerts, call>>

Sources == Feeds \cup {Shared}

(* Patterns found in a text, as far as the levels tell texts apart, and    *)
(* whether anything is left of it without its markup.                      *)
Texts == [injections : 0..3, suspicious : 0..2, left : BOOLEAN]

Level(t) ==
  CASE t.injections >= 3 -> "critical"
    [] t.injections = 2 -> "high"
    [] t.injections = 1 -> "medium"
    [] t.injections = 0 /\ t.suspicious >= 2 -> "low"
    [] OTHER -> "safe"

Severe(t) == Level(t) \in {"high", "critical"}

(* Fault: only the scan decides. *)
PassesScan(src, t) == ~Severe(t) /\ t.left

(* wrap_llm_input: a blocked source is turned away before the scan, and a  *)
(* severe text blocks its source and counts as an alert.                   *)
Passes(src, t) == src \notin blocked /\ ~Severe(t) /\ t.left

CheckInput(src, t) ==
  LET blocks == src \notin blocked /\ Severe(t) IN
  /\ blocked' = IF blocks THEN blocked \cup {src} ELSE blocked
  /\ alerts' = IF blocks THEN alerts + 1 ELSE alerts

(* level: that of the user message; shown: in which form a model was given *)
(* it last, as it came out of wrap_llm_input or as it came in.             *)
NoCall == [at |-> "idle", from |-> Shared, level |-> "safe", shown |-> "nothing",
           first |-> 0, second |-> 0, answer |-> 0, calls |-> 0]

GatewayInit == blocked = {} /\ alerts = 0 /\ call = NoCall

(* classify_sentiment of a text of a source: first the text is screened. *)
Classify(src, t) ==
  /\ call.at = "idle" /\ call.calls < MaxCalls
  /\ CheckInput(src, t)
  /\ call' = [NoCall EXCEPT !.at = IF Passes(src, t) THEN "prompt" ELSE "over",
                          !.from = src, !.calls = call.calls + 1]

(* explain_decision, or a chat of the agents: no text to screen first. *)
Chat ==
  /\ call.at = "idle" /\ call.calls < MaxCalls
  /\ call' = [NoCall EXCEPT !.at = "prompt", !.calls = call.calls + 1]
  /\ UNCHANGED <<blocked, alerts>>

(* chat_completion: the user message is screened under the shared source;  *)
(* its patterns are not those of the text it was built from.               *)
ChatCompletion(t) ==
  /\ call.at = "prompt"
  /\ CheckInput(Shared, t)
  /\ call' = [call EXCEPT !.at = IF Passes(Shared, t) THEN "ask" ELSE "over",
                          !.level = Level(t)]

(* One completion: first the model, after its attempts the fallback, which *)
(* is given `messages' and not `sanitized_messages'.                       *)
MoreOfFirst == call.first < Tries

Attempted ==
  IF MoreOfFirst THEN [call EXCEPT !.first = @ + 1, !.shown = "wrapped"]
                 ELSE [call EXCEPT !.second = @ + 1, !.shown = "raw"]

CompletionFails ==
  /\ call.at = "ask"
  /\ call' = [Attempted EXCEPT !.at = IF Attempted.second = Tries THEN "raised" ELSE "ask"]
  /\ UNCHANGED <<blocked, alerts>>

(* The sentiment in an answer, or what is there instead of one: no JSON    *)
(* (Garbled), JSON without a number in the place of the sentiment, or not  *)
(* even an object to look for it in (Misshapen), no content at all.        *)
Garbled == 7
Misshapen == 8
NoContent == 9
Answers == {-2, -1, 0, 1, 2, Garbled, Misshapen, NoContent}

Clamp(v) == IF v > 1 THEN 1 ELSE IF v < -1 THEN -1 ELSE v
ParsedScore(v) == IF v = Garbled THEN 0 ELSE Clamp(v)

(* data.get, float and strip raise AttributeError or TypeError, which      *)
(* classify_sentiment does not catch; explain_decision only strips.        *)
Unreadable(v) == v = NoContent \/ (v = Misshapen /\ call.from # Shared)

CompletionAnswers ==
  /\ call.at = "ask"
  /\ \E v \in Answers :
       call' = IF Unreadable(v) THEN [Attempted EXCEPT !.at = "unread"]
               ELSE [Attempted EXCEPT !.at = "over", !.answer = ParsedScore(v)]
  /\ UNCHANGED <<blocked, alerts>>

(* The caller has its answer, or the error. *)
CallReturns ==
  /\ call.at \in {"over", "raised", "unread"}
  /\ call' = [NoCall EXCEPT !.calls = call.calls]
  /\ UNCHANGED <<blocked, alerts>>

UnblockSource(src) ==
  /\ call.at = "idle" /\ src \in blocked
  /\ blocked' = blocked \ {src}
  /\ UNCHANGED <<alerts, call>>

ResetAlerts ==
  /\ call.at = "idle" /\ alerts > 0
  /\ alerts' = 0
  /\ UNCHANGED <<blocked, call>>

GatewayNext ==
  \/ \E src \in Feeds, t \in Texts : Classify(src, t)
  \/ Chat \/ \E t \in Texts : ChatCompletion(t)
  \/ CompletionFails \/ CompletionAnswers \/ CallReturns
  \/ \E src \in Sources : UnblockSource(src)
  \/ ResetAlerts

GatewaySpec == GatewayInit /\ [][GatewayNext]_gatewayVars

(* A completion ends within its timeout, and the synchronous call goes on. *)
GatewayFairSpec ==
  GatewaySpec /\ WF_gatewayVars((\E t \in Texts : ChatCompletion(t))
                                \/ CompletionFails \/ CompletionAnswers)

------------------------------------------------------------------------------
GatewayTypeOK ==
  /\ blocked \subseteq Sources /\ alerts \in Nat
  /\ call.at \in {"idle", "prompt", "ask", "over", "raised", "unread"}
  /\ call.from \in Sources /\ call.answer \in -1..1
  /\ call.level \in {"safe", "low", "medium", "high", "critical"}
  /\ call.shown \in {"nothing", "wrapped", "raw"}
  /\ call.first \in 0..Tries /\ call.second \in 0..Tries

(* The fallback is asked only after every attempt on the model failed, and *)
(* a call that raises has used up the attempts on both; until then the     *)
(* message goes out screened only, and from then on it goes out as it came.*)
FallbackIsLast ==
  /\ call.second > 0 => call.first = Tries
  /\ call.at = "raised" => call.first = Tries /\ call.second = Tries
  /\ call.shown = "raw" <=> call.second > 0

(* While the source of the user messages is blocked, no model is asked,    *)
(* whatever the text and whoever calls: every call answers the marker, and *)
(* no sentiment is other than neutral, until somebody unblocks it.         *)
SilentWhileBlocked ==
  Shared \in blocked => call.at # "ask" /\ (call.at = "over" => call.answer = 0)

(* The level decides before either model is asked: neither is ever given a *)
(* severe message, the fallback not either, which gets it unscreened.      *)
NoModelSeesSevere == call.shown # "nothing" => call.level \notin {"high", "critical"}

(* Every call that is made answers or raises. *)
CallsAnswered == call.at = "prompt" ~> call.at \in {"over", "raised", "unread"}

(* The judgement of a message comes before every model and the model       *)
(* before its fallback.  That every model gets the screened message, as    *)
(* docs/FEATURES.md:723 says, is not true and is not said here.            *)
GatewayIsOrderly == SilentWhileBlocked /\ FallbackIsLast /\ NoModelSeesSevere
==============================================================================
