--------------------------- MODULE FreqtradeClient ---------------------------
(***************************************************************************)
(* The HTTP client of the exchange bot: requests, answers that get lost,   *)
(* the retry loop and the orders that the bot carries out.                 *)
(*                                                                         *)
(* Models src/src/freqtrade_client/client.py.  The bot is external: it may *)
(* have carried a request out when the answer is lost or is a server       *)
(* error.  The back-off of the retry loop calls a method that httpx does   *)
(* not have, so the loop ends with an AttributeError where it would sleep. *)
(***************************************************************************)
EXTENDS Integers, Sequences

CONSTANTS Requests,   \* the calls made of the client
          MaxRetries  \* max_retries of the client

ASSUME RetriesAssumption == MaxRetries \in Nat \ {0}

VARIABLES wire,    \* request -> how far its call is
          want,    \* request -> the operation asked for
          attempt, \* request -> the attempt under way, from 0
          done,    \* the payloads the bot carried out, in order
          ended    \* request -> how its call ended

clientVars == <<wire, want, attempt, done, ended>>

None == "none"

NoWant == [op |-> None]

(* An order to buy or to sell, with a limit price or without one. *)
Orders == [op : {"order"}, action : {"buy", "sell"}, price : {0, 1}]

Wants == Orders \cup [op : {"entry", "exit", "cancel", "balance", "ping"}]

Changing(w) == w.op \in {"order", "entry", "exit", "cancel"}

(* What goes over the wire for an order: the amount is never part of it. *)
Payload(w) ==
  IF w.op # "order" THEN w
  ELSE [op |-> "order", price |-> w.price, stake |-> "all",
        type |-> IF w.price # 0 \/ w.action = "sell" THEN "limit" ELSE "market"]

ClientInit ==
  /\ wire = [r \in Requests |-> "idle"]
  /\ want = [r \in Requests |-> NoWant]
  /\ attempt = [r \in Requests |-> 0]
  /\ done = <<>>
  /\ ended = [r \in Requests |-> None]

(* A caller begins an operation and the first request goes out. *)
Ask(r) ==
  /\ wire[r] = "idle"
  /\ \E w \in Wants : want' = [want EXCEPT ![r] = w]
  /\ wire' = [wire EXCEPT ![r] = "sent"]
  /\ UNCHANGED <<attempt, done, ended>>

CarriedOut(r) == Append(done, [by |-> r, payload |-> Payload(want[r])])

(* The bot answers.  A good answer means that it did what was asked; a    *)
(* timeout, a broken connection and a server error leave that open.        *)
Serve(r, answer) ==
  /\ wire[r] = "sent"
  /\ wire' = [wire EXCEPT ![r] = answer]
  /\ \/ /\ answer \in {"good", "timeout", "broken", "server"} /\ Changing(want[r])
        /\ done' = CarriedOut(r)
     \/ /\ answer # "good" \/ ~Changing(want[r])
        /\ UNCHANGED done
  /\ UNCHANGED <<want, attempt, ended>>

Return(r, result) ==
  /\ wire' = [wire EXCEPT ![r] = "over"]
  /\ ended' = [ended EXCEPT ![r] =
                IF want[r].op # "ping" THEN result
                ELSE IF result = "answer" THEN "pong" ELSE "no pong"]
  /\ UNCHANGED <<want, attempt, done>>

(* Fault: the back-off sleeps, and the next attempt sends the order again. *)
BackOffSleeps(r) ==
  /\ wire' = [wire EXCEPT ![r] = "sent"]
  /\ attempt' = [attempt EXCEPT ![r] = @ + 1]
  /\ UNCHANGED <<want, done, ended>>

(* httpx.AsyncClient has no sleep: the call fails with an AttributeError. *)
BackOff(r) == Return(r, "AttributeError")

Retried(answer) == answer \in {"timeout", "broken", "server"}

(* The branches of the retry loop. *)
Attempt(r) ==
  \/ wire[r] = "good" /\ Return(r, "answer")
  \/ wire[r] = "limited" /\ BackOff(r)
  \/ wire[r] = "refused" /\ Return(r, "FreqtradeAPIError")
  \/ /\ Retried(wire[r])
     /\ IF attempt[r] < MaxRetries - 1 THEN BackOff(r) ELSE Return(r, "FreqtradeAPIError")

ClientNext ==
  \E r \in Requests :
    \/ Ask(r)
    \/ \E answer \in {"good", "timeout", "broken", "server", "limited", "refused"} :
         Serve(r, answer)
    \/ Attempt(r)

ClientSpec == ClientInit /\ [][ClientNext]_clientVars

------------------------------------------------------------------------------
ClientTypeOK ==
  /\ wire \in [Requests -> {"idle", "sent", "good", "timeout", "broken", "server",
                            "limited", "refused", "over"}]
  /\ want \in [Requests -> Wants \cup {NoWant}]
  /\ attempt \in [Requests -> 0..MaxRetries]
  /\ ended \in [Requests -> {None, "answer", "pong", "no pong", "FreqtradeAPIError",
                             "AttributeError"}]
  /\ \A i \in DOMAIN done : done[i].by \in Requests

(* No call of the client makes the bot act twice, whatever gets lost: an   *)
(* order that timed out after the bot placed it is not placed again.       *)
ActsAtMostOnce ==
  \A i, j \in DOMAIN done : done[i].by = done[j].by => i = j

(* The answer is the truth about the bot: an answer that is returned means *)
(* that the bot acted, and a refusal (a 4xx status) that it did not.       *)
AnswerIsTrue ==
  \A r \in Requests :
    LET acted == \E i \in DOMAIN done : done[i].by = r IN
    /\ (ended[r] = "answer" /\ Changing(want[r])) => acted
    /\ wire[r] \in {"idle", "limited", "refused"} => ~acted

(* What the callers of the client rely on: one call, one act of the bot at *)
(* most, and an answer that says whether it acted.                         *)
ClientIsTrue == ActsAtMostOnce /\ AnswerIsTrue
==============================================================================
