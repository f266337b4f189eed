-------------------------- MODULE ExecutionService --------------------------
(***************************************************************************)
(* ExecutionService.execute (execution/service.py) with the gates it puts  *)
(* an order through: approval, OrderValidator (execution/validator.py),    *)
(* RiskEngine (risk/engine.py) and RateLimiter, then the audit log and the *)
(* request to Freqtrade.  Several calls may be under way at once.          *)
(*                                                                         *)
(* execute() suspends only while it waits for approval and for Freqtrade:  *)
(* from the end of the approval to the sending of the request is one step. *)
(* Approval is the abstract gate that module Approval implements.          *)
(*                                                                         *)
(* OrderSize, StopLossSet and Balance are what execute() hands the gates.  *)
(* The code fixes them at 0.0 (service.py:183), None (validator.py:26) and *)
(* 0.0 (engine.py:130); MCExecution_shipped.cfg has these values, the      *)
(* other configurations ask what the gates guarantee to orders with a size.*)
(***************************************************************************)
EXTENDS Integers, FiniteSets, FiniteSetsExt

CONSTANTS
    Calls,             \* the calls of execute()
    Symbols,           \* the traded pairs
    ApprovalRequired,  \* execution.approval.enabled
    OrderSize,         \* OrderRequest.size_usd
    StopLossSet,       \* TRUE when OrderRequest.stop_loss is not None
    Balance,           \* validate_order's total_balance
    MinSize, MaxSize,  \* min_order_size, max_order_size
    RiskPct, StopPct,  \* risk_per_trade, stop_loss: percentages
    MaxPerMinute,      \* execution.rate_limit
    Window,            \* ticks in the rate limiter's minute
    MaxRecent,         \* how many order keys the validator keeps (1000)
    KeepRecent,        \* how many are left when it forgets (500)
    DbFails            \* TRUE when the database may be unreachable

ASSUME ExecutionAssumption ==
    /\ IsFiniteSet(Calls)
    /\ {ApprovalRequired, StopLossSet, DbFails} \subseteq BOOLEAN
    /\ {OrderSize, Balance, MinSize, MaxSize, RiskPct} \subseteq Nat
    /\ StopPct \in Nat \ {0}
    /\ MaxPerMinute \in Nat \ {0} /\ Window \in Nat \ {0}
    /\ MaxRecent \in Nat /\ KeepRecent \in 0..MaxRecent

VARIABLES
    dry, verdict, outcome,   \* the approval gate
    pc,        \* pc[c]: where the call is suspended
    symbol,    \* symbol[c]: decision.symbol
    action,    \* action[c]: decision.action
    result,    \* result[c]: the ExecutionResult, or why there is none
    audit,     \* audit[c]: the rows saved for c by _audit_log
    recent,    \* OrderValidator._recent_orders; the size is the same for all
    stamp,     \* stamp[c]: age of c's record in the rate limiter, Window if none
    wire,      \* wire[c]: what became of c's request to Freqtrade
    killRow,   \* the database holds an active KillSwitchEvent
    drawdown,  \* the latest PortfolioSnapshot exceeds max_drawdown
    dbUp,      \* the database can be reached
    met,       \* history: met[c], the calls that were sent while c was
    crowd      \* history: crowd[s], the most calls for s sent at one time

vars == <<dry, verdict, outcome, pc, symbol, action, result, audit, recent,
          stamp, wire, killRow, drawdown, dbUp, met, crowd>>

gate == <<dry, verdict, outcome>>
world == <<killRow, drawdown, dbUp>>
request == <<symbol, action>>

Gate == INSTANCE ApprovalGate WITH Requests <- Calls

Actions == {"buy", "sell", "hold"}
NoCall == "none"
Rejections == {"not_granted", "invalid", "risk", "rate", "failed"}
Results == {NoCall, "held", "executed", "cancelled"} \cup Rejections

Key(c) == <<symbol[c], action[c]>>
Sent(s) == {c \in Calls : pc[c] = "sent" /\ symbol[c] = s}
Live(s) == {c \in Calls : stamp[c] < Window /\ symbol[c] = s}

TypeOK ==
    /\ verdict \in [Calls -> {"none", "open"} \cup Gate!Answers]
    /\ outcome \in [Calls -> {"idle", "waiting", "go", "stop"}]
    /\ pc \in [Calls -> {"new", "approving", "sent", "done"}]
    /\ symbol \in [Calls -> Symbols] /\ action \in [Calls -> Actions]
    /\ result \in [Calls -> Results]
    /\ audit \in [Calls -> SUBSET {"submitted", "filled", "rejected"}]
    /\ recent \subseteq Symbols \X {"buy", "sell"}
    /\ stamp \in [Calls -> 0..Window]
    /\ wire \in [Calls -> {"none", "sent", "placed", "refused"}]
    /\ {killRow, drawdown, dbUp, dry} \subseteq BOOLEAN
    /\ met \in [Calls -> SUBSET Calls]
    /\ crowd \in [Symbols -> Nat]

Init ==
    /\ Gate!GateInit
    /\ pc = [c \in Calls |-> "new"]
    /\ symbol \in [Calls -> Symbols] /\ action \in [Calls -> Actions]
    /\ result = [c \in Calls |-> NoCall]
    /\ audit = [c \in Calls |-> {}]
    /\ recent = {}
    /\ stamp = [c \in Calls |-> Window]
    /\ wire = [c \in Calls |-> "none"]
    /\ killRow = FALSE /\ drawdown = FALSE /\ dbUp = TRUE
    /\ met = [c \in Calls |-> {}]
    /\ crowd = [s \in Symbols |-> 0]

-----------------------------------------------------------------------------
(* The gates.                                                              *)

\* OrderValidator.validate finds no error.
Valid(c) ==
    /\ action[c] \in {"buy", "sell"}
    /\ OrderSize > 0
    /\ OrderSize >= MinSize /\ OrderSize <= MaxSize
    /\ Key(c) \notin recent

\* RiskEngine.is_kill_switch_active: a database that cannot be read counts as
\* an active switch.
KillSwitchSeen == ~dbUp \/ killRow

\* The size is within the risk per trade.
SizeWithinRisk == OrderSize > 0 /\ OrderSize * StopPct <= Balance * RiskPct

\* RiskEngine.validate_order.  Positions are never passed, so neither their
\* number nor the exposure is tested; the daily loss is computed from rows
\* whose size is 0.0 and always passes; the drawdown test passes on an error.
RiskPasses ==
    /\ ~KillSwitchSeen
    /\ StopLossSet
    /\ SizeWithinRisk
    /\ ~(dbUp /\ drawdown)

\* RateLimiter.check
RateAllows(c) == Cardinality(Live(symbol[c])) < MaxPerMinute

\* Fault: after an approval the risk engine is not asked again.
StopperTrustingApproval(c) ==
    CASE ~Valid(c) -> "invalid"
      [] Valid(c) /\ outcome[c] # "waiting" /\ ~RiskPasses -> "risk"
      [] Valid(c) /\ ~RateAllows(c) -> "rate"
      [] OTHER -> "none"

\* Which gate stops c, "none" if it may be sent.
Stopper(c) ==
    CASE ~Valid(c) -> "invalid"
      [] Valid(c) /\ ~RiskPasses -> "risk"
      [] Valid(c) /\ RiskPasses /\ ~RateAllows(c) -> "rate"
      [] OTHER -> "none"

\* _audit_log, which swallows a database error.
Audit(c, row) == audit' = [audit EXCEPT ![c] = IF dbUp THEN @ \cup {row} ELSE @]

Finish(c, why) ==
    /\ pc' = [pc EXCEPT ![c] = "done"]
    /\ result' = [result EXCEPT ![c] = why]

\* From the end of the approval to the request's leaving: lines 180 to 221.
Submit(c) ==
    IF Stopper(c) # "none"
    THEN /\ Finish(c, Stopper(c))
         /\ Audit(c, "rejected")
         /\ UNCHANGED <<wire, met, crowd>>
    ELSE /\ pc' = [pc EXCEPT ![c] = "sent"]
         /\ wire' = [wire EXCEPT ![c] = "sent"]
         /\ Audit(c, "submitted")
         /\ LET others == {d \in Calls : pc[d] = "sent"}
                s == symbol[c]
            IN  /\ met' = [d \in Calls |->
                             IF d = c THEN others
                             ELSE IF d \in others THEN met[d] \cup {c} ELSE met[d]]
                /\ crowd' = [crowd EXCEPT ![s] =
                               IF Cardinality(Sent(s)) >= @ THEN Cardinality(Sent(s)) + 1 ELSE @]
         /\ UNCHANGED result

-----------------------------------------------------------------------------
(* The steps of a call.                                                    *)

Hold(c) ==
    /\ pc[c] = "new"
    /\ action[c] = "hold"
    /\ Finish(c, "held")
    /\ UNCHANGED <<gate, request, audit, recent, stamp, wire, world, met, crowd>>

\* Without approval, or in a dry run, a call goes straight to the gates.
Execute(c) ==
    /\ pc[c] = "new"
    /\ action[c] # "hold"
    /\ IF ApprovalRequired THEN Gate!GoDry(c) ELSE UNCHANGED gate
    /\ Submit(c)
    /\ UNCHANGED <<request, recent, stamp, world>>

AskApproval(c) ==
    /\ pc[c] = "new"
    /\ action[c] # "hold"
    /\ ApprovalRequired
    /\ Gate!Open(c)
    /\ IF outcome'[c] = "stop"
       THEN Finish(c, "not_granted")
       ELSE pc' = [pc EXCEPT ![c] = "approving"] /\ UNCHANGED result
    /\ UNCHANGED <<request, audit, recent, stamp, wire, world, met, crowd>>

\* Fault: any end of the wait counts as consent.
GrantedByDefault(c) ==
    /\ pc[c] = "approving"
    /\ Gate!Go(c) \/ Gate!Stop(c)
    /\ Submit(c)
    /\ UNCHANGED <<request, recent, stamp, world>>

Granted(c) ==
    /\ pc[c] = "approving"
    /\ Gate!Go(c)
    /\ Submit(c)
    /\ UNCHANGED <<request, recent, stamp, world>>

\* Refused, expired or timed out: no row is written.
NotGranted(c) ==
    /\ pc[c] = "approving"
    /\ Gate!Stop(c)
    /\ Finish(c, "not_granted")
    /\ UNCHANGED <<request, audit, recent, stamp, wire, world, met, crowd>>

Trimmed(S) ==
    IF Cardinality(S) > MaxRecent THEN kSubset(KeepRecent, S) ELSE {S}

\* Fault: a key is remembered by its symbol's sell side only.
RecordOrderSellsOnly(c) ==
    recent' \in Trimmed(IF action[c] = "sell" THEN recent \cup {Key(c)} ELSE recent)

\* OrderValidator.record_order: the set forgets an arbitrary part of itself.
RecordOrder(c) == recent' \in Trimmed(recent \cup {Key(c)})

\* Freqtrade's answer is positive.
Answered(c) ==
    /\ pc[c] = "sent"
    /\ wire[c] = "placed"
    /\ stamp' = [stamp EXCEPT ![c] = 0]
    /\ RecordOrder(c)
    /\ Audit(c, "filled")
    /\ Finish(c, "executed")
    /\ UNCHANGED <<gate, request, wire, world, met, crowd>>

\* Fault: the client waits for an answer without a timeout.
FailedIfRefused(c) ==
    /\ pc[c] = "sent"
    /\ wire[c] = "refused"
    /\ Audit(c, "rejected")
    /\ Finish(c, "failed")
    /\ UNCHANGED <<gate, request, recent, stamp, wire, world, met, crowd>>

\* An exception: the order was refused, or the answer was lost, whatever
\* Freqtrade did or will do with the request.  The client's own retries end in
\* an AttributeError (client.py:88, 102, 114, 129), which also arrives here.
Failed(c) ==
    /\ pc[c] = "sent"
    /\ Audit(c, "rejected")
    /\ Finish(c, "failed")
    /\ UNCHANGED <<gate, request, recent, stamp, wire, world, met, crowd>>

\* The task is cancelled: CancelledError passes both except clauses.
Cancel(c) ==
    /\ \/ pc[c] = "sent" /\ UNCHANGED gate
       \/ pc[c] = "approving" /\ Gate!Stop(c)
    /\ Finish(c, "cancelled")
    /\ UNCHANGED <<request, audit, recent, stamp, wire, world, met, crowd>>

-----------------------------------------------------------------------------
(* The surroundings.                                                       *)

\* Freqtrade takes or refuses a request, perhaps after the caller has gone.
Freqtrade(c) ==
    /\ wire[c] = "sent"
    /\ \E w \in {"placed", "refused"} : wire' = [wire EXCEPT ![c] = w]
    /\ UNCHANGED <<gate, pc, request, result, audit, recent, stamp, world, met, crowd>>

HumanAnswers(c, v) ==
    /\ Gate!Answer({c}, v)
    /\ UNCHANGED <<pc, request, result, audit, recent, stamp, wire, world, met, crowd>>

\* Repository.save_kill_switch, deactivate_kill_switch and save_snapshot, by
\* whoever calls them; the database comes and goes.
Database ==
    /\ \/ dbUp /\ killRow' = ~killRow /\ UNCHANGED <<drawdown, dbUp>>
       \/ dbUp /\ drawdown' = ~drawdown /\ UNCHANGED <<killRow, dbUp>>
       \/ DbFails /\ dbUp' = ~dbUp /\ UNCHANGED <<killRow, drawdown>>
    /\ UNCHANGED <<gate, pc, request, result, audit, recent, stamp, wire, met, crowd>>

\* A part of the rate limiter's minute passes.
Tick ==
    /\ stamp' = [c \in Calls |-> IF stamp[c] < Window THEN stamp[c] + 1 ELSE Window]
    /\ UNCHANGED <<gate, pc, request, result, audit, recent, wire, world, met, crowd>>

-----------------------------------------------------------------------------
CallStep(c) ==
    \/ Hold(c) \/ Execute(c) \/ AskApproval(c) \/ Granted(c) \/ NotGranted(c)
    \/ Answered(c) \/ Failed(c)

Next ==
    \/ \E c \in Calls :
          \/ CallStep(c) \/ Cancel(c) \/ Freqtrade(c)
          \/ \E v \in Gate!Answers : HumanAnswers(c, v)
    \/ Database
    \/ Tick

Spec == Init /\ [][Next]_vars

\* A begun call is resumed: _handle_approval returns (Approval, CallerReturns)
\* and the HTTP client answers or times out.
FairSpec ==
    /\ Spec
    /\ \A c \in Calls :
          /\ WF_vars(Granted(c) \/ NotGranted(c))
          /\ WF_vars(Answered(c) \/ Failed(c))

-----------------------------------------------------------------------------
(* Safety.                                                                 *)

\* What is reported or audited as filled is at Freqtrade, and what is audited
\* as rejected was not reported as executed.
FilledIsPlaced ==
    \A c \in Calls :
        /\ result[c] = "executed" \/ "filled" \in audit[c] => wire[c] = "placed"
        /\ "rejected" \in audit[c] => result[c] \in Rejections

\* A request that needed a human's consent left only with it.
SentIsGranted ==
    \A c \in Calls :
        ApprovalRequired /\ ~dry /\ wire[c] # "none" => verdict[c] = "approved"

ExecutedKeys == {Key(c) : c \in {d \in Calls : result[d] = "executed"}}

\* The same order is executed twice only by two calls whose requests were under
\* way together, the duplicate check reading before the await what is written
\* after it (validator.py:97, service.py:230), or once more different orders
\* were executed than the validator remembers.
DuplicatesOnlyByOverlap ==
    \A c, d \in Calls :
        (/\ c # d
         /\ result[c] = "executed" /\ result[d] = "executed"
         /\ Key(c) = Key(d))
            => d \in met[c] \/ Cardinality(ExecutedKeys) > MaxRecent

\* The minute's records of a pair exceed the limit by no more than the calls
\* that shared the check (service.py:207, 229): one at a time, not at all.
RateBound ==
    \A s \in Symbols :
        Live(s) # {} => Cardinality(Live(s)) + Cardinality(Sent(s))
                          <= MaxPerMinute - 1 + crowd[s]

\* What three racing calls cannot break: what is reported is what Freqtrade has,
\* an order is doubled only by an overlap, the limiter's bound is exceeded only
\* by calls that shared a check.
ExecutionSafe ==
    /\ TypeOK
    /\ FilledIsPlaced
    /\ DuplicatesOnlyByOverlap
    /\ RateBound

\* No request leaves while the database shows an active kill switch, or cannot
\* be asked, however long the approval took.
NothingSentUnderKillSwitch ==
    [][\A c \in Calls : wire[c] = "none" /\ wire'[c] # "none" => dbUp /\ ~killRow]_vars

(* Liveness.                                                               *)

\* A call that has begun ends.
CallEnds == \A c \in Calls : pc[c] \in {"approving", "sent"} ~> pc[c] = "done"

(* Claims of the documents, which the code does not keep.                  *)

\* The order that execute() builds from a buy or a sell decision is one its own
\* validator accepts, duplicates apart (service.py:148, "Forward to Freqtrade").
BuiltOrderIsValid ==
    \A c \in Calls : result[c] = "invalid" => Key(c) \in recent
=============================================================================
