---------------------------- MODULE ApprovalGate ----------------------------
(***************************************************************************)
(* What human-in-the-loop approval promises to the rest of the execution   *)
(* service, with no clock, no polling and no tables: a trade that asked    *)
(* for approval goes ahead only after the one, final, verdict on it was    *)
(* "approved"; it may be stopped at any time, for any reason.  Approval    *)
(* implements this specification.                                          *)
(***************************************************************************)
CONSTANT Requests   \* the trades that ask for approval

VARIABLES
    dry,        \* TRUE when every trade is approved without asking
    verdict,    \* verdict[r]: what has been answered to r
    outcome     \* outcome[r]: what the asking trade did

gateVars == <<dry, verdict, outcome>>

Answers == {"approved", "rejected", "expired"}

GateInit ==
    /\ dry \in BOOLEAN
    /\ verdict = [r \in Requests |-> "none"]
    /\ outcome = [r \in Requests |-> "idle"]

\* The trade asks, and waits unless it has no time to.
Open(r) ==
    /\ ~dry
    /\ outcome[r] = "idle"
    /\ verdict' = [verdict EXCEPT ![r] = "open"]
    /\ \E o \in {"waiting", "stop"} : outcome' = [outcome EXCEPT ![r] = o]
    /\ UNCHANGED dry

\* A dry run does not ask.
GoDry(r) ==
    /\ dry
    /\ outcome[r] = "idle"
    /\ outcome' = [outcome EXCEPT ![r] = "go"]
    /\ UNCHANGED <<dry, verdict>>

\* Some open requests are answered, each once.
Answer(S, v) ==
    /\ S # {}
    /\ \A r \in S : verdict[r] = "open"
    /\ verdict' = [r \in Requests |-> IF r \in S THEN v ELSE verdict[r]]
    /\ UNCHANGED <<dry, outcome>>

Go(r) ==
    /\ outcome[r] = "waiting"
    /\ verdict[r] = "approved"
    /\ outcome' = [outcome EXCEPT ![r] = "go"]
    /\ UNCHANGED <<dry, verdict>>

Stop(r) ==
    /\ outcome[r] = "waiting"
    /\ outcome' = [outcome EXCEPT ![r] = "stop"]
    /\ UNCHANGED <<dry, verdict>>

GateNext ==
    \/ \E r \in Requests : Open(r) \/ GoDry(r) \/ Go(r) \/ Stop(r)
    \/ \E S \in SUBSET Requests, v \in Answers : Answer(S, v)

GateSpec == GateInit /\ [][GateNext]_gateVars
=============================================================================
