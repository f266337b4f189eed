------------------------------ MODULE Tracing ------------------------------
(***************************************************************************)
(* LLMTracer (agents/tracing.py): spans of calls of the LLM, started under *)
(* an id, completed or failed later in any order, kept in a history that   *)
(* completions cut to its newest half when it is full.                     *)
(***************************************************************************)
EXTENDS Integers, Sequences, FiniteSets, SequencesExt

CONSTANTS
    Callers,       \* the agents
    SpanIds,       \* the ids of spans; a caller may choose one in use
    MaxHistory,    \* max_history
    MaxSpans,      \* bound: spans that are started
    NoSpan         \* no span under an id

Serials == 1..MaxSpans

ASSUME TracingAssumption ==
    /\ MaxHistory \in Nat \ {0} /\ MaxSpans \in Nat
    /\ NoSpan \notin [serial : Serials, agent : Callers]

Ended == [serial : Serials, agent : Callers, ok : BOOLEAN, hit : BOOLEAN]

VARIABLES
    active,        \* _active: the span under an id, with its serial number
    spans,         \* _spans
    started,       \* the spans started so far
    all,           \* history: every span that ended, in the order of their ends
    replaced       \* history: the spans whose id was taken by another

tracingVars == <<active, spans, started, all, replaced>>

TracingTypeOK ==
    /\ active \in [SpanIds -> [serial : Serials, agent : Callers] \cup {NoSpan}]
    /\ spans \in Seq(Ended) /\ all \in Seq(Ended)
    /\ started \in 0..MaxSpans
    /\ replaced \subseteq Serials

TracingInit ==
    /\ active = [i \in SpanIds |-> NoSpan]
    /\ spans = <<>> /\ all = <<>>
    /\ started = 0 /\ replaced = {}

-----------------------------------------------------------------------------
StartSpan(i, agent) ==
    /\ started < MaxSpans
    /\ started' = started + 1
    /\ active' = [active EXCEPT ![i] = [serial |-> started + 1, agent |-> agent]]
    /\ replaced' = IF active[i] = NoSpan THEN replaced ELSE replaced \cup {active[i].serial}
    /\ UNCHANGED <<spans, all>>

Pop(i) == [active EXCEPT ![i] = NoSpan]

\* Fault: only a history that is one too long is cut.
TrimmedOnce(s) == IF Len(s) # MaxHistory + 1 THEN s ELSE Tail(s)

\* The last -(-MaxHistory // 2) spans of a history that is too long.
Trimmed(s) ==
    IF Len(s) <= MaxHistory THEN s
    ELSE SubSeq(s, Len(s) + 1 - (MaxHistory + 1) \div 2, Len(s))

EndOf(i, ok, hit) ==
    [serial |-> active[i].serial, agent |-> active[i].agent, ok |-> ok, hit |-> hit]

CompleteSpan(i, hit) ==
    /\ active[i] # NoSpan
    /\ active' = Pop(i)
    /\ spans' = Trimmed(Append(spans, EndOf(i, TRUE, hit)))
    /\ all' = Append(all, EndOf(i, TRUE, hit))
    /\ UNCHANGED <<started, replaced>>

\* A failed span is added to the history, which is not cut.
FailSpan(i) ==
    /\ active[i] # NoSpan
    /\ active' = Pop(i)
    /\ spans' = Append(spans, EndOf(i, FALSE, FALSE))
    /\ all' = Append(all, EndOf(i, FALSE, FALSE))
    /\ UNCHANGED <<started, replaced>>

-----------------------------------------------------------------------------
(* What is read: counts over the history.                                  *)

SpansOf(agent) == {k \in DOMAIN spans : spans[k].agent = agent}

AgentMetrics(agent) ==
    [calls |-> Cardinality(SpansOf(agent)),
     successes |-> Cardinality({k \in SpansOf(agent) : spans[k].ok})]

Metrics ==
    [calls |-> Len(spans),
     successes |-> Cardinality({k \in DOMAIN spans : spans[k].ok}),
     hits |-> Cardinality({k \in DOMAIN spans : spans[k].hit})]

\* A set of spans in a row, the one that started last first.
NewestIn(S) ==
    CHOOSE f \in [1..Cardinality(S) -> S] :
        \A j, k \in 1..Cardinality(S) : j < k => f[j].serial > f[k].serial

\* get_spans: of the spans of an agent the ones that started last, newest first.
GetSpans(limit, agent) ==
    LET chosen == NewestIn({spans[k] : k \in SpansOf(agent)})
    IN  SubSeq(chosen, 1, IF limit < Len(chosen) THEN limit ELSE Len(chosen))

-----------------------------------------------------------------------------
TracingNext ==
    \E i \in SpanIds :
        \/ \E agent \in Callers : StartSpan(i, agent)
        \/ \E hit \in BOOLEAN : CompleteSpan(i, hit)
        \/ FailSpan(i)

TracingSpec == TracingInit /\ [][TracingNext]_tracingVars

-----------------------------------------------------------------------------
OpenSerials == {active[i].serial : i \in {j \in SpanIds : active[j] # NoSpan}}
EndedSerials == {all[k].serial : k \in DOMAIN all}

\* A span ends once, and none is forgotten: it is active, has ended, or its id
\* was taken by a later one (tracing.py:129).
EverySpanAccounted ==
    /\ 1..started = OpenSerials \cup EndedSerials \cup replaced
    /\ OpenSerials \cap EndedSerials = {} /\ Cardinality(EndedSerials) = Len(all)

\* The history holds the spans that ended last, without a gap.
HistoryIsRecent == IsSuffix(spans, all)

\* A run of failures makes the history longer than its bound (tracing.py:195),
\* but the next completion brings it back, however long it was.
CompletionBoundsHistory ==
    Len(spans) > MaxHistory => ~Last(spans).ok

\* A reader sees no span before one of the same agent that started later, and
\* misses none for an older one, although spans end in another order.
NewestFirst ==
    \A agent \in Callers :
        LET seen == GetSpans(2, agent)
        IN  /\ \A k \in 2..Len(seen) : seen[k - 1].serial > seen[k].serial
            /\ \A k \in SpansOf(agent) :
                 spans[k] \in ToSet(seen) \/ \A j \in DOMAIN seen : seen[j].serial > spans[k].serial

\* What the tracer tells is true: no span is lost or told twice, and the history
\* is the newest part of all that ended, bounded, and read newest first.
TraceIsTrue == EverySpanAccounted /\ HistoryIsRecent /\ CompletionBoundsHistory /\ NewestFirst
=============================================================================
