----------------------------- MODULE TaskBoard -----------------------------
(***************************************************************************)
(* What the lane scheduler promises to those who submit tasks, with no     *)
(* workers and no queues: a task is performed once at most, in its own     *)
(* lane, and never begins while a more urgent one, or an equally urgent    *)
(* one submitted earlier, is waiting there.  LaneScheduler implements it.  *)
(***************************************************************************)
EXTENDS Integers

CONSTANTS
    Tasks,        \* what may be submitted: numbers, in the order of submission
    Lanes,        \* the lanes
    Priorities    \* the urgencies considered, higher first

VARIABLES
    lane, prio,   \* lane[t], prio[t]: as submitted, 1 and 0 before
    submitted,    \* the tasks that have been
    waiting,      \* waiting[l]: the tasks of l that have not begun
    busy          \* busy[l]: those that have begun and not ended

boardVars == <<lane, prio, submitted, waiting, busy>>

Before(t, u) == prio[t] > prio[u] \/ (prio[t] = prio[u] /\ t < u)

BoardInit ==
    /\ lane = [t \in Tasks |-> 1] /\ prio = [t \in Tasks |-> 0]
    /\ submitted = {}
    /\ waiting = [l \in Lanes |-> {}] /\ busy = [l \in Lanes |-> {}]

Add(t, l, p) ==
    /\ t \notin submitted
    /\ \A u \in Tasks : u < t => u \in submitted
    /\ submitted' = submitted \cup {t}
    /\ lane' = [lane EXCEPT ![t] = l]
    /\ prio' = [prio EXCEPT ![t] = p]
    /\ waiting' = [waiting EXCEPT ![l] = @ \cup {t}]
    /\ UNCHANGED busy

\* The most urgent task of a lane leaves the queue; a short one ends at once.
Begin(t, ends) ==
    /\ t \in waiting[lane[t]]
    /\ \A u \in waiting[lane[t]] \ {t} : Before(t, u)
    /\ waiting' = [waiting EXCEPT ![lane[t]] = @ \ {t}]
    /\ busy' = IF ends THEN busy ELSE [busy EXCEPT ![lane[t]] = @ \cup {t}]
    /\ UNCHANGED <<lane, prio, submitted>>

End(t) ==
    /\ t \in busy[lane[t]]
    /\ busy' = [busy EXCEPT ![lane[t]] = @ \ {t}]
    /\ UNCHANGED <<lane, prio, submitted, waiting>>

BoardNext ==
    \E t \in Tasks :
        \/ \E l \in Lanes, p \in Priorities : Add(t, l, p)
        \/ \E ends \in BOOLEAN : Begin(t, ends)
        \/ End(t)

BoardSpec == BoardInit /\ [][BoardNext]_boardVars
=============================================================================
