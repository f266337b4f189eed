--------------------------- MODULE LaneScheduler ---------------------------
(***************************************************************************)
(* LaneScheduler (agents/scheduler.py): tasks wait in one priority queue   *)
(* per lane, and start() gives each lane a worker coroutine that takes and *)
(* executes them one after the other.                                      *)
(*                                                                         *)
(* A worker suspends in its sleep, when the queue is empty, and in an      *)
(* asynchronous executor; from one task to the next it keeps the event     *)
(* loop, and only its plain executors may submit meanwhile.  stop()        *)
(* suspends at each worker it waits for, so submit() and start() may be    *)
(* called in its middle, but one stop() is under way at a time.  Nothing   *)
(* keeps a caller from starting a scheduler twice: overlapped tells when   *)
(* one did.  Executors let a CancelledError pass and may also raise one of *)
(* their own, from an inner task that was cancelled.                       *)
(***************************************************************************)
EXTENDS Integers, Sequences, FiniteSets, SequencesExt

CONSTANTS
    MaxTasks,     \* bound: how many tasks are submitted in all
    NumLanes,     \* how many lanes there are
    Priorities,   \* the urgencies considered, higher first
    MaxWorkers,   \* bound: how many coroutines start() may create in all
    None,         \* no worker, no task
    MaxHistory,   \* the length at which a lane's history is cut (500)
    KeepHistory,  \* what is left of it (250)
    Limit         \* max_concurrent of every lane

Lanes == 1..NumLanes
Tasks == 1..MaxTasks       \* numbered in the order of created_at
Workers == 1..MaxWorkers   \* numbered as they are created

ASSUME LaneAssumption ==
    /\ NumLanes \in Nat \ {0} /\ Limit \in Nat \ {0}
    /\ MaxTasks \in Nat /\ MaxWorkers \in Nat
    /\ Priorities \subseteq Int
    /\ None \notin Nat
    /\ MaxHistory \in Nat \ {0} /\ KeepHistory \in 1..MaxHistory

VARIABLES
    running,      \* _running
    slot,         \* slot[l]: _workers[l]
    pc,           \* pc[w]: where worker w is; "rolling" at its while test
    home,         \* home[w]: w's lane
    job,          \* job[w]: the task w executes
    doomed,       \* doomed[w]: cancel() was called on w, which has not ended yet
    queue,        \* queue[l]: _queue of lane l
    active,       \* active[l]: the tasks in _active of lane l
    history,      \* history[l]: _history of lane l
    status,       \* status[t]: TaskStatus, or "new" before submit()
    lane, prio,   \* lane[t], prio[t]: submit()'s arguments, 1 and 0 before
    stopAt,       \* the lane whose worker stop() waits for, 0 if none
    awaited,      \* that worker
    overlapped,   \* history: start() came before the earlier workers had ended
    ended         \* history: ended[l], every task that ended in l, in order

vars == <<running, slot, pc, home, job, doomed, queue, active, history, status,
          lane, prio, stopAt, awaited, overlapped, ended>>

workerVars == <<slot, pc, home, job, doomed>>
taskVars == <<queue, active, history, status, ended>>
ticket == <<lane, prio>>
stopper == <<stopAt, awaited>>

Finals == {"completed", "failed", "cancelled"}
Live == {w \in Workers : pc[w] \in {"ready", "rolling", "busy"}}
Created == Cardinality({w \in Workers : pc[w] # "unborn"})

\* The event loop is not in the hands of a worker (other than w).
Quiet == \A v \in Workers : pc[v] # "rolling"
HasTurn(w) == \A v \in Workers \ {w} : pc[v] # "rolling"

TypeOK ==
    /\ running \in BOOLEAN
    /\ slot \in [Lanes -> Workers \cup {None}]
    /\ pc \in [Workers -> {"unborn", "ready", "rolling", "busy", "dead"}]
    /\ home \in [Workers -> Lanes]
    /\ job \in [Workers -> Tasks \cup {None}]
    /\ doomed \in [Workers -> BOOLEAN]
    /\ queue \in [Lanes -> Seq(Tasks)]
    /\ active \in [Lanes -> SUBSET Tasks]
    /\ history \in [Lanes -> Seq(Tasks)]
    /\ \A l \in Lanes : Len(history[l]) <= MaxHistory
    /\ status \in [Tasks -> {"new", "pending", "running"} \cup Finals]
    /\ lane \in [Tasks -> Lanes] /\ prio \in [Tasks -> Priorities \cup {0}]
    /\ stopAt \in 0..NumLanes /\ awaited \in Workers \cup {None}
    /\ overlapped \in BOOLEAN
    /\ ended \in [Lanes -> Seq(Tasks)]

Init ==
    /\ running = FALSE
    /\ slot = [l \in Lanes |-> None]
    /\ pc = [w \in Workers |-> "unborn"]
    /\ home = [w \in Workers |-> 1]
    /\ job = [w \in Workers |-> None]
    /\ doomed = [w \in Workers |-> FALSE]
    /\ queue = [l \in Lanes |-> <<>>]
    /\ active = [l \in Lanes |-> {}]
    /\ history = [l \in Lanes |-> <<>>]
    /\ status = [t \in Tasks |-> "new"]
    /\ lane = [t \in Tasks |-> 1] /\ prio = [t \in Tasks |-> 0]
    /\ stopAt = 0 /\ awaited = None /\ overlapped = FALSE
    /\ ended = [l \in Lanes |-> <<>>]

-----------------------------------------------------------------------------
\* Fault: the queue is kept in order of submission.
EnqueuedLast(q, t, p) == Append(q, t)

\* Lane.enqueue: the sort by (-priority, created_at) is stable and the queue was
\* sorted, so the new task lands behind all those of its own priority.
Enqueued(q, t, p) ==
    LET ahead == Cardinality({i \in DOMAIN q : prio[q[i]] >= p})
    IN  SubSeq(q, 1, ahead) \o <<t>> \o SubSeq(q, ahead + 1, Len(q))

Submit(t, l, p) ==
    /\ status[t] = "new"
    /\ \A u \in 1..(t - 1) : status[u] # "new"
    /\ status' = [status EXCEPT ![t] = "pending"]
    /\ lane' = [lane EXCEPT ![t] = l]
    /\ prio' = [prio EXCEPT ![t] = p]
    /\ queue' = [queue EXCEPT ![l] = Enqueued(@, t, p)]
    /\ UNCHANGED <<running, workerVars, active, history, stopper, overlapped, ended>>

\* start(): a new worker for every lane, whatever became of the old ones.
Start ==
    /\ Quiet
    /\ overlapped' = (overlapped \/ running \/ stopAt # 0)
    /\ Created + NumLanes <= MaxWorkers
    /\ slot' = [l \in Lanes |-> Created + l]
    /\ pc' = [w \in Workers |-> IF w - Created \in Lanes THEN "ready" ELSE pc[w]]
    /\ home' = [w \in Workers |-> IF w - Created \in Lanes THEN w - Created ELSE home[w]]
    /\ running' = TRUE
    /\ UNCHANGED <<job, doomed, taskVars, ticket, stopper>>

\* stop(): cancel the workers it knows of, then wait for the first.
Stop ==
    /\ Quiet
    /\ stopAt = 0
    /\ running' = FALSE
    /\ IF slot[1] = None
       THEN UNCHANGED <<doomed, stopper>>
       ELSE /\ doomed' = [w \in Workers |->
                            \/ doomed[w]
                            \/ w \in Live /\ \E l \in Lanes : slot[l] = w]
            /\ stopAt' = 1 /\ awaited' = slot[1]
    /\ UNCHANGED <<slot, pc, home, job, taskVars, ticket, overlapped>>

\* The awaited worker has ended: on to the one that is next in _workers now.
StopGoesOn ==
    /\ Quiet
    /\ stopAt # 0
    /\ pc[awaited] = "dead"
    /\ IF stopAt < NumLanes
       THEN stopAt' = stopAt + 1 /\ awaited' = slot[stopAt + 1]
       ELSE stopAt' = 0 /\ awaited' = None
    /\ UNCHANGED <<running, workerVars, taskVars, ticket, overlapped>>

-----------------------------------------------------------------------------
(* The workers.                                                            *)

\* What the finally clause makes of the history.
Recorded(h, t) ==
    LET all == Append(h, t)
    IN  IF Len(all) > MaxHistory
        THEN SubSeq(all, Len(all) - KeepHistory + 1, Len(all)) ELSE all

\* t has ended in lane l with status s.
Conclude(t, l, s) ==
    /\ status' = [status EXCEPT ![t] = s]
    /\ active' = [active EXCEPT ![l] = @ \ {t}]
    /\ history' = [history EXCEPT ![l] = Recorded(@, t)]
    /\ ended' = [ended EXCEPT ![l] = Append(@, t)]

CanTake(w) ==
    /\ HasTurn(w)
    /\ pc[w] \in {"ready", "rolling"} /\ ~doomed[w]
    /\ running
    /\ queue[home[w]] # <<>>

\* The worker takes the head of the queue and suspends in its executor.
Take(w) ==
    /\ CanTake(w)
    /\ LET t == Head(queue[home[w]])
       IN  /\ status' = [status EXCEPT ![t] = "running"]
           /\ active' = [active EXCEPT ![home[w]] = @ \cup {t}]
           /\ job' = [job EXCEPT ![w] = t]
    /\ queue' = [queue EXCEPT ![home[w]] = Tail(@)]
    /\ pc' = [pc EXCEPT ![w] = "busy"]
    /\ UNCHANGED <<running, slot, home, doomed, history, ticket, overlapped, stopper, ended>>

\* The same with a plain function, which ends before anything else happens.
TakeAndRun(w, s) ==
    /\ CanTake(w)
    /\ s \in Finals
    /\ Conclude(Head(queue[home[w]]), home[w], s)
    /\ queue' = [queue EXCEPT ![home[w]] = Tail(@)]
    /\ pc' = [pc EXCEPT ![w] = IF s = "cancelled" THEN "dead" ELSE "rolling"]
    /\ UNCHANGED <<running, slot, home, job, doomed, ticket, overlapped, stopper>>

Release(w, next) ==
    /\ job' = [job EXCEPT ![w] = None]
    /\ pc' = [pc EXCEPT ![w] = next]
    /\ doomed' = [doomed EXCEPT ![w] = FALSE]

\* The executor returns or raises.
Finish(w, s) ==
    /\ Quiet
    /\ pc[w] = "busy" /\ ~doomed[w]
    /\ s \in {"completed", "failed"}
    /\ Conclude(job[w], home[w], s)
    /\ Release(w, "rolling")
    /\ UNCHANGED <<running, slot, home, queue, ticket, overlapped, stopper>>

\* Fault: the task of a cancelled worker stays in _active.
CancelledKeepingActive(w) ==
    /\ Quiet
    /\ pc[w] = "busy"
    /\ status' = [status EXCEPT ![job[w]] = "cancelled"]
    /\ Release(w, "dead")
    /\ UNCHANGED <<running, slot, home, queue, active, history, ticket, overlapped, stopper, ended>>

\* A CancelledError comes out of the executor, stop()'s or an inner one, and
\* ends the worker.
Cancelled(w) ==
    /\ Quiet
    /\ pc[w] = "busy"
    /\ Conclude(job[w], home[w], "cancelled")
    /\ Release(w, "dead")
    /\ UNCHANGED <<running, slot, home, queue, ticket, overlapped, stopper>>

\* The queue is empty: the worker sleeps.
Rest(w) ==
    /\ pc[w] = "rolling"
    /\ running /\ queue[home[w]] = <<>>
    /\ pc' = [pc EXCEPT ![w] = "ready"]
    /\ UNCHANGED <<running, slot, home, job, doomed, taskVars, ticket, overlapped, stopper>>

\* A worker without a task ends: cancelled in its sleep, or out of the loop.
Exit(w) ==
    /\ HasTurn(w)
    /\ pc[w] \in {"ready", "rolling"}
    /\ doomed[w] \/ ~running
    /\ pc' = [pc EXCEPT ![w] = "dead"]
    /\ doomed' = [doomed EXCEPT ![w] = FALSE]
    /\ UNCHANGED <<running, slot, home, job, taskVars, ticket, overlapped, stopper>>

-----------------------------------------------------------------------------
WorkerStep(w) ==
    \/ Take(w)
    \/ \E s \in Finals : TakeAndRun(w, s) \/ Finish(w, s)
    \/ Cancelled(w) \/ Rest(w) \/ Exit(w)

Next ==
    \/ \E t \in Tasks, l \in Lanes, p \in Priorities : Submit(t, l, p)
    \/ Start \/ Stop \/ StopGoesOn
    \/ \E w \in Workers : WorkerStep(w)

Spec == Init /\ [][Next]_vars

\* The event loop runs what is ready, and executors return.
FairSpec ==
    /\ Spec
    /\ WF_vars(StopGoesOn)
    /\ \A w \in Workers : WF_vars(WorkerStep(w))

-----------------------------------------------------------------------------
(* Safety.                                                                 *)

Entries(s, t) == Cardinality({i \in DOMAIN s : s[i] = t})
Holders(t) == {w \in Workers : job[w] = t}

\* A task is exactly where its status says, and only there: get_task and
\* get_stats never lose one, see one twice, or see it in another lane.
Accounted ==
    \A t \in Tasks, l \in Lanes :
        LET here(s) == status[t] = s /\ lane[t] = l
        IN  /\ Entries(queue[l], t) = IF here("pending") THEN 1 ELSE 0
            /\ t \in active[l] <=> here("running")
            /\ Cardinality({w \in Holders(t) : home[w] = l}) = IF here("running") THEN 1 ELSE 0
            /\ Entries(ended[l], t) = IF status[t] \in Finals /\ lane[t] = l THEN 1 ELSE 0

\* A lane's history is its latest tasks, at least as many as the cut leaves.
HistoryIsRecent ==
    \A l \in Lanes :
        /\ IsSuffix(history[l], ended[l])
        /\ Len(history[l]) >= KeepHistory \/ history[l] = ended[l]

\* Started only when stopped, a scheduler never has two workers in a lane, and
\* none is left, nor any task under way, once stop() has returned.
WorkersEnd ==
    ~overlapped =>
        /\ \A v, w \in Live : home[v] = home[w] => v = w
        /\ ~running /\ stopAt = 0 => Live = {}

\* What the scheduler guarantees whatever is submitted and whoever is
\* cancelled: no task is lost or kept twice, each lane's history is its latest
\* tasks, and stop() leaves no worker behind.
LanesSafe ==
    /\ TypeOK
    /\ Accounted
    /\ HistoryIsRecent
    /\ WorkersEnd

\* The refinement: queues are sets, workers are gone.
Board ==
    INSTANCE TaskBoard WITH
        submitted <- {t \in Tasks : status[t] # "new"},
        waiting <- [l \in Lanes |-> ToSet(queue[l])],
        busy <- active

\* The scheduler implements the task board.
BoardSpec == Board!BoardSpec

(* Liveness.                                                               *)

\* A waiting task begins unless the scheduler is stopped or the lane has lost
\* its worker to a CancelledError that came out of an executor.
EveryTaskBegins ==
    \A t \in Tasks :
        status[t] = "pending" /\ running
            ~> status[t] # "pending" \/ ~running \/ \A w \in Live : home[w] # lane[t]

\* stop() returns, unless start() gives it new workers to wait for.
StopReturns == stopAt # 0 ~> stopAt = 0 \/ overlapped

(* A claim of the comments, which the code does not keep.                  *)

\* A lane never executes more tasks at a time than its limit (scheduler.py:83).
LimitKept == \A l \in Lanes : Cardinality(active[l]) <= Limit
=============================================================================
