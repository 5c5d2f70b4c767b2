------------------------- MODULE FallbackCoordinator -------------------------
(***************************************************************************)
(* The fallback barrier shared by the translator and the job-declarator    *)
(* client (stratum-apps/src/fallback_coordinator.rs).  Every task that must *)
(* be torn down before the next upstream is tried registers with the       *)
(* coordinator and calls done() when it has cleaned up; the main loop       *)
(* waits in trigger_fallback_and_wait.                                      *)
(*                                                                         *)
(* The atomic counter, the cancellation token and the Notify are separate  *)
(* objects, so done() is two steps (fetch_sub, then the check of the token  *)
(* and notify_one) and the trigger is three (cancel, load, await).  The     *)
(* token is behind a mutex in tokio_util, which orders the counter accesses *)
(* around it: the steps below are sequentially consistent.                  *)
(***************************************************************************)
EXTENDS Naturals, FiniteSets

CONSTANTS
    Tasks,       \* the tasks spawned for one upstream connection
    Anchors      \* those whose loop ends only when the token is cancelled: the
                 \* channel manager's

ASSUME TasksFinite == IsFiniteSet(Tasks)
ASSUME AnchorsAreTasks == Anchors \subseteq Tasks /\ Anchors # {}

VARIABLES
    signal,         \* the cancellation token is cancelled
    pending_tasks,  \* the counter
    notify,         \* Notify holds a permit
    pc,             \* where each task is
    last,           \* the value prev == 1 computed by the task's fetch_sub
    waiter,         \* where the main loop is
    late            \* history: the tasks first polled after the cancellation

barrierVars == <<signal, pending_tasks, notify, pc, last, waiter, late>>

Stages == {"idle", "spawned", "running", "released", "done"}

\* Tasks that called register() and have not yet released their count.
Running == {t \in Tasks : pc[t] = "running"}

BarrierTypeOK ==
    /\ signal \in BOOLEAN
    /\ pending_tasks \in Nat
    /\ notify \in BOOLEAN
    /\ pc \in [Tasks -> Stages]
    /\ last \in [Tasks -> BOOLEAN]
    /\ waiter \in {"serving", "triggered", "waiting", "returned"}
    /\ late \subseteq Tasks

-----------------------------------------------------------------------------
\* FallbackCoordinator::new; the anchors are polled before the main loop
\* enters its select.
New ==
    /\ signal = FALSE
    /\ pending_tasks = Cardinality(Anchors)
    /\ notify = FALSE
    /\ pc = [t \in Tasks |-> IF t \in Anchors THEN "running" ELSE "idle"]
    /\ last = [t \in Tasks |-> FALSE]
    /\ waiter = "serving"
    /\ late = {}

\* TaskManager::spawn, called by a task that is itself registered: the future
\* is queued, nothing of it has run.  Nothing stops a task from spawning another
\* one when the token is already cancelled.
Spawn(t) ==
    /\ pc[t] = "idle"
    /\ Running # {}
    /\ pc' = [pc EXCEPT ![t] = "spawned"]
    /\ UNCHANGED <<signal, pending_tasks, notify, last, waiter, late>>

\* register(), the first statement of the spawned future, runs when the future
\* is first polled: before or after the cancellation, or after the barrier.
Register(t) ==
    /\ pc[t] = "spawned"
    /\ pc' = [pc EXCEPT ![t] = "running"]
    /\ pending_tasks' = pending_tasks + 1
    /\ late' = IF signal THEN late \cup {t} ELSE late
    /\ UNCHANGED <<signal, notify, last, waiter>>

\* A component that lost its upstream cancels the coordinator's token.
Cancel ==
    /\ ~signal
    /\ signal' = TRUE
    /\ UNCHANGED <<pending_tasks, notify, pc, last, waiter, late>>

ReleaseOffByOne(t) ==
    /\ pc[t] = "running"
    /\ t \in Anchors => signal
    /\ pc' = [pc EXCEPT ![t] = "released"]
    /\ last' = [last EXCEPT ![t] = (pending_tasks = 0)]
    /\ pending_tasks' = pending_tasks - 1
    /\ UNCHANGED <<signal, notify, waiter, late>>

\* First half of done(): the fetch_sub.
Release(t) ==
    /\ pc[t] = "running"
    /\ t \in Anchors => signal
    /\ pc' = [pc EXCEPT ![t] = "released"]
    /\ last' = [last EXCEPT ![t] = (pending_tasks = 1)]
    /\ pending_tasks' = pending_tasks - 1
    /\ UNCHANGED <<signal, notify, waiter, late>>

NotifyEveryone(t) ==
    /\ pc[t] = "released"
    /\ pc' = [pc EXCEPT ![t] = "done"]
    /\ notify' = (notify \/ signal)
    /\ UNCHANGED <<signal, pending_tasks, last, waiter, late>>

\* Second half of done(): the last one out wakes the waiter.
Notify(t) ==
    /\ pc[t] = "released"
    /\ pc' = [pc EXCEPT ![t] = "done"]
    /\ notify' = (notify \/ (signal /\ last[t]))
    /\ UNCHANGED <<signal, pending_tasks, last, waiter, late>>

\* The main loop's select sees the token and calls trigger_fallback_and_wait,
\* which cancels it again (a no-op).
TriggerFallback ==
    /\ waiter = "serving"
    /\ signal
    /\ waiter' = "triggered"
    /\ UNCHANGED <<signal, pending_tasks, notify, pc, last, late>>

LoadOffByOne ==
    /\ waiter = "triggered"
    /\ waiter' = IF pending_tasks <= 1 THEN "returned" ELSE "waiting"
    /\ UNCHANGED <<signal, pending_tasks, notify, pc, last, late>>

\* The early return when nothing is pending.
Load ==
    /\ waiter = "triggered"
    /\ waiter' = IF pending_tasks = 0 THEN "returned" ELSE "waiting"
    /\ UNCHANGED <<signal, pending_tasks, notify, pc, last, late>>

\* notified().await consumes the permit.
Wake ==
    /\ waiter = "waiting"
    /\ notify
    /\ notify' = FALSE
    /\ waiter' = "returned"
    /\ UNCHANGED <<signal, pending_tasks, pc, last, late>>

BarrierNext ==
    \/ \E t \in Tasks : Spawn(t) \/ Register(t) \/ Release(t) \/ Notify(t)
    \/ Cancel \/ TriggerFallback \/ Load \/ Wake

\* The runtime polls every ready task; every task selects on the token, so
\* it ends once the token is cancelled.
BarrierFairness ==
    /\ \A t \in Tasks :
           /\ WF_barrierVars(Register(t))
           /\ WF_barrierVars(signal /\ Release(t))
           /\ WF_barrierVars(Notify(t))
    /\ WF_barrierVars(TriggerFallback) /\ WF_barrierVars(Load) /\ WF_barrierVars(Wake)

BarrierSpec == New /\ [][BarrierNext]_barrierVars /\ BarrierFairness

-----------------------------------------------------------------------------
\* trigger_fallback_and_wait returns only when every task that registered before
\* the token was cancelled has called done(): "waiting until all registered
\* components have completed their cleanup" (fallback_coordinator.rs:10-12).  A
\* task that was spawned and first polled after the cancellation is the one
\* exception: the barrier does not know of it and may open while it runs.
WaitsForAll ==
    [][waiter' = "returned" => \A t \in Tasks : pc'[t] = "running" => t \in late']_waiter

\* No wake-up is lost between the counter, the token and the Notify: once a
\* component cancels the token the main loop gets out of the barrier, whatever
\* the order of the fetch_sub, the cancel, the load and the await.
FallbackCompletes == signal ~> (waiter = "returned")

\* The counter is the number of registered tasks, and a task that saw itself
\* as the last one, or a stored permit, means that the token is cancelled and
\* that only tasks polled after the cancellation can still be running.
BarrierInv ==
    /\ pending_tasks = Cardinality(Running)
    /\ ~signal => Anchors \subseteq Running /\ waiter = "serving" /\ late = {}
    /\ \A t \in Tasks : (pc[t] = "released" /\ last[t]) => signal /\ Running \subseteq late
    /\ notify => signal /\ Running \subseteq late
=============================================================================
