----------------------------- MODULE PoolRuntime -----------------------------
(***************************************************************************)
(* The pool process: PoolSv2::start takes a PoolRuntime through its stages, *)
(* waits for the cancellation token and tears everything down; shutdown()   *)
(* may be called from elsewhere at any time (pool lib/mod.rs,               *)
(* pool_runtime.rs, stratum-apps task_manager.rs).                          *)
(*                                                                         *)
(* The embedded job declaration server owns the thread of JobValidation and *)
(* shares its token: a call of Core that fails there ends the pool.         *)
(***************************************************************************)
EXTENDS JobValidation

\* What is configured, and whether anybody connects.
ASSUME RuntimeAssumption ==
    \A s \in Setups :
        /\ s.provider \in {"sv2", "ipc", "rpc", "auto"}
        /\ s.jds \in BOOLEAN            \* there is a [jds] section
        /\ s.faults \in BOOLEAN         \* stages may fail
        /\ s.stops \in BOOLEAN          \* Ctrl+C, and calls of shutdown()
        /\ s.clients \in BOOLEAN        \* a client connects
        /\ s.early \in BOOLEAN          \* see Open

VARIABLES
    stage,              \* where PoolSv2::start is
    running,            \* the tasks that the task manager spawned
    late,               \* those spawned after join_all had taken the handles
    ipc, ipcStop,       \* the BitcoinCoreSv2TDP thread and its own token
    constrained,        \* the constraints were sent to the provider
    waits,              \* the RPC provider waits for constraints
    closed,             \* the channel to the provider is closed
    templated,          \* last_future_template and last_new_prev_hash are there
    failed,             \* bootstrap failed
    alive, caller,      \* is_alive; the caller of shutdown()
    missed              \* it asked to be notified after notify_waiters

feed == <<constrained, waits, closed, templated>>
threads == <<ipc, ipcStop>>
api == <<alive, caller, missed>>
runtime == <<stage, running, late, threads, feed, failed, api>>
vars == <<validation, runtime>>

Tasks == {"declarator", "declarator server", "bridge", "provider", "manager", "listener", "handshake", "client"}

TypeOK ==
    /\ ValidationTypeOK
    /\ stage \in {"jds", "engine", "provider", "connect", "manager", "services", "listen", "running",
                  "cancel", "jd", "ipc", "join", "notify", "notified", "returned"}
    /\ running \subseteq Tasks /\ late \subseteq running
    /\ ipc \in {"none", "runs", "over"} /\ {ipcStop, constrained, waits, closed, templated} \subseteq BOOLEAN
    /\ {failed, alive, missed} \subseteq BOOLEAN /\ caller \in {"idle", "loaded", "waiting", "returned"}

Init ==
    /\ setup \in Setups /\ ValidationInit
    /\ stage = "jds" /\ running = {} /\ late = {}
    /\ ipc = "none" /\ ipcStop = FALSE
    /\ constrained = FALSE /\ waits = FALSE /\ closed = FALSE /\ templated = FALSE /\ failed = FALSE
    /\ alive = TRUE /\ caller = "idle" /\ missed = FALSE

\* All of JobValidation but the token.
quiet == <<core, tasks, calls, template, mirror, job, queue, server>>

-----------------------------------------------------------------------------
(* The stages of bootstrap. *)

\* A stage returns an error: the shutdown begins.
Fail == stage' = "cancel" /\ failed' = TRUE

\* No [jds] section, or one with a provider that is not BitcoinCoreIpc.
SkipJds ==
    /\ stage = "jds" /\ ~(setup.jds /\ setup.provider = "ipc")
    /\ IF setup.jds THEN Fail ELSE stage' = "provider" /\ UNCHANGED failed
    /\ UNCHANGED <<validation, running, late, threads, feed, api>>

BootstrapJds ==
    /\ stage = "jds" /\ setup.jds /\ setup.provider = "ipc"
    /\ EngineStarts
    /\ stage' = "engine"
    /\ UNCHANGED <<running, late, threads, feed, failed, api>>

\* The mirror is there: the job declarator starts, and its server, if its
\* address is free.
StartJds ==
    /\ stage = "engine" /\ monitor # "off"
    /\ \/ /\ stage' = "provider" /\ UNCHANGED failed
          /\ running' = running \cup {"declarator", "declarator server"}
       \/ /\ setup.faults /\ Fail
          /\ running' = running \cup {"declarator"}
    /\ UNCHANGED <<validation, late, threads, feed, api>>

\* BitcoinCoreIPCEngine::new joins the thread before it returns the error.
JdsFails ==
    /\ stage = "engine" /\ engine = "over"
    /\ Fail
    /\ UNCHANGED <<validation, running, late, threads, feed, api>>

StartIpc ==
    /\ stage = "provider" /\ setup.provider \in {"ipc", "auto"}
    /\ \/ /\ stage' = "manager" /\ UNCHANGED failed
          /\ ipc' = "runs" /\ running' = running \cup {"bridge"}
       \/ /\ setup.faults /\ setup.provider = "ipc"     \* there is no socket path
          /\ Fail /\ UNCHANGED <<ipc, running>>
    /\ UNCHANGED <<validation, late, ipcStop, feed, api>>

StartRpc ==
    /\ stage = "provider" /\ setup.provider \in {"rpc", "auto"}
    /\ \/ /\ stage' = "manager" /\ UNCHANGED failed
          /\ running' = running \cup {"provider"} /\ waits' = TRUE
       \/ /\ setup.faults                     \* BitcoinRpcTemplateProvider::new
          /\ Fail /\ UNCHANGED <<running, waits>>
    /\ UNCHANGED <<validation, late, threads, constrained, closed, templated, api>>

\* Sv2Tp::new and its setup of the connection, which give up or are cancelled.
StartSv2 ==
    /\ stage = "provider" /\ setup.provider = "sv2"
    /\ \/ /\ stage' = "manager" /\ UNCHANGED failed
          /\ running' = running \cup {"provider"}
       \/ /\ setup.faults \/ cancelled
          /\ Fail /\ UNCHANGED running
    /\ UNCHANGED <<validation, late, threads, feed, api>>

\* ChannelManager::new fails when GridPool cannot be reached.
BootstrapChannelManager ==
    /\ stage = "manager"
    /\ \/ stage' = "services" /\ UNCHANGED failed
       \/ setup.faults /\ Fail
    /\ UNCHANGED <<validation, running, late, threads, feed, api>>

\* The constraints go out before the channel manager's task is spawned; GridPool
\* may have no outputs to derive them from.
StartManager ==
    /\ stage = "services"
    /\ \/ /\ stage' = "listen" /\ UNCHANGED failed
          /\ constrained' = TRUE /\ running' = running \cup {"manager"}
       \/ setup.faults /\ Fail /\ UNCHANGED <<constrained, running>>
    /\ UNCHANGED <<validation, late, threads, waits, closed, templated, api>>

\* The address is bound once there is a template; a cancelled pool goes on
\* without a listener.
StartListener ==
    /\ stage = "listen"
    /\ \/ /\ templated
          /\ \/ stage' = "running" /\ running' = running \cup {"listener"} /\ UNCHANGED failed
             \/ setup.faults /\ Fail /\ UNCHANGED running
       \/ /\ ~templated /\ cancelled
          /\ stage' = "running" /\ UNCHANGED <<running, failed>>
    /\ UNCHANGED <<validation, late, threads, feed, api>>

-----------------------------------------------------------------------------
(* The providers, as far as the runtime sees them. *)

\* The first template and its prevhash arrive.
FirstTemplate ==
    /\ ~waits /\ constrained /\ ~templated
    /\ ipc = "runs" \/ "provider" \in running
    /\ "manager" \in running
    /\ templated' = TRUE
    /\ UNCHANGED <<validation, stage, running, late, threads, constrained, waits, closed, failed, api>>

\* A refresh that fails makes the RPC provider wait for other constraints,
\* unless it sees the token at the top of its loop.
RpcTakesConstraints ==
    /\ waits /\ constrained /\ "provider" \in running
    /\ \/ waits' = FALSE /\ UNCHANGED constrained
       \/ setup.faults /\ constrained' = FALSE /\ waits' = ~cancelled
    /\ UNCHANGED <<validation, stage, running, late, threads, closed, templated, failed, api>>

\* Core cannot be reached, or a call of it fails.
IpcFails ==
    /\ ipc = "runs" /\ setup.faults
    /\ ipc' = "over" /\ ipcStop' = TRUE
    /\ UNCHANGED <<validation, stage, running, late, feed, failed, api>>

IpcEnds ==
    /\ ipc = "runs" /\ ipcStop
    /\ ipc' = "over"
    /\ UNCHANGED <<validation, stage, running, late, ipcStop, feed, failed, api>>

\* The task of connect_to_bitcoin_core that ties the two tokens together.
Bridge ==
    /\ "bridge" \in running /\ (cancelled \/ ipcStop)
    /\ cancelled' = TRUE /\ ipcStop' = TRUE
    /\ running' = running \ {"bridge"}
    /\ UNCHANGED <<quiet, stage, late, ipc, feed, failed, api>>

-----------------------------------------------------------------------------
(* The tasks. *)

\* join_all takes the handles at once: what is spawned later is not joined.
Spawn(gone, k) ==
    /\ running' = (running \ gone) \cup {k}
    /\ late' = IF stage \in {"join", "notify", "notified", "returned"}
               THEN (late \ gone) \cup {k} ELSE late \ gone

Accept ==
    /\ setup.clients /\ "listener" \in running
    /\ running \cap {"handshake", "client"} = {}
    /\ Spawn({}, "handshake")
    /\ UNCHANGED <<validation, stage, threads, feed, failed, api>>

HandshakeDone ==
    /\ "handshake" \in running
    /\ Spawn({"handshake"}, "client")
    /\ UNCHANGED <<validation, stage, threads, feed, failed, api>>

\* The loops select on the token, all but the RPC provider that waits for
\* constraints: it ends when its channel is closed, which the end of the channel
\* manager's task does (ChannelManagerIo::close), or the end of start() when
\* there never was such a task.
Cancellable(k) == k # "provider" \/ ~waits
SendersGone == ~constrained /\ (closed \/ stage = "returned")

TaskEnds(k) ==
    /\ k \in running \ {"bridge"}
    /\ cancelled /\ (Cancellable(k) \/ SendersGone)
    /\ running' = running \ {k} /\ late' = late \ {k}
    /\ closed' = (closed \/ k = "manager")
    /\ IF k = "declarator" THEN DeclaratorStops ELSE UNCHANGED validation
    /\ UNCHANGED <<stage, threads, constrained, waits, templated, failed, api>>

\* The SV2 provider's connection, or another task, fails for good.
TaskFails ==
    /\ setup.faults /\ running \cap {"provider", "manager"} # {} /\ ~cancelled
    /\ cancelled' = TRUE
    /\ UNCHANGED <<quiet, runtime>>

-----------------------------------------------------------------------------
(* wait_for_shutdown, PoolRuntime::shutdown and PoolSv2::shutdown. *)

CtrlC ==
    /\ setup.stops /\ stage = "running" /\ ~cancelled
    /\ cancelled' = TRUE
    /\ UNCHANGED <<quiet, runtime>>

WaitForShutdown ==
    /\ stage = "running" /\ cancelled
    /\ stage' = "cancel"
    /\ UNCHANGED <<validation, running, late, threads, feed, failed, api>>

CancelNothing ==
    /\ stage = "cancel"
    /\ stage' = "jd"
    /\ UNCHANGED <<validation, running, late, threads, feed, failed, api>>

CancelAll ==
    /\ stage = "cancel"
    /\ stage' = "jd" /\ cancelled' = TRUE
    /\ UNCHANGED <<quiet, running, late, threads, feed, failed, api>>

DetachJds ==
    /\ stage = "jd"
    /\ stage' = "ipc" /\ ipcStop' = TRUE
    /\ UNCHANGED <<validation, running, late, ipc, feed, failed, api>>

\* JobDeclarator::shutdown joins the thread of the validation; then the
\* token of the provider's thread is cancelled.
JoinJds ==
    /\ stage = "jd" /\ engine \in {"off", "over"}
    /\ stage' = "ipc" /\ ipcStop' = TRUE
    /\ UNCHANGED <<validation, running, late, ipc, feed, failed, api>>

JoinIpc ==
    /\ stage = "ipc" /\ ipc # "runs"
    /\ stage' = "join"
    /\ UNCHANGED <<validation, running, late, threads, feed, failed, api>>

JoinAll ==
    /\ stage = "join" /\ running \subseteq late
    /\ stage' = "notify"
    /\ UNCHANGED <<validation, running, late, threads, feed, failed, api>>

\* Only a task that does not end by itself outlasts the timeout.  join_all
\* holds the handles, so that abort_all finds none.
JoinTimeout ==
    /\ stage = "join" /\ ~Cancellable("provider") /\ ~constrained /\ ~SendersGone
    /\ running \ late = {"provider"}
    /\ stage' = "notify"
    /\ UNCHANGED <<validation, running, late, threads, feed, failed, api>>

NotifyWaiters ==
    /\ stage = "notify"
    /\ stage' = "notified"
    /\ caller' = IF caller = "waiting" THEN "returned" ELSE caller
    /\ UNCHANGED <<validation, running, late, threads, feed, failed, alive, missed>>

Return ==
    /\ stage = "notified"
    /\ stage' = "returned" /\ alive' = FALSE
    /\ UNCHANGED <<validation, running, late, threads, feed, failed, caller, missed>>

\* shutdown() reads is_alive ...
Shutdown ==
    /\ setup.stops /\ caller = "idle"
    /\ caller' = IF alive THEN "loaded" ELSE "returned"
    /\ UNCHANGED <<validation, stage, running, late, threads, feed, failed, alive, missed>>

\* ... creates the Notified future, which a later notify_waiters wakes, and
\* cancels the token.
ShutdownWaits ==
    /\ caller = "loaded"
    /\ caller' = "waiting"
    /\ missed' = (stage \in {"notified", "returned"})
    /\ cancelled' = TRUE
    /\ UNCHANGED <<quiet, stage, running, late, threads, feed, failed, alive>>

-----------------------------------------------------------------------------
StageStep ==
    \/ SkipJds \/ BootstrapJds \/ StartJds \/ JdsFails \/ StartIpc \/ StartRpc \/ StartSv2
    \/ BootstrapChannelManager \/ StartManager \/ StartListener
    \/ WaitForShutdown \/ CancelAll \/ JoinJds \/ JoinIpc \/ JoinAll \/ JoinTimeout
    \/ NotifyWaiters \/ Return

\* A bound: the chain moves and jobs are declared while the pool runs, or,
\* where the setup says so, from the start and until the end.
Open == setup.early \/ (stage = "running" /\ ~cancelled)

Next ==
    \/ StageStep \/ CtrlC \/ Shutdown \/ ShutdownWaits
    \/ FirstTemplate \/ RpcTakesConstraints \/ IpcFails \/ IpcEnds \/ Bridge
    \/ Accept \/ HandshakeDone \/ TaskFails \/ \E k \in Tasks : TaskEnds(k)
    \/ CoreStep /\ UNCHANGED runtime
    \/ ChainStep /\ Open /\ UNCHANGED runtime
    \/ ServerStep /\ Open /\ "declarator" \in running /\ UNCHANGED runtime
    \/ EngineStep /\ UNCHANGED runtime
    \/ MonitorStep /\ UNCHANGED runtime

\* The stages and the tasks are polled, and the provider's thread runs.
Fairness ==
    /\ ValidationFairness
    /\ WF_vars(StageStep) /\ WF_vars(ShutdownWaits) /\ WF_vars(RpcTakesConstraints) /\ WF_vars(IpcEnds) /\ WF_vars(Bridge)
    /\ \A k \in Tasks : WF_vars(TaskEnds(k))

Spec == Init /\ [][Next]_vars /\ Fairness

-----------------------------------------------------------------------------
(* Correctness. *)

\* When start() returns, both threads have ended, and of the tasks only two
\* kinds can be left: the RPC provider of a bootstrap that failed before the
\* channel manager's task was there to send it constraints and to close its
\* channel, and a connection that was being accepted while the handles were
\* taken.
ReturnsLast ==
    stage \in {"notified", "returned"} =>
        /\ engine \in {"off", "over"} /\ ipc # "runs"
        /\ running \ late \subseteq (IF waits /\ ~closed THEN {"provider"} ELSE {})

\* Once the token is cancelled, or a stage failed, everything ends: the
\* threads, the tasks and start() itself, in whatever stage the bootstrap was.
EverythingEnds ==
    (cancelled \/ failed) ~> (stage = "returned" /\ running = {} /\ engine \in {"off", "over"})

\* A call of shutdown() returns, in whatever stage it comes, unless it reads
\* is_alive before it is cleared and creates its Notified only after the waiters
\* were notified.
ShutdownReturns == caller = "loaded" ~> (caller = "returned" \/ missed)

\* A declared job gets the answer it deserves, although the tip, the mirror and
\* the template change while Core is asked.
AnswersInv == TypeOK /\ SoundIsNotInvalid /\ AcceptedOnItsTip /\ AskedOnce

\* Declarations are answered, calls of shutdown() return, and what was
\* cancelled ends.
RuntimeProgress == EverythingEnds /\ DeclarationsAnswered /\ ShutdownReturns
=============================================================================
