-------------------------- MODULE TranslatorRuntime --------------------------
(***************************************************************************)
(* The runtime of the SV1 translator: TranslatorSv2::start looks for an     *)
(* upstream, starts the tasks and replaces all of them on a fallback;       *)
(* shutdown() may be called from elsewhere at any time                      *)
(* (miner-apps/translator/src/lib/mod.rs, sv2/upstream/mod.rs, io_task.rs,  *)
(* sv2/channel_manager/extensions_message_handler.rs).                      *)
(*                                                                         *)
(* A generation is the set of tasks that share one FallbackCoordinator.     *)
(* They register with it when they are first polled, and call done when     *)
(* they have cleaned up.  The reader and the writer of a connection are one *)
(* here; the monitoring's two tasks, which only add to those that end on a  *)
(* token, are left out.                                                     *)
(***************************************************************************)
EXTENDS Naturals, FiniteSets

CONSTANTS
    Setups,                 \* see Setup
    MaxGen,                 \* bound on the generations
    SupportedExts, RequiredExts     \* supported_, required_extensions

\* The number of upstreams, the attempts at each (3 in the code), what a pool
\* may support and require, and bounds: whether miners connect, and whether a
\* pool may stop reading.
ASSUME TranslatorRuntimeAssumption ==
    /\ MaxGen \in Nat \ {0} /\ RequiredExts \subseteq SupportedExts
    /\ \A s \in Setups :
          /\ {s.upstreams, s.retries} \subseteq Nat \ {0} /\ {s.miners, s.stalls} \subseteq BOOLEAN
          /\ \A p \in s.pools : p.requires \subseteq p.supports

Gens == 1..MaxGen
Kinds == {"upstream", "server", "manager", "miner"}

VARIABLES
    setup,
    main,               \* where TranslatorSv2::start is
    gen,                \* the present generation
    attempt, flagged,   \* attempts at the present upstream; tried_or_flagged
    signalled, permits, \* fallback tokens cancelled; coordinators with a permit
    cancelled,          \* the global token
    task, io,           \* the tasks, and the connections whose IO tasks run
    stalled,            \* generations with a writer that is stuck in a write
    managed,            \* the tasks that join_all waits for
    pool, asked,        \* the pool; the RequestExtensions it has to answer
    left,               \* the pool left because of its extensions
    alive, caller,      \* is_alive; the caller of shutdown()
    missed,             \* it began to wait after notify_waiters
    ended               \* how the tasks were joined

init == <<attempt, flagged>>
conns == <<io, stalled>>
token == <<signalled, permits, cancelled>>
negotiation == <<pool, asked, left>>
api == <<alive, caller, missed>>
vars == <<setup, main, gen, init, token, task, conns, managed, negotiation, api, ended>>

NoPool == [supports |-> {}, requires |-> {}]
NoRequest == {"no request"}

Over(g) == g \in signalled \/ cancelled

\* pending_tasks > 0: the tasks that have registered and not called done.
Busy(g) == io[g] > 0 \/ \E k \in Kinds : task[g][k] \in {"running", "late"}

\* FallbackHandler::done: the last one after the signal leaves a permit.
Done(g) ==
    permits' = IF g \in signalled' /\ Busy(g) /\ ~Busy(g)' THEN permits \cup {g} ELSE permits

TypeOK ==
    /\ setup \in Setups
    /\ main \in {"try", "setup", "bind", "launch", "loop", "waiting", "stopping", "join",
                 "notify", "notified", "stopped"}
    /\ gen \in Gens /\ attempt \in 1..setup.retries /\ flagged \in 0..setup.upstreams
    /\ signalled \subseteq 1..gen /\ permits \subseteq signalled /\ cancelled \in BOOLEAN
    /\ task \in [Gens -> [Kinds -> {"none", "accepting", "spawned", "running", "late", "done"}]]
    /\ io \in [Gens -> 0..(setup.upstreams * setup.retries)]
    /\ stalled \subseteq Gens /\ managed \subseteq Gens \X Kinds
    /\ {pool, left} \subseteq setup.pools \cup {NoPool}
    /\ asked = NoRequest \/ asked \subseteq SupportedExts
    /\ alive \in BOOLEAN /\ caller \in {"idle", "loaded", "waiting", "returned"} /\ missed \in BOOLEAN
    /\ ended \in {"no", "early", "joined", "forced"}

Init ==
    /\ setup \in Setups
    /\ main = "try" /\ gen = 1 /\ attempt = 1 /\ flagged = 0
    /\ signalled = {} /\ permits = {} /\ cancelled = FALSE
    /\ task = [g \in Gens |-> [k \in Kinds |-> "none"]] /\ io = [g \in Gens |-> 0]
    /\ stalled = {} /\ managed = {} /\ pool = NoPool /\ asked = NoRequest /\ left = NoPool
    /\ alive = TRUE /\ caller = "idle" /\ missed = FALSE /\ ended = "no"

Set(g, k, state) == task' = [task EXCEPT ![g][k] = state]

-----------------------------------------------------------------------------
(* initialize_upstream goes through the upstreams in their order. *)

\* The last attempt at an upstream flags it.
AttemptFails ==
    IF attempt = setup.retries THEN attempt' = 1 /\ flagged' = flagged + 1
                            ELSE attempt' = attempt + 1 /\ UNCHANGED flagged

\* Upstream::new fails: no address, no connection, no handshake, or shutdown.
Unreachable ==
    /\ main = "try"
    /\ flagged < setup.upstreams
    /\ AttemptFails
    /\ UNCHANGED <<setup, main, gen, token, task, conns, managed, negotiation, api, ended>>

Connect ==
    /\ main = "try"
    /\ ~cancelled
    /\ flagged < setup.upstreams
    /\ io' = [io EXCEPT ![gen] = @ + 1]
    /\ main' = "setup"
    /\ UNCHANGED <<setup, gen, init, token, task, stalled, managed, negotiation, api, ended>>

\* setup_connection: the pool accepts, and the extensions are asked for.
SetupConnection(p) ==
    /\ main = "setup"
    /\ ~Over(gen)
    /\ Set(gen, "upstream", "spawned")
    /\ pool' = p
    /\ asked' = IF RequiredExts = {} THEN NoRequest ELSE RequiredExts
    /\ main' = "bind"
    /\ UNCHANGED <<setup, gen, init, token, conns, managed, left, api, ended>>

\* It refuses or hangs up.  The tasks of the connection stay.
SetupConnectionError ==
    /\ main = "setup"
    /\ ~Over(gen)
    /\ AttemptFails
    /\ main' = "try"
    /\ UNCHANGED <<setup, gen, token, task, conns, managed, negotiation, api, ended>>

\* A shutdown while the answer is awaited counts as success.
SetupInterrupted ==
    /\ main = "setup"
    /\ Over(gen)
    /\ main' = "bind"
    /\ UNCHANGED <<setup, gen, init, token, task, conns, managed, negotiation, api, ended>>

\* The SV1 server is bound to its port and started.
StartServer ==
    /\ main = "bind"
    /\ Set(gen, "server", "spawned")
    /\ flagged' = flagged + 1 /\ attempt' = 1
    /\ main' = "launch"
    /\ UNCHANGED <<setup, gen, token, conns, managed, negotiation, api, ended>>

\* start returns at once the first time; after a fallback it shuts down.
InitializeFails ==
    /\ main' = IF gen = 1 THEN "notify" ELSE "stopping"
    /\ ended' = IF gen = 1 THEN "early" ELSE ended
    /\ cancelled' = (cancelled \/ gen > 1)

\* The user identity has no payout, or the port is taken.
StartServerFails ==
    /\ main = "bind"
    /\ InitializeFails
    /\ UNCHANGED <<setup, gen, init, signalled, permits, task, conns, managed, negotiation, api>>

CouldNotInitiateSystem ==
    /\ main = "try"
    /\ flagged = setup.upstreams
    /\ InitializeFails
    /\ UNCHANGED <<setup, gen, init, signalled, permits, task, conns, managed, negotiation, api>>

-----------------------------------------------------------------------------
(* start: the tasks, and the loop. *)

\* Without its port the monitoring shuts the translator down.
Launch(monitoring) ==
    /\ main = "launch"
    /\ Set(gen, "manager", "spawned")
    /\ cancelled' = (cancelled \/ ~monitoring)
    /\ main' = "loop"
    /\ UNCHANGED <<setup, gen, init, signalled, permits, conns, managed, negotiation, api, ended>>

\* trigger_fallback_and_wait
Trigger ==
    /\ main = "loop"
    /\ ~cancelled /\ gen \in signalled
    /\ main' = "waiting"
    /\ UNCHANGED <<setup, gen, init, token, task, conns, managed, negotiation, api, ended>>

EveryoneIsDoneOrNot == TRUE
EveryoneIsDone == gen \in permits \/ ~Busy(gen)

\* New channels, a new server and manager, and the next upstream.
Restart ==
    /\ main = "waiting"
    /\ EveryoneIsDone
    /\ gen < MaxGen
    /\ gen' = gen + 1
    /\ main' = "try"
    /\ pool' = NoPool /\ asked' = NoRequest
    /\ UNCHANGED <<setup, init, token, task, conns, managed, left, api, ended>>

Stop ==
    /\ main = "loop"
    /\ cancelled
    /\ main' = "stopping"
    /\ UNCHANGED <<setup, gen, init, token, task, conns, managed, negotiation, api, ended>>

CtrlC ==
    /\ main = "loop"
    /\ cancelled' = TRUE
    /\ main' = "stopping"
    /\ UNCHANGED <<setup, gen, init, signalled, permits, task, conns, managed, negotiation, api, ended>>

-----------------------------------------------------------------------------
(* The end: TaskManager::join_all takes the handles it finds and waits for   *)
(* them.  A task that is spawned later is not waited for.                    *)

Unfinished == {t \in Gens \X Kinds : task[t[1]][t[2]] \in {"spawned", "running", "late"}}

JoinAll ==
    /\ main = "stopping"
    /\ managed' = Unfinished
    /\ main' = "join"
    /\ UNCHANGED <<setup, gen, init, token, task, conns, negotiation, api, ended>>

AllJoined == managed \cap Unfinished = {} /\ \A g \in Gens : io[g] = 0

Joined ==
    /\ main = "join"
    /\ AllJoined
    /\ main' = "notify" /\ ended' = "joined"
    /\ UNCHANGED <<setup, gen, init, token, task, conns, managed, negotiation, api>>

\* After the timeout the tasks should be aborted; join_all has taken their
\* handles, so that abort_all finds none.
JoinTimeout ==
    /\ main = "join"
    /\ ~AllJoined
    /\ main' = "notify" /\ ended' = "forced"
    /\ UNCHANGED <<setup, gen, init, token, task, conns, managed, negotiation, api>>

NotifyWaiters ==
    /\ main = "notify"
    /\ main' = "notified"
    /\ caller' = IF caller = "waiting" THEN "returned" ELSE caller
    /\ UNCHANGED <<setup, gen, init, token, task, conns, managed, negotiation, alive, missed, ended>>

\* is_alive, and the Drop of the translator.
Die ==
    /\ main = "notified"
    /\ main' = "stopped"
    /\ alive' = FALSE
    /\ cancelled' = TRUE
    /\ UNCHANGED <<setup, gen, init, signalled, permits, task, conns, managed, negotiation, caller, missed,
                   ended>>

\* shutdown() reads is_alive.
Shutdown ==
    /\ caller = "idle"
    /\ caller' = IF alive THEN "loaded" ELSE "returned"
    /\ UNCHANGED <<setup, main, gen, init, token, task, conns, managed, negotiation, alive, missed,
                   ended>>

\* It creates its Notified, which sees no notify_waiters of before, cancels the
\* token and waits.
ShutdownWaits ==
    /\ caller = "loaded"
    /\ caller' = "waiting"
    /\ cancelled' = TRUE
    /\ missed' = (main \in {"notified", "stopped"})
    /\ UNCHANGED <<setup, main, gen, init, signalled, permits, task, conns, managed, negotiation, alive,
                   ended>>

-----------------------------------------------------------------------------
(* The tasks. *)

\* The first poll registers the task, maybe too late for the fallback.
Poll(g, k) ==
    /\ task[g][k] = "spawned"
    /\ Set(g, k, IF g \in signalled THEN "late" ELSE "running")
    /\ UNCHANGED <<setup, main, gen, init, token, conns, managed, negotiation, api, ended>>

ExitUnlessMiner(g, k) ==
    /\ task[g][k] \in {"running", "late"} /\ Over(g)
    /\ ~(k = "miner" /\ ~cancelled)
    /\ Set(g, k, "done")
    /\ UNCHANGED <<setup, main, gen, init, signalled, cancelled, conns, managed, negotiation, api, ended>>
    /\ Done(g)

\* The loop sees one of the tokens; an accept under way is finished first.
Exit(g, k) ==
    /\ task[g][k] \in {"running", "late"} /\ Over(g)
    /\ ~(k = "server" /\ task[g].miner = "accepting")
    /\ Set(g, k, "done")
    /\ UNCHANGED <<setup, main, gen, init, signalled, cancelled, conns, managed, negotiation, api, ended>>
    /\ Done(g)

\* handle_error_action: who may ask for what.
MayFallback == {"upstream", "manager", "server"}

AskFallback(g, k) ==
    /\ task[g][k] = "running" /\ k \in MayFallback
    /\ ~Over(g) /\ g < MaxGen
    /\ Set(g, k, "done")
    /\ signalled' = signalled \cup {g}
    /\ UNCHANGED <<setup, main, gen, init, cancelled, conns, managed, negotiation, api, ended>>
    /\ Done(g)

AskShutdown(g, k) ==
    /\ task[g][k] = "running"
    /\ ~Over(g)
    /\ Set(g, k, "done")
    /\ cancelled' = TRUE
    /\ UNCHANGED <<setup, main, gen, init, signalled, permits, conns, managed, negotiation, api, ended>>

\* The SV1 server accepts a miner, and spawns its task.
BeginAccept(g) ==
    /\ task[g].server = "running" /\ task[g].miner = "none"
    /\ ~Over(g) /\ setup.miners
    /\ Set(g, "miner", "accepting")
    /\ UNCHANGED <<setup, main, gen, init, token, conns, managed, negotiation, api, ended>>

SpawnDownstream(g) ==
    /\ task[g].server = "running" /\ task[g].miner = "accepting"
    /\ Set(g, "miner", "spawned")
    /\ UNCHANGED <<setup, main, gen, init, token, conns, managed, negotiation, api, ended>>

MinerLeaves(g) ==
    /\ task[g].miner = "running" /\ ~Over(g)
    /\ Set(g, "miner", "done")
    /\ UNCHANGED <<setup, main, gen, init, signalled, cancelled, conns, managed, negotiation, api, ended>>
    /\ Done(g)

\* The reader and writer of a connection end with it, or at a token.  A writer
\* watches the tokens only between two writes.
IoEnds(g) ==
    /\ io[g] > (IF g \in stalled THEN 1 ELSE 0)
    /\ io' = [io EXCEPT ![g] = @ - 1]
    /\ UNCHANGED <<setup, main, gen, init, signalled, cancelled, task, stalled, managed, negotiation,
                   api, ended>>
    /\ Done(g)

\* The pool does not read, and write_frame waits for it, until it reads again or
\* the connection breaks.  The tokens come before the next message.
Stall(g) ==
    /\ setup.stalls /\ ~Over(g)
    /\ io[g] > 0 /\ g \notin stalled
    /\ stalled' = stalled \cup {g}
    /\ UNCHANGED <<setup, main, gen, init, token, task, io, managed, negotiation, api, ended>>

Unstall(g) ==
    /\ g \in stalled
    /\ stalled' = stalled \ {g}
    /\ UNCHANGED <<setup, main, gen, init, token, task, io, managed, negotiation, api, ended>>

-----------------------------------------------------------------------------
(* The extensions: the channel manager handles the pool's answer.            *)

\* The pool's answer to a request for exts.
Unsupported(exts) == exts \ pool.supports
MissingRequired(exts) == pool.requires \ exts
Refused(exts) == exts \subseteq Unsupported(exts) \/ MissingRequired(exts) # {}

CanHandle == task[gen].manager = "running" /\ ~Over(gen) /\ asked # NoRequest

LeavesForSupported(exts) ==
    IF Refused(exts)
      THEN RequiredExts \cap Unsupported(exts) # {} \/ ~(MissingRequired(exts) \subseteq SupportedExts)
      ELSE ~(SupportedExts \subseteq exts \ Unsupported(exts))

\* Whether the answer to a request for exts is a reason to leave the pool.
LeavesFor(exts) ==
    IF Refused(exts)
      THEN RequiredExts \cap Unsupported(exts) # {} \/ ~(MissingRequired(exts) \subseteq SupportedExts)
      ELSE ~(RequiredExts \subseteq exts \ Unsupported(exts))

HandleExtensionsAndLeave ==
    /\ CanHandle
    /\ LeavesFor(asked) /\ gen < MaxGen
    /\ left' = pool
    /\ asked' = NoRequest
    /\ signalled' = signalled \cup {gen}
    /\ Set(gen, "manager", "done")
    /\ UNCHANGED <<setup, main, gen, init, cancelled, conns, managed, pool, api, ended>>
    /\ Done(gen)

\* Accepted, or asked again for what the pool requires.
HandleExtensions ==
    /\ CanHandle
    /\ ~LeavesFor(asked)
    /\ asked' = IF Refused(asked) /\ MissingRequired(asked) # {} THEN MissingRequired(asked)
                ELSE NoRequest
    /\ UNCHANGED <<setup, main, gen, init, token, task, conns, managed, pool, left, api, ended>>

-----------------------------------------------------------------------------

\* What the main task does by itself.
MainSteps ==
    \/ Unreachable \/ SetupInterrupted \/ StartServer \/ CouldNotInitiateSystem
    \/ \E monitoring \in BOOLEAN : Launch(monitoring)
    \/ Trigger \/ Restart \/ Stop \/ JoinAll \/ Joined \/ JoinTimeout \/ NotifyWaiters \/ Die

TaskEnds(g) == \E k \in Kinds : Exit(g, k)
TaskStarts(g) == \E k \in Kinds : Poll(g, k)

Next ==
    \/ MainSteps
    \/ Connect \/ \E p \in setup.pools : SetupConnection(p)
    \/ SetupConnectionError \/ StartServerFails \/ CtrlC
    \/ Shutdown \/ ShutdownWaits
    \/ \E g \in Gens :
          \/ TaskStarts(g) \/ TaskEnds(g)
          \/ \E k \in Kinds : AskFallback(g, k) \/ AskShutdown(g, k)
          \/ BeginAccept(g) \/ SpawnDownstream(g) \/ MinerLeaves(g)
          \/ IoEnds(g) \/ Stall(g) \/ Unstall(g)
    \/ HandleExtensionsAndLeave \/ HandleExtensions

Spec == Init /\ [][Next]_vars

\* Every task that is ready is polled in the end; a pool need not answer, nor
\* read what it is sent.
FairSpec ==
    /\ Spec
    /\ WF_vars(MainSteps) /\ WF_vars(ShutdownWaits)
    /\ \A g \in Gens : /\ WF_vars(TaskStarts(g)) /\ WF_vars(TaskEnds(g))
                       /\ WF_vars(SpawnDownstream(g))
                       /\ WF_vars(Over(g) /\ IoEnds(g))

-----------------------------------------------------------------------------
(* Properties. *)

\* When a fallback goes on to the next upstream, no task of the generations
\* before is at work, and none of their connections is open: those of attempts
\* that failed are waited for as well.  A task that was polled too late only
\* sees the token.
GenerationsApart ==
    \A g \in 1..(gen - 1) : io[g] = 0 /\ \A k \in Kinds : task[g][k] # "running"

\* A pool is left for its extensions only if it lacks one that is required, or
\* requires one that the translator did not ask for.  (What it did not ask for
\* is asked for once more, but then without what it requires itself, so that
\* the answer never satisfies it; see README.)
OnlyIncompatiblePoolsAreLeft ==
    RequiredExts \subseteq left.supports => left = NoPool \/ ~(left.requires \subseteq RequiredExts)

\* The translator is down when start has joined its tasks: of those that make
\* up a generation none is left.
JoinedIsQuiet ==
    ended = "joined" =>
        \A g \in Gens, k \in Kinds \ {"miner"} : task[g][k] \in {"none", "done"}

\* A fallback that waits for the tasks does not wait for ever.
FallbackEnds == main = "waiting" ~> main # "waiting"

\* shutdown() returns, whatever the translator is doing when it is called; but
\* for a call that finds the translator alive and begins to wait only after
\* notify_waiters.
ShutdownReturns == caller = "loaded" ~> caller = "returned" \/ missed

\* The fallback waits for a writer whose pool does not read.
FallbackStuck == main = "waiting" /\ gen \in stalled

\* Neither a fallback nor the end of start leaves tasks of before at work.
TasksInv == TypeOK /\ GenerationsApart /\ JoinedIsQuiet

\* start and the callers of shutdown() get on: fallbacks end, and so does the
\* wait of a caller.  The one thing that holds both up for good is the pool that
\* the fallback leaves: if it never again reads nor breaks its connection, the
\* writer never calls done, and start waits for it without watching the token.
RuntimeProgress == <>[]FallbackStuck \/ (FallbackEnds /\ ShutdownReturns)
=============================================================================
