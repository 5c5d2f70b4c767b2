---------------------------- MODULE ClientRuntime ----------------------------
(***************************************************************************)
(* The runtime of the job declarator client: how JobDeclaratorClient::start *)
(* brings up the channel manager, one of the configured upstreams and the   *)
(* server for the miners, and what a fallback does to them                  *)
(* (miner-apps/jd-client/src/lib/mod.rs, upstream/mod.rs,                   *)
(* job_declarator/mod.rs, channel_manager/mod.rs, downstream/mod.rs).       *)
(*                                                                         *)
(* A generation is the set of tasks that share one FallbackCoordinator.     *)
(* Every task of it registers with the coordinator and calls done when it   *)
(* has cleaned up; the main task waits for that (module                     *)
(* FallbackCoordinator) and starts the next generation.  Three things are   *)
(* not part of a generation: the channel to the template provider, the      *)
(* listening port and the global cancellation token.                        *)
(*                                                                         *)
(* The reader and the writer task of a connection are one here.             *)
(***************************************************************************)
EXTENDS Naturals, FiniteSets

CONSTANTS
    NumUpstreams,   \* configured pool + JDS pairs
    Modes,          \* the modes that may be configured: "solo" (SoloMining)
                    \* and "jd" (FullTemplate or CoinbaseOnly)
    MaxRetries,     \* attempts per upstream (3 in the code)
    Clients,        \* miners that connect
    MaxGen          \* bound on the generations

ASSUME RuntimeAssumption ==
    /\ NumUpstreams \in Nat /\ Modes \subseteq {"solo", "jd"}
    /\ "jd" \in Modes => NumUpstreams > 0    \* start shuts down otherwise
    /\ MaxRetries \in Nat \ {0} /\ MaxGen \in Nat \ {0}

Gens == 1..MaxGen

VARIABLES
    main,           \* where JobDeclaratorClient::start is
    gen,            \* the present generation
    attempt,        \* attempt of initialize_jd at the present upstream
    flagged,        \* how many of them, from the first, are tried_or_flagged
    logged,         \* history: a setup of the present generation failed with
                    \* an error that is only logged
    mode,           \* JDMode: the configured mode and the one in force
    signalled,      \* generations whose fallback token is cancelled
    permits,        \* coordinators that hold a notify_one permit
    cancelled,      \* the global token is cancelled
    manager,        \* the channel manager's task
    ready,          \* it has a future template and a prevhash
    upstreamState,  \* ChannelManager.upstream_state
    upstream,       \* the Upstream task
    jds,            \* the JobDeclarator task
    io,             \* connections to pools and JDSs whose IO tasks run
    server,         \* start_downstream_server and its accept loop
    listener,       \* the generation that has the port bound, or 0
    client,         \* the miners
    tpOpen          \* the channel to the template provider is open

init == <<attempt, flagged, logged>>
token == <<signalled, permits, cancelled>>
core == <<manager, ready, upstreamState, tpOpen>>
peers == <<upstream, jds, io>>
serving == <<server, listener, client>>
vars == <<main, gen, init, mode, token, core, peers, serving>>

Over(g) == g \in signalled \/ cancelled = "yes"

BusyWithoutManager(g) ==
    \/ upstream[g] = "running" \/ jds[g] = "running"
    \/ io[g] > 0
    \/ server[g] = "listening"
    \/ \E c \in Clients : client[c] = [st |-> "open", gen |-> g]

\* pending_tasks > 0: the tasks that have registered and not called done.
Busy(g) ==
    \/ manager[g] \in {"running", "closing"}
    \/ upstream[g] = "running" \/ jds[g] = "running"
    \/ io[g] > 0
    \/ server[g] = "listening"
    \/ \E c \in Clients : client[c] = [st |-> "open", gen |-> g]

\* FallbackHandler::done: the last one after the signal leaves a permit.
Done(g) ==
    permits' = IF g \in signalled' /\ Busy(g) /\ ~Busy(g)' THEN permits \cup {g} ELSE permits

TypeOK ==
    /\ main \in {"init", "upstream", "jds", "serve", "loop", "waiting", "stopped"}
    /\ gen \in Gens /\ attempt \in 1..MaxRetries /\ flagged \in 0..NumUpstreams
    /\ logged \in BOOLEAN /\ mode \in [config : Modes, inner : {"solo", "jd"}]
    /\ signalled \subseteq 1..gen /\ permits \subseteq signalled
    /\ cancelled \in {"no", "yes"}
    /\ manager \in [Gens -> {"none", "spawned", "running", "closing", "closed"}]
    /\ ready \in [Gens -> BOOLEAN] /\ upstreamState \in [Gens -> {"NoChannel", "SoloMining"}]
    /\ upstream \in [Gens -> {"none", "spawned", "running", "closed"}]
    /\ jds \in [Gens -> {"none", "running", "closed"}]
    /\ io \in [Gens -> 0..(MaxRetries * NumUpstreams + 2)]
    /\ server \in [Gens -> {"none", "polling", "binding", "listening", "done", "closed"}]
    /\ listener \in {0} \cup Gens
    /\ client \in [Clients -> [st : {"idle", "handshake", "open"}, gen : {0} \cup Gens]]
    /\ tpOpen \in BOOLEAN

NoClient == [st |-> "idle", gen |-> 0]

\* The first generation: the manager is started, and the upstream is looked
\* for unless solo mining is configured.
Init ==
    /\ mode \in [config : Modes, inner : {"solo"}]
    /\ main = IF mode.config = "solo" THEN "serve" ELSE "init"
    /\ gen = 1 /\ attempt = 1 /\ flagged = 0 /\ logged = FALSE
    /\ signalled = {} /\ permits = {} /\ cancelled = "no"
    /\ manager = [g \in Gens |-> IF g = 1 THEN "spawned" ELSE "none"]
    /\ ready = [g \in Gens |-> FALSE]
    /\ upstreamState = [g \in Gens |-> "SoloMining"]
    /\ upstream = [g \in Gens |-> "none"] /\ jds = [g \in Gens |-> "none"]
    /\ io = [g \in Gens |-> 0]
    /\ server = [g \in Gens |-> "none"] /\ listener = 0
    /\ client = [c \in Clients |-> NoClient]
    /\ tpOpen = TRUE

-----------------------------------------------------------------------------
(* initialize_jd goes through the upstreams in their order; the ones tried  *)
(* before are flagged.  It sleeps a second before every upstream, by which  *)
(* time the manager's task has been polled and has registered.              *)

Initializing == main = "init" /\ manager[gen] # "spawned"

\* The last attempt at an upstream flags it.
AttemptFails ==
    IF attempt = MaxRetries THEN attempt' = 1 /\ flagged' = flagged + 1
                            ELSE attempt' = attempt + 1 /\ UNCHANGED flagged

\* JDMode::set_solo_mining
SetSoloMining == mode' = [mode EXCEPT !.inner = "solo"]

\* Upstream::new fails: no address, no connection or no handshake.
PoolUnreachable ==
    /\ Initializing
    /\ cancelled = "no"
    /\ flagged < NumUpstreams
    /\ AttemptFails
    /\ UNCHANGED <<main, gen, logged, mode, token, core, peers, serving>>

\* JobDeclarator::new fails; the IO tasks of the pool connection stay.
JdsUnreachable ==
    /\ Initializing
    /\ cancelled = "no"
    /\ flagged < NumUpstreams
    /\ AttemptFails
    /\ io' = [io EXCEPT ![gen] = @ + 1]
    /\ UNCHANGED <<main, gen, logged, mode, token, core, upstream, jds, serving>>

\* try_initialize_single succeeds: the entry is not tried again.
Connect ==
    /\ Initializing
    /\ cancelled = "no"
    /\ flagged < NumUpstreams
    /\ flagged' = flagged + 1
    /\ attempt' = 1
    /\ io' = [io EXCEPT ![gen] = @ + 2]
    /\ main' = "upstream"
    /\ UNCHANGED <<gen, logged, mode, token, core, upstream, jds, serving>>

\* No upstream is left, or the client shuts down: solo mining.
GiveUp ==
    /\ Initializing
    /\ flagged = NumUpstreams \/ cancelled = "yes"
    /\ SetSoloMining
    /\ upstreamState' = [upstreamState EXCEPT ![gen] = "SoloMining"]
    /\ main' = "serve"
    /\ UNCHANGED <<gen, init, token, manager, ready, tpOpen, peers, serving>>

-----------------------------------------------------------------------------
(* Setting up the two connections.  The main task waits for the answer      *)
(* without a timeout.                                                       *)

\* handle_error_action with Action::Fallback
Signal(g) == IF Over(g) THEN UNCHANGED signalled ELSE signalled' = signalled \cup {g}

SetupUpstream ==
    /\ main = "upstream"
    /\ upstream' = [upstream EXCEPT ![gen] = "spawned"]
    /\ jds' = [jds EXCEPT ![gen] = "running"]
    /\ main' = "jds"
    /\ UNCHANGED <<gen, init, mode, token, core, io, serving>>

\* The pool answers with an error or hangs up: Upstream::start closes its
\* channels and returns; the JDS is set up all the same.
SetupUpstreamFails ==
    /\ main = "upstream"
    /\ Signal(gen)
    /\ upstream' = [upstream EXCEPT ![gen] = "closed"]
    /\ jds' = [jds EXCEPT ![gen] = "running"]
    /\ main' = "jds"
    /\ UNCHANGED <<gen, init, mode, permits, cancelled, core, io, serving>>

\* The pool's answer cannot be read or is not the expected one
\* (parse_error, unexpected_message): the error is logged, Upstream::start
\* closes its channels and returns, and nothing is signalled.
SetupUpstreamLogged ==
    /\ main = "upstream"
    /\ logged' = TRUE
    /\ upstream' = [upstream EXCEPT ![gen] = "closed"]
    /\ jds' = [jds EXCEPT ![gen] = "running"]
    /\ main' = "jds"
    /\ UNCHANGED <<gen, attempt, flagged, mode, token, core, io, serving>>

\* JobDeclarator::start has registered; SetupConnectionSuccess activates the
\* configured mode.
SetupJds ==
    /\ main = "jds"
    /\ mode' = [mode EXCEPT !.inner = mode.config]
    /\ upstreamState' = [upstreamState EXCEPT ![gen] = "NoChannel"]
    /\ main' = "serve"
    /\ UNCHANGED <<gen, init, token, manager, ready, tpOpen, peers, serving>>

\* The JDS answers with Reconnect or ChannelEndpointChanged: the setup returns
\* Ok and no mode is activated.
SetupJdsRedirected ==
    /\ main = "jds"
    /\ upstreamState' = [upstreamState EXCEPT ![gen] = "NoChannel"]
    /\ main' = "serve"
    /\ UNCHANGED <<gen, init, mode, token, manager, ready, tpOpen, peers, serving>>

\* The JDS answers with an error or hangs up.
SetupJdsFails ==
    /\ main = "jds"
    /\ Signal(gen)
    /\ jds' = [jds EXCEPT ![gen] = "closed"]
    /\ upstreamState' = [upstreamState EXCEPT ![gen] = "NoChannel"]
    /\ main' = "serve"
    /\ UNCHANGED <<gen, init, mode, cancelled, manager, ready, tpOpen, upstream, io, serving>>
    /\ Done(gen)

\* The JDS's answer cannot be read or is not the expected one: the error is
\* logged, JobDeclarator::start closes its channels and calls done.
SetupJdsLogged ==
    /\ main = "jds"
    /\ logged' = TRUE
    /\ jds' = [jds EXCEPT ![gen] = "closed"]
    /\ upstreamState' = [upstreamState EXCEPT ![gen] = "NoChannel"]
    /\ main' = "serve"
    /\ UNCHANGED <<gen, attempt, flagged, mode, signalled, cancelled, manager, ready, tpOpen, upstream, io, serving>>
    /\ Done(gen)

-----------------------------------------------------------------------------
(* The main task's loop. *)

Serve ==
    /\ main = "serve"
    /\ server' = [server EXCEPT ![gen] = "polling"]
    /\ main' = "loop"
    /\ UNCHANGED <<gen, init, mode, token, core, peers, listener, client>>

\* trigger_fallback_and_wait
Trigger ==
    /\ main = "loop"
    /\ cancelled = "no"
    /\ gen \in signalled
    /\ main' = "waiting"
    /\ UNCHANGED <<gen, init, mode, token, core, peers, serving>>

\* ChannelManager::start of the next generation; without the template
\* provider's channel it shuts the client down.
StartManager ==
    IF tpOpen THEN manager' = [manager EXCEPT ![gen + 1] = "spawned"] /\ UNCHANGED cancelled
    ELSE UNCHANGED manager /\ cancelled' = "yes"

RestartKeepingMode ==
    /\ main = "waiting"
    /\ gen \in permits \/ ~Busy(gen)
    /\ gen < MaxGen
    /\ gen' = gen + 1
    /\ UNCHANGED mode
    /\ main' = "init"
    /\ StartManager
    /\ logged' = FALSE
    /\ UNCHANGED <<attempt, flagged, signalled, permits, ready, upstreamState, tpOpen, peers, serving>>

\* Everybody is done: the next generation.
Restart ==
    /\ main = "waiting"
    /\ gen \in permits \/ ~Busy(gen)
    /\ gen < MaxGen
    /\ gen' = gen + 1
    /\ SetSoloMining
    /\ main' = "init"
    /\ StartManager
    /\ logged' = FALSE
    /\ UNCHANGED <<attempt, flagged, signalled, permits, ready, upstreamState, tpOpen, peers, serving>>

\* The loop ends, and the tasks are joined, or aborted after a timeout.
Joined(tasks) == [g \in Gens |-> IF tasks[g] = "none" THEN "none" ELSE "closed"]

Stop ==
    /\ main = "loop"
    /\ cancelled = "yes"
    /\ main' = "stopped"
    /\ manager' = Joined(manager) /\ tpOpen' = FALSE
    /\ upstream' = Joined(upstream) /\ jds' = Joined(jds)
    /\ io' = [g \in Gens |-> 0]
    /\ server' = Joined(server) /\ listener' = 0
    /\ client' = [c \in Clients |-> NoClient]
    /\ UNCHANGED <<gen, init, mode, token, ready, upstreamState>>

\* Ctrl+C, shutdown() or an error with Action::Shutdown.
Shutdown ==
    /\ main # "stopped"
    /\ cancelled = "no"
    /\ cancelled' = "yes"
    /\ UNCHANGED <<main, gen, init, mode, signalled, permits, core, peers, serving>>

-----------------------------------------------------------------------------
(* The channel manager's task. *)

PollManager(g) ==
    /\ manager[g] = "spawned"
    /\ manager' = [manager EXCEPT ![g] = "running"]
    /\ UNCHANGED <<main, gen, init, mode, token, ready, upstreamState, tpOpen, peers, serving>>

\* The first future template and prevhash are handled.
Templates(g) ==
    /\ manager[g] = "running"
    /\ ~Over(g) /\ tpOpen
    /\ ready' = [ready EXCEPT ![g] = TRUE]
    /\ UNCHANGED <<main, gen, init, mode, token, manager, upstreamState, tpOpen, peers, serving>>

\* A handler returns Action::Fallback, for a message of the pool or the JDS
\* (which are not read in solo mode), a miner's open that cannot be sent to a
\* pool whose channel is closed, or a prevhash that a miner's channel refuses:
\* the loop is left, the state is not reset.
ManagerFails(g) ==
    /\ manager[g] = "running"
    /\ ~Over(g)
    /\ mode.inner = "jd" \/ \E c \in Clients : client[c] = [st |-> "open", gen |-> g]
    /\ Signal(g)
    /\ manager' = [manager EXCEPT ![g] = "closing"]
    /\ UNCHANGED <<main, gen, init, mode, permits, cancelled, ready, upstreamState, tpOpen, peers, serving>>

\* The fallback token is seen: reset_runtime_state.
Reset(g) ==
    /\ manager[g] = "running"
    /\ g \in signalled /\ cancelled = "no"
    /\ ready' = [ready EXCEPT ![g] = FALSE]
    /\ upstreamState' = [upstreamState EXCEPT ![g] = "SoloMining"]
    /\ manager' = [manager EXCEPT ![g] = "closing"]
    /\ UNCHANGED <<main, gen, init, mode, token, tpOpen, peers, serving>>

ManagerStops(g) ==
    /\ manager[g] = "running"
    /\ cancelled = "yes"
    /\ manager' = [manager EXCEPT ![g] = "closing"]
    /\ UNCHANGED <<main, gen, init, mode, token, ready, upstreamState, tpOpen, peers, serving>>

\* ChannelManagerIo::close, then done.
CloseManager(g) ==
    /\ manager[g] = "closing"
    /\ manager' = [manager EXCEPT ![g] = "closed"]
    /\ tpOpen' = (tpOpen /\ cancelled = "no" /\ g \in signalled)
    /\ UNCHANGED <<main, gen, init, mode, signalled, cancelled, ready, upstreamState, peers, serving>>
    /\ Done(g)

-----------------------------------------------------------------------------
(* The tasks of the two connections. *)

\* A connection ends, or its tasks see a token.
IoEnds(g) ==
    /\ io[g] > 0
    /\ io' = [io EXCEPT ![g] = @ - 1]
    /\ UNCHANGED <<main, gen, init, mode, signalled, cancelled, core, upstream, jds, serving>>
    /\ Done(g)

PollUpstream(g) ==
    /\ upstream[g] = "spawned"
    /\ upstream' = [upstream EXCEPT ![g] = "running"]
    /\ UNCHANGED <<main, gen, init, mode, token, core, jds, io, serving>>

UpstreamEndsIfLost(g) ==
    /\ upstream[g] = "running"
    /\ ~Over(g)
    /\ Signal(g)
    /\ upstream' = [upstream EXCEPT ![g] = "closed"]
    /\ UNCHANGED <<main, gen, init, mode, cancelled, core, jds, io, serving>>
    /\ Done(g)

\* The loop of Upstream::start ends: the connection is lost, the pool breaks
\* the protocol, or a token is seen.
UpstreamEnds(g) ==
    /\ upstream[g] = "running"
    /\ Signal(g)
    /\ upstream' = [upstream EXCEPT ![g] = "closed"]
    /\ UNCHANGED <<main, gen, init, mode, cancelled, core, jds, io, serving>>
    /\ Done(g)

\* The loop of JobDeclarator::start, likewise.
JdsEnds(g) ==
    /\ jds[g] = "running"
    /\ ~(g = gen /\ main = "jds")
    /\ Signal(g)
    /\ jds' = [jds EXCEPT ![g] = "closed"]
    /\ UNCHANGED <<main, gen, init, mode, cancelled, core, upstream, io, serving>>
    /\ Done(g)

-----------------------------------------------------------------------------
(* start_downstream_server: it is registered only once it has bound the     *)
(* port.                                                                    *)

ServerReady(g) ==
    /\ server[g] = "polling"
    /\ ready[g]
    /\ server' = [server EXCEPT ![g] = "binding"]
    /\ UNCHANGED <<main, gen, init, mode, token, core, peers, listener, client>>

ServerGivesUp(g) ==
    /\ server[g] = "polling"
    /\ ~ready[g] /\ Over(g)
    /\ server' = [server EXCEPT ![g] = "closed"]
    /\ UNCHANGED <<main, gen, init, mode, token, core, peers, listener, client>>

Bind(g) ==
    /\ server[g] = "binding"
    /\ IF listener = 0
         THEN /\ server' = [server EXCEPT ![g] = "listening"]
              /\ listener' = g
              /\ UNCHANGED cancelled
         ELSE /\ server' = [server EXCEPT ![g] = "closed"]
              /\ cancelled' = "yes"
              /\ UNCHANGED listener
    /\ UNCHANGED <<main, gen, init, mode, signalled, permits, core, peers, client>>

\* The accept loop sees a token and calls done ...
ServerStops(g) ==
    /\ server[g] = "listening"
    /\ Over(g)
    /\ server' = [server EXCEPT ![g] = "done"]
    /\ UNCHANGED <<main, gen, init, mode, signalled, cancelled, core, peers, listener, client>>
    /\ Done(g)

\* ... and the end of its task drops the listener.
DropListener(g) ==
    /\ server[g] = "done"
    /\ server' = [server EXCEPT ![g] = "closed"]
    /\ listener' = 0
    /\ UNCHANGED <<main, gen, init, mode, token, core, peers, client>>

-----------------------------------------------------------------------------
(* A miner's connection. *)

Accept(c, g) ==
    /\ server[g] = "listening"
    /\ client[c] = NoClient
    /\ client' = [client EXCEPT ![c] = [st |-> "handshake", gen |-> g]]
    /\ UNCHANGED <<main, gen, init, mode, token, core, peers, server, listener>>

\* The handshake ends; bootstrap_group_channel wants a template, and the
\* connection registers.  After a reset there is none, and unreachable! ends
\* the task of this connection.
Bootstrap(c) ==
    /\ client[c].st = "handshake"
    /\ cancelled = "no"
    /\ client' = [client EXCEPT ![c] =
                     IF ready[@.gen] THEN [@ EXCEPT !.st = "open"] ELSE NoClient]
    /\ UNCHANGED <<main, gen, init, mode, token, core, peers, server, listener>>

\* The template and the prevhash it read belong to different tips: the global
\* token is cancelled.
BootstrapFails(c) ==
    /\ client[c].st = "handshake"
    /\ cancelled = "no"
    /\ ready[client[c].gen]
    /\ client' = [client EXCEPT ![c] = NoClient]
    /\ cancelled' = "yes"
    /\ UNCHANGED <<main, gen, init, mode, signalled, permits, core, peers, server, listener>>

\* The handshake fails, the miner leaves, or its tasks see a token.
Disconnect(c, g) ==
    /\ client[c].gen = g
    /\ client' = [client EXCEPT ![c] = NoClient]
    /\ UNCHANGED <<main, gen, init, mode, signalled, cancelled, core, peers, server, listener>>
    /\ Done(g)

-----------------------------------------------------------------------------
MainStep ==
    \/ PoolUnreachable \/ JdsUnreachable \/ Connect
    \/ GiveUp \/ SetupUpstream \/ SetupUpstreamFails \/ SetupUpstreamLogged
    \/ SetupJds \/ SetupJdsRedirected \/ SetupJdsFails \/ SetupJdsLogged
    \/ Serve \/ Trigger \/ Restart \/ Stop

ManagerStep(g) == PollManager(g) \/ Templates(g) \/ Reset(g) \/ ManagerStops(g) \/ CloseManager(g)
ServerStep(g) == ServerReady(g) \/ ServerGivesUp(g) \/ Bind(g) \/ ServerStops(g) \/ DropListener(g)

Next ==
    \/ MainStep \/ Shutdown
    \/ \E g \in Gens :
          \/ ManagerStep(g) \/ ManagerFails(g) \/ ServerStep(g)
          \/ IoEnds(g) \/ PollUpstream(g) \/ UpstreamEnds(g) \/ JdsEnds(g)
          \/ \E c \in Clients : Accept(c, g) \/ Disconnect(c, g)
    \/ \E c \in Clients : Bootstrap(c) \/ BootstrapFails(c)

\* What the runtime does for a generation: its tasks are polled, and once a
\* token is cancelled they see it and end.
TaskStep(g) ==
    \/ ManagerStep(g) \/ PollUpstream(g)
    \/ Over(g) /\ (UpstreamEnds(g) \/ JdsEnds(g) \/ IoEnds(g) \/ \E c \in Clients : Disconnect(c, g))

\* The tasks run, connections and handshakes end, and the peers answer or
\* hang up.
Fairness ==
    /\ WF_vars(MainStep)
    /\ \A g \in Gens : WF_vars(TaskStep(g)) /\ WF_vars(ServerStep(g))

Spec == Init /\ [][Next]_vars /\ Fairness

-----------------------------------------------------------------------------
(* Properties *)

\* One channel manager at a time: when a fallback starts the next one, the
\* old one has reset its state and closed its channels, so the template
\* provider's channel has one reader.
OneManager == Cardinality({g \in Gens : manager[g] \in {"running", "closing"}}) <= 1

\* A component that is gone is noticed: the channels of a generation are
\* closed only after its fallback or the shutdown was signalled, so that a
\* failed send on one of them is ignored by handle_error_action.  The one
\* exception is a pool or a JDS whose setup failed with an error that is only
\* logged (upstream/mod.rs:322-335, job_declarator/mod.rs:207-217): its channels
\* are closed and nobody is told.
ClosedIsSignalled ==
    \A g \in Gens :
        /\ manager[g] = "closed" => Over(g)
        /\ upstream[g] = "closed" \/ jds[g] = "closed" => Over(g) \/ (g = gen /\ logged)

\* The channel to the template provider outlives every fallback.
TemplatesSurvive == cancelled = "no" => tpOpen

\* When the main task is back in its loop and nothing is signalled, a mode
\* other than solo mining is in force only with a JDS that answered it and a
\* manager that opens channels upstream, and a manager that mines alone has no
\* connection and is in solo mode.  Solo mode with a manager that wants a
\* channel (NoChannel) is the third combination the code reaches: a JDS that
\* did not answer with SetupConnectionSuccess, or a client configured for solo
\* mining that tries its upstreams after a fallback.
ModesAgree ==
    main = "loop" /\ ~Over(gen) =>
        /\ mode.inner = "jd" => jds[gen] = "running" /\ upstreamState[gen] = "NoChannel"
        /\ upstreamState[gen] = "SoloMining" =>
              mode.inner = "solo" /\ upstream[gen] = "none" /\ jds[gen] = "none"

\* A fallback ends: the client gets back to its loop with a later generation
\* (and may leave it for the next fallback), or stops.
FallbackEnds ==
    \A g \in 1..(MaxGen - 1) :
        g \in signalled ~> (gen > g /\ main \in {"loop", "waiting"}) \/ main = "stopped"

\* Across fallbacks one manager runs at a time, nobody goes away unnoticed
\* unless the error was only logged, and the template provider's channel stays open.
TasksInv == TypeOK /\ OneManager /\ ClosedIsSignalled /\ TemplatesSurvive
=============================================================================
