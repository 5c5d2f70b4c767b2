----------------------------- MODULE PoolRegistry -----------------------------
(***************************************************************************)
(* Who the pool thinks is connected: the maps the channel manager keeps     *)
(* about its downstreams and their channels, and the tasks that update      *)
(* them (pool-apps/pool/src/lib/channel_manager/mod.rs,                     *)
(* mining_message_handler.rs and downstream/).                              *)
(*                                                                         *)
(* Three kinds of task touch the maps.  The accept task of a connection     *)
(* inserts it; the connection's own task runs remove_downstream when its    *)
(* loop ends; the channel manager runs the handlers of the messages the     *)
(* connections queued for it, and remove_downstream when a handler asks for *)
(* a disconnect.  Every map is a DashMap with a lock of its own, so         *)
(* remove_downstream is four steps that interleave with everything else,    *)
(* while with_registered_downstream holds the entry of the downstream map   *)
(* during a handler, which makes an open one step.                          *)
(***************************************************************************)
EXTENDS Naturals, Sequences, FiniteSets

CONSTANTS
    Downstreams,        \* connections; an id is never used twice
    ChannelIds,         \* ids channel_id_factory can hand out in the model
    MaxChannels,        \* POOL_MAX_CHANNELS: capacity of the extranonce allocator
    MaxQueue,           \* bound on the messages in flight to the channel manager
    GridPool,           \* a [gridpool] section is configured
    SupportedExt,       \* supported_extensions
    RequiredExt,        \* required_extensions
    ClientExt,          \* the extensions clients may ask for
    ClientFlags         \* <<requires_custom_work, requires_standard_jobs>> they may set

ASSUME ChannelIdsAssumption == ChannelIds \subseteq Nat \ {0, 1}
ASSUME BoundsAssumption == MaxChannels \in Nat /\ MaxQueue \in Nat
ASSUME GridPoolAssumption == GridPool \in BOOLEAN
ASSUME FlagsAssumption == ClientFlags \subseteq BOOLEAN \X BOOLEAN

VARIABLES
    stage,          \* the connection's task
    step,           \* the remove_downstream step the task is at
    downstreams,    \* ChannelManager.downstreams
    senders,        \* ChannelManagerIo.downstream_sender
    vardiff,        \* ChannelManager.vardiff
    payouts,        \* ChannelManager.gridpool_channels
    standard,       \* keys in the standard_channels of some Downstream
    extended,       \* keys in the extended_channels of some Downstream
    nextId,         \* Downstream.channel_id_factory
    custom,         \* downstreams with requires_custom_work
    stdjobs,        \* downstreams with requires_standard_jobs
    negotiated,     \* Downstream.negotiated_extensions
    queue,          \* ChannelManagerIo.downstream_receiver
    cm,             \* the channel manager: its target and remove_downstream step
    shutdown        \* the global cancellation token is cancelled

maps == <<downstreams, senders, vardiff, payouts>>
chans == <<standard, extended, nextId>>
flags == <<custom, stdjobs, negotiated>>
vars == <<stage, step, maps, chans, flags, queue, cm, shutdown>>

Keys == Downstreams \X ChannelIds
Channels == standard \cup extended
Of(d) == {d} \X ChannelIds

Stages == {"absent", "accepted", "bootstrapped", "routed", "setup",
           "running", "leaving", "gone"}
\* Only a CloseChannel names a channel.
Messages == [from : Downstreams, kind : {"standard", "extended"}, id : {1}]
              \cup [from : Downstreams, kind : {"close"}, id : ChannelIds]

\* The channel manager's program counter: serving its select loop, at a step
\* of remove_downstream(target), or out of the loop.
Serving(c) == c.at = "loop"
CmStates == [at : {"loop", "removing", "stopped"}, target : SUBSET Downstreams, step : 1..4]

TypeOK ==
    /\ stage \in [Downstreams -> Stages]
    /\ step \in [Downstreams -> 1..4]
    /\ downstreams \subseteq Downstreams
    /\ senders \subseteq Downstreams
    /\ vardiff \subseteq Keys
    /\ payouts \subseteq Keys
    /\ standard \subseteq Keys
    /\ extended \subseteq Keys
    /\ nextId \in [Downstreams -> Nat]
    /\ custom \subseteq Downstreams
    /\ stdjobs \subseteq Downstreams
    /\ negotiated \in [Downstreams -> SUBSET SupportedExt]
    /\ queue \in Seq(Messages)
    /\ cm \in CmStates
    /\ shutdown \in BOOLEAN

\* ChannelManager::new, once the template provider has delivered a template
\* and a prevhash and the server listens.  Channel id 1 is the group channel.
Init ==
    /\ stage = [d \in Downstreams |-> "absent"]
    /\ step = [d \in Downstreams |-> 1]
    /\ downstreams = {} /\ senders = {} /\ vardiff = {} /\ payouts = {}
    /\ standard = {} /\ extended = {}
    /\ nextId = [d \in Downstreams |-> 2]
    /\ custom = {} /\ stdjobs = {}
    /\ negotiated = [d \in Downstreams |-> {}]
    /\ queue = <<>>
    /\ cm = [at |-> "loop", target |-> {}, step |-> 1]
    /\ shutdown = FALSE

-----------------------------------------------------------------------------
(* The accept task of a connection. *)

\* accept() and the noise handshake.
Accept(d) ==
    /\ stage[d] = "absent"
    /\ ~shutdown
    /\ stage' = [stage EXCEPT ![d] = "accepted"]
    /\ UNCHANGED <<step, maps, chans, flags, queue, cm, shutdown>>

\* bootstrap_group_channel: when the group channel cannot be built the task
\* cancels the global token.
Bootstrap(d) ==
    /\ stage[d] = "accepted"
    /\ \/ stage' = [stage EXCEPT ![d] = "bootstrapped"] /\ UNCHANGED shutdown
       \/ stage' = [stage EXCEPT ![d] = "gone"] /\ shutdown' = TRUE
    /\ UNCHANGED <<step, maps, chans, flags, queue, cm>>

\* downstream_sender.insert
Route(d) ==
    /\ stage[d] = "bootstrapped"
    /\ stage' = [stage EXCEPT ![d] = "routed"]
    /\ senders' = senders \cup {d}
    /\ UNCHANGED <<step, downstreams, vardiff, payouts, chans, flags, queue, cm, shutdown>>

\* downstreams.insert, then Downstream::start waits for SetupConnection.
Register(d) ==
    /\ stage[d] = "routed"
    /\ stage' = [stage EXCEPT ![d] = "setup"]
    /\ downstreams' = downstreams \cup {d}
    /\ UNCHANGED <<step, senders, vardiff, payouts, chans, flags, queue, cm, shutdown>>

-----------------------------------------------------------------------------
(* The task of a connection. *)

\* handle_setup_connection stores the two flags of the client.
SetupConnection(d, work, std) ==
    /\ stage[d] = "setup"
    /\ stage' = [stage EXCEPT ![d] = "running"]
    /\ custom' = IF work THEN custom \cup {d} ELSE custom
    /\ stdjobs' = IF std THEN stdjobs \cup {d} ELSE stdjobs
    /\ UNCHANGED <<step, maps, chans, negotiated, queue, cm, shutdown>>

\* handle_request_extensions: a request that misses a required extension ends
\* the connection, one with nothing supported only gets an error.
RequestExtensions(d, requested) ==
    /\ stage[d] = "running"
    /\ IF RequiredExt \subseteq requested
         THEN /\ negotiated' = IF requested \cap SupportedExt = {} THEN negotiated
                               ELSE [negotiated EXCEPT ![d] = requested \cap SupportedExt]
              /\ UNCHANGED stage
         ELSE stage' = [stage EXCEPT ![d] = "leaving"] /\ UNCHANGED negotiated
    /\ UNCHANGED <<step, maps, chans, custom, stdjobs, queue, cm, shutdown>>

\* handle_downstream_message forwards a mining message to the channel manager.
Forward(m) ==
    /\ stage[m.from] = "running"
    /\ cm.at # "stopped"
    /\ Len(queue) < MaxQueue
    /\ queue' = Append(queue, m)
    /\ UNCHANGED <<stage, step, maps, chans, flags, cm, shutdown>>

\* The peer goes away or breaks the protocol: the message loop ends.
PeerLost(d) ==
    /\ stage[d] \in {"setup", "running"}
    /\ stage' = [stage EXCEPT ![d] = "leaving"]
    /\ UNCHANGED <<step, maps, chans, flags, queue, cm, shutdown>>

EvictedWhileRunning(d) ==
    /\ stage[d] = "running"
    /\ d \notin senders \/ shutdown
    /\ stage' = [stage EXCEPT ![d] = "leaving"]
    /\ UNCHANGED <<step, maps, chans, flags, queue, cm, shutdown>>

\* The channel manager dropped its sender, so the receiver is closed; or the
\* global token is cancelled.
Evicted(d) ==
    /\ \/ stage[d] = "running" /\ d \notin senders
       \/ stage[d] \in {"setup", "running"} /\ shutdown
    /\ stage' = [stage EXCEPT ![d] = "leaving"]
    /\ UNCHANGED <<step, maps, chans, flags, queue, cm, shutdown>>

-----------------------------------------------------------------------------
(* remove_downstream, one step per map. *)

RemovePayoutsFirst(d, s) ==
    /\ payouts' = IF s = 1 THEN payouts \ Of(d) ELSE payouts
    /\ vardiff' = IF s = 2 THEN vardiff \ Of(d) ELSE vardiff
    /\ downstreams' = IF s = 3 THEN downstreams \ {d} ELSE downstreams
    /\ senders' = IF s = 4 THEN senders \ {d} ELSE senders

RemoveKeepingSender(d, s) ==
    /\ downstreams' = IF s = 1 THEN downstreams \ {d} ELSE downstreams
    /\ vardiff' = IF s = 2 THEN vardiff \ Of(d) ELSE vardiff
    /\ payouts' = IF s = 3 THEN payouts \ Of(d) ELSE payouts
    /\ UNCHANGED senders

RemoveStep(d, s) ==
    /\ downstreams' = IF s = 1 THEN downstreams \ {d} ELSE downstreams
    /\ vardiff' = IF s = 2 THEN vardiff \ Of(d) ELSE vardiff
    /\ payouts' = IF s = 3 THEN payouts \ Of(d) ELSE payouts
    /\ senders' = IF s = 4 THEN senders \ {d} ELSE senders

\* on_disconnect, run by the connection's task after its loop.  The last step
\* ends the task: the Downstream and the extranonce prefixes of its channels
\* are dropped.
Leave(d) ==
    /\ stage[d] = "leaving"
    /\ RemoveStep(d, step[d])
    /\ IF step[d] < 4
         THEN /\ step' = [step EXCEPT ![d] = step[d] + 1]
              /\ UNCHANGED <<stage, standard, extended>>
         ELSE /\ stage' = [stage EXCEPT ![d] = "gone"]
              /\ standard' = standard \ Of(d)
              /\ extended' = extended \ Of(d)
              /\ UNCHANGED step
    /\ UNCHANGED <<nextId, flags, queue, cm, shutdown>>

\* Action::Disconnect: the channel manager runs remove_downstream itself.
CmRemove ==
    /\ cm.at = "removing"
    /\ \E d \in cm.target : RemoveStep(d, cm.step)
    /\ cm' = IF cm.step < 4 THEN [cm EXCEPT !.step = cm.step + 1]
             ELSE [at |-> "loop", target |-> {}, step |-> 1]
    /\ UNCHANGED <<stage, step, chans, flags, queue, shutdown>>

-----------------------------------------------------------------------------
(* The channel manager's handlers.  m is the message it received. *)

Received(m, kind) ==
    /\ Serving(cm)
    /\ ~shutdown
    /\ queue # <<>>
    /\ m = Head(queue)
    /\ m.kind = kind
    /\ queue' = Tail(queue)

Disconnect(d) == cm' = [at |-> "removing", target |-> {d}, step |-> 1]

Fresh(d) == <<d, nextId[d]>>

\* allocate_standard / allocate_extended: a prefix lives as long as its channel.
PrefixAvailable == Cardinality(Channels) < MaxChannels

\* with_registered_downstream: nothing may be done for a downstream that is no
\* longer registered.
HandleUnregistered(m) ==
    /\ Received(m, m.kind)
    /\ m.from \notin downstreams
    /\ Disconnect(m.from)
    /\ UNCHANGED <<stage, step, maps, chans, flags, shutdown>>

\* The open is answered with an error and leaves no trace: a custom-work
\* client, or an identity that cannot be parsed.
RejectOpenStandard(m) ==
    /\ Received(m, "standard")
    /\ m.from \in downstreams
    /\ UNCHANGED <<stage, step, maps, chans, flags, cm, shutdown>>

\* GridPool cannot build the coinbase outputs: disconnect before any change.
FailOpenStandard(m) ==
    /\ Received(m, "standard")
    /\ m.from \in downstreams
    /\ m.from \notin custom
    /\ GridPool
    /\ Disconnect(m.from)
    /\ UNCHANGED <<stage, step, maps, chans, flags, shutdown>>

\* The extranonce allocator is exhausted: the pool shuts down.
ExhaustOpenStandard(m) ==
    /\ Received(m, "standard")
    /\ m.from \in downstreams
    /\ m.from \notin custom
    /\ ~PrefixAvailable
    /\ shutdown' = TRUE
    /\ UNCHANGED <<stage, step, maps, chans, flags, cm>>

\* StandardChannel::new_for_pool refuses: an error answer for a bad hash rate or
\* target, a disconnect otherwise.  The prefix is dropped, the channel id spent.
BadHashrateOpenStandard(m) ==
    /\ Received(m, "standard")
    /\ m.from \in downstreams
    /\ m.from \notin custom
    /\ PrefixAvailable
    /\ nextId[m.from] \in ChannelIds
    /\ nextId' = [nextId EXCEPT ![m.from] = nextId[m.from] + 1]
    /\ Disconnect(m.from) \/ UNCHANGED cm
    /\ UNCHANGED <<stage, step, maps, standard, extended, flags, shutdown>>

OpenStandardUnregistered(m) ==
    /\ Received(m, "standard")
    /\ m.from \notin custom
    /\ PrefixAvailable
    /\ nextId[m.from] \in ChannelIds
    /\ nextId' = [nextId EXCEPT ![m.from] = nextId[m.from] + 1]
    /\ payouts' = IF GridPool THEN payouts \cup {Fresh(m.from)} ELSE payouts
    /\ standard' = standard \cup {Fresh(m.from)}
    /\ vardiff' = vardiff \cup {Fresh(m.from)}
    /\ UNCHANGED <<stage, step, downstreams, senders, extended, flags, cm, shutdown>>

\* handle_open_standard_mining_channel
OpenStandard(m) ==
    /\ Received(m, "standard")
    /\ m.from \in downstreams
    /\ m.from \notin custom
    /\ PrefixAvailable
    /\ nextId[m.from] \in ChannelIds
    /\ nextId' = [nextId EXCEPT ![m.from] = nextId[m.from] + 1]
    /\ payouts' = IF GridPool THEN payouts \cup {Fresh(m.from)} ELSE payouts
    /\ standard' = standard \cup {Fresh(m.from)}
    /\ vardiff' = vardiff \cup {Fresh(m.from)}
    /\ UNCHANGED <<stage, step, downstreams, senders, extended, flags, cm, shutdown>>

\* An error answer: a standard-jobs client, no prefix, or a bad identity.
RejectOpenExtended(m) ==
    /\ Received(m, "extended")
    /\ m.from \in downstreams
    /\ UNCHANGED <<stage, step, maps, chans, flags, cm, shutdown>>

\* ExtendedChannel::new_for_pool refuses: an error answer for a bad hash rate,
\* target or extranonce size, a disconnect otherwise.
BadParametersOpenExtended(m) ==
    /\ Received(m, "extended")
    /\ m.from \in downstreams
    /\ m.from \notin stdjobs
    /\ PrefixAvailable
    /\ nextId[m.from] \in ChannelIds
    /\ nextId' = [nextId EXCEPT ![m.from] = nextId[m.from] + 1]
    /\ Disconnect(m.from) \/ UNCHANGED cm
    /\ UNCHANGED <<stage, step, maps, standard, extended, flags, shutdown>>

\* GridPool cannot build the coinbase outputs: the payout of the channel that
\* will never exist is already in the map, and stays until the disconnect.
FailOpenExtended(m) ==
    /\ Received(m, "extended")
    /\ m.from \in downstreams
    /\ m.from \notin stdjobs \cup custom
    /\ GridPool
    /\ PrefixAvailable
    /\ nextId[m.from] \in ChannelIds
    /\ nextId' = [nextId EXCEPT ![m.from] = nextId[m.from] + 1]
    /\ payouts' = payouts \cup {Fresh(m.from)}
    /\ Disconnect(m.from)
    /\ UNCHANGED <<stage, step, downstreams, senders, vardiff, standard, extended, flags, shutdown>>

\* handle_open_extended_mining_channel
OpenExtended(m) ==
    /\ Received(m, "extended")
    /\ m.from \in downstreams
    /\ m.from \notin stdjobs
    /\ PrefixAvailable
    /\ nextId[m.from] \in ChannelIds
    /\ nextId' = [nextId EXCEPT ![m.from] = nextId[m.from] + 1]
    /\ payouts' = IF GridPool THEN payouts \cup {Fresh(m.from)} ELSE payouts
    /\ extended' = extended \cup {Fresh(m.from)}
    /\ vardiff' = vardiff \cup {Fresh(m.from)}
    /\ UNCHANGED <<stage, step, downstreams, senders, standard, flags, cm, shutdown>>

\* The prevhash the channel manager holds does not belong to its last future
\* template: on_set_new_prev_hash fails and the open shuts the pool down.
ShutdownInOpen(m) ==
    /\ Received(m, m.kind)
    /\ m.kind \in {"standard", "extended"}
    /\ m.from \in downstreams
    /\ m.from \notin (IF m.kind = "standard" THEN custom ELSE stdjobs \cup custom)
    /\ PrefixAvailable
    /\ nextId[m.from] \in ChannelIds
    /\ nextId' = [nextId EXCEPT ![m.from] = nextId[m.from] + 1]
    /\ payouts' = IF GridPool THEN payouts \cup {Fresh(m.from)} ELSE payouts
    /\ shutdown' = TRUE
    /\ UNCHANGED <<stage, step, downstreams, senders, vardiff, standard, extended, flags, cm>>

\* handle_close_channel
CloseChannel(m) ==
    /\ Received(m, "close")
    /\ m.from \in downstreams
    /\ standard' = standard \ {<<m.from, m.id>>}
    /\ extended' = extended \ {<<m.from, m.id>>}
    /\ vardiff' = vardiff \ {<<m.from, m.id>>}
    /\ payouts' = payouts \ {<<m.from, m.id>>}
    /\ UNCHANGED <<stage, step, downstreams, senders, nextId, flags, cm, shutdown>>

\* run_vardiff drops the controllers of downstreams that left.
RunVardiff ==
    /\ Serving(cm)
    /\ ~shutdown
    /\ vardiff' = {k \in vardiff : k[1] \in downstreams}
    /\ UNCHANGED <<stage, step, downstreams, senders, payouts, chans, flags, queue, cm, shutdown>>

\* The channel manager sees the global token and closes its channels.
CmStop ==
    /\ Serving(cm)
    /\ shutdown
    /\ cm' = [at |-> "stopped", target |-> {}, step |-> 1]
    /\ senders' = {}
    /\ queue' = <<>>
    /\ UNCHANGED <<stage, step, downstreams, vardiff, payouts, chans, flags, shutdown>>

Handle(m) ==
    \/ HandleUnregistered(m) \/ ShutdownInOpen(m) \/ CloseChannel(m)
    \/ RejectOpenStandard(m) \/ FailOpenStandard(m) \/ ExhaustOpenStandard(m)
    \/ BadHashrateOpenStandard(m) \/ OpenStandard(m)
    \/ RejectOpenExtended(m) \/ BadParametersOpenExtended(m)
    \/ FailOpenExtended(m) \/ OpenExtended(m)

CmStep == CmRemove \/ CmStop \/ \E m \in Messages : Handle(m)

AcceptStep(d) == Bootstrap(d) \/ Route(d) \/ Register(d)

Next ==
    \/ \E d \in Downstreams :
          \/ Accept(d) \/ AcceptStep(d) \/ PeerLost(d) \/ Evicted(d) \/ Leave(d)
          \/ \E f \in ClientFlags : SetupConnection(d, f[1], f[2])
          \/ \E requested \in SUBSET ClientExt : RequestExtensions(d, requested)
    \/ \E m \in Messages : Forward(m)
    \/ CmStep
    \/ RunVardiff

\* The runtime runs every ready task.  Nothing makes a client connect, send
\* or leave.
Fairness ==
    /\ WF_vars(CmStep)
    /\ \A d \in Downstreams :
          WF_vars(AcceptStep(d)) /\ WF_vars(Evicted(d)) /\ WF_vars(Leave(d))

Spec == Init /\ [][Next]_vars /\ Fairness

-----------------------------------------------------------------------------
\* Every channel of a registered downstream has its vardiff controller and, in
\* GridPool mode, its payout: handle_new_template shuts the pool down when the
\* payout of a channel it iterates over is missing.  Needs the removal order
\* of remove_downstream and the guard of with_registered_downstream.
ChannelsAreIndexed ==
    \A k \in Channels : k[1] \in downstreams =>
        k \in vardiff /\ (GridPool => k \in payouts)

\* While the channel manager serves, a registered downstream has a sender:
\* RouteMessageTo::forward silently drops what it cannot route.
RegisteredIsRoutable ==
    cm.at # "stopped" => downstreams \subseteq senders

\* A connection that ended leaves nothing behind, whoever removed it and
\* whatever messages of it were still queued: no controller, payout, sender
\* or extranonce prefix.
NoOrphans ==
    \A d \in Downstreams : stage[d] = "gone" =>
        /\ d \notin downstreams \cup senders
        /\ (vardiff \cup payouts \cup Channels) \cap Of(d) = {}

\* A connection the channel manager unregistered does end: dropping the sender
\* is the only signal its task gets.
UnregisteredEnds ==
    \A d \in Downstreams :
        (stage[d] = "running" /\ d \notin downstreams) ~> (stage[d] = "gone")

\* After the global token is cancelled the channel manager stops and every
\* connection that was accepted ends.
ShutdownCompletes ==
    shutdown ~> (cm.at = "stopped" /\ \A d \in Downstreams : stage[d] \in {"absent", "gone"})

\* The strengthening that makes the invariants above inductive: how far the
\* task of a connection is determines what the maps may hold of it.
Joined == {"setup", "running", "leaving"}
LifecycleInv ==
    /\ \A d \in Downstreams : stage[d] \notin {"leaving", "gone"} => step[d] = 1
    /\ \A d \in downstreams : stage[d] \in Joined /\ (stage[d] = "leaving" => step[d] = 1)
    /\ \A d \in senders : stage[d] \notin {"absent", "accepted", "bootstrapped", "gone"}
    /\ \A k \in vardiff : stage[k[1]] \in Joined /\ (stage[k[1]] = "leaving" => step[k[1]] <= 2)
    /\ \A k \in payouts : stage[k[1]] \in Joined /\ (stage[k[1]] = "leaving" => step[k[1]] <= 3)
    /\ \A k \in Channels : stage[k[1]] \in Joined
    /\ \A d \in Downstreams : (stage[d] = "routed" /\ cm.at # "stopped") => d \in senders
    /\ \A i \in DOMAIN queue : stage[queue[i].from] \in {"running", "leaving", "gone"}
    /\ \A d, e \in cm.target : d = e
    /\ cm.at = "removing" => /\ \A d \in cm.target : stage[d] \in {"running", "leaving", "gone"}
                             /\ cm.step > 1 => cm.target \cap downstreams = {}

\* The inductive invariant: no step of a handler, a connection's task or one of
\* the two removals leaves the four maps inconsistent.
RegistryInv == TypeOK /\ LifecycleInv /\ ChannelsAreIndexed /\ RegisteredIsRoutable
===============================================================================
