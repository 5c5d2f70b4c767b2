------------------------------ MODULE PoolShares ------------------------------
(***************************************************************************)
(* What the pool does with a share, in the GridPool deployment: the share    *)
(* handlers of the channel manager (mining_message_handler.rs), vardiff and  *)
(* UpdateChannel, and the GridPool client (gridpool.rs) that adds telemetry  *)
(* up, decides which shares become proofs, spools the proofs on disk and     *)
(* submits them to the GridPool node until it accepts them.                  *)
(*                                                                         *)
(* The handlers are steps of one task and never wait.  Every proof has a     *)
(* task of its own; a retry loop, the flush of telemetry and the refresh of  *)
(* the node's advice are tasks too.  The process may be killed at any        *)
(* moment; only the spool survives.                                         *)
(*                                                                         *)
(* The hash of a share is its level: it meets a target, the pulse threshold, *)
(* the threshold of the reserve and the network's target when it is not      *)
(* below their level.                                                       *)
(***************************************************************************)
EXTENDS Naturals, Sequences, FiniteSets, FiniteSetsExt

CONSTANTS
    Channels,           \* mining channels, of all connections
    Standard,           \* those that are standard channels
    KeyOf,              \* the telemetry entry of a channel: channel id and payout address
    Targets,
    PulseLevel,         \* minimum_pulse_difficulty
    BlockLevel,         \* network difficulty
    PulseInterval,      \* pulse_target_interval_seconds
    Setups              \* the bounds, and the levels of shares and of the reserve that occur

ASSUME SharesAssumption ==
    /\ Standard \subseteq Channels /\ IsFiniteSet(Channels) /\ IsFiniteSet(Setups)
    /\ Targets \cup {PulseLevel, BlockLevel, PulseInterval} \subseteq Nat \ {0}
    /\ \A s \in Setups :
          /\ s.levels \cup s.reserves \subseteq Nat \ {0} /\ s.clock \in Nat \ {0}
          /\ s.fees \in BOOLEAN           \* operator_fee_percent > 0
          /\ {s.jobs, s.shares, s.refused, s.updates, s.flushes, s.failures, s.crashes} \subseteq Nat

VARIABLES
    setup,
    up,                 \* the process runs
    jobs,               \* all jobs, by job id: the channel, whether it pays the operator
    chan,               \* per channel: open, target, active job, past jobs
    mail, knows,        \* SetTarget messages under way, the target the miner works with (0: not opened)
    feeNow,             \* fee_active
    accepted, refused,  \* shares answered with success, how many with an error
    solved,             \* shares sent to the template provider
    clock, started,     \* seconds; when the process started
    lastPulse,          \* last_pulse
    pulses,             \* pulse proofs of the channel since the start
    reserve,            \* minimum_difficulty_to_enter_reserve
    telemetry,          \* telemetry
    batch,              \* what flush_telemetry has drained and is sending
    delivered, dropped, \* telemetry that reached the node, that was given up
    proofs,             \* proofs that were submitted
    task,               \* the task of a proof
    spool,              \* the file of a proof
    pass,               \* retry_spooled_proofs: the entries left, the one at the node
    node,               \* proofs the node has accepted, and those it refuses for good
    lost,               \* proofs that never were in the spool
    updates, flushes, failures, crashes

mining == <<jobs, chan, feeNow, accepted, refused, solved>>
targets == <<mail, knows>>
pulse == <<lastPulse, pulses>>
counts == <<telemetry, batch, delivered, dropped>>
disk == <<task, spool, pass>>
bounds == <<updates, flushes, failures, crashes>>
vars == <<setup, up, mining, targets, clock, started, pulse, reserve, counts, proofs, disk, node, lost, bounds>>

MaxJobs == Max({s.jobs : s \in Setups})
Headers == [chan : Channels, job : 1..MaxJobs, level : UNION {s.levels : s \in Setups}]
Keys == {KeyOf[c] : c \in Channels}
Entry == [ok : Nat, bad : Nat, fee : Nat]
NoEntry == [ok |-> 0, bad |-> 0, fee |-> 0]
NoTelemetry == [k \in Keys |-> NoEntry]
NoPass == [todo |-> {}, at |-> {}, answer |-> "none"]
Closed == [open |-> FALSE, target |-> 0, active |-> 0, past |-> {}]

Plus(a, b) == [ok |-> a.ok + b.ok, bad |-> a.bad + b.bad, fee |-> a.fee + b.fee]
Total(t) == FoldSet(LAMBDA k, sum : Plus(t[k], sum), NoEntry, Keys)

TypeOK ==
    /\ setup \in Setups
    /\ up \in BOOLEAN /\ feeNow \in BOOLEAN
    /\ \A i \in DOMAIN jobs : jobs[i] \in [chan : Channels, fee : BOOLEAN]
    /\ chan \in [Channels -> [open : BOOLEAN, target : Targets \cup {0},
                              active : 0..MaxJobs, past : SUBSET (1..MaxJobs)]]
    /\ \A c \in Channels : mail[c] \in Seq(Targets)
    /\ knows \in [Channels -> Targets \cup {0}]
    /\ accepted \subseteq Headers /\ solved \subseteq accepted /\ refused \in 0..setup.refused
    /\ clock \in 1..setup.clock /\ started \in 1..clock
    /\ lastPulse \in [Channels -> 0..clock] /\ pulses \in [Channels -> 0..setup.shares]
    /\ reserve \in setup.reserves
    /\ telemetry \in [Keys -> Entry] /\ {batch, delivered, dropped} \subseteq Entry
    /\ proofs \subseteq accepted
    /\ task \in [Headers -> {"none", "write", "writing", "post", "ok", "no"}]
    /\ spool \in [Headers -> {"none", "partial", "full"}]
    /\ pass \in [todo : SUBSET Headers, at : SUBSET Headers, answer : {"none", "ok", "no"}]
    /\ node.accepted \subseteq proofs /\ node.never \subseteq proofs /\ lost \subseteq proofs

Init ==
    /\ setup \in Setups
    /\ up = TRUE /\ jobs = <<>> /\ chan = [c \in Channels |-> Closed]
    /\ mail = [c \in Channels |-> <<>>] /\ knows = [c \in Channels |-> 0]
    /\ feeNow = FALSE /\ accepted = {} /\ refused = 0 /\ solved = {}
    /\ clock = 1 /\ started = 1
    /\ lastPulse = [c \in Channels |-> 0] /\ pulses = [c \in Channels |-> 0]
    /\ reserve \in setup.reserves
    /\ telemetry = NoTelemetry /\ batch = NoEntry /\ delivered = NoEntry /\ dropped = NoEntry
    /\ proofs = {} /\ task = [h \in Headers |-> "none"] /\ spool = [h \in Headers |-> "none"]
    /\ pass = NoPass /\ node = [accepted |-> {}, never |-> {}] /\ lost = {}
    /\ updates = 0 /\ flushes = 0 /\ failures = 0 /\ crashes = 0

-----------------------------------------------------------------------------
(* Channels, jobs and time. *)

Job(c) == [chan |-> c, fee |-> feeNow]

\* A channel opens with the target of its hashrate and the current template.
OpenChannel(c, t) ==
    /\ up /\ knows[c] = 0 /\ Len(jobs) < setup.jobs
    /\ jobs' = Append(jobs, Job(c))
    /\ chan' = [chan EXCEPT ![c] = [open |-> TRUE, target |-> t, active |-> Len(jobs'), past |-> {}]]
    /\ knows' = [knows EXCEPT ![c] = t]
    /\ UNCHANGED <<setup, up, mail, feeNow, accepted, refused, solved, clock, started, pulse, reserve, counts, proofs,
                   disk, node, lost, bounds>>

\* refresh_gridpool_fee_jobs: a job whose slot 0 is not the one of the fee
\* schedule is replaced, and stays a past job.
RotateFeeJob(c) ==
    /\ up /\ chan[c].open /\ Len(jobs) < setup.jobs
    /\ jobs[chan[c].active].fee # feeNow
    /\ jobs' = Append(jobs, Job(c))
    /\ chan' = [chan EXCEPT ![c].active = Len(jobs'), ![c].past = @ \cup {chan[c].active}]
    /\ UNCHANGED <<setup, up, targets, feeNow, accepted, refused, solved, clock, started, pulse, reserve, counts,
                   proofs, disk, node, lost, bounds>>

\* A new chain tip: what was mined before is stale.
NewTip(c) ==
    /\ up /\ chan[c].open /\ Len(jobs) < setup.jobs
    /\ jobs' = Append(jobs, Job(c))
    /\ chan' = [chan EXCEPT ![c].active = Len(jobs'), ![c].past = {}]
    /\ UNCHANGED <<setup, up, targets, feeNow, accepted, refused, solved, clock, started, pulse, reserve, counts,
                   proofs, disk, node, lost, bounds>>

\* handle_close_channel
CloseChannel(c) ==
    /\ up /\ chan[c].open
    /\ chan' = [chan EXCEPT ![c] = Closed]
    /\ UNCHANGED <<setup, up, jobs, targets, feeNow, accepted, refused, solved, clock, started, pulse, reserve,
                   counts, proofs, disk, node, lost, bounds>>

\* A second passes; the fee schedule may change with it.
Tick ==
    /\ clock < setup.clock
    /\ clock' = clock + 1
    /\ feeNow' \in IF setup.fees THEN BOOLEAN ELSE {FALSE}
    /\ UNCHANGED <<setup, up, jobs, chan, targets, accepted, refused, solved, started, pulse, reserve, counts,
                   proofs, disk, node, lost, bounds>>

\* GridPoolClient::start refreshes the threshold of the reserve.
RefreshWork ==
    /\ up
    /\ reserve' \in setup.reserves \ {reserve}
    /\ UNCHANGED <<setup, up, mining, targets, clock, started, pulse, counts, proofs, disk, node, lost, bounds>>

-----------------------------------------------------------------------------
(* Targets. *)

TellTarget(c, t) ==
    /\ chan' = [chan EXCEPT ![c].target = t]
    /\ mail' = [mail EXCEPT ![c] = Append(@, t)]

\* run_vardiff_on_*_channel: try_vardiff, when it has an opinion, moves the
\* target and the miner is told; the shares it counts are all that were checked.
Vardiff(c, t) ==
    /\ up /\ chan[c].open /\ updates < setup.updates
    /\ t # chan[c].target
    /\ updates' = updates + 1
    /\ TellTarget(c, t)
    /\ UNCHANGED <<setup, up, jobs, knows, feeNow, accepted, refused, solved, clock, started, pulse, reserve,
                   counts, proofs, disk, node, lost, flushes, failures, crashes>>

\* handle_update_channel: SetTarget follows an UpdateChannelError as well, with
\* the target the channel keeps.
UpdateChannel(c, t) ==
    /\ up /\ chan[c].open /\ updates < setup.updates
    /\ updates' = updates + 1
    /\ TellTarget(c, t)
    /\ UNCHANGED <<setup, up, jobs, knows, feeNow, accepted, refused, solved, clock, started, pulse, reserve,
                   counts, proofs, disk, node, lost, flushes, failures, crashes>>

\* The miner reads a SetTarget.
ReadTarget(c) ==
    /\ mail[c] # <<>>
    /\ knows' = [knows EXCEPT ![c] = Head(mail[c])]
    /\ mail' = [mail EXCEPT ![c] = Tail(@)]
    /\ UNCHANGED <<setup, up, mining, clock, started, pulse, reserve, counts, proofs, disk, node, lost, bounds>>

-----------------------------------------------------------------------------
(* Shares. *)

\* validate_share of the channels library.
Known(h) == h.job \in chan[h.chan].past \cup {chan[h.chan].active}
Valid(h) == Known(h) /\ h.level >= chan[h.chan].target /\ h \notin accepted

\* record_telemetry: the fee is that of the active job.
Recorded(h, ok) ==
    [telemetry EXCEPT ![KeyOf[h.chan]] =
        Plus(@, [ok  |-> IF ok THEN 1 ELSE 0,
                 bad |-> IF ok THEN 0 ELSE 1,
                 fee |-> IF ok /\ jobs[chan[h.chan].active].fee THEN 1 ELSE 0])]

\* should_submit_proof
IsPulse(h) ==
    /\ h.level < reserve /\ h.level < BlockLevel
    /\ h.level >= PulseLevel
    /\ lastPulse[h.chan] = 0 \/ clock - lastPulse[h.chan] >= PulseInterval
ShouldSubmitProof(h) == h.level >= BlockLevel \/ h.level >= reserve \/ IsPulse(h)

\* submit_proof: a task for the proof.
SubmitProof(h) ==
    /\ proofs' = proofs \cup {h}
    /\ task' = [task EXCEPT ![h] = "write"]

\* A block goes to the template provider as well.
Solved(h) == IF h.level >= BlockLevel THEN solved \cup {h} ELSE solved

\* The share is counted, and becomes a proof when it is worth one.
Accepted(h) ==
    /\ accepted' = accepted \cup {h}
    /\ solved' = Solved(h)
    /\ telemetry' = Recorded(h, TRUE)
    /\ IF ShouldSubmitProof(h) THEN SubmitProof(h) ELSE UNCHANGED <<proofs, task>>
    /\ IF IsPulse(h)
       THEN /\ lastPulse' = [lastPulse EXCEPT ![h.chan] = clock]
            /\ pulses' = [pulses EXCEPT ![h.chan] = @ + 1]
       ELSE UNCHANGED pulse
    /\ UNCHANGED refused

\* Stale, unknown job, below the target, duplicate: SubmitSharesError.
Refused(h) ==
    /\ refused < setup.refused
    /\ refused' = refused + 1
    /\ telemetry' = Recorded(h, FALSE)
    /\ UNCHANGED <<accepted, solved, pulse, proofs, task>>

\* The channel is gone: SubmitSharesError without telemetry.
InvalidChannel ==
    /\ refused < setup.refused
    /\ refused' = refused + 1
    /\ UNCHANGED <<accepted, solved, pulse, telemetry, proofs, task>>

Validated(h) ==
    /\ up /\ Cardinality(accepted) < setup.shares
    /\ h.level \in setup.levels /\ h.job \in DOMAIN jobs /\ jobs[h.job].chan = h.chan
    /\ \/ ~chan[h.chan].open /\ InvalidChannel
       \/ chan[h.chan].open /\ Valid(h) /\ Accepted(h)
       \/ chan[h.chan].open /\ ~Valid(h) /\ Refused(h)
    /\ UNCHANGED <<setup, up, jobs, chan, targets, feeNow, clock, started, reserve, batch, delivered, dropped,
                   spool, pass, node, lost, bounds>>

SubmitSharesStandard(h) == h.chan \in Standard /\ Validated(h)
SubmitSharesExtended(h) == h.chan \notin Standard /\ Validated(h)

-----------------------------------------------------------------------------
(* Telemetry. *)

FlushWithoutDraining ==
    /\ up /\ batch = NoEntry /\ Total(telemetry) # NoEntry /\ flushes < setup.flushes
    /\ flushes' = flushes + 1
    /\ batch' = Total(telemetry)
    /\ UNCHANGED <<setup, up, mining, targets, clock, started, pulse, reserve, telemetry, delivered, dropped,
                   proofs, disk, node, lost, updates, failures, crashes>>

\* flush_telemetry drains the entries, then sends them.
FlushTelemetry ==
    /\ up /\ batch = NoEntry /\ Total(telemetry) # NoEntry /\ flushes < setup.flushes
    /\ flushes' = flushes + 1
    /\ batch' = Total(telemetry)
    /\ telemetry' = NoTelemetry
    /\ UNCHANGED <<setup, up, mining, targets, clock, started, pulse, reserve, delivered, dropped, proofs, disk,
                   node, lost, updates, failures, crashes>>

TelemetryDelivered ==
    /\ up /\ batch # NoEntry
    /\ delivered' = Plus(delivered, batch)
    /\ batch' = NoEntry
    /\ UNCHANGED <<setup, up, mining, targets, clock, started, pulse, reserve, telemetry, dropped, proofs, disk,
                   node, lost, bounds>>

\* A batch the node refuses, or that does not reach it, is not sent again.
TelemetryDropped ==
    /\ up /\ batch # NoEntry /\ failures < setup.failures
    /\ failures' = failures + 1
    /\ dropped' = Plus(dropped, batch)
    /\ batch' = NoEntry
    /\ UNCHANGED <<setup, up, mining, targets, clock, started, pulse, reserve, telemetry, delivered, proofs, disk,
                   node, lost, updates, flushes, crashes>>

-----------------------------------------------------------------------------
(* Proofs. *)

\* tokio::fs::write creates the file, then fills it.
CreateFile(h) ==
    /\ up /\ task[h] = "write"
    /\ task' = [task EXCEPT ![h] = "writing"]
    /\ spool' = [spool EXCEPT ![h] = "partial"]
    /\ UNCHANGED <<setup, up, mining, targets, clock, started, pulse, reserve, counts, proofs, pass, node, lost,
                   bounds>>

FillFile(h) ==
    /\ up /\ task[h] = "writing"
    /\ task' = [task EXCEPT ![h] = "post"]
    /\ spool' = [spool EXCEPT ![h] = "full"]
    /\ UNCHANGED <<setup, up, mining, targets, clock, started, pulse, reserve, counts, proofs, pass, node, lost,
                   bounds>>

\* "Unable to spool SV2 proof; refusing lossy submission"
WriteFails(h) ==
    /\ up /\ task[h] \in {"write", "writing"} /\ failures < setup.failures
    /\ failures' = failures + 1
    /\ task' = [task EXCEPT ![h] = "none"]
    /\ lost' = lost \cup {h}
    /\ UNCHANGED <<setup, up, mining, targets, clock, started, pulse, reserve, counts, proofs, spool, pass, node,
                   updates, flushes, crashes>>

\* The node: it accepts a proof, refuses it for good, or for now; the request
\* or its answer may get lost, or time out.
Answers(h, answer) ==
    \/ /\ answer = "ok" /\ h \notin node.never
       /\ node' = [node EXCEPT !.accepted = @ \cup {h}]
       /\ UNCHANGED failures
    \/ /\ answer = "no" /\ h \notin node.accepted
       /\ node' = [node EXCEPT !.never = @ \cup {h}]
       /\ UNCHANGED failures
    \/ /\ answer = "no" /\ failures < setup.failures
       /\ failures' = failures + 1
       /\ node' \in {node, [node EXCEPT !.accepted = @ \cup ({h} \ node.never)]}

\* submit_spooled_proof
Post(h, answer) ==
    /\ up /\ task[h] = "post"
    /\ Answers(h, answer)
    /\ task' = [task EXCEPT ![h] = answer]
    /\ UNCHANGED <<setup, up, mining, targets, clock, started, pulse, reserve, counts, proofs, spool, pass, lost,
                   updates, flushes, crashes>>

RemovedAlways(h, answer) == [spool EXCEPT ![h] = "none"]

\* Only an accepted proof leaves the spool.
Removed(h, answer) == IF answer = "ok" THEN [spool EXCEPT ![h] = "none"] ELSE spool

PostAnswered(h) ==
    /\ up /\ task[h] \in {"ok", "no"}
    /\ spool' = Removed(h, task[h])
    /\ task' = [task EXCEPT ![h] = "none"]
    /\ UNCHANGED <<setup, up, mining, targets, clock, started, pulse, reserve, counts, proofs, pass, node, lost,
                   bounds>>

\* retry_spooled_proofs lists the directory, then takes one file at a time.
RetrySpooledProofs ==
    /\ up /\ pass = NoPass
    /\ \E h \in Headers : spool[h] # "none"
    /\ pass' = [NoPass EXCEPT !.todo = {h \in Headers : spool[h] # "none"}]
    /\ UNCHANGED <<setup, up, mining, targets, clock, started, pulse, reserve, counts, proofs, task, spool, node,
                   lost, bounds>>

RestAfterInvalid(h) == {}

\* What is left of the listing after a file that is gone or no proof.
RestAfter(h) == pass.todo \ {h}

SkipEntry(h) ==
    /\ up /\ pass.at = {} /\ h \in pass.todo /\ spool[h] # "full"
    /\ pass' = [pass EXCEPT !.todo = RestAfter(h)]
    /\ UNCHANGED <<setup, up, mining, targets, clock, started, pulse, reserve, counts, proofs, task, spool, node,
                   lost, bounds>>

RetryEntry(h, answer) ==
    /\ up /\ pass.at = {} /\ h \in pass.todo /\ spool[h] = "full"
    /\ Answers(h, answer)
    /\ pass' = [todo |-> pass.todo \ {h}, at |-> {h}, answer |-> answer]
    /\ UNCHANGED <<setup, up, mining, targets, clock, started, pulse, reserve, counts, proofs, task, spool, lost,
                   updates, flushes, crashes>>

RetryAnswered ==
    /\ up /\ pass.at # {}
    /\ \E h \in pass.at : spool' = Removed(h, pass.answer)
    /\ pass' = [pass EXCEPT !.at = {}, !.answer = "none"]
    /\ UNCHANGED <<setup, up, mining, targets, clock, started, pulse, reserve, counts, proofs, task, node, lost,
                   bounds>>

-----------------------------------------------------------------------------
(* The process is killed, and started again by its supervisor. *)

Crash ==
    /\ up /\ crashes < setup.crashes
    /\ crashes' = crashes + 1
    /\ up' = FALSE
    /\ chan' = [c \in Channels |-> Closed] /\ mail' = [c \in Channels |-> <<>>]
    /\ knows' = [c \in Channels |-> 0]
    /\ lastPulse' = [c \in Channels |-> 0] /\ pulses' = [c \in Channels |-> 0]
    /\ dropped' = Plus(dropped, Plus(Total(telemetry), batch))
    /\ telemetry' = NoTelemetry /\ batch' = NoEntry
    /\ lost' = lost \cup {h \in Headers : task[h] \in {"write", "writing"}}
    /\ task' = [h \in Headers |-> "none"] /\ pass' = NoPass
    /\ UNCHANGED <<setup, jobs, feeNow, accepted, refused, solved, clock, started, reserve, delivered,
                   proofs, spool, node, updates, flushes, failures>>

\* GridPoolClient::connect
Restart ==
    /\ ~up
    /\ up' = TRUE /\ started' = clock
    /\ reserve' \in setup.reserves
    /\ UNCHANGED <<setup, mining, targets, clock, pulse, counts, proofs, disk, node, lost, bounds>>

-----------------------------------------------------------------------------

ManagerSteps ==
    \/ \E c \in Channels, t \in Targets : OpenChannel(c, t) \/ Vardiff(c, t) \/ UpdateChannel(c, t)
    \/ \E c \in Channels : RotateFeeJob(c) \/ NewTip(c) \/ CloseChannel(c)
    \/ \E h \in Headers : SubmitSharesStandard(h) \/ SubmitSharesExtended(h)
ProofTask(h) ==
    CreateFile(h) \/ FillFile(h) \/ PostAnswered(h) \/ \E answer \in {"ok", "no"} : Post(h, answer)
RetryLoop ==
    \/ RetrySpooledProofs \/ RetryAnswered
    \/ \E h \in Headers : SkipEntry(h) \/ \E answer \in {"ok", "no"} : RetryEntry(h, answer)
Telemetry == FlushTelemetry \/ TelemetryDelivered \/ TelemetryDropped
Environment == Tick \/ RefreshWork \/ Crash \/ \E c \in Channels : ReadTarget(c)

Next ==
    \/ ManagerSteps \/ RetryLoop \/ Telemetry \/ Environment \/ Restart
    \/ \E h \in Headers : ProofTask(h) \/ WriteFails(h)

\* The tasks of the client run, the node answers within the timeout of the HTTP
\* client, and the supervisor restarts the process.  The tasks of proofs are as
\* many as there are proofs, each of few steps: none can starve another.
Spec ==
    /\ Init /\ [][Next]_vars
    /\ WF_vars(\E h \in Headers : ProofTask(h))
    /\ WF_vars(RetryLoop) /\ WF_vars(Restart)

-----------------------------------------------------------------------------

\* A share's work reaches the node's telemetry at most once: what was checked
\* is in an entry, in the batch under way, delivered, or was dropped by a
\* failed flush or a crash, and in only one of them.
TelemetryCountedOnce ==
    LET all == Plus(Plus(delivered, dropped), Plus(batch, Total(telemetry)))
    IN all.ok = Cardinality(accepted) /\ all.bad <= refused

\* Pulse proofs of a channel keep to their cadence as long as the process runs,
\* whatever happens to the threshold of the reserve between two shares.
PulseCadence ==
    \A c \in Channels : up /\ pulses[c] > 0 => pulses[c] <= 1 + ((clock - started) \div PulseInterval)

\* The file of a proof, once complete, is removed only after the node has
\* accepted the proof, whoever of the proof's task and the retry loop removes
\* it, and whatever crashes in between.
ProofsLeaveAccepted ==
    [][\A h \in Headers : spool[h] = "full" /\ spool'[h] # "full" => h \in node.accepted]_vars

\* Every proof the pool decided to submit is accepted by the node, or refused
\* by it for good, unless it never came to be in the spool: failed calls,
\* crashes and unreadable files of earlier proofs do not stop it.  Shares are
\* bounded, so that again and again nothing is outstanding.
ProofsReachTheNode == []<>(proofs \subseteq node.accepted \cup node.never \cup lost)

\* A miner that has read its messages works with the target its shares are
\* checked against.
TargetsAgree ==
    \A c \in Channels : chan[c].open /\ mail[c] = <<>> => knows[c] = chan[c].target

\* Shares are counted once, judged by the target the miner knows, and made
\* pulse proofs at the agreed rate, also across crashes and failed calls.
SharesInv == TypeOK /\ TelemetryCountedOnce /\ TargetsAgree /\ PulseCadence
===============================================================================
