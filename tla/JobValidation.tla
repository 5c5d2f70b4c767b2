---------------------------- MODULE JobValidation ----------------------------
(***************************************************************************)
(* Declared jobs are judged by Bitcoin Core: BitcoinCoreSv2JDP of           *)
(* bitcoin-core-sv2 (unix_capnp/v31x/job_declaration_protocol), and the     *)
(* part of jd-server's BitcoinCoreIPCEngine that asks it and reads its      *)
(* answers.                                                                 *)
(*                                                                         *)
(* BitcoinCoreSv2JDP is a thread with two tasks.  The engine handles the    *)
(* declarations one by one; the monitor waits for new templates.  Both      *)
(* replace the current template and the mempool mirror, and interleave at   *)
(* every call of Core.  Except for waitNext, their calls share one thread   *)
(* of Core, which may answer the second of two calls with "thread busy".    *)
(*                                                                         *)
(* A tip stands for its hash, nBits and height, which change together.      *)
(***************************************************************************)
EXTENDS Naturals, FiniteSets, FiniteSetsExt

CONSTANTS
    Setups,             \* see ValidationAssumption; more fields are PoolRuntime's
    Txs,                \* transactions
    MaxAttempts         \* MAX_ATTEMPTS of force_update_mempool_mirror

ASSUME ValidationAssumption ==
    /\ MaxAttempts \in Nat \ {0}
    /\ \A s \in Setups :
          /\ s.mempool \in [1..s.tips -> SUBSET Txs]    \* what Core's templates hold
          /\ s.jobs \subseteq [tip : 1..s.tips, txs : SUBSET Txs, sound : BOOLEAN]
          \* bounds: blocks of the chain, header times, declarations
          /\ s.tips \in Nat \ {0} /\ s.times \in Nat \ {0} /\ s.declarations \in Nat
          /\ s.crash \in BOOLEAN                        \* Core may go away
          /\ s.contended \in BOOLEAN                    \* see Contended

VARIABLES
    setup,
    tip, now, up,       \* Core: its chain, the header time of a template made now
    cancelled,          \* the cancellation token, which the whole pool shares
    engine, monitor,    \* the two tasks
    call,               \* how Core will answer the call each of them makes
    made,               \* the template Core made for it, or whose block it fetches
    current, base,      \* current_template_ipc_client; the tip of the one waitNext refers to
    mirror,             \* mempool_mirror
    reverted,           \* it went back to an older tip
    job,                \* what handle_declare_mining_job works with
    queue, ask,         \* the JdRequest in the channel, and the one jd-server waits for
    pending,            \* declared_custom_jobs that wait for transactions
    declared,           \* how many declarations there were
    answer              \* the last DeclareMiningJobResult

core == <<setup, tip, now, up>>
tasks == <<engine, monitor>>
calls == <<call, made>>
template == <<current, base, reverted>>
server == <<ask, pending, declared, answer>>
validation == <<core, cancelled, tasks, calls, template, mirror, job, queue, server>>

Workers == {"engine", "monitor"}
MaxTips == Max({s.tips : s \in Setups})
MaxTimes == Max({s.times : s \in Setups})
Contexts == [tip : 0..MaxTips, time : 0..MaxTimes]      \* ValidationContext
NoContext == [tip |-> 0, time |-> 0]
Jobs == UNION {s.jobs : s \in Setups}
NoJob == [tip |-> 0, txs |-> {}, sound |-> FALSE]
Asks == [job : Jobs \cup {NoJob}, given : SUBSET Txs, before : Contexts]
NoAsk == [job |-> NoJob, given |-> {}, before |-> NoContext]
NoWork == [job |-> NoJob, context |-> NoContext, attempt |-> 0]
NoAnswer == [job |-> NoJob, code |-> "none", context |-> NoContext, retry |-> FALSE, refreshed |-> TRUE]

ValidationTypeOK ==
    /\ setup \in Setups /\ tip \in 1..setup.tips /\ now \in 1..setup.times
    /\ {up, cancelled, reverted} \subseteq BOOLEAN
    /\ engine \in {"off", "create", "bootstrap", "serve", "check", "refresh", "block", "join", "over"}
    /\ monitor \in {"off", "start", "wait", "block", "over"}
    /\ call \in [Workers -> {"idle", "served", "busy"}]
    /\ made \in [Workers -> Contexts] /\ current \in Contexts /\ base \in 0..MaxTips
    /\ mirror \in [context : Contexts, txs : SUBSET Txs]
    /\ job \in [job : Jobs \cup {NoJob}, context : Contexts, attempt : 0..MaxAttempts]
    /\ {queue, ask} \subseteq Asks
    /\ pending \subseteq [job : Jobs, missing : SUBSET Txs, context : Contexts]
    /\ declared \in 0..setup.declarations
    /\ answer.code \in {"none", "success", "missing", "stale", "invalid", "internal"}

ValidationInit ==
    /\ tip = 1 /\ now = 1 /\ up = TRUE
    /\ cancelled = FALSE /\ engine = "off" /\ monitor = "off"
    /\ call = [w \in Workers |-> "idle"] /\ made = [w \in Workers |-> NoContext]
    /\ current = NoContext /\ base = 0 /\ reverted = FALSE
    /\ mirror = [context |-> NoContext, txs |-> {}]
    /\ job = NoWork
    /\ queue = NoAsk /\ ask = NoAsk /\ pending = {} /\ declared = 0 /\ answer = NoAnswer

-----------------------------------------------------------------------------
(* Bitcoin Core. *)

NewBlock ==
    /\ tip < setup.tips
    /\ tip' = tip + 1
    /\ UNCHANGED <<setup, now, up, cancelled, tasks, calls, template, mirror, job, queue, server>>

TimePasses ==
    /\ now < setup.times
    /\ now' = now + 1
    /\ UNCHANGED <<setup, tip, up, cancelled, tasks, calls, template, mirror, job, queue, server>>

CoreGone ==
    /\ setup.crash /\ up
    /\ up' = FALSE
    /\ UNCHANGED <<setup, tip, now, cancelled, tasks, calls, template, mirror, job, queue, server>>

\* Core makes the template that createNewBlock or waitNext asked for; the
\* answer is read later.  With fee_threshold 0 waitNext takes any template.
CoreMakes(w) ==
    /\ up
    /\ \/ w = "engine" /\ engine \in {"create", "refresh"} /\ call[w] = "served"
       \/ w = "monitor" /\ monitor = "wait"
    /\ made[w] = NoContext
    /\ made' = [made EXCEPT ![w] = [tip |-> tip, time |-> now]]
    /\ UNCHANGED <<core, cancelled, tasks, call, template, mirror, job, queue, server>>

\* A call of the shared thread: while the other task's call has not been
\* answered, Core may find the thread busy.
Send(w) ==
    \E how \in {"served", "busy"} :
        /\ how = "busy" => call[CHOOSE v \in Workers : v # w] # "idle"
        /\ call' = [call EXCEPT ![w] = how]

Idle(w) == call' = [call EXCEPT ![w] = "idle"]

-----------------------------------------------------------------------------
(* The mempool mirror. *)

\* MempoolMirror::update with the block of a template.
Updated(m, c) ==
    [context |-> c,
     txs |-> (IF m.context.tip = c.tip THEN m.txs ELSE {}) \cup setup.mempool[c.tip]]

Refresh(c) ==
    /\ mirror' = Updated(mirror, c)
    /\ reverted' = (reverted \/ c.tip < mirror.context.tip)

-----------------------------------------------------------------------------
(* jd-server asks, and reads the answer. *)

\* A declaration waits for transactions at most once: the client answers
\* with what it was asked for, or never.
Declare(j) ==
    /\ ask = NoAsk /\ queue = NoAsk /\ declared < setup.declarations
    /\ declared' = declared + 1
    /\ ask' = [job |-> j, given |-> {}, before |-> NoContext]
    /\ queue' = ask' /\ answer' = NoAnswer
    /\ UNCHANGED <<core, cancelled, tasks, calls, template, mirror, job, pending>>

ProvideMissingTransactions(p) ==
    /\ ask = NoAsk /\ queue = NoAsk /\ p \in pending
    /\ pending' = pending \ {p}
    /\ ask' = [job |-> p.job, given |-> p.missing, before |-> p.context]
    /\ queue' = ask' /\ answer' = NoAnswer
    /\ UNCHANGED <<core, cancelled, tasks, calls, template, mirror, job, declared>>

\* The loop of the job declarator leaves whatever it waits for.
DeclaratorStops ==
    /\ cancelled
    /\ ask' = NoAsk /\ pending' = {}
    /\ UNCHANGED <<core, cancelled, tasks, calls, template, mirror, job, queue, declared, answer>>

\* validation_context_drifted
Drifted(before, after) == before # NoContext /\ before # after

\* handle_declare_mining_job of BitcoinCoreIPCEngine, after response_rx: what
\* becomes of the answer of BitcoinCoreSv2JDP.
Respond(code, context, missing, refreshed) ==
    LET retry == ask.before # NoContext
        told == IF Drifted(ask.before, context) /\ code \in {"stale", "invalid", "internal", "missing"}
                THEN "stale" ELSE code
    IN IF ask = NoAsk THEN UNCHANGED server
       ELSE /\ ask' = NoAsk
            /\ answer' = [job |-> ask.job, code |-> told, context |-> context, retry |-> retry,
                          refreshed |-> refreshed]
            /\ pending' = IF told = "missing"
                          THEN pending \cup {[job |-> ask.job, missing |-> missing, context |-> context]}
                          ELSE pending
            /\ UNCHANGED declared

-----------------------------------------------------------------------------
(* BitcoinCoreSv2JDP::new. *)

\* The connection is made and createNewBlock sent; during the initial block
\* download Core does not answer for a long time.
EngineStarts ==
    /\ engine = "off"
    /\ engine' = IF up THEN "create" ELSE "over"
    /\ IF up THEN Send("engine") ELSE UNCHANGED call
    /\ UNCHANGED <<core, cancelled, monitor, made, template, mirror, job, queue, server>>

EngineInterrupts ==
    /\ engine = "create" /\ cancelled
    /\ engine' = "over" /\ Idle("engine")
    /\ UNCHANGED <<core, cancelled, monitor, made, template, mirror, job, queue, server>>

\* The block of the first template is asked for.
EngineCreated ==
    /\ engine = "create" /\ made["engine"] # NoContext
    /\ engine' = "bootstrap" /\ current' = made["engine"]
    /\ Send("engine")
    /\ UNCHANGED <<core, cancelled, monitor, made, base, reverted, mirror, job, queue, server>>

\* The mirror is complete, ready_tx is sent, and run() spawns the monitor.
EngineReady ==
    /\ engine = "bootstrap" /\ up
    /\ engine' = "serve" /\ monitor' = "start"
    /\ Refresh(made["engine"])
    /\ made' = [made EXCEPT !["engine"] = NoContext] /\ Idle("engine")
    /\ UNCHANGED <<core, cancelled, current, base, job, queue, server>>

EngineFails ==
    /\ engine \in {"create", "bootstrap"} /\ ~up
    /\ engine' = "over" /\ Idle("engine")
    /\ UNCHANGED <<core, cancelled, monitor, made, template, mirror, job, queue, server>>

-----------------------------------------------------------------------------
(* The requests: run, handle_declare_mining_job, force_update_mempool_mirror. *)

Taken == [job |-> queue.job, context |-> mirror.context, attempt |-> 0]
Available == mirror.txs \cup queue.given

TakesIncomplete ==
    /\ engine = "serve" /\ queue # NoAsk
    /\ ~(queue.job.txs \subseteq Available)
    /\ mirror' = [mirror EXCEPT !.txs = Available]
    /\ queue' = NoAsk
    /\ Respond("missing", mirror.context, queue.job.txs \ Available, TRUE)
    /\ UNCHANGED <<core, cancelled, tasks, calls, template, job>>

\* A bound: checkBlock finds the thread busy, where the setup says so.
Contended == setup.contended \/ call'["engine"] = "served"

\* The transactions are complete: checkBlock of a block on the mirror's tip.
Takes ==
    /\ engine = "serve" /\ queue # NoAsk
    /\ queue.job.txs \subseteq Available
    /\ mirror' = [mirror EXCEPT !.txs = Available]
    /\ job' = Taken /\ queue' = NoAsk
    /\ engine' = "check" /\ Send("engine") /\ Contended
    /\ UNCHANGED <<core, cancelled, monitor, made, template, server>>

\* Core accepts a block on its own tip, with the height of that tip.
Acceptable == job.job.sound /\ job.context.tip = tip /\ job.job.tip = tip

CheckAccepts ==
    /\ engine = "check" /\ call["engine"] = "served" /\ up
    /\ Acceptable
    /\ engine' = "serve" /\ job' = NoWork /\ Idle("engine")
    /\ Respond("success", job.context, {}, TRUE)
    /\ UNCHANGED <<core, cancelled, monitor, made, template, mirror, queue>>

\* The refusal may come from a new tip: createNewBlock before it is explained.
CheckRefuses ==
    /\ engine = "check" /\ call["engine"] = "served" /\ up
    /\ ~Acceptable
    /\ engine' = "refresh" /\ job' = [job EXCEPT !.attempt = 1]
    /\ Send("engine")
    /\ UNCHANGED <<core, cancelled, monitor, made, template, mirror, queue, server>>

\* A call that fails ends the connection, also when the thread was only busy.
CheckFails ==
    /\ engine = "check" /\ (call["engine"] = "busy" \/ ~up)
    /\ engine' = "serve" /\ job' = NoWork /\ Idle("engine")
    /\ cancelled' = TRUE
    /\ Respond("internal", job.context, {}, TRUE)
    /\ UNCHANGED <<core, monitor, made, template, mirror, queue>>

ClassifyByHeight(m) == IF job.job.tip # job.context.tip THEN "stale" ELSE "invalid"

\* The error code of a refused job: m is the mirror after the refresh.
Classify(m) ==
    IF job.context # m.context \/ job.job.tip # m.context.tip THEN "stale" ELSE "invalid"

RefreshCreated ==
    /\ engine = "refresh" /\ made["engine"] # NoContext
    /\ engine' = "block" /\ current' = made["engine"]
    /\ Send("engine")
    /\ UNCHANGED <<core, cancelled, monitor, made, base, reverted, mirror, job, queue, server>>

RefreshDone ==
    /\ engine = "block" /\ call["engine"] = "served" /\ up
    /\ Refresh(made["engine"])
    /\ engine' = "serve" /\ job' = NoWork /\ made' = [made EXCEPT !["engine"] = NoContext] /\ Idle("engine")
    /\ Respond(Classify(mirror'), mirror'.context, {}, TRUE)
    /\ UNCHANGED <<core, cancelled, monitor, current, base, queue>>

RefreshRetries ==
    /\ engine \in {"refresh", "block"} /\ call["engine"] = "busy" /\ up
    /\ job.attempt < MaxAttempts
    /\ job' = [job EXCEPT !.attempt = @ + 1]
    /\ engine' = "refresh" /\ made' = [made EXCEPT !["engine"] = NoContext] /\ Send("engine")
    /\ UNCHANGED <<core, cancelled, monitor, template, mirror, queue, server>>

\* The refusal is explained by the mirror as it is.
RefreshFails ==
    /\ engine \in {"refresh", "block"}
    /\ ~up \/ (call["engine"] = "busy" /\ job.attempt = MaxAttempts)
    /\ engine' = "serve" /\ job' = NoWork /\ made' = [made EXCEPT !["engine"] = NoContext] /\ Idle("engine")
    /\ Respond(Classify(mirror), mirror.context, {}, FALSE)
    /\ UNCHANGED <<core, cancelled, monitor, template, mirror, queue>>

EngineStops ==
    /\ engine = "serve" /\ cancelled
    /\ engine' = "join"
    /\ UNCHANGED <<core, cancelled, monitor, calls, template, mirror, job, queue, server>>

EngineJoins ==
    /\ engine = "join" /\ monitor = "over"
    /\ engine' = "over"
    /\ UNCHANGED <<core, cancelled, monitor, calls, template, mirror, job, queue, server>>

-----------------------------------------------------------------------------
(* monitor_and_update_mempool_mirror. *)

\* waitNext is sent, for the template that is the current one.
Await == monitor' = "wait" /\ base' = current.tip /\ made' = [made EXCEPT !["monitor"] = NoContext]

MonitorStarts ==
    /\ monitor = "start" /\ up
    /\ Await
    /\ UNCHANGED <<core, cancelled, engine, call, current, reverted, mirror, job, queue, server>>

\* No template within the timeout, which a new tip rules out, or the thread was
\* busy with the engine's call: waitNext is sent again.
WaitTimesOut ==
    /\ monitor = "wait" /\ up /\ made["monitor"] = NoContext
    /\ base = tip \/ call["engine"] # "idle"
    /\ Await
    /\ UNCHANGED <<core, cancelled, engine, call, current, reverted, mirror, job, queue, server>>

WaitReturns ==
    /\ monitor = "wait" /\ made["monitor"] # NoContext
    /\ monitor' = "block" /\ current' = made["monitor"]
    /\ Send("monitor")
    /\ UNCHANGED <<core, cancelled, engine, made, base, reverted, mirror, job, queue, server>>

MonitorUpdates ==
    /\ monitor = "block" /\ call["monitor"] = "served" /\ up
    /\ Refresh(made["monitor"])
    /\ Await /\ Idle("monitor")
    /\ UNCHANGED <<core, cancelled, engine, current, job, queue, server>>

MonitorSkipsForGood ==
    /\ monitor = "block" /\ call["monitor"] = "busy" /\ up
    /\ monitor' = "over" /\ Idle("monitor")
    /\ UNCHANGED <<core, cancelled, engine, made, template, mirror, job, queue, server>>

\* The thread was busy: the next template will bring the block.
MonitorSkips ==
    /\ monitor = "block" /\ call["monitor"] = "busy" /\ up
    /\ Await /\ Idle("monitor")
    /\ UNCHANGED <<core, cancelled, engine, current, reverted, mirror, job, queue, server>>

MonitorFails ==
    /\ monitor \in {"start", "wait", "block"} /\ ~up
    /\ monitor' = "over" /\ Idle("monitor") /\ cancelled' = TRUE
    /\ UNCHANGED <<core, engine, made, template, mirror, job, queue, server>>

\* waitNext is interrupted.
MonitorStops ==
    /\ monitor = "wait" /\ cancelled
    /\ monitor' = "over"
    /\ UNCHANGED <<core, cancelled, engine, calls, template, mirror, job, queue, server>>

-----------------------------------------------------------------------------
ChainStep == NewBlock \/ TimePasses
CoreStep == CoreGone \/ \E w \in Workers : CoreMakes(w)
ServerStep ==
    \/ \E j \in setup.jobs : Declare(j)
    \/ \E p \in pending : ProvideMissingTransactions(p)
EngineStep ==
    \/ EngineInterrupts \/ EngineCreated \/ EngineReady \/ EngineFails
    \/ TakesIncomplete \/ Takes \/ CheckAccepts \/ CheckRefuses \/ CheckFails
    \/ RefreshCreated \/ RefreshDone \/ RefreshRetries \/ RefreshFails
    \/ EngineStops \/ EngineJoins
MonitorStep ==
    \/ MonitorStarts \/ WaitTimesOut \/ WaitReturns \/ MonitorUpdates \/ MonitorSkips
    \/ MonitorFails \/ MonitorStops

\* Core answers, unless it is gone, and both tasks are polled.  A waitNext
\* brings a template from time to time (monitors.rs: about once a second), and
\* select! does not prefer it to the token for ever.
ValidationFairness ==
    /\ \A w \in Workers : WF_validation(CoreMakes(w))
    /\ WF_validation(EngineStep)
    /\ WF_validation(MonitorStep /\ ~WaitTimesOut)
    /\ SF_validation(MonitorStops)

-----------------------------------------------------------------------------
(* Correctness. *)

\* A job that is right for its tip is called invalid, which makes the client
\* leave the pool, only if Core could not be asked again: a refusal that
\* comes from a tip the mirror had not seen is explained by that tip
\* (handlers.rs: the refresh after checkBlock).
SoundIsNotInvalid ==
    answer.code = "invalid" => ~answer.job.sound \/ ~answer.refreshed

\* A job that was accepted, and the context that its SetCustomMiningJob is
\* compared with later, belong to the same tip, whatever the mirror showed
\* when the answer was sent.
AcceptedOnItsTip ==
    answer.code = "success" => answer.context.tip = answer.job.tip

\* A client that provides what it was asked for is not asked again: the
\* mirror keeps transactions for as long as it stays on a tip, and otherwise
\* the answer is that the tip is stale.  The exception is a mirror that went
\* back to an older tip and forth again within one second: it lost its
\* transactions, and the context looks the same.
AskedOnce == answer.code = "missing" => ~answer.retry \/ reverted

\* The mirror ends up on Core's tip, although its two writers overwrite each
\* other's templates, skip a block when the thread is busy, and may bring
\* back an older tip; it has nobody to update it only before the bootstrap.
MirrorCatchesUp == <>[](cancelled \/ monitor = "off" \/ mirror.context.tip = tip)

\* jd-server does not wait forever for the answer to a declaration.
DeclarationsAnswered == ask # NoAsk ~> ask = NoAsk
=============================================================================
