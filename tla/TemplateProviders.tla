-------------------------- MODULE TemplateProviders --------------------------
(***************************************************************************)
(* The three template providers: Bitcoin Core over IPC (bitcoin-core-sv2,   *)
(* unix_capnp/v31x/template_distribution_protocol), Bitcoin Core over       *)
(* JSON-RPC (pool template_receiver/bitcoin_rpc.rs) and an SV2 template     *)
(* provider over the network (template_receiver/sv2_tp).  They answer a     *)
(* channel manager over two unbounded channels.                             *)
(*                                                                         *)
(* The IPC provider is one thread with a task for the messages of the       *)
(* channel manager, a task that monitors the templates and timers; they     *)
(* interleave where they wait for Core, never between the two messages of   *)
(* one publication.  The RPC provider is one task.  The SV2 provider is a   *)
(* task that forwards between the channel manager and the connection.       *)
(***************************************************************************)
EXTENDS Naturals, Sequences, FiniteSets, SequencesExt, FiniteSetsExt

CONSTANTS
    Setups,             \* which provider, for which application
    MaxAsked,           \* bound on the requests and solutions
    MaxFailures,        \* bound on the failed calls of the RPC provider
    MaxRetained,        \* MAX_RETAINED_TEMPLATES
    MaxRetries          \* MAX_RETRIES of Sv2Tp::new

ASSUME ProvidersAssumption ==
    /\ IsFiniteSet(Setups)
    /\ \A s \in Setups :
          /\ s.provider \in {"ipc", "rpc", "sv2"}
          /\ s.constraints \in Nat    \* how often the channel manager sends them
          /\ s.requests \in BOOLEAN   \* it asks for transactions (full-template mode)
          \* bounds on the templates made and on the blocks of the chain
          /\ s.templates \in Nat \ {0} /\ s.tips \in Nat \ {0}
    /\ {MaxRetained, MaxRetries} \subseteq Nat \ {0}
    /\ MaxAsked \in Nat /\ MaxFailures \in Nat

VARIABLES
    setup,
    tip,                \* the chain of the Bitcoin node
    sent,               \* what went out on the channel to the channel manager
    inbox,              \* the channel from the channel manager
    given, asked,       \* how many constraints, how many other messages it sent
    cancelled,          \* the global cancellation token
    failures,           \* failed calls so far
    main,               \* task of the messages; the whole RPC or SV2 provider
    monitor,            \* task monitor_ipc_templates
    draft,              \* the template each task is working on
    stop,               \* template_ipc_client_cancellation_token
    base,               \* IPC: the template waitNext refers to
    applied,            \* the constraints new templates are made with
    prev,               \* current_prev_hash
    throttled,          \* a template without a new tip was sent within min_interval
    nextId,             \* template_id_factory, next_template_id
    data,               \* template_data, templates
    staleIds,           \* stale_template_ids
    doomed,             \* the timers of process_stale_template_data
    dying, destroyed,   \* template clients being destroyed, and destroyed, in Core
    lost,               \* templates whose solution found no template data
    cause,              \* what cancelled the token
    wire, attempt       \* SV2: the connection's messages, the attempts to connect

node == <<setup, tip>>
inputs == <<inbox, given, asked>>
ending == <<cancelled, cause>>
tasks == <<main, monitor>>
client == <<draft, base, nextId>>
retention == <<data, staleIds, doomed, dying, destroyed>>
net == <<wire, attempt>>
vars == <<node, sent, inputs, ending, failures, tasks, client, stop, applied, prev, throttled,
          retention, lost, net>>

MaxTemplates == Max({s.templates : s \in Setups})
MaxTips == Max({s.tips : s \in Setups})
Ids == 1..MaxTemplates
None == [id |-> 0, tip |-> 0, under |-> 0]
Made(at, under) == [id |-> nextId, tip |-> at, under |-> under]
Templates == [id : 0..MaxTemplates, tip : 0..MaxTips, under : 0..Max({s.constraints : s \in Setups})]

NewTemplate(t, future) == [kind |-> "template", t |-> t, future |-> future]
PrevHash(t) == [kind |-> "prevhash", t |-> t, future |-> TRUE]
Ask(kind, id) == [kind |-> kind, id |-> id]

\* The template of the last message of a kind in a sequence of messages, and
\* whether the prevhash of its last template is still to come.
Places(log, kind) == {i \in DOMAIN log : log[i].kind = kind}
LastOf(log, kind) == IF Places(log, kind) = {} THEN None ELSE log[Max(Places(log, kind))].t
Owes(log) == log # <<>> /\ Last(log).kind = "template" /\ Last(log).future

LastTemplate == LastOf(sent, "template")
Announced == LastOf(sent, "prevhash").tip
Owed == Owes(sent)
Published == {sent[i].t : i \in {j \in DOMAIN sent : sent[j].kind = "template"}}

TypeOK ==
    /\ setup \in Setups /\ tip \in 1..MaxTips
    /\ \A i \in DOMAIN sent :
          sent[i] \in [kind : {"template", "prevhash"}, t : Templates, future : BOOLEAN]
    /\ \A i \in DOMAIN inbox :
          inbox[i] \in [kind : {"constraints", "request", "solution"}, id : 0..MaxTemplates]
    /\ given \in 0..setup.constraints /\ asked \in 0..MaxAsked /\ failures \in 0..MaxFailures
    /\ cancelled \in BOOLEAN /\ cause \in {"no", "call", "request", "connection", "user"}
    /\ main \in {"await", "create", "fetch", "sending", "serve", "join", "answer", "first", "refresh",
                 "poll", "publish", "connect", "setup", "forward", "over"}
    /\ monitor \in {"none", "start", "wait", "fetch", "sending", "over"}
    /\ draft \in [{"main", "monitor"} -> Templates] /\ base \in Templates
    /\ stop \in BOOLEAN /\ applied \in 0..setup.constraints /\ prev \in 0..MaxTips
    /\ throttled \in BOOLEAN /\ nextId \in 1..(MaxTemplates + 1)
    /\ data \subseteq Templates /\ staleIds \subseteq Ids /\ lost \subseteq Templates
    /\ \A i \in DOMAIN doomed : doomed[i] \subseteq Ids
    /\ dying \subseteq Ids /\ destroyed \subseteq Ids
    /\ attempt \in 1..MaxRetries
    /\ setup.provider = "rpc" => Cardinality(data) <= MaxRetained

Init ==
    /\ setup \in Setups /\ tip = 1
    /\ sent = <<>> /\ inbox = <<>> /\ given = 0 /\ asked = 0
    /\ cancelled = FALSE /\ cause = "no" /\ failures = 0
    /\ main = IF setup.provider = "sv2" THEN "connect" ELSE "await"
    /\ monitor = "none"
    /\ draft = [w \in {"main", "monitor"} |-> None] /\ base = None
    /\ stop = FALSE /\ applied = 0 /\ prev = 0 /\ throttled = FALSE /\ nextId = 1
    /\ data = {} /\ staleIds = {} /\ doomed = <<>> /\ dying = {} /\ destroyed = {}
    /\ lost = {} /\ wire = <<>> /\ attempt = 1

-----------------------------------------------------------------------------
(* The node, and the channel manager. *)

NewBlock ==
    /\ tip < setup.tips
    /\ tip' = tip + 1
    /\ UNCHANGED <<setup, sent, inputs, ending, failures, tasks, client, stop, applied, prev, throttled,
                   retention, lost, net>>

SendConstraints ==
    /\ given < setup.constraints
    /\ given' = given + 1
    /\ inbox' = Append(inbox, Ask("constraints", 0))
    /\ UNCHANGED <<node, sent, asked, ending, failures, tasks, client, stop, applied, prev, throttled,
                   retention, lost, net>>

\* It asks for the transactions of a template, or reports a block.
SendAsk(kind, t) ==
    /\ asked < MaxAsked
    /\ t \in Published
    /\ kind = "request" => setup.requests
    /\ asked' = asked + 1
    /\ inbox' = Append(inbox, Ask(kind, t.id))
    /\ UNCHANGED <<node, sent, given, ending, failures, tasks, client, stop, applied, prev, throttled,
                   retention, lost, net>>

Cancel ==
    /\ ~cancelled
    /\ cancelled' = TRUE /\ cause' = "user"
    /\ UNCHANGED <<node, sent, inputs, failures, tasks, client, stop, applied, prev, throttled,
                   retention, lost, net>>

\* min_interval has passed: the request for fees replaces the throttled one.
IntervalPasses ==
    /\ throttled
    /\ throttled' = FALSE
    /\ UNCHANGED <<node, sent, inputs, ending, failures, tasks, client, stop, applied, prev, retention,
                   lost, net>>

CancelFor(why) == cancelled' = TRUE /\ cause' = IF cancelled THEN cause ELSE why

Receive(kind) == inbox # <<>> /\ Head(inbox).kind = kind /\ inbox' = Tail(inbox)
Message == Head(inbox).id
Stored(id) == \E t \in data : t.id = id
TemplateOf(id) == CHOOSE t \in Published : t.id = id

-----------------------------------------------------------------------------
(* Bitcoin Core over IPC. *)

Ipc == setup.provider = "ipc" /\ main # "sending" /\ monitor # "sending"

\* run: messages before the first constraints are ignored.
IpcFirstConstraints ==
    /\ Ipc /\ main = "await" /\ ~cancelled
    /\ Receive("constraints")
    /\ main' = "create"
    /\ applied' = applied + 1
    /\ UNCHANGED <<node, sent, given, asked, ending, failures, monitor, client, stop, prev, throttled,
                   retention, lost, net>>

\* handle_coinbase_output_constraints stops the monitor, and waits for it.
IpcStopMonitor ==
    /\ Ipc /\ main = "serve" /\ ~cancelled
    /\ Receive("constraints")
    /\ stop' = TRUE
    /\ main' = "join"
    /\ UNCHANGED <<node, sent, given, asked, ending, failures, monitor, client, applied, prev, throttled,
                   retention, lost, net>>

IpcMonitorStopped ==
    /\ Ipc /\ main = "join"
    /\ monitor = "over"
    /\ stop' = FALSE
    /\ main' = "create"
    /\ applied' = applied + 1
    /\ UNCHANGED <<node, sent, inputs, ending, failures, monitor, client, prev, throttled, retention,
                   lost, net>>

\* bootstrap_template_ipc_client...: Core makes a block for its tip.
IpcCreateNewBlock ==
    /\ Ipc /\ main = "create"
    /\ nextId <= setup.templates
    /\ draft' = [draft EXCEPT !.main = Made(tip, applied)]
    /\ nextId' = nextId + 1
    /\ main' = "fetch"
    /\ UNCHANGED <<node, sent, inputs, ending, failures, monitor, base, stop, applied, prev, throttled,
                   retention, lost, net>>

IpcInterrupt ==
    /\ Ipc /\ main = "create" /\ cancelled
    /\ main' = "over"
    /\ UNCHANGED <<node, sent, inputs, ending, failures, monitor, client, stop, applied, prev, throttled,
                   retention, lost, net>>

\* publish_template, up to its first message.
Publish(w, future) ==
    /\ data' = data \cup {draft[w]}
    /\ sent' = Append(sent, NewTemplate(draft[w], future))

IpcPublishFirst ==
    /\ Ipc /\ main = "fetch"
    /\ Publish("main", TRUE)
    /\ prev' = draft.main.tip
    /\ main' = "sending"
    /\ UNCHANGED <<node, inputs, ending, failures, monitor, client, stop, applied, throttled, staleIds,
                   doomed, dying, destroyed, lost, net>>

IpcSpawnMonitorOfOldClient ==
    /\ setup.provider = "ipc" /\ main = "sending"
    /\ sent' = Append(sent, PrevHash(draft.main))
    /\ base' = IF base = None THEN draft.main ELSE base
    /\ throttled' = TRUE
    /\ main' = "serve" /\ monitor' = "start"
    /\ draft' = [draft EXCEPT !.main = None]
    /\ UNCHANGED <<node, inputs, ending, failures, nextId, stop, applied, prev, retention, lost, net>>

\* The prevhash follows, and a monitor for the new template is spawned.
IpcSpawnMonitor ==
    /\ setup.provider = "ipc" /\ main = "sending"
    /\ sent' = Append(sent, PrevHash(draft.main))
    /\ base' = draft.main
    /\ throttled' = TRUE
    /\ main' = "serve" /\ monitor' = "start"
    /\ draft' = [draft EXCEPT !.main = None]
    /\ UNCHANGED <<node, inputs, ending, failures, nextId, stop, applied, prev, retention, lost, net>>

\* monitor_ipc_templates has its thread, and sends waitNext.
IpcWait ==
    /\ Ipc /\ monitor = "start"
    /\ monitor' = "wait"
    /\ UNCHANGED <<node, sent, inputs, ending, failures, main, client, stop, applied, prev, throttled,
                   retention, lost, net>>

IpcWaitNextThrottled ==
    /\ Ipc /\ monitor = "wait"
    /\ ~throttled
    /\ nextId <= setup.templates
    /\ draft' = [draft EXCEPT !.monitor = Made(tip, base.under)]
    /\ nextId' = nextId + 1
    /\ monitor' = "fetch"
    /\ UNCHANGED <<node, sent, inputs, ending, failures, main, base, stop, applied, prev, throttled,
                   retention, lost, net>>

\* waitNext returns: another tip, or more fees.
IpcWaitNext ==
    /\ Ipc /\ monitor = "wait"
    /\ tip # base.tip \/ ~throttled
    /\ nextId <= setup.templates
    /\ draft' = [draft EXCEPT !.monitor = Made(tip, base.under)]
    /\ nextId' = nextId + 1
    /\ monitor' = "fetch"
    /\ UNCHANGED <<node, sent, inputs, ending, failures, main, base, stop, applied, prev, throttled,
                   retention, lost, net>>

IpcMonitorExitsWhenReplaced ==
    /\ Ipc /\ monitor = "wait"
    /\ stop
    /\ monitor' = "over"
    /\ UNCHANGED <<node, sent, inputs, ending, failures, main, client, stop, applied, prev, throttled,
                   retention, lost, net>>

IpcMonitorExits ==
    /\ Ipc /\ monitor = "wait"
    /\ cancelled \/ stop
    /\ monitor' = "over"
    /\ UNCHANGED <<node, sent, inputs, ending, failures, main, client, stop, applied, prev, throttled,
                   retention, lost, net>>

StaleAfterPublishing == {t.id : t \in data'}
CurrentTemplateIds == {t.id : t \in data}

\* Chain tip changed: all that is known will be stale.
IpcPublishTip ==
    /\ Ipc /\ monitor = "fetch"
    /\ draft.monitor.tip # prev
    /\ Publish("monitor", TRUE)
    /\ prev' = draft.monitor.tip
    /\ doomed' = Append(doomed, CurrentTemplateIds)
    /\ monitor' = "sending"
    /\ UNCHANGED <<node, inputs, ending, failures, main, client, stop, applied, throttled, staleIds,
                   dying, destroyed, lost, net>>

IpcPublishTipPrevHash ==
    /\ setup.provider = "ipc" /\ monitor = "sending"
    /\ sent' = Append(sent, PrevHash(draft.monitor))
    /\ base' = draft.monitor
    /\ monitor' = "wait"
    /\ draft' = [draft EXCEPT !.monitor = None]
    /\ UNCHANGED <<node, inputs, ending, failures, main, nextId, stop, applied, prev, throttled,
                   retention, lost, net>>

IpcPublishFeesOnAnyTip ==
    /\ Ipc /\ monitor = "fetch"
    /\ Publish("monitor", FALSE)
    /\ base' = draft.monitor
    /\ throttled' = TRUE
    /\ monitor' = "wait"
    /\ draft' = [draft EXCEPT !.monitor = None]
    /\ UNCHANGED <<node, inputs, ending, failures, main, nextId, stop, applied, prev, staleIds, doomed,
                   dying, destroyed, lost, net>>

\* Mempool fees increased.
IpcPublishFees ==
    /\ Ipc /\ monitor = "fetch"
    /\ draft.monitor.tip = prev
    /\ Publish("monitor", FALSE)
    /\ base' = draft.monitor
    /\ throttled' = TRUE
    /\ monitor' = "wait"
    /\ draft' = [draft EXCEPT !.monitor = None]
    /\ UNCHANGED <<node, inputs, ending, failures, main, nextId, stop, applied, prev, staleIds, doomed,
                   dying, destroyed, lost, net>>

\* Any failed call ends the provider, and with it the application.
IpcMainFails ==
    /\ Ipc /\ main \in {"create", "fetch", "answer"}
    /\ failures < MaxFailures
    /\ failures' = failures + 1
    /\ main' = "over"
    /\ CancelFor("call")
    /\ UNCHANGED <<node, sent, inputs, monitor, client, stop, applied, prev, throttled, retention, lost,
                   net>>

IpcMonitorFails ==
    /\ Ipc /\ monitor \in {"start", "wait", "fetch"}
    /\ failures < MaxFailures
    /\ failures' = failures + 1
    /\ monitor' = "over"
    /\ CancelFor("call")
    /\ UNCHANGED <<node, sent, inputs, main, client, stop, applied, prev, throttled, retention, lost,
                   net>>

IpcExits ==
    /\ Ipc /\ main \in {"await", "serve"} /\ cancelled
    /\ main' = "over"
    /\ UNCHANGED <<node, sent, inputs, ending, failures, monitor, client, stop, applied, prev, throttled,
                   retention, lost, net>>

\* handle_request_transaction_data: a template that is known is asked for in
\* Core; stale and unknown ones get an error.
IpcRequest ==
    /\ Ipc /\ main = "serve" /\ ~cancelled
    /\ Receive("request")
    /\ IF Message \notin staleIds /\ Stored(Message)
       THEN main' = "answer" /\ draft' = [draft EXCEPT !.main.id = Message]
       ELSE UNCHANGED <<main, draft>>
    /\ UNCHANGED <<node, sent, given, asked, ending, failures, monitor, base, nextId, stop, applied, prev,
                   throttled, retention, lost, net>>

IpcAnswer ==
    /\ Ipc /\ main = "answer"
    /\ main' = "serve"
    /\ draft' = [draft EXCEPT !.main = None]
    /\ UNCHANGED <<node, sent, inputs, ending, failures, monitor, base, nextId, stop, applied, prev,
                   throttled, retention, lost, net>>

\* The client of the template was destroyed while the request was under way.
IpcAnswerFails ==
    /\ Ipc /\ main = "answer"
    /\ draft.main.id \in destroyed
    /\ main' = "over"
    /\ CancelFor("request")
    /\ UNCHANGED <<node, sent, inputs, failures, monitor, client, stop, applied, prev, throttled,
                   retention, lost, net>>

\* handle_submit_solution
Solution ==
    /\ Receive("solution")
    /\ lost' = IF Stored(Message) THEN lost ELSE lost \cup {TemplateOf(Message)}
    /\ UNCHANGED <<node, sent, given, asked, ending, failures, tasks, client, stop, applied, prev,
                   throttled, retention, net>>

IpcSolution == Ipc /\ main = "serve" /\ ~cancelled /\ Solution

\* process_stale_template_data, after its 10 seconds.
IpcForget ==
    /\ Ipc /\ ~cancelled
    /\ doomed # <<>>
    /\ doomed' = Tail(doomed)
    /\ staleIds' = Head(doomed)
    /\ data' = {t \in data : t.id \notin Head(doomed)}
    /\ dying' = dying \cup {t.id : t \in data \ data'}
    /\ UNCHANGED <<node, sent, inputs, ending, failures, tasks, client, stop, applied, prev, throttled,
                   destroyed, lost, net>>

\* destroy_ipc_client
IpcDestroy ==
    /\ Ipc /\ ~cancelled
    /\ dying # {}
    /\ destroyed' = destroyed \cup dying
    /\ dying' = {}
    /\ UNCHANGED <<node, sent, inputs, ending, failures, tasks, client, stop, applied, prev, throttled,
                   data, staleIds, doomed, lost, net>>

-----------------------------------------------------------------------------
(* Bitcoin Core over JSON-RPC. *)

Rpc == setup.provider = "rpc"

RpcConstraints ==
    /\ Rpc /\ main \in {"await", "poll"}
    /\ main = "await" => ~cancelled
    /\ Receive("constraints")
    /\ applied' = applied + 1
    /\ main' = IF main = "await" THEN "first" ELSE "refresh"
    /\ UNCHANGED <<node, sent, given, asked, ending, failures, monitor, client, stop, prev, throttled,
                   retention, lost, net>>

\* The oldest templates make room.
Evicted(ts) == {t \in ts : Cardinality({u \in ts : u.id > t.id}) >= MaxRetained}

\* publish_gbt and from_gbt: the coinbase prefix holds the id, so that no two
\* templates are the same work.
RpcPublish(future) ==
    /\ nextId <= setup.templates
    /\ nextId' = nextId + 1
    /\ LET t == Made(tip, applied)
       IN /\ draft' = [draft EXCEPT !.main = IF future THEN t ELSE None]
          /\ data' = (data \cup {t}) \ Evicted(data \cup {t})
          /\ sent' = Append(sent, NewTemplate(t, future))

\* refresh_template: a template and its prevhash.
RpcRefresh ==
    /\ Rpc /\ main \in {"first", "refresh"}
    /\ RpcPublish(TRUE)
    /\ main' = "publish"
    /\ UNCHANGED <<node, inputs, ending, failures, monitor, base, stop, applied, prev, throttled,
                   staleIds, doomed, dying, destroyed, lost, net>>

\* The call fails, or the template is not usable and its id is used up.
RpcFails ==
    /\ failures < MaxFailures /\ nextId <= setup.templates
    /\ failures' = failures + 1
    /\ nextId' \in {nextId, nextId + 1}

\* The first refresh forgets the constraints it failed with.
RpcFirstFails ==
    /\ Rpc /\ main = "first"
    /\ RpcFails
    /\ main' = "await"
    /\ UNCHANGED <<node, sent, inputs, ending, monitor, draft, base, stop, applied, prev, throttled,
                   retention, lost, net>>

RpcRefreshFails ==
    /\ Rpc /\ main = "refresh"
    /\ RpcFails
    /\ main' = "poll"
    /\ UNCHANGED <<node, sent, inputs, ending, monitor, draft, base, stop, applied, prev, throttled,
                   retention, lost, net>>

RpcSetNewPrevHash ==
    /\ Rpc /\ main = "publish"
    /\ sent' = Append(sent, PrevHash(draft.main))
    /\ prev' = draft.main.tip
    /\ main' = "poll"
    /\ draft' = [draft EXCEPT !.main = None]
    /\ UNCHANGED <<node, inputs, ending, failures, monitor, base, nextId, stop, applied, throttled,
                   retention, lost, net>>

\* The long poll returns: a tip that was not published yet ...
RpcNewTip ==
    /\ Rpc /\ main = "poll" /\ ~cancelled
    /\ tip # prev
    /\ RpcPublish(TRUE)
    /\ main' = "publish"
    /\ UNCHANGED <<node, inputs, ending, failures, monitor, base, stop, applied, prev, throttled,
                   staleIds, doomed, dying, destroyed, lost, net>>

\* ... or another template for the same tip, at most one in min_interval.
RpcSameTip ==
    /\ Rpc /\ main = "poll" /\ ~cancelled
    /\ tip = prev /\ ~throttled
    /\ RpcPublish(FALSE)
    /\ throttled' = TRUE
    /\ UNCHANGED <<node, inputs, ending, failures, tasks, base, stop, applied, prev, staleIds, doomed,
                   dying, destroyed, lost, net>>

RpcPollFails ==
    /\ Rpc /\ main = "poll" /\ ~cancelled
    /\ RpcFails
    /\ UNCHANGED <<node, sent, inputs, ending, tasks, draft, base, stop, applied, prev, throttled,
                   retention, lost, net>>

\* Requests are answered from what is retained.
RpcRequest ==
    /\ Rpc /\ main = "poll"
    /\ Receive("request")
    /\ UNCHANGED <<node, sent, given, asked, ending, failures, tasks, client, stop, applied, prev,
                   throttled, retention, lost, net>>

RpcSolution == Rpc /\ main = "poll" /\ Solution

\* The poll loop sees the token.  While the provider waits for constraints only
\* the end of the channel stops it, and the channel manager closes it when it
\* has seen the token (ChannelManagerIo::close).
RpcExits ==
    /\ Rpc /\ main \in {"await", "poll"} /\ cancelled
    /\ main' = "over"
    /\ UNCHANGED <<node, sent, inputs, ending, failures, monitor, client, stop, applied, prev, throttled,
                   retention, lost, net>>

-----------------------------------------------------------------------------
(* An SV2 template provider. *)

Sv2 == setup.provider = "sv2"

\* The start of the provider fails, and the application ends.
Sv2Fails ==
    /\ main' = "over"
    /\ CancelFor("connection")
    /\ UNCHANGED <<node, sent, inputs, failures, monitor, client, stop, applied, prev, throttled,
                   retention, lost, net>>

\* Sv2Tp::new: a refused connection or handshake is tried again.
Sv2Retry ==
    /\ Sv2 /\ main = "connect"
    /\ attempt < MaxRetries
    /\ attempt' = attempt + 1
    /\ UNCHANGED <<node, sent, inputs, ending, failures, tasks, client, stop, applied, prev, throttled,
                   retention, lost, wire>>

\* A timeout and an invalid key are not tried again.
Sv2ConnectFails == Sv2 /\ main = "connect" /\ Sv2Fails

Sv2Connect ==
    /\ Sv2 /\ main = "connect" /\ ~cancelled
    /\ main' = "setup"
    /\ UNCHANGED <<node, sent, inputs, ending, failures, monitor, client, stop, applied, prev, throttled,
                   retention, lost, net>>

\* setup_connection
Sv2SetupConnection ==
    /\ Sv2 /\ main = "setup"
    /\ main' = "forward"
    /\ UNCHANGED <<node, sent, inputs, ending, failures, monitor, client, stop, applied, prev, throttled,
                   retention, lost, net>>

Sv2SetupFails == Sv2 /\ main = "setup" /\ Sv2Fails

\* The provider itself is a program of its own that keeps to the protocol.
Log == sent \o wire
LogOwes == Owes(Log)
LogTip == LastOf(Log, "prevhash").tip

TpTemplate(future) ==
    /\ Sv2 /\ main = "forward" /\ applied > 0 /\ ~LogOwes
    /\ future = (tip # LogTip \/ Last(Log).t.under # applied)
    /\ nextId <= setup.templates
    /\ nextId' = nextId + 1
    /\ wire' = Append(wire, NewTemplate(Made(tip, applied), future))
    /\ UNCHANGED <<node, sent, inputs, ending, failures, tasks, draft, base, stop, applied, prev,
                   throttled, retention, lost, attempt>>

TpPrevHash ==
    /\ Sv2 /\ main = "forward" /\ LogOwes
    /\ wire' = Append(wire, PrevHash(Last(Log).t))
    /\ UNCHANGED <<node, sent, inputs, ending, failures, tasks, client, stop, applied, prev, throttled,
                   retention, lost, attempt>>

\* handle_template_provider_message
Sv2Forward ==
    /\ Sv2 /\ main = "forward" /\ ~cancelled
    /\ wire # <<>>
    /\ sent' = Append(sent, Head(wire))
    /\ wire' = Tail(wire)
    /\ UNCHANGED <<node, inputs, ending, failures, tasks, client, stop, applied, prev, throttled,
                   retention, lost, attempt>>

\* handle_channel_manager_message
Sv2Ask ==
    /\ Sv2 /\ main = "forward" /\ ~cancelled
    /\ inbox # <<>>
    /\ applied' = applied + IF Head(inbox).kind = "constraints" THEN 1 ELSE 0
    /\ inbox' = Tail(inbox)
    /\ UNCHANGED <<node, sent, given, asked, ending, failures, tasks, client, stop, prev, throttled,
                   retention, lost, net>>

\* The connection ends, or a message cannot be read: the application ends.
Sv2Disconnected == Sv2 /\ main = "forward" /\ Sv2Fails

Sv2Exits ==
    /\ Sv2 /\ main = "forward" /\ cancelled
    /\ main' = "over"
    /\ UNCHANGED <<node, sent, inputs, ending, failures, monitor, client, stop, applied, prev, throttled,
                   retention, lost, net>>

-----------------------------------------------------------------------------

Environment ==
    \/ NewBlock \/ SendConstraints \/ Cancel \/ IntervalPasses
    \/ \E kind \in {"request", "solution"}, t \in Published : SendAsk(kind, t)

IpcMain ==
    \/ IpcFirstConstraints \/ IpcStopMonitor \/ IpcMonitorStopped \/ IpcCreateNewBlock
    \/ IpcInterrupt \/ IpcPublishFirst \/ IpcSpawnMonitor \/ IpcRequest \/ IpcAnswer
    \/ IpcSolution \/ IpcExits
IpcMonitor ==
    \/ IpcWait \/ IpcWaitNext \/ IpcMonitorExits \/ IpcPublishTip \/ IpcPublishTipPrevHash
    \/ IpcPublishFees
RpcSteps ==
    \/ RpcConstraints \/ RpcRefresh \/ RpcSetNewPrevHash \/ RpcNewTip \/ RpcSameTip \/ RpcRequest
    \/ RpcSolution \/ RpcExits
Sv2Start == Sv2Connect \/ Sv2SetupConnection \/ Sv2Retry
Sv2Loop == Sv2Forward \/ Sv2Ask \/ Sv2Exits
Sv2StartFails == Sv2ConnectFails \/ Sv2SetupFails
Tp == TpPrevHash \/ \E future \in BOOLEAN : TpTemplate(future)
Failures ==
    \/ IpcMainFails \/ IpcMonitorFails \/ IpcAnswerFails \/ RpcFirstFails \/ RpcRefreshFails
    \/ RpcPollFails \/ Sv2StartFails \/ Sv2Disconnected

Next ==
    \/ Environment \/ IpcMain \/ IpcMonitor \/ IpcForget \/ IpcDestroy \/ RpcSteps \/ Sv2Start
    \/ Sv2Loop \/ Tp \/ Failures

\* The tasks run, and the node and the provider answer.  A new tip ends a
\* waitNext and a long poll.  The start of the SV2 provider gives up when the
\* token is cancelled: the tasks of the connection close its channels.
Spec ==
    /\ Init /\ [][Next]_vars
    /\ WF_vars(IpcMain) /\ WF_vars(IpcMonitor) /\ WF_vars(RpcSteps) /\ WF_vars(Sv2Loop) /\ WF_vars(Tp)
    /\ WF_vars(cancelled /\ Sv2StartFails)

-----------------------------------------------------------------------------
(* The three of them are what the channel managers rely on. *)

Over == main = "over" /\ monitor \in {"none", "over"}

Feed == INSTANCE TemplateFeed WITH
    Tips <- 1..MaxTips,
    last <- [id |-> LastTemplate.id, tip |-> LastTemplate.tip],
    owed <- Owed,
    announced <- Announced,
    closed <- Over

\* Whatever the interleaving of constraints, new tips, fee updates, failures
\* and shutdown, the messages of every provider keep to TemplateFeed.
ImplementsFeed == Feed!Spec

\* A solution of a template on the announced tip is never dropped for want of
\* its template: Core's is forgotten only after a newer tip was announced, the
\* RPC provider's when MAX_RETAINED_TEMPLATES newer ones exist.
SolutionsOfTheTip ==
    \A t \in lost :
        \/ t.tip < Announced
        \/ Rpc /\ Cardinality({u \in Published : u.id > t.id}) >= MaxRetained

\* Once the channel manager has a template that respects its latest
\* constraints it gets no other ones: the monitor of the old constraints has
\* ended before the first template of the new ones.
ScopedToConstraints ==
    \A i, j \in DOMAIN sent : i < j => sent[i].t.under <= sent[j].t.under

\* Asking for transactions ends the application only when the template had
\* been given up (10 seconds after a newer tip) while the answer was on its way.
RequestsAreHarmless == cause = "request" => TemplateOf(draft.main.id).tip < Announced

\* Every tip of the node is announced, or a later one, unless the provider is
\* stopped, has reached the bound of the model, or waits for constraints.
TipsAreAnnounced ==
    \A n \in 1..MaxTips :
        (tip = n) ~> \/ Announced >= n \/ cancelled \/ nextId > setup.templates
                     \/ (main = "await" /\ inbox = <<>>)
                     \/ main \in {"connect", "setup"} \/ applied = 0

\* A cancelled provider ends, up to the bound of the model: no task waits for
\* another one that waits for it.
ProvidersEnd == cancelled ~> (Over \/ nextId > setup.templates)

\* What a provider gives up, nobody on the announced tip still needs.
RetentionInv == TypeOK /\ SolutionsOfTheTip /\ RequestsAreHarmless
===============================================================================
