------------------------------- MODULE PoolJobs -------------------------------
(***************************************************************************)
(* What the miners of the pool work on: how the templates and prevhashes    *)
(* of the template provider become jobs of the channels, and what the       *)
(* clients are told (pool-apps/pool/src/lib/channel_manager/mod.rs,         *)
(* template_distribution_message_handler.rs, mining_message_handler.rs and  *)
(* gridpool.rs).                                                            *)
(*                                                                         *)
(* The channel manager is one task in a biased select: messages of the      *)
(* template provider come first, then those of the clients, then the fee    *)
(* tick of GridPool.  A branch that is waiting when another one completes   *)
(* is dropped.  Only the GridPool refresh of handle_new_template waits, so  *)
(* every other handler is one step.  The accept task of a connection runs   *)
(* beside it: it reads the last template, then the last prevhash, builds a  *)
(* group channel from them and only then registers the connection.          *)
(*                                                                         *)
(* The maps that say who is connected are those of PoolRegistry; here a     *)
(* connection is registered or removed in one step.                         *)
(***************************************************************************)
EXTENDS Naturals, Sequences, FiniteSetsExt

CONSTANTS
    Downstreams,
    ChannelIds,         \* ids of the opened channels; 1 is the group channel
    Miners,             \* payout addresses the clients open channels with
    Setups,             \* the deployments, see SetupAssumption
    MaxCustom           \* bound on the jobs a channel gets by SetCustomMiningJob

\* The script of the pool (in GridPool mode the fallback address), and the
\* operator's.
Pool == "pool"
Operator == "operator"
Payees == Miners \cup {Pool}

ASSUME SetupAssumption ==
    /\ ChannelIds \subseteq Nat \ {0, 1} /\ MaxCustom \in Nat
    /\ \A s \in Setups :
          /\ s.gridPool \in BOOLEAN           \* a [gridpool] section is configured
          /\ s.jobDeclarator \in BOOLEAN      \* a [jds] section is configured
          /\ s.flags \subseteq BOOLEAN \X BOOLEAN    \* <<custom work, standard jobs>> of clients
          /\ s.values \subseteq Nat           \* coinbase values of the templates
          /\ s.suffixes \subseteq Nat         \* values of the suffix the GridPool node asks for
          /\ s.values # {} /\ s.suffixes # {}
          /\ s.cycle \in Nat \ {0}            \* fee_cycle_seconds
          /\ s.duration \in 0..s.cycle        \* the operator's slice of it
          /\ s.offset \in [Payees -> 0..(s.cycle - 1)]     \* of an address in the cycle
          \* bounds: templates published, the clock, channels of a connection
          /\ s.templates \in Nat \ {0} /\ s.seconds \in Nat \ {0} /\ s.channels \subseteq ChannelIds

VARIABLES
    setup,              \* the deployment
    templates,          \* what the template provider published
    owed,               \* the template whose SetNewPrevHash is still to be sent
    tpQueue,            \* ChannelManagerIo.tp_receiver
    lastFutureTemplate, \* ChannelManager.last_future_template
    lastNewPrevHash,    \* ChannelManager.last_new_prev_hash, as a template id
    pending,            \* the template whose handler waits for GridPool, or 0
    conn,               \* how far the connection is
    seen,               \* the template bootstrap_group_channel read
    custom, stdjobs,    \* the flags of SetupConnection
    nextId,             \* Downstream.channel_id_factory
    channels,           \* group, standard and extended channels
    payoutMode,         \* Downstream.payout_mode
    payouts,            \* who opened the channel; gridpool_channels
    work,               \* GridPoolClient.work: the value of the payout suffix
    now, due,           \* the clock, and the fee ticks not yet served
    known,              \* client: the jobs of the channel, by id
    mining,             \* client: the job it works on, and its tip
    halt                \* why the global token was cancelled

tp == <<templates, owed, tpQueue>>
last == <<lastFutureTemplate, lastNewPrevHash>>
links == <<conn, seen, custom, stdjobs, nextId>>
pays == <<payoutMode, payouts>>
client == <<known, mining>>
clock == <<now, due>>
vars == <<setup, tp, last, pending, links, channels, pays, work, clock, client, halt>>

GridPool == setup.gridPool
JobDeclarator == setup.jobDeclarator
Values == setup.values
Suffixes == setup.suffixes
MaxTemplates == setup.templates
MaxNow == setup.seconds

Group(d) == <<d, 1>>
Keys == Downstreams \X ({1} \cup ChannelIds)
Opened == {k \in Keys : k[2] # 1 /\ channels[k].kind # "none"}
Registered == {d \in Downstreams : conn[d] \in {"setup", "open"}}

NoOut == [to |-> Pool, own |-> 0, suffix |-> 0]
NoJob == [id |-> 0, tmpl |-> 0, out |-> NoOut, salt |-> 0]
NoChannel == [kind |-> "none", next |-> 1, future |-> {}, active |-> NoJob, tip |-> 0]
Idle == [job |-> NoJob, tip |-> 0]
TipOf(t) == templates[t].tip

Outs == [to : Payees \cup {Operator}, own : Nat, suffix : Nat]
Jobs == [id : Nat, tmpl : 0..MaxTemplates, out : Outs, salt : 0..MaxNow]
Causes == {"no", "bootstrap", "prevhash", "open", "refresh", "payout"}
TpMessages == [kind : {"template", "prevhash"}, id : 1..MaxTemplates]

TypeOK ==
    /\ setup \in Setups
    /\ \A i \in DOMAIN templates :
          templates[i] \in [tip : 1..MaxTemplates, future : BOOLEAN, val : Values]
    /\ owed \in 0..Len(templates)
    /\ \A i \in DOMAIN tpQueue : tpQueue[i] \in TpMessages
    /\ lastFutureTemplate \in DOMAIN templates /\ templates[lastFutureTemplate].future
    /\ lastNewPrevHash \in DOMAIN templates /\ templates[lastNewPrevHash].future
    /\ pending \in 0..Len(templates)
    /\ conn \in [Downstreams -> {"absent", "read", "built", "setup", "open", "gone"}]
    /\ seen \in [Downstreams -> 0..MaxTemplates]
    /\ custom \subseteq Downstreams /\ stdjobs \subseteq Downstreams
    /\ nextId \in [Downstreams -> Nat]
    /\ \A k \in Keys :
          /\ channels[k].kind \in {"none", "group", "standard", "extended"}
          /\ channels[k].future \subseteq Jobs /\ channels[k].active \in Jobs
          /\ channels[k].next \in Nat /\ channels[k].tip \in 0..MaxTemplates
          /\ \A i \in DOMAIN known[k] : known[k][i] \in Jobs /\ known[k][i].id = i
          /\ mining[k] \in [job : Jobs, tip : 0..MaxTemplates]
    /\ payoutMode \in [Downstreams -> Payees] /\ payouts \in [Keys -> Payees]
    /\ work \in Suffixes
    /\ now \in 1..MaxNow /\ due \in 0..MaxNow
    /\ halt \in Causes

\* The pool has received its first template and prevhash, and listens.
Init ==
    /\ setup \in Setups
    /\ \E v \in Values : templates = <<[tip |-> 1, future |-> TRUE, val |-> v]>>
    /\ owed = 0 /\ tpQueue = <<>>
    /\ lastFutureTemplate = 1 /\ lastNewPrevHash = 1 /\ pending = 0
    /\ conn = [d \in Downstreams |-> "absent"]
    /\ seen = [d \in Downstreams |-> 0]
    /\ custom = {} /\ stdjobs = {}
    /\ nextId = [d \in Downstreams |-> 2]
    /\ channels = [k \in Keys |-> NoChannel]
    /\ payoutMode = [d \in Downstreams |-> Pool]
    /\ payouts = [k \in Keys |-> Pool]
    /\ work \in Suffixes
    /\ now = 1 /\ due = 0
    /\ known = [k \in Keys |-> <<>>]
    /\ mining = [k \in Keys |-> Idle]
    /\ halt = "no"

-----------------------------------------------------------------------------
(* Coinbase outputs. *)

\* GridPoolClient::fee_active
FeeActive(a) == (now + setup.cycle - setup.offset[a]) % setup.cycle < setup.duration

\* checked_sub in GridPoolClient::coinbase_outputs: the suffix must fit.
Payable(t, w) == w <= templates[t].val

GridPoolOutputsToPool(a, t, w) ==
    [to |-> IF FeeActive(a) THEN Operator ELSE Pool,
     own |-> templates[t].val - w, suffix |-> w]

\* GridPoolClient::coinbase_outputs: slot 0 takes what the suffix leaves.
GridPoolOutputs(a, t, w) ==
    [to |-> IF FeeActive(a) THEN Operator ELSE a,
     own |-> templates[t].val - w, suffix |-> w]

\* PayoutMode::coinbase_outputs of a solo miner, or of the pool.
SoloOutputs(a, t) == [to |-> a, own |-> templates[t].val, suffix |-> 0]

-----------------------------------------------------------------------------
(* The channels of the channels_sv2 library. *)

\* on_new_template: a job with the channel's next id.
OnNewTemplate(c, t, future, out, salt) ==
    LET job == [id |-> c.next, tmpl |-> t, out |-> out, salt |-> salt]
    IN  IF future THEN [c EXCEPT !.next = @ + 1, !.future = @ \cup {job}]
                  ELSE [c EXCEPT !.next = @ + 1, !.active = job]

\* on_group_channel_job: the group's job under the group's id.
OnGroupChannelJob(c, job, future) ==
    IF future THEN [c EXCEPT !.future = @ \cup {job}] ELSE [c EXCEPT !.active = job]

\* on_set_new_prev_hash activates the future job of the template; only an
\* extended channel without future jobs can do without one.
Matching(c, t) == {j \in c.future : j.tmpl = t}
Accepts(c, t) == Matching(c, t) # {} \/ (c.kind = "extended" /\ c.future = {})
OnSetNewPrevHash(c, t) ==
    IF Matching(c, t) = {} THEN [c EXCEPT !.tip = TipOf(t)]
    ELSE [c EXCEPT !.active = CHOOSE j \in Matching(c, t) : TRUE,
                   !.future = {}, !.tip = TipOf(t)]

\* The job a channel made for template t.
JobFrom(c, t, future) ==
    IF future THEN CHOOSE j \in c.future : j.tmpl = t ELSE c.active

\* A client keeps the jobs it is told about, mines a job that is not future
\* at once, and on SetNewPrevHash the job it names.
Learn(jobs, j) == [i \in DOMAIN jobs \cup {j.id} |-> IF i = j.id THEN j ELSE jobs[i]]
Follow(m, jobs, id, tip) ==
    IF id \in DOMAIN jobs THEN [job |-> jobs[id], tip |-> tip] ELSE m

Fresh(kind) == [NoChannel EXCEPT !.kind = kind]

-----------------------------------------------------------------------------
(* The template provider: a new tip is a future template and then its       *)
(* prevhash, a fee increase a template for the present tip.                 *)

Publish(future, tip, v) ==
    /\ halt = "no"
    /\ owed = 0
    /\ Len(templates) < MaxTemplates
    /\ templates' = Append(templates, [tip |-> tip, future |-> future, val |-> v])
    /\ tpQueue' = Append(tpQueue, [kind |-> "template", id |-> Len(templates) + 1])
    /\ owed' = IF future THEN Len(templates) + 1 ELSE 0
    /\ UNCHANGED <<last, pending, links, channels, pays, work, clock, client, halt>>

PublishTip(v) == Publish(TRUE, TipOf(Len(templates)) + 1, v)
PublishFees(v) == Publish(FALSE, TipOf(Len(templates)), v)

PublishPrevHash ==
    /\ halt = "no"
    /\ owed # 0
    /\ tpQueue' = Append(tpQueue, [kind |-> "prevhash", id |-> owed])
    /\ owed' = 0
    /\ UNCHANGED <<templates, last, pending, links, channels, pays, work, clock, client, halt>>

-----------------------------------------------------------------------------
(* The select loop of ChannelManager::start. *)

\* The message of the template provider the loop is at.
Receiving(kind) ==
    /\ halt = "no"
    /\ pending = 0
    /\ tpQueue # <<>>
    /\ Head(tpQueue).kind = kind

\* A branch behind the template provider's runs when that one has nothing to
\* do or waits; a waiting one is dropped with the template it took.
Serving == halt = "no" /\ (pending # 0 \/ tpQueue = <<>>)
DropWaiting == pending' = 0

Halt(cause) == halt' = cause /\ UNCHANGED <<channels, client>>

ServedUnlessExtended ==
    {k \in Keys : k[1] \in Registered \ custom /\ channels[k].kind \notin {"none", "extended"}}

\* The channels the handlers of the template provider's messages go through:
\* clients that bring their own work are skipped.
Served == {k \in Keys : k[1] \in Registered \ custom /\ channels[k].kind # "none"}

TakesOwnJobAlways(k) == TRUE

\* A channel makes its own job of a template, or takes the group's.
TakesOwnJob(k) == k[2] = 1 \/ GridPool \/ (channels[k].kind = "standard" /\ k[1] \in stdjobs)

\* Its client is sent the group's job, or the channel's.
ToldByGroup(k) == ~GridPool /\ k[1] \notin stdjobs

\* handle_new_template, for template t and suffix w.
ApplyTemplate(t, w) ==
    LET future == templates[t].future
        groupOut(d) == SoloOutputs(payoutMode[d], t)
        group(d) == OnNewTemplate(channels[Group(d)], t, future, groupOut(d), 0)
        out(k) == IF GridPool /\ k[2] # 1 THEN GridPoolOutputs(payouts[k], t, w) ELSE groupOut(k[1])
        after(k) == IF TakesOwnJob(k) THEN OnNewTemplate(channels[k], t, future, out(k), 0)
                    ELSE OnGroupChannelJob(channels[k], JobFrom(group(k[1]), t, future), future)
        sent(k) == JobFrom(IF ToldByGroup(k) THEN group(k[1]) ELSE after(k), t, future)
        told == Served \cap Opened
    IN  IF GridPool /\ told # {} /\ ~Payable(t, w) THEN Halt("payout")
        ELSE /\ channels' = [k \in Keys |-> IF k \in Served THEN after(k) ELSE channels[k]]
             /\ known' = [k \in Keys |-> IF k \in told THEN Learn(known[k], sent(k)) ELSE known[k]]
             /\ mining' = [k \in Keys |-> IF k \in told /\ ~future
                                            THEN [mining[k] EXCEPT !.job = sent(k)] ELSE mining[k]]
             /\ UNCHANGED halt

\* handle_new_template without a GridPool refresh.
HandleNewTemplate ==
    LET t == Head(tpQueue).id
    IN  /\ Receiving("template")
        /\ ~(GridPool /\ templates[t].future)
        /\ tpQueue' = Tail(tpQueue)
        /\ lastFutureTemplate' = IF templates[t].future THEN t ELSE lastFutureTemplate
        /\ ApplyTemplate(t, work)
        /\ UNCHANGED <<templates, owed, lastNewPrevHash, pending, links, pays, work, clock>>

\* handle_new_template of a new tip in GridPool mode, up to the wait in
\* refresh_for_chain_tip.
AwaitRefresh ==
    /\ Receiving("template")
    /\ GridPool /\ templates[Head(tpQueue).id].future
    /\ pending' = Head(tpQueue).id
    /\ tpQueue' = Tail(tpQueue)
    /\ UNCHANGED <<templates, owed, last, links, channels, pays, work, clock, client, halt>>

\* The GridPool node answers for the new tip, and the handler goes on.
FinishRefresh(w) ==
    /\ halt = "no"
    /\ pending # 0
    /\ pending' = 0
    /\ work' = w
    /\ lastFutureTemplate' = pending
    /\ ApplyTemplate(pending, w)
    /\ UNCHANGED <<tp, lastNewPrevHash, links, pays, clock>>

\* It did not advance to the new tip in CHAIN_TIP_REFRESH_ATTEMPTS attempts.
FailRefresh ==
    /\ halt = "no"
    /\ pending # 0
    /\ pending' = 0
    /\ halt' = "refresh"
    /\ UNCHANGED <<tp, last, links, channels, pays, work, clock, client>>

\* handle_set_new_prev_hash
HandleSetNewPrevHash ==
    LET t == Head(tpQueue).id
        after(k) == OnSetNewPrevHash(channels[k], t)
        id(k) == after(IF k[1] \in stdjobs THEN k ELSE Group(k[1])).active.id
    IN  /\ Receiving("prevhash")
        /\ tpQueue' = Tail(tpQueue)
        /\ lastNewPrevHash' = t
        /\ IF \E k \in Served : ~Accepts(channels[k], t) THEN Halt("prevhash")
           ELSE /\ channels' = [k \in Keys |-> IF k \in Served THEN after(k) ELSE channels[k]]
                /\ mining' = [k \in Keys |-> IF k \in Served \cap Opened
                                THEN Follow(mining[k], known[k], id(k), TipOf(t)) ELSE mining[k]]
                /\ UNCHANGED <<known, halt>>
        /\ UNCHANGED <<templates, owed, lastFutureTemplate, pending, links, pays, work, clock>>

-----------------------------------------------------------------------------
(* The accept task of a connection. *)

\* bootstrap_group_channel reads the last future template ...
ReadTemplate(d) ==
    /\ halt = "no"
    /\ conn[d] = "absent"
    /\ conn' = [conn EXCEPT ![d] = "read"]
    /\ seen' = [seen EXCEPT ![d] = lastFutureTemplate]
    /\ UNCHANGED <<tp, last, pending, custom, stdjobs, nextId, channels, pays, work, clock, client, halt>>

BuildGroupWithoutJob(d) ==
    /\ halt = "no"
    /\ conn[d] = "read"
    /\ conn' = [conn EXCEPT ![d] = "built"]
    /\ channels' = [channels EXCEPT ![Group(d)] = [Fresh("group") EXCEPT !.tip = TipOf(lastNewPrevHash)]]
    /\ UNCHANGED <<tp, last, pending, seen, custom, stdjobs, nextId, pays, work, clock, client, halt>>

\* ... then the last prevhash, and builds the group channel from both.
BuildGroup(d) ==
    LET made == OnNewTemplate(Fresh("group"), seen[d], TRUE, SoloOutputs(Pool, seen[d]), 0)
    IN  /\ halt = "no"
        /\ conn[d] = "read"
        /\ IF Accepts(made, lastNewPrevHash)
             THEN /\ conn' = [conn EXCEPT ![d] = "built"]
                  /\ channels' = [channels EXCEPT ![Group(d)] = OnSetNewPrevHash(made, lastNewPrevHash)]
                  /\ UNCHANGED halt
             ELSE /\ conn' = [conn EXCEPT ![d] = "gone"]
                  /\ halt' = "bootstrap"
                  /\ UNCHANGED channels
        /\ UNCHANGED <<tp, last, pending, seen, custom, stdjobs, nextId, pays, work, clock, client>>

\* downstreams.insert; until now no handler reaches the group channel.
Register(d) ==
    /\ halt = "no"
    /\ conn[d] = "built"
    /\ conn' = [conn EXCEPT ![d] = "setup"]
    /\ UNCHANGED <<tp, last, pending, seen, custom, stdjobs, nextId, channels, pays, work, clock, client, halt>>

\* handle_setup_connection
SetupConnection(d, c, s) ==
    /\ halt = "no"
    /\ conn[d] = "setup"
    /\ conn' = [conn EXCEPT ![d] = "open"]
    /\ custom' = IF c THEN custom \cup {d} ELSE custom
    /\ stdjobs' = IF s THEN stdjobs \cup {d} ELSE stdjobs
    /\ UNCHANGED <<tp, last, pending, seen, nextId, channels, pays, work, clock, client, halt>>

\* remove_downstream
Remove(d) ==
    /\ conn' = [conn EXCEPT ![d] = "gone"]
    /\ channels' = [k \in Keys |-> IF k[1] = d THEN NoChannel ELSE channels[k]]
    /\ known' = [k \in Keys |-> IF k[1] = d THEN <<>> ELSE known[k]]
    /\ mining' = [k \in Keys |-> IF k[1] = d THEN Idle ELSE mining[k]]

Leave(d) ==
    /\ halt = "no"
    /\ conn[d] \in {"setup", "open"}
    /\ Remove(d)
    /\ UNCHANGED <<tp, last, pending, seen, custom, stdjobs, nextId, pays, work, clock, halt>>

-----------------------------------------------------------------------------
(* The messages of the clients. *)

\* The job and the prevhash that handle_open_* gives a new channel k of
\* identity a.
OpenOut(a) == IF GridPool THEN GridPoolOutputs(a, lastFutureTemplate, work)
              ELSE SoloOutputs(a, lastFutureTemplate)

OpenWithUnmatched(k, kind, a) ==
    LET made == OnNewTemplate(Fresh(kind), lastFutureTemplate, TRUE, OpenOut(a), 0)
        job == JobFrom(made, lastFutureTemplate, TRUE)
        tip == TipOf(lastNewPrevHash)
    IN  /\ channels' = [channels EXCEPT ![k] = [made EXCEPT !.active = job, !.future = {}, !.tip = tip]]
        /\ known' = [known EXCEPT ![k] = Learn(<<>>, job)]
        /\ mining' = [mining EXCEPT ![k] = [job |-> job, tip |-> tip]]
        /\ UNCHANGED halt

OpenWith(k, kind, a) ==
    LET made == OnNewTemplate(Fresh(kind), lastFutureTemplate, TRUE, OpenOut(a), 0)
        job == JobFrom(made, lastFutureTemplate, TRUE)
    IN  IF Accepts(made, lastNewPrevHash)
          THEN /\ channels' = [channels EXCEPT ![k] = OnSetNewPrevHash(made, lastNewPrevHash)]
               /\ known' = [known EXCEPT ![k] = Learn(<<>>, job)]
               /\ mining' = [mining EXCEPT ![k] = Follow(Idle, Learn(<<>>, job), job.id, TipOf(lastNewPrevHash))]
               /\ UNCHANGED halt
          ELSE Halt("open")

\* What both opens do to the downstream before a job is made.
Opening(d, a) ==
    /\ Serving
    /\ DropWaiting
    /\ conn[d] = "open"
    /\ nextId[d] \in setup.channels
    /\ payoutMode' = [payoutMode EXCEPT ![d] = a]
    /\ payouts' = [payouts EXCEPT ![<<d, nextId[d]>>] = a]
    /\ nextId' = [nextId EXCEPT ![d] = @ + 1]

\* The outputs can be built, or the client is disconnected.
Affordable == GridPool => Payable(lastFutureTemplate, work)

\* handle_open_standard_mining_channel
OpenStandard(d, a) ==
    /\ d \notin custom
    /\ Affordable
    /\ Opening(d, a)
    /\ OpenWith(<<d, nextId[d]>>, "standard", a)
    /\ UNCHANGED <<tp, last, conn, seen, custom, stdjobs, work, clock>>

\* handle_open_extended_mining_channel
OpenExtended(d, a) ==
    /\ d \notin stdjobs \cup custom
    /\ Affordable
    /\ Opening(d, a)
    /\ OpenWith(<<d, nextId[d]>>, "extended", a)
    /\ UNCHANGED <<tp, last, conn, seen, custom, stdjobs, work, clock>>

\* The same for a client that brings its own work: no job is made.
OpenForCustomWork(d, a) ==
    /\ d \in custom \ stdjobs
    /\ Opening(d, a)
    /\ channels' = [channels EXCEPT ![<<d, nextId[d]>>] = OnSetNewPrevHash(Fresh("extended"), lastNewPrevHash)]
    /\ mining' = [mining EXCEPT ![<<d, nextId[d]>>] = [job |-> NoJob, tip |-> TipOf(lastNewPrevHash)]]
    /\ UNCHANGED <<tp, last, conn, seen, custom, stdjobs, known, work, clock, halt>>

\* Either open when GridPool's suffix does not fit: Action::Disconnect.
OpenUnaffordable(d) ==
    /\ Serving
    /\ DropWaiting
    /\ conn[d] = "open"
    /\ d \notin custom
    /\ ~Affordable
    /\ Remove(d)
    /\ UNCHANGED <<tp, last, seen, custom, stdjobs, nextId, pays, work, clock, halt>>

\* The library refuses the parameters of an open: the payout mode of the
\* connection is already replaced and the channel id spent.  A standard open
\* has built its outputs by then, an extended one has not.
OpenRefused(d, a) ==
    /\ Serving
    /\ DropWaiting
    /\ conn[d] = "open"
    /\ d \notin stdjobs \/ (d \notin custom /\ Affordable)
    /\ nextId[d] \in setup.channels
    /\ payoutMode' = [payoutMode EXCEPT ![d] = a]
    /\ nextId' = [nextId EXCEPT ![d] = @ + 1]
    /\ UNCHANGED <<tp, last, conn, seen, custom, stdjobs, channels, payouts, work, clock, client, halt>>

\* handle_close_channel
CloseChannel(k) ==
    /\ Serving
    /\ DropWaiting
    /\ k \in Opened
    /\ channels' = [channels EXCEPT ![k] = NoChannel]
    /\ known' = [known EXCEPT ![k] = <<>>]
    /\ mining' = [mining EXCEPT ![k] = Idle]
    /\ UNCHANGED <<tp, last, links, pays, work, clock, halt>>

\* handle_set_custom_mining_job, once the job declarator accepted the job: the
\* coinbase, of value v, is the client's own.
SetCustomMiningJob(k, v) ==
    LET job == [NoJob EXCEPT !.id = channels[k].next, !.out.own = v]
    IN  /\ JobDeclarator
        /\ channels[k].next <= MaxCustom
        /\ Serving
        /\ DropWaiting
        /\ k \in Opened
        /\ channels[k].kind = "extended"
        /\ channels' = [channels EXCEPT ![k].active = job, ![k].next = @ + 1]
        /\ known' = [known EXCEPT ![k] = Learn(known[k], job)]
        /\ mining' = [mining EXCEPT ![k].job = job]
        /\ UNCHANGED <<tp, last, links, pays, work, clock, halt>>

\* A message that changes no job (a share, an update, a rejected open) still
\* completes its branch of the select.
HandleOther(d) ==
    /\ Serving
    /\ pending # 0
    /\ DropWaiting
    /\ conn[d] = "open"
    /\ UNCHANGED <<tp, last, links, channels, pays, work, clock, client, halt>>

-----------------------------------------------------------------------------
(* GridPool. *)

\* The background refresh of GridPoolClient::start.
PollWork(w) ==
    /\ GridPool
    /\ halt = "no"
    /\ work' = w
    /\ UNCHANGED <<tp, last, pending, links, channels, pays, clock, client, halt>>

\* A second passes and the fee interval has one more tick to deliver.
Second ==
    /\ GridPool
    /\ halt = "no"
    /\ now < MaxNow
    /\ now' = now + 1
    /\ due' = due + 1
    /\ UNCHANGED <<tp, last, pending, links, channels, pays, work, client, halt>>

\* refresh_gridpool_fee_jobs: the channels whose active job has not the
\* outputs of this moment get a job made from the last future template, with
\* the time committed into the coinbase.  An output that cannot be built
\* ends the refresh; the error is only logged.
RefreshFeeJobs ==
    LET t == lastFutureTemplate
        out(k) == GridPoolOutputs(payouts[k], t, work)
        stale == {k \in Opened : k[1] \in Registered /\ channels[k].active.out # out(k)}
        after(k) == OnNewTemplate(channels[k], t, FALSE, out(k), now)
    IN  /\ GridPool
        /\ Serving
        /\ DropWaiting
        /\ due > 0
        /\ due' = due - 1
        /\ IF ~Affordable THEN UNCHANGED <<channels, client>>
           ELSE /\ channels' = [k \in Keys |-> IF k \in stale THEN after(k) ELSE channels[k]]
                /\ known' = [k \in Keys |-> IF k \in stale THEN Learn(known[k], after(k).active) ELSE known[k]]
                /\ mining' = [k \in Keys |-> IF k \in stale
                                THEN [mining[k] EXCEPT !.job = after(k).active] ELSE mining[k]]
        /\ UNCHANGED <<tp, last, links, pays, work, now, halt>>

-----------------------------------------------------------------------------
TpStep == HandleNewTemplate \/ AwaitRefresh \/ HandleSetNewPrevHash
RefreshStep == FailRefresh \/ \E w \in Suffixes : FinishRefresh(w)

Step ==
    \/ \E v \in Values : PublishTip(v) \/ PublishFees(v)
    \/ PublishPrevHash
    \/ TpStep
    \/ RefreshStep
    \/ \E d \in Downstreams :
          \/ ReadTemplate(d) \/ BuildGroup(d) \/ Register(d) \/ Leave(d)
          \/ \E f \in setup.flags : SetupConnection(d, f[1], f[2])
          \/ \E a \in Payees : OpenStandard(d, a) \/ OpenExtended(d, a) \/ OpenForCustomWork(d, a) \/ OpenRefused(d, a)
          \/ OpenUnaffordable(d) \/ HandleOther(d)
    \/ \E k \in Keys : CloseChannel(k) \/ \E v \in Values : SetCustomMiningJob(k, v)
    \/ \E w \in Suffixes : PollWork(w)
    \/ Second
    \/ RefreshFeeJobs

Next == Step /\ UNCHANGED setup

\* The template provider sends the prevhash of a tip it announced, and the
\* channel manager serves it.
Fairness ==
    /\ WF_vars(PublishPrevHash /\ UNCHANGED setup)
    /\ WF_vars(TpStep /\ UNCHANGED setup)
    /\ WF_vars(RefreshStep /\ UNCHANGED setup)

Spec == Init /\ [][Next]_vars /\ Fairness

-----------------------------------------------------------------------------
(* Two kinds of clients escape what holds for the others.                    *)

\* With GridPool the channels number their own jobs (handle_new_template asks
\* for gridpool), but without REQUIRES_STANDARD_JOBS the SetNewPrevHash goes to
\* the group and names the group's job (handle_set_new_prev_hash does not ask).
Misnamed(k) == GridPool /\ k[1] \notin custom \cup stdjobs

\* A client takes the group's jobs and has set custom jobs beside them, without
\* REQUIRES_CUSTOM_WORK: those take their ids from the channel's own counter,
\* which nothing else moves past its first job.
Mixed(k) == ~GridPool /\ k[1] \notin custom \cup stdjobs /\ channels[k].next > 2

\* What a client was told to mine is what the pool will judge its shares by:
\* the active job and the tip of the channel, although some jobs and
\* prevhashes are sent to the group and others to the channel.  Exceptions:
\* a misnamed SetNewPrevHash leads its client elsewhere, but it has been told
\* the active job; a client that mixes both kinds of jobs may be led to a
\* custom job of its own that has the id of the template's.
AgreesWithServer ==
    \A k \in Opened :
        IF Misnamed(k) THEN \E i \in DOMAIN known[k] : known[k][i] = channels[k].active
        ELSE /\ mining[k].tip = channels[k].tip
             /\ mining[k].job = channels[k].active \/ (Mixed(k) /\ mining[k].job.tmpl = 0)

\* No client mines a job on another tip than the one it was made for: a
\* future job waits for its SetNewPrevHash, whenever the channel was opened.
\* The exceptions are the clients of a misnamed SetNewPrevHash, and a job of
\* the fee refresh, which carries its time: it is made from
\* last_future_template, also while its prevhash is still to come.
MinesItsTip ==
    \A k \in Opened : ~Misnamed(k) /\ mining[k].job.tmpl # 0 /\ mining[k].job.salt = 0 =>
        TipOf(mining[k].job.tmpl) = mining[k].tip

\* The id of a job means the same job as long as the channel is open: the ids
\* come from the group's counter and from the channel's own.  A client that
\* mixes the two counters is the exception.
JobIdsUnambiguous ==
    [][\A k \in Keys : Mixed(k)' \/ \A i \in DOMAIN known[k] \cap DOMAIN known'[k] :
          known'[k][i] = known[k][i]]_vars

\* Once the channel manager has served the template provider, every channel
\* that takes its work from templates is on the newest tip, unless its
\* SetNewPrevHash is misnamed.
CaughtUp ==
    (halt = "no" /\ tpQueue = <<>> /\ owed = 0 /\ pending = 0) =>
        \A k \in Opened : k[1] \notin custom /\ ~Misnamed(k) => mining[k].tip = TipOf(Len(templates))

\* A new tip reaches every miner whose channel stays open and whose
\* SetNewPrevHash is not misnamed, or the pool stops.
TipsReachMiners ==
    \A k \in Downstreams \X ChannelIds, n \in 2..Max({s.templates : s \in Setups}) :
        (k \in Opened /\ k[1] \notin custom /\ ~Misnamed(k) /\ TipOf(Len(templates)) >= n)
            ~> (k \notin Opened \/ mining[k].tip >= n \/ halt # "no")

\* "A valid address becomes slot 0 for that channel" (README): a job never
\* pays another client's address, only the channel's own or the operator.
SlotZeroIsOwn ==
    \A k \in Opened : GridPool /\ mining[k].job.tmpl # 0 => mining[k].job.out.to \in {payouts[k], Operator}

\* "If REQUIRES_CUSTOM_WORK is set, skip template handling entirely"
\* (template_distribution_message_handler.rs): no job of a template is pushed
\* to a client that brings its own work.  The fee refresh does not look at the
\* flag: its jobs, which carry their time, are the exception.
CustomWorkUntouched ==
    \A k \in Opened : k[1] \in custom /\ mining[k].job.salt = 0 => mining[k].job.tmpl = 0

\* What a client was told, what the pool keeps for it, and who makes its work
\* agree, whatever the order of opens, templates and custom jobs, but for the
\* exceptions the parts name: misnamed prevhashes, mixed jobs, fee jobs.
WorkInv == TypeOK /\ AgreesWithServer /\ CustomWorkUntouched

\* A client mines a job on the tip the job is for, and no client is left on an
\* old tip, whenever its channel was opened.
TipsInv == MinesItsTip /\ CaughtUp
===============================================================================
