---------------------------- MODULE TranslatorJobs ----------------------------
(***************************************************************************)
(* The SV1 translator between its miners and a pool: channels, jobs and     *)
(* shares (miner-apps/translator/src/lib/sv1 and sv2/channel_manager).      *)
(*                                                                         *)
(* Three kinds of task work at the same time.  The SV1 server's task and    *)
(* the channel manager's task handle one message after another; every       *)
(* Downstream task forwards the server's notifications to its miner, and    *)
(* runs handle_downstream_disconnect when it ends.  The tasks exchange      *)
(* messages through unbounded queues, so a handler that has its message     *)
(* runs to its end.                                                        *)
(*                                                                         *)
(* A job is its number, which is also its id at the pool.  The request id   *)
(* of an open is the downstream that asks.  In aggregated mode all miners   *)
(* share one upstream channel, kept under AGGREGATED_CHANNEL_ID.            *)
(***************************************************************************)
EXTENDS Naturals, Sequences, FiniteSets, SequencesExt, FiniteSetsExt, TLC

CONSTANTS
    Downstreams,    \* SV1 connections, each used once
    Setups,         \* the modes to check, each with its bounds (see Setup)
    Slots,          \* AGGREGATED_TPROXY_MAX_CHANNELS
    None            \* no job

ASSUME TranslatorJobsAssumption ==
    /\ IsFiniteSet(Downstreams) /\ Slots \in Nat \ {0}
    /\ \A s \in Setups :
          /\ s.aggregated \in BOOLEAN /\ s.jobs \in Nat \ {0}
          /\ {s.conns, s.shares, s.keepalives} \subseteq Nat

VARIABLES
    setup,                  \* the mode, and the bounds of the model
    conn,                   \* life of a connection
    said, chan, en1,        \* handshake messages; channel_id and extranonce1
    cached, reading,        \* cached_notify; the notify the task has read
    sending,                \* the cached notify the server has taken out to send
    asked, owner,           \* request_id_, channel_id_to_downstream_id
    listed, prevhashes,     \* valid_sv1_jobs and prevhashes, by channel
    aggState, pending,      \* aggregated_channel_state, pending_downstream_channels
    chans,                  \* extended_channels
    dropped,                \* opens the manager could not serve
    s2c, c2s, s2d,          \* queues: server to manager and back, to the tasks
    p2m,                    \* messages of the pool
    opens, open, opened,    \* the pool's requests and channels; its last id
    tip, last,              \* the pool's jobs: first of the tip, and newest
    mine,                   \* the jobs a miner got since the last clean one
    late,                   \* history: notifies cached or sent out of turn
    shares, forwarded,      \* shares submitted, and sent to the pool
    over                    \* "no" or "fallback"

server == <<conn, said, chan, en1, asked, owner, listed, prevhashes>>
tasks == <<cached, reading, sending, mine, late>>
manager == <<aggState, pending, chans, dropped>>
pool == <<opens, open, opened, tip, last>>
count == <<shares, forwarded>>
vars == <<setup, server, tasks, manager, s2c, c2s, s2d, p2m, pool, count, over>>

AGGREGATED_CHANNEL_ID == 0

aggregated == setup.aggregated   \* TproxyMode

\* Bounds: connections, jobs of the pool, shares, and the keepalives until
\* the time of a job is at its limit.
Jobs == 1..setup.jobs
Ids == 1..Cardinality(Downstreams)
Keys == {AGGREGATED_CHANNEL_ID} \cup Ids

\* An SV1 job: the pool's job, its keepalive number and its tip.
Notify == [job : Jobs, ka : 0..setup.keepalives, tip : Jobs]

\* Where the jobs of channel c are kept.
Key(c) == IF aggregated THEN AGGREGATED_CHANNEL_ID ELSE c

Connected == {d \in Downstreams : conn[d] \in {"up", "closing"}}

\* sv1_handshake_complete: authorize was handled, which needs the channel.
HandshakeComplete(d) == chan[d] # 0 /\ said[d] = 2

TypeOK ==
    /\ setup \in Setups
    /\ conn \in [Downstreams -> {"away", "up", "closing", "gone"}]
    /\ said \in [Downstreams -> 0..2] /\ chan \in [Downstreams -> {0} \cup Ids]
    /\ en1 \in [Downstreams -> 0..(Slots + Cardinality(Downstreams))]
    /\ \A d \in Downstreams : mine[d] \in Seq(Notify) /\ late[d] \subseteq Notify
    /\ asked \subseteq Downstreams
    /\ DOMAIN owner \subseteq Ids /\ \A c \in DOMAIN owner : owner[c] \in Downstreams
    /\ DOMAIN listed \subseteq Keys /\ \A k \in DOMAIN listed : listed[k] \in Seq(Notify)
    /\ prevhashes \in [Keys -> {0} \cup Jobs]
    /\ aggState \in {"NoChannel", "Pending", "Connected"}
    /\ pending \subseteq Downstreams /\ dropped \subseteq Downstreams
    /\ DOMAIN chans \subseteq Keys
    /\ \A k \in DOMAIN chans :
          chans[k] \in [en : Nat, active : {0} \cup Jobs, valid : SUBSET Jobs,
                        future : SUBSET Jobs, tip : {0} \cup Jobs]
    /\ opens \subseteq Downstreams /\ open \subseteq 1..opened /\ opened \in {0} \cup Ids /\ tip \in 1..last /\ last \in Jobs
    /\ shares \in 0..setup.shares /\ forwarded \in 0..shares
    /\ over \in {"no", "fallback"}

Init ==
    /\ setup \in Setups /\ over = "no"
    /\ conn = [d \in Downstreams |-> "away"]
    /\ said = [d \in Downstreams |-> 0] /\ chan = [d \in Downstreams |-> 0]
    /\ en1 = [d \in Downstreams |-> 0]
    /\ cached = [d \in Downstreams |-> None] /\ reading = [d \in Downstreams |-> None]
    /\ sending = None /\ mine = [d \in Downstreams |-> <<>>] /\ late = [d \in Downstreams |-> {}]
    /\ asked = {} /\ owner = <<>> /\ listed = <<>> /\ prevhashes = [k \in Keys |-> 0]
    /\ aggState = "NoChannel" /\ pending = {} /\ chans = <<>> /\ dropped = {}
    /\ s2c = <<>> /\ c2s = <<>> /\ s2d = [d \in Downstreams |-> <<>>] /\ p2m = <<>>
    /\ opens = {} /\ open = {} /\ opened = 0 /\ tip = 1 /\ last = 1
    /\ shares = 0 /\ forwarded = 0

Put(k, v, f) == (k :> v) @@ f
Without(f, k) == [x \in DOMAIN f \ {k} |-> f[x]]

-----------------------------------------------------------------------------
(* The SV1 server: connections and their messages. *)

Accept(d) ==
    /\ over = "no" /\ sending = None
    /\ conn[d] = "away" /\ Cardinality({e \in Downstreams : conn[e] # "away"}) < setup.conns
    /\ conn' = [conn EXCEPT ![d] = "up"]
    /\ UNCHANGED <<setup, said, chan, en1, asked, owner, listed, prevhashes, tasks, manager,
                   s2c, c2s, s2d, p2m, pool, count, over>>

\* What a miner holds after a notify.
Held(held, n, clean) == IF clean THEN <<n>> ELSE Append(held, n)

\* handle_sv1_handshake_completion sets the flag and takes the cached notify
\* under the lock; it is sent after the lock is released.
CompleteHandshake(d) ==
    /\ sending' = IF cached[d] = None THEN None ELSE [to |-> d, n |-> cached[d].n, clean |-> cached[d].clean]
    /\ cached' = [cached EXCEPT ![d] = None]

\* handle_downstream_disconnect, with the messages out before its CloseChannel.
\* What the miner held is of no concern any more.
Cleanup(d, c, out) ==
    /\ conn' = [conn EXCEPT ![d] = "gone"]
    /\ mine' = [mine EXCEPT ![d] = <<>>] /\ late' = [late EXCEPT ![d] = {}]
    /\ owner' = Without(owner, c)
    /\ s2c' = IF c = 0 THEN out ELSE Append(out, [type |-> "close", id |-> c])

\* The Downstream task leaves its loop and closes its queues; the rest of the
\* cleanup follows at any time.
Leave(d) ==
    /\ over = "no"
    /\ conn[d] = "up"
    /\ conn' = [conn EXCEPT ![d] = "closing"]
    /\ s2d' = [s2d EXCEPT ![d] = <<>>] /\ reading' = [reading EXCEPT ![d] = None]
    /\ UNCHANGED <<setup, said, chan, en1, asked, owner, listed, prevhashes, cached, sending,
                   mine, late, manager, s2c, c2s, p2m, pool, count, over>>

HandleDownstreamDisconnect(d) ==
    /\ over = "no"
    /\ conn[d] = "closing"
    /\ Cleanup(d, chan[d], s2c)
    /\ UNCHANGED <<setup, said, chan, en1, asked, listed, prevhashes, cached, reading, sending, manager,
                   c2s, s2d, p2m, pool, count, over>>

\* mining.subscribe and mining.authorize wait while there is no channel; the
\* first of them asks for it.
HandleHandshakeMessage(d) ==
    /\ over = "no" /\ sending = None
    /\ d \in Connected /\ said[d] < 2
    /\ said' = [said EXCEPT ![d] = @ + 1]
    /\ asked' = IF said[d] = 0 THEN asked \cup {d} ELSE asked
    /\ IF chan[d] = 0
         THEN /\ s2c' = IF said[d] = 0 THEN Append(s2c, [type |-> "open", from |-> d]) ELSE s2c
              /\ UNCHANGED <<conn, owner, cached, sending, mine, late>>
         ELSE IF conn[d] = "closing"
                THEN Cleanup(d, chan[d], s2c) /\ UNCHANGED <<cached, sending>>
                ELSE CompleteHandshake(d) /\ UNCHANGED <<conn, owner, s2c, mine, late>>
    /\ UNCHANGED <<setup, chan, en1, listed, prevhashes, reading, manager, c2s, s2d, p2m, pool, count,
                   over>>

\* The cached notify goes to the miner, maybe after one that the Downstream task
\* forwarded since.
SendCachedNotify ==
    /\ over = "no"
    /\ sending # None
    /\ sending' = None
    /\ LET d == sending.to
       IN  \/ /\ conn[d] = "up"
              /\ mine' = [mine EXCEPT ![d] = Held(@, sending.n, sending.clean)]
              /\ late' = IF mine[d] = <<>> THEN late ELSE [late EXCEPT ![d] = @ \cup {sending.n}]
              /\ UNCHANGED <<conn, owner, s2c>>
           \/ conn[d] = "closing" /\ Cleanup(d, chan[d], s2c)
           \/ conn[d] = "gone" /\ UNCHANGED <<conn, owner, mine, late, s2c>>
    /\ UNCHANGED <<setup, said, chan, en1, asked, listed, prevhashes, cached, reading, manager, c2s, s2d,
                   p2m, pool, count, over>>

\* mining.submit: the job must be listed for the channel; a keepalive id is
\* replaced by that of its job.
HandleSubmit(d) ==
    /\ over = "no" /\ sending = None
    /\ conn[d] = "up" /\ HandshakeComplete(d) /\ shares < setup.shares
    /\ shares' = shares + 1
    /\ \E n \in ToSet(mine[d]) :
          LET k == Key(chan[d])
              ok == k \in DOMAIN listed /\ n \in ToSet(listed[k])
          IN  s2c' = IF ok THEN Append(s2c, [type |-> "share", id |-> chan[d], job |-> n.job,
                                             en |-> en1[d]])
                     ELSE s2c
    /\ UNCHANGED <<setup, server, tasks, manager, c2s, s2d, p2m, pool, forwarded, over>>

-----------------------------------------------------------------------------
(* The SV1 server: messages of the channel manager. *)

\* The channel of a downstream is there: the messages that wait are answered.
\* An answer that cannot be sent disconnects the downstream.
HandleOpenSuccess ==
    /\ over = "no" /\ sending = None
    /\ c2s # <<>> /\ Head(c2s).type = "opened"
    /\ c2s' = Tail(c2s)
    /\ LET m == Head(c2s)
           d == m.from
       IN  /\ asked' = asked \ {d}
           /\ IF d \in asked /\ d \in Connected
                THEN /\ chan' = [chan EXCEPT ![d] = m.id]
                     /\ en1' = [en1 EXCEPT ![d] = m.en]
                     /\ IF conn[d] = "closing"
                          THEN Cleanup(d, m.id, s2c) /\ UNCHANGED <<cached, sending>>
                          ELSE /\ owner' = Put(m.id, d, owner)
                               /\ IF said[d] = 2 THEN CompleteHandshake(d)
                                  ELSE UNCHANGED <<cached, sending>>
                               /\ UNCHANGED <<conn, mine, late, s2c>>
                ELSE UNCHANGED <<conn, chan, en1, owner, cached, sending, mine, late, s2c>>
    /\ UNCHANGED <<setup, said, listed, prevhashes, reading, manager, s2d, p2m, pool, count, over>>

\* send_to_channel: everyone, or the one that owns the channel.
Receivers(k) ==
    IF k = AGGREGATED_CHANNEL_ID THEN {d \in Downstreams : conn[d] = "up"}
    ELSE {d \in Downstreams : k \in DOMAIN owner /\ owner[k] = d /\ conn[d] = "up"}

SendToChannel(receivers, n, clean) ==
    s2d' = [d \in Downstreams |->
              IF d \in receivers THEN Append(s2d[d], [n |-> n, clean |-> clean]) ELSE s2d[d]]

\* The jobs a channel keeps when a new one comes.
JobsKept(k, clean) == IF k \in DOMAIN listed /\ ~clean THEN listed[k] ELSE <<>>

\* A job becomes a notify for the prevhash of its channel.  It is clean when
\* the prevhash came with it, and then the jobs before it are forgotten.
HandleNewExtendedMiningJob ==
    /\ over = "no" /\ sending = None
    /\ c2s # <<>> /\ Head(c2s).type = "job"
    /\ c2s' = Tail(c2s)
    /\ LET k == Head(c2s).id
           j == Head(c2s).job
           n == [job |-> j, ka |-> 0, tip |-> prevhashes[k]]
           clean == j = prevhashes[k]
       IN  IF prevhashes[k] = 0 THEN UNCHANGED <<listed, s2d>>
           ELSE /\ listed' = Put(k, Append(JobsKept(k, clean), n), listed)
                /\ SendToChannel(Receivers(k), n, clean)
    /\ UNCHANGED <<setup, conn, said, chan, en1, asked, owner, prevhashes, tasks, manager,
                   s2c, p2m, pool, count, over>>

HandleSetNewPrevHash ==
    /\ over = "no" /\ sending = None
    /\ c2s # <<>> /\ Head(c2s).type = "prevhash"
    /\ c2s' = Tail(c2s)
    /\ prevhashes' = [prevhashes EXCEPT ![Head(c2s).id] = Head(c2s).job]
    /\ UNCHANGED <<setup, conn, said, chan, en1, asked, owner, listed, tasks, manager,
                   s2c, s2d, p2m, pool, count, over>>

\* Whether the time of a job may grow further.
MayRepeat(n) == n.ka < setup.keepalives

\* The keepalive loop repeats the last job of the channel with a later time
\* and a new id, for a miner that got no job for a while.  The time stops at a
\* limit, counted from the job's own time.
KeepAlive(d) ==
    LET k == Key(chan[d])
        n == Last(listed[k])
        next == [n EXCEPT !.ka = @ + 1]
    IN  /\ over = "no" /\ sending = None
        /\ d \in Connected /\ HandshakeComplete(d) /\ mine[d] # <<>>
        /\ k \in DOMAIN listed /\ MayRepeat(n)
        /\ listed' = [listed EXCEPT ![k] = Append(@, next)]
        /\ SendToChannel({e \in {d} : conn[e] = "up"}, next, FALSE)
        /\ UNCHANGED <<setup, conn, said, chan, en1, asked, owner, prevhashes, tasks,
                       manager, s2c, c2s, p2m, pool, count, over>>

-----------------------------------------------------------------------------
(* A Downstream task: handle_sv1_server_message.  It looks at the handshake  *)
(* flag first and takes the lock afterwards; in between, the server's task   *)
(* may complete the handshake.                                              *)

\* Before the handshake the notify is for the cache.
ReadNotify(d) ==
    /\ over = "no"
    /\ conn[d] = "up" /\ s2d[d] # <<>> /\ reading[d] = None
    /\ ~HandshakeComplete(d)
    /\ reading' = [reading EXCEPT ![d] = Head(s2d[d])]
    /\ s2d' = [s2d EXCEPT ![d] = Tail(@)]
    /\ UNCHANGED <<setup, server, cached, sending, mine, late, manager, s2c, c2s, p2m, pool, count, over>>

CacheNotify(d) ==
    /\ over = "no"
    /\ conn[d] = "up" /\ reading[d] # None
    /\ cached' = [cached EXCEPT ![d] = reading[d]]
    /\ reading' = [reading EXCEPT ![d] = None]
    /\ late' = IF HandshakeComplete(d) THEN [late EXCEPT ![d] = @ \cup {reading[d].n}] ELSE late
    /\ UNCHANGED <<setup, server, sending, mine, manager, s2c, c2s, s2d, p2m, pool, count, over>>

\* A set_difficulty that waits (difficulty) goes first and makes it clean.
ForwardNotify(d, difficulty) ==
    /\ over = "no"
    /\ conn[d] = "up" /\ s2d[d] # <<>> /\ reading[d] = None
    /\ HandshakeComplete(d)
    /\ LET m == Head(s2d[d])
       IN  mine' = [mine EXCEPT ![d] = Held(@, m.n, m.clean \/ difficulty)]
    /\ s2d' = [s2d EXCEPT ![d] = Tail(@)]
    /\ UNCHANGED <<setup, server, cached, reading, sending, late, manager, s2c, c2s, p2m, pool, count,
                   over>>

-----------------------------------------------------------------------------
(* The channel manager: messages of the SV1 server. *)

\* A channel of the client library, and what it does with jobs.
NewChannel(en) == [en |-> en, active |-> 0, valid |-> {}, future |-> {}, tip |-> 0]
OnNewJob(c, j) == [c EXCEPT !.active = j, !.valid = @ \cup {j}]
OnFutureJob(c, j) == [c EXCEPT !.future = @ \cup {j}]
OnSetNewPrevHash(c, j) == [c EXCEPT !.active = j, !.valid = {j}, !.future = {}, !.tip = j]

FreeSlots(cs) == (1..Slots) \ {cs[k].en : k \in DOMAIN cs \ {AGGREGATED_CHANNEL_ID}}

\* The next local id, and the channel that starts where the shared one is.
CountedId(used) == Cardinality(used) + 1
NextChannelId(used) == IF used = {} THEN 1 ELSE Max(used) + 1

LocalChannelWithoutFuture(en, agg) ==
    [NewChannel(en) EXCEPT !.tip = agg.tip, !.active = agg.active, !.valid = {agg.active} \ {0}]
LocalChannel(en, agg) == [LocalChannelWithoutFuture(en, agg) EXCEPT !.future = agg.future]

\* handle_downstream_channel_request_in_aggregated_mode: a channel like the
\* aggregated one, with a prefix of its own.  st holds the channels, the
\* messages for the server, and the requests that found no prefix.
LocalOpen(st, d) ==
    LET agg == st.chans[AGGREGATED_CHANNEL_ID]
        id == NextChannelId(DOMAIN st.chans \ {AGGREGATED_CHANNEL_ID})
        en == Min(FreeSlots(st.chans))
        success == [type |-> "opened", from |-> d, id |-> id, en |-> en]
        job == [type |-> "job", id |-> AGGREGATED_CHANNEL_ID, job |-> agg.active]
    IN  IF FreeSlots(st.chans) = {} THEN [st EXCEPT !.dropped = @ \cup {d}]
        ELSE [st EXCEPT !.chans = Put(id, LocalChannel(en, agg), @),
                        !.out = @ \o <<success>> \o (IF agg.active = 0 THEN <<>> ELSE <<job>>)]

\* In aggregated mode the first open goes to the pool, those that come before
\* the answer wait for it, and later ones are served here.
HandleOpen ==
    /\ over = "no"
    /\ s2c # <<>> /\ Head(s2c).type = "open"
    /\ s2c' = Tail(s2c)
    /\ LET d == Head(s2c).from
           st == LocalOpen([chans |-> chans, out |-> c2s, dropped |-> dropped], d)
       IN  IF aggregated /\ aggState = "Connected"
             THEN /\ chans' = st.chans /\ c2s' = st.out /\ dropped' = st.dropped
                  /\ UNCHANGED <<aggState, pending, opens>>
             ELSE /\ pending' = pending \cup {d}
                  /\ opens' = IF aggregated /\ aggState = "Pending" THEN opens ELSE opens \cup {d}
                  /\ aggState' = IF aggregated THEN "Pending" ELSE aggState
                  /\ UNCHANGED <<chans, dropped, c2s>>
    /\ UNCHANGED <<setup, server, tasks, s2d, p2m, open, opened, tip, last, count, over>>

\* A share is checked against the upstream channel, with the prefix of the
\* channel it names: a wrong prefix is a wrong hash.
HandleSubmitSharesExtended ==
    /\ over = "no"
    /\ s2c # <<>> /\ Head(s2c).type = "share"
    /\ s2c' = Tail(s2c)
    /\ LET m == Head(s2c)
           valid == /\ {m.id, Key(m.id)} \subseteq DOMAIN chans
                    /\ chans[m.id].en = m.en /\ m.job \in chans[Key(m.id)].valid
       IN  forwarded' = IF valid THEN forwarded + 1 ELSE forwarded
    /\ UNCHANGED <<setup, server, tasks, manager, c2s, s2d, p2m, pool, shares, over>>

\* Only in non-aggregated mode the pool hears of it.
HandleCloseChannel ==
    /\ over = "no"
    /\ s2c # <<>> /\ Head(s2c).type = "close"
    /\ s2c' = Tail(s2c)
    /\ chans' = Without(chans, Head(s2c).id)
    /\ open' = IF aggregated THEN open ELSE open \ {Head(s2c).id}
    /\ UNCHANGED <<setup, server, tasks, aggState, pending, dropped, c2s, s2d, p2m,
                   opens, opened, tip, last, count, over>>

-----------------------------------------------------------------------------
(* The channel manager: messages of the pool.  A message for channel 0 is    *)
(* for the group of all channels, which in aggregated mode is the one.       *)

Upstream(type) == over = "no" /\ p2m # <<>> /\ Head(p2m).type = type /\ p2m' = Tail(p2m)

\* The channels a message of the pool is for.
Addressed(id) ==
    IF aggregated THEN DOMAIN chans
    ELSE IF id = 0 THEN DOMAIN chans ELSE {id} \cap DOMAIN chans

\* Apply(c) is the new state of channel c.
Update(id, Apply(_)) ==
    chans' = [k \in DOMAIN chans |-> IF k \in Addressed(id) THEN Apply(chans[k]) ELSE chans[k]]

\* The messages for the SV1 server, one for each channel it knows of.
ForServer(id, Message(_)) ==
    LET keys == IF aggregated THEN {AGGREGATED_CHANNEL_ID} ELSE Addressed(id)
    IN  FlattenSeq([i \in 1..Cardinality(keys) |-> Message(SetToSortSeq(keys, <)[i])])

\* The requests that waited for the answer to d's.
NobodyWaited(d) == {}
Waited(d) == IF aggregated THEN pending \ {d} ELSE {}

\* The upstream channel is open.  In aggregated mode it gets its own entry,
\* and its requester channel 1 with a prefix of its own; otherwise the channel
\* keeps the id and the prefix of the pool.
OpenedShared == Put(1, NewChannel(1), Put(AGGREGATED_CHANNEL_ID, NewChannel(0), chans))
OpenedSeparately(id) == Put(id, NewChannel(id), chans)

\* The requester is answered, and then everyone who waited.
HandleOpenExtendedMiningChannelSuccess ==
    /\ Upstream("opened")
    /\ LET m == Head(p2m)
           id == IF aggregated THEN 1 ELSE m.id
           first == [chans |-> IF aggregated THEN OpenedShared ELSE OpenedSeparately(m.id),
                     out |-> Append(c2s, [type |-> "opened", from |-> m.from, id |-> id,
                                          en |-> id]),
                     dropped |-> dropped]
       IN  IF m.from \notin pending THEN UNCHANGED <<manager, c2s>>
           ELSE \E order \in SetToSeqs(Waited(m.from)) :
                  LET st == FoldLeft(LocalOpen, first, order)
                  IN  /\ chans' = st.chans /\ c2s' = st.out /\ dropped' = st.dropped
                      /\ pending' = IF aggregated THEN {} ELSE pending \ {m.from}
                      /\ aggState' = IF aggregated THEN "Connected" ELSE aggState
    /\ UNCHANGED <<setup, server, tasks, s2c, s2d, pool, count, over>>

\* A future job waits in the channels for its prevhash.
HandleFutureJob ==
    /\ Upstream("future")
    /\ Update(Head(p2m).id, LAMBDA c : OnFutureJob(c, Head(p2m).job))
    /\ UNCHANGED <<setup, server, tasks, aggState, pending, dropped, s2c, c2s, s2d, pool,
                   count, over>>

HandleJob ==
    /\ Upstream("job")
    /\ Update(Head(p2m).id, LAMBDA c : OnNewJob(c, Head(p2m).job))
    /\ c2s' = c2s \o ForServer(Head(p2m).id,
                 LAMBDA k : <<[type |-> "job", id |-> k, job |-> Head(p2m).job]>>)
    /\ UNCHANGED <<setup, server, tasks, aggState, pending, dropped, s2c, s2d, pool, count,
                   over>>

\* A channel that does not know the job is an error, and ends in a fallback.
\* The prevhashes go to the server before the jobs.
HandlePrevHash ==
    /\ Upstream("prev")
    /\ LET m == Head(p2m)
           unknown == \E k \in Addressed(m.id) : m.job \notin chans[k].future
           Msg(type) == ForServer(m.id, LAMBDA k : <<[type |-> type, id |-> k, job |-> m.job]>>)
       IN  IF unknown THEN over' = "fallback" /\ UNCHANGED <<chans, c2s>>
           ELSE /\ Update(m.id, LAMBDA c : OnSetNewPrevHash(c, m.job))
                /\ c2s' = c2s \o Msg("prevhash") \o Msg("job")
                /\ UNCHANGED over
    /\ UNCHANGED <<setup, server, tasks, aggState, pending, dropped, s2c, s2d, pool, count>>

\* The end of the shared channel is a fallback; another channel, or a group with
\* all of its channels, is removed.
HandleUpstreamClose ==
    /\ Upstream("close")
    /\ chans' = IF aggregated THEN chans
                ELSE [k \in DOMAIN chans \ Addressed(Head(p2m).id) |-> chans[k]]
    /\ over' = IF aggregated THEN "fallback" ELSE "no"
    /\ UNCHANGED <<setup, server, tasks, aggState, pending, dropped, s2c, c2s, s2d, pool,
                   count>>

HandleOpenMiningChannelError ==
    /\ Upstream("refused")
    /\ over' = "fallback"
    /\ UNCHANGED <<setup, server, tasks, manager, s2c, c2s, s2d, pool, count>>

-----------------------------------------------------------------------------
(* The pool: it answers an open with the job of its tip, and sends jobs to   *)
(* the group.                                                               *)

FutureAndPrev(id, j) ==
    <<[type |-> "future", id |-> id, job |-> j], [type |-> "prev", id |-> id, job |-> j]>>

PoolOpens(d) ==
    LET id == opened + 1 IN
    /\ over = "no"
    /\ d \in opens /\ opens' = opens \ {d}
    /\ open' = open \cup {id} /\ opened' = id
    /\ p2m' = p2m \o <<[type |-> "opened", from |-> d, id |-> id]>>
                  \o FutureAndPrev(id, tip)
    /\ UNCHANGED <<setup, server, tasks, manager, s2c, c2s, s2d, tip, last, count, over>>

PoolRefuses(d) ==
    /\ over = "no"
    /\ d \in opens /\ opens' = opens \ {d}
    /\ p2m' = Append(p2m, [type |-> "refused"])
    /\ UNCHANGED <<setup, server, tasks, manager, s2c, c2s, s2d, open, opened, tip, last,
                   count, over>>

PoolTip ==
    /\ over = "no"
    /\ open # {} /\ last < setup.jobs
    /\ last' = last + 1 /\ tip' = last + 1
    /\ p2m' = p2m \o FutureAndPrev(0, last + 1)
    /\ UNCHANGED <<setup, server, tasks, manager, s2c, c2s, s2d, opens, open, opened, count,
                   over>>

PoolJob ==
    /\ over = "no"
    /\ open # {} /\ last < setup.jobs
    /\ last' = last + 1
    /\ p2m' = Append(p2m, [type |-> "job", id |-> 0, job |-> last + 1])
    /\ UNCHANGED <<setup, server, tasks, manager, s2c, c2s, s2d, opens, open, opened, tip,
                   count, over>>

PoolCloses(id) ==
    /\ over = "no"
    /\ open # {} /\ (id \in open \/ (id = 0 /\ ~aggregated))
    /\ open' = IF id = 0 THEN {} ELSE open \ {id}
    /\ p2m' = Append(p2m, [type |-> "close", id |-> id])
    /\ UNCHANGED <<setup, server, tasks, manager, s2c, c2s, s2d, opens, opened, tip, last,
                   count, over>>

Next ==
    \/ \E d \in Downstreams :
          \/ Accept(d) \/ Leave(d) \/ HandleDownstreamDisconnect(d)
          \/ HandleHandshakeMessage(d) \/ HandleSubmit(d) \/ KeepAlive(d)
          \/ ReadNotify(d) \/ CacheNotify(d)
          \/ \E difficulty \in BOOLEAN : ForwardNotify(d, difficulty)
          \/ PoolOpens(d) \/ PoolRefuses(d)
    \/ SendCachedNotify
    \/ HandleOpenSuccess \/ HandleNewExtendedMiningJob \/ HandleSetNewPrevHash
    \/ HandleOpen \/ HandleSubmitSharesExtended \/ HandleCloseChannel
    \/ HandleOpenExtendedMiningChannelSuccess \/ HandleFutureJob \/ HandleJob \/ HandlePrevHash
    \/ HandleUpstreamClose \/ HandleOpenMiningChannelError
    \/ PoolTip \/ PoolJob \/ \E id \in {0} \cup Ids : PoolCloses(id)

Spec == Init /\ [][Next]_vars

-----------------------------------------------------------------------------
(* Properties. *)

\* No message is on its way inside the translator, or to it from the pool.
Quiet == s2c = <<>> /\ c2s = <<>> /\ p2m = <<>> /\ opens = {}
Settled(d) == s2d[d] = <<>> /\ reading[d] = None /\ sending = None

\* Two miners never work in the same part of the search space, and what the
\* server knows of a miner's channel is what the channel manager keeps for it,
\* whatever channels were opened and closed before: the channel_id maps back
\* to the miner, and the prefix is that of the channel.
ChannelsAgree ==
    \A d \in Downstreams : conn[d] = "up" /\ chan[d] # 0 =>
        /\ chan[d] \in DOMAIN owner /\ owner[chan[d]] = d
        /\ chan[d] \in DOMAIN chans => chans[chan[d]].en = en1[d]
        /\ \A e \in Downstreams \ {d} : conn[e] = "up" => en1[e] # en1[d]

\* The channel's job was put in the cache after the handshake had emptied it, or
\* what the miner got last is a cached notify that a newer one had overtaken.
OutOfTurn(d) ==
    \/ \E n \in late[d] : n.job = chans[chan[d]].active
    \/ mine[d] # <<>> /\ Last(mine[d]) \in late[d]

\* The translator accepts shares for exactly the work that it would send on:
\* once the server has handled what the manager sent it, a job it lists for a
\* channel is one the manager's channel accepts; and a miner holds no job the
\* server would refuse, unless its notifications are still on their way.  A
\* handshake that puts a notify out of turn can leave a miner with refused work,
\* but only until the next job: then it works on one that is accepted.
HeldWorkIsAccepted ==
    over = "no" /\ c2s = <<>> =>
        \A d \in Downstreams : LET k == Key(chan[d]) IN
            /\ conn[d] = "up" /\ HandshakeComplete(d)
            /\ {k, chan[d]} \subseteq DOMAIN chans /\ k \in DOMAIN listed
            =>
                    /\ \A n \in ToSet(listed[k]) : n.job \in chans[k].valid /\ n.tip = chans[k].tip
                    /\ Settled(d) /\ mine[d] # <<>> =>
                          /\ OutOfTurn(d) \/ Last(mine[d]) \in ToSet(listed[k])
                          /\ late[d] # {} \/ ToSet(mine[d]) \subseteq ToSet(listed[k])

\* Nobody is forgotten: when nothing is on its way, a miner that has said
\* both of its handshake messages has a channel, unless no prefix was left for
\* it or the pool has closed it, and works on the newest job of the channel.  A
\* notify that the handshake put out of turn can keep the miner from that, but
\* only until the next job of its channel.
EveryoneHasWork ==
    over = "no" /\ Quiet =>
        \A d \in Downstreams :
            conn[d] = "up" /\ said[d] = 2 /\ d \notin dropped =>
                /\ chan[d] # 0
                /\ Settled(d) /\ chan[d] \in DOMAIN chans =>
                      \/ OutOfTurn(d)
                      \/ /\ mine[d] # <<>>
                         /\ Last(mine[d]).job = chans[chan[d]].active
                         /\ Last(mine[d]).tip = chans[chan[d]].tip

\* A prevhash finds its job in every channel it is for, whichever of them
\* were opened between the two; otherwise the translator would leave a pool
\* that did nothing wrong.
PrevHashFindsItsJob ==
    p2m # <<>> /\ Head(p2m).type = "prev" =>
        \A k \in Addressed(Head(p2m).id) : Head(p2m).job \in chans[k].future

\* Server, channel manager and miners agree on channels, prefixes and jobs.
ChannelsInv == TypeOK /\ ChannelsAgree /\ HeldWorkIsAccepted
=============================================================================
