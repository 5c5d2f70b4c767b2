--------------------------- MODULE TranslatorTargets ---------------------------
(***************************************************************************)
(* The difficulty of the translator's miners: its own vardiff, the pool's   *)
(* SetTarget, and what the miners are told                                  *)
(* (sv1/sv1_server/difficulty_manager.rs, sv1_server/mod.rs, downstream.rs).*)
(*                                                                         *)
(* A target is a number; a larger one is easier.  Every downstream begins   *)
(* with that of the configured minimal hashrate (First).  A set_difficulty  *)
(* is not sent at once: it waits in the Downstream for the next notify, and *)
(* only then becomes the target that shares are checked against.  Channels  *)
(* and jobs are in TranslatorJobs; here a job is just the notify it makes.  *)
(*                                                                         *)
(* The server's task works beside the task of every Downstream, which sends *)
(* to its miner and, at its end, takes the Downstream out of the server's   *)
(* maps.  What one of them reads, another may change before it is sent.     *)
(***************************************************************************)
EXTENDS Naturals, Sequences, FiniteSets, SequencesExt, FiniteSetsExt, TLC

CONSTANTS
    Downstreams,
    Setups      \* modes to check: aggregated, vardiff, prompt (see Grants), the
                \* targets and how their difficulties are rounded (see Rounded),
                \* the first target, and bounds on the connections, the
                \* retargets (steps) and the notifies

ASSUME TranslatorTargetsAssumption ==
    \A s \in Setups :
        /\ s.aggregated \in BOOLEAN /\ s.vardiff \in BOOLEAN /\ s.prompt \in BOOLEAN
        /\ s.rounded \in Seq(1..Len(s.rounded)) /\ s.first \in DOMAIN s.rounded
        /\ \A t, u \in DOMAIN s.rounded : t <= u => s.rounded[t] <= s.rounded[u]
        /\ s.conns \in Nat /\ s.steps \in Nat /\ s.notifies \in Nat

VARIABLES
    setup,
    conn,                    \* life of a downstream
    has, hs,                 \* whether it has a channel_id; sv1_handshake_complete
    target, pendT, upT,      \* target, pending_target, upstream_target (0: none)
    cacheD,                  \* cached_set_difficulty
    pendUpd,                 \* pending_target_updates, of each downstream
    channelTarget,           \* the manager's target of a channel (0: not open)
    updates,                 \* UpdateChannel at the pool
    allowed,                 \* the maximum the pool knows for a channel
    c2s, s2d,                \* queues to the server and to the downstreams
    told,                    \* the miner's difficulty
    doing,                   \* what the server's task is in the middle of
    snap,                    \* what a Downstream that ends has found for the pool
    unseen, crossed,         \* history: see SendUpdate, HandleVardiffUpdates
    overtaken,               \* history: see SendHandshakeDifficulty
    steps, notifies,         \* bounds
    over                     \* "no" or "shutdown"

data == <<target, pendT, upT, cacheD, has, hs>>
pool == <<channelTarget, updates, allowed>>
bounds == <<steps, notifies>>
history == <<unseen, crossed, overtaken>>
vars == <<setup, conn, data, pendUpd, pool, c2s, s2d, told, doing, snap, history, bounds, over>>

Targets == DOMAIN setup.rounded
MaxTarget == Len(setup.rounded)
First == setup.first
Shared == "aggregated"
Keys == Downstreams \cup {Shared}
Key(d) == IF setup.aggregated THEN Shared ELSE d

\* In the server's map of downstreams; with a channel_id.
Present == {d \in Downstreams : conn[d] \in {"new", "asked", "up", "closing"}}
WithChannel == {d \in Present : has[d]}
Up == {d \in Downstreams : conn[d] \in {"new", "asked", "up"}}

\* The difficulty of a set_difficulty is rounded to a power of two; the target
\* that shares are checked against is not.
Rounded(t) == setup.rounded[t]

Diff(t) == [diff |-> Rounded(t)]
Notify == [diff |-> 0]

\* The server's task has nothing under way; nobody has found anything.
Idle == [at |-> "idle"]
NoSnapshot == [t |-> 0, missed |-> {}]
Ready == over = "no" /\ doing = Idle

TypeOK ==
    /\ setup \in Setups
    /\ conn \in [Downstreams -> {"away", "new", "asked", "up", "closing", "removed", "found", "gone"}]
    /\ has \in [Downstreams -> BOOLEAN] /\ hs \in [Downstreams -> BOOLEAN]
    /\ target \in [Downstreams -> Targets]
    /\ pendT \in [Downstreams -> 0..MaxTarget] /\ upT \in [Downstreams -> 0..MaxTarget]
    /\ cacheD \in [Downstreams -> 0..MaxTarget] /\ told \in [Downstreams -> 0..MaxTarget]
    /\ \A d \in Downstreams : pendUpd[d] \in Seq(Targets)
    /\ channelTarget \in [Keys -> 0..MaxTarget] /\ allowed \in [Keys -> Targets]
    /\ updates \in Seq([key : Keys, t : Targets])
    /\ \A d \in Downstreams : s2d[d] \in Seq([diff : 0..MaxTarget])
    /\ doing.at \in {"idle", "send", "commit", "round", "update"}
    /\ snap \in [Downstreams -> [t : 0..MaxTarget, missed : SUBSET Downstreams]]
    /\ unseen \subseteq Downstreams /\ crossed \subseteq Downstreams /\ overtaken \subseteq Downstreams
    /\ steps \in 0..setup.steps /\ notifies \in 0..setup.notifies
    /\ over \in {"no", "shutdown"}

\* Without vardiff the channel is opened with the largest target there is.
Init ==
    /\ setup \in Setups /\ over = "no"
    /\ conn = [d \in Downstreams |-> "away"] 
    /\ has = [d \in Downstreams |-> FALSE] /\ hs = [d \in Downstreams |-> FALSE]
    /\ target = [d \in Downstreams |-> First] /\ pendT = [d \in Downstreams |-> 0]
    /\ upT = [d \in Downstreams |-> 0] /\ cacheD = [d \in Downstreams |-> 0]
    /\ told = [d \in Downstreams |-> 0]
    /\ doing = Idle /\ snap = [d \in Downstreams |-> NoSnapshot]
    /\ unseen = {} /\ crossed = {} /\ overtaken = {}
    /\ pendUpd = [d \in Downstreams |-> <<>>] /\ updates = <<>> /\ channelTarget = [k \in Keys |-> 0]
    /\ allowed = [k \in Keys |-> IF setup.vardiff THEN First ELSE MaxTarget]
    /\ c2s = <<>> /\ s2d = [d \in Downstreams |-> <<>>] /\ steps = 0 /\ notifies = 0

-----------------------------------------------------------------------------
(* Connections. *)

\* Everyone with a snapshot has missed the changes of S.
Missed(S) ==
    [d \in Downstreams |-> IF snap[d] = NoSnapshot THEN NoSnapshot ELSE [snap[d] EXCEPT !.missed = @ \cup S]]

Accept(d) ==
    /\ Ready
    /\ conn[d] = "away" /\ Cardinality({e \in Downstreams : conn[e] # "away"}) < setup.conns
    /\ conn' = [conn EXCEPT ![d] = "new"]
    /\ unseen' = unseen \cup {d} /\ snap' = Missed({d})
    /\ UNCHANGED <<setup, data, pendUpd, pool, c2s, s2d, told, doing, crossed, overtaken, bounds, over>>

\* The target the pool gives a channel that asks for t at most: not above it,
\* and the same for a prompt pool.
Grants(max, t) == IF setup.vardiff /\ setup.prompt THEN t = max ELSE t <= max

\* The channel manager opens the channel of d (in aggregated mode the first
\* time at the pool), and answers with its target.
ManagerOpens(d, t) ==
    LET k == Key(d) IN
    /\ over = "no"
    /\ conn[d] = "new"
    /\ conn' = [conn EXCEPT ![d] = "asked"]
    /\ IF channelTarget[k] = 0 THEN Grants(allowed[k], t) ELSE t = channelTarget[k]
    /\ channelTarget' = [channelTarget EXCEPT ![k] = t]
    /\ c2s' = Append(c2s, [type |-> "opened", key |-> d, t |-> t])
    /\ UNCHANGED <<setup, data, pendUpd, updates, allowed, s2d, told, doing, snap, history, bounds,
                   over>>

\* The target a downstream is to have, and the smallest that those of S want.
Wanted(d) == IF pendT[d] # 0 THEN pendT[d] ELSE target[d]
MinWanted(S) == IF S = {} THEN MaxTarget ELSE Min({Wanted(d) : d \in S})

\* UpdateChannel for the shared channel, once it is open.  unseen are those whose
\* target the last one does not take into account.
SendUpdate(found) ==
    IF channelTarget[Shared] = 0 THEN UNCHANGED <<updates, unseen>>
    ELSE /\ updates' = Append(updates, [key |-> Shared, t |-> found.t])
         /\ unseen' = found.missed

\* The downstream takes the upstream target, and is sent the configured one.
\* One that is leaving cannot be answered, and is removed.
HandleOpenSuccess ==
    /\ Ready
    /\ c2s # <<>> /\ Head(c2s).type = "opened"
    /\ c2s' = Tail(c2s)
    /\ LET d == Head(c2s).key
       IN  IF conn[d] \in {"asked", "closing"}
             THEN /\ conn' = [conn EXCEPT ![d] = IF @ = "asked" THEN "up" ELSE "removed"]
                  /\ has' = [has EXCEPT ![d] = TRUE]
                  /\ upT' = [upT EXCEPT ![d] = Head(c2s).t]
                  /\ s2d' = IF conn[d] = "asked" THEN [s2d EXCEPT ![d] = Append(@, Diff(First))] ELSE s2d
             ELSE UNCHANGED <<conn, has, upT, s2d>>
    /\ UNCHANGED <<setup, target, pendT, cacheD, hs, pendUpd, pool, told, doing, snap, history, bounds,
                   over>>

\* The Downstream task ends and closes its queue; its miner is away.
Leave(d) ==
    /\ over = "no"
    /\ d \in Up
    /\ conn' = [conn EXCEPT ![d] = "closing"]
    /\ s2d' = [s2d EXCEPT ![d] = <<>>]
    /\ cacheD' = [cacheD EXCEPT ![d] = 0] /\ told' = [told EXCEPT ![d] = 0]
    /\ hs' = [hs EXCEPT ![d] = FALSE] /\ overtaken' = overtaken \ {d}
    /\ UNCHANGED <<setup, target, pendT, upT, has, pendUpd, pool, c2s, doing, snap, unseen, crossed,
                   bounds, over>>

\* handle_downstream_disconnect: out of the maps, so that nobody sees its
\* targets any more.
RemoveDownstream(d) ==
    /\ over = "no"
    /\ conn[d] = "closing"
    /\ conn' = [conn EXCEPT ![d] = "removed"]
    /\ target' = [target EXCEPT ![d] = First]
    /\ pendT' = [pendT EXCEPT ![d] = 0] /\ upT' = [upT EXCEPT ![d] = 0]
    /\ unseen' = unseen \ {d} /\ crossed' = crossed \ {d}
    /\ UNCHANGED <<setup, cacheD, has, hs, pendUpd, pool, c2s, s2d, told, doing, snap, overtaken, bounds,
                   over>>

\* In aggregated mode the pool hears what the others want: this is looked up ...
TellsPool == setup.vardiff /\ setup.aggregated

FindUpdate(d) ==
    /\ over = "no"
    /\ TellsPool
    /\ conn[d] = "removed"
    /\ conn' = [conn EXCEPT ![d] = "found"]
    /\ snap' = [snap EXCEPT ![d] = [t |-> MinWanted(Present), missed |-> {}]]
    /\ UNCHANGED <<setup, data, pendUpd, pool, c2s, s2d, told, doing, history, bounds, over>>

\* ... and then sent.  The shared channel stays open.
SendFoundUpdate(d) ==
    /\ over = "no"
    /\ conn[d] = "found"
    /\ conn' = [conn EXCEPT ![d] = "gone"]
    /\ SendUpdate(snap[d])
    /\ snap' = [snap EXCEPT ![d] = NoSnapshot]
    /\ UNCHANGED <<setup, data, pendUpd, channelTarget, allowed, c2s, s2d, told, doing, crossed, overtaken,
                   bounds, over>>

\* Otherwise there is only the CloseChannel.
CloseChannel(d) ==
    /\ over = "no"
    /\ ~TellsPool
    /\ conn[d] = "removed"
    /\ conn' = [conn EXCEPT ![d] = "gone"]
    /\ channelTarget' = IF setup.aggregated \/ ~has[d] THEN channelTarget
                        ELSE [channelTarget EXCEPT ![d] = 0]
    /\ UNCHANGED <<setup, data, pendUpd, updates, allowed, c2s, s2d, told, doing, snap, history, bounds,
                   over>>

-----------------------------------------------------------------------------
(* A Downstream: what it sends to its miner. *)

\* The difficulty that waits is sent; the pending target becomes the target.
Committed(d) ==
    /\ target' = [target EXCEPT ![d] = Wanted(d)]
    /\ pendT' = [pendT EXCEPT ![d] = 0]

SendDifficultyOnly(d) ==
    IF cacheD[d] = 0 THEN UNCHANGED <<told, target, pendT, cacheD, overtaken>>
    ELSE /\ told' = [told EXCEPT ![d] = cacheD[d]]
         /\ cacheD' = [cacheD EXCEPT ![d] = 0]
         /\ overtaken' = overtaken \ {d}
         /\ UNCHANGED <<target, pendT>>

SendDifficulty(d) ==
    IF cacheD[d] = 0 THEN UNCHANGED <<told, target, pendT, cacheD, overtaken>>
    ELSE /\ told' = [told EXCEPT ![d] = cacheD[d]]
         /\ Committed(d)
         /\ cacheD' = [cacheD EXCEPT ![d] = 0]
         /\ overtaken' = overtaken \ {d}

\* The end of the handshake is the server's: it takes the difficulty that waits
\* under the lock, ...
HandleHandshakeCompletion(d) ==
    /\ Ready
    /\ conn[d] = "up" /\ ~hs[d]
    /\ hs' = [hs EXCEPT ![d] = TRUE]
    /\ doing' = IF cacheD[d] = 0 THEN Idle ELSE [at |-> "send", d |-> d, diff |-> cacheD[d]]
    /\ cacheD' = [cacheD EXCEPT ![d] = 0]
    /\ UNCHANGED <<setup, conn, target, pendT, upT, has, pendUpd, pool, c2s, s2d, told, snap, history,
                   bounds, over>>

\* ... sends it, maybe after one that the Downstream task has sent since, ...
SendHandshakeDifficulty ==
    /\ over = "no"
    /\ doing.at = "send"
    /\ LET d == doing.d
       IN  /\ doing' = IF d \in Up THEN [at |-> "commit", d |-> d] ELSE Idle
           /\ told' = IF d \in Up THEN [told EXCEPT ![d] = doing.diff] ELSE told
           /\ overtaken' = IF told[d] = 0 THEN overtaken ELSE overtaken \cup {d}
    /\ UNCHANGED <<setup, conn, data, pendUpd, pool, c2s, s2d, snap, unseen, crossed, bounds, over>>

\* ... and commits the pending target under the lock.
CommitHandshakeTarget ==
    /\ over = "no"
    /\ doing.at = "commit"
    /\ doing' = Idle
    /\ Committed(doing.d)
    /\ UNCHANGED <<setup, conn, upT, cacheD, has, hs, pendUpd, pool, c2s, s2d, told, snap, history, bounds,
                   over>>

HandleSetDifficulty(d) ==
    /\ over = "no"
    /\ d \in Up /\ s2d[d] # <<>> /\ Head(s2d[d]) # Notify
    /\ s2d' = [s2d EXCEPT ![d] = Tail(@)]
    /\ cacheD' = [cacheD EXCEPT ![d] = Head(s2d[d]).diff]
    /\ UNCHANGED <<setup, conn, target, pendT, upT, has, hs, pendUpd, pool, c2s, told, doing, snap,
                   history, bounds, over>>

HandleNotify(d) ==
    /\ over = "no"
    /\ d \in Up /\ s2d[d] # <<>> /\ Head(s2d[d]) = Notify
    /\ s2d' = [s2d EXCEPT ![d] = Tail(@)]
    /\ IF hs[d] THEN SendDifficulty(d) ELSE UNCHANGED <<told, target, pendT, cacheD, overtaken>>
    /\ UNCHANGED <<setup, conn, upT, has, hs, pendUpd, pool, c2s, doing, snap, unseen, crossed, bounds,
                   over>>

\* The server has a new job, in aggregated mode for everyone.
NewJob ==
    LET receivers == IF setup.aggregated THEN Up ELSE WithChannel \cap Up IN
    /\ Ready
    /\ notifies < setup.notifies /\ receivers # {} /\ \E k \in Keys : channelTarget[k] # 0
    /\ notifies' = notifies + 1
    /\ s2d' = [d \in Downstreams |-> IF d \in receivers THEN Append(s2d[d], Notify) ELSE s2d[d]]
    /\ UNCHANGED <<setup, conn, data, pendUpd, pool, c2s, told, doing, snap, history, steps, over>>

-----------------------------------------------------------------------------
(* The server: vardiff. *)

\* A set_difficulty for every downstream in DOMAIN new that still listens.
SendAll(new) ==
    s2d' = [d \in Downstreams |->
              IF d \in DOMAIN new /\ d \in Up THEN Append(s2d[d], Diff(new[d])) ELSE s2d[d]]

\* The updates that wait for a SetTarget t, and those it releases.
Released(u, t) == u >= t

\* A target below the upstream's must wait for the pool's SetTarget: shares the
\* pool counts would be lost.
Later(new) == {d \in DOMAIN new : new[d] < upT[d]}

\* handle_vardiff_updates sets the pending targets.  crossed are those whose
\* retarget an UpdateChannel of before, of a Downstream that ends, may still
\* cross.
HandleVardiffUpdates(new) ==
    LET stale == \E d \in Downstreams : snap[d] # NoSnapshot
    IN  /\ Ready
        /\ setup.vardiff /\ steps < setup.steps
        /\ setup.prompt => updates = <<>> /\ c2s = <<>>
        /\ steps' = steps + 1
        /\ pendT' = [d \in Downstreams |-> IF d \in DOMAIN new THEN new[d] ELSE pendT[d]]
        /\ pendUpd' = [d \in Downstreams |->
                          IF d \in Later(new) THEN Append(pendUpd[d], new[d]) ELSE pendUpd[d]]
        /\ doing' = [at |-> "round", new |-> new]
        /\ snap' = Missed(DOMAIN new)
        /\ unseen' = unseen \cup DOMAIN new
        /\ crossed' = IF stale THEN crossed \cup DOMAIN new ELSE crossed \ DOMAIN new
        /\ UNCHANGED <<setup, conn, target, upT, cacheD, has, hs, pool, c2s, s2d, told, overtaken,
                       notifies, over>>

\* The UpdateChannel of the round.  In aggregated mode there is one, with the
\* smallest target of all; this is looked up first.
SmallestOfChanged(new) == Min(Range(new))
SmallestTarget(new) == MinWanted(Present)

FindRoundUpdate ==
    /\ over = "no"
    /\ doing.at = "round" /\ setup.aggregated
    /\ doing' = [at |-> "update", new |-> doing.new, t |-> SmallestTarget(doing.new),
                 nobody |-> Present = {}]
    /\ UNCHANGED <<setup, conn, data, pendUpd, pool, c2s, s2d, told, snap, history, bounds, over>>

\* The UpdateChannel goes out, and the difficulties that need not wait.  Else
\* there is one for each channel, in the order of a map.
SeparateUpdates(new, order) == [i \in DOMAIN order |-> [key |-> order[i], t |-> new[order[i]]]]

SendRoundUpdate ==
    /\ over = "no"
    /\ \/ /\ doing.at = "update"
          /\ IF doing.nobody THEN UNCHANGED <<updates, unseen>>
             ELSE SendUpdate([t |-> doing.t, missed |-> {}])
       \/ /\ doing.at = "round" /\ ~setup.aggregated
          /\ \E order \in SetToSeqs(DOMAIN doing.new) :
                updates' = updates \o SeparateUpdates(doing.new, order)
          /\ UNCHANGED unseen
    /\ SendAll([d \in DOMAIN doing.new \ Later(doing.new) |-> doing.new[d]])
    /\ doing' = Idle
    /\ UNCHANGED <<setup, conn, data, pendUpd, channelTarget, allowed, c2s, told, snap, crossed,
                   overtaken, bounds, over>>

\* A SetTarget releases the updates that wait for it, and drops those that it
\* does not allow.
HandleSetTarget ==
    /\ Ready
    /\ setup.vardiff
    /\ c2s # <<>> /\ Head(c2s).type = "target"
    /\ c2s' = Tail(c2s)
    /\ LET m == Head(c2s)
           mine == {d \in Downstreams : m.key = Key(d)} \cap
                   (IF setup.aggregated THEN Present ELSE WithChannel)
           concerned == {d \in Downstreams : m.key = Key(d) /\ (setup.aggregated \/ mine # {})}
           sent(d) == SelectSeq(pendUpd[d], LAMBDA u : Released(u, m.t))
       IN  /\ upT' = [d \in Downstreams |-> IF d \in mine THEN m.t ELSE upT[d]]
           /\ pendUpd' = [d \in Downstreams |-> IF d \in concerned THEN <<>> ELSE pendUpd[d]]
           /\ s2d' = [d \in Downstreams |->
                        IF d \in concerned \cap Up
                          THEN s2d[d] \o [i \in DOMAIN sent(d) |-> Diff(sent(d)[i])] ELSE s2d[d]]
    /\ UNCHANGED <<setup, conn, target, pendT, cacheD, has, hs, pool, told, doing,
                   snap, history, bounds, over>>

-----------------------------------------------------------------------------
(* The server: SetTarget without vardiff goes to the miners.  A miner that   *)
(* is leaving cannot be told.                                               *)

UnableToTell(S) == IF S \subseteq Up THEN "no" ELSE "shutdown"

\* A channel with no miner, as after an open that came too late, is closed.
Orphaned(k) == ~setup.aggregated /\ ~(has[k] /\ conn[k] # "gone")

HandleSetTargetWithoutVardiff ==
    /\ Ready
    /\ ~setup.vardiff
    /\ c2s # <<>> /\ Head(c2s).type = "target"
    /\ c2s' = Tail(c2s)
    /\ LET m == Head(c2s)
           mine == {d \in WithChannel : m.key = Key(d)}
       IN  /\ upT' = [d \in Downstreams |-> IF d \in mine THEN m.t ELSE upT[d]]
           /\ pendT' = [d \in Downstreams |-> IF d \in mine THEN m.t ELSE pendT[d]]
           /\ SendAll([d \in mine |-> m.t])
           /\ over' = UnableToTell(mine)
           /\ channelTarget' = IF Orphaned(m.key) THEN [channelTarget EXCEPT ![m.key] = 0]
                               ELSE channelTarget
    /\ UNCHANGED <<setup, conn, target, cacheD, has, hs, pendUpd, updates, allowed, told, doing,
                   snap, history, bounds>>

-----------------------------------------------------------------------------
(* The channel manager and the pool. *)

\* The manager takes the target and passes it on.
SetTarget(k, t) ==
    /\ channelTarget' = [channelTarget EXCEPT ![k] = IF @ = 0 THEN 0 ELSE t]
    /\ c2s' = IF channelTarget[k] = 0 THEN c2s
              ELSE Append(c2s, [type |-> "target", key |-> k, t |-> t])

\* UpdateChannel is answered with a target that it allows.  A prompt pool
\* answers before the next round of vardiff, a minute later.
PoolReplies(t) ==
    /\ over = "no"
    /\ updates # <<>> /\ Grants(Head(updates).t, t)
    /\ updates' = Tail(updates)
    /\ allowed' = [allowed EXCEPT ![Head(updates).key] = Head(updates).t]
    /\ SetTarget(Head(updates).key, t)
    /\ UNCHANGED <<setup, conn, data, pendUpd, s2d, told, doing, snap, history, bounds, over>>

\* UpdateChannelError is only logged.
PoolRefuses ==
    /\ over = "no"
    /\ updates # <<>> /\ ~setup.prompt
    /\ updates' = Tail(updates)
    /\ UNCHANGED <<setup, conn, data, pendUpd, channelTarget, allowed, c2s, s2d, told, doing,
                   snap, history, bounds, over>>

\* The pool's own vardiff.
PoolSetsTarget(k, t) ==
    /\ over = "no"
    /\ ~(setup.vardiff /\ setup.prompt)
    /\ channelTarget[k] # 0 /\ t <= allowed[k] /\ t # channelTarget[k] /\ steps < setup.steps
    /\ steps' = steps + 1
    /\ SetTarget(k, t)
    /\ UNCHANGED <<setup, conn, data, pendUpd, updates, allowed, s2d, told, doing,
                   snap, history, notifies, over>>

Next ==
    \/ \E d \in Downstreams :
          \/ Accept(d) \/ Leave(d) \/ RemoveDownstream(d)
          \/ FindUpdate(d) \/ SendFoundUpdate(d) \/ CloseChannel(d)
          \/ HandleHandshakeCompletion(d) \/ HandleSetDifficulty(d) \/ HandleNotify(d)
          \/ \E t \in Targets : ManagerOpens(d, t)
    \/ SendHandshakeDifficulty \/ CommitHandshakeTarget
    \/ HandleOpenSuccess \/ NewJob
    \/ \E S \in SUBSET WithChannel \ {{}} : \E new \in [S -> Targets] : HandleVardiffUpdates(new)
    \/ FindRoundUpdate \/ SendRoundUpdate
    \/ HandleSetTarget \/ HandleSetTargetWithoutVardiff
    \/ \E t \in Targets : PoolReplies(t)
    \/ PoolRefuses
    \/ \E k \in Keys, t \in Targets : PoolSetsTarget(k, t)

Spec == Init /\ [][Next]_vars

-----------------------------------------------------------------------------
(* Properties. *)

\* Nothing is on its way to or from d's miner, and nobody is in the middle of
\* something.
Quiet(d) ==
    /\ c2s = <<>> /\ updates = <<>> /\ s2d[d] = <<>> /\ cacheD[d] = 0 /\ hs[d] /\ conn[d] = "up"
    /\ doing = Idle /\ \A e \in Downstreams : snap[e] = NoSnapshot

\* The difficulty a miner was told is that of the target its shares are checked
\* against, rounded, when nothing is on its way: retargets, the pool and the
\* handshake change the one and the other at different times.  With vardiff
\* this needs a pool that answers an UpdateChannel before the next round.  Two
\* exceptions are named: the handshake's difficulty when a newer one has
\* overtaken it between the lock and the send (overtaken), until the next
\* difficulty is sent; and a retarget that an UpdateChannel of before has crossed
\* (crossed), until the next retarget.
CheckedIsTold ==
    \A d \in Downstreams \ (overtaken \cup crossed) :
        Quiet(d) /\ (setup.vardiff => setup.prompt) => told[d] = Rounded(target[d])

\* No share the pool would count is lost for a difficulty that is higher than
\* the pool's, but for the rounding: the shared channel has the smallest target
\* that any of its miners works at, whoever joins, leaves or is retargeted.  Not
\* so for a miner of whose target the last UpdateChannel knows nothing: it has
\* just joined, or it was retargeted while a Downstream that ends was about to
\* send what it had found before.  That lasts until the next UpdateChannel.
NoShareIsLost ==
    setup.vardiff /\ setup.prompt =>
        \A d \in Downstreams \ overtaken :
            Quiet(d) /\ ~(setup.aggregated /\ d \in unseen) =>
                /\ target[d] >= channelTarget[Key(d)]
                /\ told[d] >= Rounded(channelTarget[Key(d)])

\* What vardiff decides reaches the miner: when nothing is on its way, no
\* target is left pending, also for one that had to wait for the pool; but for
\* one that an UpdateChannel of before has crossed, whose answer drops it, until
\* it is retargeted again.
RetargetsArrive ==
    setup.vardiff /\ setup.prompt => \A d \in Downstreams \ crossed : Quiet(d) => pendT[d] = 0

\* When nothing is on its way, a miner was told the target its shares are
\* checked against, and no retarget was left behind.
TargetsInv == TypeOK /\ CheckedIsTold /\ RetargetsArrive
=============================================================================
