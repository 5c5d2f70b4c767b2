--------------------------- MODULE DeclaratorClient ---------------------------
(***************************************************************************)
(* The jobs and shares of the job declarator client: what the handlers of   *)
(* its channel manager do with templates, tokens, declared jobs, the        *)
(* upstream channel, the miners' opens and their shares                     *)
(* (miner-apps/jd-client/src/lib/channel_manager/).  Its life cycle, with   *)
(* the fallback that ends this model, is in ClientRuntime.                  *)
(*                                                                         *)
(* The handlers run one at a time in the channel manager's task; the       *)
(* template provider, the JDS, the pool and the miners answer when they     *)
(* like.  A template is its number; the prevhash that activates it has the  *)
(* same number.  A miner has one channel, and its jobs are named by their   *)
(* templates.                                                               *)
(***************************************************************************)
EXTENDS Naturals, Sequences, FiniteSets, SequencesExt, FiniteSetsExt

CONSTANTS
    Modes,          \* configured modes: "full" (template) and "coinbase" (only)
    Miners,         \* downstreams
    MaxTemplates,   \* bound on the templates
    MaxShares,      \* bound on the shares
    Capacity        \* CACHED_SHARES_CAPACITY

ASSUME DeclaratorAssumption ==
    /\ Modes \subseteq {"full", "coinbase"} /\ MaxTemplates \in Nat /\ MaxShares \in Nat
    /\ IsFiniteSet(Miners) /\ Capacity \in Nat \ {0}

VARIABLES
    config, mode,           \* the configured mode, and the present one
    templates, owed,        \* future flags of the templates; a prevhash is due
    requests,               \* RequestTransactionData without an answer
    templateStore, lastFuture, lastPrev,
    tokens, asked, issued,  \* stock, requests without an answer, total
    lost,                   \* history: tokens taken for nothing and not replaced
    jobs,                   \* last_declare_job_store
    declares, spent,        \* DeclareMiningJob at the JDS; tokens used in them
    atPool, custom,         \* SetCustomMiningJob at the pool; all ever sent
    upstreamState, channel, \* and whether there is an upstream channel
    upstreamJob, accepted,  \* template_id_to_upstream_job_id; its live jobs
    pending, miner, known,  \* opens that wait; miners; templates of their jobs
    cached, shares, sent,   \* cached_shares; shares submitted; shares sent on
    behind,                 \* history: miners whose open stood behind one that failed
    over                    \* "no", "fallback" or "shutdown"

setup == <<config, mode>>
tp == <<templates, owed, requests>>
work == <<templateStore, lastFuture, lastPrev>>
stock == <<tokens, asked, issued, lost>>
decl == <<jobs, declares, spent>>
pool == <<atPool, custom>>
up == <<upstreamState, channel, upstreamJob, accepted>>
opens == <<pending, miner, known, behind>>
shr == <<cached, shares, sent>>
vars == <<setup, tp, work, stock, decl, pool, up, opens, shr, over>>

Templates == 1..MaxTemplates
Registered == {m \in Miners : miner[m] \in {"idle", "waiting", "open"}}
Open == {m \in Miners : miner[m] = "open"}

\* The tip of a template: the future template it follows.
Tip(t) == Max({u \in 1..t : templates[u]})

Job == [tmpl : Templates, prev : 0..MaxTemplates, future : BOOLEAN, token : Nat]

TypeOK ==
    /\ config \in Modes /\ mode \in {"solo", config}
    /\ templates \in Seq(BOOLEAN) /\ Len(templates) <= MaxTemplates /\ owed \in BOOLEAN
    /\ requests \in [Templates -> 0..2]
    /\ templateStore \subseteq Templates /\ {lastFuture, lastPrev} \subseteq 0..MaxTemplates
    /\ tokens \in Seq(1..issued) /\ asked \in Nat /\ issued \in Nat /\ lost \in Nat
    /\ DOMAIN custom \subseteq Nat /\ DOMAIN jobs \subseteq Nat
    /\ \A r \in DOMAIN jobs : jobs[r] \in Job
    /\ \A r \in DOMAIN custom : custom[r] \in Job
    /\ declares \subseteq DOMAIN jobs /\ spent \in Seq(1..issued)
    /\ atPool \subseteq DOMAIN custom
    /\ upstreamState \in {"SoloMining", "NoChannel", "Pending", "Connected"}
    /\ channel = (upstreamState = "Connected")
    /\ upstreamJob \in [Templates -> {0} \cup DOMAIN custom] /\ accepted \subseteq DOMAIN custom
    /\ pending \in Seq(Miners) /\ miner \in [Miners -> {"out", "idle", "waiting", "open", "gone"}]
    /\ known \in [Miners -> SUBSET Templates]
    /\ cached \in [Templates -> SUBSET shares] /\ shares \subseteq 1..MaxShares
    /\ \A i \in DOMAIN sent :
          sent[i] \in [share : shares, tmpl : Templates, job : DOMAIN custom,
                       tip : 1..MaxTemplates]
    /\ behind \subseteq Miners /\ over \in {"no", "fallback", "shutdown"}

Init ==
    /\ config \in Modes /\ mode = "solo" /\ over = "no"
    /\ templates = <<>> /\ owed = FALSE /\ requests = [t \in Templates |-> 0]
    /\ templateStore = {} /\ lastFuture = 0 /\ lastPrev = 0
    /\ tokens = <<>> /\ asked = 0 /\ issued = 0 /\ lost = 0
    /\ jobs = <<>> /\ declares = {} /\ spent = <<>> /\ atPool = {} /\ custom = <<>>
    /\ upstreamState = "SoloMining" /\ channel = FALSE
    /\ upstreamJob = [t \in Templates |-> 0] /\ accepted = {}
    /\ pending = <<>> /\ miner = [m \in Miners |-> "out"]
    /\ known = [m \in Miners |-> {}] /\ behind = {}
    /\ cached = [t \in Templates |-> {}] /\ shares = {} /\ sent = <<>>

-----------------------------------------------------------------------------
(* Start-up: the JDS accepts the connection, and the main task lets opens   *)
(* go upstream and asks for two tokens.                                     *)

ActivateMode ==
    /\ over = "no"
    /\ mode = "solo"
    /\ mode' = config
    /\ UNCHANGED <<config, tp, work, stock, decl, pool, up, opens, shr, over>>

UpstreamReady ==
    /\ over = "no"
    /\ mode = config
    /\ upstreamState = "SoloMining"
    /\ upstreamState' = "NoChannel"
    /\ asked' = asked + 2
    /\ UNCHANGED <<setup, tp, work, tokens, issued, lost, decl, pool, channel, upstreamJob, accepted,
                   opens, shr, over>>

-----------------------------------------------------------------------------
(* Templates. *)

\* Request ids are unique; these belong to jobs.
NewIds(n) ==
    LET used == DOMAIN custom \cup DOMAIN jobs
        last == IF used = {} THEN 0 ELSE Max(used)
    IN  (last + 1)..(last + n)

\* A job enters a map under each of the ids.
With(map, ids, job) == [r \in ids \cup DOMAIN map |-> IF r \in ids THEN job ELSE map[r]]

\* SetCustomMiningJob without a declaration, one for each id.
AddCustom(ids, job) ==
    /\ jobs' = With(jobs, ids, job)
    /\ custom' = With(custom, ids, job)
    /\ atPool' = atPool \cup ids

TakeToken == tokens' = IF tokens = <<>> THEN <<>> ELSE Tail(tokens)

\* In coinbase-only mode a template for the present tip takes one token, and
\* makes a custom job with it for every downstream.
CoinbaseOnlyTemplate(t) ==
    IF mode = "coinbase" /\ channel /\ lastPrev # 0 /\ tokens # <<>>
      THEN /\ TakeToken /\ asked' = asked + 1
           /\ AddCustom(NewIds(Cardinality(Registered)),
                        [tmpl |-> t, prev |-> lastPrev, future |-> FALSE, token |-> Head(tokens)])
      ELSE UNCHANGED <<tokens, asked, jobs, custom, atPool>>

\* A provider sends a future template and then its prevhash, and templates
\* with more fees in between.
HandleNewTemplate(future) ==
    LET t == Len(templates) + 1 IN
    /\ over = "no"
    /\ t \in Templates /\ ~owed
    /\ future \/ lastPrev # 0
    /\ templates' = Append(templates, future) /\ owed' = future
    /\ templateStore' = templateStore \cup {t}
    /\ lastFuture' = IF future THEN t ELSE lastFuture
    /\ requests' = IF mode = "full" THEN [requests EXCEPT ![t] = 1] ELSE requests
    /\ IF future THEN UNCHANGED <<tokens, asked, jobs, custom, atPool, known>>
       ELSE /\ CoinbaseOnlyTemplate(t)
            /\ known' = [m \in Miners |-> IF m \in Open THEN known[m] \cup {t} ELSE known[m]]
    /\ UNCHANGED <<setup, lastPrev, issued, lost, declares, spent, up, pending, miner, behind, shr, over>>

\* In coinbase-only mode the new tip takes a token; without an upstream
\* channel it is gone and no other is asked for.
CoinbaseOnlyPrevHash ==
    IF mode = "coinbase" /\ tokens # <<>>
      THEN /\ TakeToken
           /\ IF channel
                THEN /\ asked' = asked + 1
                     /\ AddCustom(NewIds(1), [tmpl |-> lastFuture, prev |-> lastFuture,
                                              future |-> TRUE, token |-> Head(tokens)])
                     /\ UNCHANGED lost
                ELSE lost' = lost + 1 /\ UNCHANGED <<asked, jobs, custom, atPool>>
      ELSE UNCHANGED <<tokens, asked, lost, jobs, custom, atPool>>

\* The job stored for the future template is declared now, and gets its prevhash.
DeclareStored ==
    LET stored == {r \in DOMAIN jobs : jobs[r].tmpl = lastFuture} IN
    /\ declares' = declares \cup stored
    /\ spent' = spent \o SetToSeq({jobs[r].token : r \in stored})
    /\ jobs' = [r \in DOMAIN jobs |->
                   IF r \in stored /\ jobs[r].future
                     THEN [jobs[r] EXCEPT !.prev = lastFuture, !.future = FALSE] ELSE jobs[r]]

HandleSetNewPrevHashKeepingJobs ==
    /\ over = "no"
    /\ owed
    /\ owed' = FALSE
    /\ cached' = [t \in Templates |-> {}]
    /\ lastPrev' = lastFuture
    /\ IF mode = "full" THEN DeclareStored /\ UNCHANGED <<tokens, asked, lost, custom, atPool>>
       ELSE CoinbaseOnlyPrevHash /\ UNCHANGED <<declares, spent>>
    /\ known' = [m \in Miners |-> IF m \in Open THEN known[m] \cup {lastFuture} ELSE known[m]]
    /\ UNCHANGED <<setup, templates, requests, templateStore, lastFuture, issued, upstreamState,
                   channel, upstreamJob, accepted, pending, miner, behind, shares, sent, over>>

HandleSetNewPrevHash ==
    /\ over = "no"
    /\ owed
    /\ owed' = FALSE
    /\ cached' = [t \in Templates |-> {}]
    /\ accepted' = {}
    /\ lastPrev' = lastFuture
    /\ IF mode = "full" THEN DeclareStored /\ UNCHANGED <<tokens, asked, lost, custom, atPool>>
       ELSE CoinbaseOnlyPrevHash /\ UNCHANGED <<declares, spent>>
    /\ known' = [m \in Miners |-> IF m \in Open THEN {lastFuture} ELSE known[m]]
    /\ UNCHANGED <<setup, templates, requests, templateStore, lastFuture, issued, upstreamState,
                   channel, upstreamJob, pending, miner, behind, shares, sent, over>>

\* A template is declared: at once, or with its prevhash if it is a future one.
\* Without a token, the template or an upstream channel it is not.
Declare(t) ==
    LET r == CHOOSE i \in NewIds(1) : TRUE
        job == [tmpl |-> t, prev |-> lastPrev, future |-> templates[t], token |-> Head(tokens)]
    IN  IF tokens # <<>> /\ t \in templateStore /\ channel
          THEN /\ jobs' = With(jobs, {r}, job)
               /\ IF templates[t] /\ lastPrev # t THEN UNCHANGED <<declares, spent>>
                  ELSE declares' = declares \cup {r} /\ spent' = Append(spent, job.token)
          ELSE UNCHANGED <<jobs, declares, spent>>

HandleRequestTxDataSuccessIfDeclared(t) ==
    /\ over = "no"
    /\ requests[t] > 0
    /\ requests' = [requests EXCEPT ![t] = @ - 1]
    /\ TakeToken
    /\ asked' = IF t \in templateStore /\ channel THEN asked + 1 ELSE asked
    /\ templateStore' = templateStore \ {t}
    /\ Declare(t)
    /\ UNCHANGED <<setup, templates, owed, lastFuture, lastPrev, issued, lost, pool, up, opens, shr, over>>

HandleRequestTxDataSuccess(t) ==
    /\ over = "no"
    /\ requests[t] > 0
    /\ requests' = [requests EXCEPT ![t] = @ - 1]
    /\ TakeToken
    /\ asked' = asked + 1
    /\ templateStore' = templateStore \ {t}
    /\ Declare(t)
    /\ UNCHANGED <<setup, templates, owed, lastFuture, lastPrev, issued, lost, pool, up, opens, shr, over>>

HandleRequestTxDataError(t) ==
    /\ over = "no"
    /\ requests[t] > 0
    /\ requests' = [requests EXCEPT ![t] = @ - 1]
    /\ UNCHANGED <<setup, templates, owed, work, stock, decl, pool, up, opens, shr, over>>

-----------------------------------------------------------------------------
(* Answers of the JDS. *)

HandleAllocateMiningJobTokenSuccess ==
    /\ over = "no"
    /\ asked > 0
    /\ asked' = asked - 1 /\ issued' = issued + 1
    /\ tokens' = Append(tokens, issued + 1)
    /\ UNCHANGED <<setup, tp, work, lost, decl, pool, up, opens, shr, over>>

\* The declared job becomes a custom job with the prevhash it was stored with.
HandleDeclareMiningJobSuccess(r) ==
    /\ over = "no"
    /\ r \in declares
    /\ declares' = declares \ {r}
    /\ custom' = With(custom, {r}, jobs[r])
    /\ atPool' = atPool \cup {r}
    /\ UNCHANGED <<setup, tp, work, stock, jobs, spent, up, opens, shr, over>>

\* "stale-chain-tip" is not fatal; the job stays in the store.
HandleDeclareMiningJobStale(r) ==
    /\ over = "no"
    /\ r \in declares
    /\ declares' = declares \ {r}
    /\ UNCHANGED <<setup, tp, work, stock, jobs, spent, pool, up, opens, shr, over>>

-----------------------------------------------------------------------------
(* Answers of the pool. *)

SendShares(chosen, t, r) ==
    sent' = sent \o SetToSeq({[share |-> s, tmpl |-> t, job |-> r, tip |-> lastPrev] :
                                 s \in chosen})

Forget(r) == jobs' = [i \in DOMAIN jobs \ {r} |-> jobs[i]]

\* The upstream channel takes the job if it is for its tip, and the cached
\* shares that meet its target are sent.
HandleSetCustomMiningJobSuccess(r) ==
    LET t == custom[r].tmpl IN
    /\ over = "no"
    /\ r \in atPool
    /\ atPool' = atPool \ {r}
    /\ Forget(r)
    /\ upstreamJob' = [upstreamJob EXCEPT ![t] = r]
    /\ cached' = [cached EXCEPT ![t] = {}]
    /\ IF custom[r].prev = lastPrev
         THEN /\ accepted' = accepted \cup {r}
              /\ \E good \in SUBSET cached[t] : SendShares(good, t, r)
         ELSE UNCHANGED <<accepted, sent>>
    /\ UNCHANGED <<setup, tp, work, stock, declares, spent, custom, upstreamState, channel,
                   opens, shares, over>>

HandleSetCustomMiningJobStale(r) ==
    /\ over = "no"
    /\ r \in atPool
    /\ atPool' = atPool \ {r}
    /\ Forget(r)
    /\ cached' = [cached EXCEPT ![custom[r].tmpl] = {}]
    /\ UNCHANGED <<setup, tp, work, stock, declares, spent, custom, up, opens, shares, sent, over>>

\* The channel manager forgets its work; the main task's fallback, which follows,
\* returns to solo mining and drops the miners.
ResetRuntimeState ==
    /\ mode' = "solo"
    /\ templates' = <<>> /\ owed' = FALSE /\ requests' = [t \in Templates |-> 0]
    /\ templateStore' = {} /\ lastFuture' = 0 /\ lastPrev' = 0
    /\ tokens' = <<>> /\ asked' = 0 /\ issued' = 0 /\ lost' = 0
    /\ jobs' = <<>> /\ declares' = {} /\ spent' = <<>> /\ atPool' = {} /\ custom' = <<>>
    /\ upstreamState' = "SoloMining" /\ channel' = FALSE
    /\ upstreamJob' = [t \in Templates |-> 0] /\ accepted' = {}
    /\ pending' = <<>> /\ miner' = [m \in Miners |-> "out"]
    /\ known' = [m \in Miners |-> {}] /\ behind' = {}
    /\ cached' = [t \in Templates |-> {}] /\ shares' = {} /\ sent' = <<>>

\* The JDS refuses a declaration, or the pool a job, or it refuses or closes the
\* channel: the runtime state is reset, and ClientRuntime goes on from there.
RefusedByJds == declares # {}
RefusedByPool == atPool # {} \/ upstreamState \in {"Pending", "Connected"}
Refused ==
    /\ over = "no"
    /\ RefusedByJds \/ RefusedByPool
    /\ over' = "fallback"
    /\ ResetRuntimeState /\ UNCHANGED config

-----------------------------------------------------------------------------
(* Opening channels. *)

\* A channel is opened on the last future template, whose prevhash must be the
\* last one; otherwise the client shuts down, as it does when no prefix is left
\* for a standard channel.
Ready == lastFuture = lastPrev

OpenAll(set) ==
    /\ miner' = [m \in Miners |-> IF m \in set THEN "open" ELSE miner[m]]
    /\ known' = [m \in Miners |-> IF m \in set THEN {lastFuture} ELSE known[m]]

\* The opens that wait are served in turn: the first n are granted, but for those
\* that are refused with an error.  The next one fails: its miner has left, or it
\* is disconnected for what it asked.  With it the loop ends, and those behind it
\* are forgotten.
Serve(n, refused) ==
    LET handled == {pending[i] : i \in 1..n}
        failed == IF n < Len(pending) THEN {pending[n + 1]} \cap Registered ELSE {}
        granted == handled \ refused
    IN  /\ handled \subseteq Registered /\ refused \subseteq handled
        /\ behind' = behind \cup {pending[i] : i \in (n + 2)..Len(pending)}
        /\ \/ /\ Ready \/ granted = {}
              /\ miner' = [m \in Miners |-> IF m \in granted THEN "open" ELSE IF m \in refused THEN "idle"
                                            ELSE IF m \in failed THEN "gone" ELSE miner[m]]
              /\ known' = [m \in Miners |-> IF m \in granted THEN {lastFuture}
                                            ELSE IF m \in refused \cup failed THEN {} ELSE known[m]]
              /\ UNCHANGED over
           \/ granted # {} /\ over' = "shutdown" /\ UNCHANGED <<miner, known>>

\* The upstream channel is there: the last future template's transactions are
\* asked for (once more), and the waiting opens are served.
HandleOpenExtendedMiningChannelSuccess ==
    /\ over = "no"
    /\ upstreamState = "Pending"
    /\ upstreamState' = "Connected" /\ channel' = TRUE
    /\ requests' = IF mode = "full" THEN [requests EXCEPT ![lastFuture] = @ + 1] ELSE requests
    /\ pending' = <<>>
    /\ \E n \in 0..Len(pending), refused \in SUBSET Miners : Serve(n, refused)
    /\ UNCHANGED <<setup, templates, owed, work, stock, decl, pool, upstreamJob, accepted, shr>>

\* The extranonce allocator cannot be built: back to NoChannel.
OpenUnusable ==
    /\ over = "no"
    /\ upstreamState = "Pending"
    /\ upstreamState' = "NoChannel"
    /\ UNCHANGED <<setup, tp, work, stock, decl, pool, channel, upstreamJob, accepted, opens, shr, over>>

HandleOpenDropping(m) ==
    /\ over = "no"
    /\ miner[m] = "idle"
    /\ \/ /\ upstreamState = "NoChannel"
          /\ pending' = <<m>> \o pending
          /\ upstreamState' = "Pending"
          /\ miner' = [miner EXCEPT ![m] = "waiting"]
          /\ UNCHANGED <<known, over>>
       \/ /\ upstreamState = "Pending"
          /\ miner' = [miner EXCEPT ![m] = "waiting"]
          /\ UNCHANGED <<pending, upstreamState, known, over>>
       \/ /\ upstreamState = "Connected" /\ Ready
          /\ OpenAll({m})
          /\ UNCHANGED <<pending, upstreamState, over>>
       \/ /\ upstreamState = "Connected"
          /\ over' = "shutdown"
          /\ UNCHANGED <<pending, upstreamState, miner, known>>
    /\ UNCHANGED <<setup, tp, work, stock, decl, pool, channel, upstreamJob, accepted, behind, shr>>

\* The first open goes upstream, later ones wait for the answer.  One that is
\* refused changes nothing; one that fails ends the connection, as RemoveDownstream.
HandleOpen(m) ==
    /\ over = "no"
    /\ miner[m] = "idle"
    /\ \/ /\ upstreamState = "NoChannel"
          /\ pending' = <<m>> \o pending
          /\ upstreamState' = "Pending"
          /\ miner' = [miner EXCEPT ![m] = "waiting"]
          /\ UNCHANGED <<known, over>>
       \/ /\ upstreamState = "Pending"
          /\ pending' = Append(pending, m)
          /\ miner' = [miner EXCEPT ![m] = "waiting"]
          /\ UNCHANGED <<upstreamState, known, over>>
       \/ /\ upstreamState = "Connected" /\ Ready
          /\ OpenAll({m})
          /\ UNCHANGED <<pending, upstreamState, over>>
       \/ /\ upstreamState = "Connected"
          /\ over' = "shutdown"
          /\ UNCHANGED <<pending, upstreamState, miner, known>>
    /\ UNCHANGED <<setup, tp, work, stock, decl, pool, channel, upstreamJob, accepted, behind, shr>>

\* The server runs when the main task is back and there is a template.
Join(m) ==
    /\ over = "no"
    /\ miner[m] = "out"
    /\ upstreamState # "SoloMining" /\ lastPrev # 0
    /\ IF Ready THEN miner' = [miner EXCEPT ![m] = "idle"] /\ UNCHANGED over
                ELSE over' = "shutdown" /\ UNCHANGED miner
    /\ UNCHANGED <<setup, tp, work, stock, decl, pool, up, pending, known, behind, shr>>

HandleCloseChannel(m) ==
    /\ over = "no"
    /\ miner[m] = "open"
    /\ miner' = [miner EXCEPT ![m] = "idle"]
    /\ known' = [known EXCEPT ![m] = {}]
    /\ UNCHANGED <<setup, tp, work, stock, decl, pool, up, pending, behind, shr, over>>

\* remove_downstream leaves the open that waits where it is.
RemoveDownstream(m) ==
    /\ over = "no"
    /\ m \in Registered
    /\ miner' = [miner EXCEPT ![m] = "gone"]
    /\ known' = [known EXCEPT ![m] = {}]
    /\ UNCHANGED <<setup, tp, work, stock, decl, pool, up, pending, behind, shr, over>>

-----------------------------------------------------------------------------
(* Shares.  A share is its hash, and a lower one is better. *)

AddShareToCache(t, s) ==
    LET set == cached[t] IN
    cached' = [cached EXCEPT ![t] =
                  IF Cardinality(set) < Capacity THEN set \cup {s}
                  ELSE IF s < Max(set) THEN (set \ {Max(set)}) \cup {s} ELSE set]

\* A share on a job of the present tip: sent if the pool has acknowledged the
\* template's custom job and it meets the upstream target, else cached.
HandleSubmitShares(m, t, s) ==
    LET r == upstreamJob[t] IN
    /\ over = "no"
    /\ miner[m] = "open" /\ t \in known[m]
    /\ s \notin shares
    /\ shares' = shares \cup {s}
    /\ IF r = 0 THEN AddShareToCache(t, s) /\ UNCHANGED sent
       ELSE /\ UNCHANGED cached
            /\ \/ UNCHANGED sent
               \/ r \in accepted /\ SendShares({s}, t, r)
    /\ UNCHANGED <<setup, tp, work, stock, decl, pool, up, opens, over>>

-----------------------------------------------------------------------------
PoolAnswersOpen == HandleOpenExtendedMiningChannelSuccess \/ OpenUnusable

Next ==
    \/ ActivateMode \/ UpstreamReady
    \/ \E future \in BOOLEAN : HandleNewTemplate(future)
    \/ HandleSetNewPrevHash
    \/ \E t \in Templates : HandleRequestTxDataSuccess(t) \/ HandleRequestTxDataError(t)
    \/ HandleAllocateMiningJobTokenSuccess
    \/ \E r \in declares : HandleDeclareMiningJobSuccess(r) \/ HandleDeclareMiningJobStale(r)
    \/ \E r \in atPool : HandleSetCustomMiningJobSuccess(r) \/ HandleSetCustomMiningJobStale(r)
    \/ Refused \/ PoolAnswersOpen
    \/ \E m \in Miners :
          \/ Join(m) \/ HandleOpen(m) \/ HandleCloseChannel(m) \/ RemoveDownstream(m)
          \/ \E t \in Templates, s \in 1..MaxShares : HandleSubmitShares(m, t, s)

Spec == Init /\ [][Next]_vars /\ WF_vars(PoolAnswersOpen)

-----------------------------------------------------------------------------
(* Properties *)

\* The stock of tokens does not run dry: when a template takes one, another is
\* asked for, also when the declaration comes to nothing.  Of the first two a
\* coinbase-only client may lose some, as it takes one for every tip that comes
\* before its upstream channel is there; a full-template client loses none.
TokensReplaced ==
    /\ upstreamState # "SoloMining" => asked + Len(tokens) + lost >= 2
    /\ config = "full" => lost = 0

\* No token is used in two declarations: a future template's job is declared
\* when its transactions arrive or when its prevhash does, never both.
TokensUsedOnce == IsInjective(spent)

\* A share goes upstream under the pool's job for the template it was mined on,
\* and only while the tip of both is the present one, however late the job was
\* acknowledged.
SharesMatchJobs ==
    \A i \in DOMAIN sent :
        LET job == custom[sent[i].job]
        IN  job.tmpl = sent[i].tmpl /\ Tip(job.tmpl) = sent[i].tip /\ job.prev = sent[i].tip

\* No share is sent upstream twice, also when a template has several jobs.
SharesSentOnce == \A i, j \in DOMAIN sent : sent[i].share = sent[j].share => i = j

\* An open that waits for the upstream channel is granted or refused, or its
\* miner disconnected, whoever leaves meanwhile and whatever becomes of the other
\* opens, unless the upstream channel cannot be used or the client stops.  The one
\* exception is what the loop forgets when an open before it fails (behind).
OpensAnswered ==
    \A m \in Miners :
        miner[m] = "waiting" ~>
            miner[m] # "waiting" \/ upstreamState = "NoChannel" \/ over # "no" \/ m \in behind

\* Every token that is taken is replaced, but for those that a coinbase-only client
\* loses before it has its upstream channel, and none is used twice.
TokensInv == TypeOK /\ TokensReplaced /\ TokensUsedOnce

\* A share goes upstream once, under the right job of the present tip.
SharesInv == SharesMatchJobs /\ SharesSentOnce
===============================================================================
