---------------------------- MODULE PoolJobsProofs ----------------------------
(***************************************************************************)
(* The work of the pool's miners, for every number of clients, channels,    *)
(* templates and payout identities.                                         *)
(***************************************************************************)
EXTENDS PoolJobs, TLAPS

-----------------------------------------------------------------------------
(* The feed of the template provider. *)

TemplateRecords == [tip : Nat, future : BOOLEAN, val : Values]

FeedTypes ==
    /\ setup \in Setups
    /\ templates \in Seq(TemplateRecords) /\ Len(templates) \in 1..MaxTemplates
    /\ \A i \in 1..Len(templates) : templates[i].tip \in 1..i
    /\ owed \in 0..Len(templates)
    /\ tpQueue \in Seq(TpMessages) /\ \A p \in 1..Len(tpQueue) : tpQueue[p].id <= Len(templates)
    /\ lastFutureTemplate \in 1..Len(templates) /\ templates[lastFutureTemplate].future
    /\ lastNewPrevHash \in 1..Len(templates) /\ templates[lastNewPrevHash].future
    /\ pending \in 0..Len(templates) /\ (pending # 0 => templates[pending].future)
    /\ work \in Suffixes /\ now \in 1..MaxNow /\ due \in 0..(now - 1) /\ halt \in Causes

\* A future template starts a new tip.
TipsGrow ==
    \A i, j \in 1..Len(templates) : i < j =>
        TipOf(i) <= TipOf(j) /\ (templates[j].future => TipOf(i) < TipOf(j))

\* The queue is in the order of publication, a template before its prevhash,
\* and everything in it is new to the channel manager.
QueueInOrder ==
    /\ \A p, q \in 1..Len(tpQueue) : p < q =>
          /\ tpQueue[p].id <= tpQueue[q].id
          /\ tpQueue[p].id = tpQueue[q].id => tpQueue[p].kind = "template" /\ tpQueue[q].kind = "prevhash"
    /\ \A p \in 1..Len(tpQueue) :
          /\ tpQueue[p].id > lastNewPrevHash
          /\ tpQueue[p].kind = "template" => tpQueue[p].id > lastFutureTemplate /\ tpQueue[p].id > pending
          /\ tpQueue[p].kind = "prevhash" => templates[tpQueue[p].id].future
    /\ pending # 0 => pending > lastFutureTemplate /\ pending > lastNewPrevHash
    /\ owed # 0 =>
          /\ owed = Len(templates) /\ templates[owed].future /\ owed > lastNewPrevHash
          /\ \A p \in 1..Len(tpQueue) : tpQueue[p].kind = "prevhash" => tpQueue[p].id < owed

\* The prevhash of tip n is the last one, or is on its way before position p.
Announced(n, p) ==
    \/ TipOf(lastNewPrevHash) = n
    \/ \E q \in 1..Len(tpQueue) : q < p /\ tpQueue[q].kind = "prevhash" /\ TipOf(tpQueue[q].id) = n

\* A template that is not future comes after the prevhash of its tip.
TipsAnnounced ==
    /\ \A p \in 1..Len(tpQueue) :
          tpQueue[p].kind = "template" /\ ~templates[tpQueue[p].id].future =>
              Announced(TipOf(tpQueue[p].id), p)
    /\ owed = 0 => Announced(TipOf(Len(templates)), Len(tpQueue) + 1)

FeedOK == FeedTypes /\ TipsGrow /\ QueueInOrder /\ TipsAnnounced

-----------------------------------------------------------------------------
(* Channels and clients. *)

ChannelRecords ==
    [kind : {"none", "group", "standard", "extended"}, next : Nat, future : SUBSET Jobs,
     active : Jobs, tip : 0..MaxTemplates]
MiningRecords == [job : Jobs, tip : 0..MaxTemplates]

LinkTypes ==
    /\ conn \in [Downstreams -> {"absent", "read", "built", "setup", "open", "gone"}]
    /\ seen \in [Downstreams -> 0..MaxTemplates]
    /\ \A d \in Downstreams : conn[d] = "read" => seen[d] \in 1..lastFutureTemplate
    /\ custom \subseteq Downstreams /\ stdjobs \subseteq Downstreams
    /\ nextId \in [Downstreams -> Nat]
    /\ payoutMode \in [Downstreams -> Payees] /\ payouts \in [Keys -> Payees]
    /\ DOMAIN channels = Keys /\ DOMAIN known = Keys /\ DOMAIN mining = Keys

\* A job with a template pays the identity of channel k, or the operator.
PaysOwner(j, k) == GridPool /\ j.tmpl # 0 => j.out.to \in {payouts[k], Operator}

\* What the pool and the client hold of a channel: future jobs of templates
\* that have come, and no job that pays another identity than the channel's.
ChannelOK(k) ==
    /\ channels[k] \in ChannelRecords /\ mining[k] \in MiningRecords
    /\ \A i \in DOMAIN known[k] : known[k][i] \in Jobs /\ known[k][i].id = i
    /\ \A j \in channels[k].future : j.tmpl \in 1..lastFutureTemplate
    /\ k \notin Opened => known[k] = <<>>
    /\ k \in Opened =>
          /\ k[2] < nextId[k[1]]
          /\ \A j \in channels[k].future : PaysOwner(j, k)
          /\ \A i \in DOMAIN known[k] : PaysOwner(known[k][i], k)
          /\ PaysOwner(channels[k].active, k) /\ PaysOwner(mining[k].job, k)

ChannelsOK == LinkTypes /\ \A k \in Keys : ChannelOK(k)

\* A connection has a group channel from its registration on, and its flags
\* from the setup.
Link(d) ==
    /\ conn[d] \in {"absent", "read", "gone"} => channels[Group(d)] = NoChannel
    /\ conn[d] \in {"built", "setup", "open"} => channels[Group(d)].kind = "group" /\ channels[Group(d)].next >= 2
    /\ conn[d] = "built" => channels[Group(d)].future = {}
    /\ d \in custom \cup stdjobs => conn[d] \in {"open", "gone"}

\* The future jobs wait for their prevhash, one of a template.
Waiting(k) ==
    /\ k[2] # 1 /\ k \notin Opened => channels[k] = NoChannel
    /\ k[1] \notin custom /\ halt = "no" => \A j \in channels[k].future : j.tmpl > lastNewPrevHash
    /\ \A i, j \in channels[k].future : i.tmpl = j.tmpl => i = j

\* Who numbers the jobs of a channel.
OwnIds(k) == GridPool \/ k[1] \in stdjobs \cup custom
Counter(k) == IF OwnIds(k) THEN channels[k].next ELSE channels[Group(k[1])].next

\* An open channel belongs to an open connection that may have its kind, and
\* has made its first job unless the client brings its own work.
Kinds(k) ==
    /\ conn[k[1]] = "open"
    /\ channels[k].kind \in {"standard", "extended"}
    /\ channels[k].kind = "standard" => k[1] \notin custom
    /\ channels[k].kind = "extended" => k[1] \notin stdjobs
    /\ k[1] \notin custom => channels[k].next >= 2

\* What a client finds under the id of job j: the job, or, when it mixes two
\* counters, a custom job of its own.
Named(k, j) == known[k][j.id] = j \/ (Mixed(k) /\ known[k][j.id].tmpl = 0)

\* A client knows the jobs that wait, and only ids that are spent.  A channel
\* numbered by its group waits for what the group waits for.
Informed(k) ==
    /\ k[1] \notin custom => \A j \in channels[k].future :
          j.id \in DOMAIN known[k] /\ Named(k, j) /\ j.id < Counter(k)
    /\ ~OwnIds(k) => channels[k].future = channels[Group(k[1])].future
    /\ Mixed(k) \/ \A i \in DOMAIN known[k] : i < Counter(k)

\* Client and channel agree, on the tip of the active job; the client of a
\* misnamed prevhash has at least been told this job.
Agreed(k) ==
    /\ mining[k].tip = channels[k].tip
    /\ mining[k].job = channels[k].active \/ (Mixed(k) /\ mining[k].job.tmpl = 0)
OnItsTip(k) ==
    channels[k].active.tmpl # 0 /\ channels[k].active.salt = 0 => TipOf(channels[k].active.tmpl) = channels[k].tip
ToldActive(k) ==
    channels[k].active.id \in DOMAIN known[k] /\ known[k][channels[k].active.id] = channels[k].active

Active(k) ==
    /\ IF Misnamed(k) THEN ToldActive(k) ELSE Agreed(k) /\ OnItsTip(k)
    /\ k[1] \in custom /\ channels[k].active.salt = 0 => channels[k].active.tmpl = 0
    /\ k[1] \notin custom /\ halt = "no" => channels[k].tip = TipOf(lastNewPrevHash)
    /\ channels[k].active.tmpl # 0 => channels[k].active.tmpl \in 1..Len(templates)

WorkOK ==
    /\ \A d \in Downstreams : Link(d)
    /\ \A k \in Keys : Waiting(k)
    /\ \A k \in Opened : Kinds(k) /\ Informed(k) /\ Active(k)

-----------------------------------------------------------------------------
(* The feed is kept. *)

\* A step that leaves the feed alone; a waiting template may be dropped.
Aside == UNCHANGED <<setup, tp, last>> /\ pending' \in {pending, 0}

\* What the deployment fixes.
LEMMA SetupFacts ==
    ASSUME setup \in Setups
    PROVE  /\ MaxTemplates \in Nat \ {0} /\ MaxNow \in Nat \ {0}
           /\ Values \subseteq Nat /\ Suffixes \subseteq Nat
  BY SetupAssumption DEF MaxTemplates, MaxNow, Values, Suffixes

\* The sets that depend on the deployment stay the same.
LEMMA SameSets ==
    ASSUME UNCHANGED setup
    PROVE  /\ MaxTemplates' = MaxTemplates /\ MaxNow' = MaxNow /\ Values' = Values /\ Suffixes' = Suffixes
           /\ TemplateRecords' = TemplateRecords /\ TpMessages' = TpMessages /\ GridPool' = GridPool
           /\ JobDeclarator' = JobDeclarator /\ Jobs' = Jobs /\ ChannelRecords' = ChannelRecords
           /\ MiningRecords' = MiningRecords
  BY DEF MaxTemplates, MaxNow, Values, Suffixes, TemplateRecords, TpMessages, GridPool, JobDeclarator, Jobs,
         ChannelRecords, MiningRecords

\* A message of the queue.
LEMMA QueueTypes ==
    ASSUME FeedTypes
    PROVE  /\ Len(tpQueue) \in Nat
           /\ \A p \in 1..Len(tpQueue) :
                 /\ tpQueue[p] \in TpMessages /\ tpQueue[p].id \in 1..Len(templates)
                 /\ tpQueue[p].kind \in {"template", "prevhash"}
<1>1. tpQueue \in Seq(TpMessages) BY DEF FeedTypes
<1>2. Len(tpQueue) \in Nat /\ \A p \in 1..Len(tpQueue) : tpQueue[p] \in TpMessages BY <1>1
<1>3. \A m \in TpMessages : m.id \in Nat \ {0} /\ m.kind \in {"template", "prevhash"} BY DEF TpMessages
<1>4. Len(templates) \in Nat BY DEF FeedTypes
<1> QED BY <1>2, <1>3, <1>4 DEF FeedTypes

\* What is behind the head of the queue.
LEMMA Popped ==
    ASSUME FeedTypes, tpQueue # <<>>
    PROVE  /\ Len(tpQueue) \in Nat \ {0}
           /\ Head(tpQueue) = tpQueue[1] /\ 1 \in 1..Len(tpQueue)
           /\ Tail(tpQueue) \in Seq(TpMessages)
           /\ Len(Tail(tpQueue)) = Len(tpQueue) - 1
           /\ \A p \in 1..(Len(tpQueue) - 1) : Tail(tpQueue)[p] = tpQueue[p + 1] /\ p + 1 \in 1..Len(tpQueue)
  BY DEF FeedTypes

\* Announced after a step.
AnnouncedNext(n, p) ==
    \/ templates'[lastNewPrevHash'].tip = n
    \/ \E q \in 1..Len(tpQueue') : q < p /\ tpQueue'[q].kind = "prevhash" /\ templates'[tpQueue'[q].id].tip = n

LEMMA NextAnnounced ==
    ASSUME NEW L, NEW Q \in Nat, Len(templates') = L, Len(tpQueue') = Q,
           \A p \in 1..Q : tpQueue'[p].kind = "template" /\ ~templates'[tpQueue'[p].id].future =>
              AnnouncedNext(templates'[tpQueue'[p].id].tip, p),
           owed' = 0 => AnnouncedNext(templates'[L].tip, Q + 1)
    PROVE  TipsAnnounced'
  BY DEF TipsAnnounced, Announced, AnnouncedNext, TipOf

\* The feed at the start.
LEMMA FeedInit == ASSUME Init PROVE FeedOK
<1>1. PICK v \in Values : templates = <<[tip |-> 1, future |-> TRUE, val |-> v]>> BY DEF Init
<1>2. setup \in Setups /\ MaxTemplates \in Nat \ {0} /\ MaxNow \in Nat \ {0}
  BY SetupAssumption DEF Init, MaxTemplates, MaxNow
<1>3. templates \in Seq(TemplateRecords) /\ Len(templates) = 1 /\ templates[1].future /\ templates[1].tip = 1
  BY <1>1 DEF TemplateRecords
<1>4. tpQueue \in Seq(TpMessages) /\ Len(tpQueue) = 0
  BY DEF Init
<1>5. FeedTypes BY <1>2, <1>3, <1>4 DEF Init, FeedTypes, Causes
<1>6. TipsGrow /\ QueueInOrder /\ TipsAnnounced
  BY <1>3, <1>4 DEF Init, TipsGrow, QueueInOrder, TipsAnnounced, Announced, TipOf
<1> QED BY <1>5, <1>6 DEF FeedOK

\* Steps that neither publish nor take from the queue.
LEMMA FeedAside ==
    ASSUME FeedOK, Aside, work' \in Suffixes, now' \in 1..MaxNow, due' \in 0..(now' - 1), halt' \in Causes
    PROVE  FeedOK'
<1>1. FeedTypes'
  <2>1. UNCHANGED <<setup, templates, owed, tpQueue, lastFutureTemplate, lastNewPrevHash>> BY DEF Aside, tp, last
  <2>2. pending' \in 0..Len(templates) /\ (pending' # 0 => templates[pending'].future)
    BY DEF Aside, FeedOK, FeedTypes
  <2> QED BY <2>1, <2>2, SameSets DEF FeedOK, FeedTypes
<1>2. (TipsGrow /\ TipsAnnounced)'
  BY DEF FeedOK, TipsGrow, TipsAnnounced, Announced, Aside, tp, last, TipOf
<1>3. QueueInOrder'
  <2>1. UNCHANGED <<setup, templates, owed, tpQueue, lastFutureTemplate, lastNewPrevHash>> BY DEF Aside, tp, last
  <2>2. CASE pending' = pending BY <2>1, <2>2 DEF FeedOK, QueueInOrder
  <2>3. CASE pending' = 0
    <3>1. \A p \in 1..Len(tpQueue) : tpQueue[p].id > 0 BY QueueTypes DEF FeedOK
    <3> QED BY <2>1, <2>3, <3>1 DEF FeedOK, QueueInOrder
  <2> QED BY <2>2, <2>3 DEF Aside
<1> QED BY <1>1, <1>2, <1>3 DEF FeedOK

\* A message is at the end of the queue after it is sent.
LEMMA FeedPublish ==
    ASSUME FeedOK, UNCHANGED setup, NEW f \in BOOLEAN, NEW v \in Values, NEW n \in Nat,
           Publish(f, n, v), n = TipOf(Len(templates)) + (IF f THEN 1 ELSE 0)
    PROVE  FeedOK'
<1> DEFINE L == Len(templates)
           Q == Len(tpQueue)
           R == [tip |-> n, future |-> f, val |-> v]
<1>1. /\ L \in 1..MaxTemplates /\ L < MaxTemplates /\ owed = 0 /\ halt = "no"
      /\ MaxTemplates \in Nat /\ templates \in Seq(TemplateRecords) /\ R \in TemplateRecords
      /\ templates' = Append(templates, R)
  BY SetupAssumption DEF Publish, FeedOK, FeedTypes, MaxTemplates, TemplateRecords
<1>2. /\ templates' \in Seq(TemplateRecords) /\ Len(templates') = L + 1
      /\ templates'[L + 1] = R /\ \A i \in 1..L : templates'[i] = templates[i]
  BY <1>1
<1> DEFINE m == [kind |-> "template", id |-> L + 1]
<1>4. Q \in Nat /\ tpQueue \in Seq(TpMessages) /\ m \in TpMessages /\ tpQueue' = Append(tpQueue, m)
  BY <1>1, QueueTypes DEF Publish, FeedOK, FeedTypes, TpMessages
<1>5. /\ tpQueue' \in Seq(TpMessages) /\ Len(tpQueue') = Q + 1 /\ tpQueue'[Q + 1] = m
      /\ \A p \in 1..Q : tpQueue'[p] = tpQueue[p]
  <2> HIDE DEF m
  <2> QED BY <1>4
<1>6. \A p \in 1..Q : tpQueue[p].id \in 1..L BY QueueTypes DEF FeedOK
<1>7. /\ owed' = (IF f THEN L + 1 ELSE 0)
      /\ UNCHANGED <<last, pending, work, now, due, halt, setup>>
  BY DEF Publish, clock
<1>8. \A i \in 1..L : templates[i].tip \in 1..i BY DEF FeedOK, FeedTypes
<1>9. FeedTypes'
  <2>1. \A i \in 1..(L + 1) : templates'[i].tip \in 1..i
    BY <1>1, <1>2, <1>8 DEF TipOf
  <2>2. \A p \in 1..(Q + 1) : tpQueue'[p].id <= L + 1
    <3>1. \A p \in 1..Q : tpQueue'[p].id <= L + 1 BY <1>1, <1>5, <1>6
    <3> QED BY <1>1, <1>4, <1>5, <3>1
  <2>3. owed' \in 0..(L + 1) BY <1>1, <1>7
  <2>4. /\ lastFutureTemplate' \in 1..(L + 1) /\ templates'[lastFutureTemplate'].future
        /\ lastNewPrevHash' \in 1..(L + 1) /\ templates'[lastNewPrevHash'].future
        /\ pending' \in 0..(L + 1) /\ (pending' # 0 => templates'[pending'].future)
    BY <1>1, <1>2, <1>7 DEF FeedOK, FeedTypes, last
  <2>5. setup' \in Setups /\ work' \in Suffixes /\ now' \in 1..MaxNow /\ due' \in 0..(now' - 1) /\ halt' \in Causes
    BY <1>7 DEF FeedOK, FeedTypes
  <2>6. L + 1 \in 1..MaxTemplates BY <1>1
  <2> QED BY <1>2, <1>5, <2>1, <2>2, <2>3, <2>4, <2>5, <2>6, SameSets DEF FeedTypes
<1>10. TipsGrow'
  BY <1>1, <1>2, <1>8 DEF FeedOK, TipsGrow, TipOf
<1>11. QueueInOrder'
  <2>1. \A p \in 1..Q : tpQueue'[p].id \in 1..L /\ tpQueue'[p] = tpQueue[p]
    BY <1>5, <1>6
  <2>2. lastNewPrevHash \in 1..L /\ lastFutureTemplate \in 1..L /\ pending \in 0..L
    BY DEF FeedOK, FeedTypes
  <2>3. \A p, q \in 1..(Q + 1) : p < q =>
          /\ tpQueue'[p].id <= tpQueue'[q].id
          /\ tpQueue'[p].id = tpQueue'[q].id => tpQueue'[p].kind = "template" /\ tpQueue'[q].kind = "prevhash"
    <3>1. ASSUME NEW p \in 1..(Q + 1), NEW q \in 1..(Q + 1), p < q
          PROVE  /\ tpQueue'[p].id <= tpQueue'[q].id
                 /\ tpQueue'[p].id = tpQueue'[q].id => tpQueue'[p].kind = "template" /\ tpQueue'[q].kind = "prevhash"
      <4>1. p \in 1..Q /\ tpQueue'[p] = tpQueue[p] /\ tpQueue[p].id \in 1..L BY <1>4, <1>5, <1>6, <3>1
      <4>2. CASE q = Q + 1 BY <1>1, <1>5, <4>1, <4>2
      <4>3. CASE q \in 1..Q BY <1>5, <3>1, <4>1, <4>3 DEF FeedOK, QueueInOrder
      <4> QED BY <1>4, <4>2, <4>3
    <3> QED BY <3>1
  <2>4. \A p \in 1..(Q + 1) :
          /\ tpQueue'[p].id > lastNewPrevHash
          /\ tpQueue'[p].kind = "template" => tpQueue'[p].id > lastFutureTemplate /\ tpQueue'[p].id > pending
          /\ tpQueue'[p].kind = "prevhash" => templates'[tpQueue'[p].id].future
    BY <1>1, <1>2, <1>4, <1>5, <2>1, <2>2 DEF FeedOK, QueueInOrder
  <2>5. pending # 0 => pending > lastFutureTemplate /\ pending > lastNewPrevHash
    BY DEF FeedOK, QueueInOrder
  <2>6. owed' # 0 =>
          /\ owed' = L + 1 /\ templates'[owed'].future /\ owed' > lastNewPrevHash
          /\ \A p \in 1..(Q + 1) : tpQueue'[p].kind = "prevhash" => tpQueue'[p].id < owed'
    BY <1>1, <1>2, <1>4, <1>5, <1>7, <2>1, <2>2
  <2> QED BY <1>2, <1>5, <1>7, <2>3, <2>4, <2>5, <2>6 DEF QueueInOrder, last
<1>12. TipsAnnounced'
  <2>1. lastNewPrevHash' = lastNewPrevHash /\ lastNewPrevHash \in 1..L BY <1>7 DEF last, FeedOK, FeedTypes
  <2>2. ASSUME NEW i, NEW p \in 1..(Q + 1), NEW r \in Nat, p <= r, Announced(i, p) PROVE AnnouncedNext(i, r)
    BY <1>2, <1>4, <1>5, <1>6, <2>1, <2>2 DEF Announced, AnnouncedNext, TipOf
  <2>3. ~f => /\ templates'[L + 1].tip = templates[L].tip
              /\ AnnouncedNext(templates[L].tip, Q + 1) /\ AnnouncedNext(templates[L].tip, Q + 2)
    <3>1. Announced(TipOf(L), Q + 1) BY <1>1 DEF FeedOK, TipsAnnounced
    <3>2. ~f => templates'[L + 1].tip = templates[L].tip BY <1>1, <1>2, <1>8 DEF TipOf
    <3>3. Q + 1 \in 1..(Q + 1) /\ Q + 1 \in Nat /\ Q + 2 \in Nat /\ Q + 1 <= Q + 1 /\ Q + 1 <= Q + 2 BY <1>4
    <3>4. AnnouncedNext(TipOf(L), Q + 1) BY <2>2, <3>1, <3>3
    <3>5. AnnouncedNext(TipOf(L), Q + 2) BY <2>2, <3>1, <3>3
    <3> QED BY <3>2, <3>4, <3>5 DEF TipOf
  <2>4. ASSUME NEW p \in 1..(Q + 1), tpQueue'[p].kind = "template", ~templates'[tpQueue'[p].id].future
        PROVE  AnnouncedNext(templates'[tpQueue'[p].id].tip, p)
    <3>1. CASE p = Q + 1
      <4>1. ~f /\ tpQueue'[p].id = L + 1 BY <1>2, <1>5, <2>4, <3>1
      <4> QED BY <2>3, <3>1, <4>1
    <3>2. CASE p \in 1..Q
      <4>1. tpQueue'[p] = tpQueue[p] /\ tpQueue[p].id \in 1..L BY <1>5, <1>6, <3>2
      <4>2. templates'[tpQueue[p].id] = templates[tpQueue[p].id] BY <1>2, <4>1
      <4>3. Announced(templates[tpQueue[p].id].tip, p)
        BY <2>4, <3>2, <4>1, <4>2 DEF FeedOK, TipsAnnounced, TipOf
      <4>4. p \in Nat /\ p <= p BY <1>4
      <4> QED BY <2>2, <4>1, <4>2, <4>3, <4>4
    <3> QED BY <1>4, <3>1, <3>2
  <2>5. owed' = 0 => AnnouncedNext(templates'[L + 1].tip, Q + 2)
    BY <1>1, <1>7, <2>3
  <2>6. L + 1 \in Nat /\ Q + 1 \in Nat /\ (Q + 1) + 1 = Q + 2 BY <1>1, <1>4
  <2> HIDE DEF L, Q, m, R
  <2> QED BY <1>2, <1>5, <2>4, <2>5, <2>6, NextAnnounced
<1> QED BY <1>9, <1>10, <1>11, <1>12 DEF FeedOK

\* The prevhash of a new tip is sent.
LEMMA FeedPrevHash == ASSUME FeedOK, UNCHANGED setup, PublishPrevHash PROVE FeedOK'
<1> DEFINE L == Len(templates)
           Q == Len(tpQueue)
           m == [kind |-> "prevhash", id |-> owed]
<1>1. /\ owed # 0 /\ owed = L /\ templates[owed].future /\ owed > lastNewPrevHash /\ L \in 1..MaxTemplates
      /\ \A p \in 1..Q : tpQueue[p].kind = "prevhash" => tpQueue[p].id < owed
  BY DEF PublishPrevHash, FeedOK, QueueInOrder, FeedTypes
<1>2. m \in TpMessages /\ tpQueue \in Seq(TpMessages) /\ Q \in Nat /\ tpQueue' = Append(tpQueue, m)
  BY <1>1, QueueTypes DEF PublishPrevHash, FeedOK, FeedTypes, TpMessages
<1>3. /\ tpQueue' \in Seq(TpMessages) /\ Len(tpQueue') = Q + 1 /\ tpQueue'[Q + 1] = m
      /\ \A p \in 1..Q : tpQueue'[p] = tpQueue[p]
  <2> HIDE DEF m
  <2> QED BY <1>2
<1>4. \A p \in 1..Q : tpQueue[p].id \in 1..L /\ tpQueue[p].kind \in {"template", "prevhash"}
  BY QueueTypes DEF FeedOK
<1>5. owed' = 0 /\ UNCHANGED <<setup, templates, lastFutureTemplate, lastNewPrevHash, pending, work, now, due, halt>>
  BY DEF PublishPrevHash, clock, last
<1>6. FeedTypes'
  <2>1. \A p \in 1..(Q + 1) : tpQueue'[p].id <= L
    <3>1. \A p \in 1..Q : tpQueue'[p].id <= L BY <1>3, <1>4
    <3> QED BY <1>1, <1>2, <1>3, <3>1
  <2> QED BY <1>1, <1>3, <1>5, <2>1, SameSets DEF FeedOK, FeedTypes
<1>7. TipsGrow' BY <1>5 DEF FeedOK, TipsGrow, TipOf
<1>8. QueueInOrder'
  <2>1. ASSUME NEW p \in 1..(Q + 1), NEW q \in 1..(Q + 1), p < q
        PROVE  /\ tpQueue'[p].id <= tpQueue'[q].id
               /\ tpQueue'[p].id = tpQueue'[q].id => tpQueue'[p].kind = "template" /\ tpQueue'[q].kind = "prevhash"
    <3>1. p \in 1..Q /\ tpQueue'[p] = tpQueue[p] BY <1>2, <1>3, <2>1
    <3>2. CASE q = Q + 1 BY <1>1, <1>3, <1>4, <3>1, <3>2
    <3>3. CASE q \in 1..Q BY <1>3, <2>1, <3>1, <3>3 DEF FeedOK, QueueInOrder
    <3> QED BY <1>2, <3>2, <3>3
  <2>2. \A p \in 1..(Q + 1) :
          /\ tpQueue'[p].id > lastNewPrevHash
          /\ tpQueue'[p].kind = "template" => tpQueue'[p].id > lastFutureTemplate /\ tpQueue'[p].id > pending
          /\ tpQueue'[p].kind = "prevhash" => templates[tpQueue'[p].id].future
    BY <1>1, <1>2, <1>3 DEF FeedOK, QueueInOrder
  <2> QED BY <1>3, <1>5, <2>1, <2>2 DEF FeedOK, QueueInOrder
<1>9. TipsAnnounced'
  <2>1. ASSUME NEW i, NEW p \in 1..(Q + 1), Announced(i, p) PROVE AnnouncedNext(i, p)
    BY <1>2, <1>3, <1>5, <2>1 DEF Announced, AnnouncedNext, TipOf
  <2>2. ASSUME NEW p \in 1..(Q + 1), tpQueue'[p].kind = "template", ~templates'[tpQueue'[p].id].future
        PROVE  AnnouncedNext(templates'[tpQueue'[p].id].tip, p)
    <3>1. p \in 1..Q BY <1>2, <1>3, <2>2
    <3> QED BY <1>3, <1>5, <2>1, <2>2, <3>1 DEF FeedOK, TipsAnnounced, TipOf
  <2>3. AnnouncedNext(templates'[L].tip, (Q + 1) + 1)
    <3>1. Q + 1 \in 1..Len(tpQueue') /\ Q + 1 < (Q + 1) + 1 BY <1>2, <1>3
    <3>2. tpQueue'[Q + 1].kind = "prevhash" /\ tpQueue'[Q + 1].id = L BY <1>1, <1>3
    <3> QED BY <3>1, <3>2 DEF AnnouncedNext
  <2>4. Q + 1 \in Nat BY <1>2
  <2>5. Len(templates') = L BY <1>5
  <2> HIDE DEF L, Q, m
  <2> QED BY <1>3, <2>2, <2>3, <2>4, <2>5, NextAnnounced
<1> QED BY <1>6, <1>7, <1>8, <1>9 DEF FeedOK

\* The head leaves the queue: what is behind it keeps its order and, when the
\* head is a template, what was announced before it.
LEMMA QueuePops ==
    ASSUME FeedOK, tpQueue # <<>>, tpQueue' = Tail(tpQueue), UNCHANGED <<setup, templates>>
    PROVE  /\ tpQueue' \in Seq(TpMessages') /\ \A p \in 1..Len(tpQueue') : tpQueue'[p].id <= Len(templates')
           /\ \A p, q \in 1..Len(tpQueue') : p < q =>
                 /\ tpQueue'[p].id <= tpQueue'[q].id
                 /\ tpQueue'[p].id = tpQueue'[q].id => tpQueue'[p].kind = "template" /\ tpQueue'[q].kind = "prevhash"
           /\ \A p \in 1..Len(tpQueue') :
                 /\ tpQueue'[p] = tpQueue[p + 1] /\ p + 1 \in 1..Len(tpQueue)
                 /\ tpQueue'[p].kind = "template" => tpQueue'[p].id > tpQueue[1].id
                 /\ tpQueue[1].kind = "prevhash" => tpQueue'[p].id > tpQueue[1].id
           /\ Len(tpQueue') \in Nat /\ Len(tpQueue) = Len(tpQueue') + 1
<1>1. /\ Len(tpQueue) \in Nat \ {0} /\ tpQueue' \in Seq(TpMessages) /\ Len(tpQueue') = Len(tpQueue) - 1
      /\ 1 \in 1..Len(tpQueue)
      /\ \A p \in 1..(Len(tpQueue) - 1) : tpQueue'[p] = tpQueue[p + 1] /\ p + 1 \in 1..Len(tpQueue)
  BY Popped DEF FeedOK
<1>2. \A p \in 1..Len(tpQueue) : tpQueue[p].id \in 1..Len(templates) /\ tpQueue[p].kind \in {"template", "prevhash"}
  BY QueueTypes DEF FeedOK
<1>3. \A p, q \in 1..Len(tpQueue) : p < q =>
          /\ tpQueue[p].id <= tpQueue[q].id
          /\ tpQueue[p].id = tpQueue[q].id => tpQueue[p].kind = "template" /\ tpQueue[q].kind = "prevhash"
  BY DEF FeedOK, QueueInOrder
<1>4. Len(templates) \in Nat BY DEF FeedOK, FeedTypes
<1>5. \A p \in 1..Len(tpQueue') : tpQueue'[p].id <= Len(templates') BY <1>1, <1>2, <1>4
<1>6. \A p, q \in 1..Len(tpQueue') : p < q =>
          /\ tpQueue'[p].id <= tpQueue'[q].id
          /\ tpQueue'[p].id = tpQueue'[q].id => tpQueue'[p].kind = "template" /\ tpQueue'[q].kind = "prevhash"
  BY <1>1, <1>3
<1>7. ASSUME NEW p \in 1..Len(tpQueue')
      PROVE  /\ tpQueue'[p].kind = "template" => tpQueue'[p].id > tpQueue[1].id
             /\ tpQueue[1].kind = "prevhash" => tpQueue'[p].id > tpQueue[1].id
  <2>1. tpQueue'[p] = tpQueue[p + 1] /\ p + 1 \in 1..Len(tpQueue) /\ 1 < p + 1 BY <1>1
  <2>2. tpQueue[p + 1].id \in Nat /\ tpQueue[1].id \in Nat BY <1>1, <1>2, <2>1
  <2> QED BY <1>1, <1>3, <2>1, <2>2
<1>8. Len(tpQueue') \in Nat /\ Len(tpQueue) = Len(tpQueue') + 1 BY <1>1
<1> QED BY <1>1, <1>5, <1>6, <1>7, <1>8, SameSets

\* The handler of a template takes it from the queue, and waits or remembers
\* it when it starts a tip.
LEMMA FeedTemplate ==
    ASSUME FeedOK, UNCHANGED <<setup, templates, owed, lastNewPrevHash>>,
           tpQueue # <<>>, pending = 0, Head(tpQueue).kind = "template", tpQueue' = Tail(tpQueue),
           \/ lastFutureTemplate' = lastFutureTemplate /\ pending' = 0
           \/ /\ templates[Head(tpQueue).id].future
              /\ \/ lastFutureTemplate' = Head(tpQueue).id /\ pending' = 0
                 \/ lastFutureTemplate' = lastFutureTemplate /\ pending' = Head(tpQueue).id,
           work' \in Suffixes, now' \in 1..MaxNow, due' \in 0..(now' - 1), halt' \in Causes
    PROVE  FeedOK'
<1> DEFINE t == tpQueue[1].id
<1>1. Head(tpQueue) = tpQueue[1] /\ 1 \in 1..Len(tpQueue) BY Popped DEF FeedOK
<1>2. /\ t \in 1..Len(templates) /\ tpQueue[1].kind = "template"
      /\ t > lastNewPrevHash /\ t > lastFutureTemplate
  BY <1>1, QueueTypes DEF FeedOK, QueueInOrder
<1>3. /\ lastFutureTemplate' \in {lastFutureTemplate, t} /\ pending' \in {0, t}
      /\ lastFutureTemplate' = t \/ pending' = t => templates[t].future
      /\ ~(lastFutureTemplate' = t /\ pending' = t)
  <2>1. lastFutureTemplate \in Nat /\ t # lastFutureTemplate /\ t # 0 BY <1>2 DEF FeedOK, FeedTypes
  <2> QED BY <1>1, <2>1
<1> HIDE DEF t
<1>4. FeedTypes'
  <2>1. /\ lastFutureTemplate' \in 1..Len(templates) /\ templates[lastFutureTemplate'].future
        /\ pending' \in 0..Len(templates) /\ (pending' # 0 => templates[pending'].future)
    BY <1>2, <1>3 DEF FeedOK, FeedTypes
  <2> QED BY <2>1, QueuePops, SameSets DEF FeedOK, FeedTypes
<1>5. TipsGrow' BY DEF FeedOK, TipsGrow, TipOf
<1>6. QueueInOrder'
  <2>1. \A p \in 1..Len(tpQueue') :
          /\ tpQueue'[p].id > lastNewPrevHash
          /\ tpQueue'[p].kind = "template" => tpQueue'[p].id > lastFutureTemplate' /\ tpQueue'[p].id > pending'
          /\ tpQueue'[p].kind = "prevhash" => templates[tpQueue'[p].id].future
    <3>1. ASSUME NEW p \in 1..Len(tpQueue')
          PROVE  /\ tpQueue'[p] = tpQueue[p + 1] /\ p + 1 \in 1..Len(tpQueue)
                 /\ tpQueue'[p].kind = "template" => tpQueue'[p].id > t
                 /\ tpQueue'[p].id \in Nat
      BY QueuePops, QueueTypes DEF t, FeedOK
    <3>2. t \in Nat /\ lastFutureTemplate \in Nat BY <1>2 DEF FeedOK, FeedTypes
    <3> QED BY <1>2, <1>3, <3>1, <3>2 DEF FeedOK, QueueInOrder
  <2>2. pending' # 0 => pending' > lastFutureTemplate' /\ pending' > lastNewPrevHash
    BY <1>2, <1>3
  <2>3. owed # 0 =>
          /\ owed = Len(templates) /\ templates[owed].future /\ owed > lastNewPrevHash
          /\ \A p \in 1..Len(tpQueue') : tpQueue'[p].kind = "prevhash" => tpQueue'[p].id < owed
    BY QueuePops DEF FeedOK, QueueInOrder
  <2>4. \A p, q \in 1..Len(tpQueue') : p < q =>
          /\ tpQueue'[p].id <= tpQueue'[q].id
          /\ tpQueue'[p].id = tpQueue'[q].id => tpQueue'[p].kind = "template" /\ tpQueue'[q].kind = "prevhash"
    BY QueuePops
  <2> QED BY <2>1, <2>2, <2>3, <2>4 DEF QueueInOrder
<1>7. TipsAnnounced'
  <2>1. ASSUME NEW i, NEW p \in 1..(Len(tpQueue') + 1), Announced(i, p + 1) PROVE AnnouncedNext(i, p)
    <3>1. CASE TipOf(lastNewPrevHash) = i BY <3>1 DEF AnnouncedNext, TipOf
    <3>2. CASE \E q \in 1..Len(tpQueue) : q < p + 1 /\ tpQueue[q].kind = "prevhash" /\ TipOf(tpQueue[q].id) = i
      <4>1. PICK q \in 1..Len(tpQueue) : q < p + 1 /\ tpQueue[q].kind = "prevhash" /\ TipOf(tpQueue[q].id) = i
        BY <3>2
      <4>2. q # 1 /\ Len(tpQueue') \in Nat /\ Len(tpQueue) = Len(tpQueue') + 1 BY <1>2, <4>1, QueuePops
      <4>3. q - 1 \in 1..Len(tpQueue') /\ q - 1 < p /\ (q - 1) + 1 = q BY <4>1, <4>2
      <4>4. tpQueue'[q - 1] = tpQueue[q] BY <4>3, QueuePops
      <4> QED BY <4>1, <4>3, <4>4 DEF AnnouncedNext, TipOf
    <3> QED BY <2>1, <3>1, <3>2 DEF Announced
  <2>2. Len(tpQueue') \in Nat /\ Len(tpQueue) = Len(tpQueue') + 1 BY QueuePops
  <2>3. ASSUME NEW p \in 1..Len(tpQueue'), tpQueue'[p].kind = "template", ~templates'[tpQueue'[p].id].future
        PROVE  AnnouncedNext(templates'[tpQueue'[p].id].tip, p)
    <3>1. tpQueue'[p] = tpQueue[p + 1] /\ p + 1 \in 1..Len(tpQueue) BY QueuePops
    <3>2. Announced(TipOf(tpQueue[p + 1].id), p + 1) BY <2>3, <3>1 DEF FeedOK, TipsAnnounced
    <3>3. p \in 1..(Len(tpQueue') + 1) BY <2>2
    <3> QED BY <2>1, <3>1, <3>2, <3>3 DEF TipOf
  <2>4. owed' = 0 => AnnouncedNext(templates'[Len(templates)].tip, Len(tpQueue') + 1)
    <3>1. ASSUME owed' = 0 PROVE Announced(TipOf(Len(templates)), (Len(tpQueue') + 1) + 1)
      BY <2>2, <3>1 DEF FeedOK, TipsAnnounced
    <3>2. Len(tpQueue') + 1 \in 1..(Len(tpQueue') + 1) BY <2>2
    <3> QED BY <2>1, <3>1, <3>2 DEF TipOf
  <2> QED BY <2>2, <2>3, <2>4, NextAnnounced
<1> QED BY <1>4, <1>5, <1>6, <1>7 DEF FeedOK

\* The template the handler waited with is remembered.
LEMMA FeedRefresh ==
    ASSUME FeedOK, UNCHANGED <<setup, tp, lastNewPrevHash>>,
           pending # 0, pending' = 0, lastFutureTemplate' = pending,
           work' \in Suffixes, now' \in 1..MaxNow, due' \in 0..(now' - 1), halt' \in Causes
    PROVE  FeedOK'
<1> USE DEF tp
<1>1. FeedTypes'
  <2>1. pending \in 1..Len(templates) /\ templates[pending].future BY DEF FeedOK, FeedTypes
  <2>2. /\ setup' = setup /\ templates' = templates /\ owed' = owed /\ tpQueue' = tpQueue
        /\ lastNewPrevHash' = lastNewPrevHash
    OBVIOUS
  <2>3. lastFutureTemplate' \in 1..Len(templates) /\ templates[lastFutureTemplate'].future BY <2>1
  <2>4. pending' \in 0..Len(templates) /\ (pending' # 0 => templates[pending'].future)
    <3>1. Len(templates) \in Nat BY DEF FeedOK, FeedTypes
    <3> QED BY <3>1
  <2> QED BY <2>2, <2>3, <2>4, SameSets DEF FeedOK, FeedTypes
<1>2. TipsGrow' /\ TipsAnnounced' BY DEF FeedOK, TipsGrow, TipsAnnounced, Announced, TipOf
<1>3. \A p \in 1..Len(tpQueue) : tpQueue[p].id > 0 BY QueueTypes DEF FeedOK
<1>4. QueueInOrder' BY <1>3 DEF FeedOK, QueueInOrder
<1> QED BY <1>1, <1>2, <1>4 DEF FeedOK

\* The handler of a prevhash.
LEMMA FeedTip ==
    ASSUME FeedOK, UNCHANGED <<setup, templates, owed, lastFutureTemplate, pending, work, now, due>>,
           Receiving("prevhash"), tpQueue' = Tail(tpQueue), lastNewPrevHash' = Head(tpQueue).id, halt' \in Causes
    PROVE  FeedOK'
<1> DEFINE t == tpQueue[1].id
<1>1. /\ Head(tpQueue) = tpQueue[1] /\ 1 \in 1..Len(tpQueue) /\ lastNewPrevHash' = t
      /\ pending = 0 /\ tpQueue # <<>> /\ tpQueue[1].kind = "prevhash"
  BY Popped DEF FeedOK, Receiving
<1>2. t \in 1..Len(templates) /\ t > lastNewPrevHash /\ templates[t].future /\ (owed # 0 => t < owed)
  BY <1>1, QueueTypes DEF FeedOK, QueueInOrder
<1> HIDE DEF t
<1>3. FeedTypes'
  <2>1. lastNewPrevHash' \in 1..Len(templates) /\ templates[lastNewPrevHash'].future BY <1>1, <1>2
  <2> QED BY <1>1, <2>1, QueuePops, SameSets DEF FeedOK, FeedTypes
<1>4. TipsGrow' BY DEF FeedOK, TipsGrow, TipOf
<1>5. QueueInOrder'
  <2>1. \A p \in 1..Len(tpQueue') :
          /\ tpQueue'[p].id > t
          /\ tpQueue'[p].kind = "template" => tpQueue'[p].id > lastFutureTemplate /\ tpQueue'[p].id > pending
          /\ tpQueue'[p].kind = "prevhash" => templates[tpQueue'[p].id].future
    BY <1>1, QueuePops DEF t, FeedOK, QueueInOrder
  <2>2. owed # 0 =>
          /\ owed = Len(templates) /\ templates[owed].future /\ owed > t
          /\ \A p \in 1..Len(tpQueue') : tpQueue'[p].kind = "prevhash" => tpQueue'[p].id < owed
    <3>1. owed \in Nat /\ t \in Nat BY <1>2 DEF FeedOK, FeedTypes
    <3> QED BY <1>1, <1>2, <3>1, QueuePops DEF FeedOK, QueueInOrder
  <2>3. \A p, q \in 1..Len(tpQueue') : p < q =>
          /\ tpQueue'[p].id <= tpQueue'[q].id
          /\ tpQueue'[p].id = tpQueue'[q].id => tpQueue'[p].kind = "template" /\ tpQueue'[q].kind = "prevhash"
    BY <1>1, QueuePops
  <2>4. /\ pending' = 0 /\ pending = 0 /\ lastNewPrevHash' = t /\ owed' = owed /\ templates' = templates
        /\ lastFutureTemplate' = lastFutureTemplate
    BY <1>1
  <2>5. \A p \in 1..Len(tpQueue') :
          /\ tpQueue'[p].id > lastNewPrevHash'
          /\ tpQueue'[p].kind = "template" => tpQueue'[p].id > lastFutureTemplate' /\ tpQueue'[p].id > pending'
          /\ tpQueue'[p].kind = "prevhash" => templates'[tpQueue'[p].id].future
    BY <2>1, <2>4
  <2>6. owed' # 0 =>
          /\ owed' = Len(templates') /\ templates'[owed'].future /\ owed' > lastNewPrevHash'
          /\ \A p \in 1..Len(tpQueue') : tpQueue'[p].kind = "prevhash" => tpQueue'[p].id < owed'
    BY <2>2, <2>4
  <2>7. pending' # 0 => pending' > lastFutureTemplate' /\ pending' > lastNewPrevHash' BY <2>4
  <2> QED BY <2>3, <2>5, <2>6, <2>7 DEF QueueInOrder
<1>6. TipsAnnounced'
  <2>1. Len(tpQueue') \in Nat /\ Len(tpQueue) = Len(tpQueue') + 1 BY <1>1, QueuePops
  <2>2. TipOf(lastNewPrevHash) \in Nat /\ TipOf(t) \in Nat /\ TipOf(lastNewPrevHash) < TipOf(t)
    BY <1>2 DEF FeedOK, FeedTypes, TipsGrow, TipOf
  <2>3. ASSUME NEW u \in 1..Len(templates), t <= u, NEW p \in 1..(Len(tpQueue') + 1), Announced(TipOf(u), p + 1)
        PROVE  AnnouncedNext(TipOf(u), p)
    <3>1. TipOf(u) \in Nat /\ TipOf(t) <= TipOf(u)
      BY <1>2, <2>2, <2>3 DEF FeedOK, FeedTypes, TipsGrow, TipOf
    <3>2. TipOf(lastNewPrevHash) # TipOf(u) BY <2>2, <3>1
    <3>3. PICK q \in 1..Len(tpQueue) : q < p + 1 /\ tpQueue[q].kind = "prevhash" /\ TipOf(tpQueue[q].id) = TipOf(u)
      BY <2>3, <3>2 DEF Announced
    <3>4. CASE q = 1 BY <1>1, <3>3, <3>4 DEF AnnouncedNext, TipOf, t
    <3>5. CASE q # 1
      <4>1. q - 1 \in 1..Len(tpQueue') /\ q - 1 < p /\ (q - 1) + 1 = q BY <2>1, <3>3, <3>5
      <4>2. tpQueue'[q - 1] = tpQueue[q] BY <1>1, <4>1, QueuePops
      <4> QED BY <3>3, <4>1, <4>2 DEF AnnouncedNext, TipOf
    <3> QED BY <3>4, <3>5
  <2>4. ASSUME NEW p \in 1..Len(tpQueue'), tpQueue'[p].kind = "template", ~templates'[tpQueue'[p].id].future
        PROVE  AnnouncedNext(templates'[tpQueue'[p].id].tip, p)
    <3>1. tpQueue'[p] = tpQueue[p + 1] /\ p + 1 \in 1..Len(tpQueue) /\ tpQueue'[p].id > t
      BY <1>1, QueuePops DEF t
    <3>2. tpQueue[p + 1].id \in 1..Len(templates) /\ t <= tpQueue[p + 1].id
      BY <1>2, <3>1, QueueTypes DEF FeedOK
    <3>3. Announced(TipOf(tpQueue[p + 1].id), p + 1) BY <2>4, <3>1 DEF FeedOK, TipsAnnounced
    <3>4. p \in 1..(Len(tpQueue') + 1) BY <2>1
    <3> QED BY <2>3, <3>1, <3>2, <3>3, <3>4 DEF TipOf
  <2>5. owed' = 0 => AnnouncedNext(templates'[Len(templates)].tip, Len(tpQueue') + 1)
    <3>1. ASSUME owed' = 0 PROVE Announced(TipOf(Len(templates)), (Len(tpQueue') + 1) + 1)
      BY <2>1, <3>1 DEF FeedOK, TipsAnnounced
    <3>2. Len(tpQueue') + 1 \in 1..(Len(tpQueue') + 1) BY <2>1
    <3>3. Len(templates) \in 1..Len(templates) /\ t <= Len(templates) BY <1>2
    <3> QED BY <2>3, <3>1, <3>2, <3>3 DEF TipOf
  <2> QED BY <2>1, <2>4, <2>5, NextAnnounced
<1> QED BY <1>3, <1>4, <1>5, <1>6 DEF FeedOK

-----------------------------------------------------------------------------
(* Every step, by what it does to the feed. *)

\* The steps of Next.
LEMMA Steps ==
    ASSUME Next
    PROVE  /\ UNCHANGED setup
           /\ \/ \E v \in Values : PublishTip(v) \/ PublishFees(v)
              \/ PublishPrevHash
              \/ HandleNewTemplate \/ AwaitRefresh \/ HandleSetNewPrevHash
              \/ FailRefresh \/ \E w \in Suffixes : FinishRefresh(w)
              \/ \E d \in Downstreams :
                    \/ ReadTemplate(d) \/ BuildGroup(d) \/ Register(d) \/ Leave(d)
                    \/ \E f \in setup.flags : SetupConnection(d, f[1], f[2])
                    \/ \E a \in Payees :
                          OpenStandard(d, a) \/ OpenExtended(d, a) \/ OpenForCustomWork(d, a) \/ OpenRefused(d, a)
                    \/ OpenUnaffordable(d) \/ HandleOther(d)
              \/ \E k \in Keys : CloseChannel(k) \/ \E v \in Values : SetCustomMiningJob(k, v)
              \/ \E w \in Suffixes : PollWork(w)
              \/ Second
              \/ RefreshFeeJobs
  BY DEF Next, Step, TpStep, RefreshStep

\* The steps of the connections, of the clients and of GridPool.
Beside ==
    \/ FailRefresh
    \/ \E d \in Downstreams :
          \/ ReadTemplate(d) \/ BuildGroup(d) \/ Register(d) \/ Leave(d)
          \/ \E f \in setup.flags : SetupConnection(d, f[1], f[2])
          \/ \E a \in Payees :
                OpenStandard(d, a) \/ OpenExtended(d, a) \/ OpenForCustomWork(d, a) \/ OpenRefused(d, a)
          \/ OpenUnaffordable(d) \/ HandleOther(d)
    \/ \E k \in Keys : CloseChannel(k) \/ \E v \in Values : SetCustomMiningJob(k, v)
    \/ \E w \in Suffixes : PollWork(w)
    \/ Second
    \/ RefreshFeeJobs

\* They leave the feed alone.
LEMMA BesideAside ==
    ASSUME FeedOK, UNCHANGED setup, Beside
    PROVE  /\ Aside
           /\ work' \in Suffixes /\ now' \in 1..MaxNow /\ due' \in 0..(now' - 1) /\ halt' \in Causes
           /\ halt = "no"
<1> USE DEF Aside, tp, last, clock, Serving, DropWaiting
<1>t. work \in Suffixes /\ now \in 1..MaxNow /\ due \in 0..(now - 1) /\ halt \in Causes /\ MaxNow \in Nat
  BY SetupFacts DEF FeedOK, FeedTypes
<1>1. CASE FailRefresh BY <1>1, <1>t DEF FailRefresh, Causes
<1>2. ASSUME NEW d \in Downstreams,
             ReadTemplate(d) \/ Register(d) \/ Leave(d) \/ \E f \in setup.flags : SetupConnection(d, f[1], f[2])
      PROVE  Aside /\ UNCHANGED <<work, now, due, halt>> /\ halt = "no"
  BY <1>2 DEF ReadTemplate, Register, Leave, SetupConnection
<1>3. ASSUME NEW d \in Downstreams, BuildGroup(d)
      PROVE  Aside /\ UNCHANGED <<work, now, due>> /\ halt' \in Causes /\ halt = "no"
  BY <1>3, <1>t DEF BuildGroup, Causes
<1>4. ASSUME NEW d \in Downstreams, NEW a \in Payees, OpenStandard(d, a) \/ OpenExtended(d, a)
      PROVE  Aside /\ UNCHANGED <<work, now, due>> /\ halt' \in Causes /\ halt = "no"
  BY <1>4, <1>t DEF OpenStandard, OpenExtended, Opening, OpenWith, Halt, Causes
<1>5. ASSUME NEW d \in Downstreams, NEW a \in Payees, OpenForCustomWork(d, a) \/ OpenRefused(d, a)
      PROVE  Aside /\ UNCHANGED <<work, now, due, halt>> /\ halt = "no"
  BY <1>5 DEF OpenForCustomWork, OpenRefused, Opening
<1>6. ASSUME NEW d \in Downstreams, OpenUnaffordable(d) \/ HandleOther(d)
      PROVE  Aside /\ UNCHANGED <<work, now, due, halt>> /\ halt = "no"
  BY <1>6 DEF OpenUnaffordable, HandleOther
<1>7. ASSUME NEW k \in Keys, CloseChannel(k) \/ \E v \in Values : SetCustomMiningJob(k, v)
      PROVE  Aside /\ UNCHANGED <<work, now, due, halt>> /\ halt = "no"
  BY <1>7 DEF CloseChannel, SetCustomMiningJob
<1>8. ASSUME NEW w \in Suffixes, PollWork(w)
      PROVE  Aside /\ work' \in Suffixes /\ UNCHANGED <<now, due, halt>> /\ halt = "no"
  BY <1>8 DEF PollWork
<1>9. CASE Second
  <2>1. Aside /\ UNCHANGED <<work, halt>> /\ halt = "no" /\ now < MaxNow /\ now' = now + 1 /\ due' = due + 1
    BY <1>9 DEF Second
  <2>2. now' \in 1..MaxNow /\ due' \in 0..(now' - 1) BY <1>t, <2>1
  <2> QED BY <1>t, <2>1, <2>2
<1>10. CASE RefreshFeeJobs
  <2>1. Aside /\ UNCHANGED <<work, now, halt>> /\ halt = "no" /\ due > 0 /\ due' = due - 1
    BY <1>10 DEF RefreshFeeJobs
  <2>2. due' \in 0..(now' - 1) BY <1>t, <2>1
  <2> QED BY <1>t, <2>1, <2>2
<1> QED BY <1>t, <1>1, <1>2, <1>3, <1>4, <1>5, <1>6, <1>7, <1>8, <1>9, <1>10 DEF Beside

\* The feed stays in order.
LEMMA FeedStep == ASSUME FeedOK, Next PROVE FeedOK'
<1>s. setup' = setup BY DEF Next
<1>t. /\ work \in Suffixes /\ now \in 1..MaxNow /\ due \in 0..(now - 1) /\ halt \in Causes
      /\ Len(templates) \in 1..Len(templates) /\ TipOf(Len(templates)) \in Nat
  BY DEF FeedOK, FeedTypes, TipOf
<1>1. ASSUME NEW v \in Values, PublishTip(v) PROVE FeedOK'
  <2>1. TipOf(Len(templates)) + 1 \in Nat BY <1>t
  <2> QED BY <1>1, <1>s, <2>1, FeedPublish DEF PublishTip
<1>2. ASSUME NEW v \in Values, PublishFees(v) PROVE FeedOK'
  <2>1. TipOf(Len(templates)) + 0 = TipOf(Len(templates)) BY <1>t
  <2> QED BY <1>2, <1>s, <1>t, <2>1, FeedPublish DEF PublishFees
<1>3. CASE PublishPrevHash BY <1>3, <1>s, FeedPrevHash
<1>4. ASSUME NEW t, NEW w, ApplyTemplate(t, w) PROVE halt' \in Causes
  BY <1>4, <1>t DEF ApplyTemplate, Halt, Causes
<1>5. CASE HandleNewTemplate
  <2>1. halt' \in Causes BY <1>5, <1>4 DEF HandleNewTemplate
  <2> QED BY <1>5, <1>s, <1>t, <2>1, FeedTemplate DEF HandleNewTemplate, Receiving, clock
<1>6. CASE AwaitRefresh
  BY <1>6, <1>s, <1>t, FeedTemplate DEF AwaitRefresh, Receiving, clock, last
<1>7. CASE HandleSetNewPrevHash
  <2>1. halt' \in Causes BY <1>7, <1>t DEF HandleSetNewPrevHash, Halt, Causes
  <2> QED BY <1>7, <1>s, <2>1, FeedTip DEF HandleSetNewPrevHash, clock
<1>8. ASSUME NEW w \in Suffixes, FinishRefresh(w) PROVE FeedOK'
  <2>1. halt' \in Causes BY <1>8, <1>4 DEF FinishRefresh
  <2> QED BY <1>8, <1>s, <1>t, <2>1, FeedRefresh DEF FinishRefresh, clock
<1>9. CASE Beside BY <1>9, <1>s, BesideAside, FeedAside
<1> QED BY <1>1, <1>2, <1>3, <1>5, <1>6, <1>7, <1>8, <1>9, Steps DEF Beside

-----------------------------------------------------------------------------
(* Jobs and channels. *)

\* The only job of template t is the one that is found.
LEMMA ChosenJob ==
    ASSUME NEW S, NEW t, NEW job \in S, job.tmpl = t, \A j \in S : j.tmpl = t => j = job
    PROVE  (CHOOSE j \in S : j.tmpl = t) = job
  OBVIOUS

\* A client knows one job more.
LEMMA Learned ==
    ASSUME NEW jobs, NEW j
    PROVE  /\ DOMAIN Learn(jobs, j) = {j.id} \cup DOMAIN jobs /\ Learn(jobs, j)[j.id] = j
           /\ \A i \in DOMAIN jobs : i # j.id => Learn(jobs, j)[i] = jobs[i]
  BY DEF Learn

\* The fields of a job.
LEMMA JobFields ==
    ASSUME NEW i \in Nat, NEW t \in 0..MaxTemplates, NEW o \in Outs, NEW n \in 0..MaxNow
    PROVE  LET j == [id |-> i, tmpl |-> t, out |-> o, salt |-> n]
           IN  j \in Jobs /\ j.id = i /\ j.tmpl = t /\ j.out = o /\ j.salt = n
  BY DEF Jobs

\* What there is before there is anything.
LEMMA EmptyFields ==
    ASSUME setup \in Setups
    PROVE  /\ NoOut \in Outs /\ NoJob \in Jobs /\ NoJob.id = 0 /\ NoJob.tmpl = 0 /\ NoJob.salt = 0
           /\ NoChannel \in ChannelRecords /\ NoChannel.kind = "none" /\ NoChannel.next = 1
           /\ NoChannel.future = {} /\ NoChannel.active = NoJob /\ NoChannel.tip = 0
           /\ Idle \in MiningRecords /\ Idle.job = NoJob /\ Idle.tip = 0
<1>1. MaxTemplates \in Nat /\ MaxNow \in Nat BY SetupFacts
<1>2. NoOut \in Outs BY DEF NoOut, Outs, Payees
<1>3. NoJob \in Jobs /\ NoJob.id = 0 /\ NoJob.tmpl = 0 /\ NoJob.salt = 0 BY <1>1, <1>2, JobFields DEF NoJob
<1>4. /\ NoChannel \in ChannelRecords /\ NoChannel.kind = "none" /\ NoChannel.next = 1
      /\ NoChannel.future = {} /\ NoChannel.active = NoJob /\ NoChannel.tip = 0
  BY <1>1, <1>3 DEF NoChannel, ChannelRecords
<1>5. Idle \in MiningRecords /\ Idle.job = NoJob /\ Idle.tip = 0 BY <1>1, <1>3 DEF Idle, MiningRecords
<1> QED BY <1>2, <1>3, <1>4, <1>5

\* A channel that takes job j.
TakesJob(c, new, j, own, future) ==
    /\ new \in ChannelRecords /\ new.kind = c.kind /\ new.tip = c.tip
    /\ new.next = (IF own THEN c.next + 1 ELSE c.next)
    /\ new.future = (IF future THEN c.future \cup {j} ELSE c.future)
    /\ new.active = (IF future THEN c.active ELSE j)

\* on_new_template and on_group_channel_job
LEMMA NewTemplateEffect ==
    ASSUME NEW c \in ChannelRecords, NEW t, NEW future \in BOOLEAN, NEW out, NEW salt,
           [id |-> c.next, tmpl |-> t, out |-> out, salt |-> salt] \in Jobs
    PROVE  TakesJob(c, OnNewTemplate(c, t, future, out, salt),
                    [id |-> c.next, tmpl |-> t, out |-> out, salt |-> salt], TRUE, future)
<1> DEFINE j == [id |-> c.next, tmpl |-> t, out |-> out, salt |-> salt]
<1>1. OnNewTemplate(c, t, future, out, salt) =
        IF future THEN [c EXCEPT !.next = @ + 1, !.future = @ \cup {j}]
                  ELSE [c EXCEPT !.next = @ + 1, !.active = j]
  BY DEF OnNewTemplate
<1>2. j \in Jobs OBVIOUS
<1> HIDE DEF j
<1>3. TakesJob(c, OnNewTemplate(c, t, future, out, salt), j, TRUE, future)
  <2>n. c.next \in Nat /\ c.next + 1 \in Nat /\ c.future \cup {j} \in SUBSET Jobs BY <1>2 DEF ChannelRecords
  <2> DEFINE n == c.next + 1
             f == c.future \cup {j}
             a == [c EXCEPT !.next = n, !.future = f]
             b == [c EXCEPT !.next = n, !.active = j]
  <2>m. n \in Nat /\ f \in SUBSET Jobs BY <2>n
  <2>o. OnNewTemplate(c, t, future, out, salt) = IF future THEN a ELSE b BY <1>1
  <2>p. n = c.next + 1 /\ f = c.future \cup {j} OBVIOUS
  <2> HIDE DEF n, f
  <2>q. /\ a \in ChannelRecords /\ a.kind = c.kind /\ a.tip = c.tip /\ a.next = n /\ a.future = f /\ a.active = c.active
        /\ b \in ChannelRecords /\ b.kind = c.kind /\ b.tip = c.tip /\ b.next = n /\ b.future = c.future /\ b.active = j
    BY <1>2, <2>m DEF ChannelRecords
  <2> HIDE DEF a, b
  <2>1. CASE future BY <2>o, <2>p, <2>q, <2>1 DEF TakesJob
  <2>2. CASE ~future BY <2>o, <2>p, <2>q, <2>2 DEF TakesJob
  <2> QED BY <2>1, <2>2
<1> QED BY <1>3 DEF j

LEMMA GroupJobEffect ==
    ASSUME NEW c \in ChannelRecords, NEW j \in Jobs, NEW future \in BOOLEAN
    PROVE  TakesJob(c, OnGroupChannelJob(c, j, future), j, FALSE, future)
  BY DEF TakesJob, OnGroupChannelJob, ChannelRecords

\* The coinbases.
LEMMA OutTypes ==
    ASSUME FeedTypes, NEW t \in 1..Len(templates), NEW a \in Payees
    PROVE  /\ SoloOutputs(a, t) \in Outs /\ SoloOutputs(a, t).to = a
           /\ \A w \in Suffixes : Payable(t, w) =>
                 GridPoolOutputs(a, t, w) \in Outs /\ GridPoolOutputs(a, t, w).to \in {a, Operator}
<1>1. templates[t] \in TemplateRecords BY DEF FeedTypes
<1>2. templates[t].val \in Nat /\ Suffixes \subseteq Nat BY <1>1, SetupFacts DEF TemplateRecords, FeedTypes
<1>3. SoloOutputs(a, t) \in Outs /\ SoloOutputs(a, t).to = a BY <1>2 DEF SoloOutputs, Outs
<1>4. ASSUME NEW w \in Suffixes, Payable(t, w)
      PROVE  GridPoolOutputs(a, t, w) \in Outs /\ GridPoolOutputs(a, t, w).to \in {a, Operator}
  <2>1. templates[t].val - w \in Nat /\ w \in Nat BY <1>2, <1>4 DEF Payable
  <2> QED BY <2>1 DEF GridPoolOutputs, Outs
<1> QED BY <1>3, <1>4

-----------------------------------------------------------------------------
(* What the handlers do to one channel. *)

\* Nothing; or its channel and its client are gone.
Same(k) == channels'[k] = channels[k] /\ known'[k] = known[k] /\ mining'[k] = mining[k]
Cleared(k) == channels'[k] = NoChannel /\ known'[k] = <<>> /\ mining'[k] = Idle

\* The client is told of job j.
Told(k, j, future) ==
    /\ known'[k] = Learn(known[k], j)
    /\ mining'[k] = IF future THEN mining[k] ELSE [job |-> j, tip |-> mining[k].tip]

Domains == DOMAIN channels' = Keys /\ DOMAIN known' = Keys /\ DOMAIN mining' = Keys

\* The job that handle_new_template makes of template t for a channel.
GroupJob(d, t) ==
    [id |-> channels[Group(d)].next, tmpl |-> t, out |-> SoloOutputs(payoutMode[d], t), salt |-> 0]
OwnOut(k, t, w) ==
    IF GridPool /\ k[2] # 1 THEN GridPoolOutputs(payouts[k], t, w) ELSE SoloOutputs(payoutMode[k[1]], t)
OwnJob(k, t, w) == [id |-> channels[k].next, tmpl |-> t, out |-> OwnOut(k, t, w), salt |-> 0]
TemplateJob(k, t, w) == IF TakesOwnJob(k) THEN OwnJob(k, t, w) ELSE GroupJob(k[1], t)

\* The keys and their group.
LEMMA KeyFacts ==
    ASSUME NEW k \in Keys
    PROVE  /\ k[1] \in Downstreams /\ k[2] \in Nat /\ Group(k[1]) \in Keys
           /\ Group(k[1])[1] = k[1] /\ Group(k[1])[2] = 1 /\ (k[2] = 1 => k = Group(k[1]))
<1>1. \A i \in {1} \cup ChannelIds : i \in Nat BY SetupAssumption
<1>2. /\ k[1] \in Downstreams /\ k[2] \in {1} \cup ChannelIds /\ k = <<k[1], k[2]>> BY DEF Keys
<1> QED BY <1>1, <1>2 DEF Keys, Group

\* They are jobs, and in GridPool mode they pay the owner of the channel.
LEMMA TemplateJobs ==
    ASSUME FeedOK, ChannelsOK, NEW t \in 1..Len(templates), NEW w \in Suffixes, NEW k \in Keys,
           GridPool /\ k[2] # 1 => Payable(t, w)
    PROVE  /\ GroupJob(k[1], t) \in Jobs /\ GroupJob(k[1], t).tmpl = t
           /\ OwnJob(k, t, w) \in Jobs /\ OwnJob(k, t, w).tmpl = t
           /\ TemplateJob(k, t, w) \in Jobs /\ TemplateJob(k, t, w).tmpl = t /\ TemplateJob(k, t, w).salt = 0
           /\ TemplateJob(k, t, w).id = IF TakesOwnJob(k) THEN channels[k].next ELSE channels[Group(k[1])].next
           /\ k[2] # 1 => PaysOwner(TemplateJob(k, t, w), k)
<1>1. /\ t \in 0..MaxTemplates /\ 0 \in 0..MaxNow /\ FeedTypes
  BY SetupFacts DEF FeedOK, FeedTypes
<1>2. channels[k].next \in Nat /\ channels[Group(k[1])].next \in Nat
  BY KeyFacts DEF ChannelsOK, ChannelOK, ChannelRecords
<1>3. payouts[k] \in Payees /\ payoutMode[k[1]] \in Payees BY KeyFacts DEF ChannelsOK, LinkTypes
<1>4. SoloOutputs(payoutMode[k[1]], t) \in Outs BY <1>1, <1>3, OutTypes
<1>5. /\ OwnOut(k, t, w) \in Outs
      /\ GridPool /\ k[2] # 1 => OwnOut(k, t, w).to \in {payouts[k], Operator}
  BY <1>1, <1>3, <1>4, OutTypes DEF OwnOut
<1>6. /\ GroupJob(k[1], t) \in Jobs /\ GroupJob(k[1], t).tmpl = t /\ GroupJob(k[1], t).salt = 0
      /\ GroupJob(k[1], t).id = channels[Group(k[1])].next
  BY <1>1, <1>2, <1>4, JobFields DEF GroupJob
<1>7. /\ OwnJob(k, t, w) \in Jobs /\ OwnJob(k, t, w).tmpl = t /\ OwnJob(k, t, w).salt = 0
      /\ OwnJob(k, t, w).id = channels[k].next /\ OwnJob(k, t, w).out = OwnOut(k, t, w)
  BY <1>1, <1>2, <1>5, JobFields DEF OwnJob
<1>8. k[2] # 1 => PaysOwner(TemplateJob(k, t, w), k)
  <2>1. GridPool => TemplateJob(k, t, w) = OwnJob(k, t, w) BY DEF TemplateJob, TakesOwnJob
  <2> QED BY <1>5, <1>7, <2>1 DEF PaysOwner
<1> QED BY <1>6, <1>7, <1>8 DEF TemplateJob

\* What handle_new_template does.
TemplateEffect(t, w) ==
    \A k \in Keys :
        LET f == templates[t].future
            j == TemplateJob(k, t, w)
        IN  /\ k \notin Served => channels'[k] = channels[k]
            /\ k \in Served => j \in Jobs /\ TakesJob(channels[k], channels'[k], j, TakesOwnJob(k), f)
            /\ k \in Served \cap Opened => Told(k, j, f) /\ PaysOwner(j, k)
            /\ k \notin Served \cap Opened => known'[k] = known[k] /\ mining'[k] = mining[k]
            /\ j.tmpl = t /\ j.salt = 0
            /\ j.id = IF TakesOwnJob(k) THEN channels[k].next ELSE channels[Group(k[1])].next

LEMMA TemplateApplied ==
    ASSUME FeedOK, ChannelsOK, NEW t \in 1..Len(templates), NEW w \in Suffixes, ApplyTemplate(t, w),
           templates[t].future => t > lastFutureTemplate
    PROVE  \/ halt' = "payout" /\ UNCHANGED <<channels, known, mining>>
           \/ halt' = halt /\ Domains /\ TemplateEffect(t, w)
<1> DEFINE future == templates[t].future
           groupOut(d) == SoloOutputs(payoutMode[d], t)
           group(d) == OnNewTemplate(channels[Group(d)], t, future, groupOut(d), 0)
           out(k) == IF GridPool /\ k[2] # 1 THEN GridPoolOutputs(payouts[k], t, w) ELSE groupOut(k[1])
           after(k) == IF TakesOwnJob(k) THEN OnNewTemplate(channels[k], t, future, out(k), 0)
                       ELSE OnGroupChannelJob(channels[k], JobFrom(group(k[1]), t, future), future)
           sent(k) == JobFrom(IF ToldByGroup(k) THEN group(k[1]) ELSE after(k), t, future)
           told == Served \cap Opened
           job(k) == TemplateJob(k, t, w)
<1>1. CASE GridPool /\ told # {} /\ ~Payable(t, w)
  BY <1>1 DEF ApplyTemplate, Halt, client
<1>2. CASE ~(GridPool /\ told # {} /\ ~Payable(t, w))
  <2>1. /\ channels' = [k \in Keys |-> IF k \in Served THEN after(k) ELSE channels[k]]
        /\ known' = [k \in Keys |-> IF k \in told THEN Learn(known[k], sent(k)) ELSE known[k]]
        /\ mining' = [k \in Keys |-> IF k \in told /\ ~future
                                       THEN [mining[k] EXCEPT !.job = sent(k)] ELSE mining[k]]
        /\ halt' = halt
    BY <1>2 DEF ApplyTemplate
  <2>2. Domains BY <2>1 DEF Domains
  <2>f. future \in BOOLEAN
    <3>1. templates[t] \in TemplateRecords BY DEF FeedOK, FeedTypes
    <3> QED BY <3>1 DEF TemplateRecords
  <2>3. ASSUME NEW k \in Keys, k \in Served
        PROVE  /\ job(k) \in Jobs /\ TakesJob(channels[k], after(k), job(k), TakesOwnJob(k), future)
               /\ k \in Opened => sent(k) = job(k) /\ PaysOwner(job(k), k)
    <3>1. GridPool /\ k[2] # 1 => Payable(t, w)
      <4>1. k[2] # 1 => k \in told BY <2>3 DEF Served, Opened
      <4> QED BY <1>2, <4>1
    <3>2. /\ GroupJob(k[1], t) \in Jobs /\ GroupJob(k[1], t).tmpl = t
          /\ OwnJob(k, t, w) \in Jobs /\ OwnJob(k, t, w).tmpl = t
          /\ job(k) \in Jobs /\ job(k).tmpl = t /\ (k[2] # 1 => PaysOwner(job(k), k))
      BY <3>1, TemplateJobs
    <3>3. /\ channels[k] \in ChannelRecords /\ channels[Group(k[1])] \in ChannelRecords
          /\ future => \A i \in channels[k].future : i.tmpl # t
          /\ future => \A i \in channels[Group(k[1])].future : i.tmpl # t
      <4>1. Group(k[1]) \in Keys BY KeyFacts
      <4>2. lastFutureTemplate \in Nat BY DEF FeedOK, FeedTypes
      <4> QED BY <4>1, <4>2 DEF ChannelsOK, ChannelOK
    <3>4. TakesJob(channels[Group(k[1])], group(k[1]), GroupJob(k[1], t), TRUE, future)
      BY <2>f, <3>2, <3>3, NewTemplateEffect DEF GroupJob
    <3>5. JobFrom(group(k[1]), t, future) = GroupJob(k[1], t)
      <4> HIDE DEF group, future
      <4>1. /\ future => group(k[1]).future = channels[Group(k[1])].future \cup {GroupJob(k[1], t)}
            /\ ~future => group(k[1]).active = GroupJob(k[1], t)
        BY <3>4 DEF TakesJob
      <4>2. future => (CHOOSE i \in group(k[1]).future : i.tmpl = t) = GroupJob(k[1], t)
        BY <3>2, <3>3, <4>1, ChosenJob
      <4> QED BY <4>1, <4>2 DEF JobFrom
    <3>6. TakesJob(channels[k], after(k), job(k), TakesOwnJob(k), future)
      <4>1. CASE TakesOwnJob(k)
        <5>1. out(k) = OwnOut(k, t, w) BY DEF OwnOut
        <5>2. TakesJob(channels[k], OnNewTemplate(channels[k], t, future, OwnOut(k, t, w), 0), OwnJob(k, t, w), TRUE, future)
          BY <2>f, <3>2, <3>3, NewTemplateEffect DEF OwnJob
        <5> HIDE DEF out, group, future
        <5>3. after(k) = OnNewTemplate(channels[k], t, future, OwnOut(k, t, w), 0) BY <4>1, <5>1
        <5>4. job(k) = OwnJob(k, t, w) BY <4>1 DEF TemplateJob
        <5> HIDE DEF after, job
        <5>5. TakesJob(channels[k], after(k), job(k), TRUE, future) BY <5>2, <5>3, <5>4
        <5>6. TakesOwnJob(k) = TRUE BY <4>1 DEF TakesOwnJob
        <5> QED BY <5>5, <5>6
      <4>2. CASE ~TakesOwnJob(k)
        <5> HIDE DEF out, group, future
        <5>1. after(k) = OnGroupChannelJob(channels[k], GroupJob(k[1], t), future) BY <3>5, <4>2
        <5>2. TakesJob(channels[k], OnGroupChannelJob(channels[k], GroupJob(k[1], t), future), GroupJob(k[1], t), FALSE, future)
          BY <2>f, <3>2, <3>3, GroupJobEffect
        <5>3. job(k) = GroupJob(k[1], t) BY <4>2 DEF TemplateJob
        <5> HIDE DEF after, job
        <5>4. TakesJob(channels[k], after(k), job(k), FALSE, future) BY <5>1, <5>2, <5>3
        <5> QED BY <4>2, <5>4 DEF TakesJob
      <4> QED BY <4>1, <4>2
    <3>7. ASSUME k \in Opened PROVE sent(k) = job(k) /\ PaysOwner(job(k), k)
      <4>1. k[2] # 1 BY <3>7 DEF Opened
      <4>2. JobFrom(after(k), t, future) = job(k)
        <5> HIDE DEF after, job, future
        <5>1. /\ future => after(k).future = channels[k].future \cup {job(k)}
              /\ ~future => after(k).active = job(k)
          BY <3>6 DEF TakesJob
        <5>2. future => (CHOOSE i \in after(k).future : i.tmpl = t) = job(k)
          BY <3>2, <3>3, <5>1, ChosenJob
        <5> QED BY <5>1, <5>2 DEF JobFrom
      <4>3. ToldByGroup(k) => job(k) = GroupJob(k[1], t) BY <4>1 DEF ToldByGroup, TemplateJob, TakesOwnJob
      <4> HIDE DEF after, job, future, group
      <4>4. CASE ToldByGroup(k)
        <5>1. sent(k) = JobFrom(group(k[1]), t, future) BY <4>4
        <5> QED BY <3>2, <3>5, <4>1, <4>3, <4>4, <5>1
      <4>5. CASE ~ToldByGroup(k)
        <5>1. sent(k) = JobFrom(after(k), t, future) BY <4>5
        <5> QED BY <3>2, <4>1, <4>2, <5>1
      <4> QED BY <4>4, <4>5
    <3> QED BY <3>2, <3>6, <3>7
  <2>4. ASSUME NEW k \in Keys
        PROVE  /\ job(k).tmpl = t /\ job(k).salt = 0
               /\ job(k).id = IF TakesOwnJob(k) THEN channels[k].next ELSE channels[Group(k[1])].next
    BY DEF TemplateJob, OwnJob, GroupJob
  <2>5. ASSUME NEW k \in Keys, k \in Served \cap Opened PROVE Told(k, job(k), future)
    <3>1. sent(k) = job(k) BY <2>3, <2>5
    <3>2. mining[k] \in MiningRecords BY DEF ChannelsOK, ChannelOK
    <3> HIDE DEF sent, job, future, after
    <3>3. known'[k] = Learn(known[k], job(k)) BY <2>1, <2>5, <3>1
    <3>4. mining'[k] = IF future THEN mining[k] ELSE [mining[k] EXCEPT !.job = job(k)]
      BY <2>1, <2>5, <3>1
    <3>5. [mining[k] EXCEPT !.job = job(k)] = [job |-> job(k), tip |-> mining[k].tip]
      BY <3>2 DEF MiningRecords
    <3> QED BY <3>3, <3>4, <3>5 DEF Told
  <2>6. ASSUME NEW k \in Keys
        PROVE  /\ channels'[k] = IF k \in Served THEN after(k) ELSE channels[k]
               /\ k \notin told => known'[k] = known[k] /\ mining'[k] = mining[k]
    <3> HIDE DEF sent, future, after
    <3> QED BY <2>1
  <2>7. TemplateEffect(t, w)
    <3> SUFFICES ASSUME NEW k \in Keys
                 PROVE  /\ k \notin Served => channels'[k] = channels[k]
                        /\ k \in Served => job(k) \in Jobs /\ TakesJob(channels[k], channels'[k], job(k), TakesOwnJob(k), future)
                        /\ k \in Served \cap Opened => Told(k, job(k), future) /\ PaysOwner(job(k), k)
                        /\ k \notin Served \cap Opened => known'[k] = known[k] /\ mining'[k] = mining[k]
                        /\ job(k).tmpl = t /\ job(k).salt = 0
                        /\ job(k).id = IF TakesOwnJob(k) THEN channels[k].next ELSE channels[Group(k[1])].next
      BY DEF TemplateEffect
    <3> HIDE DEF sent, job, future, after
    <3> QED BY <2>3, <2>4, <2>5, <2>6
  <2> QED BY <2>1, <2>2, <2>7
<1> QED BY <1>1, <1>2

\* on_set_new_prev_hash: the future job of the template becomes the active one.
SwitchesTip(c, new, t) ==
    /\ new \in ChannelRecords /\ new.kind = c.kind /\ new.next = c.next /\ new.tip = TipOf(t)
    /\ Matching(c, t) = {} => new.active = c.active /\ new.future = c.future
    /\ Matching(c, t) # {} => new.active \in Matching(c, t) /\ new.future = {}

\* The tip of a template is one of the model's.
LEMMA TipTypes == ASSUME FeedOK, NEW t \in 1..Len(templates) PROVE TipOf(t) \in 1..MaxTemplates
<1>1. templates[t].tip \in 1..t /\ Len(templates) \in 1..MaxTemplates /\ MaxTemplates \in Nat
  BY SetupFacts DEF FeedOK, FeedTypes
<1> QED BY <1>1 DEF TipOf

LEMMA PrevHashEffect ==
    ASSUME FeedOK, NEW c \in ChannelRecords, NEW t \in 1..Len(templates)
    PROVE  SwitchesTip(c, OnSetNewPrevHash(c, t), t)
<1>1. TipOf(t) \in 0..MaxTemplates BY TipTypes
<1> DEFINE p == TipOf(t)
<1>2. p \in 0..MaxTemplates BY <1>1
<1>3. CASE Matching(c, t) = {}
  <2>1. OnSetNewPrevHash(c, t) = [c EXCEPT !.tip = p] BY <1>3 DEF OnSetNewPrevHash
  <2> HIDE DEF p
  <2>2. [c EXCEPT !.tip = p] \in ChannelRecords BY <1>2 DEF ChannelRecords
  <2>3. /\ [c EXCEPT !.tip = p].kind = c.kind /\ [c EXCEPT !.tip = p].next = c.next /\ [c EXCEPT !.tip = p].tip = p
        /\ [c EXCEPT !.tip = p].active = c.active /\ [c EXCEPT !.tip = p].future = c.future
    BY <1>2 DEF ChannelRecords
  <2> QED BY <1>3, <2>1, <2>2, <2>3 DEF SwitchesTip, p
<1>4. CASE Matching(c, t) # {}
  <2> DEFINE a == CHOOSE j \in Matching(c, t) : TRUE
             n == [c EXCEPT !.active = a, !.future = {}, !.tip = p]
  <2>1. a \in Matching(c, t) BY <1>4
  <2>2. a \in Jobs BY <2>1 DEF Matching, ChannelRecords
  <2>3. OnSetNewPrevHash(c, t) = n BY <1>4 DEF OnSetNewPrevHash
  <2> HIDE DEF a, p
  <2>4. n \in ChannelRecords /\ n.kind = c.kind /\ n.next = c.next /\ n.tip = p /\ n.active = a /\ n.future = {}
    BY <1>2, <2>2 DEF ChannelRecords
  <2> HIDE DEF n
  <2> QED BY <1>4, <2>1, <2>3, <2>4 DEF SwitchesTip, p
<1> QED BY <1>3, <1>4

\* What handle_set_new_prev_hash does for template t: every channel switches,
\* and a client follows to the job whose id it is sent.
SentId(k, id) ==
    /\ k[1] \in stdjobs => id = channels'[k].active.id
    /\ k[1] \notin stdjobs /\ Group(k[1]) \in Served => id = channels'[Group(k[1])].active.id
TipEffect(t) ==
    \A k \in Keys :
        /\ k \notin Served => channels'[k] = channels[k]
        /\ k \in Served => Accepts(channels[k], t) /\ SwitchesTip(channels[k], channels'[k], t)
        /\ known'[k] = known[k]
        /\ k \notin Served \cap Opened => mining'[k] = mining[k]
        /\ k \in Served \cap Opened =>
              \E id : SentId(k, id) /\ mining'[k] = Follow(mining[k], known[k], id, TipOf(t))

LEMMA TipApplied ==
    ASSUME FeedOK, ChannelsOK, HandleSetNewPrevHash
    PROVE  /\ Head(tpQueue).id \in 1..Len(templates) /\ halt = "no" /\ lastNewPrevHash' = Head(tpQueue).id
           /\ \/ halt' = "prevhash" /\ UNCHANGED <<channels, known, mining>>
              \/ halt' = halt /\ Domains /\ TipEffect(Head(tpQueue).id)
<1> DEFINE t == Head(tpQueue).id
           after(k) == OnSetNewPrevHash(channels[k], t)
           id(k) == after(IF k[1] \in stdjobs THEN k ELSE Group(k[1])).active.id
<1>1. t \in 1..Len(templates) /\ halt = "no" /\ lastNewPrevHash' = t
  BY Popped, QueueTypes DEF HandleSetNewPrevHash, Receiving, FeedOK
<1>2. CASE \E k \in Served : ~Accepts(channels[k], t)
  BY <1>1, <1>2 DEF HandleSetNewPrevHash, Halt, client
<1>3. CASE ~ \E k \in Served : ~Accepts(channels[k], t)
  <2>1. /\ channels' = [k \in Keys |-> IF k \in Served THEN after(k) ELSE channels[k]]
        /\ mining' = [k \in Keys |-> IF k \in Served \cap Opened
                        THEN Follow(mining[k], known[k], id(k), TipOf(t)) ELSE mining[k]]
        /\ known' = known /\ halt' = halt
    BY <1>3 DEF HandleSetNewPrevHash
  <2> HIDE DEF t
  <2>2. Domains BY <2>1 DEF Domains, ChannelsOK, LinkTypes
  <2>3. ASSUME NEW k \in Keys PROVE SwitchesTip(channels[k], after(k), t)
    BY <1>1, PrevHashEffect DEF ChannelsOK, ChannelOK
  <2>4. ASSUME NEW k \in Keys PROVE channels'[k] = IF k \in Served THEN after(k) ELSE channels[k]
    <3> HIDE DEF after
    <3> QED BY <2>1
  <2>5. ASSUME NEW k \in Keys, k \in Served \cap Opened
        PROVE  SentId(k, id(k)) /\ mining'[k] = Follow(mining[k], known[k], id(k), TipOf(t))
    <3>1. mining'[k] = Follow(mining[k], known[k], id(k), TipOf(t))
      <4> HIDE DEF id
      <4> QED BY <2>1, <2>5
    <3>2. k[1] \in stdjobs => id(k) = channels'[k].active.id
      <4>1. channels'[k] = after(k) BY <2>4, <2>5
      <4> QED BY <4>1
    <3>3. k[1] \notin stdjobs /\ Group(k[1]) \in Served => id(k) = channels'[Group(k[1])].active.id
      <4>1. Group(k[1]) \in Served => channels'[Group(k[1])] = after(Group(k[1])) BY <2>4, KeyFacts
      <4> HIDE DEF after
      <4> QED BY <4>1
    <3> HIDE DEF id
    <3> QED BY <3>1, <3>2, <3>3 DEF SentId
  <2>6. TipEffect(t)
    <3> HIDE DEF after, id
    <3>1. ASSUME NEW k \in Keys
          PROVE  /\ k \notin Served => channels'[k] = channels[k]
                 /\ k \in Served => Accepts(channels[k], t) /\ SwitchesTip(channels[k], channels'[k], t)
                 /\ known'[k] = known[k]
                 /\ k \notin Served \cap Opened => mining'[k] = mining[k]
      BY <1>3, <2>1, <2>3, <2>4
    <3> QED BY <2>5, <3>1 DEF TipEffect
  <2> QED BY <1>1, <2>1, <2>2, <2>6 DEF t
<1> QED BY <1>2, <1>3, <1>1

\* A channel made from template t, and its state once it is on the last tip.
FirstJob(t, out) == [id |-> 1, tmpl |-> t, out |-> out, salt |-> 0]
FirstMade(kind, t, out) == OnNewTemplate(Fresh(kind), t, TRUE, out, 0)
FirstFrom(c, t) == JobFrom(c, t, TRUE)
OnTip(c, kind, job) ==
    /\ c \in ChannelRecords /\ c.kind = kind /\ c.next = 2 /\ c.future = {} /\ c.active = job
    /\ c.tip = TipOf(lastNewPrevHash)

LEMMA MadeChannel ==
    ASSUME FeedOK, NEW kind \in {"group", "standard", "extended"}, NEW t \in 1..Len(templates), NEW out \in Outs
    PROVE  /\ FirstJob(t, out) \in Jobs /\ FirstJob(t, out).id = 1 /\ FirstJob(t, out).tmpl = t
           /\ FirstJob(t, out).out = out /\ FirstJob(t, out).salt = 0
           /\ FirstFrom(FirstMade(kind, t, out), t) = FirstJob(t, out)
           /\ Accepts(FirstMade(kind, t, out), lastNewPrevHash) =>
                 /\ t = lastNewPrevHash
                 /\ OnTip(OnSetNewPrevHash(FirstMade(kind, t, out), lastNewPrevHash), kind, FirstJob(t, out))
<1> DEFINE made == FirstMade(kind, t, out)
           job == FirstJob(t, out)
           p == lastNewPrevHash
<1>1. t \in 0..MaxTemplates /\ 0 \in 0..MaxNow /\ setup \in Setups /\ p \in 1..Len(templates)
  BY SetupFacts DEF FeedOK, FeedTypes
<1>2. job \in Jobs /\ job.id = 1 /\ job.tmpl = t /\ job.out = out /\ job.salt = 0
  BY <1>1, JobFields DEF FirstJob
<1>3. made \in ChannelRecords /\ made.kind = kind /\ made.next = 2 /\ made.future = {job}
  <2> DEFINE c == Fresh(kind)
  <2>1. c \in ChannelRecords /\ c.kind = kind /\ c.next = 1 /\ c.future = {}
    <3>1. NoChannel \in ChannelRecords /\ NoChannel.next = 1 /\ NoChannel.future = {} BY <1>1, EmptyFields
    <3> QED BY <3>1 DEF Fresh, ChannelRecords
  <2>2. [id |-> c.next, tmpl |-> t, out |-> out, salt |-> 0] = job BY <2>1 DEF FirstJob
  <2>3. OnNewTemplate(c, t, TRUE, out, 0) = [c EXCEPT !.next = c.next + 1, !.future = c.future \cup {job}]
    BY <2>2 DEF OnNewTemplate
  <2>4. c.next + 1 = 2 /\ c.future \cup {job} = {job} /\ {job} \in SUBSET Jobs BY <1>2, <2>1
  <2> DEFINE f == {job}
  <2>5. made = [c EXCEPT !.next = 2, !.future = f] BY <2>3, <2>4 DEF FirstMade
  <2>6. f \in SUBSET Jobs BY <2>4
  <2> HIDE DEF c, f
  <2>7. /\ [c EXCEPT !.next = 2, !.future = f] \in ChannelRecords /\ [c EXCEPT !.next = 2, !.future = f].kind = c.kind
        /\ [c EXCEPT !.next = 2, !.future = f].next = 2 /\ [c EXCEPT !.next = 2, !.future = f].future = f
    BY <2>1, <2>6 DEF ChannelRecords
  <2>8. f = {job} BY DEF f
  <2> HIDE DEF made
  <2> QED BY <2>1, <2>5, <2>7, <2>8
<1> HIDE DEF made, job, p
<1>4. FirstFrom(made, t) = job
  <2>1. (CHOOSE j \in made.future : j.tmpl = t) = job BY <1>2, <1>3, ChosenJob
  <2> QED BY <2>1 DEF JobFrom, FirstFrom
<1>5. ASSUME Accepts(made, p) PROVE t = p /\ OnTip(OnSetNewPrevHash(made, p), kind, job)
  <2>1. Matching(made, p) # {} /\ Matching(made, p) \subseteq {job} BY <1>3, <1>5 DEF Accepts, Matching
  <2>2. t = p BY <1>2, <1>3, <2>1 DEF Matching
  <2>3. SwitchesTip(made, OnSetNewPrevHash(made, p), p) BY <1>1, <1>3, PrevHashEffect
  <2> QED BY <1>3, <2>1, <2>2, <2>3 DEF SwitchesTip, OnTip, p
<1> QED BY <1>2, <1>4, <1>5 DEF made, job, p

\* What an open does that is answered with a job.
OpenedWith(k, kind, job) ==
    /\ OnTip(channels'[k], kind, job) /\ known'[k] = Learn(<<>>, job)
    /\ mining'[k] = [job |-> job, tip |-> TipOf(lastNewPrevHash)]

LEMMA OpenApplied ==
    ASSUME FeedOK, ChannelsOK, NEW k \in Keys, NEW kind \in {"standard", "extended"}, NEW a \in Payees,
           OpenWith(k, kind, a), Affordable, halt = "no"
    PROVE  LET job == FirstJob(lastFutureTemplate, OpenOut(a))
           IN  /\ job \in Jobs /\ job.id = 1 /\ job.tmpl = lastFutureTemplate /\ job.salt = 0
               /\ GridPool => job.out.to \in {a, Operator}
               /\ \/ halt' = "open" /\ UNCHANGED <<channels, known, mining>>
                  \/ /\ halt' = "no" /\ Domains /\ lastFutureTemplate = lastNewPrevHash
                     /\ OpenedWith(k, kind, job)
                     /\ \A i \in Keys : i # k => Same(i)
<1> DEFINE t == lastFutureTemplate
           job == FirstJob(t, OpenOut(a))
           made == FirstMade(kind, t, OpenOut(a))
<1>1. t \in 1..Len(templates) /\ work \in Suffixes /\ FeedTypes BY DEF FeedOK, FeedTypes
<1>2. OpenOut(a) \in Outs /\ (GridPool => OpenOut(a).to \in {a, Operator})
  BY <1>1, OutTypes DEF OpenOut, Affordable
<1>3. /\ job \in Jobs /\ job.id = 1 /\ job.tmpl = t /\ job.out = OpenOut(a) /\ job.salt = 0
      /\ FirstFrom(made, t) = job
      /\ Accepts(made, lastNewPrevHash) =>
           t = lastNewPrevHash /\ OnTip(OnSetNewPrevHash(made, lastNewPrevHash), kind, job)
  <2>1. kind \in {"group", "standard", "extended"} OBVIOUS
  <2> HIDE DEF t
  <2> QED BY <1>1, <1>2, <2>1, MadeChannel
<1> HIDE DEF job
<1>4. CASE ~Accepts(made, lastNewPrevHash)
  <2>1. halt' = "open" /\ UNCHANGED <<channels, known, mining>> BY <1>4 DEF OpenWith, Halt, client, FirstMade
  <2> QED BY <1>2, <1>3, <2>1 DEF job
<1>5. CASE Accepts(made, lastNewPrevHash)
  <2> DEFINE first == FirstFrom(made, t)
             new == OnSetNewPrevHash(made, lastNewPrevHash)
             tip == TipOf(lastNewPrevHash)
             none == <<>>
  <2>1. /\ channels' = [channels EXCEPT ![k] = new]
        /\ known' = [known EXCEPT ![k] = Learn(none, first)]
        /\ mining' = [mining EXCEPT ![k] = Follow(Idle, Learn(none, first), first.id, tip)]
        /\ halt' = "no"
    BY <1>5 DEF OpenWith, FirstMade, FirstFrom
  <2>2. first = job BY <1>3
  <2> HIDE DEF first, new, tip, none
  <2>3. Follow(Idle, Learn(none, job), job.id, tip) = [job |-> job, tip |-> tip]
    <3>1. job.id \in DOMAIN Learn(none, job) BY DEF Learn
    <3>2. Learn(none, job)[job.id] = job BY DEF Learn
    <3> QED BY <3>1, <3>2 DEF Follow
  <2>4. DOMAIN channels = Keys /\ DOMAIN known = Keys /\ DOMAIN mining = Keys BY DEF ChannelsOK, LinkTypes
  <2>5. channels'[k] = new /\ known'[k] = Learn(none, job) /\ mining'[k] = [job |-> job, tip |-> tip]
    BY <2>1, <2>2, <2>3, <2>4
  <2>6. OpenedWith(k, kind, job) BY <1>3, <1>5, <2>5 DEF OpenedWith, new, tip, none
  <2>7. Domains BY <2>1, <2>4 DEF Domains
  <2>8. \A i \in Keys : i # k => Same(i) BY <2>1, <2>4 DEF Same
  <2> QED BY <1>2, <1>3, <1>5, <2>1, <2>6, <2>7, <2>8 DEF job
<1> QED BY <1>4, <1>5

-----------------------------------------------------------------------------
(* Types, and who is paid. *)

\* What a step leaves of the surroundings of channel k.
Around(k) ==
    /\ setup' = setup /\ setup \in Setups /\ payouts'[k] = payouts[k]
    /\ lastFutureTemplate \in Nat /\ lastFutureTemplate' \in Nat /\ lastFutureTemplate <= lastFutureTemplate'
    /\ nextId[k[1]] \in Nat /\ nextId'[k[1]] \in Nat /\ nextId[k[1]] <= nextId'[k[1]]

\* ChannelOK after a step, spelled out.
LEMMA NextChannelOK ==
    ASSUME NEW k \in Keys, setup' = setup,
           channels'[k] \in ChannelRecords, mining'[k] \in MiningRecords,
           \A i \in DOMAIN known'[k] : known'[k][i] \in Jobs /\ known'[k][i].id = i,
           \A j \in channels'[k].future : j.tmpl \in 1..lastFutureTemplate',
           k[2] = 1 \/ channels'[k].kind = "none" => known'[k] = <<>>,
           k[2] # 1 /\ channels'[k].kind # "none" =>
              /\ k[2] < nextId'[k[1]]
              /\ \A j \in channels'[k].future : GridPool /\ j.tmpl # 0 => j.out.to \in {payouts'[k], Operator}
              /\ \A i \in DOMAIN known'[k] :
                    GridPool /\ known'[k][i].tmpl # 0 => known'[k][i].out.to \in {payouts'[k], Operator}
              /\ GridPool /\ channels'[k].active.tmpl # 0 => channels'[k].active.out.to \in {payouts'[k], Operator}
              /\ GridPool /\ mining'[k].job.tmpl # 0 => mining'[k].job.out.to \in {payouts'[k], Operator}
    PROVE  ChannelOK(k)'
  BY SameSets DEF ChannelOK, Opened, PaysOwner

LEMMA KeySame == ASSUME NEW k \in Keys, ChannelOK(k), Around(k), Same(k) PROVE ChannelOK(k)'
<1>1. /\ channels'[k] \in ChannelRecords /\ mining'[k] \in MiningRecords
      /\ \A i \in DOMAIN known'[k] : known'[k][i] \in Jobs /\ known'[k][i].id = i
  BY DEF ChannelOK, Same
<1>2. \A j \in channels'[k].future : j.tmpl \in 1..lastFutureTemplate' BY DEF ChannelOK, Same, Around
<1>3. k[2] \in Nat /\ (k[2] = 1 \/ channels'[k].kind = "none" => known'[k] = <<>>)
  BY KeyFacts DEF ChannelOK, Same, Opened
<1>4. k[2] # 1 /\ channels'[k].kind # "none" =>
              /\ k[2] < nextId'[k[1]]
              /\ \A j \in channels'[k].future : GridPool /\ j.tmpl # 0 => j.out.to \in {payouts'[k], Operator}
              /\ \A i \in DOMAIN known'[k] :
                    GridPool /\ known'[k][i].tmpl # 0 => known'[k][i].out.to \in {payouts'[k], Operator}
              /\ GridPool /\ channels'[k].active.tmpl # 0 => channels'[k].active.out.to \in {payouts'[k], Operator}
              /\ GridPool /\ mining'[k].job.tmpl # 0 => mining'[k].job.out.to \in {payouts'[k], Operator}
  BY <1>3 DEF ChannelOK, Same, Around, Opened, PaysOwner
<1> QED BY <1>1, <1>2, <1>3, <1>4, NextChannelOK DEF Around

LEMMA KeyCleared == ASSUME NEW k \in Keys, setup' = setup, setup \in Setups, Cleared(k) PROVE ChannelOK(k)'
  BY EmptyFields, NextChannelOK DEF Cleared

\* A job is taken; the client, if there is one, is told of it.
LEMMA KeyTakes ==
    ASSUME NEW k \in Keys, ChannelOK(k), Around(k), NEW j \in Jobs, NEW own, NEW future \in BOOLEAN,
           TakesJob(channels[k], channels'[k], j, own, future),
           future => j.tmpl \in 1..lastFutureTemplate',
           k \in Opened => Told(k, j, future) /\ PaysOwner(j, k),
           k \notin Opened => known'[k] = known[k] /\ mining'[k] = mining[k]
    PROVE  ChannelOK(k)'
<1>1. channels'[k] \in ChannelRecords BY DEF TakesJob
<1>2. mining'[k] \in MiningRecords
  <2>1. mining[k] \in MiningRecords BY DEF ChannelOK
  <2>2. [job |-> j, tip |-> mining[k].tip] \in MiningRecords BY <2>1 DEF MiningRecords
  <2> QED BY <2>1, <2>2 DEF Told
<1>3. \A i \in DOMAIN known'[k] : known'[k][i] \in Jobs /\ known'[k][i].id = i
  BY DEF ChannelOK, Told, Learn
<1>4. \A i \in channels'[k].future : i.tmpl \in 1..lastFutureTemplate'
  BY DEF TakesJob, ChannelOK, Around
<1>6. k[2] = 1 \/ channels'[k].kind = "none" => known'[k] = <<>> BY DEF TakesJob, ChannelOK, Opened
<1>5. ASSUME k[2] # 1 /\ channels'[k].kind # "none"
      PROVE   /\ k[2] < nextId'[k[1]]
              /\ \A i \in channels'[k].future : GridPool /\ i.tmpl # 0 => i.out.to \in {payouts'[k], Operator}
              /\ \A i \in DOMAIN known'[k] :
                    GridPool /\ known'[k][i].tmpl # 0 => known'[k][i].out.to \in {payouts'[k], Operator}
              /\ GridPool /\ channels'[k].active.tmpl # 0 => channels'[k].active.out.to \in {payouts'[k], Operator}
              /\ GridPool /\ mining'[k].job.tmpl # 0 => mining'[k].job.out.to \in {payouts'[k], Operator}
  <2>1. k \in Opened BY <1>5 DEF TakesJob, Opened
  <2>2. payouts'[k] = payouts[k] BY DEF Around
  <2>3. GridPool /\ j.tmpl # 0 => j.out.to \in {payouts'[k], Operator} BY <2>1, <2>2 DEF PaysOwner
  <2>4. k[2] < nextId'[k[1]] BY <2>1, KeyFacts DEF ChannelOK, Around
  <2>5. \A i \in channels'[k].future : GridPool /\ i.tmpl # 0 => i.out.to \in {payouts'[k], Operator}
    BY <2>1, <2>2, <2>3 DEF ChannelOK, TakesJob, PaysOwner
  <2>6. \A i \in DOMAIN known'[k] :
           GridPool /\ known'[k][i].tmpl # 0 => known'[k][i].out.to \in {payouts'[k], Operator}
    BY <2>1, <2>2, <2>3 DEF ChannelOK, Told, Learn, PaysOwner
  <2>7. GridPool /\ channels'[k].active.tmpl # 0 => channels'[k].active.out.to \in {payouts'[k], Operator}
    BY <2>1, <2>2, <2>3 DEF ChannelOK, TakesJob, PaysOwner
  <2>8. GridPool /\ mining'[k].job.tmpl # 0 => mining'[k].job.out.to \in {payouts'[k], Operator}
    BY <2>1, <2>2, <2>3 DEF ChannelOK, Told, PaysOwner
  <2> QED BY <2>4, <2>5, <2>6, <2>7, <2>8
<1> QED BY <1>1, <1>2, <1>3, <1>4, <1>5, <1>6, NextChannelOK DEF Around

\* A channel switches to a tip.
LEMMA KeySwitches ==
    ASSUME NEW k \in Keys, ChannelOK(k), Around(k), FeedOK, NEW t \in 1..Len(templates),
           SwitchesTip(channels[k], channels'[k], t), known'[k] = known[k],
           mining'[k] = mining[k] \/ \E id : mining'[k] = Follow(mining[k], known[k], id, TipOf(t))
    PROVE  ChannelOK(k)'
<1>1. /\ channels'[k] \in ChannelRecords /\ channels'[k].kind = channels[k].kind
      /\ channels'[k].active = channels[k].active \/ channels'[k].active \in channels[k].future
      /\ channels'[k].future \subseteq channels[k].future
  BY DEF SwitchesTip, Matching
<1>2. /\ mining'[k].job = mining[k].job \/ \E i \in DOMAIN known[k] : mining'[k].job = known[k][i]
      /\ mining'[k] \in MiningRecords
  <2>1. TipOf(t) \in 0..MaxTemplates /\ mining[k] \in MiningRecords BY TipTypes DEF ChannelOK
  <2>2. CASE mining'[k] = mining[k] BY <2>1, <2>2
  <2>3. ASSUME NEW id, mining'[k] = Follow(mining[k], known[k], id, TipOf(t))
        PROVE  /\ mining'[k].job = mining[k].job \/ \E i \in DOMAIN known[k] : mining'[k].job = known[k][i]
               /\ mining'[k] \in MiningRecords
    <3>1. CASE id \in DOMAIN known[k]
      <4>1. mining'[k] = [job |-> known[k][id], tip |-> TipOf(t)] /\ known[k][id] \in Jobs
        BY <2>3, <3>1 DEF Follow, ChannelOK
      <4> QED BY <2>1, <3>1, <4>1 DEF MiningRecords
    <3>2. CASE id \notin DOMAIN known[k] BY <2>1, <2>3, <3>2 DEF Follow
    <3> QED BY <3>1, <3>2
  <2> QED BY <2>2, <2>3
<1>3. \A i \in DOMAIN known'[k] : known'[k][i] \in Jobs /\ known'[k][i].id = i BY DEF ChannelOK
<1>4. \A i \in channels'[k].future : i.tmpl \in 1..lastFutureTemplate' BY <1>1 DEF ChannelOK, Around
<1>6. k[2] = 1 \/ channels'[k].kind = "none" => known'[k] = <<>> BY <1>1 DEF ChannelOK, Opened
<1>5. ASSUME k[2] # 1 /\ channels'[k].kind # "none"
      PROVE   /\ k[2] < nextId'[k[1]]
              /\ \A i \in channels'[k].future : GridPool /\ i.tmpl # 0 => i.out.to \in {payouts'[k], Operator}
              /\ \A i \in DOMAIN known'[k] :
                    GridPool /\ known'[k][i].tmpl # 0 => known'[k][i].out.to \in {payouts'[k], Operator}
              /\ GridPool /\ channels'[k].active.tmpl # 0 => channels'[k].active.out.to \in {payouts'[k], Operator}
              /\ GridPool /\ mining'[k].job.tmpl # 0 => mining'[k].job.out.to \in {payouts'[k], Operator}
  <2>1. k \in Opened BY <1>1, <1>5 DEF Opened
  <2>2. payouts'[k] = payouts[k] BY DEF Around
  <2>3. k[2] < nextId'[k[1]] BY <2>1, KeyFacts DEF ChannelOK, Around
  <2>4. /\ \A i \in channels[k].future : PaysOwner(i, k)
        /\ \A i \in DOMAIN known[k] : PaysOwner(known[k][i], k)
        /\ PaysOwner(channels[k].active, k) /\ PaysOwner(mining[k].job, k)
    BY <2>1 DEF ChannelOK
  <2>5. PaysOwner(channels'[k].active, k) BY <1>1, <2>4
  <2>6. PaysOwner(mining'[k].job, k) BY <1>2, <2>4
  <2> QED BY <1>1, <2>2, <2>3, <2>4, <2>5, <2>6 DEF PaysOwner
<1> QED BY <1>1, <1>2, <1>3, <1>4, <1>5, <1>6, NextChannelOK DEF Around

\* A channel is opened with a job for identity a.
LEMMA KeyOpens ==
    ASSUME NEW k \in Keys, k[2] # 1, setup' = setup, FeedOK, NEW a, NEW kind \in {"standard", "extended"},
           NEW job \in Jobs, OpenedWith(k, kind, job),
           job.id = 1, GridPool => job.out.to \in {a, Operator}, payouts'[k] = a, k[2] < nextId'[k[1]]
    PROVE  ChannelOK(k)'
<1>1. /\ channels'[k] \in ChannelRecords /\ channels'[k].active = job /\ channels'[k].future = {}
      /\ channels'[k].kind # "none"
      /\ known'[k] = Learn(<<>>, job) /\ mining'[k] = [job |-> job, tip |-> TipOf(lastNewPrevHash)]
  BY DEF OpenedWith, OnTip
<1>2. DOMAIN known'[k] = {1} /\ known'[k][1] = job BY <1>1 DEF Learn
<1>3. TipOf(lastNewPrevHash) \in 0..MaxTemplates BY TipTypes DEF FeedOK, FeedTypes
<1>4. mining'[k] \in MiningRecords /\ mining'[k].job = job BY <1>1, <1>3 DEF MiningRecords
<1> HIDE DEF Learn
<1> QED BY <1>1, <1>2, <1>4, NextChannelOK

\* remove_downstream empties the channels of the connection.
LEMMA RemoveApplied ==
    ASSUME NEW d \in Downstreams, Remove(d), setup \in Setups
    PROVE  Domains /\ \A k \in Keys : IF k[1] = d THEN Cleared(k) ELSE Same(k)
  BY DEF Remove, Domains, Cleared, Same

\* handle_close_channel
LEMMA CloseApplied ==
    ASSUME ChannelsOK, NEW k \in Keys, CloseChannel(k)
    PROVE  Domains /\ \A i \in Keys : IF i = k THEN Cleared(i) ELSE Same(i)
  BY DEF CloseChannel, Domains, Cleared, Same, ChannelsOK, LinkTypes

\* bootstrap_group_channel
LEMMA BuildApplied ==
    ASSUME FeedOK, ChannelsOK, NEW d \in Downstreams, BuildGroup(d)
    PROVE  LET job == FirstJob(seen[d], SoloOutputs(Pool, seen[d]))
           IN  /\ halt = "no" /\ UNCHANGED <<known, mining>> /\ job \in Jobs
               /\ \/ /\ halt' = "bootstrap" /\ conn' = [conn EXCEPT ![d] = "gone"] /\ UNCHANGED channels
                  \/ /\ halt' = "no" /\ conn' = [conn EXCEPT ![d] = "built"] /\ DOMAIN channels' = Keys
                     /\ OnTip(channels'[Group(d)], "group", job)
                     /\ \A k \in Keys : k # Group(d) => channels'[k] = channels[k]
<1> DEFINE job == FirstJob(seen[d], SoloOutputs(Pool, seen[d]))
           made == FirstMade("group", seen[d], SoloOutputs(Pool, seen[d]))
           new == OnSetNewPrevHash(made, lastNewPrevHash)
<1>1. conn[d] = "read" /\ halt = "no" /\ UNCHANGED <<known, mining>> BY DEF BuildGroup, client
<1>2. seen[d] \in 1..Len(templates)
  <2>1. seen[d] \in 1..lastFutureTemplate BY <1>1 DEF ChannelsOK, LinkTypes
  <2>2. lastFutureTemplate \in 1..Len(templates) BY DEF FeedOK, FeedTypes
  <2> QED BY <2>1, <2>2
<1>3. SoloOutputs(Pool, seen[d]) \in Outs BY <1>2, OutTypes DEF FeedOK, Payees
<1>4. job \in Jobs /\ (Accepts(made, lastNewPrevHash) => OnTip(new, "group", job)) BY <1>2, <1>3, MadeChannel
<1>5. CASE ~Accepts(made, lastNewPrevHash)
  <2>1. halt' = "bootstrap" /\ conn' = [conn EXCEPT ![d] = "gone"] /\ UNCHANGED channels
    BY <1>5 DEF BuildGroup, FirstMade
  <2> QED BY <1>1, <1>4, <2>1
<1>6. CASE Accepts(made, lastNewPrevHash)
  <2>1. halt' = halt /\ conn' = [conn EXCEPT ![d] = "built"] /\ channels' = [channels EXCEPT ![Group(d)] = new]
    BY <1>6 DEF BuildGroup, FirstMade
  <2>2. DOMAIN channels = Keys /\ Group(d) \in Keys BY DEF ChannelsOK, LinkTypes, Keys, Group
  <2> HIDE DEF new, job, made
  <2>3. DOMAIN channels' = Keys /\ channels'[Group(d)] = new /\ \A k \in Keys : k # Group(d) => channels'[k] = channels[k]
    BY <2>1, <2>2
  <2>4. OnTip(channels'[Group(d)], "group", job) BY <1>4, <1>6, <2>3
  <2> QED BY <1>1, <1>4, <2>1, <2>3, <2>4 DEF job
<1> QED BY <1>5, <1>6

\* An open for custom work makes no job.
CustomOpened(k) ==
    /\ channels'[k] \in ChannelRecords /\ channels'[k].kind = "extended" /\ channels'[k].next = 1
    /\ channels'[k].future = {} /\ channels'[k].active = NoJob /\ channels'[k].tip = TipOf(lastNewPrevHash)
    /\ known'[k] = known[k] /\ mining'[k] = [job |-> NoJob, tip |-> TipOf(lastNewPrevHash)]

LEMMA CustomOpenApplied ==
    ASSUME FeedOK, ChannelsOK, NEW d \in Downstreams, NEW a \in Payees, OpenForCustomWork(d, a), <<d, nextId[d]>> \in Keys
    PROVE  Domains /\ \A k \in Keys : IF k = <<d, nextId[d]>> THEN CustomOpened(k) ELSE Same(k)
<1> DEFINE k == <<d, nextId[d]>>
           c == Fresh("extended")
           new == OnSetNewPrevHash(c, lastNewPrevHash)
           told == [job |-> NoJob, tip |-> TipOf(lastNewPrevHash)]
<1>1. /\ channels' = [channels EXCEPT ![k] = new] /\ mining' = [mining EXCEPT ![k] = told] /\ known' = known
  BY DEF OpenForCustomWork
<1>2. setup \in Setups /\ lastNewPrevHash \in 1..Len(templates) BY DEF FeedOK, FeedTypes
<1>3. c \in ChannelRecords /\ c.kind = "extended" /\ c.next = 1 /\ c.future = {} /\ c.active = NoJob
  <2>1. NoChannel \in ChannelRecords /\ NoChannel.next = 1 /\ NoChannel.future = {} /\ NoChannel.active = NoJob
    BY <1>2, EmptyFields
  <2> QED BY <2>1 DEF Fresh, ChannelRecords
<1> HIDE DEF c
<1>4. SwitchesTip(c, new, lastNewPrevHash) BY <1>2, <1>3, PrevHashEffect
<1> HIDE DEF new
<1>5. /\ new \in ChannelRecords /\ new.kind = "extended" /\ new.next = 1 /\ new.future = {} /\ new.active = NoJob
      /\ new.tip = TipOf(lastNewPrevHash)
  <2>1. Matching(c, lastNewPrevHash) = {} BY <1>3 DEF Matching
  <2> QED BY <1>3, <1>4, <2>1 DEF SwitchesTip
<1>6. DOMAIN channels = Keys /\ DOMAIN known = Keys /\ DOMAIN mining = Keys BY DEF ChannelsOK, LinkTypes
<1>7. k \in Keys OBVIOUS
<1> HIDE DEF told, k
<1>8. Domains BY <1>1, <1>6 DEF Domains
<1>9. \A i \in Keys : i # k => Same(i) BY <1>1, <1>6 DEF Same
<1>10. CustomOpened(k) BY <1>1, <1>5, <1>6, <1>7 DEF CustomOpened, told
<1> QED BY <1>8, <1>9, <1>10 DEF k

\* A job that is mined at once, made with the channel's own id.
TakesNow(k, j) ==
    /\ channels'[k] \in ChannelRecords /\ channels'[k].kind = channels[k].kind /\ channels'[k].tip = channels[k].tip
    /\ channels'[k].next = channels[k].next + 1 /\ channels'[k].future = channels[k].future
    /\ channels'[k].active = j
    /\ known'[k] = Learn(known[k], j) /\ mining'[k] = [job |-> j, tip |-> mining[k].tip]

LEMMA KeyTakesNow ==
    ASSUME NEW k \in Opened, ChannelOK(k), Around(k), NEW j \in Jobs, TakesNow(k, j), PaysOwner(j, k)
    PROVE  ChannelOK(k)'
<1> DEFINE yes == TRUE
           no == FALSE
<1>1. k \in Keys /\ no \in BOOLEAN BY DEF Opened
<1>2. TakesJob(channels[k], channels'[k], j, yes, no) BY DEF TakesJob, TakesNow
<1>3. Told(k, j, no) BY DEF Told, TakesNow
<1>4. ~no OBVIOUS
<1> HIDE DEF yes, no
<1> QED BY <1>1, <1>2, <1>3, <1>4, KeyTakes

\* handle_set_custom_mining_job
LEMMA CustomJobApplied ==
    ASSUME FeedOK, ChannelsOK, NEW k \in Keys, NEW v \in Values, SetCustomMiningJob(k, v)
    PROVE  /\ Domains /\ k \in Opened
           /\ \A i \in Keys : i # k => Same(i)
           /\ \E j \in Jobs : j.id = channels[k].next /\ j.tmpl = 0 /\ TakesNow(k, j)
<1> DEFINE job == [NoJob EXCEPT !.id = channels[k].next, !.out.own = v]
<1>1. k \in Opened /\ setup \in Setups /\ v \in Nat
  BY SetupFacts DEF SetCustomMiningJob, FeedOK, FeedTypes
<1>2. channels[k] \in ChannelRecords /\ mining[k] \in MiningRecords /\ channels[k].next \in Nat
  BY DEF ChannelsOK, ChannelOK, ChannelRecords
<1>3. NoJob \in Jobs /\ NoJob.tmpl = 0 /\ NoOut \in Outs /\ NoJob.out = NoOut
  BY <1>1, EmptyFields DEF NoJob
<1>4. job \in Jobs /\ job.id = channels[k].next /\ job.tmpl = 0
  <2> DEFINE o == [NoOut EXCEPT !.own = v]
             i == channels[k].next
  <2>1. o \in Outs BY <1>1, <1>3 DEF Outs
  <2>2. job = [NoJob EXCEPT !.id = i, !.out = [NoJob.out EXCEPT !.own = v]] OBVIOUS
  <2>3. job = [NoJob EXCEPT !.id = i, !.out = o] BY <1>3, <2>2
  <2>4. i \in Nat BY <1>2
  <2> HIDE DEF o, i, job
  <2>5. /\ [NoJob EXCEPT !.id = i, !.out = o] \in Jobs /\ [NoJob EXCEPT !.id = i, !.out = o].id = i
        /\ [NoJob EXCEPT !.id = i, !.out = o].tmpl = NoJob.tmpl
    BY <1>3, <2>1, <2>4 DEF Jobs
  <2> QED BY <1>3, <2>3, <2>5 DEF i
<1>5. /\ channels' = [channels EXCEPT ![k].active = job, ![k].next = @ + 1]
      /\ known' = [known EXCEPT ![k] = Learn(known[k], job)]
      /\ mining' = [mining EXCEPT ![k].job = job]
  BY DEF SetCustomMiningJob
<1> HIDE DEF job
<1>6. DOMAIN channels = Keys /\ DOMAIN known = Keys /\ DOMAIN mining = Keys BY DEF ChannelsOK, LinkTypes
<1>7. Domains BY <1>5, <1>6 DEF Domains
<1>8. \A i \in Keys : i # k => Same(i) BY <1>5, <1>6 DEF Same
<1>9. TakesNow(k, job)
  <2> DEFINE c == channels[k]
             n == channels[k].next + 1
  <2>1. channels'[k] = [c EXCEPT !.active = job, !.next = n] BY <1>5, <1>6
  <2>2. n \in Nat BY <1>2
  <2>3. c \in ChannelRecords BY <1>2
  <2> HIDE DEF c, n
  <2> DEFINE e == [c EXCEPT !.active = job, !.next = n]
  <2>4. e \in ChannelRecords /\ e.kind = c.kind /\ e.tip = c.tip /\ e.next = n /\ e.future = c.future /\ e.active = job
    BY <1>4, <2>2, <2>3 DEF ChannelRecords
  <2>5. mining'[k] = [mining[k] EXCEPT !.job = job] BY <1>5, <1>6
  <2>6. [mining[k] EXCEPT !.job = job] = [job |-> job, tip |-> mining[k].tip] BY <1>2 DEF MiningRecords
  <2>7. known'[k] = Learn(known[k], job) BY <1>5, <1>6
  <2> HIDE DEF e
  <2> QED BY <2>1, <2>4, <2>5, <2>6, <2>7 DEF TakesNow, c, n, e
<1> QED BY <1>1, <1>4, <1>7, <1>8, <1>9

\* refresh_gridpool_fee_jobs
LEMMA RefreshApplied ==
    ASSUME FeedOK, ChannelsOK, RefreshFeeJobs
    PROVE  /\ GridPool /\ Domains
           /\ \A k \in Keys : Same(k) \/ /\ k \in Opened
                                          /\ \E j \in Jobs : /\ j.id = channels[k].next /\ PaysOwner(j, k)
                                                             /\ j.tmpl = lastFutureTemplate /\ j.salt # 0
                                                             /\ TakesNow(k, j)
<1> DEFINE t == lastFutureTemplate
           out(k) == GridPoolOutputs(payouts[k], t, work)
           stale == {k \in Opened : k[1] \in Registered /\ channels[k].active.out # out(k)}
           after(k) == OnNewTemplate(channels[k], t, FALSE, out(k), now)
           job(k) == [id |-> channels[k].next, tmpl |-> t, out |-> out(k), salt |-> now]
<1>1. GridPool BY DEF RefreshFeeJobs
<1>2. DOMAIN channels = Keys /\ DOMAIN known = Keys /\ DOMAIN mining = Keys BY DEF ChannelsOK, LinkTypes
<1>3. CASE ~Affordable
  <2>1. UNCHANGED <<channels, known, mining>> BY <1>3 DEF RefreshFeeJobs, client
  <2> QED BY <1>1, <1>2, <2>1 DEF Domains, Same
<1>4. CASE Affordable
  <2>1. /\ channels' = [k \in Keys |-> IF k \in stale THEN after(k) ELSE channels[k]]
        /\ known' = [k \in Keys |-> IF k \in stale THEN Learn(known[k], after(k).active) ELSE known[k]]
        /\ mining' = [k \in Keys |-> IF k \in stale
                        THEN [mining[k] EXCEPT !.job = after(k).active] ELSE mining[k]]
    BY <1>4 DEF RefreshFeeJobs
  <2>2. t \in 1..Len(templates) /\ t \in 0..MaxTemplates /\ work \in Suffixes /\ Payable(t, work) /\ now \in 0..MaxNow
        /\ now # 0
    BY <1>1, <1>4, SetupFacts DEF FeedOK, FeedTypes, Affordable
  <2>3. ASSUME NEW k \in stale
        PROVE  /\ k \in Opened /\ k \in Keys /\ job(k) \in Jobs /\ job(k).id = channels[k].next /\ job(k).tmpl = t
               /\ job(k).salt # 0 /\ PaysOwner(job(k), k)
               /\ after(k) \in ChannelRecords /\ after(k).kind = channels[k].kind /\ after(k).tip = channels[k].tip
               /\ after(k).next = channels[k].next + 1 /\ after(k).future = channels[k].future
               /\ after(k).active = job(k)
    <3>1. k \in Opened /\ k \in Keys BY DEF Opened
    <3>2. payouts[k] \in Payees /\ channels[k] \in ChannelRecords /\ channels[k].next \in Nat
      BY <3>1 DEF ChannelsOK, LinkTypes, ChannelOK, ChannelRecords
    <3>3. out(k) \in Outs /\ out(k).to \in {payouts[k], Operator} BY <2>2, <3>2, OutTypes DEF FeedOK
    <3>4. /\ job(k) \in Jobs /\ job(k).id = channels[k].next /\ job(k).tmpl = t /\ job(k).out = out(k)
          /\ job(k).salt = now
      <4> HIDE DEF out, t
      <4> QED BY <2>2, <3>2, <3>3, JobFields
    <3>5. PaysOwner(job(k), k)
      <4> HIDE DEF job, out
      <4> QED BY <3>3, <3>4 DEF PaysOwner
    <3>6. after(k) = [channels[k] EXCEPT !.next = channels[k].next + 1, !.active = job(k)]
      BY DEF OnNewTemplate
    <3> DEFINE c == channels[k]
               n == channels[k].next + 1
               j == job(k)
               e == [c EXCEPT !.next = n, !.active = j]
    <3>7. after(k) = e /\ n \in Nat /\ c \in ChannelRecords /\ j \in Jobs
      <4>1. n \in Nat /\ c \in ChannelRecords /\ j \in Jobs BY <3>2, <3>4
      <4> HIDE DEF after
      <4>2. after(k) = e BY <3>6
      <4> QED BY <4>1, <4>2
    <3> HIDE DEF c, n, j, after
    <3>8. e \in ChannelRecords /\ e.kind = c.kind /\ e.tip = c.tip /\ e.next = n /\ e.future = c.future /\ e.active = j
      BY <3>7 DEF ChannelRecords
    <3> HIDE DEF e
    <3>9. /\ after(k) \in ChannelRecords /\ after(k).kind = channels[k].kind /\ after(k).tip = channels[k].tip
          /\ after(k).next = channels[k].next + 1 /\ after(k).future = channels[k].future
          /\ after(k).active = job(k)
      BY <3>7, <3>8 DEF c, n, j
    <3> HIDE DEF job
    <3> QED BY <2>2, <3>1, <3>4, <3>5, <3>9
  <2> HIDE DEF after, job, stale
  <2>4. Domains BY <2>1 DEF Domains
  <2>5. ASSUME NEW k \in Keys, k \notin stale PROVE Same(k) BY <2>1, <2>5 DEF Same
  <2>6. ASSUME NEW k \in Keys, k \in stale PROVE TakesNow(k, job(k))
    <3>1. channels'[k] = after(k) BY <2>1, <2>6
    <3>6. after(k).active = job(k) BY <2>3, <2>6
    <3>2. known'[k] = Learn(known[k], job(k)) BY <2>1, <2>6, <3>6
    <3>3. mining'[k] = [mining[k] EXCEPT !.job = job(k)] BY <2>1, <2>6, <3>6
    <3>4. mining[k] \in MiningRecords BY DEF ChannelsOK, ChannelOK
    <3>5. [mining[k] EXCEPT !.job = job(k)] = [job |-> job(k), tip |-> mining[k].tip] BY <3>4 DEF MiningRecords
    <3> QED BY <2>3, <2>6, <3>1, <3>2, <3>3, <3>5 DEF TakesNow
  <2> QED BY <1>1, <2>3, <2>4, <2>5, <2>6
<1> QED BY <1>3, <1>4

\* The feed only moves forward.
LEMMA Forward ==
    ASSUME FeedOK, Next
    PROVE  /\ setup' = setup /\ setup \in Setups
           /\ lastFutureTemplate \in Nat /\ lastFutureTemplate' \in Nat /\ lastFutureTemplate <= lastFutureTemplate'
<1>1. FeedOK' BY FeedStep
<1>2. setup' = setup /\ setup \in Setups /\ lastFutureTemplate \in Nat /\ lastFutureTemplate' \in Nat
  BY <1>1 DEF FeedOK, FeedTypes, Next
<1>3. lastFutureTemplate' = lastFutureTemplate \/ lastFutureTemplate' > lastFutureTemplate
  <2>1. CASE HandleNewTemplate
    <3>1. Head(tpQueue).id > lastFutureTemplate
      BY <2>1, Popped, QueueTypes DEF HandleNewTemplate, Receiving, FeedOK, QueueInOrder
    <3> QED BY <2>1, <3>1 DEF HandleNewTemplate
  <2>2. ASSUME NEW w \in Suffixes, FinishRefresh(w) PROVE lastFutureTemplate' > lastFutureTemplate
    BY <2>2 DEF FinishRefresh, FeedOK, QueueInOrder
  <2>3. CASE Beside BY <1>2, <2>3, BesideAside DEF Aside, last
  <2>4. CASE \/ \E v \in Values : PublishTip(v) \/ PublishFees(v)
             \/ PublishPrevHash \/ AwaitRefresh \/ HandleSetNewPrevHash
    BY <2>4 DEF PublishTip, PublishFees, Publish, PublishPrevHash, AwaitRefresh, HandleSetNewPrevHash, last
  <2> QED BY <2>1, <2>2, <2>3, <2>4, Steps DEF Beside
<1> QED BY <1>2, <1>3

\* Steps that leave the connections and the payouts alone.
LEMMA LinksKept ==
    ASSUME FeedOK, Next, ChannelsOK, UNCHANGED <<links, pays>>, Domains
    PROVE  LinkTypes' /\ \A k \in Keys : Around(k)
<1>1. /\ setup' = setup /\ setup \in Setups /\ lastFutureTemplate \in Nat /\ lastFutureTemplate' \in Nat
      /\ lastFutureTemplate <= lastFutureTemplate'
  BY Forward
<1>2. LinkTypes' BY <1>1, SameSets DEF ChannelsOK, LinkTypes, Domains, links, pays
<1>3. ASSUME NEW k \in Keys PROVE Around(k)
  BY <1>1, KeyFacts DEF Around, ChannelsOK, LinkTypes, links, pays
<1> QED BY <1>2, <1>3

\* Steps that leave everything about the channels alone.
LEMMA ChannelsKept ==
    ASSUME FeedOK, Next, ChannelsOK, UNCHANGED <<channels, client>>, LinkTypes', \A k \in Keys : Around(k)
    PROVE  ChannelsOK'
<1>1. \A k \in Keys : Same(k) BY DEF Same, client
<1>2. \A k \in Keys : ChannelOK(k)' BY <1>1, KeySame DEF ChannelsOK
<1> QED BY <1>2 DEF ChannelsOK

\* Types and payments are kept when templates arrive ...
LEMMA ChannelsTemplate ==
    ASSUME FeedOK, Next, ChannelsOK, NEW t \in 1..Len(templates), NEW w \in Suffixes, ApplyTemplate(t, w),
           templates[t].future => t > lastFutureTemplate /\ lastFutureTemplate' = t, UNCHANGED <<links, pays>>
    PROVE  ChannelsOK'
<1>1. CASE UNCHANGED <<channels, known, mining>>
  <2>1. Domains BY <1>1 DEF Domains, ChannelsOK, LinkTypes
  <2> QED BY <1>1, <2>1, LinksKept, ChannelsKept DEF client
<1>2. CASE Domains /\ TemplateEffect(t, w)
  <2>1. LinkTypes' /\ \A k \in Keys : Around(k) BY <1>2, LinksKept
  <2>2. ASSUME NEW k \in Keys PROVE ChannelOK(k)'
    <3> DEFINE f == templates[t].future
               j == TemplateJob(k, t, w)
    <3>1. /\ k \notin Served => channels'[k] = channels[k]
          /\ k \in Served => j \in Jobs /\ TakesJob(channels[k], channels'[k], j, TakesOwnJob(k), f)
          /\ k \in Served \cap Opened => Told(k, j, f) /\ PaysOwner(j, k)
          /\ k \notin Served \cap Opened => known'[k] = known[k] /\ mining'[k] = mining[k]
          /\ j.tmpl = t
      BY <1>2 DEF TemplateEffect
    <3>2. ChannelOK(k) /\ Around(k) BY <2>1 DEF ChannelsOK
    <3>3. f \in BOOLEAN
      <4>1. templates[t] \in TemplateRecords BY DEF FeedOK, FeedTypes
      <4> QED BY <4>1 DEF TemplateRecords
    <3>4. f => t \in 1..lastFutureTemplate' BY DEF FeedOK, FeedTypes
    <3> HIDE DEF f, j
    <3>5. CASE k \notin Served BY <3>1, <3>2, <3>5, KeySame DEF Same
    <3>6. CASE k \in Served
      <4>1. f => j.tmpl \in 1..lastFutureTemplate' BY <3>1, <3>4
      <4> QED BY <3>1, <3>2, <3>3, <3>6, <4>1, KeyTakes
    <3> QED BY <3>5, <3>6
  <2> QED BY <2>1, <2>2 DEF ChannelsOK
<1> QED BY <1>1, <1>2, TemplateApplied

\* ... and prevhashes,
LEMMA ChannelsTip == ASSUME FeedOK, Next, ChannelsOK, HandleSetNewPrevHash PROVE ChannelsOK'
<1> DEFINE t == Head(tpQueue).id
<1>t. t \in 1..Len(templates) BY TipApplied
<1>l. UNCHANGED <<links, pays>> BY DEF HandleSetNewPrevHash
<1>1. CASE UNCHANGED <<channels, known, mining>>
  <2>1. Domains BY <1>1 DEF Domains, ChannelsOK, LinkTypes
  <2> QED BY <1>1, <1>l, <2>1, LinksKept, ChannelsKept DEF client
<1>2. CASE Domains /\ TipEffect(t)
  <2>1. LinkTypes' /\ \A k \in Keys : Around(k) BY <1>2, <1>l, LinksKept
  <2> HIDE DEF t
  <2>2. ASSUME NEW k \in Keys PROVE ChannelOK(k)'
    <3>1. ChannelOK(k) /\ Around(k) BY <2>1 DEF ChannelsOK
    <3>2. CASE k \notin Served BY <1>2, <3>1, <3>2, KeySame DEF Same, TipEffect
    <3>3. CASE k \in Served
      <4>1. SwitchesTip(channels[k], channels'[k], t) /\ known'[k] = known[k] BY <1>2, <3>3 DEF TipEffect
      <4>2. mining'[k] = mining[k] \/ \E id : mining'[k] = Follow(mining[k], known[k], id, TipOf(t))
        BY <1>2, <3>3 DEF TipEffect
      <4> QED BY <1>t, <3>1, <4>1, <4>2, KeySwitches
    <3> QED BY <3>2, <3>3
  <2> QED BY <2>1, <2>2 DEF ChannelsOK
<1> QED BY <1>1, <1>2, TipApplied

\* ... when channels are opened,
LEMMA OpeningKeys ==
    ASSUME FeedOK, Next, ChannelsOK, NEW d \in Downstreams, NEW a \in Payees, Opening(d, a),
           UNCHANGED <<conn, seen, custom, stdjobs>>, Domains
    PROVE  /\ LinkTypes' /\ halt = "no" /\ conn[d] = "open"
           /\ <<d, nextId[d]>> \in Keys /\ nextId[d] # 1 /\ nextId[d] < nextId'[d] /\ payouts'[<<d, nextId[d]>>] = a
           /\ \A k \in Keys : k # <<d, nextId[d]>> => Around(k)
<1>1. /\ setup' = setup /\ setup \in Setups /\ lastFutureTemplate \in Nat /\ lastFutureTemplate' \in Nat
      /\ lastFutureTemplate <= lastFutureTemplate'
  BY Forward
<1>2. nextId[d] \in ChannelIds /\ nextId[d] # 1 /\ nextId[d] \in Nat
  BY <1>1, SetupAssumption DEF Opening
<1>3. <<d, nextId[d]>> \in Keys BY <1>2 DEF Keys
<1>4. /\ nextId' = [nextId EXCEPT ![d] = nextId[d] + 1] /\ nextId \in [Downstreams -> Nat]
      /\ payouts' = [payouts EXCEPT ![<<d, nextId[d]>>] = a] /\ payouts \in [Keys -> Payees]
      /\ payoutMode' = [payoutMode EXCEPT ![d] = a] /\ payoutMode \in [Downstreams -> Payees]
  BY DEF Opening, ChannelsOK, LinkTypes
<1>5. nextId' \in [Downstreams -> Nat] /\ payouts' \in [Keys -> Payees] /\ payoutMode' \in [Downstreams -> Payees]
  BY <1>2, <1>3, <1>4
<1>6. LinkTypes' BY <1>1, <1>5, SameSets DEF ChannelsOK, LinkTypes, Domains
<1>7. ASSUME NEW k \in Keys, k # <<d, nextId[d]>> PROVE Around(k)
  <2>1. payouts'[k] = payouts[k] BY <1>4, <1>7
  <2>2. k[1] \in Downstreams BY KeyFacts
  <2>3. nextId[k[1]] \in Nat /\ nextId'[k[1]] \in Nat /\ nextId[k[1]] <= nextId'[k[1]] BY <1>4, <1>5, <2>2
  <2> QED BY <1>1, <2>1, <2>3 DEF Around
<1>8. nextId[d] < nextId'[d] /\ payouts'[<<d, nextId[d]>>] = a BY <1>2, <1>3, <1>4
<1> QED BY <1>2, <1>3, <1>6, <1>7, <1>8 DEF Opening, Serving

LEMMA KeyUnopened ==
    ASSUME FeedOK, Next, NEW k \in Keys, ChannelOK(k), k \notin Opened, Same(k)
    PROVE  ChannelOK(k)'
<1>1. /\ setup' = setup /\ lastFutureTemplate \in Nat /\ lastFutureTemplate' \in Nat
      /\ lastFutureTemplate <= lastFutureTemplate'
  BY Forward
<1>2. k[2] = 1 \/ channels'[k].kind = "none" BY DEF Same, Opened
<1>3. known'[k] = <<>> BY DEF Same, ChannelOK
<1>4. \A j \in channels'[k].future : j.tmpl \in 1..lastFutureTemplate' BY <1>1 DEF Same, ChannelOK
<1>5. channels'[k] \in ChannelRecords /\ mining'[k] \in MiningRecords BY DEF Same, ChannelOK
<1>6. \A i \in DOMAIN known'[k] : known'[k][i] \in Jobs /\ known'[k][i].id = i BY DEF Same, ChannelOK
<1> QED BY <1>1, <1>2, <1>3, <1>4, <1>5, <1>6, NextChannelOK

\* The id the connection gives next is free.
LEMMA NextIsFree ==
    ASSUME ChannelsOK, NEW d \in Downstreams PROVE <<d, nextId[d]>> \notin Opened
<1>1. nextId[d] \in Nat BY DEF ChannelsOK, LinkTypes
<1>2. ASSUME <<d, nextId[d]>> \in Opened PROVE FALSE
  <2> DEFINE k == <<d, nextId[d]>>
  <2>1. k \in Keys BY <1>2 DEF Opened
  <2>2. k[2] < nextId[k[1]] BY <1>2, <2>1 DEF ChannelsOK, ChannelOK
  <2> QED BY <1>1, <2>2
<1> QED BY <1>2

LEMMA ChannelsOpen ==
    ASSUME FeedOK, Next, ChannelsOK, NEW d \in Downstreams, NEW a \in Payees, NEW kind \in {"standard", "extended"},
           Affordable, Opening(d, a), OpenWith(<<d, nextId[d]>>, kind, a), UNCHANGED <<conn, seen, custom, stdjobs>>
    PROVE  ChannelsOK'
<1> DEFINE job == FirstJob(lastFutureTemplate, OpenOut(a))
<1>1. DOMAIN channels = Keys /\ DOMAIN known = Keys /\ DOMAIN mining = Keys BY DEF ChannelsOK, LinkTypes
<1>2. <<d, nextId[d]>> \in Keys /\ halt = "no"
  <2>1. setup \in Setups BY DEF FeedOK, FeedTypes
  <2>2. nextId[d] \in ChannelIds BY <2>1, SetupAssumption DEF Opening
  <2> QED BY <2>2 DEF Keys, Opening, Serving
<1>k. PICK k \in Keys : k = <<d, nextId[d]>> BY <1>2
<1>3. /\ job \in Jobs /\ job.id = 1 /\ (GridPool => job.out.to \in {a, Operator})
      /\ \/ UNCHANGED <<channels, known, mining>>
         \/ Domains /\ OpenedWith(k, kind, job) /\ \A i \in Keys : i # k => Same(i)
  BY <1>2, <1>k, OpenApplied
<1>4. Domains BY <1>1, <1>3 DEF Domains
<1>5. /\ LinkTypes' /\ k[2] # 1 /\ k[2] < nextId'[k[1]] /\ payouts'[k] = a
      /\ \A i \in Keys : i # k => Around(i)
  BY <1>4, <1>k, OpeningKeys
<1>6. setup' = setup BY DEF Next
<1>7. k \notin Opened BY <1>k, NextIsFree
<1> HIDE DEF job
<1>8. ASSUME NEW i \in Keys, i # k PROVE ChannelOK(i)'
  <2>1. Same(i) BY <1>3, <1>8 DEF Same
  <2> QED BY <1>5, <1>8, <2>1, KeySame DEF ChannelsOK
<1>9. ChannelOK(k)'
  <2>1. CASE UNCHANGED <<channels, known, mining>>
    <3>1. Same(k) BY <2>1 DEF Same
    <3> QED BY <1>2, <1>7, <3>1, KeyUnopened DEF ChannelsOK
  <2>2. CASE OpenedWith(k, kind, job) BY <1>2, <1>3, <1>5, <1>6, <2>2, KeyOpens
  <2> QED BY <1>3, <2>1, <2>2
<1> QED BY <1>5, <1>8, <1>9 DEF ChannelsOK

LEMMA ChannelsOpenCustom ==
    ASSUME FeedOK, Next, ChannelsOK, NEW d \in Downstreams, NEW a \in Payees, OpenForCustomWork(d, a)
    PROVE  ChannelsOK'
<1>1. setup' = setup /\ setup \in Setups BY DEF Next, FeedOK, FeedTypes
<1>2. <<d, nextId[d]>> \in Keys
  <2>1. nextId[d] \in ChannelIds BY <1>1, SetupAssumption DEF OpenForCustomWork, Opening
  <2> QED BY <2>1 DEF Keys
<1>k. PICK k \in Keys : k = <<d, nextId[d]>> BY <1>2
<1>3. Domains /\ \A i \in Keys : IF i = k THEN CustomOpened(i) ELSE Same(i) BY <1>2, <1>k, CustomOpenApplied
<1>4. /\ LinkTypes' /\ k[2] # 1 /\ k[2] < nextId'[k[1]] /\ payouts'[k] = a
      /\ \A i \in Keys : i # k => Around(i)
  BY <1>3, <1>k, OpeningKeys DEF OpenForCustomWork
<1>5. k \notin Opened BY <1>k, NextIsFree
<1>6. ASSUME NEW i \in Keys, i # k PROVE ChannelOK(i)' BY <1>3, <1>4, <1>6, KeySame DEF ChannelsOK
<1>7. ChannelOK(k)'
  <2>1. CustomOpened(k) BY <1>2, <1>3
  <2>2. known'[k] = <<>> BY <1>2, <1>5, <2>1 DEF CustomOpened, ChannelsOK, ChannelOK
  <2>3. NoJob \in Jobs /\ NoJob.tmpl = 0 BY <1>1, EmptyFields
  <2>4. TipOf(lastNewPrevHash) \in 0..MaxTemplates BY TipTypes DEF FeedOK, FeedTypes
  <2>5. mining'[k] \in MiningRecords /\ mining'[k].job = NoJob BY <2>1, <2>3, <2>4 DEF CustomOpened, MiningRecords
  <2>6. channels'[k] \in ChannelRecords /\ channels'[k].future = {} /\ channels'[k].active = NoJob
    BY <2>1 DEF CustomOpened
  <2>7. DOMAIN known'[k] = {} BY <2>2
  <2> QED BY <1>1, <1>2, <1>4, <2>2, <2>3, <2>5, <2>6, <2>7, NextChannelOK
<1> QED BY <1>4, <1>6, <1>7 DEF ChannelsOK

\* ... closed, or left with their connection,
LEMMA ChannelsCleared ==
    ASSUME FeedOK, Next, ChannelsOK, NEW S, \A k \in Keys : IF k \in S THEN Cleared(k) ELSE Same(k),
           LinkTypes', \A k \in Keys : Around(k)
    PROVE  ChannelsOK'
<1>1. setup' = setup /\ setup \in Setups BY DEF Next, FeedOK, FeedTypes
<1>2. ASSUME NEW k \in Keys PROVE ChannelOK(k)'
  BY <1>1, KeySame, KeyCleared DEF ChannelsOK
<1> QED BY <1>2 DEF ChannelsOK

\* ... and when a connection goes on.
LEMMA LinksMove ==
    ASSUME FeedOK, Next, ChannelsOK, NEW d \in Downstreams, NEW stage, Domains, UNCHANGED <<nextId, pays>>,
           stage \in {"built", "setup", "open", "gone"}, conn' = [conn EXCEPT ![d] = stage], UNCHANGED seen,
           custom' \subseteq Downstreams, stdjobs' \subseteq Downstreams
    PROVE  LinkTypes' /\ \A k \in Keys : Around(k)
<1>1. /\ setup' = setup /\ setup \in Setups /\ lastFutureTemplate \in Nat /\ lastFutureTemplate' \in Nat
      /\ lastFutureTemplate <= lastFutureTemplate'
  BY Forward
<1>2. /\ conn' \in [Downstreams -> {"absent", "read", "built", "setup", "open", "gone"}]
      /\ \A e \in Downstreams : conn'[e] = "read" => conn[e] = "read"
  BY DEF ChannelsOK, LinkTypes
<1>3. LinkTypes'
  <2>1. \A e \in Downstreams : conn'[e] = "read" => seen'[e] \in 1..lastFutureTemplate'
    BY <1>1, <1>2 DEF ChannelsOK, LinkTypes
  <2> QED BY <1>1, <1>2, <2>1, SameSets DEF ChannelsOK, LinkTypes, Domains, pays
<1>4. ASSUME NEW k \in Keys PROVE Around(k)
  BY <1>1, KeyFacts DEF Around, ChannelsOK, LinkTypes, pays
<1> QED BY <1>3, <1>4

\* At the start there is nothing.
LEMMA ChannelsInit == ASSUME Init PROVE ChannelsOK
<1>1. setup \in Setups /\ MaxTemplates \in Nat BY SetupFacts DEF Init
<1>2. LinkTypes BY <1>1 DEF Init, LinkTypes, Payees
<1>3. ASSUME NEW k \in Keys PROVE ChannelOK(k)
  <2>1. channels[k] = NoChannel /\ known[k] = <<>> /\ mining[k] = Idle BY DEF Init
  <2>2. k \notin Opened BY <1>1, <2>1, EmptyFields DEF Opened
  <2> QED BY <1>1, <2>1, <2>2, EmptyFields DEF ChannelOK
<1> QED BY <1>2, <1>3 DEF ChannelsOK

\* Types and payments are kept by every step.
LEMMA ChannelsStep == ASSUME FeedOK, Next, ChannelsOK PROVE ChannelsOK'
<1>s. setup' = setup /\ setup \in Setups BY DEF Next, FeedOK, FeedTypes
<1>d. DOMAIN channels = Keys /\ DOMAIN known = Keys /\ DOMAIN mining = Keys BY DEF ChannelsOK, LinkTypes
<1>0. ASSUME UNCHANGED <<links, pays, channels, client>> PROVE ChannelsOK'
  <2>1. Domains BY <1>0, <1>d DEF Domains, client
  <2> QED BY <1>0, <2>1, LinksKept, ChannelsKept
<1>1. CASE \/ \E v \in Values : PublishTip(v) \/ PublishFees(v)
           \/ PublishPrevHash \/ AwaitRefresh \/ FailRefresh \/ Second
           \/ (\E w \in Suffixes : PollWork(w)) \/ \E d \in Downstreams : HandleOther(d)
  BY <1>0, <1>1 DEF PublishTip, PublishFees, Publish, PublishPrevHash, AwaitRefresh, FailRefresh, Second, PollWork,
                    HandleOther
<1>2. CASE HandleNewTemplate
  <2>1. /\ Head(tpQueue).id \in 1..Len(templates) /\ Head(tpQueue).id > lastFutureTemplate /\ work \in Suffixes
    BY <1>2, Popped, QueueTypes DEF HandleNewTemplate, Receiving, FeedOK, FeedTypes, QueueInOrder
  <2> QED BY <1>2, <2>1, ChannelsTemplate DEF HandleNewTemplate
<1>3. ASSUME NEW w \in Suffixes, FinishRefresh(w) PROVE ChannelsOK'
  <2>1. pending \in 1..Len(templates) /\ pending > lastFutureTemplate
    BY <1>3 DEF FinishRefresh, FeedOK, FeedTypes, QueueInOrder
  <2> QED BY <1>3, <2>1, ChannelsTemplate DEF FinishRefresh
<1>4. CASE HandleSetNewPrevHash BY <1>4, ChannelsTip
<1>5. ASSUME NEW d \in Downstreams, ReadTemplate(d) PROVE ChannelsOK'
  <2>1. /\ conn' = [conn EXCEPT ![d] = "read"] /\ seen' = [seen EXCEPT ![d] = lastFutureTemplate]
        /\ UNCHANGED <<lastFutureTemplate, custom, stdjobs, nextId, channels, pays, client>>
    BY <1>5 DEF ReadTemplate, last
  <2>2. lastFutureTemplate \in 0..MaxTemplates /\ lastFutureTemplate \in 1..lastFutureTemplate
    BY <1>s, SetupFacts DEF FeedOK, FeedTypes
  <2>3. LinkTypes'
    <3>1. /\ conn' \in [Downstreams -> {"absent", "read", "built", "setup", "open", "gone"}]
          /\ seen' \in [Downstreams -> 0..MaxTemplates]
      BY <2>1, <2>2 DEF ChannelsOK, LinkTypes
    <3>2. \A e \in Downstreams : conn'[e] = "read" => seen'[e] \in 1..lastFutureTemplate'
      BY <2>1, <2>2 DEF ChannelsOK, LinkTypes
    <3> QED BY <1>s, <2>1, <3>1, <3>2, SameSets DEF ChannelsOK, LinkTypes, pays, client
  <2>4. ASSUME NEW k \in Keys PROVE Around(k)
    BY <1>s, <2>1, Forward, KeyFacts DEF Around, ChannelsOK, LinkTypes, pays
  <2> QED BY <2>1, <2>3, <2>4, ChannelsKept
<1>6. ASSUME NEW d \in Downstreams, BuildGroup(d) PROVE ChannelsOK'
  <2>1. UNCHANGED <<seen, custom, stdjobs, nextId, pays>> BY <1>6 DEF BuildGroup
  <2>2. CASE conn' = [conn EXCEPT ![d] = "gone"] /\ UNCHANGED <<channels, known, mining>>
    <3>1. Domains BY <1>d, <2>2 DEF Domains
    <3>2. LinkTypes' /\ \A k \in Keys : Around(k) BY <2>1, <2>2, <3>1, LinksMove DEF ChannelsOK, LinkTypes
    <3> QED BY <2>2, <3>2, ChannelsKept DEF client
  <2>3. CASE /\ conn' = [conn EXCEPT ![d] = "built"] /\ DOMAIN channels' = Keys /\ UNCHANGED <<known, mining>>
             /\ OnTip(channels'[Group(d)], "group", FirstJob(seen[d], SoloOutputs(Pool, seen[d])))
             /\ \A k \in Keys : k # Group(d) => channels'[k] = channels[k]
    <3>1. Domains BY <1>d, <2>3 DEF Domains
    <3>2. LinkTypes' /\ \A k \in Keys : Around(k) BY <2>1, <2>3, <3>1, LinksMove DEF ChannelsOK, LinkTypes
    <3>3. ASSUME NEW k \in Keys, k # Group(d) PROVE ChannelOK(k)'
      BY <2>3, <3>2, <3>3, KeySame DEF ChannelsOK, Same
    <3>4. ASSUME NEW k \in Keys, k = Group(d) PROVE ChannelOK(k)'
      <4>1. k[2] = 1 BY <3>4 DEF Group
      <4>2. channels'[k] \in ChannelRecords /\ channels'[k].future = {} BY <2>3, <3>4 DEF OnTip
      <4>3. known'[k] = <<>> /\ mining'[k] \in MiningRecords BY <2>3, <4>1 DEF ChannelsOK, ChannelOK, Opened
      <4>4. DOMAIN known'[k] = {} BY <4>3
      <4> QED BY <1>s, <4>1, <4>2, <4>3, <4>4, NextChannelOK
    <3> QED BY <3>2, <3>3, <3>4 DEF ChannelsOK
  <2> QED BY <1>6, <2>2, <2>3, BuildApplied
<1>7. ASSUME NEW d \in Downstreams, Register(d) \/ \E f \in setup.flags : SetupConnection(d, f[1], f[2])
      PROVE  ChannelsOK'
  <2>1. \E stage \in {"setup", "open"} :
           /\ conn' = [conn EXCEPT ![d] = stage] /\ UNCHANGED <<seen, nextId, pays, channels, client>>
           /\ custom' \subseteq Downstreams /\ stdjobs' \subseteq Downstreams
    BY <1>7 DEF Register, SetupConnection, ChannelsOK, LinkTypes
  <2>2. PICK stage \in {"setup", "open"} :
           /\ conn' = [conn EXCEPT ![d] = stage] /\ UNCHANGED <<seen, nextId, pays, channels, client>>
           /\ custom' \subseteq Downstreams /\ stdjobs' \subseteq Downstreams
    BY <2>1
  <2>3. Domains BY <1>d, <2>2 DEF Domains, client
  <2>4. LinkTypes' /\ \A k \in Keys : Around(k) BY <2>2, <2>3, LinksMove
  <2> QED BY <2>2, <2>4, ChannelsKept
<1>8. ASSUME NEW d \in Downstreams, Leave(d) \/ OpenUnaffordable(d) PROVE ChannelsOK'
  <2>1. Remove(d) /\ UNCHANGED <<seen, custom, stdjobs, nextId, pays>> BY <1>8 DEF Leave, OpenUnaffordable
  <2>2. Domains /\ \A k \in Keys : IF k[1] = d THEN Cleared(k) ELSE Same(k) BY <1>s, <2>1, RemoveApplied
  <2>3. LinkTypes' /\ \A k \in Keys : Around(k)
    BY <2>1, <2>2, LinksMove DEF Remove, ChannelsOK, LinkTypes
  <2> DEFINE S == {k \in Keys : k[1] = d}
  <2>4. \A k \in Keys : IF k \in S THEN Cleared(k) ELSE Same(k) BY <2>2
  <2> HIDE DEF S
  <2> QED BY <2>3, <2>4, ChannelsCleared
<1>9. ASSUME NEW d \in Downstreams, NEW a \in Payees, OpenStandard(d, a) \/ OpenExtended(d, a) PROVE ChannelsOK'
  BY <1>9, ChannelsOpen DEF OpenStandard, OpenExtended
<1>10. ASSUME NEW d \in Downstreams, NEW a \in Payees, OpenForCustomWork(d, a) PROVE ChannelsOK'
  BY <1>10, ChannelsOpenCustom
<1>11. ASSUME NEW d \in Downstreams, NEW a \in Payees, OpenRefused(d, a) PROVE ChannelsOK'
  <2>1. /\ payoutMode' = [payoutMode EXCEPT ![d] = a] /\ nextId' = [nextId EXCEPT ![d] = nextId[d] + 1]
        /\ UNCHANGED <<conn, seen, custom, stdjobs, channels, payouts, client>>
    BY <1>11 DEF OpenRefused
  <2>2. nextId \in [Downstreams -> Nat] /\ payoutMode \in [Downstreams -> Payees] BY DEF ChannelsOK, LinkTypes
  <2>3. nextId' \in [Downstreams -> Nat] /\ payoutMode' \in [Downstreams -> Payees] BY <2>1, <2>2
  <2>4. LinkTypes' BY <1>s, <2>1, <2>3, Forward, SameSets DEF ChannelsOK, LinkTypes, client
  <2>5. ASSUME NEW k \in Keys PROVE Around(k)
    <3>1. k[1] \in Downstreams BY KeyFacts
    <3>2. nextId[k[1]] \in Nat /\ nextId'[k[1]] \in Nat /\ nextId[k[1]] <= nextId'[k[1]] BY <2>1, <2>2, <2>3, <3>1
    <3> QED BY <2>1, <3>2, Forward DEF Around
  <2> QED BY <2>1, <2>4, <2>5, ChannelsKept
<1>12. ASSUME NEW k \in Keys, CloseChannel(k) PROVE ChannelsOK'
  <2>1. Domains /\ \A i \in Keys : IF i = k THEN Cleared(i) ELSE Same(i) BY <1>12, CloseApplied
  <2>2. LinkTypes' /\ \A i \in Keys : Around(i) BY <1>12, <2>1, LinksKept DEF CloseChannel
  <2> DEFINE S == {k}
  <2>3. \A i \in Keys : IF i \in S THEN Cleared(i) ELSE Same(i) BY <2>1
  <2> HIDE DEF S
  <2> QED BY <2>2, <2>3, ChannelsCleared
<1>13. ASSUME NEW k \in Keys, NEW v \in Values, SetCustomMiningJob(k, v) PROVE ChannelsOK'
  <2>1. /\ Domains /\ k \in Opened /\ \A i \in Keys : i # k => Same(i)
        /\ \E j \in Jobs : j.id = channels[k].next /\ j.tmpl = 0 /\ TakesNow(k, j)
    BY <1>13, CustomJobApplied
  <2>2. LinkTypes' /\ \A i \in Keys : Around(i) BY <1>13, <2>1, LinksKept DEF SetCustomMiningJob
  <2>3. ChannelOK(k)' BY <2>1, <2>2, KeyTakesNow DEF ChannelsOK, PaysOwner
  <2>4. ASSUME NEW i \in Keys, i # k PROVE ChannelOK(i)' BY <2>1, <2>2, <2>4, KeySame DEF ChannelsOK
  <2> QED BY <2>2, <2>3, <2>4 DEF ChannelsOK
<1>14. CASE RefreshFeeJobs
  <2>1. /\ Domains
        /\ \A k \in Keys : Same(k) \/ (k \in Opened /\ \E j \in Jobs : PaysOwner(j, k) /\ TakesNow(k, j))
    BY <1>14, RefreshApplied
  <2>2. LinkTypes' /\ \A i \in Keys : Around(i) BY <1>14, <2>1, LinksKept DEF RefreshFeeJobs
  <2>3. ASSUME NEW k \in Keys PROVE ChannelOK(k)'
    BY <2>1, <2>2, KeySame, KeyTakesNow DEF ChannelsOK
  <2> QED BY <2>2, <2>3 DEF ChannelsOK
<1> QED BY <1>1, <1>2, <1>3, <1>4, <1>5, <1>6, <1>7, <1>8, <1>9, <1>10, <1>11, <1>12, <1>13, <1>14, Steps

-----------------------------------------------------------------------------
(* Who works on what. *)

\* What was published stays, and a pool that has stopped does nothing more.
Older ==
    /\ Len(templates) \in Nat /\ Len(templates') \in Nat /\ Len(templates) <= Len(templates')
    /\ \A i \in 1..Len(templates) : templates'[i] = templates[i]

LEMMA PublishedStays == ASSUME FeedOK, Next PROVE Older /\ halt = "no"
<1>t. Len(templates) \in Nat /\ templates \in Seq(TemplateRecords) BY DEF FeedOK, FeedTypes
<1>0. ASSUME templates' = templates PROVE Older BY <1>t, <1>0 DEF Older
<1>1. ASSUME NEW v \in Values, NEW f \in BOOLEAN, NEW n, Publish(f, n, v) PROVE Older /\ halt = "no"
  <2> DEFINE R == [tip |-> n, future |-> f, val |-> v]
  <2>1. templates' = Append(templates, R) /\ halt = "no" BY <1>1 DEF Publish
  <2> HIDE DEF R
  <2> QED BY <1>t, <2>1 DEF Older
<1>2. CASE \E v \in Values : PublishTip(v) \/ PublishFees(v)
  BY <1>1, <1>2 DEF PublishTip, PublishFees
<1>3. CASE Beside
  <2>1. Aside /\ halt = "no" BY <1>3, BesideAside DEF Next
  <2> QED BY <1>0, <2>1 DEF Aside, tp
<1>4. CASE PublishPrevHash \/ HandleNewTemplate \/ AwaitRefresh \/ HandleSetNewPrevHash
  BY <1>0, <1>4 DEF PublishPrevHash, HandleNewTemplate, AwaitRefresh, HandleSetNewPrevHash, Receiving
<1>5. CASE \E w \in Suffixes : FinishRefresh(w) BY <1>0, <1>5 DEF FinishRefresh, tp
<1> QED BY <1>2, <1>3, <1>4, <1>5, Steps DEF Beside

\* What a step leaves of the connection of channel k, while the pool goes on.
SameFlags(k) ==
    setup' = setup /\ (k[1] \in custom' <=> k[1] \in custom) /\ (k[1] \in stdjobs' <=> k[1] \in stdjobs)
Steady(k) ==
    /\ SameFlags(k) /\ conn'[k[1]] = conn[k[1]]
    /\ halt' = "no" => lastNewPrevHash' = lastNewPrevHash

\* Which clients escape is decided by their flags and the channel's counter.
LEMMA Escapes ==
    ASSUME NEW k \in Keys, SameFlags(k)
    PROVE  /\ Misnamed(k)' <=> Misnamed(k)
           /\ OwnIds(k)' <=> OwnIds(k)
           /\ channels'[k].next = channels[k].next => (Mixed(k)' <=> Mixed(k))
           /\ Misnamed(k) \/ OwnIds(k) => ~Mixed(k) /\ ~Mixed(k)'
  BY DEF SameFlags, Misnamed, Mixed, OwnIds, GridPool

LEMMA StaysMixed ==
    ASSUME NEW k \in Keys, SameFlags(k), Mixed(k), channels[k].next \in Nat, channels'[k].next \in Nat,
           channels[k].next <= channels'[k].next
    PROVE  Mixed(k)'
  BY DEF SameFlags, Mixed, GridPool

LEMMA LinkSame ==
    ASSUME NEW d \in Downstreams, Link(d), Steady(Group(d)), channels'[Group(d)] = channels[Group(d)]
    PROVE  Link(d)'
<1>1. Group(d)[1] = d BY DEF Group
<1> QED BY <1>1 DEF Link, Steady, SameFlags, Group

LEMMA WaitingSame ==
    ASSUME NEW k \in Keys, Waiting(k), halt = "no", k[1] \in custom => k[1] \in custom',
           halt' = "no" => lastNewPrevHash' = lastNewPrevHash, channels'[k] = channels[k]
    PROVE  Waiting(k)'
  BY DEF Waiting, Opened

LEMMA KindsSame ==
    ASSUME NEW k \in Keys, Kinds(k), Steady(k), channels'[k].kind = channels[k].kind,
           channels[k].next >= 2 => channels'[k].next >= 2
    PROVE  Kinds(k)'
  BY DEF Kinds, Steady, SameFlags

LEMMA InformedSame ==
    ASSUME NEW k \in Keys, Informed(k), SameFlags(k), Same(k),
           channels'[Group(k[1])] = channels[Group(k[1])]
    PROVE  Informed(k)'
<1>1. (OwnIds(k)' <=> OwnIds(k)) /\ (Mixed(k)' <=> Mixed(k)) BY Escapes DEF Same
<1>2. Counter(k)' = Counter(k) BY <1>1 DEF Counter, Same, Group
<1>3. \A j \in channels[k].future : Named(k, j)' <=> Named(k, j) BY <1>1 DEF Named, Same
<1> QED BY <1>1, <1>2, <1>3 DEF Informed, SameFlags, Same, Group

LEMMA ActiveSame ==
    ASSUME NEW k \in Keys, FeedOK, Older, halt = "no", Active(k), Steady(k), Same(k) PROVE Active(k)'
<1>1. lastNewPrevHash \in 1..Len(templates) BY DEF FeedOK, FeedTypes
<1>2. channels[k].active.tmpl # 0 =>
        /\ channels[k].active.tmpl \in 1..Len(templates')
        /\ templates'[channels[k].active.tmpl] = templates[channels[k].active.tmpl]
  BY DEF Older, Active
<1>3. (Misnamed(k)' <=> Misnamed(k)) /\ (Mixed(k)' <=> Mixed(k)) BY Escapes DEF Same, Steady
<1>4. /\ Agreed(k) => Agreed(k)'
      /\ ToldActive(k) => ToldActive(k)'
      /\ OnItsTip(k) => OnItsTip(k)'
  BY <1>2, <1>3 DEF Agreed, ToldActive, OnItsTip, Same, TipOf
<1>5. IF Misnamed(k)' THEN ToldActive(k)' ELSE Agreed(k)' /\ OnItsTip(k)' BY <1>3, <1>4 DEF Active
<1>6. k[1] \notin custom /\ halt' = "no" => channels'[k].tip = TipOf(lastNewPrevHash)'
  BY <1>1 DEF Active, Steady, SameFlags, Same, Older, TipOf
<1> QED BY <1>2, <1>5, <1>6 DEF Active, Steady, SameFlags, Same

\* Nothing happens to a channel and its group.
LEMMA MineSame ==
    ASSUME NEW k \in Keys, FeedOK, Next, WorkOK, Steady(k), Same(k),
           channels'[Group(k[1])] = channels[Group(k[1])], k \in Opened'
    PROVE  (Kinds(k) /\ Informed(k) /\ Active(k))'
<1>1. k \in Opened BY DEF Opened, Same
<1>2. Kinds(k) /\ Informed(k) /\ Active(k) BY <1>1 DEF WorkOK
<1>3. channels'[k] = channels[k] BY DEF Same
<1>4. Kinds(k)' BY <1>2, <1>3, KindsSame
<1>5. Informed(k)' BY <1>2, InformedSame DEF Steady
<1>6. Active(k)' BY <1>2, ActiveSame, PublishedStays
<1> QED BY <1>4, <1>5, <1>6

\* WorkOK after a step.
LEMMA NextWorkOK ==
    ASSUME \A d \in Downstreams : Link(d)', \A k \in Keys : Waiting(k)',
           \A k \in Keys : k \in Opened' => (Kinds(k) /\ Informed(k) /\ Active(k))'
    PROVE  WorkOK'
<1>1. Opened' \subseteq Keys BY DEF Opened
<1> QED BY <1>1 DEF WorkOK

\* Steps that concern no channel; the pool may stop with them.
LEMMA WorkQuiet ==
    ASSUME FeedOK, Next, WorkOK, UNCHANGED <<conn, custom, stdjobs, channels, known, mining>>,
           halt' = "no" => lastNewPrevHash' = lastNewPrevHash
    PROVE  WorkOK'
<1>1. halt = "no" /\ setup' = setup BY PublishedStays DEF Next
<1>2. \A k \in Keys : Steady(k) /\ Same(k) BY <1>1 DEF Steady, SameFlags, Same
<1>3. \A k \in Keys : channels'[k] = channels[k] /\ channels'[Group(k[1])] = channels[Group(k[1])] BY DEF Group
<1>4. ASSUME NEW d \in Downstreams PROVE Link(d)'
  <2>1. Group(d) \in Keys BY DEF Group, Keys
  <2> QED BY <1>2, <1>3, <2>1, LinkSame DEF WorkOK
<1>5. ASSUME NEW k \in Keys PROVE Waiting(k)' BY <1>1, WaitingSame DEF WorkOK
<1>6. ASSUME NEW k \in Keys, k \in Opened' PROVE (Kinds(k) /\ Informed(k) /\ Active(k))'
  BY <1>2, <1>3, <1>6, MineSame
<1> QED BY <1>4, <1>5, <1>6, NextWorkOK

\* A step of one connection.
LEMMA OneConnection ==
    ASSUME FeedOK, Next, WorkOK, NEW d \in Downstreams,
           \A k \in Keys : k[1] # d => Same(k) /\ Steady(k),
           Link(d)',
           \A k \in Keys : k[1] = d => Waiting(k)' /\ (k \in Opened' => (Kinds(k) /\ Informed(k) /\ Active(k))')
    PROVE  WorkOK'
<1>1. halt = "no" BY PublishedStays
<1>2. ASSUME NEW e \in Downstreams, e # d PROVE Link(e)'
  <2>1. Group(e) \in Keys /\ Group(e)[1] # d BY <1>2 DEF Group, Keys
  <2>2. Same(Group(e)) /\ Steady(Group(e)) BY <2>1
  <2> QED BY <2>2, LinkSame DEF WorkOK, Same
<1>3. ASSUME NEW k \in Keys, k[1] # d PROVE Waiting(k)'
  <2>1. Same(k) /\ Steady(k) BY <1>3
  <2> QED BY <1>1, <2>1, WaitingSame DEF WorkOK, Same, Steady, SameFlags
<1>4. ASSUME NEW k \in Keys, k[1] # d, k \in Opened' PROVE (Kinds(k) /\ Informed(k) /\ Active(k))'
  <2>1. Group(k[1]) \in Keys /\ Group(k[1])[1] # d BY <1>4, KeyFacts
  <2>2. channels'[Group(k[1])] = channels[Group(k[1])] BY <2>1 DEF Same
  <2> QED BY <1>4, <2>2, MineSame
<1> QED BY <1>2, <1>3, <1>4, NextWorkOK

\* The connection goes on, and has no open channel yet.
LEMMA WorkMoves ==
    ASSUME FeedOK, Next, ChannelsOK, WorkOK, NEW d \in Downstreams, conn[d] # "open", NEW stage,
           conn' = [conn EXCEPT ![d] = stage], UNCHANGED <<channels, known, mining>>,
           custom \subseteq custom', custom' \subseteq custom \cup {d},
           stdjobs \subseteq stdjobs', stdjobs' \subseteq stdjobs \cup {d},
           lastNewPrevHash' = lastNewPrevHash, Link(d)'
    PROVE  WorkOK'
<1>1. halt = "no" /\ setup' = setup BY PublishedStays DEF Next
<1>2. DOMAIN conn = Downstreams BY DEF ChannelsOK, LinkTypes
<1>3. ASSUME NEW k \in Keys, k[1] # d PROVE Same(k) /\ Steady(k)
  <2>1. k[1] \in Downstreams BY KeyFacts
  <2> QED BY <1>1, <1>2, <1>3, <2>1 DEF Same, Steady, SameFlags
<1>4. ASSUME NEW k \in Keys, k[1] = d PROVE Waiting(k)' /\ k \notin Opened'
  <2>1. Waiting(k)' BY <1>1, WaitingSame DEF WorkOK
  <2>2. k \in Opened => Kinds(k) BY DEF WorkOK
  <2>3. k \notin Opened BY <1>4, <2>2 DEF Kinds
  <2> QED BY <2>1, <2>3 DEF Opened
<1> QED BY <1>3, <1>4, OneConnection

\* bootstrap_group_channel and the registration.
LEMMA WorkRead == ASSUME FeedOK, Next, ChannelsOK, WorkOK, NEW d \in Downstreams, ReadTemplate(d) PROVE WorkOK'
<1>1. /\ conn[d] = "absent" /\ conn' = [conn EXCEPT ![d] = "read"]
      /\ UNCHANGED <<channels, known, mining, custom, stdjobs, lastNewPrevHash>>
  BY DEF ReadTemplate, client, last
<1>2. conn'[d] = "read" BY <1>1 DEF ChannelsOK, LinkTypes
<1>3. Link(d)' BY <1>1, <1>2 DEF WorkOK, Link, Group
<1> QED BY <1>1, <1>3, WorkMoves

LEMMA WorkBuild == ASSUME FeedOK, Next, ChannelsOK, WorkOK, NEW d \in Downstreams, BuildGroup(d) PROVE WorkOK'
<1> DEFINE job == FirstJob(seen[d], SoloOutputs(Pool, seen[d]))
<1>1. conn[d] = "read" /\ UNCHANGED <<custom, stdjobs, lastNewPrevHash, known, mining>>
  BY DEF BuildGroup, last, client
<1>2. /\ DOMAIN conn = Downstreams /\ setup' = setup /\ halt = "no"
  BY PublishedStays DEF ChannelsOK, LinkTypes, Next
<1>l. Link(d) BY DEF WorkOK
<1>3. CASE conn' = [conn EXCEPT ![d] = "gone"] /\ UNCHANGED channels
  <2>1. conn'[d] = "gone" BY <1>2, <1>3
  <2>2. Link(d)' BY <1>1, <1>3, <1>l, <2>1 DEF Link, Group
  <2> QED BY <1>1, <1>3, <2>2, WorkMoves
<1>4. CASE /\ conn' = [conn EXCEPT ![d] = "built"] /\ OnTip(channels'[Group(d)], "group", job)
           /\ \A k \in Keys : k # Group(d) => channels'[k] = channels[k]
  <2>1. conn'[d] = "built" BY <1>2, <1>4
  <2> HIDE DEF job
  <2>2. /\ channels'[Group(d)].kind = "group" /\ channels'[Group(d)].next = 2 /\ channels'[Group(d)].future = {}
    BY <1>4 DEF OnTip
  <2>3. Link(d)' BY <1>1, <1>l, <2>1, <2>2 DEF Link, Group
  <2>4. ASSUME NEW k \in Keys, k[1] # d PROVE Same(k) /\ Steady(k)
    <3>1. k[1] \in Downstreams /\ k # Group(d) BY <2>4, KeyFacts DEF Group
    <3> QED BY <1>1, <1>2, <1>4, <2>4, <3>1 DEF Same, Steady, SameFlags
  <2>5. ASSUME NEW k \in Keys, k[1] = d PROVE Waiting(k)' /\ k \notin Opened'
    <3>1. CASE k = Group(d)
      <4>1. k[2] = 1 BY <3>1 DEF Group
      <4> QED BY <2>2, <3>1, <4>1 DEF Waiting, Opened
    <3>2. CASE k # Group(d)
      <4>1. channels'[k] = channels[k] BY <1>4, <3>2
      <4>2. Waiting(k)' BY <1>1, <1>2, <4>1, WaitingSame DEF WorkOK
      <4>3. k \in Opened => Kinds(k) BY DEF WorkOK
      <4>4. k \notin Opened BY <1>1, <2>5, <4>3 DEF Kinds
      <4> QED BY <4>1, <4>2, <4>4 DEF Opened
    <3> QED BY <3>1, <3>2
  <2> QED BY <2>3, <2>4, <2>5, OneConnection
<1> QED BY <1>3, <1>4, BuildApplied

LEMMA WorkRegister == ASSUME FeedOK, Next, ChannelsOK, WorkOK, NEW d \in Downstreams, Register(d) PROVE WorkOK'
<1>1. /\ conn[d] = "built" /\ conn' = [conn EXCEPT ![d] = "setup"]
      /\ UNCHANGED <<channels, known, mining, custom, stdjobs, lastNewPrevHash>>
  BY DEF Register, client, last
<1>2. conn'[d] = "setup" BY <1>1 DEF ChannelsOK, LinkTypes
<1>3. Link(d)' BY <1>1, <1>2 DEF WorkOK, Link, Group
<1> QED BY <1>1, <1>3, WorkMoves

\* handle_setup_connection
LEMMA WorkSetup ==
    ASSUME FeedOK, Next, ChannelsOK, WorkOK, NEW d \in Downstreams, NEW f \in setup.flags,
           SetupConnection(d, f[1], f[2])
    PROVE  WorkOK'
<1>1. /\ conn[d] = "setup" /\ conn' = [conn EXCEPT ![d] = "open"]
      /\ custom' = (IF f[1] THEN custom \cup {d} ELSE custom)
      /\ stdjobs' = (IF f[2] THEN stdjobs \cup {d} ELSE stdjobs)
      /\ UNCHANGED <<channels, known, mining, lastNewPrevHash>>
  BY DEF SetupConnection, client, last
<1>2. conn'[d] = "open" BY <1>1 DEF ChannelsOK, LinkTypes
<1>7. channels[Group(d)].kind = "group" /\ channels[Group(d)].next >= 2 BY <1>1 DEF WorkOK, Link
<1>8. Link(d)' BY <1>1, <1>2, <1>7 DEF Link, Group
<1>9. /\ custom \subseteq custom' /\ custom' \subseteq custom \cup {d}
      /\ stdjobs \subseteq stdjobs' /\ stdjobs' \subseteq stdjobs \cup {d}
  BY <1>1
<1> QED BY <1>1, <1>8, <1>9, WorkMoves

\* remove_downstream
LEMMA WorkRemove ==
    ASSUME FeedOK, Next, ChannelsOK, WorkOK, NEW d \in Downstreams, Remove(d),
           UNCHANGED <<custom, stdjobs, lastNewPrevHash>>
    PROVE  WorkOK'
<1>1. setup \in Setups /\ setup' = setup BY DEF FeedOK, FeedTypes, Next
<1>2. \A k \in Keys : IF k[1] = d THEN Cleared(k) ELSE Same(k) BY <1>1, RemoveApplied
<1>3. conn' = [conn EXCEPT ![d] = "gone"] /\ DOMAIN conn = Downstreams BY DEF Remove, ChannelsOK, LinkTypes
<1>4. /\ NoChannel.kind = "none" /\ NoChannel.future = {} BY <1>1, EmptyFields
<1>5. Group(d) \in Keys /\ Group(d)[1] = d BY DEF Group, Keys
<1>6. Link(d)'
  <2>1. channels'[Group(d)] = NoChannel BY <1>2, <1>5 DEF Cleared
  <2> QED BY <1>3, <2>1 DEF Link, Group
<1>7. ASSUME NEW k \in Keys, k[1] # d PROVE Same(k) /\ Steady(k)
  <2>1. k[1] \in Downstreams BY KeyFacts
  <2> QED BY <1>1, <1>2, <1>3, <1>7, <2>1 DEF Steady, SameFlags
<1>8. ASSUME NEW k \in Keys, k[1] = d PROVE Waiting(k)' /\ k \notin Opened'
  BY <1>2, <1>4, <1>8 DEF Cleared, Waiting, Opened
<1> QED BY <1>6, <1>7, <1>8, OneConnection

\* A step of one channel.
LEMMA OneChannel ==
    ASSUME FeedOK, Next, WorkOK, NEW k \in Keys, k[2] # 1, \A i \in Keys : Steady(i),
           \A i \in Keys : i # k => Same(i), Waiting(k)', k \in Opened' => (Kinds(k) /\ Informed(k) /\ Active(k))'
    PROVE  WorkOK'
<1>1. halt = "no" BY PublishedStays
<1>2. ASSUME NEW e \in Downstreams PROVE Link(e)'
  <2>1. Group(e) \in Keys /\ Group(e) # k BY DEF Group, Keys
  <2> QED BY <2>1, LinkSame DEF WorkOK, Same
<1>3. ASSUME NEW i \in Keys, i # k PROVE Waiting(i)'
  <2>1. Same(i) /\ Steady(i) BY <1>3
  <2> QED BY <1>1, <2>1, WaitingSame DEF WorkOK, Same, Steady, SameFlags
<1>4. ASSUME NEW i \in Keys, i # k, i \in Opened' PROVE (Kinds(i) /\ Informed(i) /\ Active(i))'
  <2>1. Group(i[1]) \in Keys /\ Group(i[1]) # k BY KeyFacts DEF Group
  <2>2. channels'[Group(i[1])] = channels[Group(i[1])] BY <2>1 DEF Same
  <2> QED BY <1>4, <2>2, MineSame
<1> QED BY <1>2, <1>3, <1>4, NextWorkOK

\* Steps that leave the connections alone.
LEMMA AllSteady ==
    ASSUME Next, UNCHANGED <<conn, custom, stdjobs, lastNewPrevHash>>
    PROVE  \A k \in Keys : Steady(k)
  BY DEF Steady, SameFlags, Next

\* handle_close_channel
LEMMA WorkClose == ASSUME FeedOK, Next, ChannelsOK, WorkOK, NEW k \in Keys, CloseChannel(k) PROVE WorkOK'
<1>1. k[2] # 1 /\ UNCHANGED <<conn, custom, stdjobs, lastNewPrevHash>>
  BY DEF CloseChannel, Opened, links, last
<1>2. \A i \in Keys : IF i = k THEN Cleared(i) ELSE Same(i) BY CloseApplied
<1>3. NoChannel.kind = "none" /\ NoChannel.future = {} BY EmptyFields DEF FeedOK, FeedTypes
<1>4. channels'[k] = NoChannel BY <1>2 DEF Cleared
<1>5. Waiting(k)' /\ k \notin Opened' BY <1>3, <1>4 DEF Waiting, Opened
<1> QED BY <1>1, <1>2, <1>5, AllSteady, OneChannel

\* A job with the channel's own next id, which is mined at once.  When the
\* group numbers the jobs it is a custom one, and the client mixes both.
LEMMA MineTakesNow ==
    ASSUME FeedOK, Next, ChannelsOK, WorkOK, NEW k \in Opened, Steady(k), NEW j \in Jobs, TakesNow(k, j),
           j.id = channels[k].next, channels'[Group(k[1])] = channels[Group(k[1])],
           j.tmpl = 0 \/ (OwnIds(k) /\ j.salt # 0 /\ j.tmpl \in 1..Len(templates))
    PROVE  Waiting(k)' /\ (Kinds(k) /\ Informed(k) /\ Active(k))'
<1>1. k \in Keys /\ Kinds(k) /\ Informed(k) /\ Active(k) /\ Waiting(k) /\ k \in Opened' /\ halt = "no" /\ SameFlags(k)
  BY PublishedStays DEF WorkOK, Opened, TakesNow, Steady
<1>n. channels[k].next \in Nat /\ channels'[k].next = channels[k].next + 1 /\ channels[k].next <= channels'[k].next
  BY <1>1 DEF ChannelsOK, ChannelOK, ChannelRecords, TakesNow
<1>2. Waiting(k)' BY <1>1 DEF Waiting, Steady, SameFlags, TakesNow
<1>3. Kinds(k)' BY <1>1, <1>n, KindsSame DEF TakesNow
<1>4. \A i \in DOMAIN known[k] : i \in Nat
  <2>1. \A i \in DOMAIN known[k] : known[k][i] \in Jobs /\ known[k][i].id = i BY <1>1 DEF ChannelsOK, ChannelOK
  <2> QED BY <2>1 DEF Jobs
<1>5. /\ DOMAIN known'[k] = DOMAIN known[k] \cup {channels[k].next} /\ known'[k][channels[k].next] = j
      /\ \A i \in DOMAIN known[k] : i # channels[k].next => known'[k][i] = known[k][i]
  BY DEF TakesNow, Learn
<1>6. (OwnIds(k)' <=> OwnIds(k)) /\ channels'[k].future = channels[k].future BY <1>1, Escapes DEF TakesNow
<1>7. Informed(k)'
  <2>1. CASE OwnIds(k)
    <3>1. ~Mixed(k) /\ Counter(k) = channels[k].next /\ Counter(k)' = channels'[k].next
      BY <1>1, <1>6, <2>1, Escapes DEF Counter
    <3>2. \A i \in DOMAIN known[k] : i < channels[k].next /\ known'[k][i] = known[k][i]
      BY <1>1, <1>4, <1>5, <1>n, <3>1 DEF Informed
    <3>3. \A i \in DOMAIN known'[k] : i < channels'[k].next BY <1>4, <1>5, <1>n, <3>2
    <3>4. k[1] \notin custom => \A i \in channels'[k].future :
            i.id \in DOMAIN known'[k] /\ Named(k, i)' /\ i.id < channels'[k].next
      BY <1>1, <1>5, <1>6, <3>1, <3>2, <3>3 DEF Informed, Named
    <3> QED BY <1>1, <1>6, <2>1, <3>1, <3>3, <3>4 DEF Informed, SameFlags
  <2>2. CASE ~OwnIds(k)
    <3>1. k[1] \notin custom \cup stdjobs /\ ~GridPool /\ channels[k].next >= 2 /\ j.tmpl = 0
      BY <1>1, <2>2 DEF OwnIds, Kinds
    <3>2. Mixed(k)' BY <1>1, <1>n, <3>1 DEF Mixed, SameFlags, GridPool
    <3>3. Counter(k)' = Counter(k) BY <1>6, <2>2 DEF Counter, Group
    <3>4. \A i \in channels'[k].future : i.id \in DOMAIN known'[k] /\ Named(k, i)' /\ i.id < Counter(k)'
      <4> SUFFICES ASSUME NEW i \in channels[k].future
                   PROVE  i.id \in DOMAIN known'[k] /\ Named(k, i)' /\ i.id < Counter(k)'
        BY <1>6
      <4>1. i.id \in DOMAIN known[k] /\ Named(k, i) /\ i.id < Counter(k) BY <1>1, <3>1 DEF Informed
      <4>2. CASE i.id = channels[k].next BY <1>5, <3>1, <3>2, <3>3, <4>1, <4>2 DEF Named
      <4>3. CASE i.id # channels[k].next BY <1>5, <3>2, <3>3, <4>1, <4>3 DEF Named
      <4> QED BY <4>2, <4>3
    <3>5. channels'[k].future = channels'[Group(k[1])].future BY <1>1, <1>6, <2>2 DEF Informed
    <3> QED BY <3>2, <3>4, <3>5 DEF Informed, Group
  <2> QED BY <2>1, <2>2
<1>8. Active(k)'
  <2>1. /\ mining'[k].job = j /\ mining'[k].tip = mining[k].tip
        /\ channels'[k].active = j /\ channels'[k].tip = channels[k].tip
    BY DEF TakesNow
  <2>2. lastNewPrevHash \in 1..Len(templates) /\ Older BY PublishedStays DEF FeedOK, FeedTypes
  <2>3. k[1] \notin custom' /\ halt' = "no" => channels'[k].tip = templates'[lastNewPrevHash'].tip
    BY <1>1, <2>1, <2>2 DEF Active, Steady, SameFlags, Older, TipOf
  <2>4. j.tmpl # 0 => j.tmpl \in 1..Len(templates') /\ j.salt # 0 BY <2>2 DEF Older
  <2>5. Misnamed(k)' <=> Misnamed(k) BY <1>1, Escapes
  <2>6. ToldActive(k)' BY <1>5, <2>1 DEF ToldActive
  <2>7. ~Misnamed(k) => Agreed(k)' /\ OnItsTip(k)' BY <1>1, <2>1, <2>4 DEF Active, Agreed, OnItsTip
  <2> QED BY <2>1, <2>3, <2>4, <2>5, <2>6, <2>7 DEF Active, TipOf
<1> QED BY <1>2, <1>3, <1>7, <1>8

\* handle_set_custom_mining_job
LEMMA WorkCustomJob ==
    ASSUME FeedOK, Next, ChannelsOK, WorkOK, NEW k \in Keys, NEW v \in Values, SetCustomMiningJob(k, v)
    PROVE  WorkOK'
<1>1. k \in Opened /\ UNCHANGED <<conn, custom, stdjobs, lastNewPrevHash>>
  BY DEF SetCustomMiningJob, links, last
<1>2. k[2] # 1 /\ Group(k[1]) \in Keys /\ Group(k[1]) # k BY <1>1, KeyFacts DEF Opened
<1>4. PICK j \in Jobs : j.id = channels[k].next /\ j.tmpl = 0 /\ TakesNow(k, j) BY CustomJobApplied
<1>5. \A i \in Keys : i # k => Same(i) BY CustomJobApplied
<1>6. \A i \in Keys : Steady(i) BY <1>1, AllSteady
<1>7. channels'[Group(k[1])] = channels[Group(k[1])] BY <1>2, <1>5 DEF Same
<1>8. Waiting(k)' /\ (Kinds(k) /\ Informed(k) /\ Active(k))' BY <1>1, <1>4, <1>6, <1>7, MineTakesNow
<1> QED BY <1>2, <1>5, <1>6, <1>8, OneChannel

\* refresh_gridpool_fee_jobs
LEMMA WorkRefresh == ASSUME FeedOK, Next, ChannelsOK, WorkOK, RefreshFeeJobs PROVE WorkOK'
<1>1. UNCHANGED <<conn, custom, stdjobs, lastNewPrevHash>> BY DEF RefreshFeeJobs, links, last
<1>2. \A k \in Keys : Steady(k) BY <1>1, AllSteady
<1>3. /\ GridPool
      /\ \A k \in Keys : Same(k) \/ /\ k \in Opened
                                     /\ \E j \in Jobs : /\ j.id = channels[k].next
                                                        /\ j.tmpl = lastFutureTemplate /\ j.salt # 0
                                                        /\ TakesNow(k, j)
  BY RefreshApplied
<1>4. halt = "no" /\ lastFutureTemplate \in 1..Len(templates) BY PublishedStays DEF FeedOK, FeedTypes
<1>5. ASSUME NEW d \in Downstreams PROVE Same(Group(d)) /\ Group(d) \in Keys
  <2>1. Group(d) \in Keys /\ Group(d)[2] = 1 BY DEF Group, Keys
  <2> QED BY <1>3, <2>1 DEF Opened
<1>6. ASSUME NEW d \in Downstreams PROVE Link(d)' BY <1>2, <1>5, LinkSame DEF WorkOK, Same
<1>7. ASSUME NEW k \in Keys PROVE Waiting(k)' /\ (k \in Opened' => (Kinds(k) /\ Informed(k) /\ Active(k))')
  <2>1. CASE Same(k)
    <3>1. Waiting(k)' BY <1>1, <1>4, <2>1, WaitingSame DEF WorkOK, Same
    <3>2. channels'[Group(k[1])] = channels[Group(k[1])] BY <1>5, KeyFacts DEF Same
    <3> QED BY <1>2, <2>1, <3>1, <3>2, MineSame
  <2>2. ASSUME k \in Opened, NEW j \in Jobs, j.id = channels[k].next, j.tmpl = lastFutureTemplate, j.salt # 0,
               TakesNow(k, j)
        PROVE  Waiting(k)' /\ (Kinds(k) /\ Informed(k) /\ Active(k))'
    <3>1. OwnIds(k) BY <1>3 DEF OwnIds
    <3>2. channels'[Group(k[1])] = channels[Group(k[1])] BY <1>5, KeyFacts DEF Same
    <3> QED BY <1>2, <1>4, <2>2, <3>1, <3>2, MineTakesNow
  <2> QED BY <1>3, <2>1, <2>2
<1> QED BY <1>6, <1>7, NextWorkOK

\* The opens: a channel starts with the job of the last tip, and its group
\* waits for nothing else.
LEMMA WorkOpen ==
    ASSUME FeedOK, Next, ChannelsOK, WorkOK, NEW d \in Downstreams, NEW a \in Payees,
           NEW kind \in {"standard", "extended"}, Affordable, Opening(d, a), OpenWith(<<d, nextId[d]>>, kind, a),
           UNCHANGED <<conn, custom, stdjobs, lastNewPrevHash>>, d \notin custom, kind = "extended" => d \notin stdjobs
    PROVE  WorkOK'
<1> DEFINE job == FirstJob(lastFutureTemplate, OpenOut(a))
<1>1. <<d, nextId[d]>> \in Keys /\ nextId[d] # 1 /\ halt = "no" /\ conn[d] = "open"
  <2>1. setup \in Setups BY DEF FeedOK, FeedTypes
  <2>2. nextId[d] \in ChannelIds /\ nextId[d] # 1 BY <2>1, SetupAssumption DEF Opening
  <2> QED BY <2>2 DEF Keys, Opening, Serving
<1>k. PICK k \in Keys : k = <<d, nextId[d]>> BY <1>1
<1>2. k[1] = d /\ k[2] # 1 BY <1>1, <1>k
<1>3. /\ job \in Jobs /\ job.id = 1 /\ job.tmpl = lastFutureTemplate /\ job.salt = 0
      /\ \/ UNCHANGED <<channels, known, mining>>
         \/ /\ lastFutureTemplate = lastNewPrevHash
            /\ OpenedWith(k, kind, job) /\ \A i \in Keys : i # k => Same(i)
  BY <1>1, <1>k, OpenApplied
<1> HIDE DEF job
<1>4. CASE UNCHANGED <<channels, known, mining>> BY <1>4, WorkQuiet
<1>5. CASE /\ lastFutureTemplate = lastNewPrevHash
           /\ OpenedWith(k, kind, job) /\ \A i \in Keys : i # k => Same(i)
  <2>1. /\ channels'[k].kind = kind /\ channels'[k].next = 2 /\ channels'[k].future = {}
        /\ channels'[k].active = job /\ channels'[k].tip = TipOf(lastNewPrevHash)
        /\ known'[k] = Learn(<<>>, job) /\ mining'[k] = [job |-> job, tip |-> TipOf(lastNewPrevHash)]
    BY <1>5 DEF OpenedWith, OnTip
  <2>2. DOMAIN known'[k] = {1} BY <1>3, <2>1 DEF Learn
  <2>3. \A i \in Keys : Steady(i) BY AllSteady
  <2>4. Waiting(k)' BY <1>2, <2>1 DEF Waiting, Opened
  <2>5. Kinds(k)' BY <1>1, <1>2, <2>1 DEF Kinds
  <2>6. Informed(k)'
    <3>1. Group(d) \in Keys /\ Group(d) # k /\ Group(d)[1] = d BY <1>2 DEF Group, Keys
    <3>2. channels'[Group(d)] = channels[Group(d)] BY <1>5, <3>1 DEF Same
    <3>3. channels[Group(d)].next >= 2 BY <1>1 DEF WorkOK, Link
    <3>4. channels[Group(d)].future = {}
      <4>1. ChannelOK(Group(d)) /\ Waiting(Group(d)) BY <3>1 DEF ChannelsOK, WorkOK
      <4>2. lastFutureTemplate \in Nat BY DEF FeedOK, FeedTypes
      <4>3. \A j \in channels[Group(d)].future : j.tmpl \in 1..lastNewPrevHash /\ j.tmpl > lastNewPrevHash
        BY <1>1, <1>5, <3>1, <4>1 DEF ChannelOK, Waiting
      <4> QED BY <1>5, <4>2, <4>3
    <3>5. channels[Group(d)].next \in Nat BY <3>1 DEF ChannelsOK, ChannelOK, ChannelRecords
    <3>6. channels'[Group(d)].next \in Nat /\ channels'[Group(d)].next >= 2 /\ channels'[Group(d)].future = {}
      BY <3>2, <3>3, <3>4, <3>5
    <3>7. Counter(k)' \in Nat /\ Counter(k)' >= 2 BY <1>2, <2>1, <3>6 DEF Counter, Group
    <3>8. \A i \in DOMAIN known'[k] : i < Counter(k)' BY <2>2, <3>7
    <3> QED BY <1>2, <2>1, <3>6, <3>8 DEF Informed, Group
  <2>7. Active(k)'
    <3>1. lastNewPrevHash \in 1..Len(templates) /\ Older BY PublishedStays DEF FeedOK, FeedTypes
    <3>2. /\ templates'[lastNewPrevHash].tip = TipOf(lastNewPrevHash) /\ lastNewPrevHash \in 1..Len(templates')
      BY <3>1 DEF Older, TipOf
    <3>3. mining'[k].job = job /\ mining'[k].tip = TipOf(lastNewPrevHash) BY <2>1
    <3>4. lastNewPrevHash' = lastNewPrevHash /\ job.tmpl = lastNewPrevHash BY <1>3, <1>5
    <3>5. ToldActive(k)' BY <2>1 DEF ToldActive, Learn
    <3>6. Agreed(k)' /\ OnItsTip(k)' BY <2>1, <3>2, <3>3, <3>4 DEF Agreed, OnItsTip, TipOf
    <3> QED BY <1>2, <2>1, <3>2, <3>4, <3>5, <3>6 DEF Active, TipOf
  <2> QED BY <1>2, <1>5, <2>3, <2>4, <2>5, <2>6, <2>7, OneChannel
<1> QED BY <1>3, <1>4, <1>5

LEMMA WorkOpenCustom ==
    ASSUME FeedOK, Next, ChannelsOK, WorkOK, NEW d \in Downstreams, NEW a \in Payees, OpenForCustomWork(d, a)
    PROVE  WorkOK'
<1>1. <<d, nextId[d]>> \in Keys /\ nextId[d] # 1 /\ conn[d] = "open" /\ d \in custom /\ d \notin stdjobs
  <2>1. setup \in Setups BY DEF FeedOK, FeedTypes
  <2>2. nextId[d] \in ChannelIds /\ nextId[d] # 1 BY <2>1, SetupAssumption DEF OpenForCustomWork, Opening
  <2> QED BY <2>2 DEF Keys, OpenForCustomWork, Opening
<1>k. PICK k \in Keys : k = <<d, nextId[d]>> BY <1>1
<1>2. k[1] = d /\ k[2] # 1 BY <1>1, <1>k
<1>3. \A i \in Keys : IF i = k THEN CustomOpened(i) ELSE Same(i) BY <1>1, <1>k, CustomOpenApplied
<1>4. UNCHANGED <<conn, custom, stdjobs, lastNewPrevHash>> BY DEF OpenForCustomWork, last
<1>5. \A i \in Keys : Steady(i) BY <1>4, AllSteady
<1>6. /\ channels'[k].kind = "extended" /\ channels'[k].future = {} /\ channels'[k].active = NoJob
      /\ channels'[k].tip = TipOf(lastNewPrevHash) /\ known'[k] = known[k]
      /\ mining'[k] = [job |-> NoJob, tip |-> TipOf(lastNewPrevHash)]
  BY <1>3 DEF CustomOpened
<1>7. NoJob.tmpl = 0 BY EmptyFields DEF FeedOK, FeedTypes
<1>8. known[k] = <<>> BY <1>k, NextIsFree DEF ChannelsOK, ChannelOK
<1>9. DOMAIN known'[k] = {} BY <1>6, <1>8
<1>10. Waiting(k)' /\ Kinds(k)' BY <1>1, <1>2, <1>4, <1>6 DEF Waiting, Opened, Kinds
<1>11. Informed(k)'
  <2>1. k[1] \in custom' /\ OwnIds(k)' BY <1>1, <1>2, <1>4 DEF OwnIds
  <2> QED BY <1>9, <2>1 DEF Informed
<1>12. Active(k)'
  <2>1. mining'[k].job = NoJob /\ mining'[k].tip = TipOf(lastNewPrevHash) BY <1>6
  <2>2. ~Misnamed(k)' BY <1>1, <1>2, <1>4 DEF Misnamed
  <2>3. Agreed(k)' /\ OnItsTip(k)' BY <1>6, <1>7, <2>1 DEF Agreed, OnItsTip
  <2> QED BY <1>1, <1>2, <1>4, <1>6, <1>7, <2>2, <2>3 DEF Active
<1> QED BY <1>2, <1>3, <1>5, <1>10, <1>11, <1>12, OneChannel

\* The channels of a client that takes its work from templates.
LEMMA ServedChannel ==
    ASSUME ChannelsOK, WorkOK, NEW k \in Keys, k \in Opened, k[1] \notin custom
    PROVE  /\ k \in Served /\ Group(k[1]) \in Served /\ Group(k[1]) \in Keys
           /\ channels[Group(k[1])].kind = "group"
           /\ k[1] \in stdjobs => channels[k].kind = "standard"
           /\ TakesOwnJob(k) <=> OwnIds(k)
<1>1. Kinds(k) /\ Link(k[1]) /\ k[1] \in Downstreams /\ Group(k[1]) \in Keys /\ Group(k[1])[1] = k[1] /\ k[2] # 1
  BY KeyFacts DEF WorkOK, Opened
<1>2. channels[Group(k[1])].kind = "group" BY <1>1 DEF Kinds, Link
<1>3. k[1] \in stdjobs => channels[k].kind = "standard" BY <1>1 DEF Kinds
<1>5. k \in Served /\ Group(k[1]) \in Served BY <1>1, <1>2 DEF Served, Registered, Kinds, Opened
<1>6. TakesOwnJob(k) <=> OwnIds(k) BY <1>1, <1>3 DEF TakesOwnJob, OwnIds
<1> QED BY <1>1, <1>2, <1>3, <1>5, <1>6

\* handle_new_template: a future job waits, under an id the client does not
\* know yet; one that is not future is mined, on the tip of the last prevhash.
LEMMA WorkTemplate ==
    ASSUME FeedOK, Next, ChannelsOK, WorkOK, NEW t \in 1..Len(templates), NEW w \in Suffixes, ApplyTemplate(t, w),
           templates[t].future => t > lastFutureTemplate /\ t > lastNewPrevHash,
           ~templates[t].future => TipOf(t) = TipOf(lastNewPrevHash),
           UNCHANGED <<conn, custom, stdjobs, lastNewPrevHash>>
    PROVE  WorkOK'
<1> DEFINE f == templates[t].future
           job(k) == TemplateJob(k, t, w)
<1>1. CASE UNCHANGED <<channels, known, mining>> BY <1>1, WorkQuiet
<1>2. CASE TemplateEffect(t, w)
  <2>1. ASSUME NEW k \in Keys
        PROVE  /\ k \notin Served => channels'[k] = channels[k]
               /\ k \in Served => job(k) \in Jobs /\ TakesJob(channels[k], channels'[k], job(k), TakesOwnJob(k), f)
               /\ k \in Served \cap Opened => Told(k, job(k), f)
               /\ k \notin Served \cap Opened => known'[k] = known[k] /\ mining'[k] = mining[k]
               /\ job(k).tmpl = t /\ job(k).salt = 0
               /\ job(k).id = IF TakesOwnJob(k) THEN channels[k].next ELSE channels[Group(k[1])].next
    BY <1>2 DEF TemplateEffect
  <2>2. /\ \A k \in Keys : Steady(k)
        /\ halt = "no" /\ Older /\ setup' = setup
        /\ lastNewPrevHash \in 1..Len(templates) /\ lastFutureTemplate \in 1..Len(templates)
    BY AllSteady, PublishedStays DEF FeedOK, FeedTypes, Next
  <2>3. f => /\ \A k \in Keys : \A i \in channels[k].future : i.tmpl # t
             /\ t > lastNewPrevHash
    <3>1. \A k \in Keys : \A i \in channels[k].future : i.tmpl \in 1..lastFutureTemplate BY DEF ChannelsOK, ChannelOK
    <3> QED BY <2>2, <3>1
  <2>4. ~f => TipOf(t) = TipOf(lastNewPrevHash) OBVIOUS
  <2>g. \A k \in Keys : ~TakesOwnJob(k) => job(k) = job(Group(k[1]))
    BY KeyFacts DEF TemplateJob, TakesOwnJob, GroupJob, OwnJob, OwnOut
  <2> HIDE DEF f, job
  <2>5. ASSUME NEW d \in Downstreams PROVE Link(d)'
    <3>1. Group(d) \in Keys /\ Group(d)[1] = d /\ Group(d)[2] = 1 BY DEF Group, Keys
    <3>2. Link(d) BY DEF WorkOK
    <3>3. CASE Group(d) \notin Served BY <2>1, <2>2, <3>1, <3>2, <3>3, LinkSame
    <3>4. CASE Group(d) \in Served
      <4>1. conn[d] \in {"setup", "open"} /\ channels[Group(d)].kind = "group" /\ channels[Group(d)].next >= 2
        BY <3>1, <3>2, <3>4 DEF Served, Registered, Link
      <4>2. channels[Group(d)].next \in Nat BY <3>1 DEF ChannelsOK, ChannelOK, ChannelRecords
      <4>3. TakesJob(channels[Group(d)], channels'[Group(d)], job(Group(d)), TakesOwnJob(Group(d)), f)
        BY <2>1, <3>1, <3>4
      <4>4. channels'[Group(d)].kind = "group" /\ channels'[Group(d)].next >= 2 BY <4>1, <4>2, <4>3 DEF TakesJob
      <4> QED BY <2>2, <3>2, <4>1, <4>4 DEF Link, GridPool, JobDeclarator, Group
    <3> QED BY <3>3, <3>4
  <2>6. ASSUME NEW k \in Keys PROVE Waiting(k)'
    <3>1. Waiting(k) BY DEF WorkOK
    <3>2. CASE k \notin Served BY <2>1, <2>2, <3>1, <3>2, WaitingSame
    <3>3. CASE k \in Served
      <4>1. /\ channels'[k].kind = channels[k].kind
            /\ channels'[k].future = (IF f THEN channels[k].future \cup {job(k)} ELSE channels[k].future)
        BY <2>1, <3>3 DEF TakesJob
      <4>2. k[2] # 1 => k \in Opened' BY <3>3, <4>1 DEF Served, Opened
      <4>3. job(k).tmpl = t BY <2>1
      <4>4. k[1] \notin custom => \A j \in channels'[k].future : j.tmpl > lastNewPrevHash
        BY <2>2, <2>3, <3>1, <4>1, <4>3 DEF Waiting
      <4>5. \A i, j \in channels'[k].future : i.tmpl = j.tmpl => i = j
        BY <2>3, <3>1, <4>1, <4>3 DEF Waiting
      <4> QED BY <4>2, <4>4, <4>5 DEF Waiting
    <3> QED BY <3>2, <3>3
  <2>7. ASSUME NEW k \in Keys, k \in Opened' PROVE (Kinds(k) /\ Informed(k) /\ Active(k))'
    <3>1. k \in Opened BY <2>1, <2>7 DEF Opened, TakesJob
    <3>2. Kinds(k) /\ Informed(k) /\ Active(k) /\ Group(k[1]) \in Keys /\ Group(k[1])[1] = k[1]
      BY <3>1, KeyFacts DEF WorkOK
    <3>3. CASE k[1] \in custom
      <4>1. k \notin Served /\ Group(k[1]) \notin Served BY <3>2, <3>3 DEF Served
      <4>2. Same(k) /\ channels'[Group(k[1])] = channels[Group(k[1])] BY <2>1, <3>2, <4>1 DEF Same
      <4> QED BY <2>2, <2>7, <4>2, MineSame
    <3>4. CASE k[1] \notin custom
      <4> DEFINE g == Group(k[1])
      <4>1. k \in Served /\ g \in Served /\ g \in Keys /\ (TakesOwnJob(k) <=> OwnIds(k)) /\ g[2] = 1 /\ g[1] = k[1]
        BY <3>1, <3>4, ServedChannel, KeyFacts
      <4>2. /\ TakesJob(channels[k], channels'[k], job(k), TakesOwnJob(k), f) /\ Told(k, job(k), f)
            /\ TakesJob(channels[g], channels'[g], job(g), TakesOwnJob(g), f) /\ TakesOwnJob(g)
        BY <2>1, <3>1, <4>1 DEF TakesOwnJob
      <4>3. /\ channels[k].next \in Nat /\ channels[g].next \in Nat
        BY <4>1 DEF ChannelsOK, ChannelOK, ChannelRecords
      <4>4. job(k).tmpl = t /\ job(k).salt = 0 /\ job(k).id = Counter(k) /\ Counter(k) \in Nat
        BY <2>1, <4>1, <4>3 DEF Counter
      <4> HIDE DEF g
      <4>5. /\ SameFlags(k) /\ (OwnIds(k)' <=> OwnIds(k)) /\ (Misnamed(k)' <=> Misnamed(k))
            /\ Misnamed(k) => ~Mixed(k) /\ ~Mixed(k)'
        BY <2>2, Escapes DEF Steady
      <4>m. Mixed(k) => Mixed(k)'
        <5>1. channels'[k].next \in Nat /\ channels[k].next <= channels'[k].next BY <4>2, <4>3 DEF TakesJob
        <5> QED BY <4>3, <4>5, <5>1, StaysMixed
      <4>6. Counter(k)' = Counter(k) + 1
        <5>1. OwnIds(k) => channels'[k].next = channels[k].next + 1 BY <4>1, <4>2 DEF TakesJob
        <5>2. channels'[g].next = channels[g].next + 1 BY <4>2 DEF TakesJob
        <5> QED BY <4>5, <5>1, <5>2 DEF Counter, g, Group
      <4>7. \A i \in DOMAIN known[k] : i \in Nat /\ (Mixed(k) \/ i < Counter(k))
        <5>1. \A i \in DOMAIN known[k] : known[k][i] \in Jobs /\ known[k][i].id = i BY DEF ChannelsOK, ChannelOK
        <5>2. \A i \in DOMAIN known[k] : i \in Nat BY <5>1 DEF Jobs
        <5> QED BY <3>2, <5>2 DEF Informed
      <4>8. /\ DOMAIN known'[k] = DOMAIN known[k] \cup {Counter(k)} /\ known'[k][Counter(k)] = job(k)
            /\ \A i \in DOMAIN known[k] : i < Counter(k) => known'[k][i] = known[k][i]
        BY <4>2, <4>4, <4>7 DEF Told, Learn
      <4>9. Informed(k)'
        <5>1. \A j \in channels'[k].future : j.id \in DOMAIN known'[k] /\ Named(k, j)' /\ j.id < Counter(k)'
          <6>1. ASSUME NEW j \in channels[k].future
                PROVE  j.id \in DOMAIN known'[k] /\ Named(k, j)' /\ j.id < Counter(k)'
            <7>1. j.id \in DOMAIN known[k] /\ Named(k, j) /\ j.id < Counter(k) BY <3>2, <3>4 DEF Informed
            <7>2. known'[k][j.id] = known[k][j.id] BY <4>8, <7>1
            <7>3. j.id \in Nat BY <4>7, <7>1
            <7>4. j.id < Counter(k)' BY <4>4, <4>6, <7>1, <7>3
            <7> QED BY <4>8, <4>m, <7>1, <7>2, <7>4 DEF Named
          <6>2. ASSUME NEW j, j = job(k)
                PROVE  j.id \in DOMAIN known'[k] /\ Named(k, j)' /\ j.id < Counter(k)'
            <7>1. known'[k][j.id] = j /\ j.id \in DOMAIN known'[k] BY <4>4, <4>8, <6>2
            <7>2. j.id < Counter(k)' BY <4>4, <4>6, <6>2
            <7> QED BY <7>1, <7>2 DEF Named
          <6>3. channels'[k].future \subseteq channels[k].future \cup {job(k)} BY <4>2 DEF TakesJob
          <6> QED BY <6>1, <6>2, <6>3
        <5>2. ~OwnIds(k) => channels'[k].future = channels'[g].future
          <6>1. ~OwnIds(k) => job(k) = job(g) /\ channels[k].future = channels[g].future
            BY <2>g, <3>2, <4>1 DEF Informed, g
          <6> QED BY <4>2, <6>1 DEF TakesJob
        <5>3. Mixed(k)' \/ \A i \in DOMAIN known'[k] : i < Counter(k)' BY <4>4, <4>6, <4>7, <4>8, <4>m
        <5> QED BY <4>5, <5>1, <5>2, <5>3 DEF Informed, g, Group
      <4>10. Kinds(k)'
        <5>1. channels[k].next >= 2 => channels'[k].next >= 2 BY <4>2, <4>3 DEF TakesJob
        <5> QED BY <2>2, <3>2, <4>2, <5>1, KindsSame DEF TakesJob
      <4>11. Active(k)'
        <5>1. channels'[k].tip = channels[k].tip /\ channels[k].tip = TipOf(lastNewPrevHash)
          BY <2>2, <3>2, <3>4, <4>2 DEF TakesJob, Active
        <5>2. ~Misnamed(k) => Agreed(k)' BY <3>2, <4>2, <4>m DEF TakesJob, Told, Active, Agreed
        <5>3. templates'[lastNewPrevHash].tip = TipOf(lastNewPrevHash) /\ templates'[t].tip = TipOf(t)
          BY <2>2 DEF Older, TipOf
        <5>4. t \in 1..Len(templates') BY <2>2 DEF Older
        <5>5. CASE f
          <6>1. channels'[k].active = channels[k].active BY <4>2, <5>5 DEF TakesJob
          <6>2. channels[k].active.tmpl # 0 =>
                  /\ channels[k].active.tmpl \in 1..Len(templates')
                  /\ templates'[channels[k].active.tmpl] = templates[channels[k].active.tmpl]
            BY <2>2, <3>2 DEF Older, Active
          <6>3. Misnamed(k) => ToldActive(k)'
            <7>1. Misnamed(k) => ToldActive(k) /\ ~Mixed(k) BY <3>2, <4>5 DEF Active
            <7> QED BY <4>7, <4>8, <6>1, <7>1 DEF ToldActive
          <6>4. ~Misnamed(k) => OnItsTip(k)' BY <3>2, <5>1, <6>1, <6>2 DEF Active, OnItsTip, TipOf
          <6> QED BY <2>2, <3>4, <4>5, <5>1, <5>2, <5>3, <6>1, <6>2, <6>3, <6>4 DEF Active, TipOf
        <5>6. CASE ~f
          <6>1. channels'[k].active = job(k) BY <4>2, <5>6 DEF TakesJob
          <6>2. ToldActive(k)' BY <4>4, <4>8, <6>1 DEF ToldActive
          <6>3. OnItsTip(k)' BY <2>4, <4>4, <5>1, <5>3, <5>6, <6>1 DEF OnItsTip, TipOf
          <6> QED BY <2>2, <3>4, <4>4, <4>5, <5>1, <5>2, <5>3, <5>4, <6>1, <6>2, <6>3 DEF Active, TipOf
        <5> QED BY <5>5, <5>6
      <4> QED BY <4>9, <4>10, <4>11
    <3> QED BY <3>3, <3>4
  <2> QED BY <2>5, <2>6, <2>7, NextWorkOK
<1> QED BY <1>1, <1>2, TemplateApplied

\* handle_set_new_prev_hash: every channel switches to the one job that waits
\* for it, and its client is sent the id under which it knows this job.
LEMMA WorkTip == ASSUME FeedOK, Next, ChannelsOK, WorkOK, HandleSetNewPrevHash PROVE WorkOK'
<1> DEFINE t == Head(tpQueue).id
<1>1. UNCHANGED <<conn, custom, stdjobs>> BY DEF HandleSetNewPrevHash, links
<1>2. t \in 1..Len(templates) /\ lastNewPrevHash' = t /\ templates' = templates BY TipApplied DEF HandleSetNewPrevHash
<1>s. setup' = setup /\ setup \in Setups BY DEF FeedOK, FeedTypes, Next
<1>3. CASE halt' = "prevhash" /\ UNCHANGED <<channels, known, mining>> BY <1>1, <1>3, WorkQuiet
<1>4. CASE TipEffect(t)
  <2>1. ASSUME NEW k \in Keys
        PROVE  /\ k \notin Served => channels'[k] = channels[k]
               /\ k \in Served => Accepts(channels[k], t) /\ SwitchesTip(channels[k], channels'[k], t)
               /\ known'[k] = known[k]
               /\ k \notin Served \cap Opened => mining'[k] = mining[k]
               /\ k \in Served \cap Opened =>
                     \E id : SentId(k, id) /\ mining'[k] = Follow(mining[k], known[k], id, TipOf(t))
    BY <1>4 DEF TipEffect
  <2> HIDE DEF t
  <2>2. ASSUME NEW k \in Keys, k \in Served
        PROVE  channels'[k].kind = channels[k].kind /\ channels'[k].next = channels[k].next /\ channels'[k].future = {}
    BY <2>1, <2>2 DEF SwitchesTip, Accepts
  <2>3. ASSUME NEW d \in Downstreams PROVE Link(d)'
    <3>1. Group(d) \in Keys /\ Group(d)[1] = d BY DEF Group, Keys
    <3>2. Link(d) BY DEF WorkOK
    <3>3. CASE Group(d) \notin Served
      <4>1. channels'[Group(d)] = channels[Group(d)] BY <2>1, <3>1, <3>3
      <4> QED BY <1>1, <1>s, <3>2, <4>1 DEF Link, GridPool, JobDeclarator, Group
    <3>4. CASE Group(d) \in Served
      <4>1. conn[d] \in {"setup", "open"} BY <3>1, <3>4 DEF Served, Registered
      <4>2. channels'[Group(d)].kind = channels[Group(d)].kind /\ channels'[Group(d)].next = channels[Group(d)].next
        BY <2>2, <3>1, <3>4
      <4> QED BY <1>1, <1>s, <3>2, <4>1, <4>2 DEF Link, GridPool, JobDeclarator, Group
    <3> QED BY <3>3, <3>4
  <2>4. ASSUME NEW k \in Keys PROVE Waiting(k)'
    <3>1. Waiting(k) BY DEF WorkOK
    <3>2. CASE k \in Served
      <4>1. k[2] = 1 \/ k \in Opened' BY <2>2, <3>2 DEF Served, Opened
      <4> QED BY <2>2, <3>2, <4>1 DEF Waiting
    <3>3. CASE k \notin Served
      <4>1. channels'[k] = channels[k] BY <2>1, <3>3
      <4>2. k[1] \notin custom => channels[k].future = {}
        <5>1. NoChannel.future = {} BY <1>s, EmptyFields
        <5>2. k[1] \notin custom => k \notin Opened BY <3>3, ServedChannel
        <5>3. CASE k[2] # 1 BY <3>1, <5>1, <5>2, <5>3 DEF Waiting
        <5>4. CASE k[2] = 1 /\ k[1] \notin custom
          <6>1. k = Group(k[1]) /\ k[1] \in Downstreams /\ Link(k[1]) BY <5>4, KeyFacts DEF WorkOK
          <6>2. conn[k[1]] \in {"absent", "read", "built", "setup", "open", "gone"}
            BY <6>1 DEF ChannelsOK, LinkTypes
          <6>3. conn[k[1]] \notin {"setup", "open"} BY <3>3, <5>4, <6>1 DEF Served, Registered, Link
          <6> QED BY <5>1, <6>1, <6>2, <6>3 DEF Link
        <5> QED BY <5>3, <5>4
      <4> QED BY <1>1, <3>1, <4>1, <4>2 DEF Waiting, Opened
    <3> QED BY <3>2, <3>3
  <2>5. ASSUME NEW k \in Keys, k \in Opened' PROVE (Kinds(k) /\ Informed(k) /\ Active(k))'
    <3>1. k \in Opened BY <2>1, <2>2, <2>5 DEF Opened
    <3>2. /\ Kinds(k) /\ Informed(k) /\ Active(k) /\ Waiting(k) /\ Group(k[1]) \in Keys /\ Group(k[1])[1] = k[1]
      BY <3>1, KeyFacts DEF WorkOK
    <3>3. CASE k[1] \in custom
      <4>1. k \notin Served /\ Group(k[1]) \notin Served BY <3>2, <3>3 DEF Served
      <4>2. Same(k) /\ channels'[Group(k[1])] = channels[Group(k[1])] BY <2>1, <3>2, <4>1 DEF Same
      <4>3. Kinds(k)' BY <1>1, <3>2, <4>2 DEF Kinds, Same
      <4>f. SameFlags(k) BY <1>1, <1>s DEF SameFlags
      <4>4. Informed(k)' BY <3>2, <4>2, <4>f, InformedSame
      <4>5. Active(k)'
        <5>1. ~Misnamed(k) /\ ~Misnamed(k)' /\ (Mixed(k)' <=> Mixed(k)) BY <3>3, <4>2, <4>f, Escapes DEF Same, Misnamed
        <5>2. Agreed(k)' /\ OnItsTip(k)' BY <1>2, <3>2, <4>2, <5>1 DEF Active, Agreed, OnItsTip, Same, TipOf
        <5> QED BY <1>1, <1>2, <3>2, <3>3, <4>2, <5>1, <5>2 DEF Active, Same
      <4> QED BY <4>3, <4>4, <4>5
    <3>4. CASE k[1] \notin custom
      <4> DEFINE g == Group(k[1])
      <4>1. /\ k \in Served /\ g \in Served /\ g \in Keys /\ channels[g].kind = "group"
            /\ k[1] \in stdjobs => channels[k].kind = "standard"
        BY <3>1, <3>4, ServedChannel
      <4>f. SameFlags(k) BY <1>1, <1>s DEF SameFlags
      <4> HIDE DEF g
      <4>2. /\ Accepts(channels[k], t) /\ SwitchesTip(channels[k], channels'[k], t)
            /\ Accepts(channels[g], t) /\ SwitchesTip(channels[g], channels'[g], t)
        BY <2>1, <4>1
      <4>3. PICK id : SentId(k, id) /\ mining'[k] = Follow(mining[k], known[k], id, TipOf(t)) BY <2>1, <3>1, <4>1
      <4>4. /\ channels'[k].future = {} /\ channels'[k].next = channels[k].next /\ channels'[k].tip = TipOf(t)
            /\ channels'[g].future = {} /\ channels'[g].next = channels[g].next /\ known'[k] = known[k]
        BY <2>1, <2>2, <4>1, <4>2 DEF SwitchesTip
      <4>5. /\ OwnIds(k)' <=> OwnIds(k)
            /\ Misnamed(k)' <=> Misnamed(k)
            /\ Mixed(k)' <=> Mixed(k)
            /\ Misnamed(k) => ~Mixed(k)
        BY <4>4, <4>f, Escapes
      <4>6. channels'[k].active = channels[k].active \/ (channels'[k].active \in channels[k].future /\ channels'[k].active.tmpl = t)
        BY <4>2 DEF SwitchesTip, Matching
      <4>7. ASSUME ~Misnamed(k)
            PROVE  Agreed(k)' /\ channels'[k].active \in channels[k].future /\ channels'[k].active.tmpl = t
        <5>1. Matching(channels[k], t) # {} /\ id = channels'[k].active.id
          <6>1. CASE k[1] \in stdjobs
            <7>1. Matching(channels[k], t) # {} BY <4>1, <4>2, <6>1 DEF Accepts
            <7> QED BY <4>3, <6>1, <7>1 DEF SentId
          <6>2. CASE k[1] \notin stdjobs
            <7>1. ~OwnIds(k) BY <3>4, <4>7, <6>2 DEF OwnIds, Misnamed
            <7>2. channels[k].future = channels[g].future BY <3>2, <7>1 DEF Informed, g
            <7>3. Matching(channels[g], t) # {} BY <4>1, <4>2 DEF Accepts
            <7>4. Matching(channels[k], t) = Matching(channels[g], t) BY <7>2 DEF Matching
            <7>5. channels'[k].active \in Matching(channels[k], t) /\ channels'[g].active \in Matching(channels[k], t)
              BY <4>2, <7>3, <7>4 DEF SwitchesTip
            <7>6. channels'[k].active = channels'[g].active BY <3>2, <7>5 DEF Waiting, Matching
            <7>7. id = channels'[g].active.id BY <4>1, <4>3, <6>2 DEF SentId, g
            <7> QED BY <7>3, <7>4, <7>6, <7>7
          <6> QED BY <6>1, <6>2
        <5>2. channels'[k].active \in channels[k].future /\ channels'[k].active.tmpl = t
          BY <4>2, <5>1 DEF SwitchesTip, Matching
        <5>3. id \in DOMAIN known[k] /\ Named(k, channels'[k].active) BY <3>2, <3>4, <5>1, <5>2 DEF Informed
        <5>4. mining'[k].job = known[k][id] /\ mining'[k].tip = TipOf(t) BY <4>3, <5>3 DEF Follow
        <5>5. Agreed(k)' BY <4>4, <4>5, <5>1, <5>3, <5>4 DEF Agreed, Named
        <5> QED BY <5>2, <5>5
      <4>8. Kinds(k)' BY <1>1, <2>2, <3>2, <4>1 DEF Kinds
      <4>10. Informed(k)'
        <5>1. Counter(k)' = Counter(k) BY <4>4, <4>5 DEF Counter, g, Group
        <5> QED BY <3>2, <4>4, <4>5, <5>1 DEF Informed, g, Group
      <4>11. Active(k)'
        <5>1. channels'[k].active.tmpl # 0 => channels'[k].active.tmpl \in 1..Len(templates')
          BY <1>2, <3>2, <4>6 DEF Active
        <5>2. ~Misnamed(k) => OnItsTip(k)' BY <1>2, <4>4, <4>7 DEF OnItsTip, TipOf
        <5>3. Misnamed(k) => ToldActive(k)'
          <6>1. Misnamed(k) => ToldActive(k) BY <3>2 DEF Active
          <6>2. Misnamed(k) => \A j \in channels[k].future : j.id \in DOMAIN known[k] /\ known[k][j.id] = j
            BY <3>2, <3>4, <4>5 DEF Informed, Named
          <6> QED BY <4>4, <4>6, <6>1, <6>2 DEF ToldActive
        <5> QED BY <1>1, <1>2, <3>4, <4>4, <4>5, <4>7, <5>1, <5>2, <5>3 DEF Active, TipOf
      <4> QED BY <4>8, <4>10, <4>11
    <3> QED BY <3>3, <3>4
  <2> QED BY <2>3, <2>4, <2>5, NextWorkOK
<1> QED BY <1>3, <1>4, TipApplied

LEMMA WorkInit == ASSUME Init PROVE WorkOK
<1>1. setup \in Setups BY DEF Init
<1>2. NoChannel.kind = "none" /\ NoChannel.future = {} BY <1>1, EmptyFields
<1>3. \A k \in Keys : channels[k] = NoChannel BY DEF Init
<1>4. Opened = {} BY <1>2, <1>3 DEF Opened
<1>5. ASSUME NEW d \in Downstreams PROVE Link(d)
  <2>1. conn[d] = "absent" /\ custom = {} /\ stdjobs = {} BY DEF Init
  <2>2. channels[Group(d)] = NoChannel BY <1>3 DEF Group, Keys
  <2> QED BY <2>1, <2>2 DEF Link
<1>6. \A k \in Keys : Waiting(k) BY <1>2, <1>3 DEF Waiting
<1> QED BY <1>4, <1>5, <1>6 DEF WorkOK

\* Client and pool keep agreeing.
LEMMA WorkStep == ASSUME FeedOK, Next, ChannelsOK, WorkOK PROVE WorkOK'
<1>1. CASE \/ \E v \in Values : PublishTip(v) \/ PublishFees(v)
           \/ PublishPrevHash \/ AwaitRefresh \/ FailRefresh \/ Second
           \/ (\E w \in Suffixes : PollWork(w)) \/ \E d \in Downstreams : HandleOther(d)
  BY <1>1, WorkQuiet DEF PublishTip, PublishFees, Publish, PublishPrevHash, AwaitRefresh, FailRefresh, Second, PollWork,
                         HandleOther, links, client, last
<1>2. CASE HandleNewTemplate
  <2> DEFINE t == Head(tpQueue).id
  <2>1. /\ ApplyTemplate(t, work) /\ UNCHANGED <<conn, custom, stdjobs, lastNewPrevHash>> /\ Receiving("template")
    BY <1>2 DEF HandleNewTemplate, links
  <2>2. /\ Head(tpQueue) = tpQueue[1] /\ 1 \in 1..Len(tpQueue) /\ tpQueue[1].kind = "template"
        /\ tpQueue[1].id \in 1..Len(templates) /\ work \in Suffixes
    BY <2>1, Popped, QueueTypes DEF Receiving, FeedOK, FeedTypes
  <2>3. t > lastFutureTemplate /\ t > lastNewPrevHash BY <2>2 DEF FeedOK, QueueInOrder
  <2>4. ~templates[t].future => TipOf(t) = TipOf(lastNewPrevHash)
    BY <2>2 DEF FeedOK, TipsAnnounced, Announced
  <2>5. t \in 1..Len(templates) BY <2>2
  <2> HIDE DEF t
  <2> QED BY <2>1, <2>2, <2>3, <2>4, <2>5, WorkTemplate
<1>3. ASSUME NEW w \in Suffixes, FinishRefresh(w) PROVE WorkOK'
  <2>1. /\ pending \in 1..Len(templates) /\ pending > lastFutureTemplate /\ pending > lastNewPrevHash
        /\ templates[pending].future
    BY <1>3 DEF FinishRefresh, FeedOK, FeedTypes, QueueInOrder
  <2> QED BY <1>3, <2>1, WorkTemplate DEF FinishRefresh, links
<1>4. CASE HandleSetNewPrevHash BY <1>4, WorkTip
<1>5. ASSUME NEW d \in Downstreams, ReadTemplate(d) \/ BuildGroup(d) \/ Register(d) PROVE WorkOK'
  BY <1>5, WorkRead, WorkBuild, WorkRegister
<1>6. ASSUME NEW d \in Downstreams, NEW f \in setup.flags, SetupConnection(d, f[1], f[2]) PROVE WorkOK'
  BY <1>6, WorkSetup
<1>7. ASSUME NEW d \in Downstreams, Leave(d) \/ OpenUnaffordable(d) PROVE WorkOK'
  BY <1>7, WorkRemove DEF Leave, OpenUnaffordable, last
<1>8. ASSUME NEW d \in Downstreams, NEW a \in Payees, OpenStandard(d, a) PROVE WorkOK'
  BY <1>8, WorkOpen DEF OpenStandard, last
<1>9. ASSUME NEW d \in Downstreams, NEW a \in Payees, OpenExtended(d, a) PROVE WorkOK'
  BY <1>9, WorkOpen DEF OpenExtended, last
<1>10. ASSUME NEW d \in Downstreams, NEW a \in Payees, OpenForCustomWork(d, a) PROVE WorkOK'
  BY <1>10, WorkOpenCustom
<1>11. ASSUME NEW d \in Downstreams, NEW a \in Payees, OpenRefused(d, a) PROVE WorkOK'
  BY <1>11, WorkQuiet DEF OpenRefused, last, client
<1>12. ASSUME NEW k \in Keys, CloseChannel(k) PROVE WorkOK' BY <1>12, WorkClose
<1>13. ASSUME NEW k \in Keys, NEW v \in Values, SetCustomMiningJob(k, v) PROVE WorkOK' BY <1>13, WorkCustomJob
<1>14. CASE RefreshFeeJobs BY <1>14, WorkRefresh
<1> QED BY <1>1, <1>2, <1>3, <1>4, <1>5, <1>6, <1>7, <1>8, <1>9, <1>10, <1>11, <1>12, <1>13, <1>14, Steps

\* No id a client knows is given to another job, unless it mixes two counters.
IdsStay(k) == \A i \in DOMAIN known[k] \cap DOMAIN known'[k] : known'[k][i] = known[k][i]

LEMMA IdsKept == ASSUME FeedOK, Next, ChannelsOK, WorkOK, NEW k \in Keys, ~Mixed(k)' PROVE IdsStay(k)
<1>s. setup \in Setups /\ work \in Suffixes BY DEF FeedOK, FeedTypes
<1>0. ASSUME known'[k] = known[k] PROVE IdsStay(k) BY <1>0 DEF IdsStay
<1>a. ASSUME known'[k] = <<>> PROVE IdsStay(k) BY <1>a DEF IdsStay
<1>b. ASSUME k \notin Opened PROVE IdsStay(k) BY <1>b DEF ChannelsOK, ChannelOK, IdsStay
<1>c. ASSUME k \in Opened, ~Mixed(k), NEW j, j.id = Counter(k), known'[k] = Learn(known[k], j) PROVE IdsStay(k)
  <2>1. \A i \in DOMAIN known[k] : i < Counter(k) BY <1>c DEF WorkOK, Informed
  <2>2. \A i \in DOMAIN known[k] : known[k][i] \in Jobs /\ known[k][i].id = i BY DEF ChannelsOK, ChannelOK
  <2>3. \A i \in DOMAIN known[k] : i \in Nat BY <2>2 DEF Jobs
  <2>4. Counter(k) \in Nat BY KeyFacts DEF Counter, ChannelsOK, ChannelOK, ChannelRecords
  <2>5. \A i \in DOMAIN known[k] : i # j.id BY <1>c, <2>1, <2>3, <2>4
  <2> QED BY <1>c, <2>5 DEF Learn, IdsStay
<1>1. CASE UNCHANGED known BY <1>0, <1>1
<1>2. ASSUME NEW t \in 1..Len(templates), NEW w \in Suffixes, ApplyTemplate(t, w),
             templates[t].future => t > lastFutureTemplate, UNCHANGED <<custom, stdjobs>>
      PROVE  IdsStay(k)
  <2>1. CASE TemplateEffect(t, w)
    <3>1. CASE k \in Served \cap Opened
      <4>1. /\ known'[k] = Learn(known[k], TemplateJob(k, t, w))
            /\ TemplateJob(k, t, w).id = IF TakesOwnJob(k) THEN channels[k].next ELSE channels[Group(k[1])].next
        BY <2>1, <3>1 DEF TemplateEffect, Told
      <4>2. TakesOwnJob(k) <=> OwnIds(k) BY <3>1, ServedChannel DEF Served
      <4>3. ~Mixed(k)
        <5>1. channels[k].next \in Nat BY DEF ChannelsOK, ChannelOK, ChannelRecords
        <5>2. channels'[k].next \in {channels[k].next, channels[k].next + 1}
          BY <2>1, <3>1 DEF TemplateEffect, TakesJob
        <5>3. SameFlags(k) BY <1>2 DEF SameFlags, Next
        <5> QED BY <5>1, <5>2, <5>3, StaysMixed
      <4> QED BY <1>c, <3>1, <4>1, <4>2, <4>3 DEF Counter
    <3>2. CASE k \notin Served \cap Opened BY <1>0, <2>1, <3>2 DEF TemplateEffect
    <3> QED BY <3>1, <3>2
  <2> QED BY <1>1, <1>2, <2>1, TemplateApplied
<1>3. CASE HandleNewTemplate
  <2>1. Head(tpQueue).id \in 1..Len(templates) /\ Head(tpQueue).id > lastFutureTemplate
    BY <1>3, Popped, QueueTypes DEF HandleNewTemplate, Receiving, FeedOK, FeedTypes, QueueInOrder
  <2> QED BY <1>2, <1>3, <1>s, <2>1 DEF HandleNewTemplate, links
<1>4. ASSUME NEW w \in Suffixes, FinishRefresh(w) PROVE IdsStay(k)
  <2>1. pending \in 1..Len(templates) /\ pending > lastFutureTemplate
    BY <1>4 DEF FinishRefresh, FeedOK, FeedTypes, QueueInOrder
  <2> QED BY <1>2, <1>4, <2>1 DEF FinishRefresh, links
<1>5. CASE \/ \E v \in Values : PublishTip(v) \/ PublishFees(v)
           \/ PublishPrevHash \/ AwaitRefresh \/ FailRefresh \/ Second
           \/ (\E w \in Suffixes : PollWork(w))
           \/ \E d \in Downstreams : HandleOther(d) \/ ReadTemplate(d) \/ BuildGroup(d) \/ Register(d)
  BY <1>1, <1>5 DEF PublishTip, PublishFees, Publish, PublishPrevHash, AwaitRefresh, FailRefresh, Second, PollWork,
                    HandleOther, ReadTemplate, BuildGroup, Register, client
<1>6. CASE HandleSetNewPrevHash
  <2>1. CASE TipEffect(Head(tpQueue).id) BY <1>0, <2>1 DEF TipEffect
  <2> QED BY <1>1, <1>6, <2>1, TipApplied
<1>7. ASSUME NEW d \in Downstreams, NEW f \in setup.flags, SetupConnection(d, f[1], f[2]) PROVE IdsStay(k)
  BY <1>1, <1>7 DEF SetupConnection, client
<1>8. ASSUME NEW d \in Downstreams, Leave(d) \/ OpenUnaffordable(d) PROVE IdsStay(k)
  <2>1. IF k[1] = d THEN Cleared(k) ELSE Same(k) BY <1>8, <1>s, RemoveApplied DEF Leave, OpenUnaffordable
  <2> QED BY <1>0, <1>a, <2>1 DEF Cleared, Same
<1>9. ASSUME NEW d \in Downstreams, NEW a \in Payees, NEW kind \in {"standard", "extended"},
             Affordable, Opening(d, a), OpenWith(<<d, nextId[d]>>, kind, a)
      PROVE  IdsStay(k)
  <2>1. <<d, nextId[d]>> \in Keys /\ halt = "no"
    <3>1. nextId[d] \in ChannelIds BY <1>9, <1>s, SetupAssumption DEF Opening
    <3> QED BY <1>9, <3>1 DEF Keys, Opening, Serving
  <2>2. CASE k = <<d, nextId[d]>> BY <1>b, <2>2, NextIsFree
  <2>3. CASE k # <<d, nextId[d]>>
    <3>1. UNCHANGED <<channels, known, mining>> \/ Same(k) BY <1>9, <2>1, <2>3, OpenApplied
    <3> QED BY <1>0, <1>1, <3>1 DEF Same
  <2> QED BY <2>2, <2>3
<1>10. ASSUME NEW d \in Downstreams, NEW a \in Payees,
              OpenStandard(d, a) \/ OpenExtended(d, a) \/ OpenForCustomWork(d, a) \/ OpenRefused(d, a)
       PROVE  IdsStay(k)
  BY <1>1, <1>9, <1>10 DEF OpenStandard, OpenExtended, OpenForCustomWork, OpenRefused, client
<1>11. ASSUME NEW i \in Keys, CloseChannel(i) PROVE IdsStay(k)
  <2>1. Cleared(k) \/ Same(k) BY <1>11, CloseApplied
  <2> QED BY <1>0, <1>a, <2>1 DEF Cleared, Same
<1>12. ASSUME NEW i \in Keys, NEW v \in Values, SetCustomMiningJob(i, v) PROVE IdsStay(k)
  <2>1. CASE i # k BY <1>0, <1>12, <2>1, CustomJobApplied DEF Same
  <2>2. CASE i = k
    <3>1. k \in Opened /\ SameFlags(k) BY <1>12, <2>2 DEF SetCustomMiningJob, links, SameFlags, Next
    <3>2. Kinds(k) BY <3>1 DEF WorkOK
    <3>3. PICK j \in Jobs : j.id = channels[k].next /\ TakesNow(k, j) BY <1>12, <2>2, CustomJobApplied
    <3>4. channels[k].next \in Nat /\ channels'[k].next = channels[k].next + 1
      BY <3>3 DEF TakesNow, ChannelsOK, ChannelOK, ChannelRecords
    <3>5. OwnIds(k)
      <4> SUFFICES ASSUME ~OwnIds(k) PROVE Mixed(k)' OBVIOUS
      <4> QED BY <3>1, <3>2, <3>4 DEF OwnIds, Kinds, Mixed, SameFlags, GridPool
    <3>6. ~Mixed(k) BY <3>1, <3>5, Escapes
    <3> QED BY <1>c, <3>1, <3>3, <3>5, <3>6 DEF Counter, TakesNow
  <2> QED BY <2>1, <2>2
<1>13. CASE RefreshFeeJobs
  <2>1. /\ GridPool
        /\ Same(k) \/ (k \in Opened /\ \E j \in Jobs : j.id = channels[k].next /\ TakesNow(k, j))
    BY <1>13, RefreshApplied
  <2>2. Counter(k) = channels[k].next /\ ~Mixed(k) BY <2>1 DEF Counter, OwnIds, Mixed
  <2> QED BY <1>0, <1>c, <2>1, <2>2 DEF Same, TakesNow
<1> QED BY <1>3, <1>4, <1>5, <1>6, <1>7, <1>8, <1>10, <1>11, <1>12, <1>13, Steps

-----------------------------------------------------------------------------
(* The theorems. *)

LEMMA FeedTemplates ==
    ASSUME FeedOK
    PROVE  /\ DOMAIN templates = 1..Len(templates)
           /\ \A i \in 1..Len(templates) : templates[i] \in [tip : 1..MaxTemplates, future : BOOLEAN, val : Values]
           /\ \A i \in DOMAIN tpQueue : tpQueue[i] \in TpMessages
<1>1. templates \in Seq(TemplateRecords) /\ tpQueue \in Seq(TpMessages) BY DEF FeedOK, FeedTypes
<1>2. ASSUME NEW i \in 1..Len(templates) PROVE templates[i] \in [tip : 1..MaxTemplates, future : BOOLEAN, val : Values]
  <2>1. templates[i] \in TemplateRecords BY <1>1
  <2>2. templates[i].tip \in 1..MaxTemplates BY TipTypes DEF TipOf
  <2> QED BY <2>1, <2>2 DEF TemplateRecords
<1> QED BY <1>1, <1>2

LEMMA TypesFollow == ASSUME FeedOK, ChannelsOK PROVE TypeOK
<1>1. /\ setup \in Setups /\ owed \in 0..Len(templates) /\ pending \in 0..Len(templates)
      /\ lastFutureTemplate \in 1..Len(templates) /\ templates[lastFutureTemplate].future
      /\ lastNewPrevHash \in 1..Len(templates) /\ templates[lastNewPrevHash].future
      /\ work \in Suffixes /\ now \in 1..MaxNow /\ halt \in Causes
  BY DEF FeedOK, FeedTypes
<1>2. due \in 0..MaxNow
  <2>1. MaxNow \in Nat /\ now \in 1..MaxNow /\ due \in 0..(now - 1) BY SetupFacts DEF FeedOK, FeedTypes
  <2> QED BY <2>1
<1>3. \A k \in Keys :
          /\ channels[k].kind \in {"none", "group", "standard", "extended"}
          /\ channels[k].future \subseteq Jobs /\ channels[k].active \in Jobs
          /\ channels[k].next \in Nat /\ channels[k].tip \in 0..MaxTemplates
          /\ \A i \in DOMAIN known[k] : known[k][i] \in Jobs /\ known[k][i].id = i
          /\ mining[k] \in [job : Jobs, tip : 0..MaxTemplates]
  BY DEF ChannelsOK, ChannelOK, ChannelRecords, MiningRecords
<1>4. /\ conn \in [Downstreams -> {"absent", "read", "built", "setup", "open", "gone"}]
      /\ seen \in [Downstreams -> 0..MaxTemplates]
      /\ custom \subseteq Downstreams /\ stdjobs \subseteq Downstreams
      /\ nextId \in [Downstreams -> Nat]
      /\ payoutMode \in [Downstreams -> Payees] /\ payouts \in [Keys -> Payees]
  BY DEF ChannelsOK, LinkTypes
<1> QED BY <1>1, <1>2, <1>3, <1>4, FeedTemplates DEF TypeOK

LEMMA FeedStutters == ASSUME FeedOK, UNCHANGED vars PROVE FeedOK'
  BY FeedAside DEF Aside, vars, clock, FeedOK, FeedTypes

LEMMA ChannelsStutter == ASSUME ChannelsOK, UNCHANGED vars PROVE ChannelsOK'
<1>1. UNCHANGED <<setup, lastFutureTemplate, conn, seen, custom, stdjobs, nextId, channels, payoutMode, payouts, known,
                  mining>>
  BY DEF vars, last, links, pays, client
<1>2. LinkTypes' BY <1>1, SameSets DEF ChannelsOK, LinkTypes
<1>3. ASSUME NEW k \in Keys PROVE ChannelOK(k)'
  <2>1. ChannelOK(k) BY DEF ChannelsOK
  <2> QED BY <1>1, <2>1, SameSets DEF ChannelOK, Opened, PaysOwner
<1> QED BY <1>2, <1>3 DEF ChannelsOK

LEMMA WorkStutters == ASSUME WorkOK, UNCHANGED vars PROVE WorkOK'
<1>1. UNCHANGED <<setup, templates, lastNewPrevHash, conn, custom, stdjobs, channels, known, mining, halt>>
  BY DEF vars, tp, last, links, client
<1>2. \A k \in Keys : SameFlags(k) /\ Same(k) BY <1>1 DEF SameFlags, Same
<1>3. \A d \in Downstreams : Link(d)' BY <1>1 DEF WorkOK, Link, Group
<1>4. \A k \in Keys : Waiting(k)' BY <1>1 DEF WorkOK, Waiting, Opened
<1>5. ASSUME NEW k \in Keys, k \in Opened' PROVE (Kinds(k) /\ Informed(k) /\ Active(k))'
  <2>1. Kinds(k) /\ Informed(k) /\ Active(k) BY <1>1, <1>5 DEF WorkOK, Opened
  <2>2. Kinds(k)' BY <1>1, <2>1 DEF Kinds
  <2>3. Informed(k)' BY <1>1, <1>2, <2>1, InformedSame
  <2>4. (Misnamed(k)' <=> Misnamed(k)) /\ (Mixed(k)' <=> Mixed(k)) BY <1>1, <1>2, Escapes
  <2>5. /\ Agreed(k) => Agreed(k)'
        /\ ToldActive(k) => ToldActive(k)'
        /\ OnItsTip(k) => OnItsTip(k)'
    BY <1>1, <2>4 DEF Agreed, ToldActive, OnItsTip, TipOf
  <2>6. Active(k)' BY <1>1, <2>1, <2>4, <2>5 DEF Active, TipOf
  <2> QED BY <2>2, <2>3, <2>6
<1> QED BY <1>3, <1>4, <1>5, NextWorkOK

\* The feed comes in order and the channels are well formed, always.
LEMMA ChannelsAlwaysOK == Spec => [](FeedOK /\ ChannelsOK)
<1>1. Init => FeedOK /\ ChannelsOK BY FeedInit, ChannelsInit
<1>2. FeedOK /\ ChannelsOK /\ [Next]_vars => (FeedOK /\ ChannelsOK)'
  BY FeedStep, ChannelsStep, FeedStutters, ChannelsStutter
<1> QED BY <1>1, <1>2, PTL DEF Spec

\* In every deployment the templates, channels and clients of the pool have
\* their types, whatever the order of templates, opens, custom jobs and fee
\* ticks (ChannelManager::start): no channel takes a job of a template that
\* has not come, and no coinbase output underflows.
THEOREM WorkIsTyped == Spec => []TypeOK
<1>1. FeedOK /\ ChannelsOK => TypeOK BY TypesFollow
<1> QED BY <1>1, ChannelsAlwaysOK, PTL

\* "A valid address becomes slot 0 for that channel" (README): in every
\* deployment, for any number of clients and addresses, no job a client mines
\* pays the address of another client, although an open overwrites the payout
\* mode of its connection, and templates and fee ticks make the jobs of all
\* channels at once.
THEOREM SlotZeroIsAlwaysOwn == Spec => []SlotZeroIsOwn
<1>1. ChannelsOK => SlotZeroIsOwn BY DEF ChannelsOK, ChannelOK, SlotZeroIsOwn, PaysOwner, Opened
<1> QED BY <1>1, ChannelsAlwaysOK, PTL

\* Client and pool agree, but for the exceptions the properties name.
LEMMA WorkAlwaysOK == Spec => [](FeedOK /\ ChannelsOK /\ WorkOK)
<1>1. Init => WorkOK BY WorkInit
<1>2. FeedOK /\ ChannelsOK /\ WorkOK /\ [Next]_vars => WorkOK' BY WorkStep, WorkStutters
<1> QED BY <1>1, <1>2, ChannelsAlwaysOK, PTL DEF Spec

\* What the pool will judge the shares of a client by is what the client was
\* told to mine, although jobs and prevhashes are sent to the group, to the
\* channel, or not at all (handle_new_template, handle_set_new_prev_hash,
\* handle_open_*, handle_set_custom_mining_job, refresh_gridpool_fee_jobs);
\* and a client that brings its own work is given a template's only by a fee
\* tick.  In every deployment and with any flags: a client whose
\* SetNewPrevHash is misnamed has at least been told the active job, one that
\* mixes template jobs and custom jobs mines the active job or one of its own.
THEOREM ClientsAgreeWithPool == Spec => []WorkInv
<1>1. ASSUME FeedOK, ChannelsOK, WorkOK PROVE WorkInv
  <2>1. ASSUME NEW k \in Opened
        PROVE  /\ IF Misnamed(k) THEN \E i \in DOMAIN known[k] : known[k][i] = channels[k].active
                  ELSE /\ mining[k].tip = channels[k].tip
                       /\ mining[k].job = channels[k].active \/ (Mixed(k) /\ mining[k].job.tmpl = 0)
               /\ k[1] \in custom /\ mining[k].job.salt = 0 => mining[k].job.tmpl = 0
    <3>1. Active(k) /\ k \in Keys BY <1>1 DEF WorkOK, Opened
    <3>2. k[1] \in custom => ~Misnamed(k) /\ ~Mixed(k) BY DEF Misnamed, Mixed
    <3>3. CASE Misnamed(k) BY <3>1, <3>2, <3>3 DEF Active, ToldActive
    <3>4. CASE ~Misnamed(k) BY <3>1, <3>2, <3>4 DEF Active, Agreed
    <3> QED BY <3>3, <3>4
  <2>2. AgreesWithServer /\ CustomWorkUntouched BY <2>1 DEF AgreesWithServer, CustomWorkUntouched
  <2> QED BY <1>1, <2>2, TypesFollow DEF WorkInv
<1>2. FeedOK /\ ChannelsOK /\ WorkOK => WorkInv BY <1>1
<1> QED BY <1>2, WorkAlwaysOK, PTL

\* In every deployment: no client mines a job on another tip than the one the
\* job was made for, and once the pool has served the template provider no
\* client is left on an old tip, whenever it opened its channel.  The job of a
\* fee tick and the clients of a misnamed SetNewPrevHash are excepted.
THEOREM ClientsMineOnTheirTip == Spec => []TipsInv
<1>1. ASSUME FeedOK, ChannelsOK, WorkOK PROVE MinesItsTip
  <2>1. \A k \in Opened : Active(k) BY <1>1 DEF WorkOK
  <2> QED BY <2>1 DEF MinesItsTip, Active, Agreed, OnItsTip
<1>2. ASSUME FeedOK, ChannelsOK, WorkOK PROVE CaughtUp
  <2> SUFFICES ASSUME halt = "no", tpQueue = <<>>, owed = 0, NEW k \in Opened, k[1] \notin custom, ~Misnamed(k)
               PROVE  mining[k].tip = TipOf(Len(templates))
    BY DEF CaughtUp
  <2>1. Active(k) BY <1>2 DEF WorkOK
  <2>2. TipOf(lastNewPrevHash) = TipOf(Len(templates)) BY <1>2 DEF FeedOK, TipsAnnounced, Announced
  <2> QED BY <2>1, <2>2 DEF Active, Agreed
<1>3. FeedOK /\ ChannelsOK /\ WorkOK => TipsInv BY <1>1, <1>2 DEF TipsInv
<1> QED BY <1>3, WorkAlwaysOK, PTL

\* In every deployment: a job id means one job as long as its channel is open,
\* although the ids come from two counters, the group's and the channel's, for
\* every client but one that mixes the two.
THEOREM JobIdsMeanOneJob == Spec => JobIdsUnambiguous
<1> DEFINE Stay == \A k \in Keys : Mixed(k)' \/ \A i \in DOMAIN known[k] \cap DOMAIN known'[k] :
                      known'[k][i] = known[k][i]
<1>1. ASSUME FeedOK, ChannelsOK, WorkOK, Next PROVE Stay BY <1>1, IdsKept DEF IdsStay
<1>2. FeedOK /\ ChannelsOK /\ WorkOK /\ [Next]_vars => [Stay]_vars BY <1>1
<1> QED BY <1>2, WorkAlwaysOK, PTL DEF Spec, JobIdsUnambiguous
===============================================================================
