------------------------ MODULE DeclaratorClientProofs ------------------------
(***************************************************************************)
(* The tokens and the shares of the job declarator client, for every set of *)
(* miners and every bound on templates and shares: each token that is taken *)
(* is replaced and none is declared twice (TokensInv), and a share goes     *)
(* upstream once, under a job of the present tip that the pool knows        *)
(* (SharesInv).                                                             *)
(***************************************************************************)
EXTENDS DeclaratorClient, FiniteSetTheorems, WellFoundedInduction, TLAPS

\* The future template that waits for its prevhash is the newest template, and
\* all that came after the last prevhash before it belong to that prevhash.
TemplatesOK ==
    /\ lastPrev <= lastFuture /\ lastFuture <= Len(templates)
    /\ IF owed THEN lastFuture = Len(templates) /\ lastPrev < lastFuture ELSE lastPrev = lastFuture
    /\ lastFuture # 0 => templates[lastFuture]
    /\ lastPrev # 0 => templates[lastPrev]
    /\ \A u \in 1..Len(templates) : u > lastPrev /\ u # lastFuture => ~templates[u]
    /\ templateStore \subseteq 1..Len(templates)

\* A template of the present tip.
Live(t) ==
    /\ lastPrev # 0 /\ t \in lastPrev..Len(templates)
    /\ owed => t < lastFuture

\* Without the upstream channel the transactions of a template were asked for
\* once, and in coinbase-only mode nothing is declared.
RequestsOK ==
    /\ ~channel => \A t \in Templates : requests[t] <= 1
    /\ config # "full" => (\A t \in Templates : requests[t] = 0) /\ declares = {} /\ spent = <<>>

\* A job that is stored for the future template waits for its prevhash.
Stored == {r \in DOMAIN jobs : owed /\ jobs[r].tmpl = lastFuture}

\* Every request id is used for one job, which is declared at most once.
JobsOK ==
    /\ \E n \in Nat : \A r \in DOMAIN jobs \cup DOMAIN custom : r <= n
    /\ \A r \in DOMAIN jobs : jobs[r].tmpl <= Len(templates) /\ jobs[r].token \in 1..issued
    /\ declares \cap DOMAIN custom = {}
    /\ config = "full" => Stored \cap (declares \cup DOMAIN custom) = {}

\* A token is in the stock, with a job that waits for its prevhash, or spent.
StockOK ==
    /\ IsInjective(tokens)
    /\ config = "full" =>
          /\ \A i \in DOMAIN tokens, j \in DOMAIN spent : tokens[i] # spent[j]
          /\ \A r \in Stored : /\ \A i \in DOMAIN tokens : tokens[i] # jobs[r].token
                               /\ \A j \in DOMAIN spent : spent[j] # jobs[r].token

\* A miner works on templates of the present tip, and only its shares wait.
MinersOK ==
    /\ upstreamState \in {"Pending", "Connected"} => lastPrev # 0
    /\ \A m \in Miners : /\ miner[m] # "out" => lastPrev # 0
                         /\ miner[m] # "open" => known[m] = {}
                         /\ \A t \in known[m] : Live(t)
    /\ \A t \in Templates : cached[t] # {} => Live(t)

\* The jobs of the upstream channel are for its tip, and found by their template.
UpstreamOK ==
    /\ \A r \in accepted : custom[r].prev = lastPrev
    /\ \A t \in Templates : upstreamJob[t] # 0 => custom[upstreamJob[t]].tmpl = t

\* k is the future template that t follows.
TipIs(t, k) ==
    /\ k \in 1..t /\ t <= Len(templates) /\ templates[k]
    /\ \A u \in 1..Len(templates) : k < u /\ u <= t => ~templates[u]

Message == [share : Nat, tmpl : Nat, job : Nat, tip : Nat]

\* What was sent was sent under its job, and waits nowhere any more.
SentOK ==
    /\ sent \in Seq(Message)
    /\ \A i \in DOMAIN sent :
          /\ sent[i].share \in shares /\ sent[i].job \in DOMAIN custom
          /\ custom[sent[i].job].tmpl = sent[i].tmpl
          /\ custom[sent[i].job].prev = sent[i].tip
          /\ TipIs(sent[i].tmpl, sent[i].tip)
          /\ \A t \in Templates : sent[i].share \notin cached[t]
    /\ \A t, u \in Templates : t # u => cached[t] \cap cached[u] = {}
    /\ SharesSentOnce

\* The inductive invariant behind TokensInv and SharesInv.
ClientInv ==
    /\ TypeOK /\ TemplatesOK /\ RequestsOK /\ JobsOK
    /\ StockOK /\ MinersOK /\ UpstreamOK /\ SentOK /\ TokensReplaced /\ TokensUsedOnce

-----------------------------------------------------------------------------
(* Numbers, sequences and tips. *)

\* A bounded set of numbers has a largest one: its smallest upper bound.
LEMMA LargestBounded ==
    ASSUME NEW S \in SUBSET Nat, S # {}, NEW n \in Nat, \A s \in S : s <= n
    PROVE  Max(S) \in S /\ \A s \in S : s <= Max(S)
<1> DEFINE Bounds == {b \in Nat : \A s \in S : s <= b}
<1>1. PICK b \in Bounds : \A c \in Bounds : ~ (<<c, b>> \in OpToRel(<, Nat))
  <2>1. Bounds \subseteq Nat /\ Bounds # {} OBVIOUS
  <2> HIDE DEF Bounds
  <2> QED BY <2>1, NatLessThanWellFounded, WFMin
<1>2. \A c \in Bounds : b <= c
  <2>1. ASSUME NEW c \in Bounds PROVE b <= c
    <3>1. <<c, b>> \in Nat \X Nat /\ ~(<<c, b>> \in {ss \in Nat \X Nat : ss[1] < ss[2]})
      BY <1>1, Zenon DEF OpToRel
    <3> QED BY <3>1
  <2> QED BY <2>1
<1>3. b \in S
  <2>1. SUFFICES ASSUME b \notin S PROVE FALSE OBVIOUS
  <2>2. \A s \in S : s <= b /\ s # b /\ s \in Nat BY <2>1
  <2>3. PICK s \in S : TRUE OBVIOUS
  <2>4. b - 1 \in Nat BY <2>2, <2>3
  <2>5. b - 1 \in Bounds BY <2>2, <2>4
  <2> QED BY <1>2, <2>4, <2>5
<1>4. \A s \in S : b >= s OBVIOUS
<1>5. Max(S) \in S /\ \A s \in S : Max(S) >= s BY <1>3, <1>4 DEF Max
<1> QED BY <1>5

\* The request ids that are given out are new.
LEMMA NewIdsAreNew ==
    ASSUME DOMAIN jobs \subseteq Nat, DOMAIN custom \subseteq Nat, NEW b \in Nat,
           \A r \in DOMAIN jobs \cup DOMAIN custom : r <= b, NEW n \in Nat
    PROVE  /\ NewIds(n) \subseteq Nat /\ NewIds(n) \cap (DOMAIN jobs \cup DOMAIN custom) = {}
           /\ \E c \in Nat : \A r \in NewIds(n) \cup DOMAIN jobs \cup DOMAIN custom : r <= c
           /\ n = 1 => (CHOOSE i \in NewIds(1) : TRUE) \in NewIds(1)
<1> DEFINE used == DOMAIN custom \cup DOMAIN jobs
           last == IF used = {} THEN 0 ELSE Max(used)
<1>1. last \in Nat /\ \A r \in used : r <= last
  <2>1. used \in SUBSET Nat /\ \A r \in used : r <= b OBVIOUS
  <2>2. CASE used = {} BY <2>2
  <2>3. CASE used # {}
    <3> HIDE DEF used
    <3>1. Max(used) \in used /\ \A r \in used : r <= Max(used) BY <2>1, <2>3, LargestBounded
    <3> QED BY <2>1, <2>3, <3>1
  <2> QED BY <2>2, <2>3
<1>2. NewIds(n) = (last + 1)..(last + n) BY DEF NewIds
<1> HIDE DEF last
<1>3. NewIds(n) \subseteq Nat /\ NewIds(n) \cap used = {} BY <1>1, <1>2
<1>4. last + n \in Nat /\ \A r \in NewIds(n) \cup used : r <= last + n BY <1>1, <1>2
<1>5. n = 1 => last + 1 \in NewIds(1) BY <1>1, <1>2
<1> QED BY <1>3, <1>4, <1>5

LEMMA FiniteInterval == ASSUME NEW n \in Nat PROVE IsFiniteSet(1..n)
BY FS_Interval

\* SetToSeq lists the elements of a finite set, each once.
LEMMA SetToSeqLists ==
    ASSUME NEW S, IsFiniteSet(S)
    PROVE  SetToSeq(S) \in Seq(S) /\ IsInjective(SetToSeq(S))
<1>1. Cardinality(S) \in Nat /\ ExistsBijection(1..Cardinality(S), S) BY FS_CardinalityType
<1>2. PICK f \in [1..Cardinality(S) -> S] : IsInjective(f)
  BY <1>1 DEF ExistsBijection, Bijection, Injection, IsInjective
<1>3. SetToSeq(S) \in [1..Cardinality(S) -> S] /\ IsInjective(SetToSeq(S)) BY <1>2, Zenon DEF SetToSeq
<1> QED BY <1>1, <1>3

\* The elements of a concatenation.
LEMMA ConcatParts ==
    ASSUME NEW T, NEW a \in Seq(T), NEW b \in Seq(T)
    PROVE  /\ a \o b \in Seq(T) /\ DOMAIN (a \o b) = 1..(Len(a) + Len(b))
           /\ \A i \in 1..Len(a) : (a \o b)[i] = a[i]
           /\ \A i \in (Len(a) + 1)..(Len(a) + Len(b)) : (a \o b)[i] = b[i - Len(a)] /\ i - Len(a) \in DOMAIN b
           /\ Len(a) \in Nat /\ Len(b) \in Nat /\ DOMAIN a = 1..Len(a) /\ DOMAIN b = 1..Len(b)
OBVIOUS

\* Two injective sequences without a common element.
LEMMA ConcatInjective ==
    ASSUME NEW T, NEW a \in Seq(T), NEW b \in Seq(T), IsInjective(a), IsInjective(b),
           \A i \in DOMAIN a, j \in DOMAIN b : a[i] # b[j]
    PROVE  a \o b \in Seq(T) /\ IsInjective(a \o b)
<1> DEFINE c == a \o b
           n == Len(a)
           m == Len(b)
<1>1. /\ c \in Seq(T) /\ DOMAIN c = 1..(n + m)
      /\ \A i \in 1..n : c[i] = a[i]
      /\ \A i \in (n + 1)..(n + m) : c[i] = b[i - n] /\ i - n \in DOMAIN b
      /\ n \in Nat /\ m \in Nat /\ DOMAIN a = 1..n /\ DOMAIN b = 1..m
  BY ConcatParts
<1> HIDE DEF c, n, m
<1>2. ASSUME NEW i \in 1..(n + m), NEW j \in 1..(n + m), c[i] = c[j] PROVE i = j
  <2>1. ASSUME NEW k \in 1..(n + m), k <= n PROVE k \in DOMAIN a /\ c[k] = a[k]
    <3>1. k \in 1..n BY <1>1, <2>1
    <3> QED BY <1>1, <3>1
  <2>2. ASSUME NEW k \in 1..(n + m), k > n PROVE k - n \in DOMAIN b /\ c[k] = b[k - n]
    <3>1. k \in (n + 1)..(n + m) BY <1>1, <2>2
    <3> QED BY <1>1, <3>1
  <2>3. CASE i <= n /\ j <= n BY <1>2, <2>1, <2>3 DEF IsInjective
  <2>4. CASE i > n /\ j > n
    <3>1. i - n = j - n BY <1>2, <2>2, <2>4 DEF IsInjective
    <3> QED BY <1>1, <3>1
  <2>5. CASE i <= n /\ j > n BY <1>2, <2>1, <2>2, <2>5
  <2>6. CASE i > n /\ j <= n BY <1>2, <2>1, <2>2, <2>6
  <2> QED BY <1>1, <2>3, <2>4, <2>5, <2>6
<1>3. IsInjective(c) BY <1>1, <1>2 DEF IsInjective
<1> QED BY <1>1, <1>3 DEF c

\* The tip of a template is the one future template that it follows.
LEMMA TipOf ==
    ASSUME NEW t \in Nat, NEW k, TipIs(t, k) PROVE Tip(t) = k
<1> DEFINE S == {u \in 1..t : templates[u]}
<1>1. k \in S /\ \A u \in S : k >= u BY DEF TipIs
<1>2. Max(S) \in S /\ \A u \in S : Max(S) >= u
  <2> HIDE DEF S
  <2> QED BY <1>1 DEF Max
<1>3. Max(S) = k BY <1>1, <1>2
<1> QED BY <1>3 DEF Tip

\* Templates of the present tip follow the template of the last prevhash.
LEMMA LiveTip ==
    ASSUME TypeOK, TemplatesOK, NEW t, Live(t) PROVE TipIs(t, lastPrev) /\ t \in Templates /\ t \in Nat
<1>1. Len(templates) \in Nat /\ lastPrev \in Nat /\ lastFuture \in Nat /\ MaxTemplates \in Nat
  BY DeclaratorAssumption DEF TypeOK
<1>2. t \in Nat /\ lastPrev \in 1..t /\ t <= Len(templates) /\ t \in Templates BY <1>1 DEF Live, Templates, TypeOK
<1>3. \A u \in 1..Len(templates) : lastPrev < u /\ u <= t => ~templates[u]
  BY <1>1, <1>2 DEF TemplatesOK, Live
<1> QED BY <1>2, <1>3 DEF TipIs, TemplatesOK, Live

\* A sequence over a set is one over every larger set.
LEMMA WiderSeq ==
    ASSUME NEW S, NEW U, S \in SUBSET U, NEW s \in Seq(S) PROVE s \in Seq(U)
<1>1. Len(s) \in Nat /\ s \in [1..Len(s) -> S] OBVIOUS
<1>2. s \in [1..Len(s) -> U] BY <1>1
<1> QED BY <1>1, <1>2


-----------------------------------------------------------------------------
(* The steps. *)

\* A part of the invariant stays true while nothing it speaks of changes.
LEMMA Frame ==
    /\ UNCHANGED <<work, templates, owed>> =>
          (TemplatesOK => TemplatesOK') /\ \A t : Live(t) => Live(t)'
    /\ UNCHANGED <<channel, requests, config, declares, spent>> => (RequestsOK => RequestsOK')
    /\ UNCHANGED <<jobs, custom, templates, issued, declares, config, owed, lastFuture>> => (JobsOK => JobsOK')
    /\ UNCHANGED <<tokens, spent, config, jobs, owed, lastFuture>> => (StockOK => StockOK')
    /\ UNCHANGED <<work, templates, owed, upstreamState, miner, known, cached>> => (MinersOK => MinersOK')
    /\ UNCHANGED <<accepted, custom, upstreamJob, lastPrev>> => (UpstreamOK => UpstreamOK')
    /\ UNCHANGED <<sent, shares, custom, templates, cached>> => (SentOK => SentOK')
    /\ UNCHANGED <<config, upstreamState, asked, tokens, lost>> => (TokensReplaced => TokensReplaced')
    /\ UNCHANGED spent => (TokensUsedOnce => TokensUsedOnce')
<1>1. UNCHANGED <<work, templates, owed>> => (TemplatesOK => TemplatesOK') /\ \A t : Live(t) => Live(t)'
  BY DEF TemplatesOK, Live, work
<1>2. UNCHANGED <<channel, requests, config, declares, spent>> => (RequestsOK => RequestsOK')
  BY DEF RequestsOK
<1>3. UNCHANGED <<jobs, custom, templates, issued, declares, config, owed, lastFuture>> => (JobsOK => JobsOK')
  BY DEF JobsOK, Stored
<1>4. UNCHANGED <<tokens, spent, config, jobs, owed, lastFuture>> => (StockOK => StockOK')
  BY DEF StockOK, Stored
<1>5. UNCHANGED <<work, templates, owed, upstreamState, miner, known, cached>> => (MinersOK => MinersOK')
  BY <1>1 DEF MinersOK, work
<1>6. UNCHANGED <<accepted, custom, upstreamJob, lastPrev>> => (UpstreamOK => UpstreamOK')
  BY DEF UpstreamOK
<1>7. UNCHANGED <<sent, shares, custom, templates, cached>> => (SentOK => SentOK')
  BY DEF SentOK, TipIs, SharesSentOnce
<1>8. UNCHANGED <<config, upstreamState, asked, tokens, lost>> => (TokensReplaced => TokensReplaced')
  BY DEF TokensReplaced
<1>9. UNCHANGED spent => (TokensUsedOnce => TokensUsedOnce') BY DEF TokensUsedOnce
<1> QED BY <1>1, <1>2, <1>3, <1>4, <1>5, <1>6, <1>7, <1>8, <1>9

\* The client starts with nothing, and is reset to that.
Nothing ==
    /\ mode = "solo" /\ templates = <<>> /\ owed = FALSE /\ requests = [t \in Templates |-> 0]
    /\ templateStore = {} /\ lastFuture = 0 /\ lastPrev = 0
    /\ tokens = <<>> /\ asked = 0 /\ issued = 0 /\ lost = 0
    /\ jobs = <<>> /\ declares = {} /\ spent = <<>> /\ atPool = {} /\ custom = <<>>
    /\ upstreamState = "SoloMining" /\ channel = FALSE
    /\ upstreamJob = [t \in Templates |-> 0] /\ accepted = {}
    /\ pending = <<>> /\ miner = [m \in Miners |-> "out"]
    /\ known = [m \in Miners |-> {}] /\ behind = {}
    /\ cached = [t \in Templates |-> {}] /\ shares = {} /\ sent = <<>>

LEMMA NothingIsFine ==
    ASSUME config \in Modes, over \in {"no", "fallback", "shutdown"}, Nothing PROVE ClientInv
<1> USE DEF Nothing
<1>1. TypeOK
  <2>1. MaxTemplates \in Nat /\ Len(templates) = 0 /\ DOMAIN jobs = {} /\ DOMAIN custom = {} /\ DOMAIN sent = {}
    BY DeclaratorAssumption
  <2>2. templates \in Seq(BOOLEAN) /\ tokens \in Seq(1..issued) /\ spent \in Seq(1..issued) /\ pending \in Seq(Miners)
    OBVIOUS
  <2>3. upstreamJob \in [Templates -> {0} \cup DOMAIN custom] /\ cached \in [Templates -> SUBSET shares]
    OBVIOUS
  <2>4. requests \in [Templates -> 0..2] /\ miner \in [Miners -> {"out", "idle", "waiting", "open", "gone"}]
    OBVIOUS
  <2>5. known \in [Miners -> SUBSET Templates] OBVIOUS
  <2>6. channel = (upstreamState = "Connected") OBVIOUS
  <2>7. /\ Len(templates) <= MaxTemplates /\ {lastFuture, lastPrev} \subseteq 0..MaxTemplates
        /\ mode \in {"solo", config} /\ upstreamState \in {"SoloMining", "NoChannel", "Pending", "Connected"}
    <3>1. lastFuture = 0 /\ lastPrev = 0 /\ 0 \in 0..MaxTemplates BY <2>1
    <3>2. Len(templates) <= MaxTemplates BY <2>1
    <3> QED BY <3>1, <3>2, Zenon
  <2>8. owed \in BOOLEAN /\ behind \subseteq Miners /\ lost \in Nat OBVIOUS
  <2>9. /\ asked \in Nat /\ issued \in Nat /\ DOMAIN jobs \subseteq Nat /\ DOMAIN custom \subseteq Nat
        /\ declares \subseteq DOMAIN jobs /\ atPool \subseteq DOMAIN custom /\ accepted \subseteq DOMAIN custom
        /\ templateStore \subseteq Templates /\ shares \subseteq 1..MaxShares
    OBVIOUS
  <2> HIDE DEF Nothing
  <2> QED BY <2>1, <2>2, <2>3, <2>4, <2>5, <2>6, <2>7, <2>8, <2>9 DEF TypeOK
<1>2. TemplatesOK BY DEF TemplatesOK
<1>3. RequestsOK BY DEF RequestsOK
<1>4. JobsOK
  <2>1. 0 \in Nat /\ \A r \in DOMAIN jobs \cup DOMAIN custom : r <= 0 OBVIOUS
  <2> QED BY <2>1 DEF JobsOK, Stored
<1>5. StockOK BY DEF StockOK, Stored, IsInjective
<1>6. MinersOK BY DEF MinersOK
<1>7. UpstreamOK BY DEF UpstreamOK
<1>8. SentOK BY DEF SentOK, SharesSentOnce
<1>9. TokensReplaced /\ TokensUsedOnce BY DEF TokensReplaced, TokensUsedOnce, IsInjective
<1> QED BY <1>1, <1>2, <1>3, <1>4, <1>5, <1>6, <1>7, <1>8, <1>9 DEF ClientInv

LEMMA ClientInit == ASSUME Init PROVE ClientInv
BY NothingIsFine DEF Init, Nothing

\* A refusal resets the runtime state.
LEMMA RefusedStep == ASSUME ClientInv, Refused PROVE ClientInv'
<1>1. Nothing' BY DEF Refused, ResetRuntimeState, Nothing
<1>2. config' \in Modes /\ over' \in {"no", "fallback", "shutdown"} BY DEF Refused, ClientInv, TypeOK
<1>3. (config \in Modes /\ over \in {"no", "fallback", "shutdown"} /\ Nothing => ClientInv)'
  BY NothingIsFine, PTL
<1> QED BY <1>1, <1>2, <1>3

\* The start-up of the client, and an answer of the pool it cannot use.
LEMMA StartStep ==
    ASSUME ClientInv, ActivateMode \/ UpstreamReady \/ OpenUnusable PROVE ClientInv'
<1> USE DEF ClientInv, setup, tp, work, stock, decl, pool, up, opens, shr
<1>1. CASE ActivateMode
  <2>1. TypeOK' BY <1>1 DEF ActivateMode, TypeOK
  <2> QED BY <1>1, <2>1, Frame DEF ActivateMode
<1>2. CASE UpstreamReady
  <2>1. TypeOK' BY <1>2 DEF UpstreamReady, TypeOK
  <2>2. MinersOK' BY <1>2, Frame DEF UpstreamReady, MinersOK
  <2>3. TokensReplaced'
    <3>1. asked \in Nat /\ Len(tokens) \in Nat /\ lost \in Nat BY DEF TypeOK
    <3>2. asked' = asked + 2 /\ tokens' = tokens /\ lost' = lost /\ config' = config BY <1>2 DEF UpstreamReady
    <3> QED BY <3>1, <3>2 DEF TokensReplaced
  <2> QED BY <1>2, <2>1, <2>2, <2>3, Frame DEF UpstreamReady
<1>3. CASE OpenUnusable
  <2>1. TypeOK' BY <1>3 DEF OpenUnusable, TypeOK
  <2>2. MinersOK' BY <1>3, Frame DEF OpenUnusable, MinersOK
  <2>3. TokensReplaced' BY <1>3 DEF OpenUnusable, TokensReplaced
  <2> QED BY <1>3, <2>1, <2>2, <2>3, Frame DEF OpenUnusable
<1> QED BY <1>1, <1>2, <1>3

\* Channels are opened on the last future template when its prevhash is there.
LEMMA OpensOnTip ==
    ASSUME ClientInv, NEW set, OpenAll(set), set = {} \/ (Ready /\ lastPrev # 0)
    PROVE  /\ miner' \in [Miners -> {"out", "idle", "waiting", "open", "gone"}] /\ known' \in [Miners -> SUBSET Templates]
           /\ \A n \in Miners : (miner'[n] # "open" => known'[n] = {}) /\ \A t \in known'[n] : Live(t)
<1>1. /\ miner \in [Miners -> {"out", "idle", "waiting", "open", "gone"}] /\ known \in [Miners -> SUBSET Templates]
      /\ \A n \in Miners : (miner[n] # "open" => known[n] = {}) /\ \A t \in known[n] : Live(t)
  BY DEF ClientInv, TypeOK, MinersOK
<1>2. set # {} => lastFuture \in Templates /\ Live(lastFuture)
  <2>1. SUFFICES ASSUME Ready, lastPrev # 0 PROVE lastFuture \in Templates /\ Live(lastFuture) OBVIOUS
  <2>2. Live(lastFuture) BY <2>1 DEF ClientInv, Ready, Live, TemplatesOK, TypeOK
  <2> QED BY <2>2, LiveTip DEF ClientInv
<1>3. \A n \in Miners : /\ miner'[n] = IF n \in set THEN "open" ELSE miner[n]
                        /\ known'[n] = IF n \in set THEN {lastFuture} ELSE known[n]
  BY DEF OpenAll
<1>4. miner' \in [Miners -> {"out", "idle", "waiting", "open", "gone"}] /\ known' \in [Miners -> SUBSET Templates]
  BY <1>1, <1>2 DEF OpenAll
<1> QED BY <1>1, <1>2, <1>3, <1>4

\* Miners come, open and close channels, and leave.
LEMMA MinerStep ==
    ASSUME ClientInv, NEW m \in Miners, Join(m) \/ HandleOpen(m) \/ HandleCloseChannel(m) \/ RemoveDownstream(m)
    PROVE  ClientInv'
<1> USE DEF ClientInv, setup, tp, work, stock, decl, pool, up, opens, shr
<1>1. CASE Join(m)
  <2>1. TypeOK' BY <1>1 DEF Join, TypeOK
  <2>2. MinersOK' BY <1>1, Frame DEF Join, MinersOK, TypeOK
  <2> QED BY <1>1, <2>1, <2>2, Frame DEF Join
<1>2. CASE HandleOpen(m)
  <2>1. lastPrev # 0 BY <1>2 DEF HandleOpen, MinersOK
  <2>2. /\ pending' \in Seq(Miners)
        /\ UNCHANGED <<setup, tp, work, stock, decl, pool, channel, upstreamJob, accepted, behind, shr>>
    <3>1. pending \in Seq(Miners) BY DEF TypeOK
    <3>2. <<m>> \o pending \in Seq(Miners) /\ Append(pending, m) \in Seq(Miners) BY <3>1
    <3> QED BY <1>2, <3>1, <3>2 DEF HandleOpen
  <2>3. /\ upstreamState' \in {upstreamState, "Pending"} /\ (upstreamState' # upstreamState => upstreamState = "NoChannel")
        /\ over' \in {over, "shutdown"}
    BY <1>2 DEF HandleOpen
  <2>4. \/ UNCHANGED <<miner, known>>
        \/ miner' = [miner EXCEPT ![m] = "waiting"] /\ known' = known /\ miner[m] = "idle"
        \/ Ready /\ OpenAll({m})
    BY <1>2 DEF HandleOpen
  <2>5. /\ miner' \in [Miners -> {"out", "idle", "waiting", "open", "gone"}] /\ known' \in [Miners -> SUBSET Templates]
        /\ \A n \in Miners : (miner'[n] # "open" => known'[n] = {}) /\ \A t \in known'[n] : Live(t)
    <3>1. /\ miner \in [Miners -> {"out", "idle", "waiting", "open", "gone"}] /\ known \in [Miners -> SUBSET Templates]
          /\ \A n \in Miners : (miner[n] # "open" => known[n] = {}) /\ \A t \in known[n] : Live(t)
      BY DEF TypeOK, MinersOK
    <3>2. CASE UNCHANGED <<miner, known>> BY <3>1, <3>2
    <3>3. CASE miner' = [miner EXCEPT ![m] = "waiting"] /\ known' = known /\ miner[m] = "idle" BY <3>1, <3>3
    <3>4. CASE Ready /\ OpenAll({m})
      <4> HIDE DEF ClientInv
      <4> QED BY <2>1, <3>4, OpensOnTip
    <3> QED BY <2>4, <3>2, <3>3, <3>4
  <2>6. TypeOK' BY <2>2, <2>3, <2>5 DEF TypeOK
  <2>7. \A t : Live(t) => Live(t)' BY <2>2, Frame
  <2>8. MinersOK' BY <2>1, <2>2, <2>5, <2>7 DEF MinersOK
  <2>9. TokensReplaced' BY <2>2, <2>3 DEF TokensReplaced
  <2> QED BY <2>2, <2>6, <2>8, <2>9, Frame
<1>3. CASE HandleCloseChannel(m)
  <2>1. TypeOK' BY <1>3 DEF HandleCloseChannel, TypeOK
  <2>2. MinersOK' BY <1>3, Frame DEF HandleCloseChannel, MinersOK, TypeOK
  <2> QED BY <1>3, <2>1, <2>2, Frame DEF HandleCloseChannel
<1>4. CASE RemoveDownstream(m)
  <2>1. TypeOK' BY <1>4 DEF RemoveDownstream, TypeOK
  <2>2. MinersOK' BY <1>4, Frame DEF RemoveDownstream, MinersOK, TypeOK, Registered
  <2> QED BY <1>4, <2>1, <2>2, Frame DEF RemoveDownstream
<1> QED BY <1>1, <1>2, <1>3, <1>4

\* The upstream channel is there, and the waiting opens are served.
LEMMA ServedOnTip ==
    ASSUME ClientInv, lastPrev # 0, NEW k \in 0..Len(pending), NEW refused \in SUBSET Miners, Serve(k, refused)
    PROVE  /\ miner' \in [Miners -> {"out", "idle", "waiting", "open", "gone"}] /\ known' \in [Miners -> SUBSET Templates]
           /\ \A n \in Miners : (miner'[n] # "open" => known'[n] = {}) /\ \A t \in known'[n] : Live(t)
<1> DEFINE handled == {pending[i] : i \in 1..k}
           failed == IF k < Len(pending) THEN {pending[k + 1]} \cap Registered ELSE {}
           granted == handled \ refused
<1>1. /\ miner \in [Miners -> {"out", "idle", "waiting", "open", "gone"}] /\ known \in [Miners -> SUBSET Templates]
      /\ \A n \in Miners : (miner[n] # "open" => known[n] = {}) /\ \A t \in known[n] : Live(t)
  BY DEF ClientInv, TypeOK, MinersOK
<1>2. CASE UNCHANGED <<miner, known>> BY <1>1, <1>2
<1>3. CASE /\ Ready \/ granted = {}
           /\ miner' = [m \in Miners |-> IF m \in granted THEN "open" ELSE IF m \in refused THEN "idle"
                                         ELSE IF m \in failed THEN "gone" ELSE miner[m]]
           /\ known' = [m \in Miners |-> IF m \in granted THEN {lastFuture}
                                         ELSE IF m \in refused \cup failed THEN {} ELSE known[m]]
  <2>1. granted # {} => lastFuture \in Templates /\ Live(lastFuture)
    <3>1. SUFFICES ASSUME Ready PROVE lastFuture \in Templates /\ Live(lastFuture) BY <1>3
    <3>2. Live(lastFuture) BY <3>1 DEF ClientInv, Ready, Live, TemplatesOK, TypeOK
    <3> QED BY <3>2, LiveTip DEF ClientInv
  <2> HIDE DEF granted, failed
  <2>2. ASSUME NEW n \in Miners
        PROVE  /\ miner'[n] \in {"out", "idle", "waiting", "open", "gone"} /\ known'[n] \in SUBSET Templates
               /\ (miner'[n] # "open" => known'[n] = {}) /\ \A t \in known'[n] : Live(t)
    <3>1. CASE n \in granted
      <4>1. miner'[n] = "open" BY <1>3, <3>1
      <4>2. known'[n] = {lastFuture} BY <1>3, <3>1
      <4> QED BY <2>1, <3>1, <4>1, <4>2
    <3>2. CASE n \notin granted /\ n \in refused \cup failed
      <4>1. miner'[n] \in {"idle", "gone"} /\ known'[n] = {} BY <1>3, <3>2
      <4> QED BY <4>1
    <3>3. CASE n \notin granted /\ n \notin refused \cup failed
      <4>1. miner'[n] = miner[n] /\ known'[n] = known[n] BY <1>3, <3>3
      <4> QED BY <1>1, <4>1
    <3> QED BY <3>1, <3>2, <3>3
  <2>3. /\ miner' = [n \in Miners |-> miner'[n]] /\ known' = [n \in Miners |-> known'[n]]
    BY <1>3
  <2> QED BY <2>2, <2>3
<1> QED BY <1>2, <1>3 DEF Serve

LEMMA ChannelStep == ASSUME ClientInv, HandleOpenExtendedMiningChannelSuccess PROVE ClientInv'
<1> USE DEF setup, tp, work, stock, decl, pool, up, opens, shr
<1>1. lastPrev # 0 BY DEF HandleOpenExtendedMiningChannelSuccess, ClientInv, MinersOK
<1>2. /\ miner' \in [Miners -> {"out", "idle", "waiting", "open", "gone"}] /\ known' \in [Miners -> SUBSET Templates]
      /\ \A n \in Miners : (miner'[n] # "open" => known'[n] = {}) /\ \A t \in known'[n] : Live(t)
  <2>1. PICK k \in 0..Len(pending), refused \in SUBSET Miners : Serve(k, refused)
    BY DEF HandleOpenExtendedMiningChannelSuccess
  <2> QED BY <1>1, <2>1, ServedOnTip
<1>3. /\ UNCHANGED <<setup, templates, owed, work, stock, decl, pool, upstreamJob, accepted, shr>>
      /\ upstreamState' = "Connected" /\ channel' = TRUE /\ upstreamState = "Pending"
      /\ pending' = <<>> /\ over' \in {over, "shutdown"} /\ behind' \subseteq Miners
  <2>1. PICK k \in 0..Len(pending), refused \in SUBSET Miners : Serve(k, refused)
    BY DEF HandleOpenExtendedMiningChannelSuccess
  <2>2. behind' \subseteq Miners
    <3>1. behind \subseteq Miners /\ pending \in Seq(Miners) BY DEF ClientInv, TypeOK
    <3>2. \A i \in (k + 2)..Len(pending) : pending[i] \in Miners BY <3>1
    <3> QED BY <2>1, <3>1, <3>2 DEF Serve
  <2>3. over' \in {over, "shutdown"} BY <2>1 DEF Serve
  <2> QED BY <2>2, <2>3 DEF HandleOpenExtendedMiningChannelSuccess
<1>4. requests' \in [Templates -> 0..2] /\ (config # "full" => requests' = requests)
  <2>1. lastFuture \in Templates
    BY <1>1, DeclaratorAssumption DEF ClientInv, TypeOK, TemplatesOK, Templates
  <2>2. ~channel BY <1>3 DEF ClientInv, TypeOK
  <2>3. requests \in [Templates -> 0..2] /\ requests[lastFuture] <= 1 BY <2>1, <2>2 DEF ClientInv, TypeOK, RequestsOK
  <2>4. mode \in {"solo", config} BY DEF ClientInv, TypeOK
  <2>5. requests' = requests \/ (mode = "full" /\ requests' = [requests EXCEPT ![lastFuture] = @ + 1])
    BY DEF HandleOpenExtendedMiningChannelSuccess
  <2>6. requests[lastFuture] + 1 \in 0..2 BY <2>1, <2>3
  <2> QED BY <2>1, <2>3, <2>4, <2>5, <2>6
<1> USE DEF ClientInv
<1>5. TypeOK'
  <2>1. pending' \in Seq(Miners) BY <1>3
  <2>2. channel' = (upstreamState' = "Connected") BY <1>3
  <2> QED BY <1>2, <1>3, <1>4, <2>1, <2>2 DEF TypeOK
<1>6. RequestsOK' BY <1>3, <1>4 DEF RequestsOK
<1>7. MinersOK'
  <2>1. \A t : Live(t) => Live(t)' BY <1>3, Frame
  <2> QED BY <1>1, <1>2, <1>3, <2>1 DEF MinersOK
<1>8. TokensReplaced' BY <1>3 DEF TokensReplaced
<1> QED BY <1>3, <1>5, <1>6, <1>7, <1>8, Frame

\* Shares that are sent: what is added, and that none is sent twice.
LEMMA SharesAreSent ==
    ASSUME TypeOK, SentOK, NEW chosen \in SUBSET (1..MaxShares), NEW t \in Nat, NEW r \in Nat, SendShares(chosen, t, r),
           \A i \in DOMAIN sent : sent[i].share \notin chosen
    PROVE  /\ sent' \in Seq(Message) /\ SharesSentOnce'
           /\ \A i \in DOMAIN sent' :
                 \/ i \in DOMAIN sent /\ sent'[i] = sent[i]
                 \/ \E s \in chosen : sent'[i] = [share |-> s, tmpl |-> t, job |-> r, tip |-> lastPrev]
<1> DEFINE S == {[share |-> s, tmpl |-> t, job |-> r, tip |-> lastPrev] : s \in chosen}
           q == SetToSeq(S)
<1>1. lastPrev \in Nat /\ MaxShares \in Nat BY DeclaratorAssumption DEF TypeOK
<1>2. IsFiniteSet(S)
  <2>1. IsFiniteSet(chosen)
    <3>1. IsFiniteSet(1..MaxShares) BY <1>1, FiniteInterval
    <3> QED BY <3>1, FS_Subset
  <2>2. [m \in S |-> m.share] \in Injection(S, chosen) BY DEF Injection, IsInjective
  <2> HIDE DEF S
  <2> QED BY <2>1, <2>2, FS_Injection
<1>3. q \in Seq(S) /\ IsInjective(q)
  <2> HIDE DEF S
  <2> QED BY <1>2, SetToSeqLists
<1>4. sent' = sent \o q BY DEF SendShares
<1>5. \A x \in S : x \in Message
  <2>1. ASSUME NEW s \in chosen PROVE [share |-> s, tmpl |-> t, job |-> r, tip |-> lastPrev] \in Message
    BY <1>1 DEF Message
  <2> QED BY <2>1
<1> HIDE DEF q
<1>6. \A x \in S : \E s \in chosen : x = [share |-> s, tmpl |-> t, job |-> r, tip |-> lastPrev] OBVIOUS
<1>7. \A x, y \in S : x.share = y.share => x = y OBVIOUS
<1>8. \A x \in S : x.share \in chosen OBVIOUS
<1> HIDE DEF S
<1>9. /\ sent \in Seq(Message) /\ q \in Seq(Message) /\ Len(sent) \in Nat /\ Len(q) \in Nat
      /\ DOMAIN sent = 1..Len(sent) /\ DOMAIN q = 1..Len(q) /\ \A j \in DOMAIN q : q[j] \in S
  <2>1. sent \in Seq(Message) BY DEF SentOK
  <2>2. q \in Seq(Message)
    <3>1. S \in SUBSET Message BY <1>5
    <3> QED BY <1>3, <3>1, WiderSeq
  <2> QED BY <1>3, <2>1, <2>2
<1>10. /\ sent' \in Seq(Message) /\ DOMAIN sent' = 1..(Len(sent) + Len(q))
       /\ \A i \in 1..Len(sent) : sent'[i] = sent[i]
       /\ \A i \in (Len(sent) + 1)..(Len(sent) + Len(q)) : sent'[i] = q[i - Len(sent)] /\ i - Len(sent) \in DOMAIN q
  BY <1>4, <1>9, ConcatParts
<1>11. ASSUME NEW i \in DOMAIN sent', NEW j \in DOMAIN sent', sent'[i].share = sent'[j].share PROVE i = j
  <2>1. CASE i <= Len(sent) /\ j <= Len(sent) BY <1>9, <1>10, <1>11, <2>1 DEF SentOK, SharesSentOnce
  <2>2. CASE i > Len(sent) /\ j > Len(sent)
    <3>1. i - Len(sent) \in DOMAIN q /\ j - Len(sent) \in DOMAIN q BY <1>9, <1>10, <2>2
    <3>5. /\ i \in (Len(sent) + 1)..(Len(sent) + Len(q))
          /\ j \in (Len(sent) + 1)..(Len(sent) + Len(q)) BY <1>9, <1>10, <2>2
    <3>6. sent'[i] = q[i - Len(sent)] /\ sent'[j] = q[j - Len(sent)] BY <1>10, <3>5
    <3>2. q[i - Len(sent)].share = q[j - Len(sent)].share BY <1>11, <3>6
    <3>3. q[i - Len(sent)] = q[j - Len(sent)] BY <1>7, <1>9, <3>1, <3>2
    <3>4. i - Len(sent) = j - Len(sent) BY <1>3, <3>1, <3>3 DEF IsInjective
    <3> QED BY <1>9, <1>10, <3>4
  <2>3. CASE i <= Len(sent) /\ j > Len(sent)
    <3>1. i \in DOMAIN sent /\ sent'[i] = sent[i] BY <1>9, <1>10, <2>3
    <3>2. j \in (Len(sent) + 1)..(Len(sent) + Len(q)) BY <1>9, <1>10, <2>3
    <3>3. sent'[j] \in S BY <1>9, <1>10, <3>2
    <3> QED BY <1>8, <1>11, <3>1, <3>3
  <2>4. CASE i > Len(sent) /\ j <= Len(sent)
    <3>1. j \in DOMAIN sent /\ sent'[j] = sent[j] BY <1>9, <1>10, <2>4
    <3>2. i \in (Len(sent) + 1)..(Len(sent) + Len(q)) BY <1>9, <1>10, <2>4
    <3>3. sent'[i] \in S BY <1>9, <1>10, <3>2
    <3> QED BY <1>8, <1>11, <3>1, <3>3
  <2> QED BY <1>9, <1>10, <2>1, <2>2, <2>3, <2>4
<1>12. ASSUME NEW i \in DOMAIN sent'
       PROVE  \/ i \in DOMAIN sent /\ sent'[i] = sent[i]
              \/ \E s \in chosen : sent'[i] = [share |-> s, tmpl |-> t, job |-> r, tip |-> lastPrev]
  <2>1. CASE i <= Len(sent) BY <1>9, <1>10, <2>1
  <2>2. CASE i > Len(sent) BY <1>6, <1>9, <1>10, <2>2
  <2> QED BY <1>9, <1>10, <2>1, <2>2
<1> QED BY <1>10, <1>11, <1>12 DEF SharesSentOnce

\* A share is sent, or waits in the cache.
LEMMA ShareStep ==
    ASSUME ClientInv, NEW m \in Miners, NEW t \in Templates, NEW s \in 1..MaxShares, HandleSubmitShares(m, t, s)
    PROVE  ClientInv'
<1> USE DEF setup, tp, work, stock, decl, pool, up, opens, shr
<1>1. /\ UNCHANGED <<setup, tp, work, stock, decl, pool, up, opens, over>> /\ shares' = shares \cup {s}
      /\ s \notin shares /\ t \in known[m]
  BY DEF HandleSubmitShares
<1>2. Live(t) BY <1>1 DEF ClientInv, MinersOK
<1>3. TipIs(t, lastPrev) /\ t \in Nat BY <1>2, LiveTip DEF ClientInv
<1>4. /\ cached \in [Templates -> SUBSET shares] /\ shares \subseteq 1..MaxShares
      /\ \A u \in Templates : cached[u] # {} => Live(u)
      /\ \A u, v \in Templates : u # v => cached[u] \cap cached[v] = {}
  BY DEF ClientInv, TypeOK, MinersOK, SentOK
<1>5. /\ sent \in Seq(Message) /\ SharesSentOnce
      /\ \A i \in DOMAIN sent :
           /\ sent[i].share \in shares /\ sent[i].job \in DOMAIN custom
           /\ custom[sent[i].job].tmpl = sent[i].tmpl /\ custom[sent[i].job].prev = sent[i].tip
           /\ TipIs(sent[i].tmpl, sent[i].tip)
           /\ \A u \in Templates : sent[i].share \notin cached[u]
  BY DEF ClientInv, SentOK
<1>6. /\ cached' \in [Templates -> SUBSET shares'] /\ \A u \in Templates : cached'[u] # {} => Live(u)
      /\ \A u, v \in Templates : u # v => cached'[u] \cap cached'[v] = {}
      /\ \A u \in Templates : cached'[u] \subseteq cached[u] \cup {s}
  <2>1. CASE cached' = cached BY <1>1, <1>4, <2>1
  <2>2. CASE AddShareToCache(t, s)
    <3>1. PICK C : cached' = [cached EXCEPT ![t] = C] /\ C \subseteq cached[t] \cup {s}
      BY <2>2 DEF AddShareToCache
    <3>2. \A u \in Templates : cached'[u] = IF u = t THEN C ELSE cached[u] BY <1>4, <3>1
    <3>3. \A u \in Templates : s \notin cached[u] BY <1>1, <1>4
    <3>4. cached' \in [Templates -> SUBSET shares'] BY <1>1, <1>4, <3>1
    <3>5. ASSUME NEW u \in Templates, NEW v \in Templates, u # v PROVE cached'[u] \cap cached'[v] = {}
      <4>1. cached[u] \cap cached[v] = {} BY <1>4, <3>5
      <4> QED BY <3>1, <3>2, <3>3, <3>5, <4>1
    <3>6. \A u \in Templates : cached'[u] # {} => Live(u) BY <1>2, <1>4, <3>2
    <3>7. \A u \in Templates : cached'[u] \subseteq cached[u] \cup {s} BY <3>1, <3>2
    <3> QED BY <3>4, <3>5, <3>6, <3>7
  <2> QED BY <2>1, <2>2 DEF HandleSubmitShares
<1>7. /\ sent' \in Seq(Message) /\ SharesSentOnce'
      /\ \A i \in DOMAIN sent' :
           /\ sent'[i].share \in shares' /\ sent'[i].job \in DOMAIN custom
           /\ custom[sent'[i].job].tmpl = sent'[i].tmpl /\ custom[sent'[i].job].prev = sent'[i].tip
           /\ TipIs(sent'[i].tmpl, sent'[i].tip)
           /\ \A u \in Templates : sent'[i].share \notin cached'[u]
      /\ \A i \in DOMAIN sent' :
            sent'[i] \in [share : shares', tmpl : Templates, job : DOMAIN custom, tip : 1..MaxTemplates]
  <2>1. CASE UNCHANGED sent
    <3>1. SharesSentOnce' BY <1>5, <2>1 DEF SharesSentOnce
    <3>2. \A i \in DOMAIN sent' :
            sent'[i] \in [share : shares', tmpl : Templates, job : DOMAIN custom, tip : 1..MaxTemplates]
      BY <1>1, <2>1 DEF ClientInv, TypeOK
    <3>3. \A i \in DOMAIN sent' : \A u \in Templates : sent'[i].share \notin cached'[u] BY <1>1, <1>5, <1>6, <2>1
    <3> QED BY <1>1, <1>5, <2>1, <3>1, <3>2, <3>3
  <2>2. CASE upstreamJob[t] # 0 /\ upstreamJob[t] \in accepted /\ SendShares({s}, t, upstreamJob[t]) /\ UNCHANGED cached
    <3> DEFINE r == upstreamJob[t]
               x == [share |-> s, tmpl |-> t, job |-> r, tip |-> lastPrev]
    <3>1. /\ r \in DOMAIN custom /\ r \in Nat /\ custom[r].tmpl = t /\ custom[r].prev = lastPrev
      BY <2>2 DEF ClientInv, TypeOK, UpstreamOK
    <3>2. \A i \in DOMAIN sent : sent[i].share \notin {s} BY <1>1, <1>5
    <3>3. /\ sent' \in Seq(Message) /\ SharesSentOnce'
          /\ \A i \in DOMAIN sent' : (i \in DOMAIN sent /\ sent'[i] = sent[i]) \/ sent'[i] = x
      <4>1. {s} \in SUBSET (1..MaxShares) OBVIOUS
      <4>2. /\ sent' \in Seq(Message) /\ SharesSentOnce'
            /\ \A i \in DOMAIN sent' :
                 \/ i \in DOMAIN sent /\ sent'[i] = sent[i]
                 \/ \E w \in {s} : sent'[i] = [share |-> w, tmpl |-> t, job |-> r, tip |-> lastPrev]
        <5> HIDE DEF r
        <5> QED BY <1>3, <2>2, <3>1, <3>2, <4>1, SharesAreSent DEF ClientInv, r
      <4> QED BY <4>2
    <3>4. /\ x.share \in shares' /\ x.job \in DOMAIN custom /\ custom[x.job].tmpl = x.tmpl /\ custom[x.job].prev = x.tip
          /\ TipIs(x.tmpl, x.tip) /\ \A u \in Templates : x.share \notin cached'[u]
      BY <1>1, <1>3, <1>4, <2>2, <3>1
    <3>5. x \in [share : shares', tmpl : Templates, job : DOMAIN custom, tip : 1..MaxTemplates]
      <4>1. lastPrev \in 1..MaxTemplates BY <1>2 DEF ClientInv, TypeOK, Live
      <4> QED BY <1>1, <3>1, <4>1
    <3>6. \A i \in DOMAIN sent : sent[i] \in [share : shares', tmpl : Templates, job : DOMAIN custom, tip : 1..MaxTemplates]
      BY <1>1 DEF ClientInv, TypeOK
    <3> HIDE DEF x
    <3>7. ASSUME NEW i \in DOMAIN sent'
          PROVE /\ sent'[i].share \in shares' /\ sent'[i].job \in DOMAIN custom
                /\ custom[sent'[i].job].tmpl = sent'[i].tmpl /\ custom[sent'[i].job].prev = sent'[i].tip
                /\ TipIs(sent'[i].tmpl, sent'[i].tip)
                /\ \A u \in Templates : sent'[i].share \notin cached'[u]
                /\ sent'[i] \in [share : shares', tmpl : Templates, job : DOMAIN custom, tip : 1..MaxTemplates]
      <4>1. CASE sent'[i] = x BY <3>4, <3>5, <4>1
      <4>2. CASE i \in DOMAIN sent /\ sent'[i] = sent[i] BY <1>1, <1>5, <2>2, <3>6, <4>2
      <4> QED BY <3>3, <4>1, <4>2
    <3> QED BY <3>3, <3>7
  <2> QED BY <2>1, <2>2 DEF HandleSubmitShares
<1>8. TypeOK' BY <1>1, <1>4, <1>6, <1>7 DEF ClientInv, TypeOK
<1>9. MinersOK'
  <2>1. \A u : Live(u) => Live(u)' BY <1>1, Frame
  <2> QED BY <1>1, <1>6, <2>1 DEF ClientInv, MinersOK
<1>10. SentOK'
  <2>1. templates' = templates /\ custom' = custom BY <1>1
  <2>2. ASSUME NEW i \in DOMAIN sent', TipIs(sent'[i].tmpl, sent'[i].tip) PROVE TipIs(sent[i].tmpl, sent[i].tip)'
    BY <2>1, <2>2 DEF TipIs
  <2> QED BY <1>1, <1>6, <1>7, <2>1, <2>2 DEF SentOK
<1> QED BY <1>1, <1>8, <1>9, <1>10, Frame DEF ClientInv

\* Jobs that are forgotten, or declared and no longer waited for, harm nothing.
LEMMA ForgetsJob ==
    ASSUME ClientInv, NEW r, Forget(r),
           UNCHANGED <<custom, templates, issued, declares, config, owed, lastFuture, tokens, spent>>
    PROVE  JobsOK' /\ StockOK' /\ DOMAIN jobs' = DOMAIN jobs \ {r} /\ \A i \in DOMAIN jobs' : jobs'[i] = jobs[i]
<1>1. DOMAIN jobs' = DOMAIN jobs \ {r} /\ \A i \in DOMAIN jobs' : jobs'[i] = jobs[i] BY DEF Forget
<1>2. Stored' \subseteq Stored BY <1>1 DEF Stored
<1>3. JobsOK'
  <2>1. PICK n \in Nat : \A i \in DOMAIN jobs \cup DOMAIN custom : i <= n BY DEF ClientInv, JobsOK
  <2>2. \A i \in DOMAIN jobs' \cup DOMAIN custom' : i <= n BY <1>1, <2>1
  <2> QED BY <1>1, <1>2, <2>2 DEF ClientInv, JobsOK
<1>4. StockOK'
  <2>1. \A i \in Stored' : i \in Stored /\ jobs'[i] = jobs[i] BY <1>1, <1>2 DEF Stored
  <2> QED BY <2>1 DEF ClientInv, StockOK
<1> QED BY <1>1, <1>3, <1>4

\* The pool does not take a custom job.
LEMMA CustomStaleStep ==
    ASSUME ClientInv, NEW r \in atPool, HandleSetCustomMiningJobStale(r) PROVE ClientInv'
<1> USE DEF setup, tp, work, stock, decl, pool, up, opens, shr
<1>1. /\ UNCHANGED <<setup, tp, work, stock, declares, spent, custom, up, opens, shares, sent, over>>
      /\ atPool' = atPool \ {r} /\ Forget(r) /\ cached' = [cached EXCEPT ![custom[r].tmpl] = {}]
  BY DEF HandleSetCustomMiningJobStale
<1>2. JobsOK' /\ StockOK' /\ DOMAIN jobs' = DOMAIN jobs \ {r} /\ \A i \in DOMAIN jobs' : jobs'[i] = jobs[i]
  BY <1>1, ForgetsJob
<1>3. r \notin declares BY DEF ClientInv, TypeOK, JobsOK
<1>4. cached' \in [Templates -> SUBSET shares] /\ \A t \in Templates : cached'[t] \subseteq cached[t]
  BY <1>1 DEF ClientInv, TypeOK
<1>5. TypeOK' BY <1>1, <1>2, <1>3, <1>4 DEF ClientInv, TypeOK
<1>6. MinersOK'
  <2>1. \A t : Live(t) => Live(t)' BY <1>1, Frame
  <2> QED BY <1>1, <1>4, <2>1 DEF ClientInv, MinersOK
<1>7. SentOK'
  <2>1. \A t, u \in Templates : t # u => cached'[t] \cap cached'[u] = {} BY <1>4 DEF ClientInv, SentOK
  <2>2. \A i \in DOMAIN sent : \A t \in Templates : sent[i].share \notin cached'[t] BY <1>4 DEF ClientInv, SentOK
  <2> QED BY <1>1, <2>1, <2>2 DEF ClientInv, SentOK, TipIs, SharesSentOnce
<1> QED BY <1>1, <1>2, <1>5, <1>6, <1>7, Frame DEF ClientInv

\* The pool takes a custom job, and the shares that waited for it are sent.
LEMMA CustomSuccessStep ==
    ASSUME ClientInv, NEW r \in atPool, HandleSetCustomMiningJobSuccess(r) PROVE ClientInv'
<1> USE DEF setup, tp, work, stock, decl, pool, up, opens, shr
<1> DEFINE t == custom[r].tmpl
<1>1. /\ UNCHANGED <<setup, tp, work, stock, declares, spent, custom, upstreamState, channel, opens, shares, over>>
      /\ atPool' = atPool \ {r} /\ Forget(r) /\ cached' = [cached EXCEPT ![t] = {}]
      /\ upstreamJob' = [upstreamJob EXCEPT ![t] = r]
  BY DEF HandleSetCustomMiningJobSuccess
<1>2. JobsOK' /\ StockOK' /\ DOMAIN jobs' = DOMAIN jobs \ {r} /\ \A i \in DOMAIN jobs' : jobs'[i] = jobs[i]
  BY <1>1, ForgetsJob
<1>3. r \notin declares BY DEF ClientInv, TypeOK, JobsOK
<1>4. r \in DOMAIN custom /\ r \in Nat /\ t \in Templates /\ t \in Nat
  BY DEF ClientInv, TypeOK, Job, Templates
<1> HIDE DEF t
<1>5. /\ cached' \in [Templates -> SUBSET shares] /\ cached'[t] = {}
      /\ \A u \in Templates : cached'[u] \subseteq cached[u]
  BY <1>1, <1>4 DEF ClientInv, TypeOK
<1>6. /\ accepted' \subseteq DOMAIN custom /\ \A i \in accepted' : custom[i].prev = lastPrev
      /\ \/ UNCHANGED sent
         \/ /\ custom[r].prev = lastPrev /\ custom[r].tmpl = t
            /\ \E good \in SUBSET cached[t] : SendShares(good, t, r)
  BY <1>4 DEF HandleSetCustomMiningJobSuccess, ClientInv, TypeOK, UpstreamOK, t
<1>7. UpstreamOK'
  <2>1. \A u \in Templates : upstreamJob'[u] # 0 => custom[upstreamJob'[u]].tmpl = u
    BY <1>1, <1>4 DEF ClientInv, TypeOK, UpstreamOK, t
  <2> QED BY <1>1, <1>6, <2>1 DEF UpstreamOK
<1>8. MinersOK'
  <2>1. \A u : Live(u) => Live(u)' BY <1>1, Frame
  <2> QED BY <1>1, <1>5, <2>1 DEF ClientInv, MinersOK
<1>9. /\ sent' \in Seq(Message) /\ SharesSentOnce'
      /\ \A i \in DOMAIN sent' :
           /\ sent'[i].share \in shares /\ sent'[i].job \in DOMAIN custom
           /\ custom[sent'[i].job].tmpl = sent'[i].tmpl /\ custom[sent'[i].job].prev = sent'[i].tip
           /\ TipIs(sent'[i].tmpl, sent'[i].tip)
           /\ \A u \in Templates : sent'[i].share \notin cached'[u]
           /\ sent'[i] \in [share : shares, tmpl : Templates, job : DOMAIN custom, tip : 1..MaxTemplates]
  <2>1. /\ sent \in Seq(Message) /\ SharesSentOnce
        /\ \A i \in DOMAIN sent :
             /\ sent[i].share \in shares /\ sent[i].job \in DOMAIN custom
             /\ custom[sent[i].job].tmpl = sent[i].tmpl /\ custom[sent[i].job].prev = sent[i].tip
             /\ TipIs(sent[i].tmpl, sent[i].tip)
             /\ \A u \in Templates : sent[i].share \notin cached[u]
             /\ sent[i] \in [share : shares, tmpl : Templates, job : DOMAIN custom, tip : 1..MaxTemplates]
    BY DEF ClientInv, SentOK, TypeOK
  <2>2. CASE UNCHANGED sent
    <3>1. SharesSentOnce' BY <2>1, <2>2 DEF SharesSentOnce
    <3> QED BY <1>5, <2>1, <2>2, <3>1
  <2>3. ASSUME NEW good \in SUBSET cached[t], SendShares(good, t, r), custom[r].prev = lastPrev, custom[r].tmpl = t
        PROVE  <1>9!:
    <3>1. good \in SUBSET (1..MaxShares) /\ \A s \in good : s \in cached[t] /\ s \in shares
      BY <1>4 DEF ClientInv, TypeOK
    <3>2. /\ sent' \in Seq(Message) /\ SharesSentOnce'
          /\ \A i \in DOMAIN sent' :
               \/ i \in DOMAIN sent /\ sent'[i] = sent[i]
               \/ \E s \in good : sent'[i] = [share |-> s, tmpl |-> t, job |-> r, tip |-> lastPrev]
      <4>1. \A i \in DOMAIN sent : sent[i].share \notin good BY <1>4, <2>1, <3>1
      <4> QED BY <1>4, <2>3, <3>1, <4>1, SharesAreSent DEF ClientInv
    <3>3. ASSUME NEW s \in good
          PROVE  /\ TipIs(t, lastPrev) /\ lastPrev \in 1..MaxTemplates
                 /\ s \in shares /\ \A u \in Templates : s \notin cached'[u]
      <4>1. Live(t) BY <1>4, <3>1 DEF ClientInv, MinersOK
      <4>2. TipIs(t, lastPrev) BY <4>1, LiveTip DEF ClientInv
      <4>3. lastPrev \in 1..MaxTemplates BY <4>1 DEF ClientInv, TypeOK, Live
      <4>4. \A u \in Templates : u # t => s \notin cached[u] BY <1>4, <3>1 DEF ClientInv, SentOK
      <4> QED BY <1>5, <3>1, <4>2, <4>3, <4>4
    <3>4. ASSUME NEW i \in DOMAIN sent'
          PROVE  /\ sent'[i].share \in shares /\ sent'[i].job \in DOMAIN custom
                 /\ custom[sent'[i].job].tmpl = sent'[i].tmpl /\ custom[sent'[i].job].prev = sent'[i].tip
                 /\ TipIs(sent'[i].tmpl, sent'[i].tip)
                 /\ \A u \in Templates : sent'[i].share \notin cached'[u]
                 /\ sent'[i] \in [share : shares, tmpl : Templates, job : DOMAIN custom, tip : 1..MaxTemplates]
      <4>1. CASE i \in DOMAIN sent /\ sent'[i] = sent[i] BY <1>5, <2>1, <4>1
      <4>2. CASE \E s \in good : sent'[i] = [share |-> s, tmpl |-> t, job |-> r, tip |-> lastPrev]
        <5>1. PICK s \in good : sent'[i] = [share |-> s, tmpl |-> t, job |-> r, tip |-> lastPrev] BY <4>2
        <5>2. /\ TipIs(t, lastPrev) /\ lastPrev \in 1..MaxTemplates
              /\ s \in shares /\ \A u \in Templates : s \notin cached'[u]
          BY <3>3
        <5>3. /\ sent'[i].share = s /\ sent'[i].tmpl = t /\ sent'[i].job = r /\ sent'[i].tip = lastPrev
              /\ sent'[i] \in [share : shares, tmpl : Templates, job : DOMAIN custom, tip : 1..MaxTemplates]
          BY <1>4, <5>1, <5>2
        <5> QED BY <1>4, <2>3, <5>2, <5>3
      <4> QED BY <3>2, <4>1, <4>2
    <3> QED BY <3>2, <3>4
  <2> QED BY <1>6, <2>2, <2>3
<1>10. TypeOK'
  <2>1. upstreamJob' \in [Templates -> {0} \cup DOMAIN custom] BY <1>1, <1>4 DEF ClientInv, TypeOK
  <2> QED BY <1>1, <1>2, <1>3, <1>5, <1>6, <1>9, <2>1 DEF ClientInv, TypeOK
<1>11. SentOK'
  <2>1. templates' = templates /\ custom' = custom BY <1>1
  <2>2. ASSUME NEW i \in DOMAIN sent', TipIs(sent'[i].tmpl, sent'[i].tip) PROVE TipIs(sent[i].tmpl, sent[i].tip)'
    BY <2>1, <2>2 DEF TipIs
  <2>3. \A u, v \in Templates : u # v => cached'[u] \cap cached'[v] = {} BY <1>5 DEF ClientInv, SentOK
  <2> QED BY <1>1, <1>9, <2>1, <2>2, <2>3 DEF SentOK
<1> QED BY <1>1, <1>2, <1>7, <1>8, <1>10, <1>11, Frame DEF ClientInv

\* New custom jobs leave what is known of the old ones.
LEMMA CustomGrows ==
    ASSUME ClientInv, DOMAIN custom \subseteq DOMAIN custom', \A r \in DOMAIN custom : custom'[r] = custom[r],
           UNCHANGED upstreamJob
    PROVE  /\ \A t \in Templates : upstreamJob'[t] # 0 => custom'[upstreamJob'[t]].tmpl = t
           /\ upstreamJob' \in [Templates -> {0} \cup DOMAIN custom']
           /\ UNCHANGED <<accepted, lastPrev>> => UpstreamOK' /\ accepted' \subseteq DOMAIN custom'
           /\ UNCHANGED <<sent, shares>> =>
                 /\ \A i \in DOMAIN sent : /\ sent[i].job \in DOMAIN custom'
                                           /\ custom'[sent[i].job] = custom[sent[i].job]
                 /\ \A i \in DOMAIN sent' :
                       sent'[i] \in [share : shares', tmpl : Templates, job : DOMAIN custom', tip : 1..MaxTemplates]
<1>1. \A t \in Templates : upstreamJob[t] # 0 => upstreamJob[t] \in DOMAIN custom BY DEF ClientInv, TypeOK
<1>2. \A t \in Templates : upstreamJob'[t] # 0 => custom'[upstreamJob'[t]].tmpl = t
  BY <1>1 DEF ClientInv, UpstreamOK
<1>3. upstreamJob' \in [Templates -> {0} \cup DOMAIN custom'] BY DEF ClientInv, TypeOK
<1>4. UNCHANGED <<accepted, lastPrev>> => UpstreamOK' /\ accepted' \subseteq DOMAIN custom'
  <2>1. accepted \subseteq DOMAIN custom BY DEF ClientInv, TypeOK
  <2> QED BY <1>2, <2>1 DEF ClientInv, UpstreamOK
<1>5. ASSUME UNCHANGED <<sent, shares>>
      PROVE  /\ \A i \in DOMAIN sent : /\ sent[i].job \in DOMAIN custom'
                                       /\ custom'[sent[i].job] = custom[sent[i].job]
             /\ \A i \in DOMAIN sent' :
                   sent'[i] \in [share : shares', tmpl : Templates, job : DOMAIN custom', tip : 1..MaxTemplates]
  BY <1>5 DEF ClientInv, SentOK, TypeOK
<1> QED BY <1>2, <1>3, <1>4, <1>5

\* The answer to a declaration.
LEMMA DeclaredStep ==
    ASSUME ClientInv, NEW r \in declares, HandleDeclareMiningJobSuccess(r) \/ HandleDeclareMiningJobStale(r)
    PROVE  ClientInv'
<1> USE DEF setup, tp, work, stock, decl, pool, up, opens, shr
<1>1. /\ UNCHANGED <<setup, tp, work, stock, jobs, spent, up, opens, shr, over>> /\ declares' = declares \ {r}
      /\ DOMAIN custom \subseteq DOMAIN custom' /\ DOMAIN custom' \subseteq DOMAIN custom \cup {r}
      /\ \A i \in DOMAIN custom : custom'[i] = custom[i]
      /\ r \in DOMAIN custom' => custom'[r] = jobs[r]
      /\ atPool' \subseteq DOMAIN custom'
  <2>1. r \notin DOMAIN custom /\ atPool \subseteq DOMAIN custom BY DEF ClientInv, JobsOK, TypeOK
  <2>2. CASE HandleDeclareMiningJobStale(r) BY <2>1, <2>2 DEF HandleDeclareMiningJobStale
  <2>3. CASE HandleDeclareMiningJobSuccess(r)
    <3>1. custom' = With(custom, {r}, jobs[r]) BY <2>3 DEF HandleDeclareMiningJobSuccess
    <3>2. /\ DOMAIN custom' = {r} \cup DOMAIN custom /\ custom'[r] = jobs[r]
          /\ \A i \in DOMAIN custom : i # r => custom'[i] = custom[i]
      BY <3>1 DEF With
    <3> QED BY <2>1, <2>3, <3>2 DEF HandleDeclareMiningJobSuccess
  <2> QED BY <2>2, <2>3
<1>2. /\ UpstreamOK' /\ accepted' \subseteq DOMAIN custom' /\ upstreamJob' \in [Templates -> {0} \cup DOMAIN custom']
      /\ \A i \in DOMAIN sent : sent[i].job \in DOMAIN custom' /\ custom'[sent[i].job] = custom[sent[i].job]
      /\ \A i \in DOMAIN sent' :
            sent'[i] \in [share : shares', tmpl : Templates, job : DOMAIN custom', tip : 1..MaxTemplates]
  BY <1>1, CustomGrows
<1>3. r \in DOMAIN jobs /\ jobs[r] \in Job /\ r \in Nat BY DEF ClientInv, TypeOK
<1>4. TypeOK'
  <2>1. \A i \in DOMAIN custom' : custom'[i] \in Job /\ i \in Nat BY <1>1, <1>3 DEF ClientInv, TypeOK
  <2> QED BY <1>1, <1>2, <2>1 DEF ClientInv, TypeOK
<1>5. RequestsOK' BY <1>1 DEF ClientInv, RequestsOK
<1>6. JobsOK'
  <2>1. PICK n \in Nat : \A i \in DOMAIN jobs \cup DOMAIN custom : i <= n BY DEF ClientInv, JobsOK
  <2>2. \A i \in DOMAIN jobs' \cup DOMAIN custom' : i <= n BY <1>1, <1>3, <2>1
  <2>3. Stored' = Stored BY <1>1 DEF Stored
  <2>4. declares' \cap DOMAIN custom' = {} BY <1>1 DEF ClientInv, JobsOK
  <2>5. config = "full" => Stored' \cap (declares' \cup DOMAIN custom') = {} BY <1>1, <2>3 DEF ClientInv, JobsOK
  <2> QED BY <1>1, <2>2, <2>4, <2>5 DEF ClientInv, JobsOK
<1>7. SentOK' BY <1>1, <1>2 DEF ClientInv, SentOK, TipIs, SharesSentOnce
<1> QED BY <1>1, <1>2, <1>4, <1>5, <1>6, <1>7, Frame DEF ClientInv

\* The JDS gives a token.
LEMMA AllocateStep == ASSUME ClientInv, HandleAllocateMiningJobTokenSuccess PROVE ClientInv'
<1> USE DEF setup, tp, work, stock, decl, pool, up, opens, shr
<1>1. /\ asked > 0 /\ asked' = asked - 1 /\ issued' = issued + 1 /\ tokens' = Append(tokens, issued + 1)
      /\ UNCHANGED <<setup, tp, work, lost, decl, pool, up, opens, shr, over>>
  BY DEF HandleAllocateMiningJobTokenSuccess
<1>2. asked \in Nat /\ issued \in Nat /\ tokens \in Seq(1..issued) /\ spent \in Seq(1..issued)
  BY DEF ClientInv, TypeOK
<1>3. /\ tokens' \in Seq(1..issued') /\ Len(tokens') = Len(tokens) + 1 /\ Len(tokens) \in Nat
      /\ DOMAIN tokens = 1..Len(tokens) /\ DOMAIN tokens' = 1..(Len(tokens) + 1)
      /\ \A i \in 1..Len(tokens) : tokens'[i] = tokens[i] /\ tokens[i] \in 1..issued
      /\ tokens'[Len(tokens) + 1] = issued + 1
  <2>1. tokens \in Seq(1..(issued + 1)) BY <1>2
  <2> QED BY <1>1, <1>2, <2>1
<1>4. spent' \in Seq(1..issued') BY <1>1, <1>2
<1>5. TypeOK' BY <1>1, <1>2, <1>3, <1>4 DEF ClientInv, TypeOK
<1>6. JobsOK'
  <2>1. Stored' = Stored BY <1>1 DEF Stored
  <2>2. \A r \in DOMAIN jobs : jobs[r].token \in 1..issued' BY <1>1, <1>2 DEF ClientInv, JobsOK
  <2> QED BY <1>1, <2>1, <2>2 DEF ClientInv, JobsOK
<1>7. StockOK'
  <2>1. IsInjective(tokens')
    <3>1. ASSUME NEW i \in DOMAIN tokens', NEW j \in DOMAIN tokens', tokens'[i] = tokens'[j] PROVE i = j
      <4>1. CASE i \in DOMAIN tokens /\ j \in DOMAIN tokens BY <1>3, <3>1, <4>1 DEF ClientInv, StockOK, IsInjective
      <4>2. CASE i \notin DOMAIN tokens /\ j \in DOMAIN tokens
        <5>1. i = Len(tokens) + 1 BY <1>3, <3>1, <4>2
        <5> QED BY <1>2, <1>3, <3>1, <4>2, <5>1
      <4>3. CASE i \in DOMAIN tokens /\ j \notin DOMAIN tokens
        <5>1. j = Len(tokens) + 1 BY <1>3, <3>1, <4>3
        <5> QED BY <1>2, <1>3, <3>1, <4>3, <5>1
      <4>4. CASE i \notin DOMAIN tokens /\ j \notin DOMAIN tokens BY <1>3, <3>1, <4>4
      <4> QED BY <4>1, <4>2, <4>3, <4>4
    <3> QED BY <3>1 DEF IsInjective
  <2>2. \A j \in DOMAIN spent : spent[j] \in 1..issued BY <1>2
  <2>3. \A r \in Stored : jobs[r].token \in 1..issued BY DEF ClientInv, JobsOK, Stored
  <2>4. ASSUME NEW i \in DOMAIN tokens', config = "full"
        PROVE  (\A j \in DOMAIN spent : tokens'[i] # spent[j]) /\ \A r \in Stored : tokens'[i] # jobs[r].token
    <3>1. CASE i \in DOMAIN tokens BY <1>3, <2>4, <3>1 DEF ClientInv, StockOK
    <3>2. CASE i \notin DOMAIN tokens
      <4>1. tokens'[i] = issued + 1 BY <1>3, <2>4, <3>2
      <4> QED BY <1>2, <2>2, <2>3, <4>1
    <3> QED BY <3>1, <3>2
  <2>5. Stored' = Stored BY <1>1 DEF Stored
  <2> QED BY <1>1, <2>1, <2>4, <2>5 DEF ClientInv, StockOK
<1>8. TokensReplaced'
  <2>1. lost \in Nat /\ Len(tokens) \in Nat BY DEF ClientInv, TypeOK
  <2> QED BY <1>1, <1>2, <1>3, <2>1 DEF ClientInv, TokensReplaced
<1> QED BY <1>1, <1>5, <1>6, <1>7, <1>8, Frame DEF ClientInv

\* The template provider has no transactions for a template.
LEMMA TxDataErrorStep ==
    ASSUME ClientInv, NEW t \in Templates, HandleRequestTxDataError(t) PROVE ClientInv'
<1> USE DEF setup, tp, work, stock, decl, pool, up, opens, shr
<1>1. /\ UNCHANGED <<setup, templates, owed, work, stock, decl, pool, up, opens, shr, over>>
      /\ requests[t] > 0 /\ requests' = [requests EXCEPT ![t] = @ - 1]
  BY DEF HandleRequestTxDataError
<1>2. requests \in [Templates -> 0..2] BY DEF ClientInv, TypeOK
<1>3. requests' \in [Templates -> 0..2] /\ \A u \in Templates : requests'[u] <= requests[u] BY <1>1, <1>2
<1>4. TypeOK' BY <1>1, <1>3 DEF ClientInv, TypeOK
<1>5. RequestsOK'
  <2>1. config = "full" BY <1>1 DEF ClientInv, RequestsOK
  <2>2. ~channel => \A u \in Templates : requests'[u] <= 1 BY <1>2, <1>3 DEF ClientInv, RequestsOK
  <2> QED BY <1>1, <2>1, <2>2 DEF RequestsOK
<1> QED BY <1>1, <1>4, <1>5, Frame DEF ClientInv

\* Taking a token leaves the others.
LEMMA TokenTaken ==
    ASSUME issued \in Nat, tokens \in Seq(1..issued), IsInjective(tokens), TakeToken
    PROVE  /\ tokens' \in Seq(1..issued) /\ IsInjective(tokens') /\ Len(tokens') + 1 >= Len(tokens)
           /\ \A i \in DOMAIN tokens' : \E j \in DOMAIN tokens : tokens'[i] = tokens[j]
           /\ tokens # <<>> => /\ Head(tokens) \in 1..issued
                               /\ \E j \in DOMAIN tokens : Head(tokens) = tokens[j]
                               /\ \A i \in DOMAIN tokens' : tokens'[i] # Head(tokens)
<1>1. CASE tokens = <<>>
  <2>1. tokens' = <<>> BY <1>1 DEF TakeToken
  <2> QED BY <1>1, <2>1 DEF IsInjective
<1>2. CASE tokens # <<>>
  <2>1. tokens' = Tail(tokens) BY <1>2 DEF TakeToken
  <2>2. /\ tokens' \in Seq(1..issued) /\ Len(tokens) \in Nat /\ Len(tokens) > 0 /\ Len(tokens') = Len(tokens) - 1
        /\ DOMAIN tokens' = 1..(Len(tokens) - 1) /\ DOMAIN tokens = 1..Len(tokens)
        /\ \A i \in DOMAIN tokens' : tokens'[i] = tokens[i + 1]
        /\ Head(tokens) = tokens[1] /\ tokens[1] \in 1..issued
    BY <1>2, <2>1
  <2>3. ASSUME NEW i \in DOMAIN tokens' PROVE i + 1 \in DOMAIN tokens /\ 1 \in DOMAIN tokens /\ i + 1 # 1
    <3>1. Len(tokens) \in Nat /\ i \in 1..(Len(tokens) - 1) BY <2>2, <2>3
    <3>2. i + 1 \in 1..Len(tokens) /\ 1 \in 1..Len(tokens) /\ i + 1 # 1 BY <3>1
    <3>3. DOMAIN tokens = 1..Len(tokens) BY <2>2
    <3> QED BY <3>2, <3>3
  <2>4. ASSUME NEW i \in DOMAIN tokens', NEW j \in DOMAIN tokens', tokens'[i] = tokens'[j] PROVE i = j
    <3>1. i + 1 = j + 1 BY <2>2, <2>3, <2>4 DEF IsInjective
    <3> QED BY <2>2, <3>1
  <2>5. ASSUME NEW i \in DOMAIN tokens' PROVE tokens'[i] # Head(tokens)
    <3>1. i + 1 \in DOMAIN tokens /\ 1 \in DOMAIN tokens /\ i + 1 # 1 BY <2>3
    <3>2. tokens'[i] = tokens[i + 1] /\ Head(tokens) = tokens[1] BY <2>2
    <3> QED BY <3>1, <3>2 DEF IsInjective
  <2>6. IsInjective(tokens') BY <2>4 DEF IsInjective
  <2>7. Len(tokens') + 1 >= Len(tokens) BY <2>2
  <2>8. \A i \in DOMAIN tokens' : \E j \in DOMAIN tokens : tokens'[i] = tokens[j]
    <3> SUFFICES ASSUME NEW i \in DOMAIN tokens' PROVE \E j \in DOMAIN tokens : tokens'[i] = tokens[j] OBVIOUS
    <3>1. i + 1 \in DOMAIN tokens /\ tokens'[i] = tokens[i + 1] BY <2>2, <2>3
    <3> QED BY <3>1
  <2>9. 1 \in DOMAIN tokens BY <2>2
  <2>10. Head(tokens) \in 1..issued /\ \E j \in DOMAIN tokens : Head(tokens) = tokens[j] BY <2>2, <2>9
  <2> QED BY <2>2, <2>5, <2>6, <2>7, <2>8, <2>10
<1> QED BY <1>1, <1>2

\* The transactions of a template are there: it is declared, or its job waits
\* for the prevhash.
LEMMA TxDataStep ==
    ASSUME ClientInv, NEW t \in Templates, HandleRequestTxDataSuccess(t) PROVE ClientInv'
<1> USE DEF setup, tp, work, stock, decl, pool, up, opens, shr
<1>1. /\ UNCHANGED <<setup, templates, owed, lastFuture, lastPrev, issued, lost, pool, up, opens, shr, over>>
      /\ requests[t] > 0 /\ requests' = [requests EXCEPT ![t] = @ - 1] /\ TakeToken /\ asked' = asked + 1
      /\ templateStore' = templateStore \ {t} /\ Declare(t)
  BY DEF HandleRequestTxDataSuccess
<1>2. /\ issued \in Nat /\ asked \in Nat /\ tokens \in Seq(1..issued) /\ spent \in Seq(1..issued)
      /\ IsInjective(tokens) /\ IsInjective(spent) /\ requests \in [Templates -> 0..2]
  BY DEF ClientInv, TypeOK, StockOK, TokensUsedOnce
<1>3. config = "full" BY <1>1 DEF ClientInv, RequestsOK
<1>4. /\ tokens' \in Seq(1..issued) /\ IsInjective(tokens') /\ Len(tokens') + 1 >= Len(tokens)
      /\ \A i \in DOMAIN tokens' : \E j \in DOMAIN tokens : tokens'[i] = tokens[j]
      /\ tokens # <<>> => /\ Head(tokens) \in 1..issued
                          /\ \E j \in DOMAIN tokens : Head(tokens) = tokens[j]
                          /\ \A i \in DOMAIN tokens' : tokens'[i] # Head(tokens)
  BY <1>1, <1>2, TokenTaken
<1>5. requests' \in [Templates -> 0..2] /\ \A u \in Templates : requests'[u] <= requests[u] BY <1>1, <1>2
<1>6. RequestsOK'
  <2>1. ASSUME ~channel, NEW u \in Templates PROVE requests'[u] <= 1
    <3>1. requests[u] <= 1 BY <2>1 DEF ClientInv, RequestsOK
    <3> QED BY <1>2, <1>5, <3>1
  <2> QED BY <1>1, <1>3, <2>1 DEF RequestsOK
<1>7. TokensReplaced'
  <2>1. lost \in Nat /\ Len(tokens) \in Nat /\ Len(tokens') \in Nat BY <1>4 DEF ClientInv, TypeOK
  <2> QED BY <1>1, <1>2, <1>4, <2>1 DEF ClientInv, TokensReplaced
<1>8. TemplatesOK' BY <1>1 DEF ClientInv, TemplatesOK
<1>9. \A u : Live(u) => Live(u)' BY <1>1 DEF Live
<1>10. MinersOK' BY <1>1, <1>9 DEF ClientInv, MinersOK
<1>11. /\ \A i \in DOMAIN tokens', j \in DOMAIN spent : tokens'[i] # spent[j]
       /\ \A r \in Stored : /\ \A i \in DOMAIN tokens' : tokens'[i] # jobs[r].token
                            /\ \A j \in DOMAIN spent : spent[j] # jobs[r].token
  BY <1>3, <1>4 DEF ClientInv, StockOK
<1>12. TypeOK' /\ JobsOK' /\ StockOK' /\ TokensUsedOnce'
  <2>1. CASE UNCHANGED <<jobs, declares, spent>>
    <3>1. TypeOK' BY <1>1, <1>2, <1>4, <1>5, <2>1 DEF ClientInv, TypeOK
    <3>2. Stored' = Stored BY <1>1, <2>1 DEF Stored
    <3>3. StockOK' BY <1>1, <1>4, <1>11, <2>1, <3>2 DEF StockOK
    <3> QED BY <1>1, <2>1, <3>1, <3>3, Frame DEF ClientInv
  <2>2. CASE tokens # <<>> /\ t \in templateStore
    <3> DEFINE r == CHOOSE i \in NewIds(1) : TRUE
               token == Head(tokens)
               job == [tmpl |-> t, prev |-> lastPrev, future |-> templates[t], token |-> token]
    <3>1. PICK b \in Nat : \A i \in DOMAIN jobs \cup DOMAIN custom : i <= b BY DEF ClientInv, JobsOK
    <3>2. /\ r \in Nat /\ r \notin DOMAIN jobs /\ r \notin DOMAIN custom
          /\ \E c \in Nat : \A i \in {r} \cup DOMAIN jobs \cup DOMAIN custom : i <= c
      <4>1. DOMAIN jobs \subseteq Nat /\ DOMAIN custom \subseteq Nat BY DEF ClientInv, TypeOK
      <4>2. /\ NewIds(1) \subseteq Nat /\ NewIds(1) \cap (DOMAIN jobs \cup DOMAIN custom) = {}
            /\ \E c \in Nat : \A i \in NewIds(1) \cup DOMAIN jobs \cup DOMAIN custom : i <= c
            /\ r \in NewIds(1)
        BY <3>1, <4>1, NewIdsAreNew
      <4> HIDE DEF r
      <4> QED BY <4>2
    <3>3. /\ job \in Job /\ t \in 1..Len(templates) /\ job.tmpl = t /\ job.token = token
      <4>1. t \in 1..Len(templates) BY <2>2 DEF ClientInv, TemplatesOK
      <4>2. templates[t] \in BOOLEAN BY <4>1 DEF ClientInv, TypeOK
      <4>3. token \in Nat BY <1>4, <2>2
      <4>4. lastPrev \in 0..MaxTemplates BY DEF ClientInv, TypeOK
      <4> QED BY <4>1, <4>2, <4>3, <4>4 DEF Job
    <3>4. /\ UNCHANGED <<jobs, declares, spent>> \/ jobs' = With(jobs, {r}, job)
          /\ \/ UNCHANGED <<declares, spent>>
             \/ ~(templates[t] /\ lastPrev # t) /\ declares' = declares \cup {r} /\ spent' = Append(spent, token)
          /\ templates[t] /\ lastPrev # t => UNCHANGED <<declares, spent>>
      BY <1>1 DEF Declare
    <3> HIDE DEF r, job
    <3>5. CASE jobs' = With(jobs, {r}, job)
      <4>1. /\ DOMAIN jobs' = {r} \cup DOMAIN jobs /\ jobs'[r] = job
            /\ \A i \in DOMAIN jobs : jobs'[i] = jobs[i]
        BY <3>2, <3>5 DEF With
      <4>2. token \in 1..issued /\ \A i \in DOMAIN tokens' : tokens'[i] # token BY <1>4, <2>2
      <4>3. \A j \in DOMAIN spent : spent[j] # token BY <1>3, <1>4, <2>2 DEF ClientInv, StockOK
      <4>4. \A i \in Stored : jobs[i].token # token BY <1>3, <1>4, <2>2 DEF ClientInv, StockOK
      <4> HIDE DEF token
      <4>5. /\ spent' \in Seq(1..issued) /\ IsInjective(spent')
            /\ \A j \in DOMAIN spent' : (\E k \in DOMAIN spent : spent'[j] = spent[k]) \/ (spent' # spent /\ spent'[j] = token)
        <5>1. CASE spent' = spent BY <1>2, <5>1
        <5>2. CASE spent' = Append(spent, token)
          <6>1. <<token>> \in Seq(1..issued) /\ IsInjective(<<token>>) /\ Append(spent, token) = spent \o <<token>>
            BY <1>2, <4>2 DEF IsInjective
          <6>2. spent' \in Seq(1..issued) /\ IsInjective(spent')
            <7>1. \A i \in DOMAIN spent, j \in DOMAIN <<token>> : spent[i] # <<token>>[j] BY <4>3
            <7>2. spent \o <<token>> \in Seq(1..issued) /\ IsInjective(spent \o <<token>>)
              BY <1>2, <6>1, <7>1, ConcatInjective
            <7> QED BY <5>2, <6>1, <7>2
          <6>3. /\ DOMAIN spent' = 1..(Len(spent) + 1) /\ DOMAIN spent = 1..Len(spent) /\ Len(spent) \in Nat
                /\ \A j \in 1..Len(spent) : spent'[j] = spent[j]
                /\ spent'[Len(spent) + 1] = token /\ spent' # spent
            BY <1>2, <4>2, <5>2
          <6>4. \A j \in DOMAIN spent' : j \in 1..Len(spent) \/ j = Len(spent) + 1 BY <6>3
          <6> QED BY <6>2, <6>3, <6>4
        <5> QED BY <3>4, <5>1, <5>2
      <4>6. Stored' \subseteq Stored \cup {r} /\ (r \in Stored' => owed /\ t = lastFuture) /\ r \notin Stored
        BY <1>1, <3>2, <3>3, <4>1 DEF Stored
      <4>7. r \in Stored' => UNCHANGED <<declares, spent>>
        <5>1. ASSUME owed, t = lastFuture PROVE templates[t] /\ lastPrev # t
          BY <3>3, <5>1 DEF ClientInv, TemplatesOK, TypeOK
        <5> QED BY <3>4, <4>6, <5>1
      <4>8. TypeOK'
        <5>1. \A i \in DOMAIN jobs' : jobs'[i] \in Job /\ i \in Nat BY <3>2, <3>3, <4>1 DEF ClientInv, TypeOK
        <5>2. declares' \subseteq DOMAIN jobs' BY <3>4, <4>1 DEF ClientInv, TypeOK
        <5> QED BY <1>1, <1>2, <1>4, <1>5, <4>5, <5>1, <5>2 DEF ClientInv, TypeOK
      <4>9. JobsOK'
        <5>1. \E c \in Nat : \A i \in DOMAIN jobs' \cup DOMAIN custom' : i <= c BY <1>1, <3>2, <4>1
        <5>2. \A i \in DOMAIN jobs' : jobs'[i].tmpl <= Len(templates') /\ jobs'[i].token \in 1..issued'
          BY <1>1, <3>3, <4>1, <4>2 DEF ClientInv, JobsOK
        <5>3. declares' \cap DOMAIN custom' = {} BY <1>1, <3>2, <3>4 DEF ClientInv, JobsOK
        <5>4. Stored' \cap (declares' \cup DOMAIN custom') = {}
          <6>1. Stored \cap (declares \cup DOMAIN custom) = {} /\ declares \subseteq DOMAIN jobs
            BY <1>3 DEF ClientInv, JobsOK, TypeOK
          <6> QED BY <1>1, <3>2, <3>4, <4>6, <4>7, <6>1
        <5> QED BY <5>1, <5>2, <5>3, <5>4 DEF JobsOK
      <4>10. StockOK'
        <5>1. \A i \in DOMAIN tokens', j \in DOMAIN spent' : tokens'[i] # spent'[j] BY <1>11, <4>2, <4>5
        <5>2. ASSUME NEW i \in Stored'
              PROVE  /\ \A k \in DOMAIN tokens' : tokens'[k] # jobs'[i].token
                     /\ \A j \in DOMAIN spent' : spent'[j] # jobs'[i].token
          <6>1. CASE i = r BY <3>3, <4>1, <4>2, <4>3, <4>7, <5>2, <6>1
          <6>2. CASE i \in Stored
            <7>1. jobs'[i] = jobs[i] BY <4>1, <6>2 DEF Stored
            <7> QED BY <1>11, <4>4, <4>5, <6>2, <7>1
          <6> QED BY <4>6, <6>1, <6>2
        <5> QED BY <1>4, <5>1, <5>2 DEF StockOK
      <4> QED BY <4>5, <4>8, <4>9, <4>10 DEF TokensUsedOnce
    <3> QED BY <2>1, <3>4, <3>5
  <2> QED BY <1>1, <2>1, <2>2 DEF Declare
<1> QED BY <1>1, <1>6, <1>7, <1>8, <1>10, <1>12, Frame DEF ClientInv

\* What a coinbase-only step does to the maps of jobs and to the stock: the jobs
\* that it adds are new, and a client for full templates does not take it.
Grown(len) ==
    /\ DOMAIN jobs \subseteq DOMAIN jobs' /\ DOMAIN custom \subseteq DOMAIN custom'
    /\ \A r \in DOMAIN jobs : jobs'[r] = jobs[r]
    /\ \A r \in DOMAIN custom : custom'[r] = custom[r]
    /\ \A r \in DOMAIN jobs' : jobs'[r] \in Job /\ r \in Nat /\ jobs'[r].tmpl <= len /\ jobs'[r].token \in 1..issued
    /\ \A r \in DOMAIN custom' : custom'[r] \in Job /\ r \in Nat
    /\ \E c \in Nat : \A r \in DOMAIN jobs' \cup DOMAIN custom' : r <= c
    /\ atPool' \subseteq DOMAIN custom'
    /\ tokens' \in Seq(1..issued) /\ IsInjective(tokens') /\ asked' \in Nat
    /\ config = "full" => UNCHANGED <<jobs, custom, atPool, tokens, asked>>

LEMMA NothingGrows ==
    ASSUME ClientInv, NEW len \in Nat, Len(templates) <= len, UNCHANGED <<jobs, custom, atPool, tokens, asked>>
    PROVE  Grown(len)
<1>1. \A r \in DOMAIN jobs : jobs[r] \in Job /\ r \in Nat /\ jobs[r].tmpl <= len /\ jobs[r].token \in 1..issued
  <2>1. ASSUME NEW r \in DOMAIN jobs PROVE jobs[r].tmpl <= len
    <3>1. jobs[r].tmpl \in Nat /\ jobs[r].tmpl <= Len(templates) /\ Len(templates) \in Nat
      <4>1. jobs[r] \in Job /\ jobs[r].tmpl <= Len(templates) /\ Len(templates) \in Nat
        BY DEF ClientInv, TypeOK, JobsOK
      <4> QED BY <4>1 DEF Job, Templates
    <3> QED BY <3>1
  <2> QED BY <2>1 DEF ClientInv, TypeOK, JobsOK
<1>2. \E c \in Nat : \A r \in DOMAIN jobs \cup DOMAIN custom : r <= c BY DEF ClientInv, JobsOK
<1>3. /\ tokens \in Seq(1..issued) /\ IsInjective(tokens) /\ asked \in Nat /\ atPool \subseteq DOMAIN custom
      /\ \A r \in DOMAIN custom : custom[r] \in Job /\ r \in Nat
  BY DEF ClientInv, TypeOK, StockOK
<1> QED BY <1>1, <1>2, <1>3 DEF Grown

LEMMA CustomAdded ==
    ASSUME ClientInv, NEW len \in Nat, Len(templates) <= len, NEW n \in Nat, NEW job \in Job, job.tmpl <= len,
           job.token \in 1..issued, AddCustom(NewIds(n), job), TakeToken, asked' \in Nat, config # "full"
    PROVE  Grown(len)
<1> DEFINE ids == NewIds(n)
<1>1. PICK b \in Nat : \A i \in DOMAIN jobs \cup DOMAIN custom : i <= b BY DEF ClientInv, JobsOK
<1>2. DOMAIN jobs \subseteq Nat /\ DOMAIN custom \subseteq Nat BY DEF ClientInv, TypeOK
<1>3. /\ ids \subseteq Nat /\ ids \cap (DOMAIN jobs \cup DOMAIN custom) = {}
      /\ \E c \in Nat : \A r \in ids \cup DOMAIN jobs \cup DOMAIN custom : r <= c
  BY <1>1, <1>2, NewIdsAreNew
<1> HIDE DEF ids
<1>4. jobs' = With(jobs, ids, job) /\ custom' = With(custom, ids, job) /\ atPool' = atPool \cup ids
  BY DEF AddCustom, ids
<1>5. /\ DOMAIN jobs' = ids \cup DOMAIN jobs /\ DOMAIN custom' = ids \cup DOMAIN custom
      /\ \A r \in ids : jobs'[r] = job /\ custom'[r] = job
      /\ \A r \in DOMAIN jobs : jobs'[r] = jobs[r]
      /\ \A r \in DOMAIN custom : custom'[r] = custom[r]
  BY <1>3, <1>4 DEF With
<1>6. \A r \in DOMAIN jobs : jobs[r] \in Job /\ jobs[r].tmpl <= len /\ jobs[r].token \in 1..issued
  <2>1. ASSUME NEW r \in DOMAIN jobs PROVE jobs[r].tmpl <= len
    <3>1. jobs[r].tmpl \in Nat /\ jobs[r].tmpl <= Len(templates) /\ Len(templates) \in Nat
      <4>1. jobs[r] \in Job /\ jobs[r].tmpl <= Len(templates) /\ Len(templates) \in Nat
        BY DEF ClientInv, TypeOK, JobsOK
      <4> QED BY <4>1 DEF Job, Templates
    <3> QED BY <3>1
  <2> QED BY <2>1 DEF ClientInv, TypeOK, JobsOK
<1>7. \A r \in DOMAIN jobs' : jobs'[r] \in Job /\ r \in Nat /\ jobs'[r].tmpl <= len /\ jobs'[r].token \in 1..issued
  BY <1>2, <1>3, <1>5, <1>6
<1>8. \A r \in DOMAIN custom' : custom'[r] \in Job /\ r \in Nat
  BY <1>2, <1>3, <1>5 DEF ClientInv, TypeOK
<1>9. \E c \in Nat : \A r \in DOMAIN jobs' \cup DOMAIN custom' : r <= c BY <1>3, <1>5
<1>10. atPool' \subseteq DOMAIN custom' BY <1>4, <1>5 DEF ClientInv, TypeOK
<1>11. tokens' \in Seq(1..issued) /\ IsInjective(tokens')
  <2>1. issued \in Nat /\ tokens \in Seq(1..issued) /\ IsInjective(tokens) BY DEF ClientInv, TypeOK, StockOK
  <2> QED BY <2>1, TokenTaken
<1> QED BY <1>5, <1>7, <1>8, <1>9, <1>10, <1>11 DEF Grown

\* A token that is taken is replaced, or lost by a coinbase-only client.
LEMMA TokenBalance ==
    ASSUME ClientInv, UNCHANGED <<config, upstreamState>>,
           \/ UNCHANGED <<tokens, asked, lost>>
           \/ TakeToken /\ asked' = asked + 1 /\ UNCHANGED lost
           \/ TakeToken /\ UNCHANGED asked /\ lost' = lost + 1 /\ config # "full"
    PROVE  TokensReplaced' /\ lost' \in Nat
<1>1. /\ issued \in Nat /\ tokens \in Seq(1..issued) /\ IsInjective(tokens) /\ asked \in Nat /\ lost \in Nat
      /\ TokensReplaced
  BY DEF ClientInv, TypeOK, StockOK
<1>2. CASE UNCHANGED <<tokens, asked, lost>> BY <1>1, <1>2 DEF TokensReplaced
<1>3. CASE TakeToken /\ asked' + lost' = asked + lost + 1 /\ asked' \in Nat /\ lost' \in Nat /\ (config = "full" => lost' = lost)
  <2>1. Len(tokens') + 1 >= Len(tokens) /\ tokens' \in Seq(1..issued) BY <1>1, <1>3, TokenTaken
  <2>2. Len(tokens') \in Nat /\ Len(tokens) \in Nat BY <1>1, <2>1
  <2> QED BY <1>1, <1>3, <2>1, <2>2 DEF TokensReplaced
<1> QED BY <1>1, <1>2, <1>3

\* Once no job waits for a prevhash, the parts about jobs and tokens follow.
LEMMA GrownIsFine ==
    ASSUME ClientInv, Grown(Len(templates')), UNCHANGED <<config, declares, spent, issued, upstreamState>>, Stored' = {}
    PROVE  JobsOK' /\ StockOK' /\ TokensUsedOnce'
<1>1. JobsOK'
  <2>1. declares' \cap DOMAIN custom' = {}
    <3>1. CASE config = "full" BY <3>1 DEF Grown, ClientInv, JobsOK
    <3>2. CASE config # "full" BY <3>2 DEF ClientInv, RequestsOK
    <3> QED BY <3>1, <3>2
  <2> QED BY <2>1 DEF Grown, JobsOK
<1>2. StockOK'
  <2>1. config = "full" => \A i \in DOMAIN tokens', j \in DOMAIN spent' : tokens'[i] # spent'[j]
    BY DEF Grown, ClientInv, StockOK
  <2> QED BY <2>1 DEF Grown, StockOK
<1>3. TokensUsedOnce' BY DEF ClientInv, TokensUsedOnce
<1> QED BY <1>1, <1>2, <1>3

\* A template arrives.
LEMMA TemplateStep ==
    ASSUME ClientInv, NEW future \in BOOLEAN, HandleNewTemplate(future) PROVE ClientInv'
<1> USE DEF setup, tp, work, stock, decl, pool, up, opens, shr
<1> DEFINE t == Len(templates) + 1
<1>1. /\ UNCHANGED <<setup, lastPrev, issued, lost, declares, spent, up, pending, miner, behind, shr, over>>
      /\ t \in Templates /\ ~owed /\ (future \/ lastPrev # 0)
      /\ templates' = Append(templates, future) /\ owed' = future /\ templateStore' = templateStore \cup {t}
      /\ lastFuture' = (IF future THEN t ELSE lastFuture)
      /\ requests' = IF mode = "full" THEN [requests EXCEPT ![t] = 1] ELSE requests
  BY DEF HandleNewTemplate
<1>2. /\ Len(templates) \in Nat /\ templates \in Seq(BOOLEAN) /\ lastPrev \in Nat /\ lastFuture \in Nat
      /\ MaxTemplates \in Nat /\ t \in Nat /\ Templates = 1..MaxTemplates
  BY DeclaratorAssumption DEF ClientInv, TypeOK, Templates
<1>3. /\ templates' \in Seq(BOOLEAN) /\ Len(templates') = t /\ templates'[t] = future
      /\ \A u \in 1..Len(templates) : templates'[u] = templates[u]
  BY <1>1, <1>2
<1> HIDE DEF t
<1>4. t = Len(templates) + 1 BY DEF t
<1>5. /\ lastPrev = lastFuture /\ lastFuture <= Len(templates)
      /\ lastPrev # 0 => templates[lastPrev] /\ lastPrev \in 1..Len(templates)
      /\ \A u \in 1..Len(templates) : u > lastPrev => ~templates[u]
      /\ templateStore \subseteq 1..Len(templates)
  BY <1>1, <1>2 DEF ClientInv, TemplatesOK
<1>6. TemplatesOK'
  <2>1. lastPrev' <= lastFuture' /\ lastFuture' <= Len(templates') BY <1>1, <1>2, <1>3, <1>4, <1>5
  <2>2. IF owed' THEN lastFuture' = Len(templates') /\ lastPrev' < lastFuture' ELSE lastPrev' = lastFuture'
    BY <1>1, <1>2, <1>3, <1>4, <1>5
  <2>3. lastPrev' # 0 => templates'[lastPrev'] BY <1>1, <1>3, <1>5
  <2>4. lastFuture' # 0 => templates'[lastFuture'] BY <1>1, <1>3, <1>5
  <2>5. ASSUME NEW u \in 1..Len(templates'), u > lastPrev', u # lastFuture' PROVE ~templates'[u]
    <3>1. CASE u = t BY <1>1, <1>3, <2>5, <3>1
    <3>2. CASE u # t
      <4>1. u \in 1..Len(templates) BY <1>2, <1>3, <1>4, <2>5, <3>2
      <4> QED BY <1>1, <1>3, <1>5, <2>5, <4>1
    <3> QED BY <3>1, <3>2
  <2>6. templateStore' \subseteq 1..Len(templates')
    <3>1. 1..Len(templates) \subseteq 1..Len(templates') /\ t \in 1..Len(templates') BY <1>2, <1>3, <1>4
    <3> QED BY <1>1, <1>5, <3>1
  <2> QED BY <2>1, <2>2, <2>3, <2>4, <2>5, <2>6 DEF TemplatesOK
<1>7. \A u : Live(u) => Live(u)'
  <2>1. SUFFICES ASSUME NEW u, Live(u) PROVE Live(u)' OBVIOUS
  <2>2. lastPrev # 0 /\ u \in lastPrev..Len(templates) BY <2>1 DEF Live
  <2>3. u \in lastPrev'..Len(templates') /\ u < t BY <1>1, <1>2, <1>3, <1>4, <2>2
  <2> QED BY <1>1, <2>2, <2>3 DEF Live
<1>8. \A u : ~future /\ u = t => Live(u)'
  <2>1. ~future => lastPrev' # 0 /\ t \in lastPrev'..Len(templates') /\ ~owed' BY <1>1, <1>2, <1>3, <1>4, <1>5
  <2> QED BY <2>1 DEF Live
<1>9. Grown(Len(templates'))
  <2>1. Len(templates') \in Nat /\ Len(templates) <= Len(templates') BY <1>2, <1>3, <1>4
  <2>2. CASE UNCHANGED <<jobs, custom, atPool, tokens, asked>> BY <2>1, <2>2, NothingGrows
  <2>3. CASE /\ mode = "coinbase" /\ tokens # <<>> /\ TakeToken /\ asked' = asked + 1
             /\ AddCustom(NewIds(Cardinality(Registered)),
                          [tmpl |-> t, prev |-> lastPrev, future |-> FALSE, token |-> Head(tokens)])
    <3> DEFINE job == [tmpl |-> t, prev |-> lastPrev, future |-> FALSE, token |-> Head(tokens)]
    <3>1. issued \in Nat /\ tokens \in Seq(1..issued) /\ asked \in Nat /\ lastPrev \in 0..MaxTemplates
      BY DEF ClientInv, TypeOK
    <3>2. Head(tokens) \in 1..issued BY <2>3, <3>1
    <3>3. job \in Job /\ job.tmpl = t /\ job.token = Head(tokens) BY <1>1, <3>1, <3>2 DEF Job
    <3>4. Cardinality(Registered) \in Nat
      <4>1. IsFiniteSet(Registered) BY DeclaratorAssumption, FS_Subset DEF Registered
      <4> QED BY <4>1, FS_CardinalityType
    <3>5. config # "full" BY <2>3 DEF ClientInv, TypeOK
    <3>6. t <= Len(templates') /\ asked' \in Nat BY <1>2, <1>3, <2>3, <3>1
    <3> HIDE DEF job
    <3> QED BY <2>1, <2>3, <3>2, <3>3, <3>4, <3>5, <3>6, CustomAdded DEF job
  <2> QED BY <2>2, <2>3 DEF HandleNewTemplate, CoinbaseOnlyTemplate, t
<1>10. Stored' = {}
  <2>1. CASE ~future BY <1>1, <2>1 DEF Stored
  <2>2. CASE future
    <3>1. jobs' = jobs BY <2>2 DEF HandleNewTemplate
    <3>2. ASSUME NEW r \in DOMAIN jobs PROVE jobs[r].tmpl # t
      <4>1. jobs[r].tmpl \in Nat /\ jobs[r].tmpl <= Len(templates)
        BY DEF ClientInv, TypeOK, JobsOK, Job, Templates
      <4> QED BY <1>2, <1>4, <4>1
    <3> QED BY <1>1, <2>2, <3>1, <3>2 DEF Stored
  <2> QED BY <2>1, <2>2
<1>11. JobsOK' /\ StockOK' /\ TokensReplaced' /\ TokensUsedOnce'
  <2>1. UNCHANGED <<tokens, asked>> \/ (TakeToken /\ asked' = asked + 1)
    BY DEF HandleNewTemplate, CoinbaseOnlyTemplate
  <2>2. TokensReplaced' BY <1>1, <2>1, TokenBalance
  <2> QED BY <1>1, <1>9, <1>10, <2>2, GrownIsFine
<1>12. /\ UpstreamOK' /\ accepted' \subseteq DOMAIN custom' /\ upstreamJob' \in [Templates -> {0} \cup DOMAIN custom']
       /\ \A i \in DOMAIN sent : sent[i].job \in DOMAIN custom' /\ custom'[sent[i].job] = custom[sent[i].job]
       /\ \A i \in DOMAIN sent' :
             sent'[i] \in [share : shares', tmpl : Templates, job : DOMAIN custom', tip : 1..MaxTemplates]
  BY <1>1, <1>9, CustomGrows DEF Grown
<1>13. requests' \in [Templates -> 0..2] /\ RequestsOK'
  <2>1. requests \in [Templates -> 0..2] /\ mode \in {"solo", config} BY DEF ClientInv, TypeOK
  <2>2. requests' \in [Templates -> 0..2] BY <1>1, <2>1
  <2>3. config # "full" => requests' = requests BY <1>1, <2>1
  <2>4. ~channel => \A u \in Templates : requests'[u] <= 1 BY <1>1, <2>1 DEF ClientInv, RequestsOK
  <2> QED BY <1>1, <2>2, <2>3, <2>4 DEF ClientInv, RequestsOK
<1>14. /\ known' \in [Miners -> SUBSET Templates]
       /\ \A m \in Miners : known'[m] \subseteq known[m] \cup (IF ~future /\ miner[m] = "open" THEN {t} ELSE {})
  <2>1. known \in [Miners -> SUBSET Templates] BY DEF ClientInv, TypeOK
  <2>2. CASE future
    <3>1. known' = known BY <2>2 DEF HandleNewTemplate
    <3> QED BY <2>1, <3>1
  <2>3. CASE ~future
    <3>1. known' = [m \in Miners |-> IF m \in Open THEN known[m] \cup {t} ELSE known[m]]
      BY <2>3 DEF HandleNewTemplate, t
    <3> QED BY <1>1, <2>1, <2>3, <3>1 DEF Open
  <2> QED BY <2>2, <2>3
<1>15. TypeOK'
  <2>1. Len(templates') <= MaxTemplates /\ {lastFuture', lastPrev'} \subseteq 0..MaxTemplates
    BY <1>1, <1>2, <1>3 DEF ClientInv, TypeOK
  <2>2. declares' \subseteq DOMAIN jobs' BY <1>1, <1>9 DEF Grown, ClientInv, TypeOK
  <2>3. templateStore' \subseteq Templates /\ owed' \in BOOLEAN BY <1>1 DEF ClientInv, TypeOK
  <2> QED BY <1>1, <1>3, <1>9, <1>12, <1>13, <1>14, <2>1, <2>2, <2>3 DEF Grown, ClientInv, TypeOK
<1>16. MinersOK'
  <2>1. ASSUME NEW m \in Miners PROVE (miner'[m] # "open" => known'[m] = {}) /\ \A u \in known'[m] : Live(u)'
    <3>1. (miner[m] # "open" => known[m] = {}) /\ \A u \in known[m] : Live(u) BY DEF ClientInv, MinersOK
    <3>2. \A u \in known'[m] : u \in known[m] \/ (~future /\ u = t /\ miner[m] = "open") BY <1>14
    <3> QED BY <1>1, <1>7, <1>8, <3>1, <3>2
  <2> QED BY <1>1, <1>7, <2>1 DEF ClientInv, MinersOK
<1>17. SentOK'
  <2>1. ASSUME NEW i \in DOMAIN sent PROVE TipIs(sent[i].tmpl, sent[i].tip)'
    <3> DEFINE u == sent[i].tmpl
               k == sent[i].tip
    <3>1. u \in Nat /\ k \in 1..u /\ u <= Len(templates) /\ templates[k]
          /\ \A v \in 1..Len(templates) : k < v /\ v <= u => ~templates[v]
      <4>1. sent[i] \in Message /\ TipIs(sent[i].tmpl, sent[i].tip) BY DEF ClientInv, SentOK
      <4> QED BY <4>1 DEF TipIs, Message
    <3>2. sent' = sent BY <1>1
    <3> HIDE DEF u, k
    <3>3. k \in 1..Len(templates) /\ templates'[k] /\ u <= Len(templates') BY <1>2, <1>3, <1>4, <3>1
    <3>4. ASSUME NEW v \in 1..Len(templates'), k < v, v <= u PROVE ~templates'[v]
      <4>1. v \in 1..Len(templates) BY <1>2, <1>3, <3>1, <3>4
      <4> QED BY <1>3, <3>1, <3>4, <4>1
    <3> QED BY <3>1, <3>2, <3>3, <3>4 DEF TipIs, u, k
  <2> QED BY <1>1, <1>12, <2>1 DEF ClientInv, SentOK, SharesSentOnce
<1> QED BY <1>6, <1>11, <1>12, <1>13, <1>15, <1>16, <1>17 DEF ClientInv
\* The stored job is declared with its prevhash, each token once.
LEMMA StoredDeclared ==
    ASSUME ClientInv, owed, config = "full", DeclareStored
    PROVE  /\ declares' = declares \cup Stored /\ DOMAIN jobs' = DOMAIN jobs
           /\ \A r \in DOMAIN jobs : jobs'[r] \in Job /\ jobs'[r].tmpl = jobs[r].tmpl /\ jobs'[r].token = jobs[r].token
           /\ spent' \in Seq(1..issued) /\ IsInjective(spent')
           /\ \A i \in DOMAIN tokens, j \in DOMAIN spent' : tokens[i] # spent'[j]
<1> DEFINE T == {jobs[r].token : r \in Stored}
           q == SetToSeq(T)
<1>1. Stored = {r \in DOMAIN jobs : jobs[r].tmpl = lastFuture} BY DEF Stored
<1>2. declares' = declares \cup Stored /\ spent' = spent \o q /\ DOMAIN jobs' = DOMAIN jobs
  BY <1>1 DEF DeclareStored
<1>3. ASSUME NEW r \in DOMAIN jobs
      PROVE  jobs'[r] \in Job /\ jobs'[r].tmpl = jobs[r].tmpl /\ jobs'[r].token = jobs[r].token
  <2>1. jobs[r] \in Job /\ lastFuture \in 0..MaxTemplates BY DEF ClientInv, TypeOK
  <2>2. jobs'[r] = jobs[r] \/ jobs'[r] = [jobs[r] EXCEPT !.prev = lastFuture, !.future = FALSE] BY DEF DeclareStored
  <2>3. jobs[r] \in [tmpl : Templates, prev : 0..MaxTemplates, future : BOOLEAN, token : Nat] BY <2>1 DEF Job
  <2>4. CASE jobs'[r] = [jobs[r] EXCEPT !.prev = lastFuture, !.future = FALSE]
    <3>1. jobs'[r].tmpl = jobs[r].tmpl /\ jobs'[r].token = jobs[r].token BY <2>3, <2>4
    <3>2. jobs'[r] \in [tmpl : Templates, prev : 0..MaxTemplates, future : BOOLEAN, token : Nat] BY <2>1, <2>3, <2>4
    <3> QED BY <3>1, <3>2 DEF Job
  <2> QED BY <2>1, <2>2, <2>4
<1>4. issued \in Nat /\ spent \in Seq(1..issued) /\ IsInjective(spent) BY DEF ClientInv, TypeOK, TokensUsedOnce
<1>5. \A x \in T : /\ x \in 1..issued
                   /\ \A i \in DOMAIN tokens : tokens[i] # x
                   /\ \A j \in DOMAIN spent : spent[j] # x
  <2>1. \A r \in Stored : jobs[r].token \in 1..issued BY DEF ClientInv, JobsOK, Stored
  <2>2. \A r \in Stored : /\ \A i \in DOMAIN tokens : tokens[i] # jobs[r].token
                          /\ \A j \in DOMAIN spent : spent[j] # jobs[r].token
    BY DEF ClientInv, StockOK
  <2> QED BY <2>1, <2>2
<1> HIDE DEF T
<1>6. q \in Seq(T) /\ IsInjective(q)
  <2>1. IsFiniteSet(1..issued) BY <1>4, FiniteInterval
  <2>2. IsFiniteSet(T)
    <3>1. T \in SUBSET (1..issued) BY <1>5
    <3> QED BY <2>1, <3>1, FS_Subset
  <2> QED BY <2>2, SetToSeqLists
<1> HIDE DEF q
<1>7. q \in Seq(1..issued) /\ \A j \in DOMAIN q : q[j] \in T
  <2>1. Len(q) \in Nat /\ q \in [1..Len(q) -> T] BY <1>6
  <2>2. T \in SUBSET (1..issued) BY <1>5
  <2>3. q \in Seq(1..issued) BY <1>6, <2>2, WiderSeq
  <2>4. \A j \in 1..Len(q) : q[j] \in T BY <2>1
  <2>5. DOMAIN q = 1..Len(q) BY <2>1
  <2> QED BY <2>3, <2>4, <2>5
<1>8. spent' \in Seq(1..issued) /\ IsInjective(spent')
  <2>1. \A i \in DOMAIN spent, j \in DOMAIN q : spent[i] # q[j] BY <1>5, <1>7
  <2> QED BY <1>2, <1>4, <1>6, <1>7, <2>1, ConcatInjective
<1>9. ASSUME NEW i \in DOMAIN tokens, NEW j \in DOMAIN spent' PROVE tokens[i] # spent'[j]
  <2>1. /\ Len(spent) \in Nat /\ Len(q) \in Nat /\ DOMAIN spent = 1..Len(spent) /\ DOMAIN q = 1..Len(q)
        /\ DOMAIN spent' = 1..(Len(spent) + Len(q))
        /\ \A k \in 1..Len(spent) : spent'[k] = spent[k]
        /\ \A k \in (Len(spent) + 1)..(Len(spent) + Len(q)) : spent'[k] = q[k - Len(spent)] /\ k - Len(spent) \in DOMAIN q
    BY <1>2, <1>4, <1>7, ConcatParts
  <2>2. CASE j <= Len(spent)
    <3>1. spent'[j] = spent[j] /\ j \in DOMAIN spent BY <2>1, <2>2
    <3> QED BY <3>1 DEF ClientInv, StockOK
  <2>3. CASE j > Len(spent)
    <3>1. j \in (Len(spent) + 1)..(Len(spent) + Len(q)) BY <1>9, <2>1, <2>3
    <3>2. spent'[j] \in T BY <1>7, <2>1, <3>1
    <3> QED BY <1>5, <3>2
  <2> QED BY <2>1, <2>2, <2>3
<1> QED BY <1>2, <1>3, <1>8, <1>9

\* A prevhash arrives.
LEMMA PrevHashStep == ASSUME ClientInv, HandleSetNewPrevHash PROVE ClientInv'
<1> USE DEF setup, tp, work, stock, decl, pool, up, opens, shr
<1>1. /\ UNCHANGED <<setup, templates, requests, templateStore, lastFuture, issued, upstreamState, channel, upstreamJob,
                     pending, miner, behind, shares, sent, over>>
      /\ owed /\ owed' = FALSE /\ cached' = [u \in Templates |-> {}] /\ accepted' = {} /\ lastPrev' = lastFuture
      /\ known' = [m \in Miners |-> IF m \in Open THEN {lastFuture} ELSE known[m]]
  BY DEF HandleSetNewPrevHash
<1>2. /\ Len(templates) \in Nat /\ templates \in Seq(BOOLEAN) /\ lastPrev \in Nat /\ lastFuture \in Nat
      /\ MaxTemplates \in Nat /\ Templates = 1..MaxTemplates /\ Len(templates) <= MaxTemplates
  BY DeclaratorAssumption DEF ClientInv, TypeOK, Templates
<1>3. /\ lastFuture = Len(templates) /\ lastPrev < lastFuture /\ lastFuture # 0 /\ templates[lastFuture]
      /\ \A u \in 1..Len(templates) : u > lastPrev /\ u # lastFuture => ~templates[u]
      /\ templateStore \subseteq 1..Len(templates)
  BY <1>1, <1>2 DEF ClientInv, TemplatesOK
<1>4. lastFuture \in Templates BY <1>2, <1>3
<1>5. TemplatesOK' BY <1>1, <1>2, <1>3 DEF TemplatesOK
<1>6. \A u : u = lastFuture => Live(u)' BY <1>1, <1>2, <1>3 DEF Live
<1>7. Stored' = {} BY <1>1 DEF Stored
<1>8. MinersOK'
  <2>1. ASSUME NEW m \in Miners PROVE (miner'[m] # "open" => known'[m] = {}) /\ \A u \in known'[m] : Live(u)'
    <3>1. miner[m] # "open" => known[m] = {} BY DEF ClientInv, MinersOK
    <3>2. known'[m] = IF miner[m] = "open" THEN {lastFuture} ELSE known[m] BY <1>1 DEF Open
    <3> QED BY <1>1, <1>6, <3>1, <3>2
  <2> QED BY <1>1, <1>3, <2>1 DEF MinersOK
<1>9. /\ known' \in [Miners -> SUBSET Templates] /\ cached' \in [Templates -> SUBSET shares']
      /\ {lastFuture', lastPrev'} \subseteq 0..MaxTemplates
  BY <1>1, <1>2, <1>4 DEF ClientInv, TypeOK
<1>10. ASSUME DOMAIN custom \subseteq DOMAIN custom', \A r \in DOMAIN custom : custom'[r] = custom[r]
       PROVE  /\ UpstreamOK' /\ SentOK' /\ upstreamJob' \in [Templates -> {0} \cup DOMAIN custom']
              /\ \A i \in DOMAIN sent' :
                    sent'[i] \in [share : shares', tmpl : Templates, job : DOMAIN custom', tip : 1..MaxTemplates]
  <2>1. /\ \A t \in Templates : upstreamJob'[t] # 0 => custom'[upstreamJob'[t]].tmpl = t
        /\ upstreamJob' \in [Templates -> {0} \cup DOMAIN custom']
        /\ \A i \in DOMAIN sent : sent[i].job \in DOMAIN custom' /\ custom'[sent[i].job] = custom[sent[i].job]
        /\ \A i \in DOMAIN sent' :
              sent'[i] \in [share : shares', tmpl : Templates, job : DOMAIN custom', tip : 1..MaxTemplates]
    BY <1>1, <1>10, CustomGrows
  <2>2. UpstreamOK' BY <1>1, <2>1 DEF UpstreamOK
  <2>3. SentOK'
    <3>1. \A u \in Templates : cached'[u] = {} BY <1>1
    <3> QED BY <1>1, <2>1, <3>1 DEF ClientInv, SentOK, TipIs, SharesSentOnce
  <2> QED BY <2>1, <2>2, <2>3
<1>11. CASE mode = "full"
  <2>1. DeclareStored /\ UNCHANGED <<tokens, asked, lost, custom, atPool>> BY <1>11 DEF HandleSetNewPrevHash
  <2>2. config = "full" BY <1>11 DEF ClientInv, TypeOK
  <2>3. /\ declares' = declares \cup Stored /\ DOMAIN jobs' = DOMAIN jobs
        /\ \A r \in DOMAIN jobs : jobs'[r] \in Job /\ jobs'[r].tmpl = jobs[r].tmpl /\ jobs'[r].token = jobs[r].token
        /\ spent' \in Seq(1..issued) /\ IsInjective(spent')
        /\ \A i \in DOMAIN tokens, j \in DOMAIN spent' : tokens[i] # spent'[j]
    BY <1>1, <2>1, <2>2, StoredDeclared
  <2>4. UpstreamOK' /\ SentOK' BY <1>10, <2>1
  <2>5. TypeOK'
    <3>1. declares' \subseteq DOMAIN jobs' BY <2>3 DEF ClientInv, TypeOK, Stored
    <3> QED BY <1>1, <1>9, <2>1, <2>3, <3>1 DEF ClientInv, TypeOK
  <2>6. RequestsOK' BY <1>1, <2>2 DEF ClientInv, RequestsOK
  <2>7. JobsOK'
    <3>1. declares' \cap DOMAIN custom' = {} BY <2>1, <2>2, <2>3 DEF ClientInv, JobsOK
    <3> QED BY <1>1, <1>7, <2>1, <2>3, <3>1 DEF ClientInv, JobsOK
  <2>8. StockOK' BY <1>1, <1>7, <2>1, <2>3 DEF ClientInv, StockOK
  <2>9. TokensReplaced' BY <1>1, <2>1, Frame DEF ClientInv
  <2> QED BY <1>5, <1>8, <2>3, <2>4, <2>5, <2>6, <2>7, <2>8, <2>9 DEF ClientInv, TokensUsedOnce
<1>12. CASE mode # "full"
  <2>1. CoinbaseOnlyPrevHash /\ UNCHANGED <<declares, spent>> BY <1>12 DEF HandleSetNewPrevHash
  <2>2. Grown(Len(templates'))
    <3>1. Len(templates') \in Nat /\ Len(templates) <= Len(templates') BY <1>1, <1>2
    <3>2. issued \in Nat /\ tokens \in Seq(1..issued) /\ IsInjective(tokens) /\ asked \in Nat
      BY DEF ClientInv, TypeOK, StockOK
    <3>3. CASE UNCHANGED <<jobs, custom, atPool, tokens, asked>> BY <3>1, <3>3, NothingGrows
    <3>4. CASE mode = "coinbase" /\ TakeToken /\ UNCHANGED <<jobs, custom, atPool, asked>>
      <4>1. tokens' \in Seq(1..issued) /\ IsInjective(tokens') BY <3>2, <3>4, TokenTaken
      <4>2. config # "full" BY <3>4 DEF ClientInv, TypeOK
      <4>3. \E c \in Nat : \A r \in DOMAIN jobs \cup DOMAIN custom : r <= c BY DEF ClientInv, JobsOK
      <4>4. \A r \in DOMAIN jobs : jobs[r] \in Job /\ r \in Nat /\ jobs[r].tmpl <= Len(templates') /\ jobs[r].token \in 1..issued
        BY <1>1 DEF ClientInv, TypeOK, JobsOK
      <4>5. atPool \subseteq DOMAIN custom /\ \A r \in DOMAIN custom : custom[r] \in Job /\ r \in Nat
        BY DEF ClientInv, TypeOK
      <4> QED BY <3>2, <3>4, <4>1, <4>2, <4>3, <4>4, <4>5 DEF Grown
    <3>5. CASE /\ mode = "coinbase" /\ tokens # <<>> /\ TakeToken /\ asked' = asked + 1
               /\ AddCustom(NewIds(1), [tmpl |-> lastFuture, prev |-> lastFuture, future |-> TRUE, token |-> Head(tokens)])
      <4> DEFINE job == [tmpl |-> lastFuture, prev |-> lastFuture, future |-> TRUE, token |-> Head(tokens)]
      <4>1. Head(tokens) \in 1..issued BY <3>2, <3>5
      <4>2. lastFuture \in 0..MaxTemplates BY DEF ClientInv, TypeOK
      <4>3. job \in Job /\ job.tmpl = lastFuture /\ job.token = Head(tokens) BY <1>4, <4>1, <4>2 DEF Job
      <4>4. config # "full" BY <3>5 DEF ClientInv, TypeOK
      <4>5. lastFuture <= Len(templates') /\ asked' \in Nat /\ 1 \in Nat BY <1>1, <1>2, <1>3, <3>2, <3>5
      <4> HIDE DEF job
      <4> QED BY <3>1, <3>5, <4>1, <4>3, <4>4, <4>5, CustomAdded DEF job
    <3> QED BY <2>1, <3>3, <3>4, <3>5 DEF CoinbaseOnlyPrevHash
  <2>3. JobsOK' /\ StockOK' /\ TokensReplaced' /\ TokensUsedOnce' /\ lost' \in Nat
    <3>1. \/ UNCHANGED <<tokens, asked, lost>>
          \/ TakeToken /\ asked' = asked + 1 /\ UNCHANGED lost
          \/ mode = "coinbase" /\ TakeToken /\ UNCHANGED asked /\ lost' = lost + 1
      BY <2>1 DEF CoinbaseOnlyPrevHash
    <3>2. mode = "coinbase" => config # "full" BY DEF ClientInv, TypeOK
    <3>3. TokensReplaced' /\ lost' \in Nat BY <1>1, <3>1, <3>2, TokenBalance
    <3> QED BY <1>1, <1>7, <2>1, <2>2, <3>3, GrownIsFine
  <2>4. /\ UpstreamOK' /\ SentOK' /\ upstreamJob' \in [Templates -> {0} \cup DOMAIN custom']
        /\ \A i \in DOMAIN sent' :
              sent'[i] \in [share : shares', tmpl : Templates, job : DOMAIN custom', tip : 1..MaxTemplates]
    BY <1>10, <2>2 DEF Grown
  <2>5. RequestsOK' BY <1>1, <2>1, Frame DEF ClientInv
  <2>6. TypeOK'
    <3>1. declares' \subseteq DOMAIN jobs' BY <2>1, <2>2 DEF Grown, ClientInv, TypeOK
    <3> QED BY <1>1, <1>9, <2>1, <2>2, <2>3, <2>4, <3>1 DEF Grown, ClientInv, TypeOK
  <2> QED BY <1>5, <1>8, <2>3, <2>4, <2>5, <2>6 DEF ClientInv
<1> QED BY <1>11, <1>12

-----------------------------------------------------------------------------
(* Theorems. *)

LEMMA ClientStep == ASSUME ClientInv, [Next]_vars PROVE ClientInv'
<1>1. CASE UNCHANGED vars
  <2>1. TypeOK' BY <1>1
    DEF ClientInv, TypeOK, vars, setup, tp, work, stock, decl, pool, up, opens, shr
  <2> QED BY <1>1, <2>1, Frame DEF ClientInv, vars, setup, tp, work, stock, decl, pool, up, opens, shr
<1>2. ASSUME NEW m \in Miners,
             \/ Join(m) \/ HandleOpen(m) \/ HandleCloseChannel(m) \/ RemoveDownstream(m)
             \/ \E t \in Templates, s \in 1..MaxShares : HandleSubmitShares(m, t, s)
      PROVE  ClientInv'
  BY <1>2, MinerStep, ShareStep
<1>3. ASSUME Next PROVE ClientInv'
  BY <1>2, <1>3, StartStep, TemplateStep, PrevHashStep, TxDataStep, TxDataErrorStep, AllocateStep, DeclaredStep,
     CustomSuccessStep, CustomStaleStep, RefusedStep, ChannelStep
  DEF Next, PoolAnswersOpen
<1> QED BY <1>1, <1>3

\* The client's maps agree: templates with tips, jobs with tokens, and shares
\* with the jobs under which they are sent.
THEOREM ClientAlways == Spec => []ClientInv
<1>1. Init => ClientInv BY ClientInit
<1>2. ClientInv /\ [Next]_vars => ClientInv' BY ClientStep
<1> QED BY <1>1, <1>2, PTL DEF Spec

\* Every token that a template takes is replaced, but for those that a
\* coinbase-only client loses, and none is declared twice, in whatever order templates, prevhashes, transactions and answers arrive:
\* for every set of miners and every number of templates.
THEOREM ClientTokens == Spec => []TokensInv
<1>1. ClientInv => TokensInv BY DEF ClientInv, TokensInv
<1> QED BY <1>1, ClientAlways, PTL

\* A share goes upstream at most once, under a job of the pool for the template
\* it was mined on, and while that template is of the present tip.
THEOREM ClientShares == Spec => []SharesInv
<1>1. ASSUME ClientInv PROVE SharesInv
  <2>1. ASSUME NEW i \in DOMAIN sent
        PROVE  /\ custom[sent[i].job].tmpl = sent[i].tmpl /\ custom[sent[i].job].prev = sent[i].tip
               /\ Tip(custom[sent[i].job].tmpl) = sent[i].tip
    <3>1. /\ sent[i] \in Message /\ custom[sent[i].job].tmpl = sent[i].tmpl
          /\ custom[sent[i].job].prev = sent[i].tip /\ TipIs(sent[i].tmpl, sent[i].tip)
      BY <1>1 DEF ClientInv, SentOK
    <3>2. sent[i].tmpl \in Nat BY <3>1 DEF Message
    <3>3. Tip(sent[i].tmpl) = sent[i].tip BY <3>1, <3>2, TipOf
    <3> QED BY <3>1, <3>3
  <2>2. SharesMatchJobs BY <2>1 DEF SharesMatchJobs
  <2> QED BY <1>1, <2>2 DEF SharesInv, ClientInv, SentOK
<1> QED BY <1>1, ClientAlways, PTL
===============================================================================
