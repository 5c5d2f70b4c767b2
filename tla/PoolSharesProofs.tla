--------------------------- MODULE PoolSharesProofs ---------------------------
(***************************************************************************)
(* Shares and proofs of the pool, for every set of channels, targets and    *)
(* bounds: shares are counted once, judged by the target the miner knows    *)
(* and made pulse proofs at the agreed rate (SharesInv), and the file of a  *)
(* proof leaves the spool only when the node has accepted the proof         *)
(* (ProofsLeaveAccepted).                                                   *)
(***************************************************************************)
EXTENDS PoolShares, TLAPS, FiniteSetTheorems, SequenceTheorems, WellFoundedInduction

JobRecords == [chan : Channels, fee : BOOLEAN]
ChannelRecords == [open : BOOLEAN, target : Targets \cup {0}, active : 0..MaxJobs, past : SUBSET (1..MaxJobs)]

\* The target a miner works with once it has read its messages.
Promised(c) == IF mail[c] = <<>> THEN knows[c] ELSE mail[c][Len(mail[c])]

\* Channels, and what their miners have been told.
MiningOK ==
    /\ setup \in Setups /\ up \in BOOLEAN /\ feeNow \in BOOLEAN
    /\ jobs \in Seq(JobRecords) /\ Len(jobs) <= setup.jobs
    /\ chan \in [Channels -> ChannelRecords]
    /\ mail \in [Channels -> Seq(Targets)] /\ knows \in [Channels -> Targets \cup {0}]
    /\ \A c \in Channels : knows[c] = 0 => mail[c] = <<>> /\ ~chan[c].open
    /\ \A c \in Channels : chan[c].open => chan[c].active # 0 /\ Promised(c) = chan[c].target

\* All telemetry there ever was.
Everywhere == Plus(Plus(delivered, dropped), Plus(batch, Total(telemetry)))

\* Shares and their telemetry.
CountingOK ==
    /\ accepted \subseteq Headers /\ solved \subseteq accepted /\ refused \in 0..setup.refused
    /\ IsFiniteSet(accepted) /\ Cardinality(accepted) <= setup.shares
    /\ telemetry \in [Keys -> Entry]
    /\ batch \in Entry /\ delivered \in Entry /\ dropped \in Entry
    /\ Everywhere.ok = Cardinality(accepted) /\ Everywhere.bad <= refused

\* Pulses: the last one is as late as the cadence of all of them requires.
PulseOK ==
    /\ clock \in 1..setup.clock /\ started \in 1..clock /\ reserve \in setup.reserves
    /\ lastPulse \in [Channels -> 0..clock] /\ pulses \in [Channels -> Nat]
    /\ \A c \in Channels :
          /\ pulses[c] <= Cardinality(accepted)
          /\ pulses[c] = 0 <=> lastPulse[c] = 0
          /\ ~up => pulses[c] = 0
          /\ pulses[c] > 0 =>
                /\ started <= lastPulse[c]
                /\ pulses[c] <= 1 + ((lastPulse[c] - started) \div PulseInterval)

\* Proofs: a file is complete before its proof is submitted, it is written
\* once, and an answer "ok" is the node's.
SpoolOK ==
    /\ proofs \subseteq accepted /\ lost \subseteq proofs
    /\ task \in [Headers -> {"none", "write", "writing", "post", "ok", "no"}]
    /\ spool \in [Headers -> {"none", "partial", "full"}]
    /\ pass \in [todo : SUBSET Headers, at : SUBSET Headers, answer : {"none", "ok", "no"}]
    /\ node \in [accepted : SUBSET proofs, never : SUBSET proofs]
    /\ pass.todo \subseteq proofs
    /\ pass.answer = "ok" => pass.at \subseteq node.accepted
    /\ \A h \in Headers :
          /\ task[h] # "none" \/ spool[h] # "none" => h \in proofs
          /\ task[h] \in {"write", "writing"} => spool[h] # "full"
          /\ task[h] = "ok" => h \in node.accepted

\* No proof disappears: it is being written, complete in the spool, accepted,
\* or was reported as lost.
Whereabouts ==
    \A h \in proofs : task[h] \in {"write", "writing"} \/ spool[h] = "full" \/ h \in node.accepted \cup lost
-----------------------------------------------------------------------------
\* Induction over numbers: what holds of 0, and of n + 1 when of n, has no
\* smallest exception.
LEMMA SmallestNumber ==
    ASSUME NEW T, T \subseteq Nat, T # {}
    PROVE  \E x \in T : \A y \in T : x <= y
<1>1. PICK x \in T : \A y \in T : ~ (<<y, x>> \in OpToRel(<, Nat))
  BY NatLessThanWellFounded, WFMin
<1>2. ASSUME NEW y \in T PROVE x <= y
  <2>1. <<y, x>> \in Nat \X Nat /\ ~(<<y, x>> \in {ss \in Nat \X Nat : ss[1] < ss[2]})
    BY <1>1, Zenon DEF OpToRel
  <2> QED BY <2>1
<1> QED BY <1>2

\* Induction over the subsets of a finite set: exceptions have a minimal one.
LEMMA SmallestSubset ==
    ASSUME NEW S, IsFiniteSet(S), NEW T, T \subseteq SUBSET S, T # {}
    PROVE  \E x \in T : \A y \in T : y \subseteq x => y = x
<1>1. T \subseteq FiniteSubsetsOf(S)
  <2>1. ASSUME NEW x \in T PROVE IsFiniteSet(x) BY FS_Subset
  <2> QED BY <2>1 DEF FiniteSubsetsOf
<1>2. IsWellFoundedOn(StrictSubsetOrdering(S), FiniteSubsetsOf(S))
  BY FS_StrictSubsetOrderingWellFounded
<1>3. PICK x \in T : \A y \in T : ~ (<<y, x>> \in StrictSubsetOrdering(S))
  BY <1>1, <1>2, WFMin
<1>4. ASSUME NEW y \in T, y \subseteq x PROVE y = x
  BY <1>3, <1>4 DEF StrictSubsetOrdering
<1> QED BY <1>4

\* The function behind Total.
Some(s) == CHOOSE x \in s : TRUE
SumOf(t, f, s) == IF s = {} THEN NoEntry ELSE Plus(t[Some(s)], f[s \ {Some(s)}])
Sums(t) == CHOOSE f : f = [s \in SUBSET Keys |-> SumOf(t, f, s)]

LEMMA TotalIsSums == ASSUME NEW t PROVE Total(t) = Sums(t)[Keys]
  BY Zenon DEF Total, Sums, Some, SumOf, FoldSet, MapThenFoldSet
\* Adding two entries up gives an entry.
LEMMA PlusType ==
    /\ NoEntry \in Entry
    /\ \A a, b \in Entry : /\ Plus(a, b) \in Entry
                           /\ Plus(a, b) = Plus(b, a)
                           /\ Plus(a, NoEntry) = a
                           /\ \A c \in Entry : Plus(Plus(a, b), c) = Plus(a, Plus(b, c))
  BY DEF Plus, Entry, NoEntry

LEMMA SomeType == ASSUME NEW s, s # {} PROVE Some(s) \in s
  BY DEF Some

\* Sums adds up every set of keys.
LEMMA SumsDefined ==
    ASSUME IsFiniteSet(Keys), NEW t \in [Keys -> Entry]
    PROVE  /\ Sums(t) \in [SUBSET Keys -> Entry]
           /\ \A s \in SUBSET Keys : Sums(t)[s] = SumOf(t, Sums(t), s)
<1> DEFINE Fits(g, n) == \A s \in SUBSET Keys : Cardinality(s) <= n => g[s] = SumOf(t, g, s)
           Odd == {n \in Nat : ~ \E g \in [SUBSET Keys -> Entry] : Fits(g, n)}
<1>c. \A s \in SUBSET Keys : IsFiniteSet(s) /\ Cardinality(s) \in Nat
  BY FS_Subset, FS_CardinalityType
<1>t. \A g \in [SUBSET Keys -> Entry], s \in SUBSET Keys : SumOf(t, g, s) \in Entry
  BY PlusType, SomeType DEF SumOf
<1>1. Odd = {}
  <2>1. SUFFICES ASSUME Odd # {} PROVE FALSE OBVIOUS
  <2>2. PICK n \in Odd : \A m \in Odd : n <= m BY <2>1, SmallestNumber
  <2>3. n # 0
    <3> DEFINE g == [s \in SUBSET Keys |-> NoEntry]
    <3>1. g \in [SUBSET Keys -> Entry] BY PlusType
    <3>2. ASSUME NEW s \in SUBSET Keys, Cardinality(s) <= 0 PROVE g[s] = SumOf(t, g, s)
      <4>1. s = {} BY <1>c, <3>2, FS_EmptySet
      <4> QED BY <4>1 DEF SumOf
    <3> QED BY <2>2, <3>1, <3>2
  <2>4. PICK g \in [SUBSET Keys -> Entry] : Fits(g, n - 1)
    <3>1. n - 1 \in Nat /\ ~(n <= n - 1) BY <2>2, <2>3
    <3>2. n - 1 \notin Odd BY <2>2, <3>1
    <3> QED BY <3>1, <3>2
  <2> DEFINE h == [s \in SUBSET Keys |-> SumOf(t, g, s)]
  <2>5. h \in [SUBSET Keys -> Entry] BY <1>t
  <2>6. ASSUME NEW s \in SUBSET Keys, Cardinality(s) <= n PROVE h[s] = SumOf(t, h, s)
    <3>1. CASE s = {} BY <3>1 DEF SumOf
    <3>2. CASE s # {}
      <4> DEFINE r == s \ {Some(s)}
      <4>1. Some(s) \in s /\ r \in SUBSET Keys BY <3>2, SomeType
      <4>2. Cardinality(r) <= n - 1
        <5>1. Cardinality(r) = Cardinality(s) - 1 BY <1>c, <4>1, FS_RemoveElement
        <5> QED BY <5>1, <1>c, <2>6, <2>2
      <4>3. g[r] = SumOf(t, g, r) BY <2>4, <4>1, <4>2
      <4>4. h[r] = g[r] BY <4>1, <4>3
      <4> QED BY <3>2, <4>4 DEF SumOf
    <3> QED BY <3>1, <3>2
  <2>7. Fits(h, n) BY <2>6
  <2> QED BY <2>2, <2>5, <2>7
<1>2. PICK g \in [SUBSET Keys -> Entry] : Fits(g, Cardinality(Keys))
  <2>1. Cardinality(Keys) \in Nat BY FS_CardinalityType
  <2> QED BY <1>1, <2>1
<1>3. \A s \in SUBSET Keys : g[s] = SumOf(t, g, s)
  BY <1>2, FS_Subset
<1>4. g = [s \in SUBSET Keys |-> SumOf(t, g, s)]
  BY <1>3
<1>5. Sums(t) = [s \in SUBSET Keys |-> SumOf(t, Sums(t), s)]
  BY <1>4 DEF Sums
<1>6. \A s \in SUBSET Keys : Sums(t)[s] = SumOf(t, Sums(t), s) BY <1>5
<1>7. ASSUME NEW s \in SUBSET Keys PROVE Sums(t)[s] \in Entry
  <2> DEFINE T == {r \in SUBSET Keys : Sums(t)[r] \notin Entry}
  <2>1. SUFFICES ASSUME T # {} PROVE FALSE OBVIOUS
  <2>2. PICK x \in T : \A y \in T : y \subseteq x => y = x
    <3>1. T \subseteq SUBSET Keys OBVIOUS
    <3> HIDE DEF T
    <3> QED BY <2>1, <3>1, SmallestSubset
  <2>3. x # {} BY <1>6, <2>2, PlusType DEF SumOf
  <2>4. Some(x) \in x /\ x \ {Some(x)} \in SUBSET Keys /\ x \ {Some(x)} # x BY <2>2, <2>3, SomeType
  <2>5. Sums(t)[x \ {Some(x)}] \in Entry BY <2>2, <2>4
  <2>6. Sums(t)[x] = Plus(t[Some(x)], Sums(t)[x \ {Some(x)}]) BY <1>6, <2>2, <2>3 DEF SumOf
  <2> QED BY <2>2, <2>4, <2>5, <2>6, PlusType
<1>8. Sums(t) \in [SUBSET Keys -> Entry] BY <1>5, <1>7
<1> QED BY <1>6, <1>8

\* What adding to one entry does to the total.
LEMMA TotalGrows ==
    ASSUME IsFiniteSet(Keys), NEW t \in [Keys -> Entry], NEW k \in Keys, NEW e \in Entry,
           NEW u, u = [t EXCEPT ![k] = Plus(@, e)]
    PROVE  /\ u \in [Keys -> Entry] /\ Total(t) \in Entry
           /\ Total(u) = Plus(Total(t), e)
<1>1. u \in [Keys -> Entry] BY PlusType
<1> DEFINE Right(s) == Sums(u)[s] = IF k \in s THEN Plus(Sums(t)[s], e) ELSE Sums(t)[s]
           T == {s \in SUBSET Keys : ~Right(s)}
<1>2. T = {}
  <2>1. SUFFICES ASSUME T # {} PROVE FALSE OBVIOUS
  <2>2. PICK s \in T : \A y \in T : y \subseteq s => y = s
    <3>1. T \subseteq SUBSET Keys OBVIOUS
    <3> HIDE DEF T
    <3> QED BY <2>1, <3>1, SmallestSubset
  <2>3. s # {}
    <3>1. Sums(u)[{}] = NoEntry /\ Sums(t)[{}] = NoEntry BY <1>1, SumsDefined DEF SumOf
    <3> QED BY <2>2, <3>1
  <2> DEFINE x == Some(s)
             r == s \ {x}
  <2>4. x \in s /\ x \in Keys /\ r \in SUBSET Keys /\ r # s BY <2>2, <2>3, SomeType
  <2>5. Right(r) BY <2>2, <2>4
  <2>6. /\ Sums(u)[s] = Plus(u[x], Sums(u)[r])
        /\ Sums(t)[s] = Plus(t[x], Sums(t)[r])
    BY <1>1, <2>2, <2>3, SumsDefined DEF SumOf
  <2>7. Sums(t)[r] \in Entry /\ t[x] \in Entry BY <2>4, SumsDefined
  <2>8. CASE x = k
    <3>1. u[x] = Plus(t[x], e) /\ Sums(u)[r] = Sums(t)[r] BY <2>4, <2>5, <2>8
    <3>2. Plus(Plus(t[x], e), Sums(t)[r]) = Plus(Plus(t[x], Sums(t)[r]), e)
      BY <2>7 DEF Plus, Entry
    <3> QED BY <2>2, <2>4, <2>6, <2>8, <3>1, <3>2
  <2>9. CASE x # k
    <3>1. u[x] = t[x] /\ (k \in r <=> k \in s) BY <2>4, <2>9
    <3>2. Plus(t[x], Plus(Sums(t)[r], e)) = Plus(Plus(t[x], Sums(t)[r]), e)
      BY <2>7 DEF Plus, Entry
    <3> QED BY <2>2, <2>5, <2>6, <3>1, <3>2
  <2> QED BY <2>8, <2>9
<1>3. Total(u) = Sums(u)[Keys] /\ Total(t) = Sums(t)[Keys] BY TotalIsSums
<1>4. Sums(t)[Keys] \in Entry BY SumsDefined
<1> QED BY <1>1, <1>2, <1>3, <1>4

\* Nothing adds up to nothing.
LEMMA TotalOfNothing ==
    ASSUME IsFiniteSet(Keys)
    PROVE  NoTelemetry \in [Keys -> Entry] /\ Total(NoTelemetry) = NoEntry
<1>1. NoTelemetry \in [Keys -> Entry] BY PlusType DEF NoTelemetry
<1> DEFINE T == {s \in SUBSET Keys : Sums(NoTelemetry)[s] # NoEntry}
<1>2. T = {}
  <2>1. SUFFICES ASSUME T # {} PROVE FALSE OBVIOUS
  <2>2. PICK s \in T : \A y \in T : y \subseteq s => y = s
    <3>1. T \subseteq SUBSET Keys OBVIOUS
    <3> HIDE DEF T
    <3> QED BY <2>1, <3>1, SmallestSubset
  <2>3. s # {} BY <1>1, <2>2, SumsDefined DEF SumOf
  <2> DEFINE x == Some(s)
             r == s \ {x}
  <2>4. x \in s /\ x \in Keys /\ r \in SUBSET Keys /\ r # s BY <2>2, <2>3, SomeType
  <2>5. Sums(NoTelemetry)[r] = NoEntry BY <2>2, <2>4
  <2>6. Sums(NoTelemetry)[s] = Plus(NoTelemetry[x], Sums(NoTelemetry)[r])
    BY <1>1, <2>2, <2>3, SumsDefined DEF SumOf
  <2>7. NoTelemetry[x] = NoEntry BY <2>4 DEF NoTelemetry
  <2> QED BY <2>2, <2>5, <2>6, <2>7, PlusType
<1> QED BY <1>1, <1>2, TotalIsSums

\* One telemetry entry per payout, hence finitely many.
LEMMA KeysFinite == IsFiniteSet(Keys) /\ \A c \in Channels : KeyOf[c] \in Keys
<1> DEFINE f == [c \in Channels |-> KeyOf[c]]
<1>1. f \in Surjection(Channels, Keys) BY DEF Surjection, Keys
<1>2. IsFiniteSet(Channels) BY SharesAssumption
<1> QED BY <1>1, <1>2, FS_Surjection DEF Keys
-----------------------------------------------------------------------------
\* The bound of the job ids is a bound of every setup.
LEMMA JobsBounded ==
    ASSUME NEW s \in Setups PROVE MaxJobs \in Nat /\ s.jobs \in Nat /\ s.jobs <= MaxJobs
<1>1. \A r \in Setups : r.jobs \in Nat BY SharesAssumption
<1> DEFINE Top(U) == \E m \in U : \A r \in U : m.jobs >= r.jobs
           T == {U \in SUBSET Setups : U # {} /\ ~Top(U)}
<1>2. T = {}
  <2>1. SUFFICES ASSUME T # {} PROVE FALSE OBVIOUS
  <2>2. PICK U \in T : \A V \in T : V \subseteq U => V = U
    <3>1. T \subseteq SUBSET Setups /\ IsFiniteSet(Setups) BY SharesAssumption
    <3> HIDE DEF T
    <3> QED BY <2>1, <3>1, SmallestSubset
  <2>3. PICK x : x \in U BY <2>2
  <2>4. U \ {x} = {} \/ Top(U \ {x})
    <3>1. U \ {x} \in SUBSET Setups /\ U \ {x} # U /\ U \ {x} \subseteq U BY <2>2, <2>3
    <3>2. U \ {x} \notin T BY <2>2, <3>1
    <3> HIDE DEF Top
    <3> QED BY <3>1, <3>2
  <2>5. Top(U)
    <3>1. CASE U \ {x} = {} BY <1>1, <2>2, <2>3, <3>1
    <3>2. CASE Top(U \ {x})
      <4>1. PICK m \in U \ {x} : \A r \in U \ {x} : m.jobs >= r.jobs BY <3>2
      <4>2. m.jobs \in Nat /\ x.jobs \in Nat /\ \A r \in U : r.jobs \in Nat BY <1>1, <2>2, <2>3, <4>1
      <4>3. CASE x.jobs >= m.jobs
        <5>1. \A r \in U : x.jobs >= r.jobs BY <4>1, <4>2, <4>3
        <5> QED BY <2>3, <5>1
      <4>4. CASE ~(x.jobs >= m.jobs)
        <5>1. \A r \in U : m.jobs >= r.jobs BY <4>1, <4>2, <4>4
        <5> QED BY <4>1, <5>1
      <4> QED BY <4>3, <4>4
    <3> QED BY <2>4, <3>1, <3>2
  <2> QED BY <2>2, <2>5
<1> DEFINE J == {r.jobs : r \in Setups}
<1>3. Top(Setups) BY <1>2
<1>4. \E m \in J : \A n \in J : m >= n
  <2>1. PICK m \in Setups : \A r \in Setups : m.jobs >= r.jobs BY <1>3
  <2>2. m.jobs \in J /\ \A n \in J : m.jobs >= n BY <2>1
  <2> QED BY <2>2
<1>5. Max(J) \in J /\ \A n \in J : Max(J) >= n BY <1>4 DEF Max
<1>6. MaxJobs = Max(J) BY DEF MaxJobs
<1> QED BY <1>1, <1>5, <1>6

\* The constants a step works with.
LEMMA Constants ==
    /\ 0 \notin Targets /\ Targets \subseteq Nat
    /\ PulseInterval \in Nat /\ PulseInterval > 0
    /\ \A s \in Setups : s.clock \in Nat /\ s.shares \in Nat /\ s.refused \in Nat /\ s.clock > 0
  BY SharesAssumption

\* Init establishes the four parts.
LEMMA SharesInit ==
    ASSUME Init PROVE MiningOK /\ CountingOK /\ PulseOK /\ SpoolOK /\ Whereabouts
<1> USE DEF Init
<1>1. MiningOK
  <2>1. jobs \in Seq(JobRecords) /\ Len(jobs) = 0 OBVIOUS
  <2>2. MaxJobs \in Nat /\ 0 <= setup.jobs BY JobsBounded
  <2>3. Closed \in ChannelRecords BY <2>2 DEF Closed, ChannelRecords
  <2>4. \A c \in Channels : ~chan[c].open BY DEF Closed
  <2>5. chan \in [Channels -> ChannelRecords] BY <2>3
  <2>6. mail \in [Channels -> Seq(Targets)] /\ \A c \in Channels : mail[c] = <<>> OBVIOUS
  <2>7. knows \in [Channels -> Targets \cup {0}] OBVIOUS
  <2>8. feeNow \in BOOLEAN /\ up \in BOOLEAN /\ setup \in Setups OBVIOUS
  <2>9. Len(jobs) <= setup.jobs BY <2>1, <2>2
  <2> QED BY <2>1, <2>4, <2>5, <2>6, <2>7, <2>8, <2>9 DEF MiningOK
<1>2. CountingOK
  <2>1. telemetry \in [Keys -> Entry] /\ Total(telemetry) = NoEntry BY TotalOfNothing, KeysFinite
  <2>2. NoEntry \in Entry BY PlusType
  <2>3. Everywhere = NoEntry BY <2>1, <2>2, PlusType DEF Everywhere
  <2>4. IsFiniteSet(accepted) /\ Cardinality(accepted) = 0 BY FS_EmptySet
  <2>5. NoEntry.ok = 0 /\ NoEntry.bad = 0 BY DEF NoEntry
  <2> QED BY <2>1, <2>2, <2>3, <2>4, <2>5, Constants DEF CountingOK
<1>3. PulseOK
  <2>1. Cardinality(accepted) = 0 BY FS_EmptySet
  <2> QED BY <2>1, Constants DEF PulseOK
<1>4. SpoolOK /\ Whereabouts BY DEF SpoolOK, Whereabouts, NoPass
<1> QED BY <1>1, <1>2, <1>3, <1>4

\* The steps there are, without their grouping into tasks.
LEMMA StepKinds ==
    ASSUME [Next]_vars
    PROVE  \/ \E c \in Channels, t \in Targets : OpenChannel(c, t) \/ Vardiff(c, t) \/ UpdateChannel(c, t)
           \/ \E c \in Channels : RotateFeeJob(c) \/ NewTip(c) \/ CloseChannel(c) \/ ReadTarget(c)
           \/ \E h \in Headers : Validated(h)
           \/ Tick \/ RefreshWork \/ Crash \/ Restart
           \/ FlushTelemetry \/ TelemetryDelivered \/ TelemetryDropped
           \/ \E h \in Headers : CreateFile(h) \/ FillFile(h) \/ WriteFails(h) \/ PostAnswered(h) \/ SkipEntry(h)
           \/ \E h \in Headers, answer \in {"ok", "no"} : Post(h, answer) \/ RetryEntry(h, answer)
           \/ RetrySpooledProofs \/ RetryAnswered
           \/ UNCHANGED vars
  BY DEF Next, ManagerSteps, RetryLoop, Telemetry, Environment, ProofTask, SubmitSharesStandard,
         SubmitSharesExtended

\* Reading the first message does not change the last word.
LEMMA LastOfTail ==
    ASSUME NEW S, NEW s \in Seq(S), s # <<>>
    PROVE  (IF Tail(s) = <<>> THEN Head(s) ELSE Tail(s)[Len(Tail(s))]) = s[Len(s)]
<1>1. Tail(s) \in Seq(S) /\ Len(Tail(s)) = Len(s) - 1
      /\ \A i \in 1 .. Len(Tail(s)) : Tail(s)[i] = s[i+1]
  BY HeadTailProperties
<1>2. Len(s) \in Nat \ {0} /\ Head(s) = s[1]
  <2>1. s # <<>> /\ s \in Seq(S) OBVIOUS
  <2> QED BY <2>1, EmptySeq
<1>3. ASSUME NEW t \in Seq(S), Len(t) = Len(s) - 1, \A i \in 1 .. Len(t) : t[i] = s[i+1]
      PROVE  (IF t = <<>> THEN s[1] ELSE t[Len(t)]) = s[Len(s)]
  <2>1. CASE t = <<>>
    <3>1. Len(t) = 0 BY <2>1
    <3> QED BY <1>2, <1>3, <2>1, <3>1
  <2>2. CASE t # <<>>
    <3>1. Len(t) \in Nat \ {0} BY <2>2, EmptySeq
    <3> QED BY <1>2, <1>3, <2>2, <3>1
  <2> QED BY <2>1, <2>2
<1> QED BY <1>1, <1>2, <1>3, Zenon

\* Whatever changes the target of a channel tells the miner, after what it was
\* told before.
LEMMA MiningStep ==
    ASSUME MiningOK, [Next]_vars PROVE MiningOK'
<1> USE DEF mining, targets, pulse, counts, disk, bounds, vars
<1>t. /\ setup \in Setups /\ up \in BOOLEAN /\ feeNow \in BOOLEAN
      /\ jobs \in Seq(JobRecords) /\ Len(jobs) <= setup.jobs /\ Len(jobs) \in Nat
      /\ chan \in [Channels -> ChannelRecords]
      /\ mail \in [Channels -> Seq(Targets)] /\ knows \in [Channels -> Targets \cup {0}]
  BY DEF MiningOK
<1>k. \A c \in Channels : knows[c] = 0 => mail[c] = <<>> /\ ~chan[c].open BY DEF MiningOK
<1>p. \A c \in Channels : chan[c].open => chan[c].active # 0 /\ Promised(c) = chan[c].target BY DEF MiningOK
<1>b. MaxJobs \in Nat /\ setup.jobs \in Nat /\ setup.jobs <= MaxJobs BY <1>t, JobsBounded
<1>q. ASSUME UNCHANGED <<setup, jobs, chan, mail, knows>>, up' \in BOOLEAN, feeNow' \in BOOLEAN
      PROVE MiningOK'
  BY <1>q DEF MiningOK, Promised
<1>n. ASSUME NEW c \in Channels, jobs' = Append(jobs, Job(c)), Len(jobs) < setup.jobs, UNCHANGED setup
      PROVE  /\ jobs' \in Seq(JobRecords) /\ Len(jobs') <= setup'.jobs
             /\ Len(jobs') \in 1..MaxJobs
  <2>1. Job(c) \in JobRecords BY <1>t DEF Job, JobRecords
  <2>2. Len(jobs') = Len(jobs) + 1 /\ jobs' \in Seq(JobRecords) BY <2>1, <1>n, <1>t
  <2> QED BY <2>2, <1>t, <1>b, <1>n
<1>1. ASSUME NEW c \in Channels, NEW t \in Targets, OpenChannel(c, t) PROVE MiningOK'
  <2>1. /\ UNCHANGED <<setup, up, feeNow, mail>> /\ jobs' \in Seq(JobRecords)
        /\ Len(jobs') <= setup'.jobs /\ Len(jobs') \in 1..MaxJobs
    BY <1>1, <1>n DEF OpenChannel
  <2>2. chan' \in [Channels -> ChannelRecords] BY <1>1, <1>t, <2>1 DEF OpenChannel, ChannelRecords
  <2>3. knows' \in [Channels -> Targets \cup {0}] BY <1>1, <1>t DEF OpenChannel
  <2>4. ASSUME NEW d \in Channels
        PROVE /\ knows'[d] = 0 => mail'[d] = <<>> /\ ~chan'[d].open
              /\ chan'[d].open => chan'[d].active # 0 /\ Promised(d)' = chan'[d].target
    <3>1. CASE d = c
      <4>1. chan'[c] = [open |-> TRUE, target |-> t, active |-> Len(jobs'), past |-> {}] /\ knows'[c] = t
        BY <1>1, <1>t DEF OpenChannel
      <4>2. mail'[c] = <<>> /\ t # 0 BY <1>1, <1>k, <2>1, Constants DEF OpenChannel
      <4> QED BY <3>1, <4>1, <4>2, <2>1 DEF Promised
    <3>2. CASE d # c
      <4>1. chan'[d] = chan[d] /\ knows'[d] = knows[d] /\ mail'[d] = mail[d]
        BY <1>1, <1>t, <3>2 DEF OpenChannel
      <4> QED BY <4>1, <1>k, <1>p DEF Promised
    <3> QED BY <3>1, <3>2
  <2> QED BY <2>1, <2>2, <2>3, <2>4, <1>t DEF MiningOK
<1>2. ASSUME NEW c \in Channels, NEW t \in Targets, Vardiff(c, t) \/ UpdateChannel(c, t) PROVE MiningOK'
  <2>1. UNCHANGED <<setup, up, feeNow, jobs, knows>> /\ TellTarget(c, t) /\ chan[c].open
    BY <1>2 DEF Vardiff, UpdateChannel
  <2>2. chan' \in [Channels -> ChannelRecords] BY <1>t, <2>1 DEF TellTarget, ChannelRecords
  <2>3. mail' \in [Channels -> Seq(Targets)] BY <1>t, <2>1 DEF TellTarget
  <2>4. ASSUME NEW d \in Channels
        PROVE /\ knows'[d] = 0 => mail'[d] = <<>> /\ ~chan'[d].open
              /\ chan'[d].open => chan'[d].active # 0 /\ Promised(d)' = chan'[d].target
    <3>1. CASE d = c
      <4>1. chan'[c] = [chan[c] EXCEPT !.target = t] /\ mail'[c] = Append(mail[c], t)
        BY <1>t, <2>1 DEF TellTarget
      <4>2. mail[c] \in Seq(Targets) BY <1>t
      <4>3. mail'[c] # <<>> /\ mail'[c][Len(mail'[c])] = t BY <4>1, <4>2
      <4>4. chan'[c].target = t /\ chan'[c].active = chan[c].active BY <4>1, <1>t DEF ChannelRecords
      <4>5. knows'[c] # 0 BY <2>1, <1>k
      <4> QED BY <3>1, <4>3, <4>4, <4>5, <1>p, <2>1 DEF Promised
    <3>2. CASE d # c
      <4>1. chan'[d] = chan[d] /\ knows'[d] = knows[d] /\ mail'[d] = mail[d]
        BY <1>t, <2>1, <3>2 DEF TellTarget
      <4> QED BY <4>1, <1>k, <1>p DEF Promised
    <3> QED BY <3>1, <3>2
  <2> QED BY <2>1, <2>2, <2>3, <2>4, <1>t DEF MiningOK
<1>3. ASSUME NEW c \in Channels, RotateFeeJob(c) \/ NewTip(c) PROVE MiningOK'
  <2>1. /\ UNCHANGED <<setup, up, feeNow, mail, knows>> /\ chan[c].open
        /\ jobs' \in Seq(JobRecords) /\ Len(jobs') <= setup'.jobs /\ Len(jobs') \in 1..MaxJobs
    BY <1>3, <1>n DEF RotateFeeJob, NewTip
  <2>2. chan[c].active \in 1..MaxJobs BY <1>t, <1>p, <1>b, <2>1 DEF ChannelRecords
  <2>3. \E past \in SUBSET (1..MaxJobs) :
            chan' = [chan EXCEPT ![c].active = Len(jobs'), ![c].past = past]
    <3>1. chan[c].past \in SUBSET (1..MaxJobs) BY <1>t DEF ChannelRecords
    <3>2. CASE RotateFeeJob(c)
      <4>1. chan' = [chan EXCEPT ![c].active = Len(jobs'), ![c].past = chan[c].past \cup {chan[c].active}]
        BY <3>2, <1>t DEF RotateFeeJob, ChannelRecords
      <4> QED BY <4>1, <3>1, <2>2
    <3>3. CASE NewTip(c) BY <3>3 DEF NewTip
    <3> QED BY <1>3, <3>2, <3>3
  <2>4. PICK past \in SUBSET (1..MaxJobs) :
            chan' = [chan EXCEPT ![c].active = Len(jobs'), ![c].past = past]
    BY <2>3
  <2>5. chan' \in [Channels -> ChannelRecords]
    <3> DEFINE r == [chan[c] EXCEPT !.active = Len(jobs'), !.past = past]
    <3>1. chan[c] \in ChannelRecords /\ Len(jobs') \in 0..MaxJobs BY <1>t, <2>1
    <3>2. r \in ChannelRecords BY <3>1, <2>4 DEF ChannelRecords
    <3>3. chan' = [chan EXCEPT ![c] = r] BY <1>t, <2>4, <3>1 DEF ChannelRecords
    <3> QED BY <1>t, <3>2, <3>3
  <2>6. ASSUME NEW d \in Channels
        PROVE /\ chan'[d].open = chan[d].open /\ chan'[d].target = chan[d].target
              /\ chan[d].open => chan'[d].active # 0
    BY <1>t, <1>p, <2>1, <2>4 DEF ChannelRecords
  <2> QED BY <2>1, <2>5, <2>6, <1>t, <1>k, <1>p DEF MiningOK, Promised
<1>4. ASSUME NEW c \in Channels, CloseChannel(c) PROVE MiningOK'
  <2>1. UNCHANGED <<setup, up, feeNow, jobs, mail, knows>> BY <1>4 DEF CloseChannel
  <2>2. Closed \in ChannelRecords /\ ~Closed.open BY <1>b DEF Closed, ChannelRecords
  <2>3. chan' \in [Channels -> ChannelRecords] BY <1>4, <1>t, <2>2 DEF CloseChannel
  <2>4. \A d \in Channels : chan'[d] = chan[d] \/ ~chan'[d].open BY <1>4, <1>t, <2>2 DEF CloseChannel
  <2>5. ASSUME NEW d \in Channels
        PROVE /\ knows'[d] = 0 => mail'[d] = <<>> /\ ~chan'[d].open
              /\ chan'[d].open => chan'[d].active # 0 /\ Promised(d)' = chan'[d].target
    BY <2>1, <2>4, <1>k, <1>p DEF Promised
  <2> QED BY <2>1, <2>3, <2>5, <1>t DEF MiningOK
<1>5. ASSUME NEW c \in Channels, ReadTarget(c) PROVE MiningOK'
  <2>1. UNCHANGED <<setup, up, feeNow, jobs, chan>> /\ mail[c] # <<>> BY <1>5 DEF ReadTarget
  <2>2. mail[c] \in Seq(Targets) BY <1>t
  <2>3. mail'[c] = Tail(mail[c]) /\ knows'[c] = Head(mail[c]) BY <1>5, <1>t DEF ReadTarget
  <2>4. Head(mail[c]) \in Targets /\ Tail(mail[c]) \in Seq(Targets) BY <2>1, <2>2
  <2>5. mail' \in [Channels -> Seq(Targets)] /\ knows' \in [Channels -> Targets \cup {0}]
    BY <1>5, <1>t, <2>4 DEF ReadTarget
  <2>6. ASSUME NEW d \in Channels
        PROVE (knows'[d] = 0 => mail'[d] = <<>> /\ ~chan[d].open) /\ Promised(d)' = Promised(d)
    <3>1. CASE d = c
      <4>1. knows'[c] # 0 BY <2>3, <2>4, Constants
      <4>2. Promised(c)' = mail[c][Len(mail[c])]
        BY <2>1, <2>2, <2>3, LastOfTail DEF Promised
      <4> QED BY <3>1, <4>1, <4>2, <2>1 DEF Promised
    <3>2. CASE d # c BY <1>5, <1>t, <1>k, <3>2 DEF ReadTarget, Promised
    <3> QED BY <3>1, <3>2
  <2> QED BY <2>1, <2>5, <2>6, <1>t, <1>p DEF MiningOK
<1>6. CASE Crash
  <2>1. UNCHANGED <<setup, feeNow, jobs>> /\ up' = FALSE BY <1>6 DEF Crash
  <2>2. Closed \in ChannelRecords /\ ~Closed.open BY <1>b DEF Closed, ChannelRecords
  <2>3. chan' \in [Channels -> ChannelRecords] /\ \A d \in Channels : ~chan'[d].open
    <3>1. chan' = [d \in Channels |-> Closed] BY <1>6 DEF Crash
    <3> QED BY <3>1, <2>2
  <2>4. /\ mail' \in [Channels -> Seq(Targets)] /\ knows' \in [Channels -> Targets \cup {0}]
        /\ \A d \in Channels : mail'[d] = <<>>
    BY <1>6 DEF Crash
  <2> QED BY <2>1, <2>3, <2>4, <1>t DEF MiningOK
<1>7. CASE Tick
  <2>1. feeNow' \in BOOLEAN BY <1>7 DEF Tick
  <2> QED BY <1>7, <1>q, <1>t, <2>1 DEF Tick
<1>8. CASE Restart BY <1>8, <1>q, <1>t DEF Restart
<1>9. CASE RefreshWork \/ FlushTelemetry \/ TelemetryDelivered \/ TelemetryDropped \/ UNCHANGED vars
  BY <1>9, <1>q, <1>t DEF RefreshWork, FlushTelemetry, TelemetryDelivered, TelemetryDropped
<1>10. CASE RetrySpooledProofs \/ RetryAnswered
  BY <1>10, <1>q, <1>t DEF RetrySpooledProofs, RetryAnswered
<1>11. ASSUME NEW h \in Headers, Validated(h) PROVE MiningOK'
  BY <1>11, <1>q, <1>t DEF Validated
<1>12. ASSUME NEW h \in Headers,
              CreateFile(h) \/ FillFile(h) \/ WriteFails(h) \/ PostAnswered(h) \/ SkipEntry(h)
       PROVE MiningOK'
  BY <1>12, <1>q, <1>t DEF CreateFile, FillFile, WriteFails, PostAnswered, SkipEntry
<1>13. ASSUME NEW h \in Headers, NEW answer \in {"ok", "no"}, Post(h, answer) \/ RetryEntry(h, answer)
       PROVE MiningOK'
  BY <1>13, <1>q, <1>t DEF Post, RetryEntry
<1> QED BY <1>1, <1>2, <1>3, <1>4, <1>5, <1>6, <1>7, <1>8, <1>9, <1>10, <1>11, <1>12, <1>13, StepKinds

\* What a share adds to the telemetry is an entry.
LEMMA RecordedTotal ==
    ASSUME MiningOK, CountingOK, NEW h \in Headers, NEW ok \in BOOLEAN, telemetry' = Recorded(h, ok)
    PROVE  /\ telemetry' \in [Keys -> Entry] /\ Total(telemetry) \in Entry /\ Total(telemetry)' \in Entry
           /\ Total(telemetry)'.ok = Total(telemetry).ok + IF ok THEN 1 ELSE 0
           /\ Total(telemetry)'.bad = Total(telemetry).bad + IF ok THEN 0 ELSE 1
<1> DEFINE e == [ok  |-> IF ok THEN 1 ELSE 0, bad |-> IF ok THEN 0 ELSE 1,
                 fee |-> IF ok /\ jobs[chan[h.chan].active].fee THEN 1 ELSE 0]
<1>1. e \in Entry /\ e.ok = (IF ok THEN 1 ELSE 0) /\ e.bad = (IF ok THEN 0 ELSE 1) BY DEF Entry
<1>2. h.chan \in Channels BY DEF Headers
<1>3. IsFiniteSet(Keys) /\ KeyOf[h.chan] \in Keys BY <1>2, KeysFinite
<1>4. telemetry \in [Keys -> Entry] BY DEF CountingOK
<1>5. telemetry' = [telemetry EXCEPT ![KeyOf[h.chan]] = Plus(@, e)] BY DEF Recorded
<1> HIDE DEF e
<1>6. /\ telemetry' \in [Keys -> Entry] /\ Total(telemetry) \in Entry
      /\ Total(telemetry') = Plus(Total(telemetry), e)
  BY <1>1, <1>3, <1>4, <1>5, TotalGrows
<1>7. Total(telemetry') \in Entry BY <1>1, <1>6, PlusType
<1>8. /\ Plus(Total(telemetry), e).ok = Total(telemetry).ok + e.ok
      /\ Plus(Total(telemetry), e).bad = Total(telemetry).bad + e.bad
  BY DEF Plus
<1> QED BY <1>1, <1>6, <1>7, <1>8

\* A sum grows with its last part.
LEMMA Grows ==
    ASSUME NEW a \in Nat, NEW b \in Nat, NEW c \in Nat, NEW d \in Nat, NEW n \in Nat, NEW m \in Nat,
           NEW e, e = d + n
    PROVE  /\ a + b + c + d = m => a + b + c + e = m + n
           /\ a + b + c + d <= m => a + b + c + e <= m + n
  OBVIOUS

\* The parts of all telemetry are entries, and add up part by part.
LEMMA EverywhereAddsUp ==
    ASSUME CountingOK
    PROVE  /\ Total(telemetry) \in Entry
           /\ Everywhere.ok = delivered.ok + dropped.ok + batch.ok + Total(telemetry).ok
           /\ Everywhere.bad = delivered.bad + dropped.bad + batch.bad + Total(telemetry).bad
           /\ \A e \in Entry : e.ok \in Nat /\ e.bad \in Nat
<1>1. telemetry \in [Keys -> Entry] BY DEF CountingOK
<1>2. Total(telemetry) = Sums(telemetry)[Keys] /\ Sums(telemetry)[Keys] \in Entry
  BY <1>1, TotalIsSums, SumsDefined, KeysFinite
<1>3. \A e \in Entry : e.ok \in Nat /\ e.bad \in Nat BY DEF Entry
<1>4. batch \in Entry /\ delivered \in Entry /\ dropped \in Entry BY DEF CountingOK
<1> QED BY <1>2, <1>3, <1>4 DEF Everywhere, Plus

\* Telemetry moves from the entries to the batch, and from there to the node or
\* away; only a checked share adds to it.
LEMMA CountingStep ==
    ASSUME MiningOK, CountingOK, [Next]_vars PROVE CountingOK'
<1> USE DEF mining, targets, pulse, counts, disk, bounds, vars
<1>t. /\ accepted \subseteq Headers /\ solved \subseteq accepted /\ refused \in 0..setup.refused
      /\ IsFiniteSet(accepted) /\ Cardinality(accepted) <= setup.shares
      /\ telemetry \in [Keys -> Entry]
      /\ batch \in Entry /\ delivered \in Entry /\ dropped \in Entry
      /\ Everywhere.ok = Cardinality(accepted) /\ Everywhere.bad <= refused
  BY DEF CountingOK
<1>s. setup \in Setups /\ setup.shares \in Nat /\ setup.refused \in Nat /\ Cardinality(accepted) \in Nat
  BY <1>t, Constants, FS_CardinalityType DEF MiningOK
<1>e. /\ Total(telemetry) \in Entry
      /\ Everywhere.ok = delivered.ok + dropped.ok + batch.ok + Total(telemetry).ok
      /\ Everywhere.bad = delivered.bad + dropped.bad + batch.bad + Total(telemetry).bad
  BY EverywhereAddsUp
<1>n. \A e \in Entry : e.ok \in Nat /\ e.bad \in Nat BY DEF Entry
<1>m. /\ delivered.ok \in Nat /\ dropped.ok \in Nat /\ batch.ok \in Nat /\ Total(telemetry).ok \in Nat
      /\ delivered.bad \in Nat /\ dropped.bad \in Nat /\ batch.bad \in Nat /\ Total(telemetry).bad \in Nat
      /\ refused \in Nat
  BY <1>t, <1>s, <1>e, <1>n
<1>a. /\ delivered.ok + dropped.ok + batch.ok + Total(telemetry).ok = Cardinality(accepted)
      /\ delivered.bad + dropped.bad + batch.bad + Total(telemetry).bad <= refused
  BY <1>t, <1>e
<1>z. NoEntry \in Entry /\ NoEntry.ok = 0 /\ NoEntry.bad = 0 BY DEF Entry, NoEntry
<1>y. /\ NoTelemetry \in [Keys -> Entry] /\ Total(NoTelemetry) = NoEntry
  BY TotalOfNothing, KeysFinite
\* It suffices to say where the telemetry is after the step.
<1>w. ASSUME /\ accepted' \subseteq Headers /\ solved' \subseteq accepted' /\ refused' \in 0..setup.refused
             /\ IsFiniteSet(accepted') /\ Cardinality(accepted') <= setup.shares /\ UNCHANGED setup
             /\ telemetry' \in [Keys -> Entry]
             /\ batch' \in Entry /\ delivered' \in Entry /\ dropped' \in Entry
             /\ delivered'.ok + dropped'.ok + batch'.ok + Total(telemetry)'.ok = Cardinality(accepted')
             /\ delivered'.bad + dropped'.bad + batch'.bad + Total(telemetry)'.bad <= refused'
      PROVE CountingOK'
  <2>1. Total(telemetry)' \in Entry
    BY <1>w, TotalIsSums, SumsDefined, KeysFinite
  <2>2. /\ Everywhere'.ok = delivered'.ok + dropped'.ok + batch'.ok + Total(telemetry)'.ok
        /\ Everywhere'.bad = delivered'.bad + dropped'.bad + batch'.bad + Total(telemetry)'.bad
    BY <1>w, <2>1, <1>n DEF Everywhere, Plus
  <2> QED BY <1>w, <2>2 DEF CountingOK
<1>q. ASSUME UNCHANGED <<setup, accepted, solved, refused, telemetry, batch, delivered, dropped>>
      PROVE CountingOK'
  BY <1>q DEF CountingOK, Everywhere
<1>1. ASSUME NEW h \in Headers, Validated(h) PROVE CountingOK'
  <2>1. UNCHANGED <<setup, batch, delivered, dropped>> /\ Cardinality(accepted) < setup.shares
    BY <1>1 DEF Validated
  <2>2. CASE InvalidChannel
    <3>1. UNCHANGED <<accepted, solved, telemetry>> /\ refused' = refused + 1 /\ refused < setup.refused
      BY <2>2 DEF InvalidChannel
    <3>2. UNCHANGED Total(telemetry) BY <3>1
    <3>3. refused' \in 0..setup.refused /\ refused <= refused' BY <3>1, <1>t, <1>s
    <3>4. delivered.bad + dropped.bad + batch.bad + Total(telemetry).bad <= refused'
      BY <1>t, <1>e, <1>n, <3>3
    <3> QED BY <1>w, <1>t, <1>e, <2>1, <3>1, <3>2, <3>3, <3>4
  <2>3. CASE Refused(h)
    <3>1. /\ UNCHANGED <<accepted, solved>> /\ refused' = refused + 1 /\ refused < setup.refused
          /\ telemetry' = Recorded(h, FALSE)
      BY <2>3 DEF Refused
    <3>2. /\ telemetry' \in [Keys -> Entry] /\ Total(telemetry)'.ok = Total(telemetry).ok + 0
          /\ Total(telemetry)'.bad = Total(telemetry).bad + 1
      BY <3>1, RecordedTotal
    <3>3. refused' \in 0..setup.refused BY <3>1, <1>t, <1>s
    <3>4. /\ delivered.ok + dropped.ok + batch.ok + Total(telemetry)'.ok = Cardinality(accepted)
          /\ delivered.bad + dropped.bad + batch.bad + Total(telemetry)'.bad <= refused'
      <4>1. delivered.ok + dropped.ok + batch.ok + Total(telemetry)'.ok = Cardinality(accepted) + 0
        BY <1>a, <1>m, <1>s, <3>2, Grows
      <4>2. delivered.bad + dropped.bad + batch.bad + Total(telemetry)'.bad <= refused + 1
        BY <1>a, <1>m, <3>2, Grows
      <4>3. refused' = refused + 1 /\ Cardinality(accepted) + 0 = Cardinality(accepted) BY <1>s, <3>1
      <4> QED BY <4>1, <4>2, <4>3
    <3> QED BY <1>w, <1>t, <2>1, <3>1, <3>2, <3>3, <3>4
  <2>4. CASE Valid(h) /\ Accepted(h)
    <3>1. /\ accepted' = accepted \cup {h} /\ h \notin accepted /\ solved' \subseteq accepted'
          /\ refused' = refused /\ telemetry' = Recorded(h, TRUE)
      BY <2>4, <1>t DEF Accepted, Valid, Solved
    <3>2. /\ telemetry' \in [Keys -> Entry] /\ Total(telemetry)'.ok = Total(telemetry).ok + 1
          /\ Total(telemetry)'.bad = Total(telemetry).bad + 0
      BY <3>1, RecordedTotal
    <3>3. IsFiniteSet(accepted') /\ Cardinality(accepted') = Cardinality(accepted) + 1
      BY <1>t, <3>1, FS_AddElement
    <3>4. /\ delivered.ok + dropped.ok + batch.ok + Total(telemetry)'.ok = Cardinality(accepted')
          /\ delivered.bad + dropped.bad + batch.bad + Total(telemetry)'.bad <= refused'
      <4>1. delivered.ok + dropped.ok + batch.ok + Total(telemetry)'.ok = Cardinality(accepted) + 1
        BY <1>a, <1>m, <1>s, <3>2, Grows
      <4>2. delivered.bad + dropped.bad + batch.bad + Total(telemetry)'.bad <= refused + 0
        BY <1>a, <1>m, <3>2, Grows
      <4>3. refused' = refused + 0 BY <1>m, <3>1
      <4> QED BY <3>3, <4>1, <4>2, <4>3
    <3>5. Cardinality(accepted') <= setup.shares BY <1>s, <2>1, <3>3
    <3> QED BY <1>w, <1>t, <2>1, <3>1, <3>2, <3>3, <3>4, <3>5
  <2> QED BY <1>1, <2>2, <2>3, <2>4 DEF Validated
<1>2. CASE FlushTelemetry
  <2>1. /\ UNCHANGED <<setup, accepted, solved, refused, delivered, dropped>> /\ batch = NoEntry
        /\ batch' = Total(telemetry) /\ telemetry' = NoTelemetry
    BY <1>2 DEF FlushTelemetry
  <2>2. Total(telemetry)' = NoEntry BY <2>1, <1>y
  <2>3. /\ delivered.ok + dropped.ok + batch'.ok + Total(telemetry)'.ok = Cardinality(accepted)
        /\ delivered.bad + dropped.bad + batch'.bad + Total(telemetry)'.bad <= refused
    BY <1>t, <1>e, <1>n, <1>z, <2>1, <2>2
  <2> QED BY <1>w, <1>t, <1>e, <1>y, <2>1, <2>3
<1>3. CASE TelemetryDelivered
  <2>1. /\ UNCHANGED <<setup, accepted, solved, refused, telemetry, dropped>>
        /\ batch' = NoEntry /\ delivered' = Plus(delivered, batch) /\ UNCHANGED Total(telemetry)
    BY <1>3 DEF TelemetryDelivered
  <2>2. delivered' \in Entry BY <1>t, <2>1, PlusType
  <2>3. delivered'.ok = delivered.ok + batch.ok /\ delivered'.bad = delivered.bad + batch.bad
    BY <2>1 DEF Plus
  <2>4. /\ delivered'.ok + dropped.ok + batch'.ok + Total(telemetry).ok = Cardinality(accepted)
        /\ delivered'.bad + dropped.bad + batch'.bad + Total(telemetry).bad <= refused
    BY <1>t, <1>e, <1>n, <1>z, <2>1, <2>3
  <2> QED BY <1>w, <1>t, <1>z, <2>1, <2>2, <2>4
<1>4. CASE TelemetryDropped
  <2>1. /\ UNCHANGED <<setup, accepted, solved, refused, telemetry, delivered>>
        /\ batch' = NoEntry /\ dropped' = Plus(dropped, batch) /\ UNCHANGED Total(telemetry)
    BY <1>4 DEF TelemetryDropped
  <2>2. dropped' \in Entry BY <1>t, <2>1, PlusType
  <2>3. dropped'.ok = dropped.ok + batch.ok /\ dropped'.bad = dropped.bad + batch.bad
    BY <2>1 DEF Plus
  <2>4. /\ delivered.ok + dropped'.ok + batch'.ok + Total(telemetry).ok = Cardinality(accepted)
        /\ delivered.bad + dropped'.bad + batch'.bad + Total(telemetry).bad <= refused
    BY <1>t, <1>e, <1>n, <1>z, <2>1, <2>3
  <2> QED BY <1>w, <1>t, <1>z, <2>1, <2>2, <2>4
<1>5. CASE Crash
  <2>1. /\ UNCHANGED <<setup, accepted, solved, refused, delivered>>
        /\ batch' = NoEntry /\ dropped' = Plus(dropped, Plus(Total(telemetry), batch))
        /\ telemetry' = NoTelemetry
    BY <1>5 DEF Crash
  <2>2. dropped' \in Entry BY <1>t, <1>e, <2>1, PlusType
  <2>3. /\ dropped'.ok = dropped.ok + (Total(telemetry).ok + batch.ok)
        /\ dropped'.bad = dropped.bad + (Total(telemetry).bad + batch.bad)
    BY <2>1 DEF Plus
  <2>4. Total(telemetry)' = NoEntry BY <2>1, <1>y
  <2>5. /\ delivered.ok + dropped'.ok + batch'.ok + Total(telemetry)'.ok = Cardinality(accepted)
        /\ delivered.bad + dropped'.bad + batch'.bad + Total(telemetry)'.bad <= refused
    BY <1>t, <1>e, <1>n, <1>z, <2>1, <2>3, <2>4
  <2> QED BY <1>w, <1>t, <1>z, <1>y, <2>1, <2>2, <2>5
<1>6. ASSUME NEW c \in Channels, NEW t \in Targets, OpenChannel(c, t) \/ Vardiff(c, t) \/ UpdateChannel(c, t)
      PROVE CountingOK'
  BY <1>6, <1>q DEF OpenChannel, Vardiff, UpdateChannel
<1>7. ASSUME NEW c \in Channels, RotateFeeJob(c) \/ NewTip(c) \/ CloseChannel(c) \/ ReadTarget(c)
      PROVE CountingOK'
  BY <1>7, <1>q DEF RotateFeeJob, NewTip, CloseChannel, ReadTarget
<1>8. CASE Tick \/ RefreshWork \/ Restart \/ RetrySpooledProofs \/ RetryAnswered \/ UNCHANGED vars
  BY <1>8, <1>q DEF Tick, RefreshWork, Restart, RetrySpooledProofs, RetryAnswered
<1>9. ASSUME NEW h \in Headers,
             CreateFile(h) \/ FillFile(h) \/ WriteFails(h) \/ PostAnswered(h) \/ SkipEntry(h)
      PROVE CountingOK'
  BY <1>9, <1>q DEF CreateFile, FillFile, WriteFails, PostAnswered, SkipEntry
<1>10. ASSUME NEW h \in Headers, NEW answer \in {"ok", "no"}, Post(h, answer) \/ RetryEntry(h, answer)
       PROVE CountingOK'
  BY <1>10, <1>q DEF Post, RetryEntry
<1> QED BY <1>1, <1>2, <1>3, <1>4, <1>5, <1>6, <1>7, <1>8, <1>9, <1>10, StepKinds

\* A further interval has room for one more pulse.
LEMMA Intervals ==
    ASSUME NEW a \in Nat, NEW b \in Nat, NEW i \in Nat, i > 0
    PROVE  /\ a \div i \in Nat
           /\ a <= b => a \div i <= b \div i
           /\ b >= a + i => b \div i >= 1 + (a \div i)
<1>1. a \div i \in Nat /\ b \div i \in Nat OBVIOUS
<1>2. PICK q \in Nat, r \in Nat : q = a \div i /\ a = i * q + r /\ r < i OBVIOUS
<1>3. PICK p \in Nat, s \in Nat : p = b \div i /\ b = i * p + s /\ s < i OBVIOUS
<1>4. ASSUME p < q PROVE i * p + i <= i * q
  <2>1. PICK d \in Nat : q = p + 1 + d BY <1>4
  <2>2. i * q = i * p + i + i * d BY <2>1
  <2>3. i * d \in Nat /\ i * p \in Nat OBVIOUS
  <2> QED BY <2>2, <2>3
<1>5. a <= b => q <= p
  <2>1. i * p \in Nat /\ i * q \in Nat OBVIOUS
  <2> QED BY <1>2, <1>3, <1>4, <2>1
<1>6. b >= a + i => p >= 1 + q
  <2>1. i * p \in Nat /\ i * q \in Nat OBVIOUS
  <2>2. p = q => i * p = i * q OBVIOUS
  <2> QED BY <1>2, <1>3, <1>4, <2>1, <2>2
<1> QED BY <1>1, <1>2, <1>3, <1>5, <1>6

\* A pulse comes an interval after the last one; nothing else moves lastPulse
\* but the end of the process.
LEMMA PulseStep ==
    ASSUME MiningOK, CountingOK, PulseOK, [Next]_vars PROVE PulseOK'
<1> USE DEF mining, targets, pulse, counts, disk, bounds, vars
<1>t. /\ clock \in 1..setup.clock /\ started \in 1..clock /\ reserve \in setup.reserves
      /\ lastPulse \in [Channels -> 0..clock] /\ pulses \in [Channels -> Nat]
  BY DEF PulseOK
<1>p. \A c \in Channels :
          /\ pulses[c] <= Cardinality(accepted)
          /\ pulses[c] = 0 <=> lastPulse[c] = 0
          /\ ~up => pulses[c] = 0
          /\ pulses[c] > 0 =>
                /\ started <= lastPulse[c]
                /\ pulses[c] <= 1 + ((lastPulse[c] - started) \div PulseInterval)
  BY DEF PulseOK
<1>s. /\ setup \in Setups /\ setup.clock \in Nat /\ clock \in Nat /\ started \in Nat /\ started <= clock
      /\ clock >= 1 /\ PulseInterval \in Nat /\ PulseInterval > 0
      /\ IsFiniteSet(accepted) /\ Cardinality(accepted) \in Nat
  BY <1>t, Constants, FS_CardinalityType DEF MiningOK, CountingOK
<1>l. \A c \in Channels : lastPulse[c] \in Nat /\ lastPulse[c] <= clock BY <1>t, <1>s
<1>q. ASSUME UNCHANGED <<setup, up, clock, started, reserve, lastPulse, pulses, accepted>> PROVE PulseOK'
  BY <1>q DEF PulseOK
<1>1. ASSUME NEW h \in Headers, Validated(h) PROVE PulseOK'
  <2>1. UNCHANGED <<setup, up, clock, started, reserve>> /\ up BY <1>1 DEF Validated
  <2>2. CASE InvalidChannel \/ Refused(h) BY <2>1, <2>2, <1>q DEF InvalidChannel, Refused
  <2>3. CASE Valid(h) /\ Accepted(h)
    <3>1. accepted' = accepted \cup {h} /\ h \notin accepted BY <2>3 DEF Accepted, Valid
    <3>2. Cardinality(accepted') = Cardinality(accepted) + 1 BY <1>s, <3>1, FS_AddElement
    <3>3. CASE ~IsPulse(h)
      <4>1. UNCHANGED <<lastPulse, pulses>> BY <2>3, <3>3 DEF Accepted
      <4>2. \A c \in Channels : pulses[c] <= Cardinality(accepted') BY <1>p, <1>s, <1>t, <3>2
      <4> QED BY <1>t, <1>p, <2>1, <4>1, <4>2 DEF PulseOK
    <3>4. CASE IsPulse(h)
      <4>1. h.chan \in Channels BY DEF Headers
      <4>2. /\ lastPulse' = [lastPulse EXCEPT ![h.chan] = clock]
            /\ pulses' = [pulses EXCEPT ![h.chan] = @ + 1]
        BY <2>3, <3>4 DEF Accepted
      <4>3. lastPulse' \in [Channels -> 0..clock'] /\ pulses' \in [Channels -> Nat]
        BY <1>t, <1>s, <2>1, <4>1, <4>2
      <4>4. ASSUME NEW c \in Channels
            PROVE /\ pulses'[c] <= Cardinality(accepted')
                  /\ pulses'[c] = 0 <=> lastPulse'[c] = 0
                  /\ ~up' => pulses'[c] = 0
                  /\ pulses'[c] > 0 =>
                       /\ started' <= lastPulse'[c]
                       /\ pulses'[c] <= 1 + ((lastPulse'[c] - started') \div PulseInterval)
        <5>1. CASE c # h.chan
          <6>1. pulses'[c] = pulses[c] /\ lastPulse'[c] = lastPulse[c] BY <1>t, <4>2, <5>1
          <6>2. pulses[c] <= Cardinality(accepted') BY <1>p, <1>s, <1>t, <3>2
          <6> QED BY <1>p, <2>1, <6>1, <6>2
        <5>2. CASE c = h.chan
          <6>1. pulses'[c] = pulses[c] + 1 /\ lastPulse'[c] = clock /\ pulses[c] \in Nat BY <1>t, <4>2, <5>2
          <6>2. pulses'[c] <= Cardinality(accepted') BY <1>p, <1>s, <3>2, <6>1
          <6>3. lastPulse[c] = 0 \/ clock - lastPulse[c] >= PulseInterval BY <3>4, <5>2 DEF IsPulse
          <6>4. pulses'[c] <= 1 + ((clock - started) \div PulseInterval)
            <7>1. clock - started \in Nat BY <1>s
            <7>2. CASE lastPulse[c] = 0
              <8>1. pulses'[c] = 1 BY <1>p, <6>1, <7>2
              <8>2. (clock - started) \div PulseInterval \in Nat BY <7>1, <1>s, Intervals
              <8> QED BY <8>1, <8>2
            <7>3. CASE lastPulse[c] # 0 /\ clock - lastPulse[c] >= PulseInterval
              <8>1. started <= lastPulse[c] /\ pulses[c] <= 1 + ((lastPulse[c] - started) \div PulseInterval)
                BY <1>p, <6>1, <7>3
              <8>2. lastPulse[c] - started \in Nat BY <1>l, <1>s, <8>1
              <8>3. clock - started >= (lastPulse[c] - started) + PulseInterval BY <1>l, <1>s, <7>3
              <8>4. /\ (lastPulse[c] - started) \div PulseInterval \in Nat
                    /\ (clock - started) \div PulseInterval \in Nat
                    /\ (clock - started) \div PulseInterval >= 1 + ((lastPulse[c] - started) \div PulseInterval)
                BY <7>1, <8>2, <8>3, <1>s, Intervals
              <8> QED BY <6>1, <8>1, <8>4
            <7> QED BY <6>3, <7>2, <7>3
          <6> QED BY <1>s, <2>1, <6>1, <6>2, <6>4
        <5> QED BY <5>1, <5>2
      <4> QED BY <1>t, <2>1, <4>3, <4>4 DEF PulseOK
    <3> QED BY <3>3, <3>4
  <2> QED BY <1>1, <2>2, <2>3 DEF Validated
<1>2. CASE Tick
  <2>1. /\ clock' = clock + 1 /\ clock < setup.clock
        /\ UNCHANGED <<setup, up, started, reserve, lastPulse, pulses, accepted>>
    BY <1>2 DEF Tick
  <2>2. clock' \in 1..setup.clock /\ started \in 1..clock' BY <1>s, <2>1, <1>t
  <2>3. lastPulse \in [Channels -> 0..clock'] BY <1>s, <1>t, <1>l, <2>1
  <2> QED BY <1>t, <1>p, <2>1, <2>2, <2>3 DEF PulseOK
<1>3. CASE RefreshWork
  <2>1. /\ UNCHANGED <<setup, up, clock, started, lastPulse, pulses, accepted>>
        /\ reserve' \in setup.reserves
    BY <1>3 DEF RefreshWork
  <2> QED BY <1>t, <1>p, <2>1 DEF PulseOK
<1>4. CASE Crash
  <2>1. /\ UNCHANGED <<setup, clock, started, reserve, accepted>>
        /\ lastPulse' = [c \in Channels |-> 0] /\ pulses' = [c \in Channels |-> 0]
    BY <1>4 DEF Crash
  <2>2. lastPulse' \in [Channels -> 0..clock'] /\ pulses' \in [Channels -> Nat] BY <1>s, <2>1
  <2>3. \A c \in Channels : pulses'[c] = 0 /\ lastPulse'[c] = 0 BY <2>1
  <2> QED BY <1>s, <1>t, <2>1, <2>2, <2>3 DEF PulseOK
<1>5. CASE Restart
  <2>1. /\ UNCHANGED <<setup, clock, lastPulse, pulses, accepted>> /\ started' = clock
        /\ reserve' \in setup.reserves /\ ~up
    BY <1>5 DEF Restart
  <2>2. \A c \in Channels : pulses[c] = 0 BY <1>p, <2>1
  <2>3. started' \in 1..clock' BY <1>s, <2>1
  <2> QED BY <1>s, <1>t, <1>p, <2>1, <2>2, <2>3 DEF PulseOK
<1>6. ASSUME NEW c \in Channels, NEW t \in Targets, OpenChannel(c, t) \/ Vardiff(c, t) \/ UpdateChannel(c, t)
      PROVE PulseOK'
  BY <1>6, <1>q DEF OpenChannel, Vardiff, UpdateChannel
<1>7. ASSUME NEW c \in Channels, RotateFeeJob(c) \/ NewTip(c) \/ CloseChannel(c) \/ ReadTarget(c)
      PROVE PulseOK'
  BY <1>7, <1>q DEF RotateFeeJob, NewTip, CloseChannel, ReadTarget
<1>8. CASE FlushTelemetry \/ TelemetryDelivered \/ TelemetryDropped \/ UNCHANGED vars
  BY <1>8, <1>q DEF FlushTelemetry, TelemetryDelivered, TelemetryDropped
<1>9. CASE RetrySpooledProofs \/ RetryAnswered
  BY <1>9, <1>q DEF RetrySpooledProofs, RetryAnswered
<1>10. ASSUME NEW h \in Headers,
              CreateFile(h) \/ FillFile(h) \/ WriteFails(h) \/ PostAnswered(h) \/ SkipEntry(h)
       PROVE PulseOK'
  BY <1>10, <1>q DEF CreateFile, FillFile, WriteFails, PostAnswered, SkipEntry
<1>11. ASSUME NEW h \in Headers, NEW answer \in {"ok", "no"}, Post(h, answer) \/ RetryEntry(h, answer)
       PROVE PulseOK'
  BY <1>11, <1>q DEF Post, RetryEntry
<1> QED BY <1>1, <1>2, <1>3, <1>4, <1>5, <1>6, <1>7, <1>8, <1>9, <1>10, <1>11, StepKinds

\* The node forgets no proof it has accepted, and says "ok" only to those.
LEMMA AnswersEffect ==
    ASSUME SpoolOK, NEW h \in proofs, NEW answer \in {"ok", "no"}, Answers(h, answer)
    PROVE  /\ node' \in [accepted : SUBSET proofs, never : SUBSET proofs]
           /\ node.accepted \subseteq node'.accepted
           /\ answer = "ok" => h \in node'.accepted
<1>1. node \in [accepted : SUBSET proofs, never : SUBSET proofs] BY DEF SpoolOK
<1>2. CASE answer = "ok"
  <2>1. node' = [node EXCEPT !.accepted = @ \cup {h}] BY <1>2 DEF Answers
  <2> QED BY <1>1, <2>1
<1>3. CASE answer = "no"
  <2>1. \/ node' = [node EXCEPT !.never = @ \cup {h}]
        \/ node' = node
        \/ node' = [node EXCEPT !.accepted = @ \cup ({h} \ node.never)]
    BY <1>3 DEF Answers
  <2> QED BY <1>1, <1>3, <2>1
<1> QED BY <1>2, <1>3

\* A step removes no complete file but those of accepted proofs.
Stays == \A h \in Headers : spool[h] = "full" /\ spool'[h] # "full" => h \in node.accepted

\* Headers are written once, so that the task that writes a file finds none, and
\* a file that is complete goes only with an accepted proof.
LEMMA SpoolStep ==
    ASSUME CountingOK, SpoolOK, Whereabouts, [Next]_vars
    PROVE  /\ SpoolOK' /\ Whereabouts'
           /\ Stays
<1> USE DEF mining, targets, pulse, counts, disk, bounds, vars
<1>a. proofs \subseteq accepted /\ accepted \subseteq Headers /\ lost \subseteq proofs
  BY DEF CountingOK, SpoolOK
<1>t. /\ task \in [Headers -> {"none", "write", "writing", "post", "ok", "no"}]
      /\ spool \in [Headers -> {"none", "partial", "full"}]
      /\ pass \in [todo : SUBSET Headers, at : SUBSET Headers, answer : {"none", "ok", "no"}]
      /\ node \in [accepted : SUBSET proofs, never : SUBSET proofs]
  BY DEF SpoolOK
<1>p. pass.todo \subseteq proofs /\ (pass.answer = "ok" => pass.at \subseteq node.accepted) BY DEF SpoolOK
<1>h. \A h \in Headers :
          /\ task[h] # "none" \/ spool[h] # "none" => h \in proofs
          /\ task[h] \in {"write", "writing"} => spool[h] # "full"
          /\ task[h] = "ok" => h \in node.accepted
  BY DEF SpoolOK
<1>w. \A h \in proofs :
          task[h] \in {"write", "writing"} \/ spool[h] = "full" \/ h \in node.accepted \cup lost
  BY DEF Whereabouts
<1>q. ASSUME UNCHANGED <<proofs, lost, task, spool, pass, node>>, accepted \subseteq accepted'
      PROVE SpoolOK' /\ Whereabouts' /\ Stays
  BY <1>q DEF SpoolOK, Whereabouts, Stays
\* A task moves on; the node may have learnt of its proof.
<1>m. ASSUME NEW h \in Headers, NEW st \in {"none", "write", "writing", "post", "ok", "no"},
             task' = [task EXCEPT ![h] = st]
      PROVE  /\ task' \in [Headers -> {"none", "write", "writing", "post", "ok", "no"}]
             /\ \A k \in Headers : task'[k] = IF k = h THEN st ELSE task[k]
  BY <1>t, <1>m
<1>f. ASSUME NEW h \in Headers, NEW st \in {"none", "partial", "full"}, spool' = [spool EXCEPT ![h] = st]
      PROVE  /\ spool' \in [Headers -> {"none", "partial", "full"}]
             /\ \A k \in Headers : spool'[k] = IF k = h THEN st ELSE spool[k]
  BY <1>t, <1>f
<1>1. ASSUME NEW h \in Headers, Validated(h) PROVE SpoolOK' /\ Whereabouts' /\ Stays
  <2>1. UNCHANGED <<spool, pass, node, lost>> BY <1>1 DEF Validated
  <2>2. CASE InvalidChannel \/ Refused(h) BY <2>1, <2>2, <1>q DEF InvalidChannel, Refused
  <2>3. CASE Valid(h) /\ Accepted(h) /\ ~ShouldSubmitProof(h)
    <3>1. accepted \subseteq accepted' /\ UNCHANGED <<proofs, task>> BY <2>3 DEF Accepted
    <3> QED BY <2>1, <3>1, <1>q
  <2>4. CASE Valid(h) /\ Accepted(h) /\ ShouldSubmitProof(h)
    <3>1. /\ h \notin accepted /\ accepted' = accepted \cup {h} /\ proofs' = proofs \cup {h}
          /\ task' = [task EXCEPT ![h] = "write"]
      BY <2>4 DEF Accepted, Valid, SubmitProof
    <3>2. h \notin proofs /\ spool[h] = "none" BY <3>1, <1>a, <1>h
    <3>3. /\ task' \in [Headers -> {"none", "write", "writing", "post", "ok", "no"}]
          /\ \A k \in Headers : task'[k] = IF k = h THEN "write" ELSE task[k]
      BY <3>1, <1>m
    <3>4. node \in [accepted : SUBSET proofs', never : SUBSET proofs'] BY <3>1, <1>t
    <3>5. SpoolOK' BY <1>a, <1>t, <1>p, <1>h, <2>1, <3>1, <3>2, <3>3, <3>4 DEF SpoolOK
    <3>6. Whereabouts' BY <1>w, <1>a, <2>1, <3>1, <3>3 DEF Whereabouts
    <3> QED BY <3>5, <3>6, <2>1 DEF Stays
  <2> QED BY <1>1, <2>2, <2>3, <2>4 DEF Validated
<1>2. ASSUME NEW h \in Headers, CreateFile(h) PROVE SpoolOK' /\ Whereabouts' /\ Stays
  <2>1. /\ UNCHANGED <<accepted, proofs, pass, node, lost>> /\ task[h] = "write"
        /\ task' = [task EXCEPT ![h] = "writing"] /\ spool' = [spool EXCEPT ![h] = "partial"]
    BY <1>2 DEF CreateFile
  <2>2. /\ task' \in [Headers -> {"none", "write", "writing", "post", "ok", "no"}]
        /\ \A k \in Headers : task'[k] = IF k = h THEN "writing" ELSE task[k]
    BY <2>1, <1>m
  <2>3. /\ spool' \in [Headers -> {"none", "partial", "full"}]
        /\ \A k \in Headers : spool'[k] = IF k = h THEN "partial" ELSE spool[k]
    BY <2>1, <1>f
  <2>4. SpoolOK' BY <1>a, <1>t, <1>p, <1>h, <2>1, <2>2, <2>3 DEF SpoolOK
  <2>5. Whereabouts' BY <1>w, <1>a, <2>1, <2>2, <2>3 DEF Whereabouts
  <2>6. Stays BY <1>h, <2>1, <2>3 DEF Stays
  <2> QED BY <2>4, <2>5, <2>6
<1>3. ASSUME NEW h \in Headers, FillFile(h) PROVE SpoolOK' /\ Whereabouts' /\ Stays
  <2>1. /\ UNCHANGED <<accepted, proofs, pass, node, lost>> /\ task[h] = "writing"
        /\ task' = [task EXCEPT ![h] = "post"] /\ spool' = [spool EXCEPT ![h] = "full"]
    BY <1>3 DEF FillFile
  <2>2. /\ task' \in [Headers -> {"none", "write", "writing", "post", "ok", "no"}]
        /\ \A k \in Headers : task'[k] = IF k = h THEN "post" ELSE task[k]
    BY <2>1, <1>m
  <2>3. /\ spool' \in [Headers -> {"none", "partial", "full"}]
        /\ \A k \in Headers : spool'[k] = IF k = h THEN "full" ELSE spool[k]
    BY <2>1, <1>f
  <2>4. SpoolOK' BY <1>a, <1>t, <1>p, <1>h, <2>1, <2>2, <2>3 DEF SpoolOK
  <2>5. Whereabouts' BY <1>w, <1>a, <2>1, <2>2, <2>3 DEF Whereabouts
  <2> QED BY <2>4, <2>5, <2>3 DEF Stays
<1>4. ASSUME NEW h \in Headers, WriteFails(h) PROVE SpoolOK' /\ Whereabouts' /\ Stays
  <2>1. /\ UNCHANGED <<accepted, proofs, spool, pass, node>> /\ task[h] \in {"write", "writing"}
        /\ task' = [task EXCEPT ![h] = "none"] /\ lost' = lost \cup {h}
    BY <1>4 DEF WriteFails
  <2>2. /\ task' \in [Headers -> {"none", "write", "writing", "post", "ok", "no"}]
        /\ \A k \in Headers : task'[k] = IF k = h THEN "none" ELSE task[k]
    BY <2>1, <1>m
  <2>3. lost' \subseteq proofs BY <1>a, <1>h, <2>1
  <2>4. SpoolOK' BY <1>a, <1>t, <1>p, <1>h, <2>1, <2>2, <2>3 DEF SpoolOK
  <2>5. Whereabouts' BY <1>w, <1>a, <2>1, <2>2 DEF Whereabouts
  <2> QED BY <2>4, <2>5, <2>1 DEF Stays
<1>5. ASSUME NEW h \in Headers, NEW answer \in {"ok", "no"}, Post(h, answer)
      PROVE SpoolOK' /\ Whereabouts' /\ Stays
  <2>1. /\ UNCHANGED <<accepted, proofs, spool, pass, lost>> /\ task[h] = "post"
        /\ task' = [task EXCEPT ![h] = answer] /\ Answers(h, answer)
    BY <1>5 DEF Post
  <2>2. /\ task' \in [Headers -> {"none", "write", "writing", "post", "ok", "no"}]
        /\ \A k \in Headers : task'[k] = IF k = h THEN answer ELSE task[k]
    BY <2>1, <1>m
  <2>3. h \in proofs BY <1>h, <2>1
  <2>4. /\ node' \in [accepted : SUBSET proofs, never : SUBSET proofs]
        /\ node.accepted \subseteq node'.accepted /\ (answer = "ok" => h \in node'.accepted)
    BY <2>1, <2>3, AnswersEffect
  <2>5. SpoolOK' BY <1>a, <1>t, <1>p, <1>h, <2>1, <2>2, <2>3, <2>4 DEF SpoolOK
  <2>6. Whereabouts' BY <1>w, <1>a, <2>1, <2>2, <2>4 DEF Whereabouts
  <2> QED BY <2>5, <2>6, <2>1 DEF Stays
<1>6. ASSUME NEW h \in Headers, PostAnswered(h) PROVE SpoolOK' /\ Whereabouts' /\ Stays
  <2>1. /\ UNCHANGED <<accepted, proofs, pass, node, lost>> /\ task[h] \in {"ok", "no"}
        /\ task' = [task EXCEPT ![h] = "none"] /\ spool' = Removed(h, task[h])
    BY <1>6 DEF PostAnswered
  <2>2. /\ task' \in [Headers -> {"none", "write", "writing", "post", "ok", "no"}]
        /\ \A k \in Headers : task'[k] = IF k = h THEN "none" ELSE task[k]
    BY <2>1, <1>m
  <2>3. /\ spool' \in [Headers -> {"none", "partial", "full"}]
        /\ \A k \in Headers : spool'[k] = spool[k] \/ (spool'[k] = "none" /\ k \in node.accepted)
    BY <1>t, <1>h, <2>1 DEF Removed
  <2>4. SpoolOK' BY <1>a, <1>t, <1>p, <1>h, <2>1, <2>2, <2>3 DEF SpoolOK
  <2>5. Whereabouts' BY <1>w, <1>a, <2>1, <2>2, <2>3 DEF Whereabouts
  <2> QED BY <2>4, <2>5, <2>3 DEF Stays
<1>7. CASE RetrySpooledProofs
  <2>1. /\ UNCHANGED <<accepted, proofs, task, spool, node, lost>>
        /\ pass' = [NoPass EXCEPT !.todo = {h \in Headers : spool[h] # "none"}]
    BY <1>7 DEF RetrySpooledProofs
  <2>2. /\ pass' \in [todo : SUBSET Headers, at : SUBSET Headers, answer : {"none", "ok", "no"}]
        /\ pass'.todo \subseteq proofs /\ pass'.answer = "none"
    BY <1>h, <2>1 DEF NoPass
  <2>3. SpoolOK' BY <1>a, <1>t, <1>h, <2>1, <2>2 DEF SpoolOK
  <2>4. Whereabouts' BY <1>w, <2>1 DEF Whereabouts
  <2> QED BY <2>3, <2>4, <2>1 DEF Stays
<1>8. ASSUME NEW h \in Headers, SkipEntry(h) PROVE SpoolOK' /\ Whereabouts' /\ Stays
  <2>1. /\ UNCHANGED <<accepted, proofs, task, spool, node, lost>>
        /\ pass' = [pass EXCEPT !.todo = pass.todo \ {h}]
    BY <1>8 DEF SkipEntry, RestAfter
  <2>2. /\ pass' \in [todo : SUBSET Headers, at : SUBSET Headers, answer : {"none", "ok", "no"}]
        /\ pass'.todo \subseteq proofs /\ pass'.answer = pass.answer /\ pass'.at = pass.at
    BY <1>t, <1>p, <2>1
  <2>3. SpoolOK' BY <1>a, <1>t, <1>p, <1>h, <2>1, <2>2 DEF SpoolOK
  <2>4. Whereabouts' BY <1>w, <2>1 DEF Whereabouts
  <2> QED BY <2>3, <2>4, <2>1 DEF Stays
<1>9. ASSUME NEW h \in Headers, NEW answer \in {"ok", "no"}, RetryEntry(h, answer)
      PROVE SpoolOK' /\ Whereabouts' /\ Stays
  <2>1. /\ UNCHANGED <<accepted, proofs, task, spool, lost>> /\ h \in pass.todo /\ Answers(h, answer)
        /\ pass' = [todo |-> pass.todo \ {h}, at |-> {h}, answer |-> answer]
    BY <1>9 DEF RetryEntry
  <2>2. /\ node' \in [accepted : SUBSET proofs, never : SUBSET proofs]
        /\ node.accepted \subseteq node'.accepted /\ (answer = "ok" => h \in node'.accepted)
    BY <1>p, <2>1, AnswersEffect
  <2>3. /\ pass' \in [todo : SUBSET Headers, at : SUBSET Headers, answer : {"none", "ok", "no"}]
        /\ pass'.todo \subseteq proofs /\ (pass'.answer = "ok" => pass'.at \subseteq node'.accepted)
    BY <1>t, <1>p, <2>1, <2>2
  <2>4. SpoolOK' BY <1>a, <1>t, <1>h, <2>1, <2>2, <2>3 DEF SpoolOK
  <2>5. Whereabouts' BY <1>w, <2>1, <2>2 DEF Whereabouts
  <2> QED BY <2>4, <2>5, <2>1 DEF Stays
<1>10. CASE RetryAnswered
  <2>1. /\ UNCHANGED <<accepted, proofs, task, node, lost>>
        /\ pass' = [pass EXCEPT !.at = {}, !.answer = "none"]
        /\ \E h \in pass.at : spool' = Removed(h, pass.answer)
    BY <1>10 DEF RetryAnswered
  <2>2. /\ pass' \in [todo : SUBSET Headers, at : SUBSET Headers, answer : {"none", "ok", "no"}]
        /\ pass'.todo \subseteq proofs /\ pass'.answer = "none"
    BY <1>t, <1>p, <2>1
  <2>3. /\ spool' \in [Headers -> {"none", "partial", "full"}]
        /\ \A k \in Headers : spool'[k] = spool[k] \/ (spool'[k] = "none" /\ k \in node.accepted)
    BY <1>t, <1>p, <2>1 DEF Removed
  <2>4. SpoolOK' BY <1>a, <1>t, <1>h, <2>1, <2>2, <2>3 DEF SpoolOK
  <2>5. Whereabouts' BY <1>w, <1>a, <2>1, <2>3 DEF Whereabouts
  <2> QED BY <2>4, <2>5, <2>3 DEF Stays
<1>11. CASE Crash
  <2>1. /\ UNCHANGED <<accepted, proofs, spool, node>> /\ task' = [h \in Headers |-> "none"] /\ pass' = NoPass
        /\ lost' = lost \cup {h \in Headers : task[h] \in {"write", "writing"}}
    BY <1>11 DEF Crash
  <2>2. lost' \subseteq proofs BY <1>a, <1>h, <2>1
  <2>3. /\ NoPass \in [todo : SUBSET Headers, at : SUBSET Headers, answer : {"none", "ok", "no"}]
        /\ NoPass.todo = {} /\ NoPass.answer = "none"
    BY DEF NoPass
  <2>4. SpoolOK' BY <1>a, <1>t, <1>h, <2>1, <2>2, <2>3 DEF SpoolOK
  <2>5. Whereabouts' BY <1>w, <1>a, <2>1 DEF Whereabouts
  <2> QED BY <2>4, <2>5, <2>1 DEF Stays
<1>12. ASSUME NEW c \in Channels, NEW t \in Targets, OpenChannel(c, t) \/ Vardiff(c, t) \/ UpdateChannel(c, t)
       PROVE SpoolOK' /\ Whereabouts' /\ Stays
  BY <1>12, <1>q DEF OpenChannel, Vardiff, UpdateChannel
<1>13. ASSUME NEW c \in Channels, RotateFeeJob(c) \/ NewTip(c) \/ CloseChannel(c) \/ ReadTarget(c)
       PROVE SpoolOK' /\ Whereabouts' /\ Stays
  BY <1>13, <1>q DEF RotateFeeJob, NewTip, CloseChannel, ReadTarget
<1>14. CASE Tick \/ RefreshWork \/ Restart \/ UNCHANGED vars
  BY <1>14, <1>q DEF Tick, RefreshWork, Restart
<1>15. CASE FlushTelemetry \/ TelemetryDelivered \/ TelemetryDropped
  BY <1>15, <1>q DEF FlushTelemetry, TelemetryDelivered, TelemetryDropped
<1> QED
  BY <1>1, <1>2, <1>3, <1>4, <1>5, <1>6, <1>7, <1>8, <1>9, <1>10, <1>11, <1>12, <1>13, <1>14, <1>15, StepKinds

\* The four parts together.
LEMMA SharesInductive ==
    Spec => [](MiningOK /\ CountingOK /\ PulseOK /\ SpoolOK /\ Whereabouts)
<1>1. Init => MiningOK /\ CountingOK /\ PulseOK /\ SpoolOK /\ Whereabouts BY SharesInit
<1>2. MiningOK /\ CountingOK /\ PulseOK /\ SpoolOK /\ Whereabouts /\ [Next]_vars
      => (MiningOK /\ CountingOK /\ PulseOK /\ SpoolOK /\ Whereabouts)'
  <2> SUFFICES ASSUME MiningOK, CountingOK, PulseOK, SpoolOK, Whereabouts, [Next]_vars
               PROVE  MiningOK' /\ CountingOK' /\ PulseOK' /\ SpoolOK' /\ Whereabouts'
    OBVIOUS
  <2>1. MiningOK' BY MiningStep
  <2>2. CountingOK' BY CountingStep
  <2>3. PulseOK' BY PulseStep
  <2>4. SpoolOK' /\ Whereabouts' BY SpoolStep
  <2> QED BY <2>1, <2>2, <2>3, <2>4
<1> QED BY <1>1, <1>2, PTL DEF Spec

\* They imply what the run checks.
LEMMA PartsSuffice ==
    ASSUME MiningOK, CountingOK, PulseOK, SpoolOK PROVE SharesInv
<1>1. TypeOK
  <2>1. \A i \in DOMAIN jobs : jobs[i] \in [chan : Channels, fee : BOOLEAN]
    <3>1. jobs \in Seq(JobRecords) BY DEF MiningOK
    <3> QED BY <3>1, LenProperties DEF JobRecords
  <2>2. chan \in [Channels -> [open : BOOLEAN, target : Targets \cup {0},
                              active : 0..MaxJobs, past : SUBSET (1..MaxJobs)]]
    BY DEF MiningOK, ChannelRecords
  <2>3. \A c \in Channels : mail[c] \in Seq(Targets) BY DEF MiningOK
  <2>4. pulses \in [Channels -> 0..setup.shares]
    <3>1. setup.shares \in Nat /\ Cardinality(accepted) <= setup.shares /\ Cardinality(accepted) \in Nat
      BY Constants, FS_CardinalityType DEF MiningOK, CountingOK
    <3>2. pulses \in [Channels -> Nat] /\ \A c \in Channels : pulses[c] <= Cardinality(accepted) BY DEF PulseOK
    <3> QED BY <3>1, <3>2
  <2>5. node.accepted \subseteq proofs /\ node.never \subseteq proofs BY DEF SpoolOK
  <2>6. {batch, delivered, dropped} \subseteq Entry BY DEF CountingOK
  <2>7. setup \in Setups /\ up \in BOOLEAN /\ feeNow \in BOOLEAN /\ knows \in [Channels -> Targets \cup {0}]
    BY DEF MiningOK
  <2>8. /\ accepted \subseteq Headers /\ solved \subseteq accepted /\ refused \in 0..setup.refused
        /\ telemetry \in [Keys -> Entry]
    BY DEF CountingOK
  <2>9. /\ clock \in 1..setup.clock /\ started \in 1..clock /\ lastPulse \in [Channels -> 0..clock]
        /\ reserve \in setup.reserves
    BY DEF PulseOK
  <2>10. /\ proofs \subseteq accepted /\ lost \subseteq proofs
         /\ task \in [Headers -> {"none", "write", "writing", "post", "ok", "no"}]
         /\ spool \in [Headers -> {"none", "partial", "full"}]
         /\ pass \in [todo : SUBSET Headers, at : SUBSET Headers, answer : {"none", "ok", "no"}]
    BY DEF SpoolOK
  <2> QED BY <2>1, <2>2, <2>3, <2>4, <2>5, <2>6, <2>7, <2>8, <2>9, <2>10, Zenon DEF TypeOK
<1>2. TelemetryCountedOnce BY DEF TelemetryCountedOnce, CountingOK, Everywhere
<1>3. TargetsAgree BY DEF TargetsAgree, MiningOK, Promised
<1>4. PulseCadence
  <2>1. SUFFICES ASSUME NEW c \in Channels, pulses[c] > 0
                 PROVE  pulses[c] <= 1 + ((clock - started) \div PulseInterval)
    BY DEF PulseCadence
  <2>2. /\ started <= lastPulse[c] /\ lastPulse[c] \in 0..clock /\ pulses[c] \in Nat
        /\ pulses[c] <= 1 + ((lastPulse[c] - started) \div PulseInterval)
    BY <2>1 DEF PulseOK
  <2>3. clock \in Nat /\ started \in Nat /\ PulseInterval \in Nat /\ PulseInterval > 0
    <3>1. setup.clock \in Nat BY Constants DEF MiningOK
    <3>2. clock \in Nat BY <3>1 DEF PulseOK
    <3> QED BY <3>2, Constants DEF PulseOK
  <2>4. lastPulse[c] - started \in Nat /\ clock - started \in Nat /\ lastPulse[c] - started <= clock - started
    BY <2>2, <2>3
  <2>5. /\ (lastPulse[c] - started) \div PulseInterval \in Nat /\ (clock - started) \div PulseInterval \in Nat
        /\ (lastPulse[c] - started) \div PulseInterval <= (clock - started) \div PulseInterval
    BY <2>3, <2>4, Intervals
  <2> QED BY <2>2, <2>5
<1> QED BY <1>1, <1>2, <1>3, <1>4 DEF SharesInv

\* Shares are counted once, judged by the target the miner knows, and made
\* pulse proofs at the agreed rate: for every set of channels that share
\* telemetry entries in any way, every target, and across crashes, failed
\* flushes and changes of the reserve.
THEOREM SharesAreSound == Spec => []SharesInv
<1>1. MiningOK /\ CountingOK /\ PulseOK /\ SpoolOK => SharesInv BY PartsSuffice
<1> QED BY <1>1, SharesInductive, PTL

\* A complete file leaves the spool only after the node has accepted its proof,
\* whoever of the proof's task and the retry loop removes it.
THEOREM SpooledUntilAccepted == Spec => ProofsLeaveAccepted
<1>1. CountingOK /\ SpoolOK /\ Whereabouts /\ [Next]_vars
      => [\A h \in Headers : spool[h] = "full" /\ spool'[h] # "full" => h \in node.accepted]_vars
  BY SpoolStep DEF Stays
<1> QED BY <1>1, SharesInductive, PTL DEF Spec, ProofsLeaveAccepted

\* No proof disappears silently: at every moment it is being written, complete
\* in the spool, accepted by the node, or reported as lost.
THEOREM ProofsAreSomewhere == Spec => []Whereabouts
  BY SharesInductive, PTL
===============================================================================
