----------------------- MODULE TemplateProvidersProofs -----------------------
(***************************************************************************)
(* What the channel managers may rely on in every provider, for every       *)
(* number of templates, tips, constraints and requests.                     *)
(***************************************************************************)
EXTENDS TemplateProviders, FiniteSetTheorems, SequenceTheorems, WellFoundedInduction, TLAPS

(* The messages of a provider. *)

Messages == [kind : {"template", "prevhash"}, t : Templates, future : BOOLEAN]

\* A future template waits for its prevhash; every other one extends the tip
\* of the message before it.
IsOwing(m) == m.kind = "template" /\ m.future
Follows(l, m) ==
    \/ m.kind = "prevhash" /\ IsOwing(l) /\ m.t = l.t
    \/ /\ m.kind = "template" /\ ~IsOwing(l)
       /\ l.t.id < m.t.id /\ l.t.tip <= m.t.tip /\ l.t.under <= m.t.under
       /\ m.future \/ m.t.tip = l.t.tip
Continues(log, m) == IF log = <<>> THEN IsOwing(m) ELSE Follows(Last(log), m)

\* Ids, tips and constraints grow along the messages.
NotAfter(l, m) == l.t.id <= m.t.id /\ l.t.tip <= m.t.tip /\ l.t.under <= m.t.under

\* The last message says what the last template is and, once its prevhash is
\* out, what the announced tip is.
Summarised(log) ==
    /\ log = <<>> => LastOf(log, "template") = None /\ LastOf(log, "prevhash") = None
    /\ log # <<>> =>
          /\ LastOf(log, "template") = Last(log).t
          /\ LastOf(log, "prevhash").tip <= Last(log).t.tip
          /\ ~Owes(log) => LastOf(log, "prevhash").tip = Last(log).t.tip

Orderly(log) ==
    /\ log \in Seq(Messages)
    /\ log # <<>> => IsOwing(log[1])
    /\ \A i \in 1..Len(log) : i > 1 => Follows(log[i - 1], log[i])
    /\ \A i, j \in 1..Len(log) : i <= j => NotAfter(log[i], log[j])
    /\ \A i, j \in 1..Len(log) : log[i].t.id = log[j].t.id => log[i].t = log[j].t
    /\ \A kind \in {"template", "prevhash"} : Places(log, kind) # {} => Max(Places(log, kind)) \in Places(log, kind)
    /\ Summarised(log)

-----------------------------------------------------------------------------
(* The counters and the tasks. *)

Asks == [kind : {"constraints", "request", "solution"}, id : 0..MaxTemplates]

\* The constraints that are still to be applied.
Pending == Cardinality(Places(inbox, "constraints"))

Counters ==
    /\ setup \in Setups
    /\ tip \in 1..setup.tips
    /\ given \in 0..setup.constraints /\ asked \in 0..MaxAsked /\ failures \in 0..MaxFailures
    /\ cancelled \in BOOLEAN /\ cause \in {"no", "call", "request", "connection", "user"}
    /\ applied \in Nat
    /\ throttled \in BOOLEAN /\ stop \in BOOLEAN
    /\ nextId \in 1..(setup.templates + 1)
    /\ attempt \in 1..MaxRetries
    /\ draft \in [{"main", "monitor"} -> Templates] /\ base \in Templates
    /\ prev \in 0..MaxTips

\* Requests and solutions are about templates that were published, and no
\* constraints are applied twice.
Requests ==
    /\ inbox \in Seq(Asks)
    /\ \A i \in 1..Len(inbox) : inbox[i].kind # "constraints" => \E t \in Published : t.id = inbox[i].id
    /\ applied + Pending <= given
    /\ main = "join" => applied + Pending < given

\* Nothing was published that is newer than the counters.
Bounded ==
    /\ Orderly(sent) /\ Orderly(Log)
    /\ wire \in Seq(Messages)
    /\ Log # <<>> =>
          /\ Last(Log).t.id < nextId
          /\ Last(Log).t.tip <= tip
          /\ Last(Log).t.under <= applied
    /\ \A i \in 1..Len(Log) : Log[i].t.id \in Ids /\ Log[i].t.tip \in 1..MaxTips

\* A template being made comes after all that was sent.
Ahead(t) ==
    /\ t.id \in Ids /\ t.tip \in 1..tip /\ t.under <= applied
    /\ sent # <<>> => Last(sent).t.id < t.id /\ Last(sent).t.tip <= t.tip /\ Last(sent).t.under <= t.under
Newer(t) == Ahead(t) /\ t.id < nextId

IpcOK ==
    /\ main \in {"await", "create", "fetch", "sending", "serve", "join", "answer", "over"}
    /\ monitor \in {"none", "start", "wait", "fetch", "sending", "over"}
    /\ wire = <<>>
    /\ main = "await" => monitor = "none"
    /\ main \in {"create", "fetch", "sending"} => monitor \in {"none", "over"}
    /\ monitor # "none" \/ main \in {"serve", "join", "answer"} => sent # <<>>
    /\ Owed <=> main = "sending" \/ monitor = "sending"
    /\ sent # <<>> => prev = Last(sent).t.tip
    /\ main = "sending" => draft.main = Last(sent).t
    /\ monitor = "sending" => draft.monitor = Last(sent).t
    /\ main = "fetch" => Newer(draft.main)
    /\ monitor = "fetch" => Newer(draft.monitor)
    /\ monitor \in {"start", "wait", "fetch"} => base.under = Last(sent).t.under

RpcOK ==
    /\ main \in {"await", "first", "refresh", "poll", "publish", "over"}
    /\ monitor = "none" /\ wire = <<>>
    /\ main \in {"refresh", "poll"} => sent # <<>>
    /\ Owed <=> main = "publish"
    /\ main = "publish" => draft.main = Last(sent).t
    /\ sent # <<>> /\ ~Owed => prev = Last(sent).t.tip

Sv2OK ==
    /\ main \in {"connect", "setup", "forward", "over"}
    /\ monitor = "none"

TasksOK ==
    /\ setup.provider = "ipc" => IpcOK
    /\ setup.provider = "rpc" => RpcOK
    /\ setup.provider = "sv2" => Sv2OK

-----------------------------------------------------------------------------
(* What is kept of the templates. *)

\* A template of an older tip than the announced one.
Old(t) == t.tip < Announced

PublishedIds == {t.id : t \in Published}

Kept ==
    /\ data \subseteq Published /\ lost \subseteq Published /\ staleIds \subseteq Ids
    /\ doomed \in Seq(SUBSET Ids) /\ \A i \in 1..Len(doomed) : doomed[i] \subseteq PublishedIds
    /\ dying \subseteq PublishedIds /\ destroyed \subseteq PublishedIds

IpcKept ==
    /\ \A t \in Published : t \notin data \/ t \in lost \/ t.id \in dying \cup destroyed => Old(t)
    /\ \A t \in Published : \A i \in 1..Len(doomed) : t.id \in doomed[i] => t.tip < Last(sent).t.tip
    /\ main = "answer" => draft.main.id \in PublishedIds

RpcKept ==
    /\ Cardinality(data) <= MaxRetained
    /\ \A t \in Published : t \notin data \/ t \in lost =>
          Cardinality({u \in Published : u.id > t.id}) >= MaxRetained

RetentionOK ==
    /\ Kept
    /\ setup.provider = "ipc" => IpcKept
    /\ setup.provider = "rpc" => RpcKept
    /\ setup.provider = "sv2" => data = {} /\ lost = {}
    /\ cause = "request" => /\ setup.provider = "ipc" /\ main = "over" /\ cancelled
                            /\ draft.main.id \in destroyed
    /\ cause # "no" => cancelled

ProvidersInv == Counters /\ Requests /\ Bounded /\ TasksOK /\ RetentionOK
-----------------------------------------------------------------------------
(* Finite sets of numbers. *)

\* A set of numbers has a smallest one.
LEMMA SmallestNumber ==
    ASSUME NEW T, T \subseteq Nat, T # {}
    PROVE  \E x \in T : \A y \in T : x <= y
<1>1. PICK x \in T : \A y \in T : ~ (<<y, x>> \in OpToRel(<, Nat))
  BY NatLessThanWellFounded, WFMin
<1>2. ASSUME NEW y \in T PROVE x <= y
  <2>1. <<y, x>> \in Nat \X Nat /\ ~(<<y, x>> \in {ss \in Nat \X Nat : ss[1] < ss[2]})
    BY <1>1, Zenon DEF OpToRel
  <2> QED BY <2>1
<1> QED BY <1>2

\* A finite set of numbers has a largest one: the function that counts the
\* numbers up to n stops growing where the set ends.
LEMMA Largest ==
    ASSUME NEW S \in SUBSET Nat, IsFiniteSet(S), S # {}
    PROVE  Max(S) \in S /\ \A n \in S : n <= Max(S)
<1> DEFINE Sizes == {n \in Nat : \E U \in SUBSET S : U # {} /\ Cardinality(U) = n /\ ~\E m \in U : \A k \in U : k <= m}
<1>1. ASSUME NEW U \in SUBSET S PROVE IsFiniteSet(U) /\ Cardinality(U) \in Nat BY FS_Subset, FS_CardinalityType
<1>2. Sizes = {}
  <2>1. SUFFICES ASSUME Sizes # {} PROVE FALSE OBVIOUS
  <2>2. PICK n \in Sizes : \A k \in Sizes : n <= k BY <2>1, SmallestNumber
  <2>3. PICK U \in SUBSET S : U # {} /\ Cardinality(U) = n /\ ~\E m \in U : \A k \in U : k <= m BY <2>2
  <2>4. PICK x : x \in U BY <2>3
  <2>5. Cardinality(U \ {x}) = n - 1 BY <1>1, <2>3, <2>4, FS_RemoveElement
  <2>6. Cardinality(U \ {x}) \in Nat BY <1>1, <2>3
  <2>7. U \ {x} = {} \/ \E m \in U \ {x} : \A k \in U \ {x} : k <= m
    <3>1. Cardinality(U \ {x}) \notin Sizes BY <2>2, <2>5, <2>6
    <3>2. U \ {x} \in SUBSET S BY <2>3
    <3> QED BY <2>6, <3>1, <3>2
  <2>8. CASE U \ {x} = {}
    <3>1. \A k \in U : k <= x BY <2>3, <2>4, <2>8
    <3> QED BY <2>3, <2>4, <3>1
  <2>9. CASE \E m \in U \ {x} : \A k \in U \ {x} : k <= m
    <3>1. PICK m \in U \ {x} : \A k \in U \ {x} : k <= m BY <2>9
    <3>2. x \in Nat /\ m \in Nat /\ U \subseteq Nat BY <2>3, <2>4, <3>1
    <3>3. CASE x <= m
      <4>1. \A k \in U : k <= m BY <3>1, <3>3
      <4> QED BY <2>3, <3>1, <4>1
    <3>4. CASE ~(x <= m)
      <4>1. \A k \in U : k <= x BY <3>1, <3>2, <3>4
      <4> QED BY <2>3, <2>4, <4>1
    <3> QED BY <3>3, <3>4
  <2> QED BY <2>7, <2>8, <2>9
<1>3. \E m \in S : \A k \in S : k <= m
  <2>1. Cardinality(S) \in Nat /\ Cardinality(S) \notin Sizes BY <1>1, <1>2
  <2>2. S \in SUBSET S OBVIOUS
  <2> QED BY <2>1, <2>2
<1>4. \E m \in S : \A k \in S : m >= k BY <1>3
<1>5. Max(S) \in S /\ \A k \in S : Max(S) >= k BY <1>4 DEF Max
<1> QED BY <1>5

\* Positions in a sequence are finitely many.
LEMMA FiniteRange == ASSUME NEW n \in Nat, NEW P \in SUBSET (1..n) PROVE IsFiniteSet(P)
<1>1. IsFiniteSet(1..n) BY FS_Interval
<1> QED BY <1>1, FS_Subset

\* The image of a finite set.
LEMMA FiniteImage ==
    ASSUME NEW S, IsFiniteSet(S), NEW f, DOMAIN f = S, NEW T, T = {f[x] : x \in S}, f \in [S -> T]
    PROVE  IsFiniteSet(T) /\ Cardinality(T) <= Cardinality(S)
<1>1. f \in Surjection(S, T) BY DEF Surjection
<1> QED BY <1>1, FS_Surjection

\* The bounds of the model are those of its largest deployment.
LEMMA Bounds ==
    ASSUME NEW s \in Setups
    PROVE  /\ MaxTemplates \in Nat /\ s.templates \in 1..MaxTemplates
           /\ MaxTips \in Nat /\ s.tips \in 1..MaxTips
           /\ Max({r.constraints : r \in Setups}) \in Nat
           /\ s.constraints \in 0..Max({r.constraints : r \in Setups})
<1>1. IsFiniteSet(Setups) BY ProvidersAssumption
<1>2. /\ \A r \in Setups : r.templates \in Nat /\ r.tips \in Nat /\ r.constraints \in Nat
      /\ s.templates > 0 /\ s.tips > 0
  BY ProvidersAssumption
<1>3. MaxTemplates \in Nat /\ s.templates <= MaxTemplates
  <2> DEFINE f == [r \in Setups |-> r.templates]
             T == {r.templates : r \in Setups}
  <2>1. DOMAIN f = Setups /\ T = {f[r] : r \in Setups} /\ f \in [Setups -> T] OBVIOUS
  <2>2. IsFiniteSet(T) BY <1>1, <2>1, FiniteImage
  <2>3. T \in SUBSET Nat /\ s.templates \in T BY <1>2
  <2>4. Max(T) \in T /\ \A n \in T : n <= Max(T) BY <2>2, <2>3, Largest
  <2> QED BY <2>3, <2>4 DEF MaxTemplates
<1>4. MaxTips \in Nat /\ s.tips <= MaxTips
  <2> DEFINE f == [r \in Setups |-> r.tips]
             T == {r.tips : r \in Setups}
  <2>1. DOMAIN f = Setups /\ T = {f[r] : r \in Setups} /\ f \in [Setups -> T] OBVIOUS
  <2>2. IsFiniteSet(T) BY <1>1, <2>1, FiniteImage
  <2>3. T \in SUBSET Nat /\ s.tips \in T BY <1>2
  <2>4. Max(T) \in T /\ \A n \in T : n <= Max(T) BY <2>2, <2>3, Largest
  <2> QED BY <2>3, <2>4 DEF MaxTips
<1>5. Max({r.constraints : r \in Setups}) \in Nat /\ s.constraints <= Max({r.constraints : r \in Setups})
  <2> DEFINE f == [r \in Setups |-> r.constraints]
             T == {r.constraints : r \in Setups}
  <2>1. DOMAIN f = Setups /\ T = {f[r] : r \in Setups} /\ f \in [Setups -> T] OBVIOUS
  <2>2. IsFiniteSet(T) BY <1>1, <2>1, FiniteImage
  <2>3. T \in SUBSET Nat /\ s.constraints \in T BY <1>2
  <2>4. Max(T) \in T /\ \A n \in T : n <= Max(T) BY <2>2, <2>3, Largest
  <2> QED BY <2>3, <2>4
<1> QED BY <1>2, <1>3, <1>4, <1>5
-----------------------------------------------------------------------------
(* A sequence of messages grows in good order. *)

\* What the last message of a kind is after one more message.
LEMMA LastOfAppend ==
    ASSUME NEW log \in Seq(Messages), NEW m \in Messages, NEW kind,
           Places(log, kind) # {} => Max(Places(log, kind)) \in Places(log, kind)
    PROVE  /\ LastOf(Append(log, m), kind) = IF m.kind = kind THEN m.t ELSE LastOf(log, kind)
           /\ Places(Append(log, m), kind) # {} =>
                 Max(Places(Append(log, m), kind)) \in Places(Append(log, m), kind)
<1> DEFINE l == Append(log, m)
           P == Places(log, kind)
           Q == Places(l, kind)
<1>1. /\ Len(l) = Len(log) + 1 /\ l[Len(log) + 1] = m /\ \A i \in 1..Len(log) : l[i] = log[i]
      /\ DOMAIN l = 1..(Len(log) + 1) /\ DOMAIN log = 1..Len(log) /\ Len(log) \in Nat
  OBVIOUS
<1>2. P \subseteq 1..Len(log) BY <1>1 DEF Places
<1>3. CASE m.kind = kind
  <2>1. Len(log) + 1 \in Q /\ Q \subseteq 1..(Len(log) + 1) BY <1>1, <1>3 DEF Places
  <2>2. \E x \in Q : \A y \in Q : x >= y BY <1>1, <2>1
  <2>3. Max(Q) \in Q /\ \A y \in Q : Max(Q) >= y BY <2>2 DEF Max
  <2>4. Max(Q) = Len(log) + 1 BY <1>1, <2>1, <2>3
  <2> QED BY <1>1, <1>3, <2>1, <2>4 DEF LastOf
<1>4. CASE m.kind # kind
  <2>1. Q = P BY <1>1, <1>4 DEF Places
  <2>2. P # {} => Max(P) \in 1..Len(log) /\ l[Max(P)] = log[Max(P)] BY <1>1, <1>2
  <2> QED BY <1>4, <2>1, <2>2 DEF LastOf
<1> QED BY <1>3, <1>4

\* The fields of a message are numbers.
LEMMA Typed ==
    ASSUME NEW m \in Messages, setup \in Setups
    PROVE  m.t \in Templates /\ m.t.id \in Nat /\ m.t.tip \in Nat /\ m.t.under \in Nat
           /\ m.kind \in {"template", "prevhash"} /\ m.future \in BOOLEAN
  BY Bounds DEF Messages, Templates

\* Before the first message everything is in order.
LEMMA EmptyLog == Orderly(<<>>)
<1>1. \A kind : Places(<<>>, kind) = {} BY DEF Places
<1>2. Summarised(<<>>) BY <1>1 DEF Summarised, LastOf
<1>3. <<>> \in Seq(Messages) /\ Len(<<>>) = 0 OBVIOUS
<1> QED BY <1>1, <1>2, <1>3 DEF Orderly

\* A message that may follow keeps the order.
LEMMA LogGrows ==
    ASSUME setup \in Setups, NEW log, Orderly(log), NEW m \in Messages, Continues(log, m)
    PROVE  /\ Orderly(Append(log, m))
           /\ LastOf(Append(log, m), "template") = m.t
           /\ LastOf(Append(log, m), "prevhash").tip =
                 IF m.kind = "prevhash" THEN m.t.tip ELSE LastOf(log, "prevhash").tip
           /\ Owes(Append(log, m)) <=> IsOwing(m)
           /\ Last(Append(log, m)) = m
<1> DEFINE l == Append(log, m)
           n == Len(log) + 1
<1>1. log \in Seq(Messages) BY DEF Orderly
<1>2. /\ l \in Seq(Messages) /\ l # <<>> /\ Len(l) = n /\ l[n] = m /\ \A i \in 1..Len(log) : l[i] = log[i] /\ log[i] \in Messages
      /\ Len(log) \in Nat /\ (log # <<>> <=> Len(log) > 0)
  BY <1>1
<1>3. \A kind \in {"template", "prevhash"} :
          /\ LastOf(l, kind) = IF m.kind = kind THEN m.t ELSE LastOf(log, kind)
          /\ Places(l, kind) # {} => Max(Places(l, kind)) \in Places(l, kind)
  BY <1>1, LastOfAppend DEF Orderly
<1>4. Last(l) = m BY <1>2 DEF Last
<1>5. Owes(l) <=> IsOwing(m) BY <1>2, <1>4 DEF Owes, IsOwing
<1>6. ASSUME log # <<>> PROVE Last(log) = log[Len(log)] /\ Last(log) \in Messages /\ Follows(Last(log), m)
  BY <1>2, <1>6 DEF Last, Continues
<1>7. IsOwing(l[1]) BY <1>2 DEF Orderly, Continues
<1>8. \A i \in 1..n : i > 1 => Follows(l[i - 1], l[i])
  <2>1. SUFFICES ASSUME NEW i \in 1..n, i > 1 PROVE Follows(l[i - 1], l[i]) OBVIOUS
  <2>2. CASE i = n BY <1>2, <1>6, <2>1, <2>2
  <2>3. CASE i # n
    <3>1. i \in 1..Len(log) /\ i - 1 \in 1..Len(log) BY <1>2, <2>1, <2>3
    <3>2. Follows(log[i - 1], log[i]) BY <2>1, <3>1 DEF Orderly
    <3> QED BY <1>2, <3>1, <3>2
  <2> QED BY <2>2, <2>3
<1>9. \A i \in 1..Len(log) :
        /\ NotAfter(log[i], m)
        /\ m.kind = "template" => log[i].t.id < m.t.id
        /\ m.kind = "prevhash" => m.t = Last(log).t
  <2>1. SUFFICES ASSUME NEW i \in 1..Len(log)
                 PROVE  /\ NotAfter(log[i], m)
                        /\ m.kind = "template" => log[i].t.id < m.t.id
                        /\ m.kind = "prevhash" => m.t = Last(log).t
    OBVIOUS
  <2>2. log # <<>> /\ Len(log) \in 1..Len(log) BY <1>2
  <2>3. NotAfter(log[i], log[Len(log)]) BY <2>2 DEF Orderly
  <2>4. NotAfter(log[i], Last(log)) /\ Follows(Last(log), m) /\ Last(log) \in Messages BY <1>6, <2>2, <2>3
  <2>5. /\ log[i].t.id \in Nat /\ log[i].t.tip \in Nat /\ log[i].t.under \in Nat
        /\ Last(log).t.id \in Nat /\ Last(log).t.tip \in Nat /\ Last(log).t.under \in Nat
        /\ m.t.id \in Nat /\ m.t.tip \in Nat /\ m.t.under \in Nat
    BY <1>2, <2>4, Typed
  <2>6. CASE m.kind = "prevhash" BY <2>4, <2>6 DEF NotAfter, Follows
  <2>7. CASE m.kind = "template"
    <3>1. Last(log).t.id < m.t.id /\ Last(log).t.tip <= m.t.tip /\ Last(log).t.under <= m.t.under
      BY <2>4, <2>7 DEF Follows
    <3>2. log[i].t.id <= Last(log).t.id /\ log[i].t.tip <= Last(log).t.tip /\ log[i].t.under <= Last(log).t.under
      BY <2>4 DEF NotAfter
    <3>3. log[i].t.id < m.t.id BY <2>5, <3>1, <3>2
    <3>4. log[i].t.tip <= m.t.tip BY <2>5, <3>1, <3>2
    <3>5. log[i].t.under <= m.t.under BY <2>5, <3>1, <3>2
    <3> QED BY <2>5, <2>7, <3>3, <3>4, <3>5 DEF NotAfter
  <2> QED BY <2>6, <2>7, Typed
<1>10. \A i, j \in 1..n : i <= j => NotAfter(l[i], l[j])
  <2>1. SUFFICES ASSUME NEW i \in 1..n, NEW j \in 1..n, i <= j PROVE NotAfter(l[i], l[j]) OBVIOUS
  <2>2. CASE j # n BY <1>2, <2>1, <2>2 DEF Orderly
  <2>3. CASE j = n /\ i = n BY <1>2, <2>3, Typed DEF NotAfter
  <2>4. CASE j = n /\ i # n BY <1>2, <1>9, <2>1, <2>4
  <2> QED BY <2>2, <2>3, <2>4
<1>11. \A i \in 1..Len(log) : log[i].t.id = m.t.id => log[i].t = m.t
  <2>1. CASE m.kind = "template" BY <1>2, <1>9, <2>1, Typed
  <2>2. CASE m.kind = "prevhash"
    <3>1. SUFFICES ASSUME NEW i \in 1..Len(log), log[i].t.id = m.t.id PROVE log[i].t = m.t OBVIOUS
    <3>2. Len(log) \in 1..Len(log) /\ m.t = log[Len(log)].t BY <1>2, <1>6, <1>9, <2>2, <3>1
    <3> QED BY <3>1, <3>2 DEF Orderly
  <2> QED BY <2>1, <2>2, Typed
<1>12. \A i, j \in 1..n : l[i].t.id = l[j].t.id => l[i].t = l[j].t
  <2>1. SUFFICES ASSUME NEW i \in 1..n, NEW j \in 1..n, l[i].t.id = l[j].t.id PROVE l[i].t = l[j].t OBVIOUS
  <2>2. CASE i # n /\ j # n
    <3>1. i \in 1..Len(log) /\ j \in 1..Len(log) BY <1>2, <2>2
    <3> QED BY <1>2, <2>1, <3>1 DEF Orderly
  <2>3. CASE i = n /\ j = n BY <2>3
  <2>4. CASE i = n /\ j # n BY <1>2, <1>11, <2>1, <2>4
  <2>5. CASE i # n /\ j = n BY <1>2, <1>11, <2>1, <2>5
  <2> QED BY <2>2, <2>3, <2>4, <2>5
<1>13. m.kind = "prevhash" => log # <<>> /\ m.t = Last(log).t BY <1>6 DEF Continues, IsOwing, Follows
<1>14. LastOf(l, "template") = m.t
  BY <1>3, <1>13, Typed DEF Orderly, Summarised
<1>15. Summarised(l)
  <2>1. CASE m.kind = "prevhash" BY <1>2, <1>3, <1>4, <1>14, <2>1, Typed DEF Summarised
  <2>2. CASE m.kind = "template"
    <3>1. LastOf(l, "prevhash") = LastOf(log, "prevhash") BY <1>3, <2>2
    <3>2. CASE log = <<>>
      <4>1. LastOf(log, "prevhash").tip = 0 BY <3>2 DEF Orderly, Summarised, None
      <4> QED BY <1>2, <1>4, <1>5, <1>14, <3>1, <3>2, <4>1, Typed DEF Summarised, Continues
    <3>3. CASE log # <<>>
      <4>1. Follows(Last(log), m) /\ ~IsOwing(Last(log)) BY <1>6, <2>2, <3>3 DEF Follows
      <4>2. ~Owes(log) BY <4>1 DEF Owes, IsOwing
      <4>3. LastOf(log, "prevhash").tip = Last(log).t.tip BY <3>3, <4>2 DEF Orderly, Summarised
      <4> QED BY <1>2, <1>4, <1>5, <1>6, <1>14, <2>2, <3>1, <3>3, <4>1, <4>3, Typed DEF Summarised, Follows, IsOwing
    <3> QED BY <3>2, <3>3
  <2> QED BY <2>1, <2>2, Typed
<1>16. Orderly(l) BY <1>2, <1>3, <1>7, <1>8, <1>10, <1>12, <1>15 DEF Orderly
<1> QED BY <1>3, <1>4, <1>5, <1>14, <1>16
-----------------------------------------------------------------------------
(* The refinement, message by message. *)

\* Every message that may follow is a step of TemplateFeed.
LEMMA FeedStep ==
    ASSUME setup \in Setups, Orderly(sent), NEW m \in Messages, Continues(sent, m), sent' = Append(sent, m),
           m.t.id \in Ids, m.t.tip \in 1..MaxTips, ~Over, ~Over'
    PROVE  Feed!Next
<1>1. /\ LastTemplate' = m.t
      /\ Announced' = (IF m.kind = "prevhash" THEN m.t.tip ELSE Announced)
      /\ Owed' <=> IsOwing(m)
  BY LogGrows DEF LastTemplate, Announced, Owed
<1>2. m.t.id \in Nat /\ m.t.tip \in Nat /\ m.t.under \in Nat /\ m.kind \in {"template", "prevhash"} /\ m.future \in BOOLEAN BY Typed
<1>3. Owed \in BOOLEAN /\ Owed' \in BOOLEAN /\ Over = FALSE /\ Over' = FALSE BY DEF Owed, Owes, Over
<1>4. CASE sent = <<>>
  <2>1. LastTemplate = None /\ Announced = 0 /\ ~Owed
    BY <1>4 DEF Orderly, Summarised, LastTemplate, Announced, Owed, Owes, None
  <2>2. m.kind = "template" /\ IsOwing(m) BY <1>4 DEF Continues, IsOwing
  <2>3. Feed!FutureTemplate(m.t.id, m.t.tip)
    <3>1. m.t.id > 0 BY Bounds DEF Ids
    <3>2. LastTemplate.id = 0 /\ m.t.tip >= Announced BY <1>2, <2>1 DEF None
    <3>3. Owed' /\ Announced' = Announced BY <1>1, <2>2
    <3> QED BY <1>1, <1>3, <2>1, <3>1, <3>2, <3>3 DEF Feed!FutureTemplate
  <2> QED BY <2>3 DEF Feed!Next
<1>5. CASE sent # <<>>
  <2>1. /\ LastTemplate = Last(sent).t /\ Announced <= Last(sent).t.tip
        /\ ~Owed => Announced = Last(sent).t.tip
    BY <1>5 DEF Orderly, Summarised, LastTemplate, Announced, Owed
  <2>2. Follows(Last(sent), m) /\ (Owed <=> IsOwing(Last(sent))) BY <1>5 DEF Continues, Owed, Owes, IsOwing
  <2>3. CASE m.kind = "prevhash"
    <3>1. Owed /\ m.t = LastTemplate /\ ~IsOwing(m) BY <2>1, <2>2, <2>3 DEF Follows, IsOwing
    <3>2. Feed!SetNewPrevHash BY <1>1, <1>3, <2>3, <3>1 DEF Feed!SetNewPrevHash
    <3> QED BY <3>2 DEF Feed!Next
  <2>4. CASE m.kind = "template"
    <3>1. /\ ~Owed /\ LastTemplate.id < m.t.id /\ Announced <= m.t.tip
          /\ m.future \/ m.t.tip = Announced
      BY <2>1, <2>2, <2>4 DEF Follows
    <3>2. CASE m.future
      <4>1. Feed!FutureTemplate(m.t.id, m.t.tip)
        <5>1. Owed' BY <1>1, <2>4, <3>2 DEF IsOwing
        <5>2. m.t.id > LastTemplate.id /\ m.t.tip >= Announced BY <3>1
        <5> QED BY <1>1, <1>3, <2>4, <3>1, <5>1, <5>2 DEF Feed!FutureTemplate
      <4> QED BY <4>1 DEF Feed!Next
    <3>3. CASE ~m.future
      <4>1. Feed!Template(m.t.id)
        <5>1. ~Owed' BY <1>1, <2>4, <3>3 DEF IsOwing
        <5>2. m.t.id > LastTemplate.id /\ m.t.tip = Announced /\ Announced # 0 BY <3>1, <3>3
        <5> QED BY <1>1, <1>3, <2>4, <3>1, <5>1, <5>2 DEF Feed!Template
      <4> QED BY <4>1 DEF Feed!Next
    <3> QED BY <3>2, <3>3
  <2> QED BY <1>2, <2>3, <2>4
<1> QED BY <1>4, <1>5

\* Without a message the feed is closed, or stays as it is.
LEMMA FeedQuiet ==
    ASSUME sent' = sent, Over => Over'
    PROVE  [Feed!Next]_(Feed!feed)
<1>1. LastTemplate' = LastTemplate /\ Announced' = Announced /\ Owed' = Owed
  BY DEF LastTemplate, Announced, Owed
<1>2. Over \in BOOLEAN /\ Over' \in BOOLEAN BY DEF Over
<1>3. CASE Over' = Over BY <1>1, <1>3 DEF Feed!feed
<1>4. CASE Over' # Over
  <2>1. Feed!Close BY <1>1, <1>2, <1>4 DEF Feed!Close
  <2> QED BY <2>1 DEF Feed!Next
<1> QED BY <1>3, <1>4
-----------------------------------------------------------------------------
(* What the messages that were sent say about each other. *)

\* The templates that were published: their ids tell them apart, the last
\* message is about the newest one, and there are finitely many.
LEMMA PublishedFacts ==
    ASSUME setup \in Setups, Orderly(sent)
    PROVE  /\ IsFiniteSet(Published)
           /\ \A t \in Published : /\ t \in Templates /\ sent # <<>>
                                   /\ t.id <= Last(sent).t.id /\ t.tip <= Last(sent).t.tip
           /\ \A t, u \in Published : t.id = u.id => t = u
           /\ sent # <<>> => Last(sent).t \in Published /\ Last(sent) \in Messages
<1>1. sent \in Seq(Messages) /\ Len(sent) \in Nat /\ DOMAIN sent = 1..Len(sent) BY DEF Orderly
<1> DEFINE P == Places(sent, "template")
           f == [i \in P |-> sent[i].t]
<1>2. P \subseteq 1..Len(sent) /\ Published = {sent[i].t : i \in P} BY <1>1 DEF Places, Published
<1>3. IsFiniteSet(Published)
  <2>1. IsFiniteSet(P) BY <1>1, <1>2, FiniteRange
  <2>2. DOMAIN f = P /\ Published = {f[i] : i \in P} /\ f \in [P -> Published] BY <1>2
  <2> QED BY <2>1, <2>2, FiniteImage
<1>4. \A t \in Published : \E i \in 1..Len(sent) : t = sent[i].t BY <1>2
<1>5. ASSUME NEW t \in Published
      PROVE  /\ t \in Templates /\ sent # <<>>
             /\ t.id <= Last(sent).t.id /\ t.tip <= Last(sent).t.tip
  <2>1. PICK i \in 1..Len(sent) : t = sent[i].t BY <1>4
  <2>2. Len(sent) \in 1..Len(sent) /\ i <= Len(sent) /\ sent # <<>> BY <1>1
  <2>3. NotAfter(sent[i], sent[Len(sent)]) BY <2>2 DEF Orderly
  <2>4. sent[i] \in Messages BY <1>1
  <2> QED BY <2>1, <2>2, <2>3, <2>4, Typed DEF NotAfter, Last
<1>6. ASSUME NEW t \in Published, NEW u \in Published, t.id = u.id PROVE t = u
  <2>1. PICK i \in 1..Len(sent) : t = sent[i].t BY <1>4
  <2>2. PICK j \in 1..Len(sent) : u = sent[j].t BY <1>4
  <2> QED BY <1>6, <2>1, <2>2 DEF Orderly
<1>7. ASSUME sent # <<>> PROVE Last(sent).t \in Published /\ Last(sent) \in Messages
  <2>1. Last(sent) \in Messages BY <1>1, <1>7 DEF Last
  <2>2. LastOf(sent, "template") = Last(sent).t BY <1>7 DEF Orderly, Summarised
  <2>3. CASE P = {}
    <3>1. IsOwing(sent[1]) /\ 1 \in 1..Len(sent) BY <1>1, <1>7 DEF Orderly
    <3> QED BY <1>1, <2>3, <3>1 DEF Places, IsOwing
  <2>4. CASE P # {}
    <3>1. Max(P) \in P BY <2>4 DEF Orderly
    <3>2. LastOf(sent, "template") = sent[Max(P)].t BY <2>4 DEF LastOf
    <3> QED BY <1>2, <2>1, <2>2, <3>1, <3>2
  <2> QED BY <2>3, <2>4
<1> QED BY <1>3, <1>5, <1>6, <1>7

\* A template adds to what is published, a prevhash does not.
LEMMA PublishedGrows ==
    ASSUME Orderly(sent), NEW m \in Messages, sent' = Append(sent, m)
    PROVE  /\ m.kind = "template" => Published' = Published \cup {m.t}
           /\ m.kind = "prevhash" => Published' = Published
<1>1. sent \in Seq(Messages) BY DEF Orderly
<1>2. /\ DOMAIN sent' = 1..(Len(sent) + 1) /\ DOMAIN sent = 1..Len(sent) /\ Len(sent) \in Nat
      /\ sent'[Len(sent) + 1] = m /\ \A i \in 1..Len(sent) : sent'[i] = sent[i]
  BY <1>1
<1>3. \A i \in 1..(Len(sent) + 1) : i = Len(sent) + 1 \/ i \in 1..Len(sent) BY <1>2
<1>4. CASE m.kind = "template"
  <2>1. {j \in DOMAIN sent' : sent'[j].kind = "template"} = {j \in DOMAIN sent : sent[j].kind = "template"} \cup {Len(sent) + 1}
    BY <1>2, <1>3, <1>4
  <2>2. \A i \in {j \in DOMAIN sent : sent[j].kind = "template"} : sent'[i] = sent[i] BY <1>2
  <2> QED BY <1>2, <1>4, <2>1, <2>2 DEF Published
<1>5. CASE m.kind = "prevhash"
  <2>1. {j \in DOMAIN sent' : sent'[j].kind = "template"} = {j \in DOMAIN sent : sent[j].kind = "template"}
    BY <1>2, <1>3, <1>5
  <2>2. \A i \in {j \in DOMAIN sent : sent[j].kind = "template"} : sent'[i] = sent[i] BY <1>2
  <2> QED BY <1>5, <2>1, <2>2 DEF Published
<1> QED BY <1>4, <1>5

\* Where there is no wire, what was sent is all there is.
LEMMA NoWire == ASSUME sent \in Seq(Messages), wire = <<>> PROVE Log = sent
  BY ConcatEmptySeq DEF Log

\* Nothing is sent.
LEMMA BoundedQuiet ==
    ASSUME Counters, Bounded, sent' = sent, wire' = wire, setup' = setup, nextId' \in Nat, tip' \in Nat, applied' \in Nat,
           nextId <= nextId', tip <= tip', applied <= applied'
    PROVE  Bounded'
<1>1. Log' = Log BY DEF Log
<1>2. ASSUME Log # <<>> PROVE Last(Log) \in Messages
  BY <1>2 DEF Bounded, Orderly, Last
<1>3. ASSUME Log # <<>> PROVE Last(Log).t.id < nextId' /\ Last(Log).t.tip <= tip' /\ Last(Log).t.under <= applied'
  <2>1. Last(Log).t.id \in Nat /\ Last(Log).t.tip \in Nat /\ Last(Log).t.under \in Nat BY <1>2, <1>3, Typed DEF Counters
  <2>2. Last(Log).t.id < nextId /\ Last(Log).t.tip <= tip /\ Last(Log).t.under <= applied BY <1>3 DEF Bounded
  <2>3. nextId \in Nat /\ tip \in Nat /\ applied \in Nat BY DEF Counters
  <2>4. Last(Log).t.id < nextId' BY <2>1, <2>2, <2>3
  <2>5. Last(Log).t.tip <= tip' BY <2>1, <2>2, <2>3
  <2>6. Last(Log).t.under <= applied' BY <2>1, <2>2, <2>3
  <2> QED BY <2>4, <2>5, <2>6
<1>4. Orderly(sent') /\ Orderly(Log') /\ wire' \in Seq(Messages) BY <1>1 DEF Bounded
<1> QED BY <1>1, <1>3, <1>4 DEF Bounded

\* A message is sent that may follow.
LEMMA BoundedSend ==
    ASSUME Counters, Bounded, setup' = setup, NEW m \in Messages, Continues(sent, m), sent' = Append(sent, m),
           wire = <<>>, wire' = <<>>,
           m.t.id \in Ids, m.t.id < nextId', m.t.tip \in 1..MaxTips, m.t.tip <= tip', m.t.under <= applied'
    PROVE  Bounded'
<1>1. Orderly(sent) /\ setup \in Setups /\ sent \in Seq(Messages) BY DEF Bounded, Counters, Orderly
<1>2. Orderly(sent') /\ Last(sent') = m BY <1>1, LogGrows
<1>3. sent' \in Seq(Messages) BY <1>2 DEF Orderly
<1>4. Log' = sent' BY <1>3, ConcatEmptySeq DEF Log
<1>5. Log = sent BY <1>1, NoWire
<1>6. \A i \in 1..Len(sent') : sent'[i].t.id \in Ids /\ sent'[i].t.tip \in 1..MaxTips
  <2>1. \A i \in 1..Len(sent) : sent[i].t.id \in Ids /\ sent[i].t.tip \in 1..MaxTips BY <1>5 DEF Bounded
  <2>2. \A i \in 1..Len(sent') : sent'[i] = m \/ (i \in 1..Len(sent) /\ sent'[i] = sent[i]) BY <1>1
  <2> QED BY <2>1, <2>2
<1>7. wire' \in Seq(Messages) OBVIOUS
<1> QED BY <1>2, <1>4, <1>6, <1>7 DEF Bounded

\* The SV2 provider sends a message that may follow.
LEMMA BoundedTp ==
    ASSUME Counters, Bounded, setup' = setup, NEW m \in Messages, Continues(Log, m), sent' = sent,
           wire' = Append(wire, m),
           m.t.id \in Ids, m.t.id < nextId', m.t.tip \in 1..MaxTips, m.t.tip <= tip', m.t.under <= applied'
    PROVE  Bounded'
<1>1. Orderly(Log) /\ setup \in Setups /\ sent \in Seq(Messages) /\ wire \in Seq(Messages) BY DEF Bounded, Counters, Orderly
<1>2. Log' = Append(Log, m)
  <2>1. <<m>> \in Seq(Messages) OBVIOUS
  <2>2. Log \in Seq(Messages) BY <1>1 DEF Orderly
  <2>3. Append(wire, m) = wire \o <<m>> /\ Append(Log, m) = Log \o <<m>> BY <1>1, <2>2, AppendIsConcat
  <2> QED BY <1>1, <2>1, <2>3, ConcatAssociative DEF Log
<1>3. Orderly(Log') /\ Last(Log') = m BY <1>1, <1>2, LogGrows
<1>4. \A i \in 1..Len(Log') : Log'[i].t.id \in Ids /\ Log'[i].t.tip \in 1..MaxTips
  <2>1. \A i \in 1..Len(Log) : Log[i].t.id \in Ids /\ Log[i].t.tip \in 1..MaxTips BY DEF Bounded
  <2>2. Log \in Seq(Messages) BY <1>1 DEF Orderly
  <2>3. \A i \in 1..Len(Append(Log, m)) : Append(Log, m)[i] = m \/ (i \in 1..Len(Log) /\ Append(Log, m)[i] = Log[i]) BY <2>2
  <2> QED BY <1>2, <2>1, <2>3
<1>5. wire' \in Seq(Messages) /\ Orderly(sent') BY <1>1 DEF Bounded
<1> QED BY <1>3, <1>4, <1>5 DEF Bounded

\* A message of the wire may follow what was sent.
LEMMA Forwarded ==
    ASSUME Counters, Bounded, wire # <<>>
    PROVE  /\ Head(wire) \in Messages /\ Continues(sent, Head(wire))
           /\ Head(wire).t.id \in Ids /\ Head(wire).t.tip \in 1..MaxTips
           /\ Append(sent, Head(wire)) \o Tail(wire) = Log /\ Tail(wire) \in Seq(Messages)
<1>1. Orderly(Log) /\ Orderly(sent) /\ sent \in Seq(Messages) /\ wire \in Seq(Messages) BY DEF Bounded, Orderly
<1> DEFINE m == Head(wire)
           n == Len(sent) + 1
<1>2. /\ m \in Messages /\ Tail(wire) \in Seq(Messages) /\ m = wire[1] /\ <<m>> \in Seq(Messages)
      /\ Len(wire) > 0 /\ Len(sent) \in Nat /\ Len(wire) \in Nat
  BY <1>1
<1>3. wire = <<m>> \o Tail(wire)
  <2>1. <<m>> \o Tail(wire) \in Seq(Messages) /\ Len(<<m>> \o Tail(wire)) = Len(wire)
    BY <1>1, <1>2, ConcatProperties, HeadTailProperties
  <2>2. \A i \in 1..Len(wire) : (<<m>> \o Tail(wire))[i] = wire[i] BY <1>1, <1>2, ConcatProperties, HeadTailProperties
  <2> QED BY <1>1, <2>1, <2>2, SeqEqual
<1>4. Append(sent, m) \o Tail(wire) = Log
  <2>1. Append(sent, m) = sent \o <<m>> BY <1>1, <1>2, AppendIsConcat
  <2> QED BY <1>1, <1>2, <1>3, <2>1, ConcatAssociative DEF Log
<1>5. /\ Len(Log) = Len(sent) + Len(wire) /\ Log[n] = m /\ n \in 1..Len(Log)
      /\ \A i \in 1..Len(sent) : Log[i] = sent[i]
  <2>1. \A i \in 1..(Len(sent) + Len(wire)) : Log[i] = IF i <= Len(sent) THEN sent[i] ELSE wire[i - Len(sent)]
    BY <1>1, ConcatProperties DEF Log
  <2>2. Len(Log) = Len(sent) + Len(wire) BY <1>1, ConcatProperties DEF Log
  <2> QED BY <1>2, <2>1, <2>2
<1>6. Continues(sent, m)
  <2>1. CASE sent = <<>>
    <3>1. n = 1 /\ Log # <<>> BY <1>2, <1>5, <2>1
    <3>2. IsOwing(Log[1]) BY <1>1, <3>1 DEF Orderly
    <3> QED BY <1>5, <2>1, <3>1, <3>2 DEF Continues
  <2>2. CASE sent # <<>>
    <3>1. n > 1 /\ n - 1 = Len(sent) /\ Len(sent) \in 1..Len(sent) BY <1>1, <1>2, <2>2
    <3>2. Follows(Log[n - 1], Log[n]) BY <1>1, <1>5, <3>1 DEF Orderly
    <3>3. Log[n - 1] = Last(sent) BY <1>5, <3>1 DEF Last
    <3> QED BY <1>5, <2>2, <3>2, <3>3 DEF Continues
  <2> QED BY <2>1, <2>2
<1>7. m.t.id \in Ids /\ m.t.tip \in 1..MaxTips BY <1>5 DEF Bounded
<1> QED BY <1>2, <1>4, <1>6, <1>7

\* The SV2 receiver passes the oldest message of the connection on.
LEMMA BoundedForward ==
    ASSUME Counters, Bounded, setup' = setup, wire # <<>>, sent' = Append(sent, Head(wire)), wire' = Tail(wire),
           nextId' = nextId, tip' = tip, applied' = applied
    PROVE  Bounded'
<1>1. Head(wire) \in Messages /\ Continues(sent, Head(wire)) /\ Tail(wire) \in Seq(Messages) BY Forwarded
<1>2. Log' = Log BY Forwarded DEF Log
<1>3. Orderly(sent') BY <1>1, LogGrows DEF Counters, Bounded
<1> QED BY <1>1, <1>2, <1>3 DEF Bounded

\* How many constraints wait in the channel after one more message, and after
\* one was taken.
LEMMA PendingGrows ==
    ASSUME NEW S, inbox \in Seq(S), NEW m \in S, inbox' = Append(inbox, m)
    PROVE  Pending \in Nat /\ Pending' = Pending + IF m.kind = "constraints" THEN 1 ELSE 0
<1> DEFINE P == Places(inbox, "constraints")
           n == Len(inbox) + 1
<1>1. /\ Len(inbox) \in Nat /\ DOMAIN inbox = 1..Len(inbox) /\ DOMAIN inbox' = 1..n
      /\ inbox'[n] = m /\ \A i \in 1..Len(inbox) : inbox'[i] = inbox[i]
  OBVIOUS
<1>2. P \subseteq 1..Len(inbox) /\ n \notin P BY <1>1 DEF Places
<1>3. IsFiniteSet(P) BY <1>1, <1>2, FiniteRange
<1>4. Places(inbox', "constraints") = IF m.kind = "constraints" THEN P \cup {n} ELSE P
  <2>1. \A i \in 1..n : i = n \/ i \in 1..Len(inbox) BY <1>1
  <2> QED BY <1>1, <2>1 DEF Places
<1>5. Cardinality(P) \in Nat /\ Cardinality(P \cup {n}) = Cardinality(P) + 1
  BY <1>2, <1>3, FS_AddElement, FS_CardinalityType
<1>6. Pending = Cardinality(P) /\ Pending' = Cardinality(Places(inbox', "constraints")) BY DEF Pending
<1>7. CASE m.kind = "constraints" BY <1>4, <1>5, <1>6, <1>7
<1>8. CASE m.kind # "constraints" BY <1>4, <1>5, <1>6, <1>8
<1> QED BY <1>7, <1>8

\* Taking a message from the channel leaves fewer constraints to apply.
LEMMA PendingShrinks ==
    ASSUME NEW S, inbox \in Seq(S), inbox # <<>>, inbox' = Tail(inbox)
    PROVE  /\ Pending \in Nat /\ Pending' \in Nat /\ Pending' <= Pending
           /\ Head(inbox).kind = "constraints" => Pending' < Pending
<1> DEFINE P == Places(inbox, "constraints")
           Q == P \ {1}
           T == Places(inbox', "constraints")
           f == [i \in Q |-> i - 1]
<1>1. /\ Len(inbox) \in Nat /\ Len(inbox) > 0 /\ DOMAIN inbox = 1..Len(inbox) /\ DOMAIN inbox' = 1..(Len(inbox) - 1)
      /\ Head(inbox) = inbox[1] /\ \A i \in 1..(Len(inbox) - 1) : inbox'[i] = inbox[i + 1]
  OBVIOUS
<1>2. P \subseteq 1..Len(inbox) BY <1>1 DEF Places
<1>3. IsFiniteSet(P) BY <1>1, <1>2, FiniteRange
<1>4. IsFiniteSet(Q) /\ Cardinality(Q) = (IF 1 \in P THEN Cardinality(P) - 1 ELSE Cardinality(P))
  BY <1>3, FS_RemoveElement
<1>5. T = {f[i] : i \in Q}
  <2>1. ASSUME NEW i \in Q PROVE f[i] \in T
    <3>1. i \in 1..Len(inbox) /\ i # 1 /\ inbox[i].kind = "constraints" BY <1>1 DEF Places
    <3>2. i - 1 \in 1..(Len(inbox) - 1) /\ inbox'[i - 1] = inbox[i] BY <1>1, <3>1
    <3> QED BY <1>1, <3>1, <3>2 DEF Places
  <2>2. ASSUME NEW j \in T PROVE \E i \in Q : f[i] = j
    <3>1. j \in 1..(Len(inbox) - 1) /\ inbox'[j].kind = "constraints" BY <1>1 DEF Places
    <3>2. j + 1 \in Q BY <1>1, <3>1 DEF Places
    <3>3. f[j + 1] = j BY <3>1, <3>2
    <3> QED BY <3>2, <3>3
  <2> QED BY <2>1, <2>2
<1>6. DOMAIN f = Q /\ f \in [Q -> T] BY <1>5
<1>7. IsFiniteSet(T) /\ Cardinality(T) <= Cardinality(Q)
  <2> HIDE DEF f, T, Q
  <2> QED BY <1>4, <1>5, <1>6, FiniteImage
<1>8. Cardinality(P) \in Nat /\ Cardinality(Q) \in Nat /\ Cardinality(T) \in Nat BY <1>3, <1>4, <1>7, FS_CardinalityType
<1>9. Head(inbox).kind = "constraints" => 1 \in P BY <1>1 DEF Places
<1>10. Pending = Cardinality(P) /\ Pending' = Cardinality(T) BY DEF Pending
<1> HIDE DEF P, Q, T, f
<1> QED BY <1>4, <1>7, <1>8, <1>9, <1>10
-----------------------------------------------------------------------------
(* Which steps send what. *)

Quiet ==
    /\ UNCHANGED <<sent, wire, setup>>
    /\ nextId' \in Nat /\ tip' \in Nat /\ applied' \in Nat
    /\ nextId <= nextId' /\ tip <= tip' /\ applied <= applied'

Sends(m) ==
    /\ setup' = setup /\ m \in Messages /\ Continues(sent, m) /\ sent' = Append(sent, m)
    /\ wire = <<>> /\ wire' = <<>>
    /\ m.t.id \in Ids /\ m.t.id < nextId' /\ m.t.tip \in 1..MaxTips /\ m.t.tip <= tip' /\ m.t.under <= applied'
    /\ ~Over /\ ~Over'

\* What the tasks know about the messages.
LEMMA Facts ==
    ASSUME Counters, Requests, Bounded
    PROVE  /\ setup \in Setups /\ setup.provider \in {"ipc", "rpc", "sv2"}
           /\ applied \in 0..Max({s.constraints : s \in Setups}) /\ applied <= setup.constraints
           /\ nextId \in Nat /\ tip \in Nat /\ tip \in 1..MaxTips /\ MaxTips \in Nat /\ MaxTemplates \in Nat
           /\ Pending \in Nat
           /\ sent # <<>> => /\ Last(sent) \in Messages /\ Last(sent).t \in Templates
                             /\ Last(sent).t.id \in Nat /\ Last(sent).t.tip \in Nat /\ Last(sent).t.under \in Nat
                             /\ Last(sent).t.id \in Ids /\ Last(sent).t.tip \in 1..MaxTips
           /\ Owed <=> sent # <<>> /\ IsOwing(Last(sent))
           /\ nextId <= setup.templates => nextId \in Ids
<1>1. setup \in Setups /\ setup.provider \in {"ipc", "rpc", "sv2"} BY ProvidersAssumption DEF Counters
<1>2. Pending \in Nat
  <2>1. Len(inbox) \in Nat /\ Places(inbox, "constraints") \in SUBSET (1..Len(inbox)) BY DEF Places, Requests
  <2> QED BY <2>1, FiniteRange, FS_CardinalityType DEF Pending
<1>3. applied \in Nat /\ given \in Nat /\ given <= setup.constraints /\ applied <= given
  <2>1. setup.constraints \in Nat BY <1>1, ProvidersAssumption
  <2> QED BY <1>2, <2>1 DEF Counters, Requests
<1>4. applied \in 0..Max({s.constraints : s \in Setups}) /\ applied <= setup.constraints
  BY <1>1, <1>3, Bounds DEF Counters
<1>5. nextId \in Nat /\ tip \in Nat /\ tip \in 1..MaxTips /\ MaxTips \in Nat /\ MaxTemplates \in Nat
  <2>1. /\ MaxTemplates \in Nat /\ setup.templates \in 1..MaxTemplates
        /\ MaxTips \in Nat /\ setup.tips \in 1..MaxTips
    BY <1>1, Bounds
  <2> QED BY <2>1 DEF Counters
<1>6. ASSUME sent # <<>>
      PROVE  /\ Last(sent) \in Messages /\ Last(sent).t \in Templates
             /\ Last(sent).t.id \in Nat /\ Last(sent).t.tip \in Nat /\ Last(sent).t.under \in Nat
             /\ Last(sent).t.id \in Ids /\ Last(sent).t.tip \in 1..MaxTips
  <2>1. sent \in Seq(Messages) /\ wire \in Seq(Messages) BY DEF Bounded, Orderly
  <2>2. Len(sent) \in 1..Len(sent) /\ Last(sent) = sent[Len(sent)] BY <1>6, <2>1 DEF Last
  <2>3. Len(sent) \in 1..Len(Log) /\ Log[Len(sent)] = sent[Len(sent)]
    <3>1. Len(Log) = Len(sent) + Len(wire) BY <2>1, ConcatProperties DEF Log
    <3>2. \A i \in 1..(Len(sent) + Len(wire)) : Log[i] = IF i <= Len(sent) THEN sent[i] ELSE wire[i - Len(sent)]
      BY <2>1, ConcatProperties DEF Log
    <3>3. Len(sent) \in Nat /\ Len(wire) \in Nat BY <2>1
    <3> QED BY <2>2, <3>1, <3>2, <3>3
  <2>4. Last(sent) \in Messages BY <2>1, <2>2
  <2> QED BY <1>1, <2>2, <2>3, <2>4, Typed DEF Bounded
<1>7. Owed <=> sent # <<>> /\ IsOwing(Last(sent)) BY DEF Owed, Owes, IsOwing
<1>8. nextId <= setup.templates => nextId \in Ids
  <2>1. MaxTemplates \in Nat /\ setup.templates \in 1..MaxTemplates BY <1>1, Bounds
  <2> QED BY <2>1 DEF Ids, Counters
<1> QED BY <1>1, <1>2, <1>4, <1>5, <1>6, <1>7, <1>8

\* A template that comes after all that was sent may be sent.
LEMMA MaySendTemplate ==
    ASSUME NEW t \in Templates, Ahead(t), ~Owed, NEW future \in BOOLEAN, future \/ (sent # <<>> /\ t.tip = Last(sent).t.tip)
    PROVE  NewTemplate(t, future) \in Messages /\ Continues(sent, NewTemplate(t, future))
<1> DEFINE m == NewTemplate(t, future)
<1>1. m \in Messages BY DEF NewTemplate, Messages
<1>2. m.kind = "template" /\ m.t = t /\ m.future = future BY DEF NewTemplate
<1>3. Continues(sent, m)
  <2> HIDE DEF m
  <2>1. CASE sent = <<>>
    <3>1. IsOwing(m) BY <1>2, <2>1 DEF IsOwing
    <3> QED BY <2>1, <3>1 DEF Continues
  <2>2. CASE sent # <<>>
    <3>1. ~IsOwing(Last(sent)) BY <2>2 DEF Owed, Owes, IsOwing
    <3>2. Last(sent).t.id < t.id /\ Last(sent).t.tip <= t.tip /\ Last(sent).t.under <= t.under BY <2>2 DEF Ahead
    <3>3. future \/ t.tip = Last(sent).t.tip OBVIOUS
    <3>4. m.future \/ m.t.tip = Last(sent).t.tip BY <1>2, <3>3
    <3>5. Follows(Last(sent), m) BY <1>2, <3>1, <3>2, <3>4 DEF Follows
    <3> QED BY <2>2, <3>5 DEF Continues
  <2> QED BY <2>1, <2>2
<1> QED BY <1>1, <1>3

\* A prevhash that is due may be sent.
LEMMA MaySendPrevHash ==
    ASSUME Counters, Requests, Bounded, Owed
    PROVE  PrevHash(Last(sent).t) \in Messages /\ Continues(sent, PrevHash(Last(sent).t))
<1>1. sent # <<>> /\ IsOwing(Last(sent)) /\ Last(sent).t \in Templates BY Facts
<1> QED BY <1>1 DEF PrevHash, Messages, Continues, Follows

\* A template made now comes after all others.
LEMMA MadeNow ==
    ASSUME Counters, Requests, Bounded, nextId <= setup.templates, wire = <<>>,
           NEW under \in 0..applied, sent # <<>> => Last(sent).t.under <= under
    PROVE  Made(tip, under) \in Templates /\ Ahead(Made(tip, under))
<1>1. nextId \in Ids /\ nextId \in 0..MaxTemplates BY Facts DEF Ids
<1>2. tip \in 0..MaxTips /\ tip \in 1..tip BY Facts
<1>3. under \in 0..Max({s.constraints : s \in Setups})
  <2> DEFINE M == Max({s.constraints : s \in Setups})
  <2>1. M \in Nat BY Facts, Bounds
  <2>2. applied \in 0..M BY Facts
  <2> HIDE DEF M
  <2>3. under \in 0..M BY <2>1, <2>2
  <2> QED BY <2>3 DEF M
<1>4. Made(tip, under) \in Templates BY <1>1, <1>2, <1>3 DEF Made, Templates
<1>5. ASSUME sent # <<>> PROVE Last(sent).t.id < nextId /\ Last(sent).t.tip <= tip
  <2>1. Log = sent BY NoWire DEF Bounded, Orderly
  <2> QED BY <1>5, <2>1 DEF Bounded
<1>6. Ahead(Made(tip, under)) BY <1>1, <1>2, <1>5 DEF Ahead, Made, Counters
<1> QED BY <1>4, <1>6

\* A template that was made, and is published by a task of the node's client.
LEMMA SendsTemplate ==
    ASSUME Counters, Requests, Bounded, NEW t \in Templates, Ahead(t), ~Owed, NEW future \in BOOLEAN,
           future \/ (sent # <<>> /\ t.tip = Last(sent).t.tip), sent' = Append(sent, NewTemplate(t, future)),
           wire = <<>>, wire' = wire, setup' = setup, tip' = tip, applied' = applied, t.id < nextId', ~Over, ~Over'
    PROVE  Sends(NewTemplate(t, future))
<1>1. NewTemplate(t, future) \in Messages /\ Continues(sent, NewTemplate(t, future)) BY MaySendTemplate
<1>2. NewTemplate(t, future).t = t BY DEF NewTemplate
<1>3. t.id \in Ids /\ t.tip \in 1..tip /\ t.under <= applied BY DEF Ahead
<1>4. t.tip \in 1..MaxTips /\ t.tip <= tip BY <1>3, Facts
<1> QED BY <1>1, <1>2, <1>3, <1>4 DEF Sends

\* A prevhash that is due, and is sent by a task of the node's client.
LEMMA SendsPrevHash ==
    ASSUME Counters, Requests, Bounded, Owed, sent' = Append(sent, PrevHash(Last(sent).t)), wire = <<>>, wire' = wire,
           setup' = setup, tip' = tip, applied' = applied, nextId' = nextId, ~Over, ~Over'
    PROVE  Sends(PrevHash(Last(sent).t))
<1>1. PrevHash(Last(sent).t) \in Messages /\ Continues(sent, PrevHash(Last(sent).t)) BY MaySendPrevHash
<1>2. PrevHash(Last(sent).t).t = Last(sent).t BY DEF PrevHash
<1>3. sent # <<>> BY DEF Owed, Owes
<1>4. Log = sent BY NoWire DEF Bounded, Orderly
<1>5. Last(sent).t.id < nextId /\ Last(sent).t.tip <= tip /\ Last(sent).t.under <= applied BY <1>3, <1>4 DEF Bounded
<1>6. Last(sent).t.id \in Ids /\ Last(sent).t.tip \in 1..MaxTips BY <1>3, Facts
<1> QED BY <1>1, <1>2, <1>5, <1>6 DEF Sends

\* What each step of the IPC provider sends.
LEMMA IpcSends ==
    ASSUME Counters, Requests, Bounded, TasksOK
    PROVE  /\ IpcPublishFirst => Sends(NewTemplate(draft.main, TRUE))
           /\ IpcSpawnMonitor => Sends(PrevHash(draft.main)) /\ draft.main = Last(sent).t
           /\ IpcPublishTip => Sends(NewTemplate(draft.monitor, TRUE))
           /\ IpcPublishTipPrevHash => Sends(PrevHash(draft.monitor)) /\ draft.monitor = Last(sent).t
           /\ IpcPublishFees => Sends(NewTemplate(draft.monitor, FALSE))
<1>1. draft.main \in Templates /\ draft.monitor \in Templates BY DEF Counters
<1>2. ASSUME IpcPublishFirst PROVE Sends(NewTemplate(draft.main, TRUE))
  <2>1. IpcOK /\ main = "fetch" /\ monitor # "sending" BY <1>2 DEF IpcPublishFirst, Ipc, TasksOK
  <2>2. ~Owed /\ Ahead(draft.main) /\ draft.main.id < nextId /\ wire = <<>> BY <2>1 DEF IpcOK, Newer
  <2>3. /\ sent' = Append(sent, NewTemplate(draft.main, TRUE))
        /\ wire' = wire /\ setup' = setup /\ tip' = tip /\ applied' = applied /\ nextId' = nextId /\ main' = "sending"
    BY <1>2 DEF IpcPublishFirst, Publish, node, net, client
  <2>4. ~Over /\ ~Over' BY <2>1, <2>3 DEF Over
  <2> QED BY <1>1, <2>2, <2>3, <2>4, SendsTemplate
<1>3. ASSUME IpcSpawnMonitor PROVE Sends(PrevHash(draft.main)) /\ draft.main = Last(sent).t
  <2>1. IpcOK /\ main = "sending" BY <1>3 DEF IpcSpawnMonitor, TasksOK
  <2>2. Owed /\ draft.main = Last(sent).t /\ wire = <<>> BY <2>1 DEF IpcOK
  <2>3. /\ sent' = Append(sent, PrevHash(Last(sent).t))
        /\ wire' = wire /\ setup' = setup /\ tip' = tip /\ applied' = applied /\ nextId' = nextId /\ main' = "serve"
    BY <1>3, <2>2 DEF IpcSpawnMonitor, node, net
  <2>4. ~Over /\ ~Over' BY <2>1, <2>3 DEF Over
  <2> QED BY <2>2, <2>3, <2>4, SendsPrevHash
<1>4. ASSUME IpcPublishTip PROVE Sends(NewTemplate(draft.monitor, TRUE))
  <2>1. IpcOK /\ main # "sending" /\ monitor = "fetch" BY <1>4 DEF IpcPublishTip, Ipc, TasksOK
  <2>2. ~Owed /\ Ahead(draft.monitor) /\ draft.monitor.id < nextId /\ wire = <<>> BY <2>1 DEF IpcOK, Newer
  <2>3. /\ sent' = Append(sent, NewTemplate(draft.monitor, TRUE))
        /\ wire' = wire /\ setup' = setup /\ tip' = tip /\ applied' = applied /\ nextId' = nextId /\ monitor' = "sending"
    BY <1>4 DEF IpcPublishTip, Publish, node, net, client
  <2>4. ~Over /\ ~Over' BY <2>1, <2>3 DEF Over
  <2> QED BY <1>1, <2>2, <2>3, <2>4, SendsTemplate
<1>5. ASSUME IpcPublishTipPrevHash PROVE Sends(PrevHash(draft.monitor)) /\ draft.monitor = Last(sent).t
  <2>1. IpcOK /\ monitor = "sending" BY <1>5 DEF IpcPublishTipPrevHash, TasksOK
  <2>2. Owed /\ draft.monitor = Last(sent).t /\ wire = <<>> BY <2>1 DEF IpcOK
  <2>3. /\ sent' = Append(sent, PrevHash(Last(sent).t))
        /\ wire' = wire /\ setup' = setup /\ tip' = tip /\ applied' = applied /\ nextId' = nextId /\ monitor' = "wait"
    BY <1>5, <2>2 DEF IpcPublishTipPrevHash, node, net
  <2>4. ~Over /\ ~Over' BY <2>1, <2>3 DEF Over
  <2> QED BY <2>2, <2>3, <2>4, SendsPrevHash
<1>6. ASSUME IpcPublishFees PROVE Sends(NewTemplate(draft.monitor, FALSE))
  <2>1. IpcOK /\ main # "sending" /\ monitor = "fetch" /\ draft.monitor.tip = prev BY <1>6 DEF IpcPublishFees, Ipc, TasksOK
  <2>2. /\ ~Owed /\ Ahead(draft.monitor) /\ draft.monitor.id < nextId /\ wire = <<>>
        /\ sent # <<>> /\ draft.monitor.tip = Last(sent).t.tip
    BY <2>1 DEF IpcOK, Newer
  <2>3. /\ sent' = Append(sent, NewTemplate(draft.monitor, FALSE))
        /\ wire' = wire /\ setup' = setup /\ tip' = tip /\ applied' = applied /\ nextId' = nextId /\ monitor' = "wait"
    BY <1>6 DEF IpcPublishFees, Publish, node, net
  <2>4. ~Over /\ ~Over' BY <2>1, <2>3 DEF Over
  <2> QED BY <1>1, <2>2, <2>3, <2>4, SendsTemplate
<1> QED BY <1>2, <1>3, <1>4, <1>5, <1>6

\* What each step of the RPC provider sends.
LEMMA RpcSends ==
    ASSUME Counters, Requests, Bounded, TasksOK
    PROVE  /\ RpcRefresh \/ RpcNewTip => Sends(NewTemplate(Made(tip, applied), TRUE))
           /\ RpcSameTip => Sends(NewTemplate(Made(tip, applied), FALSE))
           /\ RpcSetNewPrevHash => Sends(PrevHash(draft.main)) /\ draft.main = Last(sent).t
<1>1. ASSUME nextId <= setup.templates, wire = <<>> PROVE Made(tip, applied) \in Templates /\ Ahead(Made(tip, applied))
  <2>1. applied \in 0..applied BY DEF Counters
  <2>2. Log = sent BY <1>1, NoWire DEF Bounded, Orderly
  <2>3. sent # <<>> => Last(sent).t.under <= applied BY <2>2 DEF Bounded
  <2> QED BY <1>1, <2>1, <2>3, MadeNow
<1>2. Made(tip, applied).id = nextId /\ Made(tip, applied).tip = tip BY DEF Made
<1>3. ASSUME RpcRefresh \/ RpcNewTip PROVE Sends(NewTemplate(Made(tip, applied), TRUE))
  <2>1. RpcOK /\ main \in {"first", "refresh", "poll"} /\ nextId <= setup.templates
    BY <1>3 DEF RpcRefresh, RpcNewTip, RpcPublish, Rpc, TasksOK
  <2>2. ~Owed /\ wire = <<>> BY <2>1 DEF RpcOK
  <2>3. /\ sent' = Append(sent, NewTemplate(Made(tip, applied), TRUE)) /\ nextId' = nextId + 1
        /\ wire' = wire /\ setup' = setup /\ tip' = tip /\ applied' = applied /\ main' = "publish"
    BY <1>3 DEF RpcRefresh, RpcNewTip, RpcPublish, node, net
  <2>4. ~Over /\ ~Over' BY <2>1, <2>3 DEF Over
  <2>5. Made(tip, applied).id < nextId' BY <1>2, <2>3 DEF Counters
  <2> QED BY <1>1, <2>1, <2>2, <2>3, <2>4, <2>5, SendsTemplate
<1>4. ASSUME RpcSameTip PROVE Sends(NewTemplate(Made(tip, applied), FALSE))
  <2>1. RpcOK /\ main = "poll" /\ nextId <= setup.templates /\ tip = prev
    BY <1>4 DEF RpcSameTip, RpcPublish, Rpc, TasksOK
  <2>2. ~Owed /\ wire = <<>> /\ sent # <<>> /\ Made(tip, applied).tip = Last(sent).t.tip BY <1>2, <2>1 DEF RpcOK
  <2>3. /\ sent' = Append(sent, NewTemplate(Made(tip, applied), FALSE)) /\ nextId' = nextId + 1
        /\ wire' = wire /\ setup' = setup /\ tip' = tip /\ applied' = applied /\ main' = main
    BY <1>4 DEF RpcSameTip, RpcPublish, node, net, tasks
  <2>4. ~Over /\ ~Over' BY <2>1, <2>3 DEF Over
  <2>5. Made(tip, applied).id < nextId' BY <1>2, <2>3 DEF Counters
  <2> QED BY <1>1, <2>1, <2>2, <2>3, <2>4, <2>5, SendsTemplate
<1>5. ASSUME RpcSetNewPrevHash PROVE Sends(PrevHash(draft.main)) /\ draft.main = Last(sent).t
  <2>1. RpcOK /\ main = "publish" BY <1>5 DEF RpcSetNewPrevHash, Rpc, TasksOK
  <2>2. Owed /\ draft.main = Last(sent).t /\ wire = <<>> BY <2>1 DEF RpcOK
  <2>3. /\ sent' = Append(sent, PrevHash(Last(sent).t))
        /\ wire' = wire /\ setup' = setup /\ tip' = tip /\ applied' = applied /\ nextId' = nextId /\ main' = "poll"
    BY <1>5, <2>2 DEF RpcSetNewPrevHash, node, net
  <2>4. ~Over /\ ~Over' BY <2>1, <2>3 DEF Over
  <2> QED BY <2>2, <2>3, <2>4, SendsPrevHash
<1> QED BY <1>3, <1>4, <1>5

\* The SV2 provider, which keeps to the protocol.
LEMMA TpBounded == ASSUME Counters, Requests, Bounded, Tp PROVE Bounded'
<1>1. /\ Orderly(Log) /\ Log \in Seq(Messages) BY DEF Bounded, Orderly
<1>2. ASSUME Log # <<>>
      PROVE  /\ Last(Log) \in Messages /\ Last(Log).t.id < nextId /\ Last(Log).t.tip <= tip /\ Last(Log).t.under <= applied
             /\ Last(Log).t \in Templates /\ Last(Log).t.id \in Ids /\ Last(Log).t.tip \in 1..MaxTips
  <2>1. Len(Log) \in 1..Len(Log) /\ Last(Log) = Log[Len(Log)] BY <1>1, <1>2 DEF Last
  <2>2. Last(Log) \in Messages BY <1>1, <2>1
  <2> QED BY <1>2, <2>1, <2>2, Typed DEF Bounded, Counters
<1>3. LogOwes <=> Log # <<>> /\ IsOwing(Last(Log)) BY DEF LogOwes, Owes, IsOwing
<1>4. CASE TpPrevHash
  <2> DEFINE m == PrevHash(Last(Log).t)
  <2>1. Log # <<>> /\ IsOwing(Last(Log)) BY <1>3, <1>4 DEF TpPrevHash
  <2>2. m \in Messages /\ m.t = Last(Log).t /\ m.kind = "prevhash" BY <1>2, <2>1 DEF PrevHash, Messages
  <2>3. /\ wire' = Append(wire, m) /\ sent' = sent /\ setup' = setup /\ tip' = tip /\ applied' = applied /\ nextId' = nextId
    BY <1>4 DEF TpPrevHash, node, client
  <2>4. Continues(Log, m) BY <2>1, <2>2 DEF Continues, Follows
  <2> HIDE DEF m
  <2> QED BY <1>2, <2>1, <2>2, <2>3, <2>4, BoundedTp
<1>5. CASE \E future \in BOOLEAN : TpTemplate(future)
  <2>1. PICK future \in BOOLEAN : TpTemplate(future) BY <1>5
  <2> DEFINE t == Made(tip, applied)
             m == NewTemplate(t, future)
  <2>2. /\ ~LogOwes /\ nextId <= setup.templates /\ wire' = Append(wire, m) /\ sent' = sent /\ setup' = setup
        /\ tip' = tip /\ applied' = applied /\ nextId' = nextId + 1
        /\ future = (tip # LogTip \/ Last(Log).t.under # applied)
    BY <2>1 DEF TpTemplate, node
  <2>3. nextId \in Ids /\ nextId \in Nat /\ tip \in Nat /\ tip \in 1..MaxTips /\ applied \in 0..Max({s.constraints : s \in Setups})
        /\ MaxTips \in Nat /\ MaxTemplates \in Nat /\ applied \in Nat
    BY <2>2, Facts DEF Counters
  <2>4. t \in Templates /\ t.id = nextId /\ t.tip = tip /\ t.under = applied
    BY <2>3 DEF Made, Templates, Ids
  <2>5. m \in Messages /\ m.t = t /\ m.kind = "template" /\ m.future = future BY <2>4 DEF NewTemplate, Messages
  <2> HIDE DEF m, t
  <2>6. Continues(Log, m)
    <3>1. CASE Log = <<>>
      <4>1. LogTip = 0 BY <1>1, <3>1 DEF LogTip, Orderly, Summarised, None
      <4>2. tip # LogTip BY <2>3, <4>1
      <4>3. future BY <2>2, <4>2, Zenon
      <4> QED BY <2>5, <3>1, <4>3 DEF Continues, IsOwing
    <3>2. CASE Log # <<>>
      <4>1. LogTip = Last(Log).t.tip BY <1>1, <2>2, <3>2 DEF LogTip, LogOwes, Orderly, Summarised
      <4>2. ~IsOwing(Last(Log)) BY <1>3, <2>2, <3>2
      <4>3. future \/ tip = Last(Log).t.tip BY <2>2, <4>1
      <4>4. m.future \/ m.t.tip = Last(Log).t.tip BY <2>4, <2>5, <4>3
      <4>5. Last(Log).t.id < m.t.id /\ Last(Log).t.tip <= m.t.tip /\ Last(Log).t.under <= m.t.under
        BY <1>2, <2>4, <2>5, <3>2
      <4>6. Follows(Last(Log), m) BY <2>5, <4>2, <4>4, <4>5 DEF Follows
      <4> QED BY <3>2, <4>6 DEF Continues
    <3> QED BY <3>1, <3>2
  <2>7. m.t.id \in Ids /\ m.t.id < nextId' /\ m.t.tip \in 1..MaxTips /\ m.t.tip <= tip' /\ m.t.under <= applied'
    BY <2>2, <2>3, <2>4, <2>5
  <2> QED BY <2>2, <2>5, <2>6, <2>7, BoundedTp
<1> QED BY <1>4, <1>5 DEF Tp

\* The steps that send nothing.
QuietStep ==
    \/ Environment
    \/ IpcFirstConstraints \/ IpcStopMonitor \/ IpcMonitorStopped \/ IpcCreateNewBlock
    \/ IpcInterrupt \/ IpcRequest \/ IpcAnswer \/ IpcSolution \/ IpcExits
    \/ IpcWait \/ IpcWaitNext \/ IpcMonitorExits \/ IpcForget \/ IpcDestroy
    \/ RpcConstraints \/ RpcRequest \/ RpcSolution \/ RpcExits
    \/ Sv2Start \/ Sv2Ask \/ Sv2Exits \/ Failures

\* They leave the messages alone, and no counter goes back.
LEMMA QuietSteps ==
    ASSUME Counters, QuietStep
    PROVE  Quiet /\ (Over => Over')
<1>1. nextId \in Nat /\ tip \in Nat /\ applied \in Nat BY DEF Counters
<1> USE <1>1 DEF Quiet, Over, node, inputs, ending, tasks, client, retention, net
<1>2. CASE Environment
  BY <1>2 DEF Environment, NewBlock, SendConstraints, Cancel, IntervalPasses, SendAsk
<1>3. CASE IpcFirstConstraints \/ IpcStopMonitor \/ IpcMonitorStopped \/ IpcCreateNewBlock \/ IpcInterrupt
  BY <1>3 DEF IpcFirstConstraints, IpcStopMonitor, IpcMonitorStopped, IpcCreateNewBlock, IpcInterrupt
<1>4. CASE IpcRequest
  BY <1>4 DEF IpcRequest
<1>5. CASE IpcAnswer \/ IpcSolution \/ IpcExits \/ IpcWait \/ IpcWaitNext \/ IpcMonitorExits
  BY <1>5 DEF IpcAnswer, IpcSolution, Solution, IpcExits, IpcWait, IpcWaitNext, IpcMonitorExits
<1>6. CASE IpcForget \/ IpcDestroy BY <1>6 DEF IpcForget, IpcDestroy
<1>7. CASE RpcConstraints \/ RpcRequest \/ RpcSolution \/ RpcExits
  BY <1>7 DEF RpcConstraints, RpcRequest, RpcSolution, Solution, RpcExits
<1>8. CASE Sv2Start \/ Sv2Ask \/ Sv2Exits
  BY <1>8 DEF Sv2Start, Sv2Connect, Sv2SetupConnection, Sv2Retry, Sv2Ask, Sv2Exits
<1>9. CASE IpcMainFails \/ IpcMonitorFails \/ IpcAnswerFails
  BY <1>9 DEF IpcMainFails, IpcMonitorFails, IpcAnswerFails
<1>10. CASE RpcFirstFails \/ RpcRefreshFails \/ RpcPollFails
  BY <1>10 DEF RpcFirstFails, RpcRefreshFails, RpcPollFails, RpcFails
<1>11. CASE Sv2StartFails \/ Sv2Disconnected
  BY <1>11 DEF Sv2StartFails, Sv2ConnectFails, Sv2SetupFails, Sv2Disconnected, Sv2Fails
<1> QED BY <1>2, <1>3, <1>4, <1>5, <1>6, <1>7, <1>8, <1>9, <1>10, <1>11 DEF QuietStep, Failures

SendingStep ==
    \/ IpcPublishFirst \/ IpcSpawnMonitor \/ IpcPublishTip \/ IpcPublishTipPrevHash \/ IpcPublishFees
    \/ RpcRefresh \/ RpcSetNewPrevHash \/ RpcNewTip \/ RpcSameTip

\* They send one message that may follow.
LEMMA SendingSteps ==
    ASSUME Counters, Requests, Bounded, TasksOK, SendingStep PROVE \E m \in Messages : Sends(m)
<1>1. \A m : Sends(m) => m \in Messages BY DEF Sends
<1> QED BY <1>1, IpcSends, RpcSends DEF SendingStep

\* Every step sends nothing, sends one message, or moves one over the connection.
LEMMA StepKinds == ASSUME Next PROVE QuietStep \/ SendingStep \/ Tp \/ Sv2Forward
  BY DEF Next, IpcMain, IpcMonitor, RpcSteps, Sv2Loop, QuietStep, SendingStep

\* Every step keeps the messages in order, and is a step of TemplateFeed.
LEMMA MessagesStep ==
    ASSUME Counters, Requests, Bounded, TasksOK, Next
    PROVE  Bounded' /\ [Feed!Next]_(Feed!feed)
<1>1. CASE QuietStep
  <2>1. Quiet /\ (Over => Over') BY <1>1, QuietSteps
  <2>2. Bounded' BY <2>1, BoundedQuiet DEF Quiet
  <2>3. sent' = sent BY <2>1 DEF Quiet
  <2> QED BY <2>1, <2>2, <2>3, FeedQuiet
<1>2. CASE SendingStep
  <2>1. PICK m \in Messages : Sends(m) BY <1>2, SendingSteps
  <2>2. Bounded' BY <2>1, BoundedSend DEF Sends
  <2>3. Feed!Next
    <3>1. setup \in Setups /\ Orderly(sent) BY DEF Counters, Bounded
    <3> QED BY <2>1, <3>1, FeedStep DEF Sends
  <2> QED BY <2>2, <2>3
<1>3. CASE Tp
  <2>1. Bounded' BY <1>3, TpBounded
  <2>2. sent' = sent /\ Over' = Over BY <1>3 DEF Tp, TpPrevHash, TpTemplate, Over, tasks
  <2> QED BY <2>1, <2>2, FeedQuiet
<1>4. CASE Sv2Forward
  <2>1. /\ wire # <<>> /\ sent' = Append(sent, Head(wire)) /\ wire' = Tail(wire) /\ setup' = setup
        /\ nextId' = nextId /\ tip' = tip /\ applied' = applied /\ main = "forward" /\ main' = main
    BY <1>4 DEF Sv2Forward, node, client, tasks
  <2>2. Bounded' BY <2>1, BoundedForward
  <2>3. ~Over /\ ~Over' BY <2>1 DEF Over
  <2>4. Feed!Next
    <3>1. setup \in Setups /\ Orderly(sent) BY DEF Counters, Bounded
    <3>2. /\ Head(wire) \in Messages /\ Continues(sent, Head(wire))
          /\ Head(wire).t.id \in Ids /\ Head(wire).t.tip \in 1..MaxTips
      BY <2>1, Forwarded
    <3> QED BY <2>1, <2>3, <3>1, <3>2, FeedStep
  <2> QED BY <2>2, <2>4
<1> QED BY <1>1, <1>2, <1>3, <1>4, StepKinds

\* What is published stays published.
LEMMA PublishedStays ==
    ASSUME Counters, Requests, Bounded, TasksOK, Next PROVE Published \subseteq Published'
<1>1. CASE QuietStep \/ Tp
  <2>1. sent' = sent BY <1>1, QuietSteps DEF Quiet, Tp, TpPrevHash, TpTemplate
  <2> QED BY <2>1 DEF Published
<1>2. CASE SendingStep \/ Sv2Forward
  <2>1. PICK m \in Messages : sent' = Append(sent, m) BY <1>2, SendingSteps, Forwarded DEF Sends, Sv2Forward
  <2>2. Orderly(sent) BY DEF Bounded
  <2>3. m.kind \in {"template", "prevhash"} BY DEF Messages
  <2> QED BY <2>1, <2>2, <2>3, PublishedGrows
<1> QED BY <1>1, <1>2, StepKinds
-----------------------------------------------------------------------------
(* The counters, the requests and the tasks. *)

\* A request or a block is taken from the channel; the others stay.
LEMMA Taken ==
    ASSUME Requests, NEW kind, Receive(kind)
    PROVE  /\ inbox' \in Seq(Asks) /\ Head(inbox) \in Asks /\ Head(inbox).kind = kind /\ Message \in 0..MaxTemplates
           /\ kind # "constraints" => \E t \in Published : t.id = Message
           /\ \A i \in 1..Len(inbox') : i + 1 \in 1..Len(inbox) /\ inbox'[i] = inbox[i + 1]
           /\ Pending' \in Nat /\ Pending \in Nat /\ Pending' <= Pending /\ (kind = "constraints" => Pending' < Pending)
<1>1. inbox \in Seq(Asks) /\ inbox # <<>> /\ Head(inbox).kind = kind /\ inbox' = Tail(inbox) BY DEF Requests, Receive
<1>2. /\ inbox' \in Seq(Asks) /\ Head(inbox) \in Asks /\ Head(inbox) = inbox[1] /\ 1 \in 1..Len(inbox)
      /\ \A i \in 1..Len(inbox') : i + 1 \in 1..Len(inbox) /\ inbox'[i] = inbox[i + 1]
  BY <1>1
<1>3. Message = inbox[1].id /\ Message \in 0..MaxTemplates BY <1>1, <1>2 DEF Message, Asks
<1>4. kind # "constraints" => \E t \in Published : t.id = Message BY <1>1, <1>2, <1>3 DEF Requests
<1>5. Pending' \in Nat /\ Pending \in Nat /\ Pending' <= Pending /\ (kind = "constraints" => Pending' < Pending)
  BY <1>1, PendingShrinks
<1> QED BY <1>1, <1>2, <1>3, <1>4, <1>5

\* The arithmetic of constraints that are taken from the channel.
LEMMA FewerPending ==
    ASSUME NEW a \in Nat, NEW p \in Nat, NEW q \in Nat, NEW g \in Nat, a + p <= g
    PROVE  /\ q <= p => a + q <= g
           /\ q < p => a + q < g /\ a + 1 + q <= g
  OBVIOUS

\* Every step keeps the requests about published templates, and the constraints counted.
LEMMA RequestsStep ==
    ASSUME Counters, Requests, Bounded, TasksOK, Next PROVE Requests'
<1>1. Published \subseteq Published' BY PublishedStays
<1>2. Pending \in Nat /\ applied \in Nat /\ given \in Nat BY Facts DEF Counters
<1>3. ASSUME inbox' = inbox, given' = given,
             \/ applied' = applied /\ (main' = "join" => main = "join")
             \/ applied' = applied + 1 /\ main = "join" /\ main' # "join"
      PROVE  Requests'
  <2>1. Pending' = Pending BY <1>3 DEF Pending
  <2> QED BY <1>1, <1>2, <1>3, <2>1 DEF Requests
<1>4. ASSUME NEW kind, Receive(kind), given' = given, main # "join",
             \/ applied' = applied /\ main' # "join"
             \/ kind = "constraints" /\ applied' = applied + 1 /\ main' # "join"
             \/ kind = "constraints" /\ applied' = applied /\ main' = "join"
      PROVE  Requests'
  <2>1. /\ inbox' \in Seq(Asks)
        /\ \A i \in 1..Len(inbox') : i + 1 \in 1..Len(inbox) /\ inbox'[i] = inbox[i + 1]
        /\ Pending' \in Nat /\ Pending' <= Pending /\ (kind = "constraints" => Pending' < Pending)
    BY <1>4, Taken
  <2>2. applied + Pending <= given BY <1>4, <1>2 DEF Requests
  <2>3. applied' + Pending' <= given' /\ (main' = "join" => applied' + Pending' < given')
    <3>1. kind = "constraints" => Pending' < Pending BY <2>1
    <3>2. Pending' \in Nat /\ Pending' <= Pending /\ given' = given BY <1>4, <2>1
    <3>3. kind = "constraints" => applied + Pending' < given /\ applied + 1 + Pending' <= given
      BY <1>2, <2>2, <3>1, <3>2, FewerPending
    <3>4. applied + Pending' <= given BY <1>2, <2>2, <3>2, FewerPending
    <3>5. CASE applied' = applied /\ main' # "join" BY <3>2, <3>4, <3>5
    <3>6. CASE kind = "constraints" /\ applied' = applied + 1 /\ main' # "join" BY <3>2, <3>3, <3>6
    <3>7. CASE kind = "constraints" /\ applied' = applied /\ main' = "join" BY <3>2, <3>3, <3>4, <3>7
    <3> QED BY <1>4, <3>5, <3>6, <3>7
  <2>4. \A i \in 1..Len(inbox') : inbox'[i].kind # "constraints" => \E t \in Published' : t.id = inbox'[i].id
    BY <1>1, <2>1 DEF Requests
  <2> QED BY <2>1, <2>3, <2>4 DEF Requests
<1> USE DEF node, inputs, ending, tasks, client, net
<1>5. CASE SendConstraints
  <2>1. Ask("constraints", 0) \in Asks /\ Ask("constraints", 0).kind = "constraints" BY Facts DEF Ask, Asks
  <2>2. /\ inbox' = Append(inbox, Ask("constraints", 0)) /\ inbox \in Seq(Asks)
        /\ given' = given + 1 /\ applied' = applied /\ main' = main
    BY <1>5 DEF SendConstraints, Requests
  <2>3. Pending' = Pending + 1 BY <2>1, <2>2, PendingGrows
  <2>4. /\ inbox' \in Seq(Asks)
        /\ \A i \in 1..Len(inbox') : inbox'[i].kind = "constraints" \/ (i \in 1..Len(inbox) /\ inbox'[i] = inbox[i])
    BY <2>1, <2>2
  <2> QED BY <1>1, <1>2, <2>2, <2>3, <2>4 DEF Requests
<1>6. CASE \E kind \in {"request", "solution"}, t \in Published : SendAsk(kind, t)
  <2>1. PICK kind \in {"request", "solution"}, t \in Published : SendAsk(kind, t) BY <1>6
  <2> DEFINE m == Ask(kind, t.id)
  <2>2. t \in Templates BY PublishedFacts DEF Bounded, Counters
  <2>3. m \in Asks /\ m.kind # "constraints" /\ m.id = t.id BY <2>1, <2>2, Facts DEF Ask, Asks, Templates
  <2>4. inbox' = Append(inbox, m) /\ given' = given /\ applied' = applied /\ main' = main /\ inbox \in Seq(Asks)
    BY <2>1 DEF SendAsk, Requests
  <2> HIDE DEF m
  <2>5. Pending' = Pending BY <1>2, <2>3, <2>4, PendingGrows
  <2>6. inbox' \in Seq(Asks) /\ \A i \in 1..Len(inbox') : inbox'[i] = m \/ (i \in 1..Len(inbox) /\ inbox'[i] = inbox[i])
    BY <2>3, <2>4
  <2>7. \A i \in 1..Len(inbox') : inbox'[i].kind # "constraints" => \E u \in Published' : u.id = inbox'[i].id
    BY <1>1, <2>1, <2>3, <2>6 DEF Requests
  <2> QED BY <1>2, <2>4, <2>5, <2>6, <2>7 DEF Requests
<1>7. CASE NewBlock \/ Cancel \/ IntervalPasses
  BY <1>3, <1>7 DEF NewBlock, Cancel, IntervalPasses
<1>8. CASE IpcFirstConstraints \/ IpcStopMonitor
  BY <1>4, <1>8 DEF IpcFirstConstraints, IpcStopMonitor
<1>9. CASE IpcMonitorStopped \/ IpcCreateNewBlock \/ IpcInterrupt \/ IpcPublishFirst \/ IpcSpawnMonitor
  BY <1>3, <1>9 DEF IpcMonitorStopped, IpcCreateNewBlock, IpcInterrupt, IpcPublishFirst, IpcSpawnMonitor
<1>10. CASE IpcRequest
  <2>1. Receive("request") /\ main = "serve" /\ main' \in {"serve", "answer"} /\ given' = given /\ applied' = applied
    BY <1>10 DEF IpcRequest
  <2> QED BY <1>4, <2>1
<1>11. CASE IpcSolution \/ RpcSolution \/ RpcRequest
  BY <1>4, <1>11 DEF IpcSolution, RpcSolution, RpcRequest, Solution
<1>12. CASE IpcAnswer \/ IpcExits \/ IpcWait \/ IpcWaitNext \/ IpcMonitorExits \/ IpcPublishTip \/ IpcPublishTipPrevHash
            \/ IpcPublishFees \/ IpcForget \/ IpcDestroy
  BY <1>3, <1>12 DEF IpcAnswer, IpcExits, IpcWait, IpcWaitNext, IpcMonitorExits, IpcPublishTip, IpcPublishTipPrevHash,
     IpcPublishFees, IpcForget, IpcDestroy
<1>13. CASE RpcConstraints BY <1>4, <1>13 DEF RpcConstraints
<1>14. CASE RpcRefresh \/ RpcSetNewPrevHash \/ RpcNewTip \/ RpcSameTip \/ RpcExits
  BY <1>3, <1>14 DEF RpcRefresh, RpcSetNewPrevHash, RpcNewTip, RpcSameTip, RpcExits
<1>15. CASE Sv2Start \/ Sv2Forward \/ Sv2Exits \/ Tp
  BY <1>3, <1>15 DEF Sv2Start, Sv2Connect, Sv2SetupConnection, Sv2Retry, Sv2Forward, Sv2Exits, Tp, TpPrevHash, TpTemplate
<1>16. CASE Sv2Ask
  <2> DEFINE kind == Head(inbox).kind
  <2>1. /\ Receive(kind) /\ main = "forward" /\ main' = main /\ given' = given
        /\ applied' = applied + IF kind = "constraints" THEN 1 ELSE 0
    BY <1>16 DEF Sv2Ask, Receive
  <2> HIDE DEF kind
  <2>2. CASE kind = "constraints" BY <1>4, <2>1, <2>2
  <2>3. CASE kind # "constraints"
    <3>1. applied' = applied BY <1>2, <2>1, <2>3
    <3> QED BY <1>4, <2>1, <3>1
  <2> QED BY <2>2, <2>3
<1>17. CASE Failures
  BY <1>3, <1>17 DEF Failures, IpcMainFails, IpcMonitorFails, IpcAnswerFails, RpcFirstFails, RpcRefreshFails, RpcPollFails,
     RpcFails, Sv2StartFails, Sv2ConnectFails, Sv2SetupFails, Sv2Disconnected, Sv2Fails
<1> QED BY <1>5, <1>6, <1>7, <1>8, <1>9, <1>10, <1>11, <1>12, <1>13, <1>14, <1>15, <1>16, <1>17
     DEF Next, Environment, IpcMain, IpcMonitor, RpcSteps, Sv2Loop

\* Every step keeps the counters within the bounds of the deployment.
LEMMA CountersStep ==
    ASSUME Counters, Requests, Bounded, TasksOK, Next PROVE Counters'
<1> DEFINE Causes == {"no", "call", "request", "connection", "user"}
           Drafts == [{"main", "monitor"} -> Templates]
<1>1. /\ setup \in Setups /\ applied \in Nat /\ nextId \in Nat /\ tip \in Nat /\ setup.tips \in Nat /\ setup.templates \in Nat
      /\ setup.constraints \in Nat /\ None \in Templates
  <2>1. setup \in Setups BY DEF Counters
  <2>2. setup.tips \in Nat /\ setup.templates \in Nat /\ setup.constraints \in Nat BY <2>1, ProvidersAssumption
  <2>3. MaxTemplates \in Nat /\ MaxTips \in Nat /\ Max({s.constraints : s \in Setups}) \in Nat BY <2>1, Bounds
  <2>4. None \in Templates BY <2>3 DEF None, Templates
  <2> QED BY <2>1, <2>2, <2>4, Facts
<1>2. ASSUME nextId <= setup.templates, NEW under \in 0..Max({s.constraints : s \in Setups}) PROVE Made(tip, under) \in Templates
  BY <1>2, Facts DEF Made, Templates, Ids
<1>3. applied \in 0..Max({s.constraints : s \in Setups}) BY Facts
<1>4. base.under \in 0..Max({s.constraints : s \in Setups}) BY DEF Counters, Templates
<1>5. \A d \in Drafts : \A t \in Templates : [d EXCEPT !.main = t] \in Drafts /\ [d EXCEPT !.monitor = t] \in Drafts OBVIOUS
<1>6. draft.main \in Templates /\ draft.monitor \in Templates /\ draft.main.tip \in 0..MaxTips /\ draft.monitor.tip \in 0..MaxTips
  BY DEF Counters, Templates
<1> USE DEF node, inputs, ending, tasks, client, retention, net
<1>7. CASE Environment
  <2>1. CASE NewBlock BY <1>1, <2>1 DEF NewBlock, Counters
  <2>2. CASE SendConstraints BY <1>1, <2>2 DEF SendConstraints, Counters
  <2>3. CASE Cancel BY <2>3 DEF Cancel, Counters
  <2>4. CASE IntervalPasses BY <2>4 DEF IntervalPasses, Counters
  <2>5. CASE \E kind \in {"request", "solution"}, t \in Published : SendAsk(kind, t)
    <3>1. MaxAsked \in Nat BY ProvidersAssumption
    <3> QED BY <2>5, <3>1 DEF SendAsk, Counters
  <2> QED BY <1>7, <2>1, <2>2, <2>3, <2>4, <2>5 DEF Environment
<1>8. CASE IpcFirstConstraints \/ IpcStopMonitor \/ IpcMonitorStopped \/ IpcInterrupt \/ IpcSolution \/ IpcExits \/ IpcWait
           \/ IpcMonitorExits
  <2>1. CASE IpcFirstConstraints BY <1>1, <2>1 DEF IpcFirstConstraints, Counters
  <2>2. CASE IpcStopMonitor BY <2>2 DEF IpcStopMonitor, Counters
  <2>3. CASE IpcMonitorStopped
    <3>1. applied' = applied + 1 BY <2>3 DEF IpcMonitorStopped
    <3>2. applied' \in Nat BY <1>1, <3>1
    <3>3. stop' \in BOOLEAN BY <2>3 DEF IpcMonitorStopped
    <3> QED BY <2>3, <3>2, <3>3 DEF IpcMonitorStopped, Counters
  <2>4. CASE IpcInterrupt \/ IpcExits BY <2>4 DEF IpcInterrupt, IpcExits, Counters
  <2>5. CASE IpcSolution BY <2>5 DEF IpcSolution, Solution, Counters
  <2>6. CASE IpcWait \/ IpcMonitorExits BY <2>6 DEF IpcWait, IpcMonitorExits, Counters
  <2> QED BY <1>8, <2>1, <2>2, <2>3, <2>4, <2>5, <2>6
<1>9. CASE IpcForget \/ IpcDestroy BY <1>9 DEF IpcForget, IpcDestroy, Counters
<1>10. CASE IpcCreateNewBlock BY <1>1, <1>2, <1>3, <1>5, <1>10 DEF IpcCreateNewBlock, Counters
<1>11. CASE IpcWaitNext BY <1>1, <1>2, <1>4, <1>5, <1>11 DEF IpcWaitNext, Counters
<1>12. CASE IpcPublishFirst BY <1>6, <1>12 DEF IpcPublishFirst, Counters
<1>13. CASE IpcPublishTip BY <1>6, <1>13 DEF IpcPublishTip, Counters
<1>14. CASE IpcSpawnMonitor BY <1>1, <1>5, <1>6, <1>14 DEF IpcSpawnMonitor, Counters
<1>15. CASE IpcPublishTipPrevHash BY <1>1, <1>5, <1>6, <1>15 DEF IpcPublishTipPrevHash, Counters
<1>16. CASE IpcPublishFees BY <1>1, <1>5, <1>6, <1>16 DEF IpcPublishFees, Counters
<1>17. CASE IpcAnswer BY <1>1, <1>5, <1>17 DEF IpcAnswer, Counters
<1>18. CASE IpcRequest
  <2>1. Message \in 0..MaxTemplates BY <1>18, Taken DEF IpcRequest
  <2>2. draft' \in Drafts
    <3>1. [draft.main EXCEPT !.id = Message] \in Templates BY <1>6, <2>1 DEF Templates
    <3>2. draft \in Drafts BY DEF Counters
    <3>3. CASE draft' = draft BY <3>2, <3>3
    <3>4. CASE draft' = [draft EXCEPT !.main.id = Message]
      <4>1. draft' = [draft EXCEPT !.main = [draft.main EXCEPT !.id = Message]] BY <3>2, <3>4
      <4> QED BY <1>5, <3>1, <3>2, <4>1
    <3> QED BY <1>18, <3>3, <3>4 DEF IpcRequest
  <2> QED BY <1>18, <2>2 DEF IpcRequest, Counters
<1>19. CASE IpcMainFails \/ IpcMonitorFails \/ IpcAnswerFails
  <2>1. MaxFailures \in Nat BY ProvidersAssumption
  <2>2. CASE IpcMainFails BY <2>1, <2>2 DEF IpcMainFails, CancelFor, Counters
  <2>3. CASE IpcMonitorFails BY <2>1, <2>3 DEF IpcMonitorFails, CancelFor, Counters
  <2>4. CASE IpcAnswerFails BY <2>4 DEF IpcAnswerFails, CancelFor, Counters
  <2> QED BY <1>19, <2>2, <2>3, <2>4
<1>20. CASE RpcConstraints \/ RpcRequest \/ RpcSolution \/ RpcExits
  BY <1>1, <1>20 DEF RpcConstraints, RpcRequest, RpcSolution, Solution, RpcExits, Counters
<1>21. CASE RpcRefresh \/ RpcNewTip \/ RpcSameTip
  <2>1. /\ nextId <= setup.templates /\ nextId' = nextId + 1 /\ throttled' \in {throttled, TRUE}
        /\ draft' = [draft EXCEPT !.main = Made(tip, applied)] \/ draft' = [draft EXCEPT !.main = None]
        /\ UNCHANGED <<setup, tip, given, asked, failures, cancelled, cause, applied, stop, attempt, base, prev>>
    BY <1>21 DEF RpcRefresh, RpcNewTip, RpcSameTip, RpcPublish
  <2>2. draft' \in Drafts BY <1>1, <1>2, <1>3, <1>5, <2>1 DEF Counters
  <2>3. nextId' \in 1..(setup.templates + 1) BY <1>1, <2>1 DEF Counters
  <2>4. throttled' \in BOOLEAN BY <2>1 DEF Counters
  <2> QED BY <2>1, <2>2, <2>3, <2>4 DEF Counters
<1>22. CASE RpcSetNewPrevHash BY <1>1, <1>5, <1>6, <1>22 DEF RpcSetNewPrevHash, Counters
<1>23. CASE RpcFirstFails \/ RpcRefreshFails \/ RpcPollFails
  BY <1>1, <1>23, ProvidersAssumption DEF RpcFirstFails, RpcRefreshFails, RpcPollFails, RpcFails, Counters
<1>24. CASE Sv2Start \/ Sv2Forward \/ Sv2Exits
  <2>1. MaxRetries \in Nat BY ProvidersAssumption
  <2>2. CASE Sv2Retry BY <2>1, <2>2 DEF Sv2Retry, Counters
  <2>3. CASE Sv2Connect \/ Sv2SetupConnection BY <2>3 DEF Sv2Connect, Sv2SetupConnection, Counters
  <2>4. CASE Sv2Forward \/ Sv2Exits BY <2>4 DEF Sv2Forward, Sv2Exits, Counters
  <2> QED BY <1>24, <2>2, <2>3, <2>4 DEF Sv2Start
<1>25. CASE Sv2Ask
  <2>1. applied' \in Nat /\ UNCHANGED <<node, given, asked, ending, failures, client, stop, prev, throttled, net>>
    BY <1>1, <1>25 DEF Sv2Ask
  <2> QED BY <2>1 DEF Counters
<1>26. CASE Tp
  <2>1. CASE TpPrevHash BY <2>1 DEF TpPrevHash, Counters
  <2>2. ASSUME NEW future \in BOOLEAN, TpTemplate(future) PROVE Counters'
    <3>1. nextId <= setup.templates /\ nextId' = nextId + 1 BY <2>2 DEF TpTemplate
    <3>2. UNCHANGED <<node, given, asked, ending, failures, draft, base, stop, applied, prev, throttled, attempt>>
      BY <2>2 DEF TpTemplate, inputs
    <3>3. nextId' \in 1..(setup'.templates + 1) BY <1>1, <3>1, <3>2 DEF Counters
    <3> QED BY <3>2, <3>3 DEF Counters
  <2> QED BY <1>26, <2>1, <2>2 DEF Tp
<1>27. CASE Sv2StartFails \/ Sv2Disconnected
  BY <1>27 DEF Sv2StartFails, Sv2ConnectFails, Sv2SetupFails, Sv2Disconnected, Sv2Fails, CancelFor, Counters
<1> QED BY <1>7, <1>8, <1>9, <1>10, <1>11, <1>12, <1>13, <1>14, <1>15, <1>16, <1>17, <1>18, <1>19, <1>20, <1>21, <1>22,
       <1>23, <1>24, <1>25, <1>26, <1>27 DEF Next, IpcMain, IpcMonitor, RpcSteps, Sv2Loop, Failures

\* What a step that sends nothing leaves as it was.
LEMMA AfterQuiet ==
    ASSUME Counters, Requests, Bounded, Quiet
    PROVE  /\ sent' = sent /\ wire' = wire /\ setup' = setup /\ (Owed' <=> Owed)
           /\ \A t \in Templates : Newer(t) =>
                 /\ t.id \in Ids /\ t.tip \in 1..tip' /\ t.under <= applied' /\ t.id < nextId'
                 /\ sent # <<>> => Last(sent).t.id < t.id /\ Last(sent).t.tip <= t.tip /\ Last(sent).t.under <= t.under
<1>1. sent' = sent /\ wire' = wire /\ setup' = setup BY DEF Quiet
<1>2. Owed' <=> Owed BY <1>1 DEF Owed
<1>3. ASSUME NEW t \in Templates, Newer(t)
      PROVE  t.tip \in 1..tip' /\ t.under <= applied' /\ t.id < nextId'
  <2>1. t.id < nextId /\ t.tip \in 1..tip /\ t.under <= applied BY <1>3 DEF Newer, Ahead
  <2>2. t.id \in Nat /\ t.under \in Nat /\ tip \in Nat /\ nextId \in Nat /\ applied \in Nat BY Facts, Bounds DEF Templates, Counters
  <2>3. tip <= tip' /\ nextId <= nextId' /\ applied <= applied' /\ tip' \in Nat /\ nextId' \in Nat /\ applied' \in Nat BY DEF Quiet
  <2>4. t.id < nextId' BY <2>1, <2>2, <2>3
  <2>5. t.under <= applied' BY <2>1, <2>2, <2>3
  <2>6. t.tip \in 1..tip' BY <2>1, <2>2, <2>3
  <2> QED BY <2>4, <2>5, <2>6
<1> QED BY <1>1, <1>2, <1>3 DEF Newer, Ahead

\* The tasks of the IPC provider, while they send nothing.
LEMMA IpcQuiet ==
    ASSUME Counters, Requests, Bounded, setup.provider = "ipc", IpcOK, QuietStep PROVE IpcOK'
<1>1. Quiet BY QuietSteps
<1>2. sent' = sent /\ wire' = wire /\ (Owed' <=> Owed) BY <1>1, AfterQuiet
<1>3. draft.main \in Templates /\ draft.monitor \in Templates /\ draft \in [{"main", "monitor"} -> Templates] BY DEF Counters
<1>4. /\ Newer(draft.main) /\ draft'.main = draft.main => Newer(draft.main)'
      /\ Newer(draft.monitor) /\ draft'.monitor = draft.monitor => Newer(draft.monitor)'
  BY <1>1, <1>2, <1>3, AfterQuiet DEF Newer, Ahead
<1>5. nextId \in Nat /\ applied \in Nat /\ wire = <<>> BY DEF Counters, IpcOK
<1>6. Log = sent BY <1>5, NoWire DEF Bounded, Orderly
\* The clauses of a task that goes on with what it had.
<1>7. ASSUME draft'.main = draft.main, main' = main PROVE
             /\ main' = "sending" => draft'.main = Last(sent').t
             /\ main' = "fetch" => Newer(draft.main)'
  BY <1>2, <1>4, <1>7 DEF IpcOK
<1>8. ASSUME draft'.monitor = draft.monitor, base' = base, monitor' = monitor PROVE
             /\ monitor' = "sending" => draft'.monitor = Last(sent').t
             /\ monitor' = "fetch" => Newer(draft.monitor)'
             /\ monitor' \in {"start", "wait", "fetch"} => base'.under = Last(sent').t.under
  BY <1>2, <1>4, <1>8 DEF IpcOK
<1> USE DEF node, inputs, ending, tasks, client, retention, net
<1>9. CASE Environment \/ IpcSolution \/ IpcForget \/ IpcDestroy
  <2>1. UNCHANGED <<main, monitor, draft, base, prev>>
    BY <1>9 DEF Environment, NewBlock, SendConstraints, Cancel, IntervalPasses, SendAsk, IpcSolution, Solution, IpcForget, IpcDestroy
  <2> QED BY <1>2, <1>7, <1>8, <2>1 DEF IpcOK
<1>10. CASE IpcFirstConstraints \/ IpcStopMonitor \/ IpcMonitorStopped \/ IpcInterrupt \/ IpcExits \/ IpcMainFails \/ IpcAnswerFails
  <2>1. /\ UNCHANGED <<monitor, draft, base, prev>> /\ main # "sending"
        /\ \/ main = "await" /\ main' = "create"
           \/ main = "serve" /\ main' = "join"
           \/ main = "join" /\ monitor = "over" /\ main' = "create"
           \/ main' = "over" /\ main # "await"
           \/ main' = "over" /\ main = "await"
    BY <1>10 DEF Ipc, IpcFirstConstraints, IpcStopMonitor, IpcMonitorStopped, IpcInterrupt, IpcExits, IpcMainFails, IpcAnswerFails
  <2> QED BY <1>2, <1>8, <2>1 DEF IpcOK
<1>11. CASE IpcCreateNewBlock
  <2>1. /\ UNCHANGED <<monitor, base, prev, tip, applied>> /\ main = "create" /\ main' = "fetch" /\ monitor # "sending"
        /\ nextId <= setup.templates /\ nextId' = nextId + 1 /\ draft' = [draft EXCEPT !.main = Made(tip, applied)]
    BY <1>11 DEF Ipc, IpcCreateNewBlock
  <2>2. sent # <<>> => Last(sent).t.under <= applied BY <1>6 DEF Bounded
  <2>3. Ahead(Made(tip, applied)) BY <1>5, <2>1, <2>2, MadeNow
  <2>4. draft'.main = Made(tip, applied) /\ draft'.monitor = draft.monitor BY <1>3, <2>1
  <2>5. Made(tip, applied).id < nextId' BY <1>5, <2>1 DEF Made
  <2>6. Newer(draft.main)' BY <1>2, <2>1, <2>3, <2>4, <2>5 DEF Newer, Ahead
  <2> QED BY <1>2, <1>8, <2>1, <2>4, <2>6 DEF IpcOK
<1>12. CASE IpcWaitNext
  <2>1. /\ UNCHANGED <<main, base, prev, tip, applied>> /\ monitor = "wait" /\ monitor' = "fetch" /\ main # "sending"
        /\ nextId <= setup.templates /\ nextId' = nextId + 1 /\ draft' = [draft EXCEPT !.monitor = Made(tip, base.under)]
    BY <1>12 DEF Ipc, IpcWaitNext
  <2>2. sent # <<>> /\ base.under = Last(sent).t.under BY <2>1 DEF IpcOK
  <2>3. Last(sent).t.under <= applied /\ Last(sent).t.under \in Nat BY <1>6, <2>2, Facts DEF Bounded
  <2>4. base.under \in 0..applied BY <1>5, <2>2, <2>3
  <2>5. Ahead(Made(tip, base.under)) BY <1>5, <2>1, <2>2, <2>3, <2>4, MadeNow
  <2>6. draft'.monitor = Made(tip, base.under) /\ draft'.main = draft.main BY <1>3, <2>1
  <2>7. Made(tip, base.under).id < nextId' BY <1>5, <2>1 DEF Made
  <2>8. Newer(draft.monitor)' BY <1>2, <2>1, <2>5, <2>6, <2>7 DEF Newer, Ahead
  <2> QED BY <1>2, <1>7, <2>1, <2>2, <2>6, <2>8 DEF IpcOK
<1>13. CASE IpcRequest \/ IpcAnswer
  <2>1. /\ UNCHANGED <<monitor, base, prev>> /\ main \in {"serve", "answer"} /\ main' \in {"serve", "answer"}
    BY <1>13 DEF IpcRequest, IpcAnswer
  <2>2. draft'.monitor = draft.monitor BY <1>3, <1>13 DEF IpcRequest, IpcAnswer
  <2> QED BY <1>2, <1>8, <2>1, <2>2 DEF IpcOK
<1>14. CASE IpcWait \/ IpcMonitorExits \/ IpcMonitorFails
  <2>1. /\ UNCHANGED <<main, draft, base, prev>>
        /\ \/ monitor = "start" /\ monitor' = "wait"
           \/ monitor \in {"start", "wait", "fetch"} /\ monitor' = "over"
    BY <1>14 DEF IpcWait, IpcMonitorExits, IpcMonitorFails
  <2> QED BY <1>2, <1>7, <2>1 DEF IpcOK
<1>15. CASE RpcConstraints \/ RpcRequest \/ RpcSolution \/ RpcExits \/ RpcFirstFails \/ RpcRefreshFails \/ RpcPollFails
  BY <1>15 DEF Rpc, RpcConstraints, RpcRequest, RpcSolution, RpcExits, RpcFirstFails, RpcRefreshFails, RpcPollFails
<1>16. CASE Sv2Start \/ Sv2Ask \/ Sv2Exits \/ Sv2StartFails \/ Sv2Disconnected
  BY <1>16 DEF Sv2, Sv2Start, Sv2Connect, Sv2SetupConnection, Sv2Retry, Sv2Ask, Sv2Exits, Sv2StartFails, Sv2ConnectFails,
     Sv2SetupFails, Sv2Disconnected
<1> QED BY <1>9, <1>10, <1>11, <1>12, <1>13, <1>14, <1>15, <1>16 DEF QuietStep, Failures

\* What a step that sends a message knows afterwards.
LEMMA AfterSending ==
    ASSUME Counters, Bounded, NEW m, Sends(m)
    PROVE  /\ sent' # <<>> /\ Last(sent') = m /\ wire' = <<>> /\ (Owed' <=> IsOwing(m)) /\ setup' = setup
           /\ (Announced' = IF m.kind = "prevhash" THEN m.t.tip ELSE Announced)
<1>1. setup \in Setups /\ Orderly(sent) /\ m \in Messages /\ Continues(sent, m) BY DEF Counters, Bounded, Sends
<1>2. sent' = Append(sent, m) /\ wire' = <<>> /\ setup' = setup BY DEF Sends
<1>3. sent \in Seq(Messages) BY <1>1 DEF Orderly
<1>4. sent' # <<>> BY <1>1, <1>2, <1>3
<1>5. Last(sent') = m BY <1>1, <1>2, LogGrows
<1>6. Owed' <=> IsOwing(m) BY <1>1, <1>2, LogGrows DEF Owed
<1>7. Announced' = IF m.kind = "prevhash" THEN m.t.tip ELSE Announced BY <1>1, <1>2, LogGrows DEF Announced
<1> QED BY <1>2, <1>4, <1>5, <1>6, <1>7

\* What a message is about.
LEMMA MessageFields ==
    ASSUME NEW t, NEW future \in BOOLEAN
    PROVE  /\ NewTemplate(t, future).kind = "template" /\ NewTemplate(t, future).t = t
           /\ NewTemplate(t, future).future = future /\ (IsOwing(NewTemplate(t, future)) <=> future)
           /\ PrevHash(t).kind = "prevhash" /\ PrevHash(t).t = t /\ ~IsOwing(PrevHash(t))
  BY DEF NewTemplate, PrevHash, IsOwing

\* The tasks of the IPC provider, when one of them sends.
LEMMA IpcSending ==
    ASSUME Counters, Requests, Bounded, TasksOK, setup.provider = "ipc", SendingStep PROVE IpcOK'
<1>1. IpcOK BY DEF TasksOK
<1>2. draft.main \in Templates /\ draft.monitor \in Templates /\ draft \in [{"main", "monitor"} -> Templates] BY DEF Counters
<1> USE DEF node, inputs, ending, tasks, client, retention, net
<1>3. CASE IpcPublishFirst
  <2> DEFINE m == NewTemplate(draft.main, TRUE)
  <2>1. Sends(m) BY <1>3, IpcSends
  <2>2. sent' # <<>> /\ Last(sent') = m /\ wire' = <<>> /\ (Owed' <=> IsOwing(m)) BY <2>1, AfterSending
  <2>3. m.t = draft.main /\ IsOwing(m) BY MessageFields
  <2>4. /\ UNCHANGED <<monitor, draft, base>> /\ prev' = draft.main.tip /\ main = "fetch" /\ main' = "sending"
    BY <1>3 DEF IpcPublishFirst
  <2> HIDE DEF m
  <2> QED BY <1>1, <2>2, <2>3, <2>4 DEF IpcOK
<1>4. CASE IpcSpawnMonitor
  <2> DEFINE m == PrevHash(draft.main)
  <2>1. Sends(m) /\ draft.main = Last(sent).t BY <1>4, IpcSends
  <2>2. sent' # <<>> /\ Last(sent') = m /\ wire' = <<>> /\ (Owed' <=> IsOwing(m)) BY <2>1, AfterSending
  <2>3. m.t = draft.main /\ ~IsOwing(m) BY MessageFields
  <2>4. /\ prev' = prev /\ base' = draft.main /\ main = "sending" /\ main' = "serve" /\ monitor' = "start"
    BY <1>4 DEF IpcSpawnMonitor
  <2>5. sent # <<>> BY <1>1, <2>4 DEF IpcOK, Owed, Owes
  <2> HIDE DEF m
  <2> QED BY <1>1, <2>1, <2>2, <2>3, <2>4, <2>5 DEF IpcOK
<1>5. CASE IpcPublishTip
  <2> DEFINE m == NewTemplate(draft.monitor, TRUE)
  <2>1. Sends(m) BY <1>5, IpcSends
  <2>2. sent' # <<>> /\ Last(sent') = m /\ wire' = <<>> /\ (Owed' <=> IsOwing(m)) BY <2>1, AfterSending
  <2>3. m.t = draft.monitor /\ IsOwing(m) BY MessageFields
  <2>4. /\ UNCHANGED <<main, draft, base>> /\ prev' = draft.monitor.tip /\ monitor = "fetch" /\ monitor' = "sending"
        /\ main # "sending"
    BY <1>5 DEF IpcPublishTip, Ipc
  <2> HIDE DEF m
  <2> QED BY <1>1, <2>2, <2>3, <2>4 DEF IpcOK
<1>6. CASE IpcPublishTipPrevHash
  <2> DEFINE m == PrevHash(draft.monitor)
  <2>1. Sends(m) /\ draft.monitor = Last(sent).t BY <1>6, IpcSends
  <2>2. sent' # <<>> /\ Last(sent') = m /\ wire' = <<>> /\ (Owed' <=> IsOwing(m)) BY <2>1, AfterSending
  <2>3. m.t = draft.monitor /\ ~IsOwing(m) BY MessageFields
  <2>4. /\ UNCHANGED <<main, prev>> /\ base' = draft.monitor /\ monitor = "sending" /\ monitor' = "wait"
    BY <1>6 DEF IpcPublishTipPrevHash
  <2>5. sent # <<>> /\ main \notin {"await", "create", "fetch", "sending"} BY <1>1, <2>4 DEF IpcOK
  <2> HIDE DEF m
  <2> QED BY <1>1, <2>1, <2>2, <2>3, <2>4, <2>5 DEF IpcOK
<1>7. CASE IpcPublishFees
  <2> DEFINE m == NewTemplate(draft.monitor, FALSE)
  <2>1. Sends(m) BY <1>7, IpcSends
  <2>2. sent' # <<>> /\ Last(sent') = m /\ wire' = <<>> /\ (Owed' <=> IsOwing(m)) BY <2>1, AfterSending
  <2>3. m.t = draft.monitor /\ ~IsOwing(m) BY MessageFields
  <2>4. /\ UNCHANGED <<main, prev>> /\ base' = draft.monitor /\ monitor = "fetch" /\ monitor' = "wait"
        /\ draft.monitor.tip = prev /\ main # "sending"
    BY <1>7 DEF IpcPublishFees, Ipc
  <2>5. main \notin {"await", "create", "fetch", "sending"} BY <1>1, <2>4 DEF IpcOK
  <2> HIDE DEF m
  <2> QED BY <1>1, <2>2, <2>3, <2>4, <2>5 DEF IpcOK
<1>8. CASE RpcRefresh \/ RpcSetNewPrevHash \/ RpcNewTip \/ RpcSameTip
  BY <1>8 DEF Rpc, RpcRefresh, RpcSetNewPrevHash, RpcNewTip, RpcSameTip
<1> QED BY <1>3, <1>4, <1>5, <1>6, <1>7, <1>8 DEF SendingStep

\* The RPC provider.
LEMMA RpcTasks ==
    ASSUME Counters, Requests, Bounded, TasksOK, setup.provider = "rpc", QuietStep \/ SendingStep PROVE RpcOK'
<1>1. RpcOK BY DEF TasksOK
<1>2. draft \in [{"main", "monitor"} -> Templates] BY DEF Counters
<1> USE DEF node, inputs, ending, tasks, client, retention, net
<1>3. CASE QuietStep
  <2>1. sent' = sent /\ wire' = wire /\ (Owed' <=> Owed) BY <1>3, QuietSteps, AfterQuiet
  <2>2. CASE Environment
    <3>1. UNCHANGED <<main, monitor, draft, prev>>
      BY <2>2 DEF Environment, NewBlock, SendConstraints, Cancel, IntervalPasses, SendAsk
    <3> QED BY <1>1, <2>1, <3>1 DEF RpcOK
  <2>3. CASE RpcConstraints \/ RpcRequest \/ RpcSolution \/ RpcExits
    <3>1. /\ UNCHANGED <<monitor, draft, prev>> /\ main \in {"await", "poll"}
          /\ main' \in {main, "first", "refresh", "over"}
      BY <2>3 DEF RpcConstraints, RpcRequest, RpcSolution, Solution, RpcExits
    <3>2. main' \in {"refresh", "poll"} => main = "poll"
      BY <2>3 DEF RpcConstraints, RpcRequest, RpcSolution, Solution, RpcExits
    <3> QED BY <1>1, <2>1, <3>1, <3>2 DEF RpcOK
  <2>4. CASE RpcFirstFails \/ RpcRefreshFails \/ RpcPollFails
    <3>1. UNCHANGED <<monitor, draft, prev>> /\ main \in {"first", "refresh", "poll"} /\ main' \in {"await", "poll"}
      BY <2>4 DEF RpcFirstFails, RpcRefreshFails, RpcPollFails
    <3>2. main' = "poll" => main \in {"refresh", "poll"}
      BY <2>4 DEF RpcFirstFails, RpcRefreshFails, RpcPollFails
    <3> QED BY <1>1, <2>1, <3>1, <3>2 DEF RpcOK
  <2>5. CASE IpcFirstConstraints \/ IpcStopMonitor \/ IpcMonitorStopped \/ IpcCreateNewBlock \/ IpcInterrupt \/ IpcRequest
             \/ IpcAnswer \/ IpcSolution \/ IpcExits \/ IpcWait \/ IpcWaitNext \/ IpcMonitorExits \/ IpcForget \/ IpcDestroy
             \/ IpcMainFails \/ IpcMonitorFails \/ IpcAnswerFails
    BY <2>5 DEF Ipc, IpcFirstConstraints, IpcStopMonitor, IpcMonitorStopped, IpcCreateNewBlock, IpcInterrupt, IpcRequest,
       IpcAnswer, IpcSolution, IpcExits, IpcWait, IpcWaitNext, IpcMonitorExits, IpcForget, IpcDestroy, IpcMainFails,
       IpcMonitorFails, IpcAnswerFails
  <2>6. CASE Sv2Start \/ Sv2Ask \/ Sv2Exits \/ Sv2StartFails \/ Sv2Disconnected
    BY <2>6 DEF Sv2, Sv2Start, Sv2Connect, Sv2SetupConnection, Sv2Retry, Sv2Ask, Sv2Exits, Sv2StartFails, Sv2ConnectFails,
       Sv2SetupFails, Sv2Disconnected
  <2> QED BY <1>3, <2>2, <2>3, <2>4, <2>5, <2>6 DEF QuietStep, Failures
<1>4. CASE RpcRefresh \/ RpcNewTip
  <2> DEFINE m == NewTemplate(Made(tip, applied), TRUE)
  <2>1. Sends(m) BY <1>4, RpcSends
  <2>2. sent' # <<>> /\ Last(sent') = m /\ wire' = <<>> /\ (Owed' <=> IsOwing(m)) BY <2>1, AfterSending
  <2>3. m.t = Made(tip, applied) /\ IsOwing(m) BY MessageFields
  <2>4. /\ UNCHANGED monitor /\ main' = "publish" /\ draft' = [draft EXCEPT !.main = Made(tip, applied)]
    BY <1>4 DEF RpcRefresh, RpcNewTip, RpcPublish
  <2>5. draft'.main = Made(tip, applied) BY <1>2, <2>4
  <2> HIDE DEF m
  <2> QED BY <1>1, <2>2, <2>3, <2>4, <2>5 DEF RpcOK
<1>5. CASE RpcSameTip
  <2> DEFINE m == NewTemplate(Made(tip, applied), FALSE)
  <2>1. Sends(m) BY <1>5, RpcSends
  <2>2. sent' # <<>> /\ Last(sent') = m /\ wire' = <<>> /\ (Owed' <=> IsOwing(m)) BY <2>1, AfterSending
  <2>3. m.t = Made(tip, applied) /\ ~IsOwing(m) /\ Made(tip, applied).tip = tip BY MessageFields DEF Made
  <2>4. /\ UNCHANGED <<monitor, main, prev>> /\ main = "poll" /\ tip = prev BY <1>5 DEF RpcSameTip
  <2> HIDE DEF m
  <2> QED BY <1>1, <2>2, <2>3, <2>4 DEF RpcOK
<1>6. CASE RpcSetNewPrevHash
  <2> DEFINE m == PrevHash(draft.main)
  <2>1. Sends(m) BY <1>6, RpcSends
  <2>2. sent' # <<>> /\ Last(sent') = m /\ wire' = <<>> /\ (Owed' <=> IsOwing(m)) BY <2>1, AfterSending
  <2>3. m.t = draft.main /\ ~IsOwing(m) BY MessageFields
  <2>4. UNCHANGED monitor /\ main' = "poll" /\ prev' = draft.main.tip BY <1>6 DEF RpcSetNewPrevHash
  <2> HIDE DEF m
  <2> QED BY <1>1, <2>2, <2>3, <2>4 DEF RpcOK
<1>7. CASE IpcPublishFirst \/ IpcSpawnMonitor \/ IpcPublishTip \/ IpcPublishTipPrevHash \/ IpcPublishFees
  BY <1>7 DEF Ipc, IpcPublishFirst, IpcSpawnMonitor, IpcPublishTip, IpcPublishTipPrevHash, IpcPublishFees
<1> QED BY <1>3, <1>4, <1>5, <1>6, <1>7 DEF SendingStep

\* Every step leaves the tasks knowing what was sent.
LEMMA TasksStep ==
    ASSUME Counters, Requests, Bounded, TasksOK, Next PROVE TasksOK'
<1>1. setup' = setup
  <2>1. CASE QuietStep \/ SendingStep BY <2>1, QuietSteps, SendingSteps DEF Quiet, Sends
  <2>2. CASE Tp \/ Sv2Forward BY <2>2 DEF Tp, TpPrevHash, TpTemplate, Sv2Forward, node
  <2> QED BY <2>1, <2>2, StepKinds
<1>2. setup.provider = "sv2" \/ ~(Tp \/ Sv2Forward) BY DEF Tp, TpPrevHash, TpTemplate, Sv2Forward, Sv2
<1>3. ASSUME setup.provider = "ipc" PROVE IpcOK'
  BY <1>2, <1>3, StepKinds, IpcQuiet, IpcSending DEF TasksOK
<1>4. ASSUME setup.provider = "rpc" PROVE RpcOK' BY <1>2, <1>4, StepKinds, RpcTasks
<1>5. ASSUME setup.provider = "sv2" PROVE Sv2OK'
  <2>1. Sv2OK BY <1>5 DEF TasksOK
  <2>2. monitor' = monitor /\ main' \in {main, "setup", "forward", "over"}
    <3> USE <1>5 DEF Ipc, Rpc, Sv2, node, inputs, ending, tasks, client, retention, net
    <3>1. CASE Environment
      BY <3>1 DEF Environment, NewBlock, SendConstraints, Cancel, IntervalPasses, SendAsk
    <3>2. CASE IpcMain
      BY <3>2 DEF IpcMain, IpcFirstConstraints, IpcStopMonitor, IpcMonitorStopped, IpcCreateNewBlock, IpcInterrupt,
         IpcPublishFirst, IpcSpawnMonitor, IpcRequest, IpcAnswer, IpcSolution, IpcExits
    <3>3. CASE IpcMonitor \/ IpcForget \/ IpcDestroy
      BY <3>3 DEF IpcMonitor, IpcWait, IpcWaitNext, IpcMonitorExits, IpcPublishTip, IpcPublishTipPrevHash, IpcPublishFees,
         IpcForget, IpcDestroy
    <3>4. CASE RpcSteps
      BY <3>4 DEF RpcSteps, RpcConstraints, RpcRefresh, RpcSetNewPrevHash, RpcNewTip, RpcSameTip, RpcRequest, RpcSolution, RpcExits
    <3>5. CASE Sv2Start \/ Sv2Loop \/ Tp
      BY <3>5 DEF Sv2Start, Sv2Connect, Sv2SetupConnection, Sv2Retry, Sv2Loop, Sv2Forward, Sv2Ask, Sv2Exits, Tp, TpPrevHash,
         TpTemplate
    <3>6. CASE Failures
      BY <3>6 DEF Failures, IpcMainFails, IpcMonitorFails, IpcAnswerFails, RpcFirstFails, RpcRefreshFails, RpcPollFails,
         Sv2StartFails, Sv2ConnectFails, Sv2SetupFails, Sv2Disconnected, Sv2Fails
    <3> QED BY <3>1, <3>2, <3>3, <3>4, <3>5, <3>6 DEF Next
  <2> QED BY <2>1, <2>2 DEF Sv2OK
<1> QED BY <1>1, <1>3, <1>4, <1>5 DEF TasksOK
-----------------------------------------------------------------------------
(* What is kept. *)

\* The announced tip is the one of the last message, unless its prevhash is due.
LEMMA AnnouncedFacts ==
    ASSUME Counters, Requests, Bounded
    PROVE  /\ Announced \in Nat
           /\ sent # <<>> => Announced <= Last(sent).t.tip /\ (~Owed => Announced = Last(sent).t.tip)
<1>1. Orderly(sent) /\ setup \in Setups BY DEF Bounded, Counters
<1>2. sent # <<>> => Announced <= Last(sent).t.tip /\ (~Owed => Announced = Last(sent).t.tip)
  BY <1>1 DEF Orderly, Summarised, Announced, Owed
<1>3. Announced \in Nat
  <2>1. CASE Places(sent, "prevhash") = {} BY <2>1 DEF Announced, LastOf, None
  <2>2. CASE Places(sent, "prevhash") # {}
    <3> DEFINE p == Max(Places(sent, "prevhash"))
    <3>1. p \in Places(sent, "prevhash") BY <1>1, <2>2 DEF Orderly
    <3> HIDE DEF p
    <3>2. p \in DOMAIN sent /\ sent \in Seq(Messages) BY <1>1, <3>1 DEF Places, Orderly
    <3>3. sent[p] \in Messages BY <3>2
    <3>4. sent[p].t.tip \in Nat BY <1>1, <3>3, Typed
    <3> QED BY <2>2, <3>4 DEF Announced, LastOf, p
  <2> QED BY <2>1, <2>2
<1> QED BY <1>2, <1>3

\* A message never takes the announced tip back, and a template is new.
LEMMA AnnouncedGrows ==
    ASSUME Counters, Requests, Bounded, NEW m, Sends(m)
    PROVE  /\ Announced' \in Nat /\ Announced <= Announced'
           /\ m.kind = "prevhash" => m.t = Last(sent).t /\ Published' = Published
           /\ m.kind = "template" => /\ Published' = Published \cup {m.t}
                                     /\ \A u \in Published : u.id < m.t.id /\ u.tip <= m.t.tip
<1>1. setup \in Setups /\ Orderly(sent) /\ m \in Messages /\ Continues(sent, m) /\ sent' = Append(sent, m)
  BY DEF Counters, Bounded, Sends
<1>2. m.kind = "prevhash" => sent # <<>> /\ m.t = Last(sent).t BY <1>1 DEF Continues, Follows, IsOwing
<1>3. Announced' = IF m.kind = "prevhash" THEN m.t.tip ELSE Announced BY AfterSending
<1>4. m.t.tip \in Nat BY <1>1, Typed
<1>5. Announced' \in Nat /\ Announced <= Announced'
  <2>1. Announced \in Nat /\ (sent # <<>> => Announced <= Last(sent).t.tip) BY AnnouncedFacts
  <2> QED BY <1>2, <1>3, <1>4, <2>1
<1>6. m.kind = "prevhash" => Published' = Published BY <1>1, PublishedGrows
<1>7. m.kind = "template" => Published' = Published \cup {m.t} BY <1>1, PublishedGrows
<1>8. ASSUME m.kind = "template", NEW u \in Published PROVE u.id < m.t.id /\ u.tip <= m.t.tip
  <2>1. u \in Templates /\ sent # <<>> /\ u.id <= Last(sent).t.id /\ u.tip <= Last(sent).t.tip BY <1>1, PublishedFacts
  <2>2. Last(sent).t.id < m.t.id /\ Last(sent).t.tip <= m.t.tip BY <1>1, <1>8, <2>1 DEF Continues, Follows, IsOwing
  <2>3. u.id \in Nat /\ u.tip \in Nat /\ Last(sent).t.id \in Nat /\ Last(sent).t.tip \in Nat /\ m.t.id \in Nat
    <3>1. u.id \in Nat /\ u.tip \in Nat BY <2>1 DEF Templates
    <3>2. Last(sent).t.id \in Nat /\ Last(sent).t.tip \in Nat BY <2>1, Facts
    <3>3. m.t.id \in Nat BY <1>1, Typed
    <3> QED BY <3>1, <3>2, <3>3
  <2>4. u.id < m.t.id BY <2>1, <2>2, <2>3
  <2>5. u.tip <= m.t.tip BY <1>4, <2>1, <2>2, <2>3
  <2> QED BY <2>4, <2>5
<1> QED BY <1>2, <1>5, <1>6, <1>7, <1>8

\* A template that is not kept stays published.
LEMMA KeptStays ==
    ASSUME Kept, Published \subseteq Published', UNCHANGED <<retention, lost>> PROVE Kept'
<1>1. PublishedIds \subseteq PublishedIds' BY DEF PublishedIds
<1> QED BY <1>1 DEF Kept, retention

\* The solution of a template that is no longer kept.
LEMMA SolutionOfUnkept ==
    ASSUME Counters, Requests, Bounded, Solution
    PROVE  \/ lost' = lost
           \/ \E t \in Published : t \notin data /\ lost' = lost \cup {t}
<1>1. Receive("solution") /\ lost' = IF Stored(Message) THEN lost ELSE lost \cup {TemplateOf(Message)} BY DEF Solution
<1>2. \E t \in Published : t.id = Message BY <1>1, Taken
<1>3. TemplateOf(Message) \in Published /\ TemplateOf(Message).id = Message BY <1>2 DEF TemplateOf
<1>4. ~Stored(Message) => TemplateOf(Message) \notin data BY <1>3 DEF Stored
<1> QED BY <1>1, <1>3, <1>4

\* Published templates have ids and tips of the model.
LEMMA PublishedInBounds == ASSUME Counters, Bounded PROVE \A t \in Published : t.id \in Ids /\ t.tip \in 1..MaxTips
<1>1. sent \in Seq(Messages) /\ wire \in Seq(Messages) /\ Len(sent) \in Nat /\ Len(wire) \in Nat /\ DOMAIN sent = 1..Len(sent)
  BY DEF Bounded, Orderly
<1>2. /\ Len(Log) = Len(sent) + Len(wire)
      /\ \A i \in 1..(Len(sent) + Len(wire)) : Log[i] = IF i <= Len(sent) THEN sent[i] ELSE wire[i - Len(sent)]
  BY <1>1, ConcatProperties DEF Log
<1>3. ASSUME NEW i \in DOMAIN sent PROVE sent[i].t.id \in Ids /\ sent[i].t.tip \in 1..MaxTips
  <2>1. i \in 1..Len(Log) /\ Log[i] = sent[i] BY <1>1, <1>2
  <2> QED BY <2>1 DEF Bounded
<1> QED BY <1>3 DEF Published

\* Core's templates are given up only when a newer tip was announced.
LEMMA IpcRetention ==
    ASSUME ProvidersInv, setup.provider = "ipc", Next PROVE Kept' /\ IpcKept'
<1>1. Counters /\ Requests /\ Bounded /\ TasksOK /\ Kept /\ IpcKept /\ IpcOK BY DEF ProvidersInv, RetentionOK, TasksOK
<1>2. Published \subseteq Published' /\ PublishedIds \subseteq PublishedIds' BY <1>1, PublishedStays DEF PublishedIds
<1>3. Announced \in Nat /\ (sent # <<>> => (~Owed => Announced = Last(sent).t.tip)) BY <1>1, AnnouncedFacts
<1>4. /\ \A t \in Published : t \in Templates /\ t.id \in Nat /\ t.tip \in Nat /\ sent # <<>>
      /\ \A t, u \in Published : t.id = u.id => t = u
  <2>1. /\ \A t \in Published : t \in Templates /\ sent # <<>>
        /\ \A t, u \in Published : t.id = u.id => t = u
    BY <1>1, PublishedFacts DEF Counters, Bounded
  <2> QED BY <2>1 DEF Templates
<1> USE DEF node, inputs, ending, tasks, client, retention, net
<1>5. CASE QuietStep
  <2>1. sent' = sent BY <1>1, <1>5, QuietSteps DEF Quiet
  <2>2. Published' = Published /\ Announced' = Announced /\ PublishedIds' = PublishedIds BY <2>1 DEF Published, Announced, PublishedIds
  <2>3. ASSUME UNCHANGED <<retention, lost>>, main' = "answer" => draft'.main.id \in PublishedIds PROVE Kept' /\ IpcKept'
    <3>1. Kept' BY <1>1, <1>2, <2>3, KeptStays
    <3>2. IpcKept' BY <1>1, <2>1, <2>2, <2>3 DEF IpcKept, Old
    <3> QED BY <3>1, <3>2
  <2>4. CASE Environment
    <3>1. UNCHANGED <<retention, lost, main, draft>>
      BY <2>4 DEF Environment, NewBlock, SendConstraints, Cancel, IntervalPasses, SendAsk
    <3> QED BY <1>1, <2>3, <3>1 DEF IpcKept
  <2>5. CASE IpcFirstConstraints \/ IpcStopMonitor \/ IpcMonitorStopped \/ IpcCreateNewBlock \/ IpcInterrupt \/ IpcAnswer \/ IpcExits
    <3>1. UNCHANGED <<retention, lost>> /\ main' # "answer"
      BY <2>5 DEF IpcFirstConstraints, IpcStopMonitor, IpcMonitorStopped, IpcCreateNewBlock, IpcInterrupt, IpcAnswer, IpcExits
    <3> QED BY <2>3, <3>1
  <2>6. CASE IpcWait \/ IpcMonitorExits \/ IpcMonitorFails
    <3>1. UNCHANGED <<retention, lost, main, draft>> BY <2>6 DEF IpcWait, IpcMonitorExits, IpcMonitorFails
    <3> QED BY <1>1, <2>3, <3>1 DEF IpcKept
  <2>7. CASE IpcWaitNext
    <3>1. UNCHANGED <<retention, lost, main>> /\ draft' = [draft EXCEPT !.monitor = Made(tip, base.under)] BY <2>7 DEF IpcWaitNext
    <3>2. draft'.main = draft.main BY <1>1, <3>1 DEF Counters
    <3> QED BY <1>1, <2>3, <3>1, <3>2 DEF IpcKept
  <2>8. CASE IpcMainFails \/ IpcAnswerFails
    <3>1. UNCHANGED <<retention, lost>> /\ main' # "answer" BY <2>8 DEF IpcMainFails, IpcAnswerFails
    <3> QED BY <2>3, <3>1
  <2>9. CASE IpcRequest
    <3>1. UNCHANGED <<retention, lost>> /\ Receive("request") /\ main = "serve" BY <2>9 DEF IpcRequest
    <3>2. \E t \in Published : t.id = Message BY <1>1, <3>1, Taken
    <3>3. main' = "answer" => draft' = [draft EXCEPT !.main.id = Message] BY <2>9, <3>1 DEF IpcRequest
    <3>4. draft \in [{"main", "monitor"} -> Templates] /\ draft.main \in Templates BY <1>1 DEF Counters
    <3>5. main' = "answer" => draft'.main.id = Message BY <3>3, <3>4 DEF Templates
    <3> QED BY <2>3, <3>1, <3>2, <3>5 DEF PublishedIds
  <2>10. CASE IpcSolution
    <3>1. UNCHANGED <<retention, main, draft>> /\ Solution BY <2>10 DEF IpcSolution, Solution
    <3>2. \/ lost' = lost
          \/ \E t \in Published : t \notin data /\ lost' = lost \cup {t}
      BY <1>1, <3>1, SolutionOfUnkept
    <3>3. Kept' BY <1>1, <2>2, <3>1, <3>2 DEF Kept
    <3>4. IpcKept' BY <1>1, <2>1, <2>2, <3>1, <3>2 DEF IpcKept, Old
    <3> QED BY <3>3, <3>4
  <2>11. CASE IpcDestroy
    <3>1. /\ UNCHANGED <<data, staleIds, doomed, lost, main, draft>> /\ destroyed' = destroyed \cup dying /\ dying' = {}
      BY <2>11 DEF IpcDestroy
    <3>2. Kept' BY <1>1, <2>2, <3>1 DEF Kept
    <3>3. IpcKept' BY <1>1, <2>1, <2>2, <3>1 DEF IpcKept, Old
    <3> QED BY <3>2, <3>3
  <2>12. CASE IpcForget
    <3>1. /\ UNCHANGED <<destroyed, lost, main, draft>> /\ doomed # <<>> /\ doomed' = Tail(doomed) /\ staleIds' = Head(doomed)
          /\ data' = {t \in data : t.id \notin Head(doomed)} /\ dying' = dying \cup {t.id : t \in data \ data'}
          /\ main # "sending" /\ monitor # "sending"
      BY <2>12 DEF IpcForget, Ipc
    <3>2. /\ doomed \in Seq(SUBSET Ids) /\ Head(doomed) \in SUBSET Ids /\ Tail(doomed) \in Seq(SUBSET Ids)
          /\ Head(doomed) = doomed[1] /\ 1 \in 1..Len(doomed)
          /\ \A i \in 1..Len(Tail(doomed)) : i + 1 \in 1..Len(doomed) /\ Tail(doomed)[i] = doomed[i + 1]
      BY <1>1, <3>1 DEF Kept
    <3>3. ~Owed BY <1>1, <3>1 DEF IpcOK
    <3>4. ASSUME NEW t \in Published, t.id \in Head(doomed) PROVE Old(t)
      <4>1. t.tip < Last(sent).t.tip BY <1>1, <3>2, <3>4 DEF IpcKept
      <4> QED BY <1>3, <1>4, <3>3, <4>1 DEF Old
    <3>5. ASSUME NEW t \in Published, t \notin data' \/ t.id \in dying' PROVE Old(t)
      <4>1. CASE t.id \in Head(doomed) BY <3>4, <4>1
      <4>2. CASE t \notin data \/ t.id \in dying BY <1>1, <4>2 DEF IpcKept
      <4>3. ASSUME NEW u \in data \ data', t.id = u.id PROVE t.id \in Head(doomed) BY <3>1, <4>3
      <4> QED BY <3>1, <3>5, <4>1, <4>2, <4>3
    <3>6. dying' \subseteq PublishedIds BY <1>1, <3>1 DEF Kept, PublishedIds
    <3>7. Kept' BY <1>1, <2>2, <3>1, <3>2, <3>6 DEF Kept
    <3>8. IpcKept'
      <4>1. \A t \in Published : t \notin data' \/ t \in lost' \/ t.id \in dying' \cup destroyed' => Old(t)
        BY <1>1, <3>1, <3>5 DEF IpcKept
      <4>2. \A t \in Published : \A i \in 1..Len(doomed') : t.id \in doomed'[i] => t.tip < Last(sent).t.tip
        BY <1>1, <3>1, <3>2 DEF IpcKept
      <4> QED BY <1>1, <2>1, <2>2, <3>1, <4>1, <4>2 DEF IpcKept, Old
    <3> QED BY <3>7, <3>8
  <2>13. CASE RpcConstraints \/ RpcRequest \/ RpcSolution \/ RpcExits \/ RpcFirstFails \/ RpcRefreshFails \/ RpcPollFails
    BY <2>13 DEF Rpc, RpcConstraints, RpcRequest, RpcSolution, RpcExits, RpcFirstFails, RpcRefreshFails, RpcPollFails
  <2>14. CASE Sv2Start \/ Sv2Ask \/ Sv2Exits \/ Sv2StartFails \/ Sv2Disconnected
    BY <2>14 DEF Sv2, Sv2Start, Sv2Connect, Sv2SetupConnection, Sv2Retry, Sv2Ask, Sv2Exits, Sv2StartFails, Sv2ConnectFails,
       Sv2SetupFails, Sv2Disconnected
  <2> QED BY <1>5, <2>4, <2>5, <2>6, <2>7, <2>8, <2>9, <2>10, <2>11, <2>12, <2>13, <2>14 DEF QuietStep, Failures
\* A prevhash is sent: the templates of older tips may go.
<1>6. CASE IpcSpawnMonitor \/ IpcPublishTipPrevHash
  <2>1. PICK m : Sends(m) /\ m.kind = "prevhash"
    <3>1. Sends(PrevHash(draft.main)) \/ Sends(PrevHash(draft.monitor)) BY <1>1, <1>6, IpcSends
    <3>2. PrevHash(draft.main).kind = "prevhash" /\ PrevHash(draft.monitor).kind = "prevhash" BY DEF PrevHash
    <3> QED BY <3>1, <3>2
  <2>2. /\ Announced' \in Nat /\ Announced <= Announced' /\ m.t = Last(sent).t /\ Published' = Published
        /\ Last(sent') = m
    BY <1>1, <2>1, AnnouncedGrows, AfterSending
  <2>3. UNCHANGED <<retention, lost>> BY <1>6 DEF IpcSpawnMonitor, IpcPublishTipPrevHash
  <2>4. main' = "answer" => main = "answer" /\ draft'.main = draft.main
    <3>1. draft \in [{"main", "monitor"} -> Templates] BY <1>1 DEF Counters
    <3> QED BY <1>6, <3>1 DEF IpcSpawnMonitor, IpcPublishTipPrevHash
  <2>5. Kept' BY <1>1, <1>2, <2>3, KeptStays
  <2>6. \A t \in Published : Old(t) => t.tip < Announced' BY <1>3, <1>4, <2>2 DEF Old
  <2>7. IpcKept' BY <1>1, <1>2, <2>2, <2>3, <2>4, <2>6 DEF IpcKept, Old
  <2> QED BY <2>5, <2>7
\* A template is sent: it is kept.
<1>7. CASE IpcPublishFirst \/ IpcPublishFees \/ IpcPublishTip
  <2>1. PICK m : Sends(m) /\ m.kind = "template" /\ data' = data \cup {m.t}
    <3>1. \A t : \A future \in BOOLEAN : NewTemplate(t, future).kind = "template" /\ NewTemplate(t, future).t = t BY MessageFields
    <3>2. CASE IpcPublishFirst
      <4>1. Sends(NewTemplate(draft.main, TRUE)) BY <1>1, <3>2, IpcSends
      <4>2. data' = data \cup {draft.main} BY <3>2 DEF IpcPublishFirst, Publish
      <4> QED BY <3>1, <4>1, <4>2
    <3>3. CASE IpcPublishFees \/ IpcPublishTip
      <4>1. \E future \in BOOLEAN : Sends(NewTemplate(draft.monitor, future)) BY <1>1, <3>3, IpcSends
      <4>2. data' = data \cup {draft.monitor} BY <3>3 DEF IpcPublishFees, IpcPublishTip, Publish
      <4> QED BY <3>1, <4>1, <4>2
    <3> QED BY <1>7, <3>2, <3>3
  <2>2. /\ Announced' \in Nat /\ Announced <= Announced' /\ Published' = Published \cup {m.t} /\ Last(sent') = m
        /\ \A u \in Published : u.id < m.t.id /\ u.tip <= m.t.tip
    BY <1>1, <2>1, AnnouncedGrows, AfterSending
  <2>3. UNCHANGED <<staleIds, dying, destroyed, lost>> /\ (main' = "answer" => main = "answer" /\ draft'.main = draft.main)
    <3>1. draft \in [{"main", "monitor"} -> Templates] BY <1>1 DEF Counters
    <3> QED BY <1>7, <3>1 DEF IpcPublishFirst, IpcPublishFees, IpcPublishTip
  <2>4. m.t \notin Published /\ m.t.id \notin PublishedIds /\ m.t.id \in Nat /\ m.t.tip \in Nat /\ m.t.id \in Ids
    <3>1. m \in Messages /\ setup \in Setups /\ m.t.id \in Ids BY <1>1, <2>1 DEF Sends, Counters
    <3>2. m.t.id \in Nat /\ m.t.tip \in Nat BY <3>1, Typed
    <3>3. \A u \in Published : u.id # m.t.id BY <1>4, <2>2, <3>2
    <3> QED BY <3>1, <3>2, <3>3 DEF PublishedIds
  <2>5. PublishedIds' = PublishedIds \cup {m.t.id} BY <2>2 DEF PublishedIds
  <2>6. \A t \in Published : Old(t) => t.tip < Announced' BY <1>3, <1>4, <2>2 DEF Old
  <2>7. /\ doomed' \in Seq(SUBSET Ids) /\ \A i \in 1..Len(doomed') : doomed'[i] \subseteq PublishedIds
        /\ \A t \in Published : \A i \in 1..Len(doomed') : t.id \in doomed'[i] => t.tip < m.t.tip
    <3>1. /\ doomed \in Seq(SUBSET Ids) /\ \A i \in 1..Len(doomed) : doomed[i] \subseteq PublishedIds
          /\ \A t \in Published : \A i \in 1..Len(doomed) : t.id \in doomed[i] => t.tip < m.t.tip
      <4>1. ASSUME NEW t \in Published, t.tip < Last(sent).t.tip PROVE t.tip < m.t.tip
        <5>1. Last(sent).t \in Published BY <1>1, <1>4, PublishedFacts DEF Counters, Bounded
        <5>2. Last(sent).t.tip <= m.t.tip /\ Last(sent).t.tip \in Nat BY <1>4, <2>2, <5>1
        <5> QED BY <1>4, <2>4, <4>1, <5>2
      <4> QED BY <1>1, <4>1 DEF Kept, IpcKept
    <3>2. CASE doomed' = doomed BY <3>1, <3>2
    <3>3. CASE IpcPublishTip
      <4>1. doomed' = Append(doomed, CurrentTemplateIds) /\ m.t = draft.monitor /\ draft.monitor.tip # prev /\ monitor = "fetch"
        <5>1. Sends(NewTemplate(draft.monitor, TRUE)) BY <1>1, <3>3, IpcSends
        <5>2. sent' = Append(sent, m) /\ sent' = Append(sent, NewTemplate(draft.monitor, TRUE)) /\ sent \in Seq(Messages)
          BY <1>1, <2>1, <5>1 DEF Sends, Bounded, Orderly
        <5>3. Last(sent') = NewTemplate(draft.monitor, TRUE) BY <1>1, <5>1, AfterSending
        <5>4. m = NewTemplate(draft.monitor, TRUE) BY <2>2, <5>3
        <5> QED BY <3>3, <5>4, MessageFields DEF IpcPublishTip
      <4>2. CurrentTemplateIds \subseteq PublishedIds /\ CurrentTemplateIds \in SUBSET Ids
        <5>1. data \subseteq Published BY <1>1 DEF Kept
        <5>2. \A t \in Published : t.id \in Ids BY <1>1, PublishedInBounds
        <5> QED BY <5>1, <5>2 DEF CurrentTemplateIds, PublishedIds
      <4>3. ASSUME NEW t \in Published PROVE t.tip < m.t.tip
        <5>1. sent # <<>> /\ prev = Last(sent).t.tip BY <1>1, <1>4 DEF IpcOK
        <5>2. t.tip <= Last(sent).t.tip BY <1>1, PublishedFacts DEF Counters, Bounded
        <5>3. Last(sent).t \in Published BY <1>1, <5>1, PublishedFacts DEF Counters, Bounded
        <5>4. Last(sent).t.tip <= m.t.tip /\ Last(sent).t.tip \in Nat BY <1>4, <2>2, <5>3
        <5> QED BY <1>4, <2>4, <4>1, <5>1, <5>2, <5>4
      <4>4. /\ doomed' \in Seq(SUBSET Ids)
            /\ \A i \in 1..Len(doomed') : doomed'[i] = CurrentTemplateIds \/ (i \in 1..Len(doomed) /\ doomed'[i] = doomed[i])
        BY <3>1, <4>1, <4>2
      <4> QED BY <3>1, <4>2, <4>3, <4>4
    <3> QED BY <1>7, <3>2, <3>3 DEF IpcPublishFirst, IpcPublishFees
  <2>8. Kept' BY <1>1, <2>1, <2>2, <2>3, <2>5, <2>7 DEF Kept
  <2>9. IpcKept'
    <3>1. ASSUME NEW t \in Published', t \notin data' \/ t \in lost' \/ t.id \in dying' \cup destroyed' PROVE t.tip < Announced'
      <4>1. t # m.t BY <1>1, <2>1, <2>3, <2>4, <3>1 DEF Kept
      <4>2. t \in Published BY <2>2, <4>1
      <4> QED BY <1>1, <2>1, <2>3, <2>6, <3>1, <4>2 DEF IpcKept
    <3>2. ASSUME NEW t \in Published', NEW i \in 1..Len(doomed'), t.id \in doomed'[i] PROVE t.tip < Last(sent').t.tip
      <4>1. t # m.t BY <2>4, <2>7, <3>2
      <4> QED BY <2>2, <2>7, <3>2, <4>1
    <3> QED BY <1>1, <1>2, <2>3, <3>1, <3>2 DEF IpcKept, Old
  <2> QED BY <2>8, <2>9
<1>8. CASE RpcRefresh \/ RpcSetNewPrevHash \/ RpcNewTip \/ RpcSameTip \/ Tp \/ Sv2Forward
  BY <1>8 DEF Rpc, Sv2, RpcRefresh, RpcSetNewPrevHash, RpcNewTip, RpcSameTip, Tp, TpPrevHash, TpTemplate, Sv2Forward
<1> QED BY <1>5, <1>6, <1>7, <1>8, StepKinds DEF SendingStep

\* What is left after an eviction fits, and what is evicted has enough newer ones.
LEMMA Eviction ==
    ASSUME NEW D, IsFiniteSet(D), \A t \in D : t.id \in Nat, \A t, u \in D : t.id = u.id => t = u
    PROVE  /\ D \ Evicted(D) \subseteq D /\ Cardinality(D \ Evicted(D)) <= MaxRetained
           /\ \A t \in Evicted(D) : Cardinality({u \in D : u.id > t.id}) >= MaxRetained
<1> DEFINE K == D \ Evicted(D)
<1>1. MaxRetained \in Nat \ {0} BY ProvidersAssumption
<1>2. IsFiniteSet(K) /\ K \subseteq D BY FS_Subset
<1>3. CASE K = {}
  <2>1. Cardinality(K) = 0 BY <1>3, FS_EmptySet
  <2> QED BY <1>1, <2>1 DEF Evicted
<1>4. CASE K # {}
  <2> DEFINE I == {t.id : t \in K}
  <2>1. I \subseteq Nat /\ I # {} BY <1>2, <1>4
  <2>2. PICK n \in I : \A k \in I : n <= k
    <3> HIDE DEF I
    <3> QED BY <2>1, SmallestNumber
  <2>3. PICK m \in K : m.id = n BY <2>2
  <2> DEFINE N == {u \in D : u.id > m.id}
  <2>4. IsFiniteSet(N) /\ N \subseteq D /\ Cardinality(N) \in Nat BY FS_Subset, FS_CardinalityType
  <2>5. Cardinality(N) < MaxRetained
    <3>1. m \in D /\ m \notin Evicted(D) BY <2>3
    <3>2. ~(Cardinality(N) >= MaxRetained) BY <3>1 DEF Evicted
    <3> HIDE DEF N
    <3> QED BY <1>1, <2>4, <3>2
  <2>6. K \ {m} \subseteq N
    <3>1. ASSUME NEW t \in K, t # m PROVE t.id > m.id
      <4>1. t \in D /\ m \in D /\ t.id \in Nat /\ m.id \in Nat /\ t.id # m.id BY <2>3, <3>1
      <4>2. n <= t.id BY <2>2, <3>1
      <4> QED BY <2>3, <4>1, <4>2
    <3> QED BY <3>1
  <2>7. Cardinality(K \ {m}) <= Cardinality(N)
    <3> HIDE DEF N, K
    <3> QED BY <2>4, <2>6, FS_Subset
  <2>8. Cardinality(K \ {m}) = Cardinality(K) - 1
    <3> HIDE DEF K
    <3> QED BY <1>2, <2>3, FS_RemoveElement
  <2>9. Cardinality(K) \in Nat BY <1>2, FS_CardinalityType
  <2>10. Cardinality(K) <= MaxRetained
    <3> HIDE DEF K, N
    <3> QED BY <1>1, <2>4, <2>5, <2>7, <2>8, <2>9
  <2> QED BY <2>10 DEF Evicted
<1> QED BY <1>3, <1>4

\* The templates newer than a published one do not get fewer.
LEMMA NewerStay ==
    ASSUME NEW S, NEW R, S \subseteq R, IsFiniteSet(R), NEW n, Cardinality({u \in S : u.id > n}) >= MaxRetained
    PROVE  Cardinality({u \in R : u.id > n}) >= MaxRetained
<1> DEFINE A == {u \in S : u.id > n}
           B == {u \in R : u.id > n}
<1>1. A \subseteq B /\ IsFiniteSet(B) BY FS_Subset
<1>2. Cardinality(A) <= Cardinality(B) /\ Cardinality(A) \in Nat /\ Cardinality(B) \in Nat
  <2> HIDE DEF A, B
  <2> QED BY <1>1, FS_Subset, FS_CardinalityType
<1>3. MaxRetained \in Nat BY ProvidersAssumption
<1>4. Cardinality(A) >= MaxRetained OBVIOUS
<1> HIDE DEF A, B
<1>5. Cardinality(B) >= MaxRetained BY <1>2, <1>3, <1>4
<1> QED BY <1>5 DEF B

\* The RPC provider gives a template up when MaxRetained newer ones exist.
LEMMA RpcRetention ==
    ASSUME ProvidersInv, setup.provider = "rpc", Next PROVE Kept' /\ RpcKept'
<1>1. Counters /\ Requests /\ Bounded /\ TasksOK /\ Kept /\ RpcKept BY DEF ProvidersInv, RetentionOK
<1>2. Published \subseteq Published' /\ PublishedIds \subseteq PublishedIds' BY <1>1, PublishedStays DEF PublishedIds
<1>3. IsFiniteSet(Published) /\ \A t \in Published : t.id \in Nat
  <2>1. IsFiniteSet(Published) BY <1>1, PublishedFacts DEF Counters, Bounded
  <2>2. \A t \in Published : t.id \in Ids BY <1>1, PublishedInBounds
  <2>3. \A n \in Ids : n \in Nat BY DEF Ids
  <2> QED BY <2>1, <2>2, <2>3
<1> USE DEF node, inputs, ending, tasks, client, retention, net
<1>4. CASE RpcRefresh \/ RpcNewTip \/ RpcSameTip
  <2> DEFINE t == Made(tip, applied)
             D == data \cup {t}
  <2>1. PICK m : Sends(m) /\ m.kind = "template" /\ m.t = t
    <3>1. PICK future \in BOOLEAN : Sends(NewTemplate(t, future)) BY <1>1, <1>4, RpcSends
    <3>2. NewTemplate(t, future).kind = "template" /\ NewTemplate(t, future).t = t BY MessageFields
    <3> QED BY <3>1, <3>2
  <2>2. Published' = Published \cup {t} /\ \A u \in Published : u.id < t.id BY <1>1, <2>1, AnnouncedGrows
  <2>3. data' = D \ Evicted(D) /\ UNCHANGED <<staleIds, doomed, dying, destroyed, lost>>
    BY <1>4 DEF RpcRefresh, RpcNewTip, RpcSameTip, RpcPublish
  <2>4. t.id \in Nat BY <1>1 DEF Made, Counters
  <2> HIDE DEF t
  <2>5. data \subseteq Published /\ lost \subseteq Published BY <1>1 DEF Kept
  <2>6. \A u, v \in Published : u.id = v.id => u = v BY <1>1, PublishedFacts DEF Counters, Bounded
  <2>7. IsFiniteSet(Published') /\ D \subseteq Published' /\ IsFiniteSet(D)
    <3>1. IsFiniteSet(Published \cup {t}) BY <1>3, FS_AddElement
    <3> QED BY <2>2, <2>5, <3>1, FS_Subset
  <2>8. \A u, v \in D : u.id = v.id => u = v
    <3>1. \A u \in data : u.id < t.id /\ u.id \in Nat BY <1>3, <2>2, <2>5
    <3>2. \A u \in data : u.id # t.id BY <2>4, <3>1
    <3> QED BY <2>5, <2>6, <3>2
  <2>9. \A u \in D : u.id \in Nat BY <1>3, <2>4, <2>5
  <2> HIDE DEF D
  <2>10. /\ D \ Evicted(D) \subseteq D /\ Cardinality(D \ Evicted(D)) <= MaxRetained
         /\ \A u \in Evicted(D) : Cardinality({v \in D : v.id > u.id}) >= MaxRetained
    BY <2>7, <2>8, <2>9, Eviction
  <2>11. Kept' BY <1>1, <1>2, <2>3, <2>7, <2>10 DEF Kept
  <2>12. ASSUME NEW u \in Published', u \notin data' \/ u \in lost'
         PROVE  Cardinality({v \in Published' : v.id > u.id}) >= MaxRetained
    <3>1. CASE u \in Evicted(D)
      <4>1. Cardinality({v \in D : v.id > u.id}) >= MaxRetained BY <2>10, <3>1
      <4>2. D \subseteq Published' /\ IsFiniteSet(Published') BY <2>7
      <4> QED BY ONLY <4>1, <4>2, NewerStay
    <3>2. CASE u \in Published /\ (u \notin data \/ u \in lost)
      <4>1. Cardinality({v \in Published : v.id > u.id}) >= MaxRetained BY <1>1, <3>2 DEF RpcKept
      <4>2. Published \subseteq Published' /\ IsFiniteSet(Published') BY <1>2, <2>7
      <4> QED BY ONLY <4>1, <4>2, NewerStay
    <3>3. u \in Evicted(D) \/ (u \in Published /\ (u \notin data \/ u \in lost))
      <4>1. u \in data' \/ u \notin D \/ u \in Evicted(D) BY <2>3
      <4> QED BY <2>2, <2>3, <2>5, <2>12, <4>1 DEF D
    <3> QED BY <3>1, <3>2, <3>3
  <2> QED BY <2>3, <2>10, <2>11, <2>12 DEF RpcKept
<1>5. ASSUME UNCHANGED <<data, staleIds, doomed, dying, destroyed>>,
             lost' = lost \/ \E t \in Published : t \notin data /\ lost' = lost \cup {t},
             Published' = Published
      PROVE  Kept' /\ RpcKept'
  <2>1. PublishedIds' = PublishedIds BY <1>5 DEF PublishedIds
  <2>2. Kept' BY <1>1, <1>5, <2>1 DEF Kept
  <2>3. RpcKept' BY <1>1, <1>5 DEF RpcKept
  <2> QED BY <2>2, <2>3
<1>6. CASE RpcSetNewPrevHash
  <2>1. Sends(PrevHash(draft.main)) /\ PrevHash(draft.main).kind = "prevhash" BY <1>1, <1>6, RpcSends DEF PrevHash
  <2>2. Published' = Published BY <1>1, <2>1, AnnouncedGrows
  <2>3. UNCHANGED <<data, staleIds, doomed, dying, destroyed, lost>> BY <1>6 DEF RpcSetNewPrevHash
  <2> QED BY <1>5, <2>2, <2>3
<1>7. CASE QuietStep
  <2>1. Published' = Published
    <3>1. sent' = sent BY <1>1, <1>7, QuietSteps DEF Quiet
    <3> QED BY <3>1 DEF Published
  <2>2. CASE Environment
    <3>1. UNCHANGED <<data, staleIds, doomed, dying, destroyed, lost>>
      BY <2>2 DEF Environment, NewBlock, SendConstraints, Cancel, IntervalPasses, SendAsk
    <3> QED BY <1>5, <2>1, <3>1
  <2>3. CASE RpcConstraints \/ RpcRequest \/ RpcExits \/ RpcFirstFails \/ RpcRefreshFails \/ RpcPollFails
    <3>1. UNCHANGED <<data, staleIds, doomed, dying, destroyed, lost>>
      BY <2>3 DEF RpcConstraints, RpcRequest, RpcExits, RpcFirstFails, RpcRefreshFails, RpcPollFails
    <3> QED BY <1>5, <2>1, <3>1
  <2>4. CASE RpcSolution
    <3>1. Solution /\ UNCHANGED <<data, staleIds, doomed, dying, destroyed>> BY <2>4 DEF RpcSolution, Solution
    <3>2. lost' = lost \/ \E t \in Published : t \notin data /\ lost' = lost \cup {t} BY <1>1, <3>1, SolutionOfUnkept
    <3> QED BY <1>5, <2>1, <3>1, <3>2
  <2>5. CASE IpcFirstConstraints \/ IpcStopMonitor \/ IpcMonitorStopped \/ IpcCreateNewBlock \/ IpcInterrupt \/ IpcRequest
             \/ IpcAnswer \/ IpcSolution \/ IpcExits \/ IpcWait \/ IpcWaitNext \/ IpcMonitorExits \/ IpcForget \/ IpcDestroy
             \/ IpcMainFails \/ IpcMonitorFails \/ IpcAnswerFails
    BY <2>5 DEF Ipc, IpcFirstConstraints, IpcStopMonitor, IpcMonitorStopped, IpcCreateNewBlock, IpcInterrupt, IpcRequest,
       IpcAnswer, IpcSolution, IpcExits, IpcWait, IpcWaitNext, IpcMonitorExits, IpcForget, IpcDestroy, IpcMainFails,
       IpcMonitorFails, IpcAnswerFails
  <2>6. CASE Sv2Start \/ Sv2Ask \/ Sv2Exits \/ Sv2StartFails \/ Sv2Disconnected
    BY <2>6 DEF Sv2, Sv2Start, Sv2Connect, Sv2SetupConnection, Sv2Retry, Sv2Ask, Sv2Exits, Sv2StartFails, Sv2ConnectFails,
       Sv2SetupFails, Sv2Disconnected
  <2> QED BY <1>7, <2>2, <2>3, <2>4, <2>5, <2>6 DEF QuietStep, Failures
<1>8. CASE IpcPublishFirst \/ IpcSpawnMonitor \/ IpcPublishTip \/ IpcPublishTipPrevHash \/ IpcPublishFees \/ Tp \/ Sv2Forward
  BY <1>8 DEF Ipc, Sv2, IpcPublishFirst, IpcSpawnMonitor, IpcPublishTip, IpcPublishTipPrevHash, IpcPublishFees, Tp,
     TpPrevHash, TpTemplate, Sv2Forward
<1> QED BY <1>4, <1>6, <1>7, <1>8, StepKinds DEF SendingStep

\* Only an answer that came too late ends the application for a request.
LEMMA CauseStep ==
    ASSUME ProvidersInv, Next
    PROVE  /\ cause' = "request" => /\ setup'.provider = "ipc" /\ main' = "over" /\ cancelled'
                                    /\ draft'.main.id \in destroyed'
           /\ cause' # "no" => cancelled'
<1>1. /\ cause = "request" => /\ setup.provider = "ipc" /\ main = "over" /\ cancelled
                              /\ draft.main.id \in destroyed
      /\ cause # "no" => cancelled
  BY DEF ProvidersInv, RetentionOK
<1>2. Counters /\ draft \in [{"main", "monitor"} -> Templates] BY DEF ProvidersInv, Counters
<1> USE DEF node, inputs, ending, tasks, client, retention, net
<1>3. ASSUME UNCHANGED <<setup, cause, cancelled>>, main # "over" PROVE
             /\ cause' = "request" => setup'.provider = "ipc" /\ main' = "over" /\ cancelled' /\ draft'.main.id \in destroyed'
             /\ cause' # "no" => cancelled'
  BY <1>1, <1>3
<1>4. ASSUME UNCHANGED <<setup, cause, cancelled, main>>, draft'.main = draft.main, destroyed \subseteq destroyed' PROVE
             /\ cause' = "request" => setup'.provider = "ipc" /\ main' = "over" /\ cancelled' /\ draft'.main.id \in destroyed'
             /\ cause' # "no" => cancelled'
  BY <1>1, <1>4
<1>5. CASE Environment
  <2>1. CASE Cancel BY <1>1, <2>1 DEF Cancel
  <2>2. CASE NewBlock \/ SendConstraints \/ IntervalPasses \/ \E kind \in {"request", "solution"}, t \in Published : SendAsk(kind, t)
    <3>1. UNCHANGED <<setup, cause, cancelled, main, draft, destroyed>>
      BY <2>2 DEF NewBlock, SendConstraints, IntervalPasses, SendAsk
    <3> QED BY <1>4, <3>1
  <2> QED BY <1>5, <2>1, <2>2 DEF Environment
<1>6. CASE IpcMain
  <2>1. UNCHANGED <<setup, cause, cancelled>> /\ main # "over"
    BY <1>6 DEF IpcMain, IpcFirstConstraints, IpcStopMonitor, IpcMonitorStopped, IpcCreateNewBlock, IpcInterrupt,
         IpcPublishFirst, IpcSpawnMonitor, IpcRequest, IpcAnswer, IpcSolution, Solution, IpcExits
  <2> QED BY <1>3, <2>1
<1>7. CASE IpcMonitor \/ IpcForget \/ IpcDestroy
  <2>1. UNCHANGED <<setup, cause, cancelled, main>> /\ draft'.main = draft.main
    BY <1>2, <1>7 DEF IpcMonitor, IpcWait, IpcWaitNext, IpcMonitorExits, IpcPublishTip, IpcPublishTipPrevHash,
         IpcPublishFees, IpcForget, IpcDestroy
  <2>2. destroyed \subseteq destroyed'
    BY <1>7 DEF IpcMonitor, IpcWait, IpcWaitNext, IpcMonitorExits, IpcPublishTip, IpcPublishTipPrevHash,
         IpcPublishFees, IpcForget, IpcDestroy
  <2> QED BY <1>4, <2>1, <2>2
<1>8. CASE RpcSteps \/ RpcFirstFails \/ RpcRefreshFails \/ RpcPollFails
  <2>1. UNCHANGED <<setup, cause, cancelled>> /\ main # "over"
    BY <1>8 DEF RpcSteps, RpcConstraints, RpcRefresh, RpcSetNewPrevHash, RpcNewTip, RpcSameTip, RpcRequest, RpcSolution, Solution,
       RpcExits, RpcFirstFails, RpcRefreshFails, RpcPollFails
  <2> QED BY <1>3, <2>1
<1>9. CASE Sv2Start \/ Sv2Loop \/ Tp
  <2>1. UNCHANGED <<setup, cause, cancelled>> /\ main # "over"
    BY <1>9 DEF Sv2Start, Sv2Connect, Sv2SetupConnection, Sv2Retry, Sv2Loop, Sv2Forward, Sv2Ask, Sv2Exits, Tp, TpPrevHash,
         TpTemplate
  <2> QED BY <1>3, <2>1
<1>10. CASE IpcMainFails \/ Sv2StartFails \/ Sv2Disconnected
  <2>1. main # "over" /\ cancelled' = TRUE /\ cause' \in {cause, "call", "connection"}
    BY <1>10 DEF IpcMainFails, Sv2StartFails, Sv2ConnectFails, Sv2SetupFails, Sv2Disconnected, Sv2Fails, CancelFor
  <2> QED BY <1>1, <2>1
<1>11. CASE IpcMonitorFails
  <2>1. UNCHANGED <<setup, main, draft, destroyed>> /\ cancelled' = TRUE /\ cause' \in {cause, "call"}
    BY <1>11 DEF IpcMonitorFails, CancelFor
  <2> QED BY <1>1, <2>1
<1>12. CASE IpcAnswerFails
  <2>1. /\ UNCHANGED <<setup, draft, destroyed>> /\ setup.provider = "ipc" /\ draft.main.id \in destroyed
        /\ main' = "over" /\ cancelled' = TRUE
    BY <1>12 DEF IpcAnswerFails, CancelFor, Ipc
  <2> QED BY <2>1
<1> QED BY <1>5, <1>6, <1>7, <1>8, <1>9, <1>10, <1>11, <1>12 DEF Next, Failures

\* Every step keeps what somebody on the announced tip may need.
LEMMA RetentionStep == ASSUME ProvidersInv, Next PROVE RetentionOK'
<1>1. Counters /\ Requests /\ Bounded /\ TasksOK /\ Kept BY DEF ProvidersInv, RetentionOK
<1>2. setup' = setup
  <2>1. CASE QuietStep \/ SendingStep BY <1>1, <2>1, QuietSteps, SendingSteps DEF Quiet, Sends
  <2>2. CASE Tp \/ Sv2Forward BY <2>2 DEF Tp, TpPrevHash, TpTemplate, Sv2Forward, node
  <2> QED BY <2>1, <2>2, StepKinds
<1>3. ASSUME setup.provider = "sv2" PROVE Kept' /\ data' = {} /\ lost' = {}
  <2>1. data = {} /\ lost = {} BY <1>3 DEF ProvidersInv, RetentionOK
  <2>2. UNCHANGED <<retention, lost>>
    <3> USE <1>3 DEF Ipc, Rpc, Sv2, node, inputs, ending, tasks, client, retention, net
    <3>1. CASE Environment
      BY <3>1 DEF Environment, NewBlock, SendConstraints, Cancel, IntervalPasses, SendAsk
    <3>2. CASE IpcMain
      BY <3>2 DEF IpcMain, IpcFirstConstraints, IpcStopMonitor, IpcMonitorStopped, IpcCreateNewBlock, IpcInterrupt,
         IpcPublishFirst, IpcSpawnMonitor, IpcRequest, IpcAnswer, IpcSolution, IpcExits
    <3>3. CASE IpcMonitor \/ IpcForget \/ IpcDestroy
      BY <3>3 DEF IpcMonitor, IpcWait, IpcWaitNext, IpcMonitorExits, IpcPublishTip, IpcPublishTipPrevHash, IpcPublishFees,
         IpcForget, IpcDestroy
    <3>4. CASE RpcSteps
      BY <3>4 DEF RpcSteps, RpcConstraints, RpcRefresh, RpcSetNewPrevHash, RpcNewTip, RpcSameTip, RpcRequest, RpcSolution, RpcExits
    <3>5. CASE Sv2Start \/ Sv2Loop \/ Tp
      BY <3>5 DEF Sv2Start, Sv2Connect, Sv2SetupConnection, Sv2Retry, Sv2Loop, Sv2Forward, Sv2Ask, Sv2Exits, Tp, TpPrevHash,
         TpTemplate
    <3>6. CASE Failures
      BY <3>6 DEF Failures, IpcMainFails, IpcMonitorFails, IpcAnswerFails, RpcFirstFails, RpcRefreshFails, RpcPollFails,
         Sv2StartFails, Sv2ConnectFails, Sv2SetupFails, Sv2Disconnected, Sv2Fails
    <3> QED BY <3>1, <3>2, <3>3, <3>4, <3>5, <3>6 DEF Next
  <2>3. Kept' BY <1>1, <2>2, PublishedStays, KeptStays
  <2> QED BY <2>1, <2>2, <2>3 DEF retention
<1>4. setup.provider \in {"ipc", "rpc", "sv2"} BY <1>1, ProvidersAssumption DEF Counters
<1>5. Kept' BY <1>3, <1>4, IpcRetention, RpcRetention
<1> QED BY <1>2, <1>3, <1>5, IpcRetention, RpcRetention, CauseStep DEF RetentionOK

-----------------------------------------------------------------------------
(* The invariant, and what follows from it. *)

\* The invariant holds before the provider starts.
LEMMA InvInit == Init => ProvidersInv
<1> SUFFICES ASSUME Init PROVE ProvidersInv OBVIOUS
<1>1. /\ setup \in Setups /\ setup.provider \in {"ipc", "rpc", "sv2"} /\ setup.tips \in Nat \ {0}
      /\ setup.templates \in Nat \ {0} /\ setup.constraints \in Nat
  BY ProvidersAssumption DEF Init
<1>2. MaxTemplates \in Nat /\ MaxTips \in Nat /\ Max({s.constraints : s \in Setups}) \in Nat BY <1>1, Bounds
<1>3. None \in Templates BY <1>2 DEF None, Templates
<1>4. sent = <<>> /\ wire = <<>> /\ Log = <<>> /\ Published = {} BY DEF Init, Log, Published
<1>5. Bounded
  <2>1. <<>> \in Seq(Messages) /\ Len(<<>>) = 0 OBVIOUS
  <2> QED BY <1>4, <2>1, EmptyLog DEF Bounded
<1>6. Counters
  <2>1. MaxAsked \in Nat /\ MaxFailures \in Nat /\ MaxRetries \in Nat \ {0} BY ProvidersAssumption
  <2>2. draft \in [{"main", "monitor"} -> Templates] /\ base \in Templates BY <1>3 DEF Init
  <2>3. tip \in 1..setup.tips BY <1>1 DEF Init
  <2>4. given \in 0..setup.constraints /\ asked \in 0..MaxAsked /\ failures \in 0..MaxFailures BY <1>1, <2>1 DEF Init
  <2>5. nextId \in 1..(setup.templates + 1) /\ attempt \in 1..MaxRetries /\ prev \in 0..MaxTips /\ applied \in Nat
    BY <1>1, <1>2, <2>1 DEF Init
  <2> QED BY <1>1, <2>2, <2>3, <2>4, <2>5 DEF Init, Counters
<1>7. Requests
  <2>1. Places(inbox, "constraints") = {} BY DEF Init, Places
  <2>2. Pending = 0 BY <2>1, FS_EmptySet DEF Pending
  <2> QED BY <2>2 DEF Init, Requests
<1>8. TasksOK BY <1>1, <1>4 DEF Init, TasksOK, IpcOK, RpcOK, Sv2OK, Owed, Owes
<1>9. RetentionOK
  <2>1. Kept BY DEF Init, Kept
  <2>2. IpcKept BY <1>1, <1>4 DEF Init, IpcKept
  <2>3. RpcKept
    <3>1. Cardinality(data) = 0 BY FS_EmptySet DEF Init
    <3>2. MaxRetained \in Nat BY ProvidersAssumption
    <3> QED BY <1>4, <3>1, <3>2 DEF RpcKept
  <2> QED BY <2>1, <2>2, <2>3 DEF Init, RetentionOK
<1> QED BY <1>5, <1>6, <1>7, <1>8, <1>9 DEF ProvidersInv

\* A stuttering step changes nothing.
LEMMA InvStutters == ASSUME ProvidersInv, UNCHANGED vars PROVE ProvidersInv'
<1> USE DEF vars, node, inputs, ending, tasks, client, retention, net
<1>1. Published' = Published /\ Announced' = Announced /\ (Owed' <=> Owed) /\ Log' = Log BY DEF Published, Announced, Owed, Log
<1>2. Counters' BY DEF ProvidersInv, Counters
<1>3. Pending' = Pending BY DEF Pending
<1>4. Requests' BY <1>1, <1>3 DEF ProvidersInv, Requests
<1>5. Bounded' BY <1>1 DEF ProvidersInv, Bounded
<1>6. TasksOK' BY <1>1 DEF ProvidersInv, TasksOK, IpcOK, RpcOK, Sv2OK, Newer, Ahead
<1>7. PublishedIds' = PublishedIds BY <1>1 DEF PublishedIds
<1>8. RetentionOK' BY <1>1, <1>7 DEF ProvidersInv, RetentionOK, Kept, IpcKept, RpcKept, Old
<1> QED BY <1>2, <1>4, <1>5, <1>6, <1>8 DEF ProvidersInv

\* Whatever the node, the channel manager and the failures do, the messages are
\* in order, no constraints are applied twice, each task knows what was sent,
\* and what was given up is older than what was announced.
THEOREM ProvidersAlways == Spec => []ProvidersInv
<1>1. ProvidersInv /\ [Next]_vars => ProvidersInv'
  <2> SUFFICES ASSUME ProvidersInv, [Next]_vars PROVE ProvidersInv' OBVIOUS
  <2>1. CASE UNCHANGED vars BY <2>1, InvStutters
  <2>2. CASE Next
    <3>1. Counters /\ Requests /\ Bounded /\ TasksOK BY DEF ProvidersInv
    <3> QED BY <2>2, <3>1, CountersStep, RequestsStep, MessagesStep, TasksStep, RetentionStep DEF ProvidersInv
  <2> QED BY <2>1, <2>2
<1> QED BY <1>1, InvInit, PTL DEF Spec

\* What a provider gives up nobody on the announced tip still needs: a
\* submitted solution finds its template unless a newer tip was announced or
\* MAX_RETAINED_TEMPLATES newer templates exist, and a request ends the
\* application only for a template of an older tip.
THEOREM RetentionIsSound == Spec => []RetentionInv
<1>1. ASSUME ProvidersInv PROVE RetentionInv
  <2>1. Counters /\ Requests /\ Bounded /\ TasksOK /\ RetentionOK /\ Kept BY <1>1 DEF ProvidersInv, RetentionOK
  <2>2. /\ \A t \in Published : t \in Templates
        /\ \A t, u \in Published : t.id = u.id => t = u
    BY <2>1, PublishedFacts DEF Counters, Bounded
  <2>3. TypeOK
    <3>1. PublishedIds \subseteq Ids BY <2>1, PublishedInBounds DEF PublishedIds
    <3>2. sent \in Seq(Messages) /\ inbox \in Seq(Asks) /\ doomed \in Seq(SUBSET Ids)
      BY <2>1 DEF Bounded, Orderly, Requests, Kept
    <3>3. \A i \in DOMAIN sent : sent[i] \in Messages BY <3>2
    <3>4. \A i \in DOMAIN inbox : inbox[i] \in Asks BY <3>2
    <3>5. \A i \in DOMAIN doomed : doomed[i] \subseteq Ids BY <3>2
    <3>6. data \subseteq Templates /\ lost \subseteq Templates /\ staleIds \subseteq Ids BY <2>1, <2>2 DEF Kept
    <3>7. dying \subseteq Ids /\ destroyed \subseteq Ids BY <2>1, <3>1 DEF Kept
    <3>8. setup.provider = "rpc" => Cardinality(data) <= MaxRetained BY <2>1 DEF RetentionOK, RpcKept
    <3>9. tip \in 1..MaxTips /\ nextId \in 1..(MaxTemplates + 1) /\ applied \in 0..setup.constraints
      <4>1. setup \in Setups /\ applied <= setup.constraints /\ applied \in Nat /\ tip \in 1..MaxTips BY <2>1, Facts DEF Counters
      <4>2. MaxTemplates \in Nat /\ setup.templates \in 1..MaxTemplates /\ setup.constraints \in Nat
        BY <4>1, Bounds, ProvidersAssumption
      <4> QED BY <2>1, <4>1, <4>2 DEF Counters
    <3>10. /\ main \in {"await", "create", "fetch", "sending", "serve", "join", "answer", "first", "refresh",
                        "poll", "publish", "connect", "setup", "forward", "over"}
           /\ monitor \in {"none", "start", "wait", "fetch", "sending", "over"}
      <4>1. setup.provider \in {"ipc", "rpc", "sv2"} BY <2>1, Facts
      <4> QED BY <2>1, <4>1 DEF TasksOK, IpcOK, RpcOK, Sv2OK
    <3> QED BY <2>1, <3>3, <3>4, <3>5, <3>6, <3>7, <3>8, <3>9, <3>10 DEF TypeOK, Counters, Messages, Asks
  <2>4. SolutionsOfTheTip
    <3>1. setup.provider \in {"ipc", "rpc", "sv2"} BY <2>1, Facts
    <3>2. lost \subseteq Published BY <2>1 DEF Kept
    <3>3. CASE setup.provider = "ipc" BY <2>1, <3>2, <3>3 DEF SolutionsOfTheTip, RetentionOK, IpcKept, Old
    <3>4. CASE setup.provider = "rpc" BY <2>1, <3>2, <3>4 DEF SolutionsOfTheTip, RetentionOK, RpcKept, Rpc
    <3>5. CASE setup.provider = "sv2" BY <2>1, <3>5 DEF SolutionsOfTheTip, RetentionOK
    <3> QED BY <3>1, <3>3, <3>4, <3>5
  <2>5. RequestsAreHarmless
    <3>1. SUFFICES ASSUME cause = "request" PROVE TemplateOf(draft.main.id).tip < Announced BY DEF RequestsAreHarmless
    <3>2. setup.provider = "ipc" /\ draft.main.id \in destroyed BY <2>1, <3>1 DEF RetentionOK
    <3>3. PICK t \in Published : t.id = draft.main.id BY <2>1, <3>2 DEF Kept, PublishedIds
    <3>4. TemplateOf(draft.main.id) = t BY <2>2, <3>3 DEF TemplateOf
    <3>5. Old(t) BY <2>1, <3>2, <3>3 DEF RetentionOK, IpcKept
    <3> QED BY <3>4, <3>5 DEF Old
  <2> QED BY <2>3, <2>4, <2>5 DEF RetentionInv
<1> QED BY <1>1, ProvidersAlways, PTL

\* The constraints of the templates only move forward: once the channel manager
\* has a template under its latest constraints it gets no template of the
\* monitor that handle_coinbase_output_constraints replaced.
THEOREM ConstraintsScope == Spec => []ScopedToConstraints
<1>1. ASSUME ProvidersInv PROVE ScopedToConstraints
  <2>1. Orderly(sent) BY <1>1 DEF ProvidersInv, Bounded
  <2>2. sent \in Seq(Messages) /\ DOMAIN sent = 1..Len(sent) BY <2>1 DEF Orderly
  <2>3. ASSUME NEW i \in DOMAIN sent, NEW j \in DOMAIN sent, i < j PROVE sent[i].t.under <= sent[j].t.under
    <3>1. i \in 1..Len(sent) /\ j \in 1..Len(sent) /\ i <= j BY <2>2, <2>3
    <3> QED BY <2>1, <3>1 DEF Orderly, NotAfter
  <2> QED BY <2>3 DEF ScopedToConstraints
<1> QED BY <1>1, ProvidersAlways, PTL

\* All three providers send what TemplateFeed allows: a template of a tip that
\* was not announced is followed by its prevhash before any other message, ids
\* grow, no announced tip is taken back, and nothing comes after the end.
THEOREM ProvidersFeed == Spec => Feed!Messages
<1>1. Init => Feed!Init
  <2> SUFFICES ASSUME Init PROVE Feed!Init OBVIOUS
  <2>1. sent = <<>> BY DEF Init
  <2>2. \A kind : Places(sent, kind) = {} BY <2>1 DEF Places
  <2>3. LastTemplate = None /\ Announced = 0 BY <2>2 DEF LastTemplate, Announced, LastOf, None
  <2>4. Owed = FALSE BY <2>1 DEF Owed, Owes
  <2>5. Over = FALSE BY DEF Init, Over
  <2> QED BY <2>3, <2>4, <2>5 DEF Feed!Init, None
<1>2. ProvidersInv /\ [Next]_vars => [Feed!Next]_(Feed!feed)
  <2> SUFFICES ASSUME ProvidersInv, [Next]_vars PROVE [Feed!Next]_(Feed!feed) OBVIOUS
  <2>1. CASE UNCHANGED vars
    <3>1. sent' = sent /\ (Over => Over') BY <2>1 DEF vars, Over, tasks
    <3> QED BY <3>1, FeedQuiet
  <2>2. CASE Next BY <2>2, MessagesStep DEF ProvidersInv
  <2> QED BY <2>1, <2>2
<1> QED BY <1>1, <1>2, ProvidersAlways, PTL DEF Spec, Feed!Messages
==============================================================================
