-------------------------- MODULE ClientRuntimeProofs --------------------------
(***************************************************************************)
(* The runtime of the job declarator client across fallbacks, for every     *)
(* number of upstreams, retries, miners and generations: one channel        *)
(* manager at a time, nobody goes away unnoticed unless its error was only  *)
(* logged, the template provider's channel stays open (TasksInv), and the   *)
(* mode of the client fits the state of its manager (ModesAgree).  The last *)
(* part proves the barrier that both rest on (FallbackCoordinator).         *)
(***************************************************************************)
EXTENDS ClientRuntime, FallbackCoordinator, FiniteSetTheorems, TLAPS

\* Nothing of a later generation exists.
LaterAbsent ==
    \A g \in Gens : g > gen =>
        manager[g] = "none" /\ upstream[g] = "none" /\ jds[g] = "none" /\ io[g] = 0

\* The manager of a generation that was left, or whose coordinator holds the
\* permit, has closed its channels.
Retired == \A g \in Gens : g < gen \/ g \in permits => manager[g] \in {"none", "closed"}

\* By the time somebody can signal a fallback the manager has been polled, so
\* that the coordinator counts it.
Registered ==
    /\ main \in {"upstream", "jds"} => manager[gen] # "spawned"
    /\ \A g \in Gens : g \in signalled \/ upstream[g] # "none" \/ jds[g] # "none" =>
          manager[g] # "spawned"

\* What closes has seen a token, and the main task waits only after a signal.
Noticed ==
    /\ ClosedIsSignalled /\ TemplatesSurvive
    /\ \A g \in Gens : manager[g] = "closing" => Over(g)
    /\ main = "waiting" => gen \in signalled

\* A generation keeps at most one connection of every attempt that failed.
Attempts == main = "init" => io[gen] <= flagged * MaxRetries + attempt - 1

\* The inductive invariant behind TasksInv.
Fallback == LaterAbsent /\ Retired /\ Registered /\ Noticed /\ Attempts

-----------------------------------------------------------------------------
\* The attempts at the upstreams that are left fit the bound.
LEMMA AttemptsFit ==
    ASSUME NEW f \in Nat, NEW n \in Nat, NEW m \in Nat
    PROVE  /\ f * m \in Nat /\ n * m \in Nat /\ n * m = m * n
           /\ (f + 1) * m = f * m + m
           /\ f <= n => f * m <= n * m
           /\ f < n => f * m + m <= n * m
<1>1. (f + 1) * m = f * m + m /\ f * m \in Nat /\ n * m \in Nat /\ n * m = m * n OBVIOUS
<1>2. ASSUME NEW k \in Nat, f <= k PROVE f * m <= k * m BY <1>2
<1>3. f < n => f * m + m <= n * m BY <1>1, <1>2
<1> QED BY <1>1, <1>2, <1>3

\* The last one out leaves a permit, after the signal and when it has closed.
LEMMA DonePermits ==
    ASSUME NEW g \in Gens, Done(g)
    PROVE  /\ permits' = permits \/ permits' = permits \cup {g}
           /\ g \in permits' /\ g \notin permits =>
                 g \in signalled' /\ manager'[g] \notin {"running", "closing"}
  BY DEF Done, Busy

\* A task that reports an error cancels the fallback token unless a token is
\* cancelled already.
LEMMA SignalOver ==
    ASSUME NEW g \in Gens, Signal(g)
    PROVE  /\ signalled' = signalled \/ signalled' = signalled \cup {g}
           /\ UNCHANGED cancelled => Over(g)'
  BY DEF Signal, Over

\* The permits stay among the fallback tokens that are cancelled, and those
\* among the generations that exist.
LEMMA TokensStayTyped ==
    ASSUME TypeOK, NEW g \in Gens, UNCHANGED permits \/ Done(g),
           UNCHANGED signalled \/ (g <= gen /\ Signal(g))
    PROVE  signalled' \subseteq 1..gen /\ permits' \subseteq signalled'
<1>1. gen \in Nat /\ g \in Nat /\ g >= 1 BY RuntimeAssumption DEF TypeOK, Gens
<1>2. signalled \subseteq 1..gen /\ permits \subseteq signalled BY DEF TypeOK
<1>3. signalled' = signalled \/ (g <= gen /\ signalled' = signalled \cup {g}) BY DEF Signal
<1>4. permits' = permits \/ (permits' = permits \cup {g} /\ g \in signalled') BY DEF Done
<1>5. g <= gen => g \in 1..gen BY <1>1
<1>6. signalled' \subseteq 1..gen BY <1>2, <1>3, <1>5
<1>7. permits' \subseteq signalled' BY <1>2, <1>3, <1>4
<1> QED BY <1>6, <1>7

\* Setting the mode in force keeps the configured one.
LEMMA ModeSet ==
    ASSUME NEW m \in [config : Modes, inner : {"solo", "jd"}], NEW i \in {"solo", "jd"}
    PROVE  /\ [m EXCEPT !.inner = i] \in [config : Modes, inner : {"solo", "jd"}]
           /\ [m EXCEPT !.inner = i].inner = i /\ m.config \in Modes
  BY Zenon

\* The types at the start.
LEMMA RuntimeTypeInit == ASSUME Init PROVE TypeOK
<1>1. 0 \in 0..(MaxRetries * NumUpstreams + 2)
  <2>1. MaxRetries * NumUpstreams \in Nat BY AttemptsFit, RuntimeAssumption
  <2> QED BY <2>1
<1>2. NoClient \in [st : {"idle", "handshake", "open"}, gen : {0} \cup Gens] BY DEF NoClient
<1>3. mode \in [config : Modes, inner : {"solo", "jd"}]
  <2>1. mode \in [config : Modes, inner : {"solo"}] BY DEF Init
  <2> QED BY <2>1
<1>4. main \in {"init", "serve"} BY DEF Init
<1>5. /\ gen = 1 /\ attempt = 1 /\ flagged = 0 /\ logged = FALSE /\ tpOpen = TRUE /\ listener = 0
      /\ signalled = {} /\ permits = {} /\ cancelled = "no"
      /\ manager = [g \in Gens |-> IF g = 1 THEN "spawned" ELSE "none"]
      /\ ready = [g \in Gens |-> FALSE] /\ upstreamState = [g \in Gens |-> "SoloMining"]
      /\ upstream = [g \in Gens |-> "none"] /\ jds = [g \in Gens |-> "none"]
      /\ io = [g \in Gens |-> 0] /\ server = [g \in Gens |-> "none"]
      /\ client = [c \in Clients |-> NoClient]
  BY DEF Init
<1>6. 1 \in Gens /\ 1 \in 1..MaxRetries /\ 0 \in 0..NumUpstreams BY RuntimeAssumption DEF Gens
<1> QED BY <1>1, <1>2, <1>3, <1>4, <1>5, <1>6 DEF TypeOK

\* Every step keeps the types; that the IO tasks of a generation stay bounded
\* rests on the attempts left, and that nobody signals a later generation on
\* there being nobody in it.
LEMMA RuntimeTypeStep ==
    ASSUME TypeOK, LaterAbsent, Attempts, [Next]_vars PROVE TypeOK'
<1> USE RuntimeAssumption
<1> USE DEF TypeOK, Gens, init, token, core, peers, serving, vars
<1> DEFINE Bound == MaxRetries * NumUpstreams + 2
<1>b. /\ Bound \in Nat
      /\ main = "init" /\ flagged < NumUpstreams => io[gen] + 2 \in 0..Bound
  <2>1. MaxRetries * NumUpstreams \in Nat BY AttemptsFit
  <2>2. ASSUME main = "init", flagged < NumUpstreams PROVE io[gen] + 2 \in 0..Bound
    <3>1. flagged * MaxRetries \in Nat /\ flagged * MaxRetries + MaxRetries <= MaxRetries * NumUpstreams
      BY <2>2, AttemptsFit
    <3>2. io[gen] <= flagged * MaxRetries + attempt - 1 BY <2>2 DEF Attempts
    <3>3. io[gen] \in Nat /\ attempt \in Nat /\ attempt <= MaxRetries BY <2>1
    <3> HIDE DEF TypeOK
    <3> QED BY <2>1, <3>1, <3>2, <3>3
  <2> QED BY <2>1, <2>2
<1>n. NoClient \in [st : {"idle", "handshake", "open"}, gen : {0} \cup Gens] BY DEF NoClient
<1> HIDE DEF Bound
<1>1. CASE PoolUnreachable
  BY <1>1 DEF PoolUnreachable, Initializing, AttemptFails
<1>2. CASE JdsUnreachable \/ Connect
  <2>1. io' \in [Gens -> 0..Bound]
    <3>1. io[gen] + 1 \in 0..Bound /\ io[gen] + 2 \in 0..Bound
      <4>1. io[gen] \in Nat BY <1>b
      <4> QED BY <1>2, <1>b, <4>1 DEF JdsUnreachable, Connect, Initializing
    <3>2. io \in [Gens -> 0..Bound] BY DEF Bound
    <3> QED BY <1>2, <3>1, <3>2 DEF JdsUnreachable, Connect
  <2>2. attempt' \in 1..MaxRetries /\ flagged' \in 0..NumUpstreams
    <3>1. attempt \in 1..MaxRetries /\ flagged \in 0..NumUpstreams /\ flagged < NumUpstreams
      BY <1>2 DEF JdsUnreachable, Connect
    <3>2. \/ attempt' = 1 /\ flagged' = flagged + 1
          \/ attempt # MaxRetries /\ attempt' = attempt + 1 /\ flagged' = flagged
      BY <1>2 DEF JdsUnreachable, Connect, AttemptFails
    <3> HIDE DEF TypeOK
    <3> QED BY <3>1, <3>2
  <2>3. CASE JdsUnreachable BY <2>1, <2>2, <2>3 DEF JdsUnreachable, Bound
  <2>4. CASE Connect BY <2>1, <2>2, <2>4 DEF Connect, Bound
  <2> QED BY <1>2, <2>3, <2>4
<1>m. /\ SetSoloMining => mode' \in [config : Modes, inner : {"solo", "jd"}]
      /\ SetupJds => mode' \in [config : Modes, inner : {"solo", "jd"}]
  <2>1. mode.config \in {"solo", "jd"} BY ModeSet
  <2> QED BY <2>1, ModeSet DEF SetSoloMining, SetupJds
<1>3. CASE GiveUp BY <1>3, <1>m DEF GiveUp
<1>4. CASE SetupUpstream \/ SetupUpstreamLogged \/ SetupJds \/ SetupJdsRedirected
  <2>1. CASE SetupUpstream BY <2>1 DEF SetupUpstream
  <2>2. CASE SetupUpstreamLogged BY <2>2 DEF SetupUpstreamLogged
  <2>3. CASE SetupJds BY <2>3, <1>m DEF SetupJds
  <2>4. CASE SetupJdsRedirected BY <2>4 DEF SetupJdsRedirected
  <2> QED BY <1>4, <2>1, <2>2, <2>3, <2>4
<1>5. CASE SetupUpstreamFails
  <2>1. signalled' \subseteq 1..gen /\ permits \subseteq signalled'
    BY <1>5, TokensStayTyped DEF SetupUpstreamFails
  <2> QED BY <1>5, <2>1 DEF SetupUpstreamFails
<1>6. CASE SetupJdsFails \/ SetupJdsLogged
  <2>1. signalled' \subseteq 1..gen /\ permits' \subseteq signalled'
    <3> HIDE DEF TypeOK
    <3>1. UNCHANGED signalled \/ Signal(gen) BY <1>6 DEF SetupJdsFails, SetupJdsLogged
    <3>2. Done(gen) BY <1>6 DEF SetupJdsFails, SetupJdsLogged
    <3>3. gen \in Gens /\ gen <= gen BY DEF TypeOK
    <3> QED BY <3>1, <3>2, <3>3, TokensStayTyped
  <2>2. CASE SetupJdsFails BY <2>1, <2>2 DEF SetupJdsFails
  <2>3. CASE SetupJdsLogged BY <2>1, <2>3 DEF SetupJdsLogged
  <2> QED BY <1>6, <2>2, <2>3
<1>7. CASE Serve \/ Trigger \/ Shutdown
  <2>1. CASE Serve BY <2>1 DEF Serve
  <2>2. CASE Trigger BY <2>2 DEF Trigger
  <2>3. CASE Shutdown BY <2>3 DEF Shutdown
  <2> QED BY <1>7, <2>1, <2>2, <2>3
<1>8. CASE Restart
  <2>1. /\ gen + 1 \in Gens /\ gen' = gen + 1 /\ main' = "init" /\ logged' = FALSE
        /\ UNCHANGED <<attempt, flagged, signalled, permits, ready, upstreamState, tpOpen, peers, serving>>
    BY <1>8 DEF Restart
  <2>2. /\ manager' \in [Gens -> {"none", "spawned", "running", "closing", "closed"}]
        /\ cancelled' \in {"no", "yes"}
    BY <1>8, <2>1 DEF Restart, StartManager
  <2>3. mode' \in [config : Modes, inner : {"solo", "jd"}] BY <1>8, <1>m DEF Restart
  <2>4. signalled' \subseteq 1..gen' /\ permits' \subseteq signalled' BY <2>1
  <2> QED BY <2>1, <2>2, <2>3, <2>4
<1>9. CASE Stop
  <2>1. io' \in [Gens -> 0..Bound] BY <1>9, <1>b DEF Stop
  <2>2. client' \in [Clients -> [st : {"idle", "handshake", "open"}, gen : {0} \cup Gens]]
    BY <1>9, <1>n DEF Stop
  <2> QED BY <1>9, <2>1, <2>2 DEF Stop, Joined, Bound
<1>10. ASSUME NEW g \in Gens, PollManager(g) \/ Templates(g) \/ Reset(g) \/ ManagerStops(g)
       PROVE TypeOK'
  <2>1. CASE PollManager(g) BY <2>1 DEF PollManager
  <2>2. CASE Templates(g) BY <2>2 DEF Templates
  <2>3. CASE Reset(g) BY <2>3 DEF Reset
  <2>4. CASE ManagerStops(g) BY <2>4 DEF ManagerStops
  <2> QED BY <1>10, <2>1, <2>2, <2>3, <2>4
<1>11. ASSUME NEW g \in Gens, CloseManager(g) PROVE TypeOK'
  <2>1. permits' \subseteq signalled' BY <1>11, TokensStayTyped DEF CloseManager
  <2> QED BY <1>11, <2>1 DEF CloseManager
<1>12. ASSUME NEW g \in Gens, ManagerFails(g) PROVE TypeOK'
  <2>1. g <= gen BY <1>12 DEF ManagerFails, LaterAbsent
  <2>2. signalled' \subseteq 1..gen /\ permits \subseteq signalled'
    BY <1>12, <2>1, TokensStayTyped DEF ManagerFails
  <2> QED BY <1>12, <2>2 DEF ManagerFails
<1>13. ASSUME NEW g \in Gens, ServerReady(g) \/ ServerGivesUp(g) \/ Bind(g) \/ DropListener(g)
       PROVE TypeOK'
  <2>1. CASE Bind(g) BY <2>1 DEF Bind
  <2>2. CASE ServerReady(g) BY <2>2 DEF ServerReady
  <2>3. CASE DropListener(g) BY <2>3 DEF DropListener
  <2>4. CASE ServerGivesUp(g) BY <2>4 DEF ServerGivesUp
  <2> QED BY <1>13, <2>1, <2>2, <2>3, <2>4
<1>14. ASSUME NEW g \in Gens, ServerStops(g) PROVE TypeOK'
  <2>1. permits' \subseteq signalled' BY <1>14, TokensStayTyped DEF ServerStops
  <2> QED BY <1>14, <2>1 DEF ServerStops
<1>15. ASSUME NEW g \in Gens, IoEnds(g) PROVE TypeOK'
  <2>1. permits' \subseteq signalled' BY <1>15, TokensStayTyped DEF IoEnds
  <2>2. io' \in [Gens -> 0..Bound] BY <1>15, <1>b DEF IoEnds, Bound
  <2> QED BY <1>15, <2>1, <2>2 DEF IoEnds, Bound
<1>16. ASSUME NEW g \in Gens, PollUpstream(g) PROVE TypeOK'
  BY <1>16 DEF PollUpstream
<1>17. ASSUME NEW g \in Gens, UpstreamEnds(g) \/ JdsEnds(g) PROVE TypeOK'
  <2>1. g <= gen BY <1>17 DEF UpstreamEnds, JdsEnds, LaterAbsent
  <2>2. signalled' \subseteq 1..gen /\ permits' \subseteq signalled'
    BY <1>17, <2>1, TokensStayTyped DEF UpstreamEnds, JdsEnds
  <2>3. CASE UpstreamEnds(g) BY <2>2, <2>3 DEF UpstreamEnds
  <2>4. CASE JdsEnds(g) BY <2>2, <2>4 DEF JdsEnds
  <2> QED BY <1>17, <2>3, <2>4
<1>18. ASSUME NEW g \in Gens, NEW c \in Clients, Accept(c, g) \/ Disconnect(c, g) PROVE TypeOK'
  <2>1. permits' \subseteq signalled' BY <1>18, TokensStayTyped DEF Accept, Disconnect
  <2>2. client' \in [Clients -> [st : {"idle", "handshake", "open"}, gen : {0} \cup Gens]]
    <3>1. [st |-> "handshake", gen |-> g] \in [st : {"idle", "handshake", "open"}, gen : {0} \cup Gens]
      OBVIOUS
    <3> QED BY <1>18, <1>n, <3>1 DEF Accept, Disconnect
  <2>3. CASE Accept(c, g) BY <2>1, <2>2, <2>3 DEF Accept
  <2>4. CASE Disconnect(c, g) BY <2>1, <2>2, <2>4 DEF Disconnect
  <2> QED BY <1>18, <2>3, <2>4
<1>19. ASSUME NEW c \in Clients, Bootstrap(c) \/ BootstrapFails(c) PROVE TypeOK'
  <2> DEFINE C == [st : {"idle", "handshake", "open"}, gen : {0} \cup Gens]
  <2>1. client' \in [Clients -> [st : {"idle", "handshake", "open"}, gen : {0} \cup Gens]]
    <3>1. client \in [Clients -> C] /\ NoClient \in C BY <1>n
    <3>2. [client[c] EXCEPT !.st = "open"] \in C
      <4> HIDE DEF TypeOK
      <4>1. client[c] \in C BY <3>1
      <4> QED BY <4>1, Zenon
    <3>3. \/ client' = [client EXCEPT ![c] = [client[c] EXCEPT !.st = "open"]]
          \/ client' = [client EXCEPT ![c] = NoClient]
      BY <1>19, <3>1 DEF Bootstrap, BootstrapFails
    <3> HIDE DEF C, TypeOK
    <3>4. client' \in [Clients -> C] BY <3>1, <3>2, <3>3
    <3> QED BY <3>4 DEF C
  <2>2. CASE Bootstrap(c) BY <2>1, <2>2 DEF Bootstrap
  <2>3. CASE BootstrapFails(c) BY <2>1, <2>3 DEF BootstrapFails
  <2> QED BY <1>19, <2>2, <2>3
<1>20. CASE UNCHANGED vars BY <1>20
<1> QED BY <1>1, <1>2, <1>3, <1>4, <1>5, <1>6, <1>7, <1>8, <1>9, <1>10, <1>11, <1>12, <1>13, <1>14,
           <1>15, <1>16, <1>17, <1>18, <1>19, <1>20
        DEF Next, MainStep, ManagerStep, ServerStep

\* At the start only the first manager is there.
LEMMA FallbackInit == ASSUME Init PROVE Fallback
<1>1. LaterAbsent BY DEF Init, LaterAbsent
<1>2. Retired BY DEF Init, Retired, Gens
<1>3. Registered BY DEF Init, Registered
<1>4. Noticed BY DEF Init, Noticed, ClosedIsSignalled, TemplatesSurvive
<1>5. Attempts
  <2>1. 0 * MaxRetries = 0 BY RuntimeAssumption
  <2> QED BY <2>1, RuntimeAssumption DEF Init, Attempts, Gens
<1> QED BY <1>1, <1>2, <1>3, <1>4, <1>5 DEF Fallback

\* Every step of the main task, the tasks of a generation and the miners keeps
\* the generations apart.
LEMMA FallbackStep ==
    ASSUME TypeOK, Fallback, [Next]_vars PROVE Fallback'
<1>g. /\ MaxGen \in Nat /\ Gens = 1..MaxGen /\ gen \in Gens
      /\ manager \in [Gens -> {"none", "spawned", "running", "closing", "closed"}]
      /\ upstream \in [Gens -> {"none", "spawned", "running", "closed"}]
      /\ jds \in [Gens -> {"none", "running", "closed"}]
      /\ \A g \in Gens : io[g] \in Nat
      /\ cancelled \in {"no", "yes"} /\ logged \in BOOLEAN
      /\ DOMAIN io = Gens /\ io = [g \in Gens |-> io[g]]
      /\ signalled \subseteq 1..gen /\ permits \subseteq signalled
  <2>1. MaxRetries * NumUpstreams \in Nat BY AttemptsFit, RuntimeAssumption
  <2> QED BY <2>1, RuntimeAssumption DEF TypeOK, Gens
<1> USE <1>g
<1> USE DEF Fallback, LaterAbsent, Retired, Registered, Noticed, ClosedIsSignalled, TemplatesSurvive,
            Over, init, token, core, peers, serving, vars
<1>1. CASE PoolUnreachable \/ JdsUnreachable
  <2>1. Attempts'
    <3>1. flagged * MaxRetries \in Nat /\ (flagged + 1) * MaxRetries = flagged * MaxRetries + MaxRetries
      BY AttemptsFit, RuntimeAssumption DEF TypeOK
    <3>2. attempt \in Nat /\ MaxRetries \in Nat BY RuntimeAssumption DEF TypeOK
    <3>3. /\ io[gen] <= flagged * MaxRetries + attempt - 1
          /\ gen' = gen /\ io'[gen] \in {io[gen], io[gen] + 1}
          /\ \/ attempt = MaxRetries /\ attempt' = 1 /\ flagged' = flagged + 1
             \/ attempt' = attempt + 1 /\ flagged' = flagged
      BY <1>1 DEF PoolUnreachable, JdsUnreachable, Initializing, Attempts, AttemptFails
    <3>4. flagged' * MaxRetries + attempt' - 1 = flagged * MaxRetries + attempt
      BY <3>1, <3>2, <3>3
    <3> QED BY <3>1, <3>2, <3>3, <3>4 DEF Attempts
  <2> QED BY <1>1, <2>1 DEF PoolUnreachable, JdsUnreachable, Initializing
<1>2. CASE Connect BY <1>2 DEF Connect, Initializing, Attempts
<1>3. CASE GiveUp BY <1>3 DEF GiveUp, Attempts
<1>4. CASE SetupUpstream \/ SetupUpstreamLogged \/ SetupJds \/ SetupJdsRedirected
  BY <1>4 DEF SetupUpstream, SetupUpstreamLogged, SetupJds, SetupJdsRedirected, Attempts
<1>5. CASE SetupUpstreamFails
  <2>1. /\ UNCHANGED <<gen, logged, cancelled, permits, manager, tpOpen, io>> /\ main' = "jds"
        /\ main = "upstream" /\ upstream' = [upstream EXCEPT ![gen] = "closed"]
        /\ jds' = [jds EXCEPT ![gen] = "running"]
        /\ signalled' = signalled \/ signalled' = signalled \cup {gen}
        /\ Over(gen)'
    BY <1>5, SignalOver DEF SetupUpstreamFails
  <2>2. LaterAbsent' /\ Retired' /\ Attempts' BY <2>1 DEF Attempts
  <2>3. Registered' BY <2>1
  <2>4. Noticed' BY <2>1
  <2> QED BY <2>2, <2>3, <2>4
<1>6. CASE SetupJdsFails \/ SetupJdsLogged
  <2>1. CASE SetupJdsFails
    <3>1. /\ UNCHANGED <<gen, logged, cancelled, manager, tpOpen, upstream, io>>
          /\ main = "jds" /\ main' = "serve" /\ jds' = [jds EXCEPT ![gen] = "closed"]
          /\ signalled' = signalled \/ signalled' = signalled \cup {gen}
          /\ Over(gen)'
      BY <2>1, SignalOver DEF SetupJdsFails
    <3>2. Retired' BY <2>1, <3>1, DonePermits DEF SetupJdsFails
    <3>3. LaterAbsent' /\ Attempts' BY <3>1 DEF Attempts
    <3>4. Registered' BY <3>1
    <3>5. Noticed' BY <3>1
    <3> QED BY <3>2, <3>3, <3>4, <3>5
  <2>2. CASE SetupJdsLogged BY <2>2, DonePermits DEF SetupJdsLogged, Attempts
  <2> QED BY <1>6, <2>1, <2>2
<1>7. CASE Serve \/ Trigger \/ Shutdown
  BY <1>7 DEF Serve, Trigger, Shutdown, Attempts
<1>8. CASE Restart
  <2>1. manager[gen] \in {"none", "closed"} BY <1>8 DEF Restart, Busy
  <2>2. /\ gen' = gen + 1 /\ gen' \in Gens /\ main' = "init"
        /\ UNCHANGED <<attempt, flagged, signalled, permits, tpOpen, upstream, jds, io>>
        /\ \A g \in Gens : g # gen' => manager'[g] = manager[g]
        /\ manager'[gen'] \in {"none", "spawned"}
        /\ cancelled = "yes" => cancelled' = "yes"
        /\ cancelled' = "no" => cancelled = "no"
    BY <1>8 DEF Restart, StartManager
  <2>3. Attempts'
    <3>1. flagged * MaxRetries \in Nat /\ attempt \in Nat /\ attempt >= 1
      BY AttemptsFit, RuntimeAssumption DEF TypeOK
    <3>2. io'[gen'] = 0 BY <2>2
    <3> QED BY <2>2, <3>1, <3>2 DEF Attempts
  <2>4. LaterAbsent' BY <2>2
  <2>5. Retired' BY <2>1, <2>2
  <2>6. Registered' BY <2>2
  <2>7. Noticed'
    <3>1. gen \in signalled /\ \A g \in Gens : g > gen => upstream[g] = "none" /\ jds[g] = "none"
      BY <1>8 DEF Restart
    <3> QED BY <2>2, <3>1
  <2> QED BY <2>3, <2>4, <2>5, <2>6, <2>7
<1>9. CASE Stop
  BY <1>9 DEF Stop, Joined, Attempts
<1>10. ASSUME NEW g \in Gens, PollManager(g) \/ Templates(g) \/ Reset(g) \/ ManagerStops(g)
       PROVE Fallback'
  <2>1. CASE PollManager(g) BY <2>1 DEF PollManager, Attempts
  <2>2. CASE Templates(g) BY <2>2 DEF Templates, Attempts
  <2>3. CASE Reset(g) BY <2>3 DEF Reset, Attempts
  <2>4. CASE ManagerStops(g) BY <2>4 DEF ManagerStops, Attempts
  <2> QED BY <1>10, <2>1, <2>2, <2>3, <2>4
<1>11. ASSUME NEW g \in Gens, CloseManager(g) PROVE Fallback'
  <2>1. /\ UNCHANGED <<main, gen, attempt, flagged, logged, signalled, cancelled, upstream, jds, io>>
        /\ manager[g] = "closing" /\ manager' = [manager EXCEPT ![g] = "closed"]
        /\ tpOpen' = (tpOpen /\ cancelled = "no" /\ g \in signalled)
    BY <1>11 DEF CloseManager
  <2>2. \A h \in Gens : h \in permits' => h \in permits \/ h = g
    BY <1>11, DonePermits DEF CloseManager
  <2>3. LaterAbsent' BY <2>1
  <2>4. Retired' BY <2>1, <2>2
  <2>5. Registered' BY <2>1
  <2>6. Noticed' BY <2>1
  <2>7. Attempts' BY <2>1 DEF Attempts
  <2> QED BY <2>3, <2>4, <2>5, <2>6, <2>7
<1>12. ASSUME NEW g \in Gens, ManagerFails(g) PROVE Fallback'
  <2>1. /\ UNCHANGED <<main, gen, attempt, flagged, logged, permits, cancelled, tpOpen, upstream, jds, io>>
        /\ manager[g] = "running" /\ manager' = [manager EXCEPT ![g] = "closing"]
        /\ signalled' = signalled \/ signalled' = signalled \cup {g}
        /\ Over(g)'
    BY <1>12, SignalOver DEF ManagerFails
  <2>2. LaterAbsent' /\ Retired' /\ Attempts' BY <2>1 DEF Attempts
  <2>3. Registered' BY <2>1
  <2>4. Noticed' BY <2>1
  <2> QED BY <2>2, <2>3, <2>4
<1>13. ASSUME NEW g \in Gens, ServerReady(g) \/ ServerGivesUp(g) \/ Bind(g) \/ DropListener(g)
       PROVE Fallback'
  BY <1>13 DEF ServerReady, ServerGivesUp, Bind, DropListener, Attempts
<1>14. ASSUME NEW g \in Gens, ServerStops(g) PROVE Fallback'
  BY <1>14, DonePermits DEF ServerStops, Attempts
<1>15. ASSUME NEW g \in Gens, IoEnds(g) PROVE Fallback'
  <2>1. \A h \in Gens : io'[h] \in Nat /\ io'[h] <= io[h] BY <1>15 DEF IoEnds
  <2>2. Attempts'
    <3>1. flagged * MaxRetries \in Nat /\ attempt \in Nat
      BY AttemptsFit, RuntimeAssumption DEF TypeOK
    <3> QED BY <1>15, <2>1, <3>1 DEF IoEnds, Attempts
  <2> QED BY <1>15, <2>1, <2>2, DonePermits DEF IoEnds
<1>16. ASSUME NEW g \in Gens, PollUpstream(g) PROVE Fallback'
  BY <1>16 DEF PollUpstream, Attempts
<1>17. ASSUME NEW g \in Gens, UpstreamEnds(g) \/ JdsEnds(g) PROVE Fallback'
  <2>1. CASE UpstreamEnds(g)
    <3>1. /\ UNCHANGED <<main, gen, attempt, flagged, logged, cancelled, manager, tpOpen, jds, io>>
          /\ upstream[g] = "running" /\ upstream' = [upstream EXCEPT ![g] = "closed"]
          /\ signalled' = signalled \/ signalled' = signalled \cup {g}
          /\ Over(g)'
      BY <2>1, SignalOver DEF UpstreamEnds
    <3>2. Retired' BY <2>1, <3>1, DonePermits DEF UpstreamEnds
    <3>3. LaterAbsent' BY <3>1
    <3>4. Registered' BY <3>1
    <3>5. Noticed' BY <3>1
    <3>6. Attempts' BY <3>1 DEF Attempts
    <3> QED BY <3>2, <3>3, <3>4, <3>5, <3>6
  <2>2. CASE JdsEnds(g)
    <3>1. /\ UNCHANGED <<main, gen, attempt, flagged, logged, cancelled, manager, tpOpen, upstream, io>>
          /\ jds[g] = "running" /\ jds' = [jds EXCEPT ![g] = "closed"]
          /\ signalled' = signalled \/ signalled' = signalled \cup {g}
          /\ Over(g)'
      BY <2>2, SignalOver DEF JdsEnds
    <3>2. Retired' BY <2>2, <3>1, DonePermits DEF JdsEnds
    <3>3. LaterAbsent' BY <3>1
    <3>4. Registered' BY <3>1
    <3>5. Noticed' BY <3>1
    <3>6. Attempts' BY <3>1 DEF Attempts
    <3> QED BY <3>2, <3>3, <3>4, <3>5, <3>6
  <2> QED BY <1>17, <2>1, <2>2
<1>18. ASSUME NEW g \in Gens, NEW c \in Clients, Accept(c, g) \/ Disconnect(c, g) PROVE Fallback'
  BY <1>18, DonePermits DEF Accept, Disconnect, Attempts
<1>19. ASSUME NEW c \in Clients, Bootstrap(c) \/ BootstrapFails(c) PROVE Fallback'
  BY <1>19 DEF Bootstrap, BootstrapFails, Attempts
<1>20. CASE UNCHANGED vars BY <1>20 DEF Attempts
<1> QED BY <1>1, <1>2, <1>3, <1>4, <1>5, <1>6, <1>7, <1>8, <1>9, <1>10, <1>11, <1>12, <1>13, <1>14,
           <1>15, <1>16, <1>17, <1>18, <1>19, <1>20
        DEF Next, MainStep, ManagerStep, ServerStep

\* Only the present generation's manager can be running or closing.
LEMMA ManagersCounted ==
    ASSUME TypeOK, Fallback PROVE OneManager
<1> DEFINE Live == {g \in Gens : manager[g] \in {"running", "closing"}}
<1>1. gen \in Gens /\ gen \in Nat /\ \A g \in Gens : g \in Nat
  BY RuntimeAssumption DEF TypeOK, Gens
<1>2. Live \subseteq {gen}
  <2> SUFFICES ASSUME NEW g \in Gens, manager[g] \in {"running", "closing"} PROVE g = gen OBVIOUS
  <2>1. ~(g > gen) /\ ~(g < gen) BY DEF Fallback, LaterAbsent, Retired
  <2> QED BY <1>1, <2>1
<1>3. IsFiniteSet({gen}) /\ Cardinality({gen}) = 1 BY FS_Singleton
<1>4. Cardinality(Live) <= 1 BY <1>2, <1>3, FS_Subset
<1> QED BY <1>4 DEF OneManager

\* Across every sequence of fallbacks one channel manager runs at a time, what
\* has closed its channels was signalled first, and the template provider's
\* channel stays open until the client shuts down: for every number of
\* upstreams, retries, miners and generations.
THEOREM ClientTasks == Spec => []TasksInv
<1>1. Init => TypeOK /\ Fallback BY RuntimeTypeInit, FallbackInit
<1>2. TypeOK /\ Fallback /\ [Next]_vars => (TypeOK /\ Fallback)'
  BY RuntimeTypeStep, FallbackStep DEF Fallback
<1>3. TypeOK /\ Fallback => TasksInv
  BY ManagersCounted DEF Fallback, Noticed, TasksInv
<1> QED BY <1>1, <1>2, <1>3, PTL DEF Spec

-----------------------------------------------------------------------------
(* The mode of the client. *)

\* The modes fit from the moment the main task has set them.  Before, the client
\* is in solo mode; while it looks for an upstream nothing of the generation is
\* there, and it has a job declarator from the moment it waits for its answer.
Agreement ==
    /\ main \in {"init", "upstream", "jds"} => mode.inner = "solo"
    /\ main \in {"init", "upstream"} => upstream[gen] = "none" /\ jds[gen] = "none"
    /\ main = "jds" => jds[gen] = "running"
    /\ main \in {"serve", "loop"} /\ ~Over(gen) =>
          /\ mode.inner = "jd" => jds[gen] = "running" /\ upstreamState[gen] = "NoChannel"
          /\ upstreamState[gen] = "SoloMining" =>
                mode.inner = "solo" /\ upstream[gen] = "none" /\ jds[gen] = "none"

\* Every step keeps the modes in agreement.
LEMMA AgreementStep ==
    ASSUME TypeOK, LaterAbsent, Agreement, [Next]_vars PROVE Agreement'
<1>g. /\ gen \in Gens /\ MaxGen \in Nat /\ Gens = 1..MaxGen
      /\ upstreamState \in [Gens -> {"NoChannel", "SoloMining"}]
      /\ upstream \in [Gens -> {"none", "spawned", "running", "closed"}]
      /\ jds \in [Gens -> {"none", "running", "closed"}]
      /\ mode \in [config : Modes, inner : {"solo", "jd"}] /\ Modes \subseteq {"solo", "jd"}
  BY RuntimeAssumption DEF TypeOK, Gens
<1> USE <1>g
<1> USE DEF Agreement, Over, init, token, core, peers, serving, vars
<1>1. CASE PoolUnreachable \/ JdsUnreachable \/ Connect
  BY <1>1 DEF PoolUnreachable, JdsUnreachable, Connect, Initializing
<1>m. /\ SetSoloMining => mode'.inner = "solo"
      /\ SetupJds => mode'.inner = mode.config /\ mode.config \in {"solo", "jd"}
  <2>1. mode.config \in {"solo", "jd"} BY ModeSet
  <2> QED BY <2>1, ModeSet DEF SetSoloMining, SetupJds
<1>2. CASE GiveUp BY <1>2, <1>m DEF GiveUp, Initializing
<1>3. CASE SetupUpstream \/ SetupUpstreamLogged BY <1>3 DEF SetupUpstream, SetupUpstreamLogged
<1>4. CASE SetupUpstreamFails BY <1>4 DEF SetupUpstreamFails
<1>5. CASE SetupJds \/ SetupJdsRedirected
  <2>1. CASE SetupJds
    <3>1. /\ UNCHANGED <<gen, signalled, cancelled, upstream, jds>> /\ main' = "serve"
          /\ upstreamState'[gen] = "NoChannel" /\ jds[gen] = "running"
      BY <2>1 DEF SetupJds
    <3> QED BY <3>1
  <2>2. CASE SetupJdsRedirected BY <2>2 DEF SetupJdsRedirected
  <2> QED BY <1>5, <2>1, <2>2
<1>6. CASE SetupJdsFails \/ SetupJdsLogged
  BY <1>6, SignalOver DEF SetupJdsFails, SetupJdsLogged
<1>7. CASE Serve \/ Trigger \/ Shutdown
  <2>1. CASE Serve BY <2>1 DEF Serve
  <2>2. CASE Trigger BY <2>2 DEF Trigger
  <2>3. CASE Shutdown BY <2>3 DEF Shutdown
  <2> QED BY <1>7, <2>1, <2>2, <2>3
<1>8. CASE Restart \/ Stop
  <2>1. CASE Restart
    <3>1. upstream[gen + 1] = "none" /\ jds[gen + 1] = "none" BY <2>1 DEF Restart, LaterAbsent
    <3>2. mode'.inner = "solo" /\ gen' = gen + 1 /\ main' = "init" /\ UNCHANGED <<upstream, jds>>
      BY <2>1, <1>m DEF Restart
    <3> QED BY <3>1, <3>2
  <2>2. CASE Stop BY <2>2 DEF Stop
  <2> QED BY <1>8, <2>1, <2>2
<1>9. ASSUME NEW g \in Gens, PollManager(g) \/ Templates(g) \/ ManagerStops(g) \/ CloseManager(g)
      PROVE Agreement'
  BY <1>9 DEF PollManager, Templates, ManagerStops, CloseManager
<1>10. ASSUME NEW g \in Gens, Reset(g) PROVE Agreement' BY <1>10 DEF Reset
<1>11. ASSUME NEW g \in Gens, ManagerFails(g) PROVE Agreement' BY <1>11, SignalOver DEF ManagerFails
<1>12. ASSUME NEW g \in Gens, ServerStep(g) PROVE Agreement'
  BY <1>12 DEF ServerStep, ServerReady, ServerGivesUp, Bind, ServerStops, DropListener
<1>13. ASSUME NEW g \in Gens, IoEnds(g) \/ PollUpstream(g) PROVE Agreement'
  BY <1>13 DEF IoEnds, PollUpstream
<1>14. ASSUME NEW g \in Gens, UpstreamEnds(g) \/ JdsEnds(g) PROVE Agreement'
  <2>1. CASE UpstreamEnds(g) BY <2>1, SignalOver DEF UpstreamEnds
  <2>2. CASE JdsEnds(g) BY <2>2, SignalOver DEF JdsEnds
  <2> QED BY <1>14, <2>1, <2>2
<1>15. ASSUME NEW g \in Gens, NEW c \in Clients, Accept(c, g) \/ Disconnect(c, g) PROVE Agreement'
  BY <1>15 DEF Accept, Disconnect
<1>16. ASSUME NEW c \in Clients, Bootstrap(c) \/ BootstrapFails(c) PROVE Agreement'
  BY <1>16 DEF Bootstrap, BootstrapFails
<1>17. CASE UNCHANGED vars BY <1>17
<1> QED BY <1>1, <1>2, <1>3, <1>4, <1>5, <1>6, <1>7, <1>8, <1>9, <1>10, <1>11, <1>12, <1>13, <1>14,
           <1>15, <1>16, <1>17 DEF Next, MainStep, ManagerStep

\* In its loop, with nothing signalled, the client declares jobs only with a
\* job declarator that runs and a manager that opens channels upstream, and a
\* manager that mines alone has no connection and is in solo mode: for every
\* configured mode, whatever the pools and the JDSs answer.
THEOREM ClientModes == Spec => []ModesAgree
<1>1. Init => TypeOK /\ Fallback BY RuntimeTypeInit, FallbackInit
<1>2. TypeOK /\ Fallback /\ [Next]_vars => (TypeOK /\ Fallback)'
  BY RuntimeTypeStep, FallbackStep DEF Fallback
<1>3. Init => Agreement BY RuntimeAssumption DEF Init, Agreement, Gens
<1>4. TypeOK /\ Fallback /\ Agreement /\ [Next]_vars => Agreement' BY AgreementStep DEF Fallback
<1>5. Agreement => ModesAgree BY DEF Agreement, ModesAgree
<1> QED BY <1>1, <1>2, <1>3, <1>4, <1>5, PTL DEF Spec
-----------------------------------------------------------------------------
\* The barrier that Trigger passes in one step is itself several steps
\* (FallbackCoordinator).  The rest of this module proves, for any number of
\* tasks, that it never opens before every task that registered in time is
\* done; one of the tasks stays registered until the token is cancelled.

\* The initial state satisfies the invariants: exactly the anchors run.
LEMMA BarrierStart == ASSUME New PROVE BarrierTypeOK /\ BarrierInv
<1>1. Running = Anchors
  BY AnchorsAreTasks DEF New, Running
<1>2. IsFiniteSet(Anchors)
  BY FS_Subset, TasksFinite, AnchorsAreTasks
<1>3. Cardinality(Anchors) \in Nat
  BY <1>2, FS_CardinalityType
<1>4. BarrierTypeOK
  BY <1>3 DEF New, BarrierTypeOK, Stages
<1>5. BarrierInv
  BY <1>1 DEF New, BarrierInv
<1> QED BY <1>4, <1>5

\* The set of registered tasks is finite and its size is a natural number.
LEMMA RunningFinite ==
    IsFiniteSet(Running) /\ Cardinality(Running) \in Nat /\ (Cardinality(Running) = 0 <=> Running = {})
<1>1. IsFiniteSet(Running)
  BY FS_Subset, TasksFinite DEF Running
<1> QED BY <1>1, FS_CardinalityType, FS_EmptySet

\* A step preserves the invariants.
LEMMA BarrierStep ==
    ASSUME BarrierTypeOK, BarrierInv, [BarrierNext]_barrierVars
    PROVE  BarrierTypeOK' /\ BarrierInv'
<1> USE DEF BarrierTypeOK, BarrierInv, Stages
<1>f. IsFiniteSet(Running) /\ Cardinality(Running) \in Nat /\ (Cardinality(Running) = 0 <=> Running = {})
  BY RunningFinite
<1>1. ASSUME NEW t \in Tasks, Spawn(t) PROVE BarrierTypeOK' /\ BarrierInv'
  <2>1. Running' = Running BY <1>1 DEF Spawn, Running
  <2> QED BY <1>1, <2>1 DEF Spawn
<1>2. ASSUME NEW t \in Tasks, Register(t) PROVE BarrierTypeOK' /\ BarrierInv'
  <2>1. Running' = Running \cup {t} /\ t \notin Running
    BY <1>2 DEF Register, Running
  <2>2. Cardinality(Running') = Cardinality(Running) + 1
    BY <2>1, <1>f, FS_AddElement
  <2>3. signal /\ Running \subseteq late => Running' \subseteq late'
    BY <1>2, <2>1 DEF Register
  <2>4. \A u \in Tasks : pc'[u] = "released" /\ last'[u] => signal' /\ Running' \subseteq late'
    BY <1>2, <2>3 DEF Register
  <2> QED BY <1>2, <2>1, <2>2, <2>3, <2>4 DEF Register
<1>3. ASSUME NEW t \in Tasks, Release(t) PROVE BarrierTypeOK' /\ BarrierInv'
  <2>1. Running' = Running \ {t} /\ t \in Running
    BY <1>3 DEF Release, Running
  <2>2. Cardinality(Running') = Cardinality(Running) - 1
    BY <2>1, <1>f, FS_RemoveElement
  <2>3. BarrierTypeOK'
    BY <1>3, <1>f, <2>1 DEF Release
  <2>4. pending_tasks = 1 => Running' = {}
    <3>1. IsFiniteSet(Running') BY <1>f, <2>1, FS_RemoveElement
    <3>2. Cardinality(Running') = 0 => Running' = {} BY <3>1, FS_EmptySet
    <3> QED BY <3>2, <2>2, <1>f
  <2>5. (pending_tasks = 1) => signal
    <3>1. SUFFICES ASSUME ~signal, pending_tasks = 1 PROVE FALSE OBVIOUS
    <3>2. t \notin Anchors BY <1>3, <3>1 DEF Release
    <3>3. PICK a \in Anchors : TRUE BY AnchorsAreTasks
    <3>4. a \in Running' BY <3>1, <3>2, <3>3, <2>1
    <3> QED BY <3>4, <2>4, <3>1
  <2>6. \A u \in Tasks : (pc'[u] = "released" /\ last'[u]) => signal' /\ Running' \subseteq late'
    BY <1>3, <2>1, <2>4, <2>5 DEF Release
  <2> QED BY <1>3, <2>1, <2>2, <2>3, <2>6 DEF Release
<1>4. ASSUME NEW t \in Tasks, Notify(t) PROVE BarrierTypeOK' /\ BarrierInv'
  <2>1. Running' = Running BY <1>4 DEF Notify, Running
  <2> QED BY <1>4, <2>1 DEF Notify
<1>5. CASE Cancel
  <2>1. Running' = Running BY <1>5 DEF Cancel, Running
  <2> QED BY <1>5, <2>1 DEF Cancel
<1>6. CASE TriggerFallback
  <2>1. Running' = Running BY <1>6 DEF TriggerFallback, Running
  <2> QED BY <1>6, <2>1 DEF TriggerFallback
<1>7. CASE Load
  <2>1. Running' = Running BY <1>7 DEF Load, Running
  <2> QED BY <1>7, <2>1, <1>f DEF Load
<1>8. CASE Wake
  <2>1. Running' = Running BY <1>8 DEF Wake, Running
  <2> QED BY <1>8, <2>1 DEF Wake
<1>9. CASE UNCHANGED barrierVars
  <2>1. Running' = Running BY <1>9 DEF barrierVars, Running
  <2> QED BY <1>9, <2>1 DEF barrierVars
<1> QED BY <1>1, <1>2, <1>3, <1>4, <1>5, <1>6, <1>7, <1>8, <1>9 DEF BarrierNext

\* The counter, the permit and the "last one out" flags of the coordinator
\* always agree with the set of tasks that are still registered.
THEOREM BarrierInvariant == BarrierSpec => [](BarrierTypeOK /\ BarrierInv)
<1>1. New => BarrierTypeOK /\ BarrierInv BY BarrierStart
<1>2. BarrierTypeOK /\ BarrierInv /\ [BarrierNext]_barrierVars => (BarrierTypeOK /\ BarrierInv)' BY BarrierStep
<1> QED BY <1>1, <1>2, PTL DEF BarrierSpec

\* trigger_fallback_and_wait returns only after every task that registered
\* before the cancellation called done(), for every set of tasks.
THEOREM BarrierWaitsForAll == BarrierSpec => WaitsForAll
<1>1. ASSUME BarrierTypeOK, BarrierInv, [BarrierNext]_barrierVars, waiter' # waiter, waiter' = "returned"
      PROVE  \A t \in Tasks : pc'[t] = "running" => t \in late'
  <2>1. Running' = Running /\ late' = late /\ (pending_tasks = 0 \/ notify)
    BY <1>1 DEF BarrierNext, Spawn, Register, Release, Notify, Cancel, TriggerFallback, Load, Wake,
                barrierVars, Running, BarrierTypeOK
  <2>2. Running \subseteq late BY <1>1, <2>1, RunningFinite DEF BarrierInv
  <2> QED BY <2>1, <2>2 DEF Running
<1>2. BarrierTypeOK /\ BarrierInv /\ [BarrierNext]_barrierVars
      => [waiter' = "returned" => \A t \in Tasks : pc'[t] = "running" => t \in late']_waiter
  BY <1>1
<1> QED BY <1>2, BarrierInvariant, PTL DEF BarrierSpec, WaitsForAll
=============================================================================
