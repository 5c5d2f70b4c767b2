------------------------ MODULE TranslatorRuntimeProofs ------------------------
(***************************************************************************)
(* The runtime of the SV1 translator, for every number of generations,      *)
(* upstreams and retries and every set of pools: no task or connection of a *)
(* generation that was left is at work, start joins what it started         *)
(* (TasksInv), and a pool is left for its extensions only when it is        *)
(* incompatible (OnlyIncompatiblePoolsAreLeft).                             *)
(***************************************************************************)
EXTENDS TranslatorRuntime, TLAPS

States == {"none", "accepting", "spawned", "running", "late", "done"}

\* Nothing of a generation is at work.
Quiet(g) == io[g] = 0 /\ \A k \in Kinds : task[g][k] # "running"

\* A generation that was left, or whose coordinator holds the permit, has been
\* signalled and is quiet: whoever is polled from now on is late.
LeftQuiet == \A g \in Gens : g < gen \/ g \in permits => g \in signalled /\ Quiet(g)

\* A generation has no task before its upstream has accepted, hence nobody who
\* could signal it while connections are still made.
NotStarted ==
    /\ \A g \in Gens : g > gen => io[g] = 0 /\ g \notin signalled /\ \A k \in Kinds : task[g][k] = "none"
    /\ main \in {"try", "setup"} => gen \notin signalled /\ \A k \in Kinds : task[gen][k] = "none"
    /\ main = "waiting" => gen \in signalled

\* A generation keeps at most one connection of every attempt.
Attempts ==
    /\ main = "try" => io[gen] <= flagged * setup.retries + attempt - 1
    /\ main = "setup" => io[gen] <= flagged * setup.retries + attempt
    /\ main \in {"setup", "bind"} => flagged < setup.upstreams

\* join_all holds the handle of every unfinished task that makes up a
\* generation, and start ends only after that.
Handles ==
    /\ \A g \in Gens, k \in Kinds \ {"miner"} : task[g][k] # "accepting"
    /\ main = "join" =>
          \A g \in Gens, k \in Kinds \ {"miner"} : task[g][k] \notin {"none", "done"} => <<g, k>> \in managed
    /\ ended # "no" => main \in {"notify", "notified", "stopped"}
    /\ JoinedIsQuiet

\* The inductive invariant behind TasksInv.
Generations == LeftQuiet /\ NotStarted /\ Attempts /\ Handles

\* A pool that requires no more than the translator does is asked once, for
\* what the translator requires.
AskedOnce ==
    /\ asked # NoRequest /\ pool.requires \subseteq RequiredExts => asked = RequiredExts /\ asked # {}
    /\ OnlyIncompatiblePoolsAreLeft
-----------------------------------------------------------------------------
\* The attempts at the upstreams that are left fit the bound.
LEMMA ConnectionsFit ==
    ASSUME NEW f \in Nat, NEW n \in Nat, NEW m \in Nat
    PROVE  /\ f * m \in Nat /\ n * m \in Nat
           /\ (f + 1) * m = f * m + m
           /\ f < n => f * m + m <= n * m
<1>1. (f + 1) * m = f * m + m /\ f * m \in Nat /\ n * m \in Nat OBVIOUS
<1>2. ASSUME NEW k \in Nat, f <= k PROVE f * m <= k * m BY <1>2
<1>3. f < n => f * m + m <= n * m BY <1>1, <1>2
<1> QED BY <1>1, <1>3

\* The numbers a state is made of.
LEMMA Numbers ==
    ASSUME TypeOK
    PROVE  /\ MaxGen \in Nat /\ gen \in Gens /\ \A g \in Gens : g \in Nat /\ g >= 1
           /\ setup.upstreams \in Nat /\ setup.retries \in Nat /\ setup.retries >= 1
           /\ setup.upstreams * setup.retries \in Nat
           /\ flagged \in Nat /\ flagged <= setup.upstreams
           /\ attempt \in Nat /\ attempt >= 1 /\ attempt <= setup.retries
           /\ \A g \in Gens : io[g] \in Nat
<1>1. setup.upstreams \in Nat \ {0} /\ setup.retries \in Nat \ {0}
  BY TranslatorRuntimeAssumption DEF TypeOK
<1>2. setup.upstreams * setup.retries \in Nat BY <1>1, ConnectionsFit
<1>3. MaxGen \in Nat /\ gen \in Gens /\ \A g \in Gens : g \in Nat /\ g >= 1
  BY TranslatorRuntimeAssumption DEF TypeOK, Gens
<1>4. io \in [Gens -> 0..(setup.upstreams * setup.retries)] BY DEF TypeOK
<1>5. \A g \in Gens : io[g] \in Nat BY <1>2, <1>4
<1>6. attempt \in 1..setup.retries /\ flagged \in 0..setup.upstreams BY DEF TypeOK
<1> QED BY <1>1, <1>2, <1>3, <1>5, <1>6

\* A task changes its state; all others keep theirs.
LEMMA SetTask ==
    ASSUME TypeOK, NEW g \in Gens, NEW k \in Kinds, NEW st \in States, Set(g, k, st)
    PROVE  /\ task' \in [Gens -> [Kinds -> States]]
           /\ \A h \in Gens, j \in Kinds : task'[h][j] = IF h = g /\ j = k THEN st ELSE task[h][j]
<1>1. task \in [Gens -> [Kinds -> States]] BY DEF TypeOK, States
<1> QED BY <1>1 DEF Set

\* The last one out leaves a permit, after the signal and when all is quiet.
LEMMA DonePermits ==
    ASSUME NEW g \in Gens, Done(g)
    PROVE  /\ permits' = permits \/ (permits' = permits \cup {g} /\ g \in signalled')
           /\ \A h \in permits' : h \in permits \/ (h = g /\ g \in signalled' /\
                 ~(io'[g] > 0) /\ \A k \in Kinds : task'[g][k] # "running")
  BY DEF Done, Busy

\* The permits stay among the fallback tokens that are cancelled, and those
\* among the generations that exist.
LEMMA TokensStayTyped ==
    ASSUME TypeOK, NEW g \in Gens, UNCHANGED permits \/ Done(g),
           UNCHANGED signalled \/ (g <= gen /\ signalled' = signalled \cup {g})
    PROVE  signalled' \subseteq 1..gen /\ permits' \subseteq signalled'
<1>1. gen \in Nat /\ g \in Nat /\ g >= 1 BY Numbers
<1>2. signalled \subseteq 1..gen /\ permits \subseteq signalled BY DEF TypeOK
<1>3. permits' = permits \/ (permits' = permits \cup {g} /\ g \in signalled') BY DonePermits
<1>4. g <= gen => g \in 1..gen BY <1>1
<1>5. signalled' \subseteq 1..gen BY <1>2, <1>4
<1>6. permits' \subseteq signalled' BY <1>2, <1>3
<1> QED BY <1>5, <1>6

\* An attempt that fails leaves one attempt less, and no more upstreams flagged
\* than there are.
LEMMA AttemptCounted ==
    ASSUME TypeOK, flagged < setup.upstreams, AttemptFails, UNCHANGED setup
    PROVE  /\ attempt' \in 1..setup.retries /\ flagged' \in 0..setup.upstreams
           /\ flagged' * setup.retries + attempt' - 1 = flagged * setup.retries + attempt
<1>1. \/ attempt = setup.retries /\ attempt' = 1 /\ flagged' = flagged + 1
      \/ attempt # setup.retries /\ attempt' = attempt + 1 /\ flagged' = flagged
  BY DEF AttemptFails
<1>2. /\ flagged * setup.retries \in Nat
      /\ (flagged + 1) * setup.retries = flagged * setup.retries + setup.retries
  BY Numbers, ConnectionsFit
<1>3. attempt' \in 1..setup.retries /\ flagged' \in 0..setup.upstreams BY <1>1, Numbers
<1>4. flagged' * setup.retries + attempt' - 1 = flagged * setup.retries + attempt
  BY <1>1, <1>2, Numbers
<1> QED BY <1>3, <1>4

\* The types at the start.
LEMMA TranslatorTypeInit == ASSUME Init PROVE TypeOK
<1>1. setup.upstreams \in Nat \ {0} /\ setup.retries \in Nat \ {0}
  BY TranslatorRuntimeAssumption DEF Init
<1>2. 0 \in 0..(setup.upstreams * setup.retries)
  <2>1. setup.upstreams * setup.retries \in Nat BY <1>1, ConnectionsFit
  <2> QED BY <2>1
<1>3. gen \in Gens /\ attempt \in 1..setup.retries /\ flagged \in 0..setup.upstreams
  BY <1>1, TranslatorRuntimeAssumption DEF Init, Gens
<1>4. io \in [Gens -> 0..(setup.upstreams * setup.retries)] BY <1>2 DEF Init
<1>5. task \in [Gens -> [Kinds -> States]] BY DEF Init, States
<1>6. signalled \subseteq 1..gen /\ permits \subseteq signalled /\ managed \subseteq Gens \X Kinds
  BY DEF Init
<1> QED BY <1>3, <1>4, <1>5, <1>6 DEF Init, TypeOK, States

\* Every step keeps the types; that the connections of a generation stay
\* bounded rests on the attempts left.
LEMMA TranslatorTypeStep ==
    ASSUME TypeOK, NotStarted, Attempts, [Next]_vars PROVE TypeOK'
<1> USE DEF init, conns, token, negotiation, api, vars
<1> DEFINE Bound == setup.upstreams * setup.retries
<1>n. /\ gen \in Gens /\ \A g \in Gens : g \in Nat
      /\ io \in [Gens -> 0..Bound] /\ Bound \in Nat
      /\ task \in [Gens -> [Kinds -> States]]
      /\ "upstream" \in Kinds /\ "server" \in Kinds /\ "manager" \in Kinds /\ "miner" \in Kinds
  BY Numbers DEF TypeOK, States, Kinds
<1>s. \A g \in Gens : (\E k \in Kinds : task[g][k] = "running") => g <= gen
  BY <1>n DEF NotStarted
<1> HIDE DEF Bound
<1>1. CASE Unreachable
  BY <1>1, AttemptCounted DEF Unreachable, TypeOK
<1>2. CASE Connect
  <2>1. io[gen] + 1 \in 0..Bound
    <3>1. io[gen] + 1 <= flagged * setup.retries + setup.retries
      <4>1. flagged * setup.retries \in Nat BY Numbers, ConnectionsFit
      <4>2. io[gen] <= flagged * setup.retries + attempt - 1 BY <1>2 DEF Connect, Attempts
      <4> QED BY <4>1, <4>2, Numbers
    <3>2. flagged * setup.retries + setup.retries <= Bound /\ flagged * setup.retries \in Nat
      BY <1>2, Numbers, ConnectionsFit DEF Connect, Bound
    <3> QED BY <1>n, <3>1, <3>2, Numbers
  <2>2. io' \in [Gens -> 0..Bound] BY <1>2, <1>n, <2>1 DEF Connect
  <2> QED BY <1>2, <2>2 DEF Connect, TypeOK, Bound
<1>3. ASSUME NEW p \in setup.pools, SetupConnection(p) PROVE TypeOK'
  <2>1. task' \in [Gens -> [Kinds -> States]]
    BY <1>3, <1>n, SetTask DEF SetupConnection, States
  <2>2. asked' = NoRequest \/ asked' \subseteq SupportedExts
    BY <1>3, TranslatorRuntimeAssumption DEF SetupConnection
  <2> QED BY <1>3, <2>1, <2>2 DEF SetupConnection, TypeOK, States
<1>4. CASE SetupConnectionError
  BY <1>4, AttemptCounted DEF SetupConnectionError, TypeOK, Attempts
<1>5. CASE SetupInterrupted \/ StartServerFails \/ CouldNotInitiateSystem
  BY <1>5 DEF SetupInterrupted, StartServerFails, CouldNotInitiateSystem, InitializeFails, TypeOK
<1>6. CASE StartServer
  <2>1. task' \in [Gens -> [Kinds -> States]]
    BY <1>6, <1>n, SetTask DEF StartServer, States
  <2>2. flagged' \in 0..setup.upstreams /\ attempt' \in 1..setup.retries
    BY <1>6, Numbers DEF StartServer, Attempts
  <2> QED BY <1>6, <2>1, <2>2 DEF StartServer, TypeOK, States
<1>7. ASSUME NEW b \in BOOLEAN, Launch(b) PROVE TypeOK'
  <2>1. task' \in [Gens -> [Kinds -> States]]
    BY <1>7, <1>n, SetTask DEF Launch, States
  <2> QED BY <1>7, <2>1 DEF Launch, TypeOK, States
<1>8. CASE Trigger \/ Stop \/ CtrlC BY <1>8 DEF Trigger, Stop, CtrlC, TypeOK
<1>9. CASE Restart
  <2>1. gen' \in Gens /\ 1..gen \subseteq 1..gen'
    BY <1>9, <1>n, TranslatorRuntimeAssumption DEF Restart, Gens
  <2> QED BY <1>9, <2>1 DEF Restart, TypeOK
<1>10. CASE JoinAll
  <2>1. managed' \subseteq Gens \X Kinds BY <1>10 DEF JoinAll, Unfinished
  <2> QED BY <1>10, <2>1 DEF JoinAll, TypeOK
<1>11. CASE Joined \/ JoinTimeout BY <1>11 DEF Joined, JoinTimeout, TypeOK
<1>12. CASE NotifyWaiters \/ Die BY <1>12 DEF NotifyWaiters, Die, TypeOK
<1>13. CASE Shutdown \/ ShutdownWaits
  <2>1. caller' \in {"idle", "loaded", "waiting", "returned"} BY <1>13 DEF Shutdown, ShutdownWaits
  <2>2. cancelled' \in BOOLEAN BY <1>13, Zenon DEF Shutdown, ShutdownWaits, TypeOK
  <2>3. missed' \in BOOLEAN
    <3>1. CASE Shutdown BY <3>1, Zenon DEF Shutdown, TypeOK
    <3>2. CASE ShutdownWaits BY <3>2, SMT DEF ShutdownWaits
    <3> QED BY <1>13, <3>1, <3>2
  <2> QED BY <1>13, <2>1, <2>2, <2>3 DEF Shutdown, ShutdownWaits, TypeOK
<1>14. ASSUME NEW g \in Gens, NEW k \in Kinds, Poll(g, k) PROVE TypeOK'
  <2>1. task' \in [Gens -> [Kinds -> States]]
    BY <1>14, SetTask DEF Poll, States
  <2> QED BY <1>14, <2>1 DEF Poll, TypeOK, States
<1>15. ASSUME NEW g \in Gens, NEW k \in Kinds, Exit(g, k) PROVE TypeOK'
  <2>1. task' \in [Gens -> [Kinds -> States]]
    BY <1>15, SetTask DEF Exit, States
  <2>2. permits' \subseteq signalled' BY <1>15, TokensStayTyped DEF Exit
  <2> QED BY <1>15, <2>1, <2>2 DEF Exit, TypeOK, States
<1>16. ASSUME NEW g \in Gens, NEW k \in Kinds, AskFallback(g, k) PROVE TypeOK'
  <2>1. task' \in [Gens -> [Kinds -> States]]
    BY <1>16, SetTask DEF AskFallback, States
  <2>2. signalled' \subseteq 1..gen /\ permits' \subseteq signalled'
    BY <1>16, <1>s, TokensStayTyped DEF AskFallback
  <2> QED BY <1>16, <2>1, <2>2 DEF AskFallback, TypeOK, States
<1>17. ASSUME NEW g \in Gens, NEW k \in Kinds, AskShutdown(g, k) PROVE TypeOK'
  <2>1. task' \in [Gens -> [Kinds -> States]]
    BY <1>17, SetTask DEF AskShutdown, States
  <2> QED BY <1>17, <2>1 DEF AskShutdown, TypeOK, States
<1>18. ASSUME NEW g \in Gens, BeginAccept(g) \/ SpawnDownstream(g) PROVE TypeOK'
  <2>1. task' \in [Gens -> [Kinds -> States]]
    BY <1>18, <1>n, SetTask DEF BeginAccept, SpawnDownstream, States
  <2> QED BY <1>18, <2>1 DEF BeginAccept, SpawnDownstream, TypeOK, States
<1>19. ASSUME NEW g \in Gens, MinerLeaves(g) PROVE TypeOK'
  <2>1. task' \in [Gens -> [Kinds -> States]]
    BY <1>19, <1>n, SetTask DEF MinerLeaves, States
  <2>2. permits' \subseteq signalled' BY <1>19, TokensStayTyped DEF MinerLeaves
  <2> QED BY <1>19, <2>1, <2>2 DEF MinerLeaves, TypeOK, States
<1>20. ASSUME NEW g \in Gens, IoEnds(g) PROVE TypeOK'
  <2>1. io' \in [Gens -> 0..Bound] BY <1>20, <1>n DEF IoEnds
  <2>2. permits' \subseteq signalled' BY <1>20, TokensStayTyped DEF IoEnds
  <2> QED BY <1>20, <2>1, <2>2 DEF IoEnds, TypeOK, Bound
<1>21. CASE HandleExtensionsAndLeave
  <2>1. task' \in [Gens -> [Kinds -> States]]
    BY <1>21, <1>n, SetTask DEF HandleExtensionsAndLeave, States
  <2>2. signalled' \subseteq 1..gen /\ permits' \subseteq signalled'
    BY <1>21, <1>n, TokensStayTyped DEF HandleExtensionsAndLeave
  <2> QED BY <1>21, <2>1, <2>2 DEF HandleExtensionsAndLeave, TypeOK, States
<1>22. CASE HandleExtensions
  <2>1. asked' = NoRequest \/ asked' \subseteq SupportedExts
    BY <1>22 DEF HandleExtensions, LeavesFor
  <2> QED BY <1>22, <2>1 DEF HandleExtensions, TypeOK
<1>24. ASSUME NEW g \in Gens, Stall(g) \/ Unstall(g) PROVE TypeOK'
  <2>1. stalled' \subseteq Gens BY <1>24 DEF Stall, Unstall, TypeOK
  <2>2. UNCHANGED <<setup, main, gen, attempt, flagged, signalled, permits, cancelled, task, io, managed,
                    pool, asked, left, alive, caller, missed, ended>>
    BY <1>24 DEF Stall, Unstall
  <2> QED BY <2>1, <2>2 DEF TypeOK
<1>23. CASE UNCHANGED vars BY <1>23 DEF TypeOK
<1> QED BY <1>1, <1>2, <1>3, <1>4, <1>5, <1>6, <1>7, <1>8, <1>9, <1>10, <1>11, <1>12, <1>13, <1>14,
           <1>15, <1>16, <1>17, <1>18, <1>19, <1>20, <1>21, <1>22, <1>23, <1>24
        DEF Next, MainSteps, TaskStarts, TaskEnds

\* A step of one task: of a generation that was started, never back to work
\* once its generation is signalled, and at most signalling its own generation.
LEMMA TaskMoves ==
    ASSUME TypeOK, Generations, NEW g \in Gens, NEW k \in Kinds, NEW st \in States, Set(g, k, st),
           task[g][k] \in {"spawned", "running", "late"} \/ (k = "miner" /\ task[g]["server"] = "running"),
           st = "running" => g \notin signalled,
           k # "miner" => st \in {"running", "late", "done"},
           UNCHANGED <<setup, main, gen, attempt, flagged, managed, ended, io>>,
           signalled' = signalled \/ signalled' = signalled \cup {g},
           UNCHANGED permits \/ Done(g)
    PROVE  Generations'
<1>n. gen \in Gens /\ \A h \in Gens : h \in Nat /\ io[h] \in Nat BY Numbers
<1>k. "server" \in Kinds /\ "miner" \in Kinds BY DEF Kinds
<1>1. \A h \in Gens, j \in Kinds : task'[h][j] = IF h = g /\ j = k THEN st ELSE task[h][j]
  BY SetTask
<1>2. g <= gen /\ (g = gen => main \notin {"try", "setup"})
  BY <1>n, <1>k DEF Generations, NotStarted
<1>3. \A h \in permits' : h \in permits \/
         (h = g /\ g \in signalled' /\ ~(io'[g] > 0) /\ \A j \in Kinds : task'[g][j] # "running")
  BY DonePermits
<1>4. LeftQuiet'
  <2> SUFFICES ASSUME NEW h \in Gens, h < gen \/ h \in permits'
               PROVE h \in signalled' /\ io[h] = 0 /\ \A j \in Kinds : task'[h][j] # "running"
    BY DEF LeftQuiet, Quiet
  <2>1. CASE h < gen \/ h \in permits
    <3>1. h \in signalled /\ io[h] = 0 /\ \A j \in Kinds : task[h][j] # "running"
      BY <2>1 DEF Generations, LeftQuiet, Quiet
    <3> QED BY <1>1, <3>1
  <2>2. CASE ~(h < gen) /\ h \notin permits
    <3>1. h = g /\ g \in signalled' /\ ~(io[g] > 0) /\ \A j \in Kinds : task'[g][j] # "running"
      BY <1>3, <2>2
    <3> QED BY <1>n, <3>1
  <2> QED BY <2>1, <2>2
<1>5. NotStarted' BY <1>n, <1>1, <1>2 DEF Generations, NotStarted
<1>6. Attempts' BY DEF Generations, Attempts
<1>7. Handles' BY <1>1 DEF Generations, Handles, JoinedIsQuiet
<1> QED BY <1>4, <1>5, <1>6, <1>7 DEF Generations

\* At the start there is nobody.
LEMMA GenerationsInit == ASSUME Init PROVE Generations
<1>1. TypeOK BY TranslatorTypeInit
<1>2. LeftQuiet BY <1>1, Numbers DEF Init, LeftQuiet
<1>3. NotStarted BY <1>1, Numbers DEF Init, NotStarted
<1>4. Attempts
  <2>1. 0 * setup.retries = 0 BY <1>1, Numbers
  <2> QED BY <1>1, <2>1, Numbers DEF Init, Attempts
<1>5. Handles BY DEF Init, Handles, JoinedIsQuiet
<1> QED BY <1>2, <1>3, <1>4, <1>5 DEF Generations

\* Every step of the main task, of a task and of a connection keeps the
\* generations apart and the handles complete.
LEMMA GenerationsStep ==
    ASSUME TypeOK, Generations, [Next]_vars PROVE Generations'
<1> USE DEF init, conns, token, negotiation, api, vars
<1>n. /\ gen \in Gens /\ \A g \in Gens : g \in Nat /\ io[g] \in Nat
      /\ task \in [Gens -> [Kinds -> States]]
      /\ "upstream" \in Kinds /\ "server" \in Kinds /\ "manager" \in Kinds /\ "miner" \in Kinds
      /\ flagged * setup.retries \in Nat /\ attempt \in Nat /\ attempt >= 1
      /\ permits \subseteq signalled
  BY Numbers, ConnectionsFit DEF TypeOK, States, Kinds
<1>1. CASE Unreachable
  <2>1. Attempts'
    <3>1. flagged' * setup.retries + attempt' - 1 = flagged * setup.retries + attempt
      BY <1>1, AttemptCounted DEF Unreachable
    <3> QED BY <1>1, <1>n, <3>1 DEF Unreachable, Generations, Attempts
  <2> QED BY <1>1, <2>1 DEF Unreachable, Generations, LeftQuiet, Quiet, NotStarted, Handles, JoinedIsQuiet
<1>2. CASE Connect
  <2>1. /\ UNCHANGED <<setup, gen, attempt, flagged, signalled, permits, task, managed, ended>>
        /\ main = "try" /\ main' = "setup" /\ flagged < setup.upstreams
        /\ \A g \in Gens : io'[g] = IF g = gen THEN io[g] + 1 ELSE io[g]
    BY <1>2, <1>n DEF Connect, TypeOK
  <2>2. LeftQuiet'
    <3>1. gen \notin permits BY <1>n, <2>1 DEF Generations, NotStarted
    <3> QED BY <1>n, <2>1, <3>1 DEF Generations, LeftQuiet, Quiet
  <2>3. NotStarted' BY <1>n, <2>1 DEF Generations, NotStarted
  <2>4. Attempts'
    <3>1. io[gen] <= flagged * setup.retries + attempt - 1 BY <2>1 DEF Generations, Attempts
    <3>2. io'[gen'] = io[gen] + 1 BY <1>n, <2>1
    <3>3. io'[gen'] <= flagged' * setup'.retries + attempt' BY <1>n, <2>1, <3>1, <3>2
    <3> QED BY <2>1, <3>3 DEF Attempts
  <2>5. Handles' BY <2>1 DEF Generations, Handles, JoinedIsQuiet
  <2> QED BY <2>2, <2>3, <2>4, <2>5 DEF Generations
<1>3. ASSUME NEW k \in {"upstream", "server", "manager"}, Set(gen, k, "spawned"),
             UNCHANGED <<setup, gen, signalled, permits, io, managed, ended>>,
             main \in {"setup", "bind", "launch"}, main' \in {"bind", "launch", "loop"},
             main' = "bind" => flagged' < setup.upstreams
      PROVE Generations'
  <2>1. \A h \in Gens, j \in Kinds : task'[h][j] = IF h = gen /\ j = k THEN "spawned" ELSE task[h][j]
    BY <1>3, <1>n, SetTask DEF States
  <2>2. LeftQuiet' BY <1>3, <2>1 DEF Generations, LeftQuiet, Quiet
  <2>3. NotStarted' BY <1>3, <1>n, <2>1 DEF Generations, NotStarted
  <2>4. Attempts' BY <1>3 DEF Attempts
  <2>5. Handles' BY <1>3, <2>1 DEF Generations, Handles, JoinedIsQuiet
  <2> QED BY <2>2, <2>3, <2>4, <2>5 DEF Generations
<1>4. ASSUME NEW p \in setup.pools, SetupConnection(p) PROVE Generations'
  BY <1>3, <1>4 DEF SetupConnection, Generations, Attempts
<1>5. CASE StartServer BY <1>3, <1>5 DEF StartServer
<1>6. ASSUME NEW b \in BOOLEAN, Launch(b) PROVE Generations' BY <1>3, <1>6 DEF Launch
<1>7. CASE SetupConnectionError
  <2>1. flagged < setup.upstreams /\ io[gen] <= flagged * setup.retries + attempt
    BY <1>7 DEF SetupConnectionError, Generations, Attempts
  <2>2. flagged' * setup.retries + attempt' - 1 = flagged * setup.retries + attempt
    BY <1>7, <2>1, AttemptCounted DEF SetupConnectionError
  <2>3. Attempts' BY <1>7, <2>1, <2>2 DEF SetupConnectionError, Attempts
  <2> QED BY <1>7, <2>3
          DEF SetupConnectionError, Generations, LeftQuiet, Quiet, NotStarted, Handles, JoinedIsQuiet
<1>8. CASE SetupInterrupted \/ Trigger \/ Stop \/ CtrlC \/ NotifyWaiters \/ Die \/ Shutdown
              \/ ShutdownWaits
  BY <1>8 DEF SetupInterrupted, Trigger, Stop, CtrlC, NotifyWaiters, Die, Shutdown, ShutdownWaits,
              Generations, LeftQuiet, Quiet, NotStarted, Attempts, Handles, JoinedIsQuiet
<1>9. CASE StartServerFails \/ CouldNotInitiateSystem
  BY <1>9 DEF StartServerFails, CouldNotInitiateSystem, InitializeFails,
              Generations, LeftQuiet, Quiet, NotStarted, Attempts, Handles, JoinedIsQuiet
<1>10. CASE Restart
  <2>1. /\ UNCHANGED <<setup, attempt, flagged, signalled, permits, task, io, managed, ended>>
        /\ main = "waiting" /\ main' = "try" /\ gen' = gen + 1 /\ gen' \in Gens
    BY <1>10, <1>n, Numbers DEF Restart, Gens
  <2>2. gen \in signalled /\ Quiet(gen)
    BY <1>10, <1>n DEF Restart, EveryoneIsDone, Busy, Generations, NotStarted, LeftQuiet, Quiet
  <2>3. LeftQuiet' BY <1>n, <2>1, <2>2 DEF Generations, LeftQuiet, Quiet
  <2>4. NotStarted' BY <1>n, <2>1 DEF Generations, NotStarted
  <2>5. Attempts'
    <3>1. io[gen + 1] = 0 BY <1>n, <2>1 DEF Generations, NotStarted
    <3> QED BY <1>n, <2>1, <3>1 DEF Attempts
  <2>6. Handles' BY <2>1 DEF Generations, Handles, JoinedIsQuiet
  <2> QED BY <2>3, <2>4, <2>5, <2>6 DEF Generations
<1>11. CASE JoinAll
  <2>1. Handles'
    <3>1. ASSUME NEW g \in Gens, NEW k \in Kinds \ {"miner"}, task[g][k] \notin {"none", "done"}
          PROVE <<g, k>> \in managed'
      <4>1. task[g][k] \in {"spawned", "running", "late"}
        BY <1>n, <3>1 DEF Generations, Handles, States
      <4> QED BY <1>11, <4>1 DEF JoinAll, Unfinished
    <3> QED BY <1>11, <3>1 DEF JoinAll, Generations, Handles, JoinedIsQuiet
  <2> QED BY <1>11, <2>1 DEF JoinAll, Generations, LeftQuiet, Quiet, NotStarted, Attempts
<1>12. CASE Joined
  <2>1. JoinedIsQuiet'
    <3> SUFFICES ASSUME NEW g \in Gens, NEW k \in Kinds \ {"miner"} PROVE task[g][k] \in {"none", "done"}
      BY <1>12 DEF Joined, JoinedIsQuiet
    <3>1. <<g, k>> \in managed => <<g, k>> \notin Unfinished BY <1>12 DEF Joined, AllJoined
    <3>2. task[g][k] \in {"spawned", "running", "late"} => <<g, k>> \in Unfinished BY DEF Unfinished
    <3>3. task[g][k] \notin {"none", "done"} => <<g, k>> \in managed
      BY <1>12 DEF Joined, Generations, Handles
    <3>4. task[g][k] \in States /\ task[g][k] # "accepting" BY <1>n DEF Generations, Handles
    <3> QED BY <3>1, <3>2, <3>3, <3>4 DEF States
  <2> QED BY <1>12, <2>1 DEF Joined, Generations, LeftQuiet, Quiet, NotStarted, Attempts, Handles
<1>13. CASE JoinTimeout
  BY <1>13 DEF JoinTimeout, Generations, LeftQuiet, Quiet, NotStarted, Attempts, Handles, JoinedIsQuiet
<1>14. ASSUME NEW g \in Gens, NEW k \in Kinds, Poll(g, k) PROVE Generations'
  BY <1>14, TaskMoves DEF Poll, States
<1>15. ASSUME NEW g \in Gens, NEW k \in Kinds, Exit(g, k) PROVE Generations'
  BY <1>15, TaskMoves DEF Exit, States
<1>16. ASSUME NEW g \in Gens, NEW k \in Kinds, AskFallback(g, k) PROVE Generations'
  BY <1>16, TaskMoves DEF AskFallback, States
<1>17. ASSUME NEW g \in Gens, NEW k \in Kinds, AskShutdown(g, k) PROVE Generations'
  BY <1>17, TaskMoves DEF AskShutdown, States
<1>18. ASSUME NEW g \in Gens, BeginAccept(g) PROVE Generations'
  BY <1>18, <1>n, TaskMoves DEF BeginAccept, States
<1>19. ASSUME NEW g \in Gens, SpawnDownstream(g) PROVE Generations'
  BY <1>19, <1>n, TaskMoves DEF SpawnDownstream, States
<1>20. ASSUME NEW g \in Gens, MinerLeaves(g) PROVE Generations'
  BY <1>20, <1>n, TaskMoves DEF MinerLeaves, States
<1>21. CASE HandleExtensionsAndLeave
  BY <1>21, <1>n, TaskMoves DEF HandleExtensionsAndLeave, CanHandle, States
<1>22. ASSUME NEW g \in Gens, IoEnds(g) PROVE Generations'
  <2>1. /\ UNCHANGED <<setup, main, gen, attempt, flagged, signalled, task, managed, ended>>
        /\ \A h \in Gens : io'[h] \in Nat /\ io'[h] <= io[h]
    BY <1>22, <1>n DEF IoEnds, TypeOK
  <2>2. \A h \in permits' : h \in permits \/
           (h = g /\ g \in signalled' /\ ~(io'[g] > 0) /\ \A j \in Kinds : task'[g][j] # "running")
    BY <1>22, DonePermits DEF IoEnds
  <2>3. LeftQuiet'
    <3> SUFFICES ASSUME NEW h \in Gens, h < gen \/ h \in permits'
                 PROVE h \in signalled /\ io'[h] = 0 /\ \A j \in Kinds : task[h][j] # "running"
      BY <2>1 DEF LeftQuiet, Quiet
    <3>1. CASE h < gen \/ h \in permits BY <1>n, <2>1, <3>1 DEF Generations, LeftQuiet, Quiet
    <3>2. CASE ~(h < gen) /\ h \notin permits BY <2>1, <2>2, <3>2
    <3> QED BY <3>1, <3>2
  <2>4. NotStarted' BY <1>n, <2>1 DEF Generations, NotStarted
  <2>5. Attempts' BY <1>n, <2>1 DEF Generations, Attempts
  <2>6. Handles' BY <2>1 DEF Generations, Handles, JoinedIsQuiet
  <2> QED BY <2>3, <2>4, <2>5, <2>6 DEF Generations
<1>24. ASSUME NEW g \in Gens, Stall(g) \/ Unstall(g) PROVE Generations'
  BY <1>24 DEF Stall, Unstall, Generations, LeftQuiet, Quiet, NotStarted, Attempts, Handles, JoinedIsQuiet
<1>23. CASE HandleExtensions \/ UNCHANGED vars
  BY <1>23 DEF HandleExtensions, Generations, LeftQuiet, Quiet, NotStarted, Attempts, Handles, JoinedIsQuiet
<1> QED BY <1>1, <1>2, <1>4, <1>5, <1>6, <1>7, <1>8, <1>9, <1>10, <1>11, <1>12, <1>13, <1>14,
           <1>15, <1>16, <1>17, <1>18, <1>19, <1>20, <1>21, <1>22, <1>23, <1>24
        DEF Next, MainSteps, TaskStarts, TaskEnds

\* When a fallback goes on to the next upstream nothing of the generations
\* before is at work, connections of failed attempts included, and when start
\* has joined its tasks none of those that make up a generation is left: for
\* every number of generations, upstreams and retries.
THEOREM TranslatorTasks == Spec => []TasksInv
<1>1. Init => TypeOK /\ Generations BY TranslatorTypeInit, GenerationsInit
<1>2. TypeOK /\ Generations /\ [Next]_vars => (TypeOK /\ Generations)'
  BY TranslatorTypeStep, GenerationsStep DEF Generations
<1>3. TypeOK /\ Generations => TasksInv
  <2> SUFFICES ASSUME TypeOK, Generations PROVE TasksInv OBVIOUS
  <2>1. \A g \in 1..(gen - 1) : g \in Gens /\ g < gen BY Numbers DEF Gens, TypeOK
  <2>2. GenerationsApart BY <2>1 DEF GenerationsApart, Generations, LeftQuiet, Quiet
  <2> QED BY <2>2 DEF TasksInv, Generations, Handles
<1> QED BY <1>1, <1>2, <1>3, PTL DEF Spec

-----------------------------------------------------------------------------
(* The extensions. *)

\* A pool that supports what is required and requires no more is not left: its
\* answer to the one request it gets is a success.
LEMMA CompatibleStays ==
    ASSUME RequiredExts \subseteq pool.supports, pool.requires \subseteq RequiredExts, RequiredExts # {}
    PROVE  ~LeavesFor(RequiredExts) /\ ~Refused(RequiredExts)
<1>1. Unsupported(RequiredExts) = {} /\ MissingRequired(RequiredExts) = {}
  BY DEF Unsupported, MissingRequired
<1>2. ~Refused(RequiredExts) BY <1>1 DEF Refused
<1> QED BY <1>1, <1>2 DEF LeavesFor

\* Every step keeps what was asked, and whom it made the translator leave.
LEMMA AskedOnceStep ==
    ASSUME AskedOnce, [Next]_vars PROVE AskedOnce'
<1> USE DEF AskedOnce, OnlyIncompatiblePoolsAreLeft, negotiation, vars
<1>1. CASE HandleExtensionsAndLeave
  <2>1. left' = pool /\ asked' = NoRequest /\ asked # NoRequest /\ LeavesFor(asked)
    BY <1>1 DEF HandleExtensionsAndLeave, CanHandle
  <2>2. ~(RequiredExts \subseteq pool.supports /\ pool.requires \subseteq RequiredExts)
    BY <2>1, CompatibleStays
  <2> QED BY <2>1, <2>2
<1>2. CASE HandleExtensions
  <2>1. /\ UNCHANGED <<pool, left>> /\ asked # NoRequest
        /\ asked' = NoRequest \/ (asked' = MissingRequired(asked) /\ MissingRequired(asked) # {})
    BY <1>2 DEF HandleExtensions, CanHandle
  <2>2. pool.requires \subseteq RequiredExts => MissingRequired(asked) = {}
    BY <2>1 DEF MissingRequired
  <2> QED BY <2>1, <2>2
<1>3. ASSUME NEW p \in setup.pools, SetupConnection(p) PROVE AskedOnce'
  BY <1>3 DEF SetupConnection
<1>4. CASE Restart BY <1>4 DEF Restart
<1>5. CASE MainSteps /\ ~Restart
  BY <1>5 DEF MainSteps, Unreachable, SetupInterrupted, StartServer, CouldNotInitiateSystem, Launch,
              Trigger, Stop, JoinAll, Joined, JoinTimeout, NotifyWaiters, Die
<1>6. CASE Connect \/ SetupConnectionError \/ StartServerFails \/ CtrlC \/ Shutdown \/ ShutdownWaits
  BY <1>6 DEF Connect, SetupConnectionError, StartServerFails, CtrlC, Shutdown, ShutdownWaits
<1>7. ASSUME NEW g \in Gens, NEW k \in Kinds, Poll(g, k) \/ Exit(g, k) \/ AskFallback(g, k) \/ AskShutdown(g, k)
      PROVE AskedOnce'
  BY <1>7 DEF Poll, Exit, AskFallback, AskShutdown
<1>8. ASSUME NEW g \in Gens, BeginAccept(g) \/ SpawnDownstream(g) \/ MinerLeaves(g) \/ IoEnds(g)
                            \/ Stall(g) \/ Unstall(g)
      PROVE AskedOnce'
  BY <1>8 DEF BeginAccept, SpawnDownstream, MinerLeaves, IoEnds, Stall, Unstall
<1>9. CASE UNCHANGED vars BY <1>9
<1> QED BY <1>1, <1>2, <1>3, <1>4, <1>5, <1>6, <1>7, <1>8, <1>9 DEF Next, TaskStarts, TaskEnds

\* The translator leaves a pool for its extensions only if the pool lacks a
\* required one or requires one that was not asked for, whatever the pools
\* support and require and however often it asks.
THEOREM OnlyIncompatibleLeft == Spec => []OnlyIncompatiblePoolsAreLeft
<1>1. Init => AskedOnce BY DEF Init, AskedOnce, OnlyIncompatiblePoolsAreLeft
<1>2. AskedOnce /\ [Next]_vars => AskedOnce' BY AskedOnceStep
<1>3. AskedOnce => OnlyIncompatiblePoolsAreLeft BY DEF AskedOnce
<1> QED BY <1>1, <1>2, <1>3, PTL DEF Spec
=============================================================================
