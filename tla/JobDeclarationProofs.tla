------------------------- MODULE JobDeclarationProofs -------------------------
(***************************************************************************)
(* The token maps of the job declaration server, for every set of clients,  *)
(* every number of tokens and every history of the node:                    *)
(*                                                                         *)
(*   - an active token can be redeemed and a declared job can be evicted    *)
(*     (TokensInv), but for those whose declaration clashed with another;    *)
(*   - a client that left holds nothing (DepartedHoldNothing).               *)
(*                                                                         *)
(* Nothing is assumed of what the clients send: they may share request ids   *)
(* and declare several jobs with one token.                                  *)
(***************************************************************************)
EXTENDS JobDeclaration, TLAPS

-----------------------------------------------------------------------------
(* Types. *)

\* The maps are as declared at the start.
LEMMA TypeInit == ASSUME Init PROVE TypeOK
  BY BoundsAssumption DEF Init, TypeOK, Idle, NoClaim, NoDeclaration, Tokens

\* A cleanup step of either task keeps the types of the four maps it touches.
LEMMA CleanupType ==
    ASSUME TypeOK, NEW c \in Clients, NEW s \in 1..3, Cleanup(c, s)
    PROVE  /\ clients' \subseteq Clients /\ senders' \subseteq Clients
           /\ pending' \in [Clients \X Requests -> Tokens \cup {None}]
           /\ allocated' \in [Tokens -> Clients \cup {None}]
           /\ \A t \in Tokens : allocated'[t] # None => allocated'[t] = allocated[t]
  BY DEF TypeOK, Cleanup, Disown

\* The states of the loop.
LoopStates ==
    [at : {"idle", "sender", "validating", "activate", "deallocate", "pend", "cleanup"},
     client : Clients \cup {None}, token : Tokens \cup {None}, req : Requests \cup {None},
     retry : BOOLEAN, prev : 0..MaxTip, step : 1..3]

\* The loop waits for a message with nothing in hand.
LEMMA IdleFields ==
    Idle \in LoopStates /\ Idle.at = "idle" /\ Idle.token = None /\ Idle.step = 1
  BY BoundsAssumption DEF Idle, LoopStates

\* It begins a cleanup_downstream for one client, with nothing else in hand.
LEMMA CleaningFields ==
    ASSUME NEW c \in Clients
    PROVE  /\ Cleaning(c) \in LoopStates /\ Cleaning(c).at = "cleanup"
           /\ Cleaning(c).client = c /\ Cleaning(c).token = None /\ Cleaning(c).step = 1
  BY IdleFields DEF Cleaning, LoopStates

\* Answering leaves the loop idle or at the start of a cleanup.
LEMMA SentFields ==
    ASSUME NEW c \in Clients, Sent(c) \/ loop' = Cleaning(c)
    PROVE  /\ loop' \in LoopStates /\ loop'.token = None
           /\ loop'.at = "idle" \/ (loop'.at = "cleanup" /\ loop'.client = c /\ loop'.step = 1)
  BY IdleFields, CleaningFields DEF Sent

\* The engine stores or drops a declaration under the two keys of the loop.
LEMMA StoreType ==
    ASSUME TypeOK, loop.token \in Tokens, loop.req \in Requests,
           Store(TRUE) \/ Store(FALSE) \/ Drop
    PROVE  /\ declared' \in [Requests ->
                 [token : Tokens \cup {None}, tip : 0..MaxTip, validated : BOOLEAN]]
           /\ entries' \in [Tokens -> Requests \cup {None}]
<1>1. tip \in 0..MaxTip BY BoundsAssumption DEF TypeOK
<1> DEFINE D == [token : Tokens \cup {None}, tip : 0..MaxTip, validated : BOOLEAN]
<1>2. [token |-> loop.token, tip |-> tip, validated |-> TRUE] \in D BY <1>1
<1>3. [token |-> loop.token, tip |-> tip, validated |-> FALSE] \in D BY <1>1
<1>4. NoDeclaration \in D BY BoundsAssumption DEF NoDeclaration
<1>5. declared \in [Requests -> D] BY DEF TypeOK
<1> HIDE DEF D
<1>6. declared' \in [Requests -> D] BY <1>2, <1>3, <1>4, <1>5 DEF Store, Drop
<1>7. entries' \in [Tokens -> Requests \cup {None}] BY DEF Store, Drop, TypeOK
<1> QED BY <1>6, <1>7 DEF D

\* While the loop is at work it works for a client, and for a declaration of it
\* unless it only answers or cleans up.
LoopOK ==
    /\ loop.at # "idle" => loop.client \in Clients
    /\ loop.at \in {"validating", "activate", "deallocate", "pend"} =>
          loop.token \in Tokens /\ loop.req \in Requests
    /\ loop.at \in {"idle", "sender", "cleanup"} => loop.token = None

\* The redemption is at a token, and at a request id once that was found.
ClaimOK ==
    /\ claim.at = "none" <=> claim.token = None
    /\ claim.at = "job" => claim.req \in Requests

\* Every step of the loop, the connections, the pool and the janitors keeps
\* the types, and the loop and the redemption at what they work on.
LEMMA TypeStep ==
    ASSUME TypeOK, LoopOK, ClaimOK, [Next]_vars PROVE TypeOK' /\ LoopOK' /\ ClaimOK'
<1> USE BoundsAssumption, NoneAssumption, IdleFields
<1> USE DEF LoopOK, ClaimOK, links, tokens, engine, vars, LoopStates
<1> DEFINE Goal == TypeOK' /\ LoopOK' /\ ClaimOK'
<1>1. ASSUME NEW c \in Clients, Join(c) PROVE Goal
  BY <1>1 DEF TypeOK, Join
<1>2. ASSUME NEW c \in Clients, Lost(c) PROVE Goal
  BY <1>2 DEF TypeOK, Lost
<1>3. ASSUME NEW c \in Clients, Leave(c) PROVE Goal
  <2>1. step[c] \in 1..3 BY DEF TypeOK
  <2>2. Cleanup(c, step[c]) BY <1>3 DEF Leave
  <2>3. step' \in [Clients -> 1..3]
    <3>1. step[c] < 3 => step[c] + 1 \in 1..3 BY <2>1
    <3> QED BY <1>3, <3>1 DEF Leave, TypeOK
  <2>4. conn' \in [Clients -> {"absent", "joined", "leaving", "gone"}]
    BY <1>3 DEF Leave, TypeOK
  <2> QED BY <1>3, <2>1, <2>2, <2>3, <2>4, CleanupType DEF Leave, TypeOK
<1>4. CASE LoopCleanup
  <2>1. loop.step \in 1..3 /\ loop.client \in Clients BY <1>4 DEF TypeOK, LoopCleanup
  <2>2. Cleanup(loop.client, loop.step) BY <1>4 DEF LoopCleanup
  <2>3. LoopOK' /\ ClaimOK' /\ loop' \in LoopStates
    BY <1>4, <2>1 DEF LoopCleanup, TypeOK
  <2> QED BY <1>4, <2>1, <2>2, <2>3, CleanupType DEF LoopCleanup, TypeOK
<1>5. ASSUME NEW c \in Clients, Allocate(c) PROVE Goal
  <2>1. nextToken \in Tokens /\ nextToken' \in 0..MaxTokens /\ nextToken' = nextToken + 1
    BY <1>5 DEF TypeOK, Allocate, Tokens
  <2>2. loop' \in LoopStates /\ loop'.client = c /\ loop'.at = "sender" /\ loop'.token = None
    BY <1>5 DEF Allocate
  <2>3. /\ allocated' \in [Tokens -> Clients \cup {None}]
        /\ \A t \in Tokens : allocated'[t] # None \/ active[t] # None => t < nextToken'
    BY <1>5, <2>1 DEF TypeOK, Allocate, Tokens
  <2> QED BY <1>5, <2>1, <2>2, <2>3 DEF TypeOK, Allocate
<1>6. CASE AnswerAllocate
  BY <1>6, SentFields DEF TypeOK, AnswerAllocate
<1>7. ASSUME NEW c \in Clients, NEW r \in Requests, NEW t \in Tokens, Declare(c, t, r) PROVE Goal
  <2>1. made' \in 0..MaxDeclared BY <1>7 DEF TypeOK, Declare
  <2>2. CASE Sent(c) \/ loop' = Cleaning(c)
    BY <1>7, <2>1, <2>2, SentFields DEF TypeOK, Declare
  <2>3. CASE loop' = [Idle EXCEPT !.at = "validating", !.client = c, !.token = t, !.req = r]
    BY <1>7, <2>1, <2>3 DEF TypeOK, Declare
  <2> QED BY <1>7, <2>2, <2>3 DEF Declare
<1>8. ASSUME NEW c \in Clients, NEW r \in Requests, ProvideMissing(c, r) PROVE Goal
  <2>1. pending[<<c, r>>] \in Tokens \cup {None} /\ declared[r].tip \in 0..MaxTip
    BY DEF TypeOK
  <2>2. CASE loop' = Cleaning(c) /\ UNCHANGED pending
    BY <1>8, <2>2, SentFields DEF TypeOK, ProvideMissing
  <2>3. CASE /\ pending[<<c, r>>] # None
             /\ pending' = [pending EXCEPT ![<<c, r>>] = None]
             /\ loop' = [Idle EXCEPT !.at = "validating", !.client = c, !.token = pending[<<c, r>>],
                                     !.req = r, !.retry = TRUE, !.prev = declared[r].tip]
    <3>1. loop' \in LoopStates /\ LoopOK' BY <2>1, <2>3
    <3>2. pending' \in [Clients \X Requests -> Tokens \cup {None}] BY <2>3 DEF TypeOK
    <3> QED BY <1>8, <3>1, <3>2 DEF TypeOK, ProvideMissing
  <2> QED BY <1>8, <2>2, <2>3 DEF ProvideMissing
<1>9. CASE ValidationFails
  BY <1>9 DEF TypeOK, ValidationFails
<1>10. CASE NodeAccepts
  <2>1. loop.token \in Tokens /\ loop.req \in Requests BY <1>10 DEF NodeAccepts
  <2>2. loop' \in LoopStates /\ LoopOK' BY <1>10, <2>1 DEF TypeOK, NodeAccepts
  <2>3. clashed' \subseteq Tokens BY <1>10, <2>1 DEF TypeOK, NodeAccepts, Clash, Sharing
  <2> QED BY <1>10, <2>1, <2>2, <2>3, StoreType DEF TypeOK, NodeAccepts
<1>11. CASE NodeRejects
  <2>1. loop.token \in Tokens /\ loop.req \in Requests BY <1>11 DEF NodeRejects
  <2>2. loop' \in LoopStates /\ LoopOK' BY <1>11, <2>1 DEF TypeOK, NodeRejects
  <2>3. clashed' \subseteq Tokens BY <1>11, <2>1 DEF TypeOK, NodeRejects, Clash, Sharing
  <2> QED BY <1>11, <2>1, <2>2, <2>3, StoreType DEF TypeOK, NodeRejects
<1>12. CASE NodeMisses
  <2>1. loop.token \in Tokens /\ loop.req \in Requests BY <1>12 DEF NodeMisses
  <2>2. loop' \in LoopStates /\ LoopOK' BY <1>12, <2>1 DEF TypeOK, NodeMisses
  <2>3. clashed' \subseteq Tokens BY <1>12, <2>1 DEF TypeOK, NodeMisses, Clash, Sharing
  <2> QED BY <1>12, <2>1, <2>2, <2>3, StoreType DEF TypeOK, NodeMisses
<1>13. CASE Activate
  BY <1>13, SentFields DEF TypeOK, Activate, Tokens
<1>14. CASE Deallocate
  BY <1>14, SentFields DEF TypeOK, Deallocate
<1>15. CASE Pend
  <2>1. loop.token \in Tokens /\ loop.req \in Requests /\ loop.client \in Clients BY <1>15 DEF Pend
  <2>2. loop' \in LoopStates /\ LoopOK' BY <1>15, <2>1, SentFields DEF Pend
  <2>3. pending' \in [Clients \X Requests -> Tokens \cup {None}]
    BY <1>15, <2>1 DEF TypeOK, Pend
  <2> QED BY <1>15, <2>1, <2>2, <2>3 DEF TypeOK, Pend
<1>16. ASSUME NEW a \in Tokens, Claim(a) PROVE Goal
  BY <1>16 DEF TypeOK, Claim, NoClaim
<1>17. CASE FindEntry
  BY <1>17 DEF TypeOK, FindEntry, NoClaim
<1>18. CASE Consume
  BY <1>18 DEF TypeOK, Consume, NoClaim, NoDeclaration
<1>19. ASSUME NEW o \in 0..MaxTokens, NEW p \in 0..MaxTokens, TokenJanitor(o, p) PROVE Goal
  BY <1>19 DEF TypeOK, TokenJanitor
<1>20. ASSUME NEW c \in Clients, NEW r \in Requests, PendingJanitor(c, r) PROVE Goal
  BY <1>20 DEF TypeOK, PendingJanitor
<1>21. ASSUME NEW t \in Tokens, EngineJanitor(t) PROVE Goal
  BY <1>21 DEF TypeOK, EngineJanitor, NoDeclaration
<1>22. CASE NewTip
  BY <1>22 DEF TypeOK, NewTip
<1>23. CASE UNCHANGED vars
  BY <1>23 DEF TypeOK
<1> QED BY <1>1, <1>2, <1>3, <1>4, <1>5, <1>6, <1>7, <1>8, <1>9, <1>10, <1>11, <1>12, <1>13,
           <1>14, <1>15, <1>16, <1>17, <1>18, <1>19, <1>20, <1>21, <1>22, <1>23 DEF Next, LoopStep

\* A declaration is refused, or goes to the node with its token and request id.
LEMMA DeclareLoop ==
    ASSUME NEW c \in Clients, NEW r \in Requests, NEW t \in Tokens, Declare(c, t, r)
    PROVE  \/ /\ loop'.token = None
              /\ loop'.at = "idle" \/ (loop'.at = "cleanup" /\ loop'.client = c)
           \/ /\ loop'.at = "validating" /\ loop'.client = c
              /\ loop'.token = t /\ loop'.req = r
<1>1. CASE Sent(c) \/ loop' = Cleaning(c) BY <1>1, SentFields
<1>2. CASE loop' = [Idle EXCEPT !.at = "validating", !.client = c, !.token = t, !.req = r]
  BY <1>2, IdleFields DEF LoopStates
<1> QED BY <1>1, <1>2 DEF Declare

\* The transactions of an unknown client are refused; those of a pending
\* declaration take it out of the map and back to the node.
LEMMA ProvideLoop ==
    ASSUME TypeOK, NEW c \in Clients, NEW r \in Requests, ProvideMissing(c, r)
    PROVE  /\ loop'.client = c
           /\ \/ /\ loop'.token = None /\ loop'.at = "cleanup"
                 /\ \A d \in Clients, q \in Requests : pending'[<<d, q>>] = pending[<<d, q>>]
              \/ /\ loop'.at = "validating" /\ loop'.req = r
                 /\ loop'.token = pending[<<c, r>>] /\ pending[<<c, r>>] # None
                 /\ \A d \in Clients, q \in Requests :
                       pending'[<<d, q>>] = IF d = c /\ q = r THEN None ELSE pending[<<d, q>>]
<1>1. CASE loop' = Cleaning(c) /\ UNCHANGED pending BY <1>1, CleaningFields
<1>2. CASE /\ pending[<<c, r>>] # None
           /\ pending' = [pending EXCEPT ![<<c, r>>] = None]
           /\ loop' = [Idle EXCEPT !.at = "validating", !.client = c, !.token = pending[<<c, r>>],
                                   !.req = r, !.retry = TRUE, !.prev = declared[r].tip]
  <2>1. /\ loop'.at = "validating" /\ loop'.client = c /\ loop'.req = r
        /\ loop'.token = pending[<<c, r>>]
    BY <1>2, IdleFields DEF LoopStates
  <2>2. \A d \in Clients, q \in Requests :
           pending'[<<d, q>>] = IF d = c /\ q = r THEN None ELSE pending[<<d, q>>]
    BY <1>2 DEF TypeOK
  <2> QED BY <1>2, <2>1, <2>2
<1> QED BY <1>1, <1>2 DEF ProvideMissing

\* An answer of the node moves the loop on and leaves in hand what it has.
LEMMA ValidationLoop ==
    ASSUME TypeOK, ValidationFails \/ NodeAccepts \/ NodeRejects \/ NodeMisses
    PROVE  /\ loop.at = "validating"
           /\ loop'.client = loop.client /\ loop'.token = loop.token /\ loop'.req = loop.req
           /\ loop'.at \in {"activate", "deallocate", "pend"}
           /\ loop'.at = "activate" => NodeAccepts
<1>1. CASE ValidationFails BY <1>1 DEF ValidationFails, TypeOK
<1>2. CASE NodeAccepts BY <1>2 DEF NodeAccepts, TypeOK
<1>3. CASE NodeRejects BY <1>3 DEF NodeRejects, TypeOK
<1>4. CASE NodeMisses
  <2>1. loop' = [loop EXCEPT !.at = "deallocate"] \/ loop' = [loop EXCEPT !.at = "pend"]
    BY <1>4 DEF NodeMisses
  <2> QED BY <1>4, <2>1 DEF NodeMisses, TypeOK
<1> QED BY <1>1, <1>2, <1>3, <1>4

-----------------------------------------------------------------------------
(* Departures. *)

\* What the cleanup of a connection has taken away at each of its steps, and
\* stays away although the loop still serves the client's messages: the maps
\* that only the accept task fills stay empty, and a token allocated too late is
\* taken back by the cleanup the loop begins itself.
Departure ==
    /\ loop.at # "idle" => conn[loop.client] # "absent"
    /\ \A c \in Clients :
          /\ conn[c] = "absent" =>
                c \notin clients /\ c \notin senders /\ \A t \in Tokens : allocated[t] # c
          /\ conn[c] \in {"absent", "joined"} => step[c] = 1
          /\ conn[c] = "gone" \/ (conn[c] = "leaving" /\ step[c] > 1) => c \notin clients
          /\ conn[c] = "gone" \/ (conn[c] = "leaving" /\ step[c] > 2) => c \notin senders
          /\ c \notin clients => \A r \in Requests : pending[<<c, r>>] = None
          /\ (conn[c] = "gone" /\ ~(loop.at \in {"sender", "cleanup"} /\ loop.client = c)) =>
                \A t \in Tokens : allocated[t] # c

\* What one cleanup step takes away, and from whom.
LEMMA CleanupEffect ==
    ASSUME TypeOK, NEW c \in Clients, NEW s \in 1..3, Cleanup(c, s)
    PROVE  /\ \A d \in Clients : d \in clients' <=> d \in clients /\ ~(s = 1 /\ d = c)
           /\ \A d \in Clients : d \in senders' <=> d \in senders /\ ~(s = 2 /\ d = c)
           /\ \A d \in Clients, r \in Requests :
                 pending'[<<d, r>>] = IF s = 1 /\ d = c THEN None ELSE pending[<<d, r>>]
           /\ \A t \in Tokens :
                 allocated'[t] = IF s = 3 /\ allocated[t] = c THEN None ELSE allocated[t]
<1>1. \A d \in Clients, r \in Requests :
         pending'[<<d, r>>] = IF s = 1 /\ d = c THEN None ELSE pending[<<d, r>>]
  BY DEF Cleanup
<1> QED BY <1>1 DEF TypeOK, Cleanup, Disown

\* At the start no client was ever there.
LEMMA DepartureInit == ASSUME Init PROVE Departure
  BY NoneAssumption DEF Init, Departure, Idle

\* No step gives a departed client anything back that is not taken away again.
LEMMA DepartureStep ==
    ASSUME TypeOK, LoopOK, Departure, [Next]_vars PROVE Departure'
<1> USE BoundsAssumption, NoneAssumption, IdleFields
<1> USE DEF Departure, LoopOK, links, tokens, engine, vars
<1>1. ASSUME NEW c \in Clients, Join(c) PROVE Departure'
  BY <1>1 DEF TypeOK, Join
<1>2. ASSUME NEW c \in Clients, Lost(c) PROVE Departure'
  BY <1>2 DEF TypeOK, Lost
<1>3. ASSUME NEW c \in Clients, Leave(c) PROVE Departure'
  <2>1. step[c] \in 1..3 /\ Cleanup(c, step[c]) BY <1>3 DEF TypeOK, Leave
  <2>2. CASE step[c] < 3
    BY <1>3, <2>1, <2>2, CleanupEffect DEF TypeOK, Leave
  <2>3. CASE step[c] = 3
    BY <1>3, <2>1, <2>3, CleanupEffect DEF TypeOK, Leave
  <2> QED BY <2>1, <2>2, <2>3
<1>4. CASE LoopCleanup
  <2>1. loop.step \in 1..3 /\ loop.client \in Clients /\ Cleanup(loop.client, loop.step)
    BY <1>4 DEF TypeOK, LoopCleanup
  <2>2. CASE loop.step < 3
    <3>1. loop'.at = "cleanup" /\ loop'.client = loop.client
      BY <1>4, <2>2 DEF LoopCleanup, TypeOK
    <3> QED BY <1>4, <2>1, <2>2, <3>1, CleanupEffect DEF TypeOK, LoopCleanup
  <2>3. CASE loop.step = 3
    BY <1>4, <2>1, <2>3, CleanupEffect DEF TypeOK, LoopCleanup
  <2> QED BY <2>1, <2>2, <2>3
<1>5. ASSUME NEW c \in Clients, Allocate(c) PROVE Departure'
  <2>1. loop'.client = c /\ loop'.at = "sender" BY <1>5 DEF Allocate, LoopStates
  <2>2. nextToken \in Tokens BY <1>5 DEF TypeOK, Allocate, Tokens
  <2> QED BY <1>5, <2>1, <2>2 DEF TypeOK, Allocate
<1>6. CASE AnswerAllocate
  <2>1. loop.client \in Clients BY <1>6 DEF AnswerAllocate
  <2>2. loop'.at = "idle" => loop.client \in senders
    BY <1>6, <2>1, CleaningFields DEF AnswerAllocate
  <2> QED BY <1>6, <2>1, <2>2, SentFields DEF AnswerAllocate
<1>7. ASSUME NEW c \in Clients, NEW r \in Requests, NEW t \in Tokens, Declare(c, t, r) PROVE Departure'
  <2>1. loop'.at # "idle" => loop'.client = c
    BY <1>7, DeclareLoop
  <2> QED BY <1>7, <2>1 DEF Declare
<1>8. ASSUME NEW c \in Clients, NEW r \in Requests, ProvideMissing(c, r) PROVE Departure'
  <2>1. loop'.client = c
    BY <1>8, ProvideLoop
  <2>2. \A d \in Clients, q \in Requests : pending[<<d, q>>] = None => pending'[<<d, q>>] = None
    <3>1. CASE UNCHANGED pending BY <3>1
    <3>2. CASE pending' = [pending EXCEPT ![<<c, r>>] = None] BY <3>2 DEF TypeOK
    <3> QED BY <1>8, <3>1, <3>2 DEF ProvideMissing
  <2> QED BY <1>8, <2>1, <2>2 DEF ProvideMissing
<1>9. CASE ValidationFails \/ NodeAccepts \/ NodeRejects \/ NodeMisses
  <2>1. loop.at = "validating" /\ loop'.client = loop.client
    BY <1>9, ValidationLoop
  <2>2. UNCHANGED <<conn, step, clients, senders, allocated, pending>>
    BY <1>9 DEF ValidationFails, NodeAccepts, NodeRejects, NodeMisses
  <2> QED BY <2>1, <2>2
<1>10. CASE Activate \/ Deallocate
  <2>1. /\ loop.client \in Clients /\ loop.at \in {"activate", "deallocate"}
        /\ loop'.at = "idle" \/ (loop'.at = "cleanup" /\ loop'.client = loop.client)
    BY <1>10, SentFields DEF Activate, Deallocate
  <2>2. \A t \in Tokens : allocated'[t] \in {None, allocated[t]}
    BY <1>10 DEF Activate, Deallocate, TypeOK
  <2> QED BY <1>10, <2>1, <2>2 DEF Activate, Deallocate
<1>11. CASE Pend
  <2>1. /\ loop.client \in Clients /\ loop.req \in Requests
        /\ loop'.at = "idle" \/ (loop'.at = "cleanup" /\ loop'.client = loop.client)
    BY <1>11, SentFields DEF Pend
  <2>2. \A d \in Clients, q \in Requests : d \notin clients => pending'[<<d, q>>] = pending[<<d, q>>]
    BY <1>11, <2>1 DEF Pend, TypeOK
  <2> QED BY <1>11, <2>1, <2>2 DEF Pend
<1>12. ASSUME NEW o \in 0..MaxTokens, NEW p \in 0..MaxTokens, TokenJanitor(o, p) PROVE Departure'
  BY <1>12 DEF TypeOK, TokenJanitor
<1>13. ASSUME NEW c \in Clients, NEW r \in Requests, PendingJanitor(c, r) PROVE Departure'
  <2>1. \A d \in Clients, q \in Requests : pending'[<<d, q>>] \in {None, pending[<<d, q>>]}
    BY <1>13 DEF PendingJanitor, TypeOK
  <2> QED BY <1>13, <2>1 DEF PendingJanitor
<1>14. ASSUME NEW a \in Tokens, Claim(a) \/ EngineJanitor(a) PROVE Departure'
  BY <1>14 DEF Claim, EngineJanitor
<1>15. CASE FindEntry \/ Consume \/ NewTip \/ UNCHANGED vars
  BY <1>15 DEF FindEntry, Consume, NewTip
<1> QED BY <1>1, <1>2, <1>3, <1>4, <1>5, <1>6, <1>7, <1>8, <1>9, <1>10, <1>11, <1>12, <1>13,
           <1>14, <1>15 DEF Next, LoopStep

\* The loop and the redemption have what they work on in every reachable state.
THEOREM TypesInvariant == Spec => [](TypeOK /\ LoopOK /\ ClaimOK)
<1>1. Init => TypeOK /\ LoopOK /\ ClaimOK
  BY TypeInit DEF Init, LoopOK, ClaimOK, Idle, NoClaim
<1>2. TypeOK /\ LoopOK /\ ClaimOK /\ [Next]_vars => (TypeOK /\ LoopOK /\ ClaimOK)'
  BY TypeStep
<1> QED BY <1>1, <1>2, PTL DEF Spec

\* A client whose cleanup_downstream has ended holds no token, map entry or
\* pending declaration, for every set of clients and whatever they send: also
\* when the loop served its last message after the connection's own cleanup.
THEOREM DepartedClientsHoldNothing == Spec => []DepartedHoldNothing
<1>1. Init => Departure BY DepartureInit
<1>2. (TypeOK /\ LoopOK /\ ClaimOK) /\ Departure /\ [Next]_vars => Departure' BY DepartureStep
<1>3. Departure => DepartedHoldNothing BY DEF Departure, DepartedHoldNothing
<1> QED BY <1>1, <1>2, <1>3, TypesInvariant, PTL DEF Spec

-----------------------------------------------------------------------------
(* Tokens. *)

\* While a declaration is free of clashes no other token, and no redemption, is at
\* its request id.
KeysApart ==
    /\ \A t \in Tokens \ clashed : entries[t] # None =>
          /\ \A v \in Tokens : entries[v] = entries[t] => v = t
          /\ ~(claim.at = "job" /\ claim.req = entries[t])
    /\ claim.at = "job" /\ claim.token \notin clashed =>
          \A v \in Tokens : entries[v] # claim.req

\* A token free of clashes is at one place: about to be activated, active, or
\* being redeemed.
OnePlace ==
    \A t \in Tokens \ clashed :
        /\ \A a, b \in Tokens : active[a] = t /\ active[b] = t => a = b
        /\ \A a \in Tokens : active[a] = t => claim.token # t
        /\ loop.at = "activate" /\ loop.token = t =>
              claim.token # t /\ \A a \in Tokens : active[a] # t

\* The two maps of the engine name each other, except that a redemption has
\* taken the entry of the job it is about to take.
EngineAgrees ==
    /\ \A r \in Requests : declared[r].token \notin clashed \cup {None} =>
          \/ entries[declared[r].token] = r
          \/ claim.at = "job" /\ claim.token = declared[r].token /\ claim.req = r
    /\ loop.at = "activate" /\ loop.token \notin clashed => Backed(loop.token)

\* The inductive invariant behind TokensInv.
Ledger == KeysApart /\ OnePlace /\ EngineAgrees /\ ActiveTokensBacked

\* A step that leaves the engine and the redemption alone, at most takes active
\* tokens away, and activates nothing.
LEMMA LedgerShrinks ==
    ASSUME TypeOK, Ledger,
           UNCHANGED <<clashed, entries, declared, claim>>,
           \A a \in Tokens : active'[a] \in {None, active[a]},
           UNCHANGED loop \/ loop'.at # "activate"
    PROVE  Ledger'
<1>1. KeysApart' BY DEF Ledger, KeysApart
<1>2. OnePlace'
  <2> SUFFICES ASSUME NEW t \in Tokens, t \notin clashed
               PROVE /\ \A a, b \in Tokens : active'[a] = t /\ active'[b] = t => a = b
                     /\ \A a \in Tokens : active'[a] = t => claim.token # t
                     /\ loop'.at = "activate" /\ loop'.token = t =>
                           claim.token # t /\ \A a \in Tokens : active'[a] # t
    BY DEF OnePlace
  <2>1. \A a \in Tokens : active'[a] = t => active[a] = t BY NoneAssumption
  <2> QED BY <2>1 DEF Ledger, OnePlace
<1>3. EngineAgrees' BY DEF Ledger, EngineAgrees, Backed
<1>4. ActiveTokensBacked' BY DEF Ledger, ActiveTokensBacked, Backed
<1> QED BY <1>1, <1>2, <1>3, <1>4 DEF Ledger

\* The node's answer: the engine stores or drops the declaration in hand.  Whatever
\* token stood at the same request id is marked, and the one in hand with it.
LEMMA LedgerAnswered ==
    ASSUME TypeOK, LoopOK, ClaimOK, Ledger, NodeAccepts \/ NodeRejects \/ NodeMisses
    PROVE  Ledger'
<1> DEFINE r0 == loop.req
           t0 == loop.token
<1>1. /\ r0 \in Requests /\ t0 \in Tokens /\ t0 # None /\ r0 # None
      /\ loop'.token = t0 /\ (loop'.at = "activate" => NodeAccepts)
  BY ValidationLoop, NoneAssumption DEF LoopOK
<1>2. UNCHANGED <<active, claim>> /\ Clash
  BY DEF NodeAccepts, NodeRejects, NodeMisses, links, tokens
<1>3. /\ \A r \in Requests : r # r0 => declared'[r] = declared[r]
      /\ \A t \in Tokens : t # t0 => entries'[t] = entries[t]
      /\ \/ declared'[r0] = NoDeclaration /\ entries'[t0] = None /\ ~NodeAccepts
         \/ declared'[r0].token = t0 /\ entries'[t0] = r0 /\ (NodeAccepts => declared'[r0].validated)
  <2>1. CASE NodeAccepts BY <1>1, <2>1 DEF NodeAccepts, Store, TypeOK
  <2>2. CASE ~NodeAccepts /\ Drop BY <1>1, <2>2 DEF Drop, TypeOK
  <2>3. CASE ~NodeAccepts /\ Store(FALSE) BY <1>1, <2>3 DEF Store, TypeOK
  <2> QED BY <2>1, <2>2, <2>3 DEF NodeRejects, NodeMisses
<1>4. NoDeclaration.token = None BY DEF NoDeclaration
<1>5. clashed \subseteq clashed' BY <1>2 DEF Clash
<1>6. ASSUME NEW u \in Tokens, u \notin clashed', u # t0
      PROVE  /\ entries[u] # r0 /\ declared[r0].token # u
             /\ ~(claim.at = "job" /\ claim.req = r0 /\ claim.token = u)
  <2>1. u \notin Sharing BY <1>2, <1>6 DEF Clash
  <2> QED BY <1>6, <2>1 DEF Sharing
<1>7. ASSUME t0 \notin clashed'
      PROVE  /\ \A v \in Tokens : v # t0 =>
                   /\ entries[v] # r0 /\ declared[r0].token # v
                   /\ ~(claim.at = "job" /\ claim.req = r0 /\ claim.token = v)
             /\ entries[t0] \in {None, r0} /\ claim.token # t0
             /\ \A a \in Tokens : active[a] # t0
  <2>1. Sharing = {} /\ ~Redeclared BY <1>2, <1>7 DEF Clash
  <2>2. \A v \in Tokens : v # t0 => v \notin Sharing BY <2>1
  <2> QED BY <2>1, <2>2 DEF Sharing, Redeclared
<1> HIDE DEF r0, t0
<1>8. KeysApart'
  <2>1. ASSUME NEW t \in Tokens, t \notin clashed', entries'[t] # None
        PROVE  /\ \A v \in Tokens : entries'[v] = entries'[t] => v = t
               /\ ~(claim.at = "job" /\ claim.req = entries'[t])
    <3>1. CASE t = t0
      <4>1. entries'[t] = r0 BY <1>3, <2>1, <3>1
      <4>2. claim.at = "job" => claim.token \in Tokens BY DEF TypeOK, ClaimOK
      <4> QED BY <1>3, <1>7, <2>1, <3>1, <4>1, <4>2
    <3>2. CASE t # t0
      <4>1. entries[t] # r0 /\ entries'[t] = entries[t] /\ t \notin clashed
        BY <1>3, <1>5, <1>6, <2>1, <3>2
      <4>2. \A v \in Tokens : entries'[v] = entries[v] \/ entries'[v] \in {None, r0}
        BY <1>3
      <4> QED BY <2>1, <4>1, <4>2 DEF Ledger, KeysApart
    <3> QED BY <3>1, <3>2
  <2>2. ASSUME claim.at = "job", claim.token \notin clashed'
        PROVE  \A v \in Tokens : entries'[v] # claim.req
    <3>1. claim.token \in Tokens /\ claim.req \in Requests /\ claim.token \notin clashed
      BY <1>5, <2>2 DEF TypeOK, ClaimOK
    <3>2. claim.token # t0 BY <1>7, <2>2
    <3>3. claim.req # r0 BY <1>6, <2>2, <3>1, <3>2
    <3> QED BY <1>3, <2>2, <3>1, <3>3, NoneAssumption DEF Ledger, KeysApart
  <2> QED BY <1>2, <2>1, <2>2 DEF KeysApart
<1>9. OnePlace'
  <2> SUFFICES ASSUME NEW t \in Tokens, t \notin clashed'
               PROVE /\ \A a, b \in Tokens : active[a] = t /\ active[b] = t => a = b
                     /\ \A a \in Tokens : active[a] = t => claim.token # t
                     /\ loop'.at = "activate" /\ loop'.token = t =>
                           claim.token # t /\ \A a \in Tokens : active[a] # t
    BY <1>2 DEF OnePlace
  <2>1. t \notin clashed BY <1>5
  <2> QED BY <1>1, <1>7, <2>1 DEF Ledger, OnePlace
<1>10. ASSUME NEW t \in Tokens, Backed(t), t # t0, t \notin clashed' PROVE Backed(t)'
  <2>1. entries[t] \in Requests /\ entries[t] # r0 BY <1>6, <1>10 DEF Backed, TypeOK
  <2> QED BY <1>3, <1>10, <2>1 DEF Backed
<1>11. EngineAgrees'
  <2>1. ASSUME NEW r \in Requests, declared'[r].token \notin clashed' \cup {None}
        PROVE  \/ entries'[declared'[r].token] = r
               \/ claim.at = "job" /\ claim.token = declared'[r].token /\ claim.req = r
    <3>1. CASE r = r0 BY <1>3, <1>4, <2>1, <3>1
    <3>2. CASE r # r0
      <4>1. declared'[r] = declared[r] /\ declared[r].token \in Tokens \ clashed
        BY <1>3, <1>5, <2>1, <3>2 DEF TypeOK
      <4>2. PICK u \in Tokens : u = declared[r].token BY <4>1
      <4>3. u \notin clashed' /\ u # None BY <2>1, <4>1, <4>2
      <4>4. entries[u] = r \/ (claim.at = "job" /\ claim.token = u /\ claim.req = r)
        BY <4>1, <4>2, <4>3 DEF Ledger, EngineAgrees
      <4>5. CASE u = t0
        <5>1. entries[t0] \in {None, r0} /\ claim.token # t0 BY <1>7, <4>3, <4>5
        <5> QED BY <3>2, <4>4, <4>5, <5>1, NoneAssumption
      <4>6. CASE u # t0
        <5>1. entries'[u] = entries[u] BY <1>3, <4>6
        <5> QED BY <4>1, <4>2, <4>4, <5>1
      <4> QED BY <4>5, <4>6
    <3> QED BY <3>1, <3>2
  <2>2. loop'.at = "activate" => Backed(loop.token)'
    BY <1>1, <1>3, NoneAssumption DEF Backed, t0, r0
  <2> QED BY <1>1, <1>2, <2>1, <2>2 DEF EngineAgrees, Backed, t0
<1>12. ActiveTokensBacked'
  <2>1. ASSUME NEW a \in Tokens, active[a] \notin clashed' \cup {None} PROVE Backed(active[a])'
    <3>1. active[a] \in Tokens /\ active[a] # t0 /\ active[a] \notin clashed
      BY <1>5, <1>7, <2>1 DEF TypeOK
    <3>2. Backed(active[a]) BY <2>1, <3>1 DEF Ledger, ActiveTokensBacked
    <3> DEFINE u == active[a]
    <3>3. Backed(u)' BY <1>2, <1>3, <1>6, <2>1, <3>1, <3>2 DEF Backed, TypeOK
    <3> QED BY <3>3
  <2>2. ASSUME claim.token \notin clashed', claim.at = "entry" PROVE Backed(claim.token)'
    <3>1. claim.token \in Tokens /\ claim.token # t0 /\ claim.token \notin clashed
      BY <1>5, <1>7, <2>2 DEF TypeOK, ClaimOK
    <3>2. Backed(claim.token) BY <2>2, <3>1 DEF Ledger, ActiveTokensBacked
    <3> QED BY <1>2, <1>3, <1>6, <2>2, <3>1, <3>2 DEF Backed, TypeOK
  <2>3. ASSUME claim.token \notin clashed', claim.at = "job"
        PROVE  declared'[claim.req].token = claim.token /\ declared'[claim.req].validated
    <3>1. claim.token \in Tokens /\ claim.req \in Requests /\ claim.token \notin clashed
      BY <1>5, <2>3 DEF TypeOK, ClaimOK
    <3>2. claim.req # r0 BY <1>6, <1>7, <2>3, <3>1
    <3> QED BY <1>3, <2>3, <3>1, <3>2 DEF Ledger, ActiveTokensBacked
  <2> QED BY <1>2, <2>1, <2>2, <2>3 DEF ActiveTokensBacked, Backed
<1> QED BY <1>8, <1>9, <1>11, <1>12 DEF Ledger

\* TokenManager::activate: the token in hand becomes the one a new active
\* token stands for.
LEMMA LedgerActivated ==
    ASSUME TypeOK, LoopOK, Ledger, Activate PROVE Ledger'
<1>1. /\ UNCHANGED <<clashed, entries, declared, claim>> /\ loop.at = "activate"
      /\ loop.client \in Clients /\ loop.token \in Tokens /\ loop.token # None
      /\ nextToken \in Tokens
  BY NoneAssumption, BoundsAssumption DEF Activate, LoopOK, links, engine, TypeOK, Tokens
<1>2. loop'.at # "activate"
  BY <1>1, SentFields DEF Activate
<1>3. \A a \in Tokens : active'[a] = IF a = nextToken THEN loop.token ELSE active[a]
  BY <1>1 DEF Activate, TypeOK
<1>4. KeysApart' BY <1>1 DEF Ledger, KeysApart
<1>5. OnePlace' BY <1>1, <1>2, <1>3 DEF Ledger, OnePlace
<1>6. EngineAgrees' BY <1>1, <1>2 DEF Ledger, EngineAgrees
<1>7. ActiveTokensBacked'
  BY <1>1, <1>3 DEF Ledger, EngineAgrees, ActiveTokensBacked, Backed
<1> QED BY <1>4, <1>5, <1>6, <1>7 DEF Ledger

\* allocated_from_active and deactivate: the redemption takes the token over.
LEMMA LedgerClaimed ==
    ASSUME TypeOK, LoopOK, ClaimOK, Ledger, NEW a \in Tokens, Claim(a) PROVE Ledger'
<1>1. /\ UNCHANGED <<clashed, entries, declared, loop>> /\ active[a] # None /\ claim.at = "none"
      /\ claim'.at = "entry" /\ claim'.token = active[a] /\ claim.token = None
  BY DEF Claim, NoClaim, links, engine, ClaimOK
<1>2. \A b \in Tokens : active'[b] = IF b = a THEN None ELSE active[b]
  BY DEF Claim, TypeOK
<1>3. active[a] \in Tokens BY <1>1 DEF TypeOK
<1>4. KeysApart' BY <1>1 DEF Ledger, KeysApart
<1>5. OnePlace' BY <1>1, <1>2, NoneAssumption DEF Ledger, OnePlace
<1>6. EngineAgrees' BY <1>1 DEF Ledger, EngineAgrees, Backed
<1>7. ActiveTokensBacked' BY <1>1, <1>2 DEF Ledger, ActiveTokensBacked, Backed
<1> QED BY <1>4, <1>5, <1>6, <1>7 DEF Ledger

\* The engine removes the entry of the token it redeems; the declaration is
\* then reached by the redemption alone.
LEMMA LedgerFound ==
    ASSUME TypeOK, LoopOK, ClaimOK, Ledger, FindEntry PROVE Ledger'
<1> DEFINE t0 == claim.token
           r0 == entries[t0]
<1>1. /\ UNCHANGED <<clashed, active, declared, loop>> /\ claim.at = "entry"
      /\ t0 \in Tokens /\ t0 # None /\ r0 \in Requests \cup {None}
  BY NoneAssumption DEF FindEntry, ClaimOK, TypeOK, links, tokens
<1>2. IF r0 = None THEN claim'.at = "none" /\ claim'.token = None
      ELSE claim'.at = "job" /\ claim'.token = t0 /\ claim'.req = r0
  BY <1>1 DEF FindEntry, TypeOK, NoClaim
<1>3. t0 \notin clashed => Backed(t0) /\ r0 # None
  BY <1>1 DEF Ledger, ActiveTokensBacked, Backed
<1>4. \A t \in Tokens : entries'[t] = IF t = t0 THEN None ELSE entries[t]
  BY <1>1 DEF FindEntry, TypeOK
<1>5. ASSUME t0 \notin clashed
      PROVE  \A a \in Tokens : active[a] # t0 /\ ~(loop.at = "activate" /\ loop.token = t0)
  BY <1>1, <1>5 DEF Ledger, OnePlace
<1>6. \A v \in Tokens : v \notin clashed /\ entries[v] # None /\ entries[v] = r0 => v = t0
  BY <1>1 DEF Ledger, KeysApart
<1>7. t0 \notin clashed => \A v \in Tokens : entries[v] = r0 => v = t0
  BY <1>1, <1>3 DEF Ledger, KeysApart
<1> HIDE DEF r0, t0
<1>8. KeysApart'
  <2>1. ASSUME NEW t \in Tokens, t \notin clashed, entries'[t] # None
        PROVE  /\ \A v \in Tokens : entries'[v] = entries'[t] => v = t
               /\ ~(claim'.at = "job" /\ claim'.req = entries'[t])
    <3>1. t # t0 /\ entries'[t] = entries[t] /\ entries[t] # r0 BY <1>4, <1>6, <2>1
    <3>2. \A v \in Tokens : entries[v] = entries[t] => v = t
      BY <2>1, <3>1 DEF Ledger, KeysApart
    <3> QED BY <1>2, <1>4, <2>1, <3>1, <3>2
  <2>2. ASSUME claim'.at = "job", claim'.token \notin clashed
        PROVE  \A v \in Tokens : entries'[v] # claim'.req
    <3>1. claim'.token = t0 /\ claim'.req = r0 /\ r0 # None BY <1>2, <2>2
    <3> QED BY <1>4, <1>7, <2>2, <3>1
  <2> QED BY <1>1, <2>1, <2>2 DEF KeysApart
<1>9. OnePlace'
  <2>1. \A t \in Tokens : claim'.token = t => t = t0 BY <1>2, NoneAssumption
  <2> QED BY <1>1, <1>5, <2>1 DEF Ledger, OnePlace
<1>10. ASSUME NEW t \in Tokens, Backed(t), t # t0 PROVE Backed(t)'
  BY <1>1, <1>4, <1>10 DEF Backed
<1>11. EngineAgrees'
  <2>1. ASSUME NEW r \in Requests, declared[r].token \notin clashed \cup {None}
        PROVE  \/ entries'[declared[r].token] = r
               \/ claim'.at = "job" /\ claim'.token = declared[r].token /\ claim'.req = r
    <3>1. declared[r].token \in Tokens BY <2>1 DEF TypeOK
    <3>2. entries[declared[r].token] = r BY <1>1, <2>1 DEF Ledger, EngineAgrees
    <3> QED BY <1>2, <1>4, <3>1, <3>2, NoneAssumption DEF r0
  <2>2. loop.at = "activate" /\ loop.token \notin clashed => Backed(loop.token)'
    <3> SUFFICES ASSUME loop.at = "activate", loop.token \notin clashed PROVE Backed(loop.token)'
      OBVIOUS
    <3>1. loop.token \in Tokens /\ Backed(loop.token) BY DEF LoopOK, Ledger, EngineAgrees
    <3>2. loop.token # t0 BY <1>1, <1>5, <3>1
    <3> QED BY <1>1, <1>4, <3>1, <3>2 DEF Backed
  <2> QED BY <1>1, <2>1, <2>2 DEF EngineAgrees, Backed
<1>12. ActiveTokensBacked'
  <2>1. ASSUME NEW a \in Tokens, active[a] \notin clashed \cup {None} PROVE Backed(active[a])'
    <3>1. active[a] \in Tokens /\ Backed(active[a]) BY <2>1 DEF TypeOK, Ledger, ActiveTokensBacked
    <3>2. active[a] # t0 BY <1>5, <2>1
    <3> QED BY <1>1, <1>4, <3>1, <3>2 DEF Backed
  <2>2. ASSUME claim'.token \notin clashed, claim'.at = "job"
        PROVE  declared[claim'.req].token = claim'.token /\ declared[claim'.req].validated
    <3>1. claim'.token = t0 /\ claim'.req = r0 BY <1>2, <2>2
    <3> QED BY <1>3, <2>2, <3>1 DEF Backed, r0, t0
  <2>3. claim'.at # "entry" BY <1>2
  <2> QED BY <1>1, <2>1, <2>2, <2>3 DEF ActiveTokensBacked, Backed
<1> QED BY <1>8, <1>9, <1>11, <1>12 DEF Ledger

\* The redemption takes the declaration; no other token free of clashes stands
\* for it.
LEMMA LedgerConsumed ==
    ASSUME TypeOK, LoopOK, ClaimOK, Ledger, Consume PROVE Ledger'
<1> DEFINE r0 == claim.req
<1>1. /\ UNCHANGED <<clashed, active, entries, loop>> /\ claim.at = "job" /\ r0 \in Requests
  BY DEF Consume, ClaimOK, TypeOK, links, tokens
<1>2. claim'.at = "none" /\ claim'.token = None BY DEF Consume, NoClaim
<1>3. \A r \in Requests : declared'[r] = IF r = r0 THEN NoDeclaration ELSE declared[r]
  BY <1>1 DEF Consume, TypeOK
<1>4. NoDeclaration.token = None BY DEF NoDeclaration
<1>5. \A t \in Tokens \ clashed : entries[t] # r0
  BY <1>1, NoneAssumption DEF Ledger, KeysApart
<1>6. KeysApart' BY <1>1, <1>2 DEF Ledger, KeysApart
<1>7. OnePlace' BY <1>1, <1>2, NoneAssumption DEF Ledger, OnePlace
<1>8. \A t \in Tokens \ clashed : Backed(t) => declared'[entries[t]] = declared[entries[t]]
  BY <1>3, <1>5 DEF Backed, TypeOK
<1>9. EngineAgrees'
  <2>1. ASSUME NEW r \in Requests, declared'[r].token \notin clashed \cup {None}
        PROVE  entries[declared'[r].token] = r
    <3>1. r # r0 /\ declared'[r] = declared[r] BY <1>3, <1>4, <2>1
    <3> QED BY <2>1, <3>1 DEF Ledger, EngineAgrees
  <2>2. loop.at = "activate" => loop.token \in Tokens BY DEF LoopOK
  <2>3. (loop.at = "activate" /\ loop.token \notin clashed => Backed(loop.token))'
    BY <1>1, <1>8, <2>2 DEF Ledger, EngineAgrees, Backed
  <2> QED BY <1>1, <2>1, <2>3 DEF EngineAgrees
<1>10. ActiveTokensBacked'
  <2>1. (\A a \in Tokens : active[a] \notin clashed \cup {None} => Backed(active[a]))'
    BY <1>1, <1>8 DEF Ledger, ActiveTokensBacked, Backed, TypeOK
  <2> QED BY <1>2, <2>1 DEF ActiveTokensBacked, Backed
<1> QED BY <1>6, <1>7, <1>9, <1>10 DEF Ledger

\* The janitor of the engine evicts a declaration that no active token, no
\* redemption and not the loop can reach.
LEMMA LedgerEvicted ==
    ASSUME TypeOK, LoopOK, ClaimOK, Ledger, NEW t0 \in Tokens, EngineJanitor(t0) PROVE Ledger'
<1> DEFINE r0 == entries[t0]
<1>1. /\ UNCHANGED <<clashed, active, claim, loop>>
      /\ r0 # None /\ r0 \in Requests
      /\ claim.token # t0 /\ loop.token # t0 /\ \A a \in Tokens : active[a] # t0
  BY DEF EngineJanitor, TypeOK, links, tokens
<1>2. \A r \in Requests : declared'[r] = IF r = r0 THEN NoDeclaration ELSE declared[r]
  BY <1>1 DEF EngineJanitor, TypeOK
<1>3. \A t \in Tokens : entries'[t] = IF t = t0 THEN None ELSE entries[t]
  BY DEF EngineJanitor, TypeOK
<1>4. \A t \in Tokens \ clashed : entries[t] = r0 => t = t0
  BY <1>1 DEF Ledger, KeysApart
<1>5. NoDeclaration.token = None BY DEF NoDeclaration
<1>6. claim.at = "job" /\ claim.token \notin clashed => claim.req # r0
  BY <1>1 DEF Ledger, KeysApart
<1> HIDE DEF r0
<1>7. KeysApart'
  <2>1. ASSUME NEW t \in Tokens, t \notin clashed, entries'[t] # None
        PROVE  /\ \A v \in Tokens : entries'[v] = entries'[t] => v = t
               /\ ~(claim.at = "job" /\ claim.req = entries'[t])
    BY <1>3, <2>1 DEF Ledger, KeysApart
  <2>2. ASSUME claim.at = "job", claim.token \notin clashed
        PROVE  \A v \in Tokens : entries'[v] # claim.req
    <3>1. claim.req \in Requests BY <2>2 DEF ClaimOK
    <3> QED BY <1>3, <2>2, <3>1, NoneAssumption DEF Ledger, KeysApart
  <2> QED BY <1>1, <2>1, <2>2 DEF KeysApart
<1>8. OnePlace' BY <1>1 DEF Ledger, OnePlace
<1>9. \A t \in Tokens \ clashed : Backed(t) /\ t # t0 =>
         entries'[t] = entries[t] /\ declared'[entries[t]] = declared[entries[t]]
  BY <1>2, <1>3, <1>4 DEF Backed, TypeOK
<1>10. EngineAgrees'
  <2>1. ASSUME NEW r \in Requests, declared'[r].token \notin clashed \cup {None}
        PROVE  \/ entries'[declared'[r].token] = r
               \/ claim.at = "job" /\ claim.token = declared'[r].token /\ claim.req = r
    <3>1. r # r0 /\ declared'[r] = declared[r] BY <1>2, <1>5, <2>1
    <3>2. declared[r].token \in Tokens BY <2>1, <3>1 DEF TypeOK
    <3>3. CASE declared[r].token = t0 BY <1>1, <2>1, <3>1, <3>3 DEF Ledger, EngineAgrees, r0
    <3>4. CASE declared[r].token # t0
      BY <1>3, <2>1, <3>1, <3>2, <3>4 DEF Ledger, EngineAgrees
    <3> QED BY <3>3, <3>4
  <2>2. loop.at = "activate" => loop.token \in Tokens BY DEF LoopOK
  <2>3. (loop.at = "activate" /\ loop.token \notin clashed => Backed(loop.token))'
    BY <1>1, <1>9, <2>2 DEF Ledger, EngineAgrees, Backed
  <2> QED BY <1>1, <2>1, <2>3 DEF EngineAgrees
<1>11. ActiveTokensBacked'
  <2>1. (\A a \in Tokens : active[a] \notin clashed \cup {None} => Backed(active[a]))'
    BY <1>1, <1>9 DEF Ledger, ActiveTokensBacked, Backed, TypeOK
  <2>2. claim.at = "entry" /\ claim.token \notin clashed => Backed(claim.token)'
    <3>1. claim.at = "entry" => claim.token \in Tokens BY DEF TypeOK, ClaimOK
    <3> QED BY <1>1, <1>9, <3>1 DEF Ledger, ActiveTokensBacked, Backed
  <2>3. claim.at = "job" /\ claim.token \notin clashed => declared'[claim.req] = declared[claim.req]
    BY <1>2, <1>6 DEF ClaimOK
  <2> QED BY <1>1, <2>1, <2>2, <2>3 DEF Ledger, ActiveTokensBacked, Backed
<1> QED BY <1>7, <1>8, <1>10, <1>11 DEF Ledger

\* Nothing is declared, active or redeemed at the start.
LEMMA LedgerInit == ASSUME Init PROVE Ledger
<1> USE DEF Init
<1>1. KeysApart BY DEF KeysApart, NoClaim
<1>2. OnePlace BY NoneAssumption DEF OnePlace, Idle
<1>3. EngineAgrees BY DEF EngineAgrees, Idle, NoDeclaration
<1>4. ActiveTokensBacked BY DEF ActiveTokensBacked, NoClaim
<1> QED BY <1>1, <1>2, <1>3, <1>4 DEF Ledger

\* Every step keeps the maps of the token manager and of the engine in step.
LEMMA LedgerStep ==
    ASSUME TypeOK, LoopOK, ClaimOK, Ledger, [Next]_vars PROVE Ledger'
<1> USE DEF links, tokens, engine, vars
<1>1. ASSUME NEW c \in Clients, Join(c) \/ Lost(c) \/ Leave(c) PROVE Ledger'
  BY <1>1, LedgerShrinks DEF Join, Lost, Leave
<1>2. CASE LoopCleanup
  <2>1. loop'.at # "activate" BY <1>2, IdleFields DEF LoopCleanup, TypeOK
  <2> QED BY <1>2, <2>1, LedgerShrinks DEF LoopCleanup
<1>3. ASSUME NEW c \in Clients, Allocate(c) PROVE Ledger'
  <2>1. loop'.at # "activate" BY <1>3, IdleFields DEF Allocate, LoopStates
  <2> QED BY <1>3, <2>1, LedgerShrinks DEF Allocate
<1>4. CASE AnswerAllocate \/ Deallocate \/ Pend
  <2>1. loop.client \in Clients BY <1>4 DEF AnswerAllocate, Deallocate, Pend, LoopOK
  <2>2. loop'.at # "activate"
    BY <1>4, <2>1, SentFields DEF AnswerAllocate, Deallocate, Pend
  <2> QED BY <1>4, <2>2, LedgerShrinks DEF AnswerAllocate, Deallocate, Pend
<1>5. ASSUME NEW c \in Clients, NEW r \in Requests, NEW t \in Tokens, Declare(c, t, r) PROVE Ledger'
  <2>1. loop'.at # "activate" BY <1>5, DeclareLoop
  <2> QED BY <1>5, <2>1, LedgerShrinks DEF Declare
<1>6. ASSUME NEW c \in Clients, NEW r \in Requests, ProvideMissing(c, r) PROVE Ledger'
  <2>1. loop'.at # "activate" BY <1>6, ProvideLoop
  <2> QED BY <1>6, <2>1, LedgerShrinks DEF ProvideMissing
<1>7. CASE ValidationFails
  <2>1. loop'.at # "activate" BY <1>7 DEF ValidationFails, TypeOK
  <2> QED BY <1>7, <2>1, LedgerShrinks DEF ValidationFails
<1>8. CASE NodeAccepts \/ NodeRejects \/ NodeMisses BY <1>8, LedgerAnswered
<1>9. CASE Activate BY <1>9, LedgerActivated
<1>10. ASSUME NEW a \in Tokens, Claim(a) PROVE Ledger' BY <1>10, LedgerClaimed
<1>11. CASE FindEntry BY <1>11, LedgerFound
<1>12. CASE Consume BY <1>12, LedgerConsumed
<1>13. ASSUME NEW t \in Tokens, EngineJanitor(t) PROVE Ledger' BY <1>13, LedgerEvicted
<1>14. ASSUME NEW o \in 0..MaxTokens, NEW p \in 0..MaxTokens, TokenJanitor(o, p) PROVE Ledger'
  <2>1. \A a \in Tokens : active'[a] \in {None, active[a]} BY <1>14 DEF TokenJanitor
  <2> QED BY <1>14, <2>1, LedgerShrinks DEF TokenJanitor
<1>15. ASSUME NEW c \in Clients, NEW r \in Requests, PendingJanitor(c, r) PROVE Ledger'
  BY <1>15, LedgerShrinks DEF PendingJanitor
<1>16. CASE NewTip \/ UNCHANGED vars
  BY <1>16, LedgerShrinks DEF NewTip
<1> QED BY <1>1, <1>2, <1>3, <1>4, <1>5, <1>6, <1>7, <1>8, <1>9, <1>10, <1>11, <1>12, <1>13,
           <1>14, <1>15, <1>16 DEF Next, LoopStep

\* An active token whose declaration shared no request id and no token with another
\* one the engine knew always finds its validated declaration, by way of both maps of
\* the engine, and every such declared job stays within reach of the engine's janitor:
\* for every set of clients and requests, every number of tokens and whatever the
\* clients send.
THEOREM TokensAgree == Spec => []TokensInv
<1>1. Init => Ledger BY LedgerInit
<1>2. (TypeOK /\ LoopOK /\ ClaimOK) /\ Ledger /\ [Next]_vars => Ledger' BY LedgerStep
<1>3. (TypeOK /\ LoopOK /\ ClaimOK) /\ Ledger => TokensInv
  <2> SUFFICES ASSUME TypeOK, Ledger PROVE TokensInv OBVIOUS
  <2>1. DeclaredJobsReapable
    <3> SUFFICES ASSUME NEW r \in Requests, declared[r].token \notin clashed \cup {None}
                 PROVE (claim.at = "job" /\ claim.req = r) \/ \E t \in Tokens : entries[t] = r
      BY DEF DeclaredJobsReapable
    <3>1. declared[r].token \in Tokens BY DEF TypeOK
    <3> QED BY <3>1 DEF Ledger, EngineAgrees
  <2> QED BY <2>1 DEF Ledger, TokensInv
<1> QED BY <1>1, <1>2, <1>3, TypesInvariant, PTL DEF Spec
=============================================================================
