---------------------------- MODULE JobDeclaration ----------------------------
(***************************************************************************)
(* The job declaration server embedded in the pool: the tokens it hands    *)
(* out, the jobs declared with them and the custom jobs the pool accepts    *)
(* on their strength (pool-apps/jd-server/src/lib/job_declarator/).         *)
(*                                                                         *)
(* Four kinds of task share the maps.  One loop serves the job declaration  *)
(* messages of all clients and waits for the node while it validates a      *)
(* declaration; the task of a connection cleans up when the client leaves,  *)
(* one map after the other; the pool's channel manager redeems tokens; the  *)
(* janitors evict what is too old.                                          *)
(*                                                                         *)
(* The queue in front of the loop is left out: a message of a client may be *)
(* served any time after it connected, also after it left.                  *)
(***************************************************************************)
EXTENDS Naturals

CONSTANTS
    Clients,
    Requests,       \* request ids; every client chooses its own, and most start at 0
    MaxTokens,      \* bound on token_factory
    MaxDeclared,    \* bound on the declarations that are validated
    MaxTip,         \* bound on the chain tips of the node
    None

Tokens == 0..(MaxTokens - 1)

ASSUME BoundsAssumption == MaxTokens \in Nat /\ MaxDeclared \in Nat /\ MaxTip \in Nat \ {0}
ASSUME NoneAssumption == None \notin Clients \cup Requests \cup Tokens

VARIABLES
    conn,           \* the connection of a client
    step,           \* the cleanup_downstream step its task is at
    clients,        \* downstream_clients
    senders,        \* downstream_client_senders
    nextToken,      \* TokenManager.token_factory
    allocated,      \* TokenManager.allocated_tokens: the client of a token
    active,         \* TokenManager.active_tokens: the token it was allocated as
    pending,        \* pending_declare_mining_jobs: the token of the declaration
    entries,        \* BitcoinCoreIPCEngine.allocated_token_entries
    declared,       \* BitcoinCoreIPCEngine.declared_custom_jobs
    clashed,        \* history: tokens whose declaration met another one's keys
    made,           \* number of declarations validated
    loop,           \* the job declaration loop
    claim,          \* the SetCustomMiningJob the pool is at
    tip             \* the chain tip of the node

links == <<conn, step, clients, senders>>
tokens == <<nextToken, allocated, active>>
engine == <<entries, declared>>
vars == <<links, tokens, pending, engine, clashed, made, loop, claim, tip>>

NoDeclaration == [token |-> None, tip |-> 0, validated |-> FALSE]
Idle == [at |-> "idle", client |-> None, token |-> None, req |-> None, retry |-> FALSE,
         prev |-> 0, step |-> 1]
NoClaim == [at |-> "none", token |-> None, req |-> None]
Cleaning(c) == [Idle EXCEPT !.at = "cleanup", !.client = c]

TypeOK ==
    /\ conn \in [Clients -> {"absent", "joined", "leaving", "gone"}]
    /\ step \in [Clients -> 1..3]
    /\ clients \subseteq Clients /\ senders \subseteq Clients
    /\ nextToken \in 0..MaxTokens
    /\ allocated \in [Tokens -> Clients \cup {None}]
    /\ active \in [Tokens -> Tokens \cup {None}]
    /\ \A t \in Tokens : allocated[t] # None \/ active[t] # None => t < nextToken
    /\ pending \in [Clients \X Requests -> Tokens \cup {None}]
    /\ entries \in [Tokens -> Requests \cup {None}]
    /\ declared \in [Requests -> [token : Tokens \cup {None}, tip : 0..MaxTip, validated : BOOLEAN]]
    /\ clashed \subseteq Tokens /\ made \in 0..MaxDeclared
    /\ loop \in [at : {"idle", "sender", "validating", "activate", "deallocate", "pend", "cleanup"},
                 client : Clients \cup {None}, token : Tokens \cup {None}, req : Requests \cup {None},
                 retry : BOOLEAN, prev : 0..MaxTip, step : 1..3]
    /\ claim \in [at : {"none", "entry", "job"}, token : Tokens \cup {None}, req : Requests \cup {None}]
    /\ tip \in 1..MaxTip

Init ==
    /\ conn = [c \in Clients |-> "absent"]
    /\ step = [c \in Clients |-> 1]
    /\ clients = {} /\ senders = {}
    /\ nextToken = 0
    /\ allocated = [t \in Tokens |-> None]
    /\ active = [t \in Tokens |-> None]
    /\ pending = [p \in Clients \X Requests |-> None]
    /\ entries = [t \in Tokens |-> None]
    /\ declared = [r \in Requests |-> NoDeclaration]
    /\ clashed = {} /\ made = 0
    /\ loop = Idle
    /\ claim = NoClaim
    /\ tip = 1

-----------------------------------------------------------------------------
(* Connections. *)

\* The accept task inserts both map entries before it starts the connection.
Join(c) ==
    /\ conn[c] = "absent"
    /\ conn' = [conn EXCEPT ![c] = "joined"]
    /\ clients' = clients \cup {c}
    /\ senders' = senders \cup {c}
    /\ UNCHANGED <<step, tokens, pending, engine, clashed, made, loop, claim, tip>>

\* The peer goes away, or cleanup_downstream of the loop cancelled the token of
\* the connection.
Lost(c) ==
    /\ conn[c] = "joined"
    /\ conn' = [conn EXCEPT ![c] = "leaving"]
    /\ UNCHANGED <<step, clients, senders, tokens, pending, engine, clashed, made, loop, claim, tip>>

\* TokenManager::remove_downstream keeps the active tokens.
Disown(c) == [t \in Tokens |-> IF allocated[t] = c THEN None ELSE allocated[t]]

CleanupTokensFirst(c, s) ==
    /\ allocated' = IF s = 1 THEN Disown(c) ELSE allocated
    /\ clients' = IF s = 2 THEN clients \ {c} ELSE clients
    /\ pending' = IF s = 2 THEN [p \in Clients \X Requests |-> IF p[1] = c THEN None ELSE pending[p]]
                  ELSE pending
    /\ senders' = IF s = 3 THEN senders \ {c} ELSE senders

\* cleanup_downstream, one step per map; the pending declarations live in the
\* Downstream that the first one removes.
Cleanup(c, s) ==
    /\ clients' = IF s = 1 THEN clients \ {c} ELSE clients
    /\ pending' = IF s = 1 THEN [p \in Clients \X Requests |-> IF p[1] = c THEN None ELSE pending[p]]
                  ELSE pending
    /\ senders' = IF s = 2 THEN senders \ {c} ELSE senders
    /\ allocated' = IF s = 3 THEN Disown(c) ELSE allocated

Leave(c) ==
    /\ conn[c] = "leaving"
    /\ Cleanup(c, step[c])
    /\ IF step[c] < 3
         THEN step' = [step EXCEPT ![c] = @ + 1] /\ UNCHANGED conn
         ELSE conn' = [conn EXCEPT ![c] = "gone"] /\ UNCHANGED step
    /\ UNCHANGED <<nextToken, active, engine, clashed, made, loop, claim, tip>>

\* Action::Disconnect in the loop.
LoopCleanup ==
    /\ loop.at = "cleanup"
    /\ Cleanup(loop.client, loop.step)
    /\ loop' = IF loop.step < 3 THEN [loop EXCEPT !.step = @ + 1] ELSE Idle
    /\ UNCHANGED <<conn, step, nextToken, active, engine, clashed, made, claim, tip>>

-----------------------------------------------------------------------------
(* The job declaration loop. *)

\* A response is sent; that fails when the connection has ended.
Sent(c) == loop' = Idle \/ (conn[c] \in {"leaving", "gone"} /\ loop' = Cleaning(c))

\* handle_allocate_mining_job_token: the token first ...
Allocate(c) ==
    /\ loop.at = "idle"
    /\ conn[c] # "absent"
    /\ nextToken < MaxTokens
    /\ nextToken' = nextToken + 1
    /\ allocated' = [allocated EXCEPT ![nextToken] = c]
    /\ loop' = [Idle EXCEPT !.at = "sender", !.client = c]
    /\ UNCHANGED <<links, active, pending, engine, clashed, made, claim, tip>>

\* ... then the sender for the answer.
AnswerAllocate ==
    /\ loop.at = "sender"
    /\ IF loop.client \in senders THEN Sent(loop.client) ELSE loop' = Cleaning(loop.client)
    /\ UNCHANGED <<links, tokens, pending, engine, clashed, made, claim, tip>>

\* handle_declare_mining_job, up to the wait for the node.  The client may have
\* declared a job with the request id or the token before.
Declare(c, t, r) ==
    /\ loop.at = "idle"
    /\ conn[c] # "absent"
    /\ IF c \notin senders THEN loop' = Cleaning(c) /\ UNCHANGED made
       ELSE IF allocated[t] # c THEN Sent(c) /\ UNCHANGED made
       ELSE /\ made < MaxDeclared /\ made' = made + 1
            /\ loop' = [Idle EXCEPT !.at = "validating", !.client = c, !.token = t, !.req = r]
    /\ UNCHANGED <<links, tokens, pending, engine, clashed, claim, tip>>

\* handle_provide_missing_transactions_success, up to the wait for the node.
ProvideMissing(c, r) ==
    /\ loop.at = "idle"
    /\ conn[c] # "absent"
    /\ IF c \notin senders \/ c \notin clients
         THEN loop' = Cleaning(c) /\ UNCHANGED pending
         ELSE /\ pending[<<c, r>>] # None
              /\ pending' = [pending EXCEPT ![<<c, r>>] = None]
              /\ loop' = [Idle EXCEPT !.at = "validating", !.client = c, !.token = pending[<<c, r>>],
                                      !.req = r, !.retry = TRUE, !.prev = declared[r].tip]
    /\ UNCHANGED <<links, tokens, engine, clashed, made, claim, tip>>

\* An error before the node answers (a bad coinbase, no node): the engine's
\* maps are left alone.
ValidationFails ==
    /\ loop.at = "validating"
    /\ loop' = [loop EXCEPT !.at = "deallocate"]
    /\ UNCHANGED <<links, tokens, pending, engine, clashed, made, claim, tip>>

Store(validated) ==
    /\ declared' = [declared EXCEPT ![loop.req] =
                        [token |-> loop.token, tip |-> tip, validated |-> validated]]
    /\ entries' = [entries EXCEPT ![loop.token] = loop.req]

Drop ==
    /\ declared' = [declared EXCEPT ![loop.req] = NoDeclaration]
    /\ entries' = [entries EXCEPT ![loop.token] = None]

\* The engine's maps are keyed by the request id and by the token, whichever client
\* sent them.  Other tokens it still knows under the request id in hand:
Sharing ==
    {v \in Tokens \ {loop.token} :
        \/ entries[v] = loop.req \/ declared[loop.req].token = v
        \/ claim.at = "job" /\ claim.req = loop.req /\ claim.token = v}

\* The token in hand stands for another declaration, or was activated already.
Redeclared ==
    \/ entries[loop.token] \notin {None, loop.req} \/ claim.token = loop.token
    \/ \E a \in Tokens : active[a] = loop.token

\* The engine writes over what it knows of the declarations that share a key.
Clash ==
    clashed' = clashed \cup Sharing \cup
                  (IF Sharing # {} \/ Redeclared THEN {loop.token} ELSE {})

\* validation_context_drifted, on the retry with the missing transactions.
Drifted == loop.retry /\ loop.prev # 0 /\ loop.prev # tip

NodeAccepts ==
    /\ loop.at = "validating"
    /\ Store(TRUE)
    /\ loop' = [loop EXCEPT !.at = "activate"]
    /\ Clash
    /\ UNCHANGED <<links, tokens, pending, made, claim, tip>>

NodeRejects ==
    /\ loop.at = "validating"
    /\ Drop
    /\ loop' = [loop EXCEPT !.at = "deallocate"]
    /\ Clash
    /\ UNCHANGED <<links, tokens, pending, made, claim, tip>>

\* JdResponse::MissingTransactions: a second round is an error, but the engine
\* has stored the job again unless the tip moved.
NodeMisses ==
    /\ loop.at = "validating"
    /\ IF Drifted THEN Drop ELSE Store(FALSE)
    /\ loop' = [loop EXCEPT !.at = IF loop.retry THEN "deallocate" ELSE "pend"]
    /\ Clash
    /\ UNCHANGED <<links, tokens, pending, made, claim, tip>>

\* TokenManager::activate: the active token is a new one, whether or not the
\* allocated one was still there.
Activate ==
    /\ loop.at = "activate"
    /\ nextToken < MaxTokens
    /\ nextToken' = nextToken + 1
    /\ active' = [active EXCEPT ![nextToken] = loop.token]
    /\ allocated' = [allocated EXCEPT ![loop.token] = None]
    /\ Sent(loop.client)
    /\ UNCHANGED <<links, pending, engine, clashed, made, claim, tip>>

Deallocate ==
    /\ loop.at = "deallocate"
    /\ allocated' = [allocated EXCEPT ![loop.token] = None]
    /\ Sent(loop.client)
    /\ UNCHANGED <<links, nextToken, active, pending, engine, clashed, made, claim, tip>>

\* The declaration waits for its missing transactions.
Pend ==
    /\ loop.at = "pend"
    /\ IF loop.client \in clients
         THEN /\ pending' = [pending EXCEPT ![<<loop.client, loop.req>>] = loop.token]
              /\ Sent(loop.client)
         ELSE loop' = Cleaning(loop.client) /\ UNCHANGED pending
    /\ UNCHANGED <<links, tokens, engine, clashed, made, claim, tip>>

-----------------------------------------------------------------------------
(* SetCustomMiningJob, in the task of the pool's channel manager. *)

ClaimKeepingActive(a) ==
    /\ claim.at = "none"
    /\ active[a] # None
    /\ claim' = [NoClaim EXCEPT !.at = "entry", !.token = active[a]]
    /\ UNCHANGED <<links, tokens, pending, engine, clashed, made, loop, tip>>

\* allocated_from_active and deactivate.
Claim(a) ==
    /\ claim.at = "none"
    /\ active[a] # None
    /\ claim' = [NoClaim EXCEPT !.at = "entry", !.token = active[a]]
    /\ active' = [active EXCEPT ![a] = None]
    /\ UNCHANGED <<links, nextToken, allocated, pending, engine, clashed, made, loop, tip>>

\* The engine looks the request id up and removes the entry.
FindEntry ==
    /\ claim.at = "entry"
    /\ claim' = IF entries[claim.token] = None THEN NoClaim
                ELSE [claim EXCEPT !.at = "job", !.req = entries[claim.token]]
    /\ entries' = [entries EXCEPT ![claim.token] = None]
    /\ UNCHANGED <<links, tokens, pending, declared, clashed, made, loop, tip>>

\* It takes the declaration and compares the custom job with it.
Consume ==
    /\ claim.at = "job"
    /\ declared' = [declared EXCEPT ![claim.req] = NoDeclaration]
    /\ claim' = NoClaim
    /\ UNCHANGED <<links, tokens, pending, entries, clashed, made, loop, tip>>

-----------------------------------------------------------------------------
(* The janitors. Tokens are numbered by age; active ones expire sooner. *)

TokenJanitor(old, oldActive) ==
    /\ allocated' = [t \in Tokens |-> IF t < old THEN None ELSE allocated[t]]
    /\ active' = [t \in Tokens |-> IF t < oldActive THEN None ELSE active[t]]
    /\ UNCHANGED <<links, nextToken, pending, engine, clashed, made, loop, claim, tip>>

PendingJanitor(c, r) ==
    /\ pending[<<c, r>>] # None
    /\ pending' = [pending EXCEPT ![<<c, r>>] = None]
    /\ UNCHANGED <<links, tokens, engine, clashed, made, loop, claim, tip>>

\* The engine's janitor.  An entry is as old as its active token, which is gone
\* long before (10 s against 24 h), and so is whatever was redeeming it.
EngineJanitor(t) ==
    /\ entries[t] # None
    /\ \A a \in Tokens : active[a] # t
    /\ claim.token # t /\ loop.token # t
    /\ declared' = [declared EXCEPT ![entries[t]] = NoDeclaration]
    /\ entries' = [entries EXCEPT ![t] = None]
    /\ UNCHANGED <<links, tokens, pending, clashed, made, loop, claim, tip>>

NewTip ==
    /\ tip < MaxTip
    /\ tip' = tip + 1
    /\ UNCHANGED <<links, tokens, pending, engine, clashed, made, loop, claim>>

-----------------------------------------------------------------------------
LoopStep ==
    \/ LoopCleanup \/ AnswerAllocate \/ ValidationFails
    \/ NodeAccepts \/ NodeRejects \/ NodeMisses
    \/ Activate \/ Deallocate \/ Pend

Next ==
    \/ \E c \in Clients :
          \/ Join(c) \/ Lost(c) \/ Leave(c) \/ Allocate(c)
          \/ \E r \in Requests : ProvideMissing(c, r) \/ PendingJanitor(c, r)
          \/ \E r \in Requests, t \in Tokens : Declare(c, t, r)
    \/ LoopStep
    \/ \E t \in Tokens : Claim(t) \/ EngineJanitor(t)
    \/ FindEntry \/ Consume
    \/ \E old, oldActive \in 0..MaxTokens : old <= oldActive /\ TokenJanitor(old, oldActive)
    \/ NewTip

Spec == Init /\ [][Next]_vars

-----------------------------------------------------------------------------
\* The declaration a token stands for: found by way of two maps with
\* different keys, validated, and made with this very token.
Backed(t) ==
    /\ entries[t] # None
    /\ declared[entries[t]].token = t
    /\ declared[entries[t]].validated

\* An active token can be redeemed: whatever other clients declare, abandon or
\* redeem in between, the engine still holds its validated declaration, unless
\* its declaration and another one had the request id or the token in common
\* while the engine knew both (clashed).
ActiveTokensBacked ==
    /\ \A a \in Tokens : active[a] \notin clashed \cup {None} => Backed(active[a])
    /\ claim.token \notin clashed =>
          /\ claim.at = "entry" => Backed(claim.token)
          /\ claim.at = "job" => declared[claim.req].token = claim.token /\ declared[claim.req].validated

\* A client that left holds no token, map entry or pending declaration, also
\* when its last request was served after it had been cleaned up.
DepartedHoldNothing ==
    \A c \in Clients :
        (conn[c] = "gone" /\ ~(loop.at \in {"sender", "cleanup"} /\ loop.client = c)) =>
            /\ c \notin clients \cup senders
            /\ \A t \in Tokens : allocated[t] # c
            /\ \A r \in Requests : pending[<<c, r>>] = None

\* "clean up stale declared jobs that were never consumed by
\* SetCustomMiningJob" (bitcoin_core_ipc.rs): a declared job stays within reach
\* of the janitor, which finds it by its token, unless it clashed.
DeclaredJobsReapable ==
    \A r \in Requests : declared[r].token \notin clashed \cup {None} =>
        (claim.at = "job" /\ claim.req = r) \/ \E t \in Tokens : entries[t] = r

\* The token maps of the manager and the two maps of the engine agree at every
\* step of the declaration loop, the redemption and the janitors, for every token
\* whose declaration shared no key with another one the engine knew.
TokensInv == TypeOK /\ ActiveTokensBacked /\ DeclaredJobsReapable
===============================================================================
