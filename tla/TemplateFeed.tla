----------------------------- MODULE TemplateFeed -----------------------------
(***************************************************************************)
(* What the channel managers of the pool and of the job declarator client   *)
(* rely on when they read the messages of a template provider: templates    *)
(* have growing ids, a future template is activated by the prevhash that    *)
(* follows it, every other template extends the tip that was announced      *)
(* last, and the announced tip never goes back.                             *)
(***************************************************************************)
EXTENDS Naturals

CONSTANTS
    Ids,                \* template ids
    Tips                \* blocks of the chain, in their order

VARIABLES
    last,               \* the last NewTemplate
    owed,               \* its SetNewPrevHash is still to come
    announced,          \* the tip of the last SetNewPrevHash; 0 before the first
    closed              \* the provider has stopped

feed == <<last, owed, announced, closed>>

Init ==
    /\ last = [id |-> 0, tip |-> 0]
    /\ owed = FALSE
    /\ announced = 0
    /\ closed = FALSE

FutureTemplate(id, at) ==
    /\ ~owed /\ ~closed
    /\ id > last.id /\ at >= announced
    /\ last' = [id |-> id, tip |-> at]
    /\ owed' = TRUE
    /\ UNCHANGED <<announced, closed>>

SetNewPrevHash ==
    /\ owed /\ ~closed
    /\ announced' = last.tip
    /\ owed' = FALSE
    /\ UNCHANGED <<last, closed>>

Template(id) ==
    /\ ~owed /\ ~closed
    /\ announced # 0
    /\ id > last.id
    /\ last' = [id |-> id, tip |-> announced]
    /\ UNCHANGED <<owed, announced, closed>>

Close ==
    /\ closed' = TRUE
    /\ UNCHANGED <<last, owed, announced>>

Next ==
    \/ \E id \in Ids, at \in Tips : FutureTemplate(id, at)
    \/ SetNewPrevHash
    \/ \E id \in Ids : Template(id)
    \/ Close

\* What the messages may be.
Messages == Init /\ [][Next]_feed

\* A prevhash that is due is sent, unless the provider stops.
Spec == Messages /\ WF_feed(SetNewPrevHash)
===============================================================================
