-------------------------- MODULE PoolRegistryProofs --------------------------
(***************************************************************************)
(* The registry invariants of the pool, for any number of connections,      *)
(* channels and queued messages.                                            *)
(***************************************************************************)
EXTENDS PoolRegistry, TLAPS

\* A key belongs to exactly one connection.
LEMMA KeyFacts ==
    /\ \A k \in Keys : k[1] \in Downstreams
    /\ \A d \in Downstreams, k \in Keys : k \in Of(d) <=> k[1] = d
    /\ \A d \in Downstreams, i \in ChannelIds : <<d, i>> \in Keys /\ <<d, i>>[1] = d
BY DEF Keys, Of

\* What a handler knows of the message at the head of the queue.
LEMMA ReceivedFacts ==
    ASSUME RegistryInv, NEW m, NEW kind, Received(m, kind)
    PROVE  /\ m \in Messages /\ m.from \in Downstreams
           /\ stage[m.from] \in {"running", "leaving", "gone"}
           /\ queue' \in Seq(Messages)
           /\ \A i \in DOMAIN queue' : stage[queue'[i].from] \in {"running", "leaving", "gone"}
           /\ cm.at = "loop"
           /\ ~shutdown
<1>1. queue \in Seq(Messages) /\ queue # <<>>
  BY DEF RegistryInv, TypeOK, Received
<1>2. m = queue[1] /\ 1 \in DOMAIN queue
  BY <1>1 DEF Received
<1>3. queue' \in Seq(Messages) /\ \A i \in DOMAIN queue' : i + 1 \in DOMAIN queue /\ queue'[i] = queue[i + 1]
  BY <1>1 DEF Received
<1>4. m \in Messages
  BY <1>1, <1>2
<1>5. m.from \in Downstreams
  BY <1>4 DEF Messages
<1> QED
  BY <1>1, <1>2, <1>3, <1>4, <1>5 DEF RegistryInv, LifecycleInv, Received, Serving

\* remove_downstream keeps the maps consistent whoever runs it, at each step.
LEMMA RemoveStepFacts ==
    ASSUME RegistryInv, NEW d \in Downstreams, NEW s \in 1..4, RemoveStep(d, s)
    PROVE  /\ downstreams' \subseteq downstreams /\ senders' \subseteq senders
           /\ vardiff' \subseteq vardiff /\ payouts' \subseteq payouts
           /\ s = 1 => d \notin downstreams'
           /\ s # 1 => downstreams' = downstreams
           /\ s = 2 => \A k \in vardiff' : k[1] # d
           /\ s = 3 => \A k \in payouts' : k[1] # d
           /\ s = 4 => d \notin senders'
           /\ \A e \in senders : e # d => e \in senders'
           /\ s # 4 => senders' = senders
           /\ \A k \in vardiff : k[1] # d => k \in vardiff'
           /\ \A k \in payouts : k[1] # d => k \in payouts'
           /\ s = 1 => vardiff' = vardiff /\ payouts' = payouts
<1>1. vardiff \subseteq Keys /\ payouts \subseteq Keys
  BY DEF RegistryInv, TypeOK
<1> QED
  BY <1>1, KeyFacts DEF RemoveStep

\* The initial state satisfies the invariant.
LEMMA RegistryInit == Init => RegistryInv
<1> SUFFICES ASSUME Init PROVE RegistryInv OBVIOUS
<1>1. TypeOK
  <2>1. cm \in CmStates BY DEF Init, CmStates
  <2>2. queue \in Seq(Messages) BY DEF Init
  <2>3. stage \in [Downstreams -> Stages] BY DEF Init, Stages
  <2>4. negotiated \in [Downstreams -> SUBSET SupportedExt] BY DEF Init
  <2>5. step \in [Downstreams -> 1..4] /\ nextId \in [Downstreams -> Nat] BY DEF Init
  <2>6. /\ downstreams = {} /\ senders = {} /\ vardiff = {} /\ payouts = {}
        /\ standard = {} /\ extended = {} /\ custom = {} /\ stdjobs = {} /\ shutdown = FALSE
    BY DEF Init
  <2> QED BY <2>1, <2>2, <2>3, <2>4, <2>5, <2>6 DEF TypeOK
<1>2. LifecycleInv
  <2>1. DOMAIN queue = {} BY DEF Init
  <2>2. \A d \in Downstreams : stage[d] = "absent" /\ step[d] = 1 BY DEF Init
  <2>3. downstreams = {} /\ senders = {} /\ vardiff = {} /\ payouts = {} /\ Channels = {} /\ cm.at = "loop" /\ cm.target = {}
    BY DEF Init, Channels
  <2> QED BY <2>1, <2>2, <2>3 DEF LifecycleInv
<1>3. ChannelsAreIndexed /\ RegisteredIsRoutable
  BY DEF Init, ChannelsAreIndexed, RegisteredIsRoutable, Channels
<1> QED BY <1>1, <1>2, <1>3 DEF RegistryInv

\* Actions that leave the four maps and the channels alone.
LEMMA QuietStep ==
    ASSUME RegistryInv, UNCHANGED <<maps, standard, extended, cm>>,
           stage' \in [Downstreams -> Stages], step' = step,
           \A d \in Downstreams :
               stage'[d] # stage[d] =>
                 \/ stage[d] = "absent" /\ stage'[d] = "accepted"
                 \/ stage[d] = "accepted" /\ stage'[d] \in {"bootstrapped", "gone"}
                 \/ stage[d] = "setup" /\ stage'[d] \in {"running", "leaving"}
                 \/ stage[d] = "running" /\ stage'[d] = "leaving",
           queue' \in Seq(Messages),
           \A i \in DOMAIN queue' : stage[queue'[i].from] \in {"running", "leaving", "gone"},
           custom' \subseteq Downstreams, stdjobs' \subseteq Downstreams,
           negotiated' \in [Downstreams -> SUBSET SupportedExt],
           nextId' \in [Downstreams -> Nat], shutdown' \in BOOLEAN
    PROVE  RegistryInv'
<1> USE DEF RegistryInv, maps
<1>1. TypeOK' BY DEF TypeOK
<1>2. ChannelsAreIndexed' BY DEF ChannelsAreIndexed, Channels
<1>3. RegisteredIsRoutable' BY DEF RegisteredIsRoutable
<1>4. LifecycleInv'
  <2>1. \A d \in Downstreams : stage'[d] # stage[d] =>
           stage[d] \notin {"routed", "leaving", "gone"} /\ stage'[d] # "routed"
           /\ (stage[d] = "running" => stage'[d] = "leaving")
    OBVIOUS
  <2>2. \A k \in Keys : k[1] \in Downstreams BY KeyFacts
  <2>3. \A i \in DOMAIN queue' : queue'[i].from \in Downstreams
    BY DEF Messages
  <2>0. \A d \in Downstreams : stage'[d] \notin {"leaving", "gone"} => step'[d] = 1
    BY DEF LifecycleInv, TypeOK
  <2>4. Channels' = Channels /\ Channels \subseteq Keys BY DEF Channels, TypeOK
  <2>5. \A d \in downstreams : stage'[d] \in Joined /\ (stage'[d] = "leaving" => step[d] = 1)
    BY DEF LifecycleInv, TypeOK, Joined
  <2>6. \A d \in senders : stage'[d] \notin {"absent", "accepted", "bootstrapped", "gone"}
    BY DEF LifecycleInv, TypeOK
  <2>m. ASSUME NEW d \in Downstreams, NEW n \in {2, 3},
               stage[d] \in Joined, stage[d] = "leaving" => step[d] <= n
        PROVE  stage'[d] \in Joined /\ (stage'[d] = "leaving" => step[d] <= n)
    <3>1. stage'[d] \in Joined BY <2>m DEF Joined
    <3>2. stage[d] # "leaving" => step[d] = 1 BY <2>m DEF LifecycleInv, Joined
    <3>3. step[d] = 1 => step[d] <= n OBVIOUS
    <3> QED BY <3>1, <3>2, <3>3, <2>m
  <2>v. \A k \in vardiff \cup payouts : k[1] \in Downstreams
    BY <2>2 DEF TypeOK
  <2>7. \A k \in vardiff : stage'[k[1]] \in Joined /\ (stage'[k[1]] = "leaving" => step[k[1]] <= 2)
    BY <2>m, <2>v DEF LifecycleInv
  <2>8. \A k \in payouts : stage'[k[1]] \in Joined /\ (stage'[k[1]] = "leaving" => step[k[1]] <= 3)
    BY <2>m, <2>v DEF LifecycleInv
  <2>9. \A k \in Channels : stage'[k[1]] \in Joined
    BY <2>2, <2>4 DEF LifecycleInv, TypeOK, Joined
  <2>10. \A i \in DOMAIN queue' : stage'[queue'[i].from] \in {"running", "leaving", "gone"}
    BY <2>1, <2>3
  <2>11. cm.at = "removing" => \A d \in cm.target : stage'[d] \in {"running", "leaving", "gone"}
    BY <2>1 DEF LifecycleInv, TypeOK, CmStates
  <2>12. \A d \in Downstreams : (stage'[d] = "routed" /\ cm.at # "stopped") => d \in senders
    BY <2>1 DEF LifecycleInv
  <2> QED
    BY <2>0, <2>4, <2>5, <2>6, <2>7, <2>8, <2>9, <2>10, <2>11, <2>12 DEF LifecycleInv
<1> QED BY <1>1, <1>2, <1>3, <1>4

\* Steps of the channel manager that keep the registrations: they may only add
\* entries of connections that are registered.
LEMMA HandlerStep ==
    ASSUME RegistryInv, TypeOK', ChannelsAreIndexed',
           UNCHANGED <<stage, step, downstreams, senders>>,
           \A k \in vardiff' : k \in vardiff \/ k[1] \in downstreams,
           \A k \in payouts' : k \in payouts \/ k[1] \in downstreams,
           \A k \in Channels' : k \in Channels \/ k[1] \in downstreams,
           \A i \in DOMAIN queue' : stage[queue'[i].from] \in {"running", "leaving", "gone"},
           cm'.at = "stopped" <=> cm.at = "stopped",
           \A d, e \in cm'.target : d = e,
           cm'.at = "removing" => /\ \A d \in cm'.target : stage[d] \in {"running", "leaving", "gone"}
                                  /\ cm'.step > 1 => cm'.target \cap downstreams = {}
    PROVE  RegistryInv'
<1>1. RegisteredIsRoutable' BY DEF RegistryInv, RegisteredIsRoutable
<1>2. \A d \in downstreams :
         stage[d] \in Joined /\ (stage[d] = "leaving" => step[d] <= 2) /\ (stage[d] = "leaving" => step[d] <= 3)
  BY DEF RegistryInv, LifecycleInv
<1>3. \A k \in vardiff' : stage[k[1]] \in Joined /\ (stage[k[1]] = "leaving" => step[k[1]] <= 2)
  BY <1>2 DEF RegistryInv, LifecycleInv
<1>4. \A k \in payouts' : stage[k[1]] \in Joined /\ (stage[k[1]] = "leaving" => step[k[1]] <= 3)
  BY <1>2 DEF RegistryInv, LifecycleInv
<1>5. \A k \in Channels' : stage[k[1]] \in Joined
  BY <1>2 DEF RegistryInv, LifecycleInv
<1>6. LifecycleInv'
  BY <1>3, <1>4, <1>5 DEF RegistryInv, LifecycleInv
<1> QED BY <1>1, <1>6 DEF RegistryInv

\* Disconnect starts remove_downstream at its first step.
LEMMA DisconnectFacts ==
    ASSUME RegistryInv, NEW d \in Downstreams, cm.at = "loop", Disconnect(d)
    PROVE  cm' \in CmStates /\ cm'.at = "removing" /\ cm'.target = {d} /\ cm'.step = 1
BY DEF RegistryInv, TypeOK, CmStates, Disconnect

\* The connection's task runs a step of remove_downstream.
LEMMA LeaveStep == ASSUME RegistryInv, NEW d \in Downstreams, Leave(d) PROVE RegistryInv'
<1>0. step[d] \in 1..4 /\ stage[d] = "leaving" BY DEF Leave, RegistryInv, TypeOK
<1>r. /\ downstreams' \subseteq downstreams /\ senders' \subseteq senders
      /\ vardiff' \subseteq vardiff /\ payouts' \subseteq payouts
      /\ step[d] = 1 => d \notin downstreams'
      /\ step[d] # 1 => downstreams' = downstreams
      /\ step[d] = 2 => \A k \in vardiff' : k[1] # d
      /\ step[d] = 3 => \A k \in payouts' : k[1] # d
      /\ step[d] = 4 => d \notin senders'
      /\ \A e \in senders : e # d => e \in senders'
      /\ step[d] # 4 => senders' = senders
      /\ \A k \in vardiff : k[1] # d => k \in vardiff'
      /\ \A k \in payouts : k[1] # d => k \in payouts'
  BY <1>0, RemoveStepFacts DEF Leave
<1>1. TypeOK'
  <2>1. step' \in [Downstreams -> 1..4]
    <3>1. CASE step[d] < 4
      <4>1. step[d] + 1 \in 1..4 BY <1>0, <3>1
      <4> QED BY <3>1, <4>1 DEF Leave, RegistryInv, TypeOK
    <3>2. CASE ~(step[d] < 4) BY <3>2 DEF Leave, RegistryInv, TypeOK
    <3> QED BY <3>1, <3>2
  <2>2. stage' \in [Downstreams -> Stages] BY DEF Leave, RegistryInv, TypeOK, Stages
  <2>3. standard' \subseteq standard /\ extended' \subseteq extended BY DEF Leave
  <2>4. UNCHANGED <<nextId, custom, stdjobs, negotiated, queue, cm, shutdown>> BY DEF Leave, flags
  <2> QED BY <1>r, <2>1, <2>2, <2>3, <2>4 DEF RegistryInv, TypeOK
<1>c. Channels' \subseteq Channels BY DEF Leave, Channels
<1>d. d \notin downstreams'
  BY <1>0, <1>r DEF RegistryInv, LifecycleInv
<1>2. ChannelsAreIndexed'
  <2>1. SUFFICES ASSUME NEW k \in Channels', k[1] \in downstreams'
                 PROVE k \in vardiff' /\ (GridPool => k \in payouts')
    BY DEF ChannelsAreIndexed
  <2>2. k[1] # d /\ k \in Channels /\ k[1] \in downstreams BY <1>c, <1>d, <1>r, <2>1
  <2> QED BY <1>r, <2>2 DEF RegistryInv, ChannelsAreIndexed
<1>3. RegisteredIsRoutable'
  BY <1>r, <1>d DEF RegistryInv, RegisteredIsRoutable, Leave
<1>4. LifecycleInv'
  <2>1. CASE step[d] < 4
    <3>1. stage' = stage /\ step' = [step EXCEPT ![d] = step[d] + 1] /\ UNCHANGED <<queue, cm>>
      BY <2>1 DEF Leave
    <3>2. \A k \in vardiff' : stage[k[1]] = "leaving" => step'[k[1]] <= 2
      <4> SUFFICES ASSUME NEW k \in vardiff', stage[k[1]] = "leaving" PROVE step'[k[1]] <= 2 OBVIOUS
      <4>1. step[k[1]] <= 2 /\ k[1] \in Downstreams
        BY <1>r, KeyFacts DEF RegistryInv, LifecycleInv, TypeOK
      <4>2. CASE k[1] = d BY <4>1, <4>2, <1>0, <1>r, <3>1 DEF RegistryInv, TypeOK
      <4>3. CASE k[1] # d BY <4>1, <4>3, <3>1 DEF RegistryInv, TypeOK
      <4> QED BY <4>2, <4>3
    <3>3. \A k \in payouts' : stage[k[1]] = "leaving" => step'[k[1]] <= 3
      <4> SUFFICES ASSUME NEW k \in payouts', stage[k[1]] = "leaving" PROVE step'[k[1]] <= 3 OBVIOUS
      <4>1. step[k[1]] <= 3 /\ k[1] \in Downstreams
        BY <1>r, KeyFacts DEF RegistryInv, LifecycleInv, TypeOK
      <4>2. CASE k[1] = d BY <4>1, <4>2, <1>0, <1>r, <3>1 DEF RegistryInv, TypeOK
      <4>3. CASE k[1] # d BY <4>1, <4>3, <3>1 DEF RegistryInv, TypeOK
      <4> QED BY <4>2, <4>3
    <3>4. \A e \in downstreams' : stage[e] = "leaving" => step'[e] = 1
      BY <1>d, <1>r, <3>1 DEF RegistryInv, LifecycleInv, TypeOK
    <3>5. \A e \in Downstreams : (stage[e] = "routed" /\ cm.at # "stopped") => e \in senders'
      BY <1>0, <1>r DEF RegistryInv, LifecycleInv
    <3>6. \A e \in Downstreams : stage[e] \notin {"leaving", "gone"} => step'[e] = 1
      BY <1>0, <3>1 DEF RegistryInv, LifecycleInv, TypeOK
    <3> QED BY <1>c, <1>r, <3>1, <3>2, <3>3, <3>4, <3>5, <3>6 DEF RegistryInv, LifecycleInv
  <2>2. CASE step[d] = 4
    <3>1. /\ stage' = [stage EXCEPT ![d] = "gone"] /\ step' = step /\ UNCHANGED <<queue, cm>>
          /\ Channels' = Channels \ Of(d)
      BY <2>2 DEF Leave, Channels
    <3>2. \A k \in vardiff \cup payouts \cup Channels' : k[1] \in Downstreams /\ k[1] # d
      <4>1. \A k \in vardiff \cup payouts : k[1] \in Downstreams /\ k[1] # d
        BY <1>0, <2>2, KeyFacts DEF RegistryInv, LifecycleInv, TypeOK
      <4>2. \A k \in Channels' : k[1] \in Downstreams /\ k[1] # d
        BY <3>1, KeyFacts DEF RegistryInv, TypeOK, Channels
      <4> QED BY <4>1, <4>2
    <3>3. \A e \in Downstreams : e # d => stage'[e] = stage[e]
      BY <3>1 DEF RegistryInv, TypeOK
    <3>4. stage'[d] = "gone" BY <3>1 DEF RegistryInv, TypeOK
    <3>5. \A e \in downstreams' : stage'[e] \in Joined /\ (stage'[e] = "leaving" => step'[e] = 1)
      BY <1>d, <1>r, <3>1, <3>3 DEF RegistryInv, LifecycleInv, TypeOK
    <3>6. \A e \in senders' : stage'[e] \notin {"absent", "accepted", "bootstrapped", "gone"}
      BY <2>2, <1>r, <3>3 DEF RegistryInv, LifecycleInv, TypeOK
    <3>7. \A k \in vardiff' : stage'[k[1]] \in Joined /\ (stage'[k[1]] = "leaving" => step'[k[1]] <= 2)
      BY <1>r, <3>1, <3>2, <3>3 DEF RegistryInv, LifecycleInv
    <3>8. \A k \in payouts' : stage'[k[1]] \in Joined /\ (stage'[k[1]] = "leaving" => step'[k[1]] <= 3)
      BY <1>r, <3>1, <3>2, <3>3 DEF RegistryInv, LifecycleInv
    <3>9. \A k \in Channels' : stage'[k[1]] \in Joined
      BY <1>c, <3>2, <3>3 DEF RegistryInv, LifecycleInv
    <3>10. \A e \in Downstreams : (stage'[e] = "routed" /\ cm'.at # "stopped") => e \in senders'
      BY <1>r, <3>1, <3>3, <3>4 DEF RegistryInv, LifecycleInv
    <3>11. \A i \in DOMAIN queue' : stage'[queue'[i].from] \in {"running", "leaving", "gone"}
      <4>1. \A i \in DOMAIN queue : queue[i].from \in Downstreams
        BY DEF RegistryInv, TypeOK, Messages
      <4> QED BY <4>1, <3>1, <3>3, <3>4 DEF RegistryInv, LifecycleInv
    <3>12. cm'.at = "removing" => /\ \A e \in cm'.target : stage'[e] \in {"running", "leaving", "gone"}
                                  /\ cm'.step > 1 => cm'.target \cap downstreams' = {}
      BY <1>r, <3>1, <3>3, <3>4 DEF RegistryInv, LifecycleInv, TypeOK, CmStates
    <3>14. \A e, f \in cm'.target : e = f BY <3>1 DEF RegistryInv, LifecycleInv
    <3>13. \A e \in Downstreams : stage'[e] \notin {"leaving", "gone"} => step'[e] = 1
      BY <3>1, <3>3, <3>4 DEF RegistryInv, LifecycleInv
    <3> QED BY <3>5, <3>6, <3>7, <3>8, <3>9, <3>10, <3>11, <3>12, <3>13, <3>14 DEF LifecycleInv
  <2> QED BY <1>0, <2>1, <2>2
<1> QED BY <1>1, <1>2, <1>3, <1>4 DEF RegistryInv

\* The channel manager runs a step of remove_downstream.
LEMMA CmRemoveStep == ASSUME RegistryInv, CmRemove PROVE RegistryInv'
<1>0. cm \in CmStates /\ cm.at = "removing" /\ cm.step \in 1..4
  BY DEF CmRemove, RegistryInv, TypeOK, CmStates
<1>d. PICK d \in cm.target : RemoveStep(d, cm.step)
  BY DEF CmRemove
<1>e. d \in Downstreams /\ stage[d] \in {"running", "leaving", "gone"}
  BY <1>0, <1>d DEF RegistryInv, LifecycleInv, CmStates
<1>r. /\ downstreams' \subseteq downstreams /\ senders' \subseteq senders
      /\ vardiff' \subseteq vardiff /\ payouts' \subseteq payouts
      /\ cm.step = 1 => d \notin downstreams'
      /\ cm.step # 1 => downstreams' = downstreams
      /\ \A e \in senders : e # d => e \in senders'
      /\ cm.step # 4 => senders' = senders
      /\ \A k \in vardiff : k[1] # d => k \in vardiff'
      /\ \A k \in payouts : k[1] # d => k \in payouts'
      /\ cm.step = 1 => vardiff' = vardiff /\ payouts' = payouts
  BY <1>0, <1>d, <1>e, RemoveStepFacts
<1>u. UNCHANGED <<stage, step, standard, extended, nextId, custom, stdjobs, negotiated, queue, shutdown>>
  BY DEF CmRemove, chans, flags
<1>c. cm' \in CmStates /\ cm'.at \in {"loop", "removing"} /\ (cm'.at = "removing" => cm'.target = cm.target)
  <2>1. CASE cm.step < 4
    <3>1. cm.step + 1 \in 1..4 BY <1>0, <2>1
    <3> QED BY <1>0, <2>1, <3>1 DEF CmRemove, CmStates
  <2>2. CASE ~(cm.step < 4)
    <3>1. cm' = [at |-> "loop", target |-> {}, step |-> 1] BY <2>2 DEF CmRemove
    <3> QED BY <3>1 DEF CmStates
  <2> QED BY <2>1, <2>2
<1>n. d \notin downstreams'
  <2>1. CASE cm.step = 1 BY <2>1, <1>r
  <2>2. CASE cm.step # 1
    <3>1. cm.step > 1 BY <1>0, <2>2
    <3> QED BY <1>0, <1>d, <1>r, <2>2, <3>1 DEF RegistryInv, LifecycleInv
  <2> QED BY <2>1, <2>2
<1>t. cm.target \cap downstreams' = {}
  <2>1. CASE cm.step # 1
    <3>1. cm.step > 1 BY <1>0, <2>1
    <3> QED BY <1>0, <1>r, <2>1, <3>1 DEF RegistryInv, LifecycleInv
  <2>2. CASE cm.step = 1
    BY <1>n, <1>d DEF RegistryInv, LifecycleInv
  <2> QED BY <2>1, <2>2
<1>1. TypeOK'
  BY <1>c, <1>r, <1>u DEF RegistryInv, TypeOK
<1>2. ChannelsAreIndexed'
  <2>1. SUFFICES ASSUME NEW k \in Channels', k[1] \in downstreams'
                 PROVE k \in vardiff' /\ (GridPool => k \in payouts')
    BY DEF ChannelsAreIndexed
  <2>2. k[1] # d /\ k \in Channels /\ k[1] \in downstreams BY <1>u, <1>n, <1>r, <2>1 DEF Channels
  <2> QED BY <1>r, <2>2 DEF RegistryInv, ChannelsAreIndexed
<1>3. RegisteredIsRoutable'
  BY <1>0, <1>r, <1>n DEF RegistryInv, RegisteredIsRoutable
<1>4. LifecycleInv'
  <2>1. Channels' = Channels BY <1>u DEF Channels
  <2>2. \A e \in Downstreams : (stage[e] = "routed" /\ cm'.at # "stopped") => e \in senders'
    BY <1>0, <1>e, <1>r DEF RegistryInv, LifecycleInv
  <2>3. cm'.at = "removing" => /\ \A e \in cm'.target : stage[e] \in {"running", "leaving", "gone"}
                               /\ cm'.step > 1 => cm'.target \cap downstreams' = {}
    BY <1>0, <1>c, <1>t DEF RegistryInv, LifecycleInv
  <2>4. \A e, f \in cm'.target : e = f
    BY <1>0 DEF CmRemove, RegistryInv, LifecycleInv, CmStates
  <2> QED BY <1>r, <1>u, <2>1, <2>2, <2>3, <2>4 DEF RegistryInv, LifecycleInv
<1> QED BY <1>1, <1>2, <1>3, <1>4 DEF RegistryInv

\* downstream_sender.insert precedes the registration.
LEMMA RouteStep == ASSUME RegistryInv, NEW d \in Downstreams, Route(d) PROVE RegistryInv'
<1>0. /\ stage[d] = "bootstrapped" /\ stage' = [stage EXCEPT ![d] = "routed"]
      /\ senders' = senders \cup {d}
      /\ UNCHANGED <<step, downstreams, vardiff, payouts, standard, extended, nextId,
                     custom, stdjobs, negotiated, queue, cm, shutdown>>
  BY DEF Route, chans, flags
<1>s. stage'[d] = "routed" /\ \A e \in Downstreams : e # d => stage'[e] = stage[e]
  BY <1>0 DEF RegistryInv, TypeOK
<1>1. TypeOK' BY <1>0 DEF RegistryInv, TypeOK, Stages
<1>2. ChannelsAreIndexed' BY <1>0 DEF RegistryInv, ChannelsAreIndexed, Channels
<1>3. RegisteredIsRoutable' BY <1>0 DEF RegistryInv, RegisteredIsRoutable
<1>k. \A k \in vardiff \cup payouts \cup Channels : k[1] \in Downstreams
  BY KeyFacts DEF RegistryInv, TypeOK, Channels
<1>4. LifecycleInv'
  <2>1. \A e \in downstreams : stage'[e] \in Joined /\ (stage'[e] = "leaving" => step[e] = 1)
    BY <1>0, <1>s DEF RegistryInv, LifecycleInv, TypeOK, Joined
  <2>2. \A k \in vardiff : stage'[k[1]] \in Joined /\ (stage'[k[1]] = "leaving" => step[k[1]] <= 2)
    BY <1>0, <1>s, <1>k DEF RegistryInv, LifecycleInv, Joined
  <2>3. \A k \in payouts : stage'[k[1]] \in Joined /\ (stage'[k[1]] = "leaving" => step[k[1]] <= 3)
    BY <1>0, <1>s, <1>k DEF RegistryInv, LifecycleInv, Joined
  <2>4. \A k \in Channels' : stage'[k[1]] \in Joined
    BY <1>0, <1>s, <1>k DEF RegistryInv, LifecycleInv, Joined, Channels
  <2>5. \A i \in DOMAIN queue : stage'[queue[i].from] \in {"running", "leaving", "gone"}
    <3>1. \A i \in DOMAIN queue : queue[i].from \in Downstreams
      BY DEF RegistryInv, TypeOK, Messages
    <3> QED BY <3>1, <1>0, <1>s DEF RegistryInv, LifecycleInv
  <2>6. cm.at = "removing" => \A e \in cm.target : stage'[e] \in {"running", "leaving", "gone"}
    BY <1>0, <1>s DEF RegistryInv, LifecycleInv, TypeOK, CmStates
  <2>7. \A e \in senders' : stage'[e] \notin {"absent", "accepted", "bootstrapped", "gone"}
    BY <1>0, <1>s DEF RegistryInv, LifecycleInv, TypeOK
  <2>8. \A e \in Downstreams : stage'[e] \notin {"leaving", "gone"} => step[e] = 1
    BY <1>0, <1>s DEF RegistryInv, LifecycleInv
  <2>9. \A e \in Downstreams : (stage'[e] = "routed" /\ cm.at # "stopped") => e \in senders'
    BY <1>0, <1>s DEF RegistryInv, LifecycleInv
  <2> QED BY <1>0, <2>1, <2>2, <2>3, <2>4, <2>5, <2>6, <2>7, <2>8, <2>9 DEF RegistryInv, LifecycleInv
<1> QED BY <1>1, <1>2, <1>3, <1>4 DEF RegistryInv

\* downstreams.insert: the connection has a sender and no channel yet.
LEMMA RegisterStep == ASSUME RegistryInv, NEW d \in Downstreams, Register(d) PROVE RegistryInv'
<1>0. /\ stage[d] = "routed" /\ stage' = [stage EXCEPT ![d] = "setup"]
      /\ downstreams' = downstreams \cup {d}
      /\ UNCHANGED <<step, senders, vardiff, payouts, standard, extended, nextId,
                     custom, stdjobs, negotiated, queue, cm, shutdown>>
  BY DEF Register, chans, flags
<1>s. stage'[d] = "setup" /\ \A e \in Downstreams : e # d => stage'[e] = stage[e]
  BY <1>0 DEF RegistryInv, TypeOK
<1>k. \A k \in vardiff \cup payouts \cup Channels : k[1] \in Downstreams /\ k[1] # d
  BY <1>0, KeyFacts DEF RegistryInv, TypeOK, Channels, LifecycleInv, Joined
<1>1. TypeOK' BY <1>0 DEF RegistryInv, TypeOK, Stages
<1>2. ChannelsAreIndexed'
  BY <1>0, <1>k DEF RegistryInv, ChannelsAreIndexed, Channels
<1>3. RegisteredIsRoutable' BY <1>0 DEF RegistryInv, RegisteredIsRoutable, LifecycleInv
<1>4. LifecycleInv'
  <2>1. \A e \in downstreams' : stage'[e] \in Joined /\ (stage'[e] = "leaving" => step[e] = 1)
    BY <1>0, <1>s DEF RegistryInv, LifecycleInv, TypeOK, Joined
  <2>2. \A k \in vardiff : stage'[k[1]] \in Joined /\ (stage'[k[1]] = "leaving" => step[k[1]] <= 2)
    BY <1>0, <1>s, <1>k DEF RegistryInv, LifecycleInv, Joined
  <2>3. \A k \in payouts : stage'[k[1]] \in Joined /\ (stage'[k[1]] = "leaving" => step[k[1]] <= 3)
    BY <1>0, <1>s, <1>k DEF RegistryInv, LifecycleInv, Joined
  <2>4. \A k \in Channels' : stage'[k[1]] \in Joined
    BY <1>0, <1>s, <1>k DEF RegistryInv, LifecycleInv, Joined, Channels
  <2>5. \A i \in DOMAIN queue : stage'[queue[i].from] \in {"running", "leaving", "gone"}
    <3>1. \A i \in DOMAIN queue : queue[i].from \in Downstreams
      BY DEF RegistryInv, TypeOK, Messages
    <3> QED BY <3>1, <1>0, <1>s DEF RegistryInv, LifecycleInv
  <2>6. cm.at = "removing" => \A e \in cm.target : e # d /\ stage'[e] \in {"running", "leaving", "gone"}
    BY <1>0, <1>s DEF RegistryInv, LifecycleInv, TypeOK, CmStates
  <2>7. \A e \in senders' : stage'[e] \notin {"absent", "accepted", "bootstrapped", "gone"}
    BY <1>0, <1>s DEF RegistryInv, LifecycleInv, TypeOK
  <2>8. \A e \in Downstreams : stage'[e] \notin {"leaving", "gone"} => step[e] = 1
    BY <1>0, <1>s DEF RegistryInv, LifecycleInv
  <2>9. \A e \in Downstreams : (stage'[e] = "routed" /\ cm.at # "stopped") => e \in senders'
    BY <1>0, <1>s DEF RegistryInv, LifecycleInv
  <2>10. cm.at = "removing" => (cm.step > 1 => cm.target \cap downstreams' = {})
    BY <1>0, <2>6 DEF RegistryInv, LifecycleInv
  <2> QED BY <1>0, <2>1, <2>2, <2>3, <2>4, <2>5, <2>6, <2>7, <2>8, <2>9, <2>10 DEF RegistryInv, LifecycleInv
<1> QED BY <1>1, <1>2, <1>3, <1>4 DEF RegistryInv

\* The channel manager leaves its loop.
LEMMA CmStopStep == ASSUME RegistryInv, CmStop PROVE RegistryInv'
<1>0. /\ cm' = [at |-> "stopped", target |-> {}, step |-> 1] /\ senders' = {} /\ queue' = <<>>
      /\ UNCHANGED <<stage, step, downstreams, vardiff, payouts, standard, extended, nextId,
                     custom, stdjobs, negotiated, shutdown>>
  BY DEF CmStop, chans, flags
<1>c. cm' \in CmStates /\ cm'.at = "stopped" /\ cm'.target = {} BY <1>0 DEF CmStates
<1>q. queue' \in Seq(Messages) /\ DOMAIN queue' = {} BY <1>0
<1>1. TypeOK' BY <1>0, <1>c, <1>q DEF RegistryInv, TypeOK
<1>2. ChannelsAreIndexed' BY <1>0 DEF RegistryInv, ChannelsAreIndexed, Channels
<1>3. RegisteredIsRoutable' BY <1>c DEF RegisteredIsRoutable
<1>4. LifecycleInv' BY <1>0, <1>c, <1>q DEF RegistryInv, LifecycleInv, Channels
<1> QED BY <1>1, <1>2, <1>3, <1>4 DEF RegistryInv

\* run_vardiff only drops controllers of connections that are not registered.
LEMMA RunVardiffStep == ASSUME RegistryInv, RunVardiff PROVE RegistryInv'
<1>0. /\ vardiff' = {k \in vardiff : k[1] \in downstreams}
      /\ UNCHANGED <<stage, step, downstreams, senders, payouts, standard, extended, nextId,
                     custom, stdjobs, negotiated, queue, cm, shutdown>>
  BY DEF RunVardiff, chans, flags
<1>1. TypeOK' BY <1>0 DEF RegistryInv, TypeOK
<1>2. Channels' = Channels BY <1>0 DEF Channels
<1>3. ChannelsAreIndexed' BY <1>0, <1>2 DEF RegistryInv, ChannelsAreIndexed
<1>4. RegisteredIsRoutable' BY <1>0 DEF RegistryInv, RegisteredIsRoutable
<1>5. LifecycleInv' BY <1>0, <1>2 DEF RegistryInv, LifecycleInv
<1> QED BY <1>1, <1>3, <1>4, <1>5 DEF RegistryInv

\* A handler that opens a channel, or fails after it recorded the payout, adds
\* entries for one fresh key of a registered connection.
LEMMA OpenStep ==
    ASSUME RegistryInv, NEW m, Received(m, m.kind), m.from \in downstreams,
           nextId[m.from] \in ChannelIds,
           nextId' = [nextId EXCEPT ![m.from] = nextId[m.from] + 1],
           UNCHANGED <<stage, step, downstreams, senders, flags>>, shutdown' \in BOOLEAN,
           cm' = cm \/ Disconnect(m.from),
           payouts' = payouts \/ payouts' = payouts \cup {Fresh(m.from)},
           GridPool => payouts' = payouts \cup {Fresh(m.from)},
           \/ UNCHANGED <<standard, extended, vardiff>>
           \/ /\ vardiff' = vardiff \cup {Fresh(m.from)}
              /\ \/ standard' = standard \cup {Fresh(m.from)} /\ UNCHANGED extended
                 \/ extended' = extended \cup {Fresh(m.from)} /\ UNCHANGED standard
    PROVE  RegistryInv'
<1>r. /\ m \in Messages /\ m.from \in Downstreams
      /\ stage[m.from] \in {"running", "leaving", "gone"}
      /\ queue' \in Seq(Messages)
      /\ \A i \in DOMAIN queue' : stage[queue'[i].from] \in {"running", "leaving", "gone"}
      /\ cm.at = "loop"
  BY ReceivedFacts
<1>k. Fresh(m.from) \in Keys /\ Fresh(m.from)[1] = m.from
  BY <1>r, KeyFacts DEF Fresh
<1>c. /\ cm' \in CmStates /\ cm'.at # "stopped"
      /\ cm'.at = "removing" => cm'.target = {m.from} /\ cm'.step = 1
      /\ \A d, e \in cm'.target : d = e
  BY <1>r, DisconnectFacts DEF RegistryInv, TypeOK, LifecycleInv
<1>1. TypeOK'
  <2>1. nextId' \in [Downstreams -> Nat]
    BY <1>r, ChannelIdsAssumption DEF RegistryInv, TypeOK
  <2> QED BY <1>r, <1>k, <1>c, <2>1 DEF RegistryInv, TypeOK, flags
<1>2. ChannelsAreIndexed'
  BY <1>k DEF RegistryInv, ChannelsAreIndexed, Channels
<1>3. \A k \in Channels' : k \in Channels \/ k[1] \in downstreams
  BY <1>k DEF Channels
<1>4. \A k \in vardiff' : k \in vardiff \/ k[1] \in downstreams BY <1>k
<1>5. \A k \in payouts' : k \in payouts \/ k[1] \in downstreams BY <1>k
<1>6. UNCHANGED <<stage, step, downstreams, senders>> OBVIOUS
<1>7. cm'.at = "removing" => /\ \A d \in cm'.target : stage[d] \in {"running", "leaving", "gone"}
                             /\ cm'.step > 1 => cm'.target \cap downstreams = {}
  BY <1>c, <1>r
<1>8. cm'.at = "stopped" <=> cm.at = "stopped" BY <1>c, <1>r
<1> QED BY <1>r, <1>c, <1>1, <1>2, <1>3, <1>4, <1>5, <1>6, <1>7, <1>8, HandlerStep

\* A handler that changes no map: it answers with an error, spends a channel
\* id, shuts the pool down or starts a disconnect.
LEMMA RefuseStep ==
    ASSUME RegistryInv, NEW m, Received(m, m.kind),
           UNCHANGED <<stage, step, maps, standard, extended, flags>>,
           nextId' = nextId \/ (/\ nextId[m.from] \in ChannelIds
                               /\ nextId' = [nextId EXCEPT ![m.from] = nextId[m.from] + 1]),
           shutdown' \in BOOLEAN,
           cm' = cm \/ Disconnect(m.from)
    PROVE  RegistryInv'
<1>r. /\ m \in Messages /\ m.from \in Downstreams
      /\ stage[m.from] \in {"running", "leaving", "gone"}
      /\ queue' \in Seq(Messages)
      /\ \A i \in DOMAIN queue' : stage[queue'[i].from] \in {"running", "leaving", "gone"}
      /\ cm.at = "loop"
  BY ReceivedFacts
<1>c. /\ cm' \in CmStates /\ cm'.at # "stopped"
      /\ cm'.at = "removing" => cm'.target = {m.from} /\ cm'.step = 1
      /\ \A d, e \in cm'.target : d = e
  BY <1>r, DisconnectFacts DEF RegistryInv, TypeOK, LifecycleInv
<1>u. UNCHANGED <<stage, step, downstreams, senders, vardiff, payouts, standard, extended,
                  custom, stdjobs, negotiated>>
  BY DEF maps, flags
<1>1. TypeOK'
  <2>1. nextId' \in [Downstreams -> Nat]
    <3>1. nextId \in [Downstreams -> Nat] BY DEF RegistryInv, TypeOK
    <3>2. nextId[m.from] + 1 \in Nat BY <1>r, <3>1
    <3> QED BY <3>1, <3>2
  <2> QED BY <1>r, <1>u, <1>c, <2>1 DEF RegistryInv, TypeOK
<1>2. Channels' = Channels BY <1>u DEF Channels
<1>3. ChannelsAreIndexed' BY <1>u, <1>2 DEF RegistryInv, ChannelsAreIndexed
<1>4. cm'.at = "removing" => /\ \A d \in cm'.target : stage[d] \in {"running", "leaving", "gone"}
                             /\ cm'.step > 1 => cm'.target \cap downstreams = {}
  BY <1>c, <1>r
<1>5. cm'.at = "stopped" <=> cm.at = "stopped" BY <1>c, <1>r
<1> QED BY <1>r, <1>c, <1>u, <1>1, <1>2, <1>3, <1>4, <1>5, HandlerStep

\* handle_close_channel drops the channel together with its entries.
LEMMA CloseStep == ASSUME RegistryInv, NEW m, CloseChannel(m) PROVE RegistryInv'
<1>r. /\ m \in Messages
      /\ queue' \in Seq(Messages)
      /\ \A i \in DOMAIN queue' : stage[queue'[i].from] \in {"running", "leaving", "gone"}
      /\ cm.at = "loop"
  BY ReceivedFacts DEF CloseChannel
<1>u. /\ UNCHANGED <<stage, step, downstreams, senders, nextId, custom, stdjobs, negotiated, cm, shutdown>>
      /\ standard' = standard \ {<<m.from, m.id>>} /\ extended' = extended \ {<<m.from, m.id>>}
      /\ vardiff' = vardiff \ {<<m.from, m.id>>} /\ payouts' = payouts \ {<<m.from, m.id>>}
  BY DEF CloseChannel, flags
<1>1. TypeOK' BY <1>r, <1>u DEF RegistryInv, TypeOK
<1>2. ChannelsAreIndexed' BY <1>u DEF RegistryInv, ChannelsAreIndexed, Channels
<1>3. Channels' \subseteq Channels BY <1>u DEF Channels
<1>4. \A d, e \in cm'.target : d = e BY <1>u DEF RegistryInv, LifecycleInv
<1> QED BY <1>r, <1>u, <1>1, <1>2, <1>3, <1>4, HandlerStep

\* Every handler of the channel manager preserves the invariant.
LEMMA HandleStep == ASSUME RegistryInv, NEW m, Handle(m) PROVE RegistryInv'
<1>b. shutdown \in BOOLEAN BY DEF RegistryInv, TypeOK
<1>1. CASE HandleUnregistered(m)
  BY <1>1, <1>b, RefuseStep DEF HandleUnregistered, chans
<1>2. CASE ShutdownInOpen(m)
  BY <1>2, OpenStep DEF ShutdownInOpen
<1>3. CASE CloseChannel(m)
  BY <1>3, CloseStep
<1>4. CASE RejectOpenStandard(m)
  BY <1>4, <1>b, RefuseStep DEF RejectOpenStandard, chans, Received
<1>5. CASE FailOpenStandard(m)
  BY <1>5, <1>b, RefuseStep DEF FailOpenStandard, chans, Received
<1>6. CASE ExhaustOpenStandard(m)
  BY <1>6, RefuseStep DEF ExhaustOpenStandard, chans, Received
<1>7. CASE BadHashrateOpenStandard(m)
  BY <1>7, <1>b, RefuseStep DEF BadHashrateOpenStandard, Received
<1>8. CASE OpenStandard(m)
  BY <1>8, <1>b, OpenStep DEF OpenStandard, Received
<1>9. CASE RejectOpenExtended(m)
  BY <1>9, <1>b, RefuseStep DEF RejectOpenExtended, chans, Received
<1>10. CASE BadParametersOpenExtended(m)
  BY <1>10, <1>b, RefuseStep DEF BadParametersOpenExtended, Received
<1>11. CASE FailOpenExtended(m)
  BY <1>11, <1>b, OpenStep DEF FailOpenExtended, Received
<1>12. CASE OpenExtended(m)
  BY <1>12, <1>b, OpenStep DEF OpenExtended, Received
<1> QED
  BY <1>1, <1>2, <1>3, <1>4, <1>5, <1>6, <1>7, <1>8, <1>9, <1>10, <1>11, <1>12 DEF Handle

\* Every step preserves the invariant.
LEMMA RegistryStep == ASSUME RegistryInv, [Next]_vars PROVE RegistryInv'
<1> USE DEF maps, chans, flags
<1>q. /\ queue \in Seq(Messages)
      /\ \A i \in DOMAIN queue : stage[queue[i].from] \in {"running", "leaving", "gone"}
      /\ custom \subseteq Downstreams /\ stdjobs \subseteq Downstreams
      /\ negotiated \in [Downstreams -> SUBSET SupportedExt]
      /\ nextId \in [Downstreams -> Nat] /\ shutdown \in BOOLEAN
      /\ stage \in [Downstreams -> Stages]
  BY DEF RegistryInv, TypeOK, LifecycleInv
<1>1. ASSUME NEW d \in Downstreams, Accept(d) PROVE RegistryInv'
  BY <1>1, <1>q, QuietStep DEF Accept, Stages
<1>2. ASSUME NEW d \in Downstreams, Bootstrap(d) PROVE RegistryInv'
  BY <1>2, <1>q, QuietStep DEF Bootstrap, Stages
<1>3. ASSUME NEW d \in Downstreams, PeerLost(d) PROVE RegistryInv'
  BY <1>3, <1>q, QuietStep DEF PeerLost, Stages
<1>4. ASSUME NEW d \in Downstreams, Evicted(d) PROVE RegistryInv'
  BY <1>4, <1>q, QuietStep DEF Evicted, Stages
<1>5. ASSUME NEW d \in Downstreams, NEW f \in ClientFlags, SetupConnection(d, f[1], f[2])
      PROVE RegistryInv'
  BY <1>5, <1>q, QuietStep DEF SetupConnection, Stages
<1>6. ASSUME NEW d \in Downstreams, NEW requested \in SUBSET ClientExt, RequestExtensions(d, requested)
      PROVE RegistryInv'
  BY <1>6, <1>q, QuietStep DEF RequestExtensions, Stages
<1>7. ASSUME NEW m \in Messages, Forward(m) PROVE RegistryInv'
  <2>1. queue' \in Seq(Messages) BY <1>7, <1>q DEF Forward
  <2>2. \A i \in DOMAIN queue' : stage[queue'[i].from] \in {"running", "leaving", "gone"}
    <3>1. DOMAIN queue' = 1..(Len(queue) + 1) /\ queue'[Len(queue) + 1] = m
      BY <1>7, <1>q DEF Forward
    <3>2. \A i \in 1..Len(queue) : queue'[i] = queue[i] /\ i \in DOMAIN queue
      BY <1>7, <1>q DEF Forward
    <3>3. stage[m.from] = "running" BY <1>7 DEF Forward
    <3>4. \A i \in DOMAIN queue' : i \in 1..Len(queue) \/ i = Len(queue) + 1
      BY <3>1, <1>q
    <3> QED BY <1>q, <3>1, <3>2, <3>3, <3>4
  <2> QED BY <1>7, <1>q, <2>1, <2>2, QuietStep DEF Forward
<1>8. CASE UNCHANGED vars
  BY <1>8, <1>q, QuietStep DEF vars
<1>9. CASE CmStep
  BY <1>9, CmRemoveStep, CmStopStep, HandleStep DEF CmStep
<1>10. ASSUME NEW d \in Downstreams, AcceptStep(d) \/ Leave(d) PROVE RegistryInv'
  BY <1>10, <1>2, RouteStep, RegisterStep, LeaveStep DEF AcceptStep
<1> QED
  BY <1>1, <1>3, <1>4, <1>5, <1>6, <1>7, <1>8, <1>9, <1>10, RunVardiffStep DEF Next

\* The registry stays consistent: types, life cycle, indexed channels and
\* routable registrations hold in every reachable state.
THEOREM RegistryInvariant == Spec => []RegistryInv
<1>1. Init => RegistryInv BY RegistryInit
<1>2. RegistryInv /\ [Next]_vars => RegistryInv' BY RegistryStep
<1> QED BY <1>1, <1>2, PTL DEF Spec

\* A registered connection's channels always have their vardiff controller and
\* their GridPool payout, so handle_new_template never fails for want of one.
THEOREM ChannelsAlwaysIndexed == Spec => []ChannelsAreIndexed
<1>1. RegistryInv => ChannelsAreIndexed BY DEF RegistryInv
<1> QED BY <1>1, RegistryInvariant, PTL

\* A connection that ended left no entry in any map of the channel manager and
\* gave its extranonce prefixes back.
THEOREM EndedConnectionsAreForgotten == Spec => []NoOrphans
<1>1. RegistryInv => NoOrphans
  <2>1. SUFFICES ASSUME RegistryInv, NEW d \in Downstreams, stage[d] = "gone"
                 PROVE  /\ d \notin downstreams \cup senders
                        /\ (vardiff \cup payouts \cup Channels) \cap Of(d) = {}
    BY DEF NoOrphans
  <2>2. d \notin downstreams \cup senders
    BY <2>1 DEF RegistryInv, LifecycleInv, Joined
  <2>3. \A k \in vardiff \cup payouts \cup Channels : k \in Keys /\ k[1] # d
    BY <2>1 DEF RegistryInv, LifecycleInv, Joined, TypeOK, Channels
  <2> QED BY <2>2, <2>3, KeyFacts
<1> QED BY <1>1, RegistryInvariant, PTL
===============================================================================
