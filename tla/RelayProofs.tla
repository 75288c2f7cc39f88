----------------------------- MODULE RelayProofs -----------------------------
(***************************************************************************)
(* Proofs about Relay for any sets of devices, agent connections and       *)
(* viewer connections and any channel capacities.                          *)
(***************************************************************************)
EXTENDS Relay, FiniteSetTheorems, SequenceTheorems, TLAPS

\* Handlers past their checks know their device or their agent; those that
\* have not started know none.
HandlersBound ==
    /\ \A a \in Agents : aPC[a] = "none" => aID[a] = None
    /\ \A a \in Agents : aPC[a] \notin {"none", "done"} => aID[a] \in Devices
    /\ \A v \in Viewers : vPC[v] = "none" => vAgent[v] = None
    /\ \A v \in Viewers : vPC[v] \notin {"none", "done"} => vAgent[v] \in Agents

\* The hub lists a connection under its own id, and only while it serves.
HubMatchesHandlers ==
    \A d \in Devices : agents[d] # None =>
        Serving(agents[d]) /\ aID[agents[d]] = d

\* The inductive invariant.  SignallingIsIsolated needs NoGhostViewers (a viewer
\* in the map is bound to that agent) and SilentUntilAnnounced (binding a viewer
\* cannot invalidate a message already queued); LiveAgentIsReachable and the
\* refinement need HubMatchesHandlers.
RelayInv ==
    /\ TypeOK
    /\ HandlersBound
    /\ HubMatchesHandlers
    /\ LiveAgentIsReachable
    /\ NoGhostViewers
    /\ SilentUntilAnnounced
    /\ SignallingIsIsolated

------------------------------------------------------------------------------
\* sendJSON keeps a channel well typed and within its capacity.
LEMMA OfferType ==
    ASSUME NEW S, NEW ch \in Seq(S), NEW cap \in Nat, NEW m \in S, Len(ch) <= cap
    PROVE  Offer(ch, cap, m) \in Seq(S) /\ Len(Offer(ch, cap, m)) <= cap
  BY DEF Offer

\* sendJSON adds at most the message, at the end.
LEMMA OfferElements ==
    ASSUME NEW S, NEW ch \in Seq(S), NEW cap \in Nat, NEW m \in S,
           NEW i \in DOMAIN Offer(ch, cap, m)
    PROVE  \/ Offer(ch, cap, m)[i] = m
           \/ i \in DOMAIN ch /\ Offer(ch, cap, m)[i] = ch[i]
  BY DEF Offer

\* Taking the head leaves only elements that were there.
LEMMA TailElements ==
    ASSUME NEW S, NEW ch \in Seq(S), ch # <<>>, NEW i \in DOMAIN Tail(ch)
    PROVE  i + 1 \in DOMAIN ch /\ Tail(ch)[i] = ch[i + 1]
  OBVIOUS

\* A message sent to an agent is the only new element of any agent channel.
LEMMA ToAgentEffect ==
    ASSUME TypeOK, NEW a, NEW m \in AgentMsg, ToAgent(a, m)
    PROVE  /\ aSend' \in [Agents -> Seq(AgentMsg)]
           /\ \A b \in Agents : Len(aSend'[b]) <= AgentCap
           /\ \A b \in Agents : \A i \in DOMAIN aSend'[b] :
                \/ b = a /\ aSend'[b][i] = m
                \/ i \in DOMAIN aSend[b] /\ aSend'[b][i] = aSend[b][i]
  <1>1. AgentCap \in Nat
    BY CapAssumption
  <1>2. ASSUME NEW b \in Agents
        PROVE  aSend'[b] = aSend[b] \/ (b = a /\ aSend'[b] = Offer(aSend[b], AgentCap, m))
    BY DEF ToAgent, TypeOK
  <1>3. DOMAIN aSend' = Agents /\ aSend' = [b \in Agents |-> aSend'[b]]
    BY DEF ToAgent, TypeOK
  <1>4. ASSUME NEW b \in Agents
        PROVE  aSend'[b] \in Seq(AgentMsg) /\ Len(aSend'[b]) <= AgentCap
    <2>1. aSend[b] \in Seq(AgentMsg) /\ Len(aSend[b]) <= AgentCap
      BY DEF TypeOK
    <2>2. /\ Offer(aSend[b], AgentCap, m) \in Seq(AgentMsg)
          /\ Len(Offer(aSend[b], AgentCap, m)) <= AgentCap
      BY <1>1, <2>1, OfferType
    <2>3. QED
      BY <1>2, <2>1, <2>2
  <1>5. ASSUME NEW b \in Agents, NEW i \in DOMAIN aSend'[b]
        PROVE  \/ b = a /\ aSend'[b][i] = m
               \/ i \in DOMAIN aSend[b] /\ aSend'[b][i] = aSend[b][i]
    BY <1>1, <1>2, OfferElements DEF TypeOK
  <1>6. QED
    BY <1>3, <1>4, <1>5

------------------------------------------------------------------------------
\* Nothing is registered, bound or queued at the start.
LEMMA InitInv == Init => RelayInv
  <1>1. Init => TypeOK
    <2>1. Registered \in AgentMsg /\ EventOf(Registered) \in AgentEvents \X (Viewers \cup {None})
      BY DEF Registered, EventOf, AgentMsg, AgentEvents
    <2>2. QED
      BY <2>1, CapAssumption DEF Init, TypeOK, APCs, VPCs, WriterStates
  <1>2. QED
    BY <1>1 DEF Init, RelayInv, HandlersBound, HubMatchesHandlers, LiveAgentIsReachable,
                Serving, NoGhostViewers, SilentUntilAnnounced, SignallingIsIsolated

\* Each action preserves the types.
LEMMA TypeStep == ASSUME TypeOK, HandlersBound, [Next]_vars PROVE TypeOK'
  <1> USE DEF TypeOK, countVars
  <1>1. ASSUME NEW a \in Agents, NEW d \in Devices, AgentAuth(a, d) PROVE TypeOK'
    BY <1>1 DEF AgentAuth, hubVars, viewerVars, APCs
  <1>2. ASSUME NEW a \in Agents, AgentAuthFails(a) PROVE TypeOK'
    BY <1>2 DEF AgentAuthFails, hubVars, viewerVars, APCs
  <1>3. ASSUME NEW a \in Agents, AgentPublish(a) PROVE TypeOK'
    BY <1>3 DEF AgentPublish, viewerVars, APCs
  <1>4. ASSUME NEW a \in Agents, AgentRegistered(a) PROVE TypeOK'
    <2>1. Registered \in AgentMsg
      BY DEF Registered, AgentMsg, AgentEvents
    <2>2. aSend' \in [Agents -> Seq(AgentMsg)] /\ \A b \in Agents : Len(aSend'[b]) <= AgentCap
      BY <1>4, <2>1, ToAgentEffect DEF AgentRegistered
    <2>3. QED
      BY <1>4, <2>2 DEF AgentRegistered, hubVars, viewerVars, APCs, WriterStates
  <1>5. ASSUME NEW a \in Agents, NEW v \in Viewers, NEW k \in AgentKinds, AgentSignal(a, v, k)
        PROVE  TypeOK'
    <2>1. ToViewer(k, a) \in ViewerMsg
      BY DEF ToViewer, ViewerMsg
    <2>2. ViewerCap \in Nat /\ vSend[v] \in Seq(ViewerMsg) /\ Len(vSend[v]) <= ViewerCap
      BY CapAssumption
    <2>3. /\ Offer(vSend[v], ViewerCap, ToViewer(k, a)) \in Seq(ViewerMsg)
          /\ Len(Offer(vSend[v], ViewerCap, ToViewer(k, a))) <= ViewerCap
      BY <2>1, <2>2, OfferType
    <2>4. QED
      BY <1>5, <2>3 DEF AgentSignal, hubVars, agentVars
  <1>6. ASSUME NEW a \in Agents, NEW v \in Viewers, AgentReject(a, v) PROVE TypeOK'
    <2>1. ToViewer("error", a) \in ViewerMsg
      BY DEF ToViewer, ViewerMsg
    <2>2. ViewerCap \in Nat /\ vSend[v] \in Seq(ViewerMsg) /\ Len(vSend[v]) <= ViewerCap
      BY CapAssumption
    <2>3. /\ Offer(vSend[v], ViewerCap, ToViewer("error", a)) \in Seq(ViewerMsg)
          /\ Len(Offer(vSend[v], ViewerCap, ToViewer("error", a))) <= ViewerCap
      BY <2>1, <2>2, OfferType
    <2>4. QED
      BY <1>6, <2>3 DEF AgentReject, hubVars, APCs
  <1>7. ASSUME NEW a \in Agents, AgentRejectClose(a) PROVE TypeOK'
    BY <1>7 DEF AgentRejectClose, hubVars, APCs
  <1>8. ASSUME NEW a \in Agents, AgentReadFails(a) PROVE TypeOK'
    BY <1>8 DEF AgentReadFails, hubVars, viewerVars, APCs
  <1>9. ASSUME NEW a \in Agents, AgentNotify(a) PROVE TypeOK'
    <2>1. ToViewer("agent_offline", a) \in ViewerMsg
      BY DEF ToViewer, ViewerMsg
    <2>2. ASSUME NEW v \in Viewers
          PROVE  /\ Offer(vSend[v], ViewerCap, ToViewer("agent_offline", a)) \in Seq(ViewerMsg)
                 /\ Len(Offer(vSend[v], ViewerCap, ToViewer("agent_offline", a))) <= ViewerCap
      BY <2>1, CapAssumption, OfferType
    <2>3. vSend' \in [Viewers -> Seq(ViewerMsg)] /\ \A v \in Viewers : Len(vSend'[v]) <= ViewerCap
      BY <1>9, <2>2 DEF AgentNotify
    <2>4. missed' \subseteq Viewers
      BY <1>9 DEF AgentNotify, Full
    <2>5. QED
      BY <1>9, <2>3, <2>4 DEF AgentNotify, hubVars, APCs
  <1>10. ASSUME NEW a \in Agents, AgentWithdraw(a) PROVE TypeOK'
    BY <1>10 DEF AgentWithdraw, viewerVars, APCs
  <1>11. ASSUME NEW a \in Agents, AgentClose(a) PROVE TypeOK'
    BY <1>11 DEF AgentClose, hubVars, viewerVars, APCs
  <1>12. ASSUME NEW a \in Agents, AgentDeliver(a) PROVE TypeOK'
    <2>1. Head(aSend[a]) \in AgentMsg /\ Tail(aSend[a]) \in Seq(AgentMsg)
          /\ Len(Tail(aSend[a])) <= AgentCap
      BY <1>12, CapAssumption DEF AgentDeliver
    <2>2. QED
      BY <1>12, <2>1 DEF AgentDeliver, hubVars, viewerVars
  <1>13. ASSUME NEW a \in Agents, AgentWriterStops(a) PROVE TypeOK'
    BY <1>13 DEF AgentWriterStops, hubVars, viewerVars, WriterStates
  <1>14. ASSUME NEW v \in Viewers, ViewerHandler(v) PROVE TypeOK'
    <2>1. CASE ViewerRefused(v)
      BY <2>1 DEF ViewerRefused, hubVars, agentVars, VPCs
    <2>2. ASSUME NEW d \in Devices, ViewerConnect(v, d) PROVE TypeOK'
      <3>1. agents[d] \in Agents
        BY <2>2 DEF ViewerConnect
      <3>2. ToViewer("connected", agents[d]) \in ViewerMsg
        BY <3>1 DEF ToViewer, ViewerMsg
      <3>3. <<>> \in Seq(ViewerMsg) /\ Len(<<>>) <= ViewerCap /\ ViewerCap \in Nat
        BY CapAssumption
      <3>4. /\ Offer(<<>>, ViewerCap, ToViewer("connected", agents[d])) \in Seq(ViewerMsg)
            /\ Len(Offer(<<>>, ViewerCap, ToViewer("connected", agents[d]))) <= ViewerCap
        BY <3>2, <3>3, OfferType
      <3>5. QED
        BY <2>2, <3>1, <3>4 DEF ViewerConnect, hubVars, agentVars, VPCs
    <2>3. CASE ViewerAdd(v)
      <3>1. ASSUME NEW S \in SUBSET Viewers PROVE Cardinality(S) \in Nat
        BY ViewersAssumption, FS_Subset, FS_CardinalityType
      <3>2. vAgent[v] \in Agents
        BY <2>3 DEF ViewerAdd, HandlersBound
      <3>3. Cardinality(aViewers[vAgent[v]] \cup {v}) \in Nat
        BY <3>1, <3>2
      <3>4. QED
        BY <2>3, <3>2, <3>3 DEF ViewerAdd, hubVars, VPCs, AgentEvents
    <2>4. CASE ViewerAnnounce(v)
      <3>1. ViewerEvent("viewer_joined", v, vCount[v]) \in AgentMsg
        BY DEF ViewerEvent, AgentMsg, AgentEvents
      <3>2. aSend' \in [Agents -> Seq(AgentMsg)] /\ \A b \in Agents : Len(aSend'[b]) <= AgentCap
        BY <2>4, <3>1, ToAgentEffect DEF ViewerAnnounce
      <3>3. QED
        BY <2>4, <3>2 DEF ViewerAnnounce, hubVars, VPCs, WriterStates
    <2>5. ASSUME NEW k \in ViewerKinds, ViewerSignal(v, k) PROVE TypeOK'
      <3>1. FromViewer(k, v) \in AgentMsg
        BY DEF FromViewer, AgentMsg
      <3>2. aSend' \in [Agents -> Seq(AgentMsg)] /\ \A b \in Agents : Len(aSend'[b]) <= AgentCap
        BY <2>5, <3>1, ToAgentEffect DEF ViewerSignal
      <3>3. QED
        BY <2>5, <3>2 DEF ViewerSignal, hubVars, viewerVars
    <2>6. CASE ViewerReadFails(v)
      BY <2>6 DEF ViewerReadFails, hubVars, agentVars, VPCs
    <2>7. CASE ViewerRemove(v)
      <3>1. ASSUME NEW S \in SUBSET Viewers PROVE Cardinality(S) \in Nat
        BY ViewersAssumption, FS_Subset, FS_CardinalityType
      <3>2. vAgent[v] \in Agents
        BY <2>7 DEF ViewerRemove, HandlersBound
      <3>3. Cardinality(aViewers[vAgent[v]] \ {v}) \in Nat
        BY <3>1, <3>2
      <3>4. QED
        BY <2>7, <3>2, <3>3 DEF ViewerRemove, hubVars, VPCs, AgentEvents
    <2>8. CASE ViewerAnnounceLeft(v)
      <3>1. ViewerEvent("viewer_left", v, vCount[v]) \in AgentMsg
        BY DEF ViewerEvent, AgentMsg, AgentEvents
      <3>2. aSend' \in [Agents -> Seq(AgentMsg)] /\ \A b \in Agents : Len(aSend'[b]) <= AgentCap
        BY <2>8, <3>1, ToAgentEffect DEF ViewerAnnounceLeft
      <3>3. QED
        BY <2>8, <3>2 DEF ViewerAnnounceLeft, hubVars, VPCs
    <2>9. QED
      BY <1>14, <2>1, <2>2, <2>3, <2>4, <2>5, <2>6, <2>7, <2>8 DEF ViewerHandler
  <1>15. ASSUME NEW v \in Viewers, ViewerDeliver(v) PROVE TypeOK'
    <2>1. Head(vSend[v]) \in ViewerMsg /\ Tail(vSend[v]) \in Seq(ViewerMsg)
          /\ Len(Tail(vSend[v])) <= ViewerCap
      BY <1>15, CapAssumption DEF ViewerDeliver
    <2>2. Head(vSend[v]).type \in {"connected", "agent_offline", "error"} \cup AgentKinds
      BY <2>1 DEF ViewerMsg
    <2>3. QED
      BY <1>15, <2>1, <2>2 DEF ViewerDeliver, hubVars, agentVars
  <1>16. ASSUME NEW v \in Viewers, ViewerWriterStops(v) PROVE TypeOK'
    BY <1>16 DEF ViewerWriterStops, hubVars, agentVars, WriterStates
  <1>17. CASE UNCHANGED vars
    BY <1>17 DEF vars
  <1>18. QED
    BY <1>1, <1>2, <1>3, <1>4, <1>5, <1>6, <1>7, <1>8, <1>9, <1>10, <1>11, <1>12, <1>13,
       <1>14, <1>15, <1>16, <1>17 DEF Next, AgentHandler

------------------------------------------------------------------------------
UnannouncedPCs == {"none", "connecting", "joining"}
Unannounced(v) == vPC[v] \in UnannouncedPCs

\* A step whose new messages in agent channels come from announced viewers of
\* the receiving agent keeps the two channel invariants.
LEMMA AgentChannelStep ==
    ASSUME SilentUntilAnnounced, SignallingIsIsolated,
           UNCHANGED <<vAgent, vSend>>,
           \A v \in Viewers : Unannounced(v)' => Unannounced(v),
           \A b \in Agents : \A i \in DOMAIN aSend'[b] :
              \/ \E j \in DOMAIN aSend[b] : aSend'[b][i] = aSend[b][j]
              \/ aSend'[b][i].viewer = None
              \/ /\ vAgent[aSend'[b][i].viewer] = b
                 /\ vPC'[aSend'[b][i].viewer] \notin UnannouncedPCs
    PROVE  SilentUntilAnnounced' /\ SignallingIsIsolated'
  <1>1. ASSUME NEW v \in Viewers, Unannounced(v)', NEW a \in Agents, NEW i \in DOMAIN aSend'[a]
        PROVE  aSend'[a][i].viewer # v
    <2>1. CASE \E j \in DOMAIN aSend[a] : aSend'[a][i] = aSend[a][j]
      BY <1>1, <2>1 DEF SilentUntilAnnounced, Unannounced, UnannouncedPCs
    <2>2. CASE aSend'[a][i].viewer = None
      BY <2>2, NoneAssumption
    <2>3. CASE vPC'[aSend'[a][i].viewer] \notin UnannouncedPCs
      BY <1>1, <2>3 DEF Unannounced, UnannouncedPCs
    <2>4. QED
      BY <2>1, <2>2, <2>3
  <1>2. ASSUME NEW a \in Agents, NEW i \in DOMAIN aSend'[a], aSend'[a][i].viewer # None
        PROVE  vAgent'[aSend'[a][i].viewer] = a
    BY <1>2 DEF SignallingIsIsolated
  <1>3. QED
    BY <1>1, <1>2 DEF SilentUntilAnnounced, SignallingIsIsolated, Unannounced, UnannouncedPCs

\* Each action preserves the invariants about handlers, hub and viewer maps.
LEMMA MapStep ==
    ASSUME RelayInv, [Next]_vars
    PROVE  HandlersBound' /\ HubMatchesHandlers' /\ LiveAgentIsReachable' /\ NoGhostViewers'
  <1> DEFINE P == HandlersBound /\ HubMatchesHandlers /\ LiveAgentIsReachable /\ NoGhostViewers
  <1> USE NoneAssumption
  <1> USE DEF RelayInv, TypeOK, HandlersBound, HubMatchesHandlers, LiveAgentIsReachable, Serving,
              NoGhostViewers
  <1>1. ASSUME NEW a \in Agents, NEW d \in Devices, AgentAuth(a, d) PROVE P'
    BY <1>1 DEF AgentAuth, hubVars, viewerVars
  <1>2. ASSUME NEW a \in Agents, AgentAuthFails(a) PROVE P'
    BY <1>2 DEF AgentAuthFails, hubVars, viewerVars
  <1>3. ASSUME NEW a \in Agents, AgentPublish(a) PROVE P'
    <2>1. aID[a] \in Devices
      BY <1>3 DEF AgentPublish
    <2>2. /\ agents' = [agents EXCEPT ![aID[a]] = a]
          /\ aPC' = [aPC EXCEPT ![a] = "published"]
          /\ \A b \in Agents : aClosed'[b] = IF b = agents[aID[a]] THEN TRUE ELSE aClosed[b]
          /\ UNCHANGED <<aID, aSend, aViewers, vPC, vAgent, vSend>>
      BY <1>3 DEF AgentPublish, viewerVars
    <2>3. HandlersBound' /\ HubMatchesHandlers' /\ NoGhostViewers'
      BY <2>1, <2>2
    <2>4. LiveAgentIsReachable'
      <3> SUFFICES ASSUME NEW b \in Agents, Serving(b)', ~aClosed'[b]
                   PROVE  agents'[aID'[b]] = b
        BY DEF LiveAgentIsReachable
      <3>1. CASE b = a
        BY <2>1, <2>2, <3>1
      <3>2. CASE b # a
        <4>1. Serving(b) /\ ~aClosed[b] /\ b # agents[aID[a]]
          <5>1. aPC'[b] = aPC[b]
            BY <2>2, <3>2
          <5>2. aClosed'[b] = IF b = agents[aID[a]] THEN TRUE ELSE aClosed[b]
            BY <2>2
          <5>3. QED
            BY <5>1, <5>2
        <4>2. aID[b] # aID[a] /\ agents[aID[b]] = b
          BY <4>1
        <4>3. QED
          BY <2>2, <4>2
      <3>3. QED
        BY <3>1, <3>2
    <2>5. QED
      BY <2>3, <2>4
  <1>4. ASSUME NEW a \in Agents, AgentRegistered(a) PROVE P'
    BY <1>4 DEF AgentRegistered, hubVars, viewerVars
  <1>5. ASSUME NEW a \in Agents, NEW v \in Viewers, NEW k \in AgentKinds, AgentSignal(a, v, k)
        PROVE  P'
    BY <1>5 DEF AgentSignal, hubVars, agentVars
  <1>6. ASSUME NEW a \in Agents, NEW v \in Viewers, AgentReject(a, v) PROVE P'
    BY <1>6 DEF AgentReject, hubVars
  <1>7. ASSUME NEW a \in Agents, AgentRejectClose(a) PROVE P'
    BY <1>7 DEF AgentRejectClose, hubVars
  <1>8. ASSUME NEW a \in Agents, AgentReadFails(a) PROVE P'
    BY <1>8 DEF AgentReadFails, hubVars, viewerVars
  <1>9. ASSUME NEW a \in Agents, AgentNotify(a) PROVE P'
    BY <1>9 DEF AgentNotify, hubVars
  <1>10. ASSUME NEW a \in Agents, AgentWithdraw(a) PROVE P'
    BY <1>10 DEF AgentWithdraw, viewerVars
  <1>11. ASSUME NEW a \in Agents, AgentClose(a) PROVE P'
    BY <1>11 DEF AgentClose, hubVars, viewerVars
  <1>12. ASSUME NEW a \in Agents, AgentDeliver(a) PROVE P'
    BY <1>12 DEF AgentDeliver, hubVars, viewerVars
  <1>13. ASSUME NEW a \in Agents, AgentWriterStops(a) PROVE P'
    BY <1>13 DEF AgentWriterStops, hubVars, viewerVars
  <1>14. ASSUME NEW v \in Viewers, ViewerHandler(v) PROVE P'
    <2>1. CASE ViewerRefused(v)
      BY <2>1 DEF ViewerRefused, hubVars, agentVars
    <2>2. ASSUME NEW d \in Devices, ViewerConnect(v, d) PROVE P'
      BY <2>2 DEF ViewerConnect, hubVars, agentVars
    <2>3. CASE ViewerAdd(v)
      BY <2>3 DEF ViewerAdd, hubVars
    <2>4. CASE ViewerAnnounce(v)
      BY <2>4 DEF ViewerAnnounce, hubVars
    <2>5. ASSUME NEW k \in ViewerKinds, ViewerSignal(v, k) PROVE P'
      BY <2>5 DEF ViewerSignal, hubVars, viewerVars
    <2>6. CASE ViewerReadFails(v)
      BY <2>6 DEF ViewerReadFails, hubVars, agentVars
    <2>7. CASE ViewerRemove(v)
      BY <2>7 DEF ViewerRemove, hubVars
    <2>8. CASE ViewerAnnounceLeft(v)
      BY <2>8 DEF ViewerAnnounceLeft, hubVars
    <2>9. QED
      BY <1>14, <2>1, <2>2, <2>3, <2>4, <2>5, <2>6, <2>7, <2>8 DEF ViewerHandler
  <1>15. ASSUME NEW v \in Viewers, ViewerDeliver(v) PROVE P'
    BY <1>15 DEF ViewerDeliver, hubVars, agentVars
  <1>16. ASSUME NEW v \in Viewers, ViewerWriterStops(v) PROVE P'
    BY <1>16 DEF ViewerWriterStops, hubVars, agentVars
  <1>17. CASE UNCHANGED vars
    BY <1>17 DEF vars
  <1>18. QED
    BY <1>1, <1>2, <1>3, <1>4, <1>5, <1>6, <1>7, <1>8, <1>9, <1>10, <1>11, <1>12, <1>13,
       <1>14, <1>15, <1>16, <1>17 DEF Next, AgentHandler

\* A step that changes no channel and no binding, and un-announces nobody.
LEMMA ChannelsIdle ==
    ASSUME SilentUntilAnnounced, SignallingIsIsolated,
           UNCHANGED <<aSend, vSend, vAgent>>,
           \A v \in Viewers : Unannounced(v)' => Unannounced(v)
    PROVE  SilentUntilAnnounced' /\ SignallingIsIsolated'
  BY DEF SilentUntilAnnounced, SignallingIsIsolated, Unannounced, UnannouncedPCs

\* So does a step whose new messages in viewer channels come from the agent the
\* receiving viewer is bound to.
LEMMA ViewerChannelStep ==
    ASSUME SilentUntilAnnounced, SignallingIsIsolated,
           UNCHANGED <<aSend, vAgent, vPC>>,
           \A v \in Viewers : \A i \in DOMAIN vSend'[v] :
              \/ vSend'[v][i].from = vAgent[v]
              \/ \E j \in DOMAIN vSend[v] : vSend'[v][i] = vSend[v][j]
    PROVE  SilentUntilAnnounced' /\ SignallingIsIsolated'
  <1>1. SilentUntilAnnounced'
    BY DEF SilentUntilAnnounced
  <1>2. ASSUME NEW v \in Viewers, NEW i \in DOMAIN vSend'[v] PROVE vSend'[v][i].from = vAgent'[v]
    BY DEF SignallingIsIsolated
  <1>3. QED
    BY <1>1, <1>2 DEF SignallingIsIsolated

\* Each action preserves the two channel invariants.
LEMMA ChannelStep ==
    ASSUME RelayInv, [Next]_vars
    PROVE  SilentUntilAnnounced' /\ SignallingIsIsolated'
  <1> DEFINE Q == SilentUntilAnnounced /\ SignallingIsIsolated
  <1>a. TypeOK /\ HandlersBound /\ NoGhostViewers /\ Q
    BY DEF RelayInv
  <1>b. /\ ViewerCap \in Nat
        /\ vPC \in [Viewers -> VPCs] /\ vAgent \in [Viewers -> Agents \cup {None}]
        /\ vSend \in [Viewers -> Seq(ViewerMsg)] /\ \A v \in Viewers : Len(vSend[v]) <= ViewerCap
        /\ aSend \in [Agents -> Seq(AgentMsg)]
    BY <1>a, CapAssumption DEF TypeOK
  <1> HIDE DEF Q
  <1>1. ASSUME NEW a \in Agents, NEW d \in Devices, AgentAuth(a, d) PROVE Q'
    BY <1>a, <1>1, ChannelsIdle DEF AgentAuth, viewerVars, Unannounced, UnannouncedPCs, Q
  <1>2. ASSUME NEW a \in Agents, AgentAuthFails(a) PROVE Q'
    BY <1>a, <1>2, ChannelsIdle DEF AgentAuthFails, viewerVars, Unannounced, UnannouncedPCs, Q
  <1>3. ASSUME NEW a \in Agents, AgentPublish(a) PROVE Q'
    BY <1>a, <1>3, ChannelsIdle DEF AgentPublish, viewerVars, Unannounced, UnannouncedPCs, Q
  <1>4. ASSUME NEW a \in Agents, AgentRegistered(a) PROVE Q'
    <2>1. Registered \in AgentMsg /\ Registered.viewer = None
      BY DEF Registered, AgentMsg, AgentEvents
    <2>2. ToAgent(a, Registered) /\ UNCHANGED <<vAgent, vSend, vPC>>
      BY <1>4 DEF AgentRegistered, viewerVars
    <2>3. \A b \in Agents : \A i \in DOMAIN aSend'[b] :
            \/ aSend'[b][i] = Registered
            \/ i \in DOMAIN aSend[b] /\ aSend'[b][i] = aSend[b][i]
      BY <1>a, <2>1, <2>2, ToAgentEffect
    <2>4. \A v \in Viewers : Unannounced(v)' => Unannounced(v)
      BY <2>2 DEF Unannounced, UnannouncedPCs
    <2>5. QED
      BY <1>a, <2>1, <2>2, <2>3, <2>4, AgentChannelStep DEF Q
  <1>5. ASSUME NEW a \in Agents, NEW v \in Viewers, NEW k \in AgentKinds, AgentSignal(a, v, k) PROVE Q'
    <2>1. ToViewer(k, a) \in ViewerMsg /\ ToViewer(k, a).from = a
      BY DEF ToViewer, ViewerMsg
    <2>2. vSend' = [vSend EXCEPT ![v] = Offer(@, ViewerCap, ToViewer(k, a))]
      BY <1>5 DEF AgentSignal
    <2>3. vAgent[v] = a /\ UNCHANGED <<aSend, vAgent>>
      BY <1>5, <1>a DEF AgentSignal, NoGhostViewers, agentVars
    <2>4. \A w \in Viewers : \A i \in DOMAIN vSend'[w] :
            \/ vSend'[w][i].from = vAgent[w]
            \/ \E j \in DOMAIN vSend[w] : vSend'[w][i] = vSend[w][j]
      BY <1>b, <2>1, <2>2, <2>3, OfferElements
    <2>5. UNCHANGED vPC
      BY <1>5 DEF AgentSignal
    <2>6. QED
      BY <1>a, <2>1, <2>3, <2>4, <2>5, ViewerChannelStep DEF Q
  <1>6. ASSUME NEW a \in Agents, NEW v \in Viewers, AgentReject(a, v) PROVE Q'
    <2>1. ToViewer("error", a) \in ViewerMsg /\ ToViewer("error", a).from = a
      BY DEF ToViewer, ViewerMsg
    <2>2. vSend' = [vSend EXCEPT ![v] = Offer(@, ViewerCap, ToViewer("error", a))]
      BY <1>6 DEF AgentReject
    <2>3. vAgent[v] = a /\ UNCHANGED <<aSend, vAgent>>
      BY <1>6, <1>a DEF AgentReject, NoGhostViewers, agentVars
    <2>4. \A w \in Viewers : \A i \in DOMAIN vSend'[w] :
            \/ vSend'[w][i].from = vAgent[w]
            \/ \E j \in DOMAIN vSend[w] : vSend'[w][i] = vSend[w][j]
      BY <1>b, <2>1, <2>2, <2>3, OfferElements
    <2>5. UNCHANGED vPC
      BY <1>6 DEF AgentReject
    <2>6. QED
      BY <1>a, <2>1, <2>3, <2>4, <2>5, ViewerChannelStep DEF Q
  <1>7. ASSUME NEW a \in Agents, AgentRejectClose(a) PROVE Q'
    BY <1>a, <1>7, ChannelsIdle DEF AgentRejectClose, Unannounced, UnannouncedPCs, Q
  <1>8. ASSUME NEW a \in Agents, AgentReadFails(a) PROVE Q'
    BY <1>a, <1>8, ChannelsIdle DEF AgentReadFails, viewerVars, Unannounced, UnannouncedPCs, Q
  <1>9. ASSUME NEW a \in Agents, AgentNotify(a) PROVE Q'
    <2> DEFINE m == ToViewer("agent_offline", a)
    <2>1. m \in ViewerMsg /\ m.from = a
      BY DEF ToViewer, ViewerMsg
    <2>2. UNCHANGED <<aSend, vAgent, vPC>>
      BY <1>9 DEF AgentNotify
    <2>3. ASSUME NEW w \in Viewers, NEW i \in DOMAIN vSend'[w]
          PROVE  \/ vSend'[w][i].from = vAgent[w]
                 \/ \E j \in DOMAIN vSend[w] : vSend'[w][i] = vSend[w][j]
      <3>1. CASE w \in aViewers[a]
        <4>1. vSend'[w] = Offer(vSend[w], ViewerCap, m)
          BY <1>9, <3>1 DEF AgentNotify
        <4>2. vAgent[w] = a
          BY <1>a, <3>1 DEF NoGhostViewers
        <4>3. QED
          BY <1>b, <2>1, <4>1, <4>2, <2>3, OfferElements
      <3>2. CASE w \notin aViewers[a]
        BY <1>9, <2>3, <3>2 DEF AgentNotify
      <3>3. QED
        BY <3>1, <3>2
    <2>4. QED
      BY <1>a, <2>1, <2>2, <2>3, ViewerChannelStep DEF Q
  <1>10. ASSUME NEW a \in Agents, AgentWithdraw(a) PROVE Q'
    BY <1>a, <1>10, ChannelsIdle DEF AgentWithdraw, viewerVars, Unannounced, UnannouncedPCs, Q
  <1>11. ASSUME NEW a \in Agents, AgentClose(a) PROVE Q'
    BY <1>a, <1>11, ChannelsIdle DEF AgentClose, viewerVars, Unannounced, UnannouncedPCs, Q
  <1>12. ASSUME NEW a \in Agents, AgentDeliver(a) PROVE Q'
    <2>1. UNCHANGED <<vAgent, vSend, vPC>>
      BY <1>12 DEF AgentDeliver, viewerVars
    <2>2. aSend[a] # <<>> /\ aSend' = [aSend EXCEPT ![a] = Tail(@)]
      BY <1>12 DEF AgentDeliver
    <2>3. \A b \in Agents : \A i \in DOMAIN aSend'[b] :
            \E j \in DOMAIN aSend[b] : aSend'[b][i] = aSend[b][j]
      BY <1>b, <2>2, TailElements
    <2>4. \A v \in Viewers : Unannounced(v)' => Unannounced(v)
      BY <2>1 DEF Unannounced, UnannouncedPCs
    <2>5. QED
      BY <1>a, <2>1, <2>3, <2>4, AgentChannelStep DEF Q
  <1>13. ASSUME NEW a \in Agents, AgentWriterStops(a) PROVE Q'
    BY <1>a, <1>13, ChannelsIdle DEF AgentWriterStops, viewerVars, Unannounced, UnannouncedPCs, Q
  <1>14. ASSUME NEW v \in Viewers, ViewerHandler(v) PROVE Q'
    <2>1. CASE ViewerRefused(v)
      BY <1>b, <2>1, <1>a, ChannelsIdle DEF ViewerRefused, agentVars, Unannounced, UnannouncedPCs, Q
    <2>2. ASSUME NEW d \in Devices, ViewerConnect(v, d) PROVE Q'
      <3> DEFINE m == ToViewer("connected", agents[d])
      <3>1. agents[d] \in Agents
        BY <1>a, <2>2 DEF ViewerConnect, TypeOK
      <3>2. m \in ViewerMsg /\ m.from = agents[d]
        BY <3>1 DEF ToViewer, ViewerMsg
      <3>3. /\ UNCHANGED aSend /\ Unannounced(v)
            /\ vSend' = [vSend EXCEPT ![v] = Offer(<<>>, ViewerCap, m)]
            /\ vAgent' = [vAgent EXCEPT ![v] = agents[d]]
            /\ \A w \in Viewers : Unannounced(w)' => Unannounced(w)
        BY <1>b, <2>2 DEF ViewerConnect, agentVars, Unannounced, UnannouncedPCs
      <3>4. \A i \in DOMAIN Offer(<<>>, ViewerCap, m) : Offer(<<>>, ViewerCap, m)[i] = m
        BY <1>b, <3>2 DEF Offer
      <3>5. SilentUntilAnnounced'
        BY <1>a, <3>3 DEF Q, SilentUntilAnnounced, Unannounced, UnannouncedPCs
      <3>6. ASSUME NEW a \in Agents, NEW i \in DOMAIN aSend'[a], aSend'[a][i].viewer # None
            PROVE  vAgent'[aSend'[a][i].viewer] = a
        <4>1. aSend[a][i].viewer # v /\ vAgent[aSend[a][i].viewer] = a
          BY <1>a, <3>3, <3>6 DEF Q, SilentUntilAnnounced, SignallingIsIsolated, Unannounced, UnannouncedPCs
        <4>2. QED
          BY <1>b, <3>3, <4>1
      <3>7. ASSUME NEW w \in Viewers, NEW i \in DOMAIN vSend'[w]
            PROVE  vSend'[w][i].from = vAgent'[w]
        BY <1>a, <1>b, <3>2, <3>3, <3>4, <3>7 DEF Q, SignallingIsIsolated
      <3>8. QED
        BY <3>5, <3>6, <3>7 DEF Q, SignallingIsIsolated
    <2>3. CASE ViewerAdd(v)
      BY <1>b, <2>3, <1>a, ChannelsIdle DEF ViewerAdd, Unannounced, UnannouncedPCs, Q
    <2>4. CASE ViewerAnnounce(v)
      <3> DEFINE m == ViewerEvent("viewer_joined", v, vCount[v])
      <3>1. m \in AgentMsg /\ m.viewer = v
        BY <1>a DEF ViewerEvent, AgentMsg, AgentEvents, TypeOK
      <3>2. ToAgent(vAgent[v], m) /\ UNCHANGED <<vAgent, vSend>>
        BY <2>4 DEF ViewerAnnounce
      <3>3. \A b \in Agents : \A i \in DOMAIN aSend'[b] :
              \/ aSend'[b][i] = m /\ vAgent[v] = b
              \/ i \in DOMAIN aSend[b] /\ aSend'[b][i] = aSend[b][i]
        BY <1>a, <3>1, <3>2, ToAgentEffect
      <3>4. \A w \in Viewers : Unannounced(w)' => Unannounced(w)
        BY <1>b, <2>4, <3>1 DEF ViewerAnnounce, Unannounced, UnannouncedPCs
      <3>5. vPC'[v] \notin UnannouncedPCs
        BY <1>b, <2>4 DEF ViewerAnnounce, UnannouncedPCs
      <3>6. QED
        BY <1>a, <3>1, <3>2, <3>3, <3>4, <3>5, AgentChannelStep DEF Q
    <2>5. ASSUME NEW k \in ViewerKinds, ViewerSignal(v, k) PROVE Q'
      <3>1. FromViewer(k, v) \in AgentMsg /\ FromViewer(k, v).viewer = v
        BY DEF FromViewer, AgentMsg
      <3>2. ToAgent(vAgent[v], FromViewer(k, v)) /\ UNCHANGED <<vAgent, vSend>>
        BY <2>5 DEF ViewerSignal, viewerVars
      <3>3. \A b \in Agents : \A i \in DOMAIN aSend'[b] :
              \/ aSend'[b][i] = FromViewer(k, v) /\ vAgent[v] = b
              \/ i \in DOMAIN aSend[b] /\ aSend'[b][i] = aSend[b][i]
        BY <1>a, <3>1, <3>2, ToAgentEffect
      <3>4. \A w \in Viewers : Unannounced(w)' => Unannounced(w)
        BY <1>b, <2>5, <3>1 DEF ViewerSignal, viewerVars, Unannounced, UnannouncedPCs
      <3>5. vPC'[v] \notin UnannouncedPCs
        BY <1>b, <2>5 DEF ViewerSignal, viewerVars, UnannouncedPCs
      <3>6. QED
        BY <1>a, <3>1, <3>2, <3>3, <3>4, <3>5, AgentChannelStep DEF Q
    <2>6. CASE ViewerReadFails(v)
      BY <1>b, <2>6, <1>a, ChannelsIdle DEF ViewerReadFails, agentVars, Unannounced, UnannouncedPCs, Q
    <2>7. CASE ViewerRemove(v)
      BY <1>b, <2>7, <1>a, ChannelsIdle DEF ViewerRemove, Unannounced, UnannouncedPCs, Q
    <2>8. CASE ViewerAnnounceLeft(v)
      <3> DEFINE m == ViewerEvent("viewer_left", v, vCount[v])
      <3>1. m \in AgentMsg /\ m.viewer = v
        BY <1>a DEF ViewerEvent, AgentMsg, AgentEvents, TypeOK
      <3>2. ToAgent(vAgent[v], m) /\ UNCHANGED <<vAgent, vSend>>
        BY <2>8 DEF ViewerAnnounceLeft
      <3>3. \A b \in Agents : \A i \in DOMAIN aSend'[b] :
              \/ aSend'[b][i] = m /\ vAgent[v] = b
              \/ i \in DOMAIN aSend[b] /\ aSend'[b][i] = aSend[b][i]
        BY <1>a, <3>1, <3>2, ToAgentEffect
      <3>4. \A w \in Viewers : Unannounced(w)' => Unannounced(w)
        BY <1>b, <2>8, <3>1 DEF ViewerAnnounceLeft, Unannounced, UnannouncedPCs
      <3>5. vPC'[v] \notin UnannouncedPCs
        BY <1>b, <2>8 DEF ViewerAnnounceLeft, UnannouncedPCs
      <3>6. QED
        BY <1>a, <3>1, <3>2, <3>3, <3>4, <3>5, AgentChannelStep DEF Q
    <2>9. QED
      BY <1>14, <2>1, <2>2, <2>3, <2>4, <2>5, <2>6, <2>7, <2>8 DEF ViewerHandler
  <1>15. ASSUME NEW v \in Viewers, ViewerDeliver(v) PROVE Q'
    <2>1. UNCHANGED <<aSend, vAgent, vPC>> /\ vSend[v] # <<>>
          /\ vSend' = [vSend EXCEPT ![v] = Tail(@)]
      BY <1>15 DEF ViewerDeliver, agentVars
    <2>2. \A w \in Viewers : \A i \in DOMAIN vSend'[w] :
            \E j \in DOMAIN vSend[w] : vSend'[w][i] = vSend[w][j]
      BY <1>b, <2>1, TailElements
    <2>3. QED
      BY <1>a, <2>1, <2>2, ViewerChannelStep DEF Q
  <1>16. ASSUME NEW v \in Viewers, ViewerWriterStops(v) PROVE Q'
    BY <1>a, <1>16, ChannelsIdle DEF ViewerWriterStops, agentVars, Unannounced, UnannouncedPCs, Q
  <1>17. CASE UNCHANGED vars
    BY <1>17, <1>a, ChannelsIdle DEF vars, Unannounced, UnannouncedPCs, Q
  <1>18. QED
    BY <1>1, <1>2, <1>3, <1>4, <1>5, <1>6, <1>7, <1>8, <1>9, <1>10, <1>11, <1>12, <1>13,
       <1>14, <1>15, <1>16, <1>17 DEF Next, AgentHandler, Q
------------------------------------------------------------------------------
\* RelayInv is inductive.
THEOREM RelayInvariant == Spec => []RelayInv
  <1>1. RelayInv /\ [Next]_vars => RelayInv'
    <2> SUFFICES ASSUME RelayInv, [Next]_vars PROVE RelayInv'
      OBVIOUS
    <2>1. TypeOK'
      BY TypeStep DEF RelayInv
    <2>2. QED
      BY <2>1, MapStep, ChannelStep DEF RelayInv
  <1>2. QED
    BY <1>1, InitInv, PTL DEF Spec

\* The types hold, and no channel ever exceeds its capacity.
THEOREM TypesCorrect == Spec => []TypeOK
  <1>1. RelayInv => TypeOK
    BY DEF RelayInv
  <1>2. QED
    BY <1>1, RelayInvariant, PTL

\* A registered connection that nobody closed stays the hub's entry for its
\* device, whatever older connections of the device still clean up.
THEOREM LiveAgentsReachable == Spec => []LiveAgentIsReachable
  <1>1. RelayInv => LiveAgentIsReachable
    BY DEF RelayInv
  <1>2. QED
    BY <1>1, RelayInvariant, PTL

\* No message crosses from one session to another, in either direction.
THEOREM SignallingIsolated == Spec => []SignallingIsIsolated
  <1>1. RelayInv => SignallingIsIsolated
    BY DEF RelayInv
  <1>2. QED
    BY <1>1, RelayInvariant, PTL

\* An agent hears nothing of a viewer before viewer_joined is queued for it.
THEOREM ViewersSilentUntilAnnounced == Spec => []SilentUntilAnnounced
  <1>1. RelayInv => SilentUntilAnnounced
    BY DEF RelayInv
  <1>2. QED
    BY <1>1, RelayInvariant, PTL

\* Viewer maps hold only viewers of this connection whose handler is running.
THEOREM NoViewerLeaks == Spec => []NoGhostViewers
  <1>1. RelayInv => NoGhostViewers
    BY DEF RelayInv
  <1>2. QED
    BY <1>1, RelayInvariant, PTL

------------------------------------------------------------------------------
(* The count the remote agent believes.                                    *)

\* Every viewer bound to the agent that ought to be in its map is there: none
\* was rejected and has yet to leave.
AllListed(a) ==
    \A v \in Viewers : vAgent[v] = a /\ vPC[v] \in {"joining", "running", "leaving"}
        => v \in aViewers[a]

\* The event that changed a map last is one of a viewer bound to that agent, and
\* the viewer's handler still holds the count it read with the change.
ChangeCounts ==
    \A a \in Agents :
        \/ aChange[a] = EventOf(Registered) /\ aViewers[a] = {}
        \/ \E v \in Viewers :
             /\ vAgent[v] = a
             /\ \/ aChange[a] = <<"viewer_joined", v>> /\ vPC[v] \in {"joining", "running", "leaving"}
                \/ aChange[a] = <<"viewer_left", v>> /\ vPC[v] \in {"left", "done"}
             /\ AllListed(a) => vCount[v] = Cardinality(aViewers[a])

\* An event under way to the agent carries the count of its viewer, as long as
\* that viewer has not read another one.
Counted(m) ==
    /\ m.type = "registered" => m.count = 0
    /\ m.type = "viewer_joined" =>
         /\ m.viewer \in Viewers /\ vPC[m.viewer] \in {"running", "leaving", "left", "done"}
         /\ vPC[m.viewer] \in {"running", "leaving"} => m.count = vCount[m.viewer]
    /\ m.type = "viewer_left" =>
         m.viewer \in Viewers /\ vPC[m.viewer] = "done" /\ m.count = vCount[m.viewer]

EventsCarryCounts ==
    \A a \in Agents : Counted(aTold[a]) /\ \A i \in DOMAIN aSend[a] : Counted(aSend[a][i])

\* Together with RelayInv the inductive invariant under CountSettles.  The count is
\* read under Agent.mu and queued after the unlock, so the two halves are about the
\* moment of the change and about what became of the number since.
CountInv == ChangeCounts /\ EventsCarryCounts

\* Whoever reads a new count has no event under way that carries another.
LEMMA CountedStable ==
    ASSUME TypeOK, [Next]_vars, NEW m, Counted(m)
    PROVE  Counted(m)'
  <1>a. vPC \in [Viewers -> VPCs] /\ vCount \in [Viewers -> Nat]
    BY DEF TypeOK
  <1>1. ASSUME NEW a \in Agents, AgentHandler(a) \/ AgentDeliver(a) \/ AgentWriterStops(a)
        PROVE  UNCHANGED <<vPC, vCount>>
    BY <1>1 DEF AgentHandler, AgentAuth, AgentAuthFails, AgentPublish, AgentRegistered, AgentSignal,
                AgentReject, AgentRejectClose, AgentReadFails, AgentNotify, AgentWithdraw, AgentClose,
                AgentDeliver, AgentWriterStops, viewerVars
  <1>2. ASSUME NEW v \in Viewers, ViewerDeliver(v) \/ ViewerWriterStops(v) \/ \E k \in ViewerKinds : ViewerSignal(v, k)
        PROVE  UNCHANGED <<vPC, vCount>>
    BY <1>2 DEF ViewerDeliver, ViewerWriterStops, ViewerSignal, viewerVars
  <1>3. ASSUME UNCHANGED <<vPC, vCount>> PROVE Counted(m)'
    BY <1>3 DEF Counted
  <1>4. ASSUME NEW v \in Viewers, ViewerRefused(v) PROVE Counted(m)'
    BY <1>a, <1>4 DEF ViewerRefused, Counted
  <1>5. ASSUME NEW v \in Viewers, NEW d \in Devices, ViewerConnect(v, d) PROVE Counted(m)'
    BY <1>a, <1>5 DEF ViewerConnect, Counted
  <1>6. ASSUME NEW v \in Viewers, ViewerAdd(v) PROVE Counted(m)'
    BY <1>a, <1>6 DEF ViewerAdd, Counted
  <1>7. ASSUME NEW v \in Viewers, ViewerAnnounce(v) PROVE Counted(m)'
    BY <1>a, <1>7 DEF ViewerAnnounce, Counted
  <1>8. ASSUME NEW v \in Viewers, ViewerReadFails(v) PROVE Counted(m)'
    BY <1>a, <1>8 DEF ViewerReadFails, Counted
  <1>9. ASSUME NEW v \in Viewers, ViewerRemove(v) PROVE Counted(m)'
    BY <1>a, <1>9 DEF ViewerRemove, Counted
  <1>10. ASSUME NEW v \in Viewers, ViewerAnnounceLeft(v) PROVE Counted(m)'
    BY <1>a, <1>10 DEF ViewerAnnounceLeft, Counted
  <1>11. CASE UNCHANGED vars
    BY <1>3, <1>11 DEF vars
  <1>12. QED
    BY <1>1, <1>2, <1>3, <1>4, <1>5, <1>6, <1>7, <1>8, <1>9, <1>10, <1>11 DEF Next, ViewerHandler

\* An announcement carries the count its viewer holds; signalling is no event.
LEMMA CountsStayCarried ==
    ASSUME RelayInv, EventsCarryCounts, [Next]_vars
    PROVE  EventsCarryCounts'
  <1>a. TypeOK /\ vPC \in [Viewers -> VPCs] /\ vCount \in [Viewers -> Nat]
        /\ aTold \in [Agents -> AgentMsg] /\ aSend \in [Agents -> Seq(AgentMsg)]
    BY DEF RelayInv, TypeOK
  <1>b. ASSUME NEW m, Counted(m) PROVE Counted(m)'
    BY <1>a, <1>b, CountedStable
  <1>c. ASSUME UNCHANGED aTold,
               \A b \in Agents : \A i \in DOMAIN aSend'[b] :
                  \/ Counted(aSend[b][i])'
                  \/ i \in DOMAIN aSend[b] /\ aSend'[b][i] = aSend[b][i]
        PROVE  EventsCarryCounts'
    <2>1. ASSUME NEW b \in Agents PROVE Counted(aTold[b])'
      <3>1. PICK m : m = aTold[b]
        OBVIOUS
      <3>2. Counted(m)' /\ m = aTold'[b]
        BY <1>b, <1>c, <3>1 DEF EventsCarryCounts
      <3>3. QED
        BY <3>2 DEF Counted
    <2>2. ASSUME NEW b \in Agents, NEW i \in DOMAIN aSend'[b] PROVE Counted(aSend[b][i])'
      <3>1. CASE i \in DOMAIN aSend[b] /\ aSend'[b][i] = aSend[b][i]
        <4>1. PICK m : m = aSend[b][i]
          OBVIOUS
        <4>2. Counted(m)' /\ m = aSend'[b][i]
          BY <1>b, <3>1, <4>1 DEF EventsCarryCounts
        <4>3. QED
          BY <4>2 DEF Counted
      <3>2. QED
        BY <1>c, <3>1
    <2>3. QED
      BY <2>1, <2>2 DEF EventsCarryCounts
  <1>d. ASSUME NEW a, NEW m \in AgentMsg, ToAgent(a, m), UNCHANGED aTold, Counted(m)'
        PROVE  EventsCarryCounts'
    <2>1. \A b \in Agents : \A i \in DOMAIN aSend'[b] :
            \/ b = a /\ aSend'[b][i] = m
            \/ i \in DOMAIN aSend[b] /\ aSend'[b][i] = aSend[b][i]
      BY <1>a, <1>d, ToAgentEffect
    <2>2. ASSUME NEW b \in Agents, NEW i \in DOMAIN aSend'[b], aSend'[b][i] = m
          PROVE  Counted(aSend[b][i])'
      BY <1>d, <2>2 DEF Counted
    <2>3. QED
      BY <1>c, <1>d, <2>1, <2>2
  <1>e. ASSUME UNCHANGED <<aTold, aSend>> PROVE EventsCarryCounts'
    BY <1>c, <1>e
  <1>1. ASSUME NEW a \in Agents, AgentRegistered(a) PROVE EventsCarryCounts'
    <2>1. Registered \in AgentMsg /\ Counted(Registered)'
      BY DEF Registered, AgentMsg, AgentEvents, Counted
    <2>2. ToAgent(a, Registered) /\ UNCHANGED aTold
      BY <1>1 DEF AgentRegistered, countVars
    <2>3. QED
      BY <1>d, <2>1, <2>2
  <1>2. ASSUME NEW a \in Agents, AgentDeliver(a) PROVE EventsCarryCounts'
    <2>1. /\ aSend[a] # <<>> /\ aSend' = [aSend EXCEPT ![a] = Tail(@)]
          /\ \A b \in Agents : aTold'[b] = aTold[b] \/ (b = a /\ aTold'[b] = Head(aSend[a]))
      BY <1>2, <1>a DEF AgentDeliver
    <2>2. ASSUME NEW b \in Agents PROVE Counted(aTold[b])'
      <3>1. PICK m : m = aTold'[b]
        OBVIOUS
      <3>2. Counted(m)
        <4>1. aSend[b] # <<>> => 1 \in DOMAIN aSend[b] /\ Head(aSend[b]) = aSend[b][1]
          BY <1>a
        <4>2. QED
          BY <2>1, <3>1, <4>1 DEF EventsCarryCounts
      <3>3. Counted(m)'
        BY <1>b, <3>2
      <3>4. QED
        BY <3>1, <3>3 DEF Counted
    <2>3. ASSUME NEW b \in Agents, NEW i \in DOMAIN aSend'[b] PROVE Counted(aSend[b][i])'
      <3>1. PICK j \in DOMAIN aSend[b] : aSend'[b][i] = aSend[b][j]
        BY <1>a, <2>1, TailElements
      <3>2. PICK m : m = aSend[b][j]
        OBVIOUS
      <3>3. Counted(m)'
        BY <1>b, <3>2 DEF EventsCarryCounts
      <3>4. QED
        BY <3>1, <3>2, <3>3 DEF Counted
    <2>4. QED
      BY <2>2, <2>3 DEF EventsCarryCounts
  <1>3. ASSUME NEW a \in Agents, AgentHandler(a) \/ AgentWriterStops(a), ~AgentRegistered(a)
        PROVE  UNCHANGED <<aTold, aSend>>
    BY <1>3 DEF AgentHandler, AgentAuth, AgentAuthFails, AgentPublish, AgentSignal,
                AgentReject, AgentRejectClose, AgentReadFails, AgentNotify, AgentWithdraw, AgentClose,
                AgentWriterStops, agentVars, countVars
  <1>4. ASSUME NEW v \in Viewers, ViewerAnnounce(v) PROVE EventsCarryCounts'
    <2>1. PICK m : m = ViewerEvent("viewer_joined", v, vCount[v])
      OBVIOUS
    <2>2. m \in AgentMsg
      BY <1>a, <2>1 DEF ViewerEvent, AgentMsg, AgentEvents
    <2>3. ToAgent(vAgent[v], m) /\ UNCHANGED <<aTold, vCount>> /\ vPC'[v] = "running"
      BY <1>4, <1>a, <2>1 DEF ViewerAnnounce, countVars
    <2>4. Counted(m)'
      BY <2>1, <2>3 DEF Counted, ViewerEvent
    <2>5. PICK a : a = vAgent[v]
      OBVIOUS
    <2>6. QED
      BY <1>d, <2>2, <2>3, <2>4, <2>5
  <1>5. ASSUME NEW v \in Viewers, ViewerAnnounceLeft(v) PROVE EventsCarryCounts'
    <2>1. PICK m : m = ViewerEvent("viewer_left", v, vCount[v])
      OBVIOUS
    <2>2. m \in AgentMsg
      BY <1>a, <2>1 DEF ViewerEvent, AgentMsg, AgentEvents
    <2>3. ToAgent(vAgent[v], m) /\ UNCHANGED <<aTold, vCount>> /\ vPC'[v] = "done"
      BY <1>5, <1>a, <2>1 DEF ViewerAnnounceLeft, countVars
    <2>4. Counted(m)'
      BY <2>1, <2>3 DEF Counted, ViewerEvent
    <2>5. PICK a : a = vAgent[v]
      OBVIOUS
    <2>6. QED
      BY <1>d, <2>2, <2>3, <2>4, <2>5
  <1>6. ASSUME NEW v \in Viewers, NEW k \in ViewerKinds, ViewerSignal(v, k) PROVE EventsCarryCounts'
    <2>1. FromViewer(k, v) \in AgentMsg /\ Counted(FromViewer(k, v))'
      BY KindsAssumption DEF FromViewer, AgentMsg, AgentEvents, Counted
    <2>2. ToAgent(vAgent[v], FromViewer(k, v)) /\ UNCHANGED aTold
      BY <1>6 DEF ViewerSignal, countVars
    <2>3. PICK a : a = vAgent[v]
      OBVIOUS
    <2>4. QED
      BY <1>d, <2>1, <2>2, <2>3
  <1>7. ASSUME NEW v \in Viewers,
               \/ ViewerRefused(v) \/ ViewerAdd(v) \/ ViewerReadFails(v) \/ ViewerRemove(v)
               \/ ViewerDeliver(v) \/ ViewerWriterStops(v) \/ \E d \in Devices : ViewerConnect(v, d)
        PROVE  UNCHANGED <<aTold, aSend>>
    BY <1>7 DEF ViewerRefused, ViewerAdd, ViewerReadFails, ViewerRemove, ViewerDeliver,
                ViewerWriterStops, ViewerConnect, agentVars
  <1>8. CASE UNCHANGED vars
    BY <1>8, <1>e DEF vars
  <1>9. QED
    BY <1>e, <1>1, <1>2, <1>3, <1>4, <1>5, <1>6, <1>7, <1>8 DEF Next, ViewerHandler

\* addViewer and removeViewer read the count with the change; a rejection, which
\* reads none, leaves a viewer that still has to leave.
LEMMA ChangesStayCounted ==
    ASSUME RelayInv, ChangeCounts, [Next]_vars
    PROVE  ChangeCounts'
  <1>a. /\ TypeOK /\ HandlersBound /\ NoGhostViewers
        /\ vPC \in [Viewers -> VPCs] /\ vCount \in [Viewers -> Nat]
        /\ vAgent \in [Viewers -> Agents \cup {None}]
        /\ aViewers \in [Agents -> SUBSET Viewers]
        /\ aChange \in [Agents -> AgentEvents \X (Viewers \cup {None})]
    BY DEF RelayInv, TypeOK
  <1>b. ASSUME UNCHANGED <<aChange, aViewers, vAgent, vPC, vCount>> PROVE ChangeCounts'
    BY <1>b DEF ChangeCounts, AllListed
  <1>1. ASSUME NEW a \in Agents, NEW v \in Viewers, AgentReject(a, v) PROVE ChangeCounts'
    <2>1. /\ v \in aViewers[a] /\ aViewers' = [aViewers EXCEPT ![a] = @ \ {v}]
          /\ UNCHANGED <<aChange, vAgent, vPC, vCount>>
      BY <1>1 DEF AgentReject, countVars
    <2>2. vAgent[v] = a /\ vPC[v] \in {"joining", "running", "leaving"}
      BY <1>a, <2>1 DEF NoGhostViewers
    <2>3. ~AllListed(a)'
      BY <1>a, <2>1, <2>2 DEF AllListed
    <2>4. ASSUME NEW b \in Agents, b # a PROVE aViewers'[b] = aViewers[b] /\ AllListed(b)' = AllListed(b)
      BY <1>a, <2>1, <2>4 DEF AllListed
    <2>5. QED
      BY <1>a, <2>1, <2>3, <2>4 DEF ChangeCounts
  <1>2. ASSUME NEW a \in Agents, AgentHandler(a) \/ AgentDeliver(a) \/ AgentWriterStops(a),
               ~\E v \in Viewers : AgentReject(a, v)
        PROVE  UNCHANGED <<aChange, aViewers, vAgent, vPC, vCount>>
    BY <1>2 DEF AgentHandler, AgentAuth, AgentAuthFails, AgentPublish, AgentRegistered, AgentSignal,
                AgentRejectClose, AgentReadFails, AgentNotify, AgentWithdraw, AgentClose,
                AgentDeliver, AgentWriterStops, viewerVars, agentVars, countVars
  <1>3. ASSUME NEW v \in Viewers, ViewerAdd(v) PROVE ChangeCounts'
    <2> DEFINE c == vAgent[v]
    <2>1. c \in Agents
      BY <1>3, <1>a DEF ViewerAdd, HandlersBound
    <2>2. /\ vPC[v] = "connecting" /\ vPC' = [vPC EXCEPT ![v] = "joining"]
          /\ aViewers' = [aViewers EXCEPT ![c] = @ \cup {v}]
          /\ vCount' = [vCount EXCEPT ![v] = Cardinality(aViewers[c] \cup {v})]
          /\ aChange' = [aChange EXCEPT ![c] = <<"viewer_joined", v>>]
          /\ UNCHANGED vAgent
      BY <1>3 DEF ViewerAdd
    <2>3. /\ vAgent'[v] = c /\ aChange'[c] = <<"viewer_joined", v>> /\ vPC'[v] = "joining"
          /\ vCount'[v] = Cardinality(aViewers'[c])
      BY <1>a, <2>1, <2>2
    <2>4. ASSUME NEW b \in Agents, b # c
          PROVE  \/ aChange'[b] = EventOf(Registered) /\ aViewers'[b] = {}
                 \/ \E w \in Viewers :
                      /\ vAgent'[w] = b
                      /\ \/ aChange'[b] = <<"viewer_joined", w>> /\ vPC'[w] \in {"joining", "running", "leaving"}
                         \/ aChange'[b] = <<"viewer_left", w>> /\ vPC'[w] \in {"left", "done"}
                      /\ AllListed(b)' => vCount'[w] = Cardinality(aViewers'[b])
      <3>1. aChange'[b] = aChange[b] /\ aViewers'[b] = aViewers[b]
        BY <1>a, <2>1, <2>2, <2>4
      <3>2. \A w \in Viewers : vAgent[w] = b => vPC'[w] = vPC[w] /\ vCount'[w] = vCount[w]
        BY <1>a, <2>2, <2>4
      <3>3. AllListed(b)' => AllListed(b)
        BY <2>2, <3>1, <3>2 DEF AllListed
      <3>4. CASE aChange[b] = EventOf(Registered) /\ aViewers[b] = {}
        BY <3>1, <3>4
      <3>5. ASSUME NEW w \in Viewers, vAgent[w] = b,
                   \/ aChange[b] = <<"viewer_joined", w>> /\ vPC[w] \in {"joining", "running", "leaving"}
                   \/ aChange[b] = <<"viewer_left", w>> /\ vPC[w] \in {"left", "done"},
                   AllListed(b) => vCount[w] = Cardinality(aViewers[b])
            PROVE  /\ vAgent'[w] = b
                   /\ \/ aChange'[b] = <<"viewer_joined", w>> /\ vPC'[w] \in {"joining", "running", "leaving"}
                      \/ aChange'[b] = <<"viewer_left", w>> /\ vPC'[w] \in {"left", "done"}
                   /\ AllListed(b)' => vCount'[w] = Cardinality(aViewers'[b])
        BY <2>2, <3>1, <3>2, <3>3, <3>5
      <3>6. QED
        BY <3>4, <3>5 DEF ChangeCounts
    <2>5. QED
      BY <2>3, <2>4 DEF ChangeCounts
  <1>4. ASSUME NEW v \in Viewers, ViewerRemove(v) PROVE ChangeCounts'
    <2> DEFINE c == vAgent[v]
    <2>1. c \in Agents
      BY <1>4, <1>a DEF ViewerRemove, HandlersBound
    <2>2. /\ vPC[v] = "leaving" /\ vPC' = [vPC EXCEPT ![v] = "left"]
          /\ aViewers' = [aViewers EXCEPT ![c] = @ \ {v}]
          /\ vCount' = [vCount EXCEPT ![v] = Cardinality(aViewers[c] \ {v})]
          /\ aChange' = [aChange EXCEPT ![c] = <<"viewer_left", v>>]
          /\ UNCHANGED vAgent
      BY <1>4 DEF ViewerRemove
    <2>3. /\ vAgent'[v] = c /\ aChange'[c] = <<"viewer_left", v>> /\ vPC'[v] = "left"
          /\ vCount'[v] = Cardinality(aViewers'[c])
      BY <1>a, <2>1, <2>2
    <2>4. ASSUME NEW b \in Agents, b # c
          PROVE  \/ aChange'[b] = EventOf(Registered) /\ aViewers'[b] = {}
                 \/ \E w \in Viewers :
                      /\ vAgent'[w] = b
                      /\ \/ aChange'[b] = <<"viewer_joined", w>> /\ vPC'[w] \in {"joining", "running", "leaving"}
                         \/ aChange'[b] = <<"viewer_left", w>> /\ vPC'[w] \in {"left", "done"}
                      /\ AllListed(b)' => vCount'[w] = Cardinality(aViewers'[b])
      <3>1. aChange'[b] = aChange[b] /\ aViewers'[b] = aViewers[b]
        BY <1>a, <2>1, <2>2, <2>4
      <3>2. \A w \in Viewers : vAgent[w] = b => vPC'[w] = vPC[w] /\ vCount'[w] = vCount[w]
        BY <1>a, <2>2, <2>4
      <3>3. AllListed(b)' => AllListed(b)
        BY <2>2, <3>1, <3>2 DEF AllListed
      <3>4. CASE aChange[b] = EventOf(Registered) /\ aViewers[b] = {}
        BY <3>1, <3>4
      <3>5. ASSUME NEW w \in Viewers, vAgent[w] = b,
                   \/ aChange[b] = <<"viewer_joined", w>> /\ vPC[w] \in {"joining", "running", "leaving"}
                   \/ aChange[b] = <<"viewer_left", w>> /\ vPC[w] \in {"left", "done"},
                   AllListed(b) => vCount[w] = Cardinality(aViewers[b])
            PROVE  /\ vAgent'[w] = b
                   /\ \/ aChange'[b] = <<"viewer_joined", w>> /\ vPC'[w] \in {"joining", "running", "leaving"}
                      \/ aChange'[b] = <<"viewer_left", w>> /\ vPC'[w] \in {"left", "done"}
                   /\ AllListed(b)' => vCount'[w] = Cardinality(aViewers'[b])
        BY <2>2, <3>1, <3>2, <3>3, <3>5
      <3>6. QED
        BY <3>4, <3>5 DEF ChangeCounts
    <2>5. QED
      BY <2>3, <2>4 DEF ChangeCounts
  <1>5. ASSUME NEW v \in Viewers,
               \/ ViewerRefused(v) \/ ViewerAnnounce(v) \/ ViewerReadFails(v) \/ ViewerAnnounceLeft(v)
               \/ \E d \in Devices : ViewerConnect(v, d)
        PROVE  ChangeCounts'
    <2>1. /\ UNCHANGED <<aChange, aViewers, vCount>>
          /\ \A w \in Viewers : w # v => vPC'[w] = vPC[w] /\ vAgent'[w] = vAgent[w]
          /\ \/ vPC[v] = "none"  \* bound to no agent yet
             \/ vAgent'[v] = vAgent[v] /\ \/ vPC[v] = "joining" /\ vPC'[v] = "running"
                                          \/ vPC[v] = "running" /\ vPC'[v] = "leaving"
                                          \/ vPC[v] = "left" /\ vPC'[v] = "done"
      BY <1>a, <1>5 DEF ViewerRefused, ViewerAnnounce, ViewerReadFails, ViewerAnnounceLeft,
                        ViewerConnect, agentVars, countVars
    <2>2. \A b \in Agents : AllListed(b)' => AllListed(b)
      BY <1>a, <2>1 DEF AllListed
    <2>3. QED
      BY <1>a, <2>1, <2>2 DEF ChangeCounts
  <1>6. ASSUME NEW v \in Viewers, ViewerDeliver(v) \/ ViewerWriterStops(v) \/ \E k \in ViewerKinds : ViewerSignal(v, k)
        PROVE  UNCHANGED <<aChange, aViewers, vAgent, vPC, vCount>>
    BY <1>6 DEF ViewerDeliver, ViewerWriterStops, ViewerSignal, viewerVars, agentVars, countVars
  <1>7. CASE UNCHANGED vars
    BY <1>b, <1>7 DEF vars
  <1>8. QED
    BY <1>b, <1>1, <1>2, <1>3, <1>4, <1>5, <1>6, <1>7 DEF Next, ViewerHandler

\* Once nothing is under way, the agent knows the number of its viewers if it
\* has heard the last event: for any number of viewers that join, leave and are
\* rejected at once, whatever the channel drops and however counts overtake.
THEOREM CountsSettle == Spec => []CountSettles
  <1>1. Init => CountInv
    BY DEF Init, CountInv, ChangeCounts, EventsCarryCounts, Counted, Registered
  <1>2. RelayInv /\ CountInv /\ [Next]_vars => CountInv'
    BY CountsStayCarried, ChangesStayCounted DEF CountInv
  <1>3. RelayInv /\ CountInv => CountSettles
    <2> SUFFICES ASSUME RelayInv, CountInv, NEW a \in Agents, Settled(a), EventOf(aTold[a]) = aChange[a]
                 PROVE  aTold[a].count = Cardinality(aViewers[a])
      BY DEF CountSettles
    <2>1. AllListed(a)
      BY DEF Settled, AllListed
    <2>2. Counted(aTold[a])
      BY DEF CountInv, EventsCarryCounts
    <2>3. CASE aChange[a] = EventOf(Registered) /\ aViewers[a] = {}
      <3>1. aTold[a].type = "registered"
        BY <2>3 DEF EventOf, Registered
      <3>2. QED
        BY <2>2, <2>3, <3>1, FS_EmptySet DEF Counted
    <2>4. ASSUME NEW v \in Viewers, vAgent[v] = a,
                 \/ aChange[a] = <<"viewer_joined", v>> /\ vPC[v] \in {"joining", "running", "leaving"}
                 \/ aChange[a] = <<"viewer_left", v>> /\ vPC[v] \in {"left", "done"},
                 AllListed(a) => vCount[v] = Cardinality(aViewers[a])
          PROVE  aTold[a].count = Cardinality(aViewers[a])
      <3>1. /\ aTold[a].viewer = v
            /\ \/ aTold[a].type = "viewer_joined" /\ vPC[v] \in {"joining", "running", "leaving"}
               \/ aTold[a].type = "viewer_left"
        BY <2>4 DEF EventOf
      <3>2. aTold[a].count = vCount[v]
        BY <2>2, <3>1 DEF Counted
      <3>3. QED
        BY <2>1, <2>4, <3>2
    <2>5. QED
      BY <2>3, <2>4 DEF CountInv, ChangeCounts
  <1>4. QED
    BY <1>1, <1>2, <1>3, RelayInvariant, PTL DEF Spec

------------------------------------------------------------------------------
(* What an agent hears of a viewer, in order.                              *)

\* The last viewer event is one, or none was heard yet.
ToldEvents ==
    \A a \in Agents : /\ aTold[a].type \in AgentEvents
                      /\ aTold[a].type = "registered" => aTold[a].viewer = None

\* A message is appended or dropped, and only for its agent.
LEMMA ToAgentAppends ==
    ASSUME TypeOK, NEW a, NEW m, ToAgent(a, m), NEW b \in Agents
    PROVE  aSend'[b] = aSend[b] \/ (b = a /\ aSend'[b] = Append(aSend[b], m))
  <1>1. aSend'[b] = aSend[b] \/ (b = a /\ aSend'[b] = Offer(aSend[b], AgentCap, m))
    BY DEF ToAgent, TypeOK
  <1>2. QED
    BY <1>1 DEF Offer

\* What is heard and queued stays in order if the message may come after all of it.
LEMMA OrderAppended ==
    ASSUME TypeOK, SilentOnceLeft, UNCHANGED aTold, NEW a, NEW m, ToAgent(a, m),
           \A b \in Agents : b = a => /\ InOrder(aTold[b], m)
                                      /\ \A i \in DOMAIN aSend[b] : InOrder(aSend[b][i], m)
    PROVE  SilentOnceLeft'
  <1> SUFFICES ASSUME NEW b \in Agents, NEW i \in DOMAIN aSend'[b]
               PROVE  /\ InOrder(aTold[b], aSend'[b][i])
                      /\ \A j \in DOMAIN aSend'[b] : i < j => InOrder(aSend'[b][i], aSend'[b][j])
    BY DEF SilentOnceLeft, InOrder
  <1>1. CASE aSend'[b] = aSend[b]
    BY <1>1 DEF SilentOnceLeft
  <1>2. CASE b = a /\ aSend'[b] = Append(aSend[b], m)
    <2>1. PICK s \in Seq(AgentMsg) : s = aSend[b]
      BY DEF TypeOK
    <2>2. /\ DOMAIN aSend'[b] = 1 .. Len(s) + 1 /\ DOMAIN s = 1 .. Len(s) /\ Len(s) \in Nat
          /\ aSend'[b][Len(s) + 1] = m
          /\ \A j \in 1 .. Len(s) : aSend'[b][j] = s[j]
      BY <1>2, <2>1
    <2>3. \A j \in DOMAIN aSend'[b] : \/ j \in DOMAIN s /\ aSend'[b][j] = s[j]
                                      \/ j = Len(s) + 1 /\ aSend'[b][j] = m
      BY <2>2
    <2>4. \A k \in DOMAIN s : InOrder(aTold[b], s[k]) /\ \A j \in DOMAIN s : k < j => InOrder(s[k], s[j])
      BY <2>1 DEF SilentOnceLeft
    <2>5. InOrder(aTold[b], m) /\ \A k \in DOMAIN s : InOrder(s[k], m)
      BY <1>2, <2>1
    <2>6. InOrder(aTold[b], aSend'[b][i])
      BY <2>3, <2>4, <2>5
    <2>7. ASSUME NEW j \in DOMAIN aSend'[b], i < j PROVE InOrder(aSend'[b][i], aSend'[b][j])
      <3>1. i \in DOMAIN s /\ aSend'[b][i] = s[i]
        BY <2>2, <2>7
      <3>2. QED
        BY <2>3, <2>4, <2>5, <2>7, <3>1
    <2>8. QED
      BY <2>6, <2>7
  <1>3. QED
    BY <1>1, <1>2, ToAgentAppends

\* What is taken from the front was in order before the rest of it.
LEMMA OrderTaken ==
    ASSUME TypeOK, SilentOnceLeft, NEW a \in Agents, AgentDeliver(a)
    PROVE  SilentOnceLeft'
  <1> SUFFICES ASSUME NEW b \in Agents, NEW i \in DOMAIN aSend'[b]
               PROVE  /\ InOrder(aTold'[b], aSend'[b][i])
                      /\ \A j \in DOMAIN aSend'[b] : i < j => InOrder(aSend'[b][i], aSend'[b][j])
    BY DEF SilentOnceLeft, InOrder
  <1>1. /\ aSend[a] # <<>> /\ aSend' = [aSend EXCEPT ![a] = Tail(@)]
        /\ \A c \in Agents : aTold'[c] = aTold[c] \/ (c = a /\ aTold'[c] = Head(aSend[a]))
    BY DEF AgentDeliver, TypeOK
  <1>2. CASE b # a
    <2>1. aSend'[b] = aSend[b] /\ aTold'[b] = aTold[b]
      BY <1>1, <1>2 DEF TypeOK
    <2>2. QED
      BY <2>1 DEF SilentOnceLeft
  <1>3. CASE b = a
    <2>1. PICK s \in Seq(AgentMsg) : s = aSend[a]
      BY DEF TypeOK
    <2>2. s # <<>> /\ aSend'[b] = Tail(s)
      BY <1>1, <1>3, <2>1 DEF TypeOK
    <2>3. Head(s) = s[1] /\ 1 \in DOMAIN s
      BY <2>1, <2>2
    <2>4. \A j \in DOMAIN aSend'[b] : j \in Nat /\ j >= 1 /\ j + 1 \in DOMAIN s /\ aSend'[b][j] = s[j + 1]
      BY <2>1, <2>2
    <2>5. \A k \in DOMAIN s : InOrder(aTold[a], s[k]) /\ \A j \in DOMAIN s : k < j => InOrder(s[k], s[j])
      BY <2>1 DEF SilentOnceLeft
    <2>6. InOrder(aTold[a], s[i + 1]) /\ InOrder(s[1], s[i + 1])
      BY <2>3, <2>4, <2>5
    <2>7. InOrder(aTold'[b], aSend'[b][i])
      BY <1>1, <1>3, <2>1, <2>3, <2>4, <2>6
    <2>8. ASSUME NEW j \in DOMAIN aSend'[b], i < j PROVE InOrder(aSend'[b][i], aSend'[b][j])
      <3>1. i + 1 \in DOMAIN s /\ j + 1 \in DOMAIN s /\ i + 1 < j + 1
        BY <2>4, <2>8
      <3>2. QED
        BY <2>4, <2>5, <3>1
    <2>9. QED
      BY <2>7, <2>8
  <1>4. QED
    BY <1>2, <1>3

\* A viewer announces itself once, then speaks, then announces that it left.
LEMMA OrderKept ==
    ASSUME RelayInv, EventsCarryCounts, ToldEvents, SilentOnceLeft, [Next]_vars
    PROVE  SilentOnceLeft'
  <1>a. /\ TypeOK /\ SilentUntilAnnounced
        /\ aTold \in [Agents -> AgentMsg] /\ aSend \in [Agents -> Seq(AgentMsg)]
    BY DEF RelayInv, TypeOK
  <1>b. ASSUME NEW v \in Viewers, vPC[v] \in {"joining", "running", "left"}, NEW p, Counted(p)
        PROVE  p.viewer = v => p.type # "viewer_left"
    BY <1>b DEF Counted
  <1>c. \A b \in Agents : Counted(aTold[b]) /\ \A i \in DOMAIN aSend[b] : Counted(aSend[b][i])
    BY DEF EventsCarryCounts
  <1>d. ASSUME NEW v \in Viewers, NEW a, NEW m, m.viewer = v, m.type # "viewer_joined",
               vPC[v] \in {"running", "left"}, ToAgent(a, m), UNCHANGED aTold
        PROVE  SilentOnceLeft'
    <2>1. \A b \in Agents : InOrder(aTold[b], m) /\ \A i \in DOMAIN aSend[b] : InOrder(aSend[b][i], m)
      BY <1>b, <1>c, <1>d DEF InOrder
    <2>2. QED
      BY <1>a, <1>d, <2>1, OrderAppended
  <1>e. ASSUME UNCHANGED <<aTold, aSend>> PROVE SilentOnceLeft'
    BY <1>e DEF SilentOnceLeft
  <1>1. ASSUME NEW a \in Agents, AgentRegistered(a) PROVE SilentOnceLeft'
    <2>1. ToAgent(a, Registered) /\ UNCHANGED aTold
      BY <1>1 DEF AgentRegistered, countVars
    <2>2. ASSUME NEW p, Counted(p) PROVE InOrder(p, Registered)
      BY <2>2, NoneAssumption DEF InOrder, Counted, Registered
    <2>3. QED
      BY <1>a, <1>c, <2>1, <2>2, OrderAppended
  <1>2. ASSUME NEW a \in Agents, AgentDeliver(a) PROVE SilentOnceLeft'
    BY <1>a, <1>2, OrderTaken
  <1>3. ASSUME NEW a \in Agents, AgentHandler(a) \/ AgentWriterStops(a), ~AgentRegistered(a)
        PROVE  UNCHANGED <<aTold, aSend>>
    BY <1>3 DEF AgentHandler, AgentAuth, AgentAuthFails, AgentPublish, AgentSignal,
                AgentReject, AgentRejectClose, AgentReadFails, AgentNotify, AgentWithdraw, AgentClose,
                AgentWriterStops, agentVars, countVars
  <1>4. ASSUME NEW v \in Viewers, ViewerAnnounce(v) PROVE SilentOnceLeft'
    <2>1. PICK m : m = ViewerEvent("viewer_joined", v, vCount[v])
      OBVIOUS
    <2>2. m.viewer = v /\ m.type = "viewer_joined"
      BY <2>1 DEF ViewerEvent
    <2>3. ToAgent(vAgent[v], m) /\ UNCHANGED aTold /\ vPC[v] = "joining"
      BY <1>4, <2>1 DEF ViewerAnnounce, countVars
    <2>4. \A b \in Agents : aTold[b].viewer # v
      <3> SUFFICES ASSUME NEW b \in Agents, aTold[b].viewer = v PROVE FALSE
        OBVIOUS
      <3>1. aTold[b].type \in {"registered", "viewer_joined", "viewer_left"}
        BY DEF ToldEvents, AgentEvents
      <3>2. aTold[b].type # "registered"
        BY NoneAssumption DEF ToldEvents
      <3>3. QED
        BY <1>c, <2>3, <3>1, <3>2 DEF Counted
    <2>5. \A b \in Agents : \A i \in DOMAIN aSend[b] : aSend[b][i].viewer # v
      BY <1>a, <2>3 DEF SilentUntilAnnounced
    <2>6. \A b \in Agents : InOrder(aTold[b], m) /\ \A i \in DOMAIN aSend[b] : InOrder(aSend[b][i], m)
      BY <2>2, <2>4, <2>5 DEF InOrder
    <2>7. PICK a : a = vAgent[v]
      OBVIOUS
    <2>8. QED
      BY <1>a, <2>3, <2>6, <2>7, OrderAppended
  <1>5. ASSUME NEW v \in Viewers, ViewerAnnounceLeft(v) PROVE SilentOnceLeft'
    <2>1. PICK m : m = ViewerEvent("viewer_left", v, vCount[v])
      OBVIOUS
    <2>2. m.viewer = v /\ m.type # "viewer_joined"
      BY <2>1 DEF ViewerEvent
    <2>3. ToAgent(vAgent[v], m) /\ UNCHANGED aTold /\ vPC[v] = "left"
      BY <1>5, <2>1 DEF ViewerAnnounceLeft, countVars
    <2>4. PICK a : a = vAgent[v]
      OBVIOUS
    <2>5. QED
      BY <1>d, <2>2, <2>3, <2>4
  <1>6. ASSUME NEW v \in Viewers, NEW k \in ViewerKinds, ViewerSignal(v, k) PROVE SilentOnceLeft'
    <2>1. FromViewer(k, v).viewer = v /\ FromViewer(k, v).type # "viewer_joined"
      BY KindsAssumption DEF FromViewer, AgentEvents
    <2>2. ToAgent(vAgent[v], FromViewer(k, v)) /\ UNCHANGED aTold /\ vPC[v] = "running"
      BY <1>6 DEF ViewerSignal, countVars
    <2>3. PICK a : a = vAgent[v]
      OBVIOUS
    <2>4. QED
      BY <1>d, <2>1, <2>2, <2>3
  <1>7. ASSUME NEW v \in Viewers,
               \/ ViewerRefused(v) \/ ViewerAdd(v) \/ ViewerReadFails(v) \/ ViewerRemove(v)
               \/ ViewerDeliver(v) \/ ViewerWriterStops(v) \/ \E d \in Devices : ViewerConnect(v, d)
        PROVE  UNCHANGED <<aTold, aSend>>
    BY <1>7 DEF ViewerRefused, ViewerAdd, ViewerReadFails, ViewerRemove, ViewerDeliver,
                ViewerWriterStops, ViewerConnect, agentVars
  <1>8. CASE UNCHANGED vars
    BY <1>8, <1>e DEF vars
  <1>9. QED
    BY <1>e, <1>1, <1>2, <1>3, <1>4, <1>5, <1>6, <1>7, <1>8 DEF Next, ViewerHandler

\* Only viewer events are told.
LEMMA ToldStay ==
    ASSUME RelayInv, EventsCarryCounts, ToldEvents, [Next]_vars
    PROVE  ToldEvents'
  <1>1. ASSUME UNCHANGED aTold PROVE ToldEvents'
    BY <1>1 DEF ToldEvents
  <1>2. ASSUME NEW a \in Agents, AgentDeliver(a) PROVE ToldEvents'
    <2>1. PICK m : m = Head(aSend[a])
      OBVIOUS
    <2>2. \A b \in Agents : \/ aTold'[b] = aTold[b]
                            \/ aTold'[b] = m /\ m.type \in {"viewer_joined", "viewer_left"}
      BY <1>2, <2>1 DEF AgentDeliver, RelayInv, TypeOK
    <2>3. QED
      BY <2>2 DEF ToldEvents, AgentEvents
  <1>3. ASSUME NEW a \in Agents, AgentHandler(a) \/ AgentWriterStops(a)
        PROVE  UNCHANGED aTold
    BY <1>3 DEF AgentHandler, AgentAuth, AgentAuthFails, AgentPublish, AgentRegistered, AgentSignal,
                AgentReject, AgentRejectClose, AgentReadFails, AgentNotify, AgentWithdraw, AgentClose,
                AgentWriterStops, agentVars, countVars
  <1>4. ASSUME NEW v \in Viewers, ViewerHandler(v) \/ ViewerDeliver(v) \/ ViewerWriterStops(v)
        PROVE  UNCHANGED aTold
    BY <1>4 DEF ViewerHandler, ViewerRefused, ViewerConnect, ViewerAdd, ViewerAnnounce, ViewerSignal,
                ViewerReadFails, ViewerRemove, ViewerAnnounceLeft, ViewerDeliver, ViewerWriterStops,
                agentVars, countVars
  <1>5. CASE UNCHANGED vars
    BY <1>1, <1>5 DEF vars
  <1>6. QED
    BY <1>1, <1>2, <1>3, <1>4, <1>5 DEF Next

\* Whatever the channel drops and however handlers interleave: in what an agent hears
\* of a viewer, viewer_joined comes first and viewer_left last.
THEOREM AgentsHearInOrder == Spec => []ViewersAreHeardInOrder
  <1> DEFINE Inv == CountInv /\ ToldEvents /\ SilentOnceLeft
  <1>1. Init => Inv
    <2> SUFFICES ASSUME Init PROVE Inv
      OBVIOUS
    <2>1. CountInv
      BY DEF Init, CountInv, ChangeCounts, EventsCarryCounts, Counted, Registered
    <2>2. ToldEvents
      BY DEF Init, ToldEvents, Registered, AgentEvents
    <2>3. SilentOnceLeft
      BY DEF Init, SilentOnceLeft
    <2>4. QED
      BY <2>1, <2>2, <2>3
  <1>2. RelayInv /\ Inv /\ [Next]_vars => Inv'
    <2>1. RelayInv /\ CountInv /\ [Next]_vars => CountInv'
      BY CountsStayCarried, ChangesStayCounted DEF CountInv
    <2>2. QED
      BY <2>1, OrderKept, ToldStay DEF CountInv
  <1>3. RelayInv /\ Inv => ViewersAreHeardInOrder
    BY DEF RelayInv, ViewersAreHeardInOrder
  <1>4. QED
    BY <1>1, <1>2, <1>3, RelayInvariant, PTL DEF Spec
------------------------------------------------------------------------------
(* Refinement: the relay implements DeviceDirectory.                       *)

\* A step that moves no connection into or out of the registered phase and
\* touches neither hub nor bindings is a stutter of the directory.
LEMMA DirectoryStutter ==
    ASSUME UNCHANGED <<agents, aID, vAgent>>,
           \A a \in Agents : aPC'[a] \in APCs \ {"none", "verified"}
                              <=> aPC[a] \in APCs \ {"none", "verified"}
    PROVE  UNCHANGED Directory!vars
  BY DEF Directory!vars, Retired

\* The directory starts empty.
LEMMA DirectoryInit == Init => Directory!Init
  BY DEF Init, Directory!Init, Retired

\* Every step of the relay is one of the directory, or none.
LEMMA DirectoryStep ==
    ASSUME RelayInv, [Next]_vars
    PROVE  [Directory!Next]_(Directory!vars)
  <1> DEFINE Goal == [Directory!Next]_(Directory!vars)
  <1>a. TypeOK /\ HandlersBound /\ HubMatchesHandlers
    BY DEF RelayInv
  <1>b. aPC \in [Agents -> APCs] /\ aID \in [Agents -> Devices \cup {None}]
        /\ agents \in [Devices -> Agents \cup {None}]
        /\ vAgent \in [Viewers -> Agents \cup {None}]
    BY <1>a DEF TypeOK
  <1>1. ASSUME NEW a \in Agents, NEW d \in Devices, AgentAuth(a, d) PROVE Goal
    <2>1. Retired' = Retired
      BY <1>1, <1>b DEF AgentAuth, hubVars, Retired, APCs
    <2>2. QED
      BY <1>1, <2>1 DEF AgentAuth, hubVars, viewerVars, Directory!vars
  <1>2. ASSUME NEW a \in Agents, AgentAuthFails(a) PROVE Goal
    <2>1. aID[a] = None
      BY <1>2, <1>a DEF AgentAuthFails, HandlersBound
    <2>2. Retired' = Retired
      BY <1>2, <1>b, <2>1 DEF AgentAuthFails, hubVars, Retired, APCs
    <2>3. QED
      BY <1>2, <2>2 DEF AgentAuthFails, hubVars, viewerVars, Directory!vars
  <1>3. ASSUME NEW a \in Agents, AgentPublish(a) PROVE Goal
    <2> DEFINE d == aID[a]
    <2>1. d \in Devices /\ d # None
      BY <1>3, <1>a, NoneAssumption DEF AgentPublish, HandlersBound
    <2>2. a \notin Retired
      BY <1>3 DEF AgentPublish, Retired
    <2>3. \A e \in Devices : agents[e] # a
      BY <1>3, <1>a, NoneAssumption DEF AgentPublish, HubMatchesHandlers, Serving
    <2>4. agents' = [agents EXCEPT ![d] = a] /\ UNCHANGED <<aID, vAgent>>
          /\ aPC' = [aPC EXCEPT ![a] = "published"]
      BY <1>3 DEF AgentPublish, viewerVars
    <2>5. Retired' = Retired \cup ({agents[d]} \ {None})
      <3>1. ASSUME NEW b \in Agents
            PROVE  b \in Retired' <=> b \in Retired \/ b = agents[d]
        <4>1. CASE b = a
          BY <1>b, <2>1, <2>2, <2>3, <2>4, <4>1 DEF Retired
        <4>2. CASE b # a /\ b = agents[d]
          <5>1. Serving(b) /\ aID[b] = d
            BY <1>a, <2>1, <4>2, NoneAssumption DEF HubMatchesHandlers
          <5>2. QED
            BY <1>b, <2>1, <2>4, <4>2, <5>1 DEF Retired, Serving, APCs
        <4>3. CASE b # a /\ b # agents[d]
          BY <1>b, <2>1, <2>4, <4>3 DEF Retired
        <4>4. QED
          BY <4>1, <4>2, <4>3
      <3>2. agents[d] \in Agents \cup {None}
        BY <1>b, <2>1
      <3>3. QED
        BY <3>1, <3>2, NoneAssumption DEF Retired
    <2>6. Directory!Register(a, d)
      BY <2>2, <2>3, <2>4, <2>5 DEF Directory!Register
    <2>7. QED
      BY <2>1, <2>6 DEF Directory!Next
  <1>4. ASSUME NEW a \in Agents, AgentWithdraw(a) PROVE Goal
    <2> DEFINE d == aID[a]
    <2>1. d \in Devices /\ d # None
      BY <1>4, <1>a, NoneAssumption DEF AgentWithdraw, HandlersBound
    <2>2. agents' = [agents EXCEPT ![d] = IF @ = a THEN None ELSE @] /\ UNCHANGED <<aID, vAgent>>
          /\ aPC' = [aPC EXCEPT ![a] = "close"] /\ aPC[a] = "withdraw"
      BY <1>4 DEF AgentWithdraw, viewerVars
    <2>3. CASE agents[d] = a
      <3>1. ASSUME NEW b \in Agents
            PROVE  b \in Retired' <=> b \in Retired \/ b = a
        <4>1. CASE b = a
          BY <1>b, <2>1, <2>2, <2>3, <4>1, NoneAssumption DEF Retired, APCs
        <4>2. CASE b # a
          BY <1>b, <2>1, <2>2, <2>3, <4>2, NoneAssumption DEF Retired
        <4>3. QED
          BY <4>1, <4>2
      <3>2. Retired' = Retired \cup {a}
        BY <3>1 DEF Retired
      <3>3. Directory!Leave(d)
        BY <2>1, <2>2, <2>3, <3>2, <1>b, NoneAssumption DEF Directory!Leave
      <3>4. QED
        BY <2>1, <3>3 DEF Directory!Next
    <2>4. CASE agents[d] # a
      <3>1. agents' = agents
        BY <1>b, <2>1, <2>2, <2>4
      <3>2. Retired' = Retired
        BY <1>b, <2>2, <3>1 DEF Retired, APCs
      <3>3. QED
        BY <2>2, <3>1, <3>2 DEF Directory!vars
    <2>5. QED
      BY <2>3, <2>4
  <1>5. ASSUME NEW v \in Viewers, NEW d \in Devices, ViewerConnect(v, d) PROVE Goal
    <2>1. vAgent[v] = None
      BY <1>5, <1>a DEF ViewerConnect, HandlersBound
    <2>2. UNCHANGED <<agents, Retired>>
      BY <1>5 DEF ViewerConnect, hubVars, agentVars, Retired
    <2>3. Directory!Bind(v, d)
      BY <1>5, <2>1, <2>2 DEF ViewerConnect, Directory!Bind
    <2>4. QED
      BY <2>3 DEF Directory!Next
  <1> HIDE DEF Goal
  <1>6. ASSUME NEW a \in Agents,
               \/ AgentRegistered(a) \/ AgentRejectClose(a) \/ AgentReadFails(a) \/ AgentNotify(a)
               \/ AgentClose(a) \/ AgentDeliver(a) \/ AgentWriterStops(a)
               \/ \E v \in Viewers : AgentReject(a, v)
               \/ \E v \in Viewers, k \in AgentKinds : AgentSignal(a, v, k)
        PROVE  Goal
    <2>1. UNCHANGED <<agents, aID, vAgent>>
      BY <1>6 DEF AgentRegistered, AgentRejectClose, AgentReadFails, AgentNotify, AgentClose,
                  AgentDeliver, AgentWriterStops, AgentReject, AgentSignal, hubVars, viewerVars,
                  agentVars
    <2>2. \A b \in Agents : aPC'[b] \in APCs \ {"none", "verified"}
                              <=> aPC[b] \in APCs \ {"none", "verified"}
      BY <1>6, <1>b DEF AgentRegistered, AgentRejectClose, AgentReadFails, AgentNotify, AgentClose,
                  AgentDeliver, AgentWriterStops, AgentReject, AgentSignal, agentVars, APCs
    <2>3. QED
      BY <2>1, <2>2, DirectoryStutter DEF Goal
  <1>7. ASSUME NEW v \in Viewers,
               \/ ViewerRefused(v) \/ ViewerAdd(v) \/ ViewerAnnounce(v) \/ ViewerReadFails(v)
               \/ ViewerRemove(v) \/ ViewerAnnounceLeft(v) \/ ViewerDeliver(v) \/ ViewerWriterStops(v)
               \/ \E k \in ViewerKinds : ViewerSignal(v, k)
        PROVE  Goal
    <2>1. UNCHANGED <<agents, aID, vAgent, aPC>>
      BY <1>7 DEF ViewerRefused, ViewerAdd, ViewerAnnounce, ViewerReadFails, ViewerRemove,
                  ViewerAnnounceLeft, ViewerDeliver, ViewerWriterStops, ViewerSignal, hubVars,
                  viewerVars, agentVars
    <2>2. QED
      BY <2>1, DirectoryStutter DEF Goal
  <1>8. CASE UNCHANGED vars
    <2>1. UNCHANGED <<agents, aID, vAgent, aPC>>
      BY <1>8 DEF vars
    <2>2. QED
      BY <2>1, DirectoryStutter DEF Goal
  <1>9. QED
    BY <1>1, <1>2, <1>3, <1>4, <1>5, <1>6, <1>7, <1>8 DEF Next, AgentHandler, ViewerHandler, Goal

\* Every behaviour of the relay is one of the directory: one owner per device,
\* no comeback of a superseded connection, viewers bound once and for all.
THEOREM RelayImplementsDirectory == Spec => ImplementsDirectory
  <1>1. Spec => Directory!Spec
    BY RelayInvariant, DirectoryInit, DirectoryStep, PTL DEF Spec, Directory!Spec
  <1>2. QED
    BY <1>1 DEF ImplementsDirectory
==============================================================================
