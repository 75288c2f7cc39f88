-------------------------------- MODULE Relay --------------------------------
(***************************************************************************)
(* The relay server, server/main.go: the hub's registry of agents, the     *)
(* handler goroutine of every agent and viewer connection, and the send    *)
(* channels and writer goroutines between them.                            *)
(*                                                                         *)
(* An element of Agents is one agent CONNECTION (one *Agent value), an     *)
(* element of Viewers one viewer connection (one *Viewer value); a device  *)
(* that reconnects uses a new element of Agents.  Every critical section   *)
(* under Hub.mu or Agent.mu is one action, and so is every channel         *)
(* operation that other goroutines can observe between two of them.        *)
(***************************************************************************)
EXTENDS Naturals, Sequences, FiniteSets

CONSTANTS
    Devices,        \* device ids
    Agents,         \* agent connections
    Viewers,        \* viewer connections
    AgentKinds,     \* signalling an agent sends to one viewer: key_offer, rtc_offer, rtc_ice_agent
    ViewerKinds,    \* signalling a viewer sends: key_answer, input_enc, rtc_answer, rtc_ice_viewer
    AgentCap,       \* capacity of Agent.send (256 in the code)
    ViewerCap,      \* capacity of Viewer.send (512 in the code)
    None

ASSUME NoneAssumption == None \notin Agents \cup Viewers \cup Devices
ASSUME ViewersAssumption == IsFiniteSet(Viewers)
ASSUME CapAssumption == AgentCap \in Nat \ {0} /\ ViewerCap \in Nat \ {0}

VARIABLES
    agents,     \* Hub.agents
    aPC,        \* where the handler goroutine of an agent connection is
    aID,        \* Agent.id
    aClosed,    \* Agent.closed: the channel Agent.send is closed
    aOpen,      \* the websocket of the agent is open at the relay
    aSend,      \* Agent.send
    aWriter,    \* Agent.writePump
    aViewers,   \* Agent.viewers
    aReject,    \* viewer whose connection the reject_viewer case still has to close
    aTold,      \* the viewer event the remote agent was told last, with its count
    aChange,    \* history: the event that changed Agent.viewers last
    missed,     \* history: viewers whose agent_offline a full channel dropped
    vPC,        \* where the handler goroutine of a viewer connection is
    vAgent,     \* Viewer.agent
    vCount,     \* the local `count` of addViewer and removeViewer
    vOpen,      \* the websocket of the viewer is open at the relay
    vSend,      \* Viewer.send
    vWriter,    \* Viewer.writePump
    vGot        \* history: what ended its session, of what the remote viewer received

hubVars    == <<agents>>
agentVars  == <<aPC, aID, aClosed, aOpen, aSend, aWriter, aViewers, aReject, aTold, aChange, missed>>
countVars  == <<aTold, aChange, missed>>
viewerVars == <<vPC, vAgent, vCount, vOpen, vSend, vWriter, vGot>>
vars       == <<agents, aPC, aID, aClosed, aOpen, aSend, aWriter, aViewers, aReject, aTold,
                aChange, missed, vPC, vAgent, vCount, vOpen, vSend, vWriter, vGot>>

------------------------------------------------------------------------------
(* Messages. `from` is a ghost field: the connection whose handler sent it. *)

AgentEvents == {"registered", "viewer_joined", "viewer_left"}
AgentMsg == [type: AgentEvents \cup ViewerKinds,
             viewer: Viewers \cup {None}, count: Nat]
ViewerMsg == [type: {"connected", "agent_offline", "error"} \cup AgentKinds,
              from: Agents]

\* What tells the remote viewer that its session is over.
Endings == {"agent_offline", "error"}

\* readPump of a viewer forwards only the types that are signalling.
ASSUME KindsAssumption == ViewerKinds \cap AgentEvents = {}

Registered == [type |-> "registered", viewer |-> None, count |-> 0]
ViewerEvent(t, v, n) == [type |-> t, viewer |-> v, count |-> n]
EventOf(m) == <<m.type, m.viewer>>
FromViewer(t, v) == [type |-> t, viewer |-> v, count |-> 0]
ToViewer(t, a) == [type |-> t, from |-> a]

\* A slip in the capacity test of sendJSON.
OverfullOffer(ch, cap, m) == IF Len(ch) <= cap THEN Append(ch, m) ELSE ch

\* sendJSON: never blocks, drops the message when the channel is full.
Offer(ch, cap, m) == IF Len(ch) < cap THEN Append(ch, m) ELSE ch

\* Viewers of a set for whom sendJSON drops the message.
Full(vs) == {v \in vs : Len(vSend[v]) >= ViewerCap}

\* sendJSON on Agent.send: a send on a closed channel panics and is recovered.
ToAgent(a, m) ==
    aSend' = [aSend EXCEPT ![a] = IF aClosed[a] THEN @ ELSE Offer(@, AgentCap, m)]

APCs == {"none", "verified", "published", "running", "rejecting",
         "notify", "withdraw", "close", "done"}
VPCs == {"none", "connecting", "joining", "running", "leaving", "left", "done"}
WriterStates == {"none", "running", "done"}

Init ==
    /\ agents = [d \in Devices |-> None]
    /\ aPC = [a \in Agents |-> "none"]
    /\ aID = [a \in Agents |-> None]
    /\ aClosed = [a \in Agents |-> FALSE]
    /\ aOpen = [a \in Agents |-> FALSE]
    /\ aSend = [a \in Agents |-> <<>>]
    /\ aWriter = [a \in Agents |-> "none"]
    /\ aViewers = [a \in Agents |-> {}]
    /\ aReject = [a \in Agents |-> None]
    /\ aTold = [a \in Agents |-> Registered]
    /\ aChange = [a \in Agents |-> EventOf(Registered)]
    /\ missed = {}
    /\ vPC = [v \in Viewers |-> "none"]
    /\ vAgent = [v \in Viewers |-> None]
    /\ vCount = [v \in Viewers |-> 0]
    /\ vOpen = [v \in Viewers |-> FALSE]
    /\ vSend = [v \in Viewers |-> <<>>]
    /\ vWriter = [v \in Viewers |-> "none"]
    /\ vGot = [v \in Viewers |-> {}]

------------------------------------------------------------------------------
(* What plausible slips in the code would make of some of the operators     *)
(* below: the properties are tried against each of them.                   *)

\* The handler starts reading before addViewer has announced the viewer.
EagerViewerSignal(v, k) ==
    /\ vPC[v] \in {"joining", "running"}
    /\ ToAgent(vAgent[v], FromViewer(k, v))
    /\ UNCHANGED <<hubVars, viewerVars, aPC, aID, aClosed, aOpen, aWriter, aViewers, aReject, countVars>>

\* Signalling goes to whoever serves the device now, not to v.agent.
ReroutedViewerSignal(v, k) ==
    /\ vPC[v] = "running"
    /\ ToAgent(agents[aID[vAgent[v]]], FromViewer(k, v))
    /\ UNCHANGED <<hubVars, viewerVars, aPC, aID, aClosed, aOpen, aWriter, aViewers, aReject, countVars>>

\* removeViewer skips agents that are already closed.
LazyViewerRemove(v) ==
    LET a == vAgent[v]
    IN  /\ vPC[v] = "leaving"
        /\ vPC' = [vPC EXCEPT ![v] = "left"]
        /\ aViewers' = [aViewers EXCEPT ![a] = IF aClosed[a] THEN @ ELSE @ \ {v}]
        /\ vCount' = [vCount EXCEPT ![v] = Cardinality(aViewers[a] \ {v})]
        /\ aChange' = [aChange EXCEPT ![a] = <<"viewer_left", v>>]
        /\ UNCHANGED <<hubVars, aPC, aID, aClosed, aOpen, aSend, aWriter, aReject, aTold, missed,
                       vAgent, vOpen, vSend, vWriter, vGot>>

\* removeViewer counts before it deletes.
EarlyCountViewerRemove(v) ==
    LET a == vAgent[v]
    IN  /\ vPC[v] = "leaving"
        /\ vPC' = [vPC EXCEPT ![v] = "left"]
        /\ aViewers' = [aViewers EXCEPT ![a] = @ \ {v}]
        /\ vCount' = [vCount EXCEPT ![v] = Cardinality(aViewers[a])]
        /\ aChange' = [aChange EXCEPT ![a] = <<"viewer_left", v>>]
        /\ UNCHANGED <<hubVars, aPC, aID, aClosed, aOpen, aSend, aWriter, aReject, aTold, missed,
                       vAgent, vOpen, vSend, vWriter, vGot>>

\* A device that is already registered keeps its first connection.
FirstWinsAgentPublish(a) ==
    /\ aPC[a] = "verified"
    /\ aPC' = [aPC EXCEPT ![a] = "published"]
    /\ agents' = [agents EXCEPT ![aID[a]] = IF @ = None THEN a ELSE @]
    /\ UNCHANGED <<viewerVars, aID, aClosed, aOpen, aSend, aWriter, aViewers, aReject, countVars>>

\* The deferred function deletes the device's entry without `== a`.
BlindAgentWithdraw(a) ==
    /\ aPC[a] = "withdraw"
    /\ aPC' = [aPC EXCEPT ![a] = "close"]
    /\ agents' = [agents EXCEPT ![aID[a]] = None]
    /\ UNCHANGED <<viewerVars, aID, aClosed, aOpen, aSend, aWriter, aViewers, aReject, countVars>>

\* The entry stays while viewers are attached.
ReluctantAgentWithdraw(a) ==
    /\ aPC[a] = "withdraw"
    /\ aPC' = [aPC EXCEPT ![a] = "close"]
    /\ agents' = [agents EXCEPT ![aID[a]] = IF @ = a /\ aViewers[a] = {} THEN None ELSE @]
    /\ UNCHANGED <<viewerVars, aID, aClosed, aOpen, aSend, aWriter, aViewers, aReject, countVars>>

\* Only the connection that still owns the device notifies its viewers.
OwnerOnlyAgentNotify(a) ==
    /\ aPC[a] = "notify"
    /\ aPC' = [aPC EXCEPT ![a] = "withdraw"]
    /\ vSend' = [v \in Viewers |->
                    IF v \in aViewers[a] /\ agents[aID[a]] = a
                    THEN Offer(vSend[v], ViewerCap, ToViewer("agent_offline", a))
                    ELSE vSend[v]]
    /\ missed' = IF agents[aID[a]] = a THEN missed \cup Full(aViewers[a]) ELSE missed
    /\ UNCHANGED <<hubVars, aID, aClosed, aOpen, aSend, aWriter, aViewers, aReject, aTold, aChange,
                   vPC, vAgent, vCount, vOpen, vWriter, vGot>>

------------------------------------------------------------------------------
(* handleAgent and Agent.readPump: one goroutine per agent connection.     *)

\* Challenge sent, auth received, verifyHMAC accepted it.
AgentAuth(a, d) ==
    /\ aPC[a] = "none"
    /\ aPC' = [aPC EXCEPT ![a] = "verified"]
    /\ aID' = [aID EXCEPT ![a] = d]
    /\ aOpen' = [aOpen EXCEPT ![a] = TRUE]
    /\ UNCHANGED <<hubVars, viewerVars, aClosed, aSend, aWriter, aViewers, aReject, countVars>>

\* Any early return before registration: bad message, timeout, wrong HMAC.
AgentAuthFails(a) ==
    /\ aPC[a] = "none"
    /\ aPC' = [aPC EXCEPT ![a] = "done"]
    /\ UNCHANGED <<hubVars, viewerVars, aID, aClosed, aOpen, aSend, aWriter, aViewers, aReject, countVars>>

\* The critical section of handleAgent: old.close(), then the map entry.
AgentPublish(a) ==
    LET d == aID[a]
        old == agents[d]
    IN  /\ aPC[a] = "verified"
        /\ aPC' = [aPC EXCEPT ![a] = "published"]
        /\ agents' = [agents EXCEPT ![d] = a]
        /\ aClosed' = [b \in Agents |-> IF b = old THEN TRUE ELSE aClosed[b]]
        /\ aOpen' = [b \in Agents |-> IF b = old THEN FALSE ELSE aOpen[b]]
        /\ UNCHANGED <<viewerVars, aID, aSend, aWriter, aViewers, aReject, countVars>>

\* After the unlock: sendJSON(registered), go writePump, readPump.
AgentRegistered(a) ==
    /\ aPC[a] = "published"
    /\ aPC' = [aPC EXCEPT ![a] = "running"]
    /\ ToAgent(a, Registered)
    /\ aWriter' = [aWriter EXCEPT ![a] = "running"]
    /\ UNCHANGED <<hubVars, viewerVars, aID, aClosed, aOpen, aViewers, aReject, countVars>>

\* key_offer, rtc_offer, rtc_ice_agent: to the viewer if it is one of a's.
\* A frame already buffered is still read after the socket was closed.
AgentSignal(a, v, k) ==
    /\ aPC[a] = "running"
    /\ v \in aViewers[a]
    /\ vSend' = [vSend EXCEPT ![v] = Offer(@, ViewerCap, ToViewer(k, a))]
    /\ UNCHANGED <<hubVars, agentVars, vPC, vAgent, vCount, vOpen, vWriter, vGot>>

\* reject_viewer: delete under the lock, then queue the error ...
AgentReject(a, v) ==
    /\ aPC[a] = "running"
    /\ v \in aViewers[a]
    /\ aPC' = [aPC EXCEPT ![a] = "rejecting"]
    /\ aViewers' = [aViewers EXCEPT ![a] = @ \ {v}]
    /\ aReject' = [aReject EXCEPT ![a] = v]
    /\ vSend' = [vSend EXCEPT ![v] = Offer(@, ViewerCap, ToViewer("error", a))]
    /\ UNCHANGED <<hubVars, aID, aClosed, aOpen, aSend, aWriter, countVars,
                   vPC, vAgent, vCount, vOpen, vWriter, vGot>>

\* ... and close the viewer's socket.
AgentRejectClose(a) ==
    /\ aPC[a] = "rejecting"
    /\ aPC' = [aPC EXCEPT ![a] = "running"]
    /\ aReject' = [aReject EXCEPT ![a] = None]
    /\ vOpen' = [vOpen EXCEPT ![aReject[a]] = FALSE]
    /\ UNCHANGED <<hubVars, aID, aClosed, aOpen, aSend, aWriter, aViewers, countVars,
                   vPC, vAgent, vCount, vSend, vWriter, vGot>>

\* ReadMessage returns an error: the peer went away, the read deadline passed
\* or somebody at the relay closed the socket.
AgentReadFails(a) ==
    /\ aPC[a] = "running"
    /\ aPC' = [aPC EXCEPT ![a] = "notify"]
    /\ UNCHANGED <<hubVars, viewerVars, aID, aClosed, aOpen, aSend, aWriter, aViewers, aReject, countVars>>

\* Deferred function, first part: agent_offline to every viewer, under RLock.
AgentNotify(a) ==
    /\ aPC[a] = "notify"
    /\ aPC' = [aPC EXCEPT ![a] = "withdraw"]
    /\ vSend' = [v \in Viewers |->
                    IF v \in aViewers[a]
                    THEN Offer(vSend[v], ViewerCap, ToViewer("agent_offline", a))
                    ELSE vSend[v]]
    /\ missed' = missed \cup Full(aViewers[a])
    /\ UNCHANGED <<hubVars, aID, aClosed, aOpen, aSend, aWriter, aViewers, aReject, aTold, aChange,
                   vPC, vAgent, vCount, vOpen, vWriter, vGot>>

\* Second part: leave the hub, unless a newer connection has the entry.
AgentWithdraw(a) ==
    /\ aPC[a] = "withdraw"
    /\ aPC' = [aPC EXCEPT ![a] = "close"]
    /\ agents' = [agents EXCEPT ![aID[a]] = IF @ = a THEN None ELSE @]
    /\ UNCHANGED <<viewerVars, aID, aClosed, aOpen, aSend, aWriter, aViewers, aReject, countVars>>

\* Third part: a.close().
AgentClose(a) ==
    /\ aPC[a] = "close"
    /\ aPC' = [aPC EXCEPT ![a] = "done"]
    /\ aClosed' = [aClosed EXCEPT ![a] = TRUE]
    /\ aOpen' = [aOpen EXCEPT ![a] = FALSE]
    /\ UNCHANGED <<hubVars, viewerVars, aID, aSend, aWriter, aViewers, aReject, countVars>>

------------------------------------------------------------------------------
(* Agent.writePump, with the remote agent's handling of the counts.        *)

AgentDeliver(a) ==
    LET m == Head(aSend[a])
    IN  /\ aWriter[a] = "running"
        /\ aOpen[a]
        /\ aSend[a] # <<>>
        /\ aSend' = [aSend EXCEPT ![a] = Tail(@)]
        /\ aTold' = [aTold EXCEPT ![a] =
                        IF m.type \in {"viewer_joined", "viewer_left"} THEN m ELSE @]
        /\ UNCHANGED <<hubVars, viewerVars, aPC, aID, aClosed, aOpen, aWriter, aViewers, aReject,
                       aChange, missed>>

\* A write or ping fails, or the channel is closed: return, closing the socket.
AgentWriterStops(a) ==
    /\ aWriter[a] = "running"
    /\ aWriter' = [aWriter EXCEPT ![a] = "done"]
    /\ aOpen' = [aOpen EXCEPT ![a] = FALSE]
    /\ UNCHANGED <<hubVars, viewerVars, aPC, aID, aClosed, aSend, aViewers, aReject, countVars>>

------------------------------------------------------------------------------
(* handleViewer and Viewer.readPump: one goroutine per viewer connection.  *)

\* No such device, wrong password, bad message or timeout: replyErr, close.
ViewerRefused(v) ==
    /\ vPC[v] = "none"
    /\ vPC' = [vPC EXCEPT ![v] = "done"]
    /\ UNCHANGED <<hubVars, agentVars, vAgent, vCount, vOpen, vSend, vWriter, vGot>>

\* Look the device up under RLock, accept the password, queue `connected`.
\* The agent found here may be gone before the viewer is added to it.
ViewerConnect(v, d) ==
    /\ vPC[v] = "none"
    /\ agents[d] # None
    /\ vPC' = [vPC EXCEPT ![v] = "connecting"]
    /\ vAgent' = [vAgent EXCEPT ![v] = agents[d]]
    /\ vOpen' = [vOpen EXCEPT ![v] = TRUE]
    /\ vSend' = [vSend EXCEPT ![v] = Offer(<<>>, ViewerCap, ToViewer("connected", agents[d]))]
    /\ UNCHANGED <<hubVars, agentVars, vCount, vWriter, vGot>>

\* addViewer, the critical section under Agent.mu.
ViewerAdd(v) ==
    LET a == vAgent[v]
    IN  /\ vPC[v] = "connecting"
        /\ vPC' = [vPC EXCEPT ![v] = "joining"]
        /\ aViewers' = [aViewers EXCEPT ![a] = @ \cup {v}]
        /\ vCount' = [vCount EXCEPT ![v] = Cardinality(aViewers[a] \cup {v})]
        /\ aChange' = [aChange EXCEPT ![a] = <<"viewer_joined", v>>]
        /\ UNCHANGED <<hubVars, aPC, aID, aClosed, aOpen, aSend, aWriter, aReject, aTold, missed,
                       vAgent, vOpen, vSend, vWriter, vGot>>

\* addViewer after the unlock, then go writePump, readPump.
ViewerAnnounce(v) ==
    /\ vPC[v] = "joining"
    /\ vPC' = [vPC EXCEPT ![v] = "running"]
    /\ ToAgent(vAgent[v], ViewerEvent("viewer_joined", v, vCount[v]))
    /\ vWriter' = [vWriter EXCEPT ![v] = "running"]
    /\ UNCHANGED <<hubVars, aPC, aID, aClosed, aOpen, aWriter, aViewers, aReject, countVars,
                   vAgent, vCount, vOpen, vSend, vGot>>

\* key_answer, input_enc, rtc_answer, rtc_ice_viewer: to the viewer's agent.
ViewerSignal(v, k) ==
    /\ vPC[v] = "running"
    /\ ToAgent(vAgent[v], FromViewer(k, v))
    /\ UNCHANGED <<hubVars, viewerVars, aPC, aID, aClosed, aOpen, aWriter, aViewers, aReject, countVars>>

ViewerReadFails(v) ==
    /\ vPC[v] = "running"
    /\ vPC' = [vPC EXCEPT ![v] = "leaving"]
    /\ UNCHANGED <<hubVars, agentVars, vAgent, vCount, vOpen, vSend, vWriter, vGot>>

\* removeViewer, the critical section under Agent.mu.
ViewerRemove(v) ==
    LET a == vAgent[v]
    IN  /\ vPC[v] = "leaving"
        /\ vPC' = [vPC EXCEPT ![v] = "left"]
        /\ aViewers' = [aViewers EXCEPT ![a] = @ \ {v}]
        /\ vCount' = [vCount EXCEPT ![v] = Cardinality(aViewers[a] \ {v})]
        /\ aChange' = [aChange EXCEPT ![a] = <<"viewer_left", v>>]
        /\ UNCHANGED <<hubVars, aPC, aID, aClosed, aOpen, aSend, aWriter, aReject, aTold, missed,
                       vAgent, vOpen, vSend, vWriter, vGot>>

\* removeViewer after the unlock, then v.conn.Close().
ViewerAnnounceLeft(v) ==
    /\ vPC[v] = "left"
    /\ vPC' = [vPC EXCEPT ![v] = "done"]
    /\ ToAgent(vAgent[v], ViewerEvent("viewer_left", v, vCount[v]))
    /\ vOpen' = [vOpen EXCEPT ![v] = FALSE]
    /\ UNCHANGED <<hubVars, aPC, aID, aClosed, aOpen, aWriter, aViewers, aReject, countVars,
                   vAgent, vCount, vSend, vWriter, vGot>>

\* Viewer.writePump: one message to the remote viewer.
ViewerDeliver(v) ==
    /\ vWriter[v] = "running"
    /\ vOpen[v]
    /\ vSend[v] # <<>>
    /\ vSend' = [vSend EXCEPT ![v] = Tail(@)]
    /\ vGot' = [vGot EXCEPT ![v] = @ \cup ({Head(vSend[v]).type} \cap Endings)]
    /\ UNCHANGED <<hubVars, agentVars, vPC, vAgent, vCount, vOpen, vWriter>>

\* A write or ping fails: return, closing the socket.
ViewerWriterStops(v) ==
    /\ vWriter[v] = "running"
    /\ vWriter' = [vWriter EXCEPT ![v] = "done"]
    /\ vOpen' = [vOpen EXCEPT ![v] = FALSE]
    /\ UNCHANGED <<hubVars, agentVars, vPC, vAgent, vCount, vSend, vGot>>

------------------------------------------------------------------------------
AgentHandler(a) ==
    \/ \E d \in Devices : AgentAuth(a, d)
    \/ AgentAuthFails(a)
    \/ AgentPublish(a)
    \/ AgentRegistered(a)
    \/ \E v \in Viewers, k \in AgentKinds : AgentSignal(a, v, k)
    \/ \E v \in Viewers : AgentReject(a, v)
    \/ AgentRejectClose(a)
    \/ AgentReadFails(a)
    \/ AgentNotify(a)
    \/ AgentWithdraw(a)
    \/ AgentClose(a)

ViewerHandler(v) ==
    \/ ViewerRefused(v)
    \/ \E d \in Devices : ViewerConnect(v, d)
    \/ ViewerAdd(v)
    \/ ViewerAnnounce(v)
    \/ \E k \in ViewerKinds : ViewerSignal(v, k)
    \/ ViewerReadFails(v)
    \/ ViewerRemove(v)
    \/ ViewerAnnounceLeft(v)

Next ==
    \/ \E a \in Agents : AgentHandler(a) \/ AgentDeliver(a) \/ AgentWriterStops(a)
    \/ \E v \in Viewers : ViewerHandler(v) \/ ViewerDeliver(v) \/ ViewerWriterStops(v)

Spec == Init /\ [][Next]_vars

(***************************************************************************)
(* Fairness of the handler goroutines only: a goroutine that can run, runs *)
(* (the Go scheduler), and ReadMessage fails once the socket is closed.    *)
(* Peers may stay silent or stop reading for ever, so nothing is assumed   *)
(* of the signalling steps or of the writer goroutines.                    *)
(***************************************************************************)
AgentHandlerRuns(a) ==
    \/ AgentPublish(a) \/ AgentRegistered(a) \/ AgentRejectClose(a)
    \/ AgentNotify(a) \/ AgentWithdraw(a) \/ AgentClose(a)
    \/ AgentReadFails(a) /\ ~aOpen[a]

ViewerHandlerRuns(v) ==
    \/ ViewerAdd(v) \/ ViewerAnnounce(v) \/ ViewerRemove(v) \/ ViewerAnnounceLeft(v)
    \/ ViewerReadFails(v) /\ ~vOpen[v]

Fairness ==
    /\ \A a \in Agents : WF_vars(AgentHandlerRuns(a))
    /\ \A v \in Viewers : WF_vars(ViewerHandlerRuns(v))

FairSpec == Spec /\ Fairness

------------------------------------------------------------------------------
(* Invariants.                                                             *)

\* Types of all variables; the channels never exceed their capacities.
TypeOK ==
    /\ agents \in [Devices -> Agents \cup {None}]
    /\ aPC \in [Agents -> APCs]
    /\ aID \in [Agents -> Devices \cup {None}]
    /\ aClosed \in [Agents -> BOOLEAN]
    /\ aOpen \in [Agents -> BOOLEAN]
    /\ aSend \in [Agents -> Seq(AgentMsg)]
    /\ \A a \in Agents : Len(aSend[a]) <= AgentCap
    /\ aWriter \in [Agents -> WriterStates]
    /\ aViewers \in [Agents -> SUBSET Viewers]
    /\ aReject \in [Agents -> Viewers \cup {None}]
    /\ aTold \in [Agents -> AgentMsg]
    /\ aChange \in [Agents -> AgentEvents \X (Viewers \cup {None})]
    /\ missed \subseteq Viewers
    /\ vPC \in [Viewers -> VPCs]
    /\ vAgent \in [Viewers -> Agents \cup {None}]
    /\ vCount \in [Viewers -> Nat]
    /\ vOpen \in [Viewers -> BOOLEAN]
    /\ vSend \in [Viewers -> Seq(ViewerMsg)]
    /\ \A v \in Viewers : Len(vSend[v]) <= ViewerCap
    /\ vWriter \in [Viewers -> WriterStates]
    /\ vGot \in [Viewers -> SUBSET Endings]

Serving(a) == aPC[a] \in {"published", "running", "rejecting", "notify", "withdraw"}

\* A registered connection that nobody closed is the hub's entry for its
\* device until it withdraws itself: a reconnect and the late clean-up of the
\* connection it replaced never leave a live agent unreachable for viewers,
\* and two live connections never serve one device (handleAgent, readPump).
LiveAgentIsReachable ==
    \A a \in Agents : Serving(a) /\ ~aClosed[a] => agents[aID[a]] = a

\* Signalling crosses between no two sessions: whatever is queued for an agent
\* comes from a viewer bound to that very connection, and whatever is queued
\* for a viewer comes from the connection the viewer is bound to, across
\* replacement of the agent (the lookups in both readPumps).
SignallingIsIsolated ==
    /\ \A a \in Agents : \A i \in DOMAIN aSend[a] :
         aSend[a][i].viewer # None => vAgent[aSend[a][i].viewer] = a
    /\ \A v \in Viewers : \A i \in DOMAIN vSend[v] : vSend[v][i].from = vAgent[v]

\* Nothing of a viewer is queued for any agent before the agent was told that
\* the viewer joined: the remote agent never sees an answer, input or a
\* viewer_left of a session it did not open (order in handleViewer).
SilentUntilAnnounced ==
    \A v \in Viewers : vPC[v] \in {"none", "connecting", "joining"} =>
        \A a \in Agents : \A i \in DOMAIN aSend[a] : aSend[a][i].viewer # v

InOrder(m, n) ==    \* n may come after m
    m.viewer = n.viewer => m.type # "viewer_left" /\ n.type # "viewer_joined"

\* Nothing of a viewer follows its viewer_left, and its viewer_joined follows nothing
\* of it, in the channel and from what the agent was told on.
SilentOnceLeft ==
    \A a \in Agents : \A i \in DOMAIN aSend[a] :
        /\ InOrder(aTold[a], aSend[a][i])
        /\ \A j \in DOMAIN aSend[a] : i < j => InOrder(aSend[a][i], aSend[a][j])

\* An agent hears of a viewer that it joined, then its signalling, then that it left,
\* but for what the full channel drops: it never opens a session for a viewer that is
\* gone, nor gets an input for one it has closed, although the map changes before and
\* after these events (handleViewer, its readPump, removeViewer).  AgentCore relies on it.
ViewersAreHeardInOrder == SilentUntilAnnounced /\ SilentOnceLeft

\* Agent.viewers holds no viewer whose handler has ended, and none that is
\* bound to another connection: no entry leaks, whichever of reject_viewer,
\* agent loss and viewer loss comes first (addViewer, removeViewer).
NoGhostViewers ==
    \A a \in Agents : \A v \in aViewers[a] :
        vAgent[v] = a /\ vPC[v] \in {"joining", "running", "leaving"}

------------------------------------------------------------------------------
(* The abstract specification this server implements.                      *)

Retired == {a \in Agents :
    /\ aPC[a] \in APCs \ {"none", "verified"}
    /\ aID[a] # None
    /\ agents[aID[a]] # a}

Directory == INSTANCE DeviceDirectory
    WITH owner <- agents, retired <- Retired, session <- vAgent

\* The relay implements the directory: one owner per device, no comeback of a
\* replaced connection, viewers bound once to the owner they looked up.
ImplementsDirectory == Directory!Spec

------------------------------------------------------------------------------
(* Liveness: what the handlers achieve whatever the peers do.              *)

\* A device whose connection is closed does not stay listed as online: the
\* entry goes or is replaced, even if no peer ever reads its messages
\* (sendJSON never blocks a handler).
DeadAgentLeavesHub ==
    \A a \in Agents, d \in Devices :
        (agents[d] = a /\ ~aOpen[a]) ~> agents[d] # a

\* A viewer whose socket was closed, by a rejection or by its own writer,
\* leaves every agent's viewer map.
ClosedViewerLeavesAgent ==
    \A v \in Viewers :
        (vPC[v] = "running" /\ ~vOpen[v]) ~> (\A a \in Agents : v \notin aViewers[a])

\* A connection that is dead leaves the maps of the others, on both sides of the
\* relay: the hub forgets the agent (Agent.readPump's deferred function) and the
\* agents forget the viewer (removeViewer), whatever the peers do.
DeadConnectionsDisappear == DeadAgentLeavesHub /\ ClosedViewerLeavesAgent

Knows(v, t) == t \in vGot[v] \/ \E i \in DOMAIN vSend[v] : vSend[v][i].type = t

\* A viewer in the map of a serving agent whose socket is closed (lost or
\* replaced by a reconnect) is told agent_offline unless it leaves first, or
\* its channel is full at that very moment: sendJSON then drops the notice
\* (server/main.go:745-751) and nothing repeats it.
MembersHearOffline ==
    \A v \in Viewers :
        (/\ vAgent[v] # None
         /\ v \in aViewers[vAgent[v]]
         /\ aPC[vAgent[v]] \in {"published", "running", "rejecting", "notify"}
         /\ ~aOpen[vAgent[v]])
            ~> \/ \A a \in Agents : v \notin aViewers[a]
               \/ Knows(v, "agent_offline") \/ v \in missed

------------------------------------------------------------------------------
(* What the code's comments promise and its interleavings do not keep.     *)

\* "Notify all viewers that agent went offline" (server/main.go:327): when an
\* agent's handler has ended, every viewer it still serves has been told.
EveryViewerHearsOffline ==
    \A v \in Viewers : vPC[v] = "running" /\ vOpen[v] /\ aPC[vAgent[v]] = "done"
        => Knows(v, "agent_offline") \/ Knows(v, "error")

\* No viewer event is under way: none half done, none queued.
Settled(a) ==
    /\ aPC[a] = "running" /\ aOpen[a] /\ aSend[a] = <<>>
    /\ \A v \in Viewers : vAgent[v] = a => vPC[v] \in {"connecting", "running", "done"}
    /\ \A v \in Viewers : vAgent[v] = a /\ vPC[v] = "running" => v \in aViewers[a]

\* Once no viewer event is under way, the viewer_count the agent was told last
\* is the number of viewers the server has for it, if what it was told last is
\* the event that came last: a count is wrong only after events that overtook
\* each other between Agent.mu and Agent.send, or after one the full channel
\* dropped (addViewer, removeViewer, reject_viewer, sendJSON).
CountSettles ==
    \A a \in Agents : Settled(a) /\ EventOf(aTold[a]) = aChange[a]
        => aTold[a].count = Cardinality(aViewers[a])
==============================================================================
