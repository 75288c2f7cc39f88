-------------------------- MODULE BrowserSessionProofs --------------------------
(***************************************************************************)
(* One session lives, and inputs reach the machine on the screen, for any  *)
(* number of connects and inputs.                                          *)
(***************************************************************************)
EXTENDS BrowserSession, FiniteSetTheorems, TLAPS

SockStates  == {"none", "connecting", "open", "failing", "closing", "closed"}
StageStates == {"none", "asked", "accepted", "keyed", "offered"}
KxStates    == {"none", "deriving", "exporting", "done", "failed"}
RtcStates   == {"none", "remote", "local", "answered", "failed"}
PeerStates  == {"none", "new", "live", "failed", "closed"}
ChanStates  == [Labels -> {"none", "open", "closed"}]
Ciphers     == [n: 1..MaxInputs, key: Sessions, made: Sessions, to: Refs]

\* The parts of TypeOK.
RefTypes ==
    /\ attempt \in Refs
    /\ ws \in Refs /\ pc \in Refs /\ e2ee \in Refs /\ inputDC \in Refs /\ inputMoveDC \in Refs
    /\ videoStream \in Refs /\ error \in Refs
    /\ state \in {"idle", "connecting", "connected", "error"} /\ mounted \in BOOLEAN

SocketTypes ==
    /\ sock \in [Sessions -> SockStates]
    /\ stage \in [Sessions -> StageStates]
    /\ sent \in [Sessions -> SUBSET {"key_answer", "rtc_answer"}]
    /\ lost \subseteq Sessions /\ late \subseteq Sessions

PeerTypes ==
    /\ kx \in [Sessions -> KxStates] /\ rtc \in [Sessions -> RtcStates]
    /\ peer \in [Sessions -> PeerStates]
    /\ chan \in [Sessions -> ChanStates]
    /\ strays \subseteq Sessions

InputTypes ==
    /\ made \in 0 .. MaxInputs
    /\ flight \subseteq Ciphers
    /\ got \in Seq(Input)
    /\ IsFiniteSet(flight) /\ Len(got) + Cardinality(flight) <= made

\* Shown is only what has begun, and a session that has not begun has no trace.
Begun ==
    /\ ws \in {Null, attempt}
    /\ pc <= attempt /\ e2ee <= attempt /\ inputDC <= attempt /\ inputMoveDC <= attempt
    /\ \A s \in Sessions : s > attempt => /\ sock[s] = "none" /\ stage[s] = "none"
                                          /\ kx[s] = "none" /\ rtc[s] = "none"
                                          /\ peer[s] = "none"

\* Nothing was asked on a socket before it opened.
UnopenedIsUnasked ==
    \A s \in Sessions : sock[s] \in {"connecting", "failing"} => stage[s] = "none" /\ kx[s] = "none"

\* The key of the last session stays while its socket is open, unless that of an
\* earlier one comes late.
KeyKept ==
    /\ lost = {} /\ attempt # Null
    /\ sock[attempt] = "open" /\ kx[attempt] \in {"exporting", "done"}
    => e2ee = attempt \/ e2ee \in late

\* A sealed input is sealed with the key of its session or an earlier one, and goes out
\* on the socket of its session or a later one; what opens it is one of both.
SealedInOrder ==
    \A c \in flight : /\ c.key <= c.made /\ c.made <= attempt
                      /\ c.to # Null => c.made <= c.to

Types == RefTypes /\ SocketTypes /\ PeerTypes /\ InputTypes

SessionInv ==
    /\ Types /\ Begun /\ UnopenedIsUnasked
    /\ OnlyTheAttemptLives /\ ScreenIsOfOneSession /\ ErrorIsOwnOrLate
    /\ KeyKept /\ SealedInOrder /\ InputsOfTheScreen

------------------------------------------------------------------------------
\* The parts give the type invariant of the module.
LEMMA TypesAreTypeOK == Types => TypeOK
<1> SUFFICES ASSUME Types PROVE TypeOK
      OBVIOUS
<1>1. {ws, pc, e2ee, inputDC, inputMoveDC, videoStream, error} \subseteq Refs
      BY DEF Types, RefTypes
<1>2. Len(got) <= MaxInputs
  <2>1. Cardinality(flight) \in Nat
        BY FS_CardinalityType DEF Types, InputTypes
  <2> QED
        BY <2>1, BoundsAssumption DEF Types, InputTypes
<1> QED
      BY <1>1, <1>2 DEF TypeOK, Types, RefTypes, SocketTypes, PeerTypes, InputTypes, SockStates,
         StageStates, KxStates, RtcStates, PeerStates, ChanStates, Ciphers

\* close() leaves no live socket, and touches no other.
LEMMA SocketClosed ==
    ASSUME sock \in [Sessions -> SockStates], NEW r \in Refs, NEW f, f = CloseSocket(r)
    PROVE  /\ f \in [Sessions -> SockStates]
           /\ \A t \in Sessions : t # r => f[t] = sock[t]
           /\ \A t \in Sessions : t = r => f[t] \notin {"connecting", "open"}
           /\ \A t \in Sessions : f[t] \in {"connecting", "open"} => f[t] = sock[t]
           /\ \A t \in Sessions : f[t] = "failing" => sock[t] \in {"connecting", "failing"}
           /\ \A t \in Sessions : sock[t] = "none" => f[t] = "none"
BY DEF CloseSocket, SockStates

\* Closing a peer connection keeps the types and touches no other session.
LEMMA PeerClosed ==
    ASSUME PeerTypes, NEW r \in Refs, r \in Sessions => peer[r] # "none",
           peer' = ClosePeer(r), chan' = CloseChannels(r), UNCHANGED <<kx, rtc, strays>>
    PROVE  /\ PeerTypes'
           /\ \A t \in Sessions : t # r => peer'[t] = peer[t]
           /\ \A t \in Sessions : t = r => peer'[t] = "closed"
<1>1. peer' \in [Sessions -> PeerStates]
      BY DEF ClosePeer, PeerTypes, PeerStates
<1>2. [l \in Labels |-> "closed"] \in ChanStates
      BY DEF ChanStates
<1>3. chan' \in [Sessions -> ChanStates]
      BY <1>2 DEF CloseChannels, PeerTypes
<1> QED
      BY <1>1, <1>3 DEF ClosePeer, PeerTypes

\* A message that is sent, or not, keeps the type of what was sent.
LEMMA SentTypes ==
    ASSUME sent \in [Sessions -> SUBSET {"key_answer", "rtc_answer"}],
           NEW s \in Sessions, NEW m \in {"key_answer", "rtc_answer"}
    PROVE  SendOn(s, m) \in [Sessions -> SUBSET {"key_answer", "rtc_answer"}]
BY DEF SendOn

\* The page starts idle, with no session.
LEMMA InitSessionInv == Init => SessionInv
<1> SUFFICES ASSUME Init PROVE SessionInv
      OBVIOUS
<1> USE BoundsAssumption DEF Init, Sessions, Refs, Null
<1>1. Types
  <2>1. chan \in [Sessions -> ChanStates]
        BY DEF ChanStates
  <2>2. got \in Seq(Input) /\ Len(got) = 0 /\ IsFiniteSet(flight) /\ Cardinality(flight) = 0
        BY FS_EmptySet
  <2>3. RefTypes
        BY DEF RefTypes
  <2>4. SocketTypes
        BY DEF SocketTypes, SockStates, StageStates
  <2>5. PeerTypes
        BY <2>1 DEF PeerTypes, KxStates, RtcStates, PeerStates
  <2> QED
        BY <2>2, <2>3, <2>4, <2>5 DEF Types, InputTypes
<1>2. Begun /\ UnopenedIsUnasked
      BY DEF Begun, UnopenedIsUnasked
<1>3. OnlyTheAttemptLives /\ ScreenIsOfOneSession /\ ErrorIsOwnOrLate
      BY DEF OnlyTheAttemptLives, ScreenIsOfOneSession, ErrorIsOwnOrLate, LiveSocket, LivePeer
<1>4. KeyKept /\ SealedInOrder /\ InputsOfTheScreen
      BY DEF KeyKept, SealedInOrder, InputsOfTheScreen
<1> QED
      BY <1>1, <1>2, <1>3, <1>4 DEF SessionInv

------------------------------------------------------------------------------
(* Types.                                                                   *)

\* Every step keeps the types of the refs, the state and the error.
LEMMA RefTypesStep ==
    ASSUME Types, [Next]_vars
    PROVE  RefTypes'
<1> RefTypes
      BY DEF Types
<1> USE BoundsAssumption DEF RefTypes, Sessions, Refs, Null, refVars, pageVars
<1>1. CASE UNCHANGED vars
      BY <1>1 DEF vars
<1>2. CASE Page
  <2>1. CASE Connect
        BY <2>1 DEF Connect, ResetRefs
  <2>2. CASE ConnectThrows \/ Disconnect
        BY <2>2 DEF ConnectThrows, Disconnect, ResetRefs
  <2>3. CASE Unmount
        BY <2>3 DEF Unmount
  <2> QED
        BY <1>2, <2>1, <2>2, <2>3 DEF Page
<1>3. ASSUME NEW s \in Sessions, Socket(s)
      PROVE  RefTypes'
  <2>1. CASE Open(s) \/ Accepted(s) \/ KeyOffer(s) \/ AgentCandidate(s)
        BY <2>1 DEF Open, Accepted, KeyOffer, AgentCandidate
  <2>2. CASE SocketFails(s) \/ SocketCloses(s)
        BY <2>2 DEF SocketFails, SocketCloses, CloseEvent, ShowError
  <2>3. CASE RtcOffer(s)
        BY <2>3 DEF RtcOffer
  <2>4. CASE Dismissed(s)
        BY <2>4 DEF Dismissed, ShowError
  <2> QED
        BY <1>3, <2>1, <2>2, <2>3, <2>4 DEF Socket, RelayStep
<1>4. ASSUME NEW s \in Sessions, KeyHandler(s) \/ RtcHandler(s)
      PROVE  RefTypes'
  <2>1. CASE KeyDerived(s)
        BY <2>1 DEF KeyDerived, DeriveSessionKey
  <2>2. CASE KeyAnswered(s) \/ RtcAnswered(s)
        BY <2>2 DEF KeyAnswered, RtcAnswered
  <2>3. CASE KeyFails(s) \/ RtcFails(s)
        BY <2>3 DEF KeyFails, RtcFails, HandlerFails, ShowError
  <2>4. CASE RemoteDescriptionSet(s)
        BY <2>4 DEF RemoteDescriptionSet
  <2> QED
        BY <1>4, <2>1, <2>2, <2>3, <2>4 DEF KeyHandler, RtcHandler
<1>5. ASSUME NEW s \in Sessions, Peer(s)
      PROVE  RefTypes'
  <2>1. CASE PeerConnects(s) \/ ChannelsClose(s)
        BY <2>1 DEF PeerConnects, ChannelsClose
  <2>2. CASE PeerFails(s)
        BY <2>2 DEF PeerFails, ShowError
  <2>3. ASSUME NEW l \in Labels, DataChannel(s, l)
        PROVE  RefTypes'
        BY <2>3 DEF DataChannel
  <2> QED
        BY <1>5, <2>1, <2>2, <2>3 DEF Peer
<1>6. CASE Inputs
      BY <1>6 DEF Inputs, SendDirect, SendSealed, Sealed, Relayed
<1> QED
      BY <1>1, <1>2, <1>3, <1>4, <1>5, <1>6 DEF Next

\* Every step keeps the types of the sockets and of what came and went on them.
LEMMA SocketTypesStep ==
    ASSUME Types, [Next]_vars
    PROVE  SocketTypes'
<1> SocketTypes /\ ws \in Refs /\ attempt \in Refs
      BY DEF Types, RefTypes
<1> USE DEF SocketTypes, socketVars, historyVars
<1>1. CASE UNCHANGED vars
      BY <1>1 DEF vars
<1>2. CASE Page
  <2>1. CloseSocket(ws) \in [Sessions -> SockStates]
        BY SocketClosed
  <2>2. CASE Connect
        BY <2>1, <2>2 DEF Connect, SockStates
  <2>3. CASE ConnectThrows \/ Disconnect \/ Unmount
        BY <2>1, <2>3 DEF ConnectThrows, Disconnect, Unmount
  <2> QED
        BY <1>2, <2>2, <2>3 DEF Page
<1>3. ASSUME NEW s \in Sessions, Socket(s)
      PROVE  SocketTypes'
  <2>1. CASE Open(s) \/ Accepted(s) \/ KeyOffer(s) \/ RtcOffer(s) \/ AgentCandidate(s)
        BY <2>1 DEF Open, Accepted, KeyOffer, RtcOffer, AgentCandidate, SockStates, StageStates
  <2>2. CASE SocketFails(s) \/ SocketCloses(s)
    <3>1. CloseEvent(s) /\ UNCHANGED <<stage, sent>>
          BY <2>2 DEF SocketFails, SocketCloses
    <3>2. ws # Null => ws \in Sessions
          BY BoundsAssumption DEF Refs, Sessions, Null
    <3>3. lost' \subseteq Sessions
          BY <3>1, <3>2 DEF CloseEvent
    <3> QED
          BY <3>1, <3>3 DEF CloseEvent, SockStates
  <2>3. CASE Dismissed(s)
    <3>1. s \in Refs
          BY BoundsAssumption DEF Sessions, Refs
    <3>2. CloseSocket(s) \in [Sessions -> SockStates]
          BY <3>1, SocketClosed
    <3> QED
          BY <2>3, <3>2 DEF Dismissed
  <2> QED
        BY <1>3, <2>1, <2>2, <2>3 DEF Socket, RelayStep
<1>4. ASSUME NEW s \in Sessions, KeyHandler(s) \/ RtcHandler(s)
      PROVE  SocketTypes'
  <2>1. CASE KeyDerived(s) \/ RemoteDescriptionSet(s)
        BY <2>1 DEF KeyDerived, RemoteDescriptionSet
  <2>2. CASE KeyAnswered(s) \/ RtcAnswered(s)
        BY <2>2, SentTypes DEF KeyAnswered, RtcAnswered
  <2>3. CASE KeyFails(s) \/ RtcFails(s)
    <3>1. s \in Refs
          BY BoundsAssumption DEF Sessions, Refs
    <3>2. CloseSocket(s) \in [Sessions -> SockStates]
          BY <3>1, SocketClosed
    <3> QED
          BY <2>3, <3>2 DEF KeyFails, RtcFails, HandlerFails
  <2> QED
        BY <1>4, <2>1, <2>2, <2>3 DEF KeyHandler, RtcHandler
<1>5. ASSUME NEW s \in Sessions, Peer(s)
      PROVE  SocketTypes'
      BY <1>5 DEF Peer, PeerConnects, ChannelsClose, PeerFails, DataChannel
<1>6. CASE Inputs
      BY <1>6 DEF Inputs, SendDirect, SendSealed, Sealed, Relayed
<1> QED
      BY <1>1, <1>2, <1>3, <1>4, <1>5, <1>6 DEF Next

\* Closing a peer connection keeps the types of peers and channels.
LEMMA ClosedTypes ==
    ASSUME PeerTypes, NEW r
    PROVE  ClosePeer(r) \in [Sessions -> PeerStates] /\ CloseChannels(r) \in [Sessions -> ChanStates]
<1>1. [l \in Labels |-> "closed"] \in ChanStates
      BY DEF ChanStates
<1> QED
      BY <1>1 DEF ClosePeer, CloseChannels, PeerTypes, PeerStates

\* Every step keeps the types of the handlers' stages, the peers and the channels.
LEMMA PeerTypesStep ==
    ASSUME Types, [Next]_vars
    PROVE  PeerTypes'
<1> PeerTypes /\ pc \in Refs
      BY DEF Types, RefTypes
<1> USE DEF peerVars, historyVars
<1>1. CASE UNCHANGED vars
      BY <1>1 DEF vars, PeerTypes
<1>2. CASE Page
      BY <1>2, ClosedTypes DEF Page, Connect, ConnectThrows, Disconnect, Unmount, ResetRefs, PeerTypes
<1>3. ASSUME NEW s \in Sessions, Socket(s)
      PROVE  PeerTypes'
  <2>1. CASE Open(s) \/ Accepted(s) \/ SocketFails(s) \/ SocketCloses(s) \/ Dismissed(s)
        BY <2>1 DEF Open, Accepted, SocketFails, SocketCloses, Dismissed, PeerTypes
  <2>2. CASE KeyOffer(s)
        BY <2>2 DEF KeyOffer, PeerTypes, KxStates
  <2>3. CASE RtcOffer(s)
        BY <2>3 DEF RtcOffer, PeerTypes, RtcStates, PeerStates
  <2>4. CASE AgentCandidate(s)
    <3>1. pc # Null => pc \in Sessions
          BY BoundsAssumption DEF Refs, Sessions, Null
    <3> QED
          BY <2>4, <3>1 DEF AgentCandidate, PeerTypes
  <2> QED
        BY <1>3, <2>1, <2>2, <2>3, <2>4 DEF Socket, RelayStep
<1>4. ASSUME NEW s \in Sessions, KeyHandler(s) \/ RtcHandler(s)
      PROVE  PeerTypes'
  <2>1. CASE KeyDerived(s) \/ KeyAnswered(s) \/ KeyFails(s)
        BY <2>1 DEF KeyDerived, KeyAnswered, KeyFails, HandlerFails, PeerTypes, KxStates
  <2>2. CASE RemoteDescriptionSet(s) \/ RtcAnswered(s) \/ RtcFails(s)
        BY <2>2 DEF RemoteDescriptionSet, RtcAnswered, RtcFails, HandlerFails, PeerTypes, RtcStates
  <2> QED
        BY <1>4, <2>1, <2>2 DEF KeyHandler, RtcHandler
<1>5. ASSUME NEW s \in Sessions, Peer(s)
      PROVE  PeerTypes'
  <2>1. CASE PeerConnects(s) \/ PeerFails(s)
        BY <2>1 DEF PeerConnects, PeerFails, PeerTypes, PeerStates
  <2>2. CASE ChannelsClose(s)
        BY <2>2, ClosedTypes DEF ChannelsClose, PeerTypes
  <2>3. ASSUME NEW l \in Labels, DataChannel(s, l)
        PROVE  PeerTypes'
        BY <2>3 DEF DataChannel, PeerTypes, ChanStates
  <2> QED
        BY <1>5, <2>1, <2>2, <2>3 DEF Peer
<1>6. CASE Inputs
      BY <1>6 DEF Inputs, SendDirect, SendSealed, Sealed, Relayed, PeerTypes
<1> QED
      BY <1>1, <1>2, <1>3, <1>4, <1>5, <1>6 DEF Next

\* One more sealed input counts at most one more.
LEMMA OneMore ==
    ASSUME NEW S, NEW x, IsFiniteSet(S)
    PROVE  /\ IsFiniteSet(S \cup {x}) /\ Cardinality(S \cup {x}) \in Nat
           /\ Cardinality(S \cup {x}) <= Cardinality(S) + 1
<1>1. IsFiniteSet(S \cup {x}) /\ Cardinality(S) \in Nat
      BY FS_AddElement, FS_CardinalityType
<1>2. Cardinality(S \cup {x}) = IF x \in S THEN Cardinality(S) ELSE Cardinality(S) + 1
      BY FS_AddElement
<1> QED
      BY <1>1, <1>2

\* Every step keeps the types of the inputs; none arrives twice or unmade.
LEMMA InputTypesStep ==
    ASSUME Types, Begun, [Next]_vars
    PROVE  InputTypes'
<1> InputTypes /\ RefTypes
      BY DEF Types
<1> USE DEF inputVars, historyVars
<1>0. Cardinality(flight) \in Nat /\ Len(got) \in Nat /\ made \in Nat
      BY FS_CardinalityType DEF InputTypes
<1>1. CASE UNCHANGED vars
      BY <1>1 DEF vars, InputTypes
<1>2. CASE Page
      BY <1>2 DEF Page, Connect, ConnectThrows, Disconnect, Unmount, InputTypes
<1>3. ASSUME NEW s \in Sessions, Socket(s)
      PROVE  InputTypes'
      BY <1>3 DEF Socket, RelayStep, Open, Accepted, KeyOffer, RtcOffer, AgentCandidate, SocketFails,
                  SocketCloses, Dismissed, InputTypes
<1>4. ASSUME NEW s \in Sessions, KeyHandler(s) \/ RtcHandler(s)
      PROVE  InputTypes'
      BY <1>4 DEF KeyHandler, RtcHandler, KeyDerived, KeyAnswered, KeyFails, RemoteDescriptionSet,
                  RtcAnswered, RtcFails, HandlerFails, InputTypes
<1>5. ASSUME NEW s \in Sessions, Peer(s)
      PROVE  InputTypes'
      BY <1>5 DEF Peer, PeerConnects, ChannelsClose, PeerFails, DataChannel, InputTypes
<1>6. ASSUME NEW kind \in {"key", "mousemove"}, SendDirect(kind)
      PROVE  InputTypes'
  <2>1. made' = made + 1 /\ made + 1 \in 1..MaxInputs /\ flight' = flight
        BY <1>6, BoundsAssumption DEF SendDirect, InputTypes
  <2>2. Route(kind) \in {inputDC, inputMoveDC} /\ Route(kind) # Null
        BY <1>6 DEF SendDirect, Route
  <2>3. Route(kind) \in Sessions /\ attempt \in Sessions
        BY <2>2, BoundsAssumption DEF RefTypes, Refs, Sessions, Null, Begun
  <2> DEFINE input == [n |-> made + 1, made |-> attempt, to |-> Route(kind), via |-> "channel"]
  <2>4. input \in Input
        BY <2>1, <2>3 DEF Input
  <2> HIDE DEF input
  <2>5. got' \in Seq(Input) /\ Len(got') <= Len(got) + 1
    <3>1. got' = Append(got, input) \/ got' = got
          BY <1>6 DEF SendDirect, input
    <3> QED
          BY <2>4, <3>1 DEF InputTypes
  <2> QED
        BY <2>1, <2>5, <1>0, BoundsAssumption DEF InputTypes
<1>7. CASE SendSealed
  <2>1. made' = made + 1 /\ made + 1 \in 1..MaxInputs /\ got' = got
        BY <1>7, BoundsAssumption DEF SendSealed, InputTypes
  <2>2. e2ee \in Sessions /\ attempt \in Sessions /\ Null \in Refs
        BY <1>7, BoundsAssumption DEF SendSealed, RefTypes, Refs, Sessions, Null, Begun
  <2> DEFINE c == Encrypt(e2ee, made + 1, attempt)
  <2>3. c \in Ciphers
        BY <2>1, <2>2 DEF Encrypt, Ciphers
  <2> HIDE DEF c
  <2>4. flight' = flight \cup {c}
        BY <1>7 DEF SendSealed, c
  <2>5. IsFiniteSet(flight') /\ Cardinality(flight') <= Cardinality(flight) + 1
        BY <2>4, OneMore DEF InputTypes
  <2>6. Cardinality(flight') \in Nat
        BY <2>5, FS_CardinalityType
  <2> QED
        BY <2>1, <2>3, <2>4, <2>5, <2>6, <1>0, BoundsAssumption DEF InputTypes
<1>8. ASSUME NEW c \in flight, Sealed(c)
      PROVE  InputTypes'
  <2>1. IsFiniteSet(flight \ {c}) /\ Cardinality(flight \ {c}) = Cardinality(flight) - 1
        BY FS_RemoveElement DEF InputTypes
  <2>2. UNCHANGED <<made, got>>
        BY <1>8 DEF Sealed
  <2>3. CASE flight' = flight \ {c}
        BY <2>1, <2>2, <2>3, <1>0 DEF InputTypes
  <2>4. CASE flight' = (flight \ {c}) \cup {[c EXCEPT !.to = ws]}
    <3>1. [c EXCEPT !.to = ws] \in Ciphers
          BY DEF InputTypes, Ciphers, RefTypes
    <3>2. /\ IsFiniteSet(flight') /\ Cardinality(flight') \in Nat
          /\ Cardinality(flight') <= Cardinality(flight \ {c}) + 1
          BY <2>1, <2>4, OneMore
    <3> QED
          BY <2>1, <2>2, <2>4, <3>1, <3>2, <1>0 DEF InputTypes
  <2> QED
        BY <1>8, <2>3, <2>4 DEF Sealed
<1>9. ASSUME NEW c \in flight, Relayed(c)
      PROVE  InputTypes'
  <2>1. /\ flight' = flight \ {c} /\ IsFiniteSet(flight')
        /\ Cardinality(flight') = Cardinality(flight) - 1
        BY <1>9, FS_RemoveElement DEF Relayed, InputTypes
  <2>2. c.n \in 1..MaxInputs /\ c.made \in Sessions /\ c.to \in Sessions
        BY <1>9, BoundsAssumption DEF Relayed, InputTypes, Ciphers, Refs, Sessions, Null
  <2> DEFINE input == [n |-> c.n, made |-> c.made, to |-> c.to, via |-> "relay"]
  <2>3. input \in Input
        BY <2>2 DEF Input
  <2> HIDE DEF input
  <2>4. (got' = Append(got, input) \/ got' = got) /\ made' = made
        BY <1>9 DEF Relayed, input
  <2>5. got' \in Seq(Input) /\ Len(got') <= Len(got) + 1
        BY <2>3, <2>4 DEF InputTypes
  <2> QED
        BY <2>1, <2>4, <2>5, <1>0 DEF InputTypes
<1> QED
      BY <1>1, <1>2, <1>3, <1>4, <1>5, <1>6, <1>7, <1>8, <1>9 DEF Next, Inputs

------------------------------------------------------------------------------
(* Sessions begin in order.                                                 *)

\* No step leaves a trace of a session that has not begun.
LEMMA BegunStep ==
    ASSUME Types, Begun, [Next]_vars
    PROVE  Begun'
<1> RefTypes /\ SocketTypes /\ PeerTypes
      BY DEF Types
<1> /\ attempt \in Nat /\ \A s \in Sessions : s \in Nat /\ s # Null
    /\ {ws, pc, e2ee, inputDC, inputMoveDC} \subseteq Nat
      BY BoundsAssumption DEF RefTypes, Refs, Sessions, Null
<1> USE DEF Begun, refVars, pageVars, socketVars, peerVars, historyVars
<1>1. CASE UNCHANGED vars
      BY <1>1 DEF vars
<1>2. CASE Page
  <2>1. \A t \in Sessions : t > attempt => CloseSocket(ws)[t] = "none" /\ ClosePeer(pc)[t] = "none"
        BY SocketClosed DEF ClosePeer, RefTypes, SocketTypes
  <2>2. CASE Connect
    <3>1. /\ attempt' = attempt + 1 /\ ws' = attempt'
          /\ pc' = 0 /\ e2ee' = 0 /\ inputDC' = 0 /\ inputMoveDC' = 0
          /\ UNCHANGED <<stage, kx, rtc>> /\ peer' = ClosePeer(pc)
          BY <2>2 DEF Connect, ResetRefs, Null
    <3>2. \A t \in Sessions : t # attempt + 1 => sock'[t] = CloseSocket(ws)[t]
          BY <2>2 DEF Connect
    <3> QED
          BY <2>1, <3>1, <3>2
  <2>3. CASE ConnectThrows \/ Disconnect
        BY <2>1, <2>3 DEF ConnectThrows, Disconnect, ResetRefs, Null
  <2>4. CASE Unmount
        BY <2>1, <2>4 DEF Unmount
  <2> QED
        BY <1>2, <2>2, <2>3, <2>4 DEF Page
<1>3. ASSUME NEW s \in Sessions, Socket(s)
      PROVE  Begun'
  <2>1. CASE Open(s)
        BY <2>1 DEF Open, SocketTypes
  <2>2. CASE SocketFails(s) \/ SocketCloses(s)
    <3>1. /\ sock[s] # "none" /\ sock' = [sock EXCEPT ![s] = "closed"] /\ ws' = Null /\ e2ee' = Null
          /\ UNCHANGED <<attempt, pc, inputDC, inputMoveDC, stage, kx, rtc, peer>>
          BY <2>2 DEF SocketFails, SocketCloses, CloseEvent
    <3> QED
          BY <3>1 DEF SocketTypes, Null
  <2>3. CASE Accepted(s) \/ KeyOffer(s) \/ RtcOffer(s)
        BY <2>3 DEF Accepted, KeyOffer, RtcOffer, SocketTypes, PeerTypes
  <2>4. CASE Dismissed(s)
    <3>1. s \in Refs
          BY BoundsAssumption DEF Sessions, Refs
    <3> QED
          BY <2>4, <3>1, SocketClosed DEF Dismissed, SocketTypes
  <2>5. CASE AgentCandidate(s)
        BY <2>5 DEF AgentCandidate
  <2> QED
        BY <1>3, <2>1, <2>2, <2>3, <2>4, <2>5 DEF Socket, RelayStep
<1>4. ASSUME NEW s \in Sessions, KeyHandler(s) \/ RtcHandler(s)
      PROVE  Begun'
  <2>1. CASE KeyDerived(s)
        BY <2>1 DEF KeyDerived, DeriveSessionKey, PeerTypes
  <2>2. CASE KeyAnswered(s)
        BY <2>2 DEF KeyAnswered, PeerTypes
  <2>3. CASE RemoteDescriptionSet(s) \/ RtcAnswered(s)
        BY <2>3 DEF RemoteDescriptionSet, RtcAnswered, PeerTypes
  <2>4. CASE KeyFails(s) \/ RtcFails(s)
    <3>1. s \in Refs
          BY BoundsAssumption DEF Sessions, Refs
    <3>2. /\ sock' = CloseSocket(s) /\ UNCHANGED <<attempt, refVars, stage>>
          /\ peer' = peer
          /\ \/ kx[s] # "none" /\ kx' = [kx EXCEPT ![s] = "failed"] /\ rtc' = rtc
             \/ rtc[s] # "none" /\ rtc' = [rtc EXCEPT ![s] = "failed"] /\ kx' = kx
          BY <2>4 DEF KeyFails, RtcFails, HandlerFails
    <3>3. \A t \in Sessions : sock[t] = "none" => sock'[t] = "none"
          BY <3>1, <3>2, SocketClosed DEF SocketTypes
    <3> QED
          BY <3>2, <3>3 DEF PeerTypes
  <2> QED
        BY <1>4, <2>1, <2>2, <2>3, <2>4 DEF KeyHandler, RtcHandler
<1>5. ASSUME NEW s \in Sessions, Peer(s)
      PROVE  Begun'
  <2>1. CASE PeerConnects(s) \/ PeerFails(s)
        BY <2>1 DEF PeerConnects, PeerFails, PeerTypes
  <2>2. CASE ChannelsClose(s)
        BY <2>2 DEF ChannelsClose
  <2>3. ASSUME NEW l \in Labels, DataChannel(s, l)
        PROVE  Begun'
        BY <2>3 DEF DataChannel
  <2> QED
        BY <1>5, <2>1, <2>2, <2>3 DEF Peer
<1>6. CASE Inputs
      BY <1>6 DEF Inputs, SendDirect, SendSealed, Sealed, Relayed
<1> QED
      BY <1>1, <1>2, <1>3, <1>4, <1>5, <1>6 DEF Next

\* No message comes before the socket is open.
LEMMA UnaskedStep ==
    ASSUME Types, UnopenedIsUnasked, Begun, [Next]_vars
    PROVE  UnopenedIsUnasked'
<1> RefTypes /\ SocketTypes /\ PeerTypes
      BY DEF Types
<1> USE DEF UnopenedIsUnasked, socketVars, peerVars, historyVars
<1>1. CASE UNCHANGED vars
      BY <1>1 DEF vars
<1>0. ASSUME NEW r \in Refs, sock' = CloseSocket(r), stage' = stage,
           \A t \in Sessions : kx[t] = "none" => kx'[t] = "none"
      PROVE  UnopenedIsUnasked'
      BY <1>0, SocketClosed DEF SocketTypes
<1>2. CASE Page
  <2>1. CASE Connect
    <3>1. stage' = stage /\ kx' = kx /\ \A t \in Sessions : sock'[t] = CloseSocket(ws)[t] \/ t = attempt + 1
          BY <2>1 DEF Connect
    <3>2. attempt + 1 \in Sessions => stage[attempt + 1] = "none" /\ kx[attempt + 1] = "none"
          BY BoundsAssumption DEF Begun, RefTypes, Refs
    <3>3. \A t \in Sessions : CloseSocket(ws)[t] \in {"connecting", "failing"}
                               => sock[t] \in {"connecting", "failing"}
          BY SocketClosed DEF RefTypes, SocketTypes
    <3> QED
          BY <3>1, <3>2, <3>3
  <2>2. CASE ConnectThrows \/ Disconnect \/ Unmount
        BY <1>0, <2>2 DEF ConnectThrows, Disconnect, Unmount, RefTypes
  <2> QED
        BY <1>2, <2>1, <2>2 DEF Page
<1>3. ASSUME NEW s \in Sessions, Socket(s)
      PROVE  UnopenedIsUnasked'
  <2>1. CASE Open(s)
        BY <2>1 DEF Open, SocketTypes
  <2>2. CASE SocketFails(s) \/ SocketCloses(s)
        BY <2>2 DEF SocketFails, SocketCloses, CloseEvent, SocketTypes
  <2>3. CASE Accepted(s) \/ KeyOffer(s) \/ RtcOffer(s) \/ AgentCandidate(s)
        BY <2>3 DEF Accepted, KeyOffer, RtcOffer, AgentCandidate, SocketTypes, PeerTypes
  <2>4. CASE Dismissed(s)
    <3>1. s \in Refs
          BY BoundsAssumption DEF Sessions, Refs
    <3> QED
          BY <1>0, <2>4, <3>1 DEF Dismissed
  <2> QED
        BY <1>3, <2>1, <2>2, <2>3, <2>4 DEF Socket, RelayStep
<1>4. ASSUME NEW s \in Sessions, KeyHandler(s) \/ RtcHandler(s)
      PROVE  UnopenedIsUnasked'
  <2>1. CASE KeyDerived(s) \/ KeyAnswered(s) \/ RemoteDescriptionSet(s) \/ RtcAnswered(s)
        BY <2>1 DEF KeyDerived, KeyAnswered, RemoteDescriptionSet, RtcAnswered, PeerTypes
  <2>2. CASE KeyFails(s) \/ RtcFails(s)
    <3>1. s \in Refs
          BY BoundsAssumption DEF Sessions, Refs
    <3> QED
          BY <1>0, <2>2, <3>1 DEF KeyFails, RtcFails, HandlerFails, PeerTypes
  <2> QED
        BY <1>4, <2>1, <2>2 DEF KeyHandler, RtcHandler
<1>5. ASSUME NEW s \in Sessions, Peer(s)
      PROVE  UnopenedIsUnasked'
      BY <1>5 DEF Peer, PeerConnects, ChannelsClose, PeerFails, DataChannel
<1>6. CASE Inputs
      BY <1>6 DEF Inputs, SendDirect, SendSealed, Sealed, Relayed
<1> QED
      BY <1>1, <1>2, <1>3, <1>4, <1>5, <1>6 DEF Next

------------------------------------------------------------------------------
(* One session lives.                                                       *)

\* After every step only the session of the last attempt lives.
LEMMA LivesStep ==
    ASSUME Types, Begun, OnlyTheAttemptLives, [Next]_vars
    PROVE  OnlyTheAttemptLives'
<1> RefTypes /\ SocketTypes /\ PeerTypes
      BY DEF Types
<1> /\ attempt \in Nat /\ \A s \in Sessions : s \in Nat /\ s # Null
      BY BoundsAssumption DEF RefTypes, Refs, Sessions, Null
<1> USE DEF OnlyTheAttemptLives, LiveSocket, LivePeer, refVars, pageVars, socketVars, peerVars, historyVars
<1>1. CASE UNCHANGED vars
      BY <1>1 DEF vars
<1>2. CASE Page
  <2>1. /\ \A t \in Sessions : t = ws => CloseSocket(ws)[t] \notin {"connecting", "open"}
        /\ \A t \in Sessions : CloseSocket(ws)[t] \in {"connecting", "open"}
                                => CloseSocket(ws)[t] = sock[t]
        BY SocketClosed DEF RefTypes, SocketTypes
  <2>2. lost = {} => \A t \in Sessions : CloseSocket(ws)[t] \notin {"connecting", "open"}
        BY <2>1
  <2>3. lost = {} => \A t \in Sessions : ClosePeer(pc)[t] \in {"none", "closed"}
        BY DEF ClosePeer
  <2>4. CASE Connect
    <3>1. /\ attempt' = attempt + 1 /\ ws' = attempt + 1 /\ mounted' = mounted /\ mounted
          /\ peer' = ClosePeer(pc) /\ lost' = lost /\ state' = "connecting"
          BY <2>4 DEF Connect, ResetRefs, ConnectEnabled
    <3>2. \A t \in Sessions : t # attempt + 1 => sock'[t] = CloseSocket(ws)[t]
          BY <2>4 DEF Connect
    <3> QED
          BY <2>2, <2>3, <3>1, <3>2
  <2>5. CASE ConnectThrows \/ Disconnect
        BY <2>2, <2>3, <2>5 DEF ConnectThrows, Disconnect, ResetRefs
  <2>6. CASE Unmount
        BY <2>2, <2>3, <2>6 DEF Unmount
  <2> QED
        BY <1>2, <2>4, <2>5, <2>6 DEF Page
<1>3. ASSUME NEW s \in Sessions, Socket(s)
      PROVE  OnlyTheAttemptLives'
  <2>1. CASE Open(s)
        BY <2>1 DEF Open, SocketTypes
  <2>2. CASE SocketFails(s) \/ SocketCloses(s)
    <3>1. /\ sock' = [sock EXCEPT ![s] = "closed"] /\ ws' = Null
          /\ lost' = IF ws \notin {Null, s} /\ LiveSocket(ws) THEN lost \cup {ws} ELSE lost
          /\ UNCHANGED <<attempt, mounted, pc, peer>> /\ state' \in {state, "error"}
          BY <2>2 DEF SocketFails, SocketCloses, CloseEvent, ShowError
    <3>2. lost' = {} => lost = {} /\ (ws \in {Null, s} \/ ~LiveSocket(ws))
          BY <3>1
    <3>3. lost' = {} => \A t \in Sessions : sock'[t] \notin {"connecting", "open"}
          BY <3>1, <3>2 DEF SocketTypes
    <3> QED
          BY <3>1, <3>2, <3>3
  <2>3. CASE Accepted(s) \/ KeyOffer(s) \/ AgentCandidate(s)
        BY <2>3 DEF Accepted, KeyOffer, AgentCandidate
  <2>4. CASE RtcOffer(s)
        BY <2>4 DEF RtcOffer, PeerTypes
  <2>5. CASE Dismissed(s)
    <3>1. s \in Refs
          BY BoundsAssumption DEF Sessions, Refs
    <3>2. \A t \in Sessions : sock'[t] \in {"connecting", "open"} => sock'[t] = sock[t]
          BY <2>5, <3>1, SocketClosed DEF Dismissed, SocketTypes
    <3> QED
          BY <2>5, <3>2 DEF Dismissed, ShowError
  <2> QED
        BY <1>3, <2>1, <2>2, <2>3, <2>4, <2>5 DEF Socket, RelayStep
<1>4. ASSUME NEW s \in Sessions, KeyHandler(s) \/ RtcHandler(s)
      PROVE  OnlyTheAttemptLives'
  <2>1. CASE KeyDerived(s) \/ KeyAnswered(s) \/ RemoteDescriptionSet(s) \/ RtcAnswered(s)
        BY <2>1 DEF KeyDerived, KeyAnswered, RemoteDescriptionSet, RtcAnswered
  <2>2. CASE KeyFails(s) \/ RtcFails(s)
    <3>1. s \in Refs
          BY BoundsAssumption DEF Sessions, Refs
    <3>2. /\ sock' = CloseSocket(s) /\ peer' = peer /\ UNCHANGED <<attempt, refVars, mounted, lost>>
          /\ state' = "error"
          BY <2>2 DEF KeyFails, RtcFails, HandlerFails, ShowError
    <3>3. \A t \in Sessions : sock'[t] \in {"connecting", "open"} => sock'[t] = sock[t]
          BY <3>1, <3>2, SocketClosed DEF SocketTypes
    <3> QED
          BY <3>2, <3>3
  <2> QED
        BY <1>4, <2>1, <2>2 DEF KeyHandler, RtcHandler
<1>5. ASSUME NEW s \in Sessions, Peer(s)
      PROVE  OnlyTheAttemptLives'
  <2>1. CASE PeerConnects(s) \/ PeerFails(s)
        BY <2>1 DEF PeerConnects, PeerFails, PeerTypes, ShowError
  <2>2. CASE ChannelsClose(s)
        BY <2>2 DEF ChannelsClose
  <2>3. ASSUME NEW l \in Labels, DataChannel(s, l)
        PROVE  OnlyTheAttemptLives'
        BY <2>3 DEF DataChannel
  <2> QED
        BY <1>5, <2>1, <2>2, <2>3 DEF Peer
<1>6. CASE Inputs
  <2>1. UNCHANGED <<pageVars, refVars, socketVars, peerVars, lost>>
        BY <1>6 DEF Inputs, SendDirect, SendSealed, Sealed, Relayed
  <2> QED
        BY <2>1
<1> QED
      BY <1>1, <1>2, <1>3, <1>4, <1>5, <1>6 DEF Next

\* A forgotten socket stays forgotten.
LEMMA LostStays ==
    ASSUME [Next]_vars, lost' = {}
    PROVE  lost = {}
<1> USE DEF historyVars
<1>1. CASE UNCHANGED vars
      BY <1>1 DEF vars
<1>2. CASE Page
      BY <1>2 DEF Page, Connect, ConnectThrows, Disconnect, Unmount
<1>3. ASSUME NEW s \in Sessions, Socket(s)
      PROVE  lost = {}
      BY <1>3 DEF Socket, RelayStep, Open, Accepted, KeyOffer, RtcOffer, AgentCandidate, SocketFails,
                  SocketCloses, CloseEvent, Dismissed
<1>4. ASSUME NEW s \in Sessions, KeyHandler(s) \/ RtcHandler(s)
      PROVE  lost = {}
      BY <1>4 DEF KeyHandler, RtcHandler, KeyDerived, KeyAnswered, KeyFails, RemoteDescriptionSet,
                  RtcAnswered, RtcFails, HandlerFails
<1>5. ASSUME NEW s \in Sessions, Peer(s)
      PROVE  lost = {}
      BY <1>5 DEF Peer, PeerConnects, ChannelsClose, PeerFails, DataChannel
<1>6. CASE Inputs
      BY <1>6 DEF Inputs, SendDirect, SendSealed, Sealed, Relayed
<1> QED
      BY <1>1, <1>2, <1>3, <1>4, <1>5, <1>6 DEF Next

\* After every step the refs and the video are of one session.
LEMMA ScreenStep ==
    ASSUME Types, Begun, OnlyTheAttemptLives, ScreenIsOfOneSession, [Next]_vars
    PROVE  ScreenIsOfOneSession'
<1> \A s \in Sessions : s # Null
      BY BoundsAssumption DEF Sessions, Null
<1>0. lost' = {} => lost = {}
      BY LostStays
<1> USE DEF ScreenIsOfOneSession, refVars, pageVars, historyVars
<1>1. CASE UNCHANGED vars
      BY <1>1 DEF vars
<1>2. CASE Page
      BY <1>0, <1>2 DEF Page, Connect, ConnectThrows, Disconnect, Unmount, ResetRefs
<1>3. ASSUME NEW s \in Sessions, Socket(s)
      PROVE  ScreenIsOfOneSession'
  <2>1. CASE Open(s) \/ Accepted(s) \/ KeyOffer(s) \/ AgentCandidate(s)
        BY <1>0, <2>1 DEF Open, Accepted, KeyOffer, AgentCandidate
  <2>2. CASE RtcOffer(s)
        BY <1>0, <2>2 DEF RtcOffer, OnlyTheAttemptLives, LiveSocket
  <2>3. CASE SocketFails(s) \/ SocketCloses(s)
        BY <1>0, <2>3 DEF SocketFails, SocketCloses, ShowError
  <2>4. CASE Dismissed(s)
        BY <1>0, <2>4 DEF Dismissed, ShowError
  <2> QED
        BY <1>3, <2>1, <2>2, <2>3, <2>4 DEF Socket, RelayStep
<1>4. ASSUME NEW s \in Sessions, KeyHandler(s) \/ RtcHandler(s)
      PROVE  ScreenIsOfOneSession'
  <2>1. CASE KeyDerived(s) \/ KeyAnswered(s) \/ RtcAnswered(s)
        BY <1>0, <2>1 DEF KeyDerived, KeyAnswered, RtcAnswered
  <2>2. CASE RemoteDescriptionSet(s)
        BY <1>0, <2>2 DEF RemoteDescriptionSet, OnlyTheAttemptLives
  <2>3. CASE KeyFails(s) \/ RtcFails(s)
        BY <1>0, <2>3 DEF KeyFails, RtcFails, HandlerFails, ShowError
  <2> QED
        BY <1>4, <2>1, <2>2, <2>3 DEF KeyHandler, RtcHandler
<1>5. ASSUME NEW s \in Sessions, Peer(s)
      PROVE  ScreenIsOfOneSession'
  <2>1. CASE PeerConnects(s) \/ ChannelsClose(s)
        BY <1>0, <2>1 DEF PeerConnects, ChannelsClose
  <2>2. CASE PeerFails(s)
        BY <1>0, <2>2 DEF PeerFails, ShowError
  <2>3. ASSUME NEW l \in Labels, DataChannel(s, l)
        PROVE  ScreenIsOfOneSession'
    <3>1. lost = {} => s = attempt
          BY <2>3 DEF DataChannel, OnlyTheAttemptLives, LivePeer
    <3> QED
          BY <1>0, <2>3, <3>1 DEF DataChannel
  <2> QED
        BY <1>5, <2>1, <2>2, <2>3 DEF Peer
<1>6. CASE Inputs
      BY <1>0, <1>6 DEF Inputs, SendDirect, SendSealed, Sealed, Relayed
<1> QED
      BY <1>1, <1>2, <1>3, <1>4, <1>5, <1>6 DEF Next

\* After every step an error shown is of the last attempt, or came late.
LEMMA ErrorStep ==
    ASSUME Types, Begun, UnopenedIsUnasked, OnlyTheAttemptLives, ErrorIsOwnOrLate, [Next]_vars
    PROVE  ErrorIsOwnOrLate'
<1> SocketTypes /\ PeerTypes /\ error \in Refs
      BY DEF Types, RefTypes
<1> \A s \in Sessions : s # Null
      BY BoundsAssumption DEF Sessions, Null
<1> error # Null => error \in Sessions
      BY BoundsAssumption DEF Sessions, Refs, Null
<1>0. lost' = {} => lost = {}
      BY LostStays
<1> USE DEF ErrorIsOwnOrLate, refVars, pageVars, socketVars, peerVars, historyVars
<1>1. CASE UNCHANGED vars
      BY <1>1 DEF vars
<1>2. CASE Page
      BY <1>0, <1>2 DEF Page, Connect, ConnectThrows, Disconnect, Unmount, ResetRefs
<1>3. ASSUME NEW s \in Sessions, Socket(s)
      PROVE  ErrorIsOwnOrLate'
  <2>1. lost = {} /\ sock[s] \in {"connecting", "open"} => s = attempt
        BY DEF OnlyTheAttemptLives, LiveSocket
  <2>2. CASE Open(s)
        BY <1>0, <2>1, <2>2 DEF Open, SocketTypes
  <2>3. CASE Accepted(s)
        BY <1>0, <2>1, <2>3 DEF Accepted, SocketTypes
  <2>4. CASE KeyOffer(s)
        BY <1>0, <2>1, <2>4 DEF KeyOffer, SocketTypes, PeerTypes
  <2>5. CASE RtcOffer(s)
        BY <1>0, <2>1, <2>5 DEF RtcOffer, SocketTypes, PeerTypes
  <2>6. CASE AgentCandidate(s)
        BY <1>0, <2>6 DEF AgentCandidate
  <2>7. CASE SocketFails(s)
    <3>1. /\ \/ error' = s /\ state' = "error"
             \/ error' = error /\ state' = state
          /\ UNCHANGED <<attempt, kx, rtc, stage>>
          /\ sock[s] \in {"connecting", "open", "failing"}
          BY <2>7 DEF SocketFails, ShowError
    <3>2. sock[s] = "failing" => stage[s] = "none"
          BY DEF UnopenedIsUnasked
    <3> QED
          BY <1>0, <2>1, <3>1, <3>2
  <2>8. CASE SocketCloses(s)
        BY <1>0, <2>8 DEF SocketCloses
  <2>9. CASE Dismissed(s)
        BY <1>0, <2>1, <2>9 DEF Dismissed, ShowError
  <2> QED
        BY <1>3, <2>2, <2>3, <2>4, <2>5, <2>6, <2>7, <2>8, <2>9 DEF Socket, RelayStep
<1>4. ASSUME NEW s \in Sessions, KeyHandler(s) \/ RtcHandler(s)
      PROVE  ErrorIsOwnOrLate'
  <2>1. CASE KeyDerived(s) \/ KeyAnswered(s)
        BY <1>0, <2>1 DEF KeyDerived, KeyAnswered, PeerTypes
  <2>2. CASE RemoteDescriptionSet(s) \/ RtcAnswered(s)
        BY <1>0, <2>2 DEF RemoteDescriptionSet, RtcAnswered, PeerTypes
  <2>3. CASE KeyFails(s) \/ RtcFails(s)
        BY <1>0, <2>3 DEF KeyFails, RtcFails, HandlerFails, ShowError, PeerTypes
  <2> QED
        BY <1>4, <2>1, <2>2, <2>3 DEF KeyHandler, RtcHandler
<1>5. ASSUME NEW s \in Sessions, Peer(s)
      PROVE  ErrorIsOwnOrLate'
  <2>1. CASE PeerConnects(s) \/ ChannelsClose(s)
        BY <1>0, <2>1 DEF PeerConnects, ChannelsClose
  <2>2. CASE PeerFails(s)
        BY <1>0, <2>2 DEF PeerFails, ShowError, OnlyTheAttemptLives, LivePeer
  <2>3. ASSUME NEW l \in Labels, DataChannel(s, l)
        PROVE  ErrorIsOwnOrLate'
        BY <1>0, <2>3 DEF DataChannel
  <2> QED
        BY <1>5, <2>1, <2>2, <2>3 DEF Peer
<1>6. CASE Inputs
      BY <1>0, <1>6 DEF Inputs, SendDirect, SendSealed, Sealed, Relayed
<1> QED
      BY <1>1, <1>2, <1>3, <1>4, <1>5, <1>6 DEF Next

------------------------------------------------------------------------------
(* Inputs.                                                                  *)

\* Every step keeps the key of the session whose socket is open.
LEMMA KeyStep ==
    ASSUME Types, Begun, UnopenedIsUnasked, OnlyTheAttemptLives, KeyKept, [Next]_vars
    PROVE  KeyKept'
<1> SocketTypes /\ PeerTypes /\ attempt \in Refs /\ ws \in Refs
      BY DEF Types, RefTypes
<1> /\ \A s \in Sessions : s \in Nat /\ s # Null
    /\ attempt \in Nat /\ (attempt # Null => attempt \in Sessions)
      BY BoundsAssumption DEF Sessions, Refs, Null
<1>0. lost' = {} => lost = {}
      BY LostStays
<1> USE DEF KeyKept, refVars, pageVars, socketVars, peerVars, historyVars
<1>1. CASE UNCHANGED vars
      BY <1>1 DEF vars
<1>2. CASE Page
  <2>1. CASE Connect \/ ConnectThrows
    <3>1. attempt' = attempt + 1 /\ kx' = kx /\ attempt + 1 \in Sessions
          BY <2>1, BoundsAssumption DEF Connect, ConnectThrows, Sessions
    <3>2. kx'[attempt'] = "none"
          BY <3>1 DEF Begun
    <3> QED
          BY <3>2
  <2>2. CASE Disconnect
    <3>1. sock' = CloseSocket(ws) /\ UNCHANGED <<attempt, kx, lost>>
          BY <2>2 DEF Disconnect
    <3>2. lost = {} /\ attempt # Null => sock'[attempt] # "open"
          BY <3>1, SocketClosed DEF SocketTypes, OnlyTheAttemptLives, LiveSocket
    <3> QED
          BY <3>1, <3>2
  <2>3. CASE Unmount
    <3>1. sock' = CloseSocket(ws) /\ UNCHANGED <<attempt, e2ee, kx, lost, late>>
          BY <2>3 DEF Unmount
    <3>2. attempt # Null /\ sock'[attempt] = "open" => sock[attempt] = "open"
          BY <3>1, SocketClosed DEF SocketTypes
    <3> QED
          BY <3>1, <3>2
  <2> QED
        BY <1>2, <2>1, <2>2, <2>3 DEF Page
<1>3. ASSUME NEW s \in Sessions, Socket(s)
      PROVE  KeyKept'
  <2>1. CASE Open(s)
    <3>1. lost = {} => s = attempt
          BY <2>1 DEF Open, OnlyTheAttemptLives, LiveSocket
    <3>2. kx[s] = "none"
          BY <2>1 DEF Open, UnopenedIsUnasked
    <3> QED
          BY <1>0, <2>1, <3>1, <3>2 DEF Open, SocketTypes
  <2>2. CASE SocketFails(s) \/ SocketCloses(s)
    <3>1. /\ sock' = [sock EXCEPT ![s] = "closed"]
          /\ lost' = IF ws \notin {Null, s} /\ LiveSocket(ws) THEN lost \cup {ws} ELSE lost
          /\ UNCHANGED <<attempt, kx>>
          BY <2>2 DEF SocketFails, SocketCloses, CloseEvent
    <3>2. lost' = {} /\ attempt # Null => sock'[attempt] # "open"
          BY <3>1, <1>0 DEF SocketTypes, OnlyTheAttemptLives, LiveSocket
    <3> QED
          BY <3>1, <3>2
  <2>3. CASE Accepted(s) \/ RtcOffer(s) \/ AgentCandidate(s)
        BY <1>0, <2>3 DEF Accepted, RtcOffer, AgentCandidate
  <2>4. CASE KeyOffer(s)
        BY <1>0, <2>4 DEF KeyOffer, PeerTypes
  <2>5. CASE Dismissed(s)
    <3>1. s \in Refs
          BY BoundsAssumption DEF Sessions, Refs
    <3>2. \A t \in Sessions : sock'[t] = "open" => sock[t] = "open"
          BY <2>5, <3>1, SocketClosed DEF Dismissed, SocketTypes
    <3> QED
          BY <1>0, <2>5, <3>2 DEF Dismissed
  <2> QED
        BY <1>3, <2>1, <2>2, <2>3, <2>4, <2>5 DEF Socket, RelayStep
<1>4. ASSUME NEW s \in Sessions, KeyHandler(s) \/ RtcHandler(s)
      PROVE  KeyKept'
  <2>1. CASE KeyDerived(s)
    <3>1. /\ e2ee' = s /\ kx' = [kx EXCEPT ![s] = "exporting"] /\ UNCHANGED <<attempt, sock, lost>>
          /\ late' = IF s = attempt THEN late ELSE late \cup {s}
          BY <2>1 DEF KeyDerived, DeriveSessionKey
    <3> QED
          BY <3>1
  <2>2. CASE KeyAnswered(s)
        BY <1>0, <2>2 DEF KeyAnswered, PeerTypes
  <2>3. CASE RemoteDescriptionSet(s) \/ RtcAnswered(s)
        BY <1>0, <2>3 DEF RemoteDescriptionSet, RtcAnswered
  <2>4. CASE KeyFails(s) \/ RtcFails(s)
    <3>1. s \in Refs
          BY BoundsAssumption DEF Sessions, Refs
    <3>2. /\ sock' = CloseSocket(s) /\ UNCHANGED <<attempt, refVars, lost, late>>
          /\ kx' \in {kx, [kx EXCEPT ![s] = "failed"]}
          BY <2>4 DEF KeyFails, RtcFails, HandlerFails
    <3>3. \A t \in Sessions : sock'[t] = "open" => sock[t] = "open"
          BY <3>1, <3>2, SocketClosed DEF SocketTypes
    <3> QED
          BY <3>2, <3>3 DEF PeerTypes
  <2> QED
        BY <1>4, <2>1, <2>2, <2>3, <2>4 DEF KeyHandler, RtcHandler
<1>5. ASSUME NEW s \in Sessions, Peer(s)
      PROVE  KeyKept'
      BY <1>0, <1>5 DEF Peer, PeerConnects, ChannelsClose, PeerFails, DataChannel
<1>6. CASE Inputs
  <2>1. UNCHANGED <<attempt, sock, kx, e2ee, lost, late>>
        BY <1>6 DEF Inputs, SendDirect, SendSealed, Sealed, Relayed
  <2> QED
        BY <2>1
<1> QED
      BY <1>1, <1>2, <1>3, <1>4, <1>5, <1>6 DEF Next

\* Every step keeps the order of key, session and socket of a sealed input.
LEMMA SealedStep ==
    ASSUME Types, Begun, SealedInOrder, [Next]_vars
    PROVE  SealedInOrder'
<1> RefTypes /\ InputTypes
      BY DEF Types
<1> /\ attempt \in Nat /\ ws \in Nat /\ e2ee \in Nat
    /\ \A c \in flight : c.key \in Nat /\ c.made \in Nat /\ c.to \in Nat
      BY BoundsAssumption DEF RefTypes, InputTypes, Ciphers, Refs, Sessions
<1> USE DEF SealedInOrder, refVars, pageVars, inputVars, historyVars
<1>1. CASE UNCHANGED vars
      BY <1>1 DEF vars
<1>2. CASE Page
  <2>1. flight' = flight /\ attempt' \in {attempt, attempt + 1}
        BY <1>2 DEF Page, Connect, ConnectThrows, Disconnect, Unmount
  <2> QED
        BY <2>1
<1>3. ASSUME NEW s \in Sessions, Socket(s)
      PROVE  SealedInOrder'
      BY <1>3 DEF Socket, RelayStep, Open, Accepted, KeyOffer, RtcOffer, AgentCandidate, SocketFails,
                  SocketCloses, Dismissed
<1>4. ASSUME NEW s \in Sessions, KeyHandler(s) \/ RtcHandler(s)
      PROVE  SealedInOrder'
      BY <1>4 DEF KeyHandler, RtcHandler, KeyDerived, KeyAnswered, KeyFails, RemoteDescriptionSet,
                  RtcAnswered, RtcFails, HandlerFails
<1>5. ASSUME NEW s \in Sessions, Peer(s)
      PROVE  SealedInOrder'
      BY <1>5 DEF Peer, PeerConnects, ChannelsClose, PeerFails, DataChannel
<1>6. CASE \E kind \in {"key", "mousemove"} : SendDirect(kind)
      BY <1>6 DEF SendDirect
<1>7. CASE SendSealed
      BY <1>7 DEF SendSealed, Encrypt, Begun, Null
<1>8. ASSUME NEW c \in flight, Sealed(c)
      PROVE  SealedInOrder'
  <2>1. /\ flight' \subseteq flight \cup (IF ws # Null THEN {[c EXCEPT !.to = ws]} ELSE {})
        /\ attempt' = attempt
        BY <1>8 DEF Sealed
  <2>2. ws # Null => c.made <= ws
        BY DEF Begun
  <2>3. LET d == [c EXCEPT !.to = ws] IN d.key = c.key /\ d.made = c.made /\ d.to = ws
        BY DEF InputTypes, Ciphers
  <2> QED
        BY <2>1, <2>2, <2>3
<1>9. ASSUME NEW c \in flight, Relayed(c)
      PROVE  SealedInOrder'
      BY <1>9 DEF Relayed
<1> QED
      BY <1>1, <1>2, <1>3, <1>4, <1>5, <1>6, <1>7, <1>8, <1>9 DEF Next, Inputs

\* Inputs carried out stay in `got`; a new one was made for the machine it came to.
LEMMA ArrivedStep ==
    ASSUME Types, Begun, ScreenIsOfOneSession, SealedInOrder, InputsOfTheScreen, [Next]_vars
    PROVE  InputsOfTheScreen'
<1> RefTypes /\ InputTypes /\ got \in Seq(Input)
      BY DEF Types, InputTypes
<1>0. lost' = {} => lost = {}
      BY LostStays
<1> USE DEF refVars, pageVars, inputVars, historyVars
<1>a. ASSUME got' = got
      PROVE  InputsOfTheScreen'
      BY <1>0, <1>a DEF InputsOfTheScreen
<1>b. ASSUME NEW e \in Input, got' = Append(got, e), lost' = lost,
             e.via = "relay" \/ lost = {} => e.to = e.made
      PROVE  InputsOfTheScreen'
      BY <1>b DEF InputsOfTheScreen
<1>1. CASE UNCHANGED vars
      BY <1>a, <1>1 DEF vars
<1>2. CASE Page
      BY <1>a, <1>2 DEF Page, Connect, ConnectThrows, Disconnect, Unmount
<1>3. ASSUME NEW s \in Sessions, Socket(s)
      PROVE  InputsOfTheScreen'
      BY <1>a, <1>3 DEF Socket, RelayStep, Open, Accepted, KeyOffer, RtcOffer, AgentCandidate,
                        SocketFails, SocketCloses, Dismissed
<1>4. ASSUME NEW s \in Sessions, KeyHandler(s) \/ RtcHandler(s)
      PROVE  InputsOfTheScreen'
      BY <1>a, <1>4 DEF KeyHandler, RtcHandler, KeyDerived, KeyAnswered, KeyFails,
                        RemoteDescriptionSet, RtcAnswered, RtcFails, HandlerFails
<1>5. ASSUME NEW s \in Sessions, Peer(s)
      PROVE  InputsOfTheScreen'
      BY <1>a, <1>5 DEF Peer, PeerConnects, ChannelsClose, PeerFails, DataChannel
<1>6. ASSUME NEW kind \in {"key", "mousemove"}, SendDirect(kind)
      PROVE  InputsOfTheScreen'
  <2> DEFINE e == [n |-> made + 1, made |-> attempt, to |-> Route(kind), via |-> "channel"]
  <2>1. (got' = Append(got, e) \/ got' = got) /\ lost' = lost
        BY <1>6 DEF SendDirect
  <2>2. Route(kind) \in {inputDC, inputMoveDC} /\ Route(kind) # Null
        BY <1>6 DEF SendDirect, Route
  <2>3. Route(kind) \in Sessions /\ attempt \in Sessions /\ made + 1 \in 1..MaxInputs
        BY <1>6, <2>2, BoundsAssumption DEF SendDirect, RefTypes, InputTypes, Refs, Sessions, Null, Begun
  <2>4. e \in Input
        BY <2>3 DEF Input
  <2>5. lost = {} => e.to = e.made
        BY <2>2 DEF ScreenIsOfOneSession
  <2> QED
        BY <1>a, <1>b, <2>1, <2>4, <2>5
<1>7. CASE SendSealed
      BY <1>a, <1>7 DEF SendSealed
<1>8. ASSUME NEW c \in flight, Sealed(c)
      PROVE  InputsOfTheScreen'
      BY <1>a, <1>8 DEF Sealed
<1>9. ASSUME NEW c \in flight, Relayed(c)
      PROVE  InputsOfTheScreen'
  <2> DEFINE e == [n |-> c.n, made |-> c.made, to |-> c.to, via |-> "relay"]
  <2>1. lost' = lost /\ (got' = got \/ (got' = Append(got, e) /\ c.key = c.to))
        BY <1>9 DEF Relayed, Decrypts, DeriveSessionKey
  <2>2. c.n \in 1..MaxInputs /\ c.made \in Sessions /\ c.to \in Sessions /\ c.to # Null
        BY <1>9, BoundsAssumption DEF Relayed, InputTypes, Ciphers, Refs, Sessions, Null
  <2>3. c.key = c.to => c.to = c.made
        BY <2>2 DEF SealedInOrder, Sessions
  <2>4. e \in Input
        BY <2>2 DEF Input
  <2> QED
        BY <1>a, <1>b, <2>1, <2>3, <2>4
<1> QED
      BY <1>1, <1>2, <1>3, <1>4, <1>5, <1>6, <1>7, <1>8, <1>9 DEF Next, Inputs

------------------------------------------------------------------------------
\* The invariant is inductive.
LEMMA SessionInvStep == SessionInv /\ [Next]_vars => SessionInv'
<1> SUFFICES ASSUME SessionInv, [Next]_vars PROVE SessionInv'
      OBVIOUS
<1> USE DEF SessionInv
<1>1. Types'
      BY RefTypesStep, SocketTypesStep, PeerTypesStep, InputTypesStep DEF Types
<1>2. Begun' /\ UnopenedIsUnasked'
      BY BegunStep, UnaskedStep
<1>3. OnlyTheAttemptLives' /\ ScreenIsOfOneSession' /\ ErrorIsOwnOrLate'
      BY LivesStep, ScreenStep, ErrorStep
<1>4. KeyKept' /\ SealedInOrder' /\ InputsOfTheScreen'
      BY KeyStep, SealedStep, ArrivedStep
<1> QED
      BY <1>1, <1>2, <1>3, <1>4

\* SessionInv is an invariant: types, the one session and the inputs together.
THEOREM SessionInvHolds == Spec => []SessionInv
BY InitSessionInv, SessionInvStep, PTL DEF Spec

\* Types of the hook's refs and of what they refer to, for any number of sessions.
THEOREM SessionTypesCorrect == Spec => []TypeOK
<1>1. SessionInv => TypeOK
      BY TypesAreTypeOK DEF SessionInv
<1> QED
      BY <1>1, SessionInvHolds, PTL

\* connect, disconnect and the handlers of useRemoteSession: however many sessions
\* follow one another, and whatever ends late, the page holds and shows one.
THEOREM OneSessionAtATime == Spec => []OneSessionLives
<1>1. SessionInv => OneSessionLives
      BY DEF SessionInv, OneSessionLives
<1> QED
      BY <1>1, SessionInvHolds, PTL

\* sendInput: an input is carried out by the machine it was made for or by none,
\* and the sealed path is there when the channels are not, with the key of the
\* session shown, unless an earlier session's key_offer handler has put its own
\* key in its place.
THEOREM InputsGoWhereShown == Spec => []InputGoesWhereShown
<1>1. SessionInv => InputGoesWhereShown
  <2> SUFFICES ASSUME SessionInv PROVE SealedPathReady
        BY DEF SessionInv, InputGoesWhereShown
  <2> SUFFICES ASSUME lost = {}, attempt # Null, sock[attempt] = "open",
                      kx[attempt] \in {"exporting", "done"}
               PROVE  ws = attempt /\ (e2ee = attempt \/ e2ee \in late)
        BY DEF SealedPathReady
  <2>1. attempt \in Sessions
        BY BoundsAssumption DEF SessionInv, Types, RefTypes, Refs, Sessions, Null
  <2> QED
        BY <2>1 DEF SessionInv, OnlyTheAttemptLives, LiveSocket, KeyKept
<1> QED
      BY <1>1, SessionInvHolds, PTL

\* Nothing begins a session but the form, and nothing ends one quietly but the user;
\* a session that is over stays off the screen, as its peer connection is closed and
\* no socket is left that could bring another: connect, disconnect and the handlers
\* of useRemoteSession.
THEOREM ScreensFollowTheUser == Spec => ScreensInOrder
<1>1. SessionInv /\ [Next]_vars => PageStep
  <2> SUFFICES ASSUME SessionInv, [Next]_vars, state' # state PROVE PageStep
        BY DEF PageStep
  <2> USE DEF pageVars
  <2>1. CASE Page
        BY <2>1 DEF Page, Connect, ConnectThrows, Disconnect, Unmount, ConnectEnabled,
                    RemoteScreenShown, PageStep
  <2>2. ASSUME NEW s \in Sessions, attempt' = attempt,
               sock[s] # "none" \/ kx[s] # "none" \/ rtc[s] # "none" \/ peer[s] # "none"
        PROVE  attempt' # Null
    <3>1. attempt \in Nat /\ s \in Nat /\ s # 0
          BY BoundsAssumption DEF SessionInv, Types, RefTypes, Refs, Sessions
    <3>2. ~ (s > attempt)
          BY <2>2 DEF SessionInv, Begun
    <3> QED
          BY <2>2, <3>1, <3>2 DEF Null
  <2>3. ASSUME NEW s \in Sessions, Socket(s)
        PROVE  PageStep
    <3>1. state' = "error" /\ sock[s] # "none" /\ attempt' = attempt
          BY <2>3 DEF Socket, RelayStep, Open, Accepted, KeyOffer, RtcOffer, AgentCandidate,
                      SocketFails, SocketCloses, Dismissed, ShowError
    <3> QED
          BY <2>2, <3>1 DEF PageStep
  <2>4. ASSUME NEW s \in Sessions, KeyHandler(s) \/ RtcHandler(s)
        PROVE  PageStep
    <3>1. CASE RemoteDescriptionSet(s)
      <4>1. state' = "connected" /\ attempt' = attempt /\ rtc[s] # "none" /\ LivePeer(s)
            BY <3>1 DEF RemoteDescriptionSet
      <4>2. state = "idle" => lost # {}
            BY <4>1 DEF SessionInv, OnlyTheAttemptLives
      <4> QED
            BY <2>2, <4>1, <4>2 DEF PageStep
    <3>2. CASE ~ RemoteDescriptionSet(s)
      <4>1. state' = "error" /\ attempt' = attempt /\ (kx[s] # "none" \/ rtc[s] # "none")
            BY <2>4, <3>2 DEF KeyHandler, RtcHandler, KeyDerived, KeyAnswered, KeyFails,
                              RtcAnswered, RtcFails, HandlerFails, ShowError
      <4> QED
            BY <2>2, <4>1 DEF PageStep
    <3> QED
          BY <3>1, <3>2
  <2>5. ASSUME NEW s \in Sessions, Peer(s)
        PROVE  PageStep
    <3>1. state' = "error" /\ attempt' = attempt /\ peer[s] # "none"
          BY <2>5 DEF Peer, PeerConnects, ChannelsClose, PeerFails, DataChannel, ShowError
    <3> QED
          BY <2>2, <3>1 DEF PageStep
  <2>6. CASE Inputs
        BY <2>6 DEF Inputs, SendDirect, SendSealed, Sealed, Relayed
  <2>7. CASE UNCHANGED vars
        BY <2>7 DEF vars
  <2> QED
        BY <2>1, <2>3, <2>4, <2>5, <2>6, <2>7 DEF Next
<1> QED
      BY <1>1, SessionInvHolds, PTL DEF Spec, ScreensInOrder
==============================================================================
