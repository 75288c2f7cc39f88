---------------------------- MODULE BrowserSession ----------------------------
(***************************************************************************)
(* The viewer session of the web client: useRemoteSession                  *)
(* (src/client/src/hooks/useRemoteSession.ts) as ControlPage uses it, with *)
(* the key agreement and the sealed input of crypto.ts.                    *)
(*                                                                         *)
(* The hook keeps the session in refs that every handler reads when it     *)
(* runs.  A handler that awaits goes on after whatever happened meanwhile, *)
(* and the events of a socket or of a peer connection may come after the   *)
(* refs have moved on to the next one.  A stretch between two awaits is an *)
(* action.                                                                 *)
(*                                                                         *)
(* Every call of connect begins a session.  Sessions are numbered; the      *)
(* socket, the peer connection, the data channels and the key of a session *)
(* go by its number, and 0 is null in the refs.                            *)
(***************************************************************************)
EXTENDS Naturals, FiniteSets, Sequences

CONSTANTS
    MaxConnects,  \* bound: calls of connect
    MaxInputs     \* bound: inputs of the user

ASSUME BoundsAssumption == MaxConnects \in Nat /\ MaxInputs \in Nat

Null     == 0
Sessions == 1 .. MaxConnects
Refs     == 0 .. MaxConnects
Labels   == {"input", "input-move"}

VARIABLES
    attempt,     \* the last session begun
    ws, pc, e2ee, inputDC, inputMoveDC,   \* the refs
    state,       \* what the page shows
    error,       \* the session whose handler set the error text, Null when empty
    videoStream, \* the session whose stream is on the screen
    mounted,     \* the page
    sock,        \* readyState of each socket
    stage,       \* what the relay and the agent have sent on it
    sent,        \* what went out on it
    kx,          \* where its key_offer handler is
    rtc,         \* where its rtc_offer handler is
    peer,        \* its RTCPeerConnection
    chan,        \* readyState of its data channels
    strays,      \* peers that were given a candidate of another session
    made,        \* number of inputs of the user so far
    flight,      \* inputs on the sealed path: with `to` Null still in encrypt()
    got,         \* inputs that agents have carried out, in the order of arrival
    lost,        \* history: sockets that were alive when the ref to them was cleared
    late         \* history: sessions whose key was derived when a later one had begun

refVars    == <<ws, pc, e2ee, inputDC, inputMoveDC>>
pageVars   == <<attempt, state, error, videoStream, mounted>>
socketVars == <<sock, stage, sent>>
peerVars   == <<kx, rtc, peer, chan, strays>>
inputVars  == <<made, flight, got>>
vars == <<attempt, ws, pc, e2ee, inputDC, inputMoveDC, state, error, videoStream, mounted,
          sock, stage, sent, kx, rtc, peer, chan, strays, made, flight, got, lost, late>>

historyVars == <<lost, late>>

Init ==
    /\ attempt = 0
    /\ ws = Null /\ pc = Null /\ e2ee = Null /\ inputDC = Null /\ inputMoveDC = Null
    /\ state = "idle" /\ error = Null /\ videoStream = Null /\ mounted = TRUE
    /\ sock = [s \in Sessions |-> "none"]
    /\ stage = [s \in Sessions |-> "none"]
    /\ sent = [s \in Sessions |-> {}]
    /\ kx = [s \in Sessions |-> "none"]
    /\ rtc = [s \in Sessions |-> "none"]
    /\ peer = [s \in Sessions |-> "none"]
    /\ chan = [s \in Sessions |-> [l \in Labels |-> "none"]]
    /\ strays = {}
    /\ made = 0 /\ flight = {} /\ got = <<>>
    /\ lost = {} /\ late = {}

LiveSocket(s) == sock[s] \in {"connecting", "open"}
LivePeer(s)   == peer[s] \notin {"none", "closed"}

------------------------------------------------------------------------------
(* close() of a socket or of a peer connection; of a null ref, nothing.     *)

\* A socket that is closed before it opened fails: with an error event.
CloseSocket(s) ==
    [t \in Sessions |-> IF t # s THEN sock[t]
                        ELSE IF sock[t] = "connecting" THEN "failing"
                        ELSE IF sock[t] = "open" THEN "closing" ELSE sock[t]]

\* Closing a peer connection closes its channels and raises no event.
ClosePeer(s) == [t \in Sessions |-> IF t = s THEN "closed" ELSE peer[t]]
CloseChannels(s) ==
    [t \in Sessions |-> IF t = s THEN [l \in Labels |-> "closed"] ELSE chan[t]]

\* socket.send: dropped without an error unless the socket is open.
SendOn(s, m) == [sent EXCEPT ![s] = IF sock[s] = "open" THEN @ \cup {m} ELSE @]

\* setError and setState('error').
ShowError(s) == error' = s /\ state' = "error"

\* The catch of both offers: the error of this handler, and its own socket.
HandlerFails(s) ==
    /\ ShowError(s)
    /\ sock' = CloseSocket(s)
    /\ UNCHANGED <<attempt, refVars, videoStream, mounted, stage, sent, chan, strays,
                   inputVars, historyVars>>

------------------------------------------------------------------------------
(* crypto.ts.  Each end makes an ephemeral key pair for every key_offer and *)
(* both derive the same key from their own private and the other's public   *)
(* key; so there is one key per session, and it goes by its number.         *)

\* A slip: one key pair for the life of the page.
StaticSessionKey(s) == 1

DeriveSessionKey(s) == s

\* What only the same key can open again.
Encrypt(k, n, m) == [n |-> n, key |-> k, made |-> m, to |-> Null]
Decrypts(k, c)   == c.key = k

------------------------------------------------------------------------------
(* ControlPage: one of two screens.                                         *)

RemoteScreenShown == mounted /\ state = "connected"
\* The form's button is disabled while connecting.
ConnectEnabled == mounted /\ state \notin {"connected", "connecting"}

\* A slip: the peer connection is dropped without being closed.
LeakyReset == /\ pc' = Null /\ e2ee' = Null /\ inputDC' = Null /\ inputMoveDC' = Null
              /\ UNCHANGED <<peer, chan>>
              /\ videoStream' = Null

\* What disconnect() does to the refs, as every connect() does first.
ResetRefs == /\ pc' = Null /\ e2ee' = Null /\ inputDC' = Null /\ inputMoveDC' = Null
             /\ peer' = ClosePeer(pc) /\ chan' = CloseChannels(pc)
             /\ videoStream' = Null

Connect ==
    /\ ConnectEnabled /\ attempt < MaxConnects
    /\ ResetRefs
    /\ attempt' = attempt + 1
    /\ ws' = attempt + 1
    /\ sock' = [CloseSocket(ws) EXCEPT ![attempt + 1] = "connecting"]
    /\ state' = "connecting" /\ error' = Null
    /\ UNCHANGED <<mounted, stage, sent, kx, rtc, strays, inputVars, historyVars>>

\* new URL() or new WebSocket() throws: connect() ends there, without a socket.
ConnectThrows ==
    /\ ConnectEnabled /\ attempt < MaxConnects
    /\ ResetRefs
    /\ attempt' = attempt + 1
    /\ ws' = Null
    /\ sock' = CloseSocket(ws)
    /\ state' = "connecting" /\ error' = Null
    /\ UNCHANGED <<mounted, stage, sent, kx, rtc, strays, inputVars, historyVars>>

Disconnect ==
    /\ RemoteScreenShown
    /\ ResetRefs
    /\ ws' = Null
    /\ sock' = CloseSocket(ws)
    /\ state' = "idle"
    /\ UNCHANGED <<attempt, error, mounted, stage, sent, kx, rtc, strays, inputVars, historyVars>>

\* The effect's cleanup, when the user leaves the page.
Unmount ==
    /\ mounted
    /\ mounted' = FALSE
    /\ peer' = ClosePeer(pc) /\ chan' = CloseChannels(pc)
    /\ sock' = CloseSocket(ws)
    /\ UNCHANGED <<attempt, refVars, state, error, videoStream, stage, sent, kx, rtc, strays,
                   inputVars, historyVars>>

------------------------------------------------------------------------------
(* Events of a socket.  Messages come only while it is open.                *)

Open(s) ==
    /\ sock[s] = "connecting"
    /\ sock' = [sock EXCEPT ![s] = "open"]
    /\ stage' = [stage EXCEPT ![s] = "asked"]
    /\ UNCHANGED <<sent, pageVars, refVars, peerVars, inputVars, historyVars>>

\* onclose: both refs are cleared, whichever socket they hold by now.
CloseEvent(s) ==
    /\ sock' = [sock EXCEPT ![s] = "closed"]
    /\ ws' = Null /\ e2ee' = Null
    /\ lost' = IF ws \notin {Null, s} /\ LiveSocket(ws) THEN lost \cup {ws} ELSE lost
    /\ UNCHANGED late

\* A failed socket raises onerror, which counts only before a peer connection
\* is there, and onclose at once.
SocketFails(s) ==
    /\ sock[s] \in {"connecting", "open", "failing"}
    /\ CloseEvent(s)
    /\ IF pc = Null THEN ShowError(s) ELSE UNCHANGED <<error, state>>
    /\ UNCHANGED <<pc, inputDC, inputMoveDC, attempt, videoStream, mounted, stage, sent, peerVars,
                   inputVars>>

\* Closed in order, whether the client or the other end began it.
SocketCloses(s) ==
    /\ sock[s] \in {"open", "closing"}
    /\ CloseEvent(s)
    /\ UNCHANGED <<pc, inputDC, inputMoveDC, pageVars, stage, sent, peerVars, inputVars>>

\* connected: only the ICE servers of the next peer connection.
Accepted(s) ==
    /\ sock[s] = "open" /\ stage[s] = "asked"
    /\ stage' = [stage EXCEPT ![s] = "accepted"]
    /\ UNCHANGED <<pageVars, refVars, sock, sent, peerVars, inputVars, historyVars>>

\* agent_offline and error: the socket is closed, the peer connection is not.
Dismissed(s) ==
    /\ sock[s] = "open" /\ stage[s] # "none"
    /\ ShowError(s)
    /\ sock' = CloseSocket(s)
    /\ UNCHANGED <<attempt, refVars, videoStream, mounted, stage, sent, peerVars, inputVars, historyVars>>

\* key_offer, up to its first await ...
KeyOffer(s) ==
    /\ sock[s] = "open" /\ stage[s] = "accepted"
    /\ stage' = [stage EXCEPT ![s] = "keyed"]
    /\ kx' = [kx EXCEPT ![s] = "deriving"]
    /\ UNCHANGED <<pageVars, refVars, sock, sent, rtc, peer, chan, strays, inputVars, historyVars>>

\* ... the key is there: e2ee is set, whatever session is on by now ...
KeyDerived(s) ==
    /\ kx[s] = "deriving"
    /\ kx' = [kx EXCEPT ![s] = "exporting"]
    /\ e2ee' = DeriveSessionKey(s)
    /\ late' = IF s = attempt THEN late ELSE late \cup {s}
    /\ UNCHANGED <<pageVars, ws, pc, inputDC, inputMoveDC, socketVars, rtc, peer, chan, strays,
                   inputVars, lost>>

\* ... and the answer goes out on the socket of the offer.
KeyAnswered(s) ==
    /\ kx[s] = "exporting"
    /\ kx' = [kx EXCEPT ![s] = "done"]
    /\ sent' = SendOn(s, "key_answer")
    /\ UNCHANGED <<pageVars, refVars, sock, stage, rtc, peer, chan, strays, inputVars, historyVars>>

KeyFails(s) ==
    /\ kx[s] \in {"deriving", "exporting"}
    /\ kx' = [kx EXCEPT ![s] = "failed"]
    /\ UNCHANGED <<rtc, peer>>
    /\ HandlerFails(s)

\* rtc_offer, up to the await of setRemoteDescription.
RtcOffer(s) ==
    /\ sock[s] = "open" /\ stage[s] = "keyed"
    /\ stage' = [stage EXCEPT ![s] = "offered"]
    /\ rtc' = [rtc EXCEPT ![s] = "remote"]
    /\ peer' = [peer EXCEPT ![s] = "new"]
    /\ pc' = s
    /\ UNCHANGED <<pageVars, ws, e2ee, inputDC, inputMoveDC, sock, sent, kx, chan, strays,
                   inputVars, historyVars>>

\* The description is applied.  ontrack comes with it: the page is `connected`
\* before the answer exists.
RemoteDescriptionSet(s) ==
    /\ rtc[s] = "remote" /\ LivePeer(s)
    /\ rtc' = [rtc EXCEPT ![s] = "local"]
    /\ videoStream' = s /\ state' = "connected"
    /\ UNCHANGED <<attempt, error, mounted, refVars, socketVars, kx, peer, chan, strays,
                   inputVars, historyVars>>

\* createAnswer and setLocalDescription are done: the answer goes out, and the
\* candidates after it.
RtcAnswered(s) ==
    /\ rtc[s] = "local" /\ LivePeer(s)
    /\ rtc' = [rtc EXCEPT ![s] = "answered"]
    /\ sent' = SendOn(s, "rtc_answer")
    /\ UNCHANGED <<pageVars, refVars, sock, stage, kx, peer, chan, strays, inputVars, historyVars>>

\* A slip: the failure is swallowed.
QuietRtcFails(s) ==
    /\ rtc[s] \in {"remote", "local"}
    /\ rtc' = [rtc EXCEPT ![s] = "failed"]
    /\ UNCHANGED <<pageVars, refVars, socketVars, kx, peer, chan, strays, inputVars, historyVars>>

\* One of the three fails: always possible, and certain to be the only way on
\* once the peer connection is closed (where it may also never settle).
RtcFails(s) ==
    /\ rtc[s] \in {"remote", "local"}
    /\ rtc' = [rtc EXCEPT ![s] = "failed"]
    /\ UNCHANGED <<kx, peer>>
    /\ HandlerFails(s)

\* rtc_ice_agent: to whatever peer connection is in the ref, or dropped.
AgentCandidate(s) ==
    /\ sock[s] = "open" /\ stage[s] \in {"keyed", "offered"}
    /\ strays' = IF pc \in {Null, s} THEN strays ELSE strays \cup {pc}
    /\ UNCHANGED <<pageVars, refVars, socketVars, kx, rtc, peer, chan, inputVars, historyVars>>

------------------------------------------------------------------------------
(* Events of a peer connection; none once it is closed.                     *)

PeerConnects(s) ==
    /\ peer[s] = "new" /\ "rtc_answer" \in sent[s]
    /\ peer' = [peer EXCEPT ![s] = "live"]
    /\ UNCHANGED <<pageVars, refVars, socketVars, kx, rtc, chan, strays, inputVars, historyVars>>

\* A slip: the page is given the state of the peer connection.
RawPeerFails(s) ==
    /\ peer[s] \in {"new", "live"} /\ rtc[s] \in {"local", "answered"}
    /\ peer' = [peer EXCEPT ![s] = "failed"]
    /\ error' = s /\ state' = "failed"
    /\ UNCHANGED <<attempt, videoStream, mounted, refVars, socketVars, kx, rtc, chan, strays,
                   inputVars, historyVars>>

\* onconnectionstatechange: failed.
PeerFails(s) ==
    /\ peer[s] \in {"new", "live"} /\ rtc[s] \in {"local", "answered"}
    /\ peer' = [peer EXCEPT ![s] = "failed"]
    /\ ShowError(s)
    /\ UNCHANGED <<attempt, videoStream, mounted, refVars, socketVars, kx, rtc, chan, strays,
                   inputVars, historyVars>>

\* ondatachannel, by label.
DataChannel(s, l) ==
    /\ peer[s] = "live" /\ chan[s][l] = "none"
    /\ chan' = [chan EXCEPT ![s][l] = "open"]
    /\ IF l = "input" THEN inputDC' = s /\ UNCHANGED inputMoveDC
                      ELSE inputMoveDC' = s /\ UNCHANGED inputDC
    /\ UNCHANGED <<pageVars, ws, pc, e2ee, socketVars, kx, rtc, peer, strays, inputVars, historyVars>>

\* The agent's end goes away.
ChannelsClose(s) ==
    /\ LivePeer(s) /\ \E l \in Labels : chan[s][l] = "open"
    /\ chan' = CloseChannels(s)
    /\ UNCHANGED <<pageVars, refVars, socketVars, kx, rtc, peer, strays, inputVars, historyVars>>

------------------------------------------------------------------------------
(* sendInput.                                                               *)

ChannelOpen(s, l) == s # Null /\ chan[s][l] = "open"

\* The channel an input takes.
Route(kind) ==
    IF kind = "mousemove" /\ ChannelOpen(inputMoveDC, "input-move") THEN inputMoveDC
    ELSE IF ChannelOpen(inputDC, "input") THEN inputDC ELSE Null

Input == [n: 1..MaxInputs, made: Sessions, to: Sessions, via: {"channel", "relay"}]

SendDirect(kind) ==
    /\ RemoteScreenShown /\ made < MaxInputs
    /\ Route(kind) # Null
    /\ made' = made + 1
    /\ \/ got' = Append(got, [n |-> made + 1, made |-> attempt, to |-> Route(kind), via |-> "channel"])
       \/ kind = "mousemove" /\ Route(kind) = inputMoveDC /\ UNCHANGED got
    /\ UNCHANGED <<flight, pageVars, refVars, socketVars, peerVars, historyVars>>

\* Fallback: the key is read, and encrypt() awaited.
SendSealed ==
    /\ RemoteScreenShown /\ made < MaxInputs
    /\ Route("key") = Null
    /\ ws # Null /\ sock[ws] = "open" /\ e2ee # Null
    /\ made' = made + 1
    /\ flight' = flight \cup {Encrypt(e2ee, made + 1, attempt)}
    /\ UNCHANGED <<got, pageVars, refVars, socketVars, peerVars, historyVars>>

\* encrypt() is done: the socket is read again, and may be another one or none.
Sealed(c) ==
    /\ c \in flight /\ c.to = Null
    /\ flight' = (flight \ {c}) \cup
                    (IF ws # Null /\ sock[ws] = "open" THEN {[c EXCEPT !.to = ws]} ELSE {})
    /\ UNCHANGED <<made, got, pageVars, refVars, socketVars, peerVars, historyVars>>

\* The relay hands it to the agent at the other end of that socket, whose
\* session opens it or drops it.
Relayed(c) ==
    /\ c \in flight /\ c.to # Null
    /\ flight' = flight \ {c}
    /\ got' = IF "key_answer" \in sent[c.to] /\ Decrypts(DeriveSessionKey(c.to), c)
              THEN Append(got, [n |-> c.n, made |-> c.made, to |-> c.to, via |-> "relay"])
              ELSE got
    /\ UNCHANGED <<made, pageVars, refVars, socketVars, peerVars, historyVars>>

------------------------------------------------------------------------------
Page == Connect \/ ConnectThrows \/ Disconnect \/ Unmount

RelayStep(s) == Accepted(s) \/ KeyOffer(s) \/ RtcOffer(s)

Socket(s) == Open(s) \/ SocketFails(s) \/ SocketCloses(s) \/ RelayStep(s) \/ Dismissed(s)
             \/ AgentCandidate(s)

KeyHandler(s) == KeyDerived(s) \/ KeyAnswered(s) \/ KeyFails(s)
RtcHandler(s) == RemoteDescriptionSet(s) \/ RtcAnswered(s) \/ RtcFails(s)

Peer(s) == \/ PeerConnects(s) \/ PeerFails(s) \/ ChannelsClose(s)
           \/ \E l \in Labels : DataChannel(s, l)

Inputs == \/ \E kind \in {"key", "mousemove"} : SendDirect(kind)
          \/ SendSealed
          \/ \E c \in flight : Sealed(c) \/ Relayed(c)

Next == \/ Page
        \/ \E s \in Sessions : Socket(s) \/ KeyHandler(s) \/ RtcHandler(s) \/ Peer(s)
        \/ Inputs

Spec == Init /\ [][Next]_vars

\* The browser opens or fails a socket and reports that it is closed; promises of
\* the key agreement and on an open peer connection settle.  Nothing is assumed
\* of the user, of the relay and the agent, or of a promise of a closed peer
\* connection.
Fairness ==
    \A s \in Sessions :
        /\ WF_vars(Open(s) \/ (sock[s] # "open" /\ SocketFails(s)))
        /\ WF_vars(sock[s] = "closing" /\ SocketCloses(s))
        /\ WF_vars(KeyHandler(s))
        /\ WF_vars(LivePeer(s) /\ RtcHandler(s))

FairSpec == Spec /\ Fairness

------------------------------------------------------------------------------
\* Types of the hook's refs and state and of what they refer to.
TypeOK ==
    /\ attempt \in Refs
    /\ {ws, pc, e2ee, inputDC, inputMoveDC, videoStream, error} \subseteq Refs
    /\ state \in {"idle", "connecting", "connected", "error"} /\ mounted \in BOOLEAN
    /\ sock \in [Sessions -> {"none", "connecting", "open", "failing", "closing", "closed"}]
    /\ stage \in [Sessions -> {"none", "asked", "accepted", "keyed", "offered"}]
    /\ sent \in [Sessions -> SUBSET {"key_answer", "rtc_answer"}]
    /\ kx \in [Sessions -> {"none", "deriving", "exporting", "done", "failed"}]
    /\ rtc \in [Sessions -> {"none", "remote", "local", "answered", "failed"}]
    /\ peer \in [Sessions -> {"none", "new", "live", "failed", "closed"}]
    /\ chan \in [Sessions -> [Labels -> {"none", "open", "closed"}]]
    /\ strays \subseteq Sessions
    /\ made \in 0 .. MaxInputs
    /\ flight \subseteq [n: 1..MaxInputs, key: Sessions, made: Sessions, to: Refs]
    /\ got \in Seq(Input) /\ Len(got) <= MaxInputs
    /\ lost \subseteq Sessions /\ late \subseteq Sessions

\* As long as no socket was forgotten, one session at most has an open socket
\* or an unclosed peer connection, it is the last one the user asked for, the
\* refs lead to both, and leaving the page or ending the session closes them.
OnlyTheAttemptLives ==
    lost = {} => \A s \in Sessions :
                    /\ LiveSocket(s) => mounted /\ state # "idle" /\ ws = s /\ attempt = s
                    /\ LivePeer(s) => mounted /\ state # "idle" /\ pc = s /\ attempt = s

\* The remote screen has a stream, and, as long as no socket was forgotten,
\* the stream, the peer connection and the data channels in use are those of
\* the last session, also when the handler of an old offer ends late.
ScreenIsOfOneSession ==
    /\ state = "connected" => videoStream # Null
    /\ lost = {} => {videoStream, pc, inputDC, inputMoveDC} \subseteq {Null, attempt}

\* An input takes effect on the machine the user had on the screen when making
\* it: always on the sealed path, although encrypt() is awaited and the socket
\* read after it, and on a data channel as long as no socket was forgotten.
InputsOfTheScreen ==
    \A i \in 1 .. Len(got) :
        got[i].via = "relay" \/ lost = {} => got[i].to = got[i].made

\* With the remote screen shown, an open socket and an agreed key, the sealed
\* path is there to fall back on, with the key of the session shown, as long as
\* no socket was forgotten.  It has another key only when the handler of an
\* earlier session's key_offer was overtaken at its await and replaced the ref
\* afterwards; what is sealed with that one goes nowhere (Relayed).
SealedPathReady ==
    /\ RemoteScreenShown /\ lost = {}
    /\ attempt # Null /\ sock[attempt] = "open" /\ kx[attempt] \in {"exporting", "done"}
    => ws = attempt /\ (e2ee = attempt \/ e2ee \in late)

\* sendInput: no input goes astray, and while it can, it has a way to go.
InputGoesWhereShown == InputsOfTheScreen /\ SealedPathReady

\* An error on the page belongs to the last session, but for three ways: a
\* handler that was overtaken at an await and failed afterwards, a socket that
\* was closed before it opened, and a forgotten socket.
ErrorIsOwnOrLate ==
    /\ state = "error" => error # Null
    /\ error \notin {Null, attempt} => \/ kx[error] = "failed" \/ rtc[error] = "failed"
                                       \/ stage[error] = "none" \/ lost # {}

\* However connects, disconnects, awaits and late events of old sockets follow one
\* another, the page holds one session, shows that one, and blames no other for an
\* error (connect, disconnect and the handlers of useRemoteSession).
OneSessionLives == OnlyTheAttemptLives /\ ScreenIsOfOneSession /\ ErrorIsOwnOrLate

\* What the page cannot know: connect() threw, or nobody has sent the offer, on a
\* socket that is still open or was closed in order, which onclose does not show.
Unanswered ==
    attempt # Null /\ \/ sock[attempt] = "none"
                      \/ sock[attempt] \in {"open", "closed"} /\ stage[attempt] # "offered"

\* A page that stays `connecting` does so for want of an answer: no handler that
\* was overtaken, no late event of an old session and no failure of the browser
\* leaves it there (onmessage, onerror and onclose of useRemoteSession).
OnlyUnansweredWaits == []<>(state # "connecting" \/ ~mounted \/ Unanswered)

\* How the screens change, which is all that ControlPage goes by (DeviceHistory): a
\* session begins only where the form is, the page is idle only because the user
\* ended what was shown, and what was ended stays off the screen, unless a socket was
\* forgotten (connect, disconnect and setState in the handlers of useRemoteSession).
PageStep ==
    state' # state =>
        /\ state' = "connecting" => ConnectEnabled
        /\ state' = "idle" => RemoteScreenShown
        /\ state = "idle" => attempt' # Null \/ state' = "connecting"
        /\ state = "idle" /\ state' = "connected" => lost # {}
ScreensInOrder == [][PageStep]_vars
==============================================================================
