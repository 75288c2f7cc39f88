------------------------------ MODULE AgentCore ------------------------------
(***************************************************************************)
(* The agent's connection to the relay and what it keeps per viewer,       *)
(* agent/main.go: the reconnect loop of main and the signal goroutine, run *)
(* (dial, authenticate, readPump), the writePump of every connection, one  *)
(* startRTC goroutine per viewer_joined, and the WebRTC callbacks.         *)
(*                                                                         *)
(* Connections are numbered by the successful dials.  An element of        *)
(* Viewers is one viewer connection at the relay, so it joins once and its *)
(* E2EE session and peer connection are those of that one startRTC.  Every *)
(* critical section under sessionsMu, rtcMu, chatMu or pendingIceMu that   *)
(* another goroutine can observe is an action.                             *)
(***************************************************************************)
EXTENDS Naturals, Sequences, FiniteSets

CONSTANTS
    Viewers,    \* viewer connections
    MaxConns,   \* bound: connections that are dialled successfully
    MaxIce,     \* bound: ICE candidates of a viewer, each way
    SendCap,    \* capacity of Agent.send (256 in the code)
    None

ASSUME NoneAssumption == None \notin Viewers
ASSUME BoundsAssumption == MaxConns \in Nat /\ MaxIce \in Nat /\ SendCap \in Nat \ {0}

Conns == 1..MaxConns

VARIABLES
    allowControl, \* Agent.allowControl, from the configuration
    loop,       \* where main's reconnect loop is
    epoch,      \* the connection a.conn and a.send belong to, 0 before the first
    cancelled,  \* the context of main is cancelled
    signal,     \* the goroutine that waits for SIGTERM
    lastEpoch,  \* the epoch when the context was cancelled
    alive,      \* connections that are not closed
    send,       \* the channel made by each dial
    writer,     \* writePump of each connection
    reader,     \* where the viewer_left case of readPump is
    leaving,    \* the viewer it is about
    sessions,   \* Agent.sessions and the state of each session
    rtcPeers,   \* keys of Agent.rtcPeers
    chatDCs,    \* keys of Agent.chatDCs
    pendingIce, \* number of buffered candidates, Agent.pendingIce
    watched,    \* Agent.viewerCount is not 0
    start,      \* where startRTC of a viewer is
    peer,       \* the peer connection startRTC made
    answered,   \* it has its remote description
    iceOut,     \* candidates the agent found
    owed,       \* candidates of the viewer accepted by readPump
    applied,    \* candidates given to the peer connection
    member,     \* what readPump has been told of the viewer
    home,       \* the connection the viewer joined on
    heard,      \* what the viewer got of the agent
    said,       \* the answers the viewer has given
    hasty       \* viewers that left while startRTC was still running

loopVars   == <<allowControl, loop, epoch, cancelled, signal, lastEpoch, alive>>
sendVars   == <<send>>
writerVars == <<writer, heard>>
tableVars  == <<sessions, rtcPeers, chatDCs, pendingIce, watched>>
rtcVars    == <<start, peer, answered, iceOut, owed, applied>>
readVars   == <<reader, leaving, member, home, said, hasty>>
vars == <<allowControl, loop, epoch, cancelled, signal, lastEpoch, alive, send, writer,
          reader, leaving, sessions, rtcPeers, chatDCs, pendingIce, watched, start, peer, answered,
          iceOut, owed, applied, member, home, heard, said, hasty>>

Message == [type: {"key_offer", "rtc_ice_agent", "rtc_offer", "reject_viewer"}, viewer: Viewers]
Msg(t, v) == [type |-> t, viewer |-> v]

Loops   == {"connect", "auth", "reading", "returned", "sleep", "stopped", "exited"}
Starts  == {"none", "session", "key", "chat", "publish", "offer", "done"}
Running == loop \notin {"stopped", "exited"}
Joined(v) == member[v] = "in" /\ home[v] = epoch
Receiving == loop = "reading" /\ reader = "idle" /\ epoch \in alive

Init ==
    /\ allowControl \in BOOLEAN
    /\ loop = "connect" /\ epoch = 0
    /\ cancelled = FALSE /\ signal = "waiting" /\ lastEpoch = 0
    /\ alive = {}
    /\ send = [c \in Conns |-> <<>>]
    /\ writer = [c \in Conns |-> "none"]
    /\ reader = "idle" /\ leaving = None
    /\ sessions = [v \in Viewers |-> "none"]
    /\ rtcPeers = {} /\ chatDCs = {}
    /\ pendingIce = [v \in Viewers |-> 0]
    /\ watched = FALSE
    /\ start = [v \in Viewers |-> "none"]
    /\ peer = [v \in Viewers |-> "none"]
    /\ answered = [v \in Viewers |-> FALSE]
    /\ iceOut = [v \in Viewers |-> 0]
    /\ owed = [v \in Viewers |-> 0]
    /\ applied = [v \in Viewers |-> 0]
    /\ member = [v \in Viewers |-> "out"]
    /\ home = [v \in Viewers |-> 0]
    /\ heard = [v \in Viewers |-> {}]
    /\ said = [v \in Viewers |-> {}]
    /\ hasty = {}

\* An off-by-one slip in the capacity of the channel.
TightEnqueue(m) ==
    send' = [send EXCEPT ![epoch] = IF Len(@) + 1 < SendCap THEN Append(@, m) ELSE @]

\* enqueue: into a.send as it is now, dropped when full.
Enqueue(m) ==
    send' = [send EXCEPT ![epoch] = IF Len(@) < SendCap THEN Append(@, m) ELSE @]

------------------------------------------------------------------------------
(* Plausible slips in the code, for trying the properties against.          *)

\* viewer_left keeps the chat channel.
ChattyLeftChat ==
    /\ loop = "reading" /\ reader = "chat"
    /\ reader' = "idle" /\ leaving' = None
    /\ UNCHANGED <<loopVars, sendVars, writerVars, tableVars, rtcVars, member, home, said, hasty>>

\* viewer_left keeps the E2EE session.
KeepingLeftSession ==
    /\ loop = "reading" /\ reader = "session"
    /\ reader' = "chat"
    /\ UNCHANGED <<loopVars, sendVars, writerVars, tableVars, rtcVars, leaving, member, home, said, hasty>>

\* rtc_answer does not flush the buffer.
DryRtcAnswer(v) ==
    /\ Receiving /\ Joined(v)
    /\ "rtc_offer" \in heard[v] /\ "rtc_answer" \notin said[v]
    /\ said' = [said EXCEPT ![v] = @ \cup {"rtc_answer"}]
    /\ v \in rtcPeers /\ peer[v] = "open"
    /\ answered' = [answered EXCEPT ![v] = TRUE]
    /\ UNCHANGED <<loopVars, sendVars, writerVars, tableVars, start, peer, iceOut, owed, applied,
                   reader, leaving, member, home, hasty>>

\* A candidate is applied at once and buffered too.
EagerViewerCandidate(v) ==
    /\ Receiving /\ Joined(v)
    /\ "rtc_offer" \in heard[v] /\ v \in rtcPeers /\ owed[v] < MaxIce
    /\ owed' = [owed EXCEPT ![v] = @ + 1]
    /\ applied' = [applied EXCEPT ![v] = @ + 1]
    /\ pendingIce' = [pendingIce EXCEPT ![v] = IF answered[v] THEN @ ELSE @ + 1]
    /\ UNCHANGED <<loopVars, sendVars, writerVars, sessions, rtcPeers, chatDCs, watched, readVars,
                   start, peer, answered, iceOut>>

\* run waits for its writer to end.
JoiningRunReturns ==
    /\ loop \in {"auth", "reading"} /\ reader = "idle" /\ writer[epoch] # "running"
    /\ loop' = "returned"
    /\ alive' = alive \ {epoch}
    /\ UNCHANGED <<allowControl, epoch, cancelled, signal, lastEpoch, sendVars, writerVars,
                   tableVars, rtcVars, readVars>>

\* The loop goes on without looking at the context.
StubbornReturn ==
    /\ loop = "returned"
    /\ loop' = "sleep"
    /\ sessions' = [v \in Viewers |-> "none"]
    /\ rtcPeers' = {}
    /\ pendingIce' = [v \in Viewers |-> 0]
    /\ UNCHANGED <<allowControl, epoch, cancelled, signal, lastEpoch, alive, sendVars, writerVars,
                   rtcVars, readVars, chatDCs, watched>>

------------------------------------------------------------------------------
(* main's loop and run.                                                     *)

\* dial: a.conn and a.send are replaced.
Dial ==
    /\ loop = "connect" /\ epoch < MaxConns
    /\ loop' = "auth"
    /\ epoch' = epoch + 1
    /\ alive' = alive \cup {epoch + 1}
    /\ UNCHANGED <<allowControl, cancelled, signal, lastEpoch, sendVars, writerVars, tableVars,
                   rtcVars, readVars>>

DialFails ==
    /\ loop = "connect"
    /\ loop' = "returned"
    /\ UNCHANGED <<allowControl, epoch, cancelled, signal, lastEpoch, alive, sendVars, writerVars,
                   tableVars, rtcVars, readVars>>

\* authenticate got `registered`: start the pumps.
Authenticated ==
    /\ loop = "auth" /\ epoch \in alive
    /\ loop' = "reading"
    /\ writer' = [writer EXCEPT ![epoch] = "running"]
    /\ UNCHANGED <<allowControl, epoch, cancelled, signal, lastEpoch, alive, sendVars, heard,
                   tableVars, rtcVars, readVars>>

\* authenticate got `error`: os.Exit(1), whatever else is going on.
AuthRejected ==
    /\ loop = "auth" /\ epoch \in alive
    /\ loop' = "exited"
    /\ UNCHANGED <<allowControl, epoch, cancelled, signal, lastEpoch, alive, sendVars, writerVars,
                   tableVars, rtcVars, readVars>>

\* run returns after an error of authenticate or of ReadMessage, and its
\* deferred Close closes the connection.
RunReturns ==
    /\ loop \in {"auth", "reading"} /\ reader = "idle"
    /\ loop' = "returned"
    /\ alive' = alive \ {epoch}
    /\ UNCHANGED <<allowControl, epoch, cancelled, signal, lastEpoch, sendVars, writerVars,
                   tableVars, rtcVars, readVars>>

\* After run: stop if cancelled, else reset the three maps (without their
\* mutexes, and without closing the peers) and sleep.
Return ==
    /\ loop = "returned"
    /\ IF cancelled
       THEN loop' = "stopped" /\ UNCHANGED <<sessions, rtcPeers, pendingIce>>
       ELSE /\ loop' = "sleep"
            /\ sessions' = [v \in Viewers |-> "none"]
            /\ rtcPeers' = {}
            /\ pendingIce' = [v \in Viewers |-> 0]
    /\ UNCHANGED <<allowControl, epoch, cancelled, signal, lastEpoch, alive, sendVars, writerVars,
                   rtcVars, readVars, chatDCs, watched>>

\* The select of the sleep: either branch when both are ready.
Wake ==
    /\ loop = "sleep"
    /\ \/ loop' = "connect"
       \/ cancelled /\ loop' = "stopped"
    /\ UNCHANGED <<allowControl, epoch, cancelled, signal, lastEpoch, alive, sendVars, writerVars,
                   tableVars, rtcVars, readVars>>

\* The signal goroutine: cancel(), then close the connection of the moment.
Cancel ==
    /\ signal = "waiting"
    /\ signal' = "cancelled" /\ cancelled' = TRUE /\ lastEpoch' = epoch
    /\ UNCHANGED <<allowControl, loop, epoch, alive, sendVars, writerVars, tableVars, rtcVars, readVars>>

CloseOnSignal ==
    /\ signal = "cancelled"
    /\ signal' = "done"
    /\ alive' = alive \ {epoch}
    /\ UNCHANGED <<allowControl, loop, epoch, cancelled, lastEpoch, sendVars, writerVars, tableVars,
                   rtcVars, readVars>>

------------------------------------------------------------------------------
(* writePump: connection and channel are captured when it starts.           *)

\* One message; the viewer gets it if the relay still has it on this connection.
Write(c) ==
    LET m == Head(send[c])
    IN  /\ writer[c] = "running"
        /\ c \in alive
        /\ send[c] # <<>>
        /\ send' = [send EXCEPT ![c] = Tail(@)]
        /\ heard' = [heard EXCEPT ![m.viewer] =
                        IF member[m.viewer] = "in" /\ home[m.viewer] = c THEN @ \cup {m.type} ELSE @]
        /\ UNCHANGED <<loopVars, tableVars, rtcVars, readVars, writer>>

\* A write or ping fails.  The connection is not closed here.
WriterStops(c) ==
    /\ writer[c] = "running"
    /\ writer' = [writer EXCEPT ![c] = "done"]
    /\ UNCHANGED <<loopVars, sendVars, heard, tableVars, rtcVars, readVars>>

------------------------------------------------------------------------------
(* startRTC, one goroutine per viewer.                                      *)

StartSession(v) ==
    /\ start[v] = "session"
    /\ start' = [start EXCEPT ![v] = "key"]
    /\ sessions' = [sessions EXCEPT ![v] = "keyed"]
    /\ UNCHANGED <<loopVars, sendVars, writerVars, rtcPeers, chatDCs, pendingIce, watched, readVars,
                   peer, answered, iceOut, owed, applied>>

\* key_offer, and then the peer connection.
StartKey(v) ==
    /\ start[v] = "key"
    /\ start' = [start EXCEPT ![v] = "chat"]
    /\ peer' = [peer EXCEPT ![v] = "open"]
    /\ Enqueue(Msg("key_offer", v))
    /\ UNCHANGED <<loopVars, writerVars, tableVars, readVars, answered, iceOut, owed, applied>>

\* Callbacks and data channels; without a chat channel startRTC goes on.
StartChat(v) ==
    /\ start[v] = "chat"
    /\ start' = [start EXCEPT ![v] = "publish"]
    /\ chatDCs' \in {chatDCs, chatDCs \cup {v}}
    /\ UNCHANGED <<loopVars, sendVars, writerVars, sessions, rtcPeers, pendingIce, watched, readVars,
                   peer, answered, iceOut, owed, applied>>

\* CreateOffer, SetLocalDescription (candidates are gathered from here on) and
\* the map entry.
StartPublish(v) ==
    /\ start[v] = "publish"
    /\ start' = [start EXCEPT ![v] = "offer"]
    /\ rtcPeers' = rtcPeers \cup {v}
    /\ UNCHANGED <<loopVars, sendVars, writerVars, sessions, chatDCs, pendingIce, watched, readVars,
                   peer, answered, iceOut, owed, applied>>

StartOffer(v) ==
    /\ start[v] = "offer"
    /\ start' = [start EXCEPT ![v] = "done"]
    /\ Enqueue(Msg("rtc_offer", v))
    /\ UNCHANGED <<loopVars, writerVars, tableVars, readVars, peer, answered, iceOut, owed, applied>>

\* session.New, AddTrack, CreateOffer or SetLocalDescription fails; what is in
\* the maps by then stays there.
StartFails(v) ==
    /\ start[v] \in {"session", "chat", "publish"}
    /\ start' = [start EXCEPT ![v] = "done"]
    /\ peer' = [peer EXCEPT ![v] = IF @ = "open" THEN "closed" ELSE @]
    /\ UNCHANGED <<loopVars, sendVars, writerVars, tableVars, readVars, answered, iceOut, owed, applied>>

\* NewPeerConnection fails, after the key_offer.
StartPeerFails(v) ==
    /\ start[v] = "key"
    /\ start' = [start EXCEPT ![v] = "done"]
    /\ Enqueue(Msg("key_offer", v))
    /\ UNCHANGED <<loopVars, writerVars, tableVars, readVars, peer, answered, iceOut, owed, applied>>

\* OnICECandidate, at any time once gathering has begun.
FindCandidate(v) ==
    /\ peer[v] = "open" /\ start[v] \in {"offer", "done"} /\ iceOut[v] < MaxIce
    /\ iceOut' = [iceOut EXCEPT ![v] = @ + 1]
    /\ Enqueue(Msg("rtc_ice_agent", v))
    /\ UNCHANGED <<loopVars, writerVars, tableVars, readVars, start, peer, answered, owed, applied>>

\* OnConnectionStateChange(Failed): the entry goes, the peer is not closed.
PeerFails(v) ==
    /\ peer[v] = "open" /\ answered[v]
    /\ peer' = [peer EXCEPT ![v] = "failed"]
    /\ rtcPeers' = rtcPeers \ {v}
    /\ UNCHANGED <<loopVars, sendVars, writerVars, sessions, chatDCs, pendingIce, watched, readVars,
                   start, answered, iceOut, owed, applied>>

------------------------------------------------------------------------------
(* readPump: one message at a time.  What can arrive is what the relay and  *)
(* an honest viewer send: viewer_joined first, one answer per offer heard,   *)
(* viewer_left last.                                                        *)

\* viewer_joined: a goroutine, or a rejection when control is not allowed.
ViewerJoined(v) ==
    /\ Receiving /\ member[v] = "out"
    /\ member' = [member EXCEPT ![v] = "in"]
    /\ home' = [home EXCEPT ![v] = epoch]
    /\ watched' = TRUE
    /\ IF allowControl
       THEN start' = [start EXCEPT ![v] = "session"] /\ UNCHANGED send
       ELSE Enqueue(Msg("reject_viewer", v)) /\ UNCHANGED start
    /\ UNCHANGED <<loopVars, writerVars, sessions, rtcPeers, chatDCs, pendingIce, peer, answered,
                   iceOut, owed, applied, reader, leaving, said, hasty>>

\* viewer_left, under rtcMu: close the peer if it is there.  The count it
\* carries may be stale (Relay.CountSettles), so it is zero or not.
LeftPeer(v) ==
    /\ Receiving /\ Joined(v)
    /\ member' = [member EXCEPT ![v] = "left"]
    /\ watched' \in BOOLEAN
    /\ peer' = [peer EXCEPT ![v] = IF v \in rtcPeers THEN "closed" ELSE @]
    /\ rtcPeers' = rtcPeers \ {v}
    /\ hasty' = IF start[v] \in {"none", "done"} THEN hasty ELSE hasty \cup {v}
    /\ reader' = "session" /\ leaving' = v
    /\ UNCHANGED <<loopVars, sendVars, writerVars, sessions, chatDCs, pendingIce, start, answered,
                   iceOut, owed, applied, home, said>>

\* Then under sessionsMu ...
LeftSession ==
    /\ loop = "reading" /\ reader = "session"
    /\ reader' = "chat"
    /\ sessions' = [sessions EXCEPT ![leaving] = "none"]
    /\ UNCHANGED <<loopVars, sendVars, writerVars, rtcPeers, chatDCs, pendingIce, watched, rtcVars,
                   leaving, member, home, said, hasty>>

\* ... and under chatMu.
LeftChat ==
    /\ loop = "reading" /\ reader = "chat"
    /\ reader' = "idle" /\ leaving' = None
    /\ chatDCs' = chatDCs \ {leaving}
    /\ UNCHANGED <<loopVars, sendVars, writerVars, sessions, rtcPeers, pendingIce, watched, rtcVars,
                   member, home, said, hasty>>

\* key_answer: an empty key or a failing Complete drops the session.
KeyAnswer(v) ==
    /\ Receiving /\ Joined(v)
    /\ "key_offer" \in heard[v] /\ "key_answer" \notin said[v]
    /\ said' = [said EXCEPT ![v] = @ \cup {"key_answer"}]
    /\ \/ sessions' = [sessions EXCEPT ![v] = "none"]
       \/ sessions' = [sessions EXCEPT ![v] = IF @ = "none" THEN @ ELSE "ready"]
    /\ UNCHANGED <<loopVars, sendVars, writerVars, rtcPeers, chatDCs, pendingIce, watched, rtcVars,
                   reader, leaving, member, home, hasty>>

\* rtc_answer: SetRemoteDescription, then the buffered candidates.
RtcAnswer(v) ==
    /\ Receiving /\ Joined(v)
    /\ "rtc_offer" \in heard[v] /\ "rtc_answer" \notin said[v]
    /\ said' = [said EXCEPT ![v] = @ \cup {"rtc_answer"}]
    /\ v \in rtcPeers /\ peer[v] = "open"
    /\ answered' = [answered EXCEPT ![v] = TRUE]
    /\ applied' = [applied EXCEPT ![v] = @ + pendingIce[v]]
    /\ pendingIce' = [pendingIce EXCEPT ![v] = 0]
    /\ UNCHANGED <<loopVars, sendVars, writerVars, sessions, rtcPeers, chatDCs, watched, start, peer,
                   iceOut, owed, reader, leaving, member, home, hasty>>

\* The answer is refused, or no peer is in the map any more.
RtcAnswerFails(v) ==
    /\ Receiving /\ Joined(v)
    /\ "rtc_offer" \in heard[v] /\ "rtc_answer" \notin said[v]
    /\ said' = [said EXCEPT ![v] = @ \cup {"rtc_answer"}]
    /\ UNCHANGED <<loopVars, sendVars, writerVars, tableVars, rtcVars, reader, leaving, member, home, hasty>>

\* rtc_ice_viewer for a peer in the map: applied, or buffered without a remote
\* description.  Without a peer nothing changes.
ViewerCandidate(v) ==
    /\ Receiving /\ Joined(v)
    /\ "rtc_offer" \in heard[v] /\ v \in rtcPeers /\ owed[v] < MaxIce
    /\ owed' = [owed EXCEPT ![v] = @ + 1]
    /\ IF answered[v]
       THEN applied' = [applied EXCEPT ![v] = @ + 1] /\ UNCHANGED pendingIce
       ELSE pendingIce' = [pendingIce EXCEPT ![v] = @ + 1] /\ UNCHANGED applied
    /\ UNCHANGED <<loopVars, sendVars, writerVars, sessions, rtcPeers, chatDCs, watched, readVars,
                   start, peer, answered, iceOut>>

------------------------------------------------------------------------------
Loop == Dial \/ DialFails \/ Authenticated \/ AuthRejected \/ RunReturns \/ Return \/ Wake

StartRTC(v) ==
    \/ StartSession(v) \/ StartKey(v) \/ StartChat(v) \/ StartPublish(v)
    \/ StartOffer(v) \/ StartFails(v) \/ StartPeerFails(v)

Read(v) ==
    \/ ViewerJoined(v) \/ LeftPeer(v) \/ KeyAnswer(v)
    \/ RtcAnswer(v) \/ RtcAnswerFails(v) \/ ViewerCandidate(v)

Next ==
    /\ Running
    /\ \/ Loop \/ Cancel \/ CloseOnSignal \/ LeftSession \/ LeftChat
       \/ \E c \in Conns : Write(c) \/ WriterStops(c)
       \/ \E v \in Viewers : StartRTC(v) \/ FindCandidate(v) \/ PeerFails(v) \/ Read(v)

Spec == Init /\ [][Next]_vars

(***************************************************************************)
(* Fairness.  The goroutines run, writes to an open connection complete or *)
(* fail (10 s write deadline), and ReadMessage fails on a closed           *)
(* connection and, since only pongs move the 60 s read deadline, on one    *)
(* whose writer no longer pings.  Nothing is assumed of the relay, the     *)
(* viewers or of an operator stopping the agent.                           *)
(***************************************************************************)
LoopRuns ==
    \/ DialFails \/ Return \/ Wake \/ LeftSession \/ LeftChat
    \/ RunReturns /\ (epoch \notin alive \/ loop = "auth" \/ writer[epoch] = "done")

Fairness ==
    /\ WF_vars(Running /\ LoopRuns)
    /\ WF_vars(Running /\ CloseOnSignal)
    /\ \A c \in Conns : WF_vars(Running /\ Write(c))
    /\ \A v \in Viewers : WF_vars(Running /\ StartRTC(v))

FairSpec == Spec /\ Fairness

------------------------------------------------------------------------------
\* Types, and the bound of every channel.
TypeOK ==
    /\ allowControl \in BOOLEAN /\ cancelled \in BOOLEAN /\ watched \in BOOLEAN
    /\ loop \in Loops
    /\ epoch \in 0..MaxConns /\ lastEpoch \in 0..MaxConns
    /\ signal \in {"waiting", "cancelled", "done"}
    /\ alive \subseteq Conns
    /\ send \in [Conns -> Seq(Message)] /\ \A c \in Conns : Len(send[c]) <= SendCap
    /\ writer \in [Conns -> {"none", "running", "done"}]
    /\ reader \in {"idle", "session", "chat"} /\ leaving \in Viewers \cup {None}
    /\ sessions \in [Viewers -> {"none", "keyed", "ready"}]
    /\ rtcPeers \subseteq Viewers /\ chatDCs \subseteq Viewers
    /\ pendingIce \in [Viewers -> 0..MaxIce]
    /\ start \in [Viewers -> Starts]
    /\ peer \in [Viewers -> {"none", "open", "failed", "closed"}]
    /\ answered \in [Viewers -> BOOLEAN]
    /\ iceOut \in [Viewers -> 0..MaxIce] /\ owed \in [Viewers -> 0..MaxIce]
    /\ applied \in [Viewers -> 0..MaxIce]
    /\ member \in [Viewers -> {"out", "in", "left"}]
    /\ home \in [Viewers -> 0..MaxConns]
    /\ heard \in [Viewers -> SUBSET {"key_offer", "rtc_ice_agent", "rtc_offer", "reject_viewer"}]
    /\ said \in [Viewers -> SUBSET {"key_answer", "rtc_answer"}]
    /\ hasty \subseteq Viewers

\* No candidate of a viewer is stranded: once the answer of a session of this
\* connection is in, everything accepted of that viewer, before the answer or
\* after, has reached the peer connection exactly once (pendingIce).
NoStrandedCandidates ==
    \A v \in Viewers : loop = "reading" /\ home[v] = epoch /\ answered[v]
        => pendingIce[v] = 0 /\ applied[v] = owed[v]

\* A viewer whose departure is handled after its startRTC has ended leaves no
\* entry in the peer, session and chat maps, whatever failed on the way.
SettledViewersLeaveNothing ==
    \A v \in Viewers : member[v] = "left" /\ v \notin hasty /\ leaving # v
        => v \notin rtcPeers /\ v \notin chatDCs /\ sessions[v] = "none"

\* The only sessions that can decrypt input while a connection is served are
\* those of viewers of that connection that have not left: not one of an
\* earlier connection, and not one a late startRTC put into the map.
ReadySessionsArePresent ==
    \A v \in Viewers : loop = "reading" /\ sessions[v] = "ready"
        => home[v] = epoch /\ (member[v] = "in" \/ leaving = v)

\* A cancelled agent dials at most one connection more (run does not look at
\* the context, the loop around it does).
CancelledDialsOnce == cancelled => epoch <= lastEpoch + 1

------------------------------------------------------------------------------
\* A joined viewer gets its offer, unless it leaves, startRTC or the peer
\* fails, its connection goes or the agent ends: startRTC and the writer
\* never wait for one another.
OfferReachesViewer ==
    \A v \in Viewers : (start[v] = "session") ~>
        \/ "rtc_offer" \in heard[v]
        \/ member[v] = "left" \/ (peer[v] # "open" /\ start[v] = "done")
        \/ home[v] # epoch \/ loop # "reading" \/ writer[epoch] = "done" \/ epoch \notin alive

\* A connection that is closed or that nobody pings is given up, and the loop
\* dials again or the agent ends.
DeadConnectionIsReplaced ==
    (loop = "reading" /\ (epoch \notin alive \/ writer[epoch] = "done"))
        ~> (loop = "connect" \/ ~Running)
==============================================================================
