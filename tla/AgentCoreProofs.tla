--------------------------- MODULE AgentCoreProofs ---------------------------
(***************************************************************************)
(* What the agent keeps per viewer is right for any number of viewers,     *)
(* reconnects and candidates.  The invariants of AgentCore are not         *)
(* inductive; the parts below say where in the loop a stale entry may      *)
(* still exist, and what is left to clean while viewer_left is handled.    *)
(***************************************************************************)
EXTENDS AgentCore, TLAPS

\* Types of the variables the other parts are about.
Types ==
    /\ epoch \in 0..MaxConns /\ lastEpoch \in 0..MaxConns
    /\ loop \in Loops
    /\ sessions \in [Viewers -> {"none", "keyed", "ready"}]
    /\ start \in [Viewers -> Starts]
    /\ pendingIce \in [Viewers -> Nat]
    /\ owed \in [Viewers -> 0..MaxIce]
    /\ applied \in [Viewers -> Nat]
    /\ answered \in [Viewers -> BOOLEAN]
    /\ member \in [Viewers -> {"out", "in", "left"}]
    /\ home \in [Viewers -> 0..MaxConns]
    /\ hasty \subseteq Viewers

\* The channels, and their bound.
ChannelsOK ==
    /\ send \in [Conns -> Seq(Message)]
    /\ \A c \in Conns : Len(send[c]) <= SendCap

\* Types of the variables only TypeOK speaks of.
Others ==
    /\ allowControl \in BOOLEAN /\ cancelled \in BOOLEAN /\ watched \in BOOLEAN
    /\ signal \in {"waiting", "cancelled", "done"}
    /\ alive \subseteq Conns
    /\ writer \in [Conns -> {"none", "running", "done"}]
    /\ rtcPeers \subseteq Viewers /\ chatDCs \subseteq Viewers
    /\ peer \in [Viewers -> {"none", "open", "failed", "closed"}]
    /\ iceOut \in [Viewers -> 0..MaxIce]
    /\ heard \in [Viewers -> SUBSET {"key_offer", "rtc_ice_agent", "rtc_offer", "reject_viewer"}]
    /\ said \in [Viewers -> SUBSET {"key_answer", "rtc_answer"}]

\* The viewer_left case is under way only while a connection is read.
ReaderBusy ==
    /\ reader \in {"idle", "session", "chat"}
    /\ reader = "idle" => leaving = None
    /\ reader # "idle" => loop = "reading" /\ leaving \in Viewers /\ member[leaving] = "left"

\* A ready session: of a present viewer, or about to be deleted, or left over
\* between the loss of its connection and the reset.
ReadyPlaced ==
    \A v \in Viewers : sessions[v] = "ready" =>
        \/ loop \in {"returned", "stopped", "exited"}
        \/ /\ loop = "reading" /\ home[v] = epoch
           /\ member[v] = "in" \/ (leaving = v /\ reader = "session")

\* A viewer that left after its startRTC: what is already cleaned.
LeftCleaned ==
    \A v \in Viewers : member[v] = "left" /\ v \notin hasty =>
        /\ start[v] \in {"none", "done"}
        /\ v \notin rtcPeers
        /\ sessions[v] = "none" \/ (leaving = v /\ reader = "session")
        /\ v \notin chatDCs \/ leaving = v

\* No viewer joined a connection that is not read yet.
HomesPast ==
    /\ \A v \in Viewers : home[v] <= epoch
    /\ \A v \in Viewers : loop = "auth" => home[v] < epoch

\* Every accepted candidate is applied or buffered, and buffered only before
\* the answer; a reset forgets what is buffered.
CandidatesKept ==
    \A v \in Viewers :
        /\ member[v] = "out" => owed[v] = 0 /\ applied[v] = 0 /\ pendingIce[v] = 0 /\ ~answered[v]
        /\ applied[v] + pendingIce[v] <= owed[v]
        /\ loop = "reading" /\ home[v] = epoch =>
              applied[v] + pendingIce[v] = owed[v] /\ (answered[v] => pendingIce[v] = 0)

\* After the cancellation: on the connection of then, or on the next one.
DialsLeft ==
    cancelled => epoch = lastEpoch \/ (epoch = lastEpoch + 1 /\ loop \notin {"connect", "sleep"})

AgentInv ==
    /\ Types /\ ChannelsOK /\ Others /\ ReaderBusy /\ ReadyPlaced /\ LeftCleaned
    /\ HomesPast /\ CandidatesKept /\ DialsLeft

------------------------------------------------------------------------------
\* Types are preserved by every step.
LEMMA TypesStep ==
    ASSUME Types, ReaderBusy, [Next]_vars
    PROVE  Types'
<1> USE BoundsAssumption, NoneAssumption DEF Types, ReaderBusy, Conns, Loops, Starts,
           loopVars, sendVars, writerVars, tableVars, rtcVars, readVars
<1>1. CASE UNCHANGED vars
      BY <1>1 DEF vars
<1>2. CASE Dial
      BY <1>2 DEF Dial
<1>3. CASE DialFails
      BY <1>3 DEF DialFails
<1>4. CASE Authenticated
      BY <1>4 DEF Authenticated
<1>5. CASE AuthRejected
      BY <1>5 DEF AuthRejected
<1>6. CASE RunReturns
      BY <1>6 DEF RunReturns
<1>7. CASE Return
      BY <1>7 DEF Return
<1>8. CASE Wake
      BY <1>8 DEF Wake
<1>9. CASE Cancel
      BY <1>9 DEF Cancel
<1>10. CASE CloseOnSignal
      BY <1>10 DEF CloseOnSignal
<1>11. CASE LeftSession
      BY <1>11 DEF LeftSession
<1>12. CASE LeftChat
      BY <1>12 DEF LeftChat
<1>13. ASSUME NEW c \in Conns, Write(c) PROVE Types'
      BY <1>13 DEF Write
<1>14. ASSUME NEW c \in Conns, WriterStops(c) PROVE Types'
      BY <1>14 DEF WriterStops
<1>15. ASSUME NEW v \in Viewers, StartSession(v) PROVE Types'
      BY <1>15 DEF StartSession
<1>16. ASSUME NEW v \in Viewers, StartKey(v) PROVE Types'
      BY <1>16 DEF StartKey, Enqueue
<1>17. ASSUME NEW v \in Viewers, StartChat(v) PROVE Types'
      BY <1>17 DEF StartChat
<1>18. ASSUME NEW v \in Viewers, StartPublish(v) PROVE Types'
      BY <1>18 DEF StartPublish
<1>19. ASSUME NEW v \in Viewers, StartOffer(v) PROVE Types'
      BY <1>19 DEF StartOffer, Enqueue
<1>20. ASSUME NEW v \in Viewers, StartFails(v) PROVE Types'
      BY <1>20 DEF StartFails
<1>21. ASSUME NEW v \in Viewers, StartPeerFails(v) PROVE Types'
      BY <1>21 DEF StartPeerFails, Enqueue
<1>22. ASSUME NEW v \in Viewers, FindCandidate(v) PROVE Types'
      BY <1>22 DEF FindCandidate, Enqueue
<1>23. ASSUME NEW v \in Viewers, PeerFails(v) PROVE Types'
      BY <1>23 DEF PeerFails
<1>24. ASSUME NEW v \in Viewers, ViewerJoined(v) PROVE Types'
      BY <1>24 DEF ViewerJoined, Receiving, Enqueue
<1>25. ASSUME NEW v \in Viewers, LeftPeer(v) PROVE Types'
      BY <1>25 DEF LeftPeer, Receiving, Joined
<1>26. ASSUME NEW v \in Viewers, KeyAnswer(v) PROVE Types'
      BY <1>26 DEF KeyAnswer, Receiving, Joined
<1>27. ASSUME NEW v \in Viewers, RtcAnswer(v) PROVE Types'
      BY <1>27 DEF RtcAnswer, Receiving, Joined
<1>28. ASSUME NEW v \in Viewers, RtcAnswerFails(v) PROVE Types'
      BY <1>28 DEF RtcAnswerFails, Receiving, Joined
<1>29. ASSUME NEW v \in Viewers, ViewerCandidate(v) PROVE Types'
      BY <1>29 DEF ViewerCandidate, Receiving, Joined
<1> QED
      BY <1>1, <1>2, <1>3, <1>4, <1>5, <1>6, <1>7, <1>8, <1>9, <1>10, <1>11, <1>12, <1>13, <1>14, <1>15, <1>16, <1>17, <1>18, <1>19, <1>20, <1>21, <1>22, <1>23, <1>24, <1>25, <1>26, <1>27, <1>28, <1>29 DEF Next, Loop, StartRTC, Read

\* The head of a queue that is not empty is one of its elements.
LEMMA HeadOfSeq == ASSUME NEW S, NEW q \in Seq(S), q # <<>> PROVE Head(q) \in S
  OBVIOUS

\* enqueue drops what does not fit.
LEMMA EnqueueKeepsChannels ==
    ASSUME ChannelsOK, NEW m \in Message, Enqueue(m)
    PROVE  ChannelsOK'
<1>1. send' \in [Conns -> Seq(Message)]
  <2>1. ASSUME NEW c \in Conns PROVE Append(send[c], m) \in Seq(Message)
      BY DEF ChannelsOK
  <2> QED
      BY <2>1 DEF ChannelsOK, Enqueue
<1>2. ASSUME NEW c \in Conns PROVE Len(send'[c]) <= SendCap
  <2>1. CASE c = epoch /\ Len(send[c]) < SendCap
    <3>1. send'[c] = Append(send[c], m)
        BY <2>1 DEF ChannelsOK, Enqueue
    <3>2. Len(send'[c]) = Len(send[c]) + 1
        BY <3>1 DEF ChannelsOK
    <3> QED
        BY <2>1, <3>2, BoundsAssumption DEF ChannelsOK
  <2>2. CASE ~(c = epoch /\ Len(send[c]) < SendCap)
    <3>1. send'[c] = send[c]
        BY <2>2 DEF ChannelsOK, Enqueue
    <3> QED
        BY <3>1 DEF ChannelsOK
  <2> QED
      BY <2>1, <2>2
<1> QED
      BY <1>1, <1>2 DEF ChannelsOK

\* A writer only removes.
LEMMA WriteKeepsChannels ==
    ASSUME ChannelsOK, NEW c \in Conns, Write(c)
    PROVE  ChannelsOK'
<1>1. send' = [send EXCEPT ![c] = Tail(send[c])] /\ send[c] # <<>>
      BY DEF Write
<1>2. Tail(send[c]) \in Seq(Message) /\ Len(Tail(send[c])) = Len(send[c]) - 1
      BY <1>1 DEF ChannelsOK
<1>3. send' \in [Conns -> Seq(Message)]
      BY <1>1, <1>2 DEF ChannelsOK
<1>4. ASSUME NEW d \in Conns PROVE Len(send'[d]) <= SendCap
  <2>1. CASE d = c
      BY <2>1, <1>1, <1>2, BoundsAssumption DEF ChannelsOK
  <2>2. CASE d # c
      BY <2>2, <1>1 DEF ChannelsOK
  <2> QED
      BY <2>1, <2>2
<1> QED
      BY <1>3, <1>4 DEF ChannelsOK

\* The channels keep their type and capacity.
LEMMA ChannelsStep ==
    ASSUME ChannelsOK, [Next]_vars
    PROVE  ChannelsOK'
<1>1. \A v \in Viewers, t \in {"key_offer", "rtc_ice_agent", "rtc_offer", "reject_viewer"} :
         Msg(t, v) \in Message
      BY DEF Msg, Message
<1>2. \/ send' = send
      \/ \E m \in Message : Enqueue(m)
      \/ \E c \in Conns : Write(c)
  <2>1. ASSUME NEW v \in Viewers,
               StartKey(v) \/ StartOffer(v) \/ StartPeerFails(v) \/ FindCandidate(v) \/ ViewerJoined(v)
        PROVE  send' = send \/ \E m \in Message : Enqueue(m)
    <3> QED
      BY <2>1, <1>1 DEF StartKey, StartOffer, StartPeerFails, FindCandidate, ViewerJoined
  <2>2. CASE UNCHANGED vars
      BY <2>2 DEF vars
  <2> QED
      BY <2>1, <2>2
      DEF Next, Loop, StartRTC, Read, sendVars, Dial, DialFails, Authenticated, AuthRejected,
          RunReturns, Return, Wake, Cancel, CloseOnSignal, LeftSession, LeftChat, WriterStops,
          StartSession, StartChat, StartPublish, StartFails, PeerFails, LeftPeer, KeyAnswer,
          RtcAnswer, RtcAnswerFails, ViewerCandidate
<1> QED
      BY <1>2, EnqueueKeepsChannels, WriteKeepsChannels DEF ChannelsOK

\* The other variables keep their types.
LEMMA OthersStep ==
    ASSUME Types, ReaderBusy, ChannelsOK, Others, [Next]_vars
    PROVE  Others'
<1> USE BoundsAssumption, NoneAssumption DEF Types, ReaderBusy, ChannelsOK, Others, Conns, Message,
           loopVars, sendVars, writerVars, tableVars, rtcVars, readVars
<1>1. CASE UNCHANGED vars
      BY <1>1 DEF vars
<1>2. CASE Dial
      BY <1>2 DEF Dial
<1>3. CASE DialFails
      BY <1>3 DEF DialFails
<1>4. CASE Authenticated
      BY <1>4 DEF Authenticated
<1>5. CASE AuthRejected
      BY <1>5 DEF AuthRejected
<1>6. CASE RunReturns
      BY <1>6 DEF RunReturns
<1>7. CASE Return
      BY <1>7 DEF Return
<1>8. CASE Wake
      BY <1>8 DEF Wake
<1>9. CASE Cancel
      BY <1>9 DEF Cancel
<1>10. CASE CloseOnSignal
      BY <1>10 DEF CloseOnSignal
<1>11. CASE LeftSession
      BY <1>11 DEF LeftSession
<1>12. CASE LeftChat
      BY <1>12 DEF LeftChat
<1>13. ASSUME NEW c \in Conns, Write(c) PROVE Others'
  <2>1. Head(send[c]) \in Message
    <3>1. send[c] \in Seq(Message) /\ send[c] # <<>>
      BY <1>13 DEF Write
    <3> HIDE DEF Message
    <3> QED
      BY <3>1, HeadOfSeq
  <2>2. Head(send[c]).type \in {"key_offer", "rtc_ice_agent", "rtc_offer", "reject_viewer"}
      BY <2>1
  <2>3. heard' \in [Viewers -> SUBSET {"key_offer", "rtc_ice_agent", "rtc_offer", "reject_viewer"}]
      BY <1>13, <2>2 DEF Write
  <2> QED
      BY <1>13, <2>3 DEF Write
<1>14. ASSUME NEW c \in Conns, WriterStops(c) PROVE Others'
      BY <1>14 DEF WriterStops
<1>15. ASSUME NEW v \in Viewers, StartSession(v) PROVE Others'
      BY <1>15 DEF StartSession
<1>16. ASSUME NEW v \in Viewers, StartKey(v) PROVE Others'
      BY <1>16 DEF StartKey, Enqueue
<1>17. ASSUME NEW v \in Viewers, StartChat(v) PROVE Others'
      BY <1>17 DEF StartChat
<1>18. ASSUME NEW v \in Viewers, StartPublish(v) PROVE Others'
      BY <1>18 DEF StartPublish
<1>19. ASSUME NEW v \in Viewers, StartOffer(v) PROVE Others'
      BY <1>19 DEF StartOffer, Enqueue
<1>20. ASSUME NEW v \in Viewers, StartFails(v) PROVE Others'
      BY <1>20 DEF StartFails
<1>21. ASSUME NEW v \in Viewers, StartPeerFails(v) PROVE Others'
      BY <1>21 DEF StartPeerFails, Enqueue
<1>22. ASSUME NEW v \in Viewers, FindCandidate(v) PROVE Others'
      BY <1>22 DEF FindCandidate, Enqueue
<1>23. ASSUME NEW v \in Viewers, PeerFails(v) PROVE Others'
      BY <1>23 DEF PeerFails
<1>24. ASSUME NEW v \in Viewers, ViewerJoined(v) PROVE Others'
      BY <1>24 DEF ViewerJoined, Receiving, Enqueue
<1>25. ASSUME NEW v \in Viewers, LeftPeer(v) PROVE Others'
      BY <1>25 DEF LeftPeer, Receiving, Joined
<1>26. ASSUME NEW v \in Viewers, KeyAnswer(v) PROVE Others'
      BY <1>26 DEF KeyAnswer, Receiving, Joined
<1>27. ASSUME NEW v \in Viewers, RtcAnswer(v) PROVE Others'
      BY <1>27 DEF RtcAnswer, Receiving, Joined
<1>28. ASSUME NEW v \in Viewers, RtcAnswerFails(v) PROVE Others'
      BY <1>28 DEF RtcAnswerFails, Receiving, Joined
<1>29. ASSUME NEW v \in Viewers, ViewerCandidate(v) PROVE Others'
      BY <1>29 DEF ViewerCandidate, Receiving, Joined
<1> QED
      BY <1>1, <1>2, <1>3, <1>4, <1>5, <1>6, <1>7, <1>8, <1>9, <1>10, <1>11, <1>12, <1>13, <1>14, <1>15, <1>16, <1>17, <1>18, <1>19, <1>20, <1>21, <1>22, <1>23, <1>24, <1>25, <1>26, <1>27, <1>28, <1>29 DEF Next, Loop, StartRTC, Read

\* The reader's case analysis is preserved.
LEMMA ReaderStep ==
    ASSUME Types, ReaderBusy, [Next]_vars
    PROVE  ReaderBusy'
<1> USE BoundsAssumption, NoneAssumption DEF Types, ReaderBusy,
           loopVars, sendVars, writerVars, tableVars, rtcVars, readVars
<1>1. CASE UNCHANGED vars
      BY <1>1 DEF vars
<1>2. CASE Dial
      BY <1>2 DEF Dial
<1>3. CASE DialFails
      BY <1>3 DEF DialFails
<1>4. CASE Authenticated
      BY <1>4 DEF Authenticated
<1>5. CASE AuthRejected
      BY <1>5 DEF AuthRejected
<1>6. CASE RunReturns
      BY <1>6 DEF RunReturns
<1>7. CASE Return
      BY <1>7 DEF Return
<1>8. CASE Wake
      BY <1>8 DEF Wake
<1>9. CASE Cancel
      BY <1>9 DEF Cancel
<1>10. CASE CloseOnSignal
      BY <1>10 DEF CloseOnSignal
<1>11. CASE LeftSession
      BY <1>11 DEF LeftSession
<1>12. CASE LeftChat
      BY <1>12 DEF LeftChat
<1>13. ASSUME NEW c \in Conns, Write(c) PROVE ReaderBusy'
      BY <1>13 DEF Write
<1>14. ASSUME NEW c \in Conns, WriterStops(c) PROVE ReaderBusy'
      BY <1>14 DEF WriterStops
<1>15. ASSUME NEW v \in Viewers, StartSession(v) PROVE ReaderBusy'
      BY <1>15 DEF StartSession
<1>16. ASSUME NEW v \in Viewers, StartKey(v) PROVE ReaderBusy'
      BY <1>16 DEF StartKey, Enqueue
<1>17. ASSUME NEW v \in Viewers, StartChat(v) PROVE ReaderBusy'
      BY <1>17 DEF StartChat
<1>18. ASSUME NEW v \in Viewers, StartPublish(v) PROVE ReaderBusy'
      BY <1>18 DEF StartPublish
<1>19. ASSUME NEW v \in Viewers, StartOffer(v) PROVE ReaderBusy'
      BY <1>19 DEF StartOffer, Enqueue
<1>20. ASSUME NEW v \in Viewers, StartFails(v) PROVE ReaderBusy'
      BY <1>20 DEF StartFails
<1>21. ASSUME NEW v \in Viewers, StartPeerFails(v) PROVE ReaderBusy'
      BY <1>21 DEF StartPeerFails, Enqueue
<1>22. ASSUME NEW v \in Viewers, FindCandidate(v) PROVE ReaderBusy'
      BY <1>22 DEF FindCandidate, Enqueue
<1>23. ASSUME NEW v \in Viewers, PeerFails(v) PROVE ReaderBusy'
      BY <1>23 DEF PeerFails
<1>24. ASSUME NEW v \in Viewers, ViewerJoined(v) PROVE ReaderBusy'
      BY <1>24 DEF ViewerJoined, Receiving, Enqueue
<1>25. ASSUME NEW v \in Viewers, LeftPeer(v) PROVE ReaderBusy'
      BY <1>25 DEF LeftPeer, Receiving, Joined
<1>26. ASSUME NEW v \in Viewers, KeyAnswer(v) PROVE ReaderBusy'
      BY <1>26 DEF KeyAnswer, Receiving, Joined
<1>27. ASSUME NEW v \in Viewers, RtcAnswer(v) PROVE ReaderBusy'
      BY <1>27 DEF RtcAnswer, Receiving, Joined
<1>28. ASSUME NEW v \in Viewers, RtcAnswerFails(v) PROVE ReaderBusy'
      BY <1>28 DEF RtcAnswerFails, Receiving, Joined
<1>29. ASSUME NEW v \in Viewers, ViewerCandidate(v) PROVE ReaderBusy'
      BY <1>29 DEF ViewerCandidate, Receiving, Joined
<1> QED
      BY <1>1, <1>2, <1>3, <1>4, <1>5, <1>6, <1>7, <1>8, <1>9, <1>10, <1>11, <1>12, <1>13, <1>14, <1>15, <1>16, <1>17, <1>18, <1>19, <1>20, <1>21, <1>22, <1>23, <1>24, <1>25, <1>26, <1>27, <1>28, <1>29 DEF Next, Loop, StartRTC, Read

\* No step makes a ready session of an absent viewer usable.
LEMMA ReadyStep ==
    ASSUME Types, ReaderBusy, ReadyPlaced, [Next]_vars
    PROVE  ReadyPlaced'
<1> USE BoundsAssumption, NoneAssumption DEF Types, ReaderBusy, ReadyPlaced, Loops,
           loopVars, sendVars, writerVars, tableVars, rtcVars, readVars
<1>1. CASE UNCHANGED vars
      BY <1>1 DEF vars
<1>2. CASE Dial
      BY <1>2 DEF Dial
<1>3. CASE DialFails
      BY <1>3 DEF DialFails
<1>4. CASE Authenticated
      BY <1>4 DEF Authenticated
<1>5. CASE AuthRejected
      BY <1>5 DEF AuthRejected
<1>6. CASE RunReturns
      BY <1>6 DEF RunReturns
<1>7. CASE Return
      BY <1>7 DEF Return
<1>8. CASE Wake
      BY <1>8 DEF Wake
<1>9. CASE Cancel
      BY <1>9 DEF Cancel
<1>10. CASE CloseOnSignal
      BY <1>10 DEF CloseOnSignal
<1>11. CASE LeftSession
      BY <1>11 DEF LeftSession
<1>12. CASE LeftChat
      BY <1>12 DEF LeftChat
<1>13. ASSUME NEW c \in Conns, Write(c) PROVE ReadyPlaced'
      BY <1>13 DEF Write
<1>14. ASSUME NEW c \in Conns, WriterStops(c) PROVE ReadyPlaced'
      BY <1>14 DEF WriterStops
<1>15. ASSUME NEW v \in Viewers, StartSession(v) PROVE ReadyPlaced'
      BY <1>15 DEF StartSession
<1>16. ASSUME NEW v \in Viewers, StartKey(v) PROVE ReadyPlaced'
      BY <1>16 DEF StartKey, Enqueue
<1>17. ASSUME NEW v \in Viewers, StartChat(v) PROVE ReadyPlaced'
      BY <1>17 DEF StartChat
<1>18. ASSUME NEW v \in Viewers, StartPublish(v) PROVE ReadyPlaced'
      BY <1>18 DEF StartPublish
<1>19. ASSUME NEW v \in Viewers, StartOffer(v) PROVE ReadyPlaced'
      BY <1>19 DEF StartOffer, Enqueue
<1>20. ASSUME NEW v \in Viewers, StartFails(v) PROVE ReadyPlaced'
      BY <1>20 DEF StartFails
<1>21. ASSUME NEW v \in Viewers, StartPeerFails(v) PROVE ReadyPlaced'
      BY <1>21 DEF StartPeerFails, Enqueue
<1>22. ASSUME NEW v \in Viewers, FindCandidate(v) PROVE ReadyPlaced'
      BY <1>22 DEF FindCandidate, Enqueue
<1>23. ASSUME NEW v \in Viewers, PeerFails(v) PROVE ReadyPlaced'
      BY <1>23 DEF PeerFails
<1>24. ASSUME NEW v \in Viewers, ViewerJoined(v) PROVE ReadyPlaced'
      BY <1>24 DEF ViewerJoined, Receiving, Enqueue
<1>25. ASSUME NEW v \in Viewers, LeftPeer(v) PROVE ReadyPlaced'
      BY <1>25 DEF LeftPeer, Receiving, Joined
<1>26. ASSUME NEW v \in Viewers, KeyAnswer(v) PROVE ReadyPlaced'
      BY <1>26 DEF KeyAnswer, Receiving, Joined
<1>27. ASSUME NEW v \in Viewers, RtcAnswer(v) PROVE ReadyPlaced'
      BY <1>27 DEF RtcAnswer, Receiving, Joined
<1>28. ASSUME NEW v \in Viewers, RtcAnswerFails(v) PROVE ReadyPlaced'
      BY <1>28 DEF RtcAnswerFails, Receiving, Joined
<1>29. ASSUME NEW v \in Viewers, ViewerCandidate(v) PROVE ReadyPlaced'
      BY <1>29 DEF ViewerCandidate, Receiving, Joined
<1> QED
      BY <1>1, <1>2, <1>3, <1>4, <1>5, <1>6, <1>7, <1>8, <1>9, <1>10, <1>11, <1>12, <1>13, <1>14, <1>15, <1>16, <1>17, <1>18, <1>19, <1>20, <1>21, <1>22, <1>23, <1>24, <1>25, <1>26, <1>27, <1>28, <1>29 DEF Next, Loop, StartRTC, Read

\* No step brings back an entry of a viewer that left.
LEMMA LeftStep ==
    ASSUME Types, ReaderBusy, LeftCleaned, [Next]_vars
    PROVE  LeftCleaned'
<1> USE BoundsAssumption, NoneAssumption DEF Types, ReaderBusy, LeftCleaned, Starts,
           loopVars, sendVars, writerVars, tableVars, rtcVars, readVars
<1>1. CASE UNCHANGED vars
      BY <1>1 DEF vars
<1>2. CASE Dial
      BY <1>2 DEF Dial
<1>3. CASE DialFails
      BY <1>3 DEF DialFails
<1>4. CASE Authenticated
      BY <1>4 DEF Authenticated
<1>5. CASE AuthRejected
      BY <1>5 DEF AuthRejected
<1>6. CASE RunReturns
      BY <1>6 DEF RunReturns
<1>7. CASE Return
      BY <1>7 DEF Return
<1>8. CASE Wake
      BY <1>8 DEF Wake
<1>9. CASE Cancel
      BY <1>9 DEF Cancel
<1>10. CASE CloseOnSignal
      BY <1>10 DEF CloseOnSignal
<1>11. CASE LeftSession
      BY <1>11 DEF LeftSession
<1>12. CASE LeftChat
      BY <1>12 DEF LeftChat
<1>13. ASSUME NEW c \in Conns, Write(c) PROVE LeftCleaned'
      BY <1>13 DEF Write
<1>14. ASSUME NEW c \in Conns, WriterStops(c) PROVE LeftCleaned'
      BY <1>14 DEF WriterStops
<1>15. ASSUME NEW v \in Viewers, StartSession(v) PROVE LeftCleaned'
      BY <1>15 DEF StartSession
<1>16. ASSUME NEW v \in Viewers, StartKey(v) PROVE LeftCleaned'
      BY <1>16 DEF StartKey, Enqueue
<1>17. ASSUME NEW v \in Viewers, StartChat(v) PROVE LeftCleaned'
      BY <1>17 DEF StartChat
<1>18. ASSUME NEW v \in Viewers, StartPublish(v) PROVE LeftCleaned'
      BY <1>18 DEF StartPublish
<1>19. ASSUME NEW v \in Viewers, StartOffer(v) PROVE LeftCleaned'
      BY <1>19 DEF StartOffer, Enqueue
<1>20. ASSUME NEW v \in Viewers, StartFails(v) PROVE LeftCleaned'
      BY <1>20 DEF StartFails
<1>21. ASSUME NEW v \in Viewers, StartPeerFails(v) PROVE LeftCleaned'
      BY <1>21 DEF StartPeerFails, Enqueue
<1>22. ASSUME NEW v \in Viewers, FindCandidate(v) PROVE LeftCleaned'
      BY <1>22 DEF FindCandidate, Enqueue
<1>23. ASSUME NEW v \in Viewers, PeerFails(v) PROVE LeftCleaned'
      BY <1>23 DEF PeerFails
<1>24. ASSUME NEW v \in Viewers, ViewerJoined(v) PROVE LeftCleaned'
      BY <1>24 DEF ViewerJoined, Receiving, Enqueue
<1>25. ASSUME NEW v \in Viewers, LeftPeer(v) PROVE LeftCleaned'
      BY <1>25 DEF LeftPeer, Receiving, Joined
<1>26. ASSUME NEW v \in Viewers, KeyAnswer(v) PROVE LeftCleaned'
      BY <1>26 DEF KeyAnswer, Receiving, Joined
<1>27. ASSUME NEW v \in Viewers, RtcAnswer(v) PROVE LeftCleaned'
      BY <1>27 DEF RtcAnswer, Receiving, Joined
<1>28. ASSUME NEW v \in Viewers, RtcAnswerFails(v) PROVE LeftCleaned'
      BY <1>28 DEF RtcAnswerFails, Receiving, Joined
<1>29. ASSUME NEW v \in Viewers, ViewerCandidate(v) PROVE LeftCleaned'
      BY <1>29 DEF ViewerCandidate, Receiving, Joined
<1> QED
      BY <1>1, <1>2, <1>3, <1>4, <1>5, <1>6, <1>7, <1>8, <1>9, <1>10, <1>11, <1>12, <1>13, <1>14, <1>15, <1>16, <1>17, <1>18, <1>19, <1>20, <1>21, <1>22, <1>23, <1>24, <1>25, <1>26, <1>27, <1>28, <1>29 DEF Next, Loop, StartRTC, Read

\* Homes stay in the past.
LEMMA HomesStep ==
    ASSUME Types, HomesPast, [Next]_vars
    PROVE  HomesPast'
<1> USE BoundsAssumption, NoneAssumption DEF Types, HomesPast, Conns,
           loopVars, sendVars, writerVars, tableVars, rtcVars, readVars
<1>1. CASE UNCHANGED vars
      BY <1>1 DEF vars
<1>2. CASE Dial
      BY <1>2 DEF Dial
<1>3. CASE DialFails
      BY <1>3 DEF DialFails
<1>4. CASE Authenticated
      BY <1>4 DEF Authenticated
<1>5. CASE AuthRejected
      BY <1>5 DEF AuthRejected
<1>6. CASE RunReturns
      BY <1>6 DEF RunReturns
<1>7. CASE Return
      BY <1>7 DEF Return
<1>8. CASE Wake
      BY <1>8 DEF Wake
<1>9. CASE Cancel
      BY <1>9 DEF Cancel
<1>10. CASE CloseOnSignal
      BY <1>10 DEF CloseOnSignal
<1>11. CASE LeftSession
      BY <1>11 DEF LeftSession
<1>12. CASE LeftChat
      BY <1>12 DEF LeftChat
<1>13. ASSUME NEW c \in Conns, Write(c) PROVE HomesPast'
      BY <1>13 DEF Write
<1>14. ASSUME NEW c \in Conns, WriterStops(c) PROVE HomesPast'
      BY <1>14 DEF WriterStops
<1>15. ASSUME NEW v \in Viewers, StartSession(v) PROVE HomesPast'
      BY <1>15 DEF StartSession
<1>16. ASSUME NEW v \in Viewers, StartKey(v) PROVE HomesPast'
      BY <1>16 DEF StartKey, Enqueue
<1>17. ASSUME NEW v \in Viewers, StartChat(v) PROVE HomesPast'
      BY <1>17 DEF StartChat
<1>18. ASSUME NEW v \in Viewers, StartPublish(v) PROVE HomesPast'
      BY <1>18 DEF StartPublish
<1>19. ASSUME NEW v \in Viewers, StartOffer(v) PROVE HomesPast'
      BY <1>19 DEF StartOffer, Enqueue
<1>20. ASSUME NEW v \in Viewers, StartFails(v) PROVE HomesPast'
      BY <1>20 DEF StartFails
<1>21. ASSUME NEW v \in Viewers, StartPeerFails(v) PROVE HomesPast'
      BY <1>21 DEF StartPeerFails, Enqueue
<1>22. ASSUME NEW v \in Viewers, FindCandidate(v) PROVE HomesPast'
      BY <1>22 DEF FindCandidate, Enqueue
<1>23. ASSUME NEW v \in Viewers, PeerFails(v) PROVE HomesPast'
      BY <1>23 DEF PeerFails
<1>24. ASSUME NEW v \in Viewers, ViewerJoined(v) PROVE HomesPast'
      BY <1>24 DEF ViewerJoined, Receiving, Enqueue
<1>25. ASSUME NEW v \in Viewers, LeftPeer(v) PROVE HomesPast'
      BY <1>25 DEF LeftPeer, Receiving, Joined
<1>26. ASSUME NEW v \in Viewers, KeyAnswer(v) PROVE HomesPast'
      BY <1>26 DEF KeyAnswer, Receiving, Joined
<1>27. ASSUME NEW v \in Viewers, RtcAnswer(v) PROVE HomesPast'
      BY <1>27 DEF RtcAnswer, Receiving, Joined
<1>28. ASSUME NEW v \in Viewers, RtcAnswerFails(v) PROVE HomesPast'
      BY <1>28 DEF RtcAnswerFails, Receiving, Joined
<1>29. ASSUME NEW v \in Viewers, ViewerCandidate(v) PROVE HomesPast'
      BY <1>29 DEF ViewerCandidate, Receiving, Joined
<1> QED
      BY <1>1, <1>2, <1>3, <1>4, <1>5, <1>6, <1>7, <1>8, <1>9, <1>10, <1>11, <1>12, <1>13, <1>14, <1>15, <1>16, <1>17, <1>18, <1>19, <1>20, <1>21, <1>22, <1>23, <1>24, <1>25, <1>26, <1>27, <1>28, <1>29 DEF Next, Loop, StartRTC, Read

\* Candidates are neither lost nor applied twice.
LEMMA CandidatesStep ==
    ASSUME Types, HomesPast, CandidatesKept, [Next]_vars
    PROVE  CandidatesKept'
<1> USE BoundsAssumption, NoneAssumption DEF Types, HomesPast, CandidatesKept, Conns,
           loopVars, sendVars, writerVars, tableVars, rtcVars, readVars
<1>1. CASE UNCHANGED vars
      BY <1>1 DEF vars
<1>2. CASE Dial
      BY <1>2 DEF Dial
<1>3. CASE DialFails
      BY <1>3 DEF DialFails
<1>4. CASE Authenticated
      BY <1>4 DEF Authenticated
<1>5. CASE AuthRejected
      BY <1>5 DEF AuthRejected
<1>6. CASE RunReturns
      BY <1>6 DEF RunReturns
<1>7. CASE Return
      BY <1>7 DEF Return
<1>8. CASE Wake
      BY <1>8 DEF Wake
<1>9. CASE Cancel
      BY <1>9 DEF Cancel
<1>10. CASE CloseOnSignal
      BY <1>10 DEF CloseOnSignal
<1>11. CASE LeftSession
      BY <1>11 DEF LeftSession
<1>12. CASE LeftChat
      BY <1>12 DEF LeftChat
<1>13. ASSUME NEW c \in Conns, Write(c) PROVE CandidatesKept'
      BY <1>13 DEF Write
<1>14. ASSUME NEW c \in Conns, WriterStops(c) PROVE CandidatesKept'
      BY <1>14 DEF WriterStops
<1>15. ASSUME NEW v \in Viewers, StartSession(v) PROVE CandidatesKept'
      BY <1>15 DEF StartSession
<1>16. ASSUME NEW v \in Viewers, StartKey(v) PROVE CandidatesKept'
      BY <1>16 DEF StartKey, Enqueue
<1>17. ASSUME NEW v \in Viewers, StartChat(v) PROVE CandidatesKept'
      BY <1>17 DEF StartChat
<1>18. ASSUME NEW v \in Viewers, StartPublish(v) PROVE CandidatesKept'
      BY <1>18 DEF StartPublish
<1>19. ASSUME NEW v \in Viewers, StartOffer(v) PROVE CandidatesKept'
      BY <1>19 DEF StartOffer, Enqueue
<1>20. ASSUME NEW v \in Viewers, StartFails(v) PROVE CandidatesKept'
      BY <1>20 DEF StartFails
<1>21. ASSUME NEW v \in Viewers, StartPeerFails(v) PROVE CandidatesKept'
      BY <1>21 DEF StartPeerFails, Enqueue
<1>22. ASSUME NEW v \in Viewers, FindCandidate(v) PROVE CandidatesKept'
      BY <1>22 DEF FindCandidate, Enqueue
<1>23. ASSUME NEW v \in Viewers, PeerFails(v) PROVE CandidatesKept'
      BY <1>23 DEF PeerFails
<1>24. ASSUME NEW v \in Viewers, ViewerJoined(v) PROVE CandidatesKept'
      BY <1>24 DEF ViewerJoined, Receiving, Enqueue
<1>25. ASSUME NEW v \in Viewers, LeftPeer(v) PROVE CandidatesKept'
      BY <1>25 DEF LeftPeer, Receiving, Joined
<1>26. ASSUME NEW v \in Viewers, KeyAnswer(v) PROVE CandidatesKept'
      BY <1>26 DEF KeyAnswer, Receiving, Joined
<1>27. ASSUME NEW v \in Viewers, RtcAnswer(v) PROVE CandidatesKept'
      BY <1>27 DEF RtcAnswer, Receiving, Joined
<1>28. ASSUME NEW v \in Viewers, RtcAnswerFails(v) PROVE CandidatesKept'
      BY <1>28 DEF RtcAnswerFails, Receiving, Joined
<1>29. ASSUME NEW v \in Viewers, ViewerCandidate(v) PROVE CandidatesKept'
      BY <1>29 DEF ViewerCandidate, Receiving, Joined
<1> QED
      BY <1>1, <1>2, <1>3, <1>4, <1>5, <1>6, <1>7, <1>8, <1>9, <1>10, <1>11, <1>12, <1>13, <1>14, <1>15, <1>16, <1>17, <1>18, <1>19, <1>20, <1>21, <1>22, <1>23, <1>24, <1>25, <1>26, <1>27, <1>28, <1>29 DEF Next, Loop, StartRTC, Read

\* At most one dial after the cancellation.
LEMMA DialsStep ==
    ASSUME Types, DialsLeft, [Next]_vars
    PROVE  DialsLeft'
<1> USE BoundsAssumption, NoneAssumption DEF Types, DialsLeft, Conns, Loops,
           loopVars, sendVars, writerVars, tableVars, rtcVars, readVars
<1>1. CASE UNCHANGED vars
      BY <1>1 DEF vars
<1>2. CASE Dial
      BY <1>2 DEF Dial
<1>3. CASE DialFails
      BY <1>3 DEF DialFails
<1>4. CASE Authenticated
      BY <1>4 DEF Authenticated
<1>5. CASE AuthRejected
      BY <1>5 DEF AuthRejected
<1>6. CASE RunReturns
      BY <1>6 DEF RunReturns
<1>7. CASE Return
      BY <1>7 DEF Return
<1>8. CASE Wake
      BY <1>8 DEF Wake
<1>9. CASE Cancel
      BY <1>9 DEF Cancel
<1>10. CASE CloseOnSignal
      BY <1>10 DEF CloseOnSignal
<1>11. CASE LeftSession
      BY <1>11 DEF LeftSession
<1>12. CASE LeftChat
      BY <1>12 DEF LeftChat
<1>13. ASSUME NEW c \in Conns, Write(c) PROVE DialsLeft'
      BY <1>13 DEF Write
<1>14. ASSUME NEW c \in Conns, WriterStops(c) PROVE DialsLeft'
      BY <1>14 DEF WriterStops
<1>15. ASSUME NEW v \in Viewers, StartSession(v) PROVE DialsLeft'
      BY <1>15 DEF StartSession
<1>16. ASSUME NEW v \in Viewers, StartKey(v) PROVE DialsLeft'
      BY <1>16 DEF StartKey, Enqueue
<1>17. ASSUME NEW v \in Viewers, StartChat(v) PROVE DialsLeft'
      BY <1>17 DEF StartChat
<1>18. ASSUME NEW v \in Viewers, StartPublish(v) PROVE DialsLeft'
      BY <1>18 DEF StartPublish
<1>19. ASSUME NEW v \in Viewers, StartOffer(v) PROVE DialsLeft'
      BY <1>19 DEF StartOffer, Enqueue
<1>20. ASSUME NEW v \in Viewers, StartFails(v) PROVE DialsLeft'
      BY <1>20 DEF StartFails
<1>21. ASSUME NEW v \in Viewers, StartPeerFails(v) PROVE DialsLeft'
      BY <1>21 DEF StartPeerFails, Enqueue
<1>22. ASSUME NEW v \in Viewers, FindCandidate(v) PROVE DialsLeft'
      BY <1>22 DEF FindCandidate, Enqueue
<1>23. ASSUME NEW v \in Viewers, PeerFails(v) PROVE DialsLeft'
      BY <1>23 DEF PeerFails
<1>24. ASSUME NEW v \in Viewers, ViewerJoined(v) PROVE DialsLeft'
      BY <1>24 DEF ViewerJoined, Receiving, Enqueue
<1>25. ASSUME NEW v \in Viewers, LeftPeer(v) PROVE DialsLeft'
      BY <1>25 DEF LeftPeer, Receiving, Joined
<1>26. ASSUME NEW v \in Viewers, KeyAnswer(v) PROVE DialsLeft'
      BY <1>26 DEF KeyAnswer, Receiving, Joined
<1>27. ASSUME NEW v \in Viewers, RtcAnswer(v) PROVE DialsLeft'
      BY <1>27 DEF RtcAnswer, Receiving, Joined
<1>28. ASSUME NEW v \in Viewers, RtcAnswerFails(v) PROVE DialsLeft'
      BY <1>28 DEF RtcAnswerFails, Receiving, Joined
<1>29. ASSUME NEW v \in Viewers, ViewerCandidate(v) PROVE DialsLeft'
      BY <1>29 DEF ViewerCandidate, Receiving, Joined
<1> QED
      BY <1>1, <1>2, <1>3, <1>4, <1>5, <1>6, <1>7, <1>8, <1>9, <1>10, <1>11, <1>12, <1>13, <1>14, <1>15, <1>16, <1>17, <1>18, <1>19, <1>20, <1>21, <1>22, <1>23, <1>24, <1>25, <1>26, <1>27, <1>28, <1>29 DEF Next, Loop, StartRTC, Read

------------------------------------------------------------------------------
\* Initially every part holds.
LEMMA InitAgentInv == Init => AgentInv
<1> SUFFICES ASSUME Init PROVE AgentInv
      OBVIOUS
<1>1. ChannelsOK
      BY BoundsAssumption DEF Init, ChannelsOK
<1>2. Types
  <2>1. 0 \in 0..MaxConns /\ 0 \in 0..MaxIce
      BY BoundsAssumption
  <2> QED
      BY <2>1 DEF Init, Types, Loops, Starts
<1>5. Others
  <2>1. 0 \in 0..MaxIce
      BY BoundsAssumption
  <2> QED
      BY <2>1 DEF Init, Others
<1>3. ReaderBusy /\ ReadyPlaced /\ LeftCleaned /\ HomesPast /\ DialsLeft
      BY NoneAssumption
      DEF Init, ReaderBusy, ReadyPlaced, LeftCleaned, HomesPast, DialsLeft
<1>4. CandidatesKept
      BY DEF Init, CandidatesKept
<1> QED
      BY <1>1, <1>2, <1>3, <1>4, <1>5 DEF AgentInv

\* The parts together are an inductive invariant of the agent.
THEOREM AgentInvariant == Spec => []AgentInv
<1>1. AgentInv /\ [Next]_vars => AgentInv'
      BY TypesStep, ChannelsStep, OthersStep, ReaderStep, ReadyStep, LeftStep, HomesStep, CandidatesStep, DialsStep
      DEF AgentInv
<1> QED
      BY InitAgentInv, <1>1, PTL DEF Spec

\* Only sessions of present viewers of the connection being read can decrypt
\* input, for any number of viewers and reconnects (input_enc in readPump).
THEOREM OnlyPresentViewersAreReady == Spec => []ReadySessionsArePresent
<1>1. AgentInv => ReadySessionsArePresent
      BY DEF AgentInv, ReadyPlaced, ReadySessionsArePresent
<1> QED
      BY AgentInvariant, <1>1, PTL

\* A viewer that leaves after its startRTC leaves no entry in the three maps
\* (the viewer_left case of readPump).
THEOREM SettledViewersAreForgotten == Spec => []SettledViewersLeaveNothing
<1>1. AgentInv => SettledViewersLeaveNothing
      BY NoneAssumption DEF AgentInv, LeftCleaned, SettledViewersLeaveNothing
<1> QED
      BY AgentInvariant, <1>1, PTL

\* Every accepted candidate reaches the peer exactly once (rtc_answer and
\* rtc_ice_viewer in readPump).
THEOREM CandidatesReachThePeer == Spec => []NoStrandedCandidates
<1>1. AgentInv => NoStrandedCandidates
      BY DEF AgentInv, Types, CandidatesKept, NoStrandedCandidates
<1> QED
      BY AgentInvariant, <1>1, PTL

\* At most one dial after the stop signal (main, run).
THEOREM OneDialAfterCancel == Spec => []CancelledDialsOnce
<1>1. AgentInv => CancelledDialsOnce
      BY BoundsAssumption DEF AgentInv, Types, DialsLeft, CancelledDialsOnce
<1> QED
      BY AgentInvariant, <1>1, PTL

\* Type correctness; no channel exceeds its capacity (enqueue).
THEOREM AgentTypesCorrect == Spec => []TypeOK
<1>1. AgentInv => TypeOK
  <2> SUFFICES ASSUME AgentInv PROVE TypeOK
      OBVIOUS
  <2>1. pendingIce \in [Viewers -> 0..MaxIce] /\ applied \in [Viewers -> 0..MaxIce]
    <3>1. \A v \in Viewers : pendingIce[v] \in 0..MaxIce /\ applied[v] \in 0..MaxIce
      BY BoundsAssumption DEF AgentInv, Types, CandidatesKept
    <3> QED
      BY <3>1 DEF AgentInv, Types
  <2> QED
      BY <2>1 DEF AgentInv, Types, ChannelsOK, Others, ReaderBusy, TypeOK
<1> QED
      BY AgentInvariant, <1>1, PTL
==============================================================================
