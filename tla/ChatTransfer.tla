----------------------------- MODULE ChatTransfer -----------------------------
(***************************************************************************)
(* File transfer from a viewer to the agent over the chat DataChannel:     *)
(* ChatService._sendBytes (app/lib/services/chat_service.dart), which      *)
(* sends a window of chunks and waits for an acknowledgement, the chat     *)
(* handler of the agent with its fileRx map and the saveChatFile           *)
(* goroutines (agent/main.go), and HostedChatService, which shows the      *)
(* transfer on the controlled machine.                                     *)
(*                                                                         *)
(* Several transfers share the channel.  _sendBytes gives up the event     *)
(* loop at every await, so each of its stretches between awaits is an      *)
(* action and acknowledgements and detach fall between them.  A file is    *)
(* the number of its chunks; a chunk is its sequence number.               *)
(***************************************************************************)
EXTENDS Naturals, Sequences, FiniteSets

CONSTANTS
    Files,      \* transfers
    MaxChunks,  \* bound: chunks of a file
    Window,     \* _kWindowSize and chatFileAckWindow (8 in the code)
    Plain,      \* the path with the name as it was sent
    None

ASSUME NoneAssumption ==
    /\ None \notin Files /\ Plain \notin Files /\ Plain # None
    /\ None \notin Seq(Nat) /\ None \notin [of : Files, chunks : Seq(Nat)]
ASSUME WindowAssumption == Window \in Nat \ {0} /\ MaxChunks \in Nat

VARIABLES
    open,       \* the DataChannel
    attached,   \* ChatService has it (detach has not been called)
    toAgent,    \* messages on their way to the agent, in order
    toViewer,   \* acknowledgements on their way back
    tx,         \* where _sendBytes is
    total,      \* chunks of the file
    next,       \* seq: the next chunk to send
    inWindow,   \* chunksSent
    acker,      \* the Completer of the window, _ackCompleters[id]
    fileRx,     \* chunks received so far, None when not in Agent.fileRx
    got,        \* all the chunks received, kept after fileRx forgets them
    saver,      \* saveChatFile
    data,       \* the copy saveChatFile has made
    path,       \* where it will be written
    disk,       \* the files in the download directory, by path
    raced,      \* history: files of which one took a path another was about to open
    stdout,     \* CHAT_MSG lines from the agent to the app hosting it
    shown       \* what HostedChatService shows of the transfer

channelVars == <<open, attached, toAgent, toViewer>>
senderVars  == <<tx, total, next, inWindow, acker>>
agentVars   == <<fileRx, got, saver, data, path, disk, raced>>
hostVars    == <<stdout, shown>>
vars == <<open, attached, toAgent, toViewer, tx, total, next, inWindow, acker,
          fileRx, got, saver, data, path, disk, raced, stdout, shown>>

StartMsg(f)  == [type |-> "file_start", id |-> f, seq |-> 0, last |-> FALSE]
Chunk(f, n)  == [type |-> "file_chunk", id |-> f, seq |-> n, last |-> n + 1 = total[f]]
Ack(f, n)    == [type |-> "file_ack", id |-> f, seq |-> n]

TxStates    == {"idle", "start", "window", "sending", "waiting", "done", "failed"}
Paths == Files \cup {Plain}

SaverStates == {"none", "copy", "write", "saved", "failed"}

Init ==
    /\ open = TRUE /\ attached = TRUE
    /\ toAgent = <<>> /\ toViewer = <<>>
    /\ tx = [f \in Files |-> "idle"]
    /\ total = [f \in Files |-> 0]
    /\ next = [f \in Files |-> 0]
    /\ inWindow = [f \in Files |-> 0]
    /\ acker = [f \in Files |-> "none"]
    /\ fileRx = [f \in Files |-> None]
    /\ got = [f \in Files |-> <<>>]
    /\ saver = [f \in Files |-> "none"]
    /\ data = [f \in Files |-> <<>>]
    /\ path = [f \in Files |-> Plain]
    /\ disk = [p \in Paths |-> None]
    /\ raced = {}
    /\ stdout = <<>>
    /\ shown = [f \in Files |-> "nothing"]

------------------------------------------------------------------------------
(* Plausible slips in the code, for trying the properties against.          *)

\* The agent acknowledges whole windows only.
WholeAckDue(f, n, last) == n % Window = 0

\* The sender pauses only at the end of the file.
EndlessSendChunk(f) ==
    /\ tx[f] = "sending" /\ open /\ attached
    /\ toAgent' = Append(toAgent, Chunk(f, next[f]))
    /\ next' = [next EXCEPT ![f] = @ + 1]
    /\ inWindow' = [inWindow EXCEPT ![f] = @ + 1]
    /\ tx' = [tx EXCEPT ![f] = IF next[f] + 1 = total[f] THEN "waiting" ELSE @]
    /\ UNCHANGED <<open, attached, toViewer, agentVars, hostVars, total, acker>>

\* A file whose name is taken is not saved.
SkippingSaveCopy(f) ==
    /\ saver[f] = "copy"
    /\ saver' = [saver EXCEPT ![f] = IF disk[Plain] = None THEN "write" ELSE "none"]
    /\ data' = [data EXCEPT ![f] = fileRx[f]]
    /\ fileRx' = [fileRx EXCEPT ![f] = None]
    /\ path' = [path EXCEPT ![f] = Plain]
    /\ UNCHANGED <<channelVars, senderVars, hostVars, got, disk, raced>>

\* The agent saves without the last chunk.
HastyAppend(buf, m) == IF m.last THEN buf ELSE Append(buf, m.seq)

\* The timeout is looked at only while the channel is open.
OpenAckTimeout(f) ==
    /\ tx[f] = "waiting" /\ acker[f] = "pending" /\ open
    /\ tx' = [tx EXCEPT ![f] = "failed"]
    /\ acker' = [acker EXCEPT ![f] = "none"]
    /\ UNCHANGED <<channelVars, agentVars, hostVars, total, next, inWindow>>

------------------------------------------------------------------------------
(* _sendBytes.                                                              *)

\* A file of n chunks, none for an empty file.
SendFile(f, n) ==
    /\ tx[f] = "idle"
    /\ total' = [total EXCEPT ![f] = n]
    /\ tx' = [tx EXCEPT ![f] = IF open /\ attached THEN "start" ELSE "failed"]
    /\ UNCHANGED <<channelVars, agentVars, hostVars, next, inWindow, acker>>

\* file_start; whether it was sent is not looked at.
SendStart(f) ==
    /\ tx[f] = "start"
    /\ tx' = [tx EXCEPT ![f] = IF total[f] = 0 THEN "done" ELSE "window"]
    /\ toAgent' = IF open /\ attached THEN Append(toAgent, StartMsg(f)) ELSE toAgent
    /\ UNCHANGED <<open, attached, toViewer, agentVars, hostVars, total, next, inWindow, acker>>

\* The completer is registered before the first chunk of the window.
BeginWindow(f) ==
    /\ tx[f] = "window" /\ open /\ attached
    /\ tx' = [tx EXCEPT ![f] = "sending"]
    /\ acker' = [acker EXCEPT ![f] = "pending"]
    /\ inWindow' = [inWindow EXCEPT ![f] = 0]
    /\ UNCHANGED <<channelVars, agentVars, hostVars, total, next>>

SendChunk(f) ==
    /\ tx[f] = "sending" /\ open /\ attached
    /\ toAgent' = Append(toAgent, Chunk(f, next[f]))
    /\ next' = [next EXCEPT ![f] = @ + 1]
    /\ inWindow' = [inWindow EXCEPT ![f] = @ + 1]
    /\ tx' = [tx EXCEPT ![f] =
                IF next[f] + 1 = total[f] \/ inWindow[f] + 1 = Window THEN "waiting" ELSE @]
    /\ UNCHANGED <<open, attached, toViewer, agentVars, hostVars, total, acker>>

\* The channel is gone at one of the checks, or send throws.
SendFails(f) ==
    /\ tx[f] \in {"window", "sending"} /\ ~(open /\ attached)
    /\ tx' = [tx EXCEPT ![f] = "failed"]
    /\ acker' = [acker EXCEPT ![f] = "none"]
    /\ UNCHANGED <<channelVars, agentVars, hostVars, total, next, inWindow>>

\* `await c.future` returns: the next window, or the end.
AwaitAck(f) ==
    /\ tx[f] = "waiting" /\ acker[f] = "completed"
    /\ tx' = [tx EXCEPT ![f] = IF next[f] = total[f] THEN "done" ELSE "window"]
    /\ acker' = [acker EXCEPT ![f] = "none"]
    /\ UNCHANGED <<channelVars, agentVars, hostVars, total, next, inWindow>>

\* The future fails: detach completed it with an error.
AwaitDetached(f) ==
    /\ tx[f] = "waiting" /\ acker[f] = "error"
    /\ tx' = [tx EXCEPT ![f] = "failed"]
    /\ acker' = [acker EXCEPT ![f] = "none"]
    /\ UNCHANGED <<channelVars, agentVars, hostVars, total, next, inWindow>>

\* 15 s have passed.
AckTimeout(f) ==
    /\ tx[f] = "waiting" /\ acker[f] = "pending"
    /\ tx' = [tx EXCEPT ![f] = "failed"]
    /\ acker' = [acker EXCEPT ![f] = "none"]
    /\ UNCHANGED <<channelVars, agentVars, hostVars, total, next, inWindow>>

\* _handleIncoming(file_ack): by id alone; a second completion throws and is
\* swallowed.
HandleAck ==
    /\ toViewer # <<>> /\ attached
    /\ LET f == Head(toViewer).id
       IN  acker' = [acker EXCEPT ![f] = IF @ = "pending" THEN "completed" ELSE @]
    /\ toViewer' = Tail(toViewer)
    /\ UNCHANGED <<open, attached, toAgent, agentVars, hostVars, tx, total, next, inWindow>>

\* The channel closes; what is on its way is lost.
ChannelCloses ==
    /\ open
    /\ open' = FALSE /\ toAgent' = <<>> /\ toViewer' = <<>>
    /\ UNCHANGED <<attached, senderVars, agentVars, hostVars>>

\* ChatService.detach, when the session is torn down.
Detach ==
    /\ attached
    /\ attached' = FALSE
    /\ acker' = [f \in Files |-> IF acker[f] = "pending" THEN "error" ELSE acker[f]]
    /\ UNCHANGED <<open, toAgent, toViewer, agentVars, hostVars, tx, total, next, inWindow>>

------------------------------------------------------------------------------
(* handleChatDCMessage: one message of the channel at a time.               *)

ReceiveStart ==
    /\ toAgent # <<>> /\ Head(toAgent).type = "file_start"
    /\ LET f == Head(toAgent).id
       IN  /\ fileRx' = [fileRx EXCEPT ![f] = <<>>]
           /\ stdout' = Append(stdout, [type |-> "file_start", id |-> f])
    /\ toAgent' = Tail(toAgent)
    /\ UNCHANGED <<open, attached, toViewer, senderVars, got, saver, data, path, disk, raced, shown>>

\* shouldAck after the n-th chunk.
AckDue(f, n, last) == last \/ n % Window = 0

AppendChunk(buf, m) == Append(buf, m.seq)

\* Append, acknowledge, and after the last chunk start saveChatFile.
ReceiveChunk ==
    /\ toAgent # <<>> /\ Head(toAgent).type = "file_chunk"
    /\ LET m == Head(toAgent)
           f == m.id
           buf == AppendChunk(fileRx[f], m)
       IN  IF fileRx[f] = None
           THEN UNCHANGED <<fileRx, got, saver, toViewer>>
           ELSE /\ fileRx' = [fileRx EXCEPT ![f] = buf]
                /\ got' = [got EXCEPT ![f] = Append(@, m.seq)]
                /\ toViewer' = IF open /\ AckDue(f, Len(got[f]) + 1, m.last)
                               THEN Append(toViewer, Ack(f, m.seq)) ELSE toViewer
                /\ saver' = [saver EXCEPT ![f] = IF m.last THEN "copy" ELSE @]
    /\ toAgent' = Tail(toAgent)
    /\ UNCHANGED <<open, attached, senderVars, data, path, disk, raced, hostVars>>

\* saveChatFile: copy the buffer and forget the transfer under fileRxMu, then
\* look whether the name is taken (all files here have the same one) and take
\* a name with a time stamp, unique for the file, if it is.
SaveCopy(f) ==
    LET p == IF disk[Plain] = None THEN Plain ELSE f
        rivals == {g \in Files \ {f} : saver[g] = "write" /\ path[g] = p}
    IN  /\ saver[f] = "copy"
        /\ saver' = [saver EXCEPT ![f] = "write"]
        /\ data' = [data EXCEPT ![f] = fileRx[f]]
        /\ fileRx' = [fileRx EXCEPT ![f] = None]
        /\ path' = [path EXCEPT ![f] = p]
        /\ raced' = IF rivals = {} THEN raced ELSE raced \cup rivals \cup {f}
        /\ UNCHANGED <<channelVars, senderVars, hostVars, got, disk>>

\* What os.WriteFile leaves after n chunks: it creates or empties the file and
\* writes.  One step, as between the two only a file that raced sees it.
Written(f, n) == [of |-> f, chunks |-> SubSeq(data[f], 1, n)]

SaveWrite(f) ==
    /\ saver[f] = "write"
    /\ saver' = [saver EXCEPT ![f] = "saved"]
    /\ disk' = [disk EXCEPT ![path[f]] = Written(f, Len(data[f]))]
    /\ stdout' = Append(stdout, [type |-> "file_saved", id |-> f])
    /\ UNCHANGED <<channelVars, senderVars, fileRx, got, path, data, raced, shown>>

\* Opening fails, or writing does and leaves a part (which one, no property
\* tells apart: all but the last chunk stands for any): a line in the log.
SaveFails(f) ==
    /\ saver[f] = "write"
    /\ saver' = [saver EXCEPT ![f] = "failed"]
    /\ \/ UNCHANGED disk
       \/ disk' = [disk EXCEPT ![path[f]] = Written(f, Len(data[f]) - 1)]
    /\ UNCHANGED <<channelVars, senderVars, hostVars, fileRx, got, path, data, raced>>

------------------------------------------------------------------------------
(* HostedChatService._handle: file_start adds a message with progress 1.0,  *)
(* file_saved sets the path of the message it finds.                        *)
HostReads ==
    /\ stdout # <<>>
    /\ LET m == Head(stdout)
       IN  shown' = [shown EXCEPT ![m.id] =
                        IF m.type = "file_start" THEN "done"
                        ELSE IF @ = "nothing" THEN @ ELSE "saved"]
    /\ stdout' = Tail(stdout)
    /\ UNCHANGED <<channelVars, senderVars, agentVars>>

------------------------------------------------------------------------------
Sender(f) ==
    \/ SendStart(f) \/ BeginWindow(f) \/ SendChunk(f) \/ SendFails(f)
    \/ AwaitAck(f) \/ AwaitDetached(f)

Saver(f) == SaveCopy(f) \/ SaveWrite(f) \/ SaveFails(f)

Next ==
    \/ \E f \in Files, n \in 0..MaxChunks : SendFile(f, n)
    \/ \E f \in Files : Sender(f) \/ AckTimeout(f) \/ Saver(f)
    \/ HandleAck \/ ChannelCloses \/ Detach
    \/ ReceiveStart \/ ReceiveChunk \/ HostReads

Spec == Init /\ [][Next]_vars

(***************************************************************************)
(* Fairness: event loops and goroutines run, timers fire, and the app reads *)
(* the agent's output.  Nothing is assumed of the operator or the network.  *)
(***************************************************************************)
Fairness ==
    /\ \A f \in Files : WF_vars(Sender(f)) /\ WF_vars(AckTimeout(f)) /\ WF_vars(Saver(f))
    /\ WF_vars(HandleAck) /\ WF_vars(ReceiveStart) /\ WF_vars(ReceiveChunk) /\ WF_vars(HostReads)

FairSpec == Spec /\ Fairness

------------------------------------------------------------------------------
Whole(f) == [i \in 1..total[f] |-> i - 1]

\* Types; fileRx holds chunks of the files it is about.
TypeOK ==
    /\ open \in BOOLEAN /\ attached \in BOOLEAN
    /\ \A i \in DOMAIN toAgent : toAgent[i].type \in {"file_start", "file_chunk"} /\ toAgent[i].id \in Files
    /\ \A i \in DOMAIN toViewer : toViewer[i].type = "file_ack" /\ toViewer[i].id \in Files
    /\ tx \in [Files -> TxStates]
    /\ total \in [Files -> 0..MaxChunks] /\ next \in [Files -> 0..MaxChunks]
    /\ inWindow \in [Files -> 0..Window]
    /\ acker \in [Files -> {"none", "pending", "completed", "error"}]
    /\ \A f \in Files : fileRx[f] = None \/ fileRx[f] \in Seq(0..MaxChunks)
    /\ saver \in [Files -> SaverStates]
    /\ path \in [Files -> Paths]
    /\ \A p \in Paths : disk[p] = None \/ disk[p].of \in Files
    /\ raced \subseteq Files
    /\ shown \in [Files -> {"nothing", "done", "saved"}]

\* The sender reports success only for a file the agent has received in full
\* and in order: no acknowledgement of an earlier window ends a later one,
\* although file_ack is matched by id and not by seq (_handleIncoming).
DoneMeansReceived ==
    \A f \in Files : tx[f] = "done" => got[f] = Whole(f)

IsChunk(m, f) == m.type = "file_chunk" /\ m.id = f

\* "at most _kWindowSize" chunks of a transfer are in the channel
\* (chat_service.dart:116-120), whatever is acknowledged when.
WindowBounded ==
    \A f \in Files :
        Cardinality({i \in DOMAIN toAgent : IsChunk(toAgent[i], f)}) <= Window

\* A sender that waits on an open channel waits for something: a chunk the
\* agent still has to see, or an acknowledgement on its way.  Windows and
\* acknowledgements never leave both sides waiting for one another.
NoSilentWait ==
    \A f \in Files : tx[f] = "waiting" /\ acker[f] = "pending" /\ open =>
        \/ \E i \in DOMAIN toAgent : toAgent[i].id = f
        \/ \E i \in DOMAIN toViewer : toViewer[i].id = f

\* What is on the disk is the whole file it belongs to, once that was saved.
WholeOnDisk(d) == d # None /\ (saver[d.of] = "saved" => d.chunks = Whole(d.of))

\* A file that was saved is on the disk under its path, whole and its own, and
\* stays there whatever is saved, fails or is cut short later; all that can be
\* found in its place is a file that took the same path before one of the two
\* was written: saveChatFile looks for the name and opens it in two calls
\* (agent/main.go:682-687).
SavedIsWhole ==
    \A f \in Files : saver[f] = "saved" =>
        LET d == disk[path[f]]
        IN  WholeOnDisk(d) /\ (d.of = f \/ {f, d.of} \subseteq raced)

\* What the two ends believe of a file is true of it: the sender that reports it
\* done (_sendBytes) and the disk that keeps it (saveChatFile).
WhatIsReportedIsWhole == DoneMeansReceived /\ SavedIsWhole

\* A window goes out, is acknowledged and makes room for the next one: never more
\* than a window is under way, and no end of it waits for nothing.
WindowIsHandedOver == WindowBounded /\ NoSilentWait

\* Every transfer ends: done or shown as failed, also when the channel goes
\* without detach being called.
EveryTransferSettles ==
    \A f \in Files : (tx[f] = "start") ~> (tx[f] \in {"done", "failed"})

\* What the viewer saw succeed (and is not empty), or the agent has saved, the
\* host finds in its window with its path, and whole on its disk: file_saved
\* never comes before the message it belongs to.  Two exceptions, which the
\* code reports to neither side: the disk refuses the file, or it raced with
\* another one of its name, of which one overwrites the other
\* (handleChatDCMessage, saveChatFile, HostedChatService._handle).
DoneReachesTheHost ==
    \A f \in Files :
        (tx[f] = "done" /\ total[f] > 0) \/ saver[f] = "saved"
            ~> \/ saver[f] = "failed"
               \/ /\ shown[f] = "saved"
                  /\ f \in raced \/ disk[path[f]] = [of |-> f, chunks |-> Whole(f)]
==============================================================================
