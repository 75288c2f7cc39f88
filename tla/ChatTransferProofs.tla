-------------------------- MODULE ChatTransferProofs --------------------------
(***************************************************************************)
(* Proofs about ChatTransfer: what a sender reports as done the agent has   *)
(* received, what is on the disk is whole, no more than a window is under   *)
(* way, and nobody waits for nothing - for every number of transfers, every *)
(* size of a file and every window.                                         *)
(*                                                                         *)
(* The inductive invariant says of each transfer by itself, first what of   *)
(* it is in the channel to the agent (Stream), then where its window stands *)
(* (Windowed).                                                              *)
(***************************************************************************)
EXTENDS ChatTransfer, TLAPS, FiniteSetTheorems, SequenceTheorems

------------------------------------------------------------------------------
(* The inductive invariant.                                                 *)

Msgs == [type : {"file_start", "file_chunk"}, id : Files, seq : Nat, last : BOOLEAN]
Acks == [type : {"file_ack"}, id : Files, seq : Nat]

\* The types, with what TypeOK leaves open.
Types ==
    /\ open \in BOOLEAN /\ attached \in BOOLEAN
    /\ toAgent \in Seq(Msgs) /\ toViewer \in Seq(Acks)
    /\ tx \in [Files -> TxStates]
    /\ total \in [Files -> 0..MaxChunks] /\ next \in [Files -> Nat]
    /\ inWindow \in [Files -> Nat]
    /\ acker \in [Files -> {"none", "pending", "completed", "error"}]
    /\ fileRx \in [Files -> Seq(Nat) \cup {None}]
    /\ got \in [Files -> Seq(Nat)] /\ data \in [Files -> Seq(Nat)]
    /\ saver \in [Files -> SaverStates]
    /\ path \in [Files -> Paths]
    /\ disk \in [Paths -> [of : Files, chunks : Seq(Nat)] \cup {None}]
    /\ raced \subseteq Files
    /\ stdout \in Seq([type : {"file_start", "file_saved"}, id : Files])
    /\ shown \in [Files -> {"nothing", "done", "saved"}]

IsStart(m, f) == m.type = "file_start" /\ m.id = f

\* _sendBytes has sent its file_start, or given up.
Begun(f) == tx[f] \notin {"idle", "start"}

\* It has not ended.
Active(f) == tx[f] \in {"window", "sending", "waiting"}

Fresh(f) ==
    /\ next[f] = 0 /\ got[f] = <<>> /\ fileRx[f] = None /\ saver[f] = "none"
    /\ \A i \in DOMAIN toAgent : toAgent[i].id # f

\* What has come are the first chunks, and what is on its way are the next ones,
\* in order; as long as the channel is open, all that have been sent.
InOrder(f) ==
    /\ Len(got[f]) <= next[f] /\ next[f] <= total[f]
    /\ \A n \in 1 .. Len(got[f]) : got[f][n] = n - 1
    /\ \A i \in DOMAIN toAgent : IsChunk(toAgent[i], f) =>
          /\ Len(got[f]) <= toAgent[i].seq /\ toAgent[i].seq < next[f]
          /\ toAgent[i].last <=> toAgent[i].seq + 1 = total[f]
    /\ \A i, j \in DOMAIN toAgent :
          i < j /\ IsChunk(toAgent[i], f) /\ IsChunk(toAgent[j], f) => toAgent[i].seq < toAgent[j].seq
    /\ open => \A n \in Len(got[f]) .. next[f] - 1 :
          \E i \in DOMAIN toAgent : IsChunk(toAgent[i], f) /\ toAgent[i].seq = n

\* The agent knows of the transfer, or will before anything that is sent now.
Expected(f) == fileRx[f] # None \/ \E j \in DOMAIN toAgent : IsStart(toAgent[j], f)

\* No chunk comes to an agent that does not expect it.
Announced(f) ==
    /\ Active(f) /\ open /\ attached /\ next[f] < total[f] => Expected(f)
    /\ \A i \in DOMAIN toAgent : IsChunk(toAgent[i], f) =>
          fileRx[f] # None \/ \E j \in DOMAIN toAgent : j < i /\ IsStart(toAgent[j], f)
    /\ \A i \in DOMAIN toAgent : IsStart(toAgent[i], f) =>
          /\ fileRx[f] = None /\ got[f] = <<>> /\ saver[f] = "none"
          /\ \A j \in DOMAIN toAgent : j < i => toAgent[j].id # f

\* The agent's buffer is what it has received, and what it saves is all of it.
Received(f) ==
    /\ fileRx[f] # None => fileRx[f] = got[f] /\ saver[f] \in {"none", "copy"}
    /\ saver[f] # "none" => Len(got[f]) = total[f]
    /\ saver[f] = "copy" => fileRx[f] # None
    /\ saver[f] \in {"write", "saved", "failed"} => data[f] = got[f]

Stream(f) ==
    /\ ~ Begun(f) => Fresh(f)
    /\ InOrder(f) /\ Announced(f) /\ Received(f)

\* Where the window of a sender stands.  It began with all before it received.
InWindow(f) ==
    /\ inWindow[f] <= next[f] /\ next[f] - inWindow[f] <= Len(got[f])
    /\ (next[f] - inWindow[f]) % Window = 0

AckUnderWay(f) == \E i \in DOMAIN toViewer : toViewer[i].id = f

OneAck(f) == \A i, j \in DOMAIN toViewer : toViewer[i].id = f /\ toViewer[j].id = f => i = j

Windowed(f) ==
    /\ inWindow[f] <= Window
    /\ next[f] - Len(got[f]) <= Window
    /\ tx[f] \notin {"sending", "waiting"} => acker[f] = "none"
    /\ tx[f] \in {"idle", "start", "window", "sending", "done"} => ~ AckUnderWay(f)
    /\ tx[f] = "window" => next[f] = Len(got[f]) /\ next[f] % Window = 0 /\ next[f] < total[f]
    /\ tx[f] = "sending" =>
          /\ InWindow(f) /\ inWindow[f] < Window /\ next[f] < total[f]
          /\ acker[f] \in {"pending", "error"}
    /\ tx[f] = "waiting" =>
          /\ InWindow(f) /\ inWindow[f] \in 1 .. Window
          /\ inWindow[f] = Window \/ next[f] = total[f]
          /\ acker[f] # "none"
          /\ AckUnderWay(f) => next[f] = Len(got[f]) /\ acker[f] # "completed"
          /\ OneAck(f)
          /\ acker[f] = "completed" => next[f] = Len(got[f])
          /\ acker[f] = "pending" /\ open /\ next[f] = Len(got[f]) => AckUnderWay(f)
    /\ tx[f] = "done" => next[f] = total[f] /\ Len(got[f]) = total[f]

\* What is on the disk under p was written there, whole if the write succeeded.
Holds(p) ==
    LET g == disk[p].of
    IN  /\ path[g] = p /\ saver[g] \in {"saved", "failed"}
        /\ saver[g] = "saved" => disk[p].chunks = got[g]

\* f is to be written, or is on the disk; else what is there has raced with it.
Placed(f) ==
    /\ path[f] \in {Plain, f}
    /\ saver[f] = "saved" => disk[path[f]] # None
    /\ saver[f] \in {"write", "saved"} /\ disk[path[f]] # None /\ disk[path[f]].of # f
          => {f, disk[path[f]].of} \subseteq raced

\* Two files about to be written under one path are known to race.
Rivals(f, g) ==
    saver[f] = "write" /\ saver[g] = "write" /\ path[f] = path[g] => {f, g} \subseteq raced

\* The disk.
DiskInv ==
    /\ \A p \in Paths : disk[p] # None => Holds(p)
    /\ \A f \in Files : Placed(f)
    /\ \A f, g \in Files : f # g => Rivals(f, g)

ChannelInv == open \/ (toAgent = <<>> /\ toViewer = <<>>)

ChatInv ==
    /\ Types /\ ChannelInv /\ DiskInv
    /\ \A f \in Files : Stream(f) /\ Windowed(f)

------------------------------------------------------------------------------
(* Arithmetic and sequences.                                                *)

\* Quotient and remainder, for a window of any size.
LEMMA Division ==
    ASSUME NEW n \in Nat, NEW w \in Nat, w > 0
    PROVE  \E q \in Nat, r \in 0 .. w - 1 : n = w * q + r /\ n % w = r
      OBVIOUS

\* A multiple leaves nothing.
LEMMA Multiple ==
    ASSUME NEW q \in Nat, NEW w \in Nat, w > 0
    PROVE  (w * q) % w = 0
      OBVIOUS

\* Only one remainder fits.
LEMMA OneRemainder ==
    ASSUME NEW w \in Nat, NEW p \in Nat, NEW q \in Nat, NEW r \in 0 .. w - 1, NEW t \in 0 .. w - 1,
           w * p + r = w * q + t
    PROVE  r = t
<1> DEFINE u == w * p
           v == w * q
<1>1. u \in Nat /\ v \in Nat /\ u + r = v + t
      OBVIOUS
<1>2. ASSUME NEW d \in Nat, p = q + 1 + d PROVE u >= v + w
  <2>1. u = v + w + w * d /\ w * d >= 0 /\ w * d \in Nat
        BY <1>2
  <2> QED
        BY <1>1, <2>1
<1>3. ASSUME NEW d \in Nat, q = p + 1 + d PROVE v >= u + w
  <2>1. v = u + w + w * d /\ w * d >= 0 /\ w * d \in Nat
        BY <1>3
  <2> QED
        BY <1>1, <2>1
<1>4. CASE p > q
  <2>1. PICK d \in Nat : p = q + 1 + d
        BY <1>4
  <2>2. u >= v + w
        BY <1>2, <2>1
  <2> HIDE DEF u, v
  <2> QED
        BY <1>1, <2>2
<1>5. CASE q > p
  <2>1. PICK d \in Nat : q = p + 1 + d
        BY <1>5
  <2>2. v >= u + w
        BY <1>3, <2>1
  <2> HIDE DEF u, v
  <2> QED
        BY <1>1, <2>2
<1>6. CASE p = q
  <2>1. u = v
        BY <1>6
  <2> HIDE DEF u, v
  <2> QED
        BY <1>1, <2>1
<1> QED
      BY <1>4, <1>5, <1>6

\* Inside a window no number of chunks is a multiple of it.
LEMMA InsideWindow ==
    ASSUME NEW a \in Nat, a % Window = 0, NEW x \in 1 .. Window - 1
    PROVE  (a + x) % Window # 0
<1>1. Window \in Nat /\ Window > 0 /\ a + x \in Nat /\ x \in 0 .. Window - 1
      BY WindowAssumption
<1>2. PICK p \in Nat : a = Window * p
      BY <1>1
<1>3. PICK q \in Nat, r \in 0 .. Window - 1 : a + x = Window * q + r /\ (a + x) % Window = r
      BY <1>1, Division
<1>4. Window * p + x = Window * q + r
      BY <1>2, <1>3
<1>5. x = r
      BY <1>1, <1>4, OneRemainder
<1> QED
      BY <1>3, <1>5

\* A window after a number of windows makes one more.
LEMMA WholeWindow ==
    ASSUME NEW a \in Nat, a % Window = 0
    PROVE  (a + Window) % Window = 0
<1>1. Window \in Nat /\ Window > 0
      BY WindowAssumption
<1>2. PICK p \in Nat : a = Window * p
      BY <1>1
<1>3. a + Window = Window * (p + 1) /\ p + 1 \in Nat
      BY <1>1, <1>2
<1>4. (Window * (p + 1)) % Window = 0
      BY <1>1, <1>3, Multiple
<1> QED
      BY <1>3, <1>4

\* What is left without the first.
LEMMA Rest ==
    ASSUME NEW T, NEW s \in Seq(T), s # <<>>
    PROVE  /\ Tail(s) \in Seq(T) /\ Head(s) = s[1] /\ Head(s) \in T /\ 1 \in DOMAIN s
           /\ DOMAIN Tail(s) \subseteq Nat \ {0}
           /\ \A i \in DOMAIN Tail(s) : i + 1 \in DOMAIN s /\ Tail(s)[i] = s[i + 1]
           /\ \A i \in DOMAIN s : i > 1 => i - 1 \in DOMAIN Tail(s) /\ Tail(s)[i - 1] = s[i]
      OBVIOUS

\* One more at the end.
LEMMA OneMore ==
    ASSUME NEW T, NEW s \in Seq(T), NEW m \in T
    PROVE  /\ Append(s, m) \in Seq(T) /\ Len(Append(s, m)) = Len(s) + 1 /\ Len(s) \in Nat
           /\ DOMAIN Append(s, m) = 1 .. Len(s) + 1 /\ DOMAIN s = 1 .. Len(s)
           /\ Append(s, m)[Len(s) + 1] = m
           /\ \A i \in DOMAIN s : Append(s, m)[i] = s[i]
      OBVIOUS

\* What saveChatFile writes is a part of the file.
LEMMA WrittenTypes ==
    ASSUME Types, NEW f \in Files, NEW n \in Int, n <= Len(data[f])
    PROVE  Written(f, n) \in [of : Files, chunks : Seq(Nat)]
<1>1. data[f] \in Seq(Nat)
      BY DEF Types
<1>2. SubSeq(data[f], 1, n) \in Seq(Nat)
  <2>1. CASE n < 1
        BY <1>1, <2>1, SubSeqEmpty
  <2>2. CASE n >= 1
    <3>1. \A i \in 1 .. n : i \in 1 .. Len(data[f])
          BY <1>1
    <3> QED
          BY <1>1, <3>1, SubSeqProperties
  <2> QED
        BY <2>1, <2>2
<1> QED
      BY <1>2 DEF Written

\* The longest part is all of it.
LEMMA AllOfIt ==
    ASSUME NEW T, NEW s \in Seq(T)
    PROVE  SubSeq(s, 1, Len(s)) = s
      OBVIOUS

------------------------------------------------------------------------------
(* The types are inductive.                                                 *)

\* Nothing has been sent yet.
LEMMA InitTypes == Init => Types
<1> SUFFICES ASSUME Init PROVE Types
      OBVIOUS
<1>1. <<>> \in Seq(Nat) /\ <<>> \in Seq(Msgs) /\ <<>> \in Seq(Acks)
      OBVIOUS
<1>2. <<>> \in Seq([type : {"file_start", "file_saved"}, id : Files])
      OBVIOUS
<1>3. 0 \in 0 .. MaxChunks /\ 0 \in Nat /\ Plain \in Paths
      BY WindowAssumption DEF Paths
<1> QED
      BY <1>1, <1>2, <1>3 DEF Init, Types, TxStates, SaverStates

\* The sender's steps keep the types.
LEMMA SenderTypes ==
    ASSUME Types, NEW f \in Files,
           \/ \E n \in 0..MaxChunks : SendFile(f, n)
           \/ Sender(f) \/ AckTimeout(f)
    PROVE  Types'
<1> USE DEF channelVars, senderVars, agentVars, hostVars
<1>1. ASSUME NEW n \in 0..MaxChunks, SendFile(f, n) PROVE Types'
      BY <1>1 DEF SendFile, Types, TxStates
<1>2. CASE SendStart(f)
  <2>1. StartMsg(f) \in Msgs
        BY DEF StartMsg, Msgs
  <2>2. toAgent' \in Seq(Msgs)
        BY <1>2, <2>1, OneMore DEF SendStart, Types
  <2> QED
        BY <1>2, <2>2 DEF SendStart, Types, TxStates
<1>3. CASE BeginWindow(f)
      BY <1>3 DEF BeginWindow, Types, TxStates
<1>4. CASE SendChunk(f)
  <2>1. Chunk(f, next[f]) \in Msgs
        BY DEF Chunk, Msgs, Types
  <2>2. toAgent' \in Seq(Msgs)
        BY <1>4, <2>1, OneMore DEF SendChunk, Types
  <2>3. /\ next' \in [Files -> Nat] /\ inWindow' \in [Files -> Nat]
        BY <1>4 DEF SendChunk, Types
  <2>4. tx' \in [Files -> TxStates]
        BY <1>4 DEF SendChunk, Types, TxStates
  <2>5. UNCHANGED <<open, attached, toViewer, agentVars, hostVars, total, acker>>
        BY <1>4 DEF SendChunk
  <2> QED
        BY <2>2, <2>3, <2>4, <2>5 DEF Types
<1>5. CASE SendFails(f)
      BY <1>5 DEF SendFails, Types, TxStates
<1>6. CASE AwaitAck(f)
      BY <1>6 DEF AwaitAck, Types, TxStates
<1>7. CASE AwaitDetached(f)
      BY <1>7 DEF AwaitDetached, Types, TxStates
<1>8. CASE AckTimeout(f)
      BY <1>8 DEF AckTimeout, Types, TxStates
<1> QED
      BY <1>1, <1>2, <1>3, <1>4, <1>5, <1>6, <1>7, <1>8 DEF Sender

\* What happens to the channel keeps the types.
LEMMA ChannelTypes ==
    ASSUME Types, HandleAck \/ ChannelCloses \/ Detach
    PROVE  Types'
<1> USE DEF channelVars, senderVars, agentVars, hostVars
<1>1. CASE HandleAck
  <2>1. toViewer' \in Seq(Acks)
        BY <1>1, Rest DEF HandleAck, Types
  <2>2. acker' \in [Files -> {"none", "pending", "completed", "error"}]
        BY <1>1 DEF HandleAck, Types
  <2> QED
        BY <1>1, <2>1, <2>2 DEF HandleAck, Types
<1>2. CASE ChannelCloses
  <2>1. <<>> \in Seq(Msgs) /\ <<>> \in Seq(Acks)
        OBVIOUS
  <2> QED
        BY <1>2, <2>1 DEF ChannelCloses, Types
<1>3. CASE Detach
      BY <1>3 DEF Detach, Types
<1> QED
      BY <1>1, <1>2, <1>3

\* The host keeps them.
LEMMA HostTypes ==
    ASSUME Types, HostReads
    PROVE  Types'
<1> USE DEF channelVars, senderVars, agentVars, hostVars
<1>1. Head(stdout) \in [type : {"file_start", "file_saved"}, id : Files]
  <2>1. stdout # <<>> /\ stdout \in Seq([type : {"file_start", "file_saved"}, id : Files])
        BY DEF HostReads, Types
  <2> QED
        BY <2>1, Rest
<1>2. stdout' \in Seq([type : {"file_start", "file_saved"}, id : Files])
      BY Rest DEF HostReads, Types
<1>3. shown' \in [Files -> {"nothing", "done", "saved"}]
      BY <1>1 DEF HostReads, Types
<1> QED
      BY <1>2, <1>3 DEF HostReads, Types

\* So do the agent's.  Whether a chunk is expected is not needed: a chunk that is
\* not is dropped.
LEMMA AgentTypes ==
    ASSUME Types, NEW f \in Files, \A g \in Files : Received(g),
           ReceiveStart \/ ReceiveChunk \/ Saver(f)
    PROVE  Types'
<1> USE DEF channelVars, senderVars, agentVars, hostVars
<1>1. CASE ReceiveStart
  <2>1. Head(toAgent) \in Msgs /\ toAgent' \in Seq(Msgs)
        BY <1>1, Rest DEF ReceiveStart, Types
  <2>2. fileRx' \in [Files -> Seq(Nat) \cup {None}]
    <3>1. Head(toAgent).id \in Files /\ <<>> \in Seq(Nat)
          BY <2>1 DEF Msgs
    <3> QED
          BY <1>1, <3>1 DEF ReceiveStart, Types
  <2>3. [type |-> "file_start", id |-> Head(toAgent).id]
            \in [type : {"file_start", "file_saved"}, id : Files]
        BY <2>1 DEF Msgs
  <2>4. stdout' \in Seq([type : {"file_start", "file_saved"}, id : Files])
        BY <1>1, <2>3, OneMore DEF ReceiveStart, Types
  <2> QED
        BY <1>1, <2>1, <2>2, <2>4 DEF ReceiveStart, Types
<1>2. CASE ReceiveChunk
  <2> DEFINE m == Head(toAgent)
  <2>1. m \in Msgs /\ toAgent' \in Seq(Msgs)
        BY <1>2, Rest DEF ReceiveChunk, Types
  <2>2. m.id \in Files /\ m.seq \in Nat
        BY <2>1 DEF Msgs
  <2>3. CASE fileRx[m.id] = None
        BY <1>2, <2>1, <2>3 DEF ReceiveChunk, Types
  <2>4. CASE fileRx[m.id] # None
    <3>1. fileRx[m.id] \in Seq(Nat) /\ got[m.id] \in Seq(Nat)
          BY <2>2, <2>4 DEF Types
    <3>2. /\ Append(fileRx[m.id], m.seq) \in Seq(Nat)
          /\ Append(got[m.id], m.seq) \in Seq(Nat)
          BY <2>2, <3>1, OneMore
    <3>3. /\ fileRx' = [fileRx EXCEPT ![m.id] = Append(fileRx[m.id], m.seq)]
          /\ got' = [got EXCEPT ![m.id] = Append(got[m.id], m.seq)]
          /\ saver' = [saver EXCEPT ![m.id] = IF m.last THEN "copy" ELSE saver[m.id]]
          /\ toViewer' = toViewer \/ toViewer' = Append(toViewer, Ack(m.id, m.seq))
          BY <1>2, <2>4 DEF ReceiveChunk, AppendChunk
    <3>4. Ack(m.id, m.seq) \in Acks
          BY <2>2 DEF Ack, Acks
    <3>5. toViewer' \in Seq(Acks)
      <4>1. toViewer \in Seq(Acks)
            BY DEF Types
      <4>2. Append(toViewer, Ack(m.id, m.seq)) \in Seq(Acks)
            BY <3>4, <4>1, OneMore
      <4> QED
            BY <3>3, <4>1, <4>2
    <3>6. UNCHANGED <<open, attached, senderVars, data, path, disk, raced, hostVars>>
          BY <1>2 DEF ReceiveChunk
    <3> HIDE DEF m
    <3>7. /\ fileRx' \in [Files -> Seq(Nat) \cup {None}] /\ got' \in [Files -> Seq(Nat)]
          /\ saver' \in [Files -> SaverStates]
          BY <2>2, <3>2, <3>3 DEF Types, SaverStates
    <3> QED
          BY <2>1, <3>5, <3>6, <3>7 DEF Types
  <2> QED
        BY <2>3, <2>4
<1>3. CASE SaveCopy(f)
  <2>1. fileRx[f] \in Seq(Nat)
        BY <1>3 DEF SaveCopy, Types, Received
  <2> QED
        BY <1>3, <2>1 DEF SaveCopy, Types, SaverStates, Paths
<1>4. CASE SaveWrite(f)
  <2>1. Len(data[f]) \in Nat /\ Len(data[f]) <= Len(data[f])
        BY DEF Types
  <2>2. Written(f, Len(data[f])) \in [of : Files, chunks : Seq(Nat)]
        BY <2>1, WrittenTypes
  <2>3. [type |-> "file_saved", id |-> f] \in [type : {"file_start", "file_saved"}, id : Files]
        OBVIOUS
  <2>4. stdout' \in Seq([type : {"file_start", "file_saved"}, id : Files])
        BY <1>4, <2>3, OneMore DEF SaveWrite, Types
  <2>5. disk' \in [Paths -> [of : Files, chunks : Seq(Nat)] \cup {None}]
        BY <1>4, <2>2 DEF SaveWrite, Types
  <2> QED
        BY <1>4, <2>4, <2>5 DEF SaveWrite, Types, SaverStates
<1>5. CASE SaveFails(f)
  <2>1. disk' = disk \/ disk' = [disk EXCEPT ![path[f]] = Written(f, Len(data[f]) - 1)]
        BY <1>5 DEF SaveFails
  <2>2. Written(f, Len(data[f]) - 1) \in [of : Files, chunks : Seq(Nat)]
        BY WrittenTypes
  <2>3. disk' \in [Paths -> [of : Files, chunks : Seq(Nat)] \cup {None}]
        BY <2>1, <2>2 DEF Types
  <2> QED
        BY <1>5, <2>3 DEF SaveFails, Types, SaverStates
<1> QED
      BY <1>1, <1>2, <1>3, <1>4, <1>5 DEF Saver

------------------------------------------------------------------------------
(* The stream of a transfer.                                                *)

\* A step that is about another transfer, as far as the stream goes.
Kept(f) ==
    /\ next'[f] = next[f] /\ total'[f] = total[f]
    /\ got'[f] = got[f] /\ fileRx'[f] = fileRx[f] /\ saver'[f] = saver[f] /\ data'[f] = data[f]
    /\ Begun(f) => Begun(f)'
    /\ Active(f)' => Active(f)

\* The messages of f are still there, d places further to the front.
Shifted(f, d) ==
    /\ \A i \in DOMAIN toAgent' : toAgent'[i].id = f => i + d \in DOMAIN toAgent /\ toAgent'[i] = toAgent[i + d]
    /\ \A i \in DOMAIN toAgent : toAgent[i].id = f => i - d \in DOMAIN toAgent' /\ toAgent'[i - d] = toAgent[i]

\* Messages of others that come or go leave the stream as it is.
LEMMA ShiftedStream ==
    ASSUME Types, Types', NEW f \in Files, Stream(f), Kept(f), open' => open, attached' => attached,
           NEW d \in Nat, Shifted(f, d)
    PROVE  Stream(f)'
<1>1. DOMAIN toAgent \subseteq Nat /\ DOMAIN toAgent' \subseteq Nat
  <2>1. toAgent \in Seq(Msgs) /\ toAgent' \in Seq(Msgs)
        BY DEF Types
  <2> QED
        BY <2>1
<1>2. ~ Begun(f)' => Fresh(f)'
      BY <1>1 DEF Stream, Fresh, Kept, Shifted
<1>3. InOrder(f)'
  <2>1. /\ Len(got[f])' <= next'[f] /\ next'[f] <= total'[f]
        /\ \A n \in 1 .. Len(got'[f]) : got'[f][n] = n - 1
        BY DEF Stream, InOrder, Kept
  <2>2. ASSUME NEW i \in DOMAIN toAgent', IsChunk(toAgent'[i], f)
        PROVE  /\ Len(got'[f]) <= toAgent'[i].seq /\ toAgent'[i].seq < next'[f]
               /\ toAgent'[i].last <=> toAgent'[i].seq + 1 = total'[f]
        BY <2>2 DEF Stream, InOrder, Kept, Shifted, IsChunk
  <2>3. ASSUME NEW i \in DOMAIN toAgent', NEW j \in DOMAIN toAgent', i < j,
               IsChunk(toAgent'[i], f), IsChunk(toAgent'[j], f)
        PROVE  toAgent'[i].seq < toAgent'[j].seq
    <3>1. i + d < j + d
          BY <1>1, <2>3
    <3> QED
          BY <2>3, <3>1 DEF Stream, InOrder, Shifted, IsChunk
  <2>4. ASSUME open', NEW n \in Len(got'[f]) .. next'[f] - 1
        PROVE  \E i \in DOMAIN toAgent' : IsChunk(toAgent'[i], f) /\ toAgent'[i].seq = n
    <3>1. PICK i \in DOMAIN toAgent : IsChunk(toAgent[i], f) /\ toAgent[i].seq = n
          BY <2>4 DEF Stream, InOrder, Kept
    <3>2. i - d \in DOMAIN toAgent' /\ toAgent'[i - d] = toAgent[i]
          BY <3>1 DEF Shifted, IsChunk
    <3> QED
          BY <3>1, <3>2
  <2> QED
        BY <2>1, <2>2, <2>3, <2>4 DEF InOrder
<1>4. Announced(f)'
  <2>1. ASSUME NEW i \in DOMAIN toAgent', IsChunk(toAgent'[i], f)
        PROVE  fileRx'[f] # None \/ \E j \in DOMAIN toAgent' : j < i /\ IsStart(toAgent'[j], f)
    <3>1. i + d \in DOMAIN toAgent /\ IsChunk(toAgent[i + d], f)
          BY <2>1 DEF Shifted, IsChunk
    <3>2. CASE fileRx[f] # None
          BY <3>2 DEF Kept
    <3>3. CASE \E j \in DOMAIN toAgent : j < i + d /\ IsStart(toAgent[j], f)
      <4>1. PICK j \in DOMAIN toAgent : j < i + d /\ IsStart(toAgent[j], f)
            BY <3>3
      <4>2. j - d \in DOMAIN toAgent' /\ toAgent'[j - d] = toAgent[j]
            BY <4>1 DEF Shifted, IsStart
      <4>3. j - d < i
            BY <1>1, <4>1
      <4> QED
            BY <4>1, <4>2, <4>3
    <3> QED
          BY <3>1, <3>2, <3>3 DEF Stream, Announced
  <2>2. ASSUME NEW i \in DOMAIN toAgent', IsStart(toAgent'[i], f)
        PROVE  /\ fileRx'[f] = None /\ got'[f] = <<>> /\ saver'[f] = "none"
               /\ \A j \in DOMAIN toAgent' : j < i => toAgent'[j].id # f
    <3>1. i + d \in DOMAIN toAgent /\ IsStart(toAgent[i + d], f)
          BY <2>2 DEF Shifted, IsStart
    <3>2. /\ fileRx[f] = None /\ got[f] = <<>> /\ saver[f] = "none"
          /\ \A j \in DOMAIN toAgent : j < i + d => toAgent[j].id # f
          BY <3>1 DEF Stream, Announced
    <3>3. ASSUME NEW j \in DOMAIN toAgent', j < i, toAgent'[j].id = f PROVE FALSE
      <4>1. j + d \in DOMAIN toAgent /\ toAgent[j + d].id = f
            BY <3>3 DEF Shifted
      <4>2. j + d < i + d
            BY <1>1, <3>3
      <4> QED
            BY <3>2, <4>1, <4>2
    <3> QED
          BY <3>2, <3>3 DEF Kept
  <2>3. ASSUME Active(f)', open', attached', next'[f] < total'[f] PROVE Expected(f)'
    <3>1. Expected(f)
          BY <2>3 DEF Stream, Announced, Kept
    <3>2. CASE fileRx[f] # None
          BY <3>2 DEF Expected, Kept
    <3>3. CASE \E j \in DOMAIN toAgent : IsStart(toAgent[j], f)
          BY <3>3 DEF Expected, Shifted, IsStart
    <3> QED
          BY <3>1, <3>2, <3>3 DEF Expected
  <2> QED
        BY <2>1, <2>2, <2>3 DEF Announced
<1>5. Received(f)'
      BY DEF Stream, Received, Kept
<1> QED
      BY <1>2, <1>3, <1>4, <1>5 DEF Stream

\* What a step about something else does to the channel leaves the stream as it is.
LEMMA StreamKept ==
    ASSUME Types, Types', NEW f \in Files, Stream(f), Kept(f), open' => open, attached' => attached,
           \/ toAgent' = toAgent
           \/ \E m \in Msgs : m.id # f /\ toAgent' = Append(toAgent, m)
           \/ toAgent # <<>> /\ Head(toAgent).id # f /\ toAgent' = Tail(toAgent)
           \/ ~ open' /\ toAgent' = <<>>
    PROVE  Stream(f)'
<1>0. toAgent \in Seq(Msgs) /\ DOMAIN toAgent \subseteq Nat
  <2>1. toAgent \in Seq(Msgs)
        BY DEF Types
  <2> QED
        BY <2>1
<1>1. CASE toAgent' = toAgent
  <2>1. Shifted(f, 0)
        BY <1>0, <1>1 DEF Shifted
  <2> QED
        BY <2>1, ShiftedStream
<1>2. CASE \E m \in Msgs : m.id # f /\ toAgent' = Append(toAgent, m)
  <2>1. PICK m \in Msgs : m.id # f /\ toAgent' = Append(toAgent, m)
        BY <1>2
  <2> DEFINE n == Len(toAgent)
  <2>2. /\ n \in Nat /\ DOMAIN toAgent = 1 .. n /\ DOMAIN toAgent' = 1 .. n + 1
        /\ toAgent'[n + 1] = m /\ \A i \in DOMAIN toAgent : toAgent'[i] = toAgent[i]
        BY <1>0, <2>1, OneMore
  <2> HIDE DEF n
  <2>3. \A i \in 1 .. n + 1 : i + 0 = i /\ i - 0 = i /\ (i \in 1 .. n \/ i = n + 1)
        BY <2>2
  <2>4. \A i \in 1 .. n : i \in 1 .. n + 1
        BY <2>2
  <2>5. \A i \in DOMAIN toAgent' : toAgent'[i].id = f => i \in DOMAIN toAgent
        BY <2>1, <2>2, <2>3
  <2>6. Shifted(f, 0)
        BY <2>2, <2>3, <2>4, <2>5 DEF Shifted
  <2> QED
        BY <2>6, ShiftedStream
<1>3. CASE toAgent # <<>> /\ Head(toAgent).id # f /\ toAgent' = Tail(toAgent)
  <2>1. /\ Head(toAgent) = toAgent[1]
        /\ \A i \in DOMAIN toAgent' : i + 1 \in DOMAIN toAgent /\ toAgent'[i] = toAgent[i + 1]
        /\ \A i \in DOMAIN toAgent : i > 1 => i - 1 \in DOMAIN toAgent' /\ toAgent'[i - 1] = toAgent[i]
        BY <1>0, <1>3, Rest
  <2>2. \A i \in DOMAIN toAgent : i = 1 \/ i > 1
        BY <1>0
  <2>3. Shifted(f, 1)
        BY <1>3, <2>1, <2>2 DEF Shifted
  <2> QED
        BY <2>3, ShiftedStream
<1>4. CASE ~ open' /\ toAgent' = <<>>
  <2>1. DOMAIN toAgent' = {}
        BY <1>4
  <2> QED
        BY <1>4, <2>1 DEF Stream, Fresh, InOrder, Announced, Received, Kept
<1> QED
      BY <1>1, <1>2, <1>3, <1>4

\* A transfer nothing has happened to.
LEMMA FreshStream ==
    ASSUME Types, Types', NEW f \in Files, Stream(f), tx[f] = "idle", NEW n \in 0 .. MaxChunks, SendFile(f, n)
    PROVE  Stream(f)'
<1>1. Fresh(f)
      BY DEF Stream, Begun
<1>2. Fresh(f)' /\ total'[f] \in Nat
      BY <1>1 DEF SendFile, Fresh, channelVars, agentVars, Types
<1>3. InOrder(f)' /\ Announced(f)' /\ Received(f)'
      BY <1>2 DEF Fresh, InOrder, Announced, Received, IsChunk, IsStart, Active, SendFile
<1> QED
      BY <1>2, <1>3 DEF Stream

\* file_start comes after nothing else of its transfer.
LEMMA StartedStream ==
    ASSUME Types, Types', NEW f \in Files, Stream(f), SendStart(f)
    PROVE  Stream(f)'
<1>1. /\ Fresh(f) /\ tx'[f] \in {"done", "window"}
      /\ next'[f] = 0 /\ got'[f] = <<>> /\ fileRx'[f] = None /\ saver'[f] = "none" /\ total'[f] \in Nat
      BY DEF SendStart, Stream, Begun, Fresh, agentVars, Types
<1>2. CASE toAgent' = toAgent
      BY <1>1, <1>2 DEF Stream, Begun, Fresh, InOrder, Announced, Received, IsChunk, IsStart, SendStart
<1>3. CASE toAgent' = Append(toAgent, StartMsg(f))
  <2> DEFINE n == Len(toAgent)
  <2>1. StartMsg(f) \in Msgs /\ toAgent \in Seq(Msgs)
        BY DEF StartMsg, Msgs, Types
  <2>2. /\ n \in Nat /\ DOMAIN toAgent = 1 .. n /\ DOMAIN toAgent' = 1 .. n + 1
        /\ toAgent'[n + 1] = StartMsg(f) /\ \A i \in DOMAIN toAgent : toAgent'[i] = toAgent[i]
        BY <1>3, <2>1, OneMore
  <2> HIDE DEF n
  <2>3. \A i \in 1 .. n + 1 : i \in 1 .. n \/ i = n + 1
        BY <2>2
  <2>4. \A i \in DOMAIN toAgent' : toAgent'[i].id = f => i = n + 1
        BY <1>1, <2>2, <2>3 DEF Fresh
  <2>5. \A i \in DOMAIN toAgent' : ~ IsChunk(toAgent'[i], f)
        BY <2>2, <2>4 DEF IsChunk, StartMsg
  <2>6. Announced(f)'
        BY <1>1, <2>2, <2>4, <2>5 DEF Announced, IsStart, Expected, StartMsg
  <2>7. InOrder(f)' /\ Received(f)'
        BY <1>1, <2>5 DEF InOrder, Received
  <2> QED
        BY <1>1, <2>6, <2>7 DEF Stream, Begun
<1> QED
      BY <1>2, <1>3 DEF SendStart

\* The next chunk goes behind the others.
LEMMA SentStream ==
    ASSUME Types, Types', NEW f \in Files, Stream(f), next[f] < total[f], SendChunk(f)
    PROVE  Stream(f)'
<1> DEFINE n == Len(toAgent)
           m == Chunk(f, next[f])
<1>1. m \in Msgs /\ toAgent \in Seq(Msgs) /\ toAgent' = Append(toAgent, m)
      BY DEF Chunk, Msgs, Types, SendChunk
<1>2. /\ n \in Nat /\ DOMAIN toAgent = 1 .. n /\ DOMAIN toAgent' = 1 .. n + 1
      /\ toAgent'[n + 1] = m /\ \A i \in DOMAIN toAgent : toAgent'[i] = toAgent[i]
      BY <1>1, OneMore
<1>3. IsChunk(m, f) /\ m.seq = next[f] /\ (m.last <=> m.seq + 1 = total[f])
      BY DEF Chunk, IsChunk
<1>4. /\ next'[f] = next[f] + 1 /\ next[f] \in Nat /\ total[f] \in Nat /\ Len(got[f]) \in Nat
      /\ total'[f] = total[f] /\ got'[f] = got[f] /\ fileRx'[f] = fileRx[f]
      /\ saver'[f] = saver[f] /\ data'[f] = data[f] /\ open /\ open' = open
      /\ Begun(f) /\ Begun(f)'
      BY DEF SendChunk, Types, agentVars, Begun
<1> HIDE DEF n, m
<1>5. \A i \in 1 .. n + 1 : i \in 1 .. n \/ i = n + 1
      BY <1>2
<1>0. InOrder(f) /\ Announced(f) /\ Received(f)
      BY DEF Stream
<1>6. InOrder(f)'
  <2>1. /\ Len(got[f])' <= next'[f] /\ next'[f] <= total'[f]
        /\ \A k \in 1 .. Len(got'[f]) : got'[f][k] = k - 1
        BY <1>0, <1>4 DEF InOrder
  <2>2. ASSUME NEW i \in DOMAIN toAgent', IsChunk(toAgent'[i], f)
        PROVE  /\ Len(got'[f]) <= toAgent'[i].seq /\ toAgent'[i].seq < next'[f]
               /\ toAgent'[i].last <=> toAgent'[i].seq + 1 = total'[f]
    <3>1. CASE i = n + 1
          BY <1>0, <1>2, <1>3, <1>4, <3>1 DEF InOrder
    <3>2. CASE i \in 1 .. n
      <4>1. IsChunk(toAgent[i], f) /\ toAgent'[i] = toAgent[i] /\ toAgent[i] \in Msgs
            BY <1>1, <1>2, <2>2, <3>2
      <4>2. /\ Len(got[f]) <= toAgent[i].seq /\ toAgent[i].seq < next[f]
            /\ toAgent[i].last <=> toAgent[i].seq + 1 = total[f]
            BY <1>0, <1>2, <3>2, <4>1 DEF InOrder
      <4>3. toAgent[i].seq \in Nat
            BY <4>1 DEF Msgs
      <4> QED
            BY <1>4, <4>1, <4>2, <4>3
    <3> QED
          BY <1>2, <1>5, <3>1, <3>2
  <2>3. ASSUME NEW i \in DOMAIN toAgent', NEW j \in DOMAIN toAgent', i < j,
               IsChunk(toAgent'[i], f), IsChunk(toAgent'[j], f)
        PROVE  toAgent'[i].seq < toAgent'[j].seq
    <3>1. i \in 1 .. n
          BY <1>2, <2>3
    <3>2. toAgent'[i] = toAgent[i] /\ IsChunk(toAgent[i], f)
          BY <1>2, <2>3, <3>1
    <3>3. CASE j = n + 1
          BY <1>0, <1>2, <1>3, <3>1, <3>2, <3>3 DEF InOrder
    <3>4. CASE j \in 1 .. n
          BY <1>0, <1>2, <2>3, <3>1, <3>2, <3>4 DEF InOrder
    <3> QED
          BY <1>2, <1>5, <3>3, <3>4
  <2>4. ASSUME NEW k \in Len(got'[f]) .. next'[f] - 1
        PROVE  \E i \in DOMAIN toAgent' : IsChunk(toAgent'[i], f) /\ toAgent'[i].seq = k
    <3>1. CASE k = next[f]
      <4>1. n + 1 \in DOMAIN toAgent'
            BY <1>2
      <4> QED
            BY <1>2, <1>3, <3>1, <4>1
    <3>2. CASE k # next[f]
      <4>1. k \in Len(got[f]) .. next[f] - 1
            BY <1>4, <2>4, <3>2
      <4>2. PICK i \in DOMAIN toAgent : IsChunk(toAgent[i], f) /\ toAgent[i].seq = k
            BY <1>0, <1>4, <4>1 DEF InOrder
      <4>3. i \in DOMAIN toAgent'
            BY <1>2
      <4> QED
            BY <1>2, <4>2, <4>3
    <3> QED
          BY <3>1, <3>2
  <2> QED
        BY <2>1, <2>2, <2>3, <2>4 DEF InOrder
<1>7. Announced(f)'
  <2>1. ASSUME NEW i \in DOMAIN toAgent', IsChunk(toAgent'[i], f)
        PROVE  fileRx'[f] # None \/ \E j \in DOMAIN toAgent' : j < i /\ IsStart(toAgent'[j], f)
    <3>1. CASE i = n + 1
      <4>1. Expected(f)
            BY <1>0 DEF Announced, Active, SendChunk
      <4>2. \A j \in DOMAIN toAgent : j \in DOMAIN toAgent' /\ j < i
            BY <1>2, <3>1
      <4> QED
            BY <1>2, <1>4, <4>1, <4>2 DEF Expected
    <3>2. CASE i \in 1 .. n
      <4>1. IsChunk(toAgent[i], f) /\ i \in DOMAIN toAgent
            BY <1>2, <2>1, <3>2
      <4>2. fileRx[f] # None \/ \E j \in DOMAIN toAgent : j < i /\ IsStart(toAgent[j], f)
            BY <1>0, <4>1 DEF Announced
      <4>3. \A j \in DOMAIN toAgent : j \in DOMAIN toAgent'
            BY <1>2
      <4> QED
            BY <1>2, <1>4, <4>2, <4>3
    <3> QED
          BY <1>2, <1>5, <3>1, <3>2
  <2>2. ASSUME NEW i \in DOMAIN toAgent', IsStart(toAgent'[i], f)
        PROVE  /\ fileRx'[f] = None /\ got'[f] = <<>> /\ saver'[f] = "none"
               /\ \A j \in DOMAIN toAgent' : j < i => toAgent'[j].id # f
    <3>1. i \in 1 .. n
          BY <1>2, <1>3, <1>5, <2>2 DEF IsStart, IsChunk
    <3>2. IsStart(toAgent[i], f)
          BY <1>2, <2>2, <3>1
    <3>3. \A j \in DOMAIN toAgent' : j < i => j \in DOMAIN toAgent
          BY <1>2, <3>1
    <3> QED
          BY <1>0, <1>2, <1>4, <3>1, <3>2, <3>3 DEF Announced
  <2>3. ASSUME Active(f)', open', attached', next'[f] < total'[f] PROVE Expected(f)'
    <3>1. Expected(f)
          BY <1>0 DEF Announced, Active, SendChunk
    <3>2. \A j \in DOMAIN toAgent : j \in DOMAIN toAgent'
          BY <1>2
    <3> QED
          BY <1>2, <1>4, <3>1, <3>2 DEF Expected
  <2> QED
        BY <2>1, <2>2, <2>3 DEF Announced
<1>8. Received(f)'
      BY <1>0, <1>4 DEF Received
<1> QED
      BY <1>4, <1>6, <1>7, <1>8 DEF Stream

\* The agent learns of the transfer.
LEMMA AnnouncedStream ==
    ASSUME Types, Types', NEW f \in Files, Stream(f), ReceiveStart, Head(toAgent).id = f
    PROVE  Stream(f)'
<1>1. /\ toAgent \in Seq(Msgs) /\ toAgent # <<>> /\ Head(toAgent).type = "file_start"
      /\ toAgent' = Tail(toAgent)
      BY DEF Types, ReceiveStart
<1>2. /\ Head(toAgent) = toAgent[1] /\ 1 \in DOMAIN toAgent /\ DOMAIN toAgent' \subseteq Nat \ {0}
      /\ \A i \in DOMAIN toAgent' : i + 1 \in DOMAIN toAgent /\ toAgent'[i] = toAgent[i + 1]
      /\ \A i \in DOMAIN toAgent : i > 1 => i - 1 \in DOMAIN toAgent' /\ toAgent'[i - 1] = toAgent[i]
      BY <1>1, Rest
<1>3. IsStart(toAgent[1], f) /\ ~ IsChunk(toAgent[1], f)
      BY <1>1, <1>2 DEF IsStart, IsChunk
<1>4. got[f] = <<>> /\ saver[f] = "none" /\ Begun(f)
      BY <1>2, <1>3 DEF Stream, Announced, Fresh, IsStart
<1>5. /\ fileRx'[f] = <<>> /\ got'[f] = got[f] /\ saver'[f] = saver[f] /\ data'[f] = data[f]
      /\ next'[f] = next[f] /\ total'[f] = total[f] /\ tx'[f] = tx[f] /\ open' = open
      /\ fileRx'[f] # None
  <2>1. <<>> # None
    <3>1. <<>> \in Seq(Nat)
          OBVIOUS
    <3> QED
          BY <3>1, NoneAssumption
  <2>2. fileRx' = [fileRx EXCEPT ![f] = <<>>]
        BY DEF ReceiveStart
  <2> QED
        BY <2>1, <2>2 DEF ReceiveStart, senderVars, Types
<1>6. \A i \in DOMAIN toAgent : i \in Nat /\ (i = 1 \/ i > 1)
      BY <1>1
<1>7. ASSUME NEW i \in DOMAIN toAgent' PROVE ~ IsStart(toAgent'[i], f)
  <2>1. i + 1 \in DOMAIN toAgent /\ toAgent'[i] = toAgent[i + 1] /\ 1 < i + 1
        BY <1>2
  <2>2. IsStart(toAgent[i + 1], f) => toAgent[1].id # f
        BY <1>2, <2>1 DEF Stream, Announced
  <2> QED
        BY <1>3, <2>1, <2>2 DEF IsStart
<1>8. Announced(f)'
      BY <1>5, <1>7 DEF Announced, Expected
<1>9. InOrder(f)'
  <2>1. /\ Len(got[f])' <= next'[f] /\ next'[f] <= total'[f]
        /\ \A n \in 1 .. Len(got'[f]) : got'[f][n] = n - 1
        BY <1>5 DEF Stream, InOrder
  <2>2. ASSUME NEW i \in DOMAIN toAgent', IsChunk(toAgent'[i], f)
        PROVE  /\ Len(got'[f]) <= toAgent'[i].seq /\ toAgent'[i].seq < next'[f]
               /\ toAgent'[i].last <=> toAgent'[i].seq + 1 = total'[f]
        BY <1>2, <1>5, <2>2 DEF Stream, InOrder
  <2>3. ASSUME NEW i \in DOMAIN toAgent', NEW j \in DOMAIN toAgent', i < j,
               IsChunk(toAgent'[i], f), IsChunk(toAgent'[j], f)
        PROVE  toAgent'[i].seq < toAgent'[j].seq
    <3>1. i + 1 < j + 1
          BY <1>2, <2>3
    <3> QED
          BY <1>2, <2>3, <3>1 DEF Stream, InOrder
  <2>4. ASSUME open', NEW k \in Len(got'[f]) .. next'[f] - 1
        PROVE  \E i \in DOMAIN toAgent' : IsChunk(toAgent'[i], f) /\ toAgent'[i].seq = k
    <3>1. PICK i \in DOMAIN toAgent : IsChunk(toAgent[i], f) /\ toAgent[i].seq = k
          BY <1>5, <2>4 DEF Stream, InOrder
    <3>2. i > 1
          BY <1>3, <1>6, <3>1
    <3> QED
          BY <1>2, <3>1, <3>2
  <2> QED
        BY <2>1, <2>2, <2>3, <2>4 DEF InOrder
<1>10. Received(f)'
      BY <1>4, <1>5 DEF Stream, Received
<1> QED
      BY <1>4, <1>5, <1>8, <1>9, <1>10 DEF Stream, Begun

\* The chunk that comes next to the agent is the one it waits for, and one of a
\* transfer it knows.
LEMMA NextChunk ==
    ASSUME Types, ChannelInv, toAgent # <<>>, NEW f \in Files, Stream(f), IsChunk(Head(toAgent), f)
    PROVE  /\ Head(toAgent).seq = Len(got[f]) /\ Len(got[f]) < next[f] /\ fileRx[f] # None
           /\ Head(toAgent).last <=> Len(got[f]) + 1 = total[f]
           /\ open /\ saver[f] = "none" /\ fileRx[f] = got[f] /\ Begun(f)
<1>1. toAgent \in Seq(Msgs) /\ Len(got[f]) \in Nat /\ next[f] \in Nat
      BY DEF Types
<1>2. /\ Head(toAgent) = toAgent[1] /\ 1 \in DOMAIN toAgent /\ Head(toAgent) \in Msgs
      /\ \A i \in DOMAIN toAgent : i \in Nat /\ (i = 1 \/ i > 1)
      BY <1>1, Rest
<1>3. IsChunk(toAgent[1], f) /\ toAgent[1].seq \in Nat
      BY <1>2 DEF Msgs
<1>4. /\ Len(got[f]) <= toAgent[1].seq /\ toAgent[1].seq < next[f]
      /\ toAgent[1].last <=> toAgent[1].seq + 1 = total[f]
      BY <1>2, <1>3 DEF Stream, InOrder
<1>5. open
      BY DEF ChannelInv
<1>6. Len(got[f]) \in Len(got[f]) .. next[f] - 1
      BY <1>1, <1>3, <1>4
<1>7. PICK i \in DOMAIN toAgent : IsChunk(toAgent[i], f) /\ toAgent[i].seq = Len(got[f])
      BY <1>5, <1>6 DEF Stream, InOrder
<1>8. i = 1
  <2>1. i > 1 => toAgent[1].seq < toAgent[i].seq
        BY <1>2, <1>3, <1>7 DEF Stream, InOrder
  <2> QED
        BY <1>1, <1>2, <1>3, <1>4, <1>7, <2>1
<1>9. fileRx[f] # None
  <2>1. ~ \E j \in DOMAIN toAgent : j < 1
        BY <1>2
  <2> QED
        BY <1>2, <1>3, <2>1 DEF Stream, Announced
<1>10. Begun(f)
      BY <1>2, <1>3 DEF Stream, Fresh, IsChunk
<1>11. saver[f] = "none" /\ fileRx[f] = got[f]
  <2>1. fileRx[f] = got[f] /\ saver[f] \in {"none", "copy"}
        BY <1>9 DEF Stream, Received
  <2>2. saver[f] # "none" => Len(got[f]) = total[f]
        BY DEF Stream, Received
  <2>3. next[f] <= total[f] /\ total[f] \in Nat
        BY DEF Stream, InOrder, Types
  <2> QED
        BY <1>1, <1>3, <1>4, <2>1, <2>2, <2>3
<1> QED
      BY <1>1, <1>2, <1>3, <1>4, <1>5, <1>7, <1>8, <1>9, <1>10, <1>11

\* What ReceiveChunk does with it.
LEMMA ChunkTaken ==
    ASSUME Types, ChannelInv, NEW f \in Files, Stream(f), ReceiveChunk, Head(toAgent).id = f
    PROVE  LET n == Len(got[f]) IN
           /\ IsChunk(Head(toAgent), f)
           /\ got'[f] = Append(got[f], n) /\ Len(got'[f]) = n + 1 /\ n \in Nat
           /\ \A i \in 1 .. n : got'[f][i] = got[f][i]
           /\ got'[f][n + 1] = n
           /\ fileRx'[f] = got'[f] /\ fileRx'[f] # None
           /\ saver'[f] = IF n + 1 = total[f] THEN "copy" ELSE "none"
           /\ toViewer' = IF AckDue(f, n + 1, n + 1 = total[f])
                          THEN Append(toViewer, Ack(f, n)) ELSE toViewer
           /\ \A g \in Files : g # f =>
                 got'[g] = got[g] /\ fileRx'[g] = fileRx[g] /\ saver'[g] = saver[g]
<1> DEFINE m == Head(toAgent)
           n == Len(got[f])
<1>1. IsChunk(m, f) /\ toAgent # <<>>
      BY DEF ReceiveChunk, IsChunk
<1>2. /\ m.seq = n /\ fileRx[f] # None /\ (m.last <=> n + 1 = total[f])
      /\ open /\ saver[f] = "none" /\ fileRx[f] = got[f]
      BY <1>1, NextChunk
<1>3. got[f] \in Seq(Nat) /\ n \in Nat
      BY DEF Types
<1>4. /\ Append(got[f], n) \in Seq(Nat) /\ Len(Append(got[f], n)) = n + 1
      /\ Append(got[f], n)[n + 1] = n /\ \A i \in 1 .. n : Append(got[f], n)[i] = got[f][i]
      BY <1>3, OneMore
<1>5. /\ fileRx' = [fileRx EXCEPT ![f] = Append(fileRx[f], m.seq)]
      /\ got' = [got EXCEPT ![f] = Append(got[f], m.seq)]
      /\ saver' = [saver EXCEPT ![f] = IF m.last THEN "copy" ELSE saver[f]]
      /\ toViewer' = IF open /\ AckDue(f, n + 1, m.last) THEN Append(toViewer, Ack(f, m.seq)) ELSE toViewer
      BY <1>2 DEF ReceiveChunk, AppendChunk
<1>6. fileRx \in [Files -> Seq(Nat) \cup {None}] /\ got \in [Files -> Seq(Nat)] /\ saver \in [Files -> SaverStates]
      BY DEF Types
<1>7. toViewer' = IF AckDue(f, n + 1, n + 1 = total[f]) THEN Append(toViewer, Ack(f, n)) ELSE toViewer
      BY <1>2, <1>5 DEF AckDue
<1> HIDE DEF m, n
<1>8. /\ got'[f] = Append(got[f], n) /\ fileRx'[f] = Append(got[f], n)
      /\ saver'[f] = IF n + 1 = total[f] THEN "copy" ELSE "none"
      /\ \A g \in Files : g # f =>
            got'[g] = got[g] /\ fileRx'[g] = fileRx[g] /\ saver'[g] = saver[g]
      BY <1>2, <1>5, <1>6
<1>9. Append(got[f], n) # None
      BY <1>4, NoneAssumption
<1> QED
      BY <1>1, <1>3, <1>4, <1>7, <1>8, <1>9 DEF m, n

\* The chunk is added to what has been received.
LEMMA ReceivedStream ==
    ASSUME Types, Types', ChannelInv, NEW f \in Files, Stream(f), ReceiveChunk, Head(toAgent).id = f
    PROVE  Stream(f)'
<1> DEFINE n == Len(got[f])
<1>1. /\ IsChunk(Head(toAgent), f)
      /\ Len(got'[f]) = n + 1 /\ n \in Nat
      /\ \A i \in 1 .. n : got'[f][i] = got[f][i]
      /\ got'[f][n + 1] = n
      /\ fileRx'[f] = got'[f] /\ fileRx'[f] # None
      /\ saver'[f] = IF n + 1 = total[f] THEN "copy" ELSE "none"
      BY ChunkTaken
<1>2. toAgent \in Seq(Msgs) /\ toAgent # <<>> /\ toAgent' = Tail(toAgent)
      BY DEF Types, ReceiveChunk
<1>3. /\ Head(toAgent).seq = n /\ n < next[f] /\ Begun(f) /\ fileRx[f] # None
      BY <1>1, <1>2, NextChunk
<1>4. /\ Head(toAgent) = toAgent[1] /\ 1 \in DOMAIN toAgent /\ DOMAIN toAgent' \subseteq Nat \ {0}
      /\ \A i \in DOMAIN toAgent' : i + 1 \in DOMAIN toAgent /\ toAgent'[i] = toAgent[i + 1]
      /\ \A i \in DOMAIN toAgent : i > 1 => i - 1 \in DOMAIN toAgent' /\ toAgent'[i - 1] = toAgent[i]
      /\ \A i \in DOMAIN toAgent : i \in Nat /\ (i = 1 \/ i > 1) /\ toAgent[i] \in Msgs
      BY <1>2, Rest
<1>5. /\ next'[f] = next[f] /\ total'[f] = total[f] /\ tx'[f] = tx[f] /\ open' = open
      /\ next[f] \in Nat /\ total[f] \in Nat
      BY DEF ReceiveChunk, senderVars, Types
<1> HIDE DEF n
<1>6. InOrder(f)'
  <2>0. InOrder(f) /\ n = Len(got[f])
        BY DEF Stream, n
  <2>1. /\ Len(got[f])' <= next'[f] /\ next'[f] <= total'[f]
        /\ \A k \in 1 .. Len(got'[f]) : got'[f][k] = k - 1
    <3>1. \A k \in 1 .. n : got[f][k] = k - 1
          BY <2>0 DEF InOrder
    <3>2. \A k \in 1 .. n + 1 : k \in 1 .. n \/ k = n + 1
          BY <1>1
    <3> QED
          BY <1>1, <1>3, <1>5, <2>0, <3>1, <3>2 DEF InOrder
  <2>2. ASSUME NEW i \in DOMAIN toAgent', IsChunk(toAgent'[i], f)
        PROVE  /\ Len(got'[f]) <= toAgent'[i].seq /\ toAgent'[i].seq < next'[f]
               /\ toAgent'[i].last <=> toAgent'[i].seq + 1 = total'[f]
    <3>1. /\ i + 1 \in DOMAIN toAgent /\ 1 < i + 1 /\ IsChunk(toAgent[i + 1], f)
          /\ toAgent'[i] = toAgent[i + 1] /\ toAgent[i + 1].seq \in Nat
          BY <1>4, <2>2 DEF Msgs
    <3>2. toAgent[1].seq < toAgent[i + 1].seq
          BY <1>1, <1>4, <2>0, <3>1 DEF InOrder
    <3>3. /\ toAgent[i + 1].seq < next[f]
          /\ toAgent[i + 1].last <=> toAgent[i + 1].seq + 1 = total[f]
          BY <2>0, <3>1 DEF InOrder
    <3>4. n < toAgent[i + 1].seq
          BY <1>3, <1>4, <3>2
    <3> QED
          BY <1>1, <1>5, <3>1, <3>3, <3>4
  <2>3. ASSUME NEW i \in DOMAIN toAgent', NEW j \in DOMAIN toAgent', i < j,
               IsChunk(toAgent'[i], f), IsChunk(toAgent'[j], f)
        PROVE  toAgent'[i].seq < toAgent'[j].seq
    <3>1. i + 1 < j + 1
          BY <1>4, <2>3
    <3> QED
          BY <1>4, <2>0, <2>3, <3>1 DEF InOrder
  <2>4. ASSUME open', NEW k \in Len(got'[f]) .. next'[f] - 1
        PROVE  \E i \in DOMAIN toAgent' : IsChunk(toAgent'[i], f) /\ toAgent'[i].seq = k
    <3>1. k \in Len(got[f]) .. next[f] - 1 /\ k # n
          BY <1>1, <1>5, <2>0, <2>4
    <3>2. PICK i \in DOMAIN toAgent : IsChunk(toAgent[i], f) /\ toAgent[i].seq = k
          BY <1>5, <2>0, <2>4, <3>1 DEF InOrder
    <3>3. i > 1
          BY <1>3, <1>4, <3>1, <3>2
    <3> QED
          BY <1>4, <3>2, <3>3
  <2> QED
        BY <2>1, <2>2, <2>3, <2>4 DEF InOrder
<1>7. Announced(f)'
  <2>1. ASSUME NEW i \in DOMAIN toAgent', IsStart(toAgent'[i], f) PROVE FALSE
    <3>1. i + 1 \in DOMAIN toAgent /\ IsStart(toAgent[i + 1], f)
          BY <1>4, <2>1
    <3> QED
          BY <1>3, <3>1 DEF Stream, Announced
  <2> QED
        BY <1>1, <2>1 DEF Announced, Expected
<1>8. Received(f)'
      BY <1>1, <1>5 DEF Received
<1> QED
      BY <1>3, <1>5, <1>6, <1>7, <1>8 DEF Stream, Begun

\* saveChatFile forgets a transfer of which nothing is under way any more.
LEMMA CopiedStream ==
    ASSUME Types, Types', NEW f \in Files, Stream(f), SaveCopy(f)
    PROVE  Stream(f)'
<1>1. /\ saver[f] = "copy" /\ fileRx[f] = got[f] /\ Len(got[f]) = total[f] /\ Begun(f)
      BY DEF SaveCopy, Stream, Received, Fresh
<1>2. /\ fileRx'[f] = None /\ saver'[f] = "write" /\ data'[f] = fileRx[f] /\ got' = got /\ toAgent' = toAgent
      /\ next'[f] = next[f] /\ total'[f] = total[f] /\ tx'[f] = tx[f] /\ open' = open
      BY DEF SaveCopy, senderVars, channelVars, Types
<1>3. /\ next[f] = total[f] /\ next[f] \in Nat /\ total[f] \in Nat
      BY <1>1 DEF Stream, InOrder, Types
<1>4. toAgent \in Seq(Msgs)
      BY DEF Types
<1>5. ASSUME NEW i \in DOMAIN toAgent, IsChunk(toAgent[i], f) PROVE FALSE
  <2>1. toAgent[i] \in Msgs
        BY <1>4
  <2>2. toAgent[i].seq \in Nat
        BY <2>1 DEF Msgs
  <2> QED
        BY <1>1, <1>3, <1>5, <2>2 DEF Stream, InOrder
<1>6. ASSUME NEW i \in DOMAIN toAgent, IsStart(toAgent[i], f) PROVE FALSE
      BY <1>1, <1>6 DEF Stream, Announced
<1>7. InOrder(f)'
      BY <1>2 DEF Stream, InOrder
<1>8. Announced(f)'
      BY <1>2, <1>3, <1>5, <1>6 DEF Announced
<1>9. Received(f)'
      BY <1>1, <1>2 DEF Received
<1> QED
      BY <1>1, <1>2, <1>7, <1>8, <1>9 DEF Stream, Begun

\* It writes the file, or cannot.
LEMMA WrittenStream ==
    ASSUME Types, Types', NEW f \in Files, Stream(f), SaveWrite(f) \/ SaveFails(f)
    PROVE  Stream(f)'
<1>1. /\ saver[f] = "write" /\ Begun(f) /\ saver'[f] \in {"saved", "failed"}
      BY DEF SaveWrite, SaveFails, Stream, Fresh, Types
<1>2. /\ UNCHANGED <<fileRx, got, data, toAgent, next, total, tx, open, attached>>
      BY DEF SaveWrite, SaveFails, senderVars, channelVars
<1>3. fileRx[f] = None /\ Len(got[f]) = total[f] /\ data[f] = got[f]
      BY <1>1 DEF Stream, Received
<1>4. InOrder(f)'
      BY <1>2 DEF Stream, InOrder
<1>5. Announced(f)'
      BY <1>1, <1>2 DEF Stream, Announced, Expected, Active
<1>6. Received(f)'
      BY <1>1, <1>2, <1>3 DEF Received
<1> QED
      BY <1>1, <1>2, <1>4, <1>5, <1>6 DEF Stream, Begun

------------------------------------------------------------------------------
(* The window of a transfer.                                                *)

\* The acknowledgements of f are still there, and there are no more of them.
AcksKept(f) == (AckUnderWay(f)' <=> AckUnderWay(f)) /\ (OneAck(f) => OneAck(f)')

\* An acknowledgement for another transfer, one that is taken, and a closed channel.
LEMMA AcksOfOthers ==
    ASSUME Types, NEW f \in Files,
           \/ toViewer' = toViewer
           \/ \E m \in Acks : m.id # f /\ toViewer' = Append(toViewer, m)
           \/ toViewer # <<>> /\ Head(toViewer).id # f /\ toViewer' = Tail(toViewer)
    PROVE  AcksKept(f)
<1>0. toViewer \in Seq(Acks)
      BY DEF Types
<1>1. CASE toViewer' = toViewer
      BY <1>1 DEF AcksKept, AckUnderWay, OneAck
<1>2. CASE \E m \in Acks : m.id # f /\ toViewer' = Append(toViewer, m)
  <2>1. PICK m \in Acks : m.id # f /\ toViewer' = Append(toViewer, m)
        BY <1>2
  <2> DEFINE n == Len(toViewer)
  <2>2. /\ n \in Nat /\ DOMAIN toViewer = 1 .. n /\ DOMAIN toViewer' = 1 .. n + 1
        /\ toViewer'[n + 1] = m /\ \A i \in DOMAIN toViewer : toViewer'[i] = toViewer[i]
        BY <1>0, <2>1, OneMore
  <2> HIDE DEF n
  <2>3. \A i \in 1 .. n + 1 : i \in 1 .. n \/ i = n + 1
        BY <2>2
  <2>4. \A i \in 1 .. n : i \in 1 .. n + 1
        BY <2>2
  <2>5. \A i \in DOMAIN toViewer' : toViewer'[i].id = f => i \in DOMAIN toViewer
        BY <2>1, <2>2, <2>3
  <2> QED
        BY <2>2, <2>4, <2>5 DEF AcksKept, AckUnderWay, OneAck
<1>3. CASE toViewer # <<>> /\ Head(toViewer).id # f /\ toViewer' = Tail(toViewer)
  <2>1. /\ Head(toViewer) = toViewer[1] /\ DOMAIN toViewer' \subseteq Nat
        /\ \A i \in DOMAIN toViewer' : i + 1 \in DOMAIN toViewer /\ toViewer'[i] = toViewer[i + 1]
        /\ \A i \in DOMAIN toViewer : i > 1 => i - 1 \in DOMAIN toViewer' /\ toViewer'[i - 1] = toViewer[i]
        /\ \A i \in DOMAIN toViewer : i = 1 \/ i > 1
        BY <1>0, <1>3, Rest
  <2>2. AckUnderWay(f)' <=> AckUnderWay(f)
        BY <1>3, <2>1 DEF AckUnderWay
  <2>3. ASSUME OneAck(f), NEW i \in DOMAIN toViewer', NEW j \in DOMAIN toViewer',
               toViewer'[i].id = f, toViewer'[j].id = f
        PROVE  i = j
    <3>1. i + 1 = j + 1
          BY <2>1, <2>3 DEF OneAck
    <3> QED
          BY <2>1, <3>1
  <2> QED
        BY <2>2, <2>3 DEF AcksKept, OneAck
<1> QED
      BY <1>1, <1>2, <1>3

\* A step about something else leaves the window where it stands.
LEMMA WindowKept ==
    ASSUME Types, NEW f \in Files, Windowed(f), open' => open,
           tx'[f] = tx[f], total'[f] = total[f], next'[f] = next[f], inWindow'[f] = inWindow[f],
           acker'[f] = acker[f], got'[f] = got[f],
           AcksKept(f) \/ (~ open' /\ toViewer' = <<>>)
    PROVE  Windowed(f)'
<1>1. CASE AcksKept(f)
      BY <1>1 DEF AcksKept, Windowed, InWindow
<1>2. CASE ~ open' /\ toViewer' = <<>>
  <2>1. ~ AckUnderWay(f)' /\ OneAck(f)'
        BY <1>2 DEF AckUnderWay, OneAck
  <2> QED
        BY <1>2, <2>1 DEF Windowed, InWindow
<1> QED
      BY <1>1, <1>2

\* The sender's own steps.
LEMMA SenderWindow ==
    ASSUME Types, Types', NEW f \in Files, Stream(f), Windowed(f),
           \/ \E n \in 0 .. MaxChunks : SendFile(f, n)
           \/ Sender(f) \/ AckTimeout(f)
    PROVE  Windowed(f)'
<1>0. /\ next[f] \in Nat /\ total[f] \in Nat /\ inWindow[f] \in Nat /\ Len(got[f]) \in Nat
      /\ Window \in Nat /\ Window > 0 /\ total'[f] \in Nat /\ Len(got[f]) <= next[f]
      BY WindowAssumption DEF Types, Stream, InOrder
<1>1. toViewer' = toViewer /\ got' = got /\ open' = open
      BY DEF SendFile, Sender, AckTimeout, SendStart, BeginWindow, SendChunk, SendFails,
             AwaitAck, AwaitDetached, channelVars, agentVars
<1>2. (AckUnderWay(f)' <=> AckUnderWay(f)) /\ (OneAck(f)' <=> OneAck(f))
      BY <1>1 DEF AckUnderWay, OneAck
<1>3. ASSUME NEW n \in 0 .. MaxChunks, SendFile(f, n) PROVE Windowed(f)'
  <2>1. next[f] = 0 /\ Len(got[f]) = 0 /\ tx[f] = "idle"
        BY <1>3 DEF SendFile, Stream, Begun, Fresh
  <2>2. /\ tx'[f] \in {"start", "failed"} /\ UNCHANGED <<next, inWindow, acker>>
        BY <1>3 DEF SendFile, Types
  <2> QED
        BY <1>0, <1>1, <1>2, <2>1, <2>2 DEF Windowed
<1>4. CASE SendStart(f)
  <2>1. next[f] = 0 /\ Len(got[f]) = 0 /\ tx[f] = "start"
        BY <1>4 DEF SendStart, Stream, Begun, Fresh
  <2>2. /\ tx'[f] = IF total[f] = 0 THEN "done" ELSE "window"
        /\ UNCHANGED <<total, next, inWindow, acker>>
        BY <1>4 DEF SendStart, Types
  <2>3. 0 % Window = 0
        BY <1>0
  <2> QED
        BY <1>0, <1>1, <1>2, <2>1, <2>2, <2>3 DEF Windowed
<1>5. CASE BeginWindow(f)
  <2>1. /\ tx[f] = "window" /\ tx'[f] = "sending" /\ acker'[f] = "pending" /\ inWindow'[f] = 0
        /\ UNCHANGED <<total, next>>
        BY <1>5 DEF BeginWindow, Types
  <2>2. /\ next[f] = Len(got[f]) /\ next[f] % Window = 0 /\ next[f] < total[f]
        /\ ~ AckUnderWay(f)
        BY <2>1 DEF Windowed
  <2>3. next'[f] - inWindow'[f] = next[f]
        BY <1>0, <2>1
  <2>4. (next'[f] - inWindow'[f]) % Window = 0
        BY <2>2, <2>3
  <2>5. next'[f] - inWindow'[f] <= Len(got'[f]) /\ inWindow'[f] <= next'[f]
        BY <1>0, <1>1, <2>1, <2>2, <2>3
  <2>6. InWindow(f)'
        BY <2>4, <2>5, Zenon DEF InWindow
  <2> QED
        BY <1>0, <1>1, <1>2, <2>1, <2>2, <2>6 DEF Windowed
<1>6. CASE SendChunk(f)
  <2>1. /\ tx[f] = "sending" /\ next'[f] = next[f] + 1 /\ inWindow'[f] = inWindow[f] + 1
        /\ tx'[f] = IF next[f] + 1 = total[f] \/ inWindow[f] + 1 = Window THEN "waiting" ELSE "sending"
        /\ UNCHANGED <<total, acker>>
        BY <1>6 DEF SendChunk, Types
  <2>2. /\ InWindow(f) /\ inWindow[f] < Window /\ next[f] < total[f]
        /\ acker[f] \in {"pending", "error"} /\ ~ AckUnderWay(f)
        BY <2>1 DEF Windowed
  <2>3. next'[f] - inWindow'[f] = next[f] - inWindow[f]
        BY <1>0, <2>1
  <2>4. InWindow(f)' /\ inWindow'[f] \in 1 .. Window
    <3>1. (next'[f] - inWindow'[f]) % Window = 0
          BY <2>2, <2>3, Zenon DEF InWindow
    <3>2. next[f] - inWindow[f] <= Len(got'[f]) /\ inWindow'[f] <= next'[f]
          BY <1>0, <1>1, <2>1, <2>2 DEF InWindow
    <3>3. inWindow'[f] \in 1 .. Window
          BY <1>0, <2>1, <2>2
    <3> QED
          BY <2>3, <3>1, <3>2, <3>3 DEF InWindow
  <2>5. next'[f] - Len(got'[f]) <= Window
        BY <1>0, <1>1, <2>1, <2>2 DEF InWindow
  <2>6. OneAck(f)
        BY <2>2 DEF OneAck, AckUnderWay
  <2>7. next'[f] # Len(got'[f])
        BY <1>0, <1>1, <2>1
  <2>8. tx'[f] = "sending" => inWindow'[f] < Window /\ next'[f] < total'[f]
        BY <1>0, <2>1, <2>2
  <2>9. tx'[f] = "waiting" => inWindow'[f] = Window \/ next'[f] = total'[f]
        BY <2>1
  <2> QED
        BY <1>0, <1>1, <1>2, <2>1, <2>2, <2>4, <2>5, <2>6, <2>7, <2>8, <2>9 DEF Windowed
<1>7. CASE SendFails(f) \/ AwaitDetached(f) \/ AckTimeout(f)
  <2>1. /\ tx'[f] = "failed" /\ acker'[f] = "none" /\ UNCHANGED <<total, next, inWindow>>
        BY <1>7 DEF SendFails, AwaitDetached, AckTimeout, Types
  <2> QED
        BY <1>1, <2>1 DEF Windowed
<1>8. CASE AwaitAck(f)
  <2>1. /\ tx[f] = "waiting" /\ acker[f] = "completed" /\ acker'[f] = "none"
        /\ tx'[f] = IF next[f] = total[f] THEN "done" ELSE "window"
        /\ UNCHANGED <<total, next, inWindow>>
        BY <1>8 DEF AwaitAck, Types
  <2>2. /\ InWindow(f) /\ next[f] = Len(got[f]) /\ ~ AckUnderWay(f)
        /\ inWindow[f] = Window \/ next[f] = total[f]
        BY <2>1 DEF Windowed
  <2>3. CASE next[f] = total[f]
        BY <1>0, <1>1, <1>2, <2>1, <2>2, <2>3 DEF Windowed
  <2>4. CASE next[f] # total[f]
    <3>1. next[f] % Window = 0
      <4>1. next[f] - Window \in Nat /\ (next[f] - Window) % Window = 0
            BY <1>0, <2>2, <2>4 DEF InWindow
      <4>2. ((next[f] - Window) + Window) % Window = 0
            BY <4>1, WholeWindow
      <4>3. (next[f] - Window) + Window = next[f]
            BY <1>0
      <4> QED
            BY <4>2, <4>3
    <3>2. next[f] < total[f]
          BY <1>0, <2>4 DEF Stream, InOrder
    <3> QED
          BY <1>0, <1>1, <1>2, <2>1, <2>2, <2>4, <3>1, <3>2 DEF Windowed
  <2> QED
        BY <2>3, <2>4
<1> QED
      BY <1>3, <1>4, <1>5, <1>6, <1>7, <1>8 DEF Sender

\* An acknowledgement ends the window it is of.
LEMMA AckedWindow ==
    ASSUME Types, Types', NEW f \in Files, Windowed(f), HandleAck, Head(toViewer).id = f
    PROVE  Windowed(f)'
<1>1. toViewer \in Seq(Acks) /\ toViewer # <<>> /\ toViewer' = Tail(toViewer)
      BY DEF Types, HandleAck
<1>2. /\ Head(toViewer) = toViewer[1] /\ 1 \in DOMAIN toViewer /\ DOMAIN toViewer' \subseteq Nat \ {0}
      /\ \A i \in DOMAIN toViewer' : i + 1 \in DOMAIN toViewer /\ toViewer'[i] = toViewer[i + 1]
      BY <1>1, Rest
<1>3. /\ UNCHANGED <<tx, total, next, inWindow, got, open>>
      /\ acker'[f] = IF acker[f] = "pending" THEN "completed" ELSE acker[f]
  <2>1. acker' = [acker EXCEPT ![f] = IF acker[f] = "pending" THEN "completed" ELSE acker[f]]
        BY DEF HandleAck
  <2> QED
        BY <2>1 DEF HandleAck, Types, agentVars
<1>4. AckUnderWay(f)
      BY <1>2 DEF AckUnderWay
<1>5. CASE tx[f] = "waiting"
  <2>1. /\ InWindow(f) /\ inWindow[f] \in 1 .. Window
        /\ inWindow[f] = Window \/ next[f] = total[f]
        /\ acker[f] \notin {"none", "completed"} /\ next[f] = Len(got[f]) /\ OneAck(f)
        BY <1>4, <1>5 DEF Windowed
  <2>2. \A i \in DOMAIN toViewer' : toViewer'[i].id # f
    <3> SUFFICES ASSUME NEW i \in DOMAIN toViewer', toViewer'[i].id = f PROVE FALSE
          OBVIOUS
    <3>1. i + 1 = 1
          BY <1>2, <2>1 DEF OneAck
    <3> QED
          BY <1>2, <3>1
  <2>3. ~ AckUnderWay(f)' /\ OneAck(f)'
        BY <2>2 DEF AckUnderWay, OneAck
  <2>4. acker'[f] \in {"completed", "error"}
        BY <1>3, <2>1 DEF Types
  <2>5. InWindow(f)'
        BY <1>3, <2>1 DEF InWindow
  <2> QED
        BY <1>3, <1>5, <2>1, <2>3, <2>4, <2>5 DEF Windowed
<1>6. CASE tx[f] # "waiting"
  <2>1. tx[f] = "failed" /\ acker[f] = "none"
        BY <1>4, <1>6 DEF Windowed, Types, TxStates
  <2> QED
        BY <1>3, <2>1 DEF Windowed
<1> QED
      BY <1>5, <1>6

\* The session is torn down.
LEMMA DetachedWindow ==
    ASSUME Types, Types', NEW f \in Files, Windowed(f), Detach
    PROVE  Windowed(f)'
<1>1. /\ UNCHANGED <<tx, total, next, inWindow, got, open, toViewer>>
      /\ acker'[f] = IF acker[f] = "pending" THEN "error" ELSE acker[f]
      BY DEF Detach, agentVars, Types
<1>2. /\ AckUnderWay(f)' <=> AckUnderWay(f)
      /\ OneAck(f)' <=> OneAck(f)
      BY <1>1 DEF AckUnderWay, OneAck
<1>3. InWindow(f)' <=> InWindow(f)
      BY <1>1 DEF InWindow
<1> QED
      BY <1>1, <1>2, <1>3 DEF Windowed

\* The agent acknowledges at the end of a window, and nowhere else.
LEMMA AckIsForWindow ==
    ASSUME Types, NEW f \in Files, Stream(f), Windowed(f), Len(got[f]) < next[f],
           tx[f] \in {"sending", "waiting"}
    PROVE  LET n == Len(got[f]) IN
           AckDue(f, n + 1, n + 1 = total[f]) <=> (tx[f] = "waiting" /\ next[f] = n + 1)
<1> DEFINE n == Len(got[f])
           base == next[f] - inWindow[f]
           x == n + 1 - base
<1>1. /\ next[f] \in Nat /\ total[f] \in Nat /\ inWindow[f] \in Nat /\ n \in Nat
      /\ Window \in Nat /\ Window > 0 /\ n < next[f] /\ next[f] <= total[f]
      BY WindowAssumption DEF Types, Stream, InOrder
<1>2. InWindow(f)
      BY DEF Windowed
<1>3. base \in Nat /\ base % Window = 0 /\ base <= n /\ next[f] = base + inWindow[f]
      BY <1>1, <1>2 DEF InWindow
<1> HIDE DEF n, base
<1>4. x \in 1 .. inWindow[f] /\ n + 1 = base + x
      BY <1>1, <1>3
<1> HIDE DEF x
<1>5. x < Window => (n + 1) % Window # 0
  <2>1. ASSUME x < Window PROVE x \in 1 .. Window - 1
        BY <1>1, <1>4, <2>1
  <2> QED
        BY <1>3, <1>4, <2>1, InsideWindow
<1>6. x = Window => (n + 1) % Window = 0
      BY <1>3, <1>4, WholeWindow
<1>7. AckDue(f, n + 1, n + 1 = total[f]) <=> (n + 1 = total[f] \/ (n + 1) % Window = 0)
      BY DEF AckDue
<1>8. CASE tx[f] = "sending"
  <2>1. inWindow[f] < Window /\ next[f] < total[f]
        BY <1>8 DEF Windowed
  <2>2. x < Window /\ n + 1 # total[f]
        BY <1>1, <1>4, <2>1
  <2> QED
        BY <1>5, <1>7, <1>8, <2>2 DEF n
<1>9. CASE tx[f] = "waiting"
  <2>1. inWindow[f] \in 1 .. Window /\ (inWindow[f] = Window \/ next[f] = total[f])
        BY <1>9 DEF Windowed
  <2>2. CASE n + 1 = next[f]
    <3>1. x = inWindow[f]
          BY <1>1, <1>3, <1>4, <2>2
    <3> QED
          BY <1>6, <1>7, <1>9, <2>1, <2>2, <3>1 DEF n
  <2>3. CASE n + 1 # next[f]
    <3>1. x < Window
          BY <1>1, <1>3, <1>4, <2>1, <2>3
    <3>2. n + 1 # total[f]
          BY <1>1, <2>3
    <3> QED
          BY <1>5, <1>7, <2>3, <3>1, <3>2 DEF n
  <2> QED
        BY <2>2, <2>3
<1> QED
      BY <1>8, <1>9

\* A chunk is received, and acknowledged when its window has ended with it.
LEMMA ReceivedWindow ==
    ASSUME Types, Types', ChannelInv, NEW f \in Files, Stream(f), Windowed(f),
           ReceiveChunk, Head(toAgent).id = f
    PROVE  Windowed(f)'
<1> DEFINE n == Len(got[f])
<1>1. /\ IsChunk(Head(toAgent), f) /\ Len(got'[f]) = n + 1 /\ n \in Nat
      /\ toViewer' = IF AckDue(f, n + 1, n + 1 = total[f]) THEN Append(toViewer, Ack(f, n)) ELSE toViewer
      BY ChunkTaken
<1>2. /\ n < next[f] /\ Begun(f)
      BY <1>1, NextChunk DEF ReceiveChunk
<1>3. UNCHANGED <<tx, total, next, inWindow, acker, open>>
      BY DEF ReceiveChunk, senderVars
<1>4. /\ next[f] \in Nat /\ inWindow[f] \in Nat /\ Window \in Nat /\ tx[f] \in TxStates
      BY WindowAssumption DEF Types
<1>5. next'[f] - Len(got'[f]) <= Window
      BY <1>1, <1>2, <1>3, <1>4 DEF Windowed
<1>6. tx[f] \in {"sending", "waiting", "failed"}
      BY <1>1, <1>2, <1>4 DEF Windowed, Begun, TxStates
<1>7. CASE tx[f] = "failed"
      BY <1>3, <1>5, <1>7 DEF Windowed
<1>8. CASE tx[f] \in {"sending", "waiting"}
  <2>1. AckDue(f, n + 1, n + 1 = total[f]) <=> (tx[f] = "waiting" /\ next[f] = n + 1)
        BY <1>2, <1>8, AckIsForWindow
  <2>2. InWindow(f) /\ ~ AckUnderWay(f) /\ acker[f] # "completed"
        BY <1>1, <1>2, <1>4, <1>8 DEF Windowed
  <2>3. InWindow(f)'
        BY <1>1, <1>3, <1>4, <2>2 DEF InWindow
  <2>4. CASE AckDue(f, n + 1, n + 1 = total[f])
    <3>1. toViewer' = Append(toViewer, Ack(f, n)) /\ toViewer \in Seq(Acks) /\ Ack(f, n) \in Acks
          BY <1>1, <2>4 DEF Types, Ack, Acks
    <3> DEFINE l == Len(toViewer)
    <3>2. /\ l \in Nat /\ DOMAIN toViewer = 1 .. l /\ DOMAIN toViewer' = 1 .. l + 1
          /\ toViewer'[l + 1] = Ack(f, n) /\ \A i \in DOMAIN toViewer : toViewer'[i] = toViewer[i]
          BY <3>1, OneMore
    <3> HIDE DEF l, n
    <3>3. \A i \in 1 .. l + 1 : i \in 1 .. l \/ i = l + 1
          BY <3>2
    <3>4. \A i \in DOMAIN toViewer' : toViewer'[i].id = f => i = l + 1
          BY <2>2, <3>2, <3>3 DEF AckUnderWay
    <3>5. OneAck(f)'
          BY <3>4 DEF OneAck
    <3>6. AckUnderWay(f)'
      <4>1. l + 1 \in DOMAIN toViewer' /\ toViewer'[l + 1].id = f
            BY <3>2 DEF Ack
      <4> QED
            BY <4>1 DEF AckUnderWay
    <3>7. tx'[f] = "waiting" /\ next'[f] = Len(got'[f])
          BY <1>1, <1>3, <2>1, <2>4
    <3> QED
          BY <1>3, <1>5, <2>2, <2>3, <3>5, <3>6, <3>7 DEF Windowed
  <2>5. CASE ~ AckDue(f, n + 1, n + 1 = total[f])
    <3>1. toViewer' = toViewer
          BY <1>1, <2>5
    <3>2. ~ AckUnderWay(f)' /\ OneAck(f)'
          BY <2>2, <3>1 DEF AckUnderWay, OneAck
    <3>3. tx[f] = "waiting" => next'[f] # Len(got'[f])
          BY <1>1, <1>3, <2>1, <2>5
    <3> QED
          BY <1>3, <1>5, <1>8, <2>2, <2>3, <3>2, <3>3 DEF Windowed
  <2> QED
        BY <2>4, <2>5
<1> QED
      BY <1>6, <1>7, <1>8

------------------------------------------------------------------------------
(* The invariant is inductive.                                              *)

\* What is written or about to be stays, and so does what it is written from.
LEMMA DiskKept ==
    ASSUME Types, DiskInv, disk' = disk, path' = path, raced' = raced,
           \A g \in Files : saver'[g] = saver[g] \/ (saver[g] = "none" /\ saver'[g] = "copy"),
           \A g \in Files : saver[g] # "none" => got'[g] = got[g]
    PROVE  DiskInv'
<1>1. ASSUME NEW p \in Paths, disk'[p] # None PROVE Holds(p)'
  <2>1. disk[p] \in [of : Files, chunks : Seq(Nat)]
        BY <1>1 DEF Types
  <2> QED
        BY <1>1, <2>1 DEF DiskInv, Holds
<1>2. ASSUME NEW f \in Files PROVE Placed(f)'
      BY <1>2 DEF DiskInv, Placed
<1>3. ASSUME NEW f \in Files, NEW g \in Files, f # g PROVE Rivals(f, g)'
      BY <1>3 DEF DiskInv, Rivals
<1> QED
      BY <1>1, <1>2, <1>3 DEF DiskInv

\* At first every transfer is fresh.
LEMMA InitInv == Init => ChatInv
<1> SUFFICES ASSUME Init PROVE ChatInv
      OBVIOUS
<1>1. Types
      BY InitTypes
<1>2. /\ toAgent = <<>> /\ toViewer = <<>>
      /\ \A f \in Files :
            /\ tx[f] = "idle" /\ total[f] = 0 /\ next[f] = 0 /\ inWindow[f] = 0 /\ acker[f] = "none"
            /\ fileRx[f] = None /\ got[f] = <<>> /\ saver[f] = "none"
      /\ \A f \in Files : path[f] = Plain
      /\ \A p \in Paths : disk[p] = None
      BY DEF Init
<1>3. ASSUME NEW f \in Files PROVE Stream(f)
  <2>1. Fresh(f)
        BY <1>2 DEF Fresh
  <2>2. InOrder(f)
        BY <1>2 DEF InOrder
  <2>3. Announced(f) /\ Received(f)
        BY <1>2 DEF Announced, Received, Active
  <2> QED
        BY <2>1, <2>2, <2>3 DEF Stream
<1>4. ASSUME NEW f \in Files PROVE Windowed(f)
      BY <1>2, WindowAssumption DEF Windowed, AckUnderWay
<1> QED
      BY <1>1, <1>2, <1>3, <1>4 DEF ChatInv, ChannelInv, DiskInv, Placed, Rivals

\* _sendBytes.
LEMMA SenderInv ==
    ASSUME ChatInv, NEW f \in Files,
           \/ \E n \in 0 .. MaxChunks : SendFile(f, n)
           \/ Sender(f) \/ AckTimeout(f)
    PROVE  ChatInv'
<1> USE DEF channelVars, agentVars, hostVars
<1>1. Types /\ Types' /\ \A g \in Files : Stream(g) /\ Windowed(g)
      BY SenderTypes DEF ChatInv
<1>2. /\ UNCHANGED <<open, attached, toViewer, agentVars>>
      BY DEF SendFile, Sender, AckTimeout, SendStart, BeginWindow, SendChunk, SendFails, AwaitAck, AwaitDetached
<1>3. toAgent' = toAgent \/ (open /\ \E m \in Msgs : m.id = f /\ toAgent' = Append(toAgent, m))
  <2>1. CASE SendStart(f)
    <3>1. StartMsg(f) \in Msgs /\ StartMsg(f).id = f
          BY DEF StartMsg, Msgs
    <3> QED
          BY <2>1, <3>1 DEF SendStart
  <2>2. CASE SendChunk(f)
    <3>1. Chunk(f, next[f]) \in Msgs /\ Chunk(f, next[f]).id = f
          BY <1>1 DEF Chunk, Msgs, Types
    <3> QED
          BY <2>2, <3>1 DEF SendChunk
  <2>3. CASE ~ SendStart(f) /\ ~ SendChunk(f)
        BY <2>3 DEF SendFile, Sender, AckTimeout, BeginWindow, SendFails, AwaitAck, AwaitDetached
  <2> QED
        BY <2>1, <2>2, <2>3
<1>4. ChannelInv' /\ DiskInv'
  <2>1. ChannelInv'
        BY <1>2, <1>3 DEF ChatInv, ChannelInv
  <2> QED
        BY <1>1, <1>2, <2>1, DiskKept DEF ChatInv
<1>5. ASSUME NEW g \in Files, g # f PROVE Stream(g)' /\ Windowed(g)'
  <2>1. /\ tx'[g] = tx[g] /\ total'[g] = total[g] /\ next'[g] = next[g] /\ inWindow'[g] = inWindow[g]
        /\ acker'[g] = acker[g]
        BY <1>1, <1>5 DEF SendFile, Sender, AckTimeout, SendStart, BeginWindow, SendChunk, SendFails,
                          AwaitAck, AwaitDetached, Types
  <2>2. Kept(g)
        BY <1>2, <2>1 DEF Kept, Begun, Active
  <2>3. Stream(g)'
        BY <1>1, <1>2, <1>3, <1>5, <2>2, StreamKept
  <2>4. AcksKept(g)
        BY <1>1, <1>2, AcksOfOthers
  <2> QED
        BY <1>1, <1>2, <2>1, <2>3, <2>4, WindowKept
<1>6. Stream(f)'
  <2>1. ASSUME NEW n \in 0 .. MaxChunks, SendFile(f, n) PROVE Stream(f)'
        BY <1>1, <2>1, FreshStream DEF SendFile
  <2>2. CASE SendStart(f)
        BY <1>1, <2>2, StartedStream
  <2>3. CASE SendChunk(f)
    <3>1. next[f] < total[f]
          BY <1>1, <2>3 DEF SendChunk, Windowed
    <3> QED
          BY <1>1, <2>3, <3>1, SentStream
  <2>4. CASE BeginWindow(f) \/ SendFails(f) \/ AwaitAck(f) \/ AwaitDetached(f) \/ AckTimeout(f)
    <3>1. UNCHANGED <<total, next, toAgent>>
          BY <2>4 DEF BeginWindow, SendFails, AwaitAck, AwaitDetached, AckTimeout
    <3>2. tx[f] \in {"window", "sending", "waiting"} /\ tx'[f] \notin {"idle", "start"}
          BY <1>1, <2>4 DEF BeginWindow, SendFails, AwaitAck, AwaitDetached, AckTimeout, Types
    <3>3. Kept(f)
          BY <1>2, <3>1, <3>2 DEF Kept, Begun, Active
    <3> QED
          BY <1>1, <1>2, <3>1, <3>3, StreamKept
  <2> QED
        BY <2>1, <2>2, <2>3, <2>4 DEF Sender
<1>7. Windowed(f)'
      BY <1>1, SenderWindow
<1> QED
      BY <1>1, <1>4, <1>5, <1>6, <1>7 DEF ChatInv

\* What happens to the channel and to the acknowledgements.
LEMMA ChannelStepInv ==
    ASSUME ChatInv, HandleAck \/ ChannelCloses \/ Detach
    PROVE  ChatInv'
<1> USE DEF channelVars, senderVars, agentVars, hostVars
<1>1. Types /\ Types' /\ \A g \in Files : Stream(g) /\ Windowed(g)
      BY ChannelTypes DEF ChatInv
<1>2. /\ UNCHANGED <<tx, total, next, inWindow, agentVars>>
      /\ (open' => open) /\ (attached' => attached)
      /\ toAgent' = toAgent \/ (~ open' /\ toAgent' = <<>>)
      BY DEF HandleAck, ChannelCloses, Detach
<1>3. DiskInv'
      BY <1>1, <1>2, DiskKept DEF ChatInv
<1>4. ChannelInv'
  <2>1. ASSUME HandleAck PROVE ChannelInv'
        BY <2>1 DEF HandleAck, ChatInv, ChannelInv
  <2> QED
        BY <2>1 DEF ChannelCloses, Detach, ChatInv, ChannelInv
<1>5. ASSUME NEW g \in Files PROVE Stream(g)'
  <2>1. Kept(g)
        BY <1>2 DEF Kept, Begun, Active
  <2> QED
        BY <1>1, <1>2, <2>1, StreamKept
<1>6. ASSUME NEW g \in Files PROVE Windowed(g)'
  <2>1. CASE HandleAck
    <3>1. CASE Head(toViewer).id = g
          BY <1>1, <2>1, <3>1, AckedWindow
    <3>2. CASE Head(toViewer).id # g
      <4>1. toViewer # <<>> /\ toViewer' = Tail(toViewer) /\ acker'[g] = acker[g]
            BY <1>1, <2>1, <3>2 DEF HandleAck, Types
      <4>2. AcksKept(g)
            BY <1>1, <3>2, <4>1, AcksOfOthers
      <4> QED
            BY <1>1, <1>2, <4>1, <4>2, WindowKept
    <3> QED
          BY <3>1, <3>2
  <2>2. CASE ChannelCloses
    <3>1. ~ open' /\ toViewer' = <<>> /\ acker' = acker
          BY <2>2 DEF ChannelCloses
    <3> QED
          BY <1>1, <1>2, <3>1, WindowKept
  <2>3. CASE Detach
        BY <1>1, <2>3, DetachedWindow
  <2> QED
        BY <2>1, <2>2, <2>3
<1> QED
      BY <1>1, <1>3, <1>4, <1>5, <1>6 DEF ChatInv

\* A chunk starts saveChatFile or does not.
LEMMA CopyBegun ==
    ASSUME Types, ReceiveChunk, NEW f \in Files, f = Head(toAgent).id, saver[f] = "none"
    PROVE  saver'[f] \in {"none", "copy"}
      BY DEF ReceiveChunk, Types

\* The agent takes a message.
LEMMA ReceiveInv ==
    ASSUME ChatInv, ReceiveStart \/ ReceiveChunk
    PROVE  ChatInv'
<1> USE DEF channelVars, senderVars, agentVars, hostVars
<1> DEFINE f == Head(toAgent).id
<1>1. Types /\ ChannelInv /\ \A g \in Files : Stream(g) /\ Windowed(g) /\ Received(g)
      BY DEF ChatInv, Stream
<1>2. /\ toAgent # <<>> /\ toAgent \in Seq(Msgs) /\ toAgent' = Tail(toAgent)
      /\ UNCHANGED <<open, attached, tx, total, next, inWindow, acker, data, path, disk, raced>>
      BY <1>1 DEF ReceiveStart, ReceiveChunk, Types
<1>3. f \in Files
  <2>1. Head(toAgent) \in Msgs
        BY <1>2, Rest
  <2> QED
        BY <2>1 DEF Msgs
<1>4. Types'
      BY <1>1, <1>3, AgentTypes
<1>5. ChannelInv'
      BY <1>1, <1>2 DEF ChannelInv
<1>6. ASSUME ReceiveStart PROVE ChatInv'
  <2>1. /\ UNCHANGED <<toViewer, got, saver>> /\ \A g \in Files : g # f => fileRx'[g] = fileRx[g]
        BY <1>1, <1>6 DEF ReceiveStart, Types
  <2>2. DiskInv'
        BY <1>1, <1>2, <2>1, DiskKept DEF ChatInv
  <2>3. ASSUME NEW g \in Files PROVE Stream(g)'
    <3>1. CASE g = f
          BY <1>1, <1>4, <1>6, <3>1, AnnouncedStream
    <3>2. CASE g # f
      <4>1. Kept(g)
            BY <1>2, <2>1, <3>2 DEF Kept, Begun, Active
      <4> QED
            BY <1>1, <1>2, <1>4, <3>2, <4>1, StreamKept
    <3> QED
          BY <3>1, <3>2
  <2>4. ASSUME NEW g \in Files PROVE Windowed(g)'
    <3>1. AcksKept(g)
          BY <1>1, <2>1, AcksOfOthers
    <3> QED
          BY <1>1, <1>2, <2>1, <3>1, WindowKept
  <2> QED
        BY <1>4, <1>5, <2>2, <2>3, <2>4 DEF ChatInv
<1>7. ASSUME ReceiveChunk PROVE ChatInv'
  <2> DEFINE n == Len(got[f])
  <2>1. /\ IsChunk(Head(toAgent), f) /\ n \in Nat
        /\ toViewer' = Append(toViewer, Ack(f, n)) \/ toViewer' = toViewer
        /\ \A g \in Files : g # f =>
              got'[g] = got[g] /\ fileRx'[g] = fileRx[g] /\ saver'[g] = saver[g]
        BY <1>1, <1>3, <1>7, ChunkTaken
  <2>2. saver[f] = "none"
        BY <1>1, <1>2, <1>3, <2>1, NextChunk
  <2>3. Ack(f, n) \in Acks /\ Ack(f, n).id = f
        BY <1>3, <2>1 DEF Ack, Acks
  <2> HIDE DEF n, f
  <2>4. DiskInv'
    <3>1. saver'[f] \in {"none", "copy"}
          BY <1>1, <1>3, <1>7, <2>2, CopyBegun DEF f
    <3>2. \A g \in Files : saver'[g] = saver[g] \/ (saver[g] = "none" /\ saver'[g] = "copy")
          BY <2>1, <2>2, <3>1
    <3>3. \A g \in Files : saver[g] # "none" => got'[g] = got[g]
          BY <2>1, <2>2
    <3> QED
          BY <1>1, <1>2, <3>2, <3>3, DiskKept DEF ChatInv
  <2>5. ASSUME NEW g \in Files PROVE Stream(g)'
    <3>1. CASE g = f
          BY <1>1, <1>4, <1>7, <3>1, ReceivedStream DEF f
    <3>2. CASE g # f
      <4>1. Kept(g)
            BY <1>2, <2>1, <3>2 DEF Kept, Begun, Active
      <4> QED
            BY <1>1, <1>2, <1>4, <3>2, <4>1, StreamKept DEF f
    <3> QED
          BY <3>1, <3>2
  <2>6. ASSUME NEW g \in Files PROVE Windowed(g)'
    <3>1. CASE g = f
          BY <1>1, <1>4, <1>7, <3>1, ReceivedWindow DEF f
    <3>2. CASE g # f
      <4>1. AcksKept(g)
            BY <1>1, <2>1, <2>3, <3>2, AcksOfOthers
      <4> QED
            BY <1>1, <1>2, <2>1, <3>2, <4>1, WindowKept
    <3> QED
          BY <3>1, <3>2
  <2> QED
        BY <1>4, <1>5, <2>4, <2>5, <2>6 DEF ChatInv
<1> QED
      BY <1>6, <1>7

\* saveChatFile takes a path: a free one, or its own.
LEMMA CopiedDisk ==
    ASSUME Types, DiskInv, NEW f \in Files, SaveCopy(f)
    PROVE  DiskInv'
<1>1. /\ saver[f] = "copy" /\ saver'[f] = "write" /\ UNCHANGED <<disk, got>>
      /\ path'[f] = (IF disk[Plain] = None THEN Plain ELSE f) /\ raced \subseteq raced'
      /\ \A g \in Files : g # f => saver'[g] = saver[g] /\ path'[g] = path[g]
      BY DEF SaveCopy, Types
<1>2. ASSUME NEW p \in Paths, disk[p] # None PROVE disk[p].of \in Files /\ disk[p].of # f
  <2>1. disk[p].of \in Files
        BY <1>2 DEF Types
  <2> QED
        BY <1>1, <1>2, <2>1 DEF DiskInv, Holds
<1>3. f \in Paths /\ Plain \in Paths
      BY DEF Paths
<1>4. disk[path'[f]] = None
  <2>1. CASE disk[Plain] = None
        BY <1>1, <2>1
  <2>2. CASE disk[Plain] # None
    <3>1. SUFFICES ASSUME disk[f] # None PROVE FALSE
          BY <1>1, <2>2
    <3>2. disk[f].of \in Files /\ disk[f].of # f /\ path[disk[f].of] = f
          BY <1>2, <1>3, <3>1 DEF DiskInv, Holds
    <3>3. path[disk[f].of] \in {Plain, disk[f].of}
          BY <3>2 DEF DiskInv, Placed
    <3> QED
          BY <3>2, <3>3, NoneAssumption
  <2> QED
        BY <2>1, <2>2
<1>5. ASSUME NEW p \in Paths, disk'[p] # None PROVE Holds(p)'
      BY <1>1, <1>2, <1>5 DEF DiskInv, Holds
<1>6. ASSUME NEW g \in Files PROVE Placed(g)'
  <2>1. CASE g = f
        BY <1>1, <1>4, <2>1 DEF Placed
  <2>2. CASE g # f
        BY <1>1, <2>2 DEF DiskInv, Placed
  <2> QED
        BY <2>1, <2>2
<1>7. ASSUME NEW g \in Files, g # f, saver[g] = "write", path[g] = path'[f]
      PROVE  {f, g} \subseteq raced'
      BY <1>1, <1>7 DEF SaveCopy
<1>8. ASSUME NEW g \in Files, NEW h \in Files, g # h PROVE Rivals(g, h)'
  <2>1. CASE g # f /\ h # f
        BY <1>1, <1>8, <2>1 DEF DiskInv, Rivals
  <2>2. CASE g = f \/ h = f
        BY <1>1, <1>7, <1>8, <2>2 DEF Rivals
  <2> QED
        BY <2>1, <2>2
<1> QED
      BY <1>5, <1>6, <1>8 DEF DiskInv

\* saveChatFile writes, all of the file or a part of it, and ends.
LEMMA WrittenDisk ==
    ASSUME Types, Types', DiskInv, NEW f \in Files,
           saver[f] = "write", saver' \in {[saver EXCEPT ![f] = "saved"], [saver EXCEPT ![f] = "failed"]},
           UNCHANGED <<path, got, raced>>, NEW c \in Seq(Nat), disk' = [disk EXCEPT ![path[f]] = [of |-> f, chunks |-> c]],
           saver'[f] = "saved" => c = got[f]
    PROVE  DiskInv'
<1>1. /\ saver'[f] \in {"saved", "failed"} /\ path[f] \in Paths
      /\ \A g \in Files : g # f => saver'[g] = saver[g]
      /\ disk'[path[f]] # None /\ disk'[path[f]].of = f /\ disk'[path[f]].chunks = c
      /\ \A p \in Paths : p # path[f] => disk'[p] = disk[p]
  <2>1. disk'[path[f]] = [of |-> f, chunks |-> c] /\ path[f] \in Paths
        BY DEF Types
  <2>2. disk'[path[f]] # None
    <3>1. disk'[path[f]] \in [of : Files, chunks : Seq(Nat)]
          BY <2>1
    <3> QED
          BY <3>1, NoneAssumption
  <2> QED
        BY <2>1, <2>2 DEF Types
<1>2. ASSUME NEW p \in Paths, disk[p] # None PROVE disk[p].of \in Files /\ disk[p].of # f
  <2>1. disk[p].of \in Files
        BY <1>2 DEF Types
  <2> QED
        BY <1>2, <2>1 DEF DiskInv, Holds
<1>3. ASSUME NEW p \in Paths, disk'[p] # None PROVE Holds(p)'
  <2>1. CASE p = path[f]
        BY <1>1, <2>1 DEF Holds
  <2>2. CASE p # path[f]
        BY <1>1, <1>2, <1>3, <2>2 DEF DiskInv, Holds
  <2> QED
        BY <2>1, <2>2
<1>4. ASSUME NEW g \in Files, g # f, path[g] = path[f], saver[g] \in {"write", "saved"}
      PROVE  {f, g} \subseteq raced
  <2>1. CASE saver[g] = "write"
        BY <1>4, <2>1 DEF DiskInv, Rivals
  <2>2. CASE saver[g] = "saved"
    <3>1. disk[path[f]] # None /\ disk[path[f]].of # f
          BY <1>1, <1>2, <1>4, <2>2 DEF DiskInv, Placed
    <3>2. {f, disk[path[f]].of} \subseteq raced
          BY <3>1 DEF DiskInv, Placed
    <3>3. disk[path[f]].of # g => g \in raced
          BY <1>4, <3>1 DEF DiskInv, Placed
    <3> QED
          BY <3>2, <3>3
  <2> QED
        BY <1>4, <2>1, <2>2
<1>5. ASSUME NEW g \in Files PROVE Placed(g)'
  <2>1. CASE g = f
        BY <1>1, <2>1 DEF DiskInv, Placed
  <2>2. CASE g # f /\ path[g] = path[f]
        BY <1>1, <1>4, <2>2 DEF DiskInv, Placed
  <2>3. CASE g # f /\ path[g] # path[f]
    <3>1. path[g] \in Paths
          BY DEF Types
    <3> QED
          BY <1>1, <2>3, <3>1 DEF DiskInv, Placed
  <2> QED
        BY <2>1, <2>2, <2>3
<1>6. ASSUME NEW g \in Files, NEW h \in Files, g # h PROVE Rivals(g, h)'
      BY <1>1, <1>6 DEF DiskInv, Rivals
<1> QED
      BY <1>3, <1>5, <1>6 DEF DiskInv

\* saveChatFile cannot write at all.
LEMMA RefusedDisk ==
    ASSUME Types, DiskInv, NEW f \in Files, saver[f] = "write",
           saver' = [saver EXCEPT ![f] = "failed"], UNCHANGED <<path, got, raced, disk>>
    PROVE  DiskInv'
<1>1. saver'[f] = "failed" /\ \A g \in Files : g # f => saver'[g] = saver[g]
      BY DEF Types
<1>2. ASSUME NEW p \in Paths, disk'[p] # None PROVE Holds(p)'
  <2>1. disk[p].of \in Files /\ Holds(p)
        BY <1>2 DEF Types, DiskInv
  <2> QED
        BY <1>1, <2>1 DEF Holds
<1>3. ASSUME NEW g \in Files PROVE Placed(g)'
      BY <1>1, <1>3 DEF DiskInv, Placed
<1>4. ASSUME NEW g \in Files, NEW h \in Files, g # h PROVE Rivals(g, h)'
      BY <1>1, <1>4 DEF DiskInv, Rivals
<1> QED
      BY <1>2, <1>3, <1>4 DEF DiskInv

\* saveChatFile.
LEMMA SaverInv ==
    ASSUME ChatInv, NEW f \in Files, Saver(f)
    PROVE  ChatInv'
<1> USE DEF channelVars, senderVars, agentVars, hostVars
<1>1. Types /\ ChannelInv /\ DiskInv /\ \A g \in Files : Stream(g) /\ Windowed(g) /\ Received(g)
      BY DEF ChatInv, Stream
<1>2. UNCHANGED <<open, attached, toAgent, toViewer, tx, total, next, inWindow, acker, got>>
      BY DEF Saver, SaveCopy, SaveWrite, SaveFails
<1>3. Types'
      BY <1>1, AgentTypes
<1>4. ChannelInv'
      BY <1>1, <1>2 DEF ChannelInv
<1>5. \A g \in Files : g # f => fileRx'[g] = fileRx[g] /\ saver'[g] = saver[g] /\ data'[g] = data[g]
      BY <1>1 DEF Saver, SaveCopy, SaveWrite, SaveFails, Types
<1>6. DiskInv'
  <2>1. CASE SaveCopy(f)
        BY <1>1, <2>1, CopiedDisk
  <2>2. CASE SaveWrite(f)
    <3>1. data[f] = got[f] /\ data[f] \in Seq(Nat)
          BY <1>1, <2>2 DEF SaveWrite, Received, Types
    <3>2. SubSeq(data[f], 1, Len(data[f])) = data[f]
          BY <3>1, AllOfIt
    <3> QED
          BY <1>1, <1>2, <1>3, <2>2, <3>1, <3>2, WrittenDisk DEF SaveWrite, Written
  <2>3. CASE SaveFails(f)
    <3>1. saver[f] = "write" /\ saver' = [saver EXCEPT ![f] = "failed"] /\ UNCHANGED <<path, raced>>
          BY <2>3 DEF SaveFails
    <3>2. CASE disk' = disk
          BY <1>1, <1>2, <3>1, <3>2, RefusedDisk
    <3>3. CASE disk' = [disk EXCEPT ![path[f]] = Written(f, Len(data[f]) - 1)]
      <4>1. saver'[f] # "saved"
            BY <1>1, <3>1 DEF Types
      <4>2. Len(data[f]) - 1 \in Int /\ Len(data[f]) - 1 <= Len(data[f])
            BY <1>1 DEF Types
      <4>3. Written(f, Len(data[f]) - 1) \in [of : Files, chunks : Seq(Nat)]
            BY <1>1, <4>2, WrittenTypes
      <4>4. SubSeq(data[f], 1, Len(data[f]) - 1) \in Seq(Nat)
            BY <4>3 DEF Written
      <4> QED
            BY <1>1, <1>2, <1>3, <3>1, <3>3, <4>1, <4>4, WrittenDisk DEF Written
    <3> QED
          BY <2>3, <3>2, <3>3 DEF SaveFails
  <2> QED
        BY <2>1, <2>2, <2>3 DEF Saver
<1>7. ASSUME NEW g \in Files PROVE Stream(g)'
  <2>1. CASE g # f
    <3>1. Kept(g)
          BY <1>2, <1>5, <2>1 DEF Kept, Begun, Active
    <3> QED
          BY <1>1, <1>2, <1>3, <3>1, StreamKept
  <2>2. CASE g = f
        BY <1>1, <1>3, <2>2, CopiedStream, WrittenStream DEF Saver
  <2> QED
        BY <2>1, <2>2
<1>8. ASSUME NEW g \in Files PROVE Windowed(g)'
  <2>1. AcksKept(g)
        BY <1>1, <1>2, AcksOfOthers
  <2> QED
        BY <1>1, <1>2, <2>1, WindowKept
<1> QED
      BY <1>3, <1>4, <1>6, <1>7, <1>8 DEF ChatInv

\* The app that hosts the agent, and steps of nobody.
LEMMA OutsideInv ==
    ASSUME ChatInv, Types', UNCHANGED <<channelVars, senderVars, agentVars>>
    PROVE  ChatInv'
<1> USE DEF channelVars, senderVars, agentVars
<1>1. Types /\ DiskInv /\ \A g \in Files : Stream(g) /\ Windowed(g)
      BY DEF ChatInv
<1>2. DiskInv' /\ ChannelInv'
      BY <1>1, DiskKept DEF ChatInv, ChannelInv
<1>3. ASSUME NEW g \in Files PROVE Stream(g)' /\ Windowed(g)'
  <2>1. Kept(g)
        BY DEF Kept, Begun, Active
  <2>2. AcksKept(g)
        BY <1>1, AcksOfOthers
  <2>3. Stream(g)'
        BY <1>1, <2>1, StreamKept
  <2>4. Windowed(g)'
        BY <1>1, <2>2, WindowKept
  <2> QED
        BY <2>3, <2>4
<1> QED
      BY <1>2, <1>3 DEF ChatInv

\* Every step keeps the invariant: one case per actor.
LEMMA StepInv == ChatInv /\ [Next]_vars => ChatInv'
<1> SUFFICES ASSUME ChatInv, [Next]_vars PROVE ChatInv'
      OBVIOUS
<1>1. ASSUME NEW f \in Files, NEW n \in 0 .. MaxChunks, SendFile(f, n) PROVE ChatInv'
      BY <1>1, SenderInv
<1>2. ASSUME NEW f \in Files, Sender(f) \/ AckTimeout(f) PROVE ChatInv'
      BY <1>2, SenderInv
<1>3. ASSUME NEW f \in Files, Saver(f) PROVE ChatInv'
      BY <1>3, SaverInv
<1>4. CASE HandleAck \/ ChannelCloses \/ Detach
      BY <1>4, ChannelStepInv
<1>5. CASE ReceiveStart \/ ReceiveChunk
      BY <1>5, ReceiveInv
<1>6. CASE HostReads
  <2>1. Types'
        BY <1>6, HostTypes DEF ChatInv
  <2> QED
        BY <1>6, <2>1, OutsideInv DEF HostReads
<1>7. CASE UNCHANGED vars
  <2>1. UNCHANGED <<channelVars, senderVars, agentVars, hostVars>>
        BY <1>7 DEF vars, channelVars, senderVars, agentVars, hostVars
  <2>2. Types'
        BY <2>1 DEF ChatInv, Types, channelVars, senderVars, agentVars, hostVars
  <2> QED
        BY <2>1, <2>2, OutsideInv
<1> QED
      BY <1>1, <1>2, <1>3, <1>4, <1>5, <1>6, <1>7 DEF Next

\* The invariant holds in every state: the first chunks have come, the next ones are
\* on their way, and the window stands where the acknowledgements say.
THEOREM ChatInvariant == Spec => []ChatInv
      BY InitInv, StepInv, PTL DEF Spec

------------------------------------------------------------------------------
(* What follows from it.                                                    *)

\* All the chunks in order are the file.
LEMMA AllIsWhole ==
    ASSUME Types, NEW f \in Files, InOrder(f), Len(got[f]) = total[f]
    PROVE  got[f] = Whole(f)
<1>1. got[f] \in Seq(Nat) /\ total[f] \in Nat
      BY DEF Types
<1>2. got[f] = [i \in 1 .. Len(got[f]) |-> got[f][i]]
      BY <1>1
<1>3. \A i \in 1 .. Len(got[f]) : got[f][i] = i - 1
      BY DEF InOrder
<1> QED
      BY <1>2, <1>3 DEF Whole

\* A chunk number of a file is no greater than the bound.
LEMMA BoundedChunks ==
    ASSUME Types, NEW f \in Files, InOrder(f)
    PROVE  got[f] \in Seq(0 .. MaxChunks)
<1>1. got[f] \in Seq(Nat) /\ total[f] \in 0 .. MaxChunks /\ MaxChunks \in Nat /\ next[f] \in Nat
      BY WindowAssumption DEF Types
<1>2. \A i \in 1 .. Len(got[f]) : got[f][i] \in 0 .. MaxChunks
      BY <1>1 DEF InOrder
<1>3. Len(got[f]) \in Nat /\ got[f] \in [1 .. Len(got[f]) -> 0 .. MaxChunks]
      BY <1>1, <1>2
<1> QED
      BY <1>3, SeqDef, Zenon

\* Types: every variable stays in its type, and the buffer holds chunks of its file.
THEOREM TypeCorrect == Spec => []TypeOK
<1>1. ChatInv => TypeOK
  <2> SUFFICES ASSUME ChatInv PROVE TypeOK
        OBVIOUS
  <2>1. Types /\ \A f \in Files : InOrder(f) /\ Received(f) /\ Windowed(f)
        BY DEF ChatInv, Stream
  <2>2. ASSUME NEW f \in Files
        PROVE  /\ next[f] \in 0 .. MaxChunks /\ inWindow[f] \in 0 .. Window
               /\ fileRx[f] = None \/ fileRx[f] \in Seq(0 .. MaxChunks)
    <3>1. /\ next[f] \in Nat /\ total[f] \in 0 .. MaxChunks /\ MaxChunks \in Nat
          /\ inWindow[f] \in Nat /\ Window \in Nat
          BY <2>1, WindowAssumption DEF Types
    <3>2. next[f] \in 0 .. MaxChunks /\ inWindow[f] \in 0 .. Window
          BY <2>1, <3>1 DEF InOrder, Windowed
    <3>3. fileRx[f] # None => fileRx[f] = got[f]
          BY <2>1 DEF Received
    <3> QED
          BY <2>1, <3>2, <3>3, BoundedChunks
  <2>3. next \in [Files -> 0 .. MaxChunks] /\ inWindow \in [Files -> 0 .. Window]
        BY <2>1, <2>2 DEF Types
  <2>4. ASSUME NEW i \in DOMAIN toAgent
        PROVE  toAgent[i].type \in {"file_start", "file_chunk"} /\ toAgent[i].id \in Files
    <3>1. toAgent[i] \in Msgs
          BY <2>1 DEF Types
    <3> QED
          BY <3>1 DEF Msgs
  <2>5. ASSUME NEW i \in DOMAIN toViewer
        PROVE  toViewer[i].type = "file_ack" /\ toViewer[i].id \in Files
    <3>1. toViewer[i] \in Acks
          BY <2>1 DEF Types
    <3> QED
          BY <3>1 DEF Acks
  <2>6. ASSUME NEW p \in Paths PROVE disk[p] = None \/ disk[p].of \in Files
        BY <2>1 DEF Types
  <2> QED
        BY <2>1, <2>2, <2>3, <2>4, <2>5, <2>6 DEF TypeOK, Types
<1> QED
      BY <1>1, ChatInvariant, PTL

\* WhatIsReportedIsWhole: the sender that reports a file done (_sendBytes) is right,
\* whatever acknowledgement ended its windows, and a file that saveChatFile has saved
\* stays on the disk, whole, whatever is saved or fails after it, unless another file
\* took its path before one of the two was written; for any number of transfers on
\* the channel and any window.
THEOREM ReportsAreTrue == Spec => []WhatIsReportedIsWhole
<1>1. ChatInv => WhatIsReportedIsWhole
  <2> SUFFICES ASSUME ChatInv PROVE WhatIsReportedIsWhole
        OBVIOUS
  <2>1. Types /\ DiskInv /\ \A f \in Files : InOrder(f) /\ Received(f) /\ Windowed(f)
        BY DEF ChatInv, Stream
  <2>2. ASSUME NEW f \in Files, tx[f] = "done" PROVE got[f] = Whole(f)
    <3>1. Len(got[f]) = total[f]
          BY <2>1, <2>2 DEF Windowed
    <3> QED
          BY <2>1, <3>1, AllIsWhole
  <2>3. ASSUME NEW f \in Files, saver[f] = "saved"
        PROVE  LET d == disk[path[f]]
               IN  WholeOnDisk(d) /\ (d.of = f \/ {f, d.of} \subseteq raced)
    <3> DEFINE d == disk[path[f]]
    <3>1. path[f] \in Paths /\ d # None /\ d.of \in Files
          BY <2>1, <2>3 DEF DiskInv, Placed, Types
    <3>2. d.of = f \/ {f, d.of} \subseteq raced
          BY <2>1, <2>3, <3>1 DEF DiskInv, Placed
    <3>3. ASSUME saver[d.of] = "saved" PROVE d.chunks = Whole(d.of)
      <4>1. d.chunks = got[d.of]
            BY <2>1, <3>1, <3>3 DEF DiskInv, Holds
      <4>2. Len(got[d.of]) = total[d.of]
            BY <2>1, <3>1, <3>3 DEF Received
      <4> QED
            BY <2>1, <3>1, <4>1, <4>2, AllIsWhole
    <3> QED
          BY <3>1, <3>2, <3>3 DEF WholeOnDisk
  <2> QED
        BY <2>2, <2>3 DEF WhatIsReportedIsWhole, DoneMeansReceived, SavedIsWhole
<1> QED
      BY <1>1, ChatInvariant, PTL

\* The chunks of a transfer in the channel are numbered between what has been received
\* and what has been sent.
LEMMA FewChunks ==
    ASSUME Types, NEW f \in Files, InOrder(f), Windowed(f)
    PROVE  Cardinality({i \in DOMAIN toAgent : IsChunk(toAgent[i], f)}) <= Window
<1> DEFINE S == {i \in DOMAIN toAgent : IsChunk(toAgent[i], f)}
           a == Len(got[f])
           b == next[f] - 1
           number == [i \in S |-> toAgent[i].seq]
<1>1. /\ a \in Nat /\ next[f] \in Nat /\ b \in Int /\ Window \in Nat /\ next[f] - a <= Window
      BY WindowAssumption DEF Types, Windowed
<1>2. toAgent \in Seq(Msgs)
      BY DEF Types
<1>3. ASSUME NEW i \in S PROVE number[i] \in a .. b /\ i \in Nat
  <2>1. toAgent[i] \in Msgs /\ i \in Nat
        BY <1>2
  <2>2. toAgent[i].seq \in Nat
        BY <2>1 DEF Msgs
  <2>3. a <= toAgent[i].seq /\ toAgent[i].seq < next[f]
        BY DEF InOrder
  <2>4. toAgent[i].seq \in a .. b
        BY <1>1, <2>2, <2>3
  <2> QED
        BY <2>1, <2>4
<1>4. ASSUME NEW i \in S, NEW j \in S, number[i] = number[j] PROVE i = j
  <2>1. \A k \in S : number[k] = toAgent[k].seq /\ k \in DOMAIN toAgent /\ IsChunk(toAgent[k], f)
        BY Zenon
  <2>2. \A k, l \in S : k < l => number[k] < number[l]
        BY <2>1 DEF InOrder
  <2>3. number[i] \in Int /\ number[j] \in Int
        BY <1>1, <1>3
  <2>4. i \in Nat /\ j \in Nat
        BY <1>3
  <2> HIDE DEF number, S
  <2>5. ~ (i < j) /\ ~ (j < i)
        BY <1>4, <2>2, <2>3
  <2> QED
        BY <2>4, <2>5
<1>5. number \in Injection(S, a .. b)
  <2>1. number \in [S -> a .. b]
        BY <1>3
  <2> HIDE DEF number, S, a, b
  <2>2. IsInjective(number)
        BY <1>4, <2>1 DEF IsInjective
  <2> QED
        BY <2>1, <2>2 DEF Injection
<1> HIDE DEF number, S, a, b
<1>6. IsFiniteSet(a .. b) /\ Cardinality(a .. b) = IF a > b THEN 0 ELSE b - a + 1
  <2>1. a \in Int /\ b \in Int
        BY <1>1
  <2> QED
        BY <2>1, FS_Interval, Zenon
<1>7. Cardinality(S) <= Cardinality(a .. b) /\ IsFiniteSet(S)
      BY <1>5, <1>6, FS_Injection
<1>8. Cardinality(S) \in Nat
      BY <1>7, FS_CardinalityType
<1>9. Cardinality(a .. b) <= Window
      BY <1>1, <1>6 DEF b
<1>10. Cardinality(a .. b) \in Nat
      BY <1>6, FS_CardinalityType
<1> QED
      BY <1>1, <1>7, <1>8, <1>9, <1>10 DEF S

\* WindowIsHandedOver: no more than a window of chunks is in the channel, and a sender
\* that waits on an open channel waits for something (_sendBytes, handleChatDCMessage):
\* the window of the one side and the counter of the other never drift apart.
THEOREM WindowsAreHandedOver == Spec => []WindowIsHandedOver
<1>1. ChatInv => WindowIsHandedOver
  <2> SUFFICES ASSUME ChatInv PROVE WindowIsHandedOver
        OBVIOUS
  <2>1. Types /\ \A f \in Files : InOrder(f) /\ Windowed(f)
        BY DEF ChatInv, Stream
  <2>2. WindowBounded
        BY <2>1, FewChunks DEF WindowBounded
  <2>3. ASSUME NEW f \in Files, tx[f] = "waiting", acker[f] = "pending", open
        PROVE  \/ \E i \in DOMAIN toAgent : toAgent[i].id = f
               \/ \E i \in DOMAIN toViewer : toViewer[i].id = f
    <3>1. /\ Len(got[f]) \in Nat /\ next[f] \in Nat /\ Len(got[f]) <= next[f]
          BY <2>1 DEF Types, InOrder
    <3>2. CASE next[f] = Len(got[f])
          BY <2>1, <2>3, <3>2 DEF Windowed, AckUnderWay
    <3>3. CASE next[f] # Len(got[f])
      <4>1. Len(got[f]) \in Len(got[f]) .. next[f] - 1
            BY <3>1, <3>3
      <4>2. \E i \in DOMAIN toAgent : IsChunk(toAgent[i], f)
            BY <2>1, <2>3, <4>1 DEF InOrder
      <4> QED
            BY <4>2 DEF IsChunk
    <3> QED
          BY <3>2, <3>3
  <2> QED
        BY <2>2, <2>3 DEF WindowIsHandedOver, NoSilentWait
<1> QED
      BY <1>1, ChatInvariant, PTL
==============================================================================
