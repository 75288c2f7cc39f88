------------------------------- MODULE Pipeline -------------------------------
(***************************************************************************)
(* Screen capture and encoding on Linux and Windows: encodePump and        *)
(* drainPipeline of agent/main.go, one pump per run of the agent, over the *)
(* process-wide pipeline of agent/pipeline/pipeline_linux.go and .c, or    *)
(* pipeline_windows.go and .c, whose stop gives up waiting for the thread  *)
(* after 3 s: one mutex g_mu, g_running, g_encoder, g_pic_in and a capture *)
(* thread per start.  A connection does not wait for the pump of the one   *)
(* before, so pumps, and with them starts and stops, overlap.              *)
(*                                                                         *)
(* Threads and encoders are numbered by the successful starts.  Critical   *)
(* sections under g_mu are single steps; g_running is read outside it.     *)
(* Pixels and frames are abstracted to "a frame is queued"; how long a     *)
(* back-off takes is left open, so a kick, which cuts it short, is too.    *)
(***************************************************************************)
EXTENDS Naturals

CONSTANTS
    MaxRuns,     \* bound: connections, hence pumps
    MaxStarts,   \* bound: successful starts
    Base, Cap    \* baseDelay and maxDelay of encodePump, in seconds

ASSUME BoundsAssumption == MaxRuns \in Nat /\ MaxStarts \in Nat
ASSUME DelayAssumption == Base \in Nat \ {0} /\ Cap \in Nat /\ Base <= Cap

Pumps  == 1..MaxRuns
Starts == 1..MaxStarts

VARIABLES
    windows,  \* the build: Windows or Linux
    run,      \* the run of the moment, 0 before the first
    ended,    \* runs whose runCtx is cancelled
    pump,     \* where the encodePump of each run is
    again,    \* drainPipeline asked for a restart
    delay,    \* its back-off
    taken,    \* the thread and encoder its Stop took
    running,  \* g_running
    encoder,  \* g_encoder, 0 for NULL
    picture,  \* the allocation g_pic_in is of, 0 when cleaned
    started,  \* successful starts
    thread,   \* capture thread of each start
    holds,    \* the encoder it took
    codec,    \* the encoder of each start
    sink,     \* the pump whose channel gFrameCh is
    queued,   \* pumps whose channel has a frame
    crossed,  \* history: the last start came before the stop before it was done
    forsaken  \* history: threads whose stop gave up waiting

pumpVars    == <<windows, run, ended, pump, again, delay>>
cVars       == <<taken, running, encoder, picture, started, codec>>
threadVars  == <<thread, holds>>
frameVars   == <<sink, queued>>
history     == <<crossed, forsaken>>
vars == <<windows, run, ended, pump, again, delay, taken, running, encoder, picture, started,
          codec, thread, holds, sink, queued, crossed, forsaken>>

Phases == {"none", "top", "channel", "start", "retry", "drain", "stop", "join", "restart", "ended"}

Init ==
    /\ windows \in BOOLEAN
    /\ run = 0 /\ ended = {}
    /\ pump = [p \in Pumps |-> "none"]
    /\ again = [p \in Pumps |-> FALSE]
    /\ delay = [p \in Pumps |-> Base]
    /\ taken = [p \in Pumps |-> 0]
    /\ running = FALSE /\ encoder = 0 /\ picture = 0 /\ started = 0
    /\ thread = [t \in Starts |-> "none"]
    /\ holds = [t \in Starts |-> 0]
    /\ codec = [t \in Starts |-> "none"]
    /\ sink = 0 /\ queued = {}
    /\ crossed = FALSE /\ forsaken = {}

\* Without the cap.
BareDoubled(d) == 2 * d

Doubled(d) == IF 2 * d > Cap THEN Cap ELSE 2 * d

------------------------------------------------------------------------------
(* Plausible slips in the code, for trying the properties against.          *)

\* A thread that gives up clears g_running, so stop has nothing to do.
TidyCaptureFails(t) ==
    /\ thread[t] \in {"loop", "capture"}
    /\ thread' = [thread EXCEPT ![t] = "exited"]
    /\ running' = FALSE
    /\ UNCHANGED <<pumpVars, taken, encoder, picture, started, codec, holds, frameVars, history>>

\* drainPipeline without the watchdog.
SleepingWatchdog(p) == FALSE /\ UNCHANGED vars

\* stop forgets to clear g_running.
ForgetfulStopTake(p) ==
    /\ pump[p] = "stop"
    /\ pump' = [pump EXCEPT ![p] = "join"]
    /\ taken' = [taken EXCEPT ![p] = encoder]
    /\ UNCHANGED <<windows, run, ended, again, delay, running, encoder, picture, started, codec,
                   threadVars, frameVars, history>>

------------------------------------------------------------------------------
(* run: the pump is started after authentication and cancelled on return,   *)
(* not waited for.                                                          *)

BeginRun ==
    /\ run < MaxRuns
    /\ run > 0 => run \in ended
    /\ run' = run + 1
    /\ pump' = [pump EXCEPT ![run + 1] = "top"]
    /\ UNCHANGED <<windows, ended, again, delay, cVars, threadVars, frameVars, history>>

\* readPump has returned: runCancel.
EndRun ==
    /\ run \in Pumps \ ended
    /\ ended' = ended \cup {run}
    /\ UNCHANGED <<windows, run, pump, again, delay, cVars, threadVars, frameVars, history>>

------------------------------------------------------------------------------
(* encodePump and drainPipeline.                                            *)

\* encodePump returns, and with it its local variables go.
Ends(p) ==
    /\ pump' = [pump EXCEPT ![p] = "ended"]
    /\ delay' = [delay EXCEPT ![p] = Base]

\* The head of the loop.
Top(p) ==
    /\ pump[p] = "top"
    /\ IF p \in ended
       THEN Ends(p)
       ELSE pump' = [pump EXCEPT ![p] = "channel"] /\ UNCHANGED delay
    /\ UNCHANGED <<windows, run, ended, again, cVars, threadVars, frameVars, history>>

\* pipeline.Start replaces gFrameCh before it asks C, even when C refuses.
Channel(p) ==
    /\ pump[p] = "channel"
    /\ pump' = [pump EXCEPT ![p] = "start"]
    /\ sink' = p
    /\ queued' = queued \ {p}
    /\ UNCHANGED <<windows, run, ended, again, delay, cVars, threadVars, history>>

\* No stop is waiting for its thread and no thread is left.
Gone(t) == thread[t] \in {"none", "exited"}
Quiet == (\A p \in Pumps : pump[p] # "join") /\ (\A t \in Starts : Gone(t))

\* rc_linux_start, past the test of g_running: encoder, picture and thread.
StartSucceeds(p) ==
    LET n == started + 1
    IN  /\ pump[p] = "start" /\ ~running /\ started < MaxStarts
        /\ started' = n /\ encoder' = n /\ picture' = n /\ running' = TRUE
        /\ codec' = [codec EXCEPT ![n] = "open"]
        /\ thread' = [thread EXCEPT ![n] = "loop"]
        /\ pump' = [pump EXCEPT ![p] = "drain"]
        /\ crossed' = ~Quiet
        /\ UNCHANGED <<windows, run, ended, again, delay, taken, holds, frameVars, forsaken>>

\* Already running, no display, or no encoder or thread (then the picture
\* allocated for it is cleaned).
StartFails(p) ==
    /\ pump[p] = "start"
    /\ pump' = [pump EXCEPT ![p] = "retry"]
    /\ IF running
       THEN UNCHANGED <<picture, crossed>>
       ELSE picture' \in {picture, 0} /\ crossed' = ~Quiet
    /\ UNCHANGED <<windows, run, ended, again, delay, taken, running, encoder, started, codec,
                   threadVars, frameVars, forsaken>>

\* The select after an error: cancelled, or time.After(delay) or a kick.
Retry(p) ==
    /\ pump[p] = "retry"
    /\ \/ p \in ended /\ Ends(p)
       \/ /\ pump' = [pump EXCEPT ![p] = "top"]
          /\ delay' = [delay EXCEPT ![p] = Doubled(@)]
    /\ UNCHANGED <<windows, run, ended, again, cVars, threadVars, frameVars, history>>

DrainCancelled(p) ==
    /\ pump[p] = "drain" /\ p \in ended
    /\ pump' = [pump EXCEPT ![p] = "stop"]
    /\ again' = [again EXCEPT ![p] = FALSE]
    /\ UNCHANGED <<windows, run, ended, delay, cVars, threadVars, frameVars, history>>

\* A frame: to the video track, or dropped when nobody watches.
DrainFrame(p) ==
    /\ pump[p] = "drain" /\ p \in queued
    /\ queued' = queued \ {p}
    /\ UNCHANGED <<pumpVars, cVars, threadVars, sink, history>>

\* No frame for 5 s.
Watchdog(p) ==
    /\ pump[p] = "drain" /\ p \notin queued
    /\ pump' = [pump EXCEPT ![p] = "stop"]
    /\ again' = [again EXCEPT ![p] = TRUE]
    /\ UNCHANGED <<windows, run, ended, delay, cVars, threadVars, frameVars, history>>

\* After Stop: the pump ends, or backs off (unless it ran for 5 s) and waits.
Stopped(p) ==
    /\ again' = [again EXCEPT ![p] = FALSE]
    /\ IF again[p]
       THEN /\ pump' = [pump EXCEPT ![p] = "restart"]
            /\ \E d \in {Base, Doubled(delay[p])} : delay' = [delay EXCEPT ![p] = d]
       ELSE Ends(p)

\* rc_linux_stop, under g_mu: at once when nothing runs.
StopTake(p) ==
    /\ pump[p] = "stop"
    /\ IF running
       THEN /\ running' = FALSE
            /\ taken' = [taken EXCEPT ![p] = encoder]
            /\ encoder' = 0
            /\ pump' = [pump EXCEPT ![p] = "join"]
            /\ UNCHANGED <<again, delay>>
       ELSE Stopped(p) /\ UNCHANGED <<running, taken, encoder>>
    /\ UNCHANGED <<windows, run, ended, picture, started, codec, threadVars, frameVars, history>>

\* The encoder is closed and g_pic_in cleaned, without g_mu.
CloseEncoder(p) ==
    /\ codec' = [codec EXCEPT ![taken[p]] = "closed"]
    /\ taken' = [taken EXCEPT ![p] = 0]
    /\ picture' = 0
    /\ Stopped(p)
    /\ UNCHANGED <<windows, run, ended, running, encoder, started, threadVars, frameVars, crossed>>

\* A slip in the code, for trying the properties against: stop closes the
\* encoder without joining the thread.
HastyStopJoin(p) ==
    /\ pump[p] = "join"
    /\ CloseEncoder(p)
    /\ UNCHANGED forsaken

\* The thread has been joined.
StopJoin(p) ==
    /\ pump[p] = "join" /\ thread[taken[p]] = "exited"
    /\ CloseEncoder(p)
    /\ UNCHANGED forsaken

\* WaitForSingleObject returns after 3 s, its result unread.
StopGivesUp(p) ==
    /\ windows /\ pump[p] = "join" /\ thread[taken[p]] # "exited"
    /\ CloseEncoder(p)
    /\ forsaken' = forsaken \cup {taken[p]}

\* The select before a restart.
Restart(p) ==
    /\ pump[p] = "restart"
    /\ \/ p \in ended /\ Ends(p)
       \/ pump' = [pump EXCEPT ![p] = "top"] /\ UNCHANGED delay
    /\ UNCHANGED <<windows, run, ended, again, cVars, threadVars, frameVars, history>>

------------------------------------------------------------------------------
(* capture_thread_fn.                                                       *)

\* while (g_running), read without the mutex.
Look(t) ==
    /\ thread[t] = "loop"
    /\ thread' = [thread EXCEPT ![t] = IF running THEN "capture" ELSE "exited"]
    /\ UNCHANGED <<pumpVars, cVars, holds, frameVars, history>>

\* No display, or no image: the thread ends and nobody is told.
CaptureFails(t) ==
    /\ thread[t] \in {"loop", "capture"}
    /\ thread' = [thread EXCEPT ![t] = "exited"]
    /\ UNCHANGED <<pumpVars, cVars, holds, frameVars, history>>

\* The image is there; g_encoder is read under g_mu.
TakeEncoder(t) ==
    /\ thread[t] = "capture"
    /\ thread' = [thread EXCEPT ![t] = IF encoder = 0 THEN "exited" ELSE "encode"]
    /\ holds' = [holds EXCEPT ![t] = encoder]
    /\ UNCHANGED <<pumpVars, cVars, frameVars, history>>

\* Convert into g_pic_in, encode, and offer the frame (if any) to gFrameCh,
\* dropping it when the channel is full.
Encode(t) ==
    /\ thread[t] = "encode"
    /\ thread' = [thread EXCEPT ![t] = "loop"]
    /\ holds' = [holds EXCEPT ![t] = 0]
    /\ queued' \in {queued, queued \cup {sink}}
    /\ UNCHANGED <<pumpVars, cVars, sink, history>>

------------------------------------------------------------------------------
Pump(p) ==
    \/ Top(p) \/ Channel(p) \/ StartSucceeds(p) \/ StartFails(p) \/ Retry(p) \/ Restart(p)
    \/ DrainCancelled(p) \/ StopTake(p) \/ StopJoin(p) \/ StopGivesUp(p)

Thread(t) == Look(t) \/ CaptureFails(t) \/ TakeEncoder(t) \/ Encode(t)

Next ==
    \/ BeginRun \/ EndRun
    \/ \E p \in Pumps : Pump(p) \/ DrainFrame(p) \/ Watchdog(p)
    \/ \E t \in Starts : Thread(t)

Spec == Init /\ [][Next]_vars

(***************************************************************************)
(* Fairness.  Pumps and capture threads run (the display server answers,   *)
(* in time or with an error), timers fire.  Nothing is assumed of how      *)
(* starts end, of viewers or of connections.                               *)
(***************************************************************************)
Fairness ==
    /\ \A p \in Pumps : WF_vars(Pump(p)) /\ WF_vars(DrainFrame(p)) /\ WF_vars(Watchdog(p))
    /\ \A t \in Starts : WF_vars(Thread(t))

FairSpec == Spec /\ Fairness

------------------------------------------------------------------------------
\* Types; the back-off stays between its two bounds.
TypeOK ==
    /\ windows \in BOOLEAN
    /\ run \in 0..MaxRuns /\ ended \subseteq Pumps
    /\ pump \in [Pumps -> Phases]
    /\ again \in [Pumps -> BOOLEAN]
    /\ delay \in [Pumps -> Base..Cap]
    /\ taken \in [Pumps -> 0..MaxStarts]
    /\ running \in BOOLEAN
    /\ encoder \in 0..MaxStarts /\ picture \in 0..MaxStarts /\ started \in 0..MaxStarts
    /\ thread \in [Starts -> {"none", "loop", "capture", "encode", "exited"}]
    /\ holds \in [Starts -> 0..MaxStarts]
    /\ codec \in [Starts -> {"none", "open", "closed"}]
    /\ sink \in 0..MaxRuns /\ queued \subseteq 0..MaxRuns
    /\ crossed \in BOOLEAN /\ forsaken \subseteq Starts

\* While a capture thread encodes, its encoder is open, g_pic_in is the
\* picture allocated with it, and no other thread encodes: stop closes them
\* (pipeline_linux.c:263-272) only behind the thread, and a start waits for
\* nobody.  The two ways the code has to break this are what it excuses: the
\* last start came while a stop was still waiting for its thread (the pump of
\* the next connection, agent/main.go:1009), until a later start finds the
\* pipeline quiet; and a thread left behind after 3 s (pipeline_windows.c:296).
EncoderUsedAloneWhileOpen ==
    \A t \in Starts : thread[t] = "encode" =>
        \/ crossed \/ t \in forsaken
        \/ /\ holds[t] = t /\ codec[t] = "open" /\ picture = t
           /\ \A s \in Starts \ {t} : thread[s] # "encode"

\* When every pump has ended there is no capture left: no encoder open, no
\* picture, and no thread but those that Windows gave up, in whichever order
\* overlapping pumps started, failed, restarted and stopped.
NothingLeftRunning ==
    (\A p \in Pumps : pump[p] \in {"none", "ended"}) =>
        /\ ~running /\ encoder = 0 /\ picture = 0
        /\ \A t \in Starts : codec[t] # "open" /\ (Gone(t) \/ (windows /\ t \in forsaken))

\* "catches the ... case where the ... capture thread dies silently"
\* (agent/main.go:1301-1303): the pump of a dead thread starts again or ends.
CaptureIsRetried ==
    \A p \in Pumps : (pump[p] = "drain" /\ \A t \in Starts : Gone(t))
        ~> pump[p] \in {"start", "ended"}

\* The pump of a connection that has ended comes to its end, unless on Linux a
\* start crossed its stop: then its thread finds g_running set again and
\* pthread_join (pipeline_linux.c:263) waits on, but not for ever: when the
\* last connection has ended, every pump ends.
CancelledPumpsEnd ==
    /\ \A p \in Pumps : (p \in ended) ~> (pump[p] = "ended" \/ (crossed /\ ~windows))
    /\ <>[](run \in ended) => <>(\A p \in Pumps : pump[p] \in {"none", "ended"})

\* A start is refused as "already running" only because the pump of another
\* connection drains the pipeline or is about to stop it: never over what a
\* failed start, a dead thread or its own last stop left (pipeline_linux.c:198).
Refused(p) == pump[p] = "start" /\ running /\ pump'[p] = "retry"
RefusedOnlyByAnother ==
    [][\A p \in Pumps : Refused(p) => \E q \in Pumps \ {p} : pump[q] \in {"drain", "stop"}]_vars
==============================================================================
