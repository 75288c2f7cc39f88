---------------------------- MODULE PipelineProofs ----------------------------
(***************************************************************************)
(* What overlapping pumps, dying threads and abandoned threads can do to   *)
(* the pipeline and what they cannot, for any number of connections and    *)
(* starts, on Linux and on Windows.  No premise is made on when a run      *)
(* begins or on how long a stop waits.                                     *)
(***************************************************************************)
EXTENDS Pipeline, TLAPS

Active(p) == pump[p] \in {"drain", "stop"}

\* The pipeline runs exactly while one pump drains it or is about to stop it.
OnePump ==
    /\ \A p, q \in Pumps : Active(p) /\ Active(q) => p = q
    /\ \A p \in Pumps : Active(p) => running
    /\ running => \E p \in Pumps : Active(p)

\* g_encoder is that of the latest start while the pipeline runs; every other
\* open encoder, and the picture, belongs to a stop that will close it.
EncodersOwned ==
    /\ encoder = IF running THEN started ELSE 0
    /\ running => started > 0 /\ codec[started] = "open"
    /\ \A p \in Pumps : pump[p] = "join" =>
         taken[p] \in 1..started /\ codec[taken[p]] = "open" /\ (running => taken[p] # started)
    /\ \A p, q \in Pumps : pump[p] = "join" /\ pump[q] = "join" /\ taken[p] = taken[q] => p = q
    /\ \A t \in Starts : codec[t] = "open" =>
         (running /\ t = started) \/ \E p \in Pumps : pump[p] = "join" /\ taken[p] = t
    /\ picture # 0 => running \/ \E p \in Pumps : pump[p] = "join"

\* So does every live thread, unless Windows gave it up.
ThreadsOwned ==
    /\ forsaken # {} => windows
    /\ \A t \in Starts : t <= started => thread[t] # "none"
    /\ \A t \in Starts : t > started => thread[t] = "none" /\ codec[t] = "none"
    /\ \A t \in Starts : ~Gone(t) =>
         \/ running /\ t = started
         \/ \E p \in Pumps : pump[p] = "join" /\ taken[p] = t
         \/ t \in forsaken

\* Since a start that found the pipeline quiet only its thread is alive, only
\* its stop waits, and the picture and the encoder are its own until that
\* stop has joined it or given it up.
CalmThread == ~crossed =>
    /\ \A t \in Starts : t # started => Gone(t)
    /\ \A p \in Pumps : pump[p] = "join" => taken[p] = started
    /\ \A t \in Starts : thread[t] = "encode" => holds[t] = t
    /\ \A t \in Starts \ forsaken : ~Gone(t) => picture = t /\ codec[t] = "open"

\* The pumps of connections to come are not there.
NotYet == \A p \in Pumps : p > run => pump[p] = "none"

PipelineInv == TypeOK /\ NotYet /\ OnePump /\ EncodersOwned /\ ThreadsOwned /\ CalmThread

------------------------------------------------------------------------------
\* Nothing runs at the start of the process.
LEMMA InitPipelineInv == Init => PipelineInv
<1> SUFFICES ASSUME Init PROVE PipelineInv
      OBVIOUS
<1> USE BoundsAssumption, DelayAssumption DEF Init, Pumps, Starts
<1>1. 0 \in 0..MaxRuns /\ 0 \in 0..MaxStarts /\ Base \in Base..Cap
      OBVIOUS
<1>2. TypeOK
      BY <1>1 DEF TypeOK, Phases
<1>3. OnePump
      BY DEF OnePump, Active
<1>4. EncodersOwned
      BY DEF EncodersOwned
<1>5. ThreadsOwned
      BY DEF ThreadsOwned, Gone
<1>6. CalmThread
      BY DEF CalmThread, Gone
<1>7. NotYet
      BY DEF NotYet
<1> QED
      BY <1>2, <1>3, <1>4, <1>5, <1>6, <1>7 DEF PipelineInv

\* The back-off stays in its bounds (delay = min(delay*2, maxDelay)).
LEMMA DoubledInBounds ==
    ASSUME NEW d \in Base..Cap
    PROVE  Doubled(d) \in Base..Cap
BY DelayAssumption DEF Doubled

\* Each step keeps the types.
LEMMA TypesStep ==
    ASSUME TypeOK, EncodersOwned, [Next]_vars
    PROVE  TypeOK'
<1> USE BoundsAssumption, DelayAssumption
    DEF TypeOK, Phases, pumpVars, cVars, threadVars, frameVars, history
<1>1. CASE UNCHANGED vars
      BY <1>1 DEF vars
<1>2. CASE BeginRun
  <2>1. run + 1 \in Pumps /\ run + 1 \in 0..MaxRuns
      BY <1>2 DEF BeginRun, Pumps
  <2>2. pump' \in [Pumps -> Phases]
      BY <1>2, <2>1 DEF BeginRun
  <2> QED
      BY <1>2, <2>1, <2>2 DEF BeginRun
<1>3. CASE EndRun
      BY <1>3 DEF EndRun
<1>4. ASSUME NEW p \in Pumps, Ends(p)
      PROVE  pump' \in [Pumps -> Phases] /\ delay' \in [Pumps -> Base..Cap]
      BY <1>4 DEF Ends
<1>5. ASSUME NEW p \in Pumps, Top(p) PROVE TypeOK'
  <2>1. CASE p \in ended
      BY <1>4, <1>5, <2>1 DEF Top
  <2>2. CASE p \notin ended
      BY <1>5, <2>2 DEF Top
  <2> QED
      BY <2>1, <2>2
<1>6. ASSUME NEW p \in Pumps, Channel(p) PROVE TypeOK'
  <2>1. p \in 0..MaxRuns
      BY DEF Pumps
  <2> QED
      BY <1>6, <2>1 DEF Channel
<1>7. ASSUME NEW p \in Pumps, StartSucceeds(p) PROVE TypeOK'
  <2>1. started + 1 \in 0..MaxStarts /\ started + 1 \in Starts
      BY <1>7 DEF StartSucceeds, Starts
  <2>2. (~Quiet) \in BOOLEAN
      OBVIOUS
  <2> QED
      BY <1>7, <2>1, <2>2 DEF StartSucceeds
<1>8. ASSUME NEW p \in Pumps, StartFails(p) PROVE TypeOK'
  <2>1. crossed' \in BOOLEAN
      BY <1>8 DEF StartFails
  <2> QED
      BY <1>8, <2>1 DEF StartFails
<1>9. ASSUME NEW p \in Pumps, Retry(p) PROVE TypeOK'
  <2>1. Doubled(delay[p]) \in Base..Cap
      BY DoubledInBounds
  <2>2. pump' \in [Pumps -> Phases] /\ delay' \in [Pumps -> Base..Cap]
      BY <1>4, <1>9, <2>1 DEF Retry
  <2> QED
      BY <1>9, <2>2 DEF Retry
<1>10. ASSUME NEW p \in Pumps, Restart(p) PROVE TypeOK'
  <2>1. pump' \in [Pumps -> Phases] /\ delay' \in [Pumps -> Base..Cap]
      BY <1>4, <1>10 DEF Restart
  <2> QED
      BY <1>10, <2>1 DEF Restart
<1>11. ASSUME NEW p \in Pumps, DrainCancelled(p) PROVE TypeOK'
      BY <1>11 DEF DrainCancelled
<1>12. ASSUME NEW p \in Pumps, DrainFrame(p) PROVE TypeOK'
      BY <1>12 DEF DrainFrame
<1>13. ASSUME NEW p \in Pumps, Watchdog(p) PROVE TypeOK'
      BY <1>13 DEF Watchdog
<1>14. ASSUME NEW p \in Pumps, Stopped(p)
       PROVE  /\ pump' \in [Pumps -> Phases] /\ delay' \in [Pumps -> Base..Cap]
              /\ again' \in [Pumps -> BOOLEAN]
  <2>1. Doubled(delay[p]) \in Base..Cap /\ Base \in Base..Cap
      BY DoubledInBounds
  <2>2. CASE again[p]
      BY <1>14, <2>1, <2>2 DEF Stopped
  <2>3. CASE ~again[p]
      BY <1>4, <1>14, <2>3 DEF Stopped
  <2> QED
      BY <2>2, <2>3
<1>15. ASSUME NEW p \in Pumps, StopTake(p) PROVE TypeOK'
  <2>1. 0 \in 0..MaxStarts
      OBVIOUS
  <2>2. CASE running
      BY <1>15, <2>1, <2>2 DEF StopTake
  <2>3. CASE ~running
      BY <1>14, <1>15, <2>3 DEF StopTake
  <2> QED
      BY <2>2, <2>3
<1>16. ASSUME NEW p \in Pumps, CloseEncoder(p), forsaken' \subseteq Starts PROVE TypeOK'
  <2>1. Stopped(p) /\ 0 \in 0..MaxStarts
      BY <1>16 DEF CloseEncoder
  <2> QED
      BY <1>14, <1>16, <2>1 DEF CloseEncoder
<1>17. ASSUME NEW p \in Pumps, StopJoin(p) PROVE TypeOK'
      BY <1>16, <1>17 DEF StopJoin
<1>18. ASSUME NEW p \in Pumps, StopGivesUp(p) PROVE TypeOK'
  <2>1. taken[p] \in Starts
      BY <1>18 DEF StopGivesUp, EncodersOwned, Starts
  <2> QED
      BY <1>16, <1>18, <2>1 DEF StopGivesUp
<1>19. ASSUME NEW t \in Starts, Look(t) PROVE TypeOK'
      BY <1>19 DEF Look
<1>20. ASSUME NEW t \in Starts, CaptureFails(t) PROVE TypeOK'
      BY <1>20 DEF CaptureFails
<1>21. ASSUME NEW t \in Starts, TakeEncoder(t) PROVE TypeOK'
      BY <1>21 DEF TakeEncoder
<1>22. ASSUME NEW t \in Starts, Encode(t) PROVE TypeOK'
      BY <1>22 DEF Encode
<1> QED
      BY <1>1, <1>2, <1>3, <1>5, <1>6, <1>7, <1>8, <1>9, <1>10, <1>11, <1>12, <1>13, <1>15,
         <1>17, <1>18, <1>19, <1>20, <1>21, <1>22 DEF Next, Pump, Thread

\* A pump moves between phases outside the pipeline: nothing it owns changes.
LEMMA IdleMove ==
    ASSUME PipelineInv, NEW p \in Pumps, ~Active(p), pump[p] # "join",
           NEW x \in Phases \ {"drain", "stop", "join"}, pump' = [pump EXCEPT ![p] = x],
           UNCHANGED <<windows, cVars, threadVars, history>>
    PROVE  OnePump' /\ EncodersOwned' /\ ThreadsOwned' /\ CalmThread'
<1>1. \A q \in Pumps : q # p => pump'[q] = pump[q]
      BY DEF PipelineInv, TypeOK
<1>2. \A q \in Pumps : Active(q)' <=> Active(q)
      BY <1>1 DEF Active, PipelineInv, TypeOK
<1>3. \A q \in Pumps : pump'[q] = "join" <=> pump[q] = "join"
      BY <1>1 DEF PipelineInv, TypeOK
<1>4. OnePump'
      BY <1>2 DEF PipelineInv, OnePump, cVars
<1>5. EncodersOwned'
      BY <1>3 DEF PipelineInv, EncodersOwned, cVars
<1>6. ThreadsOwned'
      BY <1>3 DEF PipelineInv, ThreadsOwned, Gone, cVars, threadVars, history
<1>7. CalmThread'
      BY <1>3 DEF PipelineInv, CalmThread, Gone, cVars, threadVars, history
<1> QED
      BY <1>4, <1>5, <1>6, <1>7

\* A stop that returns: the encoder it took is closed and the picture cleaned,
\* which belong to no one else unless a start crossed it.
LEMMA Closes ==
    ASSUME PipelineInv, NEW p \in Pumps, pump[p] = "join", CloseEncoder(p),
           \/ thread[taken[p]] = "exited" /\ forsaken' = forsaken
           \/ windows /\ forsaken' = forsaken \cup {taken[p]}
    PROVE  OnePump' /\ EncodersOwned' /\ ThreadsOwned' /\ CalmThread'
<1> DEFINE u == taken[p]
<1>0. PipelineInv /\ TypeOK /\ OnePump /\ EncodersOwned /\ ThreadsOwned /\ CalmThread
      BY DEF PipelineInv
<1>1. /\ u \in Starts /\ u \in 1..started /\ codec[u] = "open" /\ (running => u # started)
      /\ \A q \in Pumps \ {p} : pump[q] = "join" => taken[q] # u
      BY <1>0 DEF EncodersOwned, Starts, TypeOK
<1>2. PICK x \in {"restart", "ended"} : pump' = [pump EXCEPT ![p] = x]
      BY DEF CloseEncoder, Stopped, Ends
<1>3. /\ pump'[p] \in {"restart", "ended"}
      /\ \A q \in Pumps \ {p} : pump'[q] = pump[q] /\ taken'[q] = taken[q]
      BY <1>0, <1>2 DEF TypeOK, CloseEncoder
<1>4. codec'[u] = "closed" /\ \A t \in Starts \ {u} : codec'[t] = codec[t]
      BY <1>0, <1>1 DEF TypeOK, CloseEncoder
<1>5. UNCHANGED <<windows, running, encoder, started, thread, holds, crossed>> /\ picture' = 0
      BY DEF CloseEncoder, threadVars
<1>6. \A q \in Pumps : pump'[q] = "join" <=> q # p /\ pump[q] = "join"
      BY <1>3
<1>7. OnePump'
      BY <1>0, <1>3, <1>5 DEF OnePump, Active
<1>8. EncodersOwned'
  <2>1. encoder' = (IF running' THEN started' ELSE 0) /\ picture' = 0
      BY <1>0, <1>5 DEF EncodersOwned
  <2>2. running' => started' > 0 /\ codec'[started'] = "open"
      BY <1>0, <1>1, <1>4, <1>5 DEF EncodersOwned, TypeOK, Starts
  <2>3. \A q \in Pumps : pump'[q] = "join" =>
          taken'[q] \in 1..started' /\ codec'[taken'[q]] = "open" /\ (running' => taken'[q] # started')
    <3> SUFFICES ASSUME NEW q \in Pumps, pump'[q] = "join"
                 PROVE  taken'[q] \in 1..started' /\ codec'[taken'[q]] = "open" /\ (running' => taken'[q] # started')
        OBVIOUS
    <3>1. q # p /\ pump[q] = "join" /\ taken'[q] = taken[q] /\ taken[q] # u
        BY <1>1, <1>3, <1>6
    <3>2. taken[q] \in 1..started /\ codec[taken[q]] = "open" /\ taken[q] \in Starts
        BY <1>0, <3>1 DEF EncodersOwned, TypeOK, Starts
    <3> QED
        BY <1>0, <1>4, <1>5, <3>1, <3>2 DEF EncodersOwned
  <2>4. \A q, r \in Pumps : pump'[q] = "join" /\ pump'[r] = "join" /\ taken'[q] = taken'[r] => q = r
      BY <1>0, <1>3, <1>6 DEF EncodersOwned
  <2>5. \A t \in Starts : codec'[t] = "open" =>
          (running' /\ t = started') \/ \E q \in Pumps : pump'[q] = "join" /\ taken'[q] = t
      BY <1>0, <1>3, <1>4, <1>5, <1>6 DEF EncodersOwned
  <2> QED
      BY <2>1, <2>2, <2>3, <2>4, <2>5 DEF EncodersOwned
<1>9. ThreadsOwned'
  <2>1. (forsaken' # {} => windows') /\ forsaken \subseteq forsaken' /\ (Gone(u) \/ u \in forsaken')
      BY <1>0, <1>5 DEF ThreadsOwned, Gone
  <2>2. \A t \in Starts : Gone(t)' <=> Gone(t)
      BY <1>5 DEF Gone
  <2>3. \A t \in Starts : t > started' => thread'[t] = "none" /\ codec'[t] = "none"
      BY <1>0, <1>1, <1>4, <1>5 DEF ThreadsOwned, Starts, TypeOK
  <2>4. \A t \in Starts : t <= started' => thread'[t] # "none"
      BY <1>0, <1>5 DEF ThreadsOwned
  <2>5. \A t \in Starts : ~Gone(t)' =>
          \/ running' /\ t = started'
          \/ \E q \in Pumps : pump'[q] = "join" /\ taken'[q] = t
          \/ t \in forsaken'
      BY <1>0, <1>3, <1>5, <1>6, <2>1, <2>2 DEF ThreadsOwned
  <2> QED
      BY <2>1, <2>3, <2>4, <2>5 DEF ThreadsOwned
<1>10. CalmThread'
  <2> SUFFICES ASSUME ~crossed PROVE CalmThread'
      BY <1>5 DEF CalmThread
  <2>1. u = started /\ \A t \in Starts \ {u} : Gone(t)
      BY <1>0 DEF CalmThread
  <2>2. \A t \in Starts : Gone(t)' <=> Gone(t)
      BY <1>5 DEF Gone
  <2>3. \A t \in Starts \ forsaken' : Gone(t)
      BY <1>5, <2>1 DEF Gone
  <2>4. \A q \in Pumps : pump'[q] = "join" => taken'[q] = started'
      BY <1>0, <1>3, <1>5, <1>6 DEF CalmThread
  <2> QED
      BY <1>0, <1>5, <2>1, <2>2, <2>3, <2>4 DEF CalmThread
<1> QED
      BY <1>7, <1>8, <1>9, <1>10

\* Only BeginRun brings a pump into being.
LEMMA NotYetStep ==
    ASSUME TypeOK, NotYet, [Next]_vars
    PROVE  NotYet'
<1> USE BoundsAssumption DEF TypeOK, NotYet, Pumps
<1>1. CASE BeginRun
      BY <1>1 DEF BeginRun
<1>2. ASSUME NEW p \in Pumps, pump[p] # "none", run' = run, \A q \in Pumps \ {p} : pump'[q] = pump[q]
      PROVE  NotYet'
      BY <1>2
<1>3. ASSUME NEW p \in Pumps, Pump(p) PROVE NotYet'
  <2>1. pump[p] # "none" /\ run' = run
      BY <1>3 DEF Pump, Top, Channel, StartSucceeds, StartFails, Retry, Restart, DrainCancelled, StopTake,
                  StopJoin, StopGivesUp, CloseEncoder, pumpVars
  <2>2. PICK x \in Phases : pump' = [pump EXCEPT ![p] = x]
      BY <1>3 DEF Pump, Top, Channel, StartSucceeds, StartFails, Retry, Restart, DrainCancelled, StopTake,
                  StopJoin, StopGivesUp, CloseEncoder, Stopped, Ends, Phases
  <2> QED
      BY <1>2, <2>1, <2>2
<1>4. ASSUME NEW p \in Pumps, DrainFrame(p) \/ Watchdog(p) PROVE NotYet'
      BY <1>2, <1>4 DEF DrainFrame, Watchdog, pumpVars
<1>5. ASSUME NEW t \in Starts, Thread(t) PROVE NotYet'
      BY <1>5 DEF Thread, Look, CaptureFails, TakeEncoder, Encode, pumpVars
<1>6. CASE EndRun
      BY <1>6 DEF EndRun
<1>7. CASE UNCHANGED vars
      BY <1>7 DEF vars
<1> QED
      BY <1>1, <1>3, <1>4, <1>5, <1>6, <1>7 DEF Next

\* Each step keeps what is owned owned.
LEMMA PipelineStep ==
    ASSUME PipelineInv, [Next]_vars
    PROVE  OnePump' /\ EncodersOwned' /\ ThreadsOwned' /\ CalmThread'
<1>0. /\ PipelineInv /\ TypeOK /\ NotYet /\ OnePump /\ EncodersOwned /\ ThreadsOwned /\ CalmThread
      /\ TypeOK'
      BY TypesStep DEF PipelineInv
<1> DEFINE Goal == OnePump' /\ EncodersOwned' /\ ThreadsOwned' /\ CalmThread'
<1> USE BoundsAssumption DEF pumpVars, cVars, threadVars, frameVars, history
<1>1. CASE UNCHANGED vars
  <2>1. OnePump' /\ EncodersOwned'
      BY <1>0, <1>1 DEF vars, OnePump, EncodersOwned, Active
  <2>2. ThreadsOwned' /\ CalmThread'
      BY <1>0, <1>1 DEF vars, ThreadsOwned, CalmThread, Gone
  <2> QED
      BY <2>1, <2>2
<1>2. CASE BeginRun
  <2>1. run + 1 \in Pumps /\ pump[run + 1] = "none"
      BY <1>0, <1>2 DEF BeginRun, Pumps, TypeOK, NotYet
  <2> QED
      BY <1>0, <1>2, <2>1, IdleMove DEF BeginRun, Phases, Active
<1>3. CASE EndRun
  <2>1. OnePump' /\ EncodersOwned'
      BY <1>0, <1>3 DEF EndRun, OnePump, EncodersOwned, Active
  <2>2. ThreadsOwned' /\ CalmThread'
      BY <1>0, <1>3 DEF EndRun, ThreadsOwned, CalmThread, Gone
  <2> QED
      BY <2>1, <2>2
<1>4. ASSUME NEW p \in Pumps, Top(p) PROVE Goal
  <2>1. PICK x \in {"ended", "channel"} : pump' = [pump EXCEPT ![p] = x]
      BY <1>4 DEF Top, Ends
  <2> QED
      BY <1>0, <1>4, <2>1, IdleMove DEF Top, Phases, Active
<1>5. ASSUME NEW p \in Pumps, Channel(p) PROVE Goal
  <2>1. PICK x \in {"start"} : pump' = [pump EXCEPT ![p] = x]
      BY <1>5 DEF Channel, Ends
  <2> QED
      BY <1>0, <1>5, <2>1, IdleMove DEF Channel, Phases, Active
<1>6. ASSUME NEW p \in Pumps, StartFails(p) PROVE Goal
  <2>1. CASE running
      BY <1>0, <1>6, <2>1, IdleMove DEF StartFails, Phases, Active
  <2>2. CASE ~running
    <3>1. /\ pump' = [pump EXCEPT ![p] = "retry"] /\ picture' \in {picture, 0} /\ crossed' = ~Quiet
          /\ UNCHANGED <<windows, taken, running, encoder, started, codec, thread, holds, forsaken>>
        BY <1>6, <2>2 DEF StartFails
    <3>2. \A q \in Pumps : (Active(q)' <=> Active(q)) /\ (pump'[q] = "join" <=> pump[q] = "join")
        BY <1>0, <1>6, <3>1 DEF StartFails, Active, TypeOK
    <3>3. OnePump' /\ EncodersOwned'
        BY <1>0, <3>1, <3>2 DEF OnePump, EncodersOwned
    <3>4. ThreadsOwned'
        BY <1>0, <3>1, <3>2 DEF ThreadsOwned, Gone
    <3>5. CalmThread'
        BY <1>0, <3>1, <3>2 DEF CalmThread, Quiet, Gone
    <3> QED
        BY <3>3, <3>4, <3>5
  <2> QED
      BY <2>1, <2>2
<1>7. ASSUME NEW p \in Pumps, Retry(p) PROVE Goal
  <2>1. PICK x \in {"ended", "top"} : pump' = [pump EXCEPT ![p] = x]
      BY <1>7 DEF Retry, Ends
  <2> QED
      BY <1>0, <1>7, <2>1, IdleMove DEF Retry, Phases, Active
<1>8. ASSUME NEW p \in Pumps, Restart(p) PROVE Goal
  <2>1. PICK x \in {"ended", "top"} : pump' = [pump EXCEPT ![p] = x]
      BY <1>8 DEF Restart, Ends
  <2> QED
      BY <1>0, <1>8, <2>1, IdleMove DEF Restart, Phases, Active
<1>9. ASSUME NEW p \in Pumps, StartSucceeds(p) PROVE Goal
  <2>1. /\ ~running /\ running' /\ started' = started + 1 /\ started' \in Starts
        /\ encoder' = started' /\ picture' = started' /\ crossed' = ~Quiet
        /\ UNCHANGED <<windows, taken, holds, forsaken>>
      BY <1>0, <1>9 DEF StartSucceeds, TypeOK, Starts
  <2>2. /\ pump'[p] = "drain" /\ pump[p] = "start"
        /\ \A q \in Pumps \ {p} : pump'[q] = pump[q]
      BY <1>0, <1>9 DEF StartSucceeds, TypeOK
  <2>3. /\ codec'[started'] = "open" /\ thread'[started'] = "loop"
        /\ \A t \in Starts \ {started'} : codec'[t] = codec[t] /\ thread'[t] = thread[t]
      BY <1>0, <1>9, <2>1 DEF StartSucceeds, TypeOK
  <2>4. \A q \in Pumps : ~Active(q)
      BY <1>0, <2>1 DEF OnePump
  <2>5. OnePump'
      BY <2>1, <2>2, <2>4 DEF OnePump, Active
  <2>6. \A q \in Pumps : pump[q] = "join" =>
          taken[q] \in 1..started /\ taken[q] \in Starts \ {started'}
      BY <1>0, <2>1 DEF EncodersOwned, TypeOK, Starts
  <2>7. \A q \in Pumps : pump'[q] = "join" <=> pump[q] = "join"
      BY <2>2
  <2>8. EncodersOwned'
    <3>1. \A q \in Pumps : pump'[q] = "join" =>
            taken'[q] \in 1..started' /\ codec'[taken'[q]] = "open" /\ taken'[q] # started'
        BY <1>0, <2>1, <2>3, <2>6, <2>7 DEF EncodersOwned, TypeOK
    <3>2. \A q, r \in Pumps : pump'[q] = "join" /\ pump'[r] = "join" /\ taken'[q] = taken'[r] => q = r
        BY <1>0, <2>1, <2>7 DEF EncodersOwned
    <3>3. \A t \in Starts : codec'[t] = "open" =>
            t = started' \/ \E q \in Pumps : pump'[q] = "join" /\ taken'[q] = t
        BY <1>0, <2>1, <2>3, <2>7 DEF EncodersOwned
    <3>4. started' > 0
        BY <2>1 DEF Starts
    <3> QED
        BY <2>1, <2>3, <3>1, <3>2, <3>3, <3>4 DEF EncodersOwned
  <2>9. ThreadsOwned'
    <3>1. \A t \in Starts : t <= started' => thread'[t] # "none"
        BY <1>0, <2>1, <2>3 DEF ThreadsOwned, Starts, TypeOK
    <3>2. \A t \in Starts : t > started' => thread'[t] = "none" /\ codec'[t] = "none"
        BY <1>0, <2>1, <2>3 DEF ThreadsOwned, Starts, TypeOK
    <3>3. \A t \in Starts : ~Gone(t)' =>
            \/ t = started'
            \/ \E q \in Pumps : pump'[q] = "join" /\ taken'[q] = t
            \/ t \in forsaken'
        BY <1>0, <2>1, <2>3, <2>7 DEF ThreadsOwned, Gone
    <3> QED
        BY <1>0, <2>1, <3>1, <3>2, <3>3 DEF ThreadsOwned
  <2>10. CalmThread'
    <3> SUFFICES ASSUME Quiet PROVE CalmThread'
        BY <2>1 DEF CalmThread
    <3>1. \A t \in Starts : t # started' => Gone(t)'
        BY <2>3 DEF Quiet, Gone
    <3>2. \A q \in Pumps : pump'[q] # "join"
        BY <2>7 DEF Quiet
    <3>3. \A t \in Starts : thread'[t] # "encode"
        BY <2>3, <3>1 DEF Gone
    <3> QED
        BY <2>1, <2>3, <3>1, <3>2, <3>3 DEF CalmThread
  <2> QED
      BY <2>5, <2>8, <2>9, <2>10
<1>10. ASSUME NEW p \in Pumps, DrainCancelled(p) PROVE Goal
  <2>1. UNCHANGED <<windows, cVars, threadVars, history>>
      BY <1>10 DEF DrainCancelled
  <2>2. \A q \in Pumps : (Active(q)' <=> Active(q)) /\ (pump'[q] = "join" <=> pump[q] = "join")
      BY <1>0, <1>10 DEF DrainCancelled, Active, TypeOK
  <2>3. OnePump' /\ EncodersOwned'
      BY <1>0, <2>1, <2>2 DEF OnePump, EncodersOwned
  <2>4. ThreadsOwned' /\ CalmThread'
      BY <1>0, <2>1, <2>2 DEF ThreadsOwned, CalmThread, Gone
  <2> QED
      BY <2>3, <2>4
<1>11. ASSUME NEW p \in Pumps, Watchdog(p) PROVE Goal
  <2>1. UNCHANGED <<windows, cVars, threadVars, history>>
      BY <1>11 DEF Watchdog
  <2>2. \A q \in Pumps : (Active(q)' <=> Active(q)) /\ (pump'[q] = "join" <=> pump[q] = "join")
      BY <1>0, <1>11 DEF Watchdog, Active, TypeOK
  <2>3. OnePump' /\ EncodersOwned'
      BY <1>0, <2>1, <2>2 DEF OnePump, EncodersOwned
  <2>4. ThreadsOwned' /\ CalmThread'
      BY <1>0, <2>1, <2>2 DEF ThreadsOwned, CalmThread, Gone
  <2> QED
      BY <2>3, <2>4
<1>12. ASSUME NEW p \in Pumps, DrainFrame(p) PROVE Goal
  <2>1. OnePump' /\ EncodersOwned'
      BY <1>0, <1>12 DEF DrainFrame, OnePump, EncodersOwned, Active
  <2>2. ThreadsOwned' /\ CalmThread'
      BY <1>0, <1>12 DEF DrainFrame, ThreadsOwned, CalmThread, Gone
  <2> QED
      BY <2>1, <2>2
<1>13. ASSUME NEW p \in Pumps, StopTake(p) PROVE Goal
  <2>0. pump[p] = "stop" /\ running
      BY <1>0, <1>13 DEF StopTake, OnePump, Active
  <2>1. /\ ~running' /\ encoder' = 0 /\ pump'[p] = "join" /\ taken'[p] = started
        /\ UNCHANGED <<windows, started, codec, thread, holds, picture, crossed, forsaken>>
        /\ \A q \in Pumps \ {p} : pump'[q] = pump[q] /\ taken'[q] = taken[q]
      BY <1>0, <1>13, <2>0 DEF StopTake, TypeOK, EncodersOwned
  <2>2. \A q \in Pumps \ {p} : ~Active(q)
      BY <1>0, <2>0 DEF OnePump, Active
  <2>3. OnePump'
      BY <2>1, <2>2 DEF OnePump, Active
  <2>4. started > 0 /\ started \in 1..started /\ codec[started] = "open"
      BY <1>0, <2>0 DEF EncodersOwned, TypeOK
  <2>5. EncodersOwned'
    <3>1. \A q \in Pumps : pump'[q] = "join" =>
            taken'[q] \in 1..started' /\ codec'[taken'[q]] = "open"
        BY <1>0, <2>1, <2>4 DEF EncodersOwned
    <3>2. \A q, r \in Pumps : pump'[q] = "join" /\ pump'[r] = "join" /\ taken'[q] = taken'[r] => q = r
        BY <1>0, <2>0, <2>1 DEF EncodersOwned
    <3>3. \A t \in Starts : codec'[t] = "open" => \E q \in Pumps : pump'[q] = "join" /\ taken'[q] = t
      <4> SUFFICES ASSUME NEW t \in Starts, codec[t] = "open"
                   PROVE  \E q \in Pumps : pump'[q] = "join" /\ taken'[q] = t
          BY <2>1
      <4>1. CASE t = started
          BY <2>1, <4>1
      <4>2. CASE \E q \in Pumps : pump[q] = "join" /\ taken[q] = t
        <5>1. PICK q \in Pumps : pump[q] = "join" /\ taken[q] = t
            BY <4>2
        <5>2. q # p
            BY <2>0, <5>1
        <5> QED
            BY <2>1, <5>1, <5>2
      <4> QED
          BY <1>0, <4>1, <4>2 DEF EncodersOwned
    <3> QED
        BY <2>1, <3>1, <3>2, <3>3 DEF EncodersOwned
  <2>6. \A t \in Starts : (t = started \/ \E q \in Pumps : pump[q] = "join" /\ taken[q] = t)
          => \E q \in Pumps : pump'[q] = "join" /\ taken'[q] = t
    <3> SUFFICES ASSUME NEW t \in Starts, NEW q \in Pumps,
                        t = started \/ (pump[q] = "join" /\ taken[q] = t)
                 PROVE  \E r \in Pumps : pump'[r] = "join" /\ taken'[r] = t
        OBVIOUS
    <3>1. CASE t = started
        BY <2>1, <3>1
    <3>2. CASE pump[q] = "join" /\ taken[q] = t
      <4>1. q # p
          BY <2>0, <3>2
      <4> QED
          BY <2>1, <3>2, <4>1
    <3> QED
        BY <3>1, <3>2
  <2>7. ThreadsOwned'
      BY <1>0, <2>1, <2>6 DEF ThreadsOwned, Gone
  <2>8. CalmThread'
      BY <1>0, <2>1 DEF CalmThread, Gone
  <2> QED
      BY <2>3, <2>5, <2>7, <2>8
<1>14. ASSUME NEW p \in Pumps, StopJoin(p) PROVE Goal
      BY <1>0, <1>14, Closes DEF StopJoin
<1>15. ASSUME NEW p \in Pumps, StopGivesUp(p) PROVE Goal
      BY <1>0, <1>15, Closes DEF StopGivesUp
<1>16. ASSUME NEW t \in Starts, Look(t) PROVE Goal
  <2>1. /\ ~Gone(t) /\ thread'[t] # "none"
        /\ \A s \in Starts \ {t} : thread'[s] = thread[s] /\ holds'[s] = holds[s]
        /\ UNCHANGED <<windows, pump, cVars, history>>
      BY <1>0, <1>16 DEF Look, Gone, TypeOK
  <2>2. OnePump' /\ EncodersOwned'
      BY <1>0, <2>1 DEF OnePump, EncodersOwned, Active
  <2>3. ThreadsOwned'
      BY <1>0, <2>1 DEF ThreadsOwned, Gone
  <2>4. CalmThread'
    <3>1. thread'[t] # "encode"
        BY <1>0, <1>16 DEF Look, TypeOK
    <3> QED
        BY <1>0, <2>1, <3>1 DEF CalmThread, Gone
  <2> QED
      BY <2>2, <2>3, <2>4
<1>17. ASSUME NEW t \in Starts, CaptureFails(t) PROVE Goal
  <2>1. /\ ~Gone(t) /\ thread'[t] # "none"
        /\ \A s \in Starts \ {t} : thread'[s] = thread[s] /\ holds'[s] = holds[s]
        /\ UNCHANGED <<windows, pump, cVars, history>>
      BY <1>0, <1>17 DEF CaptureFails, Gone, TypeOK
  <2>2. OnePump' /\ EncodersOwned'
      BY <1>0, <2>1 DEF OnePump, EncodersOwned, Active
  <2>3. ThreadsOwned'
      BY <1>0, <2>1 DEF ThreadsOwned, Gone
  <2>4. CalmThread'
    <3>1. thread'[t] # "encode"
        BY <1>0, <1>17 DEF CaptureFails, TypeOK
    <3> QED
        BY <1>0, <2>1, <3>1 DEF CalmThread, Gone
  <2> QED
      BY <2>2, <2>3, <2>4
<1>18. ASSUME NEW t \in Starts, TakeEncoder(t) PROVE Goal
  <2>1. /\ ~Gone(t) /\ thread'[t] # "none"
        /\ \A s \in Starts \ {t} : thread'[s] = thread[s] /\ holds'[s] = holds[s]
        /\ UNCHANGED <<windows, pump, cVars, history>>
      BY <1>0, <1>18 DEF TakeEncoder, Gone, TypeOK
  <2>2. OnePump' /\ EncodersOwned'
      BY <1>0, <2>1 DEF OnePump, EncodersOwned, Active
  <2>3. ThreadsOwned'
      BY <1>0, <2>1 DEF ThreadsOwned, Gone
  <2>4. CalmThread'
    <3>1. ~crossed /\ thread'[t] = "encode" => t = started /\ running /\ holds'[t] = t
        BY <1>0, <1>18, <2>1 DEF TakeEncoder, CalmThread, EncodersOwned, TypeOK
    <3> QED
        BY <1>0, <2>1, <3>1 DEF CalmThread, Gone
  <2> QED
      BY <2>2, <2>3, <2>4
<1>19. ASSUME NEW t \in Starts, Encode(t) PROVE Goal
  <2>1. /\ ~Gone(t) /\ thread'[t] # "none"
        /\ \A s \in Starts \ {t} : thread'[s] = thread[s] /\ holds'[s] = holds[s]
        /\ UNCHANGED <<windows, pump, cVars, history>>
      BY <1>0, <1>19 DEF Encode, Gone, TypeOK
  <2>2. OnePump' /\ EncodersOwned'
      BY <1>0, <2>1 DEF OnePump, EncodersOwned, Active
  <2>3. ThreadsOwned'
      BY <1>0, <2>1 DEF ThreadsOwned, Gone
  <2>4. CalmThread'
    <3>1. thread'[t] # "encode"
        BY <1>0, <1>19 DEF Encode, TypeOK
    <3> QED
        BY <1>0, <2>1, <3>1 DEF CalmThread, Gone
  <2> QED
      BY <2>2, <2>3, <2>4
<1> QED
      BY <1>1, <1>2, <1>3, <1>4, <1>5, <1>6, <1>7, <1>8, <1>9, <1>10, <1>11, <1>12, <1>13, <1>14, <1>15,
         <1>16, <1>17, <1>18, <1>19 DEF Next, Pump, Thread

\* The parts together are an inductive invariant of the pipeline.
THEOREM PipelineInvariant == Spec => []PipelineInv
<1>1. PipelineInv /\ [Next]_vars => PipelineInv'
      BY TypesStep, NotYetStep, PipelineStep DEF PipelineInv
<1> QED
      BY InitPipelineInv, <1>1, PTL DEF Spec

\* A capture thread never encodes with a closed or shared encoder or picture
\* but in the two ways the code leaves open, for any number of connections and
\* restarts: in particular no failed start, dead thread or watchdog restart
\* brings it there, and the next start that finds the pipeline quiet ends it.
THEOREM CaptureIsExclusive == Spec => []EncoderUsedAloneWhileOpen
<1>1. PipelineInv => EncoderUsedAloneWhileOpen
  <2> SUFFICES ASSUME PipelineInv, NEW t \in Starts, thread[t] = "encode", ~crossed, t \notin forsaken
               PROVE  /\ holds[t] = t /\ codec[t] = "open" /\ picture = t
                      /\ \A s \in Starts \ {t} : thread[s] # "encode"
      BY DEF EncoderUsedAloneWhileOpen
  <2>1. ~Gone(t)
      BY DEF Gone
  <2> QED
      BY <2>1 DEF PipelineInv, CalmThread, Gone
<1> QED
      BY PipelineInvariant, <1>1, PTL

\* When every pump has ended, no encoder, picture or thread is left but the
\* threads Windows gave up, however pumps overlapped (encodePump, rc_linux_stop).
THEOREM EndedPumpsLeaveNothing == Spec => []NothingLeftRunning
<1>1. PipelineInv => NothingLeftRunning
  <2> SUFFICES ASSUME PipelineInv, \A p \in Pumps : pump[p] \in {"none", "ended"}
               PROVE  /\ ~running /\ encoder = 0 /\ picture = 0
                      /\ \A t \in Starts : codec[t] # "open" /\ (Gone(t) \/ (windows /\ t \in forsaken))
      BY DEF NothingLeftRunning
  <2>1. (\A p \in Pumps : ~Active(p) /\ pump[p] # "join") /\ ~running
      BY DEF PipelineInv, OnePump, Active
  <2>2. encoder = 0 /\ picture = 0 /\ \A t \in Starts : codec[t] # "open"
      BY <2>1 DEF PipelineInv, EncodersOwned
  <2>3. \A t \in Starts : Gone(t) \/ (windows /\ t \in forsaken)
      BY <2>1 DEF PipelineInv, ThreadsOwned
  <2> QED
      BY <2>1, <2>2, <2>3
<1> QED
      BY PipelineInvariant, <1>1, PTL

\* Whatever failed starts, dead threads and stops leave behind, only another
\* connection's pump makes rc_linux_start answer "already running".
THEOREM OnlyOthersRefuseAStart == Spec => RefusedOnlyByAnother
<1>1. PipelineInv =>
        [\A p \in Pumps : Refused(p) => \E q \in Pumps \ {p} : pump[q] \in {"drain", "stop"}]_vars
  <2> SUFFICES ASSUME PipelineInv, NEW p \in Pumps, Refused(p)
               PROVE  \E q \in Pumps \ {p} : pump[q] \in {"drain", "stop"}
      OBVIOUS
  <2>1. PICK q \in Pumps : Active(q)
      BY DEF Refused, PipelineInv, OnePump
  <2> QED
      BY <2>1 DEF Refused, Active
<1> QED
      BY PipelineInvariant, <1>1, PTL DEF RefusedOnlyByAnother

\* Type correctness; the back-off stays between its bounds.
THEOREM PipelineTypesCorrect == Spec => []TypeOK
<1>1. PipelineInv => TypeOK
      BY DEF PipelineInv
<1> QED
      BY PipelineInvariant, <1>1, PTL
==============================================================================
