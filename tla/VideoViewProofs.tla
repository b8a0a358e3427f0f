-------------------------- MODULE VideoViewProofs --------------------------
(***************************************************************************)
(* Proofs about VideoView for every set of streams and any number of       *)
(* requests under way.                                                     *)
(***************************************************************************)
EXTENDS VideoView, TLAPS

(* Results are streams or null, and no more of them wait than may be under  *)
(* way.                                                                     *)
LEMMA ResultsTyped ==
    ASSUME NEW T, NEW r \in Seq(T)
    PROVE  /\ \A s \in T : /\ Append(r, s) \in Seq(T)
                           /\ Len(Append(r, s)) = Len(r) + 1
                           /\ Append(r, s)[Len(r) + 1] = s
                           /\ \A i \in 1..Len(r) : Append(r, s)[i] = r[i]
           /\ r # <<>> => /\ Head(r) \in T /\ Head(r) = r[1]
                          /\ Tail(r) \in Seq(T)
                          /\ Len(Tail(r)) = Len(r) - 1
           /\ Len(r) \in Nat /\ (Len(r) = 0 <=> r = <<>>) /\ DOMAIN r = 1..Len(r)
<1>1. ASSUME NEW s \in T
      PROVE  /\ Append(r, s) \in Seq(T)
             /\ Len(Append(r, s)) = Len(r) + 1
             /\ Append(r, s)[Len(r) + 1] = s
             /\ \A i \in 1..Len(r) : Append(r, s)[i] = r[i]
  OBVIOUS
<1>2. ASSUME r # <<>>
      PROVE  /\ Head(r) \in T /\ Head(r) = r[1]
             /\ Tail(r) \in Seq(T) /\ Len(Tail(r)) = Len(r) - 1
  BY <1>2
<1>3. Len(r) \in Nat /\ (Len(r) = 0 <=> r = <<>>) /\ DOMAIN r = 1..Len(r)
  OBVIOUS
<1> QED BY <1>1, <1>2, <1>3

(* Every field of the view, the activity and the tasks keeps its type; never *)
(* more than MaxRequests requests or results are under way.                  *)
THEOREM TypeCorrect == Spec => []TypeOK
<1> USE StreamsAssumption, RequestsAssumption DEF StreamsAssumption, RequestsAssumption
<1>1. Init => TypeOK
  <2>1. MaxRequests \in Nat
    OBVIOUS
  <2>2. <<>> \in Seq(Streams \cup {NoStream}) /\ Len(<<>>) = 0
    OBVIOUS
  <2>3. Init => results = <<>> /\ requests = 0
    BY DEF Init
  <2>4. Init => /\ results \in Seq(Streams \cup {NoStream}) /\ Len(results) <= MaxRequests
                /\ requests \in 0..MaxRequests
    BY <2>1, <2>2, <2>3
  <2> QED BY <2>4 DEF Init, TypeOK
<1>2. TypeOK /\ [Next]_vars => TypeOK'
  <2> SUFFICES ASSUME TypeOK, [Next]_vars PROVE TypeOK'
    OBVIOUS
  <2>0. /\ \A s \in Streams \cup {NoStream} :
               Append(results, s) \in Seq(Streams \cup {NoStream})
               /\ Len(Append(results, s)) = Len(results) + 1
        /\ results # <<>> => /\ Head(results) \in Streams \cup {NoStream}
                             /\ Tail(results) \in Seq(Streams \cup {NoStream})
                             /\ Len(Tail(results)) = Len(results) - 1
        /\ Len(results) \in Nat
    <3>1. results \in Seq(Streams \cup {NoStream})
      BY DEF TypeOK
    <3> QED BY <3>1, ResultsTyped
  <2> USE DEF TypeOK, Handlers, Ready, Alive, activityVars, requestVars, viewVars
  <2>1. CASE StreamOn
    <3>1. requests' \in 0..MaxRequests
      BY <2>1 DEF StreamOn
    <3> QED BY <2>1, <3>1 DEF StreamOn
  <2>2. CASE Resume
    BY <2>2 DEF Resume
  <2>9. CASE StreamOff
    BY <2>9 DEF StreamOff, StopPlayback
  <2>10. ASSUME NEW from, NEW to \in {"paused", "stopped", "destroyed"},
                NEW handler \in {"pause", "stop", "destroy"}, Leave(from, to, handler)
         PROVE  TypeOK'
    <3>1. /\ ui' \in Handlers \cup {"idle"} /\ mRun' \in BOOLEAN /\ late' \in BOOLEAN
      BY <2>10 DEF Leave, StopPlayback
    <3>2. activity' \in {"paused", "stopped", "destroyed"}
      BY <2>10 DEF Leave
    <3> QED BY <2>10, <3>1, <3>2 DEF Leave
  <2>3. CASE SurfaceStep
    BY <2>3 DEF SurfaceStep, SurfaceCreated, SurfaceDestroyed, StopPlayback
  <2>4. CASE Joined
    BY <2>4 DEF Joined
  <2>5. CASE ReadDone
    BY <2>5, <2>0 DEF ReadDone
  <2>6. CASE SetSource
    <3>1. /\ results' \in Seq(Streams \cup {NoStream}) /\ Len(results') <= MaxRequests
          /\ mIn' \in Streams \cup {NoStream}
      BY <2>6, <2>0 DEF SetSource
    <3>2. /\ mRun' \in BOOLEAN /\ thread' \in {"null", "new", "started"}
          /\ render' \in {"off", "top", "lock", "read", "draw"}
          /\ crashed' \in {"no", "startedTwice", "nullStream", "badFrame"}
      BY <2>6 DEF SetSource
    <3> QED BY <2>6, <3>1, <3>2 DEF SetSource
  <2>7. CASE RenderStep \/ ReadFrame \/ ReadFails
    BY <2>7 DEF RenderStep, RenderTop, RenderLock, RenderDraw, ReadFrame, ReadFails, RenderGoto
  <2>8. CASE UNCHANGED vars
    BY <2>8 DEF vars
  <2> QED
    BY <2>1, <2>2, <2>3, <2>4, <2>5, <2>6, <2>7, <2>8, <2>9, <2>10
    DEF Next, UserStep, Pause, Stop, Destroy
<1> QED BY <1>1, <1>2, PTL DEF Spec

-----------------------------------------------------------------------------
(* What is known of the surface and the thread, whatever the requests did:  *)
(* surfaceDone is cleared before the handler of surfaceDestroyed waits, and *)
(* a thread that runs is the one in the field.                              *)
SurfaceKnown ==
    /\ surfaceDone => surface /\ ui # "surface"
    /\ render # "off" => thread = "started"

(* The canvas is used only while its surface exists: surfaceDestroyed       *)
(* returns after the thread has ended (MjpegView 110-137, 172-204).         *)
THEOREM SurfaceOutlives == Spec => []SurfaceOutlivesDrawing
<1> DEFINE Inv == SurfaceKnown /\ SurfaceOutlivesDrawing
<1>1. Init => Inv
  BY DEF Init, SurfaceKnown, SurfaceOutlivesDrawing
<1>2. TypeOK /\ Inv /\ [Next]_vars => Inv'
  <2> SUFFICES ASSUME TypeOK, Inv, [Next]_vars PROVE Inv'
    OBVIOUS
  <2> USE DEF SurfaceKnown, SurfaceOutlivesDrawing, Ready, Alive, activityVars, requestVars, viewVars
  <2>1. CASE StreamOn \/ Resume
    BY <2>1 DEF StreamOn, Resume
  <2>2. CASE StreamOff \/ Pause \/ Stop \/ Destroy
    BY <2>2 DEF StreamOff, Pause, Stop, Destroy, Leave, StopPlayback
  <2>3. CASE SurfaceStep
    BY <2>3 DEF SurfaceStep, SurfaceCreated, SurfaceDestroyed, StopPlayback
  <2>4. CASE Joined
    BY <2>4 DEF Joined, TypeOK
  <2>5. CASE ReadDone
    BY <2>5 DEF ReadDone
  <2>6. CASE SetSource
    BY <2>6 DEF SetSource
  <2>7. CASE RenderStep \/ ReadFrame \/ ReadFails
    BY <2>7 DEF RenderStep, RenderTop, RenderLock, RenderDraw, ReadFrame, ReadFails, RenderGoto
  <2>8. CASE UNCHANGED vars
    BY <2>8 DEF vars
  <2> QED BY <2>1, <2>2, <2>3, <2>4, <2>5, <2>6, <2>7, <2>8 DEF Next, UserStep
<1>3. Inv => SurfaceOutlivesDrawing
  OBVIOUS
<1> QED BY <1>1, <1>2, <1>3, TypeCorrect, PTL DEF Spec

-----------------------------------------------------------------------------
(* As long as no stop has overtaken a request, at most one request is under *)
(* way, nothing plays meanwhile, and what plays has a stream.               *)
Pending == requests + Len(results)

OneAtATime ==
    ~late =>
        /\ Pending <= 1
        /\ Pending = 1 => /\ streamRunning /\ activity = "resumed" /\ ui = "idle"
                          /\ thread # "started" /\ mIn = NoStream
        /\ thread = "started" => streamRunning /\ mIn # NoStream
                                 /\ (activity # "resumed" => ui # "idle")
        /\ thread # "started" => mIn = NoStream
        /\ streamRunning => viewSet

RenderKnown == render # "off" => thread = "started"

PlayInv == RenderKnown /\ OneAtATime /\ CrashNeedsLateResult /\ StreamsAccounted

(* The strengthening of the three properties below is inductive.            *)
LEMMA PlayInvariant == Spec => []PlayInv
<1> USE StreamsAssumption, RequestsAssumption DEF StreamsAssumption, RequestsAssumption
<1>1. Init => PlayInv
  BY DEF Init, PlayInv, RenderKnown, OneAtATime, CrashNeedsLateResult, StreamsAccounted, Pending
<1>2. TypeOK /\ PlayInv /\ [Next]_vars => PlayInv'
  <2> SUFFICES ASSUME TypeOK, PlayInv, [Next]_vars PROVE PlayInv'
    OBVIOUS
  <2> USE DEF Ready, Alive, activityVars, requestVars, viewVars, PlayInv, RenderKnown, OneAtATime,
              CrashNeedsLateResult, StreamsAccounted, Pending
  <2>0. /\ requests \in Nat /\ Len(results) \in Nat /\ (Len(results) = 0 <=> results = <<>>)
        /\ DOMAIN results = 1..Len(results)
    BY ResultsTyped DEF TypeOK
  <2>9. /\ \A s \in Streams \cup {NoStream} :
               /\ Len(Append(results, s)) = Len(results) + 1
               /\ Append(results, s)[Len(results) + 1] = s
               /\ \A i \in 1..Len(results) : Append(results, s)[i] = results[i]
               /\ DOMAIN Append(results, s) = 1..(Len(results) + 1)
         /\ results # <<>> => /\ Head(results) = results[1]
                              /\ Len(Tail(results)) = Len(results) - 1
    <3>1. results \in Seq(Streams \cup {NoStream})
      BY DEF TypeOK
    <3> QED BY <3>1, ResultsTyped
  <2>1. CASE StreamOn \/ Resume
    BY <2>0, <2>1 DEF StreamOn, Resume
  <2>2. ASSUME NEW handler \in Handlers, StopPlayback(handler),
               UNCHANGED <<streamRunning, viewSet, requestVars, open, mIn, thread, render, crashed>>
        PROVE  PlayInv'
    <3>1. ~late' => ~late /\ Pending = 0 /\ Pending' = 0
      <4>1. late' = (late \/ requests > 0 \/ results # <<>>)
        BY <2>2 DEF StopPlayback
      <4>2. ~late' => ~late /\ ~(requests > 0) /\ results = <<>>
        BY <4>1, Zenon
      <4>3. requests' = requests /\ results' = results
        BY <2>2
      <4> QED BY <2>0, <4>2, <4>3
    <3>2. ui' # "idle"
      BY <2>2 DEF StopPlayback, Handlers
    <3>3. OneAtATime'
      BY <2>2, <3>1, <3>2
    <3>4. RenderKnown' /\ CrashNeedsLateResult' /\ StreamsAccounted'
      BY <2>2, <3>1 DEF StopPlayback
    <3> QED BY <3>3, <3>4
  <2>10. ASSUME NEW from, NEW to, NEW handler \in Handlers, Leave(from, to, handler)
         PROVE  PlayInv'
    <3>1. CASE viewSet
      BY <2>2, <2>10, <3>1 DEF Leave
    <3>2. CASE ~viewSet
      BY <2>0, <2>10, <3>2 DEF Leave
    <3> QED BY <3>1, <3>2
  <2>11. CASE StreamOff \/ Pause \/ Stop \/ Destroy
    BY <2>2, <2>10, <2>11 DEF StreamOff, Pause, Stop, Destroy, Handlers
  <2>3. CASE SurfaceStep
    <3>1. CASE SurfaceCreated
      BY <2>0, <3>1 DEF SurfaceCreated
    <3>2. CASE SurfaceDestroyed
      BY <2>2, <3>2 DEF SurfaceDestroyed, Handlers
    <3> QED BY <2>3, <3>1, <3>2 DEF SurfaceStep
  <2>4. CASE Joined
    <3>1. /\ results' = results /\ requests' = requests /\ late' = late /\ crashed' = crashed
          /\ thread' = "null" /\ mIn' = NoStream /\ viewSet' = viewSet /\ render' = render
          /\ streamRunning' => streamRunning
          /\ ui # "idle" /\ (thread = "started" => render = "off")
      BY <2>4 DEF Joined
    <3>2. RenderKnown' /\ CrashNeedsLateResult'
      BY <3>1
    <3>3. OneAtATime'
      BY <2>0, <3>1
    <3>4. StreamsAccounted'
      BY <2>4 DEF Joined
    <3> QED BY <3>2, <3>3, <3>4
  <2>5. CASE ReadDone
    <3>1. /\ requests > 0 /\ requests' = requests - 1 /\ Len(results') = Len(results) + 1
          /\ open' = open \cup {results'[Len(results) + 1]} \/ open' = open
          /\ \A i \in 1..Len(results) : results'[i] = results[i]
          /\ DOMAIN results' = 1..(Len(results) + 1)
      BY <2>5, <2>9 DEF ReadDone
    <3>2. /\ late' = late /\ crashed' = crashed /\ thread' = thread /\ mIn' = mIn
          /\ viewSet' = viewSet /\ render' = render /\ ui' = ui /\ activity' = activity
          /\ streamRunning' = streamRunning
      BY <2>5 DEF ReadDone
    <3>3. RenderKnown' /\ CrashNeedsLateResult'
      BY <3>2
    <3>4. OneAtATime'
      BY <2>0, <3>1, <3>2
    <3>5. StreamsAccounted'
      BY <2>0, <3>1, <3>2
    <3> QED BY <3>3, <3>4, <3>5
  <2>6. CASE SetSource
    <3>1. /\ results # <<>> /\ mIn' = Head(results) /\ mIn' = results[1]
          /\ Len(results') = Len(results) - 1
      BY <2>6, <2>9 DEF SetSource
    <3>2. /\ late' = late /\ ui' = ui /\ activity' = activity /\ requests' = requests
          /\ viewSet' = viewSet /\ streamRunning' = streamRunning /\ open' = open
      BY <2>6 DEF SetSource
    <3>3. ~late => /\ Len(results) = 1 /\ requests = 0 /\ thread # "started"
                   /\ streamRunning /\ activity = "resumed" /\ ui = "idle" /\ render = "off"
      BY <2>0, <3>1
    <3>4. RenderKnown' /\ CrashNeedsLateResult'
      BY <2>6, <3>3 DEF SetSource
    <3>5. ~late => (thread' = "started" <=> mIn' # NoStream)
      BY <2>6, <3>3 DEF SetSource
    <3>6. OneAtATime'
      BY <2>0, <3>1, <3>2, <3>3, <3>5
    <3>7. StreamsAccounted'
      <4>1. ASSUME ~late, NEW s \in open PROVE s = mIn'
        <5>1. s # mIn
          BY <4>1, <3>3 DEF TypeOK
        <5>2. \E i \in 1..Len(results) : results[i] = s
          BY <2>0, <4>1, <5>1
        <5> QED BY <3>1, <3>3, <4>1, <5>2
      <4> QED BY <3>2, <4>1
    <3> QED BY <3>4, <3>6, <3>7
  <2>7. CASE RenderStep \/ ReadFrame \/ ReadFails
    BY <2>0, <2>7 DEF RenderStep, RenderTop, RenderLock, RenderDraw, ReadFrame, ReadFails, RenderGoto
  <2>8. CASE UNCHANGED vars
    BY <2>8 DEF vars
  <2> QED BY <2>1, <2>11, <2>3, <2>4, <2>5, <2>6, <2>7, <2>8 DEF Next, UserStep
<1> QED BY <1>1, <1>2, TypeCorrect, PTL DEF Spec

(* No thread is started twice and none loses its stream while it runs, as   *)
(* long as no stop overtakes a request (MjpegView 160-192, 216-219).        *)
THEOREM CrashNeedsLate == Spec => []CrashNeedsLateResult
<1>1. PlayInv => CrashNeedsLateResult
  BY DEF PlayInv
<1> QED BY <1>1, PlayInvariant, PTL

(* Every open connection to the camera is played or its result is still to  *)
(* come (MjpegView 185-191).                                                *)
THEOREM StreamsKnown == Spec => []StreamsAccounted
<1>1. PlayInv => StreamsAccounted
  BY DEF PlayInv
<1> QED BY <1>1, PlayInvariant, PTL

(* Nothing plays while the button says off, nor in an activity that is gone *)
(* (DroneViewActivity 150-163, 509-534).                                    *)
THEOREM PlaysWanted == Spec => []PlaysOnlyWanted
<1>1. PlayInv => PlaysOnlyWanted
  BY DEF PlayInv, RenderKnown, OneAtATime, PlaysOnlyWanted
<1> QED BY <1>1, PlayInvariant, PTL
=============================================================================
