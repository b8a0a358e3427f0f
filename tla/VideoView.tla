----------------------------- MODULE VideoView -----------------------------
(***************************************************************************)
(* The camera picture in the Android application: the stream button and    *)
(* the activity callbacks of DroneViewActivity, the request of DoRead, and *)
(* MjpegView with the render thread that reads frames from the stream      *)
(* (MjpegInputStream) and draws them on the surface.                       *)
(*                                                                         *)
(* The UI thread runs one handler at a time; the only place where it waits *)
(* is the join in stopPlayback.  What is in a frame is left out: it can be *)
(* read, fail with an IOException, or be one that cannot be decoded.       *)
(***************************************************************************)
EXTENDS Integers, Sequences

CONSTANTS
    Streams,        \* identities of MjpegInputStream objects, reused when closed
    NoStream,       \* null
    MaxRequests     \* bound: requests under way, and results not yet handled

ASSUME StreamsAssumption == NoStream \notin Streams
ASSUME RequestsAssumption == MaxRequests \in Nat

VARIABLES
    activity,       \* the activity is resumed, paused, stopped or destroyed
    surface,        \* the surface exists
    ui,             \* the handler in which the UI thread waits for the render thread
    streamRunning,  \* what the stream button thinks
    viewSet,        \* mjpegView # null
    requests,       \* DoRead tasks not finished
    results,        \* their streams, for onPostExecute
    open,           \* the streams that are open
    mIn, mRun, surfaceDone,
    thread,         \* the field thread: null, a thread not started, or a started one
    render,         \* where the started thread is
    crashed,        \* the uncaught exception that ended the application
    late            \* history: playback was stopped while a request was under way

activityVars == <<activity, surface, streamRunning, viewSet>>
requestVars == <<requests, results>>
viewVars == <<mIn, mRun, surfaceDone, thread>>
vars == <<activityVars, ui, requestVars, open, viewVars, render, crashed, late>>

Handlers == {"button", "pause", "stop", "destroy", "surface"}

TypeOK ==
    /\ activity \in {"resumed", "paused", "stopped", "destroyed"}
    /\ surface \in BOOLEAN /\ ui \in Handlers \cup {"idle"}
    /\ streamRunning \in BOOLEAN /\ viewSet \in BOOLEAN
    /\ requests \in 0..MaxRequests
    /\ results \in Seq(Streams \cup {NoStream}) /\ Len(results) <= MaxRequests
    /\ open \subseteq Streams /\ mIn \in Streams \cup {NoStream}
    /\ mRun \in BOOLEAN /\ surfaceDone \in BOOLEAN
    /\ thread \in {"null", "new", "started"}
    /\ render \in {"off", "top", "lock", "read", "draw"}
    /\ crashed \in {"no", "startedTwice", "nullStream", "badFrame"}
    /\ late \in BOOLEAN

Init ==
    /\ activity = "resumed" /\ surface = FALSE /\ ui = "idle"
    /\ streamRunning = FALSE /\ viewSet = FALSE
    /\ requests = 0 /\ results = <<>> /\ open = {}
    /\ mIn = NoStream /\ mRun = FALSE /\ surfaceDone = FALSE
    /\ thread = "new" /\ render = "off"
    /\ crashed = "no" /\ late = FALSE

Alive == crashed = "no"
Ready == Alive /\ ui = "idle"

-----------------------------------------------------------------------------
(* stopPlayback *)

\* Mutant: the thread is not told to end.
StopPlaybackDeaf(handler) ==
    /\ late' = (late \/ requests > 0 \/ results # <<>>)
    /\ ui' = handler
    /\ mRun' = mRun

\* The render thread is told to end, and the handler goes on to join it.
StopPlayback(handler) ==
    /\ late' = (late \/ requests > 0 \/ results # <<>>)
    /\ ui' = handler
    /\ mRun' = FALSE

\* Mutant: the stream is not closed.
JoinedOpen ==
    /\ Alive /\ ui # "idle" /\ ui' = "idle"
    /\ thread = "started" => render = "off"
    /\ thread' = "null"
    /\ mIn' = NoStream
    /\ streamRunning' = (streamRunning /\ ui # "button")
    /\ surface' = (surface /\ ui # "surface")
    /\ UNCHANGED <<activity, viewSet, requestVars, mRun, surfaceDone, open, render, crashed, late>>

\* Mutant: the field keeps the thread.
JoinedKept ==
    /\ Alive /\ ui # "idle" /\ ui' = "idle"
    /\ thread = "started" => render = "off"
    /\ open' = open \ {mIn} /\ mIn' = NoStream
    /\ streamRunning' = (streamRunning /\ ui # "button")
    /\ surface' = (surface /\ ui # "surface")
    /\ UNCHANGED <<activity, viewSet, requestVars, mRun, surfaceDone, thread, render, crashed, late>>

\* join returns at once for a thread that was never started.  The stream is
\* closed and the handler ends; a surface is gone when its callback has returned.
Joined ==
    /\ Alive /\ ui # "idle" /\ ui' = "idle"
    /\ thread = "started" => render = "off"
    /\ thread' = "null"
    /\ open' = open \ {mIn} /\ mIn' = NoStream
    /\ streamRunning' = (streamRunning /\ ui # "button")
    /\ surface' = (surface /\ ui # "surface")
    /\ UNCHANGED <<activity, viewSet, requestVars, mRun, surfaceDone, render, crashed, late>>

-----------------------------------------------------------------------------
(* The UI thread *)

\* Mutant: one press asks twice.
StreamOnTwice ==
    /\ Ready /\ activity = "resumed" /\ ~streamRunning
    /\ requests < MaxRequests
    /\ requests' = requests + 2
    /\ streamRunning' = TRUE /\ viewSet' = TRUE
    /\ UNCHANGED <<activity, surface, ui, results, open, viewVars, render, crashed, late>>

StreamOn ==
    /\ Ready /\ activity = "resumed" /\ ~streamRunning
    /\ requests < MaxRequests
    /\ requests' = requests + 1
    /\ streamRunning' = TRUE /\ viewSet' = TRUE
    /\ UNCHANGED <<activity, surface, ui, results, open, viewVars, render, crashed, late>>

\* Mutant: the button only changes its mind.
StreamOffOnly ==
    /\ Ready /\ activity = "resumed" /\ streamRunning
    /\ streamRunning' = FALSE
    /\ late' = (late \/ requests > 0 \/ results # <<>>)
    /\ UNCHANGED <<activity, surface, ui, viewSet, requestVars, open, viewVars, render, crashed>>

StreamOff ==
    /\ Ready /\ activity = "resumed" /\ streamRunning
    /\ StopPlayback("button")
    /\ UNCHANGED <<activityVars, requestVars, open, mIn, surfaceDone, thread, render, crashed>>

\* onPause, onStop and onDestroy stop the playback, once there is a view.
Leave(from, to, handler) ==
    /\ Ready /\ activity = from /\ activity' = to
    /\ IF viewSet THEN StopPlayback(handler) ELSE UNCHANGED <<ui, mRun, late>>
    /\ UNCHANGED <<surface, streamRunning, viewSet, requestVars, open, mIn, surfaceDone, thread,
                   render, crashed>>

Pause == Leave("resumed", "paused", "pause")
Stop == Leave("paused", "stopped", "stop")
Destroy == Leave("stopped", "destroyed", "destroy")

Resume ==
    /\ Ready /\ activity \in {"paused", "stopped"} /\ activity' = "resumed"
    /\ UNCHANGED <<surface, ui, streamRunning, viewSet, requestVars, open, viewVars, render,
                   crashed, late>>

SurfaceCreated ==
    /\ Ready /\ activity = "resumed" /\ ~surface
    /\ surface' = TRUE /\ surfaceDone' = TRUE
    /\ UNCHANGED <<activity, ui, streamRunning, viewSet, requestVars, open, mIn, mRun, thread,
                   render, crashed, late>>

\* Mutant: the surface goes without waiting for the thread.
SurfaceDestroyedAtOnce ==
    /\ Ready /\ activity # "resumed" /\ surface
    /\ surface' = FALSE /\ surfaceDone' = FALSE
    /\ UNCHANGED <<activity, ui, streamRunning, viewSet, requestVars, open, mIn, mRun, thread,
                   render, crashed, late>>

SurfaceDestroyed ==
    /\ Ready /\ activity # "resumed" /\ surface
    /\ surfaceDone' = FALSE
    /\ StopPlayback("surface")
    /\ UNCHANGED <<activityVars, requestVars, open, mIn, thread, render, crashed>>

\* The request of DoRead ends with a stream, or with null after an error.
ReadDone ==
    /\ Alive /\ requests > 0 /\ requests' = requests - 1
    /\ Len(results) < MaxRequests
    /\ \/ \E s \in Streams \ open :
            /\ s # mIn
            /\ results' = Append(results, s) /\ open' = open \cup {s}
       \/ results' = Append(results, NoStream) /\ UNCHANGED open
    /\ UNCHANGED <<activityVars, ui, viewVars, render, crashed, late>>

\* onPostExecute: setSource and startPlayback.  A thread starts only once.
SetSource ==
    /\ Ready /\ results # <<>> /\ results' = Tail(results)
    /\ mIn' = Head(results)
    /\ IF Head(results) = NoStream
         THEN UNCHANGED <<mRun, thread, render, crashed>>
         ELSE /\ mRun' = TRUE /\ thread' = "started"
              /\ IF thread = "started"
                   THEN crashed' = "startedTwice" /\ UNCHANGED render
                   ELSE crashed' = crashed /\ render' = "top"
    /\ UNCHANGED <<activityVars, ui, requests, open, surfaceDone, late>>

-----------------------------------------------------------------------------
(* The render thread *)

RenderGoto(from, to) ==
    /\ Alive /\ render = from /\ render' = to
    /\ UNCHANGED <<activityVars, ui, requestVars, open, viewVars, late>>

\* while (mRun) { if (surfaceDone) ...
RenderTop ==
    /\ RenderGoto("top", IF ~mRun THEN "off" ELSE IF surfaceDone THEN "lock" ELSE "top")
    /\ UNCHANGED crashed

\* lockCanvas and the monitor; then readMjpegFrame of whatever mIn is by then
RenderLock ==
    /\ RenderGoto("lock", "read")
    /\ crashed' = IF mIn = NoStream THEN "nullStream" ELSE crashed

\* A frame has come.  One without its markers, or that cannot be decoded, ends in
\* an exception that nobody catches.
ReadFrame ==
    /\ RenderGoto("read", "draw")
    /\ crashed' \in {crashed, "badFrame"}

\* An IOException: the canvas is posted as it is, and the loop goes on.
ReadFails == RenderGoto("read", "top") /\ UNCHANGED crashed

RenderDraw == RenderGoto("draw", "top") /\ UNCHANGED crashed

-----------------------------------------------------------------------------
UserStep == StreamOn \/ StreamOff \/ Pause \/ Stop \/ Destroy \/ Resume

SurfaceStep == SurfaceCreated \/ SurfaceDestroyed

RenderStep == RenderTop \/ RenderLock \/ RenderDraw

Next ==
    \/ UserStep \/ SurfaceStep
    \/ Joined \/ ReadDone \/ SetSource
    \/ RenderStep \/ ReadFrame \/ ReadFails

Spec == Init /\ [][Next]_vars

\* The UI thread and the render thread run; nothing obliges the camera to send.
FairSpec == Spec /\ WF_vars(Joined) /\ WF_vars(SetSource) /\ WF_vars(RenderStep)

-----------------------------------------------------------------------------
(* Properties *)

\* The canvas is only used while its surface exists: surfaceDestroyed returns
\* after the render thread has ended (MjpegView 110-137, 172-184, 201-204).
SurfaceOutlivesDrawing == render \in {"lock", "read", "draw"} => surface

\* Starting, stopping, leaving and coming back in any order never start a thread
\* twice nor take the stream from under it, as long as no stop overtakes a request
\* (DroneViewActivity 150-163, 509-534; MjpegView 160-192, 216-219).
CrashNeedsLateResult == crashed \in {"no", "badFrame"} \/ late

\* No connection to the camera is left open: each is played, or its result is
\* still to come (MjpegView 185-191).
StreamsAccounted ==
    ~late => \A s \in open : s = mIn \/ \E i \in DOMAIN results : results[i] = s

\* While the button says off nothing plays; neither in an activity that is gone.
PlaysOnlyWanted ==
    render # "off" /\ ~late => streamRunning /\ (activity # "resumed" => ui # "idle")

\* stopPlayback returns, or else the read it waits for never does: the stream is
\* only closed after the join (MjpegView 177-191).
StopReturns == ui # "idle" ~> (ui = "idle" \/ ~Alive \/ [](render = "read"))
=============================================================================
