---------------------------- MODULE DroneServer ----------------------------
(***************************************************************************)
(* The flight server of the drone (server.py): one main thread that        *)
(* receives datagrams and drives the servos, and the threads it starts:    *)
(* ping threads that watch the client, low-voltage guards that watch the   *)
(* battery, and descents ("emergency down-throttling") that either kind    *)
(* starts.  All of them share the globals closed, awaiting, emergency and  *)
(* lastThrottleValue without a lock, so a step here is one access to that  *)
(* shared state together with the thread-local work around it.             *)
(*                                                                         *)
(* The client and the network are the environment: a receive may deliver   *)
(* any datagram at any time, also one that cannot be decoded, and a send   *)
(* may fail.  Where the code does not catch the exception, the thread ends *)
(* with it, and with the main thread the whole program.                    *)
(***************************************************************************)
EXTENDS Integers, FiniteSets

CONSTANTS
    Pins,           \* the servos
    Commands,       \* the commands a client sends: a pin and a percentage per field
    PingThreads,    \* ping thread identities, reused (bounds how many live at once)
    GuardThreads    \* guard thread identities, reused (bounds how many live at once)

Fields == 0..3      \* the position of a value in "pin=v%,pin=v%,pin=v%,pin=v%"
Throttle == 0       \* values[0] is the throttle
Percent == 0..999    \* one to three digits
PinValue == [pin : Pins, val : Percent]
throttleEmergencyMinVal == 25
EmergencyStep == 5

Starters == PingThreads \cup GuardThreads   \* the threads that start descents

ASSUME PinsAssumption == 0 \in Pins
ASSUME CommandsAssumption == Commands \subseteq [Fields -> PinValue]
ASSUME ThreadsAssumption == PingThreads \cap GuardThreads = {}

VARIABLES
    main,               \* where the main thread is
    values,             \* the command the main thread received last
    next,               \* which of its values it writes next
    closed, awaiting, emergency, lastThrottleValue,   \* the globals
    servo,              \* what /dev/servoblaster was told last, per pin
    led,                \* GPIO 20, lit while the battery is guarded
    ping,               \* where each ping thread is ("idle": no such thread)
    guard,              \* where each guard thread is
    descent,            \* where the descent is that this starter launched
    throttlePin, throttleVal,   \* the locals of that descent
    lowered,            \* history: a descent wrote the throttle after the last
                        \* command did
    lost                \* history: how the program lost the thread that would ping
                        \* the client, since one held pingPort

mainVars == <<main, values, next>>
globals == <<closed, awaiting, emergency, lastThrottleValue>>
devices == <<servo, led, lowered>>
descentVars == <<descent, throttlePin, throttleVal>>
threads == <<ping, lost, guard, descentVars>>
vars == <<mainVars, globals, devices, threads>>

MainStates == {"top", "accept", "open", "startPing", "startGuard", "await",
               "recv", "close", "reopen", "restart", "write", "record", "dead"}
PingStates == {"idle", "bind", "check", "sleep", "wait", "launch", "closing"}
WatchStates == {"bind", "check", "sleep", "wait"}
PortStates == {"check", "sleep", "wait", "launch", "closing"}
GuardStates == {"idle", "start", "poll"}
DescentStates == {"idle", "read", "step"}

\* Its bind lost to a thread that had already decided to stop; or it died of a reply.
Losses == {"no", "refused", "undecodable"}

NoValue == [pin |-> 0, val |-> 0]       \* '0=0%'

TypeOK ==
    /\ main \in MainStates
    /\ values \in [Fields -> PinValue]
    /\ next \in Fields
    /\ closed \in BOOLEAN /\ awaiting \in BOOLEAN /\ emergency \in BOOLEAN
    /\ lastThrottleValue \in PinValue
    /\ servo \in [Pins -> Percent]
    /\ led \in BOOLEAN /\ lowered \in BOOLEAN
    /\ ping \in [PingThreads -> PingStates]
    /\ guard \in [GuardThreads -> GuardStates]
    /\ descent \in [Starters -> DescentStates]
    /\ throttlePin \in [Starters -> Pins] /\ throttleVal \in [Starters -> Percent]
    /\ lost \in Losses

Init ==
    /\ main = "top"
    /\ values = [f \in Fields |-> NoValue] /\ next = 0
    /\ closed = FALSE /\ awaiting = FALSE /\ emergency = FALSE
    /\ lastThrottleValue = NoValue
    /\ servo = [p \in Pins |-> 0]
    /\ led = FALSE /\ lowered = FALSE
    /\ ping = [p \in PingThreads |-> "idle"]
    /\ guard = [g \in GuardThreads |-> "idle"]
    /\ descent = [t \in Starters |-> "idle"]
    /\ throttlePin = [t \in Starters |-> 0] /\ throttleVal = [t \in Starters |-> 0]
    /\ lost = "no"

-----------------------------------------------------------------------------
(* Helpers *)

Goto(from, to) == main = from /\ main' = to
MainStep(from, to) == Goto(from, to) /\ UNCHANGED <<values, next, devices, threads>>

PingGoto(p, from, to) == ping[p] = from /\ ping' = [ping EXCEPT ![p] = to]
PingStep(p, from, to) ==
    PingGoto(p, from, to) /\ UNCHANGED <<mainVars, devices, guard, lost>>

\* pingPort is taken: a ping thread holds the socket bound to it.
PortHolders == {p \in PingThreads : ping[p] \in PortStates}

Watching == \E p \in PingThreads : ping[p] \in WatchStates

\* thread.start_new_thread(emergencyDownThrottling, ...), by the thread t
StartDescent(t) ==
    /\ descent[t] = "idle"
    /\ descent' = [descent EXCEPT ![t] = "read"]
    /\ UNCHANGED <<throttlePin, throttleVal>>

Descending == \E t \in Starters : descent[t] # "idle"

-----------------------------------------------------------------------------
(* The main thread, outside a session *)

\* The loop spins while an emergency is on, and otherwise blocks in recvfrom.
MainTop == MainStep("top", "accept") /\ ~emergency /\ UNCHANGED globals

\* The version string: VERSION MATCH is sent and a session opens.
MainAccept == MainStep("accept", "open") /\ UNCHANGED globals

\* Anything else: VERSION MISMATCH is sent.
MainMismatch == MainStep("accept", "top") /\ UNCHANGED globals

SetClosed(b) == closed' = b /\ UNCHANGED <<awaiting, emergency, lastThrottleValue>>

MainOpen == MainStep("open", "startPing") /\ SetClosed(FALSE)

\* A new ping thread, on the first connection and on a reconnection.
StartPing(from, to) ==
    /\ Goto(from, to)
    /\ \E p \in PingThreads : descent[p] = "idle" /\ PingGoto(p, "idle", "bind")
    /\ UNCHANGED <<values, next, globals, devices, guard, descentVars, lost>>

MainStartPing == StartPing("startPing", "startGuard")

FreeGuards == {g \in GuardThreads : guard[g] = "idle" /\ descent[g] = "idle"}

\* A new guard for every session.  Guards outlive their session, so a long
\* run would need any number of them: once GuardThreads are in use the bound
\* leaves the extra one out.
MainStartGuard ==
    /\ Goto("startGuard", "await")
    /\ IF FreeGuards = {}
         THEN guard' = guard
         ELSE \E g \in FreeGuards : guard' = [guard EXCEPT ![g] = "start"]
    /\ UNCHANGED <<values, next, globals, devices, ping, lost, descentVars>>

-----------------------------------------------------------------------------
(* The main thread, inside a session *)

SetAwaiting(b) == awaiting' = b /\ UNCHANGED <<closed, emergency, lastThrottleValue>>

MainAwait == MainStep("await", "recv") /\ SetAwaiting(TRUE)

\* A datagram that arrives during an emergency is skipped; awaiting stays set.
MainSkip == MainStep("recv", "await") /\ emergency /\ UNCHANGED globals

\* Otherwise it is taken.  The version string means that the client reconnected;
\* what matches nothing is dropped without an answer.
Take(to) == MainStep("recv", to) /\ ~emergency /\ SetAwaiting(FALSE)
MainTakeClose == Take("close")
MainTakeVersion == Take("reopen")
MainTakeOther == Take("await")

\* Four "pin=v%" values, as the regular expression asks for
MainTakeValues(c) ==
    /\ Goto("recv", "write")
    /\ ~emergency
    /\ SetAwaiting(FALSE)
    /\ values' = c /\ next' = 0
    /\ UNCHANGED <<devices, threads>>

\* CONN_CLOSE leaves the inner loop; the servos keep their last values.
MainClose == MainStep("close", "top") /\ SetClosed(TRUE)

MainReopen == MainStep("reopen", "restart") /\ SetClosed(FALSE)
MainRestart == StartPing("restart", "await")

\* One echo to /dev/servoblaster per value, throttle first.
MainWrite ==
    /\ main = "write"
    /\ servo' = [servo EXCEPT ![values[next].pin] = values[next].val]
    /\ lowered' = IF next = Throttle THEN FALSE ELSE lowered
    /\ IF next = 3
         THEN main' = "record" /\ next' = 0
         ELSE main' = main /\ next' = next + 1
    /\ UNCHANGED <<values, globals, led, threads>>

\* Mutant: the throttle is not recorded.
MainRecordNothing == MainStep("record", "await") /\ UNCHANGED globals

\* lastThrottleValue is set after all four writes; then RECV_OK is sent.
MainRecord ==
    /\ MainStep("record", "await")
    /\ lastThrottleValue' = values[Throttle]
    /\ UNCHANGED <<closed, awaiting, emergency>>

\* An exception that nothing catches: the datagram cannot be decoded (124, 141), or
\* the answer cannot be sent (127, 151, 162, 164).  The program ends with its main
\* thread.  The servos keep what they were told, and the LED stays as it is.
MainDies ==
    /\ main \in {"accept", "recv", "restart", "record"} /\ (main = "recv" => ~emergency)
    /\ main' = "dead"
    /\ ping' = [p \in PingThreads |-> "idle"]
    /\ guard' = [g \in GuardThreads |-> "idle"]
    /\ descent' = [t \in Starters |-> "idle"]
    /\ throttlePin' = [t \in Starters |-> 0] /\ throttleVal' = [t \in Starters |-> 0]
    /\ UNCHANGED <<values, next, globals, devices, lost>>

-----------------------------------------------------------------------------
(* A ping thread *)

\* bind succeeds, or fails while another ping thread holds pingPort: then
\* the new thread exits.
PingBind(p) ==
    /\ IF PortHolders = {}
         THEN PingGoto(p, "bind", "check") /\ lost' = "no"
         ELSE /\ PingGoto(p, "bind", "idle")
              /\ lost' = IF \A q \in PortHolders : ping[q] \in {"launch", "closing"}
                           THEN "refused" ELSE "no"
    /\ UNCHANGED <<mainVars, globals, devices, guard, descentVars>>

PingMove(p, from, to) == PingStep(p, from, to) /\ UNCHANGED <<globals, descentVars>>

\* Mutant: the loop never looks at closed.
PingCheckForever(p) == PingMove(p, "check", "sleep")

\* The head of the loop: a closed connection ends the thread.
PingCheck(p) == PingMove(p, "check", IF closed THEN "closing" ELSE "sleep")

\* After the sleep: PING? is sent if the main thread awaits a datagram.
PingSend(p) == PingMove(p, "sleep", IF awaiting THEN "wait" ELSE "check")

PingReply(p) == PingMove(p, "wait", "check")     \* PONG! in time

\* Mutant: the connection is left open.
RaiseLeavesOpen(p, from) ==
    /\ PingStep(p, from, "launch")
    /\ emergency' = TRUE
    /\ UNCHANGED <<closed, awaiting, lastThrottleValue, descentVars>>

\* A wrong reply, a timeout, or an error of sendto: emergency and closed are
\* set.  No thread reads both of them, so the two assignments are one step.
Raise(p, from) ==
    /\ PingStep(p, from, "launch")
    /\ emergency' = TRUE /\ closed' = TRUE
    /\ UNCHANGED <<awaiting, lastThrottleValue, descentVars>>

\* Mutant: after a timeout the client is pinged again.
PingRetry(p) == PingMove(p, "wait", "sleep")

\* A reply that is not ASCII: decode raises what only the end of the thread handles.
\* Its socket goes with it; emergency and closed are not set.
PingUndecodable(p) ==
    /\ PingGoto(p, "wait", "idle")
    /\ lost' = "undecodable"
    /\ UNCHANGED <<mainVars, globals, devices, guard, descentVars>>

PingMismatch(p) == Raise(p, "wait")     \* any other reply that is not PONG!
PingTimeout(p) == Raise(p, "wait")
PingSendError(p) == awaiting /\ Raise(p, "sleep")

\* Mutant: the raising thread only closes its socket.
PingLaunchNothing(p) == PingMove(p, "launch", "closing")

\* The raising thread starts a descent before it closes its socket.
PingLaunch(p) == PingStep(p, "launch", "closing") /\ StartDescent(p) /\ UNCHANGED globals

PingClose(p) == PingMove(p, "closing", "idle")

-----------------------------------------------------------------------------
(* A low-voltage guard *)

GuardGoto(g, from, to) ==
    /\ guard[g] = from /\ guard' = [guard EXCEPT ![g] = to]
    /\ UNCHANGED <<mainVars, globals, servo, lowered, ping, lost>>

GuardStart(g) == GuardGoto(g, "start", "poll") /\ led' = TRUE /\ UNCHANGED descentVars

\* Mutant: the LED stays lit.
GuardLowLit(g) == GuardGoto(g, "poll", "idle") /\ StartDescent(g) /\ UNCHANGED led

\* The pin reads low: the guard starts a descent and ends.  It sets neither
\* emergency nor closed.  A high reading changes nothing.
GuardLow(g) == GuardGoto(g, "poll", "idle") /\ StartDescent(g) /\ led' = FALSE

-----------------------------------------------------------------------------
(* A descent, started by t *)

DescentGoto(t, from, to) ==
    /\ descent[t] = from /\ descent' = [descent EXCEPT ![t] = to]
    /\ UNCHANGED <<mainVars, closed, awaiting, lastThrottleValue, led, ping, lost, guard>>

DescentRead(t) ==
    /\ DescentGoto(t, "read", "step")
    /\ throttlePin' = [throttlePin EXCEPT ![t] = lastThrottleValue.pin]
    /\ throttleVal' = [throttleVal EXCEPT ![t] = lastThrottleValue.val]
    /\ UNCHANGED <<emergency, servo, lowered>>

\* Mutant: the descent does not stop at throttleEmergencyMinVal.
DescentStepOn(t) ==
    /\ DescentGoto(t, "step", "step")
    /\ throttleVal' = [throttleVal EXCEPT ![t] = @ - EmergencyStep]
    /\ servo' = [servo EXCEPT ![throttlePin[t]] = throttleVal[t] - EmergencyStep]
    /\ lowered' = TRUE
    /\ UNCHANGED <<emergency, throttlePin>>

DescentStep(t) ==
    /\ DescentGoto(t, "step", "step")
    /\ throttleVal[t] > throttleEmergencyMinVal
    /\ throttleVal' = [throttleVal EXCEPT ![t] = @ - EmergencyStep]
    /\ servo' = [servo EXCEPT ![throttlePin[t]] = throttleVal[t] - EmergencyStep]
    /\ lowered' = TRUE
    /\ UNCHANGED <<emergency, throttlePin>>

\* Mutant: the descent ends without clearing emergency.
DescentEndSilent(t) ==
    /\ DescentGoto(t, "step", "idle")
    /\ throttleVal[t] <= throttleEmergencyMinVal
    /\ throttlePin' = [throttlePin EXCEPT ![t] = 0]
    /\ throttleVal' = [throttleVal EXCEPT ![t] = 0]
    /\ UNCHANGED <<emergency, servo, lowered>>

DescentEnd(t) ==
    /\ DescentGoto(t, "step", "idle")
    /\ throttleVal[t] <= throttleEmergencyMinVal
    /\ throttlePin' = [throttlePin EXCEPT ![t] = 0]   \* the locals are gone
    /\ throttleVal' = [throttleVal EXCEPT ![t] = 0]
    /\ emergency' = FALSE
    /\ UNCHANGED <<servo, lowered>>

-----------------------------------------------------------------------------
Receive == MainAccept \/ MainMismatch \/ MainSkip \/ MainTakeClose \/ MainTakeVersion
           \/ MainTakeOther \/ \E c \in Commands : MainTakeValues(c)

MainInternal == MainTop \/ MainOpen \/ MainStartPing \/ MainStartGuard \/ MainAwait
                \/ MainClose \/ MainReopen \/ MainRestart \/ MainWrite \/ MainRecord

PingInternal(p) == PingBind(p) \/ PingCheck(p) \/ PingSend(p) \/ PingTimeout(p)
                   \/ PingLaunch(p) \/ PingClose(p)

PingThread(p) == PingInternal(p) \/ PingReply(p) \/ PingMismatch(p) \/ PingUndecodable(p)
                 \/ PingSendError(p)

GuardThread(g) == GuardStart(g) \/ GuardLow(g)

DescentThread(t) == DescentRead(t) \/ DescentStep(t) \/ DescentEnd(t)

\* A program that has ended stays so.
Terminated == main = "dead" /\ UNCHANGED vars

Next ==
    \/ Receive
    \/ MainInternal
    \/ MainDies
    \/ \E p \in PingThreads : PingThread(p)
    \/ \E g \in GuardThreads : GuardThread(g)
    \/ \E t \in Starters : DescentThread(t)
    \/ Terminated

Spec == Init /\ [][Next]_vars

\* Threads that can run do run, a wait for PONG! times out, and nothing obliges
\* a client to send anything or the battery to be low.
Fairness ==
    /\ WF_vars(MainInternal)
    /\ \A p \in PingThreads : WF_vars(PingInternal(p))
    /\ \A g \in GuardThreads : WF_vars(GuardStart(g))
    /\ \A t \in Starters : WF_vars(DescentThread(t))

FairSpec == Spec /\ Fairness

-----------------------------------------------------------------------------
(* Properties *)

\* Where the main thread accepts and applies commands.
Serving == main \in {"startGuard", "await", "recv", "close", "reopen", "restart",
                     "write", "record"}

\* An emergency, during which the server drops every datagram, always has a
\* thread that will end it: a ping thread about to start a descent, or a
\* descent (only emergencyDownThrottling clears the flag, server.py:46), as long as
\* the program runs.
EmergencyHasOwner ==
    emergency /\ main # "dead" => Descending \/ \E p \in PingThreads : ping[p] = "launch"

\* An open session has a thread that pings its client, or is about to get
\* one, unless it was lost in one of two ways: the bind of the ping thread lost
\* to one that had already decided to stop (server.py:62-64 against 68-70 and
\* 85-98), or the ping thread died of a reply that is not ASCII (80).
WatchedUnlessLost ==
    Serving /\ ~closed /\ lost = "no" => Watching \/ main = "restart"

\* The LED tells the truth: while it is lit some guard watches the battery,
\* however many sessions and guards came and went (server.py:49-54, 130), until
\* the program ends without putting it out.
LedMeansGuarded == led /\ main # "dead" => \E g \in GuardThreads : guard[g] = "poll"

\* No later field of a command names the pin of its throttle again.
PinsApart(command) == \A f \in Fields \ {Throttle} : command[f].pin # command[Throttle].pin

\* What a descent starts from is what the servo of the throttle was told, as long
\* as no command is half applied, no descent wrote since the last command did, and
\* that command did not write the pin of the throttle twice, which the regular
\* expression accepts (server.py:35 reads what 160 recorded, the first of the four
\* values; 42 records nothing; 113, 157-159).
RecordIsCurrent ==
    main \notin {"write", "record", "dead"} /\ ~lowered /\ PinsApart(values)
        => servo[lastThrottleValue.pin] = lastThrottleValue.val

\* Every emergency ends, so the server does not stay deaf (server.py:117, 136),
\* unless the whole program ends.
EmergencyEnds == emergency ~> (~emergency \/ main = "dead")

\* A closed connection frees pingPort or is reopened: no ping thread outlives
\* it for good (server.py:65-70).
PortReleased == closed ~> (~closed \/ PortHolders = {})

\* A client that sends nothing any more, neither commands nor replies, does not
\* keep a session open: it is closed, or its ping thread was lost before, in one
\* of the two ways above.
ClientSends == Receive \/ \E p \in PingThreads : PingReply(p) \/ PingUndecodable(p)
SilenceCloses ==
    <>[][~ClientSends]_vars => <>[](Serving => closed \/ lost # "no")

\* Comment at server.py:135: a value that arrives while the descent of a ping
\* emergency runs is skipped.
NoValueWhileDescending ==
    [][main = "recv" /\ main' = "write" => \A p \in PingThreads : descent[p] = "idle"]_vars

\* "Down-throttling" (server.py:31, 41): no step of a descent raises the throttle.
DescentNeverRaises ==
    [][\A t \in Starters :
         DescentStep(t) => servo'[throttlePin[t]] <= servo[throttlePin[t]]]_vars
=============================================================================
