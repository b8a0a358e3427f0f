------------------------- MODULE DroneServerProofs -------------------------
(***************************************************************************)
(* Proofs about DroneServer for every set of commands and any number of    *)
(* ping, guard and descent threads.                                        *)
(***************************************************************************)
EXTENDS DroneServer, TLAPS

(* Every global, local and thread counter of the server keeps its type: in  *)
(* particular no descent drives the throttle below zero.                    *)
THEOREM TypeCorrect == Spec => []TypeOK
<1>0. 0 \in Percent /\ 0 \in Fields /\ 0 \in Pins /\ NoValue \in PinValue
  BY PinsAssumption DEF Percent, Fields, PinValue, NoValue
<1>1. Init => TypeOK
  BY <1>0 DEF Init, TypeOK, MainStates, PingStates, GuardStates, DescentStates, Losses
<1>2. TypeOK /\ [Next]_vars => TypeOK'
  <2> SUFFICES ASSUME TypeOK, [Next]_vars PROVE TypeOK'
    OBVIOUS
  <2> USE DEF MainStep, Goto, SetClosed, SetAwaiting, PingStep, PingGoto, PingMove, GuardGoto,
              DescentGoto, mainVars, globals, devices, threads, descentVars
  <2> USE DEF TypeOK, MainStates, PingStates, GuardStates, DescentStates, Losses
  <2>1. ASSUME Receive PROVE TypeOK'
    <3>1. CASE MainAccept \/ MainMismatch \/ MainSkip
      BY <3>1 DEF MainAccept, MainMismatch, MainSkip
    <3>2. CASE MainTakeClose \/ MainTakeVersion \/ MainTakeOther
      BY <3>2 DEF MainTakeClose, MainTakeVersion, MainTakeOther, Take
    <3>3. ASSUME NEW c \in Commands, MainTakeValues(c) PROVE TypeOK'
      <4>1. c \in [Fields -> PinValue]
        BY CommandsAssumption
      <4> QED BY <1>0, <3>3, <4>1 DEF MainTakeValues, Take
    <3> QED BY <2>1, <3>1, <3>2, <3>3 DEF Receive
  <2>2. ASSUME MainInternal PROVE TypeOK'
    <3>1. CASE MainTop \/ MainOpen \/ MainAwait \/ MainClose \/ MainReopen
      BY <3>1 DEF MainTop, MainOpen, MainAwait, MainClose, MainReopen
    <3>2. CASE MainStartPing \/ MainRestart
      BY <3>2 DEF MainStartPing, MainRestart, StartPing
    <3>3. CASE MainStartGuard
      BY <3>3 DEF MainStartGuard, FreeGuards
    <3>4. CASE MainWrite
      <4>1. servo' \in [Pins -> Percent]
        BY <3>4 DEF MainWrite, PinValue
      <4>3. next' \in Fields
        BY <3>4 DEF MainWrite, Fields
      <4>2. lowered' \in BOOLEAN
        BY <3>4 DEF MainWrite
      <4> QED BY <3>4, <4>1, <4>2, <4>3 DEF MainWrite
    <3>5. CASE MainRecord
      BY <3>5 DEF MainRecord, Fields, Throttle
    <3> QED BY <2>2, <3>1, <3>2, <3>3, <3>4, <3>5 DEF MainInternal
  <2>3. ASSUME NEW p \in PingThreads, PingThread(p) PROVE TypeOK'
    <3>1. CASE PingBind(p)
      BY <3>1 DEF PingBind
    <3>2. CASE PingCheck(p) \/ PingSend(p) \/ PingReply(p) \/ PingUndecodable(p) \/ PingClose(p)
      BY <3>2 DEF PingCheck, PingSend, PingReply, PingUndecodable, PingClose
    <3>3. CASE PingTimeout(p) \/ PingMismatch(p) \/ PingSendError(p)
      BY <3>3 DEF PingTimeout, PingMismatch, PingSendError, Raise
    <3>4. CASE PingLaunch(p)
      BY <3>4 DEF PingLaunch, StartDescent
    <3> QED BY <2>3, <3>1, <3>2, <3>3, <3>4 DEF PingThread, PingInternal
  <2>4. ASSUME NEW g \in GuardThreads, GuardThread(g) PROVE TypeOK'
    <3>1. CASE GuardStart(g)
      BY <3>1 DEF GuardStart
    <3>2. CASE GuardLow(g)
      <4>1. descent' \in [Starters -> DescentStates]
        BY <3>2 DEF GuardLow, StartDescent
      <4>2. guard' \in [GuardThreads -> GuardStates] /\ led' \in BOOLEAN
        BY <3>2 DEF GuardLow
      <4>3. UNCHANGED <<mainVars, globals, servo, lowered, ping, lost, throttlePin, throttleVal>>
        BY <3>2 DEF GuardLow, StartDescent
      <4> QED BY <4>1, <4>2, <4>3
    <3> QED BY <2>4, <3>1, <3>2 DEF GuardThread
  <2>5. ASSUME NEW t \in Starters, DescentThread(t) PROVE TypeOK'
    <3>1. CASE DescentRead(t)
      BY <3>1 DEF DescentRead, PinValue
    <3>2. CASE DescentStep(t)
      <4>1. throttleVal[t] - EmergencyStep \in Percent
        BY <3>2 DEF DescentStep, Percent, throttleEmergencyMinVal, EmergencyStep
      <4> QED BY <3>2, <4>1 DEF DescentStep
    <3>3. CASE DescentEnd(t)
      BY <1>0, <3>3 DEF DescentEnd
    <3> QED BY <2>5, <3>1, <3>2, <3>3 DEF DescentThread
  <2>6. CASE UNCHANGED vars
    BY <2>6 DEF vars
  <2>7. CASE Terminated
    BY <2>7 DEF Terminated, vars
  <2>8. CASE MainDies
    BY <1>0, <2>8, PinsAssumption DEF MainDies
  <2> QED BY <2>1, <2>2, <2>3, <2>4, <2>5, <2>6, <2>7, <2>8 DEF Next
<1> QED BY <1>1, <1>2, PTL DEF Spec

-----------------------------------------------------------------------------
(* An emergency always has a thread that will end it: nobody but a ping     *)
(* thread about to launch sets the flag, and whoever ends a descent clears  *)
(* it (server.py:46, 85-98).                                                *)
THEOREM EmergencyOwned == Spec => []EmergencyHasOwner
<1>1. Init => EmergencyHasOwner
  BY DEF Init, EmergencyHasOwner
<1>2. TypeOK /\ EmergencyHasOwner /\ [Next]_vars => EmergencyHasOwner'
  <2> SUFFICES ASSUME TypeOK, EmergencyHasOwner, [Next]_vars PROVE EmergencyHasOwner'
    OBVIOUS
  <2> USE DEF MainStep, Goto, SetClosed, SetAwaiting, PingStep, PingGoto, PingMove, GuardGoto,
              DescentGoto, mainVars, globals, devices, threads, descentVars
  <2> USE DEF TypeOK, EmergencyHasOwner, Descending
  <2>1. ASSUME Receive PROVE EmergencyHasOwner'
    BY <2>1 DEF Receive, MainAccept, MainMismatch, MainSkip, MainTakeClose, MainTakeVersion,
                    MainTakeOther, MainTakeValues, Take
  <2>2. ASSUME MainInternal PROVE EmergencyHasOwner'
    <3>1. CASE MainStartPing \/ MainRestart
      BY <3>1 DEF MainStartPing, MainRestart, StartPing
    <3>2. CASE ~(MainStartPing \/ MainRestart)
      BY <2>2, <3>2 DEF MainInternal, MainTop, MainOpen, MainStartGuard, MainAwait,
                    MainClose, MainReopen, MainWrite, MainRecord
    <3> QED BY <3>1, <3>2
  <2>3. ASSUME NEW p \in PingThreads, PingThread(p) PROVE EmergencyHasOwner'
    <3>1. CASE PingBind(p) \/ PingCheck(p) \/ PingSend(p) \/ PingReply(p) \/ PingClose(p)
               \/ PingUndecodable(p)
      BY <3>1 DEF PingBind, PingCheck, PingSend, PingReply, PingClose, PingUndecodable
    <3>2. CASE PingTimeout(p) \/ PingMismatch(p) \/ PingSendError(p)
      BY <3>2 DEF PingTimeout, PingMismatch, PingSendError, Raise
    <3>3. CASE PingLaunch(p)
      BY <3>3 DEF PingLaunch, StartDescent, Starters
    <3> QED BY <2>3, <3>1, <3>2, <3>3 DEF PingThread, PingInternal
  <2>4. ASSUME NEW g \in GuardThreads, GuardThread(g) PROVE EmergencyHasOwner'
    BY <2>4 DEF GuardThread, GuardStart, GuardLow, StartDescent, Starters
  <2>5. ASSUME NEW t \in Starters, DescentThread(t) PROVE EmergencyHasOwner'
    BY <2>5 DEF DescentThread, DescentRead, DescentStep, DescentEnd
  <2>6. CASE UNCHANGED vars
    BY <2>6 DEF vars
  <2>7. CASE Terminated
    BY <2>7 DEF Terminated, vars
  <2>8. CASE MainDies
    BY <2>8 DEF MainDies
  <2> QED BY <2>1, <2>2, <2>3, <2>4, <2>5, <2>6, <2>7, <2>8 DEF Next
<1> QED BY <1>1, <1>2, TypeCorrect, PTL DEF Spec

-----------------------------------------------------------------------------
(* An open session is watched, or about to be, unless its ping thread lost  *)
(* pingPort to one that was already stopping (server.py:62-64) or died of a *)
(* reply it could not decode (80).                                          *)
THEOREM SessionWatched == Spec => []WatchedUnlessLost
<1> USE DEF WatchedUnlessLost, Serving, Watching, WatchStates
<1>1. Init => WatchedUnlessLost
  BY DEF Init
<1>2. TypeOK /\ WatchedUnlessLost /\ [Next]_vars => WatchedUnlessLost'
  <2> SUFFICES ASSUME TypeOK, WatchedUnlessLost, [Next]_vars PROVE WatchedUnlessLost'
    OBVIOUS
  <2> USE DEF MainStep, Goto, SetClosed, SetAwaiting, PingStep, PingGoto, PingMove, GuardGoto,
              DescentGoto, mainVars, globals, devices, threads, descentVars
  <2> USE DEF TypeOK
  <2>1. ASSUME Receive PROVE WatchedUnlessLost'
    BY <2>1 DEF Receive, MainAccept, MainMismatch, MainSkip, MainTakeClose, MainTakeVersion,
                    MainTakeOther, MainTakeValues, Take
  <2>2. ASSUME MainInternal PROVE WatchedUnlessLost'
    <3>1. CASE MainStartPing \/ MainRestart
      BY <3>1 DEF MainStartPing, MainRestart, StartPing
    <3>2. CASE ~(MainStartPing \/ MainRestart)
      BY <2>2, <3>2 DEF MainInternal, MainTop, MainOpen, MainStartGuard, MainAwait,
                    MainClose, MainReopen, MainWrite, MainRecord
    <3> QED BY <3>1, <3>2
  <2>3. ASSUME NEW p \in PingThreads, PingThread(p) PROVE WatchedUnlessLost'
    <3>1. CASE PingBind(p)
      <4>1. CASE PortHolders = {}
        BY <3>1, <4>1 DEF PingBind
      <4>2. CASE PortHolders # {} /\ lost' = "no"
        <5>1. PICK q \in PortHolders : ping[q] \notin {"launch", "closing"}
          BY <3>1, <4>2 DEF PingBind
        <5>2. q # p /\ ping[q] \in WatchStates /\ q \in PingThreads
          BY <3>1, <4>2, <5>1 DEF PortHolders, PortStates, PingBind
        <5>3. ping'[q] = ping[q]
          BY <3>1, <4>2, <5>2 DEF PingBind
        <5> QED BY <5>2, <5>3
      <4>3. CASE lost' # "no"
        BY <4>3
      <4> QED BY <4>1, <4>2, <4>3
    <3>2. CASE PingCheck(p)
      BY <3>2 DEF PingCheck
    <3>3. CASE PingSend(p) \/ PingReply(p) \/ PingLaunch(p) \/ PingClose(p)
      BY <3>3 DEF PingSend, PingReply, PingLaunch, PingClose
    <3>5. CASE PingUndecodable(p)
      BY <3>5 DEF PingUndecodable
    <3>4. CASE PingTimeout(p) \/ PingMismatch(p) \/ PingSendError(p)
      BY <3>4 DEF PingTimeout, PingMismatch, PingSendError, Raise
    <3> QED BY <2>3, <3>1, <3>2, <3>3, <3>4, <3>5 DEF PingThread, PingInternal
  <2>4. ASSUME NEW g \in GuardThreads, GuardThread(g) PROVE WatchedUnlessLost'
    BY <2>4 DEF GuardThread, GuardStart, GuardLow
  <2>5. ASSUME NEW t \in Starters, DescentThread(t) PROVE WatchedUnlessLost'
    BY <2>5 DEF DescentThread, DescentRead, DescentStep, DescentEnd
  <2>6. CASE UNCHANGED vars
    BY <2>6 DEF vars
  <2>7. CASE Terminated
    BY <2>7 DEF Terminated, vars
  <2>8. CASE MainDies
    BY <2>8 DEF MainDies
  <2> QED BY <2>1, <2>2, <2>3, <2>4, <2>5, <2>6, <2>7, <2>8 DEF Next
<1> QED BY <1>1, <1>2, TypeCorrect, PTL DEF Spec

-----------------------------------------------------------------------------
(* While the LED is lit some guard watches the battery, however many        *)
(* sessions started guards before (server.py:48-55, 130).                   *)
THEOREM LedHonest == Spec => []LedMeansGuarded
<1> USE DEF LedMeansGuarded
<1>1. Init => LedMeansGuarded
  BY DEF Init
<1>2. TypeOK /\ LedMeansGuarded /\ [Next]_vars => LedMeansGuarded'
  <2> SUFFICES ASSUME TypeOK, LedMeansGuarded, [Next]_vars PROVE LedMeansGuarded'
    OBVIOUS
  <2> USE DEF MainStep, Goto, SetClosed, SetAwaiting, PingStep, PingGoto, PingMove, GuardGoto,
              DescentGoto, mainVars, globals, devices, threads, descentVars
  <2> USE DEF TypeOK
  <2>1. ASSUME Receive PROVE LedMeansGuarded'
    BY <2>1 DEF Receive, MainAccept, MainMismatch, MainSkip, MainTakeClose, MainTakeVersion,
                    MainTakeOther, MainTakeValues, Take
  <2>2. ASSUME MainInternal PROVE LedMeansGuarded'
    <3>1. CASE MainStartGuard
      <4>1. led' = led /\ (led => \E g \in GuardThreads : guard[g] = "poll")
        BY <3>1 DEF MainStartGuard
      <4>2. ASSUME NEW g \in GuardThreads, guard[g] = "poll" PROVE guard'[g] = "poll"
        BY <3>1, <4>2 DEF MainStartGuard, FreeGuards
      <4> QED BY <4>1, <4>2
    <3>2. CASE ~MainStartGuard
      BY <2>2, <3>2 DEF MainInternal, MainTop, MainOpen, MainStartPing, MainRestart,
                    StartPing, MainAwait, MainClose, MainReopen, MainWrite, MainRecord
    <3> QED BY <3>1, <3>2
  <2>3. ASSUME NEW p \in PingThreads, PingThread(p) PROVE LedMeansGuarded'
    BY <2>3 DEF PingThread, PingInternal, PingBind, PingCheck, PingSend, PingReply,
                    PingTimeout, PingMismatch, PingSendError, Raise, PingLaunch, PingClose,
                    PingUndecodable
  <2>4. ASSUME NEW g \in GuardThreads, GuardThread(g) PROVE LedMeansGuarded'
    BY <2>4 DEF GuardThread, GuardStart, GuardLow
  <2>5. ASSUME NEW t \in Starters, DescentThread(t) PROVE LedMeansGuarded'
    BY <2>5 DEF DescentThread, DescentRead, DescentStep, DescentEnd
  <2>6. CASE UNCHANGED vars
    BY <2>6 DEF vars
  <2>7. CASE Terminated
    BY <2>7 DEF Terminated, vars
  <2>8. CASE MainDies
    BY <2>8 DEF MainDies
  <2> QED BY <2>1, <2>2, <2>3, <2>4, <2>5, <2>6, <2>7, <2>8 DEF Next
<1> QED BY <1>1, <1>2, TypeCorrect, PTL DEF Spec

-----------------------------------------------------------------------------
(* The throttle a descent starts from is the one its servo was told, unless *)
(* a command is half applied, the last command wrote the pin of its         *)
(* throttle twice, or an earlier descent wrote since (server.py:35, 42,     *)
(* 157-160).  The invariant says what is known while a command is being     *)
(* applied: its throttle is written first, and no later value undoes it.    *)
ThrottleWritten ==
    (main = "write" /\ next # Throttle) \/ main = "record"
        => \/ lowered \/ ~PinsApart(values)
           \/ servo[values[Throttle].pin] = values[Throttle].val

THEOREM RecordCurrent == Spec => []RecordIsCurrent
<1> DEFINE IInv == ThrottleWritten /\ RecordIsCurrent
<1> USE DEF ThrottleWritten, RecordIsCurrent
<1>0. Throttle \in Fields /\ Throttle = 0
  BY DEF Throttle, Fields
<1>1. Init => IInv
  BY <1>0, PinsAssumption DEF Init, NoValue
<1>2. TypeOK /\ IInv /\ [Next]_vars => IInv'
  <2> SUFFICES ASSUME TypeOK, IInv, [Next]_vars PROVE IInv'
    OBVIOUS
  <2> USE DEF MainStep, Goto, SetClosed, SetAwaiting, PingStep, PingGoto, PingMove, GuardGoto,
              DescentGoto, mainVars, globals, devices, threads, descentVars
  <2>0. ASSUME UNCHANGED <<values, lastThrottleValue, servo, lowered>>,
               main' \in {"write", "record"} => UNCHANGED <<main, next>>,
               main \in {"write", "record", "dead"} => main' \in {main, "dead"}
        PROVE  IInv'
    <3>1. PinsApart(values)' <=> PinsApart(values)
      BY <2>0 DEF PinsApart
    <3>2. /\ servo'[values'[Throttle].pin] = servo[values[Throttle].pin]
          /\ values'[Throttle].val = values[Throttle].val
          /\ servo'[lastThrottleValue'.pin] = servo[lastThrottleValue.pin]
          /\ lastThrottleValue'.val = lastThrottleValue.val
          /\ lowered' = lowered
      BY <2>0
    <3>3. ThrottleWritten'
      BY <2>0, <3>1, <3>2
    <3>4. RecordIsCurrent'
      BY <2>0, <3>1, <3>2
    <3> QED BY <3>3, <3>4
  <2>1. ASSUME Receive PROVE IInv'
    <3>1. CASE MainAccept \/ MainMismatch \/ MainSkip \/ MainTakeClose \/ MainTakeVersion
               \/ MainTakeOther
      BY <3>1, <2>0 DEF MainAccept, MainMismatch, MainSkip, MainTakeClose, MainTakeVersion,
                        MainTakeOther, Take
    <3>2. ASSUME NEW c \in Commands, MainTakeValues(c) PROVE IInv'
      BY <1>0, <3>2 DEF MainTakeValues
    <3> QED BY <2>1, <3>1, <3>2 DEF Receive
  <2>2. ASSUME MainInternal PROVE IInv'
    <3>1. CASE MainWrite
      <4>1. values' = values /\ main' \in {"write", "record"} /\ values \in [Fields -> PinValue]
            /\ (PinsApart(values)' <=> PinsApart(values))
        BY <3>1 DEF MainWrite, TypeOK, PinsApart
      <4>2. CASE next = Throttle
        <5>1. servo' = [servo EXCEPT ![values[Throttle].pin] = values[Throttle].val]
          BY <3>1, <4>2 DEF MainWrite
        <5>2. values[Throttle].pin \in Pins /\ servo \in [Pins -> Percent]
          BY <4>1, <1>0 DEF TypeOK, PinValue
        <5>3. servo'[values'[Throttle].pin] = values'[Throttle].val
          BY <4>1, <5>1, <5>2
        <5> QED BY <4>1, <5>3
      <4>3. CASE next # Throttle
        <5>1. lowered' = lowered /\ next \in Fields \ {Throttle}
              /\ servo' = [servo EXCEPT ![values[next].pin] = values[next].val]
          BY <3>1, <4>3 DEF MainWrite, TypeOK
        <5>2. PinsApart(values) => values[next].pin # values[Throttle].pin
          BY <5>1 DEF PinsApart
        <5>3. PinsApart(values) => servo'[values[Throttle].pin] = servo[values[Throttle].pin]
          BY <5>1, <5>2, <4>1 DEF TypeOK
        <5>4. main = "write"
          BY <3>1 DEF MainWrite
        <5> QED BY <4>1, <4>3, <5>1, <5>3, <5>4
      <4> QED BY <4>2, <4>3
    <3>2. CASE MainRecord
      BY <3>2 DEF MainRecord, PinsApart
    <3>3. CASE MainStartPing \/ MainRestart \/ MainStartGuard
      BY <3>3, <2>0 DEF MainStartPing, MainRestart, StartPing, MainStartGuard
    <3>4. CASE MainTop \/ MainOpen \/ MainAwait \/ MainClose \/ MainReopen
      BY <3>4, <2>0 DEF MainTop, MainOpen, MainAwait, MainClose, MainReopen
    <3> QED BY <2>2, <3>1, <3>2, <3>3, <3>4 DEF MainInternal
  <2>3. ASSUME NEW p \in PingThreads, PingThread(p) PROVE IInv'
    <3>1. UNCHANGED <<mainVars, devices, lastThrottleValue>>
      BY <2>3 DEF PingThread, PingInternal, PingBind, PingCheck, PingSend, PingReply,
                  PingTimeout, PingMismatch, PingSendError, Raise, PingLaunch, PingClose,
                  PingUndecodable
    <3> QED BY <3>1, <2>0
  <2>4. ASSUME NEW g \in GuardThreads, GuardThread(g) PROVE IInv'
    BY <2>4, <2>0 DEF GuardThread, GuardStart, GuardLow
  <2>5. ASSUME NEW t \in Starters, DescentThread(t) PROVE IInv'
    <3>1. CASE DescentStep(t)
      BY <3>1 DEF DescentStep
    <3>2. CASE DescentRead(t) \/ DescentEnd(t)
      BY <3>2, <2>0 DEF DescentRead, DescentEnd
    <3> QED BY <2>5, <3>1, <3>2 DEF DescentThread
  <2>6. CASE UNCHANGED vars
    BY <2>6, <2>0 DEF vars
  <2>7. CASE Terminated
    BY <2>7, <2>0 DEF Terminated, vars
  <2>8. CASE MainDies
    BY <2>8, <2>0 DEF MainDies
  <2> QED BY <2>1, <2>2, <2>3, <2>4, <2>5, <2>6, <2>7, <2>8 DEF Next
<1> QED BY <1>1, <1>2, TypeCorrect, PTL DEF Spec
=============================================================================
