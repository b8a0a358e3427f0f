------------------------- MODULE DroneClientProofs -------------------------
(***************************************************************************)
(* Proofs about DroneClient for any number of client objects, senders,     *)
(* listeners and queued connects.                                          *)
(***************************************************************************)
EXTENDS DroneClient, TLAPS

(* onPostExecute takes the oldest result of a connect task (567).           *)
LEMMA TailOfResults ==
    ASSUME NEW q \in Seq(BOOLEAN), q # <<>>
    PROVE  Tail(q) \in Seq(BOOLEAN) /\ Len(Tail(q)) = Len(q) - 1 /\ Len(q) \in Nat
OBVIOUS

\* A running connect task will find room for its result.
Room == conn # "idle" => Len(posted) < MaxConnects

(* The flags, sockets, tasks and workers of the application keep their      *)
(* types; a value is never taken from an empty queue without a crash, and   *)
(* the result of a connect task always finds its place.                     *)
THEOREM TypeCorrect == Spec => []TypeOK
<1> DEFINE IInv == TypeOK /\ Room
<1> USE BoundsAssumption DEF Room
<1>1. Init => IInv
  <2> SUFFICES ASSUME Init PROVE IInv
    OBVIOUS
  <2> USE DEF Init
  <2>1. posted \in Seq(BOOLEAN) /\ Len(posted) = 0
    OBVIOUS
  <2>2. queue \in 0..MaxQueue /\ pending \in 0..MaxConnects /\ Len(posted) <= MaxConnects
    BY <2>1
  <2>3. sock \in [Clients -> SocketStates] /\ psock \in [Clients -> SocketStates]
    BY DEF SocketStates
  <2>4. sender \in [Senders -> SenderStates] /\ listener \in [Listeners -> ListenerStates]
    BY DEF SenderStates, ListenerStates
  <2> QED BY <2>1, <2>2, <2>3, <2>4 DEF TypeOK, ConnStates, Crashes
<1>2. IInv /\ [Next]_vars => IInv'
  <2> SUFFICES ASSUME IInv, [Next]_vars PROVE IInv'
    OBVIOUS
  <2> USE DEF TypeOK, flags, sockets, connects, senders, listeners
  <2>1. CASE User
    <3>1. CASE ConnectPress
      <4>1. pending' \in 0..MaxConnects
        <5>1. pending' = pending + 1 /\ pending < MaxConnects
          BY <3>1 DEF ConnectPress
        <5>2. pending \in 0..MaxConnects
          OBVIOUS
        <5> HIDE DEF TypeOK
        <5> QED BY <5>1, <5>2
      <4>2. ended' = FALSE
        BY <3>1 DEF ConnectPress
      <4>3. UNCHANGED <<flags, sockets, queue, conn, posted, senders, listeners, crashed>>
        BY <3>1 DEF ConnectPress
      <4> QED BY <4>1, <4>2, <4>3
    <3>2. CASE DisconnectPress
      <4>1. Settled \in BOOLEAN
        BY Zenon DEF Settled
      <4>2. ended' = Settled
        BY <3>2, Zenon DEF DisconnectPress
      <4>3. ended' \in BOOLEAN
        BY <4>1, <4>2, Zenon
      <4>4. sock' \in [Clients -> SocketStates] /\ psock' \in [Clients -> SocketStates]
        BY <3>2 DEF DisconnectPress, CloseConnection, SocketStates
      <4>5. socketConnection' \in BOOLEAN
        BY <3>2 DEF DisconnectPress
      <4>6. UNCHANGED <<connectionError, client, queue, connects, senders, listeners, crashed>>
        BY <3>2 DEF DisconnectPress, CloseConnection
      <4> QED BY <4>3, <4>4, <4>5, <4>6
    <3>3. CASE Enqueue
      BY <3>3 DEF Enqueue
    <3> QED BY <2>1, <3>1, <3>2, <3>3 DEF User
  <2>2. CASE Callback
    <3>0. ASSUME Len(posted') = Len(posted) - 1, conn' = conn, posted # <<>>
          PROVE  Len(posted') <= MaxConnects /\ Room'
      <4>1. Len(posted) \in Nat /\ Len(posted) <= MaxConnects
        BY <3>0, TailOfResults
      <4>2. conn # "idle" => Len(posted) < MaxConnects
        OBVIOUS
      <4> HIDE DEF TypeOK
      <4> QED BY <3>0, <4>1, <4>2
    <3>1. CASE OnConnected
      <4>1. posted' \in Seq(BOOLEAN) /\ Len(posted') = Len(posted) - 1
        BY <3>1, TailOfResults DEF OnConnected
      <4>2. listener' \in [Listeners -> ListenerStates]
        BY <3>1 DEF OnConnected, FreeListeners, ListenerStates
      <4>3. sender' \in [Senders -> SenderStates]
        BY <3>1 DEF OnConnected, SenderStates
      <4>4. 0 \in 0..MaxQueue
        OBVIOUS
      <4>5. Len(posted') <= MaxConnects /\ Room'
        BY <3>0, <3>1, <4>1 DEF OnConnected
      <4> QED BY <3>1, <4>1, <4>2, <4>3, <4>4, <4>5 DEF OnConnected
    <3>2. CASE OnConnectFailed
      <4>1. posted' \in Seq(BOOLEAN) /\ Len(posted') = Len(posted) - 1
        BY <3>2, TailOfResults DEF OnConnectFailed
      <4>2. Len(posted') <= MaxConnects /\ Room'
        BY <3>0, <3>2, <4>1 DEF OnConnectFailed
      <4> QED BY <3>2, <4>1, <4>2 DEF OnConnectFailed
    <3>3. ASSUME NEW s \in Senders, OnSenderDone(s) PROVE IInv'
      <4>1. sender' \in [Senders -> SenderStates]
        BY <3>3 DEF OnSenderDone, SenderStates
      <4>2. pending' \in 0..MaxConnects
        BY <3>3 DEF OnSenderDone
      <4> QED BY <3>3, <4>1, <4>2 DEF OnSenderDone
    <3> QED BY <2>2, <3>1, <3>2, <3>3 DEF Callback
  <2>3. CASE Connect
    <3> USE DEF ConnGoto, ConnStates
    <3>1. CASE ConnStart
      BY <3>1 DEF ConnStart
    <3>2. CASE ConnClose \/ ConnClear
      BY <3>2 DEF ConnClose, ConnClear, CloseConnection, SocketStates, Crashes
    <3>3. CASE ConnMake
      BY <3>3 DEF ConnMake, Fresh, SocketStates
    <3>4. CASE ConnMatch
      BY <3>4 DEF ConnMatch
    <3>5. ASSUME NEW from \in ConnStates \ {"idle"}, NEW result \in BOOLEAN, Finish(from, result)
          PROVE  /\ posted' \in Seq(BOOLEAN) /\ Len(posted') <= MaxConnects
                 /\ conn' = "idle" /\ crashed' \in Crashes
                 /\ UNCHANGED <<pending, flags, queue, senders, listeners, ended>>
      <4>1. posted' \in Seq(BOOLEAN) /\ Len(posted') = Len(posted) + 1
        BY <3>5 DEF Finish
      <4> QED BY <3>5, <4>1 DEF Finish
    <3>6. CASE ConnNotMade \/ ConnNoMatch
      BY <3>5, <3>6 DEF ConnNotMade, ConnNoMatch
    <3>7. CASE ConnBindPing
      <4>1. psock' \in [Clients -> SocketStates] /\ sock' = sock /\ client' = client
        BY <3>7 DEF ConnBindPing, SocketStates
      <4>2. \E result \in BOOLEAN : Finish("bindPing", result)
        BY <3>7 DEF ConnBindPing
      <4> QED BY <3>5, <4>1, <4>2
    <3> QED BY <2>3, <3>1, <3>2, <3>3, <3>4, <3>6, <3>7 DEF Connect
  <2>4. ASSUME NEW s \in Senders, Sender(s) PROVE IInv'
    <3> USE DEF SenderGoto, SenderStates
    <3>1. CASE SenderCheck(s) \/ SenderPeek(s) \/ SenderFail(s) \/ SenderError(s)
      BY <3>1 DEF SenderCheck, SenderPeek, SenderFail, SenderError
    <3>2. CASE SenderTake(s)
      BY <3>2 DEF SenderTake, Crashes
    <3>3. CASE SenderAck(s) \/ SenderNoAck(s) \/ SenderClosed(s)
      BY <3>3 DEF SenderAck, SenderNoAck, SenderClosed, Answered
    <3> QED BY <2>4, <3>1, <3>2, <3>3 DEF Sender
  <2>5. ASSUME NEW l \in Listeners, Listener(l) \/ Datagram(l) PROVE IInv'
    <3> USE DEF ListenerGoto, ListenerStates
    <3>1. CASE ListenerCheck(l) \/ ListenerFail(l) \/ ListenerError(l)
      BY <3>1 DEF ListenerCheck, ListenerFail, ListenerError
    <3>2. CASE ListenerCall(l)
      BY <3>2 DEF ListenerCall, Crashes
    <3>3. CASE ListenerPing(l) \/ ListenerClosed(l) \/ ListenerBad(l)
      BY <3>3 DEF ListenerPing, ListenerClosed, ListenerBad, Heard
    <3> QED BY <2>5, <3>1, <3>2, <3>3 DEF Listener, Datagram
  <2>6. CASE UNCHANGED vars
    BY <2>6 DEF vars
  <2> QED BY <2>1, <2>2, <2>3, <2>4, <2>5, <2>6 DEF Next
<1> QED BY <1>1, <1>2, PTL DEF Spec

-----------------------------------------------------------------------------
(* Whoever holds clientPort is droneSocketClient, so that the next          *)
(* closeConnection can release it (DroneViewActivity.java:555-559).         *)
THEOREM SocketReachable == Spec => []CommandSocketReachable
<1> USE DEF CommandSocketReachable
<1>1. Init => CommandSocketReachable
  BY DEF Init
<1>2. TypeOK /\ CommandSocketReachable /\ [Next]_vars => CommandSocketReachable'
  <2> SUFFICES ASSUME TypeOK, CommandSocketReachable, [Next]_vars PROVE CommandSocketReachable'
    OBVIOUS
  <2> USE DEF TypeOK, flags, sockets, connects, senders, listeners
  <2>1. CASE User
    BY <2>1 DEF User, ConnectPress, DisconnectPress, Enqueue, CloseConnection
  <2>2. CASE Callback
    BY <2>2 DEF Callback, OnConnected, OnConnectFailed, OnSenderDone
  <2>3. CASE Connect
    <3>1. CASE ConnMake
      BY <3>1 DEF ConnMake, PortTaken
    <3>2. CASE ConnClose
      BY <3>2 DEF ConnClose, CloseConnection
    <3>3. CASE ConnStart \/ ConnClear \/ ConnNotMade \/ ConnMatch \/ ConnNoMatch \/ ConnBindPing
      BY <3>3 DEF ConnStart, ConnClear, ConnNotMade, ConnMatch, ConnNoMatch, ConnBindPing
    <3> QED BY <2>3, <3>1, <3>2, <3>3 DEF Connect
  <2>4. ASSUME NEW s \in Senders, Sender(s) PROVE CommandSocketReachable'
    BY <2>4 DEF Sender, SenderCheck, SenderPeek, SenderTake, SenderAck, SenderNoAck,
                SenderClosed, Answered, SenderFail, SenderError, SenderGoto
  <2>5. ASSUME NEW l \in Listeners, Listener(l) \/ Datagram(l) PROVE CommandSocketReachable'
    BY <2>5 DEF Listener, Datagram, ListenerCheck, ListenerCall, ListenerPing, ListenerClosed,
                ListenerBad, Heard, ListenerFail, ListenerError, ListenerGoto
  <2>6. CASE UNCHANGED vars
    BY <2>6 DEF vars
  <2> QED BY <2>1, <2>2, <2>3, <2>4, <2>5, <2>6 DEF Next
<1> QED BY <1>1, <1>2, TypeCorrect, PTL DEF Spec

-----------------------------------------------------------------------------
(* When the flags say connected, a sender serves the connection or a        *)
(* connect task will start one or report an error, however the tasks, the   *)
(* callbacks and the user interleave (DroneViewActivity.java:567-581, 609). *)
THEOREM ConnectedServed == Spec => []ConnectedHasSender
<1> USE DEF ConnectedHasSender
<1>1. Init => ConnectedHasSender
  BY DEF Init
<1>2. TypeOK /\ ConnectedHasSender /\ [Next]_vars => ConnectedHasSender'
  <2> SUFFICES ASSUME TypeOK, ConnectedHasSender, [Next]_vars PROVE ConnectedHasSender'
    OBVIOUS
  <2> USE DEF TypeOK, flags, sockets, connects, senders, listeners
  <2>1. CASE User
    BY <2>1 DEF User, ConnectPress, DisconnectPress, Enqueue
  <2>2. CASE Callback
    <3>1. CASE OnConnected
      BY <3>1 DEF OnConnected
    <3>2. CASE OnConnectFailed
      BY <3>2 DEF OnConnectFailed
    <3>3. ASSUME NEW s \in Senders, OnSenderDone(s) PROVE ConnectedHasSender'
      BY <3>3 DEF OnSenderDone
    <3> QED BY <2>2, <3>1, <3>2, <3>3 DEF Callback
  <2>3. CASE Connect
    <3>1. ASSUME NEW from, NEW result \in BOOLEAN, Finish(from, result)
          PROVE posted' # <<>>
      BY <3>1 DEF Finish
    <3>2. CASE ConnNotMade \/ ConnNoMatch \/ ConnBindPing
      BY <3>1, <3>2 DEF ConnNotMade, ConnNoMatch, ConnBindPing
    <3>3. CASE ConnStart \/ ConnClose \/ ConnClear \/ ConnMake \/ ConnMatch
      BY <3>3 DEF ConnStart, ConnClose, ConnClear, ConnMake, ConnMatch, ConnGoto
    <3> QED BY <2>3, <3>2, <3>3 DEF Connect
  <2>4. ASSUME NEW s \in Senders, Sender(s) PROVE ConnectedHasSender'
    <3> USE DEF SenderGoto
    <3>1. CASE SenderCheck(s) \/ SenderFail(s) \/ SenderError(s)
      BY <3>1 DEF SenderCheck, SenderFail, SenderError
    <3>2. CASE SenderPeek(s) \/ SenderTake(s) \/ SenderAck(s) \/ SenderNoAck(s) \/ SenderClosed(s)
      BY <3>2 DEF SenderPeek, SenderTake, SenderAck, SenderNoAck, SenderClosed, Answered
    <3> QED BY <2>4, <3>1, <3>2 DEF Sender
  <2>5. ASSUME NEW l \in Listeners, Listener(l) \/ Datagram(l) PROVE ConnectedHasSender'
    BY <2>5 DEF Listener, Datagram, ListenerCheck, ListenerCall, ListenerPing, ListenerClosed,
                ListenerBad, Heard, ListenerFail, ListenerError, ListenerGoto
  <2>6. CASE UNCHANGED vars
    BY <2>6 DEF vars
  <2> QED BY <2>1, <2>2, <2>3, <2>4, <2>5, <2>6 DEF Next
<1> QED BY <1>1, <1>2, TypeCorrect, PTL DEF Spec
=============================================================================
