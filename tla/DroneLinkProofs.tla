-------------------------- MODULE DroneLinkProofs --------------------------
(***************************************************************************)
(* Proofs about DroneLink for any settings of the thinning and any number  *)
(* of values, faults and hang-ups.                                         *)
(***************************************************************************)
EXTENDS DroneLink, TLAPS, WellFoundedInduction

-----------------------------------------------------------------------------
(* Sequences: what is received, sent, and left after thinning.              *)

LEMMA HeadAndTail ==
    ASSUME NEW T, NEW q \in Seq(T), q # <<>>
    PROVE  /\ Head(q) \in T /\ Head(q) = q[1] /\ Tail(q) \in Seq(T)
           /\ Len(q) \in Nat \ {0} /\ Len(Tail(q)) = Len(q) - 1
           /\ \A i \in 1..(Len(q) - 1) : Tail(q)[i] = q[i + 1]
OBVIOUS

LEMMA Appended ==
    ASSUME NEW T, NEW q \in Seq(T), NEW v \in T
    PROVE  /\ Append(q, v) \in Seq(T) /\ Len(q) \in Nat
           /\ Len(Append(q, v)) = Len(q) + 1
           /\ Append(q, v)[Len(q) + 1] = v
           /\ \A i \in 1..Len(q) : Append(q, v)[i] = q[i]
OBVIOUS

LEMMA Suffix ==
    ASSUME NEW T, NEW q \in Seq(T), NEW k \in 0..Len(q)
    PROVE  /\ SubSeq(q, k + 1, Len(q)) \in Seq(T)
           /\ Len(SubSeq(q, k + 1, Len(q))) = Len(q) - k
           /\ \A i \in 1..(Len(q) - k) : SubSeq(q, k + 1, Len(q))[i] = q[k + i]
OBVIOUS

(* Among the thresholds a queue has reached there is a highest one.         *)
LEMMA Highest ==
    ASSUME NEW n \in Nat, NEW T, T \subseteq 0..n, T # {}
    PROVE  \E t \in T : \A u \in T : u <= t
<1> DEFINE D == {n - t : t \in T}
<1>0. \A t \in T : t \in Nat /\ n - t \in Nat
  OBVIOUS
<1>1. D \subseteq Nat /\ D # {}
  BY <1>0
<1>2. \E x \in D : \A z \in D : ~(<<z, x>> \in OpToRel(<, Nat))
  BY <1>1, NatLessThanWellFounded, WFMin
<1>3. PICK x \in D : \A z \in D : ~(<<z, x>> \in OpToRel(<, Nat))
  BY <1>2
<1>4. \A z \in D : x <= z
  <2> SUFFICES ASSUME NEW z \in D PROVE x <= z
    OBVIOUS
  <2> HIDE DEF D
  <2>1. z \in Nat /\ x \in Nat
    BY <1>1, <1>3
  <2>2. ~(z < x)
    <3>1. z < x => <<z, x>> \in OpToRel(<, Nat)
      BY <2>1 DEF OpToRel
    <3> QED BY <1>3, <3>1
  <2> QED BY <2>1, <2>2
<1>5. PICK t \in T : x = n - t
  OBVIOUS
<1>6. ASSUME NEW u \in T PROVE u <= t
  BY <1>4, <1>5
<1> QED BY <1>6

(* removeExcessiveValues drops a number of values, none of an empty queue   *)
(* (586-601).                                                               *)
LEMMA ExcessNumber ==
    ASSUME NEW n \in Nat, drops \in Settings
    PROVE  Excess(n) \in Nat /\ (n = 0 => Excess(n) = 0)
<1> DEFINE reached == {t \in DOMAIN drops : t <= n}
<1>1. CASE reached = {}
  BY <1>1 DEF Excess
<1>2. CASE reached # {}
  <2>1. reached \subseteq 0..n /\ 0 \notin reached
    BY SettingsAssumption
  <2>2. \E t \in reached : \A u \in reached : u <= t
    BY <1>2, <2>1, Highest
  <2> DEFINE top == CHOOSE t \in reached : \A u \in reached : u <= t
  <2>3. top \in reached
    BY <2>2
  <2>4. Excess(n) = drops[top]
    BY <1>2 DEF Excess
  <2> HIDE DEF top
  <2>5. top \in Nat \ {0} /\ top <= n /\ drops[top] \in Nat
    BY <2>1, <2>3, SettingsAssumption
  <2> QED BY <2>4, <2>5
<1> QED BY <1>1, <1>2

(* What is left, if anything is, is the end of the queue.                   *)
LEMMA ThinnedKeepsOrder ==
    ASSUME NEW T, NEW q \in Seq(T), drops \in Settings, Excess(Len(q)) < Len(q)
    PROVE  /\ Thinned(q) \in Seq(T) /\ Thinned(q) # <<>>
           /\ \E k \in 0..Len(q) : /\ Len(Thinned(q)) = Len(q) - k
                                   /\ \A i \in 1..(Len(q) - k) : Thinned(q)[i] = q[k + i]
<1>1. Len(q) \in Nat
  OBVIOUS
<1>2. Excess(Len(q)) \in 0..(Len(q) - 1)
  BY <1>1, ExcessNumber
<1>3. /\ Thinned(q) \in Seq(T) /\ Len(Thinned(q)) = Len(q) - Excess(Len(q))
      /\ \A i \in 1..(Len(q) - Excess(Len(q))) : Thinned(q)[i] = q[Excess(Len(q)) + i]
  BY <1>1, <1>2, Suffix DEF Thinned
<1>4. Thinned(q) # <<>>
  BY <1>1, <1>2, <1>3
<1> QED BY <1>1, <1>2, <1>3, <1>4

-----------------------------------------------------------------------------
(* Every datagram under way and every field of both ends has its type, and  *)
(* the bounds on faults, hang-ups and values are kept.                      *)
THEOREM TypeCorrect == Spec => []TypeOK
<1> USE BoundsAssumption DEF BoundsAssumption
<1>1. Init => TypeOK
  <2>1. <<>> \in Seq(Values) /\ <<>> \in Seq(Requests) /\ <<>> \in Seq(Replies)
    OBVIOUS
  <2>2. 0 \in 0..MaxValues /\ 0 \in 0..MaxFaults /\ 0 \in 0..MaxHangUps
    OBVIOUS
  <2>3. Init => /\ queue \in Seq(Values) /\ toServer \in Seq(Requests) /\ toClient \in Seq(Replies)
                /\ made \in 0..MaxValues /\ applied \in 0..MaxValues
                /\ faults \in 0..MaxFaults /\ hangUps \in 0..MaxHangUps
    BY <2>1, <2>2 DEF Init
  <2> QED BY <2>3 DEF Init, TypeOK, ClientStates
<1>2. TypeOK /\ [Next]_vars => TypeOK'
  <2> SUFFICES ASSUME TypeOK, [Next]_vars PROVE TypeOK'
    OBVIOUS
  <2>1. /\ queue \in Seq(Values) /\ toServer \in Seq(Requests) /\ toClient \in Seq(Replies)
        /\ made \in 0..MaxValues /\ faults \in 0..MaxFaults
    BY DEF TypeOK
  <2>2. Fault => faults' \in 0..MaxFaults
    BY <2>1 DEF Fault
  <2>3. TimePasses => faults' \in 0..MaxFaults
    BY <2>1, <2>2 DEF TimePasses
  <2>4. toServer # <<>> => Head(toServer) \in Requests /\ Tail(toServer) \in Seq(Requests)
    BY <2>1, HeadAndTail
  <2>5. toClient # <<>> => Head(toClient) \in Replies /\ Tail(toClient) \in Seq(Replies)
    BY <2>1, HeadAndTail
  <2>6. \A m \in Requests : Append(toServer, m) \in Seq(Requests)
    BY <2>1, Appended
  <2>7. \A m \in Replies : Append(toClient, m) \in Seq(Replies)
    BY <2>1, Appended
  <2>8. /\ VersionString \in Requests /\ CONN_CLOSE \in Requests /\ Values \subseteq Requests
        /\ "VERSION MATCH" \in Replies /\ "VERSION MISMATCH" \in Replies /\ "RECV_OK" \in Replies
    BY DEF Requests, Replies
  <2>9. CloseConnection => toServer' \in Seq(Requests) /\ toClient' \in Seq(Replies)
    <3>1. \A n \in 0..Len(toClient) : SubSeq(toClient, n + 1, Len(toClient)) \in Seq(Replies)
      BY <2>1, Suffix
    <3> QED BY <2>1, <2>6, <2>8, <3>1 DEF CloseConnection
  <2> USE DEF clientVars, serverVars
  <2>10. CASE LoseRequest \/ LoseReply \/ LosePing \/ DropReply \/ DropPing
    <3>1. CASE LoseRequest
      BY <2>2, <2>4, <3>1 DEF TypeOK, LoseRequest
    <3>2. CASE LoseReply
      BY <2>2, <2>5, <3>2 DEF TypeOK, LoseReply
    <3>3. CASE LosePing
      BY <2>2, <3>3 DEF TypeOK, LosePing
    <3>4. CASE DropReply
      BY <2>5, <3>4 DEF TypeOK, DropReply
    <3>5. CASE DropPing
      BY <3>5 DEF TypeOK, DropPing
    <3> QED BY <2>10, <3>1, <3>2, <3>3, <3>4, <3>5
  <2>11. CASE ConnectPress
    BY <2>3, <2>11 DEF TypeOK, ConnectPress, ClientStates
  <2>12. CASE ConnClose
    BY <2>9, <2>12 DEF TypeOK, ConnClose, CloseConnection, ClientStates
  <2>13. CASE ConnOpen
    <3>1. toServer' \in Seq(Requests)
      BY <2>6, <2>8, <2>13 DEF ConnOpen
    <3> QED BY <2>13, <3>1 DEF TypeOK, ConnOpen, ClientStates
  <2>14. CASE ConnMatch
    <3>1. <<>> \in Seq(Values)
      OBVIOUS
    <3> QED BY <2>5, <2>14, <3>1 DEF TypeOK, ConnMatch, ClientStates
  <2>15. CASE ConnFailed
    BY <2>1, <2>3, <2>5, <2>15 DEF TypeOK, ConnFailed, ClientStates
  <2>16. CASE DisconnectPress
    <3>1. hangUps' \in 0..MaxHangUps
      BY <2>16 DEF TypeOK, DisconnectPress
    <3>2. error' \in BOOLEAN /\ client' \in ClientStates
      BY <2>16 DEF DisconnectPress, ClientStates
    <3> QED BY <2>9, <2>16, <3>1, <3>2 DEF TypeOK, DisconnectPress, CloseConnection
  <2>17. CASE Enqueue
    <3>1. made + 1 \in Values /\ made + 1 \in 0..MaxValues
      BY <2>1, <2>17 DEF Enqueue, Values
    <3>2. queue' \in Seq(Values) /\ made' \in 0..MaxValues
      BY <2>1, <2>17, <3>1, Appended DEF Enqueue
    <3> QED BY <2>17, <3>2 DEF TypeOK, Enqueue
  <2>18. CASE SendValue
    <3>0. Thinned(queue) \in Seq(Values) /\ Thinned(queue) # <<>>
      BY <2>1, <2>18, ThinnedKeepsOrder DEF SendValue, TypeOK
    <3>1. Head(Thinned(queue)) \in Values /\ Tail(Thinned(queue)) \in Seq(Values)
      BY <3>0, HeadAndTail
    <3>2. toServer' \in Seq(Requests) /\ queue' \in Seq(Values)
      BY <2>6, <2>8, <2>18, <3>1 DEF SendValue
    <3> QED BY <2>18, <3>2 DEF TypeOK, SendValue, ClientStates
  <2>19. CASE ReplyOk
    BY <2>5, <2>19 DEF TypeOK, ReplyOk, ClientStates
  <2>20. CASE ReplyBad
    BY <2>1, <2>3, <2>5, <2>20 DEF TypeOK, ReplyBad, ClientStates
  <2>21. CASE Pong
    BY <2>21 DEF TypeOK, Pong
  <2>22. StartPing => pinger' \in {"off", "check", "sleep", "wait"}
    BY DEF StartPing, TypeOK
  <2>23. CASE ServeHello
    BY <2>4, <2>7, <2>8, <2>22, <2>23 DEF TypeOK, ServeHello
  <2>24. CASE ServeNothing
    BY <2>4, <2>24 DEF TypeOK, ServeNothing
  <2>25. CASE ServeClose
    BY <2>4, <2>25 DEF TypeOK, ServeClose, InnerTake
  <2>26. CASE ServeReconnect
    BY <2>4, <2>7, <2>8, <2>22, <2>26 DEF TypeOK, ServeReconnect, InnerTake
  <2>27. CASE ServeValue
    <3>1. applied' \in 0..MaxValues /\ toClient' \in Seq(Replies) /\ toServer' \in Seq(Requests)
      <4>1. PICK v \in Values : /\ InnerTake(v) /\ applied' = v
                                /\ toClient' = Append(toClient, "RECV_OK")
        BY <2>27 DEF ServeValue
      <4>2. v \in 0..MaxValues
        BY DEF Values
      <4>3. toClient' \in Seq(Replies)
        BY <2>7, <2>8, <4>1
      <4>4. toServer' \in Seq(Requests)
        BY <2>4, <4>1 DEF InnerTake
      <4> QED BY <4>1, <4>2, <4>3, <4>4
    <3> QED BY <2>27, <3>1 DEF TypeOK, ServeValue, InnerTake
  <2>28. CASE PingCheck \/ PingReply \/ DescentEnd
    BY <2>28 DEF TypeOK, PingCheck, PingReply, DescentEnd
  <2>29. CASE PingSend \/ PingTimeout
    <3>1. faults' \in 0..MaxFaults
      BY <2>1, <2>2, <2>29 DEF PingSend, PingTimeout
    <3> QED BY <2>29, <3>1 DEF TypeOK, PingSend, PingTimeout
  <2>30. CASE UNCHANGED vars
    BY <2>30 DEF TypeOK, vars
  <2>31. CASE SaveSettings
    BY <2>31 DEF TypeOK, SaveSettings
  <2>32. CASE DropAll \/ Overdraw
    <3>1. <<>> \in Seq(Values)
      OBVIOUS
    <3> QED BY <2>32, <3>1 DEF TypeOK, DropAll, Overdraw, ClientStates
  <2> QED
    BY <2>10, <2>11, <2>12, <2>13, <2>14, <2>15, <2>16, <2>17, <2>18, <2>19, <2>20, <2>21,
       <2>23, <2>24, <2>25, <2>26, <2>27, <2>28, <2>29, <2>30, <2>31, <2>32
    DEF Next, Link, Losses, ClientStep, MainStep, PingStep
<1> QED BY <1>1, <1>2, PTL DEF Spec

-----------------------------------------------------------------------------
(* Commands are on their way in the order in which the joystick made them:  *)
(* what the servos have, what is under way, what is queued, what was made   *)
(* last.                                                                    *)
InOrder(a, s, q, m) ==
    /\ \A i \in 1..Len(s) :
         s[i] \in Values =>
            /\ a <= s[i] /\ s[i] <= m
            /\ \A j \in i..Len(s) : s[j] \in Values => s[i] <= s[j]
            /\ \A j \in 1..Len(q) : s[i] <= q[j]
    /\ \A i \in 1..Len(q) :
         /\ a <= q[i] /\ q[i] <= m
         /\ \A j \in i..Len(q) : q[i] <= q[j]
    /\ a <= m

Ordered == InOrder(applied, toServer, queue, made)

(* The server takes the oldest datagram, which is no older than what it     *)
(* applied before.                                                          *)
LEMMA ReceivedInOrder ==
    ASSUME NEW a \in Nat, NEW m \in Nat, NEW s \in Seq(Requests), NEW q \in Seq(Values),
           InOrder(a, s, q, m), s # <<>>
    PROVE  /\ InOrder(a, Tail(s), q, m)
           /\ Head(s) \in Values => a <= Head(s) /\ InOrder(Head(s), Tail(s), q, m)
<1>1. /\ Len(s) \in Nat \ {0} /\ Head(s) = s[1] /\ Len(Tail(s)) = Len(s) - 1
      /\ \A i \in 1..(Len(s) - 1) : Tail(s)[i] = s[i + 1]
  BY HeadAndTail
<1>2. Len(q) \in Nat
  OBVIOUS
<1> DEFINE t == Tail(s)
<1>3. Len(t) = Len(s) - 1 /\ \A i \in 1..(Len(s) - 1) : t[i] = s[i + 1]
  BY <1>1
<1> HIDE DEF t
<1>4. InOrder(a, t, q, m)
  BY <1>1, <1>2, <1>3 DEF InOrder
<1>5. Head(s) \in Values => a <= Head(s) /\ InOrder(Head(s), t, q, m)
  BY <1>1, <1>2, <1>3 DEF InOrder, Values
<1> QED BY <1>4, <1>5 DEF t

(* A version string or CONN_CLOSE does not disturb the order.               *)
LEMMA SignalInOrder ==
    ASSUME NEW a \in Nat, NEW m \in Nat, NEW s \in Seq(Requests), NEW q \in Seq(Values),
           InOrder(a, s, q, m), NEW c \in Requests \ Values
    PROVE  InOrder(a, Append(s, c), q, m)
<1> DEFINE t == Append(s, c)
<1>1. /\ Len(s) \in Nat /\ Len(t) = Len(s) + 1 /\ t[Len(s) + 1] = c
      /\ \A i \in 1..Len(s) : t[i] = s[i]
  BY Appended
<1> HIDE DEF t
<1>2. \A i \in 1..Len(t) : t[i] \in Values => i \in 1..Len(s) /\ t[i] = s[i]
  BY <1>1
<1>3. InOrder(a, t, q, m)
  BY <1>2 DEF InOrder
<1> QED BY <1>3 DEF t

(* The sender takes the oldest value that is left in the queue.             *)
LEMMA SentInOrder ==
    ASSUME NEW a \in Nat, NEW m \in Nat, NEW s \in Seq(Requests), NEW q \in Seq(Values),
           InOrder(a, s, q, m), q # <<>>
    PROVE  InOrder(a, Append(s, Head(q)), Tail(q), m)
<1> DEFINE t == Append(s, Head(q))  r == Tail(q)
<1>1. /\ Len(q) \in Nat \ {0} /\ Len(r) = Len(q) - 1 /\ Head(q) = q[1] /\ q[1] \in Values
      /\ \A i \in 1..(Len(q) - 1) : r[i] = q[i + 1]
  BY HeadAndTail
<1>2. /\ Len(s) \in Nat /\ Len(t) = Len(s) + 1 /\ t[Len(s) + 1] = q[1]
      /\ \A i \in 1..Len(s) : t[i] = s[i]
  BY <1>1, Appended DEF Requests
<1> HIDE DEF t, r
<1>0. \A j \in 1..Len(r) : j + 1 \in 1..Len(q) /\ r[j] = q[j + 1]
  BY <1>1
<1>3. \A j \in 1..Len(q) : /\ q[1] <= q[j] /\ a <= q[j] /\ q[j] <= m
                         /\ \A k \in j..Len(q) : q[j] <= q[k]
  BY <1>1 DEF InOrder
<1>4. ASSUME NEW i \in 1..Len(t), t[i] \in Values
      PROVE  /\ a <= t[i] /\ t[i] <= m
             /\ \A j \in i..Len(t) : t[j] \in Values => t[i] <= t[j]
             /\ \A j \in 1..Len(r) : t[i] <= r[j]
  <2>1. CASE i = Len(s) + 1
    <3>1. q[1] <= q[1]
      BY <1>1, <1>3
    <3>2. \A j \in i..Len(t) : j = i
      BY <1>2, <2>1
    <3>3. \A j \in 1..Len(r) : q[1] <= r[j]
      BY <1>0, <1>3
    <3>4. a <= q[1] /\ q[1] <= m
      BY <1>1, <1>3
    <3>5. t[i] = q[1]
      BY <1>2, <2>1
    <3> QED BY <3>1, <3>2, <3>3, <3>4, <3>5
  <2>2. CASE i \in 1..Len(s)
    <3>1. /\ t[i] = s[i] /\ s[i] \in Values /\ a <= s[i] /\ s[i] <= m
          /\ \A j \in i..Len(s) : s[j] \in Values => s[i] <= s[j]
          /\ \A j \in 1..Len(q) : s[i] <= q[j]
      BY <1>2, <1>4, <2>2 DEF InOrder
    <3>2. s[i] <= q[1]
      BY <1>1, <3>1
    <3>3. \A j \in i..Len(t) : j = Len(s) + 1 \/ (j \in i..Len(s) /\ t[j] = s[j])
      BY <1>2, <2>2
    <3>4. \A j \in i..Len(t) : t[j] \in Values => t[i] <= t[j]
      BY <1>2, <3>1, <3>2, <3>3
    <3>5. \A j \in 1..Len(r) : t[i] <= r[j]
      BY <1>0, <3>1
    <3> QED BY <3>1, <3>4, <3>5
  <2> QED BY <1>2, <2>1, <2>2
<1>5. \A i \in 1..Len(r) : /\ a <= r[i] /\ r[i] <= m
                         /\ \A j \in i..Len(r) : r[i] <= r[j]
  <2> SUFFICES ASSUME NEW i \in 1..Len(r)
               PROVE  /\ a <= r[i] /\ r[i] <= m
                      /\ \A j \in i..Len(r) : r[i] <= r[j]
    OBVIOUS
  <2>1. \A k \in (i + 1)..Len(q) : q[i + 1] <= q[k]
    BY <1>0, <1>3
  <2>2. \A j \in i..Len(r) : j + 1 \in (i + 1)..Len(q) /\ r[j] = q[j + 1]
    BY <1>0, <1>1
  <2>3. r[i] = q[i + 1] /\ a <= r[i] /\ r[i] <= m
    BY <1>0, <1>3
  <2> QED BY <2>1, <2>2, <2>3
<1>6. a <= m
  BY DEF InOrder
<1>7. InOrder(a, t, r, m)
  BY <1>4, <1>5, <1>6 DEF InOrder
<1> QED BY <1>7 DEF t, r

(* Thinning drops the oldest values.                                        *)
LEMMA ThinnedInOrder ==
    ASSUME NEW a \in Nat, NEW m \in Nat, NEW s \in Seq(Requests), NEW q \in Seq(Values),
           InOrder(a, s, q, m), drops \in Settings, Excess(Len(q)) < Len(q)
    PROVE  InOrder(a, s, Thinned(q), m)
<1> DEFINE r == Thinned(q)
<1>1. PICK k \in 0..Len(q) : Len(r) = Len(q) - k /\ \A i \in 1..(Len(q) - k) : r[i] = q[k + i]
  BY ThinnedKeepsOrder
<1>2. Len(q) \in Nat /\ Len(s) \in Nat
  OBVIOUS
<1> HIDE DEF r
<1>3. \A i \in 1..Len(r) : i \in 1..(Len(q) - k) /\ k + i \in 1..Len(q) /\ r[i] = q[k + i]
  BY <1>1, <1>2
<1>4. \A i \in 1..Len(r) : /\ a <= r[i] /\ r[i] <= m
                         /\ \A j \in i..Len(r) : r[i] <= r[j]
  BY <1>2, <1>3 DEF InOrder
<1>5. InOrder(a, s, r, m)
  BY <1>3, <1>4 DEF InOrder
<1> QED BY <1>5 DEF r

(* What the joystick makes next is newer than everything.                   *)
LEMMA MadeInOrder ==
    ASSUME NEW a \in Nat, NEW m \in Nat, NEW s \in Seq(Requests), NEW q \in Seq(Values),
           InOrder(a, s, q, m), m + 1 \in Values
    PROVE  InOrder(a, s, Append(q, m + 1), m + 1)
<1> DEFINE r == Append(q, m + 1)
<1>1. /\ Len(q) \in Nat /\ Len(r) = Len(q) + 1 /\ r[Len(q) + 1] = m + 1
      /\ \A i \in 1..Len(q) : r[i] = q[i]
  BY Appended
<1>2. \A v \in Values : v \in Nat
  BY DEF Values
<1>3. \A i \in 1..Len(q) : q[i] \in Nat /\ q[i] <= m
  BY <1>2 DEF InOrder
<1> HIDE DEF r
<1>4. ASSUME NEW i \in 1..Len(r)
      PROVE  /\ a <= r[i] /\ r[i] <= m + 1
             /\ \A j \in i..Len(r) : r[i] <= r[j]
  <2>1. CASE i = Len(q) + 1
    BY <1>1, <2>1 DEF InOrder
  <2>2. CASE i \in 1..Len(q)
    <3>1. r[i] = q[i] /\ q[i] \in Nat /\ q[i] <= m /\ i \in Nat
      BY <1>1, <1>3, <2>2
    <3>2. a <= q[i] /\ \A j \in i..Len(q) : q[i] <= q[j]
      BY <2>2 DEF InOrder
    <3>3. \A j \in i..Len(r) : j = Len(q) + 1 \/ (j \in 1..Len(q) /\ j \in i..Len(q))
      BY <1>1, <2>2
    <3>4. \A j \in i..Len(r) : r[i] <= r[j]
      <4>1. SUFFICES ASSUME NEW j \in i..Len(r) PROVE r[i] <= r[j]
        OBVIOUS
      <4>2. CASE j = Len(q) + 1
        BY <1>1, <3>1, <4>2
      <4>3. CASE j \in 1..Len(q) /\ j \in i..Len(q)
        BY <1>1, <3>1, <3>2, <4>3
      <4> QED BY <3>3, <4>2, <4>3
    <3> QED BY <3>1, <3>2, <3>4
  <2> QED BY <1>1, <2>1, <2>2
<1>5. ASSUME NEW i \in 1..Len(s), s[i] \in Values
      PROVE  /\ a <= s[i] /\ s[i] <= m + 1
             /\ \A j \in i..Len(s) : s[j] \in Values => s[i] <= s[j]
             /\ \A j \in 1..Len(r) : s[i] <= r[j]
  <2>1. /\ s[i] \in Nat /\ a <= s[i] /\ s[i] <= m
        /\ \A j \in i..Len(s) : s[j] \in Values => s[i] <= s[j]
        /\ \A j \in 1..Len(q) : s[i] <= q[j]
    BY <1>2, <1>5 DEF InOrder
  <2>2. s[i] <= m + 1
    BY <2>1
  <2>3. \A j \in 1..Len(r) : r[j] = m + 1 \/ (j \in 1..Len(q) /\ r[j] = q[j])
    BY <1>1
  <2> QED BY <2>1, <2>2, <2>3
<1>6. a <= m + 1
  BY DEF InOrder
<1>7. InOrder(a, s, r, m + 1)
  BY <1>4, <1>5, <1>6 DEF InOrder
<1> QED BY <1>7 DEF r

(* Whatever is lost, late or thinned out, and however often the client      *)
(* connects again, commands keep their order on the way to the servos.      *)
LEMMA OrderKept == Spec => []Ordered
<1>1. Init => Ordered
  <2>1. Len(<<>>) = 0
    OBVIOUS
  <2> QED BY <2>1 DEF Init, Ordered, InOrder
<1>2. TypeOK /\ Ordered /\ [Next]_vars => Ordered'
  <2> SUFFICES ASSUME TypeOK, Ordered, [Next]_vars PROVE Ordered'
    OBVIOUS
  <2>1. /\ queue \in Seq(Values) /\ toServer \in Seq(Requests)
        /\ made \in Nat /\ applied \in Nat
    BY BoundsAssumption DEF TypeOK
  <2>2. InOrder(applied, toServer, queue, made)
    BY DEF Ordered
  <2>3. CONN_CLOSE \in Requests \ Values /\ VersionString \in Requests \ Values
    BY DEF Requests, Values, CONN_CLOSE, VersionString
  <2>4. toServer # <<>> => InOrder(applied, Tail(toServer), queue, made)
    BY <2>1, <2>2, ReceivedInOrder
  <2>5. /\ InOrder(applied, Append(toServer, CONN_CLOSE), queue, made)
        /\ InOrder(applied, Append(toServer, VersionString), queue, made)
    BY <2>1, <2>2, <2>3, SignalInOrder
  <2> USE DEF clientVars, serverVars, Ordered
  <2>6. ASSUME UNCHANGED <<applied, toServer, queue, made>> PROVE Ordered'
    BY <2>2, <2>6
  <2>7. CASE LoseReply \/ LosePing \/ Link \/ ConnectPress \/ ConnFailed \/ ReplyOk \/ ReplyBad
             \/ SaveSettings \/ Pong \/ PingStep \/ DescentEnd \/ UNCHANGED vars
    BY <2>6, <2>7
    DEF SaveSettings, LoseReply, LosePing, Link, DropReply, DropPing, ConnectPress, ConnFailed,
        ReplyOk, ReplyBad, Pong, PingStep, PingCheck, PingSend, PingReply, PingTimeout,
        DescentEnd, vars
  <2>8. CASE LoseRequest \/ ServeHello \/ ServeNothing \/ ServeClose \/ ServeReconnect
    <3>1. /\ toServer # <<>> /\ toServer' = Tail(toServer)
          /\ UNCHANGED <<applied, queue, made>>
      BY <2>8 DEF LoseRequest, ServeHello, ServeNothing, ServeClose, ServeReconnect, InnerTake
    <3> QED BY <2>4, <3>1
  <2>9. CASE ServeValue
    <3>1. /\ toServer # <<>> /\ toServer' = Tail(toServer)
          /\ Head(toServer) \in Values /\ applied' = Head(toServer)
          /\ UNCHANGED <<queue, made>>
      BY <2>9 DEF ServeValue, InnerTake
    <3>2. InOrder(Head(toServer), Tail(toServer), queue, made)
      BY <2>1, <2>2, <3>1, ReceivedInOrder
    <3> QED BY <3>1, <3>2
  <2>10. CASE ConnClose \/ DisconnectPress
    <3>1. /\ toServer' = Append(toServer, CONN_CLOSE) \/ toServer' = toServer
          /\ UNCHANGED <<applied, queue, made>>
      BY <2>10 DEF ConnClose, DisconnectPress, CloseConnection
    <3> QED BY <2>2, <2>5, <3>1
  <2>11. CASE ConnOpen
    BY <2>5, <2>11 DEF ConnOpen
  <2>12. CASE ConnMatch \/ DropAll \/ Overdraw
    <3>1. queue' = <<>> /\ Len(<<>>) = 0 /\ UNCHANGED <<applied, toServer, made>>
      BY <2>12 DEF ConnMatch, DropAll, Overdraw
    <3>2. InOrder(applied, toServer, <<>>, made)
      BY <2>2, <3>1 DEF InOrder
    <3> QED BY <3>1, <3>2
  <2>13. CASE Enqueue
    <3>1. /\ made' = made + 1 /\ queue' = Append(queue, made + 1)
          /\ UNCHANGED <<applied, toServer>> /\ made < MaxValues
      BY <2>13 DEF Enqueue
    <3>2. made + 1 \in Values
      BY <2>1, <3>1, BoundsAssumption DEF Values
    <3>3. InOrder(applied, toServer, Append(queue, made + 1), made + 1)
      BY <2>1, <2>2, <3>2, MadeInOrder
    <3> QED BY <3>1, <3>3
  <2>14. CASE SendValue
    <3>1. /\ Excess(Len(queue)) < Len(queue) /\ queue' = Tail(Thinned(queue))
          /\ toServer' = Append(toServer, Head(Thinned(queue)))
          /\ UNCHANGED <<applied, made>> /\ drops \in Settings
      BY <2>14 DEF SendValue, TypeOK
    <3>2. /\ Thinned(queue) \in Seq(Values) /\ Thinned(queue) # <<>>
          /\ InOrder(applied, toServer, Thinned(queue), made)
      BY <2>1, <2>2, <3>1, ThinnedInOrder, ThinnedKeepsOrder
    <3>3. InOrder(applied, Append(toServer, Head(Thinned(queue))), Tail(Thinned(queue)), made)
      BY <2>1, <3>1, <3>2, SentInOrder
    <3> QED BY <3>1, <3>3
  <2> QED
    BY <2>7, <2>8, <2>9, <2>10, <2>11, <2>12, <2>13, <2>14
    DEF Next, Losses, ClientStep, MainStep
<1> QED BY <1>1, <1>2, TypeCorrect, PTL DEF Spec

(* The servos never go back to an older command, whatever is thinned out,   *)
(* lost or late, and however often the client connects again                *)
(* (DroneViewActivity 572, 586-617; server.py 131-162).                     *)
THEOREM ServosNeverBack == Spec => NeverBack
<1>1. TypeOK /\ Ordered /\ [Next]_vars => [applied' >= applied]_vars
  <2> SUFFICES ASSUME TypeOK, Ordered, Next PROVE applied' >= applied
    BY DEF vars
  <2>1. applied \in Nat /\ made \in Nat /\ queue \in Seq(Values) /\ toServer \in Seq(Requests)
    BY BoundsAssumption DEF TypeOK
  <2>2. CASE ServeValue
    <3>1. toServer # <<>> /\ Head(toServer) \in Values /\ applied' = Head(toServer)
      BY <2>2 DEF ServeValue, InnerTake
    <3>2. applied <= Head(toServer)
      BY <2>1, <3>1, ReceivedInOrder DEF Ordered
    <3>3. Head(toServer) \in Nat
      BY <3>1 DEF Values
    <3> QED BY <2>1, <3>1, <3>2, <3>3
  <2>3. CASE ~ServeValue
    <3>1. applied' = applied
      BY <2>3
      DEF Next, Link, DropReply, DropPing, Losses, LoseRequest, LoseReply, LosePing,
          ConnectPress, DisconnectPress, Enqueue, SaveSettings, ClientStep, ConnClose, ConnOpen,
          ConnMatch, ConnFailed, SendValue, DropAll, Overdraw, ReplyOk, ReplyBad, Pong, MainStep,
          ServeHello, ServeNothing, ServeClose, ServeReconnect, InnerTake, PingStep, PingCheck,
          PingSend, PingReply, PingTimeout, DescentEnd, serverVars
    <3> QED BY <2>1, <3>1
  <2> QED BY <2>2, <2>3
<1> QED BY <1>1, TypeCorrect, OrderKept, PTL DEF Spec, NeverBack

-----------------------------------------------------------------------------
(* Until something goes wrong, the user hangs up or the application         *)
(* crashes, one datagram at most is between the two ends, and whoever waits *)
(* for it has it coming.                                                    *)
InStep ==
    /\ client \in {"down", "opening"} =>
         session = "outer" /\ toServer = <<>> /\ toClient = <<>> /\ pinger = "off"
    /\ client = "hello" =>
         \/ session = "outer" /\ toServer = <<VersionString>> /\ toClient = <<>> /\ pinger = "off"
         \/ session = "inner" /\ toServer = <<>> /\ toClient = <<"VERSION MATCH">>
    /\ client = "idle" => toServer = <<>> /\ toClient = <<>>
    /\ client = "reply" =>
         \/ toServer = <<>> /\ toClient = <<"RECV_OK">>
         \/ toClient = <<>> /\ \E v \in Values : toServer = <<v>>

(* A PING? is only sent to a client whose listener has its socket.          *)
PingsHeard ==
    /\ Connected => session = "inner" /\ pingOpen
    /\ client \in {"hello", "idle", "reply"} <=> sockOpen
    /\ pinger = "wait" => Connected /\ ping # "none"
    /\ pinger # "wait" => ping = "none"

Calm == ~emergency /\ ~error /\ client # "closing" /\ InStep /\ PingsHeard

Quiet == faults = 0 /\ hangUps = 0 /\ client # "crashed" => Calm

LEMMA OneDatagram ==
    ASSUME NEW x
    PROVE  /\ Append(<<>>, x) = <<x>> /\ <<x>> # <<>>
           /\ Head(<<x>>) = x /\ Tail(<<x>>) = <<>>
OBVIOUS

LEMMA QuietKept == Spec => []Quiet
<1> USE DEF Quiet, Calm, Connected
<1>1. Init => Quiet
  BY DEF Init, InStep, PingsHeard
<1>2. TypeOK /\ Quiet /\ [Next]_vars => Quiet'
  <2> SUFFICES ASSUME TypeOK, Quiet, [Next]_vars, faults' = 0, hangUps' = 0,
                      client' # "crashed"
               PROVE  Calm'
    OBVIOUS
  <2> USE DEF clientVars, serverVars
  <2>1. ~Fault
    BY DEF Fault, TypeOK
  <2>2. TimePasses => toClient = <<>> /\ (toServer = <<>> \/ emergency) /\ faults' = faults
    BY <2>1 DEF TimePasses
  <2>3. ~DisconnectPress
    BY DEF DisconnectPress, TypeOK
  <2>4. hangUps = 0
    BY <2>3
    DEF Next, vars, Link, DropReply, DropPing, Losses, LoseRequest, LoseReply, LosePing,
        ConnectPress, Enqueue, SaveSettings, ClientStep, ConnClose, ConnOpen, ConnMatch, ConnFailed,
        SendValue, DropAll, Overdraw, ReplyOk, ReplyBad, Pong, MainStep, ServeHello, ServeNothing,
        ServeClose, ServeReconnect, ServeValue, InnerTake, PingStep, PingCheck, PingSend,
        PingReply, PingTimeout, DescentEnd
  <2>5. faults = 0
    BY <2>1, <2>2, <2>3
    DEF Next, vars, Link, DropReply, DropPing, Losses, LoseRequest, LoseReply, LosePing,
        ConnectPress, Enqueue, SaveSettings, ClientStep, ConnClose, ConnOpen, ConnMatch, ConnFailed,
        SendValue, DropAll, Overdraw, ReplyOk, ReplyBad, Pong, MainStep, ServeHello, ServeNothing,
        ServeClose, ServeReconnect, ServeValue, InnerTake, PingStep, PingCheck, PingSend,
        PingReply, PingTimeout, DescentEnd
  <2>0. client # "crashed"
    BY DEF Next, vars, Link, DropReply, DropPing, Losses, LoseRequest, LoseReply, LosePing,
           ConnectPress, DisconnectPress, Enqueue, SaveSettings, ClientStep, ConnClose, ConnOpen,
           ConnMatch, ConnFailed, SendValue, DropAll, Overdraw, ReplyOk, ReplyBad, Pong, MainStep,
           ServeHello, ServeNothing, ServeClose, ServeReconnect, ServeValue, InnerTake, PingStep,
           PingCheck, PingSend, PingReply, PingTimeout, DescentEnd
  <2>6. Calm
    BY <2>0, <2>4, <2>5
  <2>7. /\ client \in ClientStates /\ pinger \in {"off", "check", "sleep", "wait"}
        /\ session \in {"outer", "inner"} /\ ping \in {"none", "PING?", "PONG!"}
    BY DEF TypeOK
  <2> HIDE DEF Quiet
  <2> USE DEF InStep, PingsHeard, ClientStates
  <2>8. CASE LoseRequest \/ LoseReply \/ LosePing
    BY <2>1, <2>8 DEF LoseRequest, LoseReply, LosePing
  <2>9. CASE DropReply \/ DropPing
    BY <2>6, <2>7, <2>9 DEF DropReply, DropPing
  <2>10. CASE ConnectPress
    BY <2>6, <2>7, <2>10 DEF ConnectPress
  <2>11. CASE ConnClose
    BY <2>6, <2>11 DEF ConnClose
  <2>12. CASE ConnOpen
    BY <2>6, <2>7, <2>12, OneDatagram DEF ConnOpen
  <2>13. CASE ConnMatch
    BY <2>6, <2>7, <2>13, OneDatagram DEF ConnMatch
  <2>14. CASE ConnFailed
    <3>1. toClient # <<>> => Head(toClient) = "VERSION MATCH"
      BY <2>6, <2>14, OneDatagram DEF ConnFailed
    <3>2. toClient = <<>> => toServer # <<>>
      BY <2>6, <2>14, OneDatagram DEF ConnFailed
    <3> QED BY <2>2, <2>6, <2>14, <3>1, <3>2 DEF ConnFailed
  <2>15. CASE Enqueue
    BY <2>6, <2>15 DEF Enqueue
  <2>30. CASE SaveSettings \/ DropAll
    <3>1. UNCHANGED <<client, error, sockOpen, pingOpen, toServer, toClient, ping, session,
                      emergency, pinger>>
      BY <2>30 DEF SaveSettings, DropAll
    <3> QED BY <2>6, <3>1
  <2>31. ~Overdraw
    BY DEF Overdraw
  <2>16. CASE SendValue
    <3>1. Thinned(queue) \in Seq(Values) /\ Thinned(queue) # <<>>
      BY <2>16, ThinnedKeepsOrder DEF SendValue, TypeOK
    <3>2. Head(Thinned(queue)) \in Values
      BY <3>1, HeadAndTail
    <3> QED BY <2>6, <2>7, <2>16, <3>2, OneDatagram DEF SendValue
  <2>17. CASE ReplyOk
    BY <2>6, <2>7, <2>17, OneDatagram DEF ReplyOk
  <2>18. CASE ReplyBad
    <3>1. toClient # <<>> => Head(toClient) = "RECV_OK"
      BY <2>6, <2>18, OneDatagram DEF ReplyBad
    <3>2. toClient = <<>> => toServer # <<>>
      BY <2>6, <2>18, OneDatagram DEF ReplyBad
    <3> QED BY <2>2, <2>6, <2>18, <3>1, <3>2 DEF ReplyBad
  <2>19. CASE Pong
    BY <2>6, <2>7, <2>19 DEF Pong
  <2>20. CASE ServeHello
    <3>1. client = "hello" /\ Head(toServer) = VersionString
      BY <2>6, <2>7, <2>20, OneDatagram DEF ServeHello
    <3> QED BY <2>6, <2>7, <2>20, <3>1, OneDatagram DEF ServeHello, StartPing
  <2>21. CASE ServeNothing
    BY <2>6, <2>21 DEF ServeNothing
  <2>22. ASSUME NEW m, InnerTake(m)
         PROVE  client = "reply" /\ toClient = <<>> /\ m \in Values /\ toServer' = <<>>
    BY <2>6, <2>7, <2>22, OneDatagram DEF InnerTake
  <2>23. CASE ServeClose \/ ServeReconnect
    <3>1. CONN_CLOSE \notin Values /\ VersionString \notin Values
      BY DEF Values, CONN_CLOSE, VersionString
    <3>2. InnerTake(CONN_CLOSE) \/ InnerTake(VersionString)
      BY <2>23 DEF ServeClose, ServeReconnect
    <3> QED BY <2>22, <3>1, <3>2
  <2>24. CASE ServeValue
    <3>1. PICK v \in Values : /\ InnerTake(v) /\ toClient' = Append(toClient, "RECV_OK")
                              /\ UNCHANGED <<session, pinger>>
      BY <2>24 DEF ServeValue
    <3>2. client = "reply" /\ toClient = <<>> /\ toServer' = <<>>
      BY <2>22, <3>1
    <3>3. toClient' = <<"RECV_OK">>
      BY <3>1, <3>2, OneDatagram
    <3>4. UNCHANGED <<clientVars, ping, emergency>>
      BY <3>1 DEF InnerTake
    <3> QED BY <2>6, <3>1, <3>2, <3>3, <3>4
  <2>25. CASE PingCheck \/ PingReply
    <3>1. /\ pinger # "off" /\ pinger' # "wait" /\ ping' = "none"
          /\ UNCHANGED <<clientVars, toServer, toClient, session, emergency>>
      BY <2>6, <2>25 DEF PingCheck, PingReply
    <3>2. client \notin {"down", "opening"}
      BY <2>6, <3>1
    <3>3. client = "hello" => session = "inner"
      BY <2>6, <3>1
    <3> QED BY <2>6, <3>1, <3>2, <3>3
  <2>26. CASE PingSend
    <3>1. session = "inner" => toClient = <<>> /\ client # "hello"
      BY <2>1, <2>26 DEF PingSend
    <3>2. session = "inner" => Connected
      BY <2>0, <2>6, <2>7, <3>1
    <3>3. /\ client \notin {"down", "opening"}
          /\ client = "hello" => session = "inner"
      BY <2>6, <2>26 DEF PingSend
    <3>4. UNCHANGED <<clientVars, toServer, toClient, session, emergency>>
      BY <2>26 DEF PingSend
    <3>5. CASE session = "inner"
      <4>1. pinger' = "wait" /\ ping' = "PING?"
        BY <2>26, <3>5 DEF PingSend
      <4> QED BY <2>6, <3>2, <3>3, <3>4, <3>5, <4>1
    <3>6. CASE session # "inner"
      <4>1. pinger' = "check" /\ ping' = "none"
        BY <2>6, <2>26, <3>6 DEF PingSend
      <4> QED BY <2>6, <3>3, <3>4, <3>6, <4>1
    <3> QED BY <3>5, <3>6
  <2>27. CASE PingTimeout
    <3>1. pinger = "wait" /\ ping = "none"
      BY <2>1, <2>27 DEF PingTimeout
    <3> QED BY <2>6, <3>1
  <2>28. CASE DescentEnd
    BY <2>6, <2>28 DEF DescentEnd
  <2>29. CASE UNCHANGED vars
    BY <2>6, <2>29 DEF vars
  <2> QED
    BY <2>3, <2>8, <2>9, <2>10, <2>11, <2>12, <2>13, <2>14, <2>15, <2>16, <2>17, <2>18, <2>19,
       <2>20, <2>21, <2>23, <2>24, <2>25, <2>26, <2>27, <2>28, <2>29, <2>30, <2>31
    DEF Next, Link, Losses, ClientStep, MainStep, PingStep
<1> QED BY <1>1, <1>2, TypeCorrect, PTL DEF Spec

(* Until the first fault, the first time the user hangs up and a crash of   *)
(* the application, the server never raises an emergency (server.py 72-98,  *)
(* DroneSocketClient 120-145).                                              *)
THEOREM AlarmNeedsFault == Spec => []NoFalseAlarm
<1>1. TypeOK /\ Quiet => NoFalseAlarm
  BY DEF TypeOK, Quiet, Calm, NoFalseAlarm
<1> QED BY <1>1, TypeCorrect, QuietKept, PTL
=============================================================================
