----------------------------- MODULE DroneLink -----------------------------
(***************************************************************************)
(* The application and the server over the wireless link: DroneViewActivity*)
(* and DroneSocketClient.java on one end, the main loop and the ping       *)
(* thread of server.py on the other, and the datagrams between them.       *)
(*                                                                         *)
(* Each end is taken here at the grain of its datagrams: one client object,*)
(* sender and listener at a time, and one ping thread.  What the threads   *)
(* of one end do to each other is in DroneClient and DroneServer.          *)
(*                                                                         *)
(* The link is one radio hop: datagrams keep their order, but may be lost  *)
(* or come later than whoever waits for them is willing to wait.  Both are *)
(* faults, and there are at most MaxFaults of them.                        *)
(***************************************************************************)
EXTENDS Integers, Sequences, SequencesExt

CONSTANTS
    Settings,       \* how many values to drop (queue10, ...), by queue length:
                    \* the settings the user may save
    MaxValues,      \* bound: values the joystick produces
    MaxFaults,      \* bound: datagrams lost or late
    MaxHangUps,     \* bound: connections the user ends
    MaxInFlight     \* bound: datagrams under way each way when a connect starts

\* Any number of digits goes: nothing relates what is dropped to what is there.
ASSUME SettingsAssumption ==
    \A d \in Settings : DOMAIN d \subseteq Nat \ {0} /\ \A t \in DOMAIN d : d[t] \in Nat
ASSUME BoundsAssumption ==
    MaxValues \in Nat /\ MaxFaults \in Nat /\ MaxHangUps \in Nat /\ MaxInFlight \in Nat

VARIABLES
    client,         \* where the connection stands on the client's side
    error,          \* connectionError
    sockOpen, pingOpen,     \* clientSocket and pingAliveSocket
    queue,          \* asyncValuesQueue
    made,           \* the values the joystick has produced: 1, 2, ...
    drops,          \* the setting in force
    toServer, toClient,     \* datagrams between the command ports
    ping,           \* the PING? or PONG! under way
    session,        \* the loop the server's main thread is in
    closed, emergency,      \* the server's globals
    pinger,         \* where the ping thread is
    applied,        \* the last value written to the servos
    faults,         \* datagrams lost or late so far
    hangUps         \* connections the user has ended so far

clientVars == <<client, error, sockOpen, pingOpen, queue, made, drops>>
serverVars == <<session, closed, emergency, pinger, applied>>
vars == <<clientVars, toServer, toClient, ping, serverVars, faults, hangUps>>

\* What the client sends: a command is the number of its values.
Values == 1..MaxValues
VersionString == 0
CONN_CLOSE == -1
Requests == Values \cup {VersionString, CONN_CLOSE}
Replies == {"VERSION MATCH", "VERSION MISMATCH", "RECV_OK"}

\* down: not connected; closing, opening, hello: the steps of a connect;
\* idle: connected; reply: connected, and the sender waits for its answer;
\* crashed: the application is gone
ClientStates == {"down", "closing", "opening", "hello", "idle", "reply", "crashed"}

TypeOK ==
    /\ client \in ClientStates
    /\ error \in BOOLEAN /\ sockOpen \in BOOLEAN /\ pingOpen \in BOOLEAN
    /\ queue \in Seq(Values) /\ made \in 0..MaxValues /\ drops \in Settings
    /\ toServer \in Seq(Requests) /\ toClient \in Seq(Replies)
    /\ ping \in {"none", "PING?", "PONG!"}
    /\ session \in {"outer", "inner"} /\ closed \in BOOLEAN /\ emergency \in BOOLEAN
    /\ pinger \in {"off", "check", "sleep", "wait"}
    /\ applied \in 0..MaxValues
    /\ faults \in 0..MaxFaults /\ hangUps \in 0..MaxHangUps

Init ==
    /\ client = "down" /\ error = FALSE /\ sockOpen = FALSE /\ pingOpen = FALSE
    /\ queue = <<>> /\ made = 0 /\ drops \in Settings
    /\ toServer = <<>> /\ toClient = <<>> /\ ping = "none"
    /\ session = "outer" /\ closed = FALSE /\ emergency = FALSE /\ pinger = "off"
    /\ applied = 0 /\ faults = 0 /\ hangUps = 0

Connected == client \in {"idle", "reply"}       \* socketConnection

-----------------------------------------------------------------------------
(* The link *)

Fault == faults < MaxFaults /\ faults' = faults + 1

LoseRequest ==
    /\ toServer # <<>> /\ toServer' = Tail(toServer)
    /\ Fault
    /\ UNCHANGED <<clientVars, toClient, ping, serverVars, hangUps>>

LoseReply ==
    /\ toClient # <<>> /\ toClient' = Tail(toClient)
    /\ Fault
    /\ UNCHANGED <<clientVars, toServer, ping, serverVars, hangUps>>

LosePing ==
    /\ ping # "none" /\ ping' = "none"
    /\ Fault
    /\ UNCHANGED <<clientVars, toServer, toClient, serverVars, hangUps>>

\* Nothing listens on the port, or nobody will read the socket again.
DropReply ==
    /\ ~sockOpen \/ client = "down"
    /\ toClient # <<>> /\ toClient' = Tail(toClient)
    /\ UNCHANGED <<clientVars, toServer, ping, serverVars, faults, hangUps>>

DropPing ==
    /\ ~pingOpen /\ ping = "PING?" /\ ping' = "none"
    /\ UNCHANGED <<clientVars, toServer, toClient, serverVars, faults, hangUps>>

\* Three seconds of waiting run out, or a user comes to act: by then everything
\* has arrived and been served, unless it is late, or the server has left its
\* inner loop and reads nothing before its emergency ends.
TimePasses ==
    IF toClient = <<>> /\ (toServer = <<>> \/ (emergency /\ session = "outer"))
      THEN UNCHANGED faults
      ELSE Fault

-----------------------------------------------------------------------------
(* The client *)

\* closeConnection.  What had reached the closed socket is lost with it.
CloseConnection ==
    /\ pingOpen' = FALSE /\ sockOpen' = FALSE
    /\ toServer' = IF sockOpen THEN Append(toServer, CONN_CLOSE) ELSE toServer
    /\ IF sockOpen
         THEN \E n \in 0..Len(toClient) : toClient' = SubSeq(toClient, n + 1, Len(toClient))
         ELSE toClient' = toClient

\* The button starts AsyncSocketConnect: after an error the old connection is
\* closed first.
ConnectPress ==
    /\ client = "down"
    /\ TimePasses
    /\ client' = IF error THEN "closing" ELSE "opening"
    /\ UNCHANGED <<error, sockOpen, pingOpen, queue, made, drops, toServer, toClient, ping,
                   serverVars, hangUps>>

ConnClose ==
    /\ client = "closing" /\ client' = "opening"
    /\ error' = FALSE
    /\ CloseConnection
    /\ UNCHANGED <<queue, made, drops, ping, serverVars, faults, hangUps>>

\* A new socket on the same port, and the version string
ConnOpen ==
    /\ client = "opening" /\ client' = "hello"
    /\ Len(toClient) <= MaxInFlight /\ Len(toServer) <= MaxInFlight
    /\ sockOpen' = TRUE
    /\ toServer' = Append(toServer, VersionString)
    /\ UNCHANGED <<error, pingOpen, queue, made, drops, toClient, ping, serverVars, faults,
                   hangUps>>

\* Mutant: the ping socket is left for later.
ConnMatchDeaf ==
    /\ client = "hello" /\ client' = "idle"
    /\ toClient # <<>> /\ Head(toClient) = "VERSION MATCH" /\ toClient' = Tail(toClient)
    /\ queue' = <<>>
    /\ UNCHANGED <<error, sockOpen, pingOpen, made, drops, toServer, ping, serverVars, faults,
                   hangUps>>

ConnMatch ==
    /\ client = "hello" /\ client' = "idle"
    /\ toClient # <<>> /\ Head(toClient) = "VERSION MATCH" /\ toClient' = Tail(toClient)
    /\ pingOpen' = TRUE
    /\ queue' = <<>>
    /\ UNCHANGED <<error, sockOpen, made, drops, toServer, ping, serverVars, faults, hangUps>>

ConnFailed ==
    /\ client = "hello" /\ client' = "down"
    /\ error' = TRUE
    /\ \/ /\ toClient # <<>> /\ Head(toClient) # "VERSION MATCH" /\ toClient' = Tail(toClient)
          /\ UNCHANGED faults
       \/ TimePasses /\ UNCHANGED toClient
    /\ UNCHANGED <<sockOpen, pingOpen, queue, made, drops, toServer, ping, serverVars, hangUps>>

\* The user ends the connection.  A sender that waits for its answer takes the
\* closed socket for an error and connects again.
DisconnectPress ==
    /\ Connected /\ hangUps < MaxHangUps
    /\ client' = IF client = "reply" THEN "closing" ELSE "down"
    /\ error' = (client = "reply")
    /\ CloseConnection
    /\ hangUps' = hangUps + 1
    /\ UNCHANGED <<queue, made, drops, ping, serverVars, faults>>

\* Mutant: the string is made before the values are set.
EnqueueEarly ==
    /\ Connected /\ made < MaxValues
    /\ made' = made + 1
    /\ queue' = Append(queue, made)
    /\ UNCHANGED <<client, error, sockOpen, pingOpen, drops, toServer, toClient, ping,
                   serverVars, faults, hangUps>>

Enqueue ==
    /\ Connected /\ made < MaxValues
    /\ made' = made + 1
    /\ queue' = Append(queue, made + 1)
    /\ UNCHANGED <<client, error, sockOpen, pingOpen, drops, toServer, toClient, ping,
                   serverVars, faults, hangUps>>

\* The user saves other numbers; the sender finds them the next time it thins.
SaveSettings ==
    /\ client # "crashed"
    /\ drops' \in Settings
    /\ UNCHANGED <<client, error, sockOpen, pingOpen, queue, made, toServer, toClient, ping,
                   serverVars, faults, hangUps>>

\* removeExcessiveValues: the highest threshold that is reached counts.
Excess(n) ==
    LET reached == {t \in DOMAIN drops : t <= n}
    IN  IF reached = {} THEN 0
        ELSE drops[CHOOSE t \in reached : \A u \in reached : u <= t]

\* Mutant: the newest values are dropped.
ThinnedLast(q) == SubSeq(q, 1, Len(q) - Excess(Len(q)))

Thinned(q) == SubSeq(q, Excess(Len(q)) + 1, Len(q))

\* Mutant: the newest value is sent first.
SendNewest ==
    /\ client = "idle" /\ client' = "reply"
    /\ Excess(Len(queue)) < Len(queue)
    /\ toServer' = Append(toServer, Last(queue))
    /\ queue' = Front(Thinned(queue))
    /\ UNCHANGED <<error, sockOpen, pingOpen, made, drops, toClient, ping, serverVars, faults,
                   hangUps>>

\* The sender thins the queue, takes the first value that is left and sends it.
SendValue ==
    /\ client = "idle" /\ client' = "reply"
    /\ Excess(Len(queue)) < Len(queue)
    /\ toServer' = Append(toServer, Head(Thinned(queue)))
    /\ queue' = Tail(Thinned(queue))
    /\ UNCHANGED <<error, sockOpen, pingOpen, made, drops, toClient, ping, serverVars, faults,
                   hangUps>>

\* Thinning takes the whole queue, the newest value included: nothing is sent.
DropAll ==
    /\ client = "idle"
    /\ queue # <<>> /\ Excess(Len(queue)) = Len(queue)
    /\ queue' = <<>>
    /\ UNCHANGED <<client, error, sockOpen, pingOpen, made, drops, toServer, toClient, ping,
                   serverVars, faults, hangUps>>

\* Thinning goes on where nothing is left: removeFirst throws, outside the try, and
\* the application goes down with its sockets.
Overdraw ==
    /\ client = "idle" /\ client' = "crashed"
    /\ Excess(Len(queue)) > Len(queue)
    /\ queue' = <<>> /\ sockOpen' = FALSE /\ pingOpen' = FALSE
    /\ UNCHANGED <<error, made, drops, toServer, toClient, ping, serverVars, faults, hangUps>>

ReplyOk ==
    /\ client = "reply" /\ client' = "idle"
    /\ toClient # <<>> /\ Head(toClient) = "RECV_OK" /\ toClient' = Tail(toClient)
    /\ UNCHANGED <<error, sockOpen, pingOpen, queue, made, drops, toServer, ping, serverVars,
                   faults, hangUps>>

\* Another reply, or none in time: the sender ends and starts a connect.
ReplyBad ==
    /\ client = "reply" /\ client' = "closing"
    /\ error' = TRUE
    /\ \/ /\ toClient # <<>> /\ Head(toClient) # "RECV_OK" /\ toClient' = Tail(toClient)
          /\ UNCHANGED faults
       \/ TimePasses /\ UNCHANGED toClient
    /\ UNCHANGED <<sockOpen, pingOpen, queue, made, drops, toServer, ping, serverVars, hangUps>>

\* The listener answers a ping, whatever else the client does.
Pong ==
    /\ pingOpen /\ ping = "PING?" /\ ping' = "PONG!"
    /\ UNCHANGED <<clientVars, toServer, toClient, serverVars, faults, hangUps>>

-----------------------------------------------------------------------------
(* The server *)

\* A ping thread is started; one that still runs keeps the port, and the new
\* one gives up.
StartPing == pinger' = IF pinger = "off" THEN "check" ELSE pinger

\* The outer loop takes anything for a version string, CONN_CLOSE included.
ServeHello ==
    /\ session = "outer" /\ ~emergency
    /\ toServer # <<>> /\ toServer' = Tail(toServer)
    /\ IF Head(toServer) = VersionString
         THEN /\ toClient' = Append(toClient, "VERSION MATCH")
              /\ session' = "inner" /\ closed' = FALSE
              /\ StartPing
         ELSE /\ toClient' = Append(toClient, "VERSION MISMATCH")
              /\ UNCHANGED <<session, closed, pinger>>
    /\ UNCHANGED <<clientVars, ping, emergency, applied, faults, hangUps>>

\* The inner loop swallows what comes during an emergency.
ServeNothing ==
    /\ session = "inner" /\ emergency
    /\ toServer # <<>> /\ toServer' = Tail(toServer)
    /\ UNCHANGED <<clientVars, toClient, ping, serverVars, faults, hangUps>>

InnerTake(m) ==
    /\ session = "inner" /\ ~emergency
    /\ toServer # <<>> /\ Head(toServer) = m /\ toServer' = Tail(toServer)
    /\ UNCHANGED <<clientVars, ping, emergency, faults, hangUps>>

ServeClose ==
    /\ InnerTake(CONN_CLOSE)
    /\ session' = "outer" /\ closed' = TRUE
    /\ UNCHANGED <<toClient, pinger, applied>>

ServeReconnect ==
    /\ InnerTake(VersionString)
    /\ toClient' = Append(toClient, "VERSION MATCH")
    /\ closed' = FALSE /\ StartPing
    /\ UNCHANGED <<session, applied>>

ServeValue ==
    \E v \in Values :
        /\ InnerTake(v)
        /\ applied' = v
        /\ toClient' = Append(toClient, "RECV_OK")
        /\ UNCHANGED <<session, closed, pinger>>

PingCheck ==
    /\ pinger = "check" /\ pinger' = IF closed THEN "off" ELSE "sleep"
    /\ UNCHANGED <<clientVars, toServer, toClient, ping, session, closed, emergency, applied,
                   faults, hangUps>>

\* After 1.5 seconds, if the main thread waits for a command.  A reply that is
\* still under way then counts as late.
PingSend ==
    /\ pinger = "sleep"
    /\ IF session = "inner"
         THEN /\ IF toClient = <<>> /\ client # "hello" THEN UNCHANGED faults ELSE Fault
              /\ pinger' = "wait" /\ ping' = "PING?"
         ELSE pinger' = "check" /\ UNCHANGED <<ping, faults>>
    /\ UNCHANGED <<clientVars, toServer, toClient, session, closed, emergency, applied, hangUps>>

PingReply ==
    /\ pinger = "wait" /\ ping = "PONG!"
    /\ pinger' = "check" /\ ping' = "none"
    /\ UNCHANGED <<clientVars, toServer, toClient, session, closed, emergency, applied, faults,
                   hangUps>>

\* Two seconds without an answer: the session is closed and a descent starts.
\* That they end just while a connect or a request is on its way is a fault too.
PingTimeout ==
    /\ pinger = "wait" /\ pinger' = "off"
    /\ IF ping = "none" /\ toServer = <<>> /\ client # "opening" THEN UNCHANGED faults ELSE Fault
    /\ ping' = "none"       \* a late one finds the port closed
    /\ emergency' = TRUE /\ closed' = TRUE
    /\ UNCHANGED <<clientVars, toServer, toClient, session, applied, hangUps>>

\* Mutant: a descent forgets the emergency when the session has been closed.
DescentEndOpen ==
    /\ emergency /\ session = "inner" /\ emergency' = FALSE
    /\ UNCHANGED <<clientVars, toServer, toClient, ping, session, closed, pinger, applied,
                   faults, hangUps>>

DescentEnd ==
    /\ emergency /\ emergency' = FALSE
    /\ UNCHANGED <<clientVars, toServer, toClient, ping, session, closed, pinger, applied,
                   faults, hangUps>>

-----------------------------------------------------------------------------
Link == DropReply \/ DropPing

Losses == LoseRequest \/ LoseReply \/ LosePing

ClientStep == ConnClose \/ ConnOpen \/ ConnMatch \/ ConnFailed
              \/ SendValue \/ DropAll \/ Overdraw \/ ReplyOk \/ ReplyBad

MainStep == ServeHello \/ ServeNothing \/ ServeClose \/ ServeReconnect \/ ServeValue

PingStep == PingCheck \/ PingSend \/ PingReply \/ PingTimeout

Next ==
    \/ Link \/ Losses
    \/ ConnectPress \/ DisconnectPress \/ Enqueue \/ SaveSettings
    \/ ClientStep \/ Pong \/ MainStep \/ PingStep \/ DescentEnd

Spec == Init /\ [][Next]_vars

\* Both programs and the link go on, a descent ends, and waits run out.  The
\* user tries again as long as there is no connection.
FairSpec ==
    /\ Spec
    /\ WF_vars(Link) /\ WF_vars(ClientStep) /\ WF_vars(Pong)
    /\ WF_vars(MainStep) /\ WF_vars(PingStep) /\ WF_vars(DescentEnd)
    /\ WF_vars(ConnectPress)

-----------------------------------------------------------------------------
(* Properties *)

\* Whatever is thinned out, lost or late, and however often the one client object
\* and its one sender connect again, the servos never go back to an older command:
\* the queue, the datagrams and the server keep their order (DroneViewActivity 572,
\* 586-617; server.py 131-162).
NeverBack == [][applied' >= applied]_vars

\* Until the first fault and the first time the user hangs up, and as long as the
\* application does not crash, the server never raises an emergency: every PING?
\* finds a listener, the first one included (server.py 72-98, DroneSocketClient
\* 120-145).
NoFalseAlarm == emergency => faults > 0 \/ hangUps > 0 \/ client = "crashed"

\* The settings ask for all that is in the queue, or more.
Overdrawn == queue # <<>> /\ Excess(Len(queue)) >= Len(queue)

\* In a session without faults, what is last in the queue gets to the servos, or
\* something newer does, unless the queue reaches a length at which the settings ask
\* for all of it: short of that, thinning keeps the newest, and no answer is taken
\* for that to another command.  (After a fault, or when the user hangs up while
\* PING? is under way, the answers can get one command behind, and a RECV_OK then
\* confirms a command that an emergency has swallowed.)
LastValueArrives ==
    \A v \in Values :
        (queue # <<>> /\ Last(queue) = v)
            ~> (applied >= v \/ faults > 0 \/ hangUps > 0 \/ Overdrawn)

\* A user who keeps trying is connected again once the faults are over: a late
\* RECV_OK or VERSION MATCH read as the next answer, the reply to a CONN_CLOSE
\* that came too late and an emergency that swallows datagrams do not keep the
\* two ends out of step for ever (DroneSocketClient 76-109, server.py 117-165).
UserGetsThrough == client = "down" ~> client = "idle"
=============================================================================
