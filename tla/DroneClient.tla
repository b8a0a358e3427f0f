---------------------------- MODULE DroneClient ----------------------------
(***************************************************************************)
(* The connection of the Android application to the drone                  *)
(* (DroneViewActivity.java, DroneSocketClient.java): the UI thread with    *)
(* the connect button and the onPostExecute callbacks, the connect tasks   *)
(* that AsyncTask.execute runs one at a time, and the sender and ping      *)
(* listener that every successful connect starts.  They share the flags    *)
(* socketConnection and connectionError, the field droneSocketClient and   *)
(* the queue of values, without a lock.                                    *)
(*                                                                         *)
(* The server and the network are the environment: any reply may come, or  *)
(* none.  What is in the queue is left out, only its length counts.        *)
(***************************************************************************)
EXTENDS Integers, Sequences

CONSTANTS
    Clients,        \* identities of DroneSocketClient objects, reused
    NoClient,       \* droneSocketClient = null
    Senders, Listeners,     \* identities of background tasks, reused
    MaxQueue,       \* bound: values queued at once
    MaxConnects     \* bound: connects queued, and results not yet handled

ASSUME ClientsAssumption == NoClient \notin Clients
ASSUME BoundsAssumption == MaxQueue \in Nat /\ MaxConnects \in Nat

VARIABLES
    socketConnection, connectionError,
    client,             \* the field droneSocketClient
    sock, psock,        \* clientSocket and pingAliveSocket of each object
    queue,              \* length of asyncValuesQueue
    pending,            \* connect tasks that execute() has queued
    conn,               \* where the running connect task is
    posted,             \* results of connect tasks, for onPostExecute
    sender, sendOn,     \* where each sender is, the object it waits on
    listener, listenOn, \* the same for the ping listeners
    crashed,            \* the uncaught exception that ended the application
    ended               \* history: the user ended a healthy connection, and has
                        \* not asked for another

flags == <<socketConnection, connectionError>>
sockets == <<client, sock, psock>>
connects == <<pending, conn, posted>>
senders == <<sender, sendOn>>
listeners == <<listener, listenOn>>
vars == <<flags, sockets, queue, connects, senders, listeners, crashed, ended>>

SocketStates == {"none", "open", "closed"}
ConnStates == {"idle", "close", "clear", "make", "hello", "bindPing"}
SenderStates == {"idle", "check", "peek", "take", "reply", "fail", "error", "done"}
ListenerStates == {"idle", "check", "call", "recv", "fail", "error"}
Crashes == {"no", "nullClient", "nullPing", "emptyQueue"}

TypeOK ==
    /\ socketConnection \in BOOLEAN /\ connectionError \in BOOLEAN /\ ended \in BOOLEAN
    /\ client \in Clients \cup {NoClient}
    /\ sock \in [Clients -> SocketStates] /\ psock \in [Clients -> SocketStates]
    /\ queue \in 0..MaxQueue /\ pending \in 0..MaxConnects
    /\ conn \in ConnStates
    /\ posted \in Seq(BOOLEAN) /\ Len(posted) <= MaxConnects
    /\ sender \in [Senders -> SenderStates] /\ listener \in [Listeners -> ListenerStates]
    /\ sendOn \in [Senders -> Clients \cup {NoClient}]
    /\ listenOn \in [Listeners -> Clients \cup {NoClient}]
    /\ crashed \in Crashes

Init ==
    /\ socketConnection = FALSE /\ connectionError = FALSE /\ ended = FALSE
    /\ client = NoClient
    /\ sock = [c \in Clients |-> "none"] /\ psock = [c \in Clients |-> "none"]
    /\ queue = 0 /\ pending = 0
    /\ conn = "idle" /\ posted = <<>>
    /\ sender = [s \in Senders |-> "idle"] /\ sendOn = [s \in Senders |-> NoClient]
    /\ listener = [l \in Listeners |-> "idle"] /\ listenOn = [l \in Listeners |-> NoClient]
    /\ crashed = "no"

-----------------------------------------------------------------------------
\* An exception that nobody catches ends the application.
Alive == crashed = "no"

(* DroneSocketClient *)

\* A port is bound by one socket at a time.
PortTaken(s) == \E c \in Clients : s[c] = "open"

\* closeConnection: the ping socket, then CONN_CLOSE and the command socket.
\* When CONN_CLOSE cannot be sent the exception leaves the command socket open.
CloseConnection ==
    /\ psock' = [psock EXCEPT ![client] = IF @ = "open" THEN "closed" ELSE @]
    /\ \/ sock' = [sock EXCEPT ![client] = IF @ = "open" THEN "closed" ELSE @]
       \/ sock' = sock
    /\ UNCHANGED client

\* Identities of objects that nobody refers to and that hold no port
Fresh == {c \in Clients \ {client} :
             /\ sock[c] # "open" /\ psock[c] # "open"
             /\ \A s \in Senders : sendOn[s] # c
             /\ \A l \in Listeners : listenOn[l] # c}

-----------------------------------------------------------------------------
(* The UI thread *)

\* The button, or the D-pad, while not connected
ConnectPress ==
    /\ Alive /\ ~socketConnection
    /\ pending < MaxConnects
    /\ pending' = pending + 1
    /\ ended' = FALSE
    /\ UNCHANGED <<flags, sockets, queue, conn, posted, senders, listeners, crashed>>

\* Nothing has failed and no connect is under way.
Settled ==
    /\ ~connectionError /\ pending = 0 /\ conn = "idle" /\ posted = <<>>
    /\ \A s \in Senders : sender[s] \notin {"fail", "error"}
    /\ \A l \in Listeners : listener[l] \notin {"fail", "error"}

\* ... and while connected
DisconnectPress ==
    /\ Alive /\ socketConnection
    /\ socketConnection' = FALSE
    /\ CloseConnection
    /\ ended' = Settled
    /\ UNCHANGED <<connectionError, queue, connects, senders, listeners, crashed>>

\* A joystick event queues the new values.
Enqueue ==
    /\ Alive /\ socketConnection
    /\ queue < MaxQueue
    /\ queue' = queue + 1
    /\ UNCHANGED <<flags, sockets, connects, senders, listeners, crashed, ended>>

FreeListeners == {l \in Listeners : listener[l] = "idle"}

\* onPostExecute of a connect task: a new queue, a listener and a sender.  A
\* listener may wait for PING? for ever: one more than Listeners is left out.
OnConnected ==
    /\ Alive /\ posted # <<>> /\ Head(posted)
    /\ posted' = Tail(posted)
    /\ queue' = 0
    /\ socketConnection' = TRUE
    /\ IF FreeListeners = {}
         THEN listener' = listener
         ELSE \E l \in FreeListeners : listener' = [listener EXCEPT ![l] = "check"]
    /\ \E s \in Senders : sender[s] = "idle" /\ sender' = [sender EXCEPT ![s] = "check"]
    /\ UNCHANGED <<connectionError, sockets, pending, conn, sendOn, listenOn, crashed, ended>>

\* Mutant: a failed connect is not reported.
OnConnectFailedQuiet ==
    /\ Alive /\ posted # <<>> /\ ~Head(posted)
    /\ posted' = Tail(posted)
    /\ UNCHANGED <<flags, sockets, queue, pending, conn, senders, listeners, crashed, ended>>

OnConnectFailed ==
    /\ Alive /\ posted # <<>> /\ ~Head(posted)
    /\ posted' = Tail(posted)
    /\ connectionError' = TRUE
    /\ UNCHANGED <<socketConnection, sockets, queue, pending, conn, senders, listeners,
                   crashed, ended>>

\* Mutant: the connection is not resumed.
OnSenderDoneQuiet(s) ==
    /\ Alive /\ sender[s] = "done" /\ sender' = [sender EXCEPT ![s] = "idle"]
    /\ UNCHANGED <<flags, sockets, queue, connects, sendOn, listeners, crashed, ended>>

\* onPostExecute of a sender: after an error the connection is resumed (a connect
\* beyond MaxConnects queued ones is left out).
OnSenderDone(s) ==
    /\ Alive /\ sender[s] = "done" /\ sender' = [sender EXCEPT ![s] = "idle"]
    /\ pending' = IF connectionError /\ pending < MaxConnects THEN pending + 1 ELSE pending
    /\ UNCHANGED <<flags, sockets, queue, conn, posted, sendOn, listeners, crashed, ended>>

-----------------------------------------------------------------------------
(* The connect task *)

ConnGoto(from, to) == Alive /\ conn = from /\ conn' = to

Finish(from, result) ==
    /\ ConnGoto(from, "idle")
    /\ posted' = Append(posted, result)
    /\ UNCHANGED <<pending, flags, queue, senders, listeners, crashed, ended>>

\* Mutant: the executor does not wait for a task.
ConnStartAgain ==
    /\ pending' = pending - 1
    /\ Len(posted) < MaxConnects
    /\ ConnGoto("idle", IF connectionError THEN "close" ELSE "make")
    /\ UNCHANGED <<flags, sockets, queue, posted, senders, listeners, crashed, ended>>

ConnStart ==
    /\ pending > 0 /\ pending' = pending - 1
    /\ Len(posted) < MaxConnects
    /\ ConnGoto("idle", IF connectionError THEN "close" ELSE "make")
    /\ UNCHANGED <<flags, sockets, queue, posted, senders, listeners, crashed, ended>>

\* After an error the old connection is closed first; there may be none.
ConnClose ==
    /\ ConnGoto("close", "clear")
    /\ IF client = NoClient
         THEN crashed' = "nullClient" /\ UNCHANGED sockets
         ELSE crashed' = crashed /\ CloseConnection
    /\ UNCHANGED <<flags, queue, pending, posted, senders, listeners, ended>>

ConnClear ==
    /\ ConnGoto("clear", "make")
    /\ connectionError' = FALSE
    /\ UNCHANGED <<socketConnection, sockets, queue, pending, posted, senders, listeners,
                   crashed, ended>>

\* Mutant: the port is taken from the socket that has it.
ConnMakeAnyway ==
    /\ ConnGoto("make", "hello")
    /\ \E c \in Fresh :
          /\ client' = c
          /\ sock' = [sock EXCEPT ![c] = "open"] /\ psock' = [psock EXCEPT ![c] = "none"]
    /\ UNCHANGED <<flags, queue, pending, posted, senders, listeners, crashed, ended>>

\* The constructor binds clientPort, and the new object becomes droneSocketClient;
\* when it throws, the field keeps the old one.
ConnMake ==
    /\ ~PortTaken(sock)
    /\ ConnGoto("make", "hello")
    /\ \E c \in Fresh :
          /\ client' = c
          /\ sock' = [sock EXCEPT ![c] = "open"] /\ psock' = [psock EXCEPT ![c] = "none"]
    /\ UNCHANGED <<flags, queue, pending, posted, senders, listeners, crashed, ended>>

ConnNotMade ==      \* unknown host, or the port is taken (here or by another process)
    Finish("make", FALSE) /\ UNCHANGED sockets

\* The version string is sent and the reply awaited, three seconds at most.
ConnMatch ==
    /\ ConnGoto("hello", "bindPing")
    /\ sock[client] = "open"
    /\ UNCHANGED <<flags, sockets, queue, pending, posted, senders, listeners, crashed, ended>>

ConnNoMatch == Finish("hello", FALSE) /\ UNCHANGED sockets

ConnBindPing ==
    IF PortTaken(psock)
      THEN Finish("bindPing", FALSE) /\ UNCHANGED sockets
      ELSE /\ Finish("bindPing", TRUE)
           /\ psock' = [psock EXCEPT ![client] = "open"]
           /\ UNCHANGED <<client, sock>>

-----------------------------------------------------------------------------
(* A sender *)

SenderGoto(s, from, to) ==
    /\ Alive /\ sender[s] = from /\ sender' = [sender EXCEPT ![s] = to]
    /\ UNCHANGED <<sockets, connects, listeners, ended>>

SenderCheck(s) ==
    /\ SenderGoto(s, "check", IF socketConnection /\ ~connectionError THEN "peek" ELSE "done")
    /\ UNCHANGED <<flags, queue, sendOn, crashed>>

\* peekFirst tells whether there is a value ...
SenderPeek(s) ==
    /\ SenderGoto(s, "peek", IF queue > 0 THEN "take" ELSE "check")
    /\ UNCHANGED <<flags, queue, sendOn, crashed>>

\* ... and removeFirst takes it, from whatever queue there is by then: it throws
\* NoSuchElementException when that one is empty.  The value is then sent.
SenderTake(s) ==
    /\ SenderGoto(s, "take", "reply")
    /\ sendOn' = [sendOn EXCEPT ![s] = client]
    /\ IF queue = 0
         THEN crashed' = "emptyQueue" /\ UNCHANGED queue
         ELSE queue' = queue - 1 /\ UNCHANGED crashed
    /\ UNCHANGED flags

Answered(s, to) ==
    /\ SenderGoto(s, "reply", to)
    /\ sendOn' = [sendOn EXCEPT ![s] = NoClient]
    /\ UNCHANGED <<flags, queue, crashed>>

SenderAck(s) ==         \* RECV_OK
    Answered(s, "check") /\ sock[sendOn[s]] = "open"

SenderNoAck(s) ==       \* another reply, none in three seconds, or an error
    Answered(s, "fail") /\ sock[sendOn[s]] = "open"

SenderClosed(s) ==      \* somebody closed the socket: an exception as well
    Answered(s, "fail") /\ sock[sendOn[s]] # "open"

\* The two flags are set one after the other.
SenderFail(s) ==
    /\ SenderGoto(s, "fail", "error")
    /\ socketConnection' = FALSE
    /\ UNCHANGED <<connectionError, queue, sendOn, crashed>>

SenderError(s) ==
    /\ SenderGoto(s, "error", "done")
    /\ connectionError' = TRUE
    /\ UNCHANGED <<socketConnection, queue, sendOn, crashed>>

-----------------------------------------------------------------------------
(* A ping listener *)

ListenerGoto(l, from, to) ==
    /\ Alive /\ listener[l] = from /\ listener' = [listener EXCEPT ![l] = to]
    /\ UNCHANGED <<sockets, queue, connects, senders, ended>>

ListenerCheck(l) ==
    /\ ListenerGoto(l, "check", IF socketConnection /\ ~connectionError THEN "call" ELSE "idle")
    /\ UNCHANGED <<flags, listenOn, crashed>>

\* pingAwaitAndReply on whatever client there is by then: its ping socket is
\* null until confirmVersionCompability has created it.
ListenerCall(l) ==
    /\ ListenerGoto(l, "call", "recv")
    /\ listenOn' = [listenOn EXCEPT ![l] = client]
    /\ crashed' = IF psock[client] = "none" THEN "nullPing" ELSE crashed
    /\ UNCHANGED flags

Heard(l, to) ==
    /\ ListenerGoto(l, "recv", to)
    /\ listenOn' = [listenOn EXCEPT ![l] = NoClient]
    /\ UNCHANGED <<flags, crashed>>

ListenerPing(l) ==      \* PING? is answered with PONG!
    Heard(l, "check") /\ psock[listenOn[l]] = "open"

ListenerClosed(l) ==    \* the exception of a closed socket counts as success
    Heard(l, "check") /\ psock[listenOn[l]] # "open"

ListenerBad(l) ==       \* another message, or an error
    Heard(l, "fail") /\ psock[listenOn[l]] = "open"

ListenerFail(l) ==
    /\ ListenerGoto(l, "fail", "error")
    /\ socketConnection' = FALSE
    /\ UNCHANGED <<connectionError, listenOn, crashed>>

ListenerError(l) ==
    /\ ListenerGoto(l, "error", "idle")
    /\ connectionError' = TRUE
    /\ UNCHANGED <<socketConnection, listenOn, crashed>>

-----------------------------------------------------------------------------
User == ConnectPress \/ DisconnectPress \/ Enqueue

Callback == OnConnected \/ OnConnectFailed \/ \E s \in Senders : OnSenderDone(s)

Connect == ConnStart \/ ConnClose \/ ConnClear \/ ConnMake \/ ConnNotMade \/ ConnMatch
           \/ ConnNoMatch \/ ConnBindPing

Sender(s) == SenderCheck(s) \/ SenderPeek(s) \/ SenderTake(s) \/ SenderAck(s)
             \/ SenderNoAck(s) \/ SenderClosed(s) \/ SenderFail(s) \/ SenderError(s)

Listener(l) == ListenerCheck(l) \/ ListenerCall(l) \/ ListenerClosed(l) \/ ListenerFail(l)
               \/ ListenerError(l)

Datagram(l) == ListenerPing(l) \/ ListenerBad(l)

Next ==
    \/ User \/ Callback \/ Connect
    \/ \E s \in Senders : Sender(s)
    \/ \E l \in Listeners : Listener(l) \/ Datagram(l)

Spec == Init /\ [][Next]_vars

\* The executors and the UI looper run what they are given, and a wait for a
\* reply times out; nothing obliges the user to act or the server to ping.
Fairness ==
    /\ WF_vars(Callback)
    /\ WF_vars(Connect)
    /\ \A s \in Senders : WF_vars(Sender(s))
    /\ \A l \in Listeners : WF_vars(Listener(l))

FairSpec == Spec /\ Fairness

-----------------------------------------------------------------------------
(* Properties *)

\* Whoever holds clientPort is droneSocketClient: the next closeConnection gets
\* at it, even after a close that failed or a constructor that threw, so the
\* application cannot lock itself out of its own port (DroneViewActivity 555-559).
CommandSocketReachable == \A c \in Clients : sock[c] = "open" => c = client

\* The application does not believe in a connection that nobody serves: when the
\* flags say connected there is a sender, or a connect task that will start one
\* or report an error (DroneViewActivity 567-581, 609, 618-619, 650-651).
ConnectedHasSender ==
    socketConnection /\ ~connectionError =>
        \/ \E s \in Senders : sender[s] \notin {"idle", "done"}
        \/ conn # "idle" \/ posted # <<>>

\* "Blad podczas wysylania wartosci! Probuje wznowic polaczenie..." (635): a
\* failed exchange of values leads to a new connect.
SendErrorReconnects ==
    \A s \in Senders : sender[s] = "error" ~> (conn # "idle" \/ ~Alive)

\* "Polaczenie zakonczone." (188): once the user has ended a healthy connection,
\* nobody but the user asks for another.
EndedStaysEnded == [][ended /\ ended' => pending' <= pending]_vars
=============================================================================
