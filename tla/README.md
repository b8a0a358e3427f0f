# Formal models of the drone: server, phone application, flight controller

The repository holds the whole of a small quadcopter: the flight server on the
drone's Raspberry Pi (`server.py`), the Android application that flies it
(`droneproject_android/`), and the firmware of the KK flight controller board
(`flight_controller_firmware/`). This directory models the parts that decide
whether the machine obeys, and in which order: threads that share flags without
a lock, two programs that time each other out, and a controller that must arm
only when told to; and the way of the camera picture, from the request to the
native decoder. TLC checks the models on small instances; TLAPS proves the
safety properties for every value of the constants.

Contents

1. Inventory of the system
2. Modules and how they correspond to the code
3. What each run checks and shows
4. Bounds and fairness
5. What is proved
6. What disagrees with the code's own comments
7. What is not modelled
8. Plan

## 1. Inventory

```
 gamepad -> DroneViewActivity -> asyncValuesQueue -> AsyncSocketSend
                                                        | UDP 8888 -> 8887
 DroneValues, settings                                  v
                         PING?/PONG! on 8889      server.py: main thread
 AsyncServerPingListener <----------------------  ping threads
                                                  low-voltage guards, descents
                                                        | /dev/servoblaster
                                                        v
                                     receiver inputs of the KK controller
                                                        | PWM
                                                        v  motors

 camera -> HTTP -> MjpegInputStream -> MjpegView (render thread) -> surface
                        pixeltobmp, processimage (ImageProc.c, libjpeg 8d)
```

| Component | State | Operations | What makes it hard | What makes it correct |
|---|---|---|---|---|
| Flight server, `server.py` | globals `closed`, `awaiting`, `emergency`, `lastThrottleValue`; the bound ping port; the servos; the LED | receive a datagram, open, serve, close and reopen a session; ping the client; watch the battery pin; lower the throttle to 25 % | every thread reads and writes the globals without a lock; threads outlive the session that started them; timeouts race answers | an emergency ends; a session is watched; a descent lowers the throttle; the LED and the recorded throttle are true |
| Connection of the application, `DroneViewActivity` (asynchronous tasks), `DroneSocketClient` | `socketConnection`, `connectionError`, `droneSocketClient`, the queue of values, two sockets per client object | connect, disconnect, send a value and await `RECV_OK`, answer `PING?`, reconnect after an error | UI thread, one serial executor and a thread pool; fields replaced while another task uses them; two flags set one after the other | the port is never lost; "connected" has a sender behind it; an error leads to a reconnect, and the user's disconnect does not |
| Joystick and held values, `DroneValues`, `processJoystickInput` | value and pin of each axis | follow a stick with a two-percent threshold, arm, reset, change pins, build the string | thresholds that could add up; a fresh object that lost its pins | ranges; no drift between stick and value; the right servo gets the right value |
| Firmware, control flow, `KK_QuadX_V4_7_SS5_SC_M168.asm` | EEPROM bytes, stick centre, armed and calibrated flags, gesture and delay counters, I terms, LED, motors | power-up, four service modes, and the loop: read receiver, arm or disarm, calibrate, output | any stick at any loop, counters that survive a swing of the stick, power cuts between two EEPROM bytes, uninitialised RAM | never start motors with the LED dark; calibrate only at rest; no half-written centre |
| Firmware, 16.8 arithmetic, mixer and PWM, `168mathlib_ram_*.asm` | 24-bit fixed-point registers | add, subtract, multiply, compare; PI loops; mixer; 256-step PWM | silent wrap-around at the extremes of rate, stick and gain; integrals that grow in every loop | every motor gets the exact sum, limited; integrals keep their limit; the right motor of an arm is faster |
| Command line control, `CLI_WIP.py` | four values in percent or microseconds | change a value by a step, reset, arm, change mode | one clamp for two units | the steps the help promises |
| MJPEG view and stream, `MjpegView`, `MjpegInputStream`, the stream button and activity callbacks of `DroneViewActivity` | render thread, `mRun`, `surfaceDone`, the stream, requests under way | ask for a stream, start, stop, read a frame, activity and surface callbacks | `stopPlayback` joins, on the UI thread, a thread that may sit in a blocking read; the answer to a request that was stopped arrives after all | stop returns; no drawing after the surface is gone; no thread started twice; no connection forgotten |
| JPEG decoding, `ImageProc.c` and the decoder of libjpeg 8d it drives (`jdapimin`, `jdapistd`, `jdinput`, `jdmarker`, `jdhuff`, `jdcoefct`, `jdmainct`) | the picture `rgb` and its size, kept from frame to frame; marker, scan, restart and output positions of the decompressor | decode one frame into the picture, copy it to a bitmap, free it | what the library returns is ignored; frames that were cut or spliced; a source that never gets more data; restart numbers that wrap | the loop stays inside the picture; intact frames are shown as they are; damage stays between restart markers; what a frame has lines for is new |
| Gamepad compatibility, `inputmanagercompat/` | devices and their last contact, listeners | detect, poll, remove | removal during an index walk | each disconnected device is reported once |
| Settings screens, `wificheck.sh` | preferences; none | — | — | — |

Left aside as vendored, generated or data: the rest of `jni/jpeg8d` (the
compressor, the command line tools, progressive and arithmetic decoding, DCT,
quantization to a colour map, memory managers), `m168def.inc`, the `.hex`
images, the APK, the ServoBlaster and RPi_Cam archives, resources and Gradle
files.

How the parts interact. The application opens a session by sending a version
string to port 8887 and waits three seconds for the answer. From then on it
sends one value string at a time and waits for `RECV_OK`. The server's ping
thread sends `PING?` to port 8889 of the phone whenever the main thread awaits
a datagram and expects `PONG!`; a timeout or a wrong reply raises `emergency`,
sets `closed` and starts a descent of the throttle. A value reaches a servo
driver as `pin=v%`, becomes a pulse on a receiver input of the flight
controller, and there competes with nothing else: the firmware has no failsafe
of its own, the descent of the server is the only one. The camera picture takes
a way of its own, over HTTP, and shares only the activity and the radio link
with the commands.

## 2. Modules and how they correspond to the code

| Module | Models | Extended or checked by |
|---|---|---|
| `DroneServer` | `server.py` | `MCDroneServer`, `DroneServerProofs` |
| `DroneClient` | connect, send and listen tasks, UI callbacks, `DroneSocketClient` | `MCDroneClient`, `DroneClientProofs` |
| `Joystick` | `DroneValues`, `processJoystickInput`, pins from the settings | `MCJoystick`, `JoystickProofs` |
| `ArmingPromise` | what the controller promises a person next to the propellers | implemented by `FlightController` |
| `FlightController` | boot, service modes, EEPROM, arming, calibration, motor gate, LED | `MCFlightController`, `FlightControllerProofs` |
| `Fixed168` | the 24-bit registers and operations of `168mathlib_ram_v1.asm` | `Mixer` |
| `Mixer` | gyros, gain pots, PI controllers, mix, motor outputs | `MCMixer`, `MixerProofs` |
| `DroneLink` | application and server at the grain of datagrams, with the link between them | `MCDroneLink`, `DroneLinkProofs` |
| `VideoView` | stream button, `DoRead`, activity and surface callbacks, `MjpegView` | `MCVideoView`, `VideoViewProofs` |
| `Frames` | what the camera hands over as one frame, whole or damaged | `FrameDecoder` |
| `FrameDecoder` | `ImageProc.c` and the control of the libjpeg decoder | `MCFrameDecoder`, `FrameDecoderProofs` |

**DroneServer.** `main` is the program counter of the main thread (lines
115-165), with `values` and `next` for the command being written; `ping`,
`guard` and `descent` give each thread its own counter. One action is one
access to shared state with the local work around it, so every interleaving the
interpreter can produce at those accesses is a behaviour. The receive actions
cover the `if` ladder in its order: during an emergency a datagram is dropped
with `awaiting` left set (136), otherwise `awaiting` is cleared and the
datagram is a close, a version string, four values, or nothing known. A
command is written one `echo` at a time and recorded afterwards (157-160).
`closed` and `emergency` are set in one step because no thread reads both.
A field of a command is a pin and a percentage, and a servo belongs to a pin,
so that a command may name a pin twice, as the one after the application's
reset does. A descent belongs to the thread that started it; it reads the
record, writes five percent less until 25, and clears `emergency`. What the
code does not catch is there too: a datagram that is not ASCII, or an answer
that cannot be sent, ends the main thread and the program (`MainDies`, then
only `Terminated`), and a reply that is not ASCII ends the ping thread with
neither `closed` nor `emergency` set (`PingUndecodable`). Two history variables
are read by no action: `lowered` (a descent wrote after the last command) and
`lost` (the session has no ping thread because its bind lost to a thread that
had decided to stop, `refused`, or because it died of a reply, `undecodable`).

**DroneClient.** `socketConnection`, `connectionError`, `client` and the length
of the queue are the shared fields. `AsyncTask.execute` runs connect tasks one
at a time, hence one `conn` counter and a count `pending`; results go to the UI
thread through `posted`. Senders and listeners run on the pool, many at once,
and survive their connection when they happen to look at the flags too late.
A client object owns two sockets, each none, open or closed, and a port is
bound by one open socket at a time. `CloseConnection` has both outcomes of its
`try`: sockets closed, or `CONN_CLOSE` failed and the command socket left open.
The three uncaught exceptions the code allows set `crashed`, after which
nothing moves. `ended` is a history variable: the user ended a connection in
which nothing had failed and no connect was under way.

**Joystick.** A stick stands at halves of a percent, and `held` is in quarters,
since an axis covers 0..100 at half the speed of the stick. What is compared
with the threshold is not rounded and what is stored is (`Rounded`, half to
even). `Stick` is an event without the D-pad, `DPadUp`, `DPadDown` and
`DPadSide` are the events with it, during which sticks are not followed.
`DPadDown` makes a new `DroneValues`, with centred values and pins that are all
zero. `Message` is the string, with the rounding of `NumberFormat`, and
`LeftOn` what the server's writes leave on a servo. The code puts the pitch
behind the roll pin (`DroneValues.java:43`), and so does `Message`; what
`NoCreep` says of the message is therefore not said of the roll.

**FlightController.** `pc` is the place in the program: `boot`, the service
modes, or the four stages of a loop (`read`, `arm`, `calibrate`, `output`).
The receiver interrupts are folded into the read: each copy may hold any pulse
the transmitter may have sent, the last one included. A saved centre is two
bytes, written one after the other, and a `Reset` (power cycle) may come
between any two steps; RAM that the start-up code does not initialise (the I
terms) comes up `unset`. `Stage` maps the detailed state to `ArmingPromise`: `off` is the
processor before the loop or a service mode, and only a step to `boot`, a power
cut, may lead there. The promise has no step from `spinning` to `safe`.
`rest` (loops since the motors ran) and `learned` (centres ever learned) are
history variables. The third EEPROM byte, the fraction of the centre, is left
out: it is below the resolution at which a pulse is compared.

**Fixed168 and Mixer.** A register is its 24 bits as one signed integer, 256 for
1.0, and every operation keeps the low 24 bits. `Product` is the multiplication
of the magnitudes, rounded by the top bit of the byte that is dropped, with the
sign put back; `FDiv` is the shift with its rounding carry. `Calibrate` is the
due calibration (642-672) with the reading of the pots, which only happens
there; `Loop` is the rest of the main loop: offset, direction and scale of each
gyro, the error, the I term with its limit, the command, the mix of line
729-826, the idle level and the limit of `PWMGenEnd`. Whether the gate to the
motors is open is `armed`, here an arbitrary input, with the calibration flag
and the collective; `FlightController` says when it can be. The RAM of gyro
zeros, gains and I terms comes up with any content. `Deviation`, `Gathered`,
`Correction` and `Meant` are the reference: the same controller computed from
the readings, which the history variable `input` keeps, in integers that have
no size.

**DroneLink.** Here an end is taken at the grain of its datagrams: one client
object, sender and listener at a time, and one ping thread; what the threads of
one end do to each other stays in `DroneClient` and `DroneServer`. `client` is
the step of a connect or of an exchange, `session` the loop the server's main
thread is in, `pinger` where the ping thread is. A command is the number of its
values, so that `NeverBack` can speak of older and newer. `SendValue` includes
`removeExcessiveValues`, which thins the queue before one is taken; `Excess` is
its choice among the thresholds. How many values a threshold drops is a
setting, free text that nothing compares with the threshold: where it takes all
there are, the sender sends nothing (`DropAll`), and where it takes more,
`removeFirst` throws outside the `try` and the application is gone
(`Overdraw`). `SaveSettings` changes the numbers at any time. The link is one
radio hop: it keeps the order of datagrams but may lose one, or bring it later
than its receiver waits; each is a fault, and there are at most `MaxFaults`. A
wait may run out for free only when nothing could still end it (`TimePasses`),
and otherwise counts as a fault, as does a ping timeout that falls just on a
connect or on a request under way. The model shows four things worth knowing
that break no promise of the code:

- a late `VERSION MATCH` makes the application "connected" while the server is
  in its outer loop; the next value is then answered by `VERSION MISMATCH` and
  leads to a reconnect;
- after a fault, or when the user hangs up while `PING?` is under way, answers
  can get one command behind, and a `RECV_OK` then confirms a command that an
  emergency has swallowed;
- after an emergency the server goes on serving values with no ping thread,
  until the next connect;
- a user who hangs up or presses the button in step with the emergencies is
  never connected again. Hang-ups are therefore bounded, and the user is taken
  to be slower than a datagram that is not delayed.

**VideoView.** The UI thread runs one handler at a time, and waits in one place
only: the join of `stopPlayback`. `ui` names the handler that waits, `Joined`
is the rest of that handler. `requests` and `results` are the `DoRead` tasks and
their streams on the way to `onPostExecute`; a request ends with a stream or
with null. The render thread is at the top of its loop, at the lock of the
canvas, in a read, or drawing. `mIn` is what the view plays, `open` the streams
the program has opened and not closed. The history variable `late` says that
playback was stopped while a request was under way: with it, a thread is
started twice, the read finds no stream, or a stream plays although the button
says off. That is a real sequence of presses, and the properties say that it is
the only one.

**Frames and FrameDecoder.** A frame is a sequence of tokens, a marker with its
parameters or the bits of one MCU. `Frames` contains every way to cut a picture
short, to lose a piece of it or to get one twice. Where two ends meet in the
middle of data they can look like a marker, any of `Junk`, legal or not; the
length and the contents of a segment that begins there are accidents too
(`Accidental`). `FrameDecoder` keeps the names of the library's fields.
`app` is the place in `pixeltobmp` and `processimage`; marker steps are one
action a marker, MCU steps one action an MCU, so that suspension, errors and
restarts happen where they do in the code. `ProcessRestart` is
`process_restart` with `jpeg_resync_to_restart`; `MisreadMcu` is a Huffman
decoder that reads bits as what they are not and may use up any share of the
segment. The value of a block is where its bits came from and with which table
it was dequantized, and a line of the picture is the set of the values it
shows. `rgb` survives from call to call: `raw` is memory fresh from `malloc`,
`old` is what an earlier call left. Read with the code, the model records:

- the JNI names belong to the package `com.camera.simplemjpeg`; the library is
  built by `Android.mk`, but no class of this application declares its methods,
  and `MjpegInputStream` decodes with `BitmapFactory`. The module is about the
  native decoder as it stands in the repository;
- `my_jpeg_load_dht` overwrites the Huffman tables of the header by the
  standard ones, so pictures with their own are misread (`Decodable` leaves
  them out of `IntactShown`);
- a lost EOI may cost the last MCUs, a lost DRI greys all but the first restart
  interval, and a restart marker three or more away is misplaced;
- an accidental marker that is legal and no RSTn is never read past
  (`jdmarker.c:1250`), so all later intervals stay empty; an accidental RSTn can
  be taken for a real one and shift the intervals after it for good;
- the copy to the bitmap has the size of the first frame: below the last line of
  a lower frame it shows what was there before (`ImageProc.c:301`), and beside a
  narrower one too (239; the model has one width);
- `pixeltobmp` gives up on a null bitmap without releasing the array it has
  taken, and logs a failing `AndroidBitmap_lockPixels` only (the model takes it
  to succeed);
- a picture freed before a frame that cannot be decoded is copied from nothing
  (`app = "crashed"`); nothing in the application calls `freeCameraMemory`.

**Composition.** `DroneLink` composes the two ends of the connection. The other
modules meet at values and datagrams, not at shared variables: `DroneServer`
takes any command from `Commands`, whatever client sent it, `DroneClient` may
get any reply, the firmware sees any pulses, the view is given any frame. A
module is therefore checked without relying on what its neighbours would do,
within the values its instance has. Two boundaries are assumptions: `Mixer`
takes sticks and receiver pulses in the range of a transmitter and not of the
16-bit registers they are in, and `DroneServer` commands that end where its
regular expression does: four fields of one to three digits, with any pins
(what the code lets follow them is not looked at). In the theorems the
commands, pulses and readings are all that these assumptions allow.

## 3. What each run checks and shows

Passing runs

| Run | Instance | Shows |
|---|---|---|
| `server` | 2 ping threads, 1 guard, a command at 30 % and that of the reset; 250,720 states | `EmergencyHasOwner`: while the server drops datagrams, some thread will end that. `WatchedUnlessLost`: an open session has a ping thread, unless its bind lost to a thread that had decided to stop or it died of a reply that is not ASCII. `LedMeansGuarded`: a lit LED has a guard behind it. `RecordIsCurrent`: the throttle a descent starts from is the one its servo was told, unless a command is half applied, a descent wrote since, or the command named the pin of its throttle twice. `EmergencyEnds`, `PortReleased`, and `SilenceCloses`: a client that stops sending anything loses its session, unless its ping thread was lost. All as long as the program runs. |
| `client` | 3 client objects, 1 sender, 1 listener; about 366,000 states | `CommandSocketReachable`: whoever holds port 8888 is the current client object, so the next close reaches it; failed constructors and failed closes included. `ConnectedHasSender`: flags that say connected have a sender, or a connect task that will settle the matter. `SendErrorReconnects`: a failed exchange of values is followed by a connect. |
| `joystick_safety` | slow and full movements of four axes; 135,872 states | `NoCreep`: after any sequence of movements, each held value is less than two percent from its stick, and the whole percents the next message has of it (roll excepted) less than two and a half; neither small movements nor roundings add up. `TypeOK` includes the 70 % cap on every path into the held values. |
| `flight_controller` | gestures of 3 loops, delay of 4, centres 1500 and 1540; about 254,000 states | `ArmingKept`: refinement of `ArmingPromise`; the motors start only with the LED lit, and no step of the firmware disarms while they turn. `CalibratesAtRest`: gyros are zeroed only after the whole delay without motors. `NoRawIntegral`: motors never run on uninitialised I terms. `NoInventedCentre`: a torn EEPROM write gives an old centre, 1500, or 1535. `HoldToArm`: a held gesture lights the LED. |
| `mixer` | full deflections of gyros and sticks, pots near both ends, one gyro reversed, one at rest in the middle or at an end of the converter; 36,337 states | `MixExact`: the correction of each axis is the one that arithmetic without a register size computes from the readings, wherever the gyros rested; with gyros that rested at 200..823, each motor gets the exact sum, limited. `NoReversal`: of the two motors of an arm, the one a correction favours is never the slower. `TypeOK` includes the limits of the I terms. |
| `link` | 3 values, 2 faults, 2 hang-ups, settings that thin, empty or overdraw the queue; 383,006 states | `NeverBack`: the servos never go back to an older command. `NoFalseAlarm`: no emergency before the first fault, hang-up or crash of the application; the first `PING?` always finds its listener. `LastValueArrives`: in a session without faults the last value, or a newer one, reaches the servos, unless the queue gets to a length at which the settings drop all of it. `UserGetsThrough`: whoever keeps trying is connected again once the faults are over. |
| `video` | 3 streams, 2 requests under way; 52,804 states | `SurfaceOutlivesDrawing`: a canvas is used only while its surface exists. `CrashNeedsLateResult`, `StreamsAccounted`, `PlaysOnlyWanted`: no thread is started twice, no stream is left open, nothing plays unwanted, unless a stop overtook a request. `StopReturns`: a stop returns, unless the read it waits for never does. |
| `decoder` | six pictures of up to ten lines, every cut, splice and repeat, five accidental markers, frame after frame; 325,529 states | `EndMarkerEnds`: the scanline loop runs off the picture only on a frame without EOI or with more lines than the first. `IntactShown`: intact frames are shown line by line. `DamageConfined`: damage that skips or repeats at most two restart markers, and does not look like a legal marker, stays between them. `RowsFresh`: the rows a decoded frame has lines for hold nothing old or uninitialised. `CallEnds`: every call returns or runs off. |

Runs in which the code contradicts its own comment (section 6):
`server_skip`, `server_surge`, `client_ended`, `joystick_reset`.

Every property of a passing run has a mutant: a plausible mistake in one
definition (written next to it, under "Mutant:") with which TLC finds the
property violated. The operators of mutants are used by nothing else.

## 4. Bounds and fairness

- *Threads and tasks* have identities that are reused when a thread ends, so
  the constants bound how many are alive at once, never how many are started.
  Two ping threads suffice for the handover of the ping port; a third only
  repeats the refusal. A guard beyond `GuardThreads`, and a listener beyond
  `Listeners`, is not started and the session goes on; these are the only
  actions a bound changes rather than disables. With `StartPing` and
  `OnConnected`, a missing ping thread or sender delays the step. One guard, one
  sender and one listener keep the liveness checks small; the theorems hold
  for any number, and `client_ended` has two senders.
- *Commands.* 30 % is above the floor of a descent (25 %) and takes one step
  down, and its pins are not in the order of the fields; the other command is
  the one after the application's reset, all four values on pin 0 and the
  throttle below the floor. `server_surge` has 35 %, two steps down.
- *`MainDies`* ends the program wherever an exception can, in place of each
  send and decode on its own.
- *`MaxQueue` = 1* distinguishes an empty queue from one with a value; what is
  in the queue, and its thinning, is in `DroneLink`. *`MaxConnects` = 1* bounds
  connects queued behind the running one; a running, a queued and a reported
  connect coexist.
- *`ArmLoops`* is 100 and *`DelayLoops`* 256 in the code, 3 and 4 in the
  instance: distinct, and long enough for a count to be interrupted and
  resumed. The proofs hold from two upwards.
- *Pulses.* Collective at zero and above; yaw left, right, and two centres
  that differ in their high byte, so that a torn write can mix them.
- *Mixer.* The pulses of the sticks are taken as 500..2500 us around a centre
  of 1400..1600 (`InputsAssumption`): this is the transmitter, not the code,
  which does not check it. A gyro may rest anywhere in the range of the
  converter (`RestAssumption`). The corrections are exact for all of that; three
  full ones, of gyros that rest at an end, do not fit a register, and the mix
  then wraps in the code. `Centred`, a rest at 200..823 of 1023, is therefore a
  premise of what is said of the mix. The instance uses the largest
  deflections, so that the I terms take few values; pitch reaches either
  limit, roll and yaw one. `MCGarbage` is small because TLC multiplies in 32 bits.
- *Stick positions.* Steps just below and above the threshold, some halfway
  between whole percents so that rounding goes either way, full deflections,
  and the range beyond the 70 % cap.
- *Link.* Three values reach both thresholds of the instance (2 and 3, for the
  10, 25 and 50 of the code, of which the highest reached counts). One of
  `MCSettings` drops none and one there, so that two values are left to be sent in
  order; the other two and four: the whole queue, and more than it holds.
  Two faults let a second one hit the recovery from the first; two hang-ups let
  the user end a connection that a hang-up began. `MaxInFlight` = 3 delays a
  connect while more than three datagrams are under way in a direction, which
  takes a server that is deaf for several connects.
- *Video.* With two requests under way the answer to one that was stopped can
  come before or after that of the next; three streams leave one for the view. A
  request that would exceed the bound is delayed.
- *Decoder.* A block has one line (`DCTSIZE` = 1), a picture is one MCU wide
  and has up to ten lines, so that restart numbers wrap after eight. The
  pictures differ in what the control looks at: restart intervals of one and
  of two MCUs, an odd number of lines under vertical sampling, three scans with
  tables replaced between them, Huffman tables in the header, one component,
  and an SOF that is refused. `MCJunk` has a marker for each way a marker can be
  met: an illegal code, an RSTn, an EOI, a segment to be skipped, and one that
  replaces a table. Bitmaps may be null, unusable, of the right or of
  another height.

`CHECK_DEADLOCK FALSE` appears in the configurations of `DroneClient`,
`VideoView` and `FrameDecoder`, where an uncaught exception or a write past the
picture ends the program, and in that of `DroneLink`: with faults, hang-ups and
values used up, a connection may simply last.

Fairness. `DroneServer` assumes that a thread that can run does so, that
`MainInternal` (everything but a receive) proceeds, and that a wait for
`PONG!` ends by its timeout; a client owes nothing, the battery may never be
low. This is the scheduling of CPython's threads and the `settimeout` of the
code. `DroneClient` assumes that the looper runs callbacks, the executors run
their tasks, and a wait for a reply times out; the user and the server owe
nothing, and a listener waits for `PING?` without a timeout, as in the code
(`Datagram` has no fairness). `FlightController` assumes that the processor
goes on: all its waits are bounded delays. `HoldToArm` says `<>[]` of the
gesture, so power cycles must stop for it to promise anything. `DroneLink`
assumes that both programs and the link go on, that a descent ends (which
`EmergencyEnds` shows of the server), that waits run out, and that the user
tries again as long as there is no connection; losses, and the user ending a
connection, are never due. `VideoView` assumes that the UI thread and the
render thread run; nothing obliges the camera to send or a request to end.
`FrameDecoder` assumes that a call goes on, since it waits for nothing.

## 5. What is proved

All theorems are checked by TLAPS (SMT, Zenon, and LS4 for temporal steps).
Constants are subject only to the named assumptions of their modules:
`PinsAssumption` (there is a pin 0), `CommandsAssumption` (a command has a pin
and a percentage in each field, pins repeated or not), `ThreadsAssumption`
(ping and guard threads are different), `ClientsAssumption`,
`BoundsAssumption`, `PositionsAssumption`, `LoopsAssumption` (both loop counts
at least two), `PulsesAssumption` (pulses are 16-bit numbers), and for the
mixer `InputsAssumption`, `RestAssumption` and `PotsAssumption` (10-bit
readings, at rest too) and `GarbageAssumption` (RAM holds 24-bit numbers); for
the link `SettingsAssumption` (thresholds and numbers to drop are natural
numbers, which nothing relates to each other) and its own `BoundsAssumption`;
for the view `StreamsAssumption` and `RequestsAssumption`; for the decoder
`PicturesAssumption` (there is a picture), `JunkAssumption` (what ends look
like is a marker), `GeometryAssumption` (what the marker reader lets through:
one to three components with sampling factors from 1 to 4, scans of some of
them) and `BitmapsAssumption`.

| Theorem | Argument |
|---|---|
| `DroneServerProofs!TypeCorrect` | `TypeOK` is inductive: a descent steps only above 25 and so never goes below zero. |
| `EmergencyOwned` | inductive with `TypeOK`: `Raise` makes its thread the owner, `PingLaunch` hands over to a descent, and the end of any descent clears the flag. |
| `SessionWatched` | inductive with `TypeOK`: the thread that leaves the watching states does so after `closed`, sets it in the same step, or is recorded in `lost`. |
| `LedHonest` | inductive with `TypeOK`, because a guard that ends clears the LED for all. |
| `RecordCurrent` | needs two strengthenings: from the first write on the servo holds the throttle of the command (`ThrottleWritten`), which holds to the end only if no later field names its pin (`PinsApart`), and before it the record still matches (`UntilWritten`). |
| `DroneClientProofs!TypeCorrect` | strengthened by `Room`: a running connect task finds room for its result. `TailOfResults` is the lemma on sequences. |
| `SocketReachable` | inductive with `TypeOK`: a new object is made only while no object holds the port. |
| `ConnectedServed` | inductive with `TypeOK`: a sender leaves its working states only after it has read or written one of the flags. |
| `JoystickProofs!TypeCorrect`, `CreepBounded` | `CalibratedRange` bounds the conversion; `NoCreep` is then inductive, since an axis either takes the new position, rounded to at most half a percent (`StoredNear`), or is within the threshold; `RoundedNear` bounds the whole percents of the message. |
| `FlightControllerProofs!TypeCorrect` | numbers and flags separately (`NumbersCorrect`, `Scaling`, `SavedPlausible`). |
| `TermsInitialised`, `PromiseKept` | from `ArmingInv`: outside the loop nothing is armed; motors imply armed and calibrated; the LED is on wherever the gate could open; and both counters are zero after a loop with the throttle up, so that no gesture is half done when the motors stop being driven, and none is completed while they are. |
| `RestBeforeCalibration` | from `RestInv`: the delay counter never exceeds the loops of rest. |
| `CentreNotInvented` | from `CentreInv`: each byte in the EEPROM is the byte of some learned centre, or both are blank; `TornCentre` and `HalfBlankCentre` do the arithmetic: plausible centres have the high byte 5 or 6, and a plausible mixture is the newer centre itself. |
| `MixerProofs!TypeCorrect`, `MixNeverWraps` | a chain of bounds, one lemma a stage, each of which also says that the register holds the number of the reference: `ErrorWithin` (rate and error), `AccumulateWithin` (an I term at most 250, even after a sum that wrapped), `CommandExact` by `ProductWithin` (the corrections), `MixedExact` (three sums below 32,768, if the gyros rested in the middle). `LoopExact` puts them together. `Bounds` adds to `TypeOK` what a calibration leaves in zeros and gains; without it the state before a loop says nothing about its products. |
| `NeverReverses` | from `MixExact`: the collective and the yaw cancel between opposite motors (`OppositeMotors`) and the limits are monotone (`StepsMonotone`). |
| `DroneLinkProofs!TypeCorrect`, `ServosNeverBack` | from `Ordered`: the value on the servos, those under way, those queued and the newest made are in order (`InOrder`). One lemma for each way a sequence changes: `ReceivedInOrder`, `SentInOrder`, `ThinnedInOrder`, `MadeInOrder`, `SignalInOrder`; `ExcessNumber` and `ThinnedKeepsOrder` say that thinning, under any setting, leaves a suffix of the queue. |
| `AlarmNeedsFault` | from `Quiet`: without a fault, a hang-up or a crash there is at most one exchange under way and each end knows its step (`InStep`), and a `PING?` is sent only to an open ping socket (`PingsHeard`). |
| `VideoViewProofs!TypeCorrect`, `SurfaceOutlives` | from `SurfaceKnown`: `surfaceDone` is cleared before `surfaceDestroyed` waits, and a thread that runs is the one in the field, so the handler waits for it. |
| `CrashNeedsLate`, `StreamsKnown`, `PlaysWanted` | from `PlayInv`: while no stop has overtaken a request, at most one request or result is pending, nothing plays meanwhile, and what plays has a stream (`OneAtATime`). |
| `FrameDecoderProofs!EndMarkerSuffices` | from `DecoderInv`: on a frame that ends with EOI the reader has not passed that marker (`ReaderOK`, `EoiAhead`; `MarkerExists` and `NextMarker` find it), so no call of the loop comes back empty-handed, and the row of the picture is the scanline of the decoder (`RowsOK`). |
| `FrameDecoderProofs!TypeCorrect` | from `TypeInv`, which adds to the types where the library is when the call is somewhere (`Staged`), what header and scan say of the size of the picture and that one-pass output keeps step with input (`Sized`), and that the restart counter is within its interval while a scan is read (`Counted`). One lemma for each part of the invariant, with one step for each action. The geometry is proved once: `Sizes`, `RowInside` (a row that begins inside the picture is one of its rows), `LineInside` (the samples of a line are in blocks of the picture), `RowsPositive`. |
| `DecodedRowsFresh` | from `LinesPlaced`: what was delivered so far is in the rows above `y`, unless the data ran out. Once it has (`Stalled`), no step of the decoder is left but another empty-handed call (`StalledStays`, `SuspendStalls`), so a call that ends has delivered every line. |

Only model-checked: the liveness properties (`EmergencyEnds`, `PortReleased`,
`SilenceCloses`, `SendErrorReconnects`, `HoldToArm`, `LastValueArrives`,
`UserGetsThrough`, `StopReturns`, `CallEnds`), which rest on fairness; two action
properties of `FrameDecoder`, `IntactShown` and `DamageConfined`, which speak of
the data of the pictures of the instance; and the four violations.

## 6. Where the code disagrees with its comments

- `server_skip`: a comment says values are skipped while a descent runs
  (`server.py:135`). The test of `emergency` can precede the emergency, and any
  descent that ends clears the flag for all, so a value is written in the
  middle of a descent.
- `server_surge`: "down-throttling" (31, 41) starts from `lastThrottleValue`,
  which a descent never updates. A second descent begins with a jump almost to
  the throttle of the last command.
- `client_ended`: "Połączenie zakończone" (188) and then a new connect: the
  sender that was in an exchange takes the end of the session for an error.
- `joystick_reset`: after the D-pad's reset every value goes to pin 0 and the
  throttle servo is left at 50 %.

The models contain more disagreements on which no run is spent. An error of the
ping listener should resume the connection (608, 635), but the listener clears
`socketConnection` before it sets `connectionError`; a sender that looks in
between ends as if the user had disconnected. The queue may be replaced between
a sender's look and its removal, and the exception caught at 624 is not the one
`removeFirst` throws (`crashed = "emptyQueue"`). When the very first connect
fails in the constructor, the second one calls `closeConnection` on null (555;
`crashed = "nullClient"`). A listener that survived the close of its socket,
which the comment at `DroneSocketClient.java:154` calls harmless, may use the
next client before that has a ping socket (`"nullPing"`). And
`getValuesSocketString` puts the pitch behind the roll pin
(`DroneValues.java:43`; see `Message`). A refused bind announces that the
previous ping thread "is probably still working" (`server.py:63`), and
`lost` marks the sessions in which it is not.
The sender means to survive an empty queue ("harmless", 623), but
`dropElementsInQueue` asks for as many values as the settings say, outside the
`try`, and `removeFirst` throws what is not caught: a setting above its
threshold ends the application when the queue is that long (`Overdraw`).

## 7. What is not modelled, and why

- *Grain of `DroneLink`.* One sender. In the program a sender that misses a quick
  end of its connection may go on beside that of the next one and share its
  queue (`DroneClient` has such senders), and two senders could swap values;
  `NeverBack` does not speak of that.
- *Exceptions.* A canvas that cannot be locked (`lockCanvas` returns null) ends the
  render thread with an exception in `MjpegView`; `RenderLock` always gets one. A
  number in the settings with a decimal point is more than `parseInt` takes.
- *In modelled components.* Printing, toasts, icons and text views; the content
  of datagrams beyond what a branch looks at; delays as durations (a sleep is a
  step that may take any time). The unsynchronised `LinkedList` under concurrent
  use: its code belongs to the platform, and each call is one step here. Of
  the view, the layout of the picture and the search for the markers of a frame
  in the stream. Of the firmware, the interrupt handlers as code of their own and
  the loop that times the PWM pulses (`tu0`): cycle counts, not values.
- *Of the JPEG library*, the greater part. The repository's C code is almost all
  libjpeg 8d, some 48,000 lines, of which `FrameDecoder` models about 1,700: the
  control that decides which bits end up in which line. Left out of the path
  the program takes: progressive and arithmetic decoding (which its cameras do
  not send), pictures wider than one MCU, coefficients, inverse DCT, upsampling
  and colours (arithmetic on data), and the memory manager. Not on that path at
  all: the compressor, the forward DCTs, transcoding, colour quantization, the
  command line tools and the other systems' memory managers.
- *Not started*: `CLI_WIP.py`, marked work in progress and not used together
  with the server, and the gamepad compatibility layer (see the plan).
- *Not planned*: settings screens (only `SharedPreferences`; the pins they set
  are `SavePin`), `wificheck.sh` (all of it I/O).

In the models but without a property are three hazards: the three crash sequences of
section 6, the freed picture, and the last pulse a lost receiver leaves behind,
against which the repository promises nothing.

## 8. Plan

1. `Pwm`: the receiver interrupts and the pulse loop on top of `Mixer`: pulses
   measured across a wrap of the timer, a read between two edges.
2. `InputManagerV9` and `CliControl`: the polling handler that removes devices
   while it walks over them, and the clamp of `ensureBoundaries` against the
   help text.
3. Abstract specifications: a lock for the ping port and a watch over a
   session, implemented by `DroneServer`; composition of `Joystick`, server and
   `FlightController` for the arming gesture from D-pad to LED.
4. Proofs: the refinements of 3, and `IntactShown` for every picture whose data
   is complete.
