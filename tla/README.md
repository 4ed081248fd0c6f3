# TLA+ models of `rs_sender` (Jetson gateway)

`rs_sender` runs on a Jetson beside an Intel RealSense D435i camera and an OrangeCube flight
controller. It publishes the camera's video by RTSP, its IMU samples by UDP to one client, and
forwards the client's velocity commands ("twists") to the flight controller over a serial port.
This directory holds TLA+ models of that program, TLC configurations that check them on small
instances, and TLAPS proofs about them. Paths below are relative to the repository's root
(in `PROJECT.json` they start with `src/`).

1. [Inventory](#1-inventory) · 2. [Plan](#2-plan) · 3. [Modules](#3-modules) ·
4. [Runs](#4-runs-bounds-and-fairness) · 5. [Proofs](#5-proofs) ·
6. [Findings](#6-what-the-code-does-that-its-text-does-not-say) · 7. [Not modelled](#7-what-is-not-modelled)

## 1. Inventory

### Threads and shared state

`main` (`src/main.cpp`) creates two communication handles, loads the configuration and starts:

| thread | entry | state it owns or shares |
|---|---|---|
| realsense | `RunRealsenseCapture` | the pipeline; writes `camera_connected`, pushes IMU samples and video frames |
| imu | `RunImuPublisher` | drains `accel_queue` and `gyro_queue` under `imu_mutex`, sends by UDP |
| control | `RunOrangeCubeControl` | `mav_fd`, last heartbeat; reads the latest twist under `twist_mutex` |
| listener 5001 | `comms__listener` -> `HandleClientCommand` | writes `client_connected` and the UDP destination |
| listener 5003 | `comms__listener` -> `HandleControlCommand` | writes the latest twist under `twist_mutex` |
| main | `RunRtspServer` (GLib loop) | creates the RTSP bin per client session |
| GStreamer | `H264SeiProbe` | consumes `video_ts_map` under `video_ts_mutex` |

Everything shared is in `AppContext` (`include/app_types.h`), except the communication handles
(`commh_t`, `include/eth_comms.h`). A handle carries no lock; one global `g_comms_mtx` guards
the table of clients in some functions and not in others.

### Components

| component | state | operations | talks to | what makes it hard | what makes it correct |
|---|---|---|---|---|---|
| OrangeCube control (`orange_cube_controller.cpp`) | latest twist and its time, serial descriptor, last heartbeat | handle a datagram; open, heartbeat, read, write, close | listener 5003, serial device, clock | time sampled before a blocking write and a lock; unplugging; unsigned ages | an expired twist never flies, velocities stay in the limits, the descriptor is open when used, setpoints keep flowing |
| Client session and IMU (`client_transport.cpp`) | `client_connected`, destination, two queues, sequence numbers | ESTABLISH, CLOSE, queue a sample, swap and send | listener 5001, capture thread, `CommsConnect` | check-then-lock, swap outside the connection's lifetime, address written without a lock | samples go to a client, in order, without repetition; sessions do not mix; silence after CLOSE |
| Video streamer (`video_streamer.cpp`) | `appsrc`, pts, `video_seq`, timestamp map | create bin, push frame, SEI probe | capture thread, RTSP server, pipelines | three threads replace and drop one pointer, two mutexes, blocking push | SEI belongs to its frame, numbers grow, no dead `appsrc` is used |
| RealSense capture (`realsense_capture.cpp`) | pipeline, `camera_connected` | select, start, poll, dispatch, stop | librealsense, the two above | cameras vanish anywhere, exceptions, end of bag | always back to streaming; no sample of an earlier run is sent |
| TCP server (`eth_comms.h`) | table of clients, `client_count`, `running` | accept, receive, disconnect, send, broadcast, close | any application of the header | slots move while other threads hold their index; socket numbers are reused | table is true, no socket lost, right client answered and dropped |
| Frame codec (`comms_common.cpp`) | the buffer, read and write index | encode, decode in place | every UDP message | in-place decoding, cut-off datagrams, delimiters in data | round trip, no incomplete frame accepted |
| Configuration (`app_config.cpp`, `file_parser.h`) | `AppConfig`, the registered parameters | register, parse a line, store | `main` | stores wider than their field, lines searched for every name | what the file says is what the program uses |
| SEI message (`video_streamer.cpp`) | the message, its place in the access unit | escape, search, copy | decoder of the viewer | start codes that form by chance in a timestamp or where copies meet | the timestamp reads back, the frame's units stay as they were |
| UDP handle and TCP client (`eth_comms.h`, `comms_runtime.cpp`), process life (`main.cpp`) | socket, `client_count`, destination, listener thread | open, connect, send, receive, close, free | kernel, all of the above | a socket's number is read and used later, the listener changes the socket under `connect`, failures halfway, joins of threads that do not exist | a listener only uses what is its own, datagrams go where they were sent to, closing returns, no connection is overlooked |
| RTSP set-up, CRC32, flags (`parser.h`), CSV, logging, scripts | - | - | - | sequential, pure or output | - |

The hazards of each component, at their lines, are the `hazards` of `PROJECT.json`.

## 2. Plan

In the order of importance, and what is left:

1. **`OrangeCubeControl`** with the abstract `TwistWatchdog` - done, proved.
2. **`ImuSession`** with the abstract `SampleStream` - done, proved.
3. **`VideoStreamer`**, another `SampleStream` - done, proved.
4. **`RealsenseCapture`** - done, proved.
5. **`TcpServer`** - done, proved.
6. **`FrameCodec`** - done, proved.
7. **`ConfigParse`** - done, proved.
8. **`CommsHandle`**: the life of UDP handles and TCP clients - done, proved.
9. **`SeiNal`**: the bytes of the SEI message and its place - done, proved.
10. **Composition** of capture with `ImuSession` and `VideoStreamer`: today `RealsenseCapture` sees
    their effects (a push that blocks, queues that are cleared) as environment actions; the
    composition would replace these by the modules' own. Not written.
11. **Proofs** - done: every safety property that a run checks is a theorem, and so are seven of
    the liveness properties, relative to what TLC confirms of ENABLED. The others need an
    induction over time (section 5).

The abstract specifications worth stating are those of what an outside party sees: the flight
controller (`TwistWatchdog`) and the client (`SampleStream`, twice).

## 3. Modules

Every action is a stretch of code that no other thread, and nothing outside, can interrupt in a
way that makes a difference; program counters (`pc`, `lpc`, `cpc`, ...) name the next
stretch of each thread. Names are those of the source. `PROJECT.json` gives the lines of every
definition. Definitions named for a slip (`IgnoresAge`, `ForgetsToShift`, ...) are not part of
any specification: each is a plausible bug that shows that a property can fail.

**`OrangeCubeControl`** (`TwistWatchdog`, `MCOrangeCubeControl`). `HandleControlCommand` is one
action under `twist_mutex`. The control thread is cut where time can pass: open, sample `now`,
heartbeat, read the twist, write the setpoint, close, sleep. The device is absent, ready or full
(writes spin on `EAGAIN`); a descriptor is closed, live or stale (its device is gone). A velocity
is an integer or `NaN`; the limits and the ROS sign convention are those of the code; the age is
computed modulo `Wrap`, which stands for 2^32. `TwistWatchdog` knows nothing of the port: deliver,
sample, arm a command no older than the timeout, emit it or the null setpoint.

**`ImuSession`** (`SampleStream`, `MCImuSession`). The listener's `HandleClientCommand`
with `CommsConnect`'s two stores to the address as steps of their own; `QueueAccelSample` and
`QueueGyroSample` as check, number, then push under the mutex; `RunImuPublisher` as swap, one send
per sample, and the clearing branch. `SampleStream`: a client sees growing numbers of samples that
were captured.

**`VideoStreamer`**. `PushColorFrame` (number; reference and pts under `rtsp_mutex`; register the
stamp; push; detach if refused), `CreateRtspBin` (install under one mutex, clear the map under the
other, fail at any allocation), the probe, and the pipelines' life as an external part: shared
media, one at a time, blocking `appsrc`, encoder that may drop frames. `kept` and `out` are
history.

**`RealsenseCapture`**. The loop of `RunRealsenseCapture` with its exits: no device, throw, poll
timeout, bag end. Samples are only "now" or "before" (an earlier run of the pipeline).

**`TcpServer`** (`MCTcpServer`). Accepter, listener and an application thread that sends,
broadcasts, disconnects and closes. The listener reads a slot under `g_comms_mtx` and receives
after it; `CommsDisconnect` closes the socket and then moves the table inside the critical
section, which is two steps because the broadcast does not take the mutex. That move itself is one
step, also for readers without the mutex. `present`, `reached` and `removed` follow a broadcast, and
`stale` says that the application has moved the slot that the listener has in hand: history. The kernel gives the lowest free number to a new socket.
`rs_sender` opens UDP handles only: the application here is any caller of the header's API that
ignores SIGPIPE.

**`FrameCodec`**. One message per behaviour: encoded byte by byte, sent, received
whole, cut off, with one byte changed or replaced by a foreign datagram, and decoded byte by byte
in the receive buffer. Header fields have one byte each. The CRC is checked by the callers
(`Accepted` of `OrangeCubeControl`, `HandleClientCommand` of `ImuSession`).

**`ConfigParse`** (`MCConfigParse`). `param_parse_txt`'s two loops. A line is a sequence of
mentions `name=text`: its own, and those in a comment. The layout of `AppConfig` is the constant
`Beside`: which parameters lie in the four bytes behind a number's own four.

**`SeiNal`** (`MCSeiNal`). One message and one access unit per behaviour. `AppendEscapedRbsp` byte by
byte, with a decoder that reads along as history; then `H264SeiInsertOffset` with the search of
`FindNextStartCode` position by position, and the three copies. The payload is any sequence
of bytes: that it holds a timestamp makes no difference to what is shown.

**`CommsHandle`**. One thread of the application opens, connects, sends, closes and frees
handles, in every order the API allows and again after failures; each handle has a listener thread;
callbacks may connect a UDP handle, as `HandleClientCommand` does. `CommsClose` is cut where a
listener can come between: close the socket, clear `running`, join; `CommsConnect` of a TCP client
likewise: `connect`, count the connection, store the ip, store the port. A listener's steps are the
reading of the socket's number, `recv`, for a TCP client the copying of the handle's address, and
the callback; a UDP callback that connects stores the address and counts in two. The kernel gives the lowest free
number to a new socket; its `connect` is that of Linux, blocking or not. An
address is a pair of parts of which only matters who named them: nobody, an earlier opening of the
handle, or the present one. A `pthread_join` of a thread that was not started or was joined before
is undefined: it returns an error, or the process ends (`crashed`). `main`'s two handles are among
the handles: destroyed unopened when the configuration is bad, opened and never closed otherwise.

The `*Proofs` modules hold the theorems. No module uses RECURSIVE operators.

## 4. Runs, bounds and fairness

| run | checks | bounds, and why they are enough |
|---|---|---|
| `control_safety` | `ImplementsWatchdog` `ExpiredEventuallyNull` `SetpointsKeepFlowing` | timeout 1, heartbeat period 2, six ticks: a twist can be young, at the limit, expired, and renewed, with heartbeats due and not due; the device may change in every state; one twist within the limits, one beyond them with a `NaN`, six damaged datagrams |
| `imu_safety` | `AtMostOneStaleSample` `SentToAClient` `ImplementsSampleStream` `SilentAfterClose` | queue of 2 and 3 samples per stream: overflow with a batch in flight; 2 sessions of clients with different hosts and ports: a second ESTABLISH over the first, with samples sent between its stores; a third host that sends other and damaged datagrams |
| `video_safety` | `AppsrcAlive` `SeiBelongsToFrame` `StampsWait` `NumbersGrow` `LostToStalePushOnly` `ImplementsFrameStream` `StuckOnlyUnplayed` | 2 pipelines (a stale one and its successor), 5 frames: a map of 4 overflows, through stamps of frames that the encoder dropped, while a pipeline of 2 is full |
| `capture_safety` | `QueueOfThisRun` `StreamsOncePlugged` | three kinds of camera (D435i, one with IMU, one without), queue of 2, one spurious failure at any call |
| `tcp_table` | `TableTellsTruth` `NoSocketLost` `BroadcastMissesFew` | three clients for two slots: the table fills, empties and is compacted, and socket numbers are reused |
| `tcp_sessions` | `RightClientAnswered` `OnlyAskedCutOff` `DataEventuallyRead` `EventuallyLetIn` `CloseReturns` | two clients in two slots, so that the one behind moves when the one before it leaves or is disconnected by the application while the listener has its slot in hand |
| `frame_codec` | `ReadsAhead` `RoundTrip` `OneFramePerMessage` | every byte from the three delimiters and three escape codes, the latter plain bytes too; every message of up to 2 data bytes and one that is too long |
| `config_safety` | `ReadAsWritten` `RefusedIfUnreadable` | every file of up to 3 of 59 lines over four neighbouring parameters, the last line with and without its newline: assignment, overwriting neighbour, new assignment; two mentions to a line: hidden, taken, passed over |
| `sei_nal` | `NoStartCodeInside` `ReadsBack` `UnitsKept` `DelimiterFirst` | payloads of up to 6 bytes of 0, 1, 3, 4: every run of zeros, one behind the other, before bytes that must and need not be escaped; access units from start codes of 3 and 4 bytes with and without delimiter, and any up to 7 bytes of 0, 1, 9 |
| `handle_life` | `TypeOK` `OnlyItsOwn` `SentToNamed` `CopiesTheRemote` `CloseReturns` `RetryFindsConnection` `DataEventuallyRead` | a UDP handle and a TCP client with two sockets, opened and closed without limit: a listener holds a number that is being closed, the other handle has the other number, and leaked sockets use the numbers up |

The type invariants and the safety properties `PortOpenWhenUsed`, `WireWithinLimits` and
`BagOfOneRun` are proved (section 5) and not repeated in the runs. The other two runs,
`control_live_nulled` and `video_blackout`, each check one sentence of the repository's text that
the code does not keep; see section 6.

The bounds are named constants: `MaxTime` (clock), `MaxSeq`, `MaxFrames`, `MaxBins`,
`MaxSessions`, `MaxFaults`, `MaxForeign`, `MaxLines`. `MaxQueue`, `MaxMap`, `MaxClients` and
`BufferSize` are limits of the code itself (4096, 512, 256, 8192), made small; `MaxSockets` is the
kernel's limit on descriptors, and without a socket left `socket` fails. Symmetry (of the
clients) is used in `tcp_table` only, which checks no liveness. Deadlock is checked in the
control, IMU, video and capture runs; it is off for `TcpServer` and `CommsHandle`,
where a closed or freed handle stops, and for `FrameCodec`, `ConfigParse` and `SeiNal`, which end.

**Fairness.** Weak fairness of a thread's next step stands for an operating system that runs every
thread that can run. Nothing is assumed of clients, cameras, the serial device, viewers, or of how
long a step takes: `ExpiredEventuallyNull` and `SetpointsKeepFlowing` have the device's behaviour
as a hypothesis, `StreamsOncePlugged` a camera that stays, `StuckOnlyUnplayed` says what a
blocked push waits for. In `TcpServer` the application's own operations are not fair, only their
continuation once begun; a mutex is never held by a thread that has stopped, so weak
fairness is enough for those that wait for it. In `CommsHandle` the application finishes a call it
has begun, a remote answers a connection request one way or the other (the kernel's timeout is
such an answer), and, for `RetryFindsConnection` only, the application repeats a `CommsConnect`
that returned false as long as the handle is open: strong fairness, as its other calls and
waits come in between. A connection that is reset before the next call is the next call's failure,
which `RetryFindsConnection` allows. Nothing says that it does; the property is what the header offers to
one that does. No fairness is assumed of its other operations or of the network. Liveness under a bound on the environment's actions
means: once the environment's supply is used up or it stops, the threads do what is left.

## 5. Proofs

All theorems hold for every value of the constants that satisfies the modules' `ASSUME`s, and have
complete proofs. Each `*Proofs` module proves `Init => IInv`, `IInv /\ [Next]_vars => IInv'` and
`IInv => P`, one lemma or step per action.

| module | theorems | inductive invariant: the property and what it needs |
|---|---|---|
| `OrangeCubeControlProofs` | `TypeCorrect` `PortSafe` `LimitsRespected` `ControllerIsWatchdog` `ExpiredTwistNotUsed`; liveness: `SetpointsFlow` `ExpiredIsNulled` | `LoopInv`: the loop's locals agree with `pc` - `fresh` is only true after a read, `cmd` is then a genuine twist - so that the armed command of the refinement is what is written; and nobody listens, so that no twist is there, before the loop runs and after it has returned |
| `ImuSessionProofs` | `TypeCorrect` `DestinationAlwaysKnown` `StreamsStayInOrder` `StreamsAreSampleStreams` `AtMostOneSampleIsStale` `SamplesGoToAClient` | `ThreadInv`: where the listener is between its stores, `client_count` is already set; the batch is empty outside the sending loop. `OneStale`: while an arrival of an earlier session is under way no such sample is queued, and otherwise one at most. `AddressInv`: which halves of the destination are whose between the stores |
| `VideoStreamerProofs` | `TypeCorrect` `AppsrcStaysAlive` `AppsrcIsFreed` `SeiIsTheFramesOwn` `StampsAreNotEvicted` `EmbeddedNumbersGrow` `OnlyAStalePushDetaches` `VideoIsAFrameStream`; liveness: `StuckPushIsUnplayed` | `CounterInv`, `BinInv`, `RefsInv` (references are counted exactly), `FlowInv` (frames in flight are ordered), `StampInv` (a stamp in the map is that of the frame with its pts, in the current pipeline), `KeyInv` and `KeptInv` (below) |
| `TcpServerProofs` | `TypeCorrect` `TableIsTruthful` `NoSocketIsLost` `AnswersReachSender` `OnlyTheAskedAreCutOff` `BroadcastsMissFew` | `LockInv` (who is in the critical section), `OpenInv`, `PeerInv` and `SlotInv` (sockets, clients and slots name each other), `TableInv` (the table while it is open, with the slot being removed as the exception), `ListenerInv` (what the listener remembers of a slot stays true without the mutex until the application removes that slot or one before it), `RemovalInv` (a client being removed has been cut off already), `BroadcastInv` (a client that stays has been reached, or is ahead of the broadcast, or is one of as many as have been removed) |
| `CommsHandleProofs` | `TypeCorrect` `ListenersStayOnTheirOwn` `SocketsAreNotShared` `DatagramsGoWhereNamed` `CallbackKnowsTheRemote`; liveness: `DataIsRead` `ClosesReturn` `RetriesFindConnection` | `JobInv` (what the application's thread is in the middle of), `SocketInv` (the number a handle holds is that of an open socket of its kind and of no other handle), `ListenerInv` (a listener lives between opening and join, and the number it has read is the handle's or, while that is being closed, nobody's), `RemoteInv` (a remote that counts was named, unless `CommsConnect` is still storing it, and its socket is connected), `ClientInv` (a TCP client holds no part of an address but while it counts a connection). For liveness `LiveInv`: a running listener is in its loop or on its way there, one that is joined has been told to stop, one in its loop never blocks in `recv`, and a connection that is waited for is under way or decided |
| `FrameCodecProofs` | `TypeCorrect` `DecodesInPlace` `FramesAreDelimited` `CutOffFramesAreRejected` `MessagesRoundTrip` `AcceptedIsOneFrame` | `EncodeInv`, `SentInv` (a delimiter only at the ends), `AcceptInv` (a stop byte has been received where decoding ended), `WholeInv` (below) |
| `FramePathProofs`, on `RealsenseCapture` | `CaptureTypeCorrect` `QueueHoldsThisRunOnly` `BagHoldsOneRun`; liveness: `StreamingResumes` | `CaptureInv`: the three together, and that a recording starts with an empty file (`FreshBag`); `LoopInv`: a frameset in hand is not used up, a bag plays in debug mode only |
| `FramePathProofs`, on `SeiNal` | `SeiTypeCorrect` `NoStartCodeForms` `TimestampReadsBack` `UnitsStay` `DelimiterStaysFirst` | `EscapeInv` (the zeros counted are those at the end of the message, for encoder and decoder alike), `EndsInStop` (the message never ends in zeros that could meet the next unit), `SearchInv` (what the search has passed is the delimiter only), `CopyInv` |
| `ConfigParseProofs` | `TypeCorrect` `FilesAreRead` `UnreadableIsRefused` | `CutInv` (which mentions of the line are visible, and that those whose turn has been and that were taken had an end and could be read), `FoundInv`, `ReadInv` and `RefusedInv`: the properties for what has been taken by now; the key step is that what `strstr` finds for a parameter in the cut line is the mention that leads in the whole one (`FoundLeads`) |

`DelimiterStaysFirst` is about access units without empty units (`WellFormed`), which H264 does not
have: the search looks only at start codes that something follows. Hypotheses beyond the
`ASSUME`s: `ControllerIsWatchdog`, `ExpiredTwistNotUsed` and `ExpiredIsNulled` assume that the age
cannot wrap (`Wrap > MaxTime + timeout_ms`). That is needed: with `MaxTime` beyond `Wrap`, TLC finds
`ImplementsWatchdog` violated.

The `TypeCorrect` theorems but that of `CommsHandle`, `PortSafe`, `LimitsRespected` and
`BagHoldsOneRun` are about invariants that no run lists, and so are `ExpiredTwistNotUsed`,
`DestinationAlwaysKnown`, `StreamsStayInOrder`, `AppsrcIsFreed`,
`SocketsAreNotShared`, `FramesAreDelimited` and `CutOffFramesAreRejected`.

`FramePathProofs` is about both ends of a frame's way, `RealsenseCapture` and `SeiNal`; the two
share no state, which is why the definitions of `SeiNal` have names of their own (`SeiSpec`, ...).

**Whole messages.** `RoundTrip` and `OneFramePerMessage` speak of what a message of any length
becomes, which would be an induction over its bytes. `WholeInv` does without: it relates the
two loops byte by byte through the position in the frame at which each byte of the message begins,
so that each step of the decoder undoes the step of the encoder that wrote what it reads.

**Stamps that wait.** A full map evicts its smallest pts. `KeyInv` says what the map can hold once
it has been cleared: the pts of frames in the pipeline or about to be pushed, pts smaller than all
of these, and at most one other, of a frame that was on its way to the pipeline before. If the
smallest were one that is waited for, there would be none smaller, so no more than
`Capacity + 2` in all, and the map would not be full: this is where the `ASSUME` on `MaxMap` is
needed.

**Broadcasts.** Each removal moves one client at most past the broadcast, and a broadcast that
starts or goes on during a removal sees the slot moved later: `Missed` are the clients that stay and
are neither reached nor ahead, and `BroadcastInv` keeps their number, with a removal under way
counted as one more (`Pending`), at most `removed`. Who is reached is no longer ahead, so nobody is
reached twice.

**Liveness.** The prover knows the laws of temporal logic and of fairness, but ENABLED is to it a
formula that it cannot look into. So the seven liveness theorems have the form
`FairSpec /\ []Guards => P`, where `Guards` says that the fair actions are ENABLED wherever the
guards written out in it hold (`LoopEnabled`, `CaptureEnabled`, `ThreadsEnabled`, `HandlesEnabled`). That is a fact
about each state and its actions, and TLC confirms it: added as INVARIANTs to `control_safety`,
`capture_safety`, `video_safety` and `handle_life`, the guards are equivalent to ENABLED in every reachable state.
They say no more of the behaviours than ENABLED does; what remains is what the theorems are about,
that the steps in question lead where the property says, whatever the other threads do meanwhile:

- `SetpointsFlow`, `ExpiredIsNulled`: the loop is followed through its `pc`, round by round;
  a port that is closed or stale when the device becomes ready is live after two.
- `StreamingResumes`: whatever the loop was busy with (a frameset of a camera that is gone is at
  most four frames), it gets back to `query_devices` and from there to the camera that is plugged
  in (`LooksAgain`, `StreamsOn`). It has one hypothesis more, that librealsense's own failures stop
  (`FaultsStop`). `MaxFaults` implies it, by an induction over the failures.
- `StuckPushIsUnplayed`: a push for ever stays into the same pipeline (`StuckStays`); that one is
  building, which ends (`StuckBuilds`), or it plays and takes the frame (`StuckFlows`), or it is
  as the property says.
- `DataIsRead`, `ClosesReturn`, `RetriesFindConnection`: per handle, along the steps of its
  listener and of the application's thread; that nobody waits for somebody who is gone is `LiveInv`.

**Model-checked only.** `SilentAfterClose`, and `DataEventuallyRead`, `EventuallyLetIn` and
`CloseReturns` of `TcpServer`. Each is an induction over something without a bound in the theorem:
the samples still to be sent, the slots and clients to be gone through. Such an induction needs a rule with an operator as its parameter, which
no installed prover can instantiate. The hypotheses on ENABLED and `FaultsStop` are
model-checked as well.

## 6. What the code does that its text does not say

| run | what happens |
|---|---|
| `control_live_nulled` | a twist stored after `now` was taken has a negative age, which becomes huge as `uint32_t`: a live twist is replaced by the null setpoint |
| `video_blackout` | a push refused by the old pipeline detaches the new one, which is never fed |

`control_live_nulled` costs the vehicle one loop (33 ms); `control_safety` shows what remains true:
with respect to the time the loop sampled nothing expired is used, and the null setpoint follows
every expired twist.

The models contain these behaviours as well, which no run is about:

- The destination is written word by word while the publisher sends (`eth_comms.h:349`): between the
  two stores a sample goes to the new client's host and an earlier client's port. `SentToAClient`
  says that nothing else can happen, with two hosts in `imu_safety`.
- A number is stored eight bytes wide (`file_parser.h:501`): `FPS=...` in a file without
  `CONTROL_ENABLED` disables control, although the parameter is registered with the default true
  (`app_config.cpp:159`). `ReadAsWritten` says so: the last value that covers a parameter decides,
  also when it is its neighbour's upper half.
- A number or truth value that cannot be read does not always refuse the file: one without an end,
  as in a last line `FPS=30fps` without a newline, is passed over with the rest of its line
  (`file_parser.h:473`), and so is one that a terminator hides; the file is accepted. A file that
  assigns nothing is refused, although no parameter is mandatory. `RefusedIfUnreadable` says exactly
  when.
- A `NaN` passes `Clamp` to the flight controller (`orange_cube_controller.cpp:63`):
  `WireWithinLimits` bounds every other value.
- `CommsClose` leaves the socket open of a handle that has never had a remote (`eth_comms.h:277`), and
  failed openings leave theirs as well (`:728`): `CommsHandle` leaks them until no number is left.
- The connection of a TCP client that the remote has closed is noticed by nobody:
  `CommsDisconnect` refuses clients, and the listener receives nothing for ever (`:567`).
- `CommsSend` with an ip and a port on a UDP handle that has a remote changes the port only
  (`eth_comms.h:459`): the datagram goes to the new port of the old host. `SentToNamed` says no more
  than that both were named since the handle was opened.
- `CommsConnect` on a TCP client returns false whenever the listener was first to the socket
  (`:339`, `:490`), while the connection comes about; the callback then tells `0.0.0.0:0` until a
  retry has stored the address. `RetryFindsConnection` bounds this.
- `CommsConnect` counts a connection (`:347`) before it stores the ip (`:349`) and the port (`:350`),
  without the mutex under which the listener copies them (`:559`): in between the callback is told
  `0.0.0.0:0`, or the ip with port 0, while `client_count` is 1. `CopiesTheRemote` is what remains:
  the whole address once `CommsConnect` has returned true, never a part of an earlier connection's.
- `now` is taken before a heartbeat that may block and before the lock, so a twist that has expired
  by the time it is read can still be flown, once (`orange_cube_controller.cpp:412`); and 2^32 ms
  after the last twist its age is small again (`:424`).
- A stamp registered between the new `appsrc` and the clearing of the map is lost, and its frame
  has no SEI (`video_streamer.cpp:279`). `StampsWait` is about the frames after the clearing.
- Without a D435i any camera is opened and kept for as long as it delivers
  (`realsense_capture.cpp:43`): `StreamsOncePlugged` is about a D435i that is plugged in alone. A
  reconnection while recording replaces the recording (`:139`): `BagOfOneRun`.
- If the application disconnects a client after the listener has read that client's slot or one
  behind it (`eth_comms.h:519`), the listener may give its callback a cid that is another client's by
  then (`:528`), receive from a number that has gone to another client and tell the callback the
  wrong address, or disconnect the client that has moved into the slot (`:530`).
  `RightClientAnswered` and `OnlyAskedCutOff` say that nothing else leads there.
- A broadcast skips a client that moves into a slot it has passed, and reports success (`:413`).
  `BroadcastMissesFew` bounds how many.
- The client that finds the table full ends the accepter (`:661`): the server lets nobody in
  afterwards, though slots become free. `EventuallyLetIn` is about servers that never were full.
- A client accepted while `CommsClose` runs keeps its socket (`:289`).
- `DecodeFrame` has overwritten part of a datagram that it refuses when the caller logs it as raw
  (`orange_cube_controller.cpp:292`).
- An assignment in a comment is carried out when its parameter was registered earlier than the
  line's own (`file_parser.h:429`), and hides nothing else: `Takes` says which values of a line are
  stored, `ReadAsWritten` and `RefusedIfUnreadable` are about those.

## 7. What is not modelled

MAVLink packing, termios settings, GStreamer's and librealsense's internals (external, modelled by
what the code relies on), CRC32 (a pure function), the search for the configuration file, the
command line's one flag, parameters of types the application does not register, CSV and saving,
logging, the installation scripts. Of `main` only the handles are modelled: if the RTSP port
cannot be attached (`video_streamer.cpp:511`) the process goes on without video, as `main` waits for
threads that do not end, and no text of the repository says what it should do. Of `CommsHandle`'s
applications, one whose callbacks open or close handles is left out, and one that calls from two
threads; with one thread, which stays in `CommsClose` until the join, no other handle can get a
number that a listener still holds. The copy of an address is one step, and the end or reset of a
connection that `CommsConnect` has returned changes nothing in the program and is no state. Simplifications that a reader should know: floats are integers and `NaN`;
header fields are one byte wide in `FrameCodec`; numbers in `ConfigParse` fit 32 bits, and values
have no length, nor have lines (`name[256]` at `file_parser.h:432` holds what follows the first
mention of a name); the constructor of `rs2::pipeline` outside the `try`
(`realsense_capture.cpp:160`) does not fail; a read of one machine word is atomic.
