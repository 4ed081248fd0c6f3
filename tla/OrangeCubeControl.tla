------------------------- MODULE OrangeCubeControl -------------------------
(***************************************************************************)
(* src/orange_cube_controller.cpp: twist commands arrive in UDP datagrams, *)
(* and a control loop turns the latest one into a MAVLink velocity         *)
(* setpoint for the OrangeCube, over a serial port that can be unplugged   *)
(* or stall.                                                               *)
(*                                                                         *)
(* Two threads: the UDP listener runs HandleControlCommand, the control    *)
(* thread runs RunOrangeCubeControl.  They share the latest twist, under   *)
(* twist_mutex.  Every step of the control thread between two places where *)
(* another thread, the clock or the device can make a difference is one    *)
(* action; pc names the next one.  The environment moves the clock and the *)
(* device.  Sleeps last any time: the system is not a real-time one.       *)
(***************************************************************************)
EXTENDS Integers, Sequences

CONSTANTS Datagrams,     \* what can arrive on the control port (see Datagram)
          NoTwist,       \* TwistCmd{}: no command
          NaN,           \* the float that compares with nothing
          CtrlTimeoutMs, \* CTRL_TIMEOUT_MS as configured
          DefaultControlTimeoutMs,
          HeartbeatMs,   \* 1000 in the code
          Wrap,          \* 2^32: ages are computed in a uint32_t
          MaxVelocity,   \* MaxVelocity[a]: the largest velocity on axis a
          RosConvention, \* CTRL_ROS_CONVENTION
          NoSetpoint,    \* the FCU has received no setpoint yet
          MaxTime        \* bound on the clock

Axes == {"vx", "vy", "vz", "yaw"}
Float == Int \cup {NaN}
Twist == [Axes -> Float]

kMsgIdTwistCmd == 33
SizeOfTwistCmd == 36

\* A datagram as its receiver sees it: its length, whether DecodeFrame finds a
\* frame in it, whether the CRC matches, and the fields of the frame.
Datagram == [len : Nat, cid : Nat, framed : BOOLEAN, crc_ok : BOOLEAN,
             msg_id : Nat, data_size : Nat, twist : Twist]

timeout_ms == IF CtrlTimeoutMs > 0 THEN CtrlTimeoutMs ELSE DefaultControlTimeoutMs

ASSUME ConstantsAssumption ==
    /\ Datagrams \subseteq Datagram
    /\ NaN \notin Int
    /\ NoTwist \notin Twist
    /\ CtrlTimeoutMs \in Nat /\ DefaultControlTimeoutMs \in Nat \ {0}
    /\ HeartbeatMs \in Nat /\ Wrap \in Nat \ {0} /\ MaxTime \in Nat
    /\ MaxVelocity \in [Axes -> Nat]
    /\ RosConvention \in BOOLEAN
    /\ NoSetpoint \notin Twist

VARIABLES clock,             \* steady_clock, in milliseconds
          device,            \* the serial device: "absent", "ready" or "full"
          mav_fd,            \* "closed", "live", or "stale": its device is gone
          listening,         \* the UDP receiver is running
          latest_twist, latest_twist_time, twist_valid,  \* under twist_mutex
          last_heartbeat, now, cmd, fresh,               \* locals of the loop
          pc,                \* the control thread's next step
          wire               \* the last setpoint the FCU received

shared == <<latest_twist, latest_twist_time, twist_valid>>
locals == <<last_heartbeat, now, cmd, fresh>>
vars == <<clock, device, mav_fd, listening, latest_twist, latest_twist_time,
          twist_valid, last_heartbeat, now, cmd, fresh, pc, wire>>

-----------------------------------------------------------------------------
(* The listener thread. *)

\* The datagrams HandleControlCommand does not discard.
Accepted(d) == /\ d.len > 0
               /\ d.cid = 0
               /\ d.framed
               /\ d.crc_ok
               /\ d.msg_id = kMsgIdTwistCmd
               /\ d.data_size >= SizeOfTwistCmd

Init == /\ clock = 0
        /\ device \in {"absent", "ready"}
        /\ mav_fd = "closed"
        /\ listening = FALSE
        /\ latest_twist = NoTwist
        /\ latest_twist_time = 0
        /\ twist_valid = FALSE
        /\ last_heartbeat = 0
        /\ now = 0
        /\ cmd = NoTwist
        /\ fresh = FALSE
        /\ pc = "start"
        /\ wire = NoSetpoint

HandleControlCommand(d) ==
    /\ listening
    /\ Accepted(d)
    /\ latest_twist' = d.twist
    /\ latest_twist_time' = clock
    /\ twist_valid' = TRUE
    /\ UNCHANGED <<clock, device, mav_fd, listening, locals, pc, wire>>

-----------------------------------------------------------------------------
(* The setpoint of a twist. *)

Negated(v) == IF v = NaN THEN NaN ELSE -v

Clamp(v, low, high) == IF v = NaN THEN NaN
                       ELSE IF v < low THEN low
                       ELSE IF v > high THEN high ELSE v

\* ROS: x forward, y left, z up; body NED: y right, z down.
InBodyNed(a, v) == IF RosConvention /\ a # "vx" THEN Negated(v) ELSE v

Velocity(t) ==
    [a \in Axes |-> Clamp(InBodyNed(a, t[a]), -MaxVelocity[a], MaxVelocity[a])]

NullSetpoint == [a \in Axes |-> 0]

Setpoint(t, isFresh) == IF isFresh THEN Velocity(t) ELSE NullSetpoint

-----------------------------------------------------------------------------
(* The control thread. *)

CanWrite == mav_fd = "live" /\ device = "ready"

\* write() keeps answering EAGAIN while the device is full: the thread spins and
\* neither CanWrite nor WriteFails holds.
WriteFails == mav_fd # "live"

\* A disabled controller returns at once.  A receiver that could not be started
\* is not noticed: the loop runs without one.
Start == /\ pc = "start"
         /\ \/ /\ pc' = "done"
               /\ UNCHANGED <<listening, last_heartbeat>>
            \/ /\ listening' \in BOOLEAN
               /\ last_heartbeat' = clock
               /\ pc' = "open"
         /\ UNCHANGED <<clock, device, mav_fd, shared, now, cmd, fresh, wire>>

\* OpenSerialPort ends with tcflush, which empties the device's queue.
OpenSerialPort ==
    /\ pc = "open"
    /\ \/ /\ mav_fd # "closed"
          /\ pc' = "sample"
          /\ UNCHANGED <<mav_fd, device>>
       \/ /\ mav_fd = "closed" /\ device # "absent"
          /\ mav_fd' = "live"
          /\ device' = "ready"
          /\ pc' = "sample"
       \/ /\ mav_fd = "closed" /\ device = "absent"
          /\ pc' = "retry"
          /\ UNCHANGED <<mav_fd, device>>
    /\ UNCHANGED <<clock, listening, shared, locals, wire>>

SampleTime ==
    /\ pc = "sample"
    /\ now' = clock
    /\ cmd' = NoTwist
    /\ fresh' = FALSE
    /\ pc' = IF clock - last_heartbeat >= HeartbeatMs THEN "heartbeat" ELSE "read"
    /\ UNCHANGED <<clock, device, mav_fd, listening, shared, last_heartbeat, wire>>

\* Whether the heartbeat was written is ignored.
SendHeartbeat ==
    /\ pc = "heartbeat"
    /\ CanWrite \/ WriteFails
    /\ last_heartbeat' = now
    /\ pc' = "read"
    /\ UNCHANGED <<clock, device, mav_fd, listening, shared, now, cmd, fresh, wire>>

AgeSwapped(at, received) == (received - at) % Wrap

\* static_cast<uint32_t> of a signed count of milliseconds.
Age(at, received) == (at - received) % Wrap

IgnoresAge(at, received, valid) == valid

IsFresh(at, received, valid) == valid /\ Age(at, received) <= timeout_ms

ReadTwist ==
    /\ pc = "read"
    /\ IF IsFresh(now, latest_twist_time, twist_valid)
       THEN cmd' = latest_twist /\ fresh' = TRUE
       ELSE UNCHANGED <<cmd, fresh>>
    /\ pc' = "setpoint"
    /\ UNCHANGED <<clock, device, mav_fd, listening, shared, last_heartbeat, now, wire>>

SetpointLostOnFailure ==
    /\ pc = "setpoint"
    /\ pc' = "sleep"
    /\ IF CanWrite THEN wire' = Setpoint(cmd, fresh) ELSE WriteFails /\ UNCHANGED wire
    /\ UNCHANGED <<clock, device, mav_fd, listening, shared, locals>>

SendTwistSetpoint ==
    /\ pc = "setpoint"
    /\ \/ /\ CanWrite
          /\ wire' = Setpoint(cmd, fresh)
          /\ pc' = "sleep"
       \/ /\ WriteFails
          /\ pc' = "close"
          /\ UNCHANGED wire
    /\ UNCHANGED <<clock, device, mav_fd, listening, shared, locals>>

CloseSerial == /\ pc = "close"
               /\ mav_fd' = "closed"
               /\ pc' = "sleep"
               /\ UNCHANGED <<clock, device, listening, shared, locals, wire>>

Sleep == /\ pc \in {"sleep", "retry"}
         /\ pc' = "open"
         /\ UNCHANGED <<clock, device, mav_fd, listening, shared, locals, wire>>

RunOrangeCubeControl ==
    \/ Start \/ OpenSerialPort \/ SampleTime \/ SendHeartbeat
    \/ ReadTwist \/ SendTwistSetpoint \/ CloseSerial \/ Sleep

-----------------------------------------------------------------------------
(* The environment. *)

Tick == /\ clock < MaxTime
        /\ clock' = clock + 1
        /\ UNCHANGED <<device, mav_fd, listening, shared, locals, pc, wire>>

\* An open descriptor outlives its device but writes to it fail from then on,
\* even when the device comes back.
Unplug == /\ device # "absent"
          /\ device' = "absent"
          /\ mav_fd' = IF mav_fd = "live" THEN "stale" ELSE mav_fd
          /\ UNCHANGED <<clock, listening, shared, locals, pc, wire>>

SetDevice(from, to) == /\ device = from
                       /\ device' = to
                       /\ UNCHANGED <<clock, mav_fd, listening, shared, locals, pc, wire>>

Plug == SetDevice("absent", "ready")
Stall == SetDevice("ready", "full")
Drain == SetDevice("full", "ready")

Next == \/ RunOrangeCubeControl
        \/ \E d \in Datagrams : HandleControlCommand(d)
        \/ Tick \/ Unplug \/ Plug \/ Stall \/ Drain

Spec == Init /\ [][Next]_vars

\* The operating system runs the control thread; nothing is assumed of clients,
\* of the device or of how long a step takes.
FairSpec == Spec /\ WF_vars(RunOrangeCubeControl)

-----------------------------------------------------------------------------
(* Correctness. *)

\* The twists a client really sent: those of undamaged, complete TWIST frames.
GenuineTwists ==
    {d.twist : d \in {e \in Datagrams : /\ e.len > 0 /\ e.cid = 0
                                        /\ e.framed /\ e.crc_ok
                                        /\ e.msg_id = kMsgIdTwistCmd
                                        /\ e.data_size >= SizeOfTwistCmd}}

\* The type invariant of the shared fields of AppContext and of the control loop.
TypeOK == /\ clock \in 0..MaxTime
          /\ device \in {"absent", "ready", "full"}
          /\ mav_fd \in {"closed", "live", "stale"}
          /\ listening \in BOOLEAN
          /\ latest_twist \in GenuineTwists \cup {NoTwist}
          /\ latest_twist_time \in 0..MaxTime
          /\ twist_valid \in BOOLEAN
          /\ last_heartbeat \in 0..MaxTime
          /\ now \in 0..MaxTime
          /\ cmd \in GenuineTwists \cup {NoTwist}
          /\ fresh \in BOOLEAN
          /\ pc \in {"start", "done", "open", "retry", "sample", "heartbeat", "read",
                     "setpoint", "close", "sleep"}
          /\ wire \in Twist \cup {NoSetpoint}

\* The serial port is open wherever the loop writes to it, however often the
\* device went away and came back; a failed write is always followed by a close
\* before the next open (mav_fd in RunOrangeCubeControl).
PortOpenWhenUsed ==
    /\ pc \in {"sample", "heartbeat", "read", "setpoint", "close"} => mav_fd # "closed"
    /\ mav_fd = "live" => device # "absent"

\* What reaches the flight controller stays inside the velocity limits on every
\* axis, whatever the client sends.  The exception is a NaN: it passes Clamp,
\* since it compares with nothing, and only a client's NaN can appear there.
WireWithinLimits ==
    wire # NoSetpoint =>
        \A a \in Axes : \/ wire[a] \in -MaxVelocity[a]..MaxVelocity[a]
                        \/ wire[a] = NaN /\ \E t \in GenuineTwists : t[a] = NaN

\* README: "watchdog para el ultimo twist".  A twist that had expired when the loop
\* sampled the time is not used, however long ago it arrived (the age that
\* RunOrangeCubeControl computes under twist_mutex).
ExpiredAtSampleIsNulled ==
    [][pc = "read" /\ now - latest_twist_time > timeout_ms => ~fresh']_vars

\* README: the watchdog replaces the latest twist by a null setpoint when it
\* expires: a twist that has not expired when it is read is used.
LiveTwistIsUsed ==
    [][pc = "read" /\ pc' = "setpoint" /\ twist_valid
           /\ clock - latest_twist_time \in 0..timeout_ms => fresh']_vars

\* The vehicle does not keep flying an expired command while the port works: an
\* expired twist is followed by a null setpoint on the wire, unless the device
\* stops working or a new twist arrives.
Expired == twist_valid /\ clock - latest_twist_time > timeout_ms
ExpiredEventuallyNull ==
    Expired ~> (wire = NullSetpoint \/ ~Expired \/ device # "ready")

\* However the device misbehaves meanwhile, once it stays ready the enabled
\* controller writes setpoints for ever: no failed write, failed open or stale
\* descriptor wedges the loop.
SetpointWritten == pc = "setpoint" /\ pc' = "sleep" /\ wire' # NoSetpoint /\ mav_fd = "live"
SetpointsKeepFlowing ==
    <>[](device = "ready" /\ pc # "done") => []<><<SetpointWritten>>_vars

-----------------------------------------------------------------------------
(* The controller keeps the promise of TwistWatchdog. *)

Watchdog == INSTANCE TwistWatchdog
    WITH Commands <- GenuineTwists,
         NoCommand <- NoTwist,
         SetpointOf <- [t \in GenuineTwists |-> Velocity(t)],
         Null <- NullSetpoint,
         Timeout <- timeout_ms,
         command <- latest_twist,
         received <- latest_twist_time,
         sample <- now,
         armed <- IF fresh THEN cmd ELSE NoTwist,
         emitted <- wire

\* Every step of the controller is a step of the watchdog or changes nothing the
\* watchdog speaks of: only genuine twists, no older than the timeout when the
\* loop samples the time, or the null setpoint, reach the flight controller.
ImplementsWatchdog == Watchdog!Spec
=============================================================================
