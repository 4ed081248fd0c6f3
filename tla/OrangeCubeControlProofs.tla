----------------------- MODULE OrangeCubeControlProofs -----------------------
(***************************************************************************)
(* Theorems about OrangeCubeControl, for every set of datagrams, timeout,  *)
(* heartbeat period, velocity limit and clock bound.                       *)
(***************************************************************************)
EXTENDS OrangeCubeControl, TLAPS

-----------------------------------------------------------------------------
(* Lemmas about the helpers. *)

\* Only Twist records are carried by datagrams.
LEMMA GenuineAreTwists == GenuineTwists \subseteq Twist
  BY ConstantsAssumption DEF GenuineTwists, Datagram

\* A twist whose datagram HandleControlCommand accepts is genuine.
LEMMA AcceptedIsGenuine ==
  ASSUME NEW d \in Datagrams, Accepted(d)
  PROVE  d.twist \in GenuineTwists
  BY DEF Accepted, GenuineTwists

\* Clamp returns a value between its bounds, or the NaN it was given.
LEMMA ClampBounds ==
  ASSUME NEW v \in Float, NEW m \in Nat
  PROVE  /\ v # NaN => Clamp(v, -m, m) \in -m..m
         /\ v = NaN => Clamp(v, -m, m) = NaN
  BY ConstantsAssumption DEF Clamp, Float

\* The setpoint of a twist is within the limits wherever the twist is a number.
LEMMA VelocityBounds ==
  ASSUME NEW t \in Twist
  PROVE  /\ Velocity(t) \in Twist
         /\ \A a \in Axes : \/ Velocity(t)[a] \in -MaxVelocity[a]..MaxVelocity[a]
                            \/ Velocity(t)[a] = NaN /\ t[a] = NaN
<1> DEFINE clamped(a) == Clamp(InBodyNed(a, t[a]), -MaxVelocity[a], MaxVelocity[a])
<1>1. ASSUME NEW a \in Axes
      PROVE  /\ \/ clamped(a) \in -MaxVelocity[a]..MaxVelocity[a]
                \/ clamped(a) = NaN /\ t[a] = NaN
             /\ MaxVelocity[a] \in Nat
  <2>1. t[a] \in Float /\ MaxVelocity[a] \in Nat
    BY ConstantsAssumption DEF Twist
  <2>2. InBodyNed(a, t[a]) \in Float /\ (InBodyNed(a, t[a]) = NaN => t[a] = NaN)
    BY <2>1, ConstantsAssumption DEF InBodyNed, Negated, Float
  <2> QED
    BY <2>1, <2>2, ClampBounds
<1>2. \A a \in Axes : clamped(a) \in Float
  BY <1>1 DEF Float
<1>3. \A a \in Axes : Velocity(t)[a] = clamped(a)
  BY DEF Velocity
<1>4. Velocity(t) \in Twist
  BY <1>2 DEF Velocity, Twist
<1> QED
  BY <1>1, <1>3, <1>4

\* The null setpoint is a setpoint within every limit.
LEMMA NullBounds ==
  /\ NullSetpoint \in Twist
  /\ \A a \in Axes : NullSetpoint[a] \in -MaxVelocity[a]..MaxVelocity[a]
<1>1. \A a \in Axes : MaxVelocity[a] \in Nat
  BY ConstantsAssumption
<1> QED
  BY <1>1 DEF NullSetpoint, Twist, Float

\* The timeout is positive, whatever is configured.
LEMMA TimeoutNat == timeout_ms \in Nat \ {0}
  BY ConstantsAssumption DEF timeout_ms

-----------------------------------------------------------------------------
(* The inductive invariant. *)

\* What the control loop relies on between its steps: an armed twist is a real
\* one, a received twist is a real one, the port is open where it is used, and a
\* controller that is not enabled gets no twists.
LoopInv == /\ twist_valid => latest_twist \in GenuineTwists
           /\ fresh => cmd \in GenuineTwists
           /\ pc \in {"heartbeat", "read"} => ~fresh
           /\ pc \in {"start", "done"} => ~listening /\ ~twist_valid

IInv == TypeOK /\ LoopInv /\ PortOpenWhenUsed /\ WireWithinLimits

LEMMA InitIInv == Init => IInv
<1>1. MaxTime \in Nat
  BY ConstantsAssumption
<1>2. 0 \in 0..MaxTime
  BY <1>1
<1>3. Init => TypeOK
  BY <1>2 DEF Init, TypeOK
<1>4. Init => LoopInv /\ PortOpenWhenUsed /\ WireWithinLimits
  BY DEF Init, LoopInv, PortOpenWhenUsed, WireWithinLimits
<1> QED
  BY <1>3, <1>4 DEF IInv

\* A setpoint written from a state of the invariant respects the limits.
LEMMA WrittenWithinLimits ==
  ASSUME IInv
  PROVE  LET w == Setpoint(cmd, fresh)
         IN  /\ w \in Twist
             /\ \A a \in Axes : \/ w[a] \in -MaxVelocity[a]..MaxVelocity[a]
                                \/ w[a] = NaN /\ \E t \in GenuineTwists : t[a] = NaN
<1>1. CASE fresh
  <2>1. cmd \in GenuineTwists /\ cmd \in Twist
    BY <1>1, GenuineAreTwists DEF IInv, LoopInv
  <2> QED
    BY <1>1, <2>1, VelocityBounds DEF Setpoint
<1>2. CASE ~fresh
  BY <1>2, NullBounds DEF Setpoint
<1> QED
  BY <1>1, <1>2

LEMMA NextIInv == IInv /\ [Next]_vars => IInv'
<1> SUFFICES ASSUME IInv, [Next]_vars
             PROVE  IInv'
  OBVIOUS
<1> USE DEF IInv, TypeOK, LoopInv, PortOpenWhenUsed, WireWithinLimits
<1>1. CASE Start
  BY <1>1 DEF Start, shared
<1>2. CASE OpenSerialPort
  BY <1>2 DEF OpenSerialPort, shared, locals
<1>3. CASE SampleTime
  BY <1>3 DEF SampleTime, shared
<1>4. CASE SendHeartbeat
  BY <1>4 DEF SendHeartbeat, shared
<1>5. CASE ReadTwist
  BY <1>5 DEF ReadTwist, IsFresh, shared
<1>6. CASE SendTwistSetpoint
  <2>1. UNCHANGED <<clock, device, mav_fd, listening, shared, locals>>
    BY <1>6 DEF SendTwistSetpoint
  <2>2. CASE CanWrite /\ wire' = Setpoint(cmd, fresh) /\ pc' = "sleep"
    <3>1. /\ wire' \in Twist
          /\ \A a \in Axes : \/ wire'[a] \in -MaxVelocity[a]..MaxVelocity[a]
                             \/ wire'[a] = NaN /\ \E t \in GenuineTwists : t[a] = NaN
      BY <2>2, WrittenWithinLimits
    <3> QED
      BY <2>1, <2>2, <3>1 DEF shared, locals
  <2>3. CASE pc' = "close" /\ UNCHANGED wire /\ pc = "setpoint"
    BY <2>1, <2>3 DEF shared, locals
  <2> QED
    BY <1>6, <2>2, <2>3 DEF SendTwistSetpoint
<1>7. CASE CloseSerial
  BY <1>7 DEF CloseSerial, shared, locals
<1>8. CASE Sleep
  BY <1>8 DEF Sleep, shared, locals
<1>9. ASSUME NEW d \in Datagrams, HandleControlCommand(d)
      PROVE  IInv'
  BY <1>9, AcceptedIsGenuine DEF HandleControlCommand, locals
<1>10. CASE Tick
  BY <1>10, ConstantsAssumption DEF Tick, shared, locals
<1>11. CASE Unplug
  BY <1>11 DEF Unplug, shared, locals
<1>12. CASE Plug \/ Stall \/ Drain
  BY <1>12 DEF Plug, Stall, Drain, SetDevice, shared, locals
<1>13. CASE UNCHANGED vars
  BY <1>13 DEF vars
<1> QED
  BY <1>1, <1>2, <1>3, <1>4, <1>5, <1>6, <1>7, <1>8, <1>9, <1>10, <1>11, <1>12, <1>13
     DEF Next, RunOrangeCubeControl

\* The inductive invariant holds in every reachable state.
LEMMA SpecIInv == Spec => []IInv
  BY InitIInv, NextIInv, PTL DEF Spec

-----------------------------------------------------------------------------
(* Theorems. *)

\* Every variable keeps its type; in particular only genuine twists are stored.
THEOREM TypeCorrect == Spec => []TypeOK
  BY SpecIInv, PTL DEF IInv

\* The serial port is open wherever the control loop writes to it.
THEOREM PortSafe == Spec => []PortOpenWhenUsed
  BY SpecIInv, PTL DEF IInv

\* The flight controller receives no velocity beyond the limits, whatever clients
\* send, but for a NaN a client sent.
THEOREM LimitsRespected == Spec => []WireWithinLimits
  BY SpecIInv, PTL DEF IInv

-----------------------------------------------------------------------------
(* The controller implements the watchdog, as long as an age cannot wrap. *)

NoWrap == Wrap > MaxTime + timeout_ms

\* The uint32_t age is at most the timeout only for a twist that arrived at most
\* the timeout before the sampled time; a twist that arrived later looks old.
LEMMA AgeIsExact ==
  ASSUME NoWrap, NEW at \in 0..MaxTime, NEW received \in 0..MaxTime
  PROVE  Age(at, received) <= timeout_ms <=> at - received \in 0..timeout_ms
<1>1. /\ Wrap \in Nat \ {0} /\ MaxTime \in Nat /\ timeout_ms \in Nat
      /\ Wrap > MaxTime + timeout_ms
  BY ConstantsAssumption, TimeoutNat DEF NoWrap
<1>2. CASE at >= received
  <2>1. at - received \in 0..MaxTime
    BY <1>1, <1>2
  <2>2. (at - received) % Wrap = at - received
    BY <1>1, <2>1
  <2> QED
    BY <1>1, <2>1, <2>2 DEF Age
<1>3. CASE at < received
  <2>1. at - received \in -MaxTime..-1
    BY <1>1, <1>3
  <2>2. (at - received) % Wrap = at - received + Wrap
    BY <1>1, <2>1
  <2> QED
    BY <1>1, <2>1, <2>2 DEF Age
<1> QED
  BY <1>2, <1>3

LEMMA InitRefines == Init => Watchdog!Init
  BY DEF Init, Watchdog!Init

LEMMA NextRefines ==
  ASSUME NoWrap, IInv, [Next]_vars
  PROVE  [Watchdog!Next]_(Watchdog!avars)
<1> USE DEF Watchdog!avars, shared, locals
<1>1. CASE Start
  BY <1>1 DEF Start
<1>2. CASE OpenSerialPort
  BY <1>2 DEF OpenSerialPort
<1>3. CASE SampleTime
  <2>1. Watchdog!Sample
    BY <1>3 DEF SampleTime, Watchdog!Sample
  <2> QED
    BY <2>1 DEF Watchdog!Next
<1>4. CASE SendHeartbeat
  BY <1>4 DEF SendHeartbeat
<1>5. CASE ReadTwist
  <2>1. CASE IsFresh(now, latest_twist_time, twist_valid)
    <3>1. latest_twist \in GenuineTwists /\ latest_twist # NoTwist
      BY <2>1, ConstantsAssumption, GenuineAreTwists DEF IInv, LoopInv, IsFresh
    <3>2. now - latest_twist_time \in 0..timeout_ms
      BY <2>1, AgeIsExact DEF IsFresh, IInv, TypeOK
    <3>3. Watchdog!Arm
      BY <1>5, <2>1, <3>1, <3>2 DEF ReadTwist, Watchdog!Arm
    <3> QED
      BY <3>3 DEF Watchdog!Next
  <2>2. CASE ~IsFresh(now, latest_twist_time, twist_valid)
    BY <1>5, <2>2 DEF ReadTwist
  <2> QED
    BY <2>1, <2>2
<1>6. CASE SendTwistSetpoint
  <2>1. CASE UNCHANGED wire
    BY <1>6, <2>1 DEF SendTwistSetpoint
  <2>2. CASE wire' = Setpoint(cmd, fresh)
    <3>1. fresh => cmd \in GenuineTwists /\ cmd # NoTwist
      BY ConstantsAssumption, GenuineAreTwists DEF IInv, LoopInv
    <3>2. Watchdog!Emit
      BY <1>6, <2>2, <3>1 DEF SendTwistSetpoint, Setpoint, Watchdog!Emit, IInv, TypeOK
    <3> QED
      BY <3>2 DEF Watchdog!Next
  <2> QED
    BY <1>6, <2>1, <2>2 DEF SendTwistSetpoint
<1>7. CASE CloseSerial \/ Sleep
  BY <1>7 DEF CloseSerial, Sleep
<1>8. ASSUME NEW d \in Datagrams, HandleControlCommand(d)
      PROVE  Watchdog!Next
  <2>1. Watchdog!Deliver(d.twist)
    BY <1>8 DEF HandleControlCommand, Watchdog!Deliver
  <2> QED
    BY <1>8, <2>1, AcceptedIsGenuine DEF HandleControlCommand, Watchdog!Next
<1>9. CASE Tick
  BY <1>9 DEF Tick, Watchdog!Tick, Watchdog!Next
<1>10. CASE Unplug \/ Plug \/ Stall \/ Drain
  BY <1>10 DEF Unplug, Plug, Stall, Drain, SetDevice
<1>11. CASE UNCHANGED vars
  BY <1>11 DEF vars
<1> QED
  BY <1>1, <1>2, <1>3, <1>4, <1>5, <1>6, <1>7, <1>8, <1>9, <1>10, <1>11
     DEF Next, RunOrangeCubeControl

\* While an age cannot wrap, everything the controller emits is what the watchdog
\* of TwistWatchdog allows: the null setpoint, or the setpoint of a genuine twist
\* no older than the timeout when the loop sampled the time.
THEOREM ControllerIsWatchdog == NoWrap => (Spec => ImplementsWatchdog)
<1> SUFFICES ASSUME NoWrap
             PROVE  Spec => ImplementsWatchdog
  OBVIOUS
<1>1. IInv /\ [Next]_vars => [Watchdog!Next]_(Watchdog!avars)
  BY NextRefines
<1> QED
  BY <1>1, InitRefines, SpecIInv, PTL DEF Spec, ImplementsWatchdog, Watchdog!Spec

\* While an age cannot wrap, a twist that had expired when the loop sampled the
\* time is not used.
THEOREM ExpiredTwistNotUsed == NoWrap => (Spec => ExpiredAtSampleIsNulled)
<1> SUFFICES ASSUME NoWrap
             PROVE  Spec => ExpiredAtSampleIsNulled
  OBVIOUS
<1>1. IInv /\ [Next]_vars
        => [pc = "read" /\ now - latest_twist_time > timeout_ms => ~fresh']_vars
  <2> SUFFICES ASSUME IInv, Next, pc = "read",
                      now - latest_twist_time > timeout_ms
               PROVE  ~fresh'
    OBVIOUS
  <2>1. ~fresh /\ fresh \in BOOLEAN
    BY DEF IInv, LoopInv, TypeOK
  <2>2. ~IsFresh(now, latest_twist_time, twist_valid)
    BY AgeIsExact, TimeoutNat DEF IsFresh, IInv, TypeOK
  <2>3. CASE ReadTwist
    BY <2>1, <2>2, <2>3 DEF ReadTwist
  <2>4. CASE fresh' = fresh
    BY <2>1, <2>4
  <2> QED
    BY <2>3, <2>4
       DEF Next, RunOrangeCubeControl, Start, OpenSerialPort, SampleTime,
           SendHeartbeat, SendTwistSetpoint, CloseSerial, Sleep,
           HandleControlCommand, Tick, Unplug, Plug, Stall, Drain, SetDevice, locals
<1> QED
  BY <1>1, SpecIInv, PTL DEF Spec, ExpiredAtSampleIsNulled

-----------------------------------------------------------------------------
(* Liveness.  The provers cannot expand ENABLED.  What they lack is said by   *)
(* LoopEnabled: the theorems have it as their hypothesis.                     *)

\* The control thread can take its next step, unless it has returned or the write
\* it is in finds the device full.
LoopCanStep == pc # "done" /\ (pc \in {"heartbeat", "setpoint"} => CanWrite \/ WriteFails)
LoopEnabled == LoopCanStep => ENABLED <<RunOrangeCubeControl>>_vars

\* The device stays ready and the controller is enabled.
Running == device = "ready" /\ pc # "done"

\* The loop in such a time: what a step of any thread, and one of its own, starts from.
AnyStep == IInv /\ Running /\ Running' /\ [Next]_vars
OwnStep == IInv /\ Running /\ Running' /\ <<RunOrangeCubeControl>>_vars
LoopRuns == []IInv /\ []Running /\ [][Next]_vars /\ []<><<RunOrangeCubeControl>>_vars

\* A ready device holds nothing up.
LEMMA RunningCanStep == IInv /\ Running => LoopCanStep
  BY DEF IInv, TypeOK, Running, LoopCanStep, CanWrite, WriteFails

\* The round the control thread takes; what another thread does leaves it where it is.
At(step, port) == pc = step /\ mav_fd = port
Waiting == pc \in {"start", "retry", "sleep"}
Goes == \/ Waiting /\ pc' = "open" /\ mav_fd' = mav_fd
        \/ /\ pc = "open" /\ pc' = "sample"
           /\ mav_fd' = IF mav_fd = "closed" THEN "live" ELSE mav_fd
        \/ pc = "sample" /\ pc' \in {"heartbeat", "read"} /\ mav_fd' = mav_fd
        \/ pc = "heartbeat" /\ pc' = "read" /\ mav_fd' = mav_fd
        \/ pc = "read" /\ pc' = "setpoint" /\ mav_fd' = mav_fd
        \/ pc = "setpoint" /\ mav_fd = "live" /\ pc' = "sleep" /\ mav_fd' = mav_fd
        \/ pc = "setpoint" /\ mav_fd # "live" /\ pc' = "close"
        \/ pc = "close" /\ pc' = "sleep" /\ mav_fd' = "closed"

\* A setpoint due on a ready device is written.
LEMMA OwnStepWrites ==
  ASSUME OwnStep, At("setpoint", "live")
  PROVE  wire' = Setpoint(cmd, fresh) /\ pc' = "sleep"
  BY DEF OwnStep, RunOrangeCubeControl, At, Start, OpenSerialPort, SampleTime, SendHeartbeat,
         ReadTwist, SendTwistSetpoint, CloseSerial, Sleep, CanWrite, WriteFails

\* The control thread goes round,
LEMMA OwnStepGoes == OwnStep => Goes
<1> SUFFICES ASSUME OwnStep
             PROVE  Goes
  OBVIOUS
<1> USE DEF OwnStep, Goes, Waiting, Running
<1>1. CASE Start \/ Sleep
  BY <1>1 DEF Start, Sleep
<1>2. CASE OpenSerialPort
  BY <1>2 DEF OpenSerialPort
<1>3. CASE SampleTime \/ SendHeartbeat \/ ReadTwist
  BY <1>3 DEF SampleTime, SendHeartbeat, ReadTwist
<1>4. CASE SendTwistSetpoint \/ CloseSerial
  BY <1>4 DEF SendTwistSetpoint, CloseSerial, CanWrite, WriteFails
<1> QED
  BY <1>1, <1>2, <1>3, <1>4 DEF RunOrangeCubeControl

\* and no other thread moves it.
LEMMA AnyStepElse == AnyStep => OwnStep \/ (pc' = pc /\ mav_fd' = mav_fd)
<1> SUFFICES ASSUME AnyStep, ~OwnStep
             PROVE  pc' = pc /\ mav_fd' = mav_fd
  OBVIOUS
<1>1. CASE UNCHANGED vars
  BY <1>1 DEF vars
<1>2. CASE RunOrangeCubeControl /\ ~UNCHANGED vars
  BY <1>2 DEF AnyStep, OwnStep
<1>3. CASE \E d \in Datagrams : HandleControlCommand(d)
  BY <1>3 DEF HandleControlCommand
<1>4. CASE Tick \/ Plug \/ Stall \/ Drain
  BY <1>4 DEF Tick, Plug, Stall, Drain, SetDevice
<1>5. CASE Unplug
  BY <1>5 DEF Unplug, AnyStep, Running
<1> QED
  BY <1>1, <1>2, <1>3, <1>4, <1>5 DEF AnyStep, Next

\* Wherever the loop is, it comes to its next setpoint.
LEMMA SetpointIsNext == LoopRuns => []<>(pc = "setpoint")
<1>1. /\ AnyStep /\ Waiting => (Waiting)' \/ (pc = "open")'
      /\ OwnStep /\ Waiting => (pc = "open")'
  BY AnyStepElse, OwnStepGoes DEF Goes, Waiting
<1>2. /\ AnyStep /\ pc = "open" => (pc = "open")' \/ (pc = "sample")'
      /\ OwnStep /\ pc = "open" => (pc = "sample")'
  BY AnyStepElse, OwnStepGoes DEF Goes, Waiting
<1>3. /\ AnyStep /\ pc = "sample" => (pc = "sample")' \/ (pc \in {"heartbeat", "read"})'
      /\ OwnStep /\ pc = "sample" => (pc \in {"heartbeat", "read"})'
  BY AnyStepElse, OwnStepGoes DEF Goes, Waiting
<1>4. /\ AnyStep /\ pc = "heartbeat" => (pc = "heartbeat")' \/ (pc = "read")'
      /\ OwnStep /\ pc = "heartbeat" => (pc = "read")'
  BY AnyStepElse, OwnStepGoes DEF Goes, Waiting
<1>5. /\ AnyStep /\ pc = "read" => (pc = "read")' \/ (pc = "setpoint")'
      /\ OwnStep /\ pc = "read" => (pc = "setpoint")'
  BY AnyStepElse, OwnStepGoes DEF Goes, Waiting
<1>6. /\ AnyStep /\ pc = "close" => (pc = "close")' \/ (Waiting)'
      /\ OwnStep /\ pc = "close" => (Waiting)'
  BY AnyStepElse, OwnStepGoes DEF Goes, Waiting
<1>7. IInv /\ Running
        => Waiting \/ pc \in {"open", "sample", "heartbeat", "read", "setpoint", "close"}
  BY DEF IInv, TypeOK, Running, Waiting
<1>8. /\ pc \in {"heartbeat", "read"} <=> (pc = "heartbeat" \/ pc = "read")
      /\ pc \in {"open", "sample", "heartbeat", "read", "setpoint", "close"}
           <=> \/ pc = "open" \/ pc = "sample" \/ pc = "heartbeat" \/ pc = "read"
               \/ pc = "setpoint" \/ pc = "close"
  OBVIOUS
<1> QED
  BY <1>1, <1>2, <1>3, <1>4, <1>5, <1>6, <1>7, <1>8, PTL DEF LoopRuns, AnyStep, OwnStep

\* However the device misbehaved before, the loop samples the time with a working
\* descriptor again and again: one that does not work is replaced in the round in
\* which a setpoint cannot be written.
LEMMA LiveSampleIsNext == LoopRuns => []<>At("sample", "live")
<1>1. /\ AnyStep /\ At("setpoint", "live") => (At("setpoint", "live"))' \/ (At("sleep", "live"))'
      /\ OwnStep /\ At("setpoint", "live") => (At("sleep", "live"))'
  BY AnyStepElse, OwnStepGoes DEF Goes, Waiting, At
<1>2. /\ AnyStep /\ At("sleep", "live") => (At("sleep", "live"))' \/ (At("open", "live"))'
      /\ OwnStep /\ At("sleep", "live") => (At("open", "live"))'
  BY AnyStepElse, OwnStepGoes DEF Goes, Waiting, At
<1>3. /\ AnyStep /\ At("open", "live") => (At("open", "live"))' \/ (At("sample", "live"))'
      /\ OwnStep /\ At("open", "live") => (At("sample", "live"))'
  BY AnyStepElse, OwnStepGoes DEF Goes, Waiting, At
<1>4. /\ AnyStep /\ (pc = "setpoint" /\ mav_fd # "live")
           => ((pc = "setpoint" /\ mav_fd # "live"))' \/ (pc = "close")'
      /\ OwnStep /\ (pc = "setpoint" /\ mav_fd # "live") => (pc = "close")'
  BY AnyStepElse, OwnStepGoes DEF Goes, Waiting, At
<1>5. /\ AnyStep /\ pc = "close" => (pc = "close")' \/ (At("sleep", "closed"))'
      /\ OwnStep /\ pc = "close" => (At("sleep", "closed"))'
  BY AnyStepElse, OwnStepGoes DEF Goes, Waiting, At
<1>6. /\ AnyStep /\ At("sleep", "closed") => (At("sleep", "closed"))' \/ (At("open", "closed"))'
      /\ OwnStep /\ At("sleep", "closed") => (At("open", "closed"))'
  BY AnyStepElse, OwnStepGoes DEF Goes, Waiting, At
<1>7. /\ AnyStep /\ At("open", "closed") => (At("open", "closed"))' \/ (At("sample", "live"))'
      /\ OwnStep /\ At("open", "closed") => (At("sample", "live"))'
  BY AnyStepElse, OwnStepGoes DEF Goes, Waiting, At
<1>8. pc = "setpoint" => At("setpoint", "live") \/ (pc = "setpoint" /\ mav_fd # "live")
  BY DEF At
<1> QED
  BY <1>1, <1>2, <1>3, <1>4, <1>5, <1>6, <1>7, <1>8, SetpointIsNext, PTL
     DEF LoopRuns, AnyStep, OwnStep

\* A fair control thread with nothing in its way takes step after step.
FairLoop == []IInv /\ [][Next]_vars /\ WF_vars(RunOrangeCubeControl) /\ []LoopEnabled

LEMMA SpecIsFair == FairSpec /\ []LoopEnabled => []FairLoop
  BY SpecIInv, PTL DEF FairSpec, Spec, FairLoop

LEMMA LoopIsFair == FairLoop /\ []Running => LoopRuns
  BY RunningCanStep, PTL DEF FairLoop, LoopEnabled, LoopRuns

\* Once the device stays ready, the enabled controller writes setpoints for ever.
THEOREM SetpointsFlow == FairSpec /\ []LoopEnabled => SetpointsKeepFlowing
<1>1. /\ AnyStep /\ At("sample", "live")
           => At("sample", "live")' \/ At("read", "live")' \/ At("heartbeat", "live")'
      /\ OwnStep /\ At("sample", "live") => At("read", "live")' \/ At("heartbeat", "live")'
  BY AnyStepElse, OwnStepGoes DEF Goes, Waiting, At
<1>2. /\ AnyStep /\ At("heartbeat", "live") => (At("heartbeat", "live"))' \/ (At("read", "live"))'
      /\ OwnStep /\ At("heartbeat", "live") => (At("read", "live"))'
  BY AnyStepElse, OwnStepGoes DEF Goes, Waiting, At
<1>3. /\ AnyStep /\ At("read", "live") => (At("read", "live"))' \/ (At("setpoint", "live"))'
      /\ OwnStep /\ At("read", "live") => (At("setpoint", "live"))'
  BY AnyStepElse, OwnStepGoes DEF Goes, Waiting, At
<1>4. /\ AnyStep /\ At("setpoint", "live") => At("setpoint", "live")' \/ <<SetpointWritten>>_vars
      /\ OwnStep /\ At("setpoint", "live") => <<SetpointWritten>>_vars
  <2>1. ASSUME OwnStep, At("setpoint", "live")
        PROVE  <<SetpointWritten>>_vars
    <3>1. wire' = Setpoint(cmd, fresh) /\ pc' = "sleep"
      BY <2>1, OwnStepWrites
    <3>2. wire' # NoSetpoint
      BY <2>1, <3>1, WrittenWithinLimits, ConstantsAssumption DEF OwnStep
    <3> QED
      BY <2>1, <3>1, <3>2 DEF OwnStep, SetpointWritten, At
  <2>2. AnyStep /\ ~OwnStep => pc' = pc /\ mav_fd' = mav_fd
    BY AnyStepElse
  <2> QED
    BY <2>1, <2>2 DEF At
<1> QED
  BY <1>1, <1>2, <1>3, <1>4, SpecIsFair, LoopIsFair, LiveSampleIsNext, PTL
     DEF LoopRuns, AnyStep, OwnStep, SetpointsKeepFlowing, Running

-----------------------------------------------------------------------------
(* An expired twist is followed by the null setpoint. *)

\* A twist that had expired when the loop last sampled the time, and is not used.
Old == now - latest_twist_time > timeout_ms /\ ~fresh
OldAt(step) == At(step, "live") /\ Old
NullAt(step) == At(step, "live") /\ ~fresh

\* From the sampling of the time to the write, nothing brings the twist back.
LEMMA OwnStepNulls ==
  ASSUME NoWrap, OwnStep, Expired
  PROVE  /\ At("sample", "live") => OldAt("heartbeat")' \/ OldAt("read")'
         /\ OldAt("heartbeat") => OldAt("read")'
         /\ OldAt("read") => NullAt("setpoint")'
         /\ NullAt("setpoint") => (wire = NullSetpoint)'
<1> USE DEF At, OldAt, NullAt, Old
<1>1. RunOrangeCubeControl /\ TypeOK
  BY DEF OwnStep, IInv
<1>2. ASSUME At("sample", "live")
      PROVE  OldAt("heartbeat")' \/ OldAt("read")'
  <2>1. SampleTime
    BY <1>1, <1>2 DEF RunOrangeCubeControl, Start, OpenSerialPort, SendHeartbeat, ReadTwist,
       SendTwistSetpoint, CloseSerial, Sleep
  <2> QED
    BY <1>1, <1>2, <2>1, ConstantsAssumption DEF SampleTime, shared, Expired
<1>3. ASSUME OldAt("heartbeat")
      PROVE  OldAt("read")'
  <2>1. SendHeartbeat
    BY <1>1, <1>3 DEF RunOrangeCubeControl, Start, OpenSerialPort, SampleTime, ReadTwist,
       SendTwistSetpoint, CloseSerial, Sleep
  <2> QED
    BY <1>3, <2>1 DEF SendHeartbeat, shared
<1>4. ASSUME OldAt("read")
      PROVE  NullAt("setpoint")'
  <2>1. ReadTwist
    BY <1>1, <1>4 DEF RunOrangeCubeControl, Start, OpenSerialPort, SampleTime, SendHeartbeat,
       SendTwistSetpoint, CloseSerial, Sleep
  <2>2. ~IsFresh(now, latest_twist_time, twist_valid)
    BY <1>1, <1>4, AgeIsExact, TimeoutNat DEF IsFresh, TypeOK
  <2> QED
    BY <1>4, <2>1, <2>2 DEF ReadTwist
<1>5. ASSUME NullAt("setpoint")
      PROVE  (wire = NullSetpoint)'
  BY <1>5, OwnStepWrites DEF Setpoint, NullSetpoint
<1> QED
  BY <1>2, <1>3, <1>4, <1>5

\* The other threads do not either, but by a new twist.
LEMMA OthersKeepExpired ==
  ASSUME AnyStep, ~OwnStep, Expired'
  PROVE  UNCHANGED <<pc, mav_fd, now, fresh, latest_twist_time>>
<1>1. CASE UNCHANGED vars
  BY <1>1 DEF vars
<1>2. CASE RunOrangeCubeControl /\ ~UNCHANGED vars
  BY <1>2 DEF AnyStep, OwnStep
<1>3. CASE \E d \in Datagrams : HandleControlCommand(d)
  BY <1>3, TimeoutNat DEF HandleControlCommand, Expired, AnyStep, IInv, TypeOK
<1>4. CASE Tick \/ Plug \/ Stall \/ Drain
  BY <1>4 DEF Tick, Plug, Stall, Drain, SetDevice, locals, shared
<1>5. CASE Unplug
  BY <1>5 DEF Unplug, AnyStep, Running
<1> QED
  BY <1>1, <1>2, <1>3, <1>4, <1>5 DEF AnyStep, Next

\* While the device works, the vehicle does not keep flying an expired command.
THEOREM ExpiredIsNulled ==
  NoWrap => (FairSpec /\ []LoopEnabled => ExpiredEventuallyNull)
<1> SUFFICES ASSUME NoWrap
             PROVE  FairSpec /\ []LoopEnabled => ExpiredEventuallyNull
  OBVIOUS
<1> DEFINE Flown == Expired /\ device = "ready" /\ wire # NullSetpoint
           Any == AnyStep /\ Flown /\ Flown'
           Own == OwnStep /\ Flown /\ Flown'
<1>1. IInv /\ Flown => Running
  BY DEF Running, Expired, IInv, LoopInv
<1>2. /\ Any /\ At("sample", "live")
           => At("sample", "live")' \/ OldAt("heartbeat")' \/ OldAt("read")'
      /\ Own /\ At("sample", "live") => OldAt("heartbeat")' \/ OldAt("read")'
  BY OwnStepNulls, OthersKeepExpired DEF At
<1>3. /\ Any /\ OldAt("heartbeat") => OldAt("heartbeat")' \/ OldAt("read")'
      /\ Own /\ OldAt("heartbeat") => OldAt("read")'
  BY OwnStepNulls, OthersKeepExpired DEF OldAt, At, Old
<1>4. /\ Any /\ OldAt("read") => OldAt("read")' \/ NullAt("setpoint")'
      /\ Own /\ OldAt("read") => NullAt("setpoint")'
  BY OwnStepNulls, OthersKeepExpired DEF OldAt, At, Old
<1>5. /\ Any /\ NullAt("setpoint") => NullAt("setpoint")'
      /\ Own => ~NullAt("setpoint")
  BY OwnStepNulls, OthersKeepExpired DEF NullAt, At
<1>6. ~Flown <=> (wire = NullSetpoint \/ ~Expired \/ device # "ready")
  OBVIOUS
<1>7. FairLoop /\ []Flown => LoopRuns
  BY <1>1, LoopIsFair, PTL DEF FairLoop
<1> HIDE DEF Flown
<1> QED
  BY <1>1, <1>2, <1>3, <1>4, <1>5, <1>6, <1>7, SpecIsFair, LiveSampleIsNext, PTL
     DEF LoopRuns, AnyStep, OwnStep, ExpiredEventuallyNull
=============================================================================
