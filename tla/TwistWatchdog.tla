--------------------------- MODULE TwistWatchdog ---------------------------
(***************************************************************************)
(* What the flight-control gateway promises of the setpoints it emits,     *)
(* without the serial port, the heartbeat, the retries or the threads.     *)
(*                                                                         *)
(* A client may deliver a command at any moment.  The gateway samples the  *)
(* time, may arm the latest command if that command was received at most   *)
(* Timeout before the sampled time (never after it), and emits either the  *)
(* setpoint of the armed command or the null setpoint.  A command that is  *)
(* too old for the sampled time never reaches the flight controller, and   *)
(* nothing but the shaped form of a delivered command or the null setpoint *)
(* ever does.                                                              *)
(***************************************************************************)
EXTENDS Integers

CONSTANTS Commands,    \* the commands a client can deliver
          NoCommand,   \* "none delivered", "none armed"
          SetpointOf,  \* SetpointOf[c]: the setpoint a command is turned into
          Null,        \* the setpoint with every velocity at zero
          NoSetpoint,  \* nothing was emitted yet
          Timeout,     \* the age beyond which a command may not be armed
          MaxTime      \* bound on the clock

VARIABLES clock,       \* milliseconds since the start
          command,     \* the latest command delivered
          received,    \* when it was delivered
          sample,      \* the time the current decision is made for
          armed,       \* the command the next setpoint will carry
          emitted      \* the last setpoint emitted

avars == <<clock, command, received, sample, armed, emitted>>

Init == /\ clock = 0
        /\ command = NoCommand
        /\ received = 0
        /\ sample = 0
        /\ armed = NoCommand
        /\ emitted = NoSetpoint

Tick == /\ clock < MaxTime
        /\ clock' = clock + 1
        /\ UNCHANGED <<command, received, sample, armed, emitted>>

Deliver(c) == /\ command' = c
              /\ received' = clock
              /\ UNCHANGED <<clock, sample, armed, emitted>>

Sample == /\ sample' = clock
          /\ armed' = NoCommand
          /\ UNCHANGED <<clock, command, received, emitted>>

Arm == /\ command # NoCommand
       /\ sample - received \in 0..Timeout
       /\ armed' = command
       /\ UNCHANGED <<clock, command, received, sample, emitted>>

Emit == /\ emitted' = IF armed = NoCommand THEN Null ELSE SetpointOf[armed]
        /\ UNCHANGED <<clock, command, received, sample, armed>>

Next == Tick \/ (\E c \in Commands : Deliver(c)) \/ Sample \/ Arm \/ Emit

Spec == Init /\ [][Next]_avars
=============================================================================
