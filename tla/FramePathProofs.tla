-------------------------- MODULE FramePathProofs --------------------------
(***************************************************************************)
(* Theorems about the two ends of a frame's way through the program, for   *)
(* every value of the constants: RealsenseCapture, which takes frames and  *)
(* samples from the cameras, and SeiNal, which writes the timestamp of a   *)
(* frame into the stream.                                                  *)
(***************************************************************************)
EXTENDS RealsenseCapture, SeiNal, FiniteSetTheorems, SequenceTheorems, TLAPS

-----------------------------------------------------------------------------
(* RealsenseCapture. *)

\* A push keeps the queue within kMaxImuQueue and adds a sample of this run.
LEMMA PushedQueue ==
  ASSUME NEW q \in Seq(Ages), Len(q) <= MaxQueue
  PROVE  /\ Pushed(q) \in Seq(Ages) /\ Len(Pushed(q)) <= MaxQueue
         /\ (\A k \in DOMAIN q : q[k] = "now")
              => \A k \in DOMAIN Pushed(q) : Pushed(q)[k] = "now"
<1>1. MaxQueue \in Nat \ {0} /\ "now" \in Ages
  BY ConstantsAssumption DEF ConstantsAssumption, Ages
<1>2. CASE Len(q) >= MaxQueue
  <2>1. q # <<>> /\ Tail(q) \in Seq(Ages) /\ Len(Tail(q)) = Len(q) - 1
    BY <1>1, <1>2
  <2>2. \A k \in 1..(Len(q) - 1) : Tail(q)[k] = q[k + 1]
    BY <2>1
  <2>3. Pushed(q) = Append(Tail(q), "now")
    BY <1>2 DEF Pushed
  <2> QED
    BY <1>1, <2>1, <2>2, <2>3
<1>3. CASE Len(q) < MaxQueue
  <2>1. Pushed(q) = Append(q, "now")
    BY <1>1, <1>3 DEF Pushed
  <2> QED
    BY <1>1, <1>3, <2>1
<1> QED
  BY <1>1, <1>2, <1>3

\* Marking every queued sample as an older one keeps the queue's length.
LEMMA AgedQueue ==
  ASSUME NEW q \in Seq(Ages)
  PROVE  /\ [k \in 1..Len(q) |-> "before"] \in Seq(Ages)
         /\ Len([k \in 1..Len(q) |-> "before"]) = Len(q)
  BY DEF Ages

\* While a recording pipeline runs, BAG_FILE holds nothing but this run.
FreshBag == pc \in {"poll", "handle"} /\ Recording => recorded \subseteq {"now"}

\* The type invariant, QueueOfThisRun and BagOfOneRun are inductive together;
\* the last one needs to know that a recording starts empty.
CaptureInv == TypeOK /\ QueueOfThisRun /\ BagOfOneRun /\ FreshBag

\* The initial states satisfy it.
LEMMA CaptureInitInv ==
  ASSUME Init
  PROVE  CaptureInv
<1>1. /\ queue \in Seq(Ages) /\ Len(queue) <= MaxQueue
      /\ \A k \in DOMAIN queue : queue[k] = "now"
  BY ConstantsAssumption DEF ConstantsAssumption, Init
<1>2. faults \in 0..MaxFaults
  BY ConstantsAssumption DEF ConstantsAssumption, Init
<1> QED
  BY <1>1, <1>2 DEF Init, CaptureInv, TypeOK, QueueOfThisRun,
     BagOfOneRun, FreshBag, Ages

\* Every step of the capture thread, the cameras and the other threads keeps it.
LEMMA CaptureStepInv ==
  ASSUME CaptureInv, [Next]_vars
  PROVE  CaptureInv'
<1> USE DEF CaptureInv, TypeOK, QueueOfThisRun, BagOfOneRun,
            FreshBag, Recording, Ages
<1>0. /\ <<>> \in Seq(Ages) /\ Len(<<>>) = 0 /\ Len(<<>>) <= MaxQueue
      /\ \A k \in DOMAIN <<>> : <<>>[k] = "now"
  BY ConstantsAssumption DEF ConstantsAssumption
<1>1. CASE NoDevice
  BY <1>0, <1>1 DEF NoDevice, ClearImuQueues
<1>2. CASE QueryDevices
  BY <1>2 DEF QueryDevices, SelectDevice
<1>3. CASE StartPipeline
  BY <1>3 DEF StartPipeline
<1>4. CASE StartFails
  BY <1>4 DEF StartFails
<1>5. CASE StartBagPlayback
  BY <1>5 DEF StartBagPlayback
<1>6. CASE PollFrames
  BY <1>6 DEF PollFrames, Ages
<1>7. CASE PollTimeout
  BY <1>7 DEF PollTimeout
<1>8. CASE HandleFrame
  <2>1. PICK stream \in frames :
           /\ queue' = IF stream \in {"accel", "gyro"} /\ client_connected
                       THEN Pushed(queue) ELSE queue
           /\ frames' = frames \ {stream}
    BY <1>8 DEF HandleFrame
  <2>2. \A k \in DOMAIN queue : queue[k] = "now"
    BY <1>8 DEF HandleFrame
  <2>3. queue' \in {queue, Pushed(queue)}
    BY <2>1
  <2>4. /\ queue' \in Seq(Ages) /\ Len(queue') <= MaxQueue
        /\ \A k \in DOMAIN queue' : queue'[k] = "now"
    BY <2>2, <2>3, PushedQueue
  <2> QED
    BY <1>8, <2>1, <2>4 DEF HandleFrame
<1>9. CASE Throws
  BY <1>9, ConstantsAssumption DEF ConstantsAssumption, Throws
<1>10. CASE SafeStopPipeline
  BY <1>10, AgedQueue DEF SafeStopPipeline, Ages
<1>11. CASE Disconnected
  BY <1>0, <1>11 DEF Disconnected, ClearImuQueues
<1>12. CASE \E c \in Cameras : Plug(c) \/ Unplug(c)
  BY <1>12 DEF Plug, Unplug, capture
<1>13. CASE ClientCommand \/ Drain
  BY <1>0, <1>13 DEF ClientCommand, Drain, ClearImuQueues,
     capture
<1>14. CASE Viewer
  BY <1>14 DEF Viewer, capture
<1>15. CASE UNCHANGED vars
  BY <1>15 DEF vars
<1> QED
  BY <1>1, <1>2, <1>3, <1>4, <1>5, <1>6, <1>7, <1>8, <1>9, <1>10, <1>11, <1>12,
     <1>13, <1>14, <1>15 DEF Next, RunRealsenseCapture

\* CaptureInv holds in every reachable state.
THEOREM CaptureInvariant == Spec => []CaptureInv
<1>1. Init => CaptureInv
  BY CaptureInitInv
<1>2. CaptureInv /\ [Next]_vars => CaptureInv'
  BY CaptureStepInv
<1> QED
  BY <1>1, <1>2, PTL DEF Spec

\* Types hold and the queue stays within kMaxImuQueue.
THEOREM CaptureTypeCorrect == Spec => []TypeOK
<1>1. Spec => []CaptureInv
  BY CaptureInvariant
<1>2. CaptureInv => TypeOK
  BY DEF CaptureInv
<1> QED
  BY <1>1, <1>2, PTL

\* No sample of an earlier pipeline waits in the queue of a running one.
THEOREM QueueHoldsThisRunOnly == Spec => []QueueOfThisRun
<1>1. Spec => []CaptureInv
  BY CaptureInvariant
<1>2. CaptureInv => QueueOfThisRun
  BY DEF CaptureInv
<1> QED
  BY <1>1, <1>2, PTL

\* BAG_FILE holds frames of one run of the pipeline only.
THEOREM BagHoldsOneRun == Spec => []BagOfOneRun
<1>1. Spec => []CaptureInv
  BY CaptureInvariant
<1>2. CaptureInv => BagOfOneRun
  BY DEF CaptureInv
<1> QED
  BY <1>1, <1>2, PTL

-----------------------------------------------------------------------------
(* RealsenseCapture: liveness.  The provers cannot expand ENABLED: what they *)
(* lack about it is said by CaptureEnabled, a hypothesis of the theorem.     *)

\* The thread can take its next step, unless every frame it has left is a color
\* frame that finds no room, and no failure comes in between.
CaptureCanStep == pc = "handle" => \/ faults < MaxFaults
                                   \/ \E stream \in frames : stream = "color" => ~push_blocks
CaptureEnabled == CaptureCanStep => ENABLED <<RunRealsenseCapture>>_vars

\* librealsense fails for reasons of its own only finitely often: MaxFaults stands
\* for this in Spec, but to conclude it takes an induction over the failures.
FaultsStop == <>[][UNCHANGED faults]_vars

\* A frameset in hand is not used up, and a bag is only played in debug mode.
LoopInv == /\ pc = "handle" => frames # {}
           /\ ~config.debug => pipe # Bag

LEMMA LoopInvStep == ASSUME CaptureInv, LoopInv, [Next]_vars PROVE LoopInv'
<1> USE DEF LoopInv
<1>1. CASE NoDevice \/ QueryDevices \/ StartFails \/ PollTimeout \/ Disconnected \/ Throws
  BY <1>1 DEF NoDevice, QueryDevices, StartFails, PollTimeout, Disconnected, Throws
<1>2. CASE StartPipeline
  BY <1>2, ConstantsAssumption DEF StartPipeline, ConstantsAssumption
<1>3. CASE StartBagPlayback
  BY <1>3 DEF StartBagPlayback
<1>4. CASE PollFrames
  BY <1>4 DEF PollFrames
<1>5. CASE HandleFrame
  BY <1>5 DEF HandleFrame
<1>6. CASE SafeStopPipeline
  BY <1>6, ConstantsAssumption DEF SafeStopPipeline, ConstantsAssumption
<1>7. CASE (\E c \in Cameras : Plug(c) \/ Unplug(c)) \/ ClientCommand \/ Drain \/ Viewer
  BY <1>7 DEF Plug, Unplug, ClientCommand, Drain, Viewer, capture
<1>8. CASE UNCHANGED vars
  BY <1>8 DEF vars
<1> QED
  BY <1>1, <1>2, <1>3, <1>4, <1>5, <1>6, <1>7, <1>8 DEF Next, RunRealsenseCapture

LEMMA SpecLoopInv == Spec => [](CaptureInv /\ LoopInv)
<1>1. Init => LoopInv
  BY ConstantsAssumption DEF Init, LoopInv, ConstantsAssumption
<1>2. CaptureInv /\ LoopInv /\ [Next]_vars => LoopInv'
  BY LoopInvStep
<1> QED
  BY <1>1, <1>2, CaptureInvariant, PTL DEF Spec

\* Nothing comes between the thread and its only camera.
Calm(c) == plugged = {c} /\ ~push_blocks /\ ~config.debug
CalmStep(c) == /\ CaptureInv /\ LoopInv /\ Calm(c) /\ Calm(c)'
               /\ [Next]_vars /\ [UNCHANGED faults]_vars

\* Where the loop is: streaming, on its way there, or busy with what is gone.
Streaming(c) == pc \in {"poll", "handle"} /\ pipe = c
Starting(c) == pc = "start" /\ chosen = c
StartsGone(c) == pc = "start" /\ chosen # c
PollsGone(c) == pc = "poll" /\ pipe # c
HandlesGone(c, n) == pc = "handle" /\ pipe # c /\ Cardinality(frames) = n

\* One frame after the other is handled; there are four streams.
LEMMA FramesLeft ==
  ASSUME CaptureInv, LoopInv, pc = "handle"
  PROVE  /\ Cardinality(frames) \in 1..4
         /\ \A stream \in frames :
               /\ Cardinality(frames \ {stream}) = Cardinality(frames) - 1
               /\ frames \ {stream} = {} <=> Cardinality(frames) = 1
<1>1. frames \subseteq Streams /\ frames # {}
  BY DEF CaptureInv, LoopInv, TypeOK
<1>2. IsFiniteSet(Streams) /\ Cardinality(Streams) = 4
  <2>1. IsFiniteSet({}) /\ Cardinality({}) = 0
    BY FS_EmptySet
  <2>2. IsFiniteSet({"color"}) /\ Cardinality({"color"}) = 1
    BY FS_Singleton
  <2>3. IsFiniteSet({"color", "depth"}) /\ Cardinality({"color", "depth"}) = 2
    <3>1. {"color", "depth"} = {"color"} \cup {"depth"}
      OBVIOUS
    <3> QED
      BY <2>2, <3>1, FS_AddElement
  <2>4. IsFiniteSet({"color", "depth", "accel"}) /\ Cardinality({"color", "depth", "accel"}) = 3
    <3>1. {"color", "depth", "accel"} = {"color", "depth"} \cup {"accel"}
      OBVIOUS
    <3> QED
      BY <2>3, <3>1, FS_AddElement
  <2>5. Streams = {"color", "depth", "accel"} \cup {"gyro"}
    BY DEF Streams
  <2> QED
    BY <2>4, <2>5, FS_AddElement
<1>3. IsFiniteSet(frames) /\ Cardinality(frames) <= 4
  BY <1>1, <1>2, FS_Subset
<1>4. Cardinality(frames) \in Nat /\ Cardinality(frames) # 0
  BY <1>1, <1>3, FS_CardinalityType, FS_EmptySet
<1>5. ASSUME NEW stream \in frames
      PROVE  /\ Cardinality(frames \ {stream}) = Cardinality(frames) - 1
             /\ frames \ {stream} = {} <=> Cardinality(frames) = 1
  <2>1. /\ IsFiniteSet(frames \ {stream})
        /\ Cardinality(frames \ {stream}) = Cardinality(frames) - 1
    BY <1>3, FS_RemoveElement
  <2>2. frames \ {stream} = {} <=> Cardinality(frames \ {stream}) = 0
    BY <2>1, FS_EmptySet
  <2> QED
    BY <1>4, <2>1, <2>2
<1> QED
  BY <1>3, <1>4, <1>5

\* What else happens leaves the thread where it is.
LEMMA OthersStay ==
  ASSUME NEW c \in D435i, CalmStep(c), ~<<RunRealsenseCapture>>_vars
  PROVE  UNCHANGED <<pc, chosen, pipe, frames>>
<1>1. CASE UNCHANGED vars
  BY <1>1 DEF vars
<1>2. CASE \E d \in Cameras : Plug(d) \/ Unplug(d)
  BY <1>2 DEF Plug, Unplug, capture
<1>3. CASE ClientCommand \/ Drain \/ Viewer
  BY <1>3 DEF ClientCommand, Drain, Viewer, capture
<1> QED
  BY <1>1, <1>2, <1>3 DEF CalmStep, Next

\* A step of the thread: from a camera that is gone it gets rid of, to the one there is.
Goes(c) == \/ pc = "query" /\ Starting(c)'
           \/ Starting(c) /\ Streaming(c)'
           \/ StartsGone(c) /\ (pc = "stop")'
           \/ Streaming(c) /\ Streaming(c)'
           \/ PollsGone(c) /\ (pc = "stop")'
           \/ HandlesGone(c, 1) /\ PollsGone(c)'
           \/ \E n \in 2..4 : HandlesGone(c, n) /\ HandlesGone(c, n - 1)'
           \/ pc = "stop" /\ (pc = "disconnected")'
           \/ pc = "disconnected" /\ (pc = "query")'

LEMMA ThreadGoes ==
  ASSUME NEW c \in D435i, CalmStep(c), <<RunRealsenseCapture>>_vars
  PROVE  Goes(c)
<1>1. /\ plugged = {c} /\ ~config.debug /\ ~push_blocks
      /\ c \in HasImu /\ c # NoSource /\ pipe # Bag /\ plugged \cap D435i = {c}
  BY ConstantsAssumption DEF CalmStep, Calm, LoopInv, ConstantsAssumption
<1>2. faults' = faults
  BY DEF CalmStep, vars
<1>3. ~NoDevice /\ ~StartBagPlayback
  BY <1>1 DEF NoDevice, StartBagPlayback
<1>4. ~Throws
  <2>1. faults \in Nat
    BY ConstantsAssumption DEF CalmStep, CaptureInv, TypeOK, ConstantsAssumption
  <2> QED
    BY <1>2, <2>1 DEF Throws
<1>5. CASE QueryDevices
  BY <1>1, <1>5 DEF QueryDevices, SelectDevice, Goes, Starting
<1>6. CASE StartPipeline
  <2>1. chosen = c
    BY <1>1, <1>6 DEF StartPipeline
  <2> QED
    BY <1>6, <2>1 DEF StartPipeline, Goes, Starting, Streaming
<1>7. CASE StartFails
  <2>1. chosen # c
    BY <1>1, <1>7 DEF StartFails
  <2> QED
    BY <1>7, <2>1 DEF StartFails, Goes, StartsGone
<1>8. CASE PollFrames
  <2>1. pipe = c
    BY <1>1, <1>8 DEF PollFrames, Delivering
  <2> QED
    BY <1>8, <2>1 DEF PollFrames, Goes, Streaming
<1>9. CASE PollTimeout
  <2>1. pipe # c
    BY <1>1, <1>9 DEF PollTimeout
  <2> QED
    BY <1>9, <2>1 DEF PollTimeout, Goes, PollsGone
<1>10. CASE HandleFrame
  <2>1. PICK stream \in frames : frames' = frames \ {stream}
    BY <1>10 DEF HandleFrame
  <2>2. /\ pc = "handle" /\ pipe' = pipe
        /\ pc' = IF frames' = {} THEN "poll" ELSE "handle"
    BY <1>10 DEF HandleFrame
  <2>3. CASE pipe = c
    BY <2>2, <2>3 DEF Goes, Streaming
  <2>4. CASE pipe # c
    <3>1. /\ Cardinality(frames) \in 1..4
          /\ Cardinality(frames') = Cardinality(frames) - 1
          /\ frames' = {} <=> Cardinality(frames) = 1
      BY <2>1, <2>2, FramesLeft DEF CalmStep
    <3>2. CASE Cardinality(frames) = 1
      BY <2>2, <2>4, <3>1, <3>2 DEF Goes, HandlesGone, PollsGone
    <3>3. CASE Cardinality(frames) \in 2..4
      <4>1. PICK n \in 2..4 : Cardinality(frames) = n
        BY <3>3
      <4>2. HandlesGone(c, n) /\ HandlesGone(c, n - 1)'
        BY <2>2, <2>4, <3>1, <4>1 DEF HandlesGone
      <4> QED
        BY <4>2 DEF Goes
    <3> QED
      BY <3>1, <3>2, <3>3
  <2> QED
    BY <2>3, <2>4
<1>11. CASE SafeStopPipeline
  BY <1>11 DEF SafeStopPipeline, Goes
<1>12. CASE Disconnected
  BY <1>12 DEF Disconnected, Goes
<1> QED
  BY <1>3, <1>4, <1>5, <1>6, <1>7, <1>8, <1>9, <1>10, <1>11, <1>12 DEF RunRealsenseCapture

\* In such a time the thread steps again and again.
CalmRuns(c) == /\ [](CaptureInv /\ LoopInv /\ Calm(c))
               /\ [][Next]_vars /\ [][UNCHANGED faults]_vars
               /\ []<><<RunRealsenseCapture>>_vars

\* It gets rid of what is gone and looks for a camera,
LEMMA LooksAgain ==
  ASSUME NEW c \in D435i
  PROVE  CalmRuns(c) => <>(pc = "query" \/ Starting(c) \/ Streaming(c))
<1> DEFINE Step == CalmStep(c)
           Own == CalmStep(c) /\ <<RunRealsenseCapture>>_vars
           Hand(n) == HandlesGone(c, n)
           Looks == pc = "query" \/ Starting(c) \/ Streaming(c)
<1>1. /\ Step /\ pc = "disconnected" => (pc = "disconnected")' \/ Looks'
      /\ Own /\ pc = "disconnected" => Looks'
  BY OthersStay, ThreadGoes
     DEF Goes, Starting, StartsGone, Streaming, PollsGone, HandlesGone
<1>2. /\ Step /\ pc = "stop" => (pc = "stop")' \/ (pc = "disconnected")'
      /\ Own /\ pc = "stop" => (pc = "disconnected")'
  BY OthersStay, ThreadGoes
     DEF Goes, Starting, StartsGone, Streaming, PollsGone, HandlesGone
<1>3. /\ Step /\ StartsGone(c) => StartsGone(c)' \/ (pc = "stop")'
      /\ Own /\ StartsGone(c) => (pc = "stop")'
  BY OthersStay, ThreadGoes
     DEF Goes, Starting, StartsGone, Streaming, PollsGone, HandlesGone
<1>4. /\ Step /\ PollsGone(c) => PollsGone(c)' \/ (pc = "stop")'
      /\ Own /\ PollsGone(c) => (pc = "stop")'
  BY OthersStay, ThreadGoes
     DEF Goes, Starting, StartsGone, Streaming, PollsGone, HandlesGone
<1>5. /\ Step /\ Hand(1) => Hand(1)' \/ PollsGone(c)'
      /\ Own /\ Hand(1) => PollsGone(c)'
  BY OthersStay, ThreadGoes
     DEF Goes, Starting, StartsGone, Streaming, PollsGone, HandlesGone
<1>6. ASSUME NEW n \in 2..4
      PROVE  /\ Step /\ Hand(n) => Hand(n)' \/ Hand(n - 1)'
             /\ Own /\ Hand(n) => Hand(n - 1)'
  BY OthersStay, ThreadGoes
     DEF Goes, Starting, StartsGone, Streaming, PollsGone, HandlesGone
<1>7. /\ Step /\ Hand(2) => Hand(2)' \/ Hand(1)'
      /\ Own /\ Hand(2) => Hand(1)'
      /\ Step /\ Hand(3) => Hand(3)' \/ Hand(2)'
      /\ Own /\ Hand(3) => Hand(2)'
      /\ Step /\ Hand(4) => Hand(4)' \/ Hand(3)'
      /\ Own /\ Hand(4) => Hand(3)'
  <2>1. 2 \in 2..4 /\ 3 \in 2..4 /\ 4 \in 2..4 /\ 2 - 1 = 1 /\ 3 - 1 = 2 /\ 4 - 1 = 3
    OBVIOUS
  <2> HIDE DEF Step, Own, Hand
  <2> QED
    BY <1>6, <2>1
<1>8. CaptureInv /\ LoopInv => \/ Looks \/ pc \in {"disconnected", "stop"}
                               \/ StartsGone(c) \/ PollsGone(c)
                               \/ Hand(1) \/ Hand(2) \/ Hand(3) \/ Hand(4)
  <2> SUFFICES ASSUME CaptureInv, LoopInv, ~Looks, pc = "handle"
               PROVE  Hand(1) \/ Hand(2) \/ Hand(3) \/ Hand(4)
    BY DEF CaptureInv, TypeOK, Starting, StartsGone, Streaming, PollsGone
  <2>1. Cardinality(frames) \in 1..4
    BY FramesLeft
  <2> QED
    BY <2>1 DEF Streaming, HandlesGone
<1>9. pc \in {"disconnected", "stop"} <=> pc = "disconnected" \/ pc = "stop"
  OBVIOUS
<1> HIDE DEF Looks, Hand
<1> QED
  BY <1>1, <1>2, <1>3, <1>4, <1>5, <1>7, <1>8, <1>9, PTL DEF CalmRuns, CalmStep, Looks

\* and then streams the only one there is for good.
LEMMA StreamsOn ==
  ASSUME NEW c \in D435i
  PROVE  CalmRuns(c) => <>[](pipe = c)
<1> DEFINE Step == CalmStep(c)
           Own == CalmStep(c) /\ <<RunRealsenseCapture>>_vars
<1>1. /\ Step /\ pc = "query" => (pc = "query")' \/ Starting(c)'
      /\ Own /\ pc = "query" => Starting(c)'
  BY OthersStay, ThreadGoes
     DEF Goes, Starting, StartsGone, Streaming, PollsGone, HandlesGone
<1>2. /\ Step /\ Starting(c) => Starting(c)' \/ Streaming(c)'
      /\ Own /\ Starting(c) => Streaming(c)'
  BY OthersStay, ThreadGoes
     DEF Goes, Starting, StartsGone, Streaming, PollsGone, HandlesGone
<1>3. Step /\ Streaming(c) => Streaming(c)'
  BY OthersStay, ThreadGoes
     DEF Goes, Starting, StartsGone, Streaming, PollsGone, HandlesGone
<1>4. Streaming(c) => pipe = c
  BY DEF Streaming
<1>5. CalmRuns(c) => []CalmRuns(c)
  BY PTL DEF CalmRuns
<1>6. CalmRuns(c) => <>(pc = "query" \/ Starting(c) \/ Streaming(c))
  BY LooksAgain
<1>7. CalmRuns(c) => <>Streaming(c)
  BY <1>1, <1>2, <1>5, <1>6, PTL DEF CalmRuns, CalmStep
<1>8. CalmRuns(c) => [](Streaming(c) => []Streaming(c))
  BY <1>3, PTL DEF CalmRuns, CalmStep
<1> QED
  BY <1>4, <1>7, <1>8, PTL

\* A D435i that stays plugged in alone is streamed from some moment on, whatever
\* happened before, once color frames find their way out and failures have stopped.
THEOREM StreamingResumes ==
  FairSpec /\ []CaptureEnabled /\ FaultsStop => StreamsOncePlugged
<1> SUFFICES ASSUME NEW c \in D435i
             PROVE  FairSpec /\ []CaptureEnabled /\ FaultsStop
                      => (~config.debug
                            => (<>[](plugged = {c} /\ ~push_blocks) => <>[](pipe = c)))
  BY DEF StreamsOncePlugged
<1>1. [Next]_vars /\ ~config.debug => (~config.debug)'
  <2>1. [Next]_vars => config' = config
    BY DEF Next, RunRealsenseCapture, vars, NoDevice, QueryDevices, StartPipeline, StartFails,
           StartBagPlayback, PollFrames, PollTimeout, HandleFrame, Throws, SafeStopPipeline,
           Disconnected, Plug, Unplug, ClientCommand, Drain, Viewer
  <2> QED
    BY <2>1
<1>2. CaptureInv /\ LoopInv /\ Calm(c) => CaptureCanStep
  BY DEF LoopInv, Calm, CaptureCanStep
<1>3. Calm(c) <=> plugged = {c} /\ ~push_blocks /\ ~config.debug
  BY DEF Calm
<1>4. FairSpec /\ []CaptureEnabled /\ FaultsStop /\ ~config.debug
        /\ <>[](plugged = {c} /\ ~push_blocks) => <>CalmRuns(c)
  BY <1>1, <1>2, <1>3, SpecLoopInv, PTL DEF FairSpec, Spec, CaptureEnabled, FaultsStop, CalmRuns
<1> QED
  BY <1>4, StreamsOn, PTL

-----------------------------------------------------------------------------
(* SeiNal: the inductive invariant. *)

\* The message always ends with the stop bit.
EndsInStop == Len(rbsp) >= 1 /\ rbsp[Len(rbsp)] = 128

\* zero_count is the number of zeros body ends with, as its decoder counts too.
EscapeInv ==
    /\ zero_count = read.zeros
    /\ i = 0 => body = <<>>
    /\ i > 0 => Len(body) >= 1 /\ body[Len(body)] = rbsp[i]
    /\ zero_count = 0 => Len(body) = 0 \/ body[Len(body)] # 0
    /\ zero_count = 1 => /\ Len(body) >= 1 /\ body[Len(body)] = 0
                         /\ Len(body) = 1 \/ body[Len(body) - 1] # 0
    /\ zero_count = 2 => /\ Len(body) >= 2
                         /\ body[Len(body)] = 0 /\ body[Len(body) - 1] = 0

\* The first unit is a delimiter with a start code of this length.
DelimiterOf(len) == /\ len \in {3, 4} /\ len < Len(old)
                    /\ len = 3 => ThreeAt(old, 0)
                    /\ len = 4 => FourAt(old, 0)
                    /\ nal_type(old[len + 1]) = 9

\* The search has passed the first start code and no other.
SearchInv ==
    /\ stage # "escape" => i = Len(rbsp)
    /\ stage = "search" => offset >= 4
    /\ stage \in {"search", "copy", "done"} /\ offset > 0 =>
          \E len \in {3, 4} :
             /\ DelimiterOf(len) /\ offset > len
             /\ \A k \in StartCodes(old) :
                   k <= offset => k = len - 2 \/ k + 2 = Len(old)
    /\ stage \in {"copy", "done"} => \/ offset \in {0, Len(old)}
                                     \/ offset + 3 < Len(old) /\ FoundAt(old, offset)
    /\ stage \in {"copy", "done"} /\ offset = 0 => ~StartsWithDelimiter(old)

CopyInv == stage = "done" =>
    new = SubSeq(old, 1, offset) \o Sei \o SubSeq(old, offset + 1, Len(old))

SeiInv == SeiTypeOK /\ EndsInStop /\ EscapeInv /\ NoStartCodeInside /\ ReadsBack
          /\ SearchInv /\ CopyInv

-----------------------------------------------------------------------------
(* SeiNal: lemmas about the operators. *)

LEMMA LowByte == ASSUME NEW n \in Nat PROVE n % 256 \in 0..255
  OBVIOUS

\* The message as it is built.
LEMMA RbspShape == ASSUME NEW p \in Seq(Byte)
                   PROVE  /\ Rbsp(p) \in Seq(Byte) /\ Len(Rbsp(p)) >= 1
                          /\ Rbsp(p)[Len(Rbsp(p))] = 128
<1> DEFINE size == Len(p) % 256
           head == <<5, size>>
<1>0. Len(p) \in Nat
  OBVIOUS
<1>s. size \in 0..255
  BY <1>0, LowByte
<1> HIDE DEF size
<1>1. head \in Seq(Byte) /\ Len(head) = 2 /\ <<128>> \in Seq(Byte)
  BY <1>s DEF Byte
<1>h. head = <<5, Len(p) % 256>>
  BY DEF size
<1> HIDE DEF head
<1>2. head \o p \in Seq(Byte) /\ Len(head \o p) = Len(p) + 2
  <2>1. Len(head \o p) = Len(head) + Len(p)
    BY <1>1, ConcatProperties
  <2> QED
    BY <1>0, <1>1, <2>1, ConcatProperties
<1>3. Rbsp(p) = (head \o p) \o <<128>>
  BY <1>h DEF Rbsp
<1>4. /\ (head \o p) \o <<128>> \in Seq(Byte)
      /\ Len((head \o p) \o <<128>>) = Len(p) + 3
      /\ ((head \o p) \o <<128>>)[Len(p) + 3] = 128
  BY <1>1, <1>2
<1> QED
  BY <1>3, <1>4

\* Escaping a byte: what the decoder makes of what is written.
LEMMA DecodesEscaped ==
    ASSUME NEW r \in [zeros : 0..2, bytes : Seq(Byte)], NEW byte \in Byte
    PROVE  /\ r.zeros = 2 /\ byte <= 3 =>
                Decoded(Decoded(r, 3), byte) = [zeros |-> Zeros(0, byte),
                                                bytes |-> Append(r.bytes, byte)]
           /\ ~(r.zeros = 2 /\ byte <= 3) =>
                Decoded(r, byte) = [zeros |-> Zeros(r.zeros, byte),
                                    bytes |-> Append(r.bytes, byte)]
<1>1. r = [zeros |-> r.zeros, bytes |-> r.bytes] /\ r.zeros \in 0..2 /\ byte \in 0..255
  BY DEF Byte
<1>2. r.zeros = 2 => Decoded(r, 3) = [zeros |-> 0, bytes |-> r.bytes]
  BY <1>1 DEF Decoded
<1>3. Decoded([zeros |-> 0, bytes |-> r.bytes], byte)
        = [zeros |-> Zeros(0, byte), bytes |-> Append(r.bytes, byte)]
  BY DEF Decoded
<1>4. ~(r.zeros >= 2 /\ byte = 3) =>
         Decoded(r, byte) = [zeros |-> Zeros(r.zeros, byte), bytes |-> Append(r.bytes, byte)]
  BY DEF Decoded
<1> QED
  BY <1>1, <1>2, <1>3, <1>4

LEMMA OneMore == ASSUME NEW s \in Seq(Byte), NEW n \in 0..(Len(s) - 1)
                 PROVE  Append(SubSeq(s, 1, n), s[n + 1]) = SubSeq(s, 1, n + 1)
  OBVIOUS

\* Copying a unit into a stream, byte by byte.
Spliced(s, t, o) == SubSeq(s, 1, o) \o t \o SubSeq(s, o + 1, Len(s))

LEMMA Inserted ==
    ASSUME NEW s \in Seq(Byte), NEW t \in Seq(Byte), NEW o \in 0..Len(s)
    PROVE  /\ Len(Spliced(s, t, o)) = Len(s) + Len(t)
           /\ \A k \in 1..(Len(s) + Len(t)) :
                 Spliced(s, t, o)[k] = IF k <= o THEN s[k]
                        ELSE IF k <= o + Len(t) THEN t[k - o] ELSE s[k - Len(t)]
<1> DEFINE head == SubSeq(s, 1, o)
           tail == SubSeq(s, o + 1, Len(s))
<1>1. Len(s) \in Nat /\ Len(t) \in Nat /\ o \in Nat /\ o <= Len(s)
  OBVIOUS
<1>2. head \in Seq(Byte) /\ Len(head) = o /\ \A k \in 1..o : head[k] = s[k]
  BY <1>1, SubSeqProperties
<1>3. /\ tail \in Seq(Byte) /\ Len(tail) = Len(s) - o
      /\ \A k \in 1..(Len(s) - o) : tail[k] = s[o + k]
  <2>1. \A k \in (o + 1)..Len(s) : s[k] \in Byte
    BY <1>1
  <2> QED
    BY <1>1, <2>1, SubSeqProperties
<1> DEFINE both == head \o t
<1>4. Spliced(s, t, o) = both \o tail
  BY DEF Spliced
<1> HIDE DEF head, tail
<1>5. /\ both \in Seq(Byte) /\ Len(both) = o + Len(t)
      /\ \A k \in 1..(o + Len(t)) : both[k] = IF k <= o THEN s[k] ELSE t[k - o]
  <2>1. /\ head \o t \in Seq(Byte) /\ Len(head \o t) = Len(head) + Len(t)
        /\ \A k \in 1..(Len(head) + Len(t)) :
              (head \o t)[k] = IF k <= Len(head) THEN head[k] ELSE t[k - Len(head)]
    BY <1>2, ConcatProperties
  <2>2. \A k \in 1..(o + Len(t)) : k <= o => k \in 1..o
    BY <1>1
  <2> QED
    BY <1>1, <1>2, <2>1, <2>2
<1> HIDE DEF both
<1>6. /\ Len(both \o tail) = Len(both) + Len(tail)
      /\ \A k \in 1..(Len(both) + Len(tail)) :
            (both \o tail)[k] = IF k <= Len(both) THEN both[k] ELSE tail[k - Len(both)]
  BY <1>3, <1>5, ConcatProperties
<1>7. /\ Len(Spliced(s, t, o)) = Len(s) + Len(t)
      /\ \A k \in 1..(Len(s) + Len(t)) :
            Spliced(s, t, o)[k] = IF k <= o + Len(t) THEN both[k] ELSE tail[k - (o + Len(t))]
  <2>1. Len(both) = o + Len(t) /\ Len(tail) = Len(s) - o
    BY <1>3, <1>5
  <2>2. Len(both) + Len(tail) = Len(s) + Len(t)
    BY <1>1, <2>1
  <2> QED
    BY <1>4, <1>6, <2>1, <2>2
<1> SUFFICES ASSUME NEW k \in 1..(Len(s) + Len(t))
             PROVE  Spliced(s, t, o)[k] = IF k <= o THEN s[k]
                           ELSE IF k <= o + Len(t) THEN t[k - o] ELSE s[k - Len(t)]
  BY <1>7
<1>8. CASE k <= o + Len(t)
  <2>1. Spliced(s, t, o)[k] = both[k] /\ k \in 1..(o + Len(t))
    BY <1>1, <1>7, <1>8
  <2>2. both[k] = IF k <= o THEN s[k] ELSE t[k - o]
    BY <1>5, <2>1
  <2> QED
    BY <2>1, <2>2, <1>8
<1>9. CASE k > o + Len(t)
  <2>1. k - (o + Len(t)) \in 1..(Len(s) - o) /\ o + (k - (o + Len(t))) = k - Len(t)
    BY <1>1, <1>9
  <2>2. tail[k - (o + Len(t))] = s[k - Len(t)]
    BY <1>3, <2>1
  <2>3. ~(k <= o + Len(t)) /\ ~(k <= o)
    BY <1>1, <1>9
  <2> QED
    BY <1>7, <2>2, <2>3
<1>10. k \in Nat /\ (k <= o + Len(t) \/ k > o + Len(t))
  BY <1>1
<1> QED
  BY <1>8, <1>9, <1>10

LEMMA IsStartCode == ASSUME NEW s, Len(s) \in Nat, NEW k \in Int
                     PROVE  k \in StartCodes(s) <=> /\ 1 <= k /\ k + 2 <= Len(s)
                                                    /\ s[k] = 0 /\ s[k + 1] = 0 /\ s[k + 2] = 1
  BY DEF StartCodes, ThreeAt

CodesWith(s, o, L) == {k \in StartCodes(s) : k <= o}
                      \cup {o + 2}
                      \cup {k + L : k \in {m \in StartCodes(s) : m > o}}

\* n is s with t copied in, a message that ends in its stop bit, at a start code.
UnitAt(s, t, n, S, L, o) ==
    /\ S \in Nat /\ L \in Nat /\ o \in 0..S
    /\ Len(s) = S /\ Len(t) = L /\ Len(n) = S + L
    /\ \A k \in 1..(S + L) : n[k] = IF k <= o THEN s[k]
                                    ELSE IF k <= o + L THEN t[k - o] ELSE s[k - L]
    /\ L >= 4 /\ t[1] = 0 /\ t[2] = 0 /\ t[L] = 128 /\ StartCodes(t) = {2}
    /\ o \in {0, S} \/ (o + 2 <= S /\ s[o + 1] = 0 /\ s[o + 2] = 0)

\* Its start codes: what surrounds the unit and the unit's own, and no other.
LEMMA StartCodesInserted ==
    ASSUME NEW s, NEW t, NEW n, NEW S, NEW L, NEW o, UnitAt(s, t, n, S, L, o)
    PROVE  StartCodes(n) = CodesWith(s, o, L)
<1> /\ S \in Nat /\ L \in Nat /\ o \in 0..S
    /\ Len(s) = S /\ Len(t) = L /\ Len(n) = S + L
    /\ L >= 4 /\ t[1] = 0 /\ t[2] = 0 /\ t[L] = 128 /\ StartCodes(t) = {2}
    /\ o \in {0, S} \/ (o + 2 <= S /\ s[o + 1] = 0 /\ s[o + 2] = 0)
  BY DEF UnitAt
<1>1. /\ \A k \in 1..o : n[k] = s[k]
      /\ \A k \in (o + 1)..(o + L) : n[k] = t[k - o]
      /\ \A k \in (o + L + 1)..(S + L) : n[k] = s[k - L]
  BY DEF UnitAt
<1>2. n[o + 1] = 0 /\ n[o + 2] = 0 /\ n[o + L] = 128
  BY <1>1
<1>3. /\ \A k : k \in StartCodes(s) <=> /\ k \in 1..(S - 2)
                                        /\ s[k] = 0 /\ s[k + 1] = 0 /\ s[k + 2] = 1
      /\ \A k : k \in StartCodes(n) <=> /\ k \in 1..(S + L - 2)
                                        /\ n[k] = 0 /\ n[k + 1] = 0 /\ n[k + 2] = 1
  BY DEF StartCodes, ThreeAt
<1>4. ASSUME NEW k \in StartCodes(n)
      PROVE  \/ k \in StartCodes(s) /\ k <= o
             \/ k = o + 2
             \/ k - L \in StartCodes(s) /\ k - L > o
  <2>1. k \in 1..(S + L - 2) /\ n[k] = 0 /\ n[k + 1] = 0 /\ n[k + 2] = 1
    BY <1>3
  <2>2. CASE k + 2 <= o
    <3>1. n[k] = s[k] /\ n[k + 1] = s[k + 1] /\ n[k + 2] = s[k + 2]
      BY <2>1, <2>2, <1>1
    <3>2. k \in Int /\ 1 <= k /\ k + 2 <= Len(s) /\ k <= o /\ Len(s) \in Nat
      BY <2>1, <2>2
    <3>3. s[k] = 0 /\ s[k + 1] = 0 /\ s[k + 2] = 1
      BY <2>1, <3>1
    <3>4. k \in StartCodes(s)
      BY <3>2, <3>3, IsStartCode
    <3> QED
      BY <3>2, <3>4
  <2>3. CASE k + 2 \in {o + 1, o + 2}
    BY <2>1, <2>3, <1>2
  <2>4. CASE k > o /\ k + 2 <= o + L
    <3>1. t[k - o] = 0 /\ t[(k - o) + 1] = 0 /\ t[(k - o) + 2] = 1
      <4>1. n[k] = t[k - o] /\ n[k + 1] = t[k + 1 - o] /\ n[k + 2] = t[k + 2 - o]
        BY <2>1, <2>4, <1>1
      <4>2. k + 1 - o = (k - o) + 1 /\ k + 2 - o = (k - o) + 2
        BY <2>1
      <4> QED
        BY <2>1, <4>1, <4>2
    <3>2. k - o \in StartCodes(t)
      <4>1. k - o \in Int /\ 1 <= k - o /\ (k - o) + 2 <= Len(t)
        BY <2>1, <2>4
      <4> QED
        BY <3>1, <4>1, IsStartCode
    <3> QED
      BY <2>1, <3>2
  <2>5. CASE o + L \in {k, k + 1, k + 2}
    BY <2>1, <2>5, <1>2
  <2>6. CASE k > o + L
    <3>1. s[k - L] = 0 /\ s[(k - L) + 1] = 0 /\ s[(k - L) + 2] = 1
      <4>1. n[k] = s[k - L] /\ n[k + 1] = s[k + 1 - L] /\ n[k + 2] = s[k + 2 - L]
        BY <2>1, <2>6, <1>1
      <4>2. k + 1 - L = (k - L) + 1 /\ k + 2 - L = (k - L) + 2
        BY <2>1
      <4> QED
        BY <2>1, <4>1, <4>2
    <3>2. k - L \in Int /\ 1 <= k - L /\ (k - L) + 2 <= Len(s) /\ k - L > o
      BY <2>1, <2>6
    <3>3. k - L \in StartCodes(s)
      BY <3>1, <3>2, IsStartCode
    <3> QED
      BY <3>2, <3>3
  <2> QED
    BY <2>1, <2>2, <2>3, <2>4, <2>5, <2>6
<1>5. ASSUME NEW k \in StartCodes(s), k <= o PROVE k \in StartCodes(n)
  <2>1. k \in 1..(S - 2) /\ s[k] = 0 /\ s[k + 1] = 0 /\ s[k + 2] = 1
    BY <1>3
  <2>2. k + 2 <= o
    BY <2>1, <1>5
  <2>3. n[k] = 0 /\ n[k + 1] = 0 /\ n[k + 2] = 1
    BY <2>1, <2>2, <1>1
  <2>4. k \in Int /\ 1 <= k /\ k + 2 <= Len(n) /\ Len(n) \in Nat
    BY <2>1
  <2> QED
    BY <2>3, <2>4, IsStartCode
<1>6. o + 2 \in StartCodes(n)
  <2>1. t[3] = 0 /\ t[4] = 1
    <3>1. 2 \in StartCodes(t) /\ Len(t) \in Nat
      OBVIOUS
    <3>2. t[2 + 1] = 0 /\ t[2 + 2] = 1
      BY <3>1, IsStartCode
    <3> QED
      BY <3>2
  <2>2. n[o + 3] = t[3] /\ n[o + 4] = t[4]
    <3>1. n[o + 3] = t[o + 3 - o] /\ n[o + 4] = t[o + 4 - o]
      BY <1>1
    <3> QED
      BY <3>1
  <2>3. (o + 2) + 1 = o + 3 /\ (o + 2) + 2 = o + 4
    OBVIOUS
  <2>4. o + 2 \in Int /\ 1 <= o + 2 /\ (o + 2) + 2 <= Len(n) /\ Len(n) \in Nat
    OBVIOUS
  <2>5. n[o + 2] = 0 /\ n[(o + 2) + 1] = 0 /\ n[(o + 2) + 2] = 1
    BY <2>1, <2>2, <2>3, <1>2
  <2> QED
    BY <2>4, <2>5, IsStartCode
<1>7. ASSUME NEW k \in StartCodes(s), k > o PROVE k + L \in StartCodes(n)
  <2>1. k \in 1..(S - 2) /\ s[k] = 0 /\ s[k + 1] = 0 /\ s[k + 2] = 1
    BY <1>3
  <2>2. /\ n[k + L] = s[k + L - L] /\ n[k + L + 1] = s[k + L + 1 - L]
        /\ n[k + L + 2] = s[k + L + 2 - L]
    BY <2>1, <1>7, <1>1
  <2>3. k + L - L = k /\ k + L + 1 - L = k + 1 /\ k + L + 2 - L = k + 2
    BY <2>1
  <2>4. /\ k + L \in Int /\ 1 <= k + L /\ (k + L) + 2 <= Len(n) /\ Len(n) \in Nat
        /\ (k + L) + 1 = k + L + 1 /\ (k + L) + 2 = k + L + 2
    BY <2>1
  <2>5. n[k + L] = 0 /\ n[(k + L) + 1] = 0 /\ n[(k + L) + 2] = 1
    BY <2>1, <2>2, <2>3
  <2> QED
    BY <2>4, <2>5, IsStartCode
<1>8. StartCodes(s) \subseteq Int /\ StartCodes(n) \subseteq Int
  BY <1>3
<1>9. \A k \in StartCodes(n) : k = (k - L) + L
  BY <1>8
<1> QED
  BY <1>4, <1>5, <1>6, <1>7, <1>9 DEF CodesWith

-----------------------------------------------------------------------------
(* SeiNal: the invariant is inductive. *)

LEMMA SeiInitInv == SeiInit => SeiInv
<1> SUFFICES ASSUME SeiInit PROVE SeiInv
  OBVIOUS
<1>1. PICK c \in Cases : rbsp = Rbsp(c[1]) /\ old = c[2]
  BY DEF SeiInit
<1>2. c[1] \in Seq(Byte) /\ c[2] \in Seq(Byte)
  BY CasesAssumption
<1>3. rbsp \in Seq(Byte) /\ EndsInStop /\ old \in Seq(Byte)
  BY <1>1, <1>2, RbspShape DEF EndsInStop
<1>4. SeiTypeOK
  BY <1>3 DEF SeiInit, SeiTypeOK, EndsInStop
<1>5. EscapeInv /\ NoStartCodeInside /\ ReadsBack
  BY <1>3 DEF SeiInit, EscapeInv, NoStartCodeInside, ReadsBack
<1>6. SearchInv /\ CopyInv
  BY DEF SeiInit, SearchInv, CopyInv
<1> QED
  BY <1>3, <1>4, <1>5, <1>6 DEF SeiInv

\* One byte more keeps the body free of start codes and readable.
LEMMA EscapeKeeps == SeiInv /\ EscapeByte => SeiInv'
<1> SUFFICES ASSUME SeiInv, EscapeByte PROVE SeiInv'
  OBVIOUS
<1>0. EscapeInv /\ NoStartCodeInside
  BY DEF SeiInv
<1> DEFINE byte == rbsp[i + 1]
<1>1. byte \in Byte /\ i < Len(rbsp) /\ rbsp \in Seq(Byte) /\ zero_count \in 0..2
      /\ body \in Seq(Byte) /\ i \in Nat /\ zero_count = read.zeros
      /\ read \in [zeros : 0..2, bytes : Seq(Byte)]
  BY DEF SeiInv, SeiTypeOK, EscapeByte, EscapeInv
<1>a. byte \in 0..255 /\ zero_count \in 0..2 /\ Len(body) \in Nat
  BY <1>1 DEF Byte
<1>b. byte = rbsp[i + 1] /\ i \in Nat
  BY <1>1
<1>2. /\ i' = i + 1 /\ stage = "escape"
      /\ UNCHANGED <<rbsp, old, offset, new, stage>>
  BY DEF EscapeByte
<1>3. /\ read' = [zeros |-> zero_count', bytes |-> Append(read.bytes, byte)]
      /\ zero_count' = Zeros(IF MustEscape(byte) THEN 0 ELSE zero_count, byte)
  <2>1. MustEscape(byte) <=> read.zeros = 2 /\ byte <= 3
    BY <1>1 DEF MustEscape
  <2> QED
    BY <1>1, <2>1, DecodesEscaped DEF EscapeByte
<1>4. zero_count' \in 0..2
  BY <1>1, <1>3 DEF MustEscape, Zeros, Byte
<1>5. /\ body' \in Seq(Byte)
      /\ MustEscape(byte) => body' = body \o <<3, byte>>
      /\ ~MustEscape(byte) => body' = Append(body, byte)
  <2>1. /\ MustEscape(byte) => body' = body \o <<3, byte>>
        /\ ~MustEscape(byte) => body' = Append(body, byte)
    BY DEF EscapeByte
  <2>2. <<3, byte>> \in Seq(Byte)
    BY <1>1 DEF Byte
  <2>3. body \o <<3, byte>> \in Seq(Byte) /\ Append(body, byte) \in Seq(Byte)
    BY <1>1, <2>2
  <2> QED
    BY <2>1, <2>3
<1>6. SeiTypeOK'
  BY <1>1, <1>2, <1>3, <1>4, <1>5 DEF SeiInv, SeiTypeOK
<1>7. EscapeInv'
  <2>1. CASE MustEscape(byte)
    BY <2>1, <1>1, <1>2, <1>3, <1>5 DEF EscapeInv, Zeros, MustEscape
  <2>2. CASE ~MustEscape(byte)
    <3>1. /\ Len(body') = Len(body) + 1 /\ body'[Len(body')] = byte
          /\ \A k \in 1..Len(body) : body'[k] = body[k]
      <4>1. body' = Append(body, byte)
        BY <2>2, <1>5
      <4> HIDE DEF byte
      <4> QED
        BY <4>1, <1>1
    <3>2. zero_count' = (IF byte = 0 THEN zero_count + 1 ELSE 0) /\ read'.zeros = zero_count'
      BY <2>2, <1>3 DEF Zeros
    <3> QED
      <4>1. byte = 0 => zero_count < 2 /\ zero_count' = zero_count + 1
        BY <2>2, <3>2, <1>a DEF MustEscape
      <4>2. byte # 0 => zero_count' = 0
        BY <3>2
      <4> HIDE DEF byte
      <4> QED
        BY <3>1, <3>2, <4>1, <4>2, <1>0, <1>a, <1>2, <1>b DEF EscapeInv
  <2> QED
    BY <2>1, <2>2
<1>8. NoStartCodeInside'
  <2>1. CASE MustEscape(byte)
    <3>1. /\ Len(body') = Len(body) + 2 /\ body'[Len(body) + 1] = 3
          /\ \A k \in 1..Len(body) : body'[k] = body[k]
      BY <2>1, <1>1, <1>5
    <3> SUFFICES ASSUME NEW k \in 1..(Len(body') - 2)
                 PROVE  ~(body'[k] = 0 /\ body'[k + 1] = 0 /\ body'[k + 2] <= 2)
      BY DEF NoStartCodeInside
    <3>2. CASE k <= Len(body) - 2
      <4>1. k \in 1..(Len(body) - 2)
        BY <3>1, <3>2, <1>a
      <4>2. body'[k] = body[k] /\ body'[k + 1] = body[k + 1] /\ body'[k + 2] = body[k + 2]
        BY <3>1, <4>1, <1>a
      <4> QED
        BY <4>1, <4>2, <1>0 DEF NoStartCodeInside
    <3>3. CASE k \in {Len(body) - 1, Len(body)}
      BY <3>1, <3>3, <1>1
    <3>4. k <= Len(body) - 2 \/ k \in {Len(body) - 1, Len(body)}
      BY <3>1, <1>a
    <3> QED
      BY <3>2, <3>3, <3>4
  <2>2. CASE ~MustEscape(byte)
    <3>1. /\ Len(body') = Len(body) + 1 /\ body'[Len(body) + 1] = byte
          /\ \A k \in 1..Len(body) : body'[k] = body[k]
      <4>1. body' = Append(body, byte)
        BY <2>2, <1>5
      <4> HIDE DEF byte
      <4> QED
        BY <4>1, <1>1
    <3>2. byte <= 2 => Len(body) < 2 \/ body[Len(body)] # 0 \/ body[Len(body) - 1] # 0
      <4>0. ~(zero_count >= 2 /\ byte <= 3)
        BY <2>2 DEF MustEscape
      <4> HIDE DEF byte
      <4>1. byte <= 2 => zero_count < 2
        BY <4>0, <1>a
      <4>2. zero_count = 0 \/ zero_count = 1 \/ zero_count = 2
        BY <1>a
      <4> QED
        BY <4>1, <4>2, <1>0, <1>a DEF EscapeInv
    <3> SUFFICES ASSUME NEW k \in 1..(Len(body') - 2)
                 PROVE  ~(body'[k] = 0 /\ body'[k + 1] = 0 /\ body'[k + 2] <= 2)
      BY DEF NoStartCodeInside
    <3>3. CASE k <= Len(body) - 2
      BY <3>1, <3>3, <1>1, <1>0 DEF NoStartCodeInside
    <3>4. CASE k = Len(body) - 1
      BY <3>1, <3>2, <3>4, <1>1
    <3> QED
      BY <3>1, <3>3, <3>4, <1>1
  <2> QED
    BY <2>1, <2>2
<1>9. ReadsBack'
  BY <1>1, <1>2, <1>3, OneMore DEF SeiInv, ReadsBack
<1>10. EndsInStop' /\ SearchInv' /\ CopyInv'
  BY <1>2 DEF SeiInv, EndsInStop, SearchInv, CopyInv
<1> QED
  BY <1>6, <1>7, <1>8, <1>9, <1>10 DEF SeiInv

LEMMA SeiStepInv == SeiInv /\ [SeiNext]_sei_vars => SeiInv'
<1> SUFFICES ASSUME SeiInv, [SeiNext]_sei_vars PROVE SeiInv'
  OBVIOUS
<1> USE DEF SeiInv
<1>1. CASE EscapeByte
  BY <1>1, EscapeKeeps
<1>2. CASE H264SeiInsertOffset
  <2>1. /\ UNCHANGED <<rbsp, old, i, zero_count, body, read, new>>
        /\ stage = "escape" /\ i = Len(rbsp) /\ stage' \in {"search", "copy"}
    BY <1>2 DEF H264SeiInsertOffset, escaping
  <2>2. EndsInStop' /\ EscapeInv' /\ NoStartCodeInside' /\ ReadsBack' /\ CopyInv'
    BY <2>1 DEF EndsInStop, EscapeInv, NoStartCodeInside, ReadsBack, CopyInv
  <2>3. CASE StartsWithDelimiter(old)
    <3> DEFINE len == StartCodeLengthAt(old, 0)
    <3>1. DelimiterOf(len) /\ len \in {3, 4}
      BY <2>3 DEF StartsWithDelimiter, StartCodeLengthAt, DelimiterOf, SeiTypeOK
    <3>2. offset' = len + 1 /\ stage' = "search"
      BY <1>2, <2>3 DEF H264SeiInsertOffset
    <3>3. \A k \in StartCodes(old) : k <= len + 1 => k = len - 2
      <4> SUFFICES ASSUME NEW k \in StartCodes(old), k <= len + 1 PROVE k = len - 2
        OBVIOUS
      <4>1. old[len + 1] # 0 /\ old[len + 1] # 1
        BY <3>1 DEF DelimiterOf, nal_type
      <4>2. k \in 1..(len + 1) /\ old[k] = 0 /\ old[k + 1] = 0 /\ old[k + 2] = 1
        BY <3>1 DEF StartCodes, ThreeAt
      <4> HIDE DEF len
      <4>3. CASE len = 3
        BY <4>1, <4>2, <4>3, <3>1 DEF DelimiterOf, ThreeAt
      <4>4. CASE len = 4
        BY <4>1, <4>2, <4>4, <3>1 DEF DelimiterOf, FourAt
      <4> QED
        BY <4>3, <4>4, <3>1
    <3> HIDE DEF len
    <3>4. SearchInv'
      BY <2>1, <3>1, <3>2, <3>3 DEF SearchInv, DelimiterOf
    <3>5. SeiTypeOK'
      BY <2>1, <3>1, <3>2 DEF SeiTypeOK, DelimiterOf
    <3> QED
      BY <2>2, <3>4, <3>5
  <2>4. CASE ~StartsWithDelimiter(old)
    <3>1. offset' = 0 /\ stage' = "copy"
      BY <1>2, <2>4 DEF H264SeiInsertOffset
    <3>2. SearchInv'
      BY <2>1, <2>4, <3>1 DEF SearchInv
    <3>3. SeiTypeOK'
      BY <2>1, <3>1 DEF SeiTypeOK
    <3> QED
      BY <2>2, <3>2, <3>3
  <2> QED
    BY <2>3, <2>4
<1>3. CASE FindNextStartCode
  <2>1. /\ UNCHANGED <<rbsp, old, i, zero_count, body, read, new>>
        /\ stage = "search" /\ stage' \in {"search", "copy"}
        /\ offset \in 4..Len(old) /\ Len(old) \in Nat
    BY <1>3 DEF FindNextStartCode, escaping, SearchInv, SeiTypeOK
  <2>2. EndsInStop' /\ EscapeInv' /\ NoStartCodeInside' /\ ReadsBack' /\ CopyInv'
    BY <2>1 DEF EndsInStop, EscapeInv, NoStartCodeInside, ReadsBack, CopyInv
  <2>3. PICK len \in {3, 4} : /\ DelimiterOf(len) /\ offset > len
                              /\ \A k \in StartCodes(old) :
                                    k <= offset => k = len - 2 \/ k + 2 = Len(old)
    BY <2>1 DEF SearchInv
  <2>4. CASE offset + 3 < Len(old) /\ FoundAt(old, offset)
    <3>1. offset' = offset /\ stage' = "copy"
      BY <1>3, <2>4 DEF FindNextStartCode
    <3>2. SeiTypeOK'
      BY <2>1, <3>1 DEF SeiTypeOK
    <3>3. SearchInv'
      BY <2>1, <2>3, <2>4, <3>1 DEF SearchInv, DelimiterOf, SeiTypeOK
    <3> QED
      BY <2>2, <3>2, <3>3
  <2>5. CASE offset + 3 < Len(old) /\ ~FoundAt(old, offset)
    <3>1. offset' = offset + 1 /\ stage' = "search"
      BY <1>3, <2>5, <2>1 DEF FindNextStartCode
    <3>2. SeiTypeOK'
      BY <2>1, <2>5, <3>1 DEF SeiTypeOK
    <3>3. \A k \in StartCodes(old) : k # offset + 1
      BY <2>5, <2>1 DEF StartCodes, FoundAt
    <3>4. \A k \in StartCodes(old) : k <= offset + 1 => k = len - 2 \/ k + 2 = Len(old)
      BY <2>1, <2>3, <3>3 DEF StartCodes
    <3>5. SearchInv'
      BY <2>1, <2>3, <3>1, <3>4 DEF SearchInv, DelimiterOf, SeiTypeOK
    <3> QED
      BY <2>2, <3>2, <3>5
  <2>6. CASE offset + 3 >= Len(old)
    <3>1. offset' = Len(old) /\ stage' = "copy"
      BY <1>3, <2>6, <2>1 DEF FindNextStartCode
    <3>2. SeiTypeOK'
      BY <2>1, <3>1 DEF SeiTypeOK
    <3>3. \A k \in StartCodes(old) : k = len - 2 \/ k + 2 = Len(old)
      BY <2>1, <2>3, <2>6 DEF StartCodes
    <3>4. SearchInv'
      BY <2>1, <2>3, <3>1, <3>3 DEF SearchInv, DelimiterOf, SeiTypeOK
    <3> QED
      BY <2>2, <3>2, <3>4
  <2> QED
    BY <2>1, <2>4, <2>5, <2>6
<1>4. CASE CopyAround
  <2>1. /\ UNCHANGED <<rbsp, old, i, zero_count, body, read, offset>>
        /\ stage = "copy" /\ stage' = "done"
        /\ new' = SubSeq(old, 1, offset) \o Sei \o SubSeq(old, offset + 1, Len(old))
    BY <1>4 DEF CopyAround, escaping
  <2>2. EndsInStop' /\ EscapeInv' /\ NoStartCodeInside' /\ ReadsBack'
    BY <2>1 DEF EndsInStop, EscapeInv, NoStartCodeInside, ReadsBack
  <2>3. CopyInv' /\ SearchInv'
    BY <2>1 DEF CopyInv, SearchInv, Sei, DelimiterOf
  <2>4. Sei \in Seq(Byte)
    BY DEF Sei, SeiTypeOK, Byte
  <2>5. new' \in Seq(Byte)
    BY <2>1, <2>4 DEF SeiTypeOK
  <2>6. SeiTypeOK'
    BY <2>1, <2>5 DEF SeiTypeOK
  <2> QED
    BY <2>2, <2>3, <2>6
<1>5. CASE UNCHANGED sei_vars
  <2>1. UNCHANGED <<rbsp, old, i, zero_count, body, read, offset, new, stage>>
    BY <1>5 DEF sei_vars, escaping
  <2>2. SeiTypeOK' /\ EndsInStop' /\ EscapeInv' /\ NoStartCodeInside' /\ ReadsBack'
    BY <2>1 DEF SeiTypeOK, EndsInStop, EscapeInv, NoStartCodeInside, ReadsBack
  <2>3. SearchInv' /\ CopyInv'
    BY <2>1 DEF SearchInv, CopyInv, DelimiterOf, Sei
  <2> QED
    BY <2>2, <2>3
<1> QED
  BY <1>1, <1>2, <1>3, <1>4, <1>5 DEF SeiNext

LEMMA SeiInvariance == SeiSpec => []SeiInv
  BY SeiInitInv, SeiStepInv, PTL DEF SeiSpec

-----------------------------------------------------------------------------
(* SeiNal: theorems. *)

\* Types hold and at most two zeros are ever pending.
THEOREM SeiTypeCorrect == SeiSpec => []SeiTypeOK
<1>1. SeiInv => SeiTypeOK
  BY DEF SeiInv
<1> QED
  BY <1>1, SeiInvariance, PTL

\* AppendEscapedRbsp: no timestamp, number or domain forms a start code.
THEOREM NoStartCodeForms == SeiSpec => []NoStartCodeInside
<1>1. SeiInv => NoStartCodeInside
  BY DEF SeiInv
<1> QED
  BY <1>1, SeiInvariance, PTL

\* AppendEscapedRbsp: a decoder reads what BuildRealSenseSei wrote.
THEOREM TimestampReadsBack == SeiSpec => []ReadsBack
<1>1. SeiInv => ReadsBack
  BY DEF SeiInv
<1> QED
  BY <1>1, SeiInvariance, PTL

\* The message has one start code, its own, and ends in the stop bit.
LEMMA SeiShape == SeiInv /\ stage # "escape" =>
    /\ Sei \in Seq(Byte) /\ Len(Sei) >= 4 /\ Sei[1] = 0 /\ Sei[2] = 0
    /\ Sei[Len(Sei)] = 128 /\ StartCodes(Sei) = {2}
<1> SUFFICES ASSUME SeiInv, stage # "escape"
             PROVE  /\ Sei \in Seq(Byte) /\ Len(Sei) >= 4 /\ Sei[1] = 0 /\ Sei[2] = 0
                    /\ Sei[Len(Sei)] = 128 /\ StartCodes(Sei) = {2}
  OBVIOUS
<1>1. body \in Seq(Byte) /\ Len(body) >= 1 /\ body[Len(body)] = 128 /\ Len(body) \in Nat
  BY DEF SeiInv, SeiTypeOK, EscapeInv, SearchInv, EndsInStop
<1> DEFINE header == <<0, 0, 0, 1, 6>>
<1>2. /\ header \in Seq(Byte) /\ Len(header) = 5 /\ header[1] = 0 /\ header[2] = 0
      /\ header[3] = 0 /\ header[4] = 1 /\ header[5] = 6
  BY DEF Byte
<1>3. Sei = header \o body
  BY DEF Sei
<1> HIDE DEF header
<1>4. /\ Sei \in Seq(Byte) /\ Len(Sei) = Len(body) + 5
      /\ \A k \in 1..5 : Sei[k] = header[k]
      /\ \A k \in 6..(Len(body) + 5) : Sei[k] = body[k - 5]
  <2>1. /\ header \o body \in Seq(Byte) /\ Len(header \o body) = Len(header) + Len(body)
        /\ \A k \in 1..(Len(header) + Len(body)) :
              (header \o body)[k] = IF k <= Len(header) THEN header[k]
                                    ELSE body[k - Len(header)]
    <3>1. header \in Seq(Byte) /\ body \in Seq(Byte)
      BY <1>1, <1>2
    <3> QED
      BY <3>1, ConcatProperties
  <2> QED
    BY <1>1, <1>2, <1>3, <2>1
<1>5. Sei[Len(Sei)] = 128
  BY <1>1, <1>4
<1>6. ASSUME NEW k \in StartCodes(Sei), k # 2 PROVE FALSE
  <2>1. k \in 1..(Len(body) + 3) /\ Sei[k] = 0 /\ Sei[k + 1] = 0 /\ Sei[k + 2] = 1
    BY <1>4, <1>6 DEF StartCodes, ThreeAt
  <2>2. CASE k \in {1, 3, 4, 5}
    BY <2>1, <2>2, <1>2, <1>4
  <2>3. CASE k > 5
    <3>1. k - 5 \in 1..(Len(body) - 2)
      BY <2>1, <2>3, <1>1
    <3>2. body[k - 5] = 0 /\ body[k - 5 + 1] = 0 /\ body[k - 5 + 2] = 1
      <4>1. Sei[k] = body[k - 5] /\ Sei[k + 1] = body[k + 1 - 5] /\ Sei[k + 2] = body[k + 2 - 5]
        <5>1. k \in 6..(Len(body) + 5) /\ k + 1 \in 6..(Len(body) + 5)
              /\ k + 2 \in 6..(Len(body) + 5)
          BY <2>1, <2>3, <1>1
        <5> QED
          BY <5>1, <1>4
      <4>2. k + 1 - 5 = k - 5 + 1 /\ k + 2 - 5 = k - 5 + 2
        BY <2>1
      <4> QED
        BY <2>1, <4>1, <4>2
    <3> QED
      BY <3>1, <3>2 DEF SeiInv, NoStartCodeInside
  <2> QED
    BY <2>1, <2>2, <2>3, <1>1, <1>6
<1>7. 2 \in StartCodes(Sei)
  BY <1>1, <1>2, <1>4 DEF StartCodes, ThreeAt
<1> QED
  BY <1>1, <1>2, <1>4, <1>5, <1>6, <1>7

\* H264SeiProbe: one unit more, and every start code of the frame still there.
THEOREM UnitsStay == SeiSpec => []UnitsKept
<1>1. SeiInv => UnitsKept
  <2> SUFFICES ASSUME SeiInv, stage = "done" PROVE UnitsKept
    BY DEF UnitsKept
  <2>1. old \in Seq(Byte) /\ offset \in 0..Len(old)
    BY DEF SeiInv, SeiTypeOK
  <2>2. \/ offset \in {0, Len(old)}
        \/ offset + 2 <= Len(old) /\ old[offset + 1] = 0 /\ old[offset + 2] = 0
    BY <2>1 DEF SeiInv, SearchInv, FoundAt, ThreeAt, FourAt
  <2>3. new = SubSeq(old, 1, offset) \o Sei \o SubSeq(old, offset + 1, Len(old))
    BY DEF SeiInv, CopyInv
  <2>4. stage # "escape"
    OBVIOUS
  <2> QED
    <3>1. /\ Len(new) = Len(old) + Len(Sei)
          /\ \A k \in 1..(Len(old) + Len(Sei)) :
                new[k] = IF k <= offset THEN old[k]
                         ELSE IF k <= offset + Len(Sei) THEN Sei[k - offset]
                         ELSE old[k - Len(Sei)]
      <4>1. Sei \in Seq(Byte)
        BY <2>4, SeiShape
      <4>2. new = Spliced(old, Sei, offset)
        BY <2>3 DEF Spliced
      <4> QED
        BY <2>1, <4>1, <4>2, Inserted
    <3>2. Len(old) \in Nat /\ Len(Sei) \in Nat
      BY <2>1, <2>4, SeiShape
    <3>3. /\ Len(Sei) >= 4 /\ Sei[1] = 0 /\ Sei[2] = 0
          /\ Sei[Len(Sei)] = 128 /\ StartCodes(Sei) = {2}
      BY <2>4, SeiShape
    <3>4. StartCodes(new) = CodesWith(old, offset, Len(Sei))
      <4> DEFINE S == Len(old)
                 L == Len(Sei)
      <4>1. S \in Nat /\ L \in Nat /\ offset \in 0..S /\ Len(new) = S + L
            /\ Len(old) = S /\ Len(Sei) = L
        BY <2>1, <3>1, <3>2
      <4>2. \A k \in 1..(S + L) : new[k] = IF k <= offset THEN old[k]
                                           ELSE IF k <= offset + L THEN Sei[k - offset]
                                           ELSE old[k - L]
        BY <3>1
      <4>3. L >= 4 /\ Sei[1] = 0 /\ Sei[2] = 0 /\ Sei[L] = 128 /\ StartCodes(Sei) = {2}
        BY <3>3
      <4>4. offset \in {0, S} \/ (offset + 2 <= S /\ old[offset + 1] = 0 /\ old[offset + 2] = 0)
        BY <2>2
      <4> HIDE DEF S, L
      <4>5. UnitAt(old, Sei, new, S, L, offset)
        BY <4>1, <4>2, <4>3, <4>4 DEF UnitAt
      <4>6. StartCodes(new) = CodesWith(old, offset, L)
        BY <4>5, StartCodesInserted
      <4> QED
        BY <4>1, <4>6
    <3> QED
      BY <3>4 DEF UnitsKept, CodesWith
<1> QED
  BY <1>1, SeiInvariance, PTL

\* H264SeiInsertOffset: a delimiter stays in front and the message follows it.
THEOREM DelimiterStaysFirst == SeiSpec => []DelimiterFirst
<1>1. SeiInv => DelimiterFirst
  <2> SUFFICES ASSUME SeiInv, stage = "done", WellFormed(old), NEW first \in StartCodes(old),
                      first = 1 \/ (first = 2 /\ old[1] = 0),
                      nal_type(old[first + 3]) = 9
               PROVE  {k \in StartCodes(old) : k <= offset} = {first}
    BY DEF DelimiterFirst
  <2>1. /\ old \in Seq(Byte) /\ Len(old) \in Nat /\ first + 3 <= Len(old)
        /\ old[first] = 0 /\ old[first + 1] = 0 /\ old[first + 2] = 1
    <3>1. old \in Seq(Byte) /\ first + 3 <= Len(old)
      BY DEF SeiInv, SeiTypeOK, WellFormed
    <3>2. first \in Int /\ Len(old) \in Nat
      BY <3>1
    <3> QED
      BY <3>1, <3>2, IsStartCode
  <2>2. StartCodeLengthAt(old, 0) = first + 2
    BY <2>1 DEF StartCodeLengthAt, ThreeAt, FourAt
  <2>3. StartsWithDelimiter(old)
    BY <2>1, <2>2 DEF StartsWithDelimiter
  <2>4. offset > 0
    BY <2>3 DEF SeiInv, SeiTypeOK, SearchInv
  <2>5. PICK len \in {3, 4} : /\ offset > len
                              /\ \A k \in StartCodes(old) :
                                    k <= offset => k = len - 2 \/ k + 2 = Len(old)
    BY <2>4 DEF SeiInv, SearchInv
  <2>6. \A k \in StartCodes(old) : k \in Nat /\ k + 2 # Len(old)
    BY <2>1 DEF WellFormed, StartCodes
  <2>7. first <= offset /\ first = len - 2
    BY <2>5, <2>6, <2>4 DEF SeiInv, SeiTypeOK
  <2> QED
    BY <2>5, <2>6, <2>7
<1> QED
  BY <1>1, SeiInvariance, PTL
=============================================================================
