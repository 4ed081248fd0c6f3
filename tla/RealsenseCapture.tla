-------------------------- MODULE RealsenseCapture --------------------------
(***************************************************************************)
(* src/realsense_capture.cpp: the capture thread.  It looks for a camera,  *)
(* starts a pipeline, hands the frames of every frameset on, and starts    *)
(* over when frames stop coming or librealsense throws.  In debug mode it  *)
(* plays BAG_FILE instead, over and over.                                  *)
(*                                                                         *)
(* Cameras are plugged and unplugged, a client connects and leaves, and    *)
(* the publisher drains the queues at any moment.  What happens inside a   *)
(* push is left to the modules ImuSession and VideoStreamer: here a sample *)
(* is only known to be of the running pipeline or of an earlier one, and a *)
(* color frame blocks while the RTSP pipeline takes none.                  *)
(***************************************************************************)
EXTENDS Naturals, Sequences

CONSTANTS Cameras,   \* the RealSense devices there are
          D435i,     \* those whose name contains "D435i" or "D435I"
          HasImu,    \* those that offer all the streams of the configuration
          NoSource,  \* no pipeline is running
          Bag,       \* the pipeline plays BAG_FILE
          MaxQueue,  \* kMaxImuQueue, 4096 in the code
          MaxFaults  \* bound on the spurious failures of librealsense

ASSUME ConstantsAssumption ==
    /\ D435i \subseteq HasImu /\ HasImu \subseteq Cameras
    /\ NoSource \notin Cameras /\ Bag \notin Cameras /\ Bag # NoSource
    /\ MaxQueue \in Nat \ {0} /\ MaxFaults \in Nat

VARIABLES config,           \* DEBUG, RECORD_BAG, whether BAG_FILE names a file
                            \* and whether that file can be played
          plugged,          \* the cameras query_devices would list
          pc,               \* the capture thread's next step
          chosen,           \* the device SelectDevice returned
          pipe,             \* what the pipeline streams
          frames,           \* the frames of the frameset still to handle
          camera_connected,
          client_connected, \* of AppContext, written by the listener
          push_blocks,      \* the RTSP pipeline takes no more color frames
          queue,            \* accel_queue and gyro_queue: "now" for a sample of
                            \* the running pipeline, "before" for an older one
          recorded,         \* which frames BAG_FILE holds: of "now", of "before"
          faults            \* spurious failures so far

capture == <<pc, chosen, pipe, frames, camera_connected>>
vars == <<config, plugged, pc, chosen, pipe, frames, camera_connected,
          client_connected, push_blocks, queue, recorded, faults>>

Streams == {"color", "depth", "accel", "gyro"}
Ages == {"now", "before"}

Init == /\ config \in [debug : BOOLEAN, record_bag : BOOLEAN,
                       bag_file : BOOLEAN, playable : BOOLEAN]
        /\ plugged \in SUBSET Cameras
        /\ pc = "query"
        /\ chosen = NoSource /\ pipe = NoSource /\ frames = {}
        /\ camera_connected = FALSE
        /\ client_connected = FALSE
        /\ push_blocks = FALSE
        /\ queue = <<>>
        /\ recorded = {}
        /\ faults = 0

-----------------------------------------------------------------------------
(* StartLiveDevice and StartBagPlayback. *)

\* The first D435i of the list, or whatever camera comes first.
SelectDevice == IF plugged \cap D435i # {} THEN plugged \cap D435i ELSE plugged

ClearImuQueues == queue' = <<>>

NoDevice == /\ pc = "query" /\ ~config.debug
            /\ plugged = {}
            /\ camera_connected' = FALSE
            /\ ClearImuQueues
            /\ pc' = "stop"
            /\ UNCHANGED <<config, plugged, chosen, pipe, frames, client_connected,
                           push_blocks, recorded, faults>>

QueryDevices == /\ pc = "query" /\ ~config.debug
                /\ \E device \in SelectDevice : chosen' = device
                /\ pc' = "start"
                /\ UNCHANGED <<config, plugged, pipe, frames, camera_connected,
                               client_connected, push_blocks, queue, recorded, faults>>

Recording == ~config.debug /\ config.record_bag /\ config.bag_file

\* pipe.start: the recorder opens BAG_FILE anew.
StartPipeline == /\ pc = "start"
                 /\ chosen \in plugged \cap HasImu
                 /\ pipe' = chosen
                 /\ recorded' = IF Recording THEN {} ELSE recorded
                 /\ camera_connected' = TRUE
                 /\ pc' = "poll"
                 /\ UNCHANGED <<config, plugged, chosen, frames, client_connected,
                                push_blocks, queue, faults>>

StartBagPlayback == /\ pc = "query" /\ config.debug
                    /\ IF config.bag_file /\ config.playable
                       THEN pipe' = Bag /\ camera_connected' = TRUE /\ pc' = "poll"
                       ELSE pc' = "stop" /\ UNCHANGED <<pipe, camera_connected>>
                    /\ UNCHANGED <<config, plugged, chosen, frames, client_connected,
                                   push_blocks, queue, recorded, faults>>

-----------------------------------------------------------------------------
(* CaptureLoop and HandleFrame. *)

Delivering == pipe = Bag \/ pipe \in plugged

\* try_wait_for_frames returns a frameset.
PollFrames == /\ pc = "poll"
              /\ Delivering
              /\ \E set \in (SUBSET Streams) \ {{}} : frames' = set
              /\ recorded' = IF Recording THEN recorded \cup {"now"} ELSE recorded
              /\ pc' = "handle"
              /\ UNCHANGED <<config, plugged, chosen, pipe, camera_connected,
                             client_connected, push_blocks, queue, faults>>

\* QueueAccelSample and QueueGyroSample drop the oldest sample of a full queue.
Pushed(q) == IF Len(q) >= MaxQueue THEN Append(Tail(q), "now") ELSE Append(q, "now")

HandleFrame ==
    /\ pc = "handle"
    /\ \E stream \in frames :
          /\ stream = "color" => ~push_blocks
          /\ queue' = IF stream \in {"accel", "gyro"} /\ client_connected
                      THEN Pushed(queue) ELSE queue
          /\ frames' = frames \ {stream}
    /\ pc' = IF frames' = {} THEN "poll" ELSE "handle"
    /\ UNCHANGED <<config, plugged, chosen, pipe, camera_connected,
                   client_connected, push_blocks, recorded, faults>>

TimeoutIgnored == pc = "poll" /\ ~Delivering /\ UNCHANGED vars

\* No frame for kCameraPollTimeoutMs: the camera is gone or the bag has ended.
PollTimeout == /\ pc = "poll"
               /\ pipe \notin plugged
               /\ pc' = "stop"
               /\ UNCHANGED <<config, plugged, chosen, pipe, frames, camera_connected,
                              client_connected, push_blocks, queue, recorded, faults>>

\* pipe.start throws: the device went away or lacks a stream of the configuration.
StartFails == /\ pc = "start"
              /\ chosen \notin plugged \cap HasImu
              /\ pc' = "stop"
              /\ UNCHANGED <<config, plugged, chosen, pipe, frames, camera_connected,
                             client_connected, push_blocks, queue, recorded, faults>>

\* A call of librealsense throws, or waits in vain, for a reason of its own.
Throws == /\ pc \in {"query", "start", "poll", "handle"}
          /\ faults < MaxFaults
          /\ faults' = faults + 1
          /\ frames' = {}
          /\ pc' = "stop"
          /\ UNCHANGED <<config, plugged, chosen, pipe, camera_connected,
                         client_connected, push_blocks, queue, recorded>>

-----------------------------------------------------------------------------
(* The end of an iteration of RunRealsenseCapture. *)

SafeStopPipeline == /\ pc = "stop"
                    /\ pipe' = NoSource
                    /\ queue' = [k \in 1..Len(queue) |-> "before"]
                    /\ recorded' = IF recorded = {} THEN {} ELSE {"before"}
                    /\ pc' = "disconnected"
                    /\ UNCHANGED <<config, plugged, chosen, frames, camera_connected,
                                   client_connected, push_blocks, faults>>

DisconnectKeepsQueues == /\ pc = "disconnected"
                         /\ camera_connected' = FALSE
                         /\ pc' = "query"
                         /\ UNCHANGED <<config, plugged, chosen, pipe, frames, queue,
                                        client_connected, push_blocks, recorded, faults>>

Disconnected == /\ pc = "disconnected"
                /\ camera_connected' = FALSE
                /\ ClearImuQueues
                /\ pc' = "query"
                /\ UNCHANGED <<config, plugged, chosen, pipe, frames,
                               client_connected, push_blocks, recorded, faults>>

RunRealsenseCapture ==
    \/ NoDevice \/ QueryDevices \/ StartPipeline \/ StartFails \/ StartBagPlayback
    \/ PollFrames \/ PollTimeout \/ HandleFrame \/ Throws
    \/ SafeStopPipeline \/ Disconnected

-----------------------------------------------------------------------------
(* The environment. *)

Plug(c) == /\ c \notin plugged
           /\ plugged' = plugged \cup {c}
           /\ UNCHANGED <<config, capture, client_connected, push_blocks, queue,
                          recorded, faults>>

Unplug(c) == /\ c \in plugged
             /\ plugged' = plugged \ {c}
             /\ UNCHANGED <<config, capture, client_connected, push_blocks, queue,
                            recorded, faults>>

\* HandleClientCommand: both commands clear the queues and set the flag.
ClientCommand == /\ client_connected' \in BOOLEAN
                 /\ ClearImuQueues
                 /\ UNCHANGED <<config, plugged, capture, push_blocks, recorded, faults>>

\* RunImuPublisher swaps the queues out.
Drain == /\ queue # <<>>
         /\ ClearImuQueues
         /\ UNCHANGED <<config, plugged, capture, client_connected, push_blocks,
                        recorded, faults>>

\* A viewer pauses, or plays on.
Viewer == /\ push_blocks' = ~push_blocks
          /\ UNCHANGED <<config, plugged, capture, client_connected, queue, recorded, faults>>

Next == \/ RunRealsenseCapture
        \/ \E c \in Cameras : Plug(c) \/ Unplug(c)
        \/ ClientCommand \/ Drain \/ Viewer

Spec == Init /\ [][Next]_vars

\* The thread runs; everybody else does what they like.
FairSpec == Spec /\ WF_vars(RunRealsenseCapture)

-----------------------------------------------------------------------------
(* Correctness. *)

\* The type invariant; the queue never outgrows kMaxImuQueue.
TypeOK ==
    /\ config \in [debug : BOOLEAN, record_bag : BOOLEAN,
                   bag_file : BOOLEAN, playable : BOOLEAN]
    /\ plugged \subseteq Cameras
    /\ pc \in {"query", "start", "poll", "handle", "stop", "disconnected"}
    /\ chosen \in Cameras \cup {NoSource}
    /\ pipe \in Cameras \cup {NoSource, Bag}
    /\ frames \subseteq Streams
    /\ camera_connected \in BOOLEAN /\ client_connected \in BOOLEAN
    /\ push_blocks \in BOOLEAN
    /\ queue \in Seq(Ages) /\ Len(queue) <= MaxQueue
    /\ recorded \subseteq Ages
    /\ faults \in 0..MaxFaults

\* BAG_FILE never mixes two runs of the pipeline: a camera that comes back starts a
\* new recording in place of the old one, it does not continue it.
BagOfOneRun == ~(Ages \subseteq recorded)

\* Except in the moment a pipeline has just been stopped, every queued sample comes
\* from the running pipeline: no client gets samples of before and of after a
\* reconnection out of one queue, however the run before ended.
QueueOfThisRun ==
    pc # "disconnected" => \A k \in DOMAIN queue : queue[k] = "now"

\* A D435i that stays plugged in alone is streamed from some moment on, whatever
\* happened before, once color frames find their way out.
StreamsOncePlugged ==
    ~config.debug
      => \A c \in D435i : <>[](plugged = {c} /\ ~push_blocks) => <>[](pipe = c)
=============================================================================
