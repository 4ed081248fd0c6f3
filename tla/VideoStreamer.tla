---------------------------- MODULE VideoStreamer ----------------------------
(***************************************************************************)
(* src/video_streamer.cpp: the colour frames on their way to RTSP, and the *)
(* camera timestamps that travel beside them and rejoin them as SEI.       *)
(*                                                                         *)
(* The capture thread runs PushColorFrame: it takes a number, then, under  *)
(* rtsp_mutex, a reference to the current appsrc and a pts, registers the  *)
(* camera timestamp in video_ts_map under that pts and pushes the frame.   *)
(* A thread of the RTSP server runs CreateRtspBin for the first viewer: it *)
(* replaces the appsrc and resets the numbering under rtsp_mutex, and      *)
(* clears video_ts_map later, under the other mutex.  A streaming thread   *)
(* of the pipeline runs H264SeiProbe, which finds a frame's timestamp by   *)
(* its pts.  An action is a step no other thread can interrupt.            *)
(*                                                                         *)
(* GStreamer is external: the media is shared (one pipeline at a time, the *)
(* old one torn down before the next is built), appsrc has block=TRUE (a   *)
(* push waits for room) and refuses a push with GST_FLOW_FLUSHING once its *)
(* pipeline is gone; the encoder keeps the order of frames.                *)
(***************************************************************************)
EXTENDS Integers, Sequences, FiniteSets

CONSTANTS MaxMap,     \* kMaxVideoTimestampMap, 512 in the code
          Capacity,   \* frames a pipeline holds before a push waits
          AllocFails, \* whether a GStreamer allocation or mapping may fail
          MaxFrames,  \* bound on the colour frames captured
          MaxBins     \* bound on the pipelines created

ASSUME ConstantsAssumption ==
    /\ MaxMap \in Nat /\ Capacity \in Nat \ {0} /\ Capacity + 2 <= MaxMap
    /\ AllocFails \in BOOLEAN
    /\ MaxFrames \in Nat /\ MaxBins \in Nat

NoBin == 0
Bins == 1..MaxBins

VARIABLES client_connected,
          appsrc,       \* ctx->appsrc, named by the pipeline it feeds
          rtsp_pts,     \* counted in frame durations
          video_seq,
          video_ts_map, \* function: pts -> stamp
          cpc, frame,   \* the capture thread: next step, and its frame
          frames,       \* colour frames captured so far: frame n has camera_ts n
          bin,          \* the latest pipeline
          status,       \* status[b]: how far pipeline b has come
          inflight,     \* inflight[b]: the frames inside pipeline b
          refs,         \* refs[b]: references to the appsrc of b
          out           \* the last frame to leave the probe (history)

rtsp == <<appsrc, rtsp_pts, video_seq>>
pipelines == <<bin, status, inflight>>
vars == <<client_connected, rtsp, video_ts_map, cpc, frame, frames, pipelines, refs, out>>

\* kept: whether the timestamp was registered after its pipeline's clear (history)
Frame == [id : 0..MaxFrames, seq : 0..MaxFrames, pts : 0..MaxFrames,
          src : 0..MaxBins, kept : BOOLEAN]
NoFrame == [id |-> 0, seq |-> 0, pts |-> 0, src |-> NoBin, kept |-> FALSE]
Stamp == [camera_ts : 1..MaxFrames, seq : 1..MaxFrames]
NoStamp == [camera_ts |-> 0, seq |-> 0]
StampOf(f) == [camera_ts |-> f.id, seq |-> f.seq]
NoMap == [p \in {} |-> NoStamp]

Init == /\ client_connected = FALSE
        /\ appsrc = NoBin /\ rtsp_pts = 0 /\ video_seq = 0
        /\ video_ts_map = NoMap
        /\ cpc = "idle" /\ frame = NoFrame /\ frames = 0
        /\ bin = 0
        /\ status = [b \in Bins |-> "none"]
        /\ inflight = [b \in Bins |-> <<>>]
        /\ refs = [b \in Bins |-> 0]
        /\ out = [frame |-> NoFrame, sei |-> NoStamp]

Released(b) == IF b = NoBin THEN refs ELSE [refs EXCEPT ![b] = @ - 1]

-----------------------------------------------------------------------------
(* The session thread, in client_transport.cpp. *)

ClientConnects == /\ client_connected' = ~client_connected
                  /\ UNCHANGED <<rtsp, video_ts_map, cpc, frame, frames, pipelines, refs, out>>

-----------------------------------------------------------------------------
(* The capture thread: PushColorFrame. *)

\* A frame without a client, or of another size or format, changes nothing.
\* The number is taken before rtsp_mutex.
TakeSeq ==
    /\ cpc = "idle"
    /\ client_connected
    /\ frames < MaxFrames
    /\ frames' = frames + 1
    /\ video_seq' = video_seq + 1
    /\ frame' = [NoFrame EXCEPT !.id = frames + 1, !.seq = video_seq + 1]
    /\ cpc' = "lock"
    /\ UNCHANGED <<client_connected, appsrc, rtsp_pts, video_ts_map, pipelines, refs, out>>

TakesNoReference(b) == UNCHANGED refs

\* gst_object_ref(ctx->appsrc)
RefLocal(b) == refs' = [refs EXCEPT ![b] = @ + 1]

\* Without a viewer the pts advances all the same and the frame is dropped.
TakeAppsrc ==
    /\ cpc = "lock"
    /\ rtsp_pts' = rtsp_pts + 1
    /\ IF appsrc = NoBin
       THEN cpc' = "idle" /\ frame' = NoFrame /\ UNCHANGED refs
       ELSE /\ cpc' = "register"
            /\ frame' = [frame EXCEPT !.src = appsrc, !.pts = rtsp_pts]
            /\ RefLocal(appsrc)
    /\ UNCHANGED <<client_connected, appsrc, video_seq, video_ts_map, frames, pipelines, out>>

\* gst_object_unref(appsrc): the local reference.
UnrefLocal == refs' = Released(frame.src)

\* gst_buffer_new_allocate or gst_buffer_map failed.
BufferFails ==
    /\ cpc = "register" /\ AllocFails
    /\ UnrefLocal
    /\ cpc' = "idle" /\ frame' = NoFrame
    /\ UNCHANGED <<client_connected, rtsp, video_ts_map, frames, pipelines, out>>

Erased(m, p) == [q \in DOMAIN m \ {p} |-> m[q]]

TrimsNewest(m) ==
    IF Cardinality(DOMAIN m) > MaxMap
    THEN [p \in {q \in DOMAIN m : \E r \in DOMAIN m : r > q} |-> m[p]]
    ELSE m

\* video_ts_map.erase(begin()): the map loses its smallest key.
Trimmed(m) ==
    IF Cardinality(DOMAIN m) > MaxMap
    THEN [p \in {q \in DOMAIN m : \E r \in DOMAIN m : r < q} |-> m[p]]
    ELSE m

Registered(m, p, s) ==
    Trimmed([q \in DOMAIN m \cup {p} |-> IF q = p THEN s ELSE m[q]])

RegisterVideoTimestamp ==
    /\ cpc = "register"
    /\ video_ts_map' = Registered(video_ts_map, frame.pts, StampOf(frame))
    /\ frame' = [frame EXCEPT !.kept = frame.src = bin /\ status[bin] # "installed"]
    /\ cpc' = "push"
    /\ UNCHANGED <<client_connected, rtsp, frames, pipelines, refs, out>>

FailsWhenFull(b) == status[b] = "gone" \/ Len(inflight[b]) >= Capacity

Flushing(b) == status[b] = "gone"

PushedInFront(q, f) == <<f>> \o q

Pushed(q, f) == Append(q, f)

\* gst_app_src_push_buffer returns GST_FLOW_OK, waiting for room if it must.
PushBuffer ==
    /\ cpc = "push"
    /\ ~Flushing(frame.src)
    /\ Len(inflight[frame.src]) < Capacity
    /\ inflight' = [inflight EXCEPT ![frame.src] = Pushed(@, frame)]
    /\ UnrefLocal
    /\ cpc' = "idle" /\ frame' = NoFrame
    /\ UNCHANGED <<client_connected, rtsp, video_ts_map, frames, bin, status, out>>

RetriesRefusedPush ==
    /\ cpc = "push"
    /\ Flushing(frame.src)
    /\ UNCHANGED vars

\* It returns GST_FLOW_FLUSHING: EraseVideoTimestamp.
PushRefused ==
    /\ cpc = "push"
    /\ Flushing(frame.src)
    /\ video_ts_map' = Erased(video_ts_map, frame.pts)
    /\ cpc' = "detach"
    /\ UNCHANGED <<client_connected, rtsp, frame, frames, pipelines, refs, out>>

\* The current appsrc is detached, whichever it is, and the local one released.
Detach ==
    /\ cpc = "detach"
    /\ appsrc' = NoBin
    /\ refs' = [b \in Bins |-> refs[b] - (IF b = appsrc THEN 1 ELSE 0)
                                       - (IF b = frame.src THEN 1 ELSE 0)]
    /\ cpc' = "idle" /\ frame' = NoFrame
    /\ UNCHANGED <<client_connected, rtsp_pts, video_seq, video_ts_map, frames,
                   pipelines, out>>

PushColorFrame == TakeAppsrc \/ BufferFails \/ RegisterVideoTimestamp
                  \/ PushBuffer \/ PushRefused \/ Detach

-----------------------------------------------------------------------------
(* The RTSP server's thread: CreateRtspBin and the life of its pipeline. *)

Creating == bin # 0 /\ status[bin] \in {"installed", "building"}
Live == bin # 0 /\ status[bin] \in {"ready", "playing"}

\* An element or the caps could not be made: the appsrc of before is dropped.
FailEarly ==
    /\ ~Creating /\ ~Live
    /\ appsrc # NoBin
    /\ refs' = Released(appsrc)
    /\ appsrc' = NoBin
    /\ UNCHANGED <<client_connected, rtsp_pts, video_seq, video_ts_map, cpc, frame,
                   frames, pipelines, out>>

ResetsSeqOnly == UNCHANGED rtsp_pts /\ video_seq' = 0

ResetNumbering == rtsp_pts' = 0 /\ video_seq' = 0

InstallAppsrc ==
    /\ ~Creating /\ ~Live
    /\ bin < MaxBins
    /\ bin' = bin + 1
    /\ refs' = [Released(appsrc) EXCEPT ![bin + 1] = 2] \* the source's own, and ctx's
    /\ appsrc' = bin + 1
    /\ ResetNumbering
    /\ status' = [status EXCEPT ![bin + 1] = "installed"]
    /\ UNCHANGED <<client_connected, video_ts_map, cpc, frame, frames, inflight, out>>

ClearVideoTimestamps == video_ts_map' = NoMap

ClearTimestamps ==
    /\ bin # 0 /\ status[bin] = "installed"
    /\ ClearVideoTimestamps
    /\ status' = [status EXCEPT ![bin] = "building"]
    /\ UNCHANGED <<client_connected, rtsp, cpc, frame, frames, bin, inflight, refs, out>>

BinReady ==
    /\ bin # 0 /\ status[bin] = "building"
    /\ status' = [status EXCEPT ![bin] = "ready"]
    /\ UNCHANGED <<client_connected, rtsp, video_ts_map, cpc, frame, frames, bin,
                   inflight, refs, out>>

\* Whatever appsrc is current is dropped, and the bin with what was added to it.
BinFails ==
    /\ bin # 0 /\ status[bin] = "building"
    /\ status' = [status EXCEPT ![bin] = "failed"]
    /\ appsrc' = NoBin
    /\ \E owned \in {0, 1} : \* 1: the source was not in the bin yet and leaks
          refs' = [Released(appsrc) EXCEPT ![bin] = @ - 1 + owned]
    /\ UNCHANGED <<client_connected, rtsp_pts, video_seq, video_ts_map, cpc, frame,
                   frames, bin, inflight, out>>

\* The viewers play, pause and leave; the last one takes the pipeline with it.
PlayBin == /\ Live
           /\ status' = [status EXCEPT ![bin] = IF @ = "ready" THEN "playing" ELSE "ready"]
           /\ UNCHANGED <<client_connected, rtsp, video_ts_map, cpc, frame, frames, bin,
                          inflight, refs, out>>

TearDown == /\ Live
            /\ status' = [status EXCEPT ![bin] = "gone"]
            /\ inflight' = [inflight EXCEPT ![bin] = <<>>]
            /\ refs' = Released(bin)
            /\ UNCHANGED <<client_connected, rtsp, video_ts_map, cpc, frame, frames,
                           bin, out>>

CreateRtspBin == ClearTimestamps \/ BinReady \/ BinFails

-----------------------------------------------------------------------------
(* The streaming thread of the pipeline. *)

Encoding == bin # 0 /\ status[bin] = "playing" /\ inflight[bin] # <<>>

EncoderDrops ==
    /\ Encoding
    /\ inflight' = [inflight EXCEPT ![bin] = Tail(@)]
    /\ UNCHANGED <<client_connected, rtsp, video_ts_map, cpc, frame, frames, bin,
                   status, refs, out>>

FoundOldest(m, p) ==
    IF p \in DOMAIN m
    THEN m[CHOOSE q \in DOMAIN m : \A r \in DOMAIN m : q <= r]
    ELSE NoStamp

Found(m, p) == IF p \in DOMAIN m THEN m[p] ELSE NoStamp

\* The stamp is used once.  A frame without a stamp, or with a buffer that cannot
\* be made, leaves as it came.
H264SeiProbe ==
    /\ Encoding
    /\ LET f == Head(inflight[bin])
           stamp == Found(video_ts_map, f.pts)
       IN /\ video_ts_map' = Erased(video_ts_map, f.pts)
          /\ out' \in {[frame |-> f, sei |-> stamp]}
                      \cup (IF AllocFails THEN {[frame |-> f, sei |-> NoStamp]} ELSE {})
    /\ inflight' = [inflight EXCEPT ![bin] = Tail(@)]
    /\ UNCHANGED <<client_connected, rtsp, cpc, frame, frames, bin, status, refs>>

-----------------------------------------------------------------------------
Next == \/ ClientConnects
        \/ TakeSeq \/ PushColorFrame
        \/ FailEarly \/ InstallAppsrc \/ CreateRtspBin
        \/ PlayBin \/ TearDown
        \/ EncoderDrops \/ H264SeiProbe

Spec == Init /\ [][Next]_vars

\* The threads run; cameras, clients and viewers do what they like.
FairSpec == /\ Spec
            /\ WF_vars(PushColorFrame)
            /\ WF_vars(CreateRtspBin)
            /\ WF_vars(EncoderDrops \/ H264SeiProbe)

-----------------------------------------------------------------------------
(* Correctness. *)

\* The type invariant; the map never outgrows kMaxVideoTimestampMap.
TypeOK ==
    /\ client_connected \in BOOLEAN
    /\ appsrc \in 0..MaxBins /\ bin \in 0..MaxBins
    /\ rtsp_pts \in 0..MaxFrames /\ video_seq \in 0..MaxFrames
    /\ frames \in 0..MaxFrames
    /\ DOMAIN video_ts_map \subseteq 0..MaxFrames
    /\ video_ts_map \in [DOMAIN video_ts_map -> Stamp]
    /\ Cardinality(DOMAIN video_ts_map) <= MaxMap
    /\ cpc \in {"idle", "lock", "register", "push", "detach"}
    /\ frame \in Frame
    /\ status \in [Bins -> {"none", "installed", "building", "ready", "playing",
                            "failed", "gone"}]
    /\ inflight \in [Bins -> Seq(Frame)]
    /\ refs \in [Bins -> Int]
    /\ out.frame \in Frame /\ out.sei \in Stamp \cup {NoStamp}

\* The context and the capture thread only hold an appsrc that still exists, and
\* no reference is dropped twice, however creation, tear down and a refused push
\* interleave.
Held(b) == appsrc = b \/ (cpc \in {"register", "push", "detach"} /\ frame.src = b)
AppsrcAlive == \A b \in Bins : refs[b] >= 0 /\ (Held(b) => refs[b] > 0)

\* The timestamp embedded in a frame is the frame's own: although each pipeline
\* counts its pts from 0 again, a stamp never meets a frame it was not made for.
SeiBelongsToFrame == out.sei # NoStamp => out.sei = StampOf(out.frame)

\* A frame whose timestamp was registered once the map had been cleared still has
\* it when the probe looks for it: the trimming only ever costs frames that were
\* dropped on the way.
StampsWait ==
    bin # 0 => \A i \in DOMAIN inflight[bin] :
                  LET f == inflight[bin][i]
                  IN f.kept => Found(video_ts_map, f.pts) = StampOf(f)

\* Within a pipeline the numbers embedded in the frames grow; only the first frame
\* can carry a number of before the reset.
NumbersGrow ==
    [][out' # out /\ out'.frame.src = out.frame.src /\ out.frame.pts > 0
         => out'.frame.seq > out.frame.seq]_vars

\* A running pipeline can only lose its appsrc to the one push that was under way
\* when it was created.
LostToStalePushOnly ==
    [][Live /\ appsrc = bin /\ appsrc' # bin
         => cpc = "detach" /\ frame.src < bin]_vars

\* README: "publishes video by RTSP": a running pipeline is the one being fed.
LivePipelineIsFed == Live => appsrc = bin

\* The capture thread is only stuck in a push for as long as no viewer plays: the
\* blocking push is released by a running pipeline and by a tear down.
StuckOnlyUnplayed ==
    <>[](cpc = "push")
      => []<>(frame.src \in Bins /\ status[frame.src] \in {"ready", "failed"})

-----------------------------------------------------------------------------
(* The frames are a SampleStream: none is shown twice or out of order. *)

Video == INSTANCE SampleStream WITH
            Streams <- {"video"},
            produced <- [s \in {"video"} |-> frames],
            delivered <- [s \in {"video"} |-> out.frame.id]

\* What a viewer sees is a subsequence of what the camera delivered.
ImplementsFrameStream == Video!Spec
=============================================================================
