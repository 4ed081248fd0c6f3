------------------------- MODULE VideoStreamerProofs -------------------------
(***************************************************************************)
(* Theorems about VideoStreamer, for every size of map and pipeline and    *)
(* every number of frames and pipelines.                                   *)
(***************************************************************************)
EXTENDS VideoStreamer, FiniteSetTheorems, WellFoundedInduction, TLAPS

-----------------------------------------------------------------------------
(* The inductive invariant. *)

Holding == cpc \in {"register", "push", "detach"}

\* Every frame has its number and, once it has a pts, it has a pipeline.
CounterInv ==
    /\ video_seq <= frames
    /\ rtsp_pts + (IF cpc = "lock" THEN 1 ELSE 0) <= frames
    /\ cpc # "idle" => frame.id = frames /\ frame.id >= 1 /\ frame.seq >= 1
    /\ IF Holding THEN frame.src \in 1..bin ELSE frame.src = NoBin
    /\ cpc = "detach" => status[frame.src] = "gone"

\* Only the latest pipeline can be alive, and only it can be the one fed.
BinInv ==
    /\ appsrc \in {NoBin, bin}
    /\ \A b \in Bins :
          /\ b > bin => status[b] = "none" /\ inflight[b] = <<>>
          /\ b < bin => status[b] \in {"failed", "gone"}
          /\ b = bin => status[b] # "none"

\* The references to an appsrc: its bin's, the context's and the capture thread's.
CtxRef(b) == IF appsrc = b THEN 1 ELSE 0
LocalRef(b) == IF Holding /\ frame.src = b THEN 1 ELSE 0
OwnRefs(b) == IF status[b] \in {"installed", "building", "ready", "playing"} THEN {1}
              ELSE IF status[b] = "failed" THEN {0, 1} ELSE {0}
RefsInv ==
    \A b \in Bins : \E own \in OwnRefs(b) : refs[b] = own + CtxRef(b) + LocalRef(b)

\* The frames in the latest pipeline.
Flow == IF bin = 0 THEN <<>> ELSE inflight[bin]
OnFrame == Holding /\ frame.src = bin

\* Frame f came before frame g.
Before(f, g) == /\ f.id < g.id
                /\ f.src = g.src => f.pts < g.pts
                /\ f.src = g.src /\ f.pts > 0 => f.seq < g.seq

\* Frame f, seen or in the latest pipeline, came before all that follow.
Passed(f) ==
    /\ f.id <= frames
    /\ cpc # "idle" => f.id < frame.id
    /\ f.src = bin /\ bin # 0 => /\ f.pts < rtsp_pts
                                 /\ f.pts > 0 => f.seq <= video_seq
                                 /\ f.pts > 0 /\ cpc = "lock" => f.seq < video_seq
                                 /\ Holding => frame.src = bin /\ Before(f, frame)

FlowInv ==
    /\ Passed(out.frame) /\ out.frame.src <= bin
    /\ \A i \in 1..Len(Flow) : /\ Passed(Flow[i])
                               /\ Flow[i].src = bin /\ Flow[i].id >= 1 /\ Flow[i].seq >= 1
                               /\ Before(out.frame, Flow[i])
    /\ \A i, j \in 1..Len(Flow) : i < j => Before(Flow[i], Flow[j])
    /\ cpc = "lock" /\ rtsp_pts > 0 => frame.seq = video_seq
    /\ OnFrame => /\ frame.pts < rtsp_pts
                  /\ frame.pts > 0 => frame.seq = video_seq

\* A stamp that a frame of the latest pipeline would find is its own.
StampInv ==
    /\ \A i \in 1..Len(Flow) :
          Flow[i].pts \in DOMAIN video_ts_map
             => video_ts_map[Flow[i].pts] = StampOf(Flow[i])
    /\ OnFrame /\ cpc = "push" /\ frame.pts \in DOMAIN video_ts_map
          => video_ts_map[frame.pts] = StampOf(frame)
    /\ SeiBelongsToFrame

IInv == TypeOK /\ CounterInv /\ BinInv /\ RefsInv /\ FlowInv /\ StampInv

-----------------------------------------------------------------------------
(* Lemmas about the map. *)

\* A finite set of naturals that is not empty has a least element, so leaving out
\* what has nothing below it leaves fewer.
LEMMA WithoutLeast ==
  ASSUME NEW S \in SUBSET Nat, IsFiniteSet(S), S # {}
  PROVE  LET T == {q \in S : \E r \in S : r < q}
         IN  T \subseteq S /\ IsFiniteSet(T) /\ Cardinality(T) < Cardinality(S)
<1> DEFINE T == {q \in S : \E r \in S : r < q}
<1>1. PICK x \in S : \A y \in S : ~ (<<y, x>> \in OpToRel(<, Nat))
  BY WFMin, NatLessThanWellFounded
<1>2. \A y \in S : ~ (y < x)
  BY <1>1 DEF OpToRel
<1>3. T \in SUBSET S /\ x \notin T
  BY <1>2
<1>4. /\ IsFiniteSet(T) /\ Cardinality(T) <= Cardinality(S)
      /\ Cardinality(S) = Cardinality(T) => S = T
  BY <1>3, FS_Subset
<1>5. Cardinality(S) \in Nat /\ Cardinality(T) \in Nat
  BY <1>4, FS_CardinalityType
<1>6. Cardinality(S) # Cardinality(T)
  <2>1. x \in S
    BY <1>1
  <2>2. S # T
    BY <1>3, <2>1
  <2> QED
    BY <1>4, <2>2
<1> QED
  BY <1>3, <1>4, <1>5, <1>6

LEMMA BoundedIsFinite ==
  ASSUME NEW n \in Nat, NEW S \in SUBSET (0..n)
  PROVE  IsFiniteSet(S)
<1>1. S \in SUBSET Nat /\ \A x \in S : x <= n
  OBVIOUS
<1> QED
  BY <1>1, FS_BoundedSetOfNaturals

\* Registering a stamp leaves it, or nothing, under its pts; it changes no other
\* stamp, and the map stays within its limit.
LEMMA RegisteredMap ==
  ASSUME NEW m, DOMAIN m \subseteq 0..MaxFrames, m \in [DOMAIN m -> Stamp],
         Cardinality(DOMAIN m) <= MaxMap,
         NEW p \in 0..MaxFrames, NEW s \in Stamp
  PROVE  LET r == Registered(m, p, s)
         IN  /\ DOMAIN r \subseteq DOMAIN m \cup {p}
             /\ r \in [DOMAIN r -> Stamp]
             /\ Cardinality(DOMAIN r) <= MaxMap
             /\ \A q \in DOMAIN r : r[q] = IF q = p THEN s ELSE m[q]
<1> DEFINE D == DOMAIN m \cup {p}
           n == [q \in D |-> IF q = p THEN s ELSE m[q]]
           T == {q \in D : \E r \in D : r < q}
<1>1. MaxFrames \in Nat /\ MaxMap \in Nat
  BY ConstantsAssumption
<1>2. IsFiniteSet(DOMAIN m)
  BY <1>1, BoundedIsFinite
<1>4. /\ IsFiniteSet(D)
      /\ Cardinality(D) <= Cardinality(DOMAIN m) + 1
      /\ Cardinality(D) \in Nat /\ Cardinality(DOMAIN m) \in Nat
  <2>1. /\ IsFiniteSet(D)
        /\ Cardinality(D) = IF p \in DOMAIN m THEN Cardinality(DOMAIN m)
                            ELSE Cardinality(DOMAIN m) + 1
    BY <1>2, FS_AddElement
  <2>2. Cardinality(D) \in Nat /\ Cardinality(DOMAIN m) \in Nat
    BY <1>2, <2>1, FS_CardinalityType
  <2> QED
    BY <2>1, <2>2
<1>5. D \in SUBSET Nat /\ D # {}
  BY <1>1
<1>6. /\ T \subseteq D /\ IsFiniteSet(T)
      /\ Cardinality(T) < Cardinality(D) /\ Cardinality(T) \in Nat
  BY <1>4, <1>5, WithoutLeast, FS_CardinalityType
<1>7. DOMAIN n = D /\ n \in [D -> Stamp]
  OBVIOUS
<1>8. Registered(m, p, s) = IF Cardinality(D) > MaxMap THEN [q \in T |-> n[q]] ELSE n
  BY <1>7 DEF Registered, Trimmed
<1> HIDE DEF T, D
<1>9. CASE Cardinality(D) > MaxMap
  <2>1. Cardinality(T) <= MaxMap
    BY <1>1, <1>4, <1>6, <1>9
  <2>2. Registered(m, p, s) = [q \in T |-> n[q]]
    BY <1>8, <1>9
  <2>3. \A q \in T : n[q] = (IF q = p THEN s ELSE m[q]) /\ n[q] \in Stamp
    BY <1>6, <1>7
  <2> HIDE DEF n
  <2>4. /\ DOMAIN Registered(m, p, s) = T
        /\ Registered(m, p, s) \in [T -> Stamp]
        /\ \A q \in T : Registered(m, p, s)[q] = IF q = p THEN s ELSE m[q]
    BY <2>2, <2>3
  <2> QED
    BY <1>6, <2>1, <2>4 DEF D
<1>10. CASE ~(Cardinality(D) > MaxMap)
  <2>1. Cardinality(D) <= MaxMap
    BY <1>1, <1>4, <1>10
  <2>2. Registered(m, p, s) = n
    BY <1>8, <1>10
  <2>3. \A q \in D : n[q] = (IF q = p THEN s ELSE m[q]) /\ n[q] \in Stamp
    BY <1>7
  <2> QED
    BY <1>7, <2>1, <2>2, <2>3 DEF D
<1> QED
  BY <1>9, <1>10

\* Erasing a key loses that stamp and no other.
LEMMA ErasedMap ==
  ASSUME NEW m, DOMAIN m \subseteq 0..MaxFrames, m \in [DOMAIN m -> Stamp],
         Cardinality(DOMAIN m) <= MaxMap, NEW p
  PROVE  LET r == Erased(m, p)
         IN  /\ DOMAIN r = DOMAIN m \ {p}
             /\ r \in [DOMAIN r -> Stamp]
             /\ Cardinality(DOMAIN r) <= MaxMap
             /\ \A q \in DOMAIN r : r[q] = m[q]
<1>1. MaxFrames \in Nat /\ MaxMap \in Nat
  BY ConstantsAssumption
<1>2. IsFiniteSet(DOMAIN m)
  BY <1>1, BoundedIsFinite
<1>3. /\ Cardinality(DOMAIN m \ {p}) <= Cardinality(DOMAIN m)
      /\ Cardinality(DOMAIN m) \in Nat /\ Cardinality(DOMAIN m \ {p}) \in Nat
  BY <1>2, FS_RemoveElement, FS_Subset, FS_CardinalityType
<1> QED
  BY <1>1, <1>3 DEF Erased

-----------------------------------------------------------------------------
(* The initial state. *)

LEMMA FrameZero == NoFrame \in Frame /\ 0 \in 0..MaxFrames /\ 0 \in 0..MaxBins
<1>1. MaxFrames \in Nat /\ MaxBins \in Nat
  BY ConstantsAssumption
<1>2. 0 \in 0..MaxFrames /\ 0 \in 0..MaxBins
  BY <1>1
<1>3. FALSE \in BOOLEAN
  OBVIOUS
<1> QED
  BY <1>2, <1>3 DEF NoFrame, Frame, NoBin

LEMMA MapEmpty == DOMAIN NoMap = {} /\ Cardinality(DOMAIN NoMap) = 0
                  /\ NoMap \in [DOMAIN NoMap -> Stamp]
  BY FS_EmptySet DEF NoMap

LEMMA InitIInv == Init => IInv
<1> SUFFICES ASSUME Init PROVE IInv
  OBVIOUS
<1>1. MaxMap \in Nat /\ MaxFrames \in Nat /\ MaxBins \in Nat
  BY ConstantsAssumption
<1>2. TypeOK
  <2>1. client_connected \in BOOLEAN
    BY DEF Init
  <2>2. /\ appsrc \in 0..MaxBins /\ bin \in 0..MaxBins
        /\ rtsp_pts \in 0..MaxFrames /\ video_seq \in 0..MaxFrames
        /\ frames \in 0..MaxFrames
    BY FrameZero DEF Init, NoBin
  <2>3. /\ DOMAIN video_ts_map \subseteq 0..MaxFrames
        /\ video_ts_map \in [DOMAIN video_ts_map -> Stamp]
        /\ Cardinality(DOMAIN video_ts_map) <= MaxMap
    BY <1>1, MapEmpty DEF Init
  <2>4. cpc \in {"idle", "lock", "register", "push", "detach"} /\ frame \in Frame
    BY FrameZero DEF Init
  <2>5. /\ status \in [Bins -> {"none", "installed", "building", "ready", "playing",
                                "failed", "gone"}]
        /\ inflight \in [Bins -> Seq(Frame)]
        /\ refs \in [Bins -> Int]
    BY DEF Init
  <2>6. out.frame \in Frame /\ out.sei \in Stamp \cup {NoStamp}
    BY FrameZero DEF Init
  <2> HIDE DEF Init
  <2> QED
    BY <2>1, <2>2, <2>3, <2>4, <2>5, <2>6 DEF TypeOK
<1>3. CounterInv
  BY FrameZero DEF Init, CounterInv, Holding, NoFrame
<1>4. BinInv
  BY DEF Init, BinInv, Bins, NoBin
<1>5. RefsInv
  BY DEF Init, RefsInv, OwnRefs, CtxRef, LocalRef, Holding, Bins, NoBin
<1>6. FlowInv
  BY DEF Init, FlowInv, Flow, OnFrame, Holding, Passed, Before, NoFrame, NoBin
<1>7. StampInv
  BY DEF Init, StampInv, Flow, OnFrame, Holding, SeiBelongsToFrame
<1> QED
  BY <1>2, <1>3, <1>4, <1>5, <1>6, <1>7 DEF IInv

-----------------------------------------------------------------------------
(* The steps that no frame notices. *)

LEMMA FlowUnchanged ==
  FlowInv /\ UNCHANGED <<frames, cpc, frame, rtsp_pts, video_seq, bin, inflight, out>>
    => FlowInv'
  BY DEF FlowInv, Flow, OnFrame, Holding, Passed, Before

LEMMA StampUnchanged ==
  ASSUME StampInv, UNCHANGED <<cpc, frame, bin, inflight, out>>,
         \A q \in DOMAIN video_ts_map' :
            q \in DOMAIN video_ts_map /\ video_ts_map'[q] = video_ts_map[q]
  PROVE  StampInv'
  BY DEF StampInv, Flow, OnFrame, Holding, SeiBelongsToFrame, StampOf

\* Releasing a reference takes one from that appsrc's count.
LEMMA ReleasedRefs ==
  ASSUME TypeOK, NEW a \in 0..MaxBins
  PROVE  /\ Released(a) \in [Bins -> Int]
         /\ \A b \in Bins : Released(a)[b] = refs[b] - (IF b = a THEN 1 ELSE 0)
<1>1. refs \in [Bins -> Int] /\ MaxBins \in Nat
  BY ConstantsAssumption DEF TypeOK
<1>2. CASE a = NoBin
  BY <1>1, <1>2 DEF Released, Bins, NoBin
<1>3. CASE a # NoBin
  <2>1. a \in Bins /\ refs[a] \in Int
    BY <1>1, <1>3 DEF Bins, NoBin
  <2>2. Released(a) = [refs EXCEPT ![a] = refs[a] - 1]
    BY <1>3 DEF Released
  <2> QED
    BY <1>1, <2>1, <2>2
<1> QED
  BY <1>2, <1>3

LEMMA ClientKeepsIInv == IInv /\ ClientConnects => IInv'
<1> SUFFICES ASSUME IInv, ClientConnects PROVE IInv'
  OBVIOUS
<1>1. TypeOK'
  <2>1. client_connected' \in BOOLEAN
    BY DEF IInv, TypeOK, ClientConnects
  <2> QED
    BY <2>1 DEF IInv, TypeOK, ClientConnects, rtsp, pipelines
<1>2. FlowInv' /\ StampInv'
  BY FlowUnchanged, StampUnchanged DEF IInv, ClientConnects, rtsp, pipelines
<1>3. CounterInv' /\ BinInv' /\ RefsInv'
  BY DEF IInv, ClientConnects, rtsp, pipelines, CounterInv, BinInv, RefsInv, OwnRefs,
         CtxRef, LocalRef, Holding
<1> QED
  BY <1>1, <1>2, <1>3 DEF IInv

\* Creation fails early, or late, and takes the context's reference along.
LEMMA FailEarlyKeepsIInv == IInv /\ FailEarly => IInv'
<1> SUFFICES ASSUME IInv, FailEarly PROVE IInv'
  OBVIOUS
<1> USE DEF rtsp, pipelines
<1>1. TypeOK'
  <2>1. appsrc' \in 0..MaxBins
    BY FrameZero DEF FailEarly, NoBin
  <2>2. refs' \in [Bins -> Int]
    BY ReleasedRefs DEF IInv, TypeOK, FailEarly
  <2> QED
    BY <2>1, <2>2 DEF IInv, TypeOK, FailEarly
<1>2. FlowInv' /\ StampInv'
  BY FlowUnchanged, StampUnchanged DEF IInv, FailEarly
<1>3. CounterInv' /\ BinInv'
  BY DEF IInv, FailEarly, CounterInv, BinInv, Holding
<1>4. RefsInv'
  BY SMTT(40) DEF IInv, TypeOK, FailEarly, RefsInv, OwnRefs, CtxRef, LocalRef, Holding, Released,
         Bins, NoBin
<1> QED
  BY <1>1, <1>2, <1>3, <1>4 DEF IInv

LEMMA CreateKeepsIInv == IInv /\ CreateRtspBin => IInv'
<1> SUFFICES ASSUME IInv, CreateRtspBin PROVE IInv'
  OBVIOUS
<1> USE DEF rtsp, pipelines
<1>1. bin # 0 => bin \in Bins
  BY ConstantsAssumption DEF IInv, TypeOK, Bins
<1>2. CASE ClearTimestamps
  <2>1. TypeOK'
    <3>1. /\ DOMAIN video_ts_map' \subseteq 0..MaxFrames
          /\ video_ts_map' \in [DOMAIN video_ts_map' -> Stamp]
          /\ Cardinality(DOMAIN video_ts_map') <= MaxMap
      BY <1>2, MapEmpty, ConstantsAssumption DEF ClearTimestamps, ClearVideoTimestamps
    <3> QED
      BY <1>2, <3>1 DEF IInv, TypeOK, ClearTimestamps
  <2>2. FlowInv' /\ StampInv'
    BY <1>2, MapEmpty, FlowUnchanged, StampUnchanged
       DEF IInv, ClearTimestamps, ClearVideoTimestamps
  <2>3. CounterInv' /\ BinInv'
    BY <1>1, <1>2 DEF IInv, TypeOK, ClearTimestamps, CounterInv, BinInv, Holding, Bins
  <2>4. RefsInv'
    <3>1. ASSUME NEW b \in Bins PROVE OwnRefs(b)' = OwnRefs(b)
      BY <1>1, <1>2 DEF IInv, TypeOK, ClearTimestamps, OwnRefs
    <3>2. ASSUME NEW b \in Bins PROVE /\ refs'[b] = refs[b] /\ CtxRef(b)' = CtxRef(b)
                                      /\ LocalRef(b)' = LocalRef(b)
      BY <1>2 DEF ClearTimestamps, CtxRef, LocalRef, Holding
    <3> QED
      BY <3>1, <3>2 DEF IInv, RefsInv
  <2> QED
    BY <2>1, <2>2, <2>3, <2>4 DEF IInv
<1>3. CASE BinReady
  <2>1. TypeOK'
    BY <1>3 DEF IInv, TypeOK, BinReady
  <2>2. FlowInv' /\ StampInv'
    BY <1>3, FlowUnchanged, StampUnchanged DEF IInv, BinReady
  <2>3. CounterInv' /\ BinInv'
    BY <1>1, <1>3 DEF IInv, TypeOK, BinReady, CounterInv, BinInv, Holding, Bins
  <2>4. RefsInv'
    <3>1. ASSUME NEW b \in Bins PROVE OwnRefs(b)' = OwnRefs(b)
      BY <1>1, <1>3 DEF IInv, TypeOK, BinReady, OwnRefs
    <3>2. ASSUME NEW b \in Bins PROVE /\ refs'[b] = refs[b] /\ CtxRef(b)' = CtxRef(b)
                                      /\ LocalRef(b)' = LocalRef(b)
      BY <1>3 DEF BinReady, CtxRef, LocalRef, Holding
    <3> QED
      BY <3>1, <3>2 DEF IInv, RefsInv
  <2> QED
    BY <2>1, <2>2, <2>3, <2>4 DEF IInv
<1>4. CASE BinFails
  <2>1. PICK owned \in {0, 1} :
           refs' = [Released(appsrc) EXCEPT ![bin] = @ - 1 + owned]
    BY <1>4 DEF BinFails
  <2>2. Released(appsrc) \in [Bins -> Int]
    BY ReleasedRefs DEF IInv, TypeOK
  <2>3. appsrc' \in 0..MaxBins
    BY <1>4, FrameZero DEF BinFails, NoBin
  <2>4. refs' \in [Bins -> Int]
    BY <1>1, <1>4, <2>1, <2>2 DEF BinFails
  <2>5. TypeOK'
    BY <1>4, <2>3, <2>4 DEF IInv, TypeOK, BinFails
  <2>6. FlowInv' /\ StampInv'
    BY <1>4, FlowUnchanged, StampUnchanged DEF IInv, BinFails
  <2>7. CounterInv' /\ BinInv'
    BY <1>1, <1>4 DEF IInv, TypeOK, BinFails, CounterInv, BinInv, Holding, Bins
  <2>8. ASSUME NEW b \in Bins
        PROVE  \E own \in OwnRefs(b)' :
                   refs'[b] = own + CtxRef(b)' + LocalRef(b)'
    <3>1. PICK own \in OwnRefs(b) : refs[b] = own + CtxRef(b) + LocalRef(b)
      BY DEF IInv, RefsInv
    <3>2. CASE b = bin
      <4>1. own = 1
        BY <1>4, <3>1, <3>2 DEF BinFails, OwnRefs
      <4>2. refs'[b] = owned + LocalRef(b)
        BY <1>1, <1>4, <2>1, <2>2, <3>1, <3>2, <4>1
           DEF BinFails, IInv, BinInv, TypeOK, Released, CtxRef, LocalRef, Bins, NoBin
      <4> QED
        BY <1>1, <1>4, <2>1, <3>2, <4>2
           DEF BinFails, IInv, TypeOK, OwnRefs, CtxRef, LocalRef, Holding, Bins, NoBin
    <3>3. CASE b # bin
      BY <1>1, <1>4, <2>1, <2>2, <3>1, <3>3
         DEF BinFails, IInv, BinInv, TypeOK, Released, OwnRefs, CtxRef, LocalRef, Holding,
             Bins, NoBin
    <3> QED
      BY <3>2, <3>3
  <2>9. RefsInv'
    BY <2>8 DEF RefsInv
  <2> QED
    BY <2>5, <2>6, <2>7, <2>9 DEF IInv
<1> QED
  BY <1>2, <1>3, <1>4 DEF CreateRtspBin

LEMMA PlayKeepsIInv == IInv /\ PlayBin => IInv'
<1> SUFFICES ASSUME IInv, PlayBin PROVE IInv'
  OBVIOUS
<1> USE DEF rtsp, pipelines
<1>1. bin \in Bins
  BY ConstantsAssumption DEF IInv, TypeOK, Bins, PlayBin, Live
<1>2. PICK s \in {"ready", "playing"} : status' = [status EXCEPT ![bin] = s]
  BY DEF PlayBin
<1>3. TypeOK'
  BY <1>2 DEF IInv, TypeOK, PlayBin
<1>4. FlowInv' /\ StampInv'
  BY FlowUnchanged, StampUnchanged DEF IInv, PlayBin
<1>5. CounterInv' /\ BinInv'
  BY <1>1, <1>2 DEF IInv, TypeOK, PlayBin, Live, CounterInv, BinInv, Holding, Bins
<1>6. \A b \in Bins : OwnRefs(b)' = OwnRefs(b)
  BY <1>1, <1>2 DEF IInv, TypeOK, PlayBin, Live, OwnRefs
<1>7. RefsInv'
  BY <1>6 DEF IInv, PlayBin, RefsInv, CtxRef, LocalRef, Holding
<1> QED
  BY <1>3, <1>4, <1>5, <1>7 DEF IInv

-----------------------------------------------------------------------------
(* The steps of the capture thread. *)

LEMMA FlowTyped == TypeOK => Flow \in Seq(Frame)
  BY ConstantsAssumption DEF TypeOK, Flow, Bins

\* A count that changes as its references do stays right.
LEMMA RefsStep ==
  ASSUME TypeOK, RefsInv, status' = status,
         \A b \in Bins : refs'[b] = refs[b] + (CtxRef(b)' - CtxRef(b))
                                           + (LocalRef(b)' - LocalRef(b))
  PROVE  RefsInv'
<1> SUFFICES ASSUME NEW b \in Bins
             PROVE  \E own \in OwnRefs(b)' : refs'[b] = own + CtxRef(b)' + LocalRef(b)'
  BY DEF RefsInv
<1>1. PICK own \in OwnRefs(b) : refs[b] = own + CtxRef(b) + LocalRef(b)
  BY DEF RefsInv
<1>2. OwnRefs(b)' = OwnRefs(b) /\ OwnRefs(b) \subseteq {0, 1}
  BY DEF OwnRefs
<1>3. /\ CtxRef(b) \in Int /\ CtxRef(b)' \in Int
      /\ LocalRef(b) \in Int /\ LocalRef(b)' \in Int
  BY DEF CtxRef, LocalRef
<1>4. own \in Int
  BY <1>2
<1>5. refs'[b] = refs[b] + (CtxRef(b)' - CtxRef(b)) + (LocalRef(b)' - LocalRef(b))
  OBVIOUS
<1>6. refs'[b] = own + CtxRef(b)' + LocalRef(b)'
  BY <1>1, <1>3, <1>4, <1>5
<1> QED
  BY <1>2, <1>6

LEMMA TakeSeqKeepsIInv == IInv /\ TakeSeq => IInv'
<1> SUFFICES ASSUME IInv, TakeSeq PROVE IInv'
  OBVIOUS
<1> USE DEF rtsp, pipelines
<1>1. /\ frames \in Nat /\ video_seq \in Nat /\ rtsp_pts \in Nat
      /\ video_seq <= frames /\ frames < MaxFrames /\ MaxFrames \in Nat
  BY ConstantsAssumption DEF IInv, TypeOK, CounterInv, TakeSeq
<1>2. /\ frames' = frames + 1 /\ video_seq' = video_seq + 1
      /\ frame'.id = frames + 1 /\ frame'.seq = video_seq + 1
      /\ frame'.src = NoBin /\ frame'.pts = 0 /\ frame'.kept = FALSE
      /\ frame' = [id |-> frames + 1, seq |-> video_seq + 1, pts |-> 0,
                   src |-> NoBin, kept |-> FALSE]
  BY DEF TakeSeq, NoFrame
<1>3. frame' \in Frame
  <2>1. frames + 1 \in 0..MaxFrames /\ video_seq + 1 \in 0..MaxFrames
    BY <1>1
  <2>2. FALSE \in BOOLEAN
    OBVIOUS
  <2> QED
    BY <1>2, <2>1, <2>2, FrameZero DEF Frame, NoBin
<1>4. TypeOK'
  BY <1>1, <1>2, <1>3 DEF IInv, TypeOK, TakeSeq
<1>5. CounterInv' /\ BinInv'
  BY <1>1, <1>2 DEF IInv, TakeSeq, CounterInv, BinInv, Holding
<1>6. RefsInv'
  BY <1>2 DEF IInv, TakeSeq, RefsInv, OwnRefs, CtxRef, LocalRef, Holding
<1>7. ASSUME NEW f \in Frame, Passed(f)
      PROVE  Passed(f)'
  BY <1>1, <1>2, <1>7 DEF Passed, Holding, TakeSeq, Frame
<1>8. Flow' = Flow /\ out' = out /\ Flow \in Seq(Frame) /\ out.frame \in Frame
  BY FlowTyped DEF Flow, TakeSeq, IInv, TypeOK
<1>9. FlowInv'
  BY <1>2, <1>7, <1>8 DEF IInv, TakeSeq, FlowInv, OnFrame, Holding, Before
<1>10. StampInv'
  BY <1>2, <1>8 DEF IInv, TakeSeq, StampInv, OnFrame, Holding, SeiBelongsToFrame
<1> QED
  BY <1>4, <1>5, <1>6, <1>9, <1>10 DEF IInv

LEMMA TakeAppsrcKeepsIInv == IInv /\ TakeAppsrc => IInv'
<1> SUFFICES ASSUME IInv, TakeAppsrc PROVE IInv'
  OBVIOUS
<1> USE DEF rtsp, pipelines
<1>1. /\ frames \in Nat /\ video_seq \in Nat /\ rtsp_pts \in Nat
      /\ rtsp_pts + 1 <= frames /\ frames <= MaxFrames /\ MaxFrames \in Nat
      /\ cpc = "lock" /\ rtsp_pts' = rtsp_pts + 1
  BY ConstantsAssumption DEF IInv, TypeOK, CounterInv, TakeAppsrc
<1>2. Flow' = Flow /\ out' = out /\ Flow \in Seq(Frame) /\ out.frame \in Frame
  BY FlowTyped DEF Flow, TakeAppsrc, IInv, TypeOK
<1>3. CASE appsrc = NoBin
  <2>1. cpc' = "idle" /\ frame' = NoFrame /\ refs' = refs
    BY <1>3 DEF TakeAppsrc
  <2>2. TypeOK'
    BY <1>1, <2>1, FrameZero DEF IInv, TypeOK, TakeAppsrc
  <2>3. CounterInv' /\ BinInv'
    BY <1>1, <2>1 DEF IInv, TakeAppsrc, CounterInv, BinInv, Holding, NoFrame
  <2>4. RefsInv'
    BY <1>1, <2>1 DEF IInv, TakeAppsrc, RefsInv, OwnRefs, CtxRef, LocalRef, Holding
  <2>5. ASSUME NEW f \in Frame, Passed(f)
        PROVE  Passed(f)'
    BY <1>1, <2>1, <2>5 DEF Passed, Holding, TakeAppsrc, Frame
  <2>6. FlowInv'
    BY <1>2, <2>1, <2>5 DEF IInv, TakeAppsrc, FlowInv, OnFrame, Holding, Before
  <2>7. StampInv'
    BY <1>2, <2>1 DEF IInv, TakeAppsrc, StampInv, OnFrame, Holding, SeiBelongsToFrame
  <2> QED
    BY <2>2, <2>3, <2>4, <2>6, <2>7 DEF IInv
<1>4. CASE appsrc # NoBin
  <2>1. /\ cpc' = "register" /\ frame' = [frame EXCEPT !.src = appsrc, !.pts = rtsp_pts]
        /\ appsrc = bin /\ bin \in Bins /\ bin # 0
        /\ refs' = [refs EXCEPT ![bin] = @ + 1]
    BY <1>4, ConstantsAssumption
       DEF TakeAppsrc, RefLocal, IInv, BinInv, TypeOK, Bins, NoBin
  <2>2. /\ frame'.src = bin /\ frame'.pts = rtsp_pts /\ frame'.id = frame.id
        /\ frame'.seq = frame.seq
    BY <2>1 DEF IInv, TypeOK, Frame
  <2>3. frame' \in Frame
    BY <1>1, <2>1 DEF IInv, TypeOK, Frame
  <2>4. TypeOK'
    BY <1>1, <2>1, <2>3 DEF IInv, TypeOK, TakeAppsrc
  <2>5. CounterInv' /\ BinInv'
    BY <1>1, <2>1, <2>2
       DEF IInv, TypeOK, TakeAppsrc, CounterInv, BinInv, Holding, Bins
  <2>6. RefsInv'
    <3>1. \A b \in Bins : /\ refs'[b] = refs[b] + (IF b = bin THEN 1 ELSE 0)
                          /\ CtxRef(b)' = CtxRef(b) /\ LocalRef(b) = 0
                          /\ LocalRef(b)' = IF b = bin THEN 1 ELSE 0
                          /\ refs[b] \in Int /\ CtxRef(b) \in Int
      BY <1>1, <2>1, <2>2 DEF IInv, TypeOK, TakeAppsrc, CtxRef, LocalRef, Holding
    <3> QED
      BY <3>1, RefsStep DEF IInv, TakeAppsrc
  <2>7. ASSUME NEW f \in Frame, Passed(f)
        PROVE  Passed(f)'
    <3>1. f.src = bin => f.pts < rtsp_pts /\ Before(f, frame)'
      BY <1>1, <2>1, <2>2, <2>7
         DEF Passed, Before, IInv, FlowInv, TakeAppsrc, Frame, NoBin
    <3> QED
      BY <1>1, <2>1, <2>2, <2>7, <3>1 DEF Passed, Holding, TakeAppsrc, Frame
  <2>8. FlowInv'
    BY <1>1, <1>2, <2>1, <2>2, <2>7
       DEF IInv, TakeAppsrc, FlowInv, OnFrame, Holding, Before
  <2>9. StampInv'
    BY <1>2, <2>1 DEF IInv, TakeAppsrc, StampInv, OnFrame, Holding, SeiBelongsToFrame
  <2> QED
    BY <2>4, <2>5, <2>6, <2>8, <2>9 DEF IInv
<1> QED
  BY <1>3, <1>4

\* When the capture thread lets go of its frame, no other frame changes its place.
LEMMA LetGo ==
  ASSUME IInv, cpc' = "idle", frame' = NoFrame,
         UNCHANGED <<frames, rtsp_pts, video_seq, bin, inflight, out>>
  PROVE  FlowInv'
<1>1. Flow' = Flow
  BY DEF Flow
<1>2. \A f : Passed(f) => Passed(f)'
  BY DEF Passed, Holding
<1> QED
  BY <1>1, <1>2 DEF IInv, FlowInv, OnFrame, Holding, Before

LEMMA BufferFailsKeepsIInv == IInv /\ BufferFails => IInv'
<1> SUFFICES ASSUME IInv, BufferFails PROVE IInv'
  OBVIOUS
<1> USE DEF rtsp, pipelines
<1>1. /\ frame.src \in Bins /\ frame.src \in 0..MaxBins
      /\ refs' = Released(frame.src) /\ refs' \in [Bins -> Int]
      /\ \A b \in Bins : refs'[b] = refs[b] - (IF b = frame.src THEN 1 ELSE 0)
  <2>1. frame.src \in Bins /\ frame.src \in 0..MaxBins
    BY ConstantsAssumption DEF BufferFails, IInv, TypeOK, CounterInv, Holding, Bins
  <2> QED
    BY <2>1, ReleasedRefs DEF BufferFails, UnrefLocal, IInv
<1>2. TypeOK'
  BY <1>1, FrameZero DEF IInv, TypeOK, BufferFails
<1>3. FlowInv'
  BY LetGo DEF BufferFails
<1>4. CounterInv' /\ BinInv'
  BY DEF IInv, TypeOK, BufferFails, CounterInv, BinInv, Holding, NoFrame
<1>5. RefsInv'
  <2>1. \A b \in Bins : /\ CtxRef(b)' = CtxRef(b) /\ LocalRef(b)' = 0
                        /\ LocalRef(b) = IF b = frame.src THEN 1 ELSE 0
                        /\ refs[b] \in Int /\ CtxRef(b) \in Int
    BY DEF IInv, TypeOK, BufferFails, CtxRef, LocalRef, Holding
  <2> QED
    BY <1>1, <2>1, RefsStep DEF IInv, BufferFails
<1>6. StampInv'
  BY DEF IInv, BufferFails, StampInv, OnFrame, Holding, Flow, SeiBelongsToFrame
<1> QED
  BY <1>2, <1>3, <1>4, <1>5, <1>6 DEF IInv

LEMMA RegisterKeepsIInv == IInv /\ RegisterVideoTimestamp => IInv'
<1> SUFFICES ASSUME IInv, RegisterVideoTimestamp PROVE IInv'
  OBVIOUS
<1> USE DEF rtsp, pipelines
<1> DEFINE k == frame.src = bin /\ status[bin] # "installed"
<1>1. /\ cpc = "register" /\ cpc' = "push" /\ frame' = [frame EXCEPT !.kept = k]
      /\ k \in BOOLEAN
  BY DEF RegisterVideoTimestamp
<1>2. /\ frame'.id = frame.id /\ frame'.seq = frame.seq /\ frame'.pts = frame.pts
      /\ frame'.src = frame.src /\ frame' \in Frame
  BY <1>1 DEF IInv, TypeOK, Frame
<1> HIDE DEF k
<1>3. StampOf(frame) \in Stamp /\ frame.pts \in 0..MaxFrames
  BY <1>1, ConstantsAssumption DEF IInv, TypeOK, CounterInv, Frame, Stamp, StampOf
<1>4. /\ DOMAIN video_ts_map' \subseteq DOMAIN video_ts_map \cup {frame.pts}
      /\ video_ts_map' \in [DOMAIN video_ts_map' -> Stamp]
      /\ Cardinality(DOMAIN video_ts_map') <= MaxMap
      /\ \A q \in DOMAIN video_ts_map' :
            video_ts_map'[q] = IF q = frame.pts THEN StampOf(frame) ELSE video_ts_map[q]
  BY <1>3, RegisteredMap DEF RegisterVideoTimestamp, IInv, TypeOK
<1>5. TypeOK'
  BY <1>1, <1>2, <1>3, <1>4 DEF IInv, TypeOK, RegisterVideoTimestamp
<1>6. CounterInv' /\ BinInv'
  BY <1>1, <1>2 DEF IInv, RegisterVideoTimestamp, CounterInv, BinInv, Holding
<1>7. RefsInv'
  BY <1>1, <1>2
     DEF IInv, RegisterVideoTimestamp, RefsInv, OwnRefs, CtxRef, LocalRef, Holding
<1>8. Flow' = Flow /\ out' = out
  BY DEF Flow, RegisterVideoTimestamp
<1>9. \A f : Passed(f) => Passed(f)'
  BY <1>1, <1>2 DEF Passed, Before, Holding, RegisterVideoTimestamp
<1>10. FlowInv'
  BY <1>1, <1>2, <1>8, <1>9
     DEF IInv, RegisterVideoTimestamp, FlowInv, OnFrame, Holding, Before
<1>11. ASSUME NEW i \in 1..Len(Flow)
       PROVE  Flow[i].pts # frame.pts
  <2>1. Flow[i].src = bin /\ bin # 0 /\ Passed(Flow[i])
    BY DEF IInv, FlowInv, Flow
  <2>2. Flow[i].pts < frame.pts
    BY <1>1, <2>1 DEF Passed, Before, Holding
  <2>3. Flow[i] \in Frame
    BY FlowTyped DEF IInv
  <2> QED
    BY <1>3, <2>2, <2>3 DEF Frame
<1>12. StampInv'
  BY <1>1, <1>2, <1>4, <1>8, <1>11
     DEF IInv, RegisterVideoTimestamp, StampInv, OnFrame, Holding, StampOf,
         SeiBelongsToFrame
<1> QED
  BY <1>5, <1>6, <1>7, <1>10, <1>12 DEF IInv

LEMMA PushKeepsIInv == IInv /\ PushBuffer => IInv'
<1> SUFFICES ASSUME IInv, PushBuffer PROVE IInv'
  OBVIOUS
<1> USE DEF rtsp, pipelines
<1>1. /\ cpc = "push" /\ cpc' = "idle" /\ frame' = NoFrame /\ OnFrame <=> frame.src = bin
      /\ frame \in Frame /\ frame.src \in Bins /\ frame.src \in 1..bin /\ bin \in Bins
      /\ frame.id = frames /\ frame.id >= 1 /\ frame.seq >= 1 /\ frame.src \in 0..MaxBins
  BY SMTT(40), ConstantsAssumption
     DEF PushBuffer, IInv, TypeOK, CounterInv, Holding, Bins, OnFrame
<1>2. /\ refs' = Released(frame.src) /\ refs' \in [Bins -> Int]
      /\ \A b \in Bins : refs'[b] = refs[b] - (IF b = frame.src THEN 1 ELSE 0)
  BY <1>1, ReleasedRefs DEF PushBuffer, UnrefLocal, IInv
<1>3. inflight' = [inflight EXCEPT ![frame.src] = Append(inflight[frame.src], frame)]
  BY DEF PushBuffer, Pushed
<1>4. TypeOK'
  <2>1. inflight' \in [Bins -> Seq(Frame)]
    BY <1>1, <1>3 DEF IInv, TypeOK
  <2> QED
    BY <1>1, <1>2, <2>1, FrameZero DEF IInv, TypeOK, PushBuffer
<1>5. CounterInv' /\ BinInv'
  <2>1. CounterInv'
    BY <1>1 DEF IInv, PushBuffer, CounterInv, Holding, NoFrame
  <2>2. \A b \in Bins : b > bin => inflight'[b] = inflight[b]
    BY <1>1, <1>3 DEF IInv, TypeOK, Bins
  <2>3. BinInv'
    BY <2>2 DEF IInv, PushBuffer, BinInv
  <2> QED
    BY <2>1, <2>3
<1>6. RefsInv'
  <2>1. \A b \in Bins : /\ CtxRef(b)' = CtxRef(b) /\ LocalRef(b)' = 0
                        /\ LocalRef(b) = IF b = frame.src THEN 1 ELSE 0
                        /\ refs[b] \in Int /\ CtxRef(b) \in Int
    BY <1>1 DEF IInv, TypeOK, PushBuffer, CtxRef, LocalRef, Holding
  <2> QED
    BY <1>2, <2>1, RefsStep DEF IInv, PushBuffer
<1>7. \A f : Passed(f) => Passed(f)'
  BY <1>1 DEF Passed, Holding, PushBuffer
<1>8. CASE frame.src # bin
  <2>1. Flow' = Flow /\ out' = out
    BY <1>1, <1>3, <1>8 DEF Flow, PushBuffer, IInv, TypeOK
  <2>2. FlowInv'
    BY <1>1, <1>7, <2>1 DEF IInv, PushBuffer, FlowInv, OnFrame, Holding, Before
  <2>3. StampInv'
    BY <1>1, <2>1 DEF IInv, PushBuffer, StampInv, OnFrame, Holding, SeiBelongsToFrame
  <2> QED
    BY <1>4, <1>5, <1>6, <2>2, <2>3 DEF IInv
<1>9. CASE frame.src = bin
  <2> DEFINE n == Len(Flow)
  <2>0. PICK f \in Frame : f = frame
    BY <1>1
  <2>1. /\ Flow \in Seq(Frame) /\ Flow' = Append(Flow, f) /\ out' = out
        /\ n \in Nat /\ Len(Flow') = n + 1 /\ Flow'[n + 1] = f
        /\ \A i \in 1..n : Flow'[i] = Flow[i]
    BY <1>1, <1>3, <1>9, <2>0, FlowTyped DEF Flow, PushBuffer, IInv, TypeOK, Bins
  <2> HIDE DEF n
  <2>2. \A i \in 1..(n + 1) : i \in 1..n \/ i = n + 1
    BY <2>1
  <2>3. /\ Passed(f)' /\ Passed(out.frame)' /\ out.frame.src <= bin
        /\ f.src = bin /\ f.id >= 1 /\ f.seq >= 1
    <3>1. f.id = frames /\ frames \in Nat /\ f.pts < rtsp_pts
      BY <1>1, <1>9, <2>0 DEF IInv, TypeOK, FlowInv
    <3>2. f.pts > 0 => f.seq = video_seq /\ video_seq \in Nat
      BY <1>1, <1>9, <2>0 DEF IInv, TypeOK, FlowInv
    <3>3. Passed(f)'
      BY <1>1, <3>1, <3>2 DEF Passed, Holding, PushBuffer
    <3> QED
      BY <1>1, <1>7, <1>9, <2>0, <2>1, <3>3 DEF IInv, FlowInv
  <2>4. /\ Before(out.frame, f)
        /\ \A i \in 1..n : Before(Flow[i], f)
    <3>1. \A g \in Frame : Passed(g) /\ g.src = bin => Before(g, f)
      BY <1>1, <1>9, <2>0 DEF Passed, Holding, Bins
    <3>2. Passed(out.frame) /\ out.frame \in Frame
      BY DEF IInv, TypeOK, FlowInv
    <3>3. out.frame.src # bin => Before(out.frame, f)
      BY <1>1, <1>9, <2>0, <3>2 DEF Passed, Before
    <3>4. ASSUME NEW i \in 1..n
          PROVE  Before(Flow[i], f)
      BY <2>1, <3>1 DEF n, IInv, FlowInv
    <3> QED
      BY <3>1, <3>2, <3>3, <3>4
  <2>5. ASSUME NEW i \in 1..(n + 1)
        PROVE  /\ Passed(Flow[i])'
               /\ Flow'[i].src = bin /\ Flow'[i].id >= 1 /\ Flow'[i].seq >= 1
               /\ Before(out.frame, Flow'[i])
    <3>1. CASE i \in 1..n
      BY <1>7, <2>1, <3>1 DEF n, IInv, FlowInv
    <3>2. CASE i = n + 1
      BY <2>1, <2>3, <2>4, <3>2
    <3> QED
      BY <2>2, <3>1, <3>2
  <2>6. ASSUME NEW i \in 1..(n + 1), NEW j \in 1..(n + 1), i < j
        PROVE  Before(Flow'[i], Flow'[j])
    <3>1. i \in 1..n
      BY <2>1, <2>6
    <3>2. CASE j \in 1..n
      BY <2>1, <2>6, <3>1, <3>2 DEF n, IInv, FlowInv
    <3>3. CASE j = n + 1
      BY <2>1, <2>4, <3>1, <3>3
    <3> QED
      BY <2>2, <3>2, <3>3
  <2>7. FlowInv'
    <3>1. bin' = bin /\ cpc' = "idle"
      BY <1>1 DEF PushBuffer
    <3> QED
      BY <2>1, <2>3, <2>5, <2>6, <3>1 DEF FlowInv, OnFrame, Holding, Before
  <2>8. \A i \in 1..Len(Flow') :
           Flow'[i].pts \in DOMAIN video_ts_map
              => video_ts_map[Flow'[i].pts] = StampOf(Flow'[i])
    BY <1>1, <1>9, <2>0, <2>1, <2>2 DEF n, IInv, StampInv
  <2>9. StampInv'
    BY <1>1, <2>1, <2>8 DEF IInv, PushBuffer, StampInv, OnFrame, Holding, StampOf,
                            SeiBelongsToFrame
  <2> QED
    BY <1>4, <1>5, <1>6, <2>7, <2>9 DEF IInv
<1> QED
  BY <1>8, <1>9

LEMMA RefusedKeepsIInv == IInv /\ PushRefused => IInv'
<1> SUFFICES ASSUME IInv, PushRefused PROVE IInv'
  OBVIOUS
<1> USE DEF rtsp, pipelines
<1>1. /\ DOMAIN video_ts_map' \subseteq DOMAIN video_ts_map
      /\ video_ts_map' \in [DOMAIN video_ts_map' -> Stamp]
      /\ Cardinality(DOMAIN video_ts_map') <= MaxMap
      /\ \A q \in DOMAIN video_ts_map' : video_ts_map'[q] = video_ts_map[q]
  <2>1. /\ DOMAIN video_ts_map \subseteq 0..MaxFrames
        /\ video_ts_map \in [DOMAIN video_ts_map -> Stamp]
        /\ Cardinality(DOMAIN video_ts_map) <= MaxMap
    BY DEF IInv, TypeOK
  <2>2. video_ts_map' = Erased(video_ts_map, frame.pts)
    BY DEF PushRefused
  <2>3. /\ DOMAIN video_ts_map' = DOMAIN video_ts_map \ {frame.pts}
        /\ video_ts_map' \in [DOMAIN video_ts_map' -> Stamp]
        /\ Cardinality(DOMAIN video_ts_map') <= MaxMap
        /\ \A q \in DOMAIN video_ts_map' : video_ts_map'[q] = video_ts_map[q]
    BY <2>1, <2>2, ErasedMap
  <2> QED
    BY <2>3
<1>2. cpc = "push" /\ cpc' = "detach" /\ Flow' = Flow /\ out' = out /\ frame' = frame
  BY DEF PushRefused, Flow
<1>3. TypeOK'
  BY <1>1, <1>2 DEF IInv, TypeOK, PushRefused
<1>4. CounterInv' /\ BinInv'
  BY <1>2 DEF IInv, PushRefused, CounterInv, BinInv, Holding, Flushing
<1>5. RefsInv'
  BY <1>2 DEF IInv, PushRefused, RefsInv, OwnRefs, CtxRef, LocalRef, Holding
<1>6. \A f : Passed(f) => Passed(f)'
  BY <1>2 DEF Passed, Before, Holding, PushRefused
<1>7. FlowInv'
  BY <1>2, <1>6 DEF IInv, PushRefused, FlowInv, OnFrame, Holding, Before
<1>8. StampInv'
  BY <1>1, <1>2
     DEF IInv, PushRefused, StampInv, OnFrame, Holding, StampOf, SeiBelongsToFrame
<1> QED
  BY <1>3, <1>4, <1>5, <1>7, <1>8 DEF IInv

LEMMA DetachKeepsIInv == IInv /\ Detach => IInv'
<1> SUFFICES ASSUME IInv, Detach PROVE IInv'
  OBVIOUS
<1> USE DEF rtsp, pipelines
<1>1. appsrc' \in 0..MaxBins /\ refs' \in [Bins -> Int]
  BY FrameZero DEF IInv, TypeOK, Detach, NoBin
<1>2. TypeOK'
  BY <1>1, FrameZero DEF IInv, TypeOK, Detach
<1>3. FlowInv'
  BY LetGo DEF Detach
<1>4. CounterInv' /\ BinInv'
  BY DEF IInv, Detach, CounterInv, BinInv, Holding, NoFrame
<1>5. RefsInv'
  <2>1. \A b \in Bins : /\ CtxRef(b)' = 0 /\ LocalRef(b)' = 0
                        /\ CtxRef(b) = IF b = appsrc THEN 1 ELSE 0
                        /\ LocalRef(b) = IF b = frame.src THEN 1 ELSE 0
                        /\ refs[b] \in Int
                        /\ refs'[b] = refs[b] - (IF b = appsrc THEN 1 ELSE 0)
                                              - (IF b = frame.src THEN 1 ELSE 0)
    BY DEF IInv, TypeOK, Detach, CtxRef, LocalRef, Holding, Bins, NoBin
  <2> QED
    BY <2>1, RefsStep DEF IInv, Detach
<1>6. StampInv'
  BY DEF IInv, Detach, StampInv, OnFrame, Holding, Flow, SeiBelongsToFrame
<1> QED
  BY <1>2, <1>3, <1>4, <1>5, <1>6 DEF IInv

-----------------------------------------------------------------------------
(* The steps that begin and end a pipeline. *)

LEMMA InstallKeepsIInv == IInv /\ InstallAppsrc => IInv'
<1> SUFFICES ASSUME IInv, InstallAppsrc PROVE IInv'
  OBVIOUS
<1> USE DEF rtsp, pipelines
<1> DEFINE new == bin + 1
<1>1. /\ bin \in Nat /\ new \in Bins /\ new \in 0..MaxBins /\ new > bin /\ new # 0
      /\ \A b \in Bins : b \in Nat
      /\ bin' = new /\ appsrc' = new /\ rtsp_pts' = 0 /\ video_seq' = 0
      /\ status' = [status EXCEPT ![new] = "installed"]
      /\ refs' = [Released(appsrc) EXCEPT ![new] = 2]
  BY ConstantsAssumption DEF IInv, TypeOK, InstallAppsrc, ResetNumbering, Bins
<1>2. /\ Released(appsrc) \in [Bins -> Int]
      /\ \A b \in Bins : Released(appsrc)[b] = refs[b] - (IF b = appsrc THEN 1 ELSE 0)
  BY ReleasedRefs DEF IInv, TypeOK
<1>3. status[new] = "none" /\ inflight[new] = <<>>
  BY <1>1 DEF IInv, BinInv
<1>4. \A b \in Bins : /\ b # new => status'[b] = status[b]
                      /\ b = new => status'[b] = "installed"
  BY <1>1 DEF IInv, TypeOK
<1>5. \A b \in Bins : b < bin \/ b = bin \/ b = new \/ b > new
  BY <1>1
<1>6. Flow' = <<>> /\ Len(Flow') = 0 /\ out' = out /\ frame' = frame /\ cpc' = cpc
  BY <1>1, <1>3 DEF Flow, InstallAppsrc
<1>7. bin # 0 => status[bin] \in {"failed", "gone"}
  <2>1. bin # 0 => bin \in Bins
    BY ConstantsAssumption DEF IInv, TypeOK, Bins
  <2> QED
    BY <1>1, <2>1 DEF IInv, TypeOK, BinInv, InstallAppsrc, Creating, Live
<1> HIDE DEF new
<1>8. TypeOK'
  <2>1. refs' \in [Bins -> Int]
    BY <1>1, <1>2
  <2>2. status' \in [Bins -> {"none", "installed", "building", "ready", "playing",
                             "failed", "gone"}]
    BY <1>1 DEF IInv, TypeOK
  <2> QED
    BY <1>1, <2>1, <2>2, FrameZero DEF IInv, TypeOK, InstallAppsrc
<1>9. CounterInv'
  <2>1. Holding => frame.src \in 1..bin /\ frame.src \in 1..new /\ frame.src \in Bins
                   /\ frame.src # new
    BY SMTT(40), <1>1, ConstantsAssumption DEF IInv, TypeOK, CounterInv, Bins
  <2>2. 0 + (IF cpc = "lock" THEN 1 ELSE 0) <= frames /\ 0 <= frames
    BY DEF IInv, TypeOK, CounterInv
  <2> QED
    BY <1>1, <1>4, <1>6, <2>1, <2>2 DEF IInv, InstallAppsrc, CounterInv, Holding
<1>10. BinInv'
  <2> SUFFICES ASSUME NEW b \in Bins
               PROVE  /\ b > new => status'[b] = "none" /\ inflight[b] = <<>>
                      /\ b < new => status'[b] \in {"failed", "gone"}
                      /\ b = new => status'[b] # "none"
    BY <1>1 DEF BinInv, InstallAppsrc
  <2>1. b \in Nat /\ b # 0 /\ (b > new => b > bin) /\ (b < new => b < bin \/ b = bin)
    BY <1>1 DEF new, Bins
  <2>2. b = bin => status[b] \in {"failed", "gone"}
    BY <1>7, <2>1
  <2> QED
    BY <1>1, <1>4, <2>1, <2>2 DEF IInv, BinInv
<1>11. RefsInv'
  <2> SUFFICES ASSUME NEW b \in Bins
               PROVE  \E own \in OwnRefs(b)' : refs'[b] = own + CtxRef(b)' + LocalRef(b)'
    BY DEF RefsInv
  <2>1. CASE b = new
    <3>1. OwnRefs(b)' = {1} /\ CtxRef(b)' = 1 /\ refs'[b] = 2
      BY <1>1, <1>2, <1>4, <2>1 DEF OwnRefs, CtxRef
    <3>2. LocalRef(b)' = 0
      BY <1>1, <1>6, <2>1 DEF IInv, CounterInv, LocalRef, Holding
    <3> QED
      BY <3>1, <3>2
  <2>2. CASE b # new
    <3>1. PICK own \in OwnRefs(b) : refs[b] = own + CtxRef(b) + LocalRef(b)
      BY DEF IInv, RefsInv
    <3>2. OwnRefs(b)' = OwnRefs(b) /\ own \in {0, 1}
      BY <1>4, <2>2, <3>1 DEF OwnRefs
    <3>3. CtxRef(b)' = 0 /\ LocalRef(b)' = LocalRef(b) /\ LocalRef(b) \in {0, 1}
      BY <1>1, <1>6, <2>2 DEF CtxRef, LocalRef, Holding
    <3>4. refs'[b] = refs[b] - CtxRef(b) /\ CtxRef(b) \in {0, 1} /\ refs[b] \in Int
      BY <1>1, <1>2, <2>2 DEF CtxRef, IInv, TypeOK
    <3> QED
      BY <3>1, <3>2, <3>3, <3>4
  <2> QED
    BY <2>1, <2>2
<1>12. FlowInv'
  <2>1. out.frame.src <= bin /\ out.frame.src \in Nat /\ Passed(out.frame)
    BY DEF IInv, TypeOK, FlowInv, Frame
  <2>2. Passed(out.frame)' /\ out.frame.src <= new
    BY <1>1, <1>6, <2>1 DEF Passed, InstallAppsrc
  <2>3. Holding => frame.src # new
    BY <1>1 DEF IInv, CounterInv
  <2> QED
    BY <1>1, <1>6, <2>2, <2>3 DEF FlowInv, OnFrame, Holding
<1>13. StampInv'
  <2>1. Holding => frame.src # new
    BY <1>1 DEF IInv, CounterInv
  <2> QED
    BY <1>1, <1>6, <2>1 DEF IInv, StampInv, OnFrame, Holding, SeiBelongsToFrame
<1> QED
  BY <1>8, <1>9, <1>10, <1>11, <1>12, <1>13 DEF IInv

LEMMA TearDownKeepsIInv == IInv /\ TearDown => IInv'
<1> SUFFICES ASSUME IInv, TearDown PROVE IInv'
  OBVIOUS
<1> USE DEF rtsp, pipelines
<1>1. bin \in Bins /\ bin # 0 /\ bin \in 0..MaxBins
  BY ConstantsAssumption DEF IInv, TypeOK, Bins, TearDown, Live
<1>2. /\ refs' \in [Bins -> Int]
      /\ \A b \in Bins : refs'[b] = refs[b] - (IF b = bin THEN 1 ELSE 0)
  BY <1>1, ReleasedRefs DEF IInv, TearDown
<1>3. /\ status' = [status EXCEPT ![bin] = "gone"]
      /\ inflight' = [inflight EXCEPT ![bin] = <<>>]
      /\ status[bin] \in {"ready", "playing"}
      /\ Flow' = <<>> /\ Len(Flow') = 0 /\ out' = out /\ frame' = frame /\ cpc' = cpc
  BY <1>1 DEF IInv, TypeOK, TearDown, Live, Flow
<1>4. TypeOK'
  <2>1. inflight' \in [Bins -> Seq(Frame)] /\ <<>> \in Seq(Frame)
    BY <1>1, <1>3 DEF IInv, TypeOK
  <2>2. status' \in [Bins -> {"none", "installed", "building", "ready", "playing",
                             "failed", "gone"}]
    BY <1>3 DEF IInv, TypeOK
  <2> QED
    BY <1>2, <2>1, <2>2 DEF IInv, TypeOK, TearDown
<1>5. CounterInv' /\ BinInv'
  BY <1>1, <1>3 DEF IInv, TypeOK, TearDown, CounterInv, BinInv, Holding, Bins
<1>6. RefsInv'
  <2> SUFFICES ASSUME NEW b \in Bins
               PROVE  \E own \in OwnRefs(b)' : refs'[b] = own + CtxRef(b)' + LocalRef(b)'
    BY DEF RefsInv
  <2>1. PICK own \in OwnRefs(b) : refs[b] = own + CtxRef(b) + LocalRef(b)
    BY DEF IInv, RefsInv
  <2>2. /\ CtxRef(b)' = CtxRef(b) /\ LocalRef(b)' = LocalRef(b)
        /\ CtxRef(b) \in {0, 1} /\ LocalRef(b) \in {0, 1}
    BY <1>3 DEF TearDown, CtxRef, LocalRef, Holding
  <2>3. CASE b = bin
    <3>1. own = 1 /\ 0 \in OwnRefs(b)'
      BY <1>1, <1>3, <2>1, <2>3 DEF OwnRefs, IInv, TypeOK
    <3> QED
      BY <1>2, <2>1, <2>2, <2>3, <3>1
  <2>4. CASE b # bin
    <3>1. OwnRefs(b)' = OwnRefs(b)
      BY <1>1, <1>3, <2>4 DEF OwnRefs, IInv, TypeOK
    <3>2. refs'[b] = refs[b]
      BY <1>2, <2>4 DEF IInv, TypeOK
    <3> QED
      BY <2>1, <2>2, <3>1, <3>2
  <2> QED
    BY <2>3, <2>4
<1>7. FlowInv'
  <2>1. \A f : Passed(f) => Passed(f)'
    BY <1>3 DEF Passed, Before, Holding, TearDown
  <2> QED
    BY <1>3, <2>1 DEF IInv, TearDown, FlowInv, OnFrame, Holding
<1>8. StampInv'
  BY <1>3 DEF IInv, TearDown, StampInv, OnFrame, Holding, StampOf, SeiBelongsToFrame
<1> QED
  BY <1>4, <1>5, <1>6, <1>7, <1>8 DEF IInv

-----------------------------------------------------------------------------
(* The steps of the streaming thread. *)

\* The frame at the head leaves the pipeline; the others move up.
LEMMA HeadLeaves ==
  ASSUME IInv, Encoding, inflight' = [inflight EXCEPT ![bin] = Tail(@)], bin' = bin
  PROVE  /\ bin \in Bins /\ bin # 0 /\ inflight' \in [Bins -> Seq(Frame)]
         /\ Flow \in Seq(Frame) /\ Head(inflight[bin]) = Flow[1]
         /\ Len(Flow) \in Nat \ {0} /\ Flow[1] \in Frame
         /\ Len(Flow') = Len(Flow) - 1
         /\ \A i \in 1..Len(Flow') : /\ i \in 1..Len(Flow) /\ i + 1 \in 1..Len(Flow)
                                     /\ 1 < i + 1 /\ Flow'[i] = Flow[i + 1]
         /\ \A b \in Bins : b # bin => inflight'[b] = inflight[b]
<1>1. bin \in Bins /\ bin # 0 /\ inflight \in [Bins -> Seq(Frame)]
      /\ inflight[bin] \in Seq(Frame) /\ inflight[bin] # <<>>
  BY ConstantsAssumption DEF IInv, TypeOK, Bins, Encoding
<1> DEFINE q == inflight[bin]
<1>2. /\ Tail(q) \in Seq(Frame) /\ Len(Tail(q)) = Len(q) - 1 /\ Len(q) \in Nat \ {0}
      /\ \A i \in 1..(Len(q) - 1) : Tail(q)[i] = q[i + 1]
      /\ Head(q) = q[1] /\ q[1] \in Frame
  BY <1>1
<1>3. Flow = q /\ Flow' = Tail(q) /\ inflight' \in [Bins -> Seq(Frame)]
  BY <1>1, <1>2 DEF Flow
<1>4. \A b \in Bins : b # bin => inflight'[b] = inflight[b]
  BY <1>1
<1> HIDE DEF q
<1>5. \A i \in 1..(Len(q) - 1) : i \in 1..Len(q) /\ i + 1 \in 1..Len(q) /\ 1 < i + 1
  BY <1>2
<1> QED
  BY <1>1, <1>2, <1>3, <1>4, <1>5 DEF q

LEMMA DropsKeepsIInv == IInv /\ EncoderDrops => IInv'
<1> SUFFICES ASSUME IInv, EncoderDrops PROVE IInv'
  OBVIOUS
<1> USE DEF rtsp, pipelines
<1>1. /\ bin \in Bins /\ inflight' \in [Bins -> Seq(Frame)]
      /\ \A i \in 1..Len(Flow') : /\ i \in 1..Len(Flow) /\ i + 1 \in 1..Len(Flow)
                                  /\ Flow'[i] = Flow[i + 1]
      /\ \A b \in Bins : b # bin => inflight'[b] = inflight[b]
  BY HeadLeaves DEF EncoderDrops
<1>2. TypeOK'
  BY <1>1 DEF IInv, TypeOK, EncoderDrops
<1>3. CounterInv' /\ RefsInv'
  BY DEF IInv, EncoderDrops, CounterInv, RefsInv, OwnRefs, CtxRef, LocalRef, Holding
<1>4. BinInv'
  BY <1>1 DEF IInv, EncoderDrops, BinInv, Bins
<1>5. \A f : Passed(f) => Passed(f)'
  BY DEF Passed, Before, Holding, EncoderDrops
<1>6. \A i, j \in 1..Len(Flow') : i < j => Before(Flow'[i], Flow'[j])
  <2> SUFFICES ASSUME NEW i \in 1..Len(Flow'), NEW j \in 1..Len(Flow'), i < j
               PROVE  Before(Flow'[i], Flow'[j])
    OBVIOUS
  <2>1. i + 1 < j + 1
    OBVIOUS
  <2> QED
    BY <1>1, <2>1 DEF IInv, FlowInv
<1>7. FlowInv'
  <2>1. Passed(out.frame)' /\ out.frame.src <= bin /\ out' = out
    BY <1>5 DEF IInv, FlowInv, EncoderDrops
  <2>2. \A i \in 1..Len(Flow') :
           /\ Passed(Flow[i])'
           /\ Flow'[i].src = bin /\ Flow'[i].id >= 1 /\ Flow'[i].seq >= 1
           /\ Before(out.frame, Flow'[i])
    BY <1>1, <1>5 DEF IInv, FlowInv
  <2> QED
    BY <1>6, <2>1, <2>2 DEF IInv, EncoderDrops, FlowInv, OnFrame, Holding, Before
<1>8. StampInv'
  BY <1>1 DEF IInv, EncoderDrops, StampInv, OnFrame, Holding, StampOf, SeiBelongsToFrame
<1> QED
  BY <1>2, <1>3, <1>4, <1>7, <1>8 DEF IInv

\* The probe shows the frame at the head, with its own stamp or with none.
LEMMA ProbeShowsHead ==
  ASSUME IInv, H264SeiProbe
  PROVE  /\ out'.frame = Flow[1]
         /\ out'.sei \in {NoStamp, StampOf(out'.frame)} \cap (Stamp \cup {NoStamp})
<1>1. /\ Flow[1] = Head(inflight[bin]) /\ Flow[1] \in Frame /\ 1 \in 1..Len(Flow)
  BY HeadLeaves DEF H264SeiProbe, pipelines
<1>2. out'.frame = Flow[1]
      /\ out'.sei \in {NoStamp, Found(video_ts_map, Flow[1].pts)}
  BY <1>1 DEF H264SeiProbe
<1>3. Found(video_ts_map, Flow[1].pts)
         \in {NoStamp, StampOf(Flow[1])} \cap (Stamp \cup {NoStamp})
  BY <1>1 DEF Found, IInv, StampInv, TypeOK
<1> QED
  BY <1>2, <1>3

LEMMA ProbeKeepsIInv == IInv /\ H264SeiProbe => IInv'
<1> SUFFICES ASSUME IInv, H264SeiProbe PROVE IInv'
  OBVIOUS
<1> USE DEF rtsp, pipelines
<1>1. /\ bin \in Bins /\ bin # 0 /\ inflight' \in [Bins -> Seq(Frame)]
      /\ 1 \in 1..Len(Flow) /\ Flow[1] \in Frame
      /\ \A i \in 1..Len(Flow') : /\ i \in 1..Len(Flow) /\ i + 1 \in 1..Len(Flow)
                                  /\ 1 < i + 1 /\ Flow'[i] = Flow[i + 1]
      /\ \A b \in Bins : b # bin => inflight'[b] = inflight[b]
  BY HeadLeaves DEF H264SeiProbe
<1>2. /\ out'.frame = Flow[1]
      /\ out'.sei \in {NoStamp, StampOf(out'.frame)} \cap (Stamp \cup {NoStamp})
  BY ProbeShowsHead
<1>3. /\ DOMAIN video_ts_map' \subseteq DOMAIN video_ts_map
      /\ video_ts_map' \in [DOMAIN video_ts_map' -> Stamp]
      /\ Cardinality(DOMAIN video_ts_map') <= MaxMap
      /\ \A q \in DOMAIN video_ts_map' : video_ts_map'[q] = video_ts_map[q]
  <2> DEFINE p == Head(inflight[bin]).pts
  <2>1. /\ DOMAIN video_ts_map \subseteq 0..MaxFrames
        /\ video_ts_map \in [DOMAIN video_ts_map -> Stamp]
        /\ Cardinality(DOMAIN video_ts_map) <= MaxMap
    BY DEF IInv, TypeOK
  <2>2. video_ts_map' = Erased(video_ts_map, p)
    BY DEF H264SeiProbe
  <2> HIDE DEF p
  <2>3. /\ DOMAIN video_ts_map' = DOMAIN video_ts_map \ {p}
        /\ video_ts_map' \in [DOMAIN video_ts_map' -> Stamp]
        /\ Cardinality(DOMAIN video_ts_map') <= MaxMap
        /\ \A q \in DOMAIN video_ts_map' : video_ts_map'[q] = video_ts_map[q]
    BY <2>1, <2>2, ErasedMap
  <2> QED
    BY <2>3
<1>4. TypeOK'
  BY <1>1, <1>2, <1>3 DEF IInv, TypeOK, H264SeiProbe
<1>5. CounterInv' /\ RefsInv'
  BY DEF IInv, H264SeiProbe, CounterInv, RefsInv, OwnRefs, CtxRef, LocalRef, Holding
<1>6. BinInv'
  BY <1>1 DEF IInv, H264SeiProbe, BinInv, Bins
<1>7. \A f : Passed(f) => Passed(f)'
  BY DEF Passed, Before, Holding, H264SeiProbe
<1>8. \A i, j \in 1..Len(Flow') : i < j => Before(Flow'[i], Flow'[j])
  <2> SUFFICES ASSUME NEW i \in 1..Len(Flow'), NEW j \in 1..Len(Flow'), i < j
               PROVE  Before(Flow'[i], Flow'[j])
    OBVIOUS
  <2>1. i + 1 < j + 1
    OBVIOUS
  <2> QED
    BY <1>1, <2>1 DEF IInv, FlowInv
<1>9. FlowInv'
  <2>1. Passed(out.frame)' /\ out'.frame.src <= bin
    BY <1>1, <1>2, <1>7 DEF IInv, FlowInv, TypeOK
  <2>2. \A i \in 1..Len(Flow') :
           /\ Passed(Flow[i])'
           /\ Flow'[i].src = bin /\ Flow'[i].id >= 1 /\ Flow'[i].seq >= 1
           /\ Before(out'.frame, Flow'[i])
    BY <1>1, <1>2, <1>7 DEF IInv, FlowInv
  <2> QED
    BY <1>8, <2>1, <2>2 DEF IInv, H264SeiProbe, FlowInv, OnFrame, Holding, Before
<1>10. StampInv'
  <2>1. SeiBelongsToFrame'
    BY <1>2 DEF SeiBelongsToFrame, StampOf
  <2>2. \A i \in 1..Len(Flow') :
           Flow'[i].pts \in DOMAIN video_ts_map'
              => video_ts_map'[Flow'[i].pts] = StampOf(Flow'[i])
    BY <1>1, <1>3 DEF IInv, StampInv
  <2>3. OnFrame /\ cpc = "push" /\ frame.pts \in DOMAIN video_ts_map'
          => video_ts_map'[frame.pts] = StampOf(frame)
    BY <1>3 DEF IInv, StampInv
  <2> QED
    BY <2>1, <2>2, <2>3 DEF H264SeiProbe, StampInv, OnFrame, Holding, StampOf
<1> QED
  BY <1>4, <1>5, <1>6, <1>9, <1>10 DEF IInv

-----------------------------------------------------------------------------
(* Every step. *)

LEMMA StutterKeepsIInv == IInv /\ UNCHANGED vars => IInv'
<1> SUFFICES ASSUME IInv, UNCHANGED vars PROVE IInv'
  OBVIOUS
<1> USE DEF vars, rtsp, pipelines
<1>1. TypeOK'
  BY DEF IInv, TypeOK
<1>2. FlowInv' /\ StampInv'
  BY FlowUnchanged, StampUnchanged DEF IInv
<1>3. CounterInv' /\ BinInv' /\ RefsInv'
  BY SMTT(40) DEF IInv, CounterInv, BinInv, RefsInv, OwnRefs, CtxRef, LocalRef, Holding
<1> QED
  BY <1>1, <1>2, <1>3 DEF IInv

LEMMA NextIInv == IInv /\ [Next]_vars => IInv'
  BY ClientKeepsIInv, TakeSeqKeepsIInv, TakeAppsrcKeepsIInv, BufferFailsKeepsIInv,
     RegisterKeepsIInv, PushKeepsIInv, RefusedKeepsIInv, DetachKeepsIInv,
     FailEarlyKeepsIInv, InstallKeepsIInv, CreateKeepsIInv, PlayKeepsIInv,
     TearDownKeepsIInv, DropsKeepsIInv, ProbeKeepsIInv, StutterKeepsIInv
     DEF Next, PushColorFrame

LEMMA SpecIInv == Spec => []IInv
  BY InitIInv, NextIInv, PTL DEF Spec

-----------------------------------------------------------------------------
(* The stamps that wait for their frames. *)

\* The stamp of a frame of the latest pipeline, or of one that was ahead of all these.
Known(p) == \/ \E i \in 1..Len(Flow) : p = Flow[i].pts
            \/ OnFrame /\ cpc = "push" /\ p = frame.pts
            \/ /\ p < rtsp_pts
               /\ OnFrame => p < frame.pts
               /\ \A i \in 1..Len(Flow) : p < Flow[i].pts

\* Once the map has been cleared for the latest pipeline, at most one other stamp comes
\* into it: that of a frame that was under way to an earlier pipeline.
KeyInv == bin # 0 /\ status[bin] # "installed" =>
    /\ \E x \in 0..MaxFrames : \A p \in DOMAIN video_ts_map : p = x \/ Known(p)
    /\ cpc = "register" /\ ~OnFrame => \A p \in DOMAIN video_ts_map : Known(p)

\* A frame of the latest pipeline that was registered after the clearing finds a stamp.
KeptInv ==
    /\ Len(Flow) <= Capacity
    /\ \A i \in 1..Len(Flow) : Flow[i].kept => Flow[i].pts \in DOMAIN video_ts_map
    /\ OnFrame /\ cpc = "push" /\ frame.kept => frame.pts \in DOMAIN video_ts_map
    /\ cpc \in {"lock", "register"} => ~frame.kept
    /\ bin # 0 /\ status[bin] = "installed" => /\ OnFrame => ~frame.kept
                                               /\ \A i \in 1..Len(Flow) : ~Flow[i].kept

WaitInv == KeyInv /\ KeptInv

\* The frames of the latest pipeline have their pts in order, below the one to come.
LEMMA FlowOrder ==
  ASSUME IInv
  PROVE  /\ Flow \in Seq(Frame) /\ Len(Flow) \in Nat
         /\ \A i \in 1..Len(Flow) :
               /\ bin # 0 /\ Flow[i] \in Frame /\ Flow[i].pts \in 0..MaxFrames
               /\ Flow[i].pts < rtsp_pts
               /\ Holding => OnFrame /\ Flow[i].pts < frame.pts
         /\ \A i, j \in 1..Len(Flow) : i < j => Flow[i].pts < Flow[j].pts
         /\ ~OnFrame /\ Holding => Len(Flow) = 0
<1>1. Flow \in Seq(Frame) /\ Len(Flow) \in Nat
  BY FlowTyped DEF IInv
<1>2. \A i \in 1..Len(Flow) : bin # 0 /\ Flow[i] \in Frame /\ Flow[i].pts \in 0..MaxFrames
  <2>1. bin # 0 \/ Len(Flow) = 0
    BY DEF Flow
  <2>2. \A i \in 1..Len(Flow) : Flow[i] \in Frame
    BY <1>1
  <2> QED
    BY <1>1, <2>1, <2>2 DEF Frame
<1>3. \A i \in 1..Len(Flow) : /\ Flow[i].pts < rtsp_pts
                              /\ Holding => OnFrame /\ Flow[i].pts < frame.pts
  BY <1>2 DEF IInv, FlowInv, Passed, Before, OnFrame
<1>4. \A i, j \in 1..Len(Flow) : i < j => Flow[i].pts < Flow[j].pts
  BY DEF IInv, FlowInv, Before
<1>5. ~OnFrame /\ Holding => Len(Flow) = 0
  <2>1. Len(Flow) = 0 \/ 1 \in 1..Len(Flow)
    BY <1>1
  <2> QED
    BY <1>3, <2>1
<1> QED
  BY <1>1, <1>2, <1>3, <1>4, <1>5

\* Which keys the map has after a registration.
LEMMA RegisteredKeys ==
  ASSUME NEW m, NEW p, NEW s
  PROVE  LET D == DOMAIN m \cup {p}
         IN  DOMAIN Registered(m, p, s) = IF Cardinality(D) > MaxMap
                                          THEN {q \in D : \E r \in D : r < q}
                                          ELSE D
<1> DEFINE D == DOMAIN m \cup {p}
           n == [q \in D |-> IF q = p THEN s ELSE m[q]]
<1>1. DOMAIN n = D
  OBVIOUS
<1>2. Registered(m, p, s) = Trimmed(n)
  BY DEF Registered
<1> HIDE DEF n, D
<1>3. DOMAIN Trimmed(n) = IF Cardinality(D) > MaxMap THEN {q \in D : \E r \in D : r < q} ELSE D
  BY <1>1 DEF Trimmed
<1> QED
  BY <1>2, <1>3 DEF D

\* The stamps of a full pipeline and two more fit in the map.
LEMMA FewKeys ==
  ASSUME NEW q \in Seq(Frame), Len(q) <= Capacity, NEW x, NEW y,
         NEW D, D \subseteq ({q[i].pts : i \in 1..Len(q)} \cup {x}) \cup {y}
  PROVE  ~(Cardinality(D) > MaxMap)
<1> DEFINE P == {q[i].pts : i \in 1..Len(q)}
           f == [i \in 1..Len(q) |-> q[i].pts]
<1>1. /\ MaxMap \in Nat /\ Capacity \in Nat /\ Capacity + 2 <= MaxMap /\ Len(q) \in Nat
  BY ConstantsAssumption
<1>2. IsFiniteSet(1..Len(q)) /\ Cardinality(1..Len(q)) = Len(q)
  <2>1. 1 \in Int /\ Len(q) \in Int
    BY <1>1
  <2>2. /\ IsFiniteSet(1..Len(q))
        /\ Cardinality(1..Len(q)) = IF 1 > Len(q) THEN 0 ELSE Len(q) - 1 + 1
    BY <2>1, FS_Interval
  <2>3. Len(q) = IF 1 > Len(q) THEN 0 ELSE Len(q) - 1 + 1
    BY <1>1
  <2> QED
    BY <2>2, <2>3
<1>3. f \in Surjection(1..Len(q), P)
  BY DEF Surjection
<1> HIDE DEF f, P
<1>4. IsFiniteSet(P) /\ Cardinality(P) <= Len(q)
  BY <1>2, <1>3, FS_Surjection
<1>5. IsFiniteSet(P \cup {x}) /\ Cardinality(P) \in Nat /\ Cardinality(P \cup {x}) \in Nat
      /\ Cardinality(P \cup {x}) <= Cardinality(P) + 1
  <2>1. /\ IsFiniteSet(P \cup {x})
        /\ Cardinality(P \cup {x}) = IF x \in P THEN Cardinality(P) ELSE Cardinality(P) + 1
    BY <1>4, FS_AddElement
  <2>2. Cardinality(P) \in Nat /\ Cardinality(P \cup {x}) \in Nat
    BY <1>4, <2>1, FS_CardinalityType
  <2> QED
    BY <2>1, <2>2
<1> DEFINE R == P \cup {x}
           E == R \cup {y}
<1>6. IsFiniteSet(R) /\ Cardinality(R) \in Nat /\ Cardinality(R) <= Cardinality(P) + 1
  BY <1>5
<1> HIDE DEF R
<1>7. IsFiniteSet(E) /\ Cardinality(E) \in Nat /\ Cardinality(E) <= Cardinality(R) + 1
  <2>1. /\ IsFiniteSet(E)
        /\ Cardinality(E) = IF y \in R THEN Cardinality(R) ELSE Cardinality(R) + 1
    BY <1>6, FS_AddElement
  <2>2. Cardinality(E) \in Nat
    BY <2>1, FS_CardinalityType
  <2> QED
    BY <1>6, <2>1, <2>2
<1>8. D \in SUBSET E
  BY DEF P, R, E
<1> HIDE DEF E
<1>9. IsFiniteSet(D) /\ Cardinality(D) <= Cardinality(E)
  BY <1>7, <1>8, FS_Subset
<1>10. Cardinality(D) \in Nat
  BY <1>9, FS_CardinalityType
<1> QED
  BY <1>1, <1>4, <1>5, <1>6, <1>7, <1>9, <1>10

LEMMA InitWaitInv == Init => WaitInv
<1> SUFFICES ASSUME Init PROVE WaitInv
  OBVIOUS
<1>1. Flow = <<>> /\ bin = 0 /\ cpc = "idle" /\ ~OnFrame /\ Len(Flow) = 0
  BY DEF Init, Flow, OnFrame, Holding
<1>2. Capacity \in Nat
  BY ConstantsAssumption
<1> QED
  BY <1>1, <1>2 DEF WaitInv, KeyInv, KeptInv

\* The steps that touch neither map, frames nor the clearing.
LEMMA WaitUnchanged ==
  ASSUME WaitInv, UNCHANGED <<cpc, frame, bin, inflight, rtsp_pts, video_ts_map>>,
         bin # 0 => (status'[bin] = "installed" <=> status[bin] = "installed")
  PROVE  WaitInv'
<1>1. Flow' = Flow /\ (OnFrame' <=> OnFrame)
  BY DEF Flow, OnFrame, Holding
<1>2. \A p : Known(p) <=> Known(p)'
  BY <1>1 DEF Known
<1>3. KeyInv'
  BY <1>1, <1>2 DEF WaitInv, KeyInv
<1>4. KeptInv'
  BY <1>1 DEF WaitInv, KeptInv
<1> QED
  BY <1>3, <1>4 DEF WaitInv

LEMMA QuietKeepsWaitInv ==
  IInv /\ WaitInv /\ (ClientConnects \/ FailEarly \/ BinReady \/ BinFails \/ PlayBin)
    => WaitInv'
<1> USE DEF rtsp, pipelines
<1>1. ASSUME IInv, WaitInv, ClientConnects \/ FailEarly
      PROVE  WaitInv'
  BY <1>1, WaitUnchanged DEF ClientConnects, FailEarly
<1>2. ASSUME IInv, WaitInv, BinReady \/ BinFails \/ PlayBin
      PROVE  WaitInv'
  <2>1. bin \in Bins /\ status[bin] # "installed"
    BY <1>2, ConstantsAssumption DEF IInv, TypeOK, Bins, BinReady, BinFails, PlayBin, Live
  <2>2. status'[bin] # "installed"
    BY <1>2, <2>1 DEF IInv, TypeOK, BinReady, BinFails, PlayBin
  <2>3. UNCHANGED <<cpc, frame, bin, inflight, rtsp_pts, video_ts_map>>
    BY <1>2 DEF BinReady, BinFails, PlayBin
  <2> QED
    BY <1>2, <2>1, <2>2, <2>3, WaitUnchanged
<1> QED
  BY <1>1, <1>2

\* A frame starts, or leaves without having been pushed.
LEMMA TakeSeqKeepsWaitInv == IInv /\ WaitInv /\ TakeSeq => WaitInv'
<1> SUFFICES ASSUME IInv, WaitInv, TakeSeq PROVE WaitInv'
  OBVIOUS
<1> USE DEF rtsp, pipelines
<1>1. /\ cpc = "idle" /\ cpc' = "lock" /\ ~OnFrame /\ ~OnFrame' /\ ~frame'.kept
      /\ UNCHANGED <<bin, inflight, status, rtsp_pts, video_ts_map>>
  BY DEF TakeSeq, OnFrame, Holding, NoFrame
<1>2. Flow' = Flow
  BY <1>1 DEF Flow
<1>3. \A p : Known(p) => Known(p)'
  BY <1>1, <1>2 DEF Known
<1>4. KeyInv'
  BY <1>1, <1>3 DEF WaitInv, KeyInv
<1>5. KeptInv'
  BY <1>1, <1>2 DEF WaitInv, KeptInv
<1> QED
  BY <1>4, <1>5 DEF WaitInv

LEMMA TakeAppsrcKeepsWaitInv == IInv /\ WaitInv /\ TakeAppsrc => WaitInv'
<1> SUFFICES ASSUME IInv, WaitInv, TakeAppsrc PROVE WaitInv'
  OBVIOUS
<1> USE DEF rtsp, pipelines
<1>1. /\ cpc = "lock" /\ ~OnFrame /\ rtsp_pts' = rtsp_pts + 1
      /\ UNCHANGED <<bin, inflight, status, video_ts_map>>
      /\ rtsp_pts \in Nat /\ DOMAIN video_ts_map \subseteq 0..MaxFrames /\ MaxFrames \in Nat
  BY ConstantsAssumption DEF TakeAppsrc, OnFrame, Holding, IInv, TypeOK
<1>2. \/ cpc' = "idle" /\ ~OnFrame'
      \/ cpc' = "register" /\ OnFrame' /\ frame'.pts = rtsp_pts /\ ~frame'.kept
  <2>1. frame \in Frame /\ ~frame.kept /\ appsrc \in {NoBin, bin}
    BY <1>1 DEF IInv, TypeOK, WaitInv, KeptInv, BinInv
  <2>2. CASE appsrc = NoBin
    BY <2>2 DEF TakeAppsrc, OnFrame, Holding
  <2>3. CASE appsrc # NoBin
    <3>1. appsrc = bin /\ cpc' = "register"
          /\ frame' = [frame EXCEPT !.src = appsrc, !.pts = rtsp_pts]
      BY <2>1, <2>3 DEF TakeAppsrc
    <3>2. frame'.src = bin /\ frame'.pts = rtsp_pts /\ frame'.kept = frame.kept
      BY <2>1, <3>1 DEF Frame
    <3> QED
      BY <1>1, <2>1, <3>1, <3>2 DEF OnFrame, Holding
  <2> QED
    BY <2>2, <2>3
<1>3. Flow' = Flow
  BY <1>1 DEF Flow
<1>4. \A p \in 0..MaxFrames : Known(p) => Known(p)'
  BY <1>1, <1>2, <1>3 DEF Known
<1>5. KeyInv'
  <2>1. \A p \in DOMAIN video_ts_map : Known(p) => Known(p)'
    BY <1>1, <1>4
  <2> QED
    BY <1>1, <1>2, <2>1 DEF WaitInv, KeyInv
<1>6. KeptInv'
  BY <1>1, <1>2, <1>3 DEF WaitInv, KeptInv
<1> QED
  BY <1>5, <1>6 DEF WaitInv

LEMMA LeavesKeepsWaitInv == IInv /\ WaitInv /\ (BufferFails \/ Detach) => WaitInv'
<1> SUFFICES ASSUME IInv, WaitInv, BufferFails \/ Detach PROVE WaitInv'
  OBVIOUS
<1> USE DEF rtsp, pipelines
<1>1. /\ cpc \in {"register", "detach"} /\ cpc' = "idle" /\ ~OnFrame'
      /\ UNCHANGED <<bin, inflight, status, rtsp_pts, video_ts_map>>
  BY DEF BufferFails, Detach, OnFrame, Holding
<1>2. Flow' = Flow
  BY <1>1 DEF Flow
<1>3. \A p : Known(p) => Known(p)'
  BY <1>1, <1>2 DEF Known
<1>4. KeyInv'
  BY <1>1, <1>3 DEF WaitInv, KeyInv
<1>5. KeptInv'
  BY <1>1, <1>2 DEF WaitInv, KeptInv
<1> QED
  BY <1>4, <1>5 DEF WaitInv

\* The clearing: a new pipeline is installed with nothing in it, then the map is emptied.
LEMMA InstallKeepsWaitInv == IInv /\ WaitInv /\ InstallAppsrc => WaitInv'
<1> SUFFICES ASSUME IInv, WaitInv, InstallAppsrc PROVE WaitInv'
  OBVIOUS
<1> USE DEF rtsp, pipelines
<1>1. /\ bin \in Nat /\ bin + 1 \in Bins /\ bin' = bin + 1 /\ bin + 1 # 0 /\ bin + 1 > bin
      /\ status \in [Bins -> {"none", "installed", "building", "ready", "playing",
                              "failed", "gone"}]
      /\ status' = [status EXCEPT ![bin + 1] = "installed"]
      /\ UNCHANGED <<cpc, frame, inflight>>
  BY ConstantsAssumption DEF IInv, TypeOK, InstallAppsrc, Bins
<1>2. inflight[bin + 1] = <<>> /\ status'[bin + 1] = "installed"
  BY <1>1 DEF IInv, BinInv
<1>3. Flow' = <<>> /\ Len(Flow') = 0
  BY <1>1, <1>2 DEF Flow
<1>4. ~OnFrame'
  BY <1>1 DEF IInv, CounterInv, OnFrame, Holding
<1>5. KeyInv'
  BY <1>1, <1>2 DEF KeyInv
<1>6. KeptInv'
  BY <1>1, <1>3, <1>4, ConstantsAssumption DEF WaitInv, KeptInv
<1> QED
  BY <1>5, <1>6 DEF WaitInv

LEMMA ClearKeepsWaitInv == IInv /\ WaitInv /\ ClearTimestamps => WaitInv'
<1> SUFFICES ASSUME IInv, WaitInv, ClearTimestamps PROVE WaitInv'
  OBVIOUS
<1> USE DEF rtsp, pipelines
<1>1. /\ bin \in Bins /\ bin # 0 /\ status[bin] = "installed" /\ status'[bin] = "building"
      /\ DOMAIN video_ts_map' = {}
      /\ UNCHANGED <<cpc, frame, bin, inflight, rtsp_pts>>
  BY ConstantsAssumption, MapEmpty
     DEF ClearTimestamps, ClearVideoTimestamps, IInv, TypeOK, Bins
<1>2. Flow' = Flow /\ (OnFrame' <=> OnFrame)
  BY <1>1 DEF Flow, OnFrame, Holding
<1>3. KeyInv'
  BY <1>1, FrameZero DEF KeyInv
<1>4. KeptInv'
  <2>1. OnFrame /\ cpc = "push" => ~frame.kept
    BY <1>1 DEF WaitInv, KeptInv
  <2> QED
    BY <1>1, <1>2, <2>1 DEF WaitInv, KeptInv
<1> QED
  BY <1>3, <1>4 DEF WaitInv

\* The frames of a pipeline that is torn down were ahead of all that follow.
LEMMA TearDownKeepsWaitInv == IInv /\ WaitInv /\ TearDown => WaitInv'
<1> SUFFICES ASSUME IInv, WaitInv, TearDown PROVE WaitInv'
  OBVIOUS
<1> USE DEF rtsp, pipelines
<1>1. /\ bin \in Bins /\ bin # 0 /\ status[bin] # "installed" /\ status'[bin] = "gone"
      /\ inflight'[bin] = <<>>
      /\ UNCHANGED <<cpc, frame, bin, rtsp_pts, video_ts_map>>
  BY ConstantsAssumption DEF TearDown, Live, IInv, TypeOK, Bins
<1>2. Flow' = <<>> /\ Len(Flow') = 0 /\ (OnFrame' <=> OnFrame)
  BY <1>1 DEF Flow, OnFrame, Holding
<1>3. \A i \in 1..Len(Flow) : /\ Flow[i].pts < rtsp_pts
                              /\ Holding => Flow[i].pts < frame.pts
  BY FlowOrder
<1>4. \A p : Known(p) => Known(p)'
  BY <1>1, <1>2, <1>3 DEF Known, OnFrame
<1>5. KeyInv'
  BY <1>1, <1>2, <1>4 DEF WaitInv, KeyInv
<1>6. KeptInv'
  BY <1>1, <1>2, ConstantsAssumption DEF WaitInv, KeptInv
<1> QED
  BY <1>5, <1>6 DEF WaitInv

\* The frame that leaves a pipeline was ahead of those that are left in it.
LEMMA HeadKnown ==
  ASSUME IInv, Encoding, inflight' = [inflight EXCEPT ![bin] = Tail(@)], bin' = bin,
         UNCHANGED <<cpc, frame, rtsp_pts>>
  PROVE  \A p : Known(p) => Known(p)'
<1>1. /\ Len(Flow) \in Nat \ {0} /\ Len(Flow') = Len(Flow) - 1
      /\ \A i \in 1..Len(Flow') : /\ i \in 1..Len(Flow) /\ i + 1 \in 1..Len(Flow)
                                  /\ 1 < i + 1 /\ Flow'[i] = Flow[i + 1]
  BY HeadLeaves
<1>2. OnFrame' <=> OnFrame
  BY DEF OnFrame, Holding
<1>3. /\ \A i \in 1..Len(Flow) : /\ Flow[i].pts < rtsp_pts
                                 /\ OnFrame => Flow[i].pts < frame.pts
      /\ \A i, j \in 1..Len(Flow) : i < j => Flow[i].pts < Flow[j].pts
  BY FlowOrder DEF OnFrame
<1>4. ASSUME NEW i \in 1..Len(Flow), NEW p, p = Flow[i].pts
      PROVE  Known(p)'
  <2>1. CASE i = 1
    <3>1. 1 \in 1..Len(Flow)
      BY <1>1
    <3>2. p < rtsp_pts /\ (OnFrame => p < frame.pts)
      BY <1>3, <1>4
    <3>3. \A j \in 1..Len(Flow') : p < Flow'[j].pts
      BY <1>1, <1>3, <1>4, <2>1, <3>1
    <3> QED
      BY <1>2, <3>2, <3>3 DEF Known
  <2>2. CASE i # 1
    <3>1. i - 1 \in 1..Len(Flow')
      BY <1>1, <2>2
    <3>2. Flow'[i - 1] = Flow[i]
      BY <1>1, <3>1
    <3> QED
      BY <1>4, <3>1, <3>2 DEF Known
  <2> QED
    BY <2>1, <2>2
<1>5. ASSUME NEW p, OnFrame, cpc = "push", p = frame.pts
      PROVE  Known(p)'
  BY <1>2, <1>5 DEF Known
<1>6. ASSUME NEW p, p < rtsp_pts, OnFrame => p < frame.pts,
             \A i \in 1..Len(Flow) : p < Flow[i].pts
      PROVE  Known(p)'
  <2>1. \A j \in 1..Len(Flow') : p < Flow'[j].pts
    BY <1>1, <1>6
  <2> QED
    BY <1>2, <1>6, <2>1 DEF Known
<1> QED
  BY <1>4, <1>5, <1>6 DEF Known

LEMMA DropsKeepsWaitInv == IInv /\ WaitInv /\ EncoderDrops => WaitInv'
<1> SUFFICES ASSUME IInv, WaitInv, EncoderDrops PROVE WaitInv'
  OBVIOUS
<1> USE DEF rtsp, pipelines
<1>1. UNCHANGED <<cpc, frame, bin, status, rtsp_pts, video_ts_map>>
  BY DEF EncoderDrops
<1>2. \A p : Known(p) => Known(p)'
  BY <1>1, HeadKnown DEF EncoderDrops
<1>3. OnFrame' <=> OnFrame
  BY <1>1 DEF OnFrame, Holding
<1>4. KeyInv'
  BY <1>1, <1>2, <1>3 DEF WaitInv, KeyInv
<1>5. /\ Len(Flow) \in Nat \ {0} /\ Len(Flow') = Len(Flow) - 1
      /\ \A i \in 1..Len(Flow') : i + 1 \in 1..Len(Flow) /\ Flow'[i] = Flow[i + 1]
  BY HeadLeaves DEF EncoderDrops
<1>6. KeptInv'
  <2>1. Len(Flow') <= Capacity
    BY <1>5, ConstantsAssumption DEF WaitInv, KeptInv
  <2>2. \A i \in 1..Len(Flow') : Flow'[i].kept => Flow'[i].pts \in DOMAIN video_ts_map
    BY <1>5 DEF WaitInv, KeptInv
  <2>3. bin # 0 /\ status[bin] = "installed" => \A i \in 1..Len(Flow') : ~Flow'[i].kept
    BY <1>5 DEF WaitInv, KeptInv
  <2> QED
    BY <1>1, <1>3, <2>1, <2>2, <2>3 DEF WaitInv, KeptInv
<1> QED
  BY <1>4, <1>6 DEF WaitInv

LEMMA ProbeKeepsWaitInv == IInv /\ WaitInv /\ H264SeiProbe => WaitInv'
<1> SUFFICES ASSUME IInv, WaitInv, H264SeiProbe PROVE WaitInv'
  OBVIOUS
<1> USE DEF rtsp, pipelines
<1>1. /\ Encoding /\ inflight' = [inflight EXCEPT ![bin] = Tail(@)]
      /\ UNCHANGED <<cpc, frame, bin, status, rtsp_pts>>
      /\ video_ts_map' = Erased(video_ts_map, Head(inflight[bin]).pts)
  BY DEF H264SeiProbe
<1>2. \A p : Known(p) => Known(p)'
  BY <1>1, HeadKnown
<1>3. OnFrame' <=> OnFrame
  BY <1>1 DEF OnFrame, Holding
<1>4. /\ Len(Flow) \in Nat \ {0} /\ Len(Flow') = Len(Flow) - 1
      /\ Head(inflight[bin]) = Flow[1] /\ status[bin] # "installed"
      /\ \A i \in 1..Len(Flow') : /\ i + 1 \in 1..Len(Flow) /\ 1 < i + 1
                                  /\ Flow'[i] = Flow[i + 1]
  BY <1>1, HeadLeaves DEF Encoding
<1>5. DOMAIN video_ts_map' = DOMAIN video_ts_map \ {Flow[1].pts}
  BY <1>1, <1>4 DEF Erased
<1>6. KeyInv'
  BY <1>1, <1>2, <1>3, <1>5 DEF WaitInv, KeyInv
<1>7. KeptInv'
  <2>1. Len(Flow') <= Capacity
    BY <1>4, ConstantsAssumption DEF WaitInv, KeptInv
  <2>2. 1 \in 1..Len(Flow) /\ Flow[1].pts \in Nat
    <3>1. 1 \in 1..Len(Flow)
      BY <1>4
    <3> QED
      BY <3>1, FlowOrder
  <2>3. \A i \in 1..Len(Flow') : Flow'[i].kept => Flow'[i].pts \in DOMAIN video_ts_map'
    <3> SUFFICES ASSUME NEW i \in 1..Len(Flow'), Flow'[i].kept
                 PROVE  Flow'[i].pts \in DOMAIN video_ts_map'
      OBVIOUS
    <3>1. i + 1 \in 1..Len(Flow) /\ 1 < i + 1 /\ Flow'[i] = Flow[i + 1]
      BY <1>4
    <3>2. Flow[i + 1].pts \in DOMAIN video_ts_map
      BY <3>1 DEF WaitInv, KeptInv
    <3>3. Flow[1].pts < Flow[i + 1].pts
      BY <2>2, <3>1, FlowOrder
    <3> QED
      BY <1>5, <2>2, <3>1, <3>2, <3>3
  <2>4. OnFrame /\ cpc = "push" /\ frame.kept => frame.pts \in DOMAIN video_ts_map'
    <3>1. OnFrame => Flow[1].pts < frame.pts
      BY <2>2, FlowOrder DEF OnFrame
    <3> QED
      BY <1>5, <2>2, <3>1 DEF WaitInv, KeptInv
  <2> QED
    BY <1>1, <1>3, <1>4, <2>1, <2>3, <2>4 DEF WaitInv, KeptInv
<1> QED
  BY <1>6, <1>7 DEF WaitInv

\* A frame that is pushed takes its stamp's place from the capture thread's.
LEMMA PushKeepsWaitInv == IInv /\ WaitInv /\ PushBuffer => WaitInv'
<1> SUFFICES ASSUME IInv, WaitInv, PushBuffer PROVE WaitInv'
  OBVIOUS
<1> USE DEF rtsp, pipelines
<1>1. /\ cpc = "push" /\ cpc' = "idle" /\ ~OnFrame' /\ (OnFrame <=> frame.src = bin)
      /\ frame \in Frame /\ frame.src \in Bins /\ bin \in Bins /\ bin # 0
      /\ inflight \in [Bins -> Seq(Frame)]
      /\ UNCHANGED <<bin, status, rtsp_pts, video_ts_map>>
  BY SMTT(40), ConstantsAssumption
     DEF PushBuffer, IInv, TypeOK, CounterInv, Holding, Bins, OnFrame
<1>2. inflight' = [inflight EXCEPT ![frame.src] = Append(inflight[frame.src], frame)]
      /\ Len(inflight[frame.src]) < Capacity
  BY DEF PushBuffer, Pushed
<1>3. CASE ~OnFrame
  <2>1. Flow' = Flow
    BY <1>1, <1>2, <1>3 DEF Flow
  <2>2. \A p : Known(p) => Known(p)'
    BY <1>1, <1>3, <2>1 DEF Known
  <2>3. KeyInv'
    BY <1>1, <2>2 DEF WaitInv, KeyInv
  <2>4. KeptInv'
    BY <1>1, <2>1 DEF WaitInv, KeptInv
  <2> QED
    BY <2>3, <2>4 DEF WaitInv
<1>4. CASE OnFrame
  <2>1. Flow \in Seq(Frame) /\ Flow' = Append(Flow, frame) /\ Len(Flow) < Capacity
    BY <1>1, <1>2, <1>4 DEF Flow
  <2>2. /\ Len(Flow) \in Nat /\ Len(Flow') = Len(Flow) + 1 /\ Len(Flow') \in 1..Len(Flow')
        /\ Flow'[Len(Flow')] = frame
        /\ \A i \in 1..Len(Flow) : i \in 1..Len(Flow') /\ Flow'[i] = Flow[i]
        /\ \A i \in 1..Len(Flow') : i \in 1..Len(Flow) \/ i = Len(Flow')
    BY <1>1, <2>1
  <2>3. \A p : Known(p) => Known(p)'
    <3>1. ASSUME NEW i \in 1..Len(Flow), NEW p, p = Flow[i].pts
          PROVE  Known(p)'
      BY <2>2, <3>1 DEF Known
    <3>2. ASSUME NEW p, p = frame.pts
          PROVE  Known(p)'
      BY <2>2, <3>2 DEF Known
    <3>3. ASSUME NEW p, p < rtsp_pts, OnFrame => p < frame.pts,
                 \A i \in 1..Len(Flow) : p < Flow[i].pts
          PROVE  Known(p)'
      <4>1. \A i \in 1..Len(Flow') : p < Flow'[i].pts
        BY <1>4, <2>2, <3>3
      <4> QED
        BY <1>1, <3>3, <4>1 DEF Known
    <3> QED
      BY <3>1, <3>2, <3>3 DEF Known
  <2>4. KeyInv'
    BY <1>1, <2>3 DEF WaitInv, KeyInv
  <2>5. KeptInv'
    <3>1. Len(Flow') <= Capacity
      BY <2>1, <2>2, ConstantsAssumption
    <3>2. \A i \in 1..Len(Flow') : Flow'[i].kept => Flow'[i].pts \in DOMAIN video_ts_map
      BY <1>1, <1>4, <2>2 DEF WaitInv, KeptInv
    <3>3. bin # 0 /\ status[bin] = "installed" => \A i \in 1..Len(Flow') : ~Flow'[i].kept
      BY <1>4, <2>2 DEF WaitInv, KeptInv
    <3> QED
      BY <1>1, <3>1, <3>2, <3>3 DEF KeptInv
  <2> QED
    BY <2>4, <2>5 DEF WaitInv
<1> QED
  BY <1>3, <1>4

\* The stamp of a refused frame is erased, and only it.
LEMMA RefusedKeepsWaitInv == IInv /\ WaitInv /\ PushRefused => WaitInv'
<1> SUFFICES ASSUME IInv, WaitInv, PushRefused PROVE WaitInv'
  OBVIOUS
<1> USE DEF rtsp, pipelines
<1>1. /\ cpc = "push" /\ cpc' = "detach" /\ Holding /\ (OnFrame' <=> OnFrame)
      /\ DOMAIN video_ts_map' = DOMAIN video_ts_map \ {frame.pts}
      /\ UNCHANGED <<frame, bin, inflight, status, rtsp_pts>>
  BY DEF PushRefused, Erased, OnFrame, Holding
<1>2. Flow' = Flow
  BY <1>1 DEF Flow
<1>3. \A p : p # frame.pts /\ Known(p) => Known(p)'
  BY <1>1, <1>2 DEF Known
<1>4. KeyInv'
  BY <1>1, <1>3 DEF WaitInv, KeyInv
<1>5. \A i \in 1..Len(Flow) : Flow[i].pts # frame.pts
  BY <1>1, FlowOrder
<1>6. KeptInv'
  BY <1>1, <1>2, <1>5 DEF WaitInv, KeptInv
<1> QED
  BY <1>4, <1>6 DEF WaitInv

\* Registering a stamp only makes room by evicting one whose frame is not waited for:
\* were the smallest key waited for, the map would hold no more than a full pipeline,
\* the frame being registered and one frame of an earlier pipeline.
LEMMA RegisterKeepsWaitInv == IInv /\ WaitInv /\ RegisterVideoTimestamp => WaitInv'
<1> SUFFICES ASSUME IInv, WaitInv, RegisterVideoTimestamp PROVE WaitInv'
  OBVIOUS
<1> USE DEF rtsp, pipelines
<1> DEFINE D == DOMAIN video_ts_map \cup {frame.pts}
           S == DOMAIN video_ts_map'
<1>1. /\ cpc = "register" /\ cpc' = "push" /\ Holding /\ (OnFrame' <=> OnFrame)
      /\ frame \in Frame /\ frame.pts \in 0..MaxFrames /\ frame.pts \in Nat
      /\ frame' = [frame EXCEPT !.kept = frame.src = bin /\ status[bin] # "installed"]
      /\ frame'.pts = frame.pts /\ frame'.src = frame.src
      /\ frame'.kept <=> OnFrame /\ status[bin] # "installed"
      /\ UNCHANGED <<bin, inflight, status, rtsp_pts>>
      /\ D \subseteq 0..MaxFrames /\ bin # 0
  <2>1. frame \in Frame /\ frame.src \in 1..bin /\ DOMAIN video_ts_map \subseteq 0..MaxFrames
    BY DEF RegisterVideoTimestamp, IInv, TypeOK, CounterInv, Holding
  <2>2. frame' = [frame EXCEPT !.kept = frame.src = bin /\ status[bin] # "installed"]
    BY DEF RegisterVideoTimestamp
  <2>3. /\ frame'.pts = frame.pts /\ frame'.src = frame.src
        /\ frame'.kept <=> frame.src = bin /\ status[bin] # "installed"
    BY <2>1, <2>2 DEF Frame
  <2>4. frame.pts \in 0..MaxFrames /\ frame.pts \in Nat /\ bin # 0
    BY <2>1 DEF Frame, IInv, TypeOK
  <2> QED
    BY <2>1, <2>2, <2>3, <2>4 DEF RegisterVideoTimestamp, OnFrame, Holding
<1>2. S = IF Cardinality(D) > MaxMap THEN {q \in D : \E r \in D : r < q} ELSE D
  BY RegisteredKeys DEF RegisterVideoTimestamp
<1>3. Flow' = Flow /\ Flow \in Seq(Frame) /\ Len(Flow) <= Capacity
  BY <1>1, FlowOrder DEF Flow, WaitInv, KeptInv
<1> HIDE DEF S
<1>4. S \subseteq D
  BY <1>2
<1>5. KeyInv'
  <2> SUFFICES ASSUME status[bin] # "installed"
               PROVE  \E x \in 0..MaxFrames : \A p \in S : p = x \/ Known(p)'
    BY <1>1 DEF KeyInv, S
  <2>1. \A p : Known(p) => Known(p)'
    BY <1>1, <1>3 DEF Known
  <2>2. CASE OnFrame
    <3>1. PICK x \in 0..MaxFrames : \A p \in DOMAIN video_ts_map : p = x \/ Known(p)
      BY <1>1 DEF WaitInv, KeyInv
    <3>2. ASSUME NEW p, p = frame.pts
          PROVE  Known(p)'
      BY <1>1, <2>2, <3>2 DEF Known
    <3>3. ASSUME NEW p \in S
          PROVE  p = x \/ Known(p)'
      <4>1. p \in DOMAIN video_ts_map \/ p = frame.pts
        BY <1>4
      <4> QED
        BY <2>1, <3>1, <3>2, <4>1
    <3> QED
      BY <3>3
  <2>3. CASE ~OnFrame
    <3>1. \A p \in DOMAIN video_ts_map : Known(p)
      BY <1>1, <2>3 DEF WaitInv, KeyInv
    <3> QED
      BY <1>1, <1>4, <2>1, <3>1
  <2> QED
    BY <2>2, <2>3
<1>6. ASSUME OnFrame, status[bin] # "installed", NEW k \in D,
             k = frame.pts \/ \E i \in 1..Len(Flow) : k = Flow[i].pts
      PROVE  k \in S
  <2> SUFFICES ASSUME Cardinality(D) > MaxMap, \A r \in D : ~(r < k)
               PROVE  FALSE
    BY <1>2, <1>6
  <2>1. PICK x \in 0..MaxFrames : \A p \in DOMAIN video_ts_map : p = x \/ Known(p)
    BY <1>1, <1>6 DEF WaitInv, KeyInv
  <2>2. ASSUME NEW p \in DOMAIN video_ts_map, p # x
        PROVE  p \in {Flow[i].pts : i \in 1..Len(Flow)}
    <3>1. Known(p) /\ ~(p < k)
      BY <2>1, <2>2
    <3>2. ~(/\ p < frame.pts
            /\ \A i \in 1..Len(Flow) : p < Flow[i].pts)
      BY <1>6, <3>1
    <3> QED
      BY <1>1, <1>6, <3>1, <3>2 DEF Known
  <2>3. D \subseteq ({Flow[i].pts : i \in 1..Len(Flow)} \cup {x}) \cup {frame.pts}
    BY <2>2
  <2> HIDE DEF D
  <2> QED
    BY <1>3, <2>3, FewKeys
<1>7. KeptInv'
  <2>1. \A i \in 1..Len(Flow) : Flow[i].kept => Flow[i].pts \in S
    <3> SUFFICES ASSUME NEW i \in 1..Len(Flow), Flow[i].kept
                 PROVE  Flow[i].pts \in S
      OBVIOUS
    <3>1. Flow[i].pts \in DOMAIN video_ts_map /\ status[bin] # "installed"
      BY <1>1 DEF WaitInv, KeptInv
    <3>2. OnFrame
      BY <1>1, FlowOrder
    <3> QED
      BY <1>6, <3>1, <3>2
  <2>2. frame'.kept => frame.pts \in S
    BY <1>1, <1>6
  <2>3. bin # 0 /\ status[bin] = "installed" => \A i \in 1..Len(Flow) : ~Flow[i].kept
    BY DEF WaitInv, KeptInv
  <2> QED
    BY <1>1, <1>3, <2>1, <2>2, <2>3 DEF KeptInv, S
<1> QED
  BY <1>5, <1>7 DEF WaitInv

LEMMA NextWaitInv == IInv /\ WaitInv /\ [Next]_vars => WaitInv'
<1>1. ASSUME IInv, WaitInv, UNCHANGED vars
      PROVE  WaitInv'
  BY <1>1, WaitUnchanged DEF vars, rtsp, pipelines
<1> QED
  BY <1>1, QuietKeepsWaitInv, TakeSeqKeepsWaitInv, TakeAppsrcKeepsWaitInv,
     LeavesKeepsWaitInv, InstallKeepsWaitInv, ClearKeepsWaitInv, TearDownKeepsWaitInv,
     DropsKeepsWaitInv, ProbeKeepsWaitInv, PushKeepsWaitInv, RefusedKeepsWaitInv,
     RegisterKeepsWaitInv
     DEF Next, PushColorFrame, CreateRtspBin

LEMMA SpecWaitInv == Spec => []WaitInv
  BY InitWaitInv, NextWaitInv, SpecIInv, PTL DEF Spec

-----------------------------------------------------------------------------
(* Theorems. *)

\* The types hold, and the map of timestamps never exceeds its limit.
THEOREM TypeCorrect == Spec => []TypeOK
  BY SpecIInv, PTL DEF IInv

\* Nobody uses an appsrc that was released, and none is released once too often.
THEOREM AppsrcStaysAlive == Spec => []AppsrcAlive
<1>1. IInv => AppsrcAlive
  <2> SUFFICES ASSUME IInv, NEW b \in Bins
               PROVE  refs[b] >= 0 /\ (Held(b) => refs[b] > 0)
    BY DEF AppsrcAlive
  <2>1. PICK own \in OwnRefs(b) : refs[b] = own + CtxRef(b) + LocalRef(b)
    BY DEF IInv, RefsInv
  <2>2. own \in {0, 1} /\ CtxRef(b) \in {0, 1} /\ LocalRef(b) \in {0, 1}
    BY <2>1 DEF OwnRefs, CtxRef, LocalRef
  <2>3. Held(b) => CtxRef(b) = 1 \/ LocalRef(b) = 1
    BY DEF Held, CtxRef, LocalRef, Holding
  <2> QED
    BY <2>1, <2>2, <2>3
<1> QED
  BY <1>1, SpecIInv, PTL

\* The appsrc of a pipeline that was torn down is freed: nothing refers to it any more
\* once the context and the capture thread have let go of it.
AppsrcFreed == \A b \in Bins : status[b] = "gone" /\ ~Held(b) => refs[b] = 0

\* However a refused push and creation race to drop the context's reference, none leaks.
THEOREM AppsrcIsFreed == Spec => []AppsrcFreed
<1>1. IInv => AppsrcFreed
  <2> SUFFICES ASSUME IInv, NEW b \in Bins, status[b] = "gone", ~Held(b)
               PROVE  refs[b] = 0
    BY DEF AppsrcFreed
  <2>1. PICK own \in OwnRefs(b) : refs[b] = own + CtxRef(b) + LocalRef(b)
    BY DEF IInv, RefsInv
  <2>2. own = 0 /\ CtxRef(b) = 0 /\ LocalRef(b) = 0
    BY <2>1 DEF OwnRefs, CtxRef, LocalRef, Held, Holding
  <2> QED
    BY <2>1, <2>2
<1> QED
  BY <1>1, SpecIInv, PTL

\* Whatever happens to pipelines and map, a frame only ever carries its own
\* camera timestamp.
THEOREM SeiIsTheFramesOwn == Spec => []SeiBelongsToFrame
  BY SpecIInv, PTL DEF IInv, StampInv

\* No stamp of a frame on its way through the latest pipeline is evicted: the map only
\* ever sheds what frames left behind that were dropped.
THEOREM StampsAreNotEvicted == Spec => []StampsWait
<1>1. ASSUME IInv, WaitInv
      PROVE  StampsWait
  <2> SUFFICES ASSUME bin # 0, NEW i \in DOMAIN inflight[bin], inflight[bin][i].kept
               PROVE  Found(video_ts_map, inflight[bin][i].pts) = StampOf(inflight[bin][i])
    BY DEF StampsWait
  <2>1. Flow = inflight[bin]
    BY DEF Flow
  <2>2. i \in 1..Len(Flow)
    BY <1>1, <2>1, FlowOrder
  <2>3. /\ Flow[i].pts \in DOMAIN video_ts_map
        /\ video_ts_map[Flow[i].pts] = StampOf(Flow[i])
    BY <1>1, <2>1, <2>2 DEF IInv, StampInv, WaitInv, KeptInv
  <2> QED
    BY <2>1, <2>3 DEF Found
<1> QED
  BY <1>1, SpecIInv, SpecWaitInv, PTL

\* Within a pipeline the embedded numbers grow from the second frame on.
THEOREM EmbeddedNumbersGrow == Spec => NumbersGrow
<1>1. ASSUME IInv, Next, out' # out, out'.frame.src = out.frame.src, out.frame.pts > 0
      PROVE  out'.frame.seq > out.frame.seq
  <2>1. H264SeiProbe
    BY <1>1
       DEF Next, ClientConnects, TakeSeq, PushColorFrame, TakeAppsrc, BufferFails,
           RegisterVideoTimestamp, PushBuffer, PushRefused, Detach, FailEarly,
           InstallAppsrc, CreateRtspBin, ClearTimestamps, BinReady, BinFails, PlayBin,
           TearDown, EncoderDrops
  <2>2. out'.frame = Flow[1] /\ 1 \in 1..Len(Flow) /\ Flow[1] \in Frame
    BY <1>1, <2>1, ProbeShowsHead, HeadLeaves DEF H264SeiProbe, pipelines
  <2>3. Before(out.frame, Flow[1]) /\ out.frame \in Frame
    BY <1>1, <2>2 DEF IInv, TypeOK, FlowInv
  <2> QED
    BY <1>1, <2>2, <2>3 DEF Before, Frame
<1>2. ASSUME IInv, [Next]_vars
      PROVE  [out' # out /\ out'.frame.src = out.frame.src /\ out.frame.pts > 0
                => out'.frame.seq > out.frame.seq]_vars
  BY <1>1, <1>2
<1> QED
  BY <1>2, SpecIInv, PTL DEF Spec, NumbersGrow

\* A running pipeline only loses its appsrc to a push into an earlier pipeline.
THEOREM OnlyAStalePushDetaches == Spec => LostToStalePushOnly
<1>1. ASSUME IInv, Next, Live, appsrc = bin, appsrc' # bin
      PROVE  cpc = "detach" /\ frame.src < bin
  <2>1. Detach
    BY <1>1
       DEF Next, ClientConnects, TakeSeq, PushColorFrame, TakeAppsrc, BufferFails,
           RegisterVideoTimestamp, PushBuffer, PushRefused, FailEarly, InstallAppsrc,
           CreateRtspBin, ClearTimestamps, BinReady, BinFails, PlayBin, TearDown,
           EncoderDrops, H264SeiProbe, rtsp, Live
  <2>2. cpc = "detach" /\ frame.src \in 1..bin /\ status[frame.src] = "gone" /\ bin \in Nat
    BY <1>1, <2>1 DEF Detach, IInv, TypeOK, CounterInv, Holding
  <2>3. frame.src # bin
    BY <1>1, <2>2 DEF Live
  <2> QED
    BY <2>2, <2>3
<1>2. ASSUME IInv, [Next]_vars
      PROVE  [Live /\ appsrc = bin /\ appsrc' # bin
                => cpc = "detach" /\ frame.src < bin]_vars
  BY <1>1, <1>2
<1> QED
  BY <1>2, SpecIInv, PTL DEF Spec, LostToStalePushOnly

\* What a viewer sees is a subsequence of the camera's frames, across pipelines.
THEOREM VideoIsAFrameStream == Spec => ImplementsFrameStream
<1> USE DEF Video!svars
<1>1. Init => Video!Init
  BY DEF Init, Video!Init, NoFrame
<1>2. ASSUME IInv, TakeSeq
      PROVE  Video!Next
  <2>1. frames' = frames + 1 /\ out' = out
    BY <1>2 DEF TakeSeq
  <2>2. Video!Produce("video")
    BY <2>1 DEF Video!Produce
  <2> QED
    BY <2>2 DEF Video!Next
<1>3. ASSUME IInv, H264SeiProbe
      PROVE  Video!Next
  <2>1. frames' = frames /\ out'.frame = Flow[1] /\ 1 \in 1..Len(Flow) /\ Flow[1] \in Frame
    BY <1>3, ProbeShowsHead, HeadLeaves DEF H264SeiProbe, pipelines
  <2>2. Before(out.frame, Flow[1]) /\ Passed(Flow[1]) /\ out.frame \in Frame /\ frames \in Nat
    BY <1>3, <2>1 DEF IInv, TypeOK, FlowInv
  <2>3. out'.frame.id \in (out.frame.id + 1)..frames
    BY <2>1, <2>2 DEF Before, Passed, Frame
  <2>4. Video!Deliver("video")
    BY <2>1, <2>3 DEF Video!Deliver
  <2> QED
    BY <2>4 DEF Video!Next
<1>4. ASSUME IInv, [Next]_vars
      PROVE  [Video!Next]_(Video!svars)
  BY <1>2, <1>3, <1>4
     DEF Next, ClientConnects, PushColorFrame, TakeAppsrc, BufferFails,
         RegisterVideoTimestamp, PushBuffer, PushRefused, Detach, FailEarly,
         InstallAppsrc, CreateRtspBin, ClearTimestamps, BinReady, BinFails, PlayBin,
         TearDown, EncoderDrops, vars
<1> QED
  BY <1>1, <1>4, SpecIInv, PTL DEF Spec, ImplementsFrameStream, Video!Spec

-----------------------------------------------------------------------------
(* Liveness.  The provers cannot expand ENABLED: what they lack about it is   *)
(* said by ThreadsEnabled, which the theorem has as its hypothesis.           *)

\* The fair threads can take their next steps: the capture thread unless its push
\* waits for room, the RTSP server within CreateRtspBin, the pipeline with a frame.
PushCanStep == \/ cpc \in {"lock", "register", "detach"}
               \/ cpc = "push" /\ (Flushing(frame.src) \/ Len(inflight[frame.src]) < Capacity)
BinCanStep == bin # 0 /\ status[bin] \in {"installed", "building"}
ThreadsEnabled == /\ PushCanStep => ENABLED <<PushColorFrame>>_vars
                  /\ BinCanStep => ENABLED <<CreateRtspBin>>_vars
                  /\ Encoding => ENABLED <<EncoderDrops \/ H264SeiProbe>>_vars

\* A push that does not return, into a pipeline that no viewer could start.
Stuck == cpc = "push" /\ ~(frame.src \in Bins /\ status[frame.src] \in {"ready", "failed"})
StuckStep == IInv /\ WaitInv /\ Stuck /\ Stuck' /\ [Next]_vars

Src(s) == status[frame.src] = s
Room == Src("playing") /\ Len(inflight[frame.src]) < Capacity
Full == Src("playing") /\ Len(inflight[frame.src]) >= Capacity

\* Where the pipeline of such a push can be; it is the latest one, unless it is gone.
LEMMA StuckWhere ==
  ASSUME IInv, WaitInv, Stuck
  PROVE  /\ frame.src \in Bins
         /\ Src("installed") \/ Src("building") \/ Room \/ Full \/ Src("gone")
         /\ Src("gone") \/ (frame.src = bin /\ bin # 0 /\ Flow = inflight[bin])
         /\ Src("gone") \/ Room => PushCanStep
         /\ Src("installed") \/ Src("building") => BinCanStep
         /\ Full => Encoding
<1>1. frame.src \in 1..bin /\ bin \in 0..MaxBins /\ frame.src \in Bins
  <2>1. frame.src \in 1..bin /\ bin \in 0..MaxBins
    BY DEF IInv, TypeOK, CounterInv, Stuck, Holding
  <2> QED
    BY <2>1, ConstantsAssumption DEF Bins
<1>2. frame.src < bin => Src("gone")
  BY <1>1 DEF IInv, BinInv, Stuck, Src
<1>3. Src("gone") \/ (frame.src = bin /\ bin # 0 /\ Flow = inflight[bin])
  BY <1>1, <1>2 DEF Flow
<1>4. /\ Src("installed") \/ Src("building") \/ Src("playing") \/ Src("gone")
      /\ frame.src = bin \/ Src("gone")
  BY <1>1, <1>3 DEF IInv, TypeOK, BinInv, Stuck, Src
<1>5. inflight[frame.src] \in Seq(Frame) /\ Capacity \in Nat \ {0}
  BY <1>1, ConstantsAssumption DEF IInv, TypeOK
<1>6. Full => Encoding
  BY <1>3, <1>5 DEF Full, Src, Encoding
<1>7. Src("playing") => Room \/ Full
  BY <1>5 DEF Room, Full
<1> QED
  BY <1>1, <1>3, <1>4, <1>6, <1>7 DEF PushCanStep, BinCanStep, Room, Src, Flushing, Stuck

\* The push stays where it is: no step of the capture thread is taken meanwhile, and
\* its pipeline is changed by the steps of the other threads only.
LEMMA StuckStays ==
  ASSUME StuckStep
  PROVE  /\ frame' = frame /\ ~PushColorFrame
         /\ \/ status'[frame.src] = status[frame.src] /\ inflight'[frame.src] = inflight[frame.src]
            \/ CreateRtspBin \/ TearDown \/ EncoderDrops \/ H264SeiProbe
<1> USE DEF StuckStep, rtsp, pipelines
<1>1. cpc = "push" /\ cpc' = "push" /\ IInv /\ TypeOK
  BY DEF Stuck, IInv
<1>2. ~TakeSeq /\ ~PushColorFrame
  BY <1>1 DEF TakeSeq, PushColorFrame, TakeAppsrc, BufferFails, RegisterVideoTimestamp,
     PushBuffer, PushRefused, Detach
<1>3. frame' = frame
  BY <1>2 DEF Next, vars, ClientConnects, FailEarly, InstallAppsrc, CreateRtspBin,
     ClearTimestamps, BinReady, BinFails, PlayBin, TearDown, EncoderDrops, H264SeiProbe
<1>4. frame.src \in Bins /\ frame.src \in 1..bin /\ bin \in Nat
  BY <1>1, StuckWhere DEF IInv, TypeOK, CounterInv, Holding
<1>5. CASE ClientConnects \/ FailEarly \/ UNCHANGED vars
  BY <1>2, <1>3, <1>5 DEF ClientConnects, FailEarly, vars
<1>6. CASE InstallAppsrc
  BY <1>1, <1>2, <1>3, <1>4, <1>6 DEF InstallAppsrc, TypeOK, Bins
<1>7. CASE PlayBin
  <2>1. /\ status' = [status EXCEPT ![bin] = IF @ = "ready" THEN "playing" ELSE "ready"]
        /\ status[bin] \in {"ready", "playing"} /\ inflight' = inflight
    BY <1>7 DEF PlayBin, Live
  <2>2. frame.src # bin
    BY <1>1, <1>3, <1>4, <2>1 DEF Stuck, TypeOK
  <2> QED
    BY <1>1, <1>2, <1>3, <1>4, <2>1, <2>2 DEF TypeOK
<1> QED
  BY <1>2, <1>3, <1>5, <1>6, <1>7 DEF Next

\* A pipeline under construction: it can only be finished by ending the push's wait.
LEMMA StuckBuilds ==
  ASSUME StuckStep
  PROVE  /\ Src("installed") => Src("installed")' \/ Src("building")'
         /\ Src("installed") /\ CreateRtspBin => Src("building")'
         /\ Src("building") => Src("building")' /\ ~CreateRtspBin
<1>1. frame' = frame /\ IInv /\ TypeOK /\ frame.src \in Bins
  BY StuckStays, StuckWhere DEF StuckStep, IInv
<1>2. ASSUME Src("installed") \/ Src("building")
      PROVE  frame.src = bin /\ ~Live /\ ~Encoding
  BY <1>1, <1>2, StuckWhere DEF StuckStep, Src, Live, Encoding
<1>3. ASSUME Src("installed") \/ Src("building"), CreateRtspBin
      PROVE  Src("installed") /\ Src("building")'
  <2>1. CASE ClearTimestamps
    BY <1>1, <1>2, <1>3, <2>1 DEF ClearTimestamps, Src, TypeOK
  <2>2. CASE BinReady \/ BinFails
    BY <1>1, <1>2, <1>3, <2>2 DEF BinReady, BinFails, StuckStep, Stuck, TypeOK
  <2> QED
    BY <1>3, <2>1, <2>2 DEF CreateRtspBin
<1>4. ASSUME Src("installed") \/ Src("building")
      PROVE  ~TearDown /\ ~EncoderDrops /\ ~H264SeiProbe
  BY <1>2, <1>4 DEF TearDown, EncoderDrops, H264SeiProbe
<1>5. ASSUME Src("installed") \/ Src("building"), ~CreateRtspBin
      PROVE  status'[frame.src] = status[frame.src]
  BY <1>4, <1>5, StuckStays
<1> QED
  BY <1>1, <1>3, <1>5 DEF Src

\* A pipeline that plays: it makes room, or goes.
LEMMA StuckFlows ==
  ASSUME StuckStep
  PROVE  /\ Full => Full' \/ Room' \/ Src("gone")'
         /\ Full /\ (EncoderDrops \/ H264SeiProbe) => Room'
         /\ Room => Room' \/ Src("gone")'
         /\ Src("gone") => Src("gone")'
<1>1. frame' = frame /\ IInv /\ TypeOK /\ frame.src \in Bins
  BY StuckStays, StuckWhere DEF StuckStep, IInv
<1>2. ASSUME Full \/ Room
      PROVE  frame.src = bin /\ ~Creating /\ Len(inflight[frame.src]) \in Nat
             /\ Len(inflight[frame.src]) <= Capacity /\ Capacity \in Nat \ {0}
  <2>1. frame.src = bin /\ Flow = inflight[bin] /\ status[bin] = "playing"
    BY <1>1, <1>2, StuckWhere DEF StuckStep, Full, Room, Src
  <2>2. Len(Flow) <= Capacity /\ Len(Flow) \in Nat
    BY FlowOrder DEF StuckStep, WaitInv, KeptInv
  <2> QED
    BY <2>1, <2>2, ConstantsAssumption DEF Creating
<1>3. ASSUME EncoderDrops \/ H264SeiProbe, Full \/ Room
      PROVE  Room'
  <2>1. /\ inflight'[bin] = Tail(inflight[bin]) /\ inflight[bin] # <<>>
        /\ inflight[bin] \in Seq(Frame) /\ status' = status
    BY <1>1, <1>2, <1>3 DEF EncoderDrops, H264SeiProbe, Encoding, TypeOK
  <2>2. Len(inflight'[bin]) < Len(inflight[bin])
    BY <2>1
  <2>3. Len(inflight'[bin]) \in Nat
    BY <2>1
  <2> QED
    <3>1. status'[frame'.src] = "playing" /\ frame'.src = bin
      BY <1>1, <1>2, <1>3, <2>1 DEF Room, Full, Src
    <3>2. Len(inflight'[bin]) < Capacity
      BY <1>2, <1>3, <2>2, <2>3
    <3> QED
      BY <3>1, <3>2 DEF Room, Src
<1>4. ASSUME TearDown, Full \/ Room
      PROVE  Src("gone")'
  BY <1>1, <1>2, <1>4 DEF TearDown, Src, TypeOK
<1>5. ASSUME Full \/ Room
      PROVE  ~CreateRtspBin
  BY <1>2, <1>5 DEF CreateRtspBin, ClearTimestamps, BinReady, BinFails, Creating
<1>6. Src("gone") => Src("gone")'
  <2>1. ASSUME Src("gone"), CreateRtspBin \/ TearDown \/ EncoderDrops \/ H264SeiProbe
        PROVE  Src("gone")'
    <3>1. bin \in Bins /\ status[bin] # "gone"
      BY <1>1, <2>1, ConstantsAssumption DEF CreateRtspBin, ClearTimestamps, BinReady, BinFails,
         TearDown, Live, EncoderDrops, H264SeiProbe, Encoding, TypeOK, Bins
    <3>2. status' = status \/ \E a : status' = [status EXCEPT ![bin] = a]
      BY <2>1 DEF CreateRtspBin, ClearTimestamps, BinReady, BinFails, TearDown,
         EncoderDrops, H264SeiProbe
    <3> QED
      BY <1>1, <2>1, <3>1, <3>2 DEF Src, TypeOK
  <2> QED
    BY <1>1, <2>1, StuckStays DEF Src
<1> QED
  BY <1>1, <1>3, <1>4, <1>5, <1>6, StuckStays DEF Room, Full, Src

\* What the fair threads do while a push is stuck.
FairThreads == /\ []IInv /\ []WaitInv /\ [][Next]_vars /\ []ThreadsEnabled
               /\ WF_vars(PushColorFrame) /\ WF_vars(CreateRtspBin)
               /\ WF_vars(EncoderDrops \/ H264SeiProbe)

\* A push can only be stuck for ever in a pipeline that again and again waits for a
\* viewer, or that could not be built.
THEOREM StuckPushIsUnplayed == FairSpec /\ []ThreadsEnabled => StuckOnlyUnplayed
<1> DEFINE Step == StuckStep
           Installed == Src("installed")
           Building == Src("building")
           Gone == Src("gone")
<1>1. /\ Step /\ Installed => Installed' \/ Building'
      /\ Step /\ Installed /\ <<CreateRtspBin>>_vars => Building'
      /\ Step /\ Building => Building'
      /\ Step /\ Building => ~<<CreateRtspBin>>_vars
  BY StuckBuilds
<1>2. /\ Step /\ Full => Full' \/ Room' \/ Gone'
      /\ Step /\ Full /\ <<EncoderDrops \/ H264SeiProbe>>_vars => Room'
      /\ Step /\ Room => Room' \/ Gone'
      /\ Step /\ Gone => Gone'
      /\ Step => ~<<PushColorFrame>>_vars
  BY StuckFlows, StuckStays
<1>3. IInv /\ WaitInv /\ Stuck =>
         /\ Installed \/ Building \/ Room \/ Full \/ Gone
         /\ Gone \/ Room => PushCanStep
         /\ Installed \/ Building => BinCanStep
         /\ Full => Encoding
  BY StuckWhere
<1>4. Stuck <=> cpc = "push" /\ ~(frame.src \in Bins /\ status[frame.src] \in {"ready", "failed"})
  BY DEF Stuck
<1>5. FairSpec /\ []ThreadsEnabled => []FairThreads
  BY SpecIInv, SpecWaitInv, PTL DEF FairSpec, Spec, FairThreads
<1> HIDE DEF Installed, Building, Gone
<1>6. FairThreads => ~[]Stuck
  BY <1>1, <1>2, <1>3, PTL DEF FairThreads, ThreadsEnabled, StuckStep
<1> QED
  BY <1>4, <1>5, <1>6, PTL DEF StuckOnlyUnplayed
=============================================================================
