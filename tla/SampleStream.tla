---------------------------- MODULE SampleStream ----------------------------
(***************************************************************************)
(* What the IMU publisher promises of each of its streams, and the RTSP    *)
(* server of the video: the numbers a client sees are ones that were       *)
(* assigned to a sample, and they only grow.  Samples may be lost          *)
(* anywhere; none is repeated, reordered or invented.                      *)
(***************************************************************************)
EXTENDS Naturals

CONSTANT Streams

VARIABLES produced,   \* produced[s]: the last sequence number assigned
          delivered   \* delivered[s]: the last one handed to the network

svars == <<produced, delivered>>

Init == /\ produced = [s \in Streams |-> 0]
        /\ delivered = [s \in Streams |-> 0]

Produce(s) == /\ produced' = [produced EXCEPT ![s] = @ + 1]
              /\ UNCHANGED delivered

Deliver(s) == /\ \E n \in (delivered[s] + 1)..produced[s] :
                     delivered' = [delivered EXCEPT ![s] = n]
              /\ UNCHANGED produced

Next == \E s \in Streams : Produce(s) \/ Deliver(s)

Spec == Init /\ [][Next]_svars
=============================================================================
