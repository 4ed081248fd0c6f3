----------------------------- MODULE ImuSession -----------------------------
(***************************************************************************)
(* src/client_transport.cpp: the client session and the IMU samples sent   *)
(* to the client by UDP.                                                   *)
(*                                                                         *)
(* Three threads meet here.  The UDP listener of port 5001 runs            *)
(* HandleClientCommand: it stores the client's address in the handle, word *)
(* by word and without a lock, clears the queues and sets                  *)
(* client_connected.  The capture thread runs QueueAccelSample and         *)
(* QueueGyroSample: it looks at client_connected first and takes imu_mutex *)
(* later.  The publisher runs RunImuPublisher: it swaps both queues out    *)
(* under the mutex and sends them one by one, reading the address each     *)
(* time.  An action is a step no other thread can interrupt.               *)
(***************************************************************************)
EXTENDS Integers, Sequences, FiniteSets

CONSTANTS Datagrams,   \* what can arrive on the session port: records of the sender's
                       \* address, the length, what DecodeFrame and the CRC say
                       \* of the frame, and its message identifier
          NoHost,      \* the address and port of a zeroed handle
          MaxQueue,    \* kMaxImuQueue, 4096 in the code
          MaxSeq,      \* bound on the samples captured per stream
          MaxSessions  \* bound on the sessions established

Streams == {"accel", "gyro"}

kMsgIdEstablishConnection == 1
kMsgIdCloseConnection == 2

ASSUME ConstantsAssumption ==
    /\ \A d \in Datagrams : /\ DOMAIN d = {"ip", "port", "len", "framed", "crc_ok", "msg_id"}
                            /\ d.len \in Nat /\ d.msg_id \in Nat
                            /\ d.framed \in BOOLEAN /\ d.crc_ok \in BOOLEAN
    /\ MaxQueue \in Nat \ {0} /\ MaxSeq \in Nat /\ MaxSessions \in Nat

VARIABLES client_connected,
          address,      \* address.ip, address.port: the handle's asv4[0]
          client_count, \* 0 until the first ESTABLISH
          queue,        \* accel_queue and gyro_queue
          seq,          \* accel_seq and gyro_seq
          lpc, client,  \* the listener: next step, and the sender it serves
          cpc, pushing, \* the capture thread: next step, and its sample
          ppc, batch,   \* the publisher: next step, and the queues it swapped
          session,      \* how often ESTABLISH cleared the queues (history)
          sent          \* sent[s]: the last sequence number sent (history)

listener == <<lpc, client>>
capture == <<cpc, pushing>>
publisher == <<ppc, batch>>
vars == <<client_connected, address, client_count, queue, seq, lpc, client,
          cpc, pushing, ppc, batch, session, sent>>

Empty == [s \in Streams |-> <<>>]
Sample == [seq : 1..MaxSeq, session : 0..MaxSessions]
NoSample == [stream |-> "accel", sample |-> [seq |-> 0, session |-> 0]]

Init == /\ client_connected = FALSE
        /\ address = [ip |-> NoHost, port |-> NoHost]
        /\ client_count = 0
        /\ queue = Empty
        /\ seq = [s \in Streams |-> 0]
        /\ lpc = "off" /\ client = address
        /\ cpc = "idle" /\ pushing = NoSample
        /\ ppc = "init" /\ batch = Empty
        /\ session = 0
        /\ sent = [s \in Streams |-> 0]

KeepsQueues == UNCHANGED queue

ClearImuQueues == queue' = Empty

-----------------------------------------------------------------------------
(* The listener thread: HandleClientCommand, and CommsConnect inside it. *)

AcceptedWithoutCrc(d) == d.len > 0 /\ d.framed

\* Any sender's datagram is obeyed when it is a whole, undamaged frame.
Accepted(d) == d.len > 0 /\ d.framed /\ d.crc_ok

\* A datagram with another msg_id changes nothing.
HandleClientCommand(d) ==
    /\ lpc = "idle"
    /\ Accepted(d)
    /\ \/ /\ d.msg_id = kMsgIdEstablishConnection
          /\ session < MaxSessions
          /\ client' = [ip |-> d.ip, port |-> d.port]
          /\ lpc' = "set_ip"
          /\ UNCHANGED client_connected
       \/ /\ d.msg_id = kMsgIdCloseConnection
          /\ client_connected' = FALSE
          /\ lpc' = "close_clear"
          /\ UNCHANGED client
    /\ UNCHANGED <<address, client_count, queue, seq, capture, publisher, session, sent>>

\* CommsConnect: address, port and count are three unprotected writes.
ConnectIp == /\ lpc = "set_ip"
             /\ address' = [address EXCEPT !.ip = client.ip]
             /\ lpc' = "set_port"
             /\ UNCHANGED <<client_connected, client_count, queue, seq, client,
                            capture, publisher, session, sent>>

ConnectPort == /\ lpc = "set_port"
               /\ address' = [address EXCEPT !.port = client.port]
               /\ lpc' = "set_count"
               /\ UNCHANGED <<client_connected, client_count, queue, seq, client,
                              capture, publisher, session, sent>>

ConnectCount == /\ lpc = "set_count"
                /\ client_count' = IF client_count = 0 THEN 1 ELSE client_count
                /\ lpc' = "clear"
                /\ UNCHANGED <<client_connected, address, queue, seq, client,
                               capture, publisher, session, sent>>

EstablishWithoutClear ==
    /\ lpc = "clear"
    /\ KeepsQueues
    /\ session' = session + 1
    /\ lpc' = "set_connected"
    /\ UNCHANGED <<client_connected, address, client_count, seq, client, capture,
                   publisher, sent>>

EstablishClear ==
    /\ lpc = "clear"
    /\ ClearImuQueues
    /\ session' = session + 1
    /\ lpc' = "set_connected"
    /\ UNCHANGED <<client_connected, address, client_count, seq, client, capture,
                   publisher, sent>>

EstablishConnected ==
    /\ lpc = "set_connected"
    /\ client_connected' = TRUE
    /\ lpc' = "idle"
    /\ UNCHANGED <<address, client_count, queue, seq, client, capture, publisher,
                   session, sent>>

CloseClear ==
    /\ lpc = "close_clear"
    /\ ClearImuQueues
    /\ lpc' = "idle"
    /\ UNCHANGED <<client_connected, address, client_count, seq, client, capture,
                   publisher, session, sent>>

ListenerStep == ConnectIp \/ ConnectPort \/ ConnectCount \/ EstablishClear
                \/ EstablishConnected \/ CloseClear

-----------------------------------------------------------------------------
(* The capture thread: QueueAccelSample and QueueGyroSample. *)

\* The connection is looked at once, and the sequence number taken, before the
\* mutex.  (The history variable session marks the sample.)
TakeSeq(s) ==
    /\ cpc = "idle"
    /\ client_connected
    /\ seq[s] < MaxSeq
    /\ seq' = [seq EXCEPT ![s] = @ + 1]
    /\ pushing' = [stream |-> s, sample |-> [seq |-> seq[s] + 1, session |-> session]]
    /\ cpc' = "push"
    /\ UNCHANGED <<client_connected, address, client_count, queue, listener,
                   publisher, session, sent>>

\* A full queue loses its oldest sample.
Pushed(q, m) == IF Len(q) >= MaxQueue THEN Append(Tail(q), m) ELSE Append(q, m)

PushSample ==
    /\ cpc = "push"
    /\ queue' = [queue EXCEPT ![pushing.stream] = Pushed(@, pushing.sample)]
    /\ cpc' = "idle"
    /\ pushing' = NoSample
    /\ UNCHANGED <<client_connected, address, client_count, seq, listener,
                   publisher, session, sent>>

\* RunRealsenseCapture clears the queues when the camera is lost.
CameraLost == /\ cpc = "idle"
              /\ ClearImuQueues
              /\ UNCHANGED <<client_connected, address, client_count, seq, listener,
                             capture, publisher, session, sent>>

-----------------------------------------------------------------------------
(* The publisher thread: RunImuPublisher. *)

\* A receiver that could not be started is not noticed.
InitUdpReceiver ==
    /\ ppc = "init"
    /\ ppc' = "check"
    /\ lpc' \in {"idle", "off"}
    /\ UNCHANGED <<client_connected, address, client_count, queue, seq, client,
                   capture, batch, session, sent>>

ChecksNothing ==
    /\ ppc = "check"
    /\ ppc' = "swap"
    /\ UNCHANGED <<client_connected, address, client_count, queue, seq, listener,
                   capture, batch, session, sent>>

CheckConnected ==
    /\ ppc = "check"
    /\ ppc' = IF client_connected THEN "swap" ELSE "clear"
    /\ UNCHANGED <<client_connected, address, client_count, queue, seq, listener,
                   capture, batch, session, sent>>

CopiesQueues ==
    /\ ppc = "swap"
    /\ batch' = queue
    /\ KeepsQueues
    /\ ppc' = "send"
    /\ UNCHANGED <<client_connected, address, client_count, seq, listener,
                   capture, session, sent>>

SwapQueues ==
    /\ ppc = "swap"
    /\ batch' = queue
    /\ queue' = Empty
    /\ ppc' = "send"
    /\ UNCHANGED <<client_connected, address, client_count, seq, listener,
                   capture, session, sent>>

\* All accelerometer samples go before all gyroscope samples.
NextStream == IF batch["accel"] # <<>> THEN "accel" ELSE "gyro"

\* A failed send is only logged: the sample is lost.
SendPayload ==
    /\ ppc = "send"
    /\ batch[NextStream] # <<>>
    /\ \/ UNCHANGED sent
       \/ /\ client_count > 0
          /\ sent' = [sent EXCEPT ![NextStream] = Head(batch[NextStream]).seq]
    /\ batch' = [batch EXCEPT ![NextStream] = Tail(@)]
    /\ UNCHANGED <<client_connected, address, client_count, queue, seq, listener,
                   capture, ppc, session>>

BatchSent ==
    /\ ppc = "send"
    /\ batch = Empty
    /\ ppc' = "check"
    /\ UNCHANGED <<client_connected, address, client_count, queue, seq, listener,
                   capture, batch, session, sent>>

DisconnectedClear ==
    /\ ppc = "clear"
    /\ ClearImuQueues
    /\ ppc' = "check"
    /\ UNCHANGED <<client_connected, address, client_count, seq, listener,
                   capture, batch, session, sent>>

RunImuPublisher == InitUdpReceiver \/ CheckConnected \/ SwapQueues \/ SendPayload
                   \/ BatchSent \/ DisconnectedClear

-----------------------------------------------------------------------------
Next == \/ \E d \in Datagrams : HandleClientCommand(d)
        \/ ListenerStep
        \/ \E s \in Streams : TakeSeq(s)
        \/ PushSample \/ CameraLost
        \/ RunImuPublisher

Spec == Init /\ [][Next]_vars

\* Every thread that has a step to take is scheduled; clients and the camera do
\* what they like.
FairSpec == /\ Spec
            /\ WF_vars(ListenerStep)
            /\ WF_vars(PushSample)
            /\ WF_vars(RunImuPublisher)

-----------------------------------------------------------------------------
(* Correctness. *)

\* The type invariant; no queue ever exceeds kMaxImuQueue.
TypeOK ==
    /\ client_connected \in BOOLEAN
    /\ DOMAIN address = {"ip", "port"} /\ DOMAIN client = {"ip", "port"}
    /\ client_count \in 0..1
    /\ queue \in [Streams -> Seq(Sample)] /\ batch \in [Streams -> Seq(Sample)]
    /\ \A s \in Streams : Len(queue[s]) <= MaxQueue /\ Len(batch[s]) <= MaxQueue
    /\ seq \in [Streams -> 0..MaxSeq]
    /\ sent \in [Streams -> 0..MaxSeq]
    /\ session \in 0..MaxSessions
    /\ lpc \in {"off", "idle", "set_ip", "set_port", "set_count", "clear",
                "set_connected", "close_clear"}
    /\ cpc \in {"idle", "push"}
    /\ ppc \in {"init", "check", "swap", "send", "clear"}
    /\ pushing.stream \in Streams
    /\ cpc = "push" => pushing.sample \in Sample

\* A client is only marked connected, and a batch is only being sent, once the
\* handle has a destination: CommsConnect comes before client_connected.
DestinationKnown == client_connected \/ ppc \in {"swap", "send"} => client_count = 1

Increasing(q) == \A i, j \in DOMAIN q : i < j => q[i].seq < q[j].seq
Ordered(b, q) == /\ Increasing(b) /\ Increasing(q)
                 /\ \A i \in DOMAIN b : \A j \in DOMAIN q : b[i].seq < q[j].seq
Within(q, low, high) == \A i \in DOMAIN q : q[i].seq \in low..high

\* The newest sample of a stream that is not still on its way to the queue.
IsPushing(s) == cpc = "push" /\ pushing.stream = s
Newest(s) == IF IsPushing(s) THEN seq[s] - 1 ELSE seq[s]

\* In each stream what was sent, what is being sent, what is queued and what is
\* about to be queued come in this order, with strictly increasing numbers: no
\* interleaving of swap, overflow, clear and push repeats or reorders samples.
StreamsInOrder ==
    \A s \in Streams :
        /\ Ordered(batch[s], queue[s])
        /\ Within(batch[s], sent[s] + 1, Newest(s))
        /\ Within(queue[s], sent[s] + 1, Newest(s))
        /\ IsPushing(s) => pushing.sample.seq = seq[s]
        /\ sent[s] <= Newest(s)

\* ESTABLISH clears the queues so that a new session starts without old samples.
\* Since the capture thread checks the connection before it takes the mutex, one
\* sample of an earlier session can still slip in, but never more than one.
Stale(s) == {i \in DOMAIN queue[s] : queue[s][i].session < session}
AtMostOneStaleSample ==
    Cardinality(Stale("accel")) + Cardinality(Stale("gyro")) <= 1

\* The addresses a whole, undamaged ESTABLISH came from.
Clients == {[ip |-> d.ip, port |-> d.port] :
               d \in {e \in Datagrams : /\ e.len > 0 /\ e.framed /\ e.crc_ok
                                        /\ e.msg_id = kMsgIdEstablishConnection}}

\* README: samples are sent "when the client sends MSGID_ESTABLISH_CONNECTION".
\* Every sample goes to the client that established the newest session, on whatever
\* hosts the clients are.  While CommsConnect stores that client's address, a sample
\* goes to the client before it, and between the two stores to the ip of the new one
\* and a port of an earlier one: never anywhere else.
SentToAClient ==
    [][sent' # sent =>
          /\ client \in Clients
          /\ lpc \notin {"set_ip", "set_port"} => address = client
          /\ lpc = "set_ip" => address \in Clients
          /\ lpc = "set_port" => /\ address.ip = client.ip
                                 /\ \E c \in Clients : address.port = c.port]_vars

\* After the last CLOSE the sending stops: the publisher falls silent for good.
SilentAfterClose == <>[](~client_connected) => <>[](ppc \notin {"swap", "send"})

-----------------------------------------------------------------------------
(* Each stream is a SampleStream. *)

Stream == INSTANCE SampleStream WITH produced <- seq, delivered <- sent

\* The streams a client sees never repeat, reorder or invent a sample.
ImplementsSampleStream == Stream!Spec
=============================================================================
