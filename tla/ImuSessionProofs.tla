-------------------------- MODULE ImuSessionProofs --------------------------
(***************************************************************************)
(* Theorems about ImuSession, for every set of datagrams, queue size and   *)
(* number of samples and sessions.                                         *)
(***************************************************************************)
EXTENDS ImuSession, FiniteSetTheorems, TLAPS

-----------------------------------------------------------------------------
(* Lemmas about the queues. *)

\* A push drops the oldest sample of a full queue, shifts the others and puts the
\* new one last.
LEMMA PushedElements ==
  ASSUME NEW q \in Seq(Sample), NEW m \in Sample, Len(q) <= MaxQueue
  PROVE  LET k == IF Len(q) >= MaxQueue THEN 1 ELSE 0
             p == Pushed(q, m)
         IN  /\ p \in Seq(Sample)
             /\ Len(q) - k >= 0
             /\ Len(p) = Len(q) - k + 1
             /\ Len(p) <= MaxQueue
             /\ \A i \in 1..(Len(q) - k) : p[i] = q[i + k]
             /\ p[Len(p)] = m
<1>1. MaxQueue \in Nat \ {0}
  BY ConstantsAssumption
<1>2. CASE Len(q) >= MaxQueue
  <2>1. q # <<>>
    BY <1>1, <1>2
  <2>2. /\ Tail(q) \in Seq(Sample)
        /\ Len(Tail(q)) = Len(q) - 1
        /\ \A i \in 1..(Len(q) - 1) : Tail(q)[i] = q[i + 1]
    BY <2>1
  <2>3. Pushed(q, m) = Append(Tail(q), m)
    BY <1>2 DEF Pushed
  <2> HIDE DEF Pushed, Sample
  <2> QED
    BY <1>1, <1>2, <2>1, <2>2, <2>3
<1>3. CASE Len(q) < MaxQueue
  <2>1. Pushed(q, m) = Append(q, m)
    BY <1>1, <1>3 DEF Pushed
  <2> QED
    BY <1>1, <1>3, <2>1
<1> QED
  BY <1>1, <1>2, <1>3

\* The head of an increasing sequence is below every other element.
LEMMA TailElements ==
  ASSUME NEW q \in Seq(Sample), q # <<>>
  PROVE  /\ Tail(q) \in Seq(Sample)
         /\ Len(Tail(q)) = Len(q) - 1
         /\ \A i \in 1..(Len(q) - 1) : Tail(q)[i] = q[i + 1]
         /\ Head(q) = q[1] /\ Head(q) \in Sample /\ 1 \in DOMAIN q
  OBVIOUS

-----------------------------------------------------------------------------
(* The inductive invariant. *)

\* Only the sending publisher holds a batch, and the address is complete before
\* the listener goes on to clear the queues and set client_connected.
ThreadInv == /\ ppc # "send" => batch = Empty
             /\ lpc \in {"clear", "set_connected"} => client_count = 1
             /\ lpc \in {"set_ip", "set_port", "set_count", "clear"} =>
                    session < MaxSessions

IInv == TypeOK /\ DestinationKnown /\ StreamsInOrder /\ ThreadInv

LEMMA InitIInv == Init => IInv
<1> SUFFICES ASSUME Init PROVE IInv
  OBVIOUS
<1>1. MaxQueue \in Nat /\ MaxSeq \in Nat /\ MaxSessions \in Nat
  BY ConstantsAssumption
<1>2. 0 \in 0..MaxSeq /\ 0 \in 0..MaxSessions /\ 0 <= MaxQueue
  BY <1>1
<1>3. Empty \in [Streams -> Seq(Sample)] /\ \A s \in Streams : Len(Empty[s]) = 0
  BY DEF Empty
<1>4. queue \in [Streams -> Seq(Sample)] /\ batch \in [Streams -> Seq(Sample)]
      /\ \A s \in Streams : Len(queue[s]) <= MaxQueue /\ Len(batch[s]) <= MaxQueue
  BY <1>2, <1>3 DEF Init
<1>5. seq \in [Streams -> 0..MaxSeq] /\ sent \in [Streams -> 0..MaxSeq]
  BY <1>2 DEF Init
<1>6. DOMAIN address = {"ip", "port"} /\ DOMAIN client = {"ip", "port"}
  BY DEF Init
<1>7. TypeOK
  <2>1. pushing.stream \in Streams /\ (cpc = "push" => pushing.sample \in Sample)
    BY DEF Init, NoSample, Streams
  <2>2. /\ client_connected = FALSE /\ client_count = 0 /\ session = 0
        /\ lpc = "off" /\ cpc = "idle" /\ ppc = "init"
    BY DEF Init
  <2>3. client_count \in 0..1 /\ session \in 0..MaxSessions
    BY <1>2, <2>2
  <2>5. client_connected \in BOOLEAN
    BY <2>2
  <2>4. /\ lpc \in {"off", "idle", "set_ip", "set_port", "set_count", "clear",
                    "set_connected", "close_clear"}
        /\ cpc \in {"idle", "push"}
        /\ ppc \in {"init", "check", "swap", "send", "clear"}
    BY <2>2
  <2> QED
    BY <1>4, <1>5, <1>6, <2>1, <2>3, <2>4, <2>5 DEF TypeOK
<1>8. DestinationKnown /\ ThreadInv
  BY DEF Init, DestinationKnown, ThreadInv
<1>9. StreamsInOrder
  BY <1>3, <1>5
     DEF Init, StreamsInOrder, Ordered, Increasing, Within, Newest, IsPushing, Empty
<1> QED
  BY <1>7, <1>8, <1>9 DEF IInv

\* What the order of the streams depends on.
streams == <<queue, batch, seq, sent, cpc, pushing>>

LEMMA OrderUnchanged == StreamsInOrder /\ UNCHANGED streams => StreamsInOrder'
  BY DEF StreamsInOrder, streams, Ordered, Increasing, Within, Newest, IsPushing

\* Clearing the queues keeps the order of what remains.
LEMMA ClearKeepsOrder ==
  ASSUME IInv, ClearImuQueues, UNCHANGED <<batch, seq, sent, cpc, pushing>>
  PROVE  /\ StreamsInOrder'
         /\ queue' \in [Streams -> Seq(Sample)]
         /\ \A s \in Streams : Len(queue'[s]) <= MaxQueue
<1>1. /\ queue' = Empty /\ Empty \in [Streams -> Seq(Sample)]
      /\ \A s \in Streams : Empty[s] = <<>> /\ Len(Empty[s]) = 0
  BY DEF ClearImuQueues, Empty
<1>2. MaxQueue \in Nat
  BY ConstantsAssumption
<1>3. \A s \in Streams : DOMAIN queue'[s] = {}
  BY <1>1
<1>4. StreamsInOrder'
  BY <1>3 DEF IInv, StreamsInOrder, Ordered, Increasing, Within, Newest, IsPushing
<1> QED
  BY <1>1, <1>2, <1>4

\* The steps of the listener.
LEMMA ListenerKeepsIInv ==
  ASSUME IInv, ListenerStep \/ \E d \in Datagrams : HandleClientCommand(d)
  PROVE  IInv'
<1> USE DEF listener, capture, publisher
<1>1. ASSUME NEW d \in Datagrams, HandleClientCommand(d)
      PROVE  IInv'
  <2>1. StreamsInOrder'
    BY <1>1, OrderUnchanged DEF HandleClientCommand, IInv, streams
  <2>2. TypeOK'
    BY <1>1 DEF HandleClientCommand, IInv, TypeOK
  <2>3. DestinationKnown' /\ ThreadInv'
    BY <1>1 DEF HandleClientCommand, IInv, DestinationKnown, ThreadInv, TypeOK
  <2> QED
    BY <2>1, <2>2, <2>3 DEF IInv
<1>2. CASE ConnectIp \/ ConnectPort \/ ConnectCount \/ EstablishConnected
  <2>1. StreamsInOrder'
    BY <1>2, OrderUnchanged
       DEF ConnectIp, ConnectPort, ConnectCount, EstablishConnected, IInv, streams
  <2>2. TypeOK'
    <3>1. DOMAIN address' = {"ip", "port"} /\ DOMAIN client' = {"ip", "port"}
      BY <1>2 DEF ConnectIp, ConnectPort, ConnectCount, EstablishConnected, IInv, TypeOK
    <3>2. client_connected' \in BOOLEAN
      BY <1>2 DEF ConnectIp, ConnectPort, ConnectCount, EstablishConnected, IInv, TypeOK
    <3> QED
      BY <1>2, <3>1, <3>2
         DEF ConnectIp, ConnectPort, ConnectCount, EstablishConnected, IInv, TypeOK
  <2>3. DestinationKnown' /\ ThreadInv'
    BY <1>2 DEF ConnectIp, ConnectPort, ConnectCount, EstablishConnected, IInv, TypeOK,
                DestinationKnown, ThreadInv
  <2> QED
    BY <2>1, <2>2, <2>3 DEF IInv
<1>3. CASE EstablishClear \/ CloseClear
  <2>1. /\ StreamsInOrder'
        /\ queue' \in [Streams -> Seq(Sample)]
        /\ \A s \in Streams : Len(queue'[s]) <= MaxQueue
    BY <1>3, ClearKeepsOrder DEF EstablishClear, CloseClear
  <2>2. TypeOK'
    BY <1>3, <2>1, ConstantsAssumption
       DEF EstablishClear, CloseClear, IInv, TypeOK, ThreadInv
  <2>3. DestinationKnown' /\ ThreadInv'
    BY <1>3 DEF EstablishClear, CloseClear, IInv, DestinationKnown, ThreadInv
  <2> QED
    BY <2>1, <2>2, <2>3 DEF IInv
<1> QED
  BY <1>1, <1>2, <1>3 DEF ListenerStep

\* The steps of the capture thread.
LEMMA TakeSeqKeepsIInv ==
  ASSUME IInv, NEW s \in Streams, TakeSeq(s)
  PROVE  IInv'
<1> USE DEF listener, capture, publisher
<1>1. /\ seq[s] + 1 \in 1..MaxSeq /\ seq[s] \in Nat
      /\ seq' = [seq EXCEPT ![s] = seq[s] + 1] /\ seq' \in [Streams -> 0..MaxSeq]
  BY ConstantsAssumption DEF TakeSeq, IInv, TypeOK
<1>2. /\ pushing'.stream = s
      /\ pushing'.sample = [seq |-> seq[s] + 1, session |-> session]
      /\ pushing'.sample \in Sample
  BY <1>1 DEF TakeSeq, IInv, TypeOK, Sample
<1>3. TypeOK'
  BY <1>1, <1>2 DEF TakeSeq, IInv, TypeOK
<1>4. DestinationKnown' /\ ThreadInv'
  BY DEF TakeSeq, IInv, DestinationKnown, ThreadInv
<1>5. \A t \in Streams : Newest(t)' = Newest(t)
  BY <1>1, <1>2 DEF TakeSeq, Newest, IsPushing, IInv, TypeOK
<1>6. \A t \in Streams : IsPushing(t)' => pushing'.sample.seq = seq'[t]
  BY <1>1, <1>2 DEF TakeSeq, IsPushing, IInv, TypeOK
<1>7. StreamsInOrder'
  BY <1>5, <1>6 DEF TakeSeq, IInv, StreamsInOrder, Ordered, Increasing, Within
<1> QED
  BY <1>3, <1>4, <1>7 DEF IInv

LEMMA PushKeepsIInv ==
  ASSUME IInv, PushSample
  PROVE  IInv'
<1> USE DEF listener, capture, publisher
<1> DEFINE s == pushing.stream
           m == pushing.sample
           q == queue[s]
           b == batch[s]
           p == Pushed(q, m)
           k == IF Len(q) >= MaxQueue THEN 1 ELSE 0
<1>a. MaxSeq \in Nat /\ \A x \in Sample : x.seq \in Nat
  BY ConstantsAssumption DEF Sample
<1>b. s \in Streams /\ m \in Sample /\ IsPushing(s)
  BY DEF PushSample, IInv, TypeOK, IsPushing
<1>c. q \in Seq(Sample) /\ b \in Seq(Sample) /\ Len(q) <= MaxQueue
  BY <1>b DEF IInv, TypeOK
<1>d. seq[s] \in Nat /\ sent[s] \in Nat
  BY <1>a, <1>b DEF IInv, TypeOK
<1>e. m.seq = seq[s]
  BY <1>b DEF IInv, StreamsInOrder
<1>1. /\ s \in Streams /\ m \in Sample /\ IsPushing(s) /\ q \in Seq(Sample)
      /\ b \in Seq(Sample) /\ Len(q) <= MaxQueue /\ m.seq = seq[s] /\ m.seq \in Nat
      /\ seq[s] \in Nat /\ sent[s] \in Nat /\ \A x \in Sample : x.seq \in Nat
  BY <1>a, <1>b, <1>c, <1>d, <1>e
<1>2. /\ p \in Seq(Sample) /\ Len(q) - k >= 0 /\ Len(p) = Len(q) - k + 1
      /\ Len(p) <= MaxQueue /\ p[Len(p)] = m
      /\ \A i \in 1..(Len(q) - k) : p[i] = q[i + k]
  BY <1>1, PushedElements
<1>3. queue' = [queue EXCEPT ![s] = p] /\ queue'[s] = p
  BY <1>1 DEF PushSample, IInv, TypeOK
<1>4. TypeOK'
  <2>1. queue' \in [Streams -> Seq(Sample)] /\ \A t \in Streams : Len(queue'[t]) <= MaxQueue
    BY <1>1, <1>2, <1>3 DEF IInv, TypeOK
  <2>2. pushing'.stream \in Streams /\ cpc' = "idle"
    BY DEF PushSample, NoSample, Streams
  <2> QED
    BY <2>1, <2>2 DEF PushSample, IInv, TypeOK
<1>5. DestinationKnown' /\ ThreadInv'
  BY DEF PushSample, IInv, DestinationKnown, ThreadInv
<1>6. \A t \in Streams : ~IsPushing(t)' /\ Newest(t)' = seq[t]
  BY DEF PushSample, IsPushing, Newest
<1>7. /\ Increasing(q) /\ Increasing(b) /\ Within(q, sent[s] + 1, seq[s] - 1)
      /\ Within(b, sent[s] + 1, seq[s] - 1) /\ sent[s] <= seq[s] - 1
      /\ \A i \in DOMAIN b : \A j \in DOMAIN q : b[i].seq < q[j].seq
  BY <1>1 DEF IInv, StreamsInOrder, Ordered, Newest
<1>k. k \in {0, 1}
  OBVIOUS
<1> HIDE DEF s, m, q, b, p, k
<1>8. DOMAIN q = 1..Len(q) /\ DOMAIN p = 1..Len(p) /\ DOMAIN b = 1..Len(b)
      /\ Len(q) \in Nat /\ Len(b) \in Nat /\ k \in {0, 1}
  BY <1>1, <1>2, <1>k
<1>9. \A i \in DOMAIN p : \/ i = Len(p) /\ p[i] = m
                          \/ i < Len(p) /\ i + k \in DOMAIN q /\ p[i] = q[i + k]
  <2>1. p[Len(p)] = m /\ Len(p) = Len(q) - k + 1
    BY <1>2
  <2>2. ASSUME NEW i \in DOMAIN p, i # Len(p)
        PROVE  i < Len(p) /\ i + k \in DOMAIN q /\ i \in 1..(Len(q) - k)
    BY <2>1, <2>2, <1>8
  <2>3. \A i \in 1..(Len(q) - k) : p[i] = q[i + k]
    BY <1>2
  <2> TAKE i \in DOMAIN p
  <2>4. CASE i = Len(p)
    BY <2>1, <2>4
  <2>5. CASE i # Len(p)
    BY <2>2, <2>3, <2>5
  <2> QED
    BY <2>4, <2>5
<1>10. Increasing(p)
  <2> SUFFICES ASSUME NEW i \in DOMAIN p, NEW j \in DOMAIN p, i < j
               PROVE  p[i].seq < p[j].seq
    BY DEF Increasing
  <2>1. i < Len(p) /\ i + k \in DOMAIN q /\ p[i] = q[i + k]
    BY <1>8, <1>9
  <2>2. CASE j = Len(p)
    BY <2>1, <2>2, <1>1, <1>2, <1>7 DEF Within
  <2>3. CASE j < Len(p)
    <3>1. j + k \in DOMAIN q /\ p[j] = q[j + k] /\ i + k < j + k
      BY <2>3, <1>8, <1>9
    <3> QED
      BY <2>1, <3>1, <1>7 DEF Increasing
  <2> QED
    BY <2>2, <2>3, <1>8
<1>11. Within(p, sent[s] + 1, seq[s])
  <2> SUFFICES ASSUME NEW i \in DOMAIN p
               PROVE  p[i].seq \in (sent[s] + 1)..seq[s]
    BY DEF Within
  <2>1. CASE i = Len(p)
    BY <2>1, <1>1, <1>2, <1>7
  <2>2. CASE i < Len(p)
    <3>1. i + k \in DOMAIN q /\ p[i] = q[i + k]
      BY <2>2, <1>9
    <3> QED
      BY <3>1, <1>1, <1>7 DEF Within
  <2> QED
    BY <2>1, <2>2, <1>8
<1>12. \A i \in DOMAIN b : \A j \in DOMAIN p : b[i].seq < p[j].seq
  <2> SUFFICES ASSUME NEW i \in DOMAIN b, NEW j \in DOMAIN p
               PROVE  b[i].seq < p[j].seq
    OBVIOUS
  <2>1. CASE j = Len(p)
    BY <2>1, <1>1, <1>2, <1>7 DEF Within
  <2>2. CASE j < Len(p)
    <3>1. j + k \in DOMAIN q /\ p[j] = q[j + k]
      BY <2>2, <1>9
    <3> QED
      BY <3>1, <1>7
  <2> QED
    BY <2>1, <2>2, <1>8
<1>13. Within(b, sent[s] + 1, seq[s])
  BY <1>1, <1>7 DEF Within
<1>14. ASSUME NEW t \in Streams
       PROVE  /\ Ordered(batch'[t], queue'[t])
              /\ Within(batch'[t], sent'[t] + 1, seq'[t])
              /\ Within(queue'[t], sent'[t] + 1, seq'[t])
              /\ sent'[t] <= seq'[t]
  <2>1. batch'[t] = batch[t] /\ sent'[t] = sent[t] /\ seq'[t] = seq[t]
    BY DEF PushSample
  <2>2. CASE t = s
    BY <2>1, <2>2, <1>1, <1>3, <1>7, <1>10, <1>11, <1>12, <1>13 DEF Ordered, b
  <2>3. CASE t # s
    <3>1. queue'[t] = queue[t]
      BY <2>3, <1>3 DEF IInv, TypeOK
    <3>2. ~IsPushing(t)
      BY <2>3 DEF IsPushing, s
    <3> QED
      BY <2>1, <3>1, <3>2 DEF IInv, StreamsInOrder, Newest
  <2> QED
    BY <2>2, <2>3
<1>15. StreamsInOrder'
  BY <1>6, <1>14 DEF StreamsInOrder, Ordered, Increasing, Within, PushSample
<1> QED
  BY <1>4, <1>5, <1>15 DEF IInv

\* The steps of the publisher.
LEMMA SwapKeepsIInv ==
  ASSUME IInv, SwapQueues
  PROVE  IInv'
<1> USE DEF listener, capture, publisher
<1>1. /\ batch = Empty /\ batch' = queue /\ queue' = Empty
      /\ UNCHANGED <<seq, sent, cpc, pushing>>
  BY DEF SwapQueues, IInv, ThreadInv
<1>2. /\ Empty \in [Streams -> Seq(Sample)] /\ MaxQueue \in Nat
      /\ \A s \in Streams : Len(Empty[s]) = 0 /\ DOMAIN Empty[s] = {}
  BY ConstantsAssumption DEF Empty
<1>3. TypeOK'
  BY <1>1, <1>2 DEF SwapQueues, IInv, TypeOK
<1>4. DestinationKnown' /\ ThreadInv'
  BY <1>1 DEF SwapQueues, IInv, DestinationKnown, ThreadInv
<1>5. StreamsInOrder'
  BY <1>1, <1>2
     DEF IInv, StreamsInOrder, Ordered, Increasing, Within, Newest, IsPushing
<1> QED
  BY <1>3, <1>4, <1>5 DEF IInv

LEMMA SendKeepsIInv ==
  ASSUME IInv, SendPayload
  PROVE  /\ IInv'
         /\ sent' # sent =>
               \E n \in (sent[NextStream] + 1)..seq[NextStream] :
                  sent' = [sent EXCEPT ![NextStream] = n]
<1> USE DEF listener, capture, publisher
<1>0. NextStream \in Streams
  BY DEF NextStream, Streams
<1> PICK s \in Streams : s = NextStream
  BY <1>0
<1> DEFINE b == batch[s]
<1>1. MaxSeq \in Nat /\ \A x \in Sample : x.seq \in 1..MaxSeq
  BY ConstantsAssumption DEF Sample
<1>2. s \in Streams /\ b # <<>>
  BY DEF SendPayload, NextStream, Streams
<1>3. b \in Seq(Sample) /\ Len(b) <= MaxQueue /\ MaxQueue \in Nat
  BY <1>2, ConstantsAssumption DEF IInv, TypeOK
<1>4. /\ Tail(b) \in Seq(Sample) /\ Len(Tail(b)) = Len(b) - 1
      /\ \A i \in 1..(Len(b) - 1) : Tail(b)[i] = b[i + 1]
      /\ Head(b) = b[1] /\ Head(b) \in Sample /\ 1 \in DOMAIN b
      /\ DOMAIN b = 1..Len(b) /\ DOMAIN Tail(b) = 1..(Len(b) - 1) /\ Len(b) \in Nat
  BY <1>2, <1>3, TailElements
<1>5. batch' = [batch EXCEPT ![s] = Tail(b)]
  BY DEF SendPayload
<1>6. /\ sent \in [Streams -> 0..MaxSeq] /\ seq \in [Streams -> 0..MaxSeq]
      /\ seq' = seq /\ queue' = queue /\ cpc' = cpc /\ pushing' = pushing
  BY DEF SendPayload, IInv, TypeOK
<1>7. sent' = sent \/ sent' = [sent EXCEPT ![s] = Head(b).seq]
  BY DEF SendPayload
<1>8. Newest(s) \in Int /\ Newest(s) <= seq[s] /\ Newest(s)' = Newest(s)
  <2>1. seq[s] \in Int
    BY <1>1, <1>6
  <2> QED
    BY <2>1, <1>6 DEF Newest, IsPushing
<1> HIDE DEF b
<1>9. /\ Increasing(b) /\ Within(b, sent[s] + 1, Newest(s))
      /\ \A i \in DOMAIN b : \A j \in DOMAIN queue[s] : b[i].seq < queue[s][j].seq
      /\ Increasing(queue[s]) /\ Within(queue[s], sent[s] + 1, Newest(s))
      /\ sent[s] <= Newest(s) /\ (IsPushing(s) => pushing.sample.seq = seq[s])
  BY <1>2 DEF IInv, StreamsInOrder, Ordered, b
<1>10. Head(b).seq \in (sent[s] + 1)..Newest(s) /\ Head(b).seq \in 0..MaxSeq
  BY <1>1, <1>4, <1>9 DEF Within
<1>11. /\ batch'[s] = Tail(b)
       /\ \A t \in Streams : t # s => batch'[t] = batch[t] /\ sent'[t] = sent[t]
       /\ sent'[s] \in {sent[s], Head(b).seq}
  BY <1>2, <1>5, <1>6, <1>7 DEF IInv, TypeOK
<1>12. TypeOK'
  <2>1. batch' \in [Streams -> Seq(Sample)] /\ \A t \in Streams : Len(batch'[t]) <= MaxQueue
    BY <1>2, <1>3, <1>4, <1>5, <1>11 DEF IInv, TypeOK
  <2>2. sent' \in [Streams -> 0..MaxSeq]
    BY <1>2, <1>6, <1>7, <1>10
  <2> QED
    BY <2>1, <2>2 DEF SendPayload, IInv, TypeOK
<1>13. DestinationKnown' /\ ThreadInv'
  BY DEF SendPayload, IInv, DestinationKnown, ThreadInv
<1>14. /\ Increasing(Tail(b)) /\ Within(Tail(b), sent'[s] + 1, Newest(s))
       /\ \A i \in DOMAIN Tail(b) : \A j \in DOMAIN queue[s] : Tail(b)[i].seq < queue[s][j].seq
       /\ Within(queue[s], sent'[s] + 1, Newest(s)) /\ sent'[s] <= Newest(s)
  <2>1. \A i \in DOMAIN Tail(b) : /\ i \in Nat /\ i + 1 \in DOMAIN b /\ 1 < i + 1
                                 /\ Tail(b)[i] = b[i + 1]
    BY <1>4
  <2>2. Increasing(Tail(b))
    BY <2>1, <1>9 DEF Increasing
  <2>3. \A i \in DOMAIN Tail(b) : Head(b).seq < Tail(b)[i].seq /\ Tail(b)[i].seq \in Int
    BY <2>1, <1>4, <1>9, <1>8 DEF Increasing, Within
  <2>4. Within(Tail(b), sent'[s] + 1, Newest(s))
    BY <2>1, <2>3, <1>8, <1>9, <1>10, <1>11, <1>2, <1>6 DEF Within
  <2>5. \A i \in DOMAIN Tail(b) : \A j \in DOMAIN queue[s] : Tail(b)[i].seq < queue[s][j].seq
    BY <2>1, <1>9
  <2>6. Within(queue[s], sent'[s] + 1, Newest(s)) /\ sent'[s] <= Newest(s)
    <3>1. \A j \in DOMAIN queue[s] : Head(b).seq < queue[s][j].seq
      BY <1>4, <1>9
    <3>2. CASE sent'[s] = sent[s]
      BY <3>2, <1>9
    <3>3. CASE sent'[s] = Head(b).seq
      <4>1. Head(b).seq \in Int /\ sent[s] \in Int
        BY <1>2, <1>6, <1>10
      <4> QED
        BY <3>1, <3>3, <4>1, <1>8, <1>9, <1>10 DEF Within
    <3> QED
      BY <3>2, <3>3, <1>11
  <2> QED
    BY <2>2, <2>4, <2>5, <2>6
<1>15. ASSUME NEW t \in Streams
       PROVE  /\ Ordered(batch[t], queue[t])'
              /\ Within(batch[t], sent[t] + 1, Newest(t))'
              /\ Within(queue[t], sent[t] + 1, Newest(t))'
              /\ IsPushing(t)' => pushing'.sample.seq = seq'[t]
              /\ (sent[t] <= Newest(t))'
  <2>1. CASE t = s
    BY <2>1, <1>6, <1>8, <1>9, <1>11, <1>14
       DEF Ordered, IsPushing, Increasing, Within
  <2>2. CASE t # s
    BY <2>2, <1>6, <1>11
       DEF IInv, StreamsInOrder, Ordered, Increasing, Within, Newest, IsPushing
  <2> QED
    BY <2>1, <2>2
<1>16. StreamsInOrder'
  BY <1>15 DEF StreamsInOrder
<1>17. sent' # sent => \E n \in (sent[s] + 1)..seq[s] : sent' = [sent EXCEPT ![s] = n]
  BY <1>2, <1>6, <1>7, <1>8, <1>10
<1> QED
  BY <1>12, <1>13, <1>16, <1>17 DEF IInv

LEMMA PublisherKeepsIInv ==
  ASSUME IInv, RunImuPublisher
  PROVE  IInv'
<1> USE DEF listener, capture, publisher
<1>1. CASE InitUdpReceiver \/ CheckConnected \/ BatchSent
  <2>1. StreamsInOrder'
    BY <1>1, OrderUnchanged DEF InitUdpReceiver, CheckConnected, BatchSent, IInv, streams
  <2>2. TypeOK'
    BY <1>1 DEF InitUdpReceiver, CheckConnected, BatchSent, IInv, TypeOK
  <2>3. DestinationKnown' /\ ThreadInv'
    BY <1>1
       DEF InitUdpReceiver, CheckConnected, BatchSent, IInv, DestinationKnown, ThreadInv
  <2> QED
    BY <2>1, <2>2, <2>3 DEF IInv
<1>2. CASE DisconnectedClear
  <2>1. /\ StreamsInOrder'
        /\ queue' \in [Streams -> Seq(Sample)]
        /\ \A s \in Streams : Len(queue'[s]) <= MaxQueue
    BY <1>2, ClearKeepsOrder DEF DisconnectedClear
  <2>2. TypeOK'
    BY <1>2, <2>1 DEF DisconnectedClear, IInv, TypeOK
  <2>3. DestinationKnown' /\ ThreadInv'
    BY <1>2 DEF DisconnectedClear, IInv, DestinationKnown, ThreadInv
  <2> QED
    BY <2>1, <2>2, <2>3 DEF IInv
<1> QED
  BY <1>1, <1>2, SwapKeepsIInv, SendKeepsIInv DEF RunImuPublisher

\* The camera's loss clears the queues in the capture thread.
LEMMA CameraLostKeepsIInv ==
  ASSUME IInv, CameraLost
  PROVE  IInv'
<1> USE DEF listener, capture, publisher
<1>1. /\ StreamsInOrder'
      /\ queue' \in [Streams -> Seq(Sample)]
      /\ \A s \in Streams : Len(queue'[s]) <= MaxQueue
  BY ClearKeepsOrder DEF CameraLost
<1>2. TypeOK'
  BY <1>1 DEF CameraLost, IInv, TypeOK
<1>3. DestinationKnown' /\ ThreadInv'
  BY DEF CameraLost, IInv, DestinationKnown, ThreadInv
<1> QED
  BY <1>1, <1>2, <1>3 DEF IInv

LEMMA StutterKeepsIInv == IInv /\ UNCHANGED vars => IInv'
  BY DEF vars, IInv, TypeOK, DestinationKnown, ThreadInv, StreamsInOrder, Ordered,
         Increasing, Within, Newest, IsPushing

LEMMA NextIInv == IInv /\ [Next]_vars => IInv'
  BY ListenerKeepsIInv, TakeSeqKeepsIInv, PushKeepsIInv, CameraLostKeepsIInv,
     PublisherKeepsIInv, StutterKeepsIInv DEF Next

LEMMA SpecIInv == Spec => []IInv
  BY InitIInv, NextIInv, PTL DEF Spec

-----------------------------------------------------------------------------
(* Theorems. *)

\* The types hold, and no queue exceeds its limit.
THEOREM TypeCorrect == Spec => []TypeOK
  BY SpecIInv, PTL DEF IInv

\* Samples are only sent once the handle has a destination.
THEOREM DestinationAlwaysKnown == Spec => []DestinationKnown
  BY SpecIInv, PTL DEF IInv

\* Sent, swapped, queued and arriving samples of a stream are always in order.
THEOREM StreamsStayInOrder == Spec => []StreamsInOrder
  BY SpecIInv, PTL DEF IInv

-----------------------------------------------------------------------------
(* Stale samples. *)

\* No two queued samples are stale, and none is while a stale one is on its way.
OneStale == /\ \A s, t \in Streams : \A i \in Stale(s) : \A j \in Stale(t) : s = t /\ i = j
            /\ cpc = "push" /\ pushing.sample.session < session
                   => \A s \in Streams : Stale(s) = {}

\* What OneStale depends on.
staleness == <<queue, session, cpc, pushing>>

LEMMA ClearLeavesNone ==
  ASSUME queue' = Empty
  PROVE  OneStale'
<1>1. \A s \in Streams : DOMAIN queue'[s] = {}
  BY DEF Empty
<1>2. \A s \in Streams : Stale(s)' = {}
  BY <1>1 DEF Stale
<1> QED
  BY <1>2 DEF OneStale

\* A push moves the stale sample, if there is one, or adds the only one.
LEMMA PushKeepsOneStale ==
  ASSUME IInv, OneStale, PushSample
  PROVE  OneStale'
<1>0. PICK st \in Streams : st = pushing.stream
  BY DEF IInv, TypeOK
<1> DEFINE m == pushing.sample
           q == queue[st]
           p == Pushed(q, m)
           k == IF Len(q) >= MaxQueue THEN 1 ELSE 0
<1>1. /\ st \in Streams /\ m \in Sample /\ q \in Seq(Sample) /\ Len(q) <= MaxQueue
      /\ cpc = "push" /\ cpc' = "idle" /\ session' = session
      /\ queue' = [queue EXCEPT ![st] = p]
  BY <1>0 DEF PushSample, IInv, TypeOK
<1>2. /\ p \in Seq(Sample) /\ Len(p) = Len(q) - k + 1 /\ p[Len(p)] = m
      /\ \A i \in 1..(Len(q) - k) : p[i] = q[i + k]
  BY <1>1, PushedElements
<1>3. queue'[st] = p /\ \A t \in Streams : t # st => queue'[t] = queue[t]
  BY <1>1 DEF IInv, TypeOK
<1>4. k \in {0, 1}
  OBVIOUS
<1> HIDE DEF m, q, p, k
<1>5. DOMAIN p = 1..Len(p) /\ DOMAIN q = 1..Len(q) /\ Len(q) \in Nat /\ Len(p) \in Nat
  BY <1>1, <1>2
<1>6. ASSUME NEW i \in Stale(st)'
      PROVE  i \in Nat /\ ((i = Len(p) /\ m.session < session) \/ i + k \in Stale(st))
  <2>1. i \in DOMAIN p /\ p[i].session < session
    BY <1>1, <1>3, <1>6 DEF Stale
  <2>2. i = Len(p) \/ (i \in 1..(Len(q) - k) /\ i + k \in DOMAIN q)
    <3>1. i \in 1..Len(p) /\ Len(p) = Len(q) - k + 1
      BY <1>2, <1>5, <2>1
    <3>2. i # Len(p) => i \in 1..(Len(q) - k) /\ i + k \in 1..Len(q)
      BY <1>4, <1>5, <3>1
    <3>3. DOMAIN q = 1..Len(q)
      BY <1>5
    <3> QED
      BY <3>2, <3>3
  <2> QED
    BY <1>2, <1>5, <2>1, <2>2 DEF Stale, q
<1>7. \A t \in Streams : t # st => Stale(t)' = Stale(t)
  BY <1>1, <1>3 DEF Stale
<1>8. CASE m.session < session
  <2>1. \A t \in Streams : Stale(t) = {}
    BY <1>1, <1>8 DEF OneStale, m
  <2>2. \A t \in Streams : \A i \in Stale(t)' : t = st /\ i = Len(p)
    BY <1>1, <1>6, <1>7, <2>1
  <2> QED
    BY <1>1, <2>2 DEF OneStale
<1>9. CASE ~(m.session < session)
  <2>1. \A i \in Stale(st)' : i \in Nat /\ i + k \in Stale(st)
    BY <1>6, <1>9
  <2>2. ASSUME NEW s \in Streams, NEW t \in Streams, NEW i \in Stale(s)', NEW j \in Stale(t)'
        PROVE  s = t /\ i = j
    <3>1. CASE s = st /\ t = st
      <4>1. i \in Nat /\ j \in Nat /\ i + k \in Stale(st) /\ j + k \in Stale(st)
        BY <2>1, <2>2, <3>1
      <4>2. i + k = j + k
        BY <1>1, <4>1 DEF OneStale
      <4> QED
        BY <1>4, <3>1, <4>1, <4>2
    <3>2. CASE s = st /\ t # st
      BY <1>1, <1>7, <2>1, <2>2, <3>2 DEF OneStale
    <3>3. CASE s # st /\ t = st
      BY <1>1, <1>7, <2>1, <2>2, <3>3 DEF OneStale
    <3>4. CASE s # st /\ t # st
      BY <1>7, <2>2, <3>4 DEF OneStale
    <3> QED
      BY <3>1, <3>2, <3>3, <3>4
  <2> QED
    BY <1>1, <2>2 DEF OneStale
<1> QED
  BY <1>8, <1>9

LEMMA StepKeepsOneStale == IInv /\ OneStale /\ [Next]_vars => OneStale'
<1> SUFFICES ASSUME IInv, OneStale, [Next]_vars PROVE OneStale'
  OBVIOUS
<1>1. CASE UNCHANGED staleness
  BY <1>1 DEF staleness, OneStale, Stale
<1>2. CASE EstablishClear \/ CloseClear \/ CameraLost \/ SwapQueues \/ DisconnectedClear
  BY <1>2, ClearLeavesNone
     DEF EstablishClear, CloseClear, CameraLost, SwapQueues, DisconnectedClear, ClearImuQueues
<1>3. ASSUME NEW s \in Streams, TakeSeq(s) PROVE OneStale'
  <2>1. pushing'.sample.session = session /\ queue' = queue /\ session' = session
    BY <1>3 DEF TakeSeq, publisher, listener
  <2>2. session \in Int
    BY ConstantsAssumption DEF IInv, TypeOK
  <2> QED
    BY <2>1, <2>2 DEF OneStale, Stale
<1>4. ASSUME NEW d \in Datagrams, HandleClientCommand(d) PROVE UNCHANGED staleness
  BY <1>4 DEF HandleClientCommand, staleness, capture
<1>5. CASE ConnectIp \/ ConnectPort \/ ConnectCount \/ EstablishConnected
  BY <1>1, <1>5
     DEF ConnectIp, ConnectPort, ConnectCount, EstablishConnected, staleness, capture
<1>6. CASE InitUdpReceiver \/ CheckConnected \/ SendPayload \/ BatchSent
  BY <1>1, <1>6 DEF InitUdpReceiver, CheckConnected, SendPayload, BatchSent, staleness, capture
<1>7. CASE UNCHANGED vars
  BY <1>1, <1>7 DEF vars, staleness, capture
<1> QED
  BY <1>1, <1>2, <1>3, <1>4, <1>5, <1>6, <1>7, PushKeepsOneStale
     DEF Next, ListenerStep, RunImuPublisher

\* However captures, pushes, overflows, swaps and new sessions interleave, at most one
\* sample of an earlier session is ever queued in both queues together.
THEOREM AtMostOneSampleIsStale == Spec => []AtMostOneStaleSample
<1>1. Init => OneStale
  BY ClearLeavesNone DEF Init, OneStale, Stale, Empty
<1>2. Spec => []OneStale
  BY <1>1, StepKeepsOneStale, SpecIInv, PTL DEF Spec
<1>3. ASSUME OneStale PROVE AtMostOneStaleSample
  <2>1. ASSUME NEW s \in Streams, NEW t \in Streams, s # t, NEW i \in Stale(s)
        PROVE  Stale(s) = {i} /\ Stale(t) = {}
    BY <1>3, <2>1 DEF OneStale
  <2>2. "accel" \in Streams /\ "gyro" \in Streams
    BY DEF Streams
  <2>3. \/ Stale("accel") = {} /\ Stale("gyro") = {}
        \/ \E i : Stale("accel") = {i} /\ Stale("gyro") = {}
        \/ \E i : Stale("gyro") = {i} /\ Stale("accel") = {}
    BY <2>1, <2>2
  <2>4. Cardinality({}) = 0 /\ \A i : Cardinality({i}) = 1
    BY FS_EmptySet, FS_Singleton
  <2>5. Cardinality(Stale("accel")) + Cardinality(Stale("gyro")) \in {0, 1}
    <3>1. ASSUME Stale("accel") = {}, Stale("gyro") = {}
          PROVE  Cardinality(Stale("accel")) = 0 /\ Cardinality(Stale("gyro")) = 0
      BY <2>4, <3>1, Zenon
    <3>2. ASSUME NEW i, Stale("accel") = {i}, Stale("gyro") = {}
          PROVE  Cardinality(Stale("accel")) = 1 /\ Cardinality(Stale("gyro")) = 0
      BY <2>4, <3>2, Zenon
    <3>3. ASSUME NEW i, Stale("gyro") = {i}, Stale("accel") = {}
          PROVE  Cardinality(Stale("gyro")) = 1 /\ Cardinality(Stale("accel")) = 0
      BY <2>4, <3>3, Zenon
    <3>4. \/ Cardinality(Stale("accel")) = 0 /\ Cardinality(Stale("gyro")) = 0
          \/ Cardinality(Stale("accel")) = 1 /\ Cardinality(Stale("gyro")) = 0
          \/ Cardinality(Stale("accel")) = 0 /\ Cardinality(Stale("gyro")) = 1
      BY <2>3, <3>1, <3>2, <3>3, Zenon
    <3> QED
      BY <3>4
  <2> QED
    BY <2>5 DEF AtMostOneStaleSample
<1> QED
  BY <1>2, <1>3, PTL

-----------------------------------------------------------------------------
(* Where the samples go. *)

\* The newest client's address is complete outside the two stores of CommsConnect; in
\* between, its ip is with an earlier client's port.
AddressInv ==
    /\ address = [ip |-> address.ip, port |-> address.port]
    /\ client = [ip |-> client.ip, port |-> client.port]
    /\ lpc \in {"set_ip", "set_port", "set_count"} \/ client_count = 1 => client \in Clients
    /\ lpc \notin {"set_ip", "set_port"} /\ (lpc = "set_count" \/ client_count = 1)
          => address = client
    /\ lpc = "set_ip" /\ client_count = 1 => address \in Clients
    /\ lpc = "set_port" => address.ip = client.ip
    /\ lpc = "set_port" /\ client_count = 1 => \E c \in Clients : address.port = c.port
    /\ ppc = "init" => lpc = "off"

\* What AddressInv depends on, apart from the steps of the listener.
destination == <<address, client_count, client, lpc, ppc = "init">>

LEMMA CommandKeepsAddress ==
  ASSUME AddressInv, NEW d \in Datagrams, HandleClientCommand(d)
  PROVE  AddressInv'
<1> USE DEF publisher
<1>1. CASE lpc' = "set_ip"
  <2>1. /\ lpc = "idle" /\ address' = address
        /\ client_count' = client_count /\ ppc' = ppc
        /\ client' = [ip |-> d.ip, port |-> d.port]
        /\ d.msg_id = kMsgIdEstablishConnection
        /\ d.len > 0 /\ d.framed /\ d.crc_ok
    BY <1>1 DEF HandleClientCommand, Accepted
  <2>2. client' \in Clients
    BY <2>1 DEF Clients
  <2>3. client_count' = 1 => address' \in Clients
    BY <2>1 DEF AddressInv
  <2> QED
    BY <1>1, <2>1, <2>2, <2>3 DEF AddressInv
<1>2. CASE lpc' # "set_ip"
  <2>1. /\ lpc = "idle" /\ lpc' = "close_clear" /\ address' = address /\ client' = client
        /\ client_count' = client_count /\ ppc' = ppc
    BY <1>2 DEF HandleClientCommand
  <2> QED
    BY <2>1 DEF AddressInv
<1> QED
  BY <1>1, <1>2

LEMMA StepKeepsAddress ==
  ASSUME IInv, AddressInv, [Next]_vars
  PROVE  AddressInv'
<1> USE DEF listener, publisher
<1>1. CASE UNCHANGED destination
  BY <1>1 DEF destination, AddressInv
<1>2. CASE ConnectIp
  <2>1. /\ lpc = "set_ip" /\ lpc' = "set_port" /\ client' = client
        /\ client_count' = client_count /\ ppc' = ppc
        /\ address' = [ip |-> client.ip, port |-> address.port]
    BY <1>2 DEF ConnectIp, AddressInv
  <2>2. client_count' = 1 => \E c \in Clients : address'.port = c.port
    BY <2>1 DEF AddressInv
  <2> QED
    BY <2>1, <2>2 DEF AddressInv
<1>3. CASE ConnectPort
  <2>1. /\ lpc = "set_port" /\ lpc' = "set_count" /\ client' = client
        /\ client_count' = client_count /\ ppc' = ppc
        /\ address' = [ip |-> address.ip, port |-> client.port]
    BY <1>3 DEF ConnectPort, AddressInv
  <2>2. address' = client
    BY <2>1 DEF AddressInv
  <2> QED
    BY <2>1, <2>2 DEF AddressInv
<1>4. CASE ConnectCount
  BY <1>4 DEF ConnectCount, AddressInv
<1>5. CASE EstablishClear \/ EstablishConnected \/ CloseClear
  BY <1>5 DEF EstablishClear, EstablishConnected, CloseClear, AddressInv
<1>6. CASE InitUdpReceiver
  BY <1>6 DEF InitUdpReceiver, AddressInv
<1>7. ASSUME NEW s \in Streams, TakeSeq(s) PROVE UNCHANGED destination
  BY <1>7 DEF TakeSeq, destination
<1>8. CASE PushSample \/ CameraLost \/ CheckConnected \/ SwapQueues \/ SendPayload
             \/ BatchSent \/ DisconnectedClear
  BY <1>1, <1>8
     DEF PushSample, CameraLost, CheckConnected, SwapQueues, SendPayload, BatchSent,
         DisconnectedClear, destination
<1>9. CASE UNCHANGED vars
  BY <1>1, <1>9 DEF vars, destination
<1> QED
  BY <1>1, <1>2, <1>3, <1>4, <1>5, <1>6, <1>7, <1>8, <1>9, CommandKeepsAddress
     DEF Next, ListenerStep, RunImuPublisher

LEMMA OnlySendPayloadSends ==
  ASSUME [Next]_vars, sent' # sent
  PROVE  SendPayload
  BY DEF Next, HandleClientCommand, ListenerStep, ConnectIp, ConnectPort, ConnectCount,
         EstablishClear, EstablishConnected, CloseClear, TakeSeq, PushSample, CameraLost,
         RunImuPublisher, InitUdpReceiver, CheckConnected, SwapQueues, BatchSent,
         DisconnectedClear, vars

\* Whatever hosts the clients are on, every sample goes to the client of the newest
\* session; only while CommsConnect stores its address does a sample go to the client
\* before, or to the new ip and an earlier client's port.
THEOREM SamplesGoToAClient == Spec => SentToAClient
<1>1. Init => AddressInv
  BY DEF Init, AddressInv
<1>2. IInv /\ AddressInv /\ [Next]_vars => AddressInv'
  BY StepKeepsAddress
<1> DEFINE Destined == /\ client \in Clients
                       /\ lpc \notin {"set_ip", "set_port"} => address = client
                       /\ lpc = "set_ip" => address \in Clients
                       /\ lpc = "set_port" => /\ address.ip = client.ip
                                              /\ \E c \in Clients : address.port = c.port
<1>3. ASSUME IInv, AddressInv, [Next]_vars
      PROVE  [sent' # sent => Destined]_vars
  <2>1. ASSUME sent' # sent PROVE SendPayload
    BY <1>3, <2>1, OnlySendPayloadSends
  <2>2. ASSUME sent' # sent PROVE client_count = 1
    BY <1>3, <2>1, <2>2 DEF SendPayload, IInv, TypeOK
  <2> QED
    BY <1>3, <2>2 DEF AddressInv
<1> QED
  BY <1>1, <1>2, <1>3, SpecIInv, PTL DEF Spec, SentToAClient

-----------------------------------------------------------------------------
(* Each stream implements SampleStream. *)

LEMMA InitRefines == Init => Stream!Init
  BY DEF Init, Stream!Init

LEMMA NextRefines ==
  ASSUME IInv, [Next]_vars
  PROVE  [Stream!Next]_(Stream!svars)
<1> USE DEF Stream!svars, listener, capture, publisher
<1>1. ASSUME NEW s \in Streams, TakeSeq(s)
      PROVE  Stream!Next
  <2>1. Stream!Produce(s)
    BY <1>1 DEF TakeSeq, Stream!Produce
  <2> QED
    BY <2>1 DEF Stream!Next
<1>2. CASE SendPayload
  <2>1. NextStream \in Streams
    BY DEF NextStream, Streams
  <2>2. CASE sent' # sent
    <3>1. Stream!Deliver(NextStream)
      BY <1>2, <2>2, SendKeepsIInv DEF SendPayload, Stream!Deliver
    <3> QED
      BY <2>1, <3>1 DEF Stream!Next
  <2>3. CASE sent' = sent
    BY <1>2, <2>3 DEF SendPayload
  <2> QED
    BY <2>2, <2>3
<1>3. CASE UNCHANGED <<seq, sent>>
  BY <1>3
<1> QED
  BY <1>1, <1>2, <1>3
     DEF Next, HandleClientCommand, ListenerStep, ConnectIp, ConnectPort, ConnectCount,
         EstablishClear, EstablishConnected, CloseClear, PushSample, CameraLost,
         RunImuPublisher, InitUdpReceiver, CheckConnected, SwapQueues, BatchSent,
         DisconnectedClear, vars

\* Every stream a client sees is strictly increasing and made of assigned numbers:
\* nothing the three threads do repeats, reorders or invents a sample.
THEOREM StreamsAreSampleStreams == Spec => ImplementsSampleStream
<1>1. IInv /\ [Next]_vars => [Stream!Next]_(Stream!svars)
  BY NextRefines
<1> QED
  BY <1>1, InitRefines, SpecIInv, PTL DEF Spec, ImplementsSampleStream, Stream!Spec
=============================================================================
