-------------------------- MODULE FrameCodecProofs --------------------------
(***************************************************************************)
(* Theorems about FrameCodec, for every buffer size and every datagram.    *)
(***************************************************************************)
EXTENDS FrameCodec, FiniteSetTheorems, TLAPS

-----------------------------------------------------------------------------
(* The inductive invariant. *)

Delimiter == {FRAME_START_BYTE, FRAME_STOP_BYTE}

\* Until a frame is complete it has only its start byte and what the message became.
EncodeInv ==
    /\ Len(payload) = hdr_len + data_size(payload)
    /\ pc \in {"send", "refused", "encode"} => sent = <<>>
    /\ pc = "encode" => /\ Len(frame) \in 1..(2 * Msg_Ptr + 1)
                        /\ \A n \in 2..Len(frame) : frame[n] \notin Delimiter

\* A frame that was sent ends with the only stop byte in it.
SentInv == sent # <<>> => /\ Len(sent) >= 2
                          /\ \A n \in 2..(Len(sent) - 1) : sent[n] \notin Delimiter

\* Whatever is accepted holds a stop byte.
AcceptInv == pc = "accepted" => \E n \in 2..Len(received) : received[n] = FRAME_STOP_BYTE

IInv == TypeOK /\ EncodeInv /\ SentInv /\ ReadsAhead /\ AcceptInv

-----------------------------------------------------------------------------
(* Lemmas about the helpers. *)

\* The bytes of the framing are bytes.
LEMMA Framing == /\ Special \subseteq Byte /\ Delimiter \subseteq Special
                 /\ FRAME_START_BYTE \in Byte /\ FRAME_STOP_BYTE \in Byte
                 /\ FRAME_SCAPE_BYTE \in Byte \ Delimiter
                 /\ BufferSize \in Nat /\ BufferSize + 1 \in Byte /\ Values \subseteq Byte
                 /\ hdr_len = 3 /\ <<>> \in Seq(Byte)
  BY ConstantsAssumption
     DEF Special, Delimiter, Byte, FRAME_START_BYTE, FRAME_STOP_BYTE, FRAME_SCAPE_BYTE, hdr_len

\* A byte of the message becomes one byte or two, none of them a delimiter.
LEMMA EscapedBytes ==
  ASSUME NEW b \in Byte
  PROVE  /\ Escaped(b) \in Seq(Byte) /\ Len(Escaped(b)) \in 1..2
         /\ \A n \in 1..Len(Escaped(b)) : Escaped(b)[n] \notin Delimiter
<1>1. CASE b \in Special
  <2>1. EncodeByte(b) \in Byte /\ EncodeByte(b) \notin Delimiter
    BY <1>1 DEF EncodeByte, Byte, Special, Delimiter, FRAME_START_BYTE, FRAME_STOP_BYTE,
       FRAME_SCAPE_BYTE, FRAME_START_COMB, FRAME_STOP_COMB, FRAME_SCAPE_COMB
  <2>2. Escaped(b) = <<FRAME_SCAPE_BYTE, EncodeByte(b)>>
    BY <1>1 DEF Escaped
  <2> QED
    BY <2>1, <2>2, Framing
<1>2. CASE b \notin Special
  <2>1. Escaped(b) = <<b>>
    BY <1>2 DEF Escaped
  <2> QED
    BY <1>2, <2>1, Framing
<1> QED
  BY <1>1, <1>2

\* Decoding an escape gives a byte.
LEMMA DecodedByte ==
  ASSUME NEW b
  PROVE  DecodeByte(b) \in Byte
  BY DEF DecodeByte, Byte, FRAME_START_BYTE, FRAME_STOP_BYTE, FRAME_SCAPE_BYTE

\* Every message fits its header, and all its bytes are bytes.
LEMMA MessageBytes ==
  ASSUME NEW m \in Messages
  PROVE  m \in Seq(Byte) /\ Len(m) = hdr_len + m[3] /\ m[3] \in 0..(BufferSize + 1)
<1>0. PICK n \in 0..(BufferSize + 1) : m \in MessagesOf(n)
  BY DEF Messages
<1>1. PICK r \in [id : Values, crc : Values, data : [1..n -> Values]] :
         m = <<r.id, r.crc, n>> \o r.data
  BY <1>0 DEF MessagesOf
<1>2. r.data \in Seq(Byte) /\ Len(r.data) = n
  BY Framing
<1>3. n \in Byte
  BY ConstantsAssumption DEF Byte
<1>4. <<r.id, r.crc, n>> \in Seq(Byte) /\ Len(<<r.id, r.crc, n>>) = 3
  <2>1. r.id \in Byte /\ r.crc \in Byte
    BY Framing
  <2> QED
    BY <1>3, <2>1
<1>5. m \in Seq(Byte) /\ Len(m) = 3 + n /\ m[3] = n
  BY <1>1, <1>2, <1>4
<1> QED
  BY <1>5, Framing

\* Every datagram consists of bytes.
LEMMA ArrivalBytes ==
  ASSUME TypeOK, NEW d \in Arrivals
  PROVE  d \in Seq(Byte)
<1>0. sent \in Seq(Byte)
  BY DEF TypeOK
<1>1. CASE d \in {SubSeq(sent, 1, n) : n \in 0..Len(sent)}
  <2>1. PICK n \in 0..Len(sent) : d = SubSeq(sent, 1, n)
    BY <1>1
  <2>2. \A k \in 1..n : k \in 1..Len(sent)
    BY <1>0
  <2> QED
    BY <1>0, <2>1, <2>2
<1>2. CASE d \in {[sent EXCEPT ![n] = b] : n \in 1..Len(sent), b \in Values}
  <2>1. PICK n \in 1..Len(sent), b \in Values : d = [sent EXCEPT ![n] = b]
    BY <1>2
  <2> QED
    BY <1>0, <2>1, Framing
<1>3. CASE d \in UNION {[1..n -> Values] : n \in 0..MaxForeign}
  <2>1. PICK n \in 0..MaxForeign : d \in [1..n -> Values]
    BY <1>3
  <2> QED
    BY <2>1, Framing, ConstantsAssumption
<1> QED
  BY <1>1, <1>2, <1>3 DEF Arrivals

-----------------------------------------------------------------------------
(* The invariant. *)

\* It holds with a message at hand.
LEMMA InitInv == Init => IInv
<1> SUFFICES ASSUME Init PROVE IInv
  OBVIOUS
<1>1. payload \in Seq(Byte) /\ Len(payload) = hdr_len + payload[3] /\ payload[3] \in Nat
  BY MessageBytes, Framing DEF Init
<1>2. TypeOK
  BY <1>1, Framing DEF Init, TypeOK
<1> QED
  BY <1>1, <1>2, Framing DEF Init, IInv, EncodeInv, SentInv, ReadsAhead, AcceptInv, data_size

\* Each byte of the message adds one byte or two to the frame.
LEMMA EncodeNextInv ==
  ASSUME IInv, EncodeNext
  PROVE  IInv'
<1> DEFINE e == Escaped(payload[Msg_Ptr + 1])
<1>1. Msg_Ptr + 1 \in 1..Len(payload) /\ Msg_Ptr \in Nat /\ payload \in Seq(Byte)
  BY DEF IInv, TypeOK, EncodeInv, EncodeNext
<1>2. payload[Msg_Ptr + 1] \in Byte
  BY <1>1
<1>3. /\ e \in Seq(Byte) /\ Len(e) \in 1..2
      /\ \A n \in 1..Len(e) : e[n] \notin Delimiter
  BY <1>2, EscapedBytes
<1>4. /\ pc = "encode" /\ pc' = "encode" /\ frame' = frame \o e /\ Msg_Ptr' = Msg_Ptr + 1
      /\ payload' = payload /\ sent' = sent /\ received' = received /\ decoded' = decoded
      /\ i' = i /\ dec_idx' = dec_idx
  BY DEF EncodeNext
<1> HIDE DEF e
<1>5. /\ frame \in Seq(Byte) /\ Len(frame) \in 1..(2 * Msg_Ptr + 1)
      /\ \A n \in 2..Len(frame) : frame[n] \notin Delimiter
  BY <1>4 DEF IInv, TypeOK, EncodeInv
<1>6. frame' \in Seq(Byte) /\ Len(frame') = Len(frame) + Len(e)
  BY <1>3, <1>4, <1>5
<1>7. Len(frame') \in 1..(2 * Msg_Ptr' + 1)
  <2>1. PICK a \in Nat, b \in Nat : a = Len(frame) /\ b = Len(e)
    BY <1>3, <1>5
  <2>2. a + b \in 1..(2 * (Msg_Ptr + 1) + 1)
    BY SMTT(40), <1>1, <1>3, <1>5, <2>1
  <2> QED
    BY <1>4, <1>6, <2>1, <2>2
<1>8. ASSUME NEW n \in 2..Len(frame') PROVE frame'[n] \notin Delimiter
  <2>1. CASE n <= Len(frame)
    BY <1>3, <1>4, <1>5, <2>1
  <2>2. CASE n > Len(frame)
    <3>1. n - Len(frame) \in 1..Len(e) /\ frame'[n] = e[n - Len(frame)]
      BY <1>3, <1>4, <1>5, <1>6, <2>2
    <3> QED
      BY <1>3, <3>1
  <2> QED
    BY <1>5, <1>8, <2>1, <2>2
<1>9. Msg_Ptr' \in 0..Len(payload')
  BY <1>1, <1>4
<1>10. TypeOK'
  BY <1>4, <1>6, <1>9 DEF IInv, TypeOK
<1>11. EncodeInv'
  BY <1>4, <1>7, <1>8 DEF IInv, EncodeInv, data_size
<1> QED
  BY <1>4, <1>10, <1>11 DEF IInv, SentInv, ReadsAhead, AcceptInv

\* The stop byte completes it.
LEMMA EncodeStopInv ==
  ASSUME IInv, EncodeStop
  PROVE  IInv'
<1>1. /\ pc = "encode" /\ pc' = "sent" /\ frame' = Append(frame, FRAME_STOP_BYTE)
      /\ sent' = frame' /\ payload' = payload /\ received' = received /\ decoded' = decoded
      /\ i' = i /\ dec_idx' = dec_idx /\ Msg_Ptr' = Msg_Ptr
  BY DEF EncodeStop
<1>2. /\ frame \in Seq(Byte) /\ Len(frame) \in 1..(2 * Msg_Ptr + 1) /\ Msg_Ptr \in 0..Len(payload)
      /\ \A n \in 2..Len(frame) : frame[n] \notin Delimiter /\ Len(payload) \in Nat
  BY <1>1 DEF IInv, TypeOK, EncodeInv
<1>3. /\ frame' \in Seq(Byte) /\ Len(frame') = Len(frame) + 1
      /\ \A n \in 1..Len(frame) : frame'[n] = frame[n]
  BY <1>1, <1>2, Framing
<1>4. Len(sent') <= 2 * Len(payload) + 2 /\ Len(sent') >= 2 /\ Len(sent') - 1 = Len(frame)
  BY <1>1, <1>2, <1>3
<1>5. \A n \in 2..(Len(sent') - 1) : sent'[n] \notin Delimiter
  BY <1>1, <1>2, <1>3, <1>4
<1>6. TypeOK'
  BY <1>1, <1>3, <1>4 DEF IInv, TypeOK
<1> QED
  BY <1>1, <1>4, <1>5, <1>6 DEF IInv, EncodeInv, SentInv, ReadsAhead, AcceptInv, data_size

\* Decoding starts with the byte behind the start byte.
LEMMA ReceiveInv ==
  ASSUME IInv, Receive
  PROVE  IInv'
<1>1. received' \in Seq(Byte)
  BY ArrivalBytes DEF Receive, IInv
<1>2. /\ pc = "sent" /\ frame' = received' /\ i' = 1 /\ dec_idx' = 0
      /\ pc' \in {"rejected", "decode"} /\ payload' = payload /\ Msg_Ptr' = Msg_Ptr
      /\ sent' = sent /\ decoded' = decoded
  BY DEF Receive
<1>3. TypeOK'
  BY <1>1, <1>2 DEF IInv, TypeOK
<1>4. ReadsAhead'
  BY <1>1, <1>2 DEF ReadsAhead
<1> QED
  BY <1>2, <1>3, <1>4 DEF IInv, EncodeInv, SentInv, AcceptInv, data_size

\* A decoded byte goes behind the byte read last.
LEMMA WriteBehind ==
  ASSUME IInv, pc = "decode", i < Len(frame), NEW b \in Byte, NEW k \in 1..2,
         frame' = [frame EXCEPT ![dec_idx + 1] = b], received' = received,
         dec_idx' = dec_idx + 1, i' = i + k
  PROVE  /\ frame' \in Seq(Byte) /\ i' \in Nat /\ dec_idx' \in Nat
         /\ dec_idx' < i' /\ Len(frame') = Len(received')
         /\ \A n \in (i' + 1)..Len(frame') : frame'[n] = received'[n]
<1>1. /\ dec_idx \in Nat /\ i \in Nat /\ dec_idx < i /\ frame \in Seq(Byte)
      /\ Len(frame) = Len(received)
      /\ \A n \in (i + 1)..Len(frame) : frame[n] = received[n]
  BY DEF IInv, TypeOK, ReadsAhead
<1>2. dec_idx + 1 \in 1..Len(frame) /\ dec_idx + 1 <= i
  BY <1>1
<1>3. /\ frame' \in Seq(Byte) /\ Len(frame') = Len(frame)
      /\ \A n \in 1..Len(frame) : n # dec_idx + 1 => frame'[n] = frame[n]
  BY <1>1, <1>2
<1>4. ASSUME NEW n \in (i' + 1)..Len(frame')
      PROVE  frame'[n] = received'[n]
  <2>1. n \in (i + 1)..Len(frame) /\ n \in 1..Len(frame) /\ n # dec_idx + 1
    BY <1>1, <1>2, <1>3
  <2> QED
    BY <1>1, <1>3, <2>1
<1> QED
  BY <1>1, <1>3, <1>4

\* So every step of DecodeFrame reads ahead of what it writes.
LEMMA DecodeInv ==
  ASSUME IInv, DecodeFrame
  PROVE  IInv'
<1>0. /\ pc = "decode" /\ payload' = payload /\ Msg_Ptr' = Msg_Ptr /\ sent' = sent
      /\ received' = received
  BY DEF DecodeFrame, DecodeEscape, DecodePlain, DecodeStop, DecodeFails
<1>1. EncodeInv' /\ SentInv'
  <2>1. pc' \in {"decode", "accepted", "rejected"}
    BY <1>0 DEF DecodeFrame, DecodeEscape, DecodePlain, DecodeStop, DecodeFails, Reject
  <2> QED
    BY <1>0, <2>1 DEF IInv, EncodeInv, SentInv, data_size
<1>2. CASE Reject
  BY <1>0, <1>1, <1>2 DEF Reject, IInv, TypeOK, ReadsAhead, AcceptInv
<1>3. CASE DecodeEscape /\ ~Reject
  <2>1. /\ frame' = [frame EXCEPT ![dec_idx + 1] = DecodeByte(ByteAt(i + 1))]
        /\ dec_idx' = dec_idx + 1 /\ i' = i + 2 /\ pc' = pc /\ decoded' = decoded
        /\ i < Len(frame)
    BY <1>3 DEF DecodeEscape
  <2>2. DecodeByte(ByteAt(i + 1)) \in Byte
    BY DecodedByte
  <2>3. /\ frame' \in Seq(Byte) /\ i' \in Nat /\ dec_idx' \in Nat
        /\ dec_idx' < i' /\ Len(frame') = Len(received')
        /\ \A n \in (i' + 1)..Len(frame') : frame'[n] = received'[n]
    <3>1. 2 \in 1..2
      OBVIOUS
    <3> QED
      BY <1>0, <2>1, <2>2, <3>1, WriteBehind
  <2>4. TypeOK'
    BY <1>0, <2>1, <2>3 DEF IInv, TypeOK
  <2> QED
    BY <1>0, <1>1, <2>1, <2>3, <2>4 DEF IInv, ReadsAhead, AcceptInv
<1>4. CASE DecodePlain
  <2>1. /\ frame' = [frame EXCEPT ![dec_idx + 1] = ByteAt(i)] /\ i < Len(frame)
        /\ dec_idx' = dec_idx + 1 /\ decoded' = decoded
    BY <1>4 DEF DecodePlain
  <2>2. ByteAt(i) \in Byte
    <3>1. i + 1 \in 1..Len(frame) /\ frame \in Seq(Byte)
      BY <2>1 DEF IInv, TypeOK
    <3> QED
      BY <3>1 DEF ByteAt
  <2>3. CASE i' = i + 1 /\ pc' = pc
    <3>1. /\ frame' \in Seq(Byte) /\ i' \in Nat /\ dec_idx' \in Nat
          /\ dec_idx' < i' /\ Len(frame') = Len(received')
          /\ \A n \in (i' + 1)..Len(frame') : frame'[n] = received'[n]
      <4>1. 1 \in 1..2
        OBVIOUS
      <4> QED
        BY <1>0, <2>1, <2>2, <2>3, <4>1, WriteBehind
    <3>2. TypeOK'
      BY <1>0, <2>1, <2>3, <3>1 DEF IInv, TypeOK
    <3> QED
      BY <1>0, <1>1, <2>3, <3>1, <3>2 DEF IInv, ReadsAhead, AcceptInv
  <2>4. CASE pc' = "rejected" /\ i' = i
    <3>1. frame' \in Seq(Byte) /\ dec_idx' \in Nat
      <4>1. frame \in Seq(Byte) /\ dec_idx \in Nat /\ dec_idx + 1 \in 1..Len(frame)
        BY <1>0, <2>1 DEF IInv, TypeOK, ReadsAhead
      <4> QED
        BY <2>1, <2>2, <4>1
    <3>2. TypeOK'
      BY <1>0, <2>1, <2>4, <3>1 DEF IInv, TypeOK
    <3> QED
      BY <1>1, <2>4, <3>2 DEF IInv, ReadsAhead, AcceptInv
  <2> QED
    BY <1>4, <2>3, <2>4 DEF DecodePlain
<1>5. CASE DecodeStop /\ ~Reject
  <2>1. /\ pc' = "accepted" /\ decoded' = SubSeq(frame, 1, dec_idx) /\ frame' = frame
        /\ i' = i /\ dec_idx' = dec_idx /\ i < Len(frame) /\ ByteAt(i) = FRAME_STOP_BYTE
    BY <1>5 DEF DecodeStop
  <2>2. /\ i \in Nat /\ dec_idx \in Nat /\ dec_idx < i /\ frame \in Seq(Byte)
        /\ Len(frame) = Len(received) /\ i + 1 \in 2..Len(frame)
        /\ frame[i + 1] = received[i + 1]
    BY <1>0, <2>1 DEF IInv, TypeOK, ReadsAhead
  <2>3. decoded' \in Seq(Byte)
    <3>1. \A n \in 1..dec_idx : n \in 1..Len(frame)
      BY <2>1, <2>2
    <3> QED
      BY <2>1, <2>2, <3>1
  <2>4. TypeOK'
    BY <1>0, <2>1, <2>3 DEF IInv, TypeOK
  <2>5. AcceptInv'
    BY <1>0, <2>1, <2>2 DEF AcceptInv, ByteAt
  <2> QED
    BY <1>1, <2>1, <2>4, <2>5 DEF IInv, ReadsAhead
<1> QED
  BY <1>2, <1>3, <1>4, <1>5 DEF DecodeFrame, DecodeFails

\* It always holds.
THEOREM Invariant == Spec => []IInv
<1>1. ASSUME IInv, [Next]_vars PROVE IInv'
  <2>1. CASE Refused
    BY <1>1, <2>1 DEF Refused, IInv, TypeOK, EncodeInv, SentInv, ReadsAhead, AcceptInv, data_size
  <2>2. CASE EncodeStart
    <3>1. TypeOK'
      BY <1>1, <2>2, Framing DEF EncodeStart, IInv, TypeOK
    <3> QED
      BY <1>1, <2>2, <3>1
         DEF EncodeStart, IInv, EncodeInv, SentInv, ReadsAhead, AcceptInv, data_size
  <2>3. CASE UNCHANGED vars
    BY <1>1, <2>3 DEF vars, IInv, TypeOK, EncodeInv, SentInv, ReadsAhead, AcceptInv, data_size
  <2> QED
    BY <1>1, <2>1, <2>2, <2>3, EncodeNextInv, EncodeStopInv, ReceiveInv, DecodeInv
       DEF Next, EncodeFrame
<1> QED
  BY <1>1, InitInv, PTL DEF Spec

-----------------------------------------------------------------------------
(* Whole messages.  Where each byte of a message ends in its frame is a      *)
(* function of which the invariant says that it exists: encoding extends it, *)
(* and decoding walks along it.  That it is EndOf of the message follows     *)
(* byte by byte.                                                             *)

\* f holds the start byte and what the first n bytes of raw became, up to end[k] for
\* the first k of them.
Layout(end, f, raw, n) ==
    /\ end \in [0..n -> Nat \ {0}] /\ end[0] = 1
    /\ \A j, k \in 0..n : j < k => end[j] < end[k]
    /\ \A k \in 1..n : end[k] = end[k - 1] + Len(Escaped(raw[k]))
    /\ \A k \in 0..n : end[k] = EndOf(raw, k)
    /\ f[1] = FRAME_START_BYTE
    /\ \A k \in 1..n : \A m \in 1..Len(Escaped(raw[k])) :
           f[end[k - 1] + m] = Escaped(raw[k])[m]

\* f is the frame of raw and nothing else.
Framed(end, f, raw) == /\ Layout(end, f, raw, Len(raw))
                       /\ Len(f) = end[Len(raw)] + 1
                       /\ f[Len(f)] = FRAME_STOP_BYTE

\* What has been encoded is laid out in the frame, and in the end all of it.
EncodedInv ==
    /\ pc = "encode" => \E end : Layout(end, frame, payload, Msg_Ptr) /\ Len(frame) = end[Msg_Ptr]
    /\ sent # <<>> => \E end : Framed(end, sent, payload)
    /\ pc = "encode" \/ sent # <<>> => data_size(payload) \in 1..BufferSize
    /\ pc \in {"send", "refused", "encode", "sent"} => received = <<>>

\* What has been decoded is laid out in the part of the datagram that has been read.
DecodedInv ==
    /\ pc = "decode" => \E end : Layout(end, received, frame, dec_idx) /\ i = end[dec_idx]
    /\ pc = "accepted" => \E end : /\ Layout(end, received, decoded, Len(decoded))
                                   /\ end[Len(decoded)] < Len(received)
                                   /\ received[end[Len(decoded)] + 1] = FRAME_STOP_BYTE

\* A frame that arrived as it was sent is being decoded to the message it was made of.
IntactInv ==
    received = sent /\ sent # <<>> =>
        /\ pc # "rejected"
        /\ pc = "decode" => /\ dec_idx <= Len(payload)
                            /\ \A k \in 1..dec_idx : frame[k] = payload[k]
                            /\ \E end : Framed(end, sent, payload) /\ i = end[dec_idx]
        /\ pc = "accepted" => decoded = payload

WholeInv == EncodedInv /\ DecodedInv /\ IntactInv

\* The first k bytes end in the same place in every message that begins with them.
LEMMA EndsAgree ==
  ASSUME NEW k \in Nat, NEW raw, NEW long, \A j \in 1..k : long[j] = raw[j]
  PROVE  EndOf(long, k) = EndOf(raw, k)
<1>1. {j \in 1..k : long[j] \in Special} = {j \in 1..k : raw[j] \in Special}
  OBVIOUS
<1> QED
  BY <1>1 DEF EndOf

\* One byte more ends behind what it became.
LEMMA EndsGrow ==
  ASSUME NEW k \in Nat, NEW raw
  PROVE  EndOf(raw, k + 1) = EndOf(raw, k) + Len(Escaped(raw[k + 1]))
<1> DEFINE S(n) == {j \in 1..n : raw[j] \in Special}
<1>1. IsFiniteSet(S(k)) /\ Cardinality(S(k)) \in Nat
  <2>1. IsFiniteSet(1..k)
    BY FS_Interval
  <2>2. S(k) \subseteq 1..k
    OBVIOUS
  <2>3. IsFiniteSet(S(k))
    BY <2>1, <2>2, FS_Subset
  <2> QED
    BY <2>3, FS_CardinalityType
<1>2. CASE raw[k + 1] \in Special
  <2>1. S(k + 1) = S(k) \cup {k + 1} /\ k + 1 \notin S(k)
    BY <1>2
  <2>2. Cardinality(S(k + 1)) = Cardinality(S(k)) + 1
    BY <1>1, <2>1, FS_AddElement
  <2>3. Len(Escaped(raw[k + 1])) = 2
    BY <1>2 DEF Escaped
  <2> QED
    BY <1>1, <2>2, <2>3 DEF EndOf
<1>3. CASE raw[k + 1] \notin Special
  <2>1. S(k + 1) = S(k)
    BY <1>3
  <2>2. Len(Escaped(raw[k + 1])) = 1
    BY <1>3 DEF Escaped
  <2> QED
    BY <1>1, <2>1, <2>2 DEF EndOf
<1> QED
  BY <1>2, <1>3

LEMMA EndsStart ==
  ASSUME NEW raw
  PROVE  EndOf(raw, 0) = 1
<1>1. {j \in 1..0 : raw[j] \in Special} = {}
  OBVIOUS
<1> QED
  BY <1>1, FS_EmptySet DEF EndOf

\* A layout only depends on the n bytes of the message and on the part of the frame
\* that holds them.
LEMMA LayoutKept ==
  ASSUME NEW n \in Nat, NEW end, NEW f, NEW g, NEW raw, NEW long, Layout(end, f, raw, n),
         \A k \in 1..n : long[k] = raw[k],
         \A p \in 1..end[n] : g[p] = f[p]
  PROVE  Layout(end, g, long, n)
<1>1. /\ end \in [0..n -> Nat \ {0}] /\ end[0] = 1
      /\ \A j, k \in 0..n : j < k => end[j] < end[k]
      /\ \A k \in 1..n : end[k] = end[k - 1] + Len(Escaped(raw[k]))
      /\ \A k \in 0..n : end[k] = EndOf(raw, k)
      /\ f[1] = FRAME_START_BYTE
      /\ \A k \in 1..n : \A m \in 1..Len(Escaped(raw[k])) :
             f[end[k - 1] + m] = Escaped(raw[k])[m]
  BY DEF Layout
<1>2. g[1] = FRAME_START_BYTE
  <2>1. 1 <= end[n] /\ end[n] \in Nat
    BY <1>1
  <2> QED
    BY <1>1, <2>1
<1>3. ASSUME NEW k \in 1..n, NEW m \in 1..Len(Escaped(long[k]))
      PROVE  g[end[k - 1] + m] = Escaped(long[k])[m]
  <2>1. long[k] = raw[k] /\ m \in 1..Len(Escaped(raw[k]))
    BY <1>3
  <2>2. end[k - 1] \in Nat \ {0} /\ end[k] \in Nat /\ end[n] \in Nat /\ end[k] <= end[n]
    <3>1. k - 1 \in 0..n /\ k \in 0..n /\ n \in 0..n /\ (k < n \/ k = n)
      OBVIOUS
    <3> QED
      BY <1>1, <3>1
  <2>3. end[k] = end[k - 1] + Len(Escaped(raw[k]))
    BY <1>1
  <2>4. end[k - 1] + m \in 1..end[n]
    BY <2>1, <2>2, <2>3
  <2>5. f[end[k - 1] + m] = Escaped(raw[k])[m]
    BY <1>1, <2>1
  <2> QED
    BY <2>1, <2>4, <2>5
<1>4. \A k \in 1..n : end[k] = end[k - 1] + Len(Escaped(long[k]))
  BY <1>1
<1>5. \A k \in 0..n : end[k] = EndOf(long, k)
  BY <1>1, EndsAgree
<1> QED
  BY <1>1, <1>2, <1>3, <1>4, <1>5 DEF Layout

\* It grows by one byte when what that byte becomes follows in the frame.
LEMMA LayoutGrows ==
  ASSUME NEW n \in Nat, NEW end, NEW f, NEW raw, Layout(end, f, raw, n),
         Len(Escaped(raw[n + 1])) \in 1..2,
         \A m \in 1..Len(Escaped(raw[n + 1])) : f[end[n] + m] = Escaped(raw[n + 1])[m]
  PROVE  \E e : Layout(e, f, raw, n + 1) /\ e[n + 1] = end[n] + Len(Escaped(raw[n + 1]))
<1> DEFINE e == [k \in 0..(n + 1) |-> IF k <= n THEN end[k]
                                      ELSE end[n] + Len(Escaped(raw[n + 1]))]
<1>1. /\ end \in [0..n -> Nat \ {0}] /\ end[0] = 1
      /\ \A j, k \in 0..n : j < k => end[j] < end[k]
      /\ \A k \in 1..n : end[k] = end[k - 1] + Len(Escaped(raw[k]))
      /\ \A k \in 0..n : end[k] = EndOf(raw, k)
      /\ f[1] = FRAME_START_BYTE
      /\ \A k \in 1..n : \A m \in 1..Len(Escaped(raw[k])) :
             f[end[k - 1] + m] = Escaped(raw[k])[m]
  BY DEF Layout
<1>2. PICK d \in 1..2 : d = Len(Escaped(raw[n + 1]))
  OBVIOUS
<1>3. /\ e \in [0..(n + 1) -> Nat \ {0}] /\ e[0] = 1
      /\ \A k \in 0..n : e[k] = end[k]
      /\ e[n + 1] = end[n] + d
  BY <1>1, <1>2
<1> HIDE DEF e
<1>4. \A j, k \in 0..(n + 1) : j < k => e[j] < e[k]
  <2> SUFFICES ASSUME NEW j \in 0..(n + 1), NEW k \in 0..(n + 1), j < k
               PROVE  e[j] < e[k]
    OBVIOUS
  <2>1. j \in 0..n /\ n \in 0..n /\ (j < n \/ j = n)
    OBVIOUS
  <2>4. end[j] <= end[n] /\ end[n] \in Nat /\ end[j] \in Nat
    BY <1>1, <2>1
  <2>2. CASE k <= n
    BY <1>1, <1>3, <2>1, <2>2
  <2>3. CASE k = n + 1
    BY <1>3, <2>1, <2>3, <2>4
  <2> QED
    BY <2>2, <2>3
<1>5. \A k \in 1..(n + 1) : e[k] = e[k - 1] + Len(Escaped(raw[k]))
  <2> SUFFICES ASSUME NEW k \in 1..(n + 1)
               PROVE  e[k] = e[k - 1] + Len(Escaped(raw[k]))
    OBVIOUS
  <2>1. CASE k <= n
    BY <1>1, <1>3, <2>1
  <2>2. CASE k = n + 1
    BY <1>2, <1>3, <2>2
  <2> QED
    BY <2>1, <2>2
<1>6. \A k \in 1..(n + 1) : \A m \in 1..Len(Escaped(raw[k])) :
          f[e[k - 1] + m] = Escaped(raw[k])[m]
  <2> SUFFICES ASSUME NEW k \in 1..(n + 1)
               PROVE  \A m \in 1..Len(Escaped(raw[k])) : f[e[k - 1] + m] = Escaped(raw[k])[m]
    OBVIOUS
  <2>1. CASE k <= n
    BY <1>1, <1>3, <2>1
  <2>2. CASE k = n + 1
    BY <1>3, <2>2
  <2> QED
    BY <2>1, <2>2
<1>7. \A k \in 0..(n + 1) : e[k] = EndOf(raw, k)
  <2>1. e[n + 1] = EndOf(raw, n + 1)
    BY <1>1, <1>2, <1>3, EndsGrow
  <2>2. \A k \in 0..(n + 1) : k \in 0..n \/ k = n + 1
    OBVIOUS
  <2> QED
    BY <1>1, <1>3, <2>1, <2>2
<1>8. Layout(e, f, raw, n + 1)
  BY <1>1, <1>3, <1>4, <1>5, <1>6, <1>7 DEF Layout
<1> QED
  BY <1>2, <1>3, <1>8

\* The start byte alone is a layout of nothing.
LEMMA LayoutStarts ==
  ASSUME NEW f, NEW raw, f[1] = FRAME_START_BYTE
  PROVE  \E end : Layout(end, f, raw, 0) /\ end[0] = 1
<1> DEFINE end == [k \in 0..0 |-> 1]
<1>1. end \in [0..0 -> Nat \ {0}] /\ end[0] = 1
  OBVIOUS
<1>2. \A j, k \in 0..0 : ~(j < k)
  OBVIOUS
<1>3. 1..0 = {}
  OBVIOUS
<1>4. \A k \in 0..0 : end[k] = EndOf(raw, k)
  BY EndsStart
<1> QED
  BY <1>1, <1>2, <1>3, <1>4 DEF Layout

\* Escaping and what DecodeFrame makes of it undo each other.
LEMMA EscapeDecodes ==
  ASSUME NEW b \in Byte
  PROVE  /\ b \notin Special => Escaped(b) = <<b>>
         /\ b \in Special => /\ Escaped(b) = <<FRAME_SCAPE_BYTE, EncodeByte(b)>>
                             /\ DecodeByte(EncodeByte(b)) = b /\ b # 0
         /\ Escaped(b)[1] \notin Delimiter
         /\ Escaped(b)[1] = FRAME_SCAPE_BYTE <=> b \in Special
  BY DEF Escaped, EncodeByte, DecodeByte, Byte, Special, Delimiter, FRAME_START_BYTE,
         FRAME_STOP_BYTE, FRAME_SCAPE_BYTE, FRAME_START_COMB, FRAME_STOP_COMB, FRAME_SCAPE_COMB

LEMMA DecodedEscapes ==
  ASSUME NEW c, DecodeByte(c) # 0
  PROVE  Escaped(DecodeByte(c)) = <<FRAME_SCAPE_BYTE, c>>
  BY DEF Escaped, EncodeByte, DecodeByte, Special, FRAME_START_BYTE, FRAME_STOP_BYTE,
         FRAME_SCAPE_BYTE, FRAME_START_COMB, FRAME_STOP_COMB, FRAME_SCAPE_COMB

\* Encoding lays out the whole message.
LEMMA EncodeWhole ==
  ASSUME IInv, WholeInv, EncodeFrame
  PROVE  WholeInv'
<1>1. /\ pc \in {"send", "encode"} /\ sent = <<>> /\ received = <<>>
      /\ payload' = payload /\ received' = received /\ decoded' = decoded
      /\ pc' \in {"refused", "encode", "sent"}
  BY DEF EncodeFrame, Refused, EncodeStart, EncodeNext, EncodeStop, IInv, EncodeInv,
         WholeInv, EncodedInv
<1>2. DecodedInv'
  BY <1>1 DEF DecodedInv
<1>3. IntactInv'
  <2>1. pc' \in {"refused", "encode", "sent"} /\ received' = <<>>
    BY <1>1
  <2> QED
    BY <2>1 DEF IntactInv
<1>4. CASE Refused
  <2>1. EncodedInv'
    BY <1>1, <1>4 DEF Refused, EncodedInv
  <2> QED
    BY <1>2, <1>3, <2>1 DEF WholeInv
<1>5. CASE EncodeStart
  <2>1. /\ pc' = "encode" /\ frame' = <<FRAME_START_BYTE>> /\ Msg_Ptr' = 0 /\ sent' = <<>>
        /\ data_size(payload') \in 1..BufferSize
    BY <1>1, <1>5 DEF EncodeStart
  <2>2. frame'[1] = FRAME_START_BYTE /\ Len(frame') = 1
    BY <2>1
  <2>3. \E end : Layout(end, frame', payload', 0) /\ end[0] = 1
    BY <2>2, LayoutStarts
  <2>4. EncodedInv'
    BY <1>1, <2>1, <2>2, <2>3 DEF EncodedInv
  <2> QED
    BY <1>2, <1>3, <2>4 DEF WholeInv
<1>6. CASE EncodeNext
  <2>1. PICK end : Layout(end, frame, payload, Msg_Ptr) /\ Len(frame) = end[Msg_Ptr]
    BY <1>6 DEF EncodeNext, WholeInv, EncodedInv
  <2> DEFINE b == payload[Msg_Ptr + 1]
  <2>2. /\ Msg_Ptr \in Nat /\ Msg_Ptr + 1 \in 1..Len(payload) /\ payload \in Seq(Byte)
        /\ frame \in Seq(Byte)
    BY <1>6 DEF EncodeNext, IInv, TypeOK, EncodeInv
  <2>3. b \in Byte /\ Escaped(b) \in Seq(Byte) /\ Len(Escaped(b)) \in 1..2
    BY <2>2, EscapedBytes
  <2>4. /\ frame' = frame \o Escaped(b) /\ Msg_Ptr' = Msg_Ptr + 1 /\ sent' = sent
        /\ pc = "encode" /\ pc' = "encode"
    BY <1>6 DEF EncodeNext
  <2> HIDE DEF b
  <2>5. /\ Len(frame') = Len(frame) + Len(Escaped(b))
        /\ \A p \in 1..end[Msg_Ptr] : frame'[p] = frame[p]
        /\ \A m \in 1..Len(Escaped(b)) : frame'[end[Msg_Ptr] + m] = Escaped(b)[m]
    <3>1. PICK x \in Seq(Byte) : x = Escaped(b)
      BY <2>3
    <3>2. /\ Len(frame \o x) = Len(frame) + Len(x)
          /\ \A p \in 1..Len(frame) : (frame \o x)[p] = frame[p]
          /\ \A m \in 1..Len(x) : (frame \o x)[Len(frame) + m] = x[m]
      BY <2>2
    <3> QED
      BY <2>1, <2>4, <3>1, <3>2
  <2>6. Layout(end, frame', payload, Msg_Ptr)
    BY <2>1, <2>2, <2>5, LayoutKept
  <2>7. PICK e : /\ Layout(e, frame', payload, Msg_Ptr + 1)
                 /\ e[Msg_Ptr + 1] = end[Msg_Ptr] + Len(Escaped(b))
    BY <2>2, <2>3, <2>5, <2>6, LayoutGrows DEF b
  <2>8. Layout(e, frame', payload', Msg_Ptr') /\ Len(frame') = e[Msg_Ptr']
    BY <1>1, <2>1, <2>4, <2>5, <2>7
  <2>9. EncodedInv'
    BY <1>1, <2>4, <2>8 DEF WholeInv, EncodedInv, data_size
  <2> QED
    BY <1>2, <1>3, <2>9 DEF WholeInv
<1>7. CASE EncodeStop
  <2>1. PICK end : Layout(end, frame, payload, Msg_Ptr) /\ Len(frame) = end[Msg_Ptr]
    BY <1>7 DEF EncodeStop, WholeInv, EncodedInv
  <2>2. /\ Msg_Ptr = Len(payload) /\ Msg_Ptr \in Nat /\ frame \in Seq(Byte)
        /\ sent' = Append(frame, FRAME_STOP_BYTE) /\ pc = "encode" /\ pc' = "sent"
    BY <1>7 DEF EncodeStop, IInv, TypeOK, EncodeInv
  <2>3. /\ Len(sent') = Len(frame) + 1 /\ sent'[Len(sent')] = FRAME_STOP_BYTE
        /\ \A p \in 1..end[Msg_Ptr] : sent'[p] = frame[p]
    BY <2>1, <2>2, Framing
  <2>4. Layout(end, sent', payload, Msg_Ptr)
    BY <2>1, <2>2, <2>3, LayoutKept
  <2>5. Framed(end, sent', payload')
    BY <1>1, <2>1, <2>2, <2>3, <2>4 DEF Framed
  <2>6. EncodedInv'
    BY <1>1, <2>2, <2>5 DEF WholeInv, EncodedInv, data_size
  <2> QED
    BY <1>2, <1>3, <2>6 DEF WholeInv
<1> QED
  BY <1>4, <1>5, <1>6, <1>7 DEF EncodeFrame

\* Decoding starts behind the start byte.
LEMMA ReceiveWhole ==
  ASSUME IInv, WholeInv, Receive
  PROVE  WholeInv'
<1>1. /\ pc = "sent" /\ frame' = received' /\ i' = 1 /\ dec_idx' = 0
      /\ payload' = payload /\ sent' = sent
      /\ pc' = IF Len(received') = 0 \/ received'[1] # FRAME_START_BYTE
               THEN "rejected" ELSE "decode"
  BY DEF Receive
<1>2. EncodedInv'
  BY <1>1 DEF WholeInv, EncodedInv, data_size
<1>3. DecodedInv'
  <2>1. pc' # "accepted"
    BY <1>1
  <2>2. ASSUME pc' = "decode"
        PROVE  \E end : Layout(end, received', frame', 0) /\ end[0] = 1
    BY <1>1, <2>2, LayoutStarts
  <2> QED
    BY <1>1, <2>1, <2>2 DEF DecodedInv
<1>4. ASSUME received' = sent', sent' # <<>>
      PROVE  /\ pc' = "decode" /\ Len(payload) \in Nat
             /\ \E end : Framed(end, sent', payload') /\ 1 = end[0]
  <2>1. PICK end : Framed(end, sent, payload)
    BY <1>1, <1>4 DEF WholeInv, EncodedInv
  <2>2. end[0] = 1 /\ sent[1] = FRAME_START_BYTE
    BY <2>1 DEF Framed, Layout
  <2>3. sent \in Seq(Byte) /\ Len(sent) # 0 /\ Len(payload) \in Nat
    BY <1>1, <1>4 DEF IInv, TypeOK
  <2> QED
    BY <1>1, <1>4, <2>1, <2>2, <2>3
<1>5. IntactInv'
  <2>1. \A k \in 1..0 : frame'[k] = payload'[k]
    OBVIOUS
  <2> QED
    BY <1>1, <1>4, <2>1 DEF IntactInv
<1> QED
  BY <1>2, <1>3, <1>5 DEF WholeInv

\* What follows the read position in a frame that arrived intact.
LEMMA IntactAhead ==
  ASSUME IInv, WholeInv, pc = "decode", received = sent, sent # <<>>
  PROVE  /\ dec_idx \in 0..Len(payload) /\ i < Len(frame)
         /\ \A n \in (i + 1)..Len(frame) : frame[n] = received[n]
         /\ \A k \in 1..dec_idx : frame[k] = payload[k]
         /\ dec_idx = Len(payload) => frame[i + 1] = FRAME_STOP_BYTE
         /\ dec_idx < Len(payload) =>
                LET b == payload[dec_idx + 1]
                IN  /\ b \in Byte /\ i + Len(Escaped(b)) < Len(frame)
                    /\ \A m \in 1..Len(Escaped(b)) : frame[i + m] = Escaped(b)[m]
                    /\ \E end : Framed(end, sent, payload)
                                  /\ i + Len(Escaped(b)) = end[dec_idx + 1]
<1>1. /\ dec_idx \in Nat /\ i \in Nat /\ dec_idx < i /\ frame \in Seq(Byte)
      /\ Len(frame) = Len(received) /\ payload \in Seq(Byte)
      /\ \A n \in (i + 1)..Len(frame) : frame[n] = received[n]
  BY DEF IInv, TypeOK, ReadsAhead
<1>2. /\ dec_idx <= Len(payload) /\ \A k \in 1..dec_idx : frame[k] = payload[k]
      /\ \E end : Framed(end, sent, payload) /\ i = end[dec_idx]
  BY DEF WholeInv, IntactInv
<1>3. PICK end : Framed(end, sent, payload) /\ i = end[dec_idx]
  BY <1>2
<1> DEFINE n == Len(payload)
<1>4. /\ end \in [0..n -> Nat \ {0}]
      /\ \A j, k \in 0..n : j < k => end[j] < end[k]
      /\ \A k \in 1..n : end[k] = end[k - 1] + Len(Escaped(payload[k]))
      /\ \A k \in 1..n : \A m \in 1..Len(Escaped(payload[k])) :
             sent[end[k - 1] + m] = Escaped(payload[k])[m]
      /\ Len(sent) = end[n] + 1 /\ sent[Len(sent)] = FRAME_STOP_BYTE
  BY <1>3 DEF Framed, Layout
<1>5. n \in Nat /\ dec_idx \in 0..n /\ n \in 0..n
  BY <1>1, <1>2
<1> HIDE DEF n
<1>6. i <= end[n] /\ end[n] \in Nat
  BY <1>3, <1>4, <1>5
<1>7. CASE dec_idx = n
  BY <1>1, <1>2, <1>3, <1>4, <1>5, <1>6, <1>7 DEF n
<1>8. CASE dec_idx < n
  <2> DEFINE b == payload[dec_idx + 1]
  <2>1. dec_idx + 1 \in 1..n /\ dec_idx + 1 \in 0..n /\ dec_idx + 1 - 1 = dec_idx
    BY <1>5, <1>8
  <2>2. b \in Byte
    BY <1>1, <2>1 DEF n
  <2>3. Len(Escaped(b)) \in 1..2
    BY <2>2, EscapedBytes
  <2>4. end[dec_idx + 1] = i + Len(Escaped(b)) /\ end[dec_idx + 1] <= end[n]
    <3>1. PICK k \in 1..n : k = dec_idx + 1
      BY <2>1
    <3>5. k - 1 = dec_idx
      BY <1>5, <3>1
    <3>2. end[k] = i + Len(Escaped(payload[k]))
      BY <1>3, <1>4, <3>1, <3>5
    <3>3. k < n \/ k = n
      BY <1>5
    <3>4. end[k] <= end[n]
      BY <1>4, <1>5, <1>6, <3>3
    <3> QED
      BY <3>1, <3>2, <3>4
  <2>5. ASSUME NEW m \in 1..Len(Escaped(b)) PROVE frame[i + m] = Escaped(b)[m]
    <3>1. sent[i + m] = Escaped(b)[m]
      <4>1. PICK k \in 1..n : k = dec_idx + 1
        BY <2>1
      <4>2. k - 1 = dec_idx
        BY <1>5, <4>1
      <4>3. sent[end[k - 1] + m] = Escaped(payload[k])[m]
        BY <1>4, <2>5, <4>1
      <4> QED
        BY <1>3, <4>1, <4>2, <4>3
    <3>2. i + m \in (i + 1)..Len(frame)
      BY <1>1, <1>4, <1>6, <2>3, <2>4, <2>5
    <3> QED
      BY <1>1, <3>1, <3>2
  <2>6. i + Len(Escaped(b)) < Len(frame)
    BY <1>1, <1>4, <1>6, <2>4
  <2> QED
    BY <1>1, <1>2, <1>3, <1>4, <1>5, <1>6, <1>8, <2>2, <2>4, <2>5, <2>6 DEF n
<1> QED
  BY <1>5, <1>7, <1>8

\* No two bytes become the same.
LEMMA EscapedDiffer ==
  ASSUME NEW b \in Byte, NEW c \in Byte, Escaped(b)[1] = Escaped(c)[1],
         b \in Special /\ c \in Special => Escaped(b)[2] = Escaped(c)[2]
  PROVE  b = c
<1>1. b \in Special <=> c \in Special
  BY EscapeDecodes
<1>2. CASE b \in Special
  <2>1. EncodeByte(b) = EncodeByte(c)
    BY <1>1, <1>2, EscapeDecodes
  <2> QED
    BY <1>1, <1>2, <2>1, EscapeDecodes
<1>3. CASE b \notin Special
  BY <1>1, <1>3, EscapeDecodes
<1> QED
  BY <1>2, <1>3

\* What DecodeFrame does when it goes on: it reads what b becomes and writes b.
Decodes(b) == /\ pc = "decode" /\ pc' = "decode" /\ i < Len(frame)
              /\ frame' = [frame EXCEPT ![dec_idx + 1] = b]
              /\ dec_idx' = dec_idx + 1
              /\ i' = i + Len(Escaped(b))
              /\ \A m \in 1..Len(Escaped(b)) : received[i + m] = Escaped(b)[m]
              /\ UNCHANGED <<payload, sent, received>>

\* The layout grows by the byte decoded, and if the frame is intact it is the next one
\* of the message.
LEMMA Advances ==
  ASSUME IInv, WholeInv, NEW b \in Byte, Decodes(b)
  PROVE  DecodedInv' /\ IntactInv'
<1>0. /\ pc = "decode" /\ pc' = "decode" /\ dec_idx' = dec_idx + 1
      /\ i' = i + Len(Escaped(b))
      /\ \A m \in 1..Len(Escaped(b)) : received[i + m] = Escaped(b)[m]
      /\ payload' = payload /\ sent' = sent /\ received' = received
  BY DEF Decodes
<1>1. /\ dec_idx \in Nat /\ i \in Nat /\ dec_idx < i /\ frame \in Seq(Byte)
      /\ dec_idx + 1 \in 1..Len(frame)
  BY DEF IInv, TypeOK, ReadsAhead, Decodes
<1>2. frame'[dec_idx + 1] = b /\ \A k \in 1..dec_idx : frame'[k] = frame[k]
  BY <1>1 DEF Decodes
<1>3. Len(Escaped(b)) \in 1..2
  BY EscapedBytes
<1>4. PICK end : Layout(end, received, frame, dec_idx) /\ i = end[dec_idx]
  BY <1>0 DEF WholeInv, DecodedInv
<1>5. Layout(end, received, frame', dec_idx)
  <2>1. \A p \in 1..end[dec_idx] : received[p] = received[p]
    OBVIOUS
  <2> QED
    BY <1>1, <1>2, <1>4, <2>1, LayoutKept
<1>6. \E e : Layout(e, received, frame', dec_idx + 1) /\ e[dec_idx + 1] = i + Len(Escaped(b))
  <2>1. /\ Len(Escaped(frame'[dec_idx + 1])) \in 1..2
        /\ \A m \in 1..Len(Escaped(frame'[dec_idx + 1])) :
               received[end[dec_idx] + m] = Escaped(frame'[dec_idx + 1])[m]
    BY <1>0, <1>2, <1>3, <1>4
  <2>2. \E e : /\ Layout(e, received, frame', dec_idx + 1)
               /\ e[dec_idx + 1] = end[dec_idx] + Len(Escaped(frame'[dec_idx + 1]))
    BY <1>1, <1>5, <2>1, LayoutGrows
  <2> QED
    BY <1>2, <1>4, <2>2
<1>7. DecodedInv'
  BY <1>0, <1>6 DEF DecodedInv
<1>8. ASSUME received' = sent', sent' # <<>>
      PROVE  /\ dec_idx + 1 <= Len(payload) /\ \A k \in 1..(dec_idx + 1) : frame'[k] = payload[k]
             /\ \E g : Framed(g, sent, payload) /\ i + Len(Escaped(b)) = g[dec_idx + 1]
  <2>1. received = sent /\ sent # <<>>
    BY <1>0, <1>8
  <2>2. /\ dec_idx \in 0..Len(payload) /\ Len(payload) \in Nat
        /\ \A n \in (i + 1)..Len(frame) : frame[n] = received[n]
        /\ \A k \in 1..dec_idx : frame[k] = payload[k]
        /\ dec_idx = Len(payload) => frame[i + 1] = FRAME_STOP_BYTE
    BY <1>0, <2>1, IntactAhead DEF IInv, TypeOK
  <2>3. received[i + 1] = Escaped(b)[1] /\ frame[i + 1] = Escaped(b)[1]
    <3>1. 1 \in 1..Len(Escaped(b))
      BY <1>3
    <3>2. i < Len(frame) /\ Len(frame) \in Nat /\ i \in Nat
      BY <1>0, <1>1, <2>1, IntactAhead
    <3>3. i + 1 \in (i + 1)..Len(frame)
      BY <3>2
    <3> QED
      BY <1>0, <2>2, <3>1, <3>3
  <2>4. dec_idx < Len(payload)
    BY <2>2, <2>3, EscapeDecodes DEF Delimiter
  <2> DEFINE c == payload[dec_idx + 1]
  <2>5. /\ c \in Byte /\ i + Len(Escaped(c)) < Len(frame)
        /\ \A m \in 1..Len(Escaped(c)) : frame[i + m] = Escaped(c)[m]
        /\ \E g : Framed(g, sent, payload) /\ i + Len(Escaped(c)) = g[dec_idx + 1]
    BY <1>0, <2>1, <2>4, IntactAhead
  <2> HIDE DEF c
  <2>6. Escaped(b)[1] = Escaped(c)[1]
    <3>1. 1 \in 1..Len(Escaped(c))
      <4>1. Len(Escaped(c)) \in 1..2
        BY <2>5, EscapedBytes
      <4> QED
        BY <4>1
    <3> QED
      BY <2>3, <2>5, <3>1
  <2>7. ASSUME b \in Special, c \in Special PROVE Escaped(b)[2] = Escaped(c)[2]
    <3>1. Len(Escaped(b)) = 2 /\ Len(Escaped(c)) = 2
      BY <2>5, <2>7, EscapeDecodes
    <3>2. received[i + 2] = Escaped(b)[2] /\ frame[i + 2] = Escaped(c)[2]
      BY <1>0, <2>5, <3>1
    <3>3. i + 2 \in (i + 1)..Len(frame)
      BY <1>1, <2>5, <3>1
    <3> QED
      BY <2>2, <3>2, <3>3
  <2>8. b = c
    BY <2>5, <2>6, <2>7, EscapedDiffer
  <2>9. ASSUME NEW k \in 1..(dec_idx + 1) PROVE frame'[k] = payload[k]
    BY <1>1, <1>2, <2>2, <2>8, <2>9 DEF c
  <2> QED
    BY <1>1, <2>2, <2>4, <2>5, <2>8, <2>9
<1>9. IntactInv'
  BY <1>0, <1>8 DEF IntactInv
<1> QED
  BY <1>7, <1>9

\* A frame that arrived intact is not rejected.
LEMMA NotRejected ==
  ASSUME IInv, WholeInv, DecodeFrame, received = sent, sent # <<>>
  PROVE  pc' # "rejected"
<1>1. pc = "decode"
  BY DEF DecodeFrame, DecodeEscape, DecodePlain, DecodeStop, DecodeFails
<1> DEFINE b == payload[dec_idx + 1]
<1>2. /\ dec_idx \in 0..Len(payload) /\ i < Len(frame) /\ i \in Nat
      /\ \A k \in 1..dec_idx : frame[k] = payload[k]
      /\ dec_idx = Len(payload) => frame[i + 1] = FRAME_STOP_BYTE
      /\ dec_idx < Len(payload) =>
             /\ b \in Byte /\ i + Len(Escaped(b)) < Len(frame)
             /\ \A m \in 1..Len(Escaped(b)) : frame[i + m] = Escaped(b)[m]
  BY <1>1, IntactAhead DEF IInv, TypeOK
<1>3. /\ Len(payload) = hdr_len + data_size(payload) /\ data_size(payload) \in 1..BufferSize
      /\ payload \in Seq(Byte) /\ frame \in Seq(Byte) /\ BufferSize \in Nat
  BY ConstantsAssumption DEF IInv, TypeOK, EncodeInv, WholeInv, EncodedInv
<1> HIDE DEF b
<1>4. CASE dec_idx = Len(payload)
  <2>1. ByteAt(i) = FRAME_STOP_BYTE
    BY <1>2, <1>4 DEF ByteAt
  <2>2. SubSeq(frame, 1, dec_idx) = payload
    <3>1. dec_idx <= Len(frame)
      BY <1>1, <1>2, <1>3 DEF IInv, ReadsAhead
    <3> QED
      BY <1>2, <1>3, <1>4, <3>1
  <2>3. WellFormed(payload)
    BY <1>3 DEF WellFormed, hdr_len
  <2>4. FRAME_STOP_BYTE \in Special /\ FRAME_STOP_BYTE # FRAME_SCAPE_BYTE
        /\ FRAME_STOP_BYTE # FRAME_START_BYTE
    BY DEF Special, FRAME_STOP_BYTE, FRAME_SCAPE_BYTE, FRAME_START_BYTE
  <2>5. DecodeStop
    BY <1>2, <2>1, <2>4 DEF DecodeFrame, DecodeEscape, DecodePlain, DecodeFails
  <2> QED
    BY <2>2, <2>3, <2>5 DEF DecodeStop
<1>5. CASE dec_idx < Len(payload)
  <2>1. Len(Escaped(b)) \in 1..2
    BY <1>2, <1>5, EscapedBytes
  <2>2. ByteAt(i) = Escaped(b)[1] /\ ByteAt(i) \notin Delimiter
    BY <1>2, <1>5, <2>1, EscapeDecodes DEF ByteAt
  <2>3. ASSUME ByteAt(i) = FRAME_SCAPE_BYTE
        PROVE  i + 1 < Len(frame) /\ DecodeByte(ByteAt(i + 1)) # 0
    <3>1. b \in Special
      BY <1>2, <1>5, <2>2, <2>3, EscapeDecodes
    <3>2. Escaped(b) = <<FRAME_SCAPE_BYTE, EncodeByte(b)>> /\ DecodeByte(EncodeByte(b)) # 0
      BY <1>2, <1>5, <3>1, EscapeDecodes
    <3>3. frame[i + 2] = EncodeByte(b) /\ i + 2 < Len(frame)
      BY <1>2, <1>5, <3>2
    <3> QED
      BY <1>2, <1>3, <3>2, <3>3 DEF ByteAt
  <2>4. dec_idx + 1 <= hdr_len + BufferSize
    BY <1>2, <1>3, <1>5 DEF hdr_len
  <2>5. CASE DecodeEscape
    BY <1>1, <1>2, <1>3, <2>3, <2>5 DEF DecodeEscape
  <2>6. CASE DecodePlain
    BY <1>1, <1>2, <1>3, <2>4, <2>6 DEF DecodePlain, hdr_len
  <2>7. CASE DecodeStop
    BY <2>2, <2>7 DEF DecodeStop, Delimiter
  <2>8. CASE DecodeFails
    BY <1>2, <2>2, <2>8 DEF DecodeFails, Delimiter
  <2> QED
    BY <2>5, <2>6, <2>7, <2>8 DEF DecodeFrame
<1> QED
  BY <1>2, <1>3, <1>4, <1>5

\* Every step of DecodeFrame keeps what has been decoded in line with what was received.
LEMMA DecodeWhole ==
  ASSUME IInv, WholeInv, DecodeFrame
  PROVE  WholeInv'
<1>1. /\ pc = "decode" /\ pc' \in {"decode", "accepted", "rejected"}
      /\ payload' = payload /\ sent' = sent /\ received' = received
  BY DEF DecodeFrame, DecodeEscape, DecodePlain, DecodeStop, DecodeFails, Reject
<1>2. EncodedInv'
  BY <1>1 DEF WholeInv, EncodedInv, data_size
<1>3. /\ dec_idx \in Nat /\ i \in Nat /\ dec_idx < i /\ frame \in Seq(Byte)
      /\ Len(frame) = Len(received) /\ payload \in Seq(Byte)
      /\ \A n \in (i + 1)..Len(frame) : frame[n] = received[n]
  BY <1>1 DEF IInv, TypeOK, ReadsAhead
<1>4. CASE pc' = "rejected"
  <2>1. DecodedInv'
    BY <1>4 DEF DecodedInv
  <2>2. ~(received' = sent' /\ sent' # <<>>)
    BY <1>1, <1>4, NotRejected
  <2>3. IntactInv'
    BY <2>2 DEF IntactInv
  <2> QED
    BY <1>2, <2>1, <2>3 DEF WholeInv
<1>5. CASE pc' = "decode"
  <2>1. PICK b \in Byte : Decodes(b)
    <3>1. CASE DecodeEscape
      <4> DEFINE c == ByteAt(i + 1)
      <4>1. /\ i + 1 < Len(frame) /\ DecodeByte(c) # 0 /\ ByteAt(i) = FRAME_SCAPE_BYTE
            /\ frame' = [frame EXCEPT ![dec_idx + 1] = DecodeByte(c)]
            /\ dec_idx' = dec_idx + 1 /\ i' = i + 2
        BY <1>3, <1>5, <3>1 DEF DecodeEscape, Reject
      <4>2. Escaped(DecodeByte(c)) = <<FRAME_SCAPE_BYTE, c>> /\ DecodeByte(c) \in Byte
        BY <4>1, DecodedByte, DecodedEscapes
      <4>3. received[i + 1] = FRAME_SCAPE_BYTE /\ received[i + 2] = c
        BY <1>3, <4>1 DEF ByteAt
      <4> HIDE DEF c
      <4>4. /\ Len(Escaped(DecodeByte(c))) = 2
            /\ \A m \in 1..2 : received[i + m] = Escaped(DecodeByte(c))[m]
        BY <4>2, <4>3
      <4>5. Decodes(DecodeByte(c))
        BY <1>1, <1>3, <1>5, <4>1, <4>4 DEF Decodes
      <4> QED
        BY <4>2, <4>5
    <3>2. CASE DecodePlain
      <4> DEFINE c == ByteAt(i)
      <4>1. /\ i < Len(frame) /\ c \notin Special
            /\ frame' = [frame EXCEPT ![dec_idx + 1] = c]
            /\ dec_idx' = dec_idx + 1 /\ i' = i + 1
        BY <1>5, <3>2 DEF DecodePlain
      <4>2. c = frame[i + 1] /\ received[i + 1] = c /\ c \in Byte
        BY <1>3, <4>1 DEF ByteAt
      <4> HIDE DEF c
      <4>3. Escaped(c) = <<c>>
        BY <4>1, <4>2, EscapeDecodes
      <4>4. Len(Escaped(c)) = 1 /\ \A m \in 1..1 : received[i + m] = Escaped(c)[m]
        BY <4>2, <4>3
      <4>5. Decodes(c)
        BY <1>1, <1>3, <1>5, <4>1, <4>4 DEF Decodes
      <4> QED
        BY <4>2, <4>5
    <3> QED
      BY <1>5, <3>1, <3>2 DEF DecodeFrame, DecodeStop, DecodeFails, Reject
  <2> QED
    BY <1>2, <2>1, Advances DEF WholeInv
<1>6. CASE pc' = "accepted"
  <2>1. /\ DecodeStop /\ decoded' = SubSeq(frame, 1, dec_idx) /\ i < Len(frame)
        /\ ByteAt(i) = FRAME_STOP_BYTE
    BY <1>1, <1>6 DEF DecodeFrame, DecodeEscape, DecodePlain, DecodeStop, DecodeFails, Reject
  <2>2. received[i + 1] = FRAME_STOP_BYTE
    BY <1>3, <2>1 DEF ByteAt
  <2>3. Len(decoded') = dec_idx /\ \A k \in 1..dec_idx : decoded'[k] = frame[k]
    BY <1>3, <2>1
  <2>4. PICK end : Layout(end, received, frame, dec_idx) /\ i = end[dec_idx]
    BY <1>1 DEF WholeInv, DecodedInv
  <2>5. Layout(end, received, decoded', dec_idx)
    <3>1. \A p \in 1..end[dec_idx] : received[p] = received[p]
      OBVIOUS
    <3> QED
      BY <1>3, <2>3, <2>4, <3>1, LayoutKept
  <2>6. DecodedInv'
    BY <1>1, <1>3, <1>6, <2>1, <2>2, <2>3, <2>4, <2>5 DEF DecodedInv
  <2>7. ASSUME received = sent, sent # <<>> PROVE decoded' = payload
    <3>1. /\ dec_idx \in 0..Len(payload)
          /\ \A k \in 1..dec_idx : frame[k] = payload[k]
          /\ dec_idx < Len(payload) =>
                 /\ payload[dec_idx + 1] \in Byte
                 /\ \A m \in 1..Len(Escaped(payload[dec_idx + 1])) :
                        frame[i + m] = Escaped(payload[dec_idx + 1])[m]
      BY <1>1, <2>7, IntactAhead
    <3>2. dec_idx = Len(payload)
      <4>1. CASE dec_idx < Len(payload)
        <5>1. 1 \in 1..Len(Escaped(payload[dec_idx + 1]))
          <6>1. Len(Escaped(payload[dec_idx + 1])) \in 1..2
            BY <3>1, <4>1, EscapedBytes
          <6> QED
            BY <6>1
        <5>2. frame[i + 1] \notin Delimiter
          BY <3>1, <4>1, <5>1, EscapeDecodes
        <5> QED
          BY <2>1, <5>2 DEF ByteAt, Delimiter
      <4> QED
        BY <1>3, <3>1, <4>1
    <3> QED
      BY <1>3, <2>1, <2>3, <3>1, <3>2
  <2>8. IntactInv'
    BY <1>1, <1>6, <2>7 DEF IntactInv
  <2> QED
    BY <1>2, <2>6, <2>8 DEF WholeInv
<1> QED
  BY <1>1, <1>2, <1>4, <1>5, <1>6 DEF WholeInv

\* Nothing has been sent or received at first.
LEMMA InitWhole == Init => WholeInv
  BY DEF Init, WholeInv, EncodedInv, DecodedInv, IntactInv

LEMMA StepWhole == IInv /\ WholeInv /\ [Next]_vars => WholeInv'
<1>1. ASSUME WholeInv, UNCHANGED vars
      PROVE  WholeInv'
  BY <1>1 DEF vars, WholeInv, EncodedInv, DecodedInv, IntactInv, data_size
<1> QED
  BY <1>1, EncodeWhole, ReceiveWhole, DecodeWhole DEF Next

THEOREM WholeInvariant == Spec => []WholeInv
  BY Invariant, InitWhole, StepWhole, PTL DEF Spec

-----------------------------------------------------------------------------
(* The theorems. *)

\* Types hold, and a frame is at most twice as long as its message, plus two bytes.
THEOREM TypeCorrect == Spec => []TypeOK
<1>1. IInv => TypeOK
  BY DEF IInv
<1> QED
  BY <1>1, Invariant, PTL

\* Decoding in place never destroys a byte of the datagram before it is read.
THEOREM DecodesInPlace == Spec => []ReadsAhead
<1>1. IInv => ReadsAhead
  BY DEF IInv
<1> QED
  BY <1>1, Invariant, PTL

\* Whatever a message holds, start and stop bytes only delimit its frame.
THEOREM FramesAreDelimited == Spec => []FramesDelimited
<1>1. IInv => FramesDelimited
  BY DEF IInv, SentInv, FramesDelimited, Delimiter
<1> QED
  BY <1>1, Invariant, PTL

\* A frame that lost its end is never accepted.
THEOREM CutOffFramesAreRejected == Spec => []CutOffIsRejected
<1>1. ASSUME IInv, pc = "accepted", Len(received) < Len(sent)
      PROVE  received # SubSeq(sent, 1, Len(received))
  <2>1. PICK n \in 2..Len(received) : received[n] = FRAME_STOP_BYTE
    BY <1>1 DEF IInv, AcceptInv
  <2>2. /\ sent \in Seq(Byte) /\ received \in Seq(Byte) /\ sent # <<>>
        /\ n \in 2..(Len(sent) - 1) /\ n \in 1..Len(received)
    BY <1>1, <2>1 DEF IInv, TypeOK
  <2>3. sent[n] # FRAME_STOP_BYTE
    BY <1>1, <2>2 DEF IInv, SentInv, Delimiter
  <2>4. SubSeq(sent, 1, Len(received))[n] = sent[n]
    BY <1>1, <2>2
  <2> QED
    BY <2>1, <2>3, <2>4
<1>2. IInv => CutOffIsRejected
  BY <1>1 DEF CutOffIsRejected
<1> QED
  BY <1>2, Invariant, PTL

\* Sender and receiver agree on every message: a frame that arrives as it was sent is
\* decoded to the message it was made of, for every message and buffer size.
THEOREM MessagesRoundTrip == Spec => []RoundTrip
<1>1. WholeInv => RoundTrip
  BY DEF WholeInv, IntactInv, RoundTrip
<1> QED
  BY <1>1, WholeInvariant, PTL

\* Whatever datagram arrives, DecodeFrame only returns a message whose frame the datagram
\* begins with.
THEOREM AcceptedIsOneFrame == Spec => []OneFramePerMessage
<1>1. ASSUME WholeInv, IInv, pc = "accepted"
      PROVE  BeginsWithFrame(received, decoded)
  <2>1. PICK end : /\ Layout(end, received, decoded, Len(decoded))
                   /\ end[Len(decoded)] < Len(received)
                   /\ received[end[Len(decoded)] + 1] = FRAME_STOP_BYTE
    BY <1>1 DEF WholeInv, DecodedInv
  <2>2. Len(decoded) \in Nat
    BY <1>1 DEF IInv, TypeOK
  <2>3. /\ \A k \in 0..Len(decoded) : end[k] = EndOf(decoded, k)
        /\ received[1] = FRAME_START_BYTE
        /\ \A k \in 1..Len(decoded) : \A m \in 1..Len(Escaped(decoded[k])) :
               received[end[k - 1] + m] = Escaped(decoded[k])[m]
    BY <2>1 DEF Layout
  <2>4. \A k \in 1..Len(decoded) : k - 1 \in 0..Len(decoded)
    BY <2>2
  <2>5. Len(decoded) \in 0..Len(decoded)
    BY <2>2
  <2> QED
    BY <2>1, <2>3, <2>4, <2>5 DEF BeginsWithFrame
<1>2. WholeInv /\ IInv => OneFramePerMessage
  BY <1>1 DEF OneFramePerMessage
<1> QED
  BY <1>2, Invariant, WholeInvariant, PTL
=============================================================================
