------------------------------ MODULE FrameCodec ------------------------------
(***************************************************************************)
(* src/comms_common.cpp: the frames that carry every message over UDP.  A  *)
(* frame starts with FRAME_START_BYTE and ends with FRAME_STOP_BYTE; these *)
(* two and FRAME_SCAPE_BYTE are escaped inside.  EncodeFrame builds one    *)
(* byte by byte; DecodeFrame undoes it in place, in the buffer the         *)
(* datagram was received into.                                             *)
(*                                                                         *)
(* The header (msg_id, padding, crc_32, data_size) has one byte per field  *)
(* here and no padding.  A datagram may be cut off (the listener reads at  *)
(* most 2048 bytes) or carry something else than a frame of this encoder.  *)
(* The checksum is checked by the callers of DecodeFrame, on its result.   *)
(***************************************************************************)
EXTENDS Integers, Sequences, FiniteSets

CONSTANTS Values,     \* the bytes messages are made of
          BufferSize, \* BUFFER_DEFAULT_SIZE, 8192 in the code
          MaxForeign  \* bound on the length of datagrams made by others

Byte == 0..255

ASSUME ConstantsAssumption == /\ Values \subseteq Byte
                              /\ BufferSize \in Nat /\ BufferSize < 255
                              /\ MaxForeign \in Nat

FRAME_START_BYTE == 126
FRAME_STOP_BYTE == 125
FRAME_SCAPE_BYTE == 124
FRAME_STOP_COMB == 1
FRAME_START_COMB == 2
FRAME_SCAPE_COMB == 3
Special == {FRAME_START_BYTE, FRAME_STOP_BYTE, FRAME_SCAPE_BYTE}

hdr_len == 3 \* msg_id, crc_32, data_size
data_size(raw) == raw[hdr_len]

VARIABLES pc,
          payload,  \* the message to send, as the bytes EncodeFrame reads
          Msg_Ptr,  \* bytes of it encoded
          frame,    \* the sender's buffer, then the receiver's
          i,        \* DecodeFrame's index, counted from 0 as in the code
          dec_idx,  \* bytes decoded
          sent,     \* the frame as it was sent (history)
          received, \* the datagram as it arrived (history)
          decoded   \* what DecodeFrame returns in its payload

vars == <<pc, payload, Msg_Ptr, frame, i, dec_idx, sent, received, decoded>>

\* The messages with n bytes of data.
MessagesOf(n) == {<<m.id, m.crc, n>> \o m.data :
                      m \in [id : Values, crc : Values, data : [1..n -> Values]]}

\* With no data, with data that fits, and with too much of it.
Messages == UNION {MessagesOf(n) : n \in 0..(BufferSize + 1)}

Init == /\ payload \in Messages
        /\ pc = "send"
        /\ Msg_Ptr = 0 /\ frame = <<>>
        /\ i = 0 /\ dec_idx = 0
        /\ sent = <<>> /\ received = <<>> /\ decoded = <<>>

\* frame[n] of the code.
ByteAt(n) == frame[n + 1]

-----------------------------------------------------------------------------
(* SendPayload and EncodeFrame. *)

EncodeByte(byte) == CASE byte = FRAME_STOP_BYTE -> FRAME_STOP_COMB
                      [] byte = FRAME_START_BYTE -> FRAME_START_COMB
                      [] byte = FRAME_SCAPE_BYTE -> FRAME_SCAPE_COMB
                      [] OTHER -> 0

\* Messages without data, or with too much of it, are not sent.
Refused == /\ pc = "send"
           /\ data_size(payload) = 0 \/ data_size(payload) > BufferSize
           /\ pc' = "refused"
           /\ UNCHANGED <<payload, Msg_Ptr, frame, i, dec_idx, sent, received, decoded>>

EncodeStart == /\ pc = "send"
               /\ data_size(payload) \in 1..BufferSize
               /\ frame' = <<FRAME_START_BYTE>>
               /\ Msg_Ptr' = 0
               /\ pc' = "encode"
               /\ UNCHANGED <<payload, i, dec_idx, sent, received, decoded>>

Escaped(b) == IF b \in Special THEN <<FRAME_SCAPE_BYTE, EncodeByte(b)>> ELSE <<b>>

EncodeNext == /\ pc = "encode"
              /\ Msg_Ptr < hdr_len + data_size(payload)
              /\ frame' = frame \o Escaped(payload[Msg_Ptr + 1])
              /\ Msg_Ptr' = Msg_Ptr + 1
              /\ UNCHANGED <<pc, payload, i, dec_idx, sent, received, decoded>>

EncodeStop == /\ pc = "encode"
              /\ Msg_Ptr = hdr_len + data_size(payload)
              /\ frame' = Append(frame, FRAME_STOP_BYTE)
              /\ sent' = frame'
              /\ pc' = "sent"
              /\ UNCHANGED <<payload, Msg_Ptr, i, dec_idx, received, decoded>>

-----------------------------------------------------------------------------
(* The network, and DecodeFrame. *)

\* The datagram arrives whole or cut off, or with one byte that differs, or it is
\* somebody else's.
Arrivals == {SubSeq(sent, 1, n) : n \in 0..Len(sent)}
              \cup {[sent EXCEPT ![n] = b] : n \in 1..Len(sent), b \in Values}
              \cup UNION {[1..n -> Values] : n \in 0..MaxForeign}

ReceiveKeepsStart ==
    /\ pc = "sent"
    /\ \E datagram \in Arrivals : received' = datagram
    /\ frame' = received'
    /\ i' = 1 /\ dec_idx' = 1
    /\ pc' = IF Len(received') = 0 \/ received'[1] # FRAME_START_BYTE
             THEN "rejected" ELSE "decode"
    /\ UNCHANGED <<payload, Msg_Ptr, sent, decoded>>

Receive == /\ pc = "sent"
           /\ \E datagram \in Arrivals : received' = datagram
           /\ frame' = received'
           /\ i' = 1 /\ dec_idx' = 0
           /\ pc' = IF Len(received') = 0 \/ received'[1] # FRAME_START_BYTE
                    THEN "rejected" ELSE "decode"
           /\ UNCHANGED <<payload, Msg_Ptr, sent, decoded>>

DecodesSwapped(byte) == CASE byte = FRAME_STOP_COMB -> FRAME_START_BYTE
                          [] byte = FRAME_START_COMB -> FRAME_STOP_BYTE
                          [] byte = FRAME_SCAPE_COMB -> FRAME_SCAPE_BYTE
                          [] OTHER -> 0

DecodeByte(byte) == CASE byte = FRAME_STOP_COMB -> FRAME_STOP_BYTE
                      [] byte = FRAME_START_COMB -> FRAME_START_BYTE
                      [] byte = FRAME_SCAPE_COMB -> FRAME_SCAPE_BYTE
                      [] OTHER -> 0

Reject == pc' = "rejected" /\ UNCHANGED <<frame, i, dec_idx, decoded>>

KeepsUnknownEscape ==
    /\ pc = "decode" /\ i < Len(frame)
    /\ ByteAt(i) = FRAME_SCAPE_BYTE
    /\ IF i + 1 >= Len(frame)
       THEN Reject
       ELSE /\ frame' = [frame EXCEPT ![dec_idx + 1] =
                            IF DecodeByte(ByteAt(i + 1)) = 0 THEN ByteAt(i + 1)
                            ELSE DecodeByte(ByteAt(i + 1))]
            /\ dec_idx' = dec_idx + 1
            /\ i' = i + 2
            /\ UNCHANGED <<pc, decoded>>
    /\ UNCHANGED <<payload, Msg_Ptr, sent, received>>

DecodeEscape ==
    /\ pc = "decode" /\ i < Len(frame)
    /\ ByteAt(i) = FRAME_SCAPE_BYTE
    /\ IF i + 1 >= Len(frame) \/ DecodeByte(ByteAt(i + 1)) = 0
       THEN Reject
       ELSE /\ frame' = [frame EXCEPT ![dec_idx + 1] = DecodeByte(ByteAt(i + 1))]
            /\ dec_idx' = dec_idx + 1
            /\ i' = i + 2
            /\ UNCHANGED <<pc, decoded>>
    /\ UNCHANGED <<payload, Msg_Ptr, sent, received>>

DecodePlain ==
    /\ pc = "decode" /\ i < Len(frame)
    /\ ByteAt(i) \notin Special
    /\ frame' = [frame EXCEPT ![dec_idx + 1] = ByteAt(i)]
    /\ dec_idx' = dec_idx + 1
    /\ IF dec_idx' > hdr_len + BufferSize
       THEN pc' = "rejected" /\ UNCHANGED i
       ELSE i' = i + 1 /\ UNCHANGED pc
    /\ UNCHANGED <<payload, Msg_Ptr, sent, received, decoded>>

\* The length must fit the header's data_size.
WellFormed(raw) == /\ Len(raw) \in hdr_len..(hdr_len + BufferSize)
                   /\ data_size(raw) <= BufferSize
                   /\ Len(raw) = hdr_len + data_size(raw)

DecodeStop ==
    /\ pc = "decode" /\ i < Len(frame)
    /\ ByteAt(i) = FRAME_STOP_BYTE
    /\ LET raw == SubSeq(frame, 1, dec_idx)
       IN IF WellFormed(raw)
          THEN pc' = "accepted" /\ decoded' = raw /\ UNCHANGED <<frame, i, dec_idx>>
          ELSE Reject
    /\ UNCHANGED <<payload, Msg_Ptr, sent, received>>

\* A start byte inside, or no stop byte.
DecodeFails == /\ pc = "decode"
               /\ i < Len(frame) => ByteAt(i) = FRAME_START_BYTE
               /\ Reject
               /\ UNCHANGED <<payload, Msg_Ptr, sent, received>>

EncodeFrame == Refused \/ EncodeStart \/ EncodeNext \/ EncodeStop
DecodeFrame == DecodeEscape \/ DecodePlain \/ DecodeStop \/ DecodeFails

Next == EncodeFrame \/ Receive \/ DecodeFrame

Spec == Init /\ [][Next]_vars

-----------------------------------------------------------------------------
(* Correctness. *)

\* The type invariant; a frame takes at most two bytes for each byte of the message.
TypeOK ==
    /\ pc \in {"send", "refused", "encode", "sent", "decode", "accepted", "rejected"}
    /\ payload \in Seq(Byte) /\ Len(payload) >= hdr_len
    /\ Msg_Ptr \in 0..Len(payload)
    /\ frame \in Seq(Byte) /\ sent \in Seq(Byte) /\ received \in Seq(Byte)
    /\ decoded \in Seq(Byte)
    /\ Len(sent) <= 2 * Len(payload) + 2
    /\ i \in Nat /\ dec_idx \in Nat

\* DecodeFrame writes behind the byte it reads, and never over one that it has
\* still to read, although both are in one buffer.
ReadsAhead ==
    pc = "decode" => /\ dec_idx < i
                     /\ Len(frame) = Len(received)
                     /\ \A n \in (i + 1)..Len(frame) : frame[n] = received[n]

\* No message makes a frame with a start or stop byte between its first and last.
FramesDelimited ==
    sent # <<>> => \A n \in 2..(Len(sent) - 1) : sent[n] \notin {FRAME_START_BYTE, FRAME_STOP_BYTE}

\* A frame that has been cut off is never accepted, whatever its bytes are.
CutOffIsRejected ==
    pc = "accepted" /\ Len(received) < Len(sent)
      => received # SubSeq(sent, 1, Len(received))

\* Where in the frame of raw its first k bytes end: behind the start byte, one byte each,
\* and one more for each that is escaped.
EndOf(raw, k) == 1 + k + Cardinality({j \in 1..k : raw[j] \in Special})

\* f begins with the frame of raw.
BeginsWithFrame(f, raw) ==
    /\ EndOf(raw, Len(raw)) < Len(f)
    /\ f[1] = FRAME_START_BYTE
    /\ \A k \in 1..Len(raw) : \A m \in 1..Len(Escaped(raw[k])) :
           f[EndOf(raw, k - 1) + m] = Escaped(raw[k])[m]
    /\ f[EndOf(raw, Len(raw)) + 1] = FRAME_STOP_BYTE

\* Whatever is accepted is the frame of the message returned, up to bytes behind its
\* stop byte: two different frames are never taken for the same message.
OneFramePerMessage == pc = "accepted" => BeginsWithFrame(received, decoded)

\* A frame that arrives as it was sent is accepted, as the message it was made of.
RoundTrip ==
    received = sent /\ sent # <<>> => /\ pc # "rejected"
                                      /\ pc = "accepted" => decoded = payload
=============================================================================
