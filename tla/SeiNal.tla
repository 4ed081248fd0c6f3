------------------------------- MODULE SeiNal -------------------------------
(***************************************************************************)
(* src/video_streamer.cpp: how H264SeiProbe writes a frame's timestamp     *)
(* into the stream.  BuildRealSenseSei makes a SEI message, escapes it     *)
(* byte by byte into a NAL unit, and the unit is copied between those of   *)
(* the access unit, at the place H264SeiInsertOffset finds.                *)
(*                                                                         *)
(* A NAL unit ends where the next start code 00 00 01 begins, so that no   *)
(* unit may hold one: AppendEscapedRbsp breaks up 00 00 followed by a byte *)
(* up to 3 with a 03, which every H264 decoder removes.  The decoder is    *)
(* external (ITU-T H.264, 7.3.1); it reads along with the encoder here, in *)
(* the history variable read.                                              *)
(*                                                                         *)
(* A sequence starts at 1, an array at 0: the byte at position p of the    *)
(* code is number p + 1 here, and an offset counts the bytes before it.    *)
(***************************************************************************)
EXTENDS Integers, Sequences

CONSTANT Cases  \* pairs: the payload of a SEI message, and an access unit

Byte == 0..255

ASSUME CasesAssumption == Cases \subseteq Seq(Byte) \X Seq(Byte)

VARIABLES rbsp,       \* what is to be escaped
          old,        \* old_map.data: the access unit
          i,          \* bytes of rbsp already escaped
          zero_count,
          body,       \* the unit after its start code and header
          read,       \* what a decoder has of body (history)
          offset,     \* insert_offset, and the index that looks for it
          new,        \* new_map.data
          stage

escaping == <<i, zero_count, body, read>>
sei_vars == <<rbsp, old, escaping, offset, new, stage>>

\* payloadType 5 (user data), the size, the payload and rbsp_trailing_bits.
Rbsp(payload) == <<5, Len(payload) % 256>> \o payload \o <<128>>

SeiInit == /\ \E c \in Cases : rbsp = Rbsp(c[1]) /\ old = c[2]
           /\ i = 0 /\ zero_count = 0 /\ body = <<>>
           /\ read = [zeros |-> 0, bytes |-> <<>>]
           /\ offset = 0 /\ new = <<>>
           /\ stage = "escape"

-----------------------------------------------------------------------------
(* AppendEscapedRbsp. *)

Zeros(n, byte) == IF byte = 0 THEN n + 1 ELSE 0

\* A decoder drops the 03 after 00 00 and counts the zeros anew.
Decoded(r, byte) == IF r.zeros >= 2 /\ byte = 3
                    THEN [r EXCEPT !.zeros = 0]
                    ELSE [zeros |-> Zeros(r.zeros, byte), bytes |-> Append(r.bytes, byte)]

EscapesLate(byte) == zero_count >= 3 /\ byte <= 3
EscapesBelow3(byte) == zero_count >= 2 /\ byte < 3

MustEscape(byte) == zero_count >= 2 /\ byte <= 3

EscapeByte ==
    LET byte == rbsp[i + 1]
    IN  /\ stage = "escape" /\ i < Len(rbsp)
        /\ i' = i + 1
        /\ IF MustEscape(byte)
           THEN /\ body' = body \o <<3, byte>>
                /\ zero_count' = Zeros(0, byte)
                /\ read' = Decoded(Decoded(read, 3), byte)
           ELSE /\ body' = Append(body, byte)
                /\ zero_count' = Zeros(zero_count, byte)
                /\ read' = Decoded(read, byte)
        /\ UNCHANGED <<rbsp, old, offset, new, stage>>

-----------------------------------------------------------------------------
(* H264SeiInsertOffset. *)

ThreeAt(s, p) == s[p + 1] = 0 /\ s[p + 2] = 0 /\ s[p + 3] = 1
FourAt(s, p) == s[p + 1] = 0 /\ s[p + 2] = 0 /\ s[p + 3] = 0 /\ s[p + 4] = 1

StartCodeLengthAt(s, p) == IF p + 3 <= Len(s) /\ ThreeAt(s, p) THEN 3
                           ELSE IF p + 4 <= Len(s) /\ FourAt(s, p) THEN 4 ELSE 0

nal_type(header) == header % 32

WholeByte(s) == StartCodeLengthAt(s, 0) # 0 /\ Len(s) > StartCodeLengthAt(s, 0)
                /\ s[StartCodeLengthAt(s, 0) + 1] = 9

\* The access unit starts with an access unit delimiter.
StartsWithDelimiter(s) == LET start_code_len == StartCodeLengthAt(s, 0)
                          IN  /\ start_code_len # 0 /\ Len(s) > start_code_len
                              /\ nal_type(s[start_code_len + 1]) = 9

\* BuildRealSenseSei is complete; the first unit decides where it goes.
H264SeiInsertOffset ==
    /\ stage = "escape" /\ i = Len(rbsp)
    /\ IF StartsWithDelimiter(old)
       THEN offset' = StartCodeLengthAt(old, 0) + 1 /\ stage' = "search"
       ELSE offset' = 0 /\ stage' = "copy"
    /\ UNCHANGED <<rbsp, old, escaping, new>>

FoundBehind(s, p) == ThreeAt(s, p - 1)

\* The loop only looks at start codes that something follows.
FoundAt(s, p) == ThreeAt(s, p) \/ (p + 4 < Len(s) /\ FourAt(s, p))

FindNextStartCode ==
    /\ stage = "search"
    /\ IF offset + 3 < Len(old)
       THEN IF FoundAt(old, offset)
            THEN stage' = "copy" /\ UNCHANGED offset
            ELSE offset' = offset + 1 /\ UNCHANGED stage
       ELSE offset' = Len(old) /\ stage' = "copy"
    /\ UNCHANGED <<rbsp, old, escaping, new>>

-----------------------------------------------------------------------------
(* H264SeiProbe: the copies into the new buffer. *)

\* The start code, the header of a SEI unit, and the message.
Sei == <<0, 0, 0, 1, 6>> \o body

CopyAround ==
    /\ stage = "copy"
    /\ new' = SubSeq(old, 1, offset) \o Sei \o SubSeq(old, offset + 1, Len(old))
    /\ stage' = "done"
    /\ UNCHANGED <<rbsp, old, escaping, offset>>

SeiNext == EscapeByte \/ H264SeiInsertOffset \/ FindNextStartCode \/ CopyAround

SeiSpec == SeiInit /\ [][SeiNext]_sei_vars

-----------------------------------------------------------------------------
(* Properties. *)

SeiTypeOK == /\ rbsp \in Seq(Byte) /\ old \in Seq(Byte)
             /\ i \in 0..Len(rbsp) /\ zero_count \in 0..2
             /\ body \in Seq(Byte)
             /\ read \in [zeros : 0..2, bytes : Seq(Byte)]
             /\ offset \in 0..Len(old)
             /\ new \in Seq(Byte)
             /\ stage \in {"escape", "search", "copy", "done"}

\* Whatever the timestamp, the message holds none of the patterns that end a
\* unit or that H264 forbids inside one: 00 00 followed by 00, 01 or 02.
NoStartCodeInside == \A k \in 1..(Len(body) - 2) :
                        ~(body[k] = 0 /\ body[k + 1] = 0 /\ body[k + 2] <= 2)

\* A decoder gets back exactly the bytes escaped so far.
ReadsBack == read.bytes = SubSeq(rbsp, 1, i)

StartCodes(s) == {k \in 1..(Len(s) - 2) : ThreeAt(s, k - 1)}

\* Copying the message in makes one NAL unit and leaves those of the frame as
\* they were: no start code is cut in two, and none forms where copies meet.
UnitsKept == stage = "done" =>
    StartCodes(new) = {k \in StartCodes(old) : k <= offset}
                      \cup {offset + 2}
                      \cup {k + Len(Sei) : k \in {m \in StartCodes(old) : m > offset}}

\* No unit of the access unit is empty.
WellFormed(s) == \A k \in StartCodes(s) : k + 3 <= Len(s)

\* An access unit delimiter stays first and the message comes right after it:
\* H264 allows no unit before the delimiter, and a SEI only before the slices.
DelimiterFirst ==
    stage = "done" /\ WellFormed(old) =>
        \A first \in StartCodes(old) :
            /\ first = 1 \/ (first = 2 /\ old[1] = 0)
            /\ nal_type(old[first + 3]) = 9
            => {k \in StartCodes(old) : k <= offset} = {first}
=============================================================================
