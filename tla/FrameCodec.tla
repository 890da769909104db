----------------------------- MODULE FrameCodec -----------------------------
(***************************************************************************)
(* rpc::FrameCodec (src/backend/protocol/rpc_frame.cpp) as operators: how  *)
(* a frame becomes bytes, and what one more byte does to the decoder.      *)
(*                                                                         *)
(*   [Sync] [CMD] [SEQ] [LEN low] [LEN high] [PAYLOAD ...] [CRC] [CRC]     *)
(*                                                                         *)
(* A byte is a number below Base (256); the CRC of a body in one of the    *)
(* two dialects is a pair of bytes, and nothing else about it matters.     *)
(***************************************************************************)
EXTENDS Integers, Sequences

CONSTANTS
    Base,          \* values of a byte (256)
    Sync,          \* SYNC_BYTE
    MaxPayload,    \* MAX_PAYLOAD (8192)
    Crc(_, _)      \* Crc(dialect, body): the two bytes of its CRC-16

Byte == 0..(Base - 1)
Dialect == {"Correct", "Legacy"}

ASSUME CodecAssumption ==
    /\ Base \in Nat /\ Base > 1 /\ Sync \in Byte
    /\ MaxPayload \in Nat /\ MaxPayload < Base * Base

ASSUME CrcAssumption ==
    \A d \in Dialect, n \in 4..(4 + MaxPayload) : \A body \in [1..n -> Byte] :
        Crc(d, body) \in [1..2 -> Byte]

Header(f) == <<f.cmd, f.seq, Len(f.payload) % Base, Len(f.payload) \div Base>>

\* Frames that fit: buildFrame() truncates the length to 16 bits, and every
\* caller keeps its payload below MAX_PAYLOAD.
Frame == [cmd : Byte, seq : Byte, payload : {s \in Seq(Byte) : Len(s) <= MaxPayload}]

Body(f) == Header(f) \o f.payload

BuildFrame(f, dialect) == <<Sync>> \o Body(f) \o Crc(dialect, Body(f))

\* Only 46 of the 256 table entries differ, so for many a body they do not matter.
SameInBoth(f) == Crc("Correct", Body(f)) = Crc("Legacy", Body(f))

\* The decoder.  Its buffers are cleared when a state that fills them is
\* entered, so they are shown empty wherever they are not being filled.
Decoding(state, header, payload, crc) ==
    [state |-> state, header |-> header, payload |-> payload, crc |-> crc]
Reset == Decoding("WaitSync", <<>>, <<>>, <<>>)

LenOf(header) == header[3] + Base * header[4]

\* crc16ValidateRx(): a body passes in either dialect, Correct is tried first.
Passes(codec, crc, dialect) == crc = Crc(dialect, codec.header \o codec.payload)
Validates(codec, crc) == \E d \in Dialect : Passes(codec, crc, d)
Matched(codec, crc) == IF Passes(codec, crc, "Correct") THEN "Correct" ELSE "Legacy"

\* A decoded frame, and the dialect it was found to be in.
Decoded(f, dialect) == [frame |-> f, dialect |-> dialect]

\* finalizeFrame(): the frames that come out, one or none.
FinalizeFrame(codec, crc) ==
    IF Validates(codec, crc)
    THEN <<Decoded([cmd |-> codec.header[1], seq |-> codec.header[2],
                    payload |-> codec.payload], Matched(codec, crc))>>
    ELSE <<>>

WaitSync(codec, b) ==
    IF b = Sync THEN Decoding("ReadHeader", <<>>, <<>>, <<>>) ELSE codec

ReadHeader(codec, b) ==
    LET header == Append(codec.header, b)
    IN  IF Len(header) < 4 THEN Decoding("ReadHeader", header, <<>>, <<>>)
        ELSE IF LenOf(header) > MaxPayload THEN Reset
        ELSE Decoding(IF LenOf(header) = 0 THEN "ReadCrc" ELSE "ReadPayload", header, <<>>, <<>>)

ReadPayload(codec, b) ==
    LET payload == Append(codec.payload, b)
    IN  Decoding(IF Len(payload) = LenOf(codec.header) THEN "ReadCrc" ELSE "ReadPayload",
                 codec.header, payload, <<>>)

ReadCrc(codec, b) ==
    IF codec.crc = <<>> THEN Decoding("ReadCrc", codec.header, codec.payload, <<b>>) ELSE Reset

\* processByte(): the decoder after byte b, and the frame b completes.
ProcessByte(codec, b) ==
    CASE codec.state = "WaitSync" -> WaitSync(codec, b)
      [] codec.state = "ReadHeader" -> ReadHeader(codec, b)
      [] codec.state = "ReadPayload" -> ReadPayload(codec, b)
      [] codec.state = "ReadCrc" -> ReadCrc(codec, b)

Completed(codec, b) ==
    IF codec.state = "ReadCrc" /\ codec.crc # <<>>
    THEN FinalizeFrame(codec, Append(codec.crc, b)) ELSE <<>>

\* What the decoder can be: the buffers of its state, filled to less than their
\* length, with a length that was accepted.
Decoder ==
    [state : {"WaitSync"}, header : {<<>>}, payload : {<<>>}, crc : {<<>>}]
    \cup [state : {"ReadHeader"}, header : {h \in Seq(Byte) : Len(h) < 4},
          payload : {<<>>}, crc : {<<>>}]
    \cup {c \in [state : {"ReadPayload"}, header : {h \in Seq(Byte) : Len(h) = 4},
                 payload : Seq(Byte), crc : {<<>>}] :
              Len(c.payload) < LenOf(c.header) /\ LenOf(c.header) <= MaxPayload}
    \cup {c \in [state : {"ReadCrc"}, header : {h \in Seq(Byte) : Len(h) = 4},
                 payload : Seq(Byte), crc : {s \in Seq(Byte) : Len(s) < 2}] :
              Len(c.payload) = LenOf(c.header) /\ LenOf(c.header) <= MaxPayload}
=============================================================================
