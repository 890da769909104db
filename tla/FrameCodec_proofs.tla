-------------------------- MODULE FrameCodec_proofs --------------------------
(***************************************************************************)
(* Proofs about FrameCodec, for every base, limit and CRC function: no     *)
(* byte takes the decoder out of its states, and the bytes of a frame      *)
(* bring out that frame.                                                   *)
(***************************************************************************)
EXTENDS FrameCodec, SequenceTheorems, TLAPS

-----------------------------------------------------------------------------
(* Sequences.                                                              *)

\* What is in a concatenation.
LEMMA Joined ==
    ASSUME NEW S, NEW s \in Seq(S), NEW t \in Seq(S)
    PROVE  /\ s \o t \in Seq(S) /\ Len(s \o t) = Len(s) + Len(t)
           /\ \A i \in 1..(Len(s) + Len(t)) :
                  (s \o t)[i] = IF i <= Len(s) THEN s[i] ELSE t[i - Len(s)]
OBVIOUS

\* A function over 1..2 is a pair.
LEMMA Pair ==
    ASSUME NEW S, NEW s \in [1..2 -> S]
    PROVE  s \in Seq(S) /\ Len(s) = 2 /\ s = <<s[1], s[2]>>
<1>1. s[1] \in S /\ s[2] \in S
    OBVIOUS
<1>2. <<s[1], s[2]>> \in [1..2 -> S]
    BY <1>1
<1>3. s = <<s[1], s[2]>>
    BY <1>2
<1>4. <<s[1], s[2]>> \in Seq(S) /\ Len(<<s[1], s[2]>>) = 2
    BY <1>1
<1> QED
    BY <1>3, <1>4

\* A prefix and the element behind it.
LEMMA Extended ==
    ASSUME NEW S, NEW s \in Seq(S), NEW k \in 1..Len(s)
    PROVE  /\ Append(SubSeq(s, 1, k - 1), s[k]) = SubSeq(s, 1, k)
           /\ SubSeq(s, 1, k) \in Seq(S) /\ Len(SubSeq(s, 1, k)) = k
           /\ SubSeq(s, 1, Len(s)) = s /\ SubSeq(s, 1, 0) = <<>>
OBVIOUS

\* What is in a sequence with one element more.
LEMMA Appended ==
    ASSUME NEW S, NEW q \in Seq(S), NEW m \in S
    PROVE  /\ Append(q, m) \in Seq(S) /\ Len(Append(q, m)) = Len(q) + 1 /\ Append(q, m) # <<>>
           /\ Append(q, m)[Len(q) + 1] = m
           /\ \A i \in 1..Len(q) : Append(q, m)[i] = q[i]
OBVIOUS

\* What is in the tail.
LEMMA Tailed ==
    ASSUME NEW S, NEW q \in Seq(S), q # <<>>
    PROVE  /\ Tail(q) \in Seq(S) /\ Len(Tail(q)) = Len(q) - 1 /\ Len(q) > 0 /\ Len(q) \in Nat
           /\ \A i \in 1..(Len(q) - 1) : Tail(q)[i] = q[i + 1]
           /\ Head(q) = q[1] /\ Head(q) \in S
OBVIOUS

\* The rest of a sequence, from element k on.
LEMMA Cut ==
    ASSUME NEW S, NEW B \in Seq(S), NEW k \in 1..Len(B)
    PROVE  /\ SubSeq(B, k, Len(B)) # <<>> /\ Head(SubSeq(B, k, Len(B))) = B[k]
           /\ Tail(SubSeq(B, k, Len(B))) = SubSeq(B, k + 1, Len(B))
           /\ SubSeq(B, k, Len(B)) \in Seq(S)
           /\ k = Len(B) => SubSeq(B, k + 1, Len(B)) = <<>>
           /\ k # Len(B) => SubSeq(B, k + 1, Len(B)) # <<>>
<1> DEFINE r == SubSeq(B, k, Len(B))
           t == SubSeq(B, k + 1, Len(B))
<1>1. /\ r \in Seq(S) /\ Len(r) = Len(B) - k + 1
      /\ \A i \in 1..(Len(B) - k + 1) : r[i] = B[k + i - 1]
    OBVIOUS
<1>2. /\ t \in Seq(S) /\ Len(t) = Len(B) - k
      /\ \A i \in 1..(Len(B) - k) : t[i] = B[k + i]
    OBVIOUS
<1> HIDE DEF r, t
<1>3. Len(B) \in Nat /\ r # <<>> /\ Head(r) = B[k]
    BY <1>1
<1>4. Tail(r) \in Seq(S) /\ Len(Tail(r)) = Len(t) /\ Len(t) \in Nat
  <2>1. Tail(r) \in Seq(S) /\ Len(Tail(r)) = Len(r) - 1
      BY <1>1, <1>3, Tailed
  <2>2. Len(r) = Len(B) - k + 1 /\ Len(t) = Len(B) - k
      BY <1>1, <1>2
  <2> QED
      BY <1>3, <2>1, <2>2
<1>5. \A i \in 1..Len(t) : Tail(r)[i] = t[i]
  <2> SUFFICES ASSUME NEW i \in 1..Len(t) PROVE Tail(r)[i] = t[i]
      OBVIOUS
  <2>1. i + 1 \in 1..(Len(B) - k + 1) /\ i \in 1..(Len(B) - k) /\ k + (i + 1) - 1 = k + i
      BY <1>2, <1>3
  <2>2. \A l \in 1..(Len(r) - 1) : Tail(r)[l] = r[l + 1]
      BY <1>1, <1>3, Tailed
  <2>3. i \in 1..(Len(r) - 1)
      BY <1>1, <1>3, <2>1
  <2> QED
      BY <1>1, <1>2, <2>1, <2>2, <2>3
<1>6. Tail(r) = t
    BY <1>2, <1>4, <1>5, SeqEqual
<1>7. (k = Len(B) => t = <<>>) /\ (k # Len(B) => t # <<>>)
    BY <1>2, <1>3
<1> QED
    BY <1>1, <1>3, <1>6, <1>7 DEF r, t

\* A sequence with another first element.
LEMMA Reheaded ==
    ASSUME NEW S, NEW q \in Seq(S), q # <<>>, NEW r \in S
    PROVE  /\ <<r>> \o Tail(q) \in Seq(S) /\ Len(<<r>> \o Tail(q)) = Len(q)
           /\ (<<r>> \o Tail(q))[1] = r
           /\ \A i \in 2..Len(q) : (<<r>> \o Tail(q))[i] = q[i]
OBVIOUS

\* Elements joined one by one.
LEMMA OneMore ==
    ASSUME NEW S, NEW q \in Seq(S), NEW m \in S
    PROVE  q \o <<m>> = Append(q, m) /\ Append(q, m) \in Seq(S)
OBVIOUS

LEMMA TwoMore ==
    ASSUME NEW S, NEW q \in Seq(S), NEW m \in S, NEW n \in S
    PROVE  q \o <<m, n>> = Append(Append(q, m), n) /\ Append(Append(q, m), n) \in Seq(S)
OBVIOUS

\* Only the empty sequence has length 0.
LEMMA NoneLeft ==
    ASSUME NEW S, NEW s \in Seq(S)
    PROVE  s = <<>> <=> Len(s) = 0
BY EmptySeq

-----------------------------------------------------------------------------
(* The states of the decoder.                                              *)

HeaderSeq == {h \in Seq(Byte) : Len(h) = 4}

\* What CodecAssumption says of the numbers.
LEMMA BaseFacts == Base \in Nat /\ Base > 1 /\ Sync \in Byte /\ MaxPayload \in Nat
BY CodecAssumption DEF Byte

\* A length below Base * Base takes two bytes, and is what LenOf() makes of them.
LEMMA TwoBytes ==
    ASSUME NEW n \in Nat, n <= MaxPayload
    PROVE  n % Base \in Byte /\ n \div Base \in Byte /\ (n % Base) + Base * (n \div Base) = n
<1>1. n % Base \in 0..(Base - 1) /\ n \div Base \in Nat
    BY BaseFacts
<1>2. (n % Base) + Base * (n \div Base) = n
    BY BaseFacts
<1>3. n \div Base < Base
  <2>1. n < Base * Base
      BY CodecAssumption
  <2>2. SUFFICES ASSUME n \div Base >= Base PROVE FALSE
      BY <1>1, BaseFacts
  <2>3. Base * (n \div Base) >= Base * Base
      BY <1>1, <2>2, BaseFacts
  <2> QED
      BY <1>1, <1>2, <2>1, <2>3, BaseFacts
<1> QED
    BY <1>1, <1>2, <1>3, BaseFacts DEF Byte

\* The header of a frame, and the length it gives.
LEMMA HeaderOf ==
    ASSUME NEW f \in Frame
    PROVE  /\ f.cmd \in Byte /\ f.seq \in Byte /\ f.payload \in Seq(Byte)
           /\ Len(f.payload) \in Nat /\ Len(f.payload) <= MaxPayload
           /\ Header(f) \in HeaderSeq
           /\ Header(f)[1] = f.cmd /\ Header(f)[2] = f.seq /\ LenOf(Header(f)) = Len(f.payload)
<1>1. /\ f.cmd \in Byte /\ f.seq \in Byte /\ f.payload \in Seq(Byte)
      /\ Len(f.payload) \in Nat /\ Len(f.payload) <= MaxPayload
    BY DEF Frame
<1> DEFINE lo == Len(f.payload) % Base
           hi == Len(f.payload) \div Base
<1>2. lo \in Byte /\ hi \in Byte /\ lo + Base * hi = Len(f.payload)
    BY <1>1, TwoBytes
<1>3. Header(f) = <<f.cmd, f.seq, lo, hi>>
    BY DEF Header
<1> HIDE DEF lo, hi
<1>4. Header(f) \in Seq(Byte) /\ Len(Header(f)) = 4
    BY <1>1, <1>2, <1>3
<1>5. LenOf(Header(f)) = Len(f.payload)
    BY <1>2, <1>3 DEF LenOf
<1> QED
    BY <1>1, <1>3, <1>4, <1>5 DEF HeaderSeq

\* The two bytes of a CRC.
LEMMA CrcBytes ==
    ASSUME NEW d \in Dialect, NEW h \in HeaderSeq, NEW s \in Seq(Byte), Len(s) <= MaxPayload
    PROVE  Crc(d, h \o s) \in [1..2 -> Byte]
<1> DEFINE body == h \o s
           n == 4 + Len(s)
<1>0. h \in Seq(Byte) /\ Len(h) = 4
    BY DEF HeaderSeq
<1>a. h \o s \in Seq(Byte)
    BY <1>0
<1>b. Len(h \o s) = Len(h) + Len(s)
    BY <1>0, Joined
<1>1. body \in Seq(Byte) /\ Len(body) = n
    BY <1>0, <1>a, <1>b
<1> HIDE DEF body
<1>2. body \in [1..n -> Byte]
    BY <1>1
<1> USE DEF body
<1>3. n \in 4..(4 + MaxPayload)
    BY BaseFacts
<1> QED
    BY <1>2, <1>3, CrcAssumption

\* What comes out of the decoder is a frame.
LEMMA FinalizeTypes ==
    ASSUME NEW c, c.header \in HeaderSeq, c.payload \in Seq(Byte),
           Len(c.payload) <= MaxPayload, NEW crc
    PROVE  FinalizeFrame(c, crc) = <<>>
           \/ \E x \in [frame : Frame, dialect : Dialect] : FinalizeFrame(c, crc) = <<x>>
<1> DEFINE f == [cmd |-> c.header[1], seq |-> c.header[2], payload |-> c.payload]
           x == Decoded(f, Matched(c, crc))
<1>1. c.header[1] \in Byte /\ c.header[2] \in Byte
    BY DEF HeaderSeq
<1>2. f \in Frame
    BY <1>1 DEF Frame
<1>3. Matched(c, crc) \in Dialect
    BY DEF Matched, Dialect
<1>4. x \in [frame : Frame, dialect : Dialect]
    BY <1>2, <1>3 DEF Decoded
<1>5. FinalizeFrame(c, crc) = <<>> \/ FinalizeFrame(c, crc) = <<x>>
    BY DEF FinalizeFrame
<1> QED
    BY <1>4, <1>5

\* The four sets Decoder is the union of.
IsWaiting(c) == c = Reset
IsHeader(c) ==
    c \in [state : {"ReadHeader"}, header : {h \in Seq(Byte) : Len(h) < 4},
           payload : {<<>>}, crc : {<<>>}]
IsPayload(c) ==
    /\ c \in [state : {"ReadPayload"}, header : HeaderSeq, payload : Seq(Byte), crc : {<<>>}]
    /\ Len(c.payload) < LenOf(c.header) /\ LenOf(c.header) <= MaxPayload
IsCrc(c) ==
    /\ c \in [state : {"ReadCrc"}, header : HeaderSeq, payload : Seq(Byte),
              crc : {s \in Seq(Byte) : Len(s) < 2}]
    /\ Len(c.payload) = LenOf(c.header) /\ LenOf(c.header) <= MaxPayload

\* The decoder is in one of four states.
LEMMA Shapes == \A c : c \in Decoder <=> IsWaiting(c) \/ IsHeader(c) \/ IsPayload(c) \/ IsCrc(c)
<1>1. \A c : c \in [state : {"WaitSync"}, header : {<<>>}, payload : {<<>>}, crc : {<<>>}]
             <=> IsWaiting(c)
    BY DEF IsWaiting, Reset, Decoding
<1> QED
    BY <1>1 DEF Decoder, IsHeader, IsPayload, IsCrc, HeaderSeq

LEMMA LenOfNat == \A h \in HeaderSeq : LenOf(h) \in Nat
<1> SUFFICES ASSUME NEW h \in HeaderSeq PROVE LenOf(h) \in Nat
    OBVIOUS
<1>1. h \in Seq(Byte) /\ Len(h) = 4
    BY DEF HeaderSeq
<1>1a. h[3] \in Byte /\ h[4] \in Byte
  <2>1. 3 \in 1..Len(h) /\ 4 \in 1..Len(h)
      BY <1>1
  <2> QED
      BY <1>1, <2>1, ElementOfSeq
<1>2. h[3] \in Nat /\ h[4] \in Nat /\ Base \in Nat
    BY <1>1a, BaseFacts DEF Byte
<1>3. Base * h[4] \in Nat
    BY <1>2
<1> QED
    BY <1>2, <1>3 DEF LenOf

\* processByte() keeps the decoder in one of its states, with the buffers of that
\* state, whatever the byte is.
THEOREM ByteKeeps ==
    ASSUME NEW c \in Decoder, NEW b \in Byte
    PROVE  ProcessByte(c, b) \in Decoder
<1>1. CASE IsWaiting(c)
  <2>1. c.state = "WaitSync" /\ ProcessByte(c, b) = WaitSync(c, b)
      BY <1>1 DEF IsWaiting, Reset, Decoding, ProcessByte
  <2>2. CASE b = Sync
    <3>1. ProcessByte(c, b) = [state |-> "ReadHeader", header |-> <<>>, payload |-> <<>>, crc |-> <<>>]
        BY <1>1, <2>1, <2>2 DEF IsWaiting, Reset, WaitSync, Decoding
    <3>2. <<>> \in {h \in Seq(Byte) : Len(h) < 4}
        OBVIOUS
    <3>3. IsHeader(ProcessByte(c, b))
        BY <3>1, <3>2 DEF IsHeader
    <3> QED
        BY <3>3, Shapes
  <2>3. CASE b # Sync
      BY <2>1, <2>3 DEF WaitSync
  <2> QED
      BY <2>2, <2>3
<1>2. CASE IsHeader(c)
  <2> DEFINE h == Append(c.header, b)
  <2>0. /\ c = [state |-> "ReadHeader", header |-> c.header, payload |-> <<>>, crc |-> <<>>]
        /\ c.header \in Seq(Byte) /\ Len(c.header) < 4
      BY <1>2 DEF IsHeader
  <2>1. ProcessByte(c, b) = ReadHeader(c, b)
      BY <2>0 DEF ProcessByte
  <2>2. h \in Seq(Byte) /\ Len(h) = Len(c.header) + 1 /\ Len(h) \in Nat
      BY <2>0
  <2>3. CASE Len(h) < 4
    <3>1. ProcessByte(c, b) = [state |-> "ReadHeader", header |-> h, payload |-> <<>>, crc |-> <<>>]
        BY <2>1, <2>3 DEF ReadHeader, Decoding
    <3>2. IsHeader(ProcessByte(c, b))
        BY <3>1, <2>2, <2>3 DEF IsHeader
    <3> QED
        BY <3>2, Shapes
  <2>4. CASE ~(Len(h) < 4)
    <3>1. h \in HeaderSeq
        BY <2>0, <2>2, <2>4 DEF HeaderSeq
    <3>2. LenOf(h) \in Nat
        BY <3>1, LenOfNat
    <3>3. CASE LenOf(h) > MaxPayload
      <4>1. ProcessByte(c, b) = Reset
          BY <2>1, <2>4, <3>3 DEF ReadHeader
      <4> QED
          BY <4>1, Shapes DEF IsWaiting
    <3>4. CASE LenOf(h) <= MaxPayload /\ LenOf(h) = 0
      <4>1. ~(LenOf(h) > MaxPayload)
          BY <3>2, <3>4, BaseFacts
      <4>2. ProcessByte(c, b) = [state |-> "ReadCrc", header |-> h, payload |-> <<>>, crc |-> <<>>]
          BY <2>1, <2>4, <3>4, <4>1 DEF ReadHeader, Decoding
      <4>3. <<>> \in Seq(Byte) /\ Len(<<>>) = 0 /\ <<>> \in {s \in Seq(Byte) : Len(s) < 2}
          OBVIOUS
      <4> HIDE DEF h
      <4>4. IsCrc(ProcessByte(c, b))
          BY <3>1, <3>4, <4>2, <4>3 DEF IsCrc
      <4> QED
          BY <4>4, Shapes
    <3>5. CASE LenOf(h) <= MaxPayload /\ LenOf(h) # 0
      <4>1. ~(LenOf(h) > MaxPayload)
          BY <3>2, <3>5, BaseFacts
      <4>2. ProcessByte(c, b) = [state |-> "ReadPayload", header |-> h, payload |-> <<>>, crc |-> <<>>]
          BY <2>1, <2>4, <3>5, <4>1 DEF ReadHeader, Decoding
      <4>3. <<>> \in Seq(Byte) /\ Len(<<>>) = 0
          OBVIOUS
      <4> HIDE DEF h
      <4>4. IsPayload(ProcessByte(c, b))
          BY <3>1, <3>2, <3>5, <4>2, <4>3 DEF IsPayload
      <4> QED
          BY <4>4, Shapes
    <3> QED
        BY <3>2, <3>3, <3>4, <3>5, BaseFacts
  <2> QED
      BY <2>3, <2>4
<1>3. CASE IsPayload(c)
  <2> DEFINE p == Append(c.payload, b)
  <2>0. /\ c = [state |-> "ReadPayload", header |-> c.header, payload |-> c.payload, crc |-> <<>>]
        /\ c.header \in HeaderSeq /\ c.payload \in Seq(Byte)
        /\ Len(c.payload) < LenOf(c.header) /\ LenOf(c.header) <= MaxPayload
      BY <1>3 DEF IsPayload
  <2>1. ProcessByte(c, b) = ReadPayload(c, b)
      BY <2>0 DEF ProcessByte
  <2>2. p \in Seq(Byte) /\ Len(p) = Len(c.payload) + 1 /\ Len(p) \in Nat
      BY <2>0
  <2>3. LenOf(c.header) \in Nat
      BY <2>0, LenOfNat
  <2>4. CASE Len(p) = LenOf(c.header)
    <3>1. ProcessByte(c, b) = [state |-> "ReadCrc", header |-> c.header, payload |-> p, crc |-> <<>>]
        BY <2>1, <2>4 DEF ReadPayload, Decoding
    <3>2. <<>> \in {s \in Seq(Byte) : Len(s) < 2}
        OBVIOUS
    <3> HIDE DEF p
    <3>3. IsCrc(ProcessByte(c, b))
        BY <2>0, <2>2, <2>4, <3>1, <3>2 DEF IsCrc
    <3> QED
        BY <3>3, Shapes
  <2>5. CASE Len(p) # LenOf(c.header)
    <3>1. ProcessByte(c, b) = [state |-> "ReadPayload", header |-> c.header, payload |-> p, crc |-> <<>>]
        BY <2>1, <2>5 DEF ReadPayload, Decoding
    <3>2. Len(p) < LenOf(c.header)
        BY <2>0, <2>2, <2>3, <2>5
    <3> HIDE DEF p
    <3>3. IsPayload(ProcessByte(c, b))
        BY <2>0, <2>2, <3>1, <3>2 DEF IsPayload
    <3> QED
        BY <3>3, Shapes
  <2> QED
      BY <2>4, <2>5
<1>4. CASE IsCrc(c)
  <2>0. /\ c = [state |-> "ReadCrc", header |-> c.header, payload |-> c.payload, crc |-> c.crc]
        /\ c.header \in HeaderSeq /\ c.payload \in Seq(Byte)
        /\ Len(c.payload) = LenOf(c.header) /\ LenOf(c.header) <= MaxPayload
      BY <1>4 DEF IsCrc
  <2>1. ProcessByte(c, b) = ReadCrc(c, b)
      BY <2>0 DEF ProcessByte
  <2>2. CASE c.crc = <<>>
    <3>1. ProcessByte(c, b) = [state |-> "ReadCrc", header |-> c.header, payload |-> c.payload, crc |-> <<b>>]
        BY <2>1, <2>2 DEF ReadCrc, Decoding
    <3>2. <<b>> \in {s \in Seq(Byte) : Len(s) < 2}
        OBVIOUS
    <3>3. IsCrc(ProcessByte(c, b))
        BY <2>0, <3>1, <3>2 DEF IsCrc
    <3> QED
        BY <3>3, Shapes
  <2>3. CASE c.crc # <<>>
      BY <2>1, <2>3, Shapes DEF ReadCrc, IsWaiting
  <2> QED
      BY <2>2, <2>3
<1> QED
    BY <1>1, <1>2, <1>3, <1>4, Shapes

\* A byte completes one frame or none; with a frame the decoder starts again.
LEMMA CompletedTypes ==
    ASSUME NEW c \in Decoder, NEW b \in Byte
    PROVE  \/ Completed(c, b) = <<>>
           \/ \E x \in [frame : Frame, dialect : Dialect] : Completed(c, b) = <<x>>
<1>1. CASE c.state # "ReadCrc" \/ c.crc = <<>>
    BY <1>1 DEF Completed
<1>2. CASE c.state = "ReadCrc" /\ c.crc # <<>>
  <2>1. IsCrc(c)
    <3>1. ~IsWaiting(c)
        BY <1>2 DEF IsWaiting, Reset, Decoding
    <3>2. ~IsHeader(c)
        BY <1>2 DEF IsHeader
    <3>3. ~IsPayload(c)
        BY <1>2 DEF IsPayload
    <3> QED
        BY <3>1, <3>2, <3>3, Shapes
  <2>2. /\ c.header \in HeaderSeq /\ c.payload \in Seq(Byte)
        /\ Len(c.payload) <= MaxPayload
      BY <2>1 DEF IsCrc
  <2>3. Completed(c, b) = FinalizeFrame(c, Append(c.crc, b))
      BY <1>2 DEF Completed
  <2> QED
      BY <2>2, <2>3, FinalizeTypes
<1> QED
    BY <1>1, <1>2

-----------------------------------------------------------------------------
(* The bytes of a frame.                                                   *)

\* The decoder when n bytes of frame f in dialect d have been read.
Partly(d, f, n) ==
    CASE n = 0 -> Reset
      [] n \in 1..4 -> Decoding("ReadHeader", SubSeq(Header(f), 1, n - 1), <<>>, <<>>)
      [] n \in 5..(4 + Len(f.payload)) ->
            Decoding("ReadPayload", Header(f), SubSeq(f.payload, 1, n - 5), <<>>)
      [] n = 5 + Len(f.payload) -> Decoding("ReadCrc", Header(f), f.payload, <<>>)
      [] n = 6 + Len(f.payload) ->
            Decoding("ReadCrc", Header(f), f.payload, <<Crc(d, Body(f))[1]>>)

\* The bytes of a frame, by their place.
LEMMA FrameBytes ==
    ASSUME NEW f \in Frame, NEW d \in Dialect
    PROVE  LET B == BuildFrame(f, d)
               m == Len(f.payload)
           IN  /\ B \in Seq(Byte) /\ Len(B) = m + 7
               /\ B[1] = Sync
               /\ \A i \in 1..4 : B[i + 1] = Header(f)[i]
               /\ \A i \in 1..m : B[i + 5] = f.payload[i]
               /\ B[m + 6] = Crc(d, Body(f))[1] /\ B[m + 7] = Crc(d, Body(f))[2]
               /\ Crc(d, Body(f)) = <<B[m + 6], B[m + 7]>>
<1> DEFINE h == Header(f)
           p == f.payload
           m == Len(p)
           crc == Crc(d, Body(f))
           start == <<Sync>>
<1>1. /\ h \in Seq(Byte) /\ Len(h) = 4
      /\ p \in Seq(Byte) /\ m \in Nat /\ Len(p) = m
    BY HeaderOf DEF HeaderSeq
<1>2. crc \in [1..2 -> Byte]
    BY HeaderOf, CrcBytes DEF Body
<1>3. start \in Seq(Byte) /\ Len(start) = 1 /\ start[1] = Sync
    BY BaseFacts
<1>4. BuildFrame(f, d) = (start \o (h \o p)) \o crc
    BY DEF BuildFrame, Body
<1>5. crc \in Seq(Byte) /\ Len(crc) = 2 /\ crc = <<crc[1], crc[2]>>
    BY <1>2, Pair
<1> HIDE DEF h, p, m, crc, start
<1> DEFINE hp == h \o p
           shp == start \o hp
           B == shp \o crc
<1>6. /\ hp \in Seq(Byte) /\ Len(hp) = 4 + m
      /\ \A i \in 1..(4 + m) : hp[i] = IF i <= 4 THEN h[i] ELSE p[i - 4]
  <2>1. h \in Seq(Byte) /\ p \in Seq(Byte) /\ Len(h) = 4 /\ Len(p) = m
      BY <1>1
  <2>2. hp \in Seq(Byte) /\ Len(hp) = Len(h) + Len(p)
      BY <2>1, Joined
  <2>3. \A i \in 1..(Len(h) + Len(p)) :
            hp[i] = IF i <= Len(h) THEN h[i] ELSE p[i - Len(h)]
      BY <2>1, Joined
  <2> QED
      BY <2>1, <2>2, <2>3
<1> HIDE DEF hp
<1>7. /\ shp \in Seq(Byte) /\ Len(shp) = 1 + (4 + m)
      /\ \A i \in 1..(1 + (4 + m)) : shp[i] = IF i <= 1 THEN start[i] ELSE hp[i - 1]
  <2>1. start \in Seq(Byte) /\ hp \in Seq(Byte) /\ Len(start) = 1 /\ Len(hp) = (4 + m)
      BY <1>1, <1>3, <1>6
  <2>2. shp \in Seq(Byte) /\ Len(shp) = Len(start) + Len(hp)
      BY <2>1, Joined
  <2>3. \A i \in 1..(Len(start) + Len(hp)) :
            shp[i] = IF i <= Len(start) THEN start[i] ELSE hp[i - Len(start)]
      BY <2>1, Joined
  <2> QED
      BY <2>1, <2>2, <2>3
<1> HIDE DEF shp
<1>8. /\ B \in Seq(Byte) /\ Len(B) = (1 + (4 + m)) + 2
      /\ \A i \in 1..((1 + (4 + m)) + 2) : B[i] = IF i <= (1 + (4 + m)) THEN shp[i] ELSE crc[i - (1 + (4 + m))]
  <2>1. shp \in Seq(Byte) /\ crc \in Seq(Byte) /\ Len(shp) = (1 + (4 + m)) /\ Len(crc) = 2
      BY <1>1, <1>5, <1>7
  <2>2. B \in Seq(Byte) /\ Len(B) = Len(shp) + Len(crc)
      BY <2>1, Joined
  <2>3. \A i \in 1..(Len(shp) + Len(crc)) :
            B[i] = IF i <= Len(shp) THEN shp[i] ELSE crc[i - Len(shp)]
      BY <2>1, Joined
  <2> QED
      BY <2>1, <2>2, <2>3
<1> HIDE DEF B
<1>9. B[1] = Sync
  <2>1. 1 \in 1..(1 + (4 + m) + 2) /\ 1 \in 1..(1 + (4 + m)) /\ 1 <= 1 + (4 + m)
      BY <1>1
  <2> QED
      BY <2>1, <1>3, <1>7, <1>8
<1>10. \A i \in 1..4 : B[i + 1] = h[i]
  <2> SUFFICES ASSUME NEW i \in 1..4 PROVE B[i + 1] = h[i]
      OBVIOUS
  <2>1. i + 1 \in 1..(1 + (4 + m) + 2) /\ i + 1 \in 1..(1 + (4 + m)) /\ i \in 1..(4 + m)
        /\ (i + 1) - 1 = i /\ i + 1 <= 1 + (4 + m) /\ ~(i + 1 <= 1) /\ i <= 4
      BY <1>1
  <2> QED
      BY <2>1, <1>6, <1>7, <1>8
<1>11. \A i \in 1..m : B[i + 5] = p[i]
  <2> SUFFICES ASSUME NEW i \in 1..m PROVE B[i + 5] = p[i]
      OBVIOUS
  <2>1. /\ i + 5 \in 1..(1 + (4 + m) + 2) /\ i + 5 \in 1..(1 + (4 + m)) /\ i + 4 \in 1..(4 + m)
        /\ (i + 5) - 1 = i + 4 /\ (i + 4) - 4 = i /\ i + 5 <= 1 + (4 + m)
        /\ ~(i + 5 <= 1) /\ ~(i + 4 <= 4)
      BY <1>1
  <2> QED
      BY <2>1, <1>6, <1>7, <1>8
<1>12. B[m + 6] = crc[1] /\ B[m + 7] = crc[2]
  <2>1. /\ m + 6 \in 1..(1 + (4 + m) + 2) /\ m + 7 \in 1..(1 + (4 + m) + 2)
        /\ ~(m + 6 <= 1 + (4 + m)) /\ ~(m + 7 <= 1 + (4 + m))
        /\ (m + 6) - (1 + (4 + m)) = 1 /\ (m + 7) - (1 + (4 + m)) = 2
      BY <1>1
  <2> QED
      BY <2>1, <1>8
<1>13. BuildFrame(f, d) = B
    BY <1>4 DEF B, shp, hp
<1>14. Len(B) = m + 7
    BY <1>1, <1>8
<1>15. crc = <<B[m + 6], B[m + 7]>>
    BY <1>5, <1>12
<1> QED
    BY <1>8, <1>9, <1>10, <1>11, <1>12, <1>13, <1>14, <1>15 DEF h, p, m, crc

\* One more byte of a frame brings the decoder one
\* byte further in it, and the last byte brings the frame out.
THEOREM ByteOfFrame ==
    ASSUME NEW f \in Frame, NEW d \in Dialect, NEW n \in 0..(6 + Len(f.payload))
    PROVE  LET b == BuildFrame(f, d)[n + 1]
           IN  /\ n < 6 + Len(f.payload) =>
                     ProcessByte(Partly(d, f, n), b) = Partly(d, f, n + 1) /\ Completed(Partly(d, f, n), b) = <<>>
               /\ n = 6 + Len(f.payload) =>
                     /\ ProcessByte(Partly(d, f, n), b) = Reset
                     /\ \E e \in Dialect :
                           /\ Completed(Partly(d, f, n), b) = <<Decoded(f, e)>>
                           /\ SameInBoth(f) \/ e = d
<1> DEFINE h == Header(f)
           p == f.payload
           m == Len(p)
           B == BuildFrame(f, d)
           b == B[n + 1]
           c == Partly(d, f, n)
<1>1. /\ h \in Seq(Byte) /\ Len(h) = 4 /\ h[1] = f.cmd /\ h[2] = f.seq /\ LenOf(h) = m
      /\ p \in Seq(Byte) /\ m \in Nat /\ m <= MaxPayload
    BY HeaderOf DEF HeaderSeq
<1>2. /\ B[1] = Sync
      /\ \A i \in 1..4 : B[i + 1] = h[i]
      /\ \A i \in 1..m : B[i + 5] = p[i]
      /\ Crc(d, Body(f)) = <<B[m + 6], B[m + 7]>>
      /\ Crc(d, Body(f))[1] = B[m + 6]
    BY FrameBytes
<1>3. CASE n = 0
  <2>1. c = Decoding("WaitSync", <<>>, <<>>, <<>>) /\ b = Sync
      BY <1>2, <1>3 DEF Partly, Reset
  <2>2. c.state = "WaitSync"
      BY <2>1 DEF Decoding
  <2>3. ProcessByte(c, b) = Decoding("ReadHeader", <<>>, <<>>, <<>>)
      BY <2>1, <2>2 DEF ProcessByte, WaitSync
  <2>4. Partly(d, f, 1) = Decoding("ReadHeader", <<>>, <<>>, <<>>)
    <3>1. SubSeq(h, 1, 0) = <<>>
        BY <1>1
    <3>2. n + 1 \in 1..4 /\ n + 1 # 0 /\ (n + 1) - 1 = n
        BY <1>3
    <3>3. Partly(d, f, n + 1) = Decoding("ReadHeader", SubSeq(h, 1, n), <<>>, <<>>)
        BY <3>2, <1>1 DEF Partly
    <3>4. n + 1 = 1 /\ SubSeq(h, 1, n) = <<>>
        BY <1>3, <3>1
    <3> HIDE DEF h
    <3> QED
        BY <3>3, <3>4
  <2>5. Completed(c, b) = <<>>
      BY <2>2 DEF Completed
  <2>6. n < 6 + m /\ n + 1 = 1
      BY <1>1, <1>3
  <2> QED
      BY <2>3, <2>4, <2>5, <2>6
<1>4. CASE n \in 1..4
  <2> DEFINE q == SubSeq(h, 1, n - 1)
  <2>1. c = Decoding("ReadHeader", q, <<>>, <<>>) /\ b = h[n]
      BY <1>1, <1>2, <1>4 DEF Partly
  <2>2. c.state = "ReadHeader" /\ c.header = q
      BY <2>1 DEF Decoding
  <2>3. Append(q, b) = SubSeq(h, 1, n) /\ Len(SubSeq(h, 1, n)) = n
    <3>1. n \in 1..Len(h)
        BY <1>1, <1>4
    <3>2. Append(SubSeq(h, 1, n - 1), h[n]) = SubSeq(h, 1, n) /\ Len(SubSeq(h, 1, n)) = n
        BY <1>1, <3>1, Extended
    <3> QED
        BY <2>1, <3>2
  <2>4. Completed(c, b) = <<>>
      BY <2>2 DEF Completed
  <2>5. ProcessByte(c, b) = ReadHeader(c, b)
      BY <2>2 DEF ProcessByte
  <2>6. n < 6 + m
      BY <1>1, <1>4
  <2> HIDE DEF q, b, c
  <2>7. CASE n < 4
    <3>1. ProcessByte(c, b) = Decoding("ReadHeader", SubSeq(h, 1, n), <<>>, <<>>)
        BY <2>2, <2>3, <2>5, <2>7 DEF ReadHeader
    <3>2. Partly(d, f, n + 1) = Decoding("ReadHeader", SubSeq(h, 1, n), <<>>, <<>>)
      <4>1. n + 1 \in 1..4 /\ n + 1 # 0 /\ (n + 1) - 1 = n
          BY <1>4, <2>7
      <4> QED
          BY <4>1, <1>1 DEF Partly
    <3> QED
        BY <2>4, <2>6, <3>1, <3>2 DEF b, c
  <2>8. CASE n = 4
    <3>1. SubSeq(h, 1, n) = h
        BY <1>1, <2>8
    <3>0. Append(c.header, b) = h
        BY <2>2, <2>3, <3>1
    <3>2. ~(Len(h) < 4) /\ ~(LenOf(h) > MaxPayload)
        BY <1>1, BaseFacts
    <3>3. ProcessByte(c, b) = Decoding(IF m = 0 THEN "ReadCrc" ELSE "ReadPayload", h, <<>>, <<>>)
        BY <1>1, <2>5, <3>0, <3>2 DEF ReadHeader
    <3>4. Partly(d, f, 5) = Decoding(IF m = 0 THEN "ReadCrc" ELSE "ReadPayload", h, <<>>, <<>>)
      <4>1. CASE m = 0
        <5>1. p = <<>> /\ 5 = 5 + m /\ ~(5 \in 5..(4 + m)) /\ ~(5 \in 1..4) /\ 5 # 0
            BY <1>1, <4>1
        <5> QED
            BY <4>1, <5>1 DEF Partly
      <4>2. CASE m # 0
        <5>1. SubSeq(p, 1, 5 - 5) = <<>> /\ 5 \in 5..(4 + m) /\ ~(5 \in 1..4) /\ 5 # 0 /\ 5 # 5 + m /\ 5 # 6 + m
            BY <1>1, <4>2
        <5> QED
            BY <4>2, <5>1 DEF Partly
      <4> QED
          BY <4>1, <4>2
    <3> QED
        BY <2>4, <2>6, <2>8, <3>3, <3>4 DEF b, c
  <2> QED
      BY <1>4, <2>7, <2>8
<1>5. CASE n \in 5..(4 + m)
  <2> DEFINE q == SubSeq(p, 1, n - 5)
  <2>1. c = Decoding("ReadPayload", h, q, <<>>)
    <3>1. n # 0 /\ ~(n \in 1..4) /\ n # 5 + m /\ n # 6 + m
        BY <1>1, <1>5
    <3> QED
        BY <3>1, <1>5 DEF Partly
  <2>2. b = p[n - 4]
    <3>1. n - 4 \in 1..m /\ (n - 4) + 5 = n + 1
        BY <1>1, <1>5
    <3> QED
        BY <3>1, <1>2
  <2>3. c.state = "ReadPayload" /\ c.header = h /\ c.payload = q
      BY <2>1 DEF Decoding
  <2>4. Append(q, b) = SubSeq(p, 1, n - 4) /\ Len(SubSeq(p, 1, n - 4)) = n - 4
    <3>1. n - 4 \in 1..Len(p) /\ (n - 4) - 1 = n - 5
        BY <1>1, <1>5
    <3>2. /\ Append(SubSeq(p, 1, (n - 4) - 1), p[n - 4]) = SubSeq(p, 1, n - 4)
          /\ Len(SubSeq(p, 1, n - 4)) = n - 4
        BY <1>1, <3>1, Extended
    <3> QED
        BY <2>2, <3>1, <3>2
  <2>5. Completed(c, b) = <<>>
      BY <2>3 DEF Completed
  <2>6. ProcessByte(c, b) = ReadPayload(c, b)
      BY <2>3 DEF ProcessByte
  <2> HIDE DEF q, b, c
  <2>7. ProcessByte(c, b) = Decoding(IF n - 4 = m THEN "ReadCrc" ELSE "ReadPayload",
                                     h, SubSeq(p, 1, n - 4), <<>>)
      BY <1>1, <2>3, <2>4, <2>6 DEF ReadPayload
  <2>8. Partly(d, f, n + 1) = Decoding(IF n - 4 = m THEN "ReadCrc" ELSE "ReadPayload",
                                    h, SubSeq(p, 1, n - 4), <<>>)
    <3>1. CASE n - 4 = m
      <4>1. n + 1 # 0 /\ ~(n + 1 \in 1..4) /\ ~(n + 1 \in 5..(4 + m)) /\ n + 1 = 5 + m
          BY <1>1, <1>5, <3>1
      <4>2. SubSeq(p, 1, n - 4) = p
          BY <1>1, <3>1
      <4>3. Partly(d, f, n + 1) = Decoding("ReadCrc", h, p, <<>>)
          BY <4>1 DEF Partly
      <4> QED
          BY <3>1, <4>2, <4>3
    <3>2. CASE n - 4 # m
      <4>1. n + 1 # 0 /\ ~(n + 1 \in 1..4) /\ n + 1 \in 5..(4 + m) /\ n + 1 # 5 + m /\ n + 1 # 6 + m
            /\ (n + 1) - 5 = n - 4
          BY <1>1, <1>5, <3>2
      <4> QED
          BY <3>2, <4>1 DEF Partly
    <3> QED
        BY <3>1, <3>2
  <2>9. n < 6 + m
      BY <1>1, <1>5
  <2> QED
      BY <2>5, <2>7, <2>8, <2>9 DEF b, c
<1>6. CASE n = 5 + m
  <2>1. n # 0 /\ ~(n \in 1..4) /\ ~(n \in 5..(4 + m)) /\ n # 6 + m /\ n < 6 + m
      BY <1>1, <1>6
  <2>2. c = Decoding("ReadCrc", h, p, <<>>)
      BY <1>6, <2>1 DEF Partly
  <2>3. b = Crc(d, Body(f))[1]
    <3>1. n + 1 = m + 6
        BY <1>1, <1>6
    <3> QED
        BY <1>2, <3>1
  <2>4. c.state = "ReadCrc" /\ c.header = h /\ c.payload = p /\ c.crc = <<>>
      BY <2>2 DEF Decoding
  <2>5. Completed(c, b) = <<>>
      BY <2>4 DEF Completed
  <2>6. ProcessByte(c, b) = Decoding("ReadCrc", h, p, <<b>>)
      BY <2>4 DEF ProcessByte, ReadCrc
  <2>7. Partly(d, f, n + 1) = Decoding("ReadCrc", h, p, <<b>>)
    <3>1. n + 1 # 0 /\ ~(n + 1 \in 1..4) /\ ~(n + 1 \in 5..(4 + m)) /\ n + 1 # 5 + m /\ n + 1 = 6 + m
        BY <1>1, <1>6
    <3> QED
        BY <2>3, <3>1 DEF Partly
  <2> QED
      BY <2>1, <2>5, <2>6, <2>7
<1>7. CASE n = 6 + m
  <2> DEFINE crc == Crc(d, Body(f))
             e == IF crc = Crc("Correct", Body(f)) THEN "Correct" ELSE "Legacy"
  <2>1. n # 0 /\ ~(n \in 1..4) /\ ~(n \in 5..(4 + m)) /\ n # 5 + m /\ ~(n < 6 + m)
      BY <1>1, <1>7
  <2>2. c = Decoding("ReadCrc", h, p, <<crc[1]>>)
      BY <1>7, <2>1 DEF Partly
  <2>3. c.state = "ReadCrc" /\ c.header = h /\ c.payload = p /\ c.crc = <<crc[1]>> /\ c.crc # <<>>
      BY <2>2 DEF Decoding
  <2>4. Append(c.crc, b) = crc
    <3>1. n + 1 = m + 7
        BY <1>1, <1>7
    <3>2. crc = <<crc[1], b>>
        BY <1>2, <3>1
    <3> QED
        BY <2>3, <3>2
  <2>5. ProcessByte(c, b) = Reset
      BY <2>3 DEF ProcessByte, ReadCrc
  <2>6. Completed(c, b) = FinalizeFrame(c, crc)
      BY <2>3, <2>4 DEF Completed
  <2>7. \A x \in Dialect : Passes(c, crc, x) <=> crc = Crc(x, Body(f))
      BY <2>3 DEF Passes, Body
  <2>8. Validates(c, crc)
      BY <2>7 DEF Validates
  <2>9. Matched(c, crc) = e
      BY <2>7 DEF Matched, Dialect
  <2>10. f = [cmd |-> c.header[1], seq |-> c.header[2], payload |-> c.payload]
      BY <1>1, <2>3 DEF Frame
  <2>11. Completed(c, b) = <<Decoded(f, e)>>
      BY <2>6, <2>8, <2>9, <2>10 DEF FinalizeFrame
  <2>12. e \in Dialect /\ (SameInBoth(f) \/ e = d)
      BY DEF Dialect, SameInBoth
  <2> QED
      BY <2>1, <2>5, <2>11, <2>12
<1> QED
    BY <1>1, <1>3, <1>4, <1>5, <1>6, <1>7
=============================================================================
