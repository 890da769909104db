--------------------------- MODULE WifiLink_proofs ---------------------------
(***************************************************************************)
(* Proofs about WifiLink, for every CRC function, base, queue limit and    *)
(* number of calls, frames and datagrams.                                  *)
(*                                                                         *)
(* WInv has five parts, each inductive but for a few facts of the others:  *)
(*   LineInv     the frames taken, written, held back and posted, in one   *)
(*               rising line, and the closes that each of them follows;    *)
(*   FacadeInv   the last thing said about the socket is the truth;        *)
(*   ScreenInv   epoch and number of the receiver are those of the         *)
(*               datagram it shows;                                        *)
(*   StreamInv   the decoder stands inside the frame that comes next, and  *)
(*               the bytes not read are its rest and the frames behind it; *)
(*   DialectInv  who overlaps whom between the two halves of the latch.    *)
(***************************************************************************)
EXTENDS WifiLink, FrameCodec_proofs

-----------------------------------------------------------------------------
(* The invariants.                                                         *)

\* The frames, requests and signals there are.
Datum == [id : Nat, closes : Nat, what : {"command", "start", "stop"}, dialect : Dialect]
Requests == [kind : {"connect", "close", "arm", "disarm"}, closes : Nat]
            \cup [kind : {"write"}, data : Datum]
Signals == [kind : {"connected", "disconnected"}] \cup [kind : {"frame"}, frame : Frame]
IsOpen(t) == t \in {"on", "closing"}

\* Frames numbered lo < ... <= hi, in order; the same of the writes among the requests.
Rising(s, lo, hi) ==
    /\ \A i \in 1..Len(s) : lo < s[i].id /\ s[i].id <= hi
    /\ \A i, j \in 1..Len(s) : i < j => s[i].id < s[j].id

IsWrite(m) == m.kind = "write"
RisingWrites(q, lo, hi) ==
    /\ \A i \in 1..Len(q) : IsWrite(q[i]) => lo < q[i].data.id /\ q[i].data.id <= hi
    /\ \A i, j \in 1..Len(q) :
           i < j /\ IsWrite(q[i]) /\ IsWrite(q[j]) => q[i].data.id < q[j].data.id

\* What the device took, what is written, held back and posted, in this order.
InLine ==
    \E a, b \in 0..writes :
        /\ taken <= a /\ a <= b
        /\ Rising(toDev, taken, a)
        /\ Rising(pendingTx, a, b)
        /\ RisingWrites(toWorker, b, writes)

\* The number of closes before request m, and after it.
ClosesAt(m) == IF IsWrite(m) THEN m.data.closes ELSE m.closes
ClosesPast(m) == IF m.kind = "close" THEN m.closes + 1 ELSE ClosesAt(m)

\* From k closes to c closes along the requests of q.
Turns(q, k, c) ==
    IF q = <<>> THEN k = c
    ELSE /\ ClosesAt(q[1]) = k
         /\ ClosesPast(q[Len(q)]) = c
         /\ \A i \in 1..(Len(q) - 1) : ClosesAt(q[i + 1]) = ClosesPast(q[i])
         /\ \A i \in 1..Len(q) : ClosesPast(q[i]) <= c

\* The request that comes next was posted after k closes, and so was all that is
\* held back; the link is no younger.
SinceClose ==
    \E k \in 0..closes :
        /\ Turns(toWorker, k, closes)
        /\ linkCloses <= k
        /\ \A i \in 1..Len(pendingTx) : pendingTx[i].closes = k

\* Whatever M1Device sent is in one line, and knows the close it follows.
LineInv ==
    /\ toWorker \in Seq(Requests) /\ pendingTx \in Seq(Datum) /\ toDev \in Seq(Datum)
    /\ writes \in Nat /\ closes \in Nat /\ linkCloses \in Nat /\ taken \in Nat
    /\ tcp \in {"off", "dialing", "on", "closing"}
    /\ Len(pendingTx) <= MaxPending
    /\ toDev # <<>> => IsOpen(tcp)
    /\ tcp = "on" => pendingTx = <<>>
    /\ InLine
    /\ SinceClose
    /\ NoReplayAcrossClose

\* What the GUI thread will believe when it has heard everything.
LastSaid(q, u, t) ==
    \/ (u <=> IsOpen(t)) /\ \A i \in 1..Len(q) : q[i].kind = "frame"
    \/ \E i \in 1..Len(q) :
           /\ q[i].kind # "frame" /\ (q[i].kind = "connected" <=> IsOpen(t))
           /\ \A j \in 1..Len(q) : j > i => q[j].kind = "frame"

\* The GUI thread is up to date but for what is in the queue.
FacadeInv ==
    /\ fromWorker \in Seq(Signals)
    /\ up \in BOOLEAN
    /\ LastSaid(fromWorker, up, tcp)

\* The receiver has latched nothing, or what it shows last.
Gram == [epoch : 1..MaxStreams, n : 0..(MaxGrams - 1)]
Latched(e, seq, g) ==
    \/ e = 0 /\ seq = -1 /\ g = NoGram
    \/ g \in Gram /\ e = g.epoch /\ seq = FrameSeq(g)

ScreenInv ==
    /\ screenActive \in BOOLEAN /\ streaming \in BOOLEAN
    /\ streams \in 0..MaxStreams /\ nextGram \in 0..MaxGrams /\ grams \subseteq Gram
    /\ streaming => streams > 0
    /\ Latched(epoch, lastSeq, shown)

\* Of the frames s that were sent, g are decoded and the rest is q, the first of
\* them up to where decoder c is.
Underway(d, s, g, q, c) ==
    /\ Len(s) = Len(g) + Len(q)
    /\ \A i \in 1..Len(g) : g[i] = s[i]
    /\ \A i \in 2..Len(q) : q[i] = BuildFrame(s[Len(g) + i], d)
    /\ q = <<>> => c = Reset
    /\ q # <<>> =>
         \E n \in 0..(6 + Len(s[Len(g) + 1].payload)) :
             /\ q[1] = SubSeq(BuildFrame(s[Len(g) + 1], d), n + 1, 7 + Len(s[Len(g) + 1].payload))
             /\ c = Partly(d, s[Len(g) + 1], n)

\* The stream of a connection and the decoder at its end.
StreamInv ==
    /\ codec \in Decoder /\ fromDev \in Seq(Seq(Byte))
    /\ sent \in Seq(Frame) /\ got \in Seq(Frame) /\ replies \in Nat /\ speaks \in Dialect
    /\ tcp \in {"off", "dialing", "on", "closing"}
    /\ IsOpen(tcp) => Underway(speaks, sent, got, fromDev, codec)
    /\ ~IsOpen(tcp) => fromDev = <<>>

\* raced is set wherever a GUI thread's access lies between the two of the worker.
DialectInv ==
    /\ locked \in BOOLEAN /\ resetting \in BOOLEAN /\ raced \in BOOLEAN /\ twin \in BOOLEAN
    /\ txDialect \in Dialect /\ flip \in Dialect \cup {"no"} /\ speaks \in Dialect
    /\ latch \in Seq([frame : Frame, dialect : Dialect]) /\ Len(latch) < 2
    /\ latch # <<>> => twin \/ latch[1].dialect = speaks
    /\ ~GuiIdle /\ locked => raced
    /\ latch # <<>> => locked \/ raced
    /\ latch # <<>> /\ ~GuiIdle => raced
    /\ OnlyRaceOrTwinMislatches

-----------------------------------------------------------------------------
(* The bytes on their way.                                                 *)

\* A new connection: nothing sent, a fresh decoder.
LEMMA UnderwayStarts ==
    ASSUME NEW d
    PROVE  Underway(d, <<>>, <<>>, <<>>, Reset)
BY DEF Underway

\* The device sends one more frame.
LEMMA UnderwayGrows ==
    ASSUME NEW d \in Dialect, NEW s \in Seq(Frame), NEW g \in Seq(Frame), NEW q \in Seq(Seq(Byte)),
           NEW c, Underway(d, s, g, q, c), NEW f \in Frame
    PROVE  Underway(d, Append(s, f), g, Append(q, BuildFrame(f, d)), c)
<1> DEFINE B == BuildFrame(f, d)
           s2 == Append(s, f)
           q2 == Append(q, B)
           k == Len(g) + 1
<1>1. B \in Seq(Byte) /\ Len(B) = Len(f.payload) + 7 /\ Len(f.payload) \in Nat
    BY FrameBytes, HeaderOf
<1> HIDE DEF B
<1>2. /\ Len(s2) = Len(s) + 1 /\ s2[Len(s) + 1] = f
      /\ \A i \in 1..Len(s) : s2[i] = s[i]
      /\ Len(q2) = Len(q) + 1 /\ q2[Len(q) + 1] = B
      /\ \A i \in 1..Len(q) : q2[i] = q[i]
      /\ q2 # <<>>
    BY <1>1, Appended
<1>3. Len(s) \in Nat /\ Len(g) \in Nat /\ Len(q) \in Nat /\ Len(s) = Len(g) + Len(q)
    BY DEF Underway
<1> HIDE DEF s2, q2
<1>4. Len(s2) = Len(g) + Len(q2)
    BY <1>2, <1>3
<1>5. \A i \in 1..Len(g) : g[i] = s2[i]
  <2> SUFFICES ASSUME NEW i \in 1..Len(g) PROVE g[i] = s2[i]
      OBVIOUS
  <2>1. i \in 1..Len(s)
      BY <1>3
  <2> QED
      BY <1>2, <2>1 DEF Underway
<1>6. \A i \in 2..Len(q2) : q2[i] = BuildFrame(s2[Len(g) + i], d)
  <2> SUFFICES ASSUME NEW i \in 2..Len(q2) PROVE q2[i] = BuildFrame(s2[Len(g) + i], d)
      OBVIOUS
  <2>1. CASE i = Len(q) + 1
    <3>1. Len(g) + i = Len(s) + 1
        BY <1>3, <2>1
    <3> QED
        BY <1>2, <2>1, <3>1 DEF B
  <2>2. CASE i # Len(q) + 1
    <3>1. i \in 2..Len(q) /\ i \in 1..Len(q) /\ Len(g) + i \in 1..Len(s)
        BY <1>2, <1>3, <2>2
    <3>2. q[i] = BuildFrame(s[Len(g) + i], d)
        BY <3>1 DEF Underway
    <3> QED
        BY <1>2, <3>1, <3>2
  <2> QED
      BY <2>1, <2>2
<1>7. \E n \in 0..(6 + Len(s2[k].payload)) :
          /\ q2[1] = SubSeq(BuildFrame(s2[k], d), n + 1, 7 + Len(s2[k].payload))
          /\ c = Partly(d, s2[k], n)
  <2>1. CASE q = <<>>
    <3>1. k = Len(s) + 1 /\ Len(q) + 1 = 1
        BY <1>3, <2>1
    <3>2. s2[k] = f /\ q2[1] = B
        BY <1>2, <3>1
    <3>3. c = Partly(d, f, 0)
        BY <2>1 DEF Underway, Partly
    <3>4. B = SubSeq(B, 0 + 1, 7 + Len(f.payload))
        BY <1>1
    <3>5. 0 \in 0..(6 + Len(f.payload))
        BY <1>1
    <3>6. B = SubSeq(BuildFrame(f, d), 0 + 1, 7 + Len(f.payload))
        BY <3>4 DEF B
    <3> QED
        BY <3>2, <3>3, <3>5, <3>6
  <2>2. CASE q # <<>>
    <3>1. k \in 1..Len(s) /\ 1 \in 1..Len(q)
        BY <1>3, <2>2
    <3>2. s2[k] = s[k] /\ q2[1] = q[1]
        BY <1>2, <3>1
    <3> QED
        BY <2>2, <3>2 DEF Underway
  <2> QED
      BY <2>1, <2>2
<1> QED
    BY <1>2, <1>4, <1>5, <1>6, <1>7 DEF Underway, B, s2, q2

\* What is left to read when byte b has been taken from the first of q.
Left(q) ==
    IF Tail(Head(q)) = <<>> THEN Tail(q) ELSE <<Tail(Head(q))>> \o Tail(q)

\* The decoder reads one more byte, and brings out the frame if it was its last.
LEMMA UnderwayReads ==
    ASSUME NEW d \in Dialect, NEW s \in Seq(Frame), NEW g \in Seq(Frame), NEW q \in Seq(Seq(Byte)),
           NEW c, Underway(d, s, g, q, c), q # <<>>
    PROVE  LET b == Head(Head(q))
           IN  /\ b \in Byte /\ Left(q) \in Seq(Seq(Byte))
               /\ \/ /\ Completed(c, b) = <<>>
                     /\ Underway(d, s, g, Left(q), ProcessByte(c, b))
                  \/ \E f \in Frame, e \in Dialect :
                        /\ Completed(c, b) = <<Decoded(f, e)>>
                        /\ SameInBoth(f) \/ e = d
                        /\ Underway(d, s, Append(g, f), Left(q), ProcessByte(c, b))
<1> DEFINE b == Head(Head(q))
           k == Len(g) + 1
           f == s[k]
           m == Len(f.payload)
           B == BuildFrame(f, d)
<1>1. /\ Len(s) \in Nat /\ Len(g) \in Nat /\ Len(q) \in Nat /\ Len(q) > 0
      /\ Len(s) = Len(g) + Len(q)
    BY Tailed DEF Underway
<1>2. k \in 1..Len(s) /\ f \in Frame
    BY <1>1, ElementOfSeq
<1>3. B \in Seq(Byte) /\ Len(B) = m + 7 /\ m \in Nat
    BY <1>2, FrameBytes, HeaderOf
<1>4. PICK n \in 0..(6 + m) : q[1] = SubSeq(B, n + 1, 7 + m) /\ c = Partly(d, f, n)
    BY DEF Underway
<1>5. n + 1 \in 1..Len(B) /\ 7 + m = Len(B) /\ n \in Nat
    BY <1>3, <1>4
<1>6. /\ Head(q) = q[1] /\ Tail(q) \in Seq(Seq(Byte)) /\ Len(Tail(q)) = Len(q) - 1
      /\ \A i \in 1..(Len(q) - 1) : Tail(q)[i] = q[i + 1]
    BY Tailed
<1> HIDE DEF B
<1> DEFINE r == SubSeq(B, (n + 1) + 1, Len(B))
<1>7. q[1] = SubSeq(B, n + 1, Len(B))
    BY <1>4, <1>5
<1>8. /\ Head(SubSeq(B, n + 1, Len(B))) = B[n + 1] /\ Tail(SubSeq(B, n + 1, Len(B))) = r
      /\ n + 1 = Len(B) => r = <<>>
      /\ n + 1 # Len(B) => r # <<>>
    BY <1>3, <1>5, Cut
<1>9. b = B[n + 1] /\ Tail(Head(q)) = r
    BY <1>6, <1>7, <1>8
<1>10. b \in Byte
    BY <1>3, <1>5, <1>9, ElementOfSeq
<1>11. r \in Seq(Byte)
    BY <1>3, <1>5
<1> HIDE DEF r, b
<1>12. CASE n < 6 + m
  <2>1. r # <<>>
      BY <1>3, <1>5, <1>8, <1>12
  <2> DEFINE q2 == <<r>> \o Tail(q)
  <2>2. Left(q) = q2
      BY <1>9, <2>1 DEF Left
  <2>3. /\ q2 \in Seq(Seq(Byte)) /\ Len(q2) = Len(q) /\ q2[1] = r
        /\ \A i \in 2..Len(q) : q2[i] = q[i]
      BY <1>11, Reheaded
  <2> HIDE DEF q2
  <2>4. q2 # <<>>
      BY <1>1, <2>3
  <2>5. Completed(c, b) = <<>> /\ ProcessByte(c, b) = Partly(d, f, n + 1)
      BY <1>2, <1>4, <1>9, <1>12, ByteOfFrame DEF B
  <2>6. /\ n + 1 \in 0..(6 + m)
        /\ q2[1] = SubSeq(BuildFrame(s[Len(g) + 1], d), (n + 1) + 1, 7 + m)
    <3>1. n + 1 \in 0..(6 + m)
        BY <1>3, <1>5, <1>12
    <3>2. q2[1] = SubSeq(B, (n + 1) + 1, 7 + m)
        BY <1>5, <2>3 DEF r
    <3> QED
        BY <3>1, <3>2 DEF B
  <2>7. Underway(d, s, g, q2, Partly(d, f, n + 1))
    <3>1. \A i \in 2..Len(q2) : q2[i] = BuildFrame(s[Len(g) + i], d)
        BY <2>3 DEF Underway
    <3>2. Len(s) = Len(g) + Len(q2) /\ \A i \in 1..Len(g) : g[i] = s[i]
        BY <1>1, <2>3 DEF Underway
    <3> QED
        BY <2>4, <2>6, <3>1, <3>2 DEF Underway
  <2> QED
      BY <1>10, <2>2, <2>3, <2>5, <2>7 DEF b
<1>13. CASE n = 6 + m
  <2>1. r = <<>>
      BY <1>3, <1>5, <1>8, <1>13
  <2> DEFINE q2 == Tail(q)
             g2 == Append(g, f)
  <2>2. Left(q) = q2
      BY <1>9, <2>1 DEF Left
  <2>3. /\ g2 \in Seq(Frame) /\ Len(g2) = Len(g) + 1
        /\ g2[Len(g) + 1] = f /\ \A i \in 1..Len(g) : g2[i] = g[i]
      BY <1>2, Appended
  <2>4. PICK e \in Dialect : /\ Completed(c, b) = <<Decoded(f, e)>>
                             /\ SameInBoth(f) \/ e = d
      BY <1>2, <1>4, <1>9, <1>13, ByteOfFrame DEF B
  <2>5. ProcessByte(c, b) = Reset
      BY <1>2, <1>4, <1>9, <1>13, ByteOfFrame DEF B
  <2> HIDE DEF g2, q2
  <2>6. /\ q2 \in Seq(Seq(Byte)) /\ Len(q2) = Len(q) - 1
        /\ \A i \in 1..(Len(q) - 1) : q2[i] = q[i + 1]
      BY <1>6 DEF q2
  <2>7. Len(s) = Len(g2) + Len(q2)
      BY <1>1, <2>3, <2>6
  <2>8. \A i \in 1..Len(g2) : g2[i] = s[i]
    <3> SUFFICES ASSUME NEW i \in 1..Len(g2) PROVE g2[i] = s[i]
        OBVIOUS
    <3>1. CASE i = Len(g) + 1
        BY <2>3, <3>1
    <3>2. CASE i # Len(g) + 1
      <4>1. i \in 1..Len(g)
          BY <1>1, <2>3, <3>2
      <4> QED
          BY <4>1, <2>3 DEF Underway
    <3> QED
        BY <3>1, <3>2
  <2>9. \A i \in 1..Len(q2) : q2[i] = BuildFrame(s[Len(g2) + i], d)
    <3> SUFFICES ASSUME NEW i \in 1..Len(q2) PROVE q2[i] = BuildFrame(s[Len(g2) + i], d)
        OBVIOUS
    <3>1. i + 1 \in 2..Len(q) /\ i \in 1..(Len(q) - 1) /\ Len(g) + (i + 1) = Len(g2) + i
        BY <1>1, <2>3, <2>6
    <3>2. q[i + 1] = BuildFrame(s[Len(g) + (i + 1)], d)
        BY <3>1 DEF Underway
    <3> QED
        BY <2>6, <3>1, <3>2
  <2>10. ASSUME q2 # <<>>
         PROVE  \E j \in 0..(6 + Len(s[Len(g2) + 1].payload)) :
             /\ q2[1] = SubSeq(BuildFrame(s[Len(g2) + 1], d), j + 1, 7 + Len(s[Len(g2) + 1].payload))
             /\ Reset = Partly(d, s[Len(g2) + 1], j)
    <3> DEFINE f2 == s[Len(g2) + 1]
               B2 == BuildFrame(f2, d)
    <3>1. Len(q2) \in Nat /\ Len(q2) > 0
        BY <2>6, <2>10, Tailed
    <3>2. Len(g2) + 1 \in 1..Len(s) /\ 1 \in 1..Len(q2)
        BY <1>1, <2>3, <2>7, <3>1
    <3>3. f2 \in Frame
        BY <3>2, ElementOfSeq
    <3>4. B2 \in Seq(Byte) /\ Len(B2) = Len(f2.payload) + 7 /\ Len(f2.payload) \in Nat
        BY <3>3, FrameBytes, HeaderOf
    <3>5. q2[1] = B2
        BY <2>9, <3>2
    <3> HIDE DEF f2
    <3>6. Reset = Partly(d, f2, 0)
        BY DEF Partly
    <3> HIDE DEF B2
    <3>7. B2 = SubSeq(B2, 0 + 1, 7 + Len(f2.payload)) /\ 0 \in 0..(6 + Len(f2.payload))
        BY <3>4
    <3> QED
        BY <3>5, <3>6, <3>7 DEF f2, B2
  <2>11. Underway(d, s, g2, q2, Reset)
    <3>1. \A i \in 2..Len(q2) : q2[i] = BuildFrame(s[Len(g2) + i], d)
        BY <2>9, <2>6
    <3> QED
        BY <2>7, <2>8, <2>10, <3>1 DEF Underway
  <2>12. Underway(d, s, Append(g, f), Left(q), ProcessByte(c, b))
      BY <2>2, <2>5, <2>11 DEF g2
  <2> QED
      BY <1>2, <1>10, <2>2, <2>4, <2>6, <2>12 DEF b
<1> QED
    BY <1>3, <1>12, <1>13

Posts == Open \/ Close \/ Send \/ StartScreenStream \/ StopScreenStream

\* The GUI thread touches no socket and no receiver.
LEMMA GuiLeaves ==
    ASSUME Gui
    PROVE  /\ UNCHANGED <<tcp, pendingTx, codec, toDev, fromDev, sent, got, replies, speaks>>
           /\ UNCHANGED <<screenActive, epoch, lastSeq, shown, streaming, streams, grams, nextGram>>
           /\ UNCHANGED <<linkCloses, taken>>
<1>1. CASE Open
    BY <1>1 DEF Open, socket, screen, device, history, bounds, crcVars
<1>2. CASE Close
    BY <1>2 DEF Close, socket, screen, device, history, bounds, crcVars
<1>3. CASE Send
    BY <1>3 DEF Send, socket, screen, device, history, bounds, crcVars
<1>4. CASE StartScreenStream
    BY <1>4 DEF StartScreenStream, socket, screen, device, history, bounds, crcVars
<1>5. CASE StopScreenStream
    BY <1>5 DEF StopScreenStream, socket, screen, device, history, bounds, crcVars
<1>6. CASE HearConnected
    BY <1>6 DEF HearConnected, socket, screen, device, history, bounds, crcVars
<1>7. CASE HearDisconnected
    BY <1>7 DEF HearDisconnected, socket, screen, device, history, bounds, crcVars
<1>8. CASE HearFrame
    BY <1>8 DEF HearFrame, socket, screen, device, history, bounds, crcVars
<1>9. CASE ResetStores
    BY <1>9 DEF ResetStores, socket, screen, device, history, bounds, crcVars
<1>10. CASE PingLoads
    BY <1>10 DEF PingLoads, socket, screen, device, history, bounds, crcVars
<1>11. CASE PingStores
    BY <1>11 DEF PingStores, socket, screen, device, history, bounds, crcVars
<1> QED
    BY <1>1, <1>2, <1>3, <1>4, <1>5, <1>6, <1>7, <1>8, <1>9, <1>10, <1>11 DEF Gui

\* What the read of one byte does: nothing but move the decoder, or bring out the
\* frame that was next, in the dialect of the device unless it reads the same in
\* both.
LEMMA ReadStep ==
    ASSUME StreamInv, OnTcpReadyRead
    PROVE  /\ StreamInv'
           /\ \/ UNCHANGED <<locked, latch, raced, twin, fromWorker>>
              \/ \E f \in Frame, e \in Dialect :
                    /\ SameInBoth(f) \/ e = speaks
                    /\ locked' = TRUE
                    /\ \/ /\ locked /\ UNCHANGED <<latch, raced, twin>>
                          /\ Answer(<<ControlFrame(f)>>)
                       \/ /\ ~locked /\ UNCHANGED fromWorker
                          /\ latch' = <<Decoded(f, e)>>
                          /\ twin' = SameInBoth(f) /\ raced' = (raced \/ ~GuiIdle)
<1> DEFINE b == Head(Head(fromDev))
           frames == Completed(codec, b)
<1>1. /\ IsOpen(tcp) /\ fromDev # <<>>
      /\ codec' = ProcessByte(codec, b) /\ fromDev' = Left(fromDev)
      /\ UNCHANGED <<sent, replies, speaks, tcp>>
      /\ IF frames = <<>>
         THEN UNCHANGED <<locked, latch, raced, twin, got, fromWorker>>
         ELSE /\ locked' = TRUE
              /\ got' = Append(got, frames[1].frame)
              /\ IF locked
                 THEN /\ Answer(<<ControlFrame(frames[1].frame)>>)
                      /\ UNCHANGED <<latch, raced, twin>>
                 ELSE /\ latch' = frames /\ twin' = SameInBoth(frames[1].frame)
                      /\ raced' = (raced \/ ~GuiIdle)
                      /\ UNCHANGED fromWorker
    BY DEF OnTcpReadyRead, bounds, IsOpen, Left
<1> HIDE DEF frames, b
<1>2. /\ b \in Byte /\ Left(fromDev) \in Seq(Seq(Byte))
      /\ \/ /\ frames = <<>>
            /\ Underway(speaks, sent, got, Left(fromDev), ProcessByte(codec, b))
         \/ \E f \in Frame, e \in Dialect :
               /\ frames = <<Decoded(f, e)>>
               /\ SameInBoth(f) \/ e = speaks
               /\ Underway(speaks, sent, Append(got, f), Left(fromDev), ProcessByte(codec, b))
    BY <1>1, UnderwayReads DEF StreamInv, b, frames
<1>3. ProcessByte(codec, b) \in Decoder
    BY <1>2, ByteKeeps DEF StreamInv
<1>4. CASE frames = <<>> /\ Underway(speaks, sent, got, Left(fromDev), ProcessByte(codec, b))
  <2>1. UNCHANGED <<locked, latch, raced, twin, got, fromWorker>>
      BY <1>1, <1>4
  <2> QED
      BY <1>1, <1>2, <1>3, <1>4, <2>1 DEF StreamInv, IsOpen
<1>5. ASSUME NEW f \in Frame, NEW e \in Dialect, frames = <<Decoded(f, e)>>,
             SameInBoth(f) \/ e = speaks,
             Underway(speaks, sent, Append(got, f), Left(fromDev), ProcessByte(codec, b))
      PROVE  /\ StreamInv'
             /\ locked' = TRUE
             /\ \/ /\ locked /\ UNCHANGED <<latch, raced, twin>>
                   /\ Answer(<<ControlFrame(f)>>)
                \/ /\ ~locked /\ UNCHANGED fromWorker
                   /\ latch' = <<Decoded(f, e)>>
                   /\ twin' = SameInBoth(f) /\ raced' = (raced \/ ~GuiIdle)
  <2>1. frames # <<>> /\ frames[1].frame = f
      BY <1>5 DEF Decoded
  <2>2. got' = Append(got, f)
      BY <1>1, <2>1
  <2>3. got' \in Seq(Frame)
      BY <2>2, Appended DEF StreamInv
  <2>4. StreamInv'
      BY <1>1, <1>2, <1>3, <1>5, <2>2, <2>3 DEF StreamInv, IsOpen
  <2>5. CASE locked
      BY <1>1, <2>1, <2>4, <2>5
  <2>6. CASE ~locked
      BY <1>1, <1>5, <2>1, <2>4, <2>6
  <2> QED
      BY <2>5, <2>6
<1> QED
    BY <1>2, <1>4, <1>5

\* The decoder is in the middle of the frame that comes next, over any steps of
\* both threads.
LEMMA StreamStep ==
    ASSUME StreamInv, [Next]_vars
    PROVE  StreamInv'
<1> DEFINE same == UNCHANGED <<codec, fromDev, sent, got, replies, speaks, tcp>>
<1>0. ASSUME same PROVE StreamInv'
    BY <1>0 DEF StreamInv, IsOpen
<1>1. CASE Gui
    BY <1>0, <1>1, GuiLeaves
<1>2. CASE ConnectToHost
  <2>1. /\ tcp' = "dialing" /\ fromDev' = <<>>
        /\ UNCHANGED <<codec, sent, got, replies, speaks>>
      BY <1>2 DEF ConnectToHost, crcVars, bounds
  <2> QED
      BY <2>1 DEF StreamInv, IsOpen
<1>3. CASE DisconnectFromHost
  <2>1. /\ UNCHANGED <<codec, fromDev, sent, got, replies, speaks>>
        /\ tcp' = IF tcp = "on" THEN "closing" ELSE tcp
      BY <1>3 DEF DisconnectFromHost, crcVars, bounds, device, history
  <2>2. (IsOpen(tcp) <=> IsOpen(tcp')) /\ tcp' \in {"off", "dialing", "on", "closing"}
      BY <2>1 DEF StreamInv, IsOpen
  <2> QED
      BY <2>1, <2>2 DEF StreamInv
<1>4. CASE OnTcpConnected
  <2>1. /\ codec' = Reset /\ sent' = <<>> /\ got' = <<>> /\ fromDev' = fromDev
        /\ UNCHANGED <<replies, speaks>>
        /\ tcp = "dialing" /\ tcp' \in {"on", "closing"}
      BY <1>4 DEF OnTcpConnected, ResetCodec, crcVars, bounds
  <2>2. fromDev' = <<>>
      BY <2>1 DEF StreamInv, IsOpen
  <2>3. Reset \in Decoder
      BY Shapes DEF IsWaiting
  <2>4. Underway(speaks', sent', got', fromDev', codec')
      BY <2>1, <2>2, UnderwayStarts
  <2> QED
      BY <2>1, <2>2, <2>3, <2>4 DEF StreamInv, IsOpen
<1>5. CASE OnTcpError
  <2>1. /\ tcp = "dialing" /\ tcp' = "off"
        /\ UNCHANGED <<codec, fromDev, sent, got, replies, speaks>>
      BY <1>5 DEF OnTcpError, crcVars, bounds, device, history
  <2> QED
      BY <2>1 DEF StreamInv, IsOpen
<1>6. CASE OnTcpDisconnected
  <2>1. /\ tcp' = "off" /\ fromDev' = <<>>
        /\ UNCHANGED <<codec, sent, got, replies, speaks>>
      BY <1>6 DEF OnTcpDisconnected, crcVars, bounds, history
  <2> QED
      BY <2>1 DEF StreamInv, IsOpen
<1>7. CASE OnTcpReadyRead
    BY <1>7, ReadStep
<1>8. CASE WriteData
    BY <1>0, <1>8 DEF WriteData, crcVars, bounds, history
<1>9. CASE ArmScreen
    BY <1>0, <1>9 DEF ArmScreen, crcVars, bounds, history, socket, device
<1>10. CASE DisarmScreen
    BY <1>0, <1>10 DEF DisarmScreen, crcVars, bounds, history, socket, device
<1>11. CASE LatchStores
    BY <1>0, <1>11 DEF LatchStores, bounds, history, socket, device
<1>12. CASE \E g \in grams : OnDatagram(g)
    BY <1>0, <1>12 DEF OnDatagram, crcVars, bounds, history, socket, device
<1>13. CASE DeviceTakes
    BY <1>0, <1>13 DEF DeviceTakes, crcVars, bounds, socket
<1>14. CASE DeviceStreams
    BY <1>0, <1>14 DEF DeviceStreams, crcVars, bounds, history, socket
<1>15. CASE DeviceReplies
  <2> DEFINE f == Replies[replies']
  <2>1. /\ tcp = "on" /\ replies < Len(Replies) /\ replies' = replies + 1
        /\ fromDev' = Append(fromDev, BuildFrame(f, speaks)) /\ sent' = Append(sent, f)
        /\ UNCHANGED <<codec, got, speaks, tcp>>
      BY <1>15 DEF DeviceReplies, crcVars, socket
  <2>2. replies' \in Nat /\ replies' \in 1..Len(Replies) /\ Replies \in Seq(Frame)
      BY <2>1, WifiAssumption DEF StreamInv
  <2>3. f \in Frame
      BY <2>2, ElementOfSeq
  <2> HIDE DEF f
  <2>4. BuildFrame(f, speaks) \in Seq(Byte)
      BY <2>3, FrameBytes DEF StreamInv
  <2>5. sent' \in Seq(Frame) /\ fromDev' \in Seq(Seq(Byte))
      BY <2>1, <2>3, <2>4, Appended DEF StreamInv
  <2>6. Underway(speaks, sent, got, fromDev, codec)
      BY <2>1 DEF StreamInv, IsOpen
  <2>7. Underway(speaks, Append(sent, f), got, Append(fromDev, BuildFrame(f, speaks)), codec)
      BY <2>3, <2>6, UnderwayGrows DEF StreamInv
  <2> QED
      BY <2>1, <2>2, <2>5, <2>7 DEF StreamInv, IsOpen
<1>16. CASE UNCHANGED vars
    BY <1>0, <1>16 DEF vars, socket, device, history, bounds, crcVars
<1> QED
    BY <1>1, <1>2, <1>3, <1>4, <1>5, <1>6, <1>7, <1>8, <1>9, <1>10, <1>11, <1>12, <1>13, <1>14, <1>15,
       <1>16 DEF Next, Worker, Device

-----------------------------------------------------------------------------
(* The dialect.                                                            *)

\* The steps that touch neither the dialect nor the frame between its two halves.
LEMMA DialectKept ==
    ASSUME Next
    PROVE  \/ UNCHANGED <<locked, txDialect, resetting, flip, latch, raced, twin, speaks>>
           \/ HearConnected \/ ResetStores \/ PingLoads \/ PingStores
           \/ OnTcpReadyRead \/ LatchStores
<1> DEFINE same == UNCHANGED <<locked, txDialect, resetting, flip, latch, raced, twin, speaks>>
<1>1. ASSUME Posts PROVE same
    BY <1>1 DEF Posts, Open, Close, Send, StartScreenStream, StopScreenStream, crcVars
<1>2. ASSUME HearDisconnected \/ HearFrame PROVE same
    BY <1>2 DEF HearDisconnected, HearFrame, crcVars
<1>3. ASSUME ConnectToHost \/ DisconnectFromHost \/ WriteData \/ ArmScreen \/ DisarmScreen PROVE same
    BY <1>3 DEF ConnectToHost, DisconnectFromHost, WriteData, ArmScreen, DisarmScreen, crcVars
<1>4. ASSUME OnTcpConnected \/ OnTcpError \/ OnTcpDisconnected PROVE same
    BY <1>4 DEF OnTcpConnected, OnTcpError, OnTcpDisconnected, crcVars
<1>5. ASSUME \/ \E g \in grams : OnDatagram(g)
             \/ Device
      PROVE  same
    BY <1>5 DEF OnDatagram, Device, DeviceTakes, DeviceStreams, DeviceReplies, crcVars
<1> QED
    BY <1>1, <1>2, <1>3, <1>4, <1>5 DEF Next, Gui, Worker, Posts

\* The two-step store of the worker and the two-step writes of the GUI thread
\* overlap only where raced says so.
LEMMA DialectStep ==
    ASSUME DialectInv, StreamInv, [Next]_vars
    PROVE  DialectInv'
<1>0. ASSUME UNCHANGED <<locked, txDialect, resetting, flip, latch, raced, twin, speaks>>
      PROVE  DialectInv'
    BY <1>0 DEF DialectInv, OnlyRaceOrTwinMislatches, GuiIdle
<1>1. CASE HearConnected
  <2>1. /\ locked' = FALSE /\ resetting' = TRUE /\ (raced' <=> latch # <<>>) /\ raced' \in BOOLEAN
        /\ UNCHANGED <<txDialect, flip, latch, twin, speaks>>
      BY <1>1 DEF HearConnected
  <2> QED
      BY <2>1 DEF DialectInv, OnlyRaceOrTwinMislatches, GuiIdle
<1>2. CASE ResetStores
  <2>1. /\ resetting /\ resetting' = FALSE /\ txDialect' = "Correct"
        /\ UNCHANGED <<locked, flip, latch, raced, twin, speaks>>
      BY <1>2 DEF ResetStores
  <2> QED
      BY <2>1 DEF DialectInv, OnlyRaceOrTwinMislatches, GuiIdle, Dialect
<1>3. CASE PingLoads
  <2>1. /\ GuiIdle /\ ~locked
        /\ flip' = Other(txDialect) /\ (raced' <=> raced \/ latch # <<>>) /\ raced' \in BOOLEAN
        /\ UNCHANGED <<locked, txDialect, resetting, latch, twin, speaks>>
      BY <1>3 DEF PingLoads, MayFlip, DialectInv
  <2>2. flip' \in Dialect
      BY <2>1 DEF Other, Dialect
  <2> QED
      BY <2>1, <2>2 DEF DialectInv, OnlyRaceOrTwinMislatches, GuiIdle
<1>4. CASE PingStores
  <2>1. /\ flip # "no" /\ flip' = "no" /\ txDialect' = flip
        /\ UNCHANGED <<locked, resetting, latch, raced, twin, speaks>>
      BY <1>4 DEF PingStores
  <2> QED
      BY <2>1 DEF DialectInv, OnlyRaceOrTwinMislatches, GuiIdle
<1>5. CASE OnTcpReadyRead
  <2>1. UNCHANGED <<txDialect, resetting, flip, speaks>> /\ latch = <<>>
      BY <1>5 DEF OnTcpReadyRead, WorkerIdle
  <2>2. CASE UNCHANGED <<locked, latch, raced, twin, fromWorker>>
      BY <1>0, <2>1, <2>2
  <2>3. ASSUME NEW f \in Frame, NEW e \in Dialect, SameInBoth(f) \/ e = speaks, locked' = TRUE,
               locked, UNCHANGED <<latch, raced, twin>>
        PROVE  DialectInv'
      BY <1>0, <2>1, <2>3 DEF DialectInv, OnlyRaceOrTwinMislatches, GuiIdle
  <2>4. ASSUME NEW f \in Frame, NEW e \in Dialect, SameInBoth(f) \/ e = speaks, locked' = TRUE,
               ~locked, latch' = <<Decoded(f, e)>>,
               twin' = SameInBoth(f), raced' = (raced \/ ~GuiIdle)
        PROVE  DialectInv'
    <3>1. Decoded(f, e) \in [frame : Frame, dialect : Dialect] /\ Decoded(f, e).dialect = e
        BY DEF Decoded
    <3>2. /\ latch' \in Seq([frame : Frame, dialect : Dialect]) /\ Len(latch') < 2
          /\ latch' # <<>> /\ latch'[1] = Decoded(f, e)
        BY <2>4, <3>1
    <3>3. (twin' <=> SameInBoth(f)) /\ twin' \in BOOLEAN
        BY <2>4 DEF SameInBoth
    <3>4. (raced' <=> raced \/ ~GuiIdle) /\ raced' \in BOOLEAN
        BY <2>4 DEF DialectInv, GuiIdle
    <3> QED
        BY <2>1, <2>4, <3>1, <3>2, <3>3, <3>4 DEF DialectInv, OnlyRaceOrTwinMislatches, GuiIdle
  <2> QED
      BY <1>5, <2>2, <2>3, <2>4, ReadStep
<1>6. CASE LatchStores
  <2>1. /\ latch # <<>> /\ txDialect' = latch[1].dialect /\ latch' = <<>>
        /\ UNCHANGED <<locked, resetting, flip, raced, twin, speaks>>
      BY <1>6 DEF LatchStores
  <2>2. latch[1] \in [frame : Frame, dialect : Dialect]
      BY <2>1, Tailed DEF DialectInv
  <2>3. latch' \in Seq([frame : Frame, dialect : Dialect]) /\ Len(latch') < 2
      BY <2>1
  <2> QED
      BY <2>1, <2>2, <2>3 DEF DialectInv, OnlyRaceOrTwinMislatches, GuiIdle
<1>7. CASE UNCHANGED vars
    BY <1>0, <1>7 DEF vars, crcVars
<1> QED
    BY <1>0, <1>1, <1>2, <1>3, <1>4, <1>5, <1>6, <1>7, DialectKept

-----------------------------------------------------------------------------
(* What the GUI thread hears.                                              *)

\* A frame in the queue changes nothing that is believed of the link.
LEMMA SaysFrame ==
    ASSUME NEW q \in Seq(Signals), NEW u, NEW t, LastSaid(q, u, t), NEW m, m.kind = "frame", m \in Signals
    PROVE  LastSaid(Append(q, m), u, t)
<1>1. CASE (u <=> IsOpen(t)) /\ \A i \in 1..Len(q) : q[i].kind = "frame"
    BY <1>1 DEF LastSaid
<1>2. ASSUME NEW i \in 1..Len(q), q[i].kind # "frame", q[i].kind = "connected" <=> IsOpen(t),
             \A j \in 1..Len(q) : j > i => q[j].kind = "frame"
      PROVE  LastSaid(Append(q, m), u, t)
  <2>1. /\ i \in 1..Len(Append(q, m)) /\ Append(q, m)[i] = q[i]
        /\ \A j \in 1..Len(Append(q, m)) : j > i => Append(q, m)[j].kind = "frame"
      BY <1>2
  <2> QED
      BY <2>1, <1>2 DEF LastSaid
<1> QED
    BY <1>1, <1>2 DEF LastSaid

\* The last of the announcements counts.
LEMMA SaysLink ==
    ASSUME NEW q \in Seq(Signals), NEW u, NEW t, NEW m, m \in Signals, m.kind # "frame",
           m.kind = "connected" <=> IsOpen(t)
    PROVE  LastSaid(Append(q, m), u, t)
<1>1. /\ Len(q) + 1 \in 1..Len(Append(q, m)) /\ Append(q, m)[Len(q) + 1] = m
      /\ \A j \in 1..Len(Append(q, m)) : ~(j > Len(q) + 1)
    OBVIOUS
<1> QED
    BY <1>1 DEF LastSaid

\* What was believed when all is heard is still to come when one signal is heard.
LEMMA Heard ==
    ASSUME NEW q \in Seq(Signals), q # <<>>, NEW u, NEW v, NEW t, LastSaid(q, u, t),
           \/ Head(q).kind = "frame" /\ v = u
           \/ Head(q).kind # "frame" /\ (v <=> Head(q).kind = "connected")
    PROVE  LastSaid(Tail(q), v, t)
<1>0. /\ Len(Tail(q)) = Len(q) - 1 /\ Len(q) > 0 /\ Len(q) \in Nat /\ Head(q) = q[1]
      /\ \A i \in 1..(Len(q) - 1) : Tail(q)[i] = q[i + 1]
    OBVIOUS
<1>1. CASE (u <=> IsOpen(t)) /\ \A i \in 1..Len(q) : q[i].kind = "frame"
  <2>1. Head(q).kind = "frame" /\ v = u
      BY <1>0, <1>1
  <2>2. \A i \in 1..Len(Tail(q)) : Tail(q)[i].kind = "frame"
      BY <1>0, <1>1
  <2> QED
      BY <1>1, <2>1, <2>2 DEF LastSaid
<1>2. ASSUME NEW i \in 1..Len(q), q[i].kind # "frame", q[i].kind = "connected" <=> IsOpen(t),
             \A j \in 1..Len(q) : j > i => q[j].kind = "frame"
      PROVE  LastSaid(Tail(q), v, t)
  <2>1. CASE i = 1
    <3>1. \A k \in 1..Len(Tail(q)) : Tail(q)[k].kind = "frame"
        BY <1>0, <1>2, <2>1
    <3>2. v <=> IsOpen(t)
        BY <1>0, <1>2, <2>1
    <3> QED
        BY <3>1, <3>2 DEF LastSaid
  <2>2. CASE i # 1
    <3>1. /\ i - 1 \in 1..Len(Tail(q)) /\ Tail(q)[i - 1] = q[i]
          /\ \A j \in 1..Len(Tail(q)) : j > i - 1 => Tail(q)[j].kind = "frame"
        BY <1>0, <1>2, <2>2
    <3> QED
        BY <3>1, <1>2 DEF LastSaid
  <2> QED
      BY <2>1, <2>2
<1> QED
    BY <1>1, <1>2 DEF LastSaid

\* The steps that say nothing and do not open or shut the socket.
LEMMA NothingSaid ==
    ASSUME FacadeInv, UNCHANGED <<fromWorker, up>>, IsOpen(tcp') <=> IsOpen(tcp)
    PROVE  FacadeInv'
BY DEF FacadeInv, LastSaid

\* The same for the actions: the loss of a socket, a frame, a signal heard.
LEMMA SaysDown ==
    ASSUME FacadeInv, Answer(<<Signal("disconnected")>>), UNCHANGED up, ~IsOpen(tcp')
    PROVE  FacadeInv'
<1> DEFINE m == Signal("disconnected")
<1>1. m \in Signals /\ m.kind = "disconnected"
    BY DEF Signals, Signal
<1>2. fromWorker' = Append(fromWorker, m) /\ fromWorker' \in Seq(Signals)
    BY <1>1, OneMore DEF Answer, FacadeInv
<1>3. LastSaid(Append(fromWorker, m), up, tcp')
    BY <1>1, SaysLink DEF FacadeInv
<1> QED
    BY <1>2, <1>3 DEF FacadeInv

LEMMA SaysIn ==
    ASSUME FacadeInv, NEW f \in Frame, Answer(<<ControlFrame(f)>>), UNCHANGED <<up, tcp>>
    PROVE  FacadeInv'
<1> DEFINE m == ControlFrame(f)
<1>1. m \in Signals /\ m.kind = "frame"
    BY DEF Signals, ControlFrame
<1>2. fromWorker' = Append(fromWorker, m) /\ fromWorker' \in Seq(Signals)
    BY <1>1, OneMore DEF Answer, FacadeInv
<1>3. LastSaid(Append(fromWorker, m), up, tcp)
    BY <1>1, SaysFrame DEF FacadeInv
<1> QED
    BY <1>2, <1>3 DEF FacadeInv

LEMMA HearsSignal ==
    ASSUME FacadeInv, NEW k, Hears(k), UNCHANGED tcp,
           \/ k = "frame" /\ up' = up
           \/ k # "frame" /\ (up' <=> k = "connected") /\ up' \in BOOLEAN
    PROVE  FacadeInv'
<1>1. fromWorker # <<>> /\ Head(fromWorker).kind = k /\ fromWorker' = Tail(fromWorker)
    BY DEF Hears
<1>2. fromWorker' \in Seq(Signals)
    BY <1>1, Tailed DEF FacadeInv
<1>3. LastSaid(Tail(fromWorker), up', tcp)
    BY <1>1, Heard DEF FacadeInv
<1> QED
    BY <1>1, <1>2, <1>3 DEF FacadeInv

\* Every change of the socket is said in the same step, so that the last thing
\* said is true when the GUI thread has heard it.
LEMMA FacadeStep ==
    ASSUME FacadeInv, DialectInv, StreamInv, [Next]_vars
    PROVE  FacadeInv'
<1>1. CASE Posts
    BY <1>1, NothingSaid DEF Posts, Open, Close, Send, StartScreenStream, StopScreenStream, socket
<1>2. CASE HearConnected
    BY <1>2, HearsSignal DEF HearConnected, socket
<1>3. CASE HearDisconnected
    BY <1>3, HearsSignal DEF HearDisconnected, socket
<1>4. CASE HearFrame
    BY <1>4, HearsSignal DEF HearFrame, socket
<1>5. CASE ResetStores \/ PingLoads \/ PingStores
    BY <1>5, NothingSaid DEF ResetStores, PingLoads, PingStores, socket, queues
<1>6. CASE ConnectToHost
  <2>1. up' = up /\ ~IsOpen(tcp')
      BY <1>6 DEF ConnectToHost, IsOpen
  <2>2. CASE IsOpen(tcp)
      BY <1>6, <2>1, <2>2, SaysDown DEF ConnectToHost, Abort, IsOpen
  <2>3. CASE ~IsOpen(tcp)
      BY <1>6, <2>1, <2>3, NothingSaid DEF ConnectToHost, Abort, IsOpen
  <2> QED
      BY <2>2, <2>3
<1>7. CASE DisconnectFromHost
  <2>1. UNCHANGED <<fromWorker, up>> /\ (IsOpen(tcp') <=> IsOpen(tcp))
      BY <1>7 DEF DisconnectFromHost, IsOpen
  <2> QED
      BY <2>1, NothingSaid
<1>8. CASE WriteData \/ ArmScreen \/ DisarmScreen
    BY <1>8, NothingSaid DEF WriteData, ArmScreen, DisarmScreen, socket
<1>9. CASE OnTcpConnected
  <2> DEFINE m == Signal("connected")
  <2>1. m \in Signals /\ m.kind = "connected"
      BY DEF Signals, Signal
  <2>2. Answer(<<m>>) /\ up' = up /\ IsOpen(tcp')
      BY <1>9 DEF OnTcpConnected, IsOpen
  <2>3. fromWorker' = Append(fromWorker, m) /\ fromWorker' \in Seq(Signals)
      BY <2>1, <2>2, OneMore DEF Answer, FacadeInv
  <2>4. LastSaid(Append(fromWorker, m), up, tcp')
      BY <2>1, <2>2, SaysLink DEF FacadeInv
  <2> QED
      BY <2>2, <2>3, <2>4 DEF FacadeInv
<1>10. CASE OnTcpError
    BY <1>10, SaysDown DEF OnTcpError, IsOpen
<1>11. CASE OnTcpDisconnected
  <2> DEFINE m == Signal("disconnected")
  <2>1. m \in Signals /\ m.kind = "disconnected"
      BY DEF Signals, Signal
  <2>2. /\ up' = up /\ ~IsOpen(tcp')
        /\ \E doubled \in BOOLEAN : Answer([i \in 1..(IF doubled THEN 2 ELSE 1) |-> m])
      BY <1>11 DEF OnTcpDisconnected, IsOpen
  <2> HIDE DEF m
  <2>3. CASE Answer([i \in 1..1 |-> m])
    <3>1. [i \in 1..1 |-> m] = <<m>>
        OBVIOUS
    <3>2. Answer(<<m>>)
        BY <2>3, <3>1
    <3> QED
        BY <2>2, <3>2, SaysDown DEF m
  <2>4. CASE Answer([i \in 1..2 |-> m])
    <3>1. [i \in 1..2 |-> m] = <<m, m>>
        OBVIOUS
    <3>2. fromWorker' = fromWorker \o <<m, m>>
        BY <2>4, <3>1 DEF Answer
    <3>3. fromWorker' = Append(Append(fromWorker, m), m) /\ fromWorker' \in Seq(Signals)
        BY <2>1, <3>2, TwoMore DEF FacadeInv
    <3>4. Append(fromWorker, m) \in Seq(Signals)
        BY <2>1, OneMore DEF FacadeInv
    <3>5. LastSaid(Append(Append(fromWorker, m), m), up, tcp')
        BY <2>1, <2>2, <3>4, SaysLink
    <3> QED
        BY <2>2, <3>3, <3>5 DEF FacadeInv
  <2> QED
      BY <2>2, <2>3, <2>4
<1>12. CASE OnTcpReadyRead
  <2>1. UNCHANGED <<up, tcp>>
      BY <1>12 DEF OnTcpReadyRead
  <2>2. CASE UNCHANGED fromWorker
      BY <2>1, <2>2, NothingSaid
  <2>3. ASSUME NEW f \in Frame, Answer(<<ControlFrame(f)>>) PROVE FacadeInv'
      BY <2>1, <2>3, SaysIn
  <2> QED
      BY <1>12, <2>2, <2>3, ReadStep
<1>13. CASE LatchStores
  <2>1. latch # <<>> /\ Answer(<<ControlFrame(latch[1].frame)>>) /\ UNCHANGED <<up, tcp>>
      BY <1>13 DEF LatchStores, socket
  <2>2. latch[1] \in [frame : Frame, dialect : Dialect]
      BY <2>1, Tailed DEF DialectInv
  <2>3. latch[1].frame \in Frame
      BY <2>2
  <2> QED
      BY <2>1, <2>3, SaysIn
<1>14. CASE \E g \in grams : OnDatagram(g)
    BY <1>14, NothingSaid DEF OnDatagram, socket, queues
<1>15. CASE Device
    BY <1>15, NothingSaid DEF Device, DeviceTakes, DeviceStreams, DeviceReplies, socket, queues
<1>16. CASE UNCHANGED vars
    BY <1>16, NothingSaid DEF vars, queues, socket
<1> QED
    BY <1>1, <1>2, <1>3, <1>4, <1>5, <1>6, <1>7, <1>8, <1>9, <1>10, <1>11, <1>12, <1>13, <1>14,
       <1>15, <1>16 DEF Next, Gui, Worker, Posts

-----------------------------------------------------------------------------
(* The screen.                                                             *)

\* What WifiAssumption says of frame_seq.
LEMMA RangeFacts == SeqRange \in Nat /\ SeqRange > 0 /\ FirstSeq \in Nat /\ FirstSeq < SeqRange
BY WifiAssumption

\* A remainder is the only one of its kind.
LEMMA ModUnique ==
    ASSUME NEW R \in Nat, R > 0, NEW k \in Int, NEW r \in 0..(R - 1)
    PROVE  (R * k + r) % R = r
<1> DEFINE x == R * k + r
           q == x \div R
           s == x % R
<1>1. q \in Int /\ s \in 0..(R - 1) /\ x = R * q + s
    OBVIOUS
<1>2. R * k + r = R * q + s
    BY <1>1
<1> HIDE DEF q, s, x
<1>3. ASSUME q < k PROVE FALSE
  <2>1. R * (q + 1) <= R * k
      BY <1>1, <1>3
  <2>2. R * (q + 1) = R * q + R
      BY <1>1
  <2> QED
      BY <1>1, <1>2, <2>1, <2>2
<1>4. ASSUME q > k PROVE FALSE
  <2>1. R * (k + 1) <= R * q
      BY <1>1, <1>4
  <2>2. R * (k + 1) = R * k + R
      OBVIOUS
  <2> QED
      BY <1>1, <1>2, <2>1, <2>2
<1>5. q = k
    BY <1>1, <1>3, <1>4
<1> QED
    BY <1>1, <1>2, <1>5 DEF s, x

\* The comparison of two numbers less than half the range apart is that of the
\* frames they were taken from, over any number of turns of the counter.
LEMMA AheadIsNewer ==
    ASSUME NEW m \in Nat, NEW n \in Nat,
           n - m < SeqRange \div 2, m - n < SeqRange \div 2
    PROVE  (((FirstSeq + n) % SeqRange) - ((FirstSeq + m) % SeqRange)) % SeqRange
               \in 1..(SeqRange \div 2 - 1) <=> n > m
<1> DEFINE R == SeqRange
           H == SeqRange \div 2
           a == (FirstSeq + n) % R
           b == (FirstSeq + m) % R
           i == (FirstSeq + n) \div R
           j == (FirstSeq + m) \div R
           k == j - i
<1>1. R \in Nat /\ R > 0 /\ H \in Nat /\ R = 2 * H
    BY WifiAssumption
<1>2. /\ a \in 0..(R - 1) /\ i \in Int /\ FirstSeq + n = R * i + a
      /\ b \in 0..(R - 1) /\ j \in Int /\ FirstSeq + m = R * j + b
    BY RangeFacts
<1>3. k \in Int /\ R * k = R * j - R * i
    BY <1>1, <1>2
<1>4. a - b = R * k + (n - m)
    BY <1>1, <1>2, <1>3, RangeFacts
<1> DEFINE ahead == (a - b) % R \in 1..(H - 1)
<1>5. ASSUME n >= m PROVE ahead <=> n > m
  <2>1. n - m \in 0..(R - 1)
      BY <1>1, <1>5
  <2>2. (R * k + (n - m)) % R = n - m
      BY <1>1, <1>3, <2>1, ModUnique
  <2>3. (a - b) % R = n - m
      BY <1>4, <2>2
  <2>4. n - m \in 1..(H - 1) <=> n > m
      BY <1>1, <1>5
  <2> HIDE DEF a, b, k, i, j, R, H
  <2> QED
      BY <2>3, <2>4
<1>6. ASSUME n < m PROVE ahead <=> n > m
  <2>1. n - m + R \in 0..(R - 1) /\ ~(n - m + R \in 1..(H - 1)) /\ k - 1 \in Int
      BY <1>1, <1>3, <1>6
  <2>2. R * (k - 1) = R * k - R
      BY <1>1, <1>3
  <2>3. (R * (k - 1) + (n - m + R)) % R = n - m + R
      BY <1>1, <2>1, ModUnique
  <2>4. a - b = R * (k - 1) + (n - m + R)
      BY <1>1, <1>2, <1>3, <1>4, <2>2
  <2>5. (a - b) % R = n - m + R
      BY <2>3, <2>4
  <2>6. ~(n > m)
      BY <1>6
  <2> HIDE DEF a, b, k, i, j, R, H
  <2> QED
      BY <2>1, <2>5, <2>6
<1>7. ahead <=> n > m
    BY <1>5, <1>6
<1> QED
    BY <1>7

\* Whoever does not touch the receiver leaves it latched as it was.
LEMMA LatchKept ==
    ASSUME Latched(epoch, lastSeq, shown), UNCHANGED <<epoch, lastSeq, shown>>
    PROVE  Latched(epoch, lastSeq, shown)'
BY DEF Latched, FrameSeq

\* The steps that leave both ends of the stream alone.
LEMMA ScreenKept ==
    ASSUME ScreenInv, UNCHANGED <<epoch, lastSeq, shown, streams, nextGram, grams>>,
           UNCHANGED screenActive \/ screenActive' = FALSE,
           UNCHANGED streaming \/ streaming' = FALSE
    PROVE  ScreenInv'
<1>1. Latched(epoch, lastSeq, shown)'
    BY LatchKept DEF ScreenInv
<1>2. screenActive' \in BOOLEAN /\ streaming' \in BOOLEAN
    BY DEF ScreenInv
<1>3. streams' \in 0..MaxStreams /\ nextGram' \in 0..MaxGrams /\ grams' \subseteq Gram
    BY DEF ScreenInv
<1>4. streaming' => streams' > 0
    BY DEF ScreenInv
<1> QED
    BY <1>1, <1>2, <1>3, <1>4 DEF ScreenInv

\* The receiver has latched nothing, or the stream and the number of what it shows.
LEMMA ScreenStep ==
    ASSUME ScreenInv, [Next]_vars
    PROVE  ScreenInv'
<1> DEFINE still == UNCHANGED <<streams, nextGram, grams>>
<1>1. CASE Gui
    BY <1>1, GuiLeaves, ScreenKept
<1>2. CASE ConnectToHost
  <2>1. still /\ streaming' = FALSE
      BY <1>2 DEF ConnectToHost
  <2>2. CASE UNCHANGED screen
      BY <2>1, <2>2, ScreenKept DEF screen
  <2>3. CASE DisarmLatch
      BY <2>1, <2>3 DEF ScreenInv, Latched, DisarmLatch
  <2> QED
      BY <1>2, <2>2, <2>3 DEF ConnectToHost, Abort
<1>3. CASE OnTcpDisconnected
    BY <1>3 DEF ScreenInv, Latched, DisarmLatch, OnTcpDisconnected
<1>4. CASE ArmScreen
    BY <1>4 DEF ScreenInv, Latched, ArmScreen, device
<1>5. CASE DisarmScreen \/ DisconnectFromHost
    BY <1>5, ScreenKept DEF DisarmScreen, DisconnectFromHost, device
<1>6. CASE WriteData \/ OnTcpConnected \/ OnTcpError \/ OnTcpReadyRead \/ LatchStores
    BY <1>6, ScreenKept DEF WriteData, OnTcpConnected, OnTcpError, OnTcpReadyRead, LatchStores, screen, device
<1>7. ASSUME NEW g \in grams, OnDatagram(g) PROVE ScreenInv'
  <2>1. /\ g \in Gram
        /\ epoch = 0 \/ epoch = g.epoch
        /\ epoch' = g.epoch /\ UNCHANGED screenActive
        /\ still /\ UNCHANGED streaming
      BY <1>7 DEF OnDatagram, ScreenInv, device
  <2>2. CASE lastSeq' = FrameSeq(g) /\ shown' = g
      BY <2>1, <2>2, <1>7 DEF ScreenInv, Latched
  <2>3. CASE ~Ahead(FrameSeq(g)) /\ UNCHANGED <<lastSeq, shown>>
    <3>1. shown \in Gram /\ epoch = shown.epoch /\ lastSeq = FrameSeq(shown)
        BY <2>3 DEF ScreenInv, Latched, Ahead
    <3>2. epoch # 0
        BY <3>1 DEF Gram
    <3> QED
        BY <2>1, <2>3, <3>1, <3>2, <1>7 DEF ScreenInv, Latched, OnDatagram
  <2> QED
      BY <1>7, <2>2, <2>3 DEF OnDatagram
<1>8. CASE DeviceTakes
  <2>1. UNCHANGED <<screenActive, epoch, lastSeq, shown, grams>>
      BY <1>8 DEF DeviceTakes, screen
  <2>2. \/ streams < MaxStreams /\ streaming' = TRUE /\ streams' = streams + 1 /\ nextGram' = 0
        \/ streaming' = FALSE /\ streams' = streams /\ nextGram' = nextGram
        \/ streaming' = streaming /\ streams' = streams /\ nextGram' = nextGram
      BY <1>8 DEF DeviceTakes
  <2>3. MaxStreams \in Nat /\ MaxGrams \in Nat
      BY WifiAssumption
  <2>4. Latched(epoch, lastSeq, shown)' /\ screenActive' \in BOOLEAN /\ grams' \subseteq Gram
      BY <2>1, LatchKept DEF ScreenInv
  <2>5. streams \in 0..MaxStreams /\ nextGram \in 0..MaxGrams /\ streaming \in BOOLEAN
      BY DEF ScreenInv
  <2>7. streams' \in 0..MaxStreams /\ nextGram' \in 0..MaxGrams
      BY <2>2, <2>3, <2>5
  <2>8. streaming' \in BOOLEAN
      BY <2>2, <2>5
  <2>6. streaming' => streams' > 0
    <3>1. streaming => streams > 0
        BY DEF ScreenInv
    <3>2. CASE streams' = streams + 1
        BY <2>5, <3>2
    <3>3. CASE streaming' = FALSE
        BY <3>3
    <3>4. CASE streaming' = streaming /\ streams' = streams
        BY <3>1, <3>4
    <3> QED
        BY <2>2, <3>2, <3>3, <3>4
  <2> QED
      BY <2>4, <2>6, <2>7, <2>8 DEF ScreenInv
<1>9. CASE DeviceStreams
  <2>1. /\ streaming /\ nextGram < MaxGrams /\ nextGram' = nextGram + 1
        /\ grams' = grams \cup {[epoch |-> streams, n |-> nextGram]}
        /\ UNCHANGED <<screenActive, epoch, lastSeq, shown, streaming, streams>>
      BY <1>9 DEF DeviceStreams, screen
  <2>2. MaxStreams \in Nat /\ MaxGrams \in Nat
      BY WifiAssumption
  <2>3. [epoch |-> streams, n |-> nextGram] \in Gram
      BY <2>1, <2>2 DEF ScreenInv, Gram
  <2> QED
      BY <2>1, <2>2, <2>3, LatchKept DEF ScreenInv
<1>10. CASE DeviceReplies
    BY <1>10, ScreenKept DEF DeviceReplies, screen
<1>11. CASE UNCHANGED vars
    BY <1>11, ScreenKept DEF vars, screen, device
<1> QED
    BY <1>1, <1>2, <1>3, <1>4, <1>5, <1>6, <1>7, <1>8, <1>9, <1>10, <1>11 DEF Next, Worker, Device

\* What a datagram does that is less than half a range of numbers away from the
\* one that is shown.
ScreenFollowsNear ==
    [][\A g \in grams :
         (/\ OnDatagram(g) /\ shown # NoGram
          /\ g.n - shown.n < SeqRange \div 2 /\ shown.n - g.n < SeqRange \div 2) =>
             /\ g.epoch = shown.epoch
             /\ shown' = IF g.n > shown.n THEN g ELSE shown]_vars

\* onUdpReadyRead() shows a datagram if and only if it is newer.
LEMMA ShowsNewer ==
    ASSUME ScreenInv, NEW g \in grams, OnDatagram(g), shown # NoGram,
           g.n - shown.n < SeqRange \div 2, shown.n - g.n < SeqRange \div 2
    PROVE  g.epoch = shown.epoch /\ shown' = IF g.n > shown.n THEN g ELSE shown
<1>1. /\ shown \in Gram /\ g \in Gram
      /\ epoch = shown.epoch /\ epoch # 0 /\ lastSeq = FrameSeq(shown)
    BY DEF ScreenInv, Latched, Gram
<1>2. shown.n \in Nat /\ g.n \in Nat
    BY <1>1, WifiAssumption DEF Gram
<1>3. lastSeq # -1
    BY <1>1, <1>2, RangeFacts DEF FrameSeq
<1>4. Ahead(FrameSeq(g)) <=> g.n > shown.n
  <2>1. (((FirstSeq + g.n) % SeqRange) - ((FirstSeq + shown.n) % SeqRange)) % SeqRange
            \in 1..(SeqRange \div 2 - 1) <=> g.n > shown.n
      BY <1>2, AheadIsNewer
  <2>2. lastSeq = (FirstSeq + shown.n) % SeqRange
      BY <1>1 DEF FrameSeq
  <2> QED
      BY <1>3, <2>1, <2>2 DEF Ahead, FrameSeq
<1>5. CASE g.n > shown.n
    BY <1>1, <1>4, <1>5 DEF OnDatagram
<1>6. CASE ~(g.n > shown.n)
    BY <1>1, <1>4, <1>6 DEF OnDatagram
<1> QED
    BY <1>5, <1>6

-----------------------------------------------------------------------------
(* Frames and requests in their order.                                     *)

\* How many closes lie before and behind a request.
LEMMA RequestKinds ==
    ASSUME NEW m \in Requests
    PROVE  /\ IsWrite(m) => m.data \in Datum /\ ClosesAt(m) = m.data.closes /\ ClosesPast(m) = ClosesAt(m)
           /\ ~IsWrite(m) => m.closes \in Nat /\ ClosesAt(m) = m.closes
           /\ m.kind = "close" => ~IsWrite(m) /\ ClosesPast(m) = ClosesAt(m) + 1
           /\ m.kind # "close" => ClosesPast(m) = ClosesAt(m)
           /\ ClosesAt(m) \in Nat /\ ClosesPast(m) \in Nat
BY DEF Requests, IsWrite, ClosesAt, ClosesPast, Datum

\* Rising sequences: none, one more, one less, from a lower start.
LEMMA RisingNone ==
    ASSUME NEW lo, NEW hi
    PROVE  Rising(<<>>, lo, hi)
BY DEF Rising

LEMMA NumbersOf ==
    ASSUME NEW s \in Seq(Datum), NEW i \in 1..Len(s)
    PROVE  s[i].id \in Nat
<1>1. s[i] \in Datum
    BY ElementOfSeq
<1> QED
    BY <1>1 DEF Datum

LEMMA RisingMore ==
    ASSUME NEW s \in Seq(Datum), NEW lo \in Nat, NEW hi \in Nat, Rising(s, lo, hi),
           NEW m \in Datum, m.id > hi, lo <= hi
    PROVE  /\ Rising(Append(s, m), lo, m.id)
           /\ Rising(s, lo, m.id)
<1>1. m.id \in Nat /\ \A i \in 1..Len(s) : s[i].id \in Nat
    BY NumbersOf DEF Datum
<1>2. /\ Len(Append(s, m)) = Len(s) + 1 /\ Append(s, m)[Len(s) + 1] = m /\ Len(s) \in Nat
      /\ \A i \in 1..Len(s) : Append(s, m)[i] = s[i]
    OBVIOUS
<1>3. \A i \in 1..Len(s) : lo < s[i].id /\ s[i].id < m.id
    BY <1>1 DEF Rising
<1>4. \A i \in 1..(Len(s) + 1) : lo < Append(s, m)[i].id /\ Append(s, m)[i].id <= m.id
    BY <1>1, <1>2, <1>3
<1>5. \A i, j \in 1..(Len(s) + 1) : i < j => Append(s, m)[i].id < Append(s, m)[j].id
    BY <1>1, <1>2, <1>3 DEF Rising
<1>6. Rising(Append(s, m), lo, m.id)
    BY <1>2, <1>4, <1>5 DEF Rising
<1>7. \A i \in 1..Len(s) : lo < s[i].id /\ s[i].id <= m.id
    BY <1>1, <1>3
<1>8. Rising(s, lo, m.id)
    BY <1>7 DEF Rising
<1> QED
    BY <1>6, <1>8

LEMMA RisingLess ==
    ASSUME NEW s \in Seq(Datum), s # <<>>, NEW lo, NEW hi, Rising(s, lo, hi)
    PROVE  Rising(Tail(s), s[1].id, hi) /\ lo < s[1].id /\ s[1].id <= hi
BY Tailed DEF Rising

LEMMA RisingJoined ==
    ASSUME NEW s \in Seq(Datum), NEW lo \in Nat, NEW mid \in Nat, NEW hi \in Nat,
           lo <= mid, mid <= hi, Rising(s, mid, hi)
    PROVE  Rising(s, lo, hi)
<1>1. \A i \in 1..Len(s) : s[i].id \in Nat
    BY NumbersOf
<1> QED
    BY <1>1 DEF Rising

\* The same of the writes among the requests.
LEMMA WritesLess ==
    ASSUME NEW q \in Seq(Requests), q # <<>>, NEW lo, NEW hi, RisingWrites(q, lo, hi)
    PROVE  /\ ~IsWrite(q[1]) => RisingWrites(Tail(q), lo, hi)
           /\ IsWrite(q[1]) => /\ RisingWrites(Tail(q), q[1].data.id, hi)
                               /\ lo < q[1].data.id /\ q[1].data.id <= hi
BY Tailed DEF RisingWrites

LEMMA WritesSame ==
    ASSUME NEW q \in Seq(Requests), NEW lo, NEW hi, RisingWrites(q, lo, hi),
           NEW m \in Requests, ~IsWrite(m)
    PROVE  RisingWrites(Append(q, m), lo, hi)
BY Appended DEF RisingWrites

LEMMA WritesMore ==
    ASSUME NEW q \in Seq(Requests), NEW lo \in Nat, NEW hi \in Nat, lo <= hi, RisingWrites(q, lo, hi),
           NEW m \in Requests, IsWrite(m), m.data.id = hi + 1
    PROVE  RisingWrites(Append(q, m), lo, hi + 1)
<1>1. \A i \in 1..Len(q) : IsWrite(q[i]) => q[i].data.id \in Nat
    BY RequestKinds DEF Datum
<1>2. /\ Len(Append(q, m)) = Len(q) + 1 /\ Append(q, m)[Len(q) + 1] = m /\ Len(q) \in Nat
      /\ \A i \in 1..Len(q) : Append(q, m)[i] = q[i]
    OBVIOUS
<1> QED
    BY <1>1, <1>2 DEF RisingWrites

\* The closes along the requests: one request more, one less.
LEMMA TurnsMore ==
    ASSUME NEW q \in Seq(Requests), NEW k \in Nat, NEW c \in Nat, Turns(q, k, c),
           NEW m \in Requests, ClosesAt(m) = c
    PROVE  Turns(Append(q, m), k, ClosesPast(m))
<1>1. /\ Len(Append(q, m)) = Len(q) + 1 /\ Append(q, m)[Len(q) + 1] = m /\ Len(q) \in Nat
      /\ \A i \in 1..Len(q) : Append(q, m)[i] = q[i]
      /\ Append(q, m) # <<>>
    OBVIOUS
<1>2. c <= ClosesPast(m) /\ ClosesPast(m) \in Nat
  <2>1. ClosesPast(m) = c \/ ClosesPast(m) = c + 1
      BY RequestKinds
  <2> QED
      BY <2>1
<1>3. \A i \in 1..Len(q) : ClosesPast(q[i]) \in Nat
    BY RequestKinds
<1>4. CASE q = <<>>
    BY <1>1, <1>2, <1>4 DEF Turns
<1>5. CASE q # <<>>
  <2>1. Len(q) > 0 /\ Append(q, m)[1] = q[1]
      BY <1>1, <1>5
  <2>2. \A i \in 1..Len(q) : ClosesAt(Append(q, m)[i + 1]) = ClosesPast(Append(q, m)[i])
      BY <1>1, <1>5 DEF Turns
  <2>3. \A i \in 1..(Len(q) + 1) : ClosesPast(Append(q, m)[i]) <= ClosesPast(m)
      BY <1>1, <1>2, <1>3, <1>5 DEF Turns
  <2> QED
      BY <1>1, <1>5, <2>1, <2>2, <2>3 DEF Turns
<1> QED
    BY <1>4, <1>5

LEMMA TurnsLess ==
    ASSUME NEW q \in Seq(Requests), q # <<>>, NEW k \in Nat, NEW c \in Nat, Turns(q, k, c)
    PROVE  /\ ClosesAt(q[1]) = k /\ ClosesPast(q[1]) \in Nat /\ ClosesPast(q[1]) <= c
           /\ Turns(Tail(q), ClosesPast(q[1]), c)
<1>0. Tail(q) \in Seq(Requests)
    BY Tailed
<1>1. /\ Len(Tail(q)) = Len(q) - 1 /\ Len(q) > 0 /\ Len(q) \in Nat
      /\ \A i \in 1..(Len(q) - 1) : Tail(q)[i] = q[i + 1]
    BY Tailed
<1>2. q[1] \in Requests
    BY <1>1
<1>3. ClosesAt(q[1]) = k /\ ClosesPast(q[1]) \in Nat /\ ClosesPast(q[1]) <= c
    BY <1>1, <1>2, RequestKinds DEF Turns
<1>4. CASE Len(q) = 1
  <2>0. Len(Tail(q)) = 0
      BY <1>1, <1>4
  <2>1. Tail(q) = <<>>
      BY <1>0, <2>0, NoneLeft, Zenon
  <2>2. ClosesPast(q[1]) = c
      BY <1>1, <1>4 DEF Turns
  <2> QED
      BY <1>1, <1>3, <2>1, <2>2 DEF Turns
<1>5. CASE Len(q) > 1
  <2>1. Tail(q) # <<>> /\ Tail(q)[1] = q[2] /\ Tail(q)[Len(q) - 1] = q[Len(q)]
    <3>1. 1 \in 1..(Len(q) - 1) /\ Len(q) - 1 \in 1..(Len(q) - 1)
        BY <1>1, <1>5
    <3>2. Tail(q)[1] = q[1 + 1] /\ Tail(q)[Len(q) - 1] = q[(Len(q) - 1) + 1]
        BY <1>1, <3>1
    <3>3. Len(Tail(q)) # 0
        BY <1>1, <1>5
    <3>4. Tail(q) # <<>>
        BY <1>0, <3>3, NoneLeft, Zenon
    <3> QED
        BY <1>1, <3>2, <3>4
  <2>2. /\ ClosesAt(q[2]) = ClosesPast(q[1]) /\ ClosesPast(q[Len(q)]) = c
        /\ \A i \in 2..(Len(q) - 1) : ClosesAt(q[i + 1]) = ClosesPast(q[i])
        /\ \A i \in 2..Len(q) : ClosesPast(q[i]) <= c
      BY <1>1, <1>5 DEF Turns
  <2>3. \A i \in 1..(Len(q) - 2) : ClosesAt(Tail(q)[i + 1]) = ClosesPast(Tail(q)[i])
      BY <1>1, <1>5, <2>2
  <2>4. \A i \in 1..(Len(q) - 1) : ClosesPast(Tail(q)[i]) <= c
      BY <1>1, <1>5, <2>2
  <2>5. Len(Tail(q)) - 1 = Len(q) - 2 /\ Tail(q)[Len(Tail(q))] = q[Len(q)]
      BY <1>1, <2>1
  <2>6. Turns(Tail(q), ClosesPast(q[1]), c)
      BY <1>1, <2>1, <2>2, <2>3, <2>4, <2>5 DEF Turns
  <2> QED
      BY <1>3, <2>6
<1> QED
    BY <1>1, <1>3, <1>4, <1>5

\* The worker takes a request that is not a frame: the numbers stay in line, and
\* k moves past the request.
LEMMA TakesOther ==
    ASSUME LineInv, NEW m, toWorker # <<>>, m = Head(toWorker), ~IsWrite(m),
           toWorker' = Tail(toWorker)
    PROVE  /\ m \in Requests /\ toWorker' \in Seq(Requests)
           /\ \A lo, hi : RisingWrites(toWorker, lo, hi) => RisingWrites(toWorker', lo, hi)
           /\ \A k \in Nat, c \in Nat : Turns(toWorker, k, c) =>
                  /\ ClosesAt(m) = k /\ ClosesPast(m) \in Nat /\ ClosesPast(m) <= c
                  /\ Turns(toWorker', ClosesPast(m), c)
<1>1. toWorker \in Seq(Requests)
    BY DEF LineInv
<1>2. m = toWorker[1] /\ m \in Requests /\ toWorker' \in Seq(Requests)
    BY <1>1, Tailed
<1> QED
    BY <1>1, <1>2, WritesLess, TurnsLess

\* The steps that post nothing and write nothing.
LEMMA LineKept ==
    ASSUME LineInv, UNCHANGED <<toWorker, pendingTx, toDev, writes, closes, linkCloses, taken, tcp>>
    PROVE  LineInv'
BY DEF LineInv, InLine, SinceClose, NoReplayAcrossClose, IsOpen

\* A request that is not a frame is posted.
LEMMA PostedOther ==
    ASSUME LineInv, NEW m \in Requests, ~IsWrite(m), toWorker' = Append(toWorker, m),
           ClosesAt(m) = closes, closes' = ClosesPast(m),
           UNCHANGED <<pendingTx, toDev, linkCloses, taken, tcp, writes>>
    PROVE  LineInv'
<1>0. /\ toWorker \in Seq(Requests) /\ writes \in Nat /\ closes \in Nat
    BY DEF LineInv
<1>1. toWorker' \in Seq(Requests)
    BY <1>0, Appended
<1>2. closes' \in Nat /\ closes <= closes'
    BY <1>0, RequestKinds
<1>3. InLine'
    BY <1>0, WritesSame DEF LineInv, InLine
<1>4. PICK k \in 0..closes : /\ Turns(toWorker, k, closes) /\ linkCloses <= k
                             /\ \A i \in 1..Len(pendingTx) : pendingTx[i].closes = k
    BY DEF LineInv, SinceClose
<1>5. Turns(toWorker', k, closes')
    BY <1>0, <1>4, TurnsMore
<1>6. k \in 0..closes'
    BY <1>0, <1>2, <1>4
<1>7. SinceClose'
    BY <1>4, <1>5, <1>6 DEF SinceClose
<1> QED
    BY <1>1, <1>2, <1>3, <1>7 DEF LineInv, NoReplayAcrossClose, IsOpen

\* A frame is posted, perhaps behind a request.
LEMMA PostedFrame ==
    ASSUME NEW q \in Seq(Requests), LineInv, txDialect \in Dialect,
           NEW what \in {"command", "start", "stop"}, writes' = writes + 1,
           toWorker' = Append(q, WriteRequest(Data(writes + 1, what))),
           UNCHANGED <<pendingTx, toDev, linkCloses, taken, tcp, closes>>,
           \E a, b \in 0..writes :
                 /\ taken <= a /\ a <= b /\ Rising(toDev, taken, a) /\ Rising(pendingTx, a, b)
                 /\ RisingWrites(q, b, writes),
           \E k \in 0..closes :
                 /\ Turns(q, k, closes) /\ linkCloses <= k
                 /\ \A i \in 1..Len(pendingTx) : pendingTx[i].closes = k
    PROVE  LineInv'
<1> DEFINE d == Data(writes + 1, what)
           m == WriteRequest(d)
<1>0. writes \in Nat /\ closes \in Nat
    BY DEF LineInv
<1>1. d \in Datum /\ d.id = writes + 1 /\ d.closes = closes
    BY <1>0 DEF Data, Datum
<1> HIDE DEF d
<1>2. m \in Requests /\ IsWrite(m) /\ m.data = d
    BY <1>1 DEF Requests, IsWrite, WriteRequest
<1>3. toWorker' = Append(q, m)
    BY DEF d
<1> HIDE DEF m
<1>4. ClosesAt(m) = closes /\ ClosesPast(m) = closes
    BY <1>1, <1>2, RequestKinds
<1>5. toWorker' \in Seq(Requests) /\ writes' \in Nat
    BY <1>0, <1>2, <1>3, Appended
<1>6. PICK a, b \in 0..writes :
         /\ taken <= a /\ a <= b /\ Rising(toDev, taken, a) /\ Rising(pendingTx, a, b)
         /\ RisingWrites(q, b, writes)
    OBVIOUS
<1>7. a \in 0..writes' /\ b \in 0..writes' /\ b \in Nat /\ b <= writes
    BY <1>0, <1>6
<1>8. RisingWrites(toWorker', b, writes')
    BY <1>0, <1>1, <1>2, <1>3, <1>6, <1>7, WritesMore
<1>9. InLine'
    BY <1>6, <1>7, <1>8 DEF InLine
<1>10. PICK k \in 0..closes :
         /\ Turns(q, k, closes) /\ linkCloses <= k
         /\ \A i \in 1..Len(pendingTx) : pendingTx[i].closes = k
    OBVIOUS
<1>11. Turns(toWorker', k, closes)
    BY <1>0, <1>2, <1>3, <1>4, <1>10, TurnsMore
<1>12. SinceClose'
    BY <1>10, <1>11 DEF SinceClose
<1> QED
    BY <1>0, <1>5, <1>9, <1>12 DEF LineInv, NoReplayAcrossClose, IsOpen

\* startScreenStream() and stopScreenStream() post a request and a frame.
LEMMA PostedPair ==
    ASSUME LineInv, txDialect \in Dialect, NEW kind \in {"arm", "disarm"},
           NEW what \in {"command", "start", "stop"}, writes' = writes + 1,
           Post(<<Request(kind), WriteRequest(Data(writes + 1, what))>>),
           UNCHANGED <<pendingTx, toDev, linkCloses, taken, tcp, closes>>
    PROVE  LineInv'
<1> DEFINE m == Request(kind)
           w == WriteRequest(Data(writes + 1, what))
           q == Append(toWorker, m)
<1>0. toWorker \in Seq(Requests) /\ writes \in Nat /\ closes \in Nat
    BY DEF LineInv
<1>1. m \in Requests /\ ~IsWrite(m) /\ ClosesAt(m) = closes /\ ClosesPast(m) = closes
    BY <1>0 DEF Requests, IsWrite, ClosesAt, ClosesPast, Request
<1>2. w \in Requests
    BY <1>0 DEF Requests, WriteRequest, Data, Datum
<1>3. toWorker' = Append(q, w)
    BY <1>0, <1>1, <1>2, TwoMore DEF Post
<1> HIDE DEF m
<1>4. q \in Seq(Requests)
    BY <1>0, <1>1, Appended
<1>5. \E a, b \in 0..writes :
          /\ taken <= a /\ a <= b /\ Rising(toDev, taken, a) /\ Rising(pendingTx, a, b)
          /\ RisingWrites(q, b, writes)
    BY <1>0, <1>1, WritesSame DEF LineInv, InLine
<1>6. \E k \in 0..closes :
          /\ Turns(q, k, closes) /\ linkCloses <= k
          /\ \A i \in 1..Len(pendingTx) : pendingTx[i].closes = k
  <2>1. PICK k \in 0..closes : /\ Turns(toWorker, k, closes) /\ linkCloses <= k
                               /\ \A i \in 1..Len(pendingTx) : pendingTx[i].closes = k
      BY DEF LineInv, SinceClose
  <2>2. Turns(q, k, closes)
      BY <1>0, <1>1, <2>1, TurnsMore
  <2> QED
      BY <2>1, <2>2
<1> HIDE DEF q
<1> QED
    BY <1>3, <1>4, <1>5, <1>6, PostedFrame

\* LineInv without its definitions.
LEMMA LineTypes ==
    ASSUME LineInv
    PROVE  /\ toWorker \in Seq(Requests) /\ pendingTx \in Seq(Datum) /\ toDev \in Seq(Datum)
           /\ writes \in Nat /\ closes \in Nat /\ linkCloses \in Nat /\ taken \in Nat
           /\ \E a, b \in 0..writes :
                 /\ taken <= a /\ a <= b /\ Rising(toDev, taken, a) /\ Rising(pendingTx, a, b)
                 /\ RisingWrites(toWorker, b, writes)
           /\ \E k \in 0..closes :
                 /\ Turns(toWorker, k, closes) /\ linkCloses <= k
                 /\ \A i \in 1..Len(pendingTx) : pendingTx[i].closes = k
BY DEF LineInv, InLine, SinceClose

\* connectToHost(): what was written is gone, the link counts from the closes
\* before the request.
LEMMA LineConnects ==
    ASSUME LineInv, ConnectToHost
    PROVE  LineInv'
<1> DEFINE m == Head(toWorker)
<1>1. /\ toWorker # <<>> /\ m.kind = "connect" /\ toWorker' = Tail(toWorker)
      /\ toDev' = <<>> /\ tcp' = "dialing" /\ linkCloses' = m.closes
      /\ UNCHANGED <<pendingTx, writes, closes, taken>>
    BY DEF ConnectToHost, Take, bounds
<1>2. ~IsWrite(m)
    BY <1>1 DEF IsWrite
<1> HIDE DEF m
<1>3. m = Head(toWorker)
    BY DEF m
<1>4. /\ m \in Requests /\ toWorker' \in Seq(Requests)
      /\ \A lo, hi : RisingWrites(toWorker, lo, hi) => RisingWrites(toWorker', lo, hi)
      /\ \A k \in Nat, c \in Nat : Turns(toWorker, k, c) =>
            /\ ClosesAt(m) = k /\ ClosesPast(m) \in Nat /\ ClosesPast(m) <= c
            /\ Turns(toWorker', ClosesPast(m), c)
    BY <1>1, <1>2, <1>3, TakesOther
<1>5. ClosesAt(m) = m.closes /\ ClosesPast(m) = m.closes /\ m.closes \in Nat
    BY <1>1, <1>2, <1>4, RequestKinds
<1>6. PICK a, b \in 0..writes :
          /\ taken <= a /\ a <= b /\ Rising(toDev, taken, a) /\ Rising(pendingTx, a, b)
          /\ RisingWrites(toWorker, b, writes)
    BY LineTypes
<1>7. PICK k \in 0..closes :
          /\ Turns(toWorker, k, closes) /\ linkCloses <= k
          /\ \A i \in 1..Len(pendingTx) : pendingTx[i].closes = k
    BY LineTypes
<1>8. k \in Nat /\ closes \in Nat
    BY <1>7, LineTypes
<1>9. m.closes = k /\ Turns(toWorker', k, closes)
    BY <1>4, <1>5, <1>7, <1>8
<1>10. SinceClose'
    BY <1>1, <1>7, <1>8, <1>9 DEF SinceClose
<1>11. Rising(toDev', taken, a)
    BY <1>1, RisingNone
<1>12. InLine'
    BY <1>1, <1>4, <1>6, <1>11 DEF InLine
<1>13. NoReplayAcrossClose' /\ toDev' \in Seq(Datum) /\ linkCloses' \in Nat
    BY <1>1, <1>5 DEF NoReplayAcrossClose
<1> QED
    BY <1>1, <1>4, <1>10, <1>12, <1>13 DEF LineInv, IsOpen

\* disconnectFromHost(): nothing held back before the close outlives it.
LEMMA LineCloses ==
    ASSUME LineInv, DisconnectFromHost
    PROVE  LineInv'
<1> DEFINE m == Head(toWorker)
<1>1. /\ toWorker # <<>> /\ m.kind = "close" /\ toWorker' = Tail(toWorker)
      /\ pendingTx' = <<>> /\ tcp' = IF tcp = "on" THEN "closing" ELSE tcp
      /\ UNCHANGED <<toDev, linkCloses, writes, closes, taken>>
    BY DEF DisconnectFromHost, ClearPending, Take, bounds, device, history
<1>2. ~IsWrite(m)
    BY <1>1 DEF IsWrite
<1> HIDE DEF m
<1>3. m = Head(toWorker)
    BY DEF m
<1>4. /\ m \in Requests /\ toWorker' \in Seq(Requests)
      /\ \A lo, hi : RisingWrites(toWorker, lo, hi) => RisingWrites(toWorker', lo, hi)
      /\ \A k \in Nat, c \in Nat : Turns(toWorker, k, c) =>
            /\ ClosesAt(m) = k /\ ClosesPast(m) \in Nat /\ ClosesPast(m) <= c
            /\ Turns(toWorker', ClosesPast(m), c)
    BY <1>1, <1>2, <1>3, TakesOther
<1>5. ClosesPast(m) = ClosesAt(m) + 1
    BY <1>1, <1>4, RequestKinds
<1>6. PICK a, b \in 0..writes :
          /\ taken <= a /\ a <= b /\ Rising(toDev, taken, a) /\ Rising(pendingTx, a, b)
          /\ RisingWrites(toWorker, b, writes)
    BY LineTypes
<1>7. PICK k \in 0..closes : Turns(toWorker, k, closes) /\ linkCloses <= k
    BY LineTypes
<1>8. k \in Nat /\ closes \in Nat /\ linkCloses \in Nat
    BY <1>7, LineTypes
<1>9. k + 1 \in 0..closes /\ Turns(toWorker', k + 1, closes)
    BY <1>4, <1>5, <1>7, <1>8
<1>10. SinceClose'
    BY <1>1, <1>7, <1>8, <1>9 DEF SinceClose
<1>11. Rising(pendingTx', a, b)
    BY <1>1, RisingNone
<1>12. InLine'
    BY <1>1, <1>4, <1>6, <1>11 DEF InLine
<1>13. NoReplayAcrossClose'
    BY <1>1 DEF LineInv, NoReplayAcrossClose
<1>14. /\ tcp' \in {"off", "dialing", "on", "closing"} /\ tcp' # "on"
       /\ toDev # <<>> => IsOpen(tcp')
    BY <1>1 DEF LineInv, IsOpen
<1>15. pendingTx' \in Seq(Datum) /\ Len(pendingTx') <= MaxPending
    BY <1>1, WifiAssumption
<1> QED
    BY <1>1, <1>4, <1>10, <1>12, <1>13, <1>14, <1>15 DEF LineInv

\* armScreen() and disarmScreen() take their request and write nothing.
LEMMA LineArms ==
    ASSUME LineInv, ArmScreen \/ DisarmScreen
    PROVE  LineInv'
<1> DEFINE m == Head(toWorker)
<1>1. /\ toWorker # <<>> /\ m.kind \in {"arm", "disarm"} /\ toWorker' = Tail(toWorker)
      /\ UNCHANGED <<tcp, pendingTx, toDev, linkCloses, writes, closes, taken>>
    BY DEF ArmScreen, DisarmScreen, Take, bounds, device, history, socket
<1>2. ~IsWrite(m)
    BY <1>1 DEF IsWrite
<1> HIDE DEF m
<1>3. m = Head(toWorker)
    BY DEF m
<1>4. /\ m \in Requests /\ toWorker' \in Seq(Requests)
      /\ \A lo, hi : RisingWrites(toWorker, lo, hi) => RisingWrites(toWorker', lo, hi)
      /\ \A k \in Nat, c \in Nat : Turns(toWorker, k, c) =>
            /\ ClosesAt(m) = k /\ ClosesPast(m) \in Nat /\ ClosesPast(m) <= c
            /\ Turns(toWorker', ClosesPast(m), c)
    BY <1>1, <1>2, <1>3, TakesOther
<1>5. ClosesPast(m) = ClosesAt(m)
    BY <1>1, <1>4, RequestKinds
<1>7. PICK k \in 0..closes :
          /\ Turns(toWorker, k, closes) /\ linkCloses <= k
          /\ \A i \in 1..Len(pendingTx) : pendingTx[i].closes = k
    BY LineTypes
<1>8. k \in Nat /\ closes \in Nat
    BY <1>7, LineTypes
<1>9. Turns(toWorker', k, closes)
    BY <1>4, <1>5, <1>7, <1>8
<1>10. SinceClose'
    BY <1>1, <1>7, <1>9 DEF SinceClose
<1>12. InLine'
    BY <1>1, <1>4, LineTypes DEF InLine
<1> QED
    BY <1>1, <1>4, <1>10, <1>12 DEF LineInv, NoReplayAcrossClose, IsOpen

\* writeData(): the frame goes behind the written ones or the held-back ones, or
\* is dropped.
LEMMA LineWrites ==
    ASSUME LineInv, WriteData
    PROVE  LineInv'
<1> DEFINE m == Head(toWorker)
           d == m.data
<1>1. /\ toWorker # <<>> /\ m.kind = "write" /\ toWorker' = Tail(toWorker)
      /\ IF tcp = "on" THEN toDev' = Append(toDev, d) /\ pendingTx' = pendingTx
         ELSE /\ toDev' = toDev
              /\ pendingTx' = IF Len(pendingTx) < MaxPending THEN Append(pendingTx, d) ELSE pendingTx
      /\ UNCHANGED <<tcp, linkCloses, writes, closes, taken>>
    BY DEF WriteData, HoldBack, Take, bounds, history
<1>2. /\ toWorker \in Seq(Requests) /\ pendingTx \in Seq(Datum) /\ toDev \in Seq(Datum)
      /\ writes \in Nat /\ closes \in Nat /\ linkCloses \in Nat /\ taken \in Nat
    BY LineTypes
<1>3. m = toWorker[1] /\ m \in Requests /\ IsWrite(m) /\ toWorker' \in Seq(Requests)
    BY <1>1, <1>2, Tailed DEF IsWrite
<1> HIDE DEF m
<1>4. d \in Datum /\ d.id \in Nat /\ d.closes \in Nat /\ ClosesAt(m) = d.closes /\ ClosesPast(m) = d.closes
    BY <1>3, RequestKinds DEF Datum
<1>5. PICK a, b \in 0..writes :
          /\ taken <= a /\ a <= b /\ Rising(toDev, taken, a) /\ Rising(pendingTx, a, b)
          /\ RisingWrites(toWorker, b, writes)
    BY LineTypes
<1>6. PICK k \in 0..closes :
          /\ Turns(toWorker, k, closes) /\ linkCloses <= k
          /\ \A i \in 1..Len(pendingTx) : pendingTx[i].closes = k
    BY LineTypes
<1>7. k \in Nat /\ a \in Nat /\ b \in Nat
    BY <1>2, <1>5, <1>6
<1>8. d.closes = k /\ Turns(toWorker', k, closes)
    BY <1>1, <1>2, <1>3, <1>4, <1>6, <1>7, TurnsLess
<1>9. /\ RisingWrites(toWorker', d.id, writes) /\ b < d.id /\ d.id <= writes
    BY <1>1, <1>2, <1>3, <1>5, WritesLess
<1> HIDE DEF d
<1>10. d.id \in 0..writes /\ a < d.id /\ taken <= d.id
    BY <1>2, <1>4, <1>5, <1>7, <1>9
<1>11. CASE tcp = "on"
  <2>1. pendingTx = <<>> /\ pendingTx' = <<>> /\ toDev' = Append(toDev, d)
      BY <1>1, <1>11 DEF LineInv
  <2>2. Rising(toDev', taken, d.id)
      BY <1>2, <1>4, <1>5, <1>7, <1>10, <2>1, RisingMore
  <2>3. Rising(pendingTx', d.id, d.id)
      BY <2>1, RisingNone
  <2>4. InLine'
      BY <1>1, <1>4, <1>9, <1>10, <2>2, <2>3 DEF InLine
  <2>5. SinceClose'
      BY <1>1, <1>6, <1>8, <2>1 DEF SinceClose
  <2>6. toDev' \in Seq(Datum) /\ \A i \in 1..Len(toDev') : i <= Len(toDev) \/ toDev'[i] = d
      BY <1>2, <1>4, <2>1
  <2>7. \A i \in 1..Len(toDev) : toDev'[i] = toDev[i] /\ toDev[i].closes >= linkCloses
      BY <1>2, <1>4, <2>1, Appended DEF LineInv, NoReplayAcrossClose
  <2>8. \A i \in 1..Len(toDev') : toDev'[i].closes >= linkCloses
      BY <1>2, <1>6, <1>7, <1>8, <2>6, <2>7
  <2>9. NoReplayAcrossClose'
      BY <1>1, <2>6, <2>8 DEF NoReplayAcrossClose
  <2> QED
      BY <1>1, <1>3, <1>11, <2>1, <2>4, <2>5, <2>6, <2>9 DEF LineInv, IsOpen
<1>12. CASE tcp # "on"
  <2>1. toDev' = toDev
      BY <1>1, <1>12
  <2>2. /\ pendingTx' \in Seq(Datum) /\ Len(pendingTx') <= MaxPending
        /\ Rising(pendingTx', a, d.id)
        /\ \A i \in 1..Len(pendingTx') : pendingTx'[i].closes = k
    <3>1. CASE Len(pendingTx) < MaxPending
      <4>1. pendingTx' = Append(pendingTx, d)
          BY <1>1, <1>12, <3>1
      <4>2. Rising(pendingTx', a, d.id)
          BY <1>2, <1>4, <1>5, <1>7, <1>9, <4>1, RisingMore
      <4>3. /\ pendingTx' \in Seq(Datum) /\ Len(pendingTx') = Len(pendingTx) + 1
            /\ pendingTx'[Len(pendingTx) + 1] = d /\ Len(pendingTx) \in Nat
            /\ \A i \in 1..Len(pendingTx) : pendingTx'[i] = pendingTx[i]
          BY <1>2, <1>4, <4>1, Appended
      <4>4. Len(pendingTx') <= MaxPending
          BY <3>1, <4>3, WifiAssumption
      <4>5. \A i \in 1..Len(pendingTx') : pendingTx'[i].closes = k
          BY <1>6, <1>8, <4>3
      <4> QED
          BY <4>2, <4>3, <4>4, <4>5
    <3>2. CASE ~(Len(pendingTx) < MaxPending)
      <4>1. pendingTx' = pendingTx
          BY <1>1, <1>12, <3>2
      <4>2. Rising(pendingTx, a, d.id)
          BY <1>2, <1>4, <1>5, <1>7, <1>9, RisingMore
      <4> QED
          BY <1>2, <1>6, <4>1, <4>2 DEF LineInv
    <3> QED
        BY <3>1, <3>2
  <2>3. InLine'
      BY <1>1, <1>5, <1>9, <1>10, <2>1, <2>2 DEF InLine
  <2>4. SinceClose'
      BY <1>1, <1>6, <1>8, <2>2 DEF SinceClose
  <2>5. NoReplayAcrossClose'
      BY <1>1, <2>1 DEF LineInv, NoReplayAcrossClose
  <2> QED
      BY <1>1, <1>3, <1>12, <2>1, <2>2, <2>3, <2>4, <2>5 DEF LineInv, IsOpen
<1> QED
    BY <1>11, <1>12

\* onTcpConnected(): the flush writes what was held back, on a socket to which
\* nothing was written yet.
LEMMA LineFlushes ==
    ASSUME LineInv, OnTcpConnected
    PROVE  LineInv'
<1>1. /\ tcp = "dialing" /\ tcp' \in {"on", "closing"}
      /\ toDev' = toDev \o pendingTx /\ pendingTx' = <<>>
      /\ UNCHANGED <<toWorker, linkCloses, writes, closes, taken>>
    BY DEF OnTcpConnected, FlushPending, bounds
<1>2. /\ pendingTx \in Seq(Datum) /\ linkCloses \in Nat /\ taken \in Nat /\ writes \in Nat /\ closes \in Nat
    BY LineTypes
<1>3. toDev' = pendingTx
  <2>1. toDev = <<>>
      BY <1>1 DEF LineInv, IsOpen
  <2> QED
      BY <1>1, <1>2, <2>1, ConcatEmptySeq
<1>4. PICK a, b \in 0..writes :
          /\ taken <= a /\ a <= b /\ Rising(toDev, taken, a) /\ Rising(pendingTx, a, b)
          /\ RisingWrites(toWorker, b, writes)
    BY LineTypes
<1>5. PICK k \in 0..closes :
          /\ Turns(toWorker, k, closes) /\ linkCloses <= k
          /\ \A i \in 1..Len(pendingTx) : pendingTx[i].closes = k
    BY LineTypes
<1>6. a \in Nat /\ b \in Nat /\ k \in Nat /\ taken <= b
    BY <1>2, <1>4, <1>5
<1>7. Rising(toDev', taken, b)
    BY <1>2, <1>3, <1>4, <1>6, RisingJoined
<1>8. Rising(pendingTx', b, b)
    BY <1>1, RisingNone
<1>9. InLine'
    BY <1>1, <1>4, <1>6, <1>7, <1>8 DEF InLine
<1>10. SinceClose'
    BY <1>1, <1>5 DEF SinceClose
<1>11. NoReplayAcrossClose'
  <2>1. \A i \in 1..Len(pendingTx) : pendingTx[i].closes >= linkCloses
      BY <1>2, <1>5, <1>6
  <2> QED
      BY <1>1, <1>2, <1>3, <2>1 DEF NoReplayAcrossClose
<1>12. pendingTx' \in Seq(Datum) /\ Len(pendingTx') <= MaxPending
    BY <1>1, WifiAssumption
<1> QED
    BY <1>1, <1>2, <1>3, <1>9, <1>10, <1>11, <1>12 DEF LineInv, IsOpen

\* The device takes the first of the written frames.
LEMMA LineTaken ==
    ASSUME LineInv, DeviceTakes
    PROVE  LineInv'
<1>1. /\ toDev # <<>> /\ toDev' = Tail(toDev) /\ taken' = Head(toDev).id
      /\ UNCHANGED <<toWorker, pendingTx, tcp, linkCloses, writes, closes>>
    BY DEF DeviceTakes, queues, socket, bounds
<1>2. toDev \in Seq(Datum) /\ taken \in Nat /\ writes \in Nat
    BY LineTypes
<1>3. /\ toDev' \in Seq(Datum) /\ Len(toDev') = Len(toDev) - 1 /\ Len(toDev) \in Nat
      /\ Head(toDev) = toDev[1] /\ toDev[1] \in Datum
      /\ \A i \in 1..(Len(toDev) - 1) : toDev'[i] = toDev[i + 1]
    BY <1>1, <1>2, Tailed
<1>4. PICK a, b \in 0..writes :
          /\ taken <= a /\ a <= b /\ Rising(toDev, taken, a) /\ Rising(pendingTx, a, b)
          /\ RisingWrites(toWorker, b, writes)
    BY LineTypes
<1>5. Rising(toDev', taken', a) /\ taken' <= a
    BY <1>1, <1>2, <1>3, <1>4, RisingLess
<1>6. taken' \in Nat
    BY <1>1, <1>3 DEF Datum
<1>7. InLine'
    BY <1>1, <1>4, <1>5 DEF InLine
<1>8. SinceClose'
    BY <1>1 DEF LineInv, SinceClose
<1>9. NoReplayAcrossClose'
  <2>1. \A i \in 1..Len(toDev) : toDev[i].closes >= linkCloses
      BY <1>2 DEF LineInv, NoReplayAcrossClose
  <2>2. \A i \in 1..Len(toDev') : toDev'[i].closes >= linkCloses
      BY <1>3, <2>1
  <2> QED
      BY <1>1, <1>3, <2>2 DEF NoReplayAcrossClose
<1>10. toDev' # <<>> => IsOpen(tcp')
    BY <1>1 DEF LineInv, IsOpen
<1> QED
    BY <1>1, <1>3, <1>6, <1>7, <1>8, <1>9, <1>10 DEF LineInv

\* Taken, written, held back and posted: the line of the frames, and the number
\* of closes each was posted under, survive every step.
LEMMA LineStep ==
    ASSUME LineInv, DialectInv, [Next]_vars
    PROVE  LineInv'
<1>0. txDialect \in Dialect /\ closes \in Nat /\ toWorker \in Seq(Requests)
    BY DEF DialectInv, LineInv
<1> DEFINE rest == UNCHANGED <<pendingTx, toDev, linkCloses, taken, tcp>>
<1>1. CASE Open
  <2> DEFINE m == Request("connect")
  <2>1. m \in Requests /\ ~IsWrite(m) /\ ClosesAt(m) = closes /\ ClosesPast(m) = closes
      BY <1>0 DEF Requests, IsWrite, ClosesAt, ClosesPast, Request
  <2>2. Post(<<m>>) /\ UNCHANGED <<writes, closes>> /\ rest
      BY <1>1 DEF Open, socket, device, history
  <2> HIDE DEF m
  <2>3. toWorker' = Append(toWorker, m)
      BY <1>0, <2>1, <2>2, OneMore DEF Post
  <2> QED
      BY <2>1, <2>2, <2>3, PostedOther
<1>2. CASE Close
  <2> DEFINE m == Request("close")
  <2>1. m \in Requests /\ ~IsWrite(m) /\ ClosesAt(m) = closes /\ ClosesPast(m) = closes + 1
      BY <1>0 DEF Requests, IsWrite, ClosesAt, ClosesPast, Request
  <2>2. Post(<<m>>) /\ closes' = closes + 1 /\ UNCHANGED writes /\ rest
      BY <1>2 DEF Close, socket, device, history
  <2> HIDE DEF m
  <2>3. toWorker' = Append(toWorker, m)
      BY <1>0, <2>1, <2>2, OneMore DEF Post
  <2> QED
      BY <2>1, <2>2, <2>3, PostedOther
<1>3. CASE Send
  <2> DEFINE m == WriteRequest(Data(writes + 1, "command"))
  <2>1. Post(<<m>>) /\ writes' = writes + 1 /\ UNCHANGED closes /\ rest
      BY <1>3 DEF Send, socket, device, history
  <2>2. m \in Requests
      BY <1>0, LineTypes DEF Requests, WriteRequest, Data, Datum
  <2>3. toWorker' = Append(toWorker, m)
      BY <1>0, <2>1, <2>2, OneMore DEF Post
  <2> QED
      BY <1>0, <2>1, <2>3, LineTypes, PostedFrame
<1>4. CASE StartScreenStream
    BY <1>0, <1>4, PostedPair DEF StartScreenStream, socket, device, history
<1>5. CASE StopScreenStream
    BY <1>0, <1>5, PostedPair DEF StopScreenStream, socket, device, history
<1>6. CASE HearConnected \/ HearDisconnected \/ HearFrame \/ ResetStores \/ PingLoads \/ PingStores
    BY <1>6, LineKept DEF HearConnected, HearDisconnected, HearFrame, ResetStores, PingLoads, PingStores,
                          queues, socket, device, bounds, history
<1>7. CASE ConnectToHost \/ DisconnectFromHost \/ ArmScreen \/ DisarmScreen \/ WriteData
    BY <1>7, LineConnects, LineCloses, LineArms, LineWrites
<1>8. CASE OnTcpConnected
    BY <1>8, LineFlushes
<1>9. CASE OnTcpError
  <2>1. /\ tcp = "dialing" /\ tcp' = "off"
        /\ UNCHANGED <<toWorker, pendingTx, toDev, writes, closes, linkCloses, taken>>
      BY <1>9 DEF OnTcpError, device, bounds, history
  <2> QED
      BY <2>1 DEF LineInv, InLine, SinceClose, NoReplayAcrossClose, IsOpen
<1>10. CASE OnTcpDisconnected
  <2>1. /\ tcp' = "off" /\ toDev' = <<>>
        /\ UNCHANGED <<toWorker, pendingTx, writes, closes, linkCloses, taken>>
      BY <1>10 DEF OnTcpDisconnected, bounds, history
  <2>2. \A a : Rising(toDev', taken, a)
      BY <2>1, RisingNone
  <2>3. InLine'
      BY <2>1, <2>2, LineTypes DEF InLine
  <2>4. NoReplayAcrossClose' /\ toDev' \in Seq(Datum)
      BY <2>1 DEF NoReplayAcrossClose
  <2> QED
      BY <2>1, <2>3, <2>4 DEF LineInv, SinceClose, IsOpen
<1>11. CASE OnTcpReadyRead \/ LatchStores \/ \E g \in grams : OnDatagram(g)
    BY <1>11, LineKept DEF OnTcpReadyRead, LatchStores, OnDatagram, queues, socket, device, bounds, history
<1>12. CASE DeviceTakes
    BY <1>12, LineTaken
<1>13. CASE DeviceStreams \/ DeviceReplies
    BY <1>13, LineKept DEF DeviceStreams, DeviceReplies, queues, socket, bounds, history
<1>14. CASE UNCHANGED vars
    BY <1>14, LineKept DEF vars, queues, socket, device, bounds, history
<1> QED
    BY <1>1, <1>2, <1>3, <1>4, <1>5, <1>6, <1>7, <1>8, <1>9, <1>10, <1>11, <1>12, <1>13, <1>14
    DEF Next, Gui, Worker, Device

-----------------------------------------------------------------------------
(* The theorems.                                                           *)

\* The close that waits for the connection is a flag.
CloseWaits == pendingClose \in BOOLEAN

\* Every step keeps it one.
LEMMA CloseStep ==
    ASSUME CloseWaits, [Next]_vars
    PROVE  CloseWaits'
<1>1. CASE Gui
  <2>1. ASSUME Posts PROVE UNCHANGED pendingClose
      BY <2>1 DEF Posts, Open, Close, Send, StartScreenStream, StopScreenStream, socket
  <2>2. ASSUME HearConnected \/ HearDisconnected \/ HearFrame \/ ResetStores \/ PingLoads \/ PingStores
        PROVE  UNCHANGED pendingClose
      BY <2>2 DEF HearConnected, HearDisconnected, HearFrame, ResetStores, PingLoads, PingStores, socket
  <2> QED
      BY <1>1, <2>1, <2>2 DEF Gui, Posts, CloseWaits
<1>2. CASE ConnectToHost \/ OnTcpConnected \/ OnTcpError
    BY <1>2 DEF ConnectToHost, OnTcpConnected, OnTcpError, CloseWaits
<1>3. CASE DisconnectFromHost
    BY <1>3 DEF DisconnectFromHost, CloseWaits
<1>4. CASE WriteData \/ ArmScreen \/ DisarmScreen \/ OnTcpDisconnected \/ OnTcpReadyRead \/ LatchStores
           \/ \E g \in grams : OnDatagram(g)
    BY <1>4 DEF WriteData, ArmScreen, DisarmScreen, OnTcpDisconnected, OnTcpReadyRead, LatchStores,
                OnDatagram, socket, CloseWaits
<1>5. CASE Device \/ UNCHANGED vars
    BY <1>5 DEF Device, DeviceTakes, DeviceStreams, DeviceReplies, vars, socket, CloseWaits
<1> QED
    BY <1>1, <1>2, <1>3, <1>4, <1>5 DEF Next, Worker

\* The inductive invariant: the line of the frames, what the GUI thread will have
\* heard, what the receiver latched, where the decoder is, who may hold the dialect.
WInv == LineInv /\ FacadeInv /\ ScreenInv /\ StreamInv /\ DialectInv /\ CloseWaits

\* The invariant holds initially and over every step.
LEMMA Initially ==
    ASSUME Init
    PROVE  WInv
<1>1. /\ toWorker = <<>> /\ pendingTx = <<>> /\ toDev = <<>> /\ fromWorker = <<>> /\ fromDev = <<>>
      /\ latch = <<>> /\ sent = <<>> /\ got = <<>> /\ codec = Reset /\ tcp = "off"
      /\ writes = 0 /\ closes = 0 /\ linkCloses = 0 /\ taken = 0 /\ replies = 0
      /\ streams = 0 /\ nextGram = 0 /\ grams = {} /\ epoch = 0 /\ lastSeq = -1 /\ shown = NoGram
      /\ txDialect = "Correct" /\ flip = "no" /\ speaks \in Dialect
      /\ up = FALSE /\ pendingClose = FALSE /\ screenActive = FALSE /\ streaming = FALSE
      /\ locked = FALSE /\ resetting = FALSE /\ raced = FALSE /\ twin = FALSE
    BY DEF Init
<1>2. LineInv
  <2>1. Rising(<<>>, 0, 0) /\ RisingWrites(<<>>, 0, 0)
      BY DEF Rising, RisingWrites
  <2>2. InLine
      BY <1>1, <2>1 DEF InLine
  <2>3. SinceClose
      BY <1>1 DEF SinceClose, Turns
  <2> QED
      BY <1>1, <2>2, <2>3, WifiAssumption DEF LineInv, NoReplayAcrossClose
<1>3. FacadeInv
  <2>1. ~IsOpen(tcp) /\ Len(fromWorker) = 0 /\ fromWorker \in Seq(Signals)
      BY <1>1 DEF IsOpen
  <2>2. ~up /\ up \in BOOLEAN
      BY <1>1
  <2>3. \A i \in 1..Len(fromWorker) : fromWorker[i].kind = "frame"
      BY <2>1
  <2> QED
      BY <2>1, <2>2, <2>3 DEF FacadeInv, LastSaid
<1>4. ScreenInv
  <2>1. MaxStreams \in Nat /\ MaxGrams \in Nat
      BY WifiAssumption
  <2>2. Latched(epoch, lastSeq, shown)
      BY <1>1 DEF Latched
  <2>3. screenActive \in BOOLEAN /\ streaming \in BOOLEAN /\ ~streaming
      BY <1>1
  <2>4. streams \in 0..MaxStreams /\ nextGram \in 0..MaxGrams /\ grams \subseteq Gram
      BY <1>1, <2>1
  <2> QED
      BY <2>2, <2>3, <2>4 DEF ScreenInv
<1>5. StreamInv
  <2>1. Reset \in Decoder
      BY Shapes DEF IsWaiting
  <2> QED
      BY <1>1, <2>1 DEF StreamInv, IsOpen
<1>6. DialectInv
  <2>1. ~locked /\ ~resetting /\ ~raced /\ ~twin
      BY <1>1
  <2>2. locked \in BOOLEAN /\ resetting \in BOOLEAN /\ raced \in BOOLEAN /\ twin \in BOOLEAN
      BY <1>1
  <2>3. txDialect \in Dialect /\ flip \in Dialect \cup {"no"} /\ flip = "no" /\ speaks \in Dialect
      BY <1>1 DEF Dialect
  <2>4. latch = <<>> /\ latch \in Seq([frame : Frame, dialect : Dialect]) /\ Len(latch) < 2
      BY <1>1
  <2> QED
      BY <2>1, <2>2, <2>3, <2>4 DEF DialectInv, OnlyRaceOrTwinMislatches, GuiIdle
<1>7. CloseWaits
    BY <1>1 DEF CloseWaits
<1> QED
    BY <1>2, <1>3, <1>4, <1>5, <1>6, <1>7 DEF WInv

LEMMA Inductive ==
    ASSUME WInv, [Next]_vars
    PROVE  WInv'
BY LineStep, FacadeStep, ScreenStep, StreamStep, DialectStep, CloseStep DEF WInv

\* The five parts and the pending close hold in every state, over any steps of both
\* threads, the sockets and the device.
THEOREM Invariance == Spec => []WInv
BY Initially, Inductive, PTL DEF Spec

\* TypeOK of every link: the held-back frames fit their buffer (kMaxPendingTx), the
\* latched number is a u16, and no byte takes rpc::FrameCodec out of its states or
\* over the length it accepted.
THEOREM Typed == Spec => []TypeOK
<1>1. ASSUME WInv PROVE TypeOK
  <2>1. tcp \in {"off", "dialing", "on", "closing"} /\ Len(pendingTx) <= MaxPending
      BY <1>1 DEF WInv, LineInv
  <2>2. up \in BOOLEAN /\ pendingClose \in BOOLEAN /\ screenActive \in BOOLEAN /\ streaming \in BOOLEAN
      BY <1>1 DEF WInv, FacadeInv, ScreenInv, CloseWaits
  <2>3. codec \in Decoder
      BY <1>1 DEF WInv, StreamInv
  <2>4. epoch \in 0..MaxStreams /\ lastSeq \in -1..(SeqRange - 1)
    <3>1. Latched(epoch, lastSeq, shown)
        BY <1>1 DEF WInv, ScreenInv
    <3>2. MaxStreams \in Nat /\ MaxGrams \in Nat
        BY WifiAssumption
    <3>3. CASE epoch = 0 /\ lastSeq = -1
        BY <3>2, <3>3, RangeFacts
    <3>4. CASE shown \in Gram /\ epoch = shown.epoch /\ lastSeq = FrameSeq(shown)
      <4>1. epoch \in 0..MaxStreams /\ shown.n \in Nat
          BY <3>2, <3>4 DEF Gram
      <4>2. lastSeq = (FirstSeq + shown.n) % SeqRange
          BY <3>4 DEF FrameSeq
      <4>3. lastSeq \in 0..(SeqRange - 1)
          BY <4>1, <4>2, RangeFacts
      <4> QED
          BY <4>1, <4>3, RangeFacts
    <3> QED
        BY <3>1, <3>3, <3>4 DEF Latched
  <2> QED
      BY <2>1, <2>2, <2>3, <2>4 DEF TypeOK
<1> QED
    BY <1>1, Invariance, PTL

\* FramesIntact for all frames, all CRC functions and all cuts: what FrameCodec brings
\* out of a connection is what the device sent over it, in its order, because
\* onTcpConnected() resets the codec before the first byte.
THEOREM DecodedAsSent == Spec => []FramesIntact
<1>1. ASSUME WInv, tcp = "on" PROVE IsPrefix(got, sent)
  <2>1. Underway(speaks, sent, got, fromDev, codec) /\ got \in Seq(Frame) /\ sent \in Seq(Frame)
        /\ fromDev \in Seq(Seq(Byte))
      BY <1>1 DEF WInv, StreamInv, IsOpen
  <2>2. /\ Len(got) \in Nat /\ Len(sent) \in Nat /\ Len(fromDev) \in Nat
        /\ Len(sent) = Len(got) + Len(fromDev)
        /\ \A i \in 1..Len(got) : got[i] = sent[i]
    <3>1. Len(got) \in Nat /\ Len(sent) \in Nat /\ Len(fromDev) \in Nat
        BY <2>1
    <3> QED
        BY <2>1, <3>1 DEF Underway
  <2>3. Len(got) <= Len(sent)
      BY <2>2
  <2>4. SubSeq(got, 1, Len(got)) = SubSeq(sent, 1, Len(got))
      BY <2>1, <2>2, <2>3
  <2> QED
      BY <2>3, <2>4 DEF IsPrefix
<1>2. WInv => FramesIntact
    BY <1>1 DEF FramesIntact
<1> QED
    BY <1>2, Invariance, PTL

\* NoReplayAcrossClose: disconnectFromHost() clears m_pendingTx, so that no flush of a
\* later connection writes a frame from before the close.
THEOREM ClosedMeansForgotten == Spec => []NoReplayAcrossClose
<1>1. WInv => NoReplayAcrossClose
    BY DEF WInv, LineInv
<1> QED
    BY <1>1, Invariance, PTL

\* SentInOrder: writeData() and flushPending() keep the frames in the order M1Device
\* sent them in, across held-back frames, aborts and reconnects.
THEOREM TakenInOrder == Spec => []SentInOrder
<1>1. ASSUME WInv PROVE SentInOrder
  <2>1. PICK a \in 0..writes : Rising(toDev, taken, a)
      BY <1>1, LineTypes DEF WInv
  <2>2. toDev \in Seq(Datum)
      BY <1>1, LineTypes DEF WInv
  <2>3. DOMAIN toDev = 1..Len(toDev)
      BY <2>2
  <2>4. taken \in Nat /\ \A i \in 1..Len(toDev) : toDev[i].id \in Nat
      BY <1>1, <2>2, LineTypes, NumbersOf DEF WInv
  <2> QED
      BY <2>1, <2>3, <2>4 DEF SentInOrder, Rising
<1> QED
    BY <1>1, Invariance, PTL

\* FacadeAgrees: every change of the worker's socket is announced, the abort of
\* connectToHost() too, and the last announcement is the true one.
THEOREM FacadeIsRight == Spec => []FacadeAgrees
<1>1. WInv => FacadeAgrees
    BY DEF WInv, FacadeInv, LastSaid, FacadeAgrees, IsOpen
<1> QED
    BY <1>1, Invariance, PTL

\* OnlyRaceOrTwinMislatches: crc16ValidateRx() latches the dialect of the device unless
\* the frame is the same in both or a store of the GUI thread falls between.
THEOREM LatchIsRight == Spec => []OnlyRaceOrTwinMislatches
<1>1. WInv => OnlyRaceOrTwinMislatches
    BY DEF WInv, DialectInv
<1> QED
    BY <1>1, Invariance, PTL

\* Of two numbers less than half the range apart onUdpReadyRead() knows the newer one,
\* in streams of any length.
THEOREM PictureNearby == Spec => ScreenFollowsNear
<1> DEFINE A == \A g \in grams :
                    (/\ OnDatagram(g) /\ shown # NoGram
                     /\ g.n - shown.n < SeqRange \div 2 /\ shown.n - g.n < SeqRange \div 2) =>
                        /\ g.epoch = shown.epoch
                        /\ shown' = IF g.n > shown.n THEN g ELSE shown
<1>1. WInv /\ [Next]_vars => [A]_vars
    BY ShowsNewer DEF WInv
<1> QED
    BY <1>1, Invariance, PTL DEF Spec, ScreenFollowsNear

\* ScreenFollowsStream, for streams of at most half the range of frame_seq: no late or
\* doubled datagram takes the picture back, no newer one is refused.
THEOREM PictureNeverGoesBack ==
    ASSUME MaxGrams <= SeqRange \div 2
    PROVE  Spec => ScreenFollowsStream
<1> DEFINE A == \A g \in grams :
                    OnDatagram(g) /\ shown # NoGram =>
                        /\ g.epoch = shown.epoch
                        /\ shown' = IF g.n > shown.n THEN g ELSE shown
<1>1. ASSUME WInv, NEW g \in grams, OnDatagram(g), shown # NoGram
      PROVE  g.epoch = shown.epoch /\ shown' = IF g.n > shown.n THEN g ELSE shown
  <2>1. g \in Gram /\ shown \in Gram
      BY <1>1 DEF WInv, ScreenInv, Latched
  <2>2. MaxGrams \in Nat /\ SeqRange \div 2 \in Nat
      BY WifiAssumption
  <2>3. g.n \in 0..(MaxGrams - 1) /\ shown.n \in 0..(MaxGrams - 1)
      BY <2>1 DEF Gram
  <2> DEFINE H == SeqRange \div 2
  <2>4. MaxGrams <= H /\ H \in Nat
      BY <2>2
  <2> HIDE DEF H
  <2>5. g.n - shown.n < H /\ shown.n - g.n < H
      BY <2>2, <2>3, <2>4
  <2> QED
      BY <1>1, <2>5, ShowsNewer DEF WInv, H
<1>2. WInv /\ [Next]_vars => [A]_vars
    BY <1>1
<1> QED
    BY <1>2, Invariance, PTL DEF Spec, ScreenFollowsStream
=============================================================================
