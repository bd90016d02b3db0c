------------------------- MODULE MpegTsFrame_proofs -------------------------
(***************************************************************************)
(* Proofs about the packetiser for frames of any size.  The inductive      *)
(* invariant is TypeOK, the progress of the loop and the properties.       *)
(*                                                                         *)
(* The first part is about the clock and the time stamps read back, for    *)
(* bytes and words of any size: division with remainder, digits of a       *)
(* number, and a clock that turns.                                         *)
(***************************************************************************)
EXTENDS MpegTsFrame, TLAPS

LEMMA Division ==
  ASSUME NEW t \in Int, NEW c \in Nat, c > 0
  PROVE  /\ t \div c \in Int /\ (t % c) \in Int
         /\ 0 <= (t % c) /\ (t % c) < c
         /\ t = c * (t \div c) + (t % c)
<1>1. t \div c \in Int /\ (t % c) \in Int
  OBVIOUS
<1>2. 0 <= (t % c) /\ (t % c) < c
  OBVIOUS
<1>3. t = c * (t \div c) + (t % c)
  OBVIOUS
<1> QED
  BY <1>1, <1>2, <1>3

LEMMA Multiple ==
  ASSUME NEW c \in Nat, c > 0, NEW k \in Int, k >= 1
  PROVE  c * k >= c
<1>1. c * (k - 1) >= 0
  <2>1. PICK j \in Nat : j = k - 1
    OBVIOUS
  <2>2. c * j >= 0
    OBVIOUS
  <2> QED
    BY <2>1, <2>2
<1>2. c * k = c * (k - 1) + c
  OBVIOUS
<1> QED
  BY <1>1, <1>2

(* A number has one quotient and one remainder. *)
LEMMA Unique ==
  ASSUME NEW c \in Nat, c > 0, NEW q \in Int, NEW p \in Int, NEW r \in Int, NEW s \in Int,
         0 <= r, r < c, 0 <= s, s < c, c * q + r = c * p + s
  PROVE  q = p /\ r = s
<1>1. c * (q - p) = s - r
  OBVIOUS
<1>2. ~ q - p >= 1
  BY <1>1, Multiple
<1>3. c * (p - q) = r - s
  OBVIOUS
<1>4. ~ p - q >= 1
  BY <1>3, Multiple
<1>5. q = p
  BY <1>2, <1>4
<1> QED
  BY <1>5

LEMMA Remainder ==
  ASSUME NEW t \in Int, NEW c \in Nat, c > 0, NEW q \in Int, NEW r \in Int,
         0 <= r, r < c, t = c * q + r
  PROVE  (t % c) = r
<1>1. t = c * (t \div c) + (t % c) /\ t \div c \in Int /\ (t % c) \in Int /\ 0 <= (t % c) /\ (t % c) < c
  BY Division
<1>2. c * (t \div c) + (t % c) = c * q + r
  BY <1>1
<1> HIDE <1>2
<1> QED
  BY <1>1, <1>2, Unique

(* Whole turns make no difference. *)
LEMMA Turned ==
  ASSUME NEW t \in Int, NEW c \in Nat, c > 0, NEW k \in Int
  PROVE  (t + c * k) % c = (t % c)
<1>1. t = c * (t \div c) + (t % c) /\ t \div c \in Int /\ (t % c) \in Int /\ 0 <= (t % c) /\ (t % c) < c
  BY Division
<1>2. t + c * k = c * (t \div c + k) + (t % c)
  BY <1>1
<1>3. t + c * k \in Int /\ t \div c + k \in Int
  BY <1>1
<1> QED
  BY <1>1, <1>2, <1>3, Remainder

(* The last digit of a number whose other digits count n each. *)
LEMMA Digit ==
  ASSUME NEW t \in Int, NEW n \in Nat, NEW m \in Nat, n > 0, m > 0
  PROVE  t % (n * m) = n * ((t \div n) % m) + (t % n)
<1> DEFINE q == t \div n
           r == t % n
           d == q % m
           h == q \div m
<1>1. t = n * q + r /\ q \in Int /\ r \in Int /\ 0 <= r /\ r < n
  BY Division
<1>2. q = m * h + d /\ h \in Int /\ d \in Int /\ 0 <= d /\ d < m
  BY <1>1, Division
<1> HIDE DEF q, r, d, h
<1>3. t = (n * m) * h + (n * d + r)
  <2>1. n * q = n * (m * h) + n * d
    BY <1>2
  <2>2. n * (m * h) = (n * m) * h
    BY <1>2
  <2> QED
    BY <1>1, <1>2, <2>1, <2>2
<1>4. 0 <= n * d + r /\ n * d + r < n * m
  <2>1. n * d >= 0
    BY <1>2
  <2>2. n * (m - d) >= n
    BY <1>2, Multiple
  <2>3. n * (m - d) = n * m - n * d
    BY <1>2
  <2> QED
    BY <1>1, <1>2, <2>1, <2>2, <2>3
<1>5. n * m \in Nat /\ n * m > 0
  OBVIOUS
<1>6. n * d + r \in Int
  BY <1>1, <1>2
<1>7. t % (n * m) = n * d + r
  BY <1>2, <1>3, <1>4, <1>5, <1>6, Remainder
<1> QED
  BY <1>7 DEF d, q, r

LEMMA ClockPositive == Clock \in Nat /\ Clock > 0 /\ U64 \in Nat /\ U64 > 0
<1>1. Word * Word \in Nat /\ Word * Word > 0
  BY ClockAssumption
<1>2. Clock = 8 * (Word * Word)
  BY ClockAssumption DEF Clock
<1>3. Clock \in Nat /\ Clock > 0
  BY <1>1, <1>2
<1>4. Turns * Clock \in Nat /\ Turns * Clock > 0
  BY <1>3, ClockAssumption
<1> QED
  BY <1>3, <1>4 DEF U64

(* The three pieces of a time stamp. *)
LEMMA PtsReadsBack ==
  ASSUME NEW t \in Int
  PROVE  ReadPts(WritePts(t)) = t % Clock
<1>1. Word \in Nat /\ Word > 0 /\ Word * Word \in Nat /\ Word * Word > 0
  BY ClockAssumption
<1>2. t % (Word * Word) = Word * ((t \div Word) % Word) + (t % Word)
  BY <1>1, Digit
<1>3. t % (Word * Word * 8) = Word * Word * ((t \div (Word * Word)) % 8) + (t % (Word * Word))
  BY <1>1, Digit
<1>4. Clock = Word * Word * 8
  BY <1>1 DEF Clock
<1>5. /\ (t \div Word) % Word \in Int /\ (t \div (Word * Word)) % 8 \in Int /\ t % Word \in Int
  BY <1>1, Division
<1> QED
  BY <1>1, <1>2, <1>3, <1>4, <1>5 DEF ReadPts, WritePts

(* The four bytes of the clock and the bit behind them. *)
LEMMA PcrReadsBack ==
  ASSUME NEW t \in Int
  PROVE  ReadPcr(WritePcr(t)) = t % Clock
<1> DEFINE n1 == 2 * Byte
           n2 == 2 * Byte * Byte
           n3 == 2 * Byte * Byte * Byte
<1>1. /\ Byte \in Nat /\ Byte > 0 /\ Word \in Nat /\ Byte * Byte = 2 * Word
      /\ n1 \in Nat /\ n1 > 0
  BY ClockAssumption
<1>2. n2 = n1 * Byte /\ n2 \in Nat /\ n2 > 0
  BY <1>1
<1>3. n3 = n2 * Byte /\ n3 \in Nat /\ n3 > 0
  BY <1>1, <1>2
<1>4. Clock = n3 * Byte
  <2>1. n3 * Byte = 2 * (Byte * Byte) * (Byte * Byte)
    BY <1>1
  <2>2. n3 * Byte = 2 * (2 * Word) * (2 * Word)
    BY <2>1, <1>1
  <2> QED
    BY <2>2, <1>1 DEF Clock
<1> HIDE DEF n1, n2, n3
<1>5. t % n1 = 2 * ((t \div 2) % Byte) + (t % 2)
  <2>1. n1 = 2 * Byte
    BY DEF n1
  <2> QED
    BY <1>1, <2>1, Digit
<1>6. t % n2 = n1 * ((t \div n1) % Byte) + (t % n1)
  BY <1>1, <1>2, Digit
<1>7. t % n3 = n2 * ((t \div n2) % Byte) + (t % n2)
  BY <1>1, <1>2, <1>3, Digit
<1>8. t % Clock = n3 * ((t \div n3) % Byte) + (t % n3)
  BY <1>1, <1>3, <1>4, Digit
<1> DEFINE b1 == (t \div n3) % Byte
           b2 == (t \div n2) % Byte
           b3 == (t \div n1) % Byte
           b4 == (t \div 2) % Byte
           b5 == t % 2
<1>9. WritePcr(t) = <<b1, b2, b3, b4, b5>>
  BY DEF WritePcr, n1, n2, n3
<1>10. ReadPcr(<<b1, b2, b3, b4, b5>>) = n3 * b1 + n2 * b2 + n1 * b3 + 2 * b4 + b5
  BY DEF ReadPcr, n1, n2, n3
<1>11. b1 \in Int /\ b2 \in Int /\ b3 \in Int /\ b4 \in Int /\ b5 \in Int
  BY <1>1, <1>2, <1>3, Division
<1>12. n3 * b1 \in Int /\ n2 * b2 \in Int /\ n1 * b3 \in Int /\ 2 * b4 \in Int
  BY <1>1, <1>2, <1>3, <1>11
<1>13. t % Clock = n3 * b1 + (n2 * b2 + (n1 * b3 + (2 * b4 + b5)))
  BY <1>5, <1>6, <1>7, <1>8
<1> HIDE DEF b1, b2, b3, b4, b5
<1> QED
  BY <1>9, <1>10, <1>12, <1>11, <1>13

-----------------------------------------------------------------------------
(* A remainder may be taken before a sum. *)
LEMMA Offset ==
  ASSUME NEW t \in Int, NEW d \in Int, NEW c \in Nat, c > 0
  PROVE  ((t % c) + d) % c = (t + d) % c
<1>1. t = c * (t \div c) + (t % c) /\ t \div c \in Int /\ t % c \in Int
  BY Division
<1> DEFINE q == t \div c
           r == t % c
<1>2. t + d = (r + d) + c * q
  BY <1>1
<1>3. r + d \in Int /\ q \in Int
  BY <1>1
<1> HIDE DEF q, r
<1>4. ((r + d) + c * q) % c = (r + d) % c
  BY <1>3, Turned
<1> QED
  BY <1>2, <1>4 DEF r

(* 64 bits are whole turns. *)
LEMMA Wrapped ==
  ASSUME NEW t \in Int
  PROVE  t % U64 \in Int /\ (t % U64) % Clock = t % Clock
<1>1. Clock \in Nat /\ Clock > 0 /\ U64 \in Nat /\ U64 > 0 /\ Turns \in Nat
  BY ClockPositive, ClockAssumption
<1> DEFINE q == t \div U64
           r == t % U64
<1>2. t = U64 * q + r /\ q \in Int /\ r \in Int
  BY <1>1, Division
<1> HIDE DEF q, r
<1>3. U64 * q = Clock * (Turns * q)
  BY <1>1, <1>2 DEF U64
<1>4. Turns * q \in Int
  BY <1>1, <1>2
<1>5. t = r + Clock * (Turns * q)
  BY <1>1, <1>2, <1>3, <1>4
<1>6. (r + Clock * (Turns * q)) % Clock = r % Clock
  BY <1>1, <1>2, <1>4, Turned
<1> QED
  BY <1>2, <1>5, <1>6 DEF r

(* What a frame's stamps say of its times. *)
LEMMA StampsReadBack ==
  ASSUME NEW f, f.dts \in Nat, f.cts \in Nat
  PROVE  LET s == StampsOf(f)
             decode == DecodingTime(s)
         IN  /\ decode = (f.dts + Delay) % Clock
             /\ ReadPts(s.pts) = (decode + f.cts) % Clock
             /\ f.key = 1 => (ReadPcr(s.pcr) + 2 * Delay) % Clock = decode
<1> DEFINE s == StampsOf(f)
           decode == DecodingTime(s)
           d == f.dts + Delay
<1>1. /\ Clock \in Nat /\ Clock > 0 /\ Delay \in Nat
      /\ d \in Int /\ f.cts \in Int /\ f.dts + f.cts + Delay \in Int /\ f.dts - Delay \in Int
  BY ClockPositive, ClockAssumption
<1>2. ReadPts(s.pts) = (f.dts + f.cts + Delay) % Clock
  BY <1>1, Wrapped, PtsReadsBack DEF StampsOf
<1>3. decode = d % Clock
  <2>1. CASE f.cts = 0
    <3>1. decode = ReadPts(s.pts)
      BY <2>1 DEF DecodingTime, StampsOf
    <3>2. f.dts + f.cts + Delay = d
      BY <2>1, <1>1
    <3> QED
      BY <3>1, <3>2, <1>2
  <2>2. CASE f.cts # 0
    <3>1. s.dts = WritePts(d % U64)
      BY <2>2 DEF StampsOf
    <3>2. s.dts # <<>>
      BY <3>1 DEF WritePts
    <3>3. decode = ReadPts(WritePts(d % U64))
      BY <3>1, <3>2 DEF DecodingTime
    <3> HIDE DEF d, decode
    <3> QED
      BY <3>3, <1>1, Wrapped, PtsReadsBack
  <2> QED
    BY <2>1, <2>2
<1>4. ReadPts(s.pts) = (decode + f.cts) % Clock
  <2>1. d + f.cts = f.dts + f.cts + Delay
    BY <1>1
  <2>2. ((d % Clock) + f.cts) % Clock = (d + f.cts) % Clock
    <3> HIDE DEF d
    <3> QED
      BY <1>1, Offset, Zenon
  <2> HIDE DEF d, decode, s
  <2> QED
    BY <1>2, <1>3, <2>1, <2>2
<1>5. ASSUME f.key = 1 PROVE (ReadPcr(s.pcr) + 2 * Delay) % Clock = decode
  <2>1. PICK t \in Int : t = f.dts - Delay
    BY <1>1
  <2>2. s.pcr = WritePcr(t % U64)
    BY <1>5, <2>1 DEF StampsOf, ClockOf
  <2> HIDE DEF s
  <2>3. ReadPcr(WritePcr(t % U64)) = t % Clock
    BY Wrapped, PcrReadsBack
  <2>4. ((t % Clock) + 2 * Delay) % Clock = (t + 2 * Delay) % Clock
    <3>1. 2 * Delay \in Int
      BY <1>1
    <3> QED
      BY <3>1, <1>1, Offset, Zenon
  <2>5. t + 2 * Delay = d
    BY <1>1, <2>1
  <2> HIDE DEF d, decode
  <2> QED
    BY <1>3, <2>2, <2>3, <2>4, <2>5
<1> QED
  BY <1>3, <1>4, <1>5

-----------------------------------------------------------------------------

(* The room for payload is what the four possible layouts leave. *)
LEMMA BodySizes ==
  ASSUME NEW f \in FrameType
  PROVE  /\ BodySize(f, 1) \in {157, 162, 165, 170}
         /\ BodySize(f, 0) = 184
  BY DEF FrameType, BodySize, PacketSize, ClockBytes, PesHeaderBytes, StampBytes

(* Arithmetic of the loop: a first packet of b bytes and k - 1 more of 184. *)
LEMMA PacketsCovering ==
  ASSUME NEW k \in Nat, NEW b \in Nat, NEW s \in Nat,
         k >= 2, b + 184 * (k - 2) < s, s <= b + 184 * (k - 1)
  PROVE  s > b /\ (s - b + 183) \div 184 = k - 1
<1>1. s > b
  OBVIOUS
<1>2. PICK n \in Nat : n = s - b + 183
  BY <1>1
<1>3. PICK q \in Nat : q = k - 1
  OBVIOUS
<1>4. 184 * q <= n /\ n < 184 * q + 184
  BY <1>2, <1>3
<1>5. n \div 184 = q
  BY <1>4
<1> QED
  BY <1>1, <1>2, <1>3, <1>5

LEMMA NextReach ==
  ASSUME NEW k \in Nat, NEW b \in Nat, NEW s \in Nat, NEW p \in Nat, NEW n \in Nat,
         k >= 1, p = b + 184 * (k - 1), p < s,
         n = IF 184 <= s - p THEN 184 ELSE s - p
  PROVE  /\ p + n = IF b + 184 * k <= s THEN b + 184 * k ELSE s
         /\ b + 184 * (k - 1) < s
  OBVIOUS

(* One packet: it is well formed, a demultiplexer reads back the slice,    *)
(* and the slice is the body or what is left of the frame.                 *)
LEMMA PacketLayout ==
  ASSUME NEW f \in FrameType, NEW fst \in {0, 1}, NEW from \in Nat, NEW c \in Nat,
         from < f.size
  PROVE  LET p == PacketOf(f, fst, from, c)
         IN  /\ p \in Packet /\ FieldsFit(p)
             /\ Demuxed(p) = p.to - p.from
             /\ p.from = from
             /\ p.to = from + Carried(f, fst, from)
             /\ p.start = fst
             /\ p.cc = c % 16
             /\ fst = 1 => p.pes = 9 + StampBytes(f) /\ p.pes_len = PesLength(f)
<1> DEFINE body  == BodySize(f, fst)
           left  == f.size - from
           stuff == Stuffing(f, fst, from)
<1>1. /\ left \in Nat /\ left > 0
      /\ f.size \in Nat /\ f.key \in {0, 1} /\ f.cts \in Nat
  BY DEF FrameType
<1>2. body \in {157, 162, 165, 170, 184}
  BY BodySizes
<1>3. Carried(f, fst, from) \in 1 .. 184 /\ stuff \in 0 .. 183
  BY <1>1, <1>2 DEF Carried, Stuffing
<1>4. stuff = body - Carried(f, fst, from)
  BY <1>1, <1>2 DEF Carried, Stuffing
<1>5. StampBytes(f) \in {5, 10}
  BY DEF StampBytes
<1>6. body = 184 - ClockBytes(f, fst) - PesHeaderBytes(f, fst)
  BY <1>5 DEF BodySize, PacketSize, ClockBytes, PesHeaderBytes
<1>7. PesLength(f) \in Nat /\ PesLength(f) < 65536
  BY <1>1, <1>5 DEF PesLength
<1>8. AdaptationLength(f, fst, stuff) \in Nat /\ AdaptationLength(f, fst, stuff) < 184
  BY <1>1, <1>3, <1>4, <1>5, <1>6 DEF AdaptationLength, ClockBytes, PesHeaderBytes
<1>9. PesHeaderBytes(f, fst) \in {0, 14, 19}
  BY <1>5 DEF PesHeaderBytes
<1>10. c % 16 \in Nat /\ c % 16 < 16
  OBVIOUS
<1>11. PacketOf(f, fst, from, c) \in Packet /\ FieldsFit(PacketOf(f, fst, from, c))
  BY <1>1, <1>3, <1>7, <1>8, <1>9, <1>10 DEF PacketOf, Packet, FieldsFit
<1>12. Demuxed(PacketOf(f, fst, from, c)) = Carried(f, fst, from)
  BY <1>1, <1>3, <1>4, <1>5, <1>6
     DEF Demuxed, PacketOf, PacketSize, AdaptationLength, ClockBytes, PesHeaderBytes
<1>13. (from + Carried(f, fst, from)) - from = Carried(f, fst, from)
  BY <1>3
<1> QED
  BY <1>11, <1>12, <1>13 DEF PacketOf, PesHeaderBytes

-----------------------------------------------------------------------------
PesFirst == packets # <<>> =>
  packets[1].pes = 9 + StampBytes(frame) /\ packets[1].pes_len = PesLength(frame)

StampsFirst == stamps = IF packets = <<>> THEN NoStamps ELSE StampsOf(frame)

IInv == /\ TypeOK /\ LoopProgress /\ PacketsTile /\ SlicesDemux
        /\ \A i \in 1 .. Len(packets) : packets[i].cc = (cc0 + i) % 16
        /\ cc = cc0 + Len(packets)
        /\ PesFirst /\ StampsFirst

LEMMA InitIInv == Init => IInv
<1> SUFFICES ASSUME Init PROVE IInv
  OBVIOUS
<1>1. TypeOK
  BY DEF Init, TypeOK, NoFrame, FrameType
<1>2. Len(packets) = 0 /\ packets = <<>>
  BY DEF Init
<1> QED
  BY <1>1, <1>2 DEF Init, IInv, LoopProgress, PacketsTile, SlicesDemux, PesFirst, StampsFirst

(* Writing a packet keeps the invariant. *)
LEMMA WriteKeepsIInv ==
  ASSUME IInv, WritePacket
  PROVE  IInv'
<1> DEFINE p == PacketOf(frame, first, pos, cc + 1)
           k == Len(packets)
<1>1. /\ frame \in FrameType /\ frame.size \in Nat /\ pos \in Nat /\ first \in {0, 1}
      /\ cc \in Nat /\ cc0 \in Nat /\ k \in Nat /\ packets \in Seq(Packet)
      /\ pos < frame.size
  BY DEF IInv, TypeOK, WritePacket, FrameType
<1>2. /\ packets' = Append(packets, p) /\ Len(packets') = k + 1
      /\ packets'[k + 1] = p
      /\ \A i \in 1 .. k : packets'[i] = packets[i]
      /\ packets' # <<>>
  BY <1>1 DEF WritePacket
<1>3. /\ p \in Packet /\ FieldsFit(p) /\ Demuxed(p) = p.to - p.from
      /\ p.from = pos /\ p.to = pos + Carried(frame, first, pos)
      /\ p.start = first /\ p.cc = (cc + 1) % 16
      /\ first = 1 => p.pes = 9 + StampBytes(frame) /\ p.pes_len = PesLength(frame)
  BY <1>1, PacketLayout
<1>4. /\ BodySize(frame, 1) \in {157, 162, 165, 170}
      /\ BodySize(frame, 0) = 184
  BY <1>1, BodySizes
<1>5. /\ Carried(frame, first, pos) \in 1 .. (frame.size - pos)
      /\ Carried(frame, first, pos) <= BodySize(frame, first)
      /\ Carried(frame, first, pos) # BodySize(frame, first)
           => Carried(frame, first, pos) = frame.size - pos
  BY <1>1, <1>4 DEF Carried
<1>n. /\ k \in Nat /\ pos \in Nat /\ frame.size \in Nat /\ pos < frame.size
      /\ BodySize(frame, 1) \in Nat
  BY <1>1, <1>4
<1>6. /\ frame' = frame /\ cc0' = cc0 /\ pc' = pc /\ cc' = cc + 1
      /\ first' = 0 /\ pos' = pos + Carried(frame, first, pos)
  BY DEF WritePacket
<1>7. TypeOK'
  <2>1. packets' \in Seq(Packet)
    BY <1>1, <1>2, <1>3
  <2>2. ASSUME NEW i \in 1 .. (k + 1) PROVE FieldsFit(packets'[i])
    <3>1. CASE i \in 1 .. k
      BY <3>1, <1>2 DEF IInv, TypeOK
    <3>2. CASE i = k + 1
      BY <3>2, <1>2, <1>3
    <3> QED
      BY <3>1, <3>2, <1>1
  <2>3. /\ pos' \in 0 .. frame.size /\ first' \in {0, 1} /\ cc' \in Nat
    <3> HIDE DEF p, k
    <3> QED
      BY <1>n, <1>5, <1>6, <1>1
  <2>4. \A i \in 1 .. Len(packets') : FieldsFit(packets'[i])
    BY <2>2, <1>2
  <2>5. pc' \in {"idle", "writing"} /\ cc0' \in Nat /\ frame' \in FrameType
    BY <1>1, <1>6 DEF WritePacket
  <2>6. pos' \in 0 .. frame'.size
    BY <2>3, <1>6
  <2> QED
    BY <2>1, <2>3, <2>4, <2>5, <2>6 DEF TypeOK
<1>8. LoopProgress'
  <2>1. first = IF k = 0 THEN 1 ELSE 0
    BY <1>1 DEF IInv, LoopProgress
  <2>2. CASE k = 0
    <3>1. pos = 0 /\ first = 1
      BY <2>1, <2>2, <1>1 DEF IInv, PacketsTile
    <3> QED
      BY <3>1, <2>2, <1>1, <1>2, <1>4, <1>5, <1>6 DEF LoopProgress
  <2>3. CASE k >= 1
    <3>1. first = 0
      BY <2>1, <2>3, <1>1
    <3>2. pos = BodySize(frame, 1) + 184 * (k - 1)
      BY <2>3, <1>1, <1>4 DEF IInv, LoopProgress
    <3>3. BodySize(frame, 1)' = BodySize(frame, 1)
      BY <1>6
    <3>4. DEFINE B == BodySize(frame, 1)
    <3>5. /\ pos' = IF B + 184 * k <= frame.size THEN B + 184 * k ELSE frame.size
          /\ B + 184 * (k - 1) < frame.size
      <4>1. PICK n \in Nat : /\ n = Carried(frame, first, pos)
                             /\ n = IF 184 <= frame.size - pos THEN 184 ELSE frame.size - pos
        BY <3>1, <1>n, <1>4 DEF Carried
      <4>2. pos' = pos + n
        BY <4>1, <1>6
      <4> HIDE DEF k, B
      <4> QED
        BY <4>1, <4>2, <3>2, <2>3, <1>n, NextReach DEF B
    <3>6. (k + 1) - 1 = k /\ (B + 184 * k) - 184 = B + 184 * (k - 1)
      BY <1>1, <1>4
    <3> HIDE DEF B
    <3> QED
      BY <3>3, <3>5, <3>6, <2>3, <1>1, <1>2, <1>6 DEF LoopProgress, B
  <2> QED
    BY <2>2, <2>3, <1>1
<1>9. PacketsTile'
  <2>1. pos = IF k = 0 THEN 0 ELSE packets[k].to
    BY <1>1 DEF IInv, PacketsTile
  <2>2. first = IF k = 0 THEN 1 ELSE 0
    BY <1>1 DEF IInv, LoopProgress
  <2>3. ASSUME NEW i \in 1 .. (k + 1)
        PROVE  /\ packets'[i].from = IF i = 1 THEN 0 ELSE packets'[i - 1].to
               /\ packets'[i].from < packets'[i].to
               /\ packets'[i].start = IF i = 1 THEN 1 ELSE 0
    <3>1. CASE i \in 1 .. k
      BY <3>1, <1>1, <1>2 DEF IInv, PacketsTile
    <3>2. CASE i = k + 1
      BY SMTT(30), <3>2, <2>1, <2>2, <1>1, <1>2, <1>3, <1>5
    <3> QED
      BY <3>1, <3>2, <1>1
  <2> QED
    BY <2>3, <1>1, <1>2, <1>3, <1>6 DEF PacketsTile
<1>10. SlicesDemux'
  <2>1. ASSUME NEW i \in 1 .. (k + 1)
        PROVE  Demuxed(packets'[i]) = packets'[i].to - packets'[i].from
    <3>1. CASE i \in 1 .. k
      BY <3>1, <1>2 DEF IInv, SlicesDemux
    <3>2. CASE i = k + 1
      BY <3>2, <1>2, <1>3
    <3> QED
      BY <3>1, <3>2, <1>1
  <2> QED
    BY <2>1, <1>2 DEF SlicesDemux
<1>11. /\ \A i \in 1 .. Len(packets') : packets'[i].cc = (cc0' + i) % 16
       /\ cc' = cc0' + Len(packets')
  BY <1>1, <1>2, <1>3, <1>6 DEF IInv
<1>12. PesFirst'
  <2>1. CASE k = 0
    BY <2>1, <1>1, <1>2, <1>3, <1>6 DEF IInv, LoopProgress, PesFirst
  <2>2. CASE k >= 1
    BY <2>2, <1>1, <1>2, <1>6 DEF IInv, PesFirst
  <2> QED
    BY <2>1, <2>2, <1>1
<1>13. StampsFirst'
  <2>1. first = 1 <=> packets = <<>>
    BY DEF IInv, LoopProgress
  <2> QED
    BY <2>1, <1>2, <1>6 DEF WritePacket, IInv, StampsFirst
<1> QED
  BY <1>7, <1>8, <1>9, <1>10, <1>11, <1>12, <1>13 DEF IInv

LEMMA NextKeepsIInv == IInv /\ [Next]_vars => IInv'
<1> SUFFICES ASSUME IInv, [Next]_vars PROVE IInv'
  OBVIOUS
<1>1. ASSUME NEW f \in Frame, BeginFrame(f) PROVE IInv'
  <2>1. packets' = <<>> /\ Len(packets') = 0 /\ frame' \in FrameType
    BY <1>1, FrameAssumption DEF BeginFrame, FrameType
  <2>2. TypeOK'
    BY <1>1, <2>1 DEF BeginFrame, IInv, TypeOK, FrameType
  <2>3. LoopProgress' /\ PacketsTile' /\ SlicesDemux' /\ PesFirst' /\ StampsFirst'
    BY <1>1, <2>1 DEF BeginFrame, LoopProgress, PacketsTile, SlicesDemux, PesFirst, StampsFirst
  <2>4. /\ \A i \in 1 .. Len(packets') : packets'[i].cc = (cc0' + i) % 16
        /\ cc' = cc0' + Len(packets')
    BY <1>1, <2>1 DEF BeginFrame, IInv, TypeOK
  <2> QED
    BY <2>2, <2>3, <2>4 DEF IInv
<1>2. CASE WritePacket
  BY <1>2, WriteKeepsIInv
<1>3. CASE EndFrame
  BY <1>3 DEF EndFrame, IInv, TypeOK, LoopProgress, PacketsTile, SlicesDemux, PesFirst, StampsFirst
<1>4. CASE UNCHANGED vars
  BY <1>4 DEF vars, IInv, TypeOK, LoopProgress, PacketsTile, SlicesDemux, PesFirst, StampsFirst
<1> QED
  BY <1>1, <1>2, <1>3, <1>4 DEF Next

-----------------------------------------------------------------------------
(* The number of packets the loop has written when it ends depends on the  *)
(* frame's size only: this is what callers use as the effect of a write.   *)
LEMMA CountAtEnd == IInv => CountersContinue
<1> SUFFICES ASSUME IInv PROVE CountersContinue
  OBVIOUS
<1> DEFINE k == Len(packets)
           B == BodySize(frame, 1)
<1>1. /\ frame \in FrameType /\ frame.size \in Nat /\ pos \in 0 .. frame.size
      /\ k \in Nat /\ (packets = <<>> <=> k = 0)
  BY DEF IInv, TypeOK, FrameType
<1>2. B \in {157, 162, 165, 170}
  BY <1>1, BodySizes
<1>k. k \in Nat
  BY <1>1
<1>b. frame.size \in Nat /\ B \in Nat
  BY <1>1, <1>2
<1> HIDE DEF k, B
<1>3. ASSUME pos = frame.size PROVE k = PacketCount(frame)
  <2>1. CASE k = 0
    BY <2>1, <1>1, <1>2, <1>3 DEF IInv, PacketsTile, PacketCount, k, B
  <2>2. CASE k = 1
    <3>1. frame.size > 0 /\ frame.size <= B
      BY <2>2, <1>1, <1>2, <1>3 DEF IInv, LoopProgress, k, B
    <3> QED
      BY <3>1, <2>2, <1>1, <1>2 DEF PacketCount, B
  <2>3. CASE k >= 2
    <3>1. /\ B + 184 * (k - 2) < frame.size
          /\ frame.size <= B + 184 * (k - 1)
      BY <2>3, <1>1, <1>2, <1>3 DEF IInv, LoopProgress, k, B
    <3>2. frame.size > B /\ (frame.size - B + 183) \div 184 = k - 1
      BY <3>1, <2>3, <1>k, <1>b, PacketsCovering
    <3> QED
      BY <3>2, <2>3, <1>1, <1>2 DEF PacketCount, B
  <2>4. k = 0 \/ k = 1 \/ k >= 2
    BY <1>k
  <2> QED
    BY <2>1, <2>2, <2>3, <2>4
<1> QED
  BY <1>3 DEF IInv, CountersContinue, k

LEMMA PesLengthFollows == IInv => PesLengthRight
<1> SUFFICES ASSUME IInv PROVE PesLengthRight
  OBVIOUS
<1>1. frame.size \in Nat /\ StampBytes(frame) \in {5, 10}
  BY DEF IInv, TypeOK, FrameType, StampBytes
<1> QED
  BY <1>1 DEF IInv, PesFirst, PesLengthRight, PesLength

LEMMA InvariantHolds == Spec => []IInv
  BY InitIInv, NextKeepsIInv, PTL DEF Spec

(* The packetiser's variables keep their types: a packet's length byte     *)
(* and PES length always fit the bytes the code gives them.                *)
THEOREM TypeCorrect == Spec => []TypeOK
<1>1. IInv => TypeOK
  BY DEF IInv
<1> QED
  BY <1>1, InvariantHolds, PTL

(* For every frame size, a demultiplexer finds in each packet exactly the  *)
(* slice of the frame that was copied into it, and a declared PES length   *)
(* is exact.                                                               *)
THEOREM Demultiplexable == Spec => []PacketsDemux
<1>1. IInv => PacketsDemux
  BY PesLengthFollows DEF IInv, PacketsDemux
<1> QED
  BY <1>1, InvariantHolds, PTL

(* The packets carry the frame's bytes once each and in order. *)
THEOREM Tiles == Spec => []PacketsTile
<1>1. IInv => PacketsTile
  BY DEF IInv
<1> QED
  BY <1>1, InvariantHolds, PTL

(* Continuity counters run on across frames, and a write advances them by  *)
(* PacketCount(frame): the fact the fragment and segmenter models use.     *)
THEOREM Continuity == Spec => []CountersContinue
  BY InvariantHolds, CountAtEnd, PTL

(* For any times, within 700 ms of the stream's start and beyond any turn  *)
(* of the clock, a frame's stamps read back and a key frame's clock is the *)
(* same time before its decoding.                                          *)
THEOREM ClockKept == Spec => []ClockSteady
<1>1. IInv => ClockSteady
  <2> SUFFICES ASSUME IInv, packets # <<>> PROVE ClockSteady
    BY DEF ClockSteady
  <2>1. stamps = StampsOf(frame) /\ frame.dts \in Nat /\ frame.cts \in Nat
    BY DEF IInv, StampsFirst, TypeOK, FrameType
  <2> QED
    BY <2>1, StampsReadBack DEF ClockSteady
<1> QED
  BY <1>1, InvariantHolds, PTL
=============================================================================
