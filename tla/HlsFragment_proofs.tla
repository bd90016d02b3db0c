------------------------- MODULE HlsFragment_proofs -------------------------
(***************************************************************************)
(* Proofs about the HLS writer, for any buffer sizes, delays, rates,       *)
(* frames, counters and calls.  The inductive invariant is TypeOK with the *)
(* three properties of the audio buffer; the first lemmas say what each    *)
(* operation of the writer does to a context that satisfies it.  What was  *)
(* written is kept with a second invariant over the same steps, Books: the *)
(* counters of the frames and the frames the fragments and the buffer hold.*)
(***************************************************************************)
EXTENDS HlsFragment, HlsContext_proofs

(* TypeOK, as a predicate of any context. *)
Typed(c) ==
  /\ c \in ContextType
  /\ c.opened = 1 => c.segments # <<>>
  /\ c.used = 0 <=> c.held = <<>>

(* The properties of the audio buffer, as predicates of any context. *)
Bounded(c) == c.opened = 1 => c.used <= AudioBufferSize

Aligned(c) ==
  c.used > 0 => LET d == c.aframe_pts - Ticks(c.held[1].ts)
                IN  d <= Sync * 90 /\ -d <= Sync * 90

Timely(c) ==
  c.opened = 1 =>
    \A i \in 2 .. Len(c.held) : Ticks(c.held[i].ts) <= c.aframe_pts + (MaxAudioDelay * 90) \div 2

Good(c) == Typed(c) /\ Bounded(c) /\ Aligned(c) /\ Timely(c)

-----------------------------------------------------------------------------
(* A frame written into a fragment leaves everything else as it was. *)
LEMMA PutTyped ==
  ASSUME NEW c \in ContextType, c.segments # <<>>, NEW pes \in Pes
  PROVE  /\ Put(c, pes) \in ContextType
         /\ Put(c, pes).segments # <<>>
         /\ Put(c, pes) = [c EXCEPT !.segments = Put(c, pes).segments]
<1> DEFINE n == Len(c.segments)
           s == [c.segments EXCEPT ![n].frames = Append(@, pes)]
<1>1. c.segments \in Seq(Fragment) /\ n \in 1 .. Len(c.segments)
  <2>1. ASSUME NEW x \in Seq(Fragment), x # <<>> PROVE Len(x) \in 1 .. Len(x)
    BY <2>1
  <2> QED
    BY <2>1 DEF ContextType
<1>2. c.segments[n] \in Fragment
  <2>1. ASSUME NEW x \in Seq(Fragment), NEW i \in 1 .. Len(x) PROVE x[i] \in Fragment
    BY <2>1
  <2> QED
    BY <1>1, <2>1
<1>3. Append(c.segments[n].frames, pes) \in Seq(Pes)
  BY <1>2 DEF Fragment
<1>4. [c.segments[n] EXCEPT !.frames = Append(@, pes)] \in Fragment
  BY <1>2, <1>3 DEF Fragment
<1>5. s \in Seq(Fragment) /\ Len(s) = Len(c.segments)
  BY <1>1, <1>4
<1>6. s # <<>>
  BY <1>1, <1>5
<1>7. Put(c, pes) = [c EXCEPT !.segments = s]
  BY DEF Put
<1> HIDE DEF s
<1> QED
  BY <1>5, <1>6, <1>7 DEF ContextType

(* An update of a context the operations make; the other is WithBuffer. *)
Clocked(c, num, pts, base) ==
  [c EXCEPT !.aframe_num = num, !.aframe_pts = pts, !.aframe_base = base]

LEMMA FlushKeepsType ==
  ASSUME NEW c, Typed(c)
  PROVE  LET f == FlushAudio(c)
         IN  /\ Typed(f)
             /\ f.opened = c.opened
             /\ c.opened = 1 => f.used = 0 /\ f.held = <<>>
             /\ c.opened = 0 => f = c
<1>1. CASE c.opened = 0 \/ c.used = 0
  BY <1>1 DEF FlushAudio, Typed, ContextType
<1>2. CASE ~(c.opened = 0 \/ c.used = 0)
  <2> DEFINE pes == [ pid |-> AudioPid, dts |-> c.aframe_pts, cc |-> c.audio_cc,
                      n |-> AudioPackets(c.used), es |-> c.held ]
             q   == Put(c, pes)
  <2>1. c \in ContextType /\ c.opened = 1 /\ c.segments # <<>>
    BY <1>2 DEF Typed, ContextType
  <2>2. AudioPackets(c.used) \in Nat
    BY <2>1, PacketCountIsNat DEF AudioPackets, ContextType
  <2>3. pes \in Pes
    BY <2>1, <2>2 DEF Pes, ContextType
  <2>4. q \in ContextType /\ q.segments # <<>> /\ q = [c EXCEPT !.segments = q.segments]
    BY <2>1, <2>3, PutTyped
  <2>5. FlushAudio(c) = [q EXCEPT !.audio_cc = @ + AudioPackets(c.used), !.used = 0, !.held = <<>>]
    BY <1>2 DEF FlushAudio
  <2>6. q.audio_cc + AudioPackets(c.used) \in Nat
    BY <2>2, <2>4 DEF ContextType
  <2>7. q.opened = 1
    BY <2>1, <2>4 DEF ContextType
  <2> DEFINE f == FlushAudio(c)
  <2> HIDE DEF q, f
  <2>8. f = [q EXCEPT !.audio_cc = q.audio_cc + AudioPackets(c.used), !.used = 0, !.held = <<>>]
    BY <2>5 DEF f
  <2>9. PICK m \in Nat : m = q.audio_cc + AudioPackets(c.used)
    BY <2>6
  <2>10. f = WithBuffer(q, m, 0, <<>>)
    BY <2>8, <2>9 DEF WithBuffer
  <2>11. /\ f.opened = q.opened /\ f.segments = q.segments /\ f.used = 0 /\ f.held = <<>>
         /\ f \in ContextType
    <3>1. <<>> \in Seq(AudioFrame)
      OBVIOUS
    <3>2. q \in ContextType /\ m \in Nat /\ 0 \in Nat
      BY <2>4, <2>9
    <3> QED
      BY <2>10, <3>1, <3>2 DEF ContextType, WithBuffer
  <2>12. f.opened = 1 /\ f.segments # <<>>
    BY <2>4, <2>7, <2>11
  <2>13. Typed(f)
    BY <2>11, <2>12 DEF Typed
  <2>14. Typed(f) /\ f.opened = 1 /\ f.used = 0 /\ f.held = <<>>
    BY <2>11, <2>12, <2>13
  <2> QED
    BY <2>1, <2>14 DEF f
<1> QED
  BY <1>1, <1>2

LEMMA FlushKeepsGood ==
  ASSUME NEW c, Good(c)
  PROVE  Good(FlushAudio(c))
<1> DEFINE f == FlushAudio(c)
<1>1. /\ Typed(f) /\ f.opened = c.opened
      /\ c.opened = 1 => f.used = 0 /\ f.held = <<>>
      /\ c.opened = 0 => f = c
  BY FlushKeepsType DEF Good
<1>2. c.opened \in {0, 1}
  BY DEF Good, Typed, ContextType
<1> HIDE DEF f
<1>3. ASSUME c.opened = 0 PROVE Good(f)
  BY <1>1, <1>3
<1>4. ASSUME c.opened = 1 PROVE Good(f)
  <2>1. f.used = 0 /\ Len(f.held) = 0
    BY <1>1, <1>4
  <2>2. Bounded(f) /\ Aligned(f)
    BY <2>1, ConfAssumption DEF Bounded, Aligned
  <2>3. Timely(f)
    BY <2>1 DEF Timely
  <2> QED
    BY <1>1, <2>2, <2>3 DEF Good
<1> QED
  BY <1>2, <1>3, <1>4 DEF f

(* The check for overdue audio keeps the context good, and what it leaves  *)
(* in the buffer of an open fragment is not overdue at ts.                 *)
LEMMA UpdateKeepsGood ==
  ASSUME NEW c, Good(c), NEW ts \in Nat, NEW rate \in {1, 2}
  PROVE  LET u == UpdateFragment(c, ts, rate)
         IN  /\ Good(u) /\ u.opened = c.opened
             /\ u.opened = 1 /\ u.used > 0 => ts <= u.aframe_pts + (MaxAudioDelay * 90) \div rate
<1> DEFINE room == (MaxAudioDelay * 90) \div rate
           u    == UpdateFragment(c, ts, rate)
           f    == FlushAudio(c)
<1>1. PICK r \in Nat : r = room
  BY ConfAssumption
<1>2. c.aframe_pts \in Nat /\ c.used \in Nat /\ c.opened \in {0, 1}
  BY DEF Good, Typed, ContextType
<1>3. Good(f) /\ f.opened = c.opened /\ (c.opened = 1 => f.used = 0)
  BY FlushKeepsGood, FlushKeepsType DEF Good
<1>4. u = IF c.opened = 1 /\ c.used > 0 /\ c.aframe_pts + room < ts THEN f ELSE c
  BY DEF UpdateFragment
<1> HIDE DEF u, f, room
<1> QED
  BY <1>1, <1>2, <1>3, <1>4 DEF u, room

(* Appending to the buffer of audio frames that are not overdue. *)
LEMMA AppendKeepsGood ==
  ASSUME NEW c, Good(c), NEW a \in AudioFrame,
         c.opened = 1 => c.used + a.size <= AudioBufferSize,
         c.opened = 1 /\ c.used > 0 => Ticks(a.ts) <= c.aframe_pts + (MaxAudioDelay * 90) \div 2
  PROVE  Good(AppendAudio(c, a)) /\ AppendAudio(c, a).opened = c.opened
<1> DEFINE pts == Ticks(a.ts)
           est == EstimatedPts(c)
           b   == Buffer(c, a)
           n   == AppendAudio(c, a)
<1>1. a.ts \in Nat /\ a.size \in Nat /\ a.size > 0 /\ pts \in Nat
  BY InputAssumption DEF Ticks
<1>2. c \in ContextType /\ Typed(c)
  BY DEF Good, Typed
<1>3. est \in Nat
  <2>1. PICK k \in Nat : k = c.aframe_num * 92160000
    BY <1>2 DEF ContextType
  <2>2. k \div SampleRate \in Nat
    BY ConfAssumption
  <2> QED
    BY <1>2, <2>1, <2>2 DEF EstimatedPts, ContextType
<1>4. Append(c.held, a) \in Seq(AudioFrame) /\ c.used + a.size \in Nat /\ c.used + a.size > 0
  BY <1>1, <1>2 DEF ContextType
<1>5. /\ b \in ContextType /\ b.opened = c.opened /\ b.segments = c.segments
      /\ b.used = c.used + a.size /\ b.held = Append(c.held, a) /\ b.aframe_pts = c.aframe_pts
      /\ b.aframe_num = c.aframe_num
  <2>1. c.audio_cc \in Nat
    BY <1>2 DEF ContextType
  <2>2. b = WithBuffer(c, c.audio_cc, c.used + a.size, Append(c.held, a))
    BY <1>2 DEF Buffer, WithBuffer, ContextType
  <2> HIDE DEF b
  <2>3. c \in ContextType
    BY <1>2
  <2> QED
    BY <1>4, <2>1, <2>2, <2>3 DEF ContextType, WithBuffer
<1>6. b.held # <<>> /\ b.used > 0
  <2>1. c.held \in Seq(AudioFrame)
    BY <1>2 DEF ContextType
  <2>2. Append(c.held, a) # <<>>
    BY <2>1
  <2> QED
    BY <1>4, <1>5, <2>2
<1>7. n = IF c.used > 0 THEN [b EXCEPT !.aframe_num = @ + 1]
          ELSE IF InSync(est - pts) THEN [b EXCEPT !.aframe_num = @ + 1, !.aframe_pts = est]
          ELSE [b EXCEPT !.aframe_num = 1, !.aframe_pts = pts, !.aframe_base = pts]
  BY DEF AppendAudio
<1> HIDE DEF n, b, est, pts
<1>18. PICK x \in Nat : x = b.aframe_num + 1
  BY <1>5 DEF ContextType
<1>19. b.aframe_pts \in Nat /\ b.aframe_base \in Nat
  BY <1>5 DEF ContextType
<1>20. n = IF c.used > 0 THEN Clocked(b, x, b.aframe_pts, b.aframe_base)
           ELSE IF InSync(est - pts) THEN Clocked(b, x, est, b.aframe_base)
           ELSE Clocked(b, 1, pts, pts)
  BY <1>5, <1>7, <1>18 DEF ContextType, Clocked
<1>8. /\ n \in ContextType /\ n.opened = b.opened /\ n.segments = b.segments
      /\ n.used = b.used /\ n.held = b.held
      /\ n.aframe_pts = IF c.used > 0 THEN c.aframe_pts ELSE IF InSync(est - pts) THEN est ELSE pts
  <2> DEFINE Set(w, y) == /\ w \in ContextType /\ w.opened = b.opened /\ w.segments = b.segments
                          /\ w.used = b.used /\ w.held = b.held /\ w.aframe_pts = y
  <2>1. Set(Clocked(b, x, b.aframe_pts, b.aframe_base), b.aframe_pts)
    BY <1>5, <1>18, <1>19 DEF ContextType, Clocked
  <2>2. Set(Clocked(b, x, est, b.aframe_base), est)
    BY <1>3, <1>5, <1>18, <1>19 DEF ContextType, Clocked
  <2>3. Set(Clocked(b, 1, pts, pts), pts)
    BY <1>1, <1>5 DEF ContextType, Clocked
  <2>4. CASE c.used > 0
    <3>1. n = Clocked(b, x, b.aframe_pts, b.aframe_base)
      BY <1>20, <2>4
    <3> QED
      BY <1>5, <2>1, <2>4, <3>1
  <2>5. CASE ~(c.used > 0) /\ InSync(est - pts)
    <3>1. n = Clocked(b, x, est, b.aframe_base)
      BY <1>20, <2>5
    <3> QED
      BY <2>2, <2>5, <3>1
  <2>6. CASE ~(c.used > 0) /\ ~InSync(est - pts)
    <3>1. n = Clocked(b, 1, pts, pts)
      BY <1>20, <2>6
    <3> QED
      BY <2>3, <2>6, <3>1
  <2> QED
    BY <2>4, <2>5, <2>6
<1>9. Typed(n)
  BY <1>2, <1>5, <1>6, <1>8 DEF Typed
<1>10. Bounded(n)
  BY <1>5, <1>8 DEF Bounded
<1>11. c.held \in Seq(AudioFrame) /\ c.used \in Nat /\ (c.used = 0 <=> c.held = <<>>)
  BY <1>2 DEF Typed, ContextType
<1>12. Aligned(n)
  <2>1. CASE c.used > 0
    <3>1. n.held[1] = c.held[1] /\ n.aframe_pts = c.aframe_pts
      BY <1>5, <1>8, <1>11, <2>1
    <3> QED
      BY <2>1, <3>1 DEF Good, Aligned
  <2>2. CASE c.used = 0
    <3>1. n.held[1] = a
      BY <1>5, <1>8, <1>11, <2>2
    <3>2. PICK d \in Int : d = est - pts
      BY <1>1, <1>3
    <3>3. PICK s \in Nat : s = Sync * 90
      BY ConfAssumption
    <3>4. n.aframe_pts - pts = IF d <= s /\ d >= -s THEN d ELSE 0
      BY <1>1, <1>3, <1>8, <2>2, <3>2, <3>3 DEF InSync
    <3> QED
      BY <3>1, <3>2, <3>3, <3>4 DEF Aligned, pts
  <2> QED
    BY <1>11, <2>1, <2>2
<1>13. Timely(n)
  <2> SUFFICES ASSUME n.opened = 1, NEW i \in 2 .. Len(n.held)
               PROVE  Ticks(n.held[i].ts) <= n.aframe_pts + (MaxAudioDelay * 90) \div 2
    BY DEF Timely
  <2>1. c.opened = 1 /\ Len(n.held) = Len(c.held) + 1 /\ n.held = Append(c.held, a)
    BY <1>5, <1>8, <1>11
  <2>2. c.used > 0 /\ n.aframe_pts = c.aframe_pts
    BY <1>8, <1>11, <2>1
  <2>3. CASE i = Len(c.held) + 1
    BY <1>11, <2>1, <2>2, <2>3 DEF pts
  <2>4. CASE i \in 2 .. Len(c.held)
    BY <1>11, <2>1, <2>2, <2>4 DEF Good, Timely
  <2> QED
    BY <1>11, <2>1, <2>3, <2>4
<1> QED
  BY <1>5, <1>8, <1>9, <1>10, <1>12, <1>13 DEF Good, n

LEMMA AudioKeepsGood ==
  ASSUME NEW c, Good(c), NEW a \in AudioFrame
  PROVE  Good(AudioEx(c, a))
<1> DEFINE u == UpdateFragment(c, Ticks(a.ts), 2)
           r == MakeRoom(u, a)
           f == FlushAudio(u)
<1>1. a.ts \in Nat /\ a.size \in Nat /\ Ticks(a.ts) \in Nat
  BY InputAssumption DEF Ticks
<1>2. Good(u)
  BY <1>1, UpdateKeepsGood
<1>3. u.opened = 1 /\ u.used > 0 => Ticks(a.ts) <= u.aframe_pts + (MaxAudioDelay * 90) \div 2
  BY <1>1, UpdateKeepsGood
<1> HIDE DEF u
<1>4. Good(f)
  BY <1>2, FlushKeepsGood
<1>5. f.opened = u.opened /\ (u.opened = 1 => f.used = 0) /\ u.opened \in {0, 1} /\ u.used \in Nat
  BY <1>2, FlushKeepsType DEF Good, Typed, ContextType
<1>6. r = IF u.used + a.size > AudioBufferSize THEN f ELSE u
  BY DEF MakeRoom
<1>7. AudioEx(c, a) = IF a.size > AudioBufferSize THEN c
                      ELSE IF r.used + 7 > AudioBufferSize THEN r ELSE AppendAudio(r, a)
  BY DEF AudioEx, u
<1> HIDE DEF r, f
<1>8. Good(r)
  <2>1. CASE u.used + a.size > AudioBufferSize
    BY <1>4, <1>6, <2>1, Zenon
  <2>2. CASE ~(u.used + a.size > AudioBufferSize)
    BY <1>2, <1>6, <2>2, Zenon
  <2> QED
    BY <2>1, <2>2
<1>9. ASSUME a.size <= AudioBufferSize
      PROVE  /\ r.opened = 1 => r.used + a.size <= AudioBufferSize
             /\ r.opened = 1 /\ r.used > 0 => Ticks(a.ts) <= r.aframe_pts + (MaxAudioDelay * 90) \div 2
  <2>1. CASE u.used + a.size > AudioBufferSize
    <3>1. r = f
      BY <1>6, <2>1
    <3> QED
      BY <1>1, <1>5, <1>9, <3>1
  <2>2. CASE ~(u.used + a.size > AudioBufferSize)
    <3>1. r = u
      BY <1>6, <2>2
    <3>2. u.used + a.size <= AudioBufferSize
      BY <1>1, <1>5, <2>2, ConfAssumption
    <3> QED
      BY <1>3, <3>1, <3>2
  <2> QED
    BY <2>1, <2>2
<1>10. CASE a.size > AudioBufferSize
  BY <1>7, <1>10
<1>11. CASE ~(a.size > AudioBufferSize)
  <2>1. a.size <= AudioBufferSize
    BY <1>1, <1>11, ConfAssumption
  <2>2. Good(AppendAudio(r, a))
    BY <1>8, <1>9, <2>1, AppendKeepsGood
  <2>3. AudioEx(c, a) = r \/ AudioEx(c, a) = AppendAudio(r, a)
    BY <1>7, <1>11
  <2> QED
    BY <1>8, <2>2, <2>3, Zenon
<1> QED
  BY <1>10, <1>11

LEMMA VideoKeepsGood ==
  ASSUME NEW c, Good(c), NEW v \in VideoFrame
  PROVE  Good(VideoEx(c, v))
<1> DEFINE up  == IF v.key = 1 THEN UpdateFragment(c, Ticks(v.ts), 1) ELSE c
           pes == [ pid |-> VideoPid, dts |-> Ticks(v.ts), cc |-> up.video_cc,
                    n |-> VideoPackets(v), es |-> <<v>> ]
           q   == Put(up, pes)
           w   == [q EXCEPT !.video_cc = @ + VideoPackets(v)]
<1>1. v.ts \in Nat /\ v.size \in Nat /\ v.key \in {0, 1} /\ Ticks(v.ts) \in Nat
  BY InputAssumption DEF Ticks
<1>2. Good(up)
  <2>1. Good(UpdateFragment(c, Ticks(v.ts), 1))
    BY <1>1, UpdateKeepsGood
  <2> QED
    BY <2>1
<1>3. VideoEx(c, v) = IF v.size + 6 > VideoBufferSize THEN c
                      ELSE IF up.opened = 0 THEN up ELSE w
  BY DEF VideoEx
<1>4. VideoPackets(v) \in Nat
  <2>1. v.size + 6 \in Nat
    BY <1>1
  <2> QED
    BY <1>1, <2>1, PacketCountIsNat DEF VideoPackets
<1> HIDE DEF up
<1>5. up \in ContextType /\ Typed(up)
  BY <1>2 DEF Good, Typed
<1>6. pes \in Pes
  <2>1. up.video_cc \in Nat
    BY <1>5 DEF ContextType
  <2> QED
    BY <1>1, <1>4, <2>1 DEF Pes
<1> HIDE DEF pes
<1>7. ASSUME up.opened = 1
      PROVE  /\ w \in ContextType /\ w.segments # <<>>
             /\ w.opened = up.opened /\ w.used = up.used /\ w.held = up.held
             /\ w.aframe_pts = up.aframe_pts
  <2>1. up.segments # <<>>
    BY <1>5, <1>7 DEF Typed
  <2>2. /\ q \in ContextType /\ q.segments # <<>>
        /\ q = [up EXCEPT !.segments = q.segments]
    BY <1>5, <1>6, <2>1, PutTyped
  <2> HIDE DEF q
  <2>3. /\ q.opened = up.opened /\ q.used = up.used /\ q.held = up.held
        /\ q.aframe_pts = up.aframe_pts
    BY <1>5, <2>2 DEF ContextType
  <2>4. PICK m \in Nat : m = q.video_cc + VideoPackets(v)
    BY <1>4, <2>2 DEF ContextType
  <2>5. w = [q EXCEPT !.video_cc = m]
    BY <2>4
  <2>6. q \in ContextType
    BY <2>2
  <2> HIDE DEF w
  <2>7. /\ w \in ContextType /\ w.segments = q.segments /\ w.opened = q.opened
        /\ w.used = q.used /\ w.held = q.held /\ w.aframe_pts = q.aframe_pts
    BY <2>5, <2>6 DEF ContextType
  <2> QED
    BY <2>2, <2>3, <2>7
<1> HIDE DEF q, w
<1>8. ASSUME up.opened = 1 PROVE Good(w)
  <2>1. Typed(w)
    BY <1>5, <1>7, <1>8 DEF Typed
  <2>2. Bounded(w) /\ Aligned(w) /\ Timely(w)
    BY <1>2, <1>7, <1>8 DEF Good, Bounded, Aligned, Timely
  <2> QED
    BY <2>1, <2>2 DEF Good
<1>9. up.opened \in {0, 1}
  BY <1>5 DEF ContextType
<1>10. \/ VideoEx(c, v) = c
       \/ VideoEx(c, v) = up
       \/ up.opened = 1 /\ VideoEx(c, v) = w
  BY <1>3, <1>9
<1> QED
  BY <1>2, <1>8, <1>10, Zenon

LEMMA OpenKeepsGood ==
  ASSUME NEW c, Good(c), NEW m \in {0, 1}, NEW k \in {0, 1}, NEW name \in Nat
  PROVE  Good(OpenFragment(c, name, m, k))
<1> DEFINE o == [ c EXCEPT !.opened = 1, !.flag_m3u8 = m,
                           !.segments = Append(@, [name |-> name, frames |-> <<>>]) ]
           f == FlushAudio(o)
           e == [c EXCEPT !.flag_m3u8 = 0]
<1>1. c \in ContextType /\ Typed(c)
  BY DEF Good, Typed
<1>2. OpenFragment(c, name, m, k) = IF c.opened = 1 THEN c ELSE IF m = 0 /\ k = 0 THEN e ELSE f
  BY DEF OpenFragment
<1>3. o \in ContextType /\ o.opened = 1 /\ o.segments # <<>> /\ o.used = c.used /\ o.held = c.held
  <2>1. c.segments \in Seq(Fragment) /\ <<>> \in Seq(Pes)
    BY <1>1 DEF ContextType
  <2>2. [name |-> name, frames |-> <<>>] \in Fragment
    BY <2>1 DEF Fragment
  <2> DEFINE s == Append(c.segments, [name |-> name, frames |-> <<>>])
  <2>4. s \in Seq(Fragment) /\ s # <<>>
    <3>1. s \in Seq(Fragment)
      BY <2>1, <2>2
    <3>2. Len(s) = Len(c.segments) + 1 /\ Len(c.segments) \in Nat
      BY <2>1
    <3>3. Len(s) # 0
      BY <3>2
    <3> QED
      BY <3>1, <3>3
  <2>5. o = [c EXCEPT !.opened = 1, !.flag_m3u8 = m, !.segments = s]
    OBVIOUS
  <2> HIDE DEF o, s
  <2> QED
    <3>1. 1 \in {0, 1} /\ c \in ContextType
      BY <1>1
    <3>2. /\ o \in ContextType /\ o.opened = 1 /\ o.segments = s
          /\ o.used = c.used /\ o.held = c.held
      BY <2>4, <2>5, <3>1 DEF ContextType
    <3> QED
      BY <2>4, <3>2
<1> HIDE DEF o
<1>4. Typed(o)
  BY <1>1, <1>3 DEF Typed
<1>5. Typed(f) /\ f.opened = 1 /\ f.used = 0 /\ f.held = <<>>
  BY <1>3, <1>4, FlushKeepsType
<1> HIDE DEF f
<1>6. Good(f)
  <2>1. Bounded(f) /\ Aligned(f)
    BY <1>5, ConfAssumption DEF Bounded, Aligned
  <2>2. Len(f.held) = 0
    BY <1>5
  <2>3. Timely(f)
    BY <2>2 DEF Timely
  <2> QED
    BY <1>5, <2>1, <2>3 DEF Good
<1>7. /\ e \in ContextType /\ e.opened = c.opened /\ e.segments = c.segments
      /\ e.used = c.used /\ e.held = c.held /\ e.aframe_pts = c.aframe_pts
  BY <1>1 DEF ContextType
<1> HIDE DEF e
<1>8. Good(e)
  <2>1. Typed(e)
    BY <1>1, <1>7 DEF Typed
  <2>2. Bounded(e) /\ Aligned(e) /\ Timely(e)
    BY <1>7 DEF Good, Bounded, Aligned, Timely
  <2> QED
    BY <2>1, <2>2 DEF Good
<1>9. \/ OpenFragment(c, name, m, k) = c
      \/ OpenFragment(c, name, m, k) = e
      \/ OpenFragment(c, name, m, k) = f
  BY <1>2
<1> QED
  BY <1>6, <1>8, <1>9, Zenon

LEMMA CloseKeepsGood ==
  ASSUME NEW c, Good(c)
  PROVE  Good(CloseFragment(c))
<1> DEFINE f == FlushAudio(c)
           g == [f EXCEPT !.opened = 0, !.aframe_num = 0]
<1>1. Good(f)
  BY FlushKeepsGood
<1>2. CloseFragment(c) = IF c.opened = 0 THEN c ELSE g
  BY DEF CloseFragment
<1> HIDE DEF f
<1>3. f \in ContextType /\ Typed(f)
  BY <1>1 DEF Good, Typed
<1>4. /\ g \in ContextType /\ g.opened = 0 /\ g.used = f.used /\ g.held = f.held
      /\ g.aframe_pts = f.aframe_pts
  BY <1>3 DEF ContextType
<1> HIDE DEF g
<1>5. Typed(g)
  BY <1>3, <1>4 DEF Typed
<1>6. Bounded(g) /\ Aligned(g) /\ Timely(g)
  BY <1>1, <1>4 DEF Good, Bounded, Aligned, Timely
<1>7. Good(g)
  BY <1>5, <1>6 DEF Good
<1>8. CloseFragment(c) = c \/ CloseFragment(c) = g
  BY <1>2
<1> QED
  BY <1>7, <1>8, Zenon

-----------------------------------------------------------------------------
IInv == Good(ctx) /\ calls \in Nat

LEMMA InitIInv == Init => IInv
<1> SUFFICES ASSUME Init PROVE IInv
  OBVIOUS
<1>1. PICK ac \in InitialCc, vc \in InitialCc, base \in InitialPts, pts \in InitialPts :
        ctx = NewContext(ac, vc, base, pts)
  BY DEF Init
<1>2. ac \in Nat /\ vc \in Nat /\ base \in Nat /\ pts \in Nat
  BY InputAssumption
<1>3. <<>> \in Seq(AudioFrame) /\ <<>> \in Seq(Fragment)
  OBVIOUS
<1>4. ctx \in ContextType /\ ctx.opened = 0 /\ ctx.used = 0 /\ ctx.held = <<>>
  BY <1>1, <1>2, <1>3 DEF NewContext, ContextType
<1> QED
  BY <1>4 DEF Init, IInv, Good, Typed, Bounded, Aligned, Timely

LEMMA NextKeepsIInv == IInv /\ [Next]_vars => IInv'
<1> SUFFICES ASSUME IInv, [Next]_vars PROVE IInv'
  OBVIOUS
<1>1. Good(ctx) /\ calls \in Nat
  BY DEF IInv
<1>2. Call => calls' \in Nat
  BY <1>1 DEF Call
<1>3. ASSUME NEW m \in {0, 1}, NEW w \in {0, 1}, Open(m, w) PROVE IInv'
  <2>1. Len(ctx.segments) + 1 \in Nat
    <3>1. ASSUME NEW x \in Seq(Fragment) PROVE Len(x) + 1 \in Nat
      OBVIOUS
    <3> QED
      BY <1>1, <3>1 DEF Good, Typed, ContextType
  <2>2. Good(OpenFragment(ctx, Len(ctx.segments) + 1, m, w))
    BY <1>1, <2>1, OpenKeepsGood
  <2> QED
    BY <1>2, <1>3, <2>2 DEF Open, IInv
<1>4. CASE Close
  BY <1>1, <1>2, <1>4, CloseKeepsGood DEF Close, IInv
<1>5. ASSUME NEW a \in AudioFrame, Audio(a) PROVE IInv'
  BY <1>1, <1>2, <1>5, AudioKeepsGood DEF Audio, IInv
<1>6. ASSUME NEW v \in VideoFrame, Video(v) PROVE IInv'
  BY <1>1, <1>2, <1>6, VideoKeepsGood DEF Video, IInv
<1>7. CASE UNCHANGED vars
  BY <1>1, <1>7 DEF vars, IInv
<1> QED
  BY <1>3, <1>4, <1>5, <1>6, <1>7 DEF Next

LEMMA InvariantHolds == Spec => []IInv
  BY InitIInv, NextKeepsIInv, PTL DEF Spec

(* The writer's context has its type, and the buffer's fill matches the    *)
(* frames it holds, after every sequence of calls.                         *)
THEOREM TypeCorrect == Spec => []TypeOK
<1>1. IInv => TypeOK
  BY DEF IInv, Good, Typed, TypeOK
<1> QED
  BY <1>1, InvariantHolds, PTL

(* While a fragment is open the audio buffer never holds more than it was  *)
(* allocated for (flush before append, lines 931-954).                     *)
THEOREM BufferNeverOverflows == Spec => []AudioBufferBounded
<1>1. IInv => AudioBufferBounded
  BY DEF IInv, Good, Bounded, AudioBufferBounded
<1> QED
  BY <1>1, InvariantHolds, PTL

(* The time stamp buffered audio is sent with is within Sync of the first  *)
(* frame's own, whatever the audio clock has run to (lines 975-1003).      *)
THEOREM AlignmentBounded == Spec => []AudioAligned
<1>1. IInv => AudioAligned
  BY DEF IInv, Good, Aligned, AudioAligned
<1> QED
  BY <1>1, InvariantHolds, PTL

(* While a fragment is open, no buffered audio frame is later than the     *)
(* buffer's time by more than half the audio delay (lines 880-896).        *)
THEOREM DelayBounded == Spec => []AudioDelayBounded
<1>1. IInv => AudioDelayBounded
  BY DEF IInv, Good, Timely, AudioDelayBounded
<1> QED
  BY <1>1, InvariantHolds, PTL

-----------------------------------------------------------------------------
(* The fragments that are closed. *)

Closed(c) == IF c.opened = 1 THEN Len(c.segments) - 1 ELSE Len(c.segments)

(* d has the fragments of c, with the open one written to or not. *)
InPlace(c, d) ==
  /\ d.opened = c.opened /\ Len(d.segments) = Len(c.segments)
  /\ \A i \in 1 .. Closed(c) : d.segments[i] = c.segments[i]

Final(c, d) == \A i \in 1 .. Closed(c) : d.segments[i] = c.segments[i]

LEMMA InPlaceComposes ==
  ASSUME NEW c, NEW d, NEW e, InPlace(c, d), InPlace(d, e)
  PROVE  InPlace(c, e)
<1>1. Closed(d) = Closed(c)
  BY DEF InPlace, Closed
<1> QED
  BY <1>1 DEF InPlace

LEMMA PutInPlace ==
  ASSUME NEW c \in ContextType, c.opened = 1, c.segments # <<>>, NEW pes
  PROVE  InPlace(c, Put(c, pes))
<1> DEFINE n == Len(c.segments)
           s == [c.segments EXCEPT ![n].frames = Append(@, pes)]
<1>1. c.segments \in Seq(Fragment)
  BY DEF ContextType
<1>2. Len(s) = n /\ \A i \in 1 .. n - 1 : s[i] = c.segments[i]
  <2>1. ASSUME NEW x \in Seq(Fragment), NEW y
        PROVE  /\ Len([x EXCEPT ![Len(x)] = y]) = Len(x)
               /\ \A i \in 1 .. Len(x) - 1 : [x EXCEPT ![Len(x)] = y][i] = x[i]
    OBVIOUS
  <2> QED
    BY <1>1, <2>1
<1>3. Put(c, pes).opened = c.opened /\ Put(c, pes).segments = s
  BY DEF Put, ContextType
<1> HIDE DEF s
<1> QED
  BY <1>2, <1>3 DEF InPlace, Closed

LEMMA FlushInPlace ==
  ASSUME NEW c, Typed(c)
  PROVE  InPlace(c, FlushAudio(c))
<1>1. CASE c.opened = 0 \/ c.used = 0
  BY <1>1 DEF FlushAudio, InPlace
<1>2. CASE ~(c.opened = 0 \/ c.used = 0)
  <2> DEFINE pes == [ pid |-> AudioPid, dts |-> c.aframe_pts, cc |-> c.audio_cc,
                      n |-> AudioPackets(c.used), es |-> c.held ]
             q   == Put(c, pes)
             f   == FlushAudio(c)
  <2>1. c \in ContextType /\ c.opened = 1 /\ c.segments # <<>>
    BY <1>2 DEF Typed, ContextType
  <2>2. InPlace(c, q)
    BY <2>1, PutInPlace
  <2>3. f = [q EXCEPT !.audio_cc = @ + AudioPackets(c.used), !.used = 0, !.held = <<>>]
    BY <1>2 DEF FlushAudio
  <2> HIDE DEF pes
  <2>4. DOMAIN q = DOMAIN c
    BY DEF Put
  <2>5. f.opened = q.opened /\ f.segments = q.segments
    BY <2>1, <2>3, <2>4 DEF ContextType
  <2> HIDE DEF q, f
  <2>6. InPlace(c, f)
    BY <2>2, <2>5 DEF InPlace
  <2> QED
    BY <2>6 DEF f
<1> QED
  BY <1>1, <1>2

LEMMA UpdateInPlace ==
  ASSUME NEW c, Typed(c), NEW ts, NEW rate
  PROVE  InPlace(c, UpdateFragment(c, ts, rate))
<1>1. InPlace(c, c)
  BY DEF InPlace
<1>2. UpdateFragment(c, ts, rate) = c \/ UpdateFragment(c, ts, rate) = FlushAudio(c)
  BY DEF UpdateFragment
<1> QED
  BY <1>1, <1>2, FlushInPlace, Zenon

LEMMA AudioInPlace ==
  ASSUME NEW c, Good(c), NEW a \in AudioFrame
  PROVE  InPlace(c, AudioEx(c, a))
<1> DEFINE u == UpdateFragment(c, Ticks(a.ts), 2)
           r == MakeRoom(u, a)
<1>1. Ticks(a.ts) \in Nat
  BY InputAssumption DEF Ticks
<1>2. Good(u) /\ InPlace(c, u)
  BY <1>1, UpdateKeepsGood, UpdateInPlace DEF Good
<1> HIDE DEF u
<1>3. InPlace(u, FlushAudio(u)) /\ Good(FlushAudio(u))
  BY <1>2, FlushInPlace, FlushKeepsGood DEF Good
<1>4. r = FlushAudio(u) \/ r = u
  BY DEF MakeRoom
<1>5. InPlace(c, r) /\ Good(r)
  BY <1>2, <1>3, <1>4, InPlaceComposes, Zenon
<1> HIDE DEF r
<1>6. r \in ContextType
  BY <1>5 DEF Good, Typed
<1>7. AppendAudio(r, a).opened = r.opened /\ AppendAudio(r, a).segments = r.segments
  BY <1>6 DEF AppendAudio, Buffer, ContextType
<1>8. InPlace(c, AppendAudio(r, a))
  BY <1>5, <1>7 DEF InPlace
<1>9. InPlace(c, c)
  BY DEF InPlace
<1>10. AudioEx(c, a) = c \/ AudioEx(c, a) = r \/ AudioEx(c, a) = AppendAudio(r, a)
  BY DEF AudioEx, u, r
<1> QED
  BY <1>5, <1>8, <1>9, <1>10, Zenon

LEMMA VideoInPlace ==
  ASSUME NEW c, Good(c), NEW v \in VideoFrame
  PROVE  InPlace(c, VideoEx(c, v))
<1> DEFINE up  == IF v.key = 1 THEN UpdateFragment(c, Ticks(v.ts), 1) ELSE c
           pes == [ pid |-> VideoPid, dts |-> Ticks(v.ts), cc |-> up.video_cc,
                    n |-> VideoPackets(v), es |-> <<v>> ]
           q   == Put(up, pes)
           w   == [q EXCEPT !.video_cc = @ + VideoPackets(v)]
<1>1. Ticks(v.ts) \in Nat
  BY InputAssumption DEF Ticks
<1>2. InPlace(c, c)
  BY DEF InPlace
<1>3. Good(up) /\ InPlace(c, up)
  <2>1. Good(UpdateFragment(c, Ticks(v.ts), 1)) /\ InPlace(c, UpdateFragment(c, Ticks(v.ts), 1))
    BY <1>1, UpdateKeepsGood, UpdateInPlace DEF Good
  <2> QED
    BY <2>1, <1>2
<1>4. VideoEx(c, v) = IF v.size + 6 > VideoBufferSize THEN c
                      ELSE IF up.opened = 0 THEN up ELSE w
  BY DEF VideoEx
<1> HIDE DEF up
<1>5. up \in ContextType /\ up.opened \in {0, 1} /\ (up.opened = 1 => up.segments # <<>>)
  BY <1>3 DEF Good, Typed, ContextType
<1> HIDE DEF pes
<1>6. ASSUME up.opened = 1 PROVE InPlace(c, w)
  <2>1. InPlace(up, q)
    BY <1>5, <1>6, PutInPlace
  <2>2. DOMAIN q = DOMAIN up
    BY DEF Put
  <2>3. w.opened = q.opened /\ w.segments = q.segments
    BY <1>5, <2>2 DEF ContextType
  <2> HIDE DEF q, w
  <2>4. InPlace(up, w)
    BY <2>1, <2>3 DEF InPlace
  <2> QED
    BY <1>3, <2>4, InPlaceComposes
<1> HIDE DEF w
<1>7. VideoEx(c, v) = c \/ VideoEx(c, v) = up \/ (up.opened = 1 /\ VideoEx(c, v) = w)
  BY <1>4, <1>5
<1> QED
  BY <1>2, <1>3, <1>6, <1>7, Zenon

(* Leftover audio goes into the fragment that opens. *)
LEMMA OpenFinal ==
  ASSUME NEW c, Good(c), NEW name \in Nat, NEW m \in {0, 1}, NEW k \in {0, 1}
  PROVE  Final(c, OpenFragment(c, name, m, k))
<1> DEFINE s == Append(c.segments, [name |-> name, frames |-> <<>>])
           o == [c EXCEPT !.opened = 1, !.flag_m3u8 = m, !.segments = s]
           e == [c EXCEPT !.flag_m3u8 = 0]
<1>1. c \in ContextType /\ Typed(c) /\ c.segments \in Seq(Fragment) /\ c.opened \in {0, 1}
  BY DEF Good, Typed, ContextType
<1>2. OpenFragment(c, name, m, k) =
        IF c.opened = 1 THEN c ELSE IF m = 0 /\ k = 0 THEN e ELSE FlushAudio(o)
  BY DEF OpenFragment
<1>3. Final(c, c)
  BY DEF Final
<1>4. Final(c, e)
  BY <1>1 DEF Final, ContextType
<1>5. ASSUME c.opened = 0 PROVE Final(c, FlushAudio(o))
  <2>1. [name |-> name, frames |-> <<>>] \in Fragment
    <3>1. <<>> \in Seq(Pes)
      OBVIOUS
    <3> QED
      BY <3>1 DEF Fragment
  <2>2. /\ s \in Seq(Fragment) /\ Len(s) = Len(c.segments) + 1 /\ Len(c.segments) \in Nat
        /\ \A i \in 1 .. Len(c.segments) : s[i] = c.segments[i]
    BY <1>1, <2>1
  <2>3. s # <<>>
    BY <2>2
  <2> HIDE DEF s
  <2>4. o \in ContextType /\ o.opened = 1 /\ o.segments = s /\ o.used = c.used /\ o.held = c.held
    BY <1>1, <2>2 DEF ContextType
  <2> HIDE DEF o
  <2>5. Typed(o)
    BY <1>1, <2>3, <2>4 DEF Typed
  <2>6. InPlace(o, FlushAudio(o))
    BY <2>5, FlushInPlace
  <2>7. Closed(o) = Len(c.segments) /\ Closed(c) = Len(c.segments)
    BY <1>5, <2>2, <2>4 DEF Closed
  <2> QED
    BY <2>2, <2>4, <2>6, <2>7 DEF InPlace, Final
<1> HIDE DEF e, o
<1>6. \/ OpenFragment(c, name, m, k) = c
      \/ OpenFragment(c, name, m, k) = e
      \/ c.opened = 0 /\ OpenFragment(c, name, m, k) = FlushAudio(o)
  BY <1>1, <1>2
<1> QED
  BY <1>3, <1>4, <1>5, <1>6, Zenon

LEMMA CloseFinal ==
  ASSUME NEW c, Good(c)
  PROVE  Final(c, CloseFragment(c))
<1> DEFINE f == FlushAudio(c)
           e == [f EXCEPT !.opened = 0, !.aframe_num = 0]
<1>1. InPlace(c, f) /\ f \in ContextType
  BY FlushInPlace, FlushKeepsType DEF Good, Typed
<1>2. CloseFragment(c) = c \/ CloseFragment(c) = e
  BY DEF CloseFragment
<1> HIDE DEF f
<1>3. e.segments = f.segments
  BY <1>1 DEF ContextType
<1> QED
  BY <1>1, <1>2, <1>3 DEF InPlace, Final

LEMMA StepFinal == IInv /\ [Next]_vars => Final(ctx, ctx')
<1> SUFFICES ASSUME IInv, [Next]_vars PROVE Final(ctx, ctx')
  OBVIOUS
<1>1. Good(ctx)
  BY DEF IInv
<1>2. ASSUME NEW m \in {0, 1}, NEW w \in {0, 1}, Open(m, w) PROVE Final(ctx, ctx')
  <2>1. Len(ctx.segments) + 1 \in Nat
    <3>1. ASSUME NEW x \in Seq(Fragment) PROVE Len(x) + 1 \in Nat
      OBVIOUS
    <3> QED
      BY <1>1, <3>1 DEF Good, Typed, ContextType
  <2>2. Final(ctx, OpenFragment(ctx, Len(ctx.segments) + 1, m, w))
    BY <1>1, <2>1, OpenFinal
  <2> QED
    BY <1>2, <2>2 DEF Open
<1>3. CASE Close
  BY <1>1, <1>3, CloseFinal DEF Close
<1>4. ASSUME NEW a \in AudioFrame, Audio(a) PROVE Final(ctx, ctx')
  BY <1>1, <1>4, AudioInPlace DEF Audio, InPlace, Final
<1>5. ASSUME NEW v \in VideoFrame, Video(v) PROVE Final(ctx, ctx')
  BY <1>1, <1>5, VideoInPlace DEF Video, InPlace, Final
<1>6. CASE UNCHANGED vars
  BY <1>6 DEF vars, Final
<1> QED
  BY <1>2, <1>3, <1>4, <1>5, <1>6 DEF Next

(* No call writes to a fragment that was closed, not even to get rid of    *)
(* audio left in the buffer (line 792).                                    *)
THEOREM ClosedStayClosed == Spec => ClosedFragmentsFinal
<1>1. IInv /\ [Next]_vars =>
        [ LET closed == IF ctx.opened = 1 THEN Len(ctx.segments) - 1 ELSE Len(ctx.segments)
          IN  \A i \in 1 .. closed : ctx'.segments[i] = ctx.segments[i] ]_vars
  BY StepFinal DEF Final, Closed
<1> QED
  BY <1>1, InvariantHolds, PTL DEF Spec, ClosedFragmentsFinal

-----------------------------------------------------------------------------
(* What is written.  d is c with one more frame in the open fragment. *)
Wrote(c, d, pes) ==
  LET n == Len(c.segments)
  IN  /\ c.opened = 1 /\ d.opened = 1 /\ n > 0 /\ Len(d.segments) = n
      /\ \A i \in 1 .. n - 1 : d.segments[i] = c.segments[i]
      /\ d.segments[n].frames = Append(c.segments[n].frames, pes)

CounterIn(c, pid) == IF pid = AudioPid THEN c.audio_cc ELSE c.video_cc

(* The frame continues its stream's counter and takes along the buffer if  *)
(* it is an audio frame.                                                   *)
Emitted(c, d, pes) ==
  /\ pes \in Pes /\ Wrote(c, d, pes)
  /\ pes.cc = CounterIn(c, pes.pid) /\ CounterIn(d, pes.pid) = pes.cc + pes.n
  /\ IF pes.pid = AudioPid THEN pes.es = c.held /\ d.held = <<>> /\ d.video_cc = c.video_cc
                           ELSE d.held = c.held /\ d.audio_cc = c.audio_cc

(* Nothing was written. *)
Still(c, d) ==
  /\ d.opened = c.opened /\ d.segments = c.segments /\ d.held = c.held
  /\ d.audio_cc = c.audio_cc /\ d.video_cc = c.video_cc

LEMMA PutWrote ==
  ASSUME NEW c \in ContextType, c.opened = 1, c.segments # <<>>, NEW pes \in Pes
  PROVE  Wrote(c, Put(c, pes), pes)
<1> DEFINE n == Len(c.segments)
           s == [c.segments EXCEPT ![n].frames = Append(@, pes)]
<1>1. c.segments \in Seq(Fragment) /\ n \in Nat /\ n > 0 /\ n \in 1 .. n
  <2>1. ASSUME NEW x \in Seq(Fragment), x # <<>> PROVE Len(x) \in Nat /\ Len(x) > 0
    BY <2>1
  <2> QED
    BY <2>1 DEF ContextType
<1>2. c.segments[n] \in Fragment
  BY <1>1, ElementOfSeq
<1>3. /\ Len(s) = n /\ \A i \in 1 .. n - 1 : s[i] = c.segments[i]
      /\ s[n] = [c.segments[n] EXCEPT !.frames = Append(@, pes)]
  <2>1. ASSUME NEW x \in Seq(Fragment), NEW y, Len(x) > 0
        PROVE  /\ Len([x EXCEPT ![Len(x)] = y]) = Len(x)
               /\ \A i \in 1 .. Len(x) - 1 : [x EXCEPT ![Len(x)] = y][i] = x[i]
               /\ [x EXCEPT ![Len(x)] = y][Len(x)] = y
    BY <2>1
  <2> QED
    BY <1>1, <2>1
<1>4. s[n].frames = Append(c.segments[n].frames, pes)
  <2>1. ASSUME NEW x \in Fragment, NEW y PROVE [x EXCEPT !.frames = y].frames = y
    BY DEF Fragment
  <2> QED
    BY <1>2, <1>3, <2>1
<1>5. Put(c, pes).opened = 1 /\ Put(c, pes).segments = s
  BY DEF Put, ContextType
<1> HIDE DEF s
<1> QED
  BY <1>1, <1>3, <1>4, <1>5 DEF Wrote

LEMMA FlushSends ==
  ASSUME NEW c, Typed(c)
  PROVE  Still(c, FlushAudio(c)) \/ \E pes \in Pes : Emitted(c, FlushAudio(c), pes)
<1>1. CASE c.opened = 0 \/ c.used = 0
  BY <1>1 DEF FlushAudio, Still
<1>2. CASE ~(c.opened = 0 \/ c.used = 0)
  <2> DEFINE pes == [ pid |-> AudioPid, dts |-> c.aframe_pts, cc |-> c.audio_cc,
                      n |-> AudioPackets(c.used), es |-> c.held ]
             q   == Put(c, pes)
             f   == FlushAudio(c)
  <2>1. c \in ContextType /\ c.opened = 1 /\ c.segments # <<>>
    BY <1>2 DEF Typed, ContextType
  <2>2. AudioPackets(c.used) \in Nat
    BY <2>1, PacketCountIsNat DEF AudioPackets, ContextType
  <2>3. pes \in Pes
    BY <2>1, <2>2 DEF Pes, ContextType
  <2>4. q = [c EXCEPT !.segments = q.segments]
    BY <2>1, <2>3, PutTyped
  <2>5. Wrote(c, q, pes)
    BY <2>1, <2>3, PutWrote
  <2>6. f = [q EXCEPT !.audio_cc = @ + AudioPackets(c.used), !.used = 0, !.held = <<>>]
    BY <1>2 DEF FlushAudio
  <2>7. pes.pid = AudioPid /\ pes.cc = c.audio_cc /\ pes.n = AudioPackets(c.used) /\ pes.es = c.held
    OBVIOUS
  <2> HIDE DEF pes, q, f
  <2>8. /\ f.opened = q.opened /\ f.segments = q.segments /\ f.held = <<>>
        /\ f.audio_cc = c.audio_cc + AudioPackets(c.used) /\ f.video_cc = c.video_cc
    BY <2>1, <2>4, <2>6 DEF ContextType
  <2>9. Emitted(c, f, pes)
    BY <2>3, <2>5, <2>7, <2>8 DEF Emitted, Wrote, CounterIn
  <2> QED
    BY <2>3, <2>9 DEF f
<1> QED
  BY <1>1, <1>2

-----------------------------------------------------------------------------
(* The counters: CountersContinue, as a predicate of any context. *)
PlacesIn(c, pid) ==
  {at \in UNION {{i} \X (1 .. Len(c.segments[i].frames)) : i \in 1 .. Len(c.segments)} :
     c.segments[at[1]].frames[at[2]].pid = pid}

FrameAt(c, p) == c.segments[p[1]].frames[p[2]]

After(c, p) == FrameAt(c, p).cc + FrameAt(c, p).n

Counted(c) ==
  \A pid \in {AudioPid, VideoPid} : \A p \in PlacesIn(c, pid) :
    LET later == {q \in PlacesIn(c, pid) : Precedes(p, q)}
    IN  /\ later = {} => After(c, p) = CounterIn(c, pid)
        /\ \A q \in later : (\A r \in later : ~Precedes(r, q)) => After(c, p) = FrameAt(c, q).cc

LEMMA PlaceIn ==
  ASSUME NEW c, NEW pid, NEW p
  PROVE  p \in PlacesIn(c, pid) <=>
           \E i \in 1 .. Len(c.segments) : \E j \in 1 .. Len(c.segments[i].frames) :
             p = <<i, j>> /\ c.segments[i].frames[j].pid = pid
BY DEF PlacesIn

LEMMA FramesOfSegment ==
  ASSUME NEW c \in ContextType, NEW i \in 1 .. Len(c.segments)
  PROVE  c.segments[i].frames \in Seq(Pes) /\ Len(c.segments[i].frames) \in Nat
<1>1. c.segments \in Seq(Fragment)
  BY DEF ContextType
<1>2. c.segments[i] \in Fragment
  BY <1>1, ElementOfSeq
<1> QED
  BY <1>2 DEF Fragment

(* The places after a frame is written: the old ones and a last one. *)
LEMMA PlacesAfter ==
  ASSUME NEW c \in ContextType, NEW d, NEW pes \in Pes, Wrote(c, d, pes)
  PROVE  LET n   == Len(c.segments)
             new == <<n, Len(c.segments[n].frames) + 1>>
         IN  /\ \A pid : PlacesIn(d, pid) = IF pes.pid = pid THEN PlacesIn(c, pid) \cup {new}
                                                             ELSE PlacesIn(c, pid)
             /\ FrameAt(d, new) = pes
             /\ \A pid : \A p \in PlacesIn(c, pid) :
                  FrameAt(d, p) = FrameAt(c, p) /\ Precedes(p, new) /\ ~Precedes(new, p)
             /\ ~Precedes(new, new)
<1> DEFINE n   == Len(c.segments)
           m   == Len(c.segments[n].frames)
           new == <<n, m + 1>>
<1>1. n \in Nat /\ n > 0 /\ n \in 1 .. n
  <2>1. ASSUME NEW x \in Seq(Fragment) PROVE Len(x) \in Nat
    OBVIOUS
  <2>2. n \in Nat
    BY <2>1 DEF ContextType
  <2> QED
    BY <2>2 DEF Wrote
<1>2. c.segments[n].frames \in Seq(Pes) /\ m \in Nat
  BY <1>1, FramesOfSegment
<1>3. /\ Len(d.segments) = n
      /\ \A i \in 1 .. n - 1 : d.segments[i] = c.segments[i]
      /\ d.segments[n].frames = Append(c.segments[n].frames, pes)
  BY DEF Wrote
<1>4. /\ Len(d.segments[n].frames) = m + 1
      /\ d.segments[n].frames[m + 1] = pes
      /\ \A j \in 1 .. m : d.segments[n].frames[j] = c.segments[n].frames[j]
  BY SMTT(30), <1>2, <1>3
<1>5. /\ \A i \in 1 .. n : \A j \in 1 .. Len(c.segments[i].frames) :
           j \in 1 .. Len(d.segments[i].frames)
           /\ d.segments[i].frames[j] = c.segments[i].frames[j]
      /\ \A i \in 1 .. n : \A j \in 1 .. Len(d.segments[i].frames) :
           j \in 1 .. Len(c.segments[i].frames) \/ (i = n /\ j = m + 1)
  <2> SUFFICES ASSUME NEW i \in 1 .. n
               PROVE  /\ \A j \in 1 .. Len(c.segments[i].frames) :
                           j \in 1 .. Len(d.segments[i].frames)
                           /\ d.segments[i].frames[j] = c.segments[i].frames[j]
                      /\ \A j \in 1 .. Len(d.segments[i].frames) :
                           j \in 1 .. Len(c.segments[i].frames) \/ (i = n /\ j = m + 1)
    OBVIOUS
  <2>1. CASE i = n
    <3> HIDE DEF n, m
    <3>1. Len(c.segments[i].frames) = m
      BY <2>1 DEF m
    <3> QED
      BY <1>2, <1>4, <2>1, <3>1
  <2>2. CASE i # n
    <3>1. i \in 1 .. n - 1
      BY <1>1, <2>2
    <3> QED
      BY <1>3, <3>1
  <2> QED
    BY <2>1, <2>2
<1> HIDE DEF n, m
<1>6. ASSUME NEW pid
      PROVE  PlacesIn(d, pid) = IF pes.pid = pid THEN PlacesIn(c, pid) \cup {new}
                                                 ELSE PlacesIn(c, pid)
  <2>1. ASSUME NEW p \in PlacesIn(c, pid) PROVE p \in PlacesIn(d, pid)
    <3>1. PICK i \in 1 .. n : \E j \in 1 .. Len(c.segments[i].frames) :
             p = <<i, j>> /\ c.segments[i].frames[j].pid = pid
      BY PlaceIn DEF n
    <3> QED
      BY ZenonT(60), <1>3, <1>5, <3>1, PlaceIn DEF n
  <2>2. ASSUME NEW p \in PlacesIn(d, pid)
        PROVE  p \in PlacesIn(c, pid) \/ (p = new /\ pes.pid = pid)
    <3>0. PICK i \in 1 .. n : \E j \in 1 .. Len(d.segments[i].frames) :
             p = <<i, j>> /\ d.segments[i].frames[j].pid = pid
      BY SMTT(30), <1>3, PlaceIn
    <3>1. PICK j \in 1 .. Len(d.segments[i].frames) :
             p = <<i, j>> /\ d.segments[i].frames[j].pid = pid
      BY <3>0
    <3>2. CASE j \in 1 .. Len(c.segments[i].frames)
      BY ZenonT(60), <1>5, <3>1, <3>2, PlaceIn DEF n
    <3>3. CASE i = n /\ j = m + 1
      BY <1>4, <3>1, <3>3
    <3> QED
      BY <1>5, <3>2, <3>3
  <2>3. ASSUME pes.pid = pid PROVE new \in PlacesIn(d, pid)
    <3>1. n \in 1 .. Len(d.segments) /\ m + 1 \in 1 .. Len(d.segments[n].frames)
      BY <1>1, <1>2, <1>3, <1>4
    <3> QED
      BY <1>4, <2>3, <3>1, PlaceIn
  <2> HIDE DEF new
  <2> QED
    BY <2>1, <2>2, <2>3
<1>7. FrameAt(d, new) = pes
  BY <1>4 DEF FrameAt
<1>8. ASSUME NEW pid, NEW p \in PlacesIn(c, pid)
      PROVE  FrameAt(d, p) = FrameAt(c, p) /\ Precedes(p, new) /\ ~Precedes(new, p)
  <2>0. PICK i \in 1 .. n : \E j \in 1 .. Len(c.segments[i].frames) : p = <<i, j>>
    BY PlaceIn DEF n
  <2>1. PICK j \in 1 .. Len(c.segments[i].frames) : p = <<i, j>>
    BY <2>0
  <2>2. FrameAt(d, p) = FrameAt(c, p)
    BY <1>5, <2>1 DEF FrameAt
  <2>3. i < n \/ (i = n /\ j <= m)
    <3>1. CASE i = n
      BY <1>2, <2>1, <3>1 DEF m
    <3>2. CASE i # n
      BY <1>1, <3>2
    <3> QED
      BY <3>1, <3>2
  <2>4. j \in Nat
    <3>1. Len(c.segments[i].frames) \in Nat
      BY FramesOfSegment DEF n
    <3> QED
      BY <3>1
  <2> QED
    BY <1>1, <1>2, <2>1, <2>2, <2>3, <2>4 DEF Precedes
<1>9. ~Precedes(new, new)
  BY <1>1, <1>2 DEF Precedes
<1> QED
  BY <1>6, <1>7, <1>8, <1>9 DEF n, m

LEMMA SentCounted ==
  ASSUME NEW c \in ContextType, Counted(c), NEW d, NEW pes, Emitted(c, d, pes)
  PROVE  Counted(d)
<1>1. pes \in Pes /\ Wrote(c, d, pes) /\ pes.pid \in {AudioPid, VideoPid}
  BY DEF Emitted, Pes
<1>2. PICK new :
        /\ \A pid : PlacesIn(d, pid) = IF pes.pid = pid THEN PlacesIn(c, pid) \cup {new}
                                                        ELSE PlacesIn(c, pid)
        /\ FrameAt(d, new) = pes
        /\ \A pid : \A p \in PlacesIn(c, pid) :
             FrameAt(d, p) = FrameAt(c, p) /\ Precedes(p, new) /\ ~Precedes(new, p)
        /\ ~Precedes(new, new)
  BY <1>1, PlacesAfter, Zenon
<1> SUFFICES ASSUME NEW pid \in {AudioPid, VideoPid}, NEW p \in PlacesIn(d, pid)
             PROVE  LET later == {q \in PlacesIn(d, pid) : Precedes(p, q)}
                    IN  /\ later = {} => After(d, p) = CounterIn(d, pid)
                        /\ \A q \in later :
                             (\A r \in later : ~Precedes(r, q)) => After(d, p) = FrameAt(d, q).cc
  BY DEF Counted
<1> DEFINE later == {q \in PlacesIn(d, pid) : Precedes(p, q)}
           old   == {q \in PlacesIn(c, pid) : Precedes(p, q)}
<1>3. CASE pes.pid # pid
  <2>1. PlacesIn(d, pid) = PlacesIn(c, pid)
    BY <1>2, <1>3
  <2>2. CounterIn(d, pid) = CounterIn(c, pid)
    BY <1>1, <1>3 DEF Emitted, CounterIn, AudioPid, VideoPid
  <2>3. /\ old = {} => After(c, p) = CounterIn(c, pid)
        /\ \A q \in old : (\A r \in old : ~Precedes(r, q)) => After(c, p) = FrameAt(c, q).cc
    BY <2>1 DEF Counted
  <2>4. \A q \in PlacesIn(c, pid) : FrameAt(d, q) = FrameAt(c, q)
    BY <1>2
  <2> QED
    BY <2>1, <2>2, <2>3, <2>4 DEF After
<1>4. CASE pes.pid = pid
  <2>1. PlacesIn(d, pid) = PlacesIn(c, pid) \cup {new}
    BY <1>2, <1>4
  <2>2. /\ \A q \in PlacesIn(c, pid) :
             FrameAt(d, q) = FrameAt(c, q) /\ Precedes(q, new) /\ ~Precedes(new, q)
        /\ FrameAt(d, new) = pes /\ ~Precedes(new, new)
    BY <1>2
  <2>3. pes.cc = CounterIn(c, pid) /\ CounterIn(d, pid) = pes.cc + pes.n
    BY <1>4 DEF Emitted
  <2>4. CASE p = new
    <3>1. later = {}
      BY <2>1, <2>2, <2>4
    <3>2. After(d, p) = CounterIn(d, pid)
      BY <2>2, <2>3, <2>4 DEF After
    <3> QED
      BY <3>1, <3>2
  <2>5. CASE p \in PlacesIn(c, pid)
    <3>1. later = old \cup {new} /\ new \in later
      BY <2>1, <2>2, <2>5
    <3>2. /\ old = {} => After(c, p) = CounterIn(c, pid)
          /\ \A q \in old : (\A r \in old : ~Precedes(r, q)) => After(c, p) = FrameAt(c, q).cc
      BY <2>5 DEF Counted
    <3>3. After(d, p) = After(c, p)
      BY <2>2, <2>5 DEF After
    <3>4. ASSUME NEW q \in later, \A r \in later : ~Precedes(r, q)
          PROVE  After(d, p) = FrameAt(d, q).cc
      <4>1. CASE q = new
        <5>1. old = {}
          BY <2>2, <3>1, <3>4, <4>1
        <5> QED
          BY <2>2, <2>3, <3>2, <3>3, <4>1, <5>1
      <4>2. CASE q \in old
        <5>1. FrameAt(d, q) = FrameAt(c, q)
          BY <2>2, <4>2
        <5>2. \A r \in old : ~Precedes(r, q)
          BY <3>1, <3>4
        <5> QED
          BY <3>2, <3>3, <4>2, <5>1, <5>2
      <4> QED
        BY <3>1, <4>1, <4>2
    <3> QED
      BY <3>1, <3>4
  <2> QED
    BY <2>1, <2>4, <2>5
<1> QED
  BY <1>3, <1>4

LEMMA IdleCounted ==
  ASSUME NEW c, Counted(c), NEW d, Still(c, d)
  PROVE  Counted(d)
<1>1. \A pid : PlacesIn(d, pid) = PlacesIn(c, pid) /\ CounterIn(d, pid) = CounterIn(c, pid)
  BY DEF Still, PlacesIn, CounterIn
<1>2. \A p : FrameAt(d, p) = FrameAt(c, p) /\ After(d, p) = After(c, p)
  BY DEF Still, FrameAt, After
<1> QED
  BY <1>1, <1>2 DEF Counted

-----------------------------------------------------------------------------
(* The audio: AudioDelivered, as a predicate of any context. *)
Given == AudioFrame \cup VideoFrame

Current(c) == IF c.opened = 1 THEN Len(c.segments) ELSE Len(c.segments) + 1

WrittenTo(c, i) == IF i <= Len(c.segments) THEN FramesIn(c.segments[i], AudioPid) ELSE <<>>

HeldFor(c, i) == IF i = Current(c) THEN c.held ELSE <<>>

Delivered(c, h) ==
  /\ h \in Seq(Seq(Given)) /\ Len(h) = Len(c.segments) + 1
  /\ \A i \in 1 .. Len(h) : WrittenTo(c, i) \o HeldFor(c, i) = h[i]

LEMMA FragmentCarries ==
  ASSUME NEW s \in Fragment
  PROVE  s.frames \in Seq(Pes) /\ Carries(s, AudioPid, Given)
<1>1. s.frames \in Seq(Pes)
  BY DEF Fragment
<1>2. ASSUME NEW j \in 1 .. Len(s.frames) PROVE s.frames[j].es \in Seq(Given)
  <2>1. s.frames[j] \in Pes
    BY <1>1, ElementOfSeq
  <2>2. CASE s.frames[j].es \in Seq(AudioFrame)
    BY <2>2 DEF Given
  <2>3. CASE s.frames[j].es \in {<<v>> : v \in VideoFrame}
    <3>1. PICK v \in VideoFrame : s.frames[j].es = <<v>>
      BY <2>3
    <3> QED
      BY <3>1 DEF Given
  <2> QED
    BY <2>1, <2>2, <2>3 DEF Pes
<1> QED
  BY <1>1, <1>2 DEF Carries

LEMMA SegmentsType ==
  ASSUME NEW c \in ContextType
  PROVE  /\ c.segments \in Seq(Fragment) /\ Len(c.segments) \in Nat
         /\ \A i \in 1 .. Len(c.segments) : c.segments[i] \in Fragment
<1>1. c.segments \in Seq(Fragment)
  BY DEF ContextType
<1> QED
  BY <1>1, ElementOfSeq, LenProperties

LEMMA SentDelivered ==
  ASSUME NEW c \in ContextType, NEW h, Delivered(c, h), NEW d, NEW pes, Emitted(c, d, pes)
  PROVE  Delivered(d, h)
<1> DEFINE n == Len(c.segments)
<1>1. n \in Nat /\ n > 0 /\ n \in 1 .. n /\ c.segments[n] \in Fragment
  <2>1. n \in Nat /\ n > 0
    BY SegmentsType DEF Emitted, Wrote
  <2> QED
    BY <2>1, SegmentsType
<1>2. /\ pes \in Pes /\ c.opened = 1 /\ d.opened = 1 /\ Len(d.segments) = n
      /\ \A i \in 1 .. n - 1 : d.segments[i] = c.segments[i]
      /\ d.segments[n].frames = Append(c.segments[n].frames, pes)
  BY DEF Emitted, Wrote
<1>3. Current(c) = n /\ Current(d) = n
  BY <1>2 DEF Current
<1>4. pes.pid = AudioPid => pes.es = c.held /\ c.held \in Seq(Given)
  <2>1. c.held \in Seq(AudioFrame)
    BY DEF ContextType
  <2>2. c.held \in Seq(Given)
    BY <2>1 DEF Given
  <2> QED
    BY <2>2 DEF Emitted
<1>5. /\ FramesIn(c.segments[n], AudioPid) \in Seq(Given)
      /\ FramesIn(d.segments[n], AudioPid)
           = IF pes.pid = AudioPid THEN FramesIn(c.segments[n], AudioPid) \o pes.es
                                   ELSE FramesIn(c.segments[n], AudioPid)
  <2>1. c.segments[n].frames \in Seq(Pes) /\ Carries(c.segments[n], AudioPid, Given)
    BY <1>1, FragmentCarries
  <2>2. pes.pid = AudioPid => pes.es \in Seq(Given)
    BY <1>4
  <2>3. PICK s, t : s = c.segments[n] /\ t = d.segments[n]
    OBVIOUS
  <2>4. /\ s.frames \in Seq(Pes) /\ Carries(s, AudioPid, Given)
        /\ t.frames = Append(s.frames, pes) /\ pes \in Pes
    BY <1>2, <2>1, <2>3
  <2>5. /\ FramesIn(s, AudioPid) \in Seq(Given)
        /\ FramesIn(t, AudioPid) = IF pes.pid = AudioPid THEN FramesIn(s, AudioPid) \o pes.es
                                                        ELSE FramesIn(s, AudioPid)
    BY <2>2, <2>4, FramesAppend
  <2> QED
    BY <2>3, <2>5
<1>6. Len(h) = n + 1
  BY DEF Delivered
<1>7. ASSUME NEW i \in 1 .. n + 1 PROVE WrittenTo(d, i) \o HeldFor(d, i) = h[i]
  <2>1. WrittenTo(c, i) \o HeldFor(c, i) = h[i]
    BY <1>6 DEF Delivered
  <2>2. CASE i # n
    <3>1. HeldFor(d, i) = HeldFor(c, i)
      BY <1>3, <2>2 DEF HeldFor
    <3>2. CASE i = n + 1
      <4>1. WrittenTo(d, i) = WrittenTo(c, i)
        BY <1>1, <1>2, <3>2 DEF WrittenTo
      <4> QED
        BY <2>1, <3>1, <4>1
    <3>3. CASE i # n + 1
      <4>1. i \in 1 .. n - 1
        BY <1>1, <2>2, <3>3
      <4>2. d.segments[i] = c.segments[i]
        BY <1>2, <4>1
      <4>3. WrittenTo(d, i) = WrittenTo(c, i)
        BY <1>2, <4>2 DEF WrittenTo
      <4> QED
        BY <2>1, <3>1, <4>3
    <3> QED
      BY <3>2, <3>3
  <2>3. CASE i = n
    <3>1. WrittenTo(d, i) = FramesIn(d.segments[n], AudioPid) /\ HeldFor(d, i) = d.held
      BY <1>1, <1>2, <1>3, <2>3 DEF WrittenTo, HeldFor
    <3>2. WrittenTo(c, i) = FramesIn(c.segments[n], AudioPid) /\ HeldFor(c, i) = c.held
      BY <1>1, <1>3, <2>3 DEF WrittenTo, HeldFor
    <3>3. CASE pes.pid = AudioPid
      <4>1. d.held = <<>>
        BY <3>3 DEF Emitted
      <4>2. FramesIn(d.segments[n], AudioPid) = FramesIn(c.segments[n], AudioPid) \o c.held
        BY <1>4, <1>5, <3>3
      <4>3. FramesIn(c.segments[n], AudioPid) \o c.held \in Seq(Given)
        BY <1>4, <1>5, <3>3, ConcatProperties
      <4>4. (FramesIn(c.segments[n], AudioPid) \o c.held) \o <<>>
              = FramesIn(c.segments[n], AudioPid) \o c.held
        BY <4>3, ConcatEmptySeq
      <4> QED
        BY <2>1, <3>1, <3>2, <4>1, <4>2, <4>4
    <3>4. CASE pes.pid # AudioPid
      <4>1. d.held = c.held
        BY <3>4 DEF Emitted
      <4> QED
        BY <1>5, <2>1, <3>1, <3>2, <3>4, <4>1
    <3> QED
      BY <3>3, <3>4
  <2> QED
    BY <2>2, <2>3
<1> QED
  BY <1>2, <1>6, <1>7 DEF Delivered

LEMMA IdleDelivered ==
  ASSUME NEW c, NEW h, Delivered(c, h), NEW d, Still(c, d)
  PROVE  Delivered(d, h)
<1>1. Current(d) = Current(c) /\ \A i : WrittenTo(d, i) = WrittenTo(c, i)
  BY DEF Still, Current, WrittenTo
<1>2. \A i : HeldFor(d, i) = HeldFor(c, i)
  BY <1>1 DEF Still, HeldFor
<1> QED
  BY <1>1, <1>2 DEF Delivered, Still

Books(c, h) == Counted(c) /\ Delivered(c, h)

LEMMA FlushBooks ==
  ASSUME NEW c, Typed(c), NEW h, Books(c, h)
  PROVE  Books(FlushAudio(c), h)
<1>1. Typed(c) /\ c \in ContextType
  BY DEF Typed
<1>2. Still(c, FlushAudio(c)) \/ \E pes \in Pes : Emitted(c, FlushAudio(c), pes)
  BY <1>1, FlushSends
<1> QED
  BY <1>1, <1>2, IdleCounted, IdleDelivered, SentCounted, SentDelivered, Zenon DEF Books

LEMMA UpdateBooks ==
  ASSUME NEW c, Good(c), NEW h, Books(c, h), NEW ts, NEW rate
  PROVE  Books(UpdateFragment(c, ts, rate), h)
<1>1. UpdateFragment(c, ts, rate) = c \/ UpdateFragment(c, ts, rate) = FlushAudio(c)
  BY DEF UpdateFragment
<1>2. Typed(c)
  BY DEF Good
<1> QED
  BY <1>1, <1>2, FlushBooks, Zenon

(* Taking a frame: it is booked for the fragment it is meant for. *)
LEMMA AppendBooks ==
  ASSUME NEW c, Good(c), NEW h, Books(c, h), NEW a \in AudioFrame
  PROVE  Books(AppendAudio(c, a), [h EXCEPT ![Current(c)] = Append(@, a)])
<1> DEFINE d == AppendAudio(c, a)
           n == Current(c)
           g == [h EXCEPT ![n] = Append(@, a)]
<1>1. c \in ContextType
  BY DEF Good, Typed
<1>2. /\ d.opened = c.opened /\ d.segments = c.segments /\ d.held = Append(c.held, a)
      /\ d.audio_cc = c.audio_cc /\ d.video_cc = c.video_cc
  BY <1>1 DEF AppendAudio, Buffer, ContextType
<1> HIDE DEF d
<1>3. Counted(d)
  <2>1. \A pid : PlacesIn(d, pid) = PlacesIn(c, pid) /\ CounterIn(d, pid) = CounterIn(c, pid)
    BY <1>2 DEF PlacesIn, CounterIn
  <2>2. \A p : FrameAt(d, p) = FrameAt(c, p) /\ After(d, p) = After(c, p)
    BY <1>2 DEF FrameAt, After
  <2> QED
    BY <2>1, <2>2 DEF Books, Counted
<1>4. Delivered(c, h) /\ h \in Seq(Seq(Given)) /\ Len(h) = Len(c.segments) + 1
  BY DEF Books, Delivered
<1>5. Len(c.segments) \in Nat /\ c.opened \in {0, 1} /\ (c.opened = 1 => c.segments # <<>>)
  BY <1>1, SegmentsType DEF Good, Typed, ContextType
<1>6. n \in 1 .. Len(h)
  <2>1. CASE c.opened = 1
    <3>1. c.segments \in Seq(Fragment) /\ c.segments # <<>>
      BY <1>1, <1>5, <2>1, SegmentsType
    <3>2. Len(c.segments) \in Nat \ {0}
      BY <3>1, EmptySeq
    <3> QED
      BY <1>4, <2>1, <3>2 DEF Current
  <2>2. CASE c.opened # 1
    BY <1>4, <1>5, <2>2 DEF Current
  <2> QED
    BY <2>1, <2>2
<1>7. c.held \in Seq(Given) /\ a \in Given
  <2>1. c.held \in Seq(AudioFrame)
    BY <1>1 DEF ContextType
  <2> QED
    BY <2>1 DEF Given
<1>8. ASSUME NEW i \in 1 .. Len(h) PROVE WrittenTo(c, i) \in Seq(Given)
  <2>1. CASE i <= Len(c.segments)
    <3>1. i \in 1 .. Len(c.segments)
      BY <1>4, <1>5, <2>1
    <3>2. c.segments[i] \in Fragment
      BY <1>1, <3>1, SegmentsType
    <3> QED
      BY <2>1, <3>2, FragmentCarries, StreamsType DEF WrittenTo
  <2>2. CASE ~(i <= Len(c.segments))
    BY <2>2 DEF WrittenTo
  <2> QED
    BY <2>1, <2>2
<1>9. /\ g \in Seq(Seq(Given)) /\ Len(g) = Len(h)
      /\ \A i \in 1 .. Len(h) : g[i] = IF i = n THEN Append(h[n], a) ELSE h[i]
  <2>1. h[n] \in Seq(Given)
    BY <1>4, <1>6
  <2>2. Append(h[n], a) \in Seq(Given)
    BY <1>7, <2>1
  <2> HIDE DEF n
  <2> QED
    BY <1>4, <1>6, <2>2
<1>10. Current(d) = n
  BY <1>2 DEF Current
<1> HIDE DEF g, n
<1>11. ASSUME NEW i \in 1 .. Len(h) PROVE WrittenTo(d, i) \o HeldFor(d, i) = g[i]
  <2>1. WrittenTo(d, i) = WrittenTo(c, i)
    BY <1>2 DEF WrittenTo
  <2>2. WrittenTo(c, i) \o HeldFor(c, i) = h[i]
    BY <1>4 DEF Delivered
  <2>3. CASE i # n
    <3>1. HeldFor(d, i) = <<>> /\ HeldFor(c, i) = <<>>
      BY <1>10, <2>3 DEF HeldFor, n
    <3> QED
      BY <1>9, <2>1, <2>2, <2>3, <3>1
  <2>4. CASE i = n
    <3>1. HeldFor(d, i) = Append(c.held, a) /\ HeldFor(c, i) = c.held
      BY <1>2, <1>10, <2>4 DEF HeldFor, n
    <3>2. ASSUME NEW x \in Seq(Given), NEW y \in Seq(Given)
          PROVE  x \o Append(y, a) = Append(x \o y, a)
      BY <1>7
    <3>3. WrittenTo(c, i) \o Append(c.held, a) = Append(WrittenTo(c, i) \o c.held, a)
      BY <1>7, <1>8, <3>2
    <3> QED
      BY <1>9, <2>1, <2>2, <2>4, <3>1, <3>3
  <2> QED
    BY <2>3, <2>4
<1>12. Delivered(d, g)
  BY <1>2, <1>4, <1>9, <1>11 DEF Delivered
<1> QED
  BY <1>3, <1>12 DEF Books, d, g, n

TakesIn(c, a) ==
  /\ a.size <= AudioBufferSize
  /\ c.opened = 0 => c.used + 7 <= AudioBufferSize

LEMMA AudioBooks ==
  ASSUME NEW c, Good(c), NEW h, Books(c, h), NEW a \in AudioFrame
  PROVE  Books(AudioEx(c, a), IF TakesIn(c, a) THEN [h EXCEPT ![Current(c)] = Append(@, a)] ELSE h)
<1> DEFINE u == UpdateFragment(c, Ticks(a.ts), 2)
           r == MakeRoom(u, a)
           f == FlushAudio(u)
<1>1. a.ts \in Nat /\ a.size \in Nat /\ a.size >= 7 /\ Ticks(a.ts) \in Nat
  BY InputAssumption DEF Ticks
<1>2. Good(u) /\ InPlace(c, u) /\ Books(u, h)
  BY <1>1, UpdateKeepsGood, UpdateInPlace, UpdateBooks DEF Good
<1>3. c.opened = 0 => u = c
  BY DEF UpdateFragment
<1>4. u.opened \in {0, 1} /\ u.used \in Nat /\ c.opened = u.opened
  BY <1>2 DEF Good, Typed, ContextType, InPlace
<1> HIDE DEF u
<1>5. Good(f) /\ InPlace(u, f) /\ Books(f, h)
  BY <1>2, FlushKeepsGood, FlushInPlace, FlushBooks DEF Good
<1>6. (u.opened = 1 => f.used = 0) /\ (u.opened = 0 => f = u)
  BY <1>2, FlushKeepsType DEF Good
<1>7. r = IF u.used + a.size > AudioBufferSize THEN f ELSE u
  BY DEF MakeRoom
<1>8. AudioEx(c, a) = IF a.size > AudioBufferSize THEN c
                      ELSE IF r.used + 7 > AudioBufferSize THEN r ELSE AppendAudio(r, a)
  BY DEF AudioEx, u
<1> HIDE DEF r, f
<1>9. Good(r) /\ InPlace(c, r) /\ Books(r, h)
  <2>1. InPlace(c, f)
    BY <1>2, <1>5, InPlaceComposes
  <2>2. r = f \/ r = u
    BY <1>7
  <2> QED
    BY <1>2, <1>5, <2>1, <2>2, Zenon
<1>10. Current(r) = Current(c)
  BY <1>9 DEF InPlace, Current
<1>11. ASSUME a.size <= AudioBufferSize
       PROVE  (r.used + 7 > AudioBufferSize) <=> ~TakesIn(c, a)
  <2>0. AudioBufferSize \in Nat /\ AudioBufferSize >= 7 /\ r.used \in Nat
    BY <1>9, ConfAssumption DEF Good, Typed, ContextType
  <2>1. CASE u.opened = 0
    <3>1. r = c
      BY <1>3, <1>4, <1>6, <1>7, <2>1
    <3> QED
      BY <1>4, <1>11, <2>0, <2>1, <3>1 DEF TakesIn
  <2>2. CASE u.opened = 1
    <3>1. TakesIn(c, a)
      BY <1>4, <1>11, <2>2 DEF TakesIn
    <3>2. CASE u.used + a.size > AudioBufferSize
      <4>1. r.used = 0
        BY <1>6, <1>7, <2>2, <3>2
      <4> QED
        BY <2>0, <3>1, <4>1
    <3>3. CASE ~(u.used + a.size > AudioBufferSize)
      <4>1. r = u
        BY <1>7, <3>3
      <4>2. r.used + a.size <= AudioBufferSize
        BY <1>1, <1>4, <2>0, <3>3, <4>1
      <4> QED
        BY <1>1, <2>0, <3>1, <4>2
    <3> QED
      BY <3>2, <3>3
  <2> QED
    BY <1>4, <2>1, <2>2
<1>12. CASE a.size > AudioBufferSize
  <2>1. ~(a.size <= AudioBufferSize)
    BY <1>1, <1>12, ConfAssumption
  <2>2. ~TakesIn(c, a)
    BY <2>1 DEF TakesIn
  <2>3. AudioEx(c, a) = c
    BY <1>8, <1>12
  <2> QED
    BY <2>2, <2>3
<1>13. CASE ~(a.size > AudioBufferSize)
  <2>1. a.size <= AudioBufferSize
    BY <1>1, <1>13, ConfAssumption
  <2>2. CASE ~TakesIn(c, a)
    <3>1. AudioEx(c, a) = r
      BY <1>8, <1>11, <1>13, <2>1, <2>2
    <3> QED
      BY <1>9, <2>2, <3>1
  <2>3. CASE TakesIn(c, a)
    <3>1. AudioEx(c, a) = AppendAudio(r, a)
      BY <1>8, <1>11, <1>13, <2>1, <2>3
    <3>2. Books(AppendAudio(r, a), [h EXCEPT ![Current(r)] = Append(@, a)])
      BY <1>9, AppendBooks
    <3> QED
      BY <1>10, <2>3, <3>1, <3>2
  <2> QED
    BY <2>2, <2>3
<1> QED
  BY <1>12, <1>13

LEMMA VideoBooks ==
  ASSUME NEW c, Good(c), NEW h, Books(c, h), NEW v \in VideoFrame
  PROVE  Books(VideoEx(c, v), h)
<1> DEFINE up  == IF v.key = 1 THEN UpdateFragment(c, Ticks(v.ts), 1) ELSE c
           pes == [ pid |-> VideoPid, dts |-> Ticks(v.ts), cc |-> up.video_cc,
                    n |-> VideoPackets(v), es |-> <<v>> ]
           q   == Put(up, pes)
           w   == [q EXCEPT !.video_cc = @ + VideoPackets(v)]
<1>1. v.ts \in Nat /\ v.size \in Nat /\ v.key \in {0, 1} /\ Ticks(v.ts) \in Nat
  BY InputAssumption DEF Ticks
<1>2. Good(up) /\ Books(up, h)
  <2>1. Good(UpdateFragment(c, Ticks(v.ts), 1)) /\ Books(UpdateFragment(c, Ticks(v.ts), 1), h)
    BY <1>1, UpdateKeepsGood, UpdateBooks
  <2> QED
    BY <2>1
<1>3. VideoEx(c, v) = IF v.size + 6 > VideoBufferSize THEN c
                      ELSE IF up.opened = 0 THEN up ELSE w
  BY DEF VideoEx
<1>4. VideoPackets(v) \in Nat
  <2>1. v.size + 6 \in Nat
    BY <1>1
  <2> QED
    BY <1>1, <2>1, PacketCountIsNat DEF VideoPackets
<1> HIDE DEF up
<1>5. up \in ContextType /\ up.opened \in {0, 1} /\ (up.opened = 1 => up.segments # <<>>)
  BY <1>2 DEF Good, Typed, ContextType
<1>6. pes \in Pes
  <2>1. up.video_cc \in Nat
    BY <1>5 DEF ContextType
  <2> QED
    BY <1>1, <1>4, <2>1 DEF Pes
<1>7. ASSUME up.opened = 1 PROVE Books(w, h)
  <2>1. Wrote(up, q, pes)
    BY <1>5, <1>6, <1>7, PutWrote
  <2>2. q = [up EXCEPT !.segments = q.segments]
    BY <1>5, <1>6, <1>7, PutTyped
  <2>3. pes.pid = VideoPid /\ pes.cc = up.video_cc /\ pes.n = VideoPackets(v) /\ VideoPid # AudioPid
    BY DEF VideoPid, AudioPid
  <2> HIDE DEF pes, q
  <2>4. /\ w.opened = q.opened /\ w.segments = q.segments /\ w.held = up.held
        /\ w.audio_cc = up.audio_cc /\ w.video_cc = up.video_cc + VideoPackets(v)
    BY SMTT(30), <1>5, <2>2 DEF ContextType
  <2> HIDE DEF w
  <2>5. Emitted(up, w, pes)
    BY <1>6, <2>1, <2>3, <2>4 DEF Emitted, Wrote, CounterIn, pes
  <2> QED
    BY <1>2, <1>5, <2>5, SentCounted, SentDelivered DEF Books
<1> HIDE DEF w
<1>8. \/ VideoEx(c, v) = c
      \/ VideoEx(c, v) = up
      \/ up.opened = 1 /\ VideoEx(c, v) = w
  BY <1>3, <1>5
<1> QED
  BY <1>2, <1>7, <1>8, Zenon

(* Opening a fragment, before the leftover audio is written to it. *)
LEMMA NewBooks ==
  ASSUME NEW c \in ContextType, c.opened = 0, NEW h, Books(c, h),
         NEW s \in Fragment, s.frames = <<>>,
         NEW d, d.opened = 1, d.segments = Append(c.segments, s), d.held = c.held,
         d.audio_cc = c.audio_cc, d.video_cc = c.video_cc
  PROVE  Books(d, Append(h, <<>>))
<1> DEFINE n == Len(c.segments)
           g == Append(h, <<>>)
<1>1. n \in Nat /\ c.segments \in Seq(Fragment)
  BY SegmentsType
<1>2. /\ Len(d.segments) = n + 1 /\ d.segments[n + 1] = s
      /\ \A i \in 1 .. n : d.segments[i] = c.segments[i]
  BY <1>1, AppendProperties
<1>3. Len(s.frames) = 0 /\ 1 .. Len(s.frames) = {}
  OBVIOUS
<1>4. Delivered(c, h) /\ h \in Seq(Seq(Given)) /\ Len(h) = n + 1
  BY DEF Books, Delivered
<1>5. /\ g \in Seq(Seq(Given)) /\ Len(g) = n + 2 /\ g[n + 2] = <<>>
      /\ \A i \in 1 .. n + 1 : g[i] = h[i]
  <2>1. <<>> \in Seq(Given)
    OBVIOUS
  <2> QED
    BY <1>1, <1>4, <2>1, AppendProperties
<1>6. Current(c) = n + 1 /\ Current(d) = n + 1
  BY <1>2 DEF Current
<1> HIDE DEF n, g
<1>7. Counted(d)
  <2>1. ASSUME NEW pid PROVE PlacesIn(d, pid) = PlacesIn(c, pid)
    <3>1. ASSUME NEW p \in PlacesIn(c, pid) PROVE p \in PlacesIn(d, pid)
      <4>1. PICK i \in 1 .. n : \E j \in 1 .. Len(c.segments[i].frames) :
               p = <<i, j>> /\ c.segments[i].frames[j].pid = pid
        BY PlaceIn DEF n
      <4>2. i \in 1 .. Len(d.segments) /\ d.segments[i] = c.segments[i]
        BY <1>1, <1>2
      <4> QED
        BY <4>1, <4>2, PlaceIn
    <3>2. ASSUME NEW p \in PlacesIn(d, pid) PROVE p \in PlacesIn(c, pid)
      <4>1. PICK i \in 1 .. Len(d.segments) : \E j \in 1 .. Len(d.segments[i].frames) :
               p = <<i, j>> /\ d.segments[i].frames[j].pid = pid
        <5>1. PICK e : e = d
          OBVIOUS
        <5>2. p \in PlacesIn(e, pid)
          BY <5>1, Zenon
        <5>3. \E i \in 1 .. Len(e.segments) : \E j \in 1 .. Len(e.segments[i].frames) :
                p = <<i, j>> /\ e.segments[i].frames[j].pid = pid
          BY <5>2, PlaceIn
        <5> QED
          BY <5>1, <5>3, Zenon
      <4>2. i # n + 1
        BY <1>2, <1>3, <4>1
      <4>3. i \in 1 .. Len(c.segments) /\ d.segments[i] = c.segments[i]
        BY <1>1, <1>2, <4>2 DEF n
      <4> QED
        BY <4>1, <4>3, PlaceIn
    <3> QED
      BY <3>1, <3>2
  <2>2. ASSUME NEW pid, NEW p \in PlacesIn(c, pid)
        PROVE  FrameAt(d, p) = FrameAt(c, p) /\ After(d, p) = After(c, p)
    <3>1. PICK i \in 1 .. n : \E j \in 1 .. Len(c.segments[i].frames) : p = <<i, j>>
      BY PlaceIn DEF n
    <3>2. p[1] = i
      BY <3>1
    <3>3. d.segments[p[1]] = c.segments[p[1]]
      BY <1>2, <3>1, <3>2
    <3> QED
      BY <3>3 DEF FrameAt, After
  <2>3. \A pid : CounterIn(d, pid) = CounterIn(c, pid)
    BY DEF CounterIn
  <2>4. Counted(c)
    BY DEF Books
  <2> QED
    BY <2>1, <2>2, <2>3, <2>4 DEF Counted
<1>8. ASSUME NEW i \in 1 .. n + 2 PROVE WrittenTo(d, i) \o HeldFor(d, i) = g[i]
  <2>1. CASE i = n + 2
    <3>1. WrittenTo(d, i) = <<>> /\ HeldFor(d, i) = <<>>
      BY <1>1, <1>2, <1>6, <2>1 DEF WrittenTo, HeldFor
    <3> QED
      BY <1>5, <2>1, <3>1
  <2>2. CASE i = n + 1
    <3>1. WrittenTo(d, i) = <<>>
      BY <1>1, <1>2, <2>2, FramesInEmpty DEF WrittenTo
    <3>2. WrittenTo(c, i) = <<>>
      BY <1>1, <2>2 DEF WrittenTo, n
    <3>3. HeldFor(d, i) = HeldFor(c, i)
      BY <1>6, <2>2 DEF HeldFor
    <3>4. WrittenTo(c, i) \o HeldFor(c, i) = h[i] /\ g[i] = h[i]
      <4>1. i \in 1 .. Len(h) /\ i \in 1 .. n + 1
        BY <1>1, <1>4, <2>2
      <4> QED
        BY <1>4, <1>5, <4>1, Zenon DEF Delivered
    <3> QED
      BY <3>1, <3>2, <3>3, <3>4
  <2>3. CASE i \in 1 .. n
    <3>1. WrittenTo(d, i) = WrittenTo(c, i)
      BY <1>1, <1>2, <2>3 DEF WrittenTo, n
    <3>2. HeldFor(d, i) = HeldFor(c, i)
      BY <1>6 DEF HeldFor
    <3>3. WrittenTo(c, i) \o HeldFor(c, i) = h[i] /\ g[i] = h[i]
      <4>1. i \in 1 .. Len(h) /\ i \in 1 .. n + 1
        BY <1>1, <1>4, <2>3
      <4> QED
        BY <1>4, <1>5, <4>1, Zenon DEF Delivered
    <3> QED
      BY <3>1, <3>2, <3>3
  <2> QED
    BY <1>1, <2>1, <2>2, <2>3
<1>9. Len(g) = Len(d.segments) + 1
  BY <1>1, <1>2, <1>5
<1>10. Delivered(d, g)
  BY <1>5, <1>8, <1>9 DEF Delivered
<1> QED
  BY <1>7, <1>10 DEF Books, g

LEMMA OpenBooks ==
  ASSUME NEW c, Good(c), NEW h, Books(c, h), NEW name \in Nat, NEW m \in {0, 1}, NEW k \in {0, 1}
  PROVE  LET d == OpenFragment(c, name, m, k)
         IN  Books(d, IF Len(d.segments) > Len(c.segments) THEN Append(h, <<>>) ELSE h)
<1> DEFINE new == [name |-> name, frames |-> <<>>]
           s == Append(c.segments, new)
           o == [c EXCEPT !.opened = 1, !.flag_m3u8 = m, !.segments = s]
           e == [c EXCEPT !.flag_m3u8 = 0]
           d == OpenFragment(c, name, m, k)
           Result(x) == Books(x, IF Len(x.segments) > Len(c.segments) THEN Append(h, <<>>) ELSE h)
<1>1. c \in ContextType /\ Typed(c) /\ c.opened \in {0, 1} /\ Len(c.segments) \in Nat
  BY SegmentsType DEF Good, Typed, ContextType
<1>2. d = IF c.opened = 1 THEN c ELSE IF m = 0 /\ k = 0 THEN e ELSE FlushAudio(o)
  BY DEF OpenFragment
<1>3. Result(c)
  BY <1>1
<1>4. Result(e)
  <2>1. Still(c, e)
    BY <1>1 DEF Still, ContextType
  <2> HIDE DEF e
  <2>2. Books(e, h)
    BY <2>1, IdleCounted, IdleDelivered DEF Books
  <2> QED
    BY <1>1, <2>1, <2>2 DEF Still
<1>5. ASSUME c.opened = 0 PROVE Result(FlushAudio(o))
  <2>1. new \in Fragment /\ new.frames = <<>>
    <3>1. <<>> \in Seq(Pes)
      OBVIOUS
    <3> QED
      BY <3>1 DEF Fragment
  <2> HIDE DEF new
  <2>2. c.segments \in Seq(Fragment)
    BY <1>1, SegmentsType
  <2>3. s \in Seq(Fragment) /\ s # <<>> /\ Len(s) = Len(c.segments) + 1
    BY <2>1, <2>2, AppendProperties
  <2>4. /\ o \in ContextType /\ o.opened = 1 /\ o.segments = s /\ o.used = c.used /\ o.held = c.held
        /\ o.audio_cc = c.audio_cc /\ o.video_cc = c.video_cc
    <3> HIDE DEF s
    <3> QED
      BY <1>1, <2>3 DEF ContextType
  <2> HIDE DEF o
  <2>5. Books(o, Append(h, <<>>))
    BY <1>1, <1>5, <2>1, <2>4, NewBooks
  <2> HIDE DEF s
  <2>6. Typed(o)
    BY <1>1, <2>3, <2>4 DEF Typed
  <2>7. Books(FlushAudio(o), Append(h, <<>>)) /\ InPlace(o, FlushAudio(o))
    BY <2>5, <2>6, FlushBooks, FlushInPlace
  <2> QED
    BY <1>1, <2>3, <2>4, <2>7 DEF InPlace
<1> HIDE DEF e, o, Result, d
<1>6. d = c \/ d = e \/ (c.opened = 0 /\ d = FlushAudio(o))
  BY <1>1, <1>2
<1>7. Result(d)
  BY <1>3, <1>4, <1>5, <1>6, Zenon
<1> QED
  BY <1>7 DEF Result, d

LEMMA CloseBooks ==
  ASSUME NEW c, Good(c), NEW h, Books(c, h)
  PROVE  Books(CloseFragment(c), h)
<1> DEFINE f == FlushAudio(c)
           g == [f EXCEPT !.opened = 0, !.aframe_num = 0]
<1>1. Typed(c) /\ c.opened \in {0, 1}
  BY DEF Good, Typed, ContextType
<1>2. CloseFragment(c) = IF c.opened = 0 THEN c ELSE g
  BY DEF CloseFragment
<1>3. /\ Books(f, h) /\ f \in ContextType /\ f.opened = c.opened
      /\ c.opened = 1 => f.held = <<>>
  BY <1>1, FlushBooks, FlushKeepsType DEF Typed
<1> HIDE DEF f
<1>4. /\ g.opened = 0 /\ g.segments = f.segments /\ g.held = f.held
      /\ g.audio_cc = f.audio_cc /\ g.video_cc = f.video_cc
  BY <1>3 DEF ContextType
<1> HIDE DEF g
<1>5. ASSUME c.opened = 1 PROVE Books(g, h)
  <2>1. Counted(g)
    <3>1. \A pid : PlacesIn(g, pid) = PlacesIn(f, pid) /\ CounterIn(g, pid) = CounterIn(f, pid)
      BY <1>4 DEF PlacesIn, CounterIn
    <3>2. \A p : FrameAt(g, p) = FrameAt(f, p) /\ After(g, p) = After(f, p)
      BY <1>4 DEF FrameAt, After
    <3>3. Counted(f)
      BY <1>3 DEF Books
    <3> QED
      BY <3>1, <3>2, <3>3 DEF Counted
  <2>2. \A i : WrittenTo(g, i) = WrittenTo(f, i)
    BY <1>4 DEF WrittenTo
  <2>3. \A i : HeldFor(g, i) = <<>> /\ HeldFor(f, i) = <<>>
    BY <1>3, <1>4, <1>5 DEF HeldFor
  <2>4. Delivered(f, h)
    BY <1>3 DEF Books
  <2>5. Delivered(g, h)
    BY <1>4, <2>2, <2>3, <2>4 DEF Delivered
  <2> QED
    BY <2>1, <2>5 DEF Books
<1> QED
  BY <1>1, <1>2, <1>5

-----------------------------------------------------------------------------
LEMMA InitBooks == Init => Books(ctx, heard)
<1> SUFFICES ASSUME Init PROVE Books(ctx, heard)
  OBVIOUS
<1>1. ctx.segments = <<>> /\ ctx.held = <<>> /\ ctx.opened = 0
  BY DEF Init, NewContext
<1>2. heard = <<<<>>>>
  BY DEF Init
<1>3. Len(ctx.segments) = 0 /\ 1 .. Len(ctx.segments) = {}
  BY <1>1
<1>4. \A pid : PlacesIn(ctx, pid) = {}
  BY <1>3 DEF PlacesIn
<1>5. Counted(ctx)
  BY <1>4 DEF Counted
<1>6. heard \in Seq(Seq(Given)) /\ Len(heard) = 1 /\ heard[1] = <<>>
  BY <1>2
<1>7. WrittenTo(ctx, 1) = <<>> /\ HeldFor(ctx, 1) = <<>>
  BY <1>1, <1>3 DEF WrittenTo, HeldFor
<1>8. WrittenTo(ctx, 1) \o HeldFor(ctx, 1) = heard[1]
  BY <1>6, <1>7
<1>9. \A i \in 1 .. Len(heard) : i = 1
  BY <1>6
<1>10. Delivered(ctx, heard)
  BY <1>3, <1>6, <1>8, <1>9 DEF Delivered
<1> QED
  BY <1>5, <1>10 DEF Books

LEMMA NextKeepsBooks == IInv /\ Books(ctx, heard) /\ [Next]_vars => Books(ctx', heard')
<1> SUFFICES ASSUME IInv, Books(ctx, heard), [Next]_vars PROVE Books(ctx', heard')
  OBVIOUS
<1>1. Good(ctx) /\ ctx \in ContextType
  BY DEF IInv, Good, Typed
<1>2. ASSUME NEW m \in {0, 1}, NEW w \in {0, 1}, Open(m, w) PROVE Books(ctx', heard')
  <2>1. Len(ctx.segments) + 1 \in Nat
    BY <1>1, SegmentsType
  <2>2. PICK n \in Nat : n = Len(ctx.segments) + 1
    BY <2>1
  <2>3. ctx' = OpenFragment(ctx, n, m, w)
    BY <1>2, <2>2 DEF Open
  <2>4. heard' = IF Len(ctx'.segments) > Len(ctx.segments) THEN Append(heard, <<>>) ELSE heard
    BY <1>2 DEF Open
  <2> QED
    BY <1>1, <2>3, <2>4, OpenBooks
<1>3. CASE Close
  BY <1>1, <1>3, CloseBooks DEF Close
<1>4. ASSUME NEW a \in AudioFrame, Audio(a) PROVE Books(ctx', heard')
  <2>1. Takes(a) <=> TakesIn(ctx, a)
    BY DEF Takes, TakesIn
  <2>2. CurrentFragment = Current(ctx)
    BY DEF CurrentFragment, Current
  <2>3. /\ ctx' = AudioEx(ctx, a)
        /\ heard' = IF TakesIn(ctx, a) THEN [heard EXCEPT ![Current(ctx)] = Append(@, a)] ELSE heard
    BY <1>4, <2>1, <2>2 DEF Audio
  <2> QED
    BY <1>1, <2>3, AudioBooks
<1>5. ASSUME NEW v \in VideoFrame, Video(v) PROVE Books(ctx', heard')
  BY <1>1, <1>5, VideoBooks DEF Video
<1>6. CASE UNCHANGED vars
  BY <1>6 DEF vars
<1> QED
  BY <1>2, <1>3, <1>4, <1>5, <1>6 DEF Next

LEMMA BooksHold == Spec => [](Books(ctx, heard))
<1>1. (IInv /\ Books(ctx, heard)) /\ [Next]_vars => Books(ctx, heard)'
  BY NextKeepsBooks
<1> QED
  BY <1>1, InitBooks, InvariantHolds, PTL DEF Spec

(* Each stream's continuity counter runs on over all its frames, across    *)
(* the fragments, and the context carries the value the next frame starts  *)
(* from (frame.cc, lines 858-874 and 1041-1072 of ngx_rtmp_hls_module.cpp),*)
(* whatever the calls and their order.                                     *)
THEOREM CountersRunOn == Spec => []CountersContinue
<1>1. Books(ctx, heard) => CountersContinue
  <2> SUFFICES ASSUME Counted(ctx) PROVE CountersContinue
    BY DEF Books
  <2>1. \A pid : Places(pid) = PlacesIn(ctx, pid) /\ Counter(pid) = CounterIn(ctx, pid)
    BY DEF Places, PlacesIn, Counter, CounterIn
  <2>2. \A p : CounterAfter(p) = After(ctx, p)
    BY DEF CounterAfter, After, FrameAt
  <2> QED
    BY <2>1, <2>2 DEF Counted, CountersContinue, FrameAt
<1> QED
  BY <1>1, BooksHold, PTL

(* Every audio frame the writer takes is written once, in order, and into  *)
(* the fragment it was meant for, or still waits in the buffer: nothing is *)
(* lost with a fragment that closes (close_fragment_ex2 flushes first).    *)
THEOREM AudioIsDelivered == Spec => []AudioDelivered
<1>1. Books(ctx, heard) => AudioDelivered
  <2> SUFFICES ASSUME Delivered(ctx, heard) PROVE AudioDelivered
    BY DEF Books
  <2>1. CurrentFragment = Current(ctx)
    BY DEF CurrentFragment, Current
  <2> QED
    BY <2>1 DEF AudioDelivered, Delivered, WrittenTo, HeldFor
<1> QED
  BY <1>1, BooksHold, PTL
=============================================================================
