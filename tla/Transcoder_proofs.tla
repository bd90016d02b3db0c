-------------------------- MODULE Transcoder_proofs --------------------------
(***************************************************************************)
(* Proofs about a run of the converter, for any file, options, segment     *)
(* number and buffer sizes, and about a run that starts at one of its      *)
(* segments, read beside it.                                               *)
(***************************************************************************)
EXTENDS SeekReplay, HlsContext_proofs, FiniteSetTheorems, FunctionTheorems

(* The first frame of each stream in a segment has the counter its name    *)
(* gives.                                                                  *)
Resumed(s) ==
  \A j \in 1 .. Len(s.frames) :
    (\A k \in 1 .. j - 1 : s.frames[k].pid # s.frames[j].pid) =>
      s.frames[j].cc % U32 = NamedCounter(s.name, s.frames[j].pid)

(* A stream with no frame in segment s yet will go on from s's name. *)
Awaited(c, s) ==
  \A pid \in {AudioPid, VideoPid} :
    (\A j \in 1 .. Len(s.frames) : s.frames[j].pid # pid) =>
      CounterOf(c, pid) % U32 = NamedCounter(s.name, pid)

Resumes(c) ==
  /\ \A i \in 1 .. Len(c.segments) : Resumed(c.segments[i])
  /\ c.opened = 1 => Awaited(c, c.segments[Len(c.segments)])

(* The counters of a segment's frames after one more frame. *)
LEMMA PacketResumes ==
  ASSUME NEW s, s.frames \in Seq(Packet), NEW pes \in Packet,
         NEW t, t.frames = Append(s.frames, pes), t.name = s.name,
         NEW c, NEW d, Resumed(s), Awaited(c, s), pes.cc = CounterOf(c, pes.pid),
         \A pid \in {AudioPid, VideoPid} : pid # pes.pid => CounterOf(d, pid) = CounterOf(c, pid)
  PROVE  Resumed(t) /\ Awaited(d, t)
<1> DEFINE n == Len(s.frames)
<1>1. /\ n \in Nat /\ Len(t.frames) = n + 1 /\ t.frames[n + 1] = pes
      /\ \A j \in 1 .. n : t.frames[j] = s.frames[j]
  OBVIOUS
<1>2. pes.pid \in {AudioPid, VideoPid}
  BY DEF Packet
<1>3. Resumed(t)
  <2> SUFFICES ASSUME NEW j \in 1 .. Len(t.frames),
                      \A k \in 1 .. j - 1 : t.frames[k].pid # t.frames[j].pid
               PROVE  t.frames[j].cc % U32 = NamedCounter(t.name, t.frames[j].pid)
    BY DEF Resumed
  <2>1. CASE j = n + 1
    <3>1. \A k \in 1 .. n : s.frames[k].pid # pes.pid
      BY <1>1, <2>1
    <3>2. CounterOf(c, pes.pid) % U32 = NamedCounter(s.name, pes.pid)
      BY <1>2, <3>1 DEF Awaited
    <3> QED
      BY <1>1, <2>1, <3>2
  <2>2. CASE j # n + 1
    <3>1. j \in 1 .. n /\ \A k \in 1 .. j - 1 : k \in 1 .. n
      BY <1>1, <2>2
    <3>2. \A k \in 1 .. j - 1 : s.frames[k].pid # s.frames[j].pid
      BY <1>1, <3>1
    <3>3. s.frames[j].cc % U32 = NamedCounter(s.name, s.frames[j].pid)
      BY <3>1, <3>2 DEF Resumed
    <3> QED
      BY <1>1, <3>1, <3>3
  <2> QED
    BY <2>1, <2>2
<1>4. Awaited(d, t)
  <2> SUFFICES ASSUME NEW pid \in {AudioPid, VideoPid},
                      \A j \in 1 .. Len(t.frames) : t.frames[j].pid # pid
               PROVE  CounterOf(d, pid) % U32 = NamedCounter(t.name, pid)
    BY DEF Awaited
  <2>1. n + 1 \in 1 .. Len(t.frames)
    BY <1>1
  <2>2. pid # pes.pid
    BY <1>1, <2>1
  <2>3. \A j \in 1 .. n : j \in 1 .. Len(t.frames)
    BY <1>1
  <2>4. \A j \in 1 .. n : s.frames[j].pid # pid
    BY <1>1, <2>3
  <2>5. CounterOf(c, pid) % U32 = NamedCounter(s.name, pid)
    BY <2>4 DEF Awaited
  <2> QED
    BY <2>2, <2>5
<1> QED
  BY <1>3, <1>4

LEMMA SentResumes ==
  ASSUME NEW c, WellFormed(c), NEW d, NEW pes, Sent(c, d, pes), Resumes(c)
  PROVE  Resumes(d)
<1> DEFINE n == Len(c.segments)
<1>0. c.opened = 1 /\ d.opened = 1 /\ pes \in Packet /\ pes.cc = CounterOf(c, pes.pid)
  BY DEF Sent
<1>1. /\ c.segments \in SegmentSeq(Name, Packet) /\ c.segments # <<>>
      /\ n \in Nat /\ n \in 1 .. n
  BY <1>0, LastSegment
<1>2. /\ Len(d.segments) = n /\ \A i \in 1 .. n - 1 : d.segments[i] = c.segments[i]
      /\ c.segments[n].frames \in Seq(Packet)
      /\ d.segments[n].frames = Append(c.segments[n].frames, pes)
      /\ d.segments[n].name = c.segments[n].name
  <2>1. PICK ss : ss = c.segments
    OBVIOUS
  <2>2. d.segments = WithFrame(ss, pes)
    BY <2>1 DEF Sent
  <2>3. /\ Len(WithFrame(ss, pes)) = Len(ss)
        /\ \A i \in 1 .. Len(ss) - 1 : WithFrame(ss, pes)[i] = ss[i]
        /\ ss[Len(ss)].frames \in Seq(Packet)
        /\ WithFrame(ss, pes)[Len(ss)].frames = Append(ss[Len(ss)].frames, pes)
        /\ WithFrame(ss, pes)[Len(ss)].name = ss[Len(ss)].name
    <3>1. ss \in SegmentSeq(Name, Packet) /\ ss # <<>> /\ pes \in Packet
      BY <1>0, <1>1, <2>1
    <3> QED
      BY <3>1, FrameWritten
  <2> QED
    BY <2>1, <2>2, <2>3
<1>3. \A pid \in {AudioPid, VideoPid} : pid # pes.pid => CounterOf(d, pid) = CounterOf(c, pid)
  BY DEF Sent, CounterOf, Packet
<1>4. Resumed(c.segments[n]) /\ Awaited(c, c.segments[n])
  BY <1>0, <1>1 DEF Resumes
<1>5. Resumed(d.segments[n]) /\ Awaited(d, d.segments[n])
  <2>1. PICK s, t : s = c.segments[n] /\ t = d.segments[n]
    OBVIOUS
  <2>2. /\ s.frames \in Seq(Packet) /\ t.frames = Append(s.frames, pes) /\ t.name = s.name
        /\ Resumed(s) /\ Awaited(c, s)
    BY <1>2, <1>4, <2>1
  <2>3. Resumed(t) /\ Awaited(d, t)
    BY <1>0, <1>3, <2>2, PacketResumes
  <2> QED
    BY <2>1, <2>3
<1>6. ASSUME NEW i \in 1 .. n PROVE Resumed(d.segments[i])
  <2>1. CASE i = n
    BY <1>5, <2>1
  <2>2. CASE i # n
    <3>1. i \in 1 .. n - 1
      BY <1>1, <2>2
    <3>2. d.segments[i] = c.segments[i]
      BY <1>2, <3>1
    <3> QED
      BY <3>2 DEF Resumes
  <2> QED
    BY <2>1, <2>2
<1> QED
  BY <1>2, <1>5, <1>6 DEF Resumes

LEMMA IdleResumes ==
  ASSUME NEW c, NEW d, Idle(c, d), Resumes(c)
  PROVE  Resumes(d)
BY DEF Idle, Resumes, Awaited, CounterOf

-----------------------------------------------------------------------------
LEMMA FlushedKeeps ==
  ASSUME NEW c, WellFormed(c), NEW f, Flushed(c, f)
  PROVE  Keeps(c, f) /\ (Resumes(c) => Resumes(f)) /\ Len(f.segments) = Len(c.segments)
<1>1. CASE f = c
  BY <1>1 DEF Keeps
<1>2. ASSUME NEW pes, Sent(c, f, pes), pes.pid = AudioPid
      PROVE  Keeps(c, f) /\ (Resumes(c) => Resumes(f)) /\ Len(f.segments) = Len(c.segments)
  <2>1. f \in WriterType
    BY DEF Flushed, WellFormed
  <2>2. Keeps(c, f)
    BY <1>2, <2>1, AudioSentKeeps
  <2>3. Resumes(c) => Resumes(f)
    BY <1>2, SentResumes
  <2>4. Len(f.segments) = Len(c.segments)
    BY <1>2, SentSegments
  <2> QED
    BY <2>2, <2>3, <2>4
<1> QED
  BY <1>1, <1>2 DEF Flushed

(* The same tracks, names and state, perhaps with the buffer written out.  *)
Same(c, d) ==
  /\ WellFormed(d) /\ d.opened = c.opened
  /\ Keeps(c, d) /\ Len(d.segments) = Len(c.segments)
  /\ Resumes(c) => Resumes(d)

LEMMA SameItself ==
  ASSUME NEW c, WellFormed(c)
  PROVE  Same(c, c)
BY DEF Same, Keeps

LEMMA SameComposes ==
  ASSUME NEW c, NEW d, NEW e, Same(c, d), Same(d, e)
  PROVE  Same(c, e)
BY DEF Same, Keeps

LEMMA FlushSame ==
  ASSUME NEW c, WellFormed(c)
  PROVE  /\ Same(c, FlushAudio(c))
         /\ c.opened = 1 => FlushAudio(c).used = 0
         /\ c.opened = 0 => FlushAudio(c) = c
<1>1. PICK f : f = FlushAudio(c)
  OBVIOUS
<1>2. Flushed(c, f) /\ (c.opened = 0 => f = c)
  BY <1>1, FlushFlushes
<1>3. Keeps(c, f) /\ (Resumes(c) => Resumes(f)) /\ Len(f.segments) = Len(c.segments)
  BY <1>2, FlushedKeeps
<1> QED
  BY <1>1, <1>2, <1>3 DEF Same, Flushed

LEMMA UpdateSame ==
  ASSUME NEW c, WellFormed(c), NEW ts, NEW rate
  PROVE  /\ Same(c, UpdateFragment(c, ts, rate))
         /\ c.opened = 0 => UpdateFragment(c, ts, rate) = c
<1>1. \/ UpdateFragment(c, ts, rate) = c
      \/ c.opened = 1 /\ UpdateFragment(c, ts, rate) = FlushAudio(c)
  BY DEF UpdateFragment
<1>2. c.opened = 1 => c.opened # 0
  OBVIOUS
<1> QED
  BY <1>1, <1>2, SameItself, FlushSame

(* An audio frame that fits goes to the end of the open segment's track.   *)
LEMMA AudioAdds ==
  ASSUME NEW c, WellFormed(c), c.opened = 1,
         NEW a \in [ts : Nat, size : Nat], a.size >= 7, a.size <= AudioBufferSize - 7
  PROVE  LET d == AudioEx(c, a)
         IN  /\ WellFormed(d) /\ d.opened = 1
             /\ TracksOf(d) = WithAudio(TracksOf(c), a) /\ NamesOf(d) = NamesOf(c)
             /\ Resumes(c) => Resumes(d)
<1>1. PICK u : u = UpdateFragment(c, Ticks(a.ts), 2)
  OBVIOUS
<1>2. Same(c, u) /\ WellFormed(u) /\ u.opened = 1
  BY <1>1, UpdateSame DEF Same
<1>3. PICK r : r = MakeRoom(u, a)
  OBVIOUS
<1>4. a.size \in Nat /\ u.used \in Nat
  BY <1>2 DEF WellFormed, WriterType
<1>5. Same(u, r) /\ r.used + a.size <= AudioBufferSize
  <2>1. CASE u.used + a.size > AudioBufferSize
    <3>1. r = FlushAudio(u)
      BY <1>3, <2>1 DEF MakeRoom
    <3>2. Same(u, r) /\ r.used = 0
      BY <1>2, <3>1, FlushSame
    <3> QED
      BY <1>4, <3>2, ConfAssumption
  <2>2. CASE ~(u.used + a.size > AudioBufferSize)
    <3>1. r = u
      BY <1>3, <2>2 DEF MakeRoom
    <3> QED
      BY <1>2, <1>4, <2>2, <3>1, SameItself, ConfAssumption
  <2> QED
    BY <2>1, <2>2
<1>6. Same(c, r) /\ WellFormed(r) /\ r.opened = 1
  BY <1>2, <1>5, SameComposes DEF Same
<1>7. r.used \in Nat
  BY <1>6 DEF WellFormed, WriterType
<1>8. AudioEx(c, a) = IF a.size > AudioBufferSize THEN c
                      ELSE IF r.used + 7 > AudioBufferSize THEN r ELSE AppendAudio(r, a)
  BY <1>1, <1>3 DEF AudioEx
<1>9. PICK d : d = AudioEx(c, a)
  OBVIOUS
<1>10. d = AppendAudio(r, a)
  <2>1. ~(a.size > AudioBufferSize) /\ ~(r.used + 7 > AudioBufferSize)
    BY <1>4, <1>5, <1>7, ConfAssumption
  <2> QED
    BY <1>8, <1>9, <2>1
<1>11. a.size > 0 /\ a \in Frame
  BY <1>4 DEF Frame
<1>12. WellFormed(d) /\ d.opened = 1 /\ Heard(r, d, a)
  BY <1>5, <1>6, <1>10, <1>11, AppendHears
<1>13. d \in WriterType
  BY <1>12 DEF WellFormed
<1>14. TracksOf(d) = WithAudio(TracksOf(r), a) /\ NamesOf(d) = NamesOf(r)
  BY <1>6, <1>11, <1>12, <1>13, HeardAdds
<1>15. Resumes(r) => Resumes(d)
  BY <1>12, IdleResumes DEF Heard
<1>16. TracksOf(r) = TracksOf(c) /\ NamesOf(r) = NamesOf(c) /\ (Resumes(c) => Resumes(r))
  BY <1>6 DEF Same, Keeps
<1> QED
  BY <1>9, <1>12, <1>14, <1>15, <1>16

(* Without an open fragment nothing is written. *)
LEMMA AudioWaits ==
  ASSUME NEW c, WellFormed(c), c.opened = 0, NEW a \in [ts : Nat, size : Nat], a.size >= 7
  PROVE  LET d == AudioEx(c, a)
         IN  WellFormed(d) /\ d.opened = 0 /\ d.segments = c.segments
<1>1. UpdateFragment(c, Ticks(a.ts), 2) = c
  BY UpdateSame
<1>2. MakeRoom(c, a) = c
  BY FlushSame DEF MakeRoom
<1>3. AudioEx(c, a) = c \/ AudioEx(c, a) = AppendAudio(c, a)
  BY <1>1, <1>2 DEF AudioEx
<1>4. c.opened # 1 /\ a.size > 0
  OBVIOUS
<1>5. PICK n : n = AppendAudio(c, a)
  OBVIOUS
<1>6. WellFormed(n) /\ n.opened = 0 /\ Heard(c, n, a)
  BY <1>4, <1>5, AppendHears
<1> QED
  BY <1>3, <1>5, <1>6 DEF Heard, Idle

(* A picture that fits goes to the end of the open segment's track.        *)
LEMMA VideoAdds ==
  ASSUME NEW c, WellFormed(c), c.opened = 1,
         NEW v \in [ts : Nat, size : Nat, key : {0, 1}], v.size + 6 <= VideoBufferSize
  PROVE  LET d == VideoEx(c, v)
         IN  /\ WellFormed(d) /\ d.opened = 1
             /\ TracksOf(d) = WithVideo(TracksOf(c), v) /\ NamesOf(d) = NamesOf(c)
             /\ Resumes(c) => Resumes(d)
<1>1. PICK u : u = IF v.key = 1 THEN UpdateFragment(c, Ticks(v.ts), 1) ELSE c
  OBVIOUS
<1>2. Same(c, u)
  BY <1>1, UpdateSame, SameItself
<1>3. WellFormed(u) /\ u.opened = 1 /\ u \in WriterType
  BY <1>2 DEF Same, WellFormed
<1>4. PICK pes : pes = [ pid |-> VideoPid, dts |-> Ticks(v.ts), cc |-> u.video_cc,
                         n |-> VideoPackets(v), es |-> <<v>> ]
  OBVIOUS
<1>5. v.ts \in Nat /\ v.size \in Nat /\ v.key \in {0, 1} /\ v \in Frame
  BY DEF Frame
<1>6. VideoPackets(v) \in Nat
  <2>1. v.size + 6 \in Nat
    BY <1>5
  <2> QED
    BY <1>5, <2>1, PacketCountIsNat DEF VideoPackets
<1>7. pes \in Packet /\ pes.pid = VideoPid /\ pes.cc = u.video_cc /\ pes.es = <<v>>
  <2>1. Ticks(v.ts) \in Nat /\ u.video_cc \in Nat /\ <<v>> \in Seq(Frame)
    BY <1>3, <1>5 DEF Ticks, WriterType
  <2> QED
    BY <1>4, <1>6, <2>1 DEF Packet
<1>8. PICK d : d = VideoEx(c, v)
  OBVIOUS
<1>9. d = [Put(u, pes) EXCEPT !.video_cc = @ + VideoPackets(v)]
  <2>1. ~(v.size + 6 > VideoBufferSize)
    BY <1>5, ConfAssumption
  <2> QED
    BY <1>1, <1>3, <1>4, <1>8, <2>1 DEF VideoEx
<1>10. PICK ss \in SegmentSeq(Name, Packet) : ss = WithFrame(u.segments, pes) /\ ss # <<>>
  BY <1>3, <1>7, PutType
<1>11. PICK q \in WriterType :
         /\ q = Put(u, pes) /\ q.segments = ss /\ q.opened = 1 /\ q.used = u.used
         /\ q.held = u.held /\ q.audio_cc = u.audio_cc
  <2>1. Put(u, pes) = WithSegments(u, ss)
    BY <1>3, <1>7, <1>10, PutType
  <2> QED
    BY <1>3, <1>10, <2>1, SegmentsSet
<1>12. PICK m \in Nat : m = q.video_cc + VideoPackets(v)
  BY <1>6, <1>11 DEF WriterType
<1>13. /\ d \in WriterType /\ d.segments = ss /\ d.opened = 1 /\ d.used = u.used
       /\ d.held = u.held /\ d.audio_cc = u.audio_cc
  <2>1. d = [q EXCEPT !.video_cc = m]
    BY <1>9, <1>11, <1>12
  <2>2. q \in WriterType /\ m \in Nat
    BY <1>11, <1>12
  <2>3. /\ d \in WriterType /\ d.segments = q.segments /\ d.opened = q.opened /\ d.used = q.used
        /\ d.held = q.held /\ d.audio_cc = q.audio_cc
    BY <2>1, <2>2 DEF WriterType
  <2> QED
    BY <1>11, <2>3
<1>14. WellFormed(d)
  BY <1>3, <1>10, <1>13 DEF WellFormed
<1>15. Sent(u, d, pes)
  BY <1>3, <1>7, <1>10, <1>13 DEF Sent, CounterOf, AudioPid, VideoPid
<1>16. TracksOf(d) = WithVideo(TracksOf(u), v) /\ NamesOf(d) = NamesOf(u)
  BY <1>3, <1>5, <1>7, <1>13, <1>15, VideoSentAdds
<1>17. Resumes(u) => Resumes(d)
  BY <1>3, <1>15, SentResumes
<1>18. TracksOf(u) = TracksOf(c) /\ NamesOf(u) = NamesOf(c) /\ (Resumes(c) => Resumes(u))
  BY <1>2 DEF Same, Keeps
<1> QED
  BY <1>8, <1>13, <1>14, <1>16, <1>17, <1>18

LEMMA VideoLost ==
  ASSUME NEW c, WellFormed(c), c.opened = 0, NEW v
  PROVE  VideoEx(c, v) = c
<1>1. UpdateFragment(c, Ticks(v.ts), 1) = c
  BY UpdateSame
<1> QED
  BY <1>1 DEF VideoEx

(* Opening and closing. *)
LEMMA CloseKeeps ==
  ASSUME NEW c, WellFormed(c), c.opened = 1
  PROVE  LET d == CloseFragment(c)
         IN  /\ WellFormed(d) /\ d.opened = 0 /\ d.used = 0
             /\ TracksOf(d) = TracksOf(c) /\ NamesOf(d) = NamesOf(c)
             /\ Resumes(c) => Resumes(d)
<1>1. PICK f : f = FlushAudio(c)
  OBVIOUS
<1>2. Same(c, f) /\ f.used = 0
  BY <1>1, FlushSame
<1>3. PICK d : d = CloseFragment(c)
  OBVIOUS
<1>4. d = [f EXCEPT !.opened = 0, !.aframe_num = 0]
  BY <1>1, <1>3 DEF CloseFragment
<1>5. f \in WriterType /\ WellFormed(f)
  BY <1>2 DEF Same, WellFormed
<1>6. /\ d \in WriterType /\ d.opened = 0 /\ d.used = f.used /\ d.held = f.held
      /\ d.segments = f.segments
  BY <1>4, <1>5 DEF WriterType
<1>7. WellFormed(d)
  BY <1>5, <1>6 DEF WellFormed
<1>8. TracksOf(d) = TracksOf(f) /\ NamesOf(d) = NamesOf(f)
  BY <1>6 DEF TracksOf, HeldIn, NamesOf
<1>9. Resumes(f) => Resumes(d)
  BY <1>6 DEF Resumes
<1> QED
  BY <1>2, <1>3, <1>6, <1>7, <1>8, <1>9 DEF Same, Keeps

LEMMA OpenAdds ==
  ASSUME NEW c, WellFormed(c), c.opened = 0, c.used <= AudioBufferSize, NEW name \in Name,
         NEW m \in {0, 1}, NEW w, m = 1 \/ w # 0
  PROVE  LET d == OpenFragment(c, name, m, w)
         IN  /\ WellFormed(d) /\ d.opened = 1 /\ Film(d) = Film(c)
             /\ c.used = 0 => TracksOf(d) = Append(TracksOf(c), [video |-> <<>>, audio |-> <<>>])
             /\ NamesOf(d) = Append(NamesOf(c), name)
             /\ Resumes(c) /\ name.ac = c.audio_cc % U32 /\ name.vc = c.video_cc % U32 => Resumes(d)
<1> DEFINE n == Len(c.segments)
           e == [name |-> name, frames |-> <<>>]
<1>1. PICK ss : ss = Append(c.segments, e)
  OBVIOUS
<1>2. c \in WriterType /\ (c.used = 0 => c.held = <<>>)
  BY DEF WellFormed
<1>3. /\ ss \in SegmentSeq(Name, Packet) /\ ss # <<>> /\ n \in Nat /\ Len(ss) = n + 1 /\ ss[n + 1] = e
      /\ \A i \in 1 .. n : ss[i] = c.segments[i]
  <2>1. c.segments \in Seq([name : Name, frames : Seq(Packet)])
    BY <1>2 DEF WriterType, SegmentSeq
  <2>2. <<>> \in Seq(Packet)
    OBVIOUS
  <2>3. e \in [name : Name, frames : Seq(Packet)]
    BY <2>2
  <2>4. ASSUME NEW T, NEW a \in Seq(T), NEW x \in T
        PROVE  /\ Append(a, x) \in Seq(T) /\ Append(a, x) # <<>> /\ Len(a) \in Nat
               /\ Len(Append(a, x)) = Len(a) + 1 /\ Append(a, x)[Len(a) + 1] = x
               /\ \A i \in 1 .. Len(a) : Append(a, x)[i] = a[i]
    OBVIOUS
  <2> HIDE DEF e
  <2> QED
    BY SMTT(30), <1>1, <2>1, <2>3, <2>4 DEF SegmentSeq
<1>4. PICK o : o = [c EXCEPT !.opened = 1, !.flag_m3u8 = m, !.segments = ss]
  OBVIOUS
<1>5. /\ o \in WriterType /\ o.opened = 1 /\ o.segments = ss /\ o.used = c.used /\ o.held = c.held
      /\ o.audio_cc = c.audio_cc /\ o.video_cc = c.video_cc
  <2>1. ss \in SegmentSeq(Name, Packet) /\ 1 \in {0, 1}
    BY <1>3
  <2> QED
    BY <1>2, <1>4, <2>1 DEF WriterType
<1>6. WellFormed(o)
  BY <1>2, <1>3, <1>5 DEF WellFormed
<1>7. PICK f : f = FlushAudio(o) /\ Same(o, f)
  BY <1>6, FlushSame
<1>8. OpenFragment(c, name, m, w) = f
  <2>1. c.opened # 1 /\ ~(m = 0 /\ w = 0)
    OBVIOUS
  <2> QED
    BY <1>1, <1>4, <1>7, <2>1 DEF OpenFragment
<1>9. /\ c.used = 0 => TracksOf(o) = Append(TracksOf(c), [video |-> <<>>, audio |-> <<>>])
      /\ NamesOf(o) = Append(NamesOf(c), name) /\ Film(o) = Film(c)
  BY <1>1, <1>2, <1>5, OpenedAdds
<1>10. ASSUME Resumes(c), name.ac = c.audio_cc % U32, name.vc = c.video_cc % U32
       PROVE  Resumes(o)
  <2>1. e.frames = <<>> /\ e.name = name /\ Len(e.frames) = 0 /\ 1 .. Len(e.frames) = {}
    OBVIOUS
  <2>2. Resumed(e)
    BY <2>1 DEF Resumed
  <2>3. Awaited(o, e)
    BY <1>5, <1>10, <2>1 DEF Awaited, CounterOf, NamedCounter
  <2> HIDE DEF e
  <2>4. ASSUME NEW i \in 1 .. Len(o.segments) PROVE Resumed(o.segments[i])
    <3>1. CASE i = n + 1
      BY <1>3, <1>5, <2>2, <3>1
    <3>2. CASE i # n + 1
      <4>1. i \in 1 .. n
        BY <1>3, <1>5, <3>2
      <4> QED
        BY <1>3, <1>5, <1>10, <4>1 DEF Resumes
    <3> QED
      BY <3>1, <3>2
  <2> QED
    BY <1>3, <1>5, <2>3, <2>4 DEF Resumes
<1>11. /\ WellFormed(f) /\ f.opened = 1 /\ TracksOf(f) = TracksOf(o) /\ NamesOf(f) = NamesOf(o)
       /\ Resumes(o) => Resumes(f)
  BY <1>5, <1>7 DEF Same, Keeps
<1> QED
  BY <1>8, <1>9, <1>10, <1>11 DEF Film

LEMMA OpenRefused ==
  ASSUME NEW c, WellFormed(c), c.opened = 0, NEW name
  PROVE  LET d == OpenFragment(c, name, 0, 0)
         IN  /\ WellFormed(d) /\ d.opened = 0 /\ d.segments = c.segments /\ d.used = c.used
             /\ Keeps(c, d) /\ (Resumes(c) => Resumes(d))
<1>1. PICK d : d = OpenFragment(c, name, 0, 0)
  OBVIOUS
<1>2. d = [c EXCEPT !.flag_m3u8 = 0]
  BY <1>1 DEF OpenFragment
<1>3. c \in WriterType
  BY DEF WellFormed
<1>4. d \in WriterType /\ d.opened = 0 /\ d.segments = c.segments /\ d.used = c.used /\ d.held = c.held
  BY <1>2, <1>3 DEF WriterType
<1>5. Keeps(c, d)
  BY <1>4 DEF Keeps, TracksOf, HeldIn, NamesOf
<1>6. Resumes(c) => Resumes(d)
  BY <1>4 DEF Resumes
<1> QED
  BY <1>1, <1>4, <1>5, <1>6 DEF WellFormed

LEMMA ClosedStays ==
  ASSUME NEW c, c.opened = 0
  PROVE  CloseFragment(c) = c
BY DEF CloseFragment

-----------------------------------------------------------------------------
(* The parser. *)
Time == 0 .. U32 - 1

(* The attempts to create a file that may fail. *)
Refusal == SUBSET ({"segment", "playlist"} \X Nat)

Line ==
  [line : {"EXTM3U", "VERSION", "MEDIA-SEQUENCE", "ENDLIST"}]
    \cup [line : {"TARGETDURATION", "EXTINF"}, value : Nat]
    \cup [line : {"URI"}, name : Name]

Parser ==
  [ b_ts : {0, 1}, b_m3u8 : {0, 1}, key_ID_start : {0}, segment_num : Nat, refused : Refusal,
    ctx : WriterType, status : {"running", "finished", "aborted", "crashed"},
    flag_first_ts : {0, 1}, hls_start_ts : Time, hls_end_ts : Time, hls_segment_num : Nat,
    key_frame_count : Nat, ts_fragment_id : Nat, ts_count : Nat, hls_segment_duration : Time,
    ts_start_flag : {0, 1}, seek_flag1 : {0}, seek_flag2 : {0}, flag_over : {0, 1},
    hls_file : {0, 1}, hls_content : Seq(Line), written : Seq(Line) ]

(* What the segmenter leaves alone. *)
Kept(q, d) ==
  /\ d.b_ts = q.b_ts /\ d.b_m3u8 = q.b_m3u8 /\ d.segment_num = q.segment_num
  /\ d.refused = q.refused /\ d.flag_first_ts = q.flag_first_ts
  /\ d.hls_end_ts = q.hls_end_ts /\ d.hls_segment_num = q.hls_segment_num
  /\ d.key_frame_count = q.key_frame_count /\ d.ts_fragment_id = q.ts_fragment_id
  /\ d.ts_count = q.ts_count /\ d.flag_over = q.flag_over

LEMMA LineTypes ==
  /\ \A ms \in Nat : Extinf(ms) \in Line
  /\ \A name \in Name : Uri(name) \in Line
  /\ Endlist \in Line /\ Header \in Seq(Line) /\ Len(Header) = 4 /\ Header # <<>>
<1>1. \A ms \in Nat : Extinf(ms) \in Line
  BY DEF Extinf, Line
<1>2. \A name \in Name : Uri(name) \in Line
  BY DEF Uri, Line
<1>3. Endlist \in Line
  BY DEF Endlist, Line
<1>4. PICK a, b, c, d : /\ a = [line |-> "EXTM3U"] /\ b = [line |-> "VERSION"]
                        /\ c = [line |-> "TARGETDURATION", value |-> 12]
                        /\ d = [line |-> "MEDIA-SEQUENCE"]
  OBVIOUS
<1>5. a \in Line /\ b \in Line /\ c \in Line /\ d \in Line
  BY <1>4 DEF Line
<1>6. Header = <<a, b, c, d>>
  BY <1>4 DEF Header
<1>7. Header \in Seq(Line) /\ Len(Header) = 4 /\ Header # <<>>
  BY <1>5, <1>6
<1> QED
  BY <1>1, <1>2, <1>3, <1>7

LEMMA IntervalType ==
  ASSUME NEW q \in Parser
  PROVE  Interval(q) \in Time
BY U32Assumption DEF Interval, Parser, Time

(* A duration goes in before the last line. *)
LEMMA Inserted ==
  ASSUME NEW h \in Seq(Line), h # <<>>, NEW ms \in Nat
  PROVE  /\ InsertDuration(h, ms) \in Seq(Line) /\ Len(InsertDuration(h, ms)) = Len(h) + 1
         /\ InsertDuration(h, ms) # <<>> /\ Len(h) \in Nat \ {0}
         /\ \A j \in 1 .. Len(h) - 1 : InsertDuration(h, ms)[j] = h[j]
         /\ InsertDuration(h, ms)[Len(h)] = Extinf(ms)
         /\ InsertDuration(h, ms)[Len(h) + 1] = h[Len(h)]
<1>1. PICK n \in Nat \ {0} : n = Len(h)
  OBVIOUS
<1>2. PICK x \in Line, y \in Line : x = Extinf(ms) /\ y = h[n]
  <2>1. Extinf(ms) \in Line
    BY LineTypes
  <2>2. h[n] \in Line
    BY <1>1, ElementOfSeq
  <2> QED
    BY <2>1, <2>2
<1>3. PICK a \in Seq(Line) : a = SubSeq(h, 1, n - 1) /\ Len(a) = n - 1 /\ \A j \in 1 .. n - 1 : a[j] = h[j]
  <2>1. ASSUME NEW T, NEW s \in Seq(T), s # <<>>
        PROVE  /\ SubSeq(s, 1, Len(s) - 1) \in Seq(T) /\ Len(SubSeq(s, 1, Len(s) - 1)) = Len(s) - 1
               /\ \A j \in 1 .. Len(s) - 1 : SubSeq(s, 1, Len(s) - 1)[j] = s[j]
    <3>1. PICK m \in Nat \ {0} : m = Len(s)
      BY <2>1
    <3>2. PICK k \in Int, b \in Int : k = m - 1 /\ b = 1
      BY <3>1
    <3>3. \A j \in b .. k : s[j] \in T
      BY <3>1, <3>2, ElementOfSeq
    <3>4. /\ SubSeq(s, b, k) \in Seq(T)
          /\ Len(SubSeq(s, b, k)) = IF b <= k THEN k - b + 1 ELSE 0
          /\ \A j \in 1 .. k - b + 1 : SubSeq(s, b, k)[j] = s[b + j - 1]
      BY <3>3, SubSeqProperties
    <3>5. Len(SubSeq(s, 1, m - 1)) = m - 1 /\ \A j \in 1 .. m - 1 : SubSeq(s, 1, m - 1)[j] = s[j]
      BY <3>1, <3>2, <3>4
    <3> QED
      BY <3>1, <3>2, <3>4, <3>5
  <2>2. /\ SubSeq(h, 1, n - 1) \in Seq(Line) /\ Len(SubSeq(h, 1, n - 1)) = n - 1
        /\ \A j \in 1 .. n - 1 : SubSeq(h, 1, n - 1)[j] = h[j]
    BY <1>1, <2>1
  <2> QED
    BY <2>2
<1>4. PICK b \in Seq(Line) : b = <<x, y>> /\ Len(b) = 2 /\ b[1] = x /\ b[2] = y
  <2>1. ASSUME NEW T, NEW u \in T, NEW w \in T
        PROVE  <<u, w>> \in Seq(T) /\ Len(<<u, w>>) = 2 /\ <<u, w>>[1] = u /\ <<u, w>>[2] = w
    OBVIOUS
  <2>2. <<x, y>> \in Seq(Line) /\ Len(<<x, y>>) = 2 /\ <<x, y>>[1] = x /\ <<x, y>>[2] = y
    BY <2>1
  <2> QED
    BY <2>2
<1>5. PICK r \in Seq(Line) : /\ r = a \o b /\ Len(r) = Len(a) + Len(b)
                             /\ \A j \in 1 .. Len(a) : r[j] = a[j]
                             /\ \A j \in Len(a) + 1 .. Len(a) + Len(b) : r[j] = b[j - Len(a)]
  <2>1. /\ a \o b \in Seq(Line) /\ Len(a \o b) = Len(a) + Len(b)
        /\ \A j \in 1 .. Len(a) : (a \o b)[j] = a[j]
        /\ \A j \in Len(a) + 1 .. Len(a) + Len(b) : (a \o b)[j] = b[j - Len(a)]
    BY ConcatProperties
  <2> QED
    BY <2>1
<1>6. InsertDuration(h, ms) = r
  BY <1>1, <1>2, <1>3, <1>4, <1>5 DEF InsertDuration
<1>7. Len(r) = n + 1 /\ r # <<>> /\ \A j \in 1 .. n - 1 : r[j] = h[j]
  BY <1>3, <1>4, <1>5
<1>8. r[n] = x /\ r[n + 1] = y
  <2>1. n \in Len(a) + 1 .. Len(a) + Len(b) /\ n + 1 \in Len(a) + 1 .. Len(a) + Len(b)
    BY <1>3, <1>4
  <2>2. n - Len(a) = 1 /\ n + 1 - Len(a) = 2
    BY <1>3
  <2> QED
    BY <1>4, <1>5, <2>1, <2>2
<1> QED
  BY <1>1, <1>2, <1>5, <1>6, <1>7, <1>8

LEMMA SegmentCloses ==
  ASSUME NEW q \in Parser, q.ts_start_flag = 1, HasPlaylist(q) => q.hls_content # <<>>,
         NEW c \in WriterType, c = CloseFragment(q.ctx), NEW d, d = CloseSegment(q)
  PROVE  /\ d \in Parser /\ Kept(q, d) /\ d.status = q.status /\ d.written = q.written
         /\ d.ctx = c /\ d.ts_start_flag = 0 /\ d.hls_file = q.hls_file
         /\ d.hls_start_ts = IF HasPlaylist(q) THEN q.hls_end_ts ELSE q.hls_start_ts
         /\ d.hls_segment_duration =
              IF HasPlaylist(q) /\ ~(q.hls_segment_duration > Interval(q)) THEN Interval(q)
              ELSE q.hls_segment_duration
         /\ d.hls_content = IF HasPlaylist(q) THEN InsertDuration(q.hls_content, Interval(q))
                            ELSE q.hls_content
<1>1. PICK e : e = [q EXCEPT !.ctx = c, !.ts_start_flag = 0]
  OBVIOUS
<1>2. /\ e \in Parser /\ Kept(q, e) /\ e.status = q.status /\ e.written = q.written
      /\ e.ctx = c /\ e.ts_start_flag = 0 /\ e.hls_file = q.hls_file
      /\ e.hls_start_ts = q.hls_start_ts /\ e.hls_segment_duration = q.hls_segment_duration
      /\ e.hls_content = q.hls_content
  BY <1>1 DEF Parser, Kept
<1>3. CASE ~HasPlaylist(q)
  <2>1. d = e
    BY <1>1, <1>3 DEF CloseSegment
  <2> QED
    BY <1>2, <1>3, <2>1
<1>4. CASE HasPlaylist(q)
  <2>1. PICK x, y, z : /\ x = q.hls_end_ts
                       /\ y = (IF q.hls_segment_duration > Interval(q) THEN q.hls_segment_duration ELSE Interval(q))
                       /\ z = InsertDuration(q.hls_content, Interval(q))
    OBVIOUS
  <2>2. x \in Time /\ y \in Time
    BY <2>1, IntervalType DEF Parser
  <2>3. z \in Seq(Line)
    <3>1. Interval(q) \in Nat
      BY IntervalType, U32Assumption DEF Time
    <3>2. q.hls_content \in Seq(Line)
      BY DEF Parser
    <3> QED
      BY <1>4, <2>1, <3>1, <3>2, Inserted
  <2>4. d = [e EXCEPT !.hls_start_ts = x, !.hls_segment_duration = y, !.hls_content = z]
    <3>1. d = [ e EXCEPT
               !.hls_start_ts = q.hls_end_ts,
               !.hls_segment_duration = IF @ > Interval(q) THEN @ ELSE Interval(q),
               !.hls_content = InsertDuration(@, Interval(q)) ]
      BY <1>1, <1>4 DEF CloseSegment
    <3> QED
      BY <1>2, <2>1, <3>1
  <2>5. /\ d \in Parser /\ Kept(e, d) /\ d.status = e.status /\ d.written = e.written
        /\ d.ctx = e.ctx /\ d.ts_start_flag = e.ts_start_flag /\ d.hls_file = e.hls_file
        /\ d.hls_start_ts = x /\ d.hls_segment_duration = y /\ d.hls_content = z
    <3>1. e \in Parser
      BY <1>2
    <3>2. d \in Parser
      BY ZenonT(60), <2>2, <2>3, <2>4, <3>1 DEF Parser
    <3>3. Kept(e, d) /\ d.status = e.status /\ d.written = e.written
      BY <2>4, <3>1 DEF Parser, Kept
    <3>4. d.ctx = e.ctx /\ d.ts_start_flag = e.ts_start_flag /\ d.hls_file = e.hls_file
      BY <2>4, <3>1 DEF Parser
    <3>5. d.hls_start_ts = x /\ d.hls_segment_duration = y /\ d.hls_content = z
      BY <2>4, <3>1 DEF Parser
    <3> QED
      BY <3>2, <3>3, <3>4, <3>5
  <2>6. Kept(q, d)
    BY <1>2, <2>5 DEF Kept
  <2> QED
    BY <1>2, <1>4, <2>1, <2>5, <2>6
<1> QED
  BY <1>3, <1>4

LEMMA PlaylistOpens ==
  ASSUME NEW q \in Parser, NEW d, d = OpenPlaylist(q)
  PROVE  /\ d \in Parser /\ Kept(q, d) /\ d.status = q.status /\ d.written = q.written
         /\ d.ctx = q.ctx /\ d.ts_start_flag = q.ts_start_flag
         /\ d.hls_start_ts = q.hls_start_ts /\ d.hls_segment_duration = q.hls_segment_duration
         /\ d.hls_file = (IF HasPlaylist(q) /\ q.hls_file = 0 THEN Takes(q, "playlist") ELSE q.hls_file)
         /\ d.hls_content = (IF HasPlaylist(q) /\ q.hls_file = 0 THEN q.hls_content \o Header
                             ELSE q.hls_content)
<1>0. q.hls_file \in {0, 1} /\ q.hls_content \in Seq(Line) /\ Takes(q, "playlist") \in {0, 1}
  BY DEF Parser, Takes
<1>1. CASE ~(HasPlaylist(q) /\ q.hls_file = 0)
  <2>1. d = q
    BY <1>0, <1>1 DEF OpenPlaylist
  <2> QED
    BY <1>1, <2>1 DEF Kept
<1>2. CASE HasPlaylist(q) /\ q.hls_file = 0
  <2>1. PICK h \in Seq(Line) : h = q.hls_content \o Header
    BY <1>0, LineTypes, ConcatProperties
  <2>0. PICK w \in {0, 1} : w = Takes(q, "playlist")
    BY <1>0
  <2>2. d = [q EXCEPT !.hls_file = w, !.hls_content = h]
    BY <1>0, <1>2, <2>0, <2>1 DEF OpenPlaylist
  <2>3. /\ d \in Parser /\ Kept(q, d) /\ d.status = q.status /\ d.written = q.written
        /\ d.ctx = q.ctx /\ d.ts_start_flag = q.ts_start_flag
        /\ d.hls_start_ts = q.hls_start_ts /\ d.hls_segment_duration = q.hls_segment_duration
        /\ d.hls_file = w /\ d.hls_content = h
    <3>1. d \in Parser
      BY ZenonT(60), <1>0, <2>2 DEF Parser
    <3>2. Kept(q, d)
      BY SMTT(30), <1>0, <2>2 DEF Parser, Kept
    <3> QED
      BY SMTT(30), <1>0, <2>2, <3>1, <3>2 DEF Parser
  <2> QED
    BY <1>2, <2>0, <2>1, <2>3
<1> QED
  BY <1>1, <1>2

(* The places of the names in a playlist, and a playlist with n names     *)
(* behind its header.                                                      *)
NamesIn(h) == {i \in 1 .. Len(h) : h[i].line = "URI"}

Tallied(h, n) == Len(h) >= 4 /\ h[3].line # "URI" /\ IsFiniteSet(NamesIn(h)) /\ Cardinality(NamesIn(h)) = n

LEMMA LineCounted ==
  ASSUME NEW h \in Seq(Line), NEW x \in Line
  PROVE  /\ NamesIn(Append(h, x)) = NamesIn(h) \cup (IF x.line = "URI" THEN {Len(h) + 1} ELSE {})
         /\ ~(Len(h) + 1 \in NamesIn(h))
<1>1. PICK g : g = Append(h, x)
  OBVIOUS
<1>2. PICK n \in Nat : n = Len(h)
  OBVIOUS
<1>3. Len(g) = n + 1 /\ g[n + 1] = x /\ \A i \in 1 .. n : g[i] = h[i]
  BY <1>1, <1>2, Appended
<1>4. \A i : i \in 1 .. n + 1 <=> i \in 1 .. n \/ i = n + 1
  BY <1>2
<1>5. ~(n + 1 \in 1 .. n)
  BY <1>2
<1> QED
  BY <1>1, <1>2, <1>3, <1>4, <1>5 DEF NamesIn

LEMMA LineTallied ==
  ASSUME NEW h \in Seq(Line), NEW n \in Nat, Tallied(h, n), NEW x \in Line
  PROVE  Tallied(Append(h, x), IF x.line = "URI" THEN n + 1 ELSE n)
<1>1. PICK g : g = Append(h, x)
  OBVIOUS
<1>2. Len(g) >= 4 /\ g[3] = h[3]
  <2>1. Len(g) = Len(h) + 1 /\ Len(h) \in Nat /\ \A i \in 1 .. Len(h) : g[i] = h[i]
    BY <1>1, Appended
  <2> QED
    BY <2>1 DEF Tallied
<1>3. PICK S, k : S = NamesIn(h) /\ k = Len(h) + 1
  OBVIOUS
<1>4. /\ NamesIn(g) = S \cup (IF x.line = "URI" THEN {k} ELSE {}) /\ ~(k \in S)
      /\ IsFiniteSet(S) /\ Cardinality(S) = n
  BY <1>1, <1>3, LineCounted DEF Tallied
<1>5. IsFiniteSet(S \cup {k}) /\ Cardinality(S \cup {k}) = n + 1
  BY <1>4, FS_AddElement
<1>6. CASE x.line = "URI"
  BY <1>1, <1>2, <1>4, <1>5, <1>6 DEF Tallied
<1>7. CASE x.line # "URI"
  <2>1. NamesIn(g) = S
    BY <1>4, <1>7
  <2> QED
    BY <1>1, <1>2, <1>4, <1>7, <2>1 DEF Tallied
<1> QED
  BY <1>6, <1>7

LEMMA FourAppended ==
  ASSUME NEW T, NEW h \in Seq(T), NEW a \in T, NEW b \in T, NEW c \in T, NEW d \in T
  PROVE  h \o <<a, b, c, d>> = Append(Append(Append(Append(h, a), b), c), d)
OBVIOUS

LEMMA BeforeLast ==
  ASSUME NEW T, NEW h \in Seq(T), h # <<>>, NEW x \in T
  PROVE  LET a == SubSeq(h, 1, Len(h) - 1)
         IN  /\ a \in Seq(T) /\ h[Len(h)] \in T /\ h = Append(a, h[Len(h)])
             /\ a \o <<x, h[Len(h)]>> = Append(Append(a, x), h[Len(h)])
OBVIOUS

LEMMA DurationTallied ==
  ASSUME NEW h \in Seq(Line), NEW n \in Nat, Tallied(h, n), NEW ms \in Nat
  PROVE  Tallied(InsertDuration(h, ms), n)
<1>1. PICK x \in Line : x = Extinf(ms) /\ x.line # "URI"
  BY LineTypes DEF Extinf
<1>2. h # <<>>
  BY DEF Tallied
<1>3. PICK a \in Seq(Line), y \in Line : h = Append(a, y) /\ InsertDuration(h, ms) = Append(Append(a, x), y)
  <2>1. PICK a, y : a = SubSeq(h, 1, Len(h) - 1) /\ y = h[Len(h)]
    OBVIOUS
  <2>2. /\ a \in Seq(Line) /\ y \in Line /\ h = Append(a, y)
        /\ a \o <<x, y>> = Append(Append(a, x), y)
    BY <1>1, <1>2, <2>1, BeforeLast
  <2>3. InsertDuration(h, ms) = a \o <<x, y>>
    BY <1>1, <2>1 DEF InsertDuration
  <2> QED
    BY <2>2, <2>3
<1>4. PICK b \in Seq(Line) : b = Append(a, x)
  BY Appended
<1>5. PICK g \in Seq(Line) : g = InsertDuration(h, ms) /\ g = Append(b, y)
  BY <1>3, <1>4, Appended
<1>6. Len(g) >= 4 /\ g[3] = h[3]
  <2>1. Len(g) = Len(h) + 1 /\ \A j \in 1 .. Len(h) - 1 : g[j] = h[j]
    <3>1. /\ Len(InsertDuration(h, ms)) = Len(h) + 1
          /\ \A j \in 1 .. Len(h) - 1 : InsertDuration(h, ms)[j] = h[j]
      BY <1>2, Inserted
    <3> QED
      BY <1>5, <3>1
  <2>2. Len(h) \in Nat /\ Len(h) >= 4
    BY DEF Tallied
  <2> QED
    BY <2>1, <2>2
<1>7. PICK k, S : k = Len(a) /\ k \in Nat /\ S = NamesIn(a)
  OBVIOUS
<1>8. Len(b) = k + 1
  BY <1>4, <1>7, Appended
<1>9. NamesIn(b) = S
  BY <1>1, <1>4, <1>7, LineCounted
<1>10. NamesIn(h) = S \cup (IF y.line = "URI" THEN {k + 1} ELSE {}) /\ ~(k + 1 \in S)
  BY <1>3, <1>7, LineCounted
<1>11. NamesIn(g) = S \cup (IF y.line = "URI" THEN {k + 2} ELSE {}) /\ ~(k + 2 \in S)
  <2>1. k + 1 + 1 = k + 2
    BY <1>7
  <2> QED
    BY <1>5, <1>8, <1>9, <2>1, LineCounted
<1>12. IsFiniteSet(NamesIn(h)) /\ Cardinality(NamesIn(h)) = n
  BY DEF Tallied
<1>13. CASE y.line # "URI"
  BY <1>5, <1>6, <1>10, <1>11, <1>12, <1>13 DEF Tallied
<1>14. CASE y.line = "URI"
  <2>1. IsFiniteSet(S)
    BY <1>10, <1>12, FS_Subset
  <2>2. PICK m \in Nat : m = Cardinality(S)
    BY <2>1, FS_CardinalityType
  <2>3. /\ IsFiniteSet(S \cup {k + 1}) /\ Cardinality(S \cup {k + 1}) = m + 1
        /\ IsFiniteSet(S \cup {k + 2}) /\ Cardinality(S \cup {k + 2}) = m + 1
    BY <1>10, <1>11, <2>1, <2>2, FS_AddElement
  <2> QED
    BY <1>5, <1>6, <1>10, <1>11, <1>12, <1>14, <2>3 DEF Tallied
<1> QED
  BY <1>13, <1>14

LEMMA HeaderTallied ==
  /\ Tallied(Header, 0)
  /\ \A h \in Seq(Line) : \A n \in Nat : Tallied(h, n) => Tallied(h \o Header, n)
<1>1. PICK a, b, c, d : /\ a = [line |-> "EXTM3U"] /\ b = [line |-> "VERSION"]
                        /\ c = [line |-> "TARGETDURATION", value |-> 12]
                        /\ d = [line |-> "MEDIA-SEQUENCE"]
  OBVIOUS
<1>2. /\ a \in Line /\ b \in Line /\ c \in Line /\ d \in Line
      /\ a.line # "URI" /\ b.line # "URI" /\ c.line # "URI" /\ d.line # "URI"
  BY <1>1 DEF Line
<1>3. PICK e : e = Header /\ e = <<a, b, c, d>>
  BY <1>1 DEF Header
<1>4. e \in Seq(Line) /\ Len(e) = 4 /\ e[1] = a /\ e[2] = b /\ e[3] = c /\ e[4] = d
  BY <1>2, <1>3
<1>5. Tallied(e, 0)
  <2>1. NamesIn(e) = {}
    BY <1>2, <1>4 DEF NamesIn
  <2> QED
    BY <1>2, <1>4, <2>1, FS_EmptySet DEF Tallied
<1>6. ASSUME NEW h \in Seq(Line), NEW n \in Nat, Tallied(h, n)
      PROVE  Tallied(h \o e, n)
  <2>1. PICK h1 \in Seq(Line), h2 \in Seq(Line), h3 \in Seq(Line), h4 \in Seq(Line) :
          h1 = Append(h, a) /\ h2 = Append(h1, b) /\ h3 = Append(h2, c) /\ h4 = Append(h3, d)
    BY <1>2, Appended
  <2>2. Tallied(h1, n)
    BY <1>2, <1>6, <2>1, LineTallied
  <2>3. Tallied(h2, n)
    BY <1>2, <2>1, <2>2, LineTallied
  <2>4. Tallied(h3, n)
    BY <1>2, <2>1, <2>3, LineTallied
  <2>5. Tallied(h4, n)
    BY <1>2, <2>1, <2>4, LineTallied
  <2>6. h4 = h \o e
    BY <1>2, <1>3, <2>1, FourAppended
  <2> QED
    BY <2>5, <2>6
<1> QED
  BY <1>3, <1>5, <1>6

(* The run writes all its segments, files or in memory. *)
Opens(q) == q.refused = {} \/ ~HasFiles(q)

(* The n-th segment could not be created. *)
Lost(q, n) == HasFiles(q) /\ <<"segment", n>> \in q.refused

(* If there is no playlist after n attempts to create it, each has failed. *)
Tried(q, n) == q.hls_file = 0 => \A k \in 1 .. n : <<"playlist", k>> \in q.refused

LEMMA NothingLost ==
  ASSUME NEW q, Opens(q), NEW n
  PROVE  ~Lost(q, n)
BY DEF Opens, Lost

(* What holds in every state of a run. *)
Base(q) == q \in Parser /\ WellFormed(q.ctx) /\ Resumes(q.ctx)

(* Before the first segment. *)
Shut(q) ==
  /\ q.ts_start_flag = 0 /\ q.hls_file = 0 /\ q.hls_content = <<>>
  /\ q.ctx.opened = 0 /\ q.ctx.used = 0 /\ q.ctx.segments = <<>>

(* In the n-th segment. *)
Open(q, n) ==
  /\ q.ts_start_flag = 1
  /\ HasPlaylist(q) => Tallied(q.hls_content, n) /\ Tried(q, n)
  /\ q.ctx.opened = (IF Lost(q, n) THEN 0 ELSE 1)
  /\ q.ctx.used <= AudioBufferSize

(* After n segments. *)
Stands(q, n) == n \in Nat /\ IF n = 0 THEN Shut(q) ELSE Open(q, n)

(* The playlist f has when q's last segment is closed. *)
Accounted(q, f) ==
  /\ f.hls_content # <<>>
  /\ IF q.ts_start_flag = 1
     THEN /\ f.hls_start_ts = q.hls_end_ts
          /\ Interval(q) <= f.hls_segment_duration
          /\ q.hls_segment_duration <= f.hls_segment_duration
          /\ q.refused = {} => f.hls_content = InsertDuration(q.hls_content, Interval(q))
     ELSE f.hls_start_ts = q.hls_start_ts /\ f.hls_content = Header

(* f is q between the n-th segment and the next. *)
Ready(q, n, f) ==
  /\ Base(f) /\ Kept(q, f) /\ f.status = q.status /\ f.written = q.written
  /\ f.ts_start_flag = 0 /\ f.ctx.opened = 0 /\ Keeps(q.ctx, f.ctx)
  /\ f.ctx.used <= AudioBufferSize /\ (f.ctx.used > 0 => Lost(q, n))
  /\ HasPlaylist(q) => /\ Accounted(q, f) /\ Tallied(f.hls_content, n) /\ Tried(f, n + 1)
                       /\ q.refused = {} => f.hls_file = 1

LEMMA ContextCloses ==
  ASSUME NEW q, Base(q), NEW n, Open(q, n), NEW c, c = CloseFragment(q.ctx)
  PROVE  /\ WellFormed(c) /\ Resumes(c) /\ c \in WriterType /\ c.opened = 0 /\ Keeps(q.ctx, c)
         /\ c.used <= AudioBufferSize /\ (c.used > 0 => Lost(q, n))
<1>1. WellFormed(q.ctx) /\ Resumes(q.ctx)
  BY DEF Base
<1>2. CASE ~Lost(q, n)
  <2>1. q.ctx.opened = 1
    BY <1>2 DEF Open
  <2>2. PICK x : x = q.ctx
    OBVIOUS
  <2>3. /\ WellFormed(CloseFragment(x)) /\ CloseFragment(x).opened = 0 /\ CloseFragment(x).used = 0
        /\ TracksOf(CloseFragment(x)) = TracksOf(x) /\ NamesOf(CloseFragment(x)) = NamesOf(x)
        /\ Resumes(x) => Resumes(CloseFragment(x))
    BY <1>1, <2>1, <2>2, CloseKeeps
  <2> QED
    BY <1>1, <1>2, <2>2, <2>3, ConfAssumption DEF Keeps, WellFormed
<1>3. CASE Lost(q, n)
  <2>1. q.ctx.opened = 0 /\ q.ctx.used <= AudioBufferSize
    BY <1>3 DEF Open
  <2>2. c = q.ctx
    BY <2>1, ClosedStays
  <2> QED
    BY <1>1, <1>3, <2>1, <2>2 DEF Keeps, WellFormed
<1> QED
  BY <1>2, <1>3

LEMMA KeptOptions ==
  ASSUME NEW q, NEW d, Kept(q, d)
  PROVE  (HasPlaylist(d) <=> HasPlaylist(q)) /\ (HasFiles(d) <=> HasFiles(q)) /\ (Opens(d) <=> Opens(q))
BY DEF Kept, HasPlaylist, HasFiles, Opens

LEMMA KeptAgain ==
  ASSUME NEW q, NEW e, NEW d, Kept(q, e), Kept(e, d)
  PROVE  Kept(q, d)
BY DEF Kept

LEMMA SegmentReady ==
  ASSUME NEW q, Base(q), NEW n, Stands(q, n), Call(q) = n + 1, NEW f, f = OpenPlaylist(CloseSegment(q))
  PROVE  Ready(q, n, f)
<1>0. q \in Parser /\ q.ctx \in WriterType /\ n \in Nat /\ 0 <= AudioBufferSize
  BY ConfAssumption DEF Base, Parser, Stands
<1>4. ASSUME NEW e \in Parser, Kept(q, e), Tried(e, n),
             f.hls_file = (IF HasPlaylist(e) /\ e.hls_file = 0 THEN Takes(e, "playlist") ELSE e.hls_file),
             Kept(e, f), HasPlaylist(e)
      PROVE  /\ Tried(f, n + 1) /\ (q.refused = {} => f.hls_file = 1)
             /\ q.refused = {} /\ n > 0 => e.hls_file # 0
  <2>1. /\ e.refused = q.refused /\ f.refused = q.refused /\ e.hls_file \in {0, 1} /\ Call(e) = n + 1
        /\ 1 \in 1 .. n + 1
    BY <1>0, <1>4 DEF Kept, Call, Parser
  <2>2. Takes(e, "playlist") = IF <<"playlist", n + 1>> \in q.refused THEN 0 ELSE 1
    BY <2>1 DEF Takes
  <2>3. e.hls_file = 0 => \A k \in 1 .. n : <<"playlist", k>> \in q.refused
    BY <1>4, <2>1 DEF Tried
  <2>4. Tried(f, n + 1)
    <3>1. SUFFICES ASSUME f.hls_file = 0, NEW k \in 1 .. n + 1 PROVE <<"playlist", k>> \in q.refused
      BY <2>1 DEF Tried
    <3>2. e.hls_file = 0 /\ <<"playlist", n + 1>> \in q.refused
      BY <1>4, <2>1, <2>2, <3>1
    <3>3. k \in 1 .. n \/ k = n + 1
      BY <1>0
    <3> QED
      BY <2>3, <3>2, <3>3
  <2>5. q.refused = {} => f.hls_file = 1
    BY <1>4, <2>1, <2>2
  <2>6. q.refused = {} /\ n > 0 => e.hls_file # 0
    <3>1. n > 0 => 1 \in 1 .. n
      BY <1>0
    <3> QED
      BY <2>3, <3>1
  <2> QED
    BY <2>4, <2>5, <2>6
<1>1. CASE n = 0 /\ Shut(q)
  <2>1. CloseSegment(q) = q
    BY <1>1 DEF CloseSegment, Shut
  <2>2. f = OpenPlaylist(q)
    BY <2>1
  <2>3. /\ f \in Parser /\ Kept(q, f) /\ f.status = q.status /\ f.written = q.written
        /\ f.ctx = q.ctx /\ f.ts_start_flag = q.ts_start_flag
        /\ f.hls_start_ts = q.hls_start_ts
        /\ f.hls_file = (IF HasPlaylist(q) /\ q.hls_file = 0 THEN Takes(q, "playlist") ELSE q.hls_file)
        /\ f.hls_content = (IF HasPlaylist(q) /\ q.hls_file = 0 THEN q.hls_content \o Header
                            ELSE q.hls_content)
    BY <1>0, <2>2, PlaylistOpens
  <2>4. q.hls_content \o Header = Header
    <3>1. \A h \in Seq(Line) : <<>> \o h = h
      BY ConcatEmptySeq
    <3> QED
      BY <1>1, <3>1, LineTypes DEF Shut
  <2>5. Base(f)
    BY <2>3 DEF Base
  <2>6. ASSUME HasPlaylist(q)
        PROVE  /\ Accounted(q, f) /\ Tallied(f.hls_content, n) /\ Tried(f, n + 1)
               /\ q.refused = {} => f.hls_file = 1
    <3>1. f.hls_content = Header
      BY <1>1, <2>3, <2>4, <2>6 DEF Shut
    <3>2. Accounted(q, f) /\ Tallied(f.hls_content, n)
      BY <1>1, <2>3, <3>1, LineTypes, HeaderTallied DEF Shut, Accounted
    <3>3. Tried(q, n) /\ Kept(q, q)
      <4>1. 1 .. 0 = {}
        OBVIOUS
      <4> QED
        BY <1>1, <4>1 DEF Tried, Kept
    <3> QED
      BY <1>0, <1>4, <2>3, <2>6, <3>2, <3>3
  <2>7. f.ctx.used = 0 /\ ~(0 > 0)
    BY <1>1, <2>3 DEF Shut
  <2> QED
    BY <1>0, <1>1, <2>3, <2>5, <2>6, <2>7 DEF Ready, Shut, Keeps
<1>2. CASE n > 0 /\ Open(q, n)
  <2>1. PICK c : c = CloseFragment(q.ctx)
    OBVIOUS
  <2>2. /\ WellFormed(c) /\ Resumes(c) /\ c \in WriterType /\ c.opened = 0 /\ Keeps(q.ctx, c)
        /\ c.used <= AudioBufferSize /\ (c.used > 0 => Lost(q, n))
    BY <1>2, <2>1, ContextCloses
  <2>3. PICK e : e = CloseSegment(q)
    OBVIOUS
  <2>4. q.ts_start_flag = 1 /\ (HasPlaylist(q) => q.hls_content # <<>> /\ Tallied(q.hls_content, n) /\ Tried(q, n))
    BY <1>2 DEF Open, Tallied
  <2>5. /\ e \in Parser /\ Kept(q, e) /\ e.status = q.status /\ e.written = q.written
        /\ e.ctx = c /\ e.ts_start_flag = 0 /\ e.hls_file = q.hls_file
        /\ e.hls_start_ts = IF HasPlaylist(q) THEN q.hls_end_ts ELSE q.hls_start_ts
        /\ e.hls_segment_duration =
              IF HasPlaylist(q) /\ ~(q.hls_segment_duration > Interval(q)) THEN Interval(q)
              ELSE q.hls_segment_duration
        /\ e.hls_content = IF HasPlaylist(q) THEN InsertDuration(q.hls_content, Interval(q))
                           ELSE q.hls_content
    BY <1>0, <2>1, <2>2, <2>3, <2>4, SegmentCloses
  <2>6. /\ f \in Parser /\ Kept(e, f) /\ f.status = e.status /\ f.written = e.written
        /\ f.ctx = e.ctx /\ f.ts_start_flag = e.ts_start_flag
        /\ f.hls_start_ts = e.hls_start_ts /\ f.hls_segment_duration = e.hls_segment_duration
        /\ f.hls_file = (IF HasPlaylist(e) /\ e.hls_file = 0 THEN Takes(e, "playlist") ELSE e.hls_file)
        /\ f.hls_content = (IF HasPlaylist(e) /\ e.hls_file = 0 THEN e.hls_content \o Header
                            ELSE e.hls_content)
    BY <2>3, <2>5, PlaylistOpens
  <2>7. Kept(q, f) /\ e.refused = q.refused /\ (HasPlaylist(e) <=> HasPlaylist(q))
    BY <2>5, <2>6, KeptAgain, KeptOptions DEF Kept
  <2>8. ASSUME HasPlaylist(q)
        PROVE  /\ Accounted(q, f) /\ Tallied(f.hls_content, n) /\ Tried(f, n + 1)
               /\ q.refused = {} => f.hls_file = 1
    <3>1. q.hls_content \in Seq(Line) /\ Interval(q) \in Nat /\ q.hls_segment_duration \in Nat
      BY <1>0, IntervalType, U32Assumption DEF Parser, Time
    <3>2. /\ e.hls_content = InsertDuration(q.hls_content, Interval(q))
          /\ e.hls_content \in Seq(Line) /\ Tallied(e.hls_content, n)
      BY <1>0, <2>4, <2>5, <2>8, <3>1, DurationTallied DEF Parser
    <3>3. Tried(e, n)
      BY <2>4, <2>5, <2>7, <2>8 DEF Tried
    <3>4. /\ Tried(f, n + 1) /\ (q.refused = {} => f.hls_file = 1)
          /\ q.refused = {} /\ n > 0 => e.hls_file # 0
      BY <1>4, <2>5, <2>6, <2>7, <2>8, <3>3
    <3>5. /\ Tallied(f.hls_content, n) /\ f.hls_content # <<>>
          /\ q.refused = {} => f.hls_content = e.hls_content
      BY <1>0, <1>2, <2>6, <3>2, <3>4, HeaderTallied DEF Tallied
    <3>6. Interval(q) <= f.hls_segment_duration /\ q.hls_segment_duration <= f.hls_segment_duration
      BY <2>5, <2>6, <2>8, <3>1
    <3> QED
      BY <2>4, <2>5, <2>6, <2>8, <3>2, <3>4, <3>5, <3>6 DEF Accounted
  <2>9. Base(f)
    BY <2>2, <2>5, <2>6 DEF Base
  <2> QED
    BY <2>2, <2>5, <2>6, <2>7, <2>8, <2>9 DEF Ready
<1> QED
  BY <1>1, <1>2 DEF Stands

(* The names a run without a key ID gives. *)
Named(q, name) ==
  /\ name \in Name
  /\ name.key = (IF q.ts_fragment_id > 0 THEN (q.ts_fragment_id - 1) % U32 ELSE 0)
  /\ name.count = q.ts_count % U32
  /\ name.ac = q.ctx.audio_cc % U32 /\ name.vc = q.ctx.video_cc % U32

LEMMA NamesGiven ==
  ASSUME NEW q \in Parser, q.hls_segment_num # 0
  PROVE  TsName(q) = ListedName(q) /\ Named(q, ListedName(q))
<1>1. /\ q.key_ID_start = 0 /\ q.seek_flag1 = 0 /\ q.ts_fragment_id \in Nat /\ q.ts_count \in Nat
      /\ q.hls_segment_num \in Nat \ {0} /\ q.ctx \in WriterType
  BY DEF Parser
<1>2. KeyId(q) = IF q.ts_fragment_id > 0 THEN q.ts_fragment_id - 1 ELSE 0
  BY <1>1 DEF KeyId
<1>3. Count(q) = q.ts_count
  <2>1. 0 \div q.hls_segment_num = 0
    BY <1>1
  <2> QED
    BY <1>1, <2>1 DEF Count
<1>4. TsName(q) = NameOf(q, KeyId(q), Count(q)) /\ ListedName(q) = NameOf(q, KeyId(q), Count(q))
  BY <1>1 DEF TsName, ListedName
<1>5. \A x \in Nat : Printed(x) = x % U32 /\ Printed(x) \in Nat
  BY U32Assumption DEF Printed
<1>6. /\ q.ctx.audio_cc \in Nat /\ q.ctx.video_cc \in Nat
      /\ q.ctx.aframe_base \in Nat /\ q.ctx.aframe_pts \in Nat
  BY <1>1 DEF WriterType
<1>7. KeyId(q) \in Nat
  BY <1>1, <1>2
<1>8. Printed(KeyId(q)) = IF q.ts_fragment_id > 0 THEN (q.ts_fragment_id - 1) % U32 ELSE 0
  <2>1. Printed(KeyId(q)) = KeyId(q) % U32 /\ 0 % U32 = 0
    BY <1>5, <1>7, U32Assumption
  <2> QED
    BY <1>2, <2>1
<1>9. q.ts_count % U32 \in Nat
  BY <1>1, U32Assumption
<1>10. PICK a, b, c, d, e \in Nat :
         /\ a = Printed(KeyId(q)) /\ b = Printed(q.ctx.audio_cc) /\ c = Printed(q.ctx.video_cc)
         /\ d = Printed(q.ctx.aframe_base) /\ e = Printed(q.ctx.aframe_pts)
  BY <1>5, <1>6, <1>7
<1>11. PICK n \in Nat : n = q.ts_count % U32
  BY <1>9
<1>12. PICK x : x = ListedName(q)
  OBVIOUS
<1>13. x = [key |-> a, ac |-> b, vc |-> c, base |-> d, pts |-> e, count |-> n]
  BY <1>3, <1>4, <1>10, <1>11, <1>12 DEF NameOf
<1>14. x \in Name /\ x.key = a /\ x.count = n /\ x.ac = b /\ x.vc = c
  BY <1>13 DEF Name
<1> QED
  BY <1>4, <1>5, <1>6, <1>8, <1>10, <1>11, <1>12, <1>14 DEF Named

(* d is f with the (n + 1)-th segment, of that name, opened or missing. *)
Begun(f, n, name, d) ==
  /\ Base(d) /\ Kept(f, d) /\ d.status = f.status /\ d.written = f.written /\ Open(d, n + 1)
  /\ d.hls_start_ts = f.hls_start_ts /\ d.hls_segment_duration = f.hls_segment_duration
  /\ Opens(f) => /\ TracksOf(d.ctx) = Append(TracksOf(f.ctx), EmptyTrack)
                 /\ NamesOf(d.ctx) = Append(NamesOf(f.ctx), name)
  /\ Film(d.ctx) = Film(f.ctx)
  /\ HasPlaylist(f) => d.hls_content = Append(f.hls_content, Uri(name))

LEMMA ContextOpens ==
  ASSUME NEW q, NEW n, NEW f, Ready(q, n, f), Call(f) = n + 1, NEW name, Named(f, name),
         NEW m, m = (IF HasFiles(f) THEN 0 ELSE 1), NEW w, w = Takes(f, "segment"),
         NEW c, c = OpenFragment(f.ctx, name, m, w)
  PROVE  /\ WellFormed(c) /\ Resumes(c) /\ c \in WriterType /\ c.used <= AudioBufferSize
         /\ c.opened = (IF Lost(f, n + 1) THEN 0 ELSE 1) /\ Film(c) = Film(f.ctx)
         /\ Opens(f) => /\ TracksOf(c) = Append(TracksOf(f.ctx), EmptyTrack)
                        /\ NamesOf(c) = Append(NamesOf(f.ctx), name)
<1>1. WellFormed(f.ctx) /\ Resumes(f.ctx) /\ f.ctx.opened = 0 /\ f.ctx.used <= AudioBufferSize
  BY DEF Ready, Base
<1>2. name \in Name /\ name.ac = f.ctx.audio_cc % U32 /\ name.vc = f.ctx.video_cc % U32
  BY DEF Named
<1>3. PICK x : x = f.ctx
  OBVIOUS
<1>4. (Opens(f) <=> Opens(q)) /\ f.ctx.used \in Nat
  BY <1>1, KeptOptions DEF Ready, WellFormed, WriterType
<1>5. Lost(f, n + 1) <=> m = 0 /\ w = 0
  BY DEF Lost, Takes
<1>6. CASE ~Lost(f, n + 1)
  <2>1. m \in {0, 1} /\ (m = 1 \/ w # 0)
    BY <1>5, <1>6
  <2>2. /\ WellFormed(OpenFragment(x, name, m, w)) /\ OpenFragment(x, name, m, w).opened = 1
        /\ Film(OpenFragment(x, name, m, w)) = Film(x)
        /\ x.used = 0 => TracksOf(OpenFragment(x, name, m, w)) = Append(TracksOf(x), [video |-> <<>>, audio |-> <<>>])
        /\ NamesOf(OpenFragment(x, name, m, w)) = Append(NamesOf(x), name)
        /\ Resumes(x) /\ name.ac = x.audio_cc % U32 /\ name.vc = x.video_cc % U32
             => Resumes(OpenFragment(x, name, m, w))
    <3>1. WellFormed(x) /\ x.opened = 0 /\ x.used <= AudioBufferSize
      BY <1>1, <1>3
    <3> QED
      BY <1>2, <2>1, <3>1, OpenAdds
  <2>3. Opens(f) => x.used = 0
    <3>1. Opens(f) => ~Lost(q, n)
      BY <1>4, NothingLost
    <3> QED
      BY <1>3, <1>4, <3>1 DEF Ready
  <2>4. WellFormed(c) /\ c.opened = 1 /\ c \in WriterType /\ c.used <= AudioBufferSize /\ Film(c) = Film(x)
    BY <1>3, <2>2 DEF WellFormed
  <2>5. Resumes(c)
    BY <1>1, <1>2, <1>3, <2>2
  <2>6. Opens(f) => /\ TracksOf(c) = Append(TracksOf(x), EmptyTrack)
                    /\ NamesOf(c) = Append(NamesOf(x), name)
    BY <1>3, <2>2, <2>3 DEF EmptyTrack
  <2> QED
    BY <1>3, <1>6, <2>4, <2>5, <2>6
<1>7. CASE Lost(f, n + 1)
  <2>1. c = OpenFragment(x, name, 0, 0)
    BY <1>3, <1>5, <1>7
  <2>2. /\ WellFormed(OpenFragment(x, name, 0, 0)) /\ OpenFragment(x, name, 0, 0).opened = 0
        /\ OpenFragment(x, name, 0, 0).used = x.used
        /\ Keeps(x, OpenFragment(x, name, 0, 0)) /\ (Resumes(x) => Resumes(OpenFragment(x, name, 0, 0)))
    BY <1>1, <1>3, OpenRefused
  <2>3. WellFormed(c) /\ c.opened = 0 /\ c.used <= AudioBufferSize /\ Film(c) = Film(f.ctx) /\ Resumes(c)
    BY <1>1, <1>3, <2>1, <2>2 DEF Keeps, Film
  <2>4. ~Opens(f)
    BY <1>7, NothingLost
  <2> QED
    BY <1>7, <2>3, <2>4 DEF WellFormed
<1> QED
  BY <1>6, <1>7

LEMMA SegmentBegins ==
  ASSUME NEW q, NEW n \in Nat, NEW f, Ready(q, n, f), Call(f) = n + 1, f.hls_segment_num # 0,
         NEW d, d = NewSegment(f)
  PROVE  \E name : Named(f, name) /\ Begun(f, n, name, d)
<1>0. f \in Parser /\ f.key_ID_start = 0 /\ f.seek_flag1 = 0
  BY DEF Ready, Base, Parser
<1>1. PICK name : name = ListedName(f) /\ TsName(f) = name /\ Named(f, name) /\ name \in Name
  BY <1>0, NamesGiven DEF Named
<1>2. PICK m, w : m = (IF HasFiles(f) THEN 0 ELSE 1) /\ w = Takes(f, "segment")
  OBVIOUS
<1>3. PICK c : c = OpenFragment(f.ctx, name, m, w)
  OBVIOUS
<1>4. /\ WellFormed(c) /\ Resumes(c) /\ c \in WriterType /\ c.used <= AudioBufferSize
      /\ c.opened = (IF Lost(f, n + 1) THEN 0 ELSE 1) /\ Film(c) = Film(f.ctx)
      /\ Opens(f) => /\ TracksOf(c) = Append(TracksOf(f.ctx), EmptyTrack)
                     /\ NamesOf(c) = Append(NamesOf(f.ctx), name)
  BY <1>1, <1>2, <1>3, ContextOpens
<1>5. PICK h \in Seq(Line) : /\ h = (IF HasPlaylist(f) THEN Append(f.hls_content, Uri(name)) ELSE f.hls_content)
                             /\ HasPlaylist(f) => Tallied(h, n + 1)
  <2>1. f.hls_content \in Seq(Line) /\ Uri(name) \in Line /\ Uri(name).line = "URI"
    BY <1>0, <1>1, LineTypes DEF Parser, Uri
  <2>2. HasPlaylist(f) => Tallied(f.hls_content, n)
    BY KeptOptions DEF Ready
  <2>3. Append(f.hls_content, Uri(name)) \in Seq(Line)
    BY <2>1, Appended
  <2>4. HasPlaylist(f) => Tallied(Append(f.hls_content, Uri(name)), n + 1)
    BY <2>1, <2>2, LineTallied
  <2> QED
    BY <2>1, <2>3, <2>4
<1>6. d = [f EXCEPT !.hls_content = h, !.ctx = c, !.seek_flag1 = 0, !.ts_start_flag = 1]
  <2>1. d = [ f EXCEPT
           !.hls_content = IF HasPlaylist(f) THEN Append(@, Uri(ListedName(f))) ELSE @,
           !.ctx = OpenFragment(@, TsName(f), IF HasFiles(f) THEN 0 ELSE 1, Takes(f, "segment")),
           !.seek_flag1 = 0,
           !.ts_start_flag = 1 ]
    BY <1>0 DEF NewSegment
  <2> QED
    BY <1>0, <1>1, <1>2, <1>3, <1>5, <2>1
<1>7. d \in Parser
  BY ZenonT(60), <1>0, <1>4, <1>5, <1>6 DEF Parser
<1>8. Kept(f, d) /\ d.status = f.status /\ d.written = f.written
  BY <1>0, <1>6 DEF Parser, Kept
<1>9. d.ctx = c /\ d.ts_start_flag = 1 /\ d.hls_file = f.hls_file /\ d.hls_content = h
  BY <1>0, <1>6 DEF Parser
<1>10. d.hls_start_ts = f.hls_start_ts /\ d.hls_segment_duration = f.hls_segment_duration
  BY <1>0, <1>6 DEF Parser
<1>11. /\ (HasPlaylist(d) <=> HasPlaylist(f)) /\ (HasPlaylist(f) <=> HasPlaylist(q))
       /\ (HasFiles(d) <=> HasFiles(f)) /\ d.refused = f.refused
  BY <1>8, KeptOptions DEF Ready, Kept
<1>12. Base(d)
  BY <1>4, <1>7, <1>9 DEF Base
<1>13. Open(d, n + 1)
  <2>1. Lost(d, n + 1) <=> Lost(f, n + 1)
    BY <1>11 DEF Lost
  <2>2. HasPlaylist(d) => Tallied(d.hls_content, n + 1) /\ Tried(d, n + 1)
    BY <1>5, <1>9, <1>11 DEF Ready, Tried
  <2> QED
    BY <1>4, <1>9, <2>1, <2>2 DEF Open
<1>14. Begun(f, n, name, d)
  BY <1>4, <1>5, <1>8, <1>9, <1>10, <1>12, <1>13 DEF Begun
<1> QED
  BY <1>1, <1>14

LEMMA SegmentStarts ==
  ASSUME NEW q, Base(q), NEW n, Stands(q, n), Call(q) = n + 1, q.flag_over = 0, q.hls_segment_num # 0,
         NEW d, d = HlsSegment(q)
  PROVE  \E f, name : Ready(q, n, f) /\ Named(f, name) /\ Begun(f, n, name, d)
<1>1. PICK f : f = OpenPlaylist(CloseSegment(q))
  OBVIOUS
<1>2. Ready(q, n, f) /\ n \in Nat
  BY <1>1, SegmentReady DEF Stands
<1>3. f.hls_segment_num # 0 /\ f.flag_over = 0 /\ Call(f) = n + 1
  BY <1>2 DEF Ready, Kept, Call
<1>4. d = NewSegment(f)
  BY <1>1, <1>3, KeptOptions DEF HlsSegment
<1> QED
  BY <1>2, <1>3, <1>4, SegmentBegins

-----------------------------------------------------------------------------
(* The playlist: behind its header the lines of the segments, of which all *)
(* or all but the last have a duration.                                    *)
Listed(h, names, ds) ==
  /\ Len(h) = 4 + Len(names) + Len(ds)
  /\ \A j \in 1 .. 4 : h[j] = Header[j]
  /\ \A i \in 1 .. Len(ds) : h[3 + 2 * i] = Extinf(ds[i])
  /\ \A i \in 1 .. Len(names) :
       h[IF i <= Len(ds) THEN 4 + 2 * i ELSE 3 + 2 * i] = Uri(names[i])

LEMMA ListedAt ==
  ASSUME NEW h, NEW names, NEW ds, Listed(h, names, ds), NEW i \in 1 .. Len(names)
  PROVE  /\ i <= Len(ds) => h[4 + 2 * i] = Uri(names[i])
         /\ ~(i <= Len(ds)) => h[3 + 2 * i] = Uri(names[i])
<1>1. h[IF i <= Len(ds) THEN 4 + 2 * i ELSE 3 + 2 * i] = Uri(names[i])
  BY DEF Listed
<1> QED
  BY <1>1

LEMMA HeaderListed ==
  ASSUME NEW h, h = Header, NEW names, Len(names) = 0, NEW ds, Len(ds) = 0
  PROVE  Listed(h, names, ds)
BY LineTypes DEF Listed

LEMMA DurationListed ==
  ASSUME NEW h \in Seq(Line), NEW names \in Seq(Name), NEW ds \in Seq(Time),
         Listed(h, names, ds), Len(names) = Len(ds) + 1, NEW ms \in Time,
         NEW hh, hh = InsertDuration(h, ms)
  PROVE  /\ hh \in Seq(Line) /\ Append(ds, ms) \in Seq(Time) /\ Len(Append(ds, ms)) = Len(ds) + 1
         /\ Listed(hh, names, Append(ds, ms))
<1>1. PICK k \in Nat : k = Len(ds)
  OBVIOUS
<1>0. PICK e : e = Append(ds, ms)
  OBVIOUS
<1>2. e \in Seq(Time) /\ Len(e) = k + 1 /\ e[k + 1] = ms /\ \A i \in 1 .. k : e[i] = ds[i]
  BY <1>0, <1>1, Appended
<1>3. Len(h) = 5 + 2 * k /\ Len(names) = k + 1
  BY <1>1 DEF Listed
<1>4. h # <<>> /\ ms \in Nat
  BY <1>3, U32Assumption DEF Time
<1>5. /\ hh \in Seq(Line) /\ Len(hh) = 6 + 2 * k
      /\ \A j \in 1 .. 4 + 2 * k : hh[j] = h[j]
      /\ hh[5 + 2 * k] = Extinf(ms) /\ hh[6 + 2 * k] = h[5 + 2 * k]
  <2>1. /\ InsertDuration(h, ms) \in Seq(Line) /\ Len(InsertDuration(h, ms)) = Len(h) + 1
        /\ \A j \in 1 .. Len(h) - 1 : InsertDuration(h, ms)[j] = h[j]
        /\ InsertDuration(h, ms)[Len(h)] = Extinf(ms)
        /\ InsertDuration(h, ms)[Len(h) + 1] = h[Len(h)]
    BY <1>4, Inserted
  <2> QED
    BY <1>3, <2>1
<1>6. \A j \in 1 .. 4 : hh[j] = Header[j]
  BY <1>5 DEF Listed
<1>7. ASSUME NEW i \in 1 .. k + 1 PROVE hh[3 + 2 * i] = Extinf(e[i])
  <2>1. CASE i = k + 1
    BY <1>2, <1>5, <2>1
  <2>2. CASE i # k + 1
    <3>1. i \in 1 .. k /\ 3 + 2 * i \in 1 .. 4 + 2 * k
      BY <2>2
    <3> QED
      BY <1>1, <1>2, <1>5, <3>1 DEF Listed
  <2> QED
    BY <2>1, <2>2
<1>8. ASSUME NEW i \in 1 .. k + 1 PROVE hh[4 + 2 * i] = Uri(names[i])
  <2>1. CASE i = k + 1
    <3>1. h[3 + 2 * i] = Uri(names[i])
      BY <1>1, <1>3, <2>1, ListedAt
    <3>2. 3 + 2 * i = 5 + 2 * k /\ 4 + 2 * i = 6 + 2 * k
      BY <2>1
    <3> QED
      BY <1>5, <3>1, <3>2
  <2>2. CASE i # k + 1
    <3>1. i \in 1 .. k /\ 4 + 2 * i \in 1 .. 4 + 2 * k /\ i \in 1 .. Len(names)
      BY <1>3, <2>2
    <3>2. h[4 + 2 * i] = Uri(names[i])
      BY <1>1, <3>1, ListedAt
    <3> QED
      BY <1>5, <3>1, <3>2
  <2> QED
    BY <2>1, <2>2
<1>9. Listed(hh, names, e)
  <2>1. Len(hh) = 4 + Len(names) + Len(e)
    BY <1>1, <1>2, <1>3, <1>5
  <2>2. \A i \in 1 .. Len(names) : hh[IF i <= Len(e) THEN 4 + 2 * i ELSE 3 + 2 * i] = Uri(names[i])
    BY SMTT(30), <1>2, <1>3, <1>8
  <2> QED
    BY <1>2, <1>6, <1>7, <2>1, <2>2 DEF Listed
<1> QED
  BY <1>0, <1>1, <1>2, <1>5, <1>9

LEMMA NameListed ==
  ASSUME NEW h \in Seq(Line), NEW names \in Seq(Name), NEW ds \in Seq(Time),
         Listed(h, names, ds), Len(names) = Len(ds), NEW name \in Name
  PROVE  Listed(Append(h, Uri(name)), Append(names, name), ds)
<1>9. PICK k \in Nat : k = Len(ds)
  OBVIOUS
<1>1. k = Len(ds) /\ Len(names) = k /\ Len(h) = 4 + 2 * k
  BY <1>9 DEF Listed
<1>2. PICK x \in Line : x = Uri(name)
  BY LineTypes
<1>0. PICK g, ns : g = Append(h, x) /\ ns = Append(names, name)
  OBVIOUS
<1>3. Len(g) = 5 + 2 * k /\ g[5 + 2 * k] = x /\ \A j \in 1 .. 4 + 2 * k : g[j] = h[j]
  <2>1. /\ Len(g) = Len(h) + 1 /\ g[Len(h) + 1] = x /\ \A j \in 1 .. Len(h) : g[j] = h[j]
    BY <1>0, Appended
  <2> QED
    BY <1>1, <2>1
<1>4. Len(ns) = k + 1 /\ ns[k + 1] = name /\ \A i \in 1 .. k : ns[i] = names[i]
  BY <1>0, <1>1, Appended
<1>5. \A j \in 1 .. 4 : g[j] = Header[j]
  BY <1>3 DEF Listed
<1>6. \A i \in 1 .. k : g[3 + 2 * i] = Extinf(ds[i])
  BY SMTT(30), <1>1, <1>3 DEF Listed
<1>7. ASSUME NEW i \in 1 .. k + 1
      PROVE  g[IF i <= k THEN 4 + 2 * i ELSE 3 + 2 * i] = Uri(ns[i])
  <2>1. CASE i = k + 1
    BY <1>2, <1>3, <1>4, <2>1
  <2>2. CASE i # k + 1
    <3>1. i \in 1 .. k /\ i <= k /\ 4 + 2 * i \in 1 .. 4 + 2 * k /\ i \in 1 .. Len(names)
      BY <1>1, <2>2
    <3>2. h[4 + 2 * i] = Uri(names[i])
      BY <1>1, <3>1, ListedAt
    <3> QED
      BY <1>3, <1>4, <3>1, <3>2
  <2> QED
    BY <2>1, <2>2
<1>8. Listed(g, ns, ds)
  BY <1>1, <1>3, <1>4, <1>5, <1>6, <1>7 DEF Listed
<1> QED
  BY <1>0, <1>2, <1>8

(* The openings of the segments: the key frames and the time then. *)
Opening == [keys : Nat, time : Time]

Gap(os, i) == (os[i + 1].time - os[i].time) % U32

Located(names, os) ==
  /\ Len(names) = Len(os)
  /\ \A i \in 1 .. Len(os) :
       names[i].count = i - 1 /\ names[i].key = IF i = 1 THEN 0 ELSE os[i].keys - 1

Spanned(ds, os, top) == \A i \in 1 .. Len(ds) : ds[i] = Gap(os, i) /\ ds[i] <= top

(* Names, start and playlist are those of segments opened at os, of which  *)
(* the last is still open.                                                 *)
Books(q, os) ==
  /\ os \in Seq(Opening)
  /\ Opens(q) => Located(NamesOf(q.ctx), os)
  /\ HasPlaylist(q) /\ os # <<>> =>
       /\ q.hls_start_ts = os[Len(os)].time
       /\ q.refused = {} =>
            \E ds \in Seq(Time) :
              /\ Len(ds) = Len(os) - 1 /\ Listed(q.hls_content, NamesOf(q.ctx), ds)
              /\ Spanned(ds, os, q.hls_segment_duration)

LEMMA NamesLocated ==
  ASSUME NEW names \in Seq(Name), NEW os \in Seq(Opening), Located(names, os), NEW name \in Name, NEW o \in Opening,
         name.count = Len(os), name.key = IF os = <<>> THEN 0 ELSE o.keys - 1
  PROVE  Located(Append(names, name), Append(os, o))
<1>1. PICK k \in Nat : k = Len(os) /\ Len(names) = k /\ (os = <<>> <=> k = 0)
  BY DEF Located
<1>0. PICK ns, oo : ns = Append(names, name) /\ oo = Append(os, o)
  OBVIOUS
<1>2. Len(ns) = k + 1 /\ ns[k + 1] = name /\ \A i \in 1 .. k : ns[i] = names[i]
  BY <1>0, <1>1, Appended
<1>3. Len(oo) = k + 1 /\ oo[k + 1] = o /\ \A i \in 1 .. k : oo[i] = os[i]
  BY <1>0, <1>1, Appended
<1>4. ASSUME NEW i \in 1 .. k + 1
      PROVE  ns[i].count = i - 1 /\ ns[i].key = IF i = 1 THEN 0 ELSE oo[i].keys - 1
  <2>1. CASE i = k + 1
    BY <1>1, <1>2, <1>3, <2>1
  <2>2. CASE i # k + 1
    <3>1. i \in 1 .. k
      BY <2>2
    <3> QED
      BY <1>1, <1>2, <1>3, <3>1 DEF Located
  <2> QED
    BY <2>1, <2>2
<1> QED
  BY <1>0, <1>2, <1>3, <1>4 DEF Located

LEMMA GapsKept ==
  ASSUME NEW os \in Seq(Opening), NEW o \in Opening, NEW i \in 1 .. Len(os) - 1
  PROVE  Gap(Append(os, o), i) = Gap(os, i)
<1>1. i \in 1 .. Len(os) /\ i + 1 \in 1 .. Len(os)
  OBVIOUS
<1>2. \A j \in 1 .. Len(os) : Append(os, o)[j] = os[j]
  BY Appended
<1> QED
  BY <1>1, <1>2 DEF Gap

(* One more duration, up to the time of an opening o or of the end. *)
LEMMA DurationSpans ==
  ASSUME NEW os \in Seq(Opening), os # <<>>, NEW o \in Opening, NEW ds \in Seq(Time), NEW top \in Time,
         Len(ds) = Len(os) - 1, Spanned(ds, os, top), NEW ms \in Time, NEW up \in Time,
         ms = (o.time - os[Len(os)].time) % U32, ms <= up, top <= up
  PROVE  Spanned(Append(ds, ms), Append(os, o), up)
<1>1. PICK k \in Nat \ {0} : k = Len(os)
  OBVIOUS
<1>0. PICK e, oo : e = Append(ds, ms) /\ oo = Append(os, o)
  OBVIOUS
<1>2. Len(e) = k /\ e[k] = ms /\ \A i \in 1 .. k - 1 : e[i] = ds[i]
  <2>1. Len(e) = Len(ds) + 1 /\ e[Len(ds) + 1] = ms /\ \A i \in 1 .. Len(ds) : e[i] = ds[i]
    BY <1>0, Appended
  <2> QED
    BY <1>1, <2>1
<1>3. oo[k + 1] = o /\ oo[k] = os[k]
  BY <1>0, <1>1, Appended
<1>4. \A i \in 1 .. k - 1 : Gap(oo, i) = Gap(os, i)
  BY <1>0, <1>1, GapsKept
<1>5. ASSUME NEW i \in 1 .. k PROVE e[i] = Gap(oo, i) /\ e[i] <= up
  <2>1. CASE i = k
    BY <1>1, <1>2, <1>3, <2>1 DEF Gap
  <2>2. CASE i # k
    <3>1. i \in 1 .. k - 1 /\ i \in 1 .. Len(ds)
      BY <1>1, <2>2
    <3>2. ds[i] = Gap(os, i) /\ ds[i] <= top
      BY <3>1 DEF Spanned
    <3>3. ds[i] \in Int /\ top \in Int /\ up \in Int
      <4>1. ds[i] \in Time
        BY <3>1, ElementOfSeq
      <4> QED
        BY <4>1, U32Assumption DEF Time
    <3>4. ds[i] <= up
      BY <3>2, <3>3
    <3> QED
      BY <1>2, <1>4, <3>1, <3>2, <3>4
  <2> QED
    BY <2>1, <2>2
<1> QED
  BY <1>0, <1>2, <1>5 DEF Spanned

(* The last segment is entered with its duration when it closes. *)
LEMMA DurationsEntered ==
  ASSUME NEW q, Base(q), NEW os, Books(q, os), Stands(q, Len(os)),
         NEW f, Ready(q, Len(os), f), HasPlaylist(q), q.refused = {},
         NEW o \in Opening, os # <<>> => o.time = q.hls_end_ts
  PROVE  \E ds \in Seq(Time) :
           /\ Len(ds) = Len(os) /\ Len(NamesOf(q.ctx)) = Len(os)
           /\ Listed(f.hls_content, NamesOf(q.ctx), ds)
           /\ Spanned(ds, Append(os, o), f.hls_segment_duration)
<1>1. PICK k \in Nat : k = Len(os) /\ os \in Seq(Opening) /\ (os = <<>> <=> k = 0)
  BY DEF Books
<1>2. PICK oo : oo = Append(os, o)
  OBVIOUS
<1>3. PICK ns : ns = NamesOf(q.ctx)
  OBVIOUS
<1>4. ns \in Seq(Name) /\ Len(ns) = Len(q.ctx.segments)
  <2>1. q.ctx \in WriterType
    BY DEF Base, Parser
  <2> QED
    BY <1>3, <2>1, TracksType
<1>5. Opens(q) /\ Accounted(q, f) /\ f.hls_segment_duration \in Time
  BY DEF Opens, Ready, Base, Parser
<1>8. IF os = <<>> THEN Shut(q) ELSE q.ts_start_flag = 1
  BY <1>1 DEF Stands, Open
<1>6. CASE os = <<>>
  <2>1. f.hls_content = Header /\ Len(ns) = 0
    BY <1>4, <1>5, <1>6, <1>8 DEF Accounted, Shut
  <2>2. PICK e : e = <<>>
    OBVIOUS
  <2>3. e \in Seq(Time) /\ Len(e) = 0 /\ 1 .. 0 = {}
    BY <2>2
  <2>4. Listed(f.hls_content, ns, e)
    BY <2>1, <2>3, HeaderListed
  <2>5. Spanned(e, oo, f.hls_segment_duration)
    BY <2>3 DEF Spanned
  <2> QED
    BY <1>1, <1>2, <1>3, <1>6, <2>1, <2>3, <2>4, <2>5
<1>7. CASE os # <<>>
  <2>1. PICK e \in Seq(Time) :
          /\ Len(e) = Len(os) - 1 /\ Listed(q.hls_content, ns, e)
          /\ Spanned(e, os, q.hls_segment_duration)
    BY <1>3, <1>7 DEF Books
  <2>2. q.hls_start_ts = os[Len(os)].time
    BY <1>7 DEF Books
  <2>3. Len(ns) = k /\ k # 0
    BY <1>1, <1>3, <1>5, <1>7 DEF Books, Located
  <2>4. PICK ms \in Time : ms = Interval(q)
    BY IntervalType DEF Base
  <2>5. q.hls_content \in Seq(Line) /\ q.hls_segment_duration \in Time
    BY DEF Base, Parser
  <2>6. /\ f.hls_content = InsertDuration(q.hls_content, ms) /\ ms <= f.hls_segment_duration
        /\ q.hls_segment_duration <= f.hls_segment_duration
    BY <1>5, <1>7, <1>8, <2>4 DEF Accounted
  <2>7. PICK h, top, up : h = q.hls_content /\ top = q.hls_segment_duration /\ up = f.hls_segment_duration
    OBVIOUS
  <2>8. PICK g : g = InsertDuration(h, ms)
    OBVIOUS
  <2>9. /\ Append(e, ms) \in Seq(Time) /\ Len(Append(e, ms)) = Len(e) + 1
        /\ Listed(g, ns, Append(e, ms))
    <3>1. Len(ns) = Len(e) + 1
      BY <1>1, <2>1, <2>3
    <3> QED
      BY <1>4, <2>1, <2>5, <2>7, <2>8, <3>1, DurationListed
  <2>10. Spanned(Append(e, ms), Append(os, o), up)
    <3>1. ms = (o.time - os[Len(os)].time) % U32
      BY <1>7, <2>2, <2>4 DEF Interval
    <3> QED
      BY <1>1, <1>5, <1>7, <2>1, <2>5, <2>6, <2>7, <3>1, DurationSpans
  <2>11. Len(Append(e, ms)) = k
    BY <1>1, <2>1, <2>9
  <2> QED
    BY <1>1, <1>3, <2>3, <2>6, <2>7, <2>8, <2>9, <2>10, <2>11
<1> QED
  BY <1>6, <1>7

(* A segment that begins is entered in the books. *)
LEMMA BooksContinue ==
  ASSUME NEW q, Base(q), NEW os, Books(q, os), Stands(q, Len(os)),
         NEW f, Ready(q, Len(os), f), NEW name, Named(f, name), NEW d, Begun(f, Len(os), name, d),
         NEW o \in Opening, Len(os) < U32, q.ts_count = Len(os),
         IF os = <<>> THEN q.ts_fragment_id = 0 /\ o.time = q.hls_start_ts
         ELSE q.ts_fragment_id = o.keys /\ 0 < o.keys /\ o.keys < U32 /\ o.time = q.hls_end_ts
  PROVE  Books(d, Append(os, o))
<1> DEFINE k == Len(os)
<1>1. os \in Seq(Opening) /\ k \in Nat /\ (os = <<>> <=> k = 0)
  BY DEF Books
<1>2. PICK oo : oo = Append(os, o)
  OBVIOUS
<1>3. /\ oo \in Seq(Opening) /\ oo # <<>> /\ Len(oo) = k + 1 /\ oo[k + 1] = o
      /\ \A i \in 1 .. k : oo[i] = os[i]
  BY <1>1, <1>2, Appended
<1>4. /\ Kept(q, f) /\ Kept(f, d) /\ Kept(q, d) /\ Keeps(q.ctx, f.ctx)
      /\ (Opens(d) <=> Opens(q)) /\ (Opens(f) <=> Opens(q))
      /\ (HasPlaylist(d) <=> HasPlaylist(q)) /\ (HasPlaylist(f) <=> HasPlaylist(q))
      /\ d.refused = q.refused
  <2>1. Kept(q, f) /\ Kept(f, d) /\ Keeps(q.ctx, f.ctx)
    BY DEF Ready, Begun
  <2>2. Kept(q, d)
    BY <2>1, KeptAgain
  <2> QED
    BY <2>1, <2>2, KeptOptions DEF Kept
<1>5. PICK ns : ns = NamesOf(q.ctx)
  OBVIOUS
<1>6. ns \in Seq(Name) /\ Len(ns) = Len(q.ctx.segments) /\ NamesOf(f.ctx) = ns
  <2>1. q.ctx \in WriterType
    BY DEF Base, Parser
  <2> QED
    BY <1>4, <1>5, <2>1, TracksType DEF Keeps
<1>7. ASSUME Opens(q) PROVE NamesOf(d.ctx) = Append(ns, name)
  BY <1>4, <1>6, <1>7 DEF Begun
<1>8. name \in Name /\ name.count = k /\ name.key = IF os = <<>> THEN 0 ELSE o.keys - 1
  <2>1. f.ts_count = k /\ f.ts_fragment_id = q.ts_fragment_id
    BY <1>4 DEF Kept
  <2>2. name.count = k
    <3>1. k % U32 = k
      BY <1>1, U32Assumption
    <3> QED
      BY <2>1, <3>1 DEF Named
  <2>3. name.key = IF os = <<>> THEN 0 ELSE o.keys - 1
    <3>1. CASE os = <<>>
      BY <2>1, <3>1 DEF Named
    <3>2. CASE os # <<>>
      <4>1. o.keys \in Nat
        BY DEF Opening
      <4>2. (o.keys - 1) % U32 = o.keys - 1
        BY <3>2, <4>1, U32Assumption
      <4> QED
        BY <2>1, <3>2, <4>2 DEF Named
    <3> QED
      BY <3>1, <3>2
  <2> QED
    BY <2>2, <2>3 DEF Named
<1>9. ASSUME Opens(q) PROVE Located(NamesOf(d.ctx), oo)
  <2>1. Located(ns, os)
    BY <1>5, <1>9 DEF Books
  <2>2. Located(Append(ns, name), Append(os, o))
    BY <1>1, <1>6, <1>8, <2>1, NamesLocated
  <2> QED
    BY <1>2, <1>7, <1>9, <2>2
<1>10. ASSUME HasPlaylist(q) PROVE d.hls_start_ts = oo[Len(oo)].time
  <2>1. d.hls_start_ts = f.hls_start_ts
    BY DEF Begun
  <2>2. Accounted(q, f)
    BY <1>10 DEF Ready
  <2>5. IF os = <<>> THEN q.ts_start_flag = 0 ELSE q.ts_start_flag = 1
    BY <1>1 DEF Stands, Shut, Open
  <2>3. CASE os = <<>>
    BY <1>1, <1>3, <2>1, <2>2, <2>3, <2>5 DEF Accounted
  <2>4. CASE os # <<>>
    BY <1>1, <1>3, <2>1, <2>2, <2>4, <2>5 DEF Accounted
  <2> QED
    BY <2>3, <2>4
<1>11. ASSUME HasPlaylist(q), q.refused = {}
       PROVE  \E ds \in Seq(Time) :
                /\ Len(ds) = Len(oo) - 1 /\ Listed(d.hls_content, NamesOf(d.ctx), ds)
                /\ Spanned(ds, oo, d.hls_segment_duration)
  <2>1. /\ Opens(q) /\ Accounted(q, f) /\ f \in Parser
        /\ d.hls_content = Append(f.hls_content, Uri(name))
        /\ d.hls_segment_duration = f.hls_segment_duration
    BY <1>4, <1>11 DEF Opens, Ready, Base, Begun
  <2>2. f.hls_content \in Seq(Line) /\ f.hls_segment_duration \in Time
    BY <2>1 DEF Parser
  <2>3. NamesOf(d.ctx) = Append(ns, name)
    BY <1>7, <2>1
  <2>4. PICK ds \in Seq(Time) : /\ Len(ds) = k /\ Len(ns) = k
                                /\ Listed(f.hls_content, ns, ds)
                                /\ Spanned(ds, oo, f.hls_segment_duration)
    <3>1. PICK e \in Seq(Time) :
            /\ Len(e) = Len(os) /\ Len(NamesOf(q.ctx)) = Len(os)
            /\ Listed(f.hls_content, NamesOf(q.ctx), e)
            /\ Spanned(e, Append(os, o), f.hls_segment_duration)
      BY <1>11, DurationsEntered
    <3> QED
      BY <1>2, <1>5, <3>1
  <2>5. PICK h : h = f.hls_content
    OBVIOUS
  <2>6. Listed(Append(h, Uri(name)), Append(ns, name), ds)
    BY <1>6, <1>8, <2>2, <2>4, <2>5, NameListed
  <2>7. Len(ds) = Len(oo) - 1
    BY <1>1, <1>3, <2>4
  <2> QED
    BY <2>1, <2>3, <2>4, <2>5, <2>6, <2>7
<1> QED
  BY <1>2, <1>3, <1>4, <1>9, <1>10, <1>11 DEF Books

-----------------------------------------------------------------------------
(* The handlers. *)

(* A state within the loop: os are the openings so far. *)
Standing(q, os) ==
  /\ Base(q) /\ Books(q, os) /\ q.flag_over = 0 /\ q.written = <<>>
  /\ q.ts_count <= q.key_frame_count
  /\ IF q.flag_first_ts = 0
     THEN /\ Shut(q) /\ os = <<>> /\ q.hls_segment_num = 0 /\ q.ts_fragment_id = 0 /\ q.ts_count = 0
     ELSE /\ Open(q, Len(os)) /\ os # <<>> /\ q.hls_segment_num = q.segment_num /\ q.segment_num # 0
          /\ q.ts_count = Len(os) - 1

Fixed(q, d) ==
  d.b_ts = q.b_ts /\ d.b_m3u8 = q.b_m3u8 /\ d.segment_num = q.segment_num /\ d.refused = q.refused

(* One more element if n is 1. *)
Grown(s, n, x) == IF n = 1 THEN Append(s, x) ELSE s

LEMMA FixedOptions ==
  ASSUME NEW q, NEW d, Fixed(q, d)
  PROVE  /\ HasPlaylist(d) <=> HasPlaylist(q)
         /\ HasFiles(d) <=> HasFiles(q)
         /\ Opens(d) <=> Opens(q)
BY DEF Fixed, HasPlaylist, HasFiles, Opens

LEMMA FixedAgain ==
  ASSUME NEW q, NEW e, NEW d, Fixed(q, e), Fixed(e, d)
  PROVE  Fixed(q, d)
BY DEF Fixed

(* From one state of the loop to the next. *)
LEMMA SegmentFollows ==
  ASSUME NEW q, Base(q), NEW os, Books(q, os), Stands(q, Len(os)),
         q.flag_over = 0, q.written = <<>>, q.flag_first_ts = 1, q.hls_segment_num = q.segment_num,
         q.segment_num # 0, q.ts_count <= q.key_frame_count,
         NEW o \in Opening, Len(os) < U32, q.ts_count = Len(os),
         IF os = <<>> THEN q.ts_fragment_id = 0 /\ o.time = q.hls_start_ts
         ELSE q.ts_fragment_id = o.keys /\ 0 < o.keys /\ o.keys < U32 /\ o.time = q.hls_end_ts,
         NEW d, d = HlsSegment(q)
  PROVE  /\ Standing(d, Append(os, o)) /\ Kept(q, d) /\ Fixed(q, d) /\ d.status = q.status
         /\ Opens(q) => TracksOf(d.ctx) = Append(TracksOf(q.ctx), EmptyTrack)
         /\ Film(d.ctx) = Film(q.ctx)
<1>0. Call(q) = Len(os) + 1 /\ Len(os) \in Nat
  BY DEF Call, Books
<1>1. PICK f, name : Ready(q, Len(os), f) /\ Named(f, name) /\ Begun(f, Len(os), name, d)
  BY <1>0, SegmentStarts
<1>2. Books(d, Append(os, o))
  BY <1>1, BooksContinue
<1>3. Kept(q, f) /\ Kept(f, d) /\ Keeps(q.ctx, f.ctx) /\ f.status = q.status /\ f.written = q.written
  BY <1>1 DEF Ready, Begun
<1>4. Kept(q, d) /\ Fixed(q, d) /\ (Opens(f) <=> Opens(q))
  BY <1>3, KeptAgain, KeptOptions DEF Kept, Fixed
<1>5. os \in Seq(Opening) /\ Append(os, o) # <<>> /\ Len(Append(os, o)) = Len(os) + 1 /\ Len(os) \in Nat
  BY Appended DEF Books
<1>6. Base(d) /\ Open(d, Len(os) + 1) /\ d.status = f.status /\ d.written = f.written
  BY <1>1 DEF Begun
<1>7. Standing(d, Append(os, o))
  BY <1>2, <1>3, <1>4, <1>5, <1>6 DEF Standing, Kept
<1>8. Opens(q) => TracksOf(d.ctx) = Append(TracksOf(q.ctx), EmptyTrack)
  BY <1>1, <1>3, <1>4 DEF Begun, Keeps
<1>9. Film(d.ctx) = Film(q.ctx)
  BY <1>1, <1>3 DEF Begun, Keeps, Film
<1> QED
  BY <1>3, <1>4, <1>6, <1>7, <1>8, <1>9

(* The first packet with media. *)
LEMMA FirstOpens ==
  ASSUME NEW q, NEW os, Standing(q, os), q.flag_first_ts = 0, q.segment_num # 0,
         NEW t, t.ts \in Time, NEW o \in Opening, o.time = t.ts, NEW d, d = FirstPacket(q, t)
  PROVE  /\ Standing(d, Append(os, o)) /\ Fixed(q, d) /\ d.status = q.status
         /\ d.flag_first_ts = 1 /\ d.key_frame_count = q.key_frame_count
         /\ Opens(q) => TracksOf(d.ctx) = Append(TracksOf(q.ctx), EmptyTrack)
         /\ Film(d.ctx) = Film(q.ctx)
<1>1. /\ Base(q) /\ Books(q, os) /\ Shut(q) /\ os = <<>> /\ q.flag_over = 0 /\ q.written = <<>>
      /\ q.ts_fragment_id = 0 /\ q.ts_count = 0 /\ q.ts_count <= q.key_frame_count /\ q \in Parser
  BY DEF Standing, Base
<1>2. PICK e : e = [q EXCEPT !.hls_start_ts = t.ts, !.hls_segment_num = q.segment_num, !.flag_first_ts = 1]
  OBVIOUS
<1>3. d = HlsSegment(e)
  BY <1>2 DEF FirstPacket
<1>4. e \in Parser
  BY <1>1, <1>2 DEF Parser
<1>5. /\ e.ctx = q.ctx /\ e.hls_start_ts = t.ts /\ e.hls_segment_num = q.segment_num /\ e.flag_first_ts = 1
      /\ e.hls_content = q.hls_content /\ e.hls_file = q.hls_file /\ e.ts_start_flag = q.ts_start_flag
  BY <1>1, <1>2 DEF Parser
<1>6. /\ e.flag_over = q.flag_over /\ e.written = q.written /\ e.ts_fragment_id = q.ts_fragment_id
      /\ e.ts_count = q.ts_count /\ e.key_frame_count = q.key_frame_count /\ e.status = q.status
      /\ Fixed(q, e) /\ e.segment_num = q.segment_num
  BY <1>1, <1>2 DEF Parser, Fixed
<1>7. Base(e) /\ Shut(e)
  BY <1>1, <1>4, <1>5 DEF Base, Shut
<1>8. Books(e, os)
  BY <1>1, <1>5, <1>6, FixedOptions DEF Books
<1>9. Len(os) = 0 /\ 0 < U32
  BY <1>1, U32Assumption
<1>10. /\ Standing(d, Append(os, o)) /\ Kept(e, d) /\ Fixed(e, d) /\ d.status = e.status
       /\ Opens(e) => TracksOf(d.ctx) = Append(TracksOf(e.ctx), EmptyTrack)
       /\ Film(d.ctx) = Film(e.ctx)
  <2>1. Stands(e, Len(os))
    <3>1. Len(os) = 0 /\ 0 \in Nat
      BY <1>9
    <3> QED
      BY <1>7, <3>1 DEF Stands
  <2>2. IF os = <<>> THEN e.ts_fragment_id = 0 /\ o.time = e.hls_start_ts
         ELSE e.ts_fragment_id = o.keys /\ 0 < o.keys /\ o.keys < U32 /\ o.time = e.hls_end_ts
    BY <1>1, <1>5, <1>6
  <2>3. /\ e.flag_over = 0 /\ e.written = <<>> /\ e.flag_first_ts = 1 /\ e.hls_segment_num = e.segment_num
        /\ e.segment_num # 0 /\ e.ts_count <= e.key_frame_count /\ Len(os) < U32 /\ e.ts_count = Len(os)
    BY <1>1, <1>5, <1>6, <1>9
  <2> QED
    BY <1>3, <1>7, <1>8, <2>1, <2>2, <2>3, SegmentFollows
<1> QED
  BY <1>5, <1>6, <1>10, FixedAgain, FixedOptions DEF Kept

(* A key frame that starts no segment. *)
LEMMA KeyCounts ==
  ASSUME NEW q, NEW os, Standing(q, os), NEW d, d = CountKey(q)
  PROVE  /\ Standing(d, os) /\ Fixed(q, d) /\ d.status = q.status /\ d.ctx = q.ctx
         /\ d.flag_first_ts = q.flag_first_ts /\ d.hls_end_ts = q.hls_end_ts
         /\ d.key_frame_count = q.key_frame_count + 1 /\ d.hls_segment_num = q.hls_segment_num
<1>1. q \in Parser /\ Base(q) /\ Books(q, os)
  BY DEF Standing, Base
<1>2. d = [q EXCEPT !.key_frame_count = @ + 1] /\ q.key_frame_count + 1 \in Nat
  BY <1>1 DEF CountKey, Parser
<1>3. d \in Parser
  BY SMTT(30), <1>1, <1>2 DEF Parser
<1>4. /\ d.ctx = q.ctx /\ d.hls_start_ts = q.hls_start_ts /\ d.hls_segment_num = q.hls_segment_num
      /\ d.flag_first_ts = q.flag_first_ts /\ d.hls_content = q.hls_content /\ d.hls_file = q.hls_file
      /\ d.ts_start_flag = q.ts_start_flag
  BY <1>1, <1>2 DEF Parser
<1>5. /\ d.flag_over = q.flag_over /\ d.written = q.written /\ d.ts_fragment_id = q.ts_fragment_id
      /\ d.ts_count = q.ts_count /\ d.key_frame_count = q.key_frame_count + 1 /\ d.status = q.status
      /\ Fixed(q, d) /\ d.hls_end_ts = q.hls_end_ts /\ d.hls_segment_duration = q.hls_segment_duration
  BY <1>1, <1>2 DEF Parser, Fixed
<1>6. Base(d)
  BY <1>1, <1>3, <1>4 DEF Base
<1>7. Books(d, os)
  BY <1>1, <1>4, <1>5, FixedOptions DEF Books, Fixed
<1>8. (Shut(q) => Shut(d)) /\ (Open(q, Len(os)) => Open(d, Len(os)))
  BY <1>4, <1>5, FixedOptions DEF Shut, Open, Lost, Tried, Fixed
<1>9. q.ts_count <= q.key_frame_count => d.ts_count <= d.key_frame_count
  BY <1>1, <1>5 DEF Parser
<1>10. Standing(d, os)
  BY <1>4, <1>5, <1>6, <1>7, <1>8, <1>9 DEF Standing, Fixed
<1> QED
  BY <1>4, <1>5, <1>10

(* The n-th key frame starts a segment. *)
LEMMA KeyCuts ==
  ASSUME NEW q, NEW os, Standing(q, os), q.flag_first_ts = 1,
         q.key_frame_count + 1 < U32, q.key_frame_count % q.segment_num = 0,
         NEW o \in Opening, o.keys = q.key_frame_count + 1, o.time = q.hls_end_ts,
         NEW d, d = AtKey(CountKey(q))
  PROVE  /\ Standing(d, Append(os, o)) /\ Fixed(q, d) /\ d.status = q.status
         /\ d.flag_first_ts = 1 /\ d.hls_end_ts = q.hls_end_ts
         /\ d.key_frame_count = q.key_frame_count + 1
         /\ Opens(q) => TracksOf(d.ctx) = Append(TracksOf(q.ctx), EmptyTrack)
         /\ Film(d.ctx) = Film(q.ctx)
<1>1. PICK e : e = CountKey(q)
  OBVIOUS
<1>2. /\ Standing(e, os) /\ Fixed(q, e) /\ e.status = q.status /\ e.ctx = q.ctx
      /\ e.flag_first_ts = 1 /\ e.hls_end_ts = q.hls_end_ts
      /\ e.key_frame_count = q.key_frame_count + 1 /\ e.hls_segment_num = q.hls_segment_num
  BY <1>1, KeyCounts
<1>3. /\ Base(e) /\ Books(e, os) /\ e.flag_over = 0 /\ e.written = <<>> /\ Open(e, Len(os)) /\ os # <<>>
      /\ e.hls_segment_num = e.segment_num /\ e.segment_num # 0 /\ e.ts_count = Len(os) - 1 /\ e \in Parser
  BY <1>2 DEF Standing, Base
<1>4. q.key_frame_count \in Nat /\ q.ts_count <= q.key_frame_count /\ e.ts_count = q.ts_count
  BY <1>1 DEF Standing, Base, Parser, CountKey
<1>5. PICK f : f = [e EXCEPT !.ts_fragment_id = e.key_frame_count, !.ts_count = @ + 1]
  OBVIOUS
<1>6. d = HlsSegment(f)
  <2>1. (e.key_frame_count - 1) % e.hls_segment_num = 0
    <3>1. e.key_frame_count - 1 = q.key_frame_count /\ e.hls_segment_num = q.segment_num
      BY <1>2, <1>3, <1>4 DEF Fixed
    <3> QED
      BY <3>1
  <2> QED
    BY <1>1, <1>3, <1>5, <2>1 DEF AtKey
<1>7. e.ts_count + 1 \in Nat /\ e.key_frame_count \in Nat
  BY <1>3 DEF Parser
<1>8. f \in Parser
  BY <1>3, <1>5, <1>7 DEF Parser
<1>9. /\ f.ctx = e.ctx /\ f.hls_start_ts = e.hls_start_ts /\ f.hls_segment_num = e.hls_segment_num
      /\ f.flag_first_ts = e.flag_first_ts /\ f.hls_content = e.hls_content /\ f.hls_file = e.hls_file
      /\ f.ts_start_flag = e.ts_start_flag
  BY <1>3, <1>5 DEF Parser
<1>10. /\ f.flag_over = e.flag_over /\ f.written = e.written /\ f.ts_fragment_id = e.key_frame_count
       /\ f.ts_count = e.ts_count + 1 /\ f.key_frame_count = e.key_frame_count /\ f.status = e.status
       /\ Fixed(e, f) /\ f.hls_end_ts = e.hls_end_ts /\ f.hls_segment_duration = e.hls_segment_duration
  BY <1>3, <1>5 DEF Parser, Fixed
<1>11. Base(f) /\ Open(f, Len(os))
  BY <1>3, <1>8, <1>9, <1>10, FixedOptions DEF Base, Open, Lost, Tried, Fixed
<1>12. Books(f, os)
  BY <1>3, <1>9, <1>10, FixedOptions DEF Books, Fixed
<1>13. Len(os) \in Nat /\ Len(os) > 0
  BY <1>3 DEF Books
<1>14. /\ f.ts_count = Len(os) /\ f.ts_count <= f.key_frame_count /\ Len(os) < U32
       /\ f.ts_fragment_id = o.keys /\ 0 < o.keys /\ o.keys < U32 /\ o.time = f.hls_end_ts
  <2>1. f.ts_count = Len(os)
    BY <1>3, <1>10, <1>13
  <2>2. f.ts_count = q.ts_count + 1 /\ f.key_frame_count = q.key_frame_count + 1 /\ q.ts_count \in Nat
    BY <1>2, <1>4, <1>10 DEF Standing, Base, Parser
  <2> QED
    BY <1>2, <1>4, <1>10, <2>1, <2>2, U32Assumption
<1>15. /\ Standing(d, Append(os, o)) /\ Kept(f, d) /\ Fixed(f, d) /\ d.status = f.status
       /\ Opens(f) => TracksOf(d.ctx) = Append(TracksOf(f.ctx), EmptyTrack)
       /\ Film(d.ctx) = Film(f.ctx)
  <2>0. Stands(f, Len(os))
    BY <1>11, <1>13 DEF Stands
  <2>1. /\ f.flag_over = 0 /\ f.written = <<>> /\ f.flag_first_ts = 1 /\ f.hls_segment_num = f.segment_num
        /\ f.segment_num # 0
    BY <1>2, <1>3, <1>9, <1>10 DEF Fixed
  <2> QED
    BY <1>3, <1>6, <1>11, <1>12, <1>14, <2>0, <2>1, SegmentFollows
<1>16. Fixed(q, f) /\ Fixed(q, d)
  BY <1>2, <1>10, <1>15, FixedAgain
<1> QED
  BY <1>2, <1>9, <1>10, <1>15, <1>16, FixedOptions DEF Kept

LEMMA KeyPasses ==
  ASSUME NEW q, NEW os, Standing(q, os), q.flag_first_ts = 1, q.key_frame_count % q.segment_num # 0
  PROVE  AtKey(CountKey(q)) = CountKey(q)
<1>1. PICK e : e = CountKey(q)
  OBVIOUS
<1>2. e.key_frame_count = q.key_frame_count + 1 /\ e.hls_segment_num = q.hls_segment_num
  BY <1>1, KeyCounts
<1>3. q.hls_segment_num = q.segment_num /\ q.segment_num # 0 /\ q.key_frame_count \in Nat
  BY DEF Standing, Base, Parser
<1>4. e.key_frame_count - 1 = q.key_frame_count
  BY <1>2, <1>3
<1> QED
  BY <1>1, <1>2, <1>3, <1>4 DEF AtKey

LEMMA TimeStamped ==
  ASSUME NEW q, NEW os, Standing(q, os), NEW ts \in Time, NEW d, d = [q EXCEPT !.hls_end_ts = ts]
  PROVE  /\ Standing(d, os) /\ Fixed(q, d) /\ d.status = q.status /\ d.ctx = q.ctx
         /\ d.flag_first_ts = q.flag_first_ts /\ d.key_frame_count = q.key_frame_count
         /\ d.hls_end_ts = ts
<1>1. q \in Parser /\ Base(q) /\ Books(q, os)
  BY DEF Standing, Base
<1>2. d \in Parser
  BY <1>1 DEF Parser
<1>3. /\ d.ctx = q.ctx /\ d.hls_start_ts = q.hls_start_ts /\ d.hls_segment_num = q.hls_segment_num
      /\ d.flag_first_ts = q.flag_first_ts /\ d.hls_content = q.hls_content /\ d.hls_file = q.hls_file
      /\ d.ts_start_flag = q.ts_start_flag
  BY <1>1 DEF Parser
<1>4. /\ d.flag_over = q.flag_over /\ d.written = q.written /\ d.ts_fragment_id = q.ts_fragment_id
      /\ d.ts_count = q.ts_count /\ d.key_frame_count = q.key_frame_count /\ d.status = q.status
      /\ Fixed(q, d) /\ d.hls_end_ts = ts /\ d.hls_segment_duration = q.hls_segment_duration
  BY <1>1 DEF Parser, Fixed
<1>5. Base(d)
  BY <1>1, <1>2, <1>3 DEF Base
<1>6. Books(d, os)
  BY <1>1, <1>3, <1>4, FixedOptions DEF Books, Fixed
<1>7. (Shut(q) => Shut(d)) /\ (Open(q, Len(os)) => Open(d, Len(os)))
  BY <1>3, <1>4, FixedOptions DEF Shut, Open, Lost, Tried, Fixed
<1>8. Standing(d, os)
  BY <1>3, <1>4, <1>5, <1>6, <1>7 DEF Standing, Fixed
<1> QED
  BY <1>3, <1>4, <1>8

(* c is what the writer's context b becomes when a frame comes. *)
Receives(b, c) ==
  /\ WellFormed(c) /\ (Resumes(b) => Resumes(c)) /\ c.opened = b.opened /\ NamesOf(c) = NamesOf(b)
  /\ b.opened = 0 => c.segments = b.segments

LEMMA WriterTakes ==
  ASSUME NEW q, NEW os, Standing(q, os), q.flag_first_ts = 1,
         NEW c, Receives(q.ctx, c), c.used <= AudioBufferSize, NEW d, d = [q EXCEPT !.ctx = c]
  PROVE  /\ Standing(d, os) /\ Fixed(q, d) /\ d.status = q.status /\ d.ctx = c
         /\ d.flag_first_ts = q.flag_first_ts /\ d.key_frame_count = q.key_frame_count
         /\ d.hls_end_ts = q.hls_end_ts
<1>1. q \in Parser /\ Base(q) /\ Books(q, os) /\ Open(q, Len(os))
  BY DEF Standing, Base
<1>2. d \in Parser
  BY <1>1 DEF Parser, Receives, WellFormed
<1>3. /\ d.ctx = c /\ d.hls_start_ts = q.hls_start_ts /\ d.hls_segment_num = q.hls_segment_num
      /\ d.flag_first_ts = q.flag_first_ts /\ d.hls_content = q.hls_content /\ d.hls_file = q.hls_file
      /\ d.ts_start_flag = q.ts_start_flag
  BY <1>1 DEF Parser
<1>4. /\ d.flag_over = q.flag_over /\ d.written = q.written /\ d.ts_fragment_id = q.ts_fragment_id
      /\ d.ts_count = q.ts_count /\ d.key_frame_count = q.key_frame_count /\ d.status = q.status
      /\ Fixed(q, d) /\ d.hls_end_ts = q.hls_end_ts /\ d.hls_segment_duration = q.hls_segment_duration
  BY <1>1 DEF Parser, Fixed
<1>5. Base(d)
  BY <1>1, <1>2, <1>3 DEF Base, Receives
<1>6. NamesOf(d.ctx) = NamesOf(q.ctx)
  BY <1>3 DEF Receives
<1>7. Books(d, os)
  BY <1>1, <1>3, <1>4, <1>6, FixedOptions DEF Books, Fixed
<1>8. Open(d, Len(os))
  BY <1>1, <1>3, <1>4, FixedOptions DEF Open, Lost, Tried, Fixed, Receives
<1>9. Standing(d, os)
  BY <1>3, <1>4, <1>5, <1>7, <1>8 DEF Standing, Fixed
<1> QED
  BY <1>3, <1>4, <1>9

LEMMA TracksStand ==
  ASSUME NEW c, WellFormed(c), c.opened = 1
  PROVE  TracksOf(c) \in Seq(Track) /\ TracksOf(c) # <<>>
<1>1. PICK ts : ts = TracksOf(c)
  OBVIOUS
<1>2. ts \in Seq(Track) /\ Len(ts) = Len(c.segments)
  BY <1>1, TracksType DEF WellFormed
<1>3. Len(ts) \in 1 .. Len(ts)
  BY <1>2, LastSegment
<1> QED
  BY <1>1, <1>2, <1>3

LEMMA VideoTaken ==
  ASSUME NEW b, WellFormed(b), NEW v \in [ts : Nat, size : Nat, key : {0, 1}],
         v.size + 6 <= VideoBufferSize, NEW c, c = VideoEx(b, v)
  PROVE  /\ Receives(b, c) /\ (b.opened = 1 => TracksOf(c) = WithVideo(TracksOf(b), v))
         /\ b.used <= AudioBufferSize => c.used <= AudioBufferSize
         /\ Film(c) = IF b.opened = 1 THEN Film(b) \o <<v>> ELSE Film(b)
<1>1. b.opened \in {0, 1} /\ v \in Frame
  BY DEF WellFormed, WriterType, Frame
<1>2. CASE b.opened = 1
  <2>1. /\ WellFormed(VideoEx(b, v)) /\ VideoEx(b, v).opened = 1
        /\ TracksOf(VideoEx(b, v)) = WithVideo(TracksOf(b), v) /\ NamesOf(VideoEx(b, v)) = NamesOf(b)
        /\ Resumes(b) => Resumes(VideoEx(b, v))
    BY <1>2, VideoAdds
  <2>2. TracksOf(b) \in Seq(Track) /\ TracksOf(b) # <<>>
    BY <1>2, TracksStand
  <2>3. Film(c) = Film(b) \o <<v>>
    BY <1>1, <2>1, <2>2, VideosGrow DEF Film
  <2>4. c.used <= AudioBufferSize
    BY <2>1 DEF WellFormed
  <2> QED
    BY <1>2, <2>1, <2>3, <2>4 DEF Receives
<1>3. CASE b.opened = 0
  <2>1. c = b
    BY <1>3, VideoLost
  <2> QED
    BY <1>3, <2>1 DEF Receives
<1> QED
  BY <1>1, <1>2, <1>3

LEMMA AudioTaken ==
  ASSUME NEW b, WellFormed(b), NEW a \in [ts : Nat, size : Nat],
         a.size >= 7, a.size <= AudioBufferSize - 7, NEW c, c = AudioEx(b, a)
  PROVE  /\ Receives(b, c) /\ (b.opened = 1 => TracksOf(c) = WithAudio(TracksOf(b), a))
         /\ b.opened = 1 => c.used <= AudioBufferSize
         /\ Film(c) = Film(b)
<1>1. b.opened \in {0, 1} /\ a \in Frame
  BY DEF WellFormed, WriterType, Frame
<1>2. CASE b.opened = 1
  <2>1. /\ WellFormed(AudioEx(b, a)) /\ AudioEx(b, a).opened = 1
        /\ TracksOf(AudioEx(b, a)) = WithAudio(TracksOf(b), a) /\ NamesOf(AudioEx(b, a)) = NamesOf(b)
        /\ Resumes(b) => Resumes(AudioEx(b, a))
    BY <1>2, AudioAdds
  <2>2. TracksOf(b) \in Seq(Track) /\ TracksOf(b) # <<>>
    BY <1>2, TracksStand
  <2>3. Film(c) = Film(b)
    BY <1>1, <2>1, <2>2, VideosKept DEF Film
  <2>4. c.used <= AudioBufferSize
    BY <2>1 DEF WellFormed
  <2> QED
    BY <1>2, <2>1, <2>3, <2>4 DEF Receives
<1>3. CASE b.opened = 0
  <2>1. WellFormed(AudioEx(b, a)) /\ AudioEx(b, a).opened = 0 /\ AudioEx(b, a).segments = b.segments
    BY <1>3, AudioWaits
  <2>2. (Resumes(b) => Resumes(c)) /\ NamesOf(c) = NamesOf(b)
    BY <2>1 DEF Resumes, NamesOf
  <2>3. Film(c) = Film(b)
    BY <2>1, FilmIs DEF WellFormed
  <2> QED
    BY <1>3, <2>1, <2>2, <2>3 DEF Receives
<1> QED
  BY <1>1, <1>2, <1>3

(* The handlers, seen from the openings. *)
LEMMA FirstStep ==
  ASSUME NEW q, NEW os, Standing(q, os), q.segment_num # 0, NEW t, t.ts \in Time,
         NEW o \in Opening, o.time = t.ts, NEW n, n = 1 - q.flag_first_ts,
         NEW d, d = FirstPacket(q, t)
  PROVE  /\ Standing(d, Grown(os, n, o)) /\ Fixed(q, d) /\ d.status = q.status
         /\ d.flag_first_ts = 1 /\ d.key_frame_count = q.key_frame_count
         /\ Opens(q) => TracksOf(d.ctx) = Grown(TracksOf(q.ctx), n, EmptyTrack)
         /\ Film(d.ctx) = Film(q.ctx)
<1>1. q.flag_first_ts \in {0, 1}
  BY DEF Standing, Base, Parser
<1>2. CASE q.flag_first_ts = 1
  <2>1. d = q /\ n # 1
    BY <1>2 DEF FirstPacket
  <2> QED
    BY <1>2, <2>1 DEF Grown, Fixed
<1>3. CASE q.flag_first_ts = 0
  <2>1. n = 1
    BY <1>3
  <2>2. /\ Standing(d, Append(os, o)) /\ Fixed(q, d) /\ d.status = q.status
        /\ d.flag_first_ts = 1 /\ d.key_frame_count = q.key_frame_count
        /\ Opens(q) => TracksOf(d.ctx) = Append(TracksOf(q.ctx), EmptyTrack)
        /\ Film(d.ctx) = Film(q.ctx)
    BY <1>3, FirstOpens
  <2> QED
    BY <2>1, <2>2 DEF Grown
<1> QED
  BY <1>1, <1>2, <1>3

(* What a key frame adds. *)
Cut(q) == IF q.key_frame_count % q.segment_num = 0 THEN 1 ELSE 0

LEMMA KeyStep ==
  ASSUME NEW q, NEW os, Standing(q, os), q.flag_first_ts = 1, q.key_frame_count + 1 < U32,
         NEW o \in Opening, o.keys = q.key_frame_count + 1, o.time = q.hls_end_ts,
         NEW n, n = Cut(q), NEW d, d = AtKey(CountKey(q))
  PROVE  /\ Standing(d, Grown(os, n, o)) /\ Fixed(q, d) /\ d.status = q.status
         /\ d.flag_first_ts = 1 /\ d.hls_end_ts = q.hls_end_ts
         /\ d.key_frame_count = q.key_frame_count + 1
         /\ Opens(q) => TracksOf(d.ctx) = Grown(TracksOf(q.ctx), n, EmptyTrack)
         /\ Film(d.ctx) = Film(q.ctx)
<1>1. CASE q.key_frame_count % q.segment_num = 0
  <2>1. n = 1
    BY <1>1 DEF Cut
  <2>2. /\ Standing(d, Append(os, o)) /\ Fixed(q, d) /\ d.status = q.status
        /\ d.flag_first_ts = 1 /\ d.hls_end_ts = q.hls_end_ts
        /\ d.key_frame_count = q.key_frame_count + 1
        /\ Opens(q) => TracksOf(d.ctx) = Append(TracksOf(q.ctx), EmptyTrack)
        /\ Film(d.ctx) = Film(q.ctx)
    BY <1>1, KeyCuts
  <2> QED
    BY <2>1, <2>2 DEF Grown
<1>2. CASE q.key_frame_count % q.segment_num # 0
  <2>1. n = 0 /\ d = CountKey(q)
    BY <1>2, KeyPasses DEF Cut
  <2>2. /\ Standing(d, os) /\ Fixed(q, d) /\ d.status = q.status /\ d.ctx = q.ctx
        /\ d.flag_first_ts = q.flag_first_ts /\ d.hls_end_ts = q.hls_end_ts
        /\ d.key_frame_count = q.key_frame_count + 1
    BY <2>1, KeyCounts
  <2> QED
    BY <2>1, <2>2 DEF Grown
<1> QED
  BY <1>1, <1>2

-----------------------------------------------------------------------------
(* The tags read, as a sequence r. *)
MediaTag(t) == t.type \in {"key", "inter", "aac"} /\ t.damage # "type"

WholeTag(t) == t.damage = "none"
KeyTag(t)   == \/ t.type = "avcc" /\ t.damage # "type"
               \/ t.type = "key" /\ WholeTag(t)

HasMedia(r) == \E j \in 1 .. Len(r) : MediaTag(r[j])

KeysIn(r, i) == Cardinality({j \in 1 .. i : KeyTag(r[j])})

OpenedIn(r, m, i) ==
  LET media == {j \in 1 .. i : MediaTag(r[j])}
      first == IF media = {i} THEN <<i>> ELSE <<>>
      cut   == IF /\ media # {} /\ KeyTag(r[i]) /\ (KeysIn(r, i) - 1) % m = 0
                  /\ r[i].type = "avcc" => KeysIn(r, i) > 1
               THEN <<i>> ELSE <<>>
  IN  first \o cut

OpeningsIn(r, m) == FlattenSeq([i \in 1 .. Len(r) |-> OpenedIn(r, m, i)])

TimesIn(r, i) == {j \in 1 .. i : MediaTag(r[j]) /\ WholeTag(r[j])}
TimeIn(r, i)  == r[Max(TimesIn(r, i))].ts

LEMMA HistoryIs ==
  /\ \A i : Media(i) <=> MediaTag(read[i])
  /\ \A i : Whole(i) <=> WholeTag(read[i])
  /\ \A i : KeysTo(i) = KeysIn(read, i)
  /\ \A i : TimeAt(i) = TimeIn(read, i)
  /\ \A i : OpenedBy(i) = OpenedIn(read, p.segment_num, i)
  /\ Openings = OpeningsIn(read, p.segment_num)
<1>1. \A i : (Media(i) <=> MediaTag(read[i])) /\ (Whole(i) <=> WholeTag(read[i])) /\ (IsKey(i) <=> KeyTag(read[i]))
  BY DEF Media, MediaTag, Whole, WholeTag, IsKey, KeyTag
<1>2. ASSUME NEW i PROVE KeysTo(i) = KeysIn(read, i)
  <2>1. {j \in 1 .. i : IsKey(j)} = {j \in 1 .. i : KeyTag(read[j])}
    BY <1>1
  <2> QED
    BY <2>1 DEF KeysTo, KeysIn, Quantify
<1>3. ASSUME NEW i PROVE TimeAt(i) = TimeIn(read, i)
  <2>1. {j \in 1 .. i : Media(j) /\ Whole(j)} = {j \in 1 .. i : MediaTag(read[j]) /\ WholeTag(read[j])}
    BY <1>1
  <2> QED
    BY <2>1 DEF TimeAt, TimeIn, TimesIn
<1>4. ASSUME NEW i PROVE OpenedBy(i) = OpenedIn(read, p.segment_num, i)
  <2>1. {j \in 1 .. i : Media(j)} = {j \in 1 .. i : MediaTag(read[j])}
    BY <1>1
  <2> QED
    BY <1>1, <1>2, <2>1 DEF OpenedBy, OpenedIn
<1>5. Openings = OpeningsIn(read, p.segment_num)
  BY <1>4 DEF Openings, OpeningsTo, OpeningsIn
<1> QED
  BY <1>1, <1>2, <1>3, <1>4, <1>5

LEMMA KeysCounted ==
  ASSUME NEW r, NEW i \in Nat
  PROVE  KeysIn(r, i) \in Nat /\ KeysIn(r, i) <= i /\ IsFiniteSet({j \in 1 .. i : KeyTag(r[j])})
<1>1. 1 \in Int /\ i \in Int
  OBVIOUS
<1>2. IsFiniteSet(1 .. i) /\ Cardinality(1 .. i) = IF 1 > i THEN 0 ELSE i - 1 + 1
  BY <1>1, FS_Interval
<1>3. Cardinality(1 .. i) = i
  BY <1>2
<1>4. {j \in 1 .. i : KeyTag(r[j])} \in SUBSET (1 .. i)
  OBVIOUS
<1>5. PICK S \in SUBSET (1 .. i) : S = {j \in 1 .. i : KeyTag(r[j])}
  BY <1>4
<1>6. IsFiniteSet(S) /\ Cardinality(S) <= Cardinality(1 .. i)
  BY <1>2, <1>5, FS_Subset
<1>7. Cardinality(S) \in Nat
  BY <1>6, FS_CardinalityType
<1> QED
  BY <1>3, <1>5, <1>6, <1>7 DEF KeysIn

LEMMA KeysGrow ==
  ASSUME NEW r \in Seq(Tag), NEW t \in Tag, NEW s, s = Append(r, t)
  PROVE  /\ \A i \in 1 .. Len(r) : KeysIn(s, i) = KeysIn(r, i)
         /\ KeysIn(s, Len(r) + 1) = IF KeyTag(t) THEN KeysIn(r, Len(r)) + 1 ELSE KeysIn(r, Len(r))
<1>1. PICK n \in Nat : n = Len(r)
  OBVIOUS
<1>2. s[n + 1] = t /\ \A j \in 1 .. n : s[j] = r[j]
  BY <1>1, Appended
<1>3. ASSUME NEW i \in 1 .. n PROVE KeysIn(s, i) = KeysIn(r, i)
  <2>1. \A j \in 1 .. i : s[j] = r[j]
    BY <1>1, <1>2
  <2>2. {j \in 1 .. i : KeyTag(s[j])} = {j \in 1 .. i : KeyTag(r[j])}
    BY <2>1
  <2> QED
    BY <2>2 DEF KeysIn
<1>4. PICK S : S = {j \in 1 .. n : KeyTag(r[j])}
  OBVIOUS
<1>5. IsFiniteSet(S) /\ Cardinality(S) = KeysIn(r, n) /\ n + 1 \notin S
  <2>1. n \in Nat
    BY <1>1
  <2>2. IsFiniteSet({j \in 1 .. n : KeyTag(r[j])})
    BY <2>1, KeysCounted
  <2>3. KeysIn(r, n) = Cardinality({j \in 1 .. n : KeyTag(r[j])})
    BY DEF KeysIn
  <2>4. n + 1 \notin S
    BY <1>4, <2>1
  <2> QED
    BY <1>4, <2>2, <2>3, <2>4
<1>6. CASE KeyTag(t)
  <2>1. {j \in 1 .. n + 1 : KeyTag(s[j])} = S \cup {n + 1}
    BY <1>1, <1>2, <1>4, <1>6
  <2>2. Cardinality(S \cup {n + 1}) = Cardinality(S) + 1
    BY <1>5, FS_AddElement
  <2> QED
    BY <1>1, <1>3, <1>5, <1>6, <2>1, <2>2 DEF KeysIn
<1>7. CASE ~KeyTag(t)
  <2>1. {j \in 1 .. n + 1 : KeyTag(s[j])} = S
    BY <1>1, <1>2, <1>4, <1>7
  <2> QED
    BY <1>1, <1>3, <1>5, <1>7, <2>1 DEF KeysIn
<1> QED
  BY <1>6, <1>7

LEMMA LatestExists ==
  ASSUME NEW n \in Nat, NEW S, S \subseteq 1 .. n, S # {}
  PROVE  \E m \in S : \A j \in S : j <= m
<1> DEFINE T == {k \in Nat : \A U \in SUBSET (1 .. k) : U # {} => \E m \in U : \A j \in U : j <= m}
<1>1. 0 \in T
  BY 1 .. 0 = {}
<1>2. ASSUME NEW k \in Nat, k \in T PROVE k + 1 \in T
  <2> SUFFICES ASSUME NEW U \in SUBSET (1 .. k + 1), U # {}
               PROVE  \E m \in U : \A j \in U : j <= m
    OBVIOUS
  <2>1. CASE k + 1 \in U
    <3>1. \A j \in U : j <= k + 1
      OBVIOUS
    <3> QED
      BY <2>1, <3>1
  <2>2. CASE k + 1 \notin U
    <3>1. \A j \in U : j \in 1 .. k + 1 /\ j # k + 1
      BY <2>2
    <3>2. U \in SUBSET (1 .. k)
      BY <3>1
    <3> QED
      BY <1>2, <3>2
  <2> QED
    BY <2>1, <2>2
<1>3. Nat \subseteq T
  <2> HIDE DEF T
  <2> QED
    BY <1>1, <1>2, Induction
<1> QED
  BY <1>3

(* The time of the last frame. *)
LEMMA LatestIs ==
  ASSUME NEW S, NEW m \in S, S \subseteq Int, \A j \in S : j <= m
  PROVE  Max(S) = m
<1>1. \A x \in S : (\A y \in S : x >= y) => x = m
  OBVIOUS
<1>2. \A y \in S : m >= y
  OBVIOUS
<1>3. \E x \in S : \A y \in S : x >= y
  BY <1>2
<1> QED
  BY <1>1, <1>3 DEF Max

LEMMA TimeGrows ==
  ASSUME NEW r \in Seq(Tag), NEW t \in Tag, NEW s, s = Append(r, t)
  PROVE  /\ \A i \in 1 .. Len(r) : TimesIn(s, i) = TimesIn(r, i) /\ (TimesIn(r, i) # {} => TimeIn(s, i) = TimeIn(r, i))
         /\ IF MediaTag(t) /\ WholeTag(t)
            THEN TimesIn(s, Len(r) + 1) # {} /\ TimeIn(s, Len(r) + 1) = t.ts
            ELSE /\ TimesIn(s, Len(r) + 1) = TimesIn(r, Len(r))
                 /\ TimesIn(r, Len(r)) # {} => TimeIn(s, Len(r) + 1) = TimeIn(r, Len(r))
<1>1. PICK n \in Nat : n = Len(r)
  OBVIOUS
<1>2. s[n + 1] = t /\ \A j \in 1 .. n : s[j] = r[j]
  BY <1>1, Appended
<1>3. ASSUME NEW k \in Nat, NEW i \in 0 .. n, TimesIn(s, k) = TimesIn(r, i), TimesIn(r, i) # {}
      PROVE  TimeIn(s, k) = TimeIn(r, i)
  <2>1. PICK S : S = TimesIn(r, i)
    OBVIOUS
  <2>2. S \subseteq 1 .. i /\ S # {}
    BY <1>3, <2>1 DEF TimesIn
  <2>3. \E m \in S : \A j \in S : j <= m
    <3>1. i \in Nat
      OBVIOUS
    <3> QED
      BY <2>2, <3>1, LatestExists
  <2>4. PICK m \in S : \A j \in S : j <= m
    BY <2>3
  <2>5. Max(S) = m
    <3>1. S \subseteq Int
      BY <2>2
    <3> QED
      BY <2>4, <3>1, LatestIs
  <2>6. s[m] = r[m]
    BY <1>1, <1>2, <2>2
  <2> QED
    BY <1>3, <2>1, <2>5, <2>6 DEF TimeIn
<1>4. ASSUME NEW i \in 1 .. n
      PROVE  TimesIn(s, i) = TimesIn(r, i) /\ (TimesIn(r, i) # {} => TimeIn(s, i) = TimeIn(r, i))
  <2>1. \A j \in 1 .. i : s[j] = r[j]
    BY <1>1, <1>2
  <2>2. TimesIn(s, i) = TimesIn(r, i)
    BY <2>1 DEF TimesIn
  <2> QED
    BY <1>3, <2>2
<1>5. CASE MediaTag(t) /\ WholeTag(t)
  <2>1. PICK S : S = TimesIn(s, n + 1)
    OBVIOUS
  <2>2. n + 1 \in S /\ S \subseteq 1 .. n + 1
    BY <1>1, <1>2, <1>5, <2>1 DEF TimesIn
  <2>3. Max(S) = n + 1
    <3>1. S \subseteq Int /\ \A j \in S : j <= n + 1
      BY <2>2
    <3> QED
      BY <2>2, <3>1, LatestIs
  <2> QED
    BY <1>1, <1>2, <1>4, <1>5, <2>1, <2>2, <2>3 DEF TimeIn
<1>6. CASE ~(MediaTag(t) /\ WholeTag(t))
  <2>1. TimesIn(s, n + 1) = TimesIn(r, n)
    <3>1. \A j \in 1 .. n + 1 : (MediaTag(s[j]) /\ WholeTag(s[j])) => j \in 1 .. n
      BY <1>1, <1>2, <1>6
    <3>2. \A j \in 1 .. n : j \in 1 .. n + 1 /\ s[j] = r[j]
      BY <1>1, <1>2
    <3> QED
      BY <3>1, <3>2 DEF TimesIn
  <2>2. n + 1 \in Nat /\ n \in 0 .. n
    OBVIOUS
  <2> QED
    BY <1>1, <1>3, <1>4, <1>6, <2>1, <2>2
<1> QED
  BY <1>5, <1>6

(* The openings by one more tag. *)
First(r, t) == IF MediaTag(t) /\ ~HasMedia(r) THEN 1 ELSE 0

Cuts(r, m, t) ==
  IF /\ KeyTag(t) /\ (HasMedia(r) \/ MediaTag(t)) /\ KeysIn(r, Len(r)) % m = 0
     /\ t.type = "avcc" => KeysIn(r, Len(r)) > 0
  THEN 1 ELSE 0

LEMMA OpeningsType ==
  ASSUME NEW r \in Seq(Tag), NEW m
  PROVE  /\ [i \in 1 .. Len(r) |-> OpenedIn(r, m, i)] \in Seq(Seq(Nat))
         /\ Len([i \in 1 .. Len(r) |-> OpenedIn(r, m, i)]) = Len(r)
         /\ OpeningsIn(r, m) \in Seq(Nat)
<1>1. PICK n \in Nat : n = Len(r)
  OBVIOUS
<1>2. \A i \in 1 .. n : OpenedIn(r, m, i) \in Seq(Nat)
  <2>1. ASSUME NEW i \in 1 .. n PROVE OpenedIn(r, m, i) \in Seq(Nat)
    <3>1. PICK a, b \in Seq(Nat) : OpenedIn(r, m, i) = a \o b
      <4>1. <<i>> \in Seq(Nat) /\ <<>> \in Seq(Nat)
        OBVIOUS
      <4> QED
        BY <4>1 DEF OpenedIn
    <3> QED
      BY <3>1, ConcatProperties
  <2> QED
    BY <2>1
<1>3. [i \in 1 .. n |-> OpenedIn(r, m, i)] \in [1 .. n -> Seq(Nat)]
  BY <1>2
<1>4. PICK f : f = [i \in 1 .. n |-> OpenedIn(r, m, i)]
  OBVIOUS
<1>5. f \in Seq(Seq(Nat)) /\ Len(f) = n
  BY <1>1, <1>3, <1>4, FunctionIsSeq
<1>6. <<>> \in Seq(Nat)
  OBVIOUS
<1>7. FlattenSeq(f) \in Seq(Nat)
  BY <1>5, <1>6, FlattenAppend
<1> QED
  BY <1>1, <1>4, <1>5, <1>7 DEF OpeningsIn

LEMMA OpenedKeeps ==
  ASSUME NEW r \in Seq(Tag), NEW t \in Tag, NEW s, s = Append(r, t), NEW m
  PROVE  \A i \in 1 .. Len(r) : OpenedIn(s, m, i) = OpenedIn(r, m, i)
<1>1. PICK n \in Nat : n = Len(r)
  OBVIOUS
<1>2. s[n + 1] = t /\ Len(s) = n + 1 /\ s \in Seq(Tag) /\ \A j \in 1 .. n : s[j] = r[j]
  BY <1>1, Appended
<1>3. ASSUME NEW i \in 1 .. n PROVE OpenedIn(s, m, i) = OpenedIn(r, m, i)
  <2>1. \A j \in 1 .. i : s[j] = r[j]
    BY <1>1, <1>2
  <2>2. {j \in 1 .. i : MediaTag(s[j])} = {j \in 1 .. i : MediaTag(r[j])}
    BY <2>1
  <2>3. KeysIn(s, i) = KeysIn(r, i) /\ s[i] = r[i]
    BY <1>1, <1>2, KeysGrow
  <2> QED
    BY <2>2, <2>3 DEF OpenedIn
<1> QED
  BY <1>1, <1>3

LEMMA OpeningsGrow ==
  ASSUME NEW r \in Seq(Tag), NEW t \in Tag, NEW s, s = Append(r, t), NEW m
  PROVE  OpeningsIn(s, m) = OpeningsIn(r, m) \o OpenedIn(s, m, Len(r) + 1)
<1>1. PICK n \in Nat : n = Len(r)
  OBVIOUS
<1>2. s[n + 1] = t /\ Len(s) = n + 1 /\ s \in Seq(Tag) /\ \A j \in 1 .. n : s[j] = r[j]
  BY <1>1, Appended
<1>3. \A i \in 1 .. n : OpenedIn(s, m, i) = OpenedIn(r, m, i)
  <2>1. \A i \in 1 .. Len(r) : OpenedIn(s, m, i) = OpenedIn(r, m, i)
    BY ZenonT(30), OpenedKeeps
  <2> QED
    BY <1>1, <2>1
<1>4. PICK f, g, x : /\ f = [i \in 1 .. n |-> OpenedIn(r, m, i)]
                     /\ g = [i \in 1 .. n + 1 |-> OpenedIn(s, m, i)]
                     /\ x = OpenedIn(s, m, n + 1)
  OBVIOUS
<1>5. f \in Seq(Seq(Nat)) /\ Len(f) = n
  BY <1>1, <1>4, OpeningsType
<1>6. g \in Seq(Seq(Nat)) /\ Len(g) = n + 1
  BY <1>2, <1>4, OpeningsType
<1>7. n + 1 \in 1 .. n + 1 /\ \A i \in 1 .. n : i \in 1 .. n + 1
  BY <1>1
<1>8. g[n + 1] = x /\ \A i \in 1 .. n : g[i] = f[i]
  BY <1>3, <1>4, <1>7
<1>9. x \in Seq(Nat)
  BY <1>6, <1>7, <1>8, ElementOfSeq
<1>10. g = Append(f, x)
  <2>1. PICK h : h = Append(f, x)
    OBVIOUS
  <2>2. h \in Seq(Seq(Nat)) /\ Len(h) = n + 1 /\ h[n + 1] = x /\ \A i \in 1 .. n : h[i] = f[i]
    BY <1>5, <1>9, <2>1, Appended
  <2>3. ASSUME NEW i \in 1 .. Len(g) PROVE g[i] = h[i]
    <3>1. i = n + 1 \/ i \in 1 .. n
      BY <1>1, <1>6
    <3> QED
      BY <1>8, <2>2, <3>1
  <2> QED
    BY <1>6, <2>1, <2>2, <2>3, SeqEqual
<1>11. FlattenSeq(g) = FlattenSeq(f) \o x
  BY <1>5, <1>9, <1>10, FlattenAppend
<1> QED
  BY <1>1, <1>2, <1>4, <1>11 DEF OpeningsIn

LEMMA OpeningsAre ==
  ASSUME NEW r \in Seq(Tag), NEW t \in Tag, NEW s, s = Append(r, t), NEW m
  PROVE  OpeningsIn(s, m) = Grown(Grown(OpeningsIn(r, m), First(r, t), Len(r) + 1), Cuts(r, m, t), Len(r) + 1)
<1>1. PICK n \in Nat : n = Len(r)
  OBVIOUS
<1>2. s[n + 1] = t /\ \A j \in 1 .. n : s[j] = r[j]
  BY <1>1, Appended
<1>3. PICK k \in Nat : k = KeysIn(r, n)
  BY <1>1, KeysCounted
<1>4. PICK M : M = {j \in 1 .. n + 1 : MediaTag(s[j])}
  OBVIOUS
<1>5. /\ M # {} <=> (HasMedia(r) \/ MediaTag(t))
      /\ M = {n + 1} <=> (MediaTag(t) /\ ~HasMedia(r))
  <2>1. n + 1 \in M <=> MediaTag(t)
    BY <1>1, <1>2, <1>4
  <2>2. ASSUME NEW j \in 1 .. n PROVE j \in M <=> MediaTag(r[j])
    BY <1>1, <1>2, <1>4
  <2>3. \A j \in M : j = n + 1 \/ j \in 1 .. n
    BY <1>1, <1>4
  <2>4. HasMedia(r) <=> \E j \in 1 .. n : j \in M
    BY <1>1, <2>2 DEF HasMedia
  <2>5. n + 1 \notin 1 .. n
    BY <1>1
  <2> QED
    BY <2>1, <2>3, <2>4, <2>5
<1>6. PICK a, b : /\ a = (IF First(r, t) = 1 THEN <<n + 1>> ELSE <<>>)
                  /\ b = (IF Cuts(r, m, t) = 1 THEN <<n + 1>> ELSE <<>>)
  OBVIOUS
<1>7. OpenedIn(s, m, n + 1) = a \o b
  <2>1. a = IF M = {n + 1} THEN <<n + 1>> ELSE <<>>
    BY <1>5, <1>6 DEF First
  <2>2. b = IF /\ M # {} /\ KeyTag(s[n + 1]) /\ (KeysIn(s, n + 1) - 1) % m = 0
               /\ s[n + 1].type = "avcc" => KeysIn(s, n + 1) > 1
            THEN <<n + 1>> ELSE <<>>
    <3>1. CASE KeyTag(t)
      <4>1. KeysIn(s, n + 1) = k + 1
        BY <1>1, <1>3, <3>1, KeysGrow
      <4>2. KeysIn(s, n + 1) - 1 = k /\ (KeysIn(s, n + 1) > 1 <=> k > 0)
        BY <1>3, <4>1
      <4> QED
        BY <1>1, <1>2, <1>3, <1>5, <1>6, <3>1, <4>2 DEF Cuts
    <3>2. CASE ~KeyTag(t)
      BY <1>1, <1>2, <1>6, <3>2 DEF Cuts
    <3> QED
      BY <3>1, <3>2
  <2> QED
    BY <1>4, <2>1, <2>2 DEF OpenedIn
<1>8. PICK ix \in Seq(Nat) : ix = OpeningsIn(r, m)
  BY OpeningsType
<1>9. OpeningsIn(s, m) = ix \o (a \o b)
  BY <1>1, <1>7, <1>8, OpeningsGrow
<1>10. ASSUME NEW y \in Seq(Nat) PROVE y \o <<n + 1>> = Append(y, n + 1) /\ y \o <<>> = y
  BY <1>1
<1>11. a \in Seq(Nat) /\ b \in Seq(Nat)
  BY <1>1, <1>6
<1>12. ix \o (a \o b) = (ix \o a) \o b /\ ix \o a \in Seq(Nat)
  <2>1. ASSUME NEW x \in Seq(Nat), NEW y \in Seq(Nat), NEW z \in Seq(Nat)
        PROVE  (x \o y) \o z = x \o (y \o z)
    BY SMTT(30)
  <2>2. ix \o a \in Seq(Nat)
    BY <1>8, <1>11, ConcatProperties
  <2> QED
    BY SMTT(30), <1>8, <1>11, <2>1, <2>2
<1>13. ix \o a = Grown(ix, First(r, t), n + 1)
  BY <1>6, <1>8, <1>10 DEF Grown
<1>14. (ix \o a) \o b = Grown(ix \o a, Cuts(r, m, t), n + 1)
  BY <1>6, <1>10, <1>12 DEF Grown
<1> QED
  BY <1>1, <1>8, <1>9, <1>12, <1>13, <1>14

-----------------------------------------------------------------------------
(* What a tag does to a state of the loop. *)
LEMMA StatusSet ==
  ASSUME NEW q \in Parser, NEW x \in {"running", "finished", "aborted", "crashed"},
         NEW d, d = [q EXCEPT !.status = x]
  PROVE  /\ d \in Parser /\ d.status = x /\ Kept(q, d) /\ Fixed(q, d) /\ d.ctx = q.ctx
         /\ d.written = q.written /\ d.hls_content = q.hls_content /\ d.hls_file = q.hls_file
         /\ d.ts_start_flag = q.ts_start_flag /\ d.hls_start_ts = q.hls_start_ts
         /\ d.hls_segment_duration = q.hls_segment_duration
<1>1. d \in Parser /\ d.status = x
  BY DEF Parser
<1>2. Kept(q, d) /\ Fixed(q, d) /\ d.ctx = q.ctx
  BY DEF Parser, Kept, Fixed
<1>3. d.written = q.written /\ d.hls_content = q.hls_content /\ d.hls_file = q.hls_file
  BY DEF Parser
<1>4. /\ d.ts_start_flag = q.ts_start_flag /\ d.hls_start_ts = q.hls_start_ts
      /\ d.hls_segment_duration = q.hls_segment_duration
  BY DEF Parser
<1> QED
  BY <1>1, <1>2, <1>3, <1>4

(* Giving up leaves the state of the loop. *)
LEMMA StandingEnds ==
  ASSUME NEW q, NEW os, Standing(q, os), NEW x \in {"running", "finished", "aborted", "crashed"},
         NEW d, d = [q EXCEPT !.status = x]
  PROVE  /\ Standing(d, os) /\ d.status = x /\ Fixed(q, d) /\ d.ctx = q.ctx
         /\ d.flag_first_ts = q.flag_first_ts /\ d.key_frame_count = q.key_frame_count
         /\ d.hls_end_ts = q.hls_end_ts
<1>1. q \in Parser
  BY DEF Standing, Base
<1>2. /\ d \in Parser /\ d.status = x /\ Kept(q, d) /\ Fixed(q, d) /\ d.ctx = q.ctx
      /\ d.written = q.written /\ d.hls_content = q.hls_content /\ d.hls_file = q.hls_file
      /\ d.ts_start_flag = q.ts_start_flag /\ d.hls_start_ts = q.hls_start_ts
      /\ d.hls_segment_duration = q.hls_segment_duration
  BY <1>1, StatusSet
<1>3. Base(d)
  BY <1>2 DEF Standing, Base
<1>4. Books(d, os)
  BY <1>2, FixedOptions DEF Standing, Books, Fixed
<1>5. (Shut(q) => Shut(d)) /\ (Open(q, Len(os)) => Open(d, Len(os)))
  BY <1>2, FixedOptions DEF Shut, Open, Lost, Tried, Fixed
<1>6. Standing(d, os)
  BY <1>2, <1>3, <1>4, <1>5 DEF Standing, Kept
<1> QED
  BY <1>2, <1>6 DEF Kept

LEMMA TagType ==
  ASSUME NEW t \in Tag
  PROVE  /\ t.ts \in Time /\ t.size \in Nat /\ t.type \in {"avcc", "key", "inter", "aac", "other"}
         /\ t.damage \in {"none", "type", "body"}
         /\ t.damage = "body" => t.type \in {"key", "inter", "aac"}
         /\ t.type = "aac" => /\ Sound(t) \in [ts : Nat, size : Nat] /\ Sound(t).size >= 7
                              /\ Sound(t).size <= AudioBufferSize - 7
         /\ t.type \in {"key", "inter"} =>
              /\ Picture(t) \in [ts : Nat, size : Nat, key : {0, 1}]
              /\ Picture(t).size + 6 <= VideoBufferSize
<1>1. /\ t.ts \in 0 .. U32 - 1 /\ t.size \in Nat /\ t.type \in {"avcc", "key", "inter", "aac", "other"}
      /\ t.damage \in {"none", "type", "body"}
      /\ t.damage = "body" => t.type \in {"key", "inter", "aac"}
      /\ t.type = "aac" => t.size + 7 <= AudioBufferSize - 7
      /\ t.type \in {"key", "inter"} => t.size + 6 <= VideoBufferSize
  BY TagAssumption
<1>2. t.ts \in Time /\ t.ts \in Nat
  BY <1>1, U32Assumption DEF Time
<1>3. /\ t.size + 7 \in Nat /\ t.size + 7 >= 7
      /\ Sound(t) \in [ts : Nat, size : Nat] /\ Sound(t).size = t.size + 7
  BY <1>1, <1>2 DEF Sound
<1>4. Picture(t) \in [ts : Nat, size : Nat, key : {0, 1}] /\ Picture(t).size = t.size
  BY <1>1, <1>2 DEF Picture
<1>5. t.type = "aac" => /\ Sound(t) \in [ts : Nat, size : Nat] /\ Sound(t).size >= 7
                          /\ Sound(t).size <= AudioBufferSize - 7
  BY <1>1, <1>3
<1>6. t.type \in {"key", "inter"} =>
        /\ Picture(t) \in [ts : Nat, size : Nat, key : {0, 1}]
        /\ Picture(t).size + 6 <= VideoBufferSize
  BY <1>1, <1>4
<1> QED
  BY <1>1, <1>2, <1>5, <1>6

LEMMA OpenedContext ==
  ASSUME NEW q, NEW os, Standing(q, os), q.flag_first_ts = 1
  PROVE  /\ WellFormed(q.ctx) /\ q.ctx.opened = IF Lost(q, Len(os)) THEN 0 ELSE 1
         /\ q.ctx.used <= AudioBufferSize
         /\ Opens(q) => q.ctx.opened = 1
BY NothingLost DEF Standing, Base, Open

(* A sound, if its audio has room in the buffer. *)
LEMMA SoundHandled ==
  ASSUME NEW q, NEW os, Standing(q, os), Running(q), q.segment_num # 0,
         NEW t \in Tag, t.type = "aac", t.damage = "none",
         NEW o \in Opening, o.time = t.ts, NEW n, n = 1 - q.flag_first_ts,
         NEW c, c = AudioEx(FirstPacket(q, t).ctx, Sound(t)),
         NEW d, d = HandleTag(q, t)
  PROVE  IF c.used <= AudioBufferSize
         THEN /\ Standing(d, Grown(os, n, o)) /\ Fixed(q, d) /\ Running(d) /\ Film(d.ctx) = Film(q.ctx)
              /\ d.flag_first_ts = 1 /\ d.key_frame_count = q.key_frame_count /\ d.hls_end_ts = t.ts
              /\ Opens(q) => TracksOf(d.ctx) = WithAudio(Grown(TracksOf(q.ctx), n, EmptyTrack), Sound(t))
         ELSE /\ Base(d) /\ Fixed(q, d) /\ d.status = "crashed" /\ d.written = <<>>
              /\ d.ctx.used > AudioBufferSize /\ Lost(d, Len(Grown(os, n, o)))
<1>1. /\ t.ts \in Time /\ Sound(t) \in [ts : Nat, size : Nat]
      /\ Sound(t).size >= 7 /\ Sound(t).size <= AudioBufferSize - 7
  BY TagType
<1>2. PICK e : e = FirstPacket(q, t)
  OBVIOUS
<1>3. /\ Standing(e, Grown(os, n, o)) /\ Fixed(q, e) /\ e.status = q.status
      /\ e.flag_first_ts = 1 /\ e.key_frame_count = q.key_frame_count
      /\ Opens(q) => TracksOf(e.ctx) = Grown(TracksOf(q.ctx), n, EmptyTrack)
      /\ Film(e.ctx) = Film(q.ctx)
  BY <1>1, <1>2, FirstStep
<1>4. PICK f : f = [e EXCEPT !.hls_end_ts = t.ts]
  OBVIOUS
<1>5. PICK oo : oo = Grown(os, n, o)
  OBVIOUS
<1>6. /\ Standing(f, oo) /\ Fixed(e, f) /\ f.status = e.status /\ f.ctx = e.ctx
      /\ f.flag_first_ts = 1 /\ f.key_frame_count = e.key_frame_count /\ f.hls_end_ts = t.ts
  BY <1>1, <1>3, <1>4, <1>5, TimeStamped
<1>7. PICK a : a = Sound(t)
  OBVIOUS
<1>8. /\ Receives(f.ctx, c) /\ (f.ctx.opened = 1 => TracksOf(c) = WithAudio(TracksOf(f.ctx), a))
      /\ f.ctx.opened = 1 => c.used <= AudioBufferSize
      /\ Film(c) = Film(f.ctx)
  BY <1>1, <1>2, <1>6, <1>7, OpenedContext, AudioTaken
<1>9. PICK h : h = [f EXCEPT !.ctx = c]
  OBVIOUS
<1>10. f \in Parser /\ e \in Parser /\ c \in WriterType /\ c.used \in Nat /\ f.written = <<>>
  BY <1>3, <1>6, <1>8 DEF Standing, Base, Receives, WellFormed, WriterType
<1>11. h \in Parser /\ h.ctx = c /\ Fixed(f, h) /\ h.status = f.status /\ h.written = <<>>
  BY <1>9, <1>10 DEF Parser, Fixed
<1>12. d = IF c.used > AudioBufferSize THEN Crash(h) ELSE h
  <2>1. HandleTag(q, t) = OnSound(q, t)
    BY DEF HandleTag
  <2>2. h = [e EXCEPT !.hls_end_ts = t.ts, !.ctx = AudioEx(@, a)]
    BY <1>2, <1>4, <1>7, <1>9, <1>10 DEF Parser
  <2> QED
    BY <1>2, <1>3, <1>7, <1>11, <2>1, <2>2 DEF OnSound, Running, Sound
<1>13. Fixed(q, h) /\ Fixed(q, f)
  BY <1>3, <1>6, <1>11, FixedAgain
<1>14. CASE c.used <= AudioBufferSize
  <2>1. d = h
    BY <1>10, <1>12, <1>14, ConfAssumption
  <2>2. /\ Standing(d, oo) /\ d.ctx = c
        /\ d.flag_first_ts = f.flag_first_ts /\ d.key_frame_count = f.key_frame_count
        /\ d.hls_end_ts = f.hls_end_ts
    BY <1>6, <1>8, <1>9, <1>14, <2>1, WriterTakes
  <2>3. Opens(q) => f.ctx.opened = 1
    BY <1>6, <1>13, OpenedContext, FixedOptions
  <2>4. Running(d) /\ Fixed(q, d)
    BY <1>3, <1>6, <1>11, <1>13, <2>1 DEF Running
  <2>5. Film(d.ctx) = Film(q.ctx)
    BY <1>3, <1>6, <1>8, <2>2
  <2>6. Opens(q) => TracksOf(d.ctx) = WithAudio(Grown(TracksOf(q.ctx), n, EmptyTrack), Sound(t))
    BY <1>3, <1>6, <1>7, <1>8, <2>2, <2>3
  <2> QED
    BY <1>3, <1>5, <1>6, <1>14, <2>2, <2>4, <2>5, <2>6
<1>15. CASE ~(c.used <= AudioBufferSize)
  <2>1. d = [h EXCEPT !.status = "crashed"] /\ c.used > AudioBufferSize
    BY <1>10, <1>12, <1>15, ConfAssumption DEF Crash
  <2>2. d \in Parser /\ d.status = "crashed" /\ Fixed(h, d) /\ d.ctx = c /\ d.written = <<>>
    BY <1>11, <2>1, StatusSet
  <2>3. Base(d)
    BY <1>6, <1>8, <2>2 DEF Standing, Base, Receives
  <2>4. Fixed(q, d) /\ Fixed(f, d)
    BY <1>11, <1>13, <2>2, FixedAgain
  <2>5. Lost(f, Len(oo))
    BY <1>6, <1>8, <1>15, OpenedContext
  <2>6. Lost(d, Len(oo))
    BY <2>4, <2>5, FixedOptions DEF Lost, Fixed
  <2> QED
    BY <1>5, <1>15, <2>1, <2>2, <2>3, <2>4, <2>6
<1> QED
  BY <1>14, <1>15

(* A picture; a key frame may start one more segment. *)
KeyCut(q, t) == IF t.type = "key" THEN Cut(q) ELSE 0

LEMMA PictureHandled ==
  ASSUME NEW q, NEW os, Standing(q, os), Running(q), q.segment_num # 0, q.key_frame_count + 1 < U32,
         NEW t \in Tag, t.type \in {"key", "inter"}, t.damage = "none",
         NEW o \in Opening, o.time = t.ts, NEW n, n = 1 - q.flag_first_ts,
         NEW oo \in Opening, oo.time = t.ts, oo.keys = q.key_frame_count + 1, NEW nn, nn = KeyCut(q, t),
         NEW d, d = HandleTag(q, t)
  PROVE  /\ Standing(d, Grown(Grown(os, n, o), nn, oo)) /\ Fixed(q, d) /\ Running(d)
         /\ d.flag_first_ts = 1 /\ d.hls_end_ts = t.ts
         /\ d.key_frame_count = IF t.type = "key" THEN q.key_frame_count + 1 ELSE q.key_frame_count
         /\ Opens(q) => TracksOf(d.ctx) =
              WithVideo(Grown(Grown(TracksOf(q.ctx), n, EmptyTrack), nn, EmptyTrack), Picture(t))
         /\ Film(d.ctx) = IF Lost(q, Len(Grown(Grown(os, n, o), nn, oo))) THEN Film(q.ctx)
                          ELSE Film(q.ctx) \o <<Picture(t)>>
<1>1. /\ t.ts \in Time /\ Picture(t) \in [ts : Nat, size : Nat, key : {0, 1}]
      /\ Picture(t).size + 6 <= VideoBufferSize
  BY TagType
<1>2. PICK e : e = FirstPacket(q, t)
  OBVIOUS
<1>3. /\ Standing(e, Grown(os, n, o)) /\ Fixed(q, e) /\ e.status = q.status
      /\ e.flag_first_ts = 1 /\ e.key_frame_count = q.key_frame_count
      /\ Opens(q) => TracksOf(e.ctx) = Grown(TracksOf(q.ctx), n, EmptyTrack)
      /\ Film(e.ctx) = Film(q.ctx)
  BY <1>1, <1>2, FirstStep
<1>4. PICK f : f = [e EXCEPT !.hls_end_ts = t.ts]
  OBVIOUS
<1>5. PICK os1 : os1 = Grown(os, n, o)
  OBVIOUS
<1>6. /\ Standing(f, os1) /\ Fixed(e, f) /\ f.status = e.status /\ f.ctx = e.ctx
      /\ f.flag_first_ts = 1 /\ f.key_frame_count = e.key_frame_count /\ f.hls_end_ts = t.ts
  BY <1>1, <1>3, <1>4, <1>5, TimeStamped
<1>7. PICK g : g = IF t.type = "key" THEN AtKey(CountKey(f)) ELSE f
  OBVIOUS
<1>8. /\ Standing(g, Grown(os1, nn, oo)) /\ Fixed(f, g) /\ g.status = f.status
      /\ g.flag_first_ts = 1 /\ g.hls_end_ts = t.ts
      /\ g.key_frame_count = IF t.type = "key" THEN q.key_frame_count + 1 ELSE q.key_frame_count
      /\ Opens(f) => TracksOf(g.ctx) = Grown(TracksOf(f.ctx), nn, EmptyTrack)
      /\ Film(g.ctx) = Film(f.ctx)
  <2>1. CASE t.type = "key"
    <3>1. nn = Cut(f) /\ g = AtKey(CountKey(f))
      BY <1>3, <1>6, <1>7, <2>1 DEF KeyCut, Cut, Fixed
    <3>2. /\ Standing(g, Grown(os1, nn, oo)) /\ Fixed(f, g) /\ g.status = f.status
          /\ g.flag_first_ts = 1 /\ g.hls_end_ts = f.hls_end_ts
          /\ g.key_frame_count = f.key_frame_count + 1
          /\ Opens(f) => TracksOf(g.ctx) = Grown(TracksOf(f.ctx), nn, EmptyTrack)
          /\ Film(g.ctx) = Film(f.ctx)
      BY <1>3, <1>6, <3>1, KeyStep
    <3> QED
      BY <1>3, <1>6, <2>1, <3>2
  <2>2. CASE t.type # "key"
    <3>1. nn = 0 /\ g = f
      BY <1>7, <2>2 DEF KeyCut
    <3> QED
      BY <1>3, <1>6, <2>2, <3>1 DEF Grown, Fixed
  <2> QED
    BY <2>1, <2>2
<1>9. PICK c, v : c = VideoEx(g.ctx, v) /\ v = Picture(t)
  OBVIOUS
<1>10. /\ Receives(g.ctx, c) /\ (g.ctx.opened = 1 => TracksOf(c) = WithVideo(TracksOf(g.ctx), v))
       /\ g.ctx.used <= AudioBufferSize => c.used <= AudioBufferSize
       /\ Film(c) = IF g.ctx.opened = 1 THEN Film(g.ctx) \o <<v>> ELSE Film(g.ctx)
  BY <1>1, <1>8, <1>9, OpenedContext, VideoTaken
<1>11. d = [g EXCEPT !.ctx = c]
  <2>1. HandleTag(q, t) = OnPicture(q, t)
    BY DEF HandleTag
  <2>2. Running(e) /\ Running(g)
    BY <1>3, <1>6, <1>8 DEF Running
  <2> QED
    BY <1>2, <1>4, <1>7, <1>9, <2>1, <2>2 DEF OnPicture, Picture
<1>12. PICK os2 : os2 = Grown(os1, nn, oo)
  OBVIOUS
<1>13. /\ Standing(d, os2) /\ Fixed(g, d) /\ d.status = g.status /\ d.ctx = c
       /\ d.flag_first_ts = g.flag_first_ts /\ d.key_frame_count = g.key_frame_count
       /\ d.hls_end_ts = g.hls_end_ts
  <2>1. c.used <= AudioBufferSize
    BY <1>8, <1>10, OpenedContext
  <2> QED
    BY <1>8, <1>10, <1>11, <1>12, <2>1, WriterTakes
<1>14. Fixed(q, d) /\ Fixed(q, g) /\ Fixed(q, f)
  BY <1>3, <1>6, <1>8, <1>13, FixedAgain
<1>15. Opens(q) => g.ctx.opened = 1 /\ Opens(f)
  BY <1>8, <1>14, OpenedContext, FixedOptions
<1>16. g.ctx.opened = IF Lost(q, Len(os2)) THEN 0 ELSE 1
  <2>1. g.ctx.opened = IF Lost(g, Len(os2)) THEN 0 ELSE 1
    BY <1>8, <1>12, OpenedContext
  <2>2. Lost(g, Len(os2)) <=> Lost(q, Len(os2))
    BY <1>14, FixedOptions DEF Lost, Fixed
  <2> QED
    BY <2>1, <2>2
<1>17. Film(d.ctx) = IF Lost(q, Len(os2)) THEN Film(q.ctx) ELSE Film(q.ctx) \o <<v>>
  BY <1>3, <1>6, <1>8, <1>10, <1>13, <1>16
<1> QED
  BY <1>3, <1>5, <1>6, <1>8, <1>9, <1>10, <1>12, <1>13, <1>14, <1>15, <1>17 DEF Running

(* With one opening for whichever segments the picture starts. *)
LEMMA PictureStands ==
  ASSUME NEW q, NEW os, Standing(q, os), Running(q), q.segment_num # 0, q.key_frame_count + 1 < U32,
         NEW t \in Tag, t.type \in {"key", "inter"}, t.damage = "none",
         NEW o \in Opening, o.time = t.ts, o.keys = q.key_frame_count + 1,
         NEW n, n = 1 - q.flag_first_ts, NEW nn, nn = KeyCut(q, t), NEW d, d = HandleTag(q, t)
  PROVE  /\ Standing(d, Grown(Grown(os, n, o), nn, o)) /\ Fixed(q, d) /\ Running(d)
         /\ d.flag_first_ts = 1 /\ d.hls_end_ts = t.ts
         /\ d.key_frame_count = IF t.type = "key" THEN q.key_frame_count + 1 ELSE q.key_frame_count
         /\ Opens(q) => TracksOf(d.ctx) =
              WithVideo(Grown(Grown(TracksOf(q.ctx), n, EmptyTrack), nn, EmptyTrack), Picture(t))
<1>1. PICK oo : oo = o
  OBVIOUS
<1>2. /\ oo \in Opening /\ oo.time = t.ts /\ oo.keys = q.key_frame_count + 1
      /\ q.flag_first_ts \in {0, 1} /\ q.key_frame_count \in Nat
  BY <1>1 DEF Standing, Base, Parser
<1>3. /\ Standing(d, Grown(Grown(os, n, o), nn, oo)) /\ Fixed(q, d) /\ Running(d)
      /\ d.flag_first_ts = 1 /\ d.hls_end_ts = t.ts
      /\ d.key_frame_count = IF t.type = "key" THEN q.key_frame_count + 1 ELSE q.key_frame_count
      /\ Opens(q) => TracksOf(d.ctx) =
           WithVideo(Grown(Grown(TracksOf(q.ctx), n, EmptyTrack), nn, EmptyTrack), Picture(t))
      /\ Film(d.ctx) = IF Lost(q, Len(Grown(Grown(os, n, o), nn, oo))) THEN Film(q.ctx)
                       ELSE Film(q.ctx) \o <<Picture(t)>>
  BY <1>2, PictureHandled
<1> QED
  BY <1>1, <1>3

(* A sound in a run that loses nothing. *)
LEMMA SoundStands ==
  ASSUME NEW q, NEW os, Standing(q, os), Running(q), q.segment_num # 0, Opens(q),
         NEW t \in Tag, t.type = "aac", t.damage = "none",
         NEW o \in Opening, o.time = t.ts, NEW n, n = 1 - q.flag_first_ts, NEW d, d = HandleTag(q, t)
  PROVE  /\ Standing(d, Grown(os, n, o)) /\ Fixed(q, d) /\ Running(d)
         /\ d.flag_first_ts = 1 /\ d.key_frame_count = q.key_frame_count /\ d.hls_end_ts = t.ts
         /\ TracksOf(d.ctx) = WithAudio(Grown(TracksOf(q.ctx), n, EmptyTrack), Sound(t))
<1>1. PICK c : c = AudioEx(FirstPacket(q, t).ctx, Sound(t))
  OBVIOUS
<1>2. CASE c.used <= AudioBufferSize
  BY <1>1, <1>2, SoundHandled
<1>3. CASE ~(c.used <= AudioBufferSize)
  <2>1. Fixed(q, d) /\ Lost(d, Len(Grown(os, n, o)))
    BY <1>1, <1>3, SoundHandled
  <2> QED
    BY <2>1, FixedOptions, NothingLost
<1> QED
  BY <1>2, <1>3

(* A picture or sound that breaks off. *)
LEMMA DamageHandled ==
  ASSUME NEW q, NEW os, Standing(q, os), Running(q), q.segment_num # 0,
         NEW t \in Tag, t.damage = "body",
         NEW o \in Opening, o.time = t.ts, NEW n, n = 1 - q.flag_first_ts,
         NEW d, d = HandleTag(q, t)
  PROVE  /\ Standing(d, Grown(os, n, o)) /\ Fixed(q, d) /\ d.status = "aborted"
         /\ d.flag_first_ts = 1 /\ d.key_frame_count = q.key_frame_count
         /\ Opens(q) => TracksOf(d.ctx) = Grown(TracksOf(q.ctx), n, EmptyTrack)
         /\ Film(d.ctx) = Film(q.ctx)
<1>1. t.ts \in Time /\ t.type \in {"key", "inter", "aac"}
  BY TagType
<1>2. PICK e : e = FirstPacket(q, t)
  OBVIOUS
<1>3. PICK os1 : os1 = Grown(os, n, o)
  OBVIOUS
<1>4. /\ Standing(e, os1) /\ Fixed(q, e) /\ e.status = q.status
      /\ e.flag_first_ts = 1 /\ e.key_frame_count = q.key_frame_count
      /\ Opens(q) => TracksOf(e.ctx) = Grown(TracksOf(q.ctx), n, EmptyTrack)
      /\ Film(e.ctx) = Film(q.ctx)
  BY <1>1, <1>2, <1>3, FirstStep
<1>5. d = [e EXCEPT !.status = "aborted"]
  <2>1. HandleTag(q, t) = OnSound(q, t) \/ HandleTag(q, t) = OnPicture(q, t)
    BY <1>1 DEF HandleTag
  <2>2. Running(e)
    BY <1>4 DEF Running
  <2> QED
    BY <1>2, <2>1, <2>2 DEF OnSound, OnPicture, Abort
<1>6. /\ Standing(d, os1) /\ d.status = "aborted" /\ Fixed(e, d) /\ d.ctx = e.ctx
      /\ d.flag_first_ts = e.flag_first_ts /\ d.key_frame_count = e.key_frame_count
  BY <1>4, <1>5, StandingEnds
<1> QED
  BY <1>3, <1>4, <1>6, FixedAgain

(* A run for which no segment can be named. *)
Unstarted(d) ==
  /\ Base(d) /\ d.status = "crashed" /\ d.segment_num = 0 /\ d.written = <<>>
  /\ d.ctx.segments = <<>> /\ d.ts_start_flag = 0
  /\ HasPlaylist(d) => d.hls_content = Header

LEMMA MediaCrashes ==
  ASSUME NEW q, NEW os, Standing(q, os), Running(q), q.segment_num = 0,
         NEW t \in Tag, t.type \in {"key", "inter", "aac"}, t.damage # "type",
         NEW d, d = HandleTag(q, t)
  PROVE  /\ Unstarted(d) /\ Fixed(q, d) /\ TracksOf(d.ctx) = TracksOf(q.ctx)
         /\ d.key_frame_count = q.key_frame_count
<1>1. /\ Base(q) /\ Shut(q) /\ q.flag_over = 0 /\ q.written = <<>> /\ q.flag_first_ts = 0 /\ q \in Parser
  BY DEF Standing, Base, Parser
<1>2. t.ts \in Time /\ 0 \in Nat
  BY TagType
<1>3. PICK e : e = [q EXCEPT !.hls_start_ts = t.ts, !.hls_segment_num = q.segment_num, !.flag_first_ts = 1]
  OBVIOUS
<1>4. FirstPacket(q, t) = HlsSegment(e)
  BY <1>1, <1>3 DEF FirstPacket
<1>5. e \in Parser
  BY <1>1, <1>2, <1>3 DEF Parser
<1>6. /\ e.ctx = q.ctx /\ e.hls_start_ts = t.ts /\ e.hls_segment_num = 0
      /\ e.hls_content = q.hls_content /\ e.hls_file = q.hls_file /\ e.ts_start_flag = q.ts_start_flag
  BY <1>1, <1>3 DEF Parser
<1>7. /\ e.flag_over = q.flag_over /\ e.written = q.written /\ e.key_frame_count = q.key_frame_count
      /\ e.status = q.status /\ Fixed(q, e)
  BY <1>1, <1>3 DEF Parser, Fixed
<1>8. Base(e) /\ Shut(e)
  BY <1>1, <1>5, <1>6 DEF Base, Shut
<1>9. PICK f : f = OpenPlaylist(CloseSegment(e))
  OBVIOUS
<1>10. Ready(e, 0, f)
  <2>1. e.flag_first_ts = 1 /\ e.ts_count = 0
    BY <1>1, <1>3 DEF Standing, Parser
  <2>2. Call(e) = 0 + 1 /\ Stands(e, 0)
    BY <1>1, <1>7, <1>8, <2>1 DEF Call, Stands
  <2> QED
    BY <1>8, <1>9, <2>2, SegmentReady
<1>11. /\ f.key_ID_start = 0 /\ f.hls_segment_num = 0 /\ f \in Parser /\ Keeps(e.ctx, f.ctx)
       /\ f.key_frame_count = e.key_frame_count /\ Fixed(e, f) /\ f.written = e.written /\ Base(f)
       /\ f.ts_start_flag = 0
  BY <1>6, <1>10 DEF Ready, Base, Parser, Kept, Fixed
<1>12. HlsSegment(e) = Crash(f)
  BY <1>1, <1>7, <1>9, <1>11 DEF HlsSegment, NewSegment
<1>13. d = Crash(f)
  <2>1. Crash(f).status = "crashed"
    BY <1>11 DEF Crash, Parser
  <2>2. HandleTag(q, t) = OnSound(q, t) \/ HandleTag(q, t) = OnPicture(q, t)
    BY DEF HandleTag
  <2> QED
    BY <1>4, <1>12, <2>1, <2>2 DEF OnSound, OnPicture, Running
<1>14. /\ d \in Parser /\ d.status = "crashed" /\ Kept(f, d) /\ Fixed(f, d) /\ d.ctx = f.ctx
       /\ d.written = f.written /\ d.hls_content = f.hls_content /\ d.ts_start_flag = f.ts_start_flag
  BY <1>11, <1>13, StatusSet DEF Crash
<1>15. Fixed(q, d) /\ Fixed(e, d)
  BY <1>7, <1>11, <1>14, FixedAgain
<1>16. d.ctx.segments = <<>>
  <2>1. NamesOf(f.ctx) = NamesOf(e.ctx) /\ e.ctx.segments = <<>> /\ f.ctx \in WriterType /\ e.ctx \in WriterType
    BY <1>5, <1>8, <1>11 DEF Keeps, Shut, Parser
  <2>2. Len(e.ctx.segments) = 0
    BY <2>1
  <2>3. Len(f.ctx.segments) = 0
    BY <2>1, <2>2, TracksType
  <2>4. f.ctx.segments \in SegmentSeq(Name, Packet)
    BY <2>1 DEF WriterType
  <2> QED
    BY <1>14, <2>3, <2>4, EmptySeq DEF SegmentSeq
<1>17. HasPlaylist(d) => d.hls_content = Header
  BY <1>8, <1>10, <1>14, <1>15, FixedOptions DEF Ready, Accounted, Shut
<1>18. Unstarted(d)
  BY <1>1, <1>7, <1>11, <1>14, <1>15, <1>16, <1>17 DEF Unstarted, Base, Fixed
<1> QED
  BY <1>6, <1>7, <1>11, <1>14, <1>15, <1>18 DEF Keeps, Kept

(* A sequence header. *)
HeaderCut(q) == IF q.flag_first_ts = 1 /\ q.key_frame_count > 0 THEN Cut(q) ELSE 0

LEMMA HeaderCounts ==
  ASSUME NEW q, NEW os, Standing(q, os), NEW t \in Tag, t.type = "avcc", t.damage # "type"
  PROVE  HandleTag(q, t) = IF q.key_frame_count > 0 THEN AtKey(CountKey(q)) ELSE CountKey(q)
<1>1. q.key_ID_start = 0 /\ q.key_frame_count \in Nat
  BY DEF Standing, Base, Parser
<1>2. CountKey(q).key_frame_count = q.key_frame_count + 1
  BY KeyCounts
<1>3. CountKey(q).key_frame_count > 1 <=> q.key_frame_count > 0
  BY <1>1, <1>2
<1>4. HandleTag(q, t) = OnSequenceHeader(q)
  BY DEF HandleTag
<1> QED
  BY <1>1, <1>3, <1>4 DEF OnSequenceHeader

LEMMA HeaderHandled ==
  ASSUME NEW q, NEW os, Standing(q, os), Running(q), q.key_frame_count + 1 < U32,
         q.flag_first_ts = 1 \/ q.key_frame_count = 0,
         NEW t \in Tag, t.type = "avcc", t.damage # "type",
         NEW o \in Opening, o.time = q.hls_end_ts, o.keys = q.key_frame_count + 1, NEW n, n = HeaderCut(q),
         NEW d, d = HandleTag(q, t)
  PROVE  /\ Standing(d, Grown(os, n, o)) /\ Fixed(q, d) /\ Running(d)
         /\ d.flag_first_ts = q.flag_first_ts /\ d.hls_end_ts = q.hls_end_ts
         /\ d.key_frame_count = q.key_frame_count + 1
         /\ Opens(q) => TracksOf(d.ctx) = Grown(TracksOf(q.ctx), n, EmptyTrack)
         /\ Film(d.ctx) = Film(q.ctx)
<1>1. CASE q.flag_first_ts = 1 /\ q.key_frame_count > 0
  <2>1. n = Cut(q) /\ d = AtKey(CountKey(q))
    BY <1>1, HeaderCounts DEF HeaderCut
  <2>2. /\ Standing(d, Grown(os, n, o)) /\ Fixed(q, d) /\ d.status = q.status
        /\ d.flag_first_ts = 1 /\ d.hls_end_ts = q.hls_end_ts
        /\ d.key_frame_count = q.key_frame_count + 1
        /\ Opens(q) => TracksOf(d.ctx) = Grown(TracksOf(q.ctx), n, EmptyTrack)
        /\ Film(d.ctx) = Film(q.ctx)
    BY <1>1, <2>1, KeyStep
  <2> QED
    BY <1>1, <2>2 DEF Running
<1>2. CASE ~(q.flag_first_ts = 1 /\ q.key_frame_count > 0)
  <2>1. q.key_frame_count \in Nat
    BY DEF Standing, Base, Parser
  <2>2. ~(q.key_frame_count > 0)
    BY <1>2, <2>1
  <2>3. n = 0 /\ d = CountKey(q)
    BY <1>2, <2>2, HeaderCounts DEF HeaderCut
  <2>4. /\ Standing(d, os) /\ Fixed(q, d) /\ d.status = q.status /\ d.ctx = q.ctx
        /\ d.flag_first_ts = q.flag_first_ts /\ d.hls_end_ts = q.hls_end_ts
        /\ d.key_frame_count = q.key_frame_count + 1
    BY <2>3, KeyCounts
  <2> QED
    BY <2>3, <2>4 DEF Grown, Running
<1> QED
  BY <1>1, <1>2

LEMMA HeaderCrashes ==
  ASSUME NEW q, NEW os, Standing(q, os), q.flag_first_ts = 0, q.key_frame_count > 0,
         NEW t \in Tag, t.type = "avcc", t.damage # "type",
         NEW d, d = HandleTag(q, t)
  PROVE  /\ Standing(d, os) /\ Fixed(q, d) /\ d.status = "crashed" /\ d.ctx = q.ctx
         /\ d.flag_first_ts = 0 /\ d.key_frame_count = q.key_frame_count + 1
<1>1. PICK e : e = CountKey(q)
  OBVIOUS
<1>2. /\ Standing(e, os) /\ Fixed(q, e) /\ e.ctx = q.ctx /\ e.flag_first_ts = 0
      /\ e.key_frame_count = q.key_frame_count + 1
  BY <1>1, KeyCounts
<1>3. e.hls_segment_num = 0
  BY <1>2 DEF Standing
<1>4. d = [e EXCEPT !.status = "crashed"]
  <2>1. d = AtKey(e)
    BY <1>1, HeaderCounts
  <2> QED
    BY <1>3, <2>1 DEF AtKey, Crash
<1>5. /\ Standing(d, os) /\ d.status = "crashed" /\ Fixed(e, d) /\ d.ctx = e.ctx
      /\ d.flag_first_ts = e.flag_first_ts /\ d.key_frame_count = e.key_frame_count
  BY <1>2, <1>4, StandingEnds
<1> QED
  BY <1>2, <1>5, FixedAgain

(* The playlist on the disk. *)
Target(top) == [line |-> "TARGETDURATION", value |-> (top + 999) \div 1000]

Written(w, names, ds, top) ==
  /\ Len(w) = 5 + 2 * Len(names) /\ w[Len(w)] = Endlist
  /\ \A j \in {1, 2, 4} : w[j] = Header[j]
  /\ w[3] = Target(top)
  /\ \A i \in 1 .. Len(names) : w[3 + 2 * i] = Extinf(ds[i]) /\ w[4 + 2 * i] = Uri(names[i])

LEMMA LineReplaced ==
  ASSUME NEW g, NEW x, g \in Seq(Line), Len(g) >= 3, x \in Line, NEW w, w = [g EXCEPT ![3] = x]
  PROVE  /\ w \in Seq(Line) /\ Len(w) = Len(g) /\ w[3] = x
         /\ \A i \in 1 .. Len(g) : i # 3 => w[i] = g[i]
<1>1. w = [i \in DOMAIN g |-> IF i = 3 THEN x ELSE g[i]]
  OBVIOUS
<1>2. PICK n \in Nat : n = Len(g) /\ n >= 3
  OBVIOUS
<1>3. DOMAIN g = 1 .. n /\ \A i \in 1 .. n : g[i] \in Line
  BY <1>2, ElementOfSeq
<1>4. PICK v \in [1 .. n -> Line] : v = w
  BY <1>1, <1>3
<1>5. v \in Seq(Line) /\ Len(v) = n
  BY FunctionIsSeq
<1>6. 3 \in 1 .. n
  BY <1>2
<1> QED
  BY <1>1, <1>2, <1>3, <1>4, <1>5, <1>6

LEMMA TargetType ==
  ASSUME NEW top \in Time
  PROVE  Target(top) \in Line /\ Target(top).line # "URI"
<1>1. top \in Nat
  BY U32Assumption DEF Time
<1>2. (top + 999) \div 1000 \in Nat
  BY <1>1
<1> QED
  BY <1>2 DEF Line, Target

(* Written or not, a playlist names the same segments. *)
LEMMA WrittenTallied ==
  ASSUME NEW h \in Seq(Line), NEW n \in Nat, Tallied(h, n), NEW top \in Time,
         NEW w, w = [Append(h, Endlist) EXCEPT ![3] = Target(top)]
  PROVE  w \in Seq(Line) /\ Cardinality(NamesIn(w)) = n
<1>1. PICK g, x : g = Append(h, Endlist) /\ x = Target(top)
  OBVIOUS
<1>2. x \in Line /\ x.line # "URI" /\ Endlist \in Line /\ Endlist.line # "URI"
  BY <1>1, TargetType, LineTypes DEF Endlist
<1>3. Tallied(g, n) /\ g \in Seq(Line)
  <2>1. Tallied(g, IF Endlist.line = "URI" THEN n + 1 ELSE n)
    BY <1>1, <1>2, LineTallied
  <2> QED
    BY <1>1, <1>2, <2>1, Appended
<1>4. Len(g) \in Nat /\ Len(g) >= 4 /\ Len(g) >= 3 /\ g[3].line # "URI" /\ Cardinality(NamesIn(g)) = n
  BY <1>3 DEF Tallied
<1>5. /\ w \in Seq(Line) /\ Len(w) = Len(g) /\ w[3] = x
      /\ \A i \in 1 .. Len(g) : i # 3 => w[i] = g[i]
  <2>1. w = [g EXCEPT ![3] = x]
    BY <1>1
  <2> QED
    BY <1>2, <1>3, <1>4, <2>1, LineReplaced
<1>6. \A i \in 1 .. Len(g) : w[i].line = "URI" <=> g[i].line = "URI"
  BY <1>2, <1>4, <1>5
<1>7. NamesIn(w) = NamesIn(g)
  BY <1>5, <1>6 DEF NamesIn
<1> QED
  BY <1>4, <1>5, <1>7

LEMMA PlaylistWritten ==
  ASSUME NEW h \in Seq(Line), NEW names \in Seq(Name), NEW ds \in Seq(Time),
         Listed(h, names, ds), Len(names) = Len(ds), NEW top \in Time,
         NEW x, x = Target(top),
         NEW w, w = [Append(h, Endlist) EXCEPT ![3] = x]
  PROVE  w \in Seq(Line) /\ Written(w, names, ds, top)
<1>1. PICK k \in Nat : k = Len(ds) /\ Len(names) = k
  OBVIOUS
<1>2. Len(h) = 4 + 2 * k
  BY <1>1 DEF Listed
<1>3. PICK g : g = Append(h, Endlist)
  OBVIOUS
<1>4. g \in Seq(Line) /\ Len(g) = 5 + 2 * k /\ g[5 + 2 * k] = Endlist /\ \A j \in 1 .. 4 + 2 * k : g[j] = h[j]
  <2>1. /\ g \in Seq(Line) /\ Len(g) = Len(h) + 1 /\ g[Len(h) + 1] = Endlist
        /\ \A j \in 1 .. Len(h) : g[j] = h[j]
    BY <1>3, LineTypes, Appended
  <2> QED
    BY <1>2, <2>1
<1>5. x \in Line
  BY TargetType
<1>6. w \in Seq(Line) /\ Len(w) = 5 + 2 * k /\ w[3] = x /\ \A j \in 1 .. 5 + 2 * k : j # 3 => w[j] = g[j]
  <2>1. g \in Seq(Line) /\ Len(g) >= 3 /\ x \in Line /\ w = [g EXCEPT ![3] = x]
    BY <1>3, <1>4, <1>5
  <2>2. /\ w \in Seq(Line) /\ Len(w) = Len(g) /\ w[3] = x
        /\ \A i \in 1 .. Len(g) : i # 3 => w[i] = g[i]
    <3>1. PICK v : v = [g EXCEPT ![3] = x]
      OBVIOUS
    <3>2. /\ v \in Seq(Line) /\ Len(v) = Len(g) /\ v[3] = x
          /\ \A i \in 1 .. Len(g) : i # 3 => v[i] = g[i]
      BY <2>1, <3>1, LineReplaced
    <3>3. v = w
      BY <2>1, <3>1
    <3> QED
      BY <3>2, <3>3
  <2> QED
    BY <1>4, <2>2
<1>7. \A j \in 1 .. 4 + 2 * k : j # 3 => w[j] = h[j]
  BY <1>4, <1>6
<1>8. \A j \in {1, 2, 4} : w[j] = Header[j]
  <2>1. 1 \in 1 .. 4 + 2 * k /\ 2 \in 1 .. 4 + 2 * k /\ 4 \in 1 .. 4 + 2 * k
    OBVIOUS
  <2>2. w[1] = h[1] /\ w[2] = h[2] /\ w[4] = h[4]
    BY <1>7, <2>1
  <2>3. h[1] = Header[1] /\ h[2] = Header[2] /\ h[4] = Header[4]
    BY DEF Listed
  <2> QED
    BY <2>2, <2>3
<1>9. w[Len(w)] = Endlist
  <2>1. 5 + 2 * k \in 1 .. 5 + 2 * k /\ 5 + 2 * k # 3
    OBVIOUS
  <2> QED
    BY <1>4, <1>6, <2>1
<1>10. ASSUME NEW i \in 1 .. k PROVE w[3 + 2 * i] = Extinf(ds[i]) /\ w[4 + 2 * i] = Uri(names[i])
  <2>1. /\ 3 + 2 * i \in 1 .. 4 + 2 * k /\ 3 + 2 * i # 3
        /\ 4 + 2 * i \in 1 .. 4 + 2 * k /\ 4 + 2 * i # 3
    OBVIOUS
  <2>2. h[4 + 2 * i] = Uri(names[i])
    BY <1>1, ListedAt
  <2>3. h[3 + 2 * i] = Extinf(ds[i])
    BY <1>1 DEF Listed
  <2> QED
    BY <1>7, <2>1, <2>2, <2>3
<1> QED
  BY <1>1, <1>6, <1>8, <1>9, <1>10 DEF Written

(* A state behind the loop. *)
Ended(d, os) ==
  /\ Base(d) /\ d.flag_over = 1 /\ d.ts_start_flag = 0 /\ d.ctx.opened = 0
  /\ d.ctx.used > 0 => Lost(d, Len(os))
  /\ Opens(d) => Located(NamesOf(d.ctx), os)
  /\ \/ d.status = "finished"
     \/ /\ d.status = "crashed" /\ d.written = <<>> /\ HasPlaylist(d)
        /\ \A k \in 1 .. Len(os) + 1 : <<"playlist", k>> \in d.refused
  /\ d.written # <<>> => HasPlaylist(d) /\ Cardinality(NamesIn(d.written)) = Len(os)
  /\ HasPlaylist(d) /\ d.refused = {} =>
       \E ds \in Seq(Time) :
         /\ Len(ds) = Len(os) /\ Written(d.written, NamesOf(d.ctx), ds, d.hls_segment_duration)
         /\ Spanned(ds, Append(os, [keys |-> 0, time |-> d.hls_end_ts]), d.hls_segment_duration)

(* If every file can be created the run ends. *)
LEMMA EndedOpen ==
  ASSUME NEW d, NEW os, os \in Seq(Opening), Ended(d, os), Opens(d)
  PROVE  d.ctx.used = 0 /\ (d.refused = {} => d.status = "finished")
<1>1. d.ctx.used \in Nat
  BY DEF Ended, Base, WellFormed, WriterType
<1>2. d.ctx.used = 0
  BY <1>1, NothingLost DEF Ended
<1>3. 1 \in 1 .. Len(os) + 1
  OBVIOUS
<1> QED
  BY <1>2, <1>3 DEF Ended

(* The end of the file. *)
LEMMA FinishHandled ==
  ASSUME NEW q, NEW os, Standing(q, os), Running(q), NEW d, d = FinishSegments(q)
  PROVE  /\ Ended(d, os) /\ Fixed(q, d) /\ Keeps(q.ctx, d.ctx)
         /\ d.flag_first_ts = q.flag_first_ts /\ d.key_frame_count = q.key_frame_count
         /\ d.hls_end_ts = q.hls_end_ts
<1>1. /\ Base(q) /\ Books(q, os) /\ q.written = <<>> /\ q \in Parser /\ os \in Seq(Opening)
  BY DEF Standing, Base, Books
<1>0. PICK n \in Nat : n = Len(os)
  BY <1>1
<1>20. Stands(q, n) /\ q.flag_first_ts + q.ts_count = n
  <2>1. q.flag_first_ts \in {0, 1}
    BY <1>1 DEF Parser
  <2>2. CASE q.flag_first_ts = 0
    BY <1>0, <2>2 DEF Standing, Stands
  <2>3. CASE q.flag_first_ts = 1
    <3>1. Open(q, n) /\ os # <<>> /\ q.ts_count = n - 1
      BY <1>0, <2>3 DEF Standing
    <3>2. n # 0
      BY <1>0, <1>1, <3>1
    <3> QED
      BY <2>3, <3>1, <3>2 DEF Stands
  <2> QED
    BY <2>1, <2>2, <2>3
<1>2. PICK e : e = [q EXCEPT !.flag_over = 1]
  OBVIOUS
<1>3. e \in Parser
  BY <1>1, <1>2 DEF Parser
<1>4. /\ e.ctx = q.ctx /\ e.hls_start_ts = q.hls_start_ts /\ e.ts_start_flag = q.ts_start_flag
      /\ e.hls_content = q.hls_content /\ e.hls_file = q.hls_file
      /\ e.hls_segment_duration = q.hls_segment_duration /\ e.hls_end_ts = q.hls_end_ts
  BY <1>1, <1>2 DEF Parser
<1>5. /\ e.flag_over = 1 /\ e.written = <<>> /\ e.status = "running" /\ Fixed(q, e)
      /\ e.flag_first_ts = q.flag_first_ts /\ e.key_frame_count = q.key_frame_count
      /\ e.ts_count = q.ts_count
  BY <1>1, <1>2 DEF Parser, Fixed, Running
<1>6. Base(e) /\ Stands(e, n) /\ Call(e) = n + 1
  <2>1. Base(e) /\ Call(e) = n + 1
    BY <1>1, <1>3, <1>4, <1>5, <1>20 DEF Base, Call
  <2>2. (Shut(q) => Shut(e)) /\ (Open(q, n) => Open(e, n))
    BY <1>4, <1>5, FixedOptions DEF Shut, Open, Lost, Tried, Fixed
  <2> QED
    BY <1>20, <2>1, <2>2 DEF Stands
<1>7. Books(e, os)
  BY <1>1, <1>4, <1>5, FixedOptions DEF Books, Fixed
<1>8. PICK f : f = OpenPlaylist(CloseSegment(e))
  OBVIOUS
<1>9. Ready(e, n, f)
  BY <1>6, <1>8, SegmentReady
<1>10. /\ Base(f) /\ f \in Parser /\ Kept(e, f) /\ f.status = "running" /\ f.written = <<>>
       /\ f.ts_start_flag = 0 /\ f.ctx.opened = 0 /\ Keeps(e.ctx, f.ctx) /\ f.flag_over = 1
       /\ f.ctx.used > 0 => Lost(e, n)
       /\ HasPlaylist(e) => /\ Tallied(f.hls_content, n) /\ Tried(f, n + 1)
                            /\ e.refused = {} => f.hls_file = 1
  BY <1>5, <1>9 DEF Ready, Base, Kept
<1>11. /\ Fixed(q, f) /\ f.flag_first_ts = q.flag_first_ts /\ f.key_frame_count = q.key_frame_count
       /\ f.hls_end_ts = q.hls_end_ts /\ Keeps(q.ctx, f.ctx)
  BY <1>4, <1>5, <1>10 DEF Kept, Fixed
<1>12. Opens(f) => Located(NamesOf(f.ctx), os)
  <2>1. Opens(f) => Opens(e)
    BY <1>5, <1>11, FixedOptions
  <2> QED
    BY <1>7, <1>10, <2>1 DEF Books, Keeps
<1>22. HasPlaylist(f) <=> HasPlaylist(e)
  BY <1>5, <1>11, FixedOptions
<1>21. Lost(e, n) => Lost(f, n)
  BY <1>5, <1>11, FixedOptions DEF Lost, Fixed
<1>13. PICK g : g = EndPlaylist(f)
  OBVIOUS
<1>14. d = IF g.status = "running" THEN [g EXCEPT !.status = "finished"] ELSE g
  BY <1>2, <1>5, <1>8, <1>13 DEF FinishSegments, HlsSegment, Running
<1>15. CASE ~HasPlaylist(f)
  <2>1. g = f /\ d = [f EXCEPT !.status = "finished"]
    BY <1>10, <1>13, <1>14, <1>15 DEF EndPlaylist
  <2>2. /\ d \in Parser /\ d.status = "finished" /\ Kept(f, d) /\ Fixed(f, d) /\ d.ctx = f.ctx
        /\ d.written = f.written /\ d.ts_start_flag = f.ts_start_flag
    BY <1>10, <2>1, StatusSet
  <2>4. Lost(f, n) => Lost(d, n)
    BY <2>2, FixedOptions DEF Lost, Fixed
  <2>3. Ended(d, os)
    BY <1>0, <1>10, <1>12, <1>15, <1>21, <2>2, <2>4, FixedOptions DEF Ended, Base, Kept
  <2> QED
    BY <1>11, <2>2, <2>3, FixedAgain DEF Keeps, Kept
<1>16. CASE HasPlaylist(f) /\ f.hls_file = 0
  <2>1. \A k \in 1 .. Len(os) + 1 : <<"playlist", k>> \in f.refused
    BY <1>0, <1>10, <1>16, <1>22 DEF Tried
  <2>2. g = [f EXCEPT !.status = "crashed"]
    BY <1>13, <1>16 DEF EndPlaylist, Crash
  <2>3. /\ g \in Parser /\ g.status = "crashed" /\ Kept(f, g) /\ Fixed(f, g) /\ g.ctx = f.ctx
        /\ g.written = f.written /\ g.ts_start_flag = f.ts_start_flag
    BY <1>10, <2>2, StatusSet
  <2>4. d = g
    BY <1>14, <2>3
  <2>5. Lost(f, n) => Lost(d, n)
    BY <2>3, <2>4, FixedOptions DEF Lost, Fixed
  <2>6. \A k \in 1 .. Len(os) + 1 : <<"playlist", k>> \in d.refused
    BY <2>1, <2>3, <2>4 DEF Fixed
  <2>7. d.refused # {}
    <3>1. 1 \in 1 .. Len(os) + 1
      BY <1>0
    <3> QED
      BY <2>6, <3>1
  <2>8. Ended(d, os)
    BY <1>0, <1>10, <1>12, <1>16, <1>21, <2>3, <2>4, <2>5, <2>6, <2>7, FixedOptions DEF Ended, Base, Kept
  <2> QED
    BY <1>11, <2>3, <2>4, <2>8, FixedAgain DEF Keeps, Kept
<1>17. CASE HasPlaylist(f) /\ f.hls_file # 0
  <2>1. /\ f.hls_content \in Seq(Line) /\ f.hls_segment_duration \in Time
        /\ f.hls_end_ts \in Time /\ HasPlaylist(e) /\ Tallied(f.hls_content, n)
    BY <1>10, <1>17, <1>22 DEF Parser
  <2>7. PICK top, x : /\ top \in Time /\ top = f.hls_segment_duration
                      /\ x = Target(top)
    BY <2>1
  <2>8. PICK w : w = [Append(f.hls_content, Endlist) EXCEPT ![3] = x]
    OBVIOUS
  <2>9. w \in Seq(Line) /\ Cardinality(NamesIn(w)) = n
    <3>1. w = [Append(f.hls_content, Endlist) EXCEPT ![3] = Target(top)]
      BY <2>7, <2>8
    <3>2. f.hls_content \in Seq(Line) /\ Tallied(f.hls_content, n) /\ top \in Time
      BY <2>1, <2>7
    <3> QED
      BY <3>1, <3>2, WrittenTallied
  <2>10. g = [f EXCEPT !.written = w, !.hls_file = 0, !.hls_content = <<>>]
    BY <1>13, <1>17, <2>1, <2>7, <2>8 DEF EndPlaylist, Target
  <2>11. g \in Parser
    BY <1>10, <2>9, <2>10 DEF Parser
  <2>12. /\ Kept(f, g) /\ Fixed(f, g) /\ g.status = "running"
    BY <1>10, <2>10 DEF Parser, Kept, Fixed
  <2>13. /\ g.ctx = f.ctx /\ g.written = w /\ g.ts_start_flag = 0
         /\ g.hls_segment_duration = f.hls_segment_duration
    BY <1>10, <2>10 DEF Parser
  <2>14. d = [g EXCEPT !.status = "finished"]
    BY <1>14, <2>12
  <2>15. /\ d \in Parser /\ d.status = "finished" /\ Kept(g, d) /\ Fixed(g, d) /\ d.ctx = g.ctx
         /\ d.written = g.written /\ d.ts_start_flag = g.ts_start_flag
         /\ d.hls_segment_duration = g.hls_segment_duration
    BY <2>11, <2>14, StatusSet
  <2>16. /\ Fixed(f, d) /\ Kept(f, d) /\ HasPlaylist(d) /\ d.ctx = f.ctx
         /\ Opens(d) <=> Opens(f)
    BY <1>17, <2>12, <2>13, <2>15, FixedAgain, FixedOptions, KeptAgain
  <2>17. ASSUME d.refused = {}
         PROVE  \E s \in Seq(Time) :
            /\ Len(s) = Len(os) /\ Written(d.written, NamesOf(d.ctx), s, d.hls_segment_duration)
            /\ Spanned(s, Append(os, [keys |-> 0, time |-> d.hls_end_ts]), d.hls_segment_duration)
    <3>1. e.refused = {} /\ Opens(e) /\ Opens(f)
      BY <1>5, <1>11, <2>16, <2>17, FixedOptions DEF Fixed, Opens
    <3>2. PICK o \in Opening : o = [keys |-> 0, time |-> f.hls_end_ts]
      BY <2>1 DEF Opening
    <3>3. o.time = e.hls_end_ts
      BY <1>10, <3>2 DEF Kept
    <3>4. PICK ns : ns = NamesOf(f.ctx)
      OBVIOUS
    <3>5. ns \in Seq(Name) /\ ns = NamesOf(e.ctx)
      <4>1. f.ctx \in WriterType
        BY <1>10 DEF Parser
      <4> QED
        BY <1>10, <3>4, <4>1, TracksType DEF Keeps
    <3>6. PICK ds \in Seq(Time) :
            /\ Len(ds) = Len(os) /\ Len(ns) = Len(os)
            /\ Listed(f.hls_content, ns, ds)
            /\ Spanned(ds, Append(os, o), f.hls_segment_duration)
      BY <1>0, <1>6, <1>7, <1>9, <2>1, <3>1, <3>3, <3>5, DurationsEntered
    <3>7. PICK h \in Seq(Line) : h = f.hls_content
      BY <2>1
    <3>8. Written(w, ns, ds, top)
      BY <2>7, <2>8, <3>5, <3>6, <3>7, PlaylistWritten
    <3> QED
      BY <2>7, <2>13, <2>15, <2>16, <3>2, <3>4, <3>6, <3>8 DEF Kept
  <2>18. Base(d) /\ d.flag_over = 1 /\ d.ts_start_flag = 0 /\ d.ctx.opened = 0
         /\ (Opens(d) => Located(NamesOf(d.ctx), os))
    BY <1>10, <1>12, <2>13, <2>15, <2>16 DEF Base, Kept
  <2>20. d.ctx.used > 0 => Lost(d, n)
    BY <1>10, <1>21, <2>16, FixedOptions DEF Lost, Fixed
  <2>21. d.written # <<>> => HasPlaylist(d) /\ Cardinality(NamesIn(d.written)) = Len(os)
    BY <1>0, <2>9, <2>13, <2>15, <2>16
  <2>19. Ended(d, os)
    BY <1>0, <2>15, <2>17, <2>18, <2>20, <2>21 DEF Ended
  <2> QED
    BY <1>11, <2>16, <2>19, FixedAgain DEF Keeps, Kept
<1> QED
  BY <1>15, <1>16, <1>17

-----------------------------------------------------------------------------
(* The openings os are those by the tags ix of r. *)
At(os, ix, r) ==
  /\ Len(os) = Len(ix)
  /\ \A i \in 1 .. Len(ix) :
       /\ ix[i] \in 1 .. Len(r) /\ os[i].keys = KeysIn(r, ix[i])
       /\ TimesIn(r, ix[i]) # {} => os[i].time = TimeIn(r, ix[i])

(* A frame had been read by each of them. *)
Dated(ix, r) == \A i \in 1 .. Len(ix) : TimesIn(r, ix[i]) # {}

LEMMA AtKeeps ==
  ASSUME NEW os, NEW ix, NEW r \in Seq(Tag), At(os, ix, r), NEW t \in Tag, NEW s, s = Append(r, t)
  PROVE  At(os, ix, s) /\ (Dated(ix, r) => Dated(ix, s))
<1>1. PICK n \in Nat : n = Len(r) /\ Len(s) = n + 1
  BY Appended
<1>2. ASSUME NEW i \in 1 .. n
      PROVE  /\ KeysIn(s, i) = KeysIn(r, i) /\ TimesIn(s, i) = TimesIn(r, i)
             /\ TimesIn(r, i) # {} => TimeIn(s, i) = TimeIn(r, i)
  BY <1>1, KeysGrow, TimeGrows
<1>3. ASSUME NEW i \in 1 .. Len(ix)
      PROVE  /\ ix[i] \in 1 .. n /\ os[i].keys = KeysIn(r, ix[i])
             /\ TimesIn(r, ix[i]) # {} => os[i].time = TimeIn(r, ix[i])
  BY <1>1 DEF At
<1>4. ASSUME NEW i \in 1 .. Len(ix)
      PROVE  /\ ix[i] \in 1 .. Len(s) /\ os[i].keys = KeysIn(s, ix[i])
             /\ TimesIn(s, ix[i]) # {} => os[i].time = TimeIn(s, ix[i])
             /\ TimesIn(s, ix[i]) = TimesIn(r, ix[i])
  <2>1. PICK j \in 1 .. n : j = ix[i]
    BY <1>3
  <2>2. os[i].keys = KeysIn(r, j) /\ (TimesIn(r, j) # {} => os[i].time = TimeIn(r, j))
    BY <1>3, <2>1
  <2>3. j \in 1 .. Len(s)
    BY <1>1, <2>1
  <2> QED
    BY <1>2, <2>1, <2>2, <2>3
<1> QED
  BY <1>4 DEF At, Dated

(* One more opening, by tag k. *)
OpenedAt(o, k, r) ==
  o.keys = KeysIn(r, k) /\ (TimesIn(r, k) # {} => o.time = TimeIn(r, k))

LEMMA AtGrows ==
  ASSUME NEW os \in Seq(Opening), NEW ix \in Seq(Nat), NEW r, At(os, ix, r),
         NEW n, NEW o \in Opening, NEW k \in 1 .. Len(r), Len(r) \in Nat, n = 1 => OpenedAt(o, k, r)
  PROVE  /\ Grown(os, n, o) \in Seq(Opening) /\ Grown(ix, n, k) \in Seq(Nat)
         /\ At(Grown(os, n, o), Grown(ix, n, k), r)
         /\ Dated(ix, r) /\ (n = 1 => TimesIn(r, k) # {}) => Dated(Grown(ix, n, k), r)
<1>1. CASE n = 1
  <2>0. PICK kk \in Nat : kk = k
    OBVIOUS
  <2>1. PICK oo, ii : oo = Append(os, o) /\ ii = Append(ix, kk)
    OBVIOUS
  <2>2. PICK m \in Nat : m = Len(ix) /\ m = Len(os)
    BY DEF At
  <2>3. /\ oo \in Seq(Opening) /\ Len(oo) = m + 1 /\ oo[m + 1] = o
        /\ \A i \in 1 .. m : oo[i] = os[i]
    BY <2>1, <2>2, Appended
  <2>5. /\ ii \in Seq(Nat) /\ Len(ii) = m + 1 /\ ii[m + 1] = k
        /\ \A i \in 1 .. m : ii[i] = ix[i]
    <3>1. ASSUME NEW S, NEW w \in Seq(S), NEW x \in S, NEW y, y = Append(w, x)
          PROVE  /\ y \in Seq(S) /\ Len(y) = Len(w) + 1 /\ y[Len(w) + 1] = x
                 /\ \A i \in 1 .. Len(w) : y[i] = w[i]
      BY <3>1, Appended
    <3>2. PICK S : S = Nat
      OBVIOUS
    <3>3. ix \in Seq(S) /\ kk \in S
      BY <3>2
    <3>4. /\ ii \in Seq(S) /\ Len(ii) = Len(ix) + 1 /\ ii[Len(ix) + 1] = kk
          /\ \A i \in 1 .. Len(ix) : ii[i] = ix[i]
      BY <2>1, <3>1, <3>3
    <3> QED
      BY <2>0, <2>2, <3>2, <3>4
  <2>6. ASSUME NEW i \in 1 .. m + 1
        PROVE  /\ ii[i] \in 1 .. Len(r) /\ oo[i].keys = KeysIn(r, ii[i])
               /\ TimesIn(r, ii[i]) # {} => oo[i].time = TimeIn(r, ii[i])
               /\ Dated(ix, r) /\ TimesIn(r, k) # {} => TimesIn(r, ii[i]) # {}
    <3>1. CASE i = m + 1
      BY <1>1, <2>3, <2>5, <3>1 DEF OpenedAt
    <3>2. CASE i # m + 1
      <4>1. i \in 1 .. m
        BY <3>2
      <4> QED
        BY <2>2, <2>3, <2>5, <4>1 DEF At, Dated
    <3> QED
      BY <3>1, <3>2
  <2>7. At(oo, ii, r) /\ (Dated(ix, r) /\ TimesIn(r, k) # {} => Dated(ii, r))
    BY <2>3, <2>5, <2>6 DEF At, Dated
  <2> QED
    BY <1>1, <2>0, <2>1, <2>3, <2>5, <2>7 DEF Grown
<1>2. CASE n # 1
  BY <1>2 DEF Grown
<1> QED
  BY <1>1, <1>2

-----------------------------------------------------------------------------
(* The pictures of the tags r. *)
OpenedTo(r, m, i) == FlattenSeq([j \in 1 .. i |-> OpenedIn(r, m, j)])

KeptAt(q, r, i) ==
  IF r[i].type \in {"key", "inter"} /\ ~Lost(q, Len(OpenedTo(r, q.segment_num, i)))
  THEN <<Picture(r[i])>> ELSE <<>>

KeptIn(q, r) == FlattenSeq([i \in 1 .. Len(r) |-> KeptAt(q, r, i)])

LEMMA KeptGrows ==
  ASSUME NEW q, NEW r \in Seq(Tag), NEW t \in Tag, NEW s, s = Append(r, t)
  PROVE  /\ KeptIn(q, r) \in Seq(Frame)
         /\ KeptIn(q, s) = IF t.type \in {"key", "inter"} /\ ~Lost(q, Len(OpeningsIn(s, q.segment_num)))
                           THEN KeptIn(q, r) \o <<Picture(t)>> ELSE KeptIn(q, r)
<1>1. PICK n \in Nat : n = Len(r)
  OBVIOUS
<1>2. s[n + 1] = t /\ Len(s) = n + 1 /\ s \in Seq(Tag) /\ \A j \in 1 .. n : s[j] = r[j]
  BY <1>1, Appended
<1>3. ASSUME NEW u \in Seq(Tag), NEW i \in 1 .. Len(u) PROVE KeptAt(q, u, i) \in Seq(Frame)
  <2>1. u[i] \in Tag
    BY ElementOfSeq
  <2>2. u[i].type \in {"key", "inter"} => Picture(u[i]) \in Frame
    BY <2>1, TagType DEF Frame
  <2>3. ASSUME NEW S, NEW x \in S PROVE <<x>> \in Seq(S)
    OBVIOUS
  <2>4. <<>> \in Seq(Frame)
    OBVIOUS
  <2> QED
    BY <2>2, <2>3, <2>4 DEF KeptAt
<1>4. PICK f, g : /\ f = [i \in 1 .. n |-> KeptAt(q, r, i)]
                  /\ g = [i \in 1 .. n + 1 |-> KeptAt(q, s, i)]
  OBVIOUS
<1>5. f \in Seq(Seq(Frame)) /\ Len(f) = n
  <2>1. \A i \in 1 .. n : KeptAt(q, r, i) \in Seq(Frame)
    BY <1>1, <1>3
  <2>2. f \in [1 .. n -> Seq(Frame)]
    BY <1>4, <2>1
  <2> QED
    BY <1>1, <2>2, FunctionIsSeq
<1>6. g \in Seq(Seq(Frame)) /\ Len(g) = n + 1
  <2>1. \A i \in 1 .. n + 1 : KeptAt(q, s, i) \in Seq(Frame)
    BY <1>2, <1>3
  <2>2. PICK m \in Nat : m = n + 1
    OBVIOUS
  <2>3. g \in [1 .. m -> Seq(Frame)]
    BY <1>4, <2>1, <2>2
  <2> QED
    BY <2>2, <2>3, FunctionIsSeq
<1>7. n + 1 \in 1 .. n + 1 /\ \A i \in 1 .. n : i \in 1 .. n + 1
  BY <1>1
<1>8. g[n + 1] = KeptAt(q, s, n + 1) /\ \A i \in 1 .. n : g[i] = f[i]
  <2>1. ASSUME NEW i \in 1 .. n PROVE KeptAt(q, s, i) = KeptAt(q, r, i)
    <3>1. PICK m : m = q.segment_num
      OBVIOUS
    <3>2. \A j \in 1 .. i : j \in 1 .. Len(r)
      BY <1>1
    <3>3. [j \in 1 .. i |-> OpenedIn(s, m, j)] = [j \in 1 .. i |-> OpenedIn(r, m, j)]
      BY <3>2, OpenedKeeps, ZenonT(30)
    <3> QED
      BY <1>2, <3>1, <3>3 DEF KeptAt, OpenedTo
  <2> QED
    BY <1>4, <1>7, <2>1
<1>9. PICK x \in Seq(Frame) : x = KeptAt(q, s, n + 1)
  BY <1>2, <1>3, <1>7
<1>10. g = Append(f, x)
  <2>1. PICK h : h = Append(f, x)
    OBVIOUS
  <2>2. h \in Seq(Seq(Frame)) /\ Len(h) = n + 1 /\ h[n + 1] = x /\ \A i \in 1 .. n : h[i] = f[i]
    BY <1>5, <1>9, <2>1, Appended
  <2>3. ASSUME NEW i \in 1 .. Len(g) PROVE g[i] = h[i]
    <3>1. i = n + 1 \/ i \in 1 .. n
      BY <1>1, <1>6
    <3> QED
      BY <1>8, <1>9, <2>2, <3>1
  <2> QED
    BY <1>6, <2>1, <2>2, <2>3, SeqEqual
<1>11. FlattenSeq(g) = FlattenSeq(f) \o x /\ FlattenSeq(f) \in Seq(Frame)
  BY <1>5, <1>9, <1>10, FlattenAppend
<1>12. KeptIn(q, s) = KeptIn(q, r) \o x /\ KeptIn(q, r) \in Seq(Frame)
  BY <1>1, <1>2, <1>4, <1>11 DEF KeptIn
<1>13. OpenedTo(s, q.segment_num, n + 1) = OpeningsIn(s, q.segment_num)
  BY <1>2 DEF OpenedTo, OpeningsIn
<1>14. x = IF t.type \in {"key", "inter"} /\ ~Lost(q, Len(OpeningsIn(s, q.segment_num)))
           THEN <<Picture(t)>> ELSE <<>>
  BY <1>2, <1>9, <1>13 DEF KeptAt
<1>15. \A w \in Seq(Frame) : w \o <<>> = w
  OBVIOUS
<1> QED
  BY <1>12, <1>14, <1>15

LEMMA KeptFixed ==
  ASSUME NEW q, NEW d, Fixed(q, d), NEW r
  PROVE  KeptIn(d, r) = KeptIn(q, r)
<1>1. \A n : Lost(d, n) <=> Lost(q, n)
  BY DEF Fixed, Lost, HasFiles
<1>2. \A i : KeptAt(d, r, i) = KeptAt(q, r, i)
  BY <1>1 DEF KeptAt, Fixed
<1> QED
  BY <1>2 DEF KeptIn


-----------------------------------------------------------------------------
(* The state and the tags read. *)
Entered(q, os, r) == Standing(q, os) /\ At(os, OpeningsIn(r, q.segment_num), r)

(* All tags are accounted for. *)
Current(q, r) ==
  /\ q.status = "running" /\ (q.flag_first_ts = 1 <=> HasMedia(r))
  /\ q.key_frame_count = KeysIn(r, Len(r))
  /\ \A i \in 1 .. Len(r) : WholeTag(r[i])
  /\ IF HasMedia(r) THEN TimesIn(r, Len(r)) # {} /\ q.hls_end_ts = TimeIn(r, Len(r))
                    ELSE q.key_frame_count <= 1
  /\ Dated(OpeningsIn(r, q.segment_num), r)
  /\ Film(q.ctx) = KeptIn(q, r)

LEMMA MediaGrows ==
  ASSUME NEW r \in Seq(Tag), NEW t \in Tag, NEW s, s = Append(r, t)
  PROVE  /\ s \in Seq(Tag) /\ Len(s) = Len(r) + 1 /\ Len(s) \in Nat /\ Len(r) + 1 \in 1 .. Len(s)
         /\ HasMedia(s) <=> HasMedia(r) \/ MediaTag(t)
         /\ (\A i \in 1 .. Len(r) : WholeTag(r[i])) /\ WholeTag(t) => \A i \in 1 .. Len(s) : WholeTag(s[i])
<1>1. PICK n \in Nat : n = Len(r)
  OBVIOUS
<1>2. s[n + 1] = t /\ Len(s) = n + 1 /\ s \in Seq(Tag) /\ \A j \in 1 .. n : s[j] = r[j]
  BY <1>1, Appended
<1>3. n + 1 \in Nat /\ n + 1 \in 1 .. n + 1 /\ \A i \in 1 .. n + 1 : i = n + 1 \/ i \in 1 .. n
  BY <1>1
<1>4. \A i \in 1 .. n : i \in 1 .. n + 1
  BY <1>1
<1>5. HasMedia(s) <=> HasMedia(r) \/ MediaTag(t)
  BY <1>1, <1>2, <1>3, <1>4 DEF HasMedia
<1>6. (\A i \in 1 .. n : WholeTag(r[i])) /\ WholeTag(t) => \A i \in 1 .. n + 1 : WholeTag(s[i])
  BY <1>2, <1>3
<1> QED
  BY <1>1, <1>2, <1>3, <1>5, <1>6

LEMMA GrownTwice ==
  ASSUME NEW S, NEW x \in Seq(S), NEW y \in S, NEW n \in {0, 1}, NEW k \in {0, 1}
  PROVE  Len(Grown(Grown(x, n, y), k, y)) = Len(x) + n + k
<1>1. PICK z : z = Grown(x, n, y)
  OBVIOUS
<1>2. z \in Seq(S) /\ Len(z) = Len(x) + n /\ Len(x) \in Nat
  BY <1>1 DEF Grown
<1>3. Len(Grown(z, k, y)) = Len(z) + k
  BY <1>2 DEF Grown
<1> QED
  BY <1>1, <1>2, <1>3

(* As many openings as places that open a segment. *)
LEMMA OpeningsCounted ==
  ASSUME NEW r \in Seq(Tag), NEW t \in Tag, NEW s, s = Append(r, t), NEW m
  PROVE  /\ Len(OpeningsIn(s, m)) = Len(OpeningsIn(r, m)) + First(r, t) + Cuts(r, m, t)
         /\ First(r, t) \in {0, 1} /\ Cuts(r, m, t) \in {0, 1}
<1>1. PICK ix, l, n, k : ix = OpeningsIn(r, m) /\ l = Len(r) + 1 /\ n = First(r, t) /\ k = Cuts(r, m, t)
  OBVIOUS
<1>2. n \in {0, 1} /\ k \in {0, 1}
  BY <1>1 DEF First, Cuts
<1>3. PICK T : T = Nat
  OBVIOUS
<1>4. ix \in Seq(T) /\ l \in T
  BY <1>1, <1>3, OpeningsType
<1>5. OpeningsIn(s, m) = Grown(Grown(OpeningsIn(r, m), First(r, t), Len(r) + 1), Cuts(r, m, t), Len(r) + 1)
  BY OpeningsAre
<1>6. Len(Grown(Grown(ix, n, l), k, l)) = Len(ix) + n + k
  BY <1>2, <1>4, GrownTwice
<1> QED
  BY <1>1, <1>2, <1>5, <1>6

(* A tag may open segments twice: as the first with media and as a key. *)
LEMMA EnteredGrows ==
  ASSUME NEW q, NEW os, NEW r \in Seq(Tag), Entered(q, os, r),
         NEW t \in Tag, NEW s, s = Append(r, t), NEW d, d.segment_num = q.segment_num,
         NEW o \in Opening, o.keys = KeysIn(s, Len(s)),
         First(r, t) = 1 \/ Cuts(r, q.segment_num, t) = 1 => OpenedAt(o, Len(s), s),
         Standing(d, Grown(Grown(os, First(r, t), o), Cuts(r, q.segment_num, t), o))
  PROVE  /\ \E oo : Entered(d, oo, s) /\ Len(oo) = Len(OpeningsIn(s, q.segment_num))
         /\ /\ Dated(OpeningsIn(r, q.segment_num), r)
            /\ First(r, t) = 1 \/ Cuts(r, q.segment_num, t) = 1 => TimesIn(s, Len(s)) # {}
            => Dated(OpeningsIn(s, q.segment_num), s)
<1>1. /\ Standing(q, os) /\ os \in Seq(Opening) /\ At(os, OpeningsIn(r, q.segment_num), r)
  BY DEF Entered, Standing, Books
<1>2. PICK m, ix : m = q.segment_num /\ ix = OpeningsIn(r, m)
  OBVIOUS
<1>3. ix \in Seq(Nat)
  BY <1>2, OpeningsType
<1>4. PICK n, k, l : n = First(r, t) /\ k = Cuts(r, m, t) /\ l = Len(s)
  OBVIOUS
<1>5. l \in Nat /\ l \in 1 .. Len(s) /\ l = Len(r) + 1
  BY <1>4, MediaGrows
<1>6. At(os, ix, s) /\ (Dated(ix, r) => Dated(ix, s))
  BY <1>1, <1>2, AtKeeps
<1>7. PICK o1, i1 : o1 = Grown(os, n, o) /\ i1 = Grown(ix, n, l)
  OBVIOUS
<1>8. /\ o1 \in Seq(Opening) /\ i1 \in Seq(Nat) /\ At(o1, i1, s)
      /\ Dated(ix, s) /\ (n = 1 => TimesIn(s, l) # {}) => Dated(i1, s)
  BY <1>1, <1>2, <1>3, <1>4, <1>5, <1>6, <1>7, AtGrows
<1>9. PICK o2, i2 : o2 = Grown(o1, k, o) /\ i2 = Grown(i1, k, l)
  OBVIOUS
<1>10. /\ o2 \in Seq(Opening) /\ i2 \in Seq(Nat) /\ At(o2, i2, s)
       /\ Dated(i1, s) /\ (k = 1 => TimesIn(s, l) # {}) => Dated(i2, s)
  BY <1>2, <1>4, <1>5, <1>8, <1>9, AtGrows
<1>11. i2 = OpeningsIn(s, m)
  BY <1>2, <1>4, <1>5, <1>7, <1>9, OpeningsAre
<1>12. Entered(d, o2, s)
  BY <1>2, <1>4, <1>7, <1>9, <1>10, <1>11 DEF Entered
<1>13. Len(o2) = Len(i2)
  BY <1>10 DEF At
<1> QED
  BY <1>2, <1>4, <1>6, <1>8, <1>10, <1>11, <1>12, <1>13

LEMMA HistoryGrows ==
  ASSUME NEW r \in Seq(Tag), NEW t \in Tag, NEW s, s = Append(r, t)
  PROVE  /\ KeysIn(r, Len(r)) \in Nat /\ KeysIn(r, Len(r)) <= Len(r) /\ KeysIn(s, Len(s)) \in Nat
         /\ KeyTag(t) => KeysIn(s, Len(s)) = KeysIn(r, Len(r)) + 1
         /\ ~KeyTag(t) => KeysIn(s, Len(s)) = KeysIn(r, Len(r))
         /\ MediaTag(t) /\ WholeTag(t) => TimesIn(s, Len(s)) # {} /\ TimeIn(s, Len(s)) = t.ts
         /\ ~(MediaTag(t) /\ WholeTag(t)) =>
              /\ TimesIn(s, Len(s)) = TimesIn(r, Len(r))
              /\ TimesIn(r, Len(r)) # {} => TimeIn(s, Len(s)) = TimeIn(r, Len(r))
<1>1. PICK n \in Nat, l \in Nat : n = Len(r) /\ l = n + 1 /\ Len(s) = l
  <2>1. Len(r) \in Nat /\ Len(r) + 1 \in Nat /\ Len(s) = Len(r) + 1
    BY Appended
  <2> QED
    BY <2>1
<1>2. /\ \A i \in 1 .. Len(r) : KeysIn(s, i) = KeysIn(r, i)
      /\ KeysIn(s, Len(r) + 1) = IF KeyTag(t) THEN KeysIn(r, Len(r)) + 1 ELSE KeysIn(r, Len(r))
  BY KeysGrow
<1>3. KeysIn(s, l) = IF KeyTag(t) THEN KeysIn(r, n) + 1 ELSE KeysIn(r, n)
  BY <1>1, <1>2
<1>4. IF MediaTag(t) /\ WholeTag(t)
      THEN TimesIn(s, Len(r) + 1) # {} /\ TimeIn(s, Len(r) + 1) = t.ts
      ELSE /\ TimesIn(s, Len(r) + 1) = TimesIn(r, Len(r))
           /\ TimesIn(r, Len(r)) # {} => TimeIn(s, Len(r) + 1) = TimeIn(r, Len(r))
  BY TimeGrows
<1>5. IF MediaTag(t) /\ WholeTag(t)
      THEN TimesIn(s, l) # {} /\ TimeIn(s, l) = t.ts
      ELSE /\ TimesIn(s, l) = TimesIn(r, n)
           /\ TimesIn(r, n) # {} => TimeIn(s, l) = TimeIn(r, n)
  BY <1>1, <1>4
<1>6. KeysIn(r, n) \in Nat /\ KeysIn(r, n) <= n /\ KeysIn(s, l) \in Nat
  BY KeysCounted
<1> QED
  BY <1>1, <1>3, <1>5, <1>6

(* A run whose audio overran the buffer: the segment is missing. *)
Overrun(q, r) ==
  /\ Base(q) /\ q.status = "crashed" /\ q.written = <<>>
  /\ q.ctx.used > AudioBufferSize /\ Lost(q, Len(OpeningsIn(r, q.segment_num)))

(* A tag of each kind. *)
LEMMA SoundRead ==
  ASSUME NEW q, NEW os, NEW r \in Seq(Tag), Entered(q, os, r), Current(q, r), q.segment_num # 0,
         NEW t \in Tag, t.type = "aac", t.damage = "none", NEW s, s = Append(r, t),
         NEW d, d = HandleTag(q, t)
  PROVE  \/ (\E oo : Entered(d, oo, s)) /\ Current(d, s) /\ Fixed(q, d)
         \/ Overrun(d, s)
<1>1. Standing(q, os) /\ Running(q) /\ q.flag_first_ts \in {0, 1}
  BY DEF Entered, Current, Running, Standing, Base, Parser
<1>2. MediaTag(t) /\ WholeTag(t) /\ ~KeyTag(t) /\ t.ts \in Time /\ Sound(t) \in Frame
  BY TagType DEF MediaTag, WholeTag, KeyTag, Frame
<1>3. PICK m, n : m = q.segment_num /\ n = First(r, t)
  OBVIOUS
<1>4. n = 1 - q.flag_first_ts /\ Cuts(r, m, t) = 0
  BY <1>1, <1>2, <1>3 DEF Current, First, Cuts
<1>5. /\ s \in Seq(Tag) /\ Len(s) = Len(r) + 1 /\ Len(s) \in Nat /\ HasMedia(s)
      /\ \A i \in 1 .. Len(s) : WholeTag(s[i])
  BY <1>2, MediaGrows DEF Current
<1>6. KeysIn(s, Len(s)) = KeysIn(r, Len(r)) /\ KeysIn(s, Len(s)) \in Nat
  BY <1>2, HistoryGrows
<1>7. TimesIn(s, Len(s)) # {} /\ TimeIn(s, Len(s)) = t.ts
  BY <1>2, HistoryGrows
<1>8. PICK o : o = [keys |-> KeysIn(s, Len(s)), time |-> t.ts]
  OBVIOUS
<1>9. o \in Opening /\ o.keys = KeysIn(s, Len(s)) /\ o.time = t.ts
  BY <1>2, <1>6, <1>8 DEF Opening
<1>10. OpenedAt(o, Len(s), s)
  BY <1>7, <1>9 DEF OpenedAt
<1>18. PICK c : c = AudioEx(FirstPacket(q, t).ctx, Sound(t))
  OBVIOUS
<1>19. CASE ~(c.used <= AudioBufferSize)
  <2>1. /\ Base(d) /\ Fixed(q, d) /\ d.status = "crashed" /\ d.written = <<>>
        /\ d.ctx.used > AudioBufferSize /\ Lost(d, Len(Grown(os, n, o)))
    BY <1>1, <1>4, <1>9, <1>18, <1>19, SoundHandled
  <2>2. d.segment_num = q.segment_num
    BY <2>1 DEF Fixed
  <2>3. os \in Seq(Opening) /\ Len(os) = Len(OpeningsIn(r, m))
    BY <1>3 DEF Entered, Standing, Books, At
  <2>4. Len(OpeningsIn(s, m)) = Len(Grown(Grown(os, n, o), Cuts(r, m, t), o))
    <3>1. Len(OpeningsIn(s, m)) = Len(Grown(Grown(os, First(r, t), o), Cuts(r, m, t), o))
      <4>1. /\ Len(OpeningsIn(s, m)) = Len(OpeningsIn(r, m)) + First(r, t) + Cuts(r, m, t)
            /\ First(r, t) \in {0, 1} /\ Cuts(r, m, t) \in {0, 1}
        BY OpeningsCounted
      <4>2. Len(Grown(Grown(os, First(r, t), o), Cuts(r, m, t), o)) = Len(os) + First(r, t) + Cuts(r, m, t)
        BY <1>9, <4>1, <2>3, GrownTwice
      <4> QED
        BY <2>3, <4>1, <4>2
    <3> QED
      BY <1>3, <3>1
  <2>5. Grown(Grown(os, n, o), Cuts(r, m, t), o) = Grown(os, n, o)
    BY <1>4 DEF Grown
  <2> QED
    BY <1>3, <2>1, <2>2, <2>4, <2>5 DEF Overrun
<1>20. SUFFICES ASSUME c.used <= AudioBufferSize
                PROVE  (\E oo : Entered(d, oo, s)) /\ Current(d, s) /\ Fixed(q, d)
  BY <1>19
<1>11. /\ Standing(d, Grown(os, n, o)) /\ Fixed(q, d) /\ Running(d)
       /\ d.flag_first_ts = 1 /\ d.key_frame_count = q.key_frame_count /\ d.hls_end_ts = t.ts
       /\ Film(d.ctx) = Film(q.ctx)
  BY <1>1, <1>4, <1>9, <1>18, <1>20, SoundHandled
<1>12. Standing(d, Grown(Grown(os, First(r, t), o), Cuts(r, q.segment_num, t), o))
  BY <1>3, <1>4, <1>11 DEF Grown
<1>13. d.segment_num = q.segment_num
  BY <1>11 DEF Fixed
<1>14. /\ \E oo : Entered(d, oo, s)
       /\ Dated(OpeningsIn(r, q.segment_num), r) /\ TimesIn(s, Len(s)) # {}
            => Dated(OpeningsIn(s, q.segment_num), s)
  BY <1>9, <1>10, <1>12, <1>13, EnteredGrows
<1>15. Film(d.ctx) = KeptIn(d, s)
  <2>1. KeptIn(q, s) = KeptIn(q, r)
    <3>1. ~(t.type \in {"key", "inter"})
      OBVIOUS
    <3> QED
      BY ZenonT(60), <3>1, KeptGrows
  <2> QED
    BY <1>11, <2>1, KeptFixed DEF Current
<1>17. Current(d, s)
  BY <1>5, <1>6, <1>7, <1>11, <1>13, <1>14, <1>15 DEF Current, Running
<1> QED
  BY <1>11, <1>14, <1>17

LEMMA PictureRead ==
  ASSUME NEW q, NEW os, NEW r \in Seq(Tag), Entered(q, os, r), Current(q, r), q.segment_num # 0,
         Len(r) + 1 < U32,
         NEW t \in Tag, t.type \in {"key", "inter"}, t.damage = "none", NEW s, s = Append(r, t),
         NEW d, d = HandleTag(q, t)
  PROVE  (\E oo : Entered(d, oo, s)) /\ Current(d, s) /\ Fixed(q, d)
<1>1. Standing(q, os) /\ Running(q) /\ q.flag_first_ts \in {0, 1} /\ q.key_frame_count \in Nat
  BY DEF Entered, Current, Running, Standing, Base, Parser
<1>2. /\ MediaTag(t) /\ WholeTag(t) /\ (KeyTag(t) <=> t.type = "key") /\ t.ts \in Time
      /\ Picture(t) \in Frame
  BY TagType DEF MediaTag, WholeTag, KeyTag, Frame
<1>3. PICK m, n, k : m = q.segment_num /\ n = First(r, t) /\ k = Cuts(r, m, t)
  OBVIOUS
<1>4. n = 1 - q.flag_first_ts /\ k = KeyCut(q, t)
  BY <1>1, <1>2, <1>3 DEF Current, First, Cuts, KeyCut, Cut
<1>5. /\ s \in Seq(Tag) /\ Len(s) = Len(r) + 1 /\ Len(s) \in Nat /\ HasMedia(s)
      /\ \A i \in 1 .. Len(s) : WholeTag(s[i])
  BY <1>2, MediaGrows DEF Current
<1>6. /\ KeysIn(s, Len(s)) = (IF t.type = "key" THEN q.key_frame_count + 1 ELSE q.key_frame_count)
      /\ KeysIn(s, Len(s)) \in Nat /\ q.key_frame_count + 1 < U32
  <2>1. q.key_frame_count = KeysIn(r, Len(r)) /\ Len(r) \in Nat
    BY DEF Current
  <2>2. /\ KeysIn(r, Len(r)) <= Len(r) /\ KeysIn(s, Len(s)) \in Nat
        /\ KeyTag(t) => KeysIn(s, Len(s)) = KeysIn(r, Len(r)) + 1
        /\ ~KeyTag(t) => KeysIn(s, Len(s)) = KeysIn(r, Len(r))
    BY HistoryGrows
  <2>3. q.key_frame_count + 1 < U32
    BY <1>1, <2>1, <2>2, U32Assumption
  <2> QED
    BY <1>2, <2>1, <2>2, <2>3
<1>7. TimesIn(s, Len(s)) # {} /\ TimeIn(s, Len(s)) = t.ts
  BY <1>2, HistoryGrows
<1>8. PICK o : o = [keys |-> KeysIn(s, Len(s)), time |-> t.ts]
  OBVIOUS
<1>9. o \in Opening /\ o.keys = KeysIn(s, Len(s)) /\ o.time = t.ts
  BY <1>2, <1>6, <1>8 DEF Opening
<1>10. OpenedAt(o, Len(s), s)
  BY <1>7, <1>9 DEF OpenedAt
<1>11. /\ Standing(d, Grown(Grown(os, n, o), k, o)) /\ Fixed(q, d) /\ Running(d)
       /\ d.flag_first_ts = 1 /\ d.hls_end_ts = t.ts
       /\ d.key_frame_count = KeysIn(s, Len(s))
       /\ Film(d.ctx) = IF Lost(q, Len(Grown(Grown(os, n, o), k, o))) THEN Film(q.ctx)
                        ELSE Film(q.ctx) \o <<Picture(t)>>
  <2>1. PICK oo : oo = [keys |-> q.key_frame_count + 1, time |-> t.ts]
    OBVIOUS
  <2>2. oo \in Opening /\ oo.keys = q.key_frame_count + 1 /\ oo.time = t.ts
    BY <1>1, <1>2, <2>1 DEF Opening
  <2>3. /\ Standing(d, Grown(Grown(os, n, o), k, oo)) /\ Fixed(q, d) /\ Running(d)
        /\ d.flag_first_ts = 1 /\ d.hls_end_ts = t.ts
        /\ d.key_frame_count = IF t.type = "key" THEN q.key_frame_count + 1 ELSE q.key_frame_count
        /\ Film(d.ctx) = IF Lost(q, Len(Grown(Grown(os, n, o), k, oo))) THEN Film(q.ctx)
                         ELSE Film(q.ctx) \o <<Picture(t)>>
    BY <1>1, <1>4, <1>6, <1>9, <2>2, PictureHandled
  <2>4. k = 1 => o = oo
    <3>1. k = 1 => t.type = "key"
      BY <1>4 DEF KeyCut
    <3> QED
      BY <1>6, <1>8, <2>1, <3>1
  <2>5. Grown(Grown(os, n, o), k, oo) = Grown(Grown(os, n, o), k, o)
    BY <2>4 DEF Grown
  <2> QED
    BY <1>6, <2>3, <2>5
<1>12. Standing(d, Grown(Grown(os, First(r, t), o), Cuts(r, q.segment_num, t), o))
  BY <1>3, <1>11
<1>13. d.segment_num = q.segment_num
  BY <1>11 DEF Fixed
<1>14. /\ \E oo : Entered(d, oo, s)
       /\ Dated(OpeningsIn(r, q.segment_num), r) /\ TimesIn(s, Len(s)) # {}
            => Dated(OpeningsIn(s, q.segment_num), s)
  BY <1>9, <1>10, <1>12, <1>13, EnteredGrows
<1>15. Film(d.ctx) = KeptIn(d, s)
  <2>1. os \in Seq(Opening) /\ Len(os) = Len(OpeningsIn(r, m))
    BY <1>3 DEF Entered, Standing, Books, At
  <2>2. Len(OpeningsIn(s, m)) = Len(Grown(Grown(os, n, o), k, o))
    <3>1. Len(OpeningsIn(s, m)) = Len(Grown(Grown(os, First(r, t), o), Cuts(r, m, t), o))
      <4>1. /\ Len(OpeningsIn(s, m)) = Len(OpeningsIn(r, m)) + First(r, t) + Cuts(r, m, t)
            /\ First(r, t) \in {0, 1} /\ Cuts(r, m, t) \in {0, 1}
        BY OpeningsCounted
      <4>2. Len(Grown(Grown(os, First(r, t), o), Cuts(r, m, t), o)) = Len(os) + First(r, t) + Cuts(r, m, t)
        BY <1>9, <4>1, <2>1, GrownTwice
      <4> QED
        BY <2>1, <4>1, <4>2
    <3> QED
      BY <1>3, <3>1
  <2>3. KeptIn(q, s) = IF ~Lost(q, Len(OpeningsIn(s, m))) THEN KeptIn(q, r) \o <<Picture(t)>>
                       ELSE KeptIn(q, r)
    BY <1>3, KeptGrows
  <2> QED
    BY <1>11, <2>2, <2>3, KeptFixed DEF Current
<1>17. Current(d, s)
  BY <1>5, <1>7, <1>11, <1>13, <1>14, <1>15 DEF Current, Running
<1> QED
  BY <1>11, <1>14, <1>17

LEMMA HeaderRead ==
  ASSUME NEW q, NEW os, NEW r \in Seq(Tag), Entered(q, os, r), Current(q, r), Len(r) + 1 < U32,
         HasMedia(r) \/ q.key_frame_count = 0,
         NEW t \in Tag, t.type = "avcc", t.damage # "type", NEW s, s = Append(r, t),
         NEW d, d = HandleTag(q, t)
  PROVE  (\E oo : Entered(d, oo, s)) /\ Current(d, s) /\ Fixed(q, d)
<1>1. /\ Standing(q, os) /\ Running(q) /\ q.flag_first_ts \in {0, 1} /\ q.key_frame_count \in Nat
      /\ q.hls_end_ts \in Time
  BY DEF Entered, Current, Running, Standing, Base, Parser
<1>2. ~MediaTag(t) /\ WholeTag(t) /\ KeyTag(t)
  BY TagType DEF MediaTag, WholeTag, KeyTag
<1>3. PICK m, k : m = q.segment_num /\ k = Cuts(r, m, t)
  OBVIOUS
<1>4. First(r, t) = 0 /\ k = HeaderCut(q)
  BY <1>1, <1>2, <1>3 DEF Current, First, Cuts, HeaderCut, Cut
<1>5. /\ s \in Seq(Tag) /\ Len(s) = Len(r) + 1 /\ Len(s) \in Nat /\ (HasMedia(s) <=> HasMedia(r))
      /\ \A i \in 1 .. Len(s) : WholeTag(s[i])
  BY <1>2, MediaGrows DEF Current
<1>6. /\ KeysIn(s, Len(s)) = q.key_frame_count + 1 /\ KeysIn(s, Len(s)) \in Nat
      /\ q.key_frame_count + 1 < U32
  <2>1. q.key_frame_count = KeysIn(r, Len(r)) /\ Len(r) \in Nat
    BY DEF Current
  <2>2. /\ KeysIn(r, Len(r)) <= Len(r) /\ KeysIn(s, Len(s)) \in Nat
        /\ KeyTag(t) => KeysIn(s, Len(s)) = KeysIn(r, Len(r)) + 1
    BY HistoryGrows
  <2> QED
    BY <1>1, <1>2, <2>1, <2>2, U32Assumption
<1>7. HasMedia(s) => TimesIn(s, Len(s)) # {} /\ TimeIn(s, Len(s)) = q.hls_end_ts
  <2>1. /\ TimesIn(s, Len(s)) = TimesIn(r, Len(r))
        /\ TimesIn(r, Len(r)) # {} => TimeIn(s, Len(s)) = TimeIn(r, Len(r))
    BY <1>2, HistoryGrows
  <2> QED
    BY <1>5, <2>1 DEF Current
<1>8. PICK o : o = [keys |-> KeysIn(s, Len(s)), time |-> q.hls_end_ts]
  OBVIOUS
<1>9. o \in Opening /\ o.keys = KeysIn(s, Len(s)) /\ o.time = q.hls_end_ts
  BY <1>1, <1>6, <1>8 DEF Opening
<1>10. k = 1 => TimesIn(s, Len(s)) # {} /\ OpenedAt(o, Len(s), s)
  <2>1. k = 1 => HasMedia(s)
    BY <1>4, <1>5 DEF HeaderCut, Current
  <2> QED
    BY <1>7, <1>9, <2>1 DEF OpenedAt
<1>11. /\ Standing(d, Grown(os, k, o)) /\ Fixed(q, d) /\ Running(d)
       /\ d.flag_first_ts = q.flag_first_ts /\ d.hls_end_ts = q.hls_end_ts
       /\ d.key_frame_count = q.key_frame_count + 1
       /\ Film(d.ctx) = Film(q.ctx)
  <2>1. q.flag_first_ts = 1 \/ q.key_frame_count = 0
    BY DEF Current
  <2>2. o.keys = q.key_frame_count + 1
    BY <1>6, <1>9
  <2> QED
    BY <1>1, <1>4, <1>6, <1>9, <2>1, <2>2, HeaderHandled
<1>12. Standing(d, Grown(Grown(os, First(r, t), o), Cuts(r, q.segment_num, t), o))
  BY <1>3, <1>4, <1>11 DEF Grown
<1>13. d.segment_num = q.segment_num
  BY <1>11 DEF Fixed
<1>14. First(r, t) = 1 \/ Cuts(r, q.segment_num, t) = 1 => TimesIn(s, Len(s)) # {} /\ OpenedAt(o, Len(s), s)
  BY <1>3, <1>4, <1>10
<1>15. /\ \E oo : Entered(d, oo, s)
       /\ Dated(OpeningsIn(r, q.segment_num), r) => Dated(OpeningsIn(s, q.segment_num), s)
  BY ZenonT(60), <1>9, <1>12, <1>13, <1>14, EnteredGrows
<1>16. Film(d.ctx) = KeptIn(d, s)
  <2>1. KeptIn(q, s) = KeptIn(q, r)
    BY KeptGrows
  <2> QED
    BY <1>11, <2>1, KeptFixed DEF Current
<1>18. ~HasMedia(s) => d.key_frame_count <= 1
  BY <1>5, <1>11
<1>19. Current(d, s)
  BY <1>5, <1>6, <1>7, <1>11, <1>13, <1>15, <1>16, <1>18 DEF Current, Running
<1> QED
  BY <1>11, <1>15, <1>19

(* A tag that opens no segment. *)
LEMMA EnteredStays ==
  ASSUME NEW q, NEW os, NEW r \in Seq(Tag), Entered(q, os, r), NEW t \in Tag, NEW s, s = Append(r, t),
         ~MediaTag(t), ~KeyTag(t) \/ ~HasMedia(r), NEW d, Standing(d, os), d.segment_num = q.segment_num
  PROVE  /\ Entered(d, os, s) /\ OpeningsIn(s, q.segment_num) = OpeningsIn(r, q.segment_num)
         /\ Dated(OpeningsIn(r, q.segment_num), r) => Dated(OpeningsIn(s, q.segment_num), s)
<1>1. First(r, t) = 0 /\ Cuts(r, q.segment_num, t) = 0
  BY DEF First, Cuts
<1>2. OpeningsIn(s, q.segment_num) = OpeningsIn(r, q.segment_num)
  <2>1. PICK m : m = q.segment_num
    OBVIOUS
  <2>2. OpeningsIn(s, m) = Grown(Grown(OpeningsIn(r, m), First(r, t), Len(r) + 1), Cuts(r, m, t), Len(r) + 1)
    BY OpeningsAre
  <2> QED
    BY <1>1, <2>1, <2>2 DEF Grown
<1>3. PICK ix : ix = OpeningsIn(r, q.segment_num)
  OBVIOUS
<1>4. At(os, ix, s) /\ (Dated(ix, r) => Dated(ix, s))
  BY <1>3, AtKeeps DEF Entered
<1> QED
  BY <1>2, <1>3, <1>4 DEF Entered

LEMMA OtherRead ==
  ASSUME NEW q, NEW os, NEW r \in Seq(Tag), Entered(q, os, r), Current(q, r),
         NEW t \in Tag, t.type = "other", t.damage = "none", NEW s, s = Append(r, t)
  PROVE  HandleTag(q, t) = q /\ Entered(q, os, s) /\ Current(q, s)
<1>1. HandleTag(q, t) = q
  BY DEF HandleTag
<1>2. ~MediaTag(t) /\ WholeTag(t) /\ ~KeyTag(t)
  BY DEF MediaTag, WholeTag, KeyTag
<1>3. Standing(q, os)
  BY DEF Entered
<1>4. /\ Entered(q, os, s) /\ OpeningsIn(s, q.segment_num) = OpeningsIn(r, q.segment_num)
      /\ Dated(OpeningsIn(r, q.segment_num), r) => Dated(OpeningsIn(s, q.segment_num), s)
  BY <1>2, <1>3, EnteredStays
<1>5. (HasMedia(s) <=> HasMedia(r)) /\ \A i \in 1 .. Len(s) : WholeTag(s[i])
  BY <1>2, MediaGrows DEF Current
<1>6. /\ KeysIn(s, Len(s)) = KeysIn(r, Len(r)) /\ TimesIn(s, Len(s)) = TimesIn(r, Len(r))
      /\ TimesIn(r, Len(r)) # {} => TimeIn(s, Len(s)) = TimeIn(r, Len(r))
  BY <1>2, HistoryGrows
<1>7. KeptIn(q, s) = KeptIn(q, r)
  BY KeptGrows
<1>8. Current(q, s)
  BY <1>4, <1>5, <1>6, <1>7 DEF Current
<1> QED
  BY <1>1, <1>4, <1>8

(* A run that gave up. *)
Left(q, os, r) ==
  /\ Entered(q, os, r) /\ q.status = "aborted"
  /\ Len(OpeningsIn(r, q.segment_num)) > 1 => Dated(OpeningsIn(r, q.segment_num), r)

LEMMA TypeRead ==
  ASSUME NEW q, NEW os, NEW r \in Seq(Tag), Entered(q, os, r), Current(q, r),
         NEW t \in Tag, t.damage = "type", NEW s, s = Append(r, t), NEW d, d = HandleTag(q, t)
  PROVE  Left(d, os, s) /\ Fixed(q, d)
<1>1. d = [q EXCEPT !.status = "aborted"]
  BY DEF HandleTag, Abort
<1>2. ~MediaTag(t) /\ ~KeyTag(t)
  BY DEF MediaTag, WholeTag, KeyTag
<1>3. Standing(q, os)
  BY DEF Entered
<1>4. Standing(d, os) /\ d.status = "aborted" /\ Fixed(q, d)
  BY <1>1, <1>3, StandingEnds
<1>5. d.segment_num = q.segment_num
  BY <1>4 DEF Fixed
<1>6. /\ Entered(d, os, s)
      /\ Dated(OpeningsIn(r, q.segment_num), r) => Dated(OpeningsIn(s, q.segment_num), s)
  BY <1>2, <1>4, <1>5, EnteredStays
<1> QED
  BY <1>4, <1>5, <1>6 DEF Left, Current

LEMMA DamageRead ==
  ASSUME NEW q, NEW os, NEW r \in Seq(Tag), Entered(q, os, r), Current(q, r), q.segment_num # 0,
         NEW t \in Tag, t.damage = "body", NEW s, s = Append(r, t), NEW d, d = HandleTag(q, t)
  PROVE  (\E oo : Left(d, oo, s)) /\ Fixed(q, d)
<1>1. Standing(q, os) /\ Running(q) /\ q.flag_first_ts \in {0, 1}
  BY DEF Entered, Current, Running, Standing, Base, Parser
<1>2. MediaTag(t) /\ ~WholeTag(t) /\ ~KeyTag(t) /\ t.ts \in Time
  BY TagType DEF MediaTag, WholeTag, KeyTag
<1>3. PICK m, n : m = q.segment_num /\ n = First(r, t)
  OBVIOUS
<1>4. n = 1 - q.flag_first_ts /\ Cuts(r, m, t) = 0 /\ (n = 1 <=> ~HasMedia(r))
  BY <1>1, <1>2, <1>3 DEF Current, First, Cuts
<1>5. /\ TimesIn(s, Len(s)) = TimesIn(r, Len(r)) /\ KeysIn(s, Len(s)) \in Nat
      /\ TimesIn(r, Len(r)) # {} => TimeIn(s, Len(s)) = TimeIn(r, Len(r))
  BY <1>2, HistoryGrows
<1>6. n = 1 => TimesIn(s, Len(s)) = {}
  <2>1. ~HasMedia(r) => TimesIn(r, Len(r)) = {}
    BY DEF HasMedia, TimesIn
  <2> QED
    BY <1>4, <1>5, <2>1
<1>7. PICK o : o = [keys |-> KeysIn(s, Len(s)), time |-> t.ts]
  OBVIOUS
<1>8. o \in Opening /\ o.keys = KeysIn(s, Len(s)) /\ o.time = t.ts
  BY <1>2, <1>5, <1>7 DEF Opening
<1>9. n = 1 => OpenedAt(o, Len(s), s)
  BY <1>6, <1>8 DEF OpenedAt
<1>10. Standing(d, Grown(os, n, o)) /\ Fixed(q, d) /\ d.status = "aborted"
  BY <1>1, <1>4, <1>8, DamageHandled
<1>11. Standing(d, Grown(Grown(os, First(r, t), o), Cuts(r, q.segment_num, t), o))
  BY <1>3, <1>4, <1>10 DEF Grown
<1>12. d.segment_num = q.segment_num
  BY <1>10 DEF Fixed
<1>13. First(r, t) = 1 \/ Cuts(r, q.segment_num, t) = 1 => OpenedAt(o, Len(s), s)
  BY <1>3, <1>4, <1>9
<1>14. /\ \E oo : Entered(d, oo, s)
       /\ /\ Dated(OpeningsIn(r, q.segment_num), r)
          /\ First(r, t) = 1 \/ Cuts(r, q.segment_num, t) = 1 => TimesIn(s, Len(s)) # {}
          => Dated(OpeningsIn(s, q.segment_num), s)
  BY ZenonT(60), <1>8, <1>11, <1>12, <1>13, EnteredGrows
<1>15. CASE n = 0
  BY <1>3, <1>4, <1>10, <1>12, <1>14, <1>15 DEF Left, Current
<1>16. CASE n = 1
  <2>1. PICK ix \in Seq(Nat) : ix = OpeningsIn(r, m)
    BY OpeningsType
  <2>2. Len(ix) = 0
    <3>1. os = <<>>
      BY <1>1, <1>4, <1>16 DEF Standing
    <3>2. Len(os) = Len(ix)
      BY <1>3, <2>1 DEF Entered, At
    <3> QED
      BY <3>1, <3>2
  <2>3. OpeningsIn(s, m) = Append(ix, Len(r) + 1)
    <3>1. OpeningsIn(s, m) = Grown(Grown(OpeningsIn(r, m), First(r, t), Len(r) + 1), Cuts(r, m, t), Len(r) + 1)
      BY OpeningsAre
    <3>2. First(r, t) = 1 /\ ~(Cuts(r, m, t) = 1)
      BY <1>3, <1>4, <1>16
    <3> QED
      BY <2>1, <3>1, <3>2 DEF Grown
  <2>4. Len(OpeningsIn(s, m)) = 1
    <3>1. Len(r) + 1 \in Nat
      OBVIOUS
    <3>2. \A y \in Nat : Len(Append(ix, y)) = Len(ix) + 1
      OBVIOUS
    <3> QED
      BY <2>2, <2>3, <3>1, <3>2
  <2> QED
    BY <1>3, <1>10, <1>12, <1>14, <2>4 DEF Left
<1> QED
  BY <1>1, <1>4, <1>15, <1>16

-----------------------------------------------------------------------------
(* Every state of a run. *)
Refused(q, os, r) ==
  /\ Entered(q, os, r) /\ q.status = "crashed" /\ q.flag_first_ts = 0
  /\ ~HasMedia(r) /\ KeysIn(r, Len(r)) = 2

Over(q, os, r) ==
  /\ Ended(q, os) /\ os \in Seq(Opening) /\ At(os, OpeningsIn(r, q.segment_num), r)
  /\ \A i \in 1 .. Len(r) : WholeTag(r[i])
  /\ os # <<>> => q.hls_end_ts = TimeIn(r, Len(r))
  /\ Dated(OpeningsIn(r, q.segment_num), r)
  /\ Film(q.ctx) = KeptIn(q, r)

Story(q, r) ==
  /\ r \in Seq(Tag) /\ Len(r) <= MaxTags
  /\ \/ \E os : Entered(q, os, r) /\ Current(q, r)
     \/ \E os : Left(q, os, r)
     \/ \E os : Refused(q, os, r)
     \/ Unstarted(q)
     \/ \E os : Over(q, os, r)
     \/ Overrun(q, r)

LEMMA RunningIs ==
  ASSUME NEW q, NEW r, Story(q, r), Running(q)
  PROVE  r \in Seq(Tag) /\ Len(r) <= MaxTags /\ \E os : Entered(q, os, r) /\ Current(q, r)
<1>1. ~Unstarted(q) /\ ~Overrun(q, r) /\ \A os : ~Left(q, os, r) /\ ~Refused(q, os, r)
  BY DEF Running, Unstarted, Overrun, Left, Refused
<1>2. \A os : ~Over(q, os, r)
  BY DEF Over, Ended, Running
<1> QED
  BY <1>1, <1>2 DEF Story

LEMMA TagRead ==
  ASSUME NEW q, NEW r, Story(q, r), Running(q), Len(r) < MaxTags,
         NEW t \in Tag, NEW s, s = Append(r, t), NEW d, d = HandleTag(q, t)
  PROVE  Story(d, s)
<1>1. PICK os : Entered(q, os, r) /\ Current(q, r)
  BY RunningIs
<1>2. r \in Seq(Tag)
  BY DEF Story
<1>3. s \in Seq(Tag) /\ Len(s) <= MaxTags /\ Len(r) + 1 < U32
  <2>1. Len(s) = Len(r) + 1 /\ Len(r) \in Nat /\ s \in Seq(Tag)
    BY <1>2, Appended
  <2>2. MaxTags \in Nat /\ MaxTags < U32
    BY TagAssumption
  <2> QED
    BY <2>1, <2>2, U32Assumption
<1>4. t.type \in {"avcc", "key", "inter", "aac", "other"} /\ t.damage \in {"none", "type", "body"}
      /\ (t.damage = "body" => t.type \in {"key", "inter", "aac"})
  BY TagType
<1>5. Standing(q, os)
  BY <1>1 DEF Entered
<1>6. CASE t.damage = "type"
  BY <1>1, <1>2, <1>3, <1>6, TypeRead DEF Story
<1>7. CASE t.damage # "type" /\ t.type \in {"key", "inter", "aac"} /\ q.segment_num = 0
  BY <1>3, <1>5, <1>7, MediaCrashes DEF Story
<1>8. CASE t.damage = "body" /\ q.segment_num # 0
  BY <1>1, <1>2, <1>3, <1>8, DamageRead DEF Story
<1>9. CASE t.damage = "none" /\ t.type = "aac" /\ q.segment_num # 0
  BY <1>1, <1>2, <1>3, <1>9, SoundRead DEF Story
<1>10. CASE t.damage = "none" /\ t.type \in {"key", "inter"} /\ q.segment_num # 0
  BY <1>1, <1>2, <1>3, <1>10, PictureRead DEF Story
<1>11. CASE t.damage = "none" /\ t.type = "other"
  <2>1. HandleTag(q, t) = q /\ Entered(q, os, s) /\ Current(q, s)
    BY <1>1, <1>2, <1>11, OtherRead
  <2> QED
    BY <1>3, <2>1 DEF Story
<1>12. CASE t.damage = "none" /\ t.type = "avcc"
  <2>1. CASE HasMedia(r) \/ q.key_frame_count = 0
    BY <1>1, <1>2, <1>3, <1>12, <2>1, HeaderRead DEF Story
  <2>2. CASE ~(HasMedia(r) \/ q.key_frame_count = 0)
    <3>1. q.flag_first_ts \in {0, 1} /\ q.key_frame_count \in Nat
      BY <1>5 DEF Standing, Base, Parser
    <3>2. /\ q.flag_first_ts = 0 /\ q.key_frame_count = 1 /\ q.key_frame_count > 0
          /\ q.key_frame_count = KeysIn(r, Len(r))
      BY <1>1, <2>2, <3>1 DEF Current
    <3>3. Standing(d, os) /\ Fixed(q, d) /\ d.status = "crashed" /\ d.flag_first_ts = 0
      BY <1>5, <1>12, <3>2, HeaderCrashes
    <3>4. ~MediaTag(t) /\ KeyTag(t)
      BY <1>12 DEF MediaTag, KeyTag
    <3>5. d.segment_num = q.segment_num
      BY <3>3 DEF Fixed
    <3>6. Entered(d, os, s)
      BY <1>1, <1>2, <2>2, <3>3, <3>4, <3>5, EnteredStays
    <3>7. ~HasMedia(s)
      BY <1>2, <2>2, <3>4, MediaGrows
    <3>8. KeysIn(s, Len(s)) = 2
      <4>1. KeyTag(t) => KeysIn(s, Len(s)) = KeysIn(r, Len(r)) + 1
        BY <1>2, HistoryGrows
      <4> QED
        BY <3>2, <3>4, <4>1
    <3> QED
      BY <1>3, <3>3, <3>6, <3>7, <3>8 DEF Story, Refused
  <2> QED
    BY <2>1, <2>2
<1> QED
  BY <1>4, <1>6, <1>7, <1>8, <1>9, <1>10, <1>11, <1>12

LEMMA TrailerLost ==
  ASSUME NEW q, NEW r, Story(q, r), Running(q), NEW d, d = Abort(q)
  PROVE  Story(d, r)
<1>1. PICK os : Entered(q, os, r) /\ Current(q, r)
  BY RunningIs
<1>2. Standing(q, os)
  BY <1>1 DEF Entered
<1>3. Standing(d, os) /\ d.status = "aborted" /\ Fixed(q, d)
  BY <1>2, StandingEnds DEF Abort
<1>4. Left(d, os, r)
  BY <1>1, <1>3 DEF Left, Entered, Current, Fixed
<1> QED
  BY <1>4 DEF Story

LEMMA FileEnds ==
  ASSUME NEW q, NEW r, Story(q, r), Running(q), NEW d, d = FinishSegments(q)
  PROVE  Story(d, r)
<1>1. PICK os : Entered(q, os, r) /\ Current(q, r)
  BY RunningIs
<1>2. Standing(q, os) /\ os \in Seq(Opening) /\ At(os, OpeningsIn(r, q.segment_num), r)
  BY <1>1 DEF Entered, Standing, Books
<1>3. /\ Ended(d, os) /\ Fixed(q, d) /\ Keeps(q.ctx, d.ctx) /\ d.hls_end_ts = q.hls_end_ts
  BY <1>2, FinishHandled
<1>4. os # <<>> => q.hls_end_ts = TimeIn(r, Len(r))
  <2>1. os # <<>> => HasMedia(r)
    <3>1. os # <<>> => q.flag_first_ts = 1
      <4>1. q.flag_first_ts \in {0, 1}
        BY <1>2 DEF Standing, Base, Parser
      <4> QED
        BY <1>2, <4>1 DEF Standing
    <3> QED
      BY <1>1, <3>1 DEF Current
  <2> QED
    BY <1>1, <2>1 DEF Current
<1>5. Film(d.ctx) = KeptIn(d, r)
  BY <1>1, <1>3, KeptFixed DEF Current, Keeps, Film
<1>6. d.segment_num = q.segment_num
  BY <1>3 DEF Fixed
<1>7. Over(d, os, r)
  BY <1>1, <1>2, <1>3, <1>4, <1>5, <1>6 DEF Over, Current
<1> QED
  BY <1>7 DEF Story

LEMMA RunStarts ==
  ASSUME Init
  PROVE  Story(p, read)
<1>1. PICK options \in Options, n \in SegmentNums, w \in Refusals :
        p = NewParser(options, 0, n, w, NewContext(0, 0, 0, 0))
  BY DEF Init
<1>2. options \in [ts : {0, 1}, m3u8 : {0, 1}] /\ n \in Nat /\ w \in Refusal
  BY <1>1, TagAssumption DEF Refusal
<1>3. PICK c : c = NewContext(0, 0, 0, 0)
  OBVIOUS
<1>4. <<>> \in SegmentSeq(Name, Packet) /\ <<>> \in Seq(Frame)
  BY DEF SegmentSeq
<1>5. c \in WriterType
  BY <1>3, <1>4 DEF NewContext, WriterType
<1>6. c.opened = 0 /\ c.used = 0 /\ c.segments = <<>> /\ c.held = <<>>
  BY <1>3 DEF NewContext
<1>7. WellFormed(c) /\ Resumes(c)
  BY <1>5, <1>6 DEF WellFormed, Resumes
<1>8. 0 \in Time /\ <<>> \in Seq(Line)
  BY U32Assumption DEF Time
<1>9. PICK q : q = NewParser(options, 0, n, w, c)
  OBVIOUS
<1>10. p = q
  BY <1>1, <1>3, <1>9
<1>11. options.ts \in {0, 1} /\ options.m3u8 \in {0, 1}
  BY <1>2
<1>12. q \in Parser
  BY <1>2, <1>5, <1>8, <1>9, <1>11 DEF NewParser, Parser
<1>13. /\ q.status = "running" /\ q.ctx = c /\ q.flag_first_ts = 0 /\ q.key_frame_count = 0
       /\ q.hls_segment_num = 0 /\ q.ts_fragment_id = 0 /\ q.ts_count = 0
  BY <1>9 DEF NewParser
<1>14. /\ q.ts_start_flag = 0 /\ q.hls_file = 0 /\ q.hls_content = <<>> /\ q.written = <<>> /\ q.flag_over = 0
  BY <1>9 DEF NewParser
<1>15. Base(q) /\ Shut(q)
  BY <1>6, <1>7, <1>12, <1>13, <1>14 DEF Base, Shut
<1>16. PICK os : os = <<>>
  OBVIOUS
<1>17. os \in Seq(Opening) /\ Len(os) = 0 /\ os = <<>> /\ 1 .. 0 = {}
  BY <1>16
<1>18. NamesOf(q.ctx) = <<>> /\ TracksOf(q.ctx) = <<>>
  BY <1>6, <1>13 DEF NamesOf, TracksOf
<1>19. Books(q, os)
  <2>1. Located(NamesOf(q.ctx), os)
    BY <1>17, <1>18 DEF Located
  <2> QED
    BY <1>17, <2>1 DEF Books
<1>20. Standing(q, os)
  BY <1>13, <1>14, <1>15, <1>17, <1>19 DEF Standing
<1>21. read = <<>> /\ Len(<<>>) = 0
  BY DEF Init
<1>22. PICK ix : ix = OpeningsIn(read, q.segment_num)
  OBVIOUS
<1>23. ix = <<>> /\ Len(ix) = 0
  <2>1. [i \in 1 .. Len(read) |-> OpenedIn(read, q.segment_num, i)] = <<>>
    BY <1>17, <1>21
  <2> QED
    BY <1>22, <2>1, FlattenEmpty DEF OpeningsIn
<1>24. At(os, ix, read) /\ Dated(ix, read)
  BY <1>17, <1>23 DEF At, Dated
<1>25. ~HasMedia(read) /\ KeysIn(read, Len(read)) = 0
  <2>1. {j \in 1 .. 0 : KeyTag(read[j])} = {}
    BY <1>17
  <2> QED
    BY <1>17, <1>21, <2>1, FS_EmptySet DEF HasMedia, KeysIn
<1>26. Film(q.ctx) = KeptIn(q, read)
  <2>1. PICK ts : ts = TracksOf(q.ctx)
    OBVIOUS
  <2>2. [i \in 1 .. Len(ts) |-> ts[i].video] = <<>> /\ [i \in 1 .. Len(read) |-> KeptAt(q, read, i)] = <<>>
    BY <1>17, <1>18, <1>21, <2>1
  <2> QED
    BY <2>1, <2>2 DEF Film, VideosOf, KeptIn
<1>27. Entered(q, os, read) /\ Current(q, read)
  BY <1>13, <1>17, <1>20, <1>21, <1>22, <1>24, <1>25, <1>26 DEF Entered, Current
<1>28. read \in Seq(Tag) /\ Len(read) <= MaxTags
  BY <1>21, TagAssumption
<1> QED
  BY <1>10, <1>27, <1>28 DEF Story

LEMMA StoryGoesOn ==
  ASSUME Story(p, read), [Next]_vars
  PROVE  Story(p, read)'
<1>1. CASE UNCHANGED vars
  <2>1. p' = p /\ read' = read
    BY <1>1 DEF vars
  <2> QED
    BY <2>1
<1>2. ASSUME NEW types, ReadTag(types) PROVE Story(p, read)'
  <2>1. PICK t \in Tag : p' = HandleTag(p, t) /\ read' = Append(read, t)
    BY <1>2 DEF ReadTag
  <2>2. Running(p) /\ Len(read) < MaxTags
    BY <1>2 DEF ReadTag
  <2>3. Story(p', read')
    BY <2>1, <2>2, TagRead
  <2> QED
    BY <2>3
<1>3. CASE LoseTrailer
  <2>1. Running(p) /\ p' = Abort(p) /\ read' = read
    BY <1>3 DEF LoseTrailer
  <2>2. Story(p', read)
    BY <2>1, TrailerLost
  <2> QED
    BY <2>1, <2>2
<1>4. CASE EndOfFile
  <2>1. Running(p) /\ p' = FinishSegments(p) /\ read' = read
    BY <1>4 DEF EndOfFile
  <2>2. Story(p', read)
    BY <2>1, FileEnds
  <2> QED
    BY <2>1, <2>2
<1> QED
  BY <1>1, <1>2, <1>3, <1>4 DEF Next, ReadHeader, ReadPicture, ReadSound, ReadOther

LEMMA StoryHolds == Spec => []Story(p, read)
<1>1. Init => Story(p, read)
  BY RunStarts
<1>2. Story(p, read) /\ [Next]_vars => Story(p, read)'
  BY StoryGoesOn
<1> QED
  BY <1>1, <1>2, PTL DEF Spec

-----------------------------------------------------------------------------
(* The theorems. *)
LEMMA BaseHolds ==
  ASSUME NEW q, NEW r, Story(q, r)
  PROVE  Base(q)
<1>1. ASSUME NEW os, Entered(q, os, r) PROVE Base(q)
  BY <1>1 DEF Entered, Standing
<1>2. ASSUME NEW os, Over(q, os, r) PROVE Base(q)
  BY <1>2 DEF Over, Ended
<1> QED
  BY <1>1, <1>2 DEF Story, Left, Refused, Unstarted, Overrun

(* Apart from a run that could not start, overran its buffer or is over, a *)
(* run stands at its openings.                                             *)
LEMMA StoryIs ==
  ASSUME NEW q, NEW r, Story(q, r)
  PROVE  \/ \E os : /\ Entered(q, os, r) /\ q.status # "finished"
                    /\ Len(os) > 1 => Dated(OpeningsIn(r, q.segment_num), r)
         \/ Unstarted(q) \/ Overrun(q, r)
         \/ \E os : Over(q, os, r)
<1>1. ASSUME NEW os, Entered(q, os, r), Current(q, r)
      PROVE  q.status # "finished" /\ Dated(OpeningsIn(r, q.segment_num), r)
  BY <1>1 DEF Current
<1>2. ASSUME NEW os, Left(q, os, r)
      PROVE  /\ Entered(q, os, r) /\ q.status # "finished"
             /\ Len(os) > 1 => Dated(OpeningsIn(r, q.segment_num), r)
  <2>1. Len(os) = Len(OpeningsIn(r, q.segment_num))
    BY <1>2 DEF Left, Entered, At
  <2> QED
    BY <1>2, <2>1 DEF Left
<1>3. ASSUME NEW os, Refused(q, os, r)
      PROVE  /\ Entered(q, os, r) /\ q.status # "finished"
             /\ Len(os) > 1 => Dated(OpeningsIn(r, q.segment_num), r)
  <2>1. os = <<>> /\ Entered(q, os, r) /\ q.status # "finished"
    BY <1>3 DEF Refused, Entered, Standing
  <2>2. ~(Len(os) > 1)
    BY <2>1
  <2> QED
    BY <2>1, <2>2
<1> QED
  BY <1>1, <1>2, <1>3 DEF Story

(* A run crashes only on a segment number that is 0 or not yet set, at the *)
(* end of a playlist of which no attempt to create it went well, or with   *)
(* audio that overran the buffer while its segment was missing: for any    *)
(* tags and whatever files could be created.                               *)
THEOREM CrashesAreExplained == Spec => []CrashesExplained
<1>1. ASSUME Story(p, read) PROVE CrashesExplained
  <2>1. SUFFICES ASSUME p.status = "crashed"
                 PROVE  \/ p.segment_num = 0
                        \/ ~(\E i \in 1 .. Len(read) : Media(i)) /\ KeysTo(Len(read)) = 2
                        \/ /\ HasPlaylist(p) /\ p.flag_over = 1
                           /\ \A k \in 1 .. Len(Openings) + 1 : <<"playlist", k>> \in p.refused
                        \/ /\ p.ctx.used > AudioBufferSize
                           /\ ~Created(Len(Openings))
    BY DEF CrashesExplained
  <2>2. ASSUME NEW os, Refused(p, os, read)
        PROVE  ~(\E i \in 1 .. Len(read) : Media(i)) /\ KeysTo(Len(read)) = 2
    BY <2>2, HistoryIs DEF Refused, HasMedia
  <2>3. ASSUME NEW os, Over(p, os, read)
        PROVE  /\ HasPlaylist(p) /\ p.flag_over = 1
               /\ \A k \in 1 .. Len(Openings) + 1 : <<"playlist", k>> \in p.refused
    <3>1. Len(os) = Len(Openings)
      BY <2>3, HistoryIs DEF Over, At
    <3> QED
      BY <2>1, <2>3, <3>1 DEF Over, Ended
  <2>4. Unstarted(p) => p.segment_num = 0
    BY DEF Unstarted
  <2>5. ~Current(p, read) /\ \A os : ~Left(p, os, read)
    BY <2>1 DEF Current, Left
  <2>6. Overrun(p, read) => p.ctx.used > AudioBufferSize /\ ~Created(Len(Openings))
    BY HistoryIs DEF Overrun, Lost, Created
  <2> QED
    BY <1>1, <2>2, <2>3, <2>4, <2>5, <2>6 DEF Story
<1> QED
  BY <1>1, StoryHolds, PTL

LEMMA NamesAreLocated ==
  ASSUME NEW q, NEW r, Story(q, r), Opens(q)
  PROVE  \/ q.ctx.segments = <<>>
         \/ \E os : At(os, OpeningsIn(r, q.segment_num), r) /\ Located(NamesOf(q.ctx), os)
<1>1. ASSUME NEW os, Entered(q, os, r), q.ctx.segments # <<>>
      PROVE  At(os, OpeningsIn(r, q.segment_num), r) /\ Located(NamesOf(q.ctx), os)
  <2>1. Standing(q, os) /\ At(os, OpeningsIn(r, q.segment_num), r)
    BY <1>1 DEF Entered
  <2> QED
    BY <2>1 DEF Standing, Books
<1>2. ASSUME NEW os, Over(q, os, r), q.ctx.segments # <<>>
      PROVE  At(os, OpeningsIn(r, q.segment_num), r) /\ Located(NamesOf(q.ctx), os)
  <2>1. Ended(q, os) /\ At(os, OpeningsIn(r, q.segment_num), r)
    BY <1>2 DEF Over
  <2> QED
    BY <1>2, <2>1 DEF Ended
<1>3. ~Overrun(q, r)
  BY NothingLost DEF Overrun
<1> QED
  BY <1>1, <1>2, <1>3, StoryIs DEF Unstarted

(* Every segment's name carries its place in the run and the number of the *)
(* key frame that opened it, for any file and any segment number, where    *)
(* every file can be created.                                              *)
THEOREM NamesSayWhere == Spec => []NamesLocate
<1>1. ASSUME Story(p, read), p.refused = {} PROVE NamesLocate
  <2>1. CASE Segments = <<>>
    BY <2>1 DEF NamesLocate
  <2>2. ASSUME NEW os, At(os, Openings, read), Located(NamesOf(p.ctx), os)
        PROVE  NamesLocate
    <3>1. p.ctx \in WriterType
      BY <1>1, BaseHolds DEF Base, Parser
    <3>2. /\ Len(NamesOf(p.ctx)) = Len(Segments)
          /\ \A i \in 1 .. Len(Segments) : NamesOf(p.ctx)[i] = Segments[i].name
      BY <3>1, TracksType DEF Segments
    <3>3. ASSUME NEW i \in 1 .. Len(Segments)
          PROVE  /\ Segments[i].name.count = i - 1
                 /\ Segments[i].name.key = IF i = 1 THEN 0 ELSE KeysTo(Openings[i]) - 1
      <4>1. i \in 1 .. Len(os) /\ Len(os) = Len(Openings)
        BY <2>2, <3>2 DEF Located, At
      <4>2. os[i].keys = KeysTo(Openings[i])
        BY <2>2, <4>1, HistoryIs DEF At
      <4>3. /\ NamesOf(p.ctx)[i].count = i - 1
            /\ NamesOf(p.ctx)[i].key = IF i = 1 THEN 0 ELSE os[i].keys - 1
        BY <2>2, <4>1 DEF Located
      <4> QED
        BY <3>2, <4>2, <4>3
    <3> QED
      BY <3>3 DEF NamesLocate
  <2>3. \/ p.ctx.segments = <<>>
        \/ \E os : At(os, Openings, read) /\ Located(NamesOf(p.ctx), os)
    BY <1>1, NamesAreLocated, HistoryIs DEF Opens
  <2> QED
    BY <2>1, <2>2, <2>3 DEF Segments
<1>2. Story(p, read) => NamesLocate
  BY <1>1 DEF NamesLocate
<1> QED
  BY <1>2, StoryHolds, PTL

(* The first packet of each stream in a segment continues with the counter *)
(* the segment's name gives, in any run.                                   *)
THEOREM NamesCarryCounters == Spec => []NamesResume
<1>1. ASSUME Story(p, read) PROVE NamesResume
  <2>1. Resumes(p.ctx) /\ p.ctx \in WriterType
    BY <1>1, BaseHolds DEF Base, Parser
  <2>2. ASSUME NEW i \in 1 .. Len(Segments), NEW j \in 1 .. Len(Segments[i].frames),
               \A k \in 1 .. j - 1 : Segments[i].frames[k].pid # Segments[i].frames[j].pid
        PROVE  Segments[i].frames[j].cc % U32 = CASE Segments[i].frames[j].pid = AudioPid -> Segments[i].name.ac
                                                  [] Segments[i].frames[j].pid = VideoPid -> Segments[i].name.vc
    <3>1. PICK s : s = Segments[i]
      OBVIOUS
    <3>2. Resumed(s) /\ s.frames \in Seq(Packet)
      <4>1. i \in 1 .. Len(p.ctx.segments) /\ s = p.ctx.segments[i]
        BY <3>1 DEF Segments
      <4>2. s.frames \in Seq(Packet)
        BY <2>1, <4>1, SegmentType
      <4> QED
        BY <2>1, <4>1, <4>2 DEF Resumes
    <3>3. PICK f : f = s.frames[j]
      OBVIOUS
    <3>4. f.cc % U32 = NamedCounter(s.name, f.pid)
      BY <2>2, <3>1, <3>2, <3>3 DEF Resumed
    <3>5. f.pid \in {AudioPid, VideoPid}
      <4>1. f \in Packet
        BY <3>1, <3>2, <3>3, ElementOfSeq
      <4> QED
        BY <4>1 DEF Packet
    <3>6. AudioPid # VideoPid
      BY DEF AudioPid, VideoPid
    <3> QED
      BY <3>1, <3>3, <3>4, <3>5, <3>6 DEF NamedCounter
  <2> QED
    BY <2>2 DEF NamesResume
<1> QED
  BY <1>1, StoryHolds, PTL

(* A playlist on the disk is that of a run that read the whole file.  It   *)
(* names every segment of the run; the pictures of all that could be       *)
(* created are written, and audio is left only without the last.  Holds    *)
(* for any tags and whatever files could be created.                       *)
THEOREM PublishedOnlyComplete == Spec => []PublishedAllOrNothing
<1>1. ASSUME Story(p, read) PROVE PublishedAllOrNothing
  <2>1. SUFFICES ASSUME p.written # <<>>
                 PROVE  /\ Finished /\ p.ctx.opened = 0
                        /\ \A i \in 1 .. Len(read) : Whole(i)
                        /\ Quantify(1 .. Len(p.written), LAMBDA i : p.written[i].line = "URI")
                             = Len(Openings)
                        /\ FlattenSeq([i \in 1 .. Len(Segments) |-> FramesOf(i, VideoPid)]) = Pictures
                        /\ p.ctx.used > 0 => ~Created(Len(Openings))
    BY DEF PublishedAllOrNothing
  <2>2. ~Unstarted(p) /\ ~Overrun(p, read) /\ \A os : ~Entered(p, os, read)
    BY <2>1 DEF Unstarted, Overrun, Entered, Standing
  <2>3. PICK os : Over(p, os, read)
    BY <1>1, <2>2, StoryIs
  <2>4. Ended(p, os) /\ p.ctx.opened = 0 /\ Len(os) = Len(Openings)
    BY <2>3, HistoryIs DEF Over, Ended, At
  <2>5. Quantify(1 .. Len(p.written), LAMBDA i : p.written[i].line = "URI") = Len(Openings)
    <3>1. Cardinality(NamesIn(p.written)) = Len(os)
      BY <2>1, <2>4 DEF Ended
    <3> QED
      BY <2>4, <3>1 DEF NamesIn, Quantify
  <2>6. Finished /\ (p.ctx.used > 0 => ~Created(Len(Openings)))
    BY <2>1, <2>4 DEF Ended, Finished, Lost, Created
  <2>7. \A i \in 1 .. Len(read) : Whole(i)
    BY <2>3, HistoryIs DEF Over
  <2>8. VideosOf(TracksOf(p.ctx)) = KeptIn(p, read)
    BY <2>3 DEF Over, Film
  <2>9. FlattenSeq([i \in 1 .. Len(Segments) |-> FramesOf(i, VideoPid)]) = VideosOf(TracksOf(p.ctx))
    <3>1. p.ctx \in WriterType
      BY <1>1, BaseHolds DEF Base, Parser
    <3>2. PICK ts : ts = TracksOf(p.ctx)
      OBVIOUS
    <3>3. /\ Len(ts) = Len(Segments)
          /\ \A i \in 1 .. Len(Segments) : ts[i].video = FramesOf(i, VideoPid)
      BY <3>1, <3>2, TracksType DEF Segments, FramesOf
    <3>4. [i \in 1 .. Len(Segments) |-> FramesOf(i, VideoPid)] = [i \in 1 .. Len(ts) |-> ts[i].video]
      BY <3>3
    <3> QED
      BY <3>2, <3>4 DEF VideosOf
  <2>10. Pictures = KeptIn(p, read)
    <3>1. \A i : OpeningsTo(i) = OpenedTo(read, p.segment_num, i)
      BY HistoryIs DEF OpeningsTo, OpenedTo
    <3>2. \A k : Created(k) <=> ~Lost(p, k)
      BY DEF Created, Lost
    <3>3. \A i : (IF read[i].type \in {"key", "inter"} /\ Created(Len(OpeningsTo(i)))
                  THEN <<Picture(read[i])>> ELSE <<>>) = KeptAt(p, read, i)
      BY <3>1, <3>2 DEF KeptAt
    <3> QED
      BY <3>3 DEF Pictures, KeptIn
  <2> QED
    BY <2>4, <2>5, <2>6, <2>7, <2>8, <2>9, <2>10
<1> QED
  BY <1>1, StoryHolds, PTL

-----------------------------------------------------------------------------
(* The playlist of a run whose last segment, opened at os[Len(os)], is     *)
(* open; ds are the durations of the others.                               *)
Listing(q, os, ds, r) ==
  /\ q.status # "finished" /\ q.ts_start_flag = 1
  /\ os \in Seq(Opening) /\ os # <<>> /\ ds \in Seq(Time) /\ Len(ds) = Len(os) - 1
  /\ Located(NamesOf(q.ctx), os) /\ Listed(q.hls_content, NamesOf(q.ctx), ds)
  /\ Spanned(ds, os, q.hls_segment_duration) /\ At(os, OpeningsIn(r, q.segment_num), r)
  /\ Len(os) > 1 => Dated(OpeningsIn(r, q.segment_num), r)

(* That of a run that ended at time t. *)
Publishing(q, os, ds, t, r) ==
  /\ q.status = "finished" /\ q.ts_start_flag = 0
  /\ os \in Seq(Opening) /\ ds \in Seq(Time) /\ Len(ds) = Len(os)
  /\ Located(NamesOf(q.ctx), os) /\ Written(q.written, NamesOf(q.ctx), ds, q.hls_segment_duration)
  /\ Spanned(ds, Append(os, [keys |-> 0, time |-> t]), q.hls_segment_duration)
  /\ At(os, OpeningsIn(r, q.segment_num), r) /\ Dated(OpeningsIn(r, q.segment_num), r)
  /\ os # <<>> => t = TimeIn(r, Len(r))

(* That of a run that could not start: there is only the header. *)
Bare(q) ==
  q.status # "finished" /\ q.ts_start_flag = 0 /\ q.ctx.segments = <<>> /\ q.hls_content = Header

LEMMA PlaylistIs ==
  ASSUME NEW q, NEW r, Story(q, r), HasPlaylist(q), q.refused = {},
         (IF q.status = "finished" THEN q.written ELSE q.hls_content) # <<>>
  PROVE  \/ \E os, ds : Listing(q, os, ds, r)
         \/ \E os, ds : Publishing(q, os, ds, q.hls_end_ts, r)
         \/ Bare(q)
<1>0. Opens(q)
  BY DEF Opens
<1>1. ASSUME NEW os, Entered(q, os, r), q.status # "finished",
             Len(os) > 1 => Dated(OpeningsIn(r, q.segment_num), r)
      PROVE  \E ds : Listing(q, os, ds, r)
  <2>1. Standing(q, os) /\ At(os, OpeningsIn(r, q.segment_num), r)
    BY <1>1 DEF Entered
  <2>2. q.hls_content # <<>>
    BY <1>1
  <2>3. q.flag_first_ts # 0
    BY <2>1, <2>2 DEF Standing, Shut
  <2>4. Books(q, os) /\ os # <<>> /\ q.ts_start_flag = 1
    BY <2>1, <2>3 DEF Standing, Open
  <2>5. PICK ds : /\ ds \in Seq(Time) /\ Len(ds) = Len(os) - 1 /\ Listed(q.hls_content, NamesOf(q.ctx), ds)
                  /\ Spanned(ds, os, q.hls_segment_duration)
    BY <2>4 DEF Books
  <2>6. os \in Seq(Opening) /\ Located(NamesOf(q.ctx), os)
    BY <1>0, <2>4 DEF Books
  <2>7. Listing(q, os, ds, r)
    BY <1>1, <2>1, <2>4, <2>5, <2>6 DEF Listing
  <2> QED
    BY <2>7
<1>2. ASSUME NEW os, Over(q, os, r)
      PROVE  \E ds : Publishing(q, os, ds, q.hls_end_ts, r)
  <2>1. Ended(q, os) /\ os \in Seq(Opening)
    BY <1>2 DEF Over
  <2>2. q.status = "finished" /\ q.ts_start_flag = 0 /\ Located(NamesOf(q.ctx), os)
    BY <1>0, <2>1, EndedOpen DEF Ended
  <2>3. PICK ds : /\ ds \in Seq(Time) /\ Len(ds) = Len(os)
                  /\ Written(q.written, NamesOf(q.ctx), ds, q.hls_segment_duration)
                  /\ Spanned(ds, Append(os, [keys |-> 0, time |-> q.hls_end_ts]), q.hls_segment_duration)
    BY <2>1 DEF Ended
  <2>4. Publishing(q, os, ds, q.hls_end_ts, r)
    BY <1>2, <2>2, <2>3 DEF Publishing, Over
  <2> QED
    BY <2>4
<1>3. ASSUME Unstarted(q) PROVE Bare(q)
  BY <1>3 DEF Unstarted, Bare
<1>4. ~Overrun(q, r)
  BY <1>0, NothingLost DEF Overrun
<1> QED
  BY <1>1, <1>2, <1>3, <1>4, StoryIs

(* The lines of a playlist the properties speak of. *)
LEMMA SegmentsAre ==
  ASSUME Base(p)
  PROVE  /\ Len(Segments) \in Nat /\ Len(NamesOf(p.ctx)) = Len(Segments) /\ Len(Header) = 4
         /\ \A i \in 1 .. Len(Segments) : NamesOf(p.ctx)[i] = Segments[i].name
<1>1. p.ctx \in WriterType
  BY DEF Base, Parser
<1> QED
  BY <1>1, TracksType DEF Segments, Header

(* A playlist names the segments in their order, each with its duration as *)
(* soon as it is closed, for any file, where every file can be created.    *)
THEOREM PlaylistNamesSegments == Spec => []PlaylistListsSegments
<1>1. ASSUME Story(p, read) PROVE PlaylistListsSegments
  <2>1. SUFFICES ASSUME HasPlaylist(p), p.refused = {}, Playlist # <<>>
                 PROVE  /\ \A i \in 1 .. Len(Segments) :
                             /\ Playlist[NameLine(i)] = Uri(Segments[i].name)
                             /\ Complete(i) => Duration(i).line = "EXTINF"
                        /\ Len(Playlist) = IF Finished THEN NameLine(Len(Segments)) + 1
                                                       ELSE NameLine(Len(Segments))
                        /\ Finished => Playlist[NameLine(Len(Segments)) + 1] = Endlist
    BY DEF PlaylistListsSegments
  <2>2. PICK n \in Nat :
          /\ n = Len(Segments) /\ Len(NamesOf(p.ctx)) = n /\ Len(Header) = 4
          /\ \A i \in 1 .. n : NamesOf(p.ctx)[i] = Segments[i].name
    BY <1>1, BaseHolds, SegmentsAre
  <2>3. \A x : Extinf(x).line = "EXTINF"
    BY DEF Extinf
  <2>4. ASSUME NEW os, NEW ds, Listing(p, os, ds, read)
        PROVE  /\ \A i \in 1 .. n : /\ Playlist[NameLine(i)] = Uri(Segments[i].name)
                                    /\ Complete(i) => Duration(i).line = "EXTINF"
               /\ ~Finished /\ Len(Playlist) = NameLine(n)
    <3>1. ~Finished /\ Playlist = p.hls_content /\ p.ts_start_flag # 0
      BY <2>4 DEF Listing, Finished, Playlist
    <3>2. Len(os) = n /\ n # 0 /\ Len(ds) = n - 1
      <4>1. Len(os) = n /\ os \in Seq(Opening) /\ os # <<>> /\ Len(ds) = Len(os) - 1
        BY <2>2, <2>4 DEF Listing, Located
      <4> QED
        BY <4>1
    <3>3. Listed(Playlist, NamesOf(p.ctx), ds)
      BY <2>4, <3>1 DEF Listing
    <3>4. \A i \in 1 .. n : NameLine(i) = IF i < n THEN 4 + 2 * i ELSE 3 + 2 * i
      BY <2>2, <3>1 DEF NameLine, Complete
    <3>5. ASSUME NEW i \in 1 .. n
          PROVE  /\ Playlist[NameLine(i)] = Uri(Segments[i].name)
                 /\ Complete(i) => Duration(i).line = "EXTINF"
      <4>1. Playlist[NameLine(i)] = Uri(Segments[i].name)
        BY <2>2, <3>2, <3>3, <3>4 DEF Listed
      <4>2. ASSUME Complete(i) PROVE Duration(i) = Extinf(ds[i])
        <5>1. i \in 1 .. Len(ds) /\ NameLine(i) - 1 = 3 + 2 * i
          BY <2>2, <3>1, <3>2, <3>4, <4>2 DEF Complete
        <5> QED
          BY <3>3, <5>1 DEF Listed, Duration
      <4> QED
        BY <2>3, <4>1, <4>2
    <3>6. Len(Playlist) = NameLine(n)
      BY <2>2, <3>2, <3>3, <3>4 DEF Listed
    <3> QED
      BY <3>1, <3>5, <3>6
  <2>5. ASSUME NEW os, NEW ds, NEW t, Publishing(p, os, ds, t, read)
        PROVE  /\ \A i \in 1 .. n : /\ Playlist[NameLine(i)] = Uri(Segments[i].name)
                                    /\ Complete(i) => Duration(i).line = "EXTINF"
               /\ Finished /\ Len(Playlist) = NameLine(n) + 1 /\ Playlist[NameLine(n) + 1] = Endlist
    <3>1. Finished /\ Playlist = p.written /\ p.ts_start_flag = 0
      BY <2>5 DEF Publishing, Finished, Playlist
    <3>2. Written(Playlist, NamesOf(p.ctx), ds, p.hls_segment_duration)
      BY <2>5, <3>1 DEF Publishing
    <3>3. \A i \in Nat : Complete(i) /\ NameLine(i) = 4 + 2 * i
      BY <2>2, <3>1 DEF NameLine, Complete
    <3>4. ASSUME NEW i \in 1 .. n
          PROVE  Playlist[NameLine(i)] = Uri(Segments[i].name) /\ Duration(i) = Extinf(ds[i])
      <4>1. NameLine(i) = 4 + 2 * i /\ NameLine(i) - 1 = 3 + 2 * i
        BY <3>3
      <4> QED
        BY <2>2, <3>2, <4>1 DEF Written, Duration
    <3>5. Len(Playlist) = 5 + 2 * n /\ Playlist[Len(Playlist)] = Endlist
      BY <2>2, <3>2 DEF Written
    <3>6. NameLine(n) = 4 + 2 * n
      BY <3>3
    <3> QED
      BY <2>3, <3>1, <3>4, <3>5, <3>6
  <2>6. ASSUME Bare(p)
        PROVE  n = 0 /\ ~Finished /\ Len(Playlist) = NameLine(n)
    <3>1. n = 0 /\ ~Finished /\ Playlist = Header /\ p.ts_start_flag = 0
      BY <2>2, <2>6 DEF Bare, Finished, Playlist, Segments
    <3> QED
      BY <2>2, <3>1 DEF NameLine, Complete
  <2>7. \/ \E os, ds : Listing(p, os, ds, read)
        \/ \E os, ds : Publishing(p, os, ds, p.hls_end_ts, read)
        \/ Bare(p)
    BY <1>1, <2>1, PlaylistIs DEF Playlist, Finished
  <2> QED
    BY <2>2, <2>4, <2>5, <2>6, <2>7
<1> QED
  BY <1>1, StoryHolds, PTL

(* The durations are the distances between the openings, whatever the time *)
(* stamps, and none is longer than the target duration, where every file   *)
(* can be created.                                                         *)
THEOREM DurationsAreRight == Spec => []DurationsRight
<1>1. ASSUME Story(p, read) PROVE DurationsRight
  <2> DEFINE To(i) == IF i < Len(Openings) THEN TimeAt(Openings[i + 1]) ELSE TimeAt(Len(read))
  <2>1. SUFFICES ASSUME HasPlaylist(p), p.refused = {}, Playlist # <<>>,
                        NEW i \in 1 .. Len(Segments), Complete(i)
                 PROVE  /\ Duration(i).value = (To(i) - TimeAt(Openings[i])) % U32
                        /\ Finished => Duration(i).value <= Playlist[3].value * 1000
    BY DEF DurationsRight
  <2>2. PICK n \in Nat :
          /\ n = Len(Segments) /\ Len(NamesOf(p.ctx)) = n /\ Len(Header) = 4
          /\ \A j \in 1 .. n : NamesOf(p.ctx)[j] = Segments[j].name
    BY <1>1, BaseHolds, SegmentsAre
  <2>3. \A x : Extinf(x).value = x
    BY DEF Extinf
  <2>4. Openings = OpeningsIn(read, p.segment_num) /\ \A j : TimeAt(j) = TimeIn(read, j)
    BY HistoryIs
  <2>5. ASSUME NEW os, At(os, Openings, read), Dated(Openings, read), Len(os) = n
        PROVE  Len(Openings) = n /\ \A j \in 1 .. n : os[j].time = TimeAt(Openings[j])
    BY <2>4, <2>5 DEF At, Dated
  <2>6. ASSUME NEW os, NEW ds, Listing(p, os, ds, read)
        PROVE  ~Finished /\ Duration(i).value = (To(i) - TimeAt(Openings[i])) % U32
    <3>1. ~Finished /\ Playlist = p.hls_content /\ p.ts_start_flag # 0
      BY <2>6 DEF Listing, Finished, Playlist
    <3>2. Len(os) = n /\ Len(ds) = n - 1 /\ i < n
      <4>1. Len(os) = n /\ Len(ds) = Len(os) - 1
        BY <2>2, <2>6 DEF Listing, Located
      <4> QED
        BY <2>1, <2>2, <3>1, <4>1 DEF Complete
    <3>3. Dated(Openings, read) /\ At(os, Openings, read)
      BY <2>1, <2>2, <2>4, <2>6, <3>2 DEF Listing
    <3>4. Len(Openings) = n /\ os[i].time = TimeAt(Openings[i]) /\ os[i + 1].time = TimeAt(Openings[i + 1])
      <4>1. Len(Openings) = n /\ \A j \in 1 .. n : os[j].time = TimeAt(Openings[j])
        BY <2>5, <3>2, <3>3
      <4>2. i \in 1 .. n /\ i + 1 \in 1 .. n
        BY <2>1, <2>2, <3>2
      <4> QED
        BY <4>1, <4>2
    <3>5. i \in 1 .. Len(ds) /\ NameLine(i) - 1 = 3 + 2 * i
      BY <2>1, <2>2, <3>2 DEF NameLine
    <3>6. Duration(i) = Extinf(ds[i]) /\ ds[i] = Gap(os, i)
      BY <2>6, <3>1, <3>5 DEF Listing, Listed, Spanned, Duration
    <3> QED
      BY <2>3, <3>1, <3>2, <3>4, <3>6 DEF Gap
  <2>7. ASSUME NEW os, NEW ds, NEW t, Publishing(p, os, ds, t, read)
        PROVE  /\ Duration(i).value = (To(i) - TimeAt(Openings[i])) % U32
               /\ Duration(i).value <= Playlist[3].value * 1000
    <3>1. Playlist = p.written /\ p.ts_start_flag = 0
      BY <2>7 DEF Publishing, Finished, Playlist
    <3>2. Len(os) = n /\ Len(ds) = n /\ os \in Seq(Opening) /\ ds \in Seq(Time)
      BY <2>2, <2>7 DEF Publishing, Located
    <3>3. Dated(Openings, read) /\ At(os, Openings, read)
      BY <2>4, <2>7 DEF Publishing
    <3>4. Len(Openings) = n /\ \A j \in 1 .. n : os[j].time = TimeAt(Openings[j])
      BY <2>5, <3>2, <3>3
    <3>5. i \in 1 .. n /\ i \in 1 .. Len(ds) /\ NameLine(i) - 1 = 3 + 2 * i
      BY <2>1, <2>2, <3>2 DEF NameLine
    <3>6. Duration(i) = Extinf(ds[i])
      BY <2>2, <2>7, <3>1, <3>5 DEF Publishing, Written, Duration
    <3>7. PICK e : e = Append(os, [keys |-> 0, time |-> t])
      OBVIOUS
    <3>8. ds[i] = Gap(e, i) /\ ds[i] <= p.hls_segment_duration
      BY <2>7, <3>5, <3>7 DEF Publishing, Spanned
    <3>9. e[i] = os[i] /\ (i < n => e[i + 1] = os[i + 1]) /\ (i = n => e[i + 1] = [keys |-> 0, time |-> t])
      BY <3>2, <3>5, <3>7
    <3>10. e[i + 1].time = To(i)
      <4>1. CASE i < n
        <5>1. i + 1 \in 1 .. n
          BY <3>5, <4>1
        <5> QED
          BY <3>4, <3>9, <4>1, <5>1
      <4>2. CASE i = n
        <5>1. os # <<>> /\ e[i + 1].time = t
          BY <3>2, <3>5, <3>9, <4>2
        <5>2. t = TimeAt(Len(read))
          BY <2>4, <2>7, <5>1 DEF Publishing
        <5> QED
          BY <3>4, <4>2, <5>1, <5>2
      <4> QED
        BY <3>5, <4>1, <4>2
    <3>11. Duration(i).value = (To(i) - TimeAt(Openings[i])) % U32
      BY <2>3, <3>4, <3>5, <3>6, <3>8, <3>9, <3>10 DEF Gap
    <3>12. Playlist[3].value = (p.hls_segment_duration + 999) \div 1000
      BY <2>7, <3>1 DEF Publishing, Written, Target
    <3>13. ds[i] \in Nat /\ p.hls_segment_duration \in Nat
      <4>1. ds[i] \in Time
        BY <3>2, <3>5, ElementOfSeq
      <4>2. p.hls_segment_duration \in Time
        BY <1>1, BaseHolds DEF Base, Parser
      <4> QED
        BY <4>1, <4>2 DEF Time
    <3>14. \A x \in Nat : x <= ((x + 999) \div 1000) * 1000
      OBVIOUS
    <3>15. ds[i] <= Playlist[3].value * 1000
      BY <3>8, <3>12, <3>13, <3>14
    <3> QED
      BY <2>3, <3>6, <3>11, <3>15
  <2>8. ~Bare(p)
    BY <2>1, <2>2 DEF Bare, Segments
  <2>9. \/ \E os, ds : Listing(p, os, ds, read)
        \/ \E os, ds : Publishing(p, os, ds, p.hls_end_ts, read)
        \/ Bare(p)
    BY <1>1, <2>1, PlaylistIs DEF Playlist, Finished
  <2> QED
    BY <2>6, <2>7, <2>8, <2>9
<1> QED
  BY <1>1, StoryHolds, PTL

-----------------------------------------------------------------------------
(* The run implements SegmentedStream, if the output directory takes files.*)
StateOf(q) == CASE Running(q) -> "open" [] q.status = "finished" -> "complete" [] OTHER -> "incomplete"

ListedBy(q) == Cardinality({i \in 1 .. Len(q.written) : q.written[i].line = "URI"})

LEMMA StreamIs ==
  /\ Tracks = TracksOf(p.ctx) /\ Tracks' = TracksOf(p'.ctx)
  /\ (CASE Running(p) -> "open" [] Finished -> "complete" [] OTHER -> "incomplete") = StateOf(p)
  /\ (CASE Running(p) -> "open" [] Finished -> "complete" [] OTHER -> "incomplete")' = StateOf(p')
BY DEF Tracks, TracksOf, Segments, FramesOf, HeldIn, StateOf, Finished, Running

LEMMA StatesAre ==
  ASSUME NEW q
  PROVE  /\ q.status = "running" => StateOf(q) = "open" /\ Running(q)
         /\ q.status = "finished" => StateOf(q) = "complete" /\ ~Running(q)
         /\ q.status \in {"aborted", "crashed"} => StateOf(q) = "incomplete" /\ ~Running(q)
BY DEF StateOf, Running

(* Nothing is listed before the end. *)
Unlisted(q, d) ==
  Running(q) /\ q.written = <<>> /\ d.written = <<>> /\ d.segment_num = q.segment_num

LEMMA FailSteps ==
  ASSUME Unlisted(p, p'), p'.status \in {"aborted", "crashed"},
         TracksOf(p'.ctx) \in {TracksOf(p.ctx), Append(TracksOf(p.ctx), EmptyTrack)},
         p'.key_frame_count \in {p.key_frame_count, p.key_frame_count + 1}
  PROVE  Stream!Fail
<1>1. StateOf(p) = "open" /\ StateOf(p') = "incomplete"
  BY StatesAre DEF Unlisted, Running
<1>2. p.written = p'.written /\ p'.segment_num = p.segment_num
  BY DEF Unlisted
<1>3. Tracks' \in {Tracks, Append(Tracks, Stream!Empty)}
  BY StreamIs DEF Stream!Empty, EmptyTrack
<1> QED
  BY <1>1, <1>2, <1>3, StreamIs DEF Stream!Fail

LEMMA FirstTrack ==
  ASSUME NEW q, NEW os, Standing(q, os), Opens(q)
  PROVE  /\ TracksOf(q.ctx) \in Seq(Track) /\ (TracksOf(q.ctx) = <<>> <=> q.flag_first_ts = 0)
         /\ q.flag_first_ts \in {0, 1} /\ q.key_frame_count \in Nat /\ q.segment_num \in Nat
         /\ q.flag_first_ts = 1 => q.segment_num > 0
<1>1. /\ q.ctx \in WriterType /\ q.flag_first_ts \in {0, 1} /\ q.key_frame_count \in Nat
      /\ q.segment_num \in Nat
  BY DEF Standing, Base, Parser
<1>2. TracksOf(q.ctx) \in Seq(Track) /\ Len(TracksOf(q.ctx)) = Len(q.ctx.segments)
  BY <1>1, TracksType
<1>3. q.ctx.segments = <<>> <=> q.flag_first_ts = 0
  <2>1. CASE q.flag_first_ts = 0
    BY <2>1 DEF Standing, Shut
  <2>2. CASE q.flag_first_ts = 1
    BY <2>2, OpenedContext DEF WellFormed
  <2> QED
    BY <1>1, <2>1, <2>2
<1>4. q.ctx.segments = <<>> <=> Len(q.ctx.segments) = 0
  BY <1>1 DEF WriterType, SegmentSeq
<1>5. q.flag_first_ts = 1 => q.segment_num > 0
  BY <1>1 DEF Standing
<1> QED
  BY <1>1, <1>2, <1>3, <1>4, <1>5

LEMMA MarkSteps ==
  ASSUME NEW os, Standing(p, os), Opens(p), Unlisted(p, p'), Running(p'),
         p'.key_frame_count = p.key_frame_count + 1, NEW n, n = HeaderCut(p),
         TracksOf(p'.ctx) = Grown(TracksOf(p.ctx), n, EmptyTrack)
  PROVE  Stream!Mark
<1>1. StateOf(p) = "open" /\ StateOf(p') = "open"
  BY StatesAre DEF Unlisted, Running
<1>2. p.written = p'.written /\ p'.segment_num = p.segment_num
  BY DEF Unlisted
<1>3. PICK k \in Nat, m \in Nat : k = p.key_frame_count /\ m = p.segment_num /\ (p.flag_first_ts = 1 => m > 0)
  BY FirstTrack
<1>4. p'.key_frame_count - 1 = k
  BY <1>3
<1>5. (Tracks # <<>> /\ k # 0 /\ m > 0 /\ k % m = 0) <=> n = 1
  <2>1. Tracks # <<>> <=> p.flag_first_ts = 1
    BY FirstTrack, StreamIs
  <2> QED
    BY <1>3, <2>1 DEF HeaderCut, Cut
<1>6. Tracks' = IF Tracks # <<>> /\ k # 0 /\ m > 0 /\ k % m = 0 THEN Append(Tracks, EmptyTrack) ELSE Tracks
  BY <1>5, StreamIs DEF Grown
<1>7. Tracks' = Stream!Opened(Tracks, Tracks # <<>> /\ p.key_frame_count # 0 /\ Stream!Starts(p'.key_frame_count))
  BY <1>2, <1>3, <1>4, <1>6 DEF Stream!Opened, Stream!Starts, Stream!Empty, EmptyTrack
<1> QED
  BY <1>1, <1>2, <1>7, StreamIs DEF Stream!Mark

(* Tracks opened for a first frame, and for a key frame. *)
LEMMA FirstOpened ==
  ASSUME NEW os, Standing(p, os), Opens(p), NEW n, n = 1 - p.flag_first_ts
  PROVE  Stream!Opened(Tracks, Tracks = <<>>) = Grown(TracksOf(p.ctx), n, EmptyTrack)
<1>1. /\ TracksOf(p.ctx) = <<>> <=> p.flag_first_ts = 0
      /\ p.flag_first_ts \in {0, 1}
  BY FirstTrack
<1>2. Tracks = <<>> <=> n = 1
  BY <1>1, StreamIs
<1> QED
  BY <1>2, StreamIs DEF Stream!Opened, Grown, Stream!Empty, EmptyTrack

LEMMA SoundSteps ==
  ASSUME NEW os, Standing(p, os), Opens(p), Unlisted(p, p'), Running(p'),
         p'.key_frame_count = p.key_frame_count, NEW n, n = 1 - p.flag_first_ts, NEW f,
         TracksOf(p'.ctx) = WithAudio(Grown(TracksOf(p.ctx), n, EmptyTrack), f)
  PROVE  Stream!Put(f, "audio", 0)
<1>1. StateOf(p) = "open" /\ StateOf(p') = "open"
  BY StatesAre DEF Unlisted, Running
<1>2. p.written = p'.written /\ p'.segment_num = p.segment_num
  BY DEF Unlisted
<1>3. PICK g : g = Grown(TracksOf(p.ctx), n, EmptyTrack)
  OBVIOUS
<1>4. Stream!Opened(Tracks, Tracks = <<>>) = g
  BY <1>3, FirstOpened
<1>5. Stream!Opened(g, 0 = 1 /\ Stream!Starts(p'.key_frame_count)) = g
  BY DEF Stream!Opened
<1>6. p'.key_frame_count = p.key_frame_count + 0
  BY FirstTrack
<1>7. Tracks' = [g EXCEPT ![Len(g)]["audio"] = Append(@, f)]
  BY <1>3, StreamIs DEF WithAudio
<1> QED
  BY <1>1, <1>2, <1>4, <1>5, <1>6, <1>7, StreamIs DEF Stream!Put

LEMMA PictureSteps ==
  ASSUME NEW os, Standing(p, os), Opens(p), Unlisted(p, p'), Running(p'), p.segment_num # 0,
         NEW t, NEW n, n = 1 - p.flag_first_ts, NEW nn, nn = KeyCut(p, t),
         p'.key_frame_count = (IF t.type = "key" THEN p.key_frame_count + 1 ELSE p.key_frame_count),
         TracksOf(p'.ctx) =
           WithVideo(Grown(Grown(TracksOf(p.ctx), n, EmptyTrack), nn, EmptyTrack), Picture(t))
  PROVE  Stream!Put(Picture(t), "video", Picture(t).key)
<1>1. StateOf(p) = "open" /\ StateOf(p') = "open"
  BY StatesAre DEF Unlisted, Running
<1>2. p.written = p'.written /\ p'.segment_num = p.segment_num
  BY DEF Unlisted
<1>3. PICK g, h : g = Grown(TracksOf(p.ctx), n, EmptyTrack) /\ h = Grown(g, nn, EmptyTrack)
  OBVIOUS
<1>4. Stream!Opened(Tracks, Tracks = <<>>) = g
  BY <1>3, FirstOpened
<1>5. PICK k \in Nat, m \in Nat : k = p.key_frame_count /\ m = p.segment_num /\ m > 0
  BY FirstTrack
<1>6. PICK f, b : f = Picture(t) /\ b = f.key
  OBVIOUS
<1>7. b = (IF t.type = "key" THEN 1 ELSE 0) /\ p'.key_frame_count = k + b
  BY <1>5, <1>6 DEF Picture
<1>8. b = 1 /\ m > 0 /\ (p'.key_frame_count - 1) % m = 0 <=> nn = 1
  <2>1. CASE t.type = "key"
    <3>1. b = 1 /\ p'.key_frame_count - 1 = k
      BY <1>5, <1>7, <2>1
    <3> QED
      BY <1>5, <2>1, <3>1 DEF KeyCut, Cut
  <2>2. CASE t.type # "key"
    BY <1>7, <2>2 DEF KeyCut
  <2> QED
    BY <2>1, <2>2
<1>9. Stream!Opened(g, b = 1 /\ Stream!Starts(p'.key_frame_count)) = h
  BY <1>2, <1>3, <1>5, <1>8 DEF Stream!Opened, Stream!Starts, Grown, Stream!Empty, EmptyTrack
<1>10. Tracks' = [h EXCEPT ![Len(h)]["video"] = Append(@, f)]
  BY <1>3, <1>6, StreamIs DEF WithVideo
<1>11. p'.key_frame_count = p.key_frame_count + b
  BY <1>5, <1>7
<1>12. Stream!Put(f, "video", b)
  BY ZenonT(60), <1>1, <1>2, <1>4, <1>9, <1>10, <1>11, StreamIs DEF Stream!Put
<1> QED
  BY <1>6, <1>12

LEMMA EndSteps ==
  ASSUME NEW os, Standing(p, os), Running(p), p.refused = {}, p' = FinishSegments(p)
  PROVE  Stream!End /\ p'.refused = {}
<1>1. PICK d : d = p'
  OBVIOUS
<1>2. Ended(d, os) /\ Fixed(p, d) /\ Keeps(p.ctx, d.ctx) /\ d.key_frame_count = p.key_frame_count
  BY <1>1, FinishHandled
<1>3. d.refused = {} /\ d.segment_num = p.segment_num /\ TracksOf(d.ctx) = TracksOf(p.ctx)
  BY <1>2 DEF Fixed, Keeps
<1>8. os \in Seq(Opening) /\ Opens(d)
  BY <1>3 DEF Standing, Books, Opens
<1>4. d.status = "finished"
  BY <1>2, <1>3, <1>8, EndedOpen
<1>5. StateOf(p) = "open" /\ StateOf(d) = "complete"
  BY <1>4, StatesAre DEF Running
<1>6. ListedBy(d) \in {0, Len(TracksOf(p.ctx))}
  <2>1. CASE d.written # <<>>
    <3>1. Cardinality(NamesIn(d.written)) = Len(os)
      BY <1>2, <2>1 DEF Ended
    <3>2. d.ctx \in WriterType
      BY <1>2 DEF Ended, Base, Parser
    <3>3. Len(NamesOf(d.ctx)) = Len(TracksOf(d.ctx))
      BY <3>2, TracksType
    <3>4. Len(NamesOf(d.ctx)) = Len(os)
      BY <1>2, <1>8 DEF Ended, Located
    <3> QED
      BY <1>3, <3>1, <3>3, <3>4 DEF ListedBy, NamesIn
  <2>2. CASE d.written = <<>>
    <3>1. {i \in 1 .. Len(d.written) : d.written[i].line = "URI"} = {}
      BY <2>2
    <3> QED
      BY <3>1, FS_EmptySet DEF ListedBy
  <2> QED
    BY <2>1, <2>2
<1>7. Cardinality({i \in 1 .. Len(p.written) : p.written[i].line = "URI"})' = ListedBy(d)
  BY <1>1 DEF ListedBy
<1> QED
  BY <1>1, <1>2, <1>3, <1>5, <1>6, <1>7, StreamIs DEF Stream!End

LEMMA ReadSteps ==
  ASSUME Story(p, read), p.refused = {}, Running(p), Len(read) < MaxTags,
         NEW t \in Tag, p' = HandleTag(p, t)
  PROVE  (Stream!Next \/ UNCHANGED Stream!vars) /\ p'.refused = {}
<1>1. PICK os : Entered(p, os, read) /\ Current(p, read)
  BY RunningIs
<1>2. PICK d : d = p'
  OBVIOUS
<1>3. d = HandleTag(p, t)
  BY <1>2
<1>4. Standing(p, os) /\ Opens(p) /\ p.written = <<>>
  BY <1>1 DEF Entered, Standing, Opens
<1>5. /\ t.type \in {"avcc", "key", "inter", "aac", "other"} /\ t.damage \in {"none", "type", "body"}
      /\ t.damage = "body" => t.type \in {"key", "inter", "aac"}
      /\ t.ts \in Time
  BY TagType
<1>6. /\ p.flag_first_ts \in {0, 1} /\ p.key_frame_count \in Nat /\ p.hls_end_ts \in Time
      /\ p.key_frame_count + 1 < U32
  <2>1. p.flag_first_ts \in {0, 1} /\ p.key_frame_count \in Nat /\ p.hls_end_ts \in Time
    BY <1>4 DEF Standing, Base, Parser
  <2>2. read \in Seq(Tag) /\ MaxTags \in Nat /\ MaxTags < U32 /\ U32 \in Nat
    BY TagAssumption, U32Assumption DEF Story
  <2>3. PICK s : s = Append(read, t)
    OBVIOUS
  <2>4. KeysIn(read, Len(read)) <= Len(read)
    BY <2>2, <2>3, HistoryGrows
  <2>5. p.key_frame_count <= Len(read) /\ Len(read) \in Nat
    BY <1>1, <2>2, <2>4 DEF Current
  <2> QED
    BY <2>1, <2>2, <2>5
<1>7. PICK o : o = [keys |-> p.key_frame_count + 1, time |-> t.ts]
  OBVIOUS
<1>8. p.key_frame_count + 1 \in Nat
  BY <1>6
<1>9. o \in Opening /\ o.keys = p.key_frame_count + 1 /\ o.time = t.ts
  BY <1>5, <1>7, <1>8 DEF Opening
<1>10. ASSUME NEW oo, Standing(d, oo), Fixed(p, d)
       PROVE  Unlisted(p, p') /\ p'.refused = {}
  BY <1>2, <1>4, <1>10 DEF Standing, Fixed, Unlisted
<1>11. CASE t.damage = "type"
  <2>1. d = [p EXCEPT !.status = "aborted"]
    BY <1>3, <1>11 DEF HandleTag, Abort
  <2>2. /\ Standing(d, os) /\ d.status = "aborted" /\ Fixed(p, d) /\ d.ctx = p.ctx
        /\ d.key_frame_count = p.key_frame_count
    BY <1>4, <2>1, StandingEnds
  <2>3. Stream!Fail
    BY <1>2, <1>10, <2>2, FailSteps
  <2> QED
    BY <1>10, <2>2, <2>3 DEF Stream!Next
<1>12. CASE t.damage # "type" /\ t.type \in {"key", "inter", "aac"} /\ p.segment_num = 0
  <2>1. /\ Unstarted(d) /\ Fixed(p, d) /\ TracksOf(d.ctx) = TracksOf(p.ctx)
        /\ d.key_frame_count = p.key_frame_count
    BY <1>3, <1>4, <1>12, MediaCrashes
  <2>2. Unlisted(p, p') /\ p'.refused = {} /\ p'.status = "crashed"
    BY <1>2, <1>4, <2>1 DEF Unstarted, Fixed, Unlisted
  <2>3. Stream!Fail
    BY <1>2, <2>1, <2>2, FailSteps
  <2> QED
    BY <2>2, <2>3 DEF Stream!Next
<1>13. CASE t.damage = "body" /\ p.segment_num # 0
  <2>1. PICK n : n = 1 - p.flag_first_ts
    OBVIOUS
  <2>2. /\ Standing(d, Grown(os, n, o)) /\ Fixed(p, d) /\ d.status = "aborted"
        /\ d.key_frame_count = p.key_frame_count
        /\ Opens(p) => TracksOf(d.ctx) = Grown(TracksOf(p.ctx), n, EmptyTrack)
    BY <1>3, <1>4, <1>9, <1>13, <2>1, DamageHandled
  <2>3. TracksOf(d.ctx) \in {TracksOf(p.ctx), Append(TracksOf(p.ctx), EmptyTrack)}
    BY <1>4, <2>2 DEF Grown
  <2>4. Unlisted(p, p') /\ p'.refused = {}
    BY <1>10, <2>2
  <2>5. Stream!Fail
    BY <1>2, <2>2, <2>3, <2>4, FailSteps
  <2> QED
    BY <2>4, <2>5 DEF Stream!Next
<1>14. CASE t.damage = "none" /\ t.type = "aac" /\ p.segment_num # 0
  <2>1. PICK n : n = 1 - p.flag_first_ts
    OBVIOUS
  <2>2. /\ Standing(d, Grown(os, n, o)) /\ Fixed(p, d) /\ Running(d)
        /\ d.key_frame_count = p.key_frame_count
        /\ Opens(p) => TracksOf(d.ctx) = WithAudio(Grown(TracksOf(p.ctx), n, EmptyTrack), Sound(t))
    BY <1>3, <1>4, <1>9, <1>14, <2>1, SoundStands
  <2>3. Unlisted(p, p') /\ p'.refused = {}
    BY <1>10, <2>2
  <2>4. Stream!Put(Sound(t), "audio", 0)
    BY <1>2, <1>4, <2>1, <2>2, <2>3, SoundSteps
  <2>5. Sound(t) \in {Sound(u) : u \in {x \in Tag : x.type = "aac"}}
    BY <1>14
  <2> QED
    BY <2>3, <2>4, <2>5 DEF Stream!Next
<1>15. CASE t.damage = "none" /\ t.type \in {"key", "inter"} /\ p.segment_num # 0
  <2>1. PICK n, nn : n = 1 - p.flag_first_ts /\ nn = KeyCut(p, t)
    OBVIOUS
  <2>2. /\ Standing(d, Grown(Grown(os, n, o), nn, o)) /\ Fixed(p, d) /\ Running(d)
        /\ d.key_frame_count = IF t.type = "key" THEN p.key_frame_count + 1 ELSE p.key_frame_count
        /\ Opens(p) => TracksOf(d.ctx) =
             WithVideo(Grown(Grown(TracksOf(p.ctx), n, EmptyTrack), nn, EmptyTrack), Picture(t))
    BY <1>3, <1>4, <1>6, <1>9, <1>15, <2>1, PictureStands
  <2>3. Unlisted(p, p') /\ p'.refused = {}
    BY <1>10, <2>2
  <2>4. Stream!Put(Picture(t), "video", Picture(t).key)
    BY <1>2, <1>4, <1>15, <2>1, <2>2, <2>3, PictureSteps
  <2>5. Picture(t) \in {Picture(u) : u \in {x \in Tag : x.type \in {"key", "inter"}}}
    BY <1>15
  <2> QED
    BY <2>3, <2>4, <2>5 DEF Stream!Next
<1>16. CASE t.damage = "none" /\ t.type = "other"
  <2>1. p' = p
    BY <1>16 DEF HandleTag
  <2>2. UNCHANGED Stream!vars
    BY <2>1, StreamIs DEF Stream!vars
  <2> QED
    BY <2>1, <2>2
<1>17. CASE t.damage = "none" /\ t.type = "avcc" /\ (p.flag_first_ts = 1 \/ p.key_frame_count = 0)
  <2>1. PICK n : n = HeaderCut(p)
    OBVIOUS
  <2>2. PICK e : e = [keys |-> p.key_frame_count + 1, time |-> p.hls_end_ts]
    OBVIOUS
  <2>3. e \in Opening /\ e.keys = p.key_frame_count + 1 /\ e.time = p.hls_end_ts
    BY <1>6, <1>8, <2>2 DEF Opening
  <2>4. /\ Standing(d, Grown(os, n, e)) /\ Fixed(p, d) /\ Running(d)
        /\ d.key_frame_count = p.key_frame_count + 1
        /\ Opens(p) => TracksOf(d.ctx) = Grown(TracksOf(p.ctx), n, EmptyTrack)
    BY <1>3, <1>4, <1>6, <1>17, <2>1, <2>3, HeaderHandled
  <2>5. Unlisted(p, p') /\ p'.refused = {}
    BY <1>10, <2>4
  <2>6. Stream!Mark
    BY <1>2, <1>4, <2>1, <2>4, <2>5, MarkSteps
  <2> QED
    BY <2>5, <2>6 DEF Stream!Next
<1>18. CASE t.damage = "none" /\ t.type = "avcc" /\ ~(p.flag_first_ts = 1 \/ p.key_frame_count = 0)
  <2>1. p.flag_first_ts = 0 /\ p.key_frame_count > 0
    BY <1>6, <1>18
  <2>2. /\ Standing(d, os) /\ Fixed(p, d) /\ d.status = "crashed" /\ d.ctx = p.ctx
        /\ d.key_frame_count = p.key_frame_count + 1
    BY <1>3, <1>4, <1>18, <2>1, HeaderCrashes
  <2>3. Unlisted(p, p') /\ p'.refused = {}
    BY <1>10, <2>2
  <2>4. Stream!Fail
    BY <1>2, <2>2, <2>3, FailSteps
  <2> QED
    BY <2>3, <2>4 DEF Stream!Next
<1> QED
  BY <1>5, <1>11, <1>12, <1>13, <1>14, <1>15, <1>16, <1>17, <1>18

LEMMA TrailerSteps ==
  ASSUME Story(p, read), p.refused = {}, Running(p), p' = Abort(p)
  PROVE  Stream!Fail /\ p'.refused = {}
<1>1. PICK os : Standing(p, os)
  BY RunningIs DEF Entered
<1>2. PICK d : d = p'
  OBVIOUS
<1>3. d = [p EXCEPT !.status = "aborted"]
  BY <1>2 DEF Abort
<1>4. /\ Standing(d, os) /\ d.status = "aborted" /\ Fixed(p, d) /\ d.ctx = p.ctx
      /\ d.key_frame_count = p.key_frame_count
  BY <1>1, <1>3, StandingEnds
<1>5. Unlisted(p, p') /\ p'.refused = {}
  BY <1>1, <1>2, <1>4 DEF Standing, Fixed, Unlisted
<1> QED
  BY <1>2, <1>4, <1>5, FailSteps

LEMMA StreamStarts ==
  ASSUME Init, Refusals \subseteq {{}}
  PROVE  Stream!Init /\ p.refused = {}
<1>0. PICK c : c = NewContext(0, 0, 0, 0)
  OBVIOUS
<1>1. PICK options \in Options, n \in SegmentNums, w \in Refusals : p = NewParser(options, 0, n, w, c)
  BY <1>0 DEF Init
<1>2. n \in Nat /\ w = {}
  BY <1>1, TagAssumption
<1>3. c.segments = <<>>
  BY <1>0 DEF NewContext
<1>4. /\ p.segment_num = n /\ p.refused = w /\ p.key_frame_count = 0 /\ p.written = <<>>
      /\ p.status = "running" /\ p.ctx = c
  BY <1>1 DEF NewParser
<1>5. TracksOf(p.ctx) = <<>>
  BY <1>3, <1>4 DEF TracksOf
<1>6. {i \in 1 .. Len(p.written) : p.written[i].line = "URI"} = {}
  BY <1>4
<1>7. Cardinality({i \in 1 .. Len(p.written) : p.written[i].line = "URI"}) = 0
  BY <1>6, FS_EmptySet
<1>8. StateOf(p) = "open"
  BY <1>4, StatesAre
<1> QED
  BY <1>2, <1>4, <1>5, <1>7, <1>8, StreamIs DEF Stream!Init

LEMMA StreamGoesOn ==
  ASSUME Story(p, read), p.refused = {}, [Next]_vars
  PROVE  [Stream!Next]_(Stream!vars) /\ p'.refused = {}
<1>1. CASE UNCHANGED vars
  <2>1. p' = p
    BY <1>1 DEF vars
  <2>2. UNCHANGED Stream!vars
    BY <2>1, StreamIs DEF Stream!vars
  <2> QED
    BY <2>1, <2>2
<1>2. ASSUME NEW types, ReadTag(types)
      PROVE  [Stream!Next]_(Stream!vars) /\ p'.refused = {}
  BY <1>2, ReadSteps DEF ReadTag
<1>3. CASE LoseTrailer
  BY <1>3, TrailerSteps DEF LoseTrailer, Stream!Next
<1>4. CASE EndOfFile
  <2>1. PICK os : Standing(p, os)
    BY <1>4, RunningIs DEF EndOfFile, Entered
  <2> QED
    BY <1>4, <2>1, EndSteps DEF EndOfFile, Stream!Next
<1> QED
  BY <1>1, <1>2, <1>3, <1>4 DEF Next, ReadHeader, ReadPicture, ReadSound, ReadOther

(* Where the output directory takes files, every run is one of             *)
(* SegmentedStream: frames go at once and whole to the open segment, and   *)
(* only a run that got to the end lists its segments, all of them.         *)
THEOREM RunsImplementStream ==
  ASSUME Refusals \subseteq {{}}
  PROVE  Spec => ImplementsStream
<1>1. Init => Stream!Init /\ p.refused = {}
  BY StreamStarts
<1>2. Story(p, read) /\ p.refused = {} /\ [Next]_vars => [Stream!Next]_(Stream!vars) /\ (p.refused = {})'
  BY StreamGoesOn
<1> QED
  BY <1>1, <1>2, StoryHolds, PTL DEF Spec, ImplementsStream, Stream!Spec

(* A run keeps its types, whatever the tags and at whichever of them it    *)
(* ends: times and durations stay within 32 bits, flags are 0 or 1.        *)
THEOREM RunsAreTyped == Spec => [](p \in Parser /\ read \in Seq(Tag))
<1>1. ASSUME Story(p, read) PROVE p \in Parser /\ read \in Seq(Tag)
  BY <1>1, BaseHolds DEF Base, Story
<1> QED
  BY <1>1, StoryHolds, PTL

LEMMA WellFormedFits ==
  ASSUME NEW c, WellFormed(c)
  PROVE  Fit(c)
<1>1. c \in WriterType /\ (c.opened = 1 => c.segments # <<>>)
  BY DEF WellFormed
<1>2. c.segments \in SegmentSeq(Name, Packet)
  BY <1>1 DEF WriterType
<1>3. Packet \subseteq SignedPacket
  BY DEF Packet, SignedPacket
<1>4. c.segments \in SignedSegments
  BY <1>2, <1>3, SegmentsGrow DEF SignedSegments
<1>5. c \in SignedContext
  BY <1>1, <1>4 DEF WriterType, SignedContext
<1> QED
  BY <1>1, <1>5 DEF Fit

(* The name the context c gives. *)
NameFor(c, key, count) ==
  [ key |-> Printed(key), ac |-> Printed(c.audio_cc), vc |-> Printed(c.video_cc),
    base |-> Printed(c.aframe_base), pts |-> Printed(c.aframe_pts), count |-> count % U32 ]

(* One segment ends, if one is open, and the next starts. *)
Reopened(c, key, count, m) ==
  OpenFragment(CloseFragment(c), NameFor(CloseFragment(c), key, count), m, 1)

LEMMA NameIs ==
  ASSUME NEW c, Fit(c), NEW key \in Int, NEW count \in Int
  PROVE  NameFor(c, key, count) \in Name
<1>1. \A x \in Int : Printed(x) \in Nat
  BY U32Assumption DEF Printed
<1>2. count % U32 \in Nat
  BY U32Assumption
<1>3. c.audio_cc \in Int /\ c.video_cc \in Int /\ c.aframe_base \in Int /\ c.aframe_pts \in Int
  BY SignedIs
<1>4. PICK a, b, d, e, f, g : /\ a = Printed(key) /\ b = Printed(c.audio_cc) /\ d = Printed(c.video_cc)
                              /\ e = Printed(c.aframe_base) /\ f = Printed(c.aframe_pts) /\ g = count % U32
  OBVIOUS
<1>5. a \in Nat /\ b \in Nat /\ d \in Nat /\ e \in Nat /\ f \in Nat /\ g \in Nat
  BY <1>1, <1>2, <1>3, <1>4
<1>6. NameFor(c, key, count) = [key |-> a, ac |-> b, vc |-> d, base |-> e, pts |-> f, count |-> g]
  BY <1>4 DEF NameFor
<1> QED
  BY <1>5, <1>6 DEF Name

LEMMA ReopenOpens ==
  ASSUME NEW c, Fit(c), c.opened = 1 \/ c.used = 0, NEW key \in Int, NEW count \in Int, NEW m \in {0, 1}
  PROVE  /\ CloseFragment(c).used = 0
         /\ NameFor(CloseFragment(c), key, count) \in Name
         /\ Reopened(c, key, count, m) = Opened(CloseFragment(c), NameFor(CloseFragment(c), key, count), m)
<1>1. PICK e : e = CloseFragment(c)
  OBVIOUS
<1>2. Fit(e) /\ e.opened = 0
  BY <1>1, CloseFits
<1>3. e.used = 0
  <2>1. CASE c.opened = 1
    BY <1>1, <2>1, CloseFits
  <2>2. CASE c.opened # 1
    BY <1>1, <2>2, SignedIs DEF CloseFragment
  <2> QED
    BY <2>1, <2>2
<1>4. PICK nm : nm = NameFor(e, key, count)
  OBVIOUS
<1>5. nm \in Name
  BY <1>2, <1>4, NameIs
<1>6. PICK o : o = Opened(e, nm, m)
  OBVIOUS
<1>7. o.used = 0
  BY <1>2, <1>3, <1>5, <1>6, OpenedFits DEF OpenedIs
<1>8. OpenFragment(e, nm, m, 1) = FlushAudio(o)
  BY <1>2, <1>6 DEF OpenFragment, Opened
<1>9. FlushAudio(o) = o
  BY <1>7 DEF FlushAudio
<1> QED
  BY <1>1, <1>3, <1>4, <1>5, <1>6, <1>8, <1>9 DEF Reopened

(* What cutting does to the context. *)
CutIs(c, key, count, d) ==
  /\ Fit(d) /\ d.opened = 1
  /\ NameFor(CloseFragment(c), key, count) \in Name
  /\ NamesOf(d) = Append(NamesOf(c), NameFor(CloseFragment(c), key, count))
  /\ Len(d.segments) = Len(CloseFragment(c).segments) + 1
  /\ \A i \in 1 .. Len(CloseFragment(c).segments) : d.segments[i] = CloseFragment(c).segments[i]
  /\ d.segments[Len(d.segments)].name = NameFor(CloseFragment(c), key, count)

LEMMA ReopenedFits ==
  ASSUME NEW c, Fit(c), c.opened = 1 \/ c.used = 0, NEW key \in Int, NEW count \in Int, NEW m \in {0, 1}
  PROVE  CutIs(c, key, count, Reopened(c, key, count, m))
<1>1. PICK e : e = CloseFragment(c)
  OBVIOUS
<1>2. PICK nm : nm = NameFor(e, key, count)
  OBVIOUS
<1>3. PICK o : o = Opened(e, nm, m)
  OBVIOUS
<1>4. Fit(e) /\ NamesOf(e) = NamesOf(c)
  BY <1>1, CloseFits
<1>5. nm \in Name /\ Reopened(c, key, count, m) = o
  BY <1>1, <1>2, <1>3, ReopenOpens
<1>6. OpenedIs(e, nm, m, o)
  BY <1>3, <1>4, <1>5, OpenedFits
<1>7. NamesOf(o) = Append(NamesOf(e), nm)
  BY <1>4, <1>5, <1>6, OpenedNames
<1>8. o.segments[Len(o.segments)].name = nm
  BY <1>6 DEF OpenedIs
<1> QED
  BY <1>1, <1>2, <1>4, <1>5, <1>6, <1>7, <1>8 DEF CutIs, OpenedIs

LEMMA ReopenedBehind ==
  ASSUME NEW c, Fit(c), c.opened = 1, NEW key \in Int, NEW count \in Int,
         NEW pre \in SignedSegments, NEW m0 \in {0, 1}, NEW m \in {0, 1}, NEW m1 \in {0, 1}
  PROVE  Reopened(Behind(pre, m0, c), key, count, m) = Behind(pre, m, Reopened(c, key, count, m1))
<1>1. PICK e : e = CloseFragment(c)
  OBVIOUS
<1>2. PICK nm : nm = NameFor(e, key, count)
  OBVIOUS
<1>3. PICK b : b = Behind(pre, m0, c)
  OBVIOUS
<1>4. PICK f : f = CloseFragment(b)
  OBVIOUS
<1>5. Fit(e) /\ Fit(b) /\ b.opened = 1
  BY <1>1, <1>3, CloseFits, BehindFits
<1>6. f = Behind(pre, m0, e)
  BY <1>1, <1>3, <1>4, CloseBehind
<1>7. /\ f.audio_cc = e.audio_cc /\ f.video_cc = e.video_cc
      /\ f.aframe_base = e.aframe_base /\ f.aframe_pts = e.aframe_pts
  BY <1>5, <1>6, BehindFits
<1>8. NameFor(f, key, count) = nm
  BY <1>2, <1>7 DEF NameFor
<1>9. Reopened(b, key, count, m) = Opened(f, nm, m)
  BY <1>4, <1>5, <1>8, ReopenOpens
<1>10. nm \in Name /\ Reopened(c, key, count, m1) = Opened(e, nm, m1)
  BY <1>1, <1>2, ReopenOpens
<1>11. Opened(f, nm, m) = Behind(pre, m, Opened(e, nm, m1))
  BY <1>5, <1>6, <1>10, OpenedBehind
<1> QED
  BY <1>3, <1>9, <1>10, <1>11

-----------------------------------------------------------------------------
(* Seek runs: the whole run's segments. *)
LEMMA WholeReopens ==
  ASSUME NEW q, Base(q), NEW l, Stands(q, l), Call(q) = l + 1,
         q.refused = {}, q.flag_over = 0, q.hls_segment_num # 0,
         NEW d, d = HlsSegment(q)
  PROVE  \E m \in {0, 1} : d.ctx = Reopened(q.ctx, KeyId(q), q.ts_count, m)
<1>1. q \in Parser /\ Fit(q.ctx)
  BY WellFormedFits DEF Base
<1>2. PICK c : c = CloseFragment(q.ctx)
  OBVIOUS
<1>3. PICK f : f = OpenPlaylist(CloseSegment(q))
  OBVIOUS
<1>4. Ready(q, l, f)
  BY <1>3, SegmentReady
<1>5. f.ctx = c
  <2>1. CASE Shut(q)
    <3>1. CloseSegment(q) = q /\ c = q.ctx
      BY <1>2, <2>1 DEF CloseSegment, Shut, CloseFragment
    <3> QED
      BY <1>1, <1>3, <3>1, PlaylistOpens
  <2>2. CASE Open(q, l)
    <3>1. c \in WriterType
      BY <1>2, <2>2, ContextCloses
    <3>2. q.ts_start_flag = 1 /\ (HasPlaylist(q) => q.hls_content # <<>>)
      BY <2>2 DEF Open, Tallied
    <3>3. PICK x : x = CloseSegment(q)
      OBVIOUS
    <3>4. x \in Parser /\ x.ctx = c
      BY <1>1, <1>2, <3>1, <3>2, <3>3, SegmentCloses
    <3> QED
      BY <1>3, <3>3, <3>4, PlaylistOpens
  <2> QED
    BY <2>1, <2>2 DEF Stands
<1>6. f \in Parser /\ f.hls_segment_num = q.hls_segment_num /\ f.refused = {} /\ f.ts_count = q.ts_count
      /\ f.ts_fragment_id = q.ts_fragment_id
  BY <1>4 DEF Ready, Base, Kept
<1>7. /\ f.key_ID_start = 0 /\ q.key_ID_start = 0 /\ f.hls_segment_num \in Nat \ {0} /\ f.ts_count \in Nat
      /\ f.seek_flag1 = 0
  BY <1>1, <1>6 DEF Parser
<1>8. PICK k, n : k = KeyId(q) /\ n = q.ts_count
  OBVIOUS
<1>9. TsName(f) = NameFor(c, k, n)
  <2>1. KeyId(f) = k
    BY <1>6, <1>7, <1>8 DEF KeyId
  <2>2. Count(f) = n
    <3>1. 0 \div f.hls_segment_num = 0
      BY <1>7
    <3> QED
      BY <1>6, <1>7, <1>8, <3>1 DEF Count
  <2>3. TsName(f) = NameOf(f, KeyId(f), Count(f))
    BY <1>7 DEF TsName
  <2> QED
    BY <1>5, <2>1, <2>2, <2>3 DEF NameOf, NameFor
<1>10. PICK m \in {0, 1} : m = IF HasFiles(f) THEN 0 ELSE 1
  OBVIOUS
<1>11. d = NewSegment(f)
  BY <1>3 DEF HlsSegment
<1>12. d = [ f EXCEPT
           !.hls_content = IF HasPlaylist(f) THEN Append(@, Uri(ListedName(f))) ELSE @,
           !.ctx = OpenFragment(@, TsName(f), IF HasFiles(f) THEN 0 ELSE 1, Takes(f, "segment")),
           !.seek_flag1 = 0,
           !.ts_start_flag = 1 ]
  BY <1>7, <1>11 DEF NewSegment
<1>16. Takes(f, "segment") = 1
  BY <1>6 DEF Takes
<1>13. PICK h, e : /\ h = (IF HasPlaylist(f) THEN Append(f.hls_content, Uri(ListedName(f))) ELSE f.hls_content)
                   /\ e = OpenFragment(c, NameFor(c, k, n), m, 1)
  OBVIOUS
<1>14. d = [f EXCEPT !.hls_content = h, !.ctx = e, !.seek_flag1 = 0, !.ts_start_flag = 1]
  BY <1>5, <1>6, <1>9, <1>10, <1>12, <1>13, <1>16 DEF Parser
<1>15. d.ctx = e
  BY <1>6, <1>14 DEF Parser
<1> QED
  BY <1>2, <1>8, <1>13, <1>15 DEF Reopened

(* At a key frame that cuts. *)
LEMMA KeyReopens ==
  ASSUME NEW q, NEW os, Standing(q, os), q.flag_first_ts = 1, q.refused = {},
         q.key_frame_count % q.segment_num = 0,
         NEW d, d = AtKey(CountKey(q))
  PROVE  \E m \in {0, 1} : d.ctx = Reopened(q.ctx, q.key_frame_count, q.ts_count + 1, m)
<1>1. PICK e : e = CountKey(q)
  OBVIOUS
<1>2. /\ Standing(e, os) /\ Fixed(q, e) /\ e.status = q.status /\ e.ctx = q.ctx
      /\ e.flag_first_ts = 1 /\ e.key_frame_count = q.key_frame_count + 1 /\ e.hls_segment_num = q.hls_segment_num
  BY <1>1, KeyCounts
<1>3. /\ Base(e) /\ e.flag_over = 0 /\ Open(e, Len(os)) /\ e.hls_segment_num = e.segment_num /\ e.segment_num # 0
      /\ e \in Parser
  BY <1>2 DEF Standing, Base
<1>4. q.key_frame_count \in Nat /\ e.ts_count = q.ts_count /\ e.ts_count \in Nat /\ e.key_ID_start = 0
  <2>1. q \in Parser
    BY DEF Standing, Base
  <2>2. q.key_frame_count \in Nat /\ q.ts_count \in Nat /\ e.ts_count = q.ts_count
    BY <1>1, <2>1 DEF Parser, CountKey
  <2> QED
    BY <1>3, <2>2 DEF Parser
<1>5. PICK f : f = [e EXCEPT !.ts_fragment_id = e.key_frame_count, !.ts_count = @ + 1]
  OBVIOUS
<1>6. d = HlsSegment(f)
  <2>1. (e.key_frame_count - 1) % e.hls_segment_num = 0
    <3>1. e.key_frame_count - 1 = q.key_frame_count /\ e.hls_segment_num = q.segment_num
      BY <1>2, <1>3, <1>4 DEF Fixed
    <3> QED
      BY <3>1
  <2> QED
    BY <1>1, <1>3, <1>5, <2>1 DEF AtKey
<1>7. e.ts_count + 1 \in Nat /\ e.key_frame_count \in Nat
  BY <1>2, <1>4
<1>8. f \in Parser
  BY <1>3, <1>5, <1>7 DEF Parser
<1>9. /\ f.ctx = e.ctx /\ f.hls_segment_num = e.hls_segment_num
      /\ f.hls_content = e.hls_content /\ f.hls_file = e.hls_file /\ f.ts_start_flag = e.ts_start_flag
      /\ f.flag_over = e.flag_over /\ f.refused = e.refused
  BY <1>3, <1>5 DEF Parser
<1>10. f.ts_fragment_id = q.key_frame_count + 1 /\ f.ts_count = q.ts_count + 1 /\ Fixed(e, f) /\ f.key_ID_start = 0
  BY <1>2, <1>3, <1>4, <1>5 DEF Parser, Fixed
<1>11. Base(f) /\ Open(f, Len(os))
  BY <1>3, <1>8, <1>9, <1>10, FixedOptions DEF Base, Open, Lost, Tried, Fixed
<1>12. KeyId(f) = q.key_frame_count
  BY <1>4, <1>10 DEF KeyId
<1>13. f.refused = {} /\ f.flag_over = 0 /\ f.hls_segment_num # 0
  BY <1>2, <1>3, <1>9 DEF Fixed
<1>15. Stands(f, Len(os)) /\ Call(f) = Len(os) + 1
  <2>1. os \in Seq(Opening) /\ os # <<>> /\ e.ts_count = Len(os) - 1
    BY <1>2 DEF Standing, Books
  <2>2. Len(os) \in Nat /\ Len(os) # 0
    BY <2>1
  <2>3. f.flag_first_ts = 1 /\ f.flag_over = 0
    BY <1>2, <1>3, <1>5 DEF Parser
  <2> QED
    BY <1>4, <1>10, <1>11, <2>1, <2>2, <2>3 DEF Stands, Call
<1>14. \E m \in {0, 1} : d.ctx = Reopened(f.ctx, KeyId(f), f.ts_count, m)
  BY <1>6, <1>11, <1>13, <1>15, WholeReopens
<1> QED
  BY <1>2, <1>9, <1>10, <1>12, <1>14

(* At the first packet. *)
LEMMA FirstReopens ==
  ASSUME NEW q, NEW os, Standing(q, os), q.flag_first_ts = 0, q.segment_num # 0, q.refused = {},
         NEW t, t.ts \in Time, NEW d, d = FirstPacket(q, t)
  PROVE  d.ctx.video_cc = q.ctx.video_cc
<1>1. /\ Base(q) /\ Shut(q) /\ q.flag_over = 0 /\ q \in Parser
  BY DEF Standing, Base
<1>2. PICK e : e = [q EXCEPT !.hls_start_ts = t.ts, !.hls_segment_num = q.segment_num, !.flag_first_ts = 1]
  OBVIOUS
<1>3. d = HlsSegment(e)
  BY <1>2 DEF FirstPacket
<1>4. e \in Parser
  BY <1>1, <1>2 DEF Parser
<1>5. /\ e.ctx = q.ctx /\ e.hls_segment_num = q.segment_num
      /\ e.hls_content = q.hls_content /\ e.hls_file = q.hls_file /\ e.ts_start_flag = q.ts_start_flag
      /\ e.flag_over = 0 /\ e.refused = {}
  BY <1>1, <1>2 DEF Parser
<1>6. Base(e) /\ Shut(e)
  BY <1>1, <1>4, <1>5 DEF Base, Shut
<1>7. PICK k, n : k = KeyId(e) /\ n = e.ts_count
  OBVIOUS
<1>16. Stands(e, 0) /\ Call(e) = 0 + 1
  <2>1. q.ts_count = 0
    BY DEF Standing
  <2>2. e.flag_first_ts = 1 /\ e.ts_count = 0 /\ e.flag_over = 0
    BY <1>1, <1>2, <2>1 DEF Parser
  <2> QED
    BY <1>6, <2>2 DEF Stands, Call
<1>8. PICK m \in {0, 1} : d.ctx = Reopened(e.ctx, k, n, m)
  BY <1>3, <1>5, <1>6, <1>7, <1>16, WholeReopens
<1>9. k \in Int /\ n \in Int
  BY <1>4, <1>7 DEF Parser, KeyId
<1>10. Fit(e.ctx) /\ e.ctx.opened = 0 /\ e.ctx.used = 0
  BY <1>6, WellFormedFits DEF Base, Shut
<1>11. PICK c, x : c = e.ctx /\ x = CloseFragment(c)
  OBVIOUS
<1>12. Fit(x) /\ x.video_cc = c.video_cc
  BY <1>10, <1>11, CloseFits
<1>13. PICK nm : nm = NameFor(x, k, n)
  OBVIOUS
<1>14. nm \in Name /\ d.ctx = Opened(x, nm, m)
  BY <1>8, <1>9, <1>10, <1>11, <1>13, ReopenOpens
<1>15. d.ctx.video_cc = x.video_cc
  <2>1. OpenedIs(x, nm, m, Opened(x, nm, m))
    BY <1>12, <1>14, OpenedFits
  <2> QED
    BY <1>14, <2>1 DEF OpenedIs
<1> QED
  BY <1>5, <1>11, <1>12, <1>15

-----------------------------------------------------------------------------
(* Seek runs: the run that starts at a segment. *)
SoughtParser ==
  [ b_ts : {1}, b_m3u8 : {0}, key_ID_start : Nat \ {0}, segment_num : Nat \ {0}, refused : {{}},
    ctx : SignedContext, status : {"running", "finished", "aborted", "crashed"},
    flag_first_ts : {0, 1}, hls_start_ts : Time, hls_end_ts : Time, hls_segment_num : Nat,
    key_frame_count : Nat, ts_fragment_id : Nat, ts_count : Nat, hls_segment_duration : Time,
    ts_start_flag : {0, 1}, seek_flag1 : {0, 1}, seek_flag2 : {0, 1}, flag_over : {0, 1},
    hls_file : {0, 1}, hls_content : Seq(Line), written : Seq(Line) ]

(* What the segmenter leaves alone. *)
Alike(s, d) ==
  /\ d.key_ID_start = s.key_ID_start /\ d.segment_num = s.segment_num /\ d.status = s.status
  /\ d.flag_first_ts = s.flag_first_ts /\ d.hls_segment_num = s.hls_segment_num
  /\ d.key_frame_count = s.key_frame_count /\ d.ts_fragment_id = s.ts_fragment_id
  /\ d.ts_count = s.ts_count /\ d.seek_flag2 = s.seek_flag2 /\ d.flag_over = s.flag_over

NameKey(s) == IF s.seek_flag1 = 1 THEN s.ts_fragment_id + s.key_ID_start ELSE KeyId(s)

NameCount(s) == IF s.key_ID_start # 0 /\ s.seek_flag2 = 0 THEN Count(s) - 1 ELSE Count(s)

LEMMA SoughtOptions ==
  ASSUME NEW s \in SoughtParser
  PROVE  /\ ~HasPlaylist(s) /\ HasFiles(s) /\ s.key_ID_start # 0 /\ s.refused = {}
         /\ s.ts_start_flag \in {0, 1} /\ s.ctx \in SignedContext /\ s.key_frame_count \in Nat
         /\ s.flag_first_ts \in {0, 1} /\ s.seek_flag1 \in {0, 1} /\ s.seek_flag2 \in {0, 1}
         /\ s.ts_count \in Nat /\ s.ts_fragment_id \in Nat /\ s.key_ID_start \in Nat
         /\ s.segment_num \in Nat \ {0} /\ s.hls_segment_num \in Nat
BY DEF SoughtParser, HasPlaylist, HasFiles

(* A segment ends, if there is one, and the next starts. *)
LEMMA SoughtFields ==
  ASSUME NEW s \in SoughtParser, NEW c \in SignedContext, NEW v \in {0, 1}
  PROVE  /\ [s EXCEPT !.ctx = c] \in SoughtParser
         /\ [s EXCEPT !.seek_flag1 = v] \in SoughtParser
         /\ [s EXCEPT !.ts_start_flag = v] \in SoughtParser
<1>1. [s EXCEPT !.ctx = c] \in SoughtParser
  BY DEF SoughtParser
<1>2. [s EXCEPT !.seek_flag1 = v] \in SoughtParser
  BY DEF SoughtParser
<1>3. [s EXCEPT !.ts_start_flag = v] \in SoughtParser
  BY DEF SoughtParser
<1> QED
  BY <1>1, <1>2, <1>3

LEMMA SoughtReopens ==
  ASSUME NEW s \in SoughtParser, Fit(s.ctx), s.ts_start_flag = 0 => s.ctx.opened = 0, s.flag_over = 0,
         s.hls_segment_num # 0, s.key_frame_count # 0,
         NEW c \in SignedContext, c = Reopened(s.ctx, NameKey(s), NameCount(s), 0),
         NEW d, d = HlsSegment(s)
  PROVE  d \in SoughtParser /\ Alike(s, d) /\ d.ctx = c /\ d.seek_flag1 = 0 /\ d.ts_start_flag = 1
<1>1. /\ ~HasPlaylist(s) /\ HasFiles(s) /\ s.key_ID_start # 0 /\ s.refused = {}
      /\ s.ts_start_flag \in {0, 1} /\ s.ctx \in SignedContext
  BY SoughtOptions
<1>2. PICK x \in SignedContext : x = CloseFragment(s.ctx)
  BY CloseFits DEF Fit
<1>3. PICK e : e = [s EXCEPT !.ctx = x, !.ts_start_flag = 0]
  OBVIOUS
<1>4. CloseSegment(s) = e
  <2>1. CASE s.ts_start_flag = 0
    <3>1. x = s.ctx
      BY <1>2, <2>1 DEF CloseFragment
    <3>2. e = s
      BY <1>3, <2>1, <3>1 DEF SoughtParser
    <3> QED
      BY <2>1, <3>2 DEF CloseSegment
  <2>2. CASE s.ts_start_flag # 0
    BY <1>1, <1>2, <1>3, <2>2 DEF CloseSegment, SoughtParser
  <2> QED
    BY <2>1, <2>2
<1>5. /\ e.ctx = x /\ e.seek_flag1 = s.seek_flag1 /\ e.seek_flag2 = s.seek_flag2 /\ e.key_ID_start = s.key_ID_start
      /\ e.ts_fragment_id = s.ts_fragment_id /\ e.ts_count = s.ts_count /\ e.hls_segment_num = s.hls_segment_num
      /\ e.key_frame_count = s.key_frame_count /\ e.refused = {} /\ e.b_ts = 1 /\ e.b_m3u8 = 0
  BY <1>3 DEF SoughtParser
<1>6. ~HasPlaylist(e) /\ HasFiles(e)
  BY <1>5 DEF HasPlaylist, HasFiles
<1>7. OpenPlaylist(e) = e
  BY <1>6 DEF OpenPlaylist
<1>8. d = NewSegment(e)
  BY <1>4, <1>7 DEF HlsSegment
<1>9. NameKey(e) = NameKey(s) /\ NameCount(e) = NameCount(s)
  BY <1>5 DEF NameKey, NameCount, KeyId, Count
<1>10. TsName(e) = NameFor(x, NameKey(s), NameCount(s))
  <2>1. TsName(e) = NameOf(e, NameKey(e), NameCount(e))
    BY DEF TsName, NameKey, NameCount
  <2> QED
    BY <1>5, <1>9, <2>1 DEF NameOf, NameFor
<1>11. d = [e EXCEPT !.hls_content = @, !.ctx = OpenFragment(@, TsName(e), 0, 1), !.seek_flag1 = 0, !.ts_start_flag = 1]
  BY <1>5, <1>6, <1>8 DEF NewSegment, Takes
<1>12. c = OpenFragment(x, TsName(e), 0, 1)
  BY <1>2, <1>10 DEF Reopened
<1>13. d = [s EXCEPT !.ctx = c, !.seek_flag1 = 0, !.ts_start_flag = 1]
  <2>1. PICK h : h = s.hls_content
    OBVIOUS
  <2>2. d = [e EXCEPT !.hls_content = h, !.ctx = c, !.seek_flag1 = 0, !.ts_start_flag = 1]
    BY <1>3, <1>5, <1>11, <1>12, <2>1 DEF SoughtParser
  <2>3. e \in SoughtParser
    <3>1. PICK e1 \in SoughtParser : e1 = [s EXCEPT !.ctx = x]
      BY <1>2, SoughtFields
    <3>2. e = [e1 EXCEPT !.ts_start_flag = 0]
      BY <1>3, <3>1 DEF SoughtParser
    <3> QED
      BY <3>2, SoughtFields
  <2>6. e.hls_content = h
    BY <1>3, <2>1 DEF SoughtParser
  <2>7. [e EXCEPT !.hls_content = h] = e
    BY <2>3, <2>6 DEF SoughtParser
  <2>8. [e EXCEPT !.hls_content = h, !.ctx = c, !.seek_flag1 = 0, !.ts_start_flag = 1]
          = [[e EXCEPT !.hls_content = h] EXCEPT !.ctx = c, !.seek_flag1 = 0, !.ts_start_flag = 1]
    BY <2>3 DEF SoughtParser
  <2>4. d = [e EXCEPT !.ctx = c, !.seek_flag1 = 0, !.ts_start_flag = 1]
    BY <2>2, <2>7, <2>8
  <2>5. [[s EXCEPT !.ctx = x, !.ts_start_flag = 0] EXCEPT !.ctx = c, !.seek_flag1 = 0, !.ts_start_flag = 1]
          = [s EXCEPT !.ctx = c, !.seek_flag1 = 0, !.ts_start_flag = 1]
    BY DEF SoughtParser
  <2> QED
    BY <1>3, <2>4, <2>5
<1>14. d \in SoughtParser
  <2>1. PICK d1 \in SoughtParser : d1 = [s EXCEPT !.ctx = c]
    BY SoughtFields
  <2>2. PICK d2 \in SoughtParser : d2 = [d1 EXCEPT !.seek_flag1 = 0]
    BY SoughtFields
  <2>3. d = [d2 EXCEPT !.ts_start_flag = 1]
    BY <1>13, <2>1, <2>2 DEF SoughtParser
  <2> QED
    BY <2>3, SoughtFields
<1>15. Alike(s, d)
  BY <1>13 DEF SoughtParser, Alike
<1>16. d.ctx = c /\ d.seek_flag1 = 0 /\ d.ts_start_flag = 1
  BY <1>13 DEF SoughtParser
<1> QED
  BY <1>14, <1>15, <1>16

(* Before its first key, none is opened. *)
LEMMA SoughtWaits ==
  ASSUME NEW s \in SoughtParser, s.ts_start_flag = 0, s.flag_over = 0, s.key_frame_count = 0
  PROVE  HlsSegment(s) = s
<1>1. ~HasPlaylist(s) /\ s.key_ID_start # 0
  BY SoughtOptions
<1>2. CloseSegment(s) = s
  BY DEF CloseSegment
<1>3. OpenPlaylist(s) = s
  BY <1>1 DEF OpenPlaylist
<1> QED
  BY <1>1, <1>2, <1>3 DEF HlsSegment, NewSegment

(* The end. *)
LEMMA SoughtEnds ==
  ASSUME NEW s \in SoughtParser, Fit(s.ctx), s.ts_start_flag = 0 => s.ctx.opened = 0, Running(s),
         NEW d, d = FinishSegments(s)
  PROVE  d.ctx = CloseFragment(s.ctx) /\ d.status = "finished"
<1>1. ~HasPlaylist(s) /\ s.ts_start_flag \in {0, 1}
  BY SoughtOptions
<1>2. PICK e : e = [s EXCEPT !.flag_over = 1]
  OBVIOUS
<1>3. /\ e \in SoughtParser /\ e.ctx = s.ctx /\ e.ts_start_flag = s.ts_start_flag /\ e.flag_over = 1
      /\ e.status = "running"
  BY <1>2 DEF SoughtParser, Running
<1>4. ~HasPlaylist(e)
  BY <1>3, SoughtOptions
<1>5. PICK x : x = CloseSegment(e)
  OBVIOUS
<1>6. x \in SoughtParser /\ x.ctx = CloseFragment(s.ctx) /\ x.status = "running"
  <2>1. CASE e.ts_start_flag = 0
    <3>1. x = e /\ CloseFragment(s.ctx) = s.ctx
      BY <1>3, <1>5, <2>1 DEF CloseSegment, CloseFragment
    <3> QED
      BY <1>3, <3>1
  <2>2. CASE e.ts_start_flag # 0
    <3>1. PICK c \in SignedContext : c = CloseFragment(s.ctx)
      BY CloseFits DEF Fit
    <3>2. x = [e EXCEPT !.ctx = c, !.ts_start_flag = 0]
      BY <1>3, <1>4, <1>5, <2>2, <3>1 DEF CloseSegment, SoughtParser
    <3>3. x \in SoughtParser
      BY <1>3, <3>2 DEF SoughtParser
    <3>4. x.ctx = c /\ x.status = "running"
      BY <1>3, <3>2 DEF SoughtParser
    <3> QED
      BY <3>1, <3>3, <3>4
  <2> QED
    BY <2>1, <2>2
<1>7. OpenPlaylist(x) = x /\ EndPlaylist(x) = x
  BY <1>6, SoughtOptions DEF OpenPlaylist, EndPlaylist
<1>8. HlsSegment(e) = x
  BY <1>3, <1>5, <1>7 DEF HlsSegment
<1>9. d = [x EXCEPT !.status = "finished"]
  BY <1>2, <1>6, <1>8 DEF FinishSegments, Running
<1>10. d.ctx = x.ctx /\ d.status = "finished"
  BY <1>6, <1>9 DEF SoughtParser
<1> QED
  BY <1>6, <1>10

-----------------------------------------------------------------------------
(* Seek runs: the two contexts.  The names of d are those of c from its    *)
(* f-th segment on.                                                        *)
Follows(c, d, f) ==
  /\ f \in Nat \ {0}
  /\ Len(NamesOf(c)) >= Len(NamesOf(d)) + f - 1
  /\ \A i \in 1 .. Len(NamesOf(d)) :
       /\ NamesOf(d)[i].key = NamesOf(c)[f - 1 + i].key
       /\ NamesOf(d)[i].count = NamesOf(c)[f - 1 + i].count

Placed(c, d, f) == Follows(c, d, f) /\ Len(NamesOf(c)) = Len(NamesOf(d)) + f - 1

(* d is c without the segments before its f-th. *)
Shifted(c, d, f) == \E pre \in SignedSegments, m \in {0, 1} : Len(pre) = f - 1 /\ c = Behind(pre, m, d)

LEMMA SignedNames ==
  ASSUME NEW c, Fit(c)
  PROVE  /\ NamesOf(c) \in Seq(Name) /\ Len(NamesOf(c)) \in Nat /\ Len(NamesOf(c)) = Len(c.segments)
         /\ \A i \in 1 .. Len(c.segments) : NamesOf(c)[i] = c.segments[i].name
<1>1. PICK n \in Nat : n = Len(c.segments)
  BY SignedIs, SignedBasics
<1>2. \A i \in 1 .. n : c.segments[i].name \in Name
  BY <1>1, SignedIs, SignedBasics
<1>3. PICK a : a = NamesOf(c)
  OBVIOUS
<1>4. a = [i \in 1 .. n |-> c.segments[i].name]
  BY <1>1, <1>3 DEF NamesOf
<1>5. a \in [1 .. n -> Name] /\ \A i \in 1 .. n : a[i] = c.segments[i].name
  BY <1>2, <1>4
<1>6. a \in Seq(Name) /\ Len(a) = n
  BY <1>5, FunctionIsSeq
<1> QED
  BY <1>1, <1>3, <1>5, <1>6

(* Both cut, under the same key and number. *)
LEMMA PlacedCuts ==
  ASSUME NEW c, Fit(c), NEW d, Fit(d), NEW f, Placed(c, d, f), NEW key, NEW count,
         NEW cc, CutIs(c, key, count, cc), NEW dd, CutIs(d, key, count, dd)
  PROVE  Placed(cc, dd, f)
<1>1. PICK a, b \in Seq(Name) : a = NamesOf(c) /\ b = NamesOf(d)
  BY SignedNames
<1>2. PICK x, y \in Name : x = NameFor(CloseFragment(c), key, count) /\ y = NameFor(CloseFragment(d), key, count)
  BY DEF CutIs
<1>3. x.key = y.key /\ x.count = y.count
  BY <1>2 DEF NameFor
<1>4. PICK aa, bb : aa = Append(a, x) /\ bb = Append(b, y)
  OBVIOUS
<1>5. NamesOf(cc) = aa /\ NamesOf(dd) = bb
  BY <1>1, <1>2, <1>4 DEF CutIs
<1>6. PICK n \in Nat, k \in Nat \ {0} : n = Len(b) /\ k = f /\ Len(a) = n + k - 1
  BY <1>1 DEF Placed, Follows
<1>7. Len(aa) = n + k - 1 + 1 /\ aa[n + k - 1 + 1] = x /\ \A i \in 1 .. n + k - 1 : aa[i] = a[i]
  BY <1>4, <1>6, Appended
<1>8. Len(bb) = n + 1 /\ bb[n + 1] = y /\ \A i \in 1 .. n : bb[i] = b[i]
  BY <1>4, <1>6, Appended
<1>9. ASSUME NEW i \in 1 .. n + 1
      PROVE  bb[i].key = aa[k - 1 + i].key /\ bb[i].count = aa[k - 1 + i].count
  <2>1. CASE i = n + 1
    <3>1. k - 1 + i = n + k - 1 + 1
      BY <2>1
    <3> QED
      BY <1>3, <1>7, <1>8, <2>1, <3>1
  <2>2. CASE i # n + 1
    <3>1. i \in 1 .. n /\ k - 1 + i \in 1 .. n + k - 1
      BY <2>2
    <3>2. b[i].key = a[k - 1 + i].key /\ b[i].count = a[k - 1 + i].count
      BY <1>1, <1>6, <3>1 DEF Placed, Follows
    <3> QED
      BY <1>7, <1>8, <3>1, <3>2
  <2> QED
    BY <2>1, <2>2
<1>10. Len(aa) = Len(bb) + k - 1
  BY <1>7, <1>8
<1> QED
  BY <1>5, <1>6, <1>8, <1>9, <1>10 DEF Placed, Follows

LEMMA PlacedQuiet ==
  ASSUME NEW c, NEW d, NEW f, Placed(c, d, f), NEW cc, Quiet(c, cc), NEW dd, Quiet(d, dd)
  PROVE  Placed(cc, dd, f)
BY DEF Placed, Follows, Quiet

LEMMA CarriedCuts ==
  ASSUME NEW c, NEW d, Fit(d), d.opened = 1, NEW f, Shifted(c, d, f),
         NEW key \in Int, NEW count \in Int, NEW m \in {0, 1}
  PROVE  Shifted(Reopened(c, key, count, m), Reopened(d, key, count, 0), f)
<1>1. PICK pre \in SignedSegments, m0 \in {0, 1} : Len(pre) = f - 1 /\ c = Behind(pre, m0, d)
  BY DEF Shifted
<1>2. Reopened(c, key, count, m) = Behind(pre, m, Reopened(d, key, count, 0))
  BY <1>1, ReopenedBehind
<1> QED
  BY <1>1, <1>2 DEF Shifted

LEMMA CarriedFrames ==
  ASSUME NEW c, NEW d, Fit(d), NEW f, Shifted(c, d, f)
  PROVE  /\ \A v \in [ts : Nat, size : Nat, key : {0, 1}] : Shifted(VideoEx(c, v), VideoEx(d, v), f)
         /\ \A a \in [ts : Nat, size : Nat] : Shifted(AudioEx(c, a), AudioEx(d, a), f)
         /\ Shifted(CloseFragment(c), CloseFragment(d), f)
<1>1. PICK pre \in SignedSegments, m \in {0, 1} : Len(pre) = f - 1 /\ c = Behind(pre, m, d)
  BY DEF Shifted
<1>2. \A v \in [ts : Nat, size : Nat, key : {0, 1}] : VideoEx(c, v) = Behind(pre, m, VideoEx(d, v))
  BY <1>1, VideoBehind
<1>3. \A a \in [ts : Nat, size : Nat] : AudioEx(c, a) = Behind(pre, m, AudioEx(d, a))
  BY <1>1, AudioBehind
<1>4. CloseFragment(c) = Behind(pre, m, CloseFragment(d))
  BY <1>1, CloseBehind
<1> QED
  BY <1>1, <1>2, <1>3, <1>4 DEF Shifted

-----------------------------------------------------------------------------
(* Seek runs: the two parsers. *)
Matched(c, d, f, x) == Placed(c, d, f) /\ (x = 1 => Shifted(c, d, f))

(* What holds as long as both run. *)
Beside(q, s) ==
  /\ (\E os : Standing(q, os)) /\ Running(q) /\ q.flag_first_ts = 1 /\ q.refused = {}
  /\ s \in SoughtParser /\ Running(s) /\ s.flag_over = 0 /\ Fit(s.ctx)
  /\ s.segment_num = q.segment_num /\ s.key_ID_start % q.segment_num = 0

(* The seek run has opened the segment it started at. *)
Alongside(q, s, f, x) ==
  /\ Beside(q, s)
  /\ s.flag_first_ts = 1 /\ s.ts_start_flag = 1 /\ s.seek_flag1 = 0
  /\ s.hls_segment_num = q.segment_num /\ s.ctx.opened = 1 /\ s.key_frame_count > 0
  /\ q.key_frame_count = s.key_frame_count + s.key_ID_start
  /\ q.ts_count + 1 = s.ts_count + s.key_ID_start \div q.segment_num + s.seek_flag2
  /\ Matched(q.ctx, s.ctx, f, x)

(* It has read that segment's sequence header only: it would open it now. *)
Waiting(q, s, f, x) ==
  /\ Beside(q, s)
  /\ s.flag_first_ts = 0 /\ s.ts_start_flag = 0 /\ s.seek_flag1 = 1 /\ s.seek_flag2 = 1
  /\ s.hls_segment_num = 0 /\ s.ts_count = 0 /\ s.ts_fragment_id = 0 /\ s.key_frame_count = 1
  /\ s.ctx.opened = 0 /\ s.ctx.used = 0 /\ s.ctx.segments = <<>>
  /\ q.key_frame_count = 1 + s.key_ID_start /\ q.ts_count = s.key_ID_start \div q.segment_num
  /\ Matched(q.ctx, Reopened(s.ctx, s.key_ID_start, s.key_ID_start \div q.segment_num, 0), f, x)

LEMMA BesideIs ==
  ASSUME NEW q, NEW s, Beside(q, s)
  PROVE  /\ q \in Parser /\ Fit(q.ctx) /\ WellFormed(q.ctx) /\ q.ctx.opened = 1
         /\ q.segment_num \in Nat \ {0} /\ q.key_frame_count \in Nat /\ q.ts_count \in Nat
         /\ s \in SoughtParser /\ s.key_ID_start \in Nat \ {0} /\ s.key_frame_count \in Nat
         /\ s.ts_count \in Nat /\ s.seek_flag2 \in {0, 1} /\ s.ctx \in SignedContext
         /\ s.key_ID_start \div q.segment_num \in Int
<1>1. PICK os : Standing(q, os)
  BY DEF Beside
<1>2. /\ q \in Parser /\ Fit(q.ctx) /\ WellFormed(q.ctx)
  BY <1>1, WellFormedFits DEF Beside, Standing, Base
<1>3. q.ctx.opened = 1
  BY <1>1, OpenedContext DEF Beside, Opens
<1>4. q.segment_num \in Nat \ {0} /\ q.key_frame_count \in Nat /\ q.ts_count \in Nat
  <2>1. q.segment_num # 0
    BY <1>1 DEF Beside, Standing
  <2> QED
    BY <1>2, <2>1 DEF Parser
<1>5. s \in SoughtParser
  BY DEF Beside
<1>6. /\ s.key_ID_start \in Nat \ {0} /\ s.key_frame_count \in Nat
      /\ s.ts_count \in Nat /\ s.seek_flag2 \in {0, 1} /\ s.ctx \in SignedContext
  BY <1>5 DEF SoughtParser
<1>7. s.key_ID_start \div q.segment_num \in Int
  BY <1>4, <1>6
<1> QED
  BY <1>2, <1>3, <1>4, <1>5, <1>6, <1>7

(* A step of the whole run that leaves it running. *)
Goes(q, d) ==
  /\ (\E os : Standing(d, os)) /\ Running(d) /\ d.flag_first_ts = 1 /\ Fixed(q, d)

LEMMA BesideGoes ==
  ASSUME NEW q, NEW s, Beside(q, s), NEW qq, Goes(q, qq),
         NEW ss, ss \in SoughtParser, ss.status = s.status, ss.flag_over = s.flag_over, Fit(ss.ctx),
         ss.segment_num = s.segment_num, ss.key_ID_start = s.key_ID_start
  PROVE  Beside(qq, ss)
BY DEF Beside, Goes, Fixed, Running

(* The time of the last frame. *)
LEMMA SoughtStamped ==
  ASSUME NEW s \in SoughtParser, NEW ts \in Time, NEW d, d = [s EXCEPT !.hls_end_ts = ts]
  PROVE  /\ d \in SoughtParser /\ Alike(s, d) /\ d.ctx = s.ctx /\ d.seek_flag1 = s.seek_flag1
         /\ d.ts_start_flag = s.ts_start_flag
<1>1. d \in SoughtParser
  BY DEF SoughtParser
<1>2. Alike(s, d)
  BY DEF SoughtParser, Alike
<1>3. d.ctx = s.ctx /\ d.seek_flag1 = s.seek_flag1 /\ d.ts_start_flag = s.ts_start_flag
  BY DEF SoughtParser
<1> QED
  BY <1>1, <1>2, <1>3

LEMMA AlongTime ==
  ASSUME NEW q, NEW s, NEW f, NEW x, Alongside(q, s, f, x), NEW ts \in Time,
         NEW qq, qq = [q EXCEPT !.hls_end_ts = ts], NEW ss, ss = [s EXCEPT !.hls_end_ts = ts]
  PROVE  Alongside(qq, ss, f, x)
<1>1. PICK os : Standing(q, os)
  BY DEF Alongside, Beside
<1>2. /\ Standing(qq, os) /\ Fixed(q, qq) /\ qq.status = q.status /\ qq.ctx = q.ctx
      /\ qq.flag_first_ts = q.flag_first_ts /\ qq.key_frame_count = q.key_frame_count
  BY <1>1, TimeStamped
<1>3. q.flag_first_ts = 1
  BY DEF Alongside, Beside
<1>4. qq.ts_count = q.ts_count
  BY <1>1, <1>2, <1>3 DEF Standing
<1>5. Goes(q, qq)
  BY <1>2, <1>3 DEF Goes, Alongside, Beside, Running
<1>6. /\ ss \in SoughtParser /\ Alike(s, ss) /\ ss.ctx = s.ctx /\ ss.seek_flag1 = s.seek_flag1
      /\ ss.ts_start_flag = s.ts_start_flag
  BY SoughtStamped DEF Alongside, Beside
<1>7. Beside(qq, ss)
  <2>1. Beside(q, s) /\ Fit(s.ctx)
    BY DEF Alongside, Beside
  <2>2. /\ ss.status = s.status /\ ss.flag_over = s.flag_over /\ Fit(ss.ctx)
        /\ ss.segment_num = s.segment_num /\ ss.key_ID_start = s.key_ID_start
    BY <1>6, <2>1 DEF Alike
  <2> QED
    BY <1>5, <1>6, <2>1, <2>2, BesideGoes
<1> QED
  BY <1>2, <1>4, <1>6, <1>7 DEF Alongside, Alike, Fixed

(* A frame for both writers. *)
LEMMA AlongFrame ==
  ASSUME NEW q, NEW s, NEW f, NEW x, Alongside(q, s, f, x),
         NEW c, Receives(q.ctx, c), Quiet(q.ctx, c), NEW d, Fit(d), Quiet(s.ctx, d),
         x = 1 => Shifted(c, d, f),
         NEW qq, qq = [q EXCEPT !.ctx = c], NEW ss, ss = [s EXCEPT !.ctx = d]
  PROVE  Alongside(qq, ss, f, x)
<1>1. PICK os : Standing(q, os)
  BY DEF Alongside, Beside
<1>2. q.flag_first_ts = 1 /\ s \in SoughtParser /\ d \in SignedContext
  BY DEF Alongside, Beside, Fit
<1>12. c.used <= AudioBufferSize
  BY BesideIs DEF Alongside, Receives, Quiet, WellFormed
<1>3. /\ Standing(qq, os) /\ Fixed(q, qq) /\ qq.status = q.status /\ qq.ctx = c
      /\ qq.flag_first_ts = q.flag_first_ts /\ qq.key_frame_count = q.key_frame_count
  BY <1>1, <1>2, <1>12, WriterTakes
<1>4. qq.ts_count = q.ts_count
  BY <1>1, <1>2, <1>3 DEF Standing
<1>5. Goes(q, qq)
  BY <1>2, <1>3 DEF Goes, Alongside, Beside, Running
<1>6. ss \in SoughtParser
  BY <1>2 DEF SoughtParser
<1>7. Alike(s, ss)
  BY <1>2 DEF SoughtParser, Alike
<1>8. ss.ctx = d /\ ss.seek_flag1 = s.seek_flag1 /\ ss.ts_start_flag = s.ts_start_flag
  BY <1>2 DEF SoughtParser
<1>9. Beside(qq, ss)
  <2>1. Beside(q, s)
    BY DEF Alongside
  <2>2. /\ ss.status = s.status /\ ss.flag_over = s.flag_over /\ Fit(ss.ctx)
        /\ ss.segment_num = s.segment_num /\ ss.key_ID_start = s.key_ID_start
    BY <1>7, <1>8 DEF Alike
  <2> QED
    BY <1>5, <1>6, <2>1, <2>2, BesideGoes
<1>10. Placed(c, d, f)
  BY PlacedQuiet DEF Alongside, Matched
<1>11. ss.ctx.opened = 1
  BY <1>8 DEF Alongside, Quiet
<1> QED
  BY <1>3, <1>4, <1>7, <1>8, <1>9, <1>10, <1>11 DEF Alongside, Alike, Fixed, Matched

(* A key frame. *)
LEMMA SoughtCounts ==
  ASSUME NEW s \in SoughtParser, NEW d, d = CountKey(s)
  PROVE  /\ d \in SoughtParser /\ d.ctx = s.ctx /\ d.seek_flag1 = s.seek_flag1 /\ d.seek_flag2 = s.seek_flag2
         /\ d.ts_start_flag = s.ts_start_flag /\ d.status = s.status /\ d.flag_over = s.flag_over
         /\ d.flag_first_ts = s.flag_first_ts /\ d.hls_segment_num = s.hls_segment_num
         /\ d.segment_num = s.segment_num /\ d.key_ID_start = s.key_ID_start
         /\ d.ts_count = s.ts_count /\ d.ts_fragment_id = s.ts_fragment_id
         /\ d.key_frame_count = s.key_frame_count + 1
<1>1. s.key_frame_count + 1 \in Nat
  BY DEF SoughtParser
<1>2. d = [s EXCEPT !.key_frame_count = s.key_frame_count + 1]
  BY DEF CountKey, SoughtParser
<1>3. d \in SoughtParser
  BY <1>1, <1>2 DEF SoughtParser
<1>4. /\ d.ctx = s.ctx /\ d.seek_flag1 = s.seek_flag1 /\ d.seek_flag2 = s.seek_flag2
      /\ d.ts_start_flag = s.ts_start_flag /\ d.status = s.status /\ d.flag_over = s.flag_over
      /\ d.flag_first_ts = s.flag_first_ts /\ d.hls_segment_num = s.hls_segment_num
  BY <1>2 DEF SoughtParser
<1>5. /\ d.segment_num = s.segment_num /\ d.key_ID_start = s.key_ID_start
      /\ d.ts_count = s.ts_count /\ d.ts_fragment_id = s.ts_fragment_id
      /\ d.key_frame_count = s.key_frame_count + 1
  BY <1>2 DEF SoughtParser
<1> QED
  BY <1>3, <1>4, <1>5

(* What a key frame makes of the seek run, apart from its context. *)
Counted(s, d, cut) ==
  /\ d \in SoughtParser /\ d.seek_flag1 = s.seek_flag1 /\ d.seek_flag2 = s.seek_flag2
  /\ d.status = s.status /\ d.flag_over = s.flag_over
  /\ d.flag_first_ts = s.flag_first_ts /\ d.hls_segment_num = s.hls_segment_num
  /\ d.segment_num = s.segment_num /\ d.key_ID_start = s.key_ID_start
  /\ d.key_frame_count = s.key_frame_count + 1
  /\ d.ts_count = s.ts_count + cut

LEMMA SoughtPasses ==
  ASSUME NEW s \in SoughtParser, s.hls_segment_num # 0, s.key_frame_count % s.hls_segment_num # 0,
         NEW d, d = AtKey(CountKey(s))
  PROVE  Counted(s, d, 0) /\ d.ctx = s.ctx /\ d.ts_start_flag = s.ts_start_flag
<1>1. PICK e : e = CountKey(s)
  OBVIOUS
<1>2. /\ e \in SoughtParser /\ e.ctx = s.ctx /\ e.seek_flag1 = s.seek_flag1 /\ e.seek_flag2 = s.seek_flag2
      /\ e.ts_start_flag = s.ts_start_flag /\ e.status = s.status /\ e.flag_over = s.flag_over
      /\ e.flag_first_ts = s.flag_first_ts /\ e.hls_segment_num = s.hls_segment_num
      /\ e.segment_num = s.segment_num /\ e.key_ID_start = s.key_ID_start
      /\ e.ts_count = s.ts_count /\ e.ts_fragment_id = s.ts_fragment_id
      /\ e.key_frame_count = s.key_frame_count + 1
  BY <1>1, SoughtCounts
<1>3. s.key_frame_count \in Nat /\ s.ts_count \in Nat
  BY SoughtOptions
<1>4. e.key_frame_count - 1 = s.key_frame_count
  BY <1>2, <1>3
<1>5. d = e
  BY <1>1, <1>2, <1>4 DEF AtKey
<1>6. e.ts_count = s.ts_count + 0
  BY <1>2, <1>3
<1> QED
  BY <1>2, <1>5, <1>6 DEF Counted

LEMMA SoughtCuts ==
  ASSUME NEW s \in SoughtParser, Fit(s.ctx), s.ts_start_flag = 0 => s.ctx.opened = 0,
         s.ctx.opened = 1 \/ s.ctx.used = 0, s.flag_over = 0, s.seek_flag1 = 0, s.hls_segment_num # 0,
         s.key_frame_count % s.hls_segment_num = 0,
         NEW k, k = s.key_frame_count + s.key_ID_start,
         NEW n, n = s.ts_count + s.key_ID_start \div s.hls_segment_num + s.seek_flag2,
         NEW d, d = AtKey(CountKey(s))
  PROVE  Counted(s, d, 1) /\ d.ctx = Reopened(s.ctx, k, n, 0) /\ d.ts_start_flag = 1
<1>1. PICK e : e = CountKey(s)
  OBVIOUS
<1>2. /\ e \in SoughtParser /\ e.ctx = s.ctx /\ e.seek_flag1 = s.seek_flag1 /\ e.seek_flag2 = s.seek_flag2
      /\ e.ts_start_flag = s.ts_start_flag /\ e.status = s.status /\ e.flag_over = s.flag_over
      /\ e.flag_first_ts = s.flag_first_ts /\ e.hls_segment_num = s.hls_segment_num
      /\ e.segment_num = s.segment_num /\ e.key_ID_start = s.key_ID_start
      /\ e.ts_count = s.ts_count /\ e.ts_fragment_id = s.ts_fragment_id
      /\ e.key_frame_count = s.key_frame_count + 1
  BY <1>1, SoughtCounts
<1>3. /\ s.key_frame_count \in Nat /\ s.ts_count \in Nat /\ s.key_ID_start \in Nat /\ s.seek_flag2 \in {0, 1}
      /\ s.hls_segment_num \in Nat \ {0} /\ s.key_ID_start # 0
  BY SoughtOptions
<1>4. e.key_frame_count - 1 = s.key_frame_count
  BY <1>2, <1>3
<1>5. PICK id, cnt \in Nat : id = s.key_frame_count + 1 /\ cnt = s.ts_count + 1
  BY <1>3
<1>6. PICK g : g = [e EXCEPT !.ts_fragment_id = id, !.ts_count = cnt]
  OBVIOUS
<1>7. d = HlsSegment(g)
  <2>1. d = HlsSegment([e EXCEPT !.ts_fragment_id = e.key_frame_count, !.ts_count = @ + 1])
    BY <1>1, <1>2, <1>3, <1>4 DEF AtKey
  <2>2. [e EXCEPT !.ts_fragment_id = e.key_frame_count, !.ts_count = @ + 1] = g
    BY <1>2, <1>5, <1>6 DEF SoughtParser
  <2> QED
    BY <2>1, <2>2
<1>8. g \in SoughtParser
  <2>1. PICK g1 : g1 = [e EXCEPT !.ts_fragment_id = id]
    OBVIOUS
  <2>2. g1 \in SoughtParser
    BY <1>2, <1>5, <2>1 DEF SoughtParser
  <2>3. g = [g1 EXCEPT !.ts_count = cnt]
    BY <1>2, <1>6, <2>1 DEF SoughtParser
  <2> QED
    BY <1>5, <2>2, <2>3 DEF SoughtParser
<1>9. /\ g.ctx = s.ctx /\ g.seek_flag1 = 0 /\ g.seek_flag2 = s.seek_flag2 /\ g.ts_start_flag = s.ts_start_flag
      /\ g.status = s.status /\ g.flag_over = 0 /\ g.flag_first_ts = s.flag_first_ts
      /\ g.hls_segment_num = s.hls_segment_num /\ g.segment_num = s.segment_num
  BY <1>2, <1>6 DEF SoughtParser
<1>10. /\ g.key_ID_start = s.key_ID_start /\ g.ts_count = cnt /\ g.ts_fragment_id = id /\ g.key_frame_count = id
  BY <1>2, <1>5, <1>6 DEF SoughtParser
<1>11. NameKey(g) = k
  <2>0. PICK v, w \in Nat : v = s.key_frame_count /\ w = s.key_ID_start
    BY <1>3
  <2>1. KeyId(g) = k
    <3>1. g.ts_fragment_id = v + 1 /\ g.key_ID_start = w /\ k = v + w
      BY <1>5, <1>10, <2>0
    <3> QED
      BY <3>1 DEF KeyId
  <2> QED
    BY <1>9, <2>1 DEF NameKey
<1>12. PICK a \in Int : a = s.key_ID_start \div s.hls_segment_num
  BY <1>3
<1>13. NameCount(g) = n
  <2>1. Count(g) = cnt + a
    BY <1>9, <1>10, <1>12 DEF Count
  <2>2. NameCount(g) = IF s.seek_flag2 = 0 THEN cnt + a - 1 ELSE cnt + a
    BY <1>3, <1>9, <1>10, <2>1 DEF NameCount
  <2>3. PICK v \in Nat, e2 \in {0, 1} : v = s.ts_count /\ e2 = s.seek_flag2
    BY <1>3
  <2>4. cnt = v + 1 /\ n = v + a + e2
    BY <1>5, <1>12, <2>3
  <2>5. NameCount(g) = IF e2 = 0 THEN cnt + a - 1 ELSE cnt + a
    BY <2>2, <2>3
  <2> QED
    BY <2>4, <2>5
<1>14. k \in Int /\ n \in Int
  BY <1>3, <1>12
<1>15. PICK c : c = Reopened(s.ctx, k, n, 0)
  OBVIOUS
<1>16. c \in SignedContext
  <2>1. CutIs(s.ctx, k, n, Reopened(s.ctx, k, n, 0))
    BY <1>14, ReopenedFits
  <2> QED
    BY <1>15, <2>1 DEF CutIs, Fit
<1>17. c = Reopened(g.ctx, NameKey(g), NameCount(g), 0)
  BY <1>9, <1>11, <1>13, <1>15
<1>18. g.key_frame_count # 0 /\ g.hls_segment_num # 0 /\ (g.ts_start_flag = 0 => g.ctx.opened = 0) /\ Fit(g.ctx)
  BY <1>3, <1>5, <1>9, <1>10
<1>19. d \in SoughtParser /\ Alike(g, d) /\ d.ctx = c /\ d.seek_flag1 = 0 /\ d.ts_start_flag = 1
  BY <1>7, <1>8, <1>9, <1>16, <1>17, <1>18, SoughtReopens
<1>20. Counted(s, d, 1)
  BY <1>5, <1>9, <1>10, <1>19 DEF Counted, Alike
<1> QED
  BY <1>15, <1>19, <1>20

LEMMA AlongKey ==
  ASSUME NEW q, NEW s, NEW f, NEW x, Alongside(q, s, f, x), q.key_frame_count + 1 < U32,
         NEW qq, qq = AtKey(CountKey(q)), NEW ss, ss = AtKey(CountKey(s))
  PROVE  Alongside(qq, ss, f, x)
<1>1. PICK os : Standing(q, os)
  BY DEF Alongside, Beside
<1>2. /\ q \in Parser /\ Fit(q.ctx) /\ q.ctx.opened = 1
      /\ q.segment_num \in Nat \ {0} /\ q.key_frame_count \in Nat /\ q.ts_count \in Nat
      /\ s \in SoughtParser /\ s.key_ID_start \in Nat \ {0} /\ s.key_frame_count \in Nat
      /\ s.ts_count \in Nat /\ s.seek_flag2 \in {0, 1} /\ s.ctx \in SignedContext
      /\ s.key_ID_start \div q.segment_num \in Int
  BY BesideIs DEF Alongside
<1>3. Beside(q, s) /\ q.flag_first_ts = 1 /\ q.refused = {} /\ Fit(s.ctx) /\ s.flag_over = 0 /\ Running(q)
      /\ s.segment_num = q.segment_num /\ s.key_ID_start % q.segment_num = 0
  BY DEF Alongside, Beside
<1>4. /\ s.flag_first_ts = 1 /\ s.ts_start_flag = 1 /\ s.seek_flag1 = 0
      /\ s.hls_segment_num = q.segment_num /\ s.ctx.opened = 1 /\ s.key_frame_count > 0
      /\ q.key_frame_count = s.key_frame_count + s.key_ID_start
      /\ q.ts_count + 1 = s.ts_count + s.key_ID_start \div q.segment_num + s.seek_flag2
      /\ Placed(q.ctx, s.ctx, f) /\ (x = 1 => Shifted(q.ctx, s.ctx, f))
  BY DEF Alongside, Matched
<1>5. PICK n \in Nat \ {0}, k, j, b, y \in Nat, a \in Int, e \in {0, 1} :
        /\ n = q.segment_num /\ k = s.key_frame_count /\ j = s.key_ID_start /\ b = s.ts_count
        /\ y = q.ts_count /\ a = s.key_ID_start \div q.segment_num /\ e = s.seek_flag2
  BY <1>2
<1>6. (k + j) % n = k % n
  BY <1>3, <1>5, CutsAgree
<1>7. PICK o \in Opening : o.keys = q.key_frame_count + 1 /\ o.time = q.hls_end_ts
  <2>1. q.key_frame_count + 1 \in Nat /\ q.hls_end_ts \in Time
    BY <1>2 DEF Parser
  <2>2. [keys |-> q.key_frame_count + 1, time |-> q.hls_end_ts] \in Opening
    BY <2>1 DEF Opening
  <2> QED
    BY <2>2
<1>8. PICK cut \in {0, 1} : cut = Cut(q)
  BY DEF Cut
<1>9. /\ Standing(qq, Grown(os, cut, o)) /\ Fixed(q, qq) /\ qq.status = q.status
      /\ qq.flag_first_ts = 1 /\ qq.key_frame_count = q.key_frame_count + 1
  BY <1>1, <1>3, <1>7, <1>8, KeyStep
<1>10. Goes(q, qq)
  BY <1>3, <1>9 DEF Goes, Running
<1>11. qq.ts_count = q.ts_count + cut
  <2>1. os \in Seq(Opening)
    BY <1>1 DEF Standing, Books
  <2>2. Len(Grown(os, cut, o)) = Len(os) + cut /\ Len(os) \in Nat
    <3>1. CASE cut = 1
      BY <2>1, <3>1, Appended DEF Grown
    <3>2. CASE cut = 0
      BY <2>1, <3>2 DEF Grown
    <3> QED
      BY <3>1, <3>2
  <2>3. qq.ts_count = Len(Grown(os, cut, o)) - 1 /\ q.ts_count = Len(os) - 1
    BY <1>1, <1>3, <1>9 DEF Standing
  <2> QED
    BY <2>2, <2>3
<1>12. CASE cut = 1
  <2>1. q.key_frame_count % q.segment_num = 0 /\ s.key_frame_count % s.hls_segment_num = 0
    BY <1>4, <1>5, <1>6, <1>8, <1>12 DEF Cut
  <2>2. PICK kk \in Int, nn \in Int : kk = q.key_frame_count /\ nn = q.ts_count + 1
    BY <1>2
  <2>3. PICK m \in {0, 1} : qq.ctx = Reopened(q.ctx, kk, nn, m)
    BY <1>1, <1>3, <2>1, <2>2, KeyReopens
  <2>4. Counted(s, ss, 1) /\ ss.ctx = Reopened(s.ctx, kk, nn, 0) /\ ss.ts_start_flag = 1
    <3>1. kk = s.key_frame_count + s.key_ID_start
      BY <1>4, <2>2
    <3>2. nn = s.ts_count + s.key_ID_start \div s.hls_segment_num + s.seek_flag2
      BY <1>4, <2>2
    <3>3. s.hls_segment_num # 0
      BY <1>2, <1>4
    <3> QED
      BY <1>2, <1>3, <1>4, <2>1, <3>1, <3>2, <3>3, SoughtCuts
  <2>5. CutIs(q.ctx, kk, nn, qq.ctx)
    <3>1. CutIs(q.ctx, kk, nn, Reopened(q.ctx, kk, nn, m))
      BY <1>2, ReopenedFits
    <3> QED
      BY <2>3, <3>1
  <2>6. CutIs(s.ctx, kk, nn, ss.ctx)
    <3>1. CutIs(s.ctx, kk, nn, Reopened(s.ctx, kk, nn, 0))
      BY <1>3, <1>4, ReopenedFits
    <3> QED
      BY <2>4, <3>1
  <2>7. Placed(qq.ctx, ss.ctx, f)
    BY <1>2, <1>3, <1>4, <2>5, <2>6, PlacedCuts
  <2>8. x = 1 => Shifted(qq.ctx, ss.ctx, f)
    <3>1. x = 1 => Shifted(Reopened(q.ctx, kk, nn, m), Reopened(s.ctx, kk, nn, 0), f)
      BY <1>3, <1>4, CarriedCuts
    <3> QED
      BY <2>3, <2>4, <3>1
  <2>9. Fit(ss.ctx) /\ ss.ctx.opened = 1
    BY <2>6 DEF CutIs
  <2>10. Beside(qq, ss)
    BY <1>3, <1>10, <2>4, <2>9, BesideGoes DEF Counted
  <2>11. /\ qq.key_frame_count = ss.key_frame_count + ss.key_ID_start /\ ss.key_frame_count > 0
         /\ qq.ts_count + 1 = ss.ts_count + ss.key_ID_start \div qq.segment_num + ss.seek_flag2
    <3>1. qq.segment_num = n /\ ss.key_ID_start = j /\ ss.seek_flag2 = e /\ ss.key_frame_count = k + 1
          /\ ss.ts_count = b + 1 /\ qq.ts_count = y + 1 /\ j \div n = a /\ qq.key_frame_count = k + j + 1
          /\ y + 1 = b + a + e
      BY <1>4, <1>5, <1>9, <1>11, <1>12, <2>4 DEF Counted, Fixed
    <3> QED
      BY <3>1
  <2>12. ss.flag_first_ts = 1 /\ ss.seek_flag1 = 0 /\ ss.hls_segment_num = qq.segment_num
    BY <1>4, <1>9, <2>4 DEF Counted, Fixed
  <2> QED
    BY <2>4, <2>7, <2>8, <2>9, <2>10, <2>11, <2>12 DEF Alongside, Matched
<1>13. CASE cut = 0
  <2>1. q.key_frame_count % q.segment_num # 0 /\ s.key_frame_count % s.hls_segment_num # 0
    BY <1>4, <1>5, <1>6, <1>8, <1>13 DEF Cut
  <2>2. qq.ctx = q.ctx
    <3>1. qq = CountKey(q)
      BY <1>1, <1>3, <2>1, KeyPasses
    <3> QED
      BY <1>1, <3>1, KeyCounts
  <2>3. Counted(s, ss, 0) /\ ss.ctx = s.ctx /\ ss.ts_start_flag = s.ts_start_flag
    BY <1>2, <1>4, <2>1, SoughtPasses
  <2>4. Beside(qq, ss)
    BY <1>3, <1>10, <2>3, BesideGoes DEF Counted
  <2>5. /\ qq.key_frame_count = ss.key_frame_count + ss.key_ID_start /\ ss.key_frame_count > 0
         /\ qq.ts_count + 1 = ss.ts_count + ss.key_ID_start \div qq.segment_num + ss.seek_flag2
    <3>1. qq.segment_num = n /\ ss.key_ID_start = j /\ ss.seek_flag2 = e /\ ss.key_frame_count = k + 1
          /\ ss.ts_count = b + 0 /\ qq.ts_count = y + 0 /\ j \div n = a /\ qq.key_frame_count = k + j + 1
          /\ y + 1 = b + a + e
      BY <1>4, <1>5, <1>9, <1>11, <1>13, <2>3 DEF Counted, Fixed
    <3> QED
      BY <3>1
  <2>6. ss.flag_first_ts = 1 /\ ss.seek_flag1 = 0 /\ ss.hls_segment_num = qq.segment_num
    BY <1>4, <1>9, <2>3 DEF Counted, Fixed
  <2> QED
    BY <1>4, <2>2, <2>3, <2>4, <2>5, <2>6 DEF Alongside, Matched
<1> QED
  BY <1>12, <1>13

(* An open segment takes audio before its buffer runs over. *)
LEMMA AudioBounded ==
  ASSUME NEW c, Fit(c), c.opened = 1, NEW a \in [ts : Nat, size : Nat],
         a.size >= 7, a.size <= AudioBufferSize - 7
  PROVE  ~(AudioEx(c, a).used > AudioBufferSize)
<1>1. PICK u : u = UpdateFragment(c, Ticks(a.ts), 2)
  OBVIOUS
<1>2. Fit(u) /\ u.opened = 1
  BY <1>1, UpdateFits DEF Quiet
<1>3. PICK r : r = MakeRoom(u, a)
  OBVIOUS
<1>4. PICK n \in Nat, k \in Nat : n = a.size /\ k = AudioBufferSize /\ n >= 7 /\ n + 7 <= k
  BY ConfAssumption
<1>5. Fit(r) /\ r.used \in Nat /\ u.used \in Nat /\ r \in SignedContext
  BY <1>2, <1>3, RoomFits, SignedIs
<1>6. r.used + n <= k
  <2>1. CASE u.used + n > k
    <3>1. r.used = 0
      BY <1>2, <1>3, <1>4, <2>1, FlushFits DEF MakeRoom
    <3> QED
      BY <1>4, <3>1
  <2>2. CASE ~(u.used + n > k)
    <3>1. r = u
      BY <1>3, <1>4, <2>2 DEF MakeRoom
    <3> QED
      BY <1>4, <1>5, <2>2, <3>1
  <2> QED
    BY <2>1, <2>2
<1>7. ~(n > k) /\ ~(r.used + 7 > k)
  BY <1>4, <1>5, <1>6
<1>8. AudioEx(c, a) = AppendAudio(r, a)
  BY <1>1, <1>3, <1>4, <1>7 DEF AudioEx
<1>9. Buffer(r, a).used = r.used + n /\ Buffer(r, a) = [r EXCEPT !.used = r.used + n, !.held = Append(@, a)]
  BY <1>4, <1>5 DEF Buffer, SignedContext
<1>10. AppendAudio(r, a).used = Buffer(r, a).used
  BY <1>5, <1>9 DEF AppendAudio, SignedContext
<1> QED
  BY <1>4, <1>5, <1>6, <1>8, <1>9, <1>10

(* The two runs read on. *)
LEMMA AlongSound ==
  ASSUME NEW q, NEW s, NEW f, NEW x, Alongside(q, s, f, x), NEW t \in Tag, t.type = "aac", t.damage = "none",
         NEW qq, qq = HandleTag(q, t), NEW ss, ss = HandleTag(s, t)
  PROVE  Alongside(qq, ss, f, x)
<1>1. /\ t.ts \in Time /\ Sound(t) \in [ts : Nat, size : Nat]
      /\ Sound(t).size >= 7 /\ Sound(t).size <= AudioBufferSize - 7
  BY TagType
<1>2. PICK a \in [ts : Nat, size : Nat] : a = Sound(t)
  BY <1>1
<1>3. /\ q.flag_first_ts = 1 /\ Running(q) /\ s.flag_first_ts = 1 /\ Running(s) /\ s \in SoughtParser /\ q \in Parser
  BY BesideIs DEF Alongside, Beside
<1>4. PICK q1, s1 : q1 = [q EXCEPT !.hls_end_ts = t.ts] /\ s1 = [s EXCEPT !.hls_end_ts = t.ts]
  OBVIOUS
<1>5. Alongside(q1, s1, f, x)
  BY <1>1, <1>4, AlongTime
<1>6. /\ WellFormed(q1.ctx) /\ Fit(q1.ctx) /\ Fit(s1.ctx) /\ Beside(q1, s1)
      /\ q1.ctx.opened = 1 /\ s1.ctx.opened = 1
  BY <1>5, BesideIs DEF Alongside, Beside
<1>7. PICK c, d : c = AudioEx(q1.ctx, a) /\ d = AudioEx(s1.ctx, a)
  OBVIOUS
<1>13. ~(c.used > AudioBufferSize) /\ ~(d.used > AudioBufferSize)
  BY <1>1, <1>2, <1>6, <1>7, AudioBounded
<1>8. Receives(q1.ctx, c)
  BY <1>1, <1>2, <1>6, <1>7, AudioTaken
<1>9. Quiet(q1.ctx, c) /\ Fit(d) /\ Quiet(s1.ctx, d)
  <2>1. Fit(AudioEx(q1.ctx, a)) /\ Quiet(q1.ctx, AudioEx(q1.ctx, a))
    BY <1>6, AudioFits
  <2>2. Fit(AudioEx(s1.ctx, a)) /\ Quiet(s1.ctx, AudioEx(s1.ctx, a))
    BY <1>6, AudioFits
  <2> QED
    BY <1>7, <2>1, <2>2
<1>10. x = 1 => Shifted(c, d, f)
  BY <1>5, <1>6, <1>7, CarriedFrames DEF Alongside, Matched
<1>11. qq = [q1 EXCEPT !.ctx = c]
  <2>1. HandleTag(q, t) = OnSound(q, t)
    BY DEF HandleTag
  <2>2. q1.ctx = q.ctx
    BY <1>3, <1>4 DEF Parser
  <2>3. [q EXCEPT !.hls_end_ts = t.ts, !.ctx = AudioEx(@, a)] = [q1 EXCEPT !.ctx = c]
    BY <1>3, <1>4, <1>7, <2>2 DEF Parser
  <2>4. [q1 EXCEPT !.ctx = c].ctx = c
    BY <1>3, <1>4 DEF Parser
  <2> QED
    BY <1>2, <1>3, <1>13, <2>1, <2>3, <2>4 DEF OnSound, FirstPacket, Sound
<1>12. ss = [s1 EXCEPT !.ctx = d]
  <2>1. HandleTag(s, t) = OnSound(s, t)
    BY DEF HandleTag
  <2>2. s1.ctx = s.ctx
    BY <1>3, <1>4 DEF SoughtParser
  <2>3. [s EXCEPT !.hls_end_ts = t.ts, !.ctx = AudioEx(@, a)] = [s1 EXCEPT !.ctx = d]
    BY <1>3, <1>4, <1>7, <2>2 DEF SoughtParser
  <2>4. [s1 EXCEPT !.ctx = d].ctx = d
    BY <1>3, <1>4 DEF SoughtParser
  <2> QED
    BY <1>2, <1>3, <1>13, <2>1, <2>3, <2>4 DEF OnSound, FirstPacket, Sound
<1> QED
  BY <1>5, <1>8, <1>9, <1>10, <1>11, <1>12, AlongFrame

(* A picture for both writers. *)
LEMMA AlongVideo ==
  ASSUME NEW q, NEW s, NEW f, NEW x, Alongside(q, s, f, x),
         NEW v \in [ts : Nat, size : Nat, key : {0, 1}], v.size + 6 <= VideoBufferSize,
         NEW qq, qq = [q EXCEPT !.ctx = VideoEx(@, v)], NEW ss, ss = [s EXCEPT !.ctx = VideoEx(@, v)]
  PROVE  Alongside(qq, ss, f, x)
<1>1. WellFormed(q.ctx) /\ Fit(q.ctx) /\ Fit(s.ctx) /\ Beside(q, s) /\ s \in SoughtParser /\ q \in Parser
  BY BesideIs DEF Alongside, Beside
<1>2. PICK c, d : c = VideoEx(q.ctx, v) /\ d = VideoEx(s.ctx, v)
  OBVIOUS
<1>3. Receives(q.ctx, c)
  BY <1>1, <1>2, VideoTaken
<1>4. Quiet(q.ctx, c) /\ Fit(d) /\ Quiet(s.ctx, d)
  <2>1. Fit(VideoEx(q.ctx, v)) /\ Quiet(q.ctx, VideoEx(q.ctx, v))
    BY <1>1, VideoFits
  <2>2. Fit(VideoEx(s.ctx, v)) /\ Quiet(s.ctx, VideoEx(s.ctx, v))
    BY <1>1, VideoFits
  <2> QED
    BY <1>2, <2>1, <2>2
<1>5. x = 1 => Shifted(c, d, f)
  BY <1>1, <1>2, CarriedFrames DEF Alongside, Matched
<1>6. qq = [q EXCEPT !.ctx = c] /\ ss = [s EXCEPT !.ctx = d]
  BY <1>1, <1>2 DEF Parser, SoughtParser
<1> QED
  BY <1>3, <1>4, <1>5, <1>6, AlongFrame

LEMMA AlongPicture ==
  ASSUME NEW q, NEW s, NEW f, NEW x, Alongside(q, s, f, x), q.key_frame_count + 1 < U32,
         NEW t \in Tag, t.type \in {"key", "inter"}, t.damage = "none",
         NEW qq, qq = HandleTag(q, t), NEW ss, ss = HandleTag(s, t)
  PROVE  Alongside(qq, ss, f, x)
<1>1. /\ t.ts \in Time /\ Picture(t) \in [ts : Nat, size : Nat, key : {0, 1}]
      /\ Picture(t).size + 6 <= VideoBufferSize
  BY TagType
<1>2. PICK v \in [ts : Nat, size : Nat, key : {0, 1}] : v = Picture(t)
  BY <1>1
<1>3. /\ q.flag_first_ts = 1 /\ Running(q) /\ s.flag_first_ts = 1 /\ Running(s) /\ q \in Parser
  BY BesideIs DEF Alongside, Beside
<1>4. PICK q1, s1 : q1 = [q EXCEPT !.hls_end_ts = t.ts] /\ s1 = [s EXCEPT !.hls_end_ts = t.ts]
  OBVIOUS
<1>5. Alongside(q1, s1, f, x) /\ q1.key_frame_count = q.key_frame_count
  BY <1>1, <1>3, <1>4, AlongTime DEF Parser
<1>6. PICK q2, s2 : /\ q2 = (IF t.type = "key" THEN AtKey(CountKey(q1)) ELSE q1)
                    /\ s2 = (IF t.type = "key" THEN AtKey(CountKey(s1)) ELSE s1)
  OBVIOUS
<1>7. Alongside(q2, s2, f, x)
  BY <1>5, <1>6, AlongKey
<1>8. Running(q2) /\ Running(s2)
  BY <1>7 DEF Alongside, Beside
<1>9. qq = [q2 EXCEPT !.ctx = VideoEx(@, v)]
  <2>1. HandleTag(q, t) = OnPicture(q, t)
    BY DEF HandleTag
  <2> QED
    BY <1>2, <1>3, <1>4, <1>6, <1>8, <2>1 DEF OnPicture, FirstPacket, Picture
<1>10. ss = [s2 EXCEPT !.ctx = VideoEx(@, v)]
  <2>1. HandleTag(s, t) = OnPicture(s, t)
    BY DEF HandleTag
  <2> QED
    BY <1>2, <1>3, <1>4, <1>6, <1>8, <2>1 DEF OnPicture, FirstPacket, Picture
<1> QED
  BY <1>1, <1>2, <1>7, <1>9, <1>10, AlongVideo

LEMMA AlongHeader ==
  ASSUME NEW q, NEW s, NEW f, NEW x, Alongside(q, s, f, x), q.key_frame_count + 1 < U32,
         NEW t \in Tag, t.type = "avcc", t.damage = "none",
         NEW qq, qq = HandleTag(q, t), NEW ss, ss = HandleTag(s, t)
  PROVE  Alongside(qq, ss, f, x)
<1>1. PICK os : Standing(q, os)
  BY DEF Alongside, Beside
<1>2. /\ s \in SoughtParser /\ s.key_frame_count \in Nat /\ s.key_ID_start \in Nat /\ s.key_frame_count > 0
      /\ q.key_frame_count = s.key_frame_count + s.key_ID_start
  BY BesideIs DEF Alongside
<1>3. q.key_frame_count > 0
  BY <1>2
<1>4. qq = AtKey(CountKey(q))
  BY <1>1, <1>3, HeaderCounts
<1>5. CountKey(s).key_frame_count > 1 /\ s.key_frame_count # 0
  <2>1. CountKey(s).key_frame_count = s.key_frame_count + 1
    BY <1>2, SoughtCounts
  <2> QED
    BY <1>2, <2>1
<1>6. ss = AtKey(CountKey(s))
  BY <1>5 DEF HandleTag, OnSequenceHeader
<1> QED
  BY <1>4, <1>6, AlongKey

LEMMA AlongTag ==
  ASSUME NEW q, NEW s, NEW f, NEW x, Alongside(q, s, f, x), q.key_frame_count + 1 < U32,
         NEW t \in Tag, t.damage = "none"
  PROVE  Alongside(HandleTag(q, t), HandleTag(s, t), f, x)
<1>1. t.type \in {"avcc", "key", "inter", "aac", "other"}
  BY TagType
<1>2. CASE t.type = "other"
  <2>1. HandleTag(q, t) = q /\ HandleTag(s, t) = s
    BY <1>2 DEF HandleTag
  <2> QED
    BY <2>1
<1> QED
  BY <1>1, <1>2, AlongSound, AlongPicture, AlongHeader

(* The first packet is seen. *)
Begins(s, d) ==
  /\ d \in SoughtParser /\ d.ctx = s.ctx /\ d.status = s.status /\ d.flag_over = s.flag_over
  /\ d.key_ID_start = s.key_ID_start /\ d.segment_num = s.segment_num /\ d.flag_first_ts = 1
  /\ d.ts_start_flag = s.ts_start_flag /\ d.seek_flag1 = s.seek_flag1 /\ d.seek_flag2 = s.seek_flag2
  /\ d.hls_segment_num = s.segment_num /\ d.ts_count = s.ts_count
  /\ d.ts_fragment_id = s.ts_fragment_id /\ d.key_frame_count = s.key_frame_count

LEMMA SoughtBegins ==
  ASSUME NEW s \in SoughtParser, NEW ts \in Time,
         NEW d, d = [s EXCEPT !.hls_start_ts = ts, !.hls_segment_num = s.segment_num, !.flag_first_ts = 1]
  PROVE  Begins(s, d)
<1>1. PICK n \in Nat : n = s.segment_num
  BY DEF SoughtParser
<1>2. PICK h : h = [s EXCEPT !.hls_start_ts = ts]
  OBVIOUS
<1>3. h \in SoughtParser
  BY <1>2 DEF SoughtParser
<1>4. PICK e : e = [h EXCEPT !.hls_segment_num = n]
  OBVIOUS
<1>5. e \in SoughtParser
  BY <1>3, <1>4 DEF SoughtParser
<1>6. d = [e EXCEPT !.flag_first_ts = 1]
  BY <1>1, <1>2, <1>4 DEF SoughtParser
<1>7. d \in SoughtParser
  BY <1>5, <1>6 DEF SoughtParser
<1>8. /\ d.ctx = s.ctx /\ d.status = s.status /\ d.flag_over = s.flag_over
      /\ d.key_ID_start = s.key_ID_start /\ d.segment_num = s.segment_num /\ d.flag_first_ts = 1
      /\ d.ts_start_flag = s.ts_start_flag
  BY DEF SoughtParser
<1>9. /\ d.seek_flag1 = s.seek_flag1 /\ d.seek_flag2 = s.seek_flag2
      /\ d.hls_segment_num = s.segment_num /\ d.ts_count = s.ts_count
      /\ d.ts_fragment_id = s.ts_fragment_id /\ d.key_frame_count = s.key_frame_count
  BY DEF SoughtParser
<1> QED
  BY <1>7, <1>8, <1>9 DEF Begins

(* The first packet after the sequence header opens the segment. *)
LEMMA WaitOpens ==
  ASSUME NEW q, NEW s, NEW f, NEW x, Waiting(q, s, f, x), NEW t, t.ts \in Time,
         NEW d, d = FirstPacket(s, t)
  PROVE  Alongside(q, d, f, x)
<1>1. Beside(q, s) /\ s \in SoughtParser /\ Fit(s.ctx) /\ s.flag_over = 0 /\ Running(s)
      /\ s.segment_num = q.segment_num
  BY DEF Waiting, Beside
<1>2. /\ q.segment_num \in Nat \ {0} /\ s.key_ID_start \in Nat \ {0} /\ s.ctx \in SignedContext
      /\ s.key_ID_start \div q.segment_num \in Int
      /\ q.ts_count \in Nat
  BY <1>1, BesideIs
<1>3. /\ s.flag_first_ts = 0 /\ s.ts_start_flag = 0 /\ s.seek_flag1 = 1 /\ s.seek_flag2 = 1
      /\ s.hls_segment_num = 0 /\ s.ts_count = 0 /\ s.ts_fragment_id = 0 /\ s.key_frame_count = 1
      /\ s.ctx.opened = 0 /\ s.ctx.used = 0
      /\ q.key_frame_count = 1 + s.key_ID_start /\ q.ts_count = s.key_ID_start \div q.segment_num
  BY DEF Waiting
<1>4. PICK g : g = [s EXCEPT !.hls_start_ts = t.ts, !.hls_segment_num = s.segment_num, !.flag_first_ts = 1]
  OBVIOUS
<1>5. d = HlsSegment(g)
  BY <1>3, <1>4 DEF FirstPacket
<1>6. Begins(s, g)
  BY <1>1, <1>4, SoughtBegins
<1>7. g \in SoughtParser
  BY <1>6 DEF Begins
<1>8. /\ g.ctx = s.ctx /\ g.seek_flag1 = 1 /\ g.seek_flag2 = 1 /\ g.ts_start_flag = 0
      /\ g.status = s.status /\ g.flag_over = 0 /\ g.flag_first_ts = 1
      /\ g.hls_segment_num = s.segment_num /\ g.segment_num = s.segment_num
  BY <1>1, <1>3, <1>6 DEF Begins
<1>9. /\ g.key_ID_start = s.key_ID_start /\ g.ts_count = 0 /\ g.ts_fragment_id = 0 /\ g.key_frame_count = 1
  BY <1>3, <1>6 DEF Begins
<1>10. PICK k \in Nat \ {0}, n \in Int : k = s.key_ID_start /\ n = s.key_ID_start \div q.segment_num
  BY <1>2
<1>11. NameKey(g) = k /\ NameCount(g) = n
  <2>1. NameKey(g) = 0 + k
    BY <1>8, <1>9, <1>10 DEF NameKey
  <2>2. NameCount(g) = 0 + n
    BY <1>1, <1>8, <1>9, <1>10 DEF NameCount, Count
  <2> QED
    BY <2>1, <2>2
<1>12. PICK c : c = Reopened(s.ctx, k, n, 0)
  OBVIOUS
<1>13. Fit(c) /\ c.opened = 1 /\ c \in SignedContext
  <2>1. CutIs(s.ctx, k, n, Reopened(s.ctx, k, n, 0))
    BY <1>1, <1>3, ReopenedFits
  <2> QED
    BY <1>12, <2>1 DEF CutIs, Fit
<1>14. c = Reopened(g.ctx, NameKey(g), NameCount(g), 0)
  BY <1>8, <1>11, <1>12
<1>15. /\ Fit(g.ctx) /\ (g.ts_start_flag = 0 => g.ctx.opened = 0) /\ g.hls_segment_num # 0 /\ g.key_frame_count # 0
  BY <1>1, <1>2, <1>3, <1>8, <1>9
<1>16. d \in SoughtParser /\ Alike(g, d) /\ d.ctx = c /\ d.seek_flag1 = 0 /\ d.ts_start_flag = 1
  BY <1>5, <1>7, <1>8, <1>13, <1>14, <1>15, SoughtReopens
<1>17. Beside(q, d)
  BY <1>1, <1>8, <1>9, <1>13, <1>16 DEF Beside, Alike, Running
<1>18. Matched(q.ctx, c, f, x)
  BY <1>10, <1>12 DEF Waiting
<1>19. d.flag_first_ts = 1 /\ d.hls_segment_num = q.segment_num /\ d.key_frame_count = 1 /\ d.key_ID_start = k
       /\ d.seek_flag2 = 1 /\ d.ts_count = 0 /\ d.ctx.opened = 1
  BY <1>1, <1>8, <1>9, <1>10, <1>13, <1>16 DEF Alike
<1>20. q.key_frame_count = d.key_frame_count + d.key_ID_start
       /\ q.ts_count + 1 = d.ts_count + d.key_ID_start \div q.segment_num + d.seek_flag2
  <2>1. q.key_frame_count = 1 + k /\ q.ts_count = n /\ d.key_ID_start \div q.segment_num = n
    BY <1>3, <1>10, <1>19
  <2> QED
    BY <1>19, <2>1
<1> QED
  BY <1>16, <1>17, <1>18, <1>19, <1>20 DEF Alongside

-----------------------------------------------------------------------------
(* Seek runs: the start.  What main makes of a name, in a run with the     *)
(* segment number n.                                                       *)
Fresh(name) == NewContext(Parsed(name.ac), Parsed(name.vc), Parsed(name.base), Parsed(name.pts))

SeekFrom(name, n) == NewParser([ts |-> 1, m3u8 |-> 0], name.key, n, {}, Fresh(name))

(* The numbers that the options take back from a name. *)
Spared(c) ==
  Survives(c.video_cc) /\ Survives(c.audio_cc) /\ Survives(c.aframe_base) /\ Survives(c.aframe_pts)

LEMMA PrintedSurvives ==
  /\ \A x : Survives(x) => Parsed(Printed(x)) = x
  /\ \A y \in Nat : Parsed(y) \in Int
  /\ \A k \in Nat : k < U32 => Printed(k) = k
<1>1. PICK n \in Nat \ {0}, h \in Nat : n = U32 /\ h = U32 \div 2 /\ h <= n
  BY U32Assumption
<1>2. ASSUME NEW x, Survives(x) PROVE Parsed(Printed(x)) = x
  <2>1. x \in Nat /\ x < h
    BY <1>1, <1>2 DEF Survives
  <2>2. Printed(x) = x
    BY <1>1, <2>1 DEF Printed
  <2> QED
    BY <1>1, <2>1, <2>2 DEF Parsed
<1>3. \A y \in Nat : Parsed(y) \in Int
  BY <1>1 DEF Parsed
<1>4. \A k \in Nat : k < U32 => Printed(k) = k
  BY <1>1 DEF Printed
<1> QED
  BY <1>2, <1>3, <1>4

LEMMA FreshIs ==
  ASSUME NEW name \in Name
  PROVE  /\ Fit(Fresh(name)) /\ Fresh(name) \in SignedContext /\ Fresh(name).opened = 0
         /\ Fresh(name).used = 0 /\ Fresh(name).segments = <<>> /\ NamesOf(Fresh(name)) = <<>>
<1>1. name.ac \in Nat /\ name.vc \in Nat /\ name.base \in Nat /\ name.pts \in Nat
  BY DEF Name
<1>2. PICK a, b, d, e \in Int : /\ a = Parsed(name.ac) /\ b = Parsed(name.vc)
                                /\ d = Parsed(name.base) /\ e = Parsed(name.pts)
  BY <1>1, PrintedSurvives
<1>3. PICK c : c = Fresh(name)
  OBVIOUS
<1>4. c = NewContext(a, b, d, e)
  BY <1>2, <1>3 DEF Fresh
<1>5. <<>> \in SignedSegments /\ <<>> \in Seq(Frame)
  BY DEF SignedSegments, SegmentSeq
<1>6. c \in SignedContext /\ c.opened = 0 /\ c.used = 0 /\ c.segments = <<>>
  BY <1>4, <1>5 DEF NewContext, SignedContext
<1>7. NamesOf(c) = <<>>
  BY <1>6 DEF NamesOf
<1>8. Fit(c)
  BY <1>6 DEF Fit
<1> QED
  BY <1>3, <1>6, <1>7, <1>8

(* A cut of the whole run, and the same cut by a run with the new name. *)
LEMMA StartsAlike ==
  ASSUME NEW c, WellFormed(c), c.opened = 1, NEW k \in Int, NEW n \in Int, NEW m \in {0, 1},
         NEW e, e = CloseFragment(c), NEW nm, nm = NameFor(e, k, n),
         NEW x, x = 1 => Spared(e)
  PROVE  /\ nm \in Name /\ Fit(Fresh(nm))
         /\ Matched(Reopened(c, k, n, m), Reopened(Fresh(nm), k, n, 0), Len(c.segments) + 1, x)
<1>1. Fit(c) /\ Fit(e) /\ e.opened = 0 /\ NamesOf(e) = NamesOf(c) /\ e.used = 0 /\ e.aframe_num = 0
  BY WellFormedFits, CloseFits
<1>2. e.held = <<>>
  <2>1. WellFormed(CloseFragment(c)) /\ CloseFragment(c).used = 0
    BY CloseKeeps
  <2> QED
    BY <2>1 DEF WellFormed
<1>3. nm \in Name
  BY <1>1, NameIs
<1>4. PICK g : g = Fresh(nm)
  OBVIOUS
<1>5. Fit(g) /\ g.opened = 0 /\ g.used = 0 /\ NamesOf(g) = <<>>
  BY <1>3, <1>4, FreshIs
<1>6. PICK f \in Nat \ {0} : f = Len(c.segments) + 1
  BY <1>1, SignedNames
<1>7. Len(NamesOf(c)) = Len(c.segments) /\ Len(c.segments) \in Nat /\ Len(e.segments) = Len(c.segments)
  <2>1. Len(NamesOf(c)) = Len(c.segments) /\ Len(c.segments) \in Nat /\ Len(NamesOf(e)) = Len(e.segments)
    BY <1>1, SignedNames
  <2> QED
    BY <1>1, <2>1
<1>8. Placed(c, g, f)
  <2>1. Len(NamesOf(g)) = 0
    BY <1>5
  <2>2. Len(NamesOf(c)) = Len(NamesOf(g)) + f - 1 /\ Len(NamesOf(c)) >= Len(NamesOf(g)) + f - 1
    BY <1>6, <1>7, <2>1
  <2>3. 1 .. Len(NamesOf(g)) = {}
    BY <2>1
  <2> QED
    BY <1>6, <2>2, <2>3 DEF Placed, Follows
<1>9. PICK cc, gg : cc = Reopened(c, k, n, m) /\ gg = Reopened(g, k, n, 0)
  OBVIOUS
<1>10. CutIs(c, k, n, cc) /\ CutIs(g, k, n, gg)
  <2>1. CutIs(c, k, n, Reopened(c, k, n, m))
    BY <1>1, ReopenedFits
  <2>2. CutIs(g, k, n, Reopened(g, k, n, 0))
    BY <1>5, ReopenedFits
  <2> QED
    BY <1>9, <2>1, <2>2
<1>11. Placed(cc, gg, f)
  BY <1>1, <1>5, <1>8, <1>10, PlacedCuts
<1>12. ASSUME x = 1 PROVE Shifted(cc, gg, f)
  <2>1. Spared(e)
    BY <1>12
  <2>2. nm.ac = Printed(e.audio_cc) /\ nm.vc = Printed(e.video_cc) /\ nm.base = Printed(e.aframe_base)
        /\ nm.pts = Printed(e.aframe_pts)
    BY DEF NameFor
  <2>3. /\ Parsed(nm.ac) = e.audio_cc /\ Parsed(nm.vc) = e.video_cc
        /\ Parsed(nm.base) = e.aframe_base /\ Parsed(nm.pts) = e.aframe_pts
    BY <2>1, <2>2, PrintedSurvives DEF Spared
  <2>4. g = NewContext(e.audio_cc, e.video_cc, e.aframe_base, e.aframe_pts)
    BY <1>4, <2>3 DEF Fresh
  <2>5. Opened(e, nm, m) = Behind(e.segments, m, Opened(g, nm, 0))
    BY <1>1, <1>2, <1>3, <2>4, FreshOpens
  <2>6. cc = Opened(e, nm, m)
    BY <1>1, <1>9, ReopenOpens
  <2>7. CloseFragment(g) = g
    BY <1>5, ClosedStays
  <2>8. NameFor(g, k, n) = nm
    <3>1. g.audio_cc = e.audio_cc /\ g.video_cc = e.video_cc /\ g.aframe_base = e.aframe_base
          /\ g.aframe_pts = e.aframe_pts
      BY <2>4 DEF NewContext
    <3> QED
      BY <3>1 DEF NameFor
  <2>9. gg = Opened(g, nm, 0)
    <3>1. Reopened(g, k, n, 0) = Opened(CloseFragment(g), NameFor(CloseFragment(g), k, n), 0)
      BY <1>5, ReopenOpens
    <3> QED
      BY <1>9, <2>7, <2>8, <3>1
  <2>10. e.segments \in SignedSegments /\ Len(e.segments) = f - 1
    BY <1>1, <1>6, <1>7, SignedIs
  <2>11. cc = Behind(e.segments, m, gg)
    BY <2>5, <2>6, <2>9
  <2> QED
    BY <2>10, <2>11 DEF Shifted
<1> QED
  BY <1>3, <1>4, <1>5, <1>6, <1>9, <1>11, <1>12 DEF Matched

LEMMA SeekFromIs ==
  ASSUME NEW name \in Name, name.key > 0, NEW n \in Nat \ {0}, NEW s, s = SeekFrom(name, n)
  PROVE  /\ s \in SoughtParser /\ s.ctx = Fresh(name) /\ s.status = "running" /\ s.flag_over = 0
         /\ s.key_ID_start = name.key /\ s.segment_num = n /\ s.flag_first_ts = 0 /\ s.ts_start_flag = 0
         /\ s.seek_flag1 = 0 /\ s.seek_flag2 = 0 /\ s.hls_segment_num = 0 /\ s.ts_count = 0
         /\ s.ts_fragment_id = 0 /\ s.key_frame_count = 0
<1>1. PICK c \in SignedContext : c = Fresh(name)
  BY FreshIs
<1>2. PICK o : o = [ts |-> 1, m3u8 |-> 0]
  OBVIOUS
<1>3. o.ts = 1 /\ o.m3u8 = 0
  BY <1>2
<1>4. PICK k \in Nat \ {0} : k = name.key
  BY DEF Name
<1>5. s = NewParser(o, k, n, {}, c)
  BY <1>1, <1>2, <1>4 DEF SeekFrom
<1>6. 0 \in Time /\ <<>> \in Seq(Line)
  BY U32Assumption DEF Time
<1>7. s \in SoughtParser
  BY <1>3, <1>5, <1>6 DEF NewParser, SoughtParser
<1>8. /\ s.ctx = c /\ s.status = "running" /\ s.flag_over = 0
      /\ s.key_ID_start = k /\ s.segment_num = n /\ s.flag_first_ts = 0 /\ s.ts_start_flag = 0
      /\ s.seek_flag1 = 0 /\ s.seek_flag2 = 0 /\ s.hls_segment_num = 0 /\ s.ts_count = 0
      /\ s.ts_fragment_id = 0 /\ s.key_frame_count = 0
  BY <1>5 DEF NewParser
<1> QED
  BY <1>1, <1>4, <1>7, <1>8

(* The whole run's segments are counted by its keys. *)
InStep(q) ==
  q.segment_num # 0 =>
    q.ts_count = IF q.key_frame_count = 0 THEN 0 ELSE (q.key_frame_count - 1) \div q.segment_num

LEMMA CutStarts ==
  ASSUME NEW q, NEW os, Standing(q, os), Running(q), q.flag_first_ts = 1, q.refused = {},
         q.key_frame_count > 0, q.key_frame_count + 1 < U32, InStep(q),
         q.key_frame_count % q.segment_num = 0,
         NEW qq, qq = AtKey(CountKey(q)),
         NEW k, k = q.key_frame_count, NEW n, n = k \div q.segment_num
  PROVE  /\ k \in Nat /\ n \in Int /\ WellFormed(q.ctx) /\ q.ctx.opened = 1 /\ q.segment_num \in Nat \ {0}
         /\ Goes(q, qq) /\ qq.key_frame_count = k + 1 /\ qq.ts_count = n
         /\ \E m \in {0, 1} : qq.ctx = Reopened(q.ctx, k, n, m)
<1>1. q \in Parser /\ WellFormed(q.ctx) /\ q.segment_num # 0 /\ os \in Seq(Opening)
      /\ q.ts_count = Len(os) - 1
  BY DEF Standing, Base, Books
<1>2. q.ctx.opened = 1
  BY OpenedContext DEF Opens
<1>3. k \in Nat \ {0} /\ q.segment_num \in Nat \ {0} /\ q.ts_count \in Nat /\ q.hls_end_ts \in Time
  BY <1>1 DEF Parser
<1>4. n \in Int
  BY <1>3
<1>5. q.ts_count + 1 = n
  <2>1. q.ts_count = (k - 1) \div q.segment_num
    BY <1>1, <1>3 DEF InStep
  <2>2. PICK j \in Nat \ {0}, i \in Nat \ {0} : j = q.segment_num /\ i = k
    BY <1>3
  <2>3. (i - 1) \div j + (IF i % j = 0 THEN 1 ELSE 0) = i \div j
    BY CountSteps
  <2>4. i % j = 0
    BY <2>2
  <2>5. (i - 1) \div j + 1 = i \div j
    BY <2>3, <2>4
  <2> QED
    BY <2>1, <2>2, <2>5
<1>6. PICK o \in Opening : o.keys = k + 1 /\ o.time = q.hls_end_ts
  <2>1. [keys |-> k + 1, time |-> q.hls_end_ts] \in Opening
    BY <1>3 DEF Opening
  <2> QED
    BY <2>1
<1>7. /\ Standing(qq, Append(os, o)) /\ Fixed(q, qq) /\ qq.status = q.status
      /\ qq.flag_first_ts = 1 /\ qq.key_frame_count = k + 1
  BY <1>6, KeyCuts
<1>8. qq.ts_count = n
  <2>1. qq.ts_count = Len(Append(os, o)) - 1
    BY <1>7 DEF Standing
  <2>2. Len(Append(os, o)) = Len(os) + 1 /\ Len(os) \in Nat
    BY <1>1, Appended
  <2> QED
    BY <1>1, <1>5, <2>1, <2>2
<1>9. PICK m \in {0, 1} : qq.ctx = Reopened(q.ctx, k, q.ts_count + 1, m)
  BY KeyReopens
<1>10. qq.ctx = Reopened(q.ctx, k, n, m)
  BY <1>5, <1>9
<1> QED
  BY <1>1, <1>2, <1>3, <1>4, <1>7, <1>8, <1>10 DEF Goes, Running

(* The segment's name, and its number. *)
LEMMA CutNamed ==
  ASSUME NEW c, WellFormed(c), c.opened = 1, NEW k \in Nat, k < U32, NEW n \in Int, NEW m \in {0, 1},
         NEW d, d = Reopened(c, k, n, m), NEW nm, nm = NameFor(CloseFragment(c), k, n)
  PROVE  /\ nm \in Name /\ nm.key = k /\ d.segments # <<>> /\ Last(d.segments).name = nm
         /\ Len(d.segments) = Len(c.segments) + 1 /\ Fit(d) /\ d.opened = 1
         /\ d.audio_cc = CloseFragment(c).audio_cc /\ d.aframe_base = CloseFragment(c).aframe_base
         /\ d.aframe_pts = CloseFragment(c).aframe_pts /\ CloseFragment(c).video_cc = c.video_cc
         /\ d.used = 0
<1>1. PICK e : e = CloseFragment(c)
  OBVIOUS
<1>2. Fit(c) /\ Fit(e) /\ e.used = 0 /\ NamesOf(e) = NamesOf(c) /\ e.video_cc = c.video_cc
  BY <1>1, WellFormedFits, CloseFits
<1>3. nm \in Name
  BY <1>1, <1>2, NameIs
<1>4. nm.key = k
  BY PrintedSurvives DEF NameFor
<1>5. d = Opened(e, nm, m)
  BY <1>1, <1>2, ReopenOpens
<1>6. OpenedIs(e, nm, m, d)
  BY <1>2, <1>3, <1>5, OpenedFits
<1>7. Len(e.segments) = Len(c.segments) /\ Len(e.segments) \in Nat
  <2>1. Len(NamesOf(e)) = Len(e.segments) /\ Len(NamesOf(c)) = Len(c.segments) /\ Len(c.segments) \in Nat
    BY <1>2, SignedNames
  <2> QED
    BY <1>2, <2>1
<1>8. /\ Fit(d) /\ d.opened = 1 /\ Len(d.segments) = Len(e.segments) + 1
      /\ d.segments[Len(e.segments) + 1] = [name |-> nm, frames |-> <<>>]
      /\ d.audio_cc = e.audio_cc /\ d.aframe_base = e.aframe_base /\ d.aframe_pts = e.aframe_pts /\ d.used = 0
  BY <1>2, <1>6 DEF OpenedIs
<1>9. d.segments # <<>>
  BY <1>8 DEF Fit
<1>10. Last(d.segments).name = nm
  BY <1>8 DEF Last
<1> QED
  BY <1>1, <1>2, <1>3, <1>4, <1>7, <1>8, <1>9, <1>10

(* At a sequence header. *)
LEMMA SeekAtHeader ==
  ASSUME NEW q, NEW os, Standing(q, os), Running(q), q.flag_first_ts = 1, q.refused = {},
         q.key_frame_count > 0, q.key_frame_count + 1 < U32, InStep(q),
         q.key_frame_count % q.segment_num = 0,
         NEW t \in Tag, t.type = "avcc", t.damage = "none",
         NEW qq, qq = HandleTag(q, t),
         NEW nm, nm = Last(qq.ctx.segments).name,
         NEW ss, ss = HandleTag(SeekFrom(nm, q.segment_num), t),
         NEW x, x = 1 => /\ Survives(q.ctx.video_cc) /\ Survives(qq.ctx.audio_cc)
                         /\ Survives(qq.ctx.aframe_base) /\ Survives(qq.ctx.aframe_pts)
  PROVE  Waiting(qq, ss, Len(qq.ctx.segments), x)
<1>1. qq = AtKey(CountKey(q))
  BY HeaderCounts
<1>2. PICK k, n : k = q.key_frame_count /\ n = k \div q.segment_num
  OBVIOUS
<1>3. /\ k \in Nat /\ n \in Int /\ WellFormed(q.ctx) /\ q.ctx.opened = 1 /\ q.segment_num \in Nat \ {0}
      /\ Goes(q, qq) /\ qq.key_frame_count = k + 1 /\ qq.ts_count = n
      /\ \E m \in {0, 1} : qq.ctx = Reopened(q.ctx, k, n, m)
  BY <1>1, <1>2, CutStarts
<1>4. PICK m \in {0, 1} : qq.ctx = Reopened(q.ctx, k, n, m)
  BY <1>3
<1>5. PICK c, e, g : c = q.ctx /\ e = CloseFragment(c) /\ g = NameFor(e, k, n)
  OBVIOUS
<1>6. k < U32
  BY <1>2, <1>3, U32Assumption
<1>7. /\ g \in Name /\ g.key = k /\ qq.ctx.segments # <<>> /\ Last(qq.ctx.segments).name = g
      /\ Len(qq.ctx.segments) = Len(c.segments) + 1
      /\ qq.ctx.audio_cc = e.audio_cc /\ qq.ctx.aframe_base = e.aframe_base
      /\ qq.ctx.aframe_pts = e.aframe_pts /\ e.video_cc = c.video_cc
  BY <1>3, <1>4, <1>5, <1>6, CutNamed
<1>8. nm = g
  BY <1>7
<1>9. x = 1 => Spared(e)
  BY <1>5, <1>7 DEF Spared
<1>10. /\ Fit(Fresh(g))
       /\ Matched(Reopened(c, k, n, m), Reopened(Fresh(g), k, n, 0), Len(c.segments) + 1, x)
  <2>1. WellFormed(c) /\ c.opened = 1 /\ k \in Int /\ n \in Int /\ m \in {0, 1}
    BY <1>3, <1>4, <1>5
  <2>2. e = CloseFragment(c) /\ g = NameFor(e, k, n)
    BY <1>5
  <2> QED
    BY <1>9, <2>1, <2>2, StartsAlike, ZenonT(30)
<1>11. PICK s : s = SeekFrom(g, q.segment_num)
  OBVIOUS
<1>12. /\ s \in SoughtParser /\ s.ctx = Fresh(g) /\ s.status = "running" /\ s.flag_over = 0
       /\ s.key_ID_start = k /\ s.segment_num = q.segment_num /\ s.flag_first_ts = 0 /\ s.ts_start_flag = 0
       /\ s.seek_flag1 = 0 /\ s.seek_flag2 = 0 /\ s.hls_segment_num = 0 /\ s.ts_count = 0
       /\ s.ts_fragment_id = 0 /\ s.key_frame_count = 0
  BY <1>2, <1>3, <1>7, <1>11, SeekFromIs
<1>13. PICK h : h = [s EXCEPT !.seek_flag1 = 1, !.seek_flag2 = 1]
  OBVIOUS
<1>14. /\ h \in SoughtParser /\ h.ctx = s.ctx /\ h.status = s.status /\ h.flag_over = s.flag_over
       /\ h.key_ID_start = s.key_ID_start /\ h.segment_num = s.segment_num /\ h.flag_first_ts = s.flag_first_ts
       /\ h.ts_start_flag = s.ts_start_flag
  BY <1>12, <1>13 DEF SoughtParser
<1>15. /\ h.seek_flag1 = 1 /\ h.seek_flag2 = 1 /\ h.hls_segment_num = s.hls_segment_num
       /\ h.ts_count = s.ts_count /\ h.ts_fragment_id = s.ts_fragment_id /\ h.key_frame_count = s.key_frame_count
  BY <1>12, <1>13 DEF SoughtParser
<1>16. PICK y : y = CountKey(h)
  OBVIOUS
<1>17. /\ y \in SoughtParser /\ y.ctx = h.ctx /\ y.seek_flag1 = h.seek_flag1 /\ y.seek_flag2 = h.seek_flag2
       /\ y.ts_start_flag = h.ts_start_flag /\ y.status = h.status /\ y.flag_over = h.flag_over
       /\ y.flag_first_ts = h.flag_first_ts /\ y.hls_segment_num = h.hls_segment_num
       /\ y.segment_num = h.segment_num /\ y.key_ID_start = h.key_ID_start
       /\ y.ts_count = h.ts_count /\ y.ts_fragment_id = h.ts_fragment_id
       /\ y.key_frame_count = h.key_frame_count + 1
  BY <1>14, <1>16, SoughtCounts
<1>18. s.key_ID_start # 0 /\ ~(y.key_frame_count > 1)
  BY <1>2, <1>3, <1>12, <1>15, <1>17
<1>19. ss = y
  <2>1. ss = OnSequenceHeader(s)
    BY <1>8, <1>11 DEF HandleTag
  <2> QED
    BY <1>12, <1>13, <1>16, <1>18, <2>1 DEF OnSequenceHeader
<1>20. k % q.segment_num = 0
  BY <1>2
<1>21. Beside(qq, ss)
  BY <1>3, <1>10, <1>12, <1>14, <1>17, <1>19, <1>20 DEF Beside, Goes, Fixed, Running
<1>22. ss.ctx = Fresh(g) /\ ss.ctx.opened = 0 /\ ss.ctx.used = 0 /\ ss.ctx.segments = <<>>
  BY <1>7, <1>12, <1>14, <1>17, <1>19, FreshIs
<1>23. ss.key_ID_start = k /\ qq.segment_num = q.segment_num /\ k \div qq.segment_num = n
  BY <1>2, <1>3, <1>12, <1>14, <1>17, <1>19 DEF Goes, Fixed
<1>24. /\ ss.flag_first_ts = 0 /\ ss.ts_start_flag = 0 /\ ss.seek_flag1 = 1 /\ ss.seek_flag2 = 1
       /\ ss.hls_segment_num = 0 /\ ss.ts_count = 0 /\ ss.ts_fragment_id = 0 /\ ss.key_frame_count = 1
  BY <1>12, <1>14, <1>15, <1>17, <1>19
<1>25. Matched(qq.ctx, Reopened(ss.ctx, k, n, 0), Len(qq.ctx.segments), x)
  BY <1>4, <1>5, <1>7, <1>10, <1>22
<1>26. qq.key_frame_count = 1 + k /\ qq.ts_count = n
  BY <1>3
<1> QED
  BY <1>21, <1>22, <1>23, <1>24, <1>25, <1>26 DEF Waiting

(* The seek run comes to its first key frame. *)
Sought0(s, name, n) ==
  /\ s \in SoughtParser /\ s.ctx = Fresh(name) /\ s.status = "running" /\ s.flag_over = 0
  /\ s.key_ID_start = name.key /\ s.segment_num = n /\ s.flag_first_ts = 1 /\ s.ts_start_flag = 0
  /\ s.seek_flag1 = 0 /\ s.seek_flag2 = 0 /\ s.hls_segment_num = n /\ s.ts_count = 0
  /\ s.ts_fragment_id = 0 /\ s.key_frame_count = 0

LEMMA SeekComes ==
  ASSUME NEW name \in Name, name.key > 0, NEW n \in Nat \ {0}, NEW t, t.ts \in Time
  PROVE  Sought0([FirstPacket(SeekFrom(name, n), t) EXCEPT !.hls_end_ts = t.ts], name, n)
<1>1. PICK b : b = SeekFrom(name, n)
  OBVIOUS
<1>2. /\ b \in SoughtParser /\ b.ctx = Fresh(name) /\ b.status = "running" /\ b.flag_over = 0
      /\ b.key_ID_start = name.key /\ b.segment_num = n /\ b.flag_first_ts = 0 /\ b.ts_start_flag = 0
      /\ b.seek_flag1 = 0 /\ b.seek_flag2 = 0 /\ b.hls_segment_num = 0 /\ b.ts_count = 0
      /\ b.ts_fragment_id = 0 /\ b.key_frame_count = 0
  BY <1>1, SeekFromIs
<1>3. PICK y : y = [b EXCEPT !.hls_start_ts = t.ts, !.hls_segment_num = b.segment_num, !.flag_first_ts = 1]
  OBVIOUS
<1>4. Begins(b, y)
  BY <1>2, <1>3, SoughtBegins
<1>5. y \in SoughtParser /\ y.ts_start_flag = 0 /\ y.flag_over = 0 /\ y.key_frame_count = 0
  BY <1>2, <1>4 DEF Begins
<1>6. FirstPacket(b, t) = y
  <2>1. FirstPacket(b, t) = HlsSegment(y)
    BY <1>2, <1>3 DEF FirstPacket
  <2>2. HlsSegment(y) = y
    BY <1>5, SoughtWaits
  <2> QED
    BY <2>1, <2>2
<1>7. PICK s : s = [y EXCEPT !.hls_end_ts = t.ts]
  OBVIOUS
<1>8. /\ s \in SoughtParser /\ Alike(y, s) /\ s.ctx = y.ctx /\ s.seek_flag1 = y.seek_flag1
      /\ s.ts_start_flag = y.ts_start_flag
  BY <1>5, <1>7, SoughtStamped
<1>9. Sought0(s, name, n)
  BY <1>2, <1>4, <1>8 DEF Sought0, Alike, Begins
<1> QED
  BY <1>1, <1>6, <1>7, <1>9

(* At a key frame: the segment it cuts off. *)
LEMMA KeyStarts ==
  ASSUME NEW q, NEW os, Standing(q, os), Running(q), q.flag_first_ts = 1, q.refused = {},
         q.key_frame_count > 0, q.key_frame_count + 1 < U32, InStep(q),
         q.key_frame_count % q.segment_num = 0,
         NEW qq, qq = AtKey(CountKey(q)),
         NEW nm, nm = Last(qq.ctx.segments).name,
         NEW s, Sought0(s, nm, q.segment_num),
         NEW ss, ss = AtKey(CountKey(s)),
         NEW x, x = 1 => /\ Survives(q.ctx.video_cc) /\ Survives(qq.ctx.audio_cc)
                         /\ Survives(qq.ctx.aframe_base) /\ Survives(qq.ctx.aframe_pts)
  PROVE  nm \in Name /\ nm.key > 0 /\ Alongside(qq, ss, Len(qq.ctx.segments), x)
<1>1. PICK k, n : k = q.key_frame_count /\ n = k \div q.segment_num
  OBVIOUS
<1>2. /\ k \in Nat /\ n \in Int /\ WellFormed(q.ctx) /\ q.ctx.opened = 1 /\ q.segment_num \in Nat \ {0}
      /\ Goes(q, qq) /\ qq.key_frame_count = k + 1 /\ qq.ts_count = n
      /\ \E m \in {0, 1} : qq.ctx = Reopened(q.ctx, k, n, m)
  BY <1>1, CutStarts
<1>3. PICK m \in {0, 1} : qq.ctx = Reopened(q.ctx, k, n, m)
  BY <1>2
<1>4. PICK c, e, g : c = q.ctx /\ e = CloseFragment(c) /\ g = NameFor(e, k, n)
  OBVIOUS
<1>5. k < U32
  BY <1>1, <1>2, U32Assumption
<1>6. /\ g \in Name /\ g.key = k /\ qq.ctx.segments # <<>> /\ Last(qq.ctx.segments).name = g
      /\ Len(qq.ctx.segments) = Len(c.segments) + 1
      /\ qq.ctx.audio_cc = e.audio_cc /\ qq.ctx.aframe_base = e.aframe_base
      /\ qq.ctx.aframe_pts = e.aframe_pts /\ e.video_cc = c.video_cc
  BY <1>2, <1>3, <1>4, <1>5, CutNamed
<1>7. nm = g
  BY <1>6
<1>8. x = 1 => Spared(e)
  BY <1>4, <1>6 DEF Spared
<1>9. /\ Fit(Fresh(g))
       /\ Matched(Reopened(c, k, n, m), Reopened(Fresh(g), k, n, 0), Len(c.segments) + 1, x)
  <2>1. WellFormed(c) /\ c.opened = 1 /\ k \in Int /\ n \in Int /\ m \in {0, 1}
    BY <1>2, <1>3, <1>4
  <2>2. e = CloseFragment(c) /\ g = NameFor(e, k, n)
    BY <1>4
  <2> QED
    BY <1>8, <2>1, <2>2, StartsAlike
<1>23. /\ s \in SoughtParser /\ s.ctx = Fresh(g) /\ s.status = "running" /\ s.flag_over = 0
       /\ s.key_ID_start = k /\ s.segment_num = q.segment_num /\ s.flag_first_ts = 1 /\ s.ts_start_flag = 0
       /\ s.seek_flag1 = 0 /\ s.seek_flag2 = 0 /\ s.hls_segment_num = q.segment_num /\ s.ts_count = 0
       /\ s.ts_fragment_id = 0 /\ s.key_frame_count = 0
  BY <1>6, <1>7 DEF Sought0
<1>24. Fit(s.ctx) /\ s.ctx.opened = 0 /\ s.ctx.used = 0
  BY <1>6, <1>23, FreshIs
<1>25. PICK a \in Nat, j \in Int : a = k /\ j = n
  BY <1>2
<1>26. Counted(s, ss, 1) /\ ss.ctx = Reopened(s.ctx, a, j, 0) /\ ss.ts_start_flag = 1
  <2>1. a = s.key_frame_count + s.key_ID_start
    BY <1>23, <1>25
  <2>2. j = s.ts_count + s.key_ID_start \div s.hls_segment_num + s.seek_flag2
    BY <1>1, <1>23, <1>25
  <2>3. s.hls_segment_num # 0 /\ s.key_frame_count % s.hls_segment_num = 0
    BY <1>2, <1>23
  <2>4. s \in SoughtParser /\ Fit(s.ctx) /\ (s.ts_start_flag = 0 => s.ctx.opened = 0)
        /\ (s.ctx.opened = 1 \/ s.ctx.used = 0) /\ s.flag_over = 0 /\ s.seek_flag1 = 0
    BY <1>23, <1>24
  <2> QED
    BY <2>1, <2>2, <2>3, <2>4, SoughtCuts
<1>27. /\ ss \in SoughtParser /\ ss.seek_flag1 = 0 /\ ss.seek_flag2 = 0 /\ ss.status = "running" /\ ss.flag_over = 0
       /\ ss.flag_first_ts = 1 /\ ss.hls_segment_num = q.segment_num /\ ss.segment_num = q.segment_num
       /\ ss.key_ID_start = k /\ ss.key_frame_count = 1 /\ ss.ts_count = 1
  BY <1>23, <1>26 DEF Counted
<1>28. Fit(ss.ctx) /\ ss.ctx.opened = 1
  <2>1. CutIs(s.ctx, a, j, Reopened(s.ctx, a, j, 0))
    BY <1>24, ReopenedFits
  <2> QED
    BY <1>26, <2>1 DEF CutIs
<1>29. Beside(qq, ss)
  BY <1>1, <1>2, <1>27, <1>28 DEF Beside, Goes, Fixed, Running
<1>30. Matched(qq.ctx, ss.ctx, Len(qq.ctx.segments), x)
  BY <1>3, <1>4, <1>6, <1>9, <1>23, <1>25, <1>26
<1>31. /\ qq.key_frame_count = ss.key_frame_count + ss.key_ID_start
       /\ qq.ts_count + 1 = ss.ts_count + ss.key_ID_start \div qq.segment_num + ss.seek_flag2
  <2>1. ss.key_ID_start \div qq.segment_num = n
    BY <1>1, <1>2, <1>27 DEF Goes, Fixed
  <2> QED
    BY <1>2, <1>27, <2>1
<1>32. ss.hls_segment_num = qq.segment_num
  BY <1>2, <1>27 DEF Goes, Fixed
<1>33. nm \in Name /\ nm.key > 0
  BY <1>1, <1>2, <1>6, <1>7
<1> QED
  BY <1>26, <1>27, <1>28, <1>29, <1>30, <1>31, <1>32, <1>33 DEF Alongside

(* The name spells the counters and the clock out. *)
Spells(c, d) ==
  /\ Survives(c.video_cc) /\ Survives(d.audio_cc) /\ Survives(d.aframe_base) /\ Survives(d.aframe_pts)

(* The first segment is named by no key frame. *)
LEMMA OneNamed ==
  ASSUME NEW d, NEW o, Standing(d, Append(<<>>, o)), d.refused = {}
  PROVE  Last(d.ctx.segments).name.key = 0
<1>1. PICK os : os = Append(<<>>, o)
  OBVIOUS
<1>2. Len(os) = 1
  <2>1. os = <<o>>
    BY <1>1
  <2> QED
    BY <2>1
<1>3. Fit(d.ctx) /\ Located(NamesOf(d.ctx), os)
  BY <1>1, WellFormedFits DEF Standing, Base, Books, Opens
<1>4. Len(NamesOf(d.ctx)) = 1 /\ NamesOf(d.ctx)[1].key = 0
  BY <1>2, <1>3 DEF Located
<1>5. Len(d.ctx.segments) = 1 /\ NamesOf(d.ctx)[1] = d.ctx.segments[1].name
  BY <1>3, <1>4, SignedNames
<1> QED
  BY <1>4, <1>5 DEF Last

(* What a picture leaves of a segment just opened. *)
Filmed0(c, d) ==
  /\ Len(d.segments) = Len(c.segments) /\ Last(d.segments).name = Last(c.segments).name
  /\ d.audio_cc = c.audio_cc /\ d.aframe_base = c.aframe_base /\ d.aframe_pts = c.aframe_pts

LEMMA FilmedFirst ==
  ASSUME NEW c, Fit(c), c.opened = 1, c.used = 0, NEW v \in [ts : Nat, size : Nat, key : {0, 1}]
  PROVE  Filmed0(c, VideoEx(c, v))
<1>1. PICK d : d = VideoEx(c, v)
  OBVIOUS
<1>2. Fit(d) /\ Quiet(c, d) /\ Fronted(c, d)
      /\ d.audio_cc = c.audio_cc /\ d.aframe_base = c.aframe_base /\ d.aframe_pts = c.aframe_pts
  <2>1. Fit(VideoEx(c, v)) /\ Quiet(c, VideoEx(c, v))
    BY VideoFits
  <2>2. /\ Fronted(c, VideoEx(c, v))
        /\ c.used = 0 => /\ VideoEx(c, v).audio_cc = c.audio_cc /\ VideoEx(c, v).aframe_base = c.aframe_base
                         /\ VideoEx(c, v).aframe_pts = c.aframe_pts
    BY VideoFront
  <2>3. /\ VideoEx(c, v).audio_cc = c.audio_cc /\ VideoEx(c, v).aframe_base = c.aframe_base
        /\ VideoEx(c, v).aframe_pts = c.aframe_pts
    BY <2>2
  <2> QED
    BY <1>1, <2>1, <2>2, <2>3
<1>3. PICK n \in Nat \ {0} : n = Len(c.segments) /\ n = Len(d.segments)
  <2>1. c.segments # <<>> /\ c.segments \in SignedSegments
    BY DEF Fit, SignedContext
  <2>2. Len(c.segments) \in Nat /\ Len(c.segments) > 0
    BY <2>1, SignedBasics
  <2> QED
    BY <1>2, <2>2 DEF Fronted
<1>4. NamesOf(c)[n] = c.segments[n].name /\ NamesOf(d)[n] = d.segments[n].name
  <2>1. \A i \in 1 .. Len(c.segments) : NamesOf(c)[i] = c.segments[i].name
    BY SignedNames
  <2>2. \A i \in 1 .. Len(d.segments) : NamesOf(d)[i] = d.segments[i].name
    BY <1>2, SignedNames
  <2> QED
    BY <1>3, <2>1, <2>2
<1>5. Last(d.segments).name = Last(c.segments).name
  BY <1>2, <1>3, <1>4 DEF Last, Quiet
<1> QED
  BY <1>1, <1>2, <1>3, <1>5 DEF Filmed0

(* The whole run before its cut. *)
Stamped(q, d) ==
  /\ (\E oo : Standing(d, oo)) /\ Fixed(q, d) /\ d.status = q.status /\ d.flag_first_ts = 1
  /\ d.key_frame_count = q.key_frame_count /\ InStep(d) /\ d.ctx.video_cc = q.ctx.video_cc

LEMMA StampedIs ==
  ASSUME NEW q, NEW os, Standing(q, os), q.segment_num # 0, q.refused = {}, InStep(q),
         NEW t, t.ts \in Time, NEW d, d = [FirstPacket(q, t) EXCEPT !.hls_end_ts = t.ts]
  PROVE  Stamped(q, d)
<1>1. PICK o \in Opening : o.time = t.ts
  <2>1. [keys |-> 0, time |-> t.ts] \in Opening
    BY DEF Opening
  <2> QED
    BY <2>1
<1>2. PICK n : n = 1 - q.flag_first_ts
  OBVIOUS
<1>3. PICK e : e = FirstPacket(q, t)
  OBVIOUS
<1>4. PICK oo : oo = Grown(os, n, o)
  OBVIOUS
<1>5. /\ Standing(e, oo) /\ Fixed(q, e) /\ e.status = q.status
      /\ e.flag_first_ts = 1 /\ e.key_frame_count = q.key_frame_count
  BY <1>1, <1>2, <1>3, <1>4, FirstStep
<1>6. PICK g, ts : g = [e EXCEPT !.hls_end_ts = ts] /\ ts = t.ts
  OBVIOUS
<1>7. /\ Standing(d, oo) /\ Fixed(e, d) /\ d.status = e.status /\ d.ctx = e.ctx
      /\ d.flag_first_ts = e.flag_first_ts /\ d.key_frame_count = e.key_frame_count
  <2>1. ts \in Time
    BY <1>6
  <2>2. /\ Standing(g, oo) /\ Fixed(e, g) /\ g.status = e.status /\ g.ctx = e.ctx
        /\ g.flag_first_ts = e.flag_first_ts /\ g.key_frame_count = e.key_frame_count
    BY <1>5, <1>6, <2>1, TimeStamped
  <2> QED
    BY <1>3, <1>6, <2>2
<1>8. q.flag_first_ts \in {0, 1}
  BY DEF Standing, Base, Parser
<1>9. d.ts_count = q.ts_count
  <2>1. d.ts_count = Len(oo) - 1
    BY <1>5, <1>7 DEF Standing
  <2>2. CASE q.flag_first_ts = 1
    <3>1. oo = os
      BY <1>2, <1>4, <2>2 DEF Grown
    <3> QED
      BY <2>1, <2>2, <3>1 DEF Standing
  <2>3. CASE q.flag_first_ts = 0
    <3>1. n = 1 /\ os = <<>> /\ q.ts_count = 0
      BY <1>2, <2>3 DEF Standing
    <3>2. oo = Append(<<>>, o)
      BY <1>4, <3>1 DEF Grown
    <3>3. oo = <<o>>
      BY <3>2
    <3>4. Len(oo) = 1
      BY <3>3
    <3> QED
      BY <2>1, <3>1, <3>4
  <2> QED
    BY <1>8, <2>2, <2>3
<1>10. e.ctx.video_cc = q.ctx.video_cc
  <2>1. CASE q.flag_first_ts = 1
    BY <1>3, <2>1 DEF FirstPacket
  <2>2. CASE q.flag_first_ts = 0
    BY <1>3, <2>2, FirstReopens
  <2> QED
    BY <1>8, <2>1, <2>2
<1>11. InStep(d)
  BY <1>5, <1>7, <1>9 DEF InStep, Fixed
<1> QED
  BY <1>5, <1>7, <1>10, <1>11, FixedAgain DEF Stamped

(* The key frame that cuts: the name, then the seek run. *)
LEMMA KeyNames ==
  ASSUME NEW q, NEW os, Standing(q, os), Running(q), q.flag_first_ts = 1, q.refused = {},
         q.key_frame_count > 0, q.key_frame_count + 1 < U32, InStep(q),
         q.key_frame_count % q.segment_num = 0,
         NEW d, d = AtKey(CountKey(q))
  PROVE  /\ Fit(d.ctx) /\ d.ctx.opened = 1 /\ d.ctx.used = 0
         /\ Last(d.ctx.segments).name \in Name /\ Last(d.ctx.segments).name.key > 0
<1>1. PICK k, n : k = q.key_frame_count /\ n = k \div q.segment_num
  OBVIOUS
<1>2. /\ k \in Nat /\ n \in Int /\ WellFormed(q.ctx) /\ q.ctx.opened = 1
      /\ \E m \in {0, 1} : d.ctx = Reopened(q.ctx, k, n, m)
  BY <1>1, CutStarts
<1>3. PICK m \in {0, 1} : d.ctx = Reopened(q.ctx, k, n, m)
  BY <1>2
<1>4. PICK c, e, g, h : c = q.ctx /\ e = CloseFragment(c) /\ g = NameFor(e, k, n) /\ h = d.ctx
  OBVIOUS
<1>5. k < U32
  BY <1>1, <1>2, U32Assumption
<1>6. /\ g \in Name /\ g.key = k /\ Last(h.segments).name = g
      /\ Fit(h) /\ h.opened = 1 /\ h.used = 0
  BY <1>2, <1>3, <1>4, <1>5, CutNamed
<1> QED
  BY <1>1, <1>4, <1>6

LEMMA SeekAtKey ==
  ASSUME NEW q, NEW os, Standing(q, os), Running(q), q.segment_num # 0, q.refused = {},
         q.key_frame_count > 0, q.key_frame_count + 1 < U32, InStep(q),
         NEW t \in Tag, t.type = "key", t.damage = "none",
         NEW qq, qq = HandleTag(q, t), Len(qq.ctx.segments) > Len(q.ctx.segments),
         NEW nm, nm = Last(qq.ctx.segments).name, nm.key > 0,
         NEW ss, ss = HandleTag(SeekFrom(nm, q.segment_num), t),
         NEW x, x = 1 => Spells(q.ctx, qq.ctx)
  PROVE  Alongside(qq, ss, Len(qq.ctx.segments), x)
<1>1. /\ t.ts \in Time /\ Picture(t) \in [ts : Nat, size : Nat, key : {0, 1}]
      /\ Picture(t).size + 6 <= VideoBufferSize
  BY TagType
<1>2. PICK v \in [ts : Nat, size : Nat, key : {0, 1}] : v = Picture(t)
  BY <1>1
<1>3. PICK q2 : q2 = [FirstPacket(q, t) EXCEPT !.hls_end_ts = t.ts]
  OBVIOUS
<1>4. /\ (\E oo : Standing(q2, oo)) /\ Fixed(q, q2) /\ q2.status = q.status /\ q2.flag_first_ts = 1
      /\ q2.key_frame_count = q.key_frame_count /\ InStep(q2) /\ q2.ctx.video_cc = q.ctx.video_cc
  <2>1. /\ Standing(q, os) /\ q.segment_num # 0 /\ q.refused = {} /\ InStep(q) /\ t.ts \in Time
    BY <1>1
  <2>2. Stamped(q, [FirstPacket(q, t) EXCEPT !.hls_end_ts = t.ts])
    BY <2>1, StampedIs
  <2> QED
    BY <1>3, <2>2 DEF Stamped
<1>5. PICK oo : Standing(q2, oo)
  BY <1>4
<1>6. Running(q2) /\ q2.refused = {} /\ q2.segment_num = q.segment_num
  BY <1>4 DEF Running, Fixed
<1>7. PICK q3 : q3 = AtKey(CountKey(q2))
  OBVIOUS
<1>8. q.segment_num \in Nat \ {0} /\ q.key_frame_count \in Nat /\ q2 \in Parser
  BY <1>5 DEF Standing, Base, Parser
<1>9. Running(FirstPacket(q, t))
  <2>1. FirstPacket(q, t).status = q.status
    <3>1. PICK o, n : o \in Opening /\ o.time = t.ts /\ n = 1 - q.flag_first_ts
      <4>1. [keys |-> 0, time |-> t.ts] \in Opening
        BY <1>1 DEF Opening
      <4> QED
        BY <4>1
    <3> QED
      BY <1>1, <3>1, FirstStep
  <2> QED
    BY <2>1 DEF Running
<1>10. CASE q2.key_frame_count % q2.segment_num = 0
  <2>1. q2.key_frame_count > 0 /\ q2.key_frame_count + 1 < U32
    BY <1>4
  <2>2. /\ Fit(q3.ctx) /\ q3.ctx.opened = 1 /\ q3.ctx.used = 0
        /\ Last(q3.ctx.segments).name \in Name /\ Last(q3.ctx.segments).name.key > 0
    BY <1>4, <1>5, <1>6, <1>7, <1>10, <2>1, KeyNames
  <2>3. q3.status = "running"
    <3>1. PICK o \in Opening : o.keys = q2.key_frame_count + 1 /\ o.time = q2.hls_end_ts
      <4>1. [keys |-> q2.key_frame_count + 1, time |-> q2.hls_end_ts] \in Opening
        BY <1>8 DEF Opening, Parser
      <4> QED
        BY <4>1
    <3>2. q3.status = q2.status
      BY <1>4, <1>5, <1>7, <1>10, <2>1, <3>1, KeyCuts
    <3> QED
      BY <1>6, <3>2 DEF Running
  <2>4. qq = [q3 EXCEPT !.ctx = VideoEx(@, v)]
    <3>1. HandleTag(q, t) = OnPicture(q, t)
      BY DEF HandleTag
    <3> QED
      BY <1>2, <1>3, <1>7, <1>9, <2>3, <3>1 DEF OnPicture, Picture, Running
  <2>5. PICK c : c = VideoEx(q3.ctx, v)
    OBVIOUS
  <2>6. qq.ctx = c
    <3>1. q3 \in Parser
      <4>1. PICK o \in Opening : o.keys = q2.key_frame_count + 1 /\ o.time = q2.hls_end_ts
        <5>1. [keys |-> q2.key_frame_count + 1, time |-> q2.hls_end_ts] \in Opening
          BY <1>8 DEF Opening, Parser
        <5> QED
          BY <5>1
      <4>2. Standing(q3, Append(oo, o))
        BY <1>4, <1>5, <1>7, <1>10, <2>1, <4>1, KeyCuts
      <4> QED
        BY <4>2 DEF Standing, Base
    <3> QED
      BY <2>4, <2>5, <3>1 DEF Parser
  <2>7. Filmed0(q3.ctx, c)
    BY <2>2, <2>5, FilmedFirst
  <2>8. nm = Last(q3.ctx.segments).name /\ Len(qq.ctx.segments) = Len(q3.ctx.segments)
    BY <2>6, <2>7 DEF Filmed0
  <2>9. x = 1 => /\ Survives(q2.ctx.video_cc) /\ Survives(q3.ctx.audio_cc)
                 /\ Survives(q3.ctx.aframe_base) /\ Survives(q3.ctx.aframe_pts)
    BY <1>4, <2>6, <2>7 DEF Filmed0, Spells
  <2>10. PICK b, s2, s3 : /\ b = SeekFrom(nm, q2.segment_num)
                          /\ s2 = [FirstPacket(b, t) EXCEPT !.hls_end_ts = t.ts]
                          /\ s3 = AtKey(CountKey(s2))
    OBVIOUS
  <2>11. Sought0(s2, nm, q2.segment_num)
    <3>1. nm \in Name /\ nm.key > 0 /\ q2.segment_num \in Nat \ {0}
      BY <1>6, <1>8, <2>2, <2>8
    <3>2. Sought0([FirstPacket(SeekFrom(nm, q2.segment_num), t) EXCEPT !.hls_end_ts = t.ts], nm, q2.segment_num)
      BY <1>1, <3>1, SeekComes
    <3> QED
      BY <2>10, <3>2
  <2>12. Alongside(q3, s3, Len(q3.ctx.segments), x)
    <3>1. /\ Standing(q2, oo) /\ Running(q2) /\ q2.flag_first_ts = 1 /\ q2.refused = {}
          /\ q2.key_frame_count > 0 /\ q2.key_frame_count + 1 < U32 /\ InStep(q2)
          /\ q2.key_frame_count % q2.segment_num = 0
      BY <1>4, <1>5, <1>6, <1>10, <2>1
    <3> QED
      BY <1>7, <2>8, <2>9, <2>10, <2>11, <3>1, KeyStarts
  <2>13. ss = [s3 EXCEPT !.ctx = VideoEx(@, v)]
    <3>1. HandleTag(b, t) = OnPicture(b, t)
      BY DEF HandleTag
    <3>2. s2.status = "running" /\ Running(s3)
      BY <2>11, <2>12 DEF Sought0, Alongside, Beside
    <3>3. Running(FirstPacket(b, t))
      BY <2>10, <3>2 DEF Running
    <3>4. ss = HandleTag(b, t)
      BY <1>6, <2>10
    <3> QED
      BY <1>2, <2>10, <3>1, <3>2, <3>3, <3>4 DEF OnPicture, Picture, Running
  <2>14. Alongside(qq, ss, Len(q3.ctx.segments), x)
    BY <1>1, <1>2, <2>4, <2>12, <2>13, AlongVideo
  <2> QED
    BY <2>8, <2>14
<1>11. CASE q2.key_frame_count % q2.segment_num # 0
  <2>1. q3 = CountKey(q2) /\ q3.ctx = q2.ctx
    <3>1. AtKey(CountKey(q2)) = CountKey(q2)
      BY <1>4, <1>5, <1>11, KeyPasses
    <3>2. CountKey(q2).ctx = q2.ctx
      BY <1>5, KeyCounts
    <3> QED
      BY <1>7, <3>1, <3>2
  <2>2. q.flag_first_ts \in {0, 1} /\ q.hls_end_ts \in Time
    BY DEF Standing, Base, Parser
  <2>3. PICK o, n : o \in Opening /\ o.time = t.ts /\ n = 1 - q.flag_first_ts
                                /\ o.keys = q.key_frame_count + 1
    <3>1. [keys |-> q.key_frame_count + 1, time |-> t.ts] \in Opening
      BY <1>1, <1>8 DEF Opening
    <3> QED
      BY <3>1
  <2>4. KeyCut(q, t) = 0
    BY <1>4, <1>6, <1>11 DEF KeyCut, Cut
  <2>5. PICK nn : nn = KeyCut(q, t)
    OBVIOUS
  <2>6. Standing(qq, Grown(Grown(os, n, o), nn, o)) /\ Fixed(q, qq)
        /\ (Opens(q) => TracksOf(qq.ctx) =
              WithVideo(Grown(Grown(TracksOf(q.ctx), n, EmptyTrack), nn, EmptyTrack), Picture(t)))
    BY <2>3, <2>5, PictureStands
  <2>7. Standing(qq, Grown(os, n, o)) /\ qq.refused = {}
    BY <2>4, <2>5, <2>6 DEF Grown, Fixed
  <2>8. CASE q.flag_first_ts = 0
    <3>1. n = 1 /\ os = <<>>
      BY <2>3, <2>8 DEF Standing
    <3>2. Standing(qq, Append(<<>>, o))
      BY <2>7, <3>1 DEF Grown
    <3>3. nm.key = 0
      BY <2>7, <3>2, OneNamed
    <3> QED
      BY <3>3
  <2>9. CASE q.flag_first_ts = 1
    <3>1. Standing(qq, os)
      BY <2>3, <2>7, <2>9 DEF Grown
    <3>2. Len(qq.ctx.segments) = Len(os) /\ Len(q.ctx.segments) = Len(os) /\ Len(os) \in Nat
      <4>1. Located(NamesOf(qq.ctx), os) /\ Located(NamesOf(q.ctx), os) /\ Fit(q.ctx) /\ Fit(qq.ctx)
            /\ os \in Seq(Opening)
        BY <2>7, <3>1, WellFormedFits DEF Standing, Base, Books, Opens
      <4> QED
        BY <4>1, SignedNames DEF Located
    <3> QED
      BY <3>2
  <2> QED
    BY <2>2, <2>8, <2>9
<1> QED
  BY <1>10, <1>11

(* No segment opens without a key. *)
LEMMA LengthIs ==
  ASSUME NEW q, NEW os, Standing(q, os), q.refused = {}
  PROVE  Len(q.ctx.segments) = Len(os) /\ Len(q.ctx.segments) \in Nat
<1>1. Located(NamesOf(q.ctx), os) /\ Fit(q.ctx)
  BY WellFormedFits DEF Standing, Base, Books, Opens
<1> QED
  BY <1>1, SignedNames DEF Located

LEMMA HeaderStays ==
  ASSUME NEW q, NEW os, Standing(q, os), q.key_frame_count > 0,
         NEW t \in Tag, t.type = "avcc", t.damage = "none",
         q.flag_first_ts = 0 \/ q.key_frame_count % q.segment_num # 0
  PROVE  HandleTag(q, t).ctx = q.ctx
<1>1. q.flag_first_ts \in {0, 1}
  BY DEF Standing, Base, Parser
<1>2. CASE q.flag_first_ts = 0
  BY <1>2, HeaderCrashes
<1>3. CASE q.flag_first_ts = 1
  <2>1. HandleTag(q, t) = AtKey(CountKey(q))
    BY HeaderCounts
  <2>2. AtKey(CountKey(q)) = CountKey(q)
    BY <1>3, KeyPasses
  <2>3. CountKey(q).ctx = q.ctx
    BY KeyCounts
  <2> QED
    BY <2>1, <2>2, <2>3
<1> QED
  BY <1>1, <1>2, <1>3

(* A tag that is no key. *)
Passes(q, d) ==
  /\ Running(d) /\ d.refused = q.refused /\ d.segment_num = q.segment_num
  /\ d.flag_first_ts = 1 /\ d.key_frame_count = q.key_frame_count

LEMMA PassStands ==
  ASSUME NEW q, NEW os, Standing(q, os), Running(q), q.segment_num # 0, q.refused = {},
         q.key_frame_count + 1 < U32,
         NEW t \in Tag, t.type \in {"inter", "aac"}, t.damage = "none",
         NEW o \in Opening, o.time = t.ts, o.keys = q.key_frame_count + 1, NEW n, n = 1 - q.flag_first_ts,
         NEW qq, qq = HandleTag(q, t)
  PROVE  Standing(qq, Grown(os, n, o)) /\ Passes(q, qq)
<1>1. CASE t.type = "aac"
  <2>1. /\ Standing(qq, Grown(os, n, o)) /\ Fixed(q, qq) /\ Running(qq)
        /\ qq.flag_first_ts = 1 /\ qq.key_frame_count = q.key_frame_count /\ qq.hls_end_ts = t.ts
    <3>1. Opens(q)
      BY DEF Opens
    <3> QED
      BY <1>1, <3>1, SoundStands
  <2> QED
    BY <2>1 DEF Fixed, Passes
<1>2. CASE t.type = "inter"
  <2>1. KeyCut(q, t) = 0
    BY <1>2 DEF KeyCut
  <2>2. PICK nn : nn = KeyCut(q, t)
    OBVIOUS
  <2>3. /\ Standing(qq, Grown(Grown(os, n, o), nn, o)) /\ Fixed(q, qq) /\ Running(qq)
        /\ qq.flag_first_ts = 1 /\ qq.hls_end_ts = t.ts
        /\ qq.key_frame_count = IF t.type = "key" THEN q.key_frame_count + 1 ELSE q.key_frame_count
        /\ Opens(q) => TracksOf(qq.ctx) =
             WithVideo(Grown(Grown(TracksOf(q.ctx), n, EmptyTrack), nn, EmptyTrack), Picture(t))
    BY <1>2, <2>2, PictureStands
  <2> QED
    BY <1>2, <2>1, <2>2, <2>3 DEF Grown, Fixed, Passes
<1> QED
  BY <1>1, <1>2

LEMMA PassStays ==
  ASSUME NEW q, NEW os, Standing(q, os), Running(q), q.flag_first_ts = 1, q.refused = {},
         q.key_frame_count + 1 < U32,
         NEW t \in Tag, t.type \in {"inter", "aac"}, t.damage = "none",
         NEW qq, qq = HandleTag(q, t)
  PROVE  ~(Len(qq.ctx.segments) > Len(q.ctx.segments))
<1>1. t.ts \in Time /\ q.key_frame_count \in Nat /\ q.segment_num # 0
  BY TagType DEF Standing, Base, Parser
<1>2. PICK o, n : o \in Opening /\ o.time = t.ts /\ n = 1 - q.flag_first_ts
                              /\ o.keys = q.key_frame_count + 1
  <2>1. [keys |-> q.key_frame_count + 1, time |-> t.ts] \in Opening
    BY <1>1 DEF Opening
  <2> QED
    BY <2>1
<1>3. Standing(qq, Grown(os, n, o)) /\ qq.refused = {}
  BY <1>1, <1>2, PassStands DEF Passes
<1>4. Standing(qq, os)
  BY <1>2, <1>3 DEF Grown
<1>5. Len(qq.ctx.segments) = Len(os) /\ Len(qq.ctx.segments) \in Nat
  BY <1>3, <1>4, LengthIs
<1>6. Len(q.ctx.segments) = Len(os)
  BY LengthIs
<1> QED
  BY <1>5, <1>6

LEMMA NoFirst ==
  ASSUME NEW q, NEW os, Standing(q, os), Running(q), q.segment_num # 0, q.refused = {},
         q.key_frame_count + 1 < U32,
         NEW t \in Tag, t.type \in {"inter", "aac"}, t.damage = "none",
         NEW qq, qq = HandleTag(q, t), Len(qq.ctx.segments) > Len(q.ctx.segments)
  PROVE  Last(qq.ctx.segments).name.key = 0
<1>1. q.flag_first_ts \in {0, 1} /\ t.ts \in Time /\ q.key_frame_count \in Nat
  BY TagType DEF Standing, Base, Parser
<1>2. PICK o, n : o \in Opening /\ o.time = t.ts /\ n = 1 - q.flag_first_ts
                              /\ o.keys = q.key_frame_count + 1
  <2>1. [keys |-> q.key_frame_count + 1, time |-> t.ts] \in Opening
    BY <1>1 DEF Opening
  <2> QED
    BY <2>1
<1>3. Standing(qq, Grown(os, n, o)) /\ qq.refused = {}
  BY <1>2, PassStands DEF Passes
<1>4. CASE q.flag_first_ts = 0
  <2>1. n = 1 /\ os = <<>>
    BY <1>2, <1>4 DEF Standing
  <2>2. Standing(qq, Append(<<>>, o))
    BY <1>3, <2>1 DEF Grown
  <2> QED
    BY <1>3, <2>2, OneNamed
<1>5. CASE q.flag_first_ts = 1
  BY <1>5, PassStays
<1> QED
  BY <1>1, <1>4, <1>5

(* Where a seek run can start. *)
LEMMA SeekStarts ==
  ASSUME NEW q, NEW os, Standing(q, os), Running(q), q.refused = {},
         q.key_frame_count > 0, q.key_frame_count + 1 < U32, InStep(q),
         NEW t \in Tag, t.damage = "none",
         NEW qq, qq = HandleTag(q, t), Len(qq.ctx.segments) > Len(q.ctx.segments),
         NEW nm, nm = Last(qq.ctx.segments).name, nm.key > 0,
         NEW ss, ss = HandleTag(SeekFrom(nm, q.segment_num), t),
         NEW x, x = 1 => Spells(q.ctx, qq.ctx)
  PROVE  Waiting(qq, ss, Len(qq.ctx.segments), x) \/ Alongside(qq, ss, Len(qq.ctx.segments), x)
<1>1. t.type \in {"avcc", "key", "inter", "aac", "other"} /\ q.flag_first_ts \in {0, 1}
  BY TagType DEF Standing, Base, Parser
<1>2. Len(q.ctx.segments) \in Nat /\ ~(Len(q.ctx.segments) > Len(q.ctx.segments))
  BY LengthIs
<1>3. CASE t.type = "other"
  <2>1. qq = q
    BY <1>3 DEF HandleTag
  <2> QED
    BY <1>2, <2>1
<1>4. CASE t.type = "avcc"
  <2>1. CASE q.flag_first_ts = 0 \/ q.key_frame_count % q.segment_num # 0
    <3>1. HandleTag(q, t).ctx = q.ctx
      BY <1>4, <2>1, HeaderStays
    <3> QED
      BY <1>2, <3>1
  <2>2. CASE q.flag_first_ts = 1 /\ q.key_frame_count % q.segment_num = 0
    <3>1. x = 1 => /\ Survives(q.ctx.video_cc) /\ Survives(qq.ctx.audio_cc)
                   /\ Survives(qq.ctx.aframe_base) /\ Survives(qq.ctx.aframe_pts)
      BY DEF Spells
    <3> QED
      BY <1>4, <2>2, <3>1, SeekAtHeader
  <2> QED
    BY <1>1, <2>1, <2>2
<1>5. CASE t.type \in {"key", "inter", "aac"} /\ q.segment_num = 0
  <2>1. qq.ctx.segments = <<>>
    BY <1>5, MediaCrashes DEF Unstarted
  <2>2. Len(qq.ctx.segments) = 0
    BY <2>1
  <2> QED
    BY <1>2, <2>2
<1>6. CASE t.type = "key" /\ q.segment_num # 0
  BY <1>6, SeekAtKey
<1>7. CASE t.type \in {"inter", "aac"} /\ q.segment_num # 0
  <2>1. nm.key = 0
    BY <1>7, NoFirst
  <2> QED
    BY <2>1
<1> QED
  BY <1>1, <1>3, <1>4, <1>5, <1>6, <1>7

(* d is in c, from its f-th segment on. *)
Copied(c, d, f) == \A i \in 1 .. Len(d.segments) : d.segments[i] = c.segments[f - 1 + i]

(* The seek run has stopped. *)
Halted(c, s, f, x) ==
  /\ ~Running(s) /\ Fit(c) /\ Fit(s.ctx) /\ Follows(c, s.ctx, f)
  /\ IF s.status = "crashed" THEN s.key_frame_count = 2 /\ s.flag_first_ts = 0
     ELSE x = 1 => Copied(c, s.ctx, f)

LEMMA WaitMedia ==
  ASSUME NEW q, NEW s, NEW f, NEW x, Waiting(q, s, f, x), q.key_frame_count + 1 < U32,
         NEW t \in Tag, t.type \in {"key", "inter", "aac"}, t.damage = "none"
  PROVE  Alongside(HandleTag(q, t), HandleTag(s, t), f, x)
<1>1. t.ts \in Time
  BY TagType
<1>2. PICK e : e = FirstPacket(s, t)
  OBVIOUS
<1>3. Alongside(q, e, f, x)
  BY <1>1, <1>2, WaitOpens
<1>4. FirstPacket(e, t) = e
  BY <1>3 DEF FirstPacket, Alongside
<1>5. HandleTag(e, t) = HandleTag(s, t)
  <2>1. OnSound(e, t) = OnSound(s, t)
    BY <1>2, <1>4 DEF OnSound
  <2>2. OnPicture(e, t) = OnPicture(s, t)
    BY <1>2, <1>4 DEF OnPicture
  <2> QED
    BY <2>1, <2>2 DEF HandleTag
<1>6. Alongside(HandleTag(q, t), HandleTag(e, t), f, x)
  BY <1>3, AlongTag
<1> QED
  BY <1>5, <1>6

LEMMA WaitHeader ==
  ASSUME NEW q, NEW s, NEW f, NEW x, Waiting(q, s, f, x), q.key_frame_count + 1 < U32,
         NEW t \in Tag, t.type = "avcc", t.damage = "none",
         NEW qq, qq = HandleTag(q, t), NEW ss, ss = HandleTag(s, t)
  PROVE  Running(qq) /\ Halted(qq.ctx, ss, f, x)
<1>1. PICK os : Standing(q, os)
  BY DEF Waiting, Beside
<1>2. /\ Beside(q, s) /\ Running(q) /\ q.flag_first_ts = 1 /\ q.refused = {} /\ s \in SoughtParser
      /\ s.key_frame_count = 1 /\ s.hls_segment_num = 0 /\ s.flag_first_ts = 0
      /\ s.ctx.opened = 0 /\ s.ctx.used = 0 /\ s.ctx.segments = <<>> /\ Fit(s.ctx)
      /\ q.key_frame_count = 1 + s.key_ID_start
      /\ Matched(q.ctx, Reopened(s.ctx, s.key_ID_start, s.key_ID_start \div q.segment_num, 0), f, x)
  BY DEF Waiting, Beside
<1>3. q.key_frame_count \in Nat /\ q.hls_end_ts \in Time
  BY <1>1 DEF Standing, Base, Parser
<1>4. PICK o \in Opening : o.keys = q.key_frame_count + 1 /\ o.time = q.hls_end_ts
  <2>1. [keys |-> q.key_frame_count + 1, time |-> q.hls_end_ts] \in Opening
    BY <1>3 DEF Opening
  <2> QED
    BY <2>1
<1>5. PICK n : n = HeaderCut(q)
  OBVIOUS
<1>6. Standing(qq, Grown(os, n, o)) /\ Fixed(q, qq) /\ Running(qq)
  BY <1>1, <1>2, <1>4, <1>5, HeaderHandled
<1>7. qq.refused = {}
  BY <1>2, <1>6 DEF Fixed
<1>8. Len(qq.ctx.segments) >= Len(q.ctx.segments) /\ Len(qq.ctx.segments) \in Nat /\ Len(q.ctx.segments) \in Nat
  <2>1. Len(qq.ctx.segments) = Len(Grown(os, n, o)) /\ Len(qq.ctx.segments) \in Nat
    BY <1>6, <1>7, LengthIs
  <2>2. Len(q.ctx.segments) = Len(os) /\ Len(q.ctx.segments) \in Nat
    BY <1>1, <1>2, LengthIs
  <2>3. os \in Seq(Opening)
    BY <1>1 DEF Standing, Books
  <2>4. Len(Grown(os, n, o)) = Len(os) \/ Len(Grown(os, n, o)) = Len(os) + 1
    BY <2>3, Appended DEF Grown
  <2> QED
    BY <2>1, <2>2, <2>4
<1>9. Fit(q.ctx) /\ Fit(qq.ctx)
  BY <1>1, <1>6, WellFormedFits DEF Standing, Base
<1>10. PICK j \in Int, k \in Nat : j = s.key_ID_start \div q.segment_num /\ k = s.key_ID_start
  BY <1>2, BesideIs
<1>11. PICK r : r = Reopened(s.ctx, k, j, 0)
  OBVIOUS
<1>12. Len(NamesOf(r)) = 1 /\ NamesOf(s.ctx) = <<>>
  <2>1. CutIs(s.ctx, k, j, Reopened(s.ctx, k, j, 0))
    BY <1>2, ReopenedFits
  <2>2. NamesOf(s.ctx) = <<>>
    BY <1>2 DEF NamesOf
  <2>3. PICK nm : NamesOf(r) = Append(<<>>, nm)
    BY <1>11, <2>1, <2>2 DEF CutIs
  <2>4. NamesOf(r) = <<nm>>
    BY <2>3
  <2>5. Len(NamesOf(r)) = 1
    BY <2>4
  <2> QED
    BY <2>2, <2>5
<1>13. f \in Nat \ {0} /\ Len(NamesOf(q.ctx)) = Len(NamesOf(r)) + f - 1
  <2>1. Matched(q.ctx, r, f, x)
    BY <1>2, <1>10, <1>11
  <2> QED
    BY <2>1 DEF Matched, Placed, Follows
<1>14. Len(NamesOf(qq.ctx)) = Len(qq.ctx.segments) /\ Len(NamesOf(q.ctx)) = Len(q.ctx.segments)
  BY <1>9, SignedNames
<1>15. PICK e : e = CountKey(s)
  OBVIOUS
<1>16. /\ e \in SoughtParser /\ e.ctx = s.ctx /\ e.flag_first_ts = s.flag_first_ts
       /\ e.hls_segment_num = s.hls_segment_num /\ e.key_frame_count = s.key_frame_count + 1
  BY <1>2, <1>15, SoughtCounts
<1>17. e.key_frame_count = 2
  BY <1>2, <1>16
<1>18. ss = Crash(e)
  <2>1. ss = OnSequenceHeader(s)
    BY DEF HandleTag
  <2>2. ~(s.key_ID_start # 0 /\ s.key_frame_count = 0) /\ e.key_frame_count > 1
    BY <1>2, <1>17
  <2>3. ss = AtKey(e)
    BY <1>15, <2>1, <2>2 DEF OnSequenceHeader
  <2> QED
    BY <1>2, <1>16, <2>3 DEF AtKey
<1>19. ss.status = "crashed" /\ ss.key_frame_count = 2 /\ ss.flag_first_ts = 0 /\ ss.ctx = s.ctx
  BY <1>2, <1>16, <1>17, <1>18 DEF Crash, SoughtParser
<1>20. Follows(qq.ctx, ss.ctx, f)
  <2>1. Len(NamesOf(ss.ctx)) = 0 /\ 1 .. Len(NamesOf(ss.ctx)) = {}
    BY <1>12, <1>19
  <2>2. Len(NamesOf(qq.ctx)) >= Len(NamesOf(ss.ctx)) + f - 1
    BY <1>8, <1>12, <1>13, <1>14, <2>1
  <2> QED
    BY <1>13, <2>1, <2>2 DEF Follows
<1>21. ~Running(ss) /\ Fit(ss.ctx)
  BY <1>2, <1>19 DEF Running
<1> QED
  BY <1>6, <1>9, <1>19, <1>20, <1>21 DEF Halted

(* Both runs read a tag. *)
LEMMA BothRead ==
  ASSUME NEW q, NEW s, NEW f, NEW x, Waiting(q, s, f, x) \/ Alongside(q, s, f, x), q.key_frame_count + 1 < U32,
         NEW t \in Tag, t.damage = "none",
         NEW qq, qq = HandleTag(q, t), NEW ss, ss = HandleTag(s, t)
  PROVE  \/ Waiting(qq, ss, f, x)
         \/ Alongside(qq, ss, f, x)
         \/ Running(qq) /\ Halted(qq.ctx, ss, f, x)
<1>1. t.type \in {"avcc", "key", "inter", "aac", "other"}
  BY TagType
<1>2. CASE Alongside(q, s, f, x)
  BY <1>2, AlongTag
<1>3. CASE Waiting(q, s, f, x) /\ t.type = "other"
  <2>1. qq = q /\ ss = s
    BY <1>3 DEF HandleTag
  <2> QED
    BY <1>3, <2>1
<1>4. CASE Waiting(q, s, f, x) /\ t.type = "avcc"
  BY <1>4, WaitHeader
<1>5. CASE Waiting(q, s, f, x) /\ t.type \in {"key", "inter", "aac"}
  BY <1>5, WaitMedia
<1> QED
  BY <1>1, <1>2, <1>3, <1>4, <1>5

-----------------------------------------------------------------------------
(* Seek runs: the end.  What a run has written once its last segment is    *)
(* closed is in what the other has then, and keeps.                        *)
Kept0(c, g) ==
  /\ Fit(g) /\ Len(g.segments) >= Len(c.segments)
  /\ \A i \in 1 .. Len(c.segments) : g.segments[i] = c.segments[i]

LEMMA Halts ==
  ASSUME NEW c, Fit(c), NEW d, Fit(d), NEW f, Placed(c, d, f), NEW x, x = 1 => Shifted(c, d, f),
         NEW g, Kept0(CloseFragment(c), g),
         NEW s, s.ctx = CloseFragment(d), s.status = "finished"
  PROVE  Halted(g, s, f, x)
<1>1. PICK e, h : e = CloseFragment(c) /\ h = CloseFragment(d)
  OBVIOUS
<1>2. Fit(e) /\ Fit(h) /\ NamesOf(e) = NamesOf(c) /\ NamesOf(h) = NamesOf(d)
  BY <1>1, CloseFits
<1>3. /\ Fit(g) /\ Len(g.segments) >= Len(e.segments)
      /\ \A i \in 1 .. Len(e.segments) : g.segments[i] = e.segments[i]
  BY <1>1 DEF Kept0
<1>4. /\ Len(NamesOf(e)) = Len(e.segments) /\ Len(NamesOf(g)) = Len(g.segments)
      /\ Len(NamesOf(h)) = Len(h.segments) /\ Len(e.segments) \in Nat /\ Len(g.segments) \in Nat
      /\ Len(h.segments) \in Nat
  BY <1>2, <1>3, SignedNames
<1>5. /\ \A i \in 1 .. Len(e.segments) : NamesOf(e)[i] = e.segments[i].name
      /\ \A i \in 1 .. Len(g.segments) : NamesOf(g)[i] = g.segments[i].name
  BY <1>2, <1>3, SignedNames
<1>6. /\ f \in Nat \ {0} /\ Len(e.segments) = Len(h.segments) + f - 1
      /\ \A i \in 1 .. Len(h.segments) :
           /\ NamesOf(h)[i].key = NamesOf(e)[f - 1 + i].key
           /\ NamesOf(h)[i].count = NamesOf(e)[f - 1 + i].count
  BY <1>2, <1>4 DEF Placed, Follows
<1>7. ASSUME NEW i \in 1 .. Len(h.segments)
      PROVE  /\ f - 1 + i \in 1 .. Len(e.segments) /\ f - 1 + i \in 1 .. Len(g.segments)
             /\ NamesOf(g)[f - 1 + i] = NamesOf(e)[f - 1 + i]
             /\ g.segments[f - 1 + i] = e.segments[f - 1 + i]
  <2>1. f - 1 + i \in 1 .. Len(e.segments) /\ f - 1 + i \in 1 .. Len(g.segments)
    BY <1>3, <1>4, <1>6
  <2>2. PICK j \in 1 .. Len(e.segments) : j = f - 1 + i /\ j \in 1 .. Len(g.segments)
    BY <2>1
  <2>3. g.segments[j] = e.segments[j] /\ NamesOf(g)[j] = NamesOf(e)[j]
    BY <1>3, <1>5, <2>2
  <2> QED
    BY <2>1, <2>2, <2>3
<1>8. Follows(g, h, f)
  <2>1. Len(NamesOf(g)) >= Len(NamesOf(h)) + f - 1
    BY <1>3, <1>4, <1>6
  <2>2. \A i \in 1 .. Len(NamesOf(h)) :
          /\ NamesOf(h)[i].key = NamesOf(g)[f - 1 + i].key
          /\ NamesOf(h)[i].count = NamesOf(g)[f - 1 + i].count
    BY <1>4, <1>6, <1>7
  <2> QED
    BY <1>6, <2>1, <2>2 DEF Follows
<1>9. ASSUME x = 1 PROVE Copied(g, h, f)
  <2>1. Shifted(e, h, f)
    BY <1>1, <1>9, CarriedFrames
  <2>2. PICK pre \in SignedSegments, m \in {0, 1} : Len(pre) = f - 1 /\ e = Behind(pre, m, h)
    BY <2>1 DEF Shifted
  <2>3. e.segments = pre \o h.segments
    BY <1>2, <2>2, BehindFits
  <2>4. ASSUME NEW i \in 1 .. Len(h.segments) PROVE h.segments[i] = e.segments[f - 1 + i]
    <3>1. pre \in Seq([name : Name, frames : Seq(SignedPacket)])
          /\ h.segments \in Seq([name : Name, frames : Seq(SignedPacket)])
      BY <1>2, SignedBasics DEF Fit, SignedContext
    <3>2. (pre \o h.segments)[Len(pre) + i] = h.segments[i]
      BY <3>1
    <3>3. Len(pre) + i = f - 1 + i
      BY <2>2
    <3> QED
      BY <2>3, <3>2, <3>3
  <2>5. ASSUME NEW i \in 1 .. Len(h.segments) PROVE h.segments[i] = g.segments[f - 1 + i]
    BY <1>7, <2>4
  <2> QED
    BY <2>5 DEF Copied
<1> QED
  BY <1>1, <1>2, <1>3, <1>8, <1>9 DEF Halted, Running

(* A run that waits has written nothing. *)
LEMMA WaitHalts ==
  ASSUME NEW q, NEW s, NEW f, NEW x, Waiting(q, s, f, x),
         NEW g, Fit(g), Len(g.segments) >= Len(q.ctx.segments),
         NEW d, d.ctx = CloseFragment(s.ctx), d.status = "finished"
  PROVE  Halted(g, d, f, x)
<1>1. /\ Beside(q, s) /\ Fit(s.ctx) /\ s.ctx.opened = 0 /\ s.ctx.used = 0 /\ s.ctx.segments = <<>>
      /\ Matched(q.ctx, Reopened(s.ctx, s.key_ID_start, s.key_ID_start \div q.segment_num, 0), f, x)
  BY DEF Waiting, Beside
<1>2. d.ctx = s.ctx
  BY <1>1 DEF CloseFragment
<1>3. PICK j \in Int, k \in Nat : j = s.key_ID_start \div q.segment_num /\ k = s.key_ID_start
  BY <1>1, BesideIs
<1>4. PICK r : r = Reopened(s.ctx, k, j, 0)
  OBVIOUS
<1>5. Len(NamesOf(r)) = 1 /\ NamesOf(s.ctx) = <<>>
  <2>1. CutIs(s.ctx, k, j, Reopened(s.ctx, k, j, 0))
    BY <1>1, ReopenedFits
  <2>2. NamesOf(s.ctx) = <<>>
    BY <1>1 DEF NamesOf
  <2>3. PICK nm : NamesOf(r) = Append(<<>>, nm)
    BY <1>4, <2>1, <2>2 DEF CutIs
  <2>4. NamesOf(r) = <<nm>>
    BY <2>3
  <2>5. Len(NamesOf(r)) = 1
    BY <2>4
  <2> QED
    BY <2>2, <2>5
<1>6. f \in Nat \ {0} /\ Len(NamesOf(q.ctx)) = Len(NamesOf(r)) + f - 1
  <2>1. Matched(q.ctx, r, f, x)
    BY <1>1, <1>3, <1>4
  <2> QED
    BY <2>1 DEF Matched, Placed, Follows
<1>7. Len(NamesOf(g)) = Len(g.segments) /\ Len(NamesOf(q.ctx)) = Len(q.ctx.segments)
      /\ Len(g.segments) \in Nat /\ Len(q.ctx.segments) \in Nat
  BY <1>1, BesideIs, SignedNames
<1>8. Follows(g, s.ctx, f)
  <2>1. Len(NamesOf(s.ctx)) = 0 /\ 1 .. Len(NamesOf(s.ctx)) = {}
    BY <1>5
  <2>2. Len(NamesOf(g)) >= Len(NamesOf(s.ctx)) + f - 1
    BY <1>5, <1>6, <1>7, <2>1
  <2> QED
    BY <1>6, <2>1, <2>2 DEF Follows
<1>9. Copied(g, s.ctx, f)
  <2>1. 1 .. Len(s.ctx.segments) = {}
    BY <1>1
  <2> QED
    BY <2>1 DEF Copied
<1> QED
  BY <1>1, <1>2, <1>8, <1>9 DEF Halted, Running

(* The last segment of the whole run. *)
LEMMA WholeEnds ==
  ASSUME NEW q, NEW os, Standing(q, os), Running(q), q.refused = {}, NEW d, d = FinishSegments(q)
  PROVE  d.status = "finished" /\ Fit(d.ctx) /\ d.ctx = CloseFragment(q.ctx)
<1>1. Ended(d, os) /\ Fixed(q, d)
  BY FinishHandled
<1>2. d.status = "finished" /\ Fit(d.ctx)
  <2>1. os \in Seq(Opening) /\ d.refused = {}
    BY <1>1 DEF Standing, Books, Fixed
  <2> QED
    BY <1>1, <2>1, EndedOpen, WellFormedFits DEF Ended, Base, Opens
<1>3. q \in Parser /\ Base(q) /\ (Shut(q) \/ Open(q, Len(os))) /\ Fit(q.ctx)
  BY WellFormedFits DEF Standing, Base
<1>4. PICK e : e = [q EXCEPT !.flag_over = 1]
  OBVIOUS
<1>5. /\ e \in Parser /\ e.ctx = q.ctx /\ e.ts_start_flag = q.ts_start_flag /\ e.flag_over = 1
      /\ e.hls_content = q.hls_content /\ HasPlaylist(e) = HasPlaylist(q) /\ e.hls_file = q.hls_file
  BY <1>3, <1>4 DEF Parser, HasPlaylist
<1>6. PICK c : c = CloseFragment(q.ctx)
  OBVIOUS
<1>7. PICK x : x = CloseSegment(e)
  OBVIOUS
<1>8. x \in Parser /\ x.ctx = c
  <2>1. CASE Shut(q)
    <3>1. x = e /\ c = q.ctx
      BY <1>5, <1>6, <1>7, <2>1 DEF CloseSegment, Shut, CloseFragment
    <3> QED
      BY <1>5, <3>1
  <2>2. CASE Open(q, Len(os))
    <3>1. c \in WriterType
      BY <1>3, <1>6, <2>2, ContextCloses
    <3>2. e.ts_start_flag = 1 /\ (HasPlaylist(e) => e.hls_content # <<>>)
      BY <1>5, <2>2 DEF Open, Tallied
    <3> QED
      BY <1>5, <1>6, <1>7, <3>1, <3>2, SegmentCloses
  <2> QED
    BY <1>3, <2>1, <2>2
<1>9. PICK y : y = OpenPlaylist(x)
  OBVIOUS
<1>10. y \in Parser /\ y.ctx = c
  BY <1>8, <1>9, PlaylistOpens
<1>11. EndPlaylist(y).ctx = c
  BY <1>10 DEF EndPlaylist, Crash, Parser
<1>12. HlsSegment(e) = EndPlaylist(y)
  BY <1>5, <1>7, <1>9 DEF HlsSegment
<1>13. d.ctx = c
  <2>1. CASE HlsSegment(e).status = "running"
    <3>1. d = [HlsSegment(e) EXCEPT !.status = "finished"]
      BY <1>4, <2>1 DEF FinishSegments, Running
    <3> QED
      BY <1>11, <1>12, <3>1
  <2>2. CASE HlsSegment(e).status # "running"
    <3>1. d = HlsSegment(e)
      BY <1>4, <2>2 DEF FinishSegments, Running
    <3> QED
      BY <1>11, <1>12, <3>1
  <2> QED
    BY <2>1, <2>2
<1> QED
  BY <1>2, <1>6, <1>13

(* A cut keeps what the segment closed has. *)
LEMMA CutKeeps ==
  ASSUME NEW q, NEW os, Standing(q, os), Running(q), q.flag_first_ts = 1, q.refused = {},
         q.key_frame_count + 1 < U32, q.key_frame_count % q.segment_num = 0,
         NEW d, d = AtKey(CountKey(q))
  PROVE  /\ Kept0(CloseFragment(q.ctx), d.ctx) /\ Running(d) /\ d \in Parser
         /\ Len(d.ctx.segments) = Len(CloseFragment(q.ctx).segments) + 1
<1>1. q \in Parser /\ Fit(q.ctx) /\ WellFormed(q.ctx)
  BY WellFormedFits DEF Standing, Base
<1>2. q.ctx.opened = 1 /\ q.key_frame_count \in Nat /\ q.ts_count \in Nat /\ q.hls_end_ts \in Time
  BY <1>1, OpenedContext DEF Opens, Parser
<1>3. PICK o \in Opening : o.keys = q.key_frame_count + 1 /\ o.time = q.hls_end_ts
  <2>1. [keys |-> q.key_frame_count + 1, time |-> q.hls_end_ts] \in Opening
    BY <1>2 DEF Opening
  <2> QED
    BY <2>1
<1>4. Standing(d, Append(os, o)) /\ d.status = q.status
  BY <1>3, KeyCuts
<1>5. PICK m \in {0, 1} : d.ctx = Reopened(q.ctx, q.key_frame_count, q.ts_count + 1, m)
  BY KeyReopens
<1>6. PICK k \in Int, n \in Int : k = q.key_frame_count /\ n = q.ts_count + 1
  BY <1>2
<1>7. PICK c, e, r : c = q.ctx /\ e = CloseFragment(c) /\ r = Reopened(c, k, n, m)
  OBVIOUS
<1>8. Fit(c) /\ (c.opened = 1 \/ c.used = 0) /\ Fit(e)
  <2>1. Fit(c) /\ c.opened = 1
    BY <1>1, <1>2, <1>7
  <2> QED
    BY <1>7, <2>1, CloseFits
<1>9. CutIs(c, k, n, r)
  BY <1>7, <1>8, ReopenedFits
<1>10. /\ Fit(r) /\ Len(r.segments) = Len(e.segments) + 1 /\ Len(e.segments) \in Nat
       /\ \A i \in 1 .. Len(e.segments) : r.segments[i] = e.segments[i]
  BY <1>7, <1>8, <1>9, SignedNames DEF CutIs
<1>11. Kept0(e, r)
  <2>1. Len(r.segments) >= Len(e.segments)
    BY <1>10
  <2> QED
    BY <1>10, <2>1 DEF Kept0
<1>12. d.ctx = r
  BY <1>5, <1>6, <1>7
<1>13. Running(d) /\ d \in Parser
  BY <1>4 DEF Running, Standing, Base
<1> QED
  BY <1>7, <1>10, <1>11, <1>12, <1>13

LEMMA FilmKeeps ==
  ASSUME NEW e, Fit(e), NEW r, Kept0(e, r), Len(r.segments) = Len(e.segments) + 1,
         NEW v \in [ts : Nat, size : Nat, key : {0, 1}]
  PROVE  Kept0(e, VideoEx(r, v))
<1>1. PICK d : d = VideoEx(r, v)
  OBVIOUS
<1>2. Fit(r)
  BY DEF Kept0
<1>3. Fit(d) /\ Fronted(r, d)
  <2>1. Fit(VideoEx(r, v))
    BY <1>2, VideoFits
  <2>2. Fronted(r, VideoEx(r, v))
    BY <1>2, VideoFront
  <2> QED
    BY <1>1, <2>1, <2>2
<1>4. PICK n \in Nat : n = Len(e.segments)
  BY SignedNames
<1>5. Len(d.segments) = n + 1 /\ \A i \in 1 .. n : d.segments[i] = r.segments[i]
  <2>1. 1 .. Len(r.segments) - 1 = 1 .. n
    BY <1>4
  <2> QED
    BY <1>3, <1>4, <2>1 DEF Fronted
<1>6. \A i \in 1 .. n : r.segments[i] = e.segments[i]
  BY <1>4 DEF Kept0
<1>7. Len(d.segments) >= Len(e.segments)
  BY <1>4, <1>5
<1> QED
  BY <1>1, <1>3, <1>4, <1>5, <1>6, <1>7 DEF Kept0

(* The whole run cuts: at a header, or at a key frame. *)
LEMMA HeaderKeeps ==
  ASSUME NEW q, NEW os, Standing(q, os), Running(q), q.flag_first_ts = 1, q.refused = {},
         q.key_frame_count > 0, q.key_frame_count + 1 < U32,
         NEW t \in Tag, t.type = "avcc", t.damage = "none",
         NEW qq, qq = HandleTag(q, t), Len(qq.ctx.segments) > Len(q.ctx.segments)
  PROVE  Kept0(CloseFragment(q.ctx), qq.ctx) /\ Running(qq)
<1>1. Len(q.ctx.segments) \in Nat
  BY LengthIs
<1>2. q.key_frame_count % q.segment_num = 0
  <2>1. ASSUME q.key_frame_count % q.segment_num # 0 PROVE FALSE
    <3>1. HandleTag(q, t).ctx = q.ctx
      BY <2>1, HeaderStays
    <3> QED
      BY <1>1, <3>1
  <2> QED
    BY <2>1
<1>3. qq = AtKey(CountKey(q))
  BY HeaderCounts
<1> QED
  BY <1>2, <1>3, CutKeeps

LEMMA PictureKeeps ==
  ASSUME NEW q, NEW os, Standing(q, os), Running(q), q.flag_first_ts = 1, q.refused = {},
         q.key_frame_count + 1 < U32,
         NEW t \in Tag, t.type = "key", t.damage = "none",
         NEW qq, qq = HandleTag(q, t), Len(qq.ctx.segments) > Len(q.ctx.segments)
  PROVE  Kept0(CloseFragment(q.ctx), qq.ctx) /\ Running(qq)
<1>1. t.ts \in Time /\ Picture(t) \in [ts : Nat, size : Nat, key : {0, 1}]
  BY TagType
<1>2. PICK v \in [ts : Nat, size : Nat, key : {0, 1}] : v = Picture(t)
  BY <1>1
<1>3. PICK q2 : q2 = [q EXCEPT !.hls_end_ts = t.ts]
  OBVIOUS
<1>4. /\ Standing(q2, os) /\ Fixed(q, q2) /\ q2.status = q.status /\ q2.ctx = q.ctx
      /\ q2.flag_first_ts = 1 /\ q2.key_frame_count = q.key_frame_count
  BY <1>1, <1>3, TimeStamped
<1>5. Running(q2) /\ q2.refused = {} /\ q2.segment_num = q.segment_num /\ q.key_frame_count \in Nat
  BY <1>4 DEF Running, Fixed, Standing, Base, Parser
<1>6. q.key_frame_count % q.segment_num = 0
  <2>1. ASSUME q.key_frame_count % q.segment_num # 0 PROVE FALSE
    <3>1. PICK n : n = 1 - q.flag_first_ts
      OBVIOUS
    <3>2. PICK o \in Opening : o.time = t.ts /\ o.keys = q.key_frame_count + 1
      <4>1. [keys |-> q.key_frame_count + 1, time |-> t.ts] \in Opening
        BY <1>1, <1>5 DEF Opening
      <4> QED
        BY <4>1
    <3>3. KeyCut(q, t) = 0
      BY <2>1 DEF KeyCut, Cut
    <3>4. PICK nn : nn = KeyCut(q, t)
      OBVIOUS
    <3>5. q.segment_num # 0
      BY DEF Standing
    <3>6. Standing(qq, Grown(Grown(os, n, o), nn, o)) /\ Fixed(q, qq)
        /\ (Opens(q) => TracksOf(qq.ctx) =
              WithVideo(Grown(Grown(TracksOf(q.ctx), n, EmptyTrack), nn, EmptyTrack), Picture(t)))
      BY <3>1, <3>2, <3>4, <3>5, PictureStands
    <3>7. Standing(qq, os) /\ qq.refused = {}
      BY <3>1, <3>3, <3>4, <3>6 DEF Grown, Fixed
    <3>8. Len(qq.ctx.segments) = Len(os) /\ Len(qq.ctx.segments) \in Nat
      BY <3>7, LengthIs
    <3>9. Len(q.ctx.segments) = Len(os)
      BY LengthIs
    <3> QED
      BY <3>8, <3>9
  <2> QED
    BY <2>1
<1>7. PICK q3 : q3 = AtKey(CountKey(q2))
  OBVIOUS
<1>8. PICK e : e = CloseFragment(q.ctx)
  OBVIOUS
<1>9. /\ Kept0(e, q3.ctx) /\ Running(q3) /\ q3 \in Parser
      /\ Len(q3.ctx.segments) = Len(e.segments) + 1
  <2>1. /\ Standing(q2, os) /\ Running(q2) /\ q2.flag_first_ts = 1 /\ q2.refused = {}
        /\ q2.key_frame_count + 1 < U32 /\ q2.key_frame_count % q2.segment_num = 0
    BY <1>4, <1>5, <1>6
  <2>2. e = CloseFragment(q2.ctx)
    BY <1>4, <1>8
  <2> QED
    BY <1>7, <2>1, <2>2, CutKeeps
<1>10. Fit(e)
  <2>1. Fit(q.ctx)
    BY WellFormedFits DEF Standing, Base
  <2> QED
    BY <1>8, <2>1, CloseFits
<1>11. qq = [q3 EXCEPT !.ctx = VideoEx(@, v)]
  <2>1. HandleTag(q, t) = OnPicture(q, t)
    BY DEF HandleTag
  <2>2. FirstPacket(q, t) = q
    BY DEF FirstPacket
  <2> QED
    BY <1>2, <1>3, <1>7, <1>9, <2>1, <2>2 DEF OnPicture, Picture
<1>12. PICK c : c = VideoEx(q3.ctx, v)
  OBVIOUS
<1>13. qq.ctx = c /\ Running(qq)
  BY <1>9, <1>11, <1>12 DEF Parser, Running
<1>14. Kept0(e, c)
  BY <1>9, <1>10, <1>12, FilmKeeps
<1> QED
  BY <1>8, <1>13, <1>14

LEMMA TagKeeps ==
  ASSUME NEW q, NEW os, Standing(q, os), Running(q), q.flag_first_ts = 1, q.refused = {},
         q.key_frame_count > 0, q.key_frame_count + 1 < U32,
         NEW t \in Tag, t.damage = "none",
         NEW qq, qq = HandleTag(q, t), Len(qq.ctx.segments) > Len(q.ctx.segments)
  PROVE  Kept0(CloseFragment(q.ctx), qq.ctx) /\ Running(qq)
<1>1. t.type \in {"avcc", "key", "inter", "aac", "other"}
  BY TagType
<1>2. CASE t.type = "other"
  <2>1. qq = q
    BY <1>2 DEF HandleTag
  <2>2. Len(q.ctx.segments) \in Nat
    BY LengthIs
  <2> QED
    BY <2>1, <2>2
<1>3. CASE t.type = "avcc"
  BY <1>3, HeaderKeeps
<1>4. CASE t.type = "key"
  BY <1>4, PictureKeeps
<1>5. CASE t.type \in {"inter", "aac"}
  BY <1>5, PassStays
<1> QED
  BY <1>1, <1>2, <1>3, <1>4, <1>5

(* A seek run is closed. *)
LEMMA SeekCloses ==
  ASSUME NEW q, NEW s, NEW f, NEW x, Waiting(q, s, f, x) \/ Alongside(q, s, f, x),
         NEW d, d = FinishSegments(s)
  PROVE  d.ctx = CloseFragment(s.ctx) /\ d.status = "finished" /\ Fit(s.ctx) /\ Beside(q, s)
<1>1. /\ s \in SoughtParser /\ Fit(s.ctx) /\ Running(s) /\ (s.ts_start_flag = 0 => s.ctx.opened = 0)
      /\ Beside(q, s)
  <2>1. CASE Waiting(q, s, f, x)
    BY <2>1 DEF Waiting, Beside
  <2>2. CASE Alongside(q, s, f, x)
    BY <2>2 DEF Alongside, Beside
  <2> QED
    BY <2>1, <2>2
<1> QED
  BY <1>1, SoughtEnds

(* What the seek run leaves when the whole run goes on or ends with g. *)
LEMMA BothHalt ==
  ASSUME NEW q, NEW s, NEW f, NEW x, Waiting(q, s, f, x) \/ Alongside(q, s, f, x),
         NEW d, d = FinishSegments(s), NEW g, Kept0(CloseFragment(q.ctx), g)
  PROVE  Halted(g, d, f, x)
<1>1. d.ctx = CloseFragment(s.ctx) /\ d.status = "finished" /\ Fit(s.ctx) /\ Beside(q, s)
  BY SeekCloses
<1>2. Fit(q.ctx)
  BY <1>1, BesideIs
<1>3. CASE Alongside(q, s, f, x)
  <2>1. Placed(q.ctx, s.ctx, f) /\ (x = 1 => Shifted(q.ctx, s.ctx, f))
    BY <1>3 DEF Alongside, Matched
  <2> QED
    BY <1>1, <1>2, <2>1, Halts
<1>4. CASE Waiting(q, s, f, x)
  <2>1. PICK e : e = CloseFragment(q.ctx)
    OBVIOUS
  <2>2. Fit(e) /\ NamesOf(e) = NamesOf(q.ctx)
    BY <1>2, <2>1, CloseFits
  <2>3. Len(e.segments) = Len(q.ctx.segments)
    BY <1>2, <2>2, SignedNames
  <2>4. Fit(g) /\ Len(g.segments) >= Len(q.ctx.segments)
    BY <2>1, <2>3 DEF Kept0
  <2> QED
    BY <1>1, <1>4, <2>4, WaitHalts
<1> QED
  BY <1>3, <1>4

LEMMA RangeEnds ==
  ASSUME NEW q, NEW s, NEW f, NEW x, Waiting(q, s, f, x) \/ Alongside(q, s, f, x), q.key_frame_count + 1 < U32,
         NEW t \in Tag, t.damage = "none",
         NEW qq, qq = HandleTag(q, t), Len(qq.ctx.segments) > Len(q.ctx.segments),
         NEW d, d = FinishSegments(s)
  PROVE  Running(qq) /\ Halted(qq.ctx, d, f, x)
<1>1. Beside(q, s)
  BY SeekCloses
<1>2. PICK os : Standing(q, os)
  BY <1>1 DEF Beside
<1>3. Running(q) /\ q.flag_first_ts = 1 /\ q.refused = {}
  BY <1>1 DEF Beside
<1>4. q.key_frame_count > 0
  <2>1. s.key_frame_count \in Nat /\ s.key_ID_start \in Nat \ {0}
    BY <1>1, BesideIs
  <2>2. CASE Waiting(q, s, f, x)
    BY <2>1, <2>2 DEF Waiting
  <2>3. CASE Alongside(q, s, f, x)
    BY <2>1, <2>3 DEF Alongside
  <2> QED
    BY <2>2, <2>3
<1>5. Kept0(CloseFragment(q.ctx), qq.ctx) /\ Running(qq)
  BY <1>2, <1>3, <1>4, TagKeeps
<1> QED
  BY <1>5, BothHalt

LEMMA FilesEnd ==
  ASSUME NEW q, NEW s, NEW f, NEW x, Waiting(q, s, f, x) \/ Alongside(q, s, f, x),
         NEW qq, qq = FinishSegments(q), NEW d, d = FinishSegments(s)
  PROVE  qq.status = "finished" /\ Halted(qq.ctx, d, f, x)
<1>1. Beside(q, s)
  BY SeekCloses
<1>2. PICK os : Standing(q, os)
  BY <1>1 DEF Beside
<1>3. Running(q) /\ q.refused = {}
  BY <1>1 DEF Beside
<1>4. qq.status = "finished" /\ Fit(qq.ctx) /\ qq.ctx = CloseFragment(q.ctx)
  BY <1>2, <1>3, WholeEnds
<1>5. Kept0(CloseFragment(q.ctx), qq.ctx)
  <2>1. PICK g : g = qq.ctx
    OBVIOUS
  <2>2. Fit(g) /\ Len(g.segments) \in Nat
    BY <1>4, <2>1, SignedNames
  <2>3. Kept0(g, g)
    BY <2>2 DEF Kept0
  <2> QED
    BY <1>4, <2>1, <2>3
<1> QED
  BY <1>4, <1>5, BothHalt

-----------------------------------------------------------------------------
(* Seek runs: the whole run before.  Its segments are counted by its keys. *)
LEMMA CountsOn ==
  ASSUME NEW q, NEW os, Standing(q, os), NEW n, n = 1 - q.flag_first_ts, NEW o \in Opening,
         NEW nn \in {0, 1}, NEW oo \in Opening,
         NEW d, Standing(d, Grown(Grown(os, n, o), nn, oo)), d.flag_first_ts = 1
  PROVE  d.ts_count = q.ts_count + nn
<1>1. q.flag_first_ts \in {0, 1} /\ q.ts_count \in Nat /\ os \in Seq(Opening)
  BY DEF Standing, Base, Parser, Books
<1>2. PICK os1 : os1 = Grown(os, n, o)
  OBVIOUS
<1>3. os1 \in Seq(Opening) /\ Len(os1) - 1 = q.ts_count /\ Len(os1) \in Nat
  <2>1. CASE q.flag_first_ts = 1
    <3>1. os1 = os
      BY <1>2, <2>1 DEF Grown
    <3> QED
      BY <1>1, <2>1, <3>1 DEF Standing
  <2>2. CASE q.flag_first_ts = 0
    <3>1. n = 1 /\ os = <<>> /\ q.ts_count = 0
      BY <2>2 DEF Standing
    <3>2. os1 = Append(<<>>, o)
      BY <1>2, <3>1 DEF Grown
    <3>3. os1 = <<o>>
      BY <3>2
    <3> QED
      BY <3>1, <3>3
  <2> QED
    BY <1>1, <2>1, <2>2
<1>4. d.ts_count = Len(Grown(os1, nn, oo)) - 1
  BY <1>2 DEF Standing
<1>5. CASE nn = 1
  <2>1. Grown(os1, nn, oo) = Append(os1, oo)
    BY <1>5 DEF Grown
  <2>2. Len(Append(os1, oo)) = Len(os1) + 1
    BY <1>3
  <2> QED
    BY <1>3, <1>4, <1>5, <2>1, <2>2
<1>6. CASE nn = 0
  <2>1. Grown(os1, nn, oo) = os1
    BY <1>6 DEF Grown
  <2> QED
    BY <1>1, <1>3, <1>4, <1>6, <2>1
<1> QED
  BY <1>5, <1>6

LEMMA StepsOn ==
  ASSUME NEW q \in Parser, InStep(q), q.key_frame_count > 0, q.segment_num # 0,
         NEW d, d.segment_num = q.segment_num, d.key_frame_count = q.key_frame_count + 1,
         d.ts_count = q.ts_count + Cut(q)
  PROVE  InStep(d)
<1>1. PICK k \in Nat \ {0}, n \in Nat \ {0} : k = q.key_frame_count /\ n = q.segment_num
  BY DEF Parser
<1>2. (k - 1) \div n + (IF k % n = 0 THEN 1 ELSE 0) = k \div n
  BY CountSteps
<1>3. q.ts_count = (k - 1) \div n
  BY <1>1 DEF InStep
<1>4. Cut(q) = IF k % n = 0 THEN 1 ELSE 0
  BY <1>1 DEF Cut
<1>5. d.ts_count = k \div n
  BY <1>2, <1>3, <1>4
<1>6. d.key_frame_count - 1 = k /\ d.key_frame_count # 0
  BY <1>1
<1> QED
  BY <1>1, <1>5, <1>6 DEF InStep

LEMMA StepsStay ==
  ASSUME NEW q, InStep(q), NEW d, d.segment_num = q.segment_num,
         d.key_frame_count = q.key_frame_count, d.ts_count = q.ts_count
  PROVE  InStep(d)
BY DEF InStep

LEMMA FirstSteps ==
  ASSUME NEW q, InStep(q), q.key_frame_count = 0, q.segment_num \in Nat \ {0},
         NEW d, d.segment_num = q.segment_num, d.key_frame_count = 1, d.ts_count = q.ts_count
  PROVE  InStep(d)
<1>1. PICK n \in Nat \ {0} : n = q.segment_num
  OBVIOUS
<1>2. q.ts_count = 0
  BY DEF InStep
<1>3. 0 \div n = 0
  OBVIOUS
<1>4. d.key_frame_count # 0 /\ d.key_frame_count - 1 = 0
  OBVIOUS
<1>5. (d.key_frame_count - 1) \div d.segment_num = 0
  BY <1>1, <1>3, <1>4
<1> QED
  BY <1>2, <1>4, <1>5 DEF InStep

LEMMA HeaderSteps ==
  ASSUME NEW q, NEW os, Standing(q, os), Running(q), q.key_frame_count + 1 < U32, InStep(q),
         NEW t \in Tag, t.type = "avcc", t.damage = "none",
         NEW d, d = HandleTag(q, t), Running(d)
  PROVE  InStep(d) /\ d.refused = q.refused
<1>1. q \in Parser /\ q.flag_first_ts \in {0, 1} /\ q.key_frame_count \in Nat /\ q.segment_num \in Nat
      /\ q.hls_end_ts \in Time /\ q.ts_count \in Nat
  BY DEF Standing, Base, Parser
<1>2. q.flag_first_ts = 1 \/ q.key_frame_count = 0
  <2>1. ASSUME q.flag_first_ts = 0, q.key_frame_count > 0 PROVE FALSE
    <3>1. d.status = "crashed"
      BY <2>1, HeaderCrashes
    <3> QED
      BY <3>1 DEF Running
  <2> QED
    BY <1>1, <2>1
<1>3. PICK o \in Opening : o.keys = q.key_frame_count + 1 /\ o.time = q.hls_end_ts
  <2>1. [keys |-> q.key_frame_count + 1, time |-> q.hls_end_ts] \in Opening
    BY <1>1 DEF Opening
  <2> QED
    BY <2>1
<1>4. PICK n : n = HeaderCut(q)
  OBVIOUS
<1>5. /\ Standing(d, Grown(os, n, o)) /\ Fixed(q, d) /\ d.flag_first_ts = q.flag_first_ts
      /\ d.key_frame_count = q.key_frame_count + 1
  BY <1>2, <1>3, <1>4, HeaderHandled
<1>6. d.segment_num = q.segment_num /\ d.refused = q.refused
  BY <1>5 DEF Fixed
<1>7. q.segment_num # 0 => InStep(d)
  <2>1. CASE q.flag_first_ts = 1
    <3>1. PICK m : m = 1 - q.flag_first_ts
      OBVIOUS
    <3>2. Grown(os, m, o) = os
      BY <2>1, <3>1 DEF Grown
    <3>3. n \in {0, 1}
      BY <1>4 DEF HeaderCut, Cut
    <3>4. Standing(d, Grown(Grown(os, m, o), n, o)) /\ d.flag_first_ts = 1
      BY <1>5, <2>1, <3>2
    <3>5. d.ts_count = q.ts_count + n
      BY <1>3, <3>1, <3>3, <3>4, CountsOn
    <3>6. CASE q.key_frame_count > 0
      <4>1. n = Cut(q)
        BY <1>4, <2>1, <3>6 DEF HeaderCut
      <4> QED
        BY <1>1, <1>5, <1>6, <3>5, <3>6, <4>1, StepsOn
    <3>7. CASE q.key_frame_count = 0
      <4>1. n = 0
        BY <1>4, <3>7 DEF HeaderCut
      <4>2. d.ts_count = q.ts_count /\ d.key_frame_count = 1
        BY <1>1, <1>5, <3>5, <3>7, <4>1
      <4> QED
        BY <1>1, <1>6, <3>7, <4>2, FirstSteps
    <3> QED
      BY <1>1, <3>6, <3>7
  <2>2. CASE q.flag_first_ts = 0
    <3>1. d.ts_count = 0 /\ q.ts_count = 0
      BY <1>5, <2>2 DEF Standing
    <3>2. q.key_frame_count = 0 /\ d.key_frame_count = 1
      BY <1>2, <1>5, <2>2
    <3> QED
      BY <1>1, <1>6, <3>1, <3>2, FirstSteps
  <2> QED
    BY <1>1, <2>1, <2>2
<1>8. q.segment_num = 0 => InStep(d)
  BY <1>6 DEF InStep
<1> QED
  BY <1>6, <1>7, <1>8

LEMMA KeySteps ==
  ASSUME NEW q, NEW os, Standing(q, os), Running(q), q.key_frame_count + 1 < U32, InStep(q),
         q.key_frame_count > 0, q.segment_num # 0,
         NEW t \in Tag, t.type = "key", t.damage = "none",
         NEW d, d = HandleTag(q, t)
  PROVE  InStep(d) /\ d.refused = q.refused
<1>1. q \in Parser /\ q.flag_first_ts \in {0, 1} /\ q.key_frame_count \in Nat /\ t.ts \in Time
  BY TagType DEF Standing, Base, Parser
<1>2. PICK o \in Opening : o.keys = q.key_frame_count + 1 /\ o.time = t.ts
  <2>1. [keys |-> q.key_frame_count + 1, time |-> t.ts] \in Opening
    BY <1>1 DEF Opening
  <2> QED
    BY <2>1
<1>3. PICK n, nn : n = 1 - q.flag_first_ts /\ nn = KeyCut(q, t)
  OBVIOUS
<1>4. /\ Standing(d, Grown(Grown(os, n, o), nn, o)) /\ Fixed(q, d) /\ Running(d)
      /\ d.flag_first_ts = 1 /\ d.hls_end_ts = t.ts
      /\ d.key_frame_count = IF t.type = "key" THEN q.key_frame_count + 1 ELSE q.key_frame_count
      /\ Opens(q) => TracksOf(d.ctx) =
           WithVideo(Grown(Grown(TracksOf(q.ctx), n, EmptyTrack), nn, EmptyTrack), Picture(t))
  BY <1>2, <1>3, PictureStands
<1>5. nn = Cut(q) /\ nn \in {0, 1}
  BY <1>3 DEF KeyCut, Cut
<1>6. d.ts_count = q.ts_count + nn
  BY <1>2, <1>3, <1>4, <1>5, CountsOn
<1>7. d.segment_num = q.segment_num /\ d.refused = q.refused /\ d.key_frame_count = q.key_frame_count + 1
  BY <1>4 DEF Fixed
<1> QED
  BY <1>1, <1>5, <1>6, <1>7, StepsOn

LEMMA PassSteps ==
  ASSUME NEW q, NEW os, Standing(q, os), Running(q), q.refused = {},
         q.key_frame_count + 1 < U32, InStep(q), q.segment_num # 0,
         NEW t \in Tag, t.type \in {"inter", "aac"}, t.damage = "none",
         NEW d, d = HandleTag(q, t)
  PROVE  InStep(d) /\ d.refused = q.refused
<1>1. q \in Parser /\ q.flag_first_ts \in {0, 1} /\ q.key_frame_count \in Nat /\ t.ts \in Time /\ q.ts_count \in Nat
  BY TagType DEF Standing, Base, Parser
<1>2. PICK o \in Opening : o.keys = q.key_frame_count + 1 /\ o.time = t.ts
  <2>1. [keys |-> q.key_frame_count + 1, time |-> t.ts] \in Opening
    BY <1>1 DEF Opening
  <2> QED
    BY <2>1
<1>3. PICK n : n = 1 - q.flag_first_ts
  OBVIOUS
<1>4. Standing(d, Grown(os, n, o)) /\ Passes(q, d)
  BY <1>2, <1>3, PassStands
<1>5. PICK z \in {0, 1} : z = 0
  OBVIOUS
<1>6. Standing(d, Grown(Grown(os, n, o), z, o)) /\ d.flag_first_ts = 1
  BY <1>4, <1>5 DEF Grown, Passes
<1>7. d.ts_count = q.ts_count + z
  BY <1>2, <1>3, <1>6, CountsOn
<1>8. d.ts_count = q.ts_count
  BY <1>1, <1>5, <1>7
<1> QED
  BY <1>4, <1>8, StepsStay DEF Passes

LEMMA InStepGoesOn ==
  ASSUME NEW q, NEW os, Standing(q, os), Running(q), q.refused = {},
         q.key_frame_count + 1 < U32, InStep(q),
         NEW t \in Tag, t.damage = "none", q.key_frame_count = 0 => t.type # "key",
         NEW d, d = HandleTag(q, t), Running(d)
  PROVE  InStep(d) /\ d.refused = q.refused
<1>1. t.type \in {"avcc", "key", "inter", "aac", "other"} /\ q.key_frame_count \in Nat
  BY TagType DEF Standing, Base, Parser
<1>2. CASE t.type = "other"
  <2>1. d = q
    BY <1>2 DEF HandleTag
  <2> QED
    BY <2>1
<1>3. CASE t.type = "avcc"
  BY <1>3, HeaderSteps
<1>4. CASE t.type \in {"key", "inter", "aac"} /\ q.segment_num = 0
  <2>1. d.status = "crashed"
    BY <1>4, MediaCrashes DEF Unstarted
  <2> QED
    BY <2>1 DEF Running
<1>5. CASE t.type = "key" /\ q.segment_num # 0
  <2>1. q.key_frame_count > 0
    BY <1>1, <1>5
  <2> QED
    BY <1>5, <2>1, KeySteps
<1>6. CASE t.type \in {"inter", "aac"} /\ q.segment_num # 0
  BY <1>6, PassSteps
<1> QED
  BY <1>1, <1>2, <1>3, <1>4, <1>5, <1>6

-----------------------------------------------------------------------------
(* Seek runs: both runs together. *)
Sees(q, s, f, x) == Waiting(q, s, f, x) \/ Alongside(q, s, f, x) \/ Halted(q.ctx, s, f, x)

Replayed(q, r, s, f, x) ==
  /\ Story(q, r) /\ f \in Nat
  /\ f = 0 /\ Running(q) => InStep(q) /\ q.refused = {}
  /\ f > 0 => q.status # "crashed" /\ Sees(q, s, f, x)

LEMMA KeysFit ==
  ASSUME NEW q, NEW r, Story(q, r), Running(q), Len(r) < MaxTags
  PROVE  (\E os : Standing(q, os)) /\ q.key_frame_count + 1 < U32
<1>1. PICK os : Entered(q, os, r) /\ Current(q, r)
  BY RunningIs
<1>2. r \in Seq(Tag)
  BY DEF Story
<1>3. PICK n \in Nat : n = Len(r)
  BY <1>2
<1>4. PICK k : k = KeysIn(r, n)
  OBVIOUS
<1>5. k \in Nat /\ k <= n
  BY <1>4, KeysCounted
<1>6. q.key_frame_count = k
  BY <1>1, <1>3, <1>4 DEF Current
<1>7. k + 1 < U32
  BY <1>3, <1>5, TagAssumption, U32Assumption
<1> QED
  BY <1>1, <1>6, <1>7 DEF Entered

LEMMA LeadsOn ==
  ASSUME NEW q, NEW r, NEW s, NEW x, Replayed(q, r, s, 0, x), Running(q), Len(r) < MaxTags,
         NEW t \in Tag, t.damage = "none", q.key_frame_count = 0 => t.type # "key",
         NEW qq, qq = HandleTag(q, t), NEW rr, rr = Append(r, t)
  PROVE  Replayed(qq, rr, s, 0, x)
<1>1. Story(q, r) /\ InStep(q) /\ q.refused = {}
  BY DEF Replayed
<1>2. Story(qq, rr)
  BY <1>1, TagRead
<1>3. PICK os : Standing(q, os)
  BY <1>1, KeysFit
<1>4. q.key_frame_count + 1 < U32
  BY <1>1, KeysFit
<1>5. Running(qq) => InStep(qq) /\ qq.refused = q.refused
  BY <1>1, <1>3, <1>4, InStepGoesOn
<1>6. ~(0 > 0) /\ 0 \in Nat
  OBVIOUS
<1> QED
  BY <1>1, <1>2, <1>5, <1>6 DEF Replayed

(* A run that waits or goes along has a place in the whole run, which runs. *)
LEMMA SeesIs ==
  ASSUME NEW q, NEW s, NEW f, NEW x, Waiting(q, s, f, x) \/ Alongside(q, s, f, x)
  PROVE  q.status # "crashed" /\ f \in Nat \ {0} /\ Running(q) /\ Running(s)
<1>1. Beside(q, s)
  BY DEF Waiting, Alongside
<1>2. f \in Nat \ {0}
  BY DEF Waiting, Alongside, Matched, Placed, Follows
<1> QED
  BY <1>1, <1>2 DEF Beside, Running

LEMMA SeeksOut ==
  ASSUME NEW q, NEW r, NEW s, NEW y, Replayed(q, r, s, 0, y), Running(q), Len(r) < MaxTags,
         q.key_frame_count > 0,
         NEW t \in Tag, t.damage = "none",
         NEW qq, qq = HandleTag(q, t), NEW rr, rr = Append(r, t),
         Len(qq.ctx.segments) > Len(q.ctx.segments),
         NEW nm, nm = Last(qq.ctx.segments).name, nm.key > 0,
         NEW ss, ss = HandleTag(SeekFrom(nm, q.segment_num), t),
         NEW x, x = 1 => Spells(q.ctx, qq.ctx),
         NEW f, f = Len(qq.ctx.segments)
  PROVE  Replayed(qq, rr, ss, f, x)
<1>1. Story(q, r) /\ InStep(q) /\ q.refused = {}
  BY DEF Replayed
<1>2. Story(qq, rr)
  BY <1>1, TagRead
<1>3. PICK os : Standing(q, os)
  BY <1>1, KeysFit
<1>4. q.key_frame_count + 1 < U32
  BY <1>1, KeysFit
<1>5. Waiting(qq, ss, f, x) \/ Alongside(qq, ss, f, x)
  BY <1>1, <1>3, <1>4, SeekStarts
<1>6. qq.status # "crashed" /\ f \in Nat \ {0}
  BY <1>5, SeesIs
<1> QED
  BY <1>2, <1>5, <1>6 DEF Replayed, Sees

(* Only a run that goes on is there to read or to end. *)
LEMMA StillRuns ==
  ASSUME NEW q, NEW r, NEW s, NEW f, f > 0, NEW x, Replayed(q, r, s, f, x), Running(s)
  PROVE  Story(q, r) /\ f \in Nat /\ f # 0 /\ (Waiting(q, s, f, x) \/ Alongside(q, s, f, x))
<1>1. Story(q, r) /\ f \in Nat /\ Sees(q, s, f, x)
  BY DEF Replayed
<1>2. ~Halted(q.ctx, s, f, x)
  BY DEF Halted
<1>3. f # 0
  BY <1>1
<1> QED
  BY <1>1, <1>2, <1>3 DEF Sees

LEMMA FollowsOn ==
  ASSUME NEW q, NEW r, NEW s, NEW f, f > 0, NEW x, Replayed(q, r, s, f, x), Running(s),
         Running(q), Len(r) < MaxTags,
         NEW t \in Tag, t.damage = "none",
         NEW qq, qq = HandleTag(q, t), NEW rr, rr = Append(r, t),
         NEW ss, ss = HandleTag(s, t)
  PROVE  Replayed(qq, rr, ss, f, x)
<1>1. Story(q, r) /\ f \in Nat /\ f # 0 /\ (Waiting(q, s, f, x) \/ Alongside(q, s, f, x))
  BY StillRuns
<1>2. Story(qq, rr)
  BY <1>1, TagRead
<1>3. q.key_frame_count + 1 < U32
  BY <1>1, KeysFit
<1>4. \/ Waiting(qq, ss, f, x)
      \/ Alongside(qq, ss, f, x)
      \/ Running(qq) /\ Halted(qq.ctx, ss, f, x)
  BY <1>1, <1>3, BothRead
<1>5. qq.status # "crashed" /\ Sees(qq, ss, f, x)
  BY <1>4, SeesIs DEF Sees, Running
<1> QED
  BY <1>1, <1>2, <1>5 DEF Replayed

LEMMA StopsShort ==
  ASSUME NEW q, NEW r, NEW s, NEW f, f > 0, NEW x, Replayed(q, r, s, f, x), Running(s),
         Running(q), Len(r) < MaxTags,
         NEW t \in Tag, t.damage = "none",
         NEW qq, qq = HandleTag(q, t), NEW rr, rr = Append(r, t),
         Len(qq.ctx.segments) > Len(q.ctx.segments),
         NEW ss, ss = FinishSegments(s)
  PROVE  Replayed(qq, rr, ss, f, x)
<1>1. Story(q, r) /\ f \in Nat /\ f # 0 /\ (Waiting(q, s, f, x) \/ Alongside(q, s, f, x))
  BY StillRuns
<1>2. Story(qq, rr)
  BY <1>1, TagRead
<1>3. q.key_frame_count + 1 < U32
  BY <1>1, KeysFit
<1>4. Running(qq) /\ Halted(qq.ctx, ss, f, x)
  BY <1>1, <1>3, RangeEnds
<1>5. qq.status # "crashed" /\ Sees(qq, ss, f, x)
  BY <1>4 DEF Sees, Running
<1> QED
  BY <1>1, <1>2, <1>5 DEF Replayed

LEMMA BothEnd ==
  ASSUME NEW q, NEW r, NEW s, NEW f, f > 0, NEW x, Replayed(q, r, s, f, x), Running(s), Running(q),
         NEW qq, qq = FinishSegments(q), NEW ss, ss = FinishSegments(s)
  PROVE  Replayed(qq, r, ss, f, x)
<1>1. Story(q, r) /\ f \in Nat /\ f # 0 /\ (Waiting(q, s, f, x) \/ Alongside(q, s, f, x))
  BY StillRuns
<1>2. Story(qq, r)
  BY <1>1, FileEnds
<1>3. qq.status = "finished" /\ Halted(qq.ctx, ss, f, x)
  BY <1>1, FilesEnd
<1>4. qq.status # "crashed" /\ Sees(qq, ss, f, x)
  BY <1>3 DEF Sees
<1> QED
  BY <1>1, <1>2, <1>4 DEF Replayed

LEMMA ReplayStarts ==
  ASSUME ReplayInit
  PROVE  Replayed(p, read, seek, from, exact)
<1>1. Init /\ p.refused = {} /\ from = 0
  BY DEF ReplayInit
<1>2. Story(p, read)
  BY <1>1, RunStarts
<1>3. InStep(p)
  <2>1. PICK options \in Options, n \in SegmentNums, w \in Refusals :
          p = NewParser(options, 0, n, w, NewContext(0, 0, 0, 0))
    BY <1>1 DEF Init
  <2>2. p.ts_count = 0 /\ p.key_frame_count = 0
    BY <2>1 DEF NewParser
  <2> QED
    BY <2>2 DEF InStep
<1>4. 0 \in Nat /\ ~(0 > 0)
  OBVIOUS
<1> QED
  BY <1>1, <1>2, <1>3, <1>4 DEF Replayed

LEMMA ReplayGoesOn ==
  ASSUME Replayed(p, read, seek, from, exact), [ReplayNext]_replay
  PROVE  Replayed(p, read, seek, from, exact)'
<1>1. SUFFICES Replayed(p', read', seek', from', exact')
  OBVIOUS
<1>2. CASE UNCHANGED replay
  <2>1. p' = p /\ read' = read /\ seek' = seek /\ from' = from /\ exact' = exact
    BY <1>2 DEF replay, vars
  <2> QED
    BY <2>1
<1>3. CASE Lead
  <2>1. PICK t \in Tag : (p.key_frame_count = 0 => t.type # "key") /\ WholeReads(t)
    BY <1>3 DEF Lead
  <2>2. /\ Running(p) /\ Len(read) < MaxTags /\ t.damage = "none"
        /\ p' = HandleTag(p, t) /\ read' = Append(read, t)
    BY <2>1 DEF WholeReads
  <2>3. from = 0 /\ seek' = seek /\ from' = 0 /\ exact' = exact
    BY <1>3 DEF Lead
  <2>4. Replayed(p, read, seek, 0, exact)
    BY <2>3
  <2>5. Replayed(p', read', seek, 0, exact)
    BY <2>1, <2>2, <2>4, LeadsOn
  <2> QED
    BY <2>3, <2>5
<1>4. CASE Seek
  <2>1. PICK t \in Tag : /\ WholeReads(t)
                         /\ WholeCuts
                         /\ Last(p'.ctx.segments).name.key > 0
                         /\ seek' = HandleTag(SeekParser(Last(p'.ctx.segments).name), t)
    BY <1>4 DEF Seek
  <2>2. /\ Running(p) /\ Len(read) < MaxTags /\ t.damage = "none"
        /\ p' = HandleTag(p, t) /\ read' = Append(read, t)
    BY <2>1 DEF WholeReads
  <2>3. Len(p'.ctx.segments) > Len(p.ctx.segments)
    BY <2>1 DEF WholeCuts, Segments
  <2>4. from = 0 /\ p.key_frame_count > 0 /\ from' = Len(p'.ctx.segments)
    BY <1>4 DEF Seek
  <2>5. exact' = 1 => Spells(p.ctx, p'.ctx)
    BY <1>4 DEF Seek, Spells
  <2>6. PICK nm : nm = Last(p'.ctx.segments).name
    OBVIOUS
  <2>7. SeekParser(nm) = SeekFrom(nm, p.segment_num)
    BY DEF SeekParser, SeekFrom, Fresh
  <2>8. nm.key > 0 /\ seek' = HandleTag(SeekFrom(nm, p.segment_num), t)
    BY <2>1, <2>6, <2>7
  <2>9. Replayed(p, read, seek, 0, exact)
    BY <2>4
  <2> QED
    BY <2>2, <2>3, <2>4, <2>5, <2>6, <2>8, <2>9, SeeksOut
<1>5. CASE Follow
  <2>1. from > 0 /\ Running(seek) /\ from' = from /\ exact' = exact
    BY <1>5 DEF Follow
  <2>2. PICK t \in Tag : WholeReads(t) /\ seek' = HandleTag(seek, t)
    BY <1>5 DEF Follow
  <2>3. /\ Running(p) /\ Len(read) < MaxTags /\ t.damage = "none"
        /\ p' = HandleTag(p, t) /\ read' = Append(read, t)
    BY <2>2 DEF WholeReads
  <2>4. Replayed(p', read', seek', from, exact)
    BY <2>1, <2>2, <2>3, FollowsOn
  <2> QED
    BY <2>1, <2>4
<1>6. CASE EndOfRange
  <2>1. from > 0 /\ Running(seek) /\ seek' = FinishSegments(seek) /\ from' = from /\ exact' = exact
    BY <1>6 DEF EndOfRange
  <2>2. PICK t \in Tag : WholeReads(t) /\ WholeCuts
    BY <1>6 DEF EndOfRange
  <2>3. /\ Running(p) /\ Len(read) < MaxTags /\ t.damage = "none"
        /\ p' = HandleTag(p, t) /\ read' = Append(read, t)
    BY <2>2 DEF WholeReads
  <2>4. Len(p'.ctx.segments) > Len(p.ctx.segments)
    BY <2>2 DEF WholeCuts, Segments
  <2>5. Replayed(p', read', seek', from, exact)
    BY <2>1, <2>3, <2>4, StopsShort
  <2> QED
    BY <2>1, <2>5
<1>7. CASE EndOfBoth
  <2>1. from > 0 /\ Running(seek) /\ seek' = FinishSegments(seek) /\ from' = from /\ exact' = exact
    BY <1>7 DEF EndOfBoth
  <2>2. Running(p) /\ p' = FinishSegments(p) /\ read' = read
    BY <1>7 DEF EndOfBoth, EndOfFile
  <2>3. Replayed(p', read, seek', from, exact)
    BY <2>1, <2>2, BothEnd
  <2> QED
    BY <2>1, <2>2, <2>3
<1> QED
  BY <1>2, <1>3, <1>4, <1>5, <1>6, <1>7 DEF ReplayNext

LEMMA ReplayHolds == ReplaySpec => []Replayed(p, read, seek, from, exact)
<1>1. ReplayInit => Replayed(p, read, seek, from, exact)
  BY ReplayStarts
<1>2. Replayed(p, read, seek, from, exact) /\ [ReplayNext]_replay => Replayed(p, read, seek, from, exact)'
  BY ReplayGoesOn
<1> QED
  BY <1>1, <1>2, PTL DEF ReplaySpec

-----------------------------------------------------------------------------
(* What it says about the segments. *)
Part(c, d, f) == SubSeq(c.segments, f, f + Len(d.segments) - 1)

LEMMA PartIs ==
  ASSUME NEW c, Fit(c), NEW d, Fit(d), NEW f, Follows(c, d, f)
  PROVE  /\ Len(Part(c, d, f)) = Len(d.segments) /\ Part(c, d, f) \in SignedSegments
         /\ \A i \in 1 .. Len(d.segments) :
              /\ Part(c, d, f)[i] = c.segments[f - 1 + i]
              /\ d.segments[i].name.key = Part(c, d, f)[i].name.key
              /\ d.segments[i].name.count = Part(c, d, f)[i].name.count
<1>0. PICK n, b : n = Len(d.segments) /\ b = Part(c, d, f) /\ b = SubSeq(c.segments, f, f + n - 1)
  BY DEF Part
<1>1. PICK T : T = [name : Name, frames : Seq(SignedPacket)]
  OBVIOUS
<1>2. PICK cs \in Seq(T), ds \in Seq(T) : cs = c.segments /\ ds = d.segments
  BY <1>1 DEF Fit, SignedContext, SignedSegments, SegmentSeq
<1>3. PICK k \in Nat \ {0} : k = f
  BY DEF Follows
<1>4. /\ Len(NamesOf(c)) = Len(cs) /\ Len(NamesOf(d)) = Len(ds)
      /\ \A i \in 1 .. Len(cs) : NamesOf(c)[i] = cs[i].name
      /\ \A i \in 1 .. Len(ds) : NamesOf(d)[i] = ds[i].name
  BY <1>2, SignedNames
<1>5. PICK l \in Nat, m \in Nat : l = Len(cs) /\ m = Len(ds)
  BY <1>2
<1>6. /\ l >= m + k - 1 /\ n = m
      /\ \A i \in 1 .. m : /\ NamesOf(d)[i].key = NamesOf(c)[k - 1 + i].key
                           /\ NamesOf(d)[i].count = NamesOf(c)[k - 1 + i].count
  BY <1>0, <1>2, <1>3, <1>4, <1>5 DEF Follows
<1>7. b = SubSeq(cs, k, k + m - 1)
  BY <1>0, <1>2, <1>3, <1>6
<1>8. /\ b \in Seq(T) /\ Len(b) = m /\ \A i \in 1 .. m : b[i] = cs[k - 1 + i]
  <2>1. k \in 1 .. Len(cs) + 1 /\ k + m - 1 \in k - 1 .. Len(cs)
    BY <1>5, <1>6
  <2>2. k + m - 1 - k + 1 = m /\ (IF k <= k + m - 1 THEN k + m - 1 - k + 1 ELSE 0) = m
    BY <1>5
  <2>3. /\ SubSeq(cs, k, k + m - 1) \in Seq(T)
        /\ Len(SubSeq(cs, k, k + m - 1)) = IF k <= k + m - 1 THEN k + m - 1 - k + 1 ELSE 0
        /\ \A i \in 1 .. k + m - 1 - k + 1 : SubSeq(cs, k, k + m - 1)[i] = cs[k + i - 1]
    BY <2>1, SubSeqProperties
  <2>4. b \in Seq(T) /\ Len(b) = m /\ \A i \in 1 .. m : b[i] = cs[k + i - 1]
    BY <1>7, <2>2, <2>3
  <2>5. \A i \in 1 .. m : k + i - 1 = k - 1 + i
    BY <1>3
  <2> QED
    BY <2>4, <2>5
<1>9. ASSUME NEW i \in 1 .. m
      PROVE  ds[i].name.key = b[i].name.key /\ ds[i].name.count = b[i].name.count
  <2>1. k - 1 + i \in 1 .. l
    BY <1>6
  <2>2. PICK j \in 1 .. l : j = k - 1 + i
    BY <2>1
  <2>3. NamesOf(c)[j] = cs[j].name /\ NamesOf(d)[i] = ds[i].name /\ b[i] = cs[j]
    BY <1>4, <1>5, <1>8, <2>2
  <2>4. NamesOf(d)[i].key = NamesOf(c)[j].key /\ NamesOf(d)[i].count = NamesOf(c)[j].count
    BY <1>6, <2>2
  <2> QED
    BY <2>3, <2>4
<1>10. b \in SignedSegments
  BY <1>1, <1>8 DEF SignedSegments, SegmentSeq
<1>11. \A i \in 1 .. m : b[i] = c.segments[f - 1 + i]
  BY <1>2, <1>3, <1>8
<1>12. \A i \in 1 .. m : /\ d.segments[i].name.key = b[i].name.key
                         /\ d.segments[i].name.count = b[i].name.count
  BY <1>2, <1>9
<1>13. n = m /\ Len(b) = m
  BY <1>6, <1>8
<1> QED
  BY <1>0, <1>10, <1>11, <1>12, <1>13

Kin == {"held", "used", "aframe_pts", "aframe_base", "aframe_num", "audio_cc", "video_cc", "opened"}

LEMMA AlongSame ==
  ASSUME NEW q, NEW s, NEW f, Alongside(q, s, f, 1)
  PROVE  /\ Copied(q.ctx, s.ctx, f) /\ Len(s.ctx.segments) = Len(q.ctx.segments) - f + 1
         /\ \A g \in Kin : s.ctx[g] = q.ctx[g]
<1>1. PICK c, d : c = q.ctx /\ d = s.ctx
  OBVIOUS
<1>2. Fit(c) /\ Fit(d)
  <2>1. Beside(q, s)
    BY DEF Alongside
  <2> QED
    BY <1>1, <2>1, BesideIs DEF Beside
<1>3. Placed(c, d, f) /\ Shifted(c, d, f)
  BY <1>1 DEF Alongside, Matched
<1>4. PICK pre \in SignedSegments, m \in {0, 1} : Len(pre) = f - 1 /\ c = Behind(pre, m, d)
  BY <1>3 DEF Shifted
<1>5. /\ c.segments = pre \o d.segments /\ c.opened = d.opened /\ c.used = d.used /\ c.held = d.held
      /\ c.aframe_num = d.aframe_num /\ c.aframe_base = d.aframe_base /\ c.aframe_pts = d.aframe_pts
      /\ c.audio_cc = d.audio_cc /\ c.video_cc = d.video_cc
  BY <1>2, <1>4, BehindFits
<1>6. \A g \in Kin : d[g] = c[g]
  BY <1>5 DEF Kin
<1>7. ASSUME NEW i \in 1 .. Len(d.segments) PROVE d.segments[i] = c.segments[f - 1 + i]
  <2>1. pre \in Seq([name : Name, frames : Seq(SignedPacket)])
        /\ d.segments \in Seq([name : Name, frames : Seq(SignedPacket)])
    BY <1>2, SignedBasics DEF Fit, SignedContext
  <2>2. (pre \o d.segments)[Len(pre) + i] = d.segments[i]
    BY <2>1
  <2>3. Len(pre) + i = f - 1 + i
    BY <1>4
  <2> QED
    BY <1>5, <2>2, <2>3
<1>8. Len(d.segments) = Len(c.segments) - f + 1
  <2>1. PICK a, b : a = Len(c.segments) /\ b = Len(d.segments)
    OBVIOUS
  <2>2. a \in Nat /\ b \in Nat /\ f \in Nat \ {0} /\ a = b + f - 1
    BY <1>2, <1>3, <2>1, SignedNames DEF Placed, Follows
  <2> QED
    BY <2>1, <2>2
<1> QED
  BY <1>1, <1>6, <1>7, <1>8 DEF Copied

LEMMA CopiedPart ==
  ASSUME NEW c, Fit(c), NEW d, Fit(d), NEW f, Follows(c, d, f), Copied(c, d, f)
  PROVE  d.segments = Part(c, d, f)
<1>1. PICK n, b : n = Len(d.segments) /\ b = Part(c, d, f)
  OBVIOUS
<1>3. Len(b) = n /\ b \in SignedSegments /\ \A i \in 1 .. n : b[i] = c.segments[f - 1 + i]
  BY <1>1, PartIs
<1>4. PICK T : T = [name : Name, frames : Seq(SignedPacket)]
  OBVIOUS
<1>5. b \in Seq(T) /\ d.segments \in Seq(T)
  BY <1>3, <1>4 DEF Fit, SignedContext, SignedSegments, SegmentSeq
<1>6. \A i \in 1 .. n : d.segments[i] = b[i]
  BY <1>1, <1>3 DEF Copied
<1>7. d.segments = b
  BY <1>1, <1>3, <1>5, <1>6, SeqEqual
<1> QED
  BY <1>1, <1>7

LEMMA ReplaysAre ==
  ASSUME Replayed(p, read, seek, from, exact)
  PROVE  SeekReplays
<1>1. SUFFICES ASSUME from > 0
               PROVE  /\ p.status # "crashed"
                      /\ SameIndex
                      /\ seek.status = "crashed" => seek.key_frame_count = 2 /\ seek.flag_first_ts = 0
                      /\ exact = 1 /\ seek.status # "crashed" => SameSegments /\ SameState
  BY DEF SeekReplays
<1>2. p.status # "crashed" /\ Sees(p, seek, from, exact)
  BY <1>1 DEF Replayed
<1>3. CASE Waiting(p, seek, from, exact)
  <2>1. Sought = <<>> /\ seek.status = "running" /\ seek.flag_first_ts = 0 /\ from \in Nat \ {0}
    BY <1>3, SeesIs DEF Waiting, Sought, Running
  <2>2. Len(Sought) = 0
    BY <2>1
  <2>3. SameIndex
    BY <2>2 DEF SameIndex
  <2>4. Counterpart = <<>>
    <3>1. from \in Int /\ from + 0 - 1 \in Int /\ from + 0 - 1 < from
      BY <2>1
    <3> QED
      BY <2>2, <3>1, SubSeqEmpty DEF Counterpart
  <2>5. SameSegments /\ SameState
    BY <2>1, <2>4 DEF SameSegments, SameState
  <2> QED
    BY <1>2, <2>1, <2>3, <2>5
<1>4. CASE Alongside(p, seek, from, exact)
  <2>1. Beside(p, seek) /\ Follows(p.ctx, seek.ctx, from)
    BY <1>4 DEF Alongside, Matched, Placed
  <2>2. Fit(p.ctx) /\ Fit(seek.ctx) /\ seek.status = "running"
    BY <2>1, BesideIs DEF Beside, Running
  <2>3. SameIndex
    <3>1. Counterpart = Part(p.ctx, seek.ctx, from)
      BY DEF Counterpart, Part, Segments, Sought
    <3> QED
      BY <2>1, <2>2, <3>1, PartIs DEF SameIndex, Sought
  <2>4. ASSUME exact = 1 PROVE SameSegments /\ SameState
    <3>1. Alongside(p, seek, from, 1)
      BY <1>4, <2>4
    <3>2. /\ Copied(p.ctx, seek.ctx, from) /\ Len(seek.ctx.segments) = Len(p.ctx.segments) - from + 1
          /\ \A g \in Kin : seek.ctx[g] = p.ctx[g]
      BY <3>1, AlongSame
    <3>3. seek.ctx.segments = SubSeq(p.ctx.segments, from, from + Len(seek.ctx.segments) - 1)
      BY <2>1, <2>2, <3>2, CopiedPart DEF Part
    <3>4. SameSegments
      BY <3>2, <3>3 DEF SameSegments, Sought, Counterpart, Segments
    <3>5. SameState
      BY <3>2 DEF SameState, Kin
    <3> QED
      BY <3>4, <3>5
  <2> QED
    BY <1>2, <2>2, <2>3, <2>4
<1>5. CASE Halted(p.ctx, seek, from, exact)
  <2>1. ~Running(seek) /\ Fit(p.ctx) /\ Fit(seek.ctx) /\ Follows(p.ctx, seek.ctx, from)
    BY <1>5 DEF Halted
  <2>2. SameIndex
    <3>1. Counterpart = Part(p.ctx, seek.ctx, from)
      BY DEF Counterpart, Part, Segments, Sought
    <3> QED
      BY <2>1, <3>1, PartIs DEF SameIndex, Sought
  <2>3. ASSUME exact = 1, seek.status # "crashed" PROVE SameSegments /\ SameState
    <3>1. Copied(p.ctx, seek.ctx, from)
      BY <1>5, <2>3 DEF Halted
    <3>2. seek.ctx.segments = SubSeq(p.ctx.segments, from, from + Len(seek.ctx.segments) - 1)
      BY <2>1, <3>1, CopiedPart DEF Part
    <3> QED
      BY <2>1, <3>2 DEF SameSegments, SameState, Sought, Counterpart, Segments
  <2>4. seek.status = "crashed" => seek.key_frame_count = 2 /\ seek.flag_first_ts = 0
    BY <1>5 DEF Halted
  <2> QED
    BY <1>2, <2>2, <2>3, <2>4
<1> QED
  BY <1>2, <1>3, <1>4, <1>5 DEF Sees

(* A run that starts at any segment, with the options its name carries,    *)
(* counts keys and segments as the run over the whole file does, and if    *)
(* the name carried the clock and the counters it writes what that run     *)
(* wrote and goes on from the same state, for every file, every segment    *)
(* number and every range; it crashes only on a sequence header that       *)
(* follows the one it started at.                                          *)
THEOREM SeekRunsReplay == ReplaySpec => []SeekReplays
<1>1. Replayed(p, read, seek, from, exact) => SeekReplays
  BY ReplaysAre
<1> QED
  BY <1>1, ReplayHolds, PTL
=============================================================================
