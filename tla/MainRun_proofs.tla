--------------------------- MODULE MainRun_proofs ---------------------------
(***************************************************************************)
(* Theorems about the runs of main, for any indexes, segment times and     *)
(* options, and any number of runs.                                        *)
(*                                                                         *)
(* What pass 2 reads is a function of the run's options and of the number  *)
(* of key frames of a segment, which is the same in all runs over a file:  *)
(* the invariant Recorded keeps both for every run made, and Prepared for  *)
(* the run in progress.                                                    *)
(***************************************************************************)
EXTENDS MainRun, TLAPS

Run == [x : Int, y : Int, name : Nat, stream : {"none", "open", "freed"}, num : Int, start : Int, end : Int]

Done == [x : Int, y : Int, num : Int, from : Int, to : Int]

(* The number of key frames of a segment, in any run over the file. *)
Num == SegmentNum(index.ts, time)

Typed ==
  /\ index \in Index /\ time \in SegmentTime
  /\ run \in Run /\ runs \in Seq(Done)
  /\ Num \in Int

(* main gets to pass 2 with an open stream only. *)
Prepared ==
  /\ phase # "ended" => status = "running"
  /\ phase \in {"start", "pass 1"} => run.stream = "none"
  /\ phase = "judge" => run.stream # "none"
  /\ phase \in {"range", "pass 2"} => run.stream = "open" /\ run.num = Num
  /\ phase = "pass 2" /\ Given(run.x, run.y) =>
       LET range == RangeOf(run.x, run.y, run.num, Len(index.pos))
       IN  run.start = range.start /\ run.end = range.end

IsRecorded(r) ==
  /\ r.num = Num
  /\ Given(r.x, r.y) =>
       /\ ~Outside(r.x * r.num, index.pos)
       /\ r.from = OffsetStart(r.x * r.num, index.pos)
       /\ r.to = OffsetEnd(RangeOf(r.x, r.y, r.num, Len(index.pos)).end, index.pos)

Recorded == \A i \in 1 .. Len(runs) : IsRecorded(runs[i])

IInv == Typed /\ Prepared /\ Recorded /\ FollowersStayInside

-----------------------------------------------------------------------------
LEMMA SegmentNumInt ==
  ASSUME NEW i \in Index, NEW t \in SegmentTime
  PROVE  SegmentNum(i.ts, t) \in Int
<1>1. i.ts \in Seq(Int) /\ t \in Int
  BY MainAssumption
<1>2. CASE i.ts = <<>>
  BY <1>2 DEF SegmentNum
<1>3. CASE i.ts # <<>>
  <2>1. Len(i.ts) \in Nat /\ i.ts[1] \in Int /\ i.ts[Len(i.ts)] \in Int
    BY <1>1, <1>3
  <2>2. Timespan(i.ts) \in Int /\ Timespan(i.ts) > 0
    BY <2>1 DEF Timespan
  <2>3. Ceil(t * Len(i.ts) * 1000, Timespan(i.ts)) \in Int
    BY <2>1, <2>2, <1>1 DEF Ceil
  <2> QED
    BY <2>3 DEF SegmentNum
<1> QED
  BY <1>2, <1>3

(* The end of a range with -x and -y is a key frame of the index, or none. *)
LEMMA RangeEndInside ==
  ASSUME NEW x \in Int, NEW y \in Int, NEW num \in Int, NEW pos \in Seq(Nat)
  PROVE  ~Outside(RangeOf(x, y, num, Len(pos)).end, pos)
  BY DEF RangeOf, Outside

LEMMA RangeIsInt ==
  ASSUME NEW x \in Int, NEW y \in Int, NEW num \in Int, NEW size \in Nat
  PROVE  RangeOf(x, y, num, size).start \in Int /\ RangeOf(x, y, num, size).end \in Int
  BY DEF RangeOf

LEMMA OffsetsInt ==
  ASSUME NEW i \in Int, NEW pos \in Seq(Nat), ~Outside(i, pos)
  PROVE  OffsetStart(i, pos) \in Int /\ OffsetEnd(i, pos) \in Int
  BY DEF Outside, OffsetStart, OffsetEnd, Unlimited

(* The start of a run that follows is the end of one before it, which was  *)
(* looked up in the index.                                                 *)
LEMMA FollowerInside ==
  ASSUME Typed, Recorded, NEW r \in Run, Follows(r), r.num = Num
  PROVE  ~Outside(r.x * r.num, index.pos)
<1>1. /\ r.x \in Int /\ r.y \in Int /\ Num \in Int /\ runs \in Seq(Done) /\ index.pos \in Seq(Nat)
  BY MainAssumption DEF Typed, Run
<1>2. CASE r.x = 0
  <2>1. 0 * Num = 0
    BY <1>1
  <2> QED
    BY <1>2, <2>1 DEF Outside
<1>3. CASE r.x # 0
  <2>1. PICK i \in 1 .. Len(runs) : /\ Given(runs[i].x, runs[i].y) /\ runs[i].to # Unlimited
                                   /\ r.x = runs[i].y + 1
    BY <1>3 DEF Follows
  <2>2. IsRecorded(runs[i]) /\ runs[i].y \in Int /\ runs[i].num = Num
    <3>1. runs[i] \in Done
      BY <1>1
    <3>2. IsRecorded(runs[i])
      BY DEF Recorded
    <3> QED
      BY <3>1, <3>2 DEF IsRecorded, Done
  <2> DEFINE end == RangeOf(runs[i].x, runs[i].y, Num, Len(index.pos)).end
  <2>3. runs[i].to = OffsetEnd(end, index.pos)
    BY <2>1, <2>2 DEF IsRecorded
  <2>4. end > 0
    BY <2>1, <2>3 DEF OffsetEnd
  <2>5. end = r.x * Num /\ ~Outside(end, index.pos)
    BY <1>1, <2>1, <2>2, <2>4 DEF RangeOf, Outside
  <2> QED
    BY <2>5
<1> QED
  BY <1>2, <1>3

LEMMA InitInv == Init => IInv
<1> SUFFICES ASSUME Init PROVE IInv
  OBVIOUS
<1>1. Typed
  <2>1. NoRun \in Run
    BY DEF NoRun, Run
  <2> QED
    BY <2>1, SegmentNumInt DEF Init, Typed, Num
<1>2. Prepared
  BY DEF Init, Prepared, NoRun
<1>3. Recorded
  BY DEF Init, Recorded
<1>4. FollowersStayInside
  BY DEF Init, FollowersStayInside
<1> QED
  BY <1>1, <1>2, <1>3, <1>4 DEF IInv

(* A step that leaves the file and the runs made alone keeps what is       *)
(* recorded of them.                                                       *)
LEMMA RecordedKept ==
  ASSUME Recorded, UNCHANGED <<index, time, runs>>
  PROVE  Recorded'
  BY DEF Recorded, IsRecorded, Num

LEMMA StepInv == IInv /\ [Next]_vars => IInv'
<1> SUFFICES ASSUME IInv, [Next]_vars PROVE IInv'
  OBVIOUS
<1>0. Typed /\ Prepared /\ Recorded /\ FollowersStayInside
  BY DEF IInv
<1>t. /\ index \in Index /\ time \in SegmentTime /\ run \in Run /\ runs \in Seq(Done) /\ Num \in Int
      /\ index.pos \in Seq(Nat)
  BY <1>0, MainAssumption DEF Typed
<1>1. CASE Start
  <2>1. PICK x \in TsNumber, y \in TsNumber, s \in KeyNumber, e \in KeyNumber :
          \E n \in NameLength : run' = [NoRun EXCEPT !.x = x, !.y = y, !.name = n, !.start = s, !.end = e]
    BY <1>1 DEF Start
  <2>2. x \in Int /\ y \in Int /\ s \in Int /\ e \in Int
    BY MainAssumption
  <2>3. run' \in Run /\ run'.stream = "none"
    <3>1. PICK n \in Nat : run' = [x |-> x, y |-> y, name |-> n, stream |-> "none", num |-> 0,
                                  start |-> s, end |-> e]
      BY <2>1, MainAssumption DEF NoRun
    <3> QED
      BY <3>1, <2>2 DEF Run
  <2>4. phase' = "pass 1" /\ UNCHANGED <<index, time, runs, status>> /\ status = "running"
    BY <1>1, <1>0 DEF Start, Prepared
  <2>5. Typed'
    BY <2>3, <2>4, <1>t DEF Typed, Num
  <2>6. Prepared'
    BY <2>3, <2>4 DEF Prepared
  <2>7. FollowersStayInside'
    BY <2>3, <2>4, <1>0 DEF FollowersStayInside
  <2> QED
    BY <2>4, <2>5, <2>6, <2>7, <1>0, RecordedKept DEF IInv
<1>2. CASE Pass1
  <2>1. UNCHANGED <<index, time, runs>> /\ run.stream = "none" /\ phase = "pass 1"
    BY <1>2, <1>0 DEF Pass1, Prepared
  <2>2. run' \in Run
    BY <1>2, <1>t DEF Pass1, Run
  <2>3. Typed'
    BY <2>1, <2>2, <1>t DEF Typed, Num
  <2>4. \/ status' \in {"crashed", "undefined"} /\ phase' = "ended" /\ run'.stream = "none"
        \/ status' = "running" /\ phase' = "judge" /\ run'.stream \in {"open", "freed"}
    BY <1>2, <2>1, <1>0, <1>t DEF Pass1, Prepared, Run
  <2>5. Prepared' /\ FollowersStayInside'
    BY <2>4 DEF Prepared, FollowersStayInside
  <2> QED
    BY <2>1, <2>3, <2>5, <1>0, RecordedKept DEF IInv
<1>3. CASE Judge
  <2>1. UNCHANGED <<index, time, runs>> /\ phase = "judge"
    BY <1>3 DEF Judge
  <2>2. CASE run.stream = "freed"
    <3>1. phase' = "ended" /\ UNCHANGED run /\ status' = "undefined"
      BY <1>3, <2>2 DEF Judge
    <3>2. Typed' /\ Prepared' /\ FollowersStayInside'
      BY <3>1, <2>1, <2>2, <1>t DEF Typed, Num, Prepared, FollowersStayInside
    <3> QED
      BY <3>2, <2>1, <1>0, RecordedKept DEF IInv
  <2>3. CASE run.stream # "freed"
    <3>1. phase' = "range" /\ run' = [run EXCEPT !.num = Num] /\ UNCHANGED status
      BY <1>3, <2>3 DEF Judge, Num
    <3>2. run' \in Run /\ run'.num = Num /\ run'.stream = run.stream
      BY <3>1, <1>t DEF Run
    <3>3. run.stream = "open" /\ status = "running"
      BY <2>1, <2>3, <1>t, <1>0 DEF Prepared, Run
    <3>4. Typed' /\ Prepared' /\ FollowersStayInside'
      BY <3>1, <3>2, <3>3, <2>1, <1>t DEF Typed, Num, Prepared, FollowersStayInside
    <3> QED
      BY <3>4, <2>1, <1>0, RecordedKept DEF IInv
  <2> QED
    BY <2>2, <2>3
<1>4. CASE Override
  <2> DEFINE range == RangeOf(run.x, run.y, run.num, Len(index.pos))
  <2>1. UNCHANGED <<index, time, runs, status>> /\ phase' = "pass 2" /\ phase = "range"
    BY <1>4 DEF Override
  <2>2. run' = IF Given(run.x, run.y)
                 THEN [run EXCEPT !.start = range.start, !.end = range.end] ELSE run
    BY <1>4 DEF Override
  <2>3. range.start \in Int /\ range.end \in Int
    <3>1. run.x \in Int /\ run.y \in Int /\ run.num \in Int /\ Len(index.pos) \in Nat
      BY <1>t DEF Run
    <3> QED
      BY <3>1, RangeIsInt
  <2> HIDE DEF range
  <2>4. run' \in Run
    BY <2>2, <2>3, <1>t DEF Run
  <2>5. /\ run'.stream = "open" /\ run'.num = Num /\ run'.x = run.x /\ run'.y = run.y
        /\ run'.num = run.num
        /\ Given(run.x, run.y) => run'.start = range.start /\ run'.end = range.end
    BY <2>1, <2>2, <1>0, <1>t DEF Prepared, Run
  <2>6. Typed'
    BY <2>1, <2>4, <1>t DEF Typed, Num
  <2>t. Prepared'
    <3>1. Num' = Num /\ index' = index /\ status = "running"
      BY <2>1, <1>0 DEF Num, Prepared
    <3>2. Given(run'.x, run'.y) =>
            /\ run'.start = RangeOf(run'.x, run'.y, run'.num, Len(index'.pos)).start
            /\ run'.end = RangeOf(run'.x, run'.y, run'.num, Len(index'.pos)).end
      BY <2>5, <3>1 DEF range
    <3> QED
      BY <2>1, <2>5, <3>1, <3>2 DEF Prepared
  <2>7. status' = "running" /\ FollowersStayInside'
    BY <2>1, <1>0 DEF Prepared, FollowersStayInside
  <2> QED
    BY <2>1, <2>6, <2>t, <2>7, <1>0, RecordedKept DEF IInv
<1>5. CASE Pass2
  <2>1. UNCHANGED <<index, time>> /\ phase = "pass 2" /\ run.stream = "open" /\ run.num = Num
    BY <1>5, <1>0 DEF Pass2, Prepared
  <2>2. Given(run.x, run.y) =>
          LET range == RangeOf(run.x, run.y, run.num, Len(index.pos))
          IN  run.start = range.start /\ run.end = range.end
    BY <2>1, <1>0 DEF Prepared
  <2>3. CASE Outside(run.start, index.pos) \/ Outside(run.end, index.pos)
    <3>1. status' = "undefined" /\ phase' = "ended" /\ UNCHANGED <<run, runs>>
      BY <1>5, <2>3 DEF Pass2
    <3>2. ~Follows(run)
      <4>1. /\ run.x \in Int /\ run.y \in Int /\ run.num \in Int
        BY <1>t DEF Run
      <4>2. Given(run.x, run.y) => ~Outside(run.end, index.pos) /\ run.start = run.x * run.num
        BY <2>2, <4>1, <1>t, RangeEndInside DEF RangeOf
      <4>3. Follows(run) => ~Outside(run.x * run.num, index.pos)
        BY <2>1, <4>1, <1>t, <1>0, FollowerInside
      <4> QED
        BY <2>3, <4>2, <4>3 DEF Follows
    <3>3. FollowersStayInside'
      <4>1. Follows(run)' <=> Follows(run)
        BY <3>1 DEF Follows
      <4> QED
        BY <3>1, <3>2, <4>1 DEF FollowersStayInside
    <3>4. Typed' /\ Prepared'
      BY <3>1, <2>1, <1>t DEF Typed, Num, Prepared
    <3> QED
      BY <3>1, <3>3, <3>4, <2>1, <1>0, RecordedKept DEF IInv
  <2>4. CASE ~(Outside(run.start, index.pos) \/ Outside(run.end, index.pos))
    <3> DEFINE r == [x |-> run.x, y |-> run.y, num |-> run.num,
                     from |-> OffsetStart(run.start, index.pos),
                     to |-> OffsetEnd(run.end, index.pos)]
    <3>1. runs' = Append(runs, r) /\ run' = NoRun /\ phase' = "start" /\ UNCHANGED status
      BY <1>5, <2>4 DEF Pass2
    <3>2. r \in Done
      BY <2>4, <1>t, OffsetsInt DEF Run, Done
    <3>3. IsRecorded(r)
      BY <2>1, <2>2, <2>4, <1>t DEF IsRecorded, RangeOf, Run
    <3> HIDE DEF r
    <3>4. Recorded'
      <4> SUFFICES ASSUME NEW i \in 1 .. Len(runs') PROVE IsRecorded(runs[i])'
        BY DEF Recorded
      <4>1. IsRecorded(runs'[i])
        <5>1. CASE i = Len(runs) + 1
          BY <5>1, <3>1, <3>2, <3>3, <1>t
        <5>2. CASE i # Len(runs) + 1
          BY <5>2, <3>1, <3>2, <1>t, <1>0 DEF Recorded
        <5> QED
          BY <5>1, <5>2
      <4> QED
        BY <4>1, <2>1 DEF IsRecorded, Num
    <3>5. Typed' /\ Prepared' /\ FollowersStayInside'
      <4>1. NoRun \in Run /\ NoRun.stream = "none"
        BY DEF NoRun, Run
      <4>2. runs' \in Seq(Done)
        BY <3>1, <3>2, <1>t
      <4>3. status' = "running"
        BY <3>1, <2>1, <1>0 DEF Prepared
      <4> QED
        BY <3>1, <4>1, <4>2, <4>3, <2>1, <1>t DEF Typed, Num, Prepared, FollowersStayInside
    <3> QED
      BY <3>4, <3>5 DEF IInv
  <2> QED
    BY <2>3, <2>4
<1>6. CASE UNCHANGED vars
  <2>1. Typed' /\ Prepared' /\ FollowersStayInside'
    <3>1. Typed' /\ Prepared'
      BY <1>6, <1>0 DEF vars, Typed, Num, Prepared
    <3>2. Follows(run)' <=> Follows(run)
      BY <1>6 DEF vars, Follows
    <3> QED
      BY <1>6, <1>0, <3>1, <3>2 DEF vars, FollowersStayInside
  <2> QED
    BY <2>1, <1>6, <1>0, RecordedKept DEF vars, IInv
<1> QED
  BY <1>1, <1>2, <1>3, <1>4, <1>5, <1>6 DEF Next

(* A conversion in pieces, of which each begins where the file does or     *)
(* with the number behind an earlier one that did not come to its end,     *)
(* never makes pass 2 read behind the key frame index, for any index,      *)
(* segment time and numbers: main checks only the range's end, and         *)
(* fragement_hls_file_ex nothing.                                          *)
THEOREM PiecesStayInside == Spec => []FollowersStayInside
<1>1. IInv => FollowersStayInside
  BY DEF IInv
<1> QED
  BY <1>1, InitInv, StepInv, PTL DEF Spec

-----------------------------------------------------------------------------
(* The positions of key frames grow. *)
Growing(pos) ==
  /\ \A i \in 1 .. Len(pos) : pos[i] > 0
  /\ \A i, j \in 1 .. Len(pos) : i < j => pos[i] < pos[j]

LEMMA ProductPositive ==
  ASSUME NEW x \in Int, NEW num \in Int, x > 0, num > 0
  PROVE  x * num \in Int /\ x * num > 0
OBVIOUS

LEMMA ProductLarger ==
  ASSUME NEW x \in Int, NEW y \in Int, NEW num \in Int, x >= 0, x <= y, num > 0
  PROVE  x * num \in Int /\ (y + 1) * num \in Int /\ x * num >= 0 /\ x * num < (y + 1) * num
<1>1. (y + 1) * num = y * num + num /\ y * num \in Int /\ x * num \in Int
  OBVIOUS
<1>2. (y - x) * num >= 0 /\ (y - x) * num = y * num - x * num /\ x * num >= 0
  OBVIOUS
<1> QED
  BY <1>1, <1>2

LEMMA OffsetsGrow ==
  ASSUME NEW pos \in Seq(Nat), Growing(pos), NEW a \in Int, NEW b \in Int, 0 <= a, a < b,
         ~Outside(a, pos)
  PROVE  /\ OffsetStart(a, pos) = 0 <=> a = 0
         /\ b < Len(pos) => OffsetStart(a, pos) < pos[b + 1]
<1>1. Len(pos) \in Nat
  OBVIOUS
<1>2. CASE a = 0
  <2>1. b < Len(pos) => b + 1 \in 1 .. Len(pos)
    BY <1>1
  <2> QED
    BY <1>2, <2>1 DEF OffsetStart, Growing
<1>3. CASE a > 0
  <2>1. a + 1 \in 1 .. Len(pos)
    BY <1>1, <1>3 DEF Outside
  <2>2. pos[a + 1] > 0
    BY <2>1 DEF Growing
  <2>3. b < Len(pos) => pos[a + 1] < pos[b + 1]
    BY <1>1, <2>1 DEF Growing
  <2> QED
    BY <1>3, <2>2, <2>3 DEF OffsetStart
<1> QED
  BY <1>2, <1>3

LEMMA RecordedTile ==
  ASSUME IInv, \A i \in Index : Growing(i.pos)
  PROVE  RunsTile
<1> DEFINE pos == index.pos
<1>1. /\ runs \in Seq(Done) /\ pos \in Seq(Nat) /\ Growing(pos) /\ Len(pos) \in Nat
      /\ Recorded
  BY MainAssumption DEF IInv, Typed
<1> HIDE DEF pos
<1> SUFFICES ASSUME NEW i \in 1 .. Len(runs), NEW j \in 1 .. Len(runs),
                    runs[i].num > 0, Given(runs[i].x, runs[i].y),
                    runs[i].x >= 0, runs[i].y >= runs[i].x
             PROVE  /\ runs[i].x = 0 <=> runs[i].from = 0
                    /\ runs[i].to # Unlimited => runs[i].from < runs[i].to
                    /\ Given(runs[j].x, runs[j].y) /\ runs[j].x = runs[i].y + 1 =>
                         runs[j].from = runs[i].to
  BY DEF RunsTile
<1> DEFINE r == runs[i]
           s == runs[j]
<1>2. /\ r.x \in Int /\ r.y \in Int /\ r.num \in Int
      /\ s.x \in Int /\ s.num = r.num
      /\ ~Outside(r.x * r.num, pos)
      /\ r.from = OffsetStart(r.x * r.num, pos)
      /\ r.to = OffsetEnd(RangeOf(r.x, r.y, r.num, Len(pos)).end, pos)
      /\ Given(s.x, s.y) => ~Outside(s.x * r.num, pos) /\ s.from = OffsetStart(s.x * r.num, pos)
  <2>1. IsRecorded(runs[i]) /\ IsRecorded(runs[j])
    BY <1>1 DEF Recorded
  <2>2. runs[i] \in Done /\ runs[j] \in Done
    BY <1>1
  <2> QED
    BY <2>1, <2>2 DEF IsRecorded, Done, pos
<1>3. r.num > 0 /\ r.x >= 0 /\ r.y >= r.x
  OBVIOUS
<1> HIDE DEF r, s
<1> DEFINE a == r.x * r.num
           b == (r.y + 1) * r.num
<1>4. a \in Int /\ b \in Int /\ 0 <= a /\ a < b
  BY <1>2, <1>3, ProductLarger
<1>5. r.x = 0 <=> a = 0
  <2>1. CASE r.x = 0
    BY <2>1, <1>2
  <2>2. CASE r.x > 0
    <3>1. a > 0
      BY <2>2, <1>2, <1>3, ProductPositive
    <3> QED
      BY <3>1, <2>2
  <2> QED
    BY <2>1, <2>2, <1>2, <1>3
<1>6. r.from = OffsetStart(a, pos) /\ ~Outside(a, pos)
  BY <1>2
<1>7. r.to = IF b < Len(pos) THEN pos[b + 1] ELSE Unlimited
  <2>1. RangeOf(r.x, r.y, r.num, Len(pos)).end = IF b \in 0 .. Len(pos) - 1 THEN b ELSE -1
    BY DEF RangeOf
  <2>2. b > 0
    BY <1>4
  <2> HIDE DEF b
  <2> QED
    BY <2>1, <2>2, <1>1, <1>2, <1>4 DEF OffsetEnd, Unlimited
<1>8. Given(s.x, s.y) /\ s.x = r.y + 1 => ~Outside(b, pos) /\ s.from = OffsetStart(b, pos)
  BY <1>2
<1> HIDE DEF a, b
<1>9. r.from = 0 <=> a = 0
  BY <1>1, <1>4, <1>6, OffsetsGrow
<1>10. r.to # Unlimited => r.from < r.to
  BY <1>1, <1>4, <1>6, <1>7, OffsetsGrow
<1>11. Given(s.x, s.y) /\ s.x = r.y + 1 => s.from = r.to
  BY <1>1, <1>4, <1>7, <1>8 DEF OffsetStart, Outside
<1> QED
  BY <1>5, <1>9, <1>10, <1>11 DEF r, s

(* Runs over neighbouring -x and -y read neighbouring parts of a file whose *)
(* key frames are at growing positions, whatever the segment time and the   *)
(* number of runs (main, fragement_hls_file_ex).                            *)
THEOREM NeighboursTile ==
  ASSUME \A i \in Index : Growing(i.pos)
  PROVE  Spec => []RunsTile
<1>1. IInv => RunsTile
  BY RecordedTile
<1> QED
  BY <1>1, InitInv, StepInv, PTL DEF Spec
=============================================================================
