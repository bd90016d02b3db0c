------------------------------ MODULE MainRun ------------------------------
(***************************************************************************)
(* The runs of the program over one file, one after the other, as a server *)
(* makes them that converts a file piece by piece: pass 1 collects the key *)
(* frame index, judge_segment_num chooses how many key frames make a       *)
(* segment, the options -x and -y (or -s and -e) choose the range, and     *)
(* pass 2 goes over it.                                                    *)
(*                                                                         *)
(* The index is [pos, ts, odd]: where its key frames are in the file and   *)
(* their times in milliseconds; odd is 1 if pass 1 comes to metadata whose *)
(* name is no string, or that hold an undefined value: such are printed as *)
(* if they were something else.  status is "undefined" once the code used  *)
(* memory it may not use, and "crashed" after it used a null pointer.      *)
(***************************************************************************)
EXTENDS Integers, Sequences

CONSTANTS
  Index,         (* The key frame indexes a file can have.                 *)
  SegmentTime,   (* The values of -g, in seconds.                          *)
  TsNumber,      (* The values of -x and -y.                               *)
  KeyNumber,     (* The values of -s and -e.                               *)
  NameLength,    (* How long the longest of -f, -o, -d and -r can be.      *)
  MaxRuns        (* The number of runs.  Bounds the model.                 *)

ASSUME MainAssumption ==
  /\ \A index \in Index : index.pos \in Seq(Nat) /\ index.ts \in Seq(Int) /\ index.odd \in {0, 1}
  /\ SegmentTime \subseteq Int /\ TsNumber \subseteq Int /\ KeyNumber \subseteq Int
  /\ NameLength \subseteq Nat
  /\ MaxRuns \in Nat

VARIABLES
  index,   (* What is in the file's metadata.                              *)
  time,    (* -g of all runs.                                              *)
  phase,   (* What main does next.                                         *)
  run,     (* The options of this run, and what it made of them.           *)
  runs,    (* History: the runs that came to pass 2.                       *)
  status

vars == <<index, time, phase, run, runs, status>>

Unlimited == -1   (* UINT64_MAX, the end of any file. *)
NameSize  == 500  (* flvname, outpath, domain and prefix of the stream, each with its zero. *)

-----------------------------------------------------------------------------
Ceil(a, b) == -((-a) \div b)

(* A second at least. *)
Timespan(ts) == IF ts[Len(ts)] - ts[1] > 1000 THEN ts[Len(ts)] - ts[1] ELSE 1000

(* As many key frames as last for the segment time on average, 6 at most,  *)
(* and 6 if there is no index.                                             *)
SegmentNum(ts, segment) ==
  LET n == Ceil(segment * Len(ts) * 1000, Timespan(ts))
  IN  IF ts = <<>> \/ n > 6 THEN 6 ELSE n

(* Slip: the last key frame is left out of the range. *)
RangeThroughLast(x, y, num, size) ==
  [start |-> x * num, end |-> IF (y + 1) * num <= size - 1 THEN (y + 1) * num - 1 ELSE -1]

(* Slip: the last range's end is not looked at. *)
RangeUncapped(x, y, num, size) == [start |-> x * num, end |-> (y + 1) * num]

(* The comparison is one of unsigned numbers. *)
RangeOf(x, y, num, size) ==
  [start |-> x * num, end |-> IF (y + 1) * num \in 0 .. size - 1 THEN (y + 1) * num ELSE -1]

Given(x, y) == x # -1 /\ y # -1

(* An index of a vector that is not checked. *)
Outside(i, pos) == i > 0 /\ i >= Len(pos)

OffsetStart(i, pos) == IF i > 0 THEN pos[i + 1] ELSE 0
OffsetEnd(i, pos)   == IF i > 0 THEN pos[i + 1] ELSE Unlimited

-----------------------------------------------------------------------------
NoRun == [x |-> -1, y |-> -1, name |-> 0, stream |-> "none", num |-> 0, start |-> 0, end |-> -1]

Init ==
  /\ index \in Index /\ time \in SegmentTime
  /\ phase = "start" /\ run = NoRun /\ runs = <<>> /\ status = "running"

Start ==
  /\ phase = "start" /\ Len(runs) < MaxRuns
  /\ \E x, y \in TsNumber, s, e \in KeyNumber, n \in NameLength :
       run' = [NoRun EXCEPT !.x = x, !.y = y, !.name = n, !.start = s, !.end = e]
  /\ phase' = "pass 1"
  /\ UNCHANGED <<index, time, runs, status>>

(* A file that cannot be opened leaves no stream, but the names are copied *)
(* into it.  They are copied whatever their length.  Any other failure of  *)
(* pass 1 frees the stream, and main does not look at the result.          *)
Pass1 ==
  LET ends(with) == status' = with /\ phase' = "ended" /\ UNCHANGED run
      leaves(as) == run' = [run EXCEPT !.stream = as] /\ phase' = "judge" /\ UNCHANGED status
  IN  /\ phase = "pass 1"
      /\ \/ ends("crashed")
         \/ run.name >= NameSize /\ ends("undefined")
         \/ run.name < NameSize /\ index.odd = 1 /\ ends("undefined")
         \/ run.name < NameSize /\ index.odd = 0 /\ leaves("open")
         \/ run.name < NameSize /\ leaves("freed")
      /\ UNCHANGED <<index, time, runs>>

Judge ==
  /\ phase = "judge"
  /\ IF run.stream = "freed"
       THEN status' = "undefined" /\ phase' = "ended" /\ UNCHANGED run
       ELSE /\ run' = [run EXCEPT !.num = SegmentNum(index.ts, time)]
            /\ phase' = "range"
            /\ UNCHANGED status
  /\ UNCHANGED <<index, time, runs>>

(* -x and -y go before -s and -e. *)
Override ==
  /\ phase = "range"
  /\ LET range == RangeOf(run.x, run.y, run.num, Len(index.pos))
     IN  run' = IF Given(run.x, run.y)
                  THEN [run EXCEPT !.start = range.start, !.end = range.end] ELSE run
  /\ phase' = "pass 2"
  /\ UNCHANGED <<index, time, runs, status>>

Pass2 ==
  /\ phase = "pass 2"
  /\ IF Outside(run.start, index.pos) \/ Outside(run.end, index.pos)
       THEN status' = "undefined" /\ phase' = "ended" /\ UNCHANGED <<run, runs>>
       ELSE /\ runs' = Append(runs, [x |-> run.x, y |-> run.y, num |-> run.num,
                                     from |-> OffsetStart(run.start, index.pos),
                                     to |-> OffsetEnd(run.end, index.pos)])
            /\ run' = NoRun /\ phase' = "start"
            /\ UNCHANGED status
  /\ UNCHANGED <<index, time>>

Next == Start \/ Pass1 \/ Judge \/ Override \/ Pass2

Spec == Init /\ [][Next]_vars

-----------------------------------------------------------------------------
(* Properties. *)

(* Runs over neighbouring numbers read neighbouring parts of the file, as  *)
(* long as the segments have a number of key frames: nothing is converted  *)
(* twice or left out at their seams; the first run reads from the file's   *)
(* start, and one that reads to its end leaves no number for another.      *)
RunsTile ==
  \A i, j \in 1 .. Len(runs) :
    LET r == runs[i]
        s == runs[j]
    IN  r.num > 0 /\ Given(r.x, r.y) /\ r.x >= 0 /\ r.y >= r.x =>
          /\ r.x = 0 <=> r.from = 0
          /\ r.to # Unlimited => r.from < r.to
          /\ Given(s.x, s.y) /\ s.x = r.y + 1 => s.from = r.to

(* A run follows if it begins where the file does, or with the number      *)
(* behind the last one of a run that did not come to the file's end.       *)
Follows(r) ==
  /\ Given(r.x, r.y)
  /\ \/ r.x = 0
     \/ \E i \in 1 .. Len(runs) :
          /\ Given(runs[i].x, runs[i].y) /\ runs[i].to # Unlimited
          /\ r.x = runs[i].y + 1

(* Only the end of a range is compared with the size of the key frame      *)
(* index, the start is looked up unchecked.  Yet as long as each run of a  *)
(* conversion in pieces follows, no pass 2 reads behind the index: the     *)
(* start of each is the checked end of one before, whatever its own end.   *)
(* (Pass 1 may misuse memory before, and so may main after its failure.)   *)
FollowersStayInside ==
  status = "undefined" /\ run.stream = "open" => ~Follows(run)
=============================================================================
