------------------------------ MODULE Metadata ------------------------------
(***************************************************************************)
(* The metadata tags pass 1 reads: the value of each is read, its size is  *)
(* taken from the tag's body, and the key frame index grows by what it     *)
(* holds, whatever the tag is called.                                      *)
(***************************************************************************)
EXTENDS AmfData

CONSTANTS
  Document,   (* The metadata values, as marks.                            *)
  CutShort,   (* Those the file may end in.                                *)
  MaxTags     (* The number of metadata tags in a file.  Bounds the model. *)

VARIABLES
  index,    (* The key frame index and the static name.                    *)
  tags,     (* History: the values read, each with its marks and the rest. *)
  status    (* "reading", "stopped" at a file that ends, or "crashed".     *)

vars == <<index, tags, status>>

Init == index = NewIndex /\ tags = <<>> /\ status = "reading"

(* A value that ends with the file ends the pass; one that cannot be read  *)
(* for another reason is passed over.                                      *)
ReadTag(doc, whole) ==
  LET r == ReadData(doc)
      grown == Collect(index, r.data)
  IN  /\ r.error = "ok"
      /\ tags' = Append(tags, [doc |-> doc, whole |-> whole, data |-> r.data, rest |-> r.rest])
      /\ index' = [grown EXCEPT !.wild = 0]
      /\ status' \in IF grown.wild = 1 THEN {"reading", "crashed"} ELSE {"reading"}

StopAtEnd(doc) ==
  /\ ReadData(doc).error = "eof"
  /\ status' = "stopped"
  /\ UNCHANGED <<index, tags>>

PassOver(doc) ==
  /\ ReadData(doc).error \notin {"ok", "eof"}
  /\ UNCHANGED vars

Next ==
  /\ status = "reading" /\ Len(tags) < MaxTags
  /\ \/ \E doc \in Document : ReadTag(doc, TRUE) \/ PassOver(doc)
     \/ \E doc \in CutShort : \E n \in 1 .. Len(doc) - 1 :
          LET part == SubSeq(doc, 1, n) IN ReadTag(part, FALSE) \/ StopAtEnd(part)

Spec == Init /\ [][Next]_vars

-----------------------------------------------------------------------------
(* Properties. *)

At(doc, mark) == {i \in 1 .. Len(doc) : doc[i].mark = mark}
Empty(s) == s.len = 0

(* No name holds a zero byte; every end has the empty name; and an empty   *)
(* name is an end if there are associative arrays.                         *)
Regular(doc) ==
  /\ \A i \in At(doc, "name") : doc[i].value.len = doc[i].value.shown
  /\ \A i \in At(doc, "name") : i < Len(doc) =>
       LET ends == doc[i + 1].value \in {"end", "other"}
       IN  /\ ends => Empty(doc[i].value)
           /\ Empty(doc[i].value) /\ (\E j \in At(doc, "type") : doc[j].value = "assoc") => ends

(* flv_read_metadata subtracts the size of the value, not the bytes that   *)
(* were read.  The size is never more than that (the reader would go back  *)
(* too far) unless the file ends within the value; and for a regular value *)
(* they are the same.                                                      *)
SizeIsRead ==
  \A i \in 1 .. Len(tags) :
    LET t == tags[i]
        taken == Bytes(t.doc) - Bytes(t.rest)
    IN  /\ t.whole => SizeOf(t.data) <= taken
        /\ t.whole /\ Regular(t.doc) => SizeOf(t.data) = taken

(* A value that was read can be written in as many bytes as its size, and  *)
(* read again the same, unless a name began with a zero byte: it is kept   *)
(* as an empty one, which ends an associative array.                       *)
WrittenReadsBack ==
  \A i \in 1 .. Len(tags) :
    LET d == tags[i].data
        w == Write(d)
    IN  /\ Bytes(w) = SizeOf(d)
        /\ (\A j \in At(tags[i].doc, "name") :
              Empty(CString(tags[i].doc[j].value)) => Empty(tags[i].doc[j].value))
             => ReadData(w) = Read(d, <<>>)

RECURSIVE Usual(_), Numbers(_, _)

(* What the collection expects: arrays of scalars under the two names      *)
(* only, those names nowhere else, and nothing undefined.                  *)
Usual(d) ==
  /\ d.type \notin {"array", "undefined"}
  /\ d.type = "string" => d.value.text \notin IndexNames
  /\ d.type \in {"object", "assoc"} =>
       \A i \in 1 .. Len(d.value) :
         LET m == d.value[i]
         IN  IF m.data.type = "array"
               THEN /\ m.name.text \in IndexNames
                    /\ \A j \in 1 .. Len(m.data.value) :
                         m.data.value[j].type \notin {"object", "assoc", "array"}
               ELSE Usual(m.data)

(* The numbers in the arrays called `name`. *)
Numbers(d, name) ==
  IF d.type \notin {"object", "assoc"} THEN <<>>
  ELSE FlattenSeq([i \in 1 .. Len(d.value) |->
         LET m == d.value[i]
         IN  IF m.data.type # "array" THEN Numbers(m.data, name)
             ELSE IF m.name.text # name THEN <<>>
             ELSE LET numbers == SelectSeq(m.data.value, LAMBDA x : x.type = "number")
                  IN  [j \in 1 .. Len(numbers) |-> numbers[j].value]])

(* While all metadata are of the usual kind, the key frame index holds the *)
(* numbers of "filepositions" and of "times", of all tags, in order.       *)
IndexRight ==
  (\A i \in 1 .. Len(tags) : Usual(tags[i].data)) =>
    /\ status # "crashed"
    /\ index.pos = FlattenSeq([i \in 1 .. Len(tags) |-> Numbers(tags[i].data, "filepositions")])
    /\ index.ts = FlattenSeq([i \in 1 .. Len(tags) |-> Numbers(tags[i].data, "times")])
=============================================================================
