------------------------------ MODULE AmfData ------------------------------
(***************************************************************************)
(* AMF values: reading them from a file, their size, writing them, and the *)
(* collection of the key frame index from the metadata.                    *)
(*                                                                         *)
(* A file is a sequence of marks, the items the reader takes in one piece: *)
(* a type byte, a number, a name.  What is not there is cut off.  A string *)
(* is [text, len, shown], where shown is its length as a C string and text *)
(* what it reads as.  A value is [type, value]; an object's value is the   *)
(* sequence of its members [name, data], an array's that of its items.     *)
(***************************************************************************)
EXTENDS Integers, SequencesExt

Value(type, value) == [type |-> type, value |-> value]
Null == Value("null", 0)

Mark(mark, value) == [mark |-> mark, value |-> value]

Width(m) ==
  CASE m.mark \in {"type", "boolean"} -> 1
    [] m.mark = "number" -> 8
    [] m.mark = "count"  -> 4
    [] m.mark = "date"   -> 10
    [] m.mark \in {"name", "string"} -> 2 + m.value.len

Bytes(marks) == FoldLeft(LAMBDA n, m : n + Width(m), 0, marks)

-----------------------------------------------------------------------------
(* Reading. *)

Read(data, rest)    == [data |-> data, rest |-> rest, error |-> "ok"]
Failed(error, rest) == [data |-> Null, rest |-> rest, error |-> error]

ReadMark(marks) == IF marks = <<>> THEN Failed("eof", <<>>) ELSE Read(Head(marks).value, Tail(marks))

ReadScalar(type, marks) ==
  LET r == ReadMark(marks) IN IF r.error = "ok" THEN Read(Value(type, r.data), r.rest) ELSE r

(* A member's name goes through a C string. *)
CString(s) == [s EXCEPT !.len = s.shown]

(* What ends an object and an associative array. *)
Ends(type, name, error) == error \in {"end", "unknown"} \/ (type = "assoc" /\ name.len = 0)

RECURSIVE ReadData(_), ReadMembers(_, _, _), ReadItems(_, _, _)

ReadMembers(type, members, marks) ==
  LET name    == ReadMark(marks)
      element == ReadData(name.rest)
  IN  IF name.error # "ok" THEN name
      ELSE IF Ends(type, name.data, element.error) THEN Read(Value(type, members), element.rest)
      ELSE IF element.error # "ok" THEN element
      ELSE ReadMembers(type, Append(members, [name |-> CString(name.data), data |-> element.data]),
                       element.rest)

ReadItems(items, n, marks) ==
  IF Len(items) = n THEN Read(Value("array", items), marks)
  ELSE LET element == ReadData(marks)
       IN  IF element.error # "ok" THEN element
           ELSE ReadItems(Append(items, element.data), n, element.rest)

ReadData(marks) ==
  LET type == ReadMark(marks)
      t    == type.data
      size == ReadMark(type.rest)    (* An associative array's is ignored. *)
  IN  IF type.error # "ok" THEN type
      ELSE CASE t \in {"number", "boolean", "string", "date"} -> ReadScalar(t, type.rest)
             [] t \in {"null", "undefined"} -> Read(Value(t, 0), type.rest)
             [] t = "object" -> ReadMembers(t, <<>>, type.rest)
             [] t = "assoc"  -> IF size.error = "ok" THEN ReadMembers(t, <<>>, size.rest) ELSE size
             [] t = "array"  -> IF size.error = "ok" THEN ReadItems(<<>>, size.data, size.rest) ELSE size
             [] t \in {"xml", "class"} -> Failed("unsupported", type.rest)
             [] t = "end" -> Failed("end", type.rest)
             [] OTHER -> Failed("unknown", type.rest)

-----------------------------------------------------------------------------
(* The size of a value, and its form in a file. *)

(* Slip: the end of an object is its type byte only. *)
EndByte == 1

(* The empty name and the type byte that end an object. *)
EndSize == 3

RECURSIVE SizeOf(_), Write(_)

SizeOf(d) ==
  LET members == FoldLeft(LAMBDA n, m : n + 2 + m.name.len + SizeOf(m.data), 0, d.value)
      items   == FoldLeft(LAMBDA n, i : n + SizeOf(i), 0, d.value)
  IN  1 + CASE d.type = "number"  -> 8
            [] d.type = "boolean" -> 1
            [] d.type = "string"  -> 2 + d.value.len
            [] d.type = "date"    -> 10
            [] d.type = "object"  -> members + EndSize
            [] d.type = "assoc"   -> 4 + members + EndSize
            [] d.type = "array"   -> 4 + items
            [] OTHER -> 0

(* An associative array of m members has 2 * m nodes; that number is       *)
(* halved after its bytes are swapped, so from 128 members on a bit goes   *)
(* astray.  Up to 2^15 members.                                            *)
AssocCount(m) ==
  LET low == (2 * m) % 256
      high == (2 * m) \div 256
  IN  low \div 2 + (high \div 2) * 256 + (high % 2) * 128 * 65536

(* Slip: an array's count is that of an associative array. *)
HalfCount(n) == n \div 2

ArrayCount(n) == n

Write(d) ==
  LET members == FlattenSeq([i \in 1 .. Len(d.value) |->
                   <<Mark("name", d.value[i].name)>> \o Write(d.value[i].data)])
      end     == <<Mark("name", [text |-> "", len |-> 0, shown |-> 0]), Mark("type", "end")>>
  IN  <<Mark("type", d.type)>> \o
      CASE d.type \in {"null", "undefined"} -> <<>>
        [] d.type = "object" -> members \o end
        [] d.type = "assoc"  -> <<Mark("count", AssocCount(Len(d.value)))>> \o members \o end
        [] d.type = "array"  -> <<Mark("count", ArrayCount(Len(d.value)))>>
                                  \o FlattenSeq([i \in 1 .. Len(d.value) |-> Write(d.value[i])])
        [] OTHER -> <<Mark(d.type, d.value)>>

-----------------------------------------------------------------------------
(* Collecting the key frame index: the numbers of the arrays behind the    *)
(* strings "filepositions" and "times".  The last such string seen stays   *)
(* in a static variable, `name`; `wild` tells that memory was read that    *)
(* nobody wrote, for an undefined value falls through into the case of an  *)
(* associative array.                                                      *)

NewIndex == [name |-> "", pos |-> <<>>, ts |-> <<>>, wild |-> 0]

IndexNames == {"filepositions", "times"}

(* Slip: the first name stays. *)
NoteOnce(index, s) ==
  IF s.text \in IndexNames /\ index.name = "" THEN [index EXCEPT !.name = s.text] ELSE index

Note(index, s) == IF s.text \in IndexNames THEN [index EXCEPT !.name = s.text] ELSE index

CollectNumber(index, x) ==
  CASE index.name = "filepositions" -> [index EXCEPT !.pos = Append(@, x)]
    [] index.name = "times"         -> [index EXCEPT !.ts = Append(@, x)]
    [] OTHER -> index

RECURSIVE Collect(_, _)

CollectMembers(index, d) == FoldLeft(LAMBDA c, m : Collect(Note(c, m.name), m.data), index, d.value)

(* Inside an array (amf_data_dump_hls_ex) numbers count and strings do not. *)
CollectItem(index, d) ==
  CASE d.type = "number" -> CollectNumber(index, d.value)
    [] d.type \in {"object", "assoc"} -> CollectMembers(index, d)
    [] d.type = "array" -> FoldLeft(Collect, index, d.value)
    [] OTHER -> index

Collect(index, d) ==
  CASE d.type = "string" -> Note(index, d.value)
    [] d.type \in {"object", "assoc"} -> CollectMembers(index, d)
    [] d.type = "array" -> FoldLeft(CollectItem, index, d.value)
    [] d.type = "undefined" -> [index EXCEPT !.wild = 1]
    [] OTHER -> index
=============================================================================
