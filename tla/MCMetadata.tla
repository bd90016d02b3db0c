----------------------------- MODULE MCMetadata -----------------------------
(* Objects and associative arrays of one or two members, with every end    *)
(* there can be; one that nests others; some cut at every mark.            *)
EXTENDS Metadata

Str(text, len, shown) == [text |-> text, len |-> len, shown |-> shown]
Type(t) == <<Mark("type", t)>>
Scalar(t, x) == Type(t) \o <<Mark(t, x)>>
Number(x) == Scalar("number", x)
Array(items) == Type("array") \o <<Mark("count", Len(items))>> \o FlattenSeq(items)

Positions == Str("filepositions", 13, 13)
Times     == Str("times", 5, 5)

Names  == {Positions, Times, Str("", 0, 0), Str("a", 3, 1), Str("", 2, 0)}
Values == {Array(<<Number(1), Number(2)>>), Array(<<Type("null"), Scalar("boolean", 1), Number(3)>>),
           Scalar("string", Str("b", 3, 1)), Scalar("string", Times), Type("undefined"),
           Scalar("date", 7), Type("xml")}
Ending == {<<Mark("name", Str(n, Len(n), Len(n)))>> \o Type(t) : n \in {"", "x"}, t \in {"end", "other"}}

Member(name, value) == <<Mark("name", name)>> \o value
Open == {Type("object"), Type("assoc") \o <<Mark("count", 0)>>}
Simple == {o \o Member(n, v) \o e : o \in Open, n \in Names, v \in Values, e \in Ending}

Keyframes ==
  Type("object") \o Member(Times, Array(<<Number(0), Number(5)>>))
    \o Member(Positions, Array(<<Number(9), Number(10)>>)) \o Member(Str("", 0, 0), Type("end"))

MCDocument ==
  Simple
    \cup {o \o Member(Positions, Array(<<>>)) \o Member(n, v) \o Member(Str("", 0, 0), Type("end"))
            : o \in Open, n \in Names, v \in Values \cup {Keyframes, Array(<<Keyframes>>)}}
    \cup {Keyframes, Array(<<Array(<<Number(4)>>), Number(5)>>), Number(6), Type("end")}

MCCutShort ==
  {Keyframes} \cup {o \o Member(n, Number(1)) \o Member(Str("", 0, 0), Type("end")) : o \in Open, n \in Names}
=============================================================================
