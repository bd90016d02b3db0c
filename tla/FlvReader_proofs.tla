-------------------------- MODULE FlvReader_proofs --------------------------
(***************************************************************************)
(* Theorems about the reader, for any tags, any cuts, files of any number  *)
(* of tags and handlers that ask for any number of bytes at a time.        *)
(*                                                                         *)
(* Both BodyAccounted and Advances rest on where the reader is in the      *)
(* current tag at each place of the loop, which is the invariant Placed.   *)
(* InSync rests on where it is in the file, the invariant Synced; and      *)
(* RangeExact on which tags it has read when it is there, which is Ranged. *)
(* Where the tags of a file are is a recursive function of them, and its   *)
(* equation is proved by induction on their number.                        *)
(***************************************************************************)
EXTENDS FlvReader, WellFoundedInduction, TLAPS

(* Induction on the natural numbers, for the set where a fact holds.       *)
LEMMA Induction ==
  ASSUME NEW S, 0 \in S, \A n \in Nat : n \in S => n + 1 \in S
  PROVE  Nat \subseteq S
<1> DEFINE T == Nat \ S
           R == OpToRel(<, Nat)
<1>1. SUFFICES ASSUME T # {} PROVE FALSE
  OBVIOUS
<1>2. \A m, n \in Nat : m < n => <<m, n>> \in R
  BY DEF OpToRel
<1>3. IsWellFoundedOn(R, Nat)
  BY NatLessThanWellFounded
<1>4. T \subseteq Nat
  OBVIOUS
<1>5. PICK n \in T : \A m \in T : ~(<<m, n>> \in R)
  <2> HIDE DEF T, R
  <2> QED
    BY <1>1, <1>3, <1>4, WFMin
<1> HIDE DEF R
<1>6. n \in Nat /\ n \notin S /\ n # 0
  OBVIOUS
<1>7. n - 1 \in Nat /\ n - 1 < n /\ (n - 1) + 1 = n
  BY <1>6
<1>8. n - 1 \in S
  BY <1>2, <1>5, <1>6, <1>7
<1> QED
  BY <1>6, <1>7, <1>8

(* The smaller and the larger of two numbers, and the smallest of three.   *)
LEMMA MaxOfTwo ==
  ASSUME NEW a \in Int, NEW b \in Int
  PROVE  Max({a, b}) = IF a >= b THEN a ELSE b
  BY DEF Max

LEMMA MinOfThree ==
  ASSUME NEW a \in Nat, NEW b \in Nat, NEW c \in Nat
  PROVE  /\ Min({a, b, c}) \in Nat
         /\ Min({a, b, c}) <= a /\ Min({a, b, c}) <= b /\ Min({a, b, c}) <= c
<1>1. PICK m \in {a, b, c} : m <= a /\ m <= b /\ m <= c
  OBVIOUS
<1>2. \E x \in {a, b, c} : \A y \in {a, b, c} : x <= y
  BY <1>1
<1> QED
  BY <1>2 DEF Min

LEMMA MinOfTwo ==
  ASSUME NEW a \in Int, NEW b \in Int
  PROVE  Min({a, b}) = IF a <= b THEN a ELSE b
  BY DEF Min

(* Where the reader is in the current tag. *)
Placed ==
  /\ pc = "begin" => seen = <<>>
  /\ pc \in {"body", "handler", "trailer"} => seen # <<>>
  /\ pc \in {"body", "handler", "trailer", "next"} /\ seen # <<>> => Last(seen) = tag_offset
  /\ pc = "body" => state = "TAG_BODY" /\ pos = tag_offset + TagSize /\ left = tag.length
  /\ pc = "handler" => pos >= tag_offset + TagSize /\ tag.type \in {"audio", "video"}
  /\ pc = "trailer" =>
       \/ state = "TAG_BODY"
       \/ state = "PREV_TAG_SIZE" /\ pos + 1 >= tag_offset + TagSize
  /\ pc = "next" /\ seen # <<>> =>
       state = "TAG" /\ pos + 1 >= tag_offset + TagSize + TrailerSize
  /\ pc = "finished" => pass = 2

IInv == TypeOK /\ BodyAccounted /\ Placed

USE DEF HeaderSize, TagSize, TrailerSize

(* The equation of the offsets: a function that satisfies it exists for    *)
(* any number of tags, by induction on it.                                 *)
LEMMA OffsetsEquation ==
  ASSUME NEW tags \in Seq(TagType)
  PROVE  Offsets(tags) = [i \in 1 .. Len(tags) + 1 |->
           IF i = 1 THEN HeaderSize + TrailerSize
           ELSE Offsets(tags)[i - 1] + TagSize + tags[i - 1].length + TrailerSize]
<1> DEFINE Step(g, n) == g = [i \in 1 .. n + 1 |->
             IF i = 1 THEN HeaderSize + TrailerSize
             ELSE g[i - 1] + TagSize + tags[i - 1].length + TrailerSize]
           S == {n \in Nat : \E g : Step(g, n)}
<1>1. 0 \in S
  <2>1. Step([i \in 1 .. 1 |-> HeaderSize + TrailerSize], 0)
    OBVIOUS
  <2> QED
    BY <2>1
<1>2. ASSUME NEW n \in Nat, n \in S PROVE n + 1 \in S
  <2>1. PICK g : Step(g, n)
    BY <1>2
  <2> DEFINE h == [i \in 1 .. n + 2 |->
               IF i = n + 2 THEN g[n + 1] + TagSize + tags[n + 1].length + TrailerSize ELSE g[i]]
             r == [i \in 1 .. n + 2 |->
               IF i = 1 THEN HeaderSize + TrailerSize
               ELSE h[i - 1] + TagSize + tags[i - 1].length + TrailerSize]
  <2>2. ASSUME NEW i \in 1 .. n + 2 PROVE h[i] = r[i]
    <3>1. CASE i = 1
      BY <2>1, <3>1
    <3>2. CASE i = n + 2
      BY <3>2
    <3>3. CASE i # 1 /\ i # n + 2
      <4>1. i - 1 \in 1 .. n + 2 /\ i - 1 # n + 2 /\ i \in 1 .. n + 1
        BY <3>3
      <4>2. h[i - 1] = g[i - 1] /\ h[i] = g[i]
        BY <4>1, <3>3
      <4> QED
        BY <2>1, <3>3, <4>1, <4>2
    <3> QED
      BY <3>1, <3>2, <3>3
  <2>3. h = r
    <3> HIDE DEF Step
    <3> QED
      BY <2>2
  <2>4. Step(h, n + 1)
    BY <2>3
  <2> HIDE DEF h, r, Step
  <2> QED
    BY <2>4
<1>3. \E g : Step(g, Len(tags))
  <2>1. Nat \subseteq S
    <3> HIDE DEF S
    <3> QED
      BY <1>1, <1>2, Induction
  <2> QED
    BY <2>1
<1> QED
  BY <1>3 DEF Offsets

LEMMA LengthOfTag ==
  ASSUME NEW tags \in Seq(TagType), NEW i \in 1 .. Len(tags)
  PROVE  tags[i].length \in Nat
<1>1. tags[i] \in TagType
  OBVIOUS
<1> QED
  BY <1>1 DEF TagType

(* The tags follow each other, and none begins before the header's end.    *)
LEMMA OffsetsFollow ==
  ASSUME NEW tags \in Seq(TagType)
  PROVE  /\ Offsets(tags)[1] = HeaderSize + TrailerSize
         /\ \A i \in 1 .. Len(tags) : Offsets(tags)[i + 1] =
              Offsets(tags)[i] + TagSize + tags[i].length + TrailerSize
         /\ \A i \in 1 .. Len(tags) + 1 : Offsets(tags)[i] \in Nat
<1> DEFINE at == Offsets(tags)
           S == {n \in Nat : n < Len(tags) + 1 => at[n + 1] \in Nat}
<1>1. at[1] = HeaderSize + TrailerSize
  BY OffsetsEquation
<1>2. ASSUME NEW i \in 1 .. Len(tags)
      PROVE  /\ at[i + 1] = at[i] + TagSize + tags[i].length + TrailerSize
             /\ tags[i].length \in Nat
  <2>1. i + 1 \in 1 .. Len(tags) + 1 /\ i + 1 # 1 /\ (i + 1) - 1 = i
    OBVIOUS
  <2>2. tags[i].length \in Nat
    BY LengthOfTag
  <2> HIDE DEF at
  <2> QED
    BY <2>1, <2>2, OffsetsEquation DEF at
<1> HIDE DEF at
<1>3. 0 \in S
  BY <1>1
<1>4. ASSUME NEW n \in Nat, n \in S PROVE n + 1 \in S
  <2>1. CASE n + 1 < Len(tags) + 1
    <3>1. n + 1 \in 1 .. Len(tags)
      BY <2>1
    <3> QED
      BY SMTT(30), <1>2, <1>4, <2>1, <3>1
  <2> QED
    BY <2>1
<1>5. Nat \subseteq S
  <2> HIDE DEF S
  <2> QED
    BY <1>3, <1>4, Induction
<1>6. ASSUME NEW i \in 1 .. Len(tags) + 1 PROVE at[i] \in Nat
  <2>1. i - 1 \in Nat /\ i - 1 < Len(tags) + 1 /\ (i - 1) + 1 = i
    OBVIOUS
  <2> QED
    BY <1>5, <2>1
<1> QED
  BY <1>1, <1>2, <1>6 DEF at

LEMMA OffsetsIncrease ==
  ASSUME NEW tags \in Seq(TagType),
         NEW i \in 1 .. Len(tags) + 1, NEW j \in 1 .. Len(tags) + 1, i < j
  PROVE  Offsets(tags)[i] < Offsets(tags)[j]
<1> DEFINE at == Offsets(tags)
           S == {n \in Nat : i + n + 1 <= Len(tags) + 1 => at[i] < at[i + n + 1]}
<1>1. ASSUME NEW k \in 1 .. Len(tags) PROVE at[k] < at[k + 1] /\ at[k] \in Nat /\ at[k + 1] \in Nat
  <2>1. tags[k].length \in Nat
    BY LengthOfTag
  <2> QED
    BY SMTT(30), <2>1, OffsetsFollow
<1> HIDE DEF at
<1>2. 0 \in S
  BY <1>1
<1>3. ASSUME NEW n \in Nat, n \in S PROVE n + 1 \in S
  <2>1. CASE i + n + 2 <= Len(tags) + 1
    <3>1. i \in 1 .. Len(tags) /\ i + n + 1 \in 1 .. Len(tags) /\ (i + n + 1) + 1 = i + (n + 1) + 1
      BY <2>1
    <3>2. at[i] < at[i + n + 1]
      BY <1>3, <3>1
    <3>3. at[i] \in Nat /\ at[i + n + 1] \in Nat /\ at[(i + n + 1) + 1] \in Nat
            /\ at[i + n + 1] < at[(i + n + 1) + 1]
      BY <1>1, <3>1
    <3>4. at[i] < at[i + (n + 1) + 1]
      BY <3>1, <3>2, <3>3
    <3> QED
      BY <3>4
  <2> QED
    BY <2>1
<1>4. Nat \subseteq S
  <2> HIDE DEF S
  <2> QED
    BY <1>2, <1>3, Induction
<1>5. PICK n \in Nat : i + n + 1 = j
  <2>1. j - i - 1 \in Nat /\ i + (j - i - 1) + 1 = j
    OBVIOUS
  <2> QED
    BY <2>1
<1>6. n \in S /\ i + n + 1 <= Len(tags) + 1
  BY <1>4, <1>5
<1>7. at[i] < at[j]
  BY <1>5, <1>6
<1> QED
  BY <1>7 DEF at

LEMMA InitIInv == Init => IInv
  BY DEF Init, IInv, TypeOK, BodyAccounted, Placed, NoTag, Unread, AmfType, TagType, Passes

LEMMA BeginKeepsIInv == ASSUME IInv, Begin PROVE IInv'
  BY DEF Begin, IInv, TypeOK, BodyAccounted, Placed, loop, Passes, FileType

(* A tag that is read is one the file may consist of, wherever it is found. *)
LEMMA FoundTags ==
  ASSUME file \in FileType, NEW at
  PROVE  TagsAt(at) \subseteq TagType
<1>1. TagsAt(at) \subseteq Tag
  BY DEF TagsAt, FileType
<1> QED
  BY <1>1, ReaderAssumption

(* Where the next tag is looked for. *)
LEMMA TagStartType ==
  ASSUME TypeOK
  PROVE  TagStart \in Nat /\ (state = "TAG" => TagStart = pos)
  BY DEF TypeOK, TagStart, BodyEnd, TagType

LEMMA ReadTagKeepsIInv == ASSUME IInv, ReadTag PROVE IInv'
<1>1. TypeOK /\ TagStart \in Nat /\ seen \in Seq(Nat)
  BY TagStartType DEF IInv, TypeOK
<1>2. file' = file /\ pass' = pass /\ configs' = configs
  BY DEF ReadTag, loop
<1>3. CASE TagStart + TagSize <= file.size
  <2>1. PICK t \in TagsAt(TagStart) :
          /\ tag' = t /\ tag_offset' = TagStart /\ left' = t.length
          /\ pos' = TagStart + TagSize /\ state' = "TAG_BODY"
          /\ seen' = Append(seen, TagStart)
          /\ pc' = "body"
    BY <1>3 DEF ReadTag
  <2>2. t \in TagType
    BY <1>1, FoundTags DEF TypeOK
  <2>3. seen' \in Seq(Nat) /\ seen' # <<>> /\ Last(seen') = TagStart
    BY <1>1, <2>1 DEF Last
  <2>4. TypeOK'
    BY <1>1, <1>2, <2>1, <2>2, <2>3 DEF TypeOK, TagType, Passes
  <2> QED
    BY <1>1, <2>1, <2>3, <2>4 DEF IInv, BodyAccounted, Placed
<1>4. CASE ~(TagStart + TagSize <= file.size)
  <2>1. /\ pos' = TagStart /\ state' = "TAG" /\ pc' = "end"
        /\ tag' = tag /\ tag_offset' = tag_offset /\ left' = left /\ seen' = seen
    BY <1>4 DEF ReadTag
  <2> QED
    BY <1>1, <1>2, <2>1 DEF IInv, TypeOK, BodyAccounted, Placed, Passes
<1> QED
  BY <1>3, <1>4

LEMMA ReadAvKeepsIInv == ASSUME IInv, ReadAv PROVE IInv'
<1>1. /\ pc = "body" /\ state = "TAG_BODY" /\ pos = tag_offset + TagSize /\ left = tag.length
      /\ pos \in Nat /\ left \in Nat /\ tag_offset \in Nat
      /\ tag.type \in {"audio", "video"}
  BY DEF IInv, TypeOK, Placed, ReadAv
<1>2. /\ file' = file /\ pass' = pass /\ configs' = configs
      /\ tag' = tag /\ tag_offset' = tag_offset /\ seen' = seen
  BY DEF ReadAv, loop
<1>3. CASE left' = left /\ pos' = pos /\ state' = state /\ pc' \in {"trailer", "failed"}
  BY <1>1, <1>2, <1>3 DEF IInv, TypeOK, BodyAccounted, Placed, Passes
<1>4. CASE /\ left # 0 /\ pos' = pos + 1 /\ left' = left - 1
           /\ state' = After(left - 1) /\ pc' = "handler"
  <2>1. left - 1 \in Nat /\ pos' = tag_offset + TagSize + 1
    BY <1>1, <1>4
  <2>2. TypeOK'
    BY <1>1, <1>2, <1>4, <2>1 DEF IInv, TypeOK, After, Passes
  <2>3. BodyAccounted'
    BY <1>1, <1>2, <1>4, <2>1 DEF BodyAccounted, BodyEnd, After
  <2> QED
    BY <1>1, <1>2, <1>4, <2>1, <2>2, <2>3 DEF IInv, Placed
<1> QED
  BY <1>1, <1>3, <1>4 DEF ReadAv, stream

LEMMA ReadBodyKeepsIInv == ASSUME IInv, NEW n \in Chunks, ReadBody(n) PROVE IInv'
<1> DEFINE rest == Max({file.size - pos, 0})
           some == IF state = "TAG_BODY" THEN Min({n, left, rest}) ELSE 0
<1>1. /\ pc = "handler" /\ pos + left = BodyEnd /\ state = After(left)
      /\ pos \in Nat /\ left \in Nat /\ file.size \in Nat /\ n \in Nat
      /\ tag_offset \in Nat /\ pos >= tag_offset + TagSize
      /\ tag.type \in {"audio", "video"}
  BY ReaderAssumption DEF IInv, TypeOK, FileType, BodyAccounted, Placed, ReadBody
<1>2. rest \in Nat
  BY <1>1, MaxOfTwo
<1>3. some \in Nat /\ some <= left
  <2> HIDE DEF rest
  <2> QED
    BY <1>1, <1>2, MinOfThree
<1>4. /\ pos' = pos + some /\ left' = left - some
      /\ state' = IF state = "TAG_BODY" THEN After(left - some) ELSE state
      /\ pc' \in {"handler", "failed"}
      /\ file' = file /\ pass' = pass /\ configs' = configs
      /\ tag' = tag /\ tag_offset' = tag_offset /\ seen' = seen
  BY DEF ReadBody, loop
<1>5. state # "TAG_BODY" => some = 0
  OBVIOUS
<1> HIDE DEF some
<1>6. TypeOK'
  BY <1>1, <1>3, <1>4 DEF IInv, TypeOK, After, Passes
<1>7. BodyAccounted'
  BY <1>1, <1>3, <1>4, <1>5 DEF BodyAccounted, BodyEnd, After
<1> QED
  BY <1>1, <1>3, <1>4, <1>6, <1>7 DEF IInv, Placed

LEMMA HandlerReturnsKeepsIInv == ASSUME IInv, HandlerReturns PROVE IInv'
<1>1. /\ pc = "handler" /\ pc' = "trailer" /\ state = After(left)
      /\ file' = file /\ pass' = pass /\ state' = state /\ pos' = pos /\ left' = left
      /\ tag' = tag /\ tag_offset' = tag_offset /\ seen' = seen
      /\ tag.type \in {"audio", "video"} /\ configs \subseteq {"audio", "video", "meta"}
  BY DEF IInv, TypeOK, BodyAccounted, Placed, HandlerReturns, stream
<1>2. configs' \subseteq {"audio", "video", "meta"}
  BY <1>1 DEF HandlerReturns
<1> QED
  BY <1>1, <1>2 DEF IInv, TypeOK, BodyAccounted, Placed, After, Passes

(* What a value takes of a file that holds what it needs.                  *)
LEMMA TakenOfFile ==
  ASSUME file \in FileType, NEW v \in AmfType, NEW at \in Nat,
         v.bytes > 0, at + v.needs <= file.size
  PROVE  /\ Taken(v, at) \in Nat /\ Taken(v, at) >= v.needs
         /\ Taken(v, at) = IF at + v.bytes <= file.size THEN v.bytes ELSE file.size - at
         /\ v.size <= Taken(v, at) + 1 /\ v.size <= v.bytes
         /\ v.bytes \in Nat /\ v.size \in Nat /\ v.needs \in Nat \ {0} /\ v.size > 0
<1>1. /\ file.size \in Nat /\ v.bytes \in Nat /\ v.needs \in Nat \ {0} /\ v.size \in Nat
      /\ v.size <= v.needs + 1 /\ v.needs <= v.bytes /\ v.size <= v.bytes /\ v.size > 0
  BY DEF FileType, AmfType
<1>2. Taken(v, at) = IF v.bytes <= file.size - at THEN v.bytes ELSE file.size - at
  BY <1>1, MinOfTwo DEF Taken
<1> QED
  BY <1>1, <1>2

(* How far the reader goes back behind a value of size vs in a body of     *)
(* which the name, of size ns, left something, and what is left then.      *)
LEMMA GoesBack ==
  ASSUME NEW l \in Nat, NEW ns \in Nat, NEW vs \in Nat, NEW n \in Nat, NEW v \in Nat,
         ns < l, n >= 1, v >= 1, vs <= v + 1
  PROVE  LET over == Max({vs - (l - ns), 0})
         IN  /\ over \in Nat /\ over <= v
             /\ (l - ns) + over - vs \in Nat
             /\ (l - ns) + over - vs = 0 => over = ns + vs - l /\ ns + vs >= l
<1> DEFINE over == Max({vs - (l - ns), 0})
<1>1. over = IF vs - (l - ns) >= 0 THEN vs - (l - ns) ELSE 0
  BY MaxOfTwo
<1> HIDE DEF over
<1>2. over \in Nat /\ over <= v
  BY <1>1
<1>3. (l - ns) + over - vs \in Nat
  BY <1>1
<1>4. (l - ns) + over - vs = 0 => over = ns + vs - l /\ ns + vs >= l
  BY <1>1, <1>2
<1> QED
  BY <1>2, <1>3, <1>4 DEF over

(* What flv_read_metadata does: it fails; it leaves the rest of the body   *)
(* to be skipped; it goes back by the size of a name that fills the body;  *)
(* or it has used up the body with the value.                              *)
LEMMA MetadataCases ==
  ASSUME IInv, ReadMetadata
  PROVE  /\ pc = "body" /\ tag.type = "meta" /\ pc' \in {"trailer", "failed"}
         /\ pos = tag_offset + TagSize /\ left = tag.length /\ tag.length \in Nat
         /\ pos \in Nat /\ tag_offset \in Nat /\ seen # <<>> /\ Last(seen) = tag_offset
         /\ configs' \subseteq {"audio", "video", "meta"}
         /\ file' = file /\ pass' = pass
         /\ tag' = tag /\ tag_offset' = tag_offset /\ seen' = seen
         /\ pos' \in Nat /\ left' \in Nat
         /\ \/ state' = "TAG_BODY"
            \/ /\ state' = "PREV_TAG_SIZE" /\ pos' + 1 >= tag_offset + TagSize
               /\ left > 0 /\ tag.name.size >= left
            \/ /\ state' = "PREV_TAG_SIZE" /\ pos' + 1 >= tag_offset + TagSize
               /\ left > 0 /\ tag.name.size + tag.value.size >= left
               /\ \/ tag_offset + TagSize + (tag.name.bytes + tag.value.bytes) > file.size
                  \/ pos' = pos + (tag.name.bytes + tag.value.bytes)
                              - (tag.name.size + tag.value.size - left)
<1> DEFINE name   == tag.name
           value  == tag.value
           behind == pos + Taken(name, pos)
           rest   == left - name.size
           over   == Max({value.size - rest, 0})
<1>1. /\ pc = "body" /\ tag.type = "meta" /\ state = "TAG_BODY"
      /\ pos = tag_offset + TagSize /\ left = tag.length /\ tag.length \in Nat
      /\ pos \in Nat /\ tag_offset \in Nat /\ seen # <<>> /\ Last(seen) = tag_offset
      /\ name \in AmfType /\ value \in AmfType /\ file \in FileType /\ file.size \in Nat
      /\ configs \subseteq {"audio", "video", "meta"}
  BY DEF IInv, TypeOK, TagType, FileType, Placed, ReadMetadata
<1>2. /\ file' = file /\ pass' = pass
      /\ tag' = tag /\ tag_offset' = tag_offset /\ seen' = seen
      /\ pc' \in {"trailer", "failed"} /\ configs' \subseteq {"audio", "video", "meta"}
  BY <1>1 DEF ReadMetadata
<1>3. /\ name.bytes \in Nat /\ name.size \in Nat /\ name.needs \in Nat
      /\ value.bytes \in Nat /\ value.size \in Nat /\ value.needs \in Nat
      /\ value.size <= value.bytes
  BY <1>1 DEF AmfType
<1>5. \/ state' = state /\ pos' = pos /\ left' = left
      \/ /\ left > 0 /\ name.bytes > 0 /\ pos + name.needs <= file.size /\ name.size >= left
         /\ left' = 0 /\ state' = "PREV_TAG_SIZE" /\ pos' = behind - name.size
      \/ name.size < left /\ state' = state /\ pos' = pos /\ left' = rest
      \/ /\ left > 0 /\ name.bytes > 0 /\ pos + name.needs <= file.size /\ name.size < left
         /\ value.bytes > 0 /\ behind + value.needs <= file.size
         /\ left' = rest + over - value.size /\ state' = After(left')
         /\ pos' = behind + Taken(value, behind) - over
  <2> HIDE DEF name, value, behind, rest, over
  <2>1. CASE left = 0
    BY <1>1, <2>1 DEF ReadMetadata, stream, name, value, behind, rest, over
  <2>2. CASE left # 0 /\ (pos + name.needs > file.size \/ name.bytes = 0)
    BY <1>1, <2>2 DEF ReadMetadata, stream, name, value, behind, rest, over
  <2>3. CASE left # 0 /\ ~(pos + name.needs > file.size) /\ name.bytes # 0 /\ left <= name.size
    BY <1>1, <1>3, <2>3 DEF ReadMetadata, name, value, behind, rest, over
  <2>4. CASE left # 0 /\ ~(pos + name.needs > file.size) /\ name.bytes # 0 /\ ~(left <= name.size)
    <3>1. behind \in Nat
      <4>1. name.bytes > 0 /\ pos + name.needs <= file.size
        BY <1>1, <1>3, <2>4
      <4>2. Taken(name, pos) \in Nat
        BY <1>1, <4>1, TakenOfFile
      <4> QED
        BY <1>1, <4>2 DEF behind
    <3>2. CASE behind + value.needs > file.size
      BY <2>4, <3>2 DEF ReadMetadata, stream, name, value, behind, rest, over
    <3>3. CASE ~(behind + value.needs > file.size) /\ value.bytes = 0
      BY <1>1, <1>3, <2>4, <3>3 DEF ReadMetadata, name, value, behind, rest, over
    <3>4. CASE ~(behind + value.needs > file.size) /\ value.bytes # 0
      <4>1. CASE over = 0 /\ behind + value.bytes > file.size
        BY <2>4, <3>4, <4>1 DEF ReadMetadata, stream, name, value, behind, rest, over
      <4>2. CASE ~(over = 0 /\ behind + value.bytes > file.size)
        <5>1. /\ left' = rest + over - value.size /\ state' = After(left')
              /\ pos' = behind + Taken(value, behind) - over
          BY <2>4, <3>4, <4>2 DEF ReadMetadata, name, value, behind, rest, over
        <5>2. /\ left > 0 /\ name.bytes > 0 /\ pos + name.needs <= file.size /\ name.size < left
              /\ value.bytes > 0 /\ behind + value.needs <= file.size
          <6>1. /\ left \in Nat /\ pos \in Nat /\ file.size \in Nat
                /\ name.bytes \in Nat /\ name.size \in Nat /\ name.needs \in Nat
                /\ value.bytes \in Nat /\ value.needs \in Nat
            BY <1>1, <1>3
          <6> QED
            BY <2>4, <3>1, <3>4, <6>1
        <5> QED
          BY <5>1, <5>2
      <4> QED
        BY <4>1, <4>2
    <3> QED
      BY <3>2, <3>3, <3>4
  <2> QED
    BY <2>1, <2>2, <2>3, <2>4
<1>6. CASE state' = state /\ pos' = pos /\ left' = left
  BY <1>1, <1>2, <1>6
<1>7. CASE /\ left > 0 /\ name.bytes > 0 /\ pos + name.needs <= file.size /\ name.size >= left
           /\ left' = 0 /\ state' = "PREV_TAG_SIZE" /\ pos' = behind - name.size
  <2>1. Taken(name, pos) \in Nat /\ name.size <= Taken(name, pos) + 1
    BY <1>1, <1>7, TakenOfFile
  <2>2. pos' + 1 >= pos /\ pos' \in Nat
    BY <1>1, <1>3, <1>7, <2>1
  <2> QED
    BY <1>1, <1>2, <1>7, <2>2
<1>8. CASE name.size < left /\ state' = state /\ pos' = pos /\ left' = rest
  BY <1>1, <1>2, <1>3, <1>8
<1>9. CASE /\ left > 0 /\ name.bytes > 0 /\ pos + name.needs <= file.size /\ name.size < left
           /\ value.bytes > 0 /\ behind + value.needs <= file.size
           /\ left' = rest + over - value.size /\ state' = After(left')
           /\ pos' = behind + Taken(value, behind) - over
  <2> DEFINE n == Taken(name, pos)
             v == Taken(value, behind)
  <2> HIDE DEF name, value, behind, rest, over
  <2>10. /\ name.bytes > 0 /\ pos + name.needs <= file.size /\ name.size < left
         /\ value.bytes > 0 /\ behind + value.needs <= file.size
    BY <1>9
  <2>1. n \in Nat /\ n >= 1 /\ n = IF pos + name.bytes <= file.size THEN name.bytes ELSE file.size - pos
    <3>1. /\ Taken(name, pos) \in Nat /\ Taken(name, pos) >= name.needs /\ name.needs \in Nat \ {0}
          /\ Taken(name, pos) = IF pos + name.bytes <= file.size THEN name.bytes ELSE file.size - pos
      BY <1>1, <2>10, TakenOfFile
    <3> HIDE DEF n
    <3>2. n = Taken(name, pos)
      BY DEF n
    <3> QED
      BY <3>1, <3>2
  <2>2. behind \in Nat /\ behind = pos + n
    BY <1>1, <2>1 DEF behind
  <2>3. /\ v \in Nat /\ v >= 1 /\ value.size <= v + 1
        /\ v = IF behind + value.bytes <= file.size THEN value.bytes ELSE file.size - behind
    <3>1. /\ Taken(value, behind) \in Nat /\ Taken(value, behind) >= value.needs
          /\ value.needs \in Nat \ {0} /\ value.size <= Taken(value, behind) + 1
          /\ Taken(value, behind) = IF behind + value.bytes <= file.size
                                    THEN value.bytes ELSE file.size - behind
      BY <1>1, <2>2, <2>10, TakenOfFile
    <3> HIDE DEF v
    <3>2. v = Taken(value, behind)
      BY DEF v
    <3> QED
      BY <3>1, <3>2
  <2>4. /\ pos' = behind + v - over /\ left' = rest + over - value.size /\ state' = After(left')
        /\ left \in Nat /\ name.size < left
    BY <1>1, <1>9
  <2> HIDE DEF n, v
  <2>5. /\ over \in Nat /\ over <= v /\ left' \in Nat
        /\ left' = 0 => over = name.size + value.size - left /\ name.size + value.size >= left
    <3>1. rest = left - name.size /\ over = Max({value.size - (left - name.size), 0})
      BY DEF rest, over
    <3>2. LET o == Max({value.size - (left - name.size), 0})
          IN  /\ o \in Nat /\ o <= v /\ (left - name.size) + o - value.size \in Nat
              /\ (left - name.size) + o - value.size = 0
                   => o = name.size + value.size - left /\ name.size + value.size >= left
      <4>1. /\ left \in Nat /\ name.size \in Nat /\ value.size \in Nat /\ n \in Nat /\ v \in Nat
            /\ name.size < left /\ n >= 1 /\ v >= 1 /\ value.size <= v + 1
        BY <1>3, <2>1, <2>3, <2>4
      <4> QED
        BY Zenon, <4>1, GoesBack
    <3> QED
      BY <2>4, <3>1, <3>2
  <2>6. pos' \in Nat /\ pos' + 1 >= pos
    <3>1. pos \in Nat /\ pos' = (pos + n) + v - over
      BY <1>1, <2>2, <2>4
    <3> QED
      BY <2>1, <2>3, <2>5, <3>1
  <2>7. ASSUME left' = 0, ~(pos + (name.bytes + value.bytes) > file.size)
        PROVE  pos' = pos + (name.bytes + value.bytes) - (name.size + value.size - left)
    <3>1. pos + name.bytes <= file.size
      BY <1>1, <1>3, <2>7
    <3>2. n = name.bytes
      BY <2>1, <3>1
    <3>3. behind + value.bytes <= file.size
      BY <1>1, <1>3, <2>2, <2>7, <3>2
    <3>4. v = value.bytes
      BY <2>3, <3>3
    <3> QED
      BY <1>1, <1>3, <2>2, <2>4, <2>5, <2>7, <3>2, <3>4
  <2>8. left' # 0 => state' = "TAG_BODY"
    BY <2>4 DEF After
  <2>9. left' = 0 => state' = "PREV_TAG_SIZE"
    BY <2>4 DEF After
  <2> QED
    BY <1>1, <1>2, <1>9, <2>5, <2>6, <2>7, <2>8, <2>9 DEF name, value
<1> QED
  BY <1>5, <1>6, <1>7, <1>8, <1>9

(* The AMF values leave the position at most one byte before the body,     *)
(* whatever they took.                                                     *)
LEMMA ReadMetadataKeepsIInv == ASSUME IInv, ReadMetadata PROVE IInv'
<1>1. /\ pc' \in {"trailer", "failed"} /\ pos' \in Nat /\ left' \in Nat
      /\ configs' \subseteq {"audio", "video", "meta"} /\ seen # <<>> /\ Last(seen) = tag_offset
      /\ file' = file /\ pass' = pass
      /\ tag' = tag /\ tag_offset' = tag_offset /\ seen' = seen
      /\ state' \in {"TAG_BODY", "PREV_TAG_SIZE"}
      /\ state' = "PREV_TAG_SIZE" => pos' + 1 >= tag_offset + TagSize
  BY MetadataCases
<1> QED
  BY <1>1 DEF IInv, TypeOK, BodyAccounted, Placed, Passes

LEMMA IgnoreTagKeepsIInv == ASSUME IInv, IgnoreTag PROVE IInv'
  BY DEF IgnoreTag, IInv, TypeOK, BodyAccounted, Placed, Passes, loop, stream

LEMMA ReadPrevTagSizeKeepsIInv == ASSUME IInv, ReadPrevTagSize PROVE IInv'
<1> DEFINE from == IF state = "TAG_BODY" THEN BodyEnd ELSE pos
<1>1. /\ pc = "trailer" /\ seen # <<>> /\ Last(seen) = tag_offset
      /\ from \in Nat /\ from + 1 >= tag_offset + TagSize
      /\ pos \in Nat /\ tag_offset \in Nat
  BY DEF IInv, TypeOK, TagType, Placed, ReadPrevTagSize, BodyEnd
<1>2. /\ file' = file /\ pass' = pass /\ configs' = configs /\ left' = left
      /\ tag' = tag /\ tag_offset' = tag_offset /\ seen' = seen
  BY DEF ReadPrevTagSize, loop
<1>3. \/ pc' = "failed" /\ pos' = pos /\ state' = state
      \/ pc' \in {"next", "end"} /\ pos' = from + TrailerSize /\ state' = "TAG"
  BY DEF ReadPrevTagSize
<1> HIDE DEF from
<1>4. TypeOK'
  BY <1>1, <1>2, <1>3 DEF IInv, TypeOK, Passes
<1> QED
  BY <1>1, <1>2, <1>3, <1>4 DEF IInv, BodyAccounted, Placed

LEMMA ResetKeepsIInv == ASSUME IInv, Reset PROVE IInv'
  BY DEF Reset, IInv, TypeOK, BodyAccounted, Placed, Passes

LEMMA FinishKeepsIInv == ASSUME IInv, Finish PROVE IInv'
  BY DEF Finish, IInv, TypeOK, BodyAccounted, Placed, Passes, loop, stream

LEMMA StepKeepsIInv == IInv /\ [Next]_vars => IInv'
<1> SUFFICES ASSUME IInv, [Next]_vars PROVE IInv'
  OBVIOUS
<1>1. CASE UNCHANGED vars
  BY <1>1 DEF IInv, TypeOK, BodyAccounted, Placed, BodyEnd, After, vars
<1>2. CASE Next
  BY <1>2, BeginKeepsIInv, ReadTagKeepsIInv, ReadAvKeepsIInv, ReadBodyKeepsIInv,
     HandlerReturnsKeepsIInv, ReadMetadataKeepsIInv, IgnoreTagKeepsIInv,
     ReadPrevTagSizeKeepsIInv, ResetKeepsIInv, FinishKeepsIInv DEF Next
<1> QED
  BY <1>1, <1>2

LEMMA Inductive == Spec => []IInv
<1>1. IInv /\ [Next]_vars => IInv'
  BY StepKeepsIInv
<1> QED
  BY InitIInv, <1>1, PTL DEF Spec

-----------------------------------------------------------------------------
(* The stream's state is well formed, for any file: in particular no count *)
(* of bytes left goes below 0, which in the code is an unsigned number.    *)
THEOREM TypeCorrect == Spec => []TypeOK
<1>1. IInv => TypeOK
  BY DEF IInv
<1> QED
  BY Inductive, <1>1, PTL

(* No sequence of reads of any lengths by a handler, answered in full or   *)
(* short, makes position, count and state of a body disagree.              *)
THEOREM BodiesAccounted == Spec => []BodyAccounted
<1>1. IInv => BodyAccounted
  BY DEF IInv
<1> QED
  BY Inductive, <1>1, PTL

(* The reader finds each tag behind the header of the one before it, also  *)
(* when it is out of step: going back over what an AMF value took beyond   *)
(* the body never returns it to a tag.                                     *)
THEOREM AlwaysAdvances == Spec => Advances
<1>1. ASSUME IInv, [Next]_vars, seen # <<>>, Len(seen') > Len(seen)
      PROVE  Last(seen') > Last(seen) + TagSize
  <2>1. seen \in Seq(Nat) /\ TypeOK
    BY <1>1 DEF IInv, TypeOK
  <2>2. ReadTag
    <3>1. CASE UNCHANGED vars
      BY <3>1, <1>1, <2>1 DEF vars
    <3>2. CASE Reset
      BY <3>2, <1>1, <2>1 DEF Reset
    <3>3. ASSUME seen' = seen PROVE FALSE
      BY <3>3, <1>1, <2>1
    <3>4. Begin \/ ReadAv \/ (\E n \in Chunks : ReadBody(n)) \/ HandlerReturns
            \/ ReadMetadata \/ IgnoreTag \/ ReadPrevTagSize \/ Finish => seen' = seen
      BY DEF Begin, ReadAv, ReadBody, HandlerReturns, ReadMetadata, IgnoreTag,
             ReadPrevTagSize, Finish
    <3> QED
      BY <1>1, <3>1, <3>2, <3>3, <3>4 DEF Next
  <2>3. pc = "next" /\ seen' = Append(seen, TagStart)
    BY <1>1, <2>1, <2>2 DEF ReadTag
  <2>4. /\ state = "TAG" /\ pos + 1 >= tag_offset + TagSize + TrailerSize
        /\ Last(seen) = tag_offset /\ pos \in Nat /\ tag_offset \in Nat
    BY <1>1, <2>1, <2>3 DEF IInv, TypeOK, Placed
  <2>5. TagStart = pos /\ TagStart \in Nat
    BY <2>1, <2>4, TagStartType
  <2>6. Last(seen') = pos
    BY <2>1, <2>3, <2>5 DEF Last
  <2> QED
    BY <2>4, <2>6
<1>2. IInv /\ [Next]_vars =>
        [ seen # <<>> /\ Len(seen') > Len(seen) =>
            Last(seen') > Last(seen) + TagSize ]_vars
  BY <1>1
<1> QED
  BY Inductive, <1>2, PTL DEF Spec, Advances
-----------------------------------------------------------------------------
(* Where the reader is in a file without misleading metadata: where a tag  *)
(* starts when it looks for one, in one of the file's tags when it reads a *)
(* body, and at its end behind the last byte of it.                        *)
FileWhole ==
  /\ file.size <= Offsets(file.tags)[Len(file.tags) + 1]
  /\ file.start = 0 \/ file.start \in Starts

Synced ==
  Clear =>
    /\ pc = "begin" => state = "START"
    /\ state = "TAG" => pos \in TagPlaces
    /\ pc = "next" => state # "TAG_BODY" /\ TagStart \in TagPlaces
    /\ pc \in {"body", "handler", "trailer"} =>
         \E i \in 1 .. Len(file.tags) : file.tags[i] = tag /\ Offsets(file.tags)[i] = tag_offset
    /\ pc \in {"handler", "trailer"} /\ state = "PREV_TAG_SIZE" => pos = BodyEnd

(* Which tags pass 2 has read then: all of the range that start before     *)
(* where the reader is.                                                    *)
Ranged ==
  Clear /\ pass = 2 =>
    /\ Range(seen) \subseteq InRange
    /\ \A i, j \in DOMAIN seen : i < j => seen[i] < seen[j]
    /\ pc = "next" =>
         /\ Range(seen) = {o \in Starts : First <= o /\ o < TagStart}
         /\ TagStart >= First /\ (TagStart < file.end \/ TagStart = First)
    /\ pc \in {"body", "handler", "trailer"} =>
         Range(seen) = {o \in Starts : First <= o /\ o <= tag_offset}
    /\ pc \in {"end", "finished"} => Range(seen) = InRange
    /\ pc \in {"next", "end", "finished"} /\ seen # <<>> =>
         Last(seen) + TagSize + tag.length + TrailerSize <= file.size

RInv == FileWhole /\ Synced /\ Ranged

LEMMA TagsTyped ==
  ASSUME file \in FileType
  PROVE  file.tags \in Seq(TagType)
<1>1. file.tags \in Seq(Tag) /\ Tag \subseteq TagType
  BY ReaderAssumption DEF FileType
<1> QED
  BY <1>1

(* What the proofs use of the places in a file. *)
LEMMA PlacesFollow ==
  ASSUME file \in FileType
  PROVE  /\ Starts \subseteq TagPlaces /\ TagPlaces \subseteq Nat
         /\ \A o \in TagPlaces : o >= HeaderSize + TrailerSize
         /\ HeaderSize + TrailerSize \in TagPlaces
         /\ \A i \in 1 .. Len(file.tags) :
              LET here == Offsets(file.tags)[i]
                  next == here + TagSize + file.tags[i].length + TrailerSize
              IN  /\ here \in Starts /\ next \in TagPlaces /\ file.tags[i].length \in Nat
                  /\ \A o \in Starts : o > here => o >= next
         /\ \A o \in TagPlaces :
              FileWhole /\ o + TagSize <= file.size => o \in Starts
<1> DEFINE at == Offsets(file.tags)
           n  == Len(file.tags)
<1>1. file.tags \in Seq(TagType) /\ n \in Nat
  BY TagsTyped
<1>2. /\ at[1] = HeaderSize + TrailerSize
      /\ \A i \in 1 .. n : at[i + 1] = at[i] + TagSize + file.tags[i].length + TrailerSize
      /\ \A i \in 1 .. n + 1 : at[i] \in Nat
  BY <1>1, OffsetsFollow
<1>3. \A i, j \in 1 .. n + 1 : i < j => at[i] < at[j]
  BY <1>1, OffsetsIncrease
<1>4. \A i \in 1 .. n : file.tags[i].length \in Nat
  BY <1>1, LengthOfTag
<1>5. Starts = {at[i] : i \in 1 .. n} /\ TagPlaces = {at[i] : i \in 1 .. n + 1}
  BY DEF Starts, TagPlaces
<1>6. FileWhole => file.size <= at[n + 1]
  BY DEF FileWhole
<1> HIDE DEF at, n
<1>7. Starts \subseteq TagPlaces /\ TagPlaces \subseteq Nat
  BY <1>1, <1>2, <1>5
<1>8. \A i \in 1 .. n + 1 : at[i] >= HeaderSize + TrailerSize
  <2> TAKE i \in 1 .. n + 1
  <2>1. i = 1 \/ 1 < i
    BY <1>1
  <2> QED
    BY <1>1, <1>2, <1>3, <2>1
<1>9. at[1] \in TagPlaces
  BY <1>1, <1>5
<1>10. ASSUME NEW i \in 1 .. n, NEW o \in Starts, o > at[i]
       PROVE  o >= at[i + 1]
  <2>1. PICK j \in 1 .. n : o = at[j]
    BY <1>5
  <2>2. i < j
    <3>1. CASE j = i
      BY <1>1, <1>2, <1>10, <2>1, <3>1
    <3>2. CASE j < i
      BY <1>1, <1>2, <1>3, <1>10, <2>1, <3>2
    <3> QED
      BY <1>1, <3>1, <3>2
  <2>3. i + 1 = j \/ i + 1 < j
    BY <2>2
  <2> QED
    BY SMTT(30), <1>1, <1>2, <1>3, <2>1, <2>3
<1>11. ASSUME NEW o \in TagPlaces, FileWhole, o + TagSize <= file.size
       PROVE  o \in Starts
  <2>1. PICK j \in 1 .. n + 1 : o = at[j]
    BY <1>5
  <2>2. file.size \in Nat /\ at[n + 1] \in Nat /\ file.size <= at[n + 1]
    BY <1>1, <1>2, <1>6, <1>11 DEF FileType
  <2>3. j # n + 1
    BY <1>11, <2>1, <2>2
  <2> QED
    BY <1>1, <1>5, <2>1, <2>3
<1>12. \A i \in 1 .. n : at[i] \in Starts /\ at[i + 1] \in TagPlaces
  BY <1>1, <1>5
<1>13. \A o \in TagPlaces : o >= HeaderSize + TrailerSize
  BY <1>5, <1>8
<1> QED
  BY <1>2, <1>4, <1>7, <1>9, <1>10, <1>11, <1>12, <1>13 DEF at, n

(* The properties of the file do not change. *)
LEMMA FileStays ==
  ASSUME file' = file
  PROVE  /\ Starts' = Starts /\ TagPlaces' = TagPlaces /\ (Clear' <=> Clear)
         /\ First' = First /\ InRange' = InRange /\ (FileWhole' <=> FileWhole)
  BY DEF Starts, TagPlaces, Clear, Misleading, First, InRange, FileWhole

LEMMA FirstPlace ==
  ASSUME file \in FileType, FileWhole
  PROVE  /\ First \in Nat
         /\ First = IF file.start > 0 THEN file.start ELSE HeaderSize + TrailerSize
         /\ First \in TagPlaces
<1>1. file.start \in Nat
  BY DEF FileType
<1>2. First = IF file.start >= HeaderSize + TrailerSize THEN file.start ELSE HeaderSize + TrailerSize
  BY <1>1, MaxOfTwo DEF First
<1>3. file.start > 0 => file.start \in TagPlaces /\ file.start >= HeaderSize + TrailerSize
  BY <1>1, PlacesFollow DEF FileWhole
<1> QED
  BY <1>1, <1>2, <1>3, PlacesFollow

LEMMA RangeOfAppend ==
  ASSUME NEW s \in Seq(Nat), NEW x
  PROVE  Range(Append(s, x)) = Range(s) \cup {x}
<1>1. DOMAIN Append(s, x) = DOMAIN s \cup {Len(s) + 1}
  OBVIOUS
<1>2. \A i \in DOMAIN s : Append(s, x)[i] = s[i]
  OBVIOUS
<1>3. Append(s, x)[Len(s) + 1] = x
  OBVIOUS
<1> QED
  BY <1>1, <1>2, <1>3 DEF Range

LEMMA LastInRange ==
  ASSUME NEW s \in Seq(Nat), s # <<>>
  PROVE  Last(s) \in Range(s)
<1>1. Len(s) \in DOMAIN s
  OBVIOUS
<1> QED
  BY <1>1 DEF Last, Range

LEMMA InitRInv == Init => RInv
<1> SUFFICES ASSUME Init PROVE RInv
  OBVIOUS
<1>1. /\ pass = 1 /\ pc = "begin" /\ state = "START" /\ file \in FileType
  BY DEF Init
<1>2. FileWhole
  <2>1. PICK tags \in SeqOf(Tag, MaxTags), cut \in Cuts :
         LET at   == Offsets(tags)
             size == at[Len(tags) + 1] - cut
             keys == {at[i] : i \in 1 .. Len(tags)}
         IN  \E s \in {0} \cup keys, e \in {size + 1} \cup keys :
               file = [tags |-> tags, size |-> size, start |-> s, end |-> e]
    BY DEF Init
  <2>2. cut \in Nat
    BY ReaderAssumption
  <2>3. file.tags = tags /\ file.size = Offsets(tags)[Len(tags) + 1] - cut
    BY <2>1
  <2>4. file.start = 0 \/ file.start \in Starts
    BY <2>1, <2>3 DEF Starts
  <2>5. Offsets(tags)[Len(tags) + 1] \in Nat
    BY <1>1, <2>3, TagsTyped, OffsetsFollow
  <2> QED
    BY <2>2, <2>3, <2>4, <2>5 DEF FileWhole
<1> QED
  BY <1>1, <1>2 DEF RInv, Synced, Ranged

LEMMA BeginKeepsRInv == ASSUME IInv, RInv, Begin PROVE RInv'
<1>1. /\ pc = "begin" /\ file' = file /\ pass' = pass /\ seen' = seen /\ tag' = tag
      /\ file \in FileType /\ file.start \in Nat /\ FileWhole /\ seen = <<>>
      /\ Clear => state = "START"
  BY DEF Begin, loop, IInv, TypeOK, Placed, FileType, RInv, Synced
<1>2. \/ pass = 2 /\ file.start > 0 /\ pos' = file.start /\ state' = "TAG" /\ pc' = "next"
      \/ /\ ~(pass = 2 /\ file.start > 0)
         /\ pos' = HeaderSize /\ state' = "PREV_TAG_SIZE" /\ pc' = "next"
      \/ pc' = "failed" /\ pos' = pos /\ state' = state
  BY DEF Begin
<1>3. /\ First \in TagPlaces /\ First \in Nat
      /\ First = IF file.start > 0 THEN file.start ELSE HeaderSize + TrailerSize
      /\ HeaderSize + TrailerSize \in TagPlaces
  BY <1>1, FirstPlace, PlacesFollow
<1>4. /\ Starts' = Starts /\ TagPlaces' = TagPlaces /\ (Clear' <=> Clear)
      /\ First' = First /\ InRange' = InRange /\ (FileWhole' <=> FileWhole)
  BY <1>1, FileStays
<1>5. Starts \subseteq Nat
  BY <1>1, PlacesFollow
<1>6. CASE pc' = "failed"
  BY <1>1, <1>2, <1>4, <1>6 DEF RInv, Synced, Ranged, Range
<1>7. CASE pc' = "next"
  <2>1. /\ TagStart' = IF pass = 2 THEN First ELSE HeaderSize + TrailerSize
        /\ state' = "TAG" => pos' \in TagPlaces
        /\ state' # "TAG_BODY"
    BY <1>1, <1>2, <1>3, <1>7 DEF TagStart
  <2>2. Synced'
    BY <1>3, <1>4, <1>7, <2>1 DEF Synced
  <2>3. Range(seen') = {}
    BY <1>1 DEF Range
  <2>4. pass = 2 => {o \in Starts : First <= o /\ o < TagStart'} = {}
    <3>1. ASSUME pass = 2, NEW o \in Starts PROVE ~(First <= o /\ o < TagStart')
      <4>1. TagStart' = First /\ o \in Nat /\ First \in Nat
        BY <1>3, <1>5, <2>1, <3>1
      <4> QED
        BY <4>1
    <3> QED
      BY <3>1
  <2>5. Ranged'
    BY <1>1, <1>3, <1>4, <1>7, <2>1, <2>3, <2>4 DEF Ranged
  <2> QED
    BY <1>1, <1>4, <2>2, <2>5 DEF RInv
<1> QED
  BY <1>2, <1>6, <1>7

LEMMA ReadTagKeepsRInv == ASSUME IInv, RInv, ReadTag PROVE RInv'
<1>1. /\ pc = "next" /\ file' = file /\ pass' = pass
      /\ file \in FileType /\ file.size \in Nat /\ FileWhole /\ seen \in Seq(Nat)
      /\ TypeOK
  BY DEF ReadTag, loop, IInv, TypeOK, FileType, RInv
<1>2. TagStart \in Nat
  BY <1>1, TagStartType
<1>3. Clear => TagStart \in TagPlaces /\ state # "TAG_BODY"
  BY <1>1 DEF RInv, Synced
<1>4. /\ Starts' = Starts /\ TagPlaces' = TagPlaces /\ (Clear' <=> Clear)
      /\ First' = First /\ InRange' = InRange /\ (FileWhole' <=> FileWhole)
  BY <1>1, FileStays
<1>5. Starts \subseteq Nat /\ First \in Nat
  BY <1>1, PlacesFollow, FirstPlace
<1>6. Clear /\ pass = 2 =>
        /\ Range(seen) \subseteq InRange
        /\ \A i, j \in DOMAIN seen : i < j => seen[i] < seen[j]
        /\ Range(seen) = {o \in Starts : First <= o /\ o < TagStart}
        /\ TagStart >= First /\ (TagStart < file.end \/ TagStart = First)
        /\ seen # <<>> => Last(seen) + TagSize + tag.length + TrailerSize <= file.size
  BY <1>1 DEF RInv, Ranged
<1>7. CASE TagStart + TagSize <= file.size
  <2>1. PICK t \in TagsAt(TagStart) :
          /\ tag' = t /\ tag_offset' = TagStart
          /\ pos' = TagStart + TagSize /\ state' = "TAG_BODY"
          /\ seen' = Append(seen, TagStart)
          /\ pc' = "body"
    BY <1>7 DEF ReadTag
  <2>2. Clear => TagStart \in Starts
    BY <1>1, <1>3, <1>7, PlacesFollow
  <2>3. Clear =>
          \E i \in 1 .. Len(file.tags) : file.tags[i] = t /\ Offsets(file.tags)[i] = TagStart
    BY <2>1, <2>2 DEF Starts, TagsAt
  <2>4. Synced'
    BY <1>1, <1>4, <2>1, <2>3 DEF Synced
  <2>5. Range(seen') = Range(seen) \cup {TagStart}
    BY <1>1, <2>1, RangeOfAppend
  <2>6. ASSUME Clear, pass = 2 PROVE TagStart \in InRange
    BY <1>6, <1>7, <2>2, <2>6 DEF InRange
  <2>7. ASSUME Clear, pass = 2
        PROVE  Range(seen') = {o \in Starts : First <= o /\ o <= TagStart}
    <3>1. ASSUME NEW o \in Starts PROVE o <= TagStart <=> o < TagStart \/ o = TagStart
      BY <1>2, <1>5
    <3> QED
      BY <1>6, <2>2, <2>5, <2>7, <3>1
  <2>8. ASSUME Clear, pass = 2, NEW i \in DOMAIN seen', NEW j \in DOMAIN seen', i < j
        PROVE  seen'[i] < seen'[j]
    <3>1. i \in DOMAIN seen /\ seen'[i] = seen[i]
      BY <1>1, <2>1, <2>8
    <3>2. CASE j = Len(seen) + 1
      <4>1. seen[i] \in Range(seen) /\ seen'[j] = TagStart
        BY <1>1, <2>1, <3>1, <3>2 DEF Range
      <4> QED
        BY <1>6, <2>8, <3>1, <4>1
    <3>3. CASE j # Len(seen) + 1
      <4>1. j \in DOMAIN seen /\ seen'[j] = seen[j]
        BY <1>1, <2>1, <2>8, <3>3
      <4> QED
        BY <1>6, <2>8, <3>1, <4>1
    <3> QED
      BY <3>2, <3>3
  <2>9. Ranged'
    BY <1>1, <1>4, <1>6, <2>1, <2>5, <2>6, <2>7, <2>8 DEF Ranged
  <2> QED
    BY <1>1, <1>4, <2>4, <2>9 DEF RInv
<1>8. CASE ~(TagStart + TagSize <= file.size)
  <2>1. /\ pos' = TagStart /\ state' = "TAG" /\ pc' = "end"
        /\ tag' = tag /\ seen' = seen
    BY <1>8 DEF ReadTag
  <2>2. Synced'
    BY <1>3, <1>4, <2>1 DEF Synced
  <2>3. ASSUME Clear, pass = 2 PROVE InRange \subseteq Range(seen)
    <3>1. ASSUME NEW o \in InRange PROVE o \in Range(seen)
      <4>1. o \in Starts /\ First <= o /\ o + TagSize <= file.size /\ o \in Nat
        BY <1>5 DEF InRange
      <4>2. o < TagStart
        BY <1>1, <1>2, <1>8, <4>1
      <4> QED
        BY <1>6, <2>3, <4>1, <4>2
    <3> QED
      BY <3>1
  <2>4. Ranged'
    BY <1>1, <1>4, <1>6, <2>1, <2>3 DEF Ranged
  <2> QED
    BY <1>1, <1>4, <2>2, <2>4 DEF RInv
<1> QED
  BY <1>7, <1>8

(* A step of the handling of a tag changes neither, as long as the body's  *)
(* last byte is where the state says that all has been read.               *)
LEMMA HandlingKeepsRInv ==
  ASSUME IInv, RInv, pc \in {"body", "handler"}, pc' \in {"handler", "trailer", "failed"},
         file' = file, pass' = pass, tag' = tag, tag_offset' = tag_offset, seen' = seen,
         state' \in {"TAG_BODY", "PREV_TAG_SIZE"},
         Clear /\ pc' \in {"handler", "trailer"} /\ state' = "PREV_TAG_SIZE" => pos' = BodyEnd
  PROVE  RInv'
<1>1. /\ Starts' = Starts /\ TagPlaces' = TagPlaces /\ (Clear' <=> Clear)
      /\ First' = First /\ InRange' = InRange /\ (FileWhole' <=> FileWhole)
      /\ BodyEnd' = BodyEnd
  BY FileStays DEF BodyEnd
<1>2. Synced'
  BY <1>1 DEF RInv, Synced
<1>3. Ranged'
  BY <1>1 DEF RInv, Ranged
<1> QED
  BY <1>1, <1>2, <1>3 DEF RInv

LEMMA ReadAvKeepsRInv == ASSUME IInv, IInv', RInv, ReadAv PROVE RInv'
<1>1. /\ pc = "body" /\ pc' \in {"handler", "trailer", "failed"}
      /\ file' = file /\ pass' = pass /\ tag' = tag /\ tag_offset' = tag_offset /\ seen' = seen
      /\ state = "TAG_BODY"
      /\ pc' # "handler" => state' = state
      /\ pos' \in Nat /\ left' \in Nat
  BY DEF ReadAv, loop, stream, IInv, Placed, TypeOK
<1>2. pc' = "handler" => pos' + left' = BodyEnd /\ state' = After(left')
  BY <1>1 DEF IInv, BodyAccounted, BodyEnd
<1>3. /\ state' \in {"TAG_BODY", "PREV_TAG_SIZE"}
      /\ pc' \in {"handler", "trailer"} /\ state' = "PREV_TAG_SIZE" => pos' = BodyEnd
  BY <1>1, <1>2 DEF After
<1> QED
  BY <1>1, <1>3, HandlingKeepsRInv

LEMMA ReadBodyKeepsRInv == ASSUME IInv, IInv', RInv, NEW n \in Chunks, ReadBody(n) PROVE RInv'
<1>1. /\ pc = "handler" /\ pc' \in {"handler", "failed"}
      /\ file' = file /\ pass' = pass /\ tag' = tag /\ tag_offset' = tag_offset /\ seen' = seen
      /\ pos' \in Nat /\ left' \in Nat
  BY DEF ReadBody, loop, IInv, TypeOK
<1>2. pc' = "handler" => pos' + left' = BodyEnd /\ state' = After(left')
  BY <1>1 DEF IInv, BodyAccounted, BodyEnd
<1>3. state' \in {"TAG_BODY", "PREV_TAG_SIZE"}
  <2>1. state = After(left)
    BY <1>1 DEF IInv, BodyAccounted
  <2> QED
    BY <2>1 DEF ReadBody, After
<1>4. pc' \in {"handler", "trailer"} /\ state' = "PREV_TAG_SIZE" => pos' = BodyEnd
  BY <1>1, <1>2 DEF After
<1> QED
  BY <1>1, <1>3, <1>4, HandlingKeepsRInv

LEMMA HandlerReturnsKeepsRInv == ASSUME IInv, RInv, HandlerReturns PROVE RInv'
<1>1. /\ pc = "handler" /\ pc' = "trailer"
      /\ file' = file /\ pass' = pass /\ tag' = tag /\ tag_offset' = tag_offset /\ seen' = seen
      /\ pos' = pos /\ state' = state
      /\ pos \in Nat /\ left \in Nat /\ pos + left = BodyEnd /\ state = After(left)
  BY DEF HandlerReturns, stream, IInv, TypeOK, BodyAccounted
<1>2. /\ state' \in {"TAG_BODY", "PREV_TAG_SIZE"}
      /\ state' = "PREV_TAG_SIZE" => pos' = BodyEnd
  BY <1>1 DEF After
<1> QED
  BY <1>1, <1>2, HandlingKeepsRInv

LEMMA ReadMetadataKeepsRInv == ASSUME IInv, RInv, ReadMetadata PROVE RInv'
<1>1. /\ pc = "body" /\ tag.type = "meta" /\ pc' \in {"trailer", "failed"}
      /\ pos = tag_offset + TagSize /\ left = tag.length /\ left \in Nat /\ tag_offset \in Nat
      /\ file' = file /\ pass' = pass
      /\ tag' = tag /\ tag_offset' = tag_offset /\ seen' = seen
      /\ state' \in {"TAG_BODY", "PREV_TAG_SIZE"}
      /\ state' = "PREV_TAG_SIZE" =>
           /\ left > 0
           /\ \/ tag.name.size >= left
              \/ /\ tag.name.size + tag.value.size >= left
                 /\ \/ tag_offset + TagSize + (tag.name.bytes + tag.value.bytes) > file.size
                    \/ pos' = pos + (tag.name.bytes + tag.value.bytes)
                                - (tag.name.size + tag.value.size - left)
  BY MetadataCases
<1>2. tag.name.size \in Nat /\ tag.value.size \in Nat
      /\ tag.name.bytes \in Nat /\ tag.value.bytes \in Nat
  BY DEF IInv, TypeOK, TagType, AmfType
<1>3. ASSUME Clear, state' = "PREV_TAG_SIZE" PROVE pos' = BodyEnd
  <2>1. PICK i \in 1 .. Len(file.tags) : file.tags[i] = tag /\ Offsets(file.tags)[i] = tag_offset
    BY <1>1, <1>3 DEF RInv, Synced
  <2>2. /\ ~(tag.name.size >= left)
        /\ ~(/\ tag.name.size + tag.value.size >= left
             /\ tag.name.size + tag.value.size # tag.name.bytes + tag.value.bytes)
        /\ ~(/\ tag.name.size + tag.value.size >= left
             /\ tag_offset + TagSize + (tag.name.bytes + tag.value.bytes) > file.size)
    <3>1. ~Misleading(i)
      BY <1>3 DEF Clear
    <3> QED
      BY <1>1, <1>3, <2>1, <3>1 DEF Misleading
  <2>3. /\ tag.name.size + tag.value.size = tag.name.bytes + tag.value.bytes
        /\ pos' = pos + (tag.name.bytes + tag.value.bytes) - (tag.name.size + tag.value.size - left)
    BY <1>1, <1>3, <2>2
  <2> QED
    BY <1>1, <1>2, <2>3 DEF BodyEnd
<1> QED
  BY <1>1, <1>3, HandlingKeepsRInv

LEMMA IgnoreTagKeepsRInv == ASSUME IInv, RInv, IgnoreTag PROVE RInv'
<1>1. /\ pc = "body" /\ pc' = "trailer" /\ state = "TAG_BODY" /\ state' = state
      /\ file' = file /\ pass' = pass /\ tag' = tag /\ tag_offset' = tag_offset /\ seen' = seen
  BY DEF IgnoreTag, loop, stream, IInv, Placed
<1> QED
  BY <1>1, HandlingKeepsRInv

(* Behind the trailer is the next place, and no tag starts in between.     *)
LEMMA ReadPrevTagSizeKeepsRInv == ASSUME IInv, RInv, ReadPrevTagSize PROVE RInv'
<1> DEFINE from == IF state = "TAG_BODY" THEN BodyEnd ELSE pos
<1>1. /\ pc = "trailer" /\ file' = file /\ pass' = pass /\ configs' = configs
      /\ tag' = tag /\ tag_offset' = tag_offset /\ seen' = seen
      /\ file \in FileType /\ file.size \in Nat /\ file.end \in Nat /\ FileWhole
      /\ seen \in Seq(Nat) /\ seen # <<>> /\ Last(seen) = tag_offset /\ tag_offset \in Nat
      /\ state \in {"TAG_BODY", "PREV_TAG_SIZE"}
  BY DEF ReadPrevTagSize, loop, IInv, TypeOK, FileType, Placed, RInv
<1>2. \/ pc' = "failed" /\ state' = state /\ pos' = pos
      \/ /\ from + TrailerSize <= file.size
         /\ pos' = from + TrailerSize /\ state' = "TAG"
         /\ pc' = IF AtEnd(from + TrailerSize) THEN "end" ELSE "next"
  <2>1. from \in Nat /\ file.size \in Nat
    BY <1>1 DEF IInv, TypeOK, TagType, BodyEnd
  <2> QED
    BY <2>1 DEF ReadPrevTagSize
<1>3. /\ Starts' = Starts /\ TagPlaces' = TagPlaces /\ (Clear' <=> Clear)
      /\ First' = First /\ InRange' = InRange /\ (FileWhole' <=> FileWhole)
  BY <1>1, FileStays
<1>4. Starts \subseteq Nat /\ First \in Nat
  BY <1>1, PlacesFollow, FirstPlace
<1>5. Clear => from = BodyEnd
  BY <1>1 DEF RInv, Synced
<1> HIDE DEF from
<1>6. CASE pc' = "failed"
  BY <1>1, <1>2, <1>3, <1>6 DEF RInv, Synced, Ranged
<1>7. CASE pc' # "failed" /\ ~Clear
  BY <1>1, <1>3, <1>7 DEF RInv, Synced, Ranged
<1>8. CASE pc' # "failed" /\ Clear
  <2>1. PICK i \in 1 .. Len(file.tags) : file.tags[i] = tag /\ Offsets(file.tags)[i] = tag_offset
    BY <1>1, <1>8 DEF RInv, Synced
  <2> DEFINE next == tag_offset + TagSize + tag.length + TrailerSize
  <2>2. /\ next \in TagPlaces /\ tag.length \in Nat /\ tag_offset \in Starts
        /\ \A o \in Starts : o > tag_offset => o >= next
    BY <1>1, <2>1, PlacesFollow
  <2>3. from + TrailerSize = next
    BY <1>5, <1>8, <2>2 DEF BodyEnd
  <2>4. next \in Nat /\ next > tag_offset
    BY <1>1, <2>2
  <2> HIDE DEF next
  <2>5. /\ pos' = next /\ state' = "TAG" /\ next <= file.size
        /\ pc' = IF AtEnd(next) THEN "end" ELSE "next"
    BY <1>2, <1>8, <2>3
  <2>6. TagStart' = next
    BY <2>5 DEF TagStart
  <2>7. Synced'
    BY <1>3, <2>2, <2>5, <2>6 DEF Synced
  <2>8. Last(seen) + TagSize + tag.length + TrailerSize <= file.size
    BY <1>1, <2>5 DEF next
  <2>9. ASSUME pass = 2 PROVE Ranged'
    <3>1. /\ Range(seen) \subseteq InRange
          /\ \A k, j \in DOMAIN seen : k < j => seen[k] < seen[j]
          /\ Range(seen) = {o \in Starts : First <= o /\ o <= tag_offset}
      BY <1>1, <1>8, <2>9 DEF RInv, Ranged
    <3>2. tag_offset \in Range(seen)
      BY <1>1, LastInRange
    <3>3. First <= tag_offset
      BY <3>1, <3>2
    <3>4. Range(seen) = {o \in Starts : First <= o /\ o < next}
      <4>1. ASSUME NEW o \in Starts PROVE o <= tag_offset <=> o < next
        BY <1>1, <1>4, <2>2, <2>4
      <4> QED
        BY <3>1, <4>1
    <3>5. CASE AtEnd(next)
      <4>1. file.end <= next
        BY <2>9, <3>5 DEF AtEnd
      <4>2. ASSUME NEW o \in InRange PROVE o \in Range(seen)
        <5>1. o \in Starts /\ First <= o /\ (o < file.end \/ o = First)
          BY DEF InRange
        <5>2. o < next
          BY <1>1, <1>4, <2>4, <3>3, <4>1, <5>1
        <5> QED
          BY <3>4, <5>1, <5>2
      <4> QED
        BY <1>1, <1>3, <2>5, <2>8, <3>1, <3>5, <4>2 DEF Ranged
    <3>6. CASE ~AtEnd(next)
      <4>1. next < file.end /\ next >= First
        BY <1>1, <1>4, <2>4, <2>9, <3>3, <3>6 DEF AtEnd
      <4> QED
        BY <1>1, <1>3, <2>5, <2>6, <2>8, <3>1, <3>4, <3>6, <4>1 DEF Ranged
    <3> QED
      BY <3>5, <3>6
  <2>10. Ranged'
    BY <1>1, <2>9 DEF Ranged
  <2> QED
    BY <1>1, <1>3, <2>7, <2>10 DEF RInv
<1> QED
  BY <1>6, <1>7, <1>8

LEMMA ResetKeepsRInv == ASSUME IInv, RInv, Reset PROVE RInv'
<1>1. file' = file /\ pc' = "begin" /\ state' = "START" /\ seen' = <<>>
  BY DEF Reset
<1>2. Range(seen') = {} /\ DOMAIN seen' = {}
  BY <1>1 DEF Range
<1>3. FileWhole' <=> FileWhole
  BY <1>1, FileStays
<1> QED
  BY <1>1, <1>2, <1>3 DEF RInv, Synced, Ranged

LEMMA FinishKeepsRInv == ASSUME IInv, RInv, Finish PROVE RInv'
<1>1. /\ pc = "end" /\ pass = 2 /\ pc' = "finished" /\ file' = file /\ pass' = pass
      /\ seen' = seen /\ state' = state /\ pos' = pos /\ tag' = tag
  BY DEF Finish, loop, stream
<1>2. /\ TagPlaces' = TagPlaces /\ (Clear' <=> Clear)
      /\ InRange' = InRange /\ (FileWhole' <=> FileWhole)
  BY <1>1, FileStays
<1> QED
  BY <1>1, <1>2 DEF RInv, Synced, Ranged

LEMMA StepKeepsRInv == ASSUME IInv, RInv, [Next]_vars PROVE RInv'
<1>1. CASE UNCHANGED vars
  <2>1. /\ Starts' = Starts /\ TagPlaces' = TagPlaces /\ (Clear' <=> Clear)
        /\ First' = First /\ InRange' = InRange /\ (FileWhole' <=> FileWhole)
    BY <1>1, FileStays DEF vars
  <2>2. TagStart' = TagStart /\ BodyEnd' = BodyEnd
    BY <1>1 DEF vars, TagStart, BodyEnd
  <2>3. Synced'
    BY <1>1, <2>1, <2>2 DEF RInv, Synced, vars
  <2>4. Ranged'
    BY ZenonT(60), <1>1, <2>1, <2>2 DEF RInv, Ranged, vars
  <2> QED
    BY <2>1, <2>3, <2>4 DEF RInv
<1>2. IInv'
  BY StepKeepsIInv
<1>3. CASE Next
  BY <1>2, <1>3, BeginKeepsRInv, ReadTagKeepsRInv, ReadAvKeepsRInv, ReadBodyKeepsRInv,
     HandlerReturnsKeepsRInv, ReadMetadataKeepsRInv, IgnoreTagKeepsRInv,
     ReadPrevTagSizeKeepsRInv, ResetKeepsRInv, FinishKeepsRInv DEF Next
<1> QED
  BY <1>1, <1>3

LEMMA PlacesInductive == Spec => []RInv
<1>1. IInv /\ RInv /\ [Next]_vars => RInv'
  BY StepKeepsRInv
<1> QED
  BY InitRInv, Inductive, <1>1, PTL DEF Spec

(* However much of a tag a handler read and however its AMF values lie to  *)
(* the end of its body, the reader looks for the next tag where one        *)
(* starts, in every file but those with misleading metadata: a name whose  *)
(* size fills the body, or values that overrun it and whose size is not    *)
(* what was read.                                                          *)
THEOREM StaysInSync == Spec => []InSync
<1>1. RInv => InSync
  BY DEF RInv, Synced, InSync
<1> QED
  BY PlacesInductive, <1>1, PTL

(* A conversion that finishes has read exactly the tags that start in the  *)
(* range, each once and in order, and all of the last one, if the file has *)
(* no misleading metadata.                                                 *)
THEOREM ReadsTheRange == Spec => []RangeExact
<1>1. IInv /\ RInv => RangeExact
  <2> SUFFICES ASSUME IInv, RInv, pc = "finished", Clear
               PROVE  /\ Range(seen) = InRange
                      /\ \A i, j \in DOMAIN seen : i < j => seen[i] < seen[j]
                      /\ seen # <<>> => Last(seen) + TagSize + tag.length + TrailerSize <= file.size
    BY DEF RangeExact
  <2>1. pass = 2
    BY DEF IInv, Placed
  <2> QED
    BY <2>1 DEF RInv, Ranged
<1> QED
  BY Inductive, PlacesInductive, <1>1, PTL
=============================================================================
