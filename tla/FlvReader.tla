----------------------------- MODULE FlvReader -----------------------------
(***************************************************************************)
(* The FLV reader: the flv_read_* functions over one stream, as the two    *)
(* loops of the converter call them.  Pass 1, flv_parse_av_config, stops   *)
(* when it has seen both configurations and the metadata; flv_reset; pass  *)
(* 2, flv_get_raw_av, reads the range of tags asked for.                   *)
(*                                                                         *)
(* A file is a header of 9 bytes, 4 bytes of trailer, and tags: 11 bytes   *)
(* of header, the body, and a trailer of 4.  Its content is abstracted to  *)
(* where the tags are, how long they say they are, and what their bodies   *)
(* give.  `file.size` is where the file really ends.  Wherever the reader  *)
(* looks for a tag where the file has none, any tag may be found.          *)
(***************************************************************************)
EXTENDS Integers, SequencesExt

CONSTANTS
  Tag,      (* The tags a file may consist of.                             *)
  Cuts,     (* How many bytes may be missing at its end.                   *)
  Chunks,   (* How many bytes a handler may ask for at once.               *)
  MaxTags   (* The longest file.  Bounds the model.                        *)

HeaderSize   == 9
TagSize      == 11
TrailerSize  == 4

(* An AMF value: the bytes the reader takes for it, 0 if it cannot be      *)
(* read; its size, what amf_data_size says of it; and the bytes it needs,  *)
(* for an associative array whose last name is empty is read in a file     *)
(* that ends right behind that name, too.  The size never counts more than *)
(* the type byte behind that name (SizeIsRead in module Metadata).         *)
AmfType == {v \in [bytes : Nat, size : Nat, needs : Nat \ {0}] :
              /\ v.size <= v.bytes /\ v.size <= v.needs + 1
              /\ v.bytes > 0 => v.size > 0 /\ v.needs <= v.bytes}

(* `name` and `value` are the two AMF values of a metadata body.  `config` *)
(* is 1 if pass 1 takes the configuration of its kind from the tag.        *)
TagType == [type : {"audio", "video", "meta", "other"}, length : Nat,
            name : AmfType, value : AmfType, config : {0, 1}]

ASSUME ReaderAssumption ==
  /\ Tag \subseteq TagType
  /\ Cuts \subseteq Nat /\ Chunks \subseteq Nat \ {0}
  /\ MaxTags \in Nat

VARIABLES
  file,        (* Its tags and size, and the range asked for.              *)
  pass,        (* 1 or 2.                                                  *)
  pc,          (* Where in the pass the reader is.                         *)
  state,       (* stream->state                                            *)
  pos,         (* The position in the file.                                *)
  tag,         (* stream->current_tag                                      *)
  tag_offset,  (* stream->current_tag_offset                               *)
  left,        (* stream->current_tag_body_length                          *)
  configs,     (* The kinds of tag pass 1 has its configuration from.      *)
  seen         (* History: the offsets of the tags read in this pass.      *)

loop   == <<file, pass, configs>>
stream == <<state, pos, left>>
vars   == <<file, pass, pc, state, pos, tag, tag_offset, left, configs, seen>>

-----------------------------------------------------------------------------
(* The file. *)
Unread == [bytes |-> 0, size |-> 0, needs |-> 1]
NoTag  == [type |-> "other", length |-> 0, name |-> Unread, value |-> Unread, config |-> 0]

(* Where the tags start; the last number is where the last one ends. *)
Offsets(tags) ==
  LET at[i \in 1 .. Len(tags) + 1] ==
        IF i = 1 THEN HeaderSize + TrailerSize
        ELSE at[i - 1] + TagSize + tags[i - 1].length + TrailerSize
  IN  at

TagsAt(at) ==
  LET here == {i \in 1 .. Len(file.tags) : Offsets(file.tags)[i] = at}
  IN  IF here = {} THEN Tag ELSE {file.tags[i] : i \in here}

FileType == [tags : Seq(Tag), size : Nat, start : Nat, end : Nat]

(* An index of 0 or less selects no offset: pass 2 starts at the header,   *)
(* and has no end (UINT64_MAX).  No more is cut off than there is.         *)
Init ==
  /\ \E tags \in SeqOf(Tag, MaxTags), cut \in Cuts :
       LET at   == Offsets(tags)
           size == at[Len(tags) + 1] - cut
           keys == {at[i] : i \in 1 .. Len(tags)}
       IN  \E s \in {0} \cup keys, e \in {size + 1} \cup keys :
             file = [tags |-> tags, size |-> size, start |-> s, end |-> e]
  /\ file \in FileType
  /\ pass = 1 /\ pc = "begin"
  /\ state = "START" /\ pos = 0 /\ left = 0
  /\ tag = NoTag /\ tag_offset = 0
  /\ configs = {} /\ seen = <<>>

-----------------------------------------------------------------------------
(* flv_set_offset, and flv_read_header unless the offset is beyond it. *)
Begin ==
  /\ pc = "begin"
  /\ IF pass = 2 /\ file.start > 0
       THEN pos' = file.start /\ state' = "TAG" /\ pc' = "next"
     ELSE IF file.size >= HeaderSize
       THEN pos' = HeaderSize /\ state' = "PREV_TAG_SIZE" /\ pc' = "next"
     ELSE pc' = "failed" /\ UNCHANGED <<pos, state>>
  /\ UNCHANGED <<loop, tag, tag_offset, left, seen>>

(* Slips: the end is told from the bytes left; the tag's header is         *)
(* forgotten.                                                              *)
EndByBytesLeft == pos + left
EndWithoutHeader == tag_offset + tag.length

(* Where the current tag's body ends, whatever has been read of it. *)
BodyEnd == tag_offset + TagSize + tag.length

(* What is left of the tag before is skipped. *)
TagStart ==
  CASE state = "TAG_BODY"      -> BodyEnd + TrailerSize
    [] state = "PREV_TAG_SIZE" -> pos + TrailerSize
    [] OTHER                   -> pos

ReadTag ==
  /\ pc = "next"
  /\ IF TagStart + TagSize <= file.size
       THEN \E t \in TagsAt(TagStart) :
              /\ tag' = t /\ tag_offset' = TagStart /\ left' = t.length
              /\ pos' = TagStart + TagSize /\ state' = "TAG_BODY"
              /\ seen' = Append(seen, TagStart)
              /\ pc' = "body"
       ELSE /\ pos' = TagStart /\ state' = "TAG" /\ pc' = "end"
            /\ UNCHANGED <<tag, tag_offset, left, seen>>
  /\ UNCHANGED loop

(* The state behind a read that leaves n bytes of the body. *)
After(n) == IF n = 0 THEN "PREV_TAG_SIZE" ELSE "TAG_BODY"

(* Slip: an empty body is not told apart. *)
ReadAvEmpty ==
  /\ pc = "body" /\ tag.type \in {"audio", "video"}
  /\ IF pos + 1 > file.size THEN pc' = "failed" /\ UNCHANGED stream
     ELSE /\ pos' = pos + 1 /\ left' = left - 1 /\ state' = After(left - 1)
          /\ pc' = "handler"
  /\ UNCHANGED <<loop, tag, tag_offset, seen>>

(* flv_read_audio_tag and flv_read_video_tag: one byte, if there is a body. *)
ReadAv ==
  /\ pc = "body" /\ tag.type \in {"audio", "video"}
  /\ IF left = 0 THEN pc' = "trailer" /\ UNCHANGED stream
     ELSE IF pos + 1 > file.size THEN pc' = "failed" /\ UNCHANGED stream
     ELSE /\ pos' = pos + 1 /\ left' = left - 1 /\ state' = After(left - 1)
          /\ pc' = "handler"
  /\ UNCHANGED <<loop, tag, tag_offset, seen>>

(* Slip: what was asked for is counted, not what was read. *)
ReadBodyAsked(n) ==
  LET some == IF state = "TAG_BODY" THEN Min({n, left, Max({file.size - pos, 0})}) ELSE 0
  IN  /\ pc = "handler"
      /\ pos' = pos + some /\ left' = Max({left - n, 0})
      /\ state' = IF state = "TAG_BODY" THEN After(left') ELSE state
      /\ pc' \in IF some < n THEN {"handler", "failed"} ELSE {"handler"}
      /\ UNCHANGED <<loop, tag, tag_offset, seen>>

(* flv_read_tag_body for a handler, which may or may not give up when it   *)
(* gets less than it asked for.                                            *)
ReadBody(n) ==
  LET some == IF state = "TAG_BODY" THEN Min({n, left, Max({file.size - pos, 0})}) ELSE 0
  IN  /\ pc = "handler"
      /\ pos' = pos + some /\ left' = left - some
      /\ state' = IF state = "TAG_BODY" THEN After(left - some) ELSE state
      /\ pc' \in IF some < n THEN {"handler", "failed"} ELSE {"handler"}
      /\ UNCHANGED <<loop, tag, tag_offset, seen>>

HandlerReturns ==
  /\ pc = "handler"
  /\ pc' = "trailer"
  /\ configs' = IF pass = 1 /\ tag.config = 1 THEN configs \cup {tag.type} ELSE configs
  /\ UNCHANGED <<file, pass, stream, tag, tag_offset, seen>>

(* What a value that is read at `at` takes of the file. *)
Taken(v, at) == Min({v.bytes, file.size - at})

(* flv_read_metadata reads AMF values wherever they end, subtracts their   *)
(* sizes from the body, and goes back by what these take beyond it.  If    *)
(* the name alone fills the body it goes back by the whole of its size:    *)
(* current_tag_body_length is 0 by then.  Behind a value the file ends in, *)
(* feof stays set unless the reader went back.                             *)
ReadMetadata ==
  LET fails  == pc' = "failed" /\ UNCHANGED <<stream, configs>>
      passed == UNCHANGED <<pos, state, configs>> /\ pc' = "trailer"
      behind == pos + Taken(tag.name, pos)
      rest   == left - tag.name.size
      over   == Max({tag.value.size - rest, 0})
  IN  /\ pc = "body" /\ tag.type = "meta"
      /\ IF left = 0 THEN passed /\ UNCHANGED left
         ELSE IF pos + tag.name.needs > file.size THEN fails
         ELSE IF tag.name.bytes = 0 THEN passed /\ UNCHANGED left
         ELSE IF left <= tag.name.size
           THEN /\ left' = 0 /\ state' = "PREV_TAG_SIZE" /\ pos' = behind - tag.name.size
                /\ pc' = "trailer" /\ UNCHANGED configs
         ELSE IF behind + tag.value.needs > file.size THEN fails
         ELSE IF tag.value.bytes = 0 THEN passed /\ left' = rest
         ELSE IF over = 0 /\ behind + tag.value.bytes > file.size THEN fails
         ELSE /\ left' = rest + over - tag.value.size
              /\ state' = After(left')
              /\ pos' = behind + Taken(tag.value, behind) - over
              /\ configs' = IF pass = 1 THEN configs \cup {"meta"} ELSE configs
              /\ pc' = "trailer"
      /\ UNCHANGED <<file, pass, tag, tag_offset, seen>>

IgnoreTag ==
  /\ pc = "body" /\ tag.type = "other"
  /\ pc' = "trailer"
  /\ UNCHANGED <<loop, stream, tag, tag_offset, seen>>

(* Slip: the tag at the end of the range is read too. *)
BeyondEnd(at) ==
  IF pass = 1 THEN configs = {"audio", "video", "meta"} ELSE file.end < at

(* The loops stop early: pass 1 when it has all configurations, pass 2 at  *)
(* the end of the range.                                                   *)
AtEnd(at) ==
  IF pass = 1 THEN configs = {"audio", "video", "meta"} ELSE file.end <= at

(* flv_read_prev_tag_size(_ex), then the loop's test for its end. *)
ReadPrevTagSize ==
  LET from == IF state = "TAG_BODY" THEN BodyEnd ELSE pos
  IN  /\ pc = "trailer"
      /\ IF from + TrailerSize > file.size THEN pc' = "failed" /\ UNCHANGED <<pos, state>>
         ELSE /\ pos' = from + TrailerSize /\ state' = "TAG"
              /\ pc' = IF AtEnd(from + TrailerSize) THEN "end" ELSE "next"
      /\ UNCHANGED <<loop, tag, tag_offset, left, seen>>

(* Slip: the first pass is begun again. *)
ResetToFirst ==
  /\ pc = "end" /\ pass = 1
  /\ pc' = "begin" /\ seen' = <<>>
  /\ state' = "START" /\ pos' = 0 /\ left' = 0 /\ tag_offset' = 0
  /\ UNCHANGED <<file, pass, tag, configs>>

(* flv_reset between the passes.  A failed pass has closed the stream.     *)
Reset ==
  /\ pc = "end" /\ pass = 1
  /\ pass' = 2 /\ pc' = "begin" /\ seen' = <<>>
  /\ state' = "START" /\ pos' = 0 /\ left' = 0 /\ tag_offset' = 0
  /\ UNCHANGED <<file, tag, configs>>

Finish ==
  /\ pc = "end" /\ pass = 2
  /\ pc' = "finished"
  /\ UNCHANGED <<loop, stream, tag, tag_offset, seen>>

Next ==
  \/ Begin \/ ReadTag \/ ReadAv \/ (\E n \in Chunks : ReadBody(n)) \/ HandlerReturns
  \/ ReadMetadata \/ IgnoreTag \/ ReadPrevTagSize \/ Reset \/ Finish

Spec == Init /\ [][Next]_vars

(* One thread that nothing blocks, and handlers that return. *)
FairSpec == Spec /\ WF_vars(Next)

-----------------------------------------------------------------------------
(* Properties. *)

Passes == {"begin", "next", "body", "handler", "trailer", "end", "finished", "failed"}

TypeOK ==
  /\ file \in FileType
  /\ pass \in {1, 2} /\ pc \in Passes
  /\ state \in {"START", "TAG", "TAG_BODY", "PREV_TAG_SIZE"}
  /\ pos \in Nat /\ left \in Nat /\ tag_offset \in Nat
  /\ tag \in TagType
  /\ configs \subseteq {"audio", "video", "meta"}
  /\ seen \in Seq(Nat)

(* While a handler works on a tag, the position and the count of bytes     *)
(* left agree on where the body ends, and only the state tells whether     *)
(* there is more: no chain of short reads takes a handler into the next    *)
(* tag or leaves it waiting for bytes of this one.                         *)
BodyAccounted ==
  pc = "handler" =>
    /\ pos + left = BodyEnd
    /\ state = After(left)

(* Metadata take the reader out of step if the size of the name fills the  *)
(* body; or if the sizes of both do, and are not the bytes taken: of       *)
(* unusual values, or where the file ends within an array that is longer   *)
(* than its tag.                                                           *)
Misleading(i) ==
  LET t     == file.tags[i]
      sizes == t.name.size + t.value.size
      bytes == t.name.bytes + t.value.bytes
  IN  /\ t.type = "meta" /\ t.length > 0
      /\ \/ t.name.size >= t.length
         \/ sizes >= t.length /\ sizes # bytes
         \/ sizes >= t.length /\ Offsets(file.tags)[i] + TagSize + bytes > file.size

Clear == \A i \in 1 .. Len(file.tags) : ~Misleading(i)

(* Where a tag starts; and where the reader may look for one, which is the *)
(* end of the file's last tag, too.                                        *)
Starts    == {Offsets(file.tags)[i] : i \in 1 .. Len(file.tags)}
TagPlaces == {Offsets(file.tags)[i] : i \in 1 .. Len(file.tags) + 1}

(* In a file without misleading metadata the reader is where a tag starts  *)
(* behind every trailer, however much of the tag before was read, and      *)
(* however its AMF values lie to the end of its body: shorter, longer and  *)
(* gone back from, or of a wrong size that the body still has room for.    *)
InSync == state = "TAG" /\ Clear => pos \in TagPlaces

(* flv_read_prev_tag_size says it skips the remaining bytes of the body,   *)
(* flv_read_metadata that metadata without a value are merely invalid: the *)
(* tag behind it is read from where it starts.                             *)
SkipsInvalidMetadata == state = "TAG" => pos \in TagPlaces

(* Where pass 2 looks for its first tag. *)
First == Max({file.start, HeaderSize + TrailerSize})

(* The tags of the range: those that start in it, and the first of all     *)
(* when the range is empty.                                                *)
InRange ==
  {o \in Starts : o >= First /\ o + TagSize <= file.size /\ (o < file.end \/ o = First)}

(* A conversion that finishes has read exactly the tags of the range it    *)
(* was asked for, each once and in order, its trailer included: a file cut *)
(* short anywhere else than in a tag's header fails.  Of files without     *)
(* misleading metadata; behind such the reader takes bytes for tags that   *)
(* are none.                                                               *)
RangeExact ==
  pc = "finished" /\ Clear =>
    /\ Range(seen) = InRange
    /\ \A i, j \in DOMAIN seen : i < j => seen[i] < seen[j]
    /\ seen # <<>> => Last(seen) + TagSize + tag.length + TrailerSize <= file.size

(* Each tag is found behind the header of the one before: going back over  *)
(* what the AMF reader took never comes back to a tag, in whatever bytes a *)
(* reader out of step finds itself.  (Where the file ends within an array  *)
(* it goes back one byte more than it took.)                               *)
Advances ==
  [][ seen # <<>> /\ Len(seen') > Len(seen) =>
        Last(seen') > Last(seen) + TagSize ]_vars

(* So both passes come to an end on every file. *)
Terminates == <>(pc \in {"finished", "failed"})
=============================================================================
