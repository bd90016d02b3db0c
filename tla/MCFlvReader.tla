---------------------------- MODULE MCFlvReader ----------------------------
(* Bodies from empty to a few bytes; AMF values that end before, at and    *)
(* beyond the end of the body, whose size is or is not what they take, and *)
(* such as cannot be read; files cut in a trailer, a body, a value, a tag  *)
(* header and the file header.                                             *)
EXTENDS FlvReader

(* A value of n bytes; an associative array that has no members: behind    *)
(* its empty name there is an element of n bytes, where the end should be. *)
Amf(n)   == [bytes |-> n, size |-> n, needs |-> n]
Assoc(n) == [bytes |-> 7 + n, size |-> 8, needs |-> 7]

Av   == [type : {"audio"}, length : {0, 3}, name : {Unread}, value : {Unread}, config : {1}]
          \cup [type : {"video"}, length : {1, 3}, name : {Unread}, value : {Unread}, config : {1}]
Meta == { [type |-> "meta", length |-> m[1], name |-> m[2], value |-> m[3], config |-> 0] :
            m \in { <<6, Amf(3), Amf(3)>>, <<6, Amf(2), Amf(2)>>, <<6, Amf(3), Amf(5)>>,
                    <<6, Amf(3), Unread>>, <<6, Unread, Unread>>, <<3, Amf(3), Amf(2)>>,
                    <<0, Amf(3), Amf(3)>>, <<11, Amf(2), Assoc(9)>>, <<6, Amf(2), Assoc(9)>>,
                    <<5, Amf(2), Assoc(1)>>, <<12, Assoc(9), Amf(2)>> } }

MCTag == Av \cup Meta \cup {NoTag}
=============================================================================
