------------------------------ MODULE AmfList ------------------------------
(***************************************************************************)
(* The doubly linked list under AMF objects and arrays.  Nodes are numbers *)
(* in the order they are allocated and are never used again; a pointer is  *)
(* a node or Nil.  The caller of an insertion or a deletion passes a node  *)
(* it has from the list.  amf_object_add is Push twice, or Push and Pop.   *)
(*                                                                         *)
(* items is what the list is meant to be after the calls so far.  An       *)
(* insertion before the first node does not set that node's prev, and one  *)
(* behind the last does not set its next: plain is FALSE from then on.     *)
(***************************************************************************)
EXTENDS Integers, SequencesExt

CONSTANT MaxNodes   (* The number of allocations.  Bounds the model.       *)

ASSUME AmfListAssumption == MaxNodes \in Nat

VARIABLES
  first, last, size,   (* amf_list.                                        *)
  prev, next,          (* The nodes' pointers.                             *)
  alive,               (* The nodes that are allocated.                    *)
  used,                (* The number of nodes allocated so far.            *)
  items, plain,        (* History: see above.                              *)
  status               (* "ok"; "freed" after clear; "undefined" once      *)
                       (* freed memory or a null pointer is used.          *)

vars == <<first, last, size, prev, next, alive, used, items, plain, status>>

Node == 1 .. MaxNodes
Nil  == 0

-----------------------------------------------------------------------------
Init ==
  /\ first = Nil /\ last = Nil /\ size = 0
  /\ prev = [n \in Node |-> Nil] /\ next = [n \in Node |-> Nil]
  /\ alive = {} /\ used = 0
  /\ items = <<>> /\ plain = TRUE /\ status = "ok"

Dangling(p) == p # Nil /\ p \notin alive

(* What every insertion does; a malloc that fails changes nothing. *)
Allocate ==
  /\ status = "ok" /\ used < MaxNodes
  /\ used' = used + 1 /\ alive' = alive \union {used + 1} /\ size' = size + 1
  /\ UNCHANGED status

Push ==
  LET new == used + 1
  IN  /\ Allocate
      /\ size > 0 => last \in alive
      /\ first' = IF size = 0 THEN new ELSE first
      /\ last' = new
      /\ next' = IF size = 0 THEN [next EXCEPT ![new] = Nil]
                             ELSE [next EXCEPT ![new] = Nil, ![last] = new]
      /\ prev' = [prev EXCEPT ![new] = IF size = 0 THEN Nil ELSE last]
      /\ items' = Append(items, new)
      /\ UNCHANGED plain

(* Slip: the node in front keeps its next. *)
NextBeforeOneWay(new, node) == [next EXCEPT ![new] = node]

NextBefore(new, node) ==
  IF prev[node] = Nil THEN [next EXCEPT ![new] = node]
                      ELSE [next EXCEPT ![new] = node, ![prev[node]] = new]

(* The first node's prev is not set. *)
InsertBefore(i) ==
  LET new  == used + 1
      node == items[i]
  IN  /\ Allocate /\ ~Dangling(prev[node])
      /\ first' = IF prev[node] = Nil THEN new ELSE first
      /\ next' = NextBefore(new, node)
      /\ prev' = IF prev[node] = Nil THEN [prev EXCEPT ![new] = Nil]
                                     ELSE [prev EXCEPT ![new] = prev[node], ![node] = new]
      /\ items' = InsertAt(items, i, new)
      /\ plain' = (plain /\ prev[node] # Nil)
      /\ UNCHANGED last

(* The last node's next is not set. *)
InsertAfter(i) ==
  LET new  == used + 1
      node == items[i]
  IN  /\ Allocate /\ ~Dangling(next[node])
      /\ last' = IF next[node] = Nil THEN new ELSE last
      /\ prev' = IF next[node] = Nil THEN [prev EXCEPT ![new] = node]
                                     ELSE [prev EXCEPT ![new] = node, ![next[node]] = new]
      /\ next' = IF next[node] = Nil THEN [next EXCEPT ![new] = Nil]
                                     ELSE [next EXCEPT ![new] = next[node], ![node] = new]
      /\ items' = InsertAt(items, i + 1, new)
      /\ plain' = (plain /\ next[node] # Nil)
      /\ UNCHANGED first

FirstWithout(node) == IF node = first THEN next[node] ELSE first

(* Pop is the deletion of last. *)
Delete(i) ==
  LET node == items[i]
  IN  /\ status = "ok" /\ ~Dangling(prev[node]) /\ ~Dangling(next[node])
      /\ prev' = IF next[node] = Nil THEN prev ELSE [prev EXCEPT ![next[node]] = prev[node]]
      /\ next' = IF prev[node] = Nil THEN next ELSE [next EXCEPT ![prev[node]] = next[node]]
      /\ first' = FirstWithout(node)
      /\ last' = IF node = last THEN prev[node] ELSE last
      /\ alive' = alive \ {node} /\ size' = size - 1
      /\ items' = RemoveAt(items, i)
      /\ UNCHANGED <<used, plain, status>>

(* get_at, clear and clone go from first along next. *)
Walk[n \in 0 .. MaxNodes] ==
  IF n = 0 THEN first ELSE IF Walk[n - 1] \in alive THEN next[Walk[n - 1]] ELSE Nil

(* Only amf_data_free calls it, and frees the list behind it: first and    *)
(* last are left as they are.                                              *)
Clear ==
  /\ status = "ok" /\ \A n \in 0 .. MaxNodes : ~Dangling(Walk[n])
  /\ alive' = alive \ {Walk[n] : n \in 0 .. MaxNodes} /\ size' = 0
  /\ status' = "freed"
  /\ UNCHANGED <<first, last, prev, next, used, items, plain>>

(* Any operation that follows a pointer to where no node is. *)
Misuse ==
  /\ status = "ok"
  /\ \/ \E n \in alive : Dangling(prev[n]) \/ Dangling(next[n])
     \/ Dangling(first) \/ Dangling(last)
     \/ size > 0 /\ last = Nil
  /\ status' = "undefined"
  /\ UNCHANGED <<first, last, size, prev, next, alive, used, items, plain>>

Next ==
  \/ Push \/ Clear \/ Misuse
  \/ \E i \in 1 .. Len(items) : InsertBefore(i) \/ InsertAfter(i) \/ Delete(i)

Spec == Init /\ [][Next]_vars

-----------------------------------------------------------------------------
(* Properties. *)

Linked ==
  /\ size = Len(items)
  /\ first = IF items = <<>> THEN Nil ELSE items[1]
  /\ last = IF items = <<>> THEN Nil ELSE items[Len(items)]
  /\ \A i \in 1 .. Len(items) :
       /\ prev[items[i]] = IF i = 1 THEN Nil ELSE items[i - 1]
       /\ next[items[i]] = IF i = Len(items) THEN Nil ELSE items[i + 1]

(* As long as nothing was inserted before the first node or behind the     *)
(* last, the list is linked both ways in the order of the calls, no node   *)
(* is lost, and no call uses a null pointer or a node that is freed.       *)
WellLinked ==
  plain => /\ status # "undefined"
           /\ status = "ok" => Linked /\ alive = {items[i] : i \in 1 .. Len(items)}
=============================================================================
