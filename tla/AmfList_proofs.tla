--------------------------- MODULE AmfList_proofs ---------------------------
(***************************************************************************)
(* The linked list keeps its order both ways for any number of allocations *)
(* and any calls, as long as none of them inserts at an end.               *)
(***************************************************************************)
EXTENDS AmfList, SequenceTheorems, TLAPS

(* The items are the nodes allocated, each once. *)
Items ==
  /\ items \in Seq(Node)
  /\ \A i \in 1 .. Len(items) : items[i] \in alive
  /\ \A n \in alive : \E i \in 1 .. Len(items) : items[i] = n
  /\ \A i, j \in 1 .. Len(items) : items[i] = items[j] => i = j

Typed ==
  /\ used \in 0 .. MaxNodes
  /\ \A n \in alive : n \in 1 .. used
  /\ prev \in [Node -> 0 .. MaxNodes] /\ next \in [Node -> 0 .. MaxNodes]

(* Once an insertion was made at an end, nothing is claimed any more. *)
IInv ==
  plain => /\ status \in {"ok", "freed"}
           /\ status = "ok" => Typed /\ Items /\ Linked

-----------------------------------------------------------------------------
LEMMA InsertedAt ==
  ASSUME NEW S, NEW s \in Seq(S), NEW e \in S, NEW i \in 1 .. Len(s) + 1
  PROVE  /\ InsertAt(s, i, e) \in Seq(S)
         /\ Len(InsertAt(s, i, e)) = Len(s) + 1
         /\ \A k \in 1 .. Len(s) + 1 :
              InsertAt(s, i, e)[k] = IF k < i THEN s[k] ELSE IF k = i THEN e ELSE s[k - 1]
<1> DEFINE front == SubSeq(s, 1, i - 1)
           back  == SubSeq(s, i, Len(s))
<1>1. front \in Seq(S) /\ Len(front) = i - 1 /\ \A k \in 1 .. i - 1 : front[k] = s[k]
  OBVIOUS
<1>2. /\ back \in Seq(S) /\ Len(back) = Len(s) - i + 1
      /\ \A k \in 1 .. Len(s) - i + 1 : back[k] = s[i + k - 1]
  <2>1. i \in Int /\ Len(s) \in Int /\ \A k \in i .. Len(s) : s[k] \in S
    OBVIOUS
  <2>2. /\ back \in Seq(S)
        /\ Len(back) = IF i <= Len(s) THEN Len(s) - i + 1 ELSE 0
        /\ \A k \in 1 .. Len(s) - i + 1 : back[k] = s[i + k - 1]
    BY <2>1, SubSeqProperties
  <2> QED
    BY <2>1, <2>2
<1>3. InsertAt(s, i, e) = (front \o <<e>>) \o back
  BY DEF InsertAt
<1> HIDE DEF front, back
<1>4. /\ front \o <<e>> \in Seq(S) /\ Len(front \o <<e>>) = i
      /\ \A k \in 1 .. i : (front \o <<e>>)[k] = IF k < i THEN s[k] ELSE e
  BY <1>1
<1> DEFINE t == front \o <<e>>
<1> HIDE DEF t
<1>5. t \in Seq(S) /\ Len(t) = i /\ \A k \in 1 .. i : t[k] = IF k < i THEN s[k] ELSE e
  BY <1>4 DEF t
<1>6. /\ t \o back \in Seq(S)
      /\ Len(t \o back) = Len(t) + Len(back)
      /\ \A k \in 1 .. Len(t) + Len(back) :
           (t \o back)[k] = IF k <= Len(t) THEN t[k] ELSE back[k - Len(t)]
  BY <1>2, <1>5, ConcatProperties
<1>7. InsertAt(s, i, e) = t \o back
  BY <1>3 DEF t
<1>8. Len(t) + Len(back) = Len(s) + 1 /\ Len(s) \in Nat
  BY <1>2, <1>5
<1>9. \A k \in 1 .. Len(s) + 1 :
        (t \o back)[k] = IF k < i THEN s[k] ELSE IF k = i THEN e ELSE s[k - 1]
  <2> SUFFICES ASSUME NEW k \in 1 .. Len(s) + 1
               PROVE  (t \o back)[k] = IF k < i THEN s[k] ELSE IF k = i THEN e ELSE s[k - 1]
    OBVIOUS
  <2>1. CASE k <= i
    BY <2>1, <1>5, <1>6, <1>8
  <2>2. CASE k > i
    <3>1. k - i \in 1 .. Len(s) - i + 1 /\ i + (k - i) - 1 = k - 1
      BY <2>2, <1>8
    <3>2. back[k - i] = s[k - 1]
      BY <3>1, <1>2
    <3> QED
      BY <3>2, <2>2, <1>5, <1>6, <1>8
  <2> QED
    BY <2>1, <2>2, <1>8
<1> QED
  BY <1>6, <1>7, <1>8, <1>9

LEMMA RemovedAt ==
  ASSUME NEW S, NEW s \in Seq(S), NEW i \in 1 .. Len(s)
  PROVE  /\ RemoveAt(s, i) \in Seq(S)
         /\ Len(RemoveAt(s, i)) = Len(s) - 1
         /\ \A k \in 1 .. Len(s) - 1 : RemoveAt(s, i)[k] = IF k < i THEN s[k] ELSE s[k + 1]
<1> DEFINE front == SubSeq(s, 1, i - 1)
           back  == SubSeq(s, i + 1, Len(s))
<1>1. front \in Seq(S) /\ Len(front) = i - 1 /\ \A k \in 1 .. i - 1 : front[k] = s[k]
  OBVIOUS
<1>2. /\ back \in Seq(S) /\ Len(back) = Len(s) - i
      /\ \A k \in 1 .. Len(s) - i : back[k] = s[i + k]
  <2>1. i + 1 \in Int /\ Len(s) \in Int /\ \A k \in i + 1 .. Len(s) : s[k] \in S
    OBVIOUS
  <2>2. /\ back \in Seq(S)
        /\ Len(back) = IF i + 1 <= Len(s) THEN Len(s) - (i + 1) + 1 ELSE 0
        /\ \A k \in 1 .. Len(s) - (i + 1) + 1 : back[k] = s[(i + 1) + k - 1]
    BY <2>1, SubSeqProperties
  <2> HIDE DEF back
  <2> QED
    BY <2>1, <2>2
<1>3. RemoveAt(s, i) = front \o back
  BY DEF RemoveAt
<1> HIDE DEF front, back
<1>5. /\ front \o back \in Seq(S)
      /\ Len(front \o back) = Len(front) + Len(back)
      /\ \A k \in 1 .. Len(front) + Len(back) :
           (front \o back)[k] = IF k <= Len(front) THEN front[k] ELSE back[k - Len(front)]
  BY <1>1, <1>2, ConcatProperties
<1>6. Len(front) + Len(back) = Len(s) - 1 /\ Len(s) \in Nat
  BY <1>1, <1>2
<1>7. \A k \in 1 .. Len(s) - 1 : (front \o back)[k] = IF k < i THEN s[k] ELSE s[k + 1]
  <2> SUFFICES ASSUME NEW k \in 1 .. Len(s) - 1
               PROVE  (front \o back)[k] = IF k < i THEN s[k] ELSE s[k + 1]
    OBVIOUS
  <2>1. CASE k < i
    BY <2>1, <1>1, <1>5, <1>6
  <2>2. CASE k >= i
    <3>1. k - (i - 1) \in 1 .. Len(s) - i /\ i + (k - (i - 1)) = k + 1
      BY <2>2, <1>6
    <3>2. back[k - (i - 1)] = s[k + 1]
      BY <3>1, <1>2
    <3> QED
      BY <3>2, <2>2, <1>1, <1>5, <1>6
  <2> QED
    BY <2>1, <2>2, <1>6
<1> QED
  BY <1>3, <1>5, <1>6, <1>7
LEMMA InitInv == Init => IInv
  BY AmfListAssumption DEF Init, IInv, Typed, Items, Linked, Node, Nil

(* In a list that is linked, no pointer dangles. *)
LEMMA NothingDangles ==
  ASSUME Typed, Items, Linked
  PROVE  ~Misuse
<1>1. /\ items \in Seq(Node) /\ Len(items) \in Nat /\ size = Len(items)
      /\ \A i \in 1 .. Len(items) : items[i] \in alive /\ items[i] # Nil
  <2>1. items \in Seq(Node) /\ Len(items) \in Nat /\ size = Len(items)
    BY DEF Items, Linked
  <2>2. \A i \in 1 .. Len(items) : items[i] \in alive /\ items[i] \in Node
    BY <2>1 DEF Items
  <2>3. \A m \in Node : m # Nil
    BY DEF Node, Nil
  <2> QED
    BY <2>1, <2>2, <2>3
<1>2. ~Dangling(first) /\ ~Dangling(last) /\ (size > 0 => last # Nil)
  BY <1>1 DEF Linked, Dangling
<1>3. ASSUME NEW n \in alive PROVE ~Dangling(prev[n]) /\ ~Dangling(next[n])
  <2>1. PICK i \in 1 .. Len(items) : items[i] = n
    BY DEF Items
  <2>2. prev[n] = IF i = 1 THEN Nil ELSE items[i - 1]
    BY <2>1 DEF Linked
  <2>3. next[n] = IF i = Len(items) THEN Nil ELSE items[i + 1]
    BY <2>1 DEF Linked
  <2>4. (i # 1 => items[i - 1] \in alive) /\ (i # Len(items) => items[i + 1] \in alive)
    BY <1>1
  <2> QED
    BY <2>2, <2>3, <2>4 DEF Dangling
<1> QED
  BY <1>2, <1>3 DEF Misuse

(* What an allocation gives. *)
LEMMA Allocated ==
  ASSUME Typed, Items, Allocate
  PROVE  /\ used + 1 \in Node /\ used + 1 \notin alive /\ used + 1 # Nil
         /\ used' \in 0 .. MaxNodes /\ \A n \in alive' : n \in 1 .. used'
         /\ \A i \in 1 .. Len(items) : items[i] # used + 1
         /\ status' = status
<1>1. MaxNodes \in Nat /\ used \in 0 .. MaxNodes /\ used < MaxNodes
  BY AmfListAssumption DEF Typed, Allocate
<1>2. \A n \in alive : n \in 1 .. used
  BY DEF Typed
<1>3. used' = used + 1 /\ alive' = alive \union {used + 1} /\ status' = status
  BY DEF Allocate
<1>4. used + 1 \in Node /\ used + 1 \notin alive /\ used + 1 # Nil
  BY <1>1, <1>2 DEF Node, Nil
<1>5. used' \in 0 .. MaxNodes /\ \A n \in alive' : n \in 1 .. used'
  BY <1>1, <1>2, <1>3
<1>6. \A i \in 1 .. Len(items) : items[i] # used + 1
  BY <1>4 DEF Items
<1> QED
  BY <1>3, <1>4, <1>5, <1>6

LEMMA PushLinks ==
  ASSUME Typed, Items, Linked, Push
  PROVE  Typed' /\ Items' /\ Linked'
<1> DEFINE new == used + 1
           n == Len(items)
<1>1. /\ new \in Node /\ new \notin alive /\ new # Nil
      /\ used' \in 0 .. MaxNodes /\ \A m \in alive' : m \in 1 .. used'
      /\ \A i \in 1 .. n : items[i] # new
  BY Allocated DEF Push
<1>2. /\ items \in Seq(Node) /\ n \in Nat /\ size = n
      /\ \A i, j \in 1 .. n : items[i] = items[j] => i = j
      /\ \A i \in 1 .. n : items[i] \in alive /\ items[i] \in Node
  BY DEF Items, Linked
<1>3. /\ items' = Append(items, new) /\ alive' = alive \union {new} /\ size' = size + 1
      /\ first' = IF size = 0 THEN new ELSE first
      /\ last' = new
      /\ next' = IF size = 0 THEN [next EXCEPT ![new] = Nil]
                             ELSE [next EXCEPT ![new] = Nil, ![last] = new]
      /\ prev' = [prev EXCEPT ![new] = IF size = 0 THEN Nil ELSE last]
  BY DEF Push, Allocate
<1> HIDE DEF new, n
<1>4. /\ items' \in Seq(Node) /\ Len(items') = n + 1 /\ items'[n + 1] = new
      /\ \A i \in 1 .. n : items'[i] = items[i]
  BY <1>1, <1>2, <1>3 DEF n
<1>5. Items'
  BY <1>1, <1>2, <1>3, <1>4 DEF Items, n
<1>6. n > 0 => last = items[n] /\ last \in Node
  BY <1>2 DEF Linked, n
<1>7. /\ prev \in [Node -> 0 .. MaxNodes] /\ next \in [Node -> 0 .. MaxNodes]
      /\ Nil \in 0 .. MaxNodes /\ \A m \in Node : m \in 0 .. MaxNodes
  BY AmfListAssumption DEF Typed, Node, Nil
<1>8. Typed'
  <2>1. prev' \in [Node -> 0 .. MaxNodes]
    BY <1>2, <1>3, <1>6, <1>7, <1>1
  <2>2. next' \in [Node -> 0 .. MaxNodes]
    BY <1>2, <1>3, <1>6, <1>7, <1>1
  <2> QED
    BY <1>1, <2>1, <2>2 DEF Typed
<1>9. /\ size' = Len(items') /\ last' = items'[Len(items')] /\ first' = items'[1]
      /\ items' # <<>>
  BY <1>2, <1>3, <1>4 DEF Linked, n
<1>10. ASSUME NEW i \in 1 .. Len(items')
       PROVE  /\ prev'[items'[i]] = IF i = 1 THEN Nil ELSE items'[i - 1]
              /\ next'[items'[i]] = IF i = Len(items') THEN Nil ELSE items'[i + 1]
  <2>1. CASE i = n + 1
    <3>1. items'[i] = new /\ i = Len(items')
      BY <2>1, <1>4
    <3>2. next'[new] = Nil
      BY <1>1, <1>2, <1>3, <1>6, <1>7
    <3>3. prev'[new] = IF n = 0 THEN Nil ELSE items[n]
      BY <1>1, <1>2, <1>3, <1>6, <1>7
    <3>4. n # 0 => items'[i - 1] = items[n]
      BY <2>1, <1>2, <1>4
    <3> QED
      BY <3>1, <3>2, <3>3, <3>4, <2>1, <1>2
  <2>2. CASE i \in 1 .. n
    <3>1. /\ items'[i] = items[i] /\ items[i] # new /\ items[i] \in Node
          /\ n > 0 /\ i # Len(items')
      BY <2>2, <1>1, <1>2, <1>4
    <3>2. /\ prev[items[i]] = IF i = 1 THEN Nil ELSE items[i - 1]
          /\ next[items[i]] = IF i = n THEN Nil ELSE items[i + 1]
      BY <2>2 DEF Linked, n
    <3>3. prev'[items[i]] = prev[items[i]]
      BY <3>1, <1>1, <1>3, <1>7
    <3>4. next'[items[i]] = IF i = n THEN new ELSE next[items[i]]
      <4>1. items[i] = last <=> i = n
        BY <3>1, <2>2, <1>2, <1>6
      <4>2. next' = [next EXCEPT ![new] = Nil, ![last] = new] /\ last \in Node /\ last # new
        BY <3>1, <1>1, <1>2, <1>3, <1>6
      <4>3. CASE i = n
        BY <4>1, <4>2, <4>3, <3>1, <1>7
      <4>4. CASE i # n
        BY <4>1, <4>2, <4>4, <3>1, <1>7
      <4> QED
        BY <4>3, <4>4
    <3>5. /\ i # 1 => items'[i - 1] = items[i - 1]
          /\ i # n => items'[i + 1] = items[i + 1]
          /\ i = n => items'[i + 1] = new
      BY SMTT(30), <2>2, <1>2, <1>4
    <3> QED
      BY <3>1, <3>2, <3>3, <3>4, <3>5
  <2> QED
    BY <2>1, <2>2, <1>2, <1>4
<1>11. Linked'
  BY <1>9, <1>10 DEF Linked
<1> QED
  BY <1>5, <1>8, <1>11
(* A node linked in between two others, by whichever of the insertions.    *)
LEMMA BetweenLinks ==
  ASSUME Typed, Items, Linked, Allocate, NEW k \in 2 .. Len(items),
         items' = InsertAt(items, k, used + 1),
         next' = [next EXCEPT ![used + 1] = items[k], ![items[k - 1]] = used + 1],
         prev' = [prev EXCEPT ![used + 1] = items[k - 1], ![items[k]] = used + 1],
         UNCHANGED <<first, last>>
  PROVE  Typed' /\ Items' /\ Linked'
<1> DEFINE new == used + 1
           n == Len(items)
           a == items[k - 1]
           b == items[k]
<1>1. /\ new \in Node /\ new \notin alive /\ new # Nil
      /\ used' \in 0 .. MaxNodes /\ \A m \in alive' : m \in 1 .. used'
      /\ \A i \in 1 .. n : items[i] # new
  BY Allocated
<1>2. /\ items \in Seq(Node) /\ n \in Nat /\ size = n /\ k \in 2 .. n
      /\ \A i, j \in 1 .. n : items[i] = items[j] => i = j
      /\ \A i \in 1 .. n : items[i] \in alive /\ items[i] \in Node
  BY DEF Items, Linked
<1>3. /\ items' = InsertAt(items, k, new) /\ alive' = alive \union {new} /\ size' = size + 1
      /\ next' = [next EXCEPT ![new] = b, ![a] = new]
      /\ prev' = [prev EXCEPT ![new] = a, ![b] = new]
      /\ first' = first /\ last' = last
  BY DEF Allocate
<1> HIDE DEF new, n
<1>4. k - 1 \in 1 .. n /\ k \in 1 .. n /\ k \in 1 .. n + 1
  BY <1>2
<1>5. /\ a \in Node /\ b \in Node /\ a # new /\ b # new /\ a # b
      /\ \A i \in 1 .. n : (items[i] = a <=> i = k - 1) /\ (items[i] = b <=> i = k)
  BY <1>1, <1>2, <1>4
<1>6. /\ items' \in Seq(Node) /\ Len(items') = n + 1
      /\ \A i \in 1 .. n + 1 :
           items'[i] = IF i < k THEN items[i] ELSE IF i = k THEN new ELSE items[i - 1]
  <2>1. items \in Seq(Node) /\ new \in Node /\ k \in 1 .. Len(items) + 1
    BY <1>1, <1>2, <1>4 DEF n
  <2>2. /\ InsertAt(items, k, new) \in Seq(Node)
        /\ Len(InsertAt(items, k, new)) = Len(items) + 1
        /\ \A i \in 1 .. Len(items) + 1 : InsertAt(items, k, new)[i] =
             IF i < k THEN items[i] ELSE IF i = k THEN new ELSE items[i - 1]
    BY <2>1, InsertedAt
  <2> QED
    BY <2>2, <1>3 DEF n
<1>7. /\ \A i \in 1 .. n + 1 : i < k => items'[i] = items[i] /\ i \in 1 .. n
      /\ items'[k] = new
      /\ \A i \in 1 .. n + 1 : i > k => items'[i] = items[i - 1] /\ i - 1 \in 1 .. n
  <2>1. k \in 1 .. n + 1 /\ n \in Nat
    BY <1>2, <1>4
  <2>2. \A i \in 1 .. n + 1 : i < k => i \in 1 .. n
    BY <2>1
  <2>3. \A i \in 1 .. n + 1 : i > k => i - 1 \in 1 .. n /\ ~(i < k) /\ i # k
    BY <2>1
  <2> QED
    BY <2>1, <2>2, <2>3, <1>6
<1>8. /\ prev \in [Node -> 0 .. MaxNodes] /\ next \in [Node -> 0 .. MaxNodes]
      /\ \A m \in Node : m \in 0 .. MaxNodes
  BY DEF Typed, Node
<1>9. /\ prev' \in [Node -> 0 .. MaxNodes] /\ next' \in [Node -> 0 .. MaxNodes]
      /\ next'[new] = b /\ next'[a] = new
      /\ prev'[new] = a /\ prev'[b] = new
      /\ \A m \in Node : m # new /\ m # a => next'[m] = next[m]
      /\ \A m \in Node : m # new /\ m # b => prev'[m] = prev[m]
  <2>1. next' = [next EXCEPT ![new] = b, ![a] = new]
    BY <1>3
  <2>2. prev' = [prev EXCEPT ![new] = a, ![b] = new]
    BY <1>3
  <2>3. a \in Node /\ b \in Node /\ a # new /\ b # new /\ new \in Node
    BY <1>1, <1>5
  <2>4. a \in 0 .. MaxNodes /\ b \in 0 .. MaxNodes /\ new \in 0 .. MaxNodes
    BY <2>3, <1>8
  <2> DEFINE P == 0 .. MaxNodes
  <2>5. /\ prev \in [Node -> P] /\ next \in [Node -> P]
        /\ a \in P /\ b \in P /\ new \in P
    BY <1>8, <2>4
  <2> HIDE DEF a, b, P
  <2>6. /\ next' \in [Node -> P] /\ next'[new] = b /\ next'[a] = new
        /\ \A m \in Node : m # new /\ m # a => next'[m] = next[m]
    BY <2>1, <2>3, <2>5
  <2>7. /\ prev' \in [Node -> P] /\ prev'[new] = a /\ prev'[b] = new
        /\ \A m \in Node : m # new /\ m # b => prev'[m] = prev[m]
    BY <2>2, <2>3, <2>5
  <2> QED
    BY <2>6, <2>7 DEF P
<1> HIDE DEF a, b
<1>10. Typed'
  BY <1>1, <1>9 DEF Typed
<1>11. Items'
  <2>1. ASSUME NEW i \in 1 .. n + 1 PROVE items'[i] \in alive'
    <3>1. i < k \/ i = k \/ i > k
      <4>1. i \in Int /\ k \in Int
        BY <1>4
      <4> QED
        BY <4>1
    <3>2. items'[i] = new \/ \E j \in 1 .. n : items'[i] = items[j]
      BY <3>1, <1>7
    <3> QED
      BY <3>2, <1>2, <1>3
  <2>2. \A m \in alive' : \E i \in 1 .. n + 1 : items'[i] = m
    <3> SUFFICES ASSUME NEW m \in alive' PROVE \E i \in 1 .. n + 1 : items'[i] = m
      OBVIOUS
    <3>1. CASE m = new
      <4>1. k \in 1 .. n + 1 /\ items'[k] = m
        BY <3>1, <1>4, <1>7
      <4> QED
        BY <4>1
    <3>2. CASE m # new
      <4>1. PICK i \in 1 .. n : items[i] = m
        BY <3>2, <1>3 DEF Items, n
      <4>2. CASE i < k
        BY <4>1, <4>2, <1>2, <1>7
      <4>3. CASE i >= k
        <5>1. i + 1 \in 1 .. n + 1 /\ i + 1 > k /\ (i + 1) - 1 = i
          BY <4>3, <1>2
        <5> QED
          BY <5>1, <4>1, <1>7
      <4> QED
        BY <4>2, <4>3, <1>2
    <3> QED
      BY <3>1, <3>2
  <2>3. ASSUME NEW i \in 1 .. n + 1, NEW j \in 1 .. n + 1, items'[i] = items'[j]
        PROVE  i = j
    <3> DEFINE old(x) == IF x < k THEN x ELSE x - 1
    <3>1. \A x \in 1 .. n + 1 : x # k => old(x) \in 1 .. n /\ items'[x] = items[old(x)]
      BY <1>2, <1>7
    <3>2. \A x \in 1 .. n + 1 : items'[x] = new <=> x = k
      BY <3>1, <1>1, <1>7
    <3>3. i # k => old(i) = old(j) /\ j # k
      BY SMTT(30), <3>1, <3>2, <1>2, <2>3
    <3>4. i = k => j = k
      BY <3>2, <2>3
    <3> QED
      BY <3>3, <3>4, <1>2
  <2> QED
    BY <2>1, <2>2, <2>3, <1>6 DEF Items
<1>12. /\ size' = Len(items') /\ items' # <<>>
       /\ first' = items'[1] /\ last' = items'[Len(items')]
  BY <1>2, <1>3, <1>6, <1>7 DEF Linked, n
<1>13. ASSUME NEW i \in 1 .. Len(items')
       PROVE  /\ prev'[items'[i]] = IF i = 1 THEN Nil ELSE items'[i - 1]
              /\ next'[items'[i]] = IF i = Len(items') THEN Nil ELSE items'[i + 1]
  <2>0. i \in 1 .. n + 1 /\ Len(items') = n + 1
    BY <1>6
  <2>1. CASE i = k
    <3>1. items'[i] = new /\ items'[i - 1] = a /\ items'[i + 1] = b /\ i # 1 /\ i # n + 1
      BY <2>1, <1>2, <1>4, <1>7 DEF a, b
    <3> QED
      BY <3>1, <2>0, <1>9
  <2>2. CASE i < k
    <3>1. /\ items'[i] = items[i] /\ i \in 1 .. n /\ i # n + 1 /\ i # k /\ i # n
          /\ i # 1 => items'[i - 1] = items[i - 1]
          /\ i # k - 1 => items'[i + 1] = items[i + 1]
          /\ i = k - 1 => items'[i + 1] = new
      BY <2>0, <2>2, <1>2, <1>7
    <3>2. /\ prev[items[i]] = IF i = 1 THEN Nil ELSE items[i - 1]
          /\ next[items[i]] = IF i = n THEN Nil ELSE items[i + 1]
      BY <3>1 DEF Linked, n
    <3>3. items[i] \in Node /\ items[i] # new /\ items[i] # b /\ (items[i] = a <=> i = k - 1)
      BY <3>1, <1>1, <1>2, <1>5
    <3>4. prev'[items[i]] = prev[items[i]]
      BY <3>3, <1>9
    <3>5. next'[items[i]] = IF i = k - 1 THEN new ELSE next[items[i]]
      BY <3>3, <1>9
    <3> QED
      BY <3>1, <3>2, <3>4, <3>5, <2>0
  <2>3. CASE i > k
    <3> DEFINE j == i - 1
    <3>1. /\ items'[i] = items[j] /\ j \in 1 .. n /\ i # 1 /\ j # 1 /\ j # k - 1
          /\ j + 1 = i /\ (i = n + 1 <=> j = n)
          /\ i # n + 1 => items'[i + 1] = items[j + 1]
          /\ j # k => items'[i - 1] = items[j - 1]
          /\ j = k => items'[i - 1] = new
      <4>1. /\ j \in 1 .. n /\ i # 1 /\ j # 1 /\ j # k - 1
            /\ j + 1 = i /\ (i = n + 1 <=> j = n)
        BY <2>0, <2>3, <1>2
      <4>2. items'[i] = items[j]
        BY <2>0, <2>3, <1>7
      <4>3. i # n + 1 => items'[i + 1] = items[j + 1]
        <5>1. i # n + 1 => i + 1 \in 1 .. n + 1 /\ i + 1 > k /\ (i + 1) - 1 = j + 1
          BY <2>0, <2>3, <1>2
        <5> QED
          BY <5>1, <1>7
      <4>4. j # k => items'[i - 1] = items[j - 1]
        <5>1. j # k => j \in 1 .. n + 1 /\ j > k
          BY <2>0, <2>3, <1>2
        <5> QED
          BY <5>1, <1>7
      <4>5. j = k => items'[i - 1] = new
        BY <1>7
      <4> QED
        BY <4>1, <4>2, <4>3, <4>4, <4>5
    <3> HIDE DEF j
    <3>2. /\ prev[items[j]] = items[j - 1]
          /\ next[items[j]] = IF j = n THEN Nil ELSE items[j + 1]
      BY <3>1 DEF Linked, n
    <3>3. items[j] \in Node /\ items[j] # new /\ items[j] # a /\ (items[j] = b <=> j = k)
      BY <3>1, <1>1, <1>2, <1>5
    <3>4. next'[items[j]] = next[items[j]]
      BY <3>3, <1>9
    <3>5. prev'[items[j]] = IF j = k THEN new ELSE prev[items[j]]
      BY <3>3, <1>9
    <3> QED
      BY <3>1, <3>2, <3>4, <3>5, <2>0
  <2> QED
    BY <2>0, <2>1, <2>2, <2>3, <1>2
<1>14. Linked'
  BY <1>12, <1>13 DEF Linked
<1> QED
  BY <1>10, <1>11, <1>14
LEMMA DeleteLinks ==
  ASSUME Typed, Items, Linked, NEW d \in 1 .. Len(items), Delete(d)
  PROVE  Typed' /\ Items' /\ Linked'
<1> DEFINE n == Len(items)
           p == prev[items[d]]
           q == next[items[d]]
           P == 0 .. MaxNodes
<1>1. /\ items \in Seq(Node) /\ n \in Nat /\ size = n /\ d \in 1 .. n
      /\ \A i, j \in 1 .. n : items[i] = items[j] => i = j
      /\ \A i \in 1 .. n : items[i] \in alive /\ items[i] \in Node
      /\ Nil \notin Node
  <2>1. items \in Seq(Node) /\ n \in Nat /\ size = n /\ d \in 1 .. n
    BY DEF Items, Linked
  <2>2. /\ \A i, j \in 1 .. n : items[i] = items[j] => i = j
        /\ \A i \in 1 .. n : items[i] \in alive /\ items[i] \in Node
    BY <2>1 DEF Items
  <2>3. Nil \notin Node
    BY DEF Node, Nil
  <2> QED
    BY <2>1, <2>2, <2>3
<1>2. /\ items' = RemoveAt(items, d) /\ alive' = alive \ {items[d]} /\ size' = size - 1
      /\ prev' = IF q = Nil THEN prev ELSE [prev EXCEPT ![q] = p]
      /\ next' = IF p = Nil THEN next ELSE [next EXCEPT ![p] = q]
      /\ first' = IF items[d] = first THEN q ELSE first
      /\ last' = IF items[d] = last THEN p ELSE last
      /\ used' = used
  BY DEF Delete, FirstWithout
<1>3. /\ p = IF d = 1 THEN Nil ELSE items[d - 1]
      /\ q = IF d = n THEN Nil ELSE items[d + 1]
  BY DEF Linked
<1>4. /\ items' \in Seq(Node) /\ Len(items') = n - 1
      /\ \A k \in 1 .. n - 1 : items'[k] = IF k < d THEN items[k] ELSE items[k + 1]
  <2>1. items \in Seq(Node) /\ d \in 1 .. Len(items)
    BY <1>1
  <2>2. /\ RemoveAt(items, d) \in Seq(Node)
        /\ Len(RemoveAt(items, d)) = Len(items) - 1
        /\ \A k \in 1 .. Len(items) - 1 :
             RemoveAt(items, d)[k] = IF k < d THEN items[k] ELSE items[k + 1]
    BY <2>1, RemovedAt
  <2> QED
    BY <2>2, <1>2
<1>5. prev \in [Node -> P] /\ next \in [Node -> P] /\ \A m \in Node : m \in P
  BY DEF Typed, Node
<1> HIDE DEF n, p, q, P
<1>6. (q # Nil => q \in Node) /\ (p # Nil => p \in Node) /\ q \in P /\ p \in P
  <2>1. items[d] \in Node
    BY <1>1
  <2>2. q \in P /\ p \in P
    BY <2>1, <1>5 DEF p, q
  <2>3. d # 1 => items[d - 1] \in Node
    BY <1>1
  <2>4. d # n => items[d + 1] \in Node
    BY <1>1
  <2> QED
    BY <2>2, <2>3, <2>4, <1>3
<1>7. /\ prev' \in [Node -> P] /\ next' \in [Node -> P]
      /\ \A m \in Node : prev'[m] = IF m = q THEN p ELSE prev[m]
      /\ \A m \in Node : next'[m] = IF m = p THEN q ELSE next[m]
  <2>1. /\ prev' \in [Node -> P]
        /\ \A m \in Node : prev'[m] = IF m = q THEN p ELSE prev[m]
    BY <1>1, <1>2, <1>5, <1>6
  <2>2. /\ next' \in [Node -> P]
        /\ \A m \in Node : next'[m] = IF m = p THEN q ELSE next[m]
    BY <1>1, <1>2, <1>5, <1>6
  <2> QED
    BY <2>1, <2>2
<1>8. Typed'
  BY <1>2, <1>7 DEF Typed, P
(* Where an item was before. *)
<1> DEFINE old(k) == IF k < d THEN k ELSE k + 1
<1>9. \A k \in 1 .. n - 1 : old(k) \in 1 .. n /\ old(k) # d /\ items'[k] = items[old(k)]
  BY <1>1, <1>4
<1>10. Items'
  <2>1. ASSUME NEW k \in 1 .. n - 1 PROVE items'[k] \in alive'
    BY <1>1, <1>2, <1>9
  <2>2. ASSUME NEW m \in alive' PROVE \E k \in 1 .. n - 1 : items'[k] = m
    <3>1. m \in alive /\ m # items[d]
      BY <1>2
    <3>2. PICK j \in 1 .. n : items[j] = m
      BY <3>1 DEF Items, n
    <3>3. j # d
      BY <3>1, <3>2
    <3>4. CASE j < d
      <4>1. j \in 1 .. n - 1 /\ old(j) = j
        BY <3>4, <1>1
      <4> QED
        BY <4>1, <3>2, <1>9
    <3>5. CASE j > d
      <4>1. j - 1 \in 1 .. n - 1 /\ old(j - 1) = j
        BY <3>5, <1>1
      <4> QED
        BY <4>1, <3>2, <1>9
    <3> QED
      BY <3>3, <3>4, <3>5, <1>1
  <2>3. ASSUME NEW i \in 1 .. n - 1, NEW j \in 1 .. n - 1, items'[i] = items'[j]
        PROVE  i = j
    <3>1. old(i) = old(j)
      BY <2>3, <1>1, <1>9
    <3> QED
      BY <3>1, <1>1
  <2> QED
    BY <2>1, <2>2, <2>3, <1>4 DEF Items
<1>11. /\ size' = Len(items')
       /\ first' = IF items' = <<>> THEN Nil ELSE items'[1]
       /\ last' = IF items' = <<>> THEN Nil ELSE items'[Len(items')]
  <2>1. items' = <<>> <=> n = 1
    BY <1>1, <1>4
  <2>2. first = items[1] /\ last = items[n] /\ 1 \in 1 .. n /\ n \in 1 .. n
    BY <1>1 DEF Linked, n
  <2>3. (items[d] = first <=> d = 1) /\ (items[d] = last <=> d = n)
    BY <1>1, <2>2
  <2>4. n # 1 => items'[1] = IF d = 1 THEN items[2] ELSE items[1]
    BY <1>1, <1>4
  <2>5. n # 1 => items'[n - 1] = IF d = n THEN items[n - 1] ELSE items[n]
    <3>1. n # 1 => n - 1 \in 1 .. n - 1 /\ (n - 1 < d <=> d = n) /\ (n - 1) + 1 = n
      BY <1>1
    <3> QED
      BY <3>1, <1>4
  <2>6. first' = IF n = 1 THEN Nil ELSE items'[1]
    BY <1>1, <1>2, <1>3, <2>2, <2>3, <2>4
  <2>7. last' = IF n = 1 THEN Nil ELSE items'[n - 1]
    BY <1>1, <1>2, <1>3, <2>2, <2>3, <2>5
  <2> QED
    BY <1>1, <1>2, <1>4, <2>1, <2>6, <2>7
<1>12. ASSUME NEW k \in 1 .. Len(items')
       PROVE  /\ prev'[items'[k]] = IF k = 1 THEN Nil ELSE items'[k - 1]
              /\ next'[items'[k]] = IF k = Len(items') THEN Nil ELSE items'[k + 1]
  <2>1. k \in 1 .. n - 1 /\ Len(items') = n - 1
    BY <1>4
  <2> DEFINE o == old(k)
  <2>2. o \in 1 .. n /\ o # d /\ items'[k] = items[o] /\ items[o] \in Node
    BY <2>1, <1>1, <1>9
  <2>3. /\ prev[items[o]] = IF o = 1 THEN Nil ELSE items[o - 1]
        /\ next[items[o]] = IF o = n THEN Nil ELSE items[o + 1]
    BY <2>2 DEF Linked, n
  <2>4. items[o] = q <=> o = d + 1
    BY <2>2, <1>1, <1>3
  <2>5. items[o] = p <=> o = d - 1
    BY <2>2, <1>1, <1>3
  <2>6. prev'[items[o]] = IF o = d + 1 THEN p ELSE prev[items[o]]
    BY <2>2, <2>4, <1>7
  <2>7. next'[items[o]] = IF o = d - 1 THEN q ELSE next[items[o]]
    BY <2>2, <2>5, <1>7
  <2>8. CASE k < d
    <3>1. o = k /\ o # d + 1 /\ o # n
      BY <2>1, <2>8, <1>1
    <3>2. k # 1 => items'[k - 1] = items[k - 1]
      BY <2>1, <2>8, <1>1, <1>4
    <3>3. k # n - 1 => items'[k + 1] = IF k = d - 1 THEN items[k + 2] ELSE items[k + 1]
      BY <2>1, <2>8, <1>1, <1>4
    <3>4. k = d - 1 => q = IF k = n - 1 THEN Nil ELSE items[k + 2]
      BY <2>1, <2>8, <1>1, <1>3
    <3>5. k # d - 1 => k # n - 1
      BY <2>1, <2>8, <1>1
    <3> HIDE DEF o
    <3> QED
      BY <2>1, <2>2, <2>3, <2>6, <2>7, <3>1, <3>2, <3>3, <3>4, <3>5
  <2>9. CASE k >= d
    <3>1. o = k + 1 /\ o # d - 1 /\ o # 1
      BY <2>1, <2>9, <1>1
    <3>2. k # 1 => items'[k - 1] = IF k = d THEN items[k - 1] ELSE items[k]
      BY <2>1, <2>9, <1>1, <1>4
    <3>3. k # n - 1 => items'[k + 1] = items[k + 2]
      BY <2>1, <2>9, <1>1, <1>4
    <3>4. k = d => p = IF k = 1 THEN Nil ELSE items[k - 1]
      BY <1>3
    <3>5. /\ k # d => k # 1
          /\ (o = n <=> k = n - 1) /\ o - 1 = k /\ o + 1 = k + 2 /\ (o = d + 1 <=> k = d)
      BY <2>1, <2>9, <1>1, <3>1
    <3> HIDE DEF o
    <3> QED
      BY <2>1, <2>2, <2>3, <2>6, <2>7, <3>1, <3>2, <3>3, <3>4, <3>5
  <2> QED
    BY <2>1, <2>8, <2>9, <1>1
<1>13. Linked'
  BY <1>11, <1>12 DEF Linked
<1> QED
  BY <1>8, <1>10, <1>13
-----------------------------------------------------------------------------
(* An insertion that leaves the list plain is one between two nodes. *)
LEMMA InsertBeforeLinks ==
  ASSUME Typed, Items, Linked, NEW i \in 1 .. Len(items), InsertBefore(i), prev[items[i]] # Nil
  PROVE  Typed' /\ Items' /\ Linked'
<1>1. prev[items[i]] = IF i = 1 THEN Nil ELSE items[i - 1]
  BY DEF Linked
<1>2. i \in 2 .. Len(items) /\ prev[items[i]] = items[i - 1]
  BY <1>1
<1>3. /\ Allocate /\ items' = InsertAt(items, i, used + 1)
      /\ next' = [next EXCEPT ![used + 1] = items[i], ![items[i - 1]] = used + 1]
      /\ prev' = [prev EXCEPT ![used + 1] = items[i - 1], ![items[i]] = used + 1]
      /\ UNCHANGED <<first, last>>
  BY <1>2 DEF InsertBefore, NextBefore
<1> QED
  BY <1>2, <1>3, BetweenLinks

LEMMA InsertAfterLinks ==
  ASSUME Typed, Items, Linked, NEW i \in 1 .. Len(items), InsertAfter(i), next[items[i]] # Nil
  PROVE  Typed' /\ Items' /\ Linked'
<1>1. next[items[i]] = IF i = Len(items) THEN Nil ELSE items[i + 1]
  BY DEF Linked
<1>2. i + 1 \in 2 .. Len(items) /\ next[items[i]] = items[i + 1] /\ (i + 1) - 1 = i
  <2>1. Len(items) \in Nat
    BY DEF Items
  <2> QED
    BY <1>1, <2>1
<1>3. /\ Allocate /\ items' = InsertAt(items, i + 1, used + 1)
      /\ prev' = [prev EXCEPT ![used + 1] = items[i], ![items[i + 1]] = used + 1]
      /\ next' = [next EXCEPT ![used + 1] = items[i + 1], ![items[i]] = used + 1]
      /\ UNCHANGED <<first, last>>
  BY <1>2 DEF InsertAfter
<1> QED
  BY <1>2, <1>3, BetweenLinks

LEMMA StepInv == IInv /\ [Next]_vars => IInv'
<1> SUFFICES ASSUME IInv, [Next]_vars, plain'
             PROVE  /\ status' \in {"ok", "freed"}
                    /\ status' = "ok" => Typed' /\ Items' /\ Linked'
  BY DEF IInv
<1>1. CASE UNCHANGED vars
  BY <1>1 DEF vars, IInv, Typed, Items, Linked
<1>2. ASSUME plain, status = "ok"
      PROVE  Typed /\ Items /\ Linked
  BY <1>2 DEF IInv
<1>3. CASE Push
  <2>1. plain /\ status = "ok" /\ status' = "ok"
    BY <1>3 DEF Push, Allocate
  <2> QED
    BY <2>1, <1>2, <1>3, PushLinks
<1>4. CASE Clear
  BY <1>4 DEF Clear
<1>5. CASE Misuse
  <2>1. plain /\ status = "ok"
    BY <1>5 DEF Misuse
  <2> QED
    BY <2>1, <1>2, <1>5, NothingDangles
<1>6. ASSUME NEW i \in 1 .. Len(items), InsertBefore(i)
      PROVE  status' = "ok" /\ Typed' /\ Items' /\ Linked'
  <2>1. plain /\ prev[items[i]] # Nil /\ status = "ok" /\ status' = "ok"
    BY <1>6 DEF InsertBefore, Allocate
  <2> QED
    BY <2>1, <1>2, <1>6, InsertBeforeLinks
<1>7. ASSUME NEW i \in 1 .. Len(items), InsertAfter(i)
      PROVE  status' = "ok" /\ Typed' /\ Items' /\ Linked'
  <2>1. plain /\ next[items[i]] # Nil /\ status = "ok" /\ status' = "ok"
    BY <1>7 DEF InsertAfter, Allocate
  <2> QED
    BY <2>1, <1>2, <1>7, InsertAfterLinks
<1>8. ASSUME NEW i \in 1 .. Len(items), Delete(i)
      PROVE  status' = "ok" /\ Typed' /\ Items' /\ Linked'
  <2>1. plain /\ status = "ok" /\ status' = "ok"
    BY <1>8 DEF Delete
  <2> QED
    BY <2>1, <1>2, <1>8, DeleteLinks
<1> QED
  BY <1>1, <1>3, <1>4, <1>5, <1>6, <1>7, <1>8 DEF Next

(* For any number of allocations and any calls, a list nothing was         *)
(* inserted at the ends of is linked both ways in the order of the calls,  *)
(* its nodes are those allocated and not freed, and no call follows a null *)
(* pointer or one to a freed node (amf_list).                              *)
THEOREM LinksKept == Spec => []WellLinked
<1>1. ASSUME Items PROVE alive = {items[i] : i \in 1 .. Len(items)}
  BY <1>1 DEF Items
<1>2. IInv => WellLinked
  BY <1>1 DEF IInv, WellLinked
<1> QED
  BY <1>2, InitInv, StepInv, PTL DEF Spec
=============================================================================
