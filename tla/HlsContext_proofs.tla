-------------------------- MODULE HlsContext_proofs --------------------------
(***************************************************************************)
(* Lemmas about what the writer writes, for the proofs of its callers: the *)
(* frames of one stream in a fragment, fragment after fragment.            *)
(*                                                                         *)
(* FlattenSeq joins sequences by a recursive function.  Its equation is    *)
(* proved by induction on the number of sequences, once and for all; every *)
(* other lemma follows from what a further sequence adds (FlattenAppend).  *)
(*                                                                         *)
(* A fold over the items of a sequence is recursive over sets of their     *)
(* places: FoldsExist and FoldSteps make it one state after each item.     *)
(*                                                                         *)
(* Then the pictures in the tracks of the segments.                        *)
(*                                                                         *)
(* The part behind them is about two writers of the converter, for seek    *)
(* runs: one has the segments of the other behind some of its own          *)
(* (Behind), and each operation keeps it so.                               *)
(*                                                                         *)
(* The last part is about the writer of a whole run: its types, and what   *)
(* each operation does to its tracks, its buffer and its clock.            *)
(***************************************************************************)
EXTENDS HlsContext, WellFoundedInduction, SequenceTheorems, TLAPS

(* Induction on the natural numbers, for the set where a fact holds. *)
LEMMA Induction ==
  ASSUME NEW S, 0 \in S, \A n \in Nat : n \in S => n + 1 \in S
  PROVE  Nat \subseteq S
<1> DEFINE T == Nat \ S
           R == OpToRel(<, Nat)
<1>1. SUFFICES ASSUME T # {} PROVE FALSE
  OBVIOUS
<1>2. \A m, n \in Nat : m < n => <<m, n>> \in R
  BY DEF OpToRel
<1>3. IsWellFoundedOn(R, Nat)
  BY NatLessThanWellFounded
<1>4. T \subseteq Nat
  OBVIOUS
<1>5. PICK n \in T : \A m \in T : ~(<<m, n>> \in R)
  <2> HIDE DEF T, R
  <2> QED
    BY <1>1, <1>3, <1>4, WFMin
<1> HIDE DEF R
<1>6. n \in Nat /\ n \notin S /\ n # 0
  OBVIOUS
<1>7. n - 1 \in Nat /\ n - 1 < n /\ (n - 1) + 1 = n
  BY <1>6
<1>8. n - 1 \in S
  BY <1>2, <1>5, <1>6, <1>7
<1> QED
  BY <1>6, <1>7, <1>8

(* A function on 1 .. n is a sequence of length n. *)
LEMMA FunctionIsSeq ==
  ASSUME NEW n \in Nat, NEW S, NEW f \in [1 .. n -> S]
  PROVE  f \in Seq(S) /\ Len(f) = n /\ \A i \in 1 .. n : f[i] \in S
<1>1. f \in Seq(S)
  BY SeqDef
<1>2. Len(f) \in Nat /\ DOMAIN f = 1 .. Len(f)
  BY <1>1, LenProperties
<1>3. Len(f) = n
  BY <1>2
<1> QED
  BY <1>1, <1>3

(* The number of packets is a number. *)
LEMMA PacketCountIsNat ==
  ASSUME NEW n \in Nat, NEW k \in {0, 1}
  PROVE  PacketCount([size |-> n, key |-> k, cts |-> 0]) \in Nat
<1> DEFINE f == [size |-> n, key |-> k, cts |-> 0]
<1>1. f.size = n /\ BodySize(f, 1) \in {162, 170}
  BY DEF BodySize, PacketSize, ClockBytes, PesHeaderBytes, StampBytes
<1>2. ASSUME NEW b \in {162, 170}, n > b
      PROVE  1 + (n - b + 183) \div 184 \in Nat
  BY <1>2
<1>3. PacketCount(f) =
        IF n <= BodySize(f, 1) THEN IF n = 0 THEN 0 ELSE 1
                               ELSE 1 + (n - BodySize(f, 1) + 183) \div 184
  BY <1>1 DEF PacketCount
<1> HIDE DEF f
<1>4. PICK b \in {162, 170} : b = BodySize(f, 1)
  BY <1>1
<1> QED
  BY <1>2, <1>3, <1>4 DEF f

-----------------------------------------------------------------------------
(* Sequences joined. *)

(* g joins the first sequences of ss, for each number of them up to n. *)
Joins(g, ss, n) ==
  g = [i \in 1 .. n |-> IF i = 1 THEN ss[i] ELSE g[i - 1] \o ss[i]]

LEMMA JoinsExist ==
  ASSUME NEW ss, NEW n \in Nat
  PROVE  \E g : Joins(g, ss, n)
<1> DEFINE S == {k \in Nat : \E g : Joins(g, ss, k)}
<1>1. 0 \in S
  <2>1. Joins([i \in 1 .. 0 |-> ss[i]], ss, 0)
    BY DEF Joins
  <2> QED
    BY <2>1
<1>2. ASSUME NEW k \in Nat, k \in S PROVE k + 1 \in S
  <2>1. PICK g : Joins(g, ss, k)
    BY <1>2
  <2> DEFINE h == [i \in 1 .. k + 1 |->
                     IF i = k + 1 THEN IF i = 1 THEN ss[i] ELSE g[k] \o ss[i] ELSE g[i]]
             r == [i \in 1 .. k + 1 |-> IF i = 1 THEN ss[i] ELSE h[i - 1] \o ss[i]]
  <2>2. ASSUME NEW i \in 1 .. k + 1 PROVE h[i] = r[i]
    <3>1. CASE i = 1 /\ k = 0
      BY <3>1
    <3>2. CASE i = 1 /\ k # 0
      BY <2>1, <3>2 DEF Joins
    <3>3. CASE i # 1
      <4>1. i - 1 \in 1 .. k /\ i - 1 # k + 1
        BY <3>3
      <4>2. h[i - 1] = g[i - 1]
        BY <4>1
      <4>3. r[i] = g[i - 1] \o ss[i]
        BY <3>3, <4>2
      <4>4. CASE i = k + 1
        <5>1. h[i] = g[k] \o ss[i]
          BY <3>3, <4>4
        <5>2. i - 1 = k
          BY <4>4
        <5> HIDE DEF h, r
        <5> QED
          BY <4>3, <5>1, <5>2
      <4>5. CASE i # k + 1
        <5>1. i \in 1 .. k /\ h[i] = g[i]
          BY <4>5
        <5> QED
          BY <2>1, <3>3, <4>3, <5>1 DEF Joins
      <4> QED
        BY <4>4, <4>5
    <3> QED
      BY <3>1, <3>2, <3>3
  <2>3. h = r
    BY <2>2
  <2>4. Joins(h, ss, k + 1)
    BY <2>3 DEF Joins
  <2> HIDE DEF h, r
  <2> QED
    BY <2>4
<1>3. Nat \subseteq S
  <2> HIDE DEF S
  <2> QED
    BY <1>1, <1>2, Induction
<1> QED
  BY <1>3

(* Joins of sequences that agree up to n agree, and are sequences. *)
LEMMA JoinsAgree ==
  ASSUME NEW S, NEW n \in Nat, NEW m \in Nat, n <= m,
         NEW ss, NEW tt, \A i \in 1 .. n : ss[i] \in Seq(S) /\ tt[i] = ss[i],
         NEW g, Joins(g, ss, n), NEW h, Joins(h, tt, m)
  PROVE  \A i \in 1 .. n : h[i] = g[i] /\ g[i] \in Seq(S)
<1> DEFINE T == {k \in Nat : k \in 1 .. n => h[k] = g[k] /\ g[k] \in Seq(S)}
<1>1. 0 \in T
  OBVIOUS
<1>2. ASSUME NEW k \in Nat, k \in T PROVE k + 1 \in T
  <2> SUFFICES ASSUME k + 1 \in 1 .. n
               PROVE  h[k + 1] = g[k + 1] /\ g[k + 1] \in Seq(S)
    OBVIOUS
  <2>1. k + 1 \in 1 .. m
    OBVIOUS
  <2>2. CASE k = 0
    <3>1. h[1] = tt[1] /\ g[1] = ss[1]
      BY <2>1, <2>2 DEF Joins
    <3> QED
      BY <2>2, <3>1
  <2>3. CASE k # 0
    <3>1. k \in 1 .. n /\ (k + 1) - 1 = k /\ k + 1 # 1
      BY <2>3
    <3>2. h[k] = g[k] /\ g[k] \in Seq(S)
      BY <1>2, <3>1
    <3>3. h[k + 1] = h[k] \o tt[k + 1] /\ g[k + 1] = g[k] \o ss[k + 1]
      BY ZenonT(60), <2>1, <3>1 DEF Joins
    <3> QED
      BY <3>2, <3>3, ConcatProperties
  <2> QED
    BY <2>2, <2>3
<1>3. Nat \subseteq T
  <2> HIDE DEF T
  <2> QED
    BY <1>1, <1>2, Induction
<1> QED
  BY <1>3

LEMMA FlattenEmpty == FlattenSeq(<<>>) = <<>>
  BY DEF FlattenSeq

LEMMA FlattenJoins ==
  ASSUME NEW n \in Nat, n > 0, NEW ss, Len(ss) = n
  PROVE  \E g : Joins(g, ss, n) /\ FlattenSeq(ss) = g[n]
<1> DEFINE g == CHOOSE f : f = [i \in 1 .. Len(ss) |-> IF i = 1 THEN ss[i] ELSE f[i - 1] \o ss[i]]
<1>1. FlattenSeq(ss) = g[n]
  BY DEF FlattenSeq
<1>2. Joins(g, ss, n)
  BY JoinsExist DEF Joins
<1> HIDE DEF g
<1> QED
  BY <1>1, <1>2

(* One more sequence is joined to the end of the others. *)
LEMMA FlattenAppend ==
  ASSUME NEW S, NEW ss \in Seq(Seq(S)), NEW x \in Seq(S)
  PROVE  /\ FlattenSeq(ss) \in Seq(S)
         /\ FlattenSeq(Append(ss, x)) = FlattenSeq(ss) \o x
<1> DEFINE n  == Len(ss)
           tt == Append(ss, x)
<1>1. /\ n \in Nat /\ Len(tt) = n + 1
      /\ \A i \in 1 .. n : ss[i] \in Seq(S) /\ tt[i] = ss[i]
      /\ tt[n + 1] = x
  OBVIOUS
<1>2. PICK h : Joins(h, tt, n + 1) /\ FlattenSeq(tt) = h[n + 1]
  <2> HIDE DEF tt, n
  <2> QED
    BY <1>1, FlattenJoins
<1> HIDE DEF tt
<1>3. CASE n = 0
  <2>1. ss = <<>>
    BY <1>3
  <2>2. FlattenSeq(ss) = <<>>
    BY <2>1, FlattenEmpty
  <2>3. h[1] = tt[1]
    BY <1>2, <1>3 DEF Joins
  <2>4. FlattenSeq(tt) = x
    BY <1>1, <1>2, <1>3, <2>3
  <2>5. <<>> \in Seq(S) /\ <<>> \o x = x
    OBVIOUS
  <2> QED
    BY <2>2, <2>4, <2>5 DEF tt
<1>4. CASE n # 0
  <2>0. n > 0 /\ n \in 1 .. n /\ n + 1 # 1 /\ (n + 1) - 1 = n /\ n + 1 \in 1 .. n + 1 /\ n <= n + 1 /\ n + 1 \in Nat
    BY <1>1, <1>4
  <2> HIDE DEF n
  <2>1. PICK g : Joins(g, ss, n) /\ FlattenSeq(ss) = g[n]
    BY <1>1, <2>0, FlattenJoins DEF n
  <2>2. h[n] = g[n] /\ g[n] \in Seq(S)
    BY <1>1, <1>2, <2>0, <2>1, JoinsAgree
  <2>3. h[n + 1] = h[n] \o tt[n + 1]
    BY <1>2, <2>0 DEF Joins
  <2> QED
    BY <1>1, <1>2, <2>1, <2>2, <2>3 DEF tt
<1> QED
  BY <1>3, <1>4

LEMMA JoinedAtEnd ==
  ASSUME NEW S, NEW p \in Seq(S), NEW l \in Seq(S), NEW x \in Seq(S),
         NEW a, NEW b, a = p \o l, b = p \o (l \o x)
  PROVE  b = a \o x
OBVIOUS

LEMMA FlattenLast ==
  ASSUME NEW S, NEW ss \in Seq(Seq(S)), NEW l \in Seq(S), NEW x \in Seq(S)
  PROVE  FlattenSeq(Append(ss, l \o x)) = FlattenSeq(Append(ss, l)) \o x
<1>1. l \o x \in Seq(S)
  OBVIOUS
<1>2. FlattenSeq(ss) \in Seq(S) /\ FlattenSeq(Append(ss, l)) = FlattenSeq(ss) \o l
  BY FlattenAppend
<1>3. FlattenSeq(Append(ss, l \o x)) = FlattenSeq(ss) \o (l \o x)
  BY <1>1, FlattenAppend
<1> QED
  BY SMTT(30), <1>2, <1>3, JoinedAtEnd

(* The last sequence grows: the whole grows. *)
(* tt is ss with x joined to its last sequence. *)
Grows(ss, tt, x) ==
  /\ ss # <<>> /\ Len(tt) = Len(ss)
  /\ \A i \in 1 .. Len(ss) - 1 : tt[i] = ss[i]
  /\ tt[Len(ss)] = ss[Len(ss)] \o x

LEMMA FlattenGrows ==
  ASSUME NEW S, NEW ss \in Seq(Seq(S)), NEW tt \in Seq(Seq(S)), NEW x \in Seq(S), Grows(ss, tt, x)
  PROVE  FlattenSeq(tt) = FlattenSeq(ss) \o x
<1>1. \E f \in Seq(Seq(S)), l \in Seq(S) : ss = Append(f, l) /\ tt = Append(f, l \o x)
  <2>0. PICK n \in Nat : n = Len(ss) /\ n >= 1
    BY DEF Grows
  <2>1. PICK l \in Seq(S) : l = ss[n]
    BY <2>0
  <2>2. PICK f \in Seq(Seq(S)) : Len(f) = n - 1 /\ \A i \in 1 .. n - 1 : f[i] = ss[i]
    <3>1. /\ SubSeq(ss, 1, n - 1) \in Seq(Seq(S)) /\ Len(SubSeq(ss, 1, n - 1)) = n - 1
          /\ \A i \in 1 .. n - 1 : SubSeq(ss, 1, n - 1)[i] = ss[i]
      BY <2>0
    <3> QED
      BY <3>1
  <2>3. ss = Append(f, l)
    <3>1. Append(f, l) \in Seq(Seq(S)) /\ Len(Append(f, l)) = n
      BY <2>0, <2>1, <2>2
    <3>2. \A i \in 1 .. n : Append(f, l)[i] = ss[i]
      BY <2>0, <2>1, <2>2
    <3> QED
      BY <2>0, <3>1, <3>2, SeqEqual
  <2>4. PICK a \in Seq(Seq(S)) : a = Append(f, l \o x)
    <3>1. l \o x \in Seq(S)
      OBVIOUS
    <3>2. Append(f, l \o x) \in Seq(Seq(S))
      BY <3>1
    <3> QED
      BY <3>2
  <2>5. tt = a
    <3>1. /\ Len(a) = n /\ a[n] = l \o x
          /\ \A i \in 1 .. n - 1 : a[i] = f[i]
      BY <2>0, <2>1, <2>2, <2>4
    <3>2. tt[n] = l \o x /\ Len(tt) = n /\ \A i \in 1 .. n - 1 : tt[i] = ss[i]
      BY <2>0, <2>1 DEF Grows
    <3>3. ASSUME NEW i \in 1 .. n PROVE a[i] = tt[i]
      <4>1. CASE i = n
        BY <3>1, <3>2, <4>1
      <4>2. CASE i # n
        <5>1. i \in 1 .. n - 1
          BY <2>0, <4>2
        <5> QED
          BY <2>2, <3>1, <3>2, <5>1
      <4> QED
        BY <4>1, <4>2
    <3> QED
      BY <3>1, <3>2, <3>3, SeqEqual
  <2> QED
    BY <2>3, <2>4, <2>5
<1> QED
  BY <1>1, FlattenLast

-----------------------------------------------------------------------------
(* Folds.  A fold over a sequence of length n has a value for each set of  *)
(* places; those for the first k places are its steps.  `st[i]` is what    *)
(* the fold does at place i to a value of D.                               *)

Folds(it, base, st, n) ==
  it = [s \in SUBSET (1 .. n) |-> IF s = {} THEN base ELSE st[Max(s)][it[s \ {Max(s)}]]]

LEMMA MaxIs ==
  ASSUME NEW s, NEW m \in s, m \in Nat, \A x \in s : x \in Nat /\ x <= m
  PROVE  Max(s) = m
<1>1. m \in s /\ \A y \in s : m >= y
  OBVIOUS
<1>2. Max(s) \in s /\ \A y \in s : Max(s) >= y
  BY <1>1 DEF Max
<1>3. Max(s) \in Nat /\ Max(s) >= m /\ Max(s) <= m
  BY <1>2
<1> QED
  BY <1>3

(* It is one over the first k places, with values in D. *)
FoldTo(it, base, st, k, D) ==
  /\ it \in [SUBSET (1 .. k) -> D] /\ Folds(it, base, st, k)
  /\ \A s \in SUBSET (1 .. k) : s # {} => Max(s) \in 1 .. k

LEMMA FoldsExist ==
  ASSUME NEW n \in Nat, NEW D, NEW base \in D, NEW st \in [1 .. n -> [D -> D]]
  PROVE  \E it : FoldTo(it, base, st, n, D)
<1> DEFINE S == {k \in Nat : k <= n => \E it : FoldTo(it, base, st, k, D)}
<1>1. 0 \in S
  <2> DEFINE it == [s \in SUBSET (1 .. 0) |-> base]
  <2>1. \A s \in SUBSET (1 .. 0) : s = {}
    OBVIOUS
  <2>2. it \in [SUBSET (1 .. 0) -> D]
    OBVIOUS
  <2>3. Folds(it, base, st, 0)
    BY <2>1 DEF Folds
  <2>4. FoldTo(it, base, st, 0, D)
    BY <2>1, <2>2, <2>3 DEF FoldTo
  <2> QED
    BY <2>4
<1>2. ASSUME NEW k \in Nat, k \in S PROVE k + 1 \in S
  <2> SUFFICES ASSUME k + 1 <= n PROVE \E it : FoldTo(it, base, st, k + 1, D)
    OBVIOUS
  <2>0. k <= n
    OBVIOUS
  <2>1. PICK it : FoldTo(it, base, st, k, D)
    BY <1>2, <2>0
  <2>2. PICK m \in 1 .. n : m = k + 1 /\ m \notin 1 .. k /\ 1 .. k \subseteq 1 .. m
    OBVIOUS
  <2> DEFINE h == [s \in SUBSET (1 .. m) |-> IF m \in s THEN st[m][it[s \ {m}]] ELSE it[s]]
  <2>3. ASSUME NEW s \in SUBSET (1 .. m), m \in s
        PROVE  /\ Max(s) = m /\ s \ {m} \in SUBSET (1 .. k)
               /\ h[s \ {m}] = it[s \ {m}] /\ h[s] = st[m][h[s \ {m}]] /\ h[s] \in D
    <3>1. Max(s) = m
      <4>1. m \in Nat /\ \A x \in 1 .. m : x \in Nat /\ x <= m
        OBVIOUS
      <4>2. s \subseteq 1 .. m
        OBVIOUS
      <4>3. \A x \in s : x \in Nat /\ x <= m
        BY <4>1, <4>2
      <4> QED
        BY <2>3, <4>1, <4>3, MaxIs
    <3>2. s \ {m} \in SUBSET (1 .. k)
      BY <2>2
    <3>3. s \ {m} \in SUBSET (1 .. m) /\ m \notin s \ {m}
      OBVIOUS
    <3>4. h[s \ {m}] = it[s \ {m}] /\ h[s] = st[m][it[s \ {m}]]
      BY <2>3, <3>3
    <3>5. it[s \ {m}] \in D
      BY <2>1, <3>2 DEF FoldTo
    <3> HIDE DEF h
    <3>6. st[m][it[s \ {m}]] \in D
      BY <2>2, <3>5
    <3> QED
      BY <3>1, <3>2, <3>4, <3>6
  <2>4. ASSUME NEW s \in SUBSET (1 .. m), m \notin s
        PROVE  /\ h[s] = it[s] /\ s \in SUBSET (1 .. k) /\ h[s] \in D
               /\ s = {} => h[s] = base
               /\ s # {} => Max(s) \in 1 .. m /\ h[s] = st[Max(s)][h[s \ {Max(s)}]]
    <3>1. s \in SUBSET (1 .. k)
      BY <2>2, <2>4
    <3>2. h[s] = it[s] /\ it[s] \in D
      BY <2>1, <2>4, <3>1 DEF FoldTo
    <3>3. s \ {Max(s)} \in SUBSET (1 .. m) /\ m \notin s \ {Max(s)}
      BY <2>4
    <3>4. h[s \ {Max(s)}] = it[s \ {Max(s)}]
      BY <3>3
    <3>5. it[s] = IF s = {} THEN base ELSE st[Max(s)][it[s \ {Max(s)}]]
      BY <2>1, <3>1, Zenon DEF FoldTo, Folds
    <3>6. s # {} => Max(s) \in 1 .. m
      BY <2>1, <2>2, <3>1 DEF FoldTo
    <3> HIDE DEF h
    <3> QED
      BY <3>1, <3>2, <3>4, <3>5, <3>6
  <2>5. h = [s \in SUBSET (1 .. m) |-> h[s]]
    OBVIOUS
  <2> HIDE DEF h
  <2>6. \A s \in SUBSET (1 .. m) : h[s] \in D
    BY <2>3, <2>4
  <2>7. h \in [SUBSET (1 .. m) -> D]
    BY <2>5, <2>6
  <2>8. \A s \in SUBSET (1 .. m) : h[s] = IF s = {} THEN base ELSE st[Max(s)][h[s \ {Max(s)}]]
    BY <2>3, <2>4
  <2>9. Folds(h, base, st, m)
    BY <2>5, <2>8 DEF Folds
  <2>10. \A s \in SUBSET (1 .. m) : s # {} => Max(s) \in 1 .. m
    BY <2>3, <2>4
  <2> QED
    BY <2>2, <2>7, <2>9, <2>10 DEF FoldTo
<1>3. n \in S
  <2> HIDE DEF S
  <2>1. Nat \subseteq S
    BY <1>1, <1>2, Induction
  <2> QED
    BY <2>1
<1> QED
  BY <1>3

(* The steps of a fold, whatever it is for other sets. *)
Steps(g, base, st, n, D) ==
  g \in [0 .. n -> D] /\ g[0] = base /\ \A k \in 1 .. n : g[k] = st[k][g[k - 1]]

(* What is known of a fold from its definition: an item more is one step   *)
(* more, as long as the state is one the steps are for.                    *)
Iterates(it, base, st, n, D) ==
  /\ it[{}] = base
  /\ \A s \in SUBSET (1 .. n) :
       s # {} /\ Max(s) \in 1 .. n /\ it[s \ {Max(s)}] \in D
         => it[s] = st[Max(s)][it[s \ {Max(s)}]]

LEMMA FoldSteps ==
  ASSUME NEW n \in Nat, NEW D, NEW base \in D, NEW st \in [1 .. n -> [D -> D]], NEW it,
         Iterates(it, base, st, n, D)
  PROVE  \E g : Steps(g, base, st, n, D) /\ g[n] = it[1 .. n]
<1> DEFINE g == [k \in 0 .. n |-> it[1 .. k]]
           S == {k \in Nat : k <= n => g[k] \in D /\ (k # 0 => g[k] = st[k][g[k - 1]])}
<1>1. 0 \in S
  <2>1. 1 .. 0 = {} /\ 0 \in 0 .. n
    OBVIOUS
  <2> QED
    BY <2>1 DEF Iterates
<1>2. ASSUME NEW k \in Nat, k \in S PROVE k + 1 \in S
  <2> SUFFICES ASSUME k + 1 <= n PROVE g[k + 1] \in D /\ g[k + 1] = st[k + 1][g[k]]
    OBVIOUS
  <2>1. PICK m \in 1 .. n : m = k + 1
    OBVIOUS
  <2>2. Max(1 .. m) = m
    <3>1. m \in 1 .. m /\ m \in Nat /\ \A x \in 1 .. m : x \in Nat /\ x <= m
      OBVIOUS
    <3> QED
      BY <3>1, MaxIs
  <2>3. (1 .. m) \ {m} = 1 .. k /\ 1 .. m # {} /\ 1 .. m \in SUBSET (1 .. n)
    <3>1. (1 .. m) \ {m} = 1 .. k
      BY <2>1
    <3>2. m \in 1 .. m /\ 1 .. m \subseteq 1 .. n
      BY <2>1
    <3> QED
      BY <3>1, <3>2
  <2>4. g[k] = it[1 .. k] /\ g[m] = it[1 .. m] /\ g[k] \in D
    BY <1>2, <2>1
  <2> HIDE DEF g
  <2>5. it[1 .. m] = st[m][it[1 .. k]]
    BY <2>1, <2>2, <2>3, <2>4 DEF Iterates
  <2>6. st[m][g[k]] \in D
    BY <2>1, <2>4
  <2> QED
    BY <2>1, <2>4, <2>5, <2>6
<1>3. Nat \subseteq S
  <2> HIDE DEF S
  <2> QED
    BY <1>1, <1>2, Induction
<1>4. \A k \in 0 .. n : g[k] \in D /\ (k # 0 => g[k] = st[k][g[k - 1]])
  <2> HIDE DEF g
  <2> QED
    BY <1>3
<1>5. g = [k \in 0 .. n |-> g[k]] /\ g[n] = it[1 .. n] /\ g[0] = base
  <2>1. 1 .. 0 = {} /\ 0 \in 0 .. n /\ n \in 0 .. n
    OBVIOUS
  <2> QED
    BY <2>1 DEF Iterates
<1> HIDE DEF g
<1>6. g \in [0 .. n -> D]
  BY <1>4, <1>5
<1>7. ASSUME NEW k \in 1 .. n PROVE g[k] = st[k][g[k - 1]]
  <2>1. k \in 0 .. n /\ k # 0
    OBVIOUS
  <2> QED
    BY <1>4, <2>1
<1> QED
  BY <1>5, <1>6, <1>7 DEF Steps

-----------------------------------------------------------------------------
(* The frames of one stream. *)

(* The elementary streams of the frames of pid are made of elements of S. *)
Carries(segment, pid, S) ==
  \A j \in 1 .. Len(segment.frames) :
    segment.frames[j].pid = pid => segment.frames[j].es \in Seq(S)

(* What FramesIn joins. *)
Streams(segment, pid) ==
  [ j \in 1 .. Len(segment.frames) |->
      IF segment.frames[j].pid = pid THEN segment.frames[j].es ELSE <<>> ]

LEMMA StreamsType ==
  ASSUME NEW P, NEW s, s.frames \in Seq(P), NEW pid, NEW S, Carries(s, pid, S)
  PROVE  /\ Streams(s, pid) \in Seq(Seq(S)) /\ Len(Streams(s, pid)) = Len(s.frames)
         /\ FramesIn(s, pid) = FlattenSeq(Streams(s, pid)) /\ FramesIn(s, pid) \in Seq(S)
<1>1. Len(s.frames) \in Nat /\ <<>> \in Seq(S)
  OBVIOUS
<1>2. Streams(s, pid) \in [1 .. Len(s.frames) -> Seq(S)]
  BY <1>1 DEF Streams, Carries
<1>3. Streams(s, pid) \in Seq(Seq(S)) /\ Len(Streams(s, pid)) = Len(s.frames)
  BY <1>1, <1>2, FunctionIsSeq
<1>4. FramesIn(s, pid) = FlattenSeq(Streams(s, pid))
  BY DEF FramesIn, Streams
<1>5. FlattenSeq(Streams(s, pid)) \in Seq(S)
  BY <1>1, <1>3, FlattenAppend
<1> QED
  BY <1>3, <1>4, <1>5

LEMMA FramesInEmpty ==
  ASSUME NEW s, s.frames = <<>>, NEW pid
  PROVE  FramesIn(s, pid) = <<>>
<1>1. Len(s.frames) = 0 /\ 1 .. 0 = {}
  OBVIOUS
<1>2. [ j \in 1 .. Len(s.frames) |->
          IF s.frames[j].pid = pid THEN s.frames[j].es ELSE <<>> ] = <<>>
  BY <1>1
<1> QED
  BY <1>2, FlattenEmpty DEF FramesIn

(* A frame written to a segment. *)
LEMMA FramesAppend ==
  ASSUME NEW P, NEW s, s.frames \in Seq(P), NEW pes \in P, NEW t, t.frames = Append(s.frames, pes),
         NEW pid, NEW S, Carries(s, pid, S), pes.pid = pid => pes.es \in Seq(S)
  PROVE  /\ Carries(t, pid, S)
         /\ FramesIn(s, pid) \in Seq(S)
         /\ FramesIn(t, pid) = IF pes.pid = pid THEN FramesIn(s, pid) \o pes.es
                                                ELSE FramesIn(s, pid)
<1> DEFINE n == Len(s.frames)
           x == IF pes.pid = pid THEN pes.es ELSE <<>>
<1>1. /\ n \in Nat /\ t.frames \in Seq(P) /\ Len(t.frames) = n + 1
      /\ \A j \in 1 .. n : t.frames[j] = s.frames[j]
      /\ t.frames[n + 1] = pes
  OBVIOUS
<1>2. x \in Seq(S)
  OBVIOUS
<1>3. Carries(t, pid, S)
  <2> SUFFICES ASSUME NEW j \in 1 .. n + 1, t.frames[j].pid = pid
               PROVE  t.frames[j].es \in Seq(S)
    BY <1>1 DEF Carries
  <2>1. CASE j = n + 1
    BY <1>1, <2>1
  <2>2. CASE j # n + 1
    BY <1>1, <2>2 DEF Carries
  <2> QED
    BY <2>1, <2>2
<1>4. /\ Streams(s, pid) \in Seq(Seq(S)) /\ Len(Streams(s, pid)) = n
      /\ FramesIn(s, pid) = FlattenSeq(Streams(s, pid)) /\ FramesIn(s, pid) \in Seq(S)
  BY StreamsType
<1>5. /\ Streams(t, pid) \in Seq(Seq(S)) /\ Len(Streams(t, pid)) = n + 1
      /\ FramesIn(t, pid) = FlattenSeq(Streams(t, pid))
  BY <1>1, <1>3, StreamsType
<1>6. Streams(t, pid) = Append(Streams(s, pid), x)
  <2> DEFINE a == Append(Streams(s, pid), x)
  <2>1. /\ a \in Seq(Seq(S)) /\ Len(a) = n + 1
        /\ \A j \in 1 .. n : a[j] = Streams(s, pid)[j]
        /\ a[n + 1] = x
    BY <1>2, <1>4, <1>1, AppendProperties
  <2>2. ASSUME NEW j \in 1 .. n + 1 PROVE Streams(t, pid)[j] = a[j]
    <3>1. CASE j = n + 1
      BY <1>1, <2>1, <3>1 DEF Streams
    <3>2. CASE j # n + 1
      <4>1. j \in 1 .. n
        BY <1>1, <3>2
      <4>2. Streams(s, pid)[j] = IF s.frames[j].pid = pid THEN s.frames[j].es ELSE <<>>
        BY <4>1 DEF Streams
      <4>3. Streams(t, pid)[j] = IF t.frames[j].pid = pid THEN t.frames[j].es ELSE <<>>
        BY <1>1 DEF Streams
      <4> HIDE DEF a
      <4> QED
        BY <1>1, <2>1, <4>1, <4>2, <4>3
    <3> QED
      BY <3>1, <3>2
  <2> HIDE DEF a
  <2>3. Streams(t, pid) = a
    BY <1>5, <2>1, <2>2, SeqEqual
  <2> QED
    BY <2>3 DEF a
<1>7. FramesIn(t, pid) = FramesIn(s, pid) \o x
  BY <1>2, <1>4, <1>5, <1>6, FlattenAppend
<1>8. FramesIn(s, pid) \o <<>> = FramesIn(s, pid)
  BY <1>4, ConcatEmptySeq
<1> QED
  BY <1>3, <1>4, <1>7, <1>8

-----------------------------------------------------------------------------
(* All segments, and the audio in all of them. *)

SegmentSeq(N, P) == Seq([name : N, frames : Seq(P)])

(* What segments become when a frame is written into the last one. *)
WithFrame(ss, pes) == [ss EXCEPT ![Len(ss)].frames = Append(@, pes)]

LEMMA SegmentsGrow ==
  ASSUME NEW N, NEW M, N \subseteq M, NEW P, NEW Q, P \subseteq Q, NEW ss \in SegmentSeq(N, P)
  PROVE  ss \in SegmentSeq(M, Q)
<1>1. Len(ss) \in Nat /\ \A i \in 1 .. Len(ss) : ss[i] \in [name : N, frames : Seq(P)]
  BY ElementOfSeq, LenProperties DEF SegmentSeq
<1>2. ASSUME NEW f \in Seq(P) PROVE f \in Seq(Q)
  <2>1. f \in [1 .. Len(f) -> P] /\ Len(f) \in Nat
    BY LenProperties
  <2>2. f \in [1 .. Len(f) -> Q]
    BY <2>1
  <2> QED
    BY <2>1, <2>2, FunctionIsSeq
<1>3. ss \in [1 .. Len(ss) -> [name : M, frames : Seq(Q)]]
  <2>1. ASSUME NEW i \in 1 .. Len(ss) PROVE ss[i] \in [name : M, frames : Seq(Q)]
    BY <1>1, <1>2
  <2>2. ss \in [1 .. Len(ss) -> [name : N, frames : Seq(P)]]
    BY LenProperties DEF SegmentSeq
  <2> QED
    BY <2>1, <2>2
<1> QED
  BY <1>1, <1>3, FunctionIsSeq DEF SegmentSeq

LEMMA FrameWritten ==
  ASSUME NEW N, NEW P, NEW ss \in SegmentSeq(N, P), ss # <<>>, NEW pes \in P
  PROVE  LET n  == Len(ss)
             tt == WithFrame(ss, pes)
         IN  /\ n \in Nat /\ n \in 1 .. n /\ tt \in SegmentSeq(N, P) /\ Len(tt) = n /\ tt # <<>>
             /\ \A i \in 1 .. n - 1 : tt[i] = ss[i]
             /\ ss[n].frames \in Seq(P) /\ tt[n].frames = Append(ss[n].frames, pes)
             /\ tt[n].name = ss[n].name
<1> DEFINE T  == [name : N, frames : Seq(P)]
           n  == Len(ss)
           x  == [ss[n] EXCEPT !.frames = Append(@, pes)]
           tt == WithFrame(ss, pes)
<1>1. n \in Nat /\ n \in 1 .. n /\ ss \in Seq(T)
  <2>1. ASSUME NEW s \in Seq(T), s # <<>> PROVE Len(s) \in Nat /\ Len(s) \in 1 .. Len(s)
    BY <2>1
  <2> QED
    BY <2>1 DEF SegmentSeq
<1>2. ss[n] \in T
  BY <1>1, ElementOfSeq
<1>3. Append(ss[n].frames, pes) \in Seq(P) /\ ss[n].frames \in Seq(P)
  BY <1>2
<1>4. x \in T /\ x.frames = Append(ss[n].frames, pes) /\ x.name = ss[n].name
  BY <1>2, <1>3
<1>5. tt = [ss EXCEPT ![n] = x]
  BY DEF WithFrame
<1> HIDE DEF T, x, n, tt
<1>6. tt \in Seq(T) /\ Len(tt) = n /\ tt[n] = x /\ \A i \in 1 .. n - 1 : tt[i] = ss[i]
  <2>1. ASSUME NEW s \in Seq(T), NEW i \in 1 .. Len(s), NEW e \in T
        PROVE  /\ [s EXCEPT ![i] = e] \in Seq(T) /\ Len([s EXCEPT ![i] = e]) = Len(s)
               /\ [s EXCEPT ![i] = e][i] = e
               /\ \A j \in 1 .. Len(s) : j # i => [s EXCEPT ![i] = e][j] = s[j]
    OBVIOUS
  <2>2. /\ [ss EXCEPT ![n] = x] \in Seq(T) /\ Len([ss EXCEPT ![n] = x]) = Len(ss)
        /\ [ss EXCEPT ![n] = x][n] = x
        /\ \A j \in 1 .. Len(ss) : j # n => [ss EXCEPT ![n] = x][j] = ss[j]
    BY <1>1, <1>4, <2>1 DEF n
  <2>3. \A i \in 1 .. n - 1 : i \in 1 .. Len(ss) /\ i # n
    BY <1>1 DEF n
  <2> QED
    BY <1>5, <2>2, <2>3, Zenon DEF n
<1>7. tt # <<>>
  BY <1>1, <1>6
<1> QED
  BY <1>1, <1>3, <1>4, <1>6, <1>7 DEF n, tt, T, SegmentSeq

(* c is a with b joined to it. *)
IsJoin(c, a, b) == c = a \o b

LEMMA GrowsJoined ==
  ASSUME NEW S, NEW ss \in Seq(Seq(S)), NEW tt \in Seq(Seq(S)), NEW x \in Seq(S), Grows(ss, tt, x)
  PROVE  IsJoin(FlattenSeq(tt), FlattenSeq(ss), x)
BY FlattenGrows DEF IsJoin

LEMMA FramesJoined ==
  ASSUME NEW P, NEW s, s.frames \in Seq(P), NEW pes \in P, NEW t, t.frames = Append(s.frames, pes),
         NEW S, Carries(s, AudioPid, S), NEW x \in Seq(S),
         x = IF pes.pid = AudioPid THEN pes.es ELSE <<>>
  PROVE  /\ Carries(t, AudioPid, S) /\ FramesIn(s, AudioPid) \in Seq(S)
         /\ IsJoin(FramesIn(t, AudioPid), FramesIn(s, AudioPid), x)
<1>1. pes.pid = AudioPid => pes.es \in Seq(S)
  OBVIOUS
<1>2. /\ Carries(t, AudioPid, S) /\ FramesIn(s, AudioPid) \in Seq(S)
      /\ FramesIn(t, AudioPid) = IF pes.pid = AudioPid THEN FramesIn(s, AudioPid) \o pes.es
                                                       ELSE FramesIn(s, AudioPid)
  BY <1>1, FramesAppend
<1>3. FramesIn(s, AudioPid) \o <<>> = FramesIn(s, AudioPid)
  BY <1>2, ConcatEmptySeq
<1> QED
  BY <1>2, <1>3 DEF IsJoin

AllAudio(ss) == FlattenSeq([i \in 1 .. Len(ss) |-> FramesIn(ss[i], AudioPid)])

(* The audio in the segments is made of elements of S. *)
Audible(ss, S) ==
  \E N, P : ss \in SegmentSeq(N, P) /\ \A i \in 1 .. Len(ss) : Carries(ss[i], AudioPid, S)

(* The audio, segment by segment. *)
LEMMA AudioOfEach ==
  ASSUME NEW S, NEW ss, Audible(ss, S)
  PROVE  LET each == [i \in 1 .. Len(ss) |-> FramesIn(ss[i], AudioPid)]
         IN  /\ Len(ss) \in Nat /\ each \in Seq(Seq(S)) /\ Len(each) = Len(ss)
             /\ \A i \in 1 .. Len(ss) : each[i] = FramesIn(ss[i], AudioPid)
             /\ AllAudio(ss) = FlattenSeq(each) /\ AllAudio(ss) \in Seq(S)
<1> DEFINE each == [i \in 1 .. Len(ss) |-> FramesIn(ss[i], AudioPid)]
<1>1. PICK N, P : ss \in SegmentSeq(N, P) /\ \A i \in 1 .. Len(ss) : Carries(ss[i], AudioPid, S)
  BY DEF Audible
<1>2. Len(ss) \in Nat
  BY <1>1, LenProperties DEF SegmentSeq
<1>3. ASSUME NEW i \in 1 .. Len(ss) PROVE FramesIn(ss[i], AudioPid) \in Seq(S)
  <2>1. ss[i] \in [name : N, frames : Seq(P)]
    BY <1>1, ElementOfSeq DEF SegmentSeq
  <2>2. PICK s : s = ss[i] /\ s.frames \in Seq(P) /\ Carries(s, AudioPid, S)
    BY <1>1, <2>1
  <2>3. FramesIn(s, AudioPid) \in Seq(S)
    BY <2>2, StreamsType
  <2> QED
    BY <2>2, <2>3
<1>4. each \in [1 .. Len(ss) -> Seq(S)]
  BY <1>3
<1>5. each \in Seq(Seq(S)) /\ Len(each) = Len(ss)
  <2> HIDE DEF each
  <2> QED
    BY <1>2, <1>4, FunctionIsSeq
<1>6. AllAudio(ss) = FlattenSeq(each)
  BY DEF AllAudio
<1>7. \A i \in 1 .. Len(ss) : each[i] = FramesIn(ss[i], AudioPid)
  OBVIOUS
<1> HIDE DEF each
<1>8. FlattenSeq(each) \in Seq(S)
  <2>1. <<>> \in Seq(S)
    OBVIOUS
  <2> QED
    BY <1>5, <2>1, FlattenAppend
<1> QED
  BY <1>2, <1>5, <1>6, <1>7, <1>8 DEF each

(* A frame written into the last segment. *)
LEMMA AudiblePut ==
  ASSUME NEW S, NEW ss, Audible(ss, S), ss # <<>>,
         NEW pes, pes.pid = AudioPid => pes.es \in Seq(S)
  PROVE  LET tt == WithFrame(ss, pes)
         IN  /\ Audible(tt, S) /\ tt # <<>> /\ AllAudio(ss) \in Seq(S)
             /\ AllAudio(tt) = IF pes.pid = AudioPid THEN AllAudio(ss) \o pes.es ELSE AllAudio(ss)
<1> DEFINE n  == Len(ss)
           tt == WithFrame(ss, pes)
           before == [i \in 1 .. Len(ss) |-> FramesIn(ss[i], AudioPid)]
           after  == [i \in 1 .. Len(tt) |-> FramesIn(tt[i], AudioPid)]
           x == IF pes.pid = AudioPid THEN pes.es ELSE <<>>
<1>1. PICK N, P : ss \in SegmentSeq(N, P) /\ (\A i \in 1 .. Len(ss) : Carries(ss[i], AudioPid, S)) /\ pes \in P
  <2>1. PICK N, Q : ss \in SegmentSeq(N, Q) /\ \A i \in 1 .. Len(ss) : Carries(ss[i], AudioPid, S)
    BY DEF Audible
  <2>2. Q \subseteq Q \cup {pes} /\ pes \in Q \cup {pes}
    OBVIOUS
  <2> QED
    BY <2>1, <2>2, SegmentsGrow
<1>2. /\ n \in Nat /\ n \in 1 .. n /\ tt \in SegmentSeq(N, P) /\ Len(tt) = n /\ tt # <<>>
      /\ \A i \in 1 .. n - 1 : tt[i] = ss[i]
      /\ ss[n].frames \in Seq(P) /\ tt[n].frames = Append(ss[n].frames, pes)
  BY <1>1, FrameWritten
<1> HIDE DEF tt
<1>3. x \in Seq(S)
  <2>1. <<>> \in Seq(S)
    OBVIOUS
  <2> QED
    BY <2>1
<1>4. /\ Carries(tt[n], AudioPid, S) /\ FramesIn(ss[n], AudioPid) \in Seq(S)
      /\ FramesIn(tt[n], AudioPid) = FramesIn(ss[n], AudioPid) \o x
  <2>1. PICK s : s = ss[n] /\ Carries(s, AudioPid, S)
    BY <1>1, <1>2
  <2>2. PICK t : t = tt[n]
    OBVIOUS
  <2>3. s.frames \in Seq(P) /\ t.frames = Append(s.frames, pes)
    BY <1>2, <2>1, <2>2
  <2>4. PICK y \in Seq(S) : y = x
    BY <1>3
  <2>5. y = IF pes.pid = AudioPid THEN pes.es ELSE <<>>
    BY <2>4
  <2>6. /\ Carries(t, AudioPid, S) /\ FramesIn(s, AudioPid) \in Seq(S)
        /\ IsJoin(FramesIn(t, AudioPid), FramesIn(s, AudioPid), y)
    BY <1>1, <2>1, <2>3, <2>5, FramesJoined, Zenon
  <2> HIDE DEF x
  <2> QED
    BY <2>1, <2>2, <2>4, <2>6 DEF IsJoin
<1> HIDE DEF x
<1>5. Audible(tt, S)
  <2>1. ASSUME NEW i \in 1 .. Len(tt) PROVE Carries(tt[i], AudioPid, S)
    <3>1. CASE i = n
      BY <1>4, <3>1
    <3>2. CASE i # n
      <4>1. i \in 1 .. n - 1 /\ i \in 1 .. Len(ss)
        BY <1>2, <3>2
      <4>2. tt[i] = ss[i]
        BY <1>2, <4>1
      <4> QED
        BY <1>1, <4>1, <4>2
    <3> QED
      BY <3>1, <3>2
  <2> QED
    BY <1>2, <2>1 DEF Audible
<1>6. /\ before \in Seq(Seq(S)) /\ Len(before) = n
      /\ AllAudio(ss) = FlattenSeq(before) /\ AllAudio(ss) \in Seq(S)
      /\ \A i \in 1 .. n : before[i] = FramesIn(ss[i], AudioPid)
  BY AudioOfEach
<1>7. /\ after \in Seq(Seq(S)) /\ Len(after) = n /\ AllAudio(tt) = FlattenSeq(after)
      /\ \A i \in 1 .. n : after[i] = FramesIn(tt[i], AudioPid)
  BY <1>2, <1>5, AudioOfEach
<1> HIDE DEF before, after, n
<1>8. Grows(before, after, x)
  <2>1. n \in Nat /\ n >= 1 /\ before # <<>>
    BY <1>2, <1>6
  <2>2. \A i \in 1 .. n - 1 : after[i] = before[i]
    BY <1>2, <1>6, <1>7
  <2>3. after[n] = before[n] \o x
    BY <1>2, <1>4, <1>6, <1>7
  <2> QED
    BY <1>6, <1>7, <2>1, <2>2, <2>3 DEF Grows
<1>9. AllAudio(tt) = AllAudio(ss) \o x
  <2>1. IsJoin(FlattenSeq(after), FlattenSeq(before), x)
    BY <1>3, <1>6, <1>7, <1>8, GrowsJoined, Zenon
  <2> QED
    BY <1>6, <1>7, <2>1 DEF IsJoin
<1>10. AllAudio(ss) \o <<>> = AllAudio(ss)
  BY <1>6, ConcatEmptySeq
<1> QED
  BY <1>2, <1>5, <1>6, <1>9, <1>10 DEF x, tt

LEMMA AudioPut ==
  ASSUME NEW S, NEW ss, Audible(ss, S), ss # <<>>,
         NEW x \in Seq(S), NEW pes, pes.pid = AudioPid, pes.es = x, NEW tt, tt = WithFrame(ss, pes)
  PROVE  /\ Audible(tt, S) /\ tt # <<>> /\ AllAudio(ss) \in Seq(S)
         /\ IsJoin(AllAudio(tt), AllAudio(ss), x)
BY AudiblePut DEF IsJoin

LEMMA OtherPut ==
  ASSUME NEW S, NEW ss, Audible(ss, S), ss # <<>>,
         NEW pes, pes.pid # AudioPid, NEW tt, tt = WithFrame(ss, pes)
  PROVE  Audible(tt, S) /\ tt # <<>> /\ AllAudio(tt) = AllAudio(ss)
BY AudiblePut

(* A segment that nothing was written to yet. *)
LEMMA AudibleNew ==
  ASSUME NEW S, NEW ss, Audible(ss, S), NEW name
  PROVE  LET tt == Append(ss, [name |-> name, frames |-> <<>>])
         IN  /\ Audible(tt, S) /\ tt # <<>> /\ AllAudio(tt) = AllAudio(ss)
<1> DEFINE n  == Len(ss)
           s  == [name |-> name, frames |-> <<>>]
           tt == Append(ss, s)
           before == [i \in 1 .. Len(ss) |-> FramesIn(ss[i], AudioPid)]
           after  == [i \in 1 .. Len(tt) |-> FramesIn(tt[i], AudioPid)]
<1>1. PICK N, P : /\ ss \in SegmentSeq(N, P) /\ name \in N
                  /\ \A i \in 1 .. Len(ss) : Carries(ss[i], AudioPid, S)
  <2>1. PICK M, P : ss \in SegmentSeq(M, P) /\ \A i \in 1 .. Len(ss) : Carries(ss[i], AudioPid, S)
    BY DEF Audible
  <2>2. M \subseteq M \cup {name} /\ name \in M \cup {name} /\ P \subseteq P
    OBVIOUS
  <2> QED
    BY <2>1, <2>2, SegmentsGrow
<1>2. s \in [name : N, frames : Seq(P)] /\ s.frames = <<>> /\ Len(s.frames) = 0 /\ 1 .. Len(s.frames) = {}
  <2>1. <<>> \in Seq(P)
    OBVIOUS
  <2> QED
    BY <1>1, <2>1
<1> HIDE DEF s
<1>3. /\ n \in Nat /\ tt \in SegmentSeq(N, P) /\ Len(tt) = n + 1 /\ tt[n + 1] = s
      /\ \A i \in 1 .. n : tt[i] = ss[i]
  BY <1>1, <1>2, AppendProperties, LenProperties DEF SegmentSeq
<1>4. tt # <<>>
  BY <1>3
<1> HIDE DEF tt
<1>5. Audible(tt, S)
  <2>1. ASSUME NEW i \in 1 .. Len(tt) PROVE Carries(tt[i], AudioPid, S)
    <3>1. CASE i = n + 1
      BY <1>2, <1>3, <3>1 DEF Carries
    <3>2. CASE i # n + 1
      <4>1. i \in 1 .. n
        BY <1>3, <3>2
      <4> QED
        BY <1>1, <1>3, <4>1
    <3> QED
      BY <3>1, <3>2
  <2> QED
    BY <1>3, <2>1 DEF Audible
<1>6. FramesIn(s, AudioPid) = <<>>
  BY <1>2, FramesInEmpty
<1>7. /\ before \in Seq(Seq(S)) /\ Len(before) = n
      /\ AllAudio(ss) = FlattenSeq(before) /\ AllAudio(ss) \in Seq(S)
      /\ \A i \in 1 .. n : before[i] = FramesIn(ss[i], AudioPid)
  BY AudioOfEach
<1>8. /\ after \in Seq(Seq(S)) /\ Len(after) = n + 1 /\ AllAudio(tt) = FlattenSeq(after)
      /\ \A i \in 1 .. n + 1 : after[i] = FramesIn(tt[i], AudioPid)
  BY <1>3, <1>5, AudioOfEach
<1> HIDE DEF before, after, n
<1>9. after = Append(before, <<>>)
  <2> DEFINE b == Append(before, <<>>)
  <2>1. b \in Seq(Seq(S)) /\ Len(b) = n + 1 /\ b[n + 1] = <<>> /\ \A i \in 1 .. n : b[i] = before[i]
    <3>1. <<>> \in Seq(S)
      OBVIOUS
    <3> QED
      BY <1>7, <3>1, AppendProperties
  <2> HIDE DEF b
  <2>2. ASSUME NEW i \in 1 .. n + 1 PROVE after[i] = b[i]
    <3>1. CASE i = n + 1
      BY <1>3, <1>6, <1>8, <2>1, <3>1
    <3>2. CASE i # n + 1
      <4>1. i \in 1 .. n
        BY <1>3, <3>2
      <4> QED
        BY <1>3, <1>7, <1>8, <2>1, <4>1
    <3> QED
      BY <3>1, <3>2
  <2>3. after = b
    BY <1>3, <1>8, <2>1, <2>2, SeqEqual
  <2> QED
    BY <2>3 DEF b
<1>10. FlattenSeq(after) = FlattenSeq(before) \o <<>>
  <2>1. <<>> \in Seq(S)
    OBVIOUS
  <2> QED
    BY <1>7, <1>9, <2>1, FlattenAppend
<1>11. AllAudio(tt) = AllAudio(ss)
  BY <1>7, <1>8, <1>10, ConcatEmptySeq
<1> QED
  BY <1>4, <1>5, <1>11 DEF tt, s

LEMMA AudibleNone ==
  ASSUME NEW S
  PROVE  Audible(<<>>, S) /\ AllAudio(<<>>) = <<>>
<1>1. <<>> \in SegmentSeq({}, {}) /\ Len(<<>>) = 0 /\ 1 .. Len(<<>>) = {}
  BY DEF SegmentSeq
<1>2. [i \in 1 .. Len(<<>>) |-> FramesIn(<<>>[i], AudioPid)] = <<>>
  BY <1>1
<1>3. AllAudio(<<>>) = <<>>
  BY <1>2, FlattenEmpty DEF AllAudio
<1> QED
  BY <1>1, <1>3 DEF Audible

-----------------------------------------------------------------------------
(* The converter's writer: frames as its handlers give them, segments with *)
(* names.                                                                  *)
Frame == [ts : Nat, size : Nat] \cup [ts : Nat, size : Nat, key : {0, 1}]

Name == [key : Nat, ac : Nat, vc : Nat, base : Nat, pts : Nat, count : Nat]

NamesOf(c) == [i \in 1 .. Len(c.segments) |-> c.segments[i].name]

WithBuffer(c, cc, used, held) == [c EXCEPT !.audio_cc = cc, !.used = used, !.held = held]

LEMMA Appended ==
  ASSUME NEW T, NEW s \in Seq(T), NEW x \in T
  PROVE  /\ Append(s, x) \in Seq(T) /\ Append(s, x) # <<>> /\ Len(s) \in Nat
         /\ Len(Append(s, x)) = Len(s) + 1 /\ Append(s, x)[Len(s) + 1] = x
         /\ \A i \in 1 .. Len(s) : Append(s, x)[i] = s[i]
OBVIOUS

-----------------------------------------------------------------------------
(* The tracks of a stream's segments. *)
Track == [video : Seq(Frame), audio : Seq(Frame)]

EmptyTrack == [video |-> <<>>, audio |-> <<>>]

WithVideo(ts, f) == [ts EXCEPT ![Len(ts)].video = Append(@, f)]

WithAudio(ts, f) == [ts EXCEPT ![Len(ts)].audio = Append(@, f)]

(* The pictures in them. *)
VideosOf(ts) == FlattenSeq([i \in 1 .. Len(ts) |-> ts[i].video])

LEMMA TracksEqual ==
  ASSUME NEW s \in Seq(Track), NEW t \in Seq(Track), Len(s) = Len(t),
         \A i \in 1 .. Len(s) : s[i].video = t[i].video /\ s[i].audio = t[i].audio
  PROVE  s = t
<1>0. \A a, b \in Track : a.video = b.video /\ a.audio = b.audio => a = b
  BY DEF Track
<1>1. ASSUME NEW i \in 1 .. Len(s) PROVE s[i] = t[i]
  <2>1. s[i] \in Track /\ t[i] \in Track
    BY ElementOfSeq
  <2> QED
    BY <1>0, <2>1
<1> QED
  BY <1>1, SeqEqual

LEMMA TrackGrows ==
  ASSUME NEW l \in Track, NEW x \in Seq(Frame)
  PROVE  /\ [l EXCEPT !.video = x] \in Track /\ [l EXCEPT !.audio = x] \in Track
         /\ [l EXCEPT !.video = x].video = x /\ [l EXCEPT !.video = x].audio = l.audio
         /\ [l EXCEPT !.audio = x].audio = x /\ [l EXCEPT !.audio = x].video = l.video
BY DEF Track

Replaced(s, i, e) == [s EXCEPT ![i] = e]

LEMMA ReplacedType ==
  ASSUME NEW T, NEW s \in Seq(T), NEW i \in 1 .. Len(s), NEW e \in T
  PROVE  /\ Replaced(s, i, e) \in Seq(T) /\ Len(Replaced(s, i, e)) = Len(s)
         /\ Replaced(s, i, e)[i] = e
         /\ \A j \in 1 .. Len(s) : j # i => Replaced(s, i, e)[j] = s[j]
BY DEF Replaced

(* A frame at the end of the last track. *)
LEMMA WithVideoType ==
  ASSUME NEW ts \in Seq(Track), ts # <<>>, NEW f \in Frame
  PROVE  /\ Len(ts) \in Nat /\ Len(ts) \in 1 .. Len(ts)
         /\ WithVideo(ts, f) \in Seq(Track) /\ Len(WithVideo(ts, f)) = Len(ts)
         /\ \A i \in 1 .. Len(ts) :
              /\ WithVideo(ts, f)[i].video = IF i = Len(ts) THEN Append(ts[i].video, f) ELSE ts[i].video
              /\ WithVideo(ts, f)[i].audio = ts[i].audio
<1> DEFINE n == Len(ts)
<1>1. n \in Nat /\ n \in 1 .. n /\ DOMAIN ts = 1 .. n
  OBVIOUS
<1>2. PICK l \in Track : l = ts[n]
  BY <1>1, ElementOfSeq
<1>3. PICK x \in Seq(Frame) : x = Append(l.video, f)
  <2>1. l.video \in Seq(Frame)
    BY DEF Track
  <2>2. Append(l.video, f) \in Seq(Frame)
    BY <2>1
  <2> QED
    BY <2>2
<1>4. PICK m \in Track : m = [l EXCEPT !.video = x] /\ m.video = x /\ m.audio = l.audio
  BY TrackGrows
<1>5. WithVideo(ts, f) = Replaced(ts, n, m)
  <2>1. m = [ts[n] EXCEPT !.video = Append(ts[n].video, f)]
    BY <1>2, <1>3, <1>4
  <2> QED
    BY <2>1 DEF WithVideo, Replaced
<1>6. PICK tt : tt = Replaced(ts, n, m)
  OBVIOUS
<1>7. /\ tt \in Seq(Track) /\ Len(tt) = n /\ tt[n] = m
      /\ \A i \in 1 .. n : i # n => tt[i] = ts[i]
  <2>1. /\ Replaced(ts, n, m) \in Seq(Track) /\ Len(Replaced(ts, n, m)) = Len(ts)
        /\ Replaced(ts, n, m)[n] = m
        /\ \A i \in 1 .. Len(ts) : i # n => Replaced(ts, n, m)[i] = ts[i]
    <3>1. n \in 1 .. Len(ts) /\ m \in Track
      BY <1>1, <1>4
    <3> HIDE DEF n
    <3> QED
      BY <3>1, ReplacedType
  <2> QED
    BY <1>6, <2>1
<1>8. ASSUME NEW i \in 1 .. n
      PROVE  tt[i].video = (IF i = n THEN Append(ts[i].video, f) ELSE ts[i].video) /\ tt[i].audio = ts[i].audio
  <2>1. CASE i = n
    BY Zenon, <1>2, <1>3, <1>4, <1>7, <2>1
  <2>2. CASE i # n
    BY <1>7, <2>2
  <2> QED
    BY <2>1, <2>2
<1> QED
  BY Zenon, <1>1, <1>5, <1>6, <1>7, <1>8

LEMMA WithAudioType ==
  ASSUME NEW ts \in Seq(Track), ts # <<>>, NEW f \in Frame
  PROVE  /\ Len(ts) \in Nat /\ Len(ts) \in 1 .. Len(ts)
         /\ WithAudio(ts, f) \in Seq(Track) /\ Len(WithAudio(ts, f)) = Len(ts)
         /\ \A i \in 1 .. Len(ts) :
              /\ WithAudio(ts, f)[i].audio = IF i = Len(ts) THEN Append(ts[i].audio, f) ELSE ts[i].audio
              /\ WithAudio(ts, f)[i].video = ts[i].video
<1> DEFINE n == Len(ts)
<1>1. n \in Nat /\ n \in 1 .. n /\ DOMAIN ts = 1 .. n
  OBVIOUS
<1>2. PICK l \in Track : l = ts[n]
  BY <1>1, ElementOfSeq
<1>3. PICK x \in Seq(Frame) : x = Append(l.audio, f)
  <2>1. l.audio \in Seq(Frame)
    BY DEF Track
  <2>2. Append(l.audio, f) \in Seq(Frame)
    BY <2>1
  <2> QED
    BY <2>2
<1>4. PICK m \in Track : m = [l EXCEPT !.audio = x] /\ m.audio = x /\ m.video = l.video
  BY TrackGrows
<1>5. WithAudio(ts, f) = Replaced(ts, n, m)
  <2>1. m = [ts[n] EXCEPT !.audio = Append(ts[n].audio, f)]
    BY <1>2, <1>3, <1>4
  <2> QED
    BY <2>1 DEF WithAudio, Replaced
<1>6. PICK tt : tt = Replaced(ts, n, m)
  OBVIOUS
<1>7. /\ tt \in Seq(Track) /\ Len(tt) = n /\ tt[n] = m
      /\ \A i \in 1 .. n : i # n => tt[i] = ts[i]
  <2>1. /\ Replaced(ts, n, m) \in Seq(Track) /\ Len(Replaced(ts, n, m)) = Len(ts)
        /\ Replaced(ts, n, m)[n] = m
        /\ \A i \in 1 .. Len(ts) : i # n => Replaced(ts, n, m)[i] = ts[i]
    <3>1. n \in 1 .. Len(ts) /\ m \in Track
      BY <1>1, <1>4
    <3> HIDE DEF n
    <3> QED
      BY <3>1, ReplacedType
  <2> QED
    BY <1>6, <2>1
<1>8. ASSUME NEW i \in 1 .. n
      PROVE  tt[i].audio = (IF i = n THEN Append(ts[i].audio, f) ELSE ts[i].audio) /\ tt[i].video = ts[i].video
  <2>1. CASE i = n
    BY Zenon, <1>2, <1>3, <1>4, <1>7, <2>1
  <2>2. CASE i # n
    BY <1>7, <2>2
  <2> QED
    BY <2>1, <2>2
<1> QED
  BY Zenon, <1>1, <1>5, <1>6, <1>7, <1>8

LEMMA VideosType ==
  ASSUME NEW ts \in Seq(Track)
  PROVE  /\ [i \in 1 .. Len(ts) |-> ts[i].video] \in Seq(Seq(Frame))
         /\ Len([i \in 1 .. Len(ts) |-> ts[i].video]) = Len(ts)
<1>1. PICK n \in Nat : n = Len(ts)
  OBVIOUS
<1>2. ASSUME NEW i \in 1 .. n PROVE ts[i].video \in Seq(Frame)
  <2>1. ts[i] \in Track
    BY <1>1, ElementOfSeq
  <2> QED
    BY <2>1 DEF Track
<1>3. PICK f : f = [i \in 1 .. n |-> ts[i].video]
  OBVIOUS
<1>4. f \in [1 .. n -> Seq(Frame)]
  BY <1>2, <1>3
<1>5. f \in Seq(Seq(Frame)) /\ Len(f) = n
  BY <1>4, FunctionIsSeq
<1> QED
  BY <1>1, <1>3, <1>5

(* A new track has none yet. *)
LEMMA VideosOpen ==
  ASSUME NEW ts \in Seq(Track)
  PROVE  /\ Append(ts, EmptyTrack) \in Seq(Track) /\ Append(ts, EmptyTrack) # <<>>
         /\ VideosOf(ts) \in Seq(Frame) /\ VideosOf(Append(ts, EmptyTrack)) = VideosOf(ts)
<1>1. PICK n \in Nat : n = Len(ts)
  OBVIOUS
<1>14. <<>> \in Seq(Frame)
  OBVIOUS
<1>15. PICK x : x = EmptyTrack
  OBVIOUS
<1>2. x \in Track /\ x = EmptyTrack /\ x.video = <<>>
  BY <1>14, <1>15 DEF Track, EmptyTrack
<1>3. PICK tt : tt = Append(ts, x)
  OBVIOUS
<1>4. /\ tt \in Seq(Track) /\ tt # <<>> /\ Len(tt) = n + 1 /\ tt[n + 1] = x
      /\ \A i \in 1 .. n : tt[i] = ts[i]
  BY <1>1, <1>2, <1>3, Appended
<1>5. PICK f, g : f = [i \in 1 .. n |-> ts[i].video] /\ g = [i \in 1 .. n + 1 |-> tt[i].video]
  OBVIOUS
<1>6. f \in Seq(Seq(Frame)) /\ Len(f) = n /\ g \in Seq(Seq(Frame)) /\ Len(g) = n + 1
  BY <1>1, <1>4, <1>5, VideosType
<1>7. n + 1 \in 1 .. n + 1 /\ \A i \in 1 .. n : i \in 1 .. n + 1
  BY <1>1
<1>8. g[n + 1] = <<>> /\ \A i \in 1 .. n : g[i] = f[i]
  BY <1>2, <1>4, <1>5, <1>7
<1>16. PICK e : e = <<>>
  OBVIOUS
<1>9. e \in Seq(Frame) /\ e = <<>>
  BY <1>14, <1>16
<1>10. g = Append(f, e)
  <2>1. PICK h : h = Append(f, e)
    OBVIOUS
  <2>2. h \in Seq(Seq(Frame)) /\ Len(h) = n + 1 /\ h[n + 1] = e /\ \A i \in 1 .. n : h[i] = f[i]
    BY <1>6, <1>9, <2>1, Appended
  <2>3. ASSUME NEW i \in 1 .. Len(g) PROVE g[i] = h[i]
    <3>1. i = n + 1 \/ i \in 1 .. n
      BY <1>1, <1>6
    <3> QED
      BY <1>8, <1>9, <2>2, <3>1
  <2> QED
    BY <1>6, <2>1, <2>2, <2>3, SeqEqual
<1>11. FlattenSeq(g) = FlattenSeq(f) \o e /\ FlattenSeq(f) \in Seq(Frame)
  BY <1>6, <1>9, <1>10, FlattenAppend
<1>12. \A w \in Seq(Frame) : w \o <<>> = w
  OBVIOUS
<1>13. FlattenSeq(g) = FlattenSeq(f)
  BY <1>9, <1>11, <1>12
<1> QED
  BY <1>1, <1>2, <1>3, <1>4, <1>5, <1>11, <1>13 DEF VideosOf

LEMMA VideosKept ==
  ASSUME NEW ts \in Seq(Track), ts # <<>>, NEW a \in Frame
  PROVE  VideosOf(WithAudio(ts, a)) = VideosOf(ts)
<1>1. PICK n \in Nat : n = Len(ts)
  OBVIOUS
<1>2. PICK tt : tt = WithAudio(ts, a)
  OBVIOUS
<1>3. tt \in Seq(Track) /\ Len(tt) = n /\ \A i \in 1 .. n : tt[i].video = ts[i].video
  BY <1>1, <1>2, WithAudioType
<1>4. [i \in 1 .. n |-> tt[i].video] = [i \in 1 .. n |-> ts[i].video]
  BY <1>3
<1> QED
  BY <1>1, <1>2, <1>3, <1>4 DEF VideosOf

LEMMA VideosGrow ==
  ASSUME NEW ts \in Seq(Track), ts # <<>>, NEW v \in Frame
  PROVE  VideosOf(ts) \in Seq(Frame) /\ VideosOf(WithVideo(ts, v)) = VideosOf(ts) \o <<v>>
<1>1. PICK n \in Nat : n = Len(ts)
  OBVIOUS
<1>2. PICK tt : tt = WithVideo(ts, v)
  OBVIOUS
<1>3. /\ tt \in Seq(Track) /\ Len(tt) = n /\ n \in 1 .. n
      /\ \A i \in 1 .. n : tt[i].video = IF i = n THEN Append(ts[i].video, v) ELSE ts[i].video
  BY <1>1, <1>2, WithVideoType
<1>4. PICK f, g : f = [i \in 1 .. n |-> ts[i].video] /\ g = [i \in 1 .. n |-> tt[i].video]
  OBVIOUS
<1>5. f \in Seq(Seq(Frame)) /\ Len(f) = n /\ g \in Seq(Seq(Frame)) /\ Len(g) = n
  BY <1>1, <1>3, <1>4, VideosType
<1>6. f[n] \in Seq(Frame) /\ g[n] = Append(f[n], v)
  <2>1. f[n] \in Seq(Frame)
    BY <1>3, <1>5, ElementOfSeq
  <2> QED
    BY <1>3, <1>4, <2>1
<1>7. ASSUME NEW w \in Seq(Frame) PROVE Append(w, v) = w \o <<v>> /\ <<v>> \in Seq(Frame)
  OBVIOUS
<1>8. \A i \in 1 .. n - 1 : g[i] = f[i]
  BY <1>3, <1>4
<1>9. Grows(f, g, <<v>>)
  BY <1>3, <1>5, <1>6, <1>7, <1>8 DEF Grows
<1>10. FlattenSeq(g) = FlattenSeq(f) \o <<v>>
  BY <1>5, <1>6, <1>7, <1>9, FlattenGrows
<1>11. FlattenSeq(f) \in Seq(Frame)
  BY <1>5, <1>6, FlattenAppend
<1> QED
  BY <1>1, <1>2, <1>3, <1>4, <1>10, <1>11 DEF VideosOf

-----------------------------------------------------------------------------
(* Two writers that do the same, one with more segments before its own.    *)
(* The numbers a context begins with were options of a seek run, which may *)
(* be negative.                                                            *)
SignedPacket == [pid : {AudioPid, VideoPid}, dts : Int, cc : Int, n : Nat, es : Seq(Frame)]

SignedSegments == SegmentSeq(Name, SignedPacket)

SignedContext ==
  [ opened : {0, 1}, flag_m3u8 : {0, 1}, used : Nat, held : Seq(Frame),
    aframe_num : Nat, aframe_base : Int, aframe_pts : Int,
    audio_cc : Int, video_cc : Int, segments : SignedSegments ]

Fit(c) == c \in SignedContext /\ (c.opened = 1 => c.segments # <<>>)

(* The context c with the segments pre before its own. *)
Behind(pre, m, c) == [c EXCEPT !.segments = pre \o @, !.flag_m3u8 = m]

LEMMA SignedBasics ==
  ASSUME NEW ss \in SignedSegments
  PROVE  /\ Len(ss) \in Nat /\ ss \in Seq([name : Name, frames : Seq(SignedPacket)])
         /\ (ss # <<>> <=> Len(ss) > 0)
         /\ \A i \in 1 .. Len(ss) : ss[i].name \in Name /\ ss[i].frames \in Seq(SignedPacket)
<1> DEFINE T == [name : Name, frames : Seq(SignedPacket)]
<1>1. ss \in Seq(T)
  BY DEF SignedSegments, SegmentSeq
<1>2. ASSUME NEW i \in 1 .. Len(ss) PROVE ss[i] \in T
  BY <1>1, <1>2, ElementOfSeq
<1>3. ASSUME NEW U, NEW s \in Seq(U) PROVE Len(s) \in Nat /\ (s # <<>> <=> Len(s) > 0)
  OBVIOUS
<1>4. \A i \in 1 .. Len(ss) : ss[i].name \in Name /\ ss[i].frames \in Seq(SignedPacket)
  BY <1>2
<1> HIDE DEF T
<1> QED
  BY <1>1, <1>3, <1>4 DEF T

LEMMA BehindFits ==
  ASSUME NEW c, Fit(c), NEW pre \in SignedSegments, NEW m \in {0, 1}
  PROVE  LET b == Behind(pre, m, c)
         IN  /\ Fit(b) /\ b.segments = pre \o c.segments /\ b.flag_m3u8 = m
             /\ b.opened = c.opened /\ b.used = c.used /\ b.held = c.held /\ b.aframe_num = c.aframe_num
             /\ b.aframe_base = c.aframe_base /\ b.aframe_pts = c.aframe_pts
             /\ b.audio_cc = c.audio_cc /\ b.video_cc = c.video_cc
<1> DEFINE T == [name : Name, frames : Seq(SignedPacket)]
<1>1. c \in SignedContext /\ c.segments \in SignedSegments
  BY DEF Fit, SignedContext
<1>2. PICK ss : ss = pre \o c.segments
  OBVIOUS
<1>3. ss \in SignedSegments /\ (c.segments # <<>> => ss # <<>>)
  <2>1. pre \in Seq(T) /\ c.segments \in Seq(T)
    BY <1>1 DEF SignedSegments, SegmentSeq
  <2>2. ASSUME NEW U, NEW s \in Seq(U), NEW t \in Seq(U)
        PROVE  s \o t \in Seq(U) /\ (t # <<>> => s \o t # <<>>)
    BY ConcatProperties
  <2> HIDE DEF T
  <2>3. ss \in Seq(T) /\ (c.segments # <<>> => ss # <<>>)
    BY <1>2, <2>1, <2>2
  <2> QED
    BY <2>3 DEF T, SignedSegments, SegmentSeq
<1>4. PICK b : b = Behind(pre, m, c) /\ b = [c EXCEPT !.segments = ss, !.flag_m3u8 = m]
  BY <1>1, <1>2 DEF Behind, SignedContext
<1>5. /\ b \in SignedContext /\ b.segments = ss /\ b.flag_m3u8 = m
      /\ b.opened = c.opened /\ b.used = c.used /\ b.held = c.held /\ b.aframe_num = c.aframe_num
      /\ b.aframe_base = c.aframe_base /\ b.aframe_pts = c.aframe_pts
      /\ b.audio_cc = c.audio_cc /\ b.video_cc = c.video_cc
  BY <1>1, <1>3, <1>4 DEF SignedContext
<1> QED
  BY <1>2, <1>3, <1>4, <1>5 DEF Fit

(* A frame goes into the last segment, whatever is before. *)
LEMMA WrittenBehind ==
  ASSUME NEW pre \in SignedSegments, NEW ss \in SignedSegments, ss # <<>>, NEW pes \in SignedPacket
  PROVE  WithFrame(pre \o ss, pes) = pre \o WithFrame(ss, pes)
<1>1. PICK T : T = [name : Name, frames : Seq(SignedPacket)]
  OBVIOUS
<1>2. PICK tt : tt = pre \o ss
  OBVIOUS
<1>3. \A s : s \in SignedSegments <=> s \in Seq(T)
  BY <1>1 DEF SignedSegments, SegmentSeq
<1>4. PICK k \in Nat : k = Len(pre)
  BY SignedBasics
<1>5. PICK n \in Nat : n = Len(ss) /\ n > 0
  BY SignedBasics
<1>6. /\ tt \in Seq(T) /\ Len(tt) = k + n
      /\ \A i \in 1 .. k + n : tt[i] = IF i <= k THEN pre[i] ELSE ss[i - k]
  BY <1>2, <1>3, <1>4, <1>5, ConcatProperties
<1>7. tt \in SignedSegments /\ tt # <<>>
  BY <1>3, <1>5, <1>6, SignedBasics
<1>8. PICK u : u = WithFrame(ss, pes)
  OBVIOUS
<1>9. PICK v : v = WithFrame(tt, pes)
  OBVIOUS
<1>10. /\ u \in Seq(T) /\ Len(u) = n /\ \A i \in 1 .. n - 1 : u[i] = ss[i]
       /\ u[n].frames = Append(ss[n].frames, pes) /\ u[n].name = ss[n].name
  <2>1. ss \in SegmentSeq(Name, SignedPacket)
    BY DEF SignedSegments
  <2>2. /\ WithFrame(ss, pes) \in SegmentSeq(Name, SignedPacket) /\ Len(WithFrame(ss, pes)) = Len(ss)
        /\ \A i \in 1 .. Len(ss) - 1 : WithFrame(ss, pes)[i] = ss[i]
        /\ ss[Len(ss)].frames \in Seq(SignedPacket)
        /\ WithFrame(ss, pes)[Len(ss)].frames = Append(ss[Len(ss)].frames, pes)
        /\ WithFrame(ss, pes)[Len(ss)].name = ss[Len(ss)].name
    BY <2>1, FrameWritten
  <2> QED
    BY <1>3, <1>5, <1>8, <2>2 DEF SignedSegments
<1>11. /\ v \in Seq(T) /\ Len(v) = k + n /\ \A i \in 1 .. k + n - 1 : v[i] = tt[i]
       /\ v[k + n].frames = Append(tt[k + n].frames, pes) /\ v[k + n].name = tt[k + n].name
  <2>1. tt \in SegmentSeq(Name, SignedPacket)
    BY <1>7 DEF SignedSegments
  <2>2. /\ WithFrame(tt, pes) \in SegmentSeq(Name, SignedPacket) /\ Len(WithFrame(tt, pes)) = Len(tt)
        /\ \A i \in 1 .. Len(tt) - 1 : WithFrame(tt, pes)[i] = tt[i]
        /\ tt[Len(tt)].frames \in Seq(SignedPacket)
        /\ WithFrame(tt, pes)[Len(tt)].frames = Append(tt[Len(tt)].frames, pes)
        /\ WithFrame(tt, pes)[Len(tt)].name = tt[Len(tt)].name
    BY <1>7, <2>1, FrameWritten
  <2> QED
    BY <1>3, <1>6, <1>9, <2>2 DEF SignedSegments
<1>12. tt[k + n] = ss[n]
  <2>1. k + n \in 1 .. k + n /\ ~(k + n <= k) /\ k + n - k = n
    BY <1>4, <1>5
  <2> QED
    BY <1>6, <2>1
<1>13. u[n] = v[k + n]
  <2>1. u[n] \in T /\ v[k + n] \in T
    <3>1. n \in 1 .. n /\ k + n \in 1 .. k + n
      BY <1>4, <1>5
    <3> QED
      BY <1>10, <1>11, <3>1, ElementOfSeq
  <2>2. u[n].name = v[k + n].name /\ u[n].frames = v[k + n].frames
    BY <1>10, <1>11, <1>12
  <2>3. ASSUME NEW x \in [name : Name, frames : Seq(SignedPacket)],
               NEW y \in [name : Name, frames : Seq(SignedPacket)], x.name = y.name, x.frames = y.frames
        PROVE  x = y
    BY <2>3
  <2> QED
    BY <1>1, <2>1, <2>2, <2>3
<1>14. PICK w : w = pre \o u
  OBVIOUS
<1>15. v = w
  <2>1. pre \in Seq(T) /\ ss \in Seq(T)
    BY <1>3
  <2>2. \A i \in 1 .. k + n - 1 : v[i] = IF i <= k THEN pre[i] ELSE ss[i - k]
    BY <1>4, <1>5, <1>6, <1>11
  <2>3. w \in Seq(T) /\ Len(w) = k + n /\ \A i \in 1 .. k + n : w[i] = IF i <= k THEN pre[i] ELSE u[i - k]
    <3>1. /\ w \in Seq(T) /\ Len(w) = Len(pre) + Len(u)
          /\ \A i \in 1 .. Len(pre) + Len(u) : w[i] = IF i <= Len(pre) THEN pre[i] ELSE u[i - Len(pre)]
      BY <1>10, <1>14, <2>1, ConcatProperties
    <3> QED
      BY <1>4, <1>10, <3>1
  <2>4. ASSUME NEW i \in 1 .. k + n PROVE v[i] = w[i]
    <3>1. CASE i <= k
      <4>1. i \in 1 .. k + n - 1
        BY <1>5, <3>1
      <4> QED
        BY <2>2, <2>3, <3>1, <4>1
    <3>2. CASE i > k /\ i < k + n
      <4>1. i \in 1 .. k + n - 1 /\ i - k \in 1 .. n - 1 /\ ~(i <= k)
        BY <3>2
      <4> QED
        BY <1>10, <2>2, <2>3, <4>1
    <3>3. CASE i = k + n
      <4>1. ~(i <= k) /\ i - k = n
        BY <1>5, <3>3
      <4> QED
        BY <1>13, <2>3, <3>3, <4>1
    <3>4. i <= k \/ (i > k /\ i < k + n) \/ i = k + n
      OBVIOUS
    <3> QED
      BY <3>1, <3>2, <3>3, <3>4
  <2> QED
    BY <1>11, <2>3, <2>4, SeqEqual
<1> QED
  BY <1>2, <1>8, <1>9, <1>14, <1>15

(* The same names, and open or closed as before. *)
Quiet(c, d) == d.opened = c.opened /\ NamesOf(d) = NamesOf(c)

LEMMA SignedIs ==
  ASSUME NEW c, Fit(c)
  PROVE  /\ c \in SignedContext /\ c.opened \in {0, 1} /\ c.used \in Nat /\ c.held \in Seq(Frame)
         /\ c.aframe_num \in Nat /\ c.aframe_base \in Int /\ c.aframe_pts \in Int
         /\ c.audio_cc \in Int /\ c.video_cc \in Int /\ c.segments \in SignedSegments
         /\ c.opened = 1 => c.segments # <<>>
BY DEF Fit, SignedContext

(* A flush, as one change of the context. *)
Drained(c, ss, cc) == [c EXCEPT !.segments = ss, !.audio_cc = cc, !.used = 0, !.held = <<>>]

AudioPes(c) ==
  [ pid |-> AudioPid, dts |-> c.aframe_pts, cc |-> c.audio_cc,
    n |-> AudioPackets(c.used), es |-> c.held ]

LEMMA FlushDrains ==
  ASSUME NEW c, Fit(c), c.opened = 1, c.used # 0
  PROVE  /\ AudioPes(c) \in SignedPacket /\ AudioPackets(c.used) \in Nat
         /\ FlushAudio(c) = Drained(c, WithFrame(c.segments, AudioPes(c)), c.audio_cc + AudioPackets(c.used))
<1>1. AudioPackets(c.used) \in Nat
  BY SignedIs, PacketCountIsNat DEF AudioPackets
<1>2. AudioPes(c) \in SignedPacket
  BY <1>1, SignedIs DEF AudioPes, SignedPacket
<1>3. c \in SignedContext
  BY SignedIs
<1>4. FlushAudio(c) = [ Put(c, AudioPes(c)) EXCEPT !.audio_cc = @ + AudioPackets(c.used), !.used = 0,
                                                   !.held = <<>> ]
  BY DEF FlushAudio, AudioPes
<1>5. PICK pes, m, ss : pes = AudioPes(c) /\ m = AudioPackets(c.used) /\ ss = WithFrame(c.segments, pes)
  OBVIOUS
<1>6. Put(c, pes) = [c EXCEPT !.segments = ss]
  BY <1>5 DEF Put, WithFrame
<1>7. [[c EXCEPT !.segments = ss] EXCEPT !.audio_cc = @ + m, !.used = 0, !.held = <<>>]
        = Drained(c, ss, c.audio_cc + m)
  BY <1>3 DEF Drained, SignedContext
<1> QED
  BY <1>1, <1>2, <1>4, <1>5, <1>6, <1>7

(* What changing the buffer leaves alone. *)
Buffered(c, d, cc, used, held) ==
  /\ d \in SignedContext /\ d.segments = c.segments /\ d.opened = c.opened /\ d.used = used
  /\ d.held = held /\ d.audio_cc = cc /\ d.video_cc = c.video_cc
  /\ d.aframe_pts = c.aframe_pts /\ d.aframe_num = c.aframe_num
  /\ d.aframe_base = c.aframe_base

LEMMA BufferSigned ==
  ASSUME NEW c \in SignedContext, NEW cc \in Int, NEW used \in Nat, NEW held \in Seq(Frame),
         NEW d, d = WithBuffer(c, cc, used, held)
  PROVE  Buffered(c, d, cc, used, held)
BY DEF WithBuffer, SignedContext, Buffered

LEMMA DrainedIs ==
  ASSUME NEW c \in SignedContext, NEW ss \in SignedSegments, ss # <<>>, NEW cc \in Int, NEW d, d = Drained(c, ss, cc)
  PROVE  /\ Fit(d) /\ d.segments = ss /\ d.opened = c.opened /\ d.used = 0 /\ d.held = <<>>
         /\ d.audio_cc = cc /\ d.video_cc = c.video_cc /\ d.aframe_num = c.aframe_num
         /\ d.aframe_pts = c.aframe_pts /\ d.aframe_base = c.aframe_base
<1>1. <<>> \in Seq(Frame)
  OBVIOUS
<1>2. PICK h \in Seq(Frame), z \in Nat : h = <<>> /\ z = 0
  BY <1>1
<1>3. PICK e : e = [c EXCEPT !.segments = ss]
  OBVIOUS
<1>4. /\ e \in SignedContext /\ e.segments = ss /\ e.opened = c.opened
      /\ e.video_cc = c.video_cc /\ e.aframe_num = c.aframe_num
      /\ e.aframe_pts = c.aframe_pts /\ e.aframe_base = c.aframe_base
  BY <1>3 DEF SignedContext
<1>5. d = WithBuffer(e, cc, z, h)
  BY <1>2, <1>3 DEF Drained, SignedContext, WithBuffer
<1>6. Buffered(e, d, cc, z, h)
  BY <1>2, <1>4, <1>5, BufferSigned
<1> QED
  BY <1>2, <1>4, <1>6 DEF Fit, Buffered

LEMMA WrittenSigned ==
  ASSUME NEW ss \in SignedSegments, ss # <<>>, NEW pes \in SignedPacket
  PROVE  WithFrame(ss, pes) \in SignedSegments /\ WithFrame(ss, pes) # <<>>
<1>1. ss \in SegmentSeq(Name, SignedPacket)
  BY DEF SignedSegments
<1>2. WithFrame(ss, pes) \in SegmentSeq(Name, SignedPacket) /\ WithFrame(ss, pes) # <<>>
  BY <1>1, FrameWritten
<1> QED
  BY <1>2 DEF SignedSegments

(* One more frame changes no name. *)
LEMMA WrittenNames ==
  ASSUME NEW ss \in SignedSegments, ss # <<>>, NEW pes \in SignedPacket,
         NEW c, c.segments = ss, NEW d, d.segments = WithFrame(ss, pes)
  PROVE  NamesOf(d) = NamesOf(c)
<1>1. ss \in SegmentSeq(Name, SignedPacket)
  BY DEF SignedSegments
<1>2. PICK n \in Nat : n = Len(ss)
  BY SignedBasics
<1>3. /\ WithFrame(ss, pes) \in SegmentSeq(Name, SignedPacket) /\ Len(WithFrame(ss, pes)) = Len(ss)
      /\ WithFrame(ss, pes) # <<>>
      /\ \A i \in 1 .. Len(ss) - 1 : WithFrame(ss, pes)[i] = ss[i]
      /\ ss[Len(ss)].frames \in Seq(SignedPacket)
      /\ WithFrame(ss, pes)[Len(ss)].frames = Append(ss[Len(ss)].frames, pes)
      /\ WithFrame(ss, pes)[Len(ss)].name = ss[Len(ss)].name
  BY <1>1, FrameWritten
<1>4. PICK tt : tt = WithFrame(ss, pes)
  OBVIOUS
<1>5. ASSUME NEW i \in 1 .. n PROVE tt[i].name = ss[i].name
  <2>1. CASE i = n
    BY <1>2, <1>3, <1>4, <2>1
  <2>2. CASE i # n
    <3>1. i \in 1 .. n - 1
      BY <2>2
    <3> QED
      BY <1>2, <1>3, <1>4, <3>1
  <2> QED
    BY <2>1, <2>2
<1>6. NamesOf(d) = [i \in 1 .. n |-> tt[i].name] /\ NamesOf(c) = [i \in 1 .. n |-> ss[i].name]
  BY <1>2, <1>3, <1>4 DEF NamesOf
<1>7. [i \in 1 .. n |-> tt[i].name] = [i \in 1 .. n |-> ss[i].name]
  BY <1>5
<1> QED
  BY <1>6, <1>7

LEMMA FlushFits ==
  ASSUME NEW c, Fit(c)
  PROVE  /\ Fit(FlushAudio(c)) /\ Quiet(c, FlushAudio(c)) /\ (c.opened = 1 => FlushAudio(c).used = 0)
         /\ FlushAudio(c).aframe_num = c.aframe_num /\ FlushAudio(c).video_cc = c.video_cc
         /\ FlushAudio(c).aframe_pts = c.aframe_pts /\ FlushAudio(c).aframe_base = c.aframe_base
<1>1. CASE c.opened = 0 \/ c.used = 0
  BY <1>1 DEF FlushAudio, Quiet
<1>2. CASE ~(c.opened = 0 \/ c.used = 0)
  <2>1. c.opened = 1 /\ c \in SignedContext /\ c.audio_cc \in Int /\ c.segments \in SignedSegments /\ c.segments # <<>>
    BY <1>2, SignedIs
  <2>2. PICK pes, m, d : pes = AudioPes(c) /\ m = c.audio_cc + AudioPackets(c.used) /\ d = FlushAudio(c)
    OBVIOUS
  <2>3. pes \in SignedPacket /\ m \in Int /\ d = Drained(c, WithFrame(c.segments, pes), m)
    BY <1>2, <2>1, <2>2, FlushDrains
  <2>4. WithFrame(c.segments, pes) \in SignedSegments /\ WithFrame(c.segments, pes) # <<>>
    BY <2>1, <2>3, WrittenSigned
  <2>5. /\ Fit(d) /\ d.segments = WithFrame(c.segments, pes) /\ d.opened = c.opened /\ d.used = 0
        /\ d.video_cc = c.video_cc /\ d.aframe_num = c.aframe_num
        /\ d.aframe_pts = c.aframe_pts /\ d.aframe_base = c.aframe_base
    BY <2>1, <2>3, <2>4, DrainedIs
  <2>6. NamesOf(d) = NamesOf(c)
    BY <2>1, <2>3, <2>5, WrittenNames
  <2> QED
    BY <2>2, <2>5, <2>6 DEF Quiet
<1> QED
  BY <1>1, <1>2

LEMMA FlushBehind ==
  ASSUME NEW c, Fit(c), NEW pre \in SignedSegments, NEW m \in {0, 1}
  PROVE  FlushAudio(Behind(pre, m, c)) = Behind(pre, m, FlushAudio(c))
<1>1. PICK b : b = Behind(pre, m, c)
  OBVIOUS
<1>2. /\ Fit(b) /\ b.segments = pre \o c.segments /\ b.flag_m3u8 = m
      /\ b.opened = c.opened /\ b.used = c.used /\ b.held = c.held /\ b.aframe_num = c.aframe_num
      /\ b.aframe_base = c.aframe_base /\ b.aframe_pts = c.aframe_pts
      /\ b.audio_cc = c.audio_cc /\ b.video_cc = c.video_cc
  BY <1>1, BehindFits
<1>3. CASE c.opened = 0 \/ c.used = 0
  BY <1>1, <1>2, <1>3 DEF FlushAudio
<1>4. CASE ~(c.opened = 0 \/ c.used = 0)
  <2>1. c.opened = 1 /\ c \in SignedContext /\ c.audio_cc \in Int /\ c.segments \in SignedSegments /\ c.segments # <<>>
    BY <1>4, SignedIs
  <2>2. AudioPes(b) = AudioPes(c)
    BY <1>2 DEF AudioPes
  <2>3. PICK pes, k, ss : /\ pes = AudioPes(c) /\ k = c.audio_cc + AudioPackets(c.used)
                          /\ ss = WithFrame(c.segments, pes)
    OBVIOUS
  <2>4. pes \in SignedPacket /\ k \in Int /\ FlushAudio(c) = Drained(c, ss, k)
    BY <1>4, <2>1, <2>3, FlushDrains
  <2>5. FlushAudio(b) = Drained(b, WithFrame(b.segments, pes), k)
    BY <1>2, <1>4, <2>1, <2>2, <2>3, FlushDrains
  <2>6. WithFrame(b.segments, pes) = pre \o ss
    BY <1>2, <2>1, <2>3, <2>4, WrittenBehind
  <2>7. Drained(Behind(pre, m, c), pre \o ss, k) = Behind(pre, m, Drained(c, ss, k))
    <3>1. PICK tt, uu : tt = pre \o ss /\ uu = pre \o c.segments
      OBVIOUS
    <3>2. Behind(pre, m, Drained(c, ss, k))
            = [c EXCEPT !.segments = tt, !.flag_m3u8 = m, !.audio_cc = k, !.used = 0, !.held = <<>>]
      BY <2>1, <3>1 DEF Behind, Drained, SignedContext
    <3>3. Drained(Behind(pre, m, c), tt, k)
            = [c EXCEPT !.segments = tt, !.flag_m3u8 = m, !.audio_cc = k, !.used = 0, !.held = <<>>]
      BY <2>1, <3>1 DEF Behind, Drained, SignedContext
    <3> QED
      BY <3>1, <3>2, <3>3
  <2> QED
    BY <1>1, <2>4, <2>5, <2>6, <2>7
<1> QED
  BY <1>3, <1>4

LEMMA QuietAgain ==
  ASSUME NEW c, NEW d, NEW e, Quiet(c, d), Quiet(d, e)
  PROVE  Quiet(c, e)
BY DEF Quiet

LEMMA UpdateFits ==
  ASSUME NEW c, Fit(c), NEW ts, NEW rate
  PROVE  /\ Fit(UpdateFragment(c, ts, rate)) /\ Quiet(c, UpdateFragment(c, ts, rate))
         /\ UpdateFragment(c, ts, rate) \in {c, FlushAudio(c)}
BY FlushFits DEF UpdateFragment, Quiet

LEMMA UpdateBehind ==
  ASSUME NEW c, Fit(c), NEW pre \in SignedSegments, NEW m \in {0, 1}, NEW ts, NEW rate
  PROVE  UpdateFragment(Behind(pre, m, c), ts, rate) = Behind(pre, m, UpdateFragment(c, ts, rate))
<1>1. PICK b : b = Behind(pre, m, c)
  OBVIOUS
<1>2. b.opened = c.opened /\ b.used = c.used /\ b.aframe_pts = c.aframe_pts
  BY <1>1, BehindFits
<1>3. FlushAudio(b) = Behind(pre, m, FlushAudio(c))
  BY <1>1, FlushBehind
<1>4. UpdateFragment(b, ts, rate) = IF UpdateFragment(c, ts, rate) = c THEN b ELSE FlushAudio(b)
  <2>1. CASE c.opened = 1 /\ c.used > 0 /\ c.aframe_pts + (MaxAudioDelay * 90) \div rate < ts
    <3>1. UpdateFragment(c, ts, rate) = FlushAudio(c) /\ UpdateFragment(b, ts, rate) = FlushAudio(b)
      BY <1>2, <2>1 DEF UpdateFragment
    <3>2. FlushAudio(c) # c
      <4>1. FlushAudio(c).used = 0 /\ c.used \in Nat
        BY <2>1, FlushFits, SignedIs
      <4> QED
        BY <2>1, <4>1
    <3> QED
      BY <3>1, <3>2
  <2>2. CASE ~(c.opened = 1 /\ c.used > 0 /\ c.aframe_pts + (MaxAudioDelay * 90) \div rate < ts)
    BY <1>2, <2>2 DEF UpdateFragment
  <2> QED
    BY <2>1, <2>2
<1>5. UpdateFragment(c, ts, rate) \in {c, FlushAudio(c)}
  BY UpdateFits
<1> QED
  BY <1>1, <1>3, <1>4, <1>5

LEMMA RoomFits ==
  ASSUME NEW c, Fit(c), NEW a
  PROVE  Fit(MakeRoom(c, a)) /\ Quiet(c, MakeRoom(c, a))
BY FlushFits DEF MakeRoom, Quiet

LEMMA RoomBehind ==
  ASSUME NEW c, Fit(c), NEW pre \in SignedSegments, NEW m \in {0, 1}, NEW a
  PROVE  MakeRoom(Behind(pre, m, c), a) = Behind(pre, m, MakeRoom(c, a))
<1>1. PICK b : b = Behind(pre, m, c)
  OBVIOUS
<1>2. b.used = c.used
  BY <1>1, BehindFits
<1>3. FlushAudio(b) = Behind(pre, m, FlushAudio(c))
  BY <1>1, FlushBehind
<1> QED
  BY <1>1, <1>2, <1>3 DEF MakeRoom

(* A frame joins the buffer, as one change of the context. *)
Gathered(c, used, held, num, pts, base) ==
  [ c EXCEPT !.used = used, !.held = held, !.aframe_num = num, !.aframe_pts = pts,
             !.aframe_base = base ]

(* What that leaves alone. *)
GatheredIs(c, d, used, held, num, pts, base) ==
  /\ d \in SignedContext /\ d.segments = c.segments /\ d.opened = c.opened /\ d.used = used /\ d.held = held
  /\ d.aframe_num = num /\ d.aframe_pts = pts /\ d.aframe_base = base
  /\ d.audio_cc = c.audio_cc /\ d.video_cc = c.video_cc

LEMMA GatheredSigned ==
  ASSUME NEW c \in SignedContext, NEW used \in Nat, NEW held \in Seq(Frame), NEW num \in Nat,
         NEW pts \in Int, NEW base \in Int, NEW d, d = Gathered(c, used, held, num, pts, base)
  PROVE  GatheredIs(c, d, used, held, num, pts, base)
BY DEF Gathered, SignedContext, GatheredIs

LEMMA GatheredBehind ==
  ASSUME NEW c \in SignedContext, NEW pre, NEW m, NEW used, NEW held, NEW num, NEW pts, NEW base
  PROVE  Gathered(Behind(pre, m, c), used, held, num, pts, base)
           = Behind(pre, m, Gathered(c, used, held, num, pts, base))
BY DEF Gathered, Behind, SignedContext

(* The three ways to gather a frame. *)
LEMMA AppendGathers ==
  ASSUME NEW c \in SignedContext, NEW a
  PROVE  LET used == c.used + a.size
             held == Append(c.held, a)
             est  == EstimatedPts(c)
             pts  == Ticks(a.ts)
         IN  AppendAudio(c, a) =
               IF c.used > 0
                 THEN Gathered(c, used, held, c.aframe_num + 1, c.aframe_pts, c.aframe_base)
               ELSE IF InSync(est - pts)
                 THEN Gathered(c, used, held, c.aframe_num + 1, est, c.aframe_base)
               ELSE Gathered(c, used, held, 1, pts, pts)
<1> DEFINE used == c.used + a.size
           held == Append(c.held, a)
           est  == EstimatedPts(c)
           pts  == Ticks(a.ts)
<1>1. Buffer(c, a) = [c EXCEPT !.used = used, !.held = held]
  BY DEF Buffer, SignedContext
<1>2. AppendAudio(c, a) =
        IF c.used > 0 THEN [Buffer(c, a) EXCEPT !.aframe_num = @ + 1]
        ELSE IF InSync(est - pts) THEN [Buffer(c, a) EXCEPT !.aframe_num = @ + 1, !.aframe_pts = est]
        ELSE [Buffer(c, a) EXCEPT !.aframe_num = 1, !.aframe_pts = pts, !.aframe_base = pts]
  BY DEF AppendAudio
<1> HIDE DEF used, held, est, pts
<1>3. /\ [[c EXCEPT !.used = used, !.held = held] EXCEPT !.aframe_num = @ + 1]
           = Gathered(c, used, held, c.aframe_num + 1, c.aframe_pts, c.aframe_base)
      /\ [[c EXCEPT !.used = used, !.held = held] EXCEPT !.aframe_num = @ + 1, !.aframe_pts = est]
           = Gathered(c, used, held, c.aframe_num + 1, est, c.aframe_base)
      /\ [[c EXCEPT !.used = used, !.held = held]
            EXCEPT !.aframe_num = 1, !.aframe_pts = pts, !.aframe_base = pts]
           = Gathered(c, used, held, 1, pts, pts)
  BY DEF Gathered, SignedContext
<1> QED
  BY <1>1, <1>2, <1>3 DEF used, held, est, pts

LEMMA EstimateSigned ==
  ASSUME NEW c \in SignedContext
  PROVE  EstimatedPts(c) \in Int
<1>1. PICK k \in Nat : k = c.aframe_num * 92160000
  BY DEF SignedContext
<1>2. k \div SampleRate \in Nat
  BY ConfAssumption
<1>3. PICK e \in Nat, b \in Int : e = k \div SampleRate /\ b = c.aframe_base
  BY <1>2 DEF SignedContext
<1>4. EstimatedPts(c) = b + e
  BY <1>1, <1>3 DEF EstimatedPts
<1> QED
  BY <1>3, <1>4

LEMMA AppendFits ==
  ASSUME NEW c, Fit(c), NEW a \in [ts : Nat, size : Nat]
  PROVE  Fit(AppendAudio(c, a)) /\ Quiet(c, AppendAudio(c, a))
<1>1. c \in SignedContext /\ (c.opened = 1 => c.segments # <<>>)
  BY SignedIs
<1>2. PICK used \in Nat, held \in Seq(Frame) : used = c.used + a.size /\ held = Append(c.held, a)
  <2>1. c.used \in Nat /\ a.size \in Nat /\ c.held \in Seq(Frame) /\ a \in Frame
    BY SignedIs DEF Frame
  <2>2. c.used + a.size \in Nat /\ Append(c.held, a) \in Seq(Frame)
    BY <2>1
  <2> QED
    BY <2>2
<1>3. PICK est \in Int, pts \in Int : est = EstimatedPts(c) /\ pts = Ticks(a.ts)
  <2>1. Ticks(a.ts) \in Int
    BY DEF Ticks
  <2> QED
    BY <1>1, <2>1, EstimateSigned
<1>4. PICK num \in Nat, one \in Nat, cp \in Int, cb \in Int :
        num = c.aframe_num + 1 /\ one = 1 /\ cp = c.aframe_pts /\ cb = c.aframe_base
  <2>1. c.aframe_num + 1 \in Nat /\ c.aframe_pts \in Int /\ c.aframe_base \in Int /\ 1 \in Nat
    BY SignedIs
  <2> QED
    BY <2>1
<1>5. PICK d : d = AppendAudio(c, a)
  OBVIOUS
<1>6. d \in { Gathered(c, used, held, num, cp, cb), Gathered(c, used, held, num, est, cb),
              Gathered(c, used, held, one, pts, pts) }
  BY <1>1, <1>2, <1>3, <1>4, <1>5, AppendGathers
<1>7. d \in SignedContext /\ d.segments = c.segments /\ d.opened = c.opened
  <2>1. CASE d = Gathered(c, used, held, num, cp, cb)
    <3>1. GatheredIs(c, d, used, held, num, cp, cb)
      BY <1>1, <2>1, GatheredSigned
    <3> QED
      BY <3>1 DEF GatheredIs
  <2>2. CASE d = Gathered(c, used, held, num, est, cb)
    <3>1. GatheredIs(c, d, used, held, num, est, cb)
      BY <1>1, <2>2, GatheredSigned
    <3> QED
      BY <3>1 DEF GatheredIs
  <2>3. CASE d = Gathered(c, used, held, one, pts, pts)
    <3>1. GatheredIs(c, d, used, held, one, pts, pts)
      BY <1>1, <2>3, GatheredSigned
    <3> QED
      BY <3>1 DEF GatheredIs
  <2> QED
    BY <1>6, <2>1, <2>2, <2>3
<1> QED
  BY <1>1, <1>5, <1>7 DEF Fit, Quiet, NamesOf

LEMMA AppendBehind ==
  ASSUME NEW c, Fit(c), NEW pre \in SignedSegments, NEW m \in {0, 1}, NEW a
  PROVE  AppendAudio(Behind(pre, m, c), a) = Behind(pre, m, AppendAudio(c, a))
<1>1. PICK b : b = Behind(pre, m, c)
  OBVIOUS
<1>2. /\ b \in SignedContext /\ b.used = c.used /\ b.held = c.held /\ b.aframe_num = c.aframe_num
      /\ b.aframe_base = c.aframe_base /\ b.aframe_pts = c.aframe_pts
  BY <1>1, BehindFits DEF Fit
<1>3. c \in SignedContext
  BY DEF Fit
<1>4. EstimatedPts(b) = EstimatedPts(c)
  BY <1>2 DEF EstimatedPts
<1>5. PICK used, held, est, pts : /\ used = c.used + a.size /\ held = Append(c.held, a)
                                  /\ est = EstimatedPts(c) /\ pts = Ticks(a.ts)
  OBVIOUS
<1>6. AppendAudio(c, a) =
        IF c.used > 0 THEN Gathered(c, used, held, c.aframe_num + 1, c.aframe_pts, c.aframe_base)
        ELSE IF InSync(est - pts) THEN Gathered(c, used, held, c.aframe_num + 1, est, c.aframe_base)
        ELSE Gathered(c, used, held, 1, pts, pts)
  BY <1>3, <1>5, AppendGathers
<1>7. AppendAudio(b, a) =
        IF c.used > 0 THEN Gathered(b, used, held, c.aframe_num + 1, c.aframe_pts, c.aframe_base)
        ELSE IF InSync(est - pts) THEN Gathered(b, used, held, c.aframe_num + 1, est, c.aframe_base)
        ELSE Gathered(b, used, held, 1, pts, pts)
  BY <1>2, <1>4, <1>5, AppendGathers
<1> QED
  BY <1>1, <1>3, <1>6, <1>7, GatheredBehind

(* The frames the writer gets. *)
LEMMA AudioFits ==
  ASSUME NEW c, Fit(c), NEW a \in [ts : Nat, size : Nat]
  PROVE  Fit(AudioEx(c, a)) /\ Quiet(c, AudioEx(c, a))
<1>1. PICK u : u = UpdateFragment(c, Ticks(a.ts), 2)
  OBVIOUS
<1>2. Fit(u) /\ Quiet(c, u)
  BY <1>1, UpdateFits
<1>3. PICK r : r = MakeRoom(u, a)
  OBVIOUS
<1>4. Fit(r) /\ Quiet(c, r)
  BY <1>2, <1>3, RoomFits, QuietAgain
<1>5. Fit(AppendAudio(r, a)) /\ Quiet(c, AppendAudio(r, a))
  BY <1>4, AppendFits, QuietAgain
<1>6. AudioEx(c, a) \in {c, r, AppendAudio(r, a)}
  BY <1>1, <1>3 DEF AudioEx
<1>7. Fit(c) /\ Quiet(c, c)
  BY DEF Quiet
<1> QED
  BY <1>4, <1>5, <1>6, <1>7

LEMMA AudioBehind ==
  ASSUME NEW c, Fit(c), NEW pre \in SignedSegments, NEW m \in {0, 1}, NEW a \in [ts : Nat, size : Nat]
  PROVE  AudioEx(Behind(pre, m, c), a) = Behind(pre, m, AudioEx(c, a))
<1>1. PICK u : u = UpdateFragment(c, Ticks(a.ts), 2)
  OBVIOUS
<1>2. Fit(u) /\ UpdateFragment(Behind(pre, m, c), Ticks(a.ts), 2) = Behind(pre, m, u)
  BY <1>1, UpdateFits, UpdateBehind
<1>3. PICK r : r = MakeRoom(u, a)
  OBVIOUS
<1>4. Fit(r) /\ MakeRoom(Behind(pre, m, u), a) = Behind(pre, m, r)
  BY <1>2, <1>3, RoomFits, RoomBehind
<1>5. AppendAudio(Behind(pre, m, r), a) = Behind(pre, m, AppendAudio(r, a))
  BY <1>4, AppendBehind
<1>6. Behind(pre, m, r).used = r.used
  BY <1>4, BehindFits
<1>7. AudioEx(c, a) = IF a.size > AudioBufferSize THEN c
                      ELSE IF r.used + 7 > AudioBufferSize THEN r ELSE AppendAudio(r, a)
  BY <1>1, <1>3 DEF AudioEx
<1>8. AudioEx(Behind(pre, m, c), a) =
        IF a.size > AudioBufferSize THEN Behind(pre, m, c)
        ELSE IF r.used + 7 > AudioBufferSize THEN Behind(pre, m, r) ELSE AppendAudio(Behind(pre, m, r), a)
  BY <1>2, <1>4, <1>6 DEF AudioEx
<1> QED
  BY <1>5, <1>7, <1>8

(* A picture is written, as one change of the context. *)
Filmed(c, ss, cc) == [c EXCEPT !.segments = ss, !.video_cc = cc]

FilmedIs(c, d, ss, cc) ==
  /\ d \in SignedContext /\ d.segments = ss /\ d.opened = c.opened /\ d.used = c.used /\ d.held = c.held
  /\ d.aframe_num = c.aframe_num /\ d.aframe_pts = c.aframe_pts /\ d.aframe_base = c.aframe_base
  /\ d.audio_cc = c.audio_cc /\ d.video_cc = cc

LEMMA FilmedSigned ==
  ASSUME NEW c \in SignedContext, NEW ss \in SignedSegments, NEW cc \in Int, NEW d, d = Filmed(c, ss, cc)
  PROVE  FilmedIs(c, d, ss, cc)
BY DEF Filmed, SignedContext, FilmedIs

VideoPes(c, v) ==
  [ pid |-> VideoPid, dts |-> Ticks(v.ts), cc |-> c.video_cc, n |-> VideoPackets(v), es |-> <<v>> ]

LEMMA PictureFilms ==
  ASSUME NEW c, Fit(c), c.opened = 1, NEW v \in [ts : Nat, size : Nat, key : {0, 1}]
  PROVE  /\ VideoPes(c, v) \in SignedPacket /\ VideoPackets(v) \in Nat
         /\ [Put(c, VideoPes(c, v)) EXCEPT !.video_cc = @ + VideoPackets(v)]
              = Filmed(c, WithFrame(c.segments, VideoPes(c, v)), c.video_cc + VideoPackets(v))
<1>1. v.ts \in Nat /\ v.size \in Nat /\ v.key \in {0, 1} /\ v \in Frame
  BY DEF Frame
<1>2. VideoPackets(v) \in Nat
  <2>1. v.size + 6 \in Nat
    BY <1>1
  <2> QED
    BY <1>1, <2>1, PacketCountIsNat DEF VideoPackets
<1>3. VideoPes(c, v) \in SignedPacket
  <2>1. Ticks(v.ts) \in Int /\ c.video_cc \in Int /\ <<v>> \in Seq(Frame)
    BY <1>1, SignedIs DEF Ticks
  <2> QED
    BY <1>2, <2>1 DEF VideoPes, SignedPacket
<1>4. c \in SignedContext
  BY SignedIs
<1>5. PICK pes, n, ss : pes = VideoPes(c, v) /\ n = VideoPackets(v) /\ ss = WithFrame(c.segments, pes)
  OBVIOUS
<1>6. Put(c, pes) = [c EXCEPT !.segments = ss]
  BY <1>5 DEF Put, WithFrame
<1>7. [[c EXCEPT !.segments = ss] EXCEPT !.video_cc = @ + n] = Filmed(c, ss, c.video_cc + n)
  BY <1>4 DEF Filmed, SignedContext
<1> QED
  BY <1>2, <1>3, <1>5, <1>6, <1>7

(* What was let out before a key frame. *)
LetOut(c, v) == IF v.key = 1 THEN UpdateFragment(c, Ticks(v.ts), 1) ELSE c

LEMMA VideoFits ==
  ASSUME NEW c, Fit(c), NEW v \in [ts : Nat, size : Nat, key : {0, 1}]
  PROVE  Fit(VideoEx(c, v)) /\ Quiet(c, VideoEx(c, v))
<1>1. PICK u : u = LetOut(c, v)
  OBVIOUS
<1>2. Fit(u) /\ Quiet(c, u)
  BY <1>1, UpdateFits DEF LetOut, Quiet
<1>3. PICK d : d = [Put(u, VideoPes(u, v)) EXCEPT !.video_cc = @ + VideoPackets(v)]
  OBVIOUS
<1>4. VideoEx(c, v) = IF v.size + 6 > VideoBufferSize THEN c ELSE IF u.opened = 0 THEN u ELSE d
  BY <1>1, <1>3 DEF VideoEx, VideoPes, LetOut
<1>5. ASSUME u.opened # 0 PROVE Fit(d) /\ Quiet(u, d)
  <2>1. /\ u.opened = 1 /\ u \in SignedContext /\ u.segments \in SignedSegments /\ u.segments # <<>>
        /\ u.video_cc \in Int
    BY <1>2, <1>5, SignedIs
  <2>2. PICK pes : pes = VideoPes(u, v)
    OBVIOUS
  <2>3. PICK cc \in Int : cc = u.video_cc + VideoPackets(v)
    <3>1. VideoPackets(v) \in Nat
      BY <1>2, <2>1, PictureFilms
    <3> QED
      BY <2>1, <3>1
  <2>4. pes \in SignedPacket /\ d = Filmed(u, WithFrame(u.segments, pes), cc)
    BY <1>2, <1>3, <2>1, <2>2, <2>3, PictureFilms
  <2>5. PICK ss \in SignedSegments : ss = WithFrame(u.segments, pes) /\ ss # <<>>
    BY <2>1, <2>4, WrittenSigned
  <2>6. FilmedIs(u, d, ss, cc)
    BY <2>1, <2>4, <2>5, FilmedSigned
  <2>7. NamesOf(d) = NamesOf(u)
    BY <2>1, <2>4, <2>5, <2>6, WrittenNames DEF FilmedIs
  <2> QED
    BY <2>5, <2>6, <2>7 DEF FilmedIs, Fit, Quiet
<1>6. Fit(c) /\ Quiet(c, c)
  BY DEF Quiet
<1> QED
  BY <1>2, <1>4, <1>5, <1>6, QuietAgain

LEMMA FilmedBehind ==
  ASSUME NEW c \in SignedContext, NEW pre, NEW m, NEW ss, NEW cc
  PROVE  Filmed(Behind(pre, m, c), pre \o ss, cc) = Behind(pre, m, Filmed(c, ss, cc))
<1>1. PICK tt, uu : tt = pre \o ss /\ uu = pre \o c.segments
  OBVIOUS
<1>2. Behind(pre, m, Filmed(c, ss, cc)) = [c EXCEPT !.segments = tt, !.flag_m3u8 = m, !.video_cc = cc]
  BY <1>1 DEF Behind, Filmed, SignedContext
<1>3. Filmed(Behind(pre, m, c), tt, cc) = [c EXCEPT !.segments = tt, !.flag_m3u8 = m, !.video_cc = cc]
  BY <1>1 DEF Behind, Filmed, SignedContext
<1> QED
  BY <1>1, <1>2, <1>3

LEMMA VideoBehind ==
  ASSUME NEW c, Fit(c), NEW pre \in SignedSegments, NEW m \in {0, 1},
         NEW v \in [ts : Nat, size : Nat, key : {0, 1}]
  PROVE  VideoEx(Behind(pre, m, c), v) = Behind(pre, m, VideoEx(c, v))
<1>1. PICK u : u = LetOut(c, v)
  OBVIOUS
<1>2. Fit(u) /\ LetOut(Behind(pre, m, c), v) = Behind(pre, m, u)
  BY <1>1, UpdateFits, UpdateBehind DEF LetOut
<1>3. PICK b : b = Behind(pre, m, u)
  OBVIOUS
<1>4. /\ Fit(b) /\ b.segments = pre \o u.segments /\ b.opened = u.opened /\ b.video_cc = u.video_cc
  BY <1>2, <1>3, BehindFits
<1>5. VideoPes(b, v) = VideoPes(u, v)
  BY <1>4 DEF VideoPes
<1>6. PICK pes, cc : pes = VideoPes(u, v) /\ cc = u.video_cc + VideoPackets(v)
  OBVIOUS
<1>7. VideoEx(c, v) = IF v.size + 6 > VideoBufferSize THEN c ELSE IF u.opened = 0 THEN u
                      ELSE [Put(u, pes) EXCEPT !.video_cc = @ + VideoPackets(v)]
  BY <1>1, <1>6 DEF VideoEx, VideoPes, LetOut
<1>8. VideoEx(Behind(pre, m, c), v) =
        IF v.size + 6 > VideoBufferSize THEN Behind(pre, m, c) ELSE IF u.opened = 0 THEN b
        ELSE [Put(b, pes) EXCEPT !.video_cc = @ + VideoPackets(v)]
  BY <1>2, <1>3, <1>4, <1>5, <1>6 DEF VideoEx, VideoPes, LetOut
<1>9. ASSUME u.opened # 0
      PROVE  [Put(b, pes) EXCEPT !.video_cc = @ + VideoPackets(v)]
               = Behind(pre, m, [Put(u, pes) EXCEPT !.video_cc = @ + VideoPackets(v)])
  <2>1. /\ u.opened = 1 /\ u \in SignedContext /\ u.segments \in SignedSegments /\ u.segments # <<>>
    BY <1>2, <1>9, SignedIs
  <2>2. PICK ss : ss = WithFrame(u.segments, pes)
    OBVIOUS
  <2>3. pes \in SignedPacket
    BY <1>2, <1>6, <2>1, PictureFilms
  <2>4. [Put(u, pes) EXCEPT !.video_cc = @ + VideoPackets(v)] = Filmed(u, ss, cc)
    BY <1>2, <1>6, <2>1, <2>2, PictureFilms
  <2>5. [Put(b, VideoPes(b, v)) EXCEPT !.video_cc = @ + VideoPackets(v)]
          = Filmed(b, WithFrame(b.segments, VideoPes(b, v)), b.video_cc + VideoPackets(v))
    <3>1. Fit(b) /\ b.opened = 1
      BY <1>4, <2>1
    <3> QED
      BY <3>1, PictureFilms
  <2>6. WithFrame(pre \o u.segments, pes) = pre \o ss
    BY <2>1, <2>2, <2>3, WrittenBehind
  <2>7. [Put(b, pes) EXCEPT !.video_cc = @ + VideoPackets(v)] = Filmed(b, pre \o ss, cc)
    BY <1>4, <1>5, <1>6, <2>5, <2>6
  <2>8. Filmed(b, pre \o ss, cc) = Behind(pre, m, Filmed(u, ss, cc))
    BY <1>3, <2>1, FilmedBehind
  <2> QED
    BY <2>4, <2>7, <2>8
<1> QED
  BY <1>3, <1>7, <1>8, <1>9

(* A fragment is closed. *)
LEMMA CloseFits ==
  ASSUME NEW c, Fit(c)
  PROVE  /\ Fit(CloseFragment(c)) /\ CloseFragment(c).opened = 0 /\ NamesOf(CloseFragment(c)) = NamesOf(c)
         /\ CloseFragment(c).video_cc = c.video_cc
         /\ c.opened = 1 => CloseFragment(c).used = 0 /\ CloseFragment(c).aframe_num = 0
<1>1. c.opened \in {0, 1}
  BY SignedIs
<1>2. CASE c.opened = 0
  BY <1>2 DEF CloseFragment
<1>3. CASE c.opened = 1
  <2>1. PICK f : f = FlushAudio(c)
    OBVIOUS
  <2>2. Fit(f) /\ NamesOf(f) = NamesOf(c) /\ f.used = 0 /\ f.video_cc = c.video_cc
    BY <1>3, <2>1, FlushFits DEF Quiet
  <2>3. PICK d : d = CloseFragment(c)
    OBVIOUS
  <2>4. f \in SignedContext /\ d = [f EXCEPT !.opened = 0, !.aframe_num = 0]
    BY <1>3, <2>1, <2>2, <2>3 DEF CloseFragment, Fit
  <2>5. /\ d \in SignedContext /\ d.opened = 0 /\ d.aframe_num = 0 /\ d.used = f.used
        /\ d.video_cc = f.video_cc /\ d.segments = f.segments
    BY <2>4 DEF SignedContext
  <2>6. NamesOf(d) = NamesOf(f)
    BY <2>5 DEF NamesOf
  <2> QED
    BY <2>2, <2>3, <2>5, <2>6 DEF Fit
<1> QED
  BY <1>1, <1>2, <1>3

LEMMA CloseBehind ==
  ASSUME NEW c, Fit(c), NEW pre \in SignedSegments, NEW m \in {0, 1}
  PROVE  CloseFragment(Behind(pre, m, c)) = Behind(pre, m, CloseFragment(c))
<1>1. PICK b : b = Behind(pre, m, c)
  OBVIOUS
<1>2. b.opened = c.opened
  BY <1>1, BehindFits
<1>3. CASE c.opened = 0
  BY <1>1, <1>2, <1>3 DEF CloseFragment
<1>4. CASE c.opened # 0
  <2>1. PICK f : f = FlushAudio(c)
    OBVIOUS
  <2>2. f \in SignedContext /\ FlushAudio(b) = Behind(pre, m, f)
    BY <1>1, <2>1, FlushFits, FlushBehind DEF Fit
  <2>3. CloseFragment(b) = [Behind(pre, m, f) EXCEPT !.opened = 0, !.aframe_num = 0]
    BY <1>2, <1>4, <2>2 DEF CloseFragment
  <2>4. CloseFragment(c) = [f EXCEPT !.opened = 0, !.aframe_num = 0]
    BY <1>4, <2>1 DEF CloseFragment
  <2>5. [Behind(pre, m, f) EXCEPT !.opened = 0, !.aframe_num = 0]
          = Behind(pre, m, [f EXCEPT !.opened = 0, !.aframe_num = 0])
    BY <2>2 DEF Behind, SignedContext
  <2> QED
    BY <1>1, <2>3, <2>4, <2>5
<1> QED
  BY <1>3, <1>4

(* A fragment is opened, before leftover audio goes into it. *)
Opened(c, name, m) ==
  [c EXCEPT !.opened = 1, !.flag_m3u8 = m, !.segments = Append(@, [name |-> name, frames |-> <<>>])]

OpenedIs(c, name, m, o) ==
  /\ Fit(o) /\ o.opened = 1 /\ o.flag_m3u8 = m
  /\ o.segments = Append(c.segments, [name |-> name, frames |-> <<>>])
  /\ Len(o.segments) = Len(c.segments) + 1 /\ o.segments[Len(c.segments) + 1] = [name |-> name, frames |-> <<>>]
  /\ \A i \in 1 .. Len(c.segments) : o.segments[i] = c.segments[i]
  /\ o.used = c.used /\ o.held = c.held /\ o.aframe_num = c.aframe_num
  /\ o.aframe_base = c.aframe_base /\ o.aframe_pts = c.aframe_pts
  /\ o.audio_cc = c.audio_cc /\ o.video_cc = c.video_cc

LEMMA OpenedFits ==
  ASSUME NEW c, Fit(c), NEW name \in Name, NEW m \in {0, 1}
  PROVE  OpenedIs(c, name, m, Opened(c, name, m))
<1>1. PICK T : T = [name : Name, frames : Seq(SignedPacket)]
  OBVIOUS
<1>2. c \in SignedContext /\ c.segments \in Seq(T)
  BY <1>1, SignedIs DEF SignedSegments, SegmentSeq
<1>3. PICK x : x = [name |-> name, frames |-> <<>>]
  OBVIOUS
<1>4. x \in T
  <2>1. <<>> \in Seq(SignedPacket)
    OBVIOUS
  <2> QED
    BY <1>1, <1>3, <2>1
<1>5. PICK ss : ss = Append(c.segments, x)
  OBVIOUS
<1>6. /\ ss \in Seq(T) /\ ss # <<>> /\ Len(ss) = Len(c.segments) + 1 /\ ss[Len(c.segments) + 1] = x
      /\ \A i \in 1 .. Len(c.segments) : ss[i] = c.segments[i]
  BY <1>2, <1>4, <1>5, Appended
<1>7. ss \in SignedSegments
  BY <1>1, <1>6 DEF SignedSegments, SegmentSeq
<1>8. PICK o : o = Opened(c, name, m) /\ o = [c EXCEPT !.opened = 1, !.flag_m3u8 = m, !.segments = ss]
  BY <1>2, <1>3, <1>5 DEF Opened, SignedContext
<1>9. /\ o \in SignedContext /\ o.opened = 1 /\ o.flag_m3u8 = m /\ o.segments = ss
      /\ o.used = c.used /\ o.held = c.held /\ o.aframe_num = c.aframe_num
      /\ o.aframe_base = c.aframe_base /\ o.aframe_pts = c.aframe_pts
      /\ o.audio_cc = c.audio_cc /\ o.video_cc = c.video_cc
  BY <1>2, <1>7, <1>8 DEF SignedContext
<1> QED
  BY <1>3, <1>5, <1>6, <1>8, <1>9 DEF OpenedIs, Fit

LEMMA OpenedNames ==
  ASSUME NEW c, Fit(c), NEW name \in Name, NEW m \in {0, 1}, NEW o, OpenedIs(c, name, m, o)
  PROVE  NamesOf(o) = Append(NamesOf(c), name)
<1>1. PICK n \in Nat : n = Len(c.segments)
  BY SignedIs, SignedBasics
<1>2. \A i \in 1 .. n : c.segments[i].name \in Name
  BY <1>1, SignedIs, SignedBasics
<1>3. /\ Len(o.segments) = n + 1 /\ o.segments[n + 1].name = name
      /\ \A i \in 1 .. n : o.segments[i] = c.segments[i]
  BY <1>1 DEF OpenedIs
<1>4. PICK a : a = NamesOf(c)
  OBVIOUS
<1>5. a = [i \in 1 .. n |-> c.segments[i].name]
  BY <1>1, <1>4 DEF NamesOf
<1>6. a \in [1 .. n -> Name]
  BY <1>2, <1>5
<1>7. a \in Seq(Name) /\ Len(a) = n
  BY <1>6, FunctionIsSeq
<1>8. PICK b : b = Append(a, name)
  OBVIOUS
<1>9. b \in Seq(Name) /\ Len(b) = n + 1 /\ b[n + 1] = name /\ \A i \in 1 .. n : b[i] = a[i]
  BY <1>7, <1>8, Appended
<1>10. PICK d : d = NamesOf(o)
  OBVIOUS
<1>11. d = [i \in 1 .. n + 1 |-> o.segments[i].name]
  BY <1>3, <1>10 DEF NamesOf
<1>12. ASSUME NEW i \in 1 .. n + 1 PROVE o.segments[i].name \in Name /\ o.segments[i].name = b[i]
  <2>1. CASE i = n + 1
    BY <1>3, <1>9, <2>1
  <2>2. CASE i # n + 1
    <3>1. i \in 1 .. n
      BY <2>2
    <3> QED
      BY <1>2, <1>3, <1>5, <1>9, <3>1
  <2> QED
    BY <2>1, <2>2
<1>13. d \in [1 .. n + 1 -> Name] /\ \A i \in 1 .. n + 1 : d[i] = b[i]
  BY <1>11, <1>12
<1>14. d \in Seq(Name) /\ Len(d) = n + 1
  BY <1>13, FunctionIsSeq
<1>15. d = b
  BY <1>9, <1>13, <1>14, SeqEqual
<1> QED
  BY <1>4, <1>8, <1>10, <1>15

LEMMA OpenedBehind ==
  ASSUME NEW c, Fit(c), NEW pre \in SignedSegments, NEW m0 \in {0, 1}, NEW m \in {0, 1}, NEW m1 \in {0, 1},
         NEW name \in Name
  PROVE  Opened(Behind(pre, m0, c), name, m) = Behind(pre, m, Opened(c, name, m1))
<1>1. PICK T : T = [name : Name, frames : Seq(SignedPacket)]
  OBVIOUS
<1>2. c \in SignedContext /\ c.segments \in Seq(T) /\ pre \in Seq(T)
  BY <1>1, SignedIs DEF SignedSegments, SegmentSeq
<1>3. PICK x : x = [name |-> name, frames |-> <<>>]
  OBVIOUS
<1>4. x \in T
  <2>1. <<>> \in Seq(SignedPacket)
    OBVIOUS
  <2> QED
    BY <1>1, <1>3, <2>1
<1>5. Append(pre \o c.segments, x) = pre \o Append(c.segments, x)
  <2>1. PICK cs : cs = c.segments /\ cs \in Seq(T)
    BY <1>2
  <2>2. Append(pre \o cs, x) = pre \o Append(cs, x)
    BY <1>2, <1>4, <2>1
  <2> QED
    BY <2>1, <2>2
<1>6. PICK ss, aa, tt : ss = pre \o c.segments /\ aa = Append(c.segments, x) /\ tt = pre \o aa /\ tt = Append(ss, x)
  BY <1>5
<1>7. Opened(Behind(pre, m0, c), name, m) = [c EXCEPT !.opened = 1, !.flag_m3u8 = m, !.segments = tt]
  <2>1. Behind(pre, m0, c) = [c EXCEPT !.segments = ss, !.flag_m3u8 = m0]
    BY <1>2, <1>6 DEF Behind, SignedContext
  <2>2. [[c EXCEPT !.segments = ss, !.flag_m3u8 = m0] EXCEPT !.opened = 1, !.flag_m3u8 = m, !.segments = Append(@, x)]
          = [c EXCEPT !.opened = 1, !.flag_m3u8 = m, !.segments = tt]
    BY <1>2, <1>6 DEF SignedContext
  <2> QED
    BY <1>3, <2>1, <2>2 DEF Opened
<1>8. Behind(pre, m, Opened(c, name, m1)) = [c EXCEPT !.opened = 1, !.flag_m3u8 = m, !.segments = tt]
  <2>1. Opened(c, name, m1) = [c EXCEPT !.opened = 1, !.flag_m3u8 = m1, !.segments = aa]
    BY <1>2, <1>3, <1>6 DEF Opened, SignedContext
  <2>2. [[c EXCEPT !.opened = 1, !.flag_m3u8 = m1, !.segments = aa] EXCEPT !.segments = pre \o @, !.flag_m3u8 = m]
          = [c EXCEPT !.opened = 1, !.flag_m3u8 = m, !.segments = tt]
    BY <1>2, <1>6 DEF SignedContext
  <2> QED
    BY <2>1, <2>2 DEF Behind
<1> QED
  BY <1>7, <1>8

(* What is written last changes the last segment only. *)
Fronted(c, d) ==
  Len(d.segments) = Len(c.segments) /\ \A i \in 1 .. Len(c.segments) - 1 : d.segments[i] = c.segments[i]

LEMMA WrittenFront ==
  ASSUME NEW c, c.segments \in SignedSegments, c.segments # <<>>, NEW pes \in SignedPacket,
         NEW d, d.segments = WithFrame(c.segments, pes)
  PROVE  Fronted(c, d)
<1>1. PICK ss : ss = c.segments
  OBVIOUS
<1>2. ss \in SegmentSeq(Name, SignedPacket) /\ ss # <<>>
  BY <1>1 DEF SignedSegments
<1>3. /\ WithFrame(ss, pes) \in SegmentSeq(Name, SignedPacket) /\ Len(WithFrame(ss, pes)) = Len(ss)
      /\ WithFrame(ss, pes) # <<>>
      /\ \A i \in 1 .. Len(ss) - 1 : WithFrame(ss, pes)[i] = ss[i]
      /\ ss[Len(ss)].frames \in Seq(SignedPacket)
      /\ WithFrame(ss, pes)[Len(ss)].frames = Append(ss[Len(ss)].frames, pes)
      /\ WithFrame(ss, pes)[Len(ss)].name = ss[Len(ss)].name
  BY <1>2, FrameWritten
<1> QED
  BY <1>1, <1>3 DEF Fronted

LEMMA FlushFront ==
  ASSUME NEW c, Fit(c)
  PROVE  Fronted(c, FlushAudio(c))
<1>1. CASE c.opened = 0 \/ c.used = 0
  BY <1>1 DEF FlushAudio, Fronted
<1>2. CASE ~(c.opened = 0 \/ c.used = 0)
  <2>1. c.opened = 1 /\ c \in SignedContext /\ c.audio_cc \in Int /\ c.segments \in SignedSegments /\ c.segments # <<>>
    BY <1>2, SignedIs
  <2>2. PICK pes, m, d : pes = AudioPes(c) /\ m = c.audio_cc + AudioPackets(c.used) /\ d = FlushAudio(c)
    OBVIOUS
  <2>3. pes \in SignedPacket /\ m \in Int /\ d = Drained(c, WithFrame(c.segments, pes), m)
    BY <1>2, <2>1, <2>2, FlushDrains
  <2>4. WithFrame(c.segments, pes) \in SignedSegments /\ WithFrame(c.segments, pes) # <<>>
    BY <2>1, <2>3, WrittenSigned
  <2>5. d.segments = WithFrame(c.segments, pes)
    BY <2>1, <2>3, <2>4, DrainedIs
  <2> QED
    BY <2>1, <2>2, <2>3, <2>5, WrittenFront
<1> QED
  BY <1>1, <1>2

LEMMA VideoFront ==
  ASSUME NEW c, Fit(c), NEW v \in [ts : Nat, size : Nat, key : {0, 1}]
  PROVE  /\ Fronted(c, VideoEx(c, v))
         /\ c.used = 0 => /\ VideoEx(c, v).audio_cc = c.audio_cc /\ VideoEx(c, v).aframe_base = c.aframe_base
                          /\ VideoEx(c, v).aframe_pts = c.aframe_pts
<1>1. PICK u : u = LetOut(c, v)
  OBVIOUS
<1>2. Fit(u) /\ Fronted(c, u) /\ (c.used = 0 => u = c)
  <2>1. u \in {c, FlushAudio(c)}
    BY <1>1, UpdateFits DEF LetOut
  <2>2. Fronted(c, c)
    BY DEF Fronted
  <2>3. FlushAudio(c) = c \/ c.used # 0
    BY DEF FlushAudio
  <2> QED
    BY <2>1, <2>2, <2>3, FlushFits, FlushFront
<1>3. PICK d : d = [Put(u, VideoPes(u, v)) EXCEPT !.video_cc = @ + VideoPackets(v)]
  OBVIOUS
<1>4. VideoEx(c, v) = IF v.size + 6 > VideoBufferSize THEN c ELSE IF u.opened = 0 THEN u ELSE d
  BY <1>1, <1>3 DEF VideoEx, VideoPes, LetOut
<1>5. ASSUME u.opened # 0
      PROVE  Fronted(u, d) /\ d.audio_cc = u.audio_cc /\ d.aframe_base = u.aframe_base /\ d.aframe_pts = u.aframe_pts
  <2>1. /\ u.opened = 1 /\ u \in SignedContext /\ u.segments \in SignedSegments /\ u.segments # <<>>
        /\ u.video_cc \in Int
    BY <1>2, <1>5, SignedIs
  <2>2. PICK pes : pes = VideoPes(u, v)
    OBVIOUS
  <2>3. PICK cc \in Int : cc = u.video_cc + VideoPackets(v)
    <3>1. VideoPackets(v) \in Nat
      BY <1>2, <2>1, PictureFilms
    <3> QED
      BY <2>1, <3>1
  <2>4. pes \in SignedPacket /\ d = Filmed(u, WithFrame(u.segments, pes), cc)
    BY <1>2, <1>3, <2>1, <2>2, <2>3, PictureFilms
  <2>5. PICK ss \in SignedSegments : ss = WithFrame(u.segments, pes) /\ ss # <<>>
    BY <2>1, <2>4, WrittenSigned
  <2>6. FilmedIs(u, d, ss, cc)
    BY <2>1, <2>4, <2>5, FilmedSigned
  <2>7. Fronted(u, d)
    BY <2>1, <2>4, <2>5, <2>6, WrittenFront DEF FilmedIs
  <2> QED
    BY <2>6, <2>7 DEF FilmedIs
<1>6. Fronted(c, c)
  BY DEF Fronted
<1>7. u.opened # 0 => Fronted(c, d)
  BY <1>2, <1>5 DEF Fronted
<1> QED
  BY <1>2, <1>4, <1>5, <1>6, <1>7

(* A context with nothing buffered is one just created, with other         *)
(* segments before its own.                                                *)
LEMMA FreshOpens ==
  ASSUME NEW e, Fit(e), e.opened = 0, e.used = 0, e.held = <<>>, e.aframe_num = 0,
         NEW name \in Name, NEW m \in {0, 1},
         NEW c, c = NewContext(e.audio_cc, e.video_cc, e.aframe_base, e.aframe_pts)
  PROVE  /\ Fit(c) /\ c.opened = 0 /\ c.used = 0
         /\ Opened(e, name, m) = Behind(e.segments, m, Opened(c, name, 0))
<1>1. /\ e \in SignedContext /\ e.flag_m3u8 \in {0, 1} /\ e.segments \in SignedSegments
      /\ e.audio_cc \in Int /\ e.video_cc \in Int /\ e.aframe_base \in Int /\ e.aframe_pts \in Int
  BY SignedIs DEF SignedContext
<1>2. <<>> \in SignedSegments /\ <<>> \in Seq(Frame)
  BY DEF SignedSegments, SegmentSeq
<1>3. /\ c \in SignedContext /\ c.opened = 0 /\ c.used = 0 /\ c.segments = <<>> /\ c.held = <<>>
      /\ c.aframe_num = 0 /\ c.audio_cc = e.audio_cc /\ c.video_cc = e.video_cc
      /\ c.aframe_base = e.aframe_base /\ c.aframe_pts = e.aframe_pts
  BY <1>1, <1>2 DEF NewContext, SignedContext
<1>4. Fit(c)
  BY <1>3 DEF Fit
<1>5. PICK ss, f : ss = e.segments /\ f = e.flag_m3u8
  OBVIOUS
<1>6. ss \o <<>> = ss
  BY <1>1, <1>5, SignedBasics
<1>7. PICK b : b = Behind(ss, f, c)
  OBVIOUS
<1>8. /\ b \in SignedContext /\ b.segments = ss /\ b.flag_m3u8 = f
      /\ b.opened = c.opened /\ b.used = c.used /\ b.held = c.held /\ b.aframe_num = c.aframe_num
      /\ b.aframe_base = c.aframe_base /\ b.aframe_pts = c.aframe_pts
      /\ b.audio_cc = c.audio_cc /\ b.video_cc = c.video_cc
  <2>1. c.segments = <<>> /\ ss \in SignedSegments /\ f \in {0, 1}
    BY <1>1, <1>3, <1>5
  <2>2. /\ Fit(b) /\ b.segments = ss \o c.segments /\ b.flag_m3u8 = f
        /\ b.opened = c.opened /\ b.used = c.used /\ b.held = c.held /\ b.aframe_num = c.aframe_num
        /\ b.aframe_base = c.aframe_base /\ b.aframe_pts = c.aframe_pts
        /\ b.audio_cc = c.audio_cc /\ b.video_cc = c.video_cc
    <3>1. ASSUME NEW y, Fit(y)
          PROVE  LET v == Behind(ss, f, y)
                 IN  /\ Fit(v) /\ v.segments = ss \o y.segments /\ v.flag_m3u8 = f
                     /\ v.opened = y.opened /\ v.used = y.used /\ v.held = y.held
                     /\ v.aframe_num = y.aframe_num /\ v.aframe_base = y.aframe_base
                     /\ v.aframe_pts = y.aframe_pts /\ v.audio_cc = y.audio_cc /\ v.video_cc = y.video_cc
      BY <2>1, <3>1, BehindFits
    <3> QED
      BY <1>4, <1>7, <3>1
  <2>3. b.segments = ss
    BY <1>6, <2>1, <2>2
  <2>4. b \in SignedContext
    BY <2>2 DEF Fit
  <2> QED
    BY <2>2, <2>3, <2>4
<1>9. e = b
  <2>1. ASSUME NEW x \in SignedContext, NEW y \in SignedContext,
               x.opened = y.opened, x.flag_m3u8 = y.flag_m3u8, x.used = y.used, x.held = y.held,
               x.aframe_num = y.aframe_num, x.aframe_base = y.aframe_base, x.aframe_pts = y.aframe_pts,
               x.audio_cc = y.audio_cc, x.video_cc = y.video_cc, x.segments = y.segments
        PROVE  x = y
    BY <2>1 DEF SignedContext
  <2> QED
    BY <1>1, <1>3, <1>5, <1>8, <2>1
<1>10. Opened(b, name, m) = Behind(ss, m, Opened(c, name, 0))
  BY <1>1, <1>4, <1>5, <1>7, OpenedBehind
<1> QED
  BY <1>3, <1>4, <1>5, <1>9, <1>10

(* Counting keys from a cut on comes to the same cuts and segment numbers. *)
LEMMA Quotient ==
  ASSUME NEW n \in Nat \ {0}, NEW q \in Int, NEW r \in Nat, r < n, NEW a, a = n * q + r
  PROVE  a \div n = q /\ a % n = r
<1>1. a \in Int
  OBVIOUS
<1>2. PICK u \in Int, s \in Int : u = a \div n /\ s = a % n
  BY <1>1
<1>3. 0 <= s /\ s < n
  BY <1>1, <1>2
<1>4. a = n * u + s
  BY <1>1, <1>2
<1>5. ASSUME NEW k \in Int, k >= 1 PROVE n * k >= n
  <2>1. PICK j \in Nat : j = k - 1
    BY <1>5
  <2>2. n * j >= 0
    OBVIOUS
  <2>3. n * k = n * j + n
    BY <2>1
  <2> QED
    BY <2>2, <2>3
<1>6. n * (q - u) = s - r /\ n * (u - q) = r - s
  BY <1>4
<1>7. ~(q - u >= 1)
  <2>1. PICK k \in Int : k = q - u
    OBVIOUS
  <2> QED
    BY <1>3, <1>5, <1>6, <2>1
<1>8. ~(u - q >= 1)
  <2>1. PICK k \in Int : k = u - q
    OBVIOUS
  <2> QED
    BY <1>3, <1>5, <1>6, <2>1
<1>9. u = q
  BY <1>7, <1>8
<1>10. n * u = n * q
  BY <1>9
<1>11. PICK x \in Int : x = n * q
  OBVIOUS
<1>12. s = r
  BY <1>3, <1>4, <1>10, <1>11
<1> QED
  BY <1>2, <1>9, <1>12

LEMMA DividedIs ==
  ASSUME NEW n \in Nat \ {0}, NEW a \in Int
  PROVE  /\ a \div n \in Int /\ a % n \in Nat /\ (a % n) < n
         /\ a = n * (a \div n) + (a % n)
<1>1. a \div n \in Int /\ a % n \in Nat /\ (a % n) < n
  OBVIOUS
<1>2. a = n * (a \div n) + (a % n)
  OBVIOUS
<1> QED
  BY <1>1, <1>2

LEMMA CutsAgree ==
  ASSUME NEW n \in Nat \ {0}, NEW k \in Nat, NEW j \in Nat, j % n = 0
  PROVE  (k + j) % n = k % n
<1>1. PICK u \in Int, q \in Int, r \in Nat : u = j \div n /\ q = k \div n /\ r = k % n
  BY DividedIs
<1>2. j = n * u + 0 /\ k = n * q + r /\ r < n
  BY <1>1, DividedIs
<1>3. n * (q + u) = n * q + n * u
  OBVIOUS
<1>4. PICK x \in Int, y \in Int : x = n * q /\ y = n * u
  OBVIOUS
<1>5. k + j = n * (q + u) + r
  BY <1>2, <1>3, <1>4
<1>6. PICK z \in Int : z = q + u
  OBVIOUS
<1>7. PICK a \in Nat : a = k + j
  OBVIOUS
<1>8. a = n * z + r
  BY <1>5, <1>6, <1>7
<1>9. r < n /\ r \in Nat /\ z \in Int
  BY <1>1, <1>2, <1>6
<1>10. a % n = r
  BY <1>8, <1>9, Quotient
<1> QED
  BY <1>1, <1>7, <1>10

LEMMA CountSteps ==
  ASSUME NEW n \in Nat \ {0}, NEW k \in Nat \ {0}
  PROVE  (k - 1) \div n + (IF k % n = 0 THEN 1 ELSE 0) = k \div n
<1>1. PICK q \in Int, r \in Nat : q = k \div n /\ r = k % n
  BY DividedIs
<1>2. k = n * q + r /\ r < n
  BY <1>1, DividedIs
<1>3. CASE r = 0
  <2>1. n * (q - 1) = n * q - n
    OBVIOUS
  <2>2. PICK x \in Int : x = n * q
    OBVIOUS
  <2>3. PICK s \in Nat, u \in Int : s = n - 1 /\ u = q - 1
    OBVIOUS
  <2>4. k - 1 = n * u + s /\ s < n
    BY <1>2, <1>3, <2>1, <2>2, <2>3
  <2>5. (k - 1) \div n = u
    BY <2>4, Quotient
  <2> QED
    BY <1>1, <1>3, <2>3, <2>5
<1>4. CASE r # 0
  <2>1. PICK x \in Int : x = n * q
    OBVIOUS
  <2>2. PICK s \in Nat : s = r - 1
    BY <1>4
  <2>3. k - 1 = n * q + s /\ s < n
    BY <1>2, <2>1, <2>2
  <2>4. (k - 1) \div n = q
    BY <2>3, Quotient
  <2> QED
    BY <1>1, <1>4, <2>4
<1> QED
  BY <1>3, <1>4

-----------------------------------------------------------------------------
Packet == [pid : {AudioPid, VideoPid}, dts : Nat, cc : Nat, n : Nat, es : Seq(Frame)]

WriterType ==
  [ opened : {0, 1}, flag_m3u8 : {0, 1}, used : Nat, held : Seq(Frame),
    aframe_num : Nat, aframe_base : Nat, aframe_pts : Nat,
    audio_cc : Nat, video_cc : Nat, segments : SegmentSeq(Name, Packet) ]

WellFormed(c) ==
  /\ c \in WriterType
  /\ c.opened = 1 => c.segments # <<>> /\ c.used <= AudioBufferSize
  /\ c.used = 0 => c.held = <<>>

CounterOf(c, pid) == IF pid = AudioPid THEN c.audio_cc ELSE c.video_cc

NamedCounter(name, pid) == IF pid = AudioPid THEN name.ac ELSE name.vc

(* d is c with one more packet in the open segment, which continues its    *)
(* stream's counter and takes along the buffer if it is an audio packet.   *)
Sent(c, d, pes) ==
  /\ pes \in Packet /\ c.opened = 1 /\ d.opened = 1
  /\ d.segments = WithFrame(c.segments, pes)
  /\ pes.cc = CounterOf(c, pes.pid)
  /\ IF pes.pid = AudioPid THEN pes.es = c.held /\ d.held = <<>> /\ d.video_cc = c.video_cc
                           ELSE d.held = c.held /\ d.audio_cc = c.audio_cc

(* Nothing was written. *)
Idle(c, d) ==
  /\ d.opened = c.opened /\ d.segments = c.segments
  /\ d.audio_cc = c.audio_cc /\ d.video_cc = c.video_cc

LEMMA LastSegment ==
  ASSUME NEW c, WellFormed(c), c.opened = 1
  PROVE  /\ c.segments \in SegmentSeq(Name, Packet) /\ c.segments # <<>>
         /\ Len(c.segments) \in Nat /\ Len(c.segments) \in 1 .. Len(c.segments)
<1>1. c.segments \in SegmentSeq(Name, Packet) /\ c.segments # <<>>
  BY DEF WellFormed, WriterType
<1>2. ASSUME NEW T, NEW x \in Seq(T), x # <<>> PROVE Len(x) \in Nat /\ Len(x) \in 1 .. Len(x)
  BY <1>2
<1> QED
  BY <1>1, <1>2 DEF SegmentSeq

(* The tracks of the segments, audio counted where it waits. *)
HeldIn(c, i) == IF i = Len(c.segments) THEN c.held ELSE <<>>

TracksOf(c) ==
  [ i \in 1 .. Len(c.segments) |->
      [ video |-> FramesIn(c.segments[i], VideoPid),
        audio |-> FramesIn(c.segments[i], AudioPid) \o HeldIn(c, i) ] ]

(* d has the tracks and names of c. *)
Keeps(c, d) == TracksOf(d) = TracksOf(c) /\ NamesOf(d) = NamesOf(c)

(* The pictures in all segments. *)
Film(c) == VideosOf(TracksOf(c))

LEMMA SegmentType ==
  ASSUME NEW c \in WriterType, NEW i \in 1 .. Len(c.segments), NEW pid
  PROVE  /\ c.segments[i].name \in Name /\ c.segments[i].frames \in Seq(Packet)
         /\ Carries(c.segments[i], pid, Frame) /\ FramesIn(c.segments[i], pid) \in Seq(Frame)
<1>1. c.segments[i] \in [name : Name, frames : Seq(Packet)]
  BY ElementOfSeq DEF WriterType, SegmentSeq
<1>2. PICK s \in [name : Name, frames : Seq(Packet)] : s = c.segments[i]
  BY <1>1
<1>3. s.frames \in Seq(Packet) /\ s.name \in Name
  BY <1>2
<1>4. ASSUME NEW j \in 1 .. Len(s.frames) PROVE s.frames[j].es \in Seq(Frame)
  <2>1. s.frames[j] \in Packet
    BY <1>3, ElementOfSeq
  <2> QED
    BY <2>1 DEF Packet
<1>5. Carries(s, pid, Frame)
  BY <1>4 DEF Carries
<1>6. FramesIn(s, pid) \in Seq(Frame)
  BY <1>3, <1>5, StreamsType
<1> QED
  BY <1>2, <1>3, <1>5, <1>6

LEMMA TracksType ==
  ASSUME NEW c \in WriterType
  PROVE  /\ Len(c.segments) \in Nat
         /\ TracksOf(c) \in Seq(Track) /\ Len(TracksOf(c)) = Len(c.segments)
         /\ NamesOf(c) \in Seq(Name) /\ Len(NamesOf(c)) = Len(c.segments)
         /\ \A i \in 1 .. Len(c.segments) :
              /\ TracksOf(c)[i].video = FramesIn(c.segments[i], VideoPid)
              /\ TracksOf(c)[i].audio = FramesIn(c.segments[i], AudioPid) \o HeldIn(c, i)
              /\ NamesOf(c)[i] = c.segments[i].name
<1>1. Len(c.segments) \in Nat
  BY LenProperties DEF WriterType, SegmentSeq
<1>2. ASSUME NEW i \in 1 .. Len(c.segments)
      PROVE  [ video |-> FramesIn(c.segments[i], VideoPid),
               audio |-> FramesIn(c.segments[i], AudioPid) \o HeldIn(c, i) ] \in Track
  <2>1. FramesIn(c.segments[i], VideoPid) \in Seq(Frame) /\ FramesIn(c.segments[i], AudioPid) \in Seq(Frame)
    BY SegmentType
  <2>2. HeldIn(c, i) \in Seq(Frame)
    BY DEF HeldIn, WriterType
  <2>3. FramesIn(c.segments[i], AudioPid) \o HeldIn(c, i) \in Seq(Frame)
    BY <2>1, <2>2, ConcatProperties
  <2> QED
    BY <2>1, <2>3 DEF Track
<1>3. TracksOf(c) \in [1 .. Len(c.segments) -> Track]
  BY <1>2 DEF TracksOf
<1>4. TracksOf(c) \in Seq(Track) /\ Len(TracksOf(c)) = Len(c.segments)
  BY <1>1, <1>3, FunctionIsSeq
<1>5. \A i \in 1 .. Len(c.segments) : c.segments[i].name \in Name
  BY SegmentType
<1>6. NamesOf(c) \in [1 .. Len(c.segments) -> Name]
  BY <1>5 DEF NamesOf
<1>7. NamesOf(c) \in Seq(Name) /\ Len(NamesOf(c)) = Len(c.segments)
  BY <1>1, <1>6, FunctionIsSeq
<1>8. \A i \in 1 .. Len(c.segments) :
        /\ TracksOf(c)[i].video = FramesIn(c.segments[i], VideoPid)
        /\ TracksOf(c)[i].audio = FramesIn(c.segments[i], AudioPid) \o HeldIn(c, i)
        /\ NamesOf(c)[i] = c.segments[i].name
  BY DEF TracksOf, NamesOf
<1> QED
  BY <1>1, <1>4, <1>7, <1>8

(* What a packet does to the tracks. *)
Heard(c, d, a) == Idle(c, d) /\ d.held = Append(c.held, a)

LEMMA SentSegments ==
  ASSUME NEW c, WellFormed(c), NEW d, NEW pes, Sent(c, d, pes)
  PROVE  LET n == Len(c.segments)
         IN  /\ n \in Nat /\ n \in 1 .. n /\ Len(d.segments) = n
             /\ \A i \in 1 .. n - 1 : d.segments[i] = c.segments[i]
             /\ c.segments[n].frames \in Seq(Packet)
             /\ d.segments[n].frames = Append(c.segments[n].frames, pes)
             /\ d.segments[n].name = c.segments[n].name
<1>1. PICK ss : ss = c.segments
  OBVIOUS
<1>2. ss \in SegmentSeq(Name, Packet) /\ ss # <<>> /\ pes \in Packet
  BY <1>1, LastSegment DEF Sent
<1>3. /\ Len(ss) \in Nat /\ Len(ss) \in 1 .. Len(ss) /\ Len(WithFrame(ss, pes)) = Len(ss)
      /\ \A i \in 1 .. Len(ss) - 1 : WithFrame(ss, pes)[i] = ss[i]
      /\ ss[Len(ss)].frames \in Seq(Packet)
      /\ WithFrame(ss, pes)[Len(ss)].frames = Append(ss[Len(ss)].frames, pes)
      /\ WithFrame(ss, pes)[Len(ss)].name = ss[Len(ss)].name
  BY <1>2, FrameWritten
<1> QED
  BY <1>1, <1>3 DEF Sent

(* The frames of a stream in the last segment after a packet. *)
(* A packet's frames join those of its stream. *)
Joined(s, t, pes, pid) ==
  FramesIn(t, pid) = IF pes.pid = pid THEN FramesIn(s, pid) \o pes.es ELSE FramesIn(s, pid)

LEMMA PacketFrames ==
  ASSUME NEW S, NEW T, NEW s, s.frames \in Seq(T), NEW pes \in T, 
         NEW t, t.frames = Append(s.frames, pes), NEW pid, Carries(s, pid, S), pes.es \in Seq(S)
  PROVE  FramesIn(s, pid) \in Seq(S) /\ Joined(s, t, pes, pid)
<1>1. pes.pid = pid => pes.es \in Seq(S)
  OBVIOUS
<1>2. /\ Carries(t, pid, S)
      /\ FramesIn(s, pid) \in Seq(S)
      /\ FramesIn(t, pid) = IF pes.pid = pid THEN FramesIn(s, pid) \o pes.es
                                             ELSE FramesIn(s, pid)
  BY ZenonT(30), <1>1, FramesAppend
<1> QED
  BY <1>2 DEF Joined

LEMMA SentFrames ==
  ASSUME NEW c, WellFormed(c), NEW d, NEW pes, Sent(c, d, pes), NEW pid
  PROVE  LET n == Len(c.segments)
         IN  /\ FramesIn(c.segments[n], pid) \in Seq(Frame)
             /\ FramesIn(d.segments[n], pid) = IF pes.pid = pid THEN FramesIn(c.segments[n], pid) \o pes.es
                                                                ELSE FramesIn(c.segments[n], pid)
<1> DEFINE n == Len(c.segments)
<1>1. /\ n \in 1 .. n /\ c.segments[n].frames \in Seq(Packet)
      /\ d.segments[n].frames = Append(c.segments[n].frames, pes)
  BY SentSegments
<1>2. PICK s, t : s = c.segments[n] /\ t = d.segments[n]
  OBVIOUS
<1>3. Carries(s, pid, Frame)
  BY <1>1, <1>2, SegmentType DEF WellFormed
<1>4. pes \in Packet /\ pes.es \in Seq(Frame)
  BY DEF Sent, Packet
<1>5. s.frames \in Seq(Packet) /\ t.frames = Append(s.frames, pes) /\ (pes.pid = pid => pes.es \in Seq(Frame))
  BY <1>1, <1>2, <1>4
<1>6. FramesIn(s, pid) \in Seq(Frame) /\ Joined(s, t, pes, pid)
  <2>1. PICK S, T : S = Frame /\ T = Packet
    OBVIOUS
  <2>2. /\ s.frames \in Seq(T) /\ pes \in T /\ t.frames = Append(s.frames, pes)
        /\ Carries(s, pid, S) /\ pes.es \in Seq(S)
    BY <1>3, <1>4, <1>5, <2>1
  <2>3. FramesIn(s, pid) \in Seq(S) /\ Joined(s, t, pes, pid)
    BY <2>2, PacketFrames, Zenon
  <2> QED
    BY <2>1, <2>3
<1> QED
  BY <1>2, <1>6 DEF Joined

LEMMA SentNames ==
  ASSUME NEW c, WellFormed(c), NEW d \in WriterType, NEW pes, Sent(c, d, pes)
  PROVE  NamesOf(d) = NamesOf(c)
<1> DEFINE n == Len(c.segments)
<1>1. /\ n \in Nat /\ Len(d.segments) = n
      /\ \A i \in 1 .. n - 1 : d.segments[i] = c.segments[i]
      /\ d.segments[n].name = c.segments[n].name
  BY SentSegments
<1>2. ASSUME NEW i \in 1 .. n PROVE d.segments[i].name = c.segments[i].name
  <2>1. CASE i = n
    BY <1>1, <2>1
  <2>2. CASE i # n
    <3>1. i \in 1 .. n - 1
      BY <1>1, <2>2
    <3> QED
      BY <1>1, <3>1
  <2> QED
    BY <2>1, <2>2
<1> QED
  BY <1>1, <1>2 DEF NamesOf

(* An audio packet takes along what is held: the tracks stay as they are.  *)
LEMMA AudioSentKeeps ==
  ASSUME NEW c, WellFormed(c), NEW d \in WriterType, NEW pes, Sent(c, d, pes), pes.pid = AudioPid
  PROVE  Keeps(c, d)
<1> DEFINE n == Len(c.segments)
<1>1. /\ n \in Nat /\ n \in 1 .. n /\ Len(d.segments) = n
      /\ \A i \in 1 .. n - 1 : d.segments[i] = c.segments[i]
  BY SentSegments
<1>2. c \in WriterType
  BY DEF WellFormed
<1>3. /\ TracksOf(c) \in Seq(Track) /\ Len(TracksOf(c)) = n
      /\ \A i \in 1 .. n : /\ TracksOf(c)[i].video = FramesIn(c.segments[i], VideoPid)
                           /\ TracksOf(c)[i].audio = FramesIn(c.segments[i], AudioPid) \o HeldIn(c, i)
  BY <1>2, TracksType
<1>4. /\ TracksOf(d) \in Seq(Track) /\ Len(TracksOf(d)) = n
      /\ \A i \in 1 .. n : /\ TracksOf(d)[i].video = FramesIn(d.segments[i], VideoPid)
                           /\ TracksOf(d)[i].audio = FramesIn(d.segments[i], AudioPid) \o HeldIn(d, i)
  BY <1>1, TracksType
<1>5. ASSUME NEW i \in 1 .. n
      PROVE  /\ FramesIn(d.segments[i], VideoPid) = FramesIn(c.segments[i], VideoPid)
             /\ FramesIn(d.segments[i], AudioPid) \o HeldIn(d, i)
                  = FramesIn(c.segments[i], AudioPid) \o HeldIn(c, i)
  <2>1. CASE i = n
    <3>1. FramesIn(d.segments[n], VideoPid) = FramesIn(c.segments[n], VideoPid)
      BY SentFrames DEF AudioPid, VideoPid
    <3>2. PICK x \in Seq(Frame), h \in Seq(Frame) :
            /\ x = FramesIn(c.segments[n], AudioPid) /\ h = c.held
            /\ FramesIn(d.segments[n], AudioPid) = x \o h
      <4>1. /\ FramesIn(c.segments[n], AudioPid) \in Seq(Frame)
            /\ FramesIn(d.segments[n], AudioPid) = FramesIn(c.segments[n], AudioPid) \o pes.es
        BY SentFrames
      <4>2. c.held \in Seq(Frame) /\ pes.es = c.held
        BY <1>2 DEF WriterType, Sent
      <4> QED
        BY <4>1, <4>2
    <3>3. HeldIn(c, n) = h /\ HeldIn(d, n) = <<>>
      BY <1>1, <3>2 DEF HeldIn, Sent
    <3>4. (x \o h) \o <<>> = x \o h
      BY <3>2, ConcatProperties, ConcatEmptySeq
    <3> QED
      BY <2>1, <3>1, <3>2, <3>3, <3>4
  <2>2. CASE i # n
    <3>1. i \in 1 .. n - 1
      BY <1>1, <2>2
    <3>2. HeldIn(c, i) = <<>> /\ HeldIn(d, i) = <<>>
      BY <1>1, <2>2 DEF HeldIn
    <3> QED
      BY <1>1, <3>1, <3>2
  <2> QED
    BY <2>1, <2>2
<1>6. TracksOf(d) = TracksOf(c)
  <2>1. PICK s \in Seq(Track), t \in Seq(Track) : s = TracksOf(c) /\ t = TracksOf(d)
    BY <1>3, <1>4
  <2>2. Len(s) = n /\ Len(t) = n
    BY <1>3, <1>4, <2>1
  <2>3. ASSUME NEW i \in 1 .. n PROVE s[i].video = t[i].video /\ s[i].audio = t[i].audio
    BY <1>3, <1>4, <1>5, <2>1
  <2> HIDE DEF n
  <2>4. s = t
    BY <2>1, <2>2, <2>3, TracksEqual
  <2> QED
    BY <2>1, <2>4
<1> QED
  BY <1>6, SentNames DEF Keeps

(* A video packet is one frame at the end of the last video track. *)
LEMMA VideoSentAdds ==
  ASSUME NEW c, WellFormed(c), NEW d \in WriterType, NEW pes, Sent(c, d, pes), pes.pid = VideoPid,
         NEW f \in Frame, pes.es = <<f>>
  PROVE  TracksOf(d) = WithVideo(TracksOf(c), f) /\ NamesOf(d) = NamesOf(c)
<1> DEFINE n == Len(c.segments)
<1>1. /\ n \in Nat /\ n \in 1 .. n /\ Len(d.segments) = n
      /\ \A i \in 1 .. n - 1 : d.segments[i] = c.segments[i]
  BY SentSegments
<1>2. c \in WriterType
  BY DEF WellFormed
<1>3. /\ TracksOf(c) \in Seq(Track) /\ Len(TracksOf(c)) = n
      /\ \A i \in 1 .. n : /\ TracksOf(c)[i].video = FramesIn(c.segments[i], VideoPid)
                           /\ TracksOf(c)[i].audio = FramesIn(c.segments[i], AudioPid) \o HeldIn(c, i)
  BY <1>2, TracksType
<1>4. /\ TracksOf(d) \in Seq(Track) /\ Len(TracksOf(d)) = n
      /\ \A i \in 1 .. n : /\ TracksOf(d)[i].video = FramesIn(d.segments[i], VideoPid)
                           /\ TracksOf(d)[i].audio = FramesIn(d.segments[i], AudioPid) \o HeldIn(d, i)
  BY <1>1, TracksType
<1>5. ASSUME NEW i \in 1 .. n
      PROVE  /\ FramesIn(d.segments[i], VideoPid)
                  = IF i = n THEN Append(FramesIn(c.segments[i], VideoPid), f)
                             ELSE FramesIn(c.segments[i], VideoPid)
             /\ FramesIn(d.segments[i], AudioPid) \o HeldIn(d, i)
                  = FramesIn(c.segments[i], AudioPid) \o HeldIn(c, i)
  <2>1. CASE i = n
    <3>1. FramesIn(d.segments[n], AudioPid) = FramesIn(c.segments[n], AudioPid)
      <4>1. pes.pid # AudioPid
        BY DEF AudioPid, VideoPid
      <4> QED
        BY <4>1, SentFrames
    <3>2. PICK x \in Seq(Frame) :
            /\ x = FramesIn(c.segments[n], VideoPid)
            /\ FramesIn(d.segments[n], VideoPid) = x \o <<f>>
      <4>1. /\ FramesIn(c.segments[n], VideoPid) \in Seq(Frame)
            /\ FramesIn(d.segments[n], VideoPid)
                 = FramesIn(c.segments[n], VideoPid) \o pes.es
        BY SentFrames
      <4> QED
        BY <4>1
    <3>3. HeldIn(c, n) = HeldIn(d, n)
      BY <1>1 DEF HeldIn, Sent, AudioPid, VideoPid
    <3>4. x \o <<f>> = Append(x, f)
      BY <3>2
    <3> QED
      BY <2>1, <3>1, <3>2, <3>3, <3>4
  <2>2. CASE i # n
    <3>1. i \in 1 .. n - 1
      BY <1>1, <2>2
    <3>2. HeldIn(c, i) = <<>> /\ HeldIn(d, i) = <<>>
      BY <1>1, <2>2 DEF HeldIn
    <3> QED
      BY <1>1, <2>2, <3>1, <3>2
  <2> QED
    BY <2>1, <2>2
<1>6. TracksOf(d) = WithVideo(TracksOf(c), f)
  <2>1. PICK ts \in Seq(Track) : ts = TracksOf(c)
    BY <1>3
  <2>2. Len(ts) = n /\ ts # <<>>
    BY <1>1, <1>3, <2>1
  <2>3. /\ WithVideo(ts, f) \in Seq(Track) /\ Len(WithVideo(ts, f)) = Len(ts)
        /\ \A i \in 1 .. Len(ts) :
             /\ WithVideo(ts, f)[i].video = IF i = Len(ts) THEN Append(ts[i].video, f) ELSE ts[i].video
             /\ WithVideo(ts, f)[i].audio = ts[i].audio
    BY <2>1, <2>2, WithVideoType
  <2>4. PICK us \in Seq(Track) : us = WithVideo(ts, f)
    BY <2>3
  <2>5. ASSUME NEW i \in 1 .. n
        PROVE  TracksOf(d)[i].video = us[i].video /\ TracksOf(d)[i].audio = us[i].audio
    <3>1. /\ us[i].video = IF i = n THEN Append(ts[i].video, f) ELSE ts[i].video
          /\ us[i].audio = ts[i].audio
      BY <2>2, <2>3, <2>4
    <3> QED
      BY <1>3, <1>4, <1>5, <2>1, <3>1
  <2> HIDE DEF n
  <2>6. TracksOf(d) = us
    BY <1>4, <2>2, <2>3, <2>4, <2>5, TracksEqual
  <2> QED
    BY <2>1, <2>4, <2>6
<1> QED
  BY <1>6, SentNames

(* An audio frame that waits in the buffer of an open fragment. *)
LEMMA HeardAdds ==
  ASSUME NEW c, WellFormed(c), c.opened = 1, NEW d \in WriterType, NEW f \in Frame, Heard(c, d, f)
  PROVE  TracksOf(d) = WithAudio(TracksOf(c), f) /\ NamesOf(d) = NamesOf(c)
<1> DEFINE n == Len(c.segments)
<1>1. n \in Nat /\ n \in 1 .. n /\ d.segments = c.segments
  BY LastSegment DEF Heard, Idle
<1>2. c \in WriterType /\ c.held \in Seq(Frame)
  BY DEF WellFormed, WriterType
<1>3. /\ TracksOf(c) \in Seq(Track) /\ Len(TracksOf(c)) = n
      /\ \A i \in 1 .. n : /\ TracksOf(c)[i].video = FramesIn(c.segments[i], VideoPid)
                           /\ TracksOf(c)[i].audio = FramesIn(c.segments[i], AudioPid) \o HeldIn(c, i)
  BY <1>2, TracksType
<1>4. /\ TracksOf(d) \in Seq(Track) /\ Len(TracksOf(d)) = n
      /\ \A i \in 1 .. n : /\ TracksOf(d)[i].video = FramesIn(d.segments[i], VideoPid)
                           /\ TracksOf(d)[i].audio = FramesIn(d.segments[i], AudioPid) \o HeldIn(d, i)
  BY <1>1, TracksType
<1>5. ASSUME NEW i \in 1 .. n
      PROVE  FramesIn(d.segments[i], AudioPid) \o HeldIn(d, i)
               = IF i = n THEN Append(FramesIn(c.segments[i], AudioPid) \o HeldIn(c, i), f)
                          ELSE FramesIn(c.segments[i], AudioPid) \o HeldIn(c, i)
  <2>1. CASE i = n
    <3>1. PICK x \in Seq(Frame), h \in Seq(Frame) : x = FramesIn(c.segments[n], AudioPid) /\ h = c.held
      BY <1>1, <1>2, SegmentType
    <3>2. HeldIn(c, n) = h /\ HeldIn(d, n) = Append(h, f)
      BY <1>1, <3>1 DEF HeldIn, Heard
    <3>3. x \o Append(h, f) = Append(x \o h, f)
      <4>1. \A y, z \in Seq(Frame) : y \o Append(z, f) = Append(y \o z, f)
        OBVIOUS
      <4> QED
        BY <3>1, <4>1
    <3> QED
      BY <1>1, <2>1, <3>1, <3>2, <3>3
  <2>2. CASE i # n
    BY <1>1, <2>2 DEF HeldIn
  <2> QED
    BY <2>1, <2>2
<1>6. TracksOf(d) = WithAudio(TracksOf(c), f)
  <2>1. PICK ts \in Seq(Track) : ts = TracksOf(c)
    BY <1>3
  <2>2. Len(ts) = n /\ ts # <<>>
    BY <1>1, <1>3, <2>1
  <2>3. /\ WithAudio(ts, f) \in Seq(Track) /\ Len(WithAudio(ts, f)) = Len(ts)
        /\ \A i \in 1 .. Len(ts) :
             /\ WithAudio(ts, f)[i].audio = IF i = Len(ts) THEN Append(ts[i].audio, f) ELSE ts[i].audio
             /\ WithAudio(ts, f)[i].video = ts[i].video
    BY <2>1, <2>2, WithAudioType
  <2>4. PICK us \in Seq(Track) : us = WithAudio(ts, f)
    BY <2>3
  <2>5. ASSUME NEW i \in 1 .. n
        PROVE  TracksOf(d)[i].video = us[i].video /\ TracksOf(d)[i].audio = us[i].audio
    <3>1. /\ us[i].audio = IF i = n THEN Append(ts[i].audio, f) ELSE ts[i].audio
          /\ us[i].video = ts[i].video
      BY <2>2, <2>3, <2>4
    <3> QED
      BY <1>1, <1>3, <1>4, <1>5, <2>1, <3>1
  <2> HIDE DEF n
  <2>6. TracksOf(d) = us
    BY ZenonT(60), <1>4, <2>2, <2>3, <2>4, <2>5, TracksEqual
  <2> QED
    BY <2>1, <2>4, <2>6
<1> QED
  BY <1>1, <1>6 DEF NamesOf

LEMMA FilmIs ==
  ASSUME NEW c \in WriterType, NEW d \in WriterType, d.segments = c.segments
  PROVE  Film(d) = Film(c)
<1>1. PICK n \in Nat : n = Len(c.segments)
  BY TracksType
<1>2. PICK s, r : s = TracksOf(c) /\ r = TracksOf(d)
  OBVIOUS
<1>3. /\ Len(s) = n /\ Len(r) = n
      /\ \A i \in 1 .. n : s[i].video = FramesIn(c.segments[i], VideoPid) /\ r[i].video = s[i].video
  BY <1>1, <1>2, TracksType
<1>4. [i \in 1 .. n |-> s[i].video] = [i \in 1 .. n |-> r[i].video]
  BY <1>3
<1> QED
  BY <1>2, <1>3, <1>4 DEF Film, VideosOf

(* A fragment that opens, and audio waits if the buffer is not empty. *)
LEMMA OpenedAdds ==
  ASSUME NEW c \in WriterType, NEW d \in WriterType, NEW name \in Name, d.held = c.held,
         d.segments = Append(c.segments, [name |-> name, frames |-> <<>>])
  PROVE  /\ c.held = <<>> => TracksOf(d) = Append(TracksOf(c), [video |-> <<>>, audio |-> <<>>])
         /\ NamesOf(d) = Append(NamesOf(c), name)
         /\ Film(d) = Film(c)
<1> DEFINE n == Len(c.segments)
           e == [name |-> name, frames |-> <<>>]
           x == [video |-> <<>>, audio |-> <<>>]
<1>1. /\ n \in Nat /\ Len(d.segments) = n + 1 /\ d.segments[n + 1] = e
      /\ \A i \in 1 .. n : d.segments[i] = c.segments[i]
  <2>1. c.segments \in Seq([name : Name, frames : Seq(Packet)])
    BY DEF WriterType, SegmentSeq
  <2>2. <<>> \in Seq(Packet)
    OBVIOUS
  <2>3. e \in [name : Name, frames : Seq(Packet)]
    BY <2>2
  <2> HIDE DEF e
  <2> QED
    BY <2>1, <2>3, AppendProperties, LenProperties DEF e
<1>2. e.frames = <<>> /\ e.name = name
  OBVIOUS
<1> HIDE DEF e
<1>3. FramesIn(e, VideoPid) = <<>> /\ FramesIn(e, AudioPid) = <<>>
  BY <1>2, FramesInEmpty
<1>4. /\ TracksOf(c) \in Seq(Track) /\ Len(TracksOf(c)) = n
      /\ NamesOf(c) \in Seq(Name) /\ Len(NamesOf(c)) = n
      /\ \A i \in 1 .. n : /\ TracksOf(c)[i].video = FramesIn(c.segments[i], VideoPid)
                           /\ TracksOf(c)[i].audio = FramesIn(c.segments[i], AudioPid) \o HeldIn(c, i)
                           /\ NamesOf(c)[i] = c.segments[i].name
  BY TracksType
<1>5. /\ TracksOf(d) \in Seq(Track) /\ Len(TracksOf(d)) = n + 1
      /\ NamesOf(d) \in Seq(Name) /\ Len(NamesOf(d)) = n + 1
      /\ \A i \in 1 .. n + 1 : /\ TracksOf(d)[i].video = FramesIn(d.segments[i], VideoPid)
                               /\ TracksOf(d)[i].audio = FramesIn(d.segments[i], AudioPid) \o HeldIn(d, i)
                               /\ NamesOf(d)[i] = d.segments[i].name
  BY <1>1, TracksType
<1>6. c.held = <<>> => \A i \in 1 .. n + 1 : HeldIn(d, i) = <<>> /\ HeldIn(c, i) = <<>>
  BY DEF HeldIn
<1>7. x \in Track /\ x.video = <<>> /\ x.audio = <<>>
  <2>1. <<>> \in Seq(Frame)
    OBVIOUS
  <2> QED
    BY <2>1 DEF Track
<1> HIDE DEF x
<1>8. PICK ts \in Seq(Track) : /\ ts = Append(TracksOf(c), x) /\ Len(ts) = n + 1 /\ ts[n + 1] = x
                               /\ \A i \in 1 .. n : ts[i] = TracksOf(c)[i]
  <2>1. PICK a \in Seq(Track) : a = TracksOf(c) /\ Len(a) = n
    BY <1>4
  <2>2. PICK ts : ts = Append(a, x)
    OBVIOUS
  <2>3. ts \in Seq(Track) /\ Len(ts) = n + 1 /\ ts[n + 1] = x /\ \A i \in 1 .. n : ts[i] = a[i]
    BY <1>7, <2>1, <2>2
  <2> QED
    BY <2>1, <2>2, <2>3
<1>9. PICK ns \in Seq(Name) : /\ ns = Append(NamesOf(c), name) /\ Len(ns) = n + 1 /\ ns[n + 1] = name
                              /\ \A i \in 1 .. n : ns[i] = NamesOf(c)[i]
  <2>1. PICK a \in Seq(Name) : a = NamesOf(c) /\ Len(a) = n
    BY <1>4
  <2>2. PICK ns : ns = Append(a, name)
    OBVIOUS
  <2>3. ns \in Seq(Name) /\ Len(ns) = n + 1 /\ ns[n + 1] = name /\ \A i \in 1 .. n : ns[i] = a[i]
    BY <2>1, <2>2
  <2> QED
    BY <2>1, <2>2, <2>3
<1>10. <<>> \o <<>> = <<>>
  OBVIOUS
<1> HIDE DEF n
<1>11. ASSUME NEW i \in 1 .. n + 1
       PROVE  /\ TracksOf(d)[i].video = ts[i].video /\ NamesOf(d)[i] = ns[i]
              /\ c.held = <<>> => TracksOf(d)[i].audio = ts[i].audio
  <2>1. CASE i = n + 1
    BY SMTT(30), <1>1, <1>2, <1>3, <1>5, <1>6, <1>7, <1>8, <1>9, <1>10, <2>1
  <2>2. CASE i # n + 1
    <3>1. i \in 1 .. n
      BY <1>1, <2>2
    <3>2. d.segments[i] = c.segments[i] /\ (c.held = <<>> => HeldIn(d, i) = HeldIn(c, i))
      BY <1>1, <1>6, <3>1
    <3> QED
      BY ZenonT(60), <1>4, <1>5, <1>8, <1>9, <3>1, <3>2
  <2> QED
    BY <2>1, <2>2
<1>12. c.held = <<>> => TracksOf(d) = ts
  BY <1>5, <1>8, <1>11, TracksEqual
<1>13. NamesOf(d) = ns
  BY <1>5, <1>9, <1>11, SeqEqual
<1>14. Film(d) = VideosOf(ts)
  <2>1. PICK r : r = TracksOf(d)
    OBVIOUS
  <2>2. Len(r) = n + 1 /\ \A i \in 1 .. n + 1 : r[i].video = ts[i].video
    BY <1>5, <1>11, <2>1
  <2>3. [i \in 1 .. n + 1 |-> r[i].video] = [i \in 1 .. n + 1 |-> ts[i].video]
    BY <2>2
  <2> QED
    BY <1>8, <2>1, <2>2, <2>3 DEF Film, VideosOf
<1>15. VideosOf(ts) = Film(c)
  BY <1>4, <1>8, VideosOpen DEF EmptyTrack, Film, x
<1> QED
  BY <1>8, <1>9, <1>12, <1>13, <1>14, <1>15 DEF x

(* The operations of the writer, in an open fragment. *)
WithSegments(c, ss) == [c EXCEPT !.segments = ss]

WithClock(c, num, pts, base) ==
  [c EXCEPT !.aframe_num = num, !.aframe_pts = pts, !.aframe_base = base]

LEMMA SegmentsSet ==
  ASSUME NEW c \in WriterType, NEW ss \in SegmentSeq(Name, Packet), NEW d, d = WithSegments(c, ss)
  PROVE  /\ d \in WriterType /\ d.segments = ss /\ d.opened = c.opened /\ d.used = c.used
         /\ d.held = c.held /\ d.audio_cc = c.audio_cc /\ d.video_cc = c.video_cc
         /\ d.aframe_pts = c.aframe_pts
BY DEF WriterType, WithSegments

(* What they leave alone. *)
BufferIs(c, d, cc, used, held) ==
  /\ d \in WriterType /\ d.segments = c.segments /\ d.opened = c.opened /\ d.used = used
  /\ d.held = held /\ d.audio_cc = cc /\ d.video_cc = c.video_cc
  /\ d.aframe_pts = c.aframe_pts /\ d.aframe_num = c.aframe_num
  /\ d.aframe_base = c.aframe_base

LEMMA BufferSet ==
  ASSUME NEW c \in WriterType, NEW cc \in Nat, NEW used \in Nat, NEW held \in Seq(Frame),
         NEW d, d = WithBuffer(c, cc, used, held)
  PROVE  BufferIs(c, d, cc, used, held)
BY DEF WriterType, WithBuffer, BufferIs

ClockIs(c, d) ==
  /\ d \in WriterType /\ d.segments = c.segments /\ d.opened = c.opened /\ d.used = c.used
  /\ d.held = c.held /\ d.audio_cc = c.audio_cc /\ d.video_cc = c.video_cc

LEMMA ClockSet ==
  ASSUME NEW c \in WriterType, NEW num \in Nat, NEW pts \in Nat, NEW base \in Nat,
         NEW d, d = WithClock(c, num, pts, base)
  PROVE  ClockIs(c, d)
BY DEF WriterType, WithClock, ClockIs

LEMMA PutType ==
  ASSUME NEW c, WellFormed(c), c.opened = 1, NEW pes \in Packet
  PROVE  /\ WithFrame(c.segments, pes) \in SegmentSeq(Name, Packet)
         /\ WithFrame(c.segments, pes) # <<>>
         /\ Put(c, pes) = WithSegments(c, WithFrame(c.segments, pes))
<1>1. PICK ss : ss = c.segments
  OBVIOUS
<1>2. ss \in SegmentSeq(Name, Packet) /\ ss # <<>>
  BY <1>1, LastSegment
<1>3. WithFrame(ss, pes) \in SegmentSeq(Name, Packet) /\ WithFrame(ss, pes) # <<>>
  BY <1>2, FrameWritten
<1>4. Put(c, pes) = WithSegments(c, WithFrame(c.segments, pes))
  BY DEF Put, WithSegments, WithFrame
<1> QED
  BY <1>1, <1>3, <1>4

(* What FlushAudio does: nothing, or one audio packet. *)
Flushed(c, f) ==
  /\ WellFormed(f) /\ f.opened = c.opened
  /\ c.opened = 1 => f.used = 0
  /\ f = c \/ \E pes : Sent(c, f, pes) /\ pes.pid = AudioPid

LEMMA FlushFlushes ==
  ASSUME NEW c, WellFormed(c)
  PROVE  Flushed(c, FlushAudio(c)) /\ (c.opened = 0 => FlushAudio(c) = c)
<1>0. c \in WriterType /\ c.opened \in {0, 1} /\ c.used \in Nat
  BY DEF WellFormed, WriterType
<1>1. CASE c.opened = 0 \/ c.used = 0
  BY <1>0, <1>1 DEF FlushAudio, Flushed
<1>2. CASE ~(c.opened = 0 \/ c.used = 0)
  <2>0. c.opened = 1
    BY <1>0, <1>2
  <2> DEFINE pes == [ pid |-> AudioPid, dts |-> c.aframe_pts, cc |-> c.audio_cc,
                      n |-> AudioPackets(c.used), es |-> c.held ]
  <2>1. AudioPackets(c.used) \in Nat
    BY <1>0, PacketCountIsNat DEF AudioPackets
  <2>2. pes \in Packet
    BY <1>0, <2>1 DEF Packet, WriterType
  <2>3. pes.pid = AudioPid /\ pes.cc = c.audio_cc /\ pes.es = c.held
    OBVIOUS
  <2>4. FlushAudio(c) = [ Put(c, pes) EXCEPT !.audio_cc = @ + AudioPackets(c.used), !.used = 0,
                                             !.held = <<>> ]
    BY <1>2 DEF FlushAudio
  <2> HIDE DEF pes
  <2>5. PICK ss \in SegmentSeq(Name, Packet) : ss = WithFrame(c.segments, pes) /\ ss # <<>>
    BY <2>0, <2>2, PutType
  <2>6. PICK q \in WriterType :
          /\ q = Put(c, pes) /\ q.segments = ss /\ q.opened = 1
          /\ q.audio_cc = c.audio_cc /\ q.video_cc = c.video_cc
    <3>1. Put(c, pes) = WithSegments(c, ss)
      BY <2>0, <2>2, <2>5, PutType
    <3> QED
      BY <1>0, <2>0, <3>1, SegmentsSet
  <2>7. PICK m \in Nat : m = q.audio_cc + AudioPackets(c.used)
    BY <2>1, <2>6 DEF WriterType
  <2>8. PICK f : f = FlushAudio(c)
    OBVIOUS
  <2>9. f = WithBuffer(q, m, 0, <<>>)
    BY <2>4, <2>6, <2>7, <2>8 DEF WithBuffer
  <2>10. /\ f \in WriterType /\ f.segments = ss /\ f.opened = 1 /\ f.used = 0 /\ f.held = <<>>
         /\ f.video_cc = c.video_cc
    <3>1. <<>> \in Seq(Frame) /\ 0 \in Nat
      OBVIOUS
    <3>2. PICK h, z : h = <<>> /\ z = 0
      OBVIOUS
    <3>3. q \in WriterType /\ m \in Nat /\ h \in Seq(Frame) /\ z \in Nat /\ f = WithBuffer(q, m, z, h)
      BY <2>6, <2>7, <2>9, <3>1, <3>2
    <3>4. BufferIs(q, f, m, z, h)
      BY <3>3, BufferSet
    <3> QED
      BY <2>6, <3>2, <3>4 DEF BufferIs
  <2>11. WellFormed(f)
    BY <2>5, <2>10, ConfAssumption DEF WellFormed
  <2>12. Sent(c, f, pes)
    BY <2>0, <2>2, <2>3, <2>5, <2>10 DEF Sent, CounterOf
  <2> QED
    BY <2>0, <2>3, <2>8, <2>10, <2>11, <2>12 DEF Flushed
<1> QED
  BY <1>1, <1>2

(* What the operations on audio that is overdue or in the way do. *)
LEMMA UpdateFlushes ==
  ASSUME NEW c, WellFormed(c), NEW ts, NEW rate
  PROVE  LET u == UpdateFragment(c, ts, rate)
         IN  u = c \/ u = FlushAudio(c)
BY DEF UpdateFragment

LEMMA AppendHears ==
  ASSUME NEW c, WellFormed(c), NEW a \in [ts : Nat, size : Nat], a.size > 0,
         c.opened = 1 => c.used + a.size <= AudioBufferSize
  PROVE  /\ WellFormed(AppendAudio(c, a)) /\ AppendAudio(c, a).opened = c.opened
         /\ Heard(c, AppendAudio(c, a), a)
<1> DEFINE est == EstimatedPts(c)
           pts == Ticks(a.ts)
<1>1. c \in WriterType /\ a.ts \in Nat /\ a.size \in Nat /\ pts \in Nat /\ a \in Frame
  BY DEF WellFormed, Ticks, Frame
<1>2. est \in Nat
  <2>1. PICK k \in Nat : k = c.aframe_num * 92160000
    BY <1>1 DEF WriterType
  <2>2. k \div SampleRate \in Nat
    BY ConfAssumption
  <2> QED
    BY SMTT(30), <1>1, <2>1, <2>2 DEF EstimatedPts, WriterType
<1>3. PICK b \in WriterType :
        /\ b = Buffer(c, a) /\ b.segments = c.segments /\ b.opened = c.opened
        /\ b.used = c.used + a.size /\ b.held = Append(c.held, a)
        /\ b.audio_cc = c.audio_cc /\ b.video_cc = c.video_cc
  <2>1. PICK h \in Seq(Frame), u \in Nat : h = Append(c.held, a) /\ u = c.used + a.size
    <3>1. c.held \in Seq(Frame) /\ c.used \in Nat
      BY <1>1 DEF WriterType
    <3>2. Append(c.held, a) \in Seq(Frame) /\ c.used + a.size \in Nat
      BY <1>1, <3>1
    <3> QED
      BY <3>2
  <2>2. c.audio_cc \in Nat
    BY <1>1 DEF WriterType
  <2>3. PICK b : b = Buffer(c, a)
    OBVIOUS
  <2>4. b = WithBuffer(c, c.audio_cc, u, h)
    BY <1>1, <2>1, <2>3 DEF Buffer, WithBuffer, WriterType
  <2>5. BufferIs(c, b, c.audio_cc, u, h)
    BY <1>1, <2>1, <2>2, <2>4, BufferSet
  <2> QED
    BY <2>1, <2>3, <2>5 DEF BufferIs
<1>4. PICK x \in Nat, q \in Nat, e \in Nat : x = b.aframe_num + 1 /\ q = b.aframe_pts /\ e = b.aframe_base
  BY DEF WriterType
<1>5. PICK n : n = AppendAudio(c, a)
  OBVIOUS
<1>6. n = IF c.used > 0 THEN [b EXCEPT !.aframe_num = @ + 1]
          ELSE IF InSync(est - pts) THEN [b EXCEPT !.aframe_num = @ + 1, !.aframe_pts = est]
          ELSE [b EXCEPT !.aframe_num = 1, !.aframe_pts = pts, !.aframe_base = pts]
  BY <1>3, <1>5 DEF AppendAudio
<1> HIDE DEF est, pts
<1>7. n \in {WithClock(b, x, q, e), WithClock(b, x, est, e), WithClock(b, 1, pts, pts)}
  BY <1>3, <1>4, <1>6 DEF WriterType, WithClock
<1>8. ClockIs(b, n)
  <2>1. CASE n = WithClock(b, x, q, e)
    BY <1>3, <1>4, <2>1, ClockSet
  <2>2. CASE n = WithClock(b, x, est, e)
    BY <1>2, <1>3, <1>4, <2>2, ClockSet
  <2>3. CASE n = WithClock(b, 1, pts, pts)
    BY <1>1, <1>3, <2>3, ClockSet
  <2> QED
    BY <1>7, <2>1, <2>2, <2>3
<1>9. /\ n \in WriterType /\ n.segments = c.segments /\ n.opened = c.opened
      /\ n.used = c.used + a.size /\ n.held = Append(c.held, a)
      /\ n.audio_cc = c.audio_cc /\ n.video_cc = c.video_cc
  BY <1>3, <1>8 DEF ClockIs
<1>10. c.used + a.size # 0
  BY SMTT(30), <1>1 DEF WriterType
<1>11. WellFormed(n)
  BY <1>9, <1>10 DEF WellFormed
<1> QED
  BY <1>5, <1>9, <1>11 DEF Heard, Idle
=============================================================================
