--------------------------- MODULE HlsLive_proofs ---------------------------
(***************************************************************************)
(* The live path, for any configuration, any messages, any order of calls  *)
(* and any failures.                                                       *)
(*                                                                         *)
(* Its list of fragments is a sliding window.  Every operation is followed *)
(* on the part of the context the list is made of: most keep the list as   *)
(* it is (Retains); closing a fragment lists it (Moves).  Writing to the     *)
(* open fragment keeps the list because its slot in the ring is no listed  *)
(* fragment's (SlotsApart).                                                *)
(*                                                                         *)
(* Then one invariant, Sound, for the other properties: every operation is *)
(* shown to leave a sound context sound, the handlers follow by putting    *)
(* the operations together, and each theorem reads its property off.       *)
(* Before it, what a picture's access unit is made of: the places of its   *)
(* delimiters, parameter sets and slices, unit by unit (Drawn), from the   *)
(* folds that AccessUnit and AppendSpsPps are.                             *)
(*                                                                         *)
(* Last, what a playlist says is read back line by line (Reads), from the  *)
(* fold restore_stream is, and is the window it was written from (Got).    *)
(***************************************************************************)
EXTENDS HlsLive, HlsContext_proofs, FiniteSetTheorems

Fields ==
  { "opened", "flag_m3u8", "used", "held", "aframe_num", "aframe_base", "aframe_pts",
    "audio_cc", "video_cc", "segments", "named", "var", "frag", "nfrags", "frags", "frag_ts",
    "key_id", "key_frags", "closed", "playlist", "var_playlist", "dirs", "keyfiles",
    "failed", "found" }

(* A context has its fields, and its ring as many slots as it needs. *)
IsCtx(w) == w = [f \in Fields |-> w[f]]

RingOk(w) ==
  /\ w.frag \in Nat /\ w.nfrags \in 0 .. hacf.winfrags
  /\ DOMAIN w.frags = Slots(hacf)

Ok(w) == IsCtx(w) /\ RingOk(w)

(* The operation leaves the ring alone; or the list, at least; or lists    *)
(* one more fragment at most.                                              *)
Same(v, w) == IsCtx(v) /\ v.frag = w.frag /\ v.nfrags = w.nfrags /\ v.frags = w.frags

Retains(v, w) ==
  Ok(v) /\ v.frag = w.frag /\ v.nfrags = w.nfrags /\ Listed(v, hacf) = Listed(w, hacf)

Lists(v, w) ==
  LET new == Listed(v, hacf)
      old == Listed(w, hacf)
  IN  /\ new # <<>>
      /\ \/ Len(old) < hacf.winfrags /\ Front(new) = old /\ v.frag = w.frag
         \/ Len(old) = hacf.winfrags /\ Front(new) = Tail(old) /\ v.frag = w.frag + 1

Moves(v, w) ==
  /\ Ok(v)
  /\ \/ v.frag = w.frag /\ Listed(v, hacf) = Listed(w, hacf)
     \/ Lists(v, w)

IInv == hacf \in Configuration /\ Ok(ctx)

-----------------------------------------------------------------------------
(* The ring. *)

LEMMA Conf ==
  ASSUME hacf \in Configuration
  PROVE  hacf.winfrags \in Nat /\ hacf.winfrags > 0
BY LiveAssumption

LEMMA Division ==
  ASSUME NEW m \in Nat, m > 0, NEW a \in Nat
  PROVE  a = m * (a \div m) + (a % m)
OBVIOUS

(* Numbers less than m apart leave different remainders. *)
LEMMA RemaindersDiffer ==
  ASSUME NEW m \in Nat, m > 0, NEW a \in Nat, NEW b \in Nat, a < b, b - a < m
  PROVE  a % m # b % m
<1> DEFINE qa == a \div m
           qb == b \div m
<1>1. qa \in Int /\ qb \in Int /\ a = m * qa + (a % m) /\ b = m * qb + (b % m)
  <2>1. qa \in Int /\ qb \in Int
    OBVIOUS
  <2>2. a = m * qa + (a % m)
    BY Division
  <2>3. b = m * qb + (b % m)
    BY Division
  <2> HIDE DEF qa, qb
  <2> QED
    BY <2>1, <2>2, <2>3
<1>0. a % m \in Int
  OBVIOUS
<1> SUFFICES ASSUME a % m = b % m PROVE FALSE
  OBVIOUS
<1> HIDE DEF qa, qb
<1>2. PICK d \in Int : d = qb - qa
  BY <1>1
<1>3. b - a = m * d
  <2>1. m * qb - m * qa = m * (qb - qa)
    BY <1>1
  <2> QED
    BY <1>1, <1>2, <1>0, <2>1
<1>4. CASE d >= 1
  <2>1. m * d >= m
    BY <1>4, <1>2
  <2> QED
    BY <2>1, <1>3
<1>5. CASE d <= 0
  <2>1. m * d <= 0
    BY <1>5, <1>2
  <2> QED
    BY <2>1, <1>3
<1> QED
  BY <1>2, <1>4, <1>5

LEMMA SlotsApart ==
  ASSUME hacf \in Configuration, NEW w, RingOk(w)
  PROVE  /\ \A n \in Nat : Slot(w, hacf, n) \in Slots(hacf)
         /\ \A i \in 0 .. w.nfrags - 1 : Slot(w, hacf, i) # Slot(w, hacf, w.nfrags)
<1> DEFINE m == 2 * hacf.winfrags + 1
<1>1. m \in Nat /\ m > 0 /\ w.frag \in Nat /\ w.nfrags \in Nat /\ w.nfrags < m /\ hacf.winfrags \in Nat
  BY Conf DEF RingOk
<1>2. ASSUME NEW n \in Nat PROVE Slot(w, hacf, n) \in Slots(hacf)
  BY <1>1 DEF Slot, Slots
<1>3. ASSUME NEW i \in 0 .. w.nfrags - 1
      PROVE  Slot(w, hacf, i) # Slot(w, hacf, w.nfrags)
  <2>1. /\ w.frag + i \in Nat /\ w.frag + w.nfrags \in Nat
        /\ w.frag + i < w.frag + w.nfrags /\ (w.frag + w.nfrags) - (w.frag + i) < m
    BY <1>1
  <2> HIDE DEF m
  <2>2. (w.frag + i) % m # (w.frag + w.nfrags) % m
    BY <2>1, <1>1, RemaindersDiffer
  <2> QED
    BY <2>2 DEF Slot, m
<1> QED
  BY <1>2, <1>3

(* Writing the open fragment's slot. *)
LEMMA OpenSlotFree ==
  ASSUME hacf \in Configuration, NEW w, Ok(w), NEW v, IsCtx(v), NEW f,
         v.frag = w.frag, v.nfrags = w.nfrags,
         v.frags = [w.frags EXCEPT ![Slot(w, hacf, w.nfrags)] = f]
  PROVE  Retains(v, w)
<1>1. RingOk(v)
  BY DEF Ok, RingOk
<1>2. ASSUME NEW i \in 1 .. w.nfrags
      PROVE  GetFrag(v, hacf, i - 1) = GetFrag(w, hacf, i - 1)
  <2>1. i - 1 \in 0 .. w.nfrags - 1 /\ i - 1 \in Nat
    BY DEF Ok, RingOk
  <2>2. /\ Slot(w, hacf, i - 1) \in DOMAIN w.frags
        /\ Slot(w, hacf, i - 1) # Slot(w, hacf, w.nfrags)
    BY <2>1, SlotsApart DEF Ok, RingOk
  <2>3. Slot(v, hacf, i - 1) = Slot(w, hacf, i - 1)
    BY DEF Slot
  <2> QED
    BY <2>2, <2>3 DEF GetFrag
<1>3. Listed(v, hacf) = Listed(w, hacf)
  BY <1>2 DEF Listed
<1> QED
  BY <1>1, <1>3 DEF Retains, Ok

LEMMA SameKeeps ==
  ASSUME NEW w, Ok(w), NEW v, Same(v, w)
  PROVE  Retains(v, w)
<1>1. RingOk(v)
  BY DEF Same, Ok, RingOk
<1>2. Listed(v, hacf) = Listed(w, hacf)
  BY DEF Same, Listed, GetFrag, Slot
<1> QED
  BY <1>1, <1>2 DEF Same, Retains, Ok

LEMMA KeepsTwice ==
  ASSUME NEW u, NEW v, NEW w, Retains(v, w), Retains(u, v)
  PROVE  Retains(u, w)
BY DEF Retains

LEMMA KeepsMoves ==
  ASSUME NEW u, NEW v, NEW w, Retains(v, w), Moves(u, v)
  PROVE  Moves(u, w)
BY DEF Retains, Moves, Lists

LEMMA MovesKeeps ==
  ASSUME NEW u, NEW v, NEW w, Moves(v, w), Retains(u, v)
  PROVE  Moves(u, w)
BY DEF Retains, Moves, Lists

LEMMA KeepsIsMove ==
  ASSUME NEW v, NEW w, Retains(v, w)
  PROVE  Moves(v, w)
BY DEF Retains, Moves

-----------------------------------------------------------------------------
(* The operations that leave the ring alone. *)

LEMMA FlushSame ==
  ASSUME NEW w, IsCtx(w)
  PROVE  Same(FlushAudio(w), w)
BY ZenonT(60) DEF FlushAudio, Put, Same, IsCtx, Fields

LEMMA UpdateSame ==
  ASSUME NEW w, IsCtx(w), NEW ts, NEW rate
  PROVE  Same(UpdateFragment(w, ts, rate), w)
BY FlushSame DEF UpdateFragment, Same

LEMMA MakeRoomSame ==
  ASSUME NEW w, IsCtx(w), NEW a
  PROVE  Same(MakeRoom(w, a), w)
BY FlushSame DEF MakeRoom, Same

LEMMA FillSame ==
  ASSUME NEW w, IsCtx(w), NEW a
  PROVE  Same(Fill(w, a), w)
BY DEF Fill, Same, IsCtx, Fields

LEMMA AppendSame ==
  ASSUME NEW w, IsCtx(w), NEW a
  PROVE  Same(AppendAudio(w, a), w)
<1>1. Same(Buffer(w, a), w)
  BY DEF Buffer, Same, IsCtx, Fields
<1> QED
  BY ZenonT(60), <1>1 DEF AppendAudio, Same, IsCtx, Fields

LEMMA EnsureSame ==
  ASSUME NEW w, IsCtx(w), NEW dir
  PROVE  Same(EnsureDirectory(w, dir), w)
BY DEF EnsureDirectory, Same, IsCtx, Fields

LEMMA NewKeySame ==
  ASSUME NEW w, IsCtx(w), NEW id, NEW fail
  PROVE  Same(NewKey(w, id, fail), w)
BY ZenonT(60) DEF NewKey, Same, IsCtx, Fields

LEMMA PlaylistSame ==
  ASSUME NEW w, IsCtx(w), NEW fail
  PROVE  Same(WritePlaylist(w, hacf, fail), w)
<1> DEFINE new == [w EXCEPT !.playlist = PlaylistLines(w, hacf)]
<1>1. Same(new, w)
  BY DEF Same, IsCtx, Fields
<1> HIDE DEF new
<1>2. Same(WriteVariantPlaylist(new, hacf, fail), w)
  BY <1>1 DEF WriteVariantPlaylist, Same, IsCtx, Fields
<1> QED
  BY <1>1, <1>2 DEF WritePlaylist, Same, new

-----------------------------------------------------------------------------
(* The operations that write to the open fragment. *)

LEMMA StartKeeps ==
  ASSUME hacf \in Configuration, NEW w, Ok(w), NEW id, NEW ts, NEW discont
  PROVE  Retains(StartFragment(w, id, ts, discont), w)
<1> DEFINE f == [NoFrag EXCEPT !.id = id, !.discont = discont, !.active = 1,
                   !.key_id = w.key_id, !.ts = ts]
           v == [w EXCEPT !.opened = 1, !.frag_ts = ts,
                   !.frags[Slot(w, hacf, w.nfrags)] = f,
                   !.segments = Append(@, [name |-> id, frames |-> <<>>])]
<1> HIDE DEF f
<1>1. /\ IsCtx(v) /\ v.frag = w.frag /\ v.nfrags = w.nfrags
      /\ v.frags = [w.frags EXCEPT ![Slot(w, hacf, w.nfrags)] = f]
  BY ZenonT(60) DEF Ok, IsCtx, Fields
<1>2. StartFragment(w, id, ts, discont) = FlushAudio(v)
  BY DEF StartFragment, FlushLive, f
<1> HIDE DEF v
<1>3. Retains(v, w)
  BY <1>1, OpenSlotFree
<1>4. Retains(FlushAudio(v), v)
  BY <1>3, FlushSame, SameKeeps DEF Retains, Ok
<1> QED
  BY <1>2, <1>3, <1>4, KeepsTwice

LEMMA UnlockedKeeps ==
  ASSUME hacf \in Configuration, NEW w, Ok(w), NEW id, NEW ts, NEW discont, NEW fail
  PROVE  Retains(Unlocked(w, id, ts, discont, fail), w)
<1> DEFINE counted == IF hacf.keys = 1 /\ hacf.frags_per_key > 0
                        THEN [w EXCEPT !.key_frags = @ - 1] ELSE w
<1>1. Same(counted, w)
  BY DEF Same, Ok, IsCtx, Fields
<1> HIDE DEF counted
<1>2. Retains(counted, w)
  BY <1>1, SameKeeps
<1>3. Retains(StartFragment(counted, id, ts, discont), counted)
  BY <1>2, StartKeeps DEF Retains
<1> QED
  BY <1>2, <1>3, KeepsTwice DEF Unlocked, counted

LEMMA OpenKeeps ==
  ASSUME hacf \in Configuration, NEW w, Ok(w), NEW ts, NEW discont, NEW fail
  PROVE  Retains(OpenLive(w, ts, discont, fail), w)
<1> DEFINE in   == EnsureDirectory(w, "ts")
           both == EnsureDirectory(in, hacf.key_dir)
           id   == FragmentId(w, ts)
<1>1. Retains(w, w)
  BY DEF Retains
<1>2. Retains(in, w)
  BY EnsureSame, SameKeeps DEF Ok
<1> HIDE DEF in
<1>3. Retains(both, in)
  BY <1>2, EnsureSame, SameKeeps DEF Ok, Retains
<1> HIDE DEF both
<1>4. Retains(both, w)
  BY <1>2, <1>3, KeepsTwice
<1> HIDE DEF id
<1>5. Retains(NewKey(both, id, fail), w)
  <2>1. Retains(NewKey(both, id, fail), both)
    BY <1>4, NewKeySame, SameKeeps DEF Ok, Retains
  <2> QED
    BY <2>1, <1>4, KeepsTwice
<1>6. Retains(Unlocked(both, id, ts, discont, fail), w)
  <2>1. Retains(Unlocked(both, id, ts, discont, fail), both)
    BY <1>4, UnlockedKeeps DEF Retains
  <2> QED
    BY <2>1, <1>4, KeepsTwice
<1>7. Retains(Unlocked(in, id, ts, discont, fail), w)
  <2>1. Retains(Unlocked(in, id, ts, discont, fail), in)
    BY <1>2, UnlockedKeeps DEF Retains
  <2> QED
    BY <2>1, <1>2, KeepsTwice
<1>8. \/ OpenLive(w, ts, discont, fail) = w
      \/ OpenLive(w, ts, discont, fail) = in
      \/ OpenLive(w, ts, discont, fail) = NewKey(both, id, fail)
      \/ OpenLive(w, ts, discont, fail) = Unlocked(both, id, ts, discont, fail)
      \/ OpenLive(w, ts, discont, fail) = Unlocked(in, id, ts, discont, fail)
  BY DEF OpenLive, in, both, id
<1> QED
  BY <1>1, <1>2, <1>5, <1>6, <1>7, <1>8

LEMMA MeasureKeeps ==
  ASSUME hacf \in Configuration, NEW w, Ok(w), NEW ts
  PROVE  Retains(Measure(w, ts), w)
<1>1. CASE ~(w.opened = 1 /\ ~Forced(w, ts))
  BY <1>1 DEF Measure, Retains
<1>2. CASE w.opened = 1 /\ ~Forced(w, ts)
  <2> DEFINE s == Slot(w, hacf, w.nfrags)
             f == [w.frags[s] EXCEPT !.duration = (ts - w.frag_ts) % U64]
             v == [w EXCEPT !.frags[s].duration = (ts - w.frag_ts) % U64]
  <2>1. Measure(w, ts) = v
    BY <1>2 DEF Measure
  <2> HIDE DEF s
  <2>2. /\ IsCtx(v) /\ v.frag = w.frag /\ v.nfrags = w.nfrags
        /\ v.frags = [w.frags EXCEPT ![s] = f]
    BY DEF Ok, IsCtx, Fields
  <2> HIDE DEF f, v
  <2>3. Retains(v, w)
    BY <2>2, OpenSlotFree DEF s
  <2> QED
    BY <2>1, <2>3
<1> QED
  BY <1>1, <1>2
-----------------------------------------------------------------------------
(* Closing a fragment. *)

LEMMA ListedIsSeq ==
  ASSUME hacf \in Configuration, NEW w, Ok(w), NEW S,
         \A i \in 1 .. w.nfrags : GetFrag(w, hacf, i - 1) \in S
  PROVE  /\ Listed(w, hacf) \in Seq(S) /\ Len(Listed(w, hacf)) = w.nfrags
         /\ \A i \in 1 .. w.nfrags : Listed(w, hacf)[i] = GetFrag(w, hacf, i - 1)
<1>1. w.nfrags \in Nat
  BY Conf DEF Ok, RingOk
<1> DEFINE list == Listed(w, hacf)
<1>2. list \in [1 .. w.nfrags -> S] /\ \A i \in 1 .. w.nfrags : list[i] = GetFrag(w, hacf, i - 1)
  BY DEF Listed
<1> HIDE DEF list
<1>3. list \in Seq(S)
  BY <1>1, <1>2, SeqDef
<1>4. Len(list) = w.nfrags
  BY <1>1, <1>2, <1>3, LenProperties
<1> QED
  BY <1>2, <1>3, <1>4 DEF list

LEMMA NextLists ==
  ASSUME hacf \in Configuration, NEW w, Ok(w)
  PROVE  Ok(NextFrag(w, hacf)) /\ Lists(NextFrag(w, hacf), w)
<1> DEFINE v == NextFrag(w, hacf)
           W == hacf.winfrags
           n == w.nfrags
           old == Listed(w, hacf)
           new == Listed(v, hacf)
           S == {GetFrag(w, hacf, i) : i \in Nat}
<1>1. W \in Nat /\ W > 0 /\ n \in 0 .. W /\ w.frag \in Nat
  BY Conf DEF Ok, RingOk
<1>2. /\ IsCtx(v) /\ v.frags = w.frags
      /\ n = W => v.frag = w.frag + 1 /\ v.nfrags = n
      /\ n # W => v.frag = w.frag /\ v.nfrags = n + 1
  BY <1>1 DEF NextFrag, Ok, IsCtx, Fields
<1> HIDE DEF v
<1>3. Ok(v)
  BY <1>1, <1>2 DEF Ok, RingOk
<1>4. \A i \in Nat : GetFrag(v, hacf, i) = IF n = W THEN GetFrag(w, hacf, i + 1)
                                                    ELSE GetFrag(w, hacf, i)
  <2>1. \A i \in Nat : Slot(v, hacf, i) = IF n = W THEN Slot(w, hacf, i + 1) ELSE Slot(w, hacf, i)
    <3>1. CASE n = W
      <4>1. \A i \in Nat : (w.frag + 1) + i = w.frag + (i + 1)
        BY <1>1
      <4> QED
        BY <3>1, <4>1, <1>2 DEF Slot
    <3>2. CASE n # W
      BY <3>2, <1>2 DEF Slot
    <3> QED
      BY <3>1, <3>2
  <2> QED
    BY <2>1, <1>2 DEF GetFrag
<1> HIDE DEF W, n
<1>5. \A i \in Nat : GetFrag(w, hacf, i) \in S /\ GetFrag(v, hacf, i) \in S
  BY <1>4
<1> HIDE DEF S
<1>6. /\ old \in Seq(S) /\ Len(old) = n
      /\ \A i \in 1 .. n : old[i] = GetFrag(w, hacf, i - 1)
  <2>1. \A i \in 1 .. w.nfrags : i - 1 \in Nat
    BY <1>1 DEF n
  <2>2. \A i \in 1 .. w.nfrags : GetFrag(w, hacf, i - 1) \in S
    BY <2>1, <1>5, Zenon
  <2>3. /\ Listed(w, hacf) \in Seq(S) /\ Len(Listed(w, hacf)) = w.nfrags
        /\ \A i \in 1 .. w.nfrags : Listed(w, hacf)[i] = GetFrag(w, hacf, i - 1)
    BY <2>2, ListedIsSeq, Zenon
  <2> QED
    BY <2>3, Zenon DEF n
<1>7. /\ new \in Seq(S) /\ Len(new) = v.nfrags /\ v.nfrags \in Nat
      /\ \A i \in 1 .. v.nfrags : new[i] = GetFrag(v, hacf, i - 1)
  <2>1. v.nfrags \in Nat
    BY <1>1, <1>2 DEF n
  <2>2. \A i \in 1 .. v.nfrags : i - 1 \in Nat
    BY <2>1
  <2>3. \A i \in 1 .. v.nfrags : GetFrag(v, hacf, i - 1) \in S
    BY <2>2, <1>5, Zenon
  <2>4. /\ Listed(v, hacf) \in Seq(S) /\ Len(Listed(v, hacf)) = v.nfrags
        /\ \A i \in 1 .. v.nfrags : Listed(v, hacf)[i] = GetFrag(v, hacf, i - 1)
    BY <2>3, <1>3, ListedIsSeq, Zenon
  <2> QED
    BY <2>1, <2>4, Zenon
<1> HIDE DEF old, new
<1>8. v.nfrags > 0 /\ new # <<>>
  BY <1>1, <1>2, <1>7 DEF n
<1>9. /\ Front(new) \in Seq(S) /\ Len(Front(new)) = v.nfrags - 1
      /\ \A i \in 1 .. v.nfrags - 1 : Front(new)[i] = GetFrag(v, hacf, i - 1)
  <2>1. /\ Front(new) \in Seq(S) /\ Len(Front(new)) = Len(new) - 1
        /\ \A i \in 1 .. Len(new) - 1 : Front(new)[i] = new[i]
    BY <1>7, <1>8 DEF Front
  <2> QED
    BY <2>1, <1>7, <1>8
<1>10. CASE n # W
  <2>1. Len(Front(new)) = Len(old)
    BY <1>10, <1>1, <1>2, <1>6, <1>9
  <2>2. \A i \in 1 .. Len(old) : Front(new)[i] = old[i]
    <3> SUFFICES ASSUME NEW i \in 1 .. n PROVE Front(new)[i] = old[i]
      BY <1>6
    <3>1. i - 1 \in Nat /\ i \in 1 .. v.nfrags - 1
      BY <1>10, <1>1, <1>2
    <3>2. GetFrag(v, hacf, i - 1) = GetFrag(w, hacf, i - 1)
      BY <3>1, <1>10, <1>4
    <3> QED
      BY <3>1, <3>2, <1>6, <1>9
  <2>3. Front(new) = old
    BY <2>1, <2>2, <1>6, <1>9, SeqEqual
  <2> QED
    BY <2>3, <1>10, <1>1, <1>2, <1>3, <1>6, <1>8 DEF Lists, v, old, new, W
<1>11. CASE n = W
  <2>1. /\ Tail(old) \in Seq(S) /\ Len(Tail(old)) = n - 1
        /\ \A i \in 1 .. n - 1 : Tail(old)[i] = old[i + 1]
    BY <1>11, <1>1, <1>6
  <2>2. Len(Front(new)) = Len(Tail(old))
    BY <2>1, <1>11, <1>1, <1>2, <1>9
  <2>3. \A i \in 1 .. n - 1 : Front(new)[i] = Tail(old)[i]
    <3> SUFFICES ASSUME NEW i \in 1 .. n - 1 PROVE Front(new)[i] = Tail(old)[i]
      OBVIOUS
    <3>1. Front(new)[i] = GetFrag(v, hacf, i - 1)
      BY <1>11, <1>1, <1>2, <1>9
    <3>2. i - 1 \in Nat /\ (i - 1) + 1 = i
      BY <1>1
    <3>3. GetFrag(v, hacf, i - 1) = GetFrag(w, hacf, i)
      BY <3>2, <1>11, <1>4
    <3>4. i + 1 \in 1 .. n /\ (i + 1) - 1 = i
      BY <1>1
    <3>5. Tail(old)[i] = GetFrag(w, hacf, i)
      BY <3>4, <2>1, <1>6
    <3> QED
      BY <3>1, <3>3, <3>5
  <2>4. Front(new) = Tail(old)
    BY <2>1, <2>2, <2>3, <1>9, SeqEqual
  <2> QED
    BY <2>4, <1>11, <1>2, <1>3, <1>6, <1>8 DEF Lists, v, old, new, W
<1> QED
  BY <1>10, <1>11

LEMMA CloseMoves ==
  ASSUME hacf \in Configuration, NEW w, Ok(w), NEW fail
  PROVE  Moves(CloseLive(w, fail), w)
<1> DEFINE shut == [w EXCEPT !.opened = 0, !.closed = Append(@, GetFrag(w, hacf, w.nfrags))]
           next == NextFrag(shut, hacf)
<1>1. CASE w.opened = 0
  BY <1>1 DEF CloseLive, Moves
<1>2. CASE w.opened # 0
  <2>1. Same(shut, w)
    BY DEF Same, Ok, IsCtx, Fields
  <2>2. CloseLive(w, fail) = WritePlaylist(next, hacf, fail)
    BY <1>2 DEF CloseLive
  <2> HIDE DEF shut
  <2>3. Retains(shut, w)
    BY <2>1, SameKeeps
  <2>4. Ok(next) /\ Lists(next, shut)
    BY <2>3, NextLists DEF Retains
  <2> HIDE DEF next
  <2>5. Moves(next, w)
    BY <2>3, <2>4, KeepsMoves DEF Moves
  <2>6. Retains(WritePlaylist(next, hacf, fail), next)
    BY <2>4, PlaylistSame, SameKeeps DEF Ok
  <2> QED
    BY <2>2, <2>5, <2>6, MovesKeeps
<1> QED
  BY <1>1, <1>2

-----------------------------------------------------------------------------
(* The messages. *)

LEMMA UpdateMoves ==
  ASSUME hacf \in Configuration, NEW w, Ok(w), NEW ts, NEW boundary, NEW rate, NEW fail
  PROVE  Moves(UpdateLive(w, ts, boundary, rate, fail), w)
<1> DEFINE measured == Measure(w, ts)
           waiting  == IF Waits(w, ts) THEN [measured EXCEPT !.frag_ts = ts] ELSE measured
           mark     == Discontinuity(w, ts)
           closed   == CloseLive(waiting, fail)
           reopened == OpenLive(closed, ts, mark, fail)
           cut      == IF Cuts(measured, ts, boundary) THEN reopened ELSE waiting
<1>1. UpdateLive(w, ts, boundary, rate, fail) = UpdateFragment(cut, ts, rate)
  BY DEF UpdateLive
<1>2. Retains(measured, w)
  BY MeasureKeeps
<1> HIDE DEF measured
<1>3. Retains(waiting, measured)
  <2>1. Same(waiting, measured)
    BY <1>2 DEF Same, Retains, Ok, IsCtx, Fields
  <2> HIDE DEF waiting
  <2> QED
    BY <2>1, <1>2, SameKeeps DEF Retains
<1> HIDE DEF waiting
<1>4. Retains(waiting, w)
  BY <1>2, <1>3, KeepsTwice
<1>5. Moves(closed, waiting)
  BY <1>4, CloseMoves DEF Retains
<1> HIDE DEF closed, mark
<1>6. Retains(reopened, closed)
  BY <1>5, OpenKeeps DEF Moves
<1> HIDE DEF reopened
<1>7. Moves(reopened, w)
  <2>1. Moves(closed, w)
    BY <1>4, <1>5, KeepsMoves
  <2> QED
    BY <2>1, <1>6, MovesKeeps
<1>8. Moves(cut, w)
  BY <1>4, <1>7, KeepsIsMove
<1> HIDE DEF cut
<1>9. Retains(UpdateFragment(cut, ts, rate), cut)
  BY <1>8, UpdateSame, SameKeeps DEF Moves, Ok
<1> QED
  BY <1>1, <1>8, <1>9, MovesKeeps

LEMMA AudioMoves ==
  ASSUME hacf \in Configuration, NEW w, Ok(w), NEW a, NEW fail
  PROVE  Moves(AudioLive(w, a, fail), w)
<1> DEFINE up     == UpdateLive(w, Ticks(a.ts), NoVideo, 2, fail)
           room   == MakeRoom(up, a)
           filled == Fill(room, a)
           added  == [AppendAudio(room, a) EXCEPT !.used = filled.used]
<1>1. AudioRoom(w, a, fail) = room
  BY DEF AudioRoom
<1>2. Moves(up, w)
  BY UpdateMoves
<1> HIDE DEF up
<1>3. Retains(room, up)
  BY <1>2, MakeRoomSame, SameKeeps DEF Moves, Ok
<1> HIDE DEF room
<1>4. Moves(room, w)
  BY <1>2, <1>3, MovesKeeps
<1>5. Retains(filled, room)
  BY <1>4, FillSame, SameKeeps DEF Moves, Ok
<1> HIDE DEF filled
<1>6. Retains(added, room)
  <2>1. Same(AppendAudio(room, a), room)
    BY <1>4, AppendSame DEF Moves, Ok
  <2>2. Same(added, room)
    BY <2>1 DEF Same, IsCtx, Fields
  <2> HIDE DEF added
  <2> QED
    BY <2>2, <1>4, SameKeeps DEF Moves
<1>7. Moves(filled, w) /\ Moves(added, w)
  BY <1>4, <1>5, <1>6, MovesKeeps
<1>8. Moves(w, w)
  BY DEF Moves
<1>9. \/ AudioLive(w, a, fail) = w
      \/ AudioLive(w, a, fail) = room
      \/ AudioLive(w, a, fail) = filled
      \/ AudioLive(w, a, fail) = added
  BY <1>1, Zenon DEF AudioLive, filled, added
<1> QED
  BY <1>4, <1>7, <1>8, <1>9

LEMMA VideoMoves ==
  ASSUME hacf \in Configuration, NEW w, Ok(w), NEW v, NEW fail
  PROVE  Moves(VideoLive(w, v, fail), w)
<1> DEFINE header == CHOOSE h \in codec.avc : TRUE
           out == AccessUnit(v, header)
           up  == UpdateLive(w, Ticks(v.ts), Boundary(w, v), 1, fail)
           n   == PacketCount([size |-> out.used, key |-> v.key, cts |-> v.cts])
           pes == [pid |-> VideoPid, dts |-> Ticks(v.ts), cc |-> up.video_cc, n |-> n,
                   es |-> out.units]
           put == [Put(up, pes) EXCEPT !.video_cc = @ + n]
<1>1. Moves(up, w)
  BY UpdateMoves
<1>2. VideoLive(w, v, fail) \in {w, up, put}
  BY Zenon DEF VideoLive, Picture, BeforePicture
<1> HIDE DEF out, n, pes, up
<1>3. Retains(put, up)
  <2>1. Same(put, up)
    BY <1>1 DEF Put, Same, Moves, Ok, IsCtx, Fields
  <2> HIDE DEF put
  <2> QED
    BY <2>1, <1>1, SameKeeps DEF Moves
<1> HIDE DEF put
<1>4. Moves(put, w)
  BY <1>1, <1>3, MovesKeeps
<1>5. Moves(w, w)
  BY DEF Moves
<1> QED
  BY <1>1, <1>2, <1>4, <1>5

-----------------------------------------------------------------------------
(* Publishing. *)

Starts(v) == Ok(v) /\ v.nfrags = 0 /\ v.frag = 0

LEMMA BlankStarts ==
  ASSUME hacf \in Configuration, NEW frags, DOMAIN frags = Slots(hacf), NEW files
  PROVE  Starts(Blank(frags, files)) /\ Blank(frags, files).frags = frags
<1>1. IsCtx(Blank(frags, files))
  BY DEF Blank, IsCtx, Fields
<1>2. /\ Blank(frags, files).nfrags = 0 /\ Blank(frags, files).frag = 0
      /\ Blank(frags, files).frags = frags
  BY DEF Blank
<1>3. 0 \in 0 .. hacf.winfrags /\ 0 \in Nat
  BY Conf
<1> QED
  BY <1>1, <1>2, <1>3 DEF Starts, Ok, RingOk

LEMMA PublishStarts ==
  ASSUME hacf \in Configuration, NEW w, Ok(w), NEW good, NEW fail
  PROVE  Starts(PublishLive(w, good, fail))
<1> DEFINE blank == Blank(w.frags, w)
           named == [blank EXCEPT !.named = 1, !.var = hacf.variant, !.found = ListedIn(w.playlist)]
           empty == [named EXCEPT !.playlist = <<>>]
<1>1. Starts(blank)
  BY BlankStarts DEF Ok, RingOk
<1> HIDE DEF blank
<1>2. Starts(named)
  BY <1>1 DEF Starts, Ok, RingOk, IsCtx, Fields
<1>3. PublishLive(w, good, fail) \in {blank, named, RestoreStream(named, hacf, fail)}
  BY Zenon DEF PublishLive, blank
<1> HIDE DEF named
<1>4. RestoreStream(named, hacf, fail) \in {named, [empty EXCEPT !.nfrags = 0]}
  BY DEF RestoreStream, empty
<1>5. Starts(empty)
  BY <1>2 DEF Starts, Ok, RingOk, IsCtx, Fields
<1> HIDE DEF empty
<1>6. Starts([empty EXCEPT !.nfrags = 0])
  BY <1>5 DEF Starts, Ok, RingOk, IsCtx, Fields
<1> QED
  BY <1>1, <1>2, <1>3, <1>4, <1>6

LEMMA StartsEmpty ==
  ASSUME NEW v, Starts(v)
  PROVE  Listed(v, hacf) = <<>>
<1>1. 1 .. v.nfrags = {}
  BY DEF Starts
<1> QED
  BY <1>1 DEF Listed

-----------------------------------------------------------------------------
(* The refinement. *)

LEMMA InitWindow == Init => IInv /\ Window!Init
<1> SUFFICES ASSUME Init PROVE IInv /\ Window!Init
  OBVIOUS
<1> DEFINE ring == EmptyRing
<1>1. hacf \in Configuration /\ ctx = Blank(ring, NoFiles)
  BY DEF Init
<1>2. DOMAIN ring = Slots(hacf)
  BY DEF EmptyRing
<1> HIDE DEF ring
<1>3. Starts(ctx)
  BY <1>1, <1>2, BlankStarts
<1> QED
  BY <1>1, <1>3, StartsEmpty DEF IInv, Window!Init, Starts

(* Every call, and every message, moves the list or starts it anew. *)
LEMMA NextMoves ==
  ASSUME IInv, Next
  PROVE  hacf' = hacf /\ (Moves(ctx', ctx) \/ Starts(ctx'))
<1>0. hacf \in Configuration /\ Ok(ctx)
  BY DEF IInv
<1>1. CASE SequenceHeader
  BY <1>0, <1>1 DEF SequenceHeader, Moves
<1>2. ASSUME NEW fail, NEW good, Publish(good, fail)
      PROVE  hacf' = hacf /\ Starts(ctx')
  BY <1>0, <1>2, PublishStarts DEF Publish
<1>3. ASSUME NEW fail, NEW a, Audio(a, fail)
      PROVE  hacf' = hacf /\ Moves(ctx', ctx)
  BY <1>0, <1>3, AudioMoves DEF Audio
<1>4. ASSUME NEW fail, NEW v, Video(v, fail)
      PROVE  hacf' = hacf /\ Moves(ctx', ctx)
  BY <1>0, <1>4, VideoMoves DEF Video
<1>7. ASSUME NEW v, Crash(v)
      PROVE  hacf' = hacf /\ Starts(ctx')
  <2>1. DOMAIN EmptyRing = Slots(hacf)
    BY DEF EmptyRing
  <2> QED
    BY <1>0, <1>7, <2>1, BlankStarts DEF Crash
<1>5. ASSUME NEW fail, StreamEof(fail)
      PROVE  hacf' = hacf /\ Moves(ctx', ctx)
  <2> DEFINE flushed == FlushAudio(ctx)
  <2>1. Retains(flushed, ctx)
    BY <1>0, FlushSame, SameKeeps DEF Ok
  <2>2. hacf' = hacf /\ ctx' = CloseLive(flushed, fail)
    BY <1>5 DEF StreamEof, FlushLive
  <2> HIDE DEF flushed
  <2>3. Moves(CloseLive(flushed, fail), flushed)
    BY <2>1, <1>0, CloseMoves DEF Retains
  <2> QED
    BY <2>1, <2>2, <2>3, KeepsMoves
<1>6. ASSUME NEW fail, CloseStream(fail)
      PROVE  hacf' = hacf /\ Moves(ctx', ctx)
  BY <1>0, <1>6, CloseMoves DEF CloseStream
<1> QED
  BY <1>1, <1>2, <1>3, <1>4, <1>5, <1>6, <1>7 DEF Next

LEMMA StepWindow ==
  IInv /\ [Next]_vars => IInv' /\ [Window!Grow \/ Window!Slide \/ Window!Restart]_(Window!vars)
<1> SUFFICES ASSUME IInv, [Next]_vars
             PROVE  IInv' /\ [Window!Grow \/ Window!Slide \/ Window!Restart]_(Window!vars)
  OBVIOUS
<1>1. CASE UNCHANGED vars
  BY <1>1 DEF vars, IInv, Ok, IsCtx, RingOk, Window!vars
<1>2. CASE Next
  <2>1. hacf' = hacf /\ (Moves(ctx', ctx) \/ Starts(ctx'))
    BY <1>2, NextMoves
  <2>2. IInv'
    <3>1. Ok(ctx')
      BY <2>1 DEF Moves, Starts
    <3> QED
      BY <3>1, <2>1 DEF IInv, Ok, IsCtx, RingOk
  <2>3. CASE Starts(ctx')
    <3>1. Listed(ctx', hacf) = <<>>
      BY <2>3, StartsEmpty
    <3> QED
      BY <3>1, <2>1, <2>2, <2>3 DEF Starts, Window!Restart
  <2>4. CASE ctx'.frag = ctx.frag /\ Listed(ctx', hacf) = Listed(ctx, hacf)
    BY <2>1, <2>2, <2>4 DEF Window!vars
  <2>5. CASE Lists(ctx', ctx)
    BY <2>1, <2>2, <2>5 DEF Lists, Window!Grow, Window!Slide, Window!Front, Front
  <2> QED
    BY <2>1, <2>3, <2>4, <2>5 DEF Moves
<1> QED
  BY <1>1, <1>2

(* The live path's list of fragments implements the sliding window         *)
(* (ImplementsWindow), whatever the configuration, the messages and the    *)
(* failures: a fragment joins at the end, the oldest leaves a full list    *)
(* only, the sequence number counts those that left, and opening or        *)
(* measuring a fragment changes no listed one.                             *)
THEOREM LiveImplementsWindow == Spec => ImplementsWindow
<1>1. Init => IInv /\ Window!Init
  BY InitWindow
<1>2. IInv /\ [Next]_vars
        => IInv' /\ [Window!Grow \/ Window!Slide \/ Window!Restart]_(Window!vars)
  BY StepWindow
<1> QED
  BY <1>1, <1>2, PTL DEF Spec, ImplementsWindow, Window!Spec

-----------------------------------------------------------------------------
(* An access unit can be decoded: the units of a picture, one by one. *)

(* The places 1 to n of the delimiters (a), of what is seen of the picture *)
(* (p), and of its IDR slices (i), sequence parameter sets (s) and other   *)
(* slices (l).  aud: there is a delimiter; sps: there are parameter sets,  *)
(* and no slice behind them.                                               *)
Laid(a, p, i, s, l, n, aud, sps) ==
  /\ a \subseteq 1 .. n /\ p \subseteq 1 .. n /\ i \subseteq 1 .. n
  /\ s \subseteq 1 .. n /\ l \subseteq 1 .. n
  /\ aud = 0 => a = {} /\ p = {}
  /\ aud = 1 => \E x \in a : a = {x} /\ \A y \in p : x < y
  /\ \A x \in i : \E y \in s : y < x /\ \A z \in l : z < y \/ x < z
  /\ sps = 1 => \E y \in s : \A z \in l : z < y

LEMMA LaidAud ==
  ASSUME NEW i, NEW s, NEW l, NEW n \in Nat, NEW sps, Laid({}, {}, i, s, l, n, 0, sps)
  PROVE  Laid({n + 1}, {}, i, s, l, n + 1, 1, sps)
<1>1. 1 .. n \subseteq 1 .. n + 1 /\ n + 1 \in 1 .. n + 1
  OBVIOUS
<1>2. \E x \in {n + 1} : {n + 1} = {x} /\ \A y \in {} : x < y
  OBVIOUS
<1> QED
  BY <1>1, <1>2 DEF Laid

LEMMA LaidSps ==
  ASSUME NEW a, NEW p, NEW i, NEW s, NEW l, NEW n \in Nat, NEW aud \in {0, 1}, NEW sps,
         Laid(a, p, i, s, l, n, aud, sps)
  PROVE  Laid(a, p, i, s \cup {n + 1}, l, n + 1, aud, 1)
<1>1. 1 .. n \subseteq 1 .. n + 1 /\ n + 1 \in 1 .. n + 1 /\ \A z \in 1 .. n : z < n + 1
  OBVIOUS
<1>2. \E y \in s \cup {n + 1} : \A z \in l : z < y
  BY <1>1 DEF Laid
<1>3. \A x \in i : \E y \in s \cup {n + 1} : y < x /\ \A z \in l : z < y \/ x < z
  BY DEF Laid
<1> QED
  BY <1>1, <1>2, <1>3 DEF Laid

LEMMA LaidIdr ==
  ASSUME NEW a, NEW p, NEW i, NEW s, NEW l, NEW n \in Nat, Laid(a, p, i, s, l, n, 1, 1)
  PROVE  Laid(a, p \cup {n + 1}, i \cup {n + 1}, s, l, n + 1, 1, 1)
<1>1. 1 .. n \subseteq 1 .. n + 1 /\ n + 1 \in 1 .. n + 1 /\ \A z \in 1 .. n : z < n + 1
  OBVIOUS
<1>2. a \subseteq 1 .. n /\ s \subseteq 1 .. n
  BY DEF Laid
<1>3. \E x \in a : a = {x} /\ \A y \in p \cup {n + 1} : x < y
  BY <1>1, <1>2 DEF Laid
<1>4. \E y \in s : y < n + 1 /\ \A z \in l : z < y \/ n + 1 < z
  BY <1>1, <1>2 DEF Laid
<1>5. \A x \in i \cup {n + 1} : \E y \in s : y < x /\ \A z \in l : z < y \/ x < z
  BY <1>4 DEF Laid
<1> QED
  BY <1>1, <1>3, <1>5 DEF Laid

LEMMA LaidSlice ==
  ASSUME NEW a, NEW p, NEW i, NEW s, NEW l, NEW n \in Nat, NEW sps, Laid(a, p, i, s, l, n, 1, sps)
  PROVE  Laid(a, p \cup {n + 1}, i, s, l \cup {n + 1}, n + 1, 1, 0)
<1>1. 1 .. n \subseteq 1 .. n + 1 /\ n + 1 \in 1 .. n + 1 /\ \A z \in 1 .. n : z < n + 1
  OBVIOUS
<1>2. a \subseteq 1 .. n /\ i \subseteq 1 .. n
  BY DEF Laid
<1>3. \E x \in a : a = {x} /\ \A y \in p \cup {n + 1} : x < y
  BY <1>1, <1>2 DEF Laid
<1>4. \A x \in i : \E y \in s : y < x /\ \A z \in l \cup {n + 1} : z < y \/ x < z
  BY <1>1, <1>2 DEF Laid
<1> QED
  BY <1>1, <1>3, <1>4 DEF Laid

LEMMA LaidSei ==
  ASSUME NEW a, NEW p, NEW i, NEW s, NEW l, NEW n \in Nat, NEW sps, Laid(a, p, i, s, l, n, 1, sps)
  PROVE  Laid(a, p \cup {n + 1}, i, s, l, n + 1, 1, sps)
<1>1. 1 .. n \subseteq 1 .. n + 1 /\ n + 1 \in 1 .. n + 1 /\ \A z \in 1 .. n : z < n + 1
  OBVIOUS
<1>2. a \subseteq 1 .. n
  BY DEF Laid
<1>3. \E x \in a : a = {x} /\ \A y \in p \cup {n + 1} : x < y
  BY <1>1, <1>2 DEF Laid
<1> QED
  BY <1>1, <1>3 DEF Laid

LEMMA LaidOther ==
  ASSUME NEW a, NEW p, NEW i, NEW s, NEW l, NEW n \in Nat, NEW aud, NEW sps,
         Laid(a, p, i, s, l, n, aud, sps)
  PROVE  Laid(a, p, i, s, l, n + 1, aud, sps)
<1>1. 1 .. n \subseteq 1 .. n + 1
  OBVIOUS
<1> QED
  BY <1>1 DEF Laid

-----------------------------------------------------------------------------
(* What a delimiter goes before. *)
Pictures == {Slice, Idr, Sei}

(* What is said of the units in the buffer. *)
Drawn(es, aud, sps) ==
  /\ es \in Seq(Nat)
  /\ Laid(At(es, {Aud}), At(es, Pictures), At(es, {Idr}), At(es, {7}), At(es, {Slice}), Len(es), aud, sps)
  /\ Cardinality(At(es, {7})) <= Cardinality(At(es, {Slice})) + sps

(* The places of the types in T after a unit x more. *)
Grown(old, new, T, x, n) ==
  /\ Cardinality(old) \in Nat
  /\ x \in T => new = old \cup {n + 1} /\ Cardinality(new) = Cardinality(old) + 1
  /\ x \notin T => new = old

LEMMA AtAppend ==
  ASSUME NEW es \in Seq(Nat), NEW x \in Nat
  PROVE  /\ Append(es, x) \in Seq(Nat) /\ Len(Append(es, x)) = Len(es) + 1 /\ Len(es) \in Nat
         /\ \A T : Grown(At(es, T), At(Append(es, x), T), T, x, Len(es))
<1>0. PICK t, n : t = Append(es, x) /\ n = Len(es)
  OBVIOUS
<1>1. /\ t \in Seq(Nat) /\ Len(t) = n + 1 /\ n \in Nat /\ t[n + 1] = x
      /\ \A i \in 1 .. n : t[i] = es[i]
  BY <1>0, AppendProperties
<1>2. ASSUME NEW T
      PROVE  Grown(At(es, T), At(t, T), T, x, n)
  <2>1. At(es, T) \subseteq 1 .. n
    BY <1>0 DEF At
  <2>2. IsFiniteSet(At(es, T)) /\ Cardinality(At(es, T)) \in Nat
    <3>1. IsFiniteSet(1 .. n)
      BY <1>1, FS_Interval
    <3>2. At(es, T) \in SUBSET (1 .. n)
      BY <2>1
    <3>3. IsFiniteSet(At(es, T))
      BY <3>1, <3>2, FS_Subset
    <3> QED
      BY <3>3, FS_CardinalityType
  <2>3. \A i : i \in 1 .. n + 1 <=> i = n + 1 \/ i \in 1 .. n
    BY <1>1
  <2>4. n + 1 \notin 1 .. n
    BY <1>1
  <2>5. \A i : i \in At(t, T) <=> i \in At(es, T) \/ (i = n + 1 /\ x \in T)
    BY <1>0, <1>1, <2>3 DEF At
  <2>6. Cardinality(At(es, T) \cup {n + 1}) = Cardinality(At(es, T)) + 1
    <3>1. n + 1 \notin At(es, T)
      BY <2>1, <2>4
    <3> QED
      BY <2>2, <3>1, FS_AddElement
  <2>7. x \in T => At(t, T) = At(es, T) \cup {n + 1}
    BY <2>5
  <2>8. x \notin T => At(t, T) = At(es, T)
    BY <2>5
  <2> QED
    BY <2>2, <2>6, <2>7, <2>8 DEF Grown
<1> QED
  BY <1>0, <1>1, <1>2

LEMMA AtSame ==
  ASSUME NEW es \in Seq(Nat), NEW x \in Nat, NEW T, x \notin T
  PROVE  At(Append(es, x), T) = At(es, T)
<1>1. Grown(At(es, T), At(Append(es, x), T), T, x, Len(es))
  BY AtAppend
<1> QED
  BY <1>1 DEF Grown

LEMMA AtMore ==
  ASSUME NEW es \in Seq(Nat), NEW x \in Nat, NEW T, x \in T
  PROVE  /\ At(Append(es, x), T) = At(es, T) \cup {Len(es) + 1}
         /\ Cardinality(At(Append(es, x), T)) = Cardinality(At(es, T)) + 1
<1>1. Grown(At(es, T), At(Append(es, x), T), T, x, Len(es))
  BY AtAppend
<1> QED
  BY <1>1 DEF Grown

LEMMA AtNumber ==
  ASSUME NEW es \in Seq(Nat), NEW T
  PROVE  Cardinality(At(es, T)) \in Nat
<1>1. 0 \in Nat
  OBVIOUS
<1>2. Grown(At(es, T), At(Append(es, 0), T), T, 0, Len(es))
  BY <1>1, AtAppend
<1> QED
  BY <1>2 DEF Grown

LEMMA TypesDiffer ==
  /\ {Aud, Slice, Idr, Sei, 7} \subseteq Nat
  /\ Aud \notin Pictures /\ 7 \notin Pictures /\ {Slice, Idr, Sei} \subseteq Pictures
  /\ Aud \notin {7} /\ Aud \notin {Slice} /\ Aud \notin {Idr}
  /\ 7 \notin {Aud} /\ 7 \notin {Slice} /\ 7 \notin {Idr}
  /\ Idr \notin {Aud} /\ Idr \notin {7} /\ Idr \notin {Slice}
  /\ Slice \notin {Aud} /\ Slice \notin {7} /\ Slice \notin {Idr}
  /\ Sei \notin {Aud} /\ Sei \notin {7} /\ Sei \notin {Slice} /\ Sei \notin {Idr}
  BY DEF Aud, Slice, Idr, Sei, Pictures

LEMMA DrawnAud ==
  ASSUME NEW es, NEW sps, Drawn(es, 0, sps)
  PROVE  Drawn(Append(es, Aud), 1, sps)
<1>1. es \in Seq(Nat) /\ Len(es) \in Nat
  BY DEF Drawn
<1>2. Aud \in Nat /\ Append(es, Aud) \in Seq(Nat) /\ Len(Append(es, Aud)) = Len(es) + 1
  BY <1>1, AtAppend, TypesDiffer
<1>3. At(es, {Aud}) = {} /\ At(es, Pictures) = {}
  BY DEF Drawn, Laid
<1>4. At(Append(es, Aud), {Aud}) = {Len(es) + 1}
  <2>1. At(Append(es, Aud), {Aud}) = At(es, {Aud}) \cup {Len(es) + 1}
    BY <1>1, <1>2, AtMore
  <2> QED
    BY <1>3, <2>1
<1>5. At(Append(es, Aud), Pictures) = {}
  BY <1>1, <1>2, <1>3, AtSame, TypesDiffer
<1>6. At(Append(es, Aud), {Idr}) = At(es, {Idr})
  BY <1>1, <1>2, AtSame, TypesDiffer
<1>7. At(Append(es, Aud), {7}) = At(es, {7})
  BY <1>1, <1>2, AtSame, TypesDiffer
<1>8. At(Append(es, Aud), {Slice}) = At(es, {Slice})
  BY <1>1, <1>2, AtSame, TypesDiffer
<1>9. Laid({}, {}, At(es, {Idr}), At(es, {7}), At(es, {Slice}), Len(es), 0, sps)
  BY <1>3 DEF Drawn
<1>10. Laid({Len(es) + 1}, {}, At(es, {Idr}), At(es, {7}), At(es, {Slice}), Len(es) + 1, 1, sps)
  BY <1>1, <1>9, LaidAud
<1> QED
  BY <1>2, <1>4, <1>5, <1>6, <1>7, <1>8, <1>10 DEF Drawn

LEMMA DrawnSps ==
  ASSUME NEW es, Drawn(es, 1, 0)
  PROVE  Drawn(Append(es, 7), 1, 1)
<1>1. es \in Seq(Nat) /\ Len(es) \in Nat /\ 7 \in Nat
  BY DEF Drawn
<1>2. Append(es, 7) \in Seq(Nat) /\ Len(Append(es, 7)) = Len(es) + 1
  BY <1>1, AtAppend
<1>3. At(Append(es, 7), {Aud}) = At(es, {Aud})
  BY <1>1, AtSame, TypesDiffer
<1>4. At(Append(es, 7), Pictures) = At(es, Pictures)
  BY <1>1, AtSame, TypesDiffer
<1>5. At(Append(es, 7), {Idr}) = At(es, {Idr})
  BY <1>1, AtSame, TypesDiffer
<1>6. At(Append(es, 7), {Slice}) = At(es, {Slice})
  BY <1>1, AtSame, TypesDiffer
<1>7. /\ At(Append(es, 7), {7}) = At(es, {7}) \cup {Len(es) + 1}
      /\ Cardinality(At(Append(es, 7), {7})) = Cardinality(At(es, {7})) + 1
  BY <1>1, AtMore
<1>8. Laid(At(es, {Aud}), At(es, Pictures), At(es, {Idr}), At(es, {7}) \cup {Len(es) + 1},
           At(es, {Slice}), Len(es) + 1, 1, 1)
  BY <1>1, LaidSps DEF Drawn
<1>9. Cardinality(At(es, {7})) + 1 <= Cardinality(At(es, {Slice})) + 1
  <2>1. PICK c \in Nat, d \in Nat : c = Cardinality(At(es, {7})) /\ d = Cardinality(At(es, {Slice}))
    BY <1>1, AtNumber
  <2>2. c <= d + 0
    BY <2>1 DEF Drawn
  <2> QED
    BY <2>1, <2>2
<1> QED
  BY <1>2, <1>3, <1>4, <1>5, <1>6, <1>7, <1>8, <1>9 DEF Drawn

LEMMA DrawnIdr ==
  ASSUME NEW es, Drawn(es, 1, 1)
  PROVE  Drawn(Append(es, Idr), 1, 1)
<1>1. es \in Seq(Nat) /\ Len(es) \in Nat
  BY DEF Drawn
<1>2. Idr \in Nat /\ Append(es, Idr) \in Seq(Nat) /\ Len(Append(es, Idr)) = Len(es) + 1
  BY <1>1, AtAppend, TypesDiffer
<1>3. At(Append(es, Idr), {Aud}) = At(es, {Aud})
  BY <1>1, <1>2, AtSame, TypesDiffer
<1>4. At(Append(es, Idr), Pictures) = At(es, Pictures) \cup {Len(es) + 1}
  BY <1>1, <1>2, AtMore, TypesDiffer
<1>5. At(Append(es, Idr), {Idr}) = At(es, {Idr}) \cup {Len(es) + 1}
  BY <1>1, <1>2, AtMore
<1>6. At(Append(es, Idr), {7}) = At(es, {7})
  BY <1>1, <1>2, AtSame, TypesDiffer
<1>7. At(Append(es, Idr), {Slice}) = At(es, {Slice})
  BY <1>1, <1>2, AtSame, TypesDiffer
<1>8. Laid(At(es, {Aud}), At(es, Pictures) \cup {Len(es) + 1}, At(es, {Idr}) \cup {Len(es) + 1},
           At(es, {7}), At(es, {Slice}), Len(es) + 1, 1, 1)
  BY <1>1, LaidIdr DEF Drawn
<1> QED
  BY <1>2, <1>3, <1>4, <1>5, <1>6, <1>7, <1>8 DEF Drawn

LEMMA DrawnSlice ==
  ASSUME NEW es, NEW sps \in {0, 1}, Drawn(es, 1, sps)
  PROVE  Drawn(Append(es, Slice), 1, 0)
<1>1. es \in Seq(Nat) /\ Len(es) \in Nat
  BY DEF Drawn
<1>2. Slice \in Nat /\ Append(es, Slice) \in Seq(Nat) /\ Len(Append(es, Slice)) = Len(es) + 1
  BY <1>1, AtAppend, TypesDiffer
<1>3. At(Append(es, Slice), {Aud}) = At(es, {Aud})
  BY <1>1, <1>2, AtSame, TypesDiffer
<1>4. At(Append(es, Slice), Pictures) = At(es, Pictures) \cup {Len(es) + 1}
  BY <1>1, <1>2, AtMore, TypesDiffer
<1>5. At(Append(es, Slice), {Idr}) = At(es, {Idr})
  BY <1>1, <1>2, AtSame, TypesDiffer
<1>6. At(Append(es, Slice), {7}) = At(es, {7})
  BY <1>1, <1>2, AtSame, TypesDiffer
<1>7. /\ At(Append(es, Slice), {Slice}) = At(es, {Slice}) \cup {Len(es) + 1}
      /\ Cardinality(At(Append(es, Slice), {Slice})) = Cardinality(At(es, {Slice})) + 1
  BY <1>1, <1>2, AtMore
<1>8. Laid(At(es, {Aud}), At(es, Pictures) \cup {Len(es) + 1}, At(es, {Idr}), At(es, {7}),
           At(es, {Slice}) \cup {Len(es) + 1}, Len(es) + 1, 1, 0)
  BY <1>1, LaidSlice DEF Drawn
<1>9. Cardinality(At(es, {7})) <= (Cardinality(At(es, {Slice})) + 1) + 0
  <2>1. PICK c \in Nat, d \in Nat : c = Cardinality(At(es, {7})) /\ d = Cardinality(At(es, {Slice}))
    BY <1>1, AtNumber
  <2>2. c <= d + sps
    BY <2>1 DEF Drawn
  <2> QED
    BY <2>1, <2>2
<1> QED
  BY <1>2, <1>3, <1>4, <1>5, <1>6, <1>7, <1>8, <1>9 DEF Drawn

LEMMA DrawnSei ==
  ASSUME NEW es, NEW sps, Drawn(es, 1, sps)
  PROVE  Drawn(Append(es, Sei), 1, sps)
<1>1. es \in Seq(Nat) /\ Len(es) \in Nat
  BY DEF Drawn
<1>2. Sei \in Nat /\ Append(es, Sei) \in Seq(Nat) /\ Len(Append(es, Sei)) = Len(es) + 1
  BY <1>1, AtAppend, TypesDiffer
<1>3. At(Append(es, Sei), {Aud}) = At(es, {Aud})
  BY <1>1, <1>2, AtSame, TypesDiffer
<1>4. At(Append(es, Sei), Pictures) = At(es, Pictures) \cup {Len(es) + 1}
  BY <1>1, <1>2, AtMore, TypesDiffer
<1>5. At(Append(es, Sei), {Idr}) = At(es, {Idr})
  BY <1>1, <1>2, AtSame, TypesDiffer
<1>6. At(Append(es, Sei), {7}) = At(es, {7})
  BY <1>1, <1>2, AtSame, TypesDiffer
<1>7. At(Append(es, Sei), {Slice}) = At(es, {Slice})
  BY <1>1, <1>2, AtSame, TypesDiffer
<1>8. Laid(At(es, {Aud}), At(es, Pictures) \cup {Len(es) + 1}, At(es, {Idr}), At(es, {7}),
           At(es, {Slice}), Len(es) + 1, 1, sps)
  BY <1>1, LaidSei DEF Drawn
<1> QED
  BY <1>2, <1>3, <1>4, <1>5, <1>6, <1>7, <1>8 DEF Drawn

LEMMA DrawnOther ==
  ASSUME NEW es, NEW aud, NEW sps, Drawn(es, aud, sps), NEW x \in Nat,
         x \notin {Aud, Slice, Idr, Sei, 7}
  PROVE  Drawn(Append(es, x), aud, sps)
<1>1. es \in Seq(Nat) /\ Len(es) \in Nat
  BY DEF Drawn
<1>2. Append(es, x) \in Seq(Nat) /\ Len(Append(es, x)) = Len(es) + 1
  BY <1>1, AtAppend
<1>3. x \notin {Aud} /\ x \notin Pictures /\ x \notin {Idr} /\ x \notin {7} /\ x \notin {Slice}
  BY DEF Pictures
<1>4. At(Append(es, x), {Aud}) = At(es, {Aud})
  BY <1>1, <1>3, AtSame
<1>5. At(Append(es, x), Pictures) = At(es, Pictures)
  BY <1>1, <1>3, AtSame
<1>6. At(Append(es, x), {Idr}) = At(es, {Idr})
  BY <1>1, <1>3, AtSame
<1>7. At(Append(es, x), {7}) = At(es, {7})
  BY <1>1, <1>3, AtSame
<1>8. At(Append(es, x), {Slice}) = At(es, {Slice})
  BY <1>1, <1>3, AtSame
<1>9. Laid(At(es, {Aud}), At(es, Pictures), At(es, {Idr}), At(es, {7}), At(es, {Slice}),
           Len(es) + 1, aud, sps)
  BY <1>1, LaidOther DEF Drawn
<1> QED
  BY <1>2, <1>4, <1>5, <1>6, <1>7, <1>8, <1>9 DEF Drawn

(* Nothing yet. *)
LEMMA DrawnNone == Drawn(<<>>, 0, 0)
<1>1. \A T : At(<<>>, T) = {}
  BY DEF At
<1>2. <<>> \in Seq(Nat) /\ Len(<<>>) = 0
  OBVIOUS
<1>3. Cardinality({}) = 0
  BY FS_EmptySet
<1>4. Laid({}, {}, {}, {}, {}, 0, 0, 0)
  BY DEF Laid
<1>5. Cardinality(At(<<>>, {7})) <= Cardinality(At(<<>>, {Slice})) + 0
  <2>1. Cardinality(At(<<>>, {7})) = 0 /\ Cardinality(At(<<>>, {Slice})) = 0
    BY <1>1, <1>3, Zenon
  <2> QED
    BY <2>1
<1>6. Laid(At(<<>>, {Aud}), At(<<>>, Pictures), At(<<>>, {Idr}), At(<<>>, {7}), At(<<>>, {Slice}),
           Len(<<>>), 0, 0)
  BY <1>1, <1>2, <1>4, Zenon
<1> QED
  BY <1>2, <1>5, <1>6, Zenon DEF Drawn

(* A picture, if a delimiter is in it, is one a decoder can start at. *)
LEMMA DrawnDecodable ==
  ASSUME NEW es, NEW aud \in {0, 1}, NEW sps \in {0, 1}, Drawn(es, aud, sps),
         aud = 1 => At(es, Pictures) # {}
  PROVE  Decodable(es)
<1>1. PICK a, p, i, s, l, n :
        /\ a = At(es, {Aud}) /\ p = At(es, Pictures) /\ i = At(es, {Idr}) /\ s = At(es, {7})
        /\ l = At(es, {Slice}) /\ n = Len(es) /\ n \in Nat
  BY DEF Drawn
<1>2. Laid(a, p, i, s, l, n, aud, sps) /\ (aud = 1 => p # {})
  BY <1>1 DEF Drawn
<1>3. Cardinality(a) = IF p = {} THEN 0 ELSE 1
  <2>1. Cardinality({}) = 0 /\ \A x : Cardinality({x}) = 1
    BY FS_EmptySet, FS_Singleton
  <2>2. aud = 0 => a = {} /\ p = {}
    BY <1>2 DEF Laid
  <2>3. aud = 1 => \E x : a = {x}
    BY <1>2 DEF Laid
  <2> QED
    BY <1>2, <2>1, <2>2, <2>3
<1>4. \A x \in a, y \in p : x < y
  BY <1>2 DEF Laid
<1>5. \A x \in i : \E y \in s : y < x /\ l \cap (y .. x) = {}
  <2> SUFFICES ASSUME NEW x \in i PROVE \E y \in s : y < x /\ l \cap (y .. x) = {}
    OBVIOUS
  <2>1. PICK y \in s : y < x /\ \A z \in l : z < y \/ x < z
    BY <1>2 DEF Laid
  <2>2. x \in Nat /\ y \in Nat /\ \A z \in l : z \in Nat
    BY <1>2 DEF Laid
  <2>3. l \cap (y .. x) = {}
    BY <2>1, <2>2
  <2> QED
    BY <2>1, <2>3
<1>6. Cardinality(s) <= Cardinality(l) + 1
  <2>1. Cardinality(s) \in Nat /\ Cardinality(l) \in Nat
    BY <1>1, AtNumber DEF Drawn
  <2>2. Cardinality(s) <= Cardinality(l) + sps
    BY <1>1 DEF Drawn
  <2> QED
    BY <2>1, <2>2
<1> QED
  BY <1>1, <1>3, <1>4, <1>5, <1>6 DEF Decodable, Pictures

Results == {"whole", "dropped", "error", "stopped"}
Outputs == [units : Seq(Nat), used : Nat, aud_sent : {0, 1}, sps_pps_sent : {0, 1}, result : Results]
Nal == [type : Nat, len : Nat]

(* The bytes of a sequence header's units, one by one. *)
Sums(b, h) ==
  LET n == Len(h.nals)
  IN  /\ b \in [0 .. n -> Nat] /\ b[0] = 0 /\ b[n] = HeaderBytes(h)
      /\ \A k \in 1 .. n : b[k] = b[k - 1] + 4 + h.nals[k].len

LEMMA HeaderSums ==
  ASSUME NEW h, h.nals \in Seq(Nal)
  PROVE  \E b : Sums(b, h)
<1> DEFINE n    == Len(h.nals)
           D    == Nat
           base == 0
           st   == [i \in 1 .. n |-> [m \in D |-> Bytes(m, h.nals[i])]]
           Is(g) == g = [s \in SUBSET (1 .. n) |->
                           IF s = {} THEN base ELSE Bytes(g[s \ {Max(s)}], h.nals[Max(s)])]
           it   == CHOOSE g : Is(g)
<1>1. n \in Nat /\ DOMAIN h.nals = 1 .. n /\ \A i \in 1 .. n : h.nals[i] \in Nal
  OBVIOUS
<1>2. base \in D
  OBVIOUS
<1>3. HeaderBytes(h) = it[1 .. n]
  <2>1. HeaderBytes(h) = FoldLeft(Bytes, base, h.nals)
    BY DEF HeaderBytes
  <2> HIDE DEF base
  <2> QED
    BY <1>1, <2>1, Zenon DEF FoldLeft, MapThenFoldSet
<1> HIDE DEF base
<1>4. \A m \in D, f \in Nal : Bytes(m, f) \in Nat /\ Bytes(m, f) = m + 4 + f.len
  BY DEF Bytes, Nal
<1>5. /\ st \in [1 .. n -> [D -> D]]
      /\ \A i \in 1 .. n, m \in D : st[i][m] = Bytes(m, h.nals[i])
  BY <1>1, <1>4
<1> HIDE DEF n, st, D
<1>6. \E g : Is(g)
  <2>1. PICK g : FoldTo(g, base, st, n, D)
    BY <1>1, <1>2, <1>5, FoldsExist
  <2>2. g = [s \in SUBSET (1 .. n) |-> IF s = {} THEN base ELSE st[Max(s)][g[s \ {Max(s)}]]]
    BY <2>1 DEF FoldTo, Folds
  <2>3. ASSUME NEW s \in SUBSET (1 .. n), s # {}
        PROVE  st[Max(s)][g[s \ {Max(s)}]] = Bytes(g[s \ {Max(s)}], h.nals[Max(s)])
    <3>1. Max(s) \in 1 .. n /\ g[s \ {Max(s)}] \in D
      BY <2>1, <2>3 DEF FoldTo
    <3> QED
      BY <1>5, <3>1
  <2>4. [s \in SUBSET (1 .. n) |-> IF s = {} THEN base ELSE st[Max(s)][g[s \ {Max(s)}]]]
          = [s \in SUBSET (1 .. n) |->
               IF s = {} THEN base ELSE Bytes(g[s \ {Max(s)}], h.nals[Max(s)])]
    BY <2>3
  <2> QED
    BY <2>2, <2>4
<1>7. Is(it)
  BY <1>6, Zenon
<1> HIDE DEF it
<1>8. it[{}] = base
  BY <1>7
<1>9. Iterates(it, base, st, n, D)
  BY <1>5, <1>7, <1>8 DEF Iterates
<1>10. PICK g : Steps(g, base, st, n, D) /\ g[n] = it[1 .. n]
  BY <1>1, <1>2, <1>5, <1>9, FoldSteps
<1>11. ASSUME NEW k \in 1 .. n PROVE g[k] = g[k - 1] + 4 + h.nals[k].len
  <2>1. k - 1 \in 0 .. n /\ g[k] = st[k][g[k - 1]] /\ g \in [0 .. n -> D]
    BY <1>1, <1>10 DEF Steps
  <2>2. g[k - 1] \in D /\ h.nals[k] \in Nal
    BY <1>1, <2>1
  <2> QED
    BY <1>4, <1>5, <2>1, <2>2
<1>12. g \in [0 .. n -> D] /\ g[0] = base /\ g[n] = HeaderBytes(h)
  BY <1>3, <1>10 DEF Steps
<1> QED
  BY <1>11, <1>12 DEF Sums, n, D, base

LEMMA SumsGrow ==
  ASSUME NEW h, NEW n \in Nat, n = Len(h.nals), NEW b, Sums(b, h), h.nals \in Seq(Nal), NEW k \in 0 .. n
  PROVE  b[k] \in Nat /\ b[k] <= HeaderBytes(h) /\ HeaderBytes(h) \in Nat
<1>1. /\ b \in [0 .. n -> Nat] /\ b[n] = HeaderBytes(h)
      /\ \A j \in 1 .. n : b[j] = b[j - 1] + 4 + h.nals[j].len
  BY DEF Sums
<1>2. \A j \in 1 .. n : h.nals[j].len \in Nat
  <2>1. \A j \in 1 .. n : h.nals[j] \in Nal
    OBVIOUS
  <2> QED
    BY <2>1 DEF Nal
<1> DEFINE S == {m \in Nat : m <= n => \A j \in 0 .. m : b[j] <= b[m]}
<1>3. 0 \in S
  <2>1. b[0] \in Nat /\ \A j \in 0 .. 0 : j = 0
    BY <1>1
  <2>2. \A j \in 0 .. 0 : b[j] <= b[0]
    BY <2>1
  <2> QED
    BY <2>2
<1>4. ASSUME NEW m \in Nat, m \in S PROVE m + 1 \in S
  <2> SUFFICES ASSUME m + 1 <= n, NEW j \in 0 .. m + 1 PROVE b[j] <= b[m + 1]
    OBVIOUS
  <2>1. m + 1 \in 1 .. n /\ (m + 1) - 1 = m /\ m \in 0 .. n /\ m + 1 \in 0 .. n /\ j \in 0 .. n
    OBVIOUS
  <2>2. b[m + 1] = b[m] + 4 + h.nals[m + 1].len /\ h.nals[m + 1].len \in Nat
    BY <1>1, <1>2, <2>1
  <2>3. b[m] \in Nat /\ b[j] \in Nat
    <3> HIDE DEF S
    <3> QED
      BY <1>1, <2>1
  <2>4. CASE j = m + 1
    <3>1. b[m + 1] \in Nat
      <4> HIDE DEF S
      <4> QED
        BY <1>1, <2>1
    <3> HIDE DEF S
    <3> QED
      BY <2>4, <3>1
  <2>5. CASE j # m + 1
    <3>1. b[j] <= b[m]
      BY <1>4, <2>1, <2>5
    <3> HIDE DEF S
    <3>2. PICK x \in Nat, y \in Nat : x = b[j] /\ y = b[m]
      BY <2>3
    <3>3. PICK l \in Nat : l = h.nals[m + 1].len
      BY <2>2
    <3>4. b[m + 1] = y + 4 + l
      BY <2>2, <3>2, <3>3
    <3>5. x <= y
      BY <3>1, <3>2
    <3>6. x <= y + 4 + l
      BY <3>5
    <3> QED
      BY <3>2, <3>4, <3>6, Zenon
  <2> QED
    BY <2>4, <2>5
<1>5. n \in S
  <2> HIDE DEF S
  <2>1. Nat \subseteq S
    BY <1>3, <1>4, Induction
  <2> QED
    BY <2>1
<1>6. n \in 0 .. n
  OBVIOUS
<1>7. b[k] <= b[n]
  BY <1>5
<1> HIDE DEF S
<1>8. b[k] \in Nat /\ b[n] \in Nat
  BY <1>1, <1>6
<1> QED
  BY <1>1, <1>7, <1>8

LEMMA UnitAppended ==
  ASSUME NEW o \in Outputs, NEW t \in Nat, NEW m \in Nat
  PROVE  LET q == Append4(o, t, m)
         IN  /\ q \in Outputs /\ q.units = Append(o.units, t) /\ q.used = o.used + 4 + m
             /\ q.used >= o.used
             /\ q.aud_sent = o.aud_sent /\ q.sps_pps_sent = o.sps_pps_sent /\ q.result = o.result
<1> DEFINE q == Append4(o, t, m)
<1>1. o.units \in Seq(Nat) /\ o.used \in Nat
  BY DEF Outputs
<1>2. Append(o.units, t) \in Seq(Nat) /\ o.used + 4 + m \in Nat
  BY <1>1
<1>3. PICK u \in Seq(Nat), y \in Nat : u = Append(o.units, t) /\ y = o.used + 4 + m
  BY <1>2
<1>4. q = [o EXCEPT !.units = u, !.used = y]
  BY <1>3 DEF Append4
<1>5. /\ q \in Outputs /\ q.units = u /\ q.used = y
      /\ q.aud_sent = o.aud_sent /\ q.sps_pps_sent = o.sps_pps_sent /\ q.result = o.result
  BY <1>4 DEF Outputs
<1>6. y >= o.used
  BY <1>1, <1>3
<1> QED
  BY <1>3, <1>5, <1>6

(* Leaves the fields but units, used and result as they are. *)
Extends(o, q) ==
  q \in Outputs /\ q.used >= o.used /\ q.aud_sent = o.aud_sent /\ q.sps_pps_sent = o.sps_pps_sent

LEMMA ResultSet ==
  ASSUME NEW o \in Outputs, NEW r \in Results
  PROVE  /\ [o EXCEPT !.result = r] \in Outputs /\ [o EXCEPT !.result = r].result = r
         /\ [o EXCEPT !.result = r].units = o.units /\ [o EXCEPT !.result = r].used = o.used
         /\ [o EXCEPT !.result = r].aud_sent = o.aud_sent
         /\ [o EXCEPT !.result = r].sps_pps_sent = o.sps_pps_sent
  BY DEF Outputs

LEMMA ResultsAre == {"whole", "dropped", "error", "stopped"} \subseteq Results
  BY DEF Results

LEMMA SetAppended ==
  ASSUME NEW o \in Outputs, NEW x \in Nal, NEW cut
  PROVE  /\ Extends(o, AppendParameterSet(o, x, cut))
         /\ o.result = "whole" /\ ~cut /\ o.used + 4 + x.len <= BufSize
              => AppendParameterSet(o, x, cut) = Append4(o, x.type, x.len)
<1>1. x.type \in Nat /\ x.len \in Nat /\ o.used \in Nat /\ BufSize \in Nat /\ "stopped" \in Results
      /\ 0 \in Nat /\ Prefix = 0
  BY BufSizeAssumption, ResultsAre DEF Nal, Outputs, Prefix
<1>2. Extends(o, o)
  BY <1>1 DEF Extends
<1>3. Extends(o, [o EXCEPT !.result = "stopped"])
  BY <1>1, ResultSet DEF Extends
<1>4. Extends(o, Append4(o, x.type, x.len))
  BY <1>1, UnitAppended DEF Extends
<1>5. Extends(o, [Append4(o, Prefix, 0) EXCEPT !.result = "stopped"])
  <2>1. PICK p \in Outputs : p = Append4(o, Prefix, 0) /\ Extends(o, p)
    BY <1>1, UnitAppended DEF Extends
  <2> QED
    BY <1>1, <2>1, ResultSet DEF Extends
<1>6. CASE o.result # "whole"
  BY <1>2, <1>6 DEF AppendParameterSet
<1>7. CASE o.result = "whole" /\ o.used + 4 > BufSize
  <2>1. ~(o.used + 4 + x.len <= BufSize)
    BY <1>1, <1>7
  <2> QED
    BY <1>3, <1>7, <2>1 DEF AppendParameterSet
<1>8. CASE o.result = "whole" /\ ~(o.used + 4 > BufSize) /\ (o.used + 4 + x.len > BufSize \/ cut)
  <2>1. ~(~cut /\ o.used + 4 + x.len <= BufSize)
    BY <1>1, <1>8
  <2> QED
    BY <1>5, <1>8, <2>1 DEF AppendParameterSet
<1>9. CASE o.result = "whole" /\ ~(o.used + 4 > BufSize) /\ ~(o.used + 4 + x.len > BufSize \/ cut)
  BY <1>4, <1>9 DEF AppendParameterSet
<1> QED
  BY <1>6, <1>7, <1>8, <1>9

(* Parameter set after parameter set. *)
SetSteps(g, o, h) ==
  LET n == Len(h.nals)
  IN  /\ g \in [0 .. n -> Outputs] /\ g[0] = o
      /\ \A k \in 1 .. n : g[k] = AppendParameterSet(g[k - 1], h.nals[k], h.cut = "body" /\ k = n)
      /\ AppendSpsPps(o, h) = [g[n] EXCEPT !.result = "whole"]

LEMMA SetsAppended ==
  ASSUME NEW h, h.nals \in Seq(Nal), NEW o \in Outputs
  PROVE  \E g : SetSteps(g, o, h)
<1> DEFINE n    == Len(h.nals)
           D    == Outputs
           ids  == [i \in 1 .. n |-> i]
           op(q, i) == AppendParameterSet(q, h.nals[i], h.cut = "body" /\ i = n)
           st   == [i \in 1 .. n |-> [m \in D |-> op(m, i)]]
           Is(g) == g = [s \in SUBSET (1 .. n) |->
                           IF s = {} THEN o ELSE op(g[s \ {Max(s)}], ids[Max(s)])]
           it   == CHOOSE g : Is(g)
<1>1. n \in Nat /\ DOMAIN ids = 1 .. n /\ \A i \in 1 .. n : h.nals[i] \in Nal /\ ids[i] = i
  OBVIOUS
<1>3. AppendSpsPps(o, h) = [it[1 .. n] EXCEPT !.result = "whole"]
  <2> HIDE DEF n
  <2>1. DOMAIN [i \in 1 .. n |-> i] = 1 .. n
    OBVIOUS
  <2>2. AppendSpsPps(o, h) =
          [FoldLeft(LAMBDA q, i : AppendParameterSet(q, h.nals[i], h.cut = "body" /\ i = n),
                                       o, [i \in 1 .. n |-> i]) EXCEPT !.result = "whole"]
    BY DEF AppendSpsPps, n
  <2> QED
    BY <2>1, <2>2, Zenon DEF FoldLeft, MapThenFoldSet
<1>4. \A q \in D, i \in 1 .. n : op(q, i) \in D
  BY <1>1, SetAppended DEF Extends
<1>5. /\ st \in [1 .. n -> [D -> D]]
      /\ \A i \in 1 .. n, m \in D : st[i][m] = op(m, i)
  BY <1>1, <1>4
<1> HIDE DEF n, st, D, op, ids
<1>6. \E g : Is(g)
  <2>1. PICK g : FoldTo(g, o, st, n, D)
    BY <1>1, <1>5, FoldsExist DEF D
  <2>2. g = [s \in SUBSET (1 .. n) |-> IF s = {} THEN o ELSE st[Max(s)][g[s \ {Max(s)}]]]
    BY <2>1 DEF FoldTo, Folds
  <2>3. ASSUME NEW s \in SUBSET (1 .. n), s # {}
        PROVE  st[Max(s)][g[s \ {Max(s)}]] = op(g[s \ {Max(s)}], ids[Max(s)])
    <3>1. Max(s) \in 1 .. n /\ g[s \ {Max(s)}] \in D
      BY <2>1, <2>3 DEF FoldTo
    <3> QED
      BY <1>1, <1>5, <3>1
  <2>4. [s \in SUBSET (1 .. n) |-> IF s = {} THEN o ELSE st[Max(s)][g[s \ {Max(s)}]]]
          = [s \in SUBSET (1 .. n) |->
               IF s = {} THEN o ELSE op(g[s \ {Max(s)}], ids[Max(s)])]
    BY <2>3
  <2> QED
    BY <2>2, <2>4
<1>7. Is(it)
  BY <1>6, Zenon
<1> HIDE DEF it
<1>8. it[{}] = o
  BY <1>7
<1>9. Iterates(it, o, st, n, D)
  <2>1. ASSUME NEW s \in SUBSET (1 .. n), s # {}, Max(s) \in 1 .. n, it[s \ {Max(s)}] \in D
        PROVE  it[s] = st[Max(s)][it[s \ {Max(s)}]]
    <3>1. it[s] = op(it[s \ {Max(s)}], ids[Max(s)])
      BY <1>7, <2>1
    <3> QED
      BY <1>1, <1>5, <2>1, <3>1
  <2> QED
    BY <1>8, <2>1 DEF Iterates
<1>10. PICK g : Steps(g, o, st, n, D) /\ g[n] = it[1 .. n]
  BY <1>1, <1>5, <1>9, FoldSteps DEF D
<1>11. ASSUME NEW k \in 1 .. n PROVE g[k] = op(g[k - 1], k)
  <2>1. k - 1 \in 0 .. n /\ g[k] = st[k][g[k - 1]] /\ g \in [0 .. n -> D]
    BY <1>1, <1>10 DEF Steps
  <2> QED
    BY <1>5, <2>1
<1>12. g \in [0 .. n -> D] /\ g[0] = o /\ AppendSpsPps(o, h) = [g[n] EXCEPT !.result = "whole"]
  BY <1>3, <1>10 DEF Steps
<1> QED
  BY <1>11, <1>12 DEF SetSteps, n, D, op

(* Any sequence header leaves a buffer that only grows. *)
LEMMA SpsPpsType ==
  ASSUME NEW h, h.nals \in Seq(Nal), NEW o \in Outputs
  PROVE  Extends(o, AppendSpsPps(o, h)) /\ AppendSpsPps(o, h).result = "whole"
<1>1. PICK n \in Nat : n = Len(h.nals) /\ \A k \in 1 .. n : h.nals[k] \in Nal
  OBVIOUS
<1>2. PICK g : SetSteps(g, o, h)
  BY SetsAppended
<1>3. /\ g \in [0 .. n -> Outputs] /\ g[0] = o
      /\ \A k \in 1 .. n : g[k] = AppendParameterSet(g[k - 1], h.nals[k], h.cut = "body" /\ k = n)
      /\ AppendSpsPps(o, h) = [g[n] EXCEPT !.result = "whole"]
  BY <1>1, <1>2 DEF SetSteps
<1> DEFINE S == {m \in Nat : m <= n => Extends(o, g[m])}
<1>4. 0 \in S
  <2>1. o.used \in Nat
    BY DEF Outputs
  <2> QED
    BY <1>3, <2>1 DEF Extends
<1>5. ASSUME NEW m \in Nat, m \in S PROVE m + 1 \in S
  <2> SUFFICES ASSUME m + 1 <= n PROVE Extends(o, g[m + 1])
    OBVIOUS
  <2>1. m + 1 \in 1 .. n /\ (m + 1) - 1 = m /\ m \in 0 .. n /\ Extends(o, g[m])
    BY <1>5
  <2>2. Extends(g[m], g[m + 1])
    <3>1. g[m] \in Outputs /\ h.nals[m + 1] \in Nal
      BY <1>1, <1>3, <2>1
    <3>2. g[m + 1] = AppendParameterSet(g[m], h.nals[m + 1], h.cut = "body" /\ m + 1 = n)
      BY <1>3, <2>1
    <3> QED
      BY <3>1, <3>2, SetAppended
  <2>3. o.used \in Nat /\ g[m].used \in Nat /\ g[m + 1].used \in Nat
    BY <2>1, <2>2 DEF Extends, Outputs
  <2> QED
    BY <2>1, <2>2, <2>3 DEF Extends
<1>6. n \in S
  <2> HIDE DEF S
  <2>1. Nat \subseteq S
    BY <1>4, <1>5, Induction
  <2> QED
    BY <2>1
<1>7. PICK q \in Outputs : q = g[n] /\ Extends(o, q)
  BY <1>6 DEF Extends
<1>8. AppendSpsPps(o, h) = [q EXCEPT !.result = "whole"]
  BY <1>3, <1>7
<1> QED
  BY <1>7, <1>8, ResultSet, ResultsAre DEF Extends

(* With room for it, one sequence parameter set is put before the others. *)
LEMMA SpsPpsPut ==
  ASSUME NEW h, PlainHeader(h), NEW o \in Outputs, o.result = "whole",
         Drawn(o.units, 1, 0), o.used + HeaderBytes(h) <= BufSize
  PROVE  Drawn(AppendSpsPps(o, h).units, 1, 1)
<1>0. h.nals \in Seq(Nal) /\ h.nals # <<>> /\ h.cut = "no"
  BY DEF PlainHeader, Nal
<1>1. PICK n \in Nat : n = Len(h.nals) /\ n >= 1 /\ \A k \in 1 .. n : h.nals[k] \in Nal
  BY <1>0
<1>2. PICK g : SetSteps(g, o, h)
  BY <1>0, SetsAppended
<1>3. /\ g \in [0 .. n -> Outputs] /\ g[0] = o
      /\ \A k \in 1 .. n : g[k] = AppendParameterSet(g[k - 1], h.nals[k], FALSE)
      /\ AppendSpsPps(o, h) = [g[n] EXCEPT !.result = "whole"]
  BY <1>0, <1>1, <1>2 DEF SetSteps
<1>4. PICK b : Sums(b, h)
  BY <1>0, HeaderSums
<1>5. \A k \in 0 .. n : b[k] \in Nat /\ b[k] <= HeaderBytes(h) /\ HeaderBytes(h) \in Nat
  BY <1>0, <1>1, <1>4, SumsGrow
<1>6. b[0] = 0 /\ \A k \in 1 .. n : b[k] = b[k - 1] + 4 + h.nals[k].len
  BY <1>1, <1>4 DEF Sums
<1> DEFINE Fine(m) == /\ g[m].result = "whole" /\ g[m].used = o.used + b[m]
                      /\ Drawn(g[m].units, 1, IF m = 0 THEN 0 ELSE 1)
           S == {m \in Nat : m <= n => Fine(m)}
<1>7. o.used \in Nat /\ BufSize \in Nat
  BY BufSizeAssumption DEF Outputs
<1>8. 0 \in S
  BY <1>3, <1>6, <1>7
<1>9. ASSUME NEW m \in Nat, m \in S PROVE m + 1 \in S
  <2> SUFFICES ASSUME m + 1 <= n PROVE Fine(m + 1)
    OBVIOUS
  <2>1. m + 1 \in 1 .. n /\ (m + 1) - 1 = m /\ m \in 0 .. n /\ m + 1 \in 0 .. n /\ Fine(m) /\ m + 1 # 0
    BY <1>9
  <2>2. PICK p \in Outputs, x \in Nal : p = g[m] /\ x = h.nals[m + 1]
    BY <1>1, <1>3, <2>1
  <2>3. g[m + 1] = AppendParameterSet(p, x, FALSE)
    BY <1>3, <2>1, <2>2
  <2>4. x.len \in Nat /\ x.type \in Nat /\ b[m] \in Nat /\ b[m + 1] = b[m] + 4 + x.len
    BY <1>5, <1>6, <2>1, <2>2 DEF Nal
  <2>5. p.used + 4 + x.len <= BufSize
    <3>1. p.used = o.used + b[m] /\ b[m + 1] <= HeaderBytes(h) /\ HeaderBytes(h) \in Nat
      BY <1>5, <2>1, <2>2
    <3> QED
      BY <1>7, <2>4, <3>1
  <2>6. g[m + 1] = Append4(p, x.type, x.len)
    BY <2>1, <2>2, <2>3, <2>5, SetAppended
  <2>10. p.result = "whole" /\ p.used = o.used + b[m]
    BY <2>1, <2>2
  <2>7. /\ g[m + 1].units = Append(p.units, x.type) /\ g[m + 1].used = p.used + 4 + x.len
        /\ g[m + 1].result = "whole"
    <3> HIDE DEF S, Fine
    <3>1. PICK q : q = g[m + 1]
      OBVIOUS
    <3>2. q = Append4(p, x.type, x.len)
      BY <2>6, <3>1
    <3>3. q.units = Append(p.units, x.type) /\ q.used = p.used + 4 + x.len /\ q.result = p.result
      <4>1. x.type \in Nat /\ x.len \in Nat
        BY <2>4
      <4> QED
        BY <3>2, <4>1, UnitAppended, Zenon
    <3> QED
      BY <2>10, <3>1, <3>3
  <2>8. g[m + 1].used = o.used + b[m + 1]
    <3> HIDE DEF S, Fine
    <3>1. (o.used + b[m]) + 4 + x.len = o.used + (b[m] + 4 + x.len)
      BY <1>7, <2>4
    <3> QED
      BY <2>4, <2>7, <2>10, <3>1
  <2>9. Drawn(Append(p.units, x.type), 1, 1)
    <3>1. CASE m = 0
      <4>1. x.type = 7
        BY <2>1, <2>2, <3>1 DEF PlainHeader
      <4> QED
        BY <2>1, <2>2, <3>1, <4>1, DrawnSps
    <3>2. CASE m # 0
      <4>1. x.type \notin {Slice, Idr, Sei, 7, Aud}
        <5>1. m + 1 # 1 /\ m + 1 \in 1 .. Len(h.nals)
          BY <1>1, <2>1, <3>2
        <5> QED
          BY <2>2, <5>1 DEF PlainHeader
      <4>2. x.type \notin {Aud, Slice, Idr, Sei, 7}
        BY <4>1
      <4> QED
        BY <2>1, <2>2, <2>4, <3>2, <4>2, DrawnOther
    <3> QED
      BY <3>1, <3>2
  <2> QED
    BY <2>1, <2>7, <2>8, <2>9
<1>10. Fine(n) /\ n # 0
  <2> HIDE DEF S
  <2>1. Nat \subseteq S
    BY <1>8, <1>9, Induction
  <2> USE DEF S
  <2> QED
    BY <1>1, <2>1
<1>11. PICK q \in Outputs : q = g[n] /\ Drawn(q.units, 1, 1)
  BY <1>1, <1>3, <1>10
<1> QED
  BY <1>3, <1>11, ResultSet, ResultsAre

LEMMA AudAppended ==
  ASSUME NEW o \in Outputs
  PROVE  /\ Extends(o, AppendAud(o)) /\ AppendAud(o).result = o.result
         /\ o.used + 6 <= BufSize =>
              AppendAud(o).units = Append(o.units, Aud) /\ AppendAud(o).used = o.used + 6
<1>1. Aud \in Nat /\ 2 \in Nat /\ o.used \in Nat /\ BufSize \in Nat
  BY BufSizeAssumption DEF Aud, Outputs
<1>2. CASE o.used + 6 > BufSize
  <2>1. ~(o.used + 6 <= BufSize)
    BY <1>1, <1>2
  <2>2. Extends(o, o)
    BY <1>1 DEF Extends
  <2> QED
    BY <1>2, <2>1, <2>2 DEF AppendAud
<1>3. CASE ~(o.used + 6 > BufSize)
  <2>1. AppendAud(o) = Append4(o, Aud, 2)
    BY <1>3 DEF AppendAud
  <2>2. Extends(o, Append4(o, Aud, 2))
    BY <1>1, UnitAppended DEF Extends
  <2>3. /\ Append4(o, Aud, 2).units = Append(o.units, Aud)
        /\ Append4(o, Aud, 2).used = o.used + 4 + 2 /\ Append4(o, Aud, 2).result = o.result
    BY <1>1, UnitAppended
  <2>4. o.used + 4 + 2 = o.used + 6
    BY <1>1
  <2> QED
    BY <2>1, <2>2, <2>3, <2>4
<1> QED
  BY <1>2, <1>3

(* What every step leaves: an output at least as full. *)
Fuller(o, q) == q \in Outputs /\ q.used >= o.used

LEMMA FullerTwice ==
  ASSUME NEW o \in Outputs, NEW p, NEW q, Fuller(o, p), Fuller(p, q)
  PROVE  Fuller(o, q)
<1>1. o.used \in Nat /\ p.used \in Nat /\ q.used \in Nat
  BY DEF Fuller, Outputs
<1> QED
  BY <1>1 DEF Fuller

LEMMA Delimited ==
  ASSUME NEW o \in Outputs, NEW t
  PROVE  /\ Fuller(o, Delimit(o, t)) /\ Delimit(o, t).result = o.result
         /\ Delimit(o, t).sps_pps_sent = o.sps_pps_sent
         /\ t \in Pictures => Delimit(o, t).aud_sent = 1
         /\ t \notin Pictures => Delimit(o, t) = o
         /\ Drawn(o.units, o.aud_sent, o.sps_pps_sent) /\ o.used + 6 <= BufSize =>
              /\ Drawn(Delimit(o, t).units, Delimit(o, t).aud_sent, Delimit(o, t).sps_pps_sent)
              /\ Delimit(o, t).used <= o.used + 6
<1>1. o.used \in Nat /\ o.aud_sent \in {0, 1} /\ BufSize \in Nat
  BY BufSizeAssumption DEF Outputs
<1>2. CASE o.aud_sent = 0 /\ t \in Pictures
  <2>1. PICK p \in Outputs : p = AppendAud(o) /\ Extends(o, p) /\ p.result = o.result
    BY AudAppended DEF Extends
  <2>2. PICK q : q = [p EXCEPT !.aud_sent = 1]
    OBVIOUS
  <2>3. Delimit(o, t) = q
    BY <1>2, <2>1, <2>2 DEF Delimit, Pictures
  <2>4. /\ q \in Outputs /\ q.units = p.units /\ q.used = p.used /\ q.aud_sent = 1
        /\ q.sps_pps_sent = p.sps_pps_sent /\ q.result = p.result
    BY <2>2 DEF Outputs
  <2>5. ASSUME Drawn(o.units, o.aud_sent, o.sps_pps_sent), o.used + 6 <= BufSize
        PROVE  Drawn(q.units, q.aud_sent, q.sps_pps_sent) /\ q.used <= o.used + 6
    <3>1. q.units = Append(o.units, Aud) /\ q.used = o.used + 6 /\ q.sps_pps_sent = o.sps_pps_sent
      BY <2>1, <2>4, <2>5, AudAppended DEF Extends
    <3>2. Drawn(Append(o.units, Aud), 1, o.sps_pps_sent)
      BY <1>2, <2>5, DrawnAud
    <3> QED
      BY <1>1, <2>4, <3>1, <3>2
  <2> QED
    BY <1>2, <2>1, <2>3, <2>4, <2>5 DEF Fuller, Extends
<1>3. CASE ~(o.aud_sent = 0 /\ t \in Pictures)
  <2>1. Delimit(o, t) = o
    BY <1>3 DEF Delimit, Pictures
  <2>2. Fuller(o, o) /\ o.used <= o.used + 6
    BY <1>1 DEF Fuller
  <2> QED
    BY <1>1, <1>3, <2>1, <2>2
<1> QED
  BY <1>2, <1>3

LEMMA SentSet ==
  ASSUME NEW o \in Outputs, NEW r \in {0, 1}
  PROVE  /\ [o EXCEPT !.sps_pps_sent = r] \in Outputs /\ [o EXCEPT !.sps_pps_sent = r].sps_pps_sent = r
         /\ [o EXCEPT !.sps_pps_sent = r].units = o.units /\ [o EXCEPT !.sps_pps_sent = r].used = o.used
         /\ [o EXCEPT !.sps_pps_sent = r].aud_sent = o.aud_sent
         /\ [o EXCEPT !.sps_pps_sent = r].result = o.result
  BY DEF Outputs

LEMMA Parameterised ==
  ASSUME NEW h, PlainHeader(h), NEW o \in Outputs, o.result = "whole", NEW t \in Nat
  PROVE  LET p == Parameterise(o, t, h)
         IN  /\ Fuller(o, p) /\ p.result = "whole" /\ p.aud_sent = o.aud_sent
             /\ Drawn(o.units, o.aud_sent, o.sps_pps_sent) /\ o.used + HeaderBytes(h) <= BufSize
                /\ t \notin {7, Aud} /\ (t \in Pictures => o.aud_sent = 1) =>
                  Drawn(Append(p.units, t), p.aud_sent, p.sps_pps_sent)
<1> DEFINE p == Parameterise(o, t, h)
           Given == /\ Drawn(o.units, o.aud_sent, o.sps_pps_sent) /\ o.used + HeaderBytes(h) <= BufSize
                    /\ t \notin {7, Aud} /\ (t \in Pictures => o.aud_sent = 1)
           Goal == /\ Fuller(o, p) /\ p.result = "whole" /\ p.aud_sent = o.aud_sent
                   /\ Given => Drawn(Append(p.units, t), p.aud_sent, p.sps_pps_sent)
<1> SUFFICES Goal
  OBVIOUS
<1>1. o.used \in Nat /\ o.sps_pps_sent \in {0, 1} /\ h.nals \in Seq(Nal) /\ {0, 1} = {1, 0}
  BY DEF Outputs, PlainHeader, Nal
<1>2. Fuller(o, o)
  BY <1>1 DEF Fuller
<1>3. {Slice, Idr, Sei} \subseteq Pictures /\ Slice # Idr /\ Slice # Sei /\ Idr # Sei
  BY DEF Pictures, Slice, Idr, Sei
<1>4. CASE t = Slice
  <2>1. p = [o EXCEPT !.sps_pps_sent = 0]
    BY <1>4 DEF Parameterise
  <2>2. /\ p \in Outputs /\ p.sps_pps_sent = 0 /\ p.units = o.units /\ p.used = o.used
        /\ p.aud_sent = o.aud_sent /\ p.result = "whole"
    <3> HIDE DEF p, Given
    <3>1. 0 \in {0, 1}
      OBVIOUS
    <3>2. PICK u : u = [o EXCEPT !.sps_pps_sent = 0]
      OBVIOUS
    <3>3. /\ u \in Outputs /\ u.sps_pps_sent = 0 /\ u.units = o.units /\ u.used = o.used
          /\ u.aud_sent = o.aud_sent /\ u.result = o.result
      BY <3>1, <3>2, SentSet
    <3> QED
      BY <2>1, <3>2, <3>3
  <2> HIDE DEF p
  <2>3. Given => Drawn(Append(p.units, t), p.aud_sent, p.sps_pps_sent)
    BY <1>1, <1>3, <1>4, <2>2, DrawnSlice
  <2> QED
    BY <1>1, <2>2, <2>3 DEF Fuller
<1>5. CASE t = Idr /\ o.sps_pps_sent = 0
  <2>1. PICK q \in Outputs : q = AppendSpsPps(o, h) /\ Extends(o, q) /\ q.result = "whole"
    BY <1>1, SpsPpsType DEF Extends
  <2>2. p = [q EXCEPT !.sps_pps_sent = 1]
    BY <1>3, <1>5, <2>1 DEF Parameterise
  <2>3. /\ p \in Outputs /\ p.sps_pps_sent = 1 /\ p.units = q.units /\ p.used = q.used
        /\ p.aud_sent = q.aud_sent /\ p.result = "whole"
    BY <2>1, <2>2, SentSet
  <2> HIDE DEF p
  <2>4. Given => Drawn(Append(p.units, t), p.aud_sent, p.sps_pps_sent)
    <3> SUFFICES ASSUME Given PROVE Drawn(Append(p.units, t), p.aud_sent, p.sps_pps_sent)
      OBVIOUS
    <3>1. o.aud_sent = 1 /\ Drawn(o.units, 1, 0)
      BY <1>3, <1>5
    <3>2. Drawn(q.units, 1, 1)
      BY <2>1, <3>1, SpsPpsPut
    <3>3. Drawn(Append(q.units, Idr), 1, 1)
      BY <3>2, DrawnIdr
    <3> QED
      BY <1>5, <2>1, <2>3, <3>1, <3>3 DEF Extends
  <2> QED
    BY <2>1, <2>3, <2>4 DEF Fuller, Extends
<1>6. CASE t # Slice /\ ~(t = Idr /\ o.sps_pps_sent = 0)
  <2>1. p = o
    BY <1>6 DEF Parameterise
  <2> HIDE DEF p
  <2>2. Given => Drawn(Append(p.units, t), p.aud_sent, p.sps_pps_sent)
    <3>1. CASE t = Idr
      BY <1>1, <1>3, <1>6, <2>1, <3>1, DrawnIdr
    <3>2. CASE t = Sei
      BY <1>3, <2>1, <3>2, DrawnSei
    <3>3. CASE t # Idr /\ t # Sei
      <4>1. Given => t \notin {Aud, Slice, Idr, Sei, 7}
        BY <1>6, <3>3
      <4> QED
        BY <2>1, <4>1, DrawnOther
    <3> QED
      BY <3>1, <3>2, <3>3
  <2> QED
    BY <1>2, <2>1, <2>2
<1> HIDE DEF p, Given
<1> QED
  BY <1>4, <1>5, <1>6

LEMMA UnitTaken ==
  ASSUME NEW o \in Outputs, NEW x \in Nal, x.len # 0, NEW cut
  PROVE  LET q == AppendUnit(o, x, cut)
         IN  /\ Fuller(o, q)
             /\ q.result = "whole" =>
                  /\ q.units = Append(o.units, x.type) /\ q.aud_sent = o.aud_sent
                  /\ q.sps_pps_sent = o.sps_pps_sent
<1> DEFINE q == AppendUnit(o, x, cut)
           start == IF o.used = 0 THEN 5 ELSE 4
           long  == o.used + 5 > BufSize \/ o.used + start + x.len > BufSize
           y     == o.used + start + x.len - 1
           Goal  == /\ Fuller(o, q)
                    /\ q.result = "whole" =>
                         /\ q.units = Append(o.units, x.type) /\ q.aud_sent = o.aud_sent
                         /\ q.sps_pps_sent = o.sps_pps_sent
<1> SUFFICES Goal
  OBVIOUS
<1>1. /\ o.used \in Nat /\ x.type \in Nat /\ x.len \in Nat /\ start \in {4, 5}
      /\ {"dropped", "error"} \subseteq Results /\ "dropped" # "whole" /\ "error" # "whole"
  BY DEF Outputs, Nal, Results
<1>2. CASE long
  <2>1. q = [o EXCEPT !.result = "dropped"]
    BY <1>2 DEF AppendUnit
  <2> HIDE DEF q
  <2>2. q \in Outputs /\ q.result = "dropped" /\ q.used = o.used
    BY <1>1, <2>1, ResultSet
  <2> QED
    BY <1>1, <2>2 DEF Fuller
<1>3. CASE ~long /\ cut
  <2>1. q = [o EXCEPT !.result = "error"]
    BY <1>3 DEF AppendUnit
  <2> HIDE DEF q
  <2>2. q \in Outputs /\ q.result = "error" /\ q.used = o.used
    BY <1>1, <2>1, ResultSet
  <2> QED
    BY <1>1, <2>2 DEF Fuller
<1>4. CASE ~long /\ ~cut
  <2>1. q = [o EXCEPT !.units = Append(@, x.type), !.used = y]
    BY <1>4 DEF AppendUnit
  <2>2. y \in Nat /\ y >= o.used
    <3> HIDE DEF q, start
    <3> QED
      BY <1>1
  <2> HIDE DEF q, y, start, long
  <2>3. PICK u \in Seq(Nat) : u = Append(o.units, x.type)
    <3>1. o.units \in Seq(Nat)
      BY DEF Outputs
    <3>2. \A u \in Seq(Nat), t \in Nat : Append(u, t) \in Seq(Nat)
      OBVIOUS
    <3> QED
      BY <1>1, <3>1, <3>2
  <2>4. q = [o EXCEPT !.units = u, !.used = y]
    BY <2>1, <2>3
  <2>5. /\ q \in Outputs /\ q.units = u /\ q.used = y /\ q.aud_sent = o.aud_sent
        /\ q.sps_pps_sent = o.sps_pps_sent
    BY <2>2, <2>4 DEF Outputs
  <2> QED
    BY <2>2, <2>3, <2>5 DEF Fuller
<1> QED
  BY <1>2, <1>3, <1>4

(* An output in which nothing is missing. *)
Complete(o) ==
  /\ Drawn(o.units, o.aud_sent, o.sps_pps_sent)
  /\ o.aud_sent = 1 => At(o.units, Pictures) # {}

(* One unit of a message. *)
LEMMA UnitStep ==
  ASSUME NEW h, PlainHeader(h), NEW o \in Outputs, NEW x \in Nal, NEW cut
  PROVE  LET q == NextUnit(o, x, cut, h)
         IN  /\ Fuller(o, q) /\ (o.result # "whole" => q = o)
             /\ Complete(o) /\ o.used + 6 + HeaderBytes(h) <= BufSize /\ q.result = "whole" =>
                  Complete(q)
<1> DEFINE q == NextUnit(o, x, cut, h)
           Goal == /\ Fuller(o, q) /\ (o.result # "whole" => q = o)
                   /\ Complete(o) /\ o.used + 6 + HeaderBytes(h) <= BufSize /\ q.result = "whole" =>
                        Complete(q)
<1> SUFFICES Goal
  OBVIOUS
<1>1. o.used \in Nat /\ x.type \in Nat /\ x.len \in Nat /\ BufSize \in Nat
  BY BufSizeAssumption DEF Outputs, Nal
<1>2. Fuller(o, o)
  BY <1>1 DEF Fuller
<1>3. CASE q = o
  BY <1>2, <1>3
<1>4. CASE o.result = "whole" /\ cut = "head"
  <2>1. q = [o EXCEPT !.result = "dropped"]
    BY <1>4 DEF NextUnit
  <2> HIDE DEF q
  <2>2. q \in Outputs /\ q.result = "dropped" /\ q.used = o.used /\ "dropped" # "whole"
    BY <2>1, ResultSet, ResultsAre
  <2> QED
    BY <1>1, <1>4, <2>2 DEF Fuller
<1>5. CASE o.result = "whole" /\ cut = "body" /\ x.len # 0 /\ x.type \in Dropped
  <2>1. q = [o EXCEPT !.result = "error"]
    BY <1>5 DEF NextUnit
  <2> HIDE DEF q
  <2>2. q \in Outputs /\ q.result = "error" /\ q.used = o.used /\ "error" # "whole"
    BY <2>1, ResultSet, ResultsAre
  <2> QED
    BY <1>1, <1>5, <2>2 DEF Fuller
<1>6. CASE o.result = "whole" /\ cut # "head" /\ x.len # 0 /\ x.type \notin Dropped
  <2> DEFINE d == Delimit(o, x.type)
             p == Parameterise(d, x.type, h)
  <2>1. q = AppendUnit(p, x, cut = "body")
    BY <1>6 DEF NextUnit
  <2>2. d \in Outputs /\ Fuller(o, d) /\ d.result = "whole"
    BY <1>6, Delimited DEF Fuller
  <2> HIDE DEF d, q
  <2>3. p \in Outputs /\ Fuller(d, p)
    BY <1>1, <2>2, Parameterised DEF Fuller
  <2>4. /\ Fuller(p, q)
        /\ q.result = "whole" =>
             q.units = Append(p.units, x.type) /\ q.aud_sent = p.aud_sent /\ q.sps_pps_sent = p.sps_pps_sent
    <3> HIDE DEF p
    <3> QED
      BY <1>6, <2>1, <2>3, UnitTaken
  <2>5. Fuller(o, q)
    <3>1. Fuller(o, p)
      BY <2>2, <2>3, FullerTwice
    <3> HIDE DEF p
    <3> QED
      BY <2>4, <3>1, FullerTwice
  <2>6. ASSUME Complete(o), o.used + 6 + HeaderBytes(h) <= BufSize, q.result = "whole"
        PROVE  Complete(q)
    <3>1. HeaderBytes(h) \in Nat
      <4>1. h.nals \in Seq(Nal)
        BY DEF PlainHeader, Nal
      <4>2. PICK b : Sums(b, h)
        BY <4>1, HeaderSums
      <4>3. Len(h.nals) \in Nat /\ 0 \in 0 .. Len(h.nals)
        BY <4>1
      <4> QED
        BY <4>1, <4>2, <4>3, SumsGrow
    <3>2. o.used + 6 <= BufSize
      BY <1>1, <2>6, <3>1
    <3>3. Drawn(d.units, d.aud_sent, d.sps_pps_sent) /\ d.used <= o.used + 6
      BY <2>6, <3>2, Delimited DEF d, Complete
    <3>4. d.used + HeaderBytes(h) <= BufSize
      <4>1. d.used \in Nat
        BY <2>2 DEF Outputs
      <4> QED
        BY <1>1, <2>6, <3>1, <3>3, <4>1
    <3>5. x.type \notin {7, Aud}
      BY <1>1, <1>6 DEF Dropped, Aud
    <3>6. x.type \in Pictures => d.aud_sent = 1
      BY Delimited DEF d
    <3>7. Drawn(Append(p.units, x.type), p.aud_sent, p.sps_pps_sent) /\ p.aud_sent = d.aud_sent
      BY <1>1, <2>2, <3>3, <3>4, <3>5, <3>6, Parameterised
    <3> HIDE DEF p
    <3>8. Drawn(q.units, q.aud_sent, q.sps_pps_sent)
      BY <2>4, <2>6, <3>7
    <3>9. q.aud_sent = 1 => At(q.units, Pictures) # {}
      <4> SUFFICES ASSUME q.aud_sent = 1 PROVE At(q.units, Pictures) # {}
        OBVIOUS
      <4>1. p.units \in Seq(Nat) /\ Len(p.units) \in Nat
        BY <2>3 DEF Outputs
      <4>2. CASE x.type \in Pictures
        <5>1. At(Append(p.units, x.type), Pictures) = At(p.units, Pictures) \cup {Len(p.units) + 1}
          BY <1>1, <4>1, <4>2, AtMore
        <5> QED
          BY <2>4, <2>6, <5>1
      <4>3. CASE x.type \notin Pictures
        <5>1. d = o /\ p = o
          <6>1. d = o
            BY <4>3, Delimited DEF d
          <6>2. x.type # Slice /\ x.type # Idr
            BY <4>3 DEF Pictures
          <6> QED
            BY <6>1, <6>2 DEF p, Parameterise
        <5>2. At(o.units, Pictures) # {}
          BY <2>4, <2>6, <5>1 DEF Complete
        <5>3. At(Append(p.units, x.type), Pictures) = At(p.units, Pictures)
          BY <1>1, <4>1, <4>3, AtSame
        <5> QED
          BY <2>4, <2>6, <5>1, <5>2, <5>3
      <4> QED
        BY <4>2, <4>3
    <3> QED
      BY <3>8, <3>9 DEF Complete
  <2> QED
    BY <1>6, <2>5, <2>6
<1>7. \/ q = o
      \/ o.result = "whole" /\ cut = "head"
      \/ o.result = "whole" /\ cut = "body" /\ x.len # 0 /\ x.type \in Dropped
      \/ o.result = "whole" /\ cut # "head" /\ x.len # 0 /\ x.type \notin Dropped
  <2>1. o.result # "whole" => q = o
    BY DEF NextUnit
  <2>2. o.result = "whole" /\ cut # "head" /\ x.len = 0 => q = o
    BY DEF NextUnit
  <2>3. o.result = "whole" /\ cut # "head" /\ x.len # 0 /\ x.type \in Dropped /\ cut # "body" => q = o
    BY DEF NextUnit
  <2> HIDE DEF q
  <2> QED
    BY <2>1, <2>2, <2>3
<1> HIDE DEF q
<1> QED
  BY <1>3, <1>4, <1>5, <1>6, <1>7

(* Unit after unit. *)
UnitSteps(g, v, h) ==
  LET n == Len(v.nals)
  IN  /\ g \in [0 .. n -> Outputs] /\ g[0] = NewOutput
      /\ \A k \in 1 .. n : g[k] = NextUnit(g[k - 1], v.nals[k], CutAt(v, k), h)
      /\ AccessUnit(v, h) = g[n]

LEMMA NewOutputType ==
  NewOutput \in Outputs /\ Complete(NewOutput)
<1>1. <<>> \in Seq(Nat) /\ 0 \in Nat /\ 0 \in {0, 1} /\ "whole" \in Results
  BY ResultsAre
<1>2. NewOutput \in Outputs
  BY <1>1 DEF NewOutput, Outputs
<1>3. NewOutput.units = <<>> /\ NewOutput.aud_sent = 0 /\ NewOutput.sps_pps_sent = 0
  BY DEF NewOutput
<1> QED
  BY <1>2, <1>3, DrawnNone DEF Complete

LEMMA UnitsTaken ==
  ASSUME NEW h, PlainHeader(h), NEW v, v.nals \in Seq(Nal)
  PROVE  \E g : UnitSteps(g, v, h)
<1> DEFINE n    == Len(v.nals)
           D    == Outputs
           base == NewOutput
           ids  == [i \in 1 .. n |-> i]
           op(q, i) == NextUnit(q, v.nals[i], CutAt(v, i), h)
           st   == [i \in 1 .. n |-> [m \in D |-> op(m, i)]]
           Is(g) == g = [s \in SUBSET (1 .. n) |->
                           IF s = {} THEN base ELSE op(g[s \ {Max(s)}], ids[Max(s)])]
           it   == CHOOSE g : Is(g)
<1>1. n \in Nat /\ DOMAIN ids = 1 .. n /\ \A i \in 1 .. n : v.nals[i] \in Nal /\ ids[i] = i
  OBVIOUS
<1>2. base \in D
  BY NewOutputType
<1> HIDE DEF base
<1>3. AccessUnit(v, h) = it[1 .. n]
  <2> HIDE DEF n
  <2>1. DOMAIN [i \in 1 .. n |-> i] = 1 .. n
    OBVIOUS
  <2>2. AccessUnit(v, h) = FoldLeft(LAMBDA q, i : NextUnit(q, v.nals[i], CutAt(v, i), h),
                                    base, [i \in 1 .. n |-> i])
    BY DEF AccessUnit, n, base
  <2> QED
    BY <2>1, <2>2, Zenon DEF FoldLeft, MapThenFoldSet
<1>4. \A q \in D, i \in 1 .. n : op(q, i) \in D
  BY <1>1, UnitStep DEF Fuller
<1>5. /\ st \in [1 .. n -> [D -> D]]
      /\ \A i \in 1 .. n, m \in D : st[i][m] = op(m, i)
  BY <1>1, <1>4
<1> HIDE DEF n, st, D, op, ids
<1>6. \E g : Is(g)
  <2>1. PICK g : FoldTo(g, base, st, n, D)
    BY <1>1, <1>2, <1>5, FoldsExist
  <2>2. g = [s \in SUBSET (1 .. n) |-> IF s = {} THEN base ELSE st[Max(s)][g[s \ {Max(s)}]]]
    BY <2>1 DEF FoldTo, Folds
  <2>3. ASSUME NEW s \in SUBSET (1 .. n), s # {}
        PROVE  st[Max(s)][g[s \ {Max(s)}]] = op(g[s \ {Max(s)}], ids[Max(s)])
    <3>1. Max(s) \in 1 .. n /\ g[s \ {Max(s)}] \in D
      BY <2>1, <2>3 DEF FoldTo
    <3> QED
      BY <1>1, <1>5, <3>1
  <2>4. [s \in SUBSET (1 .. n) |-> IF s = {} THEN base ELSE st[Max(s)][g[s \ {Max(s)}]]]
          = [s \in SUBSET (1 .. n) |->
               IF s = {} THEN base ELSE op(g[s \ {Max(s)}], ids[Max(s)])]
    BY <2>3
  <2> QED
    BY <2>2, <2>4
<1>7. Is(it)
  BY <1>6, Zenon
<1> HIDE DEF it
<1>8. it[{}] = base
  BY <1>7
<1>9. Iterates(it, base, st, n, D)
  <2>1. ASSUME NEW s \in SUBSET (1 .. n), s # {}, Max(s) \in 1 .. n, it[s \ {Max(s)}] \in D
        PROVE  it[s] = st[Max(s)][it[s \ {Max(s)}]]
    <3>1. it[s] = op(it[s \ {Max(s)}], ids[Max(s)])
      BY <1>7, <2>1
    <3> QED
      BY <1>1, <1>5, <2>1, <3>1
  <2> QED
    BY <1>8, <2>1 DEF Iterates
<1>10. PICK g : Steps(g, base, st, n, D) /\ g[n] = it[1 .. n]
  BY <1>1, <1>2, <1>5, <1>9, FoldSteps
<1>11. ASSUME NEW k \in 1 .. n PROVE g[k] = op(g[k - 1], k)
  <2>1. k - 1 \in 0 .. n /\ g[k] = st[k][g[k - 1]] /\ g \in [0 .. n -> D]
    BY <1>1, <1>10 DEF Steps
  <2> QED
    BY <1>5, <2>1
<1>12. g \in [0 .. n -> D] /\ g[0] = base /\ AccessUnit(v, h) = g[n]
  BY <1>3, <1>10 DEF Steps
<1> QED
  BY <1>11, <1>12 DEF UnitSteps, n, D, op, base

(* A picture that leaves room for a delimiter and the parameter sets is    *)
(* complete when it is whole: no step before had less room.                *)
LEMMA PictureDecodable ==
  ASSUME NEW h, PlainHeader(h), NEW v, Roomy(v, h), AccessUnit(v, h).result = "whole"
  PROVE  Decodable(AccessUnit(v, h).units)
<1>1. v.nals \in Seq(Nal) /\ AccessUnit(v, h).used + 6 + HeaderBytes(h) <= BufSize
  BY DEF Roomy, Nal
<1>2. PICK n \in Nat : n = Len(v.nals) /\ \A k \in 1 .. n : v.nals[k] \in Nal
  BY <1>1
<1>3. PICK g : UnitSteps(g, v, h)
  BY <1>1, UnitsTaken
<1>4. /\ g \in [0 .. n -> Outputs] /\ g[0] = NewOutput /\ AccessUnit(v, h) = g[n]
      /\ \A k \in 1 .. n : g[k] = NextUnit(g[k - 1], v.nals[k], CutAt(v, k), h)
  BY <1>2, <1>3 DEF UnitSteps
<1> DEFINE Before(j, m) == g[j].used <= g[m].used /\ (g[j].result # "whole" => g[m].result # "whole")
           S == {m \in Nat : m <= n => \A j \in 0 .. m : Before(j, m)}
           T == {m \in Nat : m <= n => Complete(g[m])}
<1>5. ASSUME NEW m \in Nat, m + 1 <= n
      PROVE  /\ m \in 0 .. n /\ m + 1 \in 0 .. n /\ g[m] \in Outputs /\ Before(m, m + 1)
             /\ Complete(g[m]) /\ g[m].used + 6 + HeaderBytes(h) <= BufSize
                /\ g[m + 1].result = "whole" => Complete(g[m + 1])
  <2>1. m \in 0 .. n /\ m + 1 \in 0 .. n /\ m + 1 \in 1 .. n /\ (m + 1) - 1 = m
    BY <1>5
  <2>2. PICK p, q, x, cut :
          /\ p \in Outputs /\ q \in Outputs /\ x \in Nal
          /\ p = g[m] /\ q = g[m + 1] /\ x = v.nals[m + 1] /\ cut = CutAt(v, m + 1)
    BY <1>2, <1>4, <2>1
  <2>3. q = NextUnit(p, x, cut, h)
    BY <1>4, <2>1, <2>2
  <2>4. /\ Fuller(p, q) /\ (p.result # "whole" => q = p)
        /\ Complete(p) /\ p.used + 6 + HeaderBytes(h) <= BufSize /\ q.result = "whole" => Complete(q)
    BY <2>2, <2>3, UnitStep
  <2>5. p.used <= q.used
    <3>1. p.used \in Nat /\ q.used \in Nat
      BY <2>2 DEF Outputs
    <3> QED
      BY <2>4, <3>1 DEF Fuller
  <2> QED
    BY <2>1, <2>2, <2>4, <2>5
<1>6. \A j \in 0 .. n : g[j].used \in Nat
  <2>1. \A j \in 0 .. n : g[j] \in Outputs
    BY <1>4
  <2> QED
    BY <2>1 DEF Outputs
<1>7. 0 \in S
  <2>1. \A j \in 0 .. 0 : j = 0
    OBVIOUS
  <2>2. g[0].used \in Nat
    BY <1>6
  <2> QED
    BY <2>1, <2>2
<1>8. ASSUME NEW m \in Nat, m \in S PROVE m + 1 \in S
  <2> SUFFICES ASSUME m + 1 <= n, NEW j \in 0 .. m + 1 PROVE Before(j, m + 1)
    OBVIOUS
  <2>1. j \in 0 .. n /\ m + 1 \in 0 .. n /\ m \in 0 .. n
    OBVIOUS
  <2>2. g[j].used \in Nat /\ g[m].used \in Nat /\ g[m + 1].used \in Nat
    BY <1>6, <2>1
  <2>3. CASE j = m + 1
    BY <2>2, <2>3
  <2>4. CASE j # m + 1
    <3>1. j \in 0 .. m
      BY <2>4
    <3>2. Before(j, m) /\ Before(m, m + 1)
      BY <1>5, <1>8, <3>1
    <3> QED
      BY <2>2, <3>2
  <2> QED
    BY <2>3, <2>4
<1>9. n \in S
  <2> HIDE DEF S
  <2>1. Nat \subseteq S
    BY <1>7, <1>8, Induction
  <2> QED
    BY <2>1
<1>10. HeaderBytes(h) \in Nat /\ BufSize \in Nat
  <2>1. h.nals \in Seq(Nal)
    BY DEF PlainHeader, Nal
  <2>2. PICK b : Sums(b, h)
    BY <2>1, HeaderSums
  <2>3. Len(h.nals) \in Nat /\ 0 \in 0 .. Len(h.nals)
    BY <2>1
  <2> QED
    BY <2>1, <2>2, <2>3, SumsGrow, BufSizeAssumption
<1>11. \A j \in 0 .. n : g[j].result = "whole" /\ g[j].used + 6 + HeaderBytes(h) <= BufSize
  <2> SUFFICES ASSUME NEW j \in 0 .. n
               PROVE  g[j].result = "whole" /\ g[j].used + 6 + HeaderBytes(h) <= BufSize
    OBVIOUS
  <2>1. Before(j, n)
    BY <1>9
  <2>2. g[n].result = "whole" /\ g[n].used + 6 + HeaderBytes(h) <= BufSize
    BY <1>1, <1>4
  <2>3. g[j].used \in Nat /\ g[n].used \in Nat
    BY <1>6
  <2> HIDE DEF S
  <2> QED
    BY <1>10, <2>1, <2>2, <2>3
<1>12. 0 \in T
  BY <1>4, NewOutputType
<1>13. ASSUME NEW m \in Nat, m \in T PROVE m + 1 \in T
  <2> SUFFICES ASSUME m + 1 <= n PROVE Complete(g[m + 1])
    OBVIOUS
  <2>1. m \in 0 .. n /\ m + 1 \in 0 .. n /\ Complete(g[m])
    BY <1>13
  <2> HIDE DEF S, T, Before
  <2> QED
    BY <1>5, <1>11, <2>1
<1>14. Complete(g[n])
  <2> HIDE DEF T
  <2>1. Nat \subseteq T
    BY <1>12, <1>13, Induction
  <2> USE DEF T
  <2> QED
    BY <2>1
<1>15. PICK q \in Outputs : q = AccessUnit(v, h) /\ Complete(q)
  BY <1>4, <1>14
<1>16. q.aud_sent \in {0, 1} /\ q.sps_pps_sent \in {0, 1}
  BY DEF Outputs
<1>17. Decodable(q.units)
  BY <1>15, <1>16, DrawnDecodable DEF Complete
<1> QED
  BY <1>15, <1>17

-----------------------------------------------------------------------------
(* The pictures in the segments can be decoded. *)
Pictured(ss) ==
  \A s \in 1 .. Len(ss) : \A p \in 1 .. Len(ss[s].frames) :
    ss[s].frames[p].pid = VideoPid => Decodable(ss[s].frames[p].es)

LEMMA PicturedPut ==
  ASSUME NEW S, NEW ss, Audible(ss, S), ss # <<>>, Pictured(ss),
         NEW pes, pes.pid = VideoPid => Decodable(pes.es)
  PROVE  Pictured(WithFrame(ss, pes))
<1> DEFINE n  == Len(ss)
           tt == WithFrame(ss, pes)
<1>1. PICK N, P : ss \in SegmentSeq(N, P) /\ pes \in P
  <2>1. PICK N, Q : ss \in SegmentSeq(N, Q)
    BY DEF Audible
  <2>2. Q \subseteq Q \cup {pes} /\ pes \in Q \cup {pes} /\ N \subseteq N
    OBVIOUS
  <2> QED
    BY <2>1, <2>2, SegmentsGrow
<1>2. /\ n \in Nat /\ n \in 1 .. n /\ Len(tt) = n
      /\ \A i \in 1 .. n - 1 : tt[i] = ss[i]
      /\ ss[n].frames \in Seq(P) /\ tt[n].frames = Append(ss[n].frames, pes)
  BY <1>1, FrameWritten
<1>3. \A i \in 1 .. n : \A p \in 1 .. Len(ss[i].frames) :
        ss[i].frames[p].pid = VideoPid => Decodable(ss[i].frames[p].es)
  BY DEF Pictured
<1> HIDE DEF tt, n
<1> SUFFICES ASSUME NEW s \in 1 .. n, NEW p \in 1 .. Len(tt[s].frames), tt[s].frames[p].pid = VideoPid
             PROVE  Decodable(tt[s].frames[p].es)
  BY <1>2 DEF Pictured, tt
<1>4. CASE s # n
  <2>1. tt[s] = ss[s]
    <3>1. s \in 1 .. n - 1
      BY <1>2, <1>4
    <3> QED
      BY <1>2, <3>1
  <2> QED
    BY <1>3, <2>1
<1>5. CASE s = n
  <2>1. PICK f \in Seq(P), m \in Nat : f = ss[n].frames /\ m = Len(f)
    BY <1>2
  <2>2. PICK g : g = Append(f, pes)
    OBVIOUS
  <2>3. Len(g) = m + 1 /\ g[m + 1] = pes /\ \A i \in 1 .. m : g[i] = f[i]
    BY <1>1, <2>1, <2>2, AppendProperties
  <2>4. p \in 1 .. m + 1 /\ g[p].pid = VideoPid /\ tt[s].frames = g
    BY <1>2, <1>5, <2>1, <2>2, <2>3
  <2>5. CASE p = m + 1
    BY <2>3, <2>4, <2>5
  <2>6. CASE p # m + 1
    <3>1. p \in 1 .. m /\ g[p] = f[p]
      BY <2>3, <2>4, <2>6
    <3>2. Decodable(f[p].es)
      BY <1>2, <1>3, <2>1, <2>4, <3>1
    <3> QED
      BY <2>4, <3>1, <3>2
  <2> QED
    BY <2>5, <2>6
<1> QED
  BY <1>4, <1>5

LEMMA PicturedNew ==
  ASSUME NEW S, NEW ss, Audible(ss, S), Pictured(ss), NEW name
  PROVE  Pictured(Append(ss, [name |-> name, frames |-> <<>>]))
<1>1. PICK N, P : ss \in SegmentSeq(N, P) /\ name \in N
  <2>1. PICK M, P : ss \in SegmentSeq(M, P)
    BY DEF Audible
  <2>2. M \subseteq M \cup {name} /\ name \in M \cup {name} /\ P \subseteq P
    OBVIOUS
  <2> QED
    BY <2>1, <2>2, SegmentsGrow
<1>2. PICK x : x = [name |-> name, frames |-> <<>>]
  OBVIOUS
<1>3. x.frames = <<>> /\ 1 .. Len(x.frames) = {} /\ x \in [name : N, frames : Seq(P)]
  BY <1>1, <1>2
<1>4. PICK n, tt : n \in Nat /\ n = Len(ss) /\ tt = Append(ss, x)
  <2>1. Len(ss) \in Nat
    BY <1>1, LenProperties DEF SegmentSeq
  <2> QED
    BY <2>1
<1>5. Len(tt) = n + 1 /\ tt[n + 1] = x /\ \A i \in 1 .. n : tt[i] = ss[i]
  BY <1>1, <1>3, <1>4, AppendProperties DEF SegmentSeq
<1> SUFFICES ASSUME NEW s \in 1 .. n + 1, NEW p \in 1 .. Len(tt[s].frames), tt[s].frames[p].pid = VideoPid
             PROVE  Decodable(tt[s].frames[p].es)
  BY <1>2, <1>4, <1>5 DEF Pictured
<1>6. s # n + 1
  BY <1>3, <1>5
<1>7. s \in 1 .. n /\ tt[s] = ss[s]
  BY <1>4, <1>5, <1>6
<1> QED
  BY <1>4, <1>7 DEF Pictured

LEMMA PicturedNone == Pictured(<<>>)
<1>1. 1 .. Len(<<>>) = {}
  OBVIOUS
<1> QED
  BY <1>1 DEF Pictured

-----------------------------------------------------------------------------
(* The other properties.  A context is sound if                            *)
(*   Typed     its fields have their types;                                *)
(*   Times     the fragments of the window, the open one included, follow  *)
(*             one another and are active, and no slot holds too long a    *)
(*             duration;                                                   *)
(*   KeyIds    the keys in use are written, or their file failed;          *)
(*   Rotation  the key in force has few fragments, and key_frags says how  *)
(*             many are left;                                              *)
(*   Shown     the playlist shows the window, if k, the number of failures *)
(*             so far, is 0;                                               *)
(*   Told      the segments and the buffer hold the audio of h, and the    *)
(*             pictures in the segments can be decoded, if the messages    *)
(*             allow it (Playable).                                        *)
(* Every operation is shown to keep it, as a whole.                        *)

Typed(w) ==
  /\ w.opened \in {0, 1} /\ w.named \in {0, 1}
  /\ w.frags \in [Slots(hacf) -> Frag]
  /\ w.frag_ts \in Nat /\ w.key_id \in Nat /\ w.key_frags \in Nat
  /\ w.closed \in Seq(Frag)

Times(w) ==
  /\ \A s \in Slots(hacf) : Short(w.frags[s].duration)
  /\ w.opened = 1 => GetFrag(w, hacf, w.nfrags).ts = w.frag_ts
  /\ \A i \in 1 .. w.nfrags - 1 + w.opened :
       GetFrag(w, hacf, i).discont = 0 => LeadsTo(GetFrag(w, hacf, i - 1), GetFrag(w, hacf, i).ts)
  /\ \A i \in 0 .. w.nfrags - 1 + w.opened : GetFrag(w, hacf, i).active = 1

Written(w) == w.keyfiles \cup w.failed

KeyIds(w) ==
  hacf.keys = 1 =>
    /\ w.key_frags # 0 => w.key_id \in Written(w)
    /\ w.opened = 1 => GetFrag(w, hacf, w.nfrags).key_id \in Written(w)
    /\ \A i \in 1 .. Len(w.closed) : w.closed[i].key_id \in Written(w)

(* The keys are named for fragments' numbers. *)
Numbered ==
  hacf.keys = 1 /\ hacf.frags_per_key > 0 /\ hacf.naming = "sequential" /\ hacf.granularity = 0

(* Fragment number i may have key id. *)
KeyFor(i, id) == id <= i - 1 /\ i <= id + hacf.frags_per_key - 1

Rotation(w) ==
  Numbered =>
    /\ Len(w.closed) = w.frag + w.nfrags /\ w.key_id <= Len(w.closed)
    /\ w.key_frags + Len(w.closed) + w.opened <= w.key_id + hacf.frags_per_key - 1
    /\ w.opened = 1 => GetFrag(w, hacf, w.nfrags).key_id = w.key_id
    /\ \A i \in 1 .. Len(w.closed) : KeyFor(i, w.closed[i].key_id)

Shown(w, k) == k = 0 /\ w.nfrags > 0 => w.playlist = PlaylistLines(w, hacf)

Told(w, h) ==
  /\ w.used \in 0 .. AudioBufferSize
  /\ w.opened = 1 => w.segments # <<>>
  /\ w.held \in Seq(AudioMessage) /\ Audible(w.segments, AudioMessage)
  /\ IsJoin(h, AllAudio(w.segments), w.held)
  /\ Playable => Pictured(w.segments)

Listing(w, k) == Ok(w) /\ Typed(w) /\ Times(w) /\ KeyIds(w) /\ Rotation(w) /\ Shown(w, k)

Sound(w, k, h) == Listing(w, k) /\ Told(w, h)

(* Nothing of the listing is touched (the open fragment's time means       *)
(* nothing if none is open); nothing of the audio is.                      *)
Alike(v, w) ==
  /\ IsCtx(v) /\ v.opened = w.opened /\ v.named = w.named
  /\ v.frag = w.frag /\ v.nfrags = w.nfrags /\ v.frags = w.frags
  /\ v.frag_ts = w.frag_ts \/ (v.opened = 0 /\ v.frag_ts \in Nat)
  /\ v.key_id = w.key_id /\ v.key_frags = w.key_frags /\ v.closed = w.closed
  /\ v.playlist = w.playlist /\ v.keyfiles = w.keyfiles /\ v.failed = w.failed

Mute(v, w) == v.opened = w.opened /\ v.used = w.used /\ v.held = w.held /\ v.segments = w.segments

LEMMA ConfFacts ==
  ASSUME hacf \in Configuration
  PROVE  /\ hacf.winfrags \in Nat /\ hacf.winfrags > 0 /\ hacf.fraglen \in Nat /\ hacf.fraglen > 0
         /\ hacf.max_fraglen \in Nat /\ hacf.granularity \in Nat /\ hacf.frags_per_key \in Nat
         /\ hacf.keys \in {0, 1} /\ U64 \in Nat /\ U64 > 0
BY LiveAssumption

(* Two contexts with the same window have the same playlist. *)
LEMMA LinesSame ==
  ASSUME hacf \in Configuration, NEW w, Ok(w), NEW v, v.frag = w.frag, v.nfrags = w.nfrags,
         Listed(v, hacf) = Listed(w, hacf)
  PROVE  PlaylistLines(v, hacf) = PlaylistLines(w, hacf)
<1>1. w.nfrags \in Nat
  BY Conf DEF Ok, RingOk
<1>2. ASSUME NEW i \in 1 .. w.nfrags PROVE GetFrag(v, hacf, i - 1) = GetFrag(w, hacf, i - 1)
  <2>1. Listed(v, hacf)[i] = GetFrag(v, hacf, i - 1) /\ Listed(w, hacf)[i] = GetFrag(w, hacf, i - 1)
    BY DEF Listed
  <2> QED
    BY <2>1
<1>3. ASSUME NEW i \in 1 .. w.nfrags
      PROVE  FragLines(v, hacf, i - 1) = FragLines(w, hacf, i - 1)
  <2>1. PICK n \in Nat : n = i - 1
    BY <1>1
  <2>2. GetFrag(v, hacf, n) = GetFrag(w, hacf, n)
    BY <1>2, <2>1
  <2>3. n = 0 \/ GetFrag(v, hacf, n - 1) = GetFrag(w, hacf, n - 1)
    <3>1. CASE n # 0
      <4>1. PICK j \in 1 .. w.nfrags : j - 1 = n - 1
        BY <1>1, <2>1, <3>1
      <4> QED
        BY <1>2, <4>1
    <3> QED
      BY <3>1
  <2>4. KeyLine(v, hacf, n) = KeyLine(w, hacf, n)
    BY <2>2, <2>3 DEF KeyLine
  <2> QED
    BY <2>1, <2>2, <2>4 DEF FragLines
<1>4. [i \in 1 .. v.nfrags |-> FragLines(v, hacf, i - 1)]
        = [i \in 1 .. w.nfrags |-> FragLines(w, hacf, i - 1)]
  BY <1>3
<1>5. MaxFrag(hacf, Listed(v, hacf)) = MaxFrag(hacf, Listed(w, hacf))
  OBVIOUS
<1> QED
  BY <1>4, <1>5 DEF PlaylistLines

LEMMA AlikeListing ==
  ASSUME hacf \in Configuration, NEW k, NEW w, Listing(w, k), NEW v, Alike(v, w)
  PROVE  Listing(v, k)
<1>1. \A i : Slot(v, hacf, i) = Slot(w, hacf, i) /\ GetFrag(v, hacf, i) = GetFrag(w, hacf, i)
  BY DEF Alike, Slot, GetFrag
<1>2. Listed(v, hacf) = Listed(w, hacf)
  BY <1>1 DEF Listed, Alike
<1>3. Ok(v) /\ Typed(v)
  BY DEF Listing, Ok, RingOk, Typed, Alike
<1>4. Times(v)
  BY <1>1 DEF Listing, Times, Alike
<1>5. KeyIds(v)
  BY <1>1 DEF Listing, KeyIds, Written, Alike
<1>6. Rotation(v)
  BY <1>1 DEF Listing, Rotation, Alike
<1>7. Shown(v, k)
  BY <1>2, LinesSame DEF Listing, Shown, Alike
<1> QED
  BY <1>3, <1>4, <1>5, <1>6, <1>7 DEF Listing

LEMMA MuteTold ==
  ASSUME NEW h, NEW w, Told(w, h), NEW v, Mute(v, w)
  PROVE  Told(v, h)
BY DEF Told, Mute

LEMMA AlikeSound ==
  ASSUME hacf \in Configuration, NEW k, NEW h, NEW w, Sound(w, k, h), NEW v, Alike(v, w), Mute(v, w)
  PROVE  Sound(v, k, h)
BY AlikeListing, MuteTold DEF Sound

-----------------------------------------------------------------------------
(* The window under the operations that change it. *)

(* The open fragment's slot is written: the listed ones stay. *)
LEMMA SlotWritten ==
  ASSUME hacf \in Configuration, NEW w, Ok(w), Typed(w), NEW v, NEW f \in Frag,
         v.frag = w.frag, v.nfrags = w.nfrags,
         v.frags = [w.frags EXCEPT ![Slot(w, hacf, w.nfrags)] = f]
  PROVE  /\ v.frags \in [Slots(hacf) -> Frag]
         /\ \A s \in Slots(hacf) : v.frags[s] = f \/ v.frags[s] = w.frags[s]
         /\ GetFrag(v, hacf, w.nfrags) = f
         /\ \A i \in 0 .. w.nfrags - 1 : GetFrag(v, hacf, i) = GetFrag(w, hacf, i)
<1>1. w.nfrags \in Nat
  BY Conf DEF Ok, RingOk
<1>2. /\ \A n \in Nat : Slot(w, hacf, n) \in Slots(hacf)
      /\ \A i \in 0 .. w.nfrags - 1 : Slot(w, hacf, i) # Slot(w, hacf, w.nfrags)
  BY SlotsApart DEF Ok
<1>3. \A i : Slot(v, hacf, i) = Slot(w, hacf, i)
  BY DEF Slot
<1>4. PICK s \in Slots(hacf) : s = Slot(w, hacf, w.nfrags)
  BY <1>1, <1>2
<1>5. v.frags = [w.frags EXCEPT ![s] = f] /\ w.frags \in [Slots(hacf) -> Frag]
  BY <1>4 DEF Typed
<1>6. GetFrag(v, hacf, w.nfrags) = f
  BY <1>3, <1>4, <1>5 DEF GetFrag
<1>7. ASSUME NEW i \in 0 .. w.nfrags - 1 PROVE GetFrag(v, hacf, i) = GetFrag(w, hacf, i)
  <2>1. PICK t \in Slots(hacf) : t = Slot(w, hacf, i)
    BY <1>1, <1>2
  <2>2. t # s
    BY <1>2, <1>4, <2>1
  <2> QED
    BY <1>3, <1>5, <2>1, <2>2 DEF GetFrag
<1> QED
  BY <1>5, <1>6, <1>7

(* The next fragment of the window has the same slot after it moved on. *)
LEMMA NextGet ==
  ASSUME hacf \in Configuration, NEW w, Ok(w), NEW v, v = NextFrag(w, hacf)
  PROVE  /\ IsCtx(v) /\ v.frags = w.frags /\ v.frag + v.nfrags = w.frag + w.nfrags + 1
         /\ v.nfrags > 0 /\ w.nfrags \in Nat /\ v.nfrags \in Nat /\ w.frag \in Nat /\ v.frag \in Nat
         /\ \E off \in {0, 1} :
              /\ v.nfrags + off = w.nfrags + 1
              /\ \A i \in Nat : GetFrag(v, hacf, i) = GetFrag(w, hacf, i + off)
<1>1. hacf.winfrags \in Nat /\ hacf.winfrags > 0 /\ w.nfrags \in 0 .. hacf.winfrags /\ w.frag \in Nat
  BY Conf DEF Ok, RingOk
<1>2. PICK off \in {0, 1} : off = IF w.nfrags = hacf.winfrags THEN 1 ELSE 0
  OBVIOUS
<1>3. /\ IsCtx(v) /\ v.frags = w.frags /\ v.frag = w.frag + off
      /\ v.nfrags = w.nfrags + 1 - off
  BY <1>1, <1>2 DEF NextFrag, Ok, IsCtx, Fields
<1>4. ASSUME NEW i \in Nat PROVE GetFrag(v, hacf, i) = GetFrag(w, hacf, i + off)
  <2>1. v.frag + i = w.frag + (i + off)
    BY <1>1, <1>3
  <2> QED
    BY <1>3, <2>1 DEF GetFrag, Slot
<1> QED
  BY <1>1, <1>2, <1>3, <1>4

(* What a step may do to the open fragment: nothing but its duration. *)
LEMMA MeasuredListing ==
  ASSUME hacf \in Configuration, NEW k, NEW w, Listing(w, k), w.opened = 1, NEW d \in Nat, Short(d)
  PROVE  LET v == [w EXCEPT !.frags[Slot(w, hacf, w.nfrags)].duration = d]
         IN  /\ Listing(v, k)
             /\ GetFrag(v, hacf, w.nfrags).ts = w.frag_ts
             /\ GetFrag(v, hacf, w.nfrags).duration = d
<1> DEFINE f == [w.frags[Slot(w, hacf, w.nfrags)] EXCEPT !.duration = d]
           v == [w EXCEPT !.frags[Slot(w, hacf, w.nfrags)].duration = d]
           g == GetFrag(w, hacf, w.nfrags)
<1>1. Ok(w) /\ Typed(w) /\ Times(w) /\ KeyIds(w) /\ Rotation(w) /\ Shown(w, k) /\ w.nfrags \in Nat
  BY Conf DEF Listing, Ok, RingOk
<1>2. Slot(w, hacf, w.nfrags) \in Slots(hacf)
  BY <1>1, SlotsApart DEF Ok
<1>3. g \in Frag
  BY <1>1, <1>2 DEF Typed, GetFrag
<1>4. /\ f \in Frag /\ f.duration = d /\ f.ts = g.ts /\ f.discont = g.discont /\ f.key_id = g.key_id
      /\ f.active = g.active
  <2>1. f = [g EXCEPT !.duration = d]
    <3>1. g = w.frags[Slot(w, hacf, w.nfrags)]
      BY DEF GetFrag
    <3> HIDE DEF g, v
    <3> QED
      BY <3>1, Zenon
  <2> HIDE DEF f, g, v
  <2> QED
    BY <1>3, <2>1 DEF Frag
<1>5. /\ IsCtx(v) /\ v.opened = w.opened /\ v.named = w.named /\ v.frag = w.frag /\ v.nfrags = w.nfrags
      /\ v.frags = [w.frags EXCEPT ![Slot(w, hacf, w.nfrags)] = f]
      /\ v.frag_ts = w.frag_ts /\ v.key_id = w.key_id /\ v.key_frags = w.key_frags
      /\ v.closed = w.closed /\ v.playlist = w.playlist /\ v.keyfiles = w.keyfiles
      /\ v.failed = w.failed
  BY <1>1 DEF Ok, IsCtx, Fields
<1> HIDE DEF f, v
<1>6. /\ v.frags \in [Slots(hacf) -> Frag]
      /\ \A s \in Slots(hacf) : v.frags[s] = f \/ v.frags[s] = w.frags[s]
      /\ GetFrag(v, hacf, w.nfrags) = f
      /\ \A i \in 0 .. w.nfrags - 1 : GetFrag(v, hacf, i) = GetFrag(w, hacf, i)
  BY <1>1, <1>4, <1>5, SlotWritten
<1>7. Retains(v, w)
  BY <1>1, <1>5, OpenSlotFree
<1>8. Typed(v)
  BY <1>1, <1>5, <1>6 DEF Typed
<1> HIDE DEF g
<1>9. Times(v)
  <2>1. \A s \in Slots(hacf) : Short(v.frags[s].duration)
    BY <1>1, <1>4, <1>6 DEF Times
  <2>2. GetFrag(v, hacf, v.nfrags).ts = v.frag_ts
    BY <1>1, <1>4, <1>5, <1>6 DEF Times, g
  <2>3. ASSUME NEW i \in 1 .. v.nfrags - 1 + v.opened, GetFrag(v, hacf, i).discont = 0
        PROVE  LeadsTo(GetFrag(v, hacf, i - 1), GetFrag(v, hacf, i).ts)
    <3>1. i \in 1 .. w.nfrags /\ i \in 1 .. w.nfrags - 1 + w.opened
      BY <1>1, <1>5
    <3>2. GetFrag(v, hacf, i - 1) = GetFrag(w, hacf, i - 1)
      <4>1. PICK j \in 0 .. w.nfrags - 1 : j = i - 1
        BY <1>1, <3>1
      <4> QED
        BY <1>6, <4>1
    <3>3. /\ GetFrag(v, hacf, i).discont = GetFrag(w, hacf, i).discont
          /\ GetFrag(v, hacf, i).ts = GetFrag(w, hacf, i).ts
      <4>1. CASE i = w.nfrags
        BY <1>4, <1>6, <4>1 DEF g
      <4>2. CASE i # w.nfrags
        <5>1. i \in 0 .. w.nfrags - 1
          BY <1>1, <3>1, <4>2
        <5> QED
          BY <1>6, <5>1
      <4> QED
        BY <4>1, <4>2
    <3> QED
      BY <1>1, <2>3, <3>1, <3>2, <3>3 DEF Times
  <2>4. ASSUME NEW i \in 0 .. v.nfrags - 1 + v.opened PROVE GetFrag(v, hacf, i).active = 1
    <3>1. i \in 0 .. w.nfrags - 1 + w.opened /\ (i \in 0 .. w.nfrags - 1 \/ i = w.nfrags)
      BY <1>1, <1>5
    <3>2. GetFrag(v, hacf, i).active = GetFrag(w, hacf, i).active
      BY <1>4, <1>6, <3>1 DEF g
    <3> QED
      BY <1>1, <3>1, <3>2 DEF Times
  <2> QED
    BY <2>1, <2>2, <2>3, <2>4 DEF Times
<1>10. GetFrag(v, hacf, v.nfrags).key_id = GetFrag(w, hacf, w.nfrags).key_id
  BY <1>4, <1>5, <1>6 DEF g
<1>11. KeyIds(v)
  BY <1>1, <1>5, <1>10 DEF KeyIds, Written
<1>12. Rotation(v)
  BY <1>1, <1>5, <1>10 DEF Rotation
<1>13. Shown(v, k)
  BY <1>1, <1>5, <1>7, LinesSame DEF Shown, Retains
<1>14. GetFrag(v, hacf, w.nfrags).ts = w.frag_ts /\ GetFrag(v, hacf, w.nfrags).duration = d
  BY <1>1, <1>4, <1>6 DEF Times, g
<1>15. Listing(v, k)
  BY <1>7, <1>8, <1>9, <1>11, <1>12, <1>13 DEF Listing, Retains
<1> QED
  BY <1>14, <1>15 DEF v

-----------------------------------------------------------------------------
(* Opening a fragment. *)

(* A key is at hand, and its count taken. *)
Ready(w) ==
  /\ hacf.keys = 1 => w.key_id \in Written(w)
  /\ Numbered => w.key_frags + Len(w.closed) + 1 <= w.key_id + hacf.frags_per_key - 1

(* The last listed fragment leads to ts, if the next one is to follow it. *)
Rejoined(w, ts, discont) ==
  discont = 0 /\ w.nfrags > 0 => LeadsTo(GetFrag(w, hacf, w.nfrags - 1), ts)

LEMMA ClosedType ==
  ASSUME NEW w, Typed(w)
  PROVE  Len(w.closed) \in Nat
BY LenProperties DEF Typed

LEMMA FragmentIdType ==
  ASSUME hacf \in Configuration, NEW w, Ok(w), NEW ts \in Nat
  PROVE  FragmentId(w, ts) \in Nat /\ (Numbered => FragmentId(w, ts) = w.frag + w.nfrags)
<1>1. w.frag \in Nat /\ w.nfrags \in Nat /\ hacf.granularity \in Nat
  BY ConfFacts DEF Ok, RingOk
<1>2. PICK id \in Nat : id = IF hacf.naming = "timestamp" THEN ts ELSE w.frag + w.nfrags
  BY <1>1
<1>3. FragmentId(w, ts) = IF hacf.granularity = 0 THEN id
                          ELSE (id \div hacf.granularity) * hacf.granularity
  BY <1>2 DEF FragmentId
<1>4. ASSUME NEW g \in Nat, g # 0 PROVE (id \div g) * g \in Nat
  <2>1. id \div g \in Nat
    BY <1>4
  <2>2. ASSUME NEW q \in Nat PROVE q * g \in Nat
    BY <1>4
  <2> QED
    BY <2>1, <2>2
<1>5. FragmentId(w, ts) \in Nat
  BY <1>1, <1>3, <1>4
<1>6. Numbered => FragmentId(w, ts) = w.frag + w.nfrags
  BY <1>2, <1>3 DEF Numbered
<1> QED
  BY <1>5, <1>6

LEMMA NewKeyListing ==
  ASSUME hacf \in Configuration, hacf.keys = 1, NEW k, NEW w, Listing(w, k), w.opened = 0,
         NEW id \in Nat, Numbered => id = w.frag + w.nfrags, NEW fail
  PROVE  Listing(NewKey(w, id, fail), k)
<1> DEFINE v == NewKey(w, id, fail)
           n == (hacf.frags_per_key - 1) % U64
<1>1. Ok(w) /\ Typed(w) /\ Times(w) /\ KeyIds(w) /\ Rotation(w) /\ Shown(w, k)
      /\ w.frag \in Nat /\ w.nfrags \in Nat /\ Len(w.closed) \in Nat
  BY Conf, ClosedType DEF Listing, Ok, RingOk
<1>2. n \in Nat /\ (hacf.frags_per_key > 0 => n <= hacf.frags_per_key - 1)
  <2>1. ASSUME NEW f \in Nat, NEW u \in Nat, u > 0
        PROVE  (f - 1) % u \in Nat /\ (f > 0 => (f - 1) % u <= f - 1)
    <3>1. (f - 1) % u \in Nat
      BY <2>1
    <3>2. ASSUME f > 0 PROVE (f - 1) % u <= f - 1
      <4>1. PICK e \in Nat : e = f - 1
        BY <3>2
      <4>2. e % u <= e
        BY <2>1
      <4> QED
        BY <4>1, <4>2
    <3> QED
      BY <3>1, <3>2
  <2> QED
    BY <2>1, ConfFacts
<1> HIDE DEF n
<1>3. /\ IsCtx(v) /\ v.opened = w.opened /\ v.named = w.named /\ v.frag = w.frag /\ v.nfrags = w.nfrags
      /\ v.frags = w.frags /\ v.frag_ts = w.frag_ts /\ v.key_id = id /\ v.key_frags = n
      /\ v.closed = w.closed /\ v.playlist = w.playlist
      /\ v.keyfiles = IF fail = "key" THEN w.keyfiles ELSE w.keyfiles \cup {id}
      /\ v.failed = IF fail = "key" THEN w.failed \cup {id} ELSE w.failed
  BY <1>1, Zenon DEF NewKey, Ok, IsCtx, Fields, n
<1> HIDE DEF v
<1>4. \A i : GetFrag(v, hacf, i) = GetFrag(w, hacf, i)
  BY <1>3 DEF GetFrag, Slot
<1>5. Written(v) = Written(w) \cup {id}
  BY <1>3 DEF Written
<1>6. Listed(v, hacf) = Listed(w, hacf)
  BY <1>3, <1>4 DEF Listed
<1>7. Ok(v) /\ Typed(v)
  BY <1>1, <1>2, <1>3 DEF Ok, RingOk, Typed
<1>8. Times(v)
  BY <1>1, <1>3, <1>4 DEF Times
<1>9. KeyIds(v)
  BY <1>1, <1>3, <1>5 DEF KeyIds
<1>10. Rotation(v)
  <2> SUFFICES ASSUME Numbered PROVE Rotation(v)
    BY DEF Rotation
  <2>1. id = Len(w.closed) /\ \A i \in 1 .. Len(w.closed) : KeyFor(i, w.closed[i].key_id)
    BY <1>1 DEF Rotation
  <2>2. hacf.frags_per_key > 0 /\ hacf.frags_per_key \in Nat
    BY ConfFacts DEF Numbered
  <2>3. n + Len(w.closed) + 0 <= id + hacf.frags_per_key - 1
    BY <1>1, <1>2, <2>1, <2>2
  <2> QED
    BY <1>1, <1>3, <2>1, <2>3 DEF Rotation
<1>11. Shown(v, k)
  BY <1>1, <1>3, <1>6, LinesSame DEF Shown
<1> QED
  BY <1>7, <1>8, <1>9, <1>10, <1>11 DEF Listing, v

(* The key's count is taken when a fragment is to be opened. *)
LEMMA CountedListing ==
  ASSUME hacf \in Configuration, NEW k, NEW w, Listing(w, k), w.opened = 0,
         hacf.keys = 1 => w.key_frags # 0
  PROVE  LET counted == IF hacf.keys = 1 /\ hacf.frags_per_key > 0
                          THEN [w EXCEPT !.key_frags = @ - 1] ELSE w
         IN  Listing(counted, k) /\ Ready(counted)
<1> DEFINE v == [w EXCEPT !.key_frags = @ - 1]
<1>1. Ok(w) /\ Typed(w) /\ Times(w) /\ KeyIds(w) /\ Rotation(w) /\ Shown(w, k)
      /\ w.key_frags \in Nat /\ Len(w.closed) \in Nat
  BY ClosedType DEF Listing, Typed
<1>2. /\ IsCtx(v) /\ v.opened = w.opened /\ v.named = w.named /\ v.frag = w.frag /\ v.nfrags = w.nfrags
      /\ v.frags = w.frags /\ v.frag_ts = w.frag_ts /\ v.key_id = w.key_id
      /\ v.key_frags = w.key_frags - 1
      /\ v.closed = w.closed /\ v.playlist = w.playlist /\ v.keyfiles = w.keyfiles
      /\ v.failed = w.failed
  BY <1>1 DEF Ok, IsCtx, Fields
<1> HIDE DEF v
<1>3. CASE hacf.keys = 1 /\ hacf.frags_per_key > 0
  <2>1. \A i : GetFrag(v, hacf, i) = GetFrag(w, hacf, i)
    BY <1>2 DEF GetFrag, Slot
  <2>2. Written(v) = Written(w)
    BY <1>2 DEF Written
  <2>3. Listed(v, hacf) = Listed(w, hacf)
    BY <1>2, <2>1 DEF Listed
  <2>4. Ok(v) /\ Typed(v)
    BY <1>1, <1>2, <1>3 DEF Ok, RingOk, Typed
  <2>5. Times(v)
    BY <1>1, <1>2, <2>1 DEF Times
  <2>6. w.key_id \in Written(w)
    BY <1>1, <1>3 DEF KeyIds
  <2>7. KeyIds(v)
    BY <1>1, <1>2, <2>1, <2>2, <2>6 DEF KeyIds
  <2>8. Numbered => v.key_frags + Len(v.closed) + 1 <= v.key_id + hacf.frags_per_key - 1
    <3> SUFFICES ASSUME Numbered PROVE v.key_frags + Len(v.closed) + 1 <= v.key_id + hacf.frags_per_key - 1
      OBVIOUS
    <3>1. w.key_frags + Len(w.closed) + w.opened <= w.key_id + hacf.frags_per_key - 1
      BY <1>1 DEF Rotation
    <3>2. (w.key_frags - 1) + Len(w.closed) + 1 = w.key_frags + Len(w.closed) + 0
      BY <1>1
    <3> QED
      BY <1>2, <3>1, <3>2
  <2>9. Rotation(v)
    <3> SUFFICES ASSUME Numbered PROVE Rotation(v)
      BY DEF Rotation
    <3>1. v.key_frags + Len(v.closed) + 0 <= v.key_id + hacf.frags_per_key - 1
      <4>1. v.key_id \in Nat /\ v.key_frags \in Nat /\ hacf.frags_per_key \in Nat /\ Len(v.closed) \in Nat
        BY <2>4, ConfFacts, ClosedType DEF Typed
      <4> QED
        BY <2>8, <4>1
    <3> QED
      BY <1>1, <1>2, <2>1, <3>1 DEF Rotation
  <2>10. Shown(v, k)
    BY <1>1, <1>2, <2>3, LinesSame DEF Shown
  <2>11. Ready(v)
    BY <1>2, <2>2, <2>6, <2>8 DEF Ready
  <2>12. Listing(v, k)
    BY <2>4, <2>5, <2>7, <2>9, <2>10 DEF Listing
  <2> QED
    BY <1>3, <2>11, <2>12 DEF v
<1>4. CASE ~(hacf.keys = 1 /\ hacf.frags_per_key > 0)
  <2>1. Ready(w)
    BY <1>1, <1>4 DEF Ready, KeyIds, Numbered
  <2> QED
    BY <1>4, <2>1
<1> QED
  BY <1>3, <1>4

(* The fragment itself, before the audio that is left is written to it. *)
Begun(w, id, ts, discont, segments) ==
  [w EXCEPT !.opened = 1, !.frag_ts = ts,
     !.frags[Slot(w, hacf, w.nfrags)] =
        [NoFrag EXCEPT !.id = id, !.discont = discont, !.active = 1, !.key_id = w.key_id, !.ts = ts],
     !.segments = segments]

LEMMA StartedListing ==
  ASSUME hacf \in Configuration, NEW k, NEW w, Listing(w, k), w.opened = 0, Ready(w),
         NEW id \in Nat, NEW ts \in Nat, NEW discont \in {0, 1}, Rejoined(w, ts, discont), NEW segments
  PROVE  Listing(Begun(w, id, ts, discont, segments), k)
<1> DEFINE f == [NoFrag EXCEPT !.id = id, !.discont = discont, !.active = 1,
                   !.key_id = w.key_id, !.ts = ts]
           v == Begun(w, id, ts, discont, segments)
<1>1. Ok(w) /\ Typed(w) /\ Times(w) /\ KeyIds(w) /\ Rotation(w) /\ Shown(w, k)
      /\ w.key_id \in Nat /\ w.nfrags \in Nat /\ w.nfrags - 1 + w.opened = w.nfrags - 1
  BY Conf DEF Listing, Typed, Ok, RingOk
<1>2. /\ f \in Frag /\ f.duration = 0 /\ f.discont = discont /\ f.ts = ts /\ f.key_id = w.key_id
      /\ f.active = 1
  BY <1>1 DEF NoFrag, Frag
<1> HIDE DEF f
<1>3. /\ IsCtx(v) /\ v.opened = 1 /\ v.named = w.named /\ v.frag = w.frag /\ v.nfrags = w.nfrags
      /\ v.frags = [w.frags EXCEPT ![Slot(w, hacf, w.nfrags)] = f] /\ v.frag_ts = ts
      /\ v.key_id = w.key_id /\ v.key_frags = w.key_frags
      /\ v.closed = w.closed /\ v.playlist = w.playlist /\ v.keyfiles = w.keyfiles
      /\ v.failed = w.failed
  BY ZenonT(60), <1>1 DEF Ok, IsCtx, Fields, Begun, f
<1> HIDE DEF v
<1>4. /\ v.frags \in [Slots(hacf) -> Frag]
      /\ \A s \in Slots(hacf) : v.frags[s] = f \/ v.frags[s] = w.frags[s]
      /\ GetFrag(v, hacf, w.nfrags) = f
      /\ \A i \in 0 .. w.nfrags - 1 : GetFrag(v, hacf, i) = GetFrag(w, hacf, i)
  BY <1>1, <1>2, <1>3, SlotWritten
<1>5. Retains(v, w)
  BY <1>1, <1>3, OpenSlotFree
<1>6. Typed(v)
  BY <1>1, <1>3, <1>4 DEF Typed
<1>7. Times(v)
  <2>1. \A s \in Slots(hacf) : Short(v.frags[s].duration)
    <3>1. Short(0)
      BY ConfFacts DEF Short
    <3> QED
      BY <1>1, <1>2, <1>4, <3>1 DEF Times
  <2>2. GetFrag(v, hacf, v.nfrags).ts = v.frag_ts
    BY <1>2, <1>3, <1>4
  <2>3. ASSUME NEW i \in 1 .. v.nfrags - 1 + v.opened, GetFrag(v, hacf, i).discont = 0
        PROVE  LeadsTo(GetFrag(v, hacf, i - 1), GetFrag(v, hacf, i).ts)
    <3>1. i \in 1 .. w.nfrags
      BY <1>1, <1>3
    <3>2. GetFrag(v, hacf, i - 1) = GetFrag(w, hacf, i - 1)
      <4>1. PICK j \in 0 .. w.nfrags - 1 : j = i - 1
        BY <1>1, <3>1
      <4> QED
        BY <1>4, <4>1
    <3>3. CASE i = w.nfrags
      <4>1. w.nfrags > 0 /\ GetFrag(v, hacf, i) = f
        BY <1>1, <1>4, <3>1, <3>3
      <4>2. LeadsTo(GetFrag(w, hacf, w.nfrags - 1), ts)
        BY <1>2, <2>3, <4>1 DEF Rejoined
      <4> QED
        BY <1>2, <3>2, <3>3, <4>1, <4>2
    <3>4. CASE i # w.nfrags
      <4>1. i \in 0 .. w.nfrags - 1 /\ i \in 1 .. w.nfrags - 1
        BY <1>1, <3>1, <3>4
      <4>2. GetFrag(v, hacf, i) = GetFrag(w, hacf, i)
        BY <1>4, <4>1
      <4> QED
        BY <1>1, <2>3, <3>2, <4>1, <4>2 DEF Times
    <3> QED
      BY <3>3, <3>4
  <2>4. ASSUME NEW i \in 0 .. v.nfrags - 1 + v.opened PROVE GetFrag(v, hacf, i).active = 1
    <3>1. i \in 0 .. w.nfrags - 1 \/ i = w.nfrags
      BY <1>1, <1>3
    <3>2. \A j \in 0 .. w.nfrags - 1 : GetFrag(w, hacf, j).active = 1
      BY <1>1 DEF Times
    <3> QED
      BY <1>2, <1>4, <3>1, <3>2
  <2> QED
    BY <2>1, <2>2, <2>3, <2>4 DEF Times
<1>8. Written(v) = Written(w)
  BY <1>3 DEF Written
<1>9. KeyIds(v)
  BY <1>1, <1>2, <1>3, <1>4, <1>8 DEF KeyIds, Ready
<1>10. Rotation(v)
  BY <1>1, <1>2, <1>3, <1>4 DEF Rotation, Ready
<1>11. Shown(v, k)
  BY <1>1, <1>3, <1>5, LinesSame DEF Shown, Retains
<1>12. Listing(v, k)
  BY <1>5, <1>6, <1>7, <1>9, <1>10, <1>11 DEF Listing, Retains
<1> QED
  BY <1>12 DEF v

-----------------------------------------------------------------------------
(* Closing a fragment. *)

LEMMA ClosedListing ==
  ASSUME hacf \in Configuration, NEW k, NEW w, Listing(w, k), w.opened = 1,
         NEW fail, fail = "none" \/ k # 0
  PROVE  LET v == CloseLive(w, fail)
         IN  /\ Listing(v, k) /\ v.opened = 0 /\ v.nfrags > 0 /\ v.frag_ts = w.frag_ts
             /\ GetFrag(v, hacf, v.nfrags - 1) = GetFrag(w, hacf, w.nfrags)
<1> DEFINE g == GetFrag(w, hacf, w.nfrags)
           s == [w EXCEPT !.opened = 0, !.closed = Append(@, g)]
           n == NextFrag(s, hacf)
           v == WritePlaylist(n, hacf, fail)
<1>1. Ok(w) /\ Typed(w) /\ Times(w) /\ KeyIds(w) /\ Rotation(w) /\ Shown(w, k)
      /\ w.key_id \in Nat /\ w.key_frags \in Nat /\ w.nfrags \in Nat /\ Len(w.closed) \in Nat
  BY Conf, ClosedType DEF Listing, Typed, Ok, RingOk
<1>2. g \in Frag
  <2>1. Slot(w, hacf, w.nfrags) \in Slots(hacf)
    BY <1>1, SlotsApart DEF Ok
  <2> QED
    BY <1>1, <2>1 DEF Typed, GetFrag
<1>3. CloseLive(w, fail) = v
  BY DEF CloseLive
<1> HIDE DEF g
<1>4. /\ IsCtx(s) /\ s.opened = 0 /\ s.named = w.named /\ s.frag = w.frag /\ s.nfrags = w.nfrags
      /\ s.frags = w.frags /\ s.frag_ts = w.frag_ts /\ s.key_id = w.key_id
      /\ s.key_frags = w.key_frags /\ s.closed = Append(w.closed, g)
      /\ s.keyfiles = w.keyfiles /\ s.failed = w.failed
  BY <1>1 DEF Ok, IsCtx, Fields
<1> HIDE DEF s
<1>5. Ok(s) /\ \A i : GetFrag(s, hacf, i) = GetFrag(w, hacf, i)
  BY <1>1, <1>4 DEF Ok, RingOk, GetFrag, Slot
<1>6. /\ n.opened = s.opened /\ n.named = s.named /\ n.frag_ts = s.frag_ts /\ n.key_id = s.key_id
      /\ n.key_frags = s.key_frags /\ n.closed = s.closed
      /\ n.keyfiles = s.keyfiles /\ n.failed = s.failed
  BY <1>5 DEF NextFrag, Ok, IsCtx, Fields
<1>7. /\ IsCtx(n) /\ n.frags = w.frags /\ n.frag + n.nfrags = w.frag + w.nfrags + 1
      /\ n.nfrags > 0 /\ n.nfrags \in Nat /\ n.frag \in Nat /\ w.frag \in Nat
      /\ \E off \in {0, 1} :
           /\ n.nfrags + off = w.nfrags + 1
           /\ \A i \in Nat : GetFrag(n, hacf, i) = GetFrag(s, hacf, i + off)
  <2>1. /\ IsCtx(n) /\ n.frags = s.frags /\ n.frag + n.nfrags = s.frag + s.nfrags + 1
        /\ n.nfrags > 0 /\ s.nfrags \in Nat /\ n.nfrags \in Nat /\ s.frag \in Nat /\ n.frag \in Nat
        /\ \E off \in {0, 1} :
             /\ n.nfrags + off = s.nfrags + 1
             /\ \A i \in Nat : GetFrag(n, hacf, i) = GetFrag(s, hacf, i + off)
    BY <1>5, NextGet, ZenonT(60)
  <2> HIDE DEF n
  <2> QED
    BY <1>4, <2>1
<1>8. Ok(n)
  BY <1>5, NextLists
<1> HIDE DEF n
<1>9. PICK off \in {0, 1} :
        /\ n.nfrags + off = w.nfrags + 1
        /\ \A i \in Nat : GetFrag(n, hacf, i) = GetFrag(w, hacf, i + off)
  BY <1>5, <1>7
<1>30. /\ IsCtx(n) /\ n.frags = w.frags /\ n.frag \in Nat /\ n.nfrags \in Nat /\ n.nfrags > 0
       /\ n.nfrags + off = w.nfrags + 1 /\ w.nfrags \in Nat /\ off \in {0, 1}
  BY <1>1, <1>7, <1>9
<1>10. /\ IsCtx(v) /\ v.opened = 0 /\ v.named = w.named /\ v.frag = n.frag /\ v.nfrags = n.nfrags
       /\ v.frags = w.frags /\ v.frag_ts = w.frag_ts /\ v.key_id = w.key_id
       /\ v.key_frags = w.key_frags /\ v.closed = Append(w.closed, g)
       /\ v.keyfiles = w.keyfiles /\ v.failed = w.failed
       /\ fail = "none" => v.playlist = PlaylistLines(n, hacf)
  <2> DEFINE p == [n EXCEPT !.playlist = PlaylistLines(n, hacf)]
             q == WriteVariantPlaylist(p, hacf, fail)
  <2>1. v \in {n, p, q} /\ (fail = "none" => v \in {p, q})
    BY DEF WritePlaylist
  <2>2. /\ IsCtx(p) /\ p.opened = n.opened /\ p.named = n.named /\ p.frag = n.frag
        /\ p.nfrags = n.nfrags /\ p.frags = n.frags /\ p.frag_ts = n.frag_ts
        /\ p.key_id = n.key_id /\ p.key_frags = n.key_frags /\ p.closed = n.closed
        /\ p.keyfiles = n.keyfiles /\ p.failed = n.failed /\ p.playlist = PlaylistLines(n, hacf)
    BY <1>30 DEF IsCtx, Fields
  <2> HIDE DEF p, v
  <2>3. /\ IsCtx(q) /\ q.opened = p.opened /\ q.named = p.named /\ q.frag = p.frag
        /\ q.nfrags = p.nfrags /\ q.frags = p.frags /\ q.frag_ts = p.frag_ts
        /\ q.key_id = p.key_id /\ q.key_frags = p.key_frags /\ q.closed = p.closed
        /\ q.keyfiles = p.keyfiles /\ q.failed = p.failed /\ q.playlist = p.playlist
    BY <2>2 DEF WriteVariantPlaylist, IsCtx, Fields
  <2> HIDE DEF q
  <2>4. /\ n.opened = 0 /\ n.named = w.named /\ n.frag_ts = w.frag_ts /\ n.key_id = w.key_id
        /\ n.key_frags = w.key_frags /\ n.closed = Append(w.closed, g)
        /\ n.keyfiles = w.keyfiles /\ n.failed = w.failed /\ IsCtx(n) /\ n.frags = w.frags
    BY <1>4, <1>6, <1>30
  <2>5. CASE fail # "none" /\ v = n
    BY <2>4, <2>5
  <2>6. CASE v = p
    BY <2>2, <2>4, <2>6
  <2>7. CASE v = q
    BY <2>2, <2>3, <2>4, <2>7
  <2> QED
    BY <2>1, <2>5, <2>6, <2>7
<1> HIDE DEF v
<1>11. \A i : GetFrag(v, hacf, i) = GetFrag(n, hacf, i)
  BY <1>30, <1>10 DEF GetFrag, Slot
<1>12. Ok(v)
  <2>1. RingOk(n)
    BY <1>8 DEF Ok
  <2> QED
    BY <1>10, <1>30, <2>1 DEF Ok, RingOk
<1>13. /\ v.closed \in Seq(Frag) /\ Len(v.closed) = Len(w.closed) + 1
       /\ v.closed[Len(w.closed) + 1] = g
       /\ \A i \in 1 .. Len(w.closed) : v.closed[i] = w.closed[i]
  BY <1>1, <1>2, <1>10, AppendProperties DEF Typed
<1>14. Typed(v)
  BY <1>1, <1>10, <1>13 DEF Typed
<1>15. Times(v)
  <2>1. ASSUME NEW i \in 1 .. v.nfrags - 1 + v.opened, GetFrag(v, hacf, i).discont = 0
        PROVE  LeadsTo(GetFrag(v, hacf, i - 1), GetFrag(v, hacf, i).ts)
    <3>1. i \in Nat /\ i - 1 \in Nat /\ i + off \in 1 .. w.nfrags - 1 + w.opened
          /\ (i - 1) + off = (i + off) - 1
      BY <1>30, <1>10, <2>1
    <3>2. GetFrag(v, hacf, i) = GetFrag(w, hacf, i + off)
      BY <1>9, <1>11, <3>1
    <3>3. GetFrag(v, hacf, i - 1) = GetFrag(w, hacf, (i + off) - 1)
      <4>1. PICK j \in Nat : j = i - 1
        BY <3>1
      <4>2. GetFrag(v, hacf, j) = GetFrag(w, hacf, j + off)
        BY <1>9, <1>11
      <4> QED
        BY <3>1, <4>1, <4>2
    <3>4. PICK m \in 1 .. w.nfrags - 1 + w.opened : m = i + off
      BY <3>1
    <3> QED
      BY <1>1, <2>1, <3>2, <3>3, <3>4 DEF Times
  <2>2. ASSUME NEW i \in 0 .. v.nfrags - 1 + v.opened PROVE GetFrag(v, hacf, i).active = 1
    <3>1. i \in Nat /\ i + off \in 0 .. w.nfrags - 1 + w.opened
      BY <1>30, <1>10
    <3>2. GetFrag(v, hacf, i) = GetFrag(w, hacf, i + off)
      BY <1>9, <1>11, <3>1
    <3> QED
      BY <1>1, <3>1, <3>2 DEF Times
  <2> QED
    BY <1>1, <1>10, <2>1, <2>2 DEF Times
<1>16. Written(v) = Written(w) /\ v.opened # 1
  BY <1>10 DEF Written
<1>17. KeyIds(v)
  <2> SUFFICES ASSUME hacf.keys = 1
               PROVE  /\ v.key_frags # 0 => v.key_id \in Written(v)
                      /\ \A i \in 1 .. Len(v.closed) : v.closed[i].key_id \in Written(v)
    BY <1>16 DEF KeyIds
  <2>1. /\ w.key_frags # 0 => w.key_id \in Written(w)
        /\ g.key_id \in Written(w)
        /\ \A i \in 1 .. Len(w.closed) : w.closed[i].key_id \in Written(w)
    BY <1>1 DEF KeyIds, g
  <2>2. ASSUME NEW i \in 1 .. Len(v.closed) PROVE v.closed[i].key_id \in Written(v)
    <3>1. CASE i = Len(w.closed) + 1
      BY <1>13, <1>16, <2>1, <3>1
    <3>2. CASE i # Len(w.closed) + 1
      <4>1. i \in 1 .. Len(w.closed)
        BY <1>1, <1>13, <3>2
      <4> QED
        BY <1>13, <1>16, <2>1, <4>1
    <3> QED
      BY <3>1, <3>2
  <2> QED
    BY <1>10, <1>16, <2>1, <2>2
<1>18. Rotation(v)
  <2> SUFFICES ASSUME Numbered PROVE Rotation(v)
    BY DEF Rotation
  <2>1. /\ Len(w.closed) = w.frag + w.nfrags /\ w.key_id <= Len(w.closed)
        /\ w.key_frags + Len(w.closed) + 1 <= w.key_id + hacf.frags_per_key - 1
        /\ g.key_id = w.key_id
        /\ \A i \in 1 .. Len(w.closed) : KeyFor(i, w.closed[i].key_id)
    BY <1>1 DEF Rotation, g
  <2>2. hacf.frags_per_key \in Nat
    BY ConfFacts
  <2>3. KeyFor(Len(w.closed) + 1, w.key_id)
    BY SMTT(30), <1>1, <2>1, <2>2 DEF KeyFor
  <2>4. ASSUME NEW i \in 1 .. Len(v.closed) PROVE KeyFor(i, v.closed[i].key_id)
    <3>1. CASE i = Len(w.closed) + 1
      BY <1>13, <2>1, <2>3, <3>1
    <3>2. CASE i # Len(w.closed) + 1
      <4>1. i \in 1 .. Len(w.closed)
        BY <1>1, <1>13, <3>2
      <4> QED
        BY <1>13, <2>1, <4>1
    <3> QED
      BY <3>1, <3>2
  <2>5. Len(v.closed) = v.frag + v.nfrags
    BY <1>7, <1>10, <1>13, <2>1
  <2>6. /\ v.key_id <= Len(v.closed)
        /\ v.key_frags + Len(v.closed) + v.opened <= v.key_id + hacf.frags_per_key - 1
    BY <1>1, <1>10, <1>13, <2>1, <2>2
  <2> QED
    BY <1>16, <2>4, <2>5, <2>6 DEF Rotation
<1>19. Shown(v, k)
  <2>1. Listed(v, hacf) = Listed(n, hacf)
    BY <1>10, <1>11 DEF Listed
  <2>2. PlaylistLines(v, hacf) = PlaylistLines(n, hacf)
    BY <1>8, <1>10, <2>1, LinesSame
  <2> QED
    BY <1>10, <2>2 DEF Shown
<1>20. GetFrag(v, hacf, v.nfrags - 1) = g
  <2>1. PICK j \in Nat : j = n.nfrags - 1
    BY <1>30
  <2>2. GetFrag(v, hacf, j) = GetFrag(w, hacf, j + off)
    BY <1>9, <1>11
  <2>3. j + off = w.nfrags
    BY <1>30, <2>1
  <2> QED
    BY <1>10, <2>1, <2>2, <2>3 DEF g
<1>21. Listing(v, k)
  BY <1>12, <1>14, <1>15, <1>17, <1>18, <1>19 DEF Listing
<1> QED
  BY <1>3, <1>7, <1>10, <1>20, <1>21 DEF g

-----------------------------------------------------------------------------
(* The audio. *)

LEMMA FlushAlike ==
  ASSUME NEW w, IsCtx(w)
  PROVE  Alike(FlushAudio(w), w)
BY ZenonT(60) DEF FlushAudio, Put, Alike, IsCtx, Fields

LEMMA AppendMoves ==
  ASSUME NEW S, NEW p \in Seq(S), NEW q \in Seq(S), NEW a \in S
  PROVE  Append(p \o q, a) = p \o Append(q, a) /\ Append(q, a) \in Seq(S)
OBVIOUS

LEMMA FlushTold ==
  ASSUME NEW h, NEW w, IsCtx(w), w.opened \in {0, 1}, Told(w, h)
  PROVE  Told(FlushAudio(w), h) /\ FlushAudio(w).used <= w.used
<1> DEFINE pes == [ pid |-> AudioPid, dts |-> w.aframe_pts, cc |-> w.audio_cc,
                    n |-> AudioPackets(w.used), es |-> w.held ]
           p == Put(w, pes)
           f == [p EXCEPT !.audio_cc = @ + AudioPackets(w.used), !.used = 0, !.held = <<>>]
<1>1. w.used \in Nat /\ AudioBufferSize \in Nat
  BY ConfAssumption DEF Told
<1>2. FlushAudio(w) = IF w.opened = 0 \/ w.used = 0 THEN w ELSE f
  BY DEF FlushAudio
<1>3. pes.pid = AudioPid /\ pes.es = w.held
  OBVIOUS
<1> HIDE DEF pes
<1>4. f.used = 0 /\ f.held = <<>> /\ f.opened = w.opened /\ f.segments = WithFrame(w.segments, pes)
  BY DEF IsCtx, Fields, Put, WithFrame
<1> HIDE DEF f
<1>5. CASE w.segments # <<>>
  <2>1. /\ w.held \in Seq(AudioMessage) /\ Audible(w.segments, AudioMessage)
        /\ IsJoin(h, AllAudio(w.segments), w.held)
    BY DEF Told
  <2>2. PICK tt : tt = WithFrame(w.segments, pes)
    OBVIOUS
  <2>3. PICK x \in Seq(AudioMessage) : x = w.held
    BY <2>1
  <2>4. /\ Audible(tt, AudioMessage) /\ tt # <<>> /\ AllAudio(w.segments) \in Seq(AudioMessage)
        /\ IsJoin(AllAudio(tt), AllAudio(w.segments), x)
    <3>1. pes.es = x
      BY <1>3, <2>3
    <3> QED
      BY <1>3, <1>5, <2>1, <2>2, <3>1, AudioPut, Zenon
  <2>5. h = AllAudio(tt) /\ h \in Seq(AudioMessage)
    BY <2>1, <2>3, <2>4, ConcatProperties DEF IsJoin
  <2>6. IsJoin(h, AllAudio(tt), <<>>)
    BY <2>5, ConcatEmptySeq DEF IsJoin
  <2>7. <<>> \in Seq(AudioMessage)
    OBVIOUS
  <2>8. ASSUME Playable PROVE Pictured(tt)
    <3>1. Pictured(w.segments)
      BY <2>8 DEF Told
    <3>2. pes.pid # VideoPid
      BY <1>3 DEF AudioPid, VideoPid
    <3> QED
      BY <1>5, <2>1, <2>2, <3>1, <3>2, PicturedPut
  <2>9. Told(f, h)
    BY <1>1, <1>4, <2>2, <2>4, <2>6, <2>7, <2>8 DEF Told
  <2> QED
    BY <1>1, <1>2, <1>4, <2>9
<1>6. CASE w.opened # 1
  <2>1. CASE w.opened = 0
    BY <1>1, <1>2, <2>1
  <2> QED
    BY <2>1, <1>6
<1> QED
  BY <1>5, <1>6 DEF Told

LEMMA BufferedTold ==
  ASSUME NEW h, NEW w, Told(w, h), NEW a \in AudioMessage, NEW v, v.opened = w.opened,
         v.segments = w.segments, v.used \in 0 .. AudioBufferSize, v.held = Append(w.held, a)
  PROVE  Told(v, Append(h, a))
<1>1. /\ w.held \in Seq(AudioMessage) /\ Audible(w.segments, AudioMessage)
      /\ IsJoin(h, AllAudio(w.segments), w.held)
  BY DEF Told
<1>2. AllAudio(w.segments) \in Seq(AudioMessage)
  BY <1>1, AudioOfEach
<1>3. PICK p \in Seq(AudioMessage), q \in Seq(AudioMessage) : p = AllAudio(w.segments) /\ q = w.held
  BY <1>1, <1>2
<1>4. Append(p \o q, a) = p \o Append(q, a) /\ Append(q, a) \in Seq(AudioMessage)
  BY AppendMoves
<1>5. h = p \o q
  BY <1>1, <1>3 DEF IsJoin
<1>6. IsJoin(Append(h, a), AllAudio(w.segments), Append(w.held, a)) /\ Append(w.held, a) \in Seq(AudioMessage)
  BY <1>3, <1>4, <1>5 DEF IsJoin
<1> QED
  BY <1>1, <1>6 DEF Told

-----------------------------------------------------------------------------
(* The operations keep a context sound. *)

LEMMA SoundCtx ==
  ASSUME NEW k, NEW h, NEW w, Sound(w, k, h)
  PROVE  IsCtx(w) /\ Ok(w) /\ Typed(w) /\ w.opened \in {0, 1}
BY DEF Sound, Listing, Ok, Typed

LEMMA FlushSound ==
  ASSUME hacf \in Configuration, NEW k, NEW h, NEW w, Sound(w, k, h)
  PROVE  Sound(FlushAudio(w), k, h) /\ Alike(FlushAudio(w), w)
<1>1. IsCtx(w) /\ w.opened \in {0, 1}
  BY SoundCtx
<1>2. Alike(FlushAudio(w), w)
  BY <1>1, FlushAlike
<1>3. Listing(FlushAudio(w), k)
  BY <1>2, AlikeListing DEF Sound
<1>4. Told(FlushAudio(w), h)
  BY <1>1, FlushTold DEF Sound
<1> QED
  BY <1>2, <1>3, <1>4 DEF Sound

LEMMA UpdateSound ==
  ASSUME hacf \in Configuration, NEW k, NEW h, NEW w, Sound(w, k, h), NEW ts, NEW rate
  PROVE  Sound(UpdateFragment(w, ts, rate), k, h)
BY FlushSound DEF UpdateFragment

LEMMA RoomSound ==
  ASSUME hacf \in Configuration, NEW k, NEW h, NEW w, Sound(w, k, h), NEW a
  PROVE  Sound(MakeRoom(w, a), k, h)
BY FlushSound DEF MakeRoom

LEMMA StartSound ==
  ASSUME hacf \in Configuration, NEW k, NEW h, NEW w, Sound(w, k, h), w.opened = 0, Ready(w),
         NEW id \in Nat, NEW ts \in Nat, NEW discont \in {0, 1}, Rejoined(w, ts, discont)
  PROVE  Sound(StartFragment(w, id, ts, discont), k, h)
<1> DEFINE s == Append(w.segments, [name |-> id, frames |-> <<>>])
           v == Begun(w, id, ts, discont, s)
<1>1. StartFragment(w, id, ts, discont) = FlushAudio(v)
  BY DEF StartFragment, FlushLive, Begun
<1>2. Listing(v, k)
  <2>1. Listing(w, k)
    BY DEF Sound
  <2> HIDE DEF s
  <2> QED
    BY <2>1, StartedListing
<1>3. v.segments = s /\ v.used = w.used /\ v.held = w.held /\ v.opened = 1
  <2> HIDE DEF s
  <2> QED
    BY SoundCtx DEF IsCtx, Fields, Begun
<1> HIDE DEF v
<1>4. Told(w, h)
  BY DEF Sound
<1>5. /\ Audible(s, AudioMessage) /\ s # <<>> /\ AllAudio(s) = AllAudio(w.segments)
      /\ Playable => Pictured(s)
  BY <1>4, AudibleNew, PicturedNew DEF Told
<1> HIDE DEF s
<1>6. Told(v, h)
  BY <1>3, <1>4, <1>5 DEF Told
<1> QED
  BY <1>1, <1>2, <1>6, FlushSound DEF Sound

LEMMA UnlockedSound ==
  ASSUME hacf \in Configuration, NEW k, NEW h, NEW w, Sound(w, k, h), w.opened = 0,
         hacf.keys = 1 => w.key_frags # 0, NEW fail,
         NEW id \in Nat, NEW ts \in Nat, NEW discont \in {0, 1}, Rejoined(w, ts, discont)
  PROVE  Sound(Unlocked(w, id, ts, discont, fail), k, h)
<1> DEFINE c == IF hacf.keys = 1 /\ hacf.frags_per_key > 0 THEN [w EXCEPT !.key_frags = @ - 1] ELSE w
<1>1. Listing(c, k) /\ Ready(c)
  BY CountedListing DEF Sound
<1>2. Mute(c, w) /\ c.nfrags = w.nfrags /\ c.frags = w.frags /\ c.frag = w.frag
  BY SoundCtx DEF Mute, IsCtx, Fields
<1>3. Unlocked(w, id, ts, discont, fail)
        = IF fail = "file" THEN c ELSE StartFragment(c, id, ts, discont)
  BY DEF Unlocked
<1> HIDE DEF c
<1>4. Sound(c, k, h)
  BY <1>1, <1>2, MuteTold DEF Sound
<1>5. Rejoined(c, ts, discont)
  BY <1>2 DEF Rejoined, GetFrag, Slot
<1>6. c.opened = 0
  BY <1>2 DEF Mute
<1>7. Sound(StartFragment(c, id, ts, discont), k, h)
  BY <1>1, <1>4, <1>5, <1>6, StartSound
<1> QED
  BY <1>3, <1>4, <1>7

LEMMA EnsureSound ==
  ASSUME hacf \in Configuration, NEW k, NEW h, NEW w, Sound(w, k, h), NEW dir
  PROVE  LET v == EnsureDirectory(w, dir)
         IN  /\ Sound(v, k, h) /\ v.opened = w.opened /\ v.key_frags = w.key_frags
             /\ v.frag = w.frag /\ v.nfrags = w.nfrags /\ v.frags = w.frags
<1> DEFINE v == EnsureDirectory(w, dir)
<1>1. Alike(v, w) /\ Mute(v, w)
  BY SoundCtx DEF EnsureDirectory, Alike, Mute, IsCtx, Fields
<1> HIDE DEF v
<1>2. Sound(v, k, h)
  BY <1>1, AlikeSound
<1> QED
  BY <1>1, <1>2 DEF Alike, v

LEMMA OpenSound ==
  ASSUME hacf \in Configuration, NEW k, NEW h, NEW w, Sound(w, k, h), NEW fail,
         NEW ts \in Nat, NEW discont \in {0, 1}, Rejoined(w, ts, discont)
  PROVE  Sound(OpenLive(w, ts, discont, fail), k, h)
<1> DEFINE in   == EnsureDirectory(w, "ts")
           both == EnsureDirectory(in, hacf.key_dir)
           id   == FragmentId(w, ts)
<1>1. /\ Sound(in, k, h) /\ in.opened = w.opened
      /\ in.frag = w.frag /\ in.nfrags = w.nfrags /\ in.frags = w.frags
  BY EnsureSound
<1>2. /\ Sound(both, k, h) /\ both.opened = w.opened
      /\ both.frag = w.frag /\ both.nfrags = w.nfrags /\ both.frags = w.frags
  <2> HIDE DEF in
  <2> QED
    BY <1>1, EnsureSound
<1>3. id \in Nat /\ (Numbered => id = w.frag + w.nfrags)
  BY SoundCtx, FragmentIdType
<1>4. \/ OpenLive(w, ts, discont, fail) = w
      \/ w.opened = 0 /\ OpenLive(w, ts, discont, fail) = in
      \/ w.opened = 0 /\ hacf.keys = 0 /\ OpenLive(w, ts, discont, fail) = Unlocked(in, id, ts, discont, fail)
      \/ w.opened = 0 /\ hacf.keys # 0 /\ OpenLive(w, ts, discont, fail) = NewKey(both, id, fail)
      \/ w.opened = 0 /\ both.key_frags # 0 /\ OpenLive(w, ts, discont, fail) = Unlocked(both, id, ts, discont, fail)
  <2>1. w.opened = 0 \/ w.opened = 1
    BY SoundCtx
  <2>2. both.key_frags = w.key_frags
    <3> HIDE DEF in
    <3>1. both.key_frags = in.key_frags
      BY <1>1, EnsureSound
    <3>2. in.key_frags = w.key_frags
      BY EnsureSound DEF in
    <3> QED
      BY <3>1, <3>2
  <2>3. CASE w.opened = 1 \/ ~CanEnsure(w, "ts")
    BY <2>3 DEF OpenLive
  <2>4. CASE w.opened = 0 /\ CanEnsure(w, "ts")
    <3>1. OpenLive(w, ts, discont, fail)
            = IF hacf.keys = 0 THEN Unlocked(in, id, ts, discont, fail)
              ELSE IF ~CanEnsure(in, hacf.key_dir) THEN in
              ELSE IF w.key_frags = 0 THEN NewKey(both, id, fail)
              ELSE Unlocked(both, id, ts, discont, fail)
      BY <2>4 DEF OpenLive
    <3> HIDE DEF in, both, id
    <3> QED
      BY <2>2, <2>4, <3>1
  <2> QED
    BY <2>1, <2>3, <2>4
<1> HIDE DEF in, both, id
<1>5. Rejoined(in, ts, discont) /\ Rejoined(both, ts, discont)
  BY <1>1, <1>2 DEF Rejoined, GetFrag, Slot
<1>6. ASSUME w.opened = 0, hacf.keys = 0 PROVE Sound(Unlocked(in, id, ts, discont, fail), k, h)
  <2>1. in.opened = 0 /\ (hacf.keys = 1 => in.key_frags # 0)
    BY <1>1, <1>6
  <2> QED
    BY <1>1, <1>3, <1>5, <2>1, UnlockedSound
<1>7. ASSUME w.opened = 0, both.key_frags # 0 PROVE Sound(Unlocked(both, id, ts, discont, fail), k, h)
  <2>1. both.opened = 0 /\ (hacf.keys = 1 => both.key_frags # 0)
    BY <1>2, <1>7
  <2> QED
    BY <1>2, <1>3, <1>5, <2>1, UnlockedSound
<1>8. ASSUME w.opened = 0, hacf.keys # 0 PROVE Sound(NewKey(both, id, fail), k, h)
  <2>1. hacf.keys = 1
    BY <1>8, ConfFacts
  <2>2. Listing(NewKey(both, id, fail), k)
    BY <1>2, <1>3, <1>8, <2>1, NewKeyListing DEF Sound
  <2>3. Mute(NewKey(both, id, fail), both)
    BY <1>2, SoundCtx DEF NewKey, Mute, IsCtx, Fields
  <2> QED
    BY <1>2, <2>2, <2>3, MuteTold DEF Sound
<1> QED
  BY <1>1, <1>4, <1>6, <1>7, <1>8

LEMMA CloseSound ==
  ASSUME hacf \in Configuration, NEW k, NEW h, NEW w, Sound(w, k, h), NEW fail, fail = "none" \/ k # 0
  PROVE  LET v == CloseLive(w, fail)
         IN  /\ Sound(v, k, h) /\ v.opened = 0
             /\ w.opened = 1 => GetFrag(v, hacf, v.nfrags - 1) = GetFrag(w, hacf, w.nfrags)
<1> DEFINE s == [w EXCEPT !.opened = 0, !.closed = Append(@, GetFrag(w, hacf, w.nfrags))]
           n == NextFrag(s, hacf)
           v == WritePlaylist(n, hacf, fail)
<1>1. w.opened \in {0, 1} /\ IsCtx(w)
  BY SoundCtx
<1>2. CASE w.opened = 0
  BY <1>2 DEF CloseLive
<1>3. CASE w.opened = 1
  <2>1. CloseLive(w, fail) = v
    BY <1>3 DEF CloseLive
  <2>2. /\ IsCtx(s) /\ s.used = w.used /\ s.held = w.held /\ s.segments = w.segments
    BY <1>1 DEF IsCtx, Fields
  <2> HIDE DEF s
  <2>3. IsCtx(n) /\ n.used = w.used /\ n.held = w.held /\ n.segments = w.segments
    BY <2>2 DEF NextFrag, IsCtx, Fields
  <2> HIDE DEF n
  <2>4. v.used = w.used /\ v.held = w.held /\ v.segments = w.segments
    <3> DEFINE p == [n EXCEPT !.playlist = PlaylistLines(n, hacf)]
               q == WriteVariantPlaylist(p, hacf, fail)
    <3>1. v \in {n, p, q}
      BY DEF WritePlaylist
    <3>2. IsCtx(p) /\ p.used = n.used /\ p.held = n.held /\ p.segments = n.segments
      BY <2>3 DEF IsCtx, Fields
    <3> HIDE DEF p, v
    <3>3. q.used = p.used /\ q.held = p.held /\ q.segments = p.segments
      BY <3>2 DEF WriteVariantPlaylist, IsCtx, Fields
    <3> HIDE DEF q
    <3> QED
      BY <2>3, <3>1, <3>2, <3>3
  <2>5. /\ Listing(v, k) /\ v.opened = 0
        /\ GetFrag(v, hacf, v.nfrags - 1) = GetFrag(w, hacf, w.nfrags)
    <3>1. Listing(w, k)
      BY DEF Sound
    <3> HIDE DEF v
    <3> QED
      BY <1>3, <2>1, <3>1, ClosedListing
  <2> HIDE DEF v
  <2>6. Told(v, h)
    BY <2>4, <2>5 DEF Sound, Told
  <2> QED
    BY <2>1, <2>5, <2>6 DEF Sound
<1> QED
  BY <1>1, <1>2, <1>3

-----------------------------------------------------------------------------
(* Measuring, and when to cut. *)

(* What a fragment that was not cut by force may measure. *)
LEMMA ShortMeasure ==
  ASSUME NEW m \in Nat, m > 0, NEW b \in Nat, NEW a \in Int, a <= b, a >= -90000
  PROVE  /\ (a % m) \in Nat
         /\ (a % m) <= b \/ (a % m) >= m - 90000
<1>1. (a % m) \in Nat
  OBVIOUS
<1>2. CASE a >= 0
  <2>1. (a % m) <= a
    BY <1>2
  <2> QED
    BY <1>1, <2>1
<1>3. CASE a < 0
  <2>1. PICK q \in Int : a = m * q + (a % m)
    <3>1. (a \div m) \in Int /\ a = m * (a \div m) + (a % m)
      OBVIOUS
    <3> QED
      BY <3>1
  <2>2. q < 0
    <3> SUFFICES ASSUME q >= 0 PROVE FALSE
      BY <2>1
    <3>1. m * q >= 0
      BY <2>1
    <3> QED
      BY <1>1, <1>3, <2>1, <3>1
  <2>3. m * q <= -m
    <3>1. PICK p \in Nat : q = -1 - p
      <4>1. (-1 - q) \in Nat /\ q = -1 - (-1 - q)
        BY <2>1, <2>2
      <4> QED
        BY <4>1
    <3>2. m * (-1 - p) = -m - m * p /\ m * p >= 0
      BY <3>1
    <3> QED
      BY <3>1, <3>2
  <2>4. PICK d \in Int, r \in Nat : d = m * q /\ r = a % m
    BY <1>1, <2>1
  <2>5. r >= m - 90000
    <3>1. a = d + r /\ d <= -m
      BY <2>1, <2>3, <2>4
    <3> QED
      BY <2>4, <3>1
  <2> QED
    BY <2>4, <2>5
<1> QED
  BY <1>2, <1>3

LEMMA Remainder ==
  ASSUME NEW m \in Nat, m > 0, NEW t \in 0 .. m - 1, NEW q \in Int
  PROVE  (t + m * q) % m = t
OBVIOUS

(* From s, the unsigned difference leads to t. *)
LEMMA Arrives ==
  ASSUME NEW m \in Nat, m > 0, NEW s \in Nat, NEW t \in 0 .. m - 1
  PROVE  (s + ((t - s) % m)) % m = t
<1>1. PICK q \in Int, r \in Int : r = (t - s) % m /\ t - s = m * q + r
  <2>1. /\ ((t - s) % m) \in Int /\ ((t - s) \div m) \in Int
        /\ t - s = m * ((t - s) \div m) + ((t - s) % m)
    OBVIOUS
  <2> QED
    BY <2>1
<1>2. PICK p \in Int : p = -q
  BY <1>1
<1>3. s + r = t + m * p
  <2>1. PICK d \in Int : d = m * q
    BY <1>1
  <2>2. m * p = -d
    BY <1>1, <1>2, <2>1
  <2> QED
    BY <1>1, <2>1, <2>2
<1>4. (s + r) % m = t
  BY ZenonT(60), <1>2, <1>3, Remainder
<1> QED
  BY <1>1, <1>4

(* The open fragment has its measure, so that it leads to ts. *)
Measured(v, w, ts) ==
  w.opened = 1 /\ ~Forced(w, ts) =>
    LET f == GetFrag(v, hacf, v.nfrags)
    IN  f.ts = w.frag_ts /\ (f.ts + f.duration) % U64 = ts

LEMMA MeasureSound ==
  ASSUME hacf \in Configuration, NEW k, NEW h, NEW w, Sound(w, k, h), NEW ts \in Nat, ts < U64
  PROVE  LET v == Measure(w, ts)
         IN  Sound(v, k, h) /\ v.opened = w.opened /\ v.frag_ts = w.frag_ts /\ Measured(v, w, ts)
<1>1. CASE ~(w.opened = 1 /\ ~Forced(w, ts))
  BY <1>1 DEF Measure, Measured
<1>2. CASE w.opened = 1 /\ ~Forced(w, ts)
  <2> DEFINE s == Slot(w, hacf, w.nfrags)
             d == (ts - w.frag_ts) % U64
             f == [w.frags[s] EXCEPT !.duration = d]
             v == [w EXCEPT !.frags[s].duration = d]
  <2>1. Measure(w, ts) = v
    BY <1>2 DEF Measure
  <2>2. w.frag_ts \in Nat /\ U64 \in Nat /\ U64 > 0 /\ hacf.max_fraglen \in Nat
    BY ConfFacts DEF Sound, Listing, Typed
  <2>3. d \in Nat /\ Short(d)
    <3>1. PICK a \in Int, b \in Nat : a = ts - w.frag_ts /\ b = hacf.max_fraglen * 90
      <4>1. hacf.max_fraglen * 90 \in Nat /\ ts - w.frag_ts \in Int
        BY <2>2
      <4> QED
        BY <4>1
    <3>2. a <= b /\ a >= -90000
      BY <1>2, <2>2, <3>1 DEF Forced
    <3>3. (a % U64) \in Nat /\ ((a % U64) <= b \/ (a % U64) >= U64 - 90000)
      BY <2>2, <3>2, ShortMeasure
    <3> QED
      BY <3>1, <3>3 DEF Short
  <2>4. (w.frag_ts + d) % U64 = ts
    <3>1. ts \in 0 .. U64 - 1
      BY <2>2
    <3> QED
      BY <2>2, <3>1, Arrives
  <2> HIDE DEF d
  <2>5. /\ Ok(w) /\ Typed(w) /\ Times(w) /\ KeyIds(w) /\ Rotation(w) /\ Shown(w, k)
        /\ w.nfrags \in Nat /\ w.nfrags - 1 + w.opened = w.nfrags
    BY <1>2, Conf DEF Sound, Listing, Ok, RingOk
  <2>6. w.frags[s] \in Frag
    <3>1. s \in Slots(hacf)
      BY <2>5, SlotsApart DEF Ok
    <3> HIDE DEF s
    <3> QED
      BY <2>5, <3>1 DEF Typed
  <2>7. /\ f \in Frag /\ f.duration = d /\ f.discont = w.frags[s].discont
        /\ f.ts = w.frags[s].ts /\ f.key_id = w.frags[s].key_id /\ f.active = w.frags[s].active
    <3> HIDE DEF s
    <3> QED
      BY <2>3, <2>6 DEF Frag
  <2>8. /\ IsCtx(v) /\ v.opened = w.opened /\ v.named = w.named /\ v.frag = w.frag /\ v.nfrags = w.nfrags
        /\ v.frags = [w.frags EXCEPT ![s] = f] /\ v.frag_ts = w.frag_ts
        /\ v.key_id = w.key_id /\ v.key_frags = w.key_frags
        /\ v.closed = w.closed /\ v.playlist = w.playlist /\ v.keyfiles = w.keyfiles
        /\ v.failed = w.failed
        /\ v.used = w.used /\ v.held = w.held /\ v.segments = w.segments
    <3> HIDE DEF s
    <3> QED
      BY <2>5 DEF Ok, IsCtx, Fields
  <2> HIDE DEF f, v
  <2>9. /\ v.frags \in [Slots(hacf) -> Frag]
        /\ \A i \in Slots(hacf) : v.frags[i] = f \/ v.frags[i] = w.frags[i]
        /\ GetFrag(v, hacf, w.nfrags) = f
        /\ \A i \in 0 .. w.nfrags - 1 : GetFrag(v, hacf, i) = GetFrag(w, hacf, i)
    BY ZenonT(60), <2>5, <2>7, <2>8, SlotWritten DEF s
  <2>10. Retains(v, w)
    BY <2>5, <2>8, OpenSlotFree DEF s
  <2>11. w.frags[s] = GetFrag(w, hacf, w.nfrags)
    BY DEF GetFrag, s
  <2> HIDE DEF s
  <2>12. Typed(v)
    BY <2>5, <2>8, <2>9 DEF Typed
  <2>13. Times(v)
    <3>1. \A i \in Slots(hacf) : Short(v.frags[i].duration)
      BY <2>3, <2>5, <2>7, <2>9 DEF Times
    <3>2. GetFrag(v, hacf, v.nfrags).ts = v.frag_ts
      BY <1>2, <2>5, <2>7, <2>8, <2>9, <2>11 DEF Times
    <3>3. ASSUME NEW i \in 1 .. v.nfrags - 1 + v.opened, GetFrag(v, hacf, i).discont = 0
          PROVE  LeadsTo(GetFrag(v, hacf, i - 1), GetFrag(v, hacf, i).ts)
      <4>1. i \in 1 .. w.nfrags - 1 + w.opened /\ i \in 1 .. w.nfrags
        BY <2>5, <2>8
      <4>2. GetFrag(v, hacf, i - 1) = GetFrag(w, hacf, i - 1)
        <5>1. PICK j \in 0 .. w.nfrags - 1 : j = i - 1
          BY <2>5, <4>1
        <5> QED
          BY <2>9, <5>1
      <4>3. /\ GetFrag(v, hacf, i).discont = GetFrag(w, hacf, i).discont
            /\ GetFrag(v, hacf, i).ts = GetFrag(w, hacf, i).ts
        <5>1. CASE i = w.nfrags
          BY <2>7, <2>9, <2>11, <5>1
        <5>2. CASE i # w.nfrags
          <6>1. i \in 0 .. w.nfrags - 1
            BY <2>5, <4>1, <5>2
          <6> QED
            BY <2>9, <6>1
        <5> QED
          BY <5>1, <5>2
      <4> QED
        BY <2>5, <3>3, <4>1, <4>2, <4>3 DEF Times
    <3>4. ASSUME NEW i \in 0 .. v.nfrags - 1 + v.opened PROVE GetFrag(v, hacf, i).active = 1
      <4>1. i \in 0 .. w.nfrags - 1 + w.opened /\ (i \in 0 .. w.nfrags - 1 \/ i = w.nfrags)
        BY <2>5, <2>8
      <4>2. GetFrag(v, hacf, i).active = GetFrag(w, hacf, i).active
        BY <2>7, <2>9, <2>11, <4>1
      <4> QED
        BY <2>5, <4>1, <4>2 DEF Times
    <3> QED
      BY <3>1, <3>2, <3>3, <3>4 DEF Times
  <2>14. Written(v) = Written(w)
    BY <2>8 DEF Written
  <2>15. KeyIds(v)
    BY <2>5, <2>7, <2>8, <2>9, <2>11, <2>14 DEF KeyIds
  <2>16. Rotation(v)
    BY <2>5, <2>7, <2>8, <2>9, <2>11 DEF Rotation
  <2>17. Shown(v, k)
    BY <2>5, <2>8, <2>10, LinesSame DEF Shown, Retains
  <2>18. Listing(v, k)
    BY <2>10, <2>12, <2>13, <2>15, <2>16, <2>17 DEF Listing, Retains
  <2>19. Mute(v, w)
    BY <2>8 DEF Mute
  <2>20. Sound(v, k, h)
    BY <2>18, <2>19, MuteTold DEF Sound
  <2>21. Measured(v, w, ts)
    <3>1. f.ts = w.frag_ts
      BY <1>2, <2>5, <2>7, <2>11 DEF Times
    <3> QED
      BY <2>4, <2>7, <2>8, <2>9, <3>1 DEF Measured
  <2> QED
    BY <2>1, <2>8, <2>20, <2>21
<1> QED
  BY <1>1, <1>2

(* A fragment opened without a mark follows the one just closed. *)
LEMMA UpdateLiveSound ==
  ASSUME hacf \in Configuration, NEW k, NEW h, NEW w, Sound(w, k, h), NEW ts \in Nat, ts < U64,
         NEW boundary, NEW rate, NEW fail, fail = "none" \/ k # 0
  PROVE  Sound(UpdateLive(w, ts, boundary, rate, fail), k, h)
<1> DEFINE measured == Measure(w, ts)
           waiting  == IF Waits(w, ts) THEN [measured EXCEPT !.frag_ts = ts] ELSE measured
           mark     == Discontinuity(w, ts)
           closed   == CloseLive(waiting, fail)
           reopened == OpenLive(closed, ts, mark, fail)
           cut      == IF Cuts(measured, ts, boundary) THEN reopened ELSE waiting
<1>1. UpdateLive(w, ts, boundary, rate, fail) = UpdateFragment(cut, ts, rate)
  BY DEF UpdateLive
<1>2. /\ Sound(measured, k, h) /\ measured.opened = w.opened /\ measured.frag_ts = w.frag_ts
      /\ Measured(measured, w, ts)
  BY MeasureSound
<1> HIDE DEF measured
<1>3. w.opened = 0 \/ w.opened = 1
  BY SoundCtx
<1>4. /\ Sound(waiting, k, h) /\ waiting.opened = w.opened
      /\ waiting.nfrags = measured.nfrags
      /\ GetFrag(waiting, hacf, waiting.nfrags) = GetFrag(measured, hacf, measured.nfrags)
  <2>1. CASE Waits(w, ts)
    <3>1. w.opened = 0
      BY <2>1 DEF Waits
    <3>2. Alike(waiting, measured) /\ Mute(waiting, measured)
      BY <1>2, <2>1, <3>1, SoundCtx DEF Alike, Mute, IsCtx, Fields
    <3>3. Sound(waiting, k, h)
      BY <1>2, <3>2, AlikeSound
    <3> HIDE DEF waiting
    <3> QED
      BY <1>2, <3>2, <3>3 DEF Alike, GetFrag, Slot
  <2>2. CASE ~Waits(w, ts)
    BY <1>2, <2>2
  <2> QED
    BY <2>1, <2>2
<1> HIDE DEF waiting
<1>5. /\ Sound(closed, k, h)
      /\ w.opened = 1 => GetFrag(closed, hacf, closed.nfrags - 1) = GetFrag(measured, hacf, measured.nfrags)
  BY <1>4, CloseSound
<1> HIDE DEF closed
<1>6. mark \in {0, 1}
  BY DEF Discontinuity
<1>7. ASSUME Cuts(measured, ts, boundary) PROVE Rejoined(closed, ts, mark)
  <2> SUFFICES ASSUME mark = 0 PROVE Rejoined(closed, ts, mark)
    BY DEF Rejoined
  <2>1. w.opened = 1 /\ ~Forced(w, ts)
    BY DEF Discontinuity
  <2> DEFINE f == GetFrag(measured, hacf, measured.nfrags)
  <2>2. f.ts = w.frag_ts /\ (f.ts + f.duration) % U64 = ts
    BY <1>2, <2>1 DEF Measured
  <2>3. ~Forced(measured, ts)
    BY <1>2, <2>1 DEF Forced
  <2>4. IF hacf.slicing = "plain" THEN f.duration >= hacf.fraglen * 90 ELSE ~SameSlice(measured, ts)
    BY <1>2, <1>7, <2>1, <2>3, Zenon DEF Cuts
  <2>5. SameSlice(measured, ts) <=> w.frag_ts \div (hacf.fraglen * 90) = ts \div (hacf.fraglen * 90)
    BY <1>2 DEF SameSlice
  <2> HIDE DEF f
  <2>6. LeadsTo(f, ts)
    BY <2>2, <2>4, <2>5, Zenon DEF LeadsTo, Sliced
  <2> QED
    BY <1>5, <2>1, <2>6 DEF Rejoined, f
<1> HIDE DEF mark
<1>8. Sound(cut, k, h)
  <2>1. CASE Cuts(measured, ts, boundary)
    BY <1>5, <1>6, <1>7, <2>1, OpenSound
  <2>2. CASE ~Cuts(measured, ts, boundary)
    BY <1>4, <2>2
  <2> QED
    BY <2>1, <2>2
<1> HIDE DEF cut
<1> QED
  BY <1>1, <1>8, UpdateSound

-----------------------------------------------------------------------------
(* The messages keep a context sound. *)

(* A number that is added up to a limit. *)
LEMMA Capped ==
  ASSUME NEW c \in Nat, NEW u \in 0 .. c, NEW s \in Nat
  PROVE  (IF u + s > c THEN c ELSE u + s) \in 0 .. c
OBVIOUS

(* A frame joins the buffer; the listing is not touched. *)
Taken(w, a, used) == [AppendAudio(w, a) EXCEPT !.used = used]

LEMMA AppendAlike ==
  ASSUME NEW w, IsCtx(w), NEW a, NEW n
  PROVE  LET v == Taken(w, a, n)
         IN  /\ Alike(v, w) /\ v.segments = w.segments /\ v.used = n
             /\ v.held = Append(w.held, a)
<1> DEFINE b == Buffer(w, a)
           c == AppendAudio(w, a)
           v == Taken(w, a, n)
<1>1. /\ IsCtx(b) /\ Alike(b, w) /\ b.segments = w.segments /\ b.held = Append(w.held, a)
  BY DEF Buffer, Alike, IsCtx, Fields
<1>2. c = IF w.used > 0 THEN [b EXCEPT !.aframe_num = @ + 1]
          ELSE IF InSync(EstimatedPts(w) - Ticks(a.ts))
            THEN [b EXCEPT !.aframe_num = @ + 1, !.aframe_pts = EstimatedPts(w)]
          ELSE [b EXCEPT !.aframe_num = 1, !.aframe_pts = Ticks(a.ts), !.aframe_base = Ticks(a.ts)]
  BY DEF AppendAudio
<1>6. v = [c EXCEPT !.used = n]
  BY DEF Taken
<1> HIDE DEF b, c, v
<1>3. IsCtx(c) /\ Alike(c, b) /\ c.segments = b.segments /\ c.held = b.held
  BY ZenonT(60), <1>1, <1>2 DEF Alike, IsCtx, Fields
<1>4. IsCtx(v) /\ Alike(v, c) /\ v.segments = c.segments /\ v.held = c.held /\ v.used = n
  BY <1>3, <1>6 DEF Alike, IsCtx, Fields
<1>5. Alike(v, w)
  BY <1>1, <1>3, <1>4 DEF Alike
<1> QED
  BY <1>1, <1>3, <1>4, <1>5 DEF v, c

LEMMA FillAlike ==
  ASSUME NEW w, IsCtx(w), NEW a
  PROVE  LET v == Fill(w, a)
         IN  /\ Alike(v, w) /\ v.segments = w.segments /\ v.held = Append(w.held, a)
             /\ v.used = IF w.used + a.size > AudioBufferSize THEN AudioBufferSize ELSE w.used + a.size
BY DEF Fill, Alike, IsCtx, Fields

(* What was heard after the message. *)
Hears(w, a, fail, h) == IF Takes(w, a, fail) THEN Append(h, a) ELSE h

LEMMA AudioLiveSound ==
  ASSUME hacf \in Configuration, NEW k, NEW h, NEW w, Sound(w, k, h), NEW a \in AudioMessage,
         NEW fail, fail = "none" \/ k # 0
  PROVE  Sound(AudioLive(w, a, fail), k, Hears(w, a, fail, h))
<1> DEFINE room == AudioRoom(w, a, fail)
           filled == Fill(room, a)
           added  == Taken(room, a, filled.used)
<1>1. a.ts \in Nat /\ Ticks(a.ts) \in Nat /\ Ticks(a.ts) < U64 /\ a.size \in Nat
  BY LiveAssumption DEF Ticks
<1>2. Sound(room, k, h)
  <2>1. Sound(UpdateLive(w, Ticks(a.ts), NoVideo, 2, fail), k, h)
    BY <1>1, UpdateLiveSound
  <2> QED
    BY <2>1, RoomSound DEF AudioRoom
<1>3. CASE NoAudio \/ a.size > AudioBufferSize
  <2>1. AudioLive(w, a, fail) = w /\ ~Takes(w, a, fail)
    <3>1. AudioBufferSize \in Nat
      BY ConfAssumption
    <3> QED
      BY <1>1, <1>3, <3>1 DEF AudioLive, Takes
  <2> QED
    BY <2>1 DEF Hears
<1>4. CASE ~(NoAudio \/ a.size > AudioBufferSize)
  <2>1. AudioLive(w, a, fail) = IF room.used + 7 > AudioBufferSize THEN room
                                ELSE IF BadHeader THEN filled ELSE added
    BY <1>4, Zenon DEF AudioLive, Taken
  <2>2. room.used \in 0 .. AudioBufferSize /\ AudioBufferSize \in Nat
    BY <1>2, ConfAssumption DEF Sound, Told
  <2>3. Takes(w, a, fail) <=> ~(room.used + 7 > AudioBufferSize)
    <3>1. a.size <= AudioBufferSize
      BY <1>1, <1>4, <2>2
    <3>2. Takes(w, a, fail) <=> room.used + 7 <= AudioBufferSize
      BY <1>4, <3>1 DEF Takes
    <3> HIDE DEF room
    <3> QED
      BY <2>2, <3>2
  <2> HIDE DEF room
  <2>4. CASE room.used + 7 > AudioBufferSize
    BY <1>2, <2>1, <2>3, <2>4 DEF Hears
  <2>5. CASE ~(room.used + 7 > AudioBufferSize)
    <3>1. IsCtx(room)
      BY <1>2, SoundCtx
    <3>2. /\ Alike(filled, room) /\ filled.segments = room.segments
          /\ filled.held = Append(room.held, a)
          /\ filled.used = IF room.used + a.size > AudioBufferSize THEN AudioBufferSize
                                                                   ELSE room.used + a.size
      BY <3>1, FillAlike
    <3>3. filled.used \in 0 .. AudioBufferSize
      BY <1>1, <2>2, <3>2, Capped
    <3> HIDE DEF filled
    <3>4. /\ Alike(added, room) /\ added.segments = room.segments /\ added.used = filled.used
          /\ added.held = Append(room.held, a)
      BY <3>1, AppendAlike
    <3> HIDE DEF added
    <3>5. ASSUME NEW v, Alike(v, room), v.segments = room.segments, v.held = Append(room.held, a),
                 v.used = filled.used
          PROVE  Sound(v, k, Append(h, a))
      <4>1. Listing(v, k)
        BY <1>2, <3>5, AlikeListing DEF Sound
      <4>2. v.opened = room.opened
        BY <3>5 DEF Alike
      <4>3. Told(v, Append(h, a))
        BY <1>2, <3>3, <3>5, <4>2, BufferedTold DEF Sound
      <4> QED
        BY <4>1, <4>3 DEF Sound
    <3>6. Sound(filled, k, Append(h, a)) /\ Sound(added, k, Append(h, a))
      BY <3>2, <3>4, <3>5
    <3> QED
      BY <2>1, <2>3, <2>5, <3>6 DEF Hears
  <2> QED
    BY <2>4, <2>5
<1> QED
  BY <1>3, <1>4

(* A picture goes into the open fragment. *)
LEMMA PictureSound ==
  ASSUME hacf \in Configuration, NEW k, NEW h, NEW w, Sound(w, k, h), w.opened = 1,
         NEW pes, pes.pid # AudioPid, Playable => Decodable(pes.es), NEW n
  PROVE  Sound([Put(w, pes) EXCEPT !.video_cc = @ + n], k, h)
<1> DEFINE p == Put(w, pes)
           v == [p EXCEPT !.video_cc = @ + n]
<1>1. IsCtx(w) /\ Told(w, h)
  BY SoundCtx DEF Sound
<1>2. IsCtx(p) /\ Alike(p, w) /\ p.used = w.used /\ p.held = w.held /\ p.segments = WithFrame(w.segments, pes)
  BY <1>1 DEF Put, WithFrame, Alike, IsCtx, Fields
<1> HIDE DEF p
<1>3. /\ IsCtx(v) /\ Alike(v, p) /\ v.used = p.used /\ v.held = p.held /\ v.segments = p.segments
  BY <1>2 DEF Alike, IsCtx, Fields
<1> HIDE DEF v
<1>4. Alike(v, w) /\ v.opened = 1
  BY <1>2, <1>3 DEF Alike
<1>5. Listing(v, k)
  BY <1>4, AlikeListing DEF Sound
<1>6. Audible(v.segments, AudioMessage) /\ v.segments # <<>> /\ AllAudio(v.segments) = AllAudio(w.segments)
  <2>1. PICK ss, tt : ss = w.segments /\ tt = v.segments
    OBVIOUS
  <2>2. tt = WithFrame(ss, pes) /\ Audible(ss, AudioMessage) /\ ss # <<>>
    BY <1>1, <1>2, <1>3, <2>1 DEF Told
  <2>3. Audible(tt, AudioMessage) /\ tt # <<>> /\ AllAudio(tt) = AllAudio(ss)
    BY <2>2, OtherPut, Zenon
  <2> QED
    BY <2>1, <2>3
<1>7. ASSUME Playable PROVE Pictured(v.segments)
  <2>1. PICK ss : ss = w.segments
    OBVIOUS
  <2>2. Audible(ss, AudioMessage) /\ ss # <<>> /\ Pictured(ss) /\ Decodable(pes.es)
    BY <1>1, <1>7, <2>1 DEF Told
  <2>3. Pictured(WithFrame(ss, pes))
    BY <2>2, PicturedPut
  <2> QED
    BY <1>2, <1>3, <2>1, <2>3
<1>8. Told(v, h)
  BY <1>1, <1>2, <1>3, <1>6, <1>7 DEF Told
<1> QED
  BY <1>5, <1>8 DEF Sound, v, p

LEMMA VideoLiveSound ==
  ASSUME hacf \in Configuration, NEW k, NEW h, NEW w, Sound(w, k, h), NEW v \in VideoMessage,
         codec.avc \subseteq AvcHeader, NEW fail, fail = "none" \/ k # 0
  PROVE  Sound(VideoLive(w, v, fail), k, h)
<1> DEFINE header == CHOOSE x \in codec.avc : TRUE
           out == AccessUnit(v, header)
           up  == UpdateLive(w, Ticks(v.ts), Boundary(w, v), 1, fail)
           n   == PacketCount([size |-> out.used, key |-> v.key, cts |-> v.cts])
           pes == [pid |-> VideoPid, dts |-> Ticks(v.ts), cc |-> up.video_cc, n |-> n,
                   es |-> out.units]
           put == [Put(up, pes) EXCEPT !.video_cc = @ + n]
<1>1. \/ VideoLive(w, v, fail) \in {w, up}
      \/ ~NoVideo /\ out.result = "whole" /\ up.opened # 0 /\ VideoLive(w, v, fail) = put
  BY Zenon DEF VideoLive, Picture, BeforePicture
<1>2. Sound(up, k, h)
  <2>1. v.ts \in Nat /\ Ticks(v.ts) \in Nat /\ Ticks(v.ts) < U64
    BY LiveAssumption DEF Ticks
  <2> QED
    BY <2>1, UpdateLiveSound
<1>3. pes.pid # AudioPid /\ pes.es = out.units
  BY DEF AudioPid, VideoPid
<1>5. ASSUME Playable, ~NoVideo, out.result = "whole" PROVE Decodable(out.units)
  <2>1. header \in AvcHeader
    BY <1>5 DEF NoVideo
  <2> HIDE DEF header
  <2>2. PlainHeader(header) /\ Roomy(v, header)
    BY <1>5, <2>1 DEF Playable
  <2> QED
    BY <1>5, <2>2, PictureDecodable
<1> HIDE DEF up, pes, n, out
<1>4. ASSUME ~NoVideo, out.result = "whole", up.opened # 0 PROVE Sound(put, k, h)
  <2>1. up.opened = 1
    BY <1>2, <1>4, SoundCtx
  <2>2. Playable => Decodable(pes.es)
    BY <1>3, <1>4, <1>5
  <2> QED
    BY <1>2, <1>3, <2>1, <2>2, PictureSound
<1> QED
  BY <1>1, <1>2, <1>4

-----------------------------------------------------------------------------
(* A stream that begins. *)

Fresh(v) ==
  /\ IsCtx(v) /\ v.opened = 0 /\ v.named \in {0, 1} /\ v.frag = 0 /\ v.nfrags = 0
  /\ v.frag_ts = 0 /\ v.key_id = 0 /\ v.key_frags = 0 /\ v.closed = <<>>
  /\ v.used = 0 /\ v.held = <<>> /\ v.segments = <<>>
  /\ v.frags \in [Slots(hacf) -> Frag]
  /\ \A s \in Slots(hacf) : Short(v.frags[s].duration)

LEMMA FreshSound ==
  ASSUME hacf \in Configuration, NEW k, NEW v, Fresh(v)
  PROVE  Sound(v, k, <<>>)
<1>1. <<>> \in Seq(Frag) /\ Len(<<>>) = 0 /\ 1 .. 0 = {} /\ <<>> \in Seq(AudioMessage)
  OBVIOUS
<1>2. Ok(v)
  BY Conf DEF Fresh, Ok, RingOk
<1>3. Typed(v)
  BY <1>1 DEF Fresh, Typed
<1>4. Times(v)
  <2>1. 1 .. v.nfrags - 1 + v.opened = {} /\ 0 .. v.nfrags - 1 + v.opened = {}
    BY DEF Fresh
  <2> QED
    BY <2>1 DEF Fresh, Times
<1>5. KeyIds(v)
  BY <1>1 DEF Fresh, KeyIds
<1>6. Rotation(v)
  <2> SUFFICES ASSUME Numbered PROVE Rotation(v)
    BY DEF Rotation
  <2>1. hacf.frags_per_key \in Nat /\ hacf.frags_per_key > 0
    BY ConfFacts DEF Numbered
  <2> QED
    BY <1>1, <2>1 DEF Fresh, Rotation
<1>7. Shown(v, k)
  BY DEF Fresh, Shown
<1>8. Told(v, <<>>)
  <2>1. AudioBufferSize \in Nat
    BY ConfAssumption
  <2>2. Audible(<<>>, AudioMessage) /\ AllAudio(<<>>) = <<>>
    BY AudibleNone
  <2>3. IsJoin(<<>>, AllAudio(<<>>), <<>>)
    BY <2>2 DEF IsJoin
  <2> QED
    BY <1>1, <2>1, <2>2, <2>3, PicturedNone DEF Fresh, Told
<1> QED
  BY <1>2, <1>3, <1>4, <1>5, <1>6, <1>7, <1>8 DEF Listing, Sound

LEMMA BlankFresh ==
  ASSUME NEW frags \in [Slots(hacf) -> Frag], \A s \in Slots(hacf) : Short(frags[s].duration),
         NEW files
  PROVE  Fresh(Blank(frags, files))
BY DEF Blank, Fresh, IsCtx, Fields

LEMMA PublishSound ==
  ASSUME hacf \in Configuration, NEW j, NEW h, NEW w, Sound(w, j, h), NEW good, NEW fail, NEW k
  PROVE  Sound(PublishLive(w, good, fail), k, <<>>)
<1> DEFINE blank == Blank(w.frags, w)
           named == [blank EXCEPT !.named = 1, !.var = hacf.variant, !.found = ListedIn(w.playlist)]
           emptied == [named EXCEPT !.playlist = <<>>]
           back == [emptied EXCEPT !.nfrags = 0]
<1>1. Fresh(blank)
  BY BlankFresh DEF Sound, Listing, Typed, Times
<1> HIDE DEF blank
<1>2. Fresh(named)
  BY <1>1 DEF Fresh, IsCtx, Fields
<1> HIDE DEF named
<1>3. Fresh(emptied)
  BY <1>2 DEF Fresh, IsCtx, Fields
<1> HIDE DEF emptied
<1>4. Fresh(back)
  BY <1>3 DEF Fresh, IsCtx, Fields
<1>5. RestoreStream(named, hacf, fail) \in {named, back}
  BY DEF RestoreStream, emptied, back
<1> HIDE DEF back
<1>6. Fresh(PublishLive(w, good, fail))
  <2>1. PublishLive(w, good, fail) \in {blank, named, RestoreStream(named, hacf, fail)}
    BY DEF PublishLive, blank, named
  <2> QED
    BY <1>1, <1>2, <1>4, <1>5, <2>1
<1> QED
  BY <1>6, FreshSound

-----------------------------------------------------------------------------
(* Every step keeps the writer's context sound. *)

Names == {"messages", "publishes", "ends", "failures"}
Counters == [Names -> Nat]

(* The sequence headers seen. *)
Headers == [avc : SUBSET AvcHeader, aac : {"none", "good", "bad"}]

(* The inductive invariant. *)
LInv ==
  /\ hacf \in Configuration
  /\ codec \in Headers
  /\ calls \in Counters
  /\ Sound(ctx, calls.failures, heard)

Counted(c, counter, f) == [c EXCEPT ![counter] = @ + 1, !.failures = f]

LEMMA CountersGrow ==
  ASSUME NEW c \in Counters, NEW f \in Nat, NEW counter \in Names \ {"failures"}
  PROVE  Counted(c, counter, f) \in Counters /\ Counted(c, counter, f).failures = f
<1> DEFINE d == Counted(c, counter, f)
<1>1. d = [x \in Names |-> IF x = "failures" THEN f ELSE IF x = counter THEN c[x] + 1 ELSE c[x]]
  BY DEF Counters, Counted
<1>2. ASSUME NEW x \in Names PROVE c[x] \in Nat
  BY DEF Counters
<1> HIDE DEF d
<1>3. \A x \in Names : d[x] \in Nat
  BY <1>1, <1>2
<1>4. d \in Counters
  <2>1. d = [x \in Names |-> d[x]]
    BY <1>1
  <2> QED
    BY <1>3, <2>1 DEF Counters
<1>5. d["failures"] = f
  BY <1>1 DEF Names
<1> QED
  BY <1>4, <1>5 DEF d

(* A call that something failed in counts. *)
LEMMA CallCounts ==
  ASSUME calls \in Counters, NEW counter \in {"messages", "publishes", "ends"}, NEW fail,
         Call(counter, fail)
  PROVE  /\ calls' \in Counters
         /\ calls.failures \in Nat /\ calls'.failures >= calls.failures
         /\ fail = "none" \/ calls'.failures # 0
<1> DEFINE f == IF fail = "none" THEN calls.failures ELSE calls.failures + 1
<1>1. calls' = [calls EXCEPT ![counter] = @ + 1, !.failures = f]
  BY DEF Call
<1>2. f \in Nat /\ calls.failures \in Nat /\ f >= calls.failures /\ (fail = "none" \/ f # 0)
  BY DEF Counters, Names
<1> HIDE DEF f
<1>3. counter \in Names \ {"failures"}
  BY DEF Names
<1>4. calls' = Counted(calls, counter, f)
  BY <1>1 DEF Counted
<1>5. Counted(calls, counter, f) \in Counters /\ Counted(calls, counter, f).failures = f
  BY <1>2, <1>3, CountersGrow
<1> QED
  BY <1>2, <1>4, <1>5

(* The more failures, the less is claimed. *)
LEMMA SoundStill ==
  ASSUME NEW j \in Nat, NEW k \in Nat, k >= j, NEW h, NEW w, Sound(w, j, h)
  PROVE  Sound(w, k, h)
<1>1. k = 0 => j = 0
  OBVIOUS
<1> QED
  BY <1>1 DEF Sound, Listing, Shown

LEMMA EmptyRingFresh ==
  ASSUME hacf \in Configuration
  PROVE  /\ EmptyRing \in [Slots(hacf) -> Frag]
         /\ \A s \in Slots(hacf) : Short(EmptyRing[s].duration)
<1>1. NoFrag \in Frag /\ NoFrag.duration = 0
  BY DEF NoFrag, Frag
<1>2. Short(0)
  <2>1. hacf.max_fraglen \in Nat
    BY ConfFacts
  <2> QED
    BY <2>1 DEF Short
<1> QED
  BY <1>1, <1>2 DEF EmptyRing

LEMMA InitSound ==
  Init => LInv
<1> SUFFICES ASSUME Init PROVE LInv
  OBVIOUS
<1>1. hacf \in Configuration /\ ctx = Blank(EmptyRing, NoFiles) /\ heard = <<>>
      /\ calls = [messages |-> 0, publishes |-> 0, ends |-> 0, failures |-> 0]
      /\ codec = NoHeaders
  BY DEF Init
<1>2. Fresh(ctx)
  BY <1>1, EmptyRingFresh, BlankFresh
<1>3. calls \in Counters
  BY <1>1 DEF Counters, Names
<1> QED
  BY <1>1, <1>2, <1>3, FreshSound DEF LInv, Headers, NoHeaders

LEMMA NextSound ==
  ASSUME LInv, Next
  PROVE  hacf' = hacf /\ calls' \in Counters /\ Sound(ctx', calls'.failures, heard')
<1>0. hacf \in Configuration /\ calls \in Counters /\ Sound(ctx, calls.failures, heard)
  BY DEF LInv
<1>1. CASE SequenceHeader
  BY <1>0, <1>1 DEF SequenceHeader
<1>2. ASSUME NEW fail, NEW good, Publish(good, fail)
      PROVE  hacf' = hacf /\ calls' \in Counters /\ Sound(ctx', calls'.failures, heard')
  <2>1. /\ calls' \in Counters /\ hacf' = hacf /\ heard' = <<>>
        /\ ctx' = PublishLive(ctx, good, fail)
    BY <1>0, <1>2, CallCounts DEF Publish
  <2>2. PICK k : k = calls'.failures
    OBVIOUS
  <2>3. Sound(PublishLive(ctx, good, fail), k, <<>>)
    BY <1>0, PublishSound
  <2> QED
    BY <2>1, <2>2, <2>3
<1>3. ASSUME NEW fail, NEW a \in AudioMessage, Audio(a, fail)
      PROVE  hacf' = hacf /\ calls' \in Counters /\ Sound(ctx', calls'.failures, heard')
  <2>1. /\ calls' \in Counters /\ calls.failures \in Nat /\ calls'.failures >= calls.failures
        /\ fail = "none" \/ calls'.failures # 0
    BY <1>0, <1>3, CallCounts DEF Audio
  <2>2. /\ hacf' = hacf /\ ctx' = AudioLive(ctx, a, fail)
        /\ heard' = Hears(ctx, a, fail, heard)
    BY <1>3 DEF Audio, Hears
  <2>3. PICK k \in Nat : k = calls'.failures
    BY <2>1 DEF Counters, Names
  <2>4. Sound(ctx, k, heard)
    BY <1>0, <2>1, <2>3, SoundStill
  <2>5. Sound(AudioLive(ctx, a, fail), k, Hears(ctx, a, fail, heard))
    BY <1>0, <2>1, <2>3, <2>4, AudioLiveSound
  <2> QED
    BY <2>1, <2>2, <2>3, <2>5
<1>4. ASSUME NEW fail, NEW v \in VideoMessage, Video(v, fail)
      PROVE  hacf' = hacf /\ calls' \in Counters /\ Sound(ctx', calls'.failures, heard')
  <2>1. /\ calls' \in Counters /\ calls.failures \in Nat /\ calls'.failures >= calls.failures
        /\ fail = "none" \/ calls'.failures # 0
    BY <1>0, <1>4, CallCounts DEF Video
  <2>2. hacf' = hacf /\ ctx' = VideoLive(ctx, v, fail) /\ heard' = heard
    BY <1>4 DEF Video
  <2>3. PICK k \in Nat : k = calls'.failures
    BY <2>1 DEF Counters, Names
  <2>4. Sound(ctx, k, heard)
    BY <1>0, <2>1, <2>3, SoundStill
  <2>5. Sound(VideoLive(ctx, v, fail), k, heard)
    BY <1>0, <2>1, <2>3, <2>4, VideoLiveSound DEF LInv, Headers
  <2> QED
    BY <2>1, <2>2, <2>3, <2>5
<1>6. ASSUME NEW v \in VideoMessage, Crash(v)
      PROVE  hacf' = hacf /\ calls' \in Counters /\ Sound(ctx', calls'.failures, heard')
  <2>1. PICK up : ctx' = Blank(EmptyRing, up)
    BY <1>6 DEF Crash
  <2>2. /\ calls' \in Counters /\ hacf' = hacf /\ heard' = <<>>
    BY <1>0, <1>6, CallCounts DEF Crash
  <2>3. PICK k : k = calls'.failures
    OBVIOUS
  <2>4. Fresh(Blank(EmptyRing, up))
    BY <1>0, EmptyRingFresh, BlankFresh
  <2>5. Sound(Blank(EmptyRing, up), k, <<>>)
    BY <1>0, <2>4, FreshSound
  <2> QED
    BY <2>1, <2>2, <2>3, <2>5
<1>5. ASSUME NEW fail, StreamEof(fail) \/ CloseStream(fail)
      PROVE  hacf' = hacf /\ calls' \in Counters /\ Sound(ctx', calls'.failures, heard')
  <2>1. /\ calls' \in Counters /\ calls.failures \in Nat /\ calls'.failures >= calls.failures
        /\ fail = "none" \/ calls'.failures # 0
    BY <1>0, <1>5, CallCounts DEF StreamEof, CloseStream
  <2>2. /\ hacf' = hacf /\ heard' = heard
        /\ ctx' \in {CloseLive(FlushAudio(ctx), fail), CloseLive(ctx, fail)}
    BY <1>5 DEF StreamEof, CloseStream, FlushLive
  <2>3. PICK k \in Nat : k = calls'.failures
    BY <2>1 DEF Counters, Names
  <2>4. Sound(ctx, k, heard)
    BY <1>0, <2>1, <2>3, SoundStill
  <2>5. Sound(FlushAudio(ctx), k, heard)
    BY <1>0, <2>4, FlushSound
  <2>6. Sound(CloseLive(FlushAudio(ctx), fail), k, heard) /\ Sound(CloseLive(ctx, fail), k, heard)
    BY <1>0, <2>1, <2>3, <2>4, <2>5, CloseSound
  <2> QED
    BY <2>1, <2>2, <2>3, <2>6
<1> QED
  BY <1>1, <1>2, <1>3, <1>4, <1>5, <1>6 DEF Next

(* Only sequence headers are kept as such. *)
LEMMA NextCodec ==
  ASSUME LInv, Next
  PROVE  codec' \in Headers
<1>1. CASE SequenceHeader
  <2>1. CASE \E h \in AvcHeader : codec' = [codec EXCEPT !.avc = {h}]
    BY <2>1 DEF LInv, Headers
  <2>2. CASE \E q \in {"good", "bad"} : codec' = [codec EXCEPT !.aac = q]
    BY <2>2 DEF LInv, Headers
  <2> QED
    BY <1>1, <2>1, <2>2 DEF SequenceHeader
<1>2. CASE UNCHANGED codec
  BY <1>2 DEF LInv
<1>3. ASSUME NEW v, Crash(v) PROVE codec' \in Headers
  BY <1>3 DEF Crash, NoHeaders, Headers
<1> QED
  BY <1>1, <1>2, <1>3 DEF Next, Publish, Audio, Video, StreamEof, CloseStream

LEMMA StepSound ==
  LInv /\ [Next]_vars => LInv'
<1> SUFFICES ASSUME LInv, [Next]_vars PROVE LInv'
  OBVIOUS
<1>1. /\ hacf' = hacf /\ calls' \in Counters /\ Sound(ctx', calls'.failures, heard') /\ hacf \in Configuration
      /\ codec' \in Headers
  <2>1. CASE UNCHANGED vars
    BY <2>1 DEF vars, LInv
  <2>2. CASE Next
    BY <2>2, NextSound, NextCodec DEF LInv
  <2> QED
    BY <2>1, <2>2
<1>2. /\ Ok(ctx') /\ Typed(ctx') /\ Times(ctx') /\ KeyIds(ctx') /\ Rotation(ctx')
      /\ Shown(ctx', calls'.failures) /\ Told(ctx', heard')
  BY <1>1 DEF Sound, Listing
<1>3. Ok(ctx)'
  BY <1>1, <1>2 DEF Ok, IsCtx, RingOk
<1>4. Typed(ctx)'
  BY <1>1, <1>2 DEF Typed
<1>5. Times(ctx)'
  BY <1>1, <1>2 DEF Times, Short, LeadsTo, Sliced
<1>6. KeyIds(ctx)'
  BY <1>1, <1>2 DEF KeyIds, Written
<1>7. Rotation(ctx)'
  BY <1>1, <1>2 DEF Rotation, Numbered, KeyFor
<1>8. Shown(ctx, calls.failures)'
  BY <1>1, <1>2 DEF Shown
<1>9. Told(ctx, heard)'
  BY <1>2 DEF Told
<1> QED
  BY <1>1, <1>3, <1>4, <1>5, <1>6, <1>7, <1>8, <1>9 DEF LInv, Listing, Sound

LEMMA AlwaysSound == Spec => []LInv
<1>1. Init => LInv
  BY InitSound
<1>2. LInv /\ [Next]_vars => LInv'
  BY StepSound
<1> QED
  BY <1>1, <1>2, PTL DEF Spec

(* Whatever the configuration, the messages, the order of the calls and    *)
(* the failures: the window, the buffer and the clock of the live path     *)
(* keep within their types (TypeOK); above all, audio_live never fills the *)
(* buffer beyond its size, open fragment or not.                           *)
THEOREM LiveTypeCorrect == Spec => []TypeOK
<1>1. LInv => TypeOK
  <2> SUFFICES ASSUME LInv PROVE TypeOK
    OBVIOUS
  <2>1. Ok(ctx) /\ Typed(ctx) /\ Told(ctx, heard)
    BY DEF LInv, Sound, Listing
  <2> QED
    BY <2>1 DEF Ok, RingOk, Typed, Told, TypeOK
<1> QED
  BY <1>1, AlwaysSound, PTL

(* As long as no file operation failed, the playlist on disk shows the     *)
(* window as it is (ListPublished): nothing that happens between two       *)
(* closings changes a listed fragment or the number of the first.          *)
THEOREM PlaylistIsCurrent == Spec => []ListPublished
<1>1. LInv => ListPublished
  BY DEF LInv, Sound, Listing, Shown, ListPublished
<1> QED
  BY <1>1, AlwaysSound, PTL

(* A fragment without a discontinuity mark begins where the one before it  *)
(* in the list ends, which was cut where the slicing says; and none that   *)
(* is listed outlasts the longest duration allowed (Timeline), whatever    *)
(* time stamps the messages have.                                          *)
THEOREM FragmentsFollow == Spec => []Timeline
<1>1. LInv => Timeline
  <2> SUFFICES ASSUME LInv PROVE Timeline
    OBVIOUS
  <2> DEFINE n   == ctx.nfrags + ctx.opened
             all == [i \in 1 .. n |-> GetFrag(ctx, hacf, i - 1)]
  <2>1. hacf \in Configuration /\ Ok(ctx) /\ Typed(ctx) /\ Times(ctx)
    BY DEF LInv, Sound, Listing
  <2>2. ctx.nfrags \in Nat /\ ctx.opened \in {0, 1} /\ n \in Nat
    BY <2>1, Conf DEF Ok, RingOk, Typed
  <2>3. Len(all) = n
    <3>1. all \in [1 .. n -> {GetFrag(ctx, hacf, i - 1) : i \in 1 .. n}]
      OBVIOUS
    <3> HIDE DEF all, n
    <3> QED
      BY <2>2, <3>1, FunctionIsSeq
  <2>4. ASSUME NEW i \in 2 .. n, all[i].discont = 0 PROVE LeadsTo(all[i - 1], all[i].ts)
    <3>1. PICK j \in 1 .. ctx.nfrags - 1 + ctx.opened : i = j + 1
      <4>1. i - 1 \in 1 .. ctx.nfrags - 1 + ctx.opened /\ i = (i - 1) + 1
        BY <2>2
      <4> QED
        BY <4>1
    <3>2. all[i] = GetFrag(ctx, hacf, j) /\ all[i - 1] = GetFrag(ctx, hacf, j - 1)
      <4>1. i \in 1 .. n /\ i - 1 \in 1 .. n /\ i - 1 = j /\ (i - 1) - 1 = j - 1
        BY <2>2, <3>1
      <4>2. PICK m \in 1 .. n : m = i - 1
        BY <4>1
      <4>3. all[i] = GetFrag(ctx, hacf, i - 1) /\ all[m] = GetFrag(ctx, hacf, m - 1)
        BY <4>1
      <4> HIDE DEF all
      <4> QED
        BY <4>1, <4>2, <4>3
    <3> HIDE DEF all, n
    <3>3. GetFrag(ctx, hacf, j).discont = 0
      BY <2>4, <3>2
    <3>4. LeadsTo(GetFrag(ctx, hacf, j - 1), GetFrag(ctx, hacf, j).ts)
      BY <2>1, <3>3 DEF Times
    <3> QED
      BY <3>2, <3>4
  <2>5. ASSUME NEW i \in 1 .. ctx.nfrags PROVE Short(all[i].duration)
    <3>1. i \in 1 .. n /\ i - 1 \in Nat
      BY <2>2
    <3>2. all[i] = ctx.frags[Slot(ctx, hacf, i - 1)]
      BY <3>1 DEF GetFrag
    <3>3. Slot(ctx, hacf, i - 1) \in Slots(hacf)
      BY <2>1, <3>1, SlotsApart DEF Ok
    <3> HIDE DEF all, n
    <3> QED
      BY <2>1, <3>2, <3>3 DEF Times
  <2> QED
    BY <2>3, <2>4, <2>5, Zenon DEF Timeline
<1> QED
  BY <1>1, AlwaysSound, PTL

(* A fragment is encrypted only with a key whose file was made before or   *)
(* could not be made when it was due (then no player gets it), although    *)
(* the first attempt with every key fails; and where a fragment's name is  *)
(* its own number, not rounded, no key serves more than frags_per_key      *)
(* fragments (KeysRotate).                                                 *)
THEOREM KeysAreRotated == Spec => []KeysRotate
<1>1. LInv => KeysRotate
  <2> SUFFICES ASSUME LInv, hacf.keys = 1 PROVE KeysRotate
    BY DEF KeysRotate
  <2>1. hacf \in Configuration /\ Typed(ctx) /\ KeyIds(ctx) /\ Rotation(ctx)
    BY DEF LInv, Sound, Listing
  <2>2. \A i \in 1 .. Len(ctx.closed) : ctx.closed[i].key_id \in ctx.keyfiles \cup ctx.failed
    BY <2>1 DEF KeyIds, Written
  <2>3. ASSUME Numbered, NEW i \in 1 .. Len(ctx.closed) - hacf.frags_per_key
        PROVE  ctx.closed[i + hacf.frags_per_key].key_id # ctx.closed[i].key_id
    <3>1. hacf.frags_per_key \in Nat /\ Len(ctx.closed) \in Nat
      BY <2>1, ConfFacts, ClosedType
    <3>2. PICK j : j = i + hacf.frags_per_key
      OBVIOUS
    <3>3. i \in 1 .. Len(ctx.closed) /\ j \in 1 .. Len(ctx.closed)
      BY <3>1, <3>2
    <3>4. KeyFor(i, ctx.closed[i].key_id) /\ KeyFor(j, ctx.closed[j].key_id)
      BY <2>1, <2>3, <3>3 DEF Rotation
    <3>5. ctx.closed[i].key_id \in Nat /\ ctx.closed[j].key_id \in Nat
      <4>1. ctx.closed[i] \in Frag /\ ctx.closed[j] \in Frag
        BY <2>1, <3>3, ElementOfSeq DEF Typed
      <4> QED
        BY <4>1 DEF Frag
    <3>6. PICK p \in Nat, q \in Nat : p = ctx.closed[i].key_id /\ q = ctx.closed[j].key_id
      BY <3>5
    <3>7. p <= i - 1 /\ j <= q + hacf.frags_per_key - 1
      BY <3>4, <3>6 DEF KeyFor
    <3>8. p # q
      BY <3>1, <3>2, <3>7
    <3> QED
      BY <3>2, <3>6, <3>8
  <2> QED
    BY <2>2, <2>3, Zenon DEF KeysRotate, Numbered
<1> QED
  BY <1>1, AlwaysSound, PTL

(* Every audio message taken since the stream was published is in the      *)
(* fragments or in the buffer, once and in order (AudioOnce), however the  *)
(* messages and the failures to open a fragment come.                      *)
THEOREM AudioIsKept == Spec => []AudioOnce
<1>1. LInv => AudioOnce
  <2> SUFFICES ASSUME LInv PROVE AudioOnce
    OBVIOUS
  <2>1. Sound(ctx, calls.failures, heard)
    BY DEF LInv
  <2>2. Told(ctx, heard)
    BY <2>1 DEF Sound
  <2>3. IsJoin(heard, AllAudio(ctx.segments), ctx.held)
    BY <2>2 DEF Told
  <2> QED
    BY <2>3 DEF IsJoin, AllAudio, AudioOnce
<1> QED
  BY <1>1, AlwaysSound, PTL

-----------------------------------------------------------------------------
(* Reading a playlist. *)

(* What a player makes of a playlist's lines. *)
Reading(n, l, d, e, k) == [sequence |-> n, list |-> l, duration |-> d, discont |-> e, key_id |-> k]

Seen == [id : Nat, duration : Nat, discont : {0, 1}, key_id : Nat]

Readings ==
  [sequence : Nat, list : Seq(Seen), duration : Nat, discont : {0, 1}, key_id : Nat]

Tags == {"MEDIA-SEQUENCE", "TARGETDURATION", "PLAYLIST-TYPE", "DISCONTINUITY", "KEY", "EXTINF", "ts"}
PlaylistLine == [tag : Tags, value : Nat]

(* The fragment that is read. *)
FragRead(d, e, k, id) == [id |-> id, duration |-> d, discont |-> e, key_id |-> k]

LEMMA FragmentRead ==
  ASSUME NEW n, NEW l, NEW d, NEW e, NEW k, NEW id
  PROVE  PlayLine(Reading(n, l, d, e, k), Line("ts", id))
           = Reading(n, Append(l, FragRead(d, e, k, id)), d, 0, k)
  BY DEF PlayLine, Reading, Line, FragRead

LEMMA NumberRead ==
  ASSUME NEW n, NEW l, NEW d, NEW e, NEW k, NEW x
  PROVE  PlayLine(Reading(n, l, d, e, k), Line("MEDIA-SEQUENCE", x)) = Reading(x, l, d, e, k)
  BY DEF PlayLine, Reading, Line

LEMMA KeyRead ==
  ASSUME NEW n, NEW l, NEW d, NEW e, NEW k, NEW x
  PROVE  PlayLine(Reading(n, l, d, e, k), Line("KEY", x)) = Reading(n, l, d, e, x)
  BY DEF PlayLine, Reading, Line

LEMMA DurationRead ==
  ASSUME NEW n, NEW l, NEW d, NEW e, NEW k, NEW x
  PROVE  PlayLine(Reading(n, l, d, e, k), Line("EXTINF", x)) = Reading(n, l, x * 90, e, k)
  BY DEF PlayLine, Reading, Line

LEMMA MarkRead ==
  ASSUME NEW n, NEW l, NEW d, NEW e, NEW k, NEW x
  PROVE  PlayLine(Reading(n, l, d, e, k), Line("DISCONTINUITY", x)) = Reading(n, l, d, 1, k)
  BY DEF PlayLine, Reading, Line

LEMMA OtherRead ==
  ASSUME NEW r, NEW t, t \notin {"MEDIA-SEQUENCE", "KEY", "EXTINF", "DISCONTINUITY", "ts"}, NEW x
  PROVE  PlayLine(r, Line(t, x)) = r
  BY DEF PlayLine, Line

LEMMA ReadingIn ==
  ASSUME NEW n \in Nat, NEW l \in Seq(Seen), NEW d \in Nat, NEW e \in {0, 1}, NEW k \in Nat
  PROVE  Reading(n, l, d, e, k) \in Readings
  BY DEF Reading, Readings

(* What reading any line of a playlist makes of such a state. *)
LEMMA LineRead ==
  ASSUME NEW r \in Readings, NEW line \in PlaylistLine
  PROVE  PlayLine(r, line) \in Readings
<1>1. PICK n \in Nat, l \in Seq(Seen), d \in Nat, e \in {0, 1}, k \in Nat : r = Reading(n, l, d, e, k)
  BY DEF Readings, Reading
<1>2. PICK t \in Tags, x \in Nat : line = Line(t, x)
  BY DEF PlaylistLine, Line
<1>3. CASE t = "MEDIA-SEQUENCE"
  <2>1. PlayLine(r, line) = Reading(x, l, d, e, k)
    BY <1>1, <1>2, <1>3, NumberRead
  <2> QED
    BY <2>1, ReadingIn
<1>4. CASE t = "KEY"
  <2>1. PlayLine(r, line) = Reading(n, l, d, e, x)
    BY <1>1, <1>2, <1>4, KeyRead
  <2> QED
    BY <2>1, ReadingIn
<1>5. CASE t = "EXTINF"
  <2>1. PICK m \in Nat : m = x * 90
    OBVIOUS
  <2>2. PlayLine(r, line) = Reading(n, l, m, e, k)
    BY <1>1, <1>2, <1>5, <2>1, DurationRead
  <2> QED
    BY <2>2, ReadingIn
<1>6. CASE t = "DISCONTINUITY"
  <2>1. PlayLine(r, line) = Reading(n, l, d, 1, k)
    BY <1>1, <1>2, <1>6, MarkRead
  <2> QED
    BY <2>1, ReadingIn
<1>7. CASE t = "ts"
  <2>1. PICK f \in Seen : f = FragRead(d, e, k, x)
    BY DEF FragRead, Seen
  <2>2. PICK m \in Seq(Seen) : m = Append(l, f)
    BY AppendProperties
  <2>3. PlayLine(r, line) = Reading(n, m, d, 0, k)
    BY <1>1, <1>2, <1>7, <2>1, <2>2, FragmentRead
  <2> QED
    BY <2>3, ReadingIn
<1>8. CASE t \notin {"MEDIA-SEQUENCE", "KEY", "EXTINF", "DISCONTINUITY", "ts"}
  BY <1>2, <1>8, OtherRead
<1> QED
  BY <1>3, <1>4, <1>5, <1>6, <1>7, <1>8

(* The loop over the lines, line after line. *)
Reads(lines, r, q) ==
  \E g : /\ g[0] = r /\ g[Len(lines)] = q
         /\ \A k \in 1 .. Len(lines) : g[k] = PlayLine(g[k - 1], lines[k])

Unread == Reading(0, <<>>, 0, 0, 0)

LEMMA PlayedReads ==
  ASSUME NEW lines \in Seq(PlaylistLine)
  PROVE  Reads(lines, Unread, Played(lines))
<1> DEFINE n    == Len(lines)
           D    == Readings
           base == Unread
           st   == [i \in 1 .. n |-> [r \in D |-> PlayLine(r, lines[i])]]
           Is(g) == g = [s \in SUBSET (1 .. n) |->
                           IF s = {} THEN base ELSE PlayLine(g[s \ {Max(s)}], lines[Max(s)])]
           it   == CHOOSE g : Is(g)
<1>1. n \in Nat /\ DOMAIN lines = 1 .. n /\ \A i \in 1 .. n : lines[i] \in PlaylistLine
  OBVIOUS
<1>2. base \in D
  <2>1. <<>> \in Seq(Seen) /\ 0 \in Nat /\ 0 \in {0, 1}
    OBVIOUS
  <2> QED
    BY <2>1, ReadingIn, Zenon DEF Unread
<1>3. Played(lines) = it[1 .. n]
  BY <1>1, Zenon DEF Played, FoldLeft, MapThenFoldSet, Unread, Reading
<1> HIDE DEF base, D
<1>4. st \in [1 .. n -> [D -> D]]
  <2>1. \A i \in 1 .. n, r \in D : PlayLine(r, lines[i]) \in D
    BY <1>1, LineRead DEF D
  <2> QED
    BY <2>1
<1>5. \A i \in 1 .. n, r \in D : st[i][r] = PlayLine(r, lines[i])
  OBVIOUS
<1> HIDE DEF n, st
<1>6. \E g : Is(g)
  <2>1. PICK g : FoldTo(g, base, st, n, D)
    BY <1>1, <1>2, <1>4, FoldsExist
  <2>2. g = [s \in SUBSET (1 .. n) |-> IF s = {} THEN base ELSE st[Max(s)][g[s \ {Max(s)}]]]
    BY <2>1 DEF FoldTo, Folds
  <2>3. ASSUME NEW s \in SUBSET (1 .. n), s # {}
        PROVE  st[Max(s)][g[s \ {Max(s)}]] = PlayLine(g[s \ {Max(s)}], lines[Max(s)])
    <3>1. Max(s) \in 1 .. n /\ g[s \ {Max(s)}] \in D
      BY <2>1, <2>3 DEF FoldTo
    <3> QED
      BY <1>5, <3>1
  <2>4. [s \in SUBSET (1 .. n) |-> IF s = {} THEN base ELSE st[Max(s)][g[s \ {Max(s)}]]]
          = [s \in SUBSET (1 .. n) |->
               IF s = {} THEN base ELSE PlayLine(g[s \ {Max(s)}], lines[Max(s)])]
    BY <2>3
  <2> QED
    BY <2>2, <2>4
<1>7. Is(it)
  BY <1>6, Zenon
<1> HIDE DEF it
<1>8. it[{}] = base
  BY <1>7
<1>9. Iterates(it, base, st, n, D)
  BY <1>5, <1>7, <1>8 DEF Iterates
<1>10. PICK g : Steps(g, base, st, n, D) /\ g[n] = it[1 .. n]
  BY <1>1, <1>2, <1>4, <1>9, FoldSteps
<1>11. g[n] \in D /\ g[0] = base
  BY <1>1, <1>10 DEF Steps
<1>12. ASSUME NEW k \in 1 .. n PROVE g[k] = PlayLine(g[k - 1], lines[k])
  <2>1. k - 1 \in 0 .. n /\ g[k] = st[k][g[k - 1]] /\ g \in [0 .. n -> D]
    BY <1>1, <1>10 DEF Steps
  <2> QED
    BY <1>5, <2>1
<1>13. Reads(lines, base, g[n])
  BY <1>11, <1>12 DEF Reads, n
<1> QED
  BY <1>3, <1>10, <1>11, <1>13 DEF D, base

LEMMA ReadsOne ==
  ASSUME NEW r, NEW lines, NEW q, Reads(lines, r, q), NEW p, Reads(lines, r, p), Len(lines) \in Nat
  PROVE  p = q
<1>1. PICK n \in Nat : n = Len(lines)
  OBVIOUS
<1>2. PICK g : /\ g[0] = r /\ g[n] = q
               /\ \A k \in 1 .. n : g[k] = PlayLine(g[k - 1], lines[k])
  BY <1>1 DEF Reads
<1>3. PICK h : /\ h[0] = r /\ h[n] = p
               /\ \A k \in 1 .. n : h[k] = PlayLine(h[k - 1], lines[k])
  BY <1>1 DEF Reads
<1> DEFINE S == {k \in Nat : k <= n => g[k] = h[k]}
<1>4. 0 \in S
  BY <1>2, <1>3
<1>5. ASSUME NEW k \in Nat, k \in S PROVE k + 1 \in S
  <2> SUFFICES ASSUME k + 1 <= n PROVE g[k + 1] = h[k + 1]
    OBVIOUS
  <2>1. k + 1 \in 1 .. n /\ (k + 1) - 1 = k /\ g[k] = h[k]
    BY <1>5
  <2> QED
    BY <1>2, <1>3, <2>1
<1>6. n \in S
  <2> HIDE DEF S
  <2>1. Nat \subseteq S
    BY <1>4, <1>5, Induction
  <2> QED
    BY <2>1
<1> QED
  BY <1>2, <1>3, <1>6

LEMMA ReadsOn ==
  ASSUME NEW S, NEW a \in Seq(S), NEW b \in Seq(S), NEW r, NEW q, NEW p,
         Reads(a, r, q), Reads(b, q, p)
  PROVE  Reads(a \o b, r, p)
<1>1. PICK m \in Nat, n \in Nat : m = Len(a) /\ n = Len(b)
  OBVIOUS
<1>2. PICK c \in Seq(S) : c = a \o b
  BY ConcatProperties
<1>3. /\ Len(c) = m + n
      /\ \A k \in 1 .. m : c[k] = a[k]
      /\ \A k \in m + 1 .. m + n : c[k] = b[k - m]
  BY <1>1, <1>2
<1>4. PICK g : /\ g[0] = r /\ g[m] = q
               /\ \A k \in 1 .. m : g[k] = PlayLine(g[k - 1], a[k])
  BY <1>1 DEF Reads
<1>5. PICK h : /\ h[0] = q /\ h[n] = p
               /\ \A k \in 1 .. n : h[k] = PlayLine(h[k - 1], b[k])
  BY <1>1 DEF Reads
<1> DEFINE f == [k \in 0 .. m + n |-> IF k <= m THEN g[k] ELSE h[k - m]]
<1>6. f[0] = r /\ f[m + n] = p
  <2>1. 0 \in 0 .. m + n /\ m + n \in 0 .. m + n /\ (m + n) - m = n
    BY <1>1
  <2>2. n = 0 => f[m + n] = g[m]
    BY <2>1
  <2>3. n # 0 => f[m + n] = h[n]
    BY <2>1
  <2> QED
    BY <1>4, <1>5, <2>1, <2>2, <2>3
<1>7. ASSUME NEW k \in 1 .. m + n PROVE f[k] = PlayLine(f[k - 1], c[k])
  <2>1. k \in 0 .. m + n /\ k - 1 \in 0 .. m + n
    BY <1>1
  <2>2. CASE k <= m
    <3>1. f[k] = g[k] /\ f[k - 1] = g[k - 1] /\ k \in 1 .. m
      BY <2>1, <2>2
    <3> QED
      BY <1>3, <1>4, <3>1
  <2>3. CASE k > m
    <3>1. f[k] = h[k - m] /\ k - m \in 1 .. n /\ c[k] = b[k - m]
      <4>1. k - m \in 1 .. n /\ k \in m + 1 .. m + n /\ ~(k <= m)
        BY <1>1, <2>3
      <4> QED
        BY <1>3, <2>1, <4>1
    <3>2. f[k - 1] = h[(k - m) - 1]
      <4>1. (k - 1) - m = (k - m) - 1
        OBVIOUS
      <4>2. CASE k - 1 > m
        BY <2>1, <4>1, <4>2
      <4>3. CASE k - 1 = m
        BY <1>4, <1>5, <2>1, <4>1, <4>3
      <4> QED
        BY <2>3, <4>2, <4>3
    <3> QED
      BY <1>5, <3>1, <3>2
  <2> QED
    BY <2>2, <2>3
<1> HIDE DEF f
<1>8. Reads(c, r, p)
  BY <1>3, <1>6, <1>7 DEF Reads
<1> QED
  BY <1>2, <1>8

LEMMA ReadsNone ==
  ASSUME NEW r
  PROVE  Reads(<<>>, r, r)
<1>1. [k \in {0} |-> r][0] = r /\ Len(<<>>) = 0 /\ 1 .. 0 = {}
  OBVIOUS
<1> QED
  BY <1>1 DEF Reads

LEMMA ReadsLine ==
  ASSUME NEW r, NEW l
  PROVE  Reads(<<l>>, r, PlayLine(r, l))
<1> DEFINE g == [k \in 0 .. 1 |-> IF k = 0 THEN r ELSE PlayLine(r, l)]
<1>1. g[0] = r /\ g[1] = PlayLine(r, l) /\ Len(<<l>>) = 1 /\ <<l>>[1] = l
  OBVIOUS
<1> HIDE DEF g
<1>2. \A k \in 1 .. 1 : g[k] = PlayLine(g[k - 1], <<l>>[k])
  <2>1. \A k \in 1 .. 1 : k = 1 /\ k - 1 = 0
    OBVIOUS
  <2> QED
    BY <1>1, <2>1
<1> QED
  BY <1>1, <1>2 DEF Reads

-----------------------------------------------------------------------------
(* Writing one. *)

(* Rounding to milliseconds. *)
LEMMA RoundedIn ==
  ASSUME NEW d \in Nat
  PROVE  /\ Rounded(d) \in Nat /\ Rounded(d) * 90 \in Nat
         /\ Rounded(d) * 90 - d \in -45 .. 45
<1>1. PICK x \in Nat : x = d + 45
  OBVIOUS
<1>2. PICK y \in Nat : y = x \div 90
  OBVIOUS
<1>3. x = 90 * y + (x % 90) /\ (x % 90) \in 0 .. 89
  BY <1>2, Division
<1> QED
  BY <1>1, <1>2, <1>3 DEF Rounded

LEMMA LineIn ==
  ASSUME NEW t \in Tags, NEW x \in Nat
  PROVE  Line(t, x) \in PlaylistLine /\ <<Line(t, x)>> \in Seq(PlaylistLine)
<1>1. Line(t, x) \in PlaylistLine
  BY DEF Line, PlaylistLine
<1>2. \A l \in PlaylistLine : <<l>> \in Seq(PlaylistLine)
  OBVIOUS
<1> QED
  BY <1>1, <1>2

LEMMA TwoLines ==
  ASSUME NEW a, NEW b
  PROVE  <<a>> \o <<b>> = <<a, b>>
<1>1. PICK S : a \in S /\ b \in S
  <2>1. a \in {a, b} /\ b \in {a, b}
    OBVIOUS
  <2> QED
    BY <2>1
<1>2. <<a>> \in Seq(S) /\ <<b>> \in Seq(S) /\ <<a, b>> \in Seq(S)
  BY <1>1
<1>3. /\ Len(<<a>>) = 1 /\ <<a>>[1] = a /\ Len(<<b>>) = 1 /\ <<b>>[1] = b
      /\ Len(<<a, b>>) = 2 /\ <<a, b>>[1] = a /\ <<a, b>>[2] = b
  OBVIOUS
<1>4. PICK x \in Seq(S), y \in Seq(S), s \in Seq(S) :
        /\ x = <<a>> /\ Len(x) = 1 /\ x[1] = a /\ y = <<b>> /\ Len(y) = 1 /\ y[1] = b
        /\ s = <<a, b>> /\ Len(s) = 2 /\ s[1] = a /\ s[2] = b
  BY <1>2, <1>3
<1>5. PICK c : c = x \o y
  OBVIOUS
<1>6. Len(c) = 2 /\ c[1] = a /\ c[2] = b /\ c \in Seq(S)
  BY <1>4, <1>5, ConcatProperties
<1>7. \A i \in 1 .. 2 : c[i] = s[i]
  BY <1>4, <1>6
<1>8. c = s
  BY <1>4, <1>6, <1>7, SeqEqual
<1> QED
  BY <1>4, <1>5, <1>8

(* The longest duration is a number. *)
LEMMA MaxFragType ==
  ASSUME hacf \in Configuration, NEW listed \in Seq(Frag)
  PROVE  MaxFrag(hacf, listed) \in Nat
<1> DEFINE n    == Len(listed)
           D    == Nat
           base == hacf.fraglen \div 1000
           st   == [i \in 1 .. n |-> [m \in D |-> Longer(m, listed[i])]]
           Is(g) == g = [s \in SUBSET (1 .. n) |->
                           IF s = {} THEN base ELSE Longer(g[s \ {Max(s)}], listed[Max(s)])]
           it   == CHOOSE g : Is(g)
<1>1. n \in Nat /\ DOMAIN listed = 1 .. n /\ \A i \in 1 .. n : listed[i] \in Frag
  OBVIOUS
<1>2. base \in D
  BY ConfFacts
<1>3. MaxFrag(hacf, listed) = it[1 .. n]
  <2>1. MaxFrag(hacf, listed) = FoldLeft(Longer, base, listed)
    BY DEF MaxFrag
  <2> HIDE DEF base
  <2> QED
    BY <1>1, <2>1, Zenon DEF FoldLeft, MapThenFoldSet
<1> HIDE DEF base
<1>4. \A m \in D, f \in Frag : Longer(m, f) \in Nat
  <2> SUFFICES ASSUME NEW m \in D, NEW f \in Frag PROVE Longer(m, f) \in Nat
    OBVIOUS
  <2>1. f.duration \in Nat
    BY DEF Frag
  <2>2. (f.duration + 45000) \div 90000 \in Nat
    BY <2>1
  <2> QED
    BY <2>2 DEF Longer
<1>5. /\ st \in [1 .. n -> [D -> D]]
      /\ \A i \in 1 .. n, m \in D : st[i][m] = Longer(m, listed[i])
  BY <1>1, <1>4
<1> HIDE DEF n, st, D
<1>6. \E g : Is(g)
  <2>1. PICK g : FoldTo(g, base, st, n, D)
    BY <1>1, <1>2, <1>5, FoldsExist
  <2>2. g = [s \in SUBSET (1 .. n) |-> IF s = {} THEN base ELSE st[Max(s)][g[s \ {Max(s)}]]]
    BY <2>1 DEF FoldTo, Folds
  <2>3. ASSUME NEW s \in SUBSET (1 .. n), s # {}
        PROVE  st[Max(s)][g[s \ {Max(s)}]] = Longer(g[s \ {Max(s)}], listed[Max(s)])
    <3>1. Max(s) \in 1 .. n /\ g[s \ {Max(s)}] \in D
      BY <2>1, <2>3 DEF FoldTo
    <3> QED
      BY <1>5, <3>1
  <2>4. [s \in SUBSET (1 .. n) |-> IF s = {} THEN base ELSE st[Max(s)][g[s \ {Max(s)}]]]
          = [s \in SUBSET (1 .. n) |->
               IF s = {} THEN base ELSE Longer(g[s \ {Max(s)}], listed[Max(s)])]
    BY <2>3
  <2> QED
    BY <2>2, <2>4
<1>7. Is(it)
  BY <1>6, Zenon
<1> HIDE DEF it
<1>8. it[{}] = base
  BY <1>7
<1>9. Iterates(it, base, st, n, D)
  BY <1>5, <1>7, <1>8 DEF Iterates
<1>10. PICK g : Steps(g, base, st, n, D) /\ g[n] = it[1 .. n]
  BY <1>1, <1>2, <1>5, <1>9, FoldSteps
<1>11. g[n] \in D
  BY <1>1, <1>10 DEF Steps
<1> QED
  BY <1>3, <1>10, <1>11 DEF D

(* A listed fragment, as it is written. *)
LEMMA FragLinesType ==
  ASSUME NEW w, NEW i, GetFrag(w, hacf, i) \in Frag
  PROVE  /\ FragLines(w, hacf, i) \in Seq(PlaylistLine)
         /\ LET f == GetFrag(w, hacf, i)
                a == IF f.discont = 1 THEN <<Line("DISCONTINUITY", 0)>> ELSE <<>>
                b == KeyLine(w, hacf, i)
                c == <<Line("EXTINF", Rounded(f.duration))>>
                d == <<Line("ts", f.id)>>
            IN  /\ {a, b, c, d} \subseteq Seq(PlaylistLine)
                /\ FragLines(w, hacf, i) = (a \o b) \o (c \o d)
<1> DEFINE f == GetFrag(w, hacf, i)
           L == PlaylistLine
           a == IF f.discont = 1 THEN <<Line("DISCONTINUITY", 0)>> ELSE <<>>
           b == KeyLine(w, hacf, i)
           c == <<Line("EXTINF", Rounded(f.duration))>>
           d == <<Line("ts", f.id)>>
<1>1. f.id \in Nat /\ f.key_id \in Nat /\ Rounded(f.duration) \in Nat
  BY RoundedIn DEF Frag
<1>2. <<>> \in Seq(L)
  OBVIOUS
<1>20. {"DISCONTINUITY", "KEY", "EXTINF", "ts"} \subseteq Tags
  BY DEF Tags
<1>3. a \in Seq(L)
  <2>1. <<Line("DISCONTINUITY", 0)>> \in Seq(L)
    BY <1>20, LineIn
  <2> QED
    BY <1>2, <2>1
<1>4. b \in Seq(L)
  <2>1. <<Line("KEY", f.key_id)>> \in Seq(L)
    BY <1>1, <1>20, LineIn
  <2> QED
    BY <1>2, <2>1 DEF KeyLine
<1>5. c \in Seq(L) /\ d \in Seq(L)
  BY <1>1, <1>20, LineIn
<1>6. c \o d = <<Line("EXTINF", Rounded(f.duration)), Line("ts", f.id)>>
  BY TwoLines, Zenon
<1>7. FragLines(w, hacf, i) = (a \o b) \o (c \o d)
  BY <1>6 DEF FragLines
<1> HIDE DEF a, b, c, d, L
<1>8. FragLines(w, hacf, i) \in Seq(L)
  BY <1>3, <1>4, <1>5, <1>7
<1> QED
  BY <1>3, <1>4, <1>5, <1>7, <1>8 DEF a, b, c, d, L

(* What the property asks of a fragment that is read. *)
Agrees(x, f) ==
  /\ x.id = f.id /\ x.discont = f.discont
  /\ x.duration - f.duration \in -45 .. 45
  /\ hacf.keys = 1 => x.key_id = f.key_id

(* The window's fragments before n were read. *)
Got(w, r, n) ==
  \E l \in Seq(Seen), d \in Nat, k \in Nat :
    /\ r = Reading(w.frag, l, d, 0, k) /\ Len(l) = n
    /\ \A i \in 0 .. n - 1 : Agrees(l[i + 1], GetFrag(w, hacf, i))
    /\ hacf.keys = 1 /\ n > 0 => k = GetFrag(w, hacf, n - 1).key_id

(* A window that can be written. *)
Writable(w) == Ok(w) /\ w.frags \in [Slots(hacf) -> Frag]

LEMMA GotNext ==
  ASSUME hacf \in Configuration, NEW w, Writable(w), NEW n \in 0 .. w.nfrags - 1, NEW r, Got(w, r, n)
  PROVE  \E q : Reads(FragLines(w, hacf, n), r, q) /\ Got(w, q, n + 1)
<1> DEFINE f == GetFrag(w, hacf, n)
           L == PlaylistLine
<1>1. PICK l \in Seq(Seen), d \in Nat, k \in Nat :
        /\ r = Reading(w.frag, l, d, 0, k) /\ Len(l) = n
        /\ \A i \in 0 .. n - 1 : Agrees(l[i + 1], GetFrag(w, hacf, i))
        /\ hacf.keys = 1 /\ n > 0 => k = GetFrag(w, hacf, n - 1).key_id
  BY DEF Got
<1>2. /\ w.nfrags \in Nat /\ w.nfrags <= hacf.winfrags /\ hacf.winfrags \in Nat /\ n \in Nat
      /\ n + 1 > 0 /\ (n + 1) - 1 = n
  BY Conf DEF Writable, Ok, RingOk
<1>3. Slot(w, hacf, n) \in Slots(hacf)
  BY <1>2, SlotsApart DEF Writable, Ok
<1>4. f \in Frag
  BY <1>3 DEF Writable, GetFrag
<1>5. f.id \in Nat /\ f.key_id \in Nat /\ f.discont \in {0, 1} /\ f.duration \in Nat
  BY <1>4 DEF Frag
<1> HIDE DEF f
<1>6. PICK m \in Nat : m = Rounded(f.duration) /\ m * 90 \in Nat /\ m * 90 - f.duration \in -45 .. 45
  BY <1>5, RoundedIn
<1> DEFINE discont == IF f.discont = 1 THEN <<Line("DISCONTINUITY", 0)>> ELSE <<>>
           key     == KeyLine(w, hacf, n)
           ext     == <<Line("EXTINF", m)>>
           ts      == <<Line("ts", f.id)>>
           v(a, e, j) == Reading(w.frag, l, a, e, j)
<1>7. /\ discont \in Seq(L) /\ key \in Seq(L) /\ ext \in Seq(L) /\ ts \in Seq(L)
      /\ FragLines(w, hacf, n) = (discont \o key) \o (ext \o ts)
  BY <1>4, <1>6, FragLinesType, Zenon DEF f
<1>8. Reads(discont, r, v(d, f.discont, k))
  <2>1. CASE f.discont = 1
    <3>1. PlayLine(r, Line("DISCONTINUITY", 0)) = v(d, 1, k)
      BY <1>1, MarkRead
    <3> QED
      BY <2>1, <3>1, ReadsLine
  <2>2. CASE f.discont = 0
    BY <1>1, <2>2, ReadsNone
  <2> QED
    BY <1>5, <2>1, <2>2
<1>9. PICK j \in Nat : Reads(key, v(d, f.discont, k), v(d, f.discont, j))
                       /\ (hacf.keys = 1 => j = f.key_id)
  <2>1. CASE key = <<>>
    <3>1. hacf.keys = 1 => k = f.key_id
      <4> SUFFICES ASSUME hacf.keys = 1 PROVE k = f.key_id
        OBVIOUS
      <4>1. n # 0 /\ f.key_id = GetFrag(w, hacf, n - 1).key_id
        BY <2>1 DEF KeyLine, f
      <4> QED
        BY <1>1, <1>2, <4>1
    <3> QED
      BY <2>1, <3>1, ReadsNone
  <2>2. CASE key = <<Line("KEY", f.key_id)>>
    <3>1. PlayLine(v(d, f.discont, k), Line("KEY", f.key_id)) = v(d, f.discont, f.key_id)
      BY KeyRead
    <3> QED
      BY <1>5, <2>2, <3>1, ReadsLine
  <2> QED
    BY <2>1, <2>2 DEF KeyLine, f
<1>10. Reads(ext, v(d, f.discont, j), v(m * 90, f.discont, j))
  BY DurationRead, ReadsLine
<1> DEFINE g == FragRead(m * 90, f.discont, j, f.id)
           y == Append(l, g)
           q == Reading(w.frag, y, m * 90, 0, j)
<1>11. g \in Seen
  BY <1>5, <1>6 DEF FragRead, Seen
<1>12. Agrees(g, f)
  BY <1>5, <1>6, <1>9 DEF Agrees, FragRead
<1> HIDE DEF g
<1>13. /\ y \in Seq(Seen) /\ Len(y) = n + 1 /\ y[n + 1] = g
       /\ \A i \in 1 .. n : y[i] = l[i]
  BY <1>1, <1>11, AppendProperties
<1>14. Reads(ts, v(m * 90, f.discont, j), q)
  <2>1. PlayLine(v(m * 90, f.discont, j), Line("ts", f.id)) = q
    BY FragmentRead DEF g
  <2> QED
    BY <2>1, ReadsLine
<1> HIDE DEF discont, key, ext, ts, L, q, v
<1>15. Reads(discont \o key, r, v(d, f.discont, j))
  BY <1>7, <1>8, <1>9, ReadsOn
<1>16. Reads(ext \o ts, v(d, f.discont, j), q)
  BY <1>7, <1>10, <1>14, ReadsOn
<1>17. discont \o key \in Seq(L) /\ ext \o ts \in Seq(L)
  BY <1>7
<1>18. Reads(FragLines(w, hacf, n), r, q)
  BY <1>7, <1>15, <1>16, <1>17, ReadsOn
<1> HIDE DEF y
<1>19. ASSUME NEW i \in 0 .. n PROVE Agrees(y[i + 1], GetFrag(w, hacf, i))
  <2>1. CASE i = n
    BY <1>12, <1>13, <2>1 DEF f
  <2>2. CASE i # n
    <3>1. i \in 0 .. n - 1 /\ i + 1 \in 1 .. n
      BY <1>2, <2>2
    <3> QED
      BY <1>1, <1>13, <3>1
  <2> QED
    BY <2>1, <2>2
<1>20. Got(w, q, n + 1)
  BY <1>2, <1>6, <1>9, <1>13, <1>19 DEF Got, q, f
<1> QED
  BY <1>18, <1>20

-----------------------------------------------------------------------------
(* Reading what was written. *)

(* The lines of the first n fragments. *)
LinesOf(w, n) == [i \in 1 .. n |-> FragLines(w, hacf, i - 1)]

LEMMA LinesGrow ==
  ASSUME NEW w, NEW n \in Nat, \A i \in 0 .. n : FragLines(w, hacf, i) \in Seq(PlaylistLine)
  PROVE  /\ LinesOf(w, n) \in Seq(Seq(PlaylistLine))
         /\ LinesOf(w, n + 1) = Append(LinesOf(w, n), FragLines(w, hacf, n))
<1> DEFINE L == Seq(PlaylistLine)
           a == LinesOf(w, n)
           b == LinesOf(w, n + 1)
<1>1. \A i \in 1 .. n + 1 : FragLines(w, hacf, i - 1) \in L
  <2>1. \A i \in 1 .. n + 1 : i - 1 \in 0 .. n
    OBVIOUS
  <2> HIDE DEF L
  <2> QED
    BY <2>1 DEF L
<1> HIDE DEF L
<1>2. a \in [1 .. n -> L] /\ b \in [1 .. n + 1 -> L]
      /\ (\A i \in 1 .. n : a[i] = b[i]) /\ b[n + 1] = FragLines(w, hacf, n)
  <2>1. 1 .. n \subseteq 1 .. n + 1 /\ n + 1 \in 1 .. n + 1 /\ (n + 1) - 1 = n
    OBVIOUS
  <2> QED
    BY <1>1, <2>1 DEF LinesOf
<1> HIDE DEF a, b
<1>3. a \in Seq(L) /\ Len(a) = n /\ b \in Seq(L) /\ Len(b) = n + 1
  BY <1>2, FunctionIsSeq
<1>4. PICK x \in L : x = FragLines(w, hacf, n)
  <2>1. n + 1 \in 1 .. n + 1 /\ (n + 1) - 1 = n
    OBVIOUS
  <2> QED
    BY <1>1, <2>1
<1>5. b = Append(a, x)
  <2>1. /\ Append(a, x) \in Seq(L) /\ Len(Append(a, x)) = n + 1
        /\ \A i \in 1 .. n : Append(a, x)[i] = a[i]
        /\ Append(a, x)[n + 1] = x
    BY <1>3, AppendProperties
  <2>2. \A i \in 1 .. n + 1 : Append(a, x)[i] = b[i]
    <3>1. \A i \in 1 .. n + 1 : i = n + 1 \/ i \in 1 .. n
      OBVIOUS
    <3> QED
      BY <1>2, <1>4, <2>1, <3>1
  <2> QED
    BY <1>3, <2>1, <2>2, SeqEqual
<1> QED
  BY <1>3, <1>4, <1>5 DEF a, b, L

LEMMA WritableLines ==
  ASSUME hacf \in Configuration, NEW w, Writable(w)
  PROVE  \A i \in Nat : FragLines(w, hacf, i) \in Seq(PlaylistLine)
<1> SUFFICES ASSUME NEW i \in Nat PROVE FragLines(w, hacf, i) \in Seq(PlaylistLine)
  OBVIOUS
<1>1. Slot(w, hacf, i) \in Slots(hacf)
  BY SlotsApart DEF Writable, Ok
<1>2. GetFrag(w, hacf, i) \in Frag
  BY <1>1 DEF Writable, GetFrag
<1> QED
  BY <1>2, FragLinesType

(* All fragments of the window are read, one after the other. *)
LEMMA GotAll ==
  ASSUME hacf \in Configuration, NEW w, Writable(w), NEW r, Got(w, r, 0)
  PROVE  /\ FlattenSeq(LinesOf(w, w.nfrags)) \in Seq(PlaylistLine)
         /\ \E q : Reads(FlattenSeq(LinesOf(w, w.nfrags)), r, q) /\ Got(w, q, w.nfrags)
<1> DEFINE L == PlaylistLine
           F(n) == FlattenSeq(LinesOf(w, n))
           P(n) == F(n) \in Seq(L) /\ \E q : Reads(F(n), r, q) /\ Got(w, q, n)
           T == {n \in Nat : n <= w.nfrags => P(n)}
<1>1. w.nfrags \in Nat
  BY Conf DEF Writable, Ok, RingOk
<1>2. 0 \in T
  <2>1. LinesOf(w, 0) = <<>>
    BY DEF LinesOf
  <2>2. F(0) = <<>>
    BY <2>1, FlattenEmpty
  <2>3. F(0) \in Seq(L)
    <3>1. <<>> \in Seq(L)
      OBVIOUS
    <3> QED
      BY <2>2, <3>1, Zenon
  <2>4. Reads(F(0), r, r)
    BY <2>2, ReadsNone
  <2> HIDE DEF F, L
  <2> QED
    BY <2>3, <2>4
<1>3. ASSUME NEW n \in Nat, n \in T PROVE n + 1 \in T
  <2> SUFFICES ASSUME n + 1 <= w.nfrags PROVE P(n + 1)
    OBVIOUS
  <2>1. n \in 0 .. w.nfrags - 1 /\ n <= w.nfrags
    BY <1>1
  <2>2. PICK q : F(n) \in Seq(L) /\ Reads(F(n), r, q) /\ Got(w, q, n)
    BY <1>3, <2>1
  <2>3. PICK p : Reads(FragLines(w, hacf, n), q, p) /\ Got(w, p, n + 1)
    BY <2>1, <2>2, GotNext
  <2>4. PICK x \in Seq(L) : x = FragLines(w, hacf, n)
    BY WritableLines
  <2>5. F(n + 1) = F(n) \o x
    <3>1. LinesOf(w, n) \in Seq(Seq(L)) /\ LinesOf(w, n + 1) = Append(LinesOf(w, n), x)
      <4>1. \A i \in 0 .. n : i \in Nat
        OBVIOUS
      <4>2. \A i \in 0 .. n : FragLines(w, hacf, i) \in Seq(PlaylistLine)
        BY <4>1, WritableLines
      <4> QED
        BY <2>4, <4>2, LinesGrow
    <3> HIDE DEF L
    <3> QED
      BY <3>1, FlattenAppend
  <2> HIDE DEF F, L
  <2>6. Reads(F(n) \o x, r, p)
    BY <2>2, <2>3, <2>4, ReadsOn
  <2>7. F(n) \o x \in Seq(L)
    BY <2>2
  <2> QED
    BY <2>3, <2>5, <2>6, <2>7
<1>4. w.nfrags \in T
  <2> HIDE DEF T
  <2>1. Nat \subseteq T
    BY <1>2, <1>3, Induction
  <2> QED
    BY <1>1, <2>1
<1> QED
  BY <1>1, <1>4

(* The playlist is read, line after line. *)
LEMMA PlaylistRead ==
  ASSUME hacf \in Configuration, NEW w, Writable(w)
  PROVE  /\ PlaylistLines(w, hacf) \in Seq(PlaylistLine)
         /\ \E q : Reads(PlaylistLines(w, hacf), Unread, q) /\ Got(w, q, w.nfrags)
<1> DEFINE L     == PlaylistLine
           r     == Reading(w.frag, <<>>, 0, 0, 0)
           first == <<Line("MEDIA-SEQUENCE", w.frag)>>
           max   == MaxFrag(hacf, Listed(w, hacf))
           next  == <<Line("TARGETDURATION", max)>>
           type  == IF hacf.type = "event" THEN <<Line("PLAYLIST-TYPE", 0)>> ELSE <<>>
           rest  == FlattenSeq(LinesOf(w, w.nfrags))
<1>1. IsCtx(w) /\ w.frag \in Nat /\ w.nfrags \in Nat /\ w.frags \in [Slots(hacf) -> Frag]
  BY Conf DEF Writable, Ok, RingOk
<1>2. max \in Nat
  <2>1. \A i \in 1 .. w.nfrags : GetFrag(w, hacf, i - 1) \in Frag
    <3> SUFFICES ASSUME NEW i \in 1 .. w.nfrags PROVE GetFrag(w, hacf, i - 1) \in Frag
      OBVIOUS
    <3>1. i - 1 \in Nat
      BY <1>1
    <3>2. Slot(w, hacf, i - 1) \in Slots(hacf)
      BY <3>1, SlotsApart DEF Writable, Ok
    <3> QED
      BY <1>1, <3>2 DEF GetFrag
  <2>2. Listed(w, hacf) \in Seq(Frag)
    BY <2>1, ListedIsSeq DEF Writable
  <2> QED
    BY <2>2, MaxFragType
<1> HIDE DEF max
<1>3. {"MEDIA-SEQUENCE", "TARGETDURATION", "PLAYLIST-TYPE"} \subseteq Tags
  BY DEF Tags
<1>4. first \in Seq(L) /\ next \in Seq(L)
  BY <1>1, <1>2, <1>3, LineIn
<1>5. type \in Seq(L)
  <2>1. <<Line("PLAYLIST-TYPE", 0)>> \in Seq(L)
    BY <1>3, LineIn
  <2> QED
    BY <2>1
<1>6. PlaylistLines(w, hacf) = ((first \o next) \o type) \o rest
  <2>1. first \o next = <<Line("MEDIA-SEQUENCE", w.frag), Line("TARGETDURATION", max)>>
    BY TwoLines, Zenon
  <2> QED
    BY <2>1 DEF PlaylistLines, LinesOf, max
<1>8. Reads(first, Unread, r)
  <2>1. PlayLine(Unread, Line("MEDIA-SEQUENCE", w.frag)) = r
    BY NumberRead DEF Unread
  <2> HIDE DEF r
  <2> QED
    BY <2>1, ReadsLine
<1> HIDE DEF r
<1>9. Reads(next, r, r)
  <2>1. PlayLine(r, Line("TARGETDURATION", max)) = r
    BY OtherRead
  <2> QED
    BY <2>1, ReadsLine
<1>10. Reads(type, r, r)
  <2>1. PlayLine(r, Line("PLAYLIST-TYPE", 0)) = r
    BY OtherRead
  <2> QED
    BY <2>1, ReadsLine, ReadsNone
<1>11. Got(w, r, 0)
  <2>1. 0 .. 0 - 1 = {} /\ <<>> \in Seq(Seen) /\ Len(<<>>) = 0
    OBVIOUS
  <2>2. PICK l \in Seq(Seen), d \in Nat, k \in Nat : l = <<>> /\ Len(l) = 0 /\ d = 0 /\ k = 0
    BY <2>1
  <2>3. r = Reading(w.frag, l, d, 0, k)
    BY <2>2 DEF r
  <2>4. \A i \in 0 .. 0 - 1 : Agrees(l[i + 1], GetFrag(w, hacf, i))
    BY <2>1
  <2>5. hacf.keys = 1 /\ 0 > 0 => k = GetFrag(w, hacf, 0 - 1).key_id
    OBVIOUS
  <2> HIDE DEF r
  <2> QED
    BY <2>2, <2>3, <2>4, <2>5, Zenon DEF Got
<1>12. PICK q : rest \in Seq(L) /\ Reads(rest, r, q) /\ Got(w, q, w.nfrags)
  BY <1>11, GotAll
<1> HIDE DEF first, next, type, rest, L
<1>13. Reads(first \o next, Unread, r) /\ first \o next \in Seq(L)
  BY <1>4, <1>8, <1>9, ReadsOn
<1>20. PICK a \in Seq(L), b \in Seq(L), c \in Seq(L) : a = first \o next /\ b = type /\ c = rest
  BY <1>5, <1>12, <1>13
<1>14. Reads((first \o next) \o type, Unread, r) /\ (first \o next) \o type \in Seq(L)
  <2>1. Reads(a, Unread, r) /\ Reads(b, r, r)
    BY <1>10, <1>13, <1>20
  <2>2. Reads(a \o b, Unread, r)
    BY <2>1, ReadsOn
  <2>3. a \o b \in Seq(L)
    OBVIOUS
  <2> QED
    BY <1>20, <2>2, <2>3, Zenon
<1>21. PICK e \in Seq(L) : e = (first \o next) \o type
  BY <1>14
<1>15. /\ Reads(((first \o next) \o type) \o rest, Unread, q)
       /\ ((first \o next) \o type) \o rest \in Seq(L)
  <2>1. Reads(e, Unread, r) /\ Reads(c, r, q)
    BY <1>12, <1>14, <1>20, <1>21
  <2>2. Reads(e \o c, Unread, q)
    BY <2>1, ReadsOn
  <2>3. e \o c \in Seq(L)
    OBVIOUS
  <2> QED
    BY <1>20, <1>21, <2>2, <2>3, Zenon
<1> QED
  BY <1>6, <1>12, <1>15 DEF L, r

(* A player of the playlist the writer makes has the window                *)
(* (PlayersHaveTheWindow): the fragments it lists, with their names and    *)
(* marks, each with its own key although a key's line stands only where    *)
(* the key changes, and durations to the millisecond.  This is about every *)
(* window the live path can have, whatever was published, cut or lost.     *)
THEOREM PlaylistShowsWindow == Spec => []PlayersHaveTheWindow
<1>1. LInv => PlayersHaveTheWindow
  <2> SUFFICES ASSUME LInv PROVE PlayersHaveTheWindow
    OBVIOUS
  <2> DEFINE lines == PlaylistLines(ctx, hacf)
             seen  == Played(lines)
  <2>1. hacf \in Configuration /\ Ok(ctx) /\ Typed(ctx)
    BY DEF LInv, Sound, Listing
  <2>2. Writable(ctx) /\ ctx.nfrags \in Nat
    BY <2>1, Conf DEF Writable, Typed, Ok, RingOk
  <2>3. PICK q : Reads(lines, Unread, q) /\ Got(ctx, q, ctx.nfrags) /\ lines \in Seq(PlaylistLine)
    BY <2>1, <2>2, PlaylistRead
  <2> HIDE DEF lines
  <2>4. Reads(lines, Unread, seen)
    BY <2>3, PlayedReads
  <2>5. seen = q
    BY <2>3, <2>4, ReadsOne
  <2>6. PICK l \in Seq(Seen), d \in Nat, k \in Nat :
          /\ q = Reading(ctx.frag, l, d, 0, k) /\ Len(l) = ctx.nfrags
          /\ \A i \in 0 .. ctx.nfrags - 1 : Agrees(l[i + 1], GetFrag(ctx, hacf, i))
    BY <2>3 DEF Got
  <2>7. seen.sequence = ctx.frag /\ seen.list = l
    BY <2>5, <2>6 DEF Reading
  <2> HIDE DEF seen
  <2>8. ASSUME NEW i \in 1 .. ctx.nfrags PROVE Agrees(seen.list[i], GetFrag(ctx, hacf, i - 1))
    <3>1. i - 1 \in 0 .. ctx.nfrags - 1 /\ (i - 1) + 1 = i
      BY <2>2
    <3> QED
      BY <2>6, <2>7, <3>1
  <2> QED
    BY <2>6, <2>7, <2>8 DEF PlayersHaveTheWindow, Agrees, seen, lines
<1> QED
  BY <1>1, AlwaysSound, PTL

(* Every picture that is written has one delimiter before its first slice, *)
(* and parameter sets before an IDR slice (PicturesDecodable), whatever    *)
(* the pictures are made of: delimiters and parameter sets of the source,  *)
(* slices and messages in any order.  The sequence headers begin with      *)
(* their one sequence parameter set, and the buffer has room for a         *)
(* delimiter and the sets (Playable).                                      *)
THEOREM PicturesAreDecodable == ASSUME Playable PROVE Spec => []PicturesDecodable
<1>1. LInv => PicturesDecodable
  BY DEF LInv, Sound, Told, Pictured, PicturesDecodable
<1> QED
  BY <1>1, AlwaysSound, PTL
=============================================================================
