-------------------------- MODULE RoomSlicesProofs --------------------------
(***************************************************************************)
(* Lemmas about RoomSlices for any number of games, hosts and arrays: what *)
(* an upsert, a removal and a garbage collection leave in the arrays, in   *)
(* the slices and behind the pointers, and that each does to the lists     *)
(* what Backend says.                                                      *)
(***************************************************************************)
EXTENDS RoomSlices, SequenceTheorems, TLAPS

(* The theorems about Backend, for the lists. *)
BP == INSTANCE BackendProofs WITH serverList <- Lists, natnegList <- [c \in {} |-> << >>],
                                  Cookies <- {}, Peers <- {}, MaxNatnegEntries <- 8

Slice == [array : Arrays, len : Nat \ {0}]

(* Every slice lies within an array of its own and holds rooms. `Good' are *)
(* the rooms that may be registered.                                       *)
Layout(Good) ==
  /\ arrays \in [Arrays -> Seq(Good \cup {Blank})]
  /\ DOMAIN slices \subseteq Games
  /\ \A g \in DOMAIN slices :
       /\ slices[g] \in Slice
       /\ slices[g].len <= Len(arrays[slices[g].array])
       /\ \A i \in 1..slices[g].len : arrays[slices[g].array][i] \in Good
  /\ \A f, g \in DOMAIN slices : slices[f].array = slices[g].array => f = g

(* A cell behind the end of the slice of its array. *)
BehindEnd(a, i) == \E g \in DOMAIN slices : slices[g].array = a /\ slices[g].len < i

\* What a slice's first cells make as a list.
LEMMA PrefixProperties ==
  ASSUME NEW T, NEW S, NEW cells \in Seq(T), NEW len \in 0..Len(cells),
         \A i \in 1..len : cells[i] \in S
  PROVE  /\ SubSeq(cells, 1, len) \in Seq(S)
         /\ Len(SubSeq(cells, 1, len)) = len
         /\ DOMAIN SubSeq(cells, 1, len) = 1..len
         /\ \A i \in 1..len : SubSeq(cells, 1, len)[i] = cells[i]
<1>1. Len(cells) \in Nat
  BY LenProperties
<1>2. /\ SubSeq(cells, 1, len) \in Seq(S)
      /\ Len(SubSeq(cells, 1, len)) = IF 1 <= len THEN len - 1 + 1 ELSE 0
      /\ \A i \in 1..(len - 1 + 1) : SubSeq(cells, 1, len)[i] = cells[1 + i - 1]
  BY <1>1, SubSeqProperties
<1>3. Len(SubSeq(cells, 1, len)) = len
  BY <1>1, <1>2
<1>4. DOMAIN SubSeq(cells, 1, len) = 1..len
  BY <1>2, <1>3, LenProperties
<1>5. ASSUME NEW i \in 1..len
      PROVE  SubSeq(cells, 1, len)[i] = cells[i]
  <2>1. i \in 1..(len - 1 + 1) /\ 1 + i - 1 = i
    BY <1>1
  <2> QED
    BY <1>2, <2>1
<1> QED
  BY <1>2, <1>3, <1>4, <1>5

\* The list of a game is what lies in its slice.
LEMMA ListProperties ==
  ASSUME NEW Good, Layout(Good), NEW g \in DOMAIN slices
  PROVE  /\ DOMAIN Lists = DOMAIN slices
         /\ Lists[g] = SubSeq(arrays[slices[g].array], 1, slices[g].len)
         /\ Lists[g] \in Seq(Good)
         /\ Len(Lists[g]) = slices[g].len
         /\ DOMAIN Lists[g] = 1..slices[g].len
         /\ \A i \in 1..slices[g].len : Lists[g][i] = arrays[slices[g].array][i]
<1>1. Lists[g] = SubSeq(arrays[slices[g].array], 1, slices[g].len)
  BY DEF Lists
<1>2. /\ arrays[slices[g].array] \in Seq(Good \cup {Blank})
      /\ slices[g].len \in 0..Len(arrays[slices[g].array])
      /\ \A i \in 1..slices[g].len : arrays[slices[g].array][i] \in Good
  BY LenProperties DEF Layout, Slice
<1> QED
  BY <1>1, <1>2, PrefixProperties DEF Lists

\* The index of a registered session points into its slice, at its room
\* (backend.go:103-118).
LEMMA IndexProperties ==
  ASSUME NEW Good, Layout(Good), BP!RoomInv, NEW g, NEW s, B!Indexed(g, s)
  PROVE  /\ g \in DOMAIN slices
         /\ sessionIdx[g][s] \in 1..slices[g].len
         /\ sessionIdx[g][s] \in 1..Len(arrays[slices[g].array])
         /\ slices[g] \in Slice
         /\ arrays[slices[g].array] \in Seq(Good \cup {Blank})
         /\ arrays[slices[g].array][sessionIdx[g][s]].session = s
<1>1. g \in DOMAIN slices
  BY DEF B!Indexed, BP!RoomInv, Lists
<1>2. /\ sessionIdx[g][s] \in DOMAIN Lists[g]
      /\ Lists[g][sessionIdx[g][s]].session = s
  BY <1>1, ListProperties DEF B!Indexed, BP!RoomInv, BP!Exact
<1>3. /\ slices[g] \in Slice /\ slices[g].len <= Len(arrays[slices[g].array])
      /\ arrays[slices[g].array] \in Seq(Good \cup {Blank})
  BY <1>1 DEF Layout, Slice
<1>4. sessionIdx[g][s] \in 1..slices[g].len
  BY <1>1, <1>2, ListProperties
<1> QED
  BY <1>1, <1>2, <1>3, <1>4, ListProperties, LenProperties DEF Slice

\* A collection keeps what slices and pointers reach.
LEMMA CollectKeeps ==
  ASSUME NEW Good, Layout(Good), NEW pinned,
         arrays' = Collect(arrays, slices, pinned), UNCHANGED <<slices, sessionIdx>>
  PROVE  /\ Layout(Good)'
         /\ Lists' = Lists
         /\ \A a \in Arrays : a \in pinned => arrays'[a] = arrays[a]
<1>1. /\ DOMAIN arrays' = Arrays
      /\ \A a \in Arrays : arrays'[a] = IF a \in ArraysOf(slices) \cup pinned
                                        THEN arrays[a] ELSE << >>
  BY DEF Collect
<1>2. \A g \in DOMAIN slices : /\ slices[g].array \in Arrays
                               /\ arrays'[slices[g].array] = arrays[slices[g].array]
  BY <1>1 DEF ArraysOf, Layout, Slice
<1>3. arrays' \in [Arrays -> Seq(Good \cup {Blank})]
  BY <1>1, EmptySeq DEF Layout, Collect
<1>4. Layout(Good)'
  BY <1>2, <1>3 DEF Layout
<1>5. Lists' = Lists
  BY <1>2 DEF Lists
<1> QED
  BY <1>1, <1>4, <1>5

-----------------------------------------------------------------------------
(* Upserts *)

(* What an upsert of s may do to a cell that a pointer reaches. *)
Upserted(s, h, a, i) ==
  \/ arrays'[a][i] = arrays[a][i]
  \/ /\ arrays'[a][i] = Room(s, h)
     /\ arrays[a][i].session = s \/ BehindEnd(a, i)

\* A heartbeat is written over the session's room (backend.go:116-118).
LEMMA ReplaceKeeps ==
  ASSUME NEW Good, Layout(Good), BP!RoomInv, NEW g, NEW s, NEW h,
         Room(s, h) \in Good, ReplaceRoom(g, s, h)
  PROVE  /\ Layout(Good)'
         /\ BP!ReplaceRoom(g, s, h)
         /\ \A a \in Arrays : /\ Len(arrays'[a]) = Len(arrays[a])
                              /\ \A i \in 1..Len(arrays[a]) : Upserted(s, h, a, i)
         /\ UNCHANGED slices
<1> DEFINE a == slices[g].array
           idx == sessionIdx[g][s]
           room == Room(s, h)
           len == slices[g].len
           T == Good \cup {Blank}
<1>1. B!Indexed(g, s)
  BY DEF ReplaceRoom
<1>2. /\ g \in DOMAIN slices /\ slices[g] \in Slice /\ a \in Arrays
      /\ idx \in 1..len /\ idx \in 1..Len(arrays[a]) /\ arrays[a] \in Seq(T)
      /\ arrays[a][idx].session = s
  BY <1>1, IndexProperties DEF Slice
<1>3. /\ arrays' = [arrays EXCEPT ![a] = [arrays[a] EXCEPT ![idx] = room]]
      /\ UNCHANGED <<slices, sessionIdx>>
  BY DEF ReplaceRoom
<1> DEFINE new == [arrays[a] EXCEPT ![idx] = room]
<1>4. /\ new \in Seq(T)
      /\ Len(new) = Len(arrays[a])
      /\ \A j \in 1..Len(arrays[a]) : new[j] = IF j = idx THEN room ELSE arrays[a][j]
  BY <1>2, ExceptSeq
<1> HIDE DEF new
<1>5. /\ DOMAIN arrays' = Arrays /\ arrays'[a] = new
      /\ \A b \in Arrays : b # a => arrays'[b] = arrays[b]
  BY <1>2, <1>3 DEF Layout, new
<1>6. arrays' \in [Arrays -> Seq(T)]
  BY <1>2, <1>3, <1>4 DEF Layout, new
<1>7. \A f \in DOMAIN slices : f # g => slices[f].array # a
  BY <1>2 DEF Layout
<1>8. Layout(Good)'
  <2> SUFFICES ASSUME NEW f \in DOMAIN slices
               PROVE  /\ slices[f].len <= Len(arrays'[slices[f].array])
                      /\ \A i \in 1..slices[f].len : arrays'[slices[f].array][i] \in Good
    BY <1>3, <1>6 DEF Layout
  <2>1. CASE f = g
    <3>1. len <= Len(arrays[a]) /\ len \in Nat /\ Len(arrays[a]) \in Nat
      BY <1>2, LenProperties DEF Layout, Slice
    <3> QED
      BY <2>1, <3>1, <1>2, <1>4, <1>5 DEF Layout
  <2>2. CASE f # g
    BY <2>2, <1>5, <1>7 DEF Layout, Slice
  <2> QED
    BY <2>1, <2>2
<1>9. Lists' = [Lists EXCEPT ![g] = [Lists[g] EXCEPT ![idx] = room]]
  <2>1. Lists'[g] = [Lists[g] EXCEPT ![idx] = room]
    <3>1. /\ Lists[g] \in Seq(Good) /\ Len(Lists[g]) = len
          /\ \A i \in 1..len : Lists[g][i] = arrays[a][i]
      BY <1>2, ListProperties
    <3>2. /\ Lists'[g] \in Seq(Good) /\ Len(Lists'[g]) = len
          /\ \A i \in 1..len : Lists'[g][i] = new[i]
      <4>1. Lists'[g] = SubSeq(new, 1, len)
        BY <1>2, <1>3, <1>5 DEF Lists
      <4>2. len \in 0..Len(new)
        BY <1>2, <1>4, LenProperties DEF Layout, Slice
      <4>3. \A i \in 1..len : new[i] \in Good
        BY <1>2, <1>3, <1>5, <1>8 DEF Layout
      <4> QED
        BY <4>1, <4>2, <4>3, <1>4, PrefixProperties
    <3> DEFINE list == [Lists[g] EXCEPT ![idx] = room]
    <3>3. /\ list \in Seq(Good) /\ Len(list) = len
          /\ \A i \in 1..len : list[i] = IF i = idx THEN room ELSE Lists[g][i]
      BY <3>1, <1>2, ExceptSeq
    <3> HIDE DEF list
    <3>4. len \in Nat /\ len <= Len(arrays[a]) /\ Len(arrays[a]) \in Nat
      BY <1>2, LenProperties DEF Layout, Slice
    <3>5. \A i \in 1..len : Lists'[g][i] = list[i]
      BY <3>1, <3>2, <3>3, <3>4, <1>4
    <3>6. Lists'[g] = list
      BY <3>2, <3>3, <3>5, SeqEqual
    <3> QED
      BY <3>6 DEF list
  <2>2. \A f \in DOMAIN slices : f # g => Lists'[f] = Lists[f]
    BY <1>3, <1>5, <1>7 DEF Lists, Layout, Slice
  <2>3. DOMAIN Lists' = DOMAIN slices /\ DOMAIN Lists = DOMAIN slices
    BY <1>3 DEF Lists
  <2>4. Lists' = [f \in DOMAIN slices |->
                    SubSeq(arrays'[slices[f].array], 1, slices[f].len)]
    BY <1>3 DEF Lists
  <2> DEFINE list == [Lists[g] EXCEPT ![idx] = room]
  <2>5. Lists'[g] = list
    BY <2>1
  <2> HIDE DEF list
  <2>6. \A f \in DOMAIN slices : SubSeq(arrays'[slices[f].array], 1, slices[f].len)
                                    = IF f = g THEN list ELSE Lists[f]
    BY <2>2, <2>4, <2>5
  <2>7. Lists' = [Lists EXCEPT ![g] = list]
    BY <2>3, <2>4, <2>6
  <2> QED
    BY <2>7 DEF list
<1>10. BP!ReplaceRoom(g, s, h)
  BY <1>1, <1>3, <1>9 DEF BP!ReplaceRoom, BP!Indexed, B!Indexed, Room
<1>11. ASSUME NEW b \in Arrays
       PROVE  /\ Len(arrays'[b]) = Len(arrays[b])
              /\ \A i \in 1..Len(arrays[b]) : Upserted(s, h, b, i)
  BY <1>2, <1>4, <1>5 DEF Upserted
<1> QED
  BY <1>3, <1>8, <1>10, <1>11

\* A new room goes behind the end of its slice, in the same array or in one
\* that nothing reaches (backend.go:120-123).
LEMMA AppendKeeps ==
  ASSUME NEW Good, Layout(Good), BP!RoomInv, NEW g \in Games, NEW s, NEW h, NEW pinned,
         Room(s, h) \in Good, AppendRoom(g, s, h, pinned)
  PROVE  /\ Layout(Good)'
         /\ BP!AppendRoom(g, s, h)
         /\ \A a \in Arrays : a \in pinned =>
              /\ Len(arrays'[a]) = Len(arrays[a])
              /\ \A i \in 1..Len(arrays[a]) : /\ Upserted(s, h, a, i)
                                              /\ BehindEnd(a, i)' => BehindEnd(a, i)
<1> DEFINE old == SliceOf(g)
           T == Good \cup {Blank}
           inPlace == old.len < CapOf(old.array)
           free == Arrays \ (pinned \cup ArraysOf(slices))
           array == IF inPlace THEN old.array ELSE CHOOSE a \in free : TRUE
           room(i) == IF i <= old.len THEN arrays[old.array][i]
                      ELSE IF i = old.len + 1 THEN Room(s, h)
                      ELSE IF inPlace THEN arrays[old.array][i] ELSE Blank
           cap == IF inPlace THEN CapOf(old.array)
                  ELSE IF old.len = 0 THEN 1 ELSE 2 * old.len
           cells == [i \in 1..cap |-> room(i)]
           newSlices == B!Put(slices, g, [array |-> array, len |-> old.len + 1])
<1>1. /\ ~B!Indexed(g, s)
      /\ inPlace \/ free # {}
      /\ slices' = newSlices
      /\ sessionIdx' = B!Put(sessionIdx, g, B!Put(B!IndexOf(g), s, old.len + 1))
      /\ arrays' = Collect([arrays EXCEPT ![array] = cells], newSlices, pinned)
  BY DEF AppendRoom
<1>2. /\ old.len \in Nat
      /\ g \notin DOMAIN slices => old.len = 0 /\ ~inPlace
      /\ g \in DOMAIN slices =>
           /\ old = slices[g] /\ old \in Slice /\ old.array \in Arrays
           /\ CapOf(old.array) = Len(arrays[old.array])
           /\ arrays[old.array] \in Seq(T)
           /\ Len(arrays[old.array]) \in Nat
           /\ old.len <= Len(arrays[old.array])
           /\ \A i \in 1..old.len : arrays[old.array][i] \in Good
  <2>1. CASE g \notin DOMAIN slices
    BY <2>1 DEF SliceOf, CapOf
  <2>2. CASE g \in DOMAIN slices
    <3>1. old = slices[g]
      BY <2>2 DEF SliceOf
    <3>2. /\ slices[g] \in Slice
          /\ slices[g].len <= Len(arrays[slices[g].array])
          /\ \A i \in 1..slices[g].len : arrays[slices[g].array][i] \in Good
      BY <2>2 DEF Layout
    <3>3. slices[g].array \in Arrays /\ slices[g].len \in Nat
      BY <3>2 DEF Slice
    <3>4. arrays[slices[g].array] \in Seq(T)
      BY <3>3 DEF Layout
    <3>5. CapOf(slices[g].array) = Len(arrays[slices[g].array])
      BY <3>3, SlicesAssumption DEF CapOf
    <3> QED
      BY <2>2, <3>1, <3>2, <3>3, <3>4, <3>5, LenProperties
  <2> QED
    BY <2>1, <2>2
<1>3. /\ inPlace => g \in DOMAIN slices /\ array = old.array
      /\ ~inPlace => array \in free
      /\ array \in Arrays
  BY <1>1, <1>2
<1>4. cap \in Nat /\ old.len + 1 <= cap
  BY <1>2
<1>5. /\ cells \in Seq(T) /\ Len(cells) = cap
      /\ \A i \in 1..old.len : cells[i] = arrays[old.array][i] /\ cells[i] \in Good
      /\ cells[old.len + 1] = Room(s, h)
      /\ inPlace => /\ Len(cells) = Len(arrays[array])
                    /\ \A i \in 1..Len(arrays[array]) :
                         i # old.len + 1 => cells[i] = arrays[array][i]
  <2>1. ASSUME NEW i \in 1..cap
        PROVE  room(i) \in T /\ (i <= old.len => room(i) \in Good)
    <3>1. CASE i <= old.len
      BY <3>1, <1>2
    <3>2. CASE i = old.len + 1
      BY <3>2, <1>2
    <3>3. CASE i > old.len + 1 /\ inPlace
      <4>1. i \in 1..Len(arrays[old.array])
        BY <3>3, <1>2, <1>3
      <4> QED
        BY <3>3, <4>1, <1>2, <1>3, ElementOfSeq
    <3>4. CASE i > old.len + 1 /\ ~inPlace
      BY <3>4, <1>2
    <3> QED
      BY <3>1, <3>2, <3>3, <3>4, <1>2, <1>4
  <2>2. cells \in Seq(T)
    BY <2>1, <1>4, IsASeq
  <2>3. Len(cells) = cap
    BY <1>4, <2>2, LenProperties
  <2>4. \A i \in 1..cap : cells[i] = room(i)
    OBVIOUS
  <2> HIDE DEF cells
  <2>5. \A i \in 1..old.len : cells[i] = arrays[old.array][i] /\ cells[i] \in Good
    BY <2>1, <2>4, <1>2, <1>4
  <2>6. cells[old.len + 1] = Room(s, h)
    BY <2>4, <1>2, <1>4
  <2>7. ASSUME inPlace
        PROVE  /\ Len(cells) = Len(arrays[array])
               /\ \A i \in 1..Len(arrays[array]) :
                    i # old.len + 1 => cells[i] = arrays[array][i]
    BY <2>3, <2>4, <2>7, <1>2, <1>3
  <2> QED
    BY <2>2, <2>3, <2>5, <2>6, <2>7
<1> HIDE DEF cells, cap, room
<1>6. /\ DOMAIN slices' = DOMAIN slices \cup {g}
      /\ slices'[g] = [array |-> array, len |-> old.len + 1]
      /\ \A f \in DOMAIN slices : f # g => slices'[f] = slices[f]
  BY <1>1 DEF B!Put
<1>7. \A f \in DOMAIN slices : f # g => slices[f].array # array
  BY <1>2, <1>3 DEF Layout, ArraysOf
<1>8. /\ DOMAIN arrays' = Arrays
      /\ arrays'[array] = cells
      /\ \A b \in Arrays : b # array /\ (b \in pinned \/ b \in ArraysOf(slices'))
                           => arrays'[b] = arrays[b]
      /\ arrays' \in [Arrays -> Seq(T)]
  <2>1. arrays' = [b \in Arrays |->
                     IF b \in ArraysOf(slices') \cup pinned
                     THEN [arrays EXCEPT ![array] = cells][b] ELSE << >>]
    BY <1>1 DEF Collect
  <2>2. /\ [arrays EXCEPT ![array] = cells][array] = cells
        /\ \A b \in Arrays : b # array => [arrays EXCEPT ![array] = cells][b] = arrays[b]
        /\ \A b \in Arrays : [arrays EXCEPT ![array] = cells][b] \in Seq(T)
    BY <1>3, <1>5 DEF Layout
  <2>3. array \in ArraysOf(slices')
    BY <1>6 DEF ArraysOf
  <2> HIDE DEF newSlices
  <2>4. arrays' \in [Arrays -> Seq(T)]
    BY <2>1, <2>2, EmptySeq
  <2> QED
    BY <2>1, <2>2, <2>3, <2>4, <1>3
<1>9. ASSUME NEW f \in DOMAIN slices'
      PROVE  /\ slices'[f] \in Slice
             /\ slices'[f].len <= Len(arrays'[slices'[f].array])
             /\ \A i \in 1..slices'[f].len : arrays'[slices'[f].array][i] \in Good
  <2>1. CASE f = g
    <3> HIDE DEF old, array
    <3>1. slices'[f].array = array /\ slices'[f].len = old.len + 1
      BY <2>1, <1>6
    <3>2. slices'[f] \in Slice
      BY <2>1, <1>2, <1>3, <1>6 DEF Slice
    <3>3. ASSUME NEW i \in 1..(old.len + 1)
          PROVE  cells[i] \in Good
      BY <1>2, <1>5
    <3> QED
      BY <3>1, <3>2, <3>3, <1>2, <1>4, <1>5, <1>8
  <2>2. CASE f # g
    <3>1. f \in DOMAIN slices /\ slices'[f] = slices[f] /\ slices[f] \in Slice
      BY <2>2, <1>6 DEF Layout
    <3>2. arrays'[slices[f].array] = arrays[slices[f].array]
      BY <2>2, <3>1, <1>7, <1>8 DEF ArraysOf, Slice
    <3> QED
      BY <3>1, <3>2 DEF Layout
  <2> QED
    BY <2>1, <2>2
<1>10. ASSUME NEW f \in DOMAIN slices', NEW e \in DOMAIN slices',
              slices'[f].array = slices'[e].array
       PROVE  f = e
  BY <1>6, <1>7, <1>10 DEF Layout
<1>11. Layout(Good)'
  BY <1>6, <1>8, <1>9, <1>10 DEF Layout
<1>12. Lists' = B!Put(Lists, g, Append(B!RoomsOf(g), Room(s, h)))
  <2> DEFINE list == Append(B!RoomsOf(g), Room(s, h))
  <2>1. /\ B!RoomsOf(g) \in Seq(Good) /\ Len(B!RoomsOf(g)) = old.len
        /\ \A i \in 1..old.len : B!RoomsOf(g)[i] = arrays[old.array][i]
    <3>1. CASE g \in DOMAIN slices
      BY <3>1, <1>2, ListProperties DEF B!RoomsOf
    <3>2. CASE g \notin DOMAIN slices
      BY <3>2, <1>2, EmptySeq DEF B!RoomsOf, Lists
    <3> QED
      BY <3>1, <3>2
  <2>2. /\ list \in Seq(Good) /\ Len(list) = old.len + 1
        /\ \A i \in 1..old.len : list[i] = arrays[old.array][i]
        /\ list[old.len + 1] = Room(s, h)
    BY <2>1, AppendProperties
  <2>3. Lists'[g] = SubSeq(cells, 1, old.len + 1)
    <3>1. g \in DOMAIN slices' /\ arrays'[slices'[g].array] = cells
      BY <1>6, <1>8
    <3>2. slices'[g].len = old.len + 1
      BY <1>6
    <3>3. Lists'[g] = SubSeq(arrays'[slices'[g].array], 1, slices'[g].len)
      BY <3>1 DEF Lists
    <3> QED
      BY <3>1, <3>2, <3>3
  <2>4. \A i \in 1..(old.len + 1) : cells[i] \in Good
    BY <1>2, <1>5
  <2>5. old.len + 1 \in 0..Len(cells)
    BY <1>2, <1>4, <1>5
  <2>6. /\ Lists'[g] \in Seq(Good) /\ Len(Lists'[g]) = old.len + 1
        /\ \A i \in 1..(old.len + 1) : Lists'[g][i] = cells[i]
    BY <2>3, <2>4, <2>5, <1>5, PrefixProperties
  <2> HIDE DEF list, old
  <2>7. \A i \in 1..(old.len + 1) : Lists'[g][i] = list[i]
    BY <2>2, <2>6, <1>2, <1>5
  <2>8. Lists'[g] = list
    BY <2>2, <2>6, <2>7, SeqEqual
  <2>9. ASSUME NEW f \in DOMAIN slices, f # g
        PROVE  SubSeq(arrays'[slices'[f].array], 1, slices'[f].len) = Lists[f]
    <3>1. slices'[f] = slices[f] /\ f \in DOMAIN slices' /\ slices[f].array \in Arrays
      BY <2>9, <1>6 DEF Layout, Slice
    <3>2. arrays'[slices[f].array] = arrays[slices[f].array]
      BY <2>9, <3>1, <1>7, <1>8 DEF ArraysOf
    <3> QED
      BY <3>1, <3>2 DEF Lists
  <2>10. Lists' = [f \in DOMAIN slices' |->
                     SubSeq(arrays'[slices'[f].array], 1, slices'[f].len)]
    BY DEF Lists
  <2>11. DOMAIN Lists = DOMAIN slices
    BY DEF Lists
  <2>12. \A f \in DOMAIN slices' : SubSeq(arrays'[slices'[f].array], 1, slices'[f].len)
                                     = IF f = g THEN list ELSE Lists[f]
    BY <2>8, <2>9, <2>10, <1>6
  <2>13. Lists' = [f \in DOMAIN Lists \cup {g} |-> IF f = g THEN list ELSE Lists[f]]
    BY <2>10, <2>11, <2>12, <1>6
  <2> QED
    BY <2>13 DEF list, B!Put
<1>13. BP!AppendRoom(g, s, h)
  <2>1. Len(B!RoomsOf(g)) = old.len
    <3>1. CASE g \in DOMAIN slices
      BY <3>1, <1>2, ListProperties DEF B!RoomsOf
    <3>2. CASE g \notin DOMAIN slices
      BY <3>2, <1>2, EmptySeq DEF B!RoomsOf, Lists
    <3> QED
      BY <3>1, <3>2
  <2> HIDE DEF old
  <2> QED
    BY <2>1, <1>1, <1>12 DEF BP!AppendRoom, BP!Indexed, B!Indexed, BP!Put, B!Put,
       BP!RoomsOf, B!RoomsOf, BP!IndexOf, B!IndexOf, BP!EmptyMap, B!EmptyMap, Room
<1>14. ASSUME NEW b \in Arrays, b \in pinned, NEW i \in 1..Len(arrays[b])
       PROVE  /\ Len(arrays'[b]) = Len(arrays[b])
              /\ Upserted(s, h, b, i)
              /\ BehindEnd(b, i)' => BehindEnd(b, i)
  <2>1. CASE b # array
    <3>1. arrays'[b] = arrays[b]
      BY <2>1, <1>8, <1>14
    <3>2. BehindEnd(b, i)' => BehindEnd(b, i)
      BY <2>1, <1>6 DEF BehindEnd
    <3> QED
      BY <3>1, <3>2 DEF Upserted
  <2>2. CASE b = array
    <3>1. inPlace /\ g \in DOMAIN slices /\ b = old.array
      BY <2>2, <1>3, <1>14
    <3>2. old = slices[g] /\ old.len \in Nat
      BY <3>1, <1>2
    <3> HIDE DEF old, array
    <3>3. i \in Nat
      OBVIOUS
    <3>4. BehindEnd(b, i)' => BehindEnd(b, i)
      <4>1. ASSUME NEW f \in DOMAIN slices', slices'[f].array = b, slices'[f].len < i
            PROVE  f = g
        BY <4>1, <2>2, <1>6, <1>7
      <4>2. BehindEnd(b, i)' => old.len + 1 < i
        BY <4>1, <1>6 DEF BehindEnd
      <4> QED
        BY <4>2, <3>1, <3>2, <3>3 DEF BehindEnd
    <3>5. CASE i = old.len + 1
      <4>1. BehindEnd(b, i)
        BY <3>1, <3>2, <3>5 DEF BehindEnd
      <4> QED
        BY <4>1, <3>1, <3>4, <3>5, <2>2, <1>5, <1>8 DEF Upserted
    <3>6. CASE i # old.len + 1
      BY <3>1, <3>4, <3>6, <2>2, <1>5, <1>8 DEF Upserted
    <3> QED
      BY <3>5, <3>6
  <2> QED
    BY <2>1, <2>2
<1>15. ASSUME NEW b \in Arrays, b \in pinned
       PROVE  Len(arrays'[b]) = Len(arrays[b])
  BY <1>3, <1>5, <1>8, <1>15
<1> QED
  BY <1>11, <1>13, <1>14, <1>15

-----------------------------------------------------------------------------
(* Removals *)

\* The list of a game after a removal (backend.go:146).
LEMMA RemovedRooms ==
  ASSUME NEW S, NEW list \in Seq(S), NEW i \in 1..Len(list)
  PROVE  /\ BP!RemoveAt(list, i) \in Seq(S)
         /\ Len(BP!RemoveAt(list, i)) = Len(list) - 1
         /\ \A j \in 1..(Len(list) - 1) :
              BP!RemoveAt(list, i)[j] = IF j < i THEN list[j] ELSE list[j + 1]
<1>1. BP!RemoveAt(list, i) \in Seq(S)
  BY BP!RemoveAtProperties
<1>2. Len(BP!RemoveAt(list, i)) = Len(list) - 1
  BY BP!RemoveAtProperties
<1>3. \A j \in 1..(Len(list) - 1) :
        BP!RemoveAt(list, i)[j] = IF j < i THEN list[j] ELSE list[j + 1]
  BY BP!RemoveAtProperties
<1> QED
  BY <1>1, <1>2, <1>3

\* A removal shifts the rooms behind the session's down by one and touches
\* nothing in front of it and no other array (backend.go:146-160).
LEMMA DeleteKeeps ==
  ASSUME NEW Good, Layout(Good), BP!RoomInv, NEW g, NEW s, NEW pinned,
         DeleteServer(g, s, pinned)
  PROVE  /\ Layout(Good)'
         /\ BP!DeleteServer(g, s)
         /\ \A b \in Arrays : b \in pinned =>
              /\ Len(arrays'[b]) = Len(arrays[b])
              /\ \A i \in 1..Len(arrays[b]) :
                   LET reached == b = slices[g].array /\ i >= sessionIdx[g][s]
                   IN  /\ \/ arrays'[b][i] = arrays[b][i]
                          \/ reached /\ arrays'[b][i] \in Good
                       /\ BehindEnd(b, i)' => reached \/ BehindEnd(b, i)
<1> DEFINE a == slices[g].array
           len == slices[g].len
           idx == sessionIdx[g][s]
           T == Good \cup {Blank}
           shifted == Shifted(arrays[a], idx, len)
           newSlices == IF len = 1 THEN B!Without(slices, g)
                        ELSE [slices EXCEPT ![g].len = len - 1]
           list == SubSeq(shifted, 1, len - 1)
<1>1. /\ B!Indexed(g, s)
      /\ slices' = newSlices
      /\ sessionIdx' = IF len = 1 THEN B!Without(sessionIdx, g)
                       ELSE B!Put(sessionIdx, g, B!Reindex(B!Without(sessionIdx[g], s), list))
      /\ arrays' = Collect([arrays EXCEPT ![a] = shifted], newSlices, pinned)
  BY DEF DeleteServer
<1>2. /\ g \in DOMAIN slices /\ slices[g] \in Slice
      /\ idx \in 1..len /\ arrays[a] \in Seq(T)
  BY <1>1, IndexProperties
<1>3. /\ a \in Arrays /\ len \in Nat \ {0} /\ Len(arrays[a]) \in Nat
      /\ len <= Len(arrays[a]) /\ DOMAIN arrays[a] = 1..Len(arrays[a])
      /\ \A i \in 1..len : arrays[a][i] \in Good
  BY <1>2, LenProperties DEF Layout, Slice
<1>4. /\ shifted \in Seq(T) /\ Len(shifted) = Len(arrays[a])
      /\ \A i \in 1..Len(arrays[a]) :
           shifted[i] = IF idx <= i /\ i < len THEN arrays[a][i + 1] ELSE arrays[a][i]
      /\ \A i \in 1..(len - 1) : shifted[i] \in Good
  <2>1. shifted = [i \in 1..Len(arrays[a]) |->
                     IF idx <= i /\ i < len THEN arrays[a][i + 1] ELSE arrays[a][i]]
    BY <1>3 DEF Shifted
  <2>2. ASSUME NEW i \in 1..Len(arrays[a])
        PROVE  (IF idx <= i /\ i < len THEN arrays[a][i + 1] ELSE arrays[a][i]) \in T
    <3>1. arrays[a][i] \in T
      BY <1>2, ElementOfSeq
    <3>2. idx <= i /\ i < len => arrays[a][i + 1] \in T
      BY <1>2, <1>3
    <3> QED
      BY <3>1, <3>2
  <2> HIDE DEF shifted
  <2>3. shifted \in Seq(T)
    BY <2>1, <2>2, <1>3, IsASeq
  <2>4. Len(shifted) = Len(arrays[a])
    BY <2>1, <2>3, <1>3, LenProperties
  <2>5. \A i \in 1..Len(arrays[a]) :
           shifted[i] = IF idx <= i /\ i < len THEN arrays[a][i + 1] ELSE arrays[a][i]
    BY <2>1
  <2>6. ASSUME NEW i \in 1..(len - 1)
        PROVE  shifted[i] \in Good
    <3>1. i \in 1..Len(arrays[a]) /\ i \in 1..len /\ i + 1 \in 1..len
      BY <1>3
    <3> QED
      BY <3>1, <2>5, <1>3
  <2> QED
    BY <2>3, <2>4, <2>5, <2>6
<1> HIDE DEF shifted
<1>5. \A f \in DOMAIN slices : f # g => slices[f].array # a /\ slices[f].array \in Arrays
  BY <1>2 DEF Layout, Slice
<1>6. /\ DOMAIN slices' = IF len = 1 THEN DOMAIN slices \ {g} ELSE DOMAIN slices
      /\ len # 1 => slices'[g] = [array |-> a, len |-> len - 1]
      /\ \A f \in DOMAIN slices : f # g => slices'[f] = slices[f]
  BY <1>1, <1>2 DEF B!Without, Slice
<1>7. /\ DOMAIN arrays' = Arrays
      /\ \A b \in Arrays : b \in pinned \/ b \in ArraysOf(slices') =>
                             arrays'[b] = IF b = a THEN shifted ELSE arrays[b]
      /\ arrays' \in [Arrays -> Seq(T)]
  <2>1. arrays' = [b \in Arrays |->
                     IF b \in ArraysOf(slices') \cup pinned
                     THEN [arrays EXCEPT ![a] = shifted][b] ELSE << >>]
    BY <1>1 DEF Collect
  <2>2. /\ \A b \in Arrays : [arrays EXCEPT ![a] = shifted][b]
                               = IF b = a THEN shifted ELSE arrays[b]
        /\ \A b \in Arrays : [arrays EXCEPT ![a] = shifted][b] \in Seq(T)
    BY <1>3, <1>4 DEF Layout
  <2> HIDE DEF newSlices
  <2>3. arrays' \in [Arrays -> Seq(T)]
    BY <2>1, <2>2, EmptySeq
  <2> QED
    BY <2>1, <2>2, <2>3
<1>8. ASSUME NEW f \in DOMAIN slices', f # g
      PROVE  /\ f \in DOMAIN slices /\ slices'[f] = slices[f]
             /\ slices[f] \in Slice /\ slices[f].array # a
             /\ arrays'[slices[f].array] = arrays[slices[f].array]
  <2>1. f \in DOMAIN slices /\ slices'[f] = slices[f] /\ slices[f] \in Slice
    BY <1>6, <1>8 DEF Layout
  <2> QED
    BY <2>1, <1>5, <1>7, <1>8 DEF ArraysOf
<1>9. ASSUME g \in DOMAIN slices'
      PROVE  /\ len > 1 /\ slices'[g] = [array |-> a, len |-> len - 1]
             /\ arrays'[a] = shifted
  <2>1. len # 1 /\ slices'[g] = [array |-> a, len |-> len - 1]
    BY <1>6, <1>9
  <2> QED
    BY <2>1, <1>3, <1>7, <1>9 DEF ArraysOf
<1>10. Layout(Good)'
  <2>1. ASSUME NEW f \in DOMAIN slices'
        PROVE  /\ slices'[f] \in Slice
               /\ slices'[f].len <= Len(arrays'[slices'[f].array])
               /\ \A i \in 1..slices'[f].len : arrays'[slices'[f].array][i] \in Good
    <3>1. CASE f = g
      BY <3>1, <1>3, <1>4, <1>9 DEF Slice
    <3>2. CASE f # g
      BY <3>2, <1>8 DEF Layout
    <3> QED
      BY <3>1, <3>2
  <2>2. ASSUME NEW f \in DOMAIN slices', NEW e \in DOMAIN slices',
               slices'[f].array = slices'[e].array
        PROVE  f = e
    <3>1. f # g /\ e # g => f = e
      BY <2>2, <1>8 DEF Layout
    <3>2. f = g /\ e # g => FALSE
      BY <2>2, <1>8, <1>9
    <3>3. e = g /\ f # g => FALSE
      BY <2>2, <1>8, <1>9
    <3> QED
      BY <3>1, <3>2, <3>3
  <2> QED
    BY <2>1, <2>2, <1>6, <1>7 DEF Layout
<1>11. list = BP!RemoveAt(Lists[g], idx)
  <2> DEFINE removed == BP!RemoveAt(Lists[g], idx)
  <2>1. /\ Lists[g] \in Seq(Good) /\ Len(Lists[g]) = len
        /\ \A i \in 1..len : Lists[g][i] = arrays[a][i]
    BY <1>2, ListProperties
  <2>2. /\ removed \in Seq(Good) /\ Len(removed) = len - 1
        /\ \A j \in 1..(len - 1) :
             removed[j] = IF j < idx THEN Lists[g][j] ELSE Lists[g][j + 1]
    <3>1. idx \in 1..Len(Lists[g])
      BY <2>1, <1>2
    <3> HIDE DEF idx, len
    <3>2. /\ removed \in Seq(Good)
          /\ Len(removed) = Len(Lists[g]) - 1
          /\ \A j \in 1..(Len(Lists[g]) - 1) :
               removed[j] = IF j < idx THEN Lists[g][j] ELSE Lists[g][j + 1]
      BY <2>1, <3>1, RemovedRooms
    <3> HIDE DEF removed
    <3> QED
      BY <2>1, <3>2
  <2>3. /\ list \in Seq(Good) /\ Len(list) = len - 1
        /\ \A i \in 1..(len - 1) : list[i] = shifted[i]
    BY <1>3, <1>4, PrefixProperties
  <2> HIDE DEF removed, list
  <2>4. ASSUME NEW j \in 1..(len - 1)
        PROVE  list[j] = removed[j]
    <3>1. /\ j \in 1..Len(arrays[a]) /\ j \in 1..len /\ j + 1 \in 1..len
          /\ j < len /\ idx \in Nat /\ j \in Nat
      BY <1>2, <1>3
    <3>2. shifted[j] = IF idx <= j THEN arrays[a][j + 1] ELSE arrays[a][j]
      BY <3>1, <1>4
    <3>3. removed[j] = IF j < idx THEN arrays[a][j] ELSE arrays[a][j + 1]
      BY <3>1, <2>1, <2>2
    <3> HIDE DEF a, idx, len
    <3> QED
      BY <3>1, <3>2, <3>3, <2>3
  <2> QED
    BY <2>2, <2>3, <2>4, <1>3, SeqEqual DEF removed
<1>12. Len(list) = len - 1 /\ list \in Seq(Good)
  BY <1>3, <1>4, PrefixProperties
<1>13. Lists' = IF len = 1 THEN B!Without(Lists, g) ELSE B!Put(Lists, g, list)
  <2>1. ASSUME NEW f \in DOMAIN slices'
        PROVE  SubSeq(arrays'[slices'[f].array], 1, slices'[f].len)
                 = IF f = g THEN list ELSE Lists[f]
    <3>1. CASE f = g
      <4>1. /\ slices'[g].array = a /\ slices'[g].len = len - 1
            /\ arrays'[a] = shifted
        BY <3>1, <1>9
      <4> HIDE DEF a, len
      <4> QED
        BY <3>1, <4>1
    <3>2. CASE f # g
      <4>1. f \in DOMAIN slices /\ slices'[f] = slices[f]
            /\ arrays'[slices[f].array] = arrays[slices[f].array]
        BY <3>2, <1>8
      <4> QED
        BY <3>2, <4>1 DEF Lists
    <3> QED
      BY <3>1, <3>2
  <2>2. Lists' = [f \in DOMAIN slices' |->
                    SubSeq(arrays'[slices'[f].array], 1, slices'[f].len)]
    BY DEF Lists
  <2>3. DOMAIN Lists = DOMAIN slices
    BY DEF Lists
  <2> HIDE DEF list, len
  <2>4. Lists' = [f \in DOMAIN slices' |-> IF f = g THEN list ELSE Lists[f]]
    BY <2>1, <2>2
  <2>5. CASE len = 1
    BY <2>3, <2>4, <2>5, <1>6 DEF B!Without
  <2>6. CASE len # 1
    <3>1. DOMAIN slices' = DOMAIN Lists \cup {g}
      BY <2>3, <2>6, <1>2, <1>6
    <3> QED
      BY <2>4, <2>6, <3>1 DEF B!Put
  <2> QED
    BY <2>5, <2>6
<1>14. BP!DeleteServer(g, s)
  <2> HIDE DEF list, len
  <2>1. len = 1 <=> list = << >>
    <3>1. list = << >> <=> Len(list) = 0
      BY <1>12, EmptySeq
    <3>2. len \in Nat /\ len # 0
      BY <1>3
    <3> QED
      BY <3>1, <3>2, <1>12
  <2>2. BP!Indexed(g, s)
    BY <1>1 DEF BP!Indexed, B!Indexed
  <2>3. CASE len = 1
    BY <2>1, <2>2, <2>3, <1>1, <1>11, <1>13
       DEF BP!DeleteServer, BP!Without, B!Without
  <2>4. CASE len # 1
    BY <2>1, <2>2, <2>4, <1>1, <1>11, <1>13
       DEF BP!DeleteServer, BP!Without, B!Without, BP!Put, B!Put, BP!Reindex, B!Reindex
  <2> QED
    BY <2>3, <2>4
<1>15. ASSUME NEW b \in Arrays, b \in pinned
       PROVE  Len(arrays'[b]) = Len(arrays[b])
  BY <1>4, <1>7, <1>15
<1>16. ASSUME NEW b \in Arrays, b \in pinned, NEW i \in 1..Len(arrays[b])
       PROVE  LET reached == b = slices[g].array /\ i >= sessionIdx[g][s]
              IN  /\ \/ arrays'[b][i] = arrays[b][i]
                     \/ reached /\ arrays'[b][i] \in Good
                  /\ BehindEnd(b, i)' => reached \/ BehindEnd(b, i)
  <2>1. CASE b # a
    BY <2>1, <1>6, <1>7, <1>8, <1>9, <1>16 DEF BehindEnd
  <2>2. CASE b = a
    <3>1. arrays'[b][i] = IF idx <= i /\ i < len THEN arrays[b][i + 1] ELSE arrays[b][i]
      BY <2>2, <1>4, <1>7, <1>16
    <3>2. idx <= i /\ i < len => arrays[b][i + 1] \in Good
      BY <2>2, <1>2, <1>3
    <3>3. BehindEnd(b, i)' => len - 1 < i
      BY <2>2, <1>8, <1>9 DEF BehindEnd
    <3>4. i \in Nat /\ idx \in Nat /\ idx <= len
      BY <1>2, <1>3
    <3> QED
      BY <2>2, <3>1, <3>2, <3>3, <3>4, <1>3
  <2> QED
    BY <2>1, <2>2
<1> QED
  BY <1>10, <1>14, <1>15, <1>16
=============================================================================
