---------------------------- MODULE ProcessProofs ----------------------------
(***************************************************************************)
(* Theorems about the process and its connections, for any services, any   *)
(* protocols and whatever clients send.  Four parts:                       *)
(*   - induction over numbers and sequences that are built up step by step;*)
(*   - HTTPFix: only Host lines are lost, and only the repeated ones;      *)
(*   - Connection: the loops that take messages out of the stream find the *)
(*     end of each, so what is handled is what was sent;                   *)
(*   - Supervisor: each result sent is either taken or in the channel, so  *)
(*     the count the main goroutine waits for is the number of services    *)
(*     that have returned.                                                 *)
(***************************************************************************)
EXTENDS Process, FiniteSetTheorems, SequenceTheorems, WellFoundedInduction, TLAPS

-----------------------------------------------------------------------------
(* Induction.  The library's induction theorems need an operator; here a   *)
(* set of numbers does its work.                                           *)

Less == {pair \in Nat \X Nat : pair[1] < pair[2]}

\* Every set of numbers has a least element.
LEMMA LessIsWellFounded == IsWellFoundedOn(Less, Nat)
<1>1. OpToRel(<, Nat) = Less
  BY Zenon DEF OpToRel, Less
<1> QED
  BY <1>1, NatLessThanWellFounded, Zenon

\* A set with 0 that is closed under succession has every number.
LEMMA SetInduction ==
  ASSUME NEW P, 0 \in P, \A n \in Nat : n \in P => n + 1 \in P
  PROVE  \A n \in Nat : n \in P
<1>1. IsWellFoundedOn(Less, Nat)
  BY LessIsWellFounded
<1> DEFINE bad == {n \in Nat : n \notin P}
<1>2. SUFFICES ASSUME bad # {} PROVE FALSE
  OBVIOUS
<1>3. PICK n \in bad : \A m \in bad : <<m, n>> \notin Less
  <2>1. bad \in SUBSET Nat
    OBVIOUS
  <2> HIDE DEF bad
  <2> QED
    BY <1>1, <1>2, <2>1, WFMin, Zenon
<1>4. n \in Nat /\ n \notin P /\ n # 0
  OBVIOUS
<1>5. n - 1 \in Nat /\ <<n - 1, n>> \in Less
  BY <1>4 DEF Less
<1>6. n - 1 \in P
  BY <1>3, <1>5
<1>7. (n - 1) + 1 \in P
  BY <1>5, <1>6
<1> QED
  BY <1>4, <1>7

\* The same up to a bound.
LEMMA BoundedInduction ==
  ASSUME NEW n \in Nat, NEW P, 0 \in P, \A i \in 0..(n - 1) : i \in P => i + 1 \in P
  PROVE  n \in P /\ \A i \in 0..n : i \in P
<1> DEFINE Q == {i \in Nat : i <= n => i \in P}
<1>1. 0 \in Q
  OBVIOUS
<1>2. \A i \in Nat : i \in Q => i + 1 \in Q
  OBVIOUS
<1> HIDE DEF Q
<1>3. \A i \in Nat : i \in Q
  BY <1>1, <1>2, SetInduction
<1> USE DEF Q
<1> QED
  BY <1>3

Takes(f, k, S, start, step) ==
  /\ f \in [0..k -> S]
  /\ f[0] = start
  /\ \A i \in 1..k : f[i] = step[i][f[i - 1]]

\* Values are reached one step at a time, each a function of the one before.
LEMMA StepsExist ==
  ASSUME NEW S, NEW start \in S, NEW n \in Nat, NEW step \in [1..n -> [S -> S]]
  PROVE  \E f : Takes(f, n, S, start, step)
<1> USE DEF Takes
<1> DEFINE Good(f, k) == Takes(f, k, S, start, step)
           P == {k \in Nat : k <= n => \E f : Good(f, k)}
<1>1. 0 \in P
  <2>1. Good([i \in 0..0 |-> start], 0)
    OBVIOUS
  <2> QED
    BY <2>1
<1>2. ASSUME NEW k \in Nat, k \in P, k + 1 <= n
      PROVE  k + 1 \in P
  <2>1. PICK f : Good(f, k)
    BY <1>2
  <2>2. step[k + 1][f[k]] \in S
    BY <2>1, <1>2
  <2> DEFINE new == [i \in 0..(k + 1) |-> IF i = k + 1 THEN step[k + 1][f[k]] ELSE f[i]]
  <2>3. new \in [0..(k + 1) -> S]
    BY <2>1, <2>2
  <2>4. new[0] = start
    BY <2>1
  <2>5. ASSUME NEW i \in 1..(k + 1)
        PROVE  new[i] = step[i][new[i - 1]]
    <3>1. new[i - 1] = f[i - 1]
      OBVIOUS
    <3>2. CASE i = k + 1
      BY <3>1, <3>2
    <3>3. CASE i # k + 1
      BY <3>1, <3>3, <2>1
    <3> QED
      BY <3>2, <3>3
  <2> HIDE DEF new
  <2>6. \E g : Good(g, k + 1)
    <3>1. Good(new, k + 1)
      BY <2>3, <2>4, <2>5
    <3> QED
      BY <3>1, Zenon
  <2> HIDE DEF Good
  <2> QED
    BY <1>2, <2>6
<1>3. \A k \in Nat : k \in P => k + 1 \in P
  <2> SUFFICES ASSUME NEW k \in Nat, k \in P PROVE k + 1 \in P
    OBVIOUS
  <2>1. CASE k + 1 <= n
    BY <1>2, <2>1
  <2>2. CASE ~(k + 1 <= n)
    BY <2>2
  <2> QED
    BY <2>1, <2>2
<1> HIDE DEF P
<1>4. n \in P
  BY <1>1, <1>3, SetInduction
<1> USE DEF P
<1> QED
  BY <1>4

SameSteps(f, g, n) ==
  /\ f[0] = g[0]
  /\ \A i \in 1..n : f[i - 1] = g[i - 1] => f[i] = g[i]

\* There is one way to take such steps.
LEMMA StepsAgree ==
  ASSUME NEW n \in Nat, NEW f, NEW g, SameSteps(f, g, n)
  PROVE  \A i \in 0..n : f[i] = g[i]
<1> DEFINE P == {i \in Nat : i <= n => f[i] = g[i]}
<1>1. 0 \in P
  BY DEF SameSteps
<1>2. ASSUME NEW i \in Nat, i \in P
      PROVE  i + 1 \in P
  BY <1>2 DEF SameSteps
<1> HIDE DEF P
<1>3. \A i \in Nat : i \in P
  BY <1>1, <1>2, SetInduction
<1> USE DEF P
<1> QED
  BY <1>3

\* In particular they end alike.
LEMMA StepsEnd ==
  ASSUME NEW n \in Nat, NEW f, NEW g, SameSteps(f, g, n)
  PROVE  f[n] = g[n]
BY StepsAgree

\* A set of numbers has a least one.
LEMMA MinProperties ==
  ASSUME NEW places \in SUBSET Nat, places # {}
  PROVE  Min(places) \in places /\ \A y \in places : Min(places) <= y
<1> DEFINE least(x) == x \in places /\ \A y \in places : x <= y
<1>1. PICK x \in places : \A y \in places : <<y, x>> \notin Less
  BY LessIsWellFounded, WFMin, Zenon
<1>2. ASSUME NEW y \in places
      PROVE  x <= y
  <2>1. x \in Nat /\ y \in Nat
    OBVIOUS
  <2>2. <<y, x>> \in Nat \X Nat /\ <<y, x>>[1] = y /\ <<y, x>>[2] = x
    BY <2>1
  <2>3. ~(y < x)
    BY <1>1, <2>2 DEF Less
  <2> QED
    BY <2>1, <2>3
<1>3. least(Min(places))
  BY <1>2, Zenon DEF Min
<1> QED
  BY <1>3

-----------------------------------------------------------------------------
(* Joined sequences *)

\* FlattenSeq joins one part after the other.
LEMMA FlattenSteps ==
  ASSUME NEW S, NEW parts \in Seq(Seq(S))
  PROVE  \E f \in [0..Len(parts) -> Seq(S)] :
           /\ f[0] = << >>
           /\ \A i \in 1..Len(parts) : f[i] = f[i - 1] \o parts[i]
           /\ FlattenSeq(parts) = f[Len(parts)]
<1> DEFINE n == Len(parts)
           step == [i \in 1..n |-> [s \in Seq(S) |-> s \o parts[i]]]
<1>1. n \in Nat /\ \A i \in 1..n : parts[i] \in Seq(S)
  BY LenProperties, ElementOfSeq
<1>2. step \in [1..n -> [Seq(S) -> Seq(S)]]
  BY <1>1, ConcatProperties
<1>3. << >> \in Seq(S)
  BY EmptySeq
<1>4. PICK f : Takes(f, n, Seq(S), << >>, step)
  <2> HIDE DEF step, n
  <2> QED
    BY <1>1, <1>2, <1>3, StepsExist
<1>5. /\ f \in [0..n -> Seq(S)] /\ f[0] = << >>
      /\ \A i \in 1..n : f[i] = f[i - 1] \o parts[i]
  <2>1. \A i \in 1..n : step[i][f[i - 1]] = f[i - 1] \o parts[i]
    <3> SUFFICES ASSUME NEW i \in 1..n
                 PROVE  step[i][f[i - 1]] = f[i - 1] \o parts[i]
      OBVIOUS
    <3>1. f[i - 1] \in Seq(S)
      <4>1. i - 1 \in 0..n /\ f \in [0..n -> Seq(S)]
        BY <1>1, <1>4 DEF Takes
      <4> QED
        BY <4>1
    <3> QED
      BY <3>1
  <2> HIDE DEF step, n
  <2> QED
    BY <2>1, <1>4 DEF Takes
<1>6. CASE n = 0
  <2>1. FlattenSeq(parts) = << >>
    BY <1>6, EmptySeq DEF FlattenSeq
  <2> QED
    BY <1>5, <1>6, <2>1
<1>7. CASE n # 0
  <2> DEFINE h == [i \in 1..n |-> f[i]]
             Eq(g) == g = [i \in 1..n |-> IF i = 1 THEN parts[i] ELSE g[i - 1] \o parts[i]]
             flat == CHOOSE g : Eq(g)
  <2>1. f[1] = parts[1]
    <3>1. 1 \in 1..n
      BY <1>1, <1>7
    <3>2. f[1] = f[0] \o parts[1]
      <4>1. f[1] = f[1 - 1] \o parts[1]
        BY <3>1, <1>5, Zenon
      <4> QED
        BY <4>1
    <3>3. parts[1] \in Seq(S)
      BY <3>1, <1>1
    <3> QED
      BY <3>2, <3>3, <1>5, ConcatEmptySeq
  <2>2. \A i \in 1..n : h[i] = IF i = 1 THEN parts[i] ELSE h[i - 1] \o parts[i]
    <3> SUFFICES ASSUME NEW i \in 1..n
                 PROVE  h[i] = IF i = 1 THEN parts[i] ELSE h[i - 1] \o parts[i]
      OBVIOUS
    <3>1. CASE i = 1
      BY <3>1, <1>1, <2>1
    <3>2. CASE i # 1
      <4>1. h[i - 1] = f[i - 1] /\ h[i] = f[i]
        BY <3>2, <1>1
      <4> QED
        BY <4>1, <3>2, <1>5
    <3> QED
      BY <3>1, <3>2
  <2>3. Eq(h)
    BY <2>2
  <2>4. Eq(flat)
    BY <2>3, Zenon
  <2>5. FlattenSeq(parts) = flat[n]
    BY <1>1, <1>7 DEF FlattenSeq
  <2> HIDE DEF flat, h
  <2> DEFINE g == [i \in 0..n |-> IF i = 0 THEN << >> ELSE flat[i]]
  <2>6. \A i \in 1..n : flat[i] = IF i = 1 THEN parts[i] ELSE flat[i - 1] \o parts[i]
    BY <2>4
  <2>7. \A i \in 1..n : f[i - 1] = g[i - 1] => f[i] = g[i]
    <3> SUFFICES ASSUME NEW i \in 1..n, f[i - 1] = g[i - 1]
                 PROVE  f[i] = g[i]
      BY Zenon
    <3>0. g[i] = flat[i]
      BY <1>1
    <3>1. CASE i = 1
      BY <3>0, <3>1, <2>1, <2>6
    <3>2. CASE i # 1
      <4>1. g[i - 1] = flat[i - 1]
        BY <3>2, <1>1
      <4>2. f[i] = flat[i - 1] \o parts[i]
        BY <4>1, <1>5
      <4> QED
        BY <4>2, <3>0, <3>2, <2>6
    <3> QED
      BY <3>1, <3>2
  <2>8. f[0] = g[0] /\ g[n] = flat[n]
    BY <1>1, <1>5, <1>7
  <2> HIDE DEF g
  <2>9. f[n] = g[n]
    <3> HIDE DEF n
    <3>1. SameSteps(f, g, n)
      BY <2>7, <2>8 DEF SameSteps
    <3> QED
      BY <1>1, <3>1, StepsEnd
  <2> QED
    BY <1>5, <2>5, <2>8, <2>9
<1> QED
  BY <1>6, <1>7

\* What is joined is a sequence of what the parts are made of.
LEMMA FlattenType ==
  ASSUME NEW S, NEW parts \in Seq(Seq(S))
  PROVE  FlattenSeq(parts) \in Seq(S) /\ (Len(parts) = 0 => FlattenSeq(parts) = << >>)
<1>1. PICK f \in [0..Len(parts) -> Seq(S)] : f[0] = << >> /\ FlattenSeq(parts) = f[Len(parts)]
  BY FlattenSteps
<1>2. Len(parts) \in 0..Len(parts)
  BY LenProperties
<1> QED
  BY <1>1, <1>2

\* One more part comes behind what the others make.
LEMMA FlattenOneMore ==
  ASSUME NEW S, NEW short \in Seq(Seq(S)), NEW long \in Seq(Seq(S)),
         Len(long) = Len(short) + 1, \A i \in 1..Len(short) : long[i] = short[i]
  PROVE  FlattenSeq(long) = FlattenSeq(short) \o long[Len(long)]
<1> DEFINE n == Len(short)
           m == Len(long)
<1>1. n \in Nat /\ m = n + 1
  BY LenProperties
<1>2. PICK f \in [0..n -> Seq(S)] :
        /\ f[0] = << >>
        /\ \A i \in 1..n : f[i] = f[i - 1] \o short[i]
        /\ FlattenSeq(short) = f[n]
  BY FlattenSteps
<1>3. PICK g \in [0..m -> Seq(S)] :
        /\ g[0] = << >>
        /\ \A i \in 1..m : g[i] = g[i - 1] \o long[i]
        /\ FlattenSeq(long) = g[m]
  BY FlattenSteps
<1>4. \A i \in 1..n : short[i] = long[i]
  OBVIOUS
<1> HIDE DEF n, m
<1>5. \A i \in 1..n : f[i - 1] = g[i - 1] => f[i] = g[i]
  <2> SUFFICES ASSUME NEW i \in 1..n, f[i - 1] = g[i - 1]
               PROVE  f[i] = g[i]
    OBVIOUS
  <2>1. i \in 1..m
    BY <1>1
  <2> QED
    BY <2>1, <1>2, <1>3, <1>4
<1>6. f[n] = g[n]
  <2>1. SameSteps(f, g, n)
    BY <1>2, <1>3, <1>5 DEF SameSteps
  <2> QED
    BY <1>1, <2>1, StepsEnd
<1>7. m \in 1..m /\ m - 1 = n
  BY <1>1
<1>8. FlattenSeq(long) = FlattenSeq(short) \o long[m]
  BY <1>2, <1>3, <1>6, <1>7
<1> QED
  BY <1>8 DEF m

(* The first k parts, joined.                                              *)
Joined(parts, k) == FlattenSeq([i \in 1..k |-> parts[i]])

\* Fronts grow part by part up to the whole.
LEMMA JoinedProperties ==
  ASSUME NEW S, NEW parts \in Seq(Seq(S))
  PROVE  /\ \A k \in 0..Len(parts) : Joined(parts, k) \in Seq(S)
         /\ Joined(parts, 0) = << >>
         /\ \A k \in 0..(Len(parts) - 1) :
              Joined(parts, k + 1) = Joined(parts, k) \o parts[k + 1]
         /\ Joined(parts, Len(parts)) = FlattenSeq(parts)
<1> DEFINE n == Len(parts)
           first(k) == [i \in 1..k |-> parts[i]]
<1>1. n \in Nat /\ \A i \in 1..n : parts[i] \in Seq(S)
  BY LenProperties, ElementOfSeq
<1>2. ASSUME NEW k \in 0..n
      PROVE  first(k) \in Seq(Seq(S)) /\ Len(first(k)) = k
  BY <1>1
<1>3. ASSUME NEW k \in 0..n
      PROVE  Joined(parts, k) \in Seq(S) /\ (k = 0 => Joined(parts, k) = << >>)
  <2> HIDE DEF first, n
  <2>1. FlattenSeq(first(k)) \in Seq(S) /\ (k = 0 => FlattenSeq(first(k)) = << >>)
    BY <1>2, FlattenType
  <2> QED
    BY <2>1 DEF Joined, first
<1>4. ASSUME NEW k \in 0..(n - 1)
      PROVE  Joined(parts, k + 1) = Joined(parts, k) \o parts[k + 1]
  <2>1. /\ k \in 0..n /\ k + 1 \in 0..n
        /\ first(k + 1)[k + 1] = parts[k + 1]
        /\ \A i \in 1..k : first(k + 1)[i] = first(k)[i]
    BY <1>1
  <2> HIDE DEF first, n
  <2> DEFINE short == first(k)
             long == first(k + 1)
  <2>2. /\ short \in Seq(Seq(S)) /\ long \in Seq(Seq(S))
        /\ Len(short) = k /\ Len(long) = k + 1
    BY <1>2, <2>1
  <2>3. \A i \in 1..Len(short) : long[i] = short[i]
    BY <2>1, <2>2
  <2>4. long[Len(long)] = parts[k + 1]
    BY <2>1, <2>2
  <2> HIDE DEF short, long
  <2>5. FlattenSeq(long) = FlattenSeq(short) \o long[Len(long)]
    BY <2>2, <2>3, FlattenOneMore
  <2> QED
    BY <2>4, <2>5 DEF Joined, first, short, long
<1>5. Joined(parts, n) = FlattenSeq(parts)
  <2>1. first(n) = parts
    BY <1>1, LenProperties
  <2> QED
    BY <2>1 DEF Joined
<1>6. 0 \in 0..n
  BY <1>1
<1> QED
  BY <1>3, <1>4, <1>5, <1>6

\* Three sequences can be joined in either order.
LEMMA Associates ==
  ASSUME NEW S, NEW a \in Seq(S), NEW t \in Seq(S), NEW u \in Seq(S)
  PROVE  t \o u \in Seq(S) /\ (a \o t) \o u = a \o (t \o u)
<1>1. t \o u \in Seq(S)
  BY ConcatProperties
<1>2. (a \o t) \o u = a \o (t \o u)
  BY ConcatAssociative
<1> QED
  BY <1>1, <1>2

(* The same, and what is known of two joined sequences, as facts about all *)
(* of them.                                                                *)
Associative(S) == \A p, q, r \in Seq(S) : (p \o q) \o r = p \o (q \o r)
Joinable(S) ==
  \A p, q \in Seq(S) :
    /\ p \o q \in Seq(S)
    /\ Len(p) \in Nat /\ Len(q) \in Nat
    /\ Len(p \o q) = Len(p) + Len(q)
    /\ \A i \in 1..Len(p) : (p \o q)[i] = p[i]
    /\ \A i \in 1..Len(q) : (p \o q)[Len(p) + i] = q[i]

\* Both hold for every set.
LEMMA Joining ==
  ASSUME NEW S
  PROVE  Associative(S) /\ Joinable(S)
<1>1. Associative(S)
  BY Associates DEF Associative
<1>2. ASSUME NEW p \in Seq(S), NEW q \in Seq(S)
      PROVE  /\ p \o q \in Seq(S)
             /\ Len(p) \in Nat /\ Len(q) \in Nat
             /\ Len(p \o q) = Len(p) + Len(q)
             /\ \A i \in 1..Len(p) : (p \o q)[i] = p[i]
             /\ \A i \in 1..Len(q) : (p \o q)[Len(p) + i] = q[i]
  <2>1. /\ p \o q \in Seq(S) /\ Len(p \o q) = Len(p) + Len(q)
        /\ \A i \in 1..(Len(p) + Len(q)) :
             (p \o q)[i] = IF i <= Len(p) THEN p[i] ELSE q[i - Len(p)]
    BY ConcatProperties
  <2>2. Len(p) \in Nat /\ Len(q) \in Nat
    BY LenProperties
  <2>3. /\ \A i \in 1..Len(p) : i \in 1..(Len(p) + Len(q)) /\ i <= Len(p)
        /\ \A i \in 1..Len(q) : /\ Len(p) + i \in 1..(Len(p) + Len(q))
                                 /\ ~(Len(p) + i <= Len(p)) /\ (Len(p) + i) - Len(p) = i
    BY <2>2
  <2> QED
    BY <2>1, <2>2, <2>3
<1> QED
  BY <1>1, <1>2, Zenon DEF Joinable

(* t completes s to the whole.                                             *)
Completes(whole, s, t) == whole = s \o t

\* What is completed can be completed further.
LEMMA CompletesMore ==
  ASSUME NEW S, NEW a \in Seq(S), NEW t \in Seq(S), NEW u \in Seq(S), NEW w, NEW x,
         Completes(w, a, t), Completes(x, w, u)
  PROVE  t \o u \in Seq(S) /\ Completes(x, a, t \o u)
<1>1. t \o u \in Seq(S) /\ (a \o t) \o u = a \o (t \o u)
  BY Associates
<1>2. x = (a \o t) \o u
  BY DEF Completes
<1> QED
  BY <1>1, <1>2 DEF Completes

\* A front that is completed to i parts is completed to one more.
LEMMA OneMoreBehind ==
  ASSUME NEW S, NEW parts \in Seq(Seq(S)), NEW i \in 0..(Len(parts) - 1),
         NEW a \in Seq(S), NEW t \in Seq(S), Completes(Joined(parts, i), a, t)
  PROVE  \E v \in Seq(S) : Completes(Joined(parts, i + 1), a, v)
<1>1. PICK u \in Seq(S) : Completes(Joined(parts, i + 1), Joined(parts, i), u)
  <2>1. i + 1 \in 1..Len(parts)
    BY LenProperties
  <2>2. parts[i + 1] \in Seq(S)
    BY <2>1, ElementOfSeq
  <2>3. Joined(parts, i + 1) = Joined(parts, i) \o parts[i + 1]
    BY JoinedProperties
  <2> QED
    BY <2>2, <2>3 DEF Completes
<1> QED
  BY <1>1, CompletesMore

\* The parts behind a front complete it to the whole.
LEMMA JoinedIsPrefix ==
  ASSUME NEW S, NEW parts \in Seq(Seq(S)), NEW k \in 0..Len(parts)
  PROVE  \E t \in Seq(S) : FlattenSeq(parts) = Joined(parts, k) \o t
<1> DEFINE n == Len(parts) - k
           Some(j) == \E t \in Seq(S) : Completes(Joined(parts, k + j), Joined(parts, k), t)
           P == {j \in 0..n : Some(j)}
<1>1. Len(parts) \in Nat /\ k \in Nat /\ n \in Nat /\ k + 0 = k /\ k + n = Len(parts)
  BY LenProperties
<1>2. Joined(parts, k) \in Seq(S)
  BY JoinedProperties
<1>3. Some(0)
  <2>1. << >> \in Seq(S) /\ Joined(parts, k) = Joined(parts, k) \o << >>
    BY <1>2, EmptySeq, ConcatEmptySeq
  <2> QED
    BY <1>1, <2>1 DEF Completes
<1>4. ASSUME NEW j \in 0..(n - 1), Some(j)
      PROVE  Some(j + 1)
  <2>1. k + j \in 0..(Len(parts) - 1) /\ k + (j + 1) = (k + j) + 1
    BY <1>1
  <2>2. \E v \in Seq(S) : Completes(Joined(parts, (k + j) + 1), Joined(parts, k), v)
    BY <1>2, <1>4, <2>1, OneMoreBehind
  <2> QED
    BY <2>1, <2>2
<1> HIDE DEF Some
<1>5. 0 \in P /\ \A j \in 0..(n - 1) : j \in P => j + 1 \in P
  BY <1>1, <1>3, <1>4
<1>6. n \in P
  <2> HIDE DEF P, n
  <2> QED
    BY <1>1, <1>5, BoundedInduction
<1>7. Some(n)
  BY <1>6
<1>8. PICK t \in Seq(S) : Completes(Joined(parts, k + n), Joined(parts, k), t)
  BY <1>7 DEF Some
<1> QED
  BY <1>1, <1>8, JoinedProperties DEF Completes

\* What is put behind a sequence leaves it a prefix.
LEMMA ConcatPrefix ==
  ASSUME NEW S, NEW s \in Seq(S), NEW t \in Seq(S)
  PROVE  IsPrefix(s, s \o t) /\ SubSeq(s \o t, 1, Len(s)) = s
<1>1. Len(s) \in Nat /\ Len(t) \in Nat /\ Len(s \o t) = Len(s) + Len(t) /\ s \o t \in Seq(S)
  BY LenProperties, ConcatProperties
<1>2. SubSeq(s \o t, 1, Len(s)) = s
  <2>1. CASE Len(s) = 0
    <3>1. s = << >>
      BY <2>1, EmptySeq
    <3> QED
      BY <2>1, <3>1, SubSeqEmpty
  <2>2. CASE Len(s) # 0
    <3>1. 1 \in 1..Len(s) /\ Len(s) \in 1..Len(s)
      BY <1>1, <2>2
    <3>2. SubSeq(s \o t, 1, Len(s)) = SubSeq(s, 1, Len(s))
      BY <3>1, SubSeqOfConcat1
    <3> QED
      BY <3>2, SubSeqFull
  <2> QED
    BY <2>1, <2>2
<1>3. SubSeq(s, 1, Len(s)) = s
  BY SubSeqFull
<1> QED
  BY <1>1, <1>2, <1>3 DEF IsPrefix

-----------------------------------------------------------------------------
(* Sequences without some of their elements *)

\* A front one element longer.
LEMMA LongerFront ==
  ASSUME NEW S, NEW s \in Seq(S), NEW i \in 0..(Len(s) - 1)
  PROVE  /\ SubSeq(s, 1, i) \in Seq(S)
         /\ s[i + 1] \in S
         /\ SubSeq(s, 1, i + 1) = Append(SubSeq(s, 1, i), s[i + 1])
<1>1. Len(s) \in Nat /\ i \in Nat /\ i + 1 \in 1..Len(s)
  BY LenProperties
<1>2. \A j \in 1..Len(s) : s[j] \in S
  BY ElementOfSeq
<1>3. SubSeq(s, 1, i) \in Seq(S)
  BY <1>1, <1>2, SubSeqProperties
<1>4. SubSeq(s, 1, i + 1) = SubSeq(s, 1, (i + 1) - 1) \o <<s[i + 1]>>
  <2>1. 1 \in 1..Len(s) /\ i + 1 \in 1..Len(s)
    BY <1>1
  <2> QED
    BY <2>1, SubSeqRecursiveSecond
<1>5. (i + 1) - 1 = i
  BY <1>1
<1> QED
  BY <1>1, <1>2, <1>3, <1>4, <1>5, AppendIsConcat

(* f[i] is what is left of the first i elements of s.                      *)
Drops(f, S, s, places) ==
  /\ f \in [0..Len(s) -> Seq(S)]
  /\ f[0] = << >>
  /\ \A i \in 1..Len(s) : f[i] = IF i \in places THEN f[i - 1] ELSE Append(f[i - 1], s[i])
  /\ Dropping(s, places) = f[Len(s)]

\* Dropping goes from the front to the back.
LEMMA DroppingSteps ==
  ASSUME NEW S, NEW s \in Seq(S), NEW places
  PROVE  \E f : Drops(f, S, s, places)
<1> DEFINE n == Len(s)
           next(i, x) == IF i \in places THEN x ELSE Append(x, s[i])
           step == [i \in 1..n |-> [x \in Seq(S) |-> next(i, x)]]
<1>1. n \in Nat /\ \A i \in 1..n : s[i] \in S
  BY LenProperties, ElementOfSeq
<1>2. step \in [1..n -> [Seq(S) -> Seq(S)]]
  BY <1>1, AppendProperties
<1>3. << >> \in Seq(S)
  BY EmptySeq
<1>4. PICK f : Takes(f, n, Seq(S), << >>, step)
  <2> HIDE DEF step, n
  <2> QED
    BY <1>1, <1>2, <1>3, StepsExist
<1>5. /\ f \in [0..n -> Seq(S)] /\ f[0] = << >>
      /\ \A i \in 1..n : f[i] = next(i, f[i - 1])
  <2>1. ASSUME NEW i \in 1..n
        PROVE  step[i][f[i - 1]] = next(i, f[i - 1])
    <3>1. i - 1 \in 0..n /\ f \in [0..n -> Seq(S)]
      BY <1>1, <1>4 DEF Takes
    <3> QED
      BY <3>1
  <2> HIDE DEF step, n, next
  <2> QED
    BY <2>1, <1>4 DEF Takes
<1> DEFINE Eq(g) == g = [i \in 0..n |-> IF i = 0 THEN << >>
                                        ELSE IF i \in places THEN g[i - 1]
                                        ELSE Append(g[i - 1], s[i])]
           g == CHOOSE h : Eq(h)
<1>6. Eq(f)
  <2>1. ASSUME NEW i \in 0..n
        PROVE  f[i] = IF i = 0 THEN << >>
                      ELSE IF i \in places THEN f[i - 1] ELSE Append(f[i - 1], s[i])
    <3>1. i = 0 \/ i \in 1..n
      BY <1>1
    <3> HIDE DEF n
    <3> QED
      BY <3>1, <1>5
  <2> HIDE DEF n
  <2> QED
    BY <2>1, <1>5
<1>7. Eq(g)
  BY <1>6, Zenon
<1>8. Dropping(s, places) = g[n]
  BY DEF Dropping
<1> HIDE DEF g
<1>9. SameSteps(f, g, n)
  <2>1. \A i \in 0..n : g[i] = IF i = 0 THEN << >> ELSE next(i, g[i - 1])
    BY <1>7
  <2>2. 0 \in 0..n /\ \A i \in 1..n : i \in 0..n /\ i # 0
    BY <1>1
  <2> HIDE DEF n, next
  <2> QED
    BY <2>1, <2>2, <1>5 DEF SameSteps
<1> HIDE DEF n
<1>10. f[n] = g[n]
  BY <1>1, <1>9, StepsEnd
<1> USE DEF n
<1> QED
  BY <1>5, <1>8, <1>10 DEF Drops

\* Host lines are left out one by one.
LEMMA WithoutHostsSteps ==
  ASSUME NEW S, NEW s \in Seq(S)
  PROVE  \E f \in [0..Len(s) -> Seq(S)] :
           /\ f[0] = << >>
           /\ \A i \in 1..Len(s) :
                f[i] = IF s[i] = Host THEN f[i - 1] ELSE Append(f[i - 1], s[i])
           /\ WithoutHosts(s) = f[Len(s)]
<1>1. PICK f : Drops(f, S, s, Hosts(s))
  BY DroppingSteps
<1>2. \A i \in 1..Len(s) : i \in Hosts(s) <=> s[i] = Host
  BY DEF Hosts
<1> QED
  BY <1>1, <1>2 DEF WithoutHosts, Drops

\* What is left is a sequence of the same symbols.
LEMMA WithoutHostsType ==
  ASSUME NEW S, NEW s \in Seq(S)
  PROVE  WithoutHosts(s) \in Seq(S) /\ (s = << >> => WithoutHosts(s) = << >>)
<1>1. PICK f \in [0..Len(s) -> Seq(S)] : f[0] = << >> /\ WithoutHosts(s) = f[Len(s)]
  BY WithoutHostsSteps
<1>2. Len(s) \in 0..Len(s) /\ (s = << >> => Len(s) = 0)
  BY LenProperties, EmptySeq
<1> QED
  BY <1>1, <1>2

\* What one more symbol makes of it.
LEMMA WithoutHostsAppend ==
  ASSUME NEW S, NEW s \in Seq(S), NEW x \in S
  PROVE  WithoutHosts(Append(s, x)) =
           IF x = Host THEN WithoutHosts(s) ELSE Append(WithoutHosts(s), x)
<1> DEFINE t == Append(s, x)
           n == Len(s)
           m == Len(t)
<1>1. /\ n \in Nat /\ m = n + 1 /\ t \in Seq(S) /\ t[m] = x
      /\ \A i \in 1..n : t[i] = s[i]
  BY LenProperties, AppendProperties
<1> HIDE DEF t
<1>2. PICK f \in [0..n -> Seq(S)] :
        /\ f[0] = << >>
        /\ \A i \in 1..n : f[i] = IF s[i] = Host THEN f[i - 1] ELSE Append(f[i - 1], s[i])
        /\ WithoutHosts(s) = f[n]
  BY WithoutHostsSteps
<1>3. PICK g \in [0..m -> Seq(S)] :
        /\ g[0] = << >>
        /\ \A i \in 1..m : g[i] = IF t[i] = Host THEN g[i - 1] ELSE Append(g[i - 1], t[i])
        /\ WithoutHosts(t) = g[m]
  BY <1>1, WithoutHostsSteps
<1> HIDE DEF n, m
<1>4. SameSteps(f, g, n)
  <2>1. \A i \in 1..n : i \in 1..m
    BY <1>1
  <2> QED
    BY <2>1, <1>1, <1>2, <1>3 DEF SameSteps
<1>5. f[n] = g[n]
  BY <1>1, <1>4, StepsEnd
<1>6. m \in 1..m /\ m - 1 = n
  <2>1. n \in Nat /\ m = n + 1
    BY <1>1
  <2> QED
    BY <2>1
<1>7. WithoutHosts(t) = IF x = Host THEN WithoutHosts(s) ELSE Append(WithoutHosts(s), x)
  BY <1>1, <1>2, <1>3, <1>5, <1>6
<1> QED
  BY <1>7 DEF t

\* Host lines are left out of the parts of a stream as of the whole.
LEMMA WithoutHostsConcat ==
  ASSUME NEW S, NEW s \in Seq(S), NEW t \in Seq(S)
  PROVE  WithoutHosts(s \o t) = WithoutHosts(s) \o WithoutHosts(t)
<1> DEFINE n == Len(t)
           front(i) == SubSeq(t, 1, i)
           P == {i \in 0..n :
                   WithoutHosts(s \o front(i)) = WithoutHosts(s) \o WithoutHosts(front(i))}
<1>1. n \in Nat
  BY LenProperties
<1>2. 0 \in P
  <2>1. front(0) = << >>
    BY SubSeqEmpty
  <2>2. s \o << >> = s /\ WithoutHosts(s) \o << >> = WithoutHosts(s)
    BY WithoutHostsType, ConcatEmptySeq
  <2>3. WithoutHosts(<< >>) = << >>
    BY EmptySeq, WithoutHostsType
  <2>4. WithoutHosts(s \o front(0)) = WithoutHosts(s) \o WithoutHosts(front(0))
    <3> HIDE DEF front
    <3> QED
      BY <2>1, <2>2, <2>3
  <2>5. 0 \in 0..n
    BY <1>1
  <2> HIDE DEF front, n
  <2> QED
    BY <2>4, <2>5
<1>3. ASSUME NEW i \in 0..(n - 1), i \in P
      PROVE  WithoutHosts(s \o front(i + 1)) = WithoutHosts(s) \o WithoutHosts(front(i + 1))
  <2> DEFINE x == t[i + 1]
             u == front(i)
  <2>1. u \in Seq(S) /\ x \in S /\ front(i + 1) = Append(u, x)
    <3>1. i \in 0..(Len(t) - 1)
      BY <1>1, <1>3
    <3> QED
      BY <3>1, LongerFront
  <2>2. WithoutHosts(s \o u) = WithoutHosts(s) \o WithoutHosts(u)
    BY <1>1, <1>3
  <2> HIDE DEF x, u, front
  <2>3. s \o Append(u, x) = Append(s \o u, x) /\ s \o u \in Seq(S)
    <3>1. <<x>> \in Seq(S)
      BY <2>1
    <3>2. s \o u \in Seq(S) /\ (s \o u) \o <<x>> = s \o (u \o <<x>>)
      BY <2>1, <3>1, ConcatProperties, ConcatAssociative
    <3> QED
      BY <2>1, <3>2, AppendIsConcat
  <2> DEFINE a == WithoutHosts(s)
             b == WithoutHosts(u)
  <2>4. a \in Seq(S) /\ b \in Seq(S)
    BY <2>1, WithoutHostsType
  <2>5. /\ WithoutHosts(Append(u, x)) = IF x = Host THEN b ELSE Append(b, x)
        /\ WithoutHosts(Append(s \o u, x)) = IF x = Host THEN a \o b ELSE Append(a \o b, x)
    BY <2>1, <2>2, <2>3, WithoutHostsAppend
  <2> HIDE DEF a, b
  <2>6. a \o Append(b, x) = Append(a \o b, x)
    <3>1. <<x>> \in Seq(S) /\ Associative(S) /\ Joinable(S)
      BY <2>1, Joining
    <3>2. a \o b \in Seq(S)
      BY <2>4, <3>1, Zenon DEF Joinable
    <3>3. (a \o b) \o <<x>> = a \o (b \o <<x>>)
      BY <2>4, <3>1, Zenon DEF Associative
    <3>4. Append(b, x) = b \o <<x>> /\ Append(a \o b, x) = (a \o b) \o <<x>>
      BY <2>1, <2>4, <3>2, AppendIsConcat
    <3> QED
      BY <3>3, <3>4
  <2> QED
    BY <2>1, <2>3, <2>5, <2>6 DEF a
<1>4. \A i \in 0..(n - 1) : i \in P => i + 1 \in P
  BY <1>1, <1>3
<1>5. n \in P
  <2> HIDE DEF P
  <2> QED
    BY <1>1, <1>2, <1>4, BoundedInduction
<1>6. front(n) = t
  BY SubSeqFull
<1> QED
  BY <1>1, <1>5, <1>6

\* Dropping the later Host lines drops no other (host.go:197-216).
LEMMA DedupeHostDropsHosts ==
  ASSUME NEW S, NEW block \in Seq(S)
  PROVE  /\ DedupeHost(block) \in Seq(S)
         /\ WithoutHosts(DedupeHost(block)) = WithoutHosts(block)
<1> DEFINE n == Len(block)
           places == {i \in Hosts(block) : \E j \in Hosts(block) : j < i}
           front(i) == SubSeq(block, 1, i)
<1>1. n \in Nat
  BY LenProperties
<1>2. PICK f : Drops(f, S, block, places)
  <2> HIDE DEF places
  <2> QED
    BY DroppingSteps
<1>3. \A i \in 1..n : i \in places => block[i] = Host
  BY DEF Hosts
<1> HIDE DEF places
<1> DEFINE P == {i \in 0..n : WithoutHosts(f[i]) = WithoutHosts(front(i))}
<1>4. 0 \in P
  <2>1. front(0) = << >>
    BY SubSeqEmpty
  <2>2. 0 \in 0..n /\ f[0] = << >>
    BY <1>1, <1>2 DEF Drops
  <2> HIDE DEF front, n
  <2> QED
    BY <2>1, <2>2
<1>5. ASSUME NEW i \in 0..(n - 1), i \in P
      PROVE  WithoutHosts(f[i + 1]) = WithoutHosts(front(i + 1))
  <2> DEFINE x == block[i + 1]
             u == front(i)
             v == f[i]
  <2>1. u \in Seq(S) /\ x \in S /\ front(i + 1) = Append(u, x)
    <3>1. i \in 0..(Len(block) - 1)
      BY <1>1, <1>5
    <3> QED
      BY <3>1, LongerFront
  <2>2. WithoutHosts(v) = WithoutHosts(u) /\ v \in Seq(S)
    BY <1>1, <1>2, <1>5 DEF Drops
  <2>3. (f[i + 1] = v /\ x = Host) \/ f[i + 1] = Append(v, x)
    <3>1. i + 1 \in 1..n /\ (i + 1) - 1 = i
      BY <1>1, <1>5
    <3>2. f[i + 1] = IF i + 1 \in places THEN f[(i + 1) - 1] ELSE Append(f[(i + 1) - 1], block[i + 1])
      BY <1>2, <3>1, Zenon DEF Drops
    <3> QED
      BY <1>3, <3>1, <3>2
  <2> HIDE DEF x, u, v, front
  <2>4. WithoutHosts(Append(u, x)) = IF x = Host THEN WithoutHosts(u) ELSE Append(WithoutHosts(u), x)
    BY <2>1, WithoutHostsAppend
  <2>5. WithoutHosts(Append(v, x)) = IF x = Host THEN WithoutHosts(v) ELSE Append(WithoutHosts(v), x)
    BY <2>1, <2>2, WithoutHostsAppend
  <2> QED
    BY <2>1, <2>2, <2>3, <2>4, <2>5
<1>6. \A i \in 0..(n - 1) : i \in P => i + 1 \in P
  BY <1>1, <1>5
<1>7. n \in P
  <2> HIDE DEF P
  <2> QED
    BY <1>1, <1>4, <1>6, BoundedInduction
<1>8. front(n) = block
  BY SubSeqFull
<1>9. f[n] \in Seq(S) /\ DedupeHost(block) = f[n]
  BY <1>1, <1>2 DEF Drops, DedupeHost, places
<1> QED
  BY <1>7, <1>8, <1>9

-----------------------------------------------------------------------------
(* Pieces of a sequence *)

\* n elements behind the first i.
Piece(s, i, n) == SubSeq(s, i + 1, i + n)

\* A piece has its length, and its elements their places.
LEMMA PieceProperties ==
  ASSUME NEW S, NEW s \in Seq(S), NEW i \in Nat, NEW n \in Nat, i + n <= Len(s)
  PROVE  /\ Piece(s, i, n) \in Seq(S)
         /\ Len(Piece(s, i, n)) = n
         /\ \A j \in 1..n : Piece(s, i, n)[j] = s[i + j]
         /\ n = 0 => Piece(s, i, n) = << >>
<1>1. Len(s) \in Nat /\ \A j \in (i + 1)..(i + n) : s[j] \in S
  BY LenProperties, ElementOfSeq
<1>2. /\ SubSeq(s, i + 1, i + n) \in Seq(S)
      /\ Len(SubSeq(s, i + 1, i + n)) = IF i + 1 <= i + n THEN (i + n) - (i + 1) + 1 ELSE 0
      /\ \A j \in 1..((i + n) - (i + 1) + 1) : SubSeq(s, i + 1, i + n)[j] = s[(i + 1) + j - 1]
  BY <1>1, SubSeqProperties
<1>3. (i + n) - (i + 1) + 1 = n /\ \A j \in 1..n : (i + 1) + j - 1 = i + j
  OBVIOUS
<1>4. n = 0 => SubSeq(s, i + 1, i + n) = << >>
  BY SubSeqEmpty
<1> QED
  BY <1>2, <1>3, <1>4 DEF Piece

\* A piece of one element.
LEMMA OnePiece ==
  ASSUME NEW S, NEW s \in Seq(S), NEW i \in Nat, i + 1 <= Len(s)
  PROVE  Piece(s, i, 1) = <<s[i + 1]>>
<1>1. /\ Piece(s, i, 1) \in Seq(S) /\ Len(Piece(s, i, 1)) = 1
      /\ \A j \in 1..1 : Piece(s, i, 1)[j] = s[i + j]
  <2>1. \A n \in Nat : i + n <= Len(s) =>
          /\ Piece(s, i, n) \in Seq(S) /\ Len(Piece(s, i, n)) = n
          /\ \A j \in 1..n : Piece(s, i, n)[j] = s[i + j]
    BY PieceProperties, Zenon
  <2>2. 1 \in Nat
    OBVIOUS
  <2> QED
    BY <2>1, <2>2, Zenon
<1>2. Piece(s, i, 1)[1] = s[i + 1]
  BY <1>1
<1> QED
  BY <1>1, <1>2

\* Neighbouring pieces make one.
LEMMA PiecesJoin ==
  ASSUME NEW S, NEW s \in Seq(S), NEW i \in Nat, NEW n \in Nat, NEW m \in Nat,
         i + n + m <= Len(s)
  PROVE  Piece(s, i, n) \o Piece(s, i + n, m) = Piece(s, i, n + m)
<1>1. /\ Len(s) \in Nat
      /\ i + 1 \in 1..(Len(s) + 1)
      /\ i + n \in ((i + 1) - 1)..Len(s)
      /\ i + n + m \in (i + n)..Len(s)
      /\ i + (n + m) = i + n + m
  BY LenProperties
<1>2. SubSeq(s, i + 1, i + n) \o SubSeq(s, (i + n) + 1, i + n + m) = SubSeq(s, i + 1, i + n + m)
  BY <1>1, ConcatAdjacentSubSeq
<1> QED
  BY <1>1, <1>2 DEF Piece

\* The whole is a piece.
LEMMA WholePiece ==
  ASSUME NEW S, NEW s \in Seq(S)
  PROVE  /\ Piece(s, 0, Len(s)) = s
         /\ \A i \in 0..Len(s) : Piece(s, 0, i) = SubSeq(s, 1, i)
<1>1. Len(s) \in Nat
  BY LenProperties
<1>2. \A i \in 0..Len(s) : 0 + 1 = 1 /\ 0 + i = i
  BY <1>1
<1> QED
  BY <1>1, <1>2, SubSeqFull DEF Piece

\* A sequence cut in two.
LEMMA SplitAt ==
  ASSUME NEW S, NEW s \in Seq(S), NEW n \in Nat, n <= Len(s)
  PROVE  /\ SubSeq(s, 1, n) \in Seq(S) /\ SubSeq(s, n + 1, Len(s)) \in Seq(S)
         /\ SubSeq(s, 1, n) \o SubSeq(s, n + 1, Len(s)) = s
         /\ Len(SubSeq(s, 1, n)) = n
<1>1. /\ Len(s) \in Nat /\ 1 \in 1..(Len(s) + 1) /\ n \in (1 - 1)..Len(s)
      /\ Len(s) \in n..Len(s) /\ n \in Int /\ 1 \in Int /\ n + 1 \in Int
      /\ \A i \in 1..n : s[i] \in S
      /\ \A i \in (n + 1)..Len(s) : s[i] \in S
  BY LenProperties, ElementOfSeq
<1>2. SubSeq(s, 1, n) \o SubSeq(s, n + 1, Len(s)) = SubSeq(s, 1, Len(s))
  BY <1>1, ConcatAdjacentSubSeq
<1>3. SubSeq(s, 1, n) \in Seq(S) /\ Len(SubSeq(s, 1, n)) = IF 1 <= n THEN n - 1 + 1 ELSE 0
  BY <1>1, SubSeqProperties
<1>4. SubSeq(s, n + 1, Len(s)) \in Seq(S)
  BY <1>1, SubSeqProperties
<1>5. Len(SubSeq(s, 1, n)) = n
  BY <1>3
<1>6. SubSeq(s, 1, Len(s)) = s
  BY SubSeqFull
<1> DEFINE x == SubSeq(s, 1, n)
           y == SubSeq(s, n + 1, Len(s))
           z == SubSeq(s, 1, Len(s))
<1>7. x \in Seq(S) /\ y \in Seq(S) /\ x \o y = z /\ z = s /\ Len(x) = n
  BY <1>2, <1>3, <1>4, <1>5, <1>6
<1> HIDE DEF x, y, z
<1>8. x \in Seq(S) /\ y \in Seq(S) /\ x \o y = s /\ Len(x) = n
  BY <1>7
<1> QED
  BY <1>8 DEF x, y

\* Pieces of the second of two joined sequences.
LEMMA PieceBehind ==
  ASSUME NEW S, NEW s \in Seq(S), NEW t \in Seq(S), NEW i \in Nat, NEW n \in Nat,
         i + n <= Len(t)
  PROVE  Piece(s \o t, Len(s) + i, n) = Piece(t, i, n)
<1>1. Len(s) \in Nat /\ Len(t) \in Nat /\ s \o t \in Seq(S) /\ Len(s \o t) = Len(s) + Len(t)
  BY LenProperties, ConcatProperties
<1>2. CASE n = 0
  <2>1. Piece(s \o t, Len(s) + i, 0) = << >> /\ Piece(t, i, 0) = << >>
    BY <1>1, <1>2, SubSeqEmpty DEF Piece
  <2> QED
    BY <1>2, <2>1
<1>3. CASE n # 0
  <2>1. /\ Len(s) + i + 1 \in (Len(s) + 1)..(Len(s) + Len(t))
        /\ Len(s) + i + n \in (Len(s) + 1)..(Len(s) + Len(t))
        /\ (Len(s) + i + 1) - Len(s) = i + 1 /\ (Len(s) + i + n) - Len(s) = i + n
    BY <1>1, <1>3
  <2>2. SubSeq(s \o t, Len(s) + i + 1, Len(s) + i + n)
          = SubSeq(t, (Len(s) + i + 1) - Len(s), (Len(s) + i + n) - Len(s))
    BY <2>1, SubSeqOfConcat2
  <2> QED
    BY <2>1, <2>2 DEF Piece
<1> QED
  BY <1>2, <1>3

\* Pieces of the first of two joined sequences.
LEMMA PieceBefore ==
  ASSUME NEW S, NEW s \in Seq(S), NEW t \in Seq(S), NEW i \in Nat, NEW n \in Nat,
         i + n <= Len(s)
  PROVE  Piece(s \o t, i, n) = Piece(s, i, n)
<1>1. Len(s) \in Nat /\ Len(t) \in Nat /\ s \o t \in Seq(S) /\ Len(s \o t) = Len(s) + Len(t)
  BY LenProperties, ConcatProperties
<1>2. CASE n = 0
  <2>1. Piece(s \o t, i, 0) = << >> /\ Piece(s, i, 0) = << >>
    BY <1>1, <1>2, SubSeqEmpty DEF Piece
  <2> QED
    BY <1>2, <2>1
<1>3. CASE n # 0
  <2>1. i + 1 \in 1..Len(s) /\ i + n \in 1..Len(s)
    BY <1>1, <1>3
  <2>2. SubSeq(s \o t, i + 1, i + n) = SubSeq(s, i + 1, i + n)
    BY <2>1, SubSeqOfConcat1
  <2> QED
    BY <2>2 DEF Piece
<1> QED
  BY <1>2, <1>3

-----------------------------------------------------------------------------
(* The invariant *)

Request == [head : Seq(Symbols), body : Seq(Symbols)]

OpenWeb ==
  [state : {"open"}, requests : Requests, taken : Nat, checked : BOOLEAN, tls : BOOLEAN,
   held : Seq(Symbols), buf : Seq(Symbols), bodyLeft : Nat, out : Seq(Symbols), cut : BOOLEAN]

(* Nothing happens before checkTLS; a block is held back only with nothing *)
(* else pending; TLS has no bodies.                                        *)
Stage(w) ==
  /\ w.taken <= Len(Wire(w))
  /\ ~w.checked => /\ w.taken = 0 /\ w.held = << >> /\ w.buf = << >> /\ w.out = << >>
                   /\ w.bodyLeft = 0 /\ ~w.tls /\ ~w.cut
  /\ w.held # << >> => w.buf = << >> /\ w.bodyLeft = 0 /\ ~w.tls
  /\ w.tls => w.bodyLeft = 0

(* Nothing but Host lines has been lost, repeated or moved.                *)
Kept(w) ==
  WithoutHosts(w.out \o w.buf \o w.held) = WithoutHosts(SubSeq(Wire(w), 1, w.taken))

(* The requests as they come, and as net/http is to read them.             *)
Asked(w) == [i \in 1..Len(w.requests) |-> w.requests[i].head \o w.requests[i].body]
Wanted(w) == [i \in 1..Len(w.requests) |->
                DedupeHost(w.requests[i].head) \o w.requests[i].body]

(* k requests are through, up to what is left of the last one's body, and  *)
(* a part of the next one's head is held back.                             *)
After(w, k) ==
  /\ w.taken + w.bodyLeft = Len(Joined(Asked(w), k)) + Len(w.held)
  /\ w.held # << >> => k < Len(w.requests)
  /\ k < Len(w.requests) =>
       LET head == w.requests[k + 1].head
       IN  Len(w.held) < Len(head) /\ w.held = SubSeq(head, 1, Len(w.held))
  /\ w.out \o w.buf \o Piece(Wire(w), w.taken, w.bodyLeft) = Joined(Wanted(w), k)

InPlace(w) ==
  IF Wire(w)[1] = Hello
  THEN /\ w.held = << >> /\ (w.checked => w.tls) /\ ~w.cut
       /\ w.out \o w.buf = SubSeq(Wire(w), 1, w.taken)
  ELSE ~w.tls /\ (~w.cut => \E k \in 0..Len(w.requests) : After(w, k))

WebInv == web \in {NoWeb, WebEnded} \/ (web \in OpenWeb /\ Stage(web) /\ Kept(web) /\ InPlace(web))

\* What the wire carries.
LEMMA WireType ==
  ASSUME NEW w, w.requests \in Requests
  PROVE  /\ w.requests \in Seq(Request)
         /\ Asked(w) \in Seq(Seq(Symbols)) /\ Len(Asked(w)) = Len(w.requests)
         /\ Wanted(w) \in Seq(Seq(Symbols)) /\ Len(Wanted(w)) = Len(w.requests)
         /\ Wire(w) = FlattenSeq(Asked(w))
         /\ Wire(w) \in Seq(Symbols)
         /\ Len(Wire(w)) \in Nat
<1> DEFINE requests == w.requests
<1>1. requests \in Seq(Request)
  BY HTTPFixAssumption DEF Request
<1>2. /\ Len(requests) \in Nat
      /\ \A i \in 1..Len(requests) : requests[i] \in Request
  BY <1>1, LenProperties, ElementOfSeq
<1>3. \A i \in 1..Len(requests) : /\ requests[i].head \in Seq(Symbols)
                                  /\ requests[i].body \in Seq(Symbols)
  BY <1>2 DEF Request
<1>4. \A i \in 1..Len(requests) : /\ requests[i].head \o requests[i].body \in Seq(Symbols)
                                  /\ DedupeHost(requests[i].head) \o requests[i].body \in Seq(Symbols)
  BY <1>3, ConcatProperties, DedupeHostDropsHosts
<1>5. /\ Asked(w) \in Seq(Seq(Symbols)) /\ Len(Asked(w)) = Len(requests)
      /\ Wanted(w) \in Seq(Seq(Symbols)) /\ Len(Wanted(w)) = Len(requests)
  BY <1>2, <1>4 DEF Asked, Wanted
<1>6. Wire(w) = FlattenSeq(Asked(w))
  BY DEF Wire, Asked
<1>7. Wire(w) \in Seq(Symbols)
  BY <1>5, <1>6, FlattenType
<1>8. Len(Wire(w)) \in Nat
  BY <1>7, LenProperties
<1> QED
  BY <1>1, <1>5, <1>6, <1>7, <1>8

\* It does not change while the connection is open.
LEMMA SameWire ==
  ASSUME NEW w, NEW v, v.requests = w.requests
  PROVE  Wire(v) = Wire(w) /\ Asked(v) = Asked(w) /\ Wanted(v) = Wanted(w)
BY DEF Wire, Asked, Wanted

-----------------------------------------------------------------------------
(* Only Host lines are dropped *)

\* What a longer piece of the wire adds.
LEMMA WithoutHostsGrows ==
  ASSUME NEW S, NEW s \in Seq(S), NEW i \in Nat, NEW n \in Nat, i + n <= Len(s)
  PROVE  WithoutHosts(SubSeq(s, 1, i + n))
           = WithoutHosts(SubSeq(s, 1, i)) \o WithoutHosts(Piece(s, i, n))
<1>1. Len(s) \in Nat /\ i \in 0..Len(s) /\ i + n \in 0..Len(s) /\ 0 + i = i /\ 0 + i + n <= Len(s)
      /\ 0 + i <= Len(s)
  BY LenProperties
<1>2. SubSeq(s, 1, i) = Piece(s, 0, i) /\ SubSeq(s, 1, i + n) = Piece(s, 0, i + n)
  BY <1>1, WholePiece
<1>3. Piece(s, 0, i) \o Piece(s, i, n) = Piece(s, 0, i + n)
  <2>1. Piece(s, 0, i) \o Piece(s, 0 + i, n) = Piece(s, 0, i + n)
    BY <1>1, PiecesJoin
  <2> QED
    BY <1>1, <2>1
<1>4. Piece(s, 0, i) \in Seq(S) /\ Piece(s, i, n) \in Seq(S)
  BY <1>1, PieceProperties
<1>5. WithoutHosts(Piece(s, 0, i) \o Piece(s, i, n))
        = WithoutHosts(Piece(s, 0, i)) \o WithoutHosts(Piece(s, i, n))
  BY <1>4, WithoutHostsConcat
<1> QED
  BY <1>2, <1>3, <1>5

(* What w holds of the wire. *)
Total(w) == w.out \o w.buf \o w.held

\* All that was taken is a sequence of symbols.
LEMMA TotalType ==
  ASSUME NEW w, w.out \in Seq(Symbols), w.buf \in Seq(Symbols), w.held \in Seq(Symbols)
  PROVE  /\ Total(w) \in Seq(Symbols)
         /\ w.buf = << >> => Total(w) = w.out \o w.held
         /\ w.held = << >> => Total(w) = w.out \o w.buf
         /\ w.buf = << >> /\ w.held = << >> => Total(w) = w.out
<1> DEFINE a == w.out
           b == w.buf
           c == w.held
<1>1. a \in Seq(Symbols) /\ b \in Seq(Symbols) /\ c \in Seq(Symbols) /\ Total(w) = (a \o b) \o c
  BY DEF Total
<1> HIDE DEF a, b, c
<1>2. a \o b \in Seq(Symbols) /\ (a \o b) \o c \in Seq(Symbols)
  BY <1>1, ConcatProperties
<1>3. a \o << >> = a /\ (a \o b) \o << >> = a \o b
  BY <1>1, <1>2, ConcatEmptySeq
<1>4. b = << >> => Total(w) = a \o c
  BY <1>1, <1>3
<1>5. c = << >> => Total(w) = a \o b
  BY <1>1, <1>3
<1>6. Total(w) \in Seq(Symbols)
  BY <1>1, <1>2
<1> QED
  BY <1>3, <1>4, <1>5, <1>6 DEF a, b, c

\* n more symbols are taken, and what they are worth is added.
LEMMA KeptGrows ==
  ASSUME NEW w \in OpenWeb, Kept(w), NEW v \in OpenWeb, v.requests = w.requests,
         NEW n \in Nat, v.taken = w.taken + n, v.taken <= Len(Wire(w)),
         NEW more \in Seq(Symbols),
         WithoutHosts(more) = WithoutHosts(Piece(Wire(w), w.taken, n)),
         WithoutHosts(Total(v)) = WithoutHosts(Total(w) \o more)
  PROVE  Kept(v)
<1>1. Wire(w) \in Seq(Symbols) /\ w.taken \in Nat
  BY WireType DEF OpenWeb
<1>2. Wire(v) = Wire(w)
  BY SameWire
<1>3. Total(w) \in Seq(Symbols)
  BY TotalType DEF OpenWeb
<1>4. WithoutHosts(Total(w) \o more) = WithoutHosts(Total(w)) \o WithoutHosts(more)
  BY <1>3, WithoutHostsConcat
<1> DEFINE i == w.taken
           s == Wire(w)
<1>5. WithoutHosts(SubSeq(s, 1, i + n)) = WithoutHosts(SubSeq(s, 1, i)) \o WithoutHosts(Piece(s, i, n))
  <2>1. s \in Seq(Symbols) /\ i \in Nat /\ i + n <= Len(s)
    BY <1>1
  <2> HIDE DEF s, i
  <2> QED
    BY <2>1, WithoutHostsGrows
<1>6. WithoutHosts(Total(w)) = WithoutHosts(SubSeq(s, 1, i))
  BY DEF Kept, Total
<1>7. WithoutHosts(Total(v)) = WithoutHosts(SubSeq(Wire(v), 1, v.taken))
  BY <1>2, <1>4, <1>5, <1>6
<1> QED
  BY <1>7 DEF Kept, Total

\* A connection begins with nothing taken.
LEMMA WrappedKept ==
  ASSUME NEW requests \in Requests
  PROVE  LET w == Wrapped(requests) IN w \in OpenWeb /\ Stage(w) /\ Kept(w)
<1> DEFINE w == Wrapped(requests)
<1>1. << >> \in Seq(Symbols)
  BY EmptySeq
<1>2. w \in OpenWeb
  BY <1>1 DEF Wrapped, OpenWeb
<1>3. Len(Wire(w)) \in Nat
  BY <1>2, WireType DEF OpenWeb
<1>4. Stage(w)
  BY <1>3 DEF Stage, Wrapped
<1>5. Total(w) = << >> /\ w.taken = 0
  <2>1. w.out = << >> /\ w.buf = << >> /\ w.held = << >> /\ w.taken = 0
    BY DEF Wrapped
  <2> QED
    BY <1>1, <2>1, TotalType
<1>6. SubSeq(Wire(w), 1, 0) = << >>
  BY SubSeqEmpty
<1>7. Kept(w)
  BY <1>5, <1>6 DEF Kept, Total
<1> QED
  BY <1>2, <1>4, <1>7

\* checkTLS keeps what it took of a handshake.
LEMMA CheckTLSKept ==
  ASSUME web \in OpenWeb, Stage(web), Kept(web), NEW n, CheckTLS(n)
  PROVE  web' \in OpenWeb /\ Stage(web') /\ Kept(web')
<1>1. /\ web.out = << >> /\ web.buf = << >> /\ web.held = << >> /\ web.taken = 0
      /\ web.bodyLeft = 0 /\ ~web.checked
  BY DEF CheckTLS, Stage
<1>2. Wire(web) \in Seq(Symbols) /\ Len(Wire(web)) \in Nat
  BY WireType DEF OpenWeb
<1>3. Total(web) = << >>
  BY <1>1, TotalType DEF OpenWeb
<1>4. CASE Wire(web)[1] = Hello
  <2>1. /\ n \in 1..Len(Wire(web))
        /\ web' = [web EXCEPT !.checked = TRUE, !.tls = TRUE, !.taken = n,
                              !.buf = SubSeq(Wire(web), 1, n)]
    BY <1>1, <1>2, <1>4 DEF CheckTLS, Unread
  <2>2. Piece(Wire(web), 0, n) = SubSeq(Wire(web), 1, n) /\ Piece(Wire(web), 0, n) \in Seq(Symbols)
    <3>1. n \in Nat /\ n \in 0..Len(Wire(web)) /\ 0 + n <= Len(Wire(web))
      BY <2>1, <1>2
    <3> QED
      BY <3>1, <1>2, WholePiece, PieceProperties
  <2>3. web' \in OpenWeb
    <3> DEFINE x == SubSeq(Wire(web), 1, n)
    <3>1. x \in Seq(Symbols) /\ n \in Nat
      BY <2>1, <2>2, <1>2
    <3>2. web' = [web EXCEPT !.checked = TRUE, !.tls = TRUE, !.taken = n, !.buf = x]
      BY <2>1
    <3> HIDE DEF x
    <3> QED
      BY <3>1, <3>2 DEF OpenWeb
  <2>4. /\ web'.out = << >> /\ web'.buf = SubSeq(Wire(web), 1, n) /\ web'.held = << >>
        /\ web'.taken = n /\ web'.requests = web.requests /\ web'.bodyLeft = 0 /\ web'.checked
    BY <2>1, <1>1 DEF OpenWeb
  <2>5. Wire(web') = Wire(web)
    BY <2>4, SameWire
  <2>6. Stage(web')
    BY <2>1, <2>4, <2>5, <1>2 DEF Stage
  <2>7. Total(web') = SubSeq(Wire(web), 1, n)
    <3>1. Total(web') = << >> \o SubSeq(Wire(web), 1, n)
      BY <2>3, <2>4, TotalType DEF OpenWeb
    <3> QED
      BY <3>1, <2>2, ConcatEmptySeq
  <2>8. Kept(web')
    BY <2>4, <2>5, <2>7 DEF Kept, Total
  <2> QED
    BY <2>3, <2>6, <2>8
<1>5. CASE Wire(web)[1] # Hello
  <2>1. web' = [web EXCEPT !.checked = TRUE]
    BY <1>5 DEF CheckTLS
  <2>2. web' \in OpenWeb
    BY <2>1 DEF OpenWeb
  <2>3. /\ web'.out = << >> /\ web'.buf = << >> /\ web'.held = << >> /\ web'.taken = 0
        /\ web'.requests = web.requests /\ web'.bodyLeft = 0 /\ web'.checked
    BY <2>1, <1>1 DEF OpenWeb
  <2>4. Wire(web') = Wire(web)
    BY <2>3, SameWire
  <2>5. Stage(web')
    BY <2>3, <2>4, <1>2 DEF Stage
  <2>6. Kept(web')
    BY <2>3, <2>4, <1>1 DEF Kept
  <2> QED
    BY <2>2, <2>5, <2>6
<1> QED
  BY <1>4, <1>5

\* The least of two numbers.
LEMMA MinOfTwo ==
  ASSUME NEW a \in Nat, NEW b \in Nat
  PROVE  Min({a, b}) \in Nat /\ Min({a, b}) <= a /\ Min({a, b}) <= b
         /\ (a > 0 /\ b > 0 => Min({a, b}) > 0)
<1> DEFINE least(x) == x \in {a, b} /\ \A y \in {a, b} : x <= y
<1>1. \E x : least(x)
  <2>1. a <= b \/ b <= a
    OBVIOUS
  <2> QED
    BY <2>1
<1>2. least(Min({a, b}))
  BY <1>1, Zenon DEF Min
<1> QED
  BY <1>2

\* Pending bytes go from one place to the next.
LEMMA HandKept ==
  ASSUME web \in OpenWeb, Stage(web), Kept(web), NEW room \in Rooms, Hand(room)
  PROVE  /\ web' \in OpenWeb /\ Stage(web') /\ Kept(web')
         /\ web'.out \o web'.buf = web.out \o web.buf
         /\ web' = [web EXCEPT !.out = web'.out, !.buf = web'.buf]
<1> DEFINE n == Min({room, Len(web.buf)})
           b == web.buf
<1>1. web.buf \in Seq(Symbols) /\ Len(b) \in Nat /\ room \in Nat /\ web.out \in Seq(Symbols)
  BY HTTPFixAssumption, LenProperties DEF OpenWeb
<1>2. n \in Nat /\ n <= Len(b)
  BY <1>1, MinOfTwo
<1> HIDE DEF n
<1>3. web' = [web EXCEPT !.out = @ \o SubSeq(web.buf, 1, n), !.buf = SubSeq(@, n + 1, Len(@))]
  BY DEF Hand, n
<1>4. web.checked /\ web.held = << >>
  BY DEF Hand, Reading, Stage
<1> DEFINE x == SubSeq(b, 1, n)
           y == SubSeq(b, n + 1, Len(b))
<1>5. x \in Seq(Symbols) /\ y \in Seq(Symbols) /\ x \o y = b
  BY <1>1, <1>2, SplitAt
<1>6. web' = [web EXCEPT !.out = web.out \o x, !.buf = y]
  BY <1>3
<1>7. web.out \o x \in Seq(Symbols)
  BY <1>1, <1>5, ConcatProperties
<1> DEFINE a == web.out \o x
<1> HIDE DEF x, y
<1>8. /\ web'.out = a /\ web'.buf = y
      /\ web' = [web EXCEPT !.out = a, !.buf = y]
      /\ web' \in OpenWeb
  <2> HIDE DEF a
  <2>1. web' = [web EXCEPT !.out = a, !.buf = y] /\ a \in Seq(Symbols) /\ y \in Seq(Symbols)
    BY <1>5, <1>6, <1>7 DEF a
  <2> QED
    BY <2>1 DEF OpenWeb
<1> HIDE DEF b
<1>9. a \o y = web.out \o b
  <2>1. web.out \in Seq(Symbols) /\ x \in Seq(Symbols) /\ y \in Seq(Symbols)
    BY <1>1, <1>5
  <2>2. (web.out \o x) \o y = web.out \o (x \o y)
    <3>1. \A p, q, r \in Seq(Symbols) : (p \o q) \o r = p \o (q \o r)
      BY Associates
    <3> HIDE DEF a
    <3> QED
      BY <2>1, <3>1, Zenon
  <2> QED
    BY <1>5, <2>2
<1>10. /\ web'.held = << >> /\ web'.taken = web.taken /\ web'.requests = web.requests
       /\ web'.checked /\ web'.tls = web.tls /\ web'.bodyLeft = web.bodyLeft
  <2> HIDE DEF a
  <2> QED
    BY <1>4, <1>8 DEF OpenWeb
<1>11. Wire(web') = Wire(web)
  BY <1>10, SameWire
<1>12. Stage(web')
  BY <1>10, <1>11 DEF Stage
<1>13. web'.out \o web'.buf = web.out \o web.buf
  BY <1>8, <1>9 DEF b
<1>14. Kept(web')
  BY <1>4, <1>10, <1>11, <1>13 DEF Kept
<1> QED
  BY <1>8, <1>12, <1>13, <1>14

\* What has come of a body, or of TLS, goes on as it is.
LEMMA ThroughKept ==
  ASSUME web \in OpenWeb, Stage(web), Kept(web), NEW room \in Rooms,
         NEW n \in 1..Len(Wire(web)), Through(room, n)
  PROVE  /\ web' \in OpenWeb /\ Stage(web') /\ Kept(web')
         /\ web.held = << >> /\ web.buf = << >> /\ web.taken + n <= Len(Wire(web))
         /\ web' = [web EXCEPT !.out = web.out \o Piece(Wire(web), web.taken, n),
                               !.taken = web.taken + n,
                               !.bodyLeft = IF web.tls THEN 0 ELSE web.bodyLeft - n]
<1> DEFINE i == web.taken
           s == Wire(web)
           more == Piece(s, i, n)
           left == IF web.tls THEN 0 ELSE web.bodyLeft - n
<1>1. s \in Seq(Symbols) /\ Len(s) \in Nat /\ i \in Nat /\ n \in Nat /\ n > 0
      /\ web.bodyLeft \in Nat /\ web.out \in Seq(Symbols)
  BY WireType DEF OpenWeb
<1>2. /\ i + n <= Len(s) /\ web.buf = << >> /\ web.checked
      /\ web.tls \/ n <= web.bodyLeft
  BY <1>1 DEF Through, Reading, Unread
<1>3. web.held = << >>
  <2>1. web.tls \/ web.bodyLeft # 0
    BY <1>1, <1>2
  <2> QED
    BY <2>1 DEF Stage
<1>4. more \in Seq(Symbols)
  BY <1>1, <1>2, PieceProperties
<1>5. web' = [web EXCEPT !.out = web.out \o more, !.taken = i + n, !.bodyLeft = left]
  BY DEF Through, Piece
<1>6. left \in Nat /\ (web.tls => left = 0)
  BY <1>1, <1>2
<1>7. web.out \o more \in Seq(Symbols)
  BY <1>1, <1>4, ConcatProperties
<1> DEFINE a == web.out \o more
<1>8. /\ web' \in OpenWeb
      /\ web'.out = a /\ web'.taken = i + n /\ web'.bodyLeft = left
      /\ web'.held = << >> /\ web'.buf = << >> /\ web'.requests = web.requests
      /\ web'.tls = web.tls /\ web'.checked
  <2> HIDE DEF a, left
  <2>1. web' = [web EXCEPT !.out = a, !.taken = i + n, !.bodyLeft = left] /\ a \in Seq(Symbols)
        /\ left \in Nat /\ i + n \in Nat
    BY <1>1, <1>5, <1>6, <1>7 DEF a
  <2> HIDE DEF i
  <2> QED
    BY <2>1, <1>2, <1>3 DEF OpenWeb
<1>9. Wire(web') = s
  BY <1>8, SameWire
<1>10. Stage(web')
  BY <1>2, <1>6, <1>8, <1>9 DEF Stage
<1>11. Total(web) = web.out /\ Total(web') = web.out \o more
  <2>1. Total(web) = web.out
    BY <1>2, <1>3, TotalType DEF OpenWeb
  <2>2. Total(web') = web'.out
    BY <1>8, TotalType DEF OpenWeb
  <2> QED
    BY <2>1, <2>2, <1>8
<1>12. Kept(web')
  <2>1. /\ web'.taken = web.taken + n /\ web'.taken <= Len(Wire(web))
        /\ WithoutHosts(more) = WithoutHosts(Piece(Wire(web), web.taken, n))
        /\ WithoutHosts(Total(web')) = WithoutHosts(Total(web) \o more)
    BY <1>2, <1>8, <1>11
  <2> HIDE DEF more
  <2> QED
    BY <2>1, <1>1, <1>4, <1>8, KeptGrows
<1> QED
  BY <1>2, <1>3, <1>5, <1>8, <1>10, <1>12

\* In a header block, the next symbol of the wire is put behind the block.
LEMMA NextLine ==
  ASSUME web \in OpenWeb, Stage(web), LoadLine
  PROVE  LET line == Wire(web)[web.taken + 1]
             block == Append(web.held, line)
             deduped == DedupeHost(block)
         IN  /\ web.buf = << >> /\ web.bodyLeft = 0 /\ web.checked /\ ~web.tls
             /\ web.taken + 1 <= Len(Wire(web))
             /\ line \in Symbols /\ block \in Seq(Symbols) /\ block # << >>
             /\ deduped \in Seq(Symbols) /\ ContentLength(deduped) \in Nat
             /\ Piece(Wire(web), web.taken, 1) = <<line>>
             /\ web' = IF line = Blank
                       THEN [web EXCEPT !.taken = web.taken + 1, !.held = << >>, !.buf = deduped,
                                        !.bodyLeft = ContentLength(deduped)]
                       ELSE IF Len(block) > MaxHeader
                       THEN [web EXCEPT !.taken = web.taken + 1, !.held = << >>, !.buf = block,
                                        !.cut = TRUE]
                       ELSE [web EXCEPT !.taken = web.taken + 1, !.held = block]
<1> DEFINE s == Wire(web)
           i == web.taken
           line == s[i + 1]
           block == Append(web.held, line)
           deduped == DedupeHost(block)
<1>1. /\ s \in Seq(Symbols) /\ Len(s) \in Nat /\ i \in Nat
      /\ web.held \in Seq(Symbols)
  BY WireType DEF OpenWeb
<1>2. /\ web.buf = << >> /\ web.bodyLeft = 0 /\ web.checked /\ ~web.tls /\ i + 1 <= Len(s)
  BY <1>1 DEF LoadLine, InHeaders, Reading, Unread
<1>3. line \in Symbols
  <2>1. i + 1 \in 1..Len(s)
    BY <1>1, <1>2
  <2> HIDE DEF i
  <2> QED
    BY <2>1, <1>1, ElementOfSeq
<1>4. block \in Seq(Symbols) /\ block # << >>
  <2> HIDE DEF line
  <2> QED
    BY <1>1, <1>3, AppendProperties
<1>5. deduped \in Seq(Symbols)
  <2> HIDE DEF block
  <2> QED
    BY <1>4, DedupeHostDropsHosts
<1>6. ContentLength(deduped) \in Nat
  <2> HIDE DEF deduped
  <2> DEFINE places == {j \in 1..Len(deduped) : deduped[j] \in DOMAIN LengthLines}
  <2>1. CASE places = {}
    BY <2>1 DEF ContentLength
  <2>2. CASE places # {}
    <3>1. places \in SUBSET Nat
      OBVIOUS
    <3>2. Min(places) \in places
      <4> HIDE DEF places
      <4> QED
        BY <3>1, <2>2, MinProperties
    <3>5. ContentLength(deduped) = LengthLines[deduped[Min(places)]]
      BY <2>2 DEF ContentLength, places
    <3>6. deduped[Min(places)] \in DOMAIN LengthLines
      BY <3>2 DEF places
    <3> QED
      BY <3>5, <3>6, HTTPFixAssumption
  <2> QED
    BY <2>1, <2>2
<1>7. Piece(s, i, 1) = <<line>>
  <2>1. i \in Nat /\ i + 1 <= Len(s) /\ 1 \in Nat /\ 1 \in 1..1
    BY <1>1, <1>2
  <2> HIDE DEF i, s, line
  <2>2. Piece(s, i, 1) = <<s[i + 1]>>
    BY <1>1, <2>1, OnePiece
  <2> QED
    BY <2>2 DEF line
<1>8. web' = IF line = Blank
             THEN [web EXCEPT !.taken = i + 1, !.held = << >>, !.buf = deduped,
                              !.bodyLeft = ContentLength(deduped)]
             ELSE IF Len(block) > MaxHeader
             THEN [web EXCEPT !.taken = i + 1, !.held = << >>, !.buf = block, !.cut = TRUE]
             ELSE [web EXCEPT !.taken = i + 1, !.held = block]
  BY DEF LoadLine
<1> QED
  BY <1>2, <1>3, <1>4, <1>5, <1>6, <1>7, <1>8

\* A line loaded is kept, unless it is a Host line of a block that has one.
LEMMA LoadLineKept ==
  ASSUME web \in OpenWeb, Stage(web), Kept(web), LoadLine
  PROVE  web' \in OpenWeb /\ Stage(web') /\ Kept(web')
<1> DEFINE line == Wire(web)[web.taken + 1]
           block == Append(web.held, line)
           deduped == DedupeHost(block)
           length == ContentLength(deduped)
<1>1. /\ web.buf = << >> /\ web.bodyLeft = 0 /\ web.checked /\ ~web.tls
      /\ web.taken + 1 <= Len(Wire(web))
      /\ line \in Symbols /\ block \in Seq(Symbols) /\ block # << >>
      /\ deduped \in Seq(Symbols) /\ length \in Nat
      /\ Piece(Wire(web), web.taken, 1) = <<line>>
  BY NextLine
<1>2. WithoutHosts(deduped) = WithoutHosts(block)
  <2> HIDE DEF block
  <2> QED
    BY <1>1, DedupeHostDropsHosts
<1>3. /\ web.held \in Seq(Symbols) /\ web.out \in Seq(Symbols) /\ web.taken \in Nat
      /\ << >> \in Seq(Symbols) /\ <<line>> \in Seq(Symbols)
  BY <1>1, EmptySeq DEF OpenWeb
<1>4. block = web.held \o <<line>>
  <2> HIDE DEF line
  <2> QED
    BY <1>1, <1>3, AppendIsConcat
<1>5. WithoutHosts(Total(web) \o <<line>>) = WithoutHosts(web.out \o block)
  <2>1. Total(web) = web.out \o web.held
    BY <1>1, TotalType DEF OpenWeb
  <2>2. \A p, q, r \in Seq(Symbols) : (p \o q) \o r = p \o (q \o r)
    BY Associates
  <2> HIDE DEF line, block, deduped, length
  <2>3. (web.out \o web.held) \o <<line>> = web.out \o (web.held \o <<line>>)
    BY <1>3, <2>2, Zenon
  <2>4. Total(web) \o <<line>> = web.out \o block
    BY <1>4, <2>1, <2>3
  <2> QED
    BY <2>4
<1>6. \E held, buf \in Seq(Symbols), left \in Nat, cut \in BOOLEAN :
        /\ web' = [web EXCEPT !.taken = web.taken + 1, !.held = held, !.buf = buf,
                              !.bodyLeft = left, !.cut = cut]
        /\ \/ held = << >> /\ (buf = block \/ buf = deduped)
           \/ held = block /\ buf = << >> /\ left = 0
  <2>1. web.cut \in BOOLEAN /\ 0 \in Nat
    BY DEF OpenWeb
  <2>2. CASE line = Blank
    <3>1. web' = [web EXCEPT !.taken = web.taken + 1, !.held = << >>, !.buf = deduped,
                             !.bodyLeft = length]
      BY <2>2, NextLine
    <3> HIDE DEF line, block, deduped, length
    <3>2. web' = [web EXCEPT !.taken = web.taken + 1, !.held = << >>, !.buf = deduped,
                             !.bodyLeft = length, !.cut = web.cut]
      BY <3>1 DEF OpenWeb
    <3> QED
      BY <3>2, <2>1, <1>1, <1>3
  <2>3. CASE line # Blank /\ Len(block) > MaxHeader
    <3>1. web' = [web EXCEPT !.taken = web.taken + 1, !.held = << >>, !.buf = block, !.cut = TRUE]
      BY <2>3, NextLine
    <3> HIDE DEF line, block, deduped, length
    <3>2. web' = [web EXCEPT !.taken = web.taken + 1, !.held = << >>, !.buf = block,
                             !.bodyLeft = 0, !.cut = TRUE]
      BY <3>1, <1>1 DEF OpenWeb
    <3> QED
      BY <3>2, <2>1, <1>1, <1>3
  <2>4. CASE line # Blank /\ ~(Len(block) > MaxHeader)
    <3>1. web' = [web EXCEPT !.taken = web.taken + 1, !.held = block]
      BY <2>4, NextLine
    <3> HIDE DEF line, block, deduped, length
    <3>2. web' = [web EXCEPT !.taken = web.taken + 1, !.held = block, !.buf = << >>,
                             !.bodyLeft = 0, !.cut = web.cut]
      BY <3>1, <1>1 DEF OpenWeb
    <3> QED
      BY <3>2, <2>1, <1>1, <1>3
  <2> QED
    BY <2>2, <2>3, <2>4
<1> HIDE DEF line, block, deduped, length
<1>7. PICK held \in Seq(Symbols), buf \in Seq(Symbols), left \in Nat, cut \in BOOLEAN :
        /\ web' = [web EXCEPT !.taken = web.taken + 1, !.held = held, !.buf = buf,
                              !.bodyLeft = left, !.cut = cut]
        /\ \/ held = << >> /\ (buf = block \/ buf = deduped)
           \/ held = block /\ buf = << >> /\ left = 0
  BY <1>6
<1>8. /\ web' \in OpenWeb
      /\ web'.taken = web.taken + 1 /\ web'.held = held /\ web'.buf = buf /\ web'.bodyLeft = left
      /\ web'.out = web.out /\ web'.requests = web.requests /\ web'.checked /\ ~web'.tls
  <2>1. /\ web' = [web EXCEPT !.taken = web.taken + 1, !.held = held, !.buf = buf,
                              !.bodyLeft = left, !.cut = cut]
        /\ web.taken + 1 \in Nat
    BY <1>3, <1>7
  <2>2. web.checked /\ ~web.tls
    BY <1>1
  <2> QED
    BY <2>1, <2>2 DEF OpenWeb
<1>9. Wire(web') = Wire(web)
  BY <1>8, SameWire
<1>10. Stage(web')
  BY <1>1, <1>7, <1>8, <1>9 DEF Stage
<1>11. WithoutHosts(Total(web')) = WithoutHosts(web.out \o block)
  <2>1. Total(web') = web.out \o block \/ Total(web') = web.out \o deduped
    <3>1. \/ Total(web') = web'.out \o web'.held /\ web'.held = block
          \/ Total(web') = web'.out \o web'.buf /\ (web'.buf = block \/ web'.buf = deduped)
      BY <1>7, <1>8, TotalType DEF OpenWeb
    <3> QED
      BY <3>1, <1>8
  <2>2. WithoutHosts(web.out \o deduped) = WithoutHosts(web.out \o block)
    <3>1. \A p, q \in Seq(Symbols) : WithoutHosts(p \o q) = WithoutHosts(p) \o WithoutHosts(q)
      BY WithoutHostsConcat
    <3>2. /\ WithoutHosts(web.out \o deduped) = WithoutHosts(web.out) \o WithoutHosts(deduped)
          /\ WithoutHosts(web.out \o block) = WithoutHosts(web.out) \o WithoutHosts(block)
      BY <1>1, <1>3, <3>1, Zenon
    <3> QED
      BY <1>2, <3>2
  <2> QED
    BY <2>1, <2>2
<1>12. Kept(web')
  <2> DEFINE more == <<line>>
  <2>1. /\ more \in Seq(Symbols) /\ 1 \in Nat
        /\ web'.taken = web.taken + 1 /\ web'.taken <= Len(Wire(web))
        /\ WithoutHosts(more) = WithoutHosts(Piece(Wire(web), web.taken, 1))
        /\ WithoutHosts(Total(web')) = WithoutHosts(Total(web) \o more)
    BY <1>1, <1>3, <1>5, <1>8, <1>11
  <2> HIDE DEF more
  <2> QED
    BY <2>1, <1>8, KeptGrows
<1> QED
  BY <1>8, <1>10, <1>12

\* What there is of a block is handed on.
LEMMA CutHeaderKept ==
  ASSUME web \in OpenWeb, Stage(web), Kept(web), CutHeader
  PROVE  web' \in OpenWeb /\ Stage(web') /\ Kept(web') /\ web'.cut /\ ~web'.tls
<1>1. /\ web' = [web EXCEPT !.buf = web.held, !.held = << >>, !.cut = TRUE]
      /\ web.buf = << >> /\ web.bodyLeft = 0 /\ web.checked /\ ~web.tls
  BY DEF CutHeader, InHeaders, Reading
<1>2. << >> \in Seq(Symbols)
  BY EmptySeq
<1>3. /\ web' \in OpenWeb /\ web'.buf = web.held /\ web'.held = << >> /\ web'.out = web.out
      /\ web'.taken = web.taken /\ web'.requests = web.requests /\ web'.checked /\ ~web'.tls
      /\ web'.bodyLeft = 0 /\ web'.cut
  BY <1>1, <1>2 DEF OpenWeb
<1>4. Wire(web') = Wire(web)
  BY <1>3, SameWire
<1>5. Stage(web')
  BY <1>3, <1>4 DEF Stage
<1>6. Total(web') = Total(web)
  <2>1. Total(web) = web.out \o web.held
    BY <1>1, TotalType DEF OpenWeb
  <2>2. Total(web') = web'.out \o web'.buf
    BY <1>3, TotalType DEF OpenWeb
  <2> QED
    BY <1>3, <2>1, <2>2
<1>7. Kept(web')
  BY <1>3, <1>4, <1>6 DEF Kept, Total
<1> QED
  BY <1>3, <1>5, <1>7

-----------------------------------------------------------------------------
(* Every header block is rewritten and nothing else is *)

\* The heads and bodies of what consoles send, if it is not TLS.
LEMMA RequestShape ==
  ASSUME NEW w, w.requests \in Requests, Wire(w)[1] # Hello,
         NEW k \in 0..(Len(w.requests) - 1)
  PROVE  LET head == w.requests[k + 1].head
             body == w.requests[k + 1].body
         IN  /\ head \in Seq(Symbols) /\ body \in Seq(Symbols) /\ head # << >>
             /\ Len(head) \in Nat /\ Len(head) > 0 /\ Len(body) \in Nat
             /\ \A j \in 1..Len(head) : head[j] = Blank <=> j = Len(head)
             /\ ContentLength(DedupeHost(head)) = Len(body)
             /\ Asked(w)[k + 1] = head \o body
             /\ Wanted(w)[k + 1] = DedupeHost(head) \o body
<1> DEFINE requests == w.requests
           v == Wrapped(requests)
           request == requests[k + 1]
<1>1. requests \in Seq(Request) /\ Len(requests) \in Nat
  BY WireType, LenProperties
<1>2. k + 1 \in 1..Len(requests)
  BY <1>1
<1>3. request \in Request
  <2> HIDE DEF requests
  <2> QED
    BY <1>1, <1>2, ElementOfSeq
<1>4. WellFormed(v) /\ v.requests = requests
  BY HTTPFixAssumption DEF Wrapped
<1>5. Wire(v) = Wire(w)
  <2> HIDE DEF v
  <2> QED
    BY <1>4, SameWire
<1>6. /\ request.head # << >>
      /\ \A j \in 1..Len(request.head) : request.head[j] = Blank <=> j = Len(request.head)
      /\ ContentLength(DedupeHost(request.head)) = Len(request.body)
  <2> HIDE DEF v
  <2> QED
    BY <1>2, <1>4, <1>5 DEF WellFormed
<1>7. request.head \in Seq(Symbols) /\ request.body \in Seq(Symbols)
  BY <1>3 DEF Request
<1>8. Len(request.head) \in Nat /\ Len(request.head) > 0 /\ Len(request.body) \in Nat
  <2> DEFINE head == request.head
             body == request.body
  <2>1. head \in Seq(Symbols) /\ body \in Seq(Symbols) /\ head # << >>
    BY <1>6, <1>7
  <2> HIDE DEF head, body
  <2>2. Len(head) \in Nat \ {0} /\ Len(body) \in Nat
    BY <2>1, LenProperties, EmptySeq
  <2> QED
    BY <2>2 DEF head, body
<1>9. /\ Asked(w)[k + 1] = request.head \o request.body
      /\ Wanted(w)[k + 1] = DedupeHost(request.head) \o request.body
  BY <1>2 DEF Asked, Wanted
<1> QED
  BY <1>6, <1>7, <1>8, <1>9

(* Three parts in a row, and what is behind them. *)
InARow(s, a, b, c, t) == s = (a \o (b \o c)) \o t

\* Where each of them is.
LEMMA PartsInARow ==
  ASSUME NEW S, NEW a \in Seq(S), NEW b \in Seq(S), NEW c \in Seq(S), NEW t \in Seq(S),
         NEW s, InARow(s, a, b, c, t)
  PROVE  /\ Len(s) \in Nat /\ Len(a) + Len(b) + Len(c) <= Len(s)
         /\ Len(a \o (b \o c)) = Len(a) + Len(b) + Len(c)
         /\ \A i \in 1..Len(b) : s[Len(a) + i] = b[i]
         /\ Piece(s, Len(a) + Len(b), Len(c)) = c
<1> DEFINE d == b \o c
           e == d \o t
<1>j. Associative(S) /\ Joinable(S)
  BY Joining
<1>0. Len(a) \in Nat /\ Len(b) \in Nat /\ Len(c) \in Nat /\ Len(t) \in Nat
  BY LenProperties
<1>1. d \in Seq(S) /\ Len(d) = Len(b) + Len(c)
      /\ \A i \in 1..Len(b) : d[i] = b[i]
  BY <1>j, Zenon DEF Joinable
<1> HIDE DEF d
<1>2. e \in Seq(S) /\ Len(e) = Len(d) + Len(t)
      /\ \A i \in 1..Len(d) : e[i] = d[i]
  BY <1>j, <1>1, Zenon DEF Joinable
<1>3. s = a \o e
  <2>1. s = (a \o d) \o t
    BY DEF d, InARow
  <2>2. (a \o d) \o t = a \o (d \o t)
    BY <1>j, <1>1, Zenon DEF Associative
  <2> QED
    BY <2>1, <2>2
<1> HIDE DEF e
<1>4. s \in Seq(S) /\ Len(s) = Len(a) + Len(e)
      /\ \A i \in 1..Len(e) : s[Len(a) + i] = e[i]
  BY <1>j, <1>2, <1>3, Zenon DEF Joinable
<1>5. \A i \in 1..Len(b) : s[Len(a) + i] = b[i]
  <2>1. \A i \in 1..Len(b) : i \in 1..Len(d) /\ i \in 1..Len(e)
    BY <1>0, <1>1, <1>2
  <2> QED
    BY <1>1, <1>2, <1>4, <2>1
<1>6. Piece(s, Len(a) + Len(b), Len(c)) = Piece(e, Len(b), Len(c))
  <2>1. Len(b) + Len(c) <= Len(e)
    BY <1>0, <1>1, <1>2
  <2> QED
    BY <1>0, <1>2, <1>3, <2>1, PieceBehind
<1>7. Piece(e, Len(b), Len(c)) = Piece(d, Len(b), Len(c))
  <2>1. Len(b) + Len(c) <= Len(d)
    BY <1>0, <1>1
  <2> QED
    BY <1>0, <1>1, <2>1, PieceBefore DEF e
<1>8. Piece(d, Len(b), Len(c)) = c
  <2>1. 0 \in Nat /\ 0 + Len(c) <= Len(c) /\ Len(b) + 0 = Len(b)
    BY <1>0
  <2>2. Piece(b \o c, Len(b) + 0, Len(c)) = Piece(c, 0, Len(c))
    BY <1>0, <2>1, PieceBehind
  <2> QED
    BY <2>1, <2>2, WholePiece DEF d
<1>9. Len(a \o d) = Len(a) + Len(d)
  BY <1>1, ConcatProperties
<1>10. Len(s) \in Nat /\ Len(a) + Len(b) + Len(c) <= Len(s)
       /\ Len(a \o d) = Len(a) + Len(b) + Len(c)
  BY <1>0, <1>1, <1>2, <1>4, <1>9
<1> QED
  BY <1>5, <1>6, <1>7, <1>8, <1>10 DEF d

\* Where request k + 1 is on the wire.
LEMMA WireAt ==
  ASSUME NEW w, w.requests \in Requests, Wire(w)[1] # Hello,
         NEW k \in 0..(Len(w.requests) - 1)
  PROVE  LET head == w.requests[k + 1].head
             body == w.requests[k + 1].body
             start == Len(Joined(Asked(w), k))
         IN  /\ start \in Nat
             /\ start + Len(head) + Len(body) <= Len(Wire(w))
             /\ Len(Joined(Asked(w), k + 1)) = start + Len(head) + Len(body)
             /\ \A i \in 1..Len(head) : Wire(w)[start + i] = head[i]
             /\ Piece(Wire(w), start + Len(head), Len(body)) = body
<1> DEFINE head == w.requests[k + 1].head
           body == w.requests[k + 1].body
           a == Joined(Asked(w), k)
<1>1. /\ Asked(w) \in Seq(Seq(Symbols)) /\ Len(Asked(w)) = Len(w.requests)
      /\ Len(w.requests) \in Nat /\ Wire(w) = FlattenSeq(Asked(w))
  BY WireType, LenProperties
<1>2. /\ k \in 0..Len(Asked(w)) /\ k + 1 \in 0..Len(Asked(w))
      /\ k \in 0..(Len(Asked(w)) - 1)
  BY <1>1
<1>3. /\ a \in Seq(Symbols)
      /\ Joined(Asked(w), k + 1) = a \o Asked(w)[k + 1]
  BY <1>1, <1>2, JoinedProperties
<1>4. PICK t \in Seq(Symbols) : Wire(w) = Joined(Asked(w), k + 1) \o t
  BY <1>1, <1>2, JoinedIsPrefix
<1>5. /\ head \in Seq(Symbols) /\ body \in Seq(Symbols)
      /\ Asked(w)[k + 1] = head \o body
  BY RequestShape
<1> HIDE DEF head, body, a
<1>6. Wire(w) = (a \o (head \o body)) \o t /\ Joined(Asked(w), k + 1) = a \o (head \o body)
  BY <1>3, <1>4, <1>5
<1>6a. InARow(Wire(w), a, head, body, t)
  BY <1>6 DEF InARow
<1>7. Len(a) \in Nat
  BY <1>3, LenProperties
<1>8. /\ Len(a) + Len(head) + Len(body) <= Len(Wire(w))
      /\ Len(a \o (head \o body)) = Len(a) + Len(head) + Len(body)
      /\ \A i \in 1..Len(head) : Wire(w)[Len(a) + i] = head[i]
      /\ Piece(Wire(w), Len(a) + Len(head), Len(body)) = body
  BY <1>3, <1>5, <1>6a, PartsInARow
<1> QED
  BY <1>6, <1>7, <1>8 DEF head, body, a

\* Before the first request, and wherever nothing is pending.
LEMMA NothingPending ==
  ASSUME NEW w \in OpenWeb, Stage(w), w.buf = << >>, w.bodyLeft = 0
  PROVE  w.out \o w.buf \o Piece(Wire(w), w.taken, w.bodyLeft) = w.out
<1>1. Piece(Wire(w), w.taken, 0) = << >>
  <2>1. Wire(w) \in Seq(Symbols) /\ w.taken \in Nat /\ w.taken + 0 <= Len(Wire(w)) /\ 0 \in Nat
    BY WireType DEF OpenWeb, Stage
  <2> QED
    BY <2>1, PieceProperties
<1>2. w.out \o << >> = w.out
  <2>1. w.out \in Seq(Symbols)
    BY DEF OpenWeb
  <2> QED
    BY <2>1, ConcatEmptySeq
<1> QED
  BY <1>1, <1>2

\* A connection begins in front of the first request.
LEMMA WrappedInPlace ==
  ASSUME NEW requests \in Requests
  PROVE  InPlace(Wrapped(requests))
<1> DEFINE w == Wrapped(requests)
<1>1. w \in OpenWeb /\ Stage(w)
  BY WrappedKept
<1>2. /\ w.out = << >> /\ w.buf = << >> /\ w.held = << >> /\ w.taken = 0 /\ w.bodyLeft = 0
      /\ ~w.checked /\ ~w.tls /\ ~w.cut
  BY DEF Wrapped
<1> HIDE DEF w
<1>3. w.requests \in Requests
  BY <1>1 DEF OpenWeb
<1>4. << >> \o << >> = << >>
  BY EmptySeq, ConcatEmptySeq
<1>5. CASE Wire(w)[1] = Hello
  <2>1. SubSeq(Wire(w), 1, 0) = << >>
    BY SubSeqEmpty
  <2> QED
    BY <1>2, <1>4, <1>5, <2>1 DEF InPlace, w
<1>6. CASE Wire(w)[1] # Hello
  <2>1. Joined(Asked(w), 0) = << >> /\ Joined(Wanted(w), 0) = << >>
    BY <1>3, WireType, JoinedProperties
  <2>2. w.out \o w.buf \o Piece(Wire(w), w.taken, w.bodyLeft) = << >>
    BY <1>1, <1>2, NothingPending
  <2>3. Len(<< >>) = 0
    BY EmptySeq
  <2>4. ASSUME 0 < Len(w.requests)
        PROVE  LET head == w.requests[0 + 1].head
               IN  Len(w.held) < Len(head) /\ w.held = SubSeq(head, 1, Len(w.held))
    <3> DEFINE head == w.requests[0 + 1].head
    <3>1. 0 \in 0..(Len(w.requests) - 1)
      BY <1>3, <2>4, WireType, LenProperties
    <3>2. Len(head) \in Nat /\ Len(head) > 0
      BY <1>3, <1>6, <3>1, RequestShape
    <3> HIDE DEF head
    <3>3. SubSeq(head, 1, 0) = << >>
      BY SubSeqEmpty
    <3>4. Len(w.held) < Len(head) /\ w.held = SubSeq(head, 1, Len(w.held))
      BY <1>2, <2>3, <3>2, <3>3
    <3> QED
      BY <3>4 DEF head
  <2>5. After(w, 0)
    BY <1>2, <2>1, <2>2, <2>3, <2>4 DEF After
  <2>6. 0 \in 0..Len(w.requests)
    BY <1>3, WireType, LenProperties
  <2> QED
    BY <1>2, <1>6, <2>5, <2>6 DEF InPlace, w
<1> QED
  BY <1>5, <1>6

\* Checking for TLS decides how the rest is read.
LEMMA CheckTLSInPlace ==
  ASSUME web \in OpenWeb, Stage(web), Kept(web), InPlace(web), NEW n, CheckTLS(n)
  PROVE  InPlace(web')
<1>1. /\ web.out = << >> /\ web.buf = << >> /\ web.held = << >> /\ ~web.cut
  BY DEF CheckTLS, Stage
<1>2. CASE Wire(web)[1] = Hello
  <2>1. web' = [web EXCEPT !.checked = TRUE, !.tls = TRUE, !.taken = n,
                           !.buf = SubSeq(Wire(web), 1, n)]
    BY <1>2 DEF CheckTLS
  <2>2. /\ web'.out = << >> /\ web'.buf = SubSeq(Wire(web), 1, n) /\ web'.held = << >>
        /\ web'.taken = n /\ web'.requests = web.requests /\ web'.tls /\ ~web'.cut
    BY <2>1, <1>1 DEF OpenWeb
  <2>3. Wire(web') = Wire(web)
    BY <2>2, SameWire
  <2>4. web'.out \o web'.buf = SubSeq(Wire(web), 1, n)
    <3>1. web' \in OpenWeb
      BY CheckTLSKept
    <3>2. web'.buf \in Seq(Symbols)
      BY <3>1 DEF OpenWeb
    <3> QED
      BY <2>2, <3>2, ConcatEmptySeq
  <2> QED
    BY <1>2, <2>2, <2>3, <2>4 DEF InPlace
<1>3. CASE Wire(web)[1] # Hello
  <2>1. web' = [web EXCEPT !.checked = TRUE]
    BY <1>3 DEF CheckTLS
  <2>2. /\ web'.out = web.out /\ web'.buf = web.buf /\ web'.held = web.held
        /\ web'.taken = web.taken /\ web'.bodyLeft = web.bodyLeft
        /\ web'.requests = web.requests /\ web'.tls = web.tls /\ web'.cut = web.cut
    BY <2>1 DEF OpenWeb
  <2>3. Wire(web') = Wire(web) /\ Asked(web') = Asked(web) /\ Wanted(web') = Wanted(web)
    BY <2>2, SameWire
  <2>4. \A k : After(web', k) <=> After(web, k)
    BY <2>2, <2>3 DEF After
  <2> QED
    BY <1>3, <2>2, <2>3, <2>4 DEF InPlace
<1> QED
  BY <1>2, <1>3

\* Pending bytes change hands.
LEMMA HandInPlace ==
  ASSUME web \in OpenWeb, Stage(web), Kept(web), InPlace(web), NEW room \in Rooms, Hand(room)
  PROVE  InPlace(web')
<1>1. /\ web'.out \o web'.buf = web.out \o web.buf
      /\ web' = [web EXCEPT !.out = web'.out, !.buf = web'.buf]
  BY HandKept
<1>2. /\ web'.held = web.held /\ web'.taken = web.taken /\ web'.bodyLeft = web.bodyLeft
      /\ web'.requests = web.requests /\ web'.tls = web.tls /\ web'.cut = web.cut
      /\ web'.checked = web.checked
  <2> DEFINE a == web'.out
             b == web'.buf
  <2>1. web' = [web EXCEPT !.out = a, !.buf = b]
    BY <1>1
  <2> HIDE DEF a, b
  <2> QED
    BY <2>1 DEF OpenWeb
<1>3. Wire(web') = Wire(web) /\ Asked(web') = Asked(web) /\ Wanted(web') = Wanted(web)
  BY <1>2, SameWire
<1>4. \A k : After(web', k) <=> After(web, k)
  BY <1>1, <1>2, <1>3 DEF After
<1> QED
  BY <1>1, <1>2, <1>3, <1>4 DEF InPlace

\* What goes straight on moves from what is left of the body, or of the TLS
\* stream, to what is out.
LEMMA ThroughInPlace ==
  ASSUME web \in OpenWeb, Stage(web), Kept(web), InPlace(web), NEW room \in Rooms,
         NEW n \in 1..Len(Wire(web)), Through(room, n)
  PROVE  InPlace(web')
<1> DEFINE s == Wire(web)
           i == web.taken
           more == Piece(s, i, n)
           left == IF web.tls THEN 0 ELSE web.bodyLeft - n
<1>1. /\ web' = [web EXCEPT !.out = web.out \o more, !.taken = i + n, !.bodyLeft = left]
      /\ web' \in OpenWeb
      /\ web.held = << >> /\ web.buf = << >> /\ i + n <= Len(s) /\ web.checked
  BY ThroughKept DEF Through, Reading
<1>2. /\ s \in Seq(Symbols) /\ Len(s) \in Nat /\ i \in Nat /\ n \in Nat
      /\ web.bodyLeft \in Nat /\ web.out \in Seq(Symbols) /\ web.tls \in BOOLEAN
  BY WireType DEF OpenWeb
<1>3. more \in Seq(Symbols)
  BY <1>1, <1>2, PieceProperties
<1> DEFINE a == web.out \o more
<1>4. /\ web'.out = a /\ web'.taken = i + n /\ web'.bodyLeft = left
      /\ web'.held = << >> /\ web'.buf = << >> /\ web'.requests = web.requests
      /\ web'.tls = web.tls /\ web'.cut = web.cut
  <2>1. web' = [web EXCEPT !.out = a, !.taken = i + n, !.bodyLeft = left]
    BY <1>1
  <2> HIDE DEF a, left, i
  <2> QED
    BY <2>1, <1>1 DEF OpenWeb
<1>5. Wire(web') = s /\ Asked(web') = Asked(web) /\ Wanted(web') = Wanted(web)
  BY <1>4, SameWire
<1>6. web.out \o << >> = web.out /\ a \o << >> = a /\ a \in Seq(Symbols)
  <2>1. a \in Seq(Symbols)
    <3> HIDE DEF more
    <3> QED
      BY <1>2, <1>3, ConcatProperties
  <2> HIDE DEF a
  <2> QED
    BY <1>2, <2>1, ConcatEmptySeq
<1>7. CASE s[1] = Hello
  <2>1. web.tls /\ web.out = SubSeq(s, 1, i) /\ ~web.cut
    BY <1>1, <1>6, <1>7 DEF InPlace
  <2>2. SubSeq(s, 1, i) \o more = SubSeq(s, 1, i + n)
    <3>1. /\ 0 \in Nat /\ 0 + i = i /\ 0 + i + n <= Len(s) /\ i \in 0..Len(s) /\ i + n \in 0..Len(s)
      BY <1>1, <1>2
    <3> HIDE DEF s, i
    <3>2. Piece(s, 0, i) \o Piece(s, 0 + i, n) = Piece(s, 0, i + n)
      <4>1. \A p, q, r \in Nat : p + q + r <= Len(s) =>
              Piece(s, p, q) \o Piece(s, p + q, r) = Piece(s, p, q + r)
        BY <1>2, PiecesJoin
      <4> QED
        BY <1>2, <3>1, <4>1, Zenon
    <3>3. Piece(s, 0, i) = SubSeq(s, 1, i) /\ Piece(s, 0, i + n) = SubSeq(s, 1, i + n)
      BY <1>2, <3>1, WholePiece
    <3> QED
      BY <3>1, <3>2, <3>3
  <2>3. web'.out \o web'.buf = SubSeq(s, 1, i + n)
    BY <1>4, <1>6, <2>1, <2>2
  <2> QED
    BY <1>4, <1>5, <1>7, <2>1, <2>3 DEF InPlace
<1>8. CASE s[1] # Hello
  <2>1. ~web.tls /\ n <= web.bodyLeft
    BY <1>8 DEF InPlace, Through
  <2>2. left \in Nat /\ n + left = web.bodyLeft /\ left = web.bodyLeft - n
    BY <1>2, <2>1
  <2>3. ASSUME NEW k \in 0..Len(web.requests), After(web, k)
        PROVE  After(web', k)
    <3>1. i + web.bodyLeft <= Len(s)
      <4>1. i + web.bodyLeft = Len(Joined(Asked(web), k))
        <5>1. Len(web.held) = 0 /\ i + web.bodyLeft = Len(Joined(Asked(web), k)) + Len(web.held)
          BY <1>1, <2>3, EmptySeq DEF After
        <5>2. Joined(Asked(web), k) \in Seq(Symbols)
          <6>1. /\ Asked(web) \in Seq(Seq(Symbols)) /\ Len(Asked(web)) = Len(web.requests)
            BY WireType DEF OpenWeb
          <6> QED
            BY <6>1, JoinedProperties
        <5> QED
          BY <5>1, <5>2, LenProperties
      <4>2. Len(Joined(Asked(web), k)) <= Len(s)
        <5>1. /\ Asked(web) \in Seq(Seq(Symbols)) /\ Len(Asked(web)) = Len(web.requests)
              /\ s = FlattenSeq(Asked(web))
          BY WireType DEF OpenWeb
        <5>2. PICK t \in Seq(Symbols) : s = Joined(Asked(web), k) \o t
          <6>1. k \in 0..Len(Asked(web))
            BY <5>1, <2>3
          <6> HIDE DEF s
          <6> QED
            BY <5>1, <6>1, JoinedIsPrefix
        <5>3. Joined(Asked(web), k) \in Seq(Symbols)
          BY <5>1, JoinedProperties
        <5>4. Joinable(Symbols)
          BY Joining
        <5> HIDE DEF s
        <5>5. /\ Len(s) = Len(Joined(Asked(web), k)) + Len(t)
              /\ Len(t) \in Nat /\ Len(Joined(Asked(web), k)) \in Nat
          BY <5>2, <5>3, <5>4, Zenon DEF Joinable
        <5> QED
          BY <5>5
      <4> QED
        BY <4>1, <4>2
    <3>2. more \o Piece(s, i + n, left) = Piece(s, i, web.bodyLeft)
      <4>1. i + n + left <= Len(s)
        BY <1>2, <2>2, <3>1
      <4> HIDE DEF s, i, left, a
      <4>2. Piece(s, i, n) \o Piece(s, i + n, left) = Piece(s, i, n + left)
        <5>1. \A p, q, r \in Nat : p + q + r <= Len(s) =>
                Piece(s, p, q) \o Piece(s, p + q, r) = Piece(s, p, q + r)
          BY <1>2, PiecesJoin
        <5> QED
          BY <1>2, <2>2, <4>1, <5>1, Zenon
      <4> QED
        BY <2>2, <4>2
    <3>3. Piece(s, i + n, left) \in Seq(Symbols)
      <4>1. i + n \in Nat /\ (i + n) + left <= Len(s)
        BY <1>2, <2>2, <3>1
      <4> HIDE DEF s, i, left
      <4> QED
        BY <1>2, <2>2, <4>1, PieceProperties
    <3>4. web.out \o Piece(s, i, web.bodyLeft) = Joined(Wanted(web), k)
      BY <1>1, <1>6, <2>3 DEF After
    <3> DEFINE rest == Piece(s, i + n, left)
    <3>5. a \o rest = web.out \o (more \o rest)
      <4>1. Associative(Symbols)
        BY Joining
      <4>2. rest \in Seq(Symbols)
        BY <3>3
      <4> HIDE DEF more, rest
      <4>3. (web.out \o more) \o rest = web.out \o (more \o rest)
        BY <1>2, <1>3, <4>1, <4>2, Zenon DEF Associative
      <4> QED
        BY <4>3
    <3>6. a \o rest = Joined(Wanted(web), k)
      BY <3>2, <3>4, <3>5
    <3>7. (i + n) + left = i + web.bodyLeft
      BY <1>2, <2>2
    <3> HIDE DEF a, left, i
    <3>8. web'.out \o web'.buf \o Piece(Wire(web'), web'.taken, web'.bodyLeft)
            = Joined(Wanted(web'), k)
      BY <1>4, <1>5, <1>6, <3>6
    <3>9. web'.taken + web'.bodyLeft = Len(Joined(Asked(web'), k)) + Len(web'.held)
      BY <1>1, <1>4, <1>5, <2>3, <3>7 DEF After, i
    <3> QED
      BY <1>1, <1>4, <2>3, <3>8, <3>9 DEF After
  <2> QED
    BY <1>4, <1>5, <1>8, <2>1, <2>3 DEF InPlace
<1> QED
  BY <1>7, <1>8

\* Where the next line belongs while header blocks are whole.
LEMMA NextLineIsOfHead ==
  ASSUME web \in OpenWeb, Stage(web), LoadLine, Wire(web)[1] # Hello,
         NEW k \in 0..Len(web.requests), After(web, k)
  PROVE  LET head == web.requests[k + 1].head
             j == Len(web.held) + 1
         IN  /\ k \in 0..(Len(web.requests) - 1)
             /\ j \in 1..Len(head)
             /\ Wire(web)[web.taken + 1] = head[j]
             /\ Append(web.held, Wire(web)[web.taken + 1]) = SubSeq(head, 1, j)
             /\ web.taken + 1 = Len(Joined(Asked(web), k)) + j
             /\ web.out = Joined(Wanted(web), k)
<1> DEFINE s == Wire(web)
           n == Len(web.requests)
           start == Len(Joined(Asked(web), k))
           head == web.requests[k + 1].head
           held == web.held
           j == Len(held) + 1
<1>1. /\ web.buf = << >> /\ web.bodyLeft = 0 /\ web.taken + 1 <= Len(s)
  BY NextLine
<1>2. /\ n \in Nat /\ Len(s) \in Nat /\ web.taken \in Nat /\ held \in Seq(Symbols)
      /\ Len(held) \in Nat /\ web.requests \in Requests
  BY WireType, LenProperties DEF OpenWeb
<1>3. web.taken = start + Len(held) /\ start \in Nat
  <2>1. web.taken + 0 = start + Len(held)
    BY <1>1 DEF After
  <2>2. Joined(Asked(web), k) \in Seq(Symbols)
    <3>1. Asked(web) \in Seq(Seq(Symbols)) /\ Len(Asked(web)) = n
      BY <1>2, WireType
    <3> QED
      BY <3>1, JoinedProperties
  <2>3. start \in Nat
    BY <2>2, LenProperties
  <2> QED
    BY <1>2, <2>1, <2>3
<1>4. k < n
  <2> SUFFICES ASSUME k = n PROVE FALSE
    BY <1>2
  <2>1. held = << >>
    BY DEF After
  <2>2. Joined(Asked(web), k) = s
    <3>1. /\ Asked(web) \in Seq(Seq(Symbols)) /\ Len(Asked(web)) = n
          /\ s = FlattenSeq(Asked(web))
      BY <1>2, WireType
    <3> QED
      BY <3>1, JoinedProperties
  <2>3. web.taken = Len(s)
    BY <1>2, <1>3, <2>1, <2>2, EmptySeq
  <2> QED
    BY <1>1, <1>2, <2>3
<1>5. k \in 0..(n - 1)
  BY <1>2, <1>4
<1>6. Len(held) < Len(head) /\ held = SubSeq(head, 1, Len(held))
  BY <1>4 DEF After
<1>7. head \in Seq(Symbols) /\ Len(head) \in Nat
  BY <1>2, <1>5, RequestShape
<1>8. j \in 1..Len(head) /\ Len(held) \in 0..(Len(head) - 1)
  <2>1. Len(held) \in Nat /\ Len(head) \in Nat /\ Len(held) < Len(head)
    BY <1>2, <1>6, <1>7
  <2> HIDE DEF head, held
  <2> QED
    BY <2>1
<1>9. s[web.taken + 1] = head[j]
  <2>1. \A i \in 1..Len(head) : s[start + i] = head[i]
    BY <1>2, <1>5, WireAt
  <2>2. start + j = web.taken + 1
    BY <1>2, <1>3
  <2> HIDE DEF s, start, head, j
  <2> QED
    BY <1>8, <2>1, <2>2
<1>10. Append(held, head[j]) = SubSeq(head, 1, j)
  <2>1. SubSeq(head, 1, Len(held) + 1) = Append(SubSeq(head, 1, Len(held)), head[Len(held) + 1])
    <3> HIDE DEF head, held
    <3> QED
      BY <1>7, <1>8, LongerFront
  <2> HIDE DEF head, held
  <2> QED
    BY <1>6, <2>1
<1>11. web.out = Joined(Wanted(web), k)
  BY <1>1, NothingPending DEF After
<1>12. web.taken + 1 = start + j
  BY <1>2, <1>3
<1> QED
  BY <1>5, <1>8, <1>9, <1>10, <1>11, <1>12

\* The last line of a head: the block is rewritten and its body is next.
LEMMA BlockInPlace ==
  ASSUME web \in OpenWeb, Stage(web), LoadLine, Wire(web)[1] # Hello,
         NEW k \in 0..Len(web.requests), After(web, k), Wire(web)[web.taken + 1] = Blank
  PROVE  k + 1 \in 0..Len(web.requests) /\ After(web', k + 1)
<1> DEFINE s == Wire(web)
           n == Len(web.requests)
           head == web.requests[k + 1].head
           body == web.requests[k + 1].body
           start == Len(Joined(Asked(web), k))
           line == s[web.taken + 1]
           block == Append(web.held, line)
           deduped == DedupeHost(block)
           j == Len(web.held) + 1
<1>1. /\ k \in 0..(n - 1) /\ j \in 1..Len(head) /\ line = head[j]
      /\ block = SubSeq(head, 1, j) /\ web.taken + 1 = start + j
      /\ web.out = Joined(Wanted(web), k)
  BY NextLineIsOfHead
<1>2. web.requests \in Requests /\ n \in Nat
  BY WireType, LenProperties DEF OpenWeb
<1>3. /\ head \in Seq(Symbols) /\ body \in Seq(Symbols)
      /\ Len(head) \in Nat /\ Len(body) \in Nat
      /\ \A i \in 1..Len(head) : head[i] = Blank <=> i = Len(head)
      /\ ContentLength(DedupeHost(head)) = Len(body)
      /\ Wanted(web)[k + 1] = DedupeHost(head) \o body
  BY <1>1, <1>2, RequestShape
<1>4. /\ start \in Nat
      /\ start + Len(head) + Len(body) <= Len(s)
      /\ Len(Joined(Asked(web), k + 1)) = start + Len(head) + Len(body)
      /\ Piece(s, start + Len(head), Len(body)) = body
  BY <1>1, <1>2, WireAt
<1>5. j = Len(head)
  <2> HIDE DEF head, line, j
  <2> QED
    BY <1>1, <1>3 DEF line
<1>6. block = head
  <2> HIDE DEF head, block, j
  <2> QED
    BY <1>1, <1>3, <1>5, SubSeqFull
<1>7. deduped = DedupeHost(head) /\ ContentLength(deduped) = Len(body)
  BY <1>3, <1>6
<1>8. web' = [web EXCEPT !.taken = web.taken + 1, !.held = << >>, !.buf = deduped,
                         !.bodyLeft = ContentLength(deduped)]
  BY NextLine
<1> HIDE DEF head, body, block, line, j, deduped
<1>9. /\ web'.taken = start + Len(head) /\ web'.held = << >> /\ web'.buf = DedupeHost(head)
      /\ web'.bodyLeft = Len(body) /\ web'.out = web.out /\ web'.requests = web.requests
  <2>1. web' = [web EXCEPT !.taken = start + Len(head), !.held = << >>, !.buf = DedupeHost(head),
                           !.bodyLeft = Len(body)]
    BY <1>1, <1>5, <1>7, <1>8
  <2> HIDE DEF start
  <2> QED
    BY <2>1 DEF OpenWeb
<1>10. Wire(web') = s /\ Asked(web') = Asked(web) /\ Wanted(web') = Wanted(web)
  BY <1>9, SameWire
<1>11. web'.taken + web'.bodyLeft = Len(Joined(Asked(web'), k + 1)) + Len(web'.held)
  <2>1. Len(web'.held) = 0
    BY <1>9, EmptySeq
  <2> HIDE DEF start
  <2> QED
    BY <1>3, <1>4, <1>9, <1>10, <2>1
<1>12. web'.out \o web'.buf \o Piece(Wire(web'), web'.taken, web'.bodyLeft)
         = Joined(Wanted(web'), k + 1)
  <2> DEFINE a == Joined(Wanted(web), k)
             b == DedupeHost(head)
  <2>1. /\ Wanted(web) \in Seq(Seq(Symbols)) /\ Len(Wanted(web)) = n
    BY <1>2, WireType
  <2>2. a \in Seq(Symbols) /\ Joined(Wanted(web), k + 1) = a \o Wanted(web)[k + 1]
    <3>1. k \in 0..Len(Wanted(web)) /\ k \in 0..(Len(Wanted(web)) - 1)
      BY <1>1, <1>2, <2>1
    <3> QED
      BY <2>1, <3>1, JoinedProperties
  <2>3. b \in Seq(Symbols)
    BY <1>3, DedupeHostDropsHosts
  <2>4. Associative(Symbols)
    BY Joining
  <2> HIDE DEF a, b
  <2>5. (a \o b) \o body = a \o (b \o body)
    BY <1>3, <2>2, <2>3, <2>4, Zenon DEF Associative
  <2>6. Wanted(web)[k + 1] = b \o body
    BY <1>3 DEF b
  <2>7. web'.out \o web'.buf \o Piece(Wire(web'), web'.taken, web'.bodyLeft) = (a \o b) \o body
    BY <1>1, <1>4, <1>9, <1>10 DEF a, b
  <2> QED
    BY <1>10, <2>2, <2>5, <2>6, <2>7
<1>13. ASSUME k + 1 < Len(web'.requests)
       PROVE  LET next == web'.requests[(k + 1) + 1].head
              IN  Len(web'.held) < Len(next) /\ web'.held = SubSeq(next, 1, Len(web'.held))
  <2> DEFINE next == web'.requests[(k + 1) + 1].head
  <2>1. k + 1 \in 0..(n - 1)
    BY <1>1, <1>2, <1>9, <1>13
  <2>2. Len(next) \in Nat /\ Len(next) > 0
    <3>1. Len(web.requests[(k + 1) + 1].head) \in Nat /\ Len(web.requests[(k + 1) + 1].head) > 0
      BY <1>2, <2>1, RequestShape
    <3> QED
      BY <1>9, <3>1
  <2> HIDE DEF next
  <2>3. SubSeq(next, 1, 0) = << >>
    BY SubSeqEmpty
  <2>4. Len(web'.held) = 0
    BY <1>9, EmptySeq
  <2>5. Len(web'.held) < Len(next) /\ web'.held = SubSeq(next, 1, Len(web'.held))
    BY <1>9, <2>2, <2>3, <2>4
  <2> QED
    BY <2>5 DEF next
<1>14. k + 1 \in 0..n
  BY <1>1, <1>2
<1> QED
  BY <1>9, <1>11, <1>12, <1>13, <1>14 DEF After

\* Another line of a head is held back.
LEMMA LineInPlace ==
  ASSUME web \in OpenWeb, Stage(web), LoadLine, Wire(web)[1] # Hello,
         NEW k \in 0..Len(web.requests), After(web, k), Wire(web)[web.taken + 1] # Blank,
         ~web'.cut
  PROVE  After(web', k)
<1> DEFINE s == Wire(web)
           n == Len(web.requests)
           head == web.requests[k + 1].head
           start == Len(Joined(Asked(web), k))
           line == s[web.taken + 1]
           block == Append(web.held, line)
           j == Len(web.held) + 1
<1>1. /\ k \in 0..(n - 1) /\ j \in 1..Len(head) /\ line = head[j]
      /\ block = SubSeq(head, 1, j) /\ web.taken + 1 = start + j
      /\ web.out = Joined(Wanted(web), k)
  BY NextLineIsOfHead
<1>2. web.requests \in Requests /\ n \in Nat
  BY WireType, LenProperties DEF OpenWeb
<1>3. /\ head \in Seq(Symbols) /\ Len(head) \in Nat
      /\ \A i \in 1..Len(head) : head[i] = Blank <=> i = Len(head)
  BY <1>1, <1>2, RequestShape
<1>4. j < Len(head) /\ j \in Nat
  <2>1. line # Blank
    OBVIOUS
  <2> HIDE DEF head, line, j
  <2> QED
    BY <1>1, <1>3, <2>1
<1>5. web' = [web EXCEPT !.taken = web.taken + 1, !.held = block]
  <2>1. web' # [web EXCEPT !.taken = web.taken + 1, !.held = << >>, !.buf = block, !.cut = TRUE]
    <3> SUFFICES ASSUME web' = [web EXCEPT !.taken = web.taken + 1, !.held = << >>, !.buf = block,
                                           !.cut = TRUE]
                 PROVE  FALSE
      OBVIOUS
    <3> HIDE DEF block
    <3>1. web'.cut
      BY DEF OpenWeb
    <3> QED
      BY <3>1
  <2> QED
    BY <2>1, NextLine
<1>6. Len(block) = j
  <2>1. j <= Len(head)
    BY <1>4
  <2> HIDE DEF head, block, j
  <2> QED
    BY <1>1, <1>3, <1>4, <2>1, SplitAt
<1>7. web.buf = << >> /\ web.bodyLeft = 0
  BY NextLine
<1>8. /\ web'.taken = start + j /\ web'.held = block /\ web'.buf = << >> /\ web'.bodyLeft = 0
      /\ web'.out = web.out /\ web'.requests = web.requests
  <2>1. web' = [web EXCEPT !.taken = start + j, !.held = block]
    BY <1>1, <1>5
  <2> HIDE DEF start, j, block
  <2> QED
    BY <1>7, <2>1 DEF OpenWeb
<1>9. Wire(web') = s /\ Asked(web') = Asked(web) /\ Wanted(web') = Wanted(web)
  BY <1>8, SameWire
<1>10. web'.taken + web'.bodyLeft = Len(Joined(Asked(web'), k)) + Len(web'.held)
  <2>1. start \in Nat
    BY <1>1, <1>2, WireAt
  <2> HIDE DEF start, j, block
  <2> QED
    BY <1>4, <1>6, <1>8, <1>9, <2>1 DEF start
<1>11. web'.out \o web'.buf \o Piece(Wire(web'), web'.taken, web'.bodyLeft)
         = Joined(Wanted(web'), k)
  <2>1. web' \in OpenWeb /\ Stage(web')
    <3>1. web'.taken <= Len(Wire(web'))
      <4>1. web.taken + 1 <= Len(s)
        BY NextLine
      <4> QED
        BY <4>1, <1>1, <1>8, <1>9
    <3>2. web.checked /\ ~web.tls /\ block \in Seq(Symbols)
      BY NextLine
    <3>3. web'.checked /\ ~web'.tls /\ web' \in OpenWeb
      <4>1. web' = [web EXCEPT !.taken = web.taken + 1, !.held = block]
            /\ web.taken + 1 \in Nat
        BY <1>5 DEF OpenWeb
      <4> HIDE DEF block
      <4> QED
        BY <4>1, <3>2 DEF OpenWeb
    <3> QED
      BY <1>8, <3>1, <3>3 DEF Stage
  <2>2. web'.out \o web'.buf \o Piece(Wire(web'), web'.taken, web'.bodyLeft) = web'.out
    BY <1>8, <2>1, NothingPending
  <2> QED
    BY <1>1, <1>8, <1>9, <2>2
<1>12. k < Len(web'.requests)
  BY <1>1, <1>2, <1>8
<1>13. LET next == web'.requests[k + 1].head
       IN  Len(web'.held) < Len(next) /\ web'.held = SubSeq(next, 1, Len(web'.held))
  <2>1. web'.requests[k + 1].head = head
    BY <1>8
  <2> HIDE DEF head, block, j
  <2>2. Len(web'.held) < Len(head) /\ web'.held = SubSeq(head, 1, Len(web'.held))
    BY <1>1, <1>4, <1>6, <1>8
  <2> QED
    BY <2>1, <2>2
<1> QED
  BY <1>10, <1>11, <1>12, <1>13 DEF After

\* A line loaded is in its place.
LEMMA LoadLineInPlace ==
  ASSUME web \in OpenWeb, Stage(web), Kept(web), InPlace(web), LoadLine
  PROVE  InPlace(web')
<1>1. ~web.tls /\ web.checked
  BY NextLine
<1>2. Wire(web)[1] # Hello
  BY <1>1 DEF InPlace
<1>3. /\ web'.requests = web.requests /\ web'.tls = web.tls
      /\ web.cut => web'.cut
  <2> DEFINE line == Wire(web)[web.taken + 1]
             block == Append(web.held, line)
             deduped == DedupeHost(block)
             length == ContentLength(deduped)
  <2>1. \/ web' = [web EXCEPT !.taken = web.taken + 1, !.held = << >>, !.buf = deduped,
                              !.bodyLeft = length]
        \/ web' = [web EXCEPT !.taken = web.taken + 1, !.held = << >>, !.buf = block,
                              !.cut = TRUE]
        \/ web' = [web EXCEPT !.taken = web.taken + 1, !.held = block]
    BY NextLine
  <2> HIDE DEF line, block, deduped, length
  <2> QED
    BY <2>1 DEF OpenWeb
<1>4. Wire(web') = Wire(web)
  BY <1>3, SameWire
<1>5. ASSUME ~web'.cut PROVE \E k \in 0..Len(web'.requests) : After(web', k)
  <2>1. PICK k \in 0..Len(web.requests) : After(web, k)
    BY <1>2, <1>3, <1>5 DEF InPlace
  <2>2. CASE Wire(web)[web.taken + 1] = Blank
    <3>1. k + 1 \in 0..Len(web.requests) /\ After(web', k + 1)
      BY <1>2, <2>1, <2>2, BlockInPlace
    <3> QED
      BY <1>3, <3>1
  <2>3. CASE Wire(web)[web.taken + 1] # Blank
    <3>1. After(web', k)
      BY <1>2, <1>5, <2>1, <2>3, LineInPlace
    <3> QED
      BY <1>3, <3>1
  <2> QED
    BY <2>2, <2>3
<1> QED
  BY <1>1, <1>2, <1>3, <1>4, <1>5 DEF InPlace

\* A block handed on raw ends what is said of the rewriting.
LEMMA CutHeaderInPlace ==
  ASSUME web \in OpenWeb, Stage(web), Kept(web), InPlace(web), CutHeader
  PROVE  InPlace(web')
<1>1. web'.cut /\ ~web'.tls
  BY CutHeaderKept
<1>2. /\ web' = [web EXCEPT !.buf = web.held, !.held = << >>, !.cut = TRUE]
      /\ web.checked /\ ~web.tls
  BY DEF CutHeader, InHeaders, Reading
<1>3. web'.requests = web.requests
  BY <1>2
<1>4. Wire(web') = Wire(web)
  BY <1>3, SameWire
<1>5. Wire(web)[1] # Hello
  BY <1>2 DEF InPlace
<1> QED
  BY <1>1, <1>4, <1>5 DEF InPlace

-----------------------------------------------------------------------------
(* The invariant holds, and says what it should *)

\* What is out is a prefix of what comes of all.
LEMMA OutIsPrefix ==
  ASSUME NEW S, NEW a \in Seq(S), NEW b \in Seq(S), NEW t \in Seq(S), NEW front, NEW whole,
         front = a \o b, Completes(whole, front, t)
  PROVE  IsPrefix(a, whole)
<1>1. b \o t \in Seq(S) /\ Completes(whole, a, b \o t)
  BY CompletesMore DEF Completes
<1>2. whole = a \o (b \o t)
  BY <1>1 DEF Completes
<1>3. IsPrefix(a, a \o (b \o t))
  BY <1>1, ConcatPrefix
<1> QED
  BY <1>2, <1>3

\* The pieces of an open connection say that each header block is rewritten.
LEMMA InPlaceMeans ==
  ASSUME web \in OpenWeb, Stage(web), InPlace(web), ~web.cut
  PROVE  IsPrefix(web.out, Rewritten(web))
<1> DEFINE s == Wire(web)
<1>1. /\ s \in Seq(Symbols) /\ web.out \in Seq(Symbols) /\ web.buf \in Seq(Symbols)
      /\ web.taken \in Nat /\ web.bodyLeft \in Nat /\ Len(s) \in Nat
      /\ web.requests \in Requests /\ web.taken <= Len(s)
  BY WireType DEF OpenWeb, Stage
<1>2. CASE s[1] = Hello
  <2> DEFINE rest == SubSeq(s, web.taken + 1, Len(s))
             front == SubSeq(s, 1, web.taken)
  <2>1. web.out \o web.buf = front
    BY <1>2 DEF InPlace
  <2>2. rest \in Seq(Symbols) /\ front \o rest = s
    <3> HIDE DEF s
    <3> QED
      BY <1>1, SplitAt
  <2> HIDE DEF rest, front
  <2>3. Completes(s, front, rest)
    BY <2>2 DEF Completes
  <2>4. IsPrefix(web.out, s)
    <3> DEFINE a == web.out
               b == web.buf
    <3>1. a \in Seq(Symbols) /\ b \in Seq(Symbols) /\ front = a \o b
      BY <1>1, <2>1
    <3> HIDE DEF a, b, s
    <3>2. IsPrefix(a, s)
      BY <2>2, <2>3, <3>1, OutIsPrefix
    <3> QED
      BY <3>2 DEF a
  <2> QED
    BY <1>2, <2>4 DEF Rewritten
<1>3. CASE s[1] # Hello
  <2>1. PICK k \in 0..Len(web.requests) : After(web, k)
    BY <1>3 DEF InPlace
  <2>2. /\ Wanted(web) \in Seq(Seq(Symbols)) /\ Len(Wanted(web)) = Len(web.requests)
        /\ Asked(web) \in Seq(Seq(Symbols)) /\ Len(Asked(web)) = Len(web.requests)
        /\ s = FlattenSeq(Asked(web))
    BY <1>1, WireType
  <2>3. Rewritten(web) = FlattenSeq(Wanted(web))
    BY <1>3 DEF Rewritten, Wanted
  <2>4. PICK t \in Seq(Symbols) : FlattenSeq(Wanted(web)) = Joined(Wanted(web), k) \o t
    BY <2>1, <2>2, JoinedIsPrefix
  <2>5. Completes(FlattenSeq(Wanted(web)), Joined(Wanted(web), k), t)
    BY <2>4 DEF Completes
  <2> DEFINE rest == Piece(s, web.taken, web.bodyLeft)
             a == web.out
             b == web.buf
  <2>6. rest \in Seq(Symbols)
    <3>1. CASE web.bodyLeft = 0
      <4>1. 0 \in Nat /\ web.taken + 0 <= Len(s)
        BY <1>1
      <4> HIDE DEF s
      <4> QED
        BY <1>1, <3>1, <4>1, PieceProperties
    <3>2. CASE web.bodyLeft # 0
      <4>1. web.held = << >>
        BY <3>2 DEF Stage
      <4>2. web.taken + web.bodyLeft = Len(Joined(Asked(web), k))
        <5>1. Joined(Asked(web), k) \in Seq(Symbols)
          BY <2>2, JoinedProperties
        <5>2. Len(Joined(Asked(web), k)) \in Nat /\ Len(web.held) = 0
          BY <4>1, <5>1, EmptySeq, LenProperties
        <5> QED
          BY <2>1, <5>2 DEF After
      <4>3. PICK u \in Seq(Symbols) : FlattenSeq(Asked(web)) = Joined(Asked(web), k) \o u
        BY <2>1, <2>2, JoinedIsPrefix
      <4>4. Len(Joined(Asked(web), k)) <= Len(s)
        <5> DEFINE p == Joined(Asked(web), k)
        <5>1. p \in Seq(Symbols)
          BY <2>2, JoinedProperties
        <5>2. s = p \o u
          BY <2>2, <4>3
        <5>3. Joinable(Symbols)
          BY Joining
        <5> HIDE DEF p, s
        <5>4. Len(s) = Len(p) + Len(u) /\ Len(p) \in Nat /\ Len(u) \in Nat
          BY <5>1, <5>2, <5>3, Zenon DEF Joinable
        <5>5. Len(p) <= Len(s)
          BY <5>4
        <5> QED
          BY <5>5 DEF p
      <4>5. web.taken + web.bodyLeft <= Len(s)
        BY <4>2, <4>4
      <4> HIDE DEF s
      <4> QED
        BY <1>1, <4>5, PieceProperties
    <3> QED
      BY <3>1, <3>2
  <2>7. Joined(Wanted(web), k) = (a \o b) \o rest
    BY <2>1 DEF After
  <2>8. Associative(Symbols) /\ Joinable(Symbols)
    BY Joining
  <2>9. a \in Seq(Symbols) /\ b \in Seq(Symbols)
    BY <1>1
  <2> HIDE DEF a, b, rest
  <2>10. (a \o b) \o rest = a \o (b \o rest) /\ b \o rest \in Seq(Symbols)
    <3>1. (a \o b) \o rest = a \o (b \o rest)
      BY <2>6, <2>8, <2>9, Zenon DEF Associative
    <3>2. b \o rest \in Seq(Symbols)
      BY <2>6, <2>8, <2>9, Zenon DEF Joinable
    <3> QED
      BY <3>1, <3>2
  <2> DEFINE front == Joined(Wanted(web), k)
             whole == FlattenSeq(Wanted(web))
             more == b \o rest
  <2>11. front = a \o more /\ more \in Seq(Symbols) /\ Completes(whole, front, t)
    BY <2>5, <2>7, <2>10
  <2> HIDE DEF front, whole, more
  <2>12. IsPrefix(a, whole)
    BY <2>9, <2>11, OutIsPrefix
  <2> QED
    BY <2>3, <2>12 DEF a, whole
<1> QED
  BY <1>2, <1>3

\* The invariant implies both properties.
LEMMA WebInvMeans == WebInv => OnlyHostsDropped /\ HostOnce
<1> SUFFICES ASSUME WebInv, web.state = "open" PROVE OnlyHostsDropped /\ HostOnce
  BY DEF OnlyHostsDropped, HostOnce
<1>1. web \in OpenWeb /\ Stage(web) /\ Kept(web) /\ InPlace(web)
  BY DEF WebInv, NoWeb, WebEnded
<1>2. OnlyHostsDropped
  BY <1>1 DEF Kept, OnlyHostsDropped
<1>3. HostOnce
  BY <1>1, InPlaceMeans DEF HostOnce
<1> QED
  BY <1>2, <1>3

\* A new connection has it.
LEMMA WrappedInv ==
  ASSUME NEW requests \in Requests, web' = Wrapped(requests)
  PROVE  WebInv'
<1>1. LET w == Wrapped(requests) IN w \in OpenWeb /\ Stage(w) /\ Kept(w) /\ InPlace(w)
  BY WrappedKept, WrappedInPlace
<1> DEFINE w == Wrapped(requests)
<1>2. w \in OpenWeb /\ Stage(w) /\ Kept(w) /\ InPlace(w)
  BY <1>1
<1> HIDE DEF w
<1>3. web' = w
  BY DEF w
<1> QED
  BY <1>2, <1>3 DEF WebInv

\* Each read and each end of an open connection keeps it.
LEMMA WebStep ==
  ASSUME WebInv, web.state = "open",
         \/ \E n \in 0..Len(Wire(web)) : CheckTLS(n)
         \/ \E room \in Rooms : Hand(room) \/ \E n \in 1..Len(Wire(web)) : Through(room, n)
         \/ LoadLine \/ CutHeader \/ CloseWeb
  PROVE  WebInv'
<1>1. web \in OpenWeb /\ Stage(web) /\ Kept(web) /\ InPlace(web)
  BY DEF WebInv, NoWeb, WebEnded
<1> DEFINE Good == web' \in OpenWeb /\ Stage(web') /\ Kept(web') /\ InPlace(web')
<1>2. ASSUME NEW n, CheckTLS(n) PROVE Good
  BY <1>1, <1>2, CheckTLSKept, CheckTLSInPlace
<1>3. ASSUME NEW room \in Rooms, Hand(room) PROVE Good
  BY <1>1, <1>3, HandKept, HandInPlace
<1>4. ASSUME NEW room \in Rooms, NEW n \in 1..Len(Wire(web)), Through(room, n) PROVE Good
  BY <1>1, <1>4, ThroughKept, ThroughInPlace
<1>5. CASE LoadLine
  <2>1. Good
    BY <1>1, <1>5, LoadLineKept, LoadLineInPlace
  <2> QED
    BY <2>1 DEF WebInv
<1>6. CASE CutHeader
  <2>1. Good
    BY <1>1, <1>6, CutHeaderKept, CutHeaderInPlace
  <2> QED
    BY <2>1 DEF WebInv
<1>7. CASE CloseWeb
  BY <1>7 DEF CloseWeb, WebInv
<1>8. Good => WebInv'
  BY DEF WebInv
<1> HIDE DEF Good
<1> QED
  BY <1>2, <1>3, <1>4, <1>5, <1>6, <1>7, <1>8

\* The invariant holds of every connection the process accepts.
LEMMA WebInvHolds == ProcessSpec => []WebInv
<1>1. InitProcess => WebInv
  BY DEF InitProcess, WebInv
<1>2. WebInv /\ [NextProcess]_processVars => WebInv'
  <2> SUFFICES ASSUME WebInv, [NextProcess]_processVars PROVE WebInv'
    OBVIOUS
  <2>1. ASSUME UNCHANGED web PROVE WebInv'
    BY <2>1 DEF WebInv, OpenWeb, Stage, Kept, InPlace
  <2>2. CASE Run \/ Converse \/ \E s \in Services : AcceptTCP(s)
    BY <2>1, <2>2 DEF Run, Converse, AcceptTCP
  <2>3. ASSUME NEW s \in Services, AcceptHTTP(s) PROVE WebInv'
    BY <2>3, WrappedInv DEF AcceptHTTP
  <2>4. CASE Browse
    BY <2>4, WebStep DEF Browse
  <2>5. CASE UNCHANGED processVars
    BY <2>1, <2>5 DEF processVars
  <2> QED
    BY <2>2, <2>3, <2>4, <2>5 DEF NextProcess
<1> QED
  BY <1>1, <1>2, PTL DEF ProcessSpec

\* host.go:64-176: rewriting loses, repeats and reorders nothing but Host
\* lines, whatever clients send, however it arrives, however net/http reads
\* it, across reads that fail and blocks over any limit.
THEOREM OnlyHostsAreDropped == ProcessSpec => []OnlyHostsDropped
<1>1. WebInv => OnlyHostsDropped
  BY WebInvMeans
<1> QED
  BY <1>1, WebInvHolds, PTL

\* host.go:17-24: every header block of a connection that is kept alive is
\* rewritten, and nothing of a body is, unless a block was handed on raw.
THEOREM HostIsOnce == ProcessSpec => []HostOnce
<1>1. WebInv => HostOnce
  BY WebInvMeans
<1> QED
  BY <1>1, WebInvHolds, PTL

-----------------------------------------------------------------------------
(* The greatest of a set of numbers, and where the parts of a joined       *)
(* sequence begin *)

\* A set of numbers with a bound has a greatest one.
LEMMA MaxProperties ==
  ASSUME NEW n \in Nat, NEW places \in SUBSET (0..n), places # {}
  PROVE  Max(places) \in places /\ \A y \in places : y <= Max(places)
<1> DEFINE below == {n - x : x \in places}
<1>1. below \in SUBSET Nat /\ below # {}
  <2>1. \A x \in places : x \in 0..n /\ n - x \in Nat
    OBVIOUS
  <2> QED
    BY <2>1
<1>2. Min(below) \in below /\ \A y \in below : Min(below) <= y
  <2> HIDE DEF below
  <2> QED
    BY <1>1, MinProperties
<1>3. PICK x \in places : Min(below) = n - x
  BY <1>2
<1>4. ASSUME NEW y \in places
      PROVE  x >= y
  <2>1. n - y \in below
    OBVIOUS
  <2>2. n - x <= n - y
    BY <1>2, <1>3, <2>1
  <2> QED
    BY <2>2
<1>5. \E z \in places : \A y \in places : z >= y
  BY <1>4
<1>6. Max(places) \in places /\ \A y \in places : Max(places) >= y
  BY <1>5, Zenon DEF Max
<1> QED
  BY <1>6

\* How long the fronts are.
LEMMA JoinedLengths ==
  ASSUME NEW S, NEW parts \in Seq(Seq(S))
  PROVE  /\ Len(parts) \in Nat /\ FlattenSeq(parts) \in Seq(S) /\ Len(FlattenSeq(parts)) \in Nat
         /\ Len(Joined(parts, 0)) = 0
         /\ Len(Joined(parts, Len(parts))) = Len(FlattenSeq(parts))
         /\ \A k \in 0..Len(parts) : Len(Joined(parts, k)) \in Nat
         /\ \A k \in 0..(Len(parts) - 1) :
              /\ k \in 0..Len(parts) /\ k + 1 \in 0..Len(parts) /\ k + 1 \in 1..Len(parts)
              /\ parts[k + 1] \in Seq(S) /\ Len(parts[k + 1]) \in Nat
              /\ Len(Joined(parts, k + 1)) = Len(Joined(parts, k)) + Len(parts[k + 1])
<1>1. Len(parts) \in Nat /\ \A i \in 1..Len(parts) : parts[i] \in Seq(S)
  BY LenProperties, ElementOfSeq
<1>2. FlattenSeq(parts) \in Seq(S) /\ Len(FlattenSeq(parts)) \in Nat
  BY FlattenType, LenProperties
<1>3. /\ \A k \in 0..Len(parts) : Joined(parts, k) \in Seq(S)
      /\ Joined(parts, 0) = << >>
      /\ \A k \in 0..(Len(parts) - 1) : Joined(parts, k + 1) = Joined(parts, k) \o parts[k + 1]
      /\ Joined(parts, Len(parts)) = FlattenSeq(parts)
  BY JoinedProperties
<1>4. \A k \in 0..Len(parts) : Len(Joined(parts, k)) \in Nat
  BY <1>3, LenProperties
<1>5. Len(Joined(parts, 0)) = 0
  BY <1>3, EmptySeq
<1>6. ASSUME NEW k \in 0..(Len(parts) - 1)
      PROVE  /\ k \in 0..Len(parts) /\ k + 1 \in 0..Len(parts) /\ k + 1 \in 1..Len(parts)
             /\ parts[k + 1] \in Seq(S) /\ Len(parts[k + 1]) \in Nat
             /\ Len(Joined(parts, k + 1)) = Len(Joined(parts, k)) + Len(parts[k + 1])
  <2>1. k \in 0..Len(parts) /\ k + 1 \in 0..Len(parts) /\ k + 1 \in 1..Len(parts)
    BY <1>1
  <2>2. parts[k + 1] \in Seq(S) /\ Joined(parts, k) \in Seq(S)
    BY <1>1, <1>3, <2>1
  <2>3. Len(Joined(parts, k) \o parts[k + 1]) = Len(Joined(parts, k)) + Len(parts[k + 1])
    BY <2>2, ConcatProperties
  <2> QED
    BY <1>3, <2>1, <2>2, <2>3, LenProperties
<1> QED
  BY <1>1, <1>2, <1>3, <1>4, <1>5, <1>6

\* No part is empty, so every part makes a front longer.
LEMMA JoinedGrows ==
  ASSUME NEW S, NEW parts \in Seq(Seq(S)), \A i \in 1..Len(parts) : Len(parts[i]) >= 1,
         NEW i \in 0..Len(parts)
  PROVE  \A j \in i..Len(parts) : Len(Joined(parts, j)) >= Len(Joined(parts, i)) + (j - i)
<1> DEFINE n == Len(parts) - i
           J(k) == Len(Joined(parts, k))
           P == {d \in 0..n : J(i + d) >= J(i) + d}
<1>1. /\ Len(parts) \in Nat /\ \A k \in 0..Len(parts) : J(k) \in Nat
      /\ \A k \in 0..(Len(parts) - 1) :
           k + 1 \in 1..Len(parts) /\ Len(parts[k + 1]) \in Nat /\ J(k + 1) = J(k) + Len(parts[k + 1])
  BY JoinedLengths
<1> HIDE DEF J
<1>2. n \in Nat
  BY <1>1
<1>3. 0 \in P
  BY <1>1
<1>4. ASSUME NEW d \in 0..(n - 1), d \in P
      PROVE  d + 1 \in P
  <2>1. i + d \in 0..(Len(parts) - 1) /\ i + (d + 1) = (i + d) + 1
    BY <1>1
  <2>2. J((i + d) + 1) = J(i + d) + Len(parts[(i + d) + 1]) /\ Len(parts[(i + d) + 1]) >= 1
        /\ Len(parts[(i + d) + 1]) \in Nat /\ J(i + d) \in Nat /\ J(i) \in Nat
    BY <1>1, <2>1
  <2>3. J(i + d) >= J(i) + d
    BY <1>4
  <2>4. J(i + (d + 1)) >= J(i) + (d + 1)
    BY <2>1, <2>2, <2>3
  <2> QED
    BY <1>2, <2>4
<1>5. \A d \in 0..n : d \in P
  <2> HIDE DEF P, n
  <2> QED
    BY <1>2, <1>3, <1>4, BoundedInduction
<1>6. ASSUME NEW j \in i..Len(parts)
      PROVE  J(j) >= J(i) + (j - i)
  <2>1. j - i \in 0..n /\ i + (j - i) = j
    BY <1>1
  <2> QED
    BY <1>5, <2>1
<1> QED
  BY <1>6 DEF J

\* Where the pieces of one part are in the whole.
LEMMA PartAt ==
  ASSUME NEW S, NEW parts \in Seq(Seq(S)), NEW k \in 0..(Len(parts) - 1),
         NEW a \in Nat, NEW b \in Nat, a + b <= Len(parts[k + 1])
  PROVE  Piece(FlattenSeq(parts), Len(Joined(parts, k)) + a, b) = Piece(parts[k + 1], a, b)
<1> DEFINE front == Joined(parts, k)
           part == parts[k + 1]
<1>1. /\ k + 1 \in 0..Len(parts) /\ part \in Seq(S) /\ Len(part) \in Nat /\ front \in Seq(S)
      /\ Len(front) \in Nat
  BY JoinedLengths, JoinedProperties
<1>2. Joined(parts, k + 1) = front \o part
  BY JoinedProperties
<1>3. PICK t \in Seq(S) : FlattenSeq(parts) = Joined(parts, k + 1) \o t
  BY <1>1, JoinedIsPrefix
<1> HIDE DEF front, part
<1>4. front \o part \in Seq(S) /\ Len(front \o part) = Len(front) + Len(part)
  BY <1>1, ConcatProperties
<1>5. (Len(front) + a) + b <= Len(front \o part) /\ Len(front) + a \in Nat
  BY <1>1, <1>4 DEF part
<1>6. Piece((front \o part) \o t, Len(front) + a, b) = Piece(front \o part, Len(front) + a, b)
  BY <1>4, <1>5, PieceBefore
<1>7. Piece(front \o part, Len(front) + a, b) = Piece(part, a, b)
  BY <1>1, PieceBehind DEF part
<1>8. FlattenSeq(parts) = (front \o part) \o t
  BY <1>2, <1>3
<1> QED
  BY <1>6, <1>7, <1>8 DEF front, part

PairRun(f, text) ==
  /\ f[0] = [pairs |-> << >>, rest |-> text, final |-> FALSE]
  /\ \A i \in 0..(Len(text) - 1) : f[i + 1] = NextPair(f[i])
  /\ Pairs(text) = f[Len(text)]

\* The turns of the inner loop of ParseGameSpyMessage.
LEMMA PairTurns ==
  ASSUME NEW text, Len(text) \in Nat
  PROVE  \E f : PairRun(f, text)
<1> DEFINE n == Len(text)
           start == [pairs |-> << >>, rest |-> text, final |-> FALSE]
           Good(f, k) == f[0] = start /\ \A i \in 1..k : f[i] = NextPair(f[i - 1])
           Some(k) == \E f : Good(f, k)
           P == {k \in Nat : Some(k)}
           Eq(g) == g = [i \in 0..n |-> IF i = 0 THEN start ELSE NextPair(g[i - 1])]
           turn == CHOOSE g : Eq(g)
<1>1. Pairs(text) = turn[n]
  BY Zenon DEF Pairs
<1> HIDE DEF start, n, turn
<1>2. Some(0)
  <2>1. Good([i \in 0..0 |-> start], 0)
    OBVIOUS
  <2> QED
    BY <2>1
<1>3. ASSUME NEW k \in Nat, Some(k)
      PROVE  Some(k + 1)
  <2>1. PICK f : Good(f, k)
    BY <1>3
  <2> DEFINE g == [i \in 0..(k + 1) |-> IF i = k + 1 THEN NextPair(f[k]) ELSE f[i]]
  <2>2. g[0] = start
    BY <2>1
  <2>3. ASSUME NEW i \in 1..(k + 1)
        PROVE  g[i] = NextPair(g[i - 1])
    <3>1. g[i - 1] = f[i - 1]
      OBVIOUS
    <3>2. CASE i = k + 1
      BY <3>1, <3>2
    <3>3. CASE i # k + 1
      BY <2>1, <3>1, <3>3
    <3> QED
      BY <3>2, <3>3
  <2> HIDE DEF g
  <2>4. Good(g, k + 1)
    BY <2>2, <2>3
  <2> HIDE DEF Good
  <2> QED
    BY <2>4
<1>4. n \in Nat
  BY DEF n
<1>5. Some(n)
  <2> HIDE DEF Some
  <2>1. 0 \in P /\ \A k \in Nat : k \in P => k + 1 \in P
    BY <1>2, <1>3
  <2> HIDE DEF P
  <2>2. n \in P
    BY <1>4, <2>1, SetInduction
  <2> QED
    BY <2>2 DEF P
<1>6. PICK f : Good(f, n)
  BY <1>5
<1> DEFINE h == [i \in 0..n |-> f[i]]
<1>7. Eq(h)
  <2>1. ASSUME NEW i \in 0..n
        PROVE  h[i] = IF i = 0 THEN start ELSE NextPair(h[i - 1])
    <3>1. CASE i = 0
      BY <1>6, <3>1
    <3>2. CASE i # 0
      <4>1. i \in 1..n /\ i - 1 \in 0..n
        BY <1>4, <3>2
      <4>2. h[i] = f[i] /\ h[i - 1] = f[i - 1]
        BY <4>1
      <4> QED
        BY <1>6, <3>2, <4>1, <4>2
    <3> QED
      BY <3>1, <3>2
  <2> QED
    BY <2>1
<1>8. Eq(turn)
  <2> HIDE DEF h
  <2> QED
    BY <1>7, Zenon DEF turn
<1>9. /\ turn[0] = start
      /\ \A i \in 1..n : turn[i] = NextPair(turn[i - 1])
  <2>1. 0 \in 0..n /\ \A i \in 1..n : i \in 0..n /\ i # 0
    BY <1>4
  <2> QED
    BY <1>8, <2>1
<1>10. \A i \in 0..(n - 1) : turn[i + 1] = NextPair(turn[i])
  <2> SUFFICES ASSUME NEW i \in 0..(n - 1) PROVE turn[i + 1] = NextPair(turn[i])
    OBVIOUS
  <2>1. i + 1 \in 1..n /\ (i + 1) - 1 = i
    BY <1>4
  <2> QED
    BY <1>9, <2>1
<1> QED
  BY <1>1, <1>9, <1>10 DEF start, n, PairRun

CommandRun(f, text) ==
  /\ f[0] = [commands |-> << >>, remainder |-> text]
  /\ \A i \in 0..(Len(text) - 1) : f[i + 1] = NextCommand(f[i])
  /\ ParseGameSpyMessage(text) = f[Len(text)]

\* The turns of its outer loop.
LEMMA CommandTurns ==
  ASSUME NEW text, Len(text) \in Nat
  PROVE  \E f : CommandRun(f, text)
<1> DEFINE n == Len(text)
           start == [commands |-> << >>, remainder |-> text]
           Good(f, k) == f[0] = start /\ \A i \in 1..k : f[i] = NextCommand(f[i - 1])
           Some(k) == \E f : Good(f, k)
           P == {k \in Nat : Some(k)}
           Eq(g) == g = [i \in 0..n |-> IF i = 0 THEN start ELSE NextCommand(g[i - 1])]
           turn == CHOOSE g : Eq(g)
<1>1. ParseGameSpyMessage(text) = turn[n]
  BY Zenon DEF ParseGameSpyMessage
<1> HIDE DEF start, n, turn
<1>2. Some(0)
  <2>1. Good([i \in 0..0 |-> start], 0)
    OBVIOUS
  <2> QED
    BY <2>1
<1>3. ASSUME NEW k \in Nat, Some(k)
      PROVE  Some(k + 1)
  <2>1. PICK f : Good(f, k)
    BY <1>3
  <2> DEFINE g == [i \in 0..(k + 1) |-> IF i = k + 1 THEN NextCommand(f[k]) ELSE f[i]]
  <2>2. g[0] = start
    BY <2>1
  <2>3. ASSUME NEW i \in 1..(k + 1)
        PROVE  g[i] = NextCommand(g[i - 1])
    <3>1. g[i - 1] = f[i - 1]
      OBVIOUS
    <3>2. CASE i = k + 1
      BY <3>1, <3>2
    <3>3. CASE i # k + 1
      BY <2>1, <3>1, <3>3
    <3> QED
      BY <3>2, <3>3
  <2> HIDE DEF g
  <2>4. Good(g, k + 1)
    BY <2>2, <2>3
  <2> HIDE DEF Good
  <2> QED
    BY <2>4
<1>4. n \in Nat
  BY DEF n
<1>5. Some(n)
  <2> HIDE DEF Some
  <2>1. 0 \in P /\ \A k \in Nat : k \in P => k + 1 \in P
    BY <1>2, <1>3
  <2> HIDE DEF P
  <2>2. n \in P
    BY <1>4, <2>1, SetInduction
  <2> QED
    BY <2>2 DEF P
<1>6. PICK f : Good(f, n)
  BY <1>5
<1> DEFINE h == [i \in 0..n |-> f[i]]
<1>7. Eq(h)
  <2>1. ASSUME NEW i \in 0..n
        PROVE  h[i] = IF i = 0 THEN start ELSE NextCommand(h[i - 1])
    <3>1. CASE i = 0
      BY <1>6, <3>1
    <3>2. CASE i # 0
      <4>1. i \in 1..n /\ i - 1 \in 0..n
        BY <1>4, <3>2
      <4>2. h[i] = f[i] /\ h[i - 1] = f[i - 1]
        BY <4>1
      <4> QED
        BY <1>6, <3>2, <4>1, <4>2
    <3> QED
      BY <3>1, <3>2
  <2> QED
    BY <2>1
<1>8. Eq(turn)
  <2> HIDE DEF h
  <2> QED
    BY <1>7, Zenon DEF turn
<1>9. /\ turn[0] = start
      /\ \A i \in 1..n : turn[i] = NextCommand(turn[i - 1])
  <2>1. 0 \in 0..n /\ \A i \in 1..n : i \in 0..n /\ i # 0
    BY <1>4
  <2> QED
    BY <1>8, <2>1
<1>10. \A i \in 0..(n - 1) : turn[i + 1] = NextCommand(turn[i])
  <2> SUFFICES ASSUME NEW i \in 0..(n - 1) PROVE turn[i + 1] = NextCommand(turn[i])
    OBVIOUS
  <2>1. i + 1 \in 1..n /\ (i + 1) - 1 = i
    BY <1>4
  <2> QED
    BY <1>9, <2>1
<1> QED
  BY <1>1, <1>9, <1>10 DEF start, n, CommandRun

PacketRun(f, text) ==
  /\ f[0] = [packets |-> << >>, rest |-> text, open |-> TRUE]
  /\ \A i \in 0..(Len(text) - 1) : f[i + 1] = NextPacket(f[i])
  /\ Packets(text) = f[Len(text)]

\* The turns of the loop of dispatch.
LEMMA PacketTurns ==
  ASSUME NEW text, Len(text) \in Nat
  PROVE  \E f : PacketRun(f, text)
<1> DEFINE n == Len(text)
           start == [packets |-> << >>, rest |-> text, open |-> TRUE]
           Good(f, k) == f[0] = start /\ \A i \in 1..k : f[i] = NextPacket(f[i - 1])
           Some(k) == \E f : Good(f, k)
           P == {k \in Nat : Some(k)}
           Eq(g) == g = [i \in 0..n |-> IF i = 0 THEN start ELSE NextPacket(g[i - 1])]
           turn == CHOOSE g : Eq(g)
<1>1. Packets(text) = turn[n]
  BY Zenon DEF Packets
<1> HIDE DEF start, n, turn
<1>2. Some(0)
  <2>1. Good([i \in 0..0 |-> start], 0)
    OBVIOUS
  <2> QED
    BY <2>1
<1>3. ASSUME NEW k \in Nat, Some(k)
      PROVE  Some(k + 1)
  <2>1. PICK f : Good(f, k)
    BY <1>3
  <2> DEFINE g == [i \in 0..(k + 1) |-> IF i = k + 1 THEN NextPacket(f[k]) ELSE f[i]]
  <2>2. g[0] = start
    BY <2>1
  <2>3. ASSUME NEW i \in 1..(k + 1)
        PROVE  g[i] = NextPacket(g[i - 1])
    <3>1. g[i - 1] = f[i - 1]
      OBVIOUS
    <3>2. CASE i = k + 1
      BY <3>1, <3>2
    <3>3. CASE i # k + 1
      BY <2>1, <3>1, <3>3
    <3> QED
      BY <3>2, <3>3
  <2> HIDE DEF g
  <2>4. Good(g, k + 1)
    BY <2>2, <2>3
  <2> HIDE DEF Good
  <2> QED
    BY <2>4
<1>4. n \in Nat
  BY DEF n
<1>5. Some(n)
  <2> HIDE DEF Some
  <2>1. 0 \in P /\ \A k \in Nat : k \in P => k + 1 \in P
    BY <1>2, <1>3
  <2> HIDE DEF P
  <2>2. n \in P
    BY <1>4, <2>1, SetInduction
  <2> QED
    BY <2>2 DEF P
<1>6. PICK f : Good(f, n)
  BY <1>5
<1> DEFINE h == [i \in 0..n |-> f[i]]
<1>7. Eq(h)
  <2>1. ASSUME NEW i \in 0..n
        PROVE  h[i] = IF i = 0 THEN start ELSE NextPacket(h[i - 1])
    <3>1. CASE i = 0
      BY <1>6, <3>1
    <3>2. CASE i # 0
      <4>1. i \in 1..n /\ i - 1 \in 0..n
        BY <1>4, <3>2
      <4>2. h[i] = f[i] /\ h[i - 1] = f[i - 1]
        BY <4>1
      <4> QED
        BY <1>6, <3>2, <4>1, <4>2
    <3> QED
      BY <3>1, <3>2
  <2> QED
    BY <2>1
<1>8. Eq(turn)
  <2> HIDE DEF h
  <2> QED
    BY <1>7, Zenon DEF turn
<1>9. /\ turn[0] = start
      /\ \A i \in 1..n : turn[i] = NextPacket(turn[i - 1])
  <2>1. 0 \in 0..n /\ \A i \in 1..n : i \in 0..n /\ i # 0
    BY <1>4
  <2> QED
    BY <1>8, <2>1
<1>10. \A i \in 0..(n - 1) : turn[i + 1] = NextPacket(turn[i])
  <2> SUFFICES ASSUME NEW i \in 0..(n - 1) PROVE turn[i + 1] = NextPacket(turn[i])
    OBVIOUS
  <2>1. i + 1 \in 1..n /\ (i + 1) - 1 = i
    BY <1>4
  <2> QED
    BY <1>9, <2>1
<1> QED
  BY <1>1, <1>9, <1>10 DEF start, n, PacketRun

-----------------------------------------------------------------------------
(* Reading GameSpy text *)

NoSlash(w) == \A j \in 1..Len(w) : w[j] # Slash

(* What the wire carries.                                                  *)
Text == Letters \cup {Slash}

\* What a key or a value is made of.
LEMMA WordProperties ==
  ASSUME NEW w \in Word
  PROVE  /\ w \in Seq(Text) /\ Len(w) \in Nat /\ NoSlash(w) /\ w # FinalWord
<1>1. w \in Seq(Letters) /\ w # FinalWord
  BY DEF Word
<1>2. w \in Seq(Text)
  <2>1. Letters \subseteq Text
    BY DEF Text
  <2> QED
    BY <1>1, <2>1, SeqMonotonic
<1>3. ASSUME NEW j \in 1..Len(w)
      PROVE  w[j] # Slash
  <2>1. w[j] \in Letters
    BY <1>1, ElementOfSeq
  <2> QED
    BY <2>1, ConnectionAssumption
<1> QED
  BY <1>1, <1>2, <1>3, LenProperties DEF NoSlash

\* What the marker is made of.
LEMMA FinalProperties ==
  /\ Final \in Seq(Text) /\ Len(Final) = 4
  /\ Final[1] = Slash /\ Final[2] = FinalWord[1] /\ Final[3] = FinalWord[2] /\ Final[4] = Slash
  /\ FinalWord \in Seq(Text) /\ Len(FinalWord) = 2 /\ NoSlash(FinalWord)
<1>1. Len(FinalWord) = 2
  BY DEF FinalWord
<1>2. FinalWord \in Seq(Letters) /\ Slash \notin Letters
  BY ConnectionAssumption
<1>3. \A j \in 1..2 : FinalWord[j] \in Letters
  BY <1>1, <1>2, ElementOfSeq
<1>4. NoSlash(FinalWord)
  BY <1>1, <1>2, <1>3 DEF NoSlash
<1>5. FinalWord \in Seq(Text) /\ <<Slash>> \in Seq(Text)
  <2>1. Letters \subseteq Text /\ Slash \in Text
    BY DEF Text
  <2> QED
    BY <1>2, <2>1, SeqMonotonic
<1> DEFINE a == <<Slash>>
           b == <<Slash>> \o FinalWord
<1>6. Final = b \o a /\ Len(a) = 1 /\ a[1] = Slash
  BY DEF Final
<1>7. b \in Seq(Text) /\ Len(b) = 3
      /\ \A i \in 1..3 : b[i] = IF i <= 1 THEN a[i] ELSE FinalWord[i - 1]
  <2>1. /\ b \in Seq(Text) /\ Len(b) = Len(a) + Len(FinalWord)
        /\ \A i \in 1..(Len(a) + Len(FinalWord)) :
             b[i] = IF i <= Len(a) THEN a[i] ELSE FinalWord[i - Len(a)]
    BY <1>5, ConcatProperties
  <2> HIDE DEF a, b
  <2> QED
    BY <1>1, <1>6, <2>1
<1>8. Final \in Seq(Text) /\ Len(Final) = 4
      /\ \A i \in 1..4 : Final[i] = IF i <= 3 THEN b[i] ELSE a[i - 3]
  <2>1. a \in Seq(Text)
    BY <1>5
  <2> HIDE DEF a, b
  <2>2. /\ b \o a \in Seq(Text) /\ Len(b \o a) = Len(b) + Len(a)
        /\ \A i \in 1..(Len(b) + Len(a)) :
             (b \o a)[i] = IF i <= Len(b) THEN b[i] ELSE a[i - Len(b)]
    BY <1>7, <2>1, ConcatProperties
  <2> QED
    BY <1>6, <1>7, <2>2
<1> HIDE DEF a, b
<1>9. b[1] = Slash /\ b[2] = FinalWord[1] /\ b[3] = FinalWord[2]
  BY <1>6, <1>7
<1>10. Final[1] = Slash /\ Final[2] = FinalWord[1] /\ Final[3] = FinalWord[2] /\ Final[4] = Slash
  BY <1>6, <1>8, <1>9
<1> QED
  BY <1>1, <1>4, <1>5, <1>8, <1>10

\* The first backslash behind i.
LEMMA SlashIsAt ==
  ASSUME NEW s \in Seq(Text), NEW i \in Nat, NEW n \in (i + 1)..Len(s), s[n] = Slash,
         \A j \in (i + 1)..(n - 1) : s[j] # Slash
  PROVE  SlashAfter(s, i) = n
<1> DEFINE places == {j \in (i + 1)..Len(s) : s[j] = Slash}
<1>1. Len(s) \in Nat
  BY LenProperties
<1>2. n \in places /\ places \in SUBSET Nat
  BY <1>1
<1>3. Min(places) \in places /\ Min(places) <= n
  <2> HIDE DEF places
  <2> QED
    BY <1>2, MinProperties
<1>4. Min(places) = n
  <2> DEFINE m == Min(places)
  <2>1. m \in (i + 1)..Len(s) /\ s[m] = Slash /\ m <= n
    BY <1>3
  <2> HIDE DEF m
  <2>2. m = n
    BY <1>1, <2>1
  <2> QED
    BY <2>2 DEF m
<1>5. SlashAfter(s, i) = Min(places)
  BY <1>2 DEF SlashAfter
<1> QED
  BY <1>4, <1>5

(* What is behind the first i elements.                                    *)
Rest(s, i) == Piece(s, i, Len(s) - i)

\* It is what From takes.
LEMMA RestProperties ==
  ASSUME NEW S, NEW s \in Seq(S), NEW i \in 0..Len(s)
  PROVE  /\ Rest(s, i) \in Seq(S) /\ Len(Rest(s, i)) = Len(s) - i
         /\ \A j \in 1..(Len(s) - i) : Rest(s, i)[j] = s[i + j]
         /\ From(s, i + 1) = Rest(s, i)
         /\ i = Len(s) => Rest(s, i) = << >>
<1> DEFINE n == Len(s) - i
<1>1. Len(s) \in Nat /\ i \in Nat /\ n \in Nat /\ i + n = Len(s) /\ (i = Len(s) => n = 0)
  BY LenProperties
<1> HIDE DEF n
<1>2. /\ Piece(s, i, n) \in Seq(S) /\ Len(Piece(s, i, n)) = n
      /\ \A j \in 1..n : Piece(s, i, n)[j] = s[i + j]
      /\ n = 0 => Piece(s, i, n) = << >>
  <2>1. i + n <= Len(s)
    BY <1>1
  <2>2. i \in Nat /\ n \in Nat
    BY <1>1
  <2> QED
    BY <2>1, <2>2, PieceProperties
<1>3. Rest(s, i) = Piece(s, i, n)
  BY DEF Rest, n
<1>4. From(s, i + 1) = Rest(s, i)
  BY <1>1, <1>3 DEF From, Piece
<1> QED
  BY <1>1, <1>2, <1>3, <1>4 DEF n

\* The rest of a rest.
LEMMA RestOfRest ==
  ASSUME NEW S, NEW s \in Seq(S), NEW i \in 0..Len(s), NEW k \in 0..(Len(s) - i)
  PROVE  Rest(Rest(s, i), k) = Rest(s, i + k)
<1> DEFINE t == Rest(s, i)
           u == Rest(t, k)
           v == Rest(s, i + k)
<1>1. Len(s) \in Nat /\ i + k \in 0..Len(s) /\ i \in Nat /\ k \in Nat
  BY LenProperties
<1>2. /\ t \in Seq(S) /\ Len(t) = Len(s) - i
      /\ \A j \in 1..(Len(s) - i) : t[j] = s[i + j]
  BY RestProperties
<1>3. /\ v \in Seq(S) /\ Len(v) = Len(s) - (i + k)
      /\ \A j \in 1..(Len(s) - (i + k)) : v[j] = s[(i + k) + j]
  <2> HIDE DEF t, u
  <2> QED
    BY <1>1, RestProperties
<1> HIDE DEF t, v
<1>4. /\ u \in Seq(S) /\ Len(u) = Len(t) - k
      /\ \A j \in 1..(Len(t) - k) : u[j] = t[k + j]
  <2>1. k \in 0..Len(t)
    BY <1>2
  <2> QED
    BY <1>2, <2>1, RestProperties
<1> HIDE DEF u
<1>5. Len(u) = Len(v) /\ Len(u) = Len(s) - (i + k)
  BY <1>1, <1>2, <1>3, <1>4
<1>6. ASSUME NEW j \in 1..Len(u)
      PROVE  u[j] = v[j]
  <2>1. j \in 1..(Len(t) - k) /\ k + j \in 1..(Len(s) - i) /\ j \in 1..(Len(s) - (i + k))
    BY <1>1, <1>2, <1>4, <1>5
  <2>2. u[j] = t[k + j] /\ t[k + j] = s[i + (k + j)] /\ v[j] = s[(i + k) + j]
    BY <1>2, <1>3, <1>4, <2>1
  <2>3. i + (k + j) = (i + k) + j
    BY <1>1
  <2> QED
    BY <2>2, <2>3
<1>7. u = v
  BY <1>3, <1>4, <1>5, <1>6, SeqEqual
<1> QED
  BY <1>7 DEF t, u, v

(* s begins with a key between backslashes; and with a value behind it.    *)
KeyAt(s, key) ==
  /\ Len(key) + 2 <= Len(s)
  /\ s[1] = Slash /\ s[Len(key) + 2] = Slash
  /\ \A j \in 1..Len(key) : s[1 + j] = key[j]

PairLen(key, value) == Len(key) + 2 + Len(value)

PairAt(s, key, value) ==
  /\ KeyAt(s, key)
  /\ PairLen(key, value) < Len(s)
  /\ s[PairLen(key, value) + 1] = Slash
  /\ \A j \in 1..Len(value) : s[Len(key) + 2 + j] = value[j]

\* The key is what is between the first two backslashes.
LEMMA KeyRead ==
  ASSUME NEW s \in Seq(Text), NEW key \in Seq(Text), NoSlash(key), KeyAt(s, key)
  PROVE  /\ Starts(s)
         /\ SlashAfter(s, 1) = Len(key) + 2
         /\ SubSeq(s, 2, Len(key) + 1) = key
<1>1. Len(s) \in Nat /\ Len(key) \in Nat
  BY LenProperties
<1>2. Starts(s)
  <2>1. s # << >>
    BY <1>1, EmptySeq DEF KeyAt
  <2> QED
    BY <2>1 DEF Starts, KeyAt
<1>3. SlashAfter(s, 1) = Len(key) + 2
  <2>1. Len(key) + 2 \in (1 + 1)..Len(s) /\ s[Len(key) + 2] = Slash
    BY <1>1 DEF KeyAt
  <2>2. ASSUME NEW j \in (1 + 1)..((Len(key) + 2) - 1)
        PROVE  s[j] # Slash
    <3>1. j - 1 \in 1..Len(key) /\ 1 + (j - 1) = j
      BY <1>1
    <3> QED
      BY <3>1 DEF KeyAt, NoSlash
  <2> QED
    BY <2>1, <2>2, SlashIsAt
<1>4. SubSeq(s, 2, Len(key) + 1) = key
  <2> DEFINE n == Len(key)
             t == Piece(s, 1, n)
  <2>1. n \in Nat /\ 1 + n <= Len(s) /\ 1 \in Nat
    BY <1>1 DEF KeyAt
  <2> HIDE DEF n
  <2>2. t \in Seq(Text) /\ Len(t) = n /\ \A j \in 1..n : t[j] = s[1 + j]
    BY <2>1, PieceProperties
  <2> HIDE DEF t
  <2>3. Len(t) = Len(key) /\ \A j \in 1..Len(t) : t[j] = key[j]
    BY <2>1, <2>2 DEF KeyAt, n
  <2>4. t = key
    BY <2>2, <2>3, SeqEqual
  <2>5. t = SubSeq(s, 2, n + 1)
    BY <2>1 DEF t, Piece
  <2> QED
    BY <2>4, <2>5 DEF n
<1> QED
  BY <1>2, <1>3, <1>4

(* What the inner loop has found.                                          *)
Found(pairs, rest, final) == [pairs |-> pairs, rest |-> rest, final |-> final]

\* A turn of the inner loop takes a pair.
LEMMA PairRead ==
  ASSUME NEW pairs, NEW s \in Seq(Text), NEW key \in Word, NEW value \in Word,
         PairAt(s, key, value)
  PROVE  NextPair(Found(pairs, s, FALSE))
           = Found(Append(pairs, <<key, value>>), Rest(s, PairLen(key, value)), FALSE)
<1> DEFINE n == Len(key) + 2
           t == Rest(s, n)
           m == Len(value)
<1>1. /\ key \in Seq(Text) /\ NoSlash(key) /\ key # FinalWord
      /\ value \in Seq(Text) /\ NoSlash(value) /\ Len(key) \in Nat /\ m \in Nat /\ Len(s) \in Nat
  BY WordProperties, LenProperties
<1>2. Starts(s) /\ SlashAfter(s, 1) = n /\ SubSeq(s, 2, n - 1) = key
  <2>1. n - 1 = Len(key) + 1
    BY <1>1
  <2> QED
    BY <1>1, <2>1, KeyRead DEF PairAt
<1>3. n \in Nat /\ n \in 0..Len(s) /\ n + m < Len(s) /\ PairLen(key, value) = n + m /\ n # 0
  BY <1>1 DEF PairAt, PairLen, KeyAt
<1>4. \A j \in 1..m : s[n + j] = value[j]
  BY DEF PairAt
<1>5. s[(n + m) + 1] = Slash
  BY <1>3 DEF PairAt
<1> HIDE DEF n
<1>6. /\ t \in Seq(Text) /\ Len(t) = Len(s) - n
      /\ \A j \in 1..(Len(s) - n) : t[j] = s[n + j]
      /\ From(s, n + 1) = t
  BY <1>3, RestProperties
<1>7. Rest(t, m) = Rest(s, n + m) /\ From(t, m + 1) = Rest(t, m)
  <2>1. m \in 0..(Len(s) - n)
    BY <1>1, <1>3
  <2> HIDE DEF m
  <2>2. Rest(t, m) = Rest(s, n + m)
    BY <1>3, <2>1, RestOfRest
  <2> HIDE DEF t
  <2>3. From(t, m + 1) = Rest(t, m)
    BY <1>6, <2>1, RestProperties
  <2> QED
    BY <2>2, <2>3
<1> HIDE DEF t
<1>8. t # << >> /\ m + 1 \in 1..Len(t) /\ t[m + 1] = Slash /\ \A j \in 1..m : t[j] = value[j]
  <2>1. Len(t) # 0 /\ Len(t) \in Nat /\ m + 1 \in 1..Len(t) /\ m + 1 \in 1..(Len(s) - n)
    BY <1>1, <1>3, <1>6
  <2>2. t[m + 1] = s[n + (m + 1)] /\ n + (m + 1) = (n + m) + 1
    BY <1>1, <1>3, <1>6, <2>1
  <2>3. ASSUME NEW j \in 1..m
        PROVE  t[j] = value[j]
    <3>1. j \in 1..(Len(s) - n)
      BY <1>1, <1>3
    <3> QED
      BY <3>1, <1>4, <1>6
  <2>4. t # << >>
    BY <2>1, EmptySeq
  <2> QED
    BY <1>5, <2>1, <2>2, <2>3, <2>4
<1> DEFINE v == IF t = << >> \/ Starts(t) THEN << >>
                ELSE IF SlashAfter(t, 1) = 0 THEN t
                ELSE SubSeq(t, 1, SlashAfter(t, 1) - 1)
<1>9. v = value
  <2>1. CASE m = 0
    <3>1. value = << >>
      BY <1>1, <2>1, EmptySeq
    <3>2. Starts(t)
      BY <1>8, <2>1 DEF Starts
    <3> QED
      BY <3>1, <3>2
  <2>2. CASE m # 0
    <3>1. m \in Nat /\ 1 \in 1..m /\ m + 1 \in (1 + 1)..Len(t)
      BY <1>1, <1>8, <2>2
    <3>2. t[1] = value[1] /\ value[1] # Slash
      BY <1>1, <1>8, <3>1 DEF NoSlash
    <3>3. ASSUME NEW j \in (1 + 1)..((m + 1) - 1)
          PROVE  t[j] # Slash
      <4>1. j \in 1..m
        BY <3>1
      <4> QED
        BY <1>1, <1>8, <4>1 DEF NoSlash
    <3>4. SlashAfter(t, 1) = m + 1
      BY <1>6, <1>8, <3>1, <3>3, SlashIsAt
    <3>5. SubSeq(t, 1, m) = value
      <4> DEFINE u == SubSeq(t, 1, m)
      <4>1. \A j \in 1..m : t[j] \in Text
        <5>1. \A j \in 1..m : j \in 1..Len(t)
          BY <3>1
        <5> QED
          BY <1>6, <5>1, ElementOfSeq
      <4>2. u \in Seq(Text) /\ Len(u) = m /\ \A j \in 1..m : u[j] = t[j]
        <5>1. /\ u \in Seq(Text) /\ Len(u) = IF 1 <= m THEN m - 1 + 1 ELSE 0
              /\ \A i \in 1..(m - 1 + 1) : u[i] = t[1 + i - 1]
          BY <3>1, <4>1, SubSeqProperties
        <5> HIDE DEF u, m
        <5> QED
          BY <3>1, <5>1
      <4> HIDE DEF u
      <4>3. Len(u) = Len(value) /\ \A j \in 1..Len(u) : u[j] = value[j]
        BY <1>8, <4>2
      <4>4. u = value
        BY <1>1, <4>2, <4>3, SeqEqual
      <4> QED
        BY <4>4 DEF u
    <3>6. (m + 1) - 1 = m /\ m + 1 # 0
      BY <3>1
    <3>7. ~Starts(t)
      BY <3>2 DEF Starts
    <3> HIDE DEF m
    <3> QED
      BY <1>8, <3>4, <3>5, <3>6, <3>7
  <2> QED
    BY <2>1, <2>2
<1> DEFINE found == Found(pairs, s, FALSE)
<1>10. found.pairs = pairs /\ found.rest = s /\ found.final = FALSE
  BY DEF Found
<1>11. NextPair(found) = [found EXCEPT !.pairs = Append(pairs, <<key, v>>), !.rest = From(t, Len(v) + 1)]
  <2> HIDE DEF found, v
  <2>1. From(found.rest, SlashAfter(found.rest, 1) + 1) = t
    BY <1>2, <1>6, <1>10
  <2> QED
    BY <1>1, <1>2, <1>3, <1>6, <1>10, <2>1 DEF NextPair, v
<1>12. NextPair(found) = Found(Append(pairs, <<key, value>>), From(t, m + 1), FALSE)
  <2> HIDE DEF v
  <2> QED
    BY <1>9, <1>11 DEF Found
<1> QED
  BY <1>3, <1>7, <1>12

\* A turn of the inner loop takes the marker, and the rest are idle.
LEMMA FinalRead ==
  ASSUME NEW pairs, NEW s \in Seq(Text), KeyAt(s, FinalWord)
  PROVE  /\ NextPair(Found(pairs, s, FALSE)) = Found(pairs, Rest(s, 4), TRUE)
         /\ NextPair(Found(pairs, s, TRUE)) = Found(pairs, s, TRUE)
<1>1. Len(FinalWord) = 2 /\ NoSlash(FinalWord) /\ FinalWord \in Seq(Text)
  BY FinalProperties
<1>2. Starts(s) /\ SlashAfter(s, 1) = 4 /\ SubSeq(s, 2, 3) = FinalWord
  BY <1>1, KeyRead
<1>3. Len(s) \in Nat /\ 4 \in 0..Len(s)
  BY <1>1, LenProperties DEF KeyAt
<1>4. From(s, 4 + 1) = Rest(s, 4)
  BY <1>3, RestProperties
<1> DEFINE found == Found(pairs, s, FALSE)
<1>5. found.pairs = pairs /\ found.rest = s /\ found.final = FALSE
  BY DEF Found
<1>6. NextPair(found) = [found EXCEPT !.rest = Rest(s, 4), !.final = TRUE]
  <2> HIDE DEF found
  <2>1. SubSeq(found.rest, 2, SlashAfter(found.rest, 1) - 1) = FinalWord
    BY <1>2, <1>5
  <2>2. From(found.rest, SlashAfter(found.rest, 1) + 1) = Rest(s, 4)
    BY <1>2, <1>4, <1>5
  <2>3. ~(found.final \/ ~Starts(found.rest) \/ SlashAfter(found.rest, 1) = 0)
    BY <1>2, <1>5
  <2> HIDE DEF found
  <2>4. NextPair(found) = [found EXCEPT !.rest = From(found.rest, SlashAfter(found.rest, 1) + 1), !.final = TRUE]
    BY <2>1, <2>3, Zenon DEF NextPair
  <2> QED
    BY <2>2, <2>4
<1>7. NextPair(found) = Found(pairs, Rest(s, 4), TRUE)
  BY <1>6 DEF Found
<1>8. NextPair(Found(pairs, s, TRUE)) = Found(pairs, s, TRUE)
  BY DEF NextPair, Found
<1> QED
  BY <1>7, <1>8

\* The elements of a part are elements of the whole.
LEMMA PartElements ==
  ASSUME NEW S, NEW parts \in Seq(Seq(S)), NEW k \in 0..(Len(parts) - 1)
  PROVE  /\ Len(Joined(parts, k)) + Len(parts[k + 1]) <= Len(FlattenSeq(parts))
         /\ \A p \in 1..Len(parts[k + 1]) :
              FlattenSeq(parts)[Len(Joined(parts, k)) + p] = parts[k + 1][p]
<1> DEFINE flat == FlattenSeq(parts)
           part == parts[k + 1]
           m == Len(Joined(parts, k))
           n == Len(part)
<1>1. /\ flat \in Seq(S) /\ Len(flat) \in Nat /\ part \in Seq(S) /\ n \in Nat /\ m \in Nat
      /\ k + 1 \in 0..Len(parts) /\ Len(Joined(parts, k + 1)) = m + n
  BY JoinedLengths
<1>2. m + n <= Len(flat)
  <2>1. PICK t \in Seq(S) : flat = Joined(parts, k + 1) \o t
    BY <1>1, JoinedIsPrefix
  <2>2. Joined(parts, k + 1) \in Seq(S) /\ Len(t) \in Nat
    BY <1>1, JoinedProperties, LenProperties
  <2> HIDE DEF flat, m, n
  <2>3. Len(flat) = Len(Joined(parts, k + 1)) + Len(t)
    BY <2>1, <2>2, ConcatProperties
  <2> QED
    BY <1>1, <2>2, <2>3
<1>3. Piece(flat, m + 0, n) = Piece(part, 0, n)
  <2>1. 0 + n <= Len(parts[k + 1]) /\ n \in Nat /\ 0 \in Nat
    BY <1>1
  <2> HIDE DEF n
  <2> QED
    BY <2>1, PartAt
<1>4. Piece(part, 0, n) = part
  BY <1>1, WholePiece
<1> HIDE DEF flat, part, m, n
<1>5. \A p \in 1..n : Piece(flat, m, n)[p] = flat[m + p]
  BY <1>1, <1>2, PieceProperties
<1>6. m + 0 = m
  BY <1>1
<1>7. \A p \in 1..n : flat[m + p] = part[p]
  BY <1>3, <1>4, <1>5, <1>6
<1> QED
  BY <1>2, <1>7 DEF flat, part, m, n

(* A pair as Encode writes it.                                             *)
Written(key, value) == <<Slash>> \o key \o <<Slash>> \o value

\* Where its symbols are.
LEMMA PairShape ==
  ASSUME NEW key \in Seq(Text), NEW value \in Seq(Text)
  PROVE  LET s == Written(key, value)
         IN  /\ s \in Seq(Text) /\ Len(s) = PairLen(key, value)
             /\ s[1] = Slash /\ s[Len(key) + 2] = Slash
             /\ \A j \in 1..Len(key) : s[1 + j] = key[j]
             /\ \A j \in 1..Len(value) : s[Len(key) + 2 + j] = value[j]
<1> DEFINE a == <<Slash>>
           b == a \o key
           c == b \o a
           s == c \o value
<1>1. a \in Seq(Text) /\ Len(a) = 1 /\ a[1] = Slash
  <2>1. Slash \in Text
    BY DEF Text
  <2> QED
    BY <2>1
<1>2. Joinable(Text)
  BY Joining
<1>3. s = Written(key, value)
  BY DEF Written
<1> HIDE DEF a
<1>4. /\ b \in Seq(Text) /\ Len(b) = Len(a) + Len(key) /\ Len(key) \in Nat
      /\ \A i \in 1..Len(a) : b[i] = a[i]
      /\ \A i \in 1..Len(key) : b[Len(a) + i] = key[i]
  BY <1>1, <1>2, Zenon DEF Joinable
<1> HIDE DEF b
<1>5. /\ c \in Seq(Text) /\ Len(c) = Len(b) + Len(a)
      /\ \A i \in 1..Len(b) : c[i] = b[i]
      /\ \A i \in 1..Len(a) : c[Len(b) + i] = a[i]
  BY <1>1, <1>2, <1>4, Zenon DEF Joinable
<1> HIDE DEF c
<1>6. /\ s \in Seq(Text) /\ Len(s) = Len(c) + Len(value) /\ Len(value) \in Nat
      /\ \A i \in 1..Len(c) : s[i] = c[i]
      /\ \A i \in 1..Len(value) : s[Len(c) + i] = value[i]
  BY <1>2, <1>5, Zenon DEF Joinable
<1> HIDE DEF s
<1>7. Len(b) = Len(key) + 1 /\ Len(c) = Len(key) + 2 /\ Len(s) = PairLen(key, value)
  BY <1>1, <1>4, <1>5, <1>6 DEF PairLen
<1>8. s[1] = Slash
  <2>1. 1 \in 1..Len(a) /\ 1 \in 1..Len(b) /\ 1 \in 1..Len(c)
    BY <1>1, <1>4, <1>7
  <2> QED
    BY <1>1, <1>4, <1>5, <1>6, <2>1
<1>9. s[Len(key) + 2] = Slash
  <2>1. 1 \in 1..Len(a) /\ Len(b) + 1 \in 1..Len(c) /\ Len(b) + 1 = Len(key) + 2
    BY <1>1, <1>4, <1>7
  <2>2. c[Len(b) + 1] = Slash
    BY <1>1, <1>5, <2>1
  <2>3. s[Len(b) + 1] = c[Len(b) + 1]
    BY <1>6, <2>1
  <2> QED
    BY <2>1, <2>2, <2>3
<1>10. ASSUME NEW j \in 1..Len(key)
       PROVE  s[1 + j] = key[j]
  <2>1. 1 + j \in 1..Len(b) /\ 1 + j \in 1..Len(c) /\ Len(a) + j = 1 + j
    BY <1>1, <1>4, <1>7
  <2>2. b[1 + j] = key[j] /\ c[1 + j] = b[1 + j] /\ s[1 + j] = c[1 + j]
    BY <1>4, <1>5, <1>6, <2>1
  <2> QED
    BY <2>2
<1>11. \A j \in 1..Len(value) : s[Len(key) + 2 + j] = value[j]
  BY <1>6, <1>7
<1> QED
  BY <1>3, <1>6, <1>7, <1>8, <1>9, <1>10, <1>11

(* The pairs of a command as they are sent, and where each begins.         *)
Fields(command) == [i \in 1..Len(command) |-> Written(command[i][1], command[i][2])]
Mark(command, i) == Len(Joined(Fields(command), i))

\* A command is its pairs and the marker.
LEMMA FieldsProperties ==
  ASSUME NEW command \in Command
  PROVE  /\ Len(command) \in Nat /\ Len(command) >= 1
         /\ \A i \in 1..Len(command) :
              /\ command[i][1] \in Word /\ command[i][2] \in Word
              /\ command[i] = <<command[i][1], command[i][2]>>
              /\ Fields(command)[i] = Written(command[i][1], command[i][2])
         /\ Fields(command) \in Seq(Seq(Text)) /\ Len(Fields(command)) = Len(command)
         /\ Encode(command) = FlattenSeq(Fields(command)) \o Final
<1>1. command \in Seq(Word \X Word) /\ command # << >>
  BY DEF Command
<1>2. Len(command) \in Nat /\ Len(command) >= 1
  BY <1>1, EmptySeq
<1>3. ASSUME NEW i \in 1..Len(command)
      PROVE  /\ command[i][1] \in Word /\ command[i][2] \in Word
             /\ command[i] = <<command[i][1], command[i][2]>>
  <2>1. command[i] \in Word \X Word
    BY <1>1, ElementOfSeq
  <2> QED
    BY <2>1
<1>4. ASSUME NEW i \in 1..Len(command)
      PROVE  Fields(command)[i] = Written(command[i][1], command[i][2])
  BY DEF Fields
<1>5. Fields(command) \in Seq(Seq(Text)) /\ Len(Fields(command)) = Len(command)
  <2>1. \A i \in 1..Len(command) : Written(command[i][1], command[i][2]) \in Seq(Text)
    BY <1>3, WordProperties, PairShape
  <2> QED
    BY <1>2, <2>1 DEF Fields
<1>6. Encode(command) = FlattenSeq(Fields(command)) \o Final
  BY DEF Encode, Fields, Written
<1> QED
  BY <1>2, <1>3, <1>4, <1>5, <1>6

Key(command, i) == command[i + 1][1]
Value(command, i) == command[i + 1][2]
Size(command, i) == PairLen(Key(command, i), Value(command, i))

\* One field of a command.
LEMMA FieldAlone ==
  ASSUME NEW command \in Command, NEW i \in 0..(Len(command) - 1)
  PROVE  /\ Key(command, i) \in Word /\ Value(command, i) \in Word
         /\ Fields(command)[i + 1] = Written(Key(command, i), Value(command, i))
         /\ Len(Fields(command)[i + 1]) = Size(command, i)
         /\ Size(command, i) \in Nat /\ Size(command, i) >= 2
<1>1. i + 1 \in 1..Len(command)
  BY FieldsProperties
<1>2. /\ Key(command, i) \in Word /\ Value(command, i) \in Word
      /\ Fields(command)[i + 1] = Written(Key(command, i), Value(command, i))
  BY <1>1, FieldsProperties DEF Key, Value
<1> DEFINE key == Key(command, i)
           value == Value(command, i)
<1> HIDE DEF key, value
<1>3. key \in Word /\ value \in Word
  BY <1>2 DEF key, value
<1>4. key \in Seq(Text) /\ value \in Seq(Text) /\ Len(key) \in Nat /\ Len(value) \in Nat
  BY <1>3, WordProperties
<1>5. Len(Written(key, value)) = PairLen(key, value)
  BY <1>4, PairShape
<1>6. PairLen(key, value) \in Nat /\ PairLen(key, value) >= 2
  BY <1>4 DEF PairLen
<1> QED
  BY <1>2, <1>5, <1>6 DEF Size, key, value

\* The marks are in order.
LEMMA MarkProperties ==
  ASSUME NEW command \in Command
  PROVE  /\ Mark(command, 0) = 0
         /\ Mark(command, Len(command)) = Len(FlattenSeq(Fields(command)))
         /\ FlattenSeq(Fields(command)) \in Seq(Text)
         /\ \A i \in 0..Len(command) :
              Mark(command, i) \in Nat /\ Mark(command, i) + (Len(command) - i) <= Mark(command, Len(command))
         /\ \A i \in 0..(Len(command) - 1) : Mark(command, i + 1) = Mark(command, i) + Size(command, i)
<1> DEFINE parts == Fields(command)
           n == Len(command)
<1>1. n \in Nat /\ parts \in Seq(Seq(Text)) /\ Len(parts) = n
  BY FieldsProperties
<1>2. \A i \in 0..(n - 1) : Len(parts[i + 1]) = Size(command, i) /\ Size(command, i) >= 2
  BY FieldAlone
<1> HIDE DEF parts, n
<1>3. \A i \in 1..Len(parts) : Len(parts[i]) >= 1
  <2> SUFFICES ASSUME NEW i \in 1..n PROVE Len(parts[i]) >= 1
    BY <1>1
  <2>1. i - 1 \in 0..(n - 1) /\ (i - 1) + 1 = i
    BY <1>1
  <2>2. Len(parts[(i - 1) + 1]) = Size(command, i - 1) /\ Size(command, i - 1) >= 2
    BY <1>2, <2>1
  <2>3. Len(parts[i]) \in Nat
    BY <1>1, ElementOfSeq, LenProperties
  <2> QED
    BY <2>1, <2>2, <2>3
<1>4. /\ FlattenSeq(parts) \in Seq(Text)
      /\ Len(Joined(parts, 0)) = 0 /\ Len(Joined(parts, n)) = Len(FlattenSeq(parts))
      /\ \A i \in 0..n : Len(Joined(parts, i)) \in Nat
      /\ \A i \in 0..(n - 1) : Len(Joined(parts, i + 1)) = Len(Joined(parts, i)) + Len(parts[i + 1])
  BY <1>1, JoinedLengths
<1>5. ASSUME NEW i \in 0..n
      PROVE  Len(Joined(parts, n)) >= Len(Joined(parts, i)) + (n - i)
  <2>1. i \in 0..Len(parts) /\ n \in i..Len(parts)
    BY <1>1
  <2> QED
    BY <1>1, <1>3, <2>1, JoinedGrows
<1>6. \A i \in 0..n : Mark(command, i) = Len(Joined(parts, i))
  BY DEF Mark, parts
<1>7. 0 \in 0..n /\ n \in 0..n /\ \A i \in 0..(n - 1) : i \in 0..n /\ i + 1 \in 0..n
  BY <1>1
<1>8. ASSUME NEW i \in 0..n
      PROVE  Mark(command, i) \in Nat /\ Mark(command, i) + (n - i) <= Mark(command, n)
  BY <1>4, <1>5, <1>6, <1>7
<1>9. \A i \in 0..(n - 1) : Mark(command, i + 1) = Mark(command, i) + Size(command, i)
  BY <1>2, <1>4, <1>6, <1>7
<1>10. Mark(command, 0) = 0 /\ Mark(command, n) = Len(FlattenSeq(parts)) /\ FlattenSeq(parts) \in Seq(Text)
  BY <1>4, <1>6, <1>7
<1> QED
  BY <1>8, <1>9, <1>10 DEF parts, n

(* The pair, between its places behind the first m.                        *)
PairBehind(s, m, key, value) ==
  /\ s[m + 1] = Slash /\ s[m + (Len(key) + 2)] = Slash
  /\ \A j \in 1..Len(key) : s[m + (1 + j)] = key[j]
  /\ \A j \in 1..Len(value) : s[m + (Len(key) + 2 + j)] = value[j]

\* Whatever holds a written pair has the pair there.
LEMMA WrittenBehind ==
  ASSUME NEW key \in Word, NEW value \in Word, NEW s, NEW m \in Nat,
         \A p \in 1..PairLen(key, value) : s[m + p] = Written(key, value)[p]
  PROVE  PairBehind(s, m, key, value)
<1> DEFINE w == Written(key, value)
<1>1. key \in Seq(Text) /\ value \in Seq(Text) /\ Len(key) \in Nat /\ Len(value) \in Nat
  BY WordProperties
<1>2. /\ w[1] = Slash /\ w[Len(key) + 2] = Slash
      /\ \A j \in 1..Len(key) : w[1 + j] = key[j]
      /\ \A j \in 1..Len(value) : w[Len(key) + 2 + j] = value[j]
  BY <1>1, PairShape
<1> HIDE DEF w
<1>3. /\ 1 \in 1..PairLen(key, value) /\ Len(key) + 2 \in 1..PairLen(key, value)
      /\ \A j \in 1..Len(key) : 1 + j \in 1..PairLen(key, value)
      /\ \A j \in 1..Len(value) : Len(key) + 2 + j \in 1..PairLen(key, value)
  BY <1>1 DEF PairLen
<1>4. \A p \in 1..PairLen(key, value) : s[m + p] = w[p]
  BY DEF w
<1>5. s[m + 1] = Slash /\ s[m + (Len(key) + 2)] = Slash
  BY <1>2, <1>3, <1>4
<1>6. \A j \in 1..Len(key) : s[m + (1 + j)] = key[j]
  BY <1>2, <1>3, <1>4
<1>7. \A j \in 1..Len(value) : s[m + (Len(key) + 2 + j)] = value[j]
  BY <1>2, <1>3, <1>4
<1> QED
  BY <1>5, <1>6, <1>7 DEF PairBehind

\* The symbols of an encoded command.
LEMMA EncodeSymbols ==
  ASSUME NEW command \in Command
  PROVE  LET n == Len(command)
         IN  /\ Encode(command) \in Seq(Text) /\ Len(Encode(command)) = Mark(command, n) + 4
             /\ \A i \in 0..(n - 1) :
                  PairBehind(Encode(command), Mark(command, i), Key(command, i), Value(command, i))
             /\ \A j \in 1..4 : Encode(command)[Mark(command, n) + j] = Final[j]
<1> DEFINE n == Len(command)
           parts == Fields(command)
           flat == FlattenSeq(parts)
           e == Encode(command)
<1>1. /\ n \in Nat /\ parts \in Seq(Seq(Text)) /\ Len(parts) = n /\ e = flat \o Final
  BY FieldsProperties
<1>2. flat \in Seq(Text) /\ Mark(command, n) = Len(flat)
  BY MarkProperties
<1>3. ASSUME NEW i \in 0..(n - 1)
      PROVE  /\ Mark(command, i) + Size(command, i) <= Len(flat)
             /\ \A p \in 1..Size(command, i) :
                  flat[Mark(command, i) + p] = Written(Key(command, i), Value(command, i))[p]
  <2>1. i \in 0..(Len(parts) - 1)
    BY <1>1
  <2> HIDE DEF parts
  <2>2. /\ Len(Joined(parts, i)) + Len(parts[i + 1]) <= Len(FlattenSeq(parts))
        /\ \A p \in 1..Len(parts[i + 1]) :
             FlattenSeq(parts)[Len(Joined(parts, i)) + p] = parts[i + 1][p]
    BY <1>1, <2>1, PartElements
  <2>3. parts[i + 1] = Written(Key(command, i), Value(command, i)) /\ Len(parts[i + 1]) = Size(command, i)
    BY FieldAlone DEF parts
  <2>4. Mark(command, i) = Len(Joined(parts, i))
    BY DEF Mark, parts
  <2> QED
    BY <2>2, <2>3, <2>4
<1> HIDE DEF parts, n, flat, e
<1>4. Final \in Seq(Text) /\ Len(Final) = 4
  BY FinalProperties
<1>5. Joinable(Text)
  BY Joining
<1>6. /\ e \in Seq(Text) /\ Len(e) = Len(flat) + Len(Final) /\ Len(flat) \in Nat
      /\ \A i \in 1..Len(flat) : e[i] = flat[i]
      /\ \A i \in 1..Len(Final) : e[Len(flat) + i] = Final[i]
  BY <1>1, <1>2, <1>4, <1>5, Zenon DEF Joinable
<1>7. e \in Seq(Text) /\ Len(e) = Mark(command, n) + 4 /\ \A j \in 1..4 : e[Mark(command, n) + j] = Final[j]
  BY <1>2, <1>4, <1>6
<1>8. ASSUME NEW i \in 0..(n - 1)
      PROVE  PairBehind(e, Mark(command, i), Key(command, i), Value(command, i))
  <2> DEFINE m == Mark(command, i)
             k == Size(command, i)
  <2>1. m \in Nat /\ k \in Nat /\ Key(command, i) \in Word /\ Value(command, i) \in Word
    <3>1. i \in 0..n
      BY <1>1
    <3> QED
      BY <3>1, MarkProperties, FieldAlone DEF n
  <2>2. m + k <= Len(flat) /\ \A p \in 1..k : flat[m + p] = Written(Key(command, i), Value(command, i))[p]
    BY <1>3
  <2> HIDE DEF m, k
  <2>3. \A p \in 1..k : m + p \in 1..Len(flat)
    BY <1>6, <2>1, <2>2
  <2>4. \A p \in 1..k : e[m + p] = Written(Key(command, i), Value(command, i))[p]
    BY <1>6, <2>2, <2>3
  <2>5. k = PairLen(Key(command, i), Value(command, i))
    BY DEF k, Size
  <2>6. PairBehind(e, m, Key(command, i), Value(command, i))
    BY <2>1, <2>4, <2>5, WrittenBehind
  <2> QED
    BY <2>6 DEF m
<1> QED
  BY <1>7, <1>8 DEF n, e

(* s begins with e.                                                        *)
Begins(s, e) == Len(e) <= Len(s) /\ \A j \in 1..Len(e) : s[j] = e[j]

\* A text that begins with a command has its pairs at the marks.
LEMMA PairsInText ==
  ASSUME NEW command \in Command, NEW s \in Seq(Text), Begins(s, Encode(command)),
         NEW i \in 0..(Len(command) - 1)
  PROVE  /\ Mark(command, i) \in 0..Len(s)
         /\ PairBehind(s, Mark(command, i), Key(command, i), Value(command, i))
         /\ Mark(command, i) + Size(command, i) + 1 \in 1..(Len(Encode(command)) - 3)
         /\ s[Mark(command, i) + Size(command, i) + 1] = Slash
<1> DEFINE n == Len(command)
           e == Encode(command)
           m == Mark(command, i)
           k == Size(command, i)
           end == Mark(command, n)
<1>1. /\ n \in Nat /\ Len(s) \in Nat /\ i \in 0..n /\ i + 1 \in 0..n /\ i \in Nat /\ n \in 0..n
  BY FieldsProperties, LenProperties
<1>2. /\ m \in Nat /\ k \in Nat /\ Mark(command, i + 1) = m + k /\ k >= 2 /\ end \in Nat
      /\ m + k + (n - (i + 1)) <= end
  BY <1>1, MarkProperties, FieldAlone
<1>3. /\ Len(e) = end + 4
      /\ \A j \in 0..(n - 1) : PairBehind(e, Mark(command, j), Key(command, j), Value(command, j))
      /\ \A j \in 1..4 : e[end + j] = Final[j]
  BY EncodeSymbols
<1>4. Len(e) <= Len(s) /\ \A j \in 1..Len(e) : s[j] = e[j]
  BY DEF Begins
<1>5. k = Len(Key(command, i)) + 2 + Len(Value(command, i))
      /\ Len(Key(command, i)) \in Nat /\ Len(Value(command, i)) \in Nat
  BY FieldAlone, WordProperties DEF Size, PairLen
<1> HIDE DEF e, k, end
<1>6. m + k <= end
  <2> HIDE DEF n, m
  <2>1. n - (i + 1) \in Nat
    BY <1>1
  <2>2. m + k \in Nat /\ m + k + (n - (i + 1)) <= end /\ end \in Nat
    BY <1>2
  <2> QED
    BY <2>1, <2>2
<1>7. \A p \in 1..k : m + p \in 1..Len(e)
  <2> DEFINE l == Len(e)
  <2>1. m \in Nat /\ k \in Nat /\ end \in Nat
    BY <1>2
  <2>2. l = end + 4
    BY <1>3
  <2> HIDE DEF m, l
  <2>3. \A p \in 1..k : m + p \in 1..l
    BY <1>6, <2>1, <2>2
  <2> QED
    BY <2>3 DEF l
<1>8. PairBehind(s, m, Key(command, i), Value(command, i))
  <2> DEFINE key == Key(command, i)
             value == Value(command, i)
  <2>1. PairBehind(e, m, key, value)
    BY <1>3
  <2> HIDE DEF key, value, m
  <2>2. k = Len(key) + 2 + Len(value) /\ Len(key) \in Nat /\ Len(value) \in Nat
    BY <1>5 DEF key, value
  <2>3. /\ 1 \in 1..k /\ Len(key) + 2 \in 1..k
        /\ \A j \in 1..Len(key) : 1 + j \in 1..k
        /\ \A j \in 1..Len(value) : Len(key) + 2 + j \in 1..k
    BY <2>2
  <2>4. \A p \in 1..k : s[m + p] = e[m + p]
    BY <1>4, <1>7
  <2>5. s[m + 1] = Slash /\ s[m + (Len(key) + 2)] = Slash
    BY <2>1, <2>3, <2>4 DEF PairBehind
  <2>6. /\ \A j \in 1..Len(key) : s[m + (1 + j)] = key[j]
        /\ \A j \in 1..Len(value) : s[m + (Len(key) + 2 + j)] = value[j]
    BY <2>1, <2>3, <2>4 DEF PairBehind
  <2>7. PairBehind(s, m, key, value)
    BY <2>5, <2>6 DEF PairBehind
  <2> QED
    BY <2>7 DEF key, value, m
<1>9. m + k + 1 \in 1..(Len(e) - 3) /\ m + k + 1 \in 1..Len(e)
  BY <1>2, <1>3, <1>6
<1>10. e[m + k + 1] = Slash
  <2>1. CASE i + 1 = n
    <3>1. m + k = end
      BY <1>2, <2>1 DEF end
    <3>2. Final[1] = Slash /\ 1 \in 1..4
      BY FinalProperties
    <3> QED
      BY <1>3, <3>1, <3>2
  <2>2. CASE i + 1 # n
    <3>1. i + 1 \in 0..(n - 1)
      BY <1>1, <2>2
    <3>2. e[Mark(command, i + 1) + 1] = Slash
      BY <1>3, <3>1 DEF PairBehind
    <3> QED
      BY <1>2, <3>2
  <2> QED
    BY <2>1, <2>2
<1>11. m \in 0..Len(s)
  BY <1>1, <1>2, <1>3, <1>4, <1>6
<1> QED
  BY <1>4, <1>8, <1>9, <1>10, <1>11 DEF e, k

\* What NextPair sees from a mark on.
LEMMA PairsFromMark ==
  ASSUME NEW command \in Command, NEW s \in Seq(Text), Begins(s, Encode(command)),
         NEW i \in 0..(Len(command) - 1)
  PROVE  /\ Rest(s, Mark(command, i)) \in Seq(Text)
         /\ PairAt(Rest(s, Mark(command, i)), Key(command, i), Value(command, i))
         /\ Rest(Rest(s, Mark(command, i)), Size(command, i)) = Rest(s, Mark(command, i + 1))
<1> DEFINE m == Mark(command, i)
           k == Size(command, i)
           r == Rest(s, m)
           key == Key(command, i)
           value == Value(command, i)
<1>1. /\ m \in 0..Len(s) /\ PairBehind(s, m, key, value)
      /\ m + k + 1 \in 1..(Len(Encode(command)) - 3) /\ s[m + k + 1] = Slash
  BY PairsInText
<1>2. /\ Len(s) \in Nat /\ m \in Nat /\ k \in Nat /\ Mark(command, i + 1) = m + k
      /\ key \in Word /\ value \in Word
  BY <1>1, LenProperties, MarkProperties, FieldAlone
<1>3. Len(Encode(command)) <= Len(s) /\ Len(Encode(command)) \in Nat
  BY EncodeSymbols, LenProperties DEF Begins
<1> HIDE DEF m, k, key, value
<1>4. k = Len(key) + 2 + Len(value) /\ Len(key) \in Nat /\ Len(value) \in Nat
      /\ k = PairLen(key, value)
  BY <1>2, WordProperties DEF Size, PairLen, k, key, value
<1>5. k + 1 \in 1..(Len(s) - m) /\ k \in 0..(Len(s) - m)
  BY <1>1, <1>2, <1>3
<1>6. /\ r \in Seq(Text) /\ Len(r) = Len(s) - m
      /\ \A j \in 1..(Len(s) - m) : r[j] = s[m + j]
  BY <1>1, RestProperties
<1>7. Rest(r, k) = Rest(s, m + k)
  BY <1>1, <1>5, RestOfRest
<1> HIDE DEF r
<1>8. \A j \in 1..(k + 1) : r[j] = s[m + j]
  BY <1>2, <1>5, <1>6
<1>9. PairAt(r, key, value)
  <2>1. /\ 1 \in 1..(k + 1) /\ Len(key) + 2 \in 1..(k + 1) /\ k + 1 \in 1..(k + 1)
        /\ \A j \in 1..Len(key) : 1 + j \in 1..(k + 1)
        /\ \A j \in 1..Len(value) : Len(key) + 2 + j \in 1..(k + 1)
    BY <1>4
  <2>2. r[1] = Slash /\ r[Len(key) + 2] = Slash
    BY <1>1, <1>8, <2>1 DEF PairBehind
  <2>3. \A j \in 1..Len(key) : r[1 + j] = key[j]
    BY <1>1, <1>8, <2>1 DEF PairBehind
  <2>4. \A j \in 1..Len(value) : r[Len(key) + 2 + j] = value[j]
    BY <1>1, <1>8, <2>1 DEF PairBehind
  <2>5. r[k + 1] = Slash
    <3>1. m + (k + 1) = m + k + 1
      BY <1>2
    <3> QED
      BY <1>1, <1>8, <2>1, <3>1
  <2>6. Len(key) + 2 <= Len(r) /\ k < Len(r)
    BY <1>2, <1>4, <1>5, <1>6
  <2>7. KeyAt(r, key)
    BY <2>2, <2>3, <2>6 DEF KeyAt
  <2> QED
    BY <1>4, <2>4, <2>5, <2>6, <2>7 DEF PairAt
<1> QED
  BY <1>2, <1>6, <1>7, <1>9 DEF m, k, r, key, value

\* What NextPair sees from the last mark on.
LEMMA FinalFromMark ==
  ASSUME NEW command \in Command, NEW t \in Seq(Text)
  PROVE  LET s == Encode(command) \o t
             m == Mark(command, Len(command))
         IN  /\ s \in Seq(Text) /\ Len(s) = m + 4 + Len(t) /\ Begins(s, Encode(command))
             /\ m + 4 \in 0..Len(s) /\ m \in 0..Len(s)
             /\ Rest(s, m) \in Seq(Text) /\ KeyAt(Rest(s, m), FinalWord)
             /\ Rest(Rest(s, m), 4) = t
             /\ \A j \in 1..4 : s[m + j] = Final[j]
<1> DEFINE e == Encode(command)
           s == e \o t
           m == Mark(command, Len(command))
           r == Rest(s, m)
<1>1. e \in Seq(Text) /\ Len(e) = m + 4 /\ \A j \in 1..4 : e[m + j] = Final[j]
  BY EncodeSymbols
<1>2. m \in Nat
  BY FieldsProperties, MarkProperties
<1> HIDE DEF e, m
<1>3. Joinable(Text)
  BY Joining
<1>4. /\ s \in Seq(Text) /\ Len(s) = Len(e) + Len(t) /\ Len(t) \in Nat
      /\ \A i \in 1..Len(e) : s[i] = e[i]
      /\ \A i \in 1..Len(t) : s[Len(e) + i] = t[i]
  BY <1>1, <1>3, Zenon DEF Joinable
<1> HIDE DEF s
<1>5. /\ Len(s) = m + 4 + Len(t) /\ m + 4 \in 0..Len(s) /\ m \in 0..Len(s) /\ Len(s) \in Nat
      /\ 4 \in 0..(Len(s) - m) /\ Len(s) - (m + 4) = Len(t)
  BY <1>1, <1>2, <1>4
<1>6. Begins(s, e)
  BY <1>1, <1>2, <1>4 DEF Begins
<1>7. \A j \in 1..4 : s[m + j] = Final[j]
  <2>1. \A j \in 1..4 : m + j \in 1..Len(e)
    BY <1>1, <1>2
  <2> QED
    BY <1>1, <1>4, <2>1
<1>8. r \in Seq(Text) /\ Len(r) = Len(s) - m /\ \A j \in 1..(Len(s) - m) : r[j] = s[m + j]
  BY <1>4, <1>5, RestProperties
<1>9. Rest(r, 4) = Rest(s, m + 4)
  BY <1>4, <1>5, RestOfRest
<1> HIDE DEF r
<1>10. KeyAt(r, FinalWord)
  <2>1. \A j \in 1..4 : j \in 1..(Len(s) - m)
    BY <1>2, <1>5
  <2>2. \A j \in 1..4 : r[j] = Final[j]
    BY <1>7, <1>8, <2>1
  <2>3. r[1] = Slash /\ r[2] = FinalWord[1] /\ r[3] = FinalWord[2] /\ r[4] = Slash
    BY <2>2, FinalProperties
  <2>4. Len(FinalWord) = 2
    BY FinalProperties
  <2>5. 4 <= Len(r)
    BY <1>2, <1>5, <1>8
  <2>6. \A j \in 1..2 : r[1 + j] = FinalWord[j]
    BY <2>3
  <2> QED
    BY <2>3, <2>4, <2>5, <2>6 DEF KeyAt
<1>11. Rest(s, m + 4) = t
  <2> DEFINE u == Rest(s, m + 4)
  <2>1. /\ u \in Seq(Text) /\ Len(u) = Len(s) - (m + 4)
        /\ \A j \in 1..(Len(s) - (m + 4)) : u[j] = s[(m + 4) + j]
    BY <1>4, <1>5, RestProperties
  <2> HIDE DEF u
  <2>2. Len(u) = Len(t) /\ \A j \in 1..Len(u) : u[j] = t[j]
    BY <1>1, <1>4, <1>5, <2>1
  <2>3. u = t
    BY <2>1, <2>2, SeqEqual
  <2> QED
    BY <2>3 DEF u
<1> QED
  BY <1>4, <1>5, <1>6, <1>7, <1>8, <1>9, <1>10, <1>11 DEF e, s, m, r

(* f goes the way of g for m of its n turns, and is idle from then on.     *)
Follows(f, g, m, n) ==
  /\ f[0] = g[0]
  /\ \A i \in 0..(n - 1) : i < m /\ f[i] = g[i] => f[i + 1] = g[i + 1]
  /\ \A i \in 0..(n - 1) : i >= m /\ f[i] = g[m] => f[i + 1] = g[m]

\* Then it ends where that way does.
LEMMA TurnsReach ==
  ASSUME NEW n \in Nat, NEW m \in 0..n, NEW f, NEW g, Follows(f, g, m, n)
  PROVE  f[n] = g[m]
<1>0. /\ f[0] = g[0]
      /\ \A i \in 0..(n - 1) : i < m /\ f[i] = g[i] => f[i + 1] = g[i + 1]
      /\ \A i \in 0..(n - 1) : i >= m /\ f[i] = g[m] => f[i + 1] = g[m]
  BY DEF Follows
<1> DEFINE P == {i \in 0..n : f[i] = IF i < m THEN g[i] ELSE g[m]}
<1>1. 0 \in P
  <2>1. CASE m = 0
    BY <1>0, <2>1
  <2>2. CASE m # 0
    <3>1. 0 < m /\ 0 \in 0..n
      BY <2>2
    <3> QED
      BY <1>0, <3>1
  <2> QED
    BY <2>1, <2>2
<1>2. ASSUME NEW i \in 0..(n - 1), i \in P
      PROVE  i + 1 \in P
  <2>1. i + 1 \in 0..n /\ f[i] = IF i < m THEN g[i] ELSE g[m]
    BY <1>2
  <2>2. CASE i < m
    <3>1. f[i + 1] = g[i + 1]
      BY <1>0, <2>1, <2>2
    <3>2. CASE i + 1 < m
      BY <2>1, <3>1, <3>2
    <3>3. CASE ~(i + 1 < m)
      <4>1. i + 1 = m
        BY <2>2, <3>3
      <4> QED
        BY <2>1, <3>1, <3>3, <4>1
    <3> QED
      BY <3>2, <3>3
  <2>3. CASE ~(i < m)
    <3>1. i >= m /\ ~(i + 1 < m)
      BY <2>3
    <3>2. f[i + 1] = g[m]
      BY <1>0, <2>1, <2>3, <3>1
    <3> QED
      BY <2>1, <3>1, <3>2
  <2> QED
    BY <2>2, <2>3
<1>3. n \in P
  <2> HIDE DEF P
  <2> QED
    BY <1>1, <1>2, BoundedInduction
<1> QED
  BY <1>3

(* What is known of pieces, as facts about all sequences.                  *)
Piecewise(S) ==
  \A s \in Seq(S) : \A i, n \in Nat :
    i + n <= Len(s) =>
      /\ Piece(s, i, n) \in Seq(S) /\ Len(Piece(s, i, n)) = n
      /\ n = 0 => Piece(s, i, n) = << >>
Adjoining(S) ==
  \A s \in Seq(S) : \A i, n, m \in Nat :
    i + n + m <= Len(s) => Piece(s, i, n) \o Piece(s, i + n, m) = Piece(s, i, n + m)

\* Both hold for every set.
LEMMA Cutting ==
  ASSUME NEW S
  PROVE  Piecewise(S) /\ Adjoining(S)
<1>1. Piecewise(S)
  BY PieceProperties DEF Piecewise
<1>2. Adjoining(S)
  BY PiecesJoin DEF Adjoining
<1> QED
  BY <1>1, <1>2

\* A piece grows by the next element.
LEMMA OneMorePiece ==
  ASSUME NEW S, NEW s \in Seq(S), NEW i \in Nat, NEW n \in Nat, i + n + 1 <= Len(s)
  PROVE  Append(Piece(s, i, n), s[i + n + 1]) = Piece(s, i, n + 1)
<1>1. /\ Len(s) \in Nat /\ i + n \in Nat /\ (i + n) + 1 <= Len(s) /\ i + n <= Len(s)
      /\ (i + n) + 1 \in 1..Len(s) /\ (i + n) + 1 = i + n + 1
  BY LenProperties
<1>2. s[(i + n) + 1] \in S
  BY <1>1, ElementOfSeq
<1>3. Piece(s, i, n) \in Seq(S)
  BY <1>1, PieceProperties
<1>4. Append(Piece(s, i, n), s[(i + n) + 1]) = Piece(s, i, n) \o <<s[(i + n) + 1]>>
  BY <1>2, <1>3, AppendIsConcat
<1>5. Piece(s, i + n, 1) = <<s[(i + n) + 1]>>
  BY <1>1, OnePiece
<1>6. Piece(s, i, n) \o Piece(s, i + n, 1) = Piece(s, i, n + 1)
  <2> DEFINE one == 1
  <2>1. one \in Nat /\ i + n + one <= Len(s)
    OBVIOUS
  <2> HIDE DEF one
  <2>2. Adjoining(S)
    BY Cutting
  <2>3. Piece(s, i, n) \o Piece(s, i + n, one) = Piece(s, i, n + one)
    BY <2>1, <2>2, Zenon DEF Adjoining
  <2> QED
    BY <2>3 DEF one
<1> QED
  BY <1>1, <1>4, <1>5, <1>6

\* The inner loop reads a whole command, and stops behind its marker.
LEMMA CommandRead ==
  ASSUME NEW command \in Command, NEW t \in Seq(Text)
  PROVE  Pairs(Encode(command) \o t) = Found(command, t, TRUE)
<1> DEFINE n == Len(command)
           s == Encode(command) \o t
           g == [i \in 0..(n + 1) |->
                  IF i <= n THEN Found(Piece(command, 0, i), Rest(s, Mark(command, i)), FALSE)
                  ELSE Found(command, t, TRUE)]
<1>1. n \in Nat /\ n >= 1 /\ command \in Seq(Word \X Word)
  BY FieldsProperties DEF Command
<1>2. /\ s \in Seq(Text) /\ Len(s) = Mark(command, n) + 4 + Len(t) /\ Begins(s, Encode(command))
      /\ Rest(s, Mark(command, n)) \in Seq(Text) /\ KeyAt(Rest(s, Mark(command, n)), FinalWord)
      /\ Rest(Rest(s, Mark(command, n)), 4) = t
  BY FinalFromMark
<1>3. Mark(command, 0) = 0 /\ Mark(command, n) \in Nat /\ n <= Mark(command, n)
  <2>1. 0 \in 0..n /\ n \in 0..n
    BY <1>1
  <2>2. Mark(command, 0) + (n - 0) <= Mark(command, n) /\ Mark(command, n) \in Nat /\ Mark(command, 0) = 0
    BY <2>1, MarkProperties
  <2> QED
    BY <1>1, <2>2
<1>4. Len(s) \in Nat /\ Len(t) \in Nat /\ n + 1 \in 0..Len(s)
  BY <1>1, <1>2, <1>3, LenProperties
<1> HIDE DEF s, n, g
<1>5. PICK f : PairRun(f, s)
  BY <1>4, PairTurns
<1>7. /\ f[0] = [pairs |-> << >>, rest |-> s, final |-> FALSE]
      /\ \A i \in 0..(Len(s) - 1) : f[i + 1] = NextPair(f[i])
      /\ Pairs(s) = f[Len(s)]
  BY <1>5 DEF PairRun
<1> USE DEF g
<1>6. f[0] = g[0]
  <2>1. 0 \in 0..(n + 1) /\ 0 <= n
    BY <1>1
  <2>2. Piece(command, 0, 0) = << >>
    BY <1>1, PieceProperties
  <2>3. Rest(s, 0) = s
    <3>1. Len(s) - 0 = Len(s)
      BY <1>4
    <3> QED
      BY <1>2, <3>1, WholePiece DEF Rest
  <2>4. g[0] = Found(Piece(command, 0, 0), Rest(s, Mark(command, 0)), FALSE)
    BY <2>1
  <2> QED
    BY <1>3, <1>7, <2>2, <2>3, <2>4 DEF Found
<1>8. ASSUME NEW i \in 0..(Len(s) - 1), i < n + 1, f[i] = g[i]
      PROVE  f[i + 1] = g[i + 1]
  <2>1. i \in 0..(n + 1) /\ i <= n /\ i + 1 \in 0..(n + 1) /\ i \in Nat
    BY <1>1, <1>8
  <2>2. f[i] = Found(Piece(command, 0, i), Rest(s, Mark(command, i)), FALSE)
    BY <1>8, <2>1
  <2>3. CASE i = n
    <3>1. Piece(command, 0, n) = command
      BY <1>1, WholePiece DEF n
    <3>2. NextPair(Found(command, Rest(s, Mark(command, n)), FALSE)) = Found(command, t, TRUE)
      BY <1>2, FinalRead
    <3>3. f[i] = Found(command, Rest(s, Mark(command, n)), FALSE)
      BY <2>2, <2>3, <3>1
    <3>4. g[i + 1] = Found(command, t, TRUE)
      <4>1. ~(i + 1 <= n)
        BY <1>1, <2>3
      <4> QED
        BY <2>1, <4>1
    <3> HIDE DEF g
    <3> QED
      BY <1>7, <3>2, <3>3, <3>4
  <2>4. CASE i # n
    <3>1. i \in 0..(n - 1) /\ i + 1 <= n
      BY <1>1, <2>1, <2>4
    <3> DEFINE r == Rest(s, Mark(command, i))
               key == Key(command, i)
               value == Value(command, i)
    <3>2. r \in Seq(Text) /\ PairAt(r, key, value) /\ Rest(r, Size(command, i)) = Rest(s, Mark(command, i + 1))
      BY <1>2, <3>1, PairsFromMark DEF n
    <3>3. key \in Word /\ value \in Word /\ Size(command, i) = PairLen(key, value)
      BY <3>1, FieldAlone DEF n, Size
    <3>4. <<key, value>> = command[i + 1]
      <4>1. i + 1 \in 1..n
        BY <1>1, <3>1
      <4> QED
        BY <4>1, FieldsProperties DEF n, Key, Value
    <3> HIDE DEF r, key, value
    <3>5. NextPair(Found(Piece(command, 0, i), r, FALSE))
            = Found(Append(Piece(command, 0, i), <<key, value>>), Rest(r, PairLen(key, value)), FALSE)
      BY <3>2, <3>3, PairRead
    <3>6. Append(Piece(command, 0, i), command[i + 1]) = Piece(command, 0, i + 1)
      <4>1. 0 + i + 1 = i + 1 /\ 0 + i + 1 <= Len(command)
        BY <1>1, <2>1, <3>1 DEF n
      <4>2. Append(Piece(command, 0, i), command[0 + i + 1]) = Piece(command, 0, i + 1)
        BY <1>1, <2>1, <4>1, OneMorePiece
      <4> QED
        BY <4>1, <4>2
    <3>7. NextPair(f[i]) = Found(Piece(command, 0, i + 1), Rest(s, Mark(command, i + 1)), FALSE)
      BY <2>2, <3>2, <3>3, <3>4, <3>5, <3>6 DEF r
    <3>8. g[i + 1] = Found(Piece(command, 0, i + 1), Rest(s, Mark(command, i + 1)), FALSE)
      BY <2>1, <3>1
    <3> QED
      BY <1>7, <3>7, <3>8
  <2> QED
    BY <2>3, <2>4
<1>9. ASSUME NEW i \in 0..(Len(s) - 1), i >= n + 1, f[i] = g[n + 1]
      PROVE  f[i + 1] = g[n + 1]
  <2>1. g[n + 1] = Found(command, t, TRUE)
    <3>1. n + 1 \in 0..(n + 1) /\ ~(n + 1 <= n)
      BY <1>1
    <3> QED
      BY <3>1
  <2>2. NextPair(Found(command, t, TRUE)) = Found(command, t, TRUE)
    BY DEF NextPair, Found
  <2> HIDE DEF g
  <2> QED
    BY <1>7, <1>9, <2>1, <2>2
<1>10. f[Len(s)] = g[n + 1]
  <2> HIDE DEF g
  <2> DEFINE l == Len(s)
             m == n + 1
  <2>1. l \in Nat /\ m \in 0..l
    BY <1>4
  <2>2. \A i \in 0..(l - 1) : i < m /\ f[i] = g[i] => f[i + 1] = g[i + 1]
    BY <1>8
  <2>3. \A i \in 0..(l - 1) : i >= m /\ f[i] = g[m] => f[i + 1] = g[m]
    BY <1>9
  <2> HIDE DEF l, m
  <2>4. f[l] = g[m]
    <3>1. Follows(f, g, m, l)
      BY <1>6, <2>2, <2>3 DEF Follows
    <3> QED
      BY <2>1, <3>1, TurnsReach
  <2> QED
    BY <2>4 DEF l, m
<1>11. g[n + 1] = Found(command, t, TRUE)
  <2>1. n + 1 \in 0..(n + 1) /\ ~(n + 1 <= n)
    BY <1>1
  <2> QED
    BY <2>1
<1> HIDE DEF g
<1>12. Pairs(s) = Found(command, t, TRUE)
  BY <1>7, <1>10, <1>11
<1> QED
  BY <1>12 DEF s

-----------------------------------------------------------------------------
(* Where the marker is *)

FinalBehind(s, m) == \A j \in 1..4 : s[m + j] = Final[j]

\* What the marker behind m says of the symbols.
LEMMA FinalIs ==
  ASSUME NEW s, NEW m
  PROVE  FinalBehind(s, m) <=> /\ s[m + 1] = Slash /\ s[m + 2] = FinalWord[1]
                               /\ s[m + 3] = FinalWord[2] /\ s[m + 4] = Slash
<1>1. Final[1] = Slash /\ Final[2] = FinalWord[1] /\ Final[3] = FinalWord[2] /\ Final[4] = Slash
  BY FinalProperties
<1>2. FinalBehind(s, m) <=> \A j \in {1, 2, 3, 4} : s[m + j] = Final[j]
  <2>1. 1..4 = {1, 2, 3, 4}
    OBVIOUS
  <2> QED
    BY <2>1 DEF FinalBehind
<1> QED
  BY <1>1, <1>2

\* Find finds the marker where it is.
LEMMA FindFinal ==
  ASSUME NEW s \in Seq(Text)
  PROVE  Find(s, Final) # 0 <=> \E m \in 0..(Len(s) - 4) : FinalBehind(s, m)
<1> DEFINE places == {i \in 1..(Len(s) - Len(Final) + 1) : SubSeq(s, i, i + Len(Final) - 1) = Final}
<1>1. Len(s) \in Nat /\ Len(Final) = 4 /\ Final \in Seq(Text)
  BY LenProperties, FinalProperties
<1>2. ASSUME NEW m \in 0..(Len(s) - 4)
      PROVE  m + 1 \in places <=> FinalBehind(s, m)
  <2>1. m \in Nat /\ m + 4 <= Len(s) /\ m + 1 \in 1..(Len(s) - 4 + 1) /\ (m + 1) + 4 - 1 = m + 4
    BY <1>1
  <2> DEFINE p == Piece(s, m, 4)
  <2>2. p \in Seq(Text) /\ Len(p) = 4 /\ \A j \in 1..4 : p[j] = s[m + j]
    <3> DEFINE n == 4
    <3>1. n \in Nat /\ m + n <= Len(s)
      BY <2>1
    <3> HIDE DEF n, places
    <3>2. Piece(s, m, n) \in Seq(Text) /\ Len(Piece(s, m, n)) = n
          /\ \A j \in 1..n : Piece(s, m, n)[j] = s[m + j]
      BY <2>1, <3>1, PieceProperties
    <3> QED
      BY <3>2 DEF n
  <2>3. m + 1 \in places <=> p = Final
    BY <1>1, <2>1 DEF Piece
  <2> HIDE DEF p, places
  <2>4. (\A j \in 1..4 : p[j] = Final[j]) => p = Final
    <3> SUFFICES ASSUME \A j \in 1..4 : p[j] = Final[j] PROVE p = Final
      OBVIOUS
    <3>1. Len(p) = Len(Final) /\ \A j \in 1..Len(p) : p[j] = Final[j]
      BY <1>1, <2>2
    <3> QED
      BY <1>1, <2>2, <3>1, SeqEqual
  <2> QED
    BY <2>2, <2>3, <2>4 DEF FinalBehind
<1>3. Find(s, Final) # 0 <=> places # {}
  <2>1. CASE places = {}
    BY <2>1 DEF Find
  <2>2. CASE places # {}
    <3>1. Find(s, Final) = Min(places)
      BY <2>2 DEF Find
    <3>2. places \in SUBSET Nat /\ \A x \in places : x # 0
      BY <1>1
    <3> HIDE DEF places
    <3>3. Min(places) \in places
      BY <2>2, <3>2, MinProperties
    <3> QED
      BY <2>2, <3>1, <3>2, <3>3
  <2> QED
    BY <2>1, <2>2
<1>4. ASSUME NEW i \in places
      PROVE  i - 1 \in 0..(Len(s) - 4) /\ (i - 1) + 1 = i
  BY <1>1
<1>5. \A m \in 0..(Len(s) - 4) : FinalBehind(s, m) => m + 1 \in places
  BY <1>2
<1> HIDE DEF places
<1>6. ASSUME places # {}
      PROVE  \E m \in 0..(Len(s) - 4) : FinalBehind(s, m)
  <2>1. PICK i \in places : TRUE
    BY <1>6
  <2>2. i - 1 \in 0..(Len(s) - 4) /\ (i - 1) + 1 \in places
    BY <1>4, <2>1
  <2>3. FinalBehind(s, i - 1)
    BY <1>2, <2>2
  <2> QED
    BY <2>2, <2>3
<1> QED
  BY <1>3, <1>5, <1>6

\* A marker does not begin in a word between two backslashes, or at the first.
LEMMA NotInWord ==
  ASSUME NEW w \in Word, NEW s, NEW a \in Nat, s[a + 1] = Slash, s[a + (Len(w) + 2)] = Slash,
         \A j \in 1..Len(w) : s[a + (1 + j)] = w[j],
         NEW d \in 0..Len(w), FinalBehind(s, a + d)
  PROVE  FALSE
<1>1. w \in Seq(Text) /\ Len(w) \in Nat /\ NoSlash(w) /\ w # FinalWord
  BY WordProperties
<1>2. /\ FinalWord \in Seq(Text) /\ Len(FinalWord) = 2
      /\ FinalWord[1] # Slash /\ FinalWord[2] # Slash
  <2>1. Len(FinalWord) = 2 /\ FinalWord \in Seq(Text) /\ NoSlash(FinalWord)
    BY FinalProperties
  <2>2. 1 \in 1..2 /\ 2 \in 1..2
    OBVIOUS
  <2> QED
    BY <2>1, <2>2 DEF NoSlash
<1>3. /\ s[(a + d) + 1] = Slash /\ s[(a + d) + 2] = FinalWord[1]
      /\ s[(a + d) + 3] = FinalWord[2] /\ s[(a + d) + 4] = Slash
  BY FinalIs
<1>4. d = 0
  <2> SUFFICES ASSUME d # 0 PROVE FALSE
    OBVIOUS
  <2>1. d \in 1..Len(w) /\ a + (1 + d) = (a + d) + 1
    BY <1>1
  <2>2. s[a + (1 + d)] = w[d] /\ w[d] # Slash
    BY <1>1, <2>1 DEF NoSlash
  <2> QED
    BY <1>3, <2>1, <2>2
<1>5. /\ s[a + 2] = FinalWord[1] /\ s[a + 3] = FinalWord[2] /\ s[a + 4] = Slash
  BY <1>3, <1>4
<1>6. Len(w) # 0 /\ Len(w) # 1
  BY <1>2, <1>5
<1>7. ~(Len(w) >= 3)
  <2> SUFFICES ASSUME Len(w) >= 3 PROVE FALSE
    OBVIOUS
  <2>1. 3 \in 1..Len(w) /\ a + (1 + 3) = a + 4
    BY <1>1
  <2>2. s[a + (1 + 3)] = w[3] /\ w[3] # Slash
    BY <1>1, <2>1 DEF NoSlash
  <2> QED
    BY <1>5, <2>1, <2>2
<1>8. Len(w) = 2
  <2> DEFINE n == Len(w)
  <2>1. n \in Nat /\ n # 0 /\ n # 1 /\ ~(n >= 3)
    BY <1>1, <1>6, <1>7
  <2> HIDE DEF n
  <2>2. n = 2
    BY <2>1
  <2> QED
    BY <2>2 DEF n
<1>9. w[1] = FinalWord[1] /\ w[2] = FinalWord[2]
  <2>1. 1 \in 1..Len(w) /\ 2 \in 1..Len(w) /\ a + (1 + 1) = a + 2 /\ a + (1 + 2) = a + 3
    BY <1>8
  <2> QED
    BY <1>5, <2>1
<1>10. w = FinalWord
  <2>1. \A j \in 1..2 : w[j] = FinalWord[j]
    BY <1>9
  <2>2. Len(w) = Len(FinalWord) /\ \A j \in 1..Len(w) : w[j] = FinalWord[j]
    BY <1>2, <1>8, <2>1
  <2> QED
    BY <1>1, <1>2, <2>2, SeqEqual
<1> QED
  BY <1>1, <1>10

\* In a text that begins with a command, no marker begins before the last mark.
LEMMA NotBeforeEnd ==
  ASSUME NEW command \in Command, NEW s \in Seq(Text), Begins(s, Encode(command))
  PROVE  \A m \in 0..(Mark(command, Len(command)) - 1) : ~FinalBehind(s, m)
<1> DEFINE n == Len(command)
           Free(i) == \A m \in 0..(Mark(command, i) - 1) : ~FinalBehind(s, m)
           P == {i \in 0..n : Free(i)}
<1>1. n \in Nat /\ \A i \in 0..n : Mark(command, i) \in Nat
  BY FieldsProperties, MarkProperties
<1>2. 0 \in P
  <2>1. Mark(command, 0) = 0 /\ 0 \in 0..n
    BY <1>1, MarkProperties
  <2> QED
    BY <2>1
<1>3. ASSUME NEW i \in 0..(n - 1), i \in P
      PROVE  i + 1 \in P
  <2> DEFINE key == Key(command, i)
             value == Value(command, i)
             a == Mark(command, i)
             b == a + (Len(key) + 1)
  <2>1. /\ PairBehind(s, a, key, value) /\ s[a + Size(command, i) + 1] = Slash
        /\ key \in Word /\ value \in Word
        /\ Mark(command, i + 1) = a + Size(command, i)
    BY PairsInText, FieldAlone, MarkProperties
  <2>2. i \in 0..n /\ i + 1 \in 0..n /\ a \in Nat
    BY <1>1
  <2>3. Free(i)
    BY <1>3
  <2> HIDE DEF key, value, a
  <2>4. Size(command, i) = Len(key) + 2 + Len(value) /\ Len(key) \in Nat /\ Len(value) \in Nat
    BY <2>1, WordProperties DEF Size, PairLen, key, value
  <2>5. ASSUME NEW m \in 0..(a - 1)
        PROVE  ~FinalBehind(s, m)
    BY <2>3 DEF a
  <2>6. ASSUME NEW d \in 0..Len(key)
        PROVE  ~FinalBehind(s, a + d)
    <3>1. s[a + 1] = Slash /\ s[a + (Len(key) + 2)] = Slash /\ \A j \in 1..Len(key) : s[a + (1 + j)] = key[j]
      BY <2>1 DEF PairBehind
    <3> QED
      BY <2>1, <2>2, <3>1, NotInWord
  <2>7. ASSUME NEW d \in 0..Len(value)
        PROVE  ~FinalBehind(s, b + d)
    <3>1. b \in Nat /\ b + 1 = a + (Len(key) + 2) /\ b + (Len(value) + 2) = a + Size(command, i) + 1
      BY <2>2, <2>4
    <3>2. \A j \in 1..Len(value) : b + (1 + j) = a + (Len(key) + 2 + j)
      BY <2>2, <2>4
    <3> HIDE DEF b
    <3>3. s[b + 1] = Slash /\ s[b + (Len(value) + 2)] = Slash
      BY <2>1, <3>1 DEF PairBehind
    <3>4. \A j \in 1..Len(value) : s[b + (1 + j)] = value[j]
      BY <2>1, <3>2 DEF PairBehind
    <3> QED
      BY <2>1, <3>1, <3>3, <3>4, NotInWord
  <2>8. ASSUME NEW m \in 0..(Mark(command, i + 1) - 1)
        PROVE  ~FinalBehind(s, m)
    <3>1. m < a + (Len(key) + 2 + Len(value)) /\ m \in Nat
      BY <2>1, <2>2, <2>4
    <3>2. CASE m < a
      BY <2>2, <2>5, <3>1, <3>2
    <3>3. CASE m >= a /\ m < b
      <4>1. m - a \in 0..Len(key) /\ a + (m - a) = m
        BY <2>2, <2>4, <3>1, <3>3
      <4>2. ~FinalBehind(s, a + (m - a))
        BY <2>6, <4>1
      <4> QED
        BY <4>1, <4>2
    <3>4. CASE m >= b
      <4>1. m - b \in 0..Len(value) /\ b + (m - b) = m
        BY <2>2, <2>4, <3>1, <3>4
      <4> HIDE DEF b
      <4>2. ~FinalBehind(s, b + (m - b))
        BY <2>7, <4>1
      <4> QED
        BY <4>1, <4>2
    <3>5. m < a \/ (m >= a /\ m < b) \/ m >= b
      BY <2>2, <2>4, <3>1
    <3> QED
      BY <3>2, <3>3, <3>4, <3>5
  <2> QED
    BY <2>2, <2>8
<1>4. n \in P
  <2> HIDE DEF P, n
  <2> QED
    BY <1>1, <1>2, <1>3, BoundedInduction
<1> QED
  BY <1>4

-----------------------------------------------------------------------------
(* The outer loop, command by command *)

(* What the outer loop has found.                                          *)
Taken(commands, remainder) == [commands |-> commands, remainder |-> remainder]

\* A turn takes a whole command.
LEMMA CommandTaken ==
  ASSUME NEW command \in Command, NEW t \in Seq(Text), NEW commands
  PROVE  /\ Starts(Encode(command) \o t)
         /\ NextCommand(Taken(commands, Encode(command) \o t)) = Taken(Append(commands, command), t)
<1> DEFINE s == Encode(command) \o t
           m == Mark(command, Len(command))
<1>1. Pairs(s) = Found(command, t, TRUE)
  BY CommandRead
<1>2. /\ s \in Seq(Text) /\ Len(s) = m + 4 + Len(t) /\ \A j \in 1..4 : s[m + j] = Final[j]
      /\ Begins(s, Encode(command))
  BY FinalFromMark
<1>3. 0 \in 0..(Len(command) - 1) /\ m \in Nat /\ Mark(command, 0) = 0
  BY FieldsProperties, MarkProperties
<1>4. s[1] = Slash
  <2> HIDE DEF s, m
  <2>1. PairBehind(s, 0, Key(command, 0), Value(command, 0))
    <3>1. PairBehind(s, Mark(command, 0), Key(command, 0), Value(command, 0))
      BY <1>2, <1>3, PairsInText
    <3> QED
      BY <1>3, <3>1
  <2>2. s[0 + 1] = Slash
    BY <2>1 DEF PairBehind
  <2> QED
    BY <2>2
<1> HIDE DEF s, m
<1>5. Find(s, Final) # 0
  <2>1. m \in 0..(Len(s) - 4) /\ FinalBehind(s, m)
    <3>1. Len(t) \in Nat
      BY LenProperties
    <3> QED
      BY <1>2, <1>3, <3>1 DEF FinalBehind
  <2> QED
    BY <1>2, <2>1, FindFinal
<1>6. Starts(s)
  <2>1. Len(s) # 0
    BY <1>2, <1>3, LenProperties
  <2>2. s # << >>
    BY <2>1, EmptySeq
  <2> QED
    BY <1>4, <2>2 DEF Starts
<1>7. NextCommand(Taken(commands, s)) = Taken(Append(commands, command), t)
  <2>1. Taken(commands, s).commands = commands /\ Taken(commands, s).remainder = s
    BY DEF Taken
  <2>2. Pairs(s).pairs = command /\ Pairs(s).rest = t
    BY <1>1 DEF Found
  <2>3. NextCommand(Taken(commands, s))
          = [commands |-> Append(commands, Pairs(s).pairs), remainder |-> Pairs(s).rest]
    BY <1>5, <1>6, <2>1, Zenon DEF NextCommand
  <2> QED
    BY <2>2, <2>3 DEF Taken
<1> QED
  BY <1>6, <1>7 DEF s

\* A part of a command waits for more.
LEMMA CommandWaits ==
  ASSUME NEW command \in Command, NEW k \in 0..(Len(Encode(command)) - 1), NEW commands
  PROVE  LET s == Piece(Encode(command), 0, k)
         IN  /\ s = << >> \/ Starts(s)
             /\ NextCommand(Taken(commands, s)) = Taken(commands, s)
<1> DEFINE e == Encode(command)
           s == Piece(e, 0, k)
           m == Mark(command, Len(command))
<1>1. e \in Seq(Text) /\ Len(e) = m + 4 /\ m \in Nat
  BY EncodeSymbols, FieldsProperties, MarkProperties
<1>2. Begins(e, e)
  <2>1. Len(e) <= Len(e)
    BY <1>1
  <2> QED
    BY <2>1 DEF Begins
<1>3. \A i \in 0..(m - 1) : ~FinalBehind(e, i)
  BY <1>1, <1>2, NotBeforeEnd
<1>4. e[1] = Slash
  <2>1. 0 \in 0..(Len(command) - 1) /\ Mark(command, 0) = 0
    BY FieldsProperties, MarkProperties
  <2>2. PairBehind(e, Mark(command, 0), Key(command, 0), Value(command, 0))
    BY <1>1, <1>2, <2>1, PairsInText
  <2>3. e[0 + 1] = Slash
    BY <2>1, <2>2 DEF PairBehind
  <2> QED
    BY <2>3
<1> HIDE DEF e
<1>5. k \in Nat /\ 0 + k <= Len(e) /\ k <= m + 3
  BY <1>1 DEF e
<1>6. s \in Seq(Text) /\ Len(s) = k /\ (\A j \in 1..k : s[j] = e[0 + j]) /\ (k = 0 => s = << >>)
  BY <1>1, <1>5, PieceProperties
<1> HIDE DEF s, m
<1>7. \A j \in 1..k : s[j] = e[j]
  <2>1. \A j \in 1..k : 0 + j = j
    BY <1>5
  <2> QED
    BY <1>6, <2>1
<1>8. s = << >> \/ Starts(s)
  <2>1. CASE k = 0
    BY <1>6, <2>1
  <2>2. CASE k # 0
    <3>1. 1 \in 1..k
      BY <1>5, <2>2
    <3>2. s[1] = Slash /\ s # << >>
      BY <1>4, <1>6, <1>7, <2>2, <3>1, EmptySeq
    <3> QED
      BY <3>2 DEF Starts
  <2> QED
    BY <2>1, <2>2
<1>9. ASSUME NEW i \in 0..(Len(s) - 4), FinalBehind(s, i)
      PROVE  FALSE
  <2>1. i \in 0..(m - 1) /\ \A j \in 1..4 : i + j \in 1..k
    BY <1>1, <1>5, <1>6
  <2>2. FinalBehind(e, i)
    BY <1>7, <1>9, <2>1 DEF FinalBehind
  <2> QED
    BY <1>3, <2>1, <2>2
<1>10. Find(s, Final) = 0
  BY <1>6, <1>9, FindFinal
<1>11. NextCommand(Taken(commands, s)) = Taken(commands, s)
  <2>1. Taken(commands, s).remainder = s
    BY DEF Taken
  <2> QED
    BY <1>10, <2>1, Zenon DEF NextCommand
<1> QED
  BY <1>8, <1>11 DEF s, e

\* And so does nothing.
LEMMA NothingWaits ==
  ASSUME NEW commands
  PROVE  NextCommand(Taken(commands, << >>)) = Taken(commands, << >>)
<1>1. Taken(commands, << >>).remainder = << >>
  BY DEF Taken
<1>2. ~Starts(<< >>)
  BY DEF Starts
<1> QED
  BY <1>1, <1>2, Zenon DEF NextCommand

-----------------------------------------------------------------------------
(* What waits in the buffer *)

\* The number of bytes of the first k messages.
Edge(parts, k) == Len(Joined(parts, k))

(* Of x bytes that have come, those behind the first k messages.           *)
Held(parts, k, x) == Piece(FlattenSeq(parts), Edge(parts, k), x - Edge(parts, k))

NoneEmpty(parts) == \A i \in 1..Len(parts) : Len(parts[i]) >= 1

\* The edges are in order.
LEMMA EdgeProperties ==
  ASSUME NEW S, NEW parts \in Seq(Seq(S)), NoneEmpty(parts)
  PROVE  /\ Len(parts) \in Nat /\ FlattenSeq(parts) \in Seq(S) /\ Len(FlattenSeq(parts)) \in Nat
         /\ Edge(parts, 0) = 0 /\ Edge(parts, Len(parts)) = Len(FlattenSeq(parts))
         /\ \A k \in 0..Len(parts) : Edge(parts, k) \in Nat /\ Edge(parts, k) <= Len(FlattenSeq(parts))
         /\ \A k \in 0..(Len(parts) - 1) : Edge(parts, k + 1) = Edge(parts, k) + Len(parts[k + 1])
         /\ \A k \in 0..Len(parts) : \A j \in k..Len(parts) : Edge(parts, j) >= Edge(parts, k) + (j - k)
<1>1. /\ Len(parts) \in Nat /\ FlattenSeq(parts) \in Seq(S) /\ Len(FlattenSeq(parts)) \in Nat
      /\ Edge(parts, 0) = 0 /\ Edge(parts, Len(parts)) = Len(FlattenSeq(parts))
      /\ \A k \in 0..Len(parts) : Edge(parts, k) \in Nat
      /\ \A k \in 0..(Len(parts) - 1) : Edge(parts, k + 1) = Edge(parts, k) + Len(parts[k + 1])
  BY JoinedLengths DEF Edge
<1>2. ASSUME NEW k \in 0..Len(parts)
      PROVE  \A j \in k..Len(parts) : Edge(parts, j) >= Edge(parts, k) + (j - k)
  BY JoinedGrows DEF Edge, NoneEmpty
<1>3. ASSUME NEW k \in 0..Len(parts)
      PROVE  Edge(parts, k) <= Len(FlattenSeq(parts))
  <2>1. Len(parts) \in k..Len(parts)
    BY <1>1
  <2>2. Edge(parts, Len(parts)) >= Edge(parts, k) + (Len(parts) - k)
    BY <1>2, <2>1
  <2>3. Edge(parts, k) \in Nat /\ Len(parts) - k \in Nat
    BY <1>1
  <2> QED
    BY <1>1, <2>2, <2>3
<1> QED
  BY <1>1, <1>2, <1>3

\* What is held, when it is no more than one message, is a part of it.
LEMMA HeldPart ==
  ASSUME NEW S, NEW parts \in Seq(Seq(S)), NoneEmpty(parts), NEW k \in 0..(Len(parts) - 1),
         NEW x \in Edge(parts, k)..Edge(parts, k + 1)
  PROVE  /\ Held(parts, k, x) = Piece(parts[k + 1], 0, x - Edge(parts, k))
         /\ x - Edge(parts, k) \in 0..Len(parts[k + 1])
<1>1. /\ k \in 0..Len(parts) /\ k + 1 \in 0..Len(parts) /\ k + 1 \in 1..Len(parts) /\ parts[k + 1] \in Seq(S)
      /\ Len(parts[k + 1]) \in Nat
  BY JoinedLengths
<1>2. Edge(parts, k) \in Nat /\ Edge(parts, k + 1) = Edge(parts, k) + Len(parts[k + 1])
  BY <1>1, EdgeProperties
<1> DEFINE a == Edge(parts, k)
           b == x - a
<1>3. b \in Nat /\ b \in 0..Len(parts[k + 1]) /\ 0 + b <= Len(parts[k + 1]) /\ 0 \in Nat /\ a + 0 = a
  BY <1>1, <1>2
<1> HIDE DEF b
<1>4. Piece(FlattenSeq(parts), Len(Joined(parts, k)) + 0, b) = Piece(parts[k + 1], 0, b)
  BY <1>3, PartAt
<1> QED
  BY <1>3, <1>4 DEF Held, a, b, Edge

\* What is held, when it is a message or more, is that message and the rest.
LEMMA HeldSplits ==
  ASSUME NEW S, NEW parts \in Seq(Seq(S)), NoneEmpty(parts), NEW k \in 0..(Len(parts) - 1),
         NEW x \in Edge(parts, k + 1)..Len(FlattenSeq(parts))
  PROVE  /\ Held(parts, k, x) = parts[k + 1] \o Held(parts, k + 1, x)
         /\ Held(parts, k + 1, x) \in Seq(S)
<1>1. /\ k \in 0..Len(parts) /\ k + 1 \in 0..Len(parts) /\ k + 1 \in 1..Len(parts) /\ parts[k + 1] \in Seq(S)
      /\ Len(parts[k + 1]) \in Nat
  BY JoinedLengths
<1> DEFINE a == Edge(parts, k)
           part == parts[k + 1]
           n == Len(part)
           b == Edge(parts, k + 1)
           flat == FlattenSeq(parts)
           m == x - b
<1>2. a \in Nat /\ b = a + n /\ flat \in Seq(S) /\ Len(flat) \in Nat
  BY <1>1, EdgeProperties
<1>3. n \in Nat /\ m \in Nat /\ a + n + m <= Len(flat) /\ n + m = x - a /\ b + m <= Len(flat) /\ b \in Nat
      /\ b \in a..b
  <2>1. n \in Nat /\ x \in b..Len(flat)
    BY <1>1
  <2> HIDE DEF n, a, b, flat
  <2> QED
    BY <1>2, <2>1
<1>4. Held(parts, k, b) = Piece(part, 0, b - a)
  BY <1>3, HeldPart
<1> HIDE DEF flat, m, n, part, a, b
<1>5. Piece(flat, a, n) \o Piece(flat, a + n, m) = Piece(flat, a, n + m)
  <2>1. Adjoining(S)
    BY Cutting
  <2>2. flat \in Seq(S) /\ a \in Nat /\ n \in Nat /\ m \in Nat /\ a + n + m <= Len(flat)
    BY <1>2, <1>3
  <2> QED
    BY <2>1, <2>2, Zenon DEF Adjoining
<1>6. Piece(flat, a, n) = part
  <2>1. b - a = n
    BY <1>2, <1>3
  <2>2. Held(parts, k, b) = Piece(flat, a, b - a)
    BY DEF Held, flat, a
  <2>3. Piece(part, 0, n) = part
    BY <1>1, WholePiece DEF part, n
  <2> QED
    BY <1>4, <2>1, <2>2, <2>3
<1>7. Held(parts, k, x) = Piece(flat, a, n + m)
  BY <1>3 DEF Held, flat, a
<1>8. Held(parts, k + 1, x) = Piece(flat, a + n, m)
  BY <1>2 DEF Held, flat, b, m
<1>9. Held(parts, k + 1, x) \in Seq(S)
  BY <1>2, <1>3, <1>8, PieceProperties
<1> QED
  BY <1>5, <1>6, <1>7, <1>8, <1>9 DEF part

(* A chunk adds what comes next.                                           *)
Growing(parts) ==
  \A k \in 0..Len(parts) : \A x \in Edge(parts, k)..Len(FlattenSeq(parts)) : \A n \in Nat :
    x + n <= Len(FlattenSeq(parts)) =>
      Held(parts, k, x) \o Piece(FlattenSeq(parts), x, n) = Held(parts, k, x + n)

\* It does, whatever was held.
LEMMA HeldGrows ==
  ASSUME NEW S, NEW parts \in Seq(Seq(S)), NoneEmpty(parts)
  PROVE  Growing(parts)
<1> DEFINE flat == FlattenSeq(parts)
<1>1. flat \in Seq(S) /\ Len(flat) \in Nat /\ \A k \in 0..Len(parts) : Edge(parts, k) \in Nat
  BY EdgeProperties
<1>2. Adjoining(S)
  BY Cutting
<1>3. ASSUME NEW k \in 0..Len(parts), NEW x \in Edge(parts, k)..Len(flat), NEW n \in Nat, x + n <= Len(flat)
      PROVE  Held(parts, k, x) \o Piece(flat, x, n) = Held(parts, k, x + n)
  <2> DEFINE a == Edge(parts, k)
             m == x - a
  <2> HIDE DEF flat
  <2>1. a \in Nat
    BY <1>1
  <2>2. m \in Nat /\ a + m = x /\ a + m + n <= Len(flat) /\ m + n = (x + n) - a
    BY <1>1, <1>3, <2>1
  <2> HIDE DEF m, a
  <2>3. Piece(flat, a, m) \o Piece(flat, a + m, n) = Piece(flat, a, m + n)
    <3>1. flat \in Seq(S) /\ a \in Nat /\ m \in Nat /\ n \in Nat /\ a + m + n <= Len(flat)
      BY <1>1, <2>1, <2>2
    <3> QED
      BY <1>2, <3>1, Zenon DEF Adjoining
  <2>4. Held(parts, k, x) = Piece(flat, a, m) /\ Held(parts, k, x + n) = Piece(flat, a, m + n)
    BY <2>2 DEF Held, flat, a, m
  <2> QED
    BY <2>2, <2>3, <2>4
<1> QED
  BY <1>3 DEF Growing

\* How much is held, whatever k the messages from the first m on wait behind.
LEMMA HeldLength ==
  ASSUME NEW S, NEW parts \in Seq(Seq(S)), NoneEmpty(parts), NEW k \in 0..Len(parts),
         NEW m \in k..Len(parts), NEW x \in Edge(parts, m)..Len(FlattenSeq(parts))
  PROVE  /\ \A i \in k..m : i \in 0..Len(parts) /\ x \in Edge(parts, i)..Len(FlattenSeq(parts))
         /\ Held(parts, k, x) \in Seq(S) /\ Len(Held(parts, k, x)) \in Nat
         /\ m - k \in 0..Len(Held(parts, k, x))
         /\ x \in Nat /\ Edge(parts, m) \in Nat
         /\ Len(Held(parts, k, x)) >= (m - k) + (x - Edge(parts, m))
         /\ Len(Held(parts, k, x)) = x - Edge(parts, k)
         /\ x = Edge(parts, k) => Held(parts, k, x) = << >>
<1> DEFINE l == Len(parts)
           flat == FlattenSeq(parts)
           s == Held(parts, k, x)
<1>1. /\ l \in Nat /\ flat \in Seq(S) /\ Len(flat) \in Nat
      /\ \A i \in 0..l : Edge(parts, i) \in Nat
      /\ \A i \in 0..l : \A j \in i..l : Edge(parts, j) >= Edge(parts, i) + (j - i)
  BY EdgeProperties
<1> HIDE DEF l
<1>2. k \in Nat /\ m \in Nat /\ k <= m /\ m <= l /\ m - k \in Nat /\ k \in 0..l /\ m \in 0..l
  BY <1>1 DEF l
<1>3. Edge(parts, m) \in Nat /\ Edge(parts, k) \in Nat /\ x \in Nat /\ x >= Edge(parts, m) /\ x <= Len(flat)
  <2>1. Edge(parts, m) \in Nat /\ Edge(parts, k) \in Nat
    BY <1>1, <1>2
  <2> QED
    BY <1>1, <2>1
<1> HIDE DEF flat
<1>4. ASSUME NEW i \in k..m
      PROVE  i \in 0..l /\ x \in Edge(parts, i)..Len(flat)
  <2>1. i \in 0..l /\ m \in i..l /\ m - i \in Nat
    BY <1>1, <1>2
  <2>2. Edge(parts, i) \in Nat /\ Edge(parts, m) >= Edge(parts, i) + (m - i)
    BY <1>1, <2>1
  <2> QED
    BY <1>1, <1>3, <2>1, <2>2
<1>5. s \in Seq(S) /\ Len(s) = x - Edge(parts, k) /\ (x = Edge(parts, k) => s = << >>)
  <2>1. k \in k..m
    BY <1>2
  <2> DEFINE a == Edge(parts, k)
             y == x - a
  <2>2. a \in Nat /\ y \in Nat /\ a + y <= Len(flat) /\ flat \in Seq(S) /\ (x = a => y = 0)
    BY <1>1, <1>3, <1>4, <2>1
  <2>3. s = Piece(flat, a, y)
    BY DEF Held, flat
  <2>4. Piecewise(S)
    BY Cutting
  <2> HIDE DEF a, y, s
  <2>5. s \in Seq(S) /\ Len(s) = y /\ (y = 0 => s = << >>)
    BY <2>2, <2>3, <2>4, Zenon DEF Piecewise
  <2>6. s \in Seq(S) /\ Len(s) = y /\ (x = a => s = << >>)
    BY <2>2, <2>5
  <2> QED
    BY <2>6 DEF a, y
<1> HIDE DEF s
<1>6. Edge(parts, m) >= Edge(parts, k) + (m - k)
  <2>1. m \in k..l
    BY <1>1, <1>2
  <2> QED
    BY <1>1, <1>2, <2>1
<1>7. Len(s) \in Nat /\ m - k \in 0..Len(s) /\ Len(s) >= (m - k) + (x - Edge(parts, m))
  BY <1>2, <1>3, <1>5, <1>6
<1> QED
  BY <1>3, <1>4, <1>5, <1>7 DEF l, flat, s

-----------------------------------------------------------------------------
(* What the loops take from the buffer *)

\* The commands as they are sent.
Encoded(script) == [i \in 1..Len(script) |-> Encode(script[i])]

\* They are texts, and none is empty.
LEMMA EncodedProperties ==
  ASSUME NEW script \in Seq(Command)
  PROVE  /\ Encoded(script) \in Seq(Seq(Text)) /\ Len(Encoded(script)) = Len(script)
         /\ Len(script) \in Nat
         /\ NoneEmpty(Encoded(script))
         /\ \A i \in 1..Len(script) : script[i] \in Command /\ Encoded(script)[i] = Encode(script[i])
<1>1. Len(script) \in Nat /\ \A i \in 1..Len(script) : script[i] \in Command
  BY LenProperties, ElementOfSeq
<1>2. \A i \in 1..Len(script) : Encoded(script)[i] = Encode(script[i])
  BY DEF Encoded
<1>3. \A i \in 1..Len(script) : Encode(script[i]) \in Seq(Text)
  BY <1>1, EncodeSymbols
<1>4. Encoded(script) \in Seq(Seq(Text)) /\ Len(Encoded(script)) = Len(script)
  BY <1>1, <1>3 DEF Encoded
<1>5. ASSUME NEW command \in Command
      PROVE  Len(Encode(command)) >= 1
  <2>1. Len(command) \in 0..Len(command)
    BY FieldsProperties
  <2>2. Len(Encode(command)) = Mark(command, Len(command)) + 4 /\ Mark(command, Len(command)) \in Nat
    BY <2>1, EncodeSymbols, MarkProperties
  <2> QED
    BY <2>2
<1>6. NoneEmpty(Encoded(script))
  BY <1>1, <1>2, <1>4, <1>5 DEF NoneEmpty
<1> QED
  BY <1>1, <1>2, <1>4, <1>6

(* Of x bytes, the first m messages are whole, and the next is not.        *)
WholeUpTo(parts, m, x) ==
  /\ m \in 0..Len(parts)
  /\ x \in Edge(parts, m)..Len(FlattenSeq(parts))
  /\ m < Len(parts) => x < Edge(parts, m + 1)

\* ParseGameSpyMessage takes the whole commands and leaves the rest.
LEMMA CommandsRead ==
  ASSUME NEW script \in Seq(Command), NEW k \in 0..Len(script), NEW m \in k..Len(script), NEW x,
         WholeUpTo(Encoded(script), m, x)
  PROVE  ParseGameSpyMessage(Held(Encoded(script), k, x))
           = Taken(Piece(script, k, m - k), Held(Encoded(script), m, x))
<1> DEFINE parts == Encoded(script)
           l == Len(script)
           flat == FlattenSeq(parts)
           s == Held(parts, k, x)
           g == [i \in 0..(m - k) |-> Taken(Piece(script, k, i), Held(parts, k + i, x))]
<1>1. /\ parts \in Seq(Seq(Text)) /\ Len(parts) = l /\ l \in Nat /\ NoneEmpty(parts)
      /\ \A i \in 1..l : script[i] \in Command /\ parts[i] = Encode(script[i])
  BY EncodedProperties
<1>2. k \in Nat /\ m \in Nat /\ k <= m /\ m <= l /\ m - k \in Nat /\ k \in 0..l /\ m \in 0..l
  BY <1>1
<1>3. /\ x \in Edge(parts, m)..Len(flat) /\ (m < l => x < Edge(parts, m + 1))
  BY <1>1 DEF WholeUpTo
<1> HIDE DEF l, parts
<1>4. k \in 0..Len(parts) /\ m \in k..Len(parts) /\ x \in Edge(parts, m)..Len(FlattenSeq(parts))
  BY <1>1, <1>2, <1>3
<1>5. /\ \A i \in k..m : x \in Edge(parts, i)..Len(flat)
      /\ x \in Nat /\ Edge(parts, m) \in Nat
      /\ s \in Seq(Text) /\ Len(s) \in Nat /\ m - k \in 0..Len(s)
  BY <1>1, <1>4, HeldLength
<1>6. Edge(parts, l) = Len(flat) /\ Len(flat) \in Nat
  BY <1>1, EdgeProperties
<1> HIDE DEF flat
<1>7. PICK f : CommandRun(f, s)
  BY <1>5, CommandTurns
<1> HIDE DEF s
<1>8. /\ f[0] = Taken(<< >>, s)
      /\ \A i \in 0..(Len(s) - 1) : f[i + 1] = NextCommand(f[i])
      /\ ParseGameSpyMessage(s) = f[Len(s)]
  BY <1>7 DEF CommandRun, Taken
<1>9. f[0] = g[0]
  <2>1. 0 \in 0..(m - k) /\ k + 0 = k
    BY <1>2
  <2>2. Piece(script, k, 0) = << >>
    <3>1. k + 0 <= Len(script) /\ 0 \in Nat
      BY <1>2 DEF l
    <3> QED
      BY <1>2, <3>1, PieceProperties
  <2>3. g[0] = Taken(Piece(script, k, 0), Held(parts, k + 0, x))
    BY <2>1
  <2> QED
    BY <1>8, <2>1, <2>2, <2>3 DEF s
<1>10. ASSUME NEW i \in 0..(Len(s) - 1), i < m - k, f[i] = g[i]
       PROVE  f[i + 1] = g[i + 1]
  <2>1. /\ i \in Nat /\ i \in 0..(m - k) /\ i + 1 \in 0..(m - k) /\ k + (i + 1) = (k + i) + 1
        /\ k + i \in 0..(l - 1) /\ (k + i) + 1 \in 1..l /\ (k + i) + 1 \in k..m
        /\ k + i + 1 <= l
    <3>1. i \in Nat /\ i < m - k /\ l \in Nat
      BY <1>1, <1>5, <1>10
    <3> HIDE DEF g
    <3> QED
      BY <1>2, <3>1
  <2>2. f[i] = Taken(Piece(script, k, i), Held(parts, k + i, x))
    BY <1>10, <2>1
  <2>3. g[i + 1] = Taken(Piece(script, k, i + 1), Held(parts, (k + i) + 1, x))
    BY <2>1
  <2> HIDE DEF g
  <2>4. script[(k + i) + 1] \in Command /\ parts[(k + i) + 1] = Encode(script[(k + i) + 1])
    BY <1>1, <2>1
  <2>5. /\ Held(parts, k + i, x) = parts[(k + i) + 1] \o Held(parts, (k + i) + 1, x)
        /\ Held(parts, (k + i) + 1, x) \in Seq(Text)
    <3>1. x \in Edge(parts, (k + i) + 1)..Len(FlattenSeq(parts)) /\ k + i \in 0..(Len(parts) - 1)
      BY <1>1, <1>5, <2>1 DEF flat
    <3> QED
      BY <1>1, <3>1, HeldSplits
  <2>6. Append(Piece(script, k, i), script[(k + i) + 1]) = Piece(script, k, i + 1)
    <3>1. k + i + 1 <= Len(script)
      BY <2>1 DEF l
    <3>2. Append(Piece(script, k, i), script[k + i + 1]) = Piece(script, k, i + 1)
      BY <1>2, <2>1, <3>1, OneMorePiece
    <3> QED
      BY <3>2
  <2>7. NextCommand(Taken(Piece(script, k, i), Encode(script[(k + i) + 1]) \o Held(parts, (k + i) + 1, x)))
          = Taken(Append(Piece(script, k, i), script[(k + i) + 1]), Held(parts, (k + i) + 1, x))
    BY <2>4, <2>5, CommandTaken
  <2> QED
    BY <1>8, <2>2, <2>3, <2>4, <2>5, <2>6, <2>7
<1> DEFINE last == Taken(Piece(script, k, m - k), Held(parts, m, x))
<1>11. g[m - k] = last
  <2>1. m - k \in 0..(m - k) /\ k + (m - k) = m
    BY <1>2
  <2> QED
    BY <2>1
<1>12. NextCommand(last) = last
  <2>1. CASE m = l
    <3>1. x = Edge(parts, m) /\ m \in 0..Len(parts) /\ x + 0 <= Len(FlattenSeq(parts)) /\ 0 \in Nat
          /\ x \in Edge(parts, m)..Len(FlattenSeq(parts))
      BY <1>1, <1>2, <1>3, <1>5, <1>6, <2>1 DEF flat
    <3>2. Held(parts, m, x) = << >>
      <4>1. m \in m..Len(parts)
        BY <1>1, <1>2
      <4> QED
        BY <1>1, <3>1, <4>1, HeldLength
    <3> QED
      BY <3>2, NothingWaits
  <2>2. CASE m # l
    <3>1. m \in 0..(l - 1) /\ m + 1 \in 1..l /\ m + 1 \in 0..l /\ m < l
      BY <1>1, <1>2, <2>2
    <3>2. script[m + 1] \in Command /\ parts[m + 1] = Encode(script[m + 1])
      BY <1>1, <3>1
    <3> DEFINE y == x - Edge(parts, m)
    <3>3. Edge(parts, m + 1) = Edge(parts, m) + Len(parts[m + 1]) /\ Edge(parts, m) \in Nat
          /\ Len(parts[m + 1]) \in Nat /\ x \in Edge(parts, m)..Edge(parts, m + 1) /\ x < Edge(parts, m + 1)
      <4>1. Edge(parts, m + 1) = Edge(parts, m) + Len(parts[m + 1]) /\ Edge(parts, m) \in Nat
            /\ Edge(parts, m + 1) \in Nat
        BY <1>1, <1>2, <3>1, EdgeProperties
      <4>2. Len(parts[m + 1]) \in Nat
        BY <3>2, EncodeSymbols, LenProperties
      <4>3. x < Edge(parts, m + 1) /\ x \in Edge(parts, m)..Len(flat)
        BY <1>3, <3>1
      <4> QED
        BY <1>5, <1>6, <4>1, <4>2, <4>3
    <3>4. Held(parts, m, x) = Piece(parts[m + 1], 0, y) /\ y \in 0..Len(parts[m + 1])
      BY <1>1, <3>1, <3>3, HeldPart
    <3>5. y # Len(parts[m + 1])
      BY <1>5, <3>3
    <3> HIDE DEF y
    <3>6. y \in 0..(Len(Encode(script[m + 1])) - 1)
      BY <3>2, <3>3, <3>4, <3>5
    <3>7. NextCommand(Taken(Piece(script, k, m - k), Piece(Encode(script[m + 1]), 0, y)))
            = Taken(Piece(script, k, m - k), Piece(Encode(script[m + 1]), 0, y))
      BY <3>2, <3>6, CommandWaits
    <3> QED
      BY <3>2, <3>4, <3>7
  <2> QED
    BY <2>1, <2>2
<1> HIDE DEF g, last
<1>13. f[Len(s)] = g[m - k]
  <2> DEFINE n == Len(s)
             d == m - k
  <2>1. n \in Nat /\ d \in 0..n
    BY <1>5
  <2>2. \A i \in 0..(n - 1) : i < d /\ f[i] = g[i] => f[i + 1] = g[i + 1]
    BY <1>10
  <2>3. \A i \in 0..(n - 1) : i >= d /\ f[i] = g[d] => f[i + 1] = g[d]
    BY <1>8, <1>11, <1>12
  <2> HIDE DEF n, d
  <2>4. Follows(f, g, d, n)
    BY <1>9, <2>2, <2>3 DEF Follows
  <2>5. f[n] = g[d]
    BY <2>1, <2>4, TurnsReach
  <2> QED
    BY <2>5 DEF n, d
<1> QED
  BY <1>8, <1>11, <1>13 DEF s, last, parts

-----------------------------------------------------------------------------
(* Packets *)

Odd(packet) == PacketLen(packet) < 3 \/ PacketLen(packet) > MaxBuffer

Framed(packet) ==
  /\ packet \in Seq(Nat) /\ Len(packet) >= 2
  /\ PacketLen(packet) \in 3..MaxBuffer => Len(packet) = PacketLen(packet)

(* What the loop of dispatch has found.                                    *)
Got(packets, rest, open) == [packets |-> packets, rest |-> rest, open |-> open]

\* The length of a packet is a number, and its own unless it is odd.
LEMMA FramedProperties ==
  ASSUME NEW p, Framed(p)
  PROVE  /\ p \in Seq(Nat) /\ Len(p) \in Nat /\ Len(p) >= 2
         /\ 1 \in 1..Len(p) /\ 2 \in 1..Len(p) /\ PacketLen(p) \in Nat
         /\ ~Odd(p) => Len(p) = PacketLen(p)
<1>1. p \in Seq(Nat) /\ Len(p) \in Nat /\ Len(p) >= 2
  BY LenProperties DEF Framed
<1>2. 1 \in 1..Len(p) /\ 2 \in 1..Len(p)
  BY <1>1
<1>3. p[1] \in Nat /\ p[2] \in Nat
  BY <1>1, <1>2, ElementOfSeq
<1>4. PacketLen(p) \in Nat
  BY <1>3 DEF PacketLen
<1>5. ~Odd(p) => PacketLen(p) \in 3..MaxBuffer
  BY <1>4, FramingAssumption DEF Odd
<1> QED
  BY <1>1, <1>2, <1>4, <1>5 DEF Framed

\* A turn takes a whole packet.
LEMMA PacketTaken ==
  ASSUME NEW p, Framed(p), ~Odd(p), NEW t \in Seq(Nat), NEW packets
  PROVE  NextPacket(Got(packets, p \o t, TRUE)) = Got(Append(packets, p), t, TRUE)
<1> DEFINE s == p \o t
           n == Len(p)
<1>1. p \in Seq(Nat) /\ n \in Nat /\ n >= 2 /\ 1 \in 1..n /\ 2 \in 1..n /\ PacketLen(p) = n
  BY FramedProperties
<1>2. Joinable(Nat)
  BY Joining
<1> HIDE DEF n
<1>3. /\ s \in Seq(Nat) /\ Len(s) = n + Len(t) /\ Len(t) \in Nat
      /\ \A i \in 1..n : s[i] = p[i]
      /\ \A i \in 1..Len(t) : s[n + i] = t[i]
  BY <1>1, <1>2, Zenon DEF Joinable, n
<1> HIDE DEF s
<1>4. PacketLen(s) = n
  BY <1>1, <1>3 DEF PacketLen
<1>5. Len(s) \in Nat /\ n \in 0..Len(s) /\ ~(Len(s) < 2) /\ ~(Len(s) < n) /\ n <= Len(s) /\ Len(s) - n = Len(t)
  BY <1>1, <1>3
<1>6. ~(n < 3) /\ ~(n > MaxBuffer)
  BY <1>1 DEF Odd
<1>7. From(s, n + 1) = t
  <2> DEFINE u == Rest(s, n)
  <2>1. From(s, n + 1) = u /\ u \in Seq(Nat) /\ Len(u) = Len(s) - n /\ \A j \in 1..(Len(s) - n) : u[j] = s[n + j]
    BY <1>3, <1>5, RestProperties
  <2> HIDE DEF u
  <2>2. Len(u) = Len(t) /\ \A j \in 1..Len(u) : u[j] = t[j]
    BY <1>3, <1>5, <2>1
  <2>3. u = t
    BY <2>1, <2>2, SeqEqual
  <2> QED
    BY <2>1, <2>3
<1>8. SubSeq(s, 1, n) = p
  <2>1. SubSeq(p \o t, 1, Len(p)) = p
    BY <1>1, ConcatPrefix
  <2> QED
    BY <2>1 DEF s, n
<1> DEFINE found == Got(packets, s, TRUE)
<1>9. found.packets = packets /\ found.rest = s /\ found.open = TRUE
  BY DEF Got
<1>10. NextPacket(found) = [found EXCEPT !.packets = Append(@, p), !.rest = t]
  <2> HIDE DEF found
  <2>1. ~(~found.open \/ Len(found.rest) < 2)
    BY <1>5, <1>9
  <2>2. ~(PacketLen(found.rest) < 3 \/ PacketLen(found.rest) > MaxBuffer) /\ ~(Len(found.rest) < PacketLen(found.rest))
    BY <1>4, <1>5, <1>6, <1>9
  <2>3. NextPacket(found) = [found EXCEPT !.packets = Append(@, SubSeq(found.rest, 1, PacketLen(found.rest))),
                                         !.rest = From(found.rest, PacketLen(found.rest) + 1)]
    BY <2>1, <2>2, Zenon DEF NextPacket
  <2> QED
    BY <1>4, <1>7, <1>8, <1>9, <2>3
<1>11. NextPacket(found) = Got(Append(packets, p), t, TRUE)
  BY <1>10 DEF Got
<1> QED
  BY <1>11 DEF s

\* A part of a packet waits for more, and so does less than a length.
LEMMA PacketWaits ==
  ASSUME NEW p, Framed(p), NEW k \in 0..(Len(p) - 1), ~Odd(p) \/ k < 2, NEW packets
  PROVE  NextPacket(Got(packets, Piece(p, 0, k), TRUE)) = Got(packets, Piece(p, 0, k), TRUE)
<1> DEFINE s == Piece(p, 0, k)
           found == Got(packets, s, TRUE)
<1>1. p \in Seq(Nat) /\ Len(p) \in Nat /\ Len(p) >= 2 /\ (~Odd(p) => Len(p) = PacketLen(p))
      /\ PacketLen(p) \in Nat
  BY FramedProperties
<1>2. k \in Nat /\ 0 + k <= Len(p) /\ 0 \in Nat /\ k < Len(p)
  BY <1>1
<1>3. Len(s) = k /\ \A j \in 1..k : s[j] = p[0 + j]
  BY <1>1, <1>2, PieceProperties
<1> HIDE DEF s
<1>4. found.packets = packets /\ found.rest = s /\ found.open = TRUE
  BY DEF Got
<1> HIDE DEF found
<1>5. CASE k < 2
  <2>1. Len(found.rest) < 2
    BY <1>3, <1>4, <1>5
  <2>2. NextPacket(found) = found
    BY <2>1, Zenon DEF NextPacket
  <2> QED
    BY <2>2 DEF found, s
<1>6. CASE ~(k < 2)
  <2>1. ~Odd(p) /\ 1 \in 1..k /\ 2 \in 1..k
    BY <1>2, <1>6
  <2>2. s[0 + 1] = p[0 + 1] /\ s[0 + 2] = p[0 + 2]
    BY <1>3, <2>1
  <2>3. PacketLen(s) = Len(p)
    BY <1>1, <2>1, <2>2 DEF PacketLen
  <2>4. ~(~found.open \/ Len(found.rest) < 2)
    BY <1>2, <1>3, <1>4, <1>6
  <2>5. ~(PacketLen(found.rest) < 3 \/ PacketLen(found.rest) > MaxBuffer)
    BY <1>1, <1>4, <2>1, <2>3 DEF Odd
  <2>6. Len(found.rest) < PacketLen(found.rest)
    BY <1>2, <1>3, <1>4, <2>3
  <2>7. NextPacket(found) = found
    BY <2>4, <2>5, <2>6, Zenon DEF NextPacket
  <2> QED
    BY <2>7 DEF found, s
<1> QED
  BY <1>5, <1>6

\* An odd length closes the connection, and a closed one is idle.
LEMMA PacketRefused ==
  ASSUME NEW p, Framed(p), Odd(p), NEW s, Len(s) \in Nat, Len(s) >= 2, s[1] = p[1], s[2] = p[2], NEW packets
  PROVE  /\ NextPacket(Got(packets, s, TRUE)) = Got(packets, s, FALSE)
         /\ NextPacket(Got(packets, s, FALSE)) = Got(packets, s, FALSE)
<1>1. PacketLen(s) = PacketLen(p)
  BY DEF PacketLen
<1> DEFINE found == Got(packets, s, TRUE)
<1>2. found.packets = packets /\ found.rest = s /\ found.open = TRUE
  BY DEF Got
<1>3. NextPacket(found) = [found EXCEPT !.open = FALSE]
  <2> HIDE DEF found
  <2>1. ~(~found.open \/ Len(found.rest) < 2)
    BY <1>2
  <2>2. PacketLen(found.rest) < 3 \/ PacketLen(found.rest) > MaxBuffer
    BY <1>1, <1>2 DEF Odd
  <2> QED
    BY <2>1, <2>2, Zenon DEF NextPacket
<1>4. NextPacket(found) = Got(packets, s, FALSE)
  BY <1>3 DEF Got
<1>5. NextPacket(Got(packets, s, FALSE)) = Got(packets, s, FALSE)
  BY DEF NextPacket, Got
<1> QED
  BY <1>4, <1>5

\* Nothing waits too.
LEMMA NoPacketWaits ==
  ASSUME NEW packets
  PROVE  NextPacket(Got(packets, << >>, TRUE)) = Got(packets, << >>, TRUE)
<1>1. Got(packets, << >>, TRUE).rest = << >> /\ Len(<< >>) < 2
  BY EmptySeq DEF Got
<1> QED
  BY <1>1, Zenon DEF NextPacket

\* The front of what is held is the front of the next message.
LEMMA HeldFront ==
  ASSUME NEW S, NEW parts \in Seq(Seq(S)), NoneEmpty(parts), NEW m \in 0..(Len(parts) - 1),
         NEW x \in Edge(parts, m)..Len(FlattenSeq(parts)), NEW n \in Nat,
         n <= Len(parts[m + 1]), x >= Edge(parts, m) + n
  PROVE  \A j \in 1..n : Held(parts, m, x)[j] = parts[m + 1][j]
<1> DEFINE flat == FlattenSeq(parts)
           a == Edge(parts, m)
           y == x - a
<1>1. /\ m \in 0..Len(parts) /\ m + 1 \in 1..Len(parts) /\ Len(parts[m + 1]) \in Nat
      /\ flat \in Seq(S) /\ Len(flat) \in Nat
  BY JoinedLengths
<1>2. a \in Nat
  BY <1>1, EdgeProperties
<1>3. \A p \in 1..Len(parts[m + 1]) : flat[a + p] = parts[m + 1][p]
  BY PartElements DEF Edge
<1>4. y \in Nat /\ a + y <= Len(flat) /\ n <= y
  BY <1>1, <1>2
<1> HIDE DEF flat, a, y
<1>5. \A j \in 1..y : Piece(flat, a, y)[j] = flat[a + j]
  BY <1>1, <1>2, <1>4, PieceProperties
<1>6. Held(parts, m, x) = Piece(flat, a, y)
  BY DEF Held, flat, a, y
<1>7. \A j \in 1..n : j \in 1..y /\ j \in 1..Len(parts[m + 1])
  BY <1>1, <1>4
<1> QED
  BY <1>3, <1>5, <1>6, <1>7

\* What packets are: no more than numbers, and none empty.
AllFramed(script) == script \in Seq(Seq(Nat)) /\ \A i \in 1..Len(script) : Framed(script[i])

\* Such a script in the terms of joined sequences.
LEMMA FramedScript ==
  ASSUME NEW script, AllFramed(script)
  PROVE  /\ script \in Seq(Seq(Nat)) /\ NoneEmpty(script) /\ Len(script) \in Nat
         /\ \A i \in 1..Len(script) : Framed(script[i])
<1>1. script \in Seq(Seq(Nat)) /\ \A i \in 1..Len(script) : Framed(script[i])
  BY DEF AllFramed
<1>2. \A i \in 1..Len(script) : Len(script[i]) >= 1
  BY <1>1, FramedProperties
<1> QED
  BY <1>1, <1>2, LenProperties DEF NoneEmpty

(* Of x bytes, the length behind the first m packets is in, and odd.       *)
OddAt(parts, m, x) ==
  m < Len(parts) /\ Odd(parts[m + 1]) /\ x >= Edge(parts, m) + 2

(* The first m packets are whole and none is odd, and the next is not such.*)
GoodUpTo(parts, k, m, x) ==
  /\ x \in Edge(parts, m)..Len(FlattenSeq(parts))
  /\ \A i \in (k + 1)..m : ~Odd(parts[i])
  /\ m < Len(parts) => Odd(parts[m + 1]) \/ x < Edge(parts, m + 1)

\* What happens to the last turn but one, or the last.
LEMMA LastPacketTurn ==
  ASSUME NEW script, AllFramed(script), NEW k \in 0..Len(script), NEW m \in k..Len(script), NEW x,
         GoodUpTo(script, k, m, x), NEW packets
  PROVE  LET s == Held(script, m, x)
         IN  IF OddAt(script, m, x)
             THEN /\ NextPacket(Got(packets, s, TRUE)) = Got(packets, s, FALSE)
                  /\ NextPacket(Got(packets, s, FALSE)) = Got(packets, s, FALSE)
             ELSE NextPacket(Got(packets, s, TRUE)) = Got(packets, s, TRUE)
<1> DEFINE l == Len(script)
           s == Held(script, m, x)
           flat == FlattenSeq(script)
<1>1. script \in Seq(Seq(Nat)) /\ l \in Nat /\ \A i \in 1..l : Framed(script[i])
  BY LenProperties DEF AllFramed
<1>2. NoneEmpty(script)
  BY <1>1, FramedProperties DEF NoneEmpty
<1>3. x \in Edge(script, m)..Len(flat) /\ (m < l => Odd(script[m + 1]) \/ x < Edge(script, m + 1))
  BY DEF GoodUpTo
<1>4. m \in 0..Len(script) /\ m \in m..Len(script) /\ m \in 0..l
  BY <1>1
<1>5. Edge(script, m) \in Nat /\ x \in Nat /\ Len(s) \in Nat /\ s \in Seq(Nat)
  BY <1>1, <1>2, <1>3, <1>4, HeldLength
<1>6. Len(flat) \in Nat
  BY <1>1, <1>2, EdgeProperties
<1>7. Len(s) = x - Edge(script, m) /\ (x = Edge(script, m) => s = << >>)
  BY <1>1, <1>2, <1>3, <1>4, HeldLength
<1> HIDE DEF l, flat
<1>8. CASE m = l
  <2>1. Edge(script, l) = Len(flat)
    BY <1>1, <1>2, EdgeProperties DEF l, flat
  <2>2. x = Edge(script, m)
    BY <1>3, <1>5, <1>6, <1>8, <2>1
  <2>3. ~OddAt(script, m, x)
    BY <1>1, <1>8 DEF OddAt, l
  <2>4. s = << >>
    BY <1>7, <2>2
  <2> HIDE DEF s
  <2>5. NextPacket(Got(packets, s, TRUE)) = Got(packets, s, TRUE)
    BY <2>4, NoPacketWaits
  <2> QED
    BY <2>3, <2>5 DEF s
<1>9. CASE m # l
  <2>1. m < l /\ m \in 0..(Len(script) - 1) /\ m + 1 \in 1..l
    BY <1>1, <1>4, <1>9 DEF l
  <2> DEFINE p == script[m + 1]
  <2>2. Framed(p)
    BY <1>1, <2>1
  <2>3. Len(p) \in Nat /\ Len(p) >= 2
    BY <2>2, FramedProperties
  <2>4. Edge(script, m + 1) = Edge(script, m) + Len(p)
    BY <1>1, <1>2, <2>1, EdgeProperties
  <2>5. CASE Odd(p) /\ x >= Edge(script, m) + 2
    <3>1. OddAt(script, m, x)
      BY <2>1, <2>5 DEF OddAt, l
    <3>2. \A j \in 1..2 : s[j] = p[j]
      <4> DEFINE n == 2
      <4>1. n \in Nat /\ n <= Len(script[m + 1]) /\ x >= Edge(script, m) + n
            /\ x \in Edge(script, m)..Len(FlattenSeq(script))
        BY <1>3, <2>3, <2>5 DEF flat
      <4> HIDE DEF n, p
      <4>2. \A j \in 1..n : Held(script, m, x)[j] = script[m + 1][j]
        BY <1>1, <1>2, <2>1, <4>1, HeldFront
      <4> QED
        BY <4>2 DEF n, p
    <3>3. Len(s) >= 2
      BY <1>5, <1>7, <2>5
    <3>4. s[1] = p[1] /\ s[2] = p[2]
      BY <3>2
    <3> HIDE DEF s, p
    <3>5. /\ NextPacket(Got(packets, s, TRUE)) = Got(packets, s, FALSE)
          /\ NextPacket(Got(packets, s, FALSE)) = Got(packets, s, FALSE)
      BY <1>5, <2>2, <2>5, <3>3, <3>4, PacketRefused
    <3> QED
      BY <3>1, <3>5 DEF s
  <2>6. CASE ~(Odd(p) /\ x >= Edge(script, m) + 2)
    <3>1. ~OddAt(script, m, x)
      BY <2>6 DEF OddAt
    <3> DEFINE y == x - Edge(script, m)
    <3>2. x < Edge(script, m + 1) /\ (~Odd(p) \/ y < 2)
      <4>1. Odd(p) => x < Edge(script, m) + 2
        BY <1>5, <2>6
      <4> QED
        BY <1>3, <1>5, <2>1, <2>3, <2>4, <4>1
    <3>3. x \in Edge(script, m)..Edge(script, m + 1) /\ y \in 0..(Len(p) - 1)
      <4> DEFINE a == Edge(script, m)
                 b == Edge(script, m + 1)
                 n == Len(p)
      <4>1. a \in Nat /\ x \in Nat /\ b = a + n /\ n \in Nat /\ x < b /\ x \in a..Len(flat)
        BY <1>3, <1>5, <2>3, <2>4, <3>2
      <4> HIDE DEF a, b, n, p
      <4>2. x >= a
        BY <1>6, <4>1
      <4>3. x \in a..b /\ x - a \in 0..(n - 1)
        BY <4>1, <4>2
      <4> QED
        BY <4>3 DEF a, b, n
    <3>4. s = Piece(p, 0, y)
      BY <1>1, <1>2, <2>1, <3>3, HeldPart
    <3> HIDE DEF s, p, y
    <3>5. NextPacket(Got(packets, Piece(p, 0, y), TRUE)) = Got(packets, Piece(p, 0, y), TRUE)
      BY <2>2, <3>2, <3>3, PacketWaits
    <3>6. NextPacket(Got(packets, s, TRUE)) = Got(packets, s, TRUE)
      BY <3>4, <3>5
    <3> QED
      BY <3>1, <3>6 DEF s
  <2> QED
    BY <2>5, <2>6
<1> QED
  BY <1>8, <1>9

\* The loop of dispatch takes the whole packets and leaves the rest, and
\* gives up at an odd length.
LEMMA PacketsRead ==
  ASSUME NEW script, AllFramed(script), NEW k \in 0..Len(script), NEW m \in k..Len(script), NEW x,
         GoodUpTo(script, k, m, x)
  PROVE  Packets(Held(script, k, x))
           = Got(Piece(script, k, m - k), Held(script, m, x), ~OddAt(script, m, x))
<1> DEFINE l == Len(script)
           flat == FlattenSeq(script)
           s == Held(script, k, x)
           bad == OddAt(script, m, x)
           end == IF bad THEN (m - k) + 1 ELSE m - k
           g == [i \in 0..((m - k) + 1) |->
                  IF i <= m - k THEN Got(Piece(script, k, i), Held(script, k + i, x), TRUE)
                  ELSE Got(Piece(script, k, m - k), Held(script, m, x), FALSE)]
<1>1. script \in Seq(Seq(Nat)) /\ l \in Nat /\ \A i \in 1..l : Framed(script[i])
  BY LenProperties DEF AllFramed
<1>2. NoneEmpty(script)
  BY <1>1, FramedProperties DEF NoneEmpty
<1>3. k \in Nat /\ m \in Nat /\ k <= m /\ m <= l /\ m - k \in Nat /\ k \in 0..l /\ m \in 0..l
  BY <1>1
<1>4. x \in Edge(script, m)..Len(FlattenSeq(script)) /\ \A i \in (k + 1)..m : ~Odd(script[i])
  BY DEF GoodUpTo
<1>5. /\ \A i \in k..m : x \in Edge(script, i)..Len(flat)
      /\ x \in Nat /\ Edge(script, m) \in Nat
      /\ s \in Seq(Nat) /\ Len(s) \in Nat /\ m - k \in 0..Len(s)
      /\ Len(s) >= (m - k) + (x - Edge(script, m))
  BY <1>1, <1>2, <1>4, HeldLength
<1>6. end \in 0..Len(s)
  <2>1. bad => x - Edge(script, m) >= 2
    BY <1>5 DEF OddAt
  <2> HIDE DEF bad, s
  <2> QED
    BY <1>3, <1>5, <2>1
<1> HIDE DEF l, flat
<1>7. PICK f : PacketRun(f, s)
  BY <1>5, PacketTurns
<1> HIDE DEF s
<1>8. /\ f[0] = Got(<< >>, s, TRUE)
      /\ \A i \in 0..(Len(s) - 1) : f[i + 1] = NextPacket(f[i])
      /\ Packets(s) = f[Len(s)]
  BY <1>7 DEF PacketRun, Got
<1> HIDE DEF bad
<1>9. f[0] = g[0]
  <2>1. 0 \in 0..((m - k) + 1) /\ 0 <= m - k /\ k + 0 = k
    BY <1>3
  <2>2. Piece(script, k, 0) = << >>
    <3>1. k + 0 <= Len(script) /\ 0 \in Nat
      BY <1>3 DEF l
    <3> QED
      BY <1>1, <1>3, <3>1, PieceProperties
  <2>3. g[0] = Got(Piece(script, k, 0), Held(script, k + 0, x), TRUE)
    BY <2>1
  <2> QED
    BY <1>8, <2>1, <2>2, <2>3 DEF s
<1> DEFINE part == Piece(script, k, m - k)
           rest == Held(script, m, x)
<1>10. IF bad
       THEN /\ NextPacket(Got(part, rest, TRUE)) = Got(part, rest, FALSE)
            /\ NextPacket(Got(part, rest, FALSE)) = Got(part, rest, FALSE)
       ELSE NextPacket(Got(part, rest, TRUE)) = Got(part, rest, TRUE)
  <2> HIDE DEF part
  <2> QED
    BY LastPacketTurn DEF bad
<1>11. g[m - k] = Got(part, rest, TRUE) /\ g[(m - k) + 1] = Got(part, rest, FALSE)
  <2>1. m - k \in 0..((m - k) + 1) /\ k + (m - k) = m /\ m - k <= m - k
        /\ (m - k) + 1 \in 0..((m - k) + 1) /\ ~((m - k) + 1 <= m - k)
    BY <1>3
  <2>2. g[m - k] = Got(Piece(script, k, m - k), Held(script, k + (m - k), x), TRUE)
    BY <2>1
  <2>3. g[(m - k) + 1] = Got(part, rest, FALSE)
    BY <2>1
  <2> QED
    BY <2>1, <2>2, <2>3
<1>12. g[end] = Got(part, rest, ~bad)
  <2> HIDE DEF g, part, rest
  <2>1. CASE bad
    BY <1>11, <2>1
  <2>2. CASE ~bad
    BY <1>11, <2>2
  <2> QED
    BY <2>1, <2>2
<1>13. ASSUME NEW i \in 0..(Len(s) - 1), i < end, f[i] = g[i]
       PROVE  f[i + 1] = g[i + 1]
  <2>1. CASE i = m - k
    <3>1. bad
      BY <1>3, <1>13, <2>1
    <3> HIDE DEF g, part, rest
    <3>2. f[i + 1] = Got(part, rest, FALSE)
      BY <1>8, <1>10, <1>11, <1>13, <2>1, <3>1
    <3> QED
      BY <1>11, <2>1, <3>2
  <2>2. CASE i # m - k
    <3>1. i \in Nat /\ i < m - k /\ l \in Nat
      <4>1. i \in Nat /\ (i < (m - k) + 1 \/ i < m - k)
        BY <1>5, <1>13
      <4> HIDE DEF end
      <4> QED
        BY <1>1, <1>3, <2>2, <4>1
    <3>2. /\ i \in 0..((m - k) + 1) /\ i <= m - k /\ i + 1 <= m - k /\ i + 1 \in 0..((m - k) + 1)
          /\ k + (i + 1) = (k + i) + 1
          /\ k + i \in 0..(l - 1) /\ (k + i) + 1 \in 1..l /\ (k + i) + 1 \in k..m
          /\ (k + i) + 1 \in (k + 1)..m /\ k + i + 1 <= l
      <4> HIDE DEF end, g
      <4> QED
        BY <1>3, <3>1
    <3>3. f[i] = Got(Piece(script, k, i), Held(script, k + i, x), TRUE)
      BY <1>13, <3>2
    <3>4. g[i + 1] = Got(Piece(script, k, i + 1), Held(script, (k + i) + 1, x), TRUE)
      BY <3>2
    <3> HIDE DEF g, end, part, rest
    <3> DEFINE p == script[(k + i) + 1]
               t == Held(script, (k + i) + 1, x)
    <3>5. Framed(p) /\ ~Odd(p)
      BY <1>1, <1>4, <3>2
    <3>6. Held(script, k + i, x) = p \o t /\ t \in Seq(Nat)
      <4>1. x \in Edge(script, (k + i) + 1)..Len(FlattenSeq(script)) /\ k + i \in 0..(Len(script) - 1)
        BY <1>5, <3>2 DEF flat, l
      <4> QED
        BY <1>1, <1>2, <4>1, HeldSplits
    <3>7. Append(Piece(script, k, i), p) = Piece(script, k, i + 1)
      <4>1. k + i + 1 <= Len(script)
        BY <3>2 DEF l
      <4>2. Append(Piece(script, k, i), script[k + i + 1]) = Piece(script, k, i + 1)
        BY <1>1, <1>3, <3>1, <4>1, OneMorePiece
      <4> QED
        BY <4>2
    <3> HIDE DEF p, t
    <3>8. NextPacket(Got(Piece(script, k, i), p \o t, TRUE)) = Got(Append(Piece(script, k, i), p), t, TRUE)
      BY <3>5, <3>6, PacketTaken
    <3>9. f[i + 1] = Got(Piece(script, k, i + 1), t, TRUE)
      BY <1>8, <3>3, <3>6, <3>7, <3>8
    <3> QED
      BY <3>4, <3>9 DEF t
  <2> QED
    BY <2>1, <2>2
<1> HIDE DEF g, part, rest
<1>14. NextPacket(Got(part, rest, ~bad)) = Got(part, rest, ~bad)
  <2>1. CASE bad
    BY <1>10, <2>1
  <2>2. CASE ~bad
    BY <1>10, <2>2
  <2> QED
    BY <2>1, <2>2
<1>15. f[Len(s)] = g[end]
  <2> DEFINE n == Len(s)
  <2> HIDE DEF end
  <2>1. n \in Nat /\ end \in 0..n
    BY <1>5, <1>6
  <2>2. \A i \in 0..(n - 1) : i < end /\ f[i] = g[i] => f[i + 1] = g[i + 1]
    BY <1>13
  <2>3. \A i \in 0..(n - 1) : i >= end /\ f[i] = g[end] => f[i + 1] = g[end]
    BY <1>8, <1>12, <1>14
  <2> HIDE DEF n
  <2>4. Follows(f, g, end, n)
    BY <1>9, <2>2, <2>3 DEF Follows
  <2>5. f[n] = g[end]
    <3>1. ASSUME NEW d \in 0..n, Follows(f, g, d, n)
          PROVE  f[n] = g[d]
      BY <2>1, <3>1, TurnsReach, SMTT(30)
    <3> QED
      BY <2>1, <2>4, <3>1, SMTT(30)
  <2> QED
    BY <2>5 DEF n
<1> QED
  BY <1>8, <1>12, <1>15 DEF s, part, rest, bad

-----------------------------------------------------------------------------
(* How far x bytes go *)

\* Some message is the last that is whole.
LEMMA MessagesIn ==
  ASSUME NEW S, NEW parts \in Seq(Seq(S)), NoneEmpty(parts), NEW k \in 0..Len(parts),
         NEW x \in Edge(parts, k)..Len(FlattenSeq(parts))
  PROVE  \E m \in k..Len(parts) : WholeUpTo(parts, m, x)
<1> DEFINE l == Len(parts)
           some == {j \in k..l : Edge(parts, j) <= x}
           m == Max(some)
<1>1. l \in Nat /\ Len(FlattenSeq(parts)) \in Nat /\ \A j \in 0..l : Edge(parts, j) \in Nat
  BY EdgeProperties
<1>2. k \in Nat /\ k \in 0..l /\ x \in Nat /\ Edge(parts, k) <= x /\ x <= Len(FlattenSeq(parts))
  BY <1>1
<1> HIDE DEF l
<1>3. some \in SUBSET (0..l) /\ some # {}
  <2>1. k \in some
    BY <1>1, <1>2
  <2>2. \A j \in some : j \in 0..l
    BY <1>2
  <2> QED
    BY <2>1, <2>2
<1>4. m \in some /\ \A y \in some : y <= m
  <2> HIDE DEF some
  <2> QED
    BY <1>1, <1>3, MaxProperties
<1> HIDE DEF m
<1>5. m \in k..l /\ Edge(parts, m) <= x /\ m \in 0..l
  BY <1>2, <1>4
<1>6. m < l => x < Edge(parts, m + 1)
  <2> SUFFICES ASSUME m < l PROVE x < Edge(parts, m + 1)
    OBVIOUS
  <2>1. m + 1 \in k..l /\ ~(m + 1 <= m) /\ m + 1 \in 0..l
    BY <1>1, <1>2, <1>5
  <2>2. m + 1 \notin some
    BY <1>4, <2>1
  <2>3. ~(Edge(parts, m + 1) <= x) /\ Edge(parts, m + 1) \in Nat
    BY <1>1, <2>1, <2>2
  <2> QED
    BY <1>2, <2>3
<1>7. x \in Edge(parts, m)..Len(FlattenSeq(parts))
  BY <1>1, <1>2, <1>5
<1>8. WholeUpTo(parts, m, x)
  BY <1>5, <1>6, <1>7 DEF WholeUpTo, l
<1> QED
  BY <1>5, <1>8 DEF l

\* And, of packets, the last before which none is odd.
LEMMA PacketsIn ==
  ASSUME NEW script, AllFramed(script), NEW k \in 0..Len(script),
         NEW x \in Edge(script, k)..Len(FlattenSeq(script))
  PROVE  \E m \in k..Len(script) : GoodUpTo(script, k, m, x)
<1> DEFINE l == Len(script)
           some == {j \in k..l : Edge(script, j) <= x /\ \A i \in (k + 1)..j : ~Odd(script[i])}
           m == Max(some)
<1>0. script \in Seq(Seq(Nat)) /\ NoneEmpty(script)
  BY FramedScript
<1>1. l \in Nat /\ Len(FlattenSeq(script)) \in Nat /\ \A j \in 0..l : Edge(script, j) \in Nat
  BY <1>0, EdgeProperties
<1>2. k \in Nat /\ k \in 0..l /\ x \in Nat /\ Edge(script, k) <= x /\ x <= Len(FlattenSeq(script))
  BY <1>1
<1> HIDE DEF l
<1>3. some \in SUBSET (0..l) /\ some # {}
  <2>1. k \in some
    <3>1. k \in k..l /\ \A i \in (k + 1)..k : FALSE
      BY <1>1, <1>2
    <3> QED
      BY <1>2, <3>1
  <2>2. \A j \in some : j \in 0..l
    BY <1>2
  <2> QED
    BY <2>1, <2>2
<1>4. m \in some /\ \A y \in some : y <= m
  <2> HIDE DEF some
  <2> QED
    BY <1>1, <1>3, MaxProperties
<1> HIDE DEF m
<1>5. m \in k..l /\ Edge(script, m) <= x /\ m \in 0..l /\ \A i \in (k + 1)..m : ~Odd(script[i])
  BY <1>2, <1>4
<1>6. m < l => Odd(script[m + 1]) \/ x < Edge(script, m + 1)
  <2> SUFFICES ASSUME m < l, ~Odd(script[m + 1]) PROVE x < Edge(script, m + 1)
    OBVIOUS
  <2>1. m + 1 \in k..l /\ ~(m + 1 <= m) /\ m + 1 \in 0..l
    BY <1>1, <1>2, <1>5
  <2>2. m + 1 \notin some
    BY <1>4, <2>1
  <2>3. \A i \in (k + 1)..(m + 1) : ~Odd(script[i])
    <3> SUFFICES ASSUME NEW i \in (k + 1)..(m + 1) PROVE ~Odd(script[i])
      OBVIOUS
    <3>1. i \in (k + 1)..m \/ i = m + 1
      BY <1>2, <1>5
    <3> QED
      BY <1>5, <3>1
  <2>4. ~(Edge(script, m + 1) <= x) /\ Edge(script, m + 1) \in Nat
    BY <1>1, <2>1, <2>2, <2>3
  <2> QED
    BY <1>2, <2>4
<1>7. x \in Edge(script, m)..Len(FlattenSeq(script))
  BY <1>1, <1>2, <1>5
<1>8. GoodUpTo(script, k, m, x)
  BY <1>5, <1>6, <1>7 DEF GoodUpTo, l
<1> QED
  BY <1>5, <1>8 DEF l

\* The buffer of commands is empty or starts one, so Consume drops nothing.
LEMMA BufferStarts ==
  ASSUME NEW script \in Seq(Command), NEW k \in 0..Len(script),
         NEW x \in Edge(Encoded(script), k)..Len(FlattenSeq(Encoded(script)))
  PROVE  Held(Encoded(script), k, x) = << >> \/ Starts(Held(Encoded(script), k, x))
<1> DEFINE parts == Encoded(script)
           l == Len(script)
           s == Held(parts, k, x)
<1>1. /\ parts \in Seq(Seq(Text)) /\ Len(parts) = l /\ l \in Nat /\ NoneEmpty(parts)
      /\ \A i \in 1..l : script[i] \in Command /\ parts[i] = Encode(script[i])
  BY EncodedProperties
<1> HIDE DEF parts, l
<1>2. k \in 0..l /\ k \in Nat /\ k \in 0..Len(parts) /\ k \in k..Len(parts)
      /\ x \in Edge(parts, k)..Len(FlattenSeq(parts))
  BY <1>1 DEF parts, l
<1>3. x \in Nat /\ Edge(parts, k) \in Nat /\ (x = Edge(parts, k) => s = << >>)
  BY <1>1, <1>2, HeldLength
<1>4. CASE k = l
  <2>1. Edge(parts, l) = Len(FlattenSeq(parts))
    BY <1>1, EdgeProperties
  <2>2. x = Edge(parts, k)
    BY <1>2, <1>3, <1>4, <2>1
  <2> QED
    BY <1>3, <2>2 DEF parts
<1>5. CASE k # l
  <2>1. k \in 0..(Len(parts) - 1) /\ k + 1 \in 1..l /\ k + 1 \in 0..Len(parts)
    BY <1>1, <1>2, <1>5
  <2> DEFINE command == script[k + 1]
             y == x - Edge(parts, k)
  <2>2. command \in Command /\ parts[k + 1] = Encode(command)
    BY <1>1, <2>1
  <2>3. Edge(parts, k + 1) = Edge(parts, k) + Len(parts[k + 1]) /\ Edge(parts, k + 1) \in Nat
    BY <1>1, <2>1, EdgeProperties
  <2> HIDE DEF command
  <2>4. Len(Encode(command)) \in Nat
    BY <2>2, EncodeSymbols, LenProperties
  <2>5. CASE x < Edge(parts, k + 1)
    <3>1. x \in Edge(parts, k)..Edge(parts, k + 1) /\ y \in 0..(Len(Encode(command)) - 1)
      BY <1>2, <1>3, <2>2, <2>3, <2>4, <2>5
    <3>2. s = Piece(Encode(command), 0, y)
      BY <1>1, <2>1, <2>2, <3>1, HeldPart
    <3> HIDE DEF s, y
    <3>3. s = << >> \/ Starts(s)
      BY <2>2, <3>1, <3>2, CommandWaits
    <3> QED
      BY <3>3 DEF s, parts
  <2>6. CASE ~(x < Edge(parts, k + 1))
    <3>1. x \in Edge(parts, k + 1)..Len(FlattenSeq(parts))
      BY <1>2, <1>3, <2>3, <2>6
    <3>2. /\ s = Encode(command) \o Held(parts, k + 1, x)
          /\ Held(parts, k + 1, x) \in Seq(Text)
      BY <1>1, <2>1, <2>2, <3>1, HeldSplits
    <3> HIDE DEF s
    <3>3. Starts(s)
      BY <2>2, <3>2, CommandTaken
    <3> QED
      BY <3>3 DEF s, parts
  <2> QED
    BY <2>5, <2>6
<1> QED
  BY <1>4, <1>5

\* The front of a piece is a piece.
LEMMA PieceOfPiece ==
  ASSUME NEW S, NEW s \in Seq(S), NEW k \in Nat, NEW d \in Nat, k + d <= Len(s), NEW e \in 0..d
  PROVE  /\ SubSeq(Piece(s, k, d), 1, e) = Piece(s, k, e)
         /\ Len(Piece(s, k, d)) = d /\ Len(Piece(s, k, e)) = e
         /\ \A i \in 1..e : Piece(s, k, e)[i] = s[k + i]
         /\ \A i \in 1..d : Piece(s, k, d)[i] = s[k + i]
<1> DEFINE p == Piece(s, k, d)
           q == Piece(s, k, e)
           r == Piece(p, 0, e)
<1>1. e \in Nat /\ k + e <= Len(s) /\ e <= d /\ \A i \in 1..e : i \in 1..d /\ 0 + i = i
  BY LenProperties
<1>2. p \in Seq(S) /\ Len(p) = d /\ \A i \in 1..d : p[i] = s[k + i]
  BY PieceProperties
<1>3. q \in Seq(S) /\ Len(q) = e /\ \A i \in 1..e : q[i] = s[k + i]
  BY <1>1, PieceProperties
<1> HIDE DEF p, q
<1>4. r \in Seq(S) /\ Len(r) = e /\ \A i \in 1..e : r[i] = p[0 + i]
  <2> DEFINE zero == 0
  <2>1. zero + e <= Len(p) /\ zero \in Nat /\ e \in Nat /\ p \in Seq(S)
    BY <1>1, <1>2
  <2> HIDE DEF zero
  <2>2. /\ Piece(p, zero, e) \in Seq(S) /\ Len(Piece(p, zero, e)) = e
        /\ \A i \in 1..e : Piece(p, zero, e)[i] = p[zero + i]
    BY <2>1, PieceProperties
  <2> QED
    BY <2>2 DEF zero
<1>5. r = SubSeq(p, 1, e)
  <2>1. 0 + 1 = 1 /\ 0 + e = e
    BY <1>1
  <2> QED
    BY <2>1 DEF Piece
<1> HIDE DEF r
<1>6. Len(r) = Len(q) /\ \A i \in 1..Len(r) : r[i] = q[i]
  BY <1>1, <1>2, <1>3, <1>4
<1>7. r = q
  BY <1>3, <1>4, <1>6, SeqEqual
<1> QED
  BY <1>2, <1>3, <1>5, <1>7 DEF p, q

LogsOut(protocol, command) == protocol = "profile" /\ Logout(command)

\* dispatch handles the commands up to the first logout, if that counts.
LEMMA LogoutCut ==
  ASSUME NEW protocol, NEW script \in Seq(Command), NEW k \in Nat, NEW d \in Nat, k + d <= Len(script)
  PROVE  \E e \in 0..d :
           /\ UpToLogout(protocol, Piece(script, k, d)) = Piece(script, k, e)
           /\ \A i \in 1..(e - 1) : ~LogsOut(protocol, script[k + i])
           /\ \/ e = d /\ \A i \in 1..e : ~LogsOut(protocol, script[k + i])
              \/ e >= 1 /\ LogsOut(protocol, script[k + e])
<1> DEFINE p == Piece(script, k, d)
           outs == {i \in 1..Len(p) : Logout(p[i])}
           end == Min(outs)
<1>1. d \in 0..d
  OBVIOUS
<1>2. Len(p) = d /\ \A i \in 1..d : p[i] = script[k + i]
  BY <1>1, PieceOfPiece
<1>3. CASE protocol = "profile" /\ outs # {}
  <2>1. UpToLogout(protocol, p) = SubSeq(p, 1, end)
    BY <1>3 DEF UpToLogout
  <2>2. outs \in SUBSET Nat /\ outs # {}
    BY <1>2, <1>3
  <2>3. end \in outs /\ \A y \in outs : end <= y
    <3> HIDE DEF outs
    <3> QED
      BY <2>2, MinProperties
  <2> HIDE DEF end
  <2>4. end \in 1..d /\ Logout(script[k + end]) /\ end \in 0..d /\ end >= 1
    BY <1>2, <2>3
  <2>5. ASSUME NEW i \in 1..(end - 1)
        PROVE  ~Logout(script[k + i])
    <3>1. i \in 1..d /\ ~(end <= i)
      BY <2>4
    <3>2. i \notin outs
      BY <2>3, <3>1
    <3>3. p[i] = script[k + i] /\ i \in 1..Len(p)
      BY <1>2, <3>1
    <3> HIDE DEF p
    <3> QED
      BY <3>2, <3>3
  <2>6. SubSeq(p, 1, end) = Piece(script, k, end)
    BY <2>4, PieceOfPiece
  <2> QED
    BY <1>3, <2>1, <2>4, <2>5, <2>6 DEF LogsOut
<1>4. CASE ~(protocol = "profile" /\ outs # {})
  <2>1. UpToLogout(protocol, p) = p
    BY <1>4 DEF UpToLogout
  <2>2. ASSUME NEW i \in 1..d
        PROVE  ~LogsOut(protocol, script[k + i])
    <3>1. i \in 1..Len(p) /\ p[i] = script[k + i]
      BY <1>2
    <3> HIDE DEF p
    <3> QED
      BY <1>4, <3>1 DEF LogsOut
  <2>3. \A i \in 1..(d - 1) : i \in 1..d
    OBVIOUS
  <2>4. p = Piece(script, k, d)
    OBVIOUS
  <2> HIDE DEF p, outs
  <2> QED
    BY <1>1, <2>1, <2>2, <2>3, <2>4
<1> QED
  BY <1>3, <1>4

\* What a chunk adds to the buffer of commands, and what is found in it.
LEMMA ConsumeReads ==
  ASSUME NEW script \in Seq(Command), NEW k \in 0..Len(script),
         NEW x \in Edge(Encoded(script), k)..Len(FlattenSeq(Encoded(script))),
         NEW n \in Nat, x + n <= Len(FlattenSeq(Encoded(script)))
  PROVE  \E m \in k..Len(script) :
           /\ WholeUpTo(Encoded(script), m, x + n)
           /\ Consume(Held(Encoded(script), k, x), Piece(FlattenSeq(Encoded(script)), x, n))
                = Taken(Piece(script, k, m - k), Held(Encoded(script), m, x + n))
<1> DEFINE parts == Encoded(script)
           flat == FlattenSeq(parts)
           data == Held(parts, k, x + n)
<1>1. parts \in Seq(Seq(Text)) /\ Len(parts) = Len(script) /\ NoneEmpty(parts)
  BY EncodedProperties
<1>2. k \in 0..Len(parts) /\ Edge(parts, k) \in Nat /\ Len(flat) \in Nat
  BY <1>1, EdgeProperties
<1>3. Held(parts, k, x) \o Piece(flat, x, n) = data
  <2>1. x \in Edge(parts, k)..Len(FlattenSeq(parts)) /\ x + n <= Len(FlattenSeq(parts))
    OBVIOUS
  <2> HIDE DEF parts
  <2>2. Held(parts, k, x) \o Piece(FlattenSeq(parts), x, n) = Held(parts, k, x + n)
    <3>1. Growing(parts)
      BY <1>1, HeldGrows
    <3> QED
      BY <1>2, <2>1, <3>1, Zenon DEF Growing
  <2> QED
    BY <2>2
<1>4. x + n \in Edge(parts, k)..Len(flat)
  <2>1. x \in Nat /\ x >= Edge(parts, k)
    BY <1>2
  <2> HIDE DEF flat
  <2> QED
    BY <1>2, <2>1 DEF flat
<1>5. data = << >> \/ Starts(data)
  BY <1>4, BufferStarts
<1>6. PICK m \in k..Len(parts) : WholeUpTo(parts, m, x + n)
  <2> HIDE DEF parts
  <2> QED
    BY <1>1, <1>2, <1>4, MessagesIn
<1>7. ParseGameSpyMessage(data) = Taken(Piece(script, k, m - k), Held(parts, m, x + n))
  BY <1>1, <1>6, CommandsRead
<1> HIDE DEF parts, flat
<1>8. Consume(Held(parts, k, x), Piece(flat, x, n)) = ParseGameSpyMessage(data)
  <2> HIDE DEF data
  <2>1. Consume(Held(parts, k, x), Piece(flat, x, n))
          = IF data = << >> \/ Starts(data) THEN ParseGameSpyMessage(data)
            ELSE IF Find(data, Final) = 0 THEN [commands |-> << >>, remainder |-> << >>]
            ELSE ParseGameSpyMessage(From(data, Find(data, Final) + Len(Final)))
    BY <1>3, Zenon DEF Consume
  <2> QED
    BY <1>5, <2>1
<1> QED
  BY <1>1, <1>6, <1>7, <1>8 DEF parts, flat

-----------------------------------------------------------------------------
(* A connection *)

Conn(state, protocol, script, taken, buffer, done) ==
  [state |-> state, protocol |-> protocol, script |-> script,
   taken |-> taken, buffer |-> buffer, done |-> done]

(* What its client sends, message by message.                              *)
Messages(protocol, script) == IF protocol = "browser" THEN script ELSE Encoded(script)

Alphabet(protocol) == IF protocol = "browser" THEN Nat ELSE Text

\* The messages are those whose bytes the stream joins.
LEMMA MessagesSent ==
  ASSUME NEW protocol, NEW script, WellFramed(protocol, script), NEW c,
         c.protocol = protocol, c.script = script
  PROVE  LET parts == Messages(protocol, script)
         IN  /\ parts \in Seq(Seq(Alphabet(protocol))) /\ NoneEmpty(parts)
             /\ Len(parts) = Len(script) /\ Len(script) \in Nat
             /\ protocol = "browser" => AllFramed(script) /\ parts = script
             /\ protocol # "browser" => script \in Seq(Command) /\ parts = Encoded(script)
             /\ \A k \in 0..Len(script) : Len(Sent(c, k)) = Edge(parts, k)
             /\ Stream(c) = FlattenSeq(parts)
<1> DEFINE parts == Messages(protocol, script)
           l == Len(script)
<1>1. CASE protocol = "browser"
  <2>1. AllFramed(script) /\ parts = script /\ Alphabet(protocol) = Nat
    BY <1>1 DEF WellFramed, AllFramed, Framed, Messages, Alphabet
  <2>2. script \in Seq(Seq(Nat)) /\ l \in Nat
    BY <2>1, LenProperties DEF AllFramed
  <2>3. NoneEmpty(script)
    BY <2>1, FramedScript
  <2>4. parts \in Seq(Seq(Alphabet(protocol))) /\ NoneEmpty(parts) /\ Len(parts) = l /\ l \in Nat
    BY <2>1, <2>2, <2>3
  <2> HIDE DEF parts, l
  <2>5. ASSUME NEW k \in 0..l
        PROVE  Sent(c, k) = Joined(parts, k)
    <3>1. [i \in 1..k |-> IF c.protocol = "browser" THEN c.script[i] ELSE Encode(c.script[i])]
            = [i \in 1..k |-> parts[i]]
      BY <1>1, <2>1
    <3> QED
      BY <3>1 DEF Sent, Joined
  <2>6. l \in 0..l
    BY <2>4
  <2>7. Stream(c) = FlattenSeq(parts)
    <3>1. Stream(c) = Sent(c, l)
      BY DEF Stream, l
    <3>2. Joined(parts, l) = FlattenSeq(parts)
      BY <2>4, JoinedProperties
    <3> QED
      BY <2>5, <2>6, <3>1, <3>2
  <2> QED
    BY <1>1, <2>1, <2>4, <2>5, <2>7 DEF Edge, parts, l
<1>2. CASE protocol # "browser"
  <2>1. script \in Seq(Command) /\ parts = Encoded(script) /\ Alphabet(protocol) = Text
    BY <1>2 DEF WellFramed, Messages, Alphabet
  <2>2. parts \in Seq(Seq(Alphabet(protocol))) /\ NoneEmpty(parts) /\ Len(parts) = l /\ l \in Nat
        /\ \A i \in 1..l : parts[i] = Encode(script[i])
    BY <2>1, EncodedProperties
  <2> HIDE DEF parts, l
  <2>3. ASSUME NEW k \in 0..l
        PROVE  Sent(c, k) = Joined(parts, k)
    <3>1. \A i \in 1..k : i \in 1..l
      BY <2>2
    <3>2. [i \in 1..k |-> IF c.protocol = "browser" THEN c.script[i] ELSE Encode(c.script[i])]
            = [i \in 1..k |-> parts[i]]
      BY <1>2, <2>2, <3>1
    <3> QED
      BY <3>2 DEF Sent, Joined
  <2>4. l \in 0..l
    BY <2>2
  <2>5. Stream(c) = FlattenSeq(parts)
    <3>1. Stream(c) = Sent(c, l)
      BY DEF Stream, l
    <3>2. Joined(parts, l) = FlattenSeq(parts)
      BY <2>2, JoinedProperties
    <3> QED
      BY <2>3, <2>4, <3>1, <3>2
  <2> QED
    BY <1>2, <2>1, <2>2, <2>3, <2>5 DEF Edge, parts, l
<1> QED
  BY <1>1, <1>2

(* The invariant: a connection that is open or was hung up on has handled  *)
(* its first k messages; how far it got with the bytes; and why it ended.  *)
CommandsHandled(state, protocol, script, taken, buffer, k) ==
  LET parts == Encoded(script)
  IN  /\ taken \in Edge(parts, k)..Len(FlattenSeq(parts))
      /\ \A i \in 1..(k - 1) : ~LogsOut(protocol, script[i])
      /\ state = "open" => /\ \A i \in 1..k : ~LogsOut(protocol, script[i])
                           /\ WholeUpTo(parts, k, taken)
                           /\ buffer = Held(parts, k, taken)
      /\ state = "dropped" => k >= 1 /\ LogsOut(protocol, script[k])

PacketsHandled(state, script, taken, buffer, k) ==
  /\ taken \in Edge(script, k)..Len(FlattenSeq(script))
  /\ \A i \in 1..k : ~Odd(script[i])
  /\ state = "open" => /\ GoodUpTo(script, k, k, taken)
                       /\ ~OddAt(script, k, taken)
                       /\ buffer = Held(script, k, taken)
  /\ state = "dropped" => OddAt(script, k, taken) \/ taken - Edge(script, k) > MaxBuffer

Handled(state, protocol, script, taken, buffer, done, k) ==
  /\ done = Piece(script, 0, k)
  /\ IF protocol = "browser" THEN PacketsHandled(state, script, taken, buffer, k)
     ELSE CommandsHandled(state, protocol, script, taken, buffer, k)

Known(c) ==
  /\ c = Conn(c.state, c.protocol, c.script, c.taken, c.buffer, c.done)
  /\ c.state \in {"open", "dropped"}
  /\ WellFramed(c.protocol, c.script)
  /\ \E k \in 0..Len(c.script) :
       Handled(c.state, c.protocol, c.script, c.taken, c.buffer, c.done, k)

ConnOK(c) == c = NoConn \/ c = Ended \/ Known(c)

\* How many messages have arrived: those handled at least, and no more when
\* the next is not whole.
LEMMA WholeProperties ==
  ASSUME NEW c, WellFramed(c.protocol, c.script), NEW k \in 0..Len(c.script),
         c.taken \in Edge(Messages(c.protocol, c.script), k)..Len(FlattenSeq(Messages(c.protocol, c.script)))
  PROVE  LET parts == Messages(c.protocol, c.script)
         IN  /\ Whole(c) \in k..Len(c.script) /\ Whole(c) \in Nat /\ k \in Nat /\ k \in 0..Len(parts)
             /\ Edge(parts, Whole(c)) <= c.taken
             /\ (k < Len(c.script) => c.taken < Edge(parts, k + 1)) => Whole(c) = k
<1> DEFINE parts == Messages(c.protocol, c.script)
           l == Len(c.script)
           x == c.taken
           some == {n \in 0..l : Len(Sent(c, n)) <= x}
<1>1. /\ parts \in Seq(Seq(Alphabet(c.protocol))) /\ NoneEmpty(parts) /\ Len(parts) = l /\ l \in Nat
      /\ \A n \in 0..l : Len(Sent(c, n)) = Edge(parts, n)
  BY MessagesSent
<1>2. x \in Edge(parts, k)..Len(FlattenSeq(parts)) /\ k \in 0..l
  OBVIOUS
<1> HIDE DEF parts, l, x
<1>3. /\ \A n \in 0..l : Edge(parts, n) \in Nat
      /\ \A n \in 0..l : \A j \in n..l : Edge(parts, j) >= Edge(parts, n) + (j - n)
      /\ Len(FlattenSeq(parts)) \in Nat
  BY <1>1, EdgeProperties
<1>4. x \in Nat /\ Edge(parts, k) <= x /\ k \in Nat
  BY <1>2, <1>3
<1>5. some \in SUBSET (0..l) /\ k \in some
  BY <1>1, <1>2, <1>4
<1>6. Max(some) \in some /\ \A y \in some : y <= Max(some)
  <2> HIDE DEF some
  <2> QED
    BY <1>1, <1>5, MaxProperties
<1>7. Whole(c) = Max(some)
  BY DEF Whole, some, l, x
<1> DEFINE w == Max(some)
<1> HIDE DEF w
<1>8. w \in some /\ k <= w
  BY <1>5, <1>6 DEF w
<1>9. w \in k..l /\ w \in 0..l /\ w \in Nat /\ Edge(parts, w) <= x
  BY <1>1, <1>4, <1>8
<1>10. ASSUME k < l => x < Edge(parts, k + 1)
       PROVE  w = k
  <2>1. CASE w # k
    <3>1. k + 1 \in 0..l /\ w \in (k + 1)..l /\ k < l
      BY <1>1, <1>4, <1>9, <2>1
    <3>2. Edge(parts, w) >= Edge(parts, k + 1) + (w - (k + 1)) /\ Edge(parts, k + 1) \in Nat
      BY <1>3, <3>1
    <3>3. w - (k + 1) \in Nat /\ Edge(parts, w) \in Nat
      BY <1>3, <1>4, <1>9, <3>1
    <3>4. Edge(parts, w) >= Edge(parts, k + 1)
      BY <3>2, <3>3
    <3> QED
      BY <1>4, <1>9, <1>10, <3>1, <3>2, <3>3, <3>4
  <2> QED
    BY <2>1
<1> QED
  BY <1>1, <1>2, <1>4, <1>7, <1>9, <1>10 DEF w, parts, l, x

\* A fresh connection has handled nothing.
LEMMA OpenedIsKnown ==
  ASSUME NEW protocol, NEW script, WellFramed(protocol, script)
  PROVE  Known(Opened(protocol, script))
<1> DEFINE c == Opened(protocol, script)
           parts == Messages(protocol, script)
           l == Len(script)
<1>1. c = Conn("open", protocol, script, 0, << >>, << >>)
  BY DEF Opened, Conn
<1>2. /\ c.state = "open" /\ c.protocol = protocol /\ c.script = script /\ c.taken = 0
      /\ c.buffer = << >> /\ c.done = << >>
  BY DEF Opened
<1>3. /\ parts \in Seq(Seq(Alphabet(protocol))) /\ NoneEmpty(parts) /\ Len(parts) = l /\ l \in Nat
      /\ protocol = "browser" => AllFramed(script) /\ parts = script
      /\ protocol # "browser" => script \in Seq(Command) /\ parts = Encoded(script)
  BY <1>2, MessagesSent
<1> HIDE DEF parts, l
<1> DEFINE zero == 0
<1>4. zero \in 0..l /\ zero \in Nat /\ zero \in 0..Len(parts) /\ zero \in zero..Len(parts)
  BY <1>3
<1>5. Edge(parts, zero) = 0 /\ Len(FlattenSeq(parts)) \in Nat
  BY <1>3, EdgeProperties
<1>6. zero \in Edge(parts, zero)..Len(FlattenSeq(parts)) /\ zero = Edge(parts, zero)
  BY <1>5
<1>7. Held(parts, zero, zero) = << >>
  <2> HIDE DEF zero
  <2> QED
    BY <1>3, <1>4, <1>6, HeldLength
<1>8. zero < l => zero < Edge(parts, zero + 1)
  <2> SUFFICES ASSUME zero < l PROVE zero < Edge(parts, zero + 1)
    OBVIOUS
  <2>1. zero \in 0..(Len(parts) - 1) /\ zero + 1 \in 1..Len(parts)
    BY <1>3
  <2>2. Edge(parts, zero + 1) = Edge(parts, zero) + Len(parts[zero + 1])
    <3> HIDE DEF zero
    <3> QED
      BY <1>3, <2>1, EdgeProperties
  <2>3. Len(parts[zero + 1]) >= 1
    BY <1>3, <2>1 DEF NoneEmpty
  <2> QED
    BY <1>5, <2>2, <2>3
<1>9. << >> = Piece(script, 0, zero)
  <2>1. \E S : script \in Seq(S)
    <3>1. CASE protocol = "browser"
      BY <1>3, <3>1 DEF AllFramed
    <3>2. CASE protocol # "browser"
      BY <1>3, <3>2
    <3> QED
      BY <3>1, <3>2
  <2>2. PICK S : script \in Seq(S)
    BY <2>1
  <2>3. zero + zero <= Len(script)
    BY <1>3 DEF l
  <2>4. zero = 0
    OBVIOUS
  <2> HIDE DEF zero
  <2>5. << >> = Piece(script, zero, zero)
    BY <1>4, <2>2, <2>3, <2>4, PieceProperties
  <2> QED
    BY <2>4, <2>5
<1>10. \A i \in 1..(zero - 1) : FALSE
  OBVIOUS
<1>11. \A i \in 1..zero : FALSE
  OBVIOUS
<1>12. CASE protocol = "browser"
  <2>1. ~OddAt(parts, zero, zero)
    <3>1. ~(zero >= Edge(parts, zero) + 2)
      BY <1>5
    <3> QED
      BY <3>1 DEF OddAt
  <2>2. \A i \in (zero + 1)..zero : FALSE
    OBVIOUS
  <2>3. "open" # "dropped"
    OBVIOUS
  <2> HIDE DEF zero
  <2>4. GoodUpTo(parts, zero, zero, zero)
    BY <1>3, <1>6, <1>8, <2>2 DEF GoodUpTo
  <2>5. PacketsHandled("open", script, zero, << >>, zero)
    BY <1>3, <1>6, <1>7, <1>11, <1>12, <2>1, <2>3, <2>4 DEF PacketsHandled
  <2>6. Handled("open", protocol, script, zero, << >>, << >>, zero)
    BY <1>9, <1>12, <2>5 DEF Handled
  <2> QED
    BY <1>1, <1>2, <1>4, <2>6 DEF Known, l, zero
<1>13. CASE protocol # "browser"
  <2>1. "open" # "dropped"
    OBVIOUS
  <2> HIDE DEF zero
  <2>2. WholeUpTo(parts, zero, zero)
    BY <1>3, <1>4, <1>6, <1>8 DEF WholeUpTo
  <2>3. CommandsHandled("open", protocol, script, zero, << >>, zero)
    BY <1>3, <1>6, <1>7, <1>10, <1>11, <1>13, <2>1, <2>2 DEF CommandsHandled
  <2>4. Handled("open", protocol, script, zero, << >>, << >>, zero)
    BY <1>9, <1>13, <2>3 DEF Handled
  <2> QED
    BY <1>1, <1>2, <1>4, <2>4 DEF Known, l, zero
<1> QED
  BY <1>12, <1>13

\* A record that says what Known does.
LEMMA KnownIs ==
  ASSUME NEW state \in {"open", "dropped"}, NEW protocol, NEW script, WellFramed(protocol, script),
         NEW taken, NEW buffer, NEW done, NEW k \in 0..Len(script),
         Handled(state, protocol, script, taken, buffer, done, k)
  PROVE  Known(Conn(state, protocol, script, taken, buffer, done))
<1> DEFINE c == Conn(state, protocol, script, taken, buffer, done)
<1>1. /\ c.state = state /\ c.protocol = protocol /\ c.script = script /\ c.taken = taken
      /\ c.buffer = buffer /\ c.done = done
  BY DEF Conn
<1>2. c = Conn(c.state, c.protocol, c.script, c.taken, c.buffer, c.done)
  BY <1>1
<1> HIDE DEF c
<1>3. Known(c)
  BY <1>1, <1>2 DEF Known
<1> QED
  BY <1>3 DEF c

Changed(c, state, taken, buffer, done) ==
  [c EXCEPT !.buffer = buffer, !.done = done, !.taken = taken, !.state = state]

\* What reading changes.
LEMMA ConnChanges ==
  ASSUME NEW o, NEW p, NEW s, NEW x, NEW b, NEW d, NEW c, c = Conn(o, p, s, x, b, d),
         NEW state, NEW taken, NEW buffer, NEW done
  PROVE  Changed(c, state, taken, buffer, done) = Conn(state, p, s, taken, buffer, done)
<1> DEFINE c1 == [c EXCEPT !.buffer = buffer]
           c2 == [c1 EXCEPT !.done = done]
           c3 == [c2 EXCEPT !.taken = taken]
           c4 == [c3 EXCEPT !.state = state]
<1>1. Changed(c, state, taken, buffer, done) = c4
  BY DEF Changed
<1>2. [Conn(o, p, s, x, b, d) EXCEPT !.buffer = buffer] = Conn(o, p, s, x, buffer, d)
  BY DEF Conn
<1>3. [Conn(o, p, s, x, buffer, d) EXCEPT !.done = done] = Conn(o, p, s, x, buffer, done)
  BY DEF Conn
<1>4. [Conn(o, p, s, x, buffer, done) EXCEPT !.taken = taken] = Conn(o, p, s, taken, buffer, done)
  BY DEF Conn
<1>5. [Conn(o, p, s, taken, buffer, done) EXCEPT !.state = state] = Conn(state, p, s, taken, buffer, done)
  BY DEF Conn
<1>6. c1 = Conn(o, p, s, x, buffer, d)
  BY <1>2
<1> HIDE DEF c1
<1>7. c2 = Conn(o, p, s, x, buffer, done)
  BY <1>3, <1>6
<1> HIDE DEF c2
<1>8. c3 = Conn(o, p, s, taken, buffer, done)
  BY <1>4, <1>7
<1> HIDE DEF c3
<1>9. c4 = Conn(state, p, s, taken, buffer, done)
  BY <1>5, <1>8
<1> HIDE DEF c4
<1> QED
  BY <1>1, <1>9

\* A chunk of commands: those it completes are handled, up to a logout.
LEMMA ReadTextStep ==
  ASSUME NEW c, Known(c), c.state = "open", c.protocol # "browser",
         NEW n \in Nat, c.taken + n <= Len(Stream(c))
  PROVE  Known(ReadText(c, SubSeq(Stream(c), c.taken + 1, c.taken + n)))
<1> DEFINE protocol == c.protocol
           script == c.script
           x == c.taken
           parts == Encoded(script)
           flat == FlattenSeq(parts)
           chunk == SubSeq(Stream(c), c.taken + 1, c.taken + n)
           next == ReadText(c, chunk)
<1> SUFFICES Known(next)
  OBVIOUS
<1>1. /\ c = Conn(c.state, c.protocol, c.script, c.taken, c.buffer, c.done)
      /\ WellFramed(protocol, script)
      /\ \E k \in 0..Len(script) : Handled(c.state, protocol, script, x, c.buffer, c.done, k)
  BY DEF Known
<1>2. PICK k \in 0..Len(script) : Handled("open", protocol, script, x, c.buffer, c.done, k)
  BY <1>1
<1>3. /\ script \in Seq(Command) /\ Len(script) \in Nat /\ Stream(c) = flat
  BY <1>1, MessagesSent
<1>4. /\ c.done = Piece(script, 0, k)
      /\ CommandsHandled("open", protocol, script, x, c.buffer, k)
  BY <1>2, Zenon DEF Handled
<1>5. /\ x \in Edge(parts, k)..Len(flat)
      /\ \A i \in 1..k : ~LogsOut(protocol, script[i])
      /\ c.buffer = Held(parts, k, x)
  BY <1>4 DEF CommandsHandled
<1>6. chunk = Piece(flat, x, n) /\ x + n <= Len(flat)
  BY <1>3 DEF Piece
<1> HIDE DEF chunk
<1>7. PICK m \in k..Len(script) :
        /\ WholeUpTo(parts, m, x + n)
        /\ Consume(c.buffer, chunk) = Taken(Piece(script, k, m - k), Held(parts, m, x + n))
  BY <1>3, <1>5, <1>6, ConsumeReads
<1>8. k \in Nat /\ m \in Nat /\ m - k \in Nat /\ k + (m - k) = m /\ m <= Len(script)
  BY <1>3
<1> DEFINE d == m - k
           now == UpToLogout(protocol, Piece(script, k, d))
<1>9. PICK e \in 0..d :
        /\ now = Piece(script, k, e)
        /\ \A i \in 1..(e - 1) : ~LogsOut(protocol, script[k + i])
        /\ \/ e = d /\ \A i \in 1..e : ~LogsOut(protocol, script[k + i])
           \/ e >= 1 /\ LogsOut(protocol, script[k + e])
  <2>1. d \in Nat /\ k + d <= Len(script) /\ k \in Nat /\ script \in Seq(Command)
    BY <1>3, <1>8
  <2> HIDE DEF d, script, protocol
  <2> QED
    BY <2>1, LogoutCut
<1>10. e \in Nat /\ k + e \in Nat /\ k + e <= m /\ k + e \in 0..Len(script) /\ d \in Nat /\ 0 + k = k
       /\ 0 + k + e <= Len(script) /\ 0 \in Nat
  BY <1>3, <1>8
<1> HIDE DEF d
<1>11. now = Piece(script, k, e) /\ Len(Piece(script, k, e)) = e
       /\ \A i \in 1..e : Piece(script, k, e)[i] = script[k + i]
  <2>1. k + e <= Len(script)
    BY <1>10
  <2> HIDE DEF script, now
  <2>2. Len(Piece(script, k, e)) = e /\ \A i \in 1..e : Piece(script, k, e)[i] = script[k + i]
    BY <1>3, <1>8, <1>10, <2>1, PieceProperties
  <2> QED
    BY <1>9, <2>2
<1>12. c.done \o now = Piece(script, 0, k + e)
  <2>1. Piece(script, 0, k) \o Piece(script, 0 + k, e) = Piece(script, 0, k + e)
    <3> HIDE DEF script
    <3> DEFINE zero == 0
    <3> HIDE DEF zero
    <3>1. zero \in Nat /\ zero + k + e <= Len(script)
      BY <1>10 DEF zero
    <3>2. Adjoining(Command)
      BY Cutting
    <3>3. script \in Seq(Command) /\ k \in Nat /\ e \in Nat
      BY <1>3, <1>8, <1>10
    <3>4. Piece(script, zero, k) \o Piece(script, zero + k, e) = Piece(script, zero, k + e)
      BY <3>1, <3>2, <3>3, Zenon DEF Adjoining
    <3> QED
      BY <3>4 DEF zero
  <2> QED
    BY <1>4, <1>10, <1>11, <2>1
<1> DEFINE out == protocol = "profile" /\ \E i \in 1..Len(now) : Logout(now[i])
           state == IF out THEN "dropped" ELSE "open"
           rest == Held(parts, m, x + n)
           all == Piece(script, 0, k + e)
<1>13. Len(chunk) = n
  <2>1. flat \in Seq(Text) /\ Edge(parts, k) \in Nat /\ Len(flat) \in Nat
    BY <1>3, EncodedProperties, EdgeProperties
  <2>2. x \in Nat
    BY <1>5, <2>1
  <2> QED
    BY <1>6, <2>1, <2>2, PieceProperties
<1>14. next = Conn(state, protocol, script, x + n, rest, all)
  <2>1. /\ Consume(c.buffer, chunk).commands = Piece(script, k, d)
        /\ Consume(c.buffer, chunk).remainder = rest
    BY <1>7 DEF Taken, d
  <2> HIDE DEF rest
  <2>2. next = [c EXCEPT !.buffer = rest, !.done = @ \o now, !.taken = @ + n, !.state = state]
    BY <1>13, <2>1 DEF ReadText
  <2> HIDE DEF state, now, all
  <2>3. c.done \o now = all
    BY <1>12 DEF all
  <2> DEFINE longer == c.done \o now
             more == c.taken + n
  <2>4. next = Changed(c, state, more, rest, longer)
    BY <2>2 DEF Changed
  <2>5. more = x + n /\ longer = all
    BY <2>3
  <2> DEFINE was == c.state
             held == c.buffer
             before == c.done
  <2>6. c = Conn(was, protocol, script, x, held, before)
    BY <1>1
  <2> HIDE DEF longer, more, next, was, held, before, protocol, script, x
  <2>7. Changed(c, state, more, rest, longer) = Conn(state, protocol, script, more, rest, longer)
    BY <2>6, ConnChanges
  <2> QED
    BY <2>4, <2>5, <2>7
<1>15. out <=> \E i \in 1..e : LogsOut(protocol, script[k + i])
  BY <1>11 DEF LogsOut
<1>16. x + n \in Edge(parts, k + e)..Len(flat)
  <2>1. parts \in Seq(Seq(Text)) /\ NoneEmpty(parts) /\ Len(parts) = Len(script)
    BY <1>3, EncodedProperties
  <2>2. x + n \in Edge(parts, m)..Len(flat)
    BY <1>7 DEF WholeUpTo
  <2> HIDE DEF parts, script
  <2>3. m \in (k + e)..Len(parts) /\ k + e \in 0..Len(parts) /\ m - (k + e) \in Nat /\ m \in 0..Len(parts)
    BY <1>3, <1>8, <1>10, <2>1
  <2>4. Edge(parts, m) >= Edge(parts, k + e) + (m - (k + e)) /\ Edge(parts, k + e) \in Nat
        /\ Edge(parts, m) \in Nat
    BY <2>1, <2>3, EdgeProperties
  <2>5. Len(flat) \in Nat
    BY <2>1, EdgeProperties
  <2> HIDE DEF flat
  <2> QED
    BY <2>2, <2>3, <2>4, <2>5
<1>17. \A i \in 1..((k + e) - 1) : ~LogsOut(protocol, script[i])
  <2> SUFFICES ASSUME NEW i \in 1..((k + e) - 1) PROVE ~LogsOut(protocol, script[i])
    OBVIOUS
  <2>1. CASE i <= k
    BY <1>5, <1>8, <2>1
  <2>2. CASE ~(i <= k)
    <3>1. i - k \in 1..(e - 1) /\ k + (i - k) = i
      BY <1>8, <1>10, <2>2
    <3> QED
      BY <1>9, <3>1
  <2> QED
    BY <2>1, <2>2
<1> HIDE DEF protocol, script, x, now, rest, all, flat, parts, next
<1>18. CASE e = d /\ \A i \in 1..e : ~LogsOut(protocol, script[k + i])
  <2>1. state = "open" /\ k + e = m
    BY <1>8, <1>15, <1>18 DEF d
  <2>2. \A i \in 1..(k + e) : ~LogsOut(protocol, script[i])
    <3> SUFFICES ASSUME NEW i \in 1..(k + e) PROVE ~LogsOut(protocol, script[i])
      OBVIOUS
    <3>1. CASE i <= k
      BY <1>5, <1>8, <3>1
    <3>2. CASE ~(i <= k)
      <4>1. i - k \in 1..e /\ k + (i - k) = i
        BY <1>8, <1>10, <3>2
      <4> QED
        BY <1>18, <4>1
    <3> QED
      BY <3>1, <3>2
  <2>3. CommandsHandled("open", protocol, script, x + n, rest, k + e)
    <3>1. WholeUpTo(parts, k + e, x + n) /\ rest = Held(parts, k + e, x + n)
      BY <1>7, <2>1 DEF rest
    <3>2. "open" # "dropped"
      OBVIOUS
    <3> QED
      BY <1>16, <1>17, <2>2, <3>1, <3>2, Zenon DEF CommandsHandled, parts, flat
  <2> QED
    <3>1. Handled("open", protocol, script, x + n, rest, all, k + e)
      BY <2>3 DEF Handled, all, protocol
    <3> HIDE DEF state
    <3>2. next = Conn("open", protocol, script, x + n, rest, all)
      BY <1>14, <2>1
    <3> QED
      BY <1>1, <1>10, <3>1, <3>2, KnownIs
<1>19. CASE e >= 1 /\ LogsOut(protocol, script[k + e])
  <2>1. state = "dropped"
    <3>1. e \in 1..e
      BY <1>10, <1>19
    <3> QED
      BY <1>15, <1>19, <3>1
  <2>2. CommandsHandled("dropped", protocol, script, x + n, rest, k + e)
    <3>1. k + e >= 1
      BY <1>8, <1>10, <1>19
    <3>2. "open" # "dropped"
      OBVIOUS
    <3> QED
      BY <1>16, <1>17, <1>19, <3>1, <3>2, Zenon DEF CommandsHandled, parts, flat
  <2> QED
    <3>1. Handled("dropped", protocol, script, x + n, rest, all, k + e)
      BY <2>2 DEF Handled, all, protocol
    <3> HIDE DEF state
    <3>2. next = Conn("dropped", protocol, script, x + n, rest, all)
      BY <1>14, <2>1
    <3> QED
      BY <1>1, <1>10, <3>1, <3>2, KnownIs
<1> QED
  BY <1>9, <1>18, <1>19

(* The packets from the k-th on were taken up to the m-th, of x bytes, and *)
(* there the server waits or gives up.                                     *)
PacketsTaken(script, k, m, x, rest, open) ==
  /\ x \in Edge(script, m)..Len(FlattenSeq(script))
  /\ \A i \in (k + 1)..m : ~Odd(script[i])
  /\ IF open
     THEN /\ GoodUpTo(script, m, m, x) /\ ~OddAt(script, m, x)
          /\ rest = Held(script, m, x)
     ELSE OddAt(script, m, x) \/ x - Edge(script, m) > MaxBuffer

\* What a chunk adds to the buffer of packets, and what dispatch makes of it.
LEMMA DispatchReads ==
  ASSUME NEW script, AllFramed(script), NEW k \in 0..Len(script),
         NEW x \in Edge(script, k)..Len(FlattenSeq(script)),
         NEW n \in Nat, x + n <= Len(FlattenSeq(script))
  PROVE  \E m \in k..Len(script), open \in BOOLEAN : \E rest :
           /\ PacketsTaken(script, k, m, x + n, rest, open)
           /\ Dispatch(Held(script, k, x), Piece(FlattenSeq(script), x, n))
                = Got(Piece(script, k, m - k), rest, open)
<1> DEFINE flat == FlattenSeq(script)
           data == Held(script, k, x + n)
           y == x + n
           l == Len(script)
<1>1. script \in Seq(Seq(Nat)) /\ l \in Nat /\ NoneEmpty(script)
  BY FramedScript
<1>2. Edge(script, k) \in Nat /\ Len(flat) \in Nat
  BY <1>1, EdgeProperties
<1>3. Held(script, k, x) \o Piece(flat, x, n) = data
  <2>1. Growing(script)
    BY <1>1, HeldGrows
  <2> QED
    BY <2>1, Zenon DEF Growing
<1>4. y \in Edge(script, k)..Len(flat) /\ k \in Nat
  <2>1. x \in Nat /\ x >= Edge(script, k) /\ k \in Nat
    BY <1>1, <1>2
  <2> HIDE DEF flat
  <2> QED
    BY <1>2, <2>1 DEF flat
<1>5. Len(data) = y - Edge(script, k)
  <2>1. k \in k..l /\ k \in 0..l
    BY <1>1, <1>4
  <2> QED
    BY <1>1, <1>4, <2>1, HeldLength
<1> DEFINE found == Dispatch(Held(script, k, x), Piece(flat, x, n))
<1>6. found = IF Len(data) > MaxBuffer THEN [packets |-> << >>, rest |-> data, open |-> FALSE]
              ELSE Packets(data)
  <2> HIDE DEF data
  <2> QED
    BY <1>3, Zenon DEF Dispatch
<1> HIDE DEF found, data, y
<1>7. CASE Len(data) > MaxBuffer
  <2>1. found = Got(<< >>, data, FALSE)
    BY <1>6, <1>7 DEF Got
  <2>2. << >> = Piece(script, k, k - k)
    <3>1. k - k \in Nat /\ k + (k - k) <= Len(script) /\ k - k = 0
      BY <1>1, <1>4
    <3> QED
      BY <1>1, <1>4, <3>1, PieceProperties
  <2>3. y - Edge(script, k) > MaxBuffer
    BY <1>5, <1>7
  <2>4. \A i \in (k + 1)..k : ~Odd(script[i])
    BY <1>4
  <2>5. PacketsTaken(script, k, k, y, data, FALSE)
    BY <1>4, <2>3, <2>4 DEF PacketsTaken
  <2>6. k \in k..l /\ FALSE \in BOOLEAN
    BY <1>1, <1>4
  <2>7. found = Got(Piece(script, k, k - k), data, FALSE)
    BY <2>1, <2>2
  <2> QED
    BY <2>5, <2>6, <2>7 DEF found, flat, y
<1>8. CASE ~(Len(data) > MaxBuffer)
  <2>1. PICK m \in k..l : GoodUpTo(script, k, m, y)
    BY <1>4, PacketsIn
  <2> DEFINE open == ~OddAt(script, m, y)
             rest == Held(script, m, y)
  <2>2. found = Got(Piece(script, k, m - k), rest, open)
    <3>1. Packets(data) = Got(Piece(script, k, m - k), rest, open)
      BY <2>1, PacketsRead DEF data, y
    <3> QED
      BY <1>6, <1>8, <3>1
  <2>3. /\ y \in Edge(script, m)..Len(FlattenSeq(script))
        /\ \A i \in (k + 1)..m : ~Odd(script[i])
        /\ m < l => Odd(script[m + 1]) \/ y < Edge(script, m + 1)
    BY <2>1 DEF GoodUpTo
  <2>4. \A i \in (m + 1)..m : ~Odd(script[i])
    BY <1>1, <1>4
  <2>5. GoodUpTo(script, m, m, y)
    BY <2>3, <2>4 DEF GoodUpTo
  <2>6. PacketsTaken(script, k, m, y, rest, open) /\ open \in BOOLEAN
    BY <2>3, <2>5 DEF PacketsTaken, OddAt
  <2> HIDE DEF open, rest
  <2> QED
    BY <2>1, <2>2, <2>6 DEF found, flat, y
<1> QED
  BY <1>7, <1>8

\* A chunk of packets: the whole ones are handled, up to an odd length.
LEMMA ReadPacketsStep ==
  ASSUME NEW c, Known(c), c.state = "open", c.protocol = "browser",
         NEW n \in Nat, c.taken + n <= Len(Stream(c))
  PROVE  Known(ReadPackets(c, SubSeq(Stream(c), c.taken + 1, c.taken + n)))
<1> DEFINE protocol == c.protocol
           script == c.script
           x == c.taken
           flat == FlattenSeq(script)
           chunk == SubSeq(Stream(c), c.taken + 1, c.taken + n)
           next == ReadPackets(c, chunk)
<1> SUFFICES Known(next)
  OBVIOUS
<1>1. /\ c = Conn(c.state, c.protocol, c.script, c.taken, c.buffer, c.done)
      /\ WellFramed(protocol, script)
      /\ \E k \in 0..Len(script) : Handled(c.state, protocol, script, x, c.buffer, c.done, k)
  BY DEF Known
<1>2. PICK k \in 0..Len(script) : Handled("open", protocol, script, x, c.buffer, c.done, k)
  BY <1>1
<1>3. AllFramed(script) /\ Len(script) \in Nat /\ Stream(c) = flat
  BY <1>1, MessagesSent
<1>4. script \in Seq(Seq(Nat)) /\ NoneEmpty(script)
  <2> HIDE DEF script
  <2> QED
    BY <1>3, FramedScript
<1>5. /\ c.done = Piece(script, 0, k)
      /\ PacketsHandled("open", script, x, c.buffer, k)
  BY <1>2, Zenon DEF Handled
<1>6. /\ x \in Edge(script, k)..Len(flat)
      /\ \A i \in 1..k : ~Odd(script[i])
      /\ c.buffer = Held(script, k, x)
  BY <1>5 DEF PacketsHandled
<1>7. chunk = Piece(flat, x, n) /\ x + n <= Len(flat)
  BY <1>3 DEF Piece
<1> HIDE DEF chunk
<1>8. \E m \in k..Len(script), open \in BOOLEAN : \E rest :
        /\ PacketsTaken(script, k, m, x + n, rest, open)
        /\ Dispatch(c.buffer, chunk) = Got(Piece(script, k, m - k), rest, open)
  BY <1>3, <1>6, <1>7, DispatchReads
<1>9. PICK m \in k..Len(script), open \in BOOLEAN : \E rest :
        /\ PacketsTaken(script, k, m, x + n, rest, open)
        /\ Dispatch(c.buffer, chunk) = Got(Piece(script, k, m - k), rest, open)
  BY <1>8
<1>10. PICK rest :
        /\ PacketsTaken(script, k, m, x + n, rest, open)
        /\ Dispatch(c.buffer, chunk) = Got(Piece(script, k, m - k), rest, open)
  BY <1>9
<1>11. k \in Nat /\ m \in Nat /\ m - k \in Nat /\ k + (m - k) = m /\ m <= Len(script)
       /\ m \in 0..Len(script) /\ 0 + k = k /\ 0 + k + (m - k) <= Len(script)
  BY <1>3
<1> DEFINE d == m - k
           now == Piece(script, k, d)
           all == Piece(script, 0, m)
           state == IF open THEN "open" ELSE "dropped"
<1>12. c.done \o now = all
  <2> HIDE DEF script
  <2> DEFINE zero == 0
  <2>1. zero \in Nat /\ zero + k + d <= Len(script) /\ k \in Nat /\ d \in Nat /\ zero + k = k /\ k + d = m
    BY <1>11
  <2> HIDE DEF zero, d
  <2>2. Adjoining(Seq(Nat))
    BY Cutting
  <2>3. Piece(script, zero, k) \o Piece(script, zero + k, d) = Piece(script, zero, k + d)
    BY <1>4, <2>1, <2>2, Zenon DEF Adjoining
  <2> QED
    BY <1>5, <2>1, <2>3 DEF zero
<1>13. Len(chunk) = n
  <2>1. flat \in Seq(Nat) /\ Edge(script, k) \in Nat /\ Len(flat) \in Nat
    BY <1>4, EdgeProperties
  <2>2. x \in Nat
    BY <1>6, <2>1
  <2> QED
    BY <1>7, <2>1, <2>2, PieceProperties
<1>14. next = Conn(state, protocol, script, x + n, rest, all)
  <2>1. LET found == Dispatch(c.buffer, chunk)
        IN  found.rest = rest /\ found.packets = now /\ found.open = open
    BY <1>10 DEF Got
  <2>2. next = [c EXCEPT !.buffer = rest, !.done = @ \o now, !.taken = @ + n, !.state = state]
    BY <1>13, <2>1 DEF ReadPackets
  <2> HIDE DEF state, now, all
  <2>3. c.done \o now = all
    BY <1>12 DEF all
  <2> DEFINE longer == c.done \o now
             more == c.taken + n
  <2>4. next = Changed(c, state, more, rest, longer)
    BY <2>2 DEF Changed
  <2>5. more = x + n /\ longer = all
    BY <2>3
  <2> DEFINE was == c.state
             held == c.buffer
             before == c.done
  <2>6. c = Conn(was, protocol, script, x, held, before)
    BY <1>1
  <2> HIDE DEF longer, more, next, was, held, before, protocol, script, x
  <2>7. Changed(c, state, more, rest, longer) = Conn(state, protocol, script, more, rest, longer)
    BY <2>6, ConnChanges
  <2> QED
    BY <2>4, <2>5, <2>7
<1>15. \A i \in 1..m : ~Odd(script[i])
  <2> SUFFICES ASSUME NEW i \in 1..m PROVE ~Odd(script[i])
    OBVIOUS
  <2>1. \A j \in (k + 1)..m : ~Odd(script[j])
    BY <1>10 DEF PacketsTaken
  <2>2. CASE i <= k
    BY <1>6, <1>11, <2>2
  <2>3. CASE ~(i <= k)
    <3>1. i \in (k + 1)..m
      BY <1>11, <2>3
    <3> QED
      BY <2>1, <3>1
  <2> QED
    BY <2>2, <2>3
<1>16. x + n \in Edge(script, m)..Len(FlattenSeq(script))
  BY <1>10 DEF PacketsTaken
<1>17. PacketsHandled(state, script, x + n, rest, m) /\ state \in {"open", "dropped"}
  <2>1. CASE open
    <3>1. /\ GoodUpTo(script, m, m, x + n) /\ ~OddAt(script, m, x + n)
          /\ rest = Held(script, m, x + n)
      BY <1>10, <2>1 DEF PacketsTaken
    <3>2. state = "open" /\ "open" # "dropped"
      BY <2>1
    <3> QED
      BY <1>15, <1>16, <3>1, <3>2 DEF PacketsHandled
  <2>2. CASE ~open
    <3>1. OddAt(script, m, x + n) \/ (x + n) - Edge(script, m) > MaxBuffer
      BY <1>10, <2>2 DEF PacketsTaken
    <3>2. state = "dropped" /\ "open" # "dropped"
      BY <2>2
    <3> QED
      BY <1>15, <1>16, <3>1, <3>2 DEF PacketsHandled
  <2> QED
    BY <2>1, <2>2
<1>18. Handled(state, protocol, script, x + n, rest, all, m)
  BY <1>17 DEF Handled
<1> HIDE DEF next, state, protocol, script, x, all
<1> QED
  BY <1>1, <1>11, <1>14, <1>17, <1>18, KnownIs

(* What the two properties say of a connection that is open or dropped.    *)
HandledAsSent(c) ==
  /\ IsPrefix(c.done, Due(c))
  /\ c.done = Due(c) \/ (c.protocol = "browser" /\ c.state = "dropped")

LoggedOut(c) == c.protocol = "profile" /\ c.done # << >> /\ Logout(Last(c.done))

Backlog(c) == c.protocol = "browser" /\ c.taken - Len(Sent(c, Len(c.done))) > MaxBuffer

HungUpForCause(c) ==
  /\ c.state = "dropped" => LoggedOut(c) \/ BadFront(c) \/ Backlog(c)
  /\ c.state = "open" => ~LoggedOut(c) /\ ~BadFront(c)

\* The first k messages, as they are handled.
LEMMA DoneProperties ==
  ASSUME NEW S, NEW script \in Seq(S), NEW k \in 0..Len(script), NEW done, done = Piece(script, 0, k)
  PROVE  /\ Len(done) = k /\ k \in Nat /\ done = SubSeq(script, 1, k)
         /\ IsPrefix(done, done)
         /\ \A j \in k..Len(script) : IsPrefix(done, SubSeq(script, 1, j))
         /\ done # << >> <=> k >= 1
         /\ k >= 1 => Last(done) = script[k]
<1>1. Len(script) \in Nat /\ k \in Nat /\ 0 \in Nat
  BY LenProperties
<1> DEFINE zero == 0
<1>2. zero \in Nat
  OBVIOUS
<1>0. zero = 0
  OBVIOUS
<1> HIDE DEF zero
<1>3. ASSUME NEW j \in k..Len(script)
      PROVE  /\ Len(done) = k /\ SubSeq(script, 1, j) = Piece(script, 0, j) /\ Len(SubSeq(script, 1, j)) = j
             /\ SubSeq(SubSeq(script, 1, j), 1, k) = done
             /\ \A i \in 1..k : done[i] = script[i]
  <2>1. j \in Nat /\ zero + j <= Len(script) /\ k \in 0..j /\ j \in 0..Len(script)
    BY <1>0, <1>1
  <2>2. /\ SubSeq(Piece(script, zero, j), 1, k) = Piece(script, zero, k)
        /\ Len(Piece(script, zero, j)) = j /\ Len(Piece(script, zero, k)) = k
        /\ \A i \in 1..k : Piece(script, zero, k)[i] = script[zero + i]
    BY <1>2, <2>1, PieceOfPiece
  <2>3. Piece(script, 0, j) = SubSeq(script, 1, j)
    BY <2>1, WholePiece
  <2>4. \A i \in 1..k : zero + i = i
    BY <1>0, <1>1
  <2> QED
    BY <1>0, <2>2, <2>3, <2>4
<1>4. k \in k..Len(script)
  BY <1>1
<1>5. Len(done) = k /\ done = SubSeq(script, 1, k) /\ \A i \in 1..k : done[i] = script[i]
  BY <1>3, <1>4
<1>6. ASSUME NEW j \in k..Len(script)
      PROVE  IsPrefix(done, SubSeq(script, 1, j))
  <2>1. k <= j
    BY <1>1
  <2>2. SubSeq(done, 1, k) = done
    BY <1>3, <1>4, <1>5
  <2> QED
    BY <1>3, <1>5, <2>1, <2>2 DEF IsPrefix
<1>7. IsPrefix(done, done)
  BY <1>4, <1>5, <1>6
<1>8. done # << >> <=> k >= 1
  <2>1. done \in Seq(S)
    BY <1>1, PieceProperties
  <2>2. Len(done) = 0 <=> done = << >>
    BY <2>1, EmptySeq
  <2> QED
    BY <1>1, <1>5, <2>2
<1>9. k >= 1 => Last(done) = script[k]
  <2>1. k >= 1 => k \in 1..k
    BY <1>1
  <2> QED
    BY <1>5, <2>1 DEF Last
<1> QED
  BY <1>1, <1>5, <1>6, <1>7, <1>8, <1>9

\* The commands handled are those that have come, up to a logout.
LEMMA TextMeans ==
  ASSUME NEW c, Known(c), c.protocol # "browser"
  PROVE  HandledAsSent(c) /\ HungUpForCause(c)
<1> DEFINE protocol == c.protocol
           script == c.script
           x == c.taken
           parts == Encoded(script)
           w == Whole(c)
           ends == {n \in 1..w : Ends(c, n)}
<1>1. c.state \in {"open", "dropped"} /\ WellFramed(protocol, script)
  BY DEF Known
<1>2. PICK k \in 0..Len(script) : Handled(c.state, protocol, script, x, c.buffer, c.done, k)
  BY DEF Known
<1>3. /\ script \in Seq(Command) /\ Len(script) \in Nat /\ Messages(protocol, script) = parts
  BY <1>1, MessagesSent
<1>4. /\ c.done = Piece(script, 0, k)
      /\ CommandsHandled(c.state, protocol, script, x, c.buffer, k)
  BY <1>2, Zenon DEF Handled
<1>5. /\ x \in Edge(parts, k)..Len(FlattenSeq(parts))
      /\ \A i \in 1..(k - 1) : ~LogsOut(protocol, script[i])
      /\ c.state = "open" => /\ \A i \in 1..k : ~LogsOut(protocol, script[i])
                             /\ WholeUpTo(parts, k, x)
      /\ c.state = "dropped" => k >= 1 /\ LogsOut(protocol, script[k])
  BY <1>4 DEF CommandsHandled
<1>6. /\ w \in k..Len(script) /\ w \in Nat /\ k \in Nat
      /\ (k < Len(script) => x < Edge(parts, k + 1)) => w = k
  BY <1>1, <1>3, <1>5, WholeProperties
<1>7. /\ c.done = SubSeq(script, 1, k) /\ IsPrefix(c.done, c.done)
      /\ c.done # << >> <=> k >= 1
      /\ k >= 1 => Last(c.done) = script[k]
  BY <1>3, <1>4, DoneProperties
<1>8. \A n : ~Malformed(c, n) /\ (Ends(c, n) <=> LogsOut(protocol, script[n]))
  BY DEF Malformed, Ends, LogsOut
<1>9. Due(c) = IF ends = {} THEN SubSeq(script, 1, w)
               ELSE SubSeq(script, 1, IF Malformed(c, Min(ends)) THEN Min(ends) - 1 ELSE Min(ends))
  BY DEF Due
<1> HIDE DEF script, x, parts, w
<1>10. CASE c.state = "open"
  <2>1. w = k
    <3>1. k < Len(parts) => x < Edge(parts, k + 1)
      BY <1>5, <1>10 DEF WholeUpTo
    <3>2. Len(parts) = Len(script)
      BY <1>3, EncodedProperties DEF parts
    <3> QED
      BY <1>6, <3>1, <3>2
  <2>2. ends = {}
    BY <1>5, <1>8, <1>10, <2>1
  <2>3. c.done = Due(c)
    BY <1>7, <1>9, <2>1, <2>2
  <2>4. ~LoggedOut(c)
    <3>1. k >= 1 => k \in 1..k
      BY <1>6
    <3> QED
      BY <1>5, <1>7, <1>10, <3>1 DEF LoggedOut, LogsOut
  <2>5. ~BadFront(c)
    BY <1>8 DEF BadFront
  <2>6. c.state # "dropped"
    BY <1>10
  <2> QED
    BY <1>7, <2>3, <2>4, <2>5, <2>6 DEF HandledAsSent, HungUpForCause
<1>11. CASE c.state = "dropped"
  <2>1. k \in ends
    BY <1>5, <1>6, <1>8, <1>11
  <2>2. ends \in SUBSET Nat
    OBVIOUS
  <2>3. Min(ends) \in ends /\ Min(ends) <= k
    <3> HIDE DEF ends
    <3> QED
      BY <2>1, <2>2, MinProperties
  <2>4. Min(ends) = k
    <3> DEFINE e == Min(ends)
    <3>1. e \in 1..w /\ LogsOut(protocol, script[e])
      BY <1>8, <2>3
    <3> HIDE DEF e
    <3>2. ~(e \in 1..(k - 1))
      BY <1>5, <3>1
    <3>3. e <= k
      BY <2>3 DEF e
    <3>4. e = k
      BY <1>6, <3>1, <3>2, <3>3
    <3> QED
      BY <3>4 DEF e
  <2>5. c.done = Due(c)
    <3> HIDE DEF ends
    <3> QED
      BY <1>7, <1>8, <1>9, <2>1, <2>4
  <2>6. LoggedOut(c)
    BY <1>5, <1>7, <1>11 DEF LoggedOut, LogsOut
  <2>7. c.state # "open"
    BY <1>11
  <2> QED
    BY <1>7, <2>5, <2>6, <2>7 DEF HandledAsSent, HungUpForCause
<1> QED
  BY <1>1, <1>10, <1>11

\* The packets handled are those that have come, up to an odd length; fewer
\* only when too many waited.
LEMMA PacketsMean ==
  ASSUME NEW c, Known(c), c.protocol = "browser"
  PROVE  HandledAsSent(c) /\ HungUpForCause(c)
<1> DEFINE protocol == c.protocol
           script == c.script
           x == c.taken
           w == Whole(c)
           ends == {n \in 1..w : Ends(c, n)}
<1>1. c.state \in {"open", "dropped"} /\ WellFramed(protocol, script)
  BY DEF Known
<1>2. PICK k \in 0..Len(script) : Handled(c.state, protocol, script, x, c.buffer, c.done, k)
  BY DEF Known
<1>3. /\ AllFramed(script) /\ Len(script) \in Nat /\ Messages(protocol, script) = script
      /\ Len(Sent(c, k)) = Edge(script, k)
  BY <1>1, MessagesSent
<1>4. script \in Seq(Seq(Nat)) /\ NoneEmpty(script) /\ \A i \in 1..Len(script) : Framed(script[i])
  <2> HIDE DEF script
  <2> QED
    BY <1>3, FramedScript
<1>5. /\ c.done = Piece(script, 0, k)
      /\ PacketsHandled(c.state, script, x, c.buffer, k)
  BY <1>2, Zenon DEF Handled
<1>6. /\ x \in Edge(script, k)..Len(FlattenSeq(script))
      /\ \A i \in 1..k : ~Odd(script[i])
      /\ c.state = "open" => GoodUpTo(script, k, k, x) /\ ~OddAt(script, k, x)
      /\ c.state = "dropped" => OddAt(script, k, x) \/ x - Edge(script, k) > MaxBuffer
  BY <1>5 DEF PacketsHandled
<1>7. /\ w \in k..Len(script) /\ w \in Nat /\ k \in Nat
      /\ (k < Len(script) => x < Edge(script, k + 1)) => w = k
  BY <1>1, <1>3, <1>6, WholeProperties
<1>8. /\ Len(c.done) = k /\ c.done = SubSeq(script, 1, k) /\ IsPrefix(c.done, c.done)
      /\ \A j \in k..Len(script) : IsPrefix(c.done, SubSeq(script, 1, j))
  BY <1>4, <1>5, DoneProperties
<1>9. \A n : (Malformed(c, n) <=> Odd(script[n])) /\ (Ends(c, n) <=> Odd(script[n]))
  BY DEF Malformed, Ends, Odd
<1>10. Due(c) = IF ends = {} THEN SubSeq(script, 1, w)
                ELSE SubSeq(script, 1, IF Malformed(c, Min(ends)) THEN Min(ends) - 1 ELSE Min(ends))
  BY DEF Due
<1>11. BadFront(c) <=> OddAt(script, k, x)
  BY <1>3, <1>8, <1>9 DEF BadFront, OddAt
<1>12. Backlog(c) <=> x - Edge(script, k) > MaxBuffer
  BY <1>3, <1>8 DEF Backlog
<1>13. ~LoggedOut(c)
  BY DEF LoggedOut
<1> HIDE DEF script, x, w
<1>14. CASE c.state = "open"
  <2>1. k < Len(script) => x < Edge(script, k + 1)
    <3> SUFFICES ASSUME k < Len(script) PROVE x < Edge(script, k + 1)
      OBVIOUS
    <3>1. CASE Odd(script[k + 1])
      <4>1. ~(x >= Edge(script, k) + 2)
        BY <1>6, <1>14, <3>1 DEF OddAt
      <4>2. k \in 0..(Len(script) - 1) /\ k + 1 \in 1..Len(script) /\ k \in 0..Len(script)
        BY <1>3, <1>7
      <4>3. Edge(script, k + 1) = Edge(script, k) + Len(script[k + 1]) /\ Edge(script, k) \in Nat
            /\ Len(FlattenSeq(script)) \in Nat
        BY <1>4, <4>2, EdgeProperties
      <4>4. Len(script[k + 1]) >= 2 /\ Len(script[k + 1]) \in Nat
        BY <1>4, <4>2, FramedProperties
      <4>5. x \in Nat
        BY <1>6, <4>3
      <4> QED
        BY <4>1, <4>3, <4>4, <4>5
    <3>2. CASE ~Odd(script[k + 1])
      BY <1>6, <1>14, <3>2 DEF GoodUpTo
    <3> QED
      BY <3>1, <3>2
  <2>2. w = k
    BY <1>7, <2>1
  <2>3. ends = {}
    BY <1>6, <1>9, <2>2
  <2>4. c.done = Due(c)
    BY <1>8, <1>10, <2>2, <2>3
  <2>5. ~BadFront(c) /\ c.state # "dropped"
    BY <1>6, <1>11, <1>14
  <2> QED
    BY <1>8, <1>13, <2>4, <2>5 DEF HandledAsSent, HungUpForCause
<1>15. CASE c.state = "dropped"
  <2>1. \E j \in k..Len(script) : Due(c) = SubSeq(script, 1, j)
    <3>1. CASE ends = {}
      BY <1>7, <1>10, <3>1
    <3>2. CASE ends # {}
      <4>1. ends \in SUBSET Nat
        OBVIOUS
      <4>2. Min(ends) \in ends
        <5> HIDE DEF ends
        <5> QED
          BY <3>2, <4>1, MinProperties
      <4> DEFINE e == Min(ends)
      <4>3. e \in 1..w /\ Odd(script[e])
        BY <1>9, <4>2
      <4>4. Due(c) = SubSeq(script, 1, e - 1)
        BY <1>9, <1>10, <3>2, <4>3
      <4> HIDE DEF e
      <4>5. ~(e \in 1..k)
        BY <1>6, <4>3
      <4>6. e - 1 \in k..Len(script)
        BY <1>3, <1>7, <4>3, <4>5
      <4> QED
        BY <4>4, <4>6
    <3> QED
      BY <3>1, <3>2
  <2>2. IsPrefix(c.done, Due(c))
    BY <1>8, <2>1
  <2>3. BadFront(c) \/ Backlog(c)
    BY <1>6, <1>11, <1>12, <1>15
  <2>4. c.state # "open"
    BY <1>15
  <2> QED
    BY <1>15, <2>2, <2>3, <2>4 DEF HandledAsSent, HungUpForCause
<1> QED
  BY <1>1, <1>14, <1>15

-----------------------------------------------------------------------------
(* Every connection to a TCP service *)

ConnInv == ConnOK(conn)

\* A read keeps it, and so does one that fails.
LEMMA ConnStep ==
  ASSUME ConnInv, conn.state = "open",
         (\E n \in 1..Len(Stream(conn)) : Read(n)) \/ ReadFails
  PROVE  ConnInv'
<1>1. Known(conn)
  BY DEF ConnInv, ConnOK, NoConn, Ended
<1>2. Len(Stream(conn)) \in Nat
  <2> DEFINE protocol == conn.protocol
             script == conn.script
             parts == Messages(protocol, script)
  <2>1. WellFramed(protocol, script)
    BY <1>1 DEF Known
  <2>2. parts \in Seq(Seq(Alphabet(protocol))) /\ NoneEmpty(parts) /\ Stream(conn) = FlattenSeq(parts)
    BY <2>1, MessagesSent
  <2> HIDE DEF parts
  <2> QED
    BY <2>2, EdgeProperties
<1>3. ASSUME NEW n \in 1..Len(Stream(conn)), Read(n) PROVE Known(conn')
  <2>1. n \in Nat
    BY <1>2
  <2>2. conn.taken + n <= Len(Stream(conn))
    BY <1>3 DEF Read
  <2>3. CASE conn.protocol = "browser"
    <3>1. conn' = ReadPackets(conn, SubSeq(Stream(conn), conn.taken + 1, conn.taken + n))
      BY <1>3, <2>3 DEF Read
    <3>2. Known(ReadPackets(conn, SubSeq(Stream(conn), conn.taken + 1, conn.taken + n)))
      BY <1>1, <2>1, <2>2, <2>3, ReadPacketsStep
    <3> QED
      BY <3>1, <3>2
  <2>4. CASE conn.protocol # "browser"
    <3>1. conn' = ReadText(conn, SubSeq(Stream(conn), conn.taken + 1, conn.taken + n))
      BY <1>3, <2>4 DEF Read
    <3>2. Known(ReadText(conn, SubSeq(Stream(conn), conn.taken + 1, conn.taken + n)))
      BY <1>1, <2>1, <2>2, <2>4, ReadTextStep
    <3> QED
      BY <3>1, <3>2
  <2> QED
    BY <2>3, <2>4
<1>4. CASE ReadFails
  BY <1>4 DEF ReadFails, ConnInv, ConnOK
<1> QED
  BY <1>3, <1>4 DEF ConnInv, ConnOK

\* A new connection has it: clients send whole commands and packets.
LEMMA OpenedInv ==
  ASSUME NEW s \in Services, AcceptTCP(s)
  PROVE  ConnInv'
<1>1. PICK protocol \in Protocols[s] : \E script \in Scripts[protocol] : conn' = Opened(protocol, script)
  BY DEF AcceptTCP
<1>2. PICK script \in Scripts[protocol] : conn' = Opened(protocol, script)
  BY <1>1
<1>3. Kind[s] = "tcp"
  BY DEF AcceptTCP
<1>4. protocol \in DOMAIN Scripts
  BY <1>1, <1>3, ProcessAssumption
<1>5. WellFramed(protocol, script)
  BY <1>2, <1>4, ConnectionAssumption
<1> QED
  BY <1>2, <1>5, OpenedIsKnown DEF ConnInv, ConnOK

\* The invariant holds of every connection the process accepts.
LEMMA ConnInvHolds == ProcessSpec => []ConnInv
<1>1. InitProcess => ConnInv
  BY DEF InitProcess, ConnInv, ConnOK
<1>2. ConnInv /\ [NextProcess]_processVars => ConnInv'
  <2> SUFFICES ASSUME ConnInv, [NextProcess]_processVars PROVE ConnInv'
    OBVIOUS
  <2>1. ASSUME UNCHANGED conn PROVE ConnInv'
    BY <2>1 DEF ConnInv
  <2>2. CASE Run \/ Browse \/ \E s \in Services : AcceptHTTP(s)
    BY <2>1, <2>2 DEF Run, Browse, AcceptHTTP
  <2>3. ASSUME NEW s \in Services, AcceptTCP(s) PROVE ConnInv'
    BY <2>3, OpenedInv
  <2>4. CASE Converse
    BY <2>4, ConnStep DEF Converse
  <2>5. CASE UNCHANGED processVars
    BY <2>1, <2>5 DEF processVars
  <2> QED
    BY <2>2, <2>3, <2>4, <2>5 DEF NextProcess
<1> QED
  BY <1>1, <1>2, PTL DEF ProcessSpec

\* And it says what it should.
LEMMA ConnInvMeans ==
  ASSUME ConnInv
  PROVE  HandlesWhatWasSent /\ DroppedForCause
<1>1. CASE conn = NoConn \/ conn = Ended
  <2>1. conn.state \notin {"open", "dropped"}
    BY <1>1 DEF NoConn, Ended
  <2> QED
    BY <2>1 DEF HandlesWhatWasSent, DroppedForCause
<1>2. CASE Known(conn)
  <2>1. HandledAsSent(conn) /\ HungUpForCause(conn)
    BY <1>2, TextMeans, PacketsMean
  <2>2. HandlesWhatWasSent
    BY <2>1 DEF HandledAsSent, HandlesWhatWasSent
  <2>3. DroppedForCause
    BY <2>1 DEF HungUpForCause, LoggedOut, Backlog, DroppedForCause
  <2> QED
    BY <2>2, <2>3
<1> QED
  BY <1>1, <1>2 DEF ConnInv, ConnOK

\* texttcp/server.go:71-86, browser/server.go:131-168: however TCP cuts what
\* a client sends, the commands handled are those sent, each once, in order
\* and as soon as its last byte is in, up to a logout or an odd length.
THEOREM WhatWasSentIsHandled == ProcessSpec => []HandlesWhatWasSent
<1>1. ConnInv => HandlesWhatWasSent
  BY ConnInvMeans
<1> QED
  BY <1>1, ConnInvHolds, PTL

\* profile/server.go:84-86, browser/server.go:131-168: a connection is closed
\* for a logout, an odd length or a backlog, and for the first two always.
THEOREM HangsUpForCause == ProcessSpec => []DroppedForCause
<1>1. ConnInv => DroppedForCause
  BY ConnInvMeans
<1> QED
  BY <1>1, ConnInvHolds, PTL

-----------------------------------------------------------------------------
(* The supervisor *)

USE SupervisorAssumption

Done == {s \in Services : Returned(s)}

\* What is in the channel came from services that returned, and what was
\* taken from it is accounted for.
ResultsCounted ==
  /\ received + Len(errCh) = Cardinality(Done)
  /\ \A i \in 1..Len(errCh) : Returned(errCh[i])

\* A failure is remembered, or on its way.
FailureKept ==
  /\ firstErr # NoService => at[firstErr] = "failed"
  /\ firstErr = NoService =>
       \A s \in Services : at[s] = "failed" => \E i \in 1..Len(errCh) : errCh[i] = s

ExitCounted ==
  status \in {"ok", "fatal"} =>
    /\ received = Cardinality(Services)
    /\ status = "ok" <=> firstErr = NoService

ClosedOnlyIfCancelled ==
  /\ \A s \in Services : closed[s] => cancelled
  /\ ReturnsHaveReasons

Inv == TypeOK /\ ResultsCounted /\ FailureKept /\ ExitCounted /\ ClosedOnlyIfCancelled

-----------------------------------------------------------------------------
\* The services that returned are counted by a number, at most all of them,
\* and all of them only if each has returned.
LEMMA DoneCounts ==
  /\ IsFiniteSet(Done)
  /\ Cardinality(Done) \in Nat
  /\ Cardinality(Services) \in Nat
  /\ Cardinality(Done) <= Cardinality(Services)
  /\ Cardinality(Done) = Cardinality(Services) => \A s \in Services : Returned(s)
<1>1. Done \in SUBSET Services
  BY DEF Done
<1>2. /\ IsFiniteSet(Done)
      /\ Cardinality(Done) <= Cardinality(Services)
      /\ Cardinality(Services) = Cardinality(Done) => Services = Done
  BY <1>1, FS_Subset
<1>3. Cardinality(Done) \in Nat /\ Cardinality(Services) \in Nat
  BY <1>2, FS_CardinalityType
<1>4. Services = Done => \A s \in Services : Returned(s)
  BY DEF Done
<1> QED
  BY <1>2, <1>3, <1>4

\* A step that leaves the services' states alone leaves the count alone.
LEMMA DoneSame ==
  ASSUME UNCHANGED at
  PROVE  /\ Done' = Done
         /\ \A s : Returned(s)' <=> Returned(s)
BY DEF Done, Returned

\* run.go:169: the channel has room for every service's result, so no send
\* waits for the main goroutine.
LEMMA RoomForAll ==
  ASSUME Inv, NEW s \in Services, ~Returned(s)
  PROVE  Len(errCh) < Cardinality(Services)
<1>1. Cardinality(Done) # Cardinality(Services)
  BY DoneCounts
<1>2. Len(errCh) \in Nat /\ received \in Nat
  BY DEF Inv, TypeOK
<1>3. received + Len(errCh) = Cardinality(Done)
  BY DEF Inv, ResultsCounted
<1> QED
  BY <1>1, <1>2, <1>3, DoneCounts

\* Sending a result: one more service has returned, and the channel has it.
LEMMA FinishCounted ==
  ASSUME Inv, NEW s \in Services, ~Returned(s), NEW result \in {"stopped", "failed"},
         Finish(s, result)
  PROVE  /\ at' \in [Services -> {"starting", "serving", "stopped", "failed"}]
         /\ at'[s] = result /\ \A t \in Services \ {s} : at'[t] = at[t]
         /\ errCh' \in Seq(Services)
         /\ ResultsCounted' /\ FailureKept'
<1>1. /\ at' \in [Services -> {"starting", "serving", "stopped", "failed"}]
      /\ at'[s] = result /\ \A t \in Services \ {s} : at'[t] = at[t]
  BY DEF Inv, TypeOK, Finish
<1>2. /\ errCh' \in Seq(Services)
      /\ Len(errCh') = Len(errCh) + 1
      /\ errCh'[Len(errCh')] = s
      /\ \A i \in 1..Len(errCh) : errCh'[i] = errCh[i]
  BY DEF Inv, TypeOK, Finish
<1>3. Len(errCh) \in Nat
  BY DEF Inv, TypeOK
<1>4. Done' = Done \cup {s} /\ s \notin Done
  BY <1>1 DEF Done, Returned
<1>5. Cardinality(Done') = Cardinality(Done) + 1
  BY <1>4, DoneCounts, FS_AddElement
<1>6. received' = received /\ firstErr' = firstErr
  BY DEF Finish
<1>7. ResultsCounted'
  <2>1. received' + Len(errCh') = Cardinality(Done')
    BY <1>2, <1>3, <1>5, <1>6, DoneCounts DEF Inv, TypeOK, ResultsCounted
  <2>2. ASSUME NEW i \in 1..Len(errCh') PROVE at'[errCh'[i]] \in {"stopped", "failed"}
    <3>1. CASE i = Len(errCh')
      BY <3>1, <1>1, <1>2 DEF Returned
    <3>2. CASE i # Len(errCh')
      <4>1. i \in 1..Len(errCh)
        BY <3>2, <1>2, <1>3
      <4>2. errCh[i] \in Services /\ Returned(errCh[i])
        BY <4>1 DEF Inv, TypeOK, ResultsCounted
      <4> QED
        BY <4>1, <4>2, <1>1, <1>2 DEF Returned
    <3> QED
      BY <3>1, <3>2
  <2> QED
    BY <2>1, <2>2 DEF ResultsCounted, Returned
<1>8. FailureKept'
  <2>1. CASE firstErr # NoService
    <3>1. firstErr \in Services /\ at[firstErr] = "failed"
      BY <2>1 DEF Inv, TypeOK, FailureKept
    <3> QED
      BY <3>1, <1>1, <1>6 DEF FailureKept, Returned
  <2>2. CASE firstErr = NoService
    <3>1. ASSUME NEW t \in Services, at'[t] = "failed"
          PROVE  \E i \in 1..Len(errCh') : errCh'[i] = t
      <4>1. CASE t = s
        BY <4>1, <1>2, <1>3
      <4>2. CASE t # s
        <5>1. PICK i \in 1..Len(errCh) : errCh[i] = t
          BY <4>2, <3>1, <1>1, <2>2 DEF Inv, FailureKept
        <5> QED
          BY <5>1, <1>2, <1>3
      <4> QED
        BY <4>1, <4>2
    <3> QED
      BY <3>1, <2>2, <1>6 DEF FailureKept
  <2> QED
    BY <2>1, <2>2
<1> QED
  BY <1>1, <1>2, <1>7, <1>8

\* Run starts with every goroutine at its beginning.
LEMMA InvInit == Init => Inv
<1> SUFFICES ASSUME Init PROVE Inv
  OBVIOUS
<1>1. TypeOK
  <2>1. received \in 0..Cardinality(Services)
    BY DoneCounts DEF Init
  <2>2. errCh \in Seq(Services)
    BY DEF Init
  <2> QED
    BY <2>1, <2>2 DEF Init, TypeOK
<1>2. Done = {}
  BY DEF Init, Done, Returned
<1>3. Cardinality(Done) = 0
  BY <1>2, FS_EmptySet
<1>4. ResultsCounted
  BY <1>3 DEF Init, ResultsCounted
<1>5. FailureKept /\ ExitCounted /\ ClosedOnlyIfCancelled
  BY DEF Init, FailureKept, ExitCounted, ClosedOnlyIfCancelled, ReturnsHaveReasons
<1> QED
  BY <1>1, <1>4, <1>5 DEF Inv

-----------------------------------------------------------------------------
(* One lemma per action *)

\* Listening, a socket that fails and one that is closed send nothing.
LEMMA SocketSteps ==
  ASSUME Inv, NEW s \in Services, Listen(s) \/ Break(s) \/ CloseSocket(s)
  PROVE  Inv'
<1>1. \A t \in Services : Returned(t)' <=> Returned(t)
  BY DEF Inv, TypeOK, Listen, Break, CloseSocket, Returned
<1>2. Done' = Done
  BY <1>1 DEF Done
<1>3. \A t \in Services : at'[t] \in {"stopped", "failed"} => at'[t] = at[t]
  BY DEF Inv, TypeOK, Listen, Break, CloseSocket
<1>4. UNCHANGED <<cancelled, errCh, received, firstErr, status>>
  BY DEF Listen, Break, CloseSocket
<1>5. TypeOK'
  BY DEF Inv, TypeOK, Listen, Break, CloseSocket
<1>6. ResultsCounted'
  BY <1>1, <1>2, <1>4 DEF Inv, TypeOK, ResultsCounted
<1>7. FailureKept'
  <2>1. \A t \in Services : at'[t] = "failed" <=> at[t] = "failed"
    BY DEF Inv, TypeOK, Listen, Break, CloseSocket
  <2> QED
    BY <2>1, <1>4 DEF Inv, TypeOK, FailureKept
<1>8. ExitCounted'
  BY <1>4 DEF Inv, ExitCounted
<1>9. ClosedOnlyIfCancelled'
  BY <1>3 DEF Inv, TypeOK, ClosedOnlyIfCancelled, ReturnsHaveReasons, Listen, Break, CloseSocket
<1> QED
  BY <1>5, <1>6, <1>7, <1>8, <1>9 DEF Inv

\* A Serve that ends, at once or after its socket failed it.
LEMMA FinishSteps ==
  ASSUME Inv, NEW s \in Services, ListenFails(s) \/ Return(s)
  PROVE  Inv'
<1>1. PICK result \in {"stopped", "failed"} :
        /\ Finish(s, result)
        /\ result = "failed" => broken'[s]
        /\ result = "stopped" => cancelled
  <2>1. CASE ListenFails(s)
    BY <2>1 DEF ListenFails, Inv, TypeOK
  <2>2. CASE Return(s)
    BY <2>2 DEF Return, Result, Inv, TypeOK, ClosedOnlyIfCancelled
  <2> QED
    BY <2>1, <2>2
<1>2. ~Returned(s) /\ status = "running"
  BY DEF ListenFails, Return, Returned
<1>3. /\ at' \in [Services -> {"starting", "serving", "stopped", "failed"}]
      /\ at'[s] = result /\ \A t \in Services \ {s} : at'[t] = at[t]
      /\ errCh' \in Seq(Services)
      /\ ResultsCounted' /\ FailureKept'
  BY <1>1, <1>2, FinishCounted
<1>4. UNCHANGED <<closed, cancelled, received, firstErr, status>>
  BY <1>1 DEF Finish
<1>5. /\ broken' \in [Services -> BOOLEAN]
      /\ \A t \in Services : broken[t] => broken'[t]
  BY DEF Inv, TypeOK, ListenFails, Return
<1>6. TypeOK'
  BY <1>3, <1>4, <1>5 DEF Inv, TypeOK
<1>7. ExitCounted'
  BY <1>2, <1>4 DEF ExitCounted
<1>8. ClosedOnlyIfCancelled'
  BY <1>1, <1>3, <1>4, <1>5 DEF Inv, TypeOK, ClosedOnlyIfCancelled, ReturnsHaveReasons
<1> QED
  BY <1>3, <1>6, <1>7, <1>8 DEF Inv

\* A signal cancels the context or kills the process.
LEMMA SignalStep ==
  ASSUME Inv, Signal
  PROVE  Inv'
<1>1. UNCHANGED at
  BY DEF Signal
<1>2. TypeOK'
  BY DEF Inv, TypeOK, Signal
<1>3. ResultsCounted'
  BY <1>1, DoneSame DEF Inv, ResultsCounted, Signal
<1>4. FailureKept' /\ ExitCounted'
  BY DEF Inv, FailureKept, ExitCounted, Signal
<1>5. ClosedOnlyIfCancelled'
  BY DEF Inv, ClosedOnlyIfCancelled, ReturnsHaveReasons, Signal
<1> QED
  BY <1>2, <1>3, <1>4, <1>5 DEF Inv

\* The main goroutine takes a result, and keeps the first that is an error.
LEMMA ReceiveStep ==
  ASSUME Inv, Receive
  PROVE  Inv'
<1>1. UNCHANGED <<at, broken, closed, status>> /\ status = "running"
  BY DEF Receive
<1>2. /\ errCh' \in Seq(Services) /\ Len(errCh') = Len(errCh) - 1
      /\ \A i \in 1..Len(errCh') : errCh'[i] = errCh[i + 1] /\ i + 1 \in 1..Len(errCh)
      /\ Head(errCh) = errCh[1] /\ errCh[1] \in Services /\ 1 \in 1..Len(errCh)
  BY DEF Inv, TypeOK, Receive
<1>3. received' = received + 1 /\ received \in Nat /\ Len(errCh) \in Nat
  BY DEF Inv, TypeOK, Receive
<1>4. Done' = Done
  BY <1>1, DoneSame
<1>5. received' \in 0..Cardinality(Services)
  BY <1>2, <1>3, DoneCounts DEF Inv, ResultsCounted
<1>6. firstErr' \in Services \cup {NoService} /\ cancelled' \in BOOLEAN
      /\ (cancelled => cancelled')
  BY <1>2 DEF Inv, TypeOK, Receive
<1>7. TypeOK'
  BY <1>1, <1>2, <1>5, <1>6 DEF Inv, TypeOK
<1>8. ResultsCounted'
  <2>1. received' + Len(errCh') = Cardinality(Done')
    BY <1>2, <1>3, <1>4, DoneCounts DEF Inv, ResultsCounted
  <2>2. \A i \in 1..Len(errCh') : at'[errCh'[i]] \in {"stopped", "failed"}
    BY <1>1, <1>2 DEF Inv, ResultsCounted, Returned
  <2> QED
    BY <2>1, <2>2 DEF ResultsCounted, Returned
<1>9. FailureKept'
  <2>1. CASE at[Head(errCh)] = "failed" /\ firstErr = NoService
    <3>1. firstErr' = Head(errCh) /\ firstErr' # NoService
      BY <2>1, <1>2 DEF Receive
    <3> QED
      BY <3>1, <2>1, <1>1 DEF FailureKept
  <2>2. CASE firstErr # NoService
    BY <2>2, <1>1 DEF Inv, FailureKept, Receive
  <2>3. CASE at[Head(errCh)] # "failed" /\ firstErr = NoService
    <3>1. firstErr' = NoService
      BY <2>3 DEF Receive
    <3>2. ASSUME NEW t \in Services, at[t] = "failed"
          PROVE  \E i \in 1..Len(errCh') : errCh'[i] = t
      <4>1. PICK i \in 1..Len(errCh) : errCh[i] = t
        BY <3>2, <2>3 DEF Inv, FailureKept
      <4>2. i # 1
        BY <4>1, <3>2, <2>3, <1>2
      <4>3. i - 1 \in 1..Len(errCh') /\ errCh'[i - 1] = errCh[i - 1 + 1] /\ i - 1 + 1 = i
        BY <4>2, <1>2, <1>3
      <4> QED
        BY <4>1, <4>3
    <3> QED
      BY <3>1, <3>2, <1>1 DEF FailureKept
  <2> QED
    BY <2>1, <2>2, <2>3
<1>10. ExitCounted'
  BY <1>1 DEF ExitCounted
<1>11. ClosedOnlyIfCancelled'
  BY <1>1, <1>6 DEF Inv, ClosedOnlyIfCancelled, ReturnsHaveReasons
<1> QED
  BY <1>7, <1>8, <1>9, <1>10, <1>11 DEF Inv

\* The process ends once it has every result.
LEMMA ExitStep ==
  ASSUME Inv, Exit
  PROVE  Inv'
<1>1. UNCHANGED <<at, broken, closed, cancelled, errCh, received, firstErr>>
  BY DEF Exit
<1>2. TypeOK' /\ ExitCounted'
  BY DEF Inv, TypeOK, ExitCounted, Exit
<1>3. ResultsCounted' /\ FailureKept'
  BY <1>1, DoneSame DEF Inv, ResultsCounted, FailureKept
<1>4. ClosedOnlyIfCancelled'
  BY <1>1 DEF Inv, ClosedOnlyIfCancelled, ReturnsHaveReasons
<1> QED
  BY <1>2, <1>3, <1>4 DEF Inv

\* Every step of Run and of the services keeps the invariant.
LEMMA InvStep == Inv /\ [Next]_vars => Inv'
<1> SUFFICES ASSUME Inv, [Next]_vars PROVE Inv'
  OBVIOUS
<1>1. ASSUME NEW s \in Services, Listen(s) \/ Break(s) \/ CloseSocket(s) PROVE Inv'
  BY <1>1, SocketSteps
<1>2. ASSUME NEW s \in Services, ListenFails(s) \/ Return(s) PROVE Inv'
  BY <1>2, FinishSteps
<1>3. CASE Signal
  BY <1>3, SignalStep
<1>4. CASE Receive
  BY <1>4, ReceiveStep
<1>5. CASE Exit
  BY <1>5, ExitStep
<1>6. CASE UNCHANGED vars
  <2>1. UNCHANGED at
    BY <1>6 DEF vars
  <2>2. ResultsCounted' /\ FailureKept'
    BY <1>6, <2>1, DoneSame DEF vars, Inv, ResultsCounted, FailureKept
  <2>3. TypeOK' /\ ExitCounted' /\ ClosedOnlyIfCancelled'
    BY <1>6 DEF vars, Inv, TypeOK, ExitCounted, ClosedOnlyIfCancelled, ReturnsHaveReasons
  <2> QED
    BY <2>2, <2>3 DEF Inv
<1> QED
  BY <1>1, <1>2, <1>3, <1>4, <1>5, <1>6 DEF Next

\* So it holds in every behaviour.
LEMMA InvHolds == Spec => []Inv
BY InvInit, InvStep, PTL DEF Spec

-----------------------------------------------------------------------------
(* Theorems *)

\* The state of run.go's goroutines keeps its types; in particular the main
\* goroutine never takes more results than there are services.
THEOREM TypeCorrect == Spec => []TypeOK
<1>1. Inv => TypeOK
  BY DEF Inv
<1> QED
  BY <1>1, InvHolds, PTL

\* run.go:184-193: the process ends by itself only after every Serve has
\* returned, and its exit tells whether one of them failed, for any set of
\* services.
THEOREM ExitIsTrue == Spec => []ExitTellsAll
<1>1. Inv => ExitTellsAll
  <2> SUFFICES ASSUME Inv PROVE ExitTellsAll
    OBVIOUS
  <2>1. ASSUME status \in {"ok", "fatal"}
        PROVE  /\ \A s \in Services : Returned(s)
               /\ errCh = << >>
    <3>1. received = Cardinality(Services) /\ errCh \in Seq(Services)
      BY <2>1 DEF Inv, TypeOK, ExitCounted
    <3>2. Len(errCh) \in Nat /\ received + Len(errCh) = Cardinality(Done)
      BY DEF Inv, TypeOK, ResultsCounted
    <3>3. Len(errCh) = 0 /\ Cardinality(Done) = Cardinality(Services)
      BY <3>1, <3>2, DoneCounts
    <3> QED
      BY <3>1, <3>3, DoneCounts
  <2>2. status = "ok" => \A s \in Services : at[s] = "stopped"
    BY <2>1 DEF Inv, TypeOK, ExitCounted, FailureKept, Returned
  <2>3. status = "fatal" => firstErr \in Services /\ at[firstErr] = "failed"
    BY DEF Inv, TypeOK, ExitCounted, FailureKept
  <2> QED
    BY <2>1, <2>2, <2>3 DEF ExitTellsAll
<1> QED
  BY <1>1, InvHolds, PTL

\* Stopping is never taken for a failure, and no service ends quietly while
\* the others go on, whichever sockets fail and whenever a signal comes.
THEOREM ReasonsAreTrue == Spec => []ReturnsHaveReasons
<1>1. Inv => ReturnsHaveReasons
  BY DEF Inv, ClosedOnlyIfCancelled
<1> QED
  BY <1>1, InvHolds, PTL

SendsNeverWait == \A s \in Services : Returned(s) \/ Len(errCh) < Cardinality(Services)

\* run.go:169: errCh has room for the result of every service that has not
\* sent one, so no service's goroutine is ever stuck behind the channel.
THEOREM NoSendWaits == Spec => []SendsNeverWait
<1>1. Inv => SendsNeverWait
  BY RoomForAll DEF SendsNeverWait
<1> QED
  BY <1>1, InvHolds, PTL
=============================================================================
