--------------------------- MODULE BackendProofs ----------------------------
(***************************************************************************)
(* Theorems about Backend for any number of games, sessions, cookies and   *)
(* any entry cap: the types, the exactness of the index, the NATNEG cap,   *)
(* and the refinement of RoomRegistry.                                     *)
(***************************************************************************)
EXTENDS Backend, SequenceTheorems, TLAPS

-----------------------------------------------------------------------------
(* Sequences *)

\* RemoveAt drops position i and moves the later elements one place down,
\* which is what append(servers[:idx], servers[idx+1:]...) leaves.
LEMMA RemoveAtProperties ==
  ASSUME NEW S, NEW list \in Seq(S), NEW i \in 1..Len(list)
  PROVE  /\ RemoveAt(list, i) \in Seq(S)
         /\ Len(RemoveAt(list, i)) = Len(list) - 1
         /\ \A j \in 1..(Len(list) - 1) :
              RemoveAt(list, i)[j] = IF j < i THEN list[j] ELSE list[j + 1]
<1> DEFINE front == SubSeq(list, 1, i - 1)
           back == SubSeq(list, i + 1, Len(list))
<1>0. Len(list) \in Nat
  BY LenProperties
<1>1. /\ front \in Seq(S)
      /\ Len(front) = i - 1
      /\ \A j \in 1..(i - 1) : front[j] = list[j]
  <2>1. 1 \in 1..(Len(list) + 1) /\ i - 1 \in 0..Len(list)
    BY <1>0
  <2> QED
    BY <2>1, <1>0, SubSeqProperties
<1>2. /\ back \in Seq(S)
      /\ Len(back) = Len(list) - i
      /\ \A j \in 1..(Len(list) - i) : back[j] = list[i + j]
  <2>1. i + 1 \in 1..(Len(list) + 1) /\ Len(list) \in i..Len(list)
    BY <1>0
  <2> QED
    BY <2>1, <1>0, SubSeqProperties
<1>3. RemoveAt(list, i) = front \o back
  BY DEF RemoveAt
<1> HIDE DEF front, back
<1>4. /\ front \o back \in Seq(S)
      /\ Len(front \o back) = Len(list) - 1
  <2>1. front \o back \in Seq(S) /\ Len(front \o back) = Len(front) + Len(back)
    BY <1>1, <1>2, ConcatProperties
  <2> QED
    BY <2>1, <1>0, <1>1, <1>2
<1>5. ASSUME NEW j \in 1..(Len(list) - 1)
      PROVE  (front \o back)[j] = IF j < i THEN list[j] ELSE list[j + 1]
  <2>1. (front \o back)[j] =
          IF j <= Len(front) THEN front[j] ELSE back[j - Len(front)]
    BY <1>0, <1>1, <1>2, ConcatProperties
  <2>2. CASE j < i
    BY <2>1, <2>2, <1>0, <1>1
  <2>3. CASE ~(j < i)
    <3>1. j - (i - 1) \in 1..(Len(list) - i)
      BY <2>3, <1>0
    <3>2. back[j - (i - 1)] = list[j + 1]
      BY <3>1, <1>2, <1>0
    <3> QED
      BY <2>1, <2>3, <3>2, <1>1, <1>0
  <2> QED
    BY <2>2, <2>3
<1> QED
  BY <1>3, <1>4, <1>5

-----------------------------------------------------------------------------
(* One game's slice and index *)

Exact(list, idx) ==
  /\ list \in Seq(Room)
  /\ list # << >>
  /\ DOMAIN idx \subseteq Sessions
  /\ \A i \in DOMAIN list :
       /\ list[i].session \in DOMAIN idx
       /\ idx[list[i].session] = i
  /\ \A s \in DOMAIN idx :
       /\ idx[s] \in DOMAIN list
       /\ list[idx[s]].session = s

\* Overwriting the indexed record of a session keeps slice and index exact.
LEMMA ReplaceExact ==
  ASSUME NEW list, NEW idx, Exact(list, idx),
         NEW s \in DOMAIN idx, NEW h \in Heartbeats
  PROVE  Exact([list EXCEPT ![idx[s]] = [session |-> s, fields |-> h]], idx)
<1> DEFINE room == [session |-> s, fields |-> h]
           new == [list EXCEPT ![idx[s]] = room]
<1>1. room \in Room /\ room.session = s
  BY DEF Exact, Room
<1>2. list \in Seq(Room) /\ DOMAIN list = 1..Len(list) /\ idx[s] \in 1..Len(list)
  BY LenProperties DEF Exact
<1> HIDE DEF room
<1>3. /\ new \in Seq(Room)
      /\ Len(new) = Len(list)
      /\ \A j \in 1..Len(list) : new[j] = IF j = idx[s] THEN room ELSE list[j]
  BY <1>1, <1>2, ExceptSeq
<1> HIDE DEF new
<1>4. DOMAIN new = 1..Len(list)
  BY <1>3, LenProperties
<1>5. \A j \in 1..Len(list) : new[j].session = list[j].session
  BY <1>1, <1>2, <1>3 DEF Exact
<1>6. new # << >>
  BY <1>2, <1>3, EmptySeq
<1>7. Exact(new, idx)
  BY <1>2, <1>3, <1>4, <1>5, <1>6 DEF Exact
<1> QED
  BY <1>7 DEF new, room

\* Appending a session that is not indexed, at the position it is indexed with.
LEMMA AppendExact ==
  ASSUME NEW list, NEW idx, Exact(list, idx),
         NEW s \in Sessions, s \notin DOMAIN idx, NEW h \in Heartbeats
  PROVE  Exact(Append(list, [session |-> s, fields |-> h]),
               Put(idx, s, Len(list) + 1))
<1> DEFINE room == [session |-> s, fields |-> h]
           new == Append(list, room)
           idx2 == Put(idx, s, Len(list) + 1)
<1>1. room \in Room /\ room.session = s
  BY DEF Room
<1>2. list \in Seq(Room) /\ DOMAIN list = 1..Len(list) /\ Len(list) \in Nat
  BY LenProperties DEF Exact
<1> HIDE DEF room
<1>3. /\ new \in Seq(Room)
      /\ new # << >>
      /\ Len(new) = Len(list) + 1
      /\ \A i \in 1..Len(list) : new[i] = list[i]
      /\ new[Len(list) + 1] = room
  BY <1>1, <1>2, AppendProperties
<1> HIDE DEF new
<1>4. DOMAIN new = 1..(Len(list) + 1)
  BY <1>3, LenProperties
<1>5. /\ DOMAIN idx2 = DOMAIN idx \cup {s}
      /\ idx2[s] = Len(list) + 1
      /\ \A t \in DOMAIN idx : idx2[t] = idx[t]
  BY DEF Put
<1> HIDE DEF idx2
<1>6. ASSUME NEW i \in DOMAIN new
      PROVE  new[i].session \in DOMAIN idx2 /\ idx2[new[i].session] = i
  <2>1. CASE i \in 1..Len(list)
    BY <2>1, <1>2, <1>3, <1>5 DEF Exact
  <2>2. CASE i = Len(list) + 1
    BY <2>2, <1>1, <1>3, <1>5
  <2> QED
    BY <2>1, <2>2, <1>2, <1>4
<1>7. ASSUME NEW t \in DOMAIN idx2
      PROVE  idx2[t] \in DOMAIN new /\ new[idx2[t]].session = t
  <2>1. CASE t = s
    BY <2>1, <1>1, <1>2, <1>3, <1>4, <1>5
  <2>2. CASE t \in DOMAIN idx
    BY <2>2, <1>2, <1>3, <1>4, <1>5 DEF Exact
  <2> QED
    BY <2>1, <2>2, <1>5
<1>8. DOMAIN idx2 \subseteq Sessions
  BY <1>5 DEF Exact
<1>9. Exact(new, idx2)
  BY <1>3, <1>6, <1>7, <1>8 DEF Exact
<1> QED
  BY <1>9 DEF new, room, idx2

\* The first room of a game: fresh slice, fresh index.
LEMMA FirstExact ==
  ASSUME NEW s \in Sessions, NEW h \in Heartbeats
  PROVE  Exact(Append(<< >>, [session |-> s, fields |-> h]),
               Put(EmptyMap, s, Len(<< >>) + 1))
<1> DEFINE room == [session |-> s, fields |-> h]
           idx == Put(EmptyMap, s, Len(<< >>) + 1)
<1>1. room \in Room /\ room.session = s
  BY DEF Room
<1> HIDE DEF room
<1>2. Append(<< >>, room) = <<room>>
  OBVIOUS
<1>3. /\ <<room>> \in Seq(Room)
      /\ <<room>> # << >>
      /\ DOMAIN <<room>> = {1}
      /\ <<room>>[1] = room
  BY <1>1
<1>4. DOMAIN idx = {s} /\ idx[s] = 1
  BY DEF Put, EmptyMap
<1> HIDE DEF idx
<1>5. Exact(<<room>>, idx)
  BY <1>1, <1>3, <1>4 DEF Exact
<1> QED
  BY <1>2, <1>5 DEF room, idx

\* What a removal does to the rooms that stay: each keeps its record, and
\* those behind the removed position move one place down.
Shifted(list, idx, s, list2, idx2) ==
  /\ DOMAIN idx2 = DOMAIN idx \ {s}
  /\ \A t \in DOMAIN idx2 :
       /\ idx2[t] = IF idx[t] < idx[s] THEN idx[t] ELSE idx[t] - 1
       /\ list2[idx2[t]] = list[idx[t]]

\* Removing the indexed record of a session and rebuilding the index.
LEMMA RemoveExact ==
  ASSUME NEW list, NEW idx, Exact(list, idx), NEW s \in DOMAIN idx,
         RemoveAt(list, idx[s]) # << >>
  PROVE  /\ Exact(RemoveAt(list, idx[s]),
                  Reindex(Without(idx, s), RemoveAt(list, idx[s])))
         /\ Shifted(list, idx, s, RemoveAt(list, idx[s]),
                    Reindex(Without(idx, s), RemoveAt(list, idx[s])))
<1> DEFINE new == RemoveAt(list, idx[s])
           idx2 == Reindex(Without(idx, s), new)
           at(t) == {i \in DOMAIN new : new[i].session = t}
           old(j) == IF j < idx[s] THEN j ELSE j + 1
<1>1. /\ list \in Seq(Room) /\ DOMAIN list = 1..Len(list) /\ Len(list) \in Nat
      /\ idx[s] \in 1..Len(list)
  BY LenProperties DEF Exact
<1>2. /\ new \in Seq(Room)
      /\ Len(new) = Len(list) - 1
      /\ \A j \in 1..(Len(list) - 1) :
           new[j] = IF j < idx[s] THEN list[j] ELSE list[j + 1]
  BY <1>1, RemoveAtProperties
<1> HIDE DEF new
<1>3. DOMAIN new = 1..(Len(list) - 1)
  BY <1>2, LenProperties
<1>4. ASSUME NEW j \in DOMAIN new
      PROVE  /\ old(j) \in DOMAIN list
             /\ old(j) # idx[s]
             /\ new[j] = list[old(j)]
             /\ new[j].session \in DOMAIN idx \ {s}
             /\ idx[new[j].session] = old(j)
  <2>1. old(j) \in DOMAIN list /\ old(j) # idx[s] /\ new[j] = list[old(j)]
    BY <1>1, <1>2, <1>3
  <2>2. new[j].session \in DOMAIN idx /\ idx[new[j].session] = old(j)
    BY <2>1 DEF Exact
  <2> QED
    BY <2>1, <2>2
<1>5. ASSUME NEW i \in DOMAIN new, NEW j \in DOMAIN new,
             new[i].session = new[j].session
      PROVE  i = j
  <2>1. old(i) = old(j)
    BY <1>4, <1>5
  <2> QED
    BY <2>1, <1>1, <1>3
<1>6. ASSUME NEW t \in DOMAIN idx \ {s}
      PROVE  \E j \in DOMAIN new : new[j].session = t
  <2>1. idx[t] \in DOMAIN list /\ list[idx[t]].session = t /\ idx[t] # idx[s]
    BY DEF Exact
  <2>2. CASE idx[t] < idx[s]
    <3>1. idx[t] \in DOMAIN new /\ new[idx[t]] = list[idx[t]]
      BY <2>1, <2>2, <1>1, <1>2, <1>3
    <3> QED
      BY <3>1, <2>1
  <2>3. CASE idx[t] > idx[s]
    <3>1. idx[t] - 1 \in DOMAIN new /\ new[idx[t] - 1] = list[idx[t]]
      BY <2>1, <2>3, <1>1, <1>2, <1>3
    <3> QED
      BY <3>1, <2>1
  <2> QED
    BY <2>1, <2>2, <2>3, <1>1
<1>7. {new[i].session : i \in DOMAIN new} = DOMAIN idx \ {s}
  BY <1>4, <1>6
<1>8. DOMAIN idx2 = DOMAIN idx \ {s}
  BY <1>7 DEF Reindex, Without
<1>9. ASSUME NEW j \in DOMAIN new
      PROVE  idx2[new[j].session] = j
  <2>1. at(new[j].session) = {j}
    BY <1>5
  <2>2. new[j].session \in DOMAIN idx2
    BY <1>4, <1>8
  <2>3. idx2[new[j].session] =
          CHOOSE i \in at(new[j].session) : \A k \in at(new[j].session) : k <= i
    BY <2>1, <1>4, <1>7 DEF Reindex, Without
  <2>4. j \in Nat
    BY <1>1, <1>3
  <2> QED
    BY <2>1, <2>3, <2>4
<1> HIDE DEF idx2
<1>10. ASSUME NEW t \in DOMAIN idx2
       PROVE  idx2[t] \in DOMAIN new /\ new[idx2[t]].session = t
  <2>1. PICK j \in DOMAIN new : new[j].session = t
    BY <1>6, <1>8
  <2> QED
    BY <2>1, <1>9
<1>11. DOMAIN idx2 \subseteq Sessions
  BY <1>8 DEF Exact
<1>12. Exact(new, idx2)
  <2>1. new # << >>
    BY DEF new
  <2> QED
    BY <1>2, <1>4, <1>8, <1>9, <1>10, <1>11, <2>1 DEF Exact
<1>13. ASSUME NEW t \in DOMAIN idx \ {s}
       PROVE  /\ idx2[t] = IF idx[t] < idx[s] THEN idx[t] ELSE idx[t] - 1
              /\ new[idx2[t]] = list[idx[t]]
  <2>1. PICK j \in DOMAIN new : new[j].session = t
    BY <1>6
  <2>2. idx2[t] = j /\ idx[t] = old(j) /\ new[j] = list[old(j)]
    BY <2>1, <1>4, <1>9
  <2> QED
    BY <2>2, <1>1, <1>3
<1>14. Shifted(list, idx, s, new, idx2)
  BY <1>8, <1>13 DEF Shifted
<1> QED
  BY <1>12, <1>14 DEF new, idx2

-----------------------------------------------------------------------------
(* The inductive invariant of the two room maps.  TypeOK and IndexExact    *)
(* together are inductive; RoomInv is their conjunction per game.          *)

RoomInv ==
  /\ DOMAIN sessionIdx = DOMAIN serverList
  /\ DOMAIN serverList \subseteq Games
  /\ \A g \in DOMAIN serverList : Exact(serverList[g], sessionIdx[g])

NatnegTypeOK ==
  /\ DOMAIN natnegList \subseteq Cookies
  /\ \A c \in DOMAIN natnegList : natnegList[c] \in Seq(Peers)

NatnegInv == NatnegTypeOK /\ NatnegBounded

\* The parts give the checked invariants back.
LEMMA PartsImply ==
  ASSUME RoomInv, NatnegTypeOK
  PROVE  TypeOK /\ IndexExact
<1>1. ASSUME NEW g \in DOMAIN serverList
      PROVE  /\ serverList[g] \in Seq(Room)
             /\ DOMAIN sessionIdx[g] \subseteq Sessions
             /\ \A s \in DOMAIN sessionIdx[g] : sessionIdx[g][s] \in Nat
  <2>1. Exact(serverList[g], sessionIdx[g])
    BY DEF RoomInv
  <2>2. DOMAIN serverList[g] = 1..Len(serverList[g])
    BY <2>1, LenProperties DEF Exact
  <2> QED
    BY <2>1, <2>2 DEF Exact
<1>2. TypeOK
  BY <1>1 DEF RoomInv, NatnegTypeOK, TypeOK
<1>3. IndexExact
  BY DEF RoomInv, Exact, IndexExact
<1> QED
  BY <1>2, <1>3

\* An upsert preserves the room maps' invariant.
LEMMA UpdateKeepsRoomInv ==
  ASSUME RoomInv, NEW g \in Games, NEW s \in Sessions, NEW h \in Heartbeats,
         ReplaceRoom(g, s, h) \/ AppendRoom(g, s, h)
  PROVE  RoomInv'
<1> DEFINE room == [session |-> s, fields |-> h]
<1>1. CASE ReplaceRoom(g, s, h)
  <2> DEFINE new == [serverList[g] EXCEPT ![sessionIdx[g][s]] = room]
  <2>1. g \in DOMAIN serverList /\ s \in DOMAIN sessionIdx[g]
    BY <1>1 DEF ReplaceRoom, Indexed, RoomInv
  <2>2. Exact(new, sessionIdx[g])
    BY <2>1, ReplaceExact DEF RoomInv
  <2> HIDE DEF new
  <2>3. /\ DOMAIN serverList' = DOMAIN serverList
        /\ serverList'[g] = new
        /\ \A x \in DOMAIN serverList \ {g} : serverList'[x] = serverList[x]
        /\ sessionIdx' = sessionIdx
    BY <1>1, <2>1 DEF ReplaceRoom, new
  <2>4. ASSUME NEW x \in DOMAIN serverList'
        PROVE  Exact(serverList'[x], sessionIdx'[x])
    <3>1. CASE x = g
      BY <3>1, <2>2, <2>3
    <3>2. CASE x # g
      BY <3>2, <2>3 DEF RoomInv
    <3> QED
      BY <3>1, <3>2
  <2>5. Exact(serverList[g], sessionIdx[g])
    BY <2>1 DEF RoomInv
  <2> QED
    BY <2>3, <2>4 DEF RoomInv, Exact
<1>2. CASE AppendRoom(g, s, h)
  <2> DEFINE list == Append(RoomsOf(g), room)
             idx == Put(IndexOf(g), s, Len(RoomsOf(g)) + 1)
  <2>1. Exact(list, idx)
    <3>1. CASE g \in DOMAIN serverList
      <4>1. Exact(serverList[g], sessionIdx[g]) /\ s \notin DOMAIN sessionIdx[g]
        BY <3>1, <1>2 DEF AppendRoom, Indexed, RoomInv
      <4>2. Exact(Append(serverList[g], room),
                  Put(sessionIdx[g], s, Len(serverList[g]) + 1))
        BY <4>1, AppendExact
      <4> QED
        BY <3>1, <4>2 DEF RoomsOf, IndexOf, RoomInv
    <3>2. CASE g \notin DOMAIN serverList
      <4>1. RoomsOf(g) = << >> /\ IndexOf(g) = EmptyMap
        BY <3>2 DEF RoomsOf, IndexOf, RoomInv
      <4> QED
        BY <4>1, FirstExact
    <3> QED
      BY <3>1, <3>2
  <2> HIDE DEF list, idx
  <2>2. /\ DOMAIN serverList' = DOMAIN serverList \cup {g}
        /\ serverList'[g] = list
        /\ \A x \in DOMAIN serverList \ {g} : serverList'[x] = serverList[x]
    BY <1>2 DEF AppendRoom, Put, list
  <2>3. /\ DOMAIN sessionIdx' = DOMAIN sessionIdx \cup {g}
        /\ sessionIdx'[g] = idx
        /\ \A x \in DOMAIN sessionIdx \ {g} : sessionIdx'[x] = sessionIdx[x]
    <3>1. sessionIdx' = Put(sessionIdx, g, idx)
      BY <1>2 DEF AppendRoom, idx
    <3> QED
      BY <3>1 DEF Put
  <2>4. ASSUME NEW x \in DOMAIN serverList'
        PROVE  Exact(serverList'[x], sessionIdx'[x])
    <3>1. CASE x = g
      BY <3>1, <2>1, <2>2, <2>3
    <3>2. CASE x # g
      <4>1. x \in DOMAIN serverList /\ x \in DOMAIN sessionIdx
        BY <3>2, <2>2 DEF RoomInv
      <4>2. serverList'[x] = serverList[x] /\ sessionIdx'[x] = sessionIdx[x]
        BY <3>2, <4>1, <2>2, <2>3
      <4> QED
        BY <4>1, <4>2 DEF RoomInv
    <3> QED
      BY <3>1, <3>2
  <2> QED
    BY <2>2, <2>3, <2>4 DEF RoomInv
<1> QED
  BY <1>1, <1>2

\* A removal preserves the room maps' invariant.
LEMMA DeleteKeepsRoomInv ==
  ASSUME RoomInv, NEW g \in Games, NEW s \in Sessions, DeleteServer(g, s)
  PROVE  RoomInv'
<1> DEFINE list == RemoveAt(serverList[g], sessionIdx[g][s])
           idx == Reindex(Without(sessionIdx[g], s), list)
<1>1. /\ g \in DOMAIN serverList
      /\ s \in DOMAIN sessionIdx[g]
      /\ Exact(serverList[g], sessionIdx[g])
  BY DEF DeleteServer, Indexed, RoomInv
<1>2. CASE list = << >>
  <2>1. /\ serverList' = Without(serverList, g)
        /\ sessionIdx' = Without(sessionIdx, g)
    BY <1>2 DEF DeleteServer
  <2> QED
    BY <2>1 DEF RoomInv, Without
<1>3. CASE list # << >>
  <2>1. Exact(list, idx)
    BY <1>1, <1>3, RemoveExact
  <2> HIDE DEF idx
  <2>2. serverList' = Put(serverList, g, list) /\ sessionIdx' = Put(sessionIdx, g, idx)
    BY <1>3 DEF DeleteServer, idx
  <2> HIDE DEF list
  <2>3. ASSUME NEW x \in DOMAIN serverList'
        PROVE  Exact(serverList'[x], sessionIdx'[x])
    BY <1>1, <2>1, <2>2 DEF RoomInv, Put
  <2> QED
    BY <2>2, <2>3 DEF RoomInv, Put
<1> QED
  BY <1>2, <1>3

\* Every step preserves the room maps' invariant.
LEMMA StepKeepsRoomInv == RoomInv /\ [Next]_vars => RoomInv'
<1> SUFFICES ASSUME RoomInv, [Next]_vars PROVE RoomInv'
  OBVIOUS
<1>1. ASSUME NEW g \in Games, NEW s \in Sessions, NEW h \in Heartbeats,
             UpdateServerList(g, s, h)
      PROVE  RoomInv'
  BY <1>1, UpdateKeepsRoomInv DEF UpdateServerList
<1>2. ASSUME NEW g \in Games, NEW s \in Sessions, DeleteServer(g, s)
      PROVE  RoomInv'
  BY <1>2, DeleteKeepsRoomInv
<1>3. ASSUME UNCHANGED roomVars
      PROVE  RoomInv'
  BY <1>3 DEF RoomInv, roomVars
<1>4. ASSUME NEW c \in Cookies, NEW peer \in Peers, AddNatnegServer(c, peer)
      PROVE  RoomInv'
  BY <1>3, <1>4 DEF AddNatnegServer
<1>5. ASSUME NEW c \in Cookies, DeleteNatnegServer(c)
      PROVE  RoomInv'
  BY <1>3, <1>5 DEF DeleteNatnegServer
<1>6. CASE UNCHANGED vars
  BY <1>3, <1>6 DEF vars, roomVars
<1> QED
  BY <1>1, <1>2, <1>4, <1>5, <1>6 DEF Next

-----------------------------------------------------------------------------
(* NATNEG entries: a peer is appended only below the cap and only when no  *)
(* entry of the cookie has its endpoint.                                   *)

\* A peer is appended below the cap and under a new endpoint (backend.go:283-302).
LEMMA AddKeepsNatnegInv ==
  ASSUME NatnegInv, NEW c \in Cookies, NEW peer \in Peers, AddNatnegServer(c, peer)
  PROVE  NatnegInv'
<1> DEFINE old == EntriesOf(c)
           new == Append(old, peer)
<1>1. old \in Seq(Peers) /\ Len(old) \in Nat /\ DOMAIN old = 1..Len(old)
  <2>1. old \in Seq(Peers)
    BY DEF EntriesOf, NatnegInv, NatnegTypeOK
  <2> QED
    BY <2>1, LenProperties
<1>2. \A i, j \in 1..Len(old) : i # j => Endpoint(old[i]) # Endpoint(old[j])
  <2>1. CASE c \in DOMAIN natnegList
    BY <2>1, <1>1 DEF EntriesOf, NatnegInv, NatnegBounded
  <2>2. CASE c \notin DOMAIN natnegList
    BY <2>2 DEF EntriesOf
  <2> QED
    BY <2>1, <2>2
<1>3. \A i \in 1..Len(old) : Endpoint(old[i]) # Endpoint(peer)
  BY <1>1 DEF AddNatnegServer
<1>4. Len(old) < MaxNatnegEntries
  BY DEF AddNatnegServer
<1>5. /\ DOMAIN natnegList' = DOMAIN natnegList \cup {c}
      /\ natnegList'[c] = new
      /\ \A x \in DOMAIN natnegList \ {c} : natnegList'[x] = natnegList[x]
  BY DEF AddNatnegServer, Put
<1> HIDE DEF old
<1>6. /\ new \in Seq(Peers)
      /\ new # << >>
      /\ Len(new) = Len(old) + 1
      /\ \A i \in 1..Len(old) : new[i] = old[i]
      /\ new[Len(old) + 1] = peer
  BY <1>1, AppendProperties
<1> HIDE DEF new
<1>7. DOMAIN new = 1..(Len(old) + 1)
  BY <1>6, LenProperties
<1>8. Len(new) <= MaxNatnegEntries
  BY <1>1, <1>4, <1>6, MaxNatnegAssumption
<1>9. ASSUME NEW i \in DOMAIN new, NEW j \in DOMAIN new, i # j
      PROVE  Endpoint(new[i]) # Endpoint(new[j])
  <2>1. i \in 1..Len(old) \/ i = Len(old) + 1
    BY <1>1, <1>7
  <2>2. j \in 1..Len(old) \/ j = Len(old) + 1
    BY <1>1, <1>7
  <2> QED
    BY <2>1, <2>2, <1>2, <1>3, <1>6, <1>9
<1>10. NatnegTypeOK'
  BY <1>5, <1>6 DEF NatnegInv, NatnegTypeOK
<1>11. NatnegBounded'
  <2>1. ASSUME NEW x \in DOMAIN natnegList'
        PROVE  /\ natnegList'[x] # << >>
               /\ Len(natnegList'[x]) <= MaxNatnegEntries
               /\ \A i, j \in DOMAIN natnegList'[x] :
                    i # j => Endpoint(natnegList'[x][i]) # Endpoint(natnegList'[x][j])
    <3>1. CASE x = c
      BY <3>1, <1>5, <1>6, <1>8, <1>9
    <3>2. CASE x # c
      BY <3>2, <1>5 DEF NatnegInv, NatnegBounded
    <3> QED
      BY <3>1, <3>2
  <2> QED
    BY <2>1 DEF NatnegBounded, Endpoint
<1> QED
  BY <1>10, <1>11 DEF NatnegInv

\* No operation breaks the bound on a cookie's entries.
LEMMA StepKeepsNatnegInv == NatnegInv /\ [Next]_vars => NatnegInv'
<1> SUFFICES ASSUME NatnegInv, [Next]_vars PROVE NatnegInv'
  OBVIOUS
<1>1. ASSUME NEW c \in Cookies, NEW peer \in Peers, AddNatnegServer(c, peer)
      PROVE  NatnegInv'
  BY <1>1, AddKeepsNatnegInv
<1>2. ASSUME NEW c \in Cookies, DeleteNatnegServer(c)
      PROVE  NatnegInv'
  BY <1>2 DEF DeleteNatnegServer, Without, NatnegInv, NatnegTypeOK, NatnegBounded,
              Endpoint
<1>3. ASSUME UNCHANGED natnegList
      PROVE  NatnegInv'
  BY <1>3 DEF NatnegInv, NatnegTypeOK, NatnegBounded, Endpoint
<1>4. CASE UNCHANGED vars
  BY <1>3, <1>4 DEF vars
<1> QED
  BY <1>1, <1>2, <1>3, <1>4 DEF Next, UpdateServerList, DeleteServer

-----------------------------------------------------------------------------
(* Invariants of the specification *)

\* New() starts with three empty maps, which are exact and bounded.
LEMMA InitInv == Init => RoomInv /\ NatnegInv
BY DEF Init, EmptyMap, RoomInv, NatnegInv, NatnegTypeOK, NatnegBounded

\* The two strengthened invariants hold in every behaviour of the registry.
LEMMA Invariance == Spec => [](RoomInv /\ NatnegInv)
<1>1. RoomInv /\ NatnegInv /\ [Next]_vars => (RoomInv /\ NatnegInv)'
  BY StepKeepsRoomInv, StepKeepsNatnegInv
<1> QED
  BY <1>1, InitInv, PTL DEF Spec

\* The three maps hold what their Go types and their callers promise.
THEOREM TypeCorrect == Spec => []TypeOK
<1>1. RoomInv /\ NatnegInv => TypeOK
  BY PartsImply DEF NatnegInv
<1> QED
  BY <1>1, Invariance, PTL

\* However hosts come and go, the session index of every game is the exact
\* inverse of its slice: backend.go:103-160 never leaves a stale position.
THEOREM IndexIsExact == Spec => []IndexExact
<1>1. RoomInv /\ NatnegInv => IndexExact
  BY PartsImply DEF NatnegInv
<1> QED
  BY <1>1, Invariance, PTL

\* No cookie exceeds the cap of backend.go:13 or repeats an endpoint.
THEOREM NatnegIsBounded == Spec => []NatnegBounded
<1>1. RoomInv /\ NatnegInv => NatnegBounded
  BY DEF NatnegInv
<1> QED
  BY <1>1, Invariance, PTL

-----------------------------------------------------------------------------
(* Registration order.  With an exact index a room's place in the slice is *)
(* its index entry, so the order is kept when every step keeps the order   *)
(* of the entries: an upsert moves none, a removal moves those behind the  *)
(* removed room one place down.                                            *)

OrderKept(g) ==
  \A t, u \in DOMAIN sessionIdx[g] \cap DOMAIN sessionIdx'[g] :
    sessionIdx[g][t] < sessionIdx[g][u] => sessionIdx'[g][t] < sessionIdx'[g][u]

\* An upsert moves no indexed room in front of another (backend.go:103-125).
LEMMA UpdateKeepsOrder ==
  ASSUME RoomInv, NEW g \in Games, NEW s \in Sessions, NEW h \in Heartbeats,
         ReplaceRoom(g, s, h) \/ AppendRoom(g, s, h),
         NEW x \in DOMAIN serverList \cap DOMAIN serverList'
  PROVE  OrderKept(x)
<1>1. CASE ReplaceRoom(g, s, h)
  BY <1>1 DEF ReplaceRoom, OrderKept
<1>2. CASE AppendRoom(g, s, h)
  <2>1. x # g => sessionIdx'[x] = sessionIdx[x]
    BY <1>2 DEF AppendRoom, Put, RoomInv
  <2>2. x = g => \A t \in DOMAIN sessionIdx[g] : sessionIdx'[g][t] = sessionIdx[g][t]
    <3>1. ASSUME x = g
          PROVE  /\ s \notin DOMAIN sessionIdx[g]
                 /\ IndexOf(g) = sessionIdx[g]
      BY <3>1, <1>2 DEF AppendRoom, Indexed, IndexOf, RoomInv
    <3> QED
      BY <3>1, <1>2 DEF AppendRoom, Put
  <2> QED
    BY <2>1, <2>2 DEF OrderKept
<1> QED
  BY <1>1, <1>2

\* A removal moves no indexed room in front of another (backend.go:134-160).
LEMMA DeleteKeepsOrder ==
  ASSUME RoomInv, NEW g \in Games, NEW s \in Sessions, DeleteServer(g, s),
         NEW x \in DOMAIN serverList \cap DOMAIN serverList'
  PROVE  OrderKept(x)
<1> DEFINE list == RemoveAt(serverList[g], sessionIdx[g][s])
           idx == sessionIdx[g]
           idx2 == Reindex(Without(idx, s), list)
<1>1. /\ g \in DOMAIN serverList
      /\ s \in DOMAIN idx
      /\ Exact(serverList[g], idx)
  BY DEF DeleteServer, Indexed, RoomInv
<1>2. CASE x # g
  BY <1>2 DEF DeleteServer, Without, Put, RoomInv, OrderKept
<1>3. CASE x = g
  <2>1. list # << >>
    BY <1>3 DEF DeleteServer, Without
  <2>2. sessionIdx' = Put(sessionIdx, g, idx2)
    BY <2>1 DEF DeleteServer
  <2>3. sessionIdx'[g] = idx2
    BY <2>2 DEF Put
  <2>4. /\ DOMAIN idx2 = DOMAIN idx \ {s}
        /\ \A t \in DOMAIN idx \ {s} :
             idx2[t] = IF idx[t] < idx[s] THEN idx[t] ELSE idx[t] - 1
    <3>1. Shifted(serverList[g], idx, s, list, idx2)
      BY <1>1, <2>1, RemoveExact
    <3> QED
      BY <3>1 DEF Shifted
  <2> HIDE DEF idx2
  <2>5. DOMAIN serverList[g] = 1..Len(serverList[g]) /\ Len(serverList[g]) \in Nat
    BY <1>1, LenProperties DEF Exact
  <2>6. ASSUME NEW t \in DOMAIN idx \ {s}
        PROVE  idx[t] \in Nat /\ idx[t] # idx[s]
    BY <1>1, <2>5 DEF Exact
  <2>7. idx[s] \in Nat
    BY <1>1, <2>5 DEF Exact
  <2>8. ASSUME NEW t \in DOMAIN idx \ {s}, NEW u \in DOMAIN idx \ {s},
               idx[t] < idx[u]
        PROVE  idx2[t] < idx2[u]
    BY <2>4, <2>6, <2>7, <2>8
  <2> QED
    BY <1>3, <2>3, <2>4, <2>8 DEF OrderKept
<1> QED
  BY <1>2, <1>3

\* Rooms are never reordered (backend.go:146-160): FindServers and the two
\* address lookups keep meeting the surviving rooms in registration order.
THEOREM RegistrationOrder == Spec => KeepsRegistrationOrder
<1> DEFINE Kept == \A g \in DOMAIN serverList \cap DOMAIN serverList' :
                    \A i, j \in DOMAIN serverList[g] : i < j =>
                      \A k, l \in DOMAIN serverList'[g] :
                        /\ serverList'[g][k].session = serverList[g][i].session
                        /\ serverList'[g][l].session = serverList[g][j].session
                        => k < l
<1>1. ASSUME RoomInv, RoomInv', [Next]_vars
      PROVE  [Kept]_vars
  <2>1. ASSUME NEW g \in DOMAIN serverList \cap DOMAIN serverList'
        PROVE  OrderKept(g)
    <3>1. ASSUME NEW h \in Games, NEW s \in Sessions, NEW f \in Heartbeats,
                 UpdateServerList(h, s, f)
          PROVE  OrderKept(g)
      BY <1>1, <3>1, UpdateKeepsOrder DEF UpdateServerList
    <3>2. ASSUME NEW h \in Games, NEW s \in Sessions, DeleteServer(h, s)
          PROVE  OrderKept(g)
      BY <1>1, <3>2, DeleteKeepsOrder
    <3>3. ASSUME UNCHANGED roomVars
          PROVE  OrderKept(g)
      BY <3>3 DEF roomVars, OrderKept
    <3> QED
      BY <1>1, <3>1, <3>2, <3>3
      DEF Next, AddNatnegServer, DeleteNatnegServer, vars, roomVars
  <2>2. ASSUME NEW g \in DOMAIN serverList \cap DOMAIN serverList',
               NEW i \in DOMAIN serverList[g], NEW j \in DOMAIN serverList[g], i < j,
               NEW k \in DOMAIN serverList'[g], NEW l \in DOMAIN serverList'[g],
               serverList'[g][k].session = serverList[g][i].session,
               serverList'[g][l].session = serverList[g][j].session
        PROVE  k < l
    <3> DEFINE t == serverList[g][i].session
               u == serverList[g][j].session
    <3>1. /\ t \in DOMAIN sessionIdx[g] /\ sessionIdx[g][t] = i
          /\ u \in DOMAIN sessionIdx[g] /\ sessionIdx[g][u] = j
      BY <1>1 DEF RoomInv, Exact
    <3>2. /\ t \in DOMAIN sessionIdx'[g] /\ sessionIdx'[g][t] = k
          /\ u \in DOMAIN sessionIdx'[g] /\ sessionIdx'[g][u] = l
      BY <1>1, <2>2 DEF RoomInv, Exact
    <3> QED
      BY <2>1, <2>2, <3>1, <3>2 DEF OrderKept
  <2> QED
    BY <2>2
<1>2. RoomInv /\ RoomInv' /\ [Next]_vars => [Kept]_vars
  BY <1>1
<1>3. Spec => []RoomInv
  BY Invariance, PTL
<1>4. Spec => [][Kept]_vars
  BY <1>2, <1>3, PTL DEF Spec
<1> QED
  BY <1>4 DEF KeepsRegistrationOrder

-----------------------------------------------------------------------------
(* Backend implements RoomRegistry *)

Live == {p \in Games \X Sessions : Indexed(p[1], p[2])}
FieldsOf(p) == serverList[p[1]][sessionIdx[p[1]][p[2]]].fields
ByIndex == [p \in Live |-> FieldsOf(p)]

\* With an exact index, what a reader of the slices sees is what the index says.
LEMMA SeenByIndex == RoomInv => RoomsSeen = ByIndex
<1> SUFFICES ASSUME RoomInv PROVE RoomsSeen = ByIndex
  OBVIOUS
<1> DEFINE seen == {q \in Games \X Sessions :
                      /\ q[1] \in DOMAIN serverList
                      /\ \E i \in DOMAIN serverList[q[1]] :
                           serverList[q[1]][i].session = q[2]}
           room(p) == CHOOSE i \in DOMAIN serverList[p[1]] :
                        serverList[p[1]][i].session = p[2]
<1>1. seen = Live
  <2>1. ASSUME NEW q \in Games \X Sessions, q[1] \in DOMAIN serverList
        PROVE  (\E i \in DOMAIN serverList[q[1]] : serverList[q[1]][i].session = q[2])
                 <=> q[2] \in DOMAIN sessionIdx[q[1]]
    BY <2>1 DEF RoomInv, Exact
  <2> QED
    BY <2>1 DEF Live, Indexed, RoomInv
<1>2. ASSUME NEW p \in Live
      PROVE  room(p) = sessionIdx[p[1]][p[2]]
  <2>1. /\ Exact(serverList[p[1]], sessionIdx[p[1]])
        /\ p[2] \in DOMAIN sessionIdx[p[1]]
    BY DEF Live, Indexed, RoomInv
  <2>2. /\ sessionIdx[p[1]][p[2]] \in DOMAIN serverList[p[1]]
        /\ serverList[p[1]][sessionIdx[p[1]][p[2]]].session = p[2]
    BY <2>1 DEF Exact
  <2>3. \A i \in DOMAIN serverList[p[1]] :
          serverList[p[1]][i].session = p[2] => i = sessionIdx[p[1]][p[2]]
    BY <2>1 DEF Exact
  <2> QED
    BY <2>2, <2>3
<1> HIDE DEF seen, room
<1>3. [p \in seen |-> serverList[p[1]][room(p)].fields] = ByIndex
  BY <1>1, <1>2 DEF ByIndex, FieldsOf
<1> QED
  BY <1>3 DEF RoomsSeen, seen, room

\* To a reader of the slices an upsert changes the one room it names.
LEMMA UpdateSeen ==
  ASSUME RoomInv, NEW g \in Games, NEW s \in Sessions, NEW h \in Heartbeats,
         ReplaceRoom(g, s, h) \/ AppendRoom(g, s, h)
  PROVE  /\ Live' = Live \cup {<<g, s>>}
         /\ \A p \in Live' : FieldsOf(p)' = IF p = <<g, s>> THEN h ELSE FieldsOf(p)
<1> DEFINE room == [session |-> s, fields |-> h]
<1>1. CASE ReplaceRoom(g, s, h)
  <2>1. /\ g \in DOMAIN serverList /\ s \in DOMAIN sessionIdx[g]
        /\ Exact(serverList[g], sessionIdx[g])
        /\ sessionIdx' = sessionIdx
    BY <1>1 DEF ReplaceRoom, Indexed, RoomInv
  <2>2. Live' = Live /\ <<g, s>> \in Live
    BY <1>1, <2>1 DEF Live, Indexed, ReplaceRoom
  <2>3. ASSUME NEW p \in Live
        PROVE  FieldsOf(p)' = IF p = <<g, s>> THEN h ELSE FieldsOf(p)
    <3>1. CASE p[1] # g
      BY <3>1, <1>1, <2>1 DEF ReplaceRoom, FieldsOf, Live
    <3>2. CASE p[1] = g /\ p[2] # s
      <4>1. sessionIdx[g][p[2]] # sessionIdx[g][s]
        BY <3>2, <2>1 DEF Exact, Live, Indexed
      <4> QED
        BY <3>2, <4>1, <1>1, <2>1 DEF ReplaceRoom, FieldsOf, Live
    <3>3. CASE p = <<g, s>>
      <4>1. sessionIdx[g][s] \in DOMAIN serverList[g]
        BY <2>1 DEF Exact
      <4>2. serverList'[g][sessionIdx[g][s]] = room
        BY <4>1, <1>1, <2>1 DEF ReplaceRoom
      <4> QED
        BY <3>3, <4>2, <2>1 DEF FieldsOf
    <3> QED
      BY <3>1, <3>2, <3>3 DEF Live
  <2> QED
    BY <2>2, <2>3
<1>2. CASE AppendRoom(g, s, h)
  <2>0. /\ RoomsOf(g) \in Seq(Room)
        /\ room \in Room
        /\ ~Indexed(g, s)
        /\ DOMAIN RoomsOf(g) = 1..Len(RoomsOf(g))
    <3>1. RoomsOf(g) \in Seq(Room)
      BY DEF RoomsOf, RoomInv, Exact
    <3> QED
      BY <3>1, <1>2, LenProperties DEF AppendRoom, Room
  <2>1. /\ serverList' = Put(serverList, g, Append(RoomsOf(g), room))
        /\ sessionIdx' = Put(sessionIdx, g, Put(IndexOf(g), s, Len(RoomsOf(g)) + 1))
    BY <1>2 DEF AppendRoom
  <2>2. Live' = Live \cup {<<g, s>>}
    BY <2>1 DEF Live, Indexed, Put, IndexOf, EmptyMap
  <2>3. /\ \A i \in 1..Len(RoomsOf(g)) : Append(RoomsOf(g), room)[i] = RoomsOf(g)[i]
        /\ Append(RoomsOf(g), room)[Len(RoomsOf(g)) + 1] = room
    BY <2>0, AppendProperties
  <2>4. ASSUME NEW p \in Live'
        PROVE  FieldsOf(p)' = IF p = <<g, s>> THEN h ELSE FieldsOf(p)
    <3>1. CASE p[1] # g
      <4>1. p \in Live
        BY <3>1, <2>2
      <4> QED
        BY <3>1, <4>1, <2>1 DEF FieldsOf, Put, Live, Indexed, RoomInv
    <3>2. CASE p[1] = g /\ p[2] # s
      <4>1. p \in Live
        BY <3>2, <2>2
      <4>2. /\ g \in DOMAIN serverList /\ p[2] \in DOMAIN sessionIdx[g]
            /\ Exact(serverList[g], sessionIdx[g])
            /\ RoomsOf(g) = serverList[g]
            /\ IndexOf(g) = sessionIdx[g]
        BY <3>2, <4>1 DEF Live, Indexed, RoomInv, RoomsOf, IndexOf
      <4>3. sessionIdx[g][p[2]] \in 1..Len(RoomsOf(g))
        BY <4>2, <2>0 DEF Exact
      <4>4. sessionIdx'[g][p[2]] = sessionIdx[g][p[2]]
        BY <3>2, <4>2, <2>1 DEF Put
      <4>5. serverList'[g][sessionIdx[g][p[2]]] = serverList[g][sessionIdx[g][p[2]]]
        <5>1. serverList'[g] = Append(RoomsOf(g), room)
          BY <2>1 DEF Put
        <5> QED
          BY <5>1, <4>2, <4>3, <2>3
      <4> QED
        BY <3>2, <4>4, <4>5 DEF FieldsOf
    <3>3. CASE p = <<g, s>>
      <4>1. /\ serverList'[g] = Append(RoomsOf(g), room)
            /\ sessionIdx'[g][s] = Len(RoomsOf(g)) + 1
        BY <2>1 DEF Put
      <4> QED
        BY <3>3, <4>1, <2>3 DEF FieldsOf
    <3> QED
      BY <3>1, <3>2, <3>3, <2>2 DEF Live
  <2> QED
    BY <2>2, <2>4
<1> QED
  BY <1>1, <1>2

\* To a reader of the slices a removal drops the one room it names.
LEMMA DeleteSeen ==
  ASSUME RoomInv, NEW g \in Games, NEW s \in Sessions, DeleteServer(g, s)
  PROVE  /\ Live' = Live \ {<<g, s>>}
         /\ \A p \in Live' : FieldsOf(p)' = FieldsOf(p)
<1> DEFINE list == RemoveAt(serverList[g], sessionIdx[g][s])
           idx == Reindex(Without(sessionIdx[g], s), list)
<1>1. /\ g \in DOMAIN serverList
      /\ s \in DOMAIN sessionIdx[g]
      /\ Exact(serverList[g], sessionIdx[g])
  BY DEF DeleteServer, Indexed, RoomInv
<1>2. CASE list = << >>
  <2>1. /\ serverList' = Without(serverList, g)
        /\ sessionIdx' = Without(sessionIdx, g)
    BY <1>2 DEF DeleteServer
  <2>2. DOMAIN sessionIdx[g] = {s}
    <3>1. Len(serverList[g]) - 1 = 0 /\ DOMAIN serverList[g] = 1..Len(serverList[g])
      <4>1. serverList[g] \in Seq(Room) /\ sessionIdx[g][s] \in 1..Len(serverList[g])
        BY <1>1, LenProperties DEF Exact
      <4>2. Len(list) = Len(serverList[g]) - 1
        BY <4>1, RemoveAtProperties
      <4> QED
        BY <1>2, <4>1, <4>2, LenProperties
    <3>2. DOMAIN serverList[g] = {1}
      BY <3>1, <1>1, LenProperties DEF Exact
    <3>3. \A t \in DOMAIN sessionIdx[g] :
            sessionIdx[g][t] = 1 /\ serverList[g][sessionIdx[g][t]].session = t
      BY <3>2, <1>1 DEF Exact
    <3> QED
      BY <3>3, <1>1
  <2>3. Live' = Live \ {<<g, s>>}
    BY <2>1, <2>2, <1>1 DEF Live, Indexed, Without
  <2>4. ASSUME NEW p \in Live'
        PROVE  FieldsOf(p)' = FieldsOf(p)
    BY <2>1 DEF Live, Indexed, FieldsOf, Without, RoomInv
  <2> QED
    BY <2>3, <2>4
<1>3. CASE list # << >>
  <2>1. Shifted(serverList[g], sessionIdx[g], s, list, idx)
    BY <1>1, <1>3, RemoveExact
  <2>2. serverList' = Put(serverList, g, list) /\ sessionIdx' = Put(sessionIdx, g, idx)
    BY <1>3 DEF DeleteServer
  <2> HIDE DEF list, idx
  <2>3. Live' = Live \ {<<g, s>>}
    <3>1. /\ DOMAIN sessionIdx' = DOMAIN sessionIdx
          /\ sessionIdx'[g] = idx
          /\ \A x \in DOMAIN sessionIdx : x # g => sessionIdx'[x] = sessionIdx[x]
      BY <1>1, <2>2 DEF Put, RoomInv
    <3>2. DOMAIN idx = DOMAIN sessionIdx[g] \ {s}
      BY <2>1 DEF Shifted
    <3>3. ASSUME NEW p \in Games \X Sessions
          PROVE  Indexed(p[1], p[2])' <=> Indexed(p[1], p[2]) /\ p # <<g, s>>
      BY <3>1, <3>2, <1>1 DEF Indexed
    <3> QED
      BY <3>3 DEF Live
  <2>4. ASSUME NEW p \in Live'
        PROVE  FieldsOf(p)' = FieldsOf(p)
    <3>1. CASE p[1] # g
      BY <3>1, <2>2, <2>3 DEF Live, Indexed, Put, FieldsOf, RoomInv
    <3>2. CASE p[1] = g
      <4>1. p[2] \in DOMAIN idx
        BY <3>2, <2>2 DEF Live, Indexed, Put
      <4>2. list[idx[p[2]]] = serverList[g][sessionIdx[g][p[2]]]
        BY <4>1, <2>1 DEF Shifted
      <4> QED
        BY <3>2, <4>2, <2>2 DEF FieldsOf, Put
    <3> QED
      BY <3>1, <3>2
  <2> QED
    BY <2>3, <2>4
<1> QED
  BY <1>2, <1>3

\* The slice, its in-place removals and its index behave as a map from
\* <<game, session>> to the last registered fields (backend.go:84-160).
THEOREM Refinement == Spec => ImplementsRoomRegistry
<1>1. Init => Registry!Init
  BY DEF Init, EmptyMap, RoomsSeen, Registry!Init, Registry!NoRooms
<1>2. ASSUME RoomInv, RoomsSeen = ByIndex, RoomsSeen' = ByIndex', [Next]_vars
      PROVE  [Registry!Next]_RoomsSeen
  <2>1. ASSUME NEW g \in Games, NEW s \in Sessions, NEW h \in Heartbeats,
               UpdateServerList(g, s, h)
        PROVE  Registry!Upsert(g, s, h)
    <3>1. /\ Live' = Live \cup {<<g, s>>}
          /\ \A p \in Live' : FieldsOf(p)' = IF p = <<g, s>> THEN h ELSE FieldsOf(p)
      BY <1>2, <2>1, UpdateSeen DEF UpdateServerList
    <3> QED
      BY <1>2, <3>1 DEF ByIndex, Registry!Upsert
  <2>2. ASSUME NEW g \in Games, NEW s \in Sessions, DeleteServer(g, s)
        PROVE  Registry!Remove(g, s)
    <3>1. /\ Live' = Live \ {<<g, s>>}
          /\ \A p \in Live' : FieldsOf(p)' = FieldsOf(p)
      BY <1>2, <2>2, DeleteSeen
    <3> QED
      BY <1>2, <3>1 DEF ByIndex, Registry!Remove
  <2>3. ASSUME UNCHANGED roomVars
        PROVE  UNCHANGED RoomsSeen
    BY <2>3 DEF roomVars, RoomsSeen
  <2> QED
    BY <1>2, <2>1, <2>2, <2>3
    DEF Next, AddNatnegServer, DeleteNatnegServer, vars, roomVars, Registry!Next
<1>3. RoomInv /\ RoomInv' /\ [Next]_vars => [Registry!Next]_RoomsSeen
  <2>1. RoomInv' => (RoomsSeen = ByIndex)'
    BY SeenByIndex, PTL
  <2> QED
    BY <1>2, <2>1, SeenByIndex
<1>4. Spec => []RoomInv
  BY Invariance, PTL
<1>5. Spec => Registry!Init /\ [][Registry!Next]_RoomsSeen
  BY <1>1, <1>3, <1>4, PTL DEF Spec
<1> QED
  BY <1>5 DEF ImplementsRoomRegistry, Registry!Spec
=============================================================================
