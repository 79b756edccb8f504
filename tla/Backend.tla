------------------------------ MODULE Backend -------------------------------
(***************************************************************************)
(* internal/backend/backend.go: the in-process registry shared by QR, the  *)
(* server browser and NATNEG.  Every method runs under the backend's one   *)
(* RWMutex, so each is one action.  Rooms of a game are kept in a slice    *)
(* (the order in which queries scan them) and are found by session through *)
(* an index that has to be rebuilt whenever a removal shifts the slice.    *)
(* Positions count from 1 here and from 0 in the code.                     *)
(***************************************************************************)
EXTENDS Naturals, Sequences

CONSTANTS Games,              \* game ids
          Sessions,           \* QR session ids
          Heartbeats,         \* the field maps that heartbeats register
          Peers,              \* the flat maps of rooms handed to NATNEG:
                              \* records with publicip and publicport
          Cookies,            \* NATNEG cookies
          MaxNatnegEntries    \* 8 in the code

ASSUME MaxNatnegAssumption == MaxNatnegEntries \in Nat \ {0}

VARIABLES serverList,   \* game |-> sequence of rooms, only games with rooms
          sessionIdx,   \* game |-> (session |-> position in serverList[game])
          natnegList    \* cookie |-> sequence of peer field maps

roomVars == <<serverList, sessionIdx>>
vars == <<serverList, sessionIdx, natnegList>>

Room == [session : Sessions, fields : Heartbeats]

-----------------------------------------------------------------------------
(* Go maps as functions with a varying domain. *)

EmptyMap == [k \in {} |-> {}]
Put(m, k, v) == [x \in DOMAIN m \cup {k} |-> IF x = k THEN v ELSE m[x]]
Without(m, k) == [x \in DOMAIN m \ {k} |-> m[x]]

Init ==
  /\ serverList = EmptyMap
  /\ sessionIdx = EmptyMap
  /\ natnegList = EmptyMap

-----------------------------------------------------------------------------
(* Rooms *)

Indexed(g, s) == g \in DOMAIN sessionIdx /\ s \in DOMAIN sessionIdx[g]

RoomsOf(g) == IF g \in DOMAIN serverList THEN serverList[g] ELSE << >>
IndexOf(g) == IF g \in DOMAIN sessionIdx THEN sessionIdx[g] ELSE EmptyMap

\* Faulty: the heartbeat is written over the last room.
ReplaceLastRoom(g, s, h) ==
  /\ Indexed(g, s)
  /\ serverList' = [serverList EXCEPT ![g][Len(serverList[g])] =
                      [session |-> s, fields |-> h]]
  /\ UNCHANGED sessionIdx

ReplaceRoom(g, s, h) ==
  /\ Indexed(g, s)
  /\ serverList' = [serverList EXCEPT ![g][sessionIdx[g][s]] =
                      [session |-> s, fields |-> h]]
  /\ UNCHANGED sessionIdx

\* Faulty: the room is indexed under the length from before the append.
AppendRoomOffByOne(g, s, h) ==
  /\ ~Indexed(g, s)
  /\ serverList' = Put(serverList, g,
                       Append(RoomsOf(g), [session |-> s, fields |-> h]))
  /\ sessionIdx' = Put(sessionIdx, g, Put(IndexOf(g), s, Len(RoomsOf(g)) - 1))

AppendRoom(g, s, h) ==
  /\ ~Indexed(g, s)
  /\ serverList' = Put(serverList, g,
                       Append(RoomsOf(g), [session |-> s, fields |-> h]))
  /\ sessionIdx' = Put(sessionIdx, g,
                       Put(IndexOf(g), s, Len(RoomsOf(g)) + 1))

UpdateServerList(g, s, h) ==
  /\ ReplaceRoom(g, s, h) \/ AppendRoom(g, s, h)
  /\ UNCHANGED natnegList

\* Faulty: the last room fills the hole.
RemoveAtBySwap(list, i) ==
  SubSeq([list EXCEPT ![i] = list[Len(list)]], 1, Len(list) - 1)

RemoveAt(list, i) == SubSeq(list, 1, i - 1) \o SubSeq(list, i + 1, Len(list))

\* Faulty: the loop is left out.
ReindexNothing(idx, list) == idx

(* The loop after a removal writes every remaining room's position over    *)
(* whatever the index held; a session met twice would keep the later one.  *)
Reindex(idx, list) ==
  LET at(s) == {i \in DOMAIN list : list[i].session = s}
  IN  [s \in DOMAIN idx \cup {list[i].session : i \in DOMAIN list} |->
         IF at(s) = {} THEN idx[s]
         ELSE CHOOSE i \in at(s) : \A j \in at(s) : j <= i]

DeleteServer(g, s) ==
  /\ Indexed(g, s)      \* otherwise the method returns without a change
  /\ LET list == RemoveAt(serverList[g], sessionIdx[g][s])
     IN  IF list = << >>
         THEN /\ serverList' = Without(serverList, g)
              /\ sessionIdx' = Without(sessionIdx, g)
         ELSE /\ serverList' = Put(serverList, g, list)
              /\ sessionIdx' = Put(sessionIdx, g,
                                   Reindex(Without(sessionIdx[g], s), list))
  /\ UNCHANGED natnegList

-----------------------------------------------------------------------------
(* NATNEG entries *)

Endpoint(peer) == <<peer.publicip, peer.publicport>>

EntriesOf(c) == IF c \in DOMAIN natnegList THEN natnegList[c] ELSE << >>

\* Faulty: one entry too many.
AddNatnegServerPastCap(c, peer) ==
  /\ \A i \in DOMAIN EntriesOf(c) : Endpoint(EntriesOf(c)[i]) # Endpoint(peer)
  /\ Len(EntriesOf(c)) <= MaxNatnegEntries
  /\ natnegList' = Put(natnegList, c, Append(EntriesOf(c), peer))
  /\ UNCHANGED roomVars

AddNatnegServer(c, peer) ==
  /\ \A i \in DOMAIN EntriesOf(c) : Endpoint(EntriesOf(c)[i]) # Endpoint(peer)
  /\ Len(EntriesOf(c)) < MaxNatnegEntries
  /\ natnegList' = Put(natnegList, c, Append(EntriesOf(c), peer))
  /\ UNCHANGED roomVars

DeleteNatnegServer(c) ==
  /\ c \in DOMAIN natnegList
  /\ natnegList' = Without(natnegList, c)
  /\ UNCHANGED roomVars

-----------------------------------------------------------------------------
Next ==
  \/ \E g \in Games, s \in Sessions :
       \/ \E h \in Heartbeats : UpdateServerList(g, s, h)
       \/ DeleteServer(g, s)
  \/ \E c \in Cookies :
       \/ \E peer \in Peers : AddNatnegServer(c, peer)
       \/ DeleteNatnegServer(c)

Spec == Init /\ [][Next]_vars

-----------------------------------------------------------------------------
(* The maps hold rooms, positions and peers.  (The Go types say no more.) *)
TypeOK ==
  /\ DOMAIN serverList \subseteq Games
  /\ \A g \in DOMAIN serverList : serverList[g] \in Seq(Room)
  /\ DOMAIN sessionIdx \subseteq Games
  /\ \A g \in DOMAIN sessionIdx :
       /\ DOMAIN sessionIdx[g] \subseteq Sessions
       /\ \A s \in DOMAIN sessionIdx[g] : sessionIdx[g][s] \in Nat
  /\ DOMAIN natnegList \subseteq Cookies
  /\ \A c \in DOMAIN natnegList : natnegList[c] \in Seq(Peers)

(* The index is the exact inverse of the slice, after any sequence of      *)
(* upserts and of removals that shift the slice under it.  An entry one    *)
(* position off makes the next upsert overwrite, or the next removal drop, *)
(* another host's room; an entry missing registers the host twice; a game  *)
(* left without rooms keeps neither map entry (backend.go:103-160).        *)
IndexExact ==
  /\ DOMAIN sessionIdx = DOMAIN serverList
  /\ \A g \in DOMAIN serverList :
       /\ serverList[g] # << >>
       /\ \A i \in DOMAIN serverList[g] :
            /\ serverList[g][i].session \in DOMAIN sessionIdx[g]
            /\ sessionIdx[g][serverList[g][i].session] = i
       /\ \A s \in DOMAIN sessionIdx[g] :
            /\ sessionIdx[g][s] \in DOMAIN serverList[g]
            /\ serverList[g][sessionIdx[g][s]].session = s

(* A cookie never accumulates more peers than the cap, nor the same public *)
(* endpoint twice, however often the browser registers the two sides of a  *)
(* join (backend.go:283-302).                                              *)
NatnegBounded ==
  \A c \in DOMAIN natnegList :
    /\ natnegList[c] # << >>
    /\ Len(natnegList[c]) <= MaxNatnegEntries
    /\ \A i, j \in DOMAIN natnegList[c] :
         i # j => Endpoint(natnegList[c][i]) # Endpoint(natnegList[c][j])

(* Rooms keep the order in which they were registered: no step moves one   *)
(* surviving room in front of another.  FindServers with a maximum count   *)
(* and both address lookups answer from the front of the slice, so a       *)
(* removal that swapped the last room into the hole would change who is    *)
(* found without any host having done anything (backend.go:146-160).       *)
KeepsRegistrationOrder ==
  [][\A g \in DOMAIN serverList \cap DOMAIN serverList' :
       \A i, j \in DOMAIN serverList[g] : i < j =>
         \A k, l \in DOMAIN serverList'[g] :
           /\ serverList'[g][k].session = serverList[g][i].session
           /\ serverList'[g][l].session = serverList[g][j].session
           => k < l]_vars

(* The registry a reader of the slice sees. *)
RoomsSeen ==
  LET room(p) == CHOOSE i \in DOMAIN serverList[p[1]] :
                   serverList[p[1]][i].session = p[2]
  IN  [p \in {q \in Games \X Sessions :
                /\ q[1] \in DOMAIN serverList
                /\ \E i \in DOMAIN serverList[q[1]] :
                     serverList[q[1]][i].session = q[2]} |->
         serverList[p[1]][room(p)].fields]

Registry == INSTANCE RoomRegistry WITH rooms <- RoomsSeen

(* The slice and its index implement the map of rooms: an operation on one *)
(* game and session changes that room, as asked, and no other.             *)
ImplementsRoomRegistry == Registry!Spec
=============================================================================
