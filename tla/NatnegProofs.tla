---------------------------- MODULE NatnegProofs ----------------------------
(***************************************************************************)
(* Theorems about Natneg for any number of cookies, players and arrays:    *)
(* the types of what its two goroutines share, and that the answers of the *)
(* three lookups never end up in a CONNECT about somebody else, except     *)
(* through a removal that turns a record before it is read.                *)
(***************************************************************************)
EXTENDS Natneg, RoomSlicesProofs

LP == INSTANCE LookupProofs

-----------------------------------------------------------------------------
(* Types *)

ClientMap == UNION {[S -> BOOLEAN] : S \in SUBSET Players}

Locals == {"at", "id", "self", "others", "about", "ports", "pointer", "moved"}
Stages == {"entry", "local", "address", "read", "send"}

(* The packet goroutine works on a pair. *)
Working ==
  /\ DOMAIN handler = Locals
  /\ handler.at \in Stages
  /\ handler.id \in Ids
  /\ handler.self \in Players
  /\ handler.others \subseteq Players \ {handler.self}
  /\ handler.about \in handler.others \cup {handler.self}
  /\ DOMAIN handler.ports \subseteq handler.others \cup {handler.self}

(* TypeOK, and what it needs of CONNECTs and of the clients. *)
TypeInv ==
  /\ DOMAIN sessions \subseteq Ids
  /\ \A id \in DOMAIN sessions : sessions[id] \in [idle : 0..(TTL + 1), clients : ClientMap]
  /\ handler = Idle \/ Working
  /\ cleaner \subseteq Ids
  /\ \A m \in mail : m.id \in Ids /\ m.to \in Players
  /\ got \subseteq Ids \X Players
  /\ DOMAIN natnegList \subseteq Ids

-----------------------------------------------------------------------------
(* Whom the answers are about *)

(* The rooms that are ever registered. *)
Own == {room \in B!Room : room.session \in Hosts /\ room.fields = Reg[room.session]}

Memory == Layout(Own) /\ BP!RoomInv

(* The record that a lookup for p returned, read now, is a room at p's     *)
(* address.  It is not behind the end of its slice, where an append would  *)
(* write.                                                                  *)
ReadsRoomAt(p, pointer) ==
  /\ pointer \in Pointers
  /\ pointer.index \in 1..Len(arrays[pointer.array])
  /\ Deref(pointer) \in Own
  /\ Lookup!Matches(Deref(pointer), Addr[p].ip)
  /\ ~BehindEnd(pointer.array, pointer.index)

EntriesTyped == \A id \in DOMAIN natnegList : natnegList[id] \in Seq(Heartbeats)

(* The sender's lookup comes first, and CONNECTs follow the last one. *)
PortsKnown ==
  handler # Idle =>
    /\ \A p \in DOMAIN handler.ports : p \in handler.moved \/ handler.ports[p] \in PortsAt(p)
    /\ handler.self = handler.about \/ handler.self \in DOMAIN handler.ports
    /\ handler.at = "send" => handler.others \cup {handler.self} \subseteq DOMAIN handler.ports

RecordRight ==
  handler # Idle /\ handler.at = "read" =>
    handler.about \in handler.moved \/ ReadsRoomAt(handler.about, handler.pointer)

Inv == TypeInv /\ Memory /\ EntriesTyped /\ PortsKnown /\ RecordRight /\ ConnectPointsAtPeer

-----------------------------------------------------------------------------
(* The types are invariant *)

\* The handler goes to the lookup for another client or to the CONNECTs
\* (natneg/server.go:252-301).
LEMMA SettleEffect ==
  ASSUME Working, NEW registered, Settle(registered)
  PROVE  /\ Working'
         /\ handler'.id = handler.id
         /\ handler'.self = handler.self /\ handler'.others = handler.others
         /\ handler'.moved = handler.moved
         /\ handler'.ports = B!Put(handler.ports, handler.about,
                                   PublicPort(handler.about, registered))
         /\ \/ handler'.at = "send" /\ handler.others \ DOMAIN handler'.ports = {}
            \/ handler'.at = "entry"
<1> DEFINE ports == B!Put(handler.ports, handler.about, PublicPort(handler.about, registered))
           left == handler.others \ DOMAIN ports
<1>1. DOMAIN ports = DOMAIN handler.ports \cup {handler.about}
  BY DEF B!Put
<1> HIDE DEF ports
<1>2. \/ /\ left = {}
         /\ handler' = [handler EXCEPT !.at = "send", !.ports = ports, !.pointer = Nil]
      \/ \E q \in left : handler' = [handler EXCEPT !.at = "entry", !.about = q,
                                                    !.ports = ports, !.pointer = Nil]
  BY DEF Settle, ports
<1>3. handler'.ports = ports
  BY <1>2 DEF Working, Locals
<1>4. CASE /\ left = {}
           /\ handler' = [handler EXCEPT !.at = "send", !.ports = ports, !.pointer = Nil]
  <2>1. Working'
    BY <1>1, <1>4 DEF Working, Locals, Stages
  <2> QED
    BY <1>3, <1>4, <2>1 DEF Working, Locals, ports
<1>5. ASSUME NEW q \in left,
             handler' = [handler EXCEPT !.at = "entry", !.about = q,
                                        !.ports = ports, !.pointer = Nil]
      PROVE  Working' /\ handler'.at = "entry" /\ handler'.id = handler.id
             /\ handler'.self = handler.self /\ handler'.others = handler.others
             /\ handler'.moved = handler.moved
  BY <1>1, <1>5 DEF Working, Locals, Stages
<1> QED
  BY <1>2, <1>3, <1>4, <1>5 DEF ports

\* A lookup hands over to the next one, to the reading of its record or to
\* the next client (natneg/server.go:430-485).
LEMMA LookupEffect ==
  ASSUME Working, LookupEntry \/ LookupLocal \/ LookupAddress \/ ReadRecord
  PROVE  /\ Working'
         /\ UNCHANGED <<slices, sessionIdx, natnegList, sessions, cleaner, mail, got>>
<1>1. UNCHANGED <<slices, sessionIdx, natnegList, sessions, cleaner, mail, got>>
  BY DEF LookupEntry, LookupLocal, LookupAddress, ReadRecord, sliceVars
<1>2. \/ \E registered : Settle(registered)
      \/ \E at \in Stages : handler' = [handler EXCEPT !.at = at]
      \/ \E pointer : handler' = [handler EXCEPT !.at = "read", !.pointer = pointer]
  BY DEF LookupEntry, LookupLocal, LookupAddress, ReadRecord, Follow, Stages
<1>3. ASSUME NEW at \in Stages, handler' = [handler EXCEPT !.at = at]
      PROVE  Working'
  BY <1>3 DEF Working, Locals
<1>4. ASSUME NEW pointer, handler' = [handler EXCEPT !.at = "read", !.pointer = pointer]
      PROVE  Working'
  BY <1>4 DEF Working, Locals, Stages
<1> QED
  BY <1>1, <1>2, <1>3, <1>4, SettleEffect

\* What a session's clients may be once one slot was (re)opened or marked.
LEMMA ClientMaps ==
  ASSUME NEW S \in SUBSET Players, NEW clients \in [S -> BOOLEAN]
  PROVE  clients \in ClientMap
BY DEF ClientMap

\* The handler pairs the sender with other players (natneg/server.go:228-250).
LEMMA ReceiveInitEffect ==
  ASSUME TypeInv, NEW id \in Ids, NEW p \in Players, ReceiveInit(id, p)
  PROVE  /\ TypeInv'
         /\ handler' = Idle \/ /\ Working' /\ handler'.at = "entry"
                               /\ handler'.self = p /\ handler'.about = p
                               /\ handler'.ports = B!EmptyMap
<1> DEFINE clients == IF Live(id) THEN sessions[id].clients ELSE B!EmptyMap
           others == {q \in DOMAIN clients \ {p} : ~clients[q]}
           new == [idle |-> 0, clients |-> B!Put(clients, p, FALSE)]
           work == [at |-> "entry", id |-> id, self |-> p, others |-> others,
                    about |-> p, ports |-> B!EmptyMap, pointer |-> Nil,
                    moved |-> {}]
<1>1. clients \in ClientMap
  <2>1. CASE Live(id)
    BY <2>1 DEF TypeInv, Live
  <2>2. CASE ~Live(id)
    BY <2>2 DEF B!EmptyMap, ClientMap
  <2> QED
    BY <2>1, <2>2
<1> HIDE DEF clients
<1>2. PICK S \in SUBSET Players : clients \in [S -> BOOLEAN]
  BY <1>1 DEF ClientMap
<1>3. B!Put(clients, p, FALSE) \in [S \cup {p} -> BOOLEAN]
  BY <1>2 DEF B!Put
<1>4. new \in [idle : 0..(TTL + 1), clients : ClientMap]
  <2>1. S \cup {p} \in SUBSET Players
    BY <1>2
  <2>2. B!Put(clients, p, FALSE) \in ClientMap
    BY <1>3, <2>1, ClientMaps
  <2>3. 0 \in 0..(TTL + 1)
    BY NatnegAssumption
  <2> QED
    BY <2>2, <2>3
<1>5. others \subseteq Players \ {p}
  BY <1>2
<1>6. /\ sessions' = B!Put(sessions, id, new)
      /\ handler' = IF others = {} THEN Idle ELSE work
      /\ UNCHANGED <<natnegList, cleaner, mail, got>>
  BY DEF ReceiveInit, clients
<1> HIDE DEF new
<1>7. /\ DOMAIN sessions' \subseteq Ids
      /\ \A i \in DOMAIN sessions' : sessions'[i] \in [idle : 0..(TTL + 1), clients : ClientMap]
  BY <1>4, <1>6 DEF B!Put, TypeInv
<1> HIDE DEF others
<1>8. handler' = Idle \/ /\ Working' /\ handler'.at = "entry"
                         /\ handler'.self = p /\ handler'.about = p
                         /\ handler'.ports = B!EmptyMap
  BY <1>5, <1>6 DEF Working, Locals, Stages, B!EmptyMap
<1> QED
  BY <1>6, <1>7, <1>8 DEF TypeInv

\* Every step of the goroutines, the players, QR and the browser keeps types.
LEMMA StepKeepsTypes == TypeInv /\ [Next]_vars => TypeInv'
<1> SUFFICES ASSUME TypeInv, [Next]_vars PROVE TypeInv'
  OBVIOUS
<1> DEFINE Session == [idle : 0..(TTL + 1), clients : ClientMap]
<1>1. ASSUME NEW id \in Ids, NEW p \in Players, ReceiveInit(id, p)
      PROVE  TypeInv'
  BY <1>1, ReceiveInitEffect
<1>2. ASSUME NEW id \in Ids, NEW p \in Players, ReceiveConnectAck(id, p)
      PROVE  TypeInv'
  <2> DEFINE old == sessions[id].clients
             acked == IF p \in DOMAIN old THEN B!Put(old, p, TRUE) ELSE old
             new == [idle |-> 0, clients |-> acked]
  <2>1. id \in DOMAIN sessions /\ old \in ClientMap
    BY <1>2 DEF ReceiveConnectAck, Live, TypeInv
  <2> HIDE DEF old
  <2>2. PICK S \in SUBSET Players : old \in [S -> BOOLEAN]
    BY <2>1 DEF ClientMap
  <2>3. acked \in [S -> BOOLEAN]
    BY <2>2 DEF B!Put
  <2>4. new \in Session
    <3>1. acked \in ClientMap
      BY <2>2, <2>3, ClientMaps
    <3>2. 0 \in 0..(TTL + 1)
      BY NatnegAssumption
    <3> HIDE DEF acked
    <3> QED
      BY <3>1, <3>2
  <2>5. /\ sessions' = [sessions EXCEPT ![id] = new]
        /\ UNCHANGED <<natnegList, handler, cleaner, mail, got>>
    BY <1>2 DEF ReceiveConnectAck, old
  <2> HIDE DEF new, Session
  <2>6. DOMAIN sessions' = DOMAIN sessions /\ \A i \in DOMAIN sessions' : sessions'[i] \in Session
    BY <2>4, <2>5 DEF TypeInv, Session
  <2> QED
    BY <2>5, <2>6 DEF TypeInv, Working, Session
<1>3. ASSUME NEW id \in Ids, NEW p \in Players, SeedEntry(id, p)
      PROVE  TypeInv'
  BY <1>3 DEF SeedEntry, Registry!AddNatnegServer, Registry!Put, serverVars, TypeInv, Working
<1>4. ASSUME NEW id \in Ids, ClearEntries(id)
      PROVE  TypeInv'
  BY <1>4 DEF ClearEntries, Registry!Without, TypeInv, Working
<1>5. CASE LookupEntry \/ LookupLocal \/ LookupAddress \/ ReadRecord
  <2>1. Working
    <3>1. handler # Idle
      BY <1>5 DEF LookupEntry, LookupLocal, LookupAddress, ReadRecord, Idle
    <3> QED
      BY <3>1 DEF TypeInv
  <2> QED
    BY <1>5, <2>1, LookupEffect DEF TypeInv
<1>6. CASE SendConnects
  <2>1. handler # Idle
    BY <1>6 DEF SendConnects, Idle
  <2>2. /\ \A m \in mail' : m.id \in Ids /\ m.to \in Players
    BY <1>6, <2>1 DEF SendConnects, Connect, TypeInv, Working
  <2> QED
    BY <1>6, <2>2 DEF SendConnects, TypeInv
<1>7. CASE Expire
  BY <1>7 DEF Expire, TypeInv, Working
<1>8. CASE Tick
  <2>1. ASSUME NEW id \in DOMAIN sessions
        PROVE  [sessions[id] EXCEPT !.idle = IF @ > TTL THEN @ ELSE @ + 1] \in Session
    <3> DEFINE idle == sessions[id].idle
               older == IF idle > TTL THEN idle ELSE idle + 1
    <3>1. sessions[id] \in Session
      BY DEF TypeInv
    <3>2. idle \in 0..(TTL + 1)
      BY <3>1
    <3>3. older \in 0..(TTL + 1)
      BY <3>2, NatnegAssumption
    <3>4. [sessions[id] EXCEPT !.idle = IF @ > TTL THEN @ ELSE @ + 1]
            = [sessions[id] EXCEPT !.idle = older]
      OBVIOUS
    <3> HIDE DEF older, idle
    <3> QED
      BY <3>1, <3>3, <3>4
  <2> QED
    BY <1>8, <2>1 DEF Tick, TypeInv, Working
<1>9. ASSUME NEW m \in mail, Deliver(m) \/ Lose(m)
      PROVE  TypeInv'
  BY <1>9 DEF Deliver, Lose, TypeInv, Working
<1>10. ASSUME NEW p \in Players, AdvertiseRoom(p) \/ RemoveRoom(p)
       PROVE  TypeInv'
  <2>1. UNCHANGED <<natnegList, sessions, cleaner, mail, got>>
    BY <1>10 DEF AdvertiseRoom, RemoveRoom, serverVars
  <2>2. handler' = handler \/ \E moved : handler # Idle /\ handler' = [handler EXCEPT !.moved = moved]
    BY <1>10 DEF AdvertiseRoom, RemoveRoom, serverVars
  <2>3. ASSUME NEW moved, handler # Idle, handler' = [handler EXCEPT !.moved = moved]
        PROVE  Working'
    BY <2>3 DEF TypeInv, Working, Locals
  <2>4. handler' = Idle \/ Working'
    BY <2>2, <2>3 DEF TypeInv, Working
  <2> QED
    BY <2>1, <2>4 DEF TypeInv
<1>11. CASE UNCHANGED vars
  BY <1>11 DEF vars, TypeInv, Working
<1> QED
  BY <1>1, <1>2, <1>3, <1>4, <1>5, <1>6, <1>7, <1>8, <1>9, <1>10, <1>11
  DEF Next, HandlerStep

\* The two stretches of the clean-up, the packet goroutine's locals and the
\* sessions keep their types, and no player is paired with itself
\* (natneg/server.go:171-301).
THEOREM TypeCorrect == Spec => []TypeOK
<1>1. Init => TypeInv
  BY DEF Init, TypeInv, B!EmptyMap
<1>2. TypeInv => TypeOK
  <2> SUFFICES ASSUME TypeInv PROVE TypeOK
    OBVIOUS
  <2>1. ASSUME NEW id \in DOMAIN sessions
        PROVE  /\ sessions[id].idle \in 0..(TTL + 1)
               /\ DOMAIN sessions[id].clients \subseteq Players
               /\ \A p \in DOMAIN sessions[id].clients : sessions[id].clients[p] \in BOOLEAN
    <3>1. sessions[id].idle \in 0..(TTL + 1) /\ sessions[id].clients \in ClientMap
      BY DEF TypeInv
    <3>2. PICK S \in SUBSET Players : sessions[id].clients \in [S -> BOOLEAN]
      BY <3>1 DEF ClientMap
    <3> QED
      BY <3>1, <3>2
  <2> QED
    BY <2>1 DEF TypeInv, TypeOK, Working, Stages
<1> QED
  BY <1>1, <1>2, StepKeepsTypes, PTL DEF Spec

-----------------------------------------------------------------------------
(* What the lookups return *)

\* What LookupProofs says of the searches, for NATNEG's (backend.go:197-268).
LEMMA FoundLocally ==
  ASSUME NEW S, NEW list \in Seq(S), NEW ip, NEW local,
         Lookup!FindServerByLocalAddress(list, ip, local) # Lookup!NotFound
  PROVE  LET i == Lookup!FindServerByLocalAddress(list, ip, local)
         IN  i \in 1..Len(list) /\ Lookup!Matches(list[i], ip)
<1> DEFINE i == LP!FindServerByLocalAddress(list, ip, local)
<1>1. \A room, l, k, acc : LP!Visit(room, ip, l, k, acc) = Lookup!Visit(room, ip, l, k, acc)
  BY DEF LP!Visit, Lookup!Visit, LP!Matches, Lookup!Matches, LP!NotFound, Lookup!NotFound
<1>2. LP!Pass(list, ip, local) = Lookup!Pass(list, ip, local)
  BY <1>1 DEF LP!Pass, Lookup!Pass, LP!NotFound, Lookup!NotFound
<1>3. i = Lookup!FindServerByLocalAddress(list, ip, local)
  BY <1>2 DEF LP!FindServerByLocalAddress, Lookup!FindServerByLocalAddress
<1>4. i # LP!NotFound => i \in 1..Len(list) /\ LP!Matches(list[i], ip)
  BY LP!FoundIsBehind
<1> HIDE DEF i
<1> QED
  BY <1>3, <1>4 DEF LP!Matches, Lookup!Matches, LP!NotFound, Lookup!NotFound

\* The same of the search by public endpoint (backend.go:197-229).
LEMMA FoundByAddress ==
  ASSUME NEW S, NEW list \in Seq(S), NEW ip, NEW port,
         Lookup!FindServerByAddress(list, ip, port) # Lookup!NotFound
  PROVE  LET i == Lookup!FindServerByAddress(list, ip, port)
         IN  i \in 1..Len(list) /\ Lookup!Matches(list[i], ip)
<1> DEFINE i == LP!FindServerByAddress(list, ip, port)
<1>1. /\ i = Lookup!FindServerByAddress(list, ip, port)
      /\ \A room : LP!Matches(room, ip) <=> Lookup!Matches(room, ip)
      /\ LP!NotFound = Lookup!NotFound
  BY DEF LP!FindServerByAddress, Lookup!FindServerByAddress, LP!Matches, Lookup!Matches,
         LP!NotFound, Lookup!NotFound, LP!Min, Lookup!Min
<1>2. i # LP!NotFound => i \in 1..Len(list) /\ LP!Matches(list[i], ip)
  BY LP!FirstAtAddress
<1> HIDE DEF i
<1> QED
  BY <1>1, <1>2

\* The first of the entries that match is one that matches.
LEMMA FirstEntry ==
  ASSUME NEW hits \in SUBSET Nat, hits # {}
  PROVE  Lookup!Min(hits) \in hits
<1>1. LP!Min(hits) \in hits
  BY LP!MinProperties
<1> QED
  BY <1>1 DEF LP!Min, Lookup!Min

(* The ports registered from p's address, and what publicPort makes of    *)
(* no answer.                                                              *)
Registered(p) == {0} \cup {Reg[q].publicport : q \in Neighbours(p)}

\* A room, an entry or the INIT gives a port of the player asked for
\* (natneg/server.go:317-326).
LEMMA PublicPortIsOwn ==
  ASSUME NEW p \in Players, NEW registered \in Registered(p)
  PROVE  PublicPort(p, registered) \in PortsAt(p)
<1>1. CASE registered > 0
  <2>1. registered # 0
    BY <1>1
  <2> QED
    BY <1>1, <2>1 DEF Registered, PublicPort, PortsAt
<1>2. CASE ~(registered > 0)
  BY <1>2 DEF PublicPort, PortsAt
<1> QED
  BY <1>1, <1>2

\* A position that a search returned is a pointer to a room at the address
\* of the player asked for.
LEMMA PointerIsRight ==
  ASSUME Memory, NEW p \in Players, NEW i \in 1..Len(Rooms),
         Lookup!Matches(Rooms[i], Addr[p].ip)
  PROVE  ReadsRoomAt(p, Pointer(Game, i))
<1>1. Game \in DOMAIN slices /\ Rooms = Lists[Game]
  BY EmptySeq DEF Rooms
<1>2. /\ Rooms \in Seq(Own) /\ Len(Rooms) = slices[Game].len
      /\ \A k \in 1..slices[Game].len : Rooms[k] = arrays[slices[Game].array][k]
  BY <1>1, ListProperties DEF Memory
<1>3. /\ slices[Game] \in Slice /\ slices[Game].len <= Len(arrays[slices[Game].array])
      /\ \A f \in DOMAIN slices : slices[f].array = slices[Game].array => f = Game
  BY <1>1 DEF Memory, Layout
<1>4. Rooms[i] \in Own /\ Rooms[i] = arrays[slices[Game].array][i]
  BY <1>2, ElementOfSeq
<1>5. i \in Nat \ {0} /\ i <= slices[Game].len /\ i \in 1..Len(arrays[slices[Game].array])
  BY <1>2, <1>3, LenProperties DEF Slice, Memory, Layout
<1>6. ~BehindEnd(slices[Game].array, i)
  BY <1>3, <1>5 DEF BehindEnd, Slice
<1>7. Pointer(Game, i) = [array |-> slices[Game].array, index |-> i]
      /\ Pointer(Game, i) \in Pointers
  BY <1>3, <1>5 DEF Pointer, Pointers, Slice
<1> QED
  BY <1>4, <1>5, <1>6, <1>7 DEF ReadsRoomAt, Deref

-----------------------------------------------------------------------------
(* The steps of the handler keep its answers right *)

\* The answer about one client is stored as that client's own.
LEMMA SettleKeepsPorts ==
  ASSUME Working, handler # Idle, PortsKnown, NEW registered, Settle(registered),
         handler.about \in handler.moved \/ registered \in Registered(handler.about)
  PROVE  PortsKnown' /\ RecordRight'
<1> DEFINE p == handler.about
           port == PublicPort(p, registered)
<1>1. p \in Players /\ (p \in handler.moved \/ port \in PortsAt(p))
  BY PublicPortIsOwn DEF Working
<1>2. /\ Working' /\ handler'.self = handler.self /\ handler'.others = handler.others
      /\ handler'.ports = B!Put(handler.ports, p, port) /\ handler'.moved = handler.moved
      /\ \/ handler'.at = "send" /\ handler.others \ DOMAIN handler'.ports = {}
         \/ handler'.at = "entry"
  BY SettleEffect
<1> HIDE DEF port
<1>3. \A q \in DOMAIN handler'.ports : q \in handler'.moved \/ handler'.ports[q] \in PortsAt(q)
  BY <1>1, <1>2 DEF B!Put, PortsKnown
<1>4. handler'.self \in DOMAIN handler'.ports
  BY <1>2 DEF B!Put, PortsKnown
<1> QED
  BY <1>2, <1>3, <1>4 DEF PortsKnown, RecordRight, PortsAt, Neighbours

\* A lookup that comes to no answer hands over to the next.
LEMMA NextLookupKeeps ==
  ASSUME Working, handler # Idle, PortsKnown, NEW at \in {"local", "address"},
         handler' = [handler EXCEPT !.at = at]
  PROVE  PortsKnown' /\ RecordRight'
<1>1. /\ handler'.at = at /\ handler'.ports = handler.ports
      /\ handler'.self = handler.self /\ handler'.about = handler.about
      /\ handler'.moved = handler.moved
  BY DEF Working, Locals
<1> QED
  BY <1>1 DEF PortsKnown, RecordRight, PortsAt, Neighbours

\* A lookup that found a room goes on to read it.
LEMMA FollowKeeps ==
  ASSUME Memory, Working, handler # Idle, PortsKnown,
         UNCHANGED <<arrays, slices>>,
         NEW i \in 1..Len(Rooms), Lookup!Matches(Rooms[i], Ask.ip),
         handler' = [handler EXCEPT !.at = "read", !.pointer = Pointer(Game, i)]
  PROVE  PortsKnown' /\ RecordRight'
<1>1. /\ handler'.at = "read" /\ handler'.ports = handler.ports
      /\ handler'.self = handler.self /\ handler'.about = handler.about
      /\ handler'.pointer = Pointer(Game, i) /\ handler'.moved = handler.moved
  BY DEF Working, Locals
<1>2. ReadsRoomAt(handler.about, Pointer(Game, i))
  BY PointerIsRight, NatnegAssumption DEF Working, Ask
<1>3. \A q, r : ReadsRoomAt(q, r) => ReadsRoomAt(q, r)'
  BY DEF ReadsRoomAt, Deref, BehindEnd, Own, Lookup!Matches
<1>4. ReadsRoomAt(handler.about, handler.pointer)'
  BY <1>1, <1>2, <1>3
<1>5. PortsKnown'
  BY <1>1 DEF PortsKnown, PortsAt, Neighbours
<1> QED
  BY <1>4, <1>5 DEF RecordRight

\* The three lookups and the reading of a record (natneg/server.go:430-485).
LEMMA LookupKeeps ==
  ASSUME Memory, Working, handler # Idle, EntriesTyped, PortsKnown, RecordRight,
         LookupEntry \/ LookupLocal \/ LookupAddress \/ ReadRecord
  PROVE  PortsKnown' /\ RecordRight'
<1> DEFINE p == handler.about
<1>1. p \in Players /\ Ask = Addr[p]
  BY DEF Working, Ask
<1>2. CASE LookupEntry
  <2> DEFINE entries == Registry!EntriesOf(handler.id)
             hits == {i \in DOMAIN entries : <<entries[i].publicip, Ask.ip>> \in SameIP}
  <2>1. entries \in Seq(Heartbeats)
    BY EmptySeq DEF Registry!EntriesOf, EntriesTyped
  <2>2. CASE hits # {}
    <3> DEFINE i == Lookup!Min(hits)
    <3>1. hits \in SUBSET Nat
      BY <2>1, LenProperties
    <3>2. i \in hits
      <4> HIDE DEF hits
      <4> QED
        BY <2>2, <3>1, FirstEntry
    <3> HIDE DEF i
    <3>3. entries[i] \in Heartbeats /\ <<entries[i].publicip, Addr[p].ip>> \in SameIP
      BY <1>1, <2>1, <3>2, ElementOfSeq
    <3>4. entries[i].publicport \in Registered(p)
      BY <3>3, NatnegAssumption DEF Registered, Neighbours
    <3>5. Settle(entries[i].publicport)
      BY <1>2, <2>2 DEF LookupEntry, i
    <3> HIDE DEF entries
    <3> QED
      BY <3>4, <3>5, SettleKeepsPorts
  <2>3. CASE hits = {}
    BY <1>2, <2>3, NextLookupKeeps DEF LookupEntry
  <2> QED
    BY <2>2, <2>3
<1>3. Rooms \in Seq(Own)
  BY ListProperties, EmptySeq DEF Rooms, Memory
<1>4. CASE LookupLocal
  <2> DEFINE i == Lookup!FindServerByLocalAddress(Rooms, Ask.ip, Local[p])
  <2>1. Follow(i, handler' = [handler EXCEPT !.at = "address"]) /\ UNCHANGED <<arrays, slices>>
    BY <1>4 DEF LookupLocal, sliceVars
  <2>2. i # Lookup!NotFound => i \in 1..Len(Rooms) /\ Lookup!Matches(Rooms[i], Ask.ip)
    BY <1>3, FoundLocally
  <2> HIDE DEF i
  <2>3. CASE i = Lookup!NotFound
    BY <2>1, <2>3, NextLookupKeeps DEF Follow
  <2>4. CASE i # Lookup!NotFound
    BY <2>1, <2>2, <2>4, FollowKeeps DEF Follow
  <2> QED
    BY <2>3, <2>4
<1>5. CASE LookupAddress
  <2> DEFINE i == Lookup!FindServerByAddress(Rooms, Ask.ip, Ask.port)
  <2>1. Follow(i, Settle(0)) /\ UNCHANGED <<arrays, slices>>
    BY <1>5 DEF LookupAddress, sliceVars
  <2>2. i # Lookup!NotFound => i \in 1..Len(Rooms) /\ Lookup!Matches(Rooms[i], Ask.ip)
    BY <1>3, FoundByAddress
  <2> HIDE DEF i
  <2>3. CASE i = Lookup!NotFound
    BY <2>1, <2>3, SettleKeepsPorts DEF Follow, Registered
  <2>4. CASE i # Lookup!NotFound
    BY <2>1, <2>2, <2>4, FollowKeeps DEF Follow
  <2> QED
    BY <2>3, <2>4
<1>6. CASE ReadRecord
  <2> DEFINE room == Deref(handler.pointer)
  <2>1. p \in handler.moved \/ ReadsRoomAt(p, handler.pointer)
    BY <1>6 DEF ReadRecord, RecordRight
  <2>2. p \in handler.moved \/ room.fields.publicport \in Registered(p)
    BY <2>1, NatnegAssumption DEF ReadsRoomAt, Own, Registered, Neighbours, Lookup!Matches
  <2>3. Settle(room.fields.publicport)
    BY <1>6 DEF ReadRecord
  <2> HIDE DEF room
  <2> QED
    BY <2>2, <2>3, SettleKeepsPorts
<1> QED
  BY <1>2, <1>4, <1>5, <1>6

\* Both sides are told of each other (natneg/server.go:303-315, 338-363).
LEMMA SendKeeps ==
  ASSUME Working, handler # Idle, PortsKnown, ConnectPointsAtPeer, SendConnects
  PROVE  ConnectPointsAtPeer'
<1>1. /\ handler.self \notin handler.others
      /\ \A q \in handler.others \cup {handler.self} :
           q \in handler.moved \/ handler.ports[q] \in PortsAt(q)
  BY DEF SendConnects, Working, PortsKnown
<1>2. ASSUME NEW q \in handler.others,
             NEW m \in {Connect(handler.self, q), Connect(q, handler.self)}
      PROVE  m.to # m.about /\ (~m.moved => m.port \in PortsAt(m.about))
  <2>1. CASE m = Connect(handler.self, q)
    BY <1>1, <2>1 DEF Connect
  <2>2. CASE m = Connect(q, handler.self)
    BY <1>1, <2>2 DEF Connect
  <2> QED
    BY <2>1, <2>2
<1>3. \A m \in mail' : m \in mail \/ \E q \in handler.others :
                                      m \in {Connect(handler.self, q), Connect(q, handler.self)}
  BY DEF SendConnects
<1> QED
  BY <1>2, <1>3 DEF ConnectPointsAtPeer, PortsAt, Neighbours

-----------------------------------------------------------------------------
(* Rooms that come and go between a lookup and the reading of its record *)

\* The array that the handler's pointer reaches is not reused.
LEMMA ReadIsPinned ==
  ASSUME RecordRight, handler # Idle, handler.at = "read", handler.about \notin handler.moved
  PROVE  /\ ReadsRoomAt(handler.about, handler.pointer)
         /\ handler.pointer.array \in Pinned /\ handler.pointer.array \in Arrays
BY NatnegAssumption DEF RecordRight, ReadsRoomAt, Pinned, Pointers

\* A heartbeat changes or adds one room of its own host.
LEMMA AdvertiseKeeps ==
  ASSUME Memory, RecordRight, NEW s \in Players, AdvertiseRoom(s)
  PROVE  Memory' /\ RecordRight'
<1> DEFINE h == Reg[s]
<1>1. /\ s \in Hosts /\ s \in Sessions /\ Game \in Games /\ h \in Heartbeats
      /\ UpdateServerList(Game, s, h, Pinned) /\ UNCHANGED handler
  BY NatnegAssumption DEF AdvertiseRoom, serverVars
<1>2. Room(s, h) \in Own
  BY <1>1 DEF Room, Own, B!Room
<1>3. /\ Layout(Own)'
      /\ BP!ReplaceRoom(Game, s, h) \/ BP!AppendRoom(Game, s, h)
      /\ \A a \in Arrays : a \in Pinned =>
           /\ Len(arrays'[a]) = Len(arrays[a])
           /\ \A i \in 1..Len(arrays[a]) : /\ Upserted(s, h, a, i)
                                           /\ BehindEnd(a, i)' => BehindEnd(a, i)
  <2>1. CASE ReplaceRoom(Game, s, h)
    <3>1. /\ Layout(Own)' /\ BP!ReplaceRoom(Game, s, h) /\ UNCHANGED slices
          /\ \A a \in Arrays : /\ Len(arrays'[a]) = Len(arrays[a])
                               /\ \A i \in 1..Len(arrays[a]) : Upserted(s, h, a, i)
      BY <1>2, <2>1, ReplaceKeeps DEF Memory
    <3> QED
      BY <3>1 DEF BehindEnd
  <2>2. CASE AppendRoom(Game, s, h, Pinned)
    BY <1>1, <1>2, <2>2, AppendKeeps DEF Memory
  <2> QED
    BY <1>1, <2>1, <2>2 DEF UpdateServerList
<1>4. Memory'
  BY <1>1, <1>3, BP!UpdateKeepsRoomInv DEF Memory
<1>5. ASSUME handler # Idle, handler.at = "read", handler.about \notin handler.moved
      PROVE  ReadsRoomAt(handler.about, handler.pointer)'
  <2> DEFINE p == handler.pointer
             a == p.array
             i == p.index
  <2>1. /\ ReadsRoomAt(handler.about, p) /\ a \in Pinned /\ a \in Arrays
        /\ i \in 1..Len(arrays[a])
    BY <1>5, ReadIsPinned DEF ReadsRoomAt
  <2>2. /\ Len(arrays'[a]) = Len(arrays[a]) /\ Upserted(s, h, a, i)
        /\ BehindEnd(a, i)' => BehindEnd(a, i)
    BY <1>1, <1>3, <2>1
  <2>3. /\ arrays[a][i] \in Own /\ ~BehindEnd(a, i)
        /\ Lookup!Matches(arrays[a][i], Addr[handler.about].ip)
    BY <2>1 DEF ReadsRoomAt, Deref
  <2>4. arrays'[a][i] = arrays[a][i]
    <3>1. arrays[a][i].session = s /\ arrays'[a][i] = Room(s, h) => arrays'[a][i] = arrays[a][i]
      BY <2>3 DEF Own, Room, B!Room
    <3> QED
      BY <2>2, <2>3, <3>1 DEF Upserted
  <2> QED
    BY <1>1, <2>1, <2>2, <2>3, <2>4 DEF ReadsRoomAt, Deref, Own, Lookup!Matches
<1> QED
  BY <1>1, <1>4, <1>5 DEF RecordRight

\* A removal that reaches the room found is noted; any other leaves it.
LEMMA RemoveKeeps ==
  ASSUME Memory, Working \/ handler = Idle, PortsKnown, RecordRight,
         NEW s \in Players, RemoveRoom(s)
  PROVE  Memory' /\ PortsKnown' /\ RecordRight'
<1> DEFINE a == handler.pointer.array
           i == handler.pointer.index
           reached == /\ handler # Idle
                      /\ handler.at = "read"
                      /\ a = slices[Game].array
                      /\ i >= sessionIdx[Game][s]
           moved == handler.moved \cup {handler.about}
<1>1. /\ s \in Sessions /\ Game \in Games
      /\ DeleteServer(Game, s, Pinned)
      /\ handler' = IF reached THEN [handler EXCEPT !.moved = moved] ELSE handler
  BY NatnegAssumption DEF RemoveRoom
<1>2. /\ Layout(Own)' /\ BP!DeleteServer(Game, s)
      /\ \A b \in Arrays : b \in Pinned =>
           /\ Len(arrays'[b]) = Len(arrays[b])
           /\ \A k \in 1..Len(arrays[b]) :
                LET hit == b = slices[Game].array /\ k >= sessionIdx[Game][s]
                IN  /\ \/ arrays'[b][k] = arrays[b][k]
                       \/ hit /\ arrays'[b][k] \in Own
                    /\ BehindEnd(b, k)' => hit \/ BehindEnd(b, k)
  BY <1>1, DeleteKeeps DEF Memory
<1>3. Memory'
  BY <1>1, <1>2, BP!DeleteKeepsRoomInv DEF Memory
<1>4. CASE reached
  <2>1. handler # Idle /\ Working /\ handler' = [handler EXCEPT !.moved = moved]
    BY <1>1, <1>4
  <2> HIDE DEF reached, moved
  <2>2. /\ handler'.moved = moved /\ handler'.ports = handler.ports
        /\ handler'.self = handler.self /\ handler'.about = handler.about
        /\ handler'.others = handler.others /\ handler'.at = handler.at
    BY <2>1 DEF Working, Locals
  <2>3. handler.moved \subseteq moved /\ handler.about \in moved
    BY DEF moved
  <2>4. RecordRight'
    BY <2>2, <2>3 DEF RecordRight
  <2>5. PortsKnown'
    BY <2>1, <2>2, <2>3 DEF PortsKnown, PortsAt, Neighbours
  <2> QED
    BY <1>3, <2>4, <2>5
<1>5. CASE ~reached
  <2>1. handler' = handler
    BY <1>1, <1>5
  <2>2. PortsKnown'
    BY <2>1 DEF PortsKnown, PortsAt, Neighbours
  <2>3. ASSUME handler # Idle, handler.at = "read", handler.about \notin handler.moved
        PROVE  ReadsRoomAt(handler.about, handler.pointer)'
    <3>1. /\ ReadsRoomAt(handler.about, handler.pointer) /\ a \in Pinned /\ a \in Arrays
          /\ i \in 1..Len(arrays[a])
      BY <2>3, ReadIsPinned DEF ReadsRoomAt
    <3>2. ~(a = slices[Game].array /\ i >= sessionIdx[Game][s])
      BY <1>5, <2>3
    <3>3. /\ Len(arrays'[a]) = Len(arrays[a]) /\ arrays'[a][i] = arrays[a][i]
          /\ BehindEnd(a, i)' => BehindEnd(a, i)
      BY <1>2, <2>1, <3>1, <3>2
    <3>4. /\ handler.pointer \in Pointers /\ i \in 1..Len(arrays'[a])
          /\ arrays'[a][i] \in Own /\ ~BehindEnd(a, i)'
          /\ Lookup!Matches(arrays'[a][i], Addr[handler.about].ip)
      BY <3>1, <3>3 DEF ReadsRoomAt, Deref
    <3>5. Deref(handler.pointer)' = arrays'[a][i] /\ Own' = Own
      BY <2>1 DEF Deref, Own
    <3> QED
      BY <2>1, <3>4, <3>5 DEF ReadsRoomAt, Lookup!Matches
  <2>4. RecordRight'
    BY <2>1, <2>3 DEF RecordRight
  <2> QED
    BY <1>3, <2>2, <2>4
<1> QED
  BY <1>4, <1>5

-----------------------------------------------------------------------------
(* The invariant *)

\* NATNEG starts with no sessions, entries or CONNECTs, the backend with no rooms.
LEMMA InitInv == Init => Inv
<1> SUFFICES ASSUME Init PROVE Inv
  OBVIOUS
<1>1. Memory
  <2>1. arrays = [a \in Arrays |-> << >>] /\ DOMAIN slices = {} /\ DOMAIN sessionIdx = {}
    BY DEF Init, InitSlices, B!EmptyMap
  <2>2. Layout(Own)
    BY <2>1, EmptySeq DEF Layout
  <2>3. DOMAIN Lists = {}
    BY <2>1 DEF Lists
  <2> QED
    BY <2>1, <2>2, <2>3 DEF Memory, BP!RoomInv
<1> QED
  BY <1>1 DEF Init, B!EmptyMap, Inv, TypeInv, EntriesTyped, PortsKnown, RecordRight,
              ConnectPointsAtPeer

\* The entries under a cookie are hosts' registrations (backend.go:283-331).
LEMMA EntriesKept ==
  ASSUME EntriesTyped, NEW id \in Ids,
         (\E p \in Players : SeedEntry(id, p)) \/ ClearEntries(id)
  PROVE  EntriesTyped'
<1>1. ASSUME NEW p \in Players, SeedEntry(id, p)
      PROVE  EntriesTyped'
  <2> DEFINE old == Registry!EntriesOf(id)
             new == Append(old, Reg[p])
  <2>1. old \in Seq(Heartbeats)
    BY EmptySeq DEF Registry!EntriesOf, EntriesTyped
  <2>2. Reg[p] \in Heartbeats
    BY NatnegAssumption
  <2>3. natnegList' = Registry!Put(natnegList, id, new)
    BY <1>1 DEF SeedEntry, Registry!AddNatnegServer
  <2> HIDE DEF old
  <2>4. new \in Seq(Heartbeats)
    BY <2>1, <2>2, AppendProperties
  <2> HIDE DEF new
  <2> QED
    BY <2>3, <2>4 DEF Registry!Put, EntriesTyped
<1>2. CASE ClearEntries(id)
  BY <1>2 DEF ClearEntries, Registry!Without, EntriesTyped
<1> QED
  BY <1>1, <1>2

\* Nothing else touches what the lookups rely on.
LEMMA StepKeepsInv == Inv /\ [Next]_vars => Inv'
<1> SUFFICES ASSUME Inv, [Next]_vars PROVE Inv'
  OBVIOUS
<1>1. TypeInv'
  BY StepKeepsTypes DEF Inv
<1>2. ASSUME UNCHANGED sliceVars
      PROVE  Memory' /\ (UNCHANGED handler => PortsKnown' /\ RecordRight')
  <2>1. UNCHANGED <<arrays, slices, sessionIdx>>
    BY <1>2 DEF sliceVars
  <2>2. Memory'
    BY <2>1 DEF Inv, Memory, Layout, BP!RoomInv, Lists, Own
  <2>3. \A q, r : ReadsRoomAt(q, r) => ReadsRoomAt(q, r)'
    BY <2>1 DEF ReadsRoomAt, Deref, BehindEnd, Own, Lookup!Matches
  <2> QED
    BY <2>2, <2>3 DEF Inv, PortsKnown, RecordRight, PortsAt, Neighbours
<1>3. UNCHANGED natnegList => EntriesTyped'
  BY DEF Inv, EntriesTyped
<1>4. mail' \subseteq mail => ConnectPointsAtPeer'
  BY DEF Inv, ConnectPointsAtPeer, PortsAt, Neighbours
<1>5. ASSUME NEW id \in Ids, NEW p \in Players, ReceiveInit(id, p)
      PROVE  Inv'
  <2>1. handler' = Idle \/ /\ handler'.at = "entry"
                           /\ handler'.self = p /\ handler'.about = p
                           /\ handler'.ports = B!EmptyMap
    BY <1>5, ReceiveInitEffect DEF Inv
  <2>2. PortsKnown' /\ RecordRight'
    BY <2>1 DEF PortsKnown, RecordRight, B!EmptyMap
  <2> QED
    BY <1>1, <1>2, <1>3, <1>4, <1>5, <2>2 DEF ReceiveInit, Inv
<1>6. ASSUME NEW id \in Ids, NEW p \in Players, ReceiveConnectAck(id, p)
      PROVE  Inv'
  BY <1>1, <1>2, <1>3, <1>4, <1>6 DEF ReceiveConnectAck, Inv
<1>7. ASSUME NEW id \in Ids, (\E p \in Players : SeedEntry(id, p)) \/ ClearEntries(id)
      PROVE  Inv'
  <2>1. EntriesTyped'
    BY <1>7, EntriesKept DEF Inv
  <2>2. UNCHANGED sliceVars /\ UNCHANGED <<handler, mail>>
    BY <1>7 DEF SeedEntry, ClearEntries, serverVars
  <2> QED
    BY <1>1, <1>2, <1>4, <2>1, <2>2 DEF Inv
<1>8. CASE LookupEntry \/ LookupLocal \/ LookupAddress \/ ReadRecord
  <2>1. handler # Idle
    BY <1>8 DEF LookupEntry, LookupLocal, LookupAddress, ReadRecord, Idle
  <2>2. Working
    BY <2>1 DEF Inv, TypeInv
  <2>3. PortsKnown' /\ RecordRight'
    BY <1>8, <2>1, <2>2, LookupKeeps DEF Inv
  <2>4. UNCHANGED <<natnegList, mail>>
    BY <1>8, <2>2, LookupEffect
  <2>5. Memory'
    <3>1. CASE UNCHANGED sliceVars
      BY <1>2, <3>1
    <3>2. CASE ReadRecord
      <4>1. arrays' = Collect(arrays, slices, {}) /\ UNCHANGED <<slices, sessionIdx>>
        BY <3>2 DEF ReadRecord
      <4>2. Layout(Own)' /\ Lists' = Lists
        BY <4>1, CollectKeeps DEF Inv, Memory
      <4> QED
        BY <4>1, <4>2 DEF Inv, Memory, BP!RoomInv
    <3> QED
      BY <1>8, <3>1, <3>2 DEF LookupEntry, LookupLocal, LookupAddress
  <2> QED
    BY <1>1, <1>3, <1>4, <2>3, <2>4, <2>5 DEF Inv
<1>9. CASE SendConnects
  <2>1. handler # Idle
    BY <1>9 DEF SendConnects, Idle
  <2>2. ConnectPointsAtPeer'
    BY <1>9, <2>1, SendKeeps DEF Inv, TypeInv
  <2>3. PortsKnown' /\ RecordRight'
    BY <1>9 DEF SendConnects, PortsKnown, RecordRight
  <2> QED
    BY <1>1, <1>2, <1>3, <1>9, <2>2, <2>3 DEF SendConnects, Inv
<1>10. CASE Expire \/ Tick
  BY <1>1, <1>2, <1>3, <1>4, <1>10 DEF Expire, Tick, Inv
<1>11. ASSUME NEW m \in mail, Deliver(m) \/ Lose(m)
       PROVE  Inv'
  BY <1>1, <1>2, <1>3, <1>4, <1>11 DEF Deliver, Lose, Inv
<1>12. ASSUME NEW p \in Players, AdvertiseRoom(p) \/ RemoveRoom(p)
       PROVE  Inv'
  <2>1. Memory' /\ PortsKnown' /\ RecordRight'
    <3>1. CASE AdvertiseRoom(p)
      <4>1. UNCHANGED handler
        BY <3>1 DEF AdvertiseRoom, serverVars
      <4>2. PortsKnown'
        BY <4>1 DEF Inv, PortsKnown, PortsAt, Neighbours
      <4> QED
        BY <3>1, <4>2, AdvertiseKeeps DEF Inv
    <3>2. CASE RemoveRoom(p)
      BY <3>2, RemoveKeeps DEF Inv, TypeInv
    <3> QED
      BY <1>12, <3>1, <3>2
  <2>2. UNCHANGED <<natnegList, mail>>
    BY <1>12 DEF AdvertiseRoom, RemoveRoom, serverVars
  <2> QED
    BY <1>1, <1>3, <1>4, <2>1, <2>2 DEF Inv
<1>13. CASE UNCHANGED vars
  BY <1>1, <1>2, <1>3, <1>4, <1>13 DEF vars, sliceVars, Inv
<1> QED
  BY <1>5, <1>6, <1>7, <1>8, <1>9, <1>10, <1>11, <1>12, <1>13 DEF Next, HandlerStep

\* Every CONNECT names a port of the player it is about, whatever happens
\* between the lookups of the two and whoever shares an address, unless a
\* removal reached the room found before it was read
\* (natneg/server.go:228-338, 430-485).
THEOREM ConnectsPointAtPeers == Spec => []ConnectPointsAtPeer
<1>1. Inv => ConnectPointsAtPeer
  BY DEF Inv
<1> QED
  BY <1>1, InitInv, StepKeepsInv, PTL DEF Spec
=============================================================================
