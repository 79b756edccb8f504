------------------------------- MODULE Natneg -------------------------------
(***************************************************************************)
(* internal/gamespy/natneg/server.go: two players that share a cookie send *)
(* INIT, and the server sends each a CONNECT naming the other's address.   *)
(* One goroutine handles packets; another expires sessions once a minute   *)
(* and afterwards clears their backend entries.  Each stretch between two  *)
(* locks is a step.  Around them QR changes the room list, through whose   *)
(* pointers the server reads, and the server browser adds NATNEG entries.  *)
(*                                                                         *)
(* A player has one client index and one address, so it stands for both.   *)
(* INIT_ACK, BACKUP, ADDRESS_CHECK, NATIFY and REPORT are answered from    *)
(* the packet alone and touch no state.                                    *)
(***************************************************************************)
EXTENDS RoomSlices, FiniteSets

CONSTANTS
  SameIP,         \* what MatchPublicIP accepts
  Game,
  Ids,            \* cookies, which are NATNEG session ids
  Players,
  Addr, Local,    \* player |-> [ip, port], observed and declared in INIT
  Reg,            \* player |-> fields of the room it advertises through QR
  Hosts,          \* the players that advertise a room
  Seeded,         \* the players the browser registers under a cookie
  Lossy,          \* may a CONNECT be lost, in the full write queue or on
                  \* the network?  TRUE is the code.
  Prompt,         \* do players that wait under one cookie reach the server
                  \* within a tick of each other?
  MaxMail,        \* bound: INITs come while at most so many CONNECTs are
                  \* under way
  TTL             \* 30 min, in ticks

ASSUME NatnegAssumption ==
  /\ Games = {Game} /\ Sessions = Players /\ Heartbeats = {Reg[p] : p \in Players}
  /\ Hosts \subseteq Players /\ Seeded \subseteq Players
  /\ Lossy \in BOOLEAN /\ Prompt \in BOOLEAN /\ MaxMail \in Nat /\ TTL \in Nat
  /\ Nil \notin Pointers

VARIABLES
  natnegList,   \* the backend's entries
  sessions,     \* id |-> [idle, clients : player |-> connected]
  handler,      \* the packet goroutine's position and locals
  cleaner,      \* ids expired whose entries are still to be cleared
  mail,         \* CONNECTs queued or under way
  got           \* <<id, player>> that received a CONNECT

vars == <<arrays, slices, sessionIdx, natnegList, sessions, handler, cleaner, mail, got>>
serverVars == <<sessions, handler, cleaner, mail, got>>

Lookup == INSTANCE RoomLookup
Registry == INSTANCE Backend WITH serverList <- Lists, Cookies <- Ids,
                                  Peers <- Heartbeats, MaxNatnegEntries <- 8

Idle == [at |-> "idle"]

Init ==
  /\ InitSlices
  /\ natnegList = B!EmptyMap
  /\ sessions = B!EmptyMap
  /\ handler = Idle
  /\ cleaner = {}
  /\ mail = {}
  /\ got = {}

Live(id) == id \in DOMAIN sessions

-----------------------------------------------------------------------------
(* The packet goroutine *)

\* Faulty: the sender is paired with its own earlier slot.
ReceiveInitWithSelf(id, p) ==
  /\ handler = Idle
  /\ Cardinality(mail) <= MaxMail
  /\ LET clients == IF Live(id) THEN sessions[id].clients ELSE B!EmptyMap
         others == {q \in DOMAIN clients : ~clients[q]}
     IN  /\ sessions' = B!Put(sessions, id, [idle |-> 0, clients |-> B!Put(clients, p, FALSE)])
         /\ handler' = IF others = {} THEN Idle
                       ELSE [at |-> "entry", id |-> id, self |-> p, others |-> others,
                             about |-> p, ports |-> B!EmptyMap, pointer |-> Nil,
                             moved |-> {}]
  /\ UNCHANGED <<sliceVars, natnegList, cleaner, mail, got>>

(* handleInit, under the lock: the sender's slot is (re)opened and paired  *)
(* with every other client that has not acknowledged a CONNECT.  `moved'   *)
(* is history: the players whose rooms a removal turned before they were   *)
(* read, see RemoveRoom.                                                   *)
ReceiveInit(id, p) ==
  /\ handler = Idle
  /\ Cardinality(mail) <= MaxMail
  /\ LET clients == IF Live(id) THEN sessions[id].clients ELSE B!EmptyMap
         others == {q \in DOMAIN clients \ {p} : ~clients[q]}
     IN  /\ sessions' = B!Put(sessions, id, [idle |-> 0, clients |-> B!Put(clients, p, FALSE)])
         /\ handler' = IF others = {} THEN Idle
                       ELSE [at |-> "entry", id |-> id, self |-> p, others |-> others,
                             about |-> p, ports |-> B!EmptyMap, pointer |-> Nil,
                             moved |-> {}]
  /\ UNCHANGED <<sliceVars, natnegList, cleaner, mail, got>>

(* publicPort *)
PublicPort(p, registered) ==
  IF registered > 0 THEN registered
  ELSE IF Local[p].port # 0 THEN Local[p].port
  ELSE Addr[p].port

(* The lookup for handler.about is over; on to the next client of a pair,  *)
(* the sender's own lookup having been the first.                          *)
Settle(registered) ==
  LET ports == B!Put(handler.ports, handler.about, PublicPort(handler.about, registered))
      left == handler.others \ DOMAIN ports
  IN  IF left = {} THEN handler' = [handler EXCEPT !.at = "send", !.ports = ports,
                                                   !.pointer = Nil]
      ELSE \E q \in left : handler' = [handler EXCEPT !.at = "entry", !.about = q,
                                                      !.ports = ports, !.pointer = Nil]

Ask == Addr[handler.about]
Rooms == IF Game \in DOMAIN slices THEN Lists[Game] ELSE << >>

(* lookupServerAddr: the first of the cookie's entries with the public IP ... *)
LookupEntry ==
  /\ handler.at = "entry"
  /\ LET entries == Registry!EntriesOf(handler.id)
         hits == {i \in DOMAIN entries : <<entries[i].publicip, Ask.ip>> \in SameIP}
     IN  IF hits # {} THEN Settle(entries[Lookup!Min(hits)].publicport)
         ELSE handler' = [handler EXCEPT !.at = "local"]
  /\ UNCHANGED <<sliceVars, natnegList, sessions, cleaner, mail, got>>

Follow(i, otherwise) ==
  IF i # Lookup!NotFound
  THEN handler' = [handler EXCEPT !.at = "read", !.pointer = Pointer(Game, i)]
  ELSE otherwise

(* ... otherwise a room by local endpoint ... *)
LookupLocal ==
  /\ handler.at = "local"
  /\ Follow(Lookup!FindServerByLocalAddress(Rooms, Ask.ip, Local[handler.about]),
            handler' = [handler EXCEPT !.at = "address"])
  /\ UNCHANGED <<sliceVars, natnegList, sessions, cleaner, mail, got>>

(* ... otherwise a room by public endpoint, or nothing. *)
LookupAddress ==
  /\ handler.at = "address"
  /\ Follow(Lookup!FindServerByAddress(Rooms, Ask.ip, Ask.port), Settle(0))
  /\ UNCHANGED <<sliceVars, natnegList, sessions, cleaner, mail, got>>

(* rec.AsMap(), after the backend's lock was released *)
ReadRecord ==
  /\ handler.at = "read"
  /\ Settle(Deref(handler.pointer).fields.publicport)
  /\ arrays' = Collect(arrays, slices, {})
  /\ UNCHANGED <<slices, sessionIdx, natnegList, sessions, cleaner, mail, got>>

\* Faulty: a side is sent its own port.
ConnectSwapped(to, about) == [to |-> to, about |-> about, id |-> handler.id,
                              ip |-> Addr[about].ip, port |-> handler.ports[to],
                              moved |-> about \in handler.moved]

(* Storing serverAddr in the slots is left out: nothing reads it.  For     *)
(* every pair one CONNECT goes to either side.                             *)
Connect(to, about) == [to |-> to, about |-> about, id |-> handler.id,
                       ip |-> Addr[about].ip, port |-> handler.ports[about],
                       moved |-> about \in handler.moved]

\* Faulty: only the sender of the INIT is told.
SendConnectsOneSided ==
  /\ handler.at = "send"
  /\ mail' = mail \cup {Connect(handler.self, q) : q \in handler.others}
  /\ handler' = Idle
  /\ UNCHANGED <<sliceVars, natnegList, sessions, cleaner, got>>

SendConnects ==
  /\ handler.at = "send"
  /\ mail' = mail \cup UNION {{Connect(handler.self, q), Connect(q, handler.self)} :
                                q \in handler.others}
  /\ handler' = Idle
  /\ UNCHANGED <<sliceVars, natnegList, sessions, cleaner, got>>

(* handleConnectAck; a player acknowledges a CONNECT it received, perhaps  *)
(* more than once, and from whatever session still exists.                 *)
ReceiveConnectAck(id, p) ==
  /\ handler = Idle
  /\ <<id, p>> \in got
  /\ Live(id)
  /\ sessions' = [sessions EXCEPT
       ![id] = [idle |-> 0,
                clients |-> IF p \in DOMAIN @.clients THEN B!Put(@.clients, p, TRUE)
                            ELSE @.clients]]
  /\ UNCHANGED <<sliceVars, natnegList, handler, cleaner, mail, got>>

HandlerStep == LookupEntry \/ LookupLocal \/ LookupAddress \/ ReadRecord \/ SendConnects

-----------------------------------------------------------------------------
\* Faulty: what expired is not remembered.
ExpireForgetting ==
  LET old == {id \in DOMAIN sessions : sessions[id].idle > TTL}
  IN  /\ cleaner = {}
      /\ old # {}
      /\ sessions' = [id \in DOMAIN sessions \ old |-> sessions[id]]
      /\ UNCHANGED <<sliceVars, natnegList, handler, cleaner, mail, got>>

(* sessionCleanup: expired sessions go under s.mu, their entries after it  *)
(* is released.                                                            *)
Expire ==
  LET old == {id \in DOMAIN sessions : sessions[id].idle > TTL}
  IN  /\ cleaner = {}
      /\ old # {}
      /\ sessions' = [id \in DOMAIN sessions \ old |-> sessions[id]]
      /\ cleaner' = old
      /\ UNCHANGED <<sliceVars, natnegList, handler, mail, got>>

ClearEntries(id) ==
  /\ id \in cleaner
  /\ cleaner' = cleaner \ {id}
  /\ natnegList' = Registry!Without(natnegList, id)
  /\ UNCHANGED <<sliceVars, sessions, handler, mail, got>>

Waiting(id, p) == <<id, p>> \notin got
Heard(id, p) == Live(id) /\ p \in DOMAIN sessions[id].clients

(* No packet takes minutes to handle, nor does the clean-up. *)
Tick ==
  /\ handler = Idle
  /\ cleaner = {}
  /\ Prompt => \A id \in Ids, p \in Players : Waiting(id, p) => Heard(id, p)
  /\ sessions' = [id \in DOMAIN sessions |->
                    [sessions[id] EXCEPT !.idle = IF @ > TTL THEN @ ELSE @ + 1]]
  /\ UNCHANGED <<sliceVars, natnegList, handler, cleaner, mail, got>>

-----------------------------------------------------------------------------
(* The players' network, QR and the server browser *)

Deliver(m) ==
  /\ mail' = mail \ {m}
  /\ got' = got \cup {<<m.id, m.to>>}
  /\ UNCHANGED <<sliceVars, natnegList, sessions, handler, cleaner>>

Lose(m) ==
  /\ Lossy
  /\ mail' = mail \ {m}
  /\ UNCHANGED <<sliceVars, natnegList, sessions, handler, cleaner, got>>

Pinned == IF handler # Idle /\ handler.pointer # Nil THEN {handler.pointer.array} ELSE {}

AdvertiseRoom(p) ==
  /\ p \in Hosts
  /\ UpdateServerList(Game, p, Reg[p], Pinned)
  /\ UNCHANGED <<natnegList, serverVars>>

RemoveRoom(p) ==
  LET reached == /\ handler # Idle
                 /\ handler.at = "read"
                 /\ handler.pointer.array = slices[Game].array
                 /\ handler.pointer.index >= sessionIdx[Game][p]
  IN  /\ DeleteServer(Game, p, Pinned)
      /\ handler' = IF reached THEN [handler EXCEPT !.moved = @ \cup {handler.about}]
                    ELSE handler
      /\ UNCHANGED <<natnegList, sessions, cleaner, mail, got>>

SeedEntry(id, p) ==
  /\ p \in Seeded
  /\ UNCHANGED sliceVars
  /\ Registry!AddNatnegServer(id, Reg[p])
  /\ UNCHANGED serverVars

Next ==
  \/ \E id \in Ids :
       \/ \E p \in Players :
            ReceiveInit(id, p) \/ ReceiveConnectAck(id, p) \/ SeedEntry(id, p)
       \/ ClearEntries(id)
  \/ HandlerStep
  \/ Expire
  \/ Tick
  \/ \E m \in mail : Deliver(m) \/ Lose(m)
  \/ \E p \in Players : AdvertiseRoom(p) \/ RemoveRoom(p)

Spec == Init /\ [][Next]_vars

(* The goroutines are scheduled, time passes, CONNECTs sent to a player    *)
(* again and again arrive at last, and a player that has no CONNECT        *)
(* repeats its INIT, which reaches the server again and again.  Packets    *)
(* are handled one at a time, so an INIT and a tick find the goroutine     *)
(* idle again and again but not continuously: hence strong fairness.       *)
Fairness ==
  /\ WF_vars(HandlerStep)
  /\ WF_vars(Expire)
  /\ SF_vars(Tick)
  /\ \A id \in Ids : WF_vars(ClearEntries(id))
  /\ \A id \in Ids, p \in Players :
       SF_vars(\E m \in mail : m.id = id /\ m.to = p /\ Deliver(m))

Retries ==
  \A id \in Ids, p \in Players : SF_vars(Waiting(id, p) /\ ReceiveInit(id, p))

FairSpec == Spec /\ Fairness
RetrySpec == FairSpec /\ Retries

-----------------------------------------------------------------------------
(* Types; a player is paired with others, never with itself. *)
TypeOK ==
  /\ DOMAIN sessions \subseteq Ids
  /\ \A id \in DOMAIN sessions :
       /\ sessions[id].idle \in 0..(TTL + 1)
       /\ DOMAIN sessions[id].clients \subseteq Players
       /\ \A p \in DOMAIN sessions[id].clients : sessions[id].clients[p] \in BOOLEAN
  /\ \/ handler = Idle
     \/ /\ handler.at \in {"entry", "local", "address", "read", "send"}
        /\ handler.id \in Ids
        /\ handler.others \subseteq Players \ {handler.self}
        /\ handler.about \in handler.others \cup {handler.self}
        /\ DOMAIN handler.ports \subseteq handler.others \cup {handler.self}
  /\ cleaner \subseteq Ids
  /\ got \subseteq Ids \X Players
  /\ DOMAIN natnegList \subseteq Ids

(* A CONNECT names a port of the player it is about: one registered from   *)
(* the player's public address, through QR or under a cookie, the one      *)
(* declared in INIT or the one observed.  Heartbeats, new rooms, the       *)
(* larger arrays they move to, entries and expiring sessions between the   *)
(* three lookups of the two players never mix up the answers; only a       *)
(* removal that reaches the cell of the room found, before it is read, may *)
(* (natneg/server.go:228-338, 430-485, backend.go:116-160).                *)
Neighbours(p) == {q \in Players : <<Reg[q].publicip, Addr[p].ip>> \in SameIP}
PortsAt(p) ==
  {Addr[p].port} \cup
    (({Local[p].port} \cup {Reg[q].publicport : q \in Neighbours(p)}) \ {0})

ConnectPointsAtPeer ==
  \A m \in mail : m.to # m.about /\ (~m.moved => m.port \in PortsAt(m.about))

(* Two players that keep trying under one cookie both get a CONNECT, in    *)
(* spite of late and repeated INITs and acknowledgements and of sessions   *)
(* that expire in between (natneg/server.go:228-363).                      *)
PeersConnect ==
  \A id \in Ids, p \in Players : <>(<<id, p>> \in got)

(* Once a session existed, either its players are heard again and again or *)
(* the entries under its cookie are cleared (natneg/server.go:171-198).    *)
Active(id) == Live(id) /\ sessions[id].idle = 0
EntriesCleared ==
  \A id \in Ids : []<>Active(id) \/ (Live(id) ~> id \notin DOMAIN natnegList)
=============================================================================
