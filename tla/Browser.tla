------------------------------ MODULE Browser -------------------------------
(***************************************************************************)
(* internal/gamespy/browser/server.go: a player's TCP connection relays    *)
(* its joins to hosts.  One goroutine per connection handles one message   *)
(* at a time; each stretch between two calls of the backend, or between    *)
(* two reads through a pointer the backend returned, is a step.  Around it *)
(* QR changes the room list, NATNEG clears entries, and QR's writer drains *)
(* the queue of outgoing packets.                                          *)
(*                                                                         *)
(* Lists are answered from copies made under the backend's lock and leave  *)
(* no state but the console type, which only picks the order of two tries  *)
(* that accept the same rooms.  A join names a port other than 0.          *)
(***************************************************************************)
EXTENDS RoomSlices

CONSTANTS
  SameIP,        \* what MatchPublicIP accepts
  Conns,         \* connections
  Dests,         \* the addresses players join
  Self,          \* connection |-> the address its own room is registered at
  Reg,           \* session |-> the fields of its room, with its address
  Hosts,         \* game |-> the sessions that advertise rooms of it
  Returns,       \* may a host be listed again after its room was removed?
                 \* TRUE is the code; FALSE bounds the runs.
  MaxNatnegEntries,   \* entries kept under a cookie, 8 in the code
  QueueSize      \* 64 in the code

ASSUME BrowserAssumption ==
  /\ Heartbeats = {Reg[s] : s \in Sessions}
  /\ Hosts \in [Games -> SUBSET Sessions]
  /\ Returns \in BOOLEAN
  /\ MaxNatnegEntries \in Nat \ {0} /\ QueueSize \in Nat \ {0}

(* A pointer is a cell with two history fields, see Sight. *)
Sightings == [cell : Pointers, met : Sessions, moved : BOOLEAN]

ASSUME NilAssumption == Nil \notin Sightings /\ Blank \notin B!Room

VARIABLES
  natnegList,   \* the backend's entries
  conn,         \* connection |-> the goroutine's position and locals
  gone,         \* the sessions whose rooms were removed
  queue         \* joins waiting for QR's writer

vars == <<arrays, slices, sessionIdx, natnegList, conn, gone, queue>>

(* The game makes up a cookie for each pair of players that join.          *)
Cookies == Conns \X Dests
Cookie(c) == <<c, conn[c].dest>>

Lookup == INSTANCE RoomLookup
Registry == INSTANCE Backend WITH serverList <- Lists, Peers <- Heartbeats

Idle(own) == [at |-> "idle", dest |-> Nil, msg |-> Nil, ip |-> Nil,
              target |-> Nil, own |-> own, lost |-> {}]

Init ==
  /\ InitSlices
  /\ natnegList = B!EmptyMap
  /\ conn = [c \in Conns |-> Idle(Nil)]
  /\ queue = << >>
  /\ gone = {}

-----------------------------------------------------------------------------
(* A pointer, with two history fields no step depends on: the host it was  *)
(* last known to name, and whether a removal has reached its cell since    *)
(* or had already left the cell behind the end of the slice.               *)
Sight(g, i) == [cell |-> Pointer(g, i), met |-> Lists[g][i].session, moved |-> FALSE]

Record(p) == Deref(p.cell)

Vacated(cell) == \E g \in DOMAIN slices : slices[g].array = cell.array
                                         /\ slices[g].len < cell.index

(* FindServerByAddress without a game: the map is searched in any order.   *)
Sights(address) ==
  LET hit(g) == Lookup!FindServerByAddress(Lists[g], address[1], address[2])
  IN  {Sight(g, hit(g)) : g \in {f \in DOMAIN slices : hit(f) # Lookup!NotFound}}

Kept(connections) ==
  {connections[c].target : c \in Conns} \cup {connections[c].own : c \in Conns}
Pinned(connections) == {p.cell.array : p \in Kept(connections) \ {Nil}}

Continue(c, local) ==
  LET next == [conn EXCEPT ![c] = local]
  IN  /\ conn' = next
      /\ arrays' = Collect(arrays, slices, Pinned(next))
      /\ UNCHANGED <<slices, sessionIdx, gone>>

GoTo(c, place) == Continue(c, [conn[c] EXCEPT !.at = place])
Return(c) == Continue(c, Idle(conn[c].own))

(* handleSendMessage.  A message of any other kind fares as an SBCM message *)
(* whose sender is not found.                                              *)
ReceiveMessage(c, dest, msg) ==
  /\ conn[c].at = "idle"
  /\ Continue(c, [conn[c] EXCEPT !.at = "find", !.dest = dest, !.msg = msg, !.ip = dest[1]])
  /\ UNCHANGED <<natnegList, queue>>

(* findServerWithConsoleFallback: two tries with signed forms of the IP,   *)
(* which match the same rooms ...                                          *)
FindSigned(c) ==
  /\ conn[c].at = "find"
  /\ LET hits == Sights(conn[c].dest)
     IN  IF hits = {} THEN GoTo(c, "dotted")
         ELSE \E p \in hits : Continue(c, [conn[c] EXCEPT !.at = "ip", !.target = p])
  /\ UNCHANGED <<natnegList, queue>>

(* ... and one with the dotted form, which answers with the IP that the    *)
(* record turns out to have when it is read.                               *)
FindDotted(c) ==
  /\ conn[c].at = "dotted"
  /\ LET hits == Sights(conn[c].dest)
     IN  IF hits = {} THEN Return(c)
         ELSE \E p \in hits : Continue(c, [conn[c] EXCEPT !.at = "readIP", !.target = p])
  /\ UNCHANGED <<natnegList, queue>>

ReadIP(c) ==
  /\ conn[c].at = "readIP"
  /\ Continue(c, [conn[c] EXCEPT !.at = "ip", !.ip = Record(conn[c].target).fields.publicip])
  /\ UNCHANGED <<natnegList, queue>>

\* Faulty: the IP is not compared again.
CheckIPNever(c) ==
  /\ conn[c].at = "ip"
  /\ Continue(c, [conn[c] EXCEPT
                    !.at = "port",
                    !.target.moved = Vacated(conn[c].target.cell)])
  /\ UNCHANGED <<natnegList, queue>>

(* forwardToClient reads the record again: first its IP, and if that is    *)
(* the one that was asked for, its host is known anew ...                  *)
CheckIP(c) ==
  /\ conn[c].at = "ip"
  /\ LET rec == Record(conn[c].target)
         checked == [conn[c].target EXCEPT !.met = rec.session,
                                           !.moved = Vacated(conn[c].target.cell)]
     IN  IF ~Lookup!Matches(rec, conn[c].ip) THEN Return(c)
         ELSE Continue(c, [conn[c] EXCEPT
                             !.at = "port",
                             !.target = IF conn[c].ip = conn[c].dest[1] THEN checked ELSE @])
  /\ UNCHANGED <<natnegList, queue>>

(* ... then its port.  Where the message goes next: an SBCM message names  *)
(* the sender's own address, a NATNEG message its cookie.                  *)
CheckPort(c) ==
  /\ conn[c].at = "port"
  /\ IF Record(conn[c].target).fields.publicport # conn[c].dest[2] THEN Return(c)
     ELSE GoTo(c, CASE conn[c].msg = "sbcm" /\ conn[c].own = Nil -> "own"
                    [] conn[c].msg = "natneg" -> "host"
                    [] OTHER -> "relay")
  /\ UNCHANGED <<natnegList, queue>>

(* trackOwnServer, all three tries: only the room is used, not the IP.     *)
TrackOwnServer(c) ==
  /\ conn[c].at = "own"
  /\ LET hits == Sights(Self[c])
     IN  IF hits = {} THEN GoTo(c, "relay")
         ELSE \E p \in hits : Continue(c, [conn[c] EXCEPT !.at = "relay", !.own = p])
  /\ UNCHANGED <<natnegList, queue>>

\* Faulty: a cookie that has an entry gets no other.
EnterOnce(cookie, peer) ==
  IF cookie \in DOMAIN natnegList THEN UNCHANGED natnegList
  ELSE natnegList' = B!Put(natnegList, cookie, <<peer>>)

(* AddNatnegServer, which may find the endpoint known or the cookie full   *)
Enter(cookie, peer) ==
  LET entries == Registry!EntriesOf(cookie)
      known == \E i \in DOMAIN entries :
                 Registry!Endpoint(entries[i]) = Registry!Endpoint(peer)
  IN  IF known \/ Len(entries) >= MaxNatnegEntries THEN UNCHANGED natnegList
      ELSE natnegList' = B!Put(natnegList, cookie, Append(entries, peer))

(* Copying a record (not torn, although no lock is held) and entering the  *)
(* copy are one step.                                                      *)
EnterHost(c) ==
  /\ conn[c].at = "host"
  /\ Enter(Cookie(c), Record(conn[c].target).fields)
  /\ GoTo(c, IF conn[c].own = Nil THEN "relay" ELSE "joiner")
  /\ UNCHANGED queue

EnterJoiner(c) ==
  /\ conn[c].at = "joiner"
  /\ Enter(Cookie(c), Record(conn[c].own).fields)
  /\ GoTo(c, "relay")
  /\ UNCHANGED queue

(* Relay.ForwardClientMessage: into QR's queue, or nowhere if it is full.  *)
ForwardClientMessage(c) ==
  /\ conn[c].at = "relay"
  /\ queue' = IF Len(queue) >= QueueSize THEN queue
              ELSE Append(queue, [conn |-> c, dest |-> conn[c].dest,
                                  session |-> Record(conn[c].target).session])
  /\ Return(c)
  /\ UNCHANGED natnegList

(* The read fails, and the connection's state goes with it. *)
Close(c) ==
  /\ conn[c].at = "idle"
  /\ conn[c].own # Nil
  /\ Continue(c, Idle(Nil))
  /\ UNCHANGED <<natnegList, queue>>

ConnStep(c) ==
  \/ \E dest \in Dests, msg \in {"sbcm", "natneg"} : ReceiveMessage(c, dest, msg)
  \/ FindSigned(c) \/ FindDotted(c) \/ ReadIP(c) \/ CheckIP(c) \/ CheckPort(c)
  \/ TrackOwnServer(c) \/ EnterHost(c) \/ EnterJoiner(c)
  \/ ForwardClientMessage(c)
  \/ Close(c)

-----------------------------------------------------------------------------
(* QR and NATNEG *)

Write ==
  /\ queue # << >>
  /\ queue' = Tail(queue)
  /\ UNCHANGED <<sliceVars, natnegList, conn, gone>>

Advertise(g, s) ==
  /\ UpdateServerList(g, s, Reg[s], Pinned(conn))
  /\ Returns \/ s \notin gone
  /\ UNCHANGED <<natnegList, conn, gone, queue>>

Remove(g, s) ==
  LET reached(p) == p # Nil /\ p.cell.array = slices[g].array
                            /\ p.cell.index >= sessionIdx[g][s]
      after(p) == IF reached(p) THEN [p EXCEPT !.moved = TRUE] ELSE p
  IN  /\ DeleteServer(g, s, Pinned(conn))
      /\ conn' = [c \in Conns |-> [conn[c] EXCEPT !.target = after(@), !.own = after(@)]]
      /\ gone' = gone \cup {s}
      /\ UNCHANGED <<natnegList, queue>>

(* An expired NATNEG session takes the cookie's entries along, perhaps     *)
(* between the entries of a join and its relay: `lost' is history, which   *)
(* of the two it took.                                                     *)
Entered(place) == CASE place = "joiner" -> {"host"}
                    [] place = "relay" -> {"host", "joiner"}
                    [] OTHER -> {}

ClearEntries(cookie) ==
  /\ cookie \in DOMAIN natnegList
  /\ natnegList' = B!Without(natnegList, cookie)
  /\ conn' = [c \in Conns |-> IF Cookie(c) = cookie
                             THEN [conn[c] EXCEPT !.lost = @ \cup Entered(conn[c].at)]
                             ELSE conn[c]]
  /\ UNCHANGED <<sliceVars, gone, queue>>

Next ==
  \/ \E c \in Conns : ConnStep(c)
  \/ Write
  \/ \E g \in Games : \E s \in Hosts[g] : Advertise(g, s) \/ Remove(g, s)
  \/ \E cookie \in Cookies : ClearEntries(cookie)

Spec == Init /\ [][Next]_vars

-----------------------------------------------------------------------------
(* Slices lie within their arrays, pointers within theirs, and no more     *)
(* joins wait than the queue holds.                                        *)
TypeOK ==
  /\ \A a \in Arrays : arrays[a] \in Seq(B!Room \cup {Blank})
  /\ \A g \in DOMAIN slices : slices[g].array \in Arrays
                              /\ slices[g].len \in 1..Len(arrays[slices[g].array])
  /\ \A p \in Kept(conn) \ {Nil} :
       p \in Sightings /\ p.cell.index \in DOMAIN arrays[p.cell.array]
  /\ DOMAIN natnegList \subseteq Cookies
  /\ Len(queue) <= QueueSize

(* Sharing an array is invisible through the slices: they still behave as  *)
(* Backend's sequences, so no two games ever share an array, an append     *)
(* never writes over a room that is still listed, and the shift of a       *)
(* removal never reaches beyond its own slice (backend.go:116-160).        *)
ImplementsBackend == Registry!Spec

(* However stale a pointer is, what it reads is a room that was registered *)
(* once: a removal leaves the vacated cell as it was and an append that    *)
(* outgrows the array abandons it unchanged (backend.go:146-160, 197-229). *)
PointersReadRooms ==
  \A p \in Kept(conn) \ {Nil} : Record(p) # Blank

(* Until a removal reaches its cell, a pointer reads the host it was last   *)
(* known to name: heartbeats, new hosts and the moves to larger arrays     *)
(* they cause never turn it to another host, nor do removals of later      *)
(* rooms or of other games (backend.go:116-123).                           *)
PointersGoodUntilRemoval ==
  \A p \in Kept(conn) \ {Nil} : ~p.moved => Record(p).session = p.met

At(fields, address) ==
  /\ <<fields.publicip, address[1]>> \in SameIP
  /\ address[2] = 0 \/ fields.publicport = address[2]

(* A relayed join names the session of a host at the address the player    *)
(* asked for, unless a removal came between the browser's own check of the *)
(* record and its reading of the session (browser/server.go:458-492).      *)
JoinReachesTarget ==
  [][Len(queue') > Len(queue) =>
       LET join == queue'[Len(queue')]
       IN  ~conn[join.conn].target.moved => At(Reg[join.session], join.dest)]_vars

(* When a NATNEG join is relayed, both ends are among the cookie's         *)
(* entries: the host it goes to and the player's own room if it is known.  *)
(* Only three things excuse an end that is missing: NATNEG cleared the     *)
(* entries after that end was entered, the cookie is full, or a removal    *)
(* has turned the pointer that was entered.  Entries of earlier joins,     *)
(* entries cleared before or between, and the other end do not             *)
(* (browser/server.go:481-492, backend.go:283-302).                        *)
Among(entries, address) == \E i \in DOMAIN entries : At(entries[i], address)

JoinEntersBothEnds ==
  [][\A c \in Conns :
       conn[c].at = "relay" /\ conn'[c].at # "relay" /\ conn[c].msg = "natneg" =>
         LET entries == Registry!EntriesOf(Cookie(c))
         IN  \/ Len(entries) >= MaxNatnegEntries
             \/ /\ \/ "host" \in conn[c].lost \/ conn[c].target.moved
                   \/ Among(entries, conn[c].dest)
                /\ \/ "joiner" \in conn[c].lost \/ conn[c].own = Nil \/ conn[c].own.moved
                   \/ Among(entries, Self[c])]_vars

=============================================================================
