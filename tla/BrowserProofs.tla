--------------------------- MODULE BrowserProofs ----------------------------
(***************************************************************************)
(* Theorems about Browser for any number of games, hosts, connections and  *)
(* arrays: that the shared arrays stay invisible through the slices, what  *)
(* a pointer kept for as long as a connection lives still reads, and whom  *)
(* a relayed join reaches.                                                 *)
(***************************************************************************)
EXTENDS Browser, RoomSlicesProofs

LP == INSTANCE LookupProofs

-----------------------------------------------------------------------------
(* The inductive invariant *)

(* The rooms that are ever registered. *)
Own == {room \in B!Room : room.fields = Reg[room.session]}

(* A pointer lies within its array and reads a room that was registered.   *)
(* Until a removal reaches its cell the room is still the one it was met   *)
(* at and the cell is not behind the end of its slice, where an append     *)
(* would write: a cell that is behind is what `moved' has to stand for.    *)
Sound(p) ==
  /\ p \in Sightings
  /\ p.cell.index \in 1..Len(arrays[p.cell.array])
  /\ Record(p) \in Own
  /\ ~p.moved => Record(p).session = p.met /\ ~BehindEnd(p.cell.array, p.cell.index)

PointersSound == \A p \in Kept(conn) \ {Nil} : Sound(p)

(* Positions after the room was found, and after its port was checked. *)
Checked == {"own", "host", "joiner", "relay"}
Aimed == {"readIP", "ip", "port"} \cup Checked
Places == {"idle", "find", "dotted"} \cup Aimed

Local == [at : Places, dest : Dests \cup {Nil}, msg : {"sbcm", "natneg", Nil},
          ip : {d[1] : d \in Dests} \cup {h.publicip : h \in Heartbeats} \cup {Nil},
          target : Sightings \cup {Nil}, own : Sightings \cup {Nil},
          lost : SUBSET {"host", "joiner"}]

IPMatches(s, address) == <<Reg[s].publicip, address[1]>> \in SameIP
PortMatches(s, address) == Reg[s].publicport = address[2]

(* What a connection knows of its pointers at each position. *)
Informed(c, local) ==
  /\ local.at # "idle" => local.dest \in Dests
  /\ local.at \in Aimed =>
       /\ local.target # Nil
       /\ ~local.target.moved => IPMatches(local.target.met, local.dest)
  /\ local.at \in Checked /\ ~local.target.moved => PortMatches(local.target.met, local.dest)
  /\ local.at = "own" => local.msg # "natneg"
  /\ local.at = "joiner" => local.own # Nil
  /\ local.own # Nil /\ ~local.own.moved =>
       /\ IPMatches(local.own.met, Self[c])
       /\ Self[c][2] = 0 \/ PortMatches(local.own.met, Self[c])

ConnsInformed == conn \in [Conns -> Local] /\ \A c \in Conns : Informed(c, conn[c])

NatnegTyped ==
  /\ DOMAIN natnegList \subseteq Cookies
  /\ \A cookie \in DOMAIN natnegList : natnegList[cookie] \in Seq(Heartbeats)

QueueBounded ==
  queue \in Seq([conn : Conns, dest : Dests, session : Sessions]) /\ Len(queue) <= QueueSize

Memory == Layout(Own) /\ BP!RoomInv

Inv == Memory /\ PointersSound /\ ConnsInformed /\ NatnegTyped /\ QueueBounded

-----------------------------------------------------------------------------
(* Looking, and going on *)

\* What LookupProofs says of the search, for the browser's (backend.go:197-229).
LEMMA FoundAtAddress ==
  ASSUME NEW S, NEW list \in Seq(S), NEW ip, NEW port,
         Lookup!FindServerByAddress(list, ip, port) # Lookup!NotFound
  PROVE  LET i == Lookup!FindServerByAddress(list, ip, port)
         IN  /\ i \in 1..Len(list)
             /\ Lookup!Matches(list[i], ip)
             /\ port = 0 \/ list[i].fields.publicport = port
<1> DEFINE i == LP!FindServerByAddress(list, ip, port)
<1>1. /\ i = Lookup!FindServerByAddress(list, ip, port)
      /\ \A room : LP!Matches(room, ip) <=> Lookup!Matches(room, ip)
      /\ LP!NotFound = Lookup!NotFound
  BY DEF LP!FindServerByAddress, Lookup!FindServerByAddress, LP!Matches, Lookup!Matches,
         LP!NotFound, Lookup!NotFound, LP!Min, Lookup!Min
<1>2. i # LP!NotFound => /\ i \in 1..Len(list)
                         /\ LP!Matches(list[i], ip)
                         /\ port = 0 \/ list[i].fields.publicport = port
  BY LP!FirstAtAddress
<1> HIDE DEF i
<1> QED
  BY <1>1, <1>2

\* A pointer that a search returns reads the room that was found, which is
\* at the address that was asked for (backend.go:197-229).
LEMMA SightIsSound ==
  ASSUME Memory, NEW address, NEW p \in Sights(address)
  PROVE  /\ p # Nil /\ ~p.moved /\ Sound(p)
         /\ IPMatches(p.met, address)
         /\ address[2] = 0 \/ PortMatches(p.met, address)
<1> DEFINE hit(g) == Lookup!FindServerByAddress(Lists[g], address[1], address[2])
<1>1. PICK g \in DOMAIN slices : hit(g) # Lookup!NotFound /\ p = Sight(g, hit(g))
  BY DEF Sights
<1>2. /\ Lists[g] \in Seq(Own) /\ Len(Lists[g]) = slices[g].len
      /\ \A i \in 1..slices[g].len : Lists[g][i] = arrays[slices[g].array][i]
  BY ListProperties DEF Memory
<1> DEFINE i == hit(g)
           room == Lists[g][i]
<1>3. /\ i \in 1..Len(Lists[g])
      /\ <<room.fields.publicip, address[1]>> \in SameIP
      /\ address[2] = 0 \/ room.fields.publicport = address[2]
  BY <1>1, <1>2, FoundAtAddress DEF Lookup!Matches
<1> HIDE DEF i
<1>4. /\ slices[g] \in Slice /\ slices[g].len <= Len(arrays[slices[g].array])
      /\ \A f \in DOMAIN slices : slices[f].array = slices[g].array => f = g
  BY DEF Memory, Layout
<1>5. room \in Own /\ room = arrays[slices[g].array][i]
  BY <1>2, <1>3, ElementOfSeq
<1>6. room.session \in Sessions /\ room.fields = Reg[room.session]
  BY <1>5 DEF Own, B!Room
<1>7. p = [cell |-> [array |-> slices[g].array, index |-> i],
           met |-> room.session, moved |-> FALSE]
  BY <1>1 DEF Sight, Pointer, i
<1>8. i \in Nat \ {0} /\ i <= slices[g].len /\ i \in 1..Len(arrays[slices[g].array])
  BY <1>2, <1>3, <1>4, LenProperties DEF Slice, Memory, Layout
<1>9. p \in Sightings
  BY <1>4, <1>6, <1>7, <1>8 DEF Sightings, Pointers, Slice
<1>10. ~BehindEnd(slices[g].array, i)
  BY <1>4, <1>8 DEF BehindEnd, Slice
<1>11. Record(p) = room
  BY <1>5, <1>7 DEF Record, Deref
<1> HIDE DEF room
<1>12. Sound(p)
  BY <1>5, <1>7, <1>8, <1>9, <1>10, <1>11 DEF Sound
<1>13. p # Nil
  BY <1>9, NilAssumption
<1> QED
  BY <1>3, <1>6, <1>7, <1>12, <1>13 DEF IPMatches, PortMatches, room

\* A connection goes on: what its pointers and the others' reach survives the
\* collection of what nothing reaches any more.
LEMMA ContinueKeeps ==
  ASSUME Memory, PointersSound, ConnsInformed, NEW c \in Conns, NEW local \in Local,
         Informed(c, local), Continue(c, local),
         local.target # Nil => Sound(local.target), local.own # Nil => Sound(local.own)
  PROVE  /\ Memory' /\ PointersSound' /\ ConnsInformed'
         /\ conn' = [conn EXCEPT ![c] = local]
         /\ UNCHANGED <<Lists, sessionIdx, gone>>
<1>1. /\ conn' = [conn EXCEPT ![c] = local]
      /\ arrays' = Collect(arrays, slices, Pinned(conn'))
      /\ UNCHANGED <<slices, sessionIdx, gone>>
  BY DEF Continue
<1>2. conn' \in [Conns -> Local] /\ conn'[c] = local
      /\ \A d \in Conns : d # c => conn'[d] = conn[d]
  BY <1>1 DEF ConnsInformed
<1>3. ConnsInformed'
  BY <1>2 DEF ConnsInformed, Informed, IPMatches, PortMatches
<1>4. /\ Layout(Own)' /\ Lists' = Lists
      /\ \A a \in Arrays : a \in Pinned(conn') => arrays'[a] = arrays[a]
  BY <1>1, CollectKeeps DEF Memory
<1>5. Memory'
  BY <1>1, <1>4 DEF Memory, BP!RoomInv
<1>6. ASSUME NEW p \in Kept(conn') \ {Nil}
      PROVE  Sound(p)'
  <2>1. Sound(p)
    BY <1>2, <1>6 DEF Kept, PointersSound
  <2>2. p.cell.array \in Pinned(conn')
    BY <1>6 DEF Pinned
  <2>3. p.cell.array \in Arrays
    BY <2>1 DEF Sound, Sightings, Pointers
  <2>4. arrays'[p.cell.array] = arrays[p.cell.array]
    BY <2>2, <2>3, <1>4
  <2> QED
    BY <2>1, <2>4, <1>1 DEF Sound, Record, Deref, BehindEnd, Own
<1>7. PointersSound'
  BY <1>6 DEF PointersSound
<1> QED
  BY <1>1, <1>3, <1>4, <1>5, <1>7

\* What the invariant says of one connection.
LEMMA ConnProperties ==
  ASSUME PointersSound, ConnsInformed, NEW c \in Conns
  PROVE  /\ conn[c] \in Local /\ Informed(c, conn[c])
         /\ conn[c].target # Nil => Sound(conn[c].target)
         /\ conn[c].own # Nil => Sound(conn[c].own)
BY DEF PointersSound, ConnsInformed, Kept

\* A connection goes on to a place for which it knows enough.
LEMMA GoToKeeps ==
  ASSUME Memory, PointersSound, ConnsInformed, NEW c \in Conns, NEW place \in Places,
         GoTo(c, place), Informed(c, [conn[c] EXCEPT !.at = place])
  PROVE  /\ Memory' /\ PointersSound' /\ ConnsInformed'
         /\ conn' = [conn EXCEPT ![c] = [conn[c] EXCEPT !.at = place]]
         /\ UNCHANGED <<Lists, sessionIdx, gone>>
<1> DEFINE local == [conn[c] EXCEPT !.at = place]
<1>1. /\ local \in Local
      /\ local.target = conn[c].target /\ local.own = conn[c].own
  BY ConnProperties DEF Local
<1>2. /\ local.target # Nil => Sound(local.target)
      /\ local.own # Nil => Sound(local.own)
  BY <1>1, ConnProperties
<1>3. Continue(c, local)
  BY DEF GoTo
<1> HIDE DEF local
<1>4. Informed(c, local)
  BY DEF local
<1> QED
  BY <1>1, <1>2, <1>3, <1>4, ContinueKeeps DEF local

\* A connection that is done with a message keeps its own room only.
LEMMA ReturnKeeps ==
  ASSUME Memory, PointersSound, ConnsInformed, NEW c \in Conns, Return(c)
  PROVE  /\ Memory' /\ PointersSound' /\ ConnsInformed'
         /\ conn' = [conn EXCEPT ![c] = Idle(conn[c].own)]
         /\ UNCHANGED <<Lists, sessionIdx, gone>>
<1> DEFINE local == Idle(conn[c].own)
<1>1. /\ local \in Local
      /\ local.at = "idle" /\ local.target = Nil /\ local.own = conn[c].own
  BY ConnProperties DEF Local, Idle, Places
<1>2. local.own # Nil => Sound(local.own)
  BY <1>1, ConnProperties
<1>3. Informed(c, local)
  BY <1>1, ConnProperties DEF Informed, Aimed, Checked
<1>4. Continue(c, local)
  BY DEF Return
<1> HIDE DEF local
<1> QED
  BY <1>1, <1>2, <1>3, <1>4, ContinueKeeps DEF local

(* What every step of a connection comes to. *)
GoesOn == Memory' /\ PointersSound' /\ ConnsInformed' /\ UNCHANGED <<Lists, sessionIdx, gone>>

\* handleSendMessage up to the record that it goes by (browser/server.go:424-458).
LEMMA FindingKeeps ==
  ASSUME Memory, PointersSound, ConnsInformed, NEW c \in Conns,
         \/ \E dest \in Dests, msg \in {"sbcm", "natneg"} : ReceiveMessage(c, dest, msg)
         \/ FindSigned(c) \/ FindDotted(c) \/ ReadIP(c)
  PROVE  GoesOn
<1>1. ASSUME NEW dest \in Dests, NEW msg \in {"sbcm", "natneg"}, ReceiveMessage(c, dest, msg)
      PROVE  GoesOn
  <2> DEFINE local == [conn[c] EXCEPT !.at = "find", !.dest = dest, !.msg = msg, !.ip = dest[1]]
  <2>1. Continue(c, local)
    BY <1>1 DEF ReceiveMessage
  <2>2. /\ local \in Local /\ local.at = "find" /\ local.dest = dest
        /\ local.target = conn[c].target /\ local.own = conn[c].own
    BY ConnProperties DEF Local, Places
  <2> HIDE DEF local
  <2>3. Informed(c, local)
    BY <2>2, ConnProperties DEF Informed, Aimed, Checked
  <2>4. /\ local.target # Nil => Sound(local.target)
        /\ local.own # Nil => Sound(local.own)
    BY <2>2, ConnProperties
  <2> QED
    BY <2>1, <2>2, <2>3, <2>4, ContinueKeeps DEF GoesOn
<1>2. ASSUME NEW p \in Sights(conn[c].dest), NEW place \in {"ip", "readIP"},
             conn[c].at \in {"find", "dotted"},
             Continue(c, [conn[c] EXCEPT !.at = place, !.target = p])
      PROVE  GoesOn
  <2> DEFINE local == [conn[c] EXCEPT !.at = place, !.target = p]
  <2>1. /\ ~p.moved /\ p # Nil /\ Sound(p) /\ IPMatches(p.met, conn[c].dest)
    BY SightIsSound
  <2>2. /\ local \in Local /\ local.at = place /\ local.dest = conn[c].dest
        /\ local.target = p /\ local.own = conn[c].own
    BY <2>1, ConnProperties DEF Local, Places, Aimed, Sound
  <2> HIDE DEF local
  <2>3. Informed(c, local)
    BY <1>2, <2>1, <2>2, ConnProperties DEF Informed, Aimed, Checked
  <2>4. /\ local.target # Nil => Sound(local.target)
        /\ local.own # Nil => Sound(local.own)
    BY <2>1, <2>2, ConnProperties
  <2> QED
    BY <1>2, <2>2, <2>3, <2>4, ContinueKeeps DEF GoesOn, local
<1>3. CASE FindSigned(c)
  <2>1. CASE Sights(conn[c].dest) = {}
    <3>1. GoTo(c, "dotted") /\ conn[c].at = "find"
      BY <1>3, <2>1 DEF FindSigned
    <3>2. Informed(c, [conn[c] EXCEPT !.at = "dotted"])
      BY <3>1, ConnProperties DEF Informed, Aimed, Checked, Local
    <3> QED
      BY <3>1, <3>2, GoToKeeps DEF GoesOn, Places
  <2>2. CASE Sights(conn[c].dest) # {}
    BY <1>2, <1>3, <2>2 DEF FindSigned
  <2> QED
    BY <2>1, <2>2
<1>4. CASE FindDotted(c)
  <2>1. CASE Sights(conn[c].dest) = {}
    BY <1>4, <2>1, ReturnKeeps DEF FindDotted, GoesOn
  <2>2. CASE Sights(conn[c].dest) # {}
    BY <1>2, <1>4, <2>2 DEF FindDotted
  <2> QED
    BY <2>1, <2>2
<1>5. CASE ReadIP(c)
  <2> DEFINE ip == Record(conn[c].target).fields.publicip
             local == [conn[c] EXCEPT !.at = "ip", !.ip = ip]
  <2>1. conn[c].at = "readIP" /\ Continue(c, local)
    BY <1>5 DEF ReadIP
  <2>2. Record(conn[c].target) \in Own
    BY <2>1, ConnProperties DEF Informed, Aimed, Sound
  <2>3. ip \in {h.publicip : h \in Heartbeats}
    BY <2>2 DEF Own, B!Room
  <2> HIDE DEF ip
  <2>4. /\ local \in Local /\ local.at = "ip" /\ local.dest = conn[c].dest
        /\ local.target = conn[c].target /\ local.own = conn[c].own
    BY <2>3, ConnProperties DEF Local, Places, Aimed
  <2> HIDE DEF local
  <2>5. Informed(c, local)
    BY <2>1, <2>4, ConnProperties DEF Informed, Aimed, Checked
  <2>6. /\ local.target # Nil => Sound(local.target)
        /\ local.own # Nil => Sound(local.own)
    BY <2>4, ConnProperties
  <2> QED
    BY <2>1, <2>4, <2>5, <2>6, ContinueKeeps DEF GoesOn
<1> QED
  BY <1>1, <1>3, <1>4, <1>5

\* What a connection reads through a pointer that no removal has reached.
LEMMA ReadingMet ==
  ASSUME NEW p, Sound(p)
  PROVE  /\ Record(p).session \in Sessions /\ Record(p).fields \in Heartbeats
         /\ Record(p).fields = Reg[Record(p).session]
         /\ ~p.moved => Record(p).session = p.met
BY DEF Sound, Own, B!Room

\* The record's two checks (browser/server.go:458-464).
LEMMA CheckingKeeps ==
  ASSUME Memory, PointersSound, ConnsInformed, NEW c \in Conns, CheckIP(c) \/ CheckPort(c)
  PROVE  GoesOn
<1> DEFINE p == conn[c].target
           rec == Record(p)
<1>1. conn[c].at \in Aimed
  BY DEF CheckIP, CheckPort, Aimed
<1>2. p # Nil /\ Sound(p) /\ conn[c].dest \in Dests
  BY <1>1, ConnProperties DEF Informed, Aimed, Checked
<1>3. CASE CheckIP(c)
  <2> DEFINE checked == [p EXCEPT !.met = rec.session, !.moved = Vacated(p.cell)]
             target == IF conn[c].ip = conn[c].dest[1] THEN checked ELSE p
             local == [conn[c] EXCEPT !.at = "port", !.target = target]
  <2>1. CASE ~Lookup!Matches(rec, conn[c].ip)
    BY <1>3, <2>1, ReturnKeeps DEF CheckIP, GoesOn
  <2>2. CASE Lookup!Matches(rec, conn[c].ip)
    <3>1. conn[c].at = "ip" /\ Continue(c, local)
      BY <1>3, <2>2 DEF CheckIP
    <3> HIDE DEF p
    <3>4. /\ p.cell \in Pointers /\ p = [cell |-> p.cell, met |-> p.met, moved |-> p.moved]
      BY <1>2 DEF Sound, Sightings
    <3>5. Vacated(p.cell) = BehindEnd(p.cell.array, p.cell.index)
      BY DEF Vacated, BehindEnd
    <3>6. Vacated(p.cell) \in BOOLEAN
      BY DEF Vacated
    <3>7. checked = [cell |-> p.cell, met |-> rec.session, moved |-> Vacated(p.cell)]
      <4> DEFINE vacated == Vacated(p.cell)
                 session == rec.session
      <4>1. checked = [p EXCEPT !.met = session, !.moved = vacated]
        OBVIOUS
      <4> HIDE DEF checked, vacated, session
      <4>2. checked = [cell |-> p.cell, met |-> session, moved |-> vacated]
        BY <4>1, <3>4
      <4> QED
        BY <4>2 DEF vacated, session
    <3> HIDE DEF checked
    <3>8. checked \in Sightings
      BY <1>2, <3>4, <3>6, <3>7, ReadingMet DEF Sightings
    <3>9. Sound(checked)
      BY <1>2, <3>5, <3>7, <3>8 DEF Sound, Record
    <3>10. conn[c].ip = conn[c].dest[1] => IPMatches(checked.met, conn[c].dest)
      BY <1>2, <2>2, <3>7, ReadingMet DEF IPMatches, Lookup!Matches
    <3>11. ~p.moved => IPMatches(p.met, conn[c].dest)
      BY <1>1, ConnProperties DEF Informed, p
    <3>12. Sound(target) /\ target \in Sightings /\ target # Nil
           /\ (~target.moved => IPMatches(target.met, conn[c].dest))
      BY <1>2, <3>8, <3>9, <3>10, <3>11, NilAssumption DEF Sound
    <3> HIDE DEF target
    <3>13. /\ local \in Local /\ local.at = "port" /\ local.dest = conn[c].dest
           /\ local.target = target /\ local.own = conn[c].own
      BY <3>12, ConnProperties DEF Local, Places, Aimed
    <3> HIDE DEF local
    <3>14. Informed(c, local)
      BY <1>2, <3>12, <3>13, ConnProperties DEF Informed, Checked
    <3>15. /\ local.target # Nil => Sound(local.target)
           /\ local.own # Nil => Sound(local.own)
      BY <3>12, <3>13, ConnProperties
    <3> QED
      BY <3>1, <3>13, <3>14, <3>15, ContinueKeeps DEF GoesOn, local
  <2> QED
    BY <2>1, <2>2
<1>4. CASE CheckPort(c)
  <2>1. CASE rec.fields.publicport # conn[c].dest[2]
    BY <1>4, <2>1, ReturnKeeps DEF CheckPort, GoesOn
  <2>2. CASE rec.fields.publicport = conn[c].dest[2]
    <3>1. PICK place \in {"own", "host", "relay"} :
            GoTo(c, place) /\ (place = "own" => conn[c].msg # "natneg")
      BY <1>4, <2>2 DEF CheckPort
    <3>2. ~p.moved => PortMatches(p.met, conn[c].dest)
      BY <1>2, <2>2, ReadingMet DEF PortMatches
    <3> DEFINE local == [conn[c] EXCEPT !.at = place]
    <3>4. /\ local.at = place /\ local.msg = conn[c].msg /\ local.dest = conn[c].dest
          /\ local.target = conn[c].target /\ local.own = conn[c].own
      BY ConnProperties DEF Local
    <3> HIDE DEF local
    <3>5. Informed(c, local)
      BY <1>1, <1>2, <3>1, <3>2, <3>4, ConnProperties DEF Informed, Aimed, Checked
    <3>3. Informed(c, [conn[c] EXCEPT !.at = place])
      BY <3>5 DEF local
    <3> QED
      BY <3>1, <3>3, GoToKeeps DEF GoesOn, Places, Aimed, Checked
  <2> QED
    BY <2>1, <2>2
<1> QED
  BY <1>3, <1>4

\* From the checks to the relay (browser/server.go:478-492).
LEMMA RelayingKeeps ==
  ASSUME Memory, PointersSound, ConnsInformed, NEW c \in Conns,
         TrackOwnServer(c) \/ EnterHost(c) \/ EnterJoiner(c) \/ ForwardClientMessage(c) \/ Close(c)
  PROVE  GoesOn
<1>1. ASSUME conn[c].at \in Checked, NEW place \in {"relay", "joiner"}, GoTo(c, place),
             place = "joiner" => conn[c].own # Nil
      PROVE  GoesOn
  <2>1. Informed(c, [conn[c] EXCEPT !.at = place])
    BY <1>1, ConnProperties DEF Informed, Local, Aimed, Checked
  <2> QED
    BY <1>1, <2>1, GoToKeeps DEF GoesOn, Places, Aimed, Checked
<1>2. CASE TrackOwnServer(c)
  <2>1. CASE Sights(Self[c]) = {}
    BY <1>1, <1>2, <2>1 DEF TrackOwnServer, Checked
  <2>2. CASE Sights(Self[c]) # {}
    <3> DEFINE at(p) == [conn[c] EXCEPT !.at = "relay", !.own = p]
    <3>1. PICK p \in Sights(Self[c]) : Continue(c, at(p))
      BY <1>2, <2>2 DEF TrackOwnServer
    <3>2. /\ ~p.moved /\ p # Nil /\ Sound(p) /\ IPMatches(p.met, Self[c])
          /\ Self[c][2] = 0 \/ PortMatches(p.met, Self[c])
      BY SightIsSound
    <3> DEFINE local == at(p)
    <3>3. /\ local \in Local /\ local.at = "relay" /\ local.dest = conn[c].dest
          /\ local.target = conn[c].target /\ local.own = p
      BY <3>2, ConnProperties DEF Local, Places, Aimed, Checked, Sound
    <3>4. conn[c].at = "own" /\ Continue(c, local)
      BY <1>2, <3>1 DEF TrackOwnServer
    <3> HIDE DEF local
    <3>5. Informed(c, local)
      BY <3>2, <3>3, <3>4, ConnProperties DEF Informed, Aimed, Checked
    <3>6. /\ local.target # Nil => Sound(local.target)
          /\ local.own # Nil => Sound(local.own)
      BY <3>2, <3>3, ConnProperties
    <3> QED
      BY <3>3, <3>4, <3>5, <3>6, ContinueKeeps DEF GoesOn
  <2> QED
    BY <2>1, <2>2
<1>3. CASE EnterHost(c)
  BY <1>1, <1>3 DEF EnterHost, Checked
<1>4. CASE EnterJoiner(c)
  BY <1>1, <1>4 DEF EnterJoiner, Checked
<1>5. CASE ForwardClientMessage(c)
  BY <1>5, ReturnKeeps DEF ForwardClientMessage, GoesOn
<1>6. CASE Close(c)
  <2> DEFINE local == Idle(Nil)
  <2>1. /\ local \in Local /\ local.at = "idle" /\ local.target = Nil /\ local.own = Nil
    BY DEF Local, Idle, Places
  <2>2. Continue(c, local)
    BY <1>6 DEF Close
  <2> HIDE DEF local
  <2>3. Informed(c, local)
    BY <2>1 DEF Informed, Aimed, Checked
  <2> QED
    BY <2>1, <2>2, <2>3, ContinueKeeps DEF GoesOn
<1> QED
  BY <1>2, <1>3, <1>4, <1>5, <1>6

-----------------------------------------------------------------------------
(* Entries and the queue *)

\* What AddNatnegServer may do: enter the peer, below the cap and under a new
\* endpoint, or nothing (backend.go:283-302).
LEMMA EnterKeeps ==
  ASSUME NatnegTyped, NEW cookie \in Cookies, NEW peer \in Heartbeats, Enter(cookie, peer)
  PROVE  /\ NatnegTyped'
         /\ \/ UNCHANGED natnegList
            \/ /\ \A i \in DOMAIN Registry!EntriesOf(cookie) :
                    Registry!Endpoint(Registry!EntriesOf(cookie)[i]) # Registry!Endpoint(peer)
               /\ Len(Registry!EntriesOf(cookie)) < MaxNatnegEntries
               /\ natnegList' = Registry!Put(natnegList, cookie,
                                             Append(Registry!EntriesOf(cookie), peer))
<1> DEFINE entries == Registry!EntriesOf(cookie)
<1>1. entries \in Seq(Heartbeats)
  BY EmptySeq DEF NatnegTyped, Registry!EntriesOf
<1>2. Append(entries, peer) \in Seq(Heartbeats) /\ Len(entries) \in Nat
  BY <1>1, AppendProperties, LenProperties
<1>3. CASE UNCHANGED natnegList
  BY <1>3 DEF NatnegTyped
<1>4. CASE /\ \A i \in DOMAIN entries :
                Registry!Endpoint(entries[i]) # Registry!Endpoint(peer)
           /\ ~(Len(entries) >= MaxNatnegEntries)
           /\ natnegList' = B!Put(natnegList, cookie, Append(entries, peer))
  <2> HIDE DEF entries
  <2>1. Len(entries) < MaxNatnegEntries
    BY <1>2, <1>4, BrowserAssumption
  <2>2. NatnegTyped'
    BY <1>2, <1>4 DEF NatnegTyped, B!Put
  <2> QED
    BY <1>4, <2>1, <2>2 DEF entries, B!Put, Registry!Put
<1> QED
  BY <1>3, <1>4 DEF Enter

\* What a step of a connection may do to what it shares with NATNEG and QR.
LEMMA ConnStepEffect ==
  ASSUME Inv, NEW c \in Conns, ConnStep(c)
  PROVE  /\ GoesOn
         /\ \/ UNCHANGED natnegList
            \/ \E cookie \in Cookies, peer \in Heartbeats : Enter(cookie, peer)
         /\ UNCHANGED queue \/ ForwardClientMessage(c)
<1>1. GoesOn
  BY FindingKeeps, CheckingKeeps, RelayingKeeps DEF Inv, ConnStep
<1>2. ASSUME EnterHost(c)
      PROVE  /\ Enter(Cookie(c), Record(conn[c].target).fields)
             /\ Cookie(c) \in Cookies /\ Record(conn[c].target).fields \in Heartbeats
             /\ UNCHANGED queue
  <2>1. conn[c].at = "host"
    BY <1>2 DEF EnterHost
  <2>2. Sound(conn[c].target) /\ conn[c].dest \in Dests
    BY <2>1, ConnProperties DEF Inv, Informed, Aimed, Checked
  <2> QED
    BY <1>2, <2>2, ReadingMet DEF EnterHost, Cookie, Cookies
<1>3. ASSUME EnterJoiner(c)
      PROVE  /\ Enter(Cookie(c), Record(conn[c].own).fields)
             /\ Cookie(c) \in Cookies /\ Record(conn[c].own).fields \in Heartbeats
             /\ UNCHANGED queue
  <2>1. conn[c].at = "joiner"
    BY <1>3 DEF EnterJoiner
  <2>2. Sound(conn[c].own) /\ conn[c].dest \in Dests
    BY <2>1, ConnProperties DEF Inv, Informed, Aimed, Checked
  <2> QED
    BY <1>3, <2>2, ReadingMet DEF EnterJoiner, Cookie, Cookies
<1>4. ASSUME ~EnterHost(c), ~EnterJoiner(c), ~ForwardClientMessage(c)
      PROVE  UNCHANGED <<natnegList, queue>>
  BY <1>4 DEF ConnStep, ReceiveMessage, FindSigned, FindDotted, ReadIP, CheckIP, CheckPort,
              TrackOwnServer, Close
<1>5. ForwardClientMessage(c) => UNCHANGED natnegList
  BY DEF ForwardClientMessage
<1> QED
  BY <1>1, <1>2, <1>3, <1>4, <1>5

\* A relayed message names the session that is read last of all
\* (browser/server.go:490-492).
LEMMA ForwardEffect ==
  ASSUME Inv, NEW c \in Conns, ForwardClientMessage(c)
  PROVE  /\ QueueBounded'
         /\ Sound(conn[c].target) /\ conn[c].at = "relay"
         /\ \/ UNCHANGED queue
            \/ queue' = Append(queue, [conn |-> c, dest |-> conn[c].dest,
                                       session |-> Record(conn[c].target).session])
<1>1. conn[c].at = "relay"
  BY DEF ForwardClientMessage
<1>2. Sound(conn[c].target) /\ conn[c].dest \in Dests
  BY <1>1, ConnProperties DEF Inv, Informed, Aimed, Checked
<1> DEFINE Join == [conn : Conns, dest : Dests, session : Sessions]
           join == [conn |-> c, dest |-> conn[c].dest,
                    session |-> Record(conn[c].target).session]
<1>3. join \in Join
  BY <1>2, ReadingMet
<1>4. queue' = IF Len(queue) >= QueueSize THEN queue ELSE Append(queue, join)
  BY DEF ForwardClientMessage
<1> HIDE DEF join, Join
<1>5. queue \in Seq(Join) /\ Len(queue) <= QueueSize /\ Len(queue) \in Nat
  BY LenProperties DEF Inv, QueueBounded, Join
<1>6. Append(queue, join) \in Seq(Join) /\ Len(Append(queue, join)) = Len(queue) + 1
  BY <1>3, <1>5, AppendProperties
<1>7. queue' \in Seq(Join) /\ Len(queue') <= QueueSize
  BY <1>4, <1>5, <1>6, BrowserAssumption
<1> QED
  BY <1>1, <1>2, <1>4, <1>7 DEF QueueBounded, join, Join

-----------------------------------------------------------------------------
(* QR *)

\* A pointer keeps its array from being collected or reused.
LEMMA KeptIsPinned ==
  ASSUME PointersSound, NEW p \in Kept(conn) \ {Nil}
  PROVE  /\ Sound(p) /\ p.cell.array \in Pinned(conn) /\ p.cell.array \in Arrays
         /\ p.cell.index \in 1..Len(arrays[p.cell.array])
<1>1. Sound(p)
  BY DEF PointersSound
<1>2. p.cell.array \in Pinned(conn)
  BY DEF Pinned
<1> QED
  BY <1>1, <1>2 DEF Sound, Sightings, Pointers

\* Whatever a heartbeat makes of the slice, nobody's pointer is turned to
\* another room (backend.go:103-123).
LEMMA AdvertiseKeeps ==
  ASSUME Memory, PointersSound, NEW g \in Games, NEW s \in Sessions,
         UpdateServerList(g, s, Reg[s], Pinned(conn)), UNCHANGED conn
  PROVE  /\ Memory' /\ PointersSound'
         /\ BP!ReplaceRoom(g, s, Reg[s]) \/ BP!AppendRoom(g, s, Reg[s])
<1> DEFINE h == Reg[s]
<1>1. h \in Heartbeats /\ Room(s, h) \in Own
  BY BrowserAssumption DEF Room, Own, B!Room
<1>2. /\ Layout(Own)'
      /\ BP!ReplaceRoom(g, s, h) \/ BP!AppendRoom(g, s, h)
      /\ \A a \in Arrays : a \in Pinned(conn) =>
           /\ Len(arrays'[a]) = Len(arrays[a])
           /\ \A i \in 1..Len(arrays[a]) : /\ Upserted(s, h, a, i)
                                           /\ BehindEnd(a, i)' => BehindEnd(a, i)
  <2>1. CASE ReplaceRoom(g, s, h)
    <3>1. /\ Layout(Own)' /\ BP!ReplaceRoom(g, s, h) /\ UNCHANGED slices
          /\ \A a \in Arrays : /\ Len(arrays'[a]) = Len(arrays[a])
                               /\ \A i \in 1..Len(arrays[a]) : Upserted(s, h, a, i)
      BY <1>1, <2>1, ReplaceKeeps DEF Memory
    <3> QED
      BY <3>1 DEF BehindEnd
  <2>2. CASE AppendRoom(g, s, h, Pinned(conn))
    BY <1>1, <2>2, AppendKeeps DEF Memory
  <2> QED
    BY <2>1, <2>2 DEF UpdateServerList
<1>3. Memory'
  BY <1>1, <1>2, BP!UpdateKeepsRoomInv DEF Memory
<1>4. ASSUME NEW p \in Kept(conn) \ {Nil}
      PROVE  Sound(p)'
  <2> DEFINE a == p.cell.array
             i == p.cell.index
  <2>1. Sound(p) /\ a \in Pinned(conn) /\ a \in Arrays /\ i \in 1..Len(arrays[a])
    BY KeptIsPinned
  <2>2. /\ Len(arrays'[a]) = Len(arrays[a]) /\ Upserted(s, h, a, i)
        /\ BehindEnd(a, i)' => BehindEnd(a, i)
    BY <1>2, <2>1
  <2>3. Record(p) = arrays[a][i] /\ Record(p)' = arrays'[a][i]
    BY DEF Record, Deref
  <2>4. Record(p)' \in Own
    BY <1>1, <2>1, <2>2, <2>3 DEF Upserted, Sound
  <2>5. ASSUME ~p.moved
        PROVE  Record(p)'.session = p.met
    <3>1. Record(p).session = p.met /\ ~BehindEnd(a, i)
      BY <2>1, <2>5 DEF Sound
    <3> QED
      BY <2>2, <2>3, <3>1 DEF Upserted, Room
  <2> QED
    BY <2>1, <2>2, <2>4, <2>5 DEF Sound, Own
<1> QED
  BY <1>2, <1>3, <1>4 DEF PointersSound

\* A removal turns only the pointers that it reaches, and those read another
\* room of the game or the same (backend.go:129-160).
LEMMA RemoveKeeps ==
  ASSUME Memory, PointersSound, ConnsInformed, NEW g \in Games, NEW s \in Sessions, Remove(g, s)
  PROVE  Memory' /\ PointersSound' /\ ConnsInformed' /\ BP!DeleteServer(g, s)
<1> DEFINE reached(p) == p # Nil /\ p.cell.array = slices[g].array
                                 /\ p.cell.index >= sessionIdx[g][s]
           after(p) == IF reached(p) THEN [p EXCEPT !.moved = TRUE] ELSE p
<1>1. /\ DeleteServer(g, s, Pinned(conn))
      /\ conn' = [c \in Conns |-> [conn[c] EXCEPT !.target = after(@), !.own = after(@)]]
  BY DEF Remove
<1>2. /\ Layout(Own)' /\ BP!DeleteServer(g, s)
      /\ \A a \in Arrays : a \in Pinned(conn) =>
           /\ Len(arrays'[a]) = Len(arrays[a])
           /\ \A i \in 1..Len(arrays[a]) :
                LET hit == a = slices[g].array /\ i >= sessionIdx[g][s]
                IN  /\ \/ arrays'[a][i] = arrays[a][i]
                       \/ hit /\ arrays'[a][i] \in Own
                    /\ BehindEnd(a, i)' => hit \/ BehindEnd(a, i)
  BY <1>1, DeleteKeeps DEF Memory
<1>3. Memory'
  BY <1>2, BP!DeleteKeepsRoomInv DEF Memory
<1>4. ASSUME NEW p \in Sightings
      PROVE  /\ after(p) \in Sightings /\ after(p) # Nil
             /\ after(p).cell = p.cell /\ after(p).met = p.met
             /\ ~after(p).moved => ~p.moved /\ ~reached(p)
  BY NilAssumption DEF Sightings
<1>5. ASSUME NEW p \in Kept(conn) \ {Nil}, NEW q, q = after(p)
      PROVE  Sound(q)'
  <2> DEFINE a == p.cell.array
             i == p.cell.index
  <2>1. Sound(p) /\ a \in Pinned(conn) /\ a \in Arrays /\ i \in 1..Len(arrays[a])
    BY KeptIsPinned
  <2>2. p \in Sightings
    BY <2>1 DEF Sound
  <2>3. q \in Sightings /\ q.cell = p.cell /\ q.met = p.met
        /\ (~q.moved => ~p.moved /\ ~reached(p))
    BY <1>4, <1>5, <2>2
  <2>4. /\ Len(arrays'[a]) = Len(arrays[a])
        /\ arrays'[a][i] = arrays[a][i] \/ (reached(p) /\ arrays'[a][i] \in Own)
        /\ BehindEnd(a, i)' => reached(p) \/ BehindEnd(a, i)
    BY <1>2, <2>1, <1>5
  <2>5. Record(p) = arrays[a][i] /\ Record(q)' = arrays'[a][i]
    BY <2>3 DEF Record, Deref
  <2>6. Record(q)' \in Own
    BY <2>1, <2>4, <2>5 DEF Sound
  <2>7. ASSUME ~q.moved
        PROVE  Record(q)'.session = q.met /\ ~BehindEnd(q.cell.array, q.cell.index)'
    BY <2>1, <2>3, <2>4, <2>5, <2>7 DEF Sound
  <2>8. q.cell.index \in 1..Len(arrays'[q.cell.array])
    BY <2>1, <2>3, <2>4
  <2> HIDE DEF after, reached
  <2> QED
    BY <2>3, <2>6, <2>7, <2>8 DEF Sound, Own
<1>6. ASSUME NEW c \in Conns
      PROVE  /\ conn'[c] \in Local
             /\ conn'[c].at = conn[c].at /\ conn'[c].dest = conn[c].dest
             /\ conn'[c].msg = conn[c].msg
             /\ conn'[c].target = after(conn[c].target)
             /\ conn'[c].own = after(conn[c].own)
  <2> DEFINE target == after(conn[c].target)
             own == after(conn[c].own)
  <2>1. target \in Sightings \cup {Nil} /\ own \in Sightings \cup {Nil}
    BY <1>4, ConnProperties DEF Local
  <2>2. conn'[c] = [conn[c] EXCEPT !.target = target, !.own = own]
    BY <1>1
  <2> HIDE DEF target, own
  <2>3. /\ conn'[c] \in Local
        /\ conn'[c].at = conn[c].at /\ conn'[c].dest = conn[c].dest
        /\ conn'[c].msg = conn[c].msg
        /\ conn'[c].target = target /\ conn'[c].own = own
    BY <2>1, <2>2, ConnProperties DEF Local
  <2> QED
    BY <2>3 DEF target, own
<1>7. ASSUME NEW c \in Conns
      PROVE  Informed(c, conn'[c])
  <2> DEFINE old == conn[c]
             new == conn'[c]
  <2>1. /\ old \in Local /\ Informed(c, old)
        /\ new.at = old.at /\ new.dest = old.dest /\ new.msg = old.msg
        /\ new.target = after(old.target) /\ new.own = after(old.own)
    BY <1>6, ConnProperties
  <2>2. ASSUME NEW p \in Sightings \cup {Nil}, NEW q, q = after(p)
        PROVE  /\ p = Nil <=> q = Nil
               /\ p # Nil => q.met = p.met /\ (~q.moved => ~p.moved)
    BY <1>4, <2>2, NilAssumption
  <2>3. old.target \in Sightings \cup {Nil} /\ old.own \in Sightings \cup {Nil}
    BY <2>1 DEF Local
  <2> HIDE DEF after, old, new
  <2>4. /\ old.target = Nil <=> new.target = Nil
        /\ old.target # Nil => /\ new.target.met = old.target.met
                               /\ ~new.target.moved => ~old.target.moved
        /\ old.own = Nil <=> new.own = Nil
        /\ old.own # Nil => /\ new.own.met = old.own.met
                            /\ ~new.own.moved => ~old.own.moved
    BY <2>1, <2>2, <2>3
  <2>5. Informed(c, new)
    BY <2>1, <2>4 DEF Informed, Aimed, Checked
  <2> QED
    BY <2>5 DEF new
<1>8. PointersSound'
  <2> SUFFICES ASSUME NEW q \in Kept(conn') \ {Nil}
               PROVE  Sound(q)'
    BY DEF PointersSound
  <2>0. PICK c \in Conns : q = conn'[c].target \/ q = conn'[c].own
    BY DEF Kept
  <2>1. PICK p \in Kept(conn) : q = after(p)
    <3> HIDE DEF after, reached
    <3>1. conn[c].target \in Kept(conn) /\ conn[c].own \in Kept(conn)
      BY DEF Kept
    <3> QED
      BY <1>6, <2>0, <3>1
  <2>2. p # Nil
    BY <2>1
  <2> QED
    BY <1>5, <2>1, <2>2
<1>9. ConnsInformed'
  <2>1. conn' \in [Conns -> Local]
    BY <1>1, <1>6
  <2> QED
    BY <2>1, <1>7 DEF ConnsInformed, Informed, IPMatches, PortMatches
<1> QED
  BY <1>2, <1>3, <1>8, <1>9

\* A clean-up of NATNEG only marks what it takes from a join under way.
LEMMA ClearKeeps ==
  ASSUME Memory, PointersSound, ConnsInformed, NEW cookie, ClearEntries(cookie)
  PROVE  Memory' /\ PointersSound' /\ ConnsInformed'
<1>1. UNCHANGED <<arrays, slices, sessionIdx>>
  BY DEF ClearEntries, sliceVars
<1>2. ASSUME NEW c \in Conns
      PROVE  /\ conn'[c] \in Local
             /\ \E lost : conn'[c] = [conn[c] EXCEPT !.lost = lost]
             /\ conn'[c].at = conn[c].at /\ conn'[c].dest = conn[c].dest
             /\ conn'[c].msg = conn[c].msg
             /\ conn'[c].target = conn[c].target /\ conn'[c].own = conn[c].own
  <2> DEFINE lost == conn[c].lost \cup Entered(conn[c].at)
  <2>1. conn[c] \in Local
    BY DEF ConnsInformed
  <2>2. conn'[c] = [conn[c] EXCEPT !.lost = lost] \/ conn'[c] = conn[c]
    BY DEF ClearEntries
  <2>3. lost \in SUBSET {"host", "joiner"} /\ conn[c].lost \in SUBSET {"host", "joiner"}
    BY <2>1 DEF Local, Entered
  <2>4. conn[c] = [conn[c] EXCEPT !.lost = conn[c].lost]
    BY <2>1 DEF Local
  <2> HIDE DEF lost
  <2>5. PICK new \in SUBSET {"host", "joiner"} : conn'[c] = [conn[c] EXCEPT !.lost = new]
    BY <2>2, <2>3, <2>4
  <2> QED
    BY <2>1, <2>5 DEF Local
<1>3. Memory'
  BY <1>1 DEF Memory, Layout, BP!RoomInv, Lists
<1>4. \A p : Sound(p)' <=> Sound(p)
  BY <1>1 DEF Sound, Record, Deref, BehindEnd, Own
<1>5. Kept(conn') = Kept(conn)
  BY <1>2 DEF Kept
<1>6. PointersSound'
  BY <1>4, <1>5 DEF PointersSound
<1>7. conn' \in [Conns -> Local]
  BY <1>2 DEF ClearEntries
<1>8. ConnsInformed'
  BY <1>2, <1>7 DEF ConnsInformed, Informed, IPMatches, PortMatches
<1> QED
  BY <1>3, <1>6, <1>8

-----------------------------------------------------------------------------
(* The invariant *)

\* A server starts with no rooms, connections, entries or joins.
LEMMA InitInv == Init => Inv
<1> SUFFICES ASSUME Init PROVE Inv
  OBVIOUS
<1>1. Memory
  <2>1. arrays = [a \in Arrays |-> << >>] /\ DOMAIN slices = {} /\ DOMAIN sessionIdx = {}
    BY DEF Init, InitSlices, B!EmptyMap
  <2>2. Layout(Own)
    BY <2>1, EmptySeq DEF Layout
  <2>3. DOMAIN Lists = {}
    BY <2>1 DEF Lists
  <2> QED
    BY <2>1, <2>2, <2>3 DEF Memory, BP!RoomInv
<1>2. ASSUME NEW c \in Conns
      PROVE  /\ conn[c] = Idle(Nil) /\ conn[c] \in Local /\ Informed(c, conn[c])
             /\ conn[c].target = Nil /\ conn[c].own = Nil
  BY DEF Init, Idle, Local, Places, Informed, Aimed, Checked
<1>3. conn \in [Conns -> Local]
  BY <1>2 DEF Init
<1>4. PointersSound
  BY <1>2 DEF PointersSound, Kept
<1>5. NatnegTyped
  BY DEF Init, B!EmptyMap, NatnegTyped
<1>6. QueueBounded
  <2>1. queue = << >> /\ Len(queue) = 0
    BY EmptySeq DEF Init
  <2>2. queue \in Seq([conn : Conns, dest : Dests, session : Sessions])
    BY <2>1, EmptySeq
  <2> QED
    BY <2>1, <2>2, BrowserAssumption DEF QueueBounded
<1> QED
  BY <1>1, <1>2, <1>3, <1>4, <1>5, <1>6 DEF Inv, ConnsInformed

\* Advertise and Remove concern sessions of a game.
LEMMA HostsAreSessions ==
  ASSUME NEW g \in Games, NEW s \in Hosts[g]
  PROVE  s \in Sessions
BY BrowserAssumption

\* Every step of the browser, QR and NATNEG keeps the invariant.
LEMMA StepKeepsInv == Inv /\ [Next]_vars => Inv'
<1> SUFFICES ASSUME Inv, [Next]_vars PROVE Inv'
  OBVIOUS
<1>1. ASSUME NEW c \in Conns, ConnStep(c)
      PROVE  Inv'
  <2>1. GoesOn
    BY <1>1, ConnStepEffect
  <2>2. NatnegTyped'
    <3>1. CASE UNCHANGED natnegList
      BY <3>1 DEF Inv, NatnegTyped
    <3>2. CASE \E cookie \in Cookies, peer \in Heartbeats : Enter(cookie, peer)
      BY <3>2, EnterKeeps DEF Inv
    <3> QED
      BY <1>1, <3>1, <3>2, ConnStepEffect
  <2>3. QueueBounded'
    <3>1. CASE UNCHANGED queue
      BY <3>1 DEF Inv, QueueBounded
    <3> QED
      BY <1>1, <3>1, ConnStepEffect, ForwardEffect
  <2> QED
    BY <2>1, <2>2, <2>3 DEF GoesOn, Inv
<1>2. ASSUME UNCHANGED <<sliceVars, conn>>
      PROVE  Memory' /\ PointersSound' /\ ConnsInformed'
  <2>1. UNCHANGED <<arrays, slices, sessionIdx, conn>>
    BY <1>2 DEF sliceVars
  <2>2. Memory'
    BY <2>1 DEF Inv, Memory, Layout, BP!RoomInv, Lists
  <2>3. \A p : Sound(p)' <=> Sound(p)
    BY <2>1 DEF Sound, Record, Deref, BehindEnd, Own
  <2>4. PointersSound' /\ ConnsInformed'
    BY <2>1, <2>3 DEF Inv, PointersSound, ConnsInformed, Informed, IPMatches, PortMatches
  <2> QED
    BY <2>2, <2>4
<1>3. CASE Write
  <2> DEFINE Join == [conn : Conns, dest : Dests, session : Sessions]
  <2>1. queue \in Seq(Join) /\ queue # << >> /\ queue' = Tail(queue)
    BY <1>3 DEF Write, Inv, QueueBounded
  <2>2. queue' \in Seq(Join) /\ Len(queue') = Len(queue) - 1 /\ Len(queue) \in Nat
    <3> HIDE DEF Join
    <3> QED
      BY <2>1, HeadTailProperties, LenProperties
  <2>3. QueueBounded'
    BY <2>2, BrowserAssumption DEF Inv, QueueBounded
  <2>4. NatnegTyped'
    BY <1>3 DEF Write, Inv, NatnegTyped
  <2> QED
    BY <1>2, <1>3, <2>3, <2>4 DEF Write, Inv
<1>4. ASSUME NEW g \in Games, NEW s \in Hosts[g], Advertise(g, s)
      PROVE  Inv'
  <2>1. Memory' /\ PointersSound'
    BY <1>4, HostsAreSessions, AdvertiseKeeps DEF Advertise, Inv
  <2>2. ConnsInformed' /\ NatnegTyped' /\ QueueBounded'
    BY <1>4 DEF Advertise, Inv, ConnsInformed, Informed, IPMatches, PortMatches,
                NatnegTyped, QueueBounded
  <2> QED
    BY <2>1, <2>2 DEF Inv
<1>5. ASSUME NEW g \in Games, NEW s \in Hosts[g], Remove(g, s)
      PROVE  Inv'
  <2>1. Memory' /\ PointersSound' /\ ConnsInformed'
    BY <1>5, HostsAreSessions, RemoveKeeps DEF Inv
  <2>2. NatnegTyped' /\ QueueBounded'
    BY <1>5 DEF Remove, Inv, NatnegTyped, QueueBounded
  <2> QED
    BY <2>1, <2>2 DEF Inv
<1>6. ASSUME NEW cookie \in Cookies, ClearEntries(cookie)
      PROVE  Inv'
  <2>1. NatnegTyped'
    BY <1>6 DEF ClearEntries, B!Without, Inv, NatnegTyped
  <2>2. QueueBounded'
    BY <1>6 DEF ClearEntries, Inv, QueueBounded
  <2> QED
    BY <1>6, <2>1, <2>2, ClearKeeps DEF Inv
<1>7. CASE UNCHANGED vars
  <2>1. NatnegTyped' /\ QueueBounded'
    BY <1>7 DEF vars, Inv, NatnegTyped, QueueBounded
  <2> QED
    BY <1>2, <1>7, <2>1 DEF vars, sliceVars, Inv
<1> QED
  BY <1>1, <1>3, <1>4, <1>5, <1>6, <1>7 DEF Next

\* The strengthened invariant holds in every behaviour.
LEMMA Invariance == Spec => []Inv
BY InitInv, StepKeepsInv, PTL DEF Spec

-----------------------------------------------------------------------------
(* The theorems *)

\* Slices lie within their arrays and pointers within theirs, and the queue
\* of joins never exceeds its capacity.
THEOREM TypeCorrect == Spec => []TypeOK
<1>1. Inv => TypeOK
  <2> SUFFICES ASSUME Inv PROVE TypeOK
    OBVIOUS
  <2>1. ASSUME NEW a \in Arrays
        PROVE  arrays[a] \in Seq(B!Room \cup {Blank})
    <3>1. arrays[a] \in Seq(Own \cup {Blank}) /\ Own \cup {Blank} \subseteq B!Room \cup {Blank}
      BY DEF Inv, Memory, Layout, Own
    <3> QED
      BY <3>1, LenProperties, ElementOfSeq, IsASeq
  <2>2. ASSUME NEW g \in DOMAIN slices
        PROVE  slices[g].array \in Arrays /\ slices[g].len \in 1..Len(arrays[slices[g].array])
    <3>1. slices[g] \in Slice /\ slices[g].len <= Len(arrays[slices[g].array])
          /\ arrays \in [Arrays -> Seq(Own \cup {Blank})]
      BY DEF Inv, Memory, Layout
    <3> QED
      BY <3>1, LenProperties DEF Slice
  <2>3. ASSUME NEW p \in Kept(conn) \ {Nil}
        PROVE  p \in Sightings /\ p.cell.index \in DOMAIN arrays[p.cell.array]
    <3>1. Sound(p) /\ p.cell.array \in Arrays
          /\ p.cell.index \in 1..Len(arrays[p.cell.array])
      BY KeptIsPinned DEF Inv
    <3>2. arrays[p.cell.array] \in Seq(Own \cup {Blank})
      BY <3>1 DEF Inv, Memory, Layout
    <3> QED
      BY <3>1, <3>2, LenProperties DEF Sound
  <2> QED
    BY <2>1, <2>2, <2>3 DEF Inv, NatnegTyped, QueueBounded, TypeOK
<1> QED
  BY <1>1, Invariance, PTL

\* However long a connection keeps a pointer, what it reads there is a room
\* that was registered (backend.go:146-160, browser/server.go:458-508).
THEOREM PointersNeverDangle == Spec => []PointersReadRooms
<1>1. Inv => PointersReadRooms
  BY NilAssumption DEF Inv, PointersSound, Sound, Own, PointersReadRooms
<1> QED
  BY <1>1, Invariance, PTL

\* Only a removal that reaches its cell can turn a pointer to another host.
THEOREM PointersStayGood == Spec => []PointersGoodUntilRemoval
<1>1. Inv => PointersGoodUntilRemoval
  BY DEF Inv, PointersSound, Sound, PointersGoodUntilRemoval
<1> QED
  BY <1>1, Invariance, PTL

\* Whatever arrays the slices share with abandoned ones and whoever holds
\* pointers into them, the room list of every game is the sequence that
\* Backend speaks of (backend.go:84-160).
THEOREM Refinement == Spec => ImplementsBackend
<1>1. Init => Registry!Init
  BY DEF Init, InitSlices, B!EmptyMap, Lists, Registry!Init, Registry!EmptyMap
<1>2. Inv /\ [Next]_vars => [Registry!Next]_(Registry!vars)
  <2> SUFFICES ASSUME Inv, [Next]_vars
               PROVE  Registry!Next \/ UNCHANGED <<Lists, sessionIdx, natnegList>>
    BY DEF Registry!vars
  <2>1. ASSUME NEW c \in Conns, ConnStep(c)
        PROVE  Registry!Next \/ UNCHANGED <<Lists, sessionIdx, natnegList>>
    <3>1. UNCHANGED <<Lists, sessionIdx>>
      BY <2>1, ConnStepEffect DEF GoesOn
    <3>2. CASE UNCHANGED natnegList
      BY <3>1, <3>2
    <3>3. ASSUME NEW cookie \in Cookies, NEW peer \in Heartbeats, Enter(cookie, peer)
          PROVE  Registry!AddNatnegServer(cookie, peer) \/ UNCHANGED natnegList
      BY <3>1, <3>3, EnterKeeps DEF Inv, Registry!AddNatnegServer, Registry!roomVars
    <3> QED
      BY <2>1, <3>1, <3>2, <3>3, ConnStepEffect DEF Registry!Next
  <2>2. CASE Write
    BY <2>2 DEF Write, sliceVars, Lists
  <2>3. ASSUME NEW g \in Games, NEW s \in Hosts[g], Advertise(g, s)
        PROVE  Registry!Next
    <3>1. s \in Sessions /\ Reg[s] \in Heartbeats
      BY HostsAreSessions, BrowserAssumption
    <3>2. BP!ReplaceRoom(g, s, Reg[s]) \/ BP!AppendRoom(g, s, Reg[s])
      BY <2>3, <3>1, AdvertiseKeeps DEF Advertise, Inv
    <3>3. UNCHANGED natnegList
      BY <2>3 DEF Advertise
    <3>4. Registry!UpdateServerList(g, s, Reg[s])
      BY <3>2, <3>3 DEF Registry!UpdateServerList, Registry!ReplaceRoom, BP!ReplaceRoom,
         Registry!AppendRoom, BP!AppendRoom, Registry!Indexed, BP!Indexed,
         Registry!Put, BP!Put, Registry!RoomsOf, BP!RoomsOf, Registry!IndexOf, BP!IndexOf,
         Registry!EmptyMap, BP!EmptyMap
    <3> QED
      BY <3>1, <3>4 DEF Registry!Next
  <2>4. ASSUME NEW g \in Games, NEW s \in Hosts[g], Remove(g, s)
        PROVE  Registry!Next
    <3>1. BP!DeleteServer(g, s) /\ s \in Sessions
      BY <2>4, HostsAreSessions, RemoveKeeps DEF Inv
    <3>2. UNCHANGED natnegList
      BY <2>4 DEF Remove
    <3>3. Registry!DeleteServer(g, s)
      BY <3>1, <3>2 DEF Registry!DeleteServer, BP!DeleteServer, Registry!Indexed, BP!Indexed,
         Registry!Put, BP!Put, Registry!Without, BP!Without, Registry!RemoveAt, BP!RemoveAt,
         Registry!Reindex, BP!Reindex
    <3> QED
      BY <3>1, <3>3 DEF Registry!Next
  <2>5. ASSUME NEW cookie \in Cookies, ClearEntries(cookie)
        PROVE  Registry!Next
    <3>1. Registry!DeleteNatnegServer(cookie)
      BY <2>5 DEF ClearEntries, Registry!DeleteNatnegServer, Registry!roomVars,
         Registry!Without, B!Without, sliceVars, Lists
    <3> QED
      BY <3>1 DEF Registry!Next
  <2>6. CASE UNCHANGED vars
    BY <2>6 DEF vars, Lists
  <2> QED
    BY <2>1, <2>2, <2>3, <2>4, <2>5, <2>6 DEF Next
<1> QED
  BY <1>1, <1>2, Invariance, PTL DEF Spec, ImplementsBackend, Registry!Spec

\* Who gets a relayed join is at the address that was asked for, unless a
\* removal came after the check of the record (browser/server.go:458-492).
THEOREM JoinsReachTheirTarget == Spec => JoinReachesTarget
<1> DEFINE Reached == Len(queue') > Len(queue) =>
                        LET join == queue'[Len(queue')]
                        IN  ~conn[join.conn].target.moved => At(Reg[join.session], join.dest)
<1>1. Inv /\ [Next]_vars => [Reached]_vars
  <2> SUFFICES ASSUME Inv, Next, Len(queue') > Len(queue)
               PROVE  LET join == queue'[Len(queue')]
                      IN  ~conn[join.conn].target.moved => At(Reg[join.session], join.dest)
    OBVIOUS
  <2>1. queue \in Seq([conn : Conns, dest : Dests, session : Sessions]) /\ Len(queue) \in Nat
    BY LenProperties DEF Inv, QueueBounded
  <2>2. UNCHANGED queue => FALSE
    BY <2>1
  <2>3. Write => FALSE
    BY <2>1, HeadTailProperties DEF Write
  <2>4. PICK c \in Conns : ForwardClientMessage(c)
    BY <2>2, <2>3, ConnStepEffect DEF Next, Advertise, Remove, ClearEntries
  <2> DEFINE p == conn[c].target
             join == [conn |-> c, dest |-> conn[c].dest, session |-> Record(p).session]
  <2>5. queue' = Append(queue, join) /\ Sound(p) /\ conn[c].at = "relay"
    BY <2>2, <2>4, ForwardEffect
  <2>6. ~p.moved => /\ IPMatches(p.met, conn[c].dest) /\ PortMatches(p.met, conn[c].dest)
                    /\ Record(p).session = p.met
    BY <2>5, ConnProperties, ReadingMet DEF Inv, Informed, Aimed, Checked
  <2>7. queue'[Len(queue')] = join
    <3> HIDE DEF join
    <3>1. queue' = Append(queue, join)
      BY <2>5
    <3>2. Len(queue') = Len(queue) + 1 /\ queue'[Len(queue) + 1] = join
      BY <2>1, <3>1
    <3> QED
      BY <3>2
  <2>8. ~p.moved => At(Reg[join.session], join.dest)
    BY <2>6 DEF At, IPMatches, PortMatches
  <2> QED
    BY <2>7, <2>8
<1> QED
  BY <1>1, Invariance, PTL DEF Spec, JoinReachesTarget

-----------------------------------------------------------------------------
(* Both ends of a NATNEG join *)

Full(entries) == Len(entries) >= MaxNatnegEntries

(* What becomes of an end once it was entered: it stays, unless the cookie *)
(* is full, it was cleared or a removal has turned the pointer.            *)
Present(entries, p, address) == Full(entries) \/ p.moved \/ Among(entries, address)

EndsEntered(c, local, entries) ==
  /\ local.at \in {"joiner", "relay"} =>
       "host" \in local.lost \/ Present(entries, local.target, local.dest)
  /\ local.at = "relay" =>
       "joiner" \in local.lost \/ local.own = Nil \/ Present(entries, local.own, Self[c])

EntriesOfJoin(c) == Registry!EntriesOf(Cookie(c))

JoinsEntered ==
  \A c \in Conns : conn[c].msg = "natneg" => EndsEntered(c, conn[c], EntriesOfJoin(c))

\* After AddNatnegServer an endpoint at the peer's address is among the
\* cookie's entries, or the cookie is full; what was there before stays, and
\* no other cookie has changed (backend.go:283-302).
LEMMA EnterEffect ==
  ASSUME NatnegTyped, NEW cookie \in Cookies, NEW peer \in Heartbeats, Enter(cookie, peer)
  PROVE  LET entries == Registry!EntriesOf(cookie)
             after == Registry!EntriesOf(cookie)'
         IN  /\ Full(entries) => Full(after)
             /\ \A address : Among(entries, address) => Among(after, address)
             /\ \A address : At(peer, address) => Full(after) \/ Among(after, address)
             /\ \A other : other # cookie =>
                  Registry!EntriesOf(other)' = Registry!EntriesOf(other)
<1> DEFINE entries == Registry!EntriesOf(cookie)
           after == Registry!EntriesOf(cookie)'
           known == \E i \in DOMAIN entries :
                      Registry!Endpoint(entries[i]) = Registry!Endpoint(peer)
<1>1. entries \in Seq(Heartbeats)
  BY EmptySeq DEF NatnegTyped, Registry!EntriesOf
<1>2. Len(entries) \in Nat /\ DOMAIN entries = 1..Len(entries) /\ MaxNatnegEntries \in Nat
  BY <1>1, LenProperties, BrowserAssumption
<1>3. IF known \/ Len(entries) >= MaxNatnegEntries THEN UNCHANGED natnegList
      ELSE natnegList' = B!Put(natnegList, cookie, Append(entries, peer))
  BY DEF Enter
<1>4. CASE UNCHANGED natnegList /\ (known \/ Len(entries) >= MaxNatnegEntries)
  <2>1. \A other : Registry!EntriesOf(other)' = Registry!EntriesOf(other)
    BY <1>4 DEF Registry!EntriesOf
  <2>2. ASSUME NEW address, At(peer, address), ~Full(entries)
        PROVE  Among(entries, address)
    <3>1. PICK i \in DOMAIN entries : Registry!Endpoint(entries[i]) = Registry!Endpoint(peer)
      BY <1>4, <2>2 DEF Full
    <3>2. At(entries[i], address)
      BY <2>2, <3>1 DEF Registry!Endpoint, At
    <3> HIDE DEF entries
    <3> QED
      BY <3>2 DEF Among
  <2> HIDE DEF entries
  <2> QED
    BY <2>1, <2>2 DEF entries
<1>5. CASE natnegList' = B!Put(natnegList, cookie, Append(entries, peer))
  <2> DEFINE new == Append(entries, peer)
             last == Len(entries) + 1
  <2>1. after = new
    BY <1>5 DEF B!Put, Registry!EntriesOf
  <2>2. \A other : other # cookie => Registry!EntriesOf(other)' = Registry!EntriesOf(other)
    BY <1>5 DEF B!Put, Registry!EntriesOf
  <2> HIDE DEF entries, after
  <2>3. /\ new \in Seq(Heartbeats) /\ Len(new) = last /\ new[last] = peer
        /\ \A i \in 1..Len(entries) : new[i] = entries[i]
    BY <1>1, AppendProperties
  <2> HIDE DEF new
  <2>4. DOMAIN new = 1..last /\ last \in 1..last /\ 1..Len(entries) \subseteq 1..last
    BY <1>2, <2>3, LenProperties
  <2>5. Full(entries) => Full(new)
    BY <1>2, <2>3 DEF Full
  <2>6. ASSUME NEW address, Among(entries, address)
        PROVE  Among(new, address)
    BY <1>2, <2>3, <2>4, <2>6 DEF Among
  <2>7. ASSUME NEW address, At(peer, address)
        PROVE  Among(new, address)
    BY <2>3, <2>4, <2>7 DEF Among
  <2> QED
    BY <2>1, <2>2, <2>5, <2>6, <2>7 DEF entries, after
<1> QED
  BY <1>3, <1>4, <1>5

\* The record that a pointer reads is at the address it was found for, until
\* a removal reaches it (browser/server.go:458-508).
LEMMA RecordsAt ==
  ASSUME Inv, NEW c \in Conns
  PROVE  /\ conn[c].at \in Checked /\ ~conn[c].target.moved =>
              At(Record(conn[c].target).fields, conn[c].dest)
         /\ conn[c].own # Nil /\ ~conn[c].own.moved =>
              At(Record(conn[c].own).fields, Self[c])
         /\ conn[c].at \in Checked => Record(conn[c].target).fields \in Heartbeats
         /\ conn[c].own # Nil => Record(conn[c].own).fields \in Heartbeats
         /\ conn[c].at \in Checked => Cookie(c) \in Cookies
<1>1. /\ conn[c] \in Local /\ Informed(c, conn[c])
      /\ conn[c].target # Nil => Sound(conn[c].target)
      /\ conn[c].own # Nil => Sound(conn[c].own)
  BY ConnProperties DEF Inv
<1>2. ASSUME conn[c].at \in Checked
      PROVE  /\ ~conn[c].target.moved => At(Record(conn[c].target).fields, conn[c].dest)
             /\ Record(conn[c].target).fields \in Heartbeats /\ Cookie(c) \in Cookies
  <2>1. conn[c].target # Nil /\ conn[c].dest \in Dests
    BY <1>1, <1>2 DEF Informed, Aimed, Checked
  <2>2. Cookie(c) \in Cookies
    BY <2>1 DEF Cookie, Cookies
  <2>3. ~conn[c].target.moved => /\ IPMatches(conn[c].target.met, conn[c].dest)
                                 /\ PortMatches(conn[c].target.met, conn[c].dest)
    BY <1>1, <1>2, <2>1 DEF Informed, Aimed
  <2>4. /\ Record(conn[c].target).fields \in Heartbeats
        /\ Record(conn[c].target).fields = Reg[Record(conn[c].target).session]
        /\ ~conn[c].target.moved => Record(conn[c].target).session = conn[c].target.met
    BY <1>1, <2>1, ReadingMet
  <2> QED
    BY <2>2, <2>3, <2>4 DEF At, IPMatches, PortMatches
<1>3. ASSUME conn[c].own # Nil
      PROVE  /\ ~conn[c].own.moved => At(Record(conn[c].own).fields, Self[c])
             /\ Record(conn[c].own).fields \in Heartbeats
  <2>1. /\ Record(conn[c].own).fields \in Heartbeats
        /\ Record(conn[c].own).fields = Reg[Record(conn[c].own).session]
        /\ ~conn[c].own.moved => Record(conn[c].own).session = conn[c].own.met
    BY <1>1, <1>3, ReadingMet
  <2>2. ~conn[c].own.moved => /\ IPMatches(conn[c].own.met, Self[c])
                              /\ Self[c][2] = 0 \/ PortMatches(conn[c].own.met, Self[c])
    BY <1>1, <1>3 DEF Informed
  <2> QED
    BY <2>1, <2>2 DEF At, IPMatches, PortMatches
<1> QED
  BY <1>2, <1>3

\* An end that is present, or excused, stays so while the join waits: no
\* entry goes but by a clean-up, and no pointer is turned back.
LEMMA EndsKept ==
  ASSUME NEW c, NEW old, NEW new, NEW before, NEW after,
         EndsEntered(c, old, before),
         new.at = old.at, new.dest = old.dest, old.lost \subseteq new.lost,
         old.target.moved => new.target.moved,
         old.own = Nil => new.own = Nil, old.own.moved => new.own.moved,
         Full(before) => Full(after),
         \A address : Among(before, address) => Among(after, address)
  PROVE  EndsEntered(c, new, after)
BY DEF EndsEntered, Present

\* A connection that goes on to another place is otherwise as it was.
LEMMA GoToFields ==
  ASSUME ConnsInformed, NEW c \in Conns, NEW place, GoTo(c, place)
  PROVE  /\ conn'[c].at = place /\ conn'[c].dest = conn[c].dest
         /\ conn'[c].msg = conn[c].msg /\ conn'[c].lost = conn[c].lost
         /\ conn'[c].target = conn[c].target /\ conn'[c].own = conn[c].own
         /\ Cookie(c)' = Cookie(c)
<1>1. conn[c] \in Local /\ conn \in [Conns -> Local]
  BY DEF ConnsInformed
<1>2. conn'[c] = [conn[c] EXCEPT !.at = place]
  BY <1>1 DEF GoTo, Continue
<1> QED
  BY <1>1, <1>2 DEF Local, Cookie

\* A step of one connection leaves the others and their entries alone.
LEMMA OthersKept ==
  ASSUME Inv, NEW d \in Conns, ConnStep(d), NEW c \in Conns, c # d
  PROVE  conn'[c] = conn[c] /\ EntriesOfJoin(c)' = EntriesOfJoin(c)
<1>1. conn'[c] = conn[c]
  BY DEF ConnStep, ReceiveMessage, FindSigned, FindDotted, ReadIP, CheckIP, CheckPort,
     TrackOwnServer, EnterHost, EnterJoiner, ForwardClientMessage, Close, GoTo, Return,
     Continue, Inv, ConnsInformed
<1>2. PICK cookie : cookie = Cookie(c) /\ cookie = Cookie(c)' /\ cookie # Cookie(d)
  <2>1. conn'[c].dest = conn[c].dest
    BY <1>1
  <2>2. Cookie(c)' = Cookie(c)
    BY <2>1 DEF Cookie
  <2>3. Cookie(c) # Cookie(d)
    BY DEF Cookie
  <2> QED
    BY <2>2, <2>3
<1>3. CASE UNCHANGED natnegList
  BY <1>1, <1>2, <1>3 DEF EntriesOfJoin, Registry!EntriesOf
<1>4. ASSUME NEW peer, Enter(Cookie(d), peer)
      PROVE  EntriesOfJoin(c)' = EntriesOfJoin(c)
  BY <1>2, <1>4 DEF Enter, EntriesOfJoin, Registry!EntriesOf, B!Put
<1> QED
  BY <1>1, <1>3, <1>4
  DEF ConnStep, ReceiveMessage, FindSigned, FindDotted, ReadIP, CheckIP, CheckPort,
      TrackOwnServer, EnterHost, EnterJoiner, ForwardClientMessage, Close

\* Entering the host, and then the player's own room (browser/server.go:481-488).
LEMMA EnteringKeeps ==
  ASSUME Inv, JoinsEntered, NEW c \in Conns, EnterHost(c) \/ EnterJoiner(c),
         conn[c].msg = "natneg"
  PROVE  EndsEntered(c, conn'[c], EntriesOfJoin(c)')
<1>0. ConnsInformed /\ NatnegTyped /\ Informed(c, conn[c])
  BY DEF Inv, ConnsInformed
<1>1. CASE EnterHost(c)
  <2> DEFINE place == IF conn[c].own = Nil THEN "relay" ELSE "joiner"
             peer == Record(conn[c].target).fields
  <2>1. conn[c].at = "host" /\ GoTo(c, place) /\ Enter(Cookie(c), peer)
    BY <1>1 DEF EnterHost
  <2>2. Cookie(c) \in Cookies /\ peer \in Heartbeats
        /\ (~conn[c].target.moved => At(peer, conn[c].dest))
    BY <2>1, RecordsAt DEF Checked
  <2>3. /\ conn'[c].at = place /\ conn'[c].dest = conn[c].dest
        /\ conn'[c].target = conn[c].target /\ conn'[c].own = conn[c].own
        /\ Cookie(c)' = Cookie(c)
    BY <1>0, <2>1, GoToFields
  <2> HIDE DEF peer
  <2>8. PICK cookie : cookie = Cookie(c) /\ cookie = Cookie(c)'
    BY <2>3
  <2>4. \A address : At(peer, address) =>
          \/ Full(Registry!EntriesOf(cookie)')
          \/ Among(Registry!EntriesOf(cookie)', address)
    BY <1>0, <2>1, <2>2, <2>8, EnterEffect
  <2>5. EntriesOfJoin(c)' = Registry!EntriesOf(cookie)'
    BY <2>8 DEF EntriesOfJoin, Registry!EntriesOf
  <2>6. Present(EntriesOfJoin(c)', conn'[c].target, conn'[c].dest)
    BY <2>2, <2>3, <2>4, <2>5 DEF Present
  <2>7. conn'[c].at = "relay" => conn'[c].own = Nil
    BY <2>3
  <2> QED
    BY <2>6, <2>7 DEF EndsEntered
<1>2. CASE EnterJoiner(c)
  <2> DEFINE peer == Record(conn[c].own).fields
             before == EntriesOfJoin(c)
             after == EntriesOfJoin(c)'
  <2>1. conn[c].at = "joiner" /\ GoTo(c, "relay") /\ Enter(Cookie(c), peer)
    BY <1>2 DEF EnterJoiner
  <2>2. conn[c].own # Nil
    BY <1>0, <2>1 DEF Informed
  <2>3. Cookie(c) \in Cookies /\ peer \in Heartbeats
        /\ (~conn[c].own.moved => At(peer, Self[c]))
    BY <2>1, <2>2, RecordsAt DEF Checked
  <2>4. /\ conn'[c].at = "relay" /\ conn'[c].dest = conn[c].dest
        /\ conn'[c].lost = conn[c].lost
        /\ conn'[c].target = conn[c].target /\ conn'[c].own = conn[c].own
        /\ Cookie(c)' = Cookie(c)
    BY <1>0, <2>1, GoToFields
  <2> HIDE DEF peer
  <2>11. PICK cookie : cookie = Cookie(c) /\ cookie = Cookie(c)'
    BY <2>4
  <2>5. /\ Full(Registry!EntriesOf(cookie)) => Full(Registry!EntriesOf(cookie)')
        /\ \A address : Among(Registry!EntriesOf(cookie), address) =>
                          Among(Registry!EntriesOf(cookie)', address)
        /\ \A address : At(peer, address) =>
             \/ Full(Registry!EntriesOf(cookie)')
             \/ Among(Registry!EntriesOf(cookie)', address)
    BY <1>0, <2>1, <2>3, <2>11, EnterEffect
  <2>6. before = Registry!EntriesOf(cookie) /\ after = Registry!EntriesOf(cookie)'
    BY <2>11 DEF EntriesOfJoin, Registry!EntriesOf
  <2>7. EndsEntered(c, conn[c], before)
    BY DEF JoinsEntered
  <2> HIDE DEF before, after
  <2>8. /\ Full(before) => Full(after)
        /\ \A address : Among(before, address) => Among(after, address)
        /\ \A address : At(peer, address) => Full(after) \/ Among(after, address)
    BY <2>5, <2>6
  <2>9. "host" \in conn'[c].lost \/ Present(after, conn'[c].target, conn'[c].dest)
    BY <2>1, <2>4, <2>7, <2>8 DEF EndsEntered, Present
  <2>10. Present(after, conn'[c].own, Self[c])
    BY <2>3, <2>4, <2>8 DEF Present
  <2> QED
    BY <2>9, <2>10 DEF EndsEntered, after
<1> QED
  BY <1>1, <1>2

\* A NATNEG message reaches the relay only over its two entries
\* (browser/server.go:458-492).
LEMMA OtherStepsKeep ==
  ASSUME Inv, NEW c \in Conns, ConnStep(c), ~EnterHost(c), ~EnterJoiner(c),
         conn'[c].msg = "natneg"
  PROVE  conn'[c].at \notin {"joiner", "relay"}
<1>0. conn[c] \in Local /\ conn \in [Conns -> Local] /\ Informed(c, conn[c])
  BY DEF Inv, ConnsInformed
<1>1. ASSUME NEW place, NEW ip, NEW target, place \in {"ip", "readIP", "port"},
             conn'[c] = [conn[c] EXCEPT !.at = place, !.target = target, !.ip = ip]
      PROVE  conn'[c].at \notin {"joiner", "relay"}
  BY <1>0, <1>1 DEF Local
<1>2. ASSUME NEW own, Continue(c, Idle(own))
      PROVE  conn'[c].at \notin {"joiner", "relay"}
  BY <1>0, <1>2 DEF Continue, Idle
<1>3. ASSUME NEW dest, NEW msg, ReceiveMessage(c, dest, msg)
      PROVE  conn'[c].at \notin {"joiner", "relay"}
  BY <1>0, <1>3 DEF ReceiveMessage, Continue, Local
<1>4. ASSUME GoTo(c, "dotted")
      PROVE  conn'[c].at \notin {"joiner", "relay"}
  BY <1>4, GoToFields DEF Inv
<1>5. ASSUME NEW p, NEW place \in {"ip", "readIP"},
             Continue(c, [conn[c] EXCEPT !.at = place, !.target = p])
      PROVE  conn'[c].at \notin {"joiner", "relay"}
  BY <1>0, <1>5 DEF Continue, Local
<1>6. CASE FindSigned(c) \/ FindDotted(c)
  BY <1>2, <1>4, <1>5, <1>6 DEF FindSigned, FindDotted, Return
<1>7. CASE ReadIP(c)
  BY <1>0, <1>7 DEF ReadIP, Continue, Local
<1>8. CASE CheckIP(c)
  <2>1. ASSUME NEW target, Continue(c, [conn[c] EXCEPT !.at = "port", !.target = target])
        PROVE  conn'[c].at \notin {"joiner", "relay"}
    BY <1>0, <2>1 DEF Continue, Local
  <2> QED
    BY <1>2, <1>8, <2>1 DEF CheckIP, Return
<1>9. CASE CheckPort(c)
  <2>1. CASE Return(c)
    BY <1>2, <2>1 DEF Return
  <2>2. ASSUME NEW place, GoTo(c, place), conn[c].msg = "natneg" => place = "host"
        PROVE  conn'[c].at \notin {"joiner", "relay"}
    BY <2>2, GoToFields DEF Inv
  <2>3. Return(c) \/ \E place : GoTo(c, place) /\ (conn[c].msg = "natneg" => place = "host")
    BY <1>9 DEF CheckPort
  <2> QED
    BY <2>1, <2>2, <2>3
<1>10. CASE TrackOwnServer(c)
  <2>1. conn[c].at = "own" /\ conn[c].msg # "natneg"
    BY <1>0, <1>10 DEF TrackOwnServer, Informed
  <2>2. conn'[c].msg = conn[c].msg
    <3>1. ASSUME NEW p, Continue(c, [conn[c] EXCEPT !.at = "relay", !.own = p])
          PROVE  conn'[c].msg = conn[c].msg
      BY <1>0, <3>1 DEF Continue, Local
    <3>2. ASSUME GoTo(c, "relay")
          PROVE  conn'[c].msg = conn[c].msg
      BY <3>2, GoToFields DEF Inv
    <3> QED
      BY <1>10, <3>1, <3>2 DEF TrackOwnServer
  <2> QED
    BY <2>1, <2>2
<1>11. CASE ForwardClientMessage(c) \/ Close(c)
  BY <1>2, <1>11 DEF ForwardClientMessage, Close, Return
<1> QED
  BY <1>3, <1>6, <1>7, <1>8, <1>9, <1>10, <1>11 DEF ConnStep

\* Nothing but the relay, the clean-up and a removal touches a join that waits.
LEMMA StepKeepsJoins ==
  ASSUME Inv, JoinsEntered, [Next]_vars
  PROVE  JoinsEntered'
<1> SUFFICES ASSUME NEW c \in Conns, conn'[c].msg = "natneg"
             PROVE  EndsEntered(c, conn'[c], EntriesOfJoin(c)')
  BY DEF JoinsEntered
<1>0. conn[c] \in Local /\ conn \in [Conns -> Local] /\ ConnsInformed /\ PointersSound
  BY DEF Inv, ConnsInformed
<1>1. conn[c].msg = "natneg" => EndsEntered(c, conn[c], EntriesOfJoin(c))
  BY DEF JoinsEntered
<1>2. ASSUME conn'[c] = conn[c], EntriesOfJoin(c)' = EntriesOfJoin(c)
      PROVE  EndsEntered(c, conn'[c], EntriesOfJoin(c)')
  BY <1>1, <1>2
<1>3. ASSUME NEW d \in Conns, ConnStep(d), d # c
      PROVE  EndsEntered(c, conn'[c], EntriesOfJoin(c)')
  BY <1>2, <1>3, OthersKept
<1>4. CASE EnterHost(c) \/ EnterJoiner(c)
  <2>1. conn'[c].msg = conn[c].msg
    BY <1>0, <1>4, GoToFields DEF EnterHost, EnterJoiner
  <2> QED
    BY <1>4, <2>1, EnteringKeeps
<1>5. CASE ConnStep(c) /\ ~EnterHost(c) /\ ~EnterJoiner(c)
  BY <1>5, OtherStepsKeep DEF EndsEntered
<1>6. CASE UNCHANGED <<natnegList, conn>>
  BY <1>2, <1>6 DEF EntriesOfJoin, Cookie, Registry!EntriesOf
<1>7. ASSUME NEW g \in Games, NEW s \in Hosts[g], Remove(g, s)
      PROVE  EndsEntered(c, conn'[c], EntriesOfJoin(c)')
  <2> DEFINE reached(p) == p # Nil /\ p.cell.array = slices[g].array
                                   /\ p.cell.index >= sessionIdx[g][s]
             after(p) == IF reached(p) THEN [p EXCEPT !.moved = TRUE] ELSE p
             target == after(conn[c].target)
             own == after(conn[c].own)
  <2>1. conn'[c] = [conn[c] EXCEPT !.target = target, !.own = own] /\ UNCHANGED natnegList
    BY <1>7 DEF Remove
  <2>2. ASSUME NEW p \in Sightings \cup {Nil}
        PROVE  (p.moved => after(p).moved) /\ (p = Nil => after(p) = Nil)
    <3>1. CASE p = Nil
      BY <3>1
    <3>2. CASE p \in Sightings
      BY <3>2, NilAssumption DEF Sightings
    <3> QED
      BY <3>1, <3>2
  <2>3. conn[c].target \in Sightings \cup {Nil} /\ conn[c].own \in Sightings \cup {Nil}
    BY <1>0 DEF Local
  <2>4. /\ conn[c].target.moved => target.moved
        /\ conn[c].own.moved => own.moved
        /\ conn[c].own = Nil => own = Nil
    BY <2>2, <2>3
  <2> HIDE DEF target, own
  <2>5. /\ conn'[c].at = conn[c].at /\ conn'[c].dest = conn[c].dest
        /\ conn'[c].msg = conn[c].msg /\ conn'[c].lost = conn[c].lost
        /\ conn'[c].target = target /\ conn'[c].own = own
    BY <1>0, <2>1 DEF Local
  <2>6. EntriesOfJoin(c)' = EntriesOfJoin(c)
    BY <2>1, <2>5 DEF EntriesOfJoin, Cookie, Registry!EntriesOf
  <2> QED
    BY <1>1, <2>4, <2>5, <2>6, EndsKept
<1>8. ASSUME NEW cookie \in Cookies, ClearEntries(cookie)
      PROVE  EndsEntered(c, conn'[c], EntriesOfJoin(c)')
  <2>1. CASE Cookie(c) = cookie
    <3> DEFINE lost == conn[c].lost \cup Entered(conn[c].at)
    <3>1. conn'[c] = [conn[c] EXCEPT !.lost = lost]
      BY <1>8, <2>1 DEF ClearEntries
    <3> HIDE DEF lost
    <3>2. conn'[c].at = conn[c].at /\ conn'[c].lost = lost
      BY <1>0, <3>1 DEF Local
    <3> QED
      BY <3>2 DEF lost, Entered, EndsEntered
  <2>2. CASE Cookie(c) # cookie
    <3>1. conn'[c] = conn[c]
      BY <1>8, <2>2 DEF ClearEntries
    <3>2. EntriesOfJoin(c)' = EntriesOfJoin(c)
      BY <1>8, <2>2, <3>1
      DEF ClearEntries, B!Without, EntriesOfJoin, Cookie, Registry!EntriesOf
    <3> QED
      BY <1>2, <3>1, <3>2
  <2> QED
    BY <2>1, <2>2
<1> QED
  BY <1>3, <1>4, <1>5, <1>6, <1>7, <1>8 DEF Next, Write, Advertise, vars

\* When a NATNEG join is relayed, the host it goes to and the player's own
\* room, if known, are both among the cookie's entries, but for an end that
\* was cleared since it was entered, a cookie that is full, or a pointer that
\* a removal has turned (browser/server.go:481-492, backend.go:283-302).
THEOREM JoinsEnterBothEnds == Spec => JoinEntersBothEnds
<1> DEFINE BothEnds ==
      \A c \in Conns :
        conn[c].at = "relay" /\ conn'[c].at # "relay" /\ conn[c].msg = "natneg" =>
          LET entries == Registry!EntriesOf(Cookie(c))
          IN  \/ Len(entries) >= MaxNatnegEntries
              \/ /\ \/ "host" \in conn[c].lost \/ conn[c].target.moved
                    \/ Among(entries, conn[c].dest)
                 /\ \/ "joiner" \in conn[c].lost \/ conn[c].own = Nil \/ conn[c].own.moved
                    \/ Among(entries, Self[c])
<1>1. Init => JoinsEntered
  BY DEF Init, Idle, JoinsEntered, EndsEntered
<1>2. Inv /\ JoinsEntered /\ [Next]_vars => JoinsEntered'
  BY StepKeepsJoins
<1>3. JoinsEntered => BothEnds
  <2> SUFFICES ASSUME NEW c \in Conns, conn[c].at = "relay", conn[c].msg = "natneg",
                      EndsEntered(c, conn[c], EntriesOfJoin(c)),
                      ~Full(EntriesOfJoin(c))
               PROVE  /\ \/ "host" \in conn[c].lost \/ conn[c].target.moved
                         \/ Among(EntriesOfJoin(c), conn[c].dest)
                      /\ \/ "joiner" \in conn[c].lost \/ conn[c].own = Nil \/ conn[c].own.moved
                         \/ Among(EntriesOfJoin(c), Self[c])
    BY DEF JoinsEntered, EntriesOfJoin, Full
  <2> QED
    BY DEF EndsEntered, Present
<1>4. Spec => [][BothEnds]_vars
  BY <1>1, <1>2, <1>3, Invariance, PTL DEF Spec
<1> QED
  BY <1>4 DEF JoinEntersBothEnds
=============================================================================
