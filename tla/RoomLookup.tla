----------------------------- MODULE RoomLookup -----------------------------
(***************************************************************************)
(* The searches of internal/backend/backend.go over one game's rooms, as   *)
(* functions of the list: the position of the answer, or NotFound.  Ports  *)
(* are numbers, where the code compares their text: a room that declares   *)
(* none has NoPort, which equals no query, not even that for port 0.       *)
(***************************************************************************)
EXTENDS Integers, Sequences, FiniteSetsExt, SequencesExt

CONSTANT SameIP   \* the pairs <<stored, asked>> MatchPublicIP accepts

NotFound == 0
NoPort == -1

Matches(room, ip) == <<room.fields.publicip, ip>> \in SameIP

(* FindServerByAddress, within one game *)
FindServerByAddress(list, ip, port) ==
  LET hits == {i \in DOMAIN list :
                 /\ Matches(list[i], ip)
                 /\ port = 0 \/ list[i].fields.publicport = port}
  IN  IF hits = {} THEN NotFound ELSE Min(hits)

\* Faulty: a later room with the local IP replaces one with the local port.
FindServerByLocalAddressToTheEnd(list, ip, local) ==
  LET visit(best, i) ==
        IF Matches(list[i], ip) /\ (\/ list[i].fields.localport = local.port
                                    \/ local.ip \in list[i].fields.localips
                                    \/ local.port = 0 /\ best = NotFound)
        THEN i ELSE best
  IN  FoldLeft(visit, NotFound, [i \in 1..Len(list) |-> i])

(* FindServerByLocalAddress, within one game: one pass that returns at the *)
(* first room with the local port, and otherwise keeps the last room with  *)
(* the local IP (localip0 .. localip9); a query without a port settles for *)
(* the first room behind the public IP unless a local IP overrides it.     *)
Visit(room, ip, local, i, acc) ==
  IF acc.done \/ ~Matches(room, ip) THEN acc
  ELSE IF room.fields.localport = local.port THEN [best |-> i, done |-> TRUE]
  ELSE IF \/ local.ip \in room.fields.localips
          \/ local.port = 0 /\ acc.best = NotFound
       THEN [best |-> i, done |-> FALSE]
  ELSE acc

Pass(list, ip, local) ==
  LET pass[i \in 0..Len(list)] ==
        IF i = 0 THEN [best |-> NotFound, done |-> FALSE]
        ELSE Visit(list[i], ip, local, i, pass[i - 1])
  IN  pass

FindServerByLocalAddress(list, ip, local) == Pass(list, ip, local)[Len(list)].best

(* What the pass amounts to. *)
LocalAnswer(list, ip, local) ==
  LET behind == {i \in DOMAIN list : Matches(list[i], ip)}
      byPort == {i \in behind : list[i].fields.localport = local.port}
      byIP == {i \in behind : local.ip \in list[i].fields.localips}
  IN  IF byPort # {} THEN Min(byPort)
      ELSE IF byIP # {} THEN Max(byIP)
      ELSE IF local.port = 0 /\ behind # {} THEN Min(behind)
      ELSE NotFound
=============================================================================
