---------------------------- MODULE RoomRegistry ----------------------------
(***************************************************************************)
(* What internal/backend promises about live rooms, with no list, no index *)
(* and no array: a room is identified by the game it belongs to and the QR *)
(* session that advertises it, and the registry maps it to the fields of   *)
(* the last heartbeat registered for it.  Backend implements this          *)
(* specification; QR is written on top of it.                              *)
(***************************************************************************)

CONSTANTS Games,       \* game ids, such as "mariokartwii"
          Sessions,    \* QR session ids
          Heartbeats   \* the field maps that heartbeats carry

VARIABLE rooms         \* live rooms: <<game, session>> |-> heartbeat fields

NoRooms == [p \in {} |-> {}]

Init == rooms = NoRooms

(* A heartbeat registers the room or replaces its fields. *)
Upsert(g, s, h) ==
  rooms' = [p \in DOMAIN rooms \cup {<<g, s>>} |->
              IF p = <<g, s>> THEN h ELSE rooms[p]]

(* A room leaves the registry; removing an absent room changes nothing. *)
Remove(g, s) ==
  rooms' = [p \in DOMAIN rooms \ {<<g, s>>} |-> rooms[p]]

Next ==
  \E g \in Games, s \in Sessions :
    \/ \E h \in Heartbeats : Upsert(g, s, h)
    \/ Remove(g, s)

Spec == Init /\ [][Next]_rooms
=============================================================================
