----------------------------- MODULE RoomSlices -----------------------------
(***************************************************************************)
(* The room list of internal/backend/backend.go as Go lays it out: each    *)
(* game's slice is a length over a backing array.  append writes into      *)
(* spare capacity or moves the slice to an array of twice the size; a      *)
(* removal shifts the later elements down in the same array and leaves the *)
(* last one where it was.                                                  *)
(*                                                                         *)
(* It matters because FindServerByAddress and FindServerByLocalAddress     *)
(* return &servers[i], a pointer into that array, and release the lock:    *)
(* the server browser and NATNEG read through the pointer afterwards, the  *)
(* browser for as long as the connection lives.                            *)
(***************************************************************************)
EXTENDS Naturals, Sequences

CONSTANTS Games, Sessions, Heartbeats,
          Arrays,    \* names for backing arrays, reused once unreachable
          Nil,       \* no array, no pointer
          Blank      \* a cell that was never written

ASSUME SlicesAssumption == Nil \notin Arrays

VARIABLES arrays,      \* array |-> its cells, up to its capacity
          slices,      \* game |-> [array, len]
          sessionIdx   \* as in Backend, positions from 1

sliceVars == <<arrays, slices, sessionIdx>>

Lists == [g \in DOMAIN slices |-> SubSeq(arrays[slices[g].array], 1, slices[g].len)]

B == INSTANCE Backend WITH serverList <- Lists, natnegList <- [c \in {} |-> << >>],
                           Cookies <- {}, Peers <- {}, MaxNatnegEntries <- 8

InitSlices ==
  /\ arrays = [a \in Arrays |-> << >>]
  /\ slices = B!EmptyMap
  /\ sessionIdx = B!EmptyMap

Room(s, h) == [session |-> s, fields |-> h]
SliceOf(g) == IF g \in DOMAIN slices THEN slices[g] ELSE [array |-> Nil, len |-> 0]
ArraysOf(sl) == {sl[g].array : g \in DOMAIN sl}

(* What the garbage collector leaves. `pinned' are the arrays that some    *)
(* pointer still reaches.                                                  *)
Collect(cells, sl, pinned) ==
  [a \in Arrays |-> IF a \in ArraysOf(sl) \cup pinned THEN cells[a] ELSE << >>]

CapOf(a) == IF a = Nil THEN 0 ELSE Len(arrays[a])

\* Faulty: the heartbeat is written over the last room.
ReplaceRoomAtEnd(g, s, h) ==
  /\ B!Indexed(g, s)
  /\ arrays' = [arrays EXCEPT ![slices[g].array][slices[g].len] = Room(s, h)]
  /\ UNCHANGED <<slices, sessionIdx>>

(* b.serverList[gameid][idx] = rec *)
ReplaceRoom(g, s, h) ==
  /\ B!Indexed(g, s)
  /\ arrays' = [arrays EXCEPT ![slices[g].array][sessionIdx[g][s]] = Room(s, h)]
  /\ UNCHANGED <<slices, sessionIdx>>

(* append: in place while capacity lasts, otherwise into a new array.      *)
AppendRoom(g, s, h, pinned) ==
  LET old == SliceOf(g)
      inPlace == old.len < CapOf(old.array)
      free == Arrays \ (pinned \cup ArraysOf(slices))
      array == IF inPlace THEN old.array ELSE CHOOSE a \in free : TRUE
      room(i) == IF i <= old.len THEN arrays[old.array][i]
                 ELSE IF i = old.len + 1 THEN Room(s, h)
                 ELSE IF inPlace THEN arrays[old.array][i] ELSE Blank
      cap == IF inPlace THEN CapOf(old.array)
             ELSE IF old.len = 0 THEN 1 ELSE 2 * old.len
      newSlices == B!Put(slices, g, [array |-> array, len |-> old.len + 1])
  IN  /\ ~B!Indexed(g, s)
      /\ inPlace \/ free # {}
      /\ slices' = newSlices
      /\ sessionIdx' = B!Put(sessionIdx, g, B!Put(B!IndexOf(g), s, old.len + 1))
      /\ arrays' = Collect([arrays EXCEPT ![array] = [i \in 1..cap |-> room(i)]],
                           newSlices, pinned)

UpdateServerList(g, s, h, pinned) == ReplaceRoom(g, s, h) \/ AppendRoom(g, s, h, pinned)

\* Faulty: the vacated cell is zeroed, as slices.Delete would do.
ShiftedCleared(cells, at, len) ==
  [i \in DOMAIN cells |-> IF i = len THEN Blank
                          ELSE IF at <= i /\ i < len THEN cells[i + 1] ELSE cells[i]]

\* Faulty: the last room is not moved down.
ShiftedShort(cells, at, len) ==
  [i \in DOMAIN cells |-> IF at <= i /\ i < len - 1 THEN cells[i + 1] ELSE cells[i]]

(* append(servers[:idx], servers[idx+1:]...) *)
Shifted(cells, at, len) ==
  [i \in DOMAIN cells |-> IF at <= i /\ i < len THEN cells[i + 1] ELSE cells[i]]

\* Faulty: a game keeps its entry when its last room goes.
DeleteServerKeepingGame(g, s, pinned) ==
  /\ B!Indexed(g, s)
  /\ LET a == slices[g].array
         len == slices[g].len
         shifted == Shifted(arrays[a], sessionIdx[g][s], len)
         newSlices == [slices EXCEPT ![g].len = len - 1]
     IN  /\ slices' = newSlices
         /\ sessionIdx' = B!Put(sessionIdx, g, B!Reindex(B!Without(sessionIdx[g], s),
                                                         SubSeq(shifted, 1, len - 1)))
         /\ arrays' = Collect([arrays EXCEPT ![a] = shifted], newSlices, pinned)

(* The shift, then the reindexing loop; the last room takes its game along. *)
DeleteServer(g, s, pinned) ==
  /\ B!Indexed(g, s)
  /\ LET a == slices[g].array
         len == slices[g].len
         shifted == Shifted(arrays[a], sessionIdx[g][s], len)
         newSlices == IF len = 1 THEN B!Without(slices, g)
                      ELSE [slices EXCEPT ![g].len = len - 1]
     IN  /\ slices' = newSlices
         /\ sessionIdx' =
              IF len = 1 THEN B!Without(sessionIdx, g)
              ELSE B!Put(sessionIdx, g, B!Reindex(B!Without(sessionIdx[g], s),
                                                  SubSeq(shifted, 1, len - 1)))
         /\ arrays' = Collect([arrays EXCEPT ![a] = shifted], newSlices, pinned)

(* A pointer into the list, and what a read through it finds now. *)
Pointer(g, i) == [array |-> slices[g].array, index |-> i]
Deref(p) == arrays[p.array][p.index]
Pointers == [array : Arrays, index : Nat \ {0}]
=============================================================================
