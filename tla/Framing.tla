------------------------------ MODULE Framing -------------------------------
(***************************************************************************)
(* How the two TCP protocols find their messages in a stream of bytes that *)
(* arrives cut anywhere: GameSpy text (gamespy/textwire.go, gamespy/       *)
(* texttcp/server.go), which ends a command with \final\, and the server   *)
(* browser's packets (gamespy/browser/server.go), which begin with their   *)
(* length.                                                                 *)
(*                                                                         *)
(* Text is a sequence of backslashes and pieces of words; a cut can fall   *)
(* between any two of them, and `final' is two pieces so that one can fall *)
(* inside it.  A parsed command is the sequence of its keys and values, of *)
(* which the code keeps a map and the first key.                           *)
(***************************************************************************)
EXTENDS Naturals, Sequences, SequencesExt

Slash == "\\"
FinalWord == <<"fi", "nal">>
Final == <<Slash>> \o FinalWord \o <<Slash>>

From(text, i) == SubSeq(text, i, Len(text))

\* The first position of `part' in `text', or 0.
Find(text, part) ==
  LET at == {i \in 1..(Len(text) - Len(part) + 1) : SubSeq(text, i, i + Len(part) - 1) = part}
  IN  IF at = {} THEN 0 ELSE Min(at)

SlashAfter(text, i) ==
  LET at == {j \in (i + 1)..Len(text) : text[j] = Slash} IN IF at = {} THEN 0 ELSE Min(at)

Starts(text) == text # << >> /\ text[1] = Slash

(* The inner loop of ParseGameSpyMessage: \key\value pairs up to \final\.  *)
(* A value may be empty, and then its backslash starts the next key; one   *)
(* that nothing ends takes the rest of the text.                           *)
NextPair(found) ==
  LET keyEnd == SlashAfter(found.rest, 1)
      key == SubSeq(found.rest, 2, keyEnd - 1)
      rest == From(found.rest, keyEnd + 1)
      next == SlashAfter(rest, 1)
      value == IF rest = << >> \/ Starts(rest) THEN << >>
               ELSE IF next = 0 THEN rest
               ELSE SubSeq(rest, 1, next - 1)
  IN  IF found.final \/ ~Starts(found.rest) \/ keyEnd = 0 THEN found
      ELSE IF key = FinalWord THEN [found EXCEPT !.rest = rest, !.final = TRUE]
      ELSE [found EXCEPT !.pairs = Append(@, <<key, value>>), !.rest = From(rest, Len(value) + 1)]

Pairs(text) ==
  LET turn[i \in 0..Len(text)] ==
        IF i = 0 THEN [pairs |-> << >>, rest |-> text, final |-> FALSE] ELSE NextPair(turn[i - 1])
  IN  turn[Len(text)]

(* The outer loop. *)
NextCommand(found) ==
  LET command == Pairs(found.remainder)
  IN  IF ~Starts(found.remainder) \/ Find(found.remainder, Final) = 0 THEN found
      ELSE [commands |-> Append(found.commands, command.pairs), remainder |-> command.rest]

ParseGameSpyMessage(text) ==
  LET turn[i \in 0..Len(text)] ==
        IF i = 0 THEN [commands |-> << >>, remainder |-> text] ELSE NextCommand(turn[i - 1])
  IN  turn[Len(text)]

\* Faulty: each chunk is taken for itself.
ConsumeChunk(remaining, chunk) == ParseGameSpyMessage(chunk)

(* FrameBuffer.Consume: text that does not start with a backslash is       *)
(* dropped up to the next \final\, or altogether.                          *)
Consume(remaining, chunk) ==
  LET data == remaining \o chunk
      final == Find(data, Final)
  IN  IF data = << >> \/ Starts(data) THEN ParseGameSpyMessage(data)
      ELSE IF final = 0 THEN [commands |-> << >>, remainder |-> << >>]
      ELSE ParseGameSpyMessage(From(data, final + Len(Final)))

-----------------------------------------------------------------------------
CONSTANT MaxBuffer    \* maxBufferSize

ASSUME FramingAssumption == MaxBuffer \in Nat /\ MaxBuffer >= 3

\* ReadU16BE.
PacketLen(buffer) == buffer[1] * 256 + buffer[2]

(* The loop of dispatch: whole packets are handled in order; a length out  *)
(* of range closes the connection.                                         *)
NextPacket(found) ==
  LET n == PacketLen(found.rest)
  IN  IF ~found.open \/ Len(found.rest) < 2 THEN found
      ELSE IF n < 3 \/ n > MaxBuffer THEN [found EXCEPT !.open = FALSE]
      ELSE IF Len(found.rest) < n THEN found
      ELSE [found EXCEPT !.packets = Append(@, SubSeq(found.rest, 1, n)),
                         !.rest = From(found.rest, n + 1)]

Packets(buffer) ==
  LET turn[i \in 0..Len(buffer)] ==
        IF i = 0 THEN [packets |-> << >>, rest |-> buffer, open |-> TRUE] ELSE NextPacket(turn[i - 1])
  IN  turn[Len(buffer)]

\* Faulty: a backlog of exactly the limit is dropped too.
DispatchBelow(buffer, chunk) ==
  LET data == buffer \o chunk
  IN  IF Len(data) >= MaxBuffer THEN [packets |-> << >>, rest |-> data, open |-> FALSE]
      ELSE Packets(data)

(* connSession.dispatch: a backlog over the limit closes the connection    *)
(* before anything in it is looked at.                                     *)
Dispatch(buffer, chunk) ==
  LET data == buffer \o chunk
  IN  IF Len(data) > MaxBuffer THEN [packets |-> << >>, rest |-> data, open |-> FALSE]
      ELSE Packets(data)
=============================================================================
