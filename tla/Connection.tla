----------------------------- MODULE Connection -----------------------------
(***************************************************************************)
(* One connection to a TCP service of internal/gamespy: the loop that      *)
(* reads chunks and handles the whole commands in them.  The protocols are *)
(* `profile' (profile/server.go), `search' (gpsp/server.go), both over     *)
(* texttcp.ReadLoop, and `browser' (browser/server.go).  What a command    *)
(* does is in modules Accounts and Browser; here it is only recorded.      *)
(*                                                                         *)
(* The client sends its script, and Read takes as much of what is on its   *)
(* way as the network has brought.                                         *)
(***************************************************************************)
EXTENDS Framing

CONSTANTS
  Letters,    \* the pieces of words
  Protocols,  \* service |-> the protocols it may speak
  Scripts     \* protocol |-> what clients send: sequences of messages

VARIABLE conn

NoConn == [state |-> "none"]
Ended == [state |-> "ended"]     \* nothing of it is left to look at

(* A game's command: pairs of a key and a value, framed as by              *)
(* CreateGameSpyMessageOrdered.  No key or value contains a backslash, and *)
(* none reads `final'.                                                     *)
Word == Seq(Letters) \ {FinalWord}
Command == Seq(Word \X Word) \ {<< >>}

Encode(command) ==
  FlattenSeq([i \in 1..Len(command) |-> <<Slash>> \o command[i][1] \o <<Slash>> \o command[i][2]])
    \o Final

(* Games send whole commands, and packets as long as they say, unless that *)
(* is a length no packet can have.                                         *)
WellFramed(protocol, script) ==
  IF protocol = "browser"
  THEN /\ script \in Seq(Seq(Nat))
       /\ \A i \in 1..Len(script) :
            /\ Len(script[i]) >= 2
            /\ PacketLen(script[i]) \in 3..MaxBuffer => Len(script[i]) = PacketLen(script[i])
  ELSE script \in Seq(Command)

ASSUME ConnectionAssumption ==
  /\ Slash \notin Letters /\ FinalWord \in Seq(Letters)
  /\ \A protocol \in DOMAIN Scripts :
       \A script \in Scripts[protocol] : WellFramed(protocol, script)

\* The bytes of the first n messages of a connection's script.
Sent(c, n) ==
  FlattenSeq([i \in 1..n |-> IF c.protocol = "browser" THEN c.script[i] ELSE Encode(c.script[i])])

Stream(c) == Sent(c, Len(c.script))

(* A fresh connSession.                                                    *)
Opened(protocol, script) ==
  [state |-> "open", protocol |-> protocol, script |-> script,
   taken |-> 0, buffer |-> << >>, done |-> << >>]

-----------------------------------------------------------------------------
Logout(command) == command[1][1] = <<"logout">>

(* profile's dispatch returns at a logout, which closes the connection.    *)
UpToLogout(protocol, commands) ==
  LET outs == {i \in 1..Len(commands) : Logout(commands[i])}
  IN  IF protocol = "profile" /\ outs # {} THEN SubSeq(commands, 1, Min(outs)) ELSE commands

ReadText(c, chunk) ==
  LET found == Consume(c.buffer, chunk)
      now == UpToLogout(c.protocol, found.commands)
  IN  [c EXCEPT !.buffer = found.remainder, !.done = @ \o now, !.taken = @ + Len(chunk),
                !.state = IF c.protocol = "profile" /\ \E i \in 1..Len(now) : Logout(now[i])
                          THEN "dropped" ELSE "open"]

ReadPackets(c, chunk) ==
  LET found == Dispatch(c.buffer, chunk)
  IN  [c EXCEPT !.buffer = found.rest, !.done = @ \o found.packets, !.taken = @ + Len(chunk),
                !.state = IF found.open THEN "open" ELSE "dropped"]

Read(n) ==
  /\ conn.state = "open" /\ conn.taken + n <= Len(Stream(conn))
  /\ LET chunk == SubSeq(Stream(conn), conn.taken + 1, conn.taken + n)
     IN  conn' = IF conn.protocol = "browser" THEN ReadPackets(conn, chunk)
                 ELSE ReadText(conn, chunk)

(* conn.Read fails: the client closed the connection, or lost it.          *)
ReadFails ==
  /\ conn.state = "open"
  /\ conn' = Ended

-----------------------------------------------------------------------------
\* How many messages of the script have arrived in full, in `taken' bytes.
Whole(c) == Max({n \in 0..Len(c.script) : Len(Sent(c, n)) <= c.taken})

Malformed(c, n) ==
  c.protocol = "browser" /\ (PacketLen(c.script[n]) < 3 \/ PacketLen(c.script[n]) > MaxBuffer)

\* A message no later one is handled after.
Ends(c, n) == Malformed(c, n) \/ (c.protocol = "profile" /\ Logout(c.script[n]))

(* What a peer that kept the messages apart would have handled.            *)
Due(c) ==
  LET ends == {n \in 1..Whole(c) : Ends(c, n)}
  IN  IF ends = {} THEN SubSeq(c.script, 1, Whole(c))
      ELSE SubSeq(c.script, 1, IF Malformed(c, Min(ends)) THEN Min(ends) - 1 ELSE Min(ends))

\* The length of the front message is in the buffer, and no good.
BadFront(c) ==
  Len(c.done) < Len(c.script) /\ Malformed(c, Len(c.done) + 1)
  /\ c.taken >= Len(Sent(c, Len(c.done))) + 2

(* texttcp/server.go:71-86, browser/server.go:131-168: however TCP cut the *)
(* stream, the commands handled are those sent, each once, in order, and   *)
(* each as soon as its last byte is in; but a backlog over the limit is    *)
(* dropped with the connection.                                            *)
HandlesWhatWasSent ==
  conn.state \in {"open", "dropped"} =>
    /\ IsPrefix(conn.done, Due(conn))
    /\ conn.done = Due(conn) \/ (conn.protocol = "browser" /\ conn.state = "dropped")

(* The server hangs up for three reasons only: the profile client logged   *)
(* out, a packet's length is out of range, or more than MaxBuffer bytes of *)
(* packets were waiting; and for the first two it always does.             *)
DroppedForCause ==
  conn.state \in {"open", "dropped"} =>
    LET loggedOut == conn.protocol = "profile" /\ conn.done # << >> /\ Logout(Last(conn.done))
        backlog == conn.protocol = "browser"
                   /\ conn.taken - Len(Sent(conn, Len(conn.done))) > MaxBuffer
    IN  /\ conn.state = "dropped" => loggedOut \/ BadFront(conn) \/ backlog
        /\ conn.state = "open" => ~loggedOut /\ ~BadFront(conn)
=============================================================================
