--------------------------------- MODULE QR ---------------------------------
(***************************************************************************)
(* internal/gamespy/qr/server.go: the UDP service where hosts advertise    *)
(* rooms.  Two goroutines run: one handles packets, one at a time, the     *)
(* other prunes idle sessions every 15 s.  They share `sessions' under     *)
(* s.mu and the room registry under the backend's own lock; a packet's     *)
(* handling takes and drops s.mu several times, and each stretch between   *)
(* two drops is a step here.                                               *)
(*                                                                         *)
(* The registry is RoomRegistry, which Backend implements.  UDP gives no   *)
(* guarantee: any packet a host may ever have sent can arrive at any time, *)
(* again or never.  Fields only shown to players (ingamesn, console) are   *)
(* part of a heartbeat's data.                                             *)
(***************************************************************************)
EXTENDS Naturals

CONSTANTS
  Games,        \* the values of a heartbeat's gamename
  Blank,        \* the empty one: present, but ""
  KnownGames,   \* those with a secret key in gamespy.Keys
  Sessions,     \* session ids, chosen by the hosts
  Data,         \* the other fields of a heartbeat
  None,         \* a heartbeat without a gamename, an unset field
  Timeout       \* 61 s, in ticks of the clock

ASSUME QRAssumption ==
  /\ Blank \in Games
  /\ KnownGames \subseteq Games \ {Blank}
  /\ None \notin Games
  /\ Timeout \in Nat \ {0}

VARIABLES
  sessions,   \* session id |-> qrSession; age is the time since keepalive
  rooms,      \* the backend's rooms
  handler,    \* where the packet goroutine is, with its local variables
  keeper,     \* where the keepalive goroutine is: idle, or between reading
              \* the time and locking, with the sessions refreshed meanwhile
  verified,   \* history: sessions that answered their challenge correctly
  rejected    \* history: those whose latest answer was wrong, until they
              \* are challenged again or answer an old challenge rightly

vars == <<sessions, rooms, handler, keeper, verified, rejected>>

Heartbeat == [game : Games \cup {None}, leaving : BOOLEAN, data : Data]
Keys == KnownGames \cup {None}
\* A session without a heartbeat on record is told from one with any.
ASSUME NoneIsNoHeartbeat == None \notin Heartbeat

Registry == INSTANCE RoomRegistry WITH Heartbeats <- Heartbeat

Idle == [at |-> "idle"]
\* Faulty: a new session counts as challenged.
NewSessionTrusted == [age |-> 0, secret |-> None, sentChallenge |-> TRUE,
                      heartbeatData |-> None, game |-> Blank]

(* A session of which no room was listed yet has the gamename "".          *)
NewSession == [age |-> 0, secret |-> None, sentChallenge |-> FALSE,
               heartbeatData |-> None, game |-> Blank]

Init ==
  /\ sessions = [s \in {} |-> NewSession]
  /\ Registry!Init
  /\ handler = Idle
  /\ keeper = Idle
  /\ verified = {}
  /\ rejected = {}

Live(s) == s \in DOMAIN sessions

SetSession(s, sess) ==
  sessions' = [t \in DOMAIN sessions \cup {s} |->
                 IF t = s THEN sess ELSE sessions[t]]

DropSessions(S) ==
  /\ sessions' = [t \in DOMAIN sessions \ S |-> sessions[t]]
  /\ verified' = verified \ S
  /\ rejected' = rejected \ S

-----------------------------------------------------------------------------
(* The packet goroutine *)

(* handlePacket creates the session or refreshes its keepalive time before *)
(* it looks at the command, whatever the command is.  It reads a packet    *)
(* only when the one before is dealt with (handler = Idle in the callers). *)
Receive(s, next) ==
  /\ SetSession(s, IF Live(s) THEN [sessions[s] EXCEPT !.age = 0]
                   ELSE NewSession)
  /\ keeper' = IF keeper = Idle THEN keeper
               ELSE [keeper EXCEPT !.late = @ \cup {s}]
  /\ handler' = next
  /\ UNCHANGED <<rooms, verified, rejected>>

(* 0x08, 0x07 and unknown commands do no more than that. *)
ReceiveKeepalive(s) ==
  /\ handler = Idle
  /\ Receive(s, Idle)

(* 0x01: the answer to the session's present challenge made with some key, *)
(* or (right = FALSE) to an earlier one, or a wrong one.                   *)
ReceiveAnswer(s, right, key) ==
  /\ handler = Idle
  /\ Receive(s, [at |-> "answer", session |-> s, right |-> right, key |-> key])

(* 0x03 *)
ReceiveHeartbeat(s, k) ==
  /\ handler = Idle
  /\ Receive(s, [at |-> "heartbeat", session |-> s, k |-> k])

(* handleChallengeResponse: copies the session's fields under the lock and *)
(* compares outside it.  Before the first challenge there is nothing to    *)
(* encrypt and one answer is right with every key; a session whose game    *)
(* has no key expects the answer made with the empty one (None).  A right  *)
(* answer registers the heartbeat that caused the challenge.               *)
CheckAnswer ==
  /\ handler.at = "answer"
  /\ LET s == handler.session
         k == sessions[s].heartbeatData
         matches == handler.right /\ (k = None \/ sessions[s].secret = handler.key)
     IN  /\ handler' = CASE ~Live(s) -> Idle
                         [] Live(s) /\ ~matches -> [at |-> "mismatch", session |-> s]
                         [] Live(s) /\ matches /\ k = None -> Idle
                         [] OTHER -> [at |-> "update", session |-> s, k |-> k]
         /\ verified' = IF Live(s) /\ matches /\ k # None THEN verified \cup {s}
                        ELSE verified
         /\ rejected' = IF Live(s) /\ matches THEN rejected \ {s} ELSE rejected
  /\ UNCHANGED <<sessions, rooms, keeper>>

\* Faulty: the room stays listed after a wrong answer.
RejectAnswerListed ==
  /\ handler.at = "mismatch"
  /\ IF Live(handler.session)
     THEN /\ SetSession(handler.session,
                     [sessions[handler.session] EXCEPT !.sentChallenge = FALSE])
          /\ rejected' = rejected \cup {handler.session}
     ELSE UNCHANGED <<sessions, rejected>>
  /\ handler' = Idle
  /\ UNCHANGED <<rooms, keeper, verified>>

(* The room is removed while s.mu is held, unless the session's gamename   *)
(* is empty; the challenge, the first heartbeat and the gamename stay in   *)
(* the session.                                                            *)
RejectAnswer ==
  /\ handler.at = "mismatch"
  /\ LET s == handler.session
     IN  IF Live(s)
         THEN /\ SetSession(s, [sessions[s] EXCEPT !.sentChallenge = FALSE])
              /\ IF sessions[s].game = Blank THEN UNCHANGED rooms
                 ELSE Registry!Remove(sessions[s].game, s)
              /\ rejected' = rejected \cup {s}
         ELSE UNCHANGED <<sessions, rooms, rejected>>
  /\ handler' = Idle
  /\ UNCHANGED <<keeper, verified>>

(* handleHeartbeat, first stretch under the lock. *)
ReadHeartbeat ==
  /\ handler.at = "heartbeat"
  /\ LET s == handler.session
         k == handler.k
         sess == [sessions[s] EXCEPT
                    !.secret = IF k.game \in KnownGames THEN k.game ELSE @]
     IN  IF Live(s)
         THEN /\ SetSession(s, sess)
              /\ handler' = [at |-> IF sess.sentChallenge THEN "update" ELSE "issue",
                             session |-> s, k |-> k]
         ELSE /\ handler' = Idle
              /\ UNCHANGED sessions
  /\ UNCHANGED <<rooms, keeper, verified, rejected>>

(* handleHeartbeat, second stretch: a fresh challenge is recorded if the   *)
(* session is still there, and sent in any case.                           *)
IssueChallenge ==
  /\ handler.at = "issue"
  /\ LET s == handler.session
     IN  IF Live(s)
         THEN /\ SetSession(s, [sessions[s] EXCEPT !.sentChallenge = TRUE,
                                                   !.heartbeatData = handler.k])
              /\ rejected' = rejected \ {s}
         ELSE UNCHANGED <<sessions, rejected>>
  /\ handler' = Idle
  /\ UNCHANGED <<rooms, keeper, verified>>

\* Faulty: an unnamed heartbeat is registered.
StartUpdateUnnamed ==
  /\ handler.at = "update"
  /\ LET s == handler.session
         k == handler.k
         known == IF Live(s) THEN sessions[s].game ELSE Blank
     IN  handler' =
           IF k.leaving
           THEN [at |-> "delist", session |-> s, k |-> k,
                 game |-> IF k.game \in {None, Blank} THEN known ELSE k.game]
           ELSE [at |-> "register", session |-> s, k |-> k]
  /\ UNCHANGED <<sessions, rooms, keeper, verified, rejected>>

(* updateServerList: reads the session, then decides.  A farewell without  *)
(* a name, or with the empty one, is for the room the session knows of;    *)
(* any other heartbeat needs a gamename, but it may be empty.              *)
StartUpdate ==
  /\ handler.at = "update"
  /\ LET s == handler.session
         k == handler.k
         known == IF Live(s) THEN sessions[s].game ELSE Blank
     IN  handler' =
           CASE k.leaving -> [at |-> "delist", session |-> s, k |-> k,
                              game |-> IF k.game \in {None, Blank} THEN known
                                       ELSE k.game]
             [] ~k.leaving /\ k.game = None -> Idle
             [] OTHER -> [at |-> "register", session |-> s, k |-> k]
  /\ UNCHANGED <<sessions, rooms, keeper, verified, rejected>>

(* statechanged=2: Backend.DeleteServer without s.mu ... *)
Delist ==
  /\ handler.at = "delist"
  /\ Registry!Remove(handler.game, handler.session)
  /\ handler' = [at |-> "forget", session |-> handler.session,
                 k |-> handler.k, game |-> handler.game]
  /\ UNCHANGED <<sessions, keeper, verified, rejected>>

(* ... then the session goes, under s.mu. *)
Forget ==
  /\ handler.at = "forget"
  /\ DropSessions({handler.session})
  /\ handler' = Idle
  /\ UNCHANGED <<rooms, keeper>>

(* Backend.UpdateServerList without s.mu ... *)
Register ==
  /\ handler.at = "register"
  /\ Registry!Upsert(handler.k.game, handler.session, handler.k)
  /\ handler' = [at |-> "stamp", session |-> handler.session,
                 game |-> handler.k.game]
  /\ UNCHANGED <<sessions, keeper, verified, rejected>>

\* Faulty: the session is not told.
StampForgotten ==
  /\ handler.at = "stamp"
  /\ handler' = Idle
  /\ UNCHANGED <<sessions, rooms, keeper, verified, rejected>>

(* ... then the session learns which game its room is listed under. *)
Stamp ==
  /\ handler.at = "stamp"
  /\ LET s == handler.session
     IN  IF Live(s)
         THEN SetSession(s, [sessions[s] EXCEPT !.game = handler.game])
         ELSE UNCHANGED sessions
  /\ handler' = Idle
  /\ UNCHANGED <<rooms, keeper, verified, rejected>>

HandlerStep ==
  \/ CheckAnswer \/ RejectAnswer
  \/ ReadHeartbeat \/ IssueChallenge
  \/ StartUpdate \/ Delist \/ Forget \/ Register \/ Stamp

-----------------------------------------------------------------------------
(* The keepalive goroutine *)

(* now := time.Now(), before s.mu.Lock(). *)
ReadClock ==
  /\ keeper = Idle
  /\ keeper' = [at |-> "read", late |-> {}]
  /\ UNCHANGED <<sessions, rooms, handler, verified, rejected>>

\* Faulty: only a negative time counts.
ExpiredInFuture == {s \in DOMAIN sessions : s \in keeper.late}

(* delta = now - keepalive is negative for a session refreshed after the   *)
(* clock was read.                                                         *)
Expired == {s \in DOMAIN sessions :
              s \in keeper.late \/ sessions[s].age >= Timeout}

(* Rooms are removed one by one, but with s.mu held throughout, so the     *)
(* packet goroutine can only touch its own session's room meanwhile, and   *)
(* that commutes with all but one of the removals.  A session with an      *)
(* empty gamename has no room to remove.                                   *)
Prune ==
  /\ keeper # Idle
  /\ rooms' = [p \in DOMAIN rooms \ 
                           {<<sessions[s].game, s>> :
                              s \in {t \in Expired : sessions[t].game # Blank}}
                 |-> rooms[p]]
  /\ DropSessions(Expired)
  /\ keeper' = Idle
  /\ UNCHANGED handler

-----------------------------------------------------------------------------
(* Time.  Ages beyond Timeout are alike.  A tick is long compared with the *)
(* distance from time.Now() to Lock() in keepaliveCheck.                   *)
Tick ==
  /\ keeper = Idle
  /\ sessions' = [s \in DOMAIN sessions |->
                    [sessions[s] EXCEPT !.age = IF @ < Timeout THEN @ + 1 ELSE @]]
  /\ UNCHANGED <<rooms, handler, keeper, verified, rejected>>

Next ==
  \/ \E s \in Sessions :
       \/ ReceiveKeepalive(s)
       \/ \E right \in BOOLEAN, key \in Keys : ReceiveAnswer(s, right, key)
       \/ \E k \in Heartbeat : ReceiveHeartbeat(s, k)
  \/ HandlerStep
  \/ ReadClock
  \/ Prune
  \/ Tick

(* Both goroutines are scheduled and time passes; no packet need arrive.   *)
(* A tick waits for keepaliveCheck to have the lock, which it has again    *)
(* and again but not continuously, hence strong fairness.                  *)
Fairness ==
  /\ WF_vars(HandlerStep)
  /\ WF_vars(ReadClock)
  /\ WF_vars(Prune)
  /\ SF_vars(Tick)

Spec == Init /\ [][Next]_vars
FairSpec == Spec /\ Fairness

-----------------------------------------------------------------------------
Session == [age : 0..Timeout, secret : Keys,
            sentChallenge : BOOLEAN, heartbeatData : Heartbeat \cup {None},
            game : Games]

HandlerOK ==
  \/ handler = Idle
  \/ /\ handler.session \in Sessions
     /\ \/ (handler.at = "answer" /\ handler.right \in BOOLEAN /\ handler.key \in Keys)
        \/ (handler.at \in {"heartbeat", "issue", "update"} /\ handler.k \in Heartbeat)
        \/ handler.at = "mismatch"
        \/ /\ handler.at \in {"delist", "forget"}
           /\ handler.k \in Heartbeat /\ handler.game \in Games
        \/ (handler.at = "register" /\ handler.k \in Heartbeat /\ handler.k.game \in Games)
        \/ (handler.at = "stamp" /\ handler.game \in Games)

(* Types; a recorded challenge always has the heartbeat that caused it. *)
TypeOK ==
  /\ DOMAIN sessions \subseteq Sessions
  /\ \A s \in DOMAIN sessions : sessions[s] \in Session
  /\ DOMAIN rooms \subseteq Games \X Sessions
  /\ \A p \in DOMAIN rooms : rooms[p] \in Heartbeat
  /\ HandlerOK
  /\ keeper = Idle \/ (keeper.at = "read" /\ keeper.late \subseteq Sessions)
  /\ verified \subseteq DOMAIN sessions
  /\ rejected \subseteq DOMAIN sessions

(* A room is owned while its session is live and files it under its game,  *)
(* or is about to: only then will the idle timer, a wrong answer or the    *)
(* host's farewell remove it, and nothing else ever does.                  *)
Owned(p) ==
  \/ Live(p[2]) /\ sessions[p[2]].game = p[1] /\ p[1] # Blank
  \/ handler.at = "stamp" /\ handler.session = p[2] /\ handler.game = p[1] /\ Live(p[2])

\* The packet being handled gives the room's host another game.
Renamed(p) ==
  /\ handler.at \in {"stamp", "forget"} /\ handler.session = p[2]
  /\ handler.at = "stamp" => handler.game # p[1]
  /\ handler.at = "forget" => handler.k.game \notin {None, Blank, p[1]}

\* The session was pruned while its packet was listing the room.
Overtaken(p) ==
  handler.at \in {"register", "stamp"} /\ handler.session = p[2] /\ ~Live(p[2])'

(* However registrations, farewells, rejections, prunes and the clock      *)
(* interleave, a room that is listed is left without an owner in three     *)
(* ways only: its name is empty, its host changes the game, or its session *)
(* is pruned between the registration and the stamp                        *)
(* (qr/server.go:262-273, 402-414, 426-447, 450-470).                      *)
RoomsKeepOwners ==
  [][\A p \in DOMAIN rooms' :
       ~Owned(p)' /\ (p \in DOMAIN rooms => Owned(p)) =>
         p[1] = Blank \/ Renamed(p) \/ Overtaken(p)]_vars

(* updateServerList is reached only in a session that has been sent a      *)
(* challenge since it was created, on whichever of the two paths and       *)
(* whatever was pruned, left or rejected before (qr/server.go:237-286,     *)
(* 362-379).                                                               *)
NoUnchallengedRegistration ==
  [][handler.at # "update" /\ handler'.at = "update" =>
       sessions[handler.session].heartbeatData # None]_vars

(* A session whose latest answer was wrong has no room that it owns, until *)
(* it is challenged again or answers rightly: no heartbeat, prune or late  *)
(* step of the packet before lists one (qr/server.go:262-273, 362-368).    *)
RejectedIsDelisted ==
  \A p \in DOMAIN rooms : p[2] \in rejected => ~Owned(p)

(* A room does not stay listed and owned for ever while its host is not    *)
(* heard: idle sessions take the room they know of with them               *)
(* (qr/server.go:450-470).                                                 *)
Heard(s) == Live(s) /\ sessions[s].age = 0
RoomsExpire ==
  \A g \in Games, s \in Sessions :
    []<>(<<g, s>> \in DOMAIN rooms /\ Owned(<<g, s>>)) => []<>Heard(s)

-----------------------------------------------------------------------------
(* Stated by the documentation, refuted by the code. *)

(* docs/architecture/browser.md:54: rooms time out ~61 s after the last    *)
(* heartbeat.  A room without an owner does not (qr/server.go:426-447).    *)
SilentRoomsGo ==
  \A g \in Games \ {Blank}, s \in Sessions :
    <>[](<<g, s>> \in DOMAIN rooms) => []<>Heard(s)

(* docs/architecture/qr.md:27-30: the server verifies the answer and after *)
(* success heartbeats update the room list.  A second heartbeat does so    *)
(* with the challenge unanswered (qr/server.go:362-368).                   *)
ListedOnlyIfVerified ==
  \A p \in DOMAIN rooms : Live(p[2]) => p[2] \in verified
=============================================================================
