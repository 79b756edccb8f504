------------------------------ MODULE QRProofs -------------------------------
(***************************************************************************)
(* Theorems about QR for any gamenames, sessions and heartbeats and any    *)
(* timeout, in every interleaving of the two goroutines and the clock.     *)
(***************************************************************************)
EXTENDS QR, TLAPS

USE QRAssumption, NoneIsNoHeartbeat

-----------------------------------------------------------------------------
\* What SetSession leaves in the table.
LEMMA SetSessionEffect ==
  ASSUME NEW s \in Sessions, NEW sess, SetSession(s, sess)
  PROVE  /\ DOMAIN sessions' = DOMAIN sessions \cup {s}
         /\ \A t \in DOMAIN sessions' :
              sessions'[t] = IF t = s THEN sess ELSE sessions[t]
BY DEF SetSession

\* What a packet's arrival changes: its session is there and fresh.
LEMMA ReceiveEffect ==
  ASSUME TypeOK, NEW s \in Sessions, NEW next, Receive(s, next)
  PROVE  /\ handler' = next
         /\ UNCHANGED <<rooms, verified, rejected>>
         /\ keeper' = Idle \/ (keeper'.at = "read" /\ keeper'.late \subseteq Sessions)
         /\ DOMAIN sessions' = DOMAIN sessions \cup {s}
         /\ sessions'[s] \in Session /\ sessions'[s].age = 0
         /\ \A t \in DOMAIN sessions \ {s} : sessions'[t] = sessions[t]
         /\ s \in DOMAIN sessions =>
              sessions'[s] = [sessions[s] EXCEPT !.age = 0]
         /\ s \notin DOMAIN sessions => sessions'[s] = NewSession
<1> DEFINE sess == IF Live(s) THEN [sessions[s] EXCEPT !.age = 0] ELSE NewSession
<1>1. SetSession(s, sess)
  BY DEF Receive
<1>2. sess \in Session /\ sess.age = 0
  BY DEF TypeOK, Live, Session, NewSession, Keys
<1> HIDE DEF sess
<1>3. /\ DOMAIN sessions' = DOMAIN sessions \cup {s}
      /\ \A t \in DOMAIN sessions' : sessions'[t] = IF t = s THEN sess ELSE sessions[t]
  BY <1>1, SetSessionEffect
<1>4. keeper' = Idle \/ (keeper'.at = "read" /\ keeper'.late \subseteq Sessions)
  <2>1. CASE keeper = Idle
    BY <2>1 DEF Receive
  <2>2. CASE keeper # Idle
    <3>1. keeper.at = "read" /\ keeper.late \subseteq Sessions
      BY <2>2 DEF TypeOK
    <3>2. keeper' = [keeper EXCEPT !.late = @ \cup {s}]
      BY <2>2 DEF Receive
    <3> QED
      BY <3>1, <3>2
  <2> QED
    BY <2>1, <2>2
<1> QED
  BY <1>2, <1>3, <1>4 DEF Receive, sess, Live

\* What the sessions map is after another write to a live session.
LEMMA WriteEffect ==
  ASSUME TypeOK, NEW s \in DOMAIN sessions, NEW sess \in Session, SetSession(s, sess)
  PROVE  /\ DOMAIN sessions' = DOMAIN sessions
         /\ sessions'[s] = sess
         /\ \A t \in DOMAIN sessions \ {s} : sessions'[t] = sessions[t]
         /\ \A t \in DOMAIN sessions' : sessions'[t] \in Session
<1>1. s \in Sessions
  BY DEF TypeOK
<1> QED
  BY <1>1, SetSessionEffect DEF TypeOK

\* What pruning and farewells leave.
LEMMA DropEffect ==
  ASSUME TypeOK, NEW S, DropSessions(S)
  PROVE  /\ DOMAIN sessions' = DOMAIN sessions \ S
         /\ \A t \in DOMAIN sessions' : sessions'[t] = sessions[t]
         /\ verified' \subseteq DOMAIN sessions'
         /\ rejected' \subseteq DOMAIN sessions'
BY DEF DropSessions, TypeOK

RoomsTyped ==
  /\ DOMAIN rooms \subseteq Games \X Sessions
  /\ \A p \in DOMAIN rooms : rooms[p] \in Heartbeat

SessionsTyped ==
  /\ DOMAIN sessions \subseteq Sessions
  /\ \A s \in DOMAIN sessions : sessions[s] \in Session

KeeperTyped == keeper = Idle \/ (keeper.at = "read" /\ keeper.late \subseteq Sessions)

\* A packet's arrival keeps the types, given those of what it is handed to.
LEMMA ReceiveTypes ==
  ASSUME TypeOK, NEW s \in Sessions, NEW next, Receive(s, next)
  PROVE  /\ SessionsTyped' /\ RoomsTyped' /\ KeeperTyped'
         /\ (verified \subseteq DOMAIN sessions)' /\ (rejected \subseteq DOMAIN sessions)'
<1>1. /\ UNCHANGED <<rooms, verified, rejected>>
      /\ keeper' = Idle \/ (keeper'.at = "read" /\ keeper'.late \subseteq Sessions)
      /\ DOMAIN sessions' = DOMAIN sessions \cup {s}
      /\ sessions'[s] \in Session
      /\ \A t \in DOMAIN sessions \ {s} : sessions'[t] = sessions[t]
  BY ReceiveEffect
<1> QED
  BY <1>1 DEF TypeOK, SessionsTyped, RoomsTyped, KeeperTyped

\* TypeOK, part by part.
LEMMA TypeOKParts ==
  TypeOK <=> /\ SessionsTyped /\ RoomsTyped /\ HandlerOK /\ KeeperTyped
             /\ verified \subseteq DOMAIN sessions /\ rejected \subseteq DOMAIN sessions
BY DEF TypeOK, SessionsTyped, RoomsTyped, KeeperTyped

\* The packet goroutine keeps the types.
LEMMA HandlerTypes == TypeOK /\ HandlerStep => TypeOK'
<1> SUFFICES ASSUME TypeOK, HandlerStep
             PROVE  TypeOK'
  OBVIOUS
<1> DEFINE s == handler.session
<1>0. handler # Idle => s \in Sessions
  BY DEF TypeOK, HandlerOK
<1>1. CASE CheckAnswer
  <2>1. handler.at = "answer" /\ s \in Sessions /\ UNCHANGED <<sessions, rooms, keeper>>
    BY <1>1, <1>0 DEF CheckAnswer, Idle
  <2>2. HandlerOK'
    <3>1. s \in DOMAIN sessions => sessions[s].heartbeatData \in Heartbeat \cup {None}
      BY DEF TypeOK, Session
    <3>2. \/ handler' = Idle
          \/ handler' = [at |-> "mismatch", session |-> s]
          \/ /\ s \in DOMAIN sessions /\ sessions[s].heartbeatData # None
             /\ handler' = [at |-> "update", session |-> s, k |-> sessions[s].heartbeatData]
      BY <1>1, Zenon DEF CheckAnswer, Live
    <3> QED
      BY <2>1, <3>1, <3>2 DEF HandlerOK
  <2>3. (verified \subseteq DOMAIN sessions /\ rejected \subseteq DOMAIN sessions)'
    BY <1>1, <2>1 DEF CheckAnswer, TypeOK, Live
  <2> QED
    BY <2>1, <2>2, <2>3 DEF TypeOK
<1>2. CASE RejectAnswer
  <2>1. s \in Sessions /\ handler' = Idle /\ UNCHANGED <<keeper, verified>>
    BY <1>2, <1>0 DEF RejectAnswer, Idle
  <2>2. CASE Live(s)
    <3>1. [sessions[s] EXCEPT !.sentChallenge = FALSE] \in Session
      BY <2>2 DEF TypeOK, Live, Session
    <3>2. /\ SessionsTyped' /\ DOMAIN sessions' = DOMAIN sessions
          /\ rejected' = rejected \cup {s}
      BY <1>2, <2>2, <3>1, WriteEffect DEF RejectAnswer, Live, SessionsTyped, TypeOK
    <3>3. RoomsTyped'
      BY <1>2, <2>2 DEF RejectAnswer, Registry!Remove, RoomsTyped, TypeOK
    <3> QED
      BY <2>1, <2>2, <3>2, <3>3 DEF TypeOK, HandlerOK, SessionsTyped, RoomsTyped, Live
  <2>3. CASE ~Live(s)
    BY <1>2, <2>1, <2>3 DEF RejectAnswer, TypeOK, HandlerOK
  <2> QED
    BY <2>2, <2>3
<1>3. CASE ReadHeartbeat
  <2> DEFINE k == handler.k
             sess == [sessions[s] EXCEPT !.secret = IF k.game \in KnownGames THEN k.game ELSE @]
  <2>1. s \in Sessions /\ k \in Heartbeat /\ UNCHANGED <<rooms, keeper, verified, rejected>>
    BY <1>3, <1>0 DEF ReadHeartbeat, Idle, TypeOK, HandlerOK
  <2>2. CASE Live(s)
    <3>1. sess \in Session
      BY <2>1, <2>2 DEF TypeOK, Live, Session, Keys
    <3>2. SetSession(s, sess)
      BY <1>3, <2>2 DEF ReadHeartbeat
    <3>3. handler' = [at |-> IF sess.sentChallenge THEN "update" ELSE "issue",
                      session |-> s, k |-> k]
      BY <1>3, <2>2 DEF ReadHeartbeat
    <3> HIDE DEF sess
    <3>4. SessionsTyped' /\ DOMAIN sessions' = DOMAIN sessions
      BY <2>2, <3>1, <3>2, WriteEffect DEF Live, SessionsTyped, TypeOK
    <3>5. HandlerOK'
      BY <2>1, <3>3 DEF HandlerOK
    <3> QED
      BY <2>1, <3>4, <3>5 DEF TypeOK, SessionsTyped
  <2>3. CASE ~Live(s)
    BY <1>3, <2>1, <2>3 DEF ReadHeartbeat, TypeOK, HandlerOK
  <2> QED
    BY <2>2, <2>3
<1>4. CASE IssueChallenge
  <2>1. s \in Sessions /\ handler.k \in Heartbeat /\ handler' = Idle
        /\ UNCHANGED <<rooms, keeper, verified>>
    BY <1>4, <1>0 DEF IssueChallenge, Idle, TypeOK, HandlerOK
  <2>2. CASE Live(s)
    <3>1. [sessions[s] EXCEPT !.sentChallenge = TRUE, !.heartbeatData = handler.k] \in Session
      BY <2>1, <2>2 DEF TypeOK, Live, Session
    <3>2. /\ SessionsTyped' /\ DOMAIN sessions' = DOMAIN sessions
          /\ rejected' = rejected \ {s}
      BY <1>4, <2>2, <3>1, WriteEffect DEF IssueChallenge, Live, SessionsTyped, TypeOK
    <3> QED
      BY <2>1, <3>2 DEF TypeOK, HandlerOK, SessionsTyped
  <2>3. CASE ~Live(s)
    BY <1>4, <2>1, <2>3 DEF IssueChallenge, TypeOK, HandlerOK
  <2> QED
    BY <2>2, <2>3
<1>5. CASE StartUpdate
  <2>1. s \in Sessions /\ handler.k \in Heartbeat
        /\ UNCHANGED <<sessions, rooms, keeper, verified, rejected>>
    BY <1>5, <1>0 DEF StartUpdate, Idle, TypeOK, HandlerOK
  <2> DEFINE known == IF Live(s) THEN sessions[s].game ELSE Blank
             game == IF handler.k.game \in {None, Blank} THEN known ELSE handler.k.game
  <2>2. known \in Games /\ handler.k.game \in Games \cup {None}
    BY <2>1 DEF Live, TypeOK, Session, Heartbeat
  <2>3. \/ handler' = Idle
        \/ handler' = [at |-> "delist", session |-> s, k |-> handler.k, game |-> game]
        \/ /\ handler.k.game # None
           /\ handler' = [at |-> "register", session |-> s, k |-> handler.k]
    BY <1>5, Zenon DEF StartUpdate
  <2>4. game \in Games
    BY <2>2
  <2> HIDE DEF known, game
  <2>5. HandlerOK'
    BY <2>1, <2>2, <2>3, <2>4 DEF HandlerOK
  <2> QED
    BY <2>1, <2>5 DEF TypeOK
<1>6. CASE Delist
  <2>1. /\ s \in Sessions /\ handler.k \in Heartbeat /\ handler.game \in Games
        /\ handler'.at = "forget" /\ handler'.session = s
        /\ handler'.k = handler.k /\ handler'.game = handler.game
        /\ UNCHANGED <<sessions, keeper, verified, rejected>>
    <3>1. /\ s \in Sessions /\ handler.k \in Heartbeat /\ handler.game \in Games
          /\ handler.at = "delist" /\ handler' = [at |-> "forget", session |-> s, k |-> handler.k, game |-> handler.game]
          /\ UNCHANGED <<sessions, keeper, verified, rejected>>
      BY <1>6, <1>0 DEF Delist, Idle, TypeOK, HandlerOK
    <3> QED
      BY <3>1
  <2>2. RoomsTyped'
    BY <1>6 DEF Delist, Registry!Remove, RoomsTyped, TypeOK
  <2> QED
    BY <2>1, <2>2 DEF TypeOK, HandlerOK, RoomsTyped
<1>7. CASE Forget
  <2>1. DropSessions({s}) /\ handler' = Idle /\ UNCHANGED <<rooms, keeper>>
    BY <1>7 DEF Forget
  <2> QED
    BY <2>1, DropEffect DEF TypeOK, HandlerOK
<1>8. CASE Register
  <2>1. s \in Sessions /\ handler.k \in Heartbeat /\ handler.k.game \in Games
        /\ handler' = [at |-> "stamp", session |-> s, game |-> handler.k.game]
        /\ UNCHANGED <<sessions, keeper, verified, rejected>>
    BY <1>8, <1>0 DEF Register, Idle, TypeOK, HandlerOK
  <2>2. RoomsTyped'
    BY <1>8, <2>1 DEF Register, Registry!Upsert, RoomsTyped, TypeOK
  <2> QED
    BY <2>1, <2>2 DEF TypeOK, HandlerOK, RoomsTyped
<1>9. CASE Stamp
  <2>1. s \in Sessions /\ handler.game \in Games /\ handler' = Idle
        /\ UNCHANGED <<rooms, keeper, verified, rejected>>
    BY <1>9, <1>0 DEF Stamp, Idle, TypeOK, HandlerOK
  <2>2. CASE Live(s)
    <3>1. [sessions[s] EXCEPT !.game = handler.game] \in Session
      BY <2>1, <2>2 DEF TypeOK, Live, Session
    <3>2. SessionsTyped' /\ DOMAIN sessions' = DOMAIN sessions
      BY <1>9, <2>2, <3>1, WriteEffect DEF Stamp, Live, SessionsTyped, TypeOK
    <3> QED
      BY <2>1, <3>2 DEF TypeOK, HandlerOK, SessionsTyped
  <2>3. CASE ~Live(s)
    BY <1>9, <2>1, <2>3 DEF Stamp, TypeOK, HandlerOK
  <2> QED
    BY <2>2, <2>3
<1> QED
  BY <1>1, <1>2, <1>3, <1>4, <1>5, <1>6, <1>7, <1>8, <1>9 DEF HandlerStep

\* Types, and the heartbeat of every recorded challenge is of that type
\* (qr/server.go:32-52 and every place that writes a session).
THEOREM TypeCorrect == Spec => []TypeOK
<1>1. Init => TypeOK
  BY DEF Init, TypeOK, HandlerOK, Registry!Init, Registry!NoRooms
<1>2. TypeOK /\ [Next]_vars => TypeOK'
  <2> SUFFICES ASSUME TypeOK, [Next]_vars
               PROVE  TypeOK'
    OBVIOUS
  <2>1. ASSUME NEW s \in Sessions, ReceiveKeepalive(s)
        PROVE  TypeOK'
    BY <2>1, ReceiveTypes, ReceiveEffect, TypeOKParts
    DEF ReceiveKeepalive, HandlerOK, TypeOK, SessionsTyped, RoomsTyped, KeeperTyped
  <2>2. ASSUME NEW s \in Sessions, NEW right \in BOOLEAN, NEW key \in Keys,
               ReceiveAnswer(s, right, key)
        PROVE  TypeOK'
    <3> DEFINE next == [at |-> "answer", session |-> s, right |-> right, key |-> key]
    <3>1. Receive(s, next)
      BY <2>2 DEF ReceiveAnswer
    <3>2. handler' = next
      BY <3>1 DEF Receive
    <3>3. HandlerOK'
      BY <3>2 DEF HandlerOK
    <3> QED
      BY <3>1, <3>3, ReceiveTypes DEF TypeOK, SessionsTyped, RoomsTyped, KeeperTyped
  <2>3. ASSUME NEW s \in Sessions, NEW k \in Heartbeat, ReceiveHeartbeat(s, k)
        PROVE  TypeOK'
    <3> DEFINE next == [at |-> "heartbeat", session |-> s, k |-> k]
    <3>1. Receive(s, next)
      BY <2>3 DEF ReceiveHeartbeat
    <3>2. handler' = next /\ k \in Heartbeat
      BY <3>1 DEF Receive
    <3>3. HandlerOK'
      BY <3>2 DEF HandlerOK
    <3> QED
      BY <3>1, <3>3, ReceiveTypes DEF TypeOK, SessionsTyped, RoomsTyped, KeeperTyped
  <2>4. CASE ReadClock
    BY <2>4 DEF ReadClock, TypeOK, HandlerOK
  <2>5. CASE Prune
    <3>1. DropSessions(Expired) /\ keeper' = Idle /\ UNCHANGED handler
      BY <2>5 DEF Prune
    <3>2. RoomsTyped'
      BY <2>5 DEF Prune, RoomsTyped, TypeOK
    <3> QED
      BY <3>1, <3>2, DropEffect DEF TypeOK, HandlerOK, RoomsTyped
  <2>6. CASE Tick
    <3>1. SessionsTyped' /\ DOMAIN sessions' = DOMAIN sessions
      BY <2>6 DEF Tick, TypeOK, SessionsTyped, Session
    <3> QED
      BY <2>6, <3>1 DEF Tick, TypeOK, HandlerOK, SessionsTyped
  <2>7. CASE UNCHANGED vars
    BY <2>7 DEF vars, TypeOK, HandlerOK
  <2> QED
    BY <2>1, <2>2, <2>3, <2>4, <2>5, <2>6, <2>7, HandlerTypes DEF Next
<1> QED
  BY <1>1, <1>2, PTL DEF Spec

(* A challenge on record goes with the heartbeat that caused it. *)
ChallengeHasCause ==
  \A s \in DOMAIN sessions :
    sessions[s].sentChallenge => sessions[s].heartbeatData # None

\* In every behaviour a challenge goes with the heartbeat that caused it.
LEMMA CauseInvariance == Spec => [](TypeOK /\ ChallengeHasCause)
<1>1. Init => ChallengeHasCause
  BY DEF Init, ChallengeHasCause
<1>2. TypeOK /\ ChallengeHasCause /\ [Next]_vars => ChallengeHasCause'
  <2> SUFFICES ASSUME TypeOK, ChallengeHasCause, [Next]_vars
               PROVE  ChallengeHasCause'
    OBVIOUS
  <2>1. ASSUME NEW s \in Sessions, NEW next, Receive(s, next)
        PROVE  ChallengeHasCause'
    <3>1. /\ DOMAIN sessions' = DOMAIN sessions \cup {s}
          /\ \A t \in DOMAIN sessions \ {s} : sessions'[t] = sessions[t]
          /\ s \in DOMAIN sessions => sessions'[s] = [sessions[s] EXCEPT !.age = 0]
          /\ s \notin DOMAIN sessions => sessions'[s] = NewSession
      BY <2>1, ReceiveEffect
    <3>2. s \in DOMAIN sessions =>
            /\ sessions'[s].sentChallenge = sessions[s].sentChallenge
            /\ sessions'[s].heartbeatData = sessions[s].heartbeatData
      BY <3>1 DEF TypeOK, Session
    <3>3. s \notin DOMAIN sessions => ~sessions'[s].sentChallenge
      BY <3>1 DEF NewSession
    <3> QED
      BY <3>1, <3>2, <3>3 DEF ChallengeHasCause
  <2>2. CASE HandlerStep
    <3> DEFINE s == handler.session
    <3>1. CASE UNCHANGED sessions
      BY <3>1 DEF ChallengeHasCause
    <3>2. ASSUME Live(s), NEW sess \in Session, SetSession(s, sess),
                 sess.sentChallenge => sess.heartbeatData # None
          PROVE  ChallengeHasCause'
      BY <3>2, WriteEffect DEF Live, ChallengeHasCause
    <3>3. CASE RejectAnswer /\ Live(s)
      <4>1. [sessions[s] EXCEPT !.sentChallenge = FALSE] \in Session
        BY <3>3 DEF Live, TypeOK, Session
      <4> QED
        BY <3>2, <3>3, <4>1 DEF RejectAnswer, Live, TypeOK, Session
    <3>4. CASE ReadHeartbeat /\ Live(s)
      <4> DEFINE sess == [sessions[s] EXCEPT !.secret =
                            IF handler.k.game \in KnownGames THEN handler.k.game ELSE @]
      <4>1. /\ sess \in Session
            /\ sess.sentChallenge = sessions[s].sentChallenge
            /\ sess.heartbeatData = sessions[s].heartbeatData
        BY <3>4 DEF Live, TypeOK, Session, Keys
      <4>2. SetSession(s, sess)
        BY <3>4 DEF ReadHeartbeat
      <4> HIDE DEF sess
      <4> QED
        BY <3>2, <3>4, <4>1, <4>2 DEF Live, ChallengeHasCause
    <3>5. CASE IssueChallenge /\ Live(s)
      <4> DEFINE sess == [sessions[s] EXCEPT !.sentChallenge = TRUE,
                                             !.heartbeatData = handler.k]
      <4>1. handler.k \in Heartbeat
        BY <3>5 DEF IssueChallenge, Idle, TypeOK, HandlerOK
      <4>2. sess \in Session /\ sess.heartbeatData = handler.k
        BY <3>5, <4>1 DEF Live, TypeOK, Session
      <4>3. SetSession(s, sess)
        BY <3>5 DEF IssueChallenge
      <4> HIDE DEF sess
      <4> QED
        BY <3>2, <3>5, <4>1, <4>2, <4>3
    <3>6. CASE Stamp /\ Live(s)
      <4> DEFINE sess == [sessions[s] EXCEPT !.game = handler.game]
      <4>1. handler.game \in Games
        BY <3>6 DEF Stamp, Idle, TypeOK, HandlerOK
      <4>2. /\ sess \in Session
            /\ sess.sentChallenge = sessions[s].sentChallenge
            /\ sess.heartbeatData = sessions[s].heartbeatData
        BY <3>6, <4>1 DEF Live, TypeOK, Session
      <4>3. SetSession(s, sess)
        BY <3>6 DEF Stamp
      <4> HIDE DEF sess
      <4> QED
        BY <3>2, <3>6, <4>2, <4>3 DEF Live, ChallengeHasCause
    <3>7. CASE Forget
      BY <3>7, DropEffect DEF Forget, ChallengeHasCause
    <3> QED
      BY <2>2, <3>1, <3>3, <3>4, <3>5, <3>6, <3>7
      DEF HandlerStep, CheckAnswer, RejectAnswer, ReadHeartbeat, IssueChallenge,
          StartUpdate, Delist, Register, Stamp
  <2>3. CASE Prune
    <3>1. DropSessions(Expired)
      BY <2>3 DEF Prune
    <3> QED
      BY <3>1, DropEffect DEF ChallengeHasCause
  <2>4. CASE Tick
    BY <2>4 DEF Tick, ChallengeHasCause, TypeOK, Session
  <2>5. CASE ReadClock \/ UNCHANGED vars
    BY <2>5 DEF ReadClock, vars, ChallengeHasCause
  <2> QED
    BY <2>1, <2>2, <2>3, <2>4, <2>5
    DEF Next, ReceiveKeepalive, ReceiveAnswer, ReceiveHeartbeat
<1> QED
  BY <1>1, <1>2, TypeCorrect, PTL DEF Spec

\* Only a challenged session reaches the registration, whatever was pruned,
\* left or rejected in between (qr/server.go:237-286, 362-379).
THEOREM ChallengedFirst == Spec => NoUnchallengedRegistration
<1> DEFINE Property ==
      handler.at # "update" /\ handler'.at = "update" =>
        sessions[handler.session].heartbeatData # None
<1>1. TypeOK /\ ChallengeHasCause /\ [Next]_vars => [Property]_vars
  <2> SUFFICES ASSUME TypeOK, ChallengeHasCause, Next,
                      handler.at # "update", handler'.at = "update"
               PROVE  sessions[handler.session].heartbeatData # None
    OBVIOUS
  <2> DEFINE s == handler.session
  <2>1. CASE CheckAnswer
    <3>1. \/ handler' = Idle
          \/ handler' = [at |-> "mismatch", session |-> s]
          \/ sessions[s].heartbeatData # None
      BY <2>1, Zenon DEF CheckAnswer
    <3> QED
      BY <3>1 DEF Idle
  <2>2. CASE ReadHeartbeat
    <3> DEFINE sess == [sessions[s] EXCEPT !.secret =
                          IF handler.k.game \in KnownGames THEN handler.k.game ELSE @]
    <3>1. Live(s) /\ handler'.at = IF sess.sentChallenge THEN "update" ELSE "issue"
      BY <2>2 DEF ReadHeartbeat, Idle
    <3>2. sess.sentChallenge = sessions[s].sentChallenge
      BY <3>1 DEF Live, TypeOK, Session
    <3> QED
      BY <3>1, <3>2 DEF Live, ChallengeHasCause
  <2>3. ASSUME NEW t \in Sessions, NEW next, Receive(t, next), next.at # "update"
        PROVE  FALSE
    BY <2>3 DEF Receive
  <2>4. CASE \E t \in Sessions : ReceiveKeepalive(t)
    BY <2>4, <2>3 DEF ReceiveKeepalive, Idle
  <2>5. CASE \E t \in Sessions : \E right \in BOOLEAN, key \in Keys : ReceiveAnswer(t, right, key)
    <3>1. PICK t \in Sessions, right \in BOOLEAN, key \in Keys :
            Receive(t, [at |-> "answer", session |-> t, right |-> right, key |-> key])
      BY <2>5 DEF ReceiveAnswer
    <3> QED
      BY <3>1 DEF Receive
  <2>6. CASE \E t \in Sessions : \E k \in Heartbeat : ReceiveHeartbeat(t, k)
    <3>1. PICK t \in Sessions : \E k \in Heartbeat :
            Receive(t, [at |-> "heartbeat", session |-> t, k |-> k])
      BY <2>6 DEF ReceiveHeartbeat
    <3> QED
      BY <3>1 DEF Receive
  <2>7. CASE StartUpdate \/ UNCHANGED handler
    BY <2>7 DEF StartUpdate
  <2> QED
    BY <2>1, <2>2, <2>4, <2>5, <2>6, <2>7
    DEF Next, HandlerStep, RejectAnswer, IssueChallenge, Delist, Forget, Register,
        Stamp, ReadClock, Prune, Tick, Idle
<1>2. Spec => [][Property]_vars
  BY <1>1, CauseInvariance, PTL DEF Spec
<1> QED
  BY <1>2 DEF NoUnchallengedRegistration

-----------------------------------------------------------------------------
(* Rooms and their owners *)

\* A farewell delists the room its session knows of, unless it names another.
Farewell ==
  /\ handler.at \in {"delist", "forget"} =>
       IF handler.k.game \in {None, Blank}
       THEN Live(handler.session) => handler.game = sessions[handler.session].game
       ELSE handler.game = handler.k.game
  /\ handler.at = "forget" => <<handler.game, handler.session>> \notin DOMAIN rooms

\* A rejected session is to be challenged before its packets list anything.
RejectedWaits ==
  /\ \A s \in rejected : ~sessions[s].sentChallenge
  /\ handler.at \in {"update", "register", "stamp"} => handler.session \notin rejected

(* The two properties are proved from these. *)
OwnerInv == TypeOK /\ Farewell /\ RejectedWaits /\ RejectedIsDelisted

\* What a handling step writes: at most its own session, the gamename only
\* when stamping, and whether a challenge is out where it says so.
LEMMA HandlerWrites ==
  ASSUME TypeOK, HandlerStep
  PROVE  /\ DOMAIN sessions' \subseteq DOMAIN sessions
         /\ ~Forget => DOMAIN sessions' = DOMAIN sessions
         /\ \A t \in DOMAIN sessions' \ {handler.session} : sessions'[t] = sessions[t]
         /\ handler.session \in DOMAIN sessions' =>
              /\ \/ sessions'[handler.session].game = sessions[handler.session].game
                 \/ Stamp /\ sessions'[handler.session].game = handler.game
              /\ \/ sessions'[handler.session].sentChallenge = sessions[handler.session].sentChallenge
                 \/ RejectAnswer /\ ~sessions'[handler.session].sentChallenge
                 \/ IssueChallenge
<1> DEFINE s == handler.session
<1>1. CASE UNCHANGED sessions
  BY <1>1
<1>2. CASE Forget
  <2>1. /\ DOMAIN sessions' = DOMAIN sessions \ {s}
        /\ \A t \in DOMAIN sessions' : sessions'[t] = sessions[t]
    BY <1>2, DropEffect DEF Forget
  <2> QED
    BY <1>2, <2>1
<1> SUFFICES ASSUME Live(s), ~UNCHANGED sessions, ~Forget
             PROVE  /\ DOMAIN sessions' = DOMAIN sessions
                    /\ \A t \in DOMAIN sessions' \ {s} : sessions'[t] = sessions[t]
                    /\ \/ sessions'[s].game = sessions[s].game
                       \/ Stamp /\ sessions'[s].game = handler.game
                    /\ \/ sessions'[s].sentChallenge = sessions[s].sentChallenge
                       \/ RejectAnswer /\ ~sessions'[s].sentChallenge
                       \/ IssueChallenge
  BY <1>1, <1>2
  DEF HandlerStep, CheckAnswer, RejectAnswer, ReadHeartbeat, IssueChallenge,
      StartUpdate, Delist, Register, Stamp
<1>0. s \in DOMAIN sessions /\ sessions[s] \in Session
  BY DEF Live, TypeOK
<1>3. CASE RejectAnswer
  <2> DEFINE sess == [sessions[s] EXCEPT !.sentChallenge = FALSE]
  <2>1. SetSession(s, sess)
    BY <1>3 DEF RejectAnswer
  <2>2. sess \in Session /\ sess.game = sessions[s].game /\ ~sess.sentChallenge
    BY <1>0 DEF Session
  <2> HIDE DEF sess
  <2> QED
    BY <1>3, <2>1, <2>2, <1>0, WriteEffect
<1>4. CASE ReadHeartbeat
  <2> DEFINE sess == [sessions[s] EXCEPT !.secret =
                        IF handler.k.game \in KnownGames THEN handler.k.game ELSE @]
  <2>1. SetSession(s, sess)
    BY <1>4 DEF ReadHeartbeat
  <2>2. /\ sess \in Session /\ sess.game = sessions[s].game
        /\ sess.sentChallenge = sessions[s].sentChallenge
    BY <1>0 DEF Session, Keys
  <2> HIDE DEF sess
  <2> QED
    BY <2>1, <2>2, <1>0, WriteEffect
<1>5. CASE IssueChallenge
  <2> DEFINE sess == [sessions[s] EXCEPT !.sentChallenge = TRUE, !.heartbeatData = handler.k]
  <2>1. SetSession(s, sess) /\ handler.k \in Heartbeat
    BY <1>5 DEF IssueChallenge, Idle, TypeOK, HandlerOK
  <2>2. sess \in Session /\ sess.game = sessions[s].game
    BY <1>0, <2>1 DEF Session
  <2> HIDE DEF sess
  <2> QED
    BY <1>5, <2>1, <2>2, <1>0, WriteEffect
<1>6. CASE Stamp
  <2> DEFINE sess == [sessions[s] EXCEPT !.game = handler.game]
  <2>1. SetSession(s, sess) /\ handler.game \in Games
    BY <1>6 DEF Stamp, Idle, TypeOK, HandlerOK
  <2>2. /\ sess \in Session /\ sess.game = handler.game
        /\ sess.sentChallenge = sessions[s].sentChallenge
    BY <1>0, <2>1 DEF Session
  <2> HIDE DEF sess
  <2> QED
    BY <1>6, <2>1, <2>2, <1>0, WriteEffect
<1> QED
  BY <1>3, <1>4, <1>5, <1>6
  DEF HandlerStep, CheckAnswer, StartUpdate, Delist, Register, Forget

\* A packet's arrival changes no gamename and no challenge; a new session has
\* an empty name.
LEMMA ReceiveKeepsGames ==
  ASSUME TypeOK, NEW s \in Sessions, NEW next, Receive(s, next)
  PROVE  /\ DOMAIN sessions' = DOMAIN sessions \cup {s}
         /\ \A t \in DOMAIN sessions : /\ sessions'[t].game = sessions[t].game
                                       /\ sessions'[t].sentChallenge = sessions[t].sentChallenge
         /\ s \notin DOMAIN sessions => sessions'[s].game = Blank
<1>1. /\ DOMAIN sessions' = DOMAIN sessions \cup {s}
      /\ \A t \in DOMAIN sessions \ {s} : sessions'[t] = sessions[t]
      /\ s \in DOMAIN sessions => sessions'[s] = [sessions[s] EXCEPT !.age = 0]
      /\ s \notin DOMAIN sessions => sessions'[s] = NewSession
  BY ReceiveEffect
<1>2. s \in DOMAIN sessions => /\ sessions'[s].game = sessions[s].game
                               /\ sessions'[s].sentChallenge = sessions[s].sentChallenge
  BY <1>1 DEF TypeOK, Session
<1>3. s \notin DOMAIN sessions => sessions'[s].game = Blank
  BY <1>1 DEF NewSession
<1> QED
  BY <1>1, <1>2, <1>3

\* A prune takes expired sessions and the rooms they know of.
LEMMA PruneEffect ==
  ASSUME TypeOK, Prune
  PROVE  /\ DOMAIN sessions' = DOMAIN sessions \ Expired
         /\ \A t \in DOMAIN sessions' : sessions'[t] = sessions[t]
         /\ rejected' = rejected \ Expired
         /\ UNCHANGED handler
         /\ DOMAIN rooms' \subseteq DOMAIN rooms
         /\ \A p \in DOMAIN rooms' :
              p[2] \in Expired => p[1] # sessions[p[2]].game \/ p[1] = Blank
<1>1. /\ DropSessions(Expired) /\ UNCHANGED handler
      /\ DOMAIN rooms' = DOMAIN rooms \ {<<sessions[s].game, s>> :
                                           s \in {t \in Expired : sessions[t].game # Blank}}
  BY DEF Prune
<1>2. /\ DOMAIN sessions' = DOMAIN sessions \ Expired
      /\ \A t \in DOMAIN sessions' : sessions'[t] = sessions[t]
      /\ rejected' = rejected \ Expired
  BY <1>1, DropEffect DEF DropSessions
<1>3. \A p \in DOMAIN rooms' : p = <<p[1], p[2]>>
  BY <1>1 DEF TypeOK
<1> QED
  BY <1>1, <1>2, <1>3

\* Time changes nothing but ages.
LEMMA TickEffect ==
  ASSUME TypeOK, Tick
  PROVE  /\ UNCHANGED <<rooms, handler, rejected>> /\ DOMAIN sessions' = DOMAIN sessions
         /\ \A t \in DOMAIN sessions : /\ sessions'[t].game = sessions[t].game
                                       /\ sessions'[t].sentChallenge = sessions[t].sentChallenge
BY DEF Tick, TypeOK, Session

\* The packet goroutine keeps the invariant.
LEMMA HandlerKeeps ==
  ASSUME OwnerInv, HandlerStep
  PROVE  Farewell' /\ RejectedWaits' /\ RejectedIsDelisted'
<1> USE DEF OwnerInv
<1> DEFINE s == handler.session
<1>1. CASE CheckAnswer
  <2>1. \/ handler' = Idle
        \/ handler' = [at |-> "mismatch", session |-> s]
        \/ /\ s \notin rejected'
           /\ handler' = [at |-> "update", session |-> s, k |-> sessions[s].heartbeatData]
    BY <1>1, Zenon DEF CheckAnswer, Live
  <2>2. /\ UNCHANGED <<sessions, rooms>> /\ rejected' \subseteq rejected
        /\ handler.at = "answer"
    BY <1>1 DEF CheckAnswer
  <2> QED
    BY <2>1, <2>2 DEF Farewell, RejectedWaits, RejectedIsDelisted, Owned, Live, Idle
<1>2. CASE RejectAnswer
  <2>1. handler.at = "mismatch" /\ handler' = Idle
    BY <1>2 DEF RejectAnswer
  <2>2. CASE Live(s)
    <3>1. /\ rejected' = rejected \cup {s}
          /\ IF sessions[s].game = Blank THEN UNCHANGED rooms
             ELSE Registry!Remove(sessions[s].game, s)
          /\ SetSession(s, [sessions[s] EXCEPT !.sentChallenge = FALSE])
      BY <1>2, <2>2 DEF RejectAnswer
    <3>2. /\ DOMAIN rooms' \subseteq DOMAIN rooms
          /\ sessions[s].game # Blank => <<sessions[s].game, s>> \notin DOMAIN rooms'
      BY <3>1 DEF Registry!Remove
    <3>3. /\ DOMAIN sessions' = DOMAIN sessions
          /\ \A t \in DOMAIN sessions : sessions'[t].game = sessions[t].game
          /\ \A t \in DOMAIN sessions \ {s} : sessions'[t] = sessions[t]
      BY <1>2, <2>1, HandlerWrites DEF Forget, Stamp
    <3>4. ~sessions'[s].sentChallenge
      BY <3>1, <2>2 DEF SetSession, Live, TypeOK, Session
    <3>5. \A p \in DOMAIN rooms' : p = <<p[1], p[2]>>
      BY <3>2 DEF TypeOK
    <3>6. RejectedIsDelisted'
      <4> SUFFICES ASSUME NEW p \in DOMAIN rooms', p[2] \in rejected', Owned(p)'
                   PROVE  FALSE
        BY DEF RejectedIsDelisted
      <4>1. p[2] \in DOMAIN sessions /\ sessions[p[2]].game = p[1] /\ p[1] # Blank
        BY <2>1, <3>3 DEF Owned, Live, Idle
      <4>2. CASE p[2] = s
        BY <3>2, <3>5, <4>1, <4>2
      <4>3. CASE p[2] # s
        BY <3>1, <3>2, <4>1, <4>3 DEF RejectedIsDelisted, Owned, Live
      <4> QED
        BY <4>2, <4>3
    <3>7. RejectedWaits' /\ Farewell'
      BY <2>1, <3>1, <3>3, <3>4 DEF RejectedWaits, Farewell, Idle, TypeOK
    <3> QED
      BY <3>6, <3>7
  <2>3. CASE ~Live(s)
    <3>1. UNCHANGED <<sessions, rooms, rejected>>
      BY <1>2, <2>3 DEF RejectAnswer
    <3> QED
      BY <2>1, <3>1 DEF Farewell, RejectedWaits, RejectedIsDelisted, Owned, Live, Idle
  <2> QED
    BY <2>2, <2>3
<1>3. CASE ReadHeartbeat
  <2>1. handler.at = "heartbeat" /\ UNCHANGED <<rooms, rejected>>
    BY <1>3 DEF ReadHeartbeat
  <2>2. /\ DOMAIN sessions' = DOMAIN sessions
        /\ \A t \in DOMAIN sessions : /\ sessions'[t].game = sessions[t].game
                                      /\ sessions'[t].sentChallenge = sessions[t].sentChallenge
    BY <1>3, <2>1, HandlerWrites DEF Forget, Stamp, RejectAnswer, IssueChallenge
  <2>3. \/ handler' = Idle
        \/ handler'.at = "issue"
        \/ handler'.at = "update" /\ handler'.session = s /\ s \notin rejected
    <3> DEFINE sess == [sessions[s] EXCEPT !.secret =
                          IF handler.k.game \in KnownGames THEN handler.k.game ELSE @]
    <3>1. CASE Live(s)
      <4>1. handler' = [at |-> IF sess.sentChallenge THEN "update" ELSE "issue",
                        session |-> s, k |-> handler.k]
        BY <1>3, <3>1 DEF ReadHeartbeat
      <4>2. sess.sentChallenge = sessions[s].sentChallenge
        BY <3>1 DEF Live, TypeOK, Session
      <4> HIDE DEF sess
      <4> QED
        BY <4>1, <4>2 DEF RejectedWaits
    <3> QED
      BY <1>3, <3>1 DEF ReadHeartbeat
  <2> QED
    BY <2>1, <2>2, <2>3 DEF Farewell, RejectedWaits, RejectedIsDelisted, Owned, Live, Idle, TypeOK
<1>4. CASE IssueChallenge
  <2>1. handler.at = "issue" /\ handler' = Idle /\ UNCHANGED rooms
    BY <1>4 DEF IssueChallenge
  <2>2. /\ DOMAIN sessions' = DOMAIN sessions
        /\ \A t \in DOMAIN sessions : sessions'[t].game = sessions[t].game
        /\ \A t \in DOMAIN sessions \ {s} : sessions'[t] = sessions[t]
    BY <1>4, <2>1, HandlerWrites DEF Forget, Stamp
  <2>3. rejected' = rejected \ {s}
    BY <1>4 DEF IssueChallenge, Live, TypeOK
  <2> QED
    BY <2>1, <2>2, <2>3 DEF Farewell, RejectedWaits, RejectedIsDelisted, Owned, Live, Idle, TypeOK
<1>5. CASE StartUpdate
  <2> DEFINE known == IF Live(s) THEN sessions[s].game ELSE Blank
             game == IF handler.k.game \in {None, Blank} THEN known ELSE handler.k.game
  <2>1. handler.at = "update" /\ UNCHANGED <<sessions, rooms, rejected>>
    BY <1>5 DEF StartUpdate
  <2>2. \/ handler' = Idle
        \/ handler' = [at |-> "delist", session |-> s, k |-> handler.k, game |-> game]
        \/ handler' = [at |-> "register", session |-> s, k |-> handler.k]
    BY <1>5, Zenon DEF StartUpdate
  <2>3. IF handler.k.game \in {None, Blank}
        THEN Live(s) => game = sessions[s].game
        ELSE game = handler.k.game
    OBVIOUS
  <2> HIDE DEF game
  <2> QED
    BY <2>1, <2>2, <2>3 DEF Farewell, RejectedWaits, RejectedIsDelisted, Owned, Live, Idle
<1>6. CASE Delist
  <2>1. /\ handler.at = "delist" /\ UNCHANGED <<sessions, rejected>>
        /\ handler' = [at |-> "forget", session |-> s, k |-> handler.k, game |-> handler.game]
        /\ DOMAIN rooms' = DOMAIN rooms \ {<<handler.game, s>>}
    BY <1>6 DEF Delist, Registry!Remove
  <2> QED
    BY <2>1 DEF Farewell, RejectedWaits, RejectedIsDelisted, Owned, Live
<1>7. CASE Forget
  <2>1. /\ handler.at = "forget" /\ handler' = Idle /\ UNCHANGED rooms
        /\ rejected' = rejected \ {s}
    BY <1>7 DEF Forget, DropSessions
  <2>2. /\ DOMAIN sessions' = DOMAIN sessions \ {s}
        /\ \A t \in DOMAIN sessions' : sessions'[t] = sessions[t]
    BY <1>7, DropEffect DEF Forget
  <2> QED
    BY <2>1, <2>2 DEF Farewell, RejectedWaits, RejectedIsDelisted, Owned, Live, Idle, TypeOK
<1>8. CASE Register
  <2>1. /\ handler.at = "register" /\ UNCHANGED <<sessions, rejected>>
        /\ handler' = [at |-> "stamp", session |-> s, game |-> handler.k.game]
        /\ DOMAIN rooms' = DOMAIN rooms \cup {<<handler.k.game, s>>}
        /\ s \notin rejected
    BY <1>8 DEF Register, Registry!Upsert, RejectedWaits
  <2> QED
    BY <2>1 DEF Farewell, RejectedWaits, RejectedIsDelisted, Owned, Live
<1>9. CASE Stamp
  <2>1. /\ handler.at = "stamp" /\ handler' = Idle /\ UNCHANGED <<rooms, rejected>>
        /\ s \notin rejected
    BY <1>9 DEF Stamp, RejectedWaits
  <2>2. /\ DOMAIN sessions' = DOMAIN sessions
        /\ \A t \in DOMAIN sessions \ {s} : sessions'[t] = sessions[t]
    BY <1>9, <2>1, HandlerWrites DEF Forget
  <2> QED
    BY <2>1, <2>2 DEF Farewell, RejectedWaits, RejectedIsDelisted, Owned, Live, Idle, TypeOK
<1> QED
  BY <1>1, <1>2, <1>3, <1>4, <1>5, <1>6, <1>7, <1>8, <1>9 DEF HandlerStep

\* The invariant holds in every behaviour.
LEMMA OwnerInvariance == Spec => []OwnerInv
<1>1. Init => Farewell /\ RejectedWaits /\ RejectedIsDelisted
  BY DEF Init, Farewell, RejectedWaits, RejectedIsDelisted, Idle
<1>2. OwnerInv /\ [Next]_vars => Farewell' /\ RejectedWaits' /\ RejectedIsDelisted'
  <2> SUFFICES ASSUME OwnerInv, [Next]_vars
               PROVE  Farewell' /\ RejectedWaits' /\ RejectedIsDelisted'
    OBVIOUS
  <2>1. ASSUME NEW s \in Sessions, NEW next, Receive(s, next), handler = Idle,
               next.at \in {"idle", "answer", "heartbeat"}
        PROVE  Farewell' /\ RejectedWaits' /\ RejectedIsDelisted'
    <3>1. /\ DOMAIN sessions' = DOMAIN sessions \cup {s}
          /\ \A t \in DOMAIN sessions : /\ sessions'[t].game = sessions[t].game
                                        /\ sessions'[t].sentChallenge = sessions[t].sentChallenge
      BY <2>1, ReceiveKeepsGames DEF OwnerInv
    <3>2. handler' = next /\ UNCHANGED <<rooms, rejected>> /\ rejected \subseteq DOMAIN sessions
      BY <2>1 DEF Receive, OwnerInv, TypeOK
    <3> QED
      BY <2>1, <3>1, <3>2
      DEF OwnerInv, Farewell, RejectedWaits, RejectedIsDelisted, Owned, Live, Idle
  <2>2. CASE \E s \in Sessions : ReceiveKeepalive(s)
    BY <2>1, <2>2 DEF ReceiveKeepalive, Idle
  <2>3. CASE \E s \in Sessions : \E right \in BOOLEAN, key \in Keys : ReceiveAnswer(s, right, key)
    BY <2>1, <2>3 DEF ReceiveAnswer
  <2>4. CASE \E s \in Sessions : \E k \in Heartbeat : ReceiveHeartbeat(s, k)
    BY <2>1, <2>4 DEF ReceiveHeartbeat
  <2>5. CASE HandlerStep
    BY <2>5, HandlerKeeps
  <2>6. CASE Prune
    <3>1. /\ DOMAIN sessions' \subseteq DOMAIN sessions
          /\ \A t \in DOMAIN sessions' : sessions'[t] = sessions[t]
          /\ rejected' \subseteq rejected /\ rejected' \subseteq DOMAIN sessions'
          /\ UNCHANGED handler /\ DOMAIN rooms' \subseteq DOMAIN rooms
      BY <2>6, PruneEffect DEF OwnerInv, TypeOK
    <3>2. Farewell'
      BY <3>1 DEF OwnerInv, Farewell, Live
    <3>3. RejectedWaits'
      BY <3>1 DEF OwnerInv, RejectedWaits
    <3>4. RejectedIsDelisted'
      BY <3>1 DEF OwnerInv, RejectedIsDelisted, Owned, Live
    <3> QED
      BY <3>2, <3>3, <3>4
  <2>7. CASE Tick
    BY <2>7, TickEffect
    DEF OwnerInv, Farewell, RejectedWaits, RejectedIsDelisted, Owned, Live, TypeOK
  <2>8. CASE ReadClock \/ UNCHANGED vars
    BY <2>8 DEF ReadClock, vars, OwnerInv, Farewell, RejectedWaits, RejectedIsDelisted, Owned, Live
  <2> QED
    BY <2>2, <2>3, <2>4, <2>5, <2>6, <2>7, <2>8 DEF Next
<1> QED
  BY <1>1, <1>2, TypeCorrect, PTL DEF Spec, OwnerInv

\* A session with a wrong answer behind it owns no room until it is challenged
\* again or answers rightly, in every interleaving (qr/server.go:262-273, 362-368).
THEOREM WrongAnswerDelists == Spec => []RejectedIsDelisted
BY OwnerInvariance, PTL DEF OwnerInv

\* A listed room is left without an owner only for an empty name, a new game
\* of its host, or a prune that overtook its registration
\* (qr/server.go:262-273, 402-470).
THEOREM RoomsOwned == Spec => RoomsKeepOwners
<1> DEFINE Property == \A p \in DOMAIN rooms' :
       ~Owned(p)' /\ (p \in DOMAIN rooms => Owned(p)) =>
         p[1] = Blank \/ Renamed(p) \/ Overtaken(p)
<1>1. OwnerInv /\ [Next]_vars => [Property]_vars
  <2> SUFFICES ASSUME OwnerInv, Next, NEW p \in DOMAIN rooms', ~Owned(p)',
                      p \in DOMAIN rooms => Owned(p), p[1] # Blank
               PROVE  Renamed(p) \/ Overtaken(p)
    OBVIOUS
  <2> DEFINE s == handler.session
  <2>0. TypeOK
    BY DEF OwnerInv
  <2>1. ASSUME NEW t \in Sessions, NEW next, Receive(t, next), handler = Idle
        PROVE  FALSE
    <3>1. UNCHANGED rooms
      BY <2>1 DEF Receive
    <3>2. p[2] \in DOMAIN sessions /\ sessions[p[2]].game = p[1]
      BY <2>1, <3>1 DEF Owned, Live, Idle
    <3> QED
      BY <2>0, <2>1, <3>2, ReceiveKeepsGames DEF Owned, Live
  <2>2. CASE HandlerStep
    <3>1. ASSUME ~Forget, ~Stamp, p \in DOMAIN rooms
          PROVE  FALSE
      <4>1. handler.at # "stamp"
        BY <2>2, <3>1
        DEF HandlerStep, CheckAnswer, RejectAnswer, ReadHeartbeat, IssueChallenge,
            StartUpdate, Delist, Register
      <4>2. p[2] \in DOMAIN sessions /\ sessions[p[2]].game = p[1]
        BY <3>1, <4>1 DEF Owned, Live
      <4>3. p[2] \in DOMAIN sessions' /\ sessions'[p[2]].game = p[1]
        BY <2>0, <2>2, <3>1, <4>2, HandlerWrites
      <4> QED
        BY <4>3 DEF Owned, Live
    <3>2. CASE Forget
      <4>1. /\ handler.at = "forget" /\ UNCHANGED rooms
            /\ DOMAIN sessions' = DOMAIN sessions \ {s}
            /\ \A t \in DOMAIN sessions' : sessions'[t] = sessions[t]
        BY <2>0, <3>2, DropEffect DEF Forget
      <4>2. p[2] \in DOMAIN sessions /\ sessions[p[2]].game = p[1]
        BY <4>1 DEF Owned, Live
      <4>3. p[2] = s
        BY <4>1, <4>2 DEF Owned, Live
      <4>4. p = <<p[1], p[2]>>
        BY <4>1 DEF OwnerInv, TypeOK
      <4>5. p[1] # handler.game
        BY <4>1, <4>3, <4>4 DEF OwnerInv, Farewell
      <4>6. handler.k.game \notin {None, Blank, p[1]}
        BY <4>1, <4>2, <4>3, <4>5 DEF OwnerInv, Farewell, Live
      <4> QED
        BY <4>1, <4>3, <4>6 DEF Renamed
    <3>3. CASE Register
      <4>1. /\ handler.at = "register" /\ UNCHANGED sessions
            /\ handler' = [at |-> "stamp", session |-> s, game |-> handler.k.game]
            /\ DOMAIN rooms' = DOMAIN rooms \cup {<<handler.k.game, s>>}
        BY <3>3 DEF Register, Registry!Upsert
      <4>2. p = <<handler.k.game, s>>
        BY <3>1, <4>1 DEF Forget, Stamp
      <4>3. ~Live(s)
        BY <4>1, <4>2 DEF Owned, Live
      <4> QED
        BY <4>1, <4>2, <4>3 DEF Overtaken, Live
    <3>4. CASE Stamp
      <4>1. handler.at = "stamp" /\ UNCHANGED rooms
        BY <3>4 DEF Stamp
      <4>2. /\ DOMAIN sessions' = DOMAIN sessions
            /\ \A t \in DOMAIN sessions \ {s} : sessions'[t] = sessions[t]
        BY <2>0, <2>2, <4>1, HandlerWrites DEF Forget
      <4>3. Live(s) => sessions'[s].game = handler.game
        BY <2>0, <3>4 DEF Stamp, SetSession, Live, TypeOK, Session
      <4>4. p[2] \in DOMAIN sessions
        BY <4>1 DEF Owned, Live
      <4>5. p[2] = s
        BY <4>1, <4>2, <4>4 DEF Owned, Live
      <4>6. handler.game # p[1]
        BY <4>2, <4>3, <4>4, <4>5 DEF Owned, Live
      <4> QED
        BY <4>1, <4>5, <4>6 DEF Renamed
    <3>5. CASE ~Forget /\ ~Stamp /\ ~Register
      <4>1. DOMAIN rooms' \subseteq DOMAIN rooms
        BY <2>2, <3>5
        DEF HandlerStep, CheckAnswer, RejectAnswer, ReadHeartbeat, IssueChallenge,
            StartUpdate, Delist, Registry!Remove
      <4> QED
        BY <3>1, <3>5, <4>1
    <3> QED
      BY <3>2, <3>3, <3>4, <3>5
  <2>3. CASE Prune
    <3>1. /\ DOMAIN sessions' = DOMAIN sessions \ Expired
          /\ \A t \in DOMAIN sessions' : sessions'[t] = sessions[t]
          /\ UNCHANGED handler
          /\ p \in DOMAIN rooms
          /\ p[2] \in Expired => p[1] # sessions[p[2]].game
      BY <2>0, <2>3, PruneEffect
    <3>2. handler.at = "stamp" /\ handler.session = p[2] /\ p[2] \notin DOMAIN sessions'
      BY <3>1 DEF Owned, Live
    <3> QED
      BY <3>2 DEF Overtaken, Live
  <2>4. CASE Tick
    BY <2>0, <2>4, TickEffect DEF Owned, Live
  <2>5. CASE ReadClock
    BY <2>5 DEF ReadClock, Owned, Live
  <2> QED
    BY <2>1, <2>2, <2>3, <2>4, <2>5
    DEF Next, ReceiveKeepalive, ReceiveAnswer, ReceiveHeartbeat
<1>2. Spec => [][Property]_vars
  BY <1>1, OwnerInvariance, PTL DEF Spec
<1> QED
  BY <1>2 DEF RoomsKeepOwners
=============================================================================
