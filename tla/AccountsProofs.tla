--------------------------- MODULE AccountsProofs ---------------------------
(***************************************************************************)
(* Theorems about Accounts for any number of consoles, connections and     *)
(* keys: the types, that users, logins and sessions stay distinct in       *)
(* memory and in the files, that a profile id keeps its identity if every  *)
(* write of users.json succeeds, and what can end a session.               *)
(***************************************************************************)
EXTENDS Accounts, FiniteSetTheorems, TLAPS

-----------------------------------------------------------------------------
(* Largest numbers *)

\* A finite set of numbers has a largest one (store.go:439-447): of its
\* non-empty subsets without one the smallest would, less an element, have.
LEMMA FiniteSetHasLargest ==
  ASSUME NEW S \in SUBSET Nat, IsFiniteSet(S), S # {}
  PROVE  \E m \in S : \A n \in S : n <= m
<1> DEFINE HasLargest(T) == \E m \in T : \A n \in T : n <= m
           Bad == {T \in SUBSET S : T # {} /\ ~HasLargest(T)}
           Less == StrictSubsetOrdering(S)
<1> SUFFICES ASSUME Bad # {} PROVE FALSE
  OBVIOUS
<1>1. IsWellFoundedOn(Less, SUBSET S)
  BY FS_StrictSubsetOrderingWellFounded, FS_FiniteSubsetsOfFinite
<1>2. Bad \subseteq SUBSET S
  OBVIOUS
<1> HIDE DEF Bad, Less
<1>3. PICK T \in Bad : \A U \in Bad : <<U, T>> \notin Less
  BY <1>1, <1>2, WFMin
<1>4. T \in SUBSET S /\ T # {} /\ ~HasLargest(T)
  BY <1>3 DEF Bad
<1>5. PICK x \in T : TRUE
  BY <1>4
<1>6. T \ {x} # {}
  BY <1>4, <1>5
<1>7. T \ {x} \notin Bad
  <2>1. <<T \ {x}, T>> \in Less
    BY <1>4, <1>5 DEF Less, StrictSubsetOrdering
  <2> QED
    BY <2>1, <1>3
<1>8. PICK m \in T \ {x} : \A n \in T \ {x} : n <= m
  BY <1>4, <1>6, <1>7 DEF Bad
<1>9. x \in Nat /\ m \in Nat /\ T \subseteq Nat
  BY <1>4, <1>5, <1>8
<1>10. CASE x <= m
  BY <1>4, <1>8, <1>10
<1>11. CASE ~(x <= m)
  <2>1. \A n \in T : n <= x
    BY <1>8, <1>9, <1>11
  <2> QED
    BY <2>1, <1>4, <1>5
<1> QED
  BY <1>10, <1>11

\* What nextProfileIDLocked and GetNextAvailableUserid look for.
LEMMA LargestProperties ==
  ASSUME NEW S \in SUBSET Nat, IsFiniteSet(S), S # {}
  PROVE  /\ Largest(S) \in S
         /\ \A n \in S : n <= Largest(S)
BY FiniteSetHasLargest DEF Largest

\* The new profile id is a number that no row has (store.go:439-447).
LEMMA NextProfileIDIsNew ==
  ASSUME users \subseteq User, IsFiniteSet(users)
  PROVE  /\ NextProfileID \in Nat \ {0}
         /\ \A u \in users : u.profileid # NextProfileID
<1> DEFINE ids == {u.profileid : u \in users}
           id == [u \in users |-> u.profileid]
<1>1. id \in Surjection(users, ids)
  BY DEF Surjection
<1>2. IsFiniteSet(ids)
  BY <1>1, FS_Surjection
<1>3. IsFiniteSet(ids \cup {0})
  BY <1>2, FS_AddElement
<1>4. ids \subseteq Nat
  BY DEF User
<1>5. /\ Largest(ids \cup {0}) \in Nat
      /\ \A n \in ids : n <= Largest(ids \cup {0})
  <2> HIDE DEF ids
  <2>1. ids \cup {0} \in SUBSET Nat /\ ids \cup {0} # {}
    BY <1>4
  <2> QED
    BY <2>1, <1>3, LargestProperties
<1>6. NextProfileID = Largest(ids \cup {0}) + 1
  BY DEF NextProfileID
<1>7. \A u \in users : u.profileid \in ids
  OBVIOUS
<1> HIDE DEF ids, id
<1>8. ASSUME NEW u \in users
      PROVE  u.profileid # NextProfileID
  <2>1. u.profileid \in Nat /\ u.profileid <= Largest(ids \cup {0})
    BY <1>4, <1>5, <1>7
  <2> QED
    BY <2>1, <1>5, <1>6
<1>9. NextProfileID \in Nat \ {0}
  BY <1>5, <1>6
<1> QED
  BY <1>8, <1>9
-----------------------------------------------------------------------------
(* Types *)

Disk == [users : SUBSET User, sessions : SUBSET SessionRow, nasLogins : SUBSET NasLogin]

StoreTypes ==
  /\ users \subseteq User /\ IsFiniteSet(users)
  /\ sessions \subseteq SessionRow
  /\ nasLogins \subseteq NasLogin
  /\ disk \in Disk /\ IsFiniteSet(disk.users)

\* A write replaces its file or leaves all three as they were
\* (store.go:543-561).
LEMMA PersistEffect ==
  ASSUME disk \in Disk, NEW rows, NEW ok \in BOOLEAN,
         NEW file \in {"users", "sessions", "nasLogins"}, Persist(file, rows, ok)
  PROVE  /\ DOMAIN disk' = {"users", "sessions", "nasLogins"}
         /\ disk'.users = IF ok /\ file = "users" THEN rows ELSE disk.users
         /\ disk'.sessions = IF ok /\ file = "sessions" THEN rows ELSE disk.sessions
         /\ disk'.nasLogins = IF ok /\ file = "nasLogins" THEN rows ELSE disk.nasLogins
         /\ disk' = [users |-> disk'.users, sessions |-> disk'.sessions,
                     nasLogins |-> disk'.nasLogins]
         /\ ~ok => file \in Failing
BY DEF Persist, Disk

\* The NAS logins with the new one (store.go:142-181).
LEMMA StoreNasLoginTypes ==
  ASSUME StoreTypes, NEW userid \in Userids, NEW token \in Tokens,
         NEW gsbrcd \in Gsbrcds \cup {None}, NEW ok \in BOOLEAN,
         StoreNasLogin(userid, token, gsbrcd, ok)
  PROVE  StoreTypes'
<1> DEFINE rows == {l \in nasLogins : l.userid # userid}
                     \cup {[userid |-> userid, token |-> token, gsbrcd |-> gsbrcd]}
<1>1. rows \subseteq NasLogin
  BY DEF StoreTypes, NasLogin
<1>2. nasLogins' = rows /\ Persist("nasLogins", rows, ok) /\ UNCHANGED <<users, sessions>>
  BY DEF StoreNasLogin
<1> HIDE DEF rows
<1>3. disk' \in Disk /\ disk'.users = disk.users
  BY <1>1, <1>2, PersistEffect DEF StoreTypes, Disk
<1> QED
  BY <1>1, <1>2, <1>3 DEF StoreTypes

\* The new row of an identity (store.go:449-481).
LEMMA CreateUserTypes ==
  ASSUME StoreTypes, NEW userid \in Userids, NEW gsbrcd \in Gsbrcds, NEW ok \in BOOLEAN,
         CreateUser(userid, gsbrcd, ok)
  PROVE  StoreTypes' /\ NewUser(userid, gsbrcd) \in User
<1> DEFINE rows == users \cup {NewUser(userid, gsbrcd)}
<1>0. NewUser(userid, gsbrcd) \in User
  BY NextProfileIDIsNew DEF StoreTypes, NewUser, User
<1>1. rows \subseteq User /\ IsFiniteSet(rows)
  BY <1>0, FS_AddElement DEF StoreTypes
<1>2. users' = rows /\ Persist("users", rows, ok) /\ UNCHANGED <<sessions, nasLogins>>
  BY DEF CreateUser
<1> HIDE DEF rows
<1>3. disk' \in Disk /\ IsFiniteSet(disk'.users)
  BY <1>1, <1>2, PersistEffect DEF StoreTypes, Disk
<1> QED
  BY <1>0, <1>1, <1>2, <1>3 DEF StoreTypes

\* A row with its names changed (store.go:226-260).
LEMMA UpdateProfileTypes ==
  ASSUME StoreTypes, NEW profileid, NEW name \in Names, NEW ok \in BOOLEAN,
         UpdateProfile(profileid, name, ok)
  PROVE  StoreTypes'
<1>1. PICK u \in users :
        LET rows == (users \ {u}) \cup {[u EXCEPT !.name = name]}
        IN  users' = rows /\ Persist("users", rows, ok)
  BY DEF UpdateProfile
<1> DEFINE rows == (users \ {u}) \cup {[u EXCEPT !.name = name]}
<1>2. rows \subseteq User /\ IsFiniteSet(rows)
  <2>1. [u EXCEPT !.name = name] \in User
    BY DEF StoreTypes, User
  <2>2. IsFiniteSet(users \ {u})
    BY FS_RemoveElement DEF StoreTypes
  <2> QED
    BY <2>1, <2>2, FS_AddElement DEF StoreTypes
<1>3. users' = rows /\ Persist("users", rows, ok) /\ UNCHANGED <<sessions, nasLogins>>
  BY <1>1 DEF UpdateProfile
<1> HIDE DEF rows
<1>4. disk' \in Disk /\ IsFiniteSet(disk'.users)
  BY <1>2, <1>3, PersistEffect DEF StoreTypes, Disk
<1> QED
  BY <1>2, <1>3, <1>4 DEF StoreTypes

\* The sessions with the new one (store.go:361-398).
LEMMA CreateSessionTypes ==
  ASSUME StoreTypes, NEW profileid \in Nat \ {0}, NEW key \in Keys, NEW ok \in BOOLEAN,
         CreateSession(profileid, key, ok)
  PROVE  StoreTypes'
<1> DEFINE rows == {s \in sessions : s.profileid # profileid} \cup {Session(key, profileid)}
<1>1. rows \subseteq SessionRow
  BY DEF StoreTypes, SessionRow, Session
<1>2. sessions' = rows /\ Persist("sessions", rows, ok) /\ UNCHANGED <<users, nasLogins>>
  BY DEF CreateSession
<1> HIDE DEF rows
<1>3. disk' \in Disk /\ disk'.users = disk.users
  BY <1>1, <1>2, PersistEffect DEF StoreTypes, Disk
<1> QED
  BY <1>1, <1>2, <1>3 DEF StoreTypes

\* The sessions without those of a key (store.go:401-419).
LEMMA DeleteSessionTypes ==
  ASSUME StoreTypes, NEW key, NEW ok \in BOOLEAN, DeleteSession(key, ok)
  PROVE  StoreTypes'
<1> DEFINE rows == {s \in sessions : s.session # key}
<1>1. rows \subseteq SessionRow
  BY DEF StoreTypes
<1>2. sessions' = rows /\ Persist("sessions", rows, ok) /\ UNCHANGED <<users, nasLogins>>
  BY DEF DeleteSession
<1> HIDE DEF rows
<1>3. disk' \in Disk /\ disk'.users = disk.users
  BY <1>1, <1>2, PersistEffect DEF StoreTypes, Disk
<1> QED
  BY <1>1, <1>2, <1>3 DEF StoreTypes

\* A userid that a console remembers is one of the numbers NAS hands out.
LEMMA RememberedType ==
  ASSUME users \subseteq User, IsFiniteSet(users), NEW c
  PROVE  Remembered(c) \in Userids \cup {0}
<1> DEFINE rows == {v \in users : v.gsbrcd = License[c]}
           mine == {u.userid : u \in rows}
           id == [u \in rows |-> u.userid]
<1>1. IsFiniteSet(rows)
  BY FS_Subset
<1>2. id \in Surjection(rows, mine)
  BY DEF Surjection
<1>3. IsFiniteSet(mine)
  BY <1>1, <1>2, FS_Surjection
<1>4. mine \subseteq Userids
  BY DEF User
<1>5. Remembered(c) = IF mine = {} THEN 0 ELSE Largest(mine)
  BY DEF Remembered
<1> HIDE DEF mine
<1> QED
  BY <1>3, <1>4, <1>5, StoreAssumption, LargestProperties

(* TypeOK, and the tables of users are finite. *)
TypeInv == TypeOK /\ IsFiniteSet(users) /\ IsFiniteSet(disk.users)

ConsoleTypes ==
  /\ wii \in [Consoles -> [userid : Userids \cup {0}, token : Tokens \cup {None}]]
  /\ conns \in [Conns -> Conn]
  /\ \A k \in Conns : conns[k] # Closed =>
                         (conns[k].profileid # 0 => conns[k].sesskey # None)
  /\ heard \in [Conns -> SUBSET Keys]

\* The types of the store and those of NAS and the profile server.
LEMMA TypeParts == TypeInv <=> StoreTypes /\ ConsoleTypes
BY DEF TypeInv, TypeOK, StoreTypes, ConsoleTypes, Disk

\* A connection that stays open keeps its types if its goroutine's does.
LEMMA OneConnection ==
  ASSUME ConsoleTypes, NEW k \in Conns, NEW conn \in Conn,
         conn # Closed => (conn.profileid # 0 => conn.sesskey # None),
         conns' = [conns EXCEPT ![k] = conn], UNCHANGED wii,
         heard' \in [Conns -> SUBSET Keys]
  PROVE  ConsoleTypes'
BY DEF ConsoleTypes

\* Between logins a connection is back where it was (profile/server.go:93-145).
LEMMA BackType ==
  ASSUME ConsoleTypes, NEW k \in Conns, conns[k] # Closed
  PROVE  /\ Back(k) \in Conn /\ Back(k) # Closed
         /\ Back(k).sesskey = conns[k].sesskey
         /\ Back(k).profileid = conns[k].profileid
         /\ conns[k].console \in Consoles
         /\ conns[k].sesskey \in Keys \cup {None}
         /\ conns[k].profileid \in Nat
         /\ conns[k].profileid # 0 => conns[k].sesskey # None
BY DEF ConsoleTypes, Conn, Back, Closed

\* The keys that go over a connection are keys.
LEMMA HearsKeys ==
  ASSUME ConsoleTypes, NEW k \in Conns, NEW keys \in SUBSET (Keys \cup {None}),
         Hears(k, keys)
  PROVE  heard' \in [Conns -> SUBSET Keys]
BY DEF Hears, ConsoleTypes

(* A connection ends, and with it the session of some key or none. *)
Leaves(k, ok) ==
  /\ conns[k].at = "open"
  /\ \E key \in Keys \cup {None} : EndSession(key, ok)
  /\ conns' = [conns EXCEPT ![k] = Closed]
  /\ heard' \in [Conns -> SUBSET Keys]
  /\ UNCHANGED <<wii, told>>

\* So do a logout and a clean-up (profile/server.go:235-255).
LEMMA EndsLeave ==
  ASSUME ConsoleTypes, NEW k \in Conns, NEW ok \in BOOLEAN,
         Cleanup(k, ok) \/ \E key \in Keys \cup {None} : Logout(k, key, ok)
  PROVE  Leaves(k, ok)
<1>1. CASE Cleanup(k, ok)
  <2>1. conns[k].sesskey \in Keys \cup {None}
    BY <1>1, BackType DEF Cleanup, Closed
  <2> QED
    BY <1>1, <2>1 DEF Cleanup, Leaves, ConsoleTypes
<1>2. ASSUME NEW key \in Keys \cup {None}, Logout(k, key, ok)
      PROVE  Leaves(k, ok)
  <2>1. conns[k].sesskey \in Keys \cup {None}
    BY <1>2, BackType DEF Logout, Closed
  <2>2. heard' \in [Conns -> SUBSET Keys]
    BY <1>2, HearsKeys DEF Logout
  <2> QED
    BY <1>2, <2>1, <2>2 DEF Logout, Leaves
<1> QED
  BY <1>1, <1>2

\* Every request, connection step and restart keeps the types.
LEMMA StepKeepsTypes == TypeInv /\ [Next]_vars => TypeInv'
<1> SUFFICES ASSUME StoreTypes, ConsoleTypes, [Next]_vars
             PROVE  StoreTypes' /\ ConsoleTypes'
  BY TypeParts DEF TypeInv, TypeOK, StoreTypes, ConsoleTypes, Disk
<1>1. ASSUME NEW c \in Consoles, AcctCreate(c)
      PROVE  StoreTypes' /\ ConsoleTypes'
  BY <1>1 DEF AcctCreate, StoreTypes, ConsoleTypes, storeVars
<1>2. ASSUME NEW c \in Consoles, NEW t \in Tokens, NEW ok \in BOOLEAN, AcLogin(c, t, ok)
      PROVE  StoreTypes' /\ ConsoleTypes'
  <2>1. wii[c].userid \in Userids /\ License[c] \in Gsbrcds
    BY <1>2, AccountsAssumption DEF AcLogin, ConsoleTypes
  <2>2. StoreTypes'
    BY <1>2, <2>1, StoreNasLoginTypes DEF AcLogin
  <2>3. ConsoleTypes'
    BY <1>2 DEF AcLogin, ConsoleTypes
  <2> QED
    BY <2>2, <2>3
<1>3. ASSUME NEW c \in Consoles, NEW t \in Tokens, NEW ok \in BOOLEAN, AcSvcLoc(c, t, ok)
      PROVE  StoreTypes' /\ ConsoleTypes'
  <2>1. wii[c].userid \in Userids
    BY <1>3 DEF AcSvcLoc, ConsoleTypes
  <2>2. StoreTypes'
    BY <1>3, <2>1, StoreNasLoginTypes DEF AcSvcLoc
  <2>3. ConsoleTypes'
    BY <1>3 DEF AcSvcLoc, ConsoleTypes
  <2> QED
    BY <2>2, <2>3
<1>4. ASSUME NEW c \in Consoles, NEW k \in Conns, Connect(k, c)
      PROVE  StoreTypes' /\ ConsoleTypes'
  <2>1. Open(c) \in Conn /\ Open(c).sesskey = None /\ Open(c).profileid = 0
    BY DEF Open, Conn
  <2>2. heard' \in [Conns -> SUBSET Keys]
    BY <1>4 DEF Connect, ConsoleTypes
  <2>3. ConsoleTypes'
    BY <1>4, <2>1, <2>2, OneConnection DEF Connect
  <2> QED
    BY <1>4, <2>3 DEF Connect, StoreTypes, storeVars
<1>5. ASSUME NEW k \in Conns, CheckToken(k)
      PROVE  StoreTypes' /\ ConsoleTypes'
  <2>1. PICK l \in nasLogins :
          /\ l.gsbrcd # None
          /\ conns' = [conns EXCEPT ![k] =
               [at |-> "user", console |-> conns[k].console, sesskey |-> conns[k].sesskey,
                profileid |-> conns[k].profileid, userid |-> l.userid, gsbrcd |-> l.gsbrcd]]
    BY <1>5 DEF CheckToken, LoginsWith, ConsoleTypes
  <2>2. l.userid \in Userids /\ l.gsbrcd \in Gsbrcds
    BY <2>1 DEF StoreTypes, NasLogin
  <2>3. conns[k] # Closed
    BY <1>5 DEF CheckToken, Closed
  <2> DEFINE conn == [at |-> "user", console |-> conns[k].console,
                      sesskey |-> conns[k].sesskey, profileid |-> conns[k].profileid,
                      userid |-> l.userid, gsbrcd |-> l.gsbrcd]
  <2>4. conn \in Conn /\ (conn.profileid # 0 => conn.sesskey # None)
    BY <2>2, <2>3, BackType DEF Conn
  <2> HIDE DEF conn
  <2>5. heard' \in [Conns -> SUBSET Keys]
    BY <1>5 DEF CheckToken, ConsoleTypes
  <2>6. ConsoleTypes'
    BY <1>5, <2>1, <2>4, <2>5, OneConnection DEF CheckToken, conn
  <2> QED
    BY <1>5, <2>6 DEF CheckToken, StoreTypes, storeVars
<1>6. ASSUME NEW k \in Conns, NEW ok \in BOOLEAN, FindProfile(k, ok)
      PROVE  StoreTypes' /\ ConsoleTypes'
  <2> DEFINE found(pid) == [at |-> "session", console |-> conns[k].console,
                            sesskey |-> conns[k].sesskey, profileid |-> conns[k].profileid,
                            user |-> [profileid |-> pid, userid |-> conns[k].userid,
                                      gsbrcd |-> conns[k].gsbrcd]]
  <2>1. /\ conns[k].userid \in Userids /\ conns[k].gsbrcd \in Gsbrcds
        /\ conns[k] # Closed
    BY <1>6 DEF FindProfile, ConsoleTypes, Conn, Closed
  <2>0. heard' \in [Conns -> SUBSET Keys]
    BY <1>6 DEF FindProfile, ConsoleTypes
  <2>2. ASSUME NEW pid \in Nat \ {0}
        PROVE  /\ found(pid) \in Conn
               /\ found(pid).profileid # 0 => found(pid).sesskey # None
    BY <2>1, BackType DEF Conn
  <2>3. CASE /\ CreateUser(conns[k].userid, conns[k].gsbrcd, ok)
             /\ conns' = [conns EXCEPT ![k] = IF ok THEN found(NextProfileID) ELSE Back(k)]
    <3>1. StoreTypes' /\ NextProfileID \in Nat \ {0}
      BY <2>1, <2>3, CreateUserTypes, NextProfileIDIsNew DEF StoreTypes
    <3> HIDE DEF found
    <3> QED
      BY <1>6, <2>0, <2>1, <2>2, <2>3, <3>1, OneConnection, BackType DEF FindProfile
  <2>4. ASSUME NEW u \in Identified(conns[k].userid, conns[k].gsbrcd),
               conns' = [conns EXCEPT ![k] = IF u.enabled THEN found(u.profileid) ELSE Back(k)],
               UNCHANGED storeVars
        PROVE  StoreTypes' /\ ConsoleTypes'
    <3>1. u.profileid \in Nat \ {0}
      BY DEF Identified, StoreTypes, User
    <3>2. StoreTypes'
      BY <2>4 DEF StoreTypes, storeVars
    <3> HIDE DEF found
    <3> QED
      BY <1>6, <2>0, <2>1, <2>2, <2>4, <3>1, <3>2, OneConnection, BackType DEF FindProfile
  <2> QED
    BY <1>6, <2>3, <2>4 DEF FindProfile
<1>7. ASSUME NEW k \in Conns, NEW key \in Keys, NEW ok \in BOOLEAN, OpenSession(k, key, ok)
      PROVE  StoreTypes' /\ ConsoleTypes'
  <2>1. conns[k].user.profileid \in Nat \ {0} /\ conns[k] # Closed
    BY <1>7 DEF OpenSession, ConsoleTypes, Conn, Closed
  <2>2. StoreTypes'
    BY <1>7, <2>1, CreateSessionTypes DEF OpenSession
  <2> DEFINE conn == IF ok THEN [Back(k) EXCEPT !.sesskey = key,
                                                !.profileid = conns[k].user.profileid]
                     ELSE Back(k)
  <2>3. conn \in Conn /\ (conn.profileid # 0 => conn.sesskey # None)
    BY <2>1, BackType, AccountsAssumption DEF Conn, Back
  <2>4. conns' = [conns EXCEPT ![k] = conn] /\ UNCHANGED wii
    BY <1>7 DEF OpenSession
  <2>5. heard' \in [Conns -> SUBSET Keys]
    BY <1>7, HearsKeys DEF OpenSession
  <2> HIDE DEF conn
  <2> QED
    BY <2>2, <2>3, <2>4, <2>5, OneConnection
<1>8. ASSUME NEW k \in Conns, NEW name \in Names, NEW ok \in BOOLEAN, UpdatePro(k, name, ok)
      PROVE  StoreTypes' /\ ConsoleTypes'
  BY <1>8, UpdateProfileTypes DEF UpdatePro, ConsoleTypes
<1>9. ASSUME NEW k \in Conns, NEW ok \in BOOLEAN, Leaves(k, ok)
      PROVE  StoreTypes' /\ ConsoleTypes'
  <2>1. StoreTypes'
    BY <1>9, DeleteSessionTypes DEF Leaves, EndSession, StoreTypes, storeVars
  <2>2. ConsoleTypes'
    BY <1>9, OneConnection DEF Leaves, Conn
  <2> QED
    BY <2>1, <2>2
<1>12. ASSUME NEW k \in Conns, NEW key \in Keys, Status(k, key)
       PROVE  StoreTypes' /\ ConsoleTypes'
  <2> DEFINE conn == [conns[k] EXCEPT !.sesskey = key]
  <2>1. conns[k] \in Conn /\ conns[k].at = "open" /\ conns[k] # Closed
    BY <1>12 DEF Status, ConsoleTypes, Closed
  <2>2. conn \in Conn /\ (conn.profileid # 0 => conn.sesskey # None)
    BY <2>1, AccountsAssumption DEF Conn, Closed
  <2>3. conns' = [conns EXCEPT ![k] = conn] /\ UNCHANGED wii
    BY <1>12 DEF Status
  <2>4. heard' \in [Conns -> SUBSET Keys]
    BY <1>12, HearsKeys DEF Status
  <2> HIDE DEF conn
  <2>5. ConsoleTypes'
    BY <2>2, <2>3, <2>4, OneConnection
  <2> QED
    BY <1>12, <2>5 DEF Status, StoreTypes, storeVars
<1>10. ASSUME Restart
       PROVE  StoreTypes' /\ ConsoleTypes'
  BY <1>10 DEF Restart, Reload, StoreTypes, ConsoleTypes, Disk, Conn
<1>11. CASE UNCHANGED vars
  BY <1>11 DEF vars, StoreTypes, ConsoleTypes, storeVars
<1> QED
  BY <1>1, <1>2, <1>3, <1>4, <1>5, <1>6, <1>7, <1>8, <1>9, <1>10, <1>11, <1>12, EndsLeave
  DEF Next

\* The start reads some users.json (store.go:77-99).
LEMMA InitTypes == Init => TypeInv
<1> SUFFICES ASSUME Init PROVE StoreTypes /\ ConsoleTypes
  BY TypeParts
<1>1. users \subseteq User /\ IsFiniteSet(users)
  BY StoreAssumption DEF Init, InitStore
<1>2. StoreTypes
  BY <1>1 DEF Init, InitStore, StoreTypes, Disk
<1>3. ConsoleTypes
  BY <1>1, RememberedType DEF Init, ConsoleTypes, Conn
<1> QED
  BY <1>2, <1>3

\* It holds in every reachable state.
LEMMA TypeInvariance == Spec => []TypeInv
BY InitTypes, StepKeepsTypes, PTL DEF Spec

\* The rows of every table and file, the tokens of the consoles and the
\* fields of every connection are of their types, and a connection that has a
\* profile has a session key (profile/server.go:30-43, 122-145, 219-224).
THEOREM TypeCorrect == Spec => []TypeOK
<1>1. TypeInv => TypeOK
  BY DEF TypeInv
<1> QED
  BY <1>1, TypeInvariance, PTL

-----------------------------------------------------------------------------
(* Users *)

DistinctUsers(rows) ==
  \A u, v \in rows :
    \/ u.profileid = v.profileid
    \/ u.userid = v.userid /\ u.gsbrcd = v.gsbrcd
    => u = v

IsNewUser(u) ==
  /\ u \in User
  /\ \A v \in users : /\ v.profileid # u.profileid
                      /\ v.userid = u.userid => v.gsbrcd # u.gsbrcd

UsersChange ==
  \/ users' = users
  \/ users' = disk.users
  \/ \E u : IsNewUser(u) /\ users' = users \cup {u}
  \/ \E u \in users : \E name : users' = (users \ {u}) \cup {[u EXCEPT !.name = name]}

FileFollows ==
  \/ disk'.users = users'
  \/ disk'.users = disk.users /\ (users' = users \/ "users" \in Failing)

\* A step leaves the users as they are, adds one whose number and identity
\* are new, changes the names of one, or reads them back; the file follows
\* or, if its writing may fail, stays as it was (store.go:226-260, 449-481,
\* 502-528).
LEMMA UsersStep ==
  ASSUME TypeInv, [Next]_vars
  PROVE  UsersChange /\ FileFollows
<1>0. StoreTypes /\ ConsoleTypes
  BY TypeParts
<1>1. ASSUME UNCHANGED users, disk'.users = disk.users
      PROVE  UsersChange /\ FileFollows
  BY <1>1 DEF UsersChange, FileFollows
<1>2. ASSUME NEW rows, NEW ok \in BOOLEAN, NEW file \in {"sessions", "nasLogins"},
             Persist(file, rows, ok)
      PROVE  disk'.users = disk.users
  BY <1>0, <1>2, PersistEffect DEF StoreTypes
<1>3. ASSUME NEW rows, NEW ok \in BOOLEAN, Persist("users", rows, ok), users' = rows
      PROVE  FileFollows
  BY <1>0, <1>3, PersistEffect DEF StoreTypes, FileFollows
<1>4. ASSUME NEW c \in Consoles, NEW t \in Tokens, NEW ok \in BOOLEAN,
             AcLogin(c, t, ok) \/ AcSvcLoc(c, t, ok)
      PROVE  UsersChange /\ FileFollows
  BY <1>1, <1>2, <1>4 DEF AcLogin, AcSvcLoc, StoreNasLogin
<1>5. ASSUME NEW k \in Conns, NEW ok \in BOOLEAN, FindProfile(k, ok)
      PROVE  UsersChange /\ FileFollows
  <2> DEFINE userid == conns[k].userid
             gsbrcd == conns[k].gsbrcd
  <2>1. CASE UNCHANGED storeVars
    BY <1>1, <2>1 DEF storeVars
  <2>2. CASE CreateUser(userid, gsbrcd, ok)
    <3>1. userid \in Userids /\ gsbrcd \in Gsbrcds
      BY <1>0, <1>5 DEF FindProfile, ConsoleTypes, Conn, Closed
    <3>2. /\ Identified(userid, gsbrcd) = {}
          /\ users' = users \cup {NewUser(userid, gsbrcd)}
          /\ FileFollows
      BY <1>3, <2>2 DEF CreateUser
    <3>3. IsNewUser(NewUser(userid, gsbrcd))
      <4>1. NewUser(userid, gsbrcd) \in User
        BY <1>0, <2>2, <3>1, CreateUserTypes
      <4>2. \A v \in users : v.profileid # NextProfileID
        BY <1>0, NextProfileIDIsNew DEF StoreTypes
      <4>3. \A v \in users : v.userid = userid => v.gsbrcd # gsbrcd
        BY <3>2 DEF Identified
      <4> QED
        BY <4>1, <4>2, <4>3 DEF IsNewUser, NewUser
    <3> QED
      BY <3>2, <3>3 DEF UsersChange
  <2> QED
    BY <1>5, <2>1, <2>2 DEF FindProfile
<1>6. ASSUME NEW k \in Conns, NEW key \in Keys, NEW ok \in BOOLEAN, OpenSession(k, key, ok)
      PROVE  UsersChange /\ FileFollows
  BY <1>1, <1>2, <1>6 DEF OpenSession, CreateSession
<1>7. ASSUME NEW k \in Conns, NEW name \in Names, NEW ok \in BOOLEAN, UpdatePro(k, name, ok)
      PROVE  UsersChange /\ FileFollows
  BY <1>3, <1>7 DEF UpdatePro, UpdateProfile, UsersChange
<1>8. ASSUME NEW k \in Conns, NEW ok \in BOOLEAN, Leaves(k, ok)
      PROVE  UsersChange /\ FileFollows
  BY <1>1, <1>2, <1>8 DEF Leaves, EndSession, DeleteSession, storeVars
<1>9. CASE Restart
  BY <1>9 DEF Restart, Reload, UsersChange, FileFollows
<1>10. CASE UNCHANGED storeVars
  BY <1>1, <1>10 DEF storeVars
<1> QED
  BY <1>0, <1>4, <1>5, <1>6, <1>7, <1>8, <1>9, <1>10, EndsLeave
  DEF Next, vars, storeVars, AcctCreate, Connect, CheckToken, Status

\* Users that are distinct stay so.
LEMMA UsersChangeKeepsDistinct ==
  ASSUME users \subseteq User, DistinctUsers(users), DistinctUsers(disk.users), UsersChange
  PROVE  DistinctUsers(users')
<1>1. ASSUME NEW u, IsNewUser(u), users' = users \cup {u}
      PROVE  DistinctUsers(users')
  BY <1>1 DEF IsNewUser, DistinctUsers
<1>2. ASSUME NEW u \in users, NEW name,
             users' = (users \ {u}) \cup {[u EXCEPT !.name = name]}
      PROVE  DistinctUsers(users')
  <2> DEFINE w == [u EXCEPT !.name = name]
  <2>1. w.profileid = u.profileid /\ w.userid = u.userid /\ w.gsbrcd = u.gsbrcd
    BY DEF User
  <2>2. users' = (users \ {u}) \cup {w}
    BY <1>2
  <2> HIDE DEF w
  <2> QED
    BY <2>1, <2>2 DEF DistinctUsers
<1> QED
  BY <1>1, <1>2 DEF UsersChange

\* No two users share a profile id or an identity, in memory and in
\* users.json, whatever logins interleave and whatever writes fail
\* (store.go:421-447, 449-481).
THEOREM UsersStayDistinct == Spec => []UsersDistinct
<1>1. UsersDistinct <=> DistinctUsers(users) /\ DistinctUsers(disk.users)
  BY DEF UsersDistinct, DistinctUsers
<1>2. Init => UsersDistinct
  BY <1>1, StoreAssumption DEF Init, InitStore, DistinctUsers
<1>3. TypeInv /\ UsersDistinct /\ [Next]_vars => UsersDistinct'
  <2> SUFFICES ASSUME TypeInv, UsersDistinct, [Next]_vars
               PROVE  DistinctUsers(users') /\ DistinctUsers(disk'.users)
    BY DEF UsersDistinct, DistinctUsers
  <2>1. DistinctUsers(users')
    BY <1>1, UsersStep, UsersChangeKeepsDistinct DEF TypeInv, TypeOK
  <2>2. DistinctUsers(disk'.users)
    BY <1>1, <2>1, UsersStep DEF FileFollows
  <2> QED
    BY <2>1, <2>2
<1> QED
  BY <1>2, <1>3, TypeInvariance, PTL DEF Spec

-----------------------------------------------------------------------------
(* NAS logins and sessions *)

DistinctLogins(rows) == \A l, m \in rows : l.userid = m.userid \/ l.token = m.token => l = m

DistinctSessions(rows) ==
  \A s, t \in rows : s.profileid = t.profileid \/ s.session = t.session => s = t

TablesDistinct ==
  /\ DistinctLogins(nasLogins) /\ DistinctLogins(disk.nasLogins)
  /\ DistinctSessions(sessions) /\ DistinctSessions(disk.sessions)

\* A login replaces its userid's, and its token is no other user's
\* (store.go:155-180).
LEMMA StoreNasLoginDistinct ==
  ASSUME TypeInv, TablesDistinct, NEW userid \in Userids, NEW token \in Tokens, NEW gsbrcd,
         NEW ok \in BOOLEAN, StoreNasLogin(userid, token, gsbrcd, ok)
  PROVE  TablesDistinct'
<1> DEFINE l == [userid |-> userid, token |-> token, gsbrcd |-> gsbrcd]
           kept == {m \in nasLogins : m.userid # userid}
<1>0. StoreTypes
  BY TypeParts
<1>1. \A m \in kept : m.userid # l.userid /\ m.token # l.token
  BY DEF StoreNasLogin
<1>2. /\ nasLogins' = kept \cup {l}
      /\ UNCHANGED sessions
      /\ Persist("nasLogins", kept \cup {l}, ok)
  BY DEF StoreNasLogin
<1>3. kept \subseteq nasLogins
  OBVIOUS
<1> HIDE DEF l, kept
<1>4. DistinctLogins(nasLogins')
  BY <1>1, <1>2, <1>3 DEF DistinctLogins, TablesDistinct
<1>5. disk'.nasLogins \in {nasLogins', disk.nasLogins} /\ disk'.sessions = disk.sessions
  BY <1>0, <1>2, PersistEffect DEF StoreTypes
<1> QED
  BY <1>2, <1>4, <1>5 DEF TablesDistinct

\* A session replaces its profile's, and its key is no other profile's
\* (store.go:369-395).
LEMMA CreateSessionDistinct ==
  ASSUME TypeInv, TablesDistinct, NEW profileid, NEW key, NEW ok \in BOOLEAN,
         CreateSession(profileid, key, ok)
  PROVE  TablesDistinct'
<1> DEFINE s == Session(key, profileid)
           kept == {t \in sessions : t.profileid # profileid}
<1>0. StoreTypes
  BY TypeParts
<1>1. \A t \in kept : t.profileid # s.profileid /\ t.session # s.session
  BY DEF CreateSession, Session
<1>2. /\ sessions' = kept \cup {s}
      /\ UNCHANGED nasLogins
      /\ Persist("sessions", kept \cup {s}, ok)
  BY DEF CreateSession
<1>3. kept \subseteq sessions
  OBVIOUS
<1> HIDE DEF s, kept
<1>4. DistinctSessions(sessions')
  BY <1>1, <1>2, <1>3 DEF DistinctSessions, TablesDistinct
<1>5. disk'.sessions \in {sessions', disk.sessions} /\ disk'.nasLogins = disk.nasLogins
  BY <1>0, <1>2, PersistEffect DEF StoreTypes
<1> QED
  BY <1>2, <1>4, <1>5 DEF TablesDistinct

\* Fewer sessions are as distinct (store.go:401-419).
LEMMA DeleteSessionDistinct ==
  ASSUME TypeInv, TablesDistinct, NEW key, NEW ok \in BOOLEAN, DeleteSession(key, ok)
  PROVE  TablesDistinct'
<1> DEFINE kept == {t \in sessions : t.session # key}
<1>0. StoreTypes
  BY TypeParts
<1>1. sessions' = kept /\ UNCHANGED nasLogins /\ Persist("sessions", kept, ok)
  BY DEF DeleteSession
<1>2. DistinctSessions(kept)
  BY DEF DistinctSessions, TablesDistinct
<1> HIDE DEF kept
<1>3. disk'.sessions \in {kept, disk.sessions} /\ disk'.nasLogins = disk.nasLogins
  BY <1>0, <1>1, PersistEffect DEF StoreTypes
<1> QED
  BY <1>1, <1>2, <1>3 DEF TablesDistinct

\* A write of users.json touches neither table.
LEMMA UsersWriteDistinct ==
  ASSUME TypeInv, TablesDistinct, NEW rows, NEW ok \in BOOLEAN, Persist("users", rows, ok),
         UNCHANGED <<sessions, nasLogins>>
  PROVE  TablesDistinct'
<1>1. StoreTypes
  BY TypeParts
<1>2. disk'.sessions = disk.sessions /\ disk'.nasLogins = disk.nasLogins
  BY <1>1, PersistEffect DEF StoreTypes
<1> QED
  BY <1>2 DEF TablesDistinct

\* Every step keeps the tables distinct.
LEMMA StepKeepsTables ==
  ASSUME TypeInv, TablesDistinct, [Next]_vars
  PROVE  TablesDistinct'
<1>0. StoreTypes /\ ConsoleTypes
  BY TypeParts
<1>1. ASSUME NEW c \in Consoles, NEW t \in Tokens, NEW ok \in BOOLEAN,
             AcLogin(c, t, ok) \/ AcSvcLoc(c, t, ok)
      PROVE  TablesDistinct'
  <2>1. wii[c].userid \in Userids
    BY <1>0, <1>1 DEF AcLogin, AcSvcLoc, ConsoleTypes
  <2> QED
    BY <1>1, <2>1, StoreNasLoginDistinct DEF AcLogin, AcSvcLoc
<1>2. ASSUME NEW k \in Conns, NEW ok \in BOOLEAN, FindProfile(k, ok)
      PROVE  TablesDistinct'
  BY <1>2, UsersWriteDistinct DEF FindProfile, CreateUser, storeVars, TablesDistinct
<1>3. ASSUME NEW k \in Conns, NEW key \in Keys, NEW ok \in BOOLEAN, OpenSession(k, key, ok)
      PROVE  TablesDistinct'
  BY <1>3, CreateSessionDistinct DEF OpenSession
<1>4. ASSUME NEW k \in Conns, NEW name \in Names, NEW ok \in BOOLEAN, UpdatePro(k, name, ok)
      PROVE  TablesDistinct'
  BY <1>4, UsersWriteDistinct DEF UpdatePro, UpdateProfile
<1>5. ASSUME NEW k \in Conns, NEW ok \in BOOLEAN, Leaves(k, ok)
      PROVE  TablesDistinct'
  BY <1>5, DeleteSessionDistinct DEF Leaves, EndSession, storeVars, TablesDistinct
<1>6. CASE Restart
  BY <1>6 DEF Restart, Reload, TablesDistinct
<1>7. CASE UNCHANGED storeVars
  BY <1>7 DEF storeVars, TablesDistinct
<1> QED
  BY <1>0, <1>1, <1>2, <1>3, <1>4, <1>5, <1>6, <1>7, EndsLeave
  DEF Next, vars, storeVars, AcctCreate, Connect, CheckToken, Status

\* It holds in every reachable state.
LEMMA TablesInvariance == Spec => []TablesDistinct
<1>1. Init => TablesDistinct
  BY DEF Init, InitStore, TablesDistinct, DistinctLogins, DistinctSessions
<1>2. TypeInv /\ TablesDistinct /\ [Next]_vars => TablesDistinct'
  BY StepKeepsTables
<1> QED
  BY <1>1, <1>2, TypeInvariance, PTL DEF Spec

\* A userid has one token and a token one userid, a profile one session and a
\* key one session, in memory and in the files (store.go:155-180, 369-395).
THEOREM TablesStayMaps == Spec => []LoginsAndSessionsDistinct
<1>1. TablesDistinct => LoginsAndSessionsDistinct
  BY DEF TablesDistinct, DistinctLogins, DistinctSessions, LoginsAndSessionsDistinct
<1> QED
  BY <1>1, TablesInvariance, PTL

-----------------------------------------------------------------------------
(* What consoles were told *)

KnownIn(rows, p) ==
  \E u \in rows : u.profileid = p.profileid /\ u.userid = p.userid /\ u.gsbrcd = p.gsbrcd

(* The identities told, and those that logins under way are about to tell. *)
Pending == {conns[k].user : k \in {j \in Conns : conns[j].at = "session"}}

ToldInv ==
  /\ disk.users = users
  /\ \A p \in told \cup Pending : KnownIn(users, p)

\* No change of the users but a restart forgets an identity.
LEMMA ChangeKeepsKnown ==
  ASSUME TypeInv, UsersChange, disk.users = users, NEW p, KnownIn(users, p)
  PROVE  KnownIn(users', p)
<1>1. ASSUME NEW u \in users, NEW name,
             users' = (users \ {u}) \cup {[u EXCEPT !.name = name]}
      PROVE  KnownIn(users', p)
  <2> DEFINE w == [u EXCEPT !.name = name]
  <2>1. w.profileid = u.profileid /\ w.userid = u.userid /\ w.gsbrcd = u.gsbrcd
    BY DEF TypeInv, TypeOK, User
  <2>2. users' = (users \ {u}) \cup {w}
    BY <1>1
  <2> HIDE DEF w
  <2> QED
    BY <2>1, <2>2 DEF KnownIn
<1> QED
  BY <1>1 DEF UsersChange, KnownIn

\* A step tells, or prepares to tell, only what was pending or what it finds
\* among the users or adds to them (store.go:290-358,
\* profile/server.go:122-145).
LEMMA ToldStep ==
  ASSUME TypeInv, [Next]_vars, NEW p \in told' \cup Pending'
  PROVE  p \in told \cup Pending \/ KnownIn(users', p)
<1>0. StoreTypes /\ ConsoleTypes
  BY TypeParts
<1>1. ASSUME told' = told, NEW k \in Conns, NEW conn, conn.at # "session",
             conns' = [conns EXCEPT ![k] = conn]
      PROVE  p \in told \cup Pending
  BY <1>0, <1>1 DEF Pending, ConsoleTypes
<1>2. ASSUME NEW k \in Conns, NEW ok \in BOOLEAN, FindProfile(k, ok)
      PROVE  p \in told \cup Pending \/ KnownIn(users', p)
  <2> DEFINE user(pid) == [profileid |-> pid, userid |-> conns[k].userid,
                           gsbrcd |-> conns[k].gsbrcd]
             enter(pid) == conns' = [conns EXCEPT ![k] =
                             [at |-> "session", console |-> conns[k].console,
                              sesskey |-> conns[k].sesskey, profileid |-> conns[k].profileid,
                              user |-> user(pid)]]
  <2>1. ASSUME NEW pid, enter(pid), KnownIn(users', user(pid))
        PROVE  p \in told \cup Pending \/ KnownIn(users', p)
    <3>1. told' = told
      BY <1>2 DEF FindProfile
    <3>2. \A j \in Conns : conns'[j].at = "session" =>
            conns'[j].user = user(pid) \/ conns'[j] = conns[j]
      BY <1>0, <2>1 DEF ConsoleTypes
    <3> HIDE DEF user, enter
    <3> QED
      BY <3>1, <3>2, <2>1 DEF Pending
  <2>2. CASE conns' = [conns EXCEPT ![k] = Back(k)]
    BY <1>1, <1>2, <2>2 DEF FindProfile, Back
  <2>3. CASE CreateUser(conns[k].userid, conns[k].gsbrcd, ok) /\ enter(NextProfileID)
    <3>0. NewUser(conns[k].userid, conns[k].gsbrcd) \in users'
      BY <2>3 DEF CreateUser
    <3>1. KnownIn(users', user(NextProfileID))
      BY <3>0 DEF KnownIn, NewUser
    <3> HIDE DEF user, enter
    <3> QED
      BY <2>1, <2>3, <3>1
  <2>4. ASSUME NEW u \in Identified(conns[k].userid, conns[k].gsbrcd),
               enter(u.profileid), UNCHANGED storeVars
        PROVE  p \in told \cup Pending \/ KnownIn(users', p)
    <3>1. KnownIn(users', user(u.profileid))
      BY <2>4 DEF Identified, KnownIn, storeVars
    <3> HIDE DEF user, enter
    <3> QED
      BY <2>1, <2>4, <3>1
  <2> QED
    BY <1>2, <2>2, <2>3, <2>4 DEF FindProfile
<1>3. ASSUME NEW k \in Conns, NEW key \in Keys, NEW ok \in BOOLEAN, OpenSession(k, key, ok)
      PROVE  p \in told \cup Pending
  <2>1. conns[k].user \in Pending
    BY <1>3 DEF OpenSession, Pending
  <2>2. told' \subseteq told \cup Pending
    BY <1>3, <2>1 DEF OpenSession
  <2>3. \A j \in Conns : conns'[j].at = "session" => conns'[j] = conns[j]
    BY <1>0, <1>3 DEF OpenSession, Back, ConsoleTypes
  <2>4. Pending' \subseteq Pending
    BY <2>3 DEF Pending
  <2> QED
    BY <2>2, <2>4
<1>4. ASSUME NEW k \in Conns, CheckToken(k)
      PROVE  p \in told \cup Pending
  BY <1>1, <1>4 DEF CheckToken
<1>5. ASSUME NEW k \in Conns, NEW c \in Consoles, Connect(k, c)
      PROVE  p \in told \cup Pending
  BY <1>1, <1>5 DEF Connect, Open
<1>6. ASSUME NEW k \in Conns, NEW ok \in BOOLEAN, Leaves(k, ok)
      PROVE  p \in told \cup Pending
  BY <1>1, <1>6 DEF Leaves, Closed
<1>9. ASSUME NEW k \in Conns, NEW key \in Keys, Status(k, key)
      PROVE  p \in told \cup Pending
  <2> DEFINE conn == [conns[k] EXCEPT !.sesskey = key]
  <2>1. conn.at # "session"
    BY <1>9 DEF Status
  <2>2. conns' = [conns EXCEPT ![k] = conn] /\ told' = told
    BY <1>9 DEF Status
  <2> HIDE DEF conn
  <2> QED
    BY <1>1, <2>1, <2>2
<1>7. CASE Restart
  BY <1>7 DEF Restart, Pending, Closed
<1>8. CASE UNCHANGED <<conns, told>>
  BY <1>8 DEF Pending
<1> QED
  BY <1>0, <1>2, <1>3, <1>4, <1>5, <1>6, <1>7, <1>8, <1>9, EndsLeave
  DEF Next, vars, AcctCreate, AcLogin, AcSvcLoc, UpdatePro

\* If users.json can always be written, a profile id that a console was told
\* belongs to that console's identity for good, over every restart
\* (store.go:449-481).  A failed write breaks it: the run
\* accounts_failed_write.
THEOREM ToldProfilesStay ==
  ASSUME "users" \notin Failing
  PROVE  Spec => []ToldProfileStays
<1>1. Init => ToldInv
  BY DEF Init, InitStore, ToldInv, Pending, Closed
<1>2. TypeInv /\ ToldInv /\ [Next]_vars => ToldInv'
  <2> SUFFICES ASSUME TypeInv, ToldInv, [Next]_vars
               PROVE  ToldInv'
    OBVIOUS
  <2>1. UsersChange /\ disk'.users = users'
    BY UsersStep DEF FileFollows, ToldInv
  <2>2. ASSUME NEW p \in told' \cup Pending'
        PROVE  KnownIn(users', p)
    BY <2>1, <2>2, ToldStep, ChangeKeepsKnown DEF ToldInv
  <2> QED
    BY <2>1, <2>2 DEF ToldInv, KnownIn
<1>3. ToldInv => ToldProfileStays
  BY DEF ToldInv, ToldProfileStays, KnownIn
<1> QED
  BY <1>1, <1>2, <1>3, TypeInvariance, PTL DEF Spec

-----------------------------------------------------------------------------
(* Who ends a session *)

(* The key that a connection remembers went over it. *)
KeysHeard ==
  \A k \in Conns :
    conns[k] # Closed /\ conns[k].sesskey # None => conns[k].sesskey \in heard[k]

\* A step of one connection keeps this if its own key was heard.
LEMMA OneConnectionHears ==
  ASSUME ConsoleTypes, KeysHeard, NEW k \in Conns, NEW conn, NEW keys,
         conns' = [conns EXCEPT ![k] = conn], heard' = [heard EXCEPT ![k] = keys],
         conn = Closed \/ conn.sesskey = None \/ conn.sesskey \in keys
  PROVE  KeysHeard'
<1>1. \A j \in Conns : j # k => conns'[j] = conns[j] /\ heard'[j] = heard[j]
  BY DEF ConsoleTypes
<1>2. conns'[k] = conn /\ heard'[k] = keys
  BY DEF ConsoleTypes
<1> QED
  BY <1>1, <1>2 DEF KeysHeard

\* So does one that leaves it the key it had.
LEMMA KeptKeyHeard ==
  ASSUME ConsoleTypes, KeysHeard, NEW k \in Conns, NEW conn,
         conns' = [conns EXCEPT ![k] = conn], UNCHANGED heard,
         conns[k] # Closed, conn.sesskey = conns[k].sesskey
  PROVE  KeysHeard'
<1>1. heard' = [heard EXCEPT ![k] = heard[k]]
  BY DEF ConsoleTypes
<1> QED
  BY <1>1, OneConnectionHears DEF KeysHeard

\* A connection has the key that it was sent when it logged in, or that its
\* client sent in a status (profile/server.go:122-145, 219-224).
LEMMA StepKeepsHeard ==
  ASSUME TypeInv, KeysHeard, [Next]_vars
  PROVE  KeysHeard'
<1>0. ConsoleTypes
  BY TypeParts
<1>1. ASSUME NEW k \in Conns, NEW c \in Consoles, Connect(k, c)
      PROVE  KeysHeard'
  BY <1>0, <1>1, OneConnectionHears DEF Connect, Open
<1>2. ASSUME NEW k \in Conns, CheckToken(k)
      PROVE  KeysHeard'
  <2>1. conns[k] # Closed /\ UNCHANGED heard
    BY <1>2 DEF CheckToken, Closed
  <2>2. PICK conn : /\ conns' = [conns EXCEPT ![k] = conn]
                    /\ conn.sesskey = conns[k].sesskey
    BY <1>2 DEF CheckToken
  <2> QED
    BY <1>0, <2>1, <2>2, KeptKeyHeard
<1>3. ASSUME NEW k \in Conns, NEW ok \in BOOLEAN, FindProfile(k, ok)
      PROVE  KeysHeard'
  <2>1. conns[k] # Closed /\ UNCHANGED heard
    BY <1>3 DEF FindProfile, Closed
  <2>2. PICK conn : /\ conns' = [conns EXCEPT ![k] = conn]
                    /\ conn.sesskey = conns[k].sesskey
    <3>1. Back(k).sesskey = conns[k].sesskey
      BY DEF Back
    <3> QED
      BY <1>3, <3>1 DEF FindProfile
  <2> QED
    BY <1>0, <2>1, <2>2, KeptKeyHeard
<1>4. ASSUME NEW k \in Conns, NEW key \in Keys, NEW ok \in BOOLEAN, OpenSession(k, key, ok)
      PROVE  KeysHeard'
  <2> DEFINE conn == IF ok THEN [Back(k) EXCEPT !.sesskey = key,
                                                !.profileid = conns[k].user.profileid]
                     ELSE Back(k)
             keys == heard[k] \cup ((IF ok THEN {key} ELSE {}) \ {None})
  <2>1. conns' = [conns EXCEPT ![k] = conn] /\ heard' = [heard EXCEPT ![k] = keys]
    BY <1>4 DEF OpenSession, Hears
  <2>2. conn.sesskey = IF ok THEN key ELSE conns[k].sesskey
    BY DEF Back
  <2>3. conns[k] # Closed /\ key # None
    BY <1>4, AccountsAssumption DEF OpenSession, Closed
  <2>4. conn.sesskey = None \/ conn.sesskey \in keys
    BY <2>2, <2>3 DEF KeysHeard
  <2> HIDE DEF conn, keys
  <2> QED
    BY <1>0, <2>1, <2>4, OneConnectionHears
<1>5. ASSUME NEW k \in Conns, NEW key \in Keys, Status(k, key)
      PROVE  KeysHeard'
  <2> DEFINE conn == [conns[k] EXCEPT !.sesskey = key]
             keys == heard[k] \cup ({key} \ {None})
  <2>1. conns' = [conns EXCEPT ![k] = conn] /\ heard' = [heard EXCEPT ![k] = keys]
    BY <1>5 DEF Status, Hears
  <2>2. conn.sesskey = key
    <3>1. conns[k] \in Conn /\ conns[k] # Closed
      BY <1>0, <1>5 DEF Status, ConsoleTypes, Closed
    <3> QED
      BY <3>1 DEF Conn
  <2>3. key \in keys
    BY AccountsAssumption
  <2> HIDE DEF conn, keys
  <2> QED
    BY <1>0, <2>1, <2>2, <2>3, OneConnectionHears
<1>6. ASSUME NEW k \in Conns, NEW key, NEW ok \in BOOLEAN, Logout(k, key, ok)
      PROVE  KeysHeard'
  BY <1>0, <1>6, OneConnectionHears DEF Logout, Hears
<1>7. ASSUME NEW k \in Conns, NEW ok \in BOOLEAN, Cleanup(k, ok)
      PROVE  KeysHeard'
  <2>1. heard' = [heard EXCEPT ![k] = heard[k]]
    BY <1>0, <1>7 DEF Cleanup, ConsoleTypes
  <2> QED
    BY <1>0, <1>7, <2>1, OneConnectionHears DEF Cleanup
<1>8. CASE Restart
  BY <1>8 DEF Restart, KeysHeard
<1>9. CASE UNCHANGED <<conns, heard>>
  BY <1>9 DEF KeysHeard
<1> QED
  BY <1>1, <1>2, <1>3, <1>4, <1>5, <1>6, <1>7, <1>8, <1>9
  DEF Next, vars, AcctCreate, AcLogin, AcSvcLoc, UpdatePro

\* A connection that ends takes with it no session but one whose key went
\* over it (profile/server.go:235-255, store.go:401-419).
LEMMA EndTakesHeardKey ==
  ASSUME TypeInv, KeysHeard, NEW j \in Conns, NEW ok \in BOOLEAN,
         Cleanup(j, ok) \/ \E key \in Keys \cup {None} : Logout(j, key, ok),
         NEW mine \in sessions, mine \notin sessions'
  PROVE  conns[j] # Closed /\ conns'[j] = Closed /\ mine.session \in heard'[j]
<1>0. ConsoleTypes
  BY TypeParts
<1>1. conns[j] # Closed /\ conns'[j] = Closed
  <2>1. conns[j].at = "open" /\ conns' = [conns EXCEPT ![j] = Closed]
    BY DEF Cleanup, Logout
  <2>2. conns[j] # Closed
    BY <2>1 DEF Closed
  <2> QED
    BY <1>0, <2>1, <2>2 DEF ConsoleTypes
<1>2. ASSUME NEW key, EndSession(key, ok)
      PROVE  key # None /\ mine.session = key
  BY <1>2 DEF EndSession, DeleteSession, storeVars
<1>3. CASE Cleanup(j, ok)
  <2>1. conns[j].sesskey # None /\ mine.session = conns[j].sesskey /\ heard' = heard
    BY <1>2, <1>3 DEF Cleanup
  <2> QED
    BY <1>1, <2>1 DEF KeysHeard
<1>4. ASSUME NEW key \in Keys \cup {None}, Logout(j, key, ok)
      PROVE  mine.session \in heard'[j]
  <2>1. heard'[j] = heard[j] \cup ({key} \ {None})
    BY <1>0, <1>4 DEF Logout, Hears, ConsoleTypes
  <2>2. EndSession(IF key # None THEN key ELSE conns[j].sesskey, ok)
    BY <1>4 DEF Logout
  <2>3. CASE key # None
    BY <1>2, <2>1, <2>2, <2>3
  <2>4. CASE key = None
    BY <1>1, <1>2, <2>1, <2>2, <2>4 DEF KeysHeard
  <2> QED
    BY <2>3, <2>4
<1> QED
  BY <1>1, <1>3, <1>4

\* A login ends the session that its profile had, and leaves a new one
\* (store.go:369-395).
LEMMA LoginReplaces ==
  ASSUME TypeInv, TablesDistinct, NEW k \in Conns, NEW key \in Keys, NEW ok \in BOOLEAN,
         OpenSession(k, key, ok), NEW mine \in sessions, mine \notin sessions'
  PROVE  \E s \in sessions' \ sessions : s.profileid = mine.profileid
<1> DEFINE profileid == conns[k].user.profileid
           s == Session(key, profileid)
<1>1. sessions' = {t \in sessions : t.profileid # profileid} \cup {s}
  BY DEF OpenSession, CreateSession
<1>2. mine.profileid = profileid /\ mine # s
  BY <1>1
<1>3. s.profileid = profileid
  BY DEF Session
<1>4. s \notin sessions
  BY <1>2, <1>3 DEF TablesDistinct, DistinctSessions
<1> HIDE DEF s
<1> QED
  BY <1>1, <1>2, <1>3, <1>4

\* A connection loses its session only to a newer login of its profile, to
\* the end of another connection over which its key went, or to a restart
\* (store.go:361-419, profile/server.go:122-145, 219-255).
THEOREM SessionsEndForCause == Spec => SessionEndsForCause
<1> DEFINE mine(k) == Session(conns[k].sesskey, conns[k].profileid)
           Replaced(k) == \E s \in sessions' \ sessions : s.profileid = conns[k].profileid
           Ended(k) == \E j \in Conns \ {k} : /\ conns[j] # Closed /\ conns'[j] = Closed
                                              /\ mine(k).session \in heard'[j]
           Property == \A k \in Conns :
             conns[k] # Closed /\ conns'[k] # Closed =>
               (mine(k) \in sessions /\ mine(k) \notin sessions' =>
                  \/ \E s \in sessions' \ sessions : s.profileid = conns[k].profileid
                  \/ \E j \in Conns \ {k} : /\ conns[j] # Closed /\ conns'[j] = Closed
                                           /\ mine(k).session \in heard'[j])
           Inv == TypeInv /\ TablesDistinct /\ KeysHeard
<1>1. Init => KeysHeard
  BY DEF Init, KeysHeard
<1>2. TypeInv /\ KeysHeard /\ [Next]_vars => KeysHeard'
  BY StepKeepsHeard
<1>3. Inv /\ [Next]_vars => [Property]_vars
  <2> SUFFICES ASSUME Inv, Next, NEW k \in Conns,
                      conns[k] # Closed, conns'[k] # Closed,
                      mine(k) \in sessions, mine(k) \notin sessions'
               PROVE  Replaced(k) \/ Ended(k)
    OBVIOUS
  <2>0. mine(k).profileid = conns[k].profileid
    BY DEF Session
  <2> HIDE DEF mine
  <2>1. ASSUME NEW j \in Conns, NEW key \in Keys, NEW ok \in BOOLEAN, OpenSession(j, key, ok)
        PROVE  Replaced(k)
    BY <2>0, <2>1, LoginReplaces
  <2>2. ASSUME NEW j \in Conns, NEW ok \in BOOLEAN,
               Cleanup(j, ok) \/ \E key \in Keys \cup {None} : Logout(j, key, ok)
        PROVE  Ended(k)
    BY <2>2, EndTakesHeardKey
  <2>3. CASE Restart
    BY <2>3 DEF Restart
  <2>4. CASE UNCHANGED sessions
    BY <2>4
  <2> HIDE DEF Replaced, Ended
  <2> QED
    BY <2>1, <2>2, <2>3, <2>4
    DEF Next, AcctCreate, AcLogin, AcSvcLoc, StoreNasLogin, Connect, CheckToken,
        FindProfile, CreateUser, UpdatePro, UpdateProfile, Status, storeVars
<1>4. Spec => [][Property]_vars
  BY <1>1, <1>2, <1>3, TypeInvariance, TablesInvariance, PTL DEF Spec
<1> QED
  BY <1>4 DEF SessionEndsForCause
=============================================================================
