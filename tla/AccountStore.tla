---------------------------- MODULE AccountStore ----------------------------
(***************************************************************************)
(* internal/database/json/store.go: users, GameSpy sessions and NAS logins *)
(* in memory, each mirrored to a JSON file.  Every method runs under s.mu. *)
(* A method changes memory first and then rewrites the file it concerns    *)
(* (a temporary file, then a rename, so the file is the old one or the new *)
(* one); when that fails it returns the error and leaves memory changed.   *)
(* A restart reads the files back.                                         *)
(*                                                                         *)
(* `ok' is whether the write succeeds.  Rows are sets: nothing depends on  *)
(* their order.  A user row keeps what identifies it and its names.        *)
(***************************************************************************)
EXTENDS Naturals, FiniteSets

CONSTANTS
  Userids,      \* the numbers NAS hands out
  Gsbrcds,      \* the licences of the consoles
  Names,        \* firstname and lastname, as one
  None,         \* no licence, no token, no key
  Tokens,       \* NAS authtokens
  Keys,         \* session keys
  Starts,       \* the contents of users.json the server may start with
  Failing       \* the files whose writing may fail.  All of them is the code.

VARIABLES users, sessions, nasLogins,   \* s.users, s.sessions, s.nasLogins
          disk                          \* the three files

tables == <<users, sessions, nasLogins>>
storeVars == <<users, sessions, nasLogins, disk>>

User == [profileid : Nat \ {0}, userid : Userids, gsbrcd : Gsbrcds,
         name : Names \cup {""}, enabled : BOOLEAN]
SessionRow == [session : Keys, profileid : Nat \ {0}]
NasLogin == [userid : Userids, token : Tokens, gsbrcd : Gsbrcds \cup {None}]

(* users.json is the server's own or was edited by hand to disable a row. *)
ASSUME StoreAssumption ==
  /\ Userids \subseteq Nat \ {0}
  /\ Failing \subseteq {"users", "sessions", "nasLogins"}
  /\ \A rows \in Starts :
       /\ rows \subseteq User /\ IsFiniteSet(rows)
       /\ \A u, v \in rows :
            \/ u.profileid = v.profileid
            \/ u.userid = v.userid /\ u.gsbrcd = v.gsbrcd
            => u = v

(* Open and Initialize *)
InitStore ==
  /\ users \in Starts
  /\ sessions = {}
  /\ nasLogins = {}
  /\ disk = [users |-> users, sessions |-> {}, nasLogins |-> {}]

Largest(S) == CHOOSE m \in S : \A n \in S : n <= m

(* persistFileLocked *)
Persist(file, rows, ok) ==
  /\ ok \/ file \in Failing
  /\ disk' = IF ok THEN [disk EXCEPT ![file] = rows] ELSE disk

(* The process stops, perhaps between two methods, and starts again. *)
Reload ==
  /\ users' = disk.users
  /\ sessions' = disk.sessions
  /\ nasLogins' = disk.nasLogins
  /\ UNCHANGED disk

-----------------------------------------------------------------------------
(* GetNextAvailableUserid: nothing is reserved. *)
NextAvailableUserid ==
  IF users = {} THEN 2 ELSE Largest({u.userid : u \in users}) + 1

\* Faulty: a user's earlier logins stay.
StoreNasLoginAgain(userid, token, gsbrcd, ok) ==
  LET rows == nasLogins \cup {[userid |-> userid, token |-> token, gsbrcd |-> gsbrcd]}
  IN  /\ \A l \in nasLogins : l.token = token => l.userid = userid
      /\ nasLogins' = rows
      /\ Persist("nasLogins", rows, ok)
      /\ UNCHANGED <<users, sessions>>

(* StoreNasLogin: one row per userid.  Another user's token is refused     *)
(* with nothing changed.                                                   *)
StoreNasLogin(userid, token, gsbrcd, ok) ==
  LET rows == {l \in nasLogins : l.userid # userid}
                \cup {[userid |-> userid, token |-> token, gsbrcd |-> gsbrcd]}
  IN  /\ \A l \in nasLogins : l.token = token => l.userid = userid
      /\ nasLogins' = rows
      /\ Persist("nasLogins", rows, ok)
      /\ UNCHANGED <<users, sessions>>

(* GetNasLogin *)
LoginsWith(token) == {l \in nasLogins : l.token = token}

-----------------------------------------------------------------------------
(* LoginProfileFromAuth, once its arguments are checked *)

Identified(userid, gsbrcd) == {u \in users : u.userid = userid /\ u.gsbrcd = gsbrcd}

\* Faulty: rows are counted.
NextProfileIDByCount == Cardinality(users) + 1

NextProfileID == Largest({u.profileid : u \in users} \cup {0}) + 1

NewUser(userid, gsbrcd) ==
  [profileid |-> NextProfileID, userid |-> userid, gsbrcd |-> gsbrcd,
   name |-> "", enabled |-> TRUE]

\* Faulty: the new row is kept in memory only.
CreateUserInMemory(userid, gsbrcd, ok) ==
  /\ Identified(userid, gsbrcd) = {}
  /\ users' = users \cup {NewUser(userid, gsbrcd)}
  /\ UNCHANGED <<sessions, nasLogins, disk>>

CreateUser(userid, gsbrcd, ok) ==
  LET rows == users \cup {NewUser(userid, gsbrcd)}
  IN  /\ Identified(userid, gsbrcd) = {}
      /\ users' = rows
      /\ Persist("users", rows, ok)
      /\ UNCHANGED <<sessions, nasLogins>>

(* UpdateProfile: the first row with the id. *)
UpdateProfile(profileid, name, ok) ==
  /\ \E u \in users :
       LET rows == (users \ {u}) \cup {[u EXCEPT !.name = name]}
       IN  /\ u.profileid = profileid
           /\ users' = rows
           /\ Persist("users", rows, ok)
  /\ UNCHANGED <<sessions, nasLogins>>

-----------------------------------------------------------------------------
Session(key, profileid) == [session |-> key, profileid |-> profileid]

\* Faulty: the profile's earlier session stays.
CreateSessionBeside(profileid, key, ok) ==
  LET rows == sessions \cup {Session(key, profileid)}
  IN  /\ \E u \in users : u.profileid = profileid
      /\ \A s \in sessions : s.session # key
      /\ sessions' = rows
      /\ Persist("sessions", rows, ok)
      /\ UNCHANGED <<users, nasLogins>>

(* CreateSession: the key is one that no other profile's session has. *)
CreateSession(profileid, key, ok) ==
  LET others == {s \in sessions : s.profileid # profileid}
      rows == others \cup {Session(key, profileid)}
  IN  /\ \E u \in users : u.profileid = profileid
      /\ \A s \in others : s.session # key
      /\ sessions' = rows
      /\ Persist("sessions", rows, ok)
      /\ UNCHANGED <<users, nasLogins>>

(* DeleteSession: the file is rewritten in any case. *)
DeleteSession(key, ok) ==
  LET rows == {s \in sessions : s.session # key}
  IN  /\ sessions' = rows
      /\ Persist("sessions", rows, ok)
      /\ UNCHANGED <<users, nasLogins>>
=============================================================================
