------------------------------ MODULE Accounts ------------------------------
(***************************************************************************)
(* From a console to a GameSpy session: internal/nas/server.go hands out   *)
(* userids and authtokens over HTTP; internal/gamespy/profile/server.go    *)
(* takes a token on a TCP connection and opens a session.  Every request   *)
(* and every connection has a goroutine of its own, and a login calls the  *)
(* store three times, with its lock dropped in between: three steps here.  *)
(*                                                                         *)
(* Requests the server refuses without a change of state (a banned IP, an  *)
(* unknown token, a wrong response) are not steps.  Nor are getprofile,    *)
(* ka, the profanity filter and GPSP, which only read.  A session key in a *)
(* status or logout is whatever the client put there, and a new key may be *)
(* one that some connection still remembers.                               *)
(***************************************************************************)
EXTENDS AccountStore

CONSTANTS
  Consoles, License,   \* console |-> its gsbrcd
  Banned,              \* consoles whose address is banned
  Conns                \* TCP connections to the profile server

ASSUME AccountsAssumption ==
  /\ License \in [Consoles -> Gsbrcds]
  /\ None \notin Gsbrcds \cup Tokens \cup Keys
  /\ Banned \subseteq Consoles

VARIABLES
  wii,     \* console |-> [userid, token]: what it was last given
  conns,   \* connection |-> where its goroutine is, with its fields
  told,    \* history: the identities of the profile ids sent to consoles
  heard    \* history: connection |-> the session keys that went over it

vars == <<storeVars, wii, conns, told, heard>>

Closed == [at |-> "closed"]
Open(c) == [at |-> "open", console |-> c, sesskey |-> None, profileid |-> 0]

(* A console that has a row was here before and knows its userid. *)
Remembered(c) ==
  LET mine == {u.userid : u \in {v \in users : v.gsbrcd = License[c]}}
  IN  IF mine = {} THEN 0 ELSE Largest(mine)

Init ==
  /\ InitStore
  /\ wii = [c \in Consoles |-> [userid |-> Remembered(c), token |-> None]]
  /\ conns = [k \in Conns |-> Closed]
  /\ told = {}
  /\ heard = [k \in Conns |-> {}]

-----------------------------------------------------------------------------
(* NAS *)

(* A random token of 96 letters and digits meets no other. *)
FreshToken(t) ==
  /\ \A l \in nasLogins \cup disk.nasLogins : l.token # t
  /\ \A c \in Consoles : wii[c].token # t

(* acctCreate, on a console without a userid *)
AcctCreate(c) ==
  /\ c \notin Banned
  /\ wii[c].userid = 0
  /\ NextAvailableUserid \in Userids
  /\ wii' = [wii EXCEPT ![c].userid = NextAvailableUserid]
  /\ UNCHANGED <<storeVars, conns, told, heard>>

(* acLogin.  generateAuthtoken tries sixteen tokens, until one is stored;  *)
(* the console learns of it only then.                                     *)
AcLogin(c, t, ok) ==
  /\ c \notin Banned
  /\ wii[c].userid # 0
  /\ FreshToken(t)
  /\ StoreNasLogin(wii[c].userid, t, License[c], ok)
  /\ wii' = IF ok THEN [wii EXCEPT ![c].token = t] ELSE wii
  /\ UNCHANGED <<conns, told, heard>>

(* acSvcLoc stores a token too, with the fields of its own request: no     *)
(* gsbrcd among them.  Bans are not looked up.                             *)
AcSvcLoc(c, t, ok) ==
  /\ wii[c].userid # 0
  /\ FreshToken(t)
  /\ StoreNasLogin(wii[c].userid, t, None, ok)
  /\ UNCHANGED <<wii, conns, told, heard>>

-----------------------------------------------------------------------------
(* The profile server *)

Connect(k, c) ==
  /\ conns[k] = Closed
  /\ conns' = [conns EXCEPT ![k] = Open(c)]
  /\ heard' = [heard EXCEPT ![k] = {}]
  /\ UNCHANGED <<storeVars, wii, told>>

(* performLogin: what is stored under the token ... *)
CheckToken(k) ==
  /\ conns[k].at = "open"
  /\ \E l \in LoginsWith(wii[conns[k].console].token) :
       /\ l.gsbrcd # None
       /\ conns' = [conns EXCEPT ![k] = [at |-> "user", console |-> @.console,
                      sesskey |-> @.sesskey, profileid |-> @.profileid,
                      userid |-> l.userid, gsbrcd |-> l.gsbrcd]]
  /\ UNCHANGED <<storeVars, wii, told, heard>>

Back(k) == [at |-> "open", console |-> conns[k].console,
            sesskey |-> conns[k].sesskey, profileid |-> conns[k].profileid]

(* ... names an identity, whose profile is found or made ... *)
FindProfile(k, ok) ==
  /\ conns[k].at = "user"
  /\ LET userid == conns[k].userid
         gsbrcd == conns[k].gsbrcd
         enter(pid) == conns' = [conns EXCEPT ![k] =
                         [at |-> "session", console |-> @.console, sesskey |-> @.sesskey,
                          profileid |-> @.profileid,
                          user |-> [profileid |-> pid, userid |-> userid, gsbrcd |-> gsbrcd]]]
         fail == conns' = [conns EXCEPT ![k] = Back(k)]
     IN  \/ /\ CreateUser(userid, gsbrcd, ok)
            /\ IF ok THEN enter(NextProfileID) ELSE fail
         \/ \E u \in Identified(userid, gsbrcd) :
              /\ IF u.enabled THEN enter(u.profileid) ELSE fail
              /\ UNCHANGED storeVars
  /\ UNCHANGED <<wii, told, heard>>

Hears(k, keys) == heard' = [heard EXCEPT ![k] = @ \cup (keys \ {None})]

\* Faulty: the profile is kept before the error is looked at.
OpenSessionEarly(k, key, ok) ==
  /\ conns[k].at = "session"
  /\ LET user == conns[k].user
     IN  /\ CreateSession(user.profileid, key, ok)
         /\ conns' = [conns EXCEPT ![k] =
                        IF ok THEN [Back(k) EXCEPT !.sesskey = key,
                                                   !.profileid = user.profileid]
                        ELSE [Back(k) EXCEPT !.profileid = user.profileid]]
         /\ told' = IF ok THEN told \cup {user} ELSE told
  /\ Hears(k, IF ok THEN {key} ELSE {})
  /\ UNCHANGED wii

(* ... and a session is opened.  The console is told if it was stored.     *)
OpenSession(k, key, ok) ==
  /\ conns[k].at = "session"
  /\ LET user == conns[k].user
     IN  /\ CreateSession(user.profileid, key, ok)
         /\ conns' = [conns EXCEPT ![k] =
                        IF ok THEN [Back(k) EXCEPT !.sesskey = key,
                                                   !.profileid = user.profileid]
                        ELSE Back(k)]
         /\ told' = IF ok THEN told \cup {user} ELSE told
  /\ Hears(k, IF ok THEN {key} ELSE {})
  /\ UNCHANGED wii

(* performUpdatePro *)
UpdatePro(k, name, ok) ==
  /\ conns[k].at = "open"
  /\ conns[k].profileid # 0
  /\ UpdateProfile(conns[k].profileid, name, ok)
  /\ UNCHANGED <<wii, conns, told, heard>>

(* performStatus: the connection takes over the key in the packet.         *)
Status(k, key) ==
  /\ conns[k].at = "open"
  /\ conns' = [conns EXCEPT ![k].sesskey = key]
  /\ Hears(k, {key})
  /\ UNCHANGED <<storeVars, wii, told>>

EndSession(key, ok) ==
  IF key # None THEN DeleteSession(key, ok) ELSE UNCHANGED storeVars

(* performLogout ends the session whose key is in the packet, or its own   *)
(* if there is none, and closes the connection.                            *)
Logout(k, key, ok) ==
  /\ conns[k].at = "open"
  /\ EndSession(IF key # None THEN key ELSE conns[k].sesskey, ok)
  /\ conns' = [conns EXCEPT ![k] = Closed]
  /\ Hears(k, {key})
  /\ UNCHANGED <<wii, told>>

\* Faulty: the sessions of the profile go, not the connection's own.
CleanupProfile(k, ok) ==
  /\ conns[k].at = "open"
  /\ LET rows == {s \in sessions : s.profileid # conns[k].profileid}
     IN  sessions' = rows /\ Persist("sessions", rows, ok)
  /\ conns' = [conns EXCEPT ![k] = Closed]
  /\ UNCHANGED <<users, nasLogins, wii, told, heard>>

(* cleanup, when a connection is lost: between two commands, and at once   *)
(* or much later.                                                          *)
Cleanup(k, ok) ==
  /\ conns[k].at = "open"
  /\ EndSession(conns[k].sesskey, ok)
  /\ conns' = [conns EXCEPT ![k] = Closed]
  /\ UNCHANGED <<wii, told, heard>>

Restart ==
  /\ Reload
  /\ conns' = [k \in Conns |-> Closed]
  /\ heard' = [k \in Conns |-> {}]
  /\ UNCHANGED <<wii, told>>

Next ==
  \/ \E c \in Consoles :
       \/ AcctCreate(c)
       \/ \E t \in Tokens, ok \in BOOLEAN : AcLogin(c, t, ok) \/ AcSvcLoc(c, t, ok)
       \/ \E k \in Conns : Connect(k, c)
  \/ \E k \in Conns :
       \/ CheckToken(k)
       \/ \E key \in Keys : Status(k, key)
       \/ \E ok \in BOOLEAN :
            \/ FindProfile(k, ok)
            \/ \E key \in Keys : OpenSession(k, key, ok)
            \/ \E name \in Names : UpdatePro(k, name, ok)
            \/ \E key \in Keys \cup {None} : Logout(k, key, ok)
            \/ Cleanup(k, ok)
  \/ Restart

Spec == Init /\ [][Next]_vars

-----------------------------------------------------------------------------
Conn ==
  {Closed}
  \cup [at : {"open"}, console : Consoles, sesskey : Keys \cup {None}, profileid : Nat]
  \cup [at : {"user"}, console : Consoles, sesskey : Keys \cup {None}, profileid : Nat,
        userid : Userids, gsbrcd : Gsbrcds]
  \cup [at : {"session"}, console : Consoles, sesskey : Keys \cup {None}, profileid : Nat,
        user : [profileid : Nat \ {0}, userid : Userids, gsbrcd : Gsbrcds]]

(* Types; a connection that has a profile has a key. *)
TypeOK ==
  /\ users \subseteq User
  /\ sessions \subseteq SessionRow
  /\ nasLogins \subseteq NasLogin
  /\ disk \in [users : SUBSET User, sessions : SUBSET SessionRow,
               nasLogins : SUBSET NasLogin]
  /\ wii \in [Consoles -> [userid : Userids \cup {0}, token : Tokens \cup {None}]]
  /\ conns \in [Conns -> Conn]
  /\ \A k \in Conns : conns[k] # Closed /\ conns[k].profileid # 0 =>
                         conns[k].sesskey # None
  /\ heard \in [Conns -> SUBSET Keys]

(* No two users share a profile id, and no identity has two users, however *)
(* the logins of several connections and the restarts interleave, in       *)
(* memory and in the file (store.go:421-447, 449-481).                     *)
UsersDistinct ==
  \A rows \in {users, disk.users} : \A u, v \in rows :
    \/ u.profileid = v.profileid
    \/ u.userid = v.userid /\ u.gsbrcd = v.gsbrcd
    => u = v

(* The tables stay maps: a userid has one token, a token one userid, a     *)
(* profile one session and a key one session, in memory and in the files   *)
(* (store.go:155-180, 369-395).                                            *)
LoginsAndSessionsDistinct ==
  /\ \A rows \in {nasLogins, disk.nasLogins} : \A l, m \in rows :
       l.userid = m.userid \/ l.token = m.token => l = m
  /\ \A rows \in {sessions, disk.sessions} : \A s, t \in rows :
       s.profileid = t.profileid \/ s.session = t.session => s = t

(* docs/architecture/database.md:3-4: accounts survive restarts.  A        *)
(* profile id that a console was told belongs to that console's identity   *)
(* for good: friends keep it in their lists (store.go:449-481).            *)
ToldProfileStays ==
  \A p \in told : \E u \in users :
    u.profileid = p.profileid /\ u.userid = p.userid /\ u.gsbrcd = p.gsbrcd

(* A logged-in connection loses its session only to a newer login of the   *)
(* same profile, to the end of another connection over which that very key *)
(* went, or with the whole server.  So another profile's login ends none,  *)
(* nor does the late clean-up of a connection that the console gave up     *)
(* before it logged in again, unless the new key repeats an earlier one    *)
(* (store.go:361-419, profile/server.go:122-145, 219-255).                 *)
SessionEndsForCause ==
  [][\A k \in Conns :
       conns[k] # Closed /\ conns'[k] # Closed =>
         LET mine == Session(conns[k].sesskey, conns[k].profileid)
         IN  mine \in sessions /\ mine \notin sessions' =>
               \/ \E s \in sessions' \ sessions : s.profileid = conns[k].profileid
               \/ \E j \in Conns \ {k} : /\ conns[j] # Closed /\ conns'[j] = Closed
                                        /\ mine.session \in heard'[j]]_vars
=============================================================================
