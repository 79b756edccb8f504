# Specifications of mkw-dwc

mkw-dwc is one Go process that stands in for the online services of Mario Kart
Wii: it creates accounts, logs consoles in, lists rooms and introduces players
to each other. These TLA+ modules model the parts of it that keep state. TLC
checks them on small instances, and TLAPS proves most of the safety properties
for every value of the constants: of the room registry and its lookups, room
advertisement, the browser's joins, NATNEG, accounts, supervision, and the loops
that put commands, packets and requests together again.

Run a model with `tlc -config MCBackend.cfg MCBackend` and the proofs with
`tlapm BackendProofs.tla`, and so on for the other modules named `...Proofs`.

## The system

| Part | State | Operations | Who calls it |
|---|---|---|---|
| backend (`internal/backend/backend.go`) | rooms per game in a slice, an index session -> position, NATNEG entries per cookie; one RWMutex | UpdateServerList, DeleteServer, FindServers, FindServerByAddress, FindServerByLocalAddress, Add/Get/DeleteNatnegServer | QR, browser, NATNEG |
| qr (UDP) | sessions under `s.mu`, a write queue of 64 | one packet goroutine (heartbeat, answer, keepalive), one goroutine that prunes idle sessions every 15 s | hosts; the browser for joins |
| natneg (UDP) | sessions and their client slots under `s.mu`, a write queue of 256 | one packet goroutine (INIT, CONNECT_ACK, stateless replies), one clean-up goroutine every minute, one writer | players |
| browser (TCP) | per connection: console type, pointer to the player's own room, input buffer | list query, join relay | players |
| store (`internal/database/json`) | users, sessions, NAS logins, bans; a mutex; a JSON file each | create and look up rows, each followed by the rewriting of a file | NAS, profile, QR (names only) |
| nas (HTTP) | none of its own | acctcreate, login, svcloc | consoles |
| profile (TCP) | per connection: challenge, session key, profile id, frame buffer | login, updatepro, status, logout, clean-up | consoles |
| gpsp (TCP) | per connection: frame buffer | otherslist | consoles |
| texttcp, textwire (under profile and gpsp) | per connection: the bytes of a command that is not complete | Serve, ReadLoop, Consume | profile, gpsp |
| httpfix (under nas and proxy) | per connection: pending bytes, the rest of the body, TLS or not | Read | net/http |
| proxy (HTTP) | none | forwards requests for NAS hosts | consoles |
| app (`internal/app/run.go`) | a goroutine per service, one context, a channel of results | starts all, stops all when one fails or a signal comes | main |
| crypto, filters, addresses, config, logging | nothing that outlives a call | | |

A console asks NAS for a userid and a token, logs in at the profile server with
it, and then plays: a host registers a room with QR, a guest finds it with the
browser, the join is relayed through QR, and both ends meet through NATNEG,
which asks the backend where they are.

What is hard here is nearly always a lock that is dropped between two halves of
one operation. QR registers a room and tells its session of it in two stretches,
while pruning runs beside it. The two address lookups return a pointer into a
slice and release the lock. NATNEG expires sessions under one lock and clears
their entries under another. A login calls the store three times. UDP loses,
repeats and delays everything. The store changes memory before its file, and
either the write or the whole process may fail. TCP cuts messages anywhere, and
the loops that put them together again decide what is a command, a header or a
body. When one service fails the others sit in blocking reads and must be got
out of them without that counting as a failure. `PROJECT.json` lists each of
these hazards at its line with the properties that watch it.

## Modules

| Module | Models | Correspondence |
|---|---|---|
| RoomRegistry | what the backend promises about rooms | a map from game and session to heartbeat fields, with Upsert and Remove |
| Backend | `backend.go` | serverList, sessionIdx and natnegList under the code's names; one action per locked method, since each holds the one lock throughout. Positions count from 1 |
| RoomLookup | the two address searches | pure operators over one game's list; FindServerByLocalAddress is the code's pass, LocalAnswer what it amounts to. Ports are numbers; NoPort, of a room that declares none, equals no query, as the code compares texts |
| Addresses | `ip.go`, the addresses of `binwire.go` | the signed 32-bit number of an address for a Wii and for a DS, the forms an address may be meant in, MatchPublicIP; MCBackend takes SameIP from it |
| BackendProofs, QRProofs, BrowserProofs, NatnegProofs, AccountsProofs | | the theorems about the module each is named after |
| ProcessProofs | | the theorems about Supervisor, Connection and HTTPFix in one Process |
| LookupProofs | | the theorems about Addresses and RoomLookup |
| RoomSlicesProofs | | what the operations of RoomSlices leave in arrays, slices and behind pointers: lemmas of BrowserProofs and NatnegProofs |
| RoomSlices | the same slices as Go lays them out | a backing array, a length and a capacity per game; append in place or into a new array, removal by shifting, the garbage collector for arrays no pointer reaches |
| Browser | `browser/server.go`, the join | a connection's goroutine with its locals, from the message to QR's write queue: find, check, own room, both NATNEG entries, relay; NATNEG clears entries at any point. It reads rooms through RoomSlices pointers; `own` is `ownServer` |
| QR | `qr/server.go` | `handler` is the packet goroutine with its locals, `keeper` the pruning one; one step per stretch between two drops of `s.mu`, with the clock of the pruning read before its lock. An empty gamename (Blank) is told from an absent one (None), as in the code. The registry it calls is RoomRegistry |
| Natneg | `natneg/server.go` | `handler` walks through the lookups of both ends of a pair and then sends; `cleaner` is the clean-up goroutine between its two locks; `mail` holds CONNECTs in the queue or under way. It reads rooms through RoomSlices pointers |
| Filter | `backend/filter.go` | the parser's functions as operators from a position to a tree and the next position; the grammar it is compared with; evaluation with errors as empty sets |
| AccountStore | `database/json/store.go` | the three tables and `disk`, the three files; every method is memory first, file second |
| Accounts | NAS, profile server and consoles around AccountStore | a connection's login is the three steps CheckToken, FindProfile and OpenSession; Status, Logout and Cleanup work on whatever session key the packets carried |
| Supervisor | `app/run.go` and the Serve of each service | `at[s]` is where a service's goroutine is, `closed[s]` whether its second goroutine has closed the socket, `errCh`, `firstErr` as in the code, `cancelled` the context; one action per blocking call that returns. Three kinds of Serve: HTTP (nas, proxy), TCP (profile, gpsp, browser), UDP (qr, natneg) |
| Framing | `textwire.go`, `texttcp`'s FrameBuffer, the browser's dispatch | pure operators from the bytes that wait and a chunk to the messages and what is left; each loop of the code is a function from the turn to what has been found |
| Connection | the read loops of profile, gpsp and browser | `conn` is one connSession; Read takes any number of the bytes on their way |
| HTTPFix | `httpfix/host.go` | `web` is one conn with the code's fields, `held` the local `raw` of loadHeaders, `out` what net/http has read |
| Process | the process around one connection | Supervisor with a Connection or an HTTPFix: accepted while its service's socket is open, it outlives the service but not the process |

Operators whose comment begins with "Faulty" are versions of the operator below
them with a plausible mistake. Nothing uses them; putting one in the place of
the right one makes a named property fail (`mutants` in PROJECT.json), which
shows that the property can tell.

## Abstractions

Heartbeat fields, tokens and keys are model values. QR keeps of a heartbeat
which game it names, whether it says goodbye, and one datum. An answer to a
challenge is right or wrong for a game's key. MatchPublicIP is the constant
relation SameIP over a few addresses; the run `backend` takes it from Addresses,
with a Wii, a DS on the mirror image of its address, and a Wii elsewhere, the
others take equality. A GameSpy text is a sequence of backslashes and pieces of words, with
the marker in four pieces so that a cut can fall inside it; an HTTP head is a
sequence of lines, a body of bytes. What a command does is in Accounts and
Browser, not in Connection. In Natneg a client index and an
address are one player. A user row keeps profile id, userid, licence, enabled
and one name. A filter is a sequence of tokens. Encodings and log lines are left out.

A record read through a pointer
after the lock was dropped is read in one step, although such a read may be torn
by a write of QR: torn reads are outside the models. Where PointersGoodUntilRemoval
applies the only such write is another heartbeat of the same host, whose address
and session are the same. In Browser a pointer carries two history fields, the
host it was last known to name and whether a removal has reached its cell since;
the properties use them and no step depends on them.

Two more modules carry history that no step depends on. In Natneg `moved` holds
the players whose room a removal reached between the lookup and the reading of its
record, and a CONNECT says whether its peer was among them. In Accounts `heard`
holds the session keys that went over each connection, in a login or in a packet.
In Browser `lost` holds which end of a join in progress NATNEG has cleared since it
was entered.

A few constants bound the runs or choose an environment; the value that is the
code is named beside each declaration.

- `Returns` (Browser): a host may be listed again after its room was removed. The
  runs have it off to stay small; a vacated cell is then overwritten by a third
  host.
- `MaxNatnegEntries` (Backend, Browser): the cap of 8 entries, made small so that
  it is reached.
- `MaxMail` (Natneg): INITs come while at most so many CONNECTs are under way.
- `Lossy`, `Prompt` (Natneg): CONNECTs may be lost; waiting players both reach the
  server within a tick.
- `Failing` (AccountStore): the files whose writing may fail.
- `Rooms`, `MaxHeader`, `MaxBuffer` (HTTPFix, Framing): sizes of the buffers
  net/http reads into, and limits of 64 KiB and 4088 bytes made small.

## Runs

| Run | What it asks | Bounds |
|---|---|---|
| `backend` | Is the index the inverse of the slice, is order kept, are the NATNEG caps kept, does it all implement RoomRegistry, does the local lookup answer as its precedence says, is a room found by the address of either kind of console? | 2 games, 3 sessions, heartbeats of 3 hosts that declare the local port 0, another one or none, queries for port 0 and another, 1 cookie with 3 endpoints and a cap of 2. A removal from the middle of three rooms and a cookie at its cap both occur |
| `browser` | Do slices over arrays behave as sequences, what can a stale pointer read, does a join go to the host it names, and are both its ends among the entries when it is relayed? | 3 hosts of one game, so capacities 1, 2 and 4 occur, 1 of another, 1 connection that joins one address and owns one of the rooms, 5 arrays, a queue of 1, a cap of 2 entries under a cookie, which is reached; a host that left does not return |
| `browser_stale` | Is what a join enters for the player the player's own room? Violated | the same |
| `qr` | In which ways can a listed room be left without a session that removes it, does a rejected host stay delisted, is nothing registered by a session that was never challenged, do the rooms of silent hosts go as long as their session knows of them? | 1 session, two games with a key, the empty name or none; timeout of 2 ticks; prunes and ticks at any point of a packet's handling |
| `qr_orphan` | Do rooms of silent hosts go in any case, as the documentation says? Violated | 1 session, one game and the empty name, 2 ticks |
| `qr_unverified` | Is a listed room's session verified, as the documentation says? Violated | the same |
| `natneg` | Does every CONNECT name a port of its peer? | host and guest, both with rooms that come and go and with entries, losses, expiry after 2 ticks; an INIT comes with at most 1 CONNECT under way |
| `natneg_live` | Do players that keep trying meet, and are entries cleared? | host with a room that leaves at any time, guest; prompt players, no final loss |
| `filter` | Does the parser accept exactly its grammar, each filter in one reading, and can a missing field list a room? | every sequence of up to 3 tokens, and up to 8 tokens those with operands and operators in turn and closable parentheses; 2 fields, a quoted literal, `!=`, `<`, `LIKE`; rooms with any of 3 texts in a field, or none |
| `accounts` | Do the tables stay maps, do told profile ids stay, who can end a session? | 2 consoles, 2 connections, 2 tokens, 2 keys that may be any session's and may repeat, userids 2 to 5; the file starts empty, or with another licence's row and a disabled row of a console; writes of sessions.json may fail |
| `accounts_failed_write` | ToldProfileStays when users.json may fail: violated | the same |
| `services` | Do all services stop when one fails or a signal comes, and does the exit tell why? Are commands and requests what the client sent, however the network cut them, and when does the server hang up? | one HTTP, one TCP and one UDP service; one connection: to the TCP service as profile, gpsp or browser, with up to four messages, cut at every place, a logout that is not the last, a packet too short, one too long, and backlogs on both sides of a limit of 8 bytes; or to the HTTP service, with a body that looks like a Host line before another request, a header block over a limit of 5 lines, or TLS |

Small bounds are enough where the code treats all values alike: sessions, games,
tokens and keys are compared for equality only, and the interesting cases need
two actors and one bystander. The bounds on userids, tokens and keys stop
allocation when they are used up. QR's runs have one host: a session's steps read
and write only that session and its rooms, one packet is handled at a time, and
the theorems about QR are for any number of hosts. The services of one kind differ only in their
handlers, and a connection shares nothing with another one in these loops. Ages and idle times stop at the timeout, since
the code only asks whether they have reached it.

### What the violations show

- `qr_orphan`: keepaliveCheck takes the time first and the lock second. A session
  refreshed in between has a negative idle time and is pruned, although its host
  was just heard. If the packet that refreshed it is between the registration and
  the stamp when that happens, its room stays and no one removes it.
  RoomsKeepOwners names this as one of three ways (the others are an empty name,
  which keepaliveCheck never removes, and a host that changes its game) and shows
  that there is no fourth.
- `qr_unverified`: a second heartbeat lists a room with no challenge answered.
- `browser_stale`: a connection learns of its own room, a room registered earlier
  leaves, and from then on the connection's pointer names another host's room or
  a vacated cell: the next join enters that host for the player. This needs no
  race, only a room that left since. NATNEG has the same in a race: a removal
  between a lookup and the reading of its record puts the next host's port behind
  the peer's IP, which ConnectPointsAtPeer excuses (`moved`).
- `accounts_failed_write`: a new user's row stays in memory when its write fails;
  the next login hands its id out without writing, and a restart forgets it.

## Fairness

QR: both goroutines are scheduled (weak fairness of the handler's steps, of
reading the clock and of pruning, which the ticker repeats), and time passes.
A tick waits for the pruning goroutine to have its lock, which it has again and
again but not continuously, hence strong fairness; time passes while a packet is
handled. No packet is ever assumed to arrive.

Natneg: the same for its goroutines. For `PeersConnect` a player that has no
CONNECT repeats its INIT and gets it through again and again (the game does; an
assumption about the console), and a CONNECT sent to a player again and again
arrives at last. `EntriesCleared` needs only time and the clean-up goroutine.

Services: a goroutine whose blocking call can return goes on: Listen succeeds or
fails, the second goroutines close their sockets once the context is cancelled,
Serve returns, the main goroutine receives. No socket has to fail, no signal has
to come, and clients may be silent for ever.

## Proofs

BackendProofs proves, for any games, sessions, heartbeats, cookies and any cap of at
least one:

| Theorem | Property |
|---|---|
| TypeCorrect | TypeOK |
| IndexIsExact | IndexExact |
| NatnegIsBounded | NatnegBounded |
| RegistrationOrder | KeepsRegistrationOrder |
| Refinement | ImplementsRoomRegistry |

The only assumption is that the cap is a positive number. The invariant is
RoomInv /\ NatnegInv. RoomInv says per game that the index is exact (both
directions, and no session twice) and that the maps have one domain without
empty lists. IndexExact alone does not give a removal what it needs together
with types: that the shifted positions are those the loop writes. So the lemma
RemoveExact shows that the rebuilt index is the old one with every position
behind the hole one lower. From that follow exactness again, the kept order (an
index entry is a place in the slice, DeleteKeepsOrder), and the refinement
(what a reader finds in the slice is what the index points at, SeenByIndex).
NatnegInv adds the types of the entries to the bound and needs no more.

QRProofs is about any gamenames, sessions and heartbeats and any timeout, in every
interleaving, and assumes only that None is no heartbeat and no gamename:

| Theorem | Property |
|---|---|
| TypeCorrect | TypeOK |
| ChallengedFirst | NoUnchallengedRegistration |
| WrongAnswerDelists | RejectedIsDelisted |
| RoomsOwned | RoomsKeepOwners |

The last two rest on OwnerInv. RejectedIsDelisted is not inductive alone: a packet
that was let through before the rejection could still register a room, so
RejectedWaits says that no packet of a rejected session is past ReadHeartbeat,
since one goroutine handles packets one at a time, and that its challenge is open
again. Farewell says which game a goodbye in progress is for. RoomsOwned then goes
through the steps that can take an owner away: a prune removes every room its
session owns, but not one that is registered and not yet stamped, which is where
the exception comes from.

LookupProofs begins with arithmetic over all addresses: ListedAddress (an address
written for one console and read for the other comes out reversed, and otherwise
unchanged), MatchesMirrorOnly and NumbersMatchEitherWay (a room matches its
address and its mirror image, and nothing else). The rest is about the searches,
for lists of any length: FirstAtAddress (the answer is the first room at the
address, and none only if there is none), FoundAtItsEndpoint (both together: what
FoundAtOwnEndpoint checks for three hosts) and LocalLookup (the one pass of
FindServerByLocalAddress gives LocalAnswer, what LocalLookupPrecedence checks).
LocalLookup is an induction over the list, carried by what the pass knows after k
rooms (Answered): done, it has the first room with the local port; before that,
no room had it, and the pass has the last room with the local IP or a fallback.
As the provers cannot use an induction rule that takes a predicate, the
induction is the fact that a set of numbers has a smallest element, applied to
the set of counterexamples; the same way PassIsDefined shows that the recursive
function exists.

ProcessProofs is about any finite set of services of any kinds, any protocols, limits
and buffers, and whatever clients send that is well formed (see below):

| Theorem | Property |
|---|---|
| TypeCorrect | TypeOK |
| ExitIsTrue | ExitTellsAll |
| ReasonsAreTrue | ReturnsHaveReasons |
| NoSendWaits | the channel has room for the result of every service that has not sent it |
| WhatWasSentIsHandled | HandlesWhatWasSent |
| HangsUpForCause | DroppedForCause |
| OnlyHostsAreDropped | OnlyHostsDropped |
| HostIsOnce | HostOnce |

The main goroutine only counts, so the invariant counts with it: the results
taken and those in the channel are as many as the services that returned
(ResultsCounted). Having taken as many as there are services then means that each
returned and the channel is empty; and since a failure is kept or still in the
channel (FailureKept), none was missed.

For a TCP connection the invariant ConnInv says that some number k of messages is
handled and that the buffer holds exactly the bytes behind the k-th (Handled); an
open connection has no whole message waiting there, and a dropped one has its
reason. It has to speak of the bytes because the properties do not: which
messages are due depends on where the stream was cut only through the buffer. A
read then comes down to what one call of Consume or dispatch finds in it.

- ParseGameSpyMessage looks for the first `\final\` and then reads pairs up to one,
  two searches that have to agree. NotInWord and NotBeforeEnd show that in a
  command the marker occurs at the end only, in whatever way words are made of
  letters, provided no word contains a backslash and none is `final`. CommandRead
  follows the inner loop pair by pair, and CommandsRead the outer one: of any
  bytes that begin where a message does, it takes the whole commands and leaves
  the rest.
- dispatch needs no such care, but may close the connection in the middle
  (PacketsRead), and does so before it looks if too much has come.
- Of the commands found, the profile server handles those up to a logout
  (LogoutCut), so that the bytes taken may be ahead of those handled; this is why
  Handled keeps the two apart.

The hypotheses are ConnectionAssumption (games send whole commands of words, and
packets as long as they say unless that is a length no packet can have) and
ProcessAssumption (something is known to be sent to every TCP service).

For an HTTP connection WebInv has three parts. Stage: nothing happens before
checkTLS, and a block is held back only while nothing else is pending. Kept: what
was read, what is pending and what is held are, Host lines aside, the bytes taken.
InPlace: as long as no block was handed on raw, some number k of requests is
through, up to what is left of the last body, and what is held is the front of the
next head. OnlyHostsDropped follows from Kept and HostOnce from InPlace;
HTTPFixAssumption says that heads end at their blank line and bodies are as long as
their heads say, or that the stream is TLS.

All of these are about sequences built step by step, for which the library has only
induction rules that take a predicate. BoundedInduction has a set of numbers in
its place; StepsExist, StepsAgree and TurnsReach use it to show that a recursive
function exists, and equals any other that follows the same steps. So every loop
and every concatenation is replaced by an explicit description of its turns.

RoomSlicesProofs and BrowserProofs are about any games, hosts, connections,
addresses and arrays, and any capacity of the queue and of a cookie; they assume that Nil is no
pointer and Blank no room.

| Theorem | Property |
|---|---|
| TypeCorrect | TypeOK |
| PointersNeverDangle | PointersReadRooms |
| PointersStayGood | PointersGoodUntilRemoval |
| Refinement | ImplementsBackend |
| JoinsReachTheirTarget | JoinReachesTarget |
| JoinsEnterBothEnds | JoinEntersBothEnds |

None of these is inductive. What makes them so is a description of memory (Layout:
slices lie within arrays of their own, none shares one, and hold rooms only) with
the exactness of the index from BackendProofs, and for each kept pointer (Sound)
that it lies within its array, reads a room that was registered, and, until a
removal reaches its cell, the room it was met at, in a cell that is not behind
the end of its slice. The last part is the one that is easily missed: a
pointer's cell can fall behind the end without its content changing, and then the
next append in place writes another host there. So `moved` has to become true at
the removal, not at the append. An append that outgrows its array takes one that
no pointer reaches, which is why what is pinned must not be collected. The lemmas
ReplaceKeeps, AppendKeeps, DeleteKeeps and CollectKeeps say what each operation
does to cells that somebody reaches, and that to the lists it does what Backend
says; the refinement follows step by step. For the joins the invariant also says
what a connection knows of its pointers at each position (Informed): from the
search that the host's IP is the one asked for, from the check its port too.
For JoinsEnterBothEnds it also says, from the step that enters an end up to the
relay, that this end is still among the entries or has one of the three excuses
(JoinsEntered): other joins only add entries, a full cookie stays full until it is
cleared, and a clear is noted in `lost`.

NatnegProofs is about any cookies, players, addresses, arrays and timeout, with
players behind one router too, and needs no assumption:

| Theorem | Property |
|---|---|
| TypeCorrect | TypeOK |
| ConnectsPointAtPeers | ConnectPointsAtPeer |

The invariant follows the packet goroutine's locals: each port kept so far is one
of its client's address or was read from a record that had moved (PortsKnown); a
pointer that is still to be read has moved or reads a room at the address of the
client that is asked for, in a cell that is not behind the end of its slice
(RecordRight, over the same Layout); and before CONNECTs are sent every port is
known.

AccountsProofs is about any consoles, connections, tokens, keys, userids and
licences, and any set of files whose writing may fail:

| Theorem | Property | Holds |
|---|---|---|
| TypeCorrect | TypeOK | always |
| UsersStayDistinct | UsersDistinct | always |
| TablesStayMaps | LoginsAndSessionsDistinct | always |
| ToldProfilesStay | ToldProfileStays | if users.json can be written |
| SessionsEndForCause | SessionEndsForCause | always |

The first needs that the user tables stay finite: the next profile id is one more
than the largest, which exists then (FiniteSetHasLargest). For ToldProfileStays
the invariant speaks of the identities that logins under way are about to tell as
well, and says that file and memory agree on them. The hypothesis is the run's
own, and `accounts_failed_write` refutes ToldProfileStays without it.
SessionEndsForCause needs that the key a connection remembers went over it
(KeysHeard), and that a session is found by its key alone and by its profile alone
(TablesDistinct).

## Only model-checked

- All liveness: RoomsExpire, PeersConnect, EntriesCleared, StopTogether. It is out
  of the prover's reach.
- ParserFollowsGrammar and MissingFieldsOnlyHide: Filter is recursive, as the code's
  parser is, and returns to an earlier token when a parenthesis does not close.
- LocalLookupPrecedence and FoundAtOwnEndpoint as the runs have them, about
  MCBackend's three hosts; LookupProofs has the general forms.

## Not modelled

- The browser's list replies (but for the filter and the addresses) and joins to
  port 0; gpsp's searches; getprofile, ka, GetProfile, GetIngameSN and
  bans: they read, or answer from the packet.
- Text between two GameSpy commands, and values that read `final`: after such
  text Consume drops up to the next marker, and what it drops then depends on how
  the stream was cut. Chunked HTTP bodies, whose chunks httpfix would take for
  headers. Neither is sent by the games.
- What net/http does with a request whose header block was handed on raw: the
  model ends where it reads.
- Requests in progress when the process stops: Serve returns when Shutdown begins,
  so nothing waits for them, and the model ends a connection at any point.
- The lengths of the write queues for QR's and NATNEG's own replies, the rewriting
  of heartbeat fields for Dolphin, and the window at start-up in which the browser
  may relay before QR has made its queue.
- Crypto (RC4, EncTypeX, MD5: byte arithmetic beyond what TLC can enumerate),
  config and logging (read once, written only), scripts and the test harness.
- Natneg takes the entries the browser makes as given (SeedEntry) instead of
  composing with Browser: the product is out of TLC's reach.

## Plan

1. Natneg over rooms that come and go: RoomSlices implements Backend there too.
2. The late answer that QR registers with an old heartbeat (a hazard without a
   property in PROJECT.json).
