---------------------------- MODULE LookupProofs ----------------------------
(* What the number forms of an address keep and what they confuse, for all *)
(* addresses, and what the searches of a game's rooms find, for all lists. *)
EXTENDS Addresses, RoomLookup, FiniteSetTheorems, SequenceTheorems,
        WellFoundedInduction, TLAPS

-----------------------------------------------------------------------------
(* Addresses *)


\* Writing the signed number back gives the bytes it was made of (ip.go:12-24,
\* binwire.go:46-54).
LEMMA BigEndianOfSigned ==
  ASSUME NEW ip \in IPv4
  PROVE  BigEndian(Signed(ip)) = ip
<1>1. PICK a \in Byte, b \in Byte, c \in Byte, d \in Byte : ip = <<a, b, c, d>>
  BY DEF IPv4
<1> DEFINE top == IF a > 127 THEN a - 256 ELSE a
           n == top * 16777216 + b * 65536 + c * 256 + d
<1>2. top \in Int /\ a \in Int /\ b \in Int /\ c \in Int /\ d \in Int /\ top % 256 = a
  BY SMT DEF Byte
<1>3. Signed(ip) = n
  BY <1>1, SMT DEF Signed
<1> HIDE DEF top
<1>4. n % 256 = d
  BY <1>2, SMT DEF Byte
<1>5. (n \div 256) % 256 = c
  <2>1. n \div 256 = top * 65536 + b * 256 + c
    BY <1>2, SMT DEF Byte
  <2> QED
    BY <2>1, <1>2, SMT DEF Byte
<1>6. (n \div 65536) % 256 = b
  <2>1. n \div 65536 = top * 256 + b
    BY <1>2, SMT DEF Byte
  <2> QED
    BY <2>1, <1>2, SMT DEF Byte
<1>7. (n \div 16777216) % 256 = a
  <2>1. n \div 16777216 = top
    BY <1>2, SMT DEF Byte
  <2> QED
    BY <2>1, <1>2
<1> HIDE DEF n
<1> QED
  BY <1>1, <1>3, <1>4, <1>5, <1>6, <1>7 DEF BigEndian

\* What is written is a number (ip.go:12-24).
LEMMA SignedIsInt ==
  ASSUME NEW ip \in IPv4
  PROVE  Signed(ip) \in Int
<1>1. PICK a \in Byte, b \in Byte, c \in Byte, d \in Byte : ip = <<a, b, c, d>>
  BY DEF IPv4
<1>2. Signed(ip) = (IF a > 127 THEN a - 256 ELSE a) * 16777216 + b * 65536 + c * 256 + d
  BY <1>1, SMT DEF Signed
<1> QED
  BY <1>2, SMT DEF Byte

\* Reversing the bytes twice restores them (ip.go:20-22).
LEMMA MirrorTwice ==
  ASSUME NEW ip \in IPv4
  PROVE  Mirror(ip) \in IPv4 /\ Mirror(Mirror(ip)) = ip
BY DEF Mirror, IPv4

\* The list entry shows the address the room was registered from, if it is
\* written for the console that registered it, and its mirror image if not
\* (ip.go:12-24, binwire.go:46-54, qr/server.go:322, browser/server.go:384).
THEOREM ListedAddress ==
  ASSUME NEW ip \in IPv4, NEW c \in Consoles, NEW d \in Consoles
  PROVE  GetBytesFromIntSigned(SignedIP(ip, c), d) = IF c = d THEN ip ELSE Mirror(ip)
<1>1. BigEndian(SignedIP(ip, c)) = IF c = 1 THEN ip ELSE Mirror(ip)
  BY BigEndianOfSigned, MirrorTwice DEF SignedIP
<1> QED
  BY <1>1, MirrorTwice DEF GetBytesFromIntSigned, Consoles

\* A room registered by either console matches the address it came from and
\* the mirror image of it, and no other (ip.go:28-45).
THEOREM MatchesMirrorOnly ==
  ASSUME NEW ip \in IPv4, NEW c \in Consoles, NEW asked \in IPv4
  PROVE  MatchPublicIP(Number(SignedIP(ip, c)), Dotted(asked))
           <=> asked \in {ip, Mirror(ip)}
<1>1. BigEndian(SignedIP(ip, c)) = IF c = 1 THEN ip ELSE Mirror(ip)
  BY BigEndianOfSigned, MirrorTwice DEF SignedIP
<1>2. Forms(Number(SignedIP(ip, c))) = {ip, Mirror(ip)}
  BY <1>1, MirrorTwice DEF Forms, Number
<1>3. Forms(Dotted(asked)) = {asked}
  BY DEF Forms, Dotted
<1>4. Number(SignedIP(ip, c)) # Dotted(asked)
  BY DEF Number, Dotted
<1> QED
  BY <1>2, <1>3, <1>4 DEF MatchPublicIP

\* Asked by number, as the server browser does for both consoles in turn,
\* the console no longer matters (ip.go:28-45, browser/server.go:511-531).
THEOREM NumbersMatchEitherWay ==
  ASSUME NEW ip \in IPv4, NEW c \in Consoles, NEW asked \in IPv4, NEW d \in Consoles
  PROVE  MatchPublicIP(Number(SignedIP(ip, c)), Number(SignedIP(asked, d)))
           <=> asked \in {ip, Mirror(ip)}
<1>1. \A x \in IPv4, e \in Consoles : Forms(Number(SignedIP(x, e))) = {x, Mirror(x)}
  <2> TAKE x \in IPv4, e \in Consoles
  <2>1. BigEndian(SignedIP(x, e)) = IF e = 1 THEN x ELSE Mirror(x)
    BY BigEndianOfSigned, MirrorTwice DEF SignedIP
  <2> QED
    BY <2>1, MirrorTwice DEF Forms, Number
<1> DEFINE m == Number(SignedIP(ip, c))
           n == Number(SignedIP(asked, d))
<1>2. Forms(m) = {ip, Mirror(ip)} /\ Forms(n) = {asked, Mirror(asked)}
  BY <1>1
<1> HIDE DEF m, n
<1>3. MatchPublicIP(m, n) <=> {ip, Mirror(ip)} \cap {asked, Mirror(asked)} # {}
  BY <1>2 DEF MatchPublicIP
<1> QED
  BY <1>3, MirrorTwice DEF m, n

-----------------------------------------------------------------------------
(* Least numbers *)

Below == {pair \in Nat \X Nat : pair[1] < pair[2]}

\* There is no endless descent among positions.
LEMMA BelowIsWellFounded == IsWellFoundedOn(Below, Nat)
<1>1. OpToRel(<, Nat) = Below
  BY Zenon DEF OpToRel, Below
<1> QED
  BY <1>1, NatLessThanWellFounded, Zenon

\* The first of the positions that a search accepts (backend.go:197-229).
LEMMA MinProperties ==
  ASSUME NEW S \in SUBSET Nat, S # {}
  PROVE  Min(S) \in S /\ \A n \in S : Min(S) <= n
<1>1. PICK n \in S : \A m \in S : <<m, n>> \notin Below
  BY BelowIsWellFounded, WFMin, Zenon
<1>2. ASSUME NEW m \in S
      PROVE  n <= m
  <2>1. m \in Nat /\ n \in Nat
    OBVIOUS
  <2>2. <<m, n>> \in Below <=> m < n
    BY <2>1 DEF Below
  <2> QED
    BY <1>1, <2>1, <2>2
<1> QED
  BY <1>2 DEF Min

-----------------------------------------------------------------------------
(* Searches *)

\* The search by public address answers with the first room that has the
\* address, and with nothing only if no room has it (backend.go:197-229).
THEOREM FirstAtAddress ==
  ASSUME NEW S, NEW list \in Seq(S), NEW ip, NEW port
  PROVE  LET at(i) == Matches(list[i], ip)
                      /\ (port = 0 \/ list[i].fields.publicport = port)
             found == FindServerByAddress(list, ip, port)
         IN  \/ /\ found \in 1..Len(list) /\ at(found)
                /\ \A i \in 1..Len(list) : at(i) => found <= i
             \/ found = NotFound /\ \A i \in 1..Len(list) : ~at(i)
<1> DEFINE at(i) == Matches(list[i], ip) /\ (port = 0 \/ list[i].fields.publicport = port)
           hits == {i \in DOMAIN list : at(i)}
<1>1. DOMAIN list = 1..Len(list) /\ Len(list) \in Nat
  BY LenProperties
<1>2. FindServerByAddress(list, ip, port) = IF hits = {} THEN NotFound ELSE Min(hits)
  BY DEF FindServerByAddress
<1>3. hits \in SUBSET Nat
  BY <1>1
<1>4. \A i : i \in hits <=> i \in 1..Len(list) /\ at(i)
  BY <1>1
<1> HIDE DEF at, hits
<1>5. CASE hits = {}
  BY <1>2, <1>4, <1>5 DEF at
<1>6. CASE hits # {}
  <2>1. Min(hits) \in hits /\ \A n \in hits : Min(hits) <= n
    BY <1>3, <1>6, MinProperties
  <2> QED
    BY <2>1, <1>2, <1>4, <1>6 DEF at
<1> QED
  BY <1>5, <1>6

-----------------------------------------------------------------------------
(* The pass of the search by local endpoint.  The library's induction over *)
(* the naturals needs an operator; here the least position of a set of bad *)
(* ones does its work.                                                     *)

(* What one more room makes of the pass f. *)
Turn(list, ip, local, f, i) ==
  IF i = 0 THEN [best |-> NotFound, done |-> FALSE]
  ELSE Visit(list[i], ip, local, i, f[i - 1])

\* The recursive function is defined for every list.
LEMMA PassIsDefined ==
  ASSUME NEW list, NEW ip, NEW local, Len(list) \in Nat
  PROVE  Pass(list, ip, local) =
           [i \in 0..Len(list) |-> Turn(list, ip, local, Pass(list, ip, local), i)]
<1> DEFINE IsPass(f, k) == f = [i \in 0..k |-> Turn(list, ip, local, f, i)]
           Bad == {k \in Nat : ~\E f : IsPass(f, k)}
<1>1. Bad = {}
  <2> SUFFICES ASSUME Bad # {} PROVE FALSE
    OBVIOUS
  <2>1. Bad \in SUBSET Nat
    OBVIOUS
  <2> DEFINE k == Min(Bad)
  <2>2. k \in Bad /\ \A n \in Bad : k <= n
    <3> HIDE DEF Bad
    <3> QED
      BY <2>1, MinProperties
  <2> HIDE DEF k
  <2>3. k # 0
    <3>1. IsPass([i \in 0..0 |-> [best |-> NotFound, done |-> FALSE]], 0)
      BY DEF Turn
    <3> QED
      BY <3>1, <2>2
  <2>4. k \in Nat /\ k - 1 \in Nat /\ k - 1 \notin Bad
    BY <2>2, <2>3
  <2>5. PICK f : IsPass(f, k - 1)
    BY <2>4
  <2> DEFINE new == [i \in 0..k |-> Turn(list, ip, local, f, i)]
  <2>6. \A i \in 0..(k - 1) : f[i] = Turn(list, ip, local, f, i)
    BY <2>5
  <2>7. \A i \in 0..(k - 1) : new[i] = f[i]
    BY <2>4, <2>6
  <2>8. \A i \in 0..k : Turn(list, ip, local, new, i) = Turn(list, ip, local, f, i)
    <3> HIDE DEF new
    <3>1. \A i \in 0..k : i # 0 => i - 1 \in 0..(k - 1)
      BY <2>4
    <3> QED
      BY <2>7, <3>1 DEF Turn
  <2>9. IsPass(new, k)
    BY <2>8
  <2> QED
    BY <2>2, <2>9
<1>2. PICK f : IsPass(f, Len(list))
  BY <1>1
<1>3. \E g : g = [i \in 0..Len(list) |->
                    IF i = 0 THEN [best |-> NotFound, done |-> FALSE]
                    ELSE Visit(list[i], ip, local, i, g[i - 1])]
  BY <1>2, Zenon DEF Turn
<1> QED
  BY <1>3, Zenon DEF Pass, Turn

\* The pass, room by room.
LEMMA PassSteps ==
  ASSUME NEW list, NEW ip, NEW local, Len(list) \in Nat
  PROVE  /\ Pass(list, ip, local)[0] = [best |-> NotFound, done |-> FALSE]
         /\ \A i \in 1..Len(list) :
              Pass(list, ip, local)[i] =
                Visit(list[i], ip, local, i, Pass(list, ip, local)[i - 1])
<1> DEFINE f == Pass(list, ip, local)
<1>1. f = [i \in 0..Len(list) |-> Turn(list, ip, local, f, i)]
  BY PassIsDefined
<1> HIDE DEF f
<1>2. \A i \in 0..Len(list) : f[i] = Turn(list, ip, local, f, i)
  BY <1>1
<1>3. 0 \in 0..Len(list)
  OBVIOUS
<1>4. f[0] = [best |-> NotFound, done |-> FALSE]
  BY <1>2, <1>3 DEF Turn
<1>5. ASSUME NEW i \in 1..Len(list)
      PROVE  f[i] = Visit(list[i], ip, local, i, f[i - 1])
  BY <1>2 DEF Turn
<1> QED
  BY <1>4, <1>5 DEF f

(* The rooms that the pass tells apart. *)
Behind(list, ip, i) == Matches(list[i], ip)
HasPort(list, ip, local, i) == Behind(list, ip, i) /\ list[i].fields.localport = local.port
HasIP(list, ip, local, i) == Behind(list, ip, i) /\ local.ip \in list[i].fields.localips

FirstOf(i, k, P) == i \in 1..k /\ P[i] /\ \A j \in 1..k : P[j] => i <= j
LastOf(i, k, P) == i \in 1..k /\ P[i] /\ \A j \in 1..k : P[j] => j <= i
NoneOf(k, P) == \A j \in 1..k : ~P[j]

(* What the pass knows after k rooms: done, it has the first with the      *)
(* local port; before that, the last with the local IP or a fallback.      *)
Answered(acc, k, behind, ports, ips, any) ==
  \/ acc.done /\ FirstOf(acc.best, k, ports)
  \/ /\ ~acc.done /\ NoneOf(k, ports)
     /\ \/ LastOf(acc.best, k, ips)
        \/ /\ NoneOf(k, ips)
           /\ \/ any /\ FirstOf(acc.best, k, behind)
              \/ acc.best = NotFound /\ (~any \/ NoneOf(k, behind))

\* One room more keeps what the pass knows (backend.go:246-266).
LEMMA AnsweredStep ==
  ASSUME NEW acc, NEW new, NEW k \in Nat \ {0}, NEW any \in BOOLEAN,
         NEW behind, NEW ports, NEW ips,
         \A i \in 1..k : ports[i] => behind[i], \A i \in 1..k : ips[i] => behind[i],
         acc \in [best : Nat, done : BOOLEAN],
         Answered(acc, k - 1, behind, ports, ips, any),
         new = IF acc.done \/ ~behind[k] THEN acc
               ELSE IF ports[k] THEN [best |-> k, done |-> TRUE]
               ELSE IF ips[k] \/ (any /\ acc.best = NotFound) THEN [best |-> k, done |-> FALSE]
               ELSE acc
  PROVE  new \in [best : Nat, done : BOOLEAN] /\ Answered(new, k, behind, ports, ips, any)
<1>1. /\ \A i \in 1..k : i = k \/ i \in 1..(k - 1)
      /\ \A i \in 1..(k - 1) : i \in 1..k /\ i < k /\ i # NotFound
      /\ k \in 1..k /\ k # NotFound
  BY DEF NotFound
<1>2. CASE acc.done
  <2>1. new = acc /\ FirstOf(acc.best, k - 1, ports)
    BY <1>2 DEF Answered
  <2>2. FirstOf(acc.best, k, ports)
    BY <2>1, <1>1 DEF FirstOf
  <2> QED
    BY <1>2, <2>1, <2>2 DEF Answered
<1>3. CASE ~acc.done /\ ~behind[k]
  <2>1. new = acc /\ ~ports[k] /\ ~ips[k]
    BY <1>1, <1>3
  <2> QED
    BY <1>1, <1>3, <2>1 DEF Answered, FirstOf, LastOf, NoneOf
<1>4. CASE ~acc.done /\ behind[k] /\ ports[k]
  <2>1. new.best = k /\ new.done /\ new \in [best : Nat, done : BOOLEAN]
    BY <1>4
  <2>2. FirstOf(k, k, ports)
    BY <1>1, <1>4 DEF Answered, FirstOf, NoneOf
  <2> QED
    BY <2>1, <2>2 DEF Answered
<1>5. CASE ~acc.done /\ behind[k] /\ ~ports[k] /\ ips[k]
  <2>1. new.best = k /\ ~new.done /\ new \in [best : Nat, done : BOOLEAN]
    BY <1>5
  <2>2. NoneOf(k, ports) /\ LastOf(k, k, ips)
    BY <1>1, <1>5 DEF Answered, LastOf, NoneOf
  <2> QED
    BY <2>1, <2>2 DEF Answered
<1>6. CASE ~acc.done /\ behind[k] /\ ~ports[k] /\ ~ips[k]
  <2>1. NoneOf(k, ports) /\ (NoneOf(k - 1, ips) => NoneOf(k, ips))
    BY <1>1, <1>6 DEF Answered, NoneOf
  <2>2. CASE any /\ acc.best = NotFound
    <3>1. new.best = k /\ ~new.done /\ new \in [best : Nat, done : BOOLEAN]
      BY <1>6, <2>2
    <3>2. NoneOf(k - 1, ips) /\ NoneOf(k - 1, behind)
      BY <1>1, <1>6, <2>2 DEF Answered, FirstOf, LastOf
    <3>3. FirstOf(k, k, behind)
      BY <1>1, <1>6, <3>2 DEF FirstOf, NoneOf
    <3> QED
      BY <2>1, <2>2, <3>1, <3>2, <3>3 DEF Answered
  <2>3. CASE ~(any /\ acc.best = NotFound)
    <3>1. new = acc
      BY <1>6, <2>3
    <3>2. CASE LastOf(acc.best, k - 1, ips)
      <4>1. LastOf(acc.best, k, ips)
        BY <1>1, <1>6, <3>2 DEF LastOf
      <4> QED
        BY <1>6, <2>1, <3>1, <4>1 DEF Answered
    <3>3. CASE NoneOf(k - 1, ips) /\ any /\ FirstOf(acc.best, k - 1, behind)
      <4>1. FirstOf(acc.best, k, behind)
        BY <1>1, <3>3 DEF FirstOf
      <4> QED
        BY <1>6, <2>1, <3>1, <3>3, <4>1 DEF Answered
    <3>4. CASE NoneOf(k - 1, ips) /\ acc.best = NotFound /\ ~any
      BY <1>6, <2>1, <3>1, <3>4 DEF Answered
    <3> QED
      BY <1>6, <2>3, <3>2, <3>3, <3>4 DEF Answered
  <2> QED
    BY <2>2, <2>3
<1> QED
  BY <1>2, <1>3, <1>4, <1>5, <1>6

\* What the pass knows at the end (backend.go:232-268).
LEMMA PassAnswers ==
  ASSUME NEW S, NEW list \in Seq(S), NEW ip, NEW local
  PROVE  LET n == Len(list)
             best == FindServerByLocalAddress(list, ip, local)
             behind == [i \in 1..n |-> Behind(list, ip, i)]
             ports == [i \in 1..n |-> HasPort(list, ip, local, i)]
             ips == [i \in 1..n |-> HasIP(list, ip, local, i)]
         IN  \/ FirstOf(best, n, ports)
             \/ /\ NoneOf(n, ports)
                /\ \/ LastOf(best, n, ips)
                   \/ /\ NoneOf(n, ips)
                      /\ \/ local.port = 0 /\ FirstOf(best, n, behind)
                         \/ best = NotFound /\ (local.port # 0 \/ NoneOf(n, behind))
<1> DEFINE n == Len(list)
           f == Pass(list, ip, local)
           any == local.port = 0
           behind == [i \in 1..n |-> Behind(list, ip, i)]
           ports == [i \in 1..n |-> HasPort(list, ip, local, i)]
           ips == [i \in 1..n |-> HasIP(list, ip, local, i)]
           Known(k) == /\ f[k] \in [best : Nat, done : BOOLEAN]
                       /\ Answered(f[k], k, behind, ports, ips, any)
           Bad == {k \in 0..n : ~Known(k)}
<1>1. n \in Nat
  BY LenProperties
<1>2. f[0] = [best |-> NotFound, done |-> FALSE]
      /\ \A i \in 1..n : f[i] = Visit(list[i], ip, local, i, f[i - 1])
  BY <1>1, PassSteps
<1>3. \A i \in 1..n : (ports[i] => behind[i]) /\ (ips[i] => behind[i])
  BY DEF HasPort, HasIP
<1>4. any \in BOOLEAN
  OBVIOUS
<1>5. Known(0)
  BY <1>2 DEF Answered, NoneOf, NotFound
<1>6. ASSUME NEW k \in 1..n, Known(k - 1)
      PROVE  Known(k)
  <2>1. f[k] = IF f[k - 1].done \/ ~behind[k] THEN f[k - 1]
               ELSE IF ports[k] THEN [best |-> k, done |-> TRUE]
               ELSE IF ips[k] \/ (any /\ f[k - 1].best = NotFound) THEN [best |-> k, done |-> FALSE]
               ELSE f[k - 1]
    BY <1>2 DEF Visit, Behind, HasPort, HasIP
  <2>2. k \in Nat \ {0} /\ \A i \in 1..k : i \in 1..n
    BY <1>1
  <2> HIDE DEF f, any, behind, ports, ips
  <2>3. /\ \A i \in 1..k : ports[i] => behind[i]
        /\ \A i \in 1..k : ips[i] => behind[i]
    BY <1>3, <2>2
  <2> QED
    BY <1>4, <1>6, <2>1, <2>2, <2>3, AnsweredStep
<1> HIDE DEF f, any, behind, ports, ips, Known
<1>7. Bad = {}
  <2> SUFFICES ASSUME Bad # {} PROVE FALSE
    OBVIOUS
  <2>1. Bad \in SUBSET Nat
    BY <1>1
  <2> DEFINE k == Min(Bad)
  <2>2. k \in Bad /\ \A m \in Bad : k <= m
    <3> HIDE DEF Bad
    <3> QED
      BY <2>1, MinProperties
  <2> HIDE DEF k
  <2>3. k \in 1..n /\ k - 1 \in 0..n /\ k - 1 \notin Bad
    BY <1>1, <1>5, <2>2
  <2>4. Known(k - 1)
    BY <2>3
  <2> QED
    BY <1>6, <2>2, <2>3, <2>4
<1>8. Known(n)
  BY <1>1, <1>7
<1>9. FindServerByLocalAddress(list, ip, local) = f[n].best
  BY DEF FindServerByLocalAddress, f
<1>10. Answered(f[n], n, behind, ports, ips, any)
  BY <1>8 DEF Known
<1> HIDE DEF n
<1>11. LET best == FindServerByLocalAddress(list, ip, local)
       IN  \/ FirstOf(best, n, ports)
           \/ /\ NoneOf(n, ports)
              /\ \/ LastOf(best, n, ips)
                 \/ /\ NoneOf(n, ips)
                    /\ \/ any /\ FirstOf(best, n, behind)
                       \/ best = NotFound /\ (~any \/ NoneOf(n, behind))
  BY <1>9, <1>10 DEF Answered
<1> QED
  BY <1>11 DEF n, any, behind, ports, ips

\* What either fallback of the pass returns is behind the public address
\* (backend.go:249-251).
LEMMA FoundIsBehind ==
  ASSUME NEW S, NEW list \in Seq(S), NEW ip, NEW local,
         FindServerByLocalAddress(list, ip, local) # NotFound
  PROVE  LET i == FindServerByLocalAddress(list, ip, local)
         IN  i \in 1..Len(list) /\ Matches(list[i], ip)
BY PassAnswers DEF FirstOf, LastOf, Behind, HasPort, HasIP

\* The one pass, with its early return and the fallbacks that later rooms
\* overwrite or do not, answers with the first room that has the local port,
\* else the last that has the local IP, else, asked without a port, the
\* first behind the address (backend.go:232-268).
THEOREM LocalLookup ==
  ASSUME NEW S, NEW list \in Seq(S), NEW ip, NEW local
  PROVE  FindServerByLocalAddress(list, ip, local) = LocalAnswer(list, ip, local)
<1> DEFINE n == Len(list)
           best == FindServerByLocalAddress(list, ip, local)
           behind == {i \in DOMAIN list : Matches(list[i], ip)}
           byPort == {i \in behind : list[i].fields.localport = local.port}
           byIP == {i \in behind : local.ip \in list[i].fields.localips}
           pBehind == [i \in 1..n |-> Behind(list, ip, i)]
           pPorts == [i \in 1..n |-> HasPort(list, ip, local, i)]
           pIPs == [i \in 1..n |-> HasIP(list, ip, local, i)]
<1>1. DOMAIN list = 1..n /\ n \in Nat
  BY LenProperties
<1>2. /\ \A i : i \in behind <=> i \in 1..n /\ pBehind[i]
      /\ \A i : i \in byPort <=> i \in 1..n /\ pPorts[i]
      /\ \A i : i \in byIP <=> i \in 1..n /\ pIPs[i]
  BY <1>1 DEF Behind, HasPort, HasIP
<1>3. \/ FirstOf(best, n, pPorts)
      \/ /\ NoneOf(n, pPorts)
         /\ \/ LastOf(best, n, pIPs)
            \/ /\ NoneOf(n, pIPs)
               /\ \/ local.port = 0 /\ FirstOf(best, n, pBehind)
                  \/ best = NotFound /\ (local.port # 0 \/ NoneOf(n, pBehind))
  BY PassAnswers
<1>4. LocalAnswer(list, ip, local) =
        IF byPort # {} THEN Min(byPort)
        ELSE IF byIP # {} THEN Max(byIP)
        ELSE IF local.port = 0 /\ behind # {} THEN Min(behind)
        ELSE NotFound
  BY DEF LocalAnswer
<1> HIDE DEF n, best, behind, byPort, byIP, pBehind, pPorts, pIPs
<1>5. ASSUME NEW T \in SUBSET Nat, NEW i \in T
      PROVE  /\ (\A j \in T : i <= j) => Min(T) = i
             /\ (\A j \in T : j <= i) => Max(T) = i
  <2>1. ASSUME \A j \in T : i <= j
        PROVE  Min(T) = i
    <3> DEFINE m == Min(T)
    <3>1. m \in T /\ \A j \in T : m <= j
      BY MinProperties
    <3> HIDE DEF m
    <3>2. m \in Nat /\ i \in Nat /\ m <= i /\ i <= m
      BY <2>1, <3>1
    <3> QED
      BY <3>2 DEF m
  <2>2. ASSUME \A j \in T : j <= i
        PROVE  Max(T) = i
    <3> DEFINE m == Max(T)
    <3>1. \A j \in T : i >= j
      BY <2>2
    <3>2. m \in T /\ \A j \in T : m >= j
      BY <3>1 DEF Max
    <3> HIDE DEF m
    <3>3. m \in Nat /\ i \in Nat /\ m <= i /\ i <= m
      BY <2>2, <3>2
    <3> QED
      BY <3>3 DEF m
  <2> QED
    BY <2>1, <2>2
<1>6. behind \in SUBSET Nat /\ byPort \in SUBSET Nat /\ byIP \in SUBSET Nat
  BY <1>1, <1>2
<1>7. CASE FirstOf(best, n, pPorts)
  <2>1. best \in byPort /\ \A j \in byPort : best <= j
    BY <1>2, <1>7 DEF FirstOf
  <2> QED
    BY <1>4, <1>5, <1>6, <2>1 DEF best
<1>8. CASE NoneOf(n, pPorts) /\ LastOf(best, n, pIPs)
  <2>1. byPort = {} /\ best \in byIP /\ \A j \in byIP : j <= best
    BY <1>2, <1>8 DEF LastOf, NoneOf
  <2> QED
    BY <1>4, <1>5, <1>6, <2>1 DEF best
<1>9. CASE /\ NoneOf(n, pPorts) /\ NoneOf(n, pIPs)
           /\ local.port = 0 /\ FirstOf(best, n, pBehind)
  <2>1. byPort = {} /\ byIP = {} /\ best \in behind /\ \A j \in behind : best <= j
    BY <1>2, <1>9 DEF FirstOf, NoneOf
  <2> QED
    BY <1>4, <1>5, <1>6, <1>9, <2>1 DEF best
<1>10. CASE /\ NoneOf(n, pPorts) /\ NoneOf(n, pIPs)
            /\ best = NotFound /\ (local.port # 0 \/ NoneOf(n, pBehind))
  <2>1. byPort = {} /\ byIP = {} /\ (local.port # 0 \/ behind = {})
    BY <1>2, <1>10 DEF NoneOf
  <2> QED
    BY <1>4, <1>10, <2>1 DEF best
<1> QED
  BY <1>3, <1>7, <1>8, <1>9, <1>10

\* Asked for the endpoint a room was registered from, whichever console
\* registered it, the search answers with a room of that port at that address
\* or at its mirror image, and with none behind the room asked for
\* (backend.go:197-229, ip.go:28-45).
THEOREM FoundAtItsEndpoint ==
  ASSUME \A n \in Int, asked \in IPv4 :
           <<n, Dotted(asked)>> \in SameIP <=> MatchPublicIP(Number(n), Dotted(asked)),
         NEW S, NEW list \in Seq(S), NEW at \in 1..Len(list),
         NEW ip \in IPv4, NEW c \in Consoles, NEW port, port # 0,
         list[at].fields.publicip = SignedIP(ip, c), list[at].fields.publicport = port
  PROVE  LET found == FindServerByAddress(list, Dotted(ip), port)
         IN  /\ found \in 1..at
             /\ list[found].fields.publicport = port
             /\ \A other \in IPv4, d \in Consoles :
                  list[found].fields.publicip = SignedIP(other, d) => other \in {ip, Mirror(ip)}
<1> DEFINE answer == FindServerByAddress(list, Dotted(ip), port)
           hit(i) == Matches(list[i], Dotted(ip)) /\ (port = 0 \/ list[i].fields.publicport = port)
<1>1. \A x \in IPv4, d \in Consoles, asked \in IPv4 :
        <<SignedIP(x, d), Dotted(asked)>> \in SameIP <=> asked \in {x, Mirror(x)}
  <2> TAKE x \in IPv4, d \in Consoles, asked \in IPv4
  <2>1. SignedIP(x, d) \in Int
    BY SignedIsInt, MirrorTwice DEF SignedIP
  <2> QED
    BY <2>1, MatchesMirrorOnly
<1>2. hit(at)
  BY <1>1 DEF Matches
<1>3. \/ answer \in 1..Len(list) /\ hit(answer) /\ \A i \in 1..Len(list) : hit(i) => answer <= i
      \/ answer = NotFound /\ \A i \in 1..Len(list) : ~hit(i)
  BY FirstAtAddress
<1> HIDE DEF answer
<1>4. /\ answer \in 1..Len(list) /\ answer <= at
      /\ <<list[answer].fields.publicip, Dotted(ip)>> \in SameIP
      /\ list[answer].fields.publicport = port
  BY <1>2, <1>3 DEF Matches
<1>5. ASSUME NEW other \in IPv4, NEW d \in Consoles,
             list[answer].fields.publicip = SignedIP(other, d)
      PROVE  other \in {ip, Mirror(ip)}
  <2>1. ip \in {other, Mirror(other)}
    BY <1>1, <1>4, <1>5
  <2> QED
    BY <2>1, MirrorTwice
<1>6. answer \in 1..at
  BY <1>4, LenProperties
<1> QED
  BY <1>4, <1>5, <1>6 DEF answer
=============================================================================
