----------------------------- MODULE MCBackend ------------------------------
(* Backend on a small instance: enough sessions for a removal in the       *)
(* middle of a slice, two games, and one NATNEG cookie whose entries hit   *)
(* the cap while a further distinct endpoint is still waiting.  Heartbeats *)
(* come from three hosts: a Wii, a DS on the mirror image of its address   *)
(* that uses the same port, and a Wii elsewhere, so that the address       *)
(* lookups find several rooms to choose from.  They declare local port 0,  *)
(* none at all and port 5.                                                 *)
EXTENDS Backend, Addresses, TLC

CONSTANTS s1, s2, s3, g1, g2, ck

home == <<10, 0, 200, 1>>
away == <<20, 0, 0, 7>>

Undeclared == -1   \* RoomLookup's NoPort

(* Where a host is, and what its heartbeat then says. *)
Origin(ip, console, port) == [ip |-> ip, console |-> console, port |-> port]
LocalOf == (Origin(home, 1, 10) :> [port |-> 0, ips |-> {7}])
           @@ (Origin(Mirror(home), 0, 10) :> [port |-> Undeclared, ips |-> {7}])
           @@ (Origin(away, 1, 11) :> [port |-> 5, ips |-> {8}])
Origins == DOMAIN LocalOf
FieldsFrom(o) == [publicip |-> SignedIP(o.ip, o.console), publicport |-> o.port,
                  localport |-> LocalOf[o].port, localips |-> LocalOf[o].ips]
MCHeartbeats == {FieldsFrom(o) : o \in Origins}
Asked == {home, Mirror(home), away}

\* Three endpoints: same IP with another port, same port with another IP.
MCPeers == {[publicip |-> 1, publicport |-> 10], [publicip |-> 1, publicport |-> 11],
            [publicip |-> 2, publicport |-> 10]}

MCSameIP ==
  {pair \in {h.publicip : h \in MCHeartbeats} \X {Dotted(ip) : ip \in Asked} :
     MatchPublicIP(Number(pair[1]), pair[2])}

Lookup == INSTANCE RoomLookup WITH SameIP <- MCSameIP

(* One pass over the slice with an early return and a fallback that later  *)
(* rooms overwrite or do not: it amounts to "the first room with the local *)
(* port, else the last with the local IP, else, asked without a port, the  *)
(* first behind the address" in every list that can come up               *)
(* (backend.go:232-280).                                                   *)
LocalLookupPrecedence ==
  \A g \in DOMAIN serverList, ip \in Asked, port \in {0, 5}, local \in {7, 8} :
    LET address == [ip |-> local, port |-> port]
    IN  Lookup!FindServerByLocalAddress(serverList[g], Dotted(ip), address) =
          Lookup!LocalAnswer(serverList[g], Dotted(ip), address)

(* Asked for the endpoint a room was registered from, whichever console    *)
(* registered it, the registry answers with a room of that endpoint or of  *)
(* its mirror image, and never with a later room than the one asked for    *)
(* (backend.go:194-221, ip.go:28-45).                                      *)
FoundAtOwnEndpoint ==
  \A g \in DOMAIN serverList, o \in Origins : \A i \in DOMAIN serverList[g] :
    serverList[g][i].fields = FieldsFrom(o) =>
      LET found == Lookup!FindServerByAddress(serverList[g], Dotted(o.ip), o.port)
      IN  /\ found \in 1..i
          /\ \E twin \in Origins :
               /\ serverList[g][found].fields = FieldsFrom(twin)
               /\ twin.ip \in {o.ip, Mirror(o.ip)} /\ twin.port = o.port

Symmetry == Permutations({s1, s2, s3}) \cup Permutations({g1, g2})
=============================================================================
