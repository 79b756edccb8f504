----------------------------- MODULE MCBrowser ------------------------------
(* Three hosts make the slice grow through capacities 1, 2 and 4; the      *)
(* first two use the same port, the last two share a router.  A host of a  *)
(* second game competes for arrays.  The connection is the last host's.    *)
EXTENDS Browser, TLC

CONSTANTS s1, s2, s3, s4, g1, g2, i1, i2, p1, p2, c1, a1, a2, a3, a4, a5

MCSameIP == {<<i, i>> : i \in {i1, i2}}

Fields(ip, port) == [publicip |-> ip, publicport |-> port]

MCReg == (s1 :> Fields(i1, p1)) @@ (s2 :> Fields(i2, p1))
         @@ (s3 :> Fields(i2, p2)) @@ (s4 :> Fields(i1, p2))
MCHeartbeats == {MCReg[s] : s \in {s1, s2, s3, s4}}
MCDests == {<<i1, p1>>}
MCSelf == c1 :> <<i2, p2>>
MCHosts == (g1 :> {s1, s2, s3}) @@ (g2 :> {s4})
=============================================================================
