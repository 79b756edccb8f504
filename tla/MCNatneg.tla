------------------------------ MODULE MCNatneg ------------------------------
(* A host and a guest.  IPs and ports are small numbers: the host's are    *)
(* 1x, the guest's 2x.                                                     *)
EXTENDS Natneg, TLC

CONSTANTS host, guest, mkw, ck, a1, a2, a3

Pair(h, g) == (host :> h) @@ (guest :> g)

MCAddr == Pair([ip |-> 10, port |-> 11], [ip |-> 20, port |-> 21])
MCLocal == Pair([ip |-> 19, port |-> 12], [ip |-> 29, port |-> 22])
MCReg == Pair([publicip |-> 10, publicport |-> 13, localport |-> 12, localips |-> {19}],
              [publicip |-> 20, publicport |-> 23, localport |-> 22, localips |-> {29}])
MCHeartbeats == {MCReg[host], MCReg[guest]}
MCSameIP == {<<10, 10>>, <<20, 20>>}
=============================================================================
