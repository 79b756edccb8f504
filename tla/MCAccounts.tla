----------------------------- MODULE MCAccounts -----------------------------
(* Two consoles, two connections; the file starts empty, or with the row   *)
(* of a third licence and a disabled row of one console, whose ids leave a *)
(* gap.                                                                    *)
EXTENDS Accounts, TLC

CONSTANTS c1, c2, k1, k2, g0, t1, t2, x1, x2, n1

MCLicense == [c \in Consoles |-> c]

Row(profileid, userid, gsbrcd, enabled) ==
  [profileid |-> profileid, userid |-> userid, gsbrcd |-> gsbrcd, name |-> "",
   enabled |-> enabled]
MCStarts == {{}, {Row(2, 2, g0, TRUE), Row(3, 3, c1, FALSE)}}

Symmetry == Permutations(Conns) \cup Permutations(Tokens) \cup Permutations(Keys)
=============================================================================
