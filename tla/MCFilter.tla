------------------------------ MODULE MCFilter ------------------------------
(* Two fields; texts that are numbers, a number in another spelling, and   *)
(* none; a string and a number to compare with.                            *)
EXTENDS Filter, TLC

MCNumOf == ("0" :> 0) @@ ("1" :> 1) @@ ("01" :> 1) @@ ("" :> NaN) @@ ("x" :> NaN)
MCFormatInt == (0 :> "0") @@ (1 :> "1")
MCRank == ("" :> 0) @@ ("0" :> 1) @@ ("01" :> 2) @@ ("1" :> 3) @@ ("x" :> 4)
MCFold == [t \in DOMAIN MCRank |-> t]
MCValueOf == "'01'" :> String("01")
=============================================================================
