-------------------------------- MODULE MCQR --------------------------------
(* A host of two games, that may also leave the name empty or out.         *)
EXTENDS QR

CONSTANTS s1, mkw, other, d1
=============================================================================
