------------------------------- MODULE MCKVDB -------------------------------
(* Three keys of which two collide, and the hash 0 with its stand-in 1.     *)
EXTENDS KVDB, TLC

CONSTANTS k1, k2, k3

MCHashOf == (k1 :> 0) @@ (k2 :> 1) @@ (k3 :> 3)
=============================================================================
