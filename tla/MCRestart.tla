----------------------------- MODULE MCRestart -----------------------------
(***************************************************************************)
(* The instance of Restart for TLC: two register calls of two clients.     *)
(***************************************************************************)
EXTENDS Restart, TLC

CONSTANTS k1, k2, q1, q2

MCKeyPair == q1 :> k1 @@ q2 :> k2
MCLength  == [s \in Spec |-> 4]
=============================================================================
