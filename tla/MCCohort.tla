------------------------------ MODULE MCCohort ------------------------------
(***************************************************************************)
(* Instances of Cohort for TLC.  Register calls of three clients, in which *)
(* k1 registers twice, as a client whose long poll was cut off does; three *)
(* layouts, two of them of one length.                                     *)
(***************************************************************************)
EXTENDS Cohort, TLC

CONSTANTS k1, k2, k3, q1, q2, q3, q4, sA, sB, sC

MCKeyRetry  == q1 :> k1 @@ q2 :> k2 @@ q3 :> k3 @@ q4 :> k1
MCKeyAgain  == q1 :> k1 @@ q2 :> k2 @@ q3 :> k1
MCKeyPair   == q1 :> k1 @@ q2 :> k2
MCLength    == [s \in Spec |-> IF s = sC THEN 6 ELSE 4]

(* Bootstrap calls are interchangeable. *)
MCSymmetry == Permutations(Bootstrap)
=============================================================================
