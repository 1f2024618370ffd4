------------------------------- MODULE Global -------------------------------
(***************************************************************************)
(* What a model's global promises, whatever produces it: it is the sum of  *)
(* a sequence of folds that only grows.  Every fold is of one architecture *)
(* and of the epoch it lands in, and nobody's fold counts twice.           *)
(*                                                                         *)
(* Cohort implements it with the folds of the rounds and of the bootstrap  *)
(* calls; FactorStore with the folds contained in the stored blob.         *)
(***************************************************************************)
EXTENDS Integers, Sequences

CONSTANT EpochFolds   \* folds per epoch

VARIABLE log          \* the folds, each with who made it (by) and its stamp

(* The i-th fold belongs to the epoch that EpochFolds folds before it opened. *)
InEpoch(e, i) ==
    /\ e.stamp.epoch * EpochFolds < i
    /\ i <= e.stamp.epoch * EpochFolds + EpochFolds

Init == log = <<>>

AddFold(e) ==
    /\ InEpoch(e, Len(log) + 1)
    /\ \A i \in 1..Len(log) : /\ log[i].by # e.by
                              /\ log[i].stamp.compat = e.stamp.compat
    /\ log' = Append(log, e)

Next ==
    /\ Len(log') = Len(log) + 1
    /\ AddFold(log'[Len(log')])

GlobalSpec == Init /\ [][Next]_log
=============================================================================
