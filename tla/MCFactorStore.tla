--------------------------- MODULE MCFactorStore ---------------------------
(***************************************************************************)
(* Instances of FactorStore for TLC.                                       *)
(***************************************************************************)
EXTENDS FactorStore

(* Rank caps are interchangeable, so the first one configured is fixed.
   Failing reads are left to S3, where the version may be missed as well,
   failing sidecars to the file system, where they may be left empty too.  *)
MCInit == /\ Init
          /\ config = CHOOSE r \in Rank : TRUE
          /\ "read" \in faults => backend = "s3"
          /\ "version" \in faults => backend = "fs"

MCFairStoreSpec == MCInit /\ [][Next]_vars /\ Fairness
=============================================================================
