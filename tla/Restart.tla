------------------------------ MODULE Restart ------------------------------
(***************************************************************************)
(* Cohort with a server that starts, crashes and starts again.  Rounds,    *)
(* tokens, reservations, the fold's lock and the cached factor state live  *)
(* in the process only (aggregate.py Aggregator.__init__): a crash loses   *)
(* every round that is not finished, and the cache starts empty.           *)
(*                                                                         *)
(* So any number of calls may find the cache cold and read the stored      *)
(* state before the first of them installs it; nothing is folded until one *)
(* has, hence all of them read what was stored when the process started    *)
(* (`start`), and each may install that at any later moment, over what     *)
(* folds have cached since (InstallLate).  Publication is one step here,   *)
(* as in Cohort; FactorStore takes it, and the cold calls, apart.          *)
(*                                                                         *)
(* What survives is in the store: the global with its metadata, and the    *)
(* objects under tmp/, which no later process removes.                     *)
(***************************************************************************)
EXTENDS Cohort

CONSTANT MaxCrashes    \* a bound on the crashes of a behaviour

ASSUME CrashAssumption == MaxCrashes \in Nat

(* Whether a round or a bootstrap call was running in the process. *)
RoundRuns(r) == r \notin Fresh /\ fin[r] \notin {"done", "unswept"}
BootRuns(d) == boot[d] \notin {"idle", "done", "lost"}

(* A connection that breaks: the client sees an error, never an answer. *)
CallBroken(phase) == IF phase = "waiting" THEN "failed" ELSE phase
UploadBroken(phase) ==
    IF phase \in {"reserved", "streaming", "stored", "aborted"} THEN "refused" ELSE phase

(* What the store keeps of tmp/: on a file system a bootstrap upload may be
   half written, and a cleanup may have got through some of its objects.   *)
HalfStaged == {d \in Bootstrap : Backend = "fs" /\ boot[d] = "checked"}
HalfCleaned ==
    {u \in objects \cap Upload : token[u] # None /\ fin[RoundOf(u)] \in {"folded", "voided"}}
        \cup {d \in objects \cap Bootstrap : boot[d] \in {"folded", "voided"}}

RoundAfter(r) == IF RoundRuns(r) THEN "lost" ELSE fin[r]

Crash ==
    /\ crashes < MaxCrashes
    /\ crashes' = crashes + 1
    /\ registering' = None
    /\ call' = [q \in Req |-> CallBroken(call[q])]
    /\ upload' = [u \in Upload |-> UploadBroken(upload[u])]
    /\ fin' = [r \in Round |-> RoundAfter(r)]
    /\ boot' = [d \in Bootstrap |-> IF BootRuns(d) THEN "lost" ELSE boot[d]]
    /\ \E made \in SUBSET HalfStaged, gone \in SUBSET HalfCleaned :
           objects' = (objects \cup made) \ gone
    /\ lock' = None
    /\ fold' = [h \in Holder |-> None]
    /\ state' = meta
    /\ start' = meta
    /\ UNCHANGED <<registrants, peers, sealed, joined, failed, layout, spent, staged, inflight,
                   token, stamp, bootStamp, log, meta>>

(* A cold state() call that read before the first install, and installs now. *)
InstallLate ==
    /\ state' = start
    /\ UNCHANGED <<memberVars, failed, collectVars, fin, bootVars, objects, lock, fold, log, meta,
                   processVars>>

RestartNext == Next \/ Crash \/ InstallLate

RestartSpec == Init /\ [][RestartNext]_vars

FairRestartSpec == RestartSpec /\ Fairness
=============================================================================
