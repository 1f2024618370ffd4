--------------------------- MODULE RestartProofs ---------------------------
(***************************************************************************)
(* What holds of the cohorts in Cohort also survives the crashes and the   *)
(* late installs of Restart, any number of them.  What Cohort says of the  *)
(* factor state (IInv without CInv) does not: the cache may be stale.      *)
(***************************************************************************)
EXTENDS Restart, CohortProofs

(* A round whose finalisation was claimed has registrants, so the crash
   finds it in the process.                                                *)
LEMMA ClaimedRuns ==
  ASSUME CInv, NEW r \in Round, fin[r] \notin {"none", "done", "unswept", "lost"}
  PROVE  RoundRuns(r)
<1>1. r \in sealed
  BY DEF CInv, SealInv
<1>2. registrants[r] # {}
  <2>1. Cardinality(registrants[r]) >= KMin
    BY <1>1 DEF CInv, SealInv
  <2> QED BY <2>1, FS_EmptySet, SizeAssumption
<1>3. PICK q \in Req : joined[q] = r
  BY <1>2 DEF CInv, TypeOK, RegistrantsInv
<1> QED BY <1>3 DEF RoundRuns, Fresh

(* After a crash no round and no bootstrap call is in the middle of anything. *)
LEMMA NothingRuns ==
  ASSUME CInv, Crash
  PROVE  /\ \A r \in Round : /\ fin'[r] \in {"none", "done", "unswept", "lost"}
                             /\ fin'[r] = fin[r] \/ fin'[r] = "lost"
         /\ \A d \in Bootstrap : /\ boot'[d] \in {"idle", "done", "lost"}
                                 /\ boot'[d] = boot[d] \/ boot'[d] = "lost"
<1>1. ASSUME NEW r \in Round
      PROVE  /\ fin'[r] \in {"none", "done", "unswept", "lost"}
             /\ fin'[r] = fin[r] \/ fin'[r] = "lost"
  <2>1. fin'[r] = IF RoundRuns(r) THEN "lost" ELSE fin[r]
    BY DEF Crash, RoundAfter
  <2> QED BY <2>1, ClaimedRuns
<1>2. ASSUME NEW d \in Bootstrap
      PROVE  /\ boot'[d] \in {"idle", "done", "lost"}
             /\ boot'[d] = boot[d] \/ boot'[d] = "lost"
  BY DEF Crash, BootRuns
<1> QED BY <1>1, <1>2

(* A crash makes no call answered, no upload received, and no token held. *)
LEMMA BrokenPhases ==
  ASSUME CInv, Crash
  PROVE  /\ \A q \in Req : /\ call'[q] \in CallPhase \ {"waiting"}
                           /\ call[q] # "waiting" => call'[q] = call[q]
                           /\ call[q] = "waiting" => call'[q] = "failed"
         /\ \A u \in Upload : /\ upload'[u] \in {"idle", "refused", "error", "done"}
                              /\ upload'[u] = upload[u] \/ upload'[u] = "refused"
                              /\ upload[u] = "done" => upload'[u] = "done"
<1>1. ASSUME NEW q \in Req
      PROVE  /\ call'[q] \in CallPhase \ {"waiting"}
             /\ call[q] # "waiting" => call'[q] = call[q]
             /\ call[q] = "waiting" => call'[q] = "failed"
  <2>1. call[q] \in CallPhase /\ call'[q] = CallBroken(call[q])
    BY DEF CInv, TypeOK, Crash
  <2>2. CASE call[q] = "waiting"
    BY <2>1, <2>2 DEF CallBroken, CallPhase
  <2>3. CASE call[q] # "waiting"
    BY <2>1, <2>3 DEF CallBroken, CallPhase
  <2> QED BY <2>2, <2>3
<1>2. ASSUME NEW u \in Upload
      PROVE  /\ upload'[u] \in {"idle", "refused", "error", "done"}
             /\ upload'[u] = upload[u] \/ upload'[u] = "refused"
             /\ upload[u] = "done" => upload'[u] = "done"
  <2>1. upload[u] \in UploadPhase /\ upload'[u] = UploadBroken(upload[u])
    BY DEF CInv, TypeOK, Crash
  <2> QED BY <2>1 DEF UploadBroken, UploadPhase
<1> QED BY <1>1, <1>2

(* What a crash keeps of a whole cohort is a whole cohort. *)
LEMMA CrashKeepsWhole ==
  ASSUME CInv, Crash, NEW r \in Round, NEW S \in SUBSET Upload, WholeRound(r, S)
  PROVE  WholeRound(r, S)'
<1>1. UNCHANGED <<sealed, peers, layout, token, joined>>
  BY DEF Crash
<1>2. \A u \in S : upload'[u] = "done"
  BY BrokenPhases DEF WholeRound
<1> QED BY <1>1, <1>2 DEF WholeRound, RoundOf

LEMMA CrashTypes == CInv /\ Crash => TypeOK'
<1> SUFFICES ASSUME CInv, Crash PROVE TypeOK'
  OBVIOUS
<1>t. TypeOK
  BY DEF CInv
<1>1. call' \in [Req -> CallPhase] /\ upload' \in [Upload -> UploadPhase]
  <2>1. \A q \in Req : call'[q] \in CallPhase
    BY <1>t, BrokenPhases
  <2>2. \A u \in Upload : upload'[u] \in UploadPhase
    BY <1>t, BrokenPhases DEF UploadPhase
  <2> QED BY <2>1, <2>2 DEF Crash
<1>2. fin' \in [Round -> RoundPhase] /\ boot' \in [Bootstrap -> BootPhase]
  <2>1. \A r \in Round : fin'[r] \in RoundPhase
    BY <1>t, NothingRuns DEF RoundPhase
  <2>2. \A d \in Bootstrap : boot'[d] \in BootPhase
    BY <1>t, NothingRuns DEF BootPhase
  <2> QED BY <2>1, <2>2 DEF Crash
<1>3. objects' \subseteq Upload \cup Bootstrap
  BY <1>t DEF Crash, HalfStaged, TypeOK
<1>4. /\ registering' \in Round \cup {None} /\ lock' \in Holder \cup {None}
      /\ fold' \in [Holder -> FoldRec \cup {None}]
  BY DEF Crash
<1>5. state' \in FactorState /\ meta' \in FactorState /\ start' \in FactorState /\ crashes' \in Nat
  BY <1>t DEF Crash, TypeOK
<1> QED BY <1>t, <1>1, <1>2, <1>3, <1>4, <1>5 DEF Crash, TypeOK

LEMMA CrashMembers == CInv /\ Crash => CallsInv' /\ RegistrantsInv' /\ SealInv'
<1> SUFFICES ASSUME CInv, Crash PROVE CallsInv' /\ RegistrantsInv' /\ SealInv'
  OBVIOUS
<1>t. TypeOK /\ CallsInv /\ RegistrantsInv /\ SealInv
  BY DEF CInv
<1>1. UNCHANGED <<registrants, peers, sealed, joined, spent>> /\ registering' = None
  BY DEF Crash
<1>2. CallsInv'
  BY <1>t, <1>1, BrokenPhases DEF CallsInv
<1>3. RegistrantsInv'
  BY <1>t, <1>1 DEF RegistrantsInv
<1>4. registering' \notin sealed'
  BY <1>t, <1>1, DisjointAssumption DEF TypeOK
<1>5. \A r \in Round : r \notin sealed => fin'[r] \in {"none", "lost"}
  BY <1>t, NothingRuns DEF SealInv
<1>6. SealInv'
  BY <1>t, <1>1, <1>4, <1>5 DEF SealInv, PeersOf
<1> QED BY <1>2, <1>3, <1>6

LEMMA CrashUploads == CInv /\ Crash => HoldingInv' /\ TokenInv' /\ StagedInv' /\ ObjectsInv'
<1> SUFFICES ASSUME CInv, Crash PROVE HoldingInv' /\ TokenInv' /\ StagedInv' /\ ObjectsInv'
  OBVIOUS
<1>t. TypeOK /\ HoldingInv /\ TokenInv /\ StagedInv /\ ObjectsInv
  BY DEF CInv
<1>1. UNCHANGED <<joined, layout, spent, staged, token, stamp>>
  BY DEF Crash
<1>2. \A u \in Upload : Holding(u)' => Holding(u)
  BY BrokenPhases DEF Holding
<1>3. \A u \in Upload : Holding(u) => token[u] \in Req /\ call[token[u]] = "ok"
  BY <1>t DEF HoldingInv
<1>4. \A q \in Req : call[q] = "ok" => call'[q] = "ok"
  BY BrokenPhases
<1>5. HoldingInv'
  BY <1>t, <1>1, <1>2, <1>3, <1>4 DEF HoldingInv, RoundOf, SameLayout
<1>6. TokenInv'
  BY <1>t, <1>1, <1>2 DEF TokenInv
<1>7. StagedInv'
  BY <1>t, <1>1, BrokenPhases DEF StagedInv, RoundOf, TypeOK
<1>8. ASSUME NEW u \in Upload,
             \/ upload'[u] \in {"stored", "done"}
             \/ Backend = "fs" /\ upload'[u] = "streaming",
             fin'[RoundOf(u)] \notin Ended
      PROVE  u \in objects'
  <2>1. upload'[u] = "done" /\ upload[u] = "done"
    BY <1>8, BrokenPhases
  <2>2. RoundOf(u) \in Round
    BY <2>1, HoldingRound DEF Holding
  <2>3. fin[RoundOf(u)] = "none"
    BY <1>8, <2>2, NothingRuns DEF Ended
  <2>4. u \in objects
    BY <1>t, <2>1, <2>3 DEF ObjectsInv, Ended
  <2>5. u \notin HalfCleaned
    BY <2>3, DisjointAssumption DEF HalfCleaned
  <2> QED BY <2>4, <2>5 DEF Crash
<1>9. ObjectsInv'
  BY <1>1, <1>8 DEF ObjectsInv, RoundOf
<1> QED BY <1>5, <1>6, <1>7, <1>9

LEMMA CrashFolds == CInv /\ Crash => ClaimInv' /\ BootsInv' /\ FoldInv' /\ LogInv'
<1> SUFFICES ASSUME CInv, Crash PROVE ClaimInv' /\ BootsInv' /\ FoldInv' /\ LogInv'
  OBVIOUS
<1>t. TypeOK /\ BootsInv /\ LogInv
  BY DEF CInv
<1>1. UNCHANGED <<log, layout, bootStamp>>
  BY DEF Crash
<1>2. ClaimInv'
  BY NothingRuns DEF ClaimInv
<1>3. BootsInv'
  BY <1>t, <1>1, NothingRuns DEF BootsInv, Crash, BootRuns
<1>4. \A h \in Holder : PhaseOf(h)' \in {"none", "idle", "done", "unswept", "lost"}
  BY NothingRuns DEF PhaseOf, Holder
<1>5. FoldInv'
  BY <1>4 DEF FoldInv
<1>6. ASSUME NEW e \in Entry, EntryInv(e) PROVE EntryInv(e)'
  <2>1. PhaseOf(e.by)' \in Past
    BY <1>6, NothingRuns DEF Entry, EntryInv, Holder, PhaseOf, Past
  <2>2. e.by \in Round => WholeRound(e.by, e.slots)'
    BY <1>6, CrashKeepsWhole DEF Entry, EntryInv
  <2> QED BY <1>1, <1>6, <2>1, <2>2 DEF EntryInv
<1>7. LogInv'
  <2>1. \A i \in 1..Len(log) : log[i] \in Entry /\ EntryInv(log[i])
    BY <1>t DEF LogInv, TypeOK
  <2>2. \A i \in 1..Len(log') : EntryInv(log[i])'
    BY <1>1, <1>6, <2>1 DEF EntryInv, PhaseOf, WholeRound, RoundOf
  <2> QED BY <1>t, <1>1, <2>2 DEF LogInv, FoldOnce, EntryInv, PhaseOf, WholeRound, RoundOf
<1> QED BY <1>2, <1>3, <1>5, <1>7

(* A late install touches nothing but the cached state. *)
LEMMA InstallKeeps == CInv /\ InstallLate => CInv'
<1> SUFFICES ASSUME CInv, InstallLate PROVE CInv'
  OBVIOUS
<1> USE DEF memberVars, collectVars, bootVars
<1>1. TypeOK'
  BY DEF CInv, InstallLate, TypeOK, processVars
<1>2. CallsInv' /\ RegistrantsInv' /\ SealInv'
  BY DEF CInv, InstallLate, CallsInv, RegistrantsInv, SealInv, PeersOf
<1>3. HoldingInv' /\ TokenInv'
  BY DEF CInv, InstallLate, HoldingInv, TokenInv, Holding, RoundOf, SameLayout
<1>4. StagedInv' /\ ObjectsInv'
  BY DEF CInv, InstallLate, StagedInv, ObjectsInv, RoundOf
<1>5. ClaimInv' /\ BootsInv'
  BY DEF CInv, InstallLate, ClaimInv, BootsInv, WholeRound, RoundOf
<1>6. FoldInv'
  BY DEF CInv, InstallLate, FoldInv, Captured, PhaseOf, StampOf, WholeRound, RoundOf
<1>7. LogInv'
  BY DEF CInv, InstallLate, LogInv, FoldOnce, EntryInv, PhaseOf, WholeRound, RoundOf
<1> QED BY <1>1, <1>2, <1>3, <1>4, <1>5, <1>6, <1>7 DEF CInv

(* The steps of Restart: a crash, a late install, or a step of Cohort. *)
LEMMA Steps ==
  ASSUME [RestartNext]_vars
  PROVE  Crash \/ InstallLate \/ [Next]_vars
  BY DEF RestartNext

LEMMA InstallFrame ==
  InstallLate => UNCHANGED <<registrants, peers, sealed, registering, call, joined, upload, token,
                             fin, boot, objects, log>>
  BY DEF InstallLate, memberVars, collectVars, bootVars

LEMMA RestartStep == CInv /\ [RestartNext]_vars => CInv'
<1> SUFFICES ASSUME CInv, [RestartNext]_vars PROVE CInv'
  OBVIOUS
<1>1. CASE Crash
  BY <1>1, CrashTypes, CrashMembers, CrashUploads, CrashFolds DEF CInv
<1>2. CASE InstallLate
  BY <1>2, InstallKeeps
<1>3. CASE [Next]_vars
  BY <1>3, CohortStep
<1> QED BY <1>1, <1>2, <1>3, Steps

(* RestartInvariance: the invariant of the cohorts holds although the server
   loses every round it was running, any number of times, and although its
   cache may be put back to what it was at the start (Aggregator.state).   *)
THEOREM RestartInvariance == RestartSpec => []CInv
<1>1. Init => CInv
  BY InitInv DEF IInv
<1> QED BY <1>1, RestartStep, PTL DEF RestartSpec

(* RestartsKeepCohortsWhole: no restart and no stale cache makes the server
   fold part of a cohort, or a cohort twice, or an upload that was thrown
   away: what was in memory is gone for good, what is folded was whole
   (Aggregator.registering and collecting are not persisted).              *)
THEOREM RestartsKeepCohortsWhole ==
  RestartSpec => [](WholeCohort /\ FoldOnce /\ StagedUntilFolded)
<1>1. CInv => FoldOnce
  BY DEF CInv, LogInv
<1>2. CInv => WholeCohort /\ FoldOnce /\ StagedUntilFolded
  BY <1>1, WholeFromInv, StagedFromInv
<1> QED BY <1>2, RestartInvariance, PTL

(* RestartsKeepFolds: no fold overwrites an earlier one, whatever was lost in
   crashes in between: the lock is held from reading the old global to the
   publication, and what a crash cuts off publishes nothing (_finalize).   *)
THEOREM RestartsKeepFolds == RestartSpec => NoFoldLost
<1> DEFINE Kept == /\ Len(log') >= Len(log)
                   /\ \A i \in 1..Len(log) : log'[i] = log[i]
<1>1. CInv /\ [RestartNext]_vars => [Kept]_vars
  <2> SUFFICES ASSUME CInv, [RestartNext]_vars PROVE Kept
    OBVIOUS
  <2>t. CInv /\ Len(log) \in Nat
    BY DEF CInv, TypeOK
  <2>1. CASE Crash \/ InstallLate
    BY <2>t, <2>1 DEF Crash, InstallLate
  <2>2. CASE [Next]_vars
    BY <2>t, <2>2, LogKept
  <2> QED BY <2>1, <2>2, Steps
<1> QED BY <1>1, RestartInvariance, PTL DEF RestartSpec, NoFoldLost

-----------------------------------------------------------------------------
(* What is left under tmp/. *)

(* A staged object belongs to a call that was given its round and token. *)
OwnedInv ==
    \A u \in objects \cap Upload :
        upload[u] # "idle" /\ token[u] \in Req /\ call[token[u]] = "ok"

(* An upload that was begun keeps its token; only a running one stages. *)
LEMMA BegunStable ==
  ASSUME CInv, [RestartNext]_vars, NEW u \in Upload, upload[u] # "idle"
  PROVE  upload'[u] # "idle" /\ token'[u] = token[u]
<1> USE DEF collectVars
<1>t. TypeOK
  BY DEF CInv
<1>0. CASE InstallLate
  BY <1>0, InstallFrame
<1>1. CASE Crash
  BY <1>1, BrokenPhases DEF Crash
<1>2. ASSUME NEW v \in Upload, NEW from, NEW to \in UploadPhase \ {"idle"}, UploadStep(v, from, to)
      PROVE  upload'[u] # "idle" /\ token'[u] = token[u]
  BY <1>t, <1>2 DEF UploadStep, TypeOK
<1>3. ASSUME NEW v \in Upload, NEW q \in Req, NEW s \in Stamps,
             ReserveSlot(v, q, s) \/ MixedLayout(v, q, s)
      PROVE  upload'[u] # "idle" /\ token'[u] = token[u]
  <2>1. u # v
    BY <1>3 DEF ReserveSlot, MixedLayout, MayUpload
  <2> QED BY <1>t, <1>3, <2>1 DEF ReserveSlot, MixedLayout, TypeOK
<1>4. CASE Contribution
  <2>1. PICK v \in Upload :
            \/ \E q \in Req, s \in Stamps : ReserveSlot(v, q, s) \/ MixedLayout(v, q, s)
            \/ OpenWriter(v) \/ OpenWriterFails(v)
            \/ CommitWriter(v) \/ StreamFails(v) \/ AbortFails(v)
            \/ Unreserve(v) \/ MarkReceived(v)
    BY <1>4 DEF Contribution
  <2>2. CASE \E q \in Req, s \in Stamps : ReserveSlot(v, q, s) \/ MixedLayout(v, q, s)
    BY <1>3, <2>2
  <2>3. CASE OpenWriter(v) \/ OpenWriterFails(v)
    BY <1>2, <2>3 DEF OpenWriter, OpenWriterFails, UploadPhase
  <2>4. CASE CommitWriter(v) \/ StreamFails(v) \/ AbortFails(v)
    BY <1>2, <2>4 DEF CommitWriter, StreamFails, AbortFails, UploadPhase
  <2>5. CASE Unreserve(v) \/ MarkReceived(v)
    BY <1>2, <2>5 DEF Unreserve, MarkReceived, UploadPhase
  <2> QED BY <2>1, <2>2, <2>3, <2>4, <2>5
<1> QED
  BY <1>0, <1>1, <1>4, Steps, RegistrationFrame, FinalizationFrame, BootstrapFrame DEF Next, vars

(* An object appears by the writer of a running upload. *)
LEMMA NewObject ==
  ASSUME CInv, [RestartNext]_vars, NEW u \in Upload, u \in objects', u \notin objects
  PROVE  Holding(u) /\ upload[u] # "done"
<1>0. CASE InstallLate
  BY <1>0, InstallFrame
<1>1. CASE Crash
  BY <1>1, DisjointAssumption DEF Crash, HalfStaged
<1>2. ASSUME NEW v \in Upload, OpenWriter(v) \/ CommitWriter(v)
      PROVE  Holding(u) /\ upload[u] # "done"
  BY <1>2 DEF OpenWriter, CommitWriter, UploadStep, Holding
<1>3. ASSUME NEW d \in Bootstrap, DpStage(d) \/ DpStageFails(d) \/ DpCleanup(d) PROVE FALSE
  BY <1>3, DisjointAssumption DEF DpStage, DpStageFails, DpCleanup
<1>4. ASSUME NEW r \in Round, Cleanup(r) PROVE FALSE
  BY <1>4 DEF Cleanup
<1>5. CASE UNCHANGED objects
  BY <1>5
<1>6. CASE Contribution
  BY <1>2, <1>5, <1>6
  DEF Contribution, ReserveSlot, MixedLayout, OpenWriterFails, StreamFails, AbortFails, Unreserve,
      MarkReceived
<1>7. CASE Finalization
  BY <1>4, <1>5, <1>7
  DEF Finalization, Folding, ClaimFinalize, StartFold, CommitFold, StartVoid, AbortFold
<1>8. CASE BootstrapCall
  BY <1>3, <1>5, <1>8 DEF BootstrapCall, BootStamps, DpCheck
<1> QED
  BY <1>0, <1>1, <1>5, <1>6, <1>7, <1>8, Steps, RegistrationFrame DEF Next, vars

(* An answered call stays answered. *)
LEMMA AnswerKept ==
  ASSUME CInv, [RestartNext]_vars, NEW q \in Req, call[q] = "ok"
  PROVE  call'[q] = "ok" /\ joined'[q] = joined[q]
<1>1. CASE Crash
  BY <1>1, BrokenPhases DEF Crash
<1>2. CASE InstallLate
  BY <1>2, InstallFrame
<1> QED BY <1>1, <1>2, AnswerStable, Steps

LEMMA OwnedStep ==
  ASSUME CInv, OwnedInv, [RestartNext]_vars
  PROVE  OwnedInv'
<1> SUFFICES ASSUME NEW u \in Upload, u \in objects'
             PROVE  upload'[u] # "idle" /\ token'[u] \in Req /\ call'[token'[u]] = "ok"
  BY DEF OwnedInv
<1>1. upload[u] # "idle" /\ token[u] \in Req /\ call[token[u]] = "ok"
  <2>1. CASE u \in objects
    BY <2>1 DEF OwnedInv
  <2>2. CASE u \notin objects
    BY <2>2, NewObject, HoldingRound DEF Holding
  <2> QED BY <2>1, <2>2
<1>2. upload'[u] # "idle" /\ token'[u] = token[u]
  BY <1>1, BegunStable
<1>3. call'[token[u]] = "ok"
  BY <1>1, AnswerKept
<1> QED BY <1>1, <1>2, <1>3

(* Nobody uploads to a cohort that was folded: all its slots are taken. *)
LEMMA FoldedIsFull ==
  ASSUME CInv, NEW i \in 1..Len(log), log[i].by \in Round,
         NEW u \in Upload, Holding(u), upload[u] # "done"
  PROVE  RoundOf(u) # log[i].by
<1> DEFINE r == log[i].by
           S == log[i].slots
<1> SUFFICES ASSUME RoundOf(u) = r PROVE FALSE
  OBVIOUS
<1>1. WholeRound(r, S) /\ S \in SUBSET Upload
  <2>1. log[i] \in Entry /\ EntryInv(log[i])
    BY DEF CInv, LogInv, TypeOK
  <2> QED BY <2>1 DEF Entry, EntryInv
<1>2. u \notin S /\ \A v \in S \cup {u} : Holding(v) /\ RoundOf(v) = r
  BY <1>1 DEF WholeRound, Holding
<1> HIDE DEF r, S
<1>3. r \in sealed /\ r \in Round /\ Cardinality(S) = Cardinality(peers[r])
  BY <1>1 DEF WholeRound, CInv, TypeOK
<1>4. Cardinality(S \cup {u}) <= Cardinality(peers[r]) /\ IsFiniteSet(peers[r])
  BY <1>1, <1>2, <1>3, OwnersBound
<1>5. Cardinality(S \cup {u}) = Cardinality(S) + 1
  <2>1. IsFiniteSet(S)
    BY <1>1, FiniteAssumption, FS_Subset
  <2> QED BY <1>2, <2>1, FS_AddElement
<1> QED BY <1>3, <1>4, <1>5, FS_CardinalityType

(* A round is done when its cleanup says so. *)
LEMMA DoneByCleanup ==
  ASSUME CInv, [RestartNext]_vars, NEW r \in Round, fin'[r] = "done"
  PROVE  Cleanup(r) \/ fin[r] = "done"
<1>t. TypeOK
  BY DEF CInv
<1>1. CASE Crash
  BY <1>1, NothingRuns
<1>2. ASSUME NEW x \in Round, ClaimFinalize(x) \/ Cleanup(x) PROVE Cleanup(r) \/ fin[r] = "done"
  BY <1>t, <1>2 DEF ClaimFinalize, Cleanup, TypeOK
<1>3. ASSUME NEW h \in Holder, StartFold(h) \/ CommitFold(h) \/ StartVoid(h) \/ AbortFold(h)
      PROVE  fin[r] = "done"
  BY <1>t, <1>3 DEF StartFold, CommitFold, StartVoid, AbortFold, Move, TypeOK
<1>4. CASE UNCHANGED fin
  BY <1>4
<1> QED
  BY <1>1, <1>2, <1>3, <1>4, Steps, InstallFrame, RegistrationFrame, ContributionFrame,
     BootstrapFrame
  DEF Next, Finalization, Folding, vars

(* An entry of a round that is done was in the log before. *)
LEMMA EntryOfDone ==
  ASSUME CInv, [RestartNext]_vars, NEW i \in 1..Len(log'),
         log'[i].by \in Round, fin[log'[i].by] = "done"
  PROVE  i \in 1..Len(log) /\ log'[i] = log[i]
<1>1. CASE Crash
  BY <1>1 DEF Crash
<1>2. ASSUME NEW h \in Holder, CommitFold(h) PROVE i \in 1..Len(log) /\ log'[i] = log[i]
  <2>1. CASE [Next]_vars
    <3> DEFINE e == [by |-> h, stamp |-> StampOf(h), slots |-> fold[h].slots]
    <3>1. /\ Len(log') = Len(log) + 1 /\ Len(log) \in Nat
          /\ log'[Len(log) + 1] = e
          /\ \A j \in 1..Len(log) : log'[j] = log[j]
      <4>1. log \in Seq(Entry)
        BY DEF CInv, TypeOK
      <4> QED BY <1>2, <4>1, CommitAppends
    <3>e. e.by = h
      OBVIOUS
    <3> HIDE DEF e
    <3>2. PhaseOf(h) = "folding"
      BY <1>2 DEF CommitFold
    <3>3. log'[i].by # h
      BY <3>2 DEF PhaseOf
    <3> QED BY <3>e, <3>1, <3>3
  <2> QED BY <1>1, <2>1, Steps, InstallFrame
<1>3. CASE [Next]_vars /\ \A h \in Holder : ~CommitFold(h)
  BY <1>3, OnlyCommit
<1>4. CASE InstallLate
  BY <1>4, InstallFrame
<1> QED BY <1>1, <1>2, <1>3, <1>4, Steps

LEMMA SweptStep ==
  ASSUME CInv, OwnedInv, FoldedLeavesNothing,
         [RestartNext]_vars
  PROVE  FoldedLeavesNothing'
<1> SUFFICES ASSUME NEW i \in 1..Len(log'), log'[i].by \in Round, fin'[log'[i].by] = "done",
                    NEW u \in Upload, u \in objects'
             PROVE  RoundOf(u)' # log'[i].by
  BY DEF FoldedLeavesNothing
<1> DEFINE r == log'[i].by
<1>1. CASE Cleanup(r)
  <2>1. objects' = objects \ StagedUnder(r) /\ UNCHANGED <<token, joined>>
    BY <1>1 DEF Cleanup, collectVars, memberVars, CInv, TypeOK
  <2>2. token[u] # None
    BY <2>1, DisjointAssumption DEF OwnedInv
  <2> QED BY <2>1, <2>2 DEF StagedUnder, RoundOf
<1>2. CASE ~Cleanup(r)
  <2>1. fin[r] = "done" /\ i \in 1..Len(log) /\ r = log[i].by
    BY <1>2, DoneByCleanup, EntryOfDone
  <2>2. RoundOf(u) # r
    <3>1. CASE u \in objects
      BY <2>1, <3>1 DEF FoldedLeavesNothing
    <3>2. CASE u \notin objects
      BY <2>1, <3>2, NewObject, FoldedIsFull
    <3> QED BY <3>1, <3>2
  <2>3. upload[u] # "idle" /\ token[u] \in Req /\ call[token[u]] = "ok"
    <3>1. CASE u \in objects
      BY <3>1 DEF OwnedInv
    <3>2. CASE u \notin objects
      BY <3>2, NewObject, HoldingRound DEF Holding
    <3> QED BY <3>1, <3>2
  <2>4. token'[u] = token[u] /\ joined'[token[u]] = joined[token[u]]
    BY <2>3, BegunStable, AnswerKept
  <2> QED BY <2>2, <2>4 DEF RoundOf
<1> QED BY <1>1, <1>2

(* FoldedIsSwept: a folded cohort whose stage_cleanup did not raise has nothing
   left under its prefix, not even an object of an upload that was cut off
   and repeated, and no crash or late upload brings one back (run_finalize,
   stage_cleanup).                                                         *)
THEOREM FoldedIsSwept == RestartSpec => []FoldedLeavesNothing
<1> DEFINE Swept == CInv /\ OwnedInv /\ FoldedLeavesNothing
<1>1. Init => Swept
  <2> SUFFICES ASSUME Init PROVE Swept
    OBVIOUS
  <2>1. objects = {} /\ log = <<>>
    BY DEF Init
  <2>2. CInv
    BY InitInv DEF IInv
  <2> QED BY <2>1, <2>2 DEF OwnedInv, FoldedLeavesNothing
<1>2. Swept /\ [RestartNext]_vars => Swept'
  BY RestartStep, OwnedStep, SweptStep
<1>3. Swept => FoldedLeavesNothing
  OBVIOUS
<1> HIDE DEF Swept
<1> QED BY <1>1, <1>2, <1>3, PTL DEF RestartSpec
=============================================================================
