------------------------- MODULE HealthCheckProofs -------------------------
(***************************************************************************)
(* Proofs about HealthCheck, for any number of calls, crashes and kinds of *)
(* misconfiguration.                                                       *)
(***************************************************************************)
EXTENDS HealthCheck, TLAPS

-----------------------------------------------------------------------------
(* What the clean-ups leave. *)

(* A call that has its whole clean-up before it. *)
Early(p) == at[p] \in {"started", "staged", "opened", "closed", "renamed", "versioned",
                       "cleanup", "purge"}

(* Somebody is still going to remove the blob ... *)
BlobSwept == blob # None => \E p \in Probe : Early(p) \/ at[p] = "remove"

(* ... and the version: a call about to remove the blob goes on to it only
   when the blob is still there.                                           *)
VersionSwept ==
    version => \E p \in Probe : \/ Early(p) \/ at[p] = "unversion"
                                \/ at[p] = "remove" /\ blob # None

StagedSwept ==
    \A p \in staged : \/ at[p] \in {"staged", "opened", "closed", "renamed", "versioned",
                                    "cleanup", "lost"}
                      \/ p \in refused /\ at[p] \notin {"idle", "started"}

SweepInv ==
    /\ StagedSwept
    /\ ("delete" \notin broken /\ (swept \/ \E p \in Probe : Running(p)))
           => BlobSwept /\ VersionSwept

HInv == TypeOK /\ SweepInv

LEMMA HealthInit == Init => HInv
<1> SUFFICES ASSUME Init PROVE HInv
  OBVIOUS
<1>1. TypeOK
  <2>1. crashes \in 0..MaxCrashes
    BY CrashAssumption DEF Init
  <2> QED BY <2>1 DEF Init, TypeOK
<1>2. SweepInv
  BY DEF Init, SweepInv, StagedSwept, BlobSwept, VersionSwept, Running
<1> QED BY <1>1, <1>2 DEF HInv

(* The steps a call ends with. *)
LastSteps(p) ==
    \/ PurgeObjects(p) \/ PurgeRefused(p) \/ RemoveFails(p) \/ RemoveVersion(p) \/ VersionRefused(p)

(* Every step keeps the types. *)
LEMMA HealthTypes == TypeOK /\ [Next]_vars => TypeOK'
<1> SUFFICES ASSUME TypeOK, [Next]_vars PROVE TypeOK'
  OBVIOUS
<1>1. ASSUME NEW p \in Probe, Start(p) PROVE TypeOK'
  BY <1>1 DEF Start, Goes, TypeOK, storeVars, fileVars
<1>2. ASSUME NEW p \in Probe, StageRoundTrip(p) PROVE TypeOK'
  BY <1>2 DEF StageRoundTrip, Goes, TypeOK, storeVars, histVars
<1>3. ASSUME NEW p \in Probe, Fails(p) \/ RenameFails(p)
      PROVE  TypeOK'
  BY <1>3 DEF Fails, RenameFails, Raises, Goes, TypeOK,
              storeVars, fileVars, histVars
<1>4. ASSUME NEW p \in Probe, ReadbackFails(p) PROVE TypeOK'
  BY <1>4 DEF ReadbackFails, Goes, TypeOK, storeVars, histVars
<1>5. ASSUME NEW p \in Probe, OpenGlobal(p) PROVE TypeOK'
  BY <1>5 DEF OpenGlobal, Goes, TypeOK, storeVars, histVars
<1>6. ASSUME NEW p \in Probe, CloseGlobal(p) PROVE TypeOK'
  BY <1>6 DEF CloseGlobal, Goes, TypeOK, storeVars, histVars
<1>7. ASSUME NEW p \in Probe, Rename(p) PROVE TypeOK'
  BY <1>7 DEF Rename, Goes, TypeOK, storeVars, histVars
<1>8. ASSUME NEW p \in Probe, CompleteUpload(p) \/ WriteVersion(p) \/ ReadGlobal(p) PROVE TypeOK'
  BY <1>8 DEF CompleteUpload, WriteVersion, ReadGlobal, Verdict, Goes, TypeOK,
              storeVars, fileVars, histVars
<1>9. ASSUME NEW p \in Probe, CleanStaged(p) \/ StagedRefused(p) \/ LookForBlob(p) \/ RemoveBlob(p)
      PROVE  TypeOK'
  BY <1>9 DEF CleanStaged, StagedRefused, LookForBlob, RemoveBlob, Goes, TypeOK,
              storeVars, fileVars, histVars
<1>10. ASSUME NEW p \in Probe, LastSteps(p) PROVE TypeOK'
  BY <1>10 DEF LastSteps, PurgeObjects, PurgeRefused, RemoveFails, RemoveVersion, VersionRefused,
               VersionAfterPurge, Ends, Goes, TypeOK, storeVars
<1>11. CASE Crash
  <2>1. crashes' \in 0..MaxCrashes
    BY <1>11, CrashAssumption DEF Crash, TypeOK
  <2> QED BY <1>11, <2>1 DEF Crash, TypeOK, fileVars
<1>12. CASE UNCHANGED vars
  BY <1>12 DEF vars, TypeOK, storeVars, fileVars, histVars
<1> QED BY <1>1, <1>2, <1>3, <1>4, <1>5, <1>6, <1>7, <1>8, <1>9, <1>10, <1>11, <1>12 DEF Next, LastSteps

(* The steps of a call after which it still has its clean-up before it. *)
EarlySteps(p) ==
    \/ Start(p) \/ StageRoundTrip(p) \/ ReadbackFails(p) \/ Fails(p)
    \/ OpenGlobal(p) \/ CloseGlobal(p) \/ Rename(p) \/ RenameFails(p)
    \/ CompleteUpload(p) \/ WriteVersion(p) \/ ReadGlobal(p)
    \/ CleanStaged(p) \/ StagedRefused(p)

(* The steps of the clean-up of the shared files. *)
PurgeSteps(p) == LookForBlob(p) \/ RemoveBlob(p) \/ LastSteps(p)

LEMMA EarlySweeps ==
  ASSUME HInv, NEW p \in Probe, EarlySteps(p)
  PROVE  SweepInv'
<1>1. /\ Early(p)'
      /\ \A q \in Probe : q # p => at'[q] = at[q]
      /\ at[p] \in {"idle", "started"} => p \notin staged
  BY DEF EarlySteps, Start, StageRoundTrip, Fails, ReadbackFails, OpenGlobal,
     CloseGlobal, Rename, RenameFails, CompleteUpload, WriteVersion, ReadGlobal,
     CleanStaged, StagedRefused, Raises, Goes, Early, HInv, TypeOK, SweepInv, StagedSwept
<1>2. BlobSwept' /\ VersionSwept'
  BY <1>1 DEF BlobSwept, VersionSwept, Early
<1>3. /\ \A q \in staged' : q # p => q \in staged
      /\ p \in staged' => \/ at'[p] \in {"staged", "opened", "closed", "renamed", "versioned", "cleanup"}
                          \/ p \in refused' /\ at'[p] = "purge"
      /\ refused \subseteq refused'
  BY <1>1 DEF EarlySteps, Start, StageRoundTrip, Fails, ReadbackFails, OpenGlobal,
     CloseGlobal, Rename, RenameFails, CompleteUpload, WriteVersion, ReadGlobal,
     CleanStaged, StagedRefused, Raises, Goes, HInv, TypeOK, storeVars, fileVars, histVars
<1>4. StagedSwept'
  <2>1. staged' \subseteq Probe
    BY <1>3 DEF HInv, TypeOK
  <2> QED BY <1>1, <1>3, <2>1 DEF HInv, SweepInv, StagedSwept, Early
<1> QED BY <1>2, <1>4 DEF SweepInv

LEMMA PurgeSweeps ==
  ASSUME HInv, NEW p \in Probe, PurgeSteps(p)
  PROVE  SweepInv'
<1>1. /\ Running(p)
      /\ at[p] \in {"purge", "remove", "unversion"}
      /\ at'[p] \in {"remove", "unversion", "done"}
      /\ \A q \in Probe : q # p => at'[q] = at[q]
      /\ UNCHANGED <<staged, refused, broken>>
  BY DEF PurgeSteps, LastSteps, PurgeObjects, PurgeRefused, LookForBlob, RemoveBlob, RemoveFails,
     RemoveVersion, VersionRefused, Ends, Goes, Running, HInv, TypeOK, storeVars, fileVars, histVars
<1>2. p \in staged => p \in refused
  BY <1>1 DEF HInv, SweepInv, StagedSwept
<1>3. StagedSwept'
  BY <1>1, <1>2 DEF HInv, TypeOK, SweepInv, StagedSwept
<1>5. ASSUME "delete" \notin broken PROVE BlobSwept' /\ VersionSwept'
  <2>0. BlobSwept /\ VersionSwept
    BY <1>1, <1>5 DEF HInv, SweepInv
  <2>1. CASE PurgeObjects(p)
    BY <2>1 DEF PurgeObjects, BlobSwept, VersionSwept
  <2>2. CASE LookForBlob(p)
    <3>1. /\ UNCHANGED <<blob, version>>
          /\ at'[p] = IF blob = None THEN "unversion" ELSE "remove"
      BY <2>2 DEF LookForBlob, Goes, HInv, TypeOK, fileVars
    <3> QED BY <3>1 DEF BlobSwept, VersionSwept
  <2>3. CASE RemoveBlob(p)
    <3>1. blob' = None /\ at'[p] = "unversion"
      BY <2>3 DEF RemoveBlob, Goes, HInv, TypeOK
    <3> QED BY <3>1 DEF BlobSwept, VersionSwept
  <2>4. CASE RemoveFails(p)
    <3>1. blob = None /\ at[p] = "remove" /\ UNCHANGED <<blob, version>>
      BY <2>4, <1>5 DEF RemoveFails, Ends, Goes
    <3>2. version => \E q \in Probe : q # p /\ (Early(q) \/ at[q] = "unversion")
      BY <2>0, <3>1 DEF VersionSwept, Early
    <3> QED BY <1>1, <3>1, <3>2 DEF BlobSwept, VersionSwept, Early
  <2>5. CASE RemoveVersion(p)
    <3>1. version' = FALSE /\ at[p] = "unversion" /\ blob' = blob
      BY <2>5 DEF RemoveVersion, VersionAfterPurge, Ends, Goes
    <3>2. blob # None => \E q \in Probe : q # p /\ (Early(q) \/ at[q] = "remove")
      BY <2>0, <3>1 DEF BlobSwept, Early
    <3> QED BY <1>1, <3>1, <3>2 DEF BlobSwept, VersionSwept, Early
  <2> QED BY <1>5, <2>1, <2>2, <2>3, <2>4, <2>5 DEF PurgeSteps, LastSteps, PurgeRefused, VersionRefused
<1> QED BY <1>1, <1>3, <1>5 DEF SweepInv

LEMMA CrashSweeps == ASSUME HInv, Crash PROVE SweepInv'
<1>1. /\ swept' = FALSE /\ UNCHANGED <<staged, refused>>
      /\ \A p \in Probe : at'[p] = IF Running(p) THEN "lost" ELSE at[p]
  BY DEF Crash, fileVars
<1>2. \A p \in Probe : ~Running(p)'
  BY <1>1 DEF Running
<1>3. StagedSwept'
  BY <1>1 DEF HInv, TypeOK, SweepInv, StagedSwept, Running
<1> QED BY <1>1, <1>2, <1>3 DEF SweepInv

LEMMA HealthStep == HInv /\ [Next]_vars => HInv'
<1> SUFFICES ASSUME HInv, [Next]_vars PROVE HInv'
  OBVIOUS
<1>1. TypeOK'
  BY HealthTypes DEF HInv
<1>2. SweepInv'
  <2>1. CASE UNCHANGED vars
    BY <2>1 DEF vars, storeVars, fileVars, histVars, HInv, SweepInv, StagedSwept, BlobSwept, VersionSwept,
                Early, Running
  <2>2. CASE \E p \in Probe : EarlySteps(p) \/ PurgeSteps(p)
    BY <2>2, EarlySweeps, PurgeSweeps
  <2>3. Next => (\E p \in Probe : EarlySteps(p) \/ PurgeSteps(p)) \/ Crash
    BY DEF Next, EarlySteps, PurgeSteps, LastSteps
  <2> QED BY <2>1, <2>2, <2>3, CrashSweeps
<1> QED BY <1>1, <1>2 DEF HInv

LEMMA HealthInvariance == HealthSpec => []HInv
BY HealthInit, HealthStep, PTL DEF HealthSpec

(* ProbeTypes: files, calls and answers keep their types (health_check). *)
THEOREM ProbeTypes == HealthSpec => []TypeOK
<1>1. HInv => TypeOK
  BY DEF HInv
<1> QED BY <1>1, HealthInvariance, PTL

(* ProbesLeaveNothing: however many calls overlap, whatever is misconfigured
   and whenever the server dies, the last call through leaves neither a blob
   nor a version of the probe model if the store lets it delete, and no
   upload of a call that ended but those it was refused to delete
   (health_check's `finally`, _purge_global, stage_cleanup).               *)
THEOREM ProbesLeaveNothing == HealthSpec => []NothingLeft
<1>1. HInv => NothingLeft
  BY DEF HInv, TypeOK, SweepInv, StagedSwept, BlobSwept, VersionSwept, Early, Running, NothingLeft
<1> QED BY <1>1, HealthInvariance, PTL

-----------------------------------------------------------------------------
(* A call that is alone finds the files as it left them. *)

(* What a call knows of the store at each of its steps. *)
Fine(p) ==
    /\ at[p] \in {"staged", "opened", "closed", "renamed", "versioned"} =>
           "stage" \notin broken /\ "read" \notin broken
    /\ at[p] \in {"opened", "closed", "renamed", "versioned"} => "global" \notin broken
    /\ at[p] = "versioned" => "version" \notin broken
    /\ (at[p] = "opened" /\ backend = "fs") => tmp \in Probe /\ open[p] = tmp
    /\ at[p] = "closed" => tmp \in Probe /\ content[tmp] = "full"
    /\ at[p] \in {"renamed", "versioned"} => blob \in Probe /\ content[blob] = "full"
    /\ at[p] \in {"cleanup", "purge", "remove", "unversion"} => (result[p] = "ok" <=> broken \subseteq {"delete"})

Alone(p) == Running(p) /\ p \notin overlapped

LoneInv ==
    \A p \in Probe : Alone(p) => Fine(p) /\ \A q \in Probe : q # p => ~Running(q)

LInv == TypeOK /\ LoneInv

LEMMA LoneInit == Init => LoneInv
BY DEF Init, LoneInv, Alone, Running

(* A step of a call that runs: only its own knowledge has to be looked at. *)
LEMMA OnlyMine ==
  ASSUME LInv, NEW p \in Probe, Running(p), \A q \in Probe : q # p => at'[q] = at[q],
         overlapped' = overlapped, Alone(p) => Fine(p)'
  PROVE  LoneInv'
<1> SUFFICES ASSUME NEW q \in Probe, Alone(q)'
             PROVE  Fine(q)' /\ \A o \in Probe : o # q => ~Running(o)'
  BY DEF LoneInv
<1>1. CASE q = p
  <2>1. Alone(p)
    BY <1>1 DEF Alone
  <2> QED BY <1>1, <2>1 DEF LInv, LoneInv, Running
<1>2. CASE q # p
  <2>1. Alone(q)
    BY <1>2 DEF Alone, Running
  <2> QED BY <1>2, <2>1 DEF LInv, LoneInv
<1> QED BY <1>1, <1>2

LEMMA StartLone == ASSUME LInv, NEW p \in Probe, Start(p) PROVE LoneInv'
<1>1. /\ at[p] = "idle" /\ at'[p] = "started"
      /\ \A q \in Probe : q # p => at'[q] = at[q]
      /\ LET others == {o \in Probe : Running(o)}
         IN  overlapped' = IF others = {} THEN overlapped ELSE overlapped \cup others \cup {p}
  BY DEF Start, Goes, LInv, TypeOK
<1>2. CASE \E o \in Probe : Running(o)
  <2>1. \A q \in Probe : Running(q)' => q \in overlapped'
    BY <1>1, <1>2 DEF Running
  <2> QED BY <2>1 DEF LoneInv, Alone
<1>3. CASE \A o \in Probe : ~Running(o)
  <2>1. \A q \in Probe : q # p => ~Running(q)'
    BY <1>1, <1>3 DEF Running
  <2>2. Fine(p)'
    BY <1>1 DEF Fine
  <2> QED BY <2>1, <2>2 DEF LoneInv, Alone
<1> QED BY <1>2, <1>3

(* The other steps of a call. *)
LEMMA MyStep ==
  ASSUME LInv, NEW p \in Probe, EarlySteps(p) \/ PurgeSteps(p), ~Start(p)
  PROVE  LoneInv'
<1>t. TypeOK
  BY DEF LInv
<1>1. /\ Running(p) /\ overlapped' = overlapped
      /\ \A q \in Probe : q # p => at'[q] = at[q]
  <2>1. CASE EarlySteps(p)
    BY <1>t, <2>1 DEF EarlySteps, StageRoundTrip, Fails, ReadbackFails, OpenGlobal, CloseGlobal,
       Rename, RenameFails, CompleteUpload, WriteVersion, ReadGlobal, CleanStaged, StagedRefused,
       Raises, Goes, Running, histVars, TypeOK
  <2>2. CASE PurgeSteps(p)
    BY <1>t, <2>2 DEF PurgeSteps, LookForBlob, RemoveBlob, LastSteps, PurgeObjects, PurgeRefused,
       RemoveFails, RemoveVersion, VersionRefused, Ends, Goes, Running, histVars, TypeOK
  <2> QED BY <2>1, <2>2
<1>2. ASSUME Alone(p) PROVE Fine(p)'
  <2>f. Fine(p)
    BY <1>2 DEF LInv, LoneInv
  <2>1. CASE StageRoundTrip(p)
    BY <2>1, <2>f, <1>t DEF StageRoundTrip, Goes, Fine, TypeOK, storeVars
  <2>2. CASE Fails(p)
    <3>1. /\ at'[p] = "cleanup" /\ result'[p] = "error" /\ ~(broken' \subseteq {"delete"})
      BY <2>2, <1>t DEF Fails, Raises, Goes, TypeOK, storeVars
    <3> QED BY <3>1 DEF Fine
  <2>3. CASE ReadbackFails(p)
    <3>1. /\ at'[p] = "cleanup" /\ result'[p] = "error" /\ ~(broken' \subseteq {"delete"})
      BY <2>3, <1>t DEF ReadbackFails, Goes, TypeOK, storeVars
    <3> QED BY <3>1 DEF Fine
  <2>4. CASE OpenGlobal(p)
    BY <2>4, <2>f, <1>t DEF OpenGlobal, Goes, Fine, TypeOK, storeVars
  <2>5. CASE CloseGlobal(p)
    BY <2>5, <2>f, <1>t DEF CloseGlobal, Goes, Fine, TypeOK, storeVars
  <2>6. CASE Rename(p)
    BY <2>6, <2>f, <1>t DEF Rename, Goes, Fine, TypeOK, storeVars
  <2>7. CASE RenameFails(p)
    BY <2>7, <2>f, NoneAssumption DEF RenameFails, CanReplace, Raises, Goes, Fine
  <2>8. CASE CompleteUpload(p)
    BY <2>8, <2>f, <1>t DEF CompleteUpload, Goes, Fine, TypeOK, storeVars
  <2>9. CASE WriteVersion(p)
    BY <2>9, <2>f, <1>t DEF WriteVersion, Goes, Fine, TypeOK, storeVars
  <2>10. CASE ReadGlobal(p)
    <3>1. Verdict = "ok" /\ at[p] = "versioned"
      BY <2>10, <2>f, NoneAssumption DEF ReadGlobal, Goes, Verdict, Fine
    <3>2. broken \subseteq {"delete"}
      <4>1. broken \subseteq Kind
        BY <1>t, BrokenAssumption DEF TypeOK
      <4> QED BY <3>1, <4>1, <2>f DEF Fine, Kind
    <3>3. at'[p] = "cleanup" /\ result'[p] = "ok" /\ broken' = broken
      BY <2>10, <3>1, <1>t DEF ReadGlobal, Goes, TypeOK, storeVars
    <3> QED BY <3>2, <3>3 DEF Fine
  <2>11. CASE CleanStaged(p) \/ StagedRefused(p) \/ PurgeSteps(p)
    <3>1. /\ at[p] \in {"cleanup", "purge", "remove", "unversion"}
          /\ at'[p] \in {"purge", "remove", "unversion", "done"}
          /\ result' = result /\ broken' = broken
      BY <2>11, <1>t DEF CleanStaged, StagedRefused, PurgeSteps, LookForBlob, RemoveBlob, LastSteps,
         PurgeObjects, PurgeRefused, RemoveFails, RemoveVersion, VersionRefused, Ends, Goes, TypeOK,
         storeVars
    <3> QED BY <3>1, <2>f DEF Fine
  <2> QED BY <2>1, <2>2, <2>3, <2>4, <2>5, <2>6, <2>7, <2>8, <2>9, <2>10, <2>11 DEF EarlySteps
<1> QED BY <1>1, <1>2, OnlyMine

LEMMA LoneStep == LInv /\ [Next]_vars => LInv'
<1> SUFFICES ASSUME LInv, [Next]_vars PROVE LoneInv'
  BY HealthTypes DEF LInv
<1>1. CASE UNCHANGED vars
  BY <1>1 DEF vars, storeVars, fileVars, histVars, LInv, LoneInv, Alone, Fine, Running
<1>2. CASE Crash
  <2>1. \A p \in Probe : ~Running(p)'
    BY <1>2 DEF Crash, Running
  <2> QED BY <2>1 DEF LoneInv, Alone
<1>3. CASE \E p \in Probe : EarlySteps(p) \/ PurgeSteps(p)
  BY <1>3, StartLone, MyStep
<1>4. Next => (\E p \in Probe : EarlySteps(p) \/ PurgeSteps(p)) \/ Crash
  BY DEF Next, EarlySteps, PurgeSteps, LastSteps
<1> QED BY <1>1, <1>2, <1>3, <1>4

(* LoneProbesAreRight: a call nobody overlapped tells a store that writes and
   reads from one that does not, whatever earlier or killed calls and refused
   deletes left in the files of the probe model (health_check).            *)
THEOREM LoneProbesAreRight == HealthSpec => []LoneProbeIsRight
<1>1. Init => LInv
  BY HealthInit, LoneInit DEF HInv, LInv
<1>2. LInv => LoneProbeIsRight
  BY DEF LInv, LoneInv, Alone, Running, Fine, LoneProbeIsRight
<1> QED BY <1>1, <1>2, LoneStep, PTL DEF HealthSpec
=============================================================================
