------------------------- MODULE FactorStoreProofs -------------------------
(***************************************************************************)
(* Proofs about FactorStore, for every number of folds, callers, clients   *)
(* and crashes: the types, the pinned rank and the clients' cursors for    *)
(* any storage; what the stored and the cached state agree on until a cold *)
(* caller caches late.                                                     *)
(***************************************************************************)
EXTENDS FactorStore, TLAPS, SequenceTheorems

(* Where a fold holds the lock. *)
Active(f) == fold[f] \in {"started", "opened", "numbered", "published", "truncated", "versioned"}

(* Where it has been checked and waits for its body, or for the lock. *)
Waits(f) == fold[f] \in {"checked", "staged"}

(* The lock is held by the one fold that is under way. *)
LockInv == \A f \in Fold : Active(f) <=> lock = f

Sound == faults = {}

(* What a step finds in the variables it reads. *)
ReadyInv ==
    /\ \A f \in Fold : /\ Active(f) \/ Waits(f) => cache \in FactorState /\ stamp[f] \in Stamp
                       /\ Active(f) => work[f] \in Work
    /\ \A l \in Loader : loader[l] = "read" => found[l] \in FactorState

TypeInv == TypeOK /\ LockInv /\ ReadyInv

-----------------------------------------------------------------------------
(* The metadata and the state cached with it are factor states. *)
LEMMA AfterType ==
  ASSUME NEW st \in FactorState, NEW s \in Stamp
  PROVE  /\ MetaAfter(st, s) \in FactorState
         /\ CacheAfter(st, s) = MetaAfter(st, s)
<1>1. /\ st.epoch \in Nat /\ st.folds \in 0..EpochFolds - 1 /\ st.rank \in Rank
      /\ s.compat \in Compat /\ EpochFolds \in Nat \ {0}
  BY EpochAssumption DEF FactorState, Stamp
<1>2. NewEpoch(st) \in Nat
  BY <1>1 DEF NewEpoch
<1>3. (IF Advances(st.folds + 1) THEN 0 ELSE st.folds + 1) \in 0..EpochFolds - 1
  BY <1>1 DEF Advances
<1> QED BY <1>1, <1>2, <1>3 DEF MetaAfter, CacheAfter, FactorState

LEMMA StoredType ==
  ASSUME TypeOK
  PROVE  /\ NewModel \in FactorState
         /\ StoredFolds \in Seq(Entry) /\ Len(StoredFolds) \in Nat
         /\ StoredMeta \in FactorState
<1>1. NewModel \in FactorState
  BY EpochAssumption DEF TypeOK, NewModel, FactorState
<1>2. StoredFolds \in Seq(Entry) /\ StoredMeta \in FactorState
  BY <1>1 DEF TypeOK, StoredFolds, StoredMeta, Blob
<1> QED BY <1>1, <1>2

(* A publication stores a global. *)
LEMMA PublishedBlob ==
  ASSUME NEW f \in Fold, FoldPublish(f), work[f] \in Work, stamp[f] \in Stamp
  PROVE  blob' \in Blob /\ blob' # None
<1>1. [by |-> f, stamp |-> stamp[f]] \in Entry
  BY DEF Entry
<1>2. Append(work[f].old, [by |-> f, stamp |-> stamp[f]]) \in Seq(Entry)
  BY <1>1, AppendProperties DEF Work
<1>3. MetaAfter(work[f].st, stamp[f]) \in FactorState
  BY AfterType DEF Work
<1>4. blob' \in Blob
  BY <1>2, <1>3 DEF FoldPublish, Blob
<1> QED BY <1>4, NoneAssumption

(* A step of a fold leaves the other folds alone. *)
LEMMA Moves ==
  ASSUME TypeOK, NEW f \in Fold, NEW from, NEW to, FoldMoves(f, from, to)
  PROVE  /\ fold[f] = from /\ fold'[f] = to
         /\ \A g \in Fold : g # f => fold'[g] = fold[g]
         /\ to \in FoldPhase => fold' \in [Fold -> FoldPhase]
BY DEF TypeOK, FoldMoves

(* The lock when a fold that held it ends. *)
LEMMA ReleaseKeepsLock ==
  ASSUME TypeInv, NEW f \in Fold, Active(f), ~Active(f)', lock' = None,
         \A g \in Fold : g # f => fold'[g] = fold[g]
  PROVE  LockInv'
<1>1. \A g \in Fold : g # f => ~Active(g)
  BY DEF TypeInv, LockInv
<1>2. \A g \in Fold : ~Active(g)'
  BY <1>1 DEF Active
<1> QED BY <1>2, DisjointAssumption DEF LockInv

(* The lock when a fold that holds it goes on. *)
LEMMA GoOnKeepsLock ==
  ASSUME TypeInv, NEW f \in Fold, Active(f), Active(f)', lock' = lock,
         \A g \in Fold : g # f => fold'[g] = fold[g]
  PROVE  LockInv'
BY DEF TypeInv, LockInv, Active

LEMMA TypeInit == Init => TypeInv
BY CrashAssumption, DisjointAssumption DEF Init, TypeInv, TypeOK, LockInv, ReadyInv, Active, Waits,
                                           FoldPhase

(* A step that leaves the folds alone, and the cached state known. *)
LEMMA LoadTypes ==
  ASSUME TypeInv, NEW l \in Loader, LoadMiss(l) \/ LoadRead(l) \/ LoadStore(l)
  PROVE  TypeInv'
<1>t. TypeOK /\ LockInv /\ ReadyInv
  BY DEF TypeInv
<1>1. UNCHANGED <<storeVars, config, foldVars, pullVars, crashes>>
  BY DEF LoadMiss, LoadRead, LoadStore
<1>2. TypeOK'
  <2>1. /\ loader' \in [Loader -> {"idle", "reading", "read"}]
        /\ found' \in [Loader -> FactorState \cup {None}]
        /\ cache' \in FactorState \cup {None}
        /\ late' \in Nat \cup {None}
    BY <1>t, StoredType DEF LoadMiss, LoadRead, LoadStore, TypeOK
  <2> QED BY <1>t, <1>1, <2>1 DEF TypeOK, storeVars, foldVars, pullVars
<1>3. LockInv'
  BY <1>t, <1>1 DEF LockInv, Active, foldVars
<1>4. ReadyInv'
  <2>1. cache \in FactorState => cache' \in FactorState
    BY <1>t DEF LoadMiss, LoadRead, LoadStore, ReadyInv
  <2>2. \A k \in Loader : loader'[k] = "read" => found'[k] \in FactorState
    BY <1>t, StoredType DEF LoadMiss, LoadRead, LoadStore, ReadyInv, TypeOK
  <2> QED BY <1>t, <1>1, <2>1, <2>2 DEF ReadyInv, Active, Waits, foldVars
<1> QED BY <1>2, <1>3, <1>4 DEF TypeInv

(* A fold before it holds the lock, and when it takes it. *)
Enters(f) == \/ \E s \in Stamps : FoldCheck(f, s)
             \/ FoldStage(f) \/ FoldStageFails(f) \/ FoldStart(f) \/ FoldRefused(f)

LEMMA EntryTypes ==
  ASSUME TypeInv, NEW f \in Fold, Enters(f)
  PROVE  TypeInv'
<1>t. TypeOK /\ LockInv /\ ReadyInv
  BY DEF TypeInv
<1>1. ASSUME NEW s \in Stamps, FoldCheck(f, s) PROVE TypeInv'
  <2>1. cache \in FactorState /\ s \in Stamp
    BY <1>t, <1>1 DEF FoldCheck, Stamps, Stamp, FactorState, TypeOK
  <2>2. /\ fold[f] = "idle" /\ fold'[f] = "checked" /\ fold' \in [Fold -> FoldPhase]
        /\ \A g \in Fold : g # f => fold'[g] = fold[g]
    BY <1>t, <1>1, Moves DEF FoldCheck, FoldPhase
  <2>3. /\ stamp' \in [Fold -> Stamp \cup {None}] /\ stamp'[f] = s
        /\ \A g \in Fold : g # f => stamp'[g] = stamp[g]
    BY <1>t, <1>1, <2>1 DEF FoldCheck, TypeOK
  <2>4. TypeOK'
    BY <1>t, <1>1, <2>2, <2>3 DEF FoldCheck, TypeOK, storeVars, loadVars, pullVars
  <2>5. LockInv'
    BY <1>t, <1>1, <2>2 DEF FoldCheck, LockInv, Active
  <2>6. ReadyInv'
    BY <1>t, <1>1, <2>1, <2>2, <2>3 DEF FoldCheck, ReadyInv, Active, Waits, loadVars
  <2> QED BY <2>4, <2>5, <2>6 DEF TypeInv
<1>2. CASE FoldStart(f)
  <2>1. cache \in FactorState /\ lock = None
    BY <1>t, <1>2 DEF FoldStart, FoldMoves, ReadyInv, Waits, LockFree
  <2>2. /\ fold[f] = "staged" /\ fold'[f] = "started" /\ fold' \in [Fold -> FoldPhase]
        /\ \A g \in Fold : g # f => fold'[g] = fold[g]
    BY <1>t, <1>2, Moves DEF FoldStart, FoldPhase
  <2>3. [st |-> cache, old |-> <<>>, next |-> 0] \in Work
    BY <2>1 DEF Work
  <2>4. /\ work' \in [Fold -> Work \cup {None}] /\ work'[f] \in Work
        /\ \A g \in Fold : g # f => work'[g] = work[g]
    BY <1>t, <1>2, <2>3 DEF FoldStart, TypeOK
  <2>5. TypeOK'
    BY <1>t, <1>2, <2>2, <2>4 DEF FoldStart, TypeOK, storeVars, loadVars, pullVars
  <2>6. \A g \in Fold : ~Active(g)
    BY <1>t, <2>1, DisjointAssumption DEF LockInv
  <2>7. LockInv'
    BY <1>2, <2>2, <2>6 DEF FoldStart, LockInv, Active
  <2>8. ReadyInv'
    BY <1>t, <1>2, <2>1, <2>2, <2>4 DEF FoldStart, ReadyInv, Active, Waits, loadVars
  <2> QED BY <2>5, <2>7, <2>8 DEF TypeInv
<1>3. CASE FoldStage(f)
  <2>1. /\ fold[f] = "checked" /\ fold'[f] = "staged" /\ fold' \in [Fold -> FoldPhase]
        /\ \A g \in Fold : g # f => fold'[g] = fold[g]
    BY <1>t, <1>3, Moves DEF FoldStage, FoldPhase
  <2>2. TypeOK'
    BY <1>t, <1>3, <2>1 DEF FoldStage, TypeOK, storeVars, loadVars, pullVars
  <2>3. LockInv'
    BY <1>t, <1>3, <2>1 DEF FoldStage, LockInv, Active
  <2>4. ReadyInv'
    BY <1>t, <1>3, <2>1 DEF FoldStage, ReadyInv, Active, Waits, loadVars
  <2> QED BY <2>2, <2>3, <2>4 DEF TypeInv
<1>4. CASE FoldStageFails(f) \/ FoldRefused(f)
  <2>1. /\ Waits(f) /\ fold'[f] = "void" /\ fold' \in [Fold -> FoldPhase]
        /\ \A g \in Fold : g # f => fold'[g] = fold[g]
    BY <1>t, <1>4, Moves DEF FoldStageFails, FoldRefused, FoldPhase, Waits
  <2>2. /\ stamp' = [stamp EXCEPT ![f] = None]
        /\ UNCHANGED <<storeVars, config, cache, loadVars, work, lock, pullVars, crashes>>
    BY <1>4 DEF FoldStageFails, FoldRefused
  <2>3. /\ stamp' \in [Fold -> Stamp \cup {None}]
        /\ \A g \in Fold : g # f => stamp'[g] = stamp[g]
    BY <1>t, <2>2 DEF TypeOK
  <2>4. TypeOK'
    BY <1>t, <2>1, <2>2, <2>3 DEF TypeOK, storeVars, loadVars, pullVars
  <2>5. LockInv'
    BY <1>t, <2>1, <2>2 DEF LockInv, Active, Waits
  <2>6. ReadyInv'
    BY <1>t, <2>1, <2>2, <2>3 DEF ReadyInv, Active, Waits, loadVars
  <2> QED BY <2>4, <2>5, <2>6 DEF TypeInv
<1> QED BY <1>1, <1>2, <1>3, <1>4 DEF Enters

(* A fold that goes on under the lock. *)
GoesOn(f) ==
    FoldOpen(f) \/ FoldNumber(f) \/ FoldPublish(f) \/ FoldTruncate(f) \/ FoldVersion(f)

(* A fold that ends and lets go of it. *)
Ends(f) == FoldVoid(f) \/ FoldVersionFails(f) \/ FoldCache(f)

LEMMA GoesOnTypes ==
  ASSUME TypeInv, NEW f \in Fold, GoesOn(f)
  PROVE  TypeInv'
<1>t. TypeOK /\ LockInv /\ ReadyInv
  BY DEF TypeInv
<1>1. /\ Active(f) /\ Active(f)' /\ fold' \in [Fold -> FoldPhase]
      /\ \A g \in Fold : g # f => fold'[g] = fold[g]
  BY <1>t DEF GoesOn, FoldOpen, FoldNumber, FoldPublish, FoldTruncate, FoldVersion,
              FoldMoves, Active, FoldPhase, TypeOK
<1>2. UNCHANGED <<backend, faults, config, cache, loadVars, stamp, lock, pullVars, crashes>>
  BY DEF GoesOn, FoldOpen, FoldNumber, FoldPublish, FoldTruncate, FoldVersion, storeVars
<1>3. work[f] \in Work /\ stamp[f] \in Stamp
  BY <1>t, <1>1 DEF ReadyInv, Active, Waits
<1>4. /\ work' \in [Fold -> Work \cup {None}] /\ work'[f] \in Work
      /\ \A g \in Fold : g # f => work'[g] = work[g]
  <2>1. CASE FoldOpen(f)
    <3>1. StoredFolds \in Seq(Entry) /\ <<>> \in Seq(Entry)
      BY <1>t, StoredType
    <3>2. CASE work' = [work EXCEPT ![f].old = StoredFolds]
      BY <1>t, <1>3, <3>1, <3>2 DEF TypeOK, Work
    <3>3. CASE work' = [work EXCEPT ![f].old = <<>>]
      BY <1>t, <1>3, <3>1, <3>3 DEF TypeOK, Work
    <3> QED BY <2>1, <3>2, <3>3 DEF FoldOpen
  <2>2. CASE FoldNumber(f)
    <3>1. VersionRead + 1 \in Nat
      BY <1>t, <2>2 DEF FoldNumber, VersionRead, TypeOK
    <3>2. PICK n \in Nat : work' = [work EXCEPT ![f].next = n]
      BY <2>2, <3>1 DEF FoldNumber
    <3> QED BY <1>t, <1>3, <3>2 DEF TypeOK, Work
  <2>3. CASE work' = work
    BY <1>t, <1>3, <2>3 DEF TypeOK
  <2> QED BY <2>1, <2>2, <2>3 DEF GoesOn, FoldPublish, FoldTruncate, FoldVersion
<1>5. blob' \in Blob \cup {None}
  <2>1. CASE FoldPublish(f)
    BY <1>3, <2>1, PublishedBlob
  <2>2. CASE blob' = blob
    BY <1>t, <2>2 DEF TypeOK
  <2> QED BY <2>1, <2>2 DEF GoesOn, FoldOpen, FoldNumber, FoldTruncate, FoldVersion, storeVars
<1>6. version' \in Nat \cup {None, Torn}
  BY <1>t, <1>3 DEF GoesOn, FoldOpen, FoldNumber, FoldPublish, FoldTruncate, FoldVersion,
                    storeVars, TypeOK, Work
<1>7. TypeOK'
  BY <1>t, <1>1, <1>2, <1>4, <1>5, <1>6 DEF TypeOK, loadVars, pullVars
<1>8. LockInv'
  BY <1>1, <1>2, GoOnKeepsLock
<1>9. ReadyInv'
  BY <1>t, <1>1, <1>2, <1>3, <1>4 DEF ReadyInv, Active, Waits, loadVars
<1> QED BY <1>7, <1>8, <1>9 DEF TypeInv

LEMMA EndsTypes ==
  ASSUME TypeInv, NEW f \in Fold, Ends(f)
  PROVE  TypeInv'
<1>t. TypeOK /\ LockInv /\ ReadyInv
  BY DEF TypeInv
<1>1. /\ Active(f) /\ fold'[f] \in {"void", "done"} /\ fold' \in [Fold -> FoldPhase]
      /\ \A g \in Fold : g # f => fold'[g] = fold[g]
  BY <1>t DEF Ends, FoldVoid, FoldVersionFails, FoldCache, FoldMoves, Active, FoldPhase, TypeOK
<1>2. /\ lock' = None
      /\ work' = [work EXCEPT ![f] = None] /\ stamp' = [stamp EXCEPT ![f] = None]
      /\ UNCHANGED <<storeVars, config, loadVars, pullVars, crashes>>
  BY DEF Ends, FoldVoid, FoldVersionFails, FoldCache, Released
<1>3. cache \in FactorState /\ cache' \in FactorState
  <2>1. cache \in FactorState /\ work[f] \in Work /\ stamp[f] \in Stamp
    BY <1>t, <1>1 DEF ReadyInv, Active, Waits
  <2>2. CacheAfter(work[f].st, stamp[f]) \in FactorState
    BY <2>1, AfterType DEF Work
  <2> QED BY <2>1, <2>2 DEF Ends, FoldVoid, FoldVersionFails, FoldCache
<1>4. TypeOK'
  <2>1. work' \in [Fold -> Work \cup {None}] /\ stamp' \in [Fold -> Stamp \cup {None}]
    BY <1>t, <1>2 DEF TypeOK
  <2> QED BY <1>t, <1>1, <1>2, <1>3, <2>1 DEF TypeOK, storeVars, loadVars, pullVars
<1>5. LockInv'
  <2>1. ~Active(f)'
    BY <1>1 DEF Active
  <2> QED BY <1>1, <1>2, <2>1, ReleaseKeepsLock
<1>6. ReadyInv'
  <2>1. \A g \in Fold : g # f => work'[g] = work[g] /\ stamp'[g] = stamp[g]
    BY <1>t, <1>2 DEF TypeOK
  <2> QED BY <1>t, <1>1, <1>2, <1>3, <2>1 DEF ReadyInv, Active, Waits, loadVars
<1> QED BY <1>4, <1>5, <1>6 DEF TypeInv

LEMMA PullTypes ==
  ASSUME TypeInv, NEW p \in Puller, PullVersion(p) \/ PullBody(p) \/ PullFails(p)
  PROVE  TypeInv'
<1>t. TypeOK /\ LockInv /\ ReadyInv
  BY DEF TypeInv
<1>1. UNCHANGED <<storeVars, config, cache, loadVars, foldVars, crashes>>
  BY DEF PullVersion, PullBody, PullFails
<1>2. /\ puller' \in [Puller -> {"idle", "open"}] /\ seen' \in [Puller -> Nat]
      /\ cursor' \in [Puller -> Nat] /\ body' \in [Puller -> Blob \cup {None}]
  BY <1>t DEF PullVersion, PullBody, PullFails, TypeOK
<1>3. TypeOK'
  BY <1>t, <1>1, <1>2 DEF TypeOK, storeVars, loadVars, foldVars
<1> QED BY <1>t, <1>1, <1>3 DEF TypeInv, LockInv, ReadyInv, Active, Waits, loadVars, foldVars

LEMMA CrashTypes ==
  ASSUME TypeInv, Crash
  PROVE  TypeInv'
<1>t. TypeOK /\ LockInv /\ ReadyInv
  BY DEF TypeInv
<1>1. \A f \in Fold : /\ fold'[f] \in {"idle", "done", "void", "lost"}
                       /\ fold'[f] # "idle" => fold[f] # "idle"
  BY DEF Crash
<1>2. TypeOK'
  <2>1. fold' \in [Fold -> FoldPhase]
    BY <1>1 DEF Crash, FoldPhase
  <2>2. crashes' \in 0..MaxCrashes
    BY <1>t, CrashAssumption DEF Crash, TypeOK
  <2> QED BY <1>t, <2>1, <2>2 DEF Crash, TypeOK, storeVars
<1>3. LockInv'
  BY <1>1, DisjointAssumption DEF Crash, LockInv, Active
<1>4. ReadyInv'
  BY <1>t, <1>1 DEF Crash, ReadyInv, Active, Waits
<1> QED BY <1>2, <1>3, <1>4 DEF TypeInv

LEMMA IdleTypes == TypeInv /\ UNCHANGED vars => TypeInv'
BY DEF TypeInv, TypeOK, LockInv, ReadyInv, Active, Waits, vars, storeVars, loadVars, foldVars,
       pullVars

(* The actions, grouped as the lemmas are. *)
LEMMA StepCases ==
  ASSUME [Next]_vars
  PROVE  \/ \E l \in Loader : LoadMiss(l) \/ LoadRead(l) \/ LoadStore(l)
         \/ \E f \in Fold : Enters(f)
         \/ \E f \in Fold : GoesOn(f)
         \/ \E f \in Fold : Ends(f)
         \/ \E p \in Puller : PullVersion(p) \/ PullBody(p) \/ PullFails(p)
         \/ Crash
         \/ UNCHANGED vars
BY DEF Next, Enters, GoesOn, Ends

(* What the storage is and how it fails never changes. *)
LEMMA FaultsKept == [Next]_vars => UNCHANGED <<backend, faults>>
<1> SUFFICES ASSUME [Next]_vars PROVE UNCHANGED <<backend, faults>>
  OBVIOUS
<1>1. ASSUME NEW l \in Loader, LoadMiss(l) \/ LoadRead(l) \/ LoadStore(l)
      PROVE  UNCHANGED <<backend, faults>>
  BY <1>1 DEF LoadMiss, LoadRead, LoadStore, storeVars
<1>2. ASSUME NEW f \in Fold, Enters(f)
      PROVE  UNCHANGED <<backend, faults>>
  BY <1>2 DEF Enters, FoldCheck, FoldStage, FoldStageFails, FoldStart, FoldRefused, storeVars
<1>3. ASSUME NEW f \in Fold, GoesOn(f) PROVE UNCHANGED <<backend, faults>>
  BY <1>3 DEF GoesOn, FoldOpen, FoldNumber, FoldPublish, FoldTruncate, FoldVersion, storeVars
<1>4. ASSUME NEW f \in Fold, Ends(f) PROVE UNCHANGED <<backend, faults>>
  BY <1>4 DEF Ends, FoldVoid, FoldVersionFails, FoldCache, storeVars
<1>5. ASSUME NEW p \in Puller, PullVersion(p) \/ PullBody(p) \/ PullFails(p)
      PROVE  UNCHANGED <<backend, faults>>
  BY <1>5 DEF PullVersion, PullBody, PullFails, storeVars
<1>6. CASE Crash
  BY <1>6 DEF Crash, storeVars
<1>7. CASE UNCHANGED vars
  BY <1>7 DEF vars, storeVars
<1> QED BY <1>1, <1>2, <1>3, <1>4, <1>5, <1>6, <1>7, StepCases

LEMMA TypeStep == TypeInv /\ [Next]_vars => TypeInv'
BY StepCases, LoadTypes, EntryTypes, GoesOnTypes, EndsTypes, PullTypes, CrashTypes, IdleTypes

(* StoreTypes: blob, sidecar, caches, folds and clients keep their types, and
   the lock is held by the one fold that is under way, whatever fails and
   however often the server crashes (_fold_streamed, `async with lock`).   *)
THEOREM StoreTypes == StoreSpec => [](TypeOK /\ LockInv)
<1>1. TypeInv => TypeOK /\ LockInv
  BY DEF TypeInv
<1> QED BY <1>1, TypeInit, TypeStep, PTL DEF StoreSpec

-----------------------------------------------------------------------------
(* Storage that reads what is stored. *)

(* Everything known of a model's rank is its rank. *)
RankInv ==
    Reads => /\ cache # None => cache.rank = StoredMeta.rank
             /\ \A l \in Loader : loader[l] = "read" => found[l].rank = StoredMeta.rank
             /\ \A f \in Fold : Active(f) => work[f].st.rank = StoredMeta.rank

RankKept == (Reads /\ blob # None) => blob'.meta.rank = blob.meta.rank

LEMMA RankInit == Init => RankInv
BY DEF Init, RankInv, Active

(* A step that writes no blob keeps the stored factor state. *)
LEMMA StoredSame ==
  ASSUME UNCHANGED <<blob, config>>
  PROVE  StoredFolds' = StoredFolds /\ StoredMeta' = StoredMeta
BY DEF StoredFolds, StoredMeta, NewModel

LEMMA RankStep == TypeInv /\ RankInv /\ [Next]_vars => RankInv' /\ RankKept
<1> SUFFICES ASSUME TypeInv, RankInv, [Next]_vars, Reads
             PROVE  RankInv' /\ RankKept
  <2>1. [Next]_vars => Reads' = Reads
    BY FaultsKept DEF Reads
  <2> QED BY <2>1 DEF RankInv, RankKept
<1>t. TypeOK /\ LockInv /\ ReadyInv
  BY DEF TypeInv
<1>r. /\ cache # None => cache.rank = StoredMeta.rank
      /\ \A l \in Loader : loader[l] = "read" => found[l].rank = StoredMeta.rank
      /\ \A f \in Fold : Active(f) => work[f].st.rank = StoredMeta.rank
  BY DEF RankInv
<1>1. ASSUME NEW l \in Loader, LoadMiss(l) \/ LoadRead(l) \/ LoadStore(l)
      PROVE  RankInv' /\ RankKept
  <2>1. UNCHANGED <<blob, config, fold, work>>
    BY <1>1 DEF LoadMiss, LoadRead, LoadStore, storeVars, foldVars
  <2>2. StoredMeta' = StoredMeta
    BY <2>1, StoredSame
  <2>3. cache' # None => cache'.rank = StoredMeta.rank
    BY <1>1, <1>r DEF LoadMiss, LoadRead, LoadStore
  <2>4. \A k \in Loader : loader'[k] = "read" => found'[k].rank = StoredMeta.rank
    BY <1>1, <1>t, <1>r DEF LoadMiss, LoadRead, LoadStore, MayMissBlob, Reads, TypeOK
  <2> QED BY <2>1, <2>2, <2>3, <2>4, <1>r DEF RankInv, RankKept, Active
<1>2. ASSUME NEW f \in Fold, Enters(f)
      PROVE  RankInv' /\ RankKept
  <2>1. UNCHANGED <<blob, config, cache, loader, found>>
    BY <1>2 DEF Enters, FoldCheck, FoldStage, FoldStageFails, FoldStart, FoldRefused, storeVars,
                loadVars
  <2>2. StoredMeta' = StoredMeta
    BY <2>1, StoredSame
  <2>3. ASSUME NEW g \in Fold, Active(g)' PROVE work'[g].st.rank = StoredMeta.rank
    <3>1. CASE FoldStart(f) /\ g = f
      <4>1. work'[f].st = cache
        BY <1>t, <3>1 DEF FoldStart, TypeOK
      <4>2. cache # None
        BY <1>t, <3>1, NoneAssumption DEF FoldStart, FoldMoves, ReadyInv, Waits
      <4> QED BY <3>1, <4>1, <4>2, <1>r
    <3>2. CASE ~(FoldStart(f) /\ g = f)
      <4>1. Active(g) /\ work'[g] = work[g]
        BY <1>2, <1>t, <2>3, <3>2 DEF Enters, FoldCheck, FoldStage, FoldStageFails, FoldStart,
                                      FoldRefused, FoldMoves, Active, TypeOK
      <4> QED BY <4>1, <1>r
    <3> QED BY <3>1, <3>2
  <2> QED BY <2>1, <2>2, <2>3, <1>r DEF RankInv, RankKept
<1>3. ASSUME NEW f \in Fold, GoesOn(f)
      PROVE  RankInv' /\ RankKept
  <2>1. /\ UNCHANGED <<config, cache, loader, found>>
        /\ Active(f)
        /\ \A g \in Fold : g # f => fold'[g] = fold[g]
    BY <1>3, <1>t DEF GoesOn, FoldOpen, FoldNumber, FoldPublish, FoldTruncate, FoldVersion,
                      FoldMoves, Active, loadVars, TypeOK
  <2>2. work[f] \in Work /\ stamp[f] \in Stamp
    BY <1>t, <2>1 DEF ReadyInv, Active, Waits
  <2>3. /\ \A g \in Fold : g # f => work'[g] = work[g]
        /\ work'[f].st = work[f].st
    BY <1>3, <1>t, <2>2 DEF GoesOn, FoldOpen, FoldNumber, FoldPublish, FoldTruncate, FoldVersion,
                           TypeOK, Work
  <2>4. StoredMeta'.rank = StoredMeta.rank /\ RankKept
    <3>1. CASE FoldPublish(f)
      <4>1. blob'.meta = MetaAfter(work[f].st, stamp[f])
        BY <3>1 DEF FoldPublish
      <4>2. blob'.meta.rank = work[f].st.rank
        BY <4>1 DEF MetaAfter
      <4>3. blob' # None
        BY <2>2, <3>1, PublishedBlob
      <4> QED BY <4>2, <4>3, <2>1, <1>r DEF StoredMeta, RankKept
    <3>2. CASE blob' = blob
      BY <3>2, <2>1, StoredSame DEF RankKept
    <3> QED BY <1>3, <3>1, <3>2 DEF GoesOn, FoldOpen, FoldNumber, FoldTruncate, FoldVersion,
                                    storeVars
  <2> QED BY <2>1, <2>3, <2>4, <1>r DEF RankInv, Active
<1>4. ASSUME NEW f \in Fold, Ends(f)
      PROVE  RankInv' /\ RankKept
  <2>1. UNCHANGED <<blob, config, loader, found>>
    BY <1>4 DEF Ends, FoldVoid, FoldVersionFails, FoldCache, storeVars, loadVars
  <2>2. StoredMeta' = StoredMeta
    BY <2>1, StoredSame
  <2>3. Active(f) /\ cache \in FactorState
    BY <1>4, <1>t DEF Ends, FoldVoid, FoldVersionFails, FoldCache, FoldMoves, Active, ReadyInv
  <2>4. cache' # None => cache'.rank = StoredMeta.rank
    BY <1>4, <1>r, <2>3 DEF Ends, FoldVoid, FoldVersionFails, FoldCache, CacheAfter
  <2>5. \A g \in Fold : Active(g)' => Active(g) /\ work'[g] = work[g]
    BY <1>4, <1>t DEF Ends, FoldVoid, FoldVersionFails, FoldCache, FoldMoves, Released, Active,
                      TypeOK
  <2> QED BY <2>1, <2>2, <2>4, <2>5, <1>r DEF RankInv, RankKept
<1>5. ASSUME NEW p \in Puller, PullVersion(p) \/ PullBody(p) \/ PullFails(p)
      PROVE  RankInv' /\ RankKept
  <2>1. UNCHANGED <<blob, config, cache, loader, found, fold, work>>
    BY <1>5 DEF PullVersion, PullBody, PullFails, storeVars, loadVars, foldVars
  <2> QED BY <2>1, StoredSame, <1>r DEF RankInv, RankKept, Active
<1>6. CASE Crash
  <2>1. blob' = blob /\ cache' = None /\ \A l \in Loader : loader'[l] = "idle"
    BY <1>6 DEF Crash, storeVars
  <2>2. \A f \in Fold : ~Active(f)'
    BY <1>6 DEF Crash, Active
  <2> QED BY <2>1, <2>2 DEF RankInv, RankKept
<1>7. CASE UNCHANGED vars
  <2>1. UNCHANGED <<blob, config, cache, loader, found, fold, work>>
    BY <1>7 DEF vars, storeVars, loadVars, foldVars
  <2> QED BY <2>1, StoredSame, <1>r DEF RankInv, RankKept, Active
<1> QED BY <1>1, <1>2, <1>3, <1>4, <1>5, <1>6, <1>7, StepCases

(* RankIsPinned: the rank a stored global was created with is its rank for
   good, for any number of cold callers, crashes and reconfigurations, and
   although publications fail half way (state, _fold_streamed).            *)
THEOREM RankIsPinned == StoreSpec => RankPinned
<1>1. TypeInv /\ RankInv /\ [Next]_vars => [RankKept]_vars
  BY RankStep
<1> QED BY <1>1, TypeInit, TypeStep, RankInit, RankStep, PTL DEF StoreSpec, RankPinned, RankKept,
                                                                 Reads

-----------------------------------------------------------------------------
(* The version never counts more folds than are stored: a fold adds to what
   is stored, and numbers its publication before it publishes.             *)

Stored == Len(StoredFolds)

BaseInv ==
    \A f \in Fold : fold[f] \in {"opened", "numbered"} => work[f].old = StoredFolds

NumberInv ==
    /\ \A f \in Fold : /\ fold[f] = "numbered" => work[f].next <= Stored + 1
                       /\ fold[f] \in {"published", "truncated", "versioned"} =>
                              work[f].next <= Stored
    /\ version \in Nat => version <= Stored

SeenInv ==
    \A p \in Puller : /\ puller[p] = "open" => seen[p] <= Stored
                      /\ cursor[p] <= IF body[p] = None THEN 0 ELSE Len(body[p].folds)

CountInv == Reads => BaseInv /\ NumberInv /\ SeenInv

LEMMA CountInit == Init => CountInv
BY DisjointAssumption DEF Init, CountInv, BaseInv, NumberInv, SeenInv, Stored, StoredFolds

(* A step that keeps the blob, the version, the folds and the clients. *)
LEMMA CountSame ==
  ASSUME CountInv, UNCHANGED <<faults, blob, version, fold, work, pullVars>>
  PROVE  CountInv'
<1>1. StoredFolds' = StoredFolds
  BY DEF StoredFolds
<1> QED BY <1>1 DEF CountInv, Reads, BaseInv, NumberInv, SeenInv, Stored, pullVars

(* What a publication adds. *)
LEMMA PublishAppends ==
  ASSUME TypeInv, NEW f \in Fold, FoldPublish(f), work[f].old = StoredFolds
  PROVE  /\ StoredFolds' = Append(StoredFolds, [by |-> f, stamp |-> stamp[f]])
         /\ StoredMeta' = MetaAfter(work[f].st, stamp[f])
         /\ Len(StoredFolds') = Len(StoredFolds) + 1
         /\ \A i \in 1..Len(StoredFolds) : StoredFolds'[i] = StoredFolds[i]
         /\ StoredFolds'[Len(StoredFolds) + 1] = [by |-> f, stamp |-> stamp[f]]
<1>1. Active(f)
  BY DEF FoldPublish, FoldMoves, Active
<1>2. work[f] \in Work /\ stamp[f] \in Stamp
  BY <1>1 DEF TypeInv, ReadyInv, Active, Waits
<1>3. blob' # None
  BY <1>2, PublishedBlob
<1>4. /\ StoredFolds' = Append(StoredFolds, [by |-> f, stamp |-> stamp[f]])
      /\ StoredMeta' = MetaAfter(work[f].st, stamp[f])
  BY <1>3 DEF FoldPublish, StoredFolds, StoredMeta
<1>5. [by |-> f, stamp |-> stamp[f]] \in Entry /\ StoredFolds \in Seq(Entry)
  BY <1>2, StoredType DEF TypeInv, Entry
<1> QED BY <1>4, <1>5, AppendProperties

LEMMA CountStep == TypeInv /\ CountInv /\ [Next]_vars => CountInv'
<1> SUFFICES ASSUME TypeInv, CountInv, [Next]_vars, Reads PROVE CountInv'
  <2>1. [Next]_vars => Reads' = Reads
    BY FaultsKept DEF Reads
  <2> QED BY <2>1 DEF CountInv
<1>t. TypeOK /\ LockInv /\ ReadyInv /\ UNCHANGED faults
  BY FaultsKept DEF TypeInv
<1>c. BaseInv /\ NumberInv /\ SeenInv
  BY DEF CountInv
<1>n. Stored \in Nat
  <2>1. StoredFolds \in Seq(Entry)
    BY <1>t, StoredType
  <2> QED BY <2>1 DEF Stored
<1>1. ASSUME NEW l \in Loader, LoadMiss(l) \/ LoadRead(l) \/ LoadStore(l)
      PROVE  CountInv'
  <2>1. UNCHANGED <<faults, blob, version, fold, work, pullVars>>
    BY <1>1 DEF LoadMiss, LoadRead, LoadStore, storeVars, foldVars
  <2> QED BY <2>1, CountSame
<1>2. ASSUME NEW f \in Fold, Enters(f)
      PROVE  CountInv'
  <2>1. UNCHANGED <<blob, version, pullVars>>
    BY <1>2 DEF Enters, FoldCheck, FoldStage, FoldStageFails, FoldStart, FoldRefused, storeVars
  <2>2. \A g \in Fold : /\ fold'[g] = fold[g] /\ work'[g] = work[g]
                        \/ fold'[g] \in {"checked", "staged", "started", "void"}
    BY <1>2, <1>t DEF Enters, FoldCheck, FoldStage, FoldStageFails, FoldStart, FoldRefused,
                      FoldMoves, TypeOK
  <2>3. StoredFolds' = StoredFolds
    BY <2>1 DEF StoredFolds
  <2> QED BY <1>c, <2>1, <2>2, <2>3 DEF CountInv, BaseInv, NumberInv, SeenInv, Stored, pullVars
<1>3. ASSUME NEW f \in Fold, GoesOn(f)
      PROVE  CountInv'
  <2>1. /\ UNCHANGED pullVars
        /\ Active(f)
        /\ \A g \in Fold : g # f => fold'[g] = fold[g] /\ ~Active(g)
    BY <1>3, <1>t DEF GoesOn, FoldOpen, FoldNumber, FoldPublish, FoldTruncate, FoldVersion,
                      FoldMoves, Active, LockInv, TypeOK
  <2>2. work[f] \in Work /\ stamp[f] \in Stamp
    BY <1>t, <2>1 DEF ReadyInv, Active, Waits
  <2>3. CASE FoldOpen(f)
    <3>1. /\ UNCHANGED <<blob, version>>
          /\ fold'[f] = "opened" /\ work'[f].old = StoredFolds
      BY <2>3, <2>2, <1>t DEF FoldOpen, FoldMoves, MayMissBlob, Reads, storeVars, TypeOK, Work
    <3>2. StoredFolds' = StoredFolds
      BY <3>1 DEF StoredFolds
    <3> QED BY <1>c, <2>1, <3>1, <3>2
         DEF CountInv, BaseInv, NumberInv, SeenInv, Stored, Active, pullVars
  <2>4. CASE FoldNumber(f)
    <3>1. /\ UNCHANGED <<blob, version>>
          /\ fold[f] = "opened" /\ fold'[f] = "numbered"
          /\ work'[f].old = work[f].old /\ work'[f].next = VersionRead + 1
      BY <2>4, <2>2, <1>t DEF FoldNumber, FoldMoves, MayMissVersion, Reads, storeVars, TypeOK, Work
    <3>2. StoredFolds' = StoredFolds
      BY <3>1 DEF StoredFolds
    <3>3. VersionRead <= Stored /\ VersionRead \in Nat
      BY <1>c, <1>t, <1>n, <2>4 DEF VersionRead, NumberInv, FoldNumber, TypeOK
    <3> QED BY <1>c, <1>n, <2>1, <3>1, <3>2, <3>3
         DEF CountInv, BaseInv, NumberInv, SeenInv, Stored, Active, pullVars
  <2>5. CASE FoldPublish(f)
    <3>1. /\ UNCHANGED <<version, work>>
          /\ fold[f] = "numbered" /\ fold'[f] = "published"
      BY <2>5, <1>t DEF FoldPublish, FoldMoves, TypeOK
    <3>2. Stored' = Stored + 1
      BY <1>c, <3>1, <2>5, PublishAppends DEF BaseInv, Stored
    <3>3. BaseInv'
      BY <2>1, <3>1 DEF BaseInv, Active
    <3>4. NumberInv'
      BY <1>c, <1>t, <1>n, <2>1, <3>1, <3>2 DEF NumberInv, Active
    <3>5. SeenInv'
      BY <1>c, <1>t, <1>n, <2>1, <3>2 DEF SeenInv, TypeOK, pullVars
    <3> QED BY <3>3, <3>4, <3>5 DEF CountInv
  <2>6. CASE FoldTruncate(f)
    <3>1. /\ UNCHANGED <<blob, work>> /\ version' = Torn
          /\ fold[f] = "published" /\ fold'[f] = "truncated"
      BY <2>6, <1>t DEF FoldTruncate, FoldMoves, TypeOK
    <3>2. StoredFolds' = StoredFolds
      BY <3>1 DEF StoredFolds
    <3> QED BY <1>c, <2>1, <3>1, <3>2, DisjointAssumption
         DEF CountInv, BaseInv, NumberInv, SeenInv, Stored, Active, pullVars
  <2>7. CASE FoldVersion(f)
    <3>1. /\ UNCHANGED <<blob, work>> /\ version' = work[f].next
          /\ fold[f] \in {"published", "truncated"} /\ fold'[f] = "versioned"
      BY <2>7, <1>t DEF FoldVersion, FoldMoves, TypeOK
    <3>2. StoredFolds' = StoredFolds
      BY <3>1 DEF StoredFolds
    <3> QED BY <1>c, <2>1, <3>1, <3>2
         DEF CountInv, BaseInv, NumberInv, SeenInv, Stored, Active, pullVars
  <2> QED BY <1>3, <2>3, <2>4, <2>5, <2>6, <2>7 DEF GoesOn
<1>4. ASSUME NEW f \in Fold, Ends(f)
      PROVE  CountInv'
  <2>1. UNCHANGED <<blob, version, pullVars>>
    BY <1>4 DEF Ends, FoldVoid, FoldVersionFails, FoldCache, storeVars
  <2>2. \A g \in Fold : /\ fold'[g] = fold[g] /\ work'[g] = work[g]
                        \/ fold'[g] \in {"void", "done"}
    BY <1>4, <1>t DEF Ends, FoldVoid, FoldVersionFails, FoldCache, FoldMoves, Released, TypeOK
  <2>3. StoredFolds' = StoredFolds
    BY <2>1 DEF StoredFolds
  <2> QED BY <1>c, <2>1, <2>2, <2>3 DEF CountInv, BaseInv, NumberInv, SeenInv, Stored, pullVars
<1>5. ASSUME NEW p \in Puller, PullVersion(p) \/ PullBody(p) \/ PullFails(p)
      PROVE  CountInv'
  <2>1. UNCHANGED <<blob, version, fold, work>>
    BY <1>5 DEF PullVersion, PullBody, PullFails, storeVars, foldVars
  <2>2. StoredFolds' = StoredFolds
    BY <2>1 DEF StoredFolds
  <2>3. SeenInv'
    <3>1. CASE PullVersion(p)
      BY <1>c, <1>t, <2>2, <3>1 DEF SeenInv, NumberInv, Stored, PullVersion, TypeOK
    <3>2. CASE PullBody(p)
      <4>1. StoredFolds = blob.folds /\ blob # None
        BY <3>2 DEF PullBody, StoredFolds
      <4> QED BY <1>c, <1>t, <2>2, <3>2, <4>1 DEF SeenInv, Stored, PullBody, TypeOK
    <3>3. CASE PullFails(p)
      BY <1>c, <1>t, <2>2, <3>3 DEF SeenInv, Stored, PullFails, TypeOK
    <3> QED BY <1>5, <3>1, <3>2, <3>3
  <2> QED BY <1>c, <2>1, <2>2, <2>3 DEF CountInv, BaseInv, NumberInv, Stored
<1>6. CASE Crash
  <2>1. UNCHANGED <<blob, version, cursor, body>>
    BY <1>6 DEF Crash, storeVars
  <2>2. \A f \in Fold : fold'[f] \in {"idle", "done", "void", "lost"}
    BY <1>6 DEF Crash
  <2>3. \A p \in Puller : puller'[p] = "idle"
    BY <1>6 DEF Crash
  <2>4. StoredFolds' = StoredFolds
    BY <2>1 DEF StoredFolds
  <2> QED BY <1>c, <2>1, <2>2, <2>3, <2>4 DEF CountInv, BaseInv, NumberInv, SeenInv, Stored
<1>7. CASE UNCHANGED vars
  <2>1. UNCHANGED <<faults, blob, version, fold, work, pullVars>>
    BY <1>7 DEF vars, storeVars, foldVars
  <2> QED BY <2>1, CountSame
<1> QED BY <1>1, <1>2, <1>3, <1>4, <1>5, <1>6, <1>7, StepCases

(* CursorsAreHonest: no client is ever given a cursor beyond the folds of the
   body that came with it, for any number of folds in flight, crashes and
   sidecars that cannot be written (serve_global, global_writer).          *)
THEOREM CursorsAreHonest == StoreSpec => []CursorNotAhead
<1>1. CountInv => CursorNotAhead
  BY DEF CountInv, SeenInv, Reads, CursorNotAhead
<1> QED BY <1>1, TypeInit, TypeStep, CountInit, CountStep, PTL DEF StoreSpec

-----------------------------------------------------------------------------
(* What folds report, and what they leave in place: any number of cold
   callers, sidecars that cannot be written.                               *)

Reported(f) == Publishing(f) \/ fold[f] = "done"

Unpublished(f) ==
    fold[f] \in {"idle", "checked", "staged", "started", "opened", "numbered", "void"}

ReportInv ==
    Reads => \A f \in Fold : /\ Reported(f) => InGlobal(f)
                             /\ (faults = {} /\ Unpublished(f)) => ~InGlobal(f)

LEMMA ReportInit == Init => ReportInv
BY DEF Init, ReportInv, Reported, Unpublished, Publishing, InGlobal, StoredFolds

(* A step that publishes nothing leaves everybody's fold where it is. *)
LEMMA GlobalSame ==
  ASSUME UNCHANGED blob
  PROVE  /\ StoredFolds' = StoredFolds
         /\ \A f \in Fold : InGlobal(f)' <=> InGlobal(f)
BY DEF StoredFolds, InGlobal

(* A publication adds one fold to the stored ones. *)
LEMMA GlobalGrows ==
  ASSUME TypeInv, CountInv, Reads, NEW f \in Fold, FoldPublish(f)
  PROVE  /\ Len(StoredFolds) <= Len(StoredFolds')
         /\ \A i \in 1..Len(StoredFolds) : StoredFolds'[i] = StoredFolds[i]
         /\ \A g \in Fold : InGlobal(g)' <=> InGlobal(g) \/ g = f
<1>1. work[f].old = StoredFolds
  BY DEF CountInv, BaseInv, FoldPublish, FoldMoves
<1>2. Len(StoredFolds) \in Nat
  <2>1. StoredFolds \in Seq(Entry)
    BY StoredType DEF TypeInv
  <2> QED BY <2>1
<1> DEFINE e == [by |-> f, stamp |-> stamp[f]]
<1>3. /\ Len(StoredFolds') = Len(StoredFolds) + 1
      /\ \A i \in 1..Len(StoredFolds) : StoredFolds'[i] = StoredFolds[i]
      /\ StoredFolds'[Len(StoredFolds) + 1] = e
  BY <1>1, PublishAppends
<1>4. e.by = f
  OBVIOUS
<1> HIDE DEF e
<1>5. ASSUME NEW g \in Fold PROVE InGlobal(g)' <=> InGlobal(g) \/ g = f
  <2>1. ASSUME InGlobal(g) PROVE InGlobal(g)'
    <3>1. PICK i \in 1..Len(StoredFolds) : StoredFolds[i].by = g
      BY <2>1 DEF InGlobal
    <3>2. i \in 1..Len(StoredFolds') /\ StoredFolds'[i].by = g
      BY <1>2, <1>3, <3>1
    <3> QED BY <3>2 DEF InGlobal
  <2>2. ASSUME g = f PROVE InGlobal(g)'
    <3>1. Len(StoredFolds) + 1 \in 1..Len(StoredFolds')
      BY <1>2, <1>3
    <3> QED BY <2>2, <3>1, <1>3, <1>4 DEF InGlobal
  <2>3. ASSUME InGlobal(g)' PROVE InGlobal(g) \/ g = f
    <3>1. PICK i \in 1..Len(StoredFolds') : StoredFolds'[i].by = g
      BY <2>3 DEF InGlobal
    <3>2. CASE i = Len(StoredFolds) + 1
      BY <1>3, <1>4, <3>1, <3>2
    <3>3. CASE i \in 1..Len(StoredFolds)
      BY <1>3, <3>1, <3>3 DEF InGlobal
    <3> QED BY <1>2, <1>3, <3>2, <3>3
  <2> QED BY <2>1, <2>2, <2>3
<1> QED BY <1>2, <1>3, <1>5

(* Only a publication changes the blob. *)
LEMMA OnlyPublishes == [Next]_vars => UNCHANGED blob \/ \E f \in Fold : FoldPublish(f)
<1> SUFFICES ASSUME [Next]_vars, \A f \in Fold : ~FoldPublish(f) PROVE UNCHANGED blob
  OBVIOUS
<1> QED BY StepCases DEF LoadMiss, LoadRead, LoadStore, Enters,
     FoldCheck, FoldStage, FoldStageFails, FoldStart, FoldRefused, GoesOn, FoldOpen, FoldNumber,
     FoldTruncate, FoldVersion, Ends, FoldVoid, FoldVersionFails,
     FoldCache, PullVersion, PullBody, PullFails, Crash, storeVars, vars

FoldsStay ==
    Reads => /\ Len(StoredFolds) <= Len(StoredFolds')
             /\ \A i \in 1..Len(StoredFolds) : StoredFolds'[i] = StoredFolds[i]

LEMMA StayStep == TypeInv /\ CountInv /\ [Next]_vars => FoldsStay
<1> SUFFICES ASSUME TypeInv, CountInv, [Next]_vars, Reads PROVE FoldsStay
  BY DEF FoldsStay
<1>1. CASE UNCHANGED blob
  <2>1. StoredFolds \in Seq(Entry)
    BY StoredType DEF TypeInv
  <2>2. Len(StoredFolds) \in Nat
    BY <2>1
  <2> QED BY <1>1, <2>2, GlobalSame DEF FoldsStay
<1>2. ASSUME NEW f \in Fold, FoldPublish(f) PROVE FoldsStay
  BY <1>2, GlobalGrows DEF FoldsStay
<1> QED BY <1>1, <1>2, OnlyPublishes

(* FoldsAreKept: a publication never drops a fold that is stored, for any
   number of folds and cold callers, crashes between any two storage calls
   and sidecars that are lost (_fold_streamed, `async with lock`).         *)
THEOREM FoldsAreKept == StoreSpec => FoldsKept
<1>1. TypeInv /\ CountInv /\ [Next]_vars => [FoldsStay]_vars
  BY StayStep
<1> QED BY <1>1, TypeInit, TypeStep, CountInit, CountStep, PTL
        DEF StoreSpec, FoldsKept, FoldsStay

(* Where folds are after a step that publishes nothing. *)
LEMMA ReportQuiet ==
  ASSUME TypeInv, ReportInv, [Next]_vars, Reads, UNCHANGED <<faults, blob>>,
         \A f \in Fold : ~FoldPublish(f)
  PROVE  ReportInv'
<1>t. TypeOK
  BY DEF TypeInv
<1> DEFINE Later(f) == /\ Reported(f)' => Reported(f)
                       /\ (faults = {} /\ Unpublished(f)') => Unpublished(f)
<1>1. ASSUME NEW f \in Fold PROVE Later(f)
  <2>1. CASE fold' = fold
    BY <2>1 DEF Reported, Unpublished, Publishing
  <2>2. ASSUME NEW g \in Fold, NEW s, FoldCheck(g, s) PROVE Later(f)
    BY <2>2, <1>t DEF FoldCheck, FoldMoves, TypeOK, Reported, Unpublished, Publishing
  <2>3. ASSUME NEW g \in Fold,
               FoldStage(g) \/ FoldStageFails(g) \/ FoldStart(g) \/ FoldRefused(g)
        PROVE  Later(f)
    BY <2>3, <1>t DEF FoldStage, FoldStageFails, FoldStart, FoldRefused, FoldMoves, TypeOK,
                      Reported, Unpublished, Publishing
  <2>4. ASSUME NEW g \in Fold, GoesOn(g) PROVE Later(f)
    BY <2>4, <1>t DEF GoesOn, FoldOpen, FoldNumber, FoldTruncate, FoldVersion, FoldMoves, TypeOK,
                      Reported, Unpublished, Publishing
  <2>5. ASSUME NEW g \in Fold, Ends(g) PROVE Later(f)
    BY <2>5, <1>t DEF Ends, FoldVoid, FoldVersionFails, FoldCache, FoldMoves, TypeOK,
                      Reported, Unpublished, Publishing
  <2>6. CASE Crash
    BY <2>6 DEF Crash, Reported, Unpublished, Publishing
  <2> QED BY <2>1, <2>2, <2>3, <2>4, <2>5, <2>6, StepCases
          DEF Enters, LoadMiss, LoadRead, LoadStore, PullVersion, PullBody, PullFails, foldVars,
              vars
<1>2. Reads'
  BY DEF Reads
<1> QED BY <1>1, GlobalSame DEF ReportInv

LEMMA ReportStep == TypeInv /\ CountInv /\ ReportInv /\ [Next]_vars => ReportInv'
<1> SUFFICES ASSUME TypeInv, CountInv, ReportInv, [Next]_vars, Reads PROVE ReportInv'
  <2>1. [Next]_vars => Reads' = Reads
    BY FaultsKept DEF Reads
  <2> QED BY <2>1 DEF ReportInv
<1>1. UNCHANGED faults
  BY FaultsKept
<1>2. ASSUME NEW f \in Fold, FoldPublish(f) PROVE ReportInv'
  <2>1. /\ fold[f] = "numbered" /\ fold'[f] = "published"
        /\ \A g \in Fold : g # f => fold'[g] = fold[g]
    BY <1>2 DEF FoldPublish, FoldMoves, TypeInv, TypeOK
  <2>2. \A g \in Fold : InGlobal(g)' <=> InGlobal(g) \/ g = f
    BY <1>2, GlobalGrows
  <2>3. ASSUME NEW g \in Fold
        PROVE  /\ Reported(g)' => InGlobal(g)'
               /\ (faults' = {} /\ Unpublished(g)') => ~InGlobal(g)'
    <3>1. CASE g = f
      BY <3>1, <2>1, <2>2 DEF Unpublished
    <3>2. CASE g # f
      BY <3>2, <1>1, <2>1, <2>2 DEF ReportInv, Reported, Unpublished, Publishing
    <3> QED BY <3>1, <3>2
  <2> QED BY <2>3 DEF ReportInv
<1>3. CASE \A f \in Fold : ~FoldPublish(f)
  BY <1>1, <1>3, OnlyPublishes, ReportQuiet
<1> QED BY <1>2, <1>3

(* ReportsStayTrue: a fold reported as done is in the stored global for good,
   and without failing writes one reported as void never is, for any number
   of folds, cold callers and crashes (run_finalize, contribute_dp).       *)
THEOREM ReportsStayTrue == StoreSpec => []ReportsAreTrue
<1>1. ReportInv => ReportsAreTrue
  <2> SUFFICES ASSUME ReportInv, NEW f \in Fold
               PROVE  /\ (Reads /\ fold[f] = "done") => InGlobal(f)
                      /\ (faults = {} /\ fold[f] = "void") => ~InGlobal(f)
    BY DEF ReportsAreTrue
  <2>1. faults = {} => Reads
    BY DEF Reads
  <2> QED BY <2>1 DEF ReportInv, Reported, Unpublished
<1> QED BY <1>1, TypeInit, TypeStep, CountInit, CountStep, ReportInit, ReportStep, PTL DEF StoreSpec

-----------------------------------------------------------------------------
(* While cache and store keep in step: however many callers warm the cache,
   a fold is computed from the stored state and leaves the cache with it.  *)

(* A cold call that caches late cannot be taken back. *)
LEMMA StepsStay == [Next]_vars /\ InStep' => InStep
<1> SUFFICES ASSUME [Next]_vars, late' = None PROVE late = None
  BY FaultsKept DEF InStep
<1>1. ASSUME NEW l \in Loader, LoadMiss(l) \/ LoadRead(l) \/ LoadStore(l) PROVE late = None
  BY <1>1 DEF LoadMiss, LoadRead, LoadStore
<1>2. CASE UNCHANGED loadVars
  BY <1>2 DEF loadVars
<1> QED BY <1>1, <1>2, StepCases
        DEF Enters, FoldCheck, FoldStage, FoldStageFails, FoldStart, FoldRefused,
            GoesOn, FoldOpen, FoldNumber, FoldPublish, FoldTruncate, FoldVersion,
            Ends, FoldVoid, FoldVersionFails, FoldCache,
            PullVersion, PullBody, PullFails, Crash, vars

(* Until it publishes, a fold holds the stored state; its stamp fits it. *)
HeldInv ==
    \A f \in Fold : Active(f) => /\ Admits(work[f].st, stamp[f])
                                 /\ Publishing(f) \/ work[f].st = StoredMeta

AgreeInv ==
    /\ \A f \in Fold : Publishing(f) => StoredMeta = MetaAfter(work[f].st, stamp[f])
    /\ (cache # None /\ \A f \in Fold : ~Publishing(f)) => cache = StoredMeta

DurableInv == InStep => HeldInv /\ AgreeInv

LEMMA DurableInit == Init => DurableInv
BY DEF Init, DurableInv, HeldInv, AgreeInv, Active, Publishing

(* A step that keeps the state and the folds. *)
LEMMA DurableSame ==
  ASSUME HeldInv, AgreeInv, UNCHANGED <<blob, config, cache, fold, stamp, work>>
  PROVE  HeldInv' /\ AgreeInv'
<1>1. StoredMeta' = StoredMeta
  BY StoredSame
<1>2. \A f \in Fold : /\ MetaAfter(work[f].st, stamp[f])' = MetaAfter(work[f].st, stamp[f])
                      /\ Admits(work[f].st, stamp[f])' <=> Admits(work[f].st, stamp[f])
  BY DEF MetaAfter, NewEpoch, Advances, Admits
<1> QED BY <1>1, <1>2 DEF HeldInv, AgreeInv, Active, Publishing

LEMMA DurableStep == TypeInv /\ DurableInv /\ [Next]_vars => DurableInv'
<1> SUFFICES ASSUME TypeInv, DurableInv, [Next]_vars, InStep' PROVE HeldInv' /\ AgreeInv'
  BY DEF DurableInv
<1>s. InStep /\ Sound /\ late' = None
  BY StepsStay DEF InStep, Sound
<1>t. TypeOK /\ LockInv /\ ReadyInv
  BY DEF TypeInv
<1>d. HeldInv /\ AgreeInv
  BY <1>s DEF DurableInv
<1>1. ASSUME NEW l \in Loader, LoadMiss(l) \/ LoadRead(l) \/ LoadStore(l)
      PROVE  HeldInv' /\ AgreeInv'
  <2>1. UNCHANGED <<blob, config, fold, stamp, work>>
    BY <1>1 DEF LoadMiss, LoadRead, LoadStore, storeVars, foldVars
  <2>2. StoredMeta' = StoredMeta
    BY <2>1, StoredSame
  <2>3. CASE cache' = cache
    BY <1>d, <2>1, <2>3, DurableSame
  <2>4. CASE LoadStore(l)
    <3>1. cache' = StoredMeta
      BY <1>s, <1>t, <2>4, DisjointAssumption, StoredType DEF LoadStore, InStep
    <3>2. HeldInv'
      BY <1>d, <2>1, <2>2 DEF HeldInv, Active, Publishing, Admits
    <3>3. AgreeInv'
      BY <1>d, <2>1, <2>2, <3>1 DEF AgreeInv, Publishing, MetaAfter, NewEpoch, Advances
    <3> QED BY <3>2, <3>3
  <2> QED BY <1>1, <2>3, <2>4 DEF LoadMiss, LoadRead
<1>2. ASSUME NEW f \in Fold, Enters(f)
      PROVE  HeldInv' /\ AgreeInv'
  <2>1. UNCHANGED <<blob, config, cache>>
    BY <1>2 DEF Enters, FoldCheck, FoldStage, FoldStageFails, FoldStart, FoldRefused, storeVars
  <2>2. StoredMeta' = StoredMeta
    BY <2>1, StoredSame
  <2>3. \A g \in Fold : g # f => /\ fold'[g] = fold[g] /\ stamp'[g] = stamp[g]
                                 /\ work'[g] = work[g]
    BY <1>2, <1>t DEF Enters, FoldCheck, FoldStage, FoldStageFails, FoldStart, FoldRefused,
                      FoldMoves, TypeOK
  <2>4. ~Publishing(f) /\ ~Publishing(f)'
    BY <1>2, <1>t DEF Enters, FoldCheck, FoldStage, FoldStageFails, FoldStart, FoldRefused,
                      FoldMoves, Publishing, TypeOK
  <2>5. ASSUME Active(f)'
        PROVE  work'[f].st = StoredMeta /\ Admits(work'[f].st, stamp'[f])
    <3>1. FoldStart(f)
      BY <1>2, <1>t, <2>5 DEF Enters, FoldCheck, FoldStage, FoldStageFails, FoldRefused,
                              FoldMoves, Active, TypeOK
    <3>2. /\ work'[f].st = cache /\ stamp'[f] = stamp[f] /\ Admits(cache, stamp[f])
          /\ lock = None /\ fold[f] = "staged"
      BY <1>t, <3>1 DEF FoldStart, FoldMoves, LockFree, TypeOK
    <3>3. cache # None
      BY <1>t, <3>2, NoneAssumption DEF ReadyInv, Waits
    <3>4. \A g \in Fold : ~Publishing(g)
      BY <1>t, <3>2, DisjointAssumption DEF LockInv, Publishing, Active
    <3> QED BY <1>d, <3>2, <3>3, <3>4 DEF AgreeInv
  <2>6. HeldInv'
    BY <1>d, <2>2, <2>3, <2>5 DEF HeldInv, Active, Publishing, Admits
  <2>7. AgreeInv'
    BY <1>d, <2>1, <2>2, <2>3, <2>4 DEF AgreeInv, Publishing, MetaAfter, NewEpoch, Advances
  <2> QED BY <2>6, <2>7
<1>3. ASSUME NEW f \in Fold, GoesOn(f)
      PROVE  HeldInv' /\ AgreeInv'
  <2>1. /\ UNCHANGED <<config, cache, stamp>>
        /\ Active(f)
        /\ \A g \in Fold : g # f => fold'[g] = fold[g] /\ ~Active(g)
    BY <1>3, <1>t DEF GoesOn, FoldOpen, FoldNumber, FoldPublish, FoldTruncate, FoldVersion,
                      FoldMoves, Active, LockInv, TypeOK
  <2>2. work[f] \in Work /\ stamp[f] \in Stamp
    BY <1>t, <2>1 DEF ReadyInv, Active
  <2>3. work'[f].st = work[f].st
    BY <1>3, <1>t, <2>2 DEF GoesOn, FoldOpen, FoldNumber, FoldPublish, FoldTruncate, FoldVersion,
                           TypeOK, Work
  <2>4. \A g \in Fold : g # f => ~Active(g)' /\ ~Publishing(g)' /\ ~Publishing(g)
    BY <2>1 DEF Publishing, Active
  <2>5. Admits(work[f].st, stamp[f])'
    BY <1>d, <2>1, <2>3 DEF HeldInv, Admits
  <2>6. MetaAfter(work[f].st, stamp[f])' = MetaAfter(work[f].st, stamp[f])
    BY <2>1, <2>3 DEF MetaAfter, NewEpoch, Advances
  <2>7. CASE FoldPublish(f)
    <3>1. Publishing(f)'
      BY <2>7, <1>t DEF FoldPublish, FoldMoves, Publishing, TypeOK
    <3>2. StoredMeta' = MetaAfter(work[f].st, stamp[f])
      BY <2>2, <2>7, PublishedBlob DEF FoldPublish, StoredMeta
    <3>3. HeldInv'
      BY <2>4, <2>5, <3>1 DEF HeldInv
    <3>4. AgreeInv'
      BY <2>4, <2>6, <3>1, <3>2 DEF AgreeInv
    <3> QED BY <3>3, <3>4
  <2>8. CASE ~FoldPublish(f)
    <3>1. blob' = blob /\ Publishing(f)' = Publishing(f)
      BY <1>3, <1>t, <2>8 DEF GoesOn, FoldOpen, FoldNumber, FoldTruncate, FoldVersion,
                              FoldMoves, Publishing, storeVars, TypeOK
    <3>2. StoredMeta' = StoredMeta
      BY <2>1, <3>1, StoredSame
    <3>3. HeldInv'
      BY <1>d, <2>1, <2>3, <2>4, <2>5, <3>1, <3>2 DEF HeldInv
    <3>4. AgreeInv'
      BY <1>d, <2>1, <2>4, <2>6, <3>1, <3>2 DEF AgreeInv
    <3> QED BY <3>3, <3>4
  <2> QED BY <2>7, <2>8
<1>4. ASSUME NEW f \in Fold, Ends(f)
      PROVE  HeldInv' /\ AgreeInv'
  <2>1. UNCHANGED <<blob, config>>
    BY <1>4 DEF Ends, FoldVoid, FoldVersionFails, FoldCache, storeVars
  <2>2. StoredMeta' = StoredMeta
    BY <2>1, StoredSame
  <2>3. Active(f)
    BY <1>4 DEF Ends, FoldVoid, FoldVersionFails, FoldCache, FoldMoves, Active
  <2>4. \A g \in Fold : ~Active(g)' /\ ~Publishing(g)'
    BY <1>4, <1>t, <2>3 DEF Ends, FoldVoid, FoldVersionFails, FoldCache, FoldMoves, LockInv,
                           Active, Publishing, TypeOK
  <2>5. work[f] \in Work /\ stamp[f] \in Stamp /\ cache # None
    BY <1>t, <2>3, NoneAssumption DEF ReadyInv, Active
  <2>6. cache' = StoredMeta
    <3>1. CASE FoldVoid(f)
      <4>1. cache' = cache /\ ~Publishing(f)
        BY <3>1 DEF FoldVoid, FoldMoves, Publishing
      <4>2. \A g \in Fold : ~Publishing(g)
        BY <1>t, <2>3, <4>1 DEF LockInv, Publishing, Active
      <4> QED BY <1>d, <2>5, <4>1, <4>2 DEF AgreeInv
    <3>2. CASE FoldVersionFails(f)
      BY <1>s, <3>2 DEF FoldVersionFails, Sound
    <3>3. CASE FoldCache(f)
      <4>1. Publishing(f) /\ cache' = CacheAfter(work[f].st, stamp[f])
        BY <3>3 DEF FoldCache, FoldMoves, Publishing
      <4>2. cache' = MetaAfter(work[f].st, stamp[f])
        BY <2>5, <4>1, AfterType DEF Work
      <4> QED BY <1>d, <4>1, <4>2 DEF AgreeInv
    <3> QED BY <1>4, <3>1, <3>2, <3>3 DEF Ends
  <2> QED BY <2>2, <2>4, <2>6 DEF HeldInv, AgreeInv
<1>5. ASSUME NEW p \in Puller, PullVersion(p) \/ PullBody(p) \/ PullFails(p)
      PROVE  HeldInv' /\ AgreeInv'
  <2>1. UNCHANGED <<blob, config, cache, fold, stamp, work>>
    BY <1>5 DEF PullVersion, PullBody, PullFails, storeVars, foldVars
  <2> QED BY <1>d, <2>1, DurableSame
<1>6. CASE Crash
  <2>1. cache' = None /\ \A f \in Fold : ~Active(f)' /\ ~Publishing(f)'
    BY <1>6 DEF Crash, Active, Publishing
  <2> QED BY <2>1 DEF HeldInv, AgreeInv
<1>7. CASE UNCHANGED vars
  <2>1. UNCHANGED <<blob, config, cache, fold, stamp, work>>
    BY <1>7 DEF vars, storeVars, foldVars
  <2> QED BY <1>d, <2>1, DurableSame
<1> QED BY <1>1, <1>2, <1>3, <1>4, <1>5, <1>6, <1>7, StepCases

(* CacheKeepsStep: on a storage without faults, and until a cold call caches
   late, the state the server announces is the stored one, for any number of
   cold callers, folds, crashes and epochs (state, _fold_streamed).        *)
THEOREM CacheKeepsStep == StoreSpec => []CacheInStep
<1>1. DurableInv => CacheInStep
  BY DEF DurableInv, AgreeInv, CacheInStep
<1> QED BY <1>1, TypeInit, TypeStep, DurableInit, DurableStep, PTL DEF StoreSpec

-----------------------------------------------------------------------------
(* What the stored global says of the folds in it, and what a client that
   pulled can be behind by.                                                *)

ClockInv == Stored = StoredMeta.epoch * EpochFolds + StoredMeta.folds

(* Where a fold that has published may be. *)
Out == {"published", "truncated", "versioned", "done", "lost"}

FoldsInv ==
    \A i \in 1..Stored : /\ fold[StoredFolds[i].by] \in Out
                         /\ StoredFolds[i].stamp.compat = StoredMeta.compat
                         /\ StoredFolds[i].stamp.epoch <= StoredMeta.epoch

(* A client's body is where the global was, and only folds of later stamps,
   or of the same epoch, came since.                                       *)
Behind(b) ==
    /\ blob # None
    /\ Len(b.folds) <= Stored
    /\ b.meta.epoch <= StoredMeta.epoch
    /\ \A i \in 1..Len(b.folds) : StoredFolds[i] = b.folds[i]
    /\ \A i \in 1..Stored : i > Len(b.folds) => b.meta.epoch <= StoredFolds[i].stamp.epoch

BodyInv == \A p \in Puller : body[p] # None => Behind(body[p])

HistoryInv == InStep => ClockInv /\ FoldsInv /\ BodyInv

LEMMA HistoryInit == Init => HistoryInv
<1> SUFFICES ASSUME Init PROVE HistoryInv
  OBVIOUS
<1>1. StoredFolds = <<>> /\ StoredMeta = NewModel
  BY DEF Init, StoredFolds, StoredMeta
<1>2. Stored = 0
  BY <1>1 DEF Stored
<1>3. ClockInv
  BY <1>1, <1>2, EpochAssumption DEF ClockInv, NewModel
<1> QED BY <1>2, <1>3 DEF Init, HistoryInv, FoldsInv, BodyInv

(* The next fold of an epoch, or the first of the next one. *)
LEMMA ClockTicks ==
  ASSUME NEW st \in FactorState, NEW s \in Stamp, NEW n \in Nat,
         n = st.epoch * EpochFolds + st.folds
  PROVE  /\ n + 1 = MetaAfter(st, s).epoch * EpochFolds + MetaAfter(st, s).folds
         /\ st.epoch <= MetaAfter(st, s).epoch
<1>1. /\ st.epoch \in Nat /\ EpochFolds \in Nat \ {0}
      /\ st.folds \in Nat /\ st.folds + 1 <= EpochFolds
  BY EpochAssumption DEF FactorState
<1>2. CASE st.folds + 1 >= EpochFolds
  <2>1. MetaAfter(st, s).epoch = st.epoch + 1 /\ MetaAfter(st, s).folds = 0
    BY <1>2 DEF MetaAfter, NewEpoch, Advances
  <2>2. st.folds + 1 = EpochFolds
    BY <1>1, <1>2
  <2>3. (st.epoch + 1) * EpochFolds = st.epoch * EpochFolds + EpochFolds
    BY <1>1
  <2> QED BY <1>1, <2>1, <2>2, <2>3
<1>3. CASE ~(st.folds + 1 >= EpochFolds)
  <2>1. MetaAfter(st, s).epoch = st.epoch /\ MetaAfter(st, s).folds = st.folds + 1
    BY <1>3 DEF MetaAfter, NewEpoch, Advances
  <2> QED BY <1>1, <2>1
<1> QED BY <1>2, <1>3

(* A fold about to publish fits the stored global. *)
LEMMA PublishFits ==
  ASSUME TypeInv, CountInv, DurableInv, InStep, NEW f \in Fold, FoldPublish(f)
  PROVE  /\ work[f].old = StoredFolds
         /\ work[f].st = StoredMeta
         /\ stamp[f] \in Stamp
         /\ Admits(StoredMeta, stamp[f])
<1>1. fold[f] = "numbered" /\ Active(f) /\ ~Publishing(f)
  BY DEF FoldPublish, FoldMoves, Active, Publishing
<1>2. stamp[f] \in Stamp
  BY <1>1 DEF TypeInv, ReadyInv
<1>3. work[f].st = StoredMeta /\ Admits(work[f].st, stamp[f])
  BY <1>1 DEF DurableInv, HeldInv
<1>4. work[f].old = StoredFolds
  BY <1>1 DEF CountInv, BaseInv, Reads, InStep
<1> QED BY <1>2, <1>3, <1>4

(* A step that publishes nothing and pulls nothing. *)
LEMMA HistorySame ==
  ASSUME TypeInv, HistoryInv, InStep, UNCHANGED <<blob, body>>,
         StoredMeta'.epoch = StoredMeta.epoch, StoredMeta'.folds = StoredMeta.folds,
         StoredMeta'.compat = StoredMeta.compat,
         \A f \in Fold : fold[f] \in Out => fold'[f] \in Out
  PROVE  HistoryInv'
<1>1. StoredFolds' = StoredFolds /\ Stored' = Stored /\ StoredFolds \in Seq(Entry)
  BY StoredType DEF StoredFolds, Stored, TypeInv
<1>2. ASSUME NEW i \in 1..Stored PROVE StoredFolds[i].by \in Fold
  <2>1. StoredFolds[i] \in Entry
    BY <1>1, ElementOfSeq DEF Stored
  <2> QED BY <2>1 DEF Entry
<1>3. ClockInv => ClockInv'
  BY <1>1 DEF ClockInv
<1>4. FoldsInv => FoldsInv'
  BY <1>1, <1>2 DEF FoldsInv
<1>5. BodyInv => BodyInv'
  BY <1>1 DEF BodyInv, Behind
<1> QED BY <1>3, <1>4, <1>5 DEF HistoryInv

LEMMA HistoryPublish ==
  ASSUME TypeInv, CountInv, DurableInv, HistoryInv, InStep, NEW f \in Fold, FoldPublish(f)
  PROVE  HistoryInv'
<1> DEFINE e == [by |-> f, stamp |-> stamp[f]]
<1>1. /\ work[f].st = StoredMeta /\ stamp[f] \in Stamp /\ Admits(StoredMeta, stamp[f])
      /\ work[f].old = StoredFolds
  BY PublishFits
<1>2. StoredMeta \in FactorState /\ StoredFolds \in Seq(Entry) /\ Stored \in Nat
  BY StoredType DEF TypeInv, Stored
<1>3. /\ StoredMeta' = MetaAfter(StoredMeta, stamp[f])
      /\ Stored' = Stored + 1
      /\ \A i \in 1..Stored : StoredFolds'[i] = StoredFolds[i]
      /\ StoredFolds'[Stored + 1] = e
  BY <1>1, PublishAppends DEF Stored
<1>h. ClockInv /\ FoldsInv /\ BodyInv
  BY DEF HistoryInv
<1>4. /\ Stored' = StoredMeta'.epoch * EpochFolds + StoredMeta'.folds
      /\ StoredMeta.epoch <= StoredMeta'.epoch
  BY <1>1, <1>2, <1>3, <1>h, ClockTicks DEF ClockInv
<1>5. StoredMeta.epoch \in Nat /\ StoredMeta'.epoch \in Nat
  BY <1>1, <1>2, <1>3, AfterType DEF FactorState
<1>6. /\ stamp[f].epoch = StoredMeta.epoch
      /\ StoredMeta'.compat = stamp[f].compat
      /\ StoredMeta.compat # None => stamp[f].compat = StoredMeta.compat
  BY <1>1, <1>3 DEF Admits, MetaAfter
<1>7. /\ fold'[f] \in Out
      /\ \A g \in Fold : fold[g] \in Out => fold'[g] \in Out
      /\ UNCHANGED body
  BY DEF FoldPublish, FoldMoves, Out, TypeInv, TypeOK, pullVars
<1>8. FoldsInv'
  <2> SUFFICES ASSUME NEW i \in 1..Stored'
               PROVE  /\ fold'[StoredFolds'[i].by] \in Out
                      /\ StoredFolds'[i].stamp.compat = StoredMeta'.compat
                      /\ StoredFolds'[i].stamp.epoch <= StoredMeta'.epoch
    BY DEF FoldsInv
  <2>1. CASE i = Stored + 1
    BY <2>1, <1>3, <1>4, <1>6, <1>7
  <2>2. CASE i \in 1..Stored
    <3>1. StoredFolds[i] \in Entry /\ StoredFolds'[i] = StoredFolds[i]
      BY <2>2, <1>2, <1>3 DEF Stored
    <3>2. StoredFolds[i].by \in Fold /\ StoredFolds[i].stamp \in Stamp
      BY <3>1 DEF Entry
    <3>3. /\ fold[StoredFolds[i].by] \in Out /\ StoredFolds[i].stamp.compat = StoredMeta.compat
          /\ StoredFolds[i].stamp.epoch <= StoredMeta.epoch
      BY <2>2, <1>h DEF FoldsInv
    <3>4. StoredMeta.compat # None
      BY <3>2, <3>3, DisjointAssumption DEF Stamp
    <3>5. StoredFolds[i].stamp.epoch \in Nat
      BY <3>2 DEF Stamp
    <3> QED BY <3>1, <3>2, <3>3, <3>4, <3>5, <1>4, <1>5, <1>6, <1>7
  <2> QED BY <2>1, <2>2, <1>2, <1>3
<1>9. BodyInv'
  <2> SUFFICES ASSUME NEW p \in Puller, body[p] # None PROVE Behind(body[p])'
    BY <1>7 DEF BodyInv, Behind, Stored, StoredFolds, StoredMeta
  <2>1. Behind(body[p])
    BY <1>h DEF BodyInv
  <2>2. Len(body[p].folds) \in Nat /\ body[p].meta.epoch \in Nat
    BY DEF TypeInv, TypeOK, Blob, FactorState
  <2>3. blob' # None
    <3>1. work[f] \in Work
      BY DEF TypeInv, ReadyInv, FoldPublish, FoldMoves, Active
    <3> QED BY <1>1, <3>1, PublishedBlob
  <2>4. \A i \in 1..Stored' : i > Len(body[p].folds) =>
            body[p].meta.epoch <= StoredFolds'[i].stamp.epoch
    <3> SUFFICES ASSUME NEW i \in 1..Stored', i > Len(body[p].folds)
                 PROVE  body[p].meta.epoch <= StoredFolds'[i].stamp.epoch
      OBVIOUS
    <3>1. CASE i = Stored + 1
      BY <3>1, <2>1, <1>3, <1>6 DEF Behind
    <3>2. CASE i \in 1..Stored
      BY <3>2, <2>1, <1>3 DEF Behind
    <3> QED BY <3>1, <3>2, <1>2, <1>3
  <2>5. \A i \in 1..Len(body[p].folds) : StoredFolds'[i] = body[p].folds[i]
    BY <2>1, <2>2, <1>2, <1>3 DEF Behind
  <2>6. Len(body[p].folds) <= Stored' /\ body[p].meta.epoch <= StoredMeta'.epoch
    <3>1. Len(body[p].folds) <= Stored /\ body[p].meta.epoch <= StoredMeta.epoch
      BY <2>1 DEF Behind
    <3> QED BY <3>1, <2>2, <1>2, <1>3, <1>4, <1>5
  <2>7. body'[p] = body[p]
    BY <1>7
  <2> QED BY <2>3, <2>4, <2>5, <2>6, <2>7 DEF Behind
<1> QED BY <1>4, <1>8, <1>9 DEF HistoryInv, ClockInv

LEMMA HistoryStep ==
  TypeInv /\ CountInv /\ DurableInv /\ HistoryInv /\ [Next]_vars => HistoryInv'
<1> SUFFICES ASSUME TypeInv, CountInv, DurableInv, HistoryInv, [Next]_vars, InStep
             PROVE  HistoryInv'
  BY StepsStay DEF HistoryInv
<1>t. TypeOK /\ Sound
  BY DEF TypeInv, InStep, Sound
<1>1. ASSUME NEW l \in Loader, LoadMiss(l) \/ LoadRead(l) \/ LoadStore(l)
      PROVE  HistoryInv'
  <2>1. UNCHANGED <<blob, body, config, fold>>
    BY <1>1 DEF LoadMiss, LoadRead, LoadStore, storeVars, foldVars, pullVars
  <2> QED BY <2>1, StoredSame, HistorySame
<1>2. ASSUME NEW f \in Fold, Enters(f)
      PROVE  HistoryInv'
  <2>1. UNCHANGED <<blob, body, config>>
    BY <1>2 DEF Enters, FoldCheck, FoldStage, FoldStageFails, FoldStart, FoldRefused, storeVars,
                pullVars
  <2>2. \A g \in Fold : fold[g] \in Out => fold'[g] \in Out
    BY <1>2, <1>t DEF Enters, FoldCheck, FoldStage, FoldStageFails, FoldStart, FoldRefused,
                      FoldMoves, Out, TypeOK
  <2> QED BY <2>1, <2>2, StoredSame, HistorySame
<1>3. ASSUME NEW f \in Fold, GoesOn(f)
      PROVE  HistoryInv'
  <2>1. CASE FoldPublish(f)
    BY <2>1, HistoryPublish
  <2>2. CASE ~FoldPublish(f)
    <3>1. UNCHANGED <<blob, body, config>>
      BY <1>3, <2>2 DEF GoesOn, FoldOpen, FoldNumber, FoldTruncate, FoldVersion, storeVars, pullVars
    <3>2. \A g \in Fold : fold[g] \in Out => fold'[g] \in Out
      BY <1>3, <1>t, <2>2 DEF GoesOn, FoldOpen, FoldNumber, FoldTruncate, FoldVersion,
                              FoldMoves, Out, TypeOK
    <3> QED BY <3>1, <3>2, StoredSame, HistorySame
  <2> QED BY <2>1, <2>2
<1>4. ASSUME NEW f \in Fold, Ends(f)
      PROVE  HistoryInv'
  <2>1. UNCHANGED <<blob, body, config>>
    BY <1>4 DEF Ends, FoldVoid, FoldVersionFails, FoldCache, storeVars, pullVars
  <2>2. \A g \in Fold : fold[g] \in Out => fold'[g] \in Out
    BY <1>4, <1>t DEF Ends, FoldVoid, FoldVersionFails, FoldCache, FoldMoves, Out, Sound, TypeOK
  <2> QED BY <2>1, <2>2, StoredSame, HistorySame
<1>5. ASSUME NEW p \in Puller, PullVersion(p) \/ PullBody(p) \/ PullFails(p)
      PROVE  HistoryInv'
  <2>1. UNCHANGED <<blob, config, fold>>
    BY <1>5 DEF PullVersion, PullBody, PullFails, storeVars, foldVars
  <2>2. CASE UNCHANGED body
    BY <2>1, <2>2, StoredSame, HistorySame
  <2>3. CASE PullBody(p)
    <3>1. /\ StoredFolds' = StoredFolds /\ StoredMeta' = StoredMeta /\ Stored' = Stored
          /\ blob # None /\ StoredFolds = blob.folds /\ StoredMeta = blob.meta
      BY <2>1, <2>3, StoredSame DEF PullBody, StoredFolds, StoredMeta, Stored
    <3>2. Behind(blob)
      <4>1. Stored \in Nat /\ StoredMeta.epoch \in Nat
        BY <1>t, StoredType DEF Stored, FactorState
      <4> QED BY <3>1, <4>1 DEF Behind, Stored
    <3>3. \A b : Behind(b) => Behind(b)'
      BY <2>1, <3>1 DEF Behind
    <3>4. BodyInv'
      BY <1>t, <2>3, <3>2, <3>3 DEF HistoryInv, BodyInv, PullBody, TypeOK
    <3>5. ClockInv' /\ FoldsInv'
      BY <2>1, <3>1 DEF HistoryInv, ClockInv, FoldsInv
    <3> QED BY <3>4, <3>5 DEF HistoryInv
  <2> QED BY <1>5, <2>2, <2>3 DEF PullVersion, PullFails
<1>6. CASE Crash
  <2>1. UNCHANGED <<blob, body>>
    BY <1>6 DEF Crash, storeVars
  <2>2. /\ StoredMeta'.epoch = StoredMeta.epoch
        /\ StoredMeta'.folds = StoredMeta.folds
        /\ StoredMeta'.compat = StoredMeta.compat
    BY <2>1 DEF StoredMeta, NewModel
  <2>3. \A f \in Fold : fold[f] \in Out => fold'[f] \in Out
    BY <1>6 DEF Crash, Out
  <2> QED BY <2>1, <2>2, <2>3, HistorySame
<1>7. CASE UNCHANGED vars
  <2>1. UNCHANGED <<blob, body, config, fold>>
    BY <1>7 DEF vars, storeVars, foldVars, pullVars
  <2> QED BY <2>1, StoredSame, HistorySame
<1> QED BY <1>1, <1>2, <1>3, <1>4, <1>5, <1>6, <1>7, StepCases

(* What was stored when a cold call cached late is stored for good. *)
LateInv == (Reads /\ late # None) => late <= Stored

LEMMA LateInit == Init => LateInv
BY DEF Init, LateInv

LEMMA LateStep ==
  ASSUME TypeInv, CountInv, LateInv, [Next]_vars
  PROVE  /\ LateInv'
         /\ late # None => late' = late
         /\ late' # late => late' = Stored /\ UNCHANGED blob
<1>t. TypeOK /\ FoldsStay /\ UNCHANGED faults
  BY StayStep, FaultsKept DEF TypeInv
<1>1. CASE late' = late
  <2>1. Stored \in Nat
    BY <1>t, StoredType DEF Stored
  <2>2. Reads => Stored <= Stored'
    BY <1>t DEF FoldsStay, Stored
  <2>3. Stored' \in Nat
    BY TypeStep, StoredType DEF Stored, TypeInv
  <2> QED BY <1>t, <1>1, <2>1, <2>2, <2>3 DEF LateInv, Reads, TypeOK
<1>2. ASSUME NEW l \in Loader, LoadMiss(l) \/ LoadRead(l) \/ LoadStore(l)
      PROVE  /\ LateInv'
             /\ late # None => late' = late
             /\ late' # late => late' = Stored /\ UNCHANGED blob
  <2>1. UNCHANGED blob /\ (late # None => late' = late) /\ late' \in {late, Stored}
    <3>1. CASE LoadStore(l)
      BY <3>1 DEF LoadStore, storeVars, Stored
    <3>2. CASE LoadMiss(l) \/ LoadRead(l)
      BY <3>2 DEF LoadMiss, LoadRead, storeVars
    <3> QED BY <1>2, <3>1, <3>2
  <2>2. Stored' = Stored /\ Stored \in Nat
    BY <1>t, <2>1, GlobalSame, StoredType DEF Stored
  <2> QED BY <1>t, <2>1, <2>2 DEF LateInv, Reads
<1> QED BY <1>1, <1>2, StepCases
        DEF Enters, FoldCheck, FoldStage, FoldStageFails, FoldStart, FoldRefused,
            GoesOn, FoldOpen, FoldNumber, FoldPublish, FoldTruncate, FoldVersion,
            Ends, FoldVoid, FoldVersionFails, FoldCache,
            PullVersion, PullBody, PullFails, Crash, loadVars, vars

StoreInv == TypeInv /\ CountInv /\ DurableInv /\ HistoryInv /\ LateInv

LEMMA StoreInvariance == StoreSpec => []StoreInv
<1>1. Init => StoreInv
  BY TypeInit, CountInit, DurableInit, HistoryInit, LateInit DEF StoreInv
<1>2. StoreInv /\ [Next]_vars => StoreInv'
  BY TypeStep, CountStep, DurableStep, HistoryStep, LateStep DEF StoreInv
<1> QED BY <1>1, <1>2, PTL DEF StoreSpec

LEMMA FrozenFromInv == StoreInv => FrozenFactorAgrees
<1> SUFFICES ASSUME StoreInv, InStep, NEW p \in Puller, body[p] # None,
                    body[p].meta.epoch = blob.meta.epoch
             PROVE  FrozenPart(body[p].folds, blob.meta.epoch) = FrozenPart(blob.folds,
             blob.meta.epoch)
  BY DEF FrozenFactorAgrees
<1>1. Behind(body[p]) /\ FoldsInv
  BY DEF StoreInv, HistoryInv, BodyInv
<1>2. StoredFolds = blob.folds /\ StoredMeta = blob.meta
  BY <1>1 DEF Behind, StoredFolds, StoredMeta
<1>3. Stored = Len(blob.folds) /\ Stored \in Nat
  <2>1. StoredFolds \in Seq(Entry)
    BY StoredType DEF StoreInv, TypeInv
  <2> QED BY <1>2, <2>1 DEF Stored
<1>4. Len(body[p].folds) \in Nat
  BY DEF StoreInv, TypeInv, TypeOK, Blob
<1>5. ASSUME NEW i \in 1..Stored, i > Len(body[p].folds)
      PROVE  TrainedIn(blob.folds[i].stamp.epoch) = TrainedIn(blob.meta.epoch)
  <2>1. blob.folds[i].stamp.epoch <= blob.meta.epoch /\ blob.meta.epoch <= blob.folds[i].stamp.epoch
    BY <1>1, <1>2, <1>5 DEF FoldsInv, Behind
  <2>2. blob.folds[i] \in Entry
    BY <1>2, <1>3, StoredType, ElementOfSeq DEF StoreInv, TypeInv
  <2>3. blob.folds[i].stamp.epoch \in Nat /\ blob.meta.epoch \in Nat
    BY <1>2, <2>2, StoredType DEF StoreInv, TypeInv, Entry, Stamp, FactorState
  <2>4. blob.folds[i].stamp.epoch = blob.meta.epoch
    BY <2>1, <2>3
  <2> QED BY <2>4
<1>6. \A i \in 1..Len(body[p].folds) : i \in 1..Stored /\ blob.folds[i] = body[p].folds[i]
  BY <1>1, <1>2, <1>3, <1>4 DEF Behind
<1>7. \A i \in 1..Stored : i \notin 1..Len(body[p].folds) => i > Len(body[p].folds)
  BY <1>3, <1>4
<1> QED BY <1>3, <1>5, <1>6, <1>7 DEF FrozenPart

(* FrozenFactorHolds: for every length of the epochs and any number of cold
   callers, folds, clients and crashes, what a client of the current epoch
   trained against is the frozen factor of the global its update is folded
   into, until a cold call caches late (phase_of, _fold_streamed).         *)
THEOREM FrozenFactorHolds == StoreSpec => []FrozenFactorAgrees
  BY StoreInvariance, FrozenFromInv, PTL

(* Every publication in step is a fold Global admits. *)
LEMMA PublishImplements ==
  ASSUME StoreInv, InStep, NEW f \in Fold, FoldPublish(f),
         SoundFolds = StoredFolds, SoundFolds' = StoredFolds'
  PROVE  G!Next
<1> DEFINE e == [by |-> f, stamp |-> stamp[f]]
<1>1. /\ work[f].st = StoredMeta /\ stamp[f] \in Stamp /\ Admits(StoredMeta, stamp[f])
      /\ work[f].old = StoredFolds
  BY PublishFits DEF StoreInv
<1>2. /\ StoredFolds' = Append(StoredFolds, e)
      /\ Len(StoredFolds') = Len(StoredFolds) + 1
      /\ StoredFolds'[Len(StoredFolds')] = e
  BY <1>1, PublishAppends DEF StoreInv
<1>3. StoredMeta \in FactorState /\ StoredFolds \in Seq(Entry)
  BY StoredType DEF StoreInv, TypeInv
<1>4. G!InEpoch(e, Len(StoredFolds) + 1)
  <2>1. e.stamp.epoch = StoredMeta.epoch
    BY <1>1 DEF Admits
  <2>2. Len(StoredFolds) = StoredMeta.epoch * EpochFolds + StoredMeta.folds
    BY DEF StoreInv, HistoryInv, ClockInv, Stored
  <2>3. /\ StoredMeta.epoch * EpochFolds \in Nat /\ StoredMeta.folds \in Nat
        /\ StoredMeta.folds + 1 <= EpochFolds /\ EpochFolds \in Nat
    BY <1>3, EpochAssumption DEF FactorState
  <2> QED BY <2>1, <2>2, <2>3 DEF G!InEpoch
<1>5. ASSUME NEW i \in 1..Len(StoredFolds)
      PROVE  StoredFolds[i].by # e.by /\ StoredFolds[i].stamp.compat = e.stamp.compat
  <2>1. /\ fold[StoredFolds[i].by] \in Out
        /\ StoredFolds[i].stamp.compat = StoredMeta.compat
    BY DEF StoreInv, HistoryInv, FoldsInv, Stored
  <2>2. StoredFolds[i] \in Entry
    BY <1>3, ElementOfSeq
  <2>3. StoredMeta.compat # None
    BY <2>1, <2>2, DisjointAssumption DEF Entry, Stamp
  <2>4. fold[f] \notin Out
    BY DEF FoldPublish, FoldMoves, Out
  <2> QED BY <1>1, <2>1, <2>3, <2>4 DEF Admits
<1>6. G!AddFold(e)
  BY <1>2, <1>4, <1>5 DEF G!AddFold
<1> HIDE DEF e
<1> QED BY <1>2, <1>6 DEF G!Next

LEMMA StepImplementsGlobal == StoreInv /\ [Next]_vars => [G!Next]_SoundFolds
<1> SUFFICES ASSUME StoreInv, [Next]_vars PROVE [G!Next]_SoundFolds
  OBVIOUS
<1>t. /\ TypeOK /\ UNCHANGED faults /\ FoldsStay
      /\ StoredFolds \in Seq(Entry) /\ Stored \in Nat
  BY FaultsKept, StayStep, StoredType DEF StoreInv, TypeInv, Stored
<1>l. /\ late # None => late' = late
      /\ late' # late => late' = Stored /\ UNCHANGED blob
  BY LateStep DEF StoreInv
<1>1. CASE faults # {}
  BY <1>1, <1>t DEF SoundFolds
<1>2. CASE InStep /\ late' = None
  <2>1. SoundFolds = StoredFolds /\ SoundFolds' = StoredFolds'
    BY <1>2, <1>t DEF SoundFolds, InStep
  <2>2. ASSUME NEW f \in Fold, FoldPublish(f) PROVE G!Next
    BY <1>2, <2>1, <2>2, PublishImplements
  <2>3. CASE UNCHANGED blob
    BY <2>1, <2>3, GlobalSame
  <2> QED BY <2>2, <2>3, OnlyPublishes
<1>3. CASE InStep /\ late' # None
  <2>1. SoundFolds = StoredFolds /\ late' = Stored /\ StoredFolds' = StoredFolds
    BY <1>3, <1>l, GlobalSame DEF SoundFolds, InStep
  <2>2. SoundFolds' = SubSeq(StoredFolds, 1, Stored)
    BY <1>3, <1>t, <2>1 DEF SoundFolds, InStep
  <2>3. SubSeq(StoredFolds, 1, Stored) = StoredFolds
    BY <1>t DEF Stored
  <2> QED BY <2>1, <2>2, <2>3
<1>4. CASE faults = {} /\ late # None
  <2>1. late \in Nat /\ late' = late /\ late <= Stored
    BY <1>4, <1>t, <1>l DEF StoreInv, LateInv, Reads, TypeOK
  <2>2. /\ SoundFolds = SubSeq(StoredFolds, 1, late)
        /\ SoundFolds' = SubSeq(StoredFolds', 1, late)
    BY <1>4, <1>t, <2>1 DEF SoundFolds
  <2>3. StoredFolds' \in Seq(Entry) /\ Stored' \in Nat
    <3>1. TypeOK'
      BY TypeStep DEF StoreInv, TypeInv
    <3>2. blob' \in Blob \cup {None}
      BY <3>1 DEF TypeOK
    <3>3. StoredFolds' \in Seq(Entry)
      BY <3>2 DEF StoredFolds, Blob
    <3> QED BY <3>3 DEF Stored
  <2>4. Stored <= Stored' /\ \A i \in 1..Stored : StoredFolds'[i] = StoredFolds[i]
    BY <1>4, <1>t DEF FoldsStay, Reads, Stored
  <2>5. /\ SubSeq(StoredFolds, 1, late) \in Seq(Entry)
        /\ SubSeq(StoredFolds', 1, late) \in Seq(Entry)
        /\ Len(SubSeq(StoredFolds, 1, late)) = late
        /\ Len(SubSeq(StoredFolds', 1, late)) = late
        /\ \A i \in 1..late : /\ SubSeq(StoredFolds, 1, late)[i] = StoredFolds[i]
                              /\ SubSeq(StoredFolds', 1, late)[i] = StoredFolds'[i]
    BY <1>t, <2>1, <2>3, <2>4 DEF Stored
  <2>6. \A i \in 1..late : StoredFolds'[i] = StoredFolds[i]
    BY <1>t, <2>1, <2>4
  <2>7. SubSeq(StoredFolds, 1, late) = SubSeq(StoredFolds', 1, late)
    BY <2>5, <2>6, SeqEqual
  <2> QED BY <2>2, <2>7
<1> QED BY <1>1, <1>2, <1>3, <1>4 DEF InStep

(* StoreImplementsGlobal: on a storage without faults and until a cold call
   caches late the stored blob is a global as Global promises it, for any
   number of cold callers, of folds and of crashes at any storage call, and
   what was stored by then stays (global_writer, state).                   *)
THEOREM StoreImplementsGlobal == StoreSpec => ImplementsGlobal
<1>1. Init => G!Init
  BY DEF Init, G!Init, SoundFolds, StoredFolds
<1> QED
  BY <1>1, StepImplementsGlobal, StoreInvariance, PTL DEF StoreSpec, ImplementsGlobal, G!GlobalSpec
=============================================================================
