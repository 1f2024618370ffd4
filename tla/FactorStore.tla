---------------------------- MODULE FactorStore ----------------------------
(***************************************************************************)
(* One model's stored global: the blob object, the version sidecar, the    *)
(* cached factor state, the folds that publish, the cold calls that warm   *)
(* the cache and the clients that pull (store.py; state, _fold_streamed    *)
(* and serve_global of aggregate.py), with crashes of the server.          *)
(*                                                                         *)
(* Every storage call is a step of its own, so everything between two of   *)
(* them may interleave with the other threads or be cut off by a crash.    *)
(* Tensors are left out: a blob is the sequence of folds it contains, and  *)
(* its metadata.  A fold here is one run of _fold_streamed, for a cohort   *)
(* or for a bootstrap upload alike; Cohort models who asks for it.         *)
(***************************************************************************)
EXTENDS Integers, Sequences, FiniteSets

CONSTANTS
    Fold,        \* runs of _fold_streamed
    Loader,      \* threads that may find the cache cold (state())
    Puller,      \* clients of GET /global
    Compat,      \* architecture digests
    EpochFolds,
    Rank,        \* rank caps the operator may configure
    Backends,    \* the storage backends to consider: "fs", "s3"
    FaultSets,   \* sets of faults to consider.  "version": writing the sidecar may raise;
                 \* "read": a read of the store may raise
    MaxCrashes,  \* bound on the crashes of a behaviour
    None, Torn

ASSUME EpochAssumption == EpochFolds \in Nat \ {0}
ASSUME CrashAssumption == MaxCrashes \in Nat
ASSUME BackendAssumption == /\ Backends \subseteq {"fs", "s3"}
                            /\ \A faults \in FaultSets : faults \subseteq {"version", "read"}
ASSUME DisjointAssumption == None \notin Fold \cup Compat /\ None \notin Nat /\ Torn \notin Nat

VARIABLES
    (* Durable: the store. *)
    backend,   \* ROGER_SERVER_STORAGE
    faults,    \* what may go wrong with it
    blob,      \* <stem>.safetensors, or None
    version,   \* <stem>.version: a number, None when absent, Torn when empty
    (* The server process. *)
    config,    \* ROGER_AGG_RANK, read when the process starts
    cache,     \* _state[model_id], or None
    loader,    \* where a cold state() call is
    found,     \* what it read
    late,      \* a history variable, which no step reads: how many folds a store without
               \* faults had when a cold call first cached what it had moved on from, or None
    fold,      \* where a fold is
    stamp,     \* what it was checked with
    work,      \* what it has captured so far
    lock,      \* the model's finalize lock: its holder, or None
    (* Clients. *)
    puller,    \* where a GET /global is
    seen,      \* the version it will be answered with
    cursor,    \* the client's cursor
    body,      \* the global the client has, or None
    crashes

storeVars  == <<backend, faults, blob, version>>
loadVars   == <<loader, found, late>>
foldVars   == <<fold, stamp, work, lock>>
pullVars   == <<puller, seen, cursor, body>>

vars == <<storeVars, config, cache, loadVars, foldVars, pullVars, crashes>>

Stamp == [epoch : Nat, compat : Compat]

Entry == [by : Fold, stamp : Stamp]

FactorState ==
    [epoch : Nat, folds : 0..EpochFolds - 1, rank : Rank, compat : Compat \cup {None}]

Blob == [folds : Seq(Entry), meta : FactorState]

Work == [st : FactorState, old : Seq(Entry), next : Nat]

ASSUME NoneAssumption == None \notin FactorState \cup Blob

FoldPhase == {"idle", "checked", "staged", "started", "opened", "numbered", "published", "truncated",
              "versioned", "done", "void", "lost"}

TypeOK ==
    /\ backend \in Backends
    /\ faults \in FaultSets
    /\ config \in Rank
    /\ blob \in Blob \cup {None}
    /\ version \in Nat \cup {None, Torn}
    /\ cache \in FactorState \cup {None}
    /\ loader \in [Loader -> {"idle", "reading", "read"}]
    /\ found \in [Loader -> FactorState \cup {None}]
    /\ late \in Nat \cup {None}
    /\ fold \in [Fold -> FoldPhase]
    /\ stamp \in [Fold -> Stamp \cup {None}]
    /\ work \in [Fold -> Work \cup {None}]
    /\ lock \in Fold \cup {None}
    /\ puller \in [Puller -> {"idle", "open"}]
    /\ seen \in [Puller -> Nat]
    /\ cursor \in [Puller -> Nat]
    /\ body \in [Puller -> Blob \cup {None}]
    /\ crashes \in 0..MaxCrashes

Init ==
    /\ backend \in Backends
    /\ faults \in FaultSets
    /\ config \in Rank
    /\ blob = None
    /\ version = None
    /\ cache = None
    /\ loader = [l \in Loader |-> "idle"]
    /\ found  = [l \in Loader |-> None]
    /\ late   = None
    /\ fold   = [f \in Fold |-> "idle"]
    /\ stamp  = [f \in Fold |-> None]
    /\ work   = [f \in Fold |-> None]
    /\ lock   = None
    /\ puller = [p \in Puller |-> "idle"]
    /\ seen   = [p \in Puller |-> 0]
    /\ cursor = [p \in Puller |-> 0]
    /\ body   = [p \in Puller |-> None]
    /\ crashes = 0

-----------------------------------------------------------------------------
(* The factor state. *)

(* What load_meta and state() make of a model without a stored global: only
   then is the configured rank cap used.                                   *)
NewModel == [epoch |-> 0, folds |-> 0, rank |-> config, compat |-> None]

StoredFolds == IF blob = None THEN <<>> ELSE blob.folds
StoredMeta  == IF blob = None THEN NewModel ELSE blob.meta

(* Variant: one fold late. *)
AdvancesLate(n) == n > EpochFolds
Advances(n) == n >= EpochFolds

NewEpoch(st) == IF Advances(st.folds + 1) THEN st.epoch + 1 ELSE st.epoch

(* Variant: the number of folds is kept in memory only. *)
MetaWithoutFolds(st, s) ==
    [epoch |-> NewEpoch(st), folds |-> 0, rank |-> st.rank, compat |-> s.compat]

(* Variant: the rank is the configured one. *)
MetaConfigured(st, s) ==
    [epoch |-> NewEpoch(st),
     folds |-> IF Advances(st.folds + 1) THEN 0 ELSE st.folds + 1,
     rank |-> config,
     compat |-> s.compat]

(* The metadata written with the blob ... *)
MetaAfter(st, s) ==
    [epoch |-> NewEpoch(st),
     folds |-> IF Advances(st.folds + 1) THEN 0 ELSE st.folds + 1,
     rank |-> st.rank,
     compat |-> s.compat]

(* Variant: the cached epoch moves with the next /status only. *)
CacheKeepsEpoch(st, s) ==
    [epoch |-> st.epoch,
     folds |-> IF Advances(st.folds + 1) THEN 0 ELSE st.folds + 1,
     rank |-> st.rank,
     compat |-> s.compat]

(* ... and the state cached after it, computed apart from it. *)
CacheAfter(st, s) ==
    [epoch |-> NewEpoch(st),
     folds |-> IF Advances(st.folds + 1) THEN 0 ELSE st.folds + 1,
     rank |-> st.rank,
     compat |-> s.compat]

-----------------------------------------------------------------------------
(* state(): a call that finds no cached state reads the stored metadata and
   caches what it read.  Calls of /status, /round/register, /contribute and
   /contribute_dp do it in threads of their own, without a lock.           *)

(* The threads are interchangeable: the next one to come is any idle one. *)
NextLoader == CHOOSE l \in Loader : loader[l] = "idle"

LoadMiss(l) ==
    /\ loader[l] = "idle"
    /\ l = NextLoader
    /\ cache = None
    /\ loader' = [loader EXCEPT ![l] = "reading"]
    /\ UNCHANGED <<storeVars, config, cache, found, late, foldVars, pullVars, crashes>>

(* _reader_at answers a read that raises like a blob that is not there. *)
MayMissBlob == "read" \in faults

LoadRead(l) ==
    /\ loader[l] = "reading"
    /\ loader' = [loader EXCEPT ![l] = "read"]
    /\ \/ found' = [found EXCEPT ![l] = StoredMeta]
       \/ MayMissBlob /\ found' = [found EXCEPT ![l] = NewModel]
    /\ UNCHANGED <<storeVars, config, cache, late, foldVars, pullVars, crashes>>

(* It does not look whether another call, or a fold, has cached since. *)
LoadStore(l) ==
    /\ loader[l] = "read"
    /\ loader' = [loader EXCEPT ![l] = "idle"]
    /\ cache' = found[l]
    /\ late' = IF faults = {} /\ late = None /\ found[l] # StoredMeta
                THEN Len(StoredFolds) ELSE late
    /\ found' = [found EXCEPT ![l] = None]
    /\ UNCHANGED <<storeVars, config, foldVars, pullVars, crashes>>

-----------------------------------------------------------------------------
(* A fold, from its upload's check to its last write. *)

(* Variant: the epoch is not checked again under the lock. *)
AdmitsAnyEpoch(st, s) == st.compat # None => s.compat = st.compat

Admits(st, s) ==
    /\ s.epoch = st.epoch
    /\ st.compat # None => s.compat = st.compat

FoldMoves(f, from, to) ==
    /\ fold[f] = from
    /\ fold' = [fold EXCEPT ![f] = to]

(* The runs are interchangeable: the next one to be checked is any idle one. *)
NextRun == CHOOSE f \in Fold : fold[f] = "idle"

(* check_upload, with the cache warm. *)
FoldCheck(f, s) ==
    /\ cache # None
    /\ Admits(cache, s)
    /\ FoldMoves(f, "idle", "checked")
    /\ f = NextRun
    /\ stamp' = [stamp EXCEPT ![f] = s]
    /\ UNCHANGED <<storeVars, config, cache, loadVars, work, lock, pullVars, crashes>>

(* What was checked is still to be streamed, by one client or by a cohort.  The
   body comes in and a fold is called for, or it never does: a stream breaks,
   a round misses its window.  Nobody has to finish it.                    *)
FoldStage(f) ==
    /\ FoldMoves(f, "checked", "staged")
    /\ UNCHANGED <<storeVars, config, cache, loadVars, stamp, work, lock, pullVars, crashes>>

FoldStageFails(f) ==
    /\ FoldMoves(f, "checked", "void")
    /\ stamp' = [stamp EXCEPT ![f] = None]
    /\ UNCHANGED <<storeVars, config, cache, loadVars, work, lock, pullVars, crashes>>

(* Variant: folds of one model are not serialised. *)
NoLock == TRUE
LockFree == lock = None

(* Under the lock the fold takes the cached state, once more checked. *)
FoldStart(f) ==
    /\ FoldMoves(f, "staged", "started")
    /\ LockFree
    /\ Admits(cache, stamp[f])
    /\ work' = [work EXCEPT ![f] = [st |-> cache, old |-> <<>>, next |-> 0]]
    /\ lock' = f
    /\ UNCHANGED <<storeVars, config, cache, loadVars, stamp, pullVars, crashes>>

FoldRefused(f) ==
    /\ FoldMoves(f, "staged", "void")
    /\ LockFree
    /\ ~Admits(cache, stamp[f])
    /\ stamp' = [stamp EXCEPT ![f] = None]
    /\ UNCHANGED <<storeVars, config, cache, loadVars, work, lock, pullVars, crashes>>

(* open_global_reader: the old global, or nothing to add to. *)
FoldOpen(f) ==
    /\ FoldMoves(f, "started", "opened")
    /\ \/ work' = [work EXCEPT ![f].old = StoredFolds]
       \/ MayMissBlob /\ work' = [work EXCEPT ![f].old = <<>>]
    /\ UNCHANGED <<storeVars, config, cache, loadVars, stamp, lock, pullVars, crashes>>

(* Variant: the lock is let go of on success only. *)
ReleasedWhenDone(f) ==
    /\ lock' = IF fold[f] = "versioned" THEN None ELSE lock
    /\ work' = [work EXCEPT ![f] = None]
    /\ stamp' = [stamp EXCEPT ![f] = None]

(* The end of `async with lock`, however the fold ends. *)
Released(f) ==
    /\ lock' = None
    /\ work' = [work EXCEPT ![f] = None]
    /\ stamp' = [stamp EXCEPT ![f] = None]

(* The delta is not folded: an error, a non-finite delta, the norm bound, a
   version that cannot be read, a blob that cannot be published.           *)
FoldVoid(f) ==
    /\ FoldMoves(f, "opened", "void") \/ FoldMoves(f, "numbered", "void")
    /\ Released(f)
    /\ UNCHANGED <<storeVars, config, cache, loadVars, pullVars, crashes>>

(* load_version: 0 when there is none, and when S3 does not answer.  On a file
   system a read that fails raises, and so does int() of an empty sidecar. *)
VersionRead == IF version = None THEN 0 ELSE version
MayMissVersion == "read" \in faults /\ backend = "s3"

FoldNumber(f) ==
    /\ version # Torn
    /\ FoldMoves(f, "opened", "numbered")
    /\ \/ work' = [work EXCEPT ![f].next = VersionRead + 1]
       \/ MayMissVersion /\ work' = [work EXCEPT ![f].next = 1]
    /\ UNCHANGED <<storeVars, config, cache, loadVars, stamp, lock, pullVars, crashes>>

(* The multipart upload completes, or the .tmp file is renamed into place. *)
FoldPublish(f) ==
    /\ FoldMoves(f, "numbered", "published")
    /\ blob' = [folds |-> Append(work[f].old, [by |-> f, stamp |-> stamp[f]]),
                meta  |-> MetaAfter(work[f].st, stamp[f])]
    /\ UNCHANGED <<backend, faults, version, config, cache, loadVars, stamp, work, lock, pullVars, crashes>>

(* open(v_path, "w") empties the sidecar before the number is written. *)
FoldTruncate(f) ==
    /\ backend = "fs"
    /\ FoldMoves(f, "published", "truncated")
    /\ version' = Torn
    /\ UNCHANGED <<backend, faults, blob, config, cache, loadVars, stamp, work, lock, pullVars, crashes>>

FoldVersion(f) ==
    /\ FoldMoves(f, IF backend = "fs" THEN "truncated" ELSE "published", "versioned")
    /\ version' = work[f].next
    /\ UNCHANGED <<backend, faults, blob, config, cache, loadVars, stamp, work, lock, pullVars, crashes>>

FoldVersionFails(f) ==
    /\ "version" \in faults
    /\ FoldMoves(f, "published", "void") \/ FoldMoves(f, "truncated", "void")
    /\ Released(f)
    /\ UNCHANGED <<storeVars, config, cache, loadVars, pullVars, crashes>>

FoldCache(f) ==
    /\ FoldMoves(f, "versioned", "done")
    /\ cache' = CacheAfter(work[f].st, stamp[f])
    /\ Released(f)
    /\ UNCHANGED <<storeVars, config, loadVars, pullVars, crashes>>

-----------------------------------------------------------------------------
(* serve_global: the version first, the body after it.  Nothing stored, a
   cursor that is current (204) and an empty sidecar (500) change nothing. *)

PullVersion(p) ==
    /\ puller[p] = "idle"
    /\ version \in Nat \ {0, cursor[p]}
    /\ puller' = [puller EXCEPT ![p] = "open"]
    /\ seen' = [seen EXCEPT ![p] = version]
    /\ UNCHANGED <<storeVars, config, cache, loadVars, foldVars, cursor, body, crashes>>

PullBody(p) ==
    /\ puller[p] = "open"
    /\ blob # None
    /\ puller' = [puller EXCEPT ![p] = "idle"]
    /\ cursor' = [cursor EXCEPT ![p] = seen[p]]
    /\ body' = [body EXCEPT ![p] = blob]
    /\ seen' = [seen EXCEPT ![p] = 0]
    /\ UNCHANGED <<storeVars, config, cache, loadVars, foldVars, crashes>>

(* The sidecar turned empty in between, or the connection broke. *)
PullFails(p) ==
    /\ puller[p] = "open"
    /\ puller' = [puller EXCEPT ![p] = "idle"]
    /\ seen' = [seen EXCEPT ![p] = 0]
    /\ UNCHANGED <<storeVars, config, cache, loadVars, foldVars, cursor, body, crashes>>

-----------------------------------------------------------------------------
(* The process dies and comes back with nothing but the store, maybe with
   another rank cap configured.                                            *)
Crash ==
    /\ crashes < MaxCrashes
    /\ crashes' = crashes + 1
    /\ config' \in Rank
    /\ cache' = None
    /\ loader' = [l \in Loader |-> "idle"]
    /\ found'  = [l \in Loader |-> None]
    /\ fold'   = [f \in Fold |-> IF fold[f] \in {"idle", "done", "void"} THEN fold[f] ELSE "lost"]
    /\ stamp'  = [f \in Fold |-> None]
    /\ work'   = [f \in Fold |-> None]
    /\ lock'   = None
    /\ puller' = [p \in Puller |-> "idle"]
    /\ seen'   = [p \in Puller |-> 0]
    /\ UNCHANGED <<storeVars, late, cursor, body>>

Stamps == IF cache = None THEN {} ELSE [epoch : {cache.epoch}, compat : Compat]

Next ==
    \/ \E l \in Loader : LoadMiss(l) \/ LoadRead(l) \/ LoadStore(l)
    \/ \E f \in Fold : \/ \E s \in Stamps : FoldCheck(f, s)
                       \/ FoldStage(f) \/ FoldStageFails(f)
                       \/ FoldStart(f) \/ FoldRefused(f) \/ FoldOpen(f) \/ FoldVoid(f)
                       \/ FoldNumber(f) \/ FoldPublish(f) \/ FoldTruncate(f)
                       \/ FoldVersion(f) \/ FoldVersionFails(f) \/ FoldCache(f)
    \/ \E p \in Puller : PullVersion(p) \/ PullBody(p) \/ PullFails(p)
    \/ Crash

StoreSpec == Init /\ [][Next]_vars

(* A storage call returns or raises, and a free lock goes to its next waiter.
   Nothing is assumed of the clients, who stream at their leisure, nor of the
   cold calls.                                                             *)
Fairness ==
    \A f \in Fold : /\ WF_vars(FoldStart(f) \/ FoldRefused(f))
                    /\ WF_vars(FoldOpen(f) \/ FoldVoid(f) \/ FoldNumber(f) \/ FoldPublish(f)
                                \/ FoldTruncate(f) \/ FoldVersion(f) \/ FoldVersionFails(f)
                                \/ FoldCache(f))

FairStoreSpec == StoreSpec /\ Fairness

-----------------------------------------------------------------------------
(* Storage that reads what is stored. *)
Reads == "read" \notin faults

(* The fold is in the stored global. *)
InGlobal(f) == \E i \in 1..Len(StoredFolds) : StoredFolds[i].by = f

(* CursorNotAhead: the cursor a client is given never claims more folds than
   the body that came with it, so no client is answered 204 over folds it was
   never sent while the counter has moved on.  The other way round it may be:
   the body can be newer than its cursor, and after a crash between blob and
   sidecar a client of the old version is answered 204 until the next fold
   (serve_global reads the version first, publish writes it last).         *)
CursorNotAhead ==
    Reads =>
        \A p \in Puller : cursor[p] <= IF body[p] = None THEN 0 ELSE Len(body[p].folds)

(* phase_of: the factor an epoch trains; the other one is frozen. *)
TrainedIn(epoch) == IF epoch % 2 = 0 THEN "B" ELSE "A"

(* The folds that made the factor an epoch does not train. *)
FrozenPart(folds, epoch) ==
    {folds[i] : i \in {j \in 1..Len(folds) : TrainedIn(folds[j].stamp.epoch) # TrainedIn(epoch)}}

(* The cache and the store have kept in step: no storage call raised, and no
   cold call cached what the store had moved on from.  The code does not
   exclude the latter; CacheIsDurable, below, is the comment that denies it. *)
InStep == faults = {} /\ late = None

(* FrozenFactorAgrees: a client whose global is of the current epoch trains
   against exactly the frozen factor its update will be folded beside, even
   when folds were published since it pulled: else the folded products would
   not be the sum of the trained ones (delta.py, "Why one factor at a time"). *)
FrozenFactorAgrees ==
    InStep => \A p \in Puller :
        (body[p] # None /\ body[p].meta.epoch = blob.meta.epoch) =>
            FrozenPart(body[p].folds, blob.meta.epoch) = FrozenPart(blob.folds, blob.meta.epoch)

(* A fold between its first durable write and the update of the cache. *)
Publishing(f) == fold[f] \in {"published", "truncated", "versioned"}

(* CacheInStep: however many calls warm the cache, wherever the server died and
   whatever folds ran meanwhile, what the server tells its clients to train
   (/status) is what the stored global says of itself, until a cold call
   caches late: nothing else moves the two apart (state, _fold_streamed).  *)
CacheInStep ==
    (InStep /\ cache # None /\ \A f \in Fold : ~Publishing(f)) => cache = StoredMeta

(* RankPinned: the rank cap a model was created with is its rank for good,
   whatever is configured at later restarts and in whatever order cold calls
   and folds run: every stored tensor and every client's adapter has the
   shape it fixes (aggregate.py state, _fold_streamed; delta.py rank_for,
   "the cap is pinned in the global's metadata when the model is created").  *)
RankPinned ==
    [][(Reads /\ blob # None) => blob'.meta.rank = blob.meta.rank]_vars

(* The global as Global.tla sees it: the folds that were stored while cache and
   store kept in step.                                                     *)
SoundFolds == IF faults # {} THEN <<>>
              ELSE IF late = None THEN StoredFolds
              ELSE SubSeq(StoredFolds, 1, late)

G == INSTANCE Global WITH log <- SoundFolds

(* ImplementsGlobal: until a cold call caches late, the stored blob is a global
   as Global.tla promises it, across crashes at any point: the clock that
   counts the folds of an epoch is as durable as the folds.  What was stored
   by then stays as it is (global_writer).                                 *)
ImplementsGlobal == G!GlobalSpec

(* EveryFoldEnds: once its bodies are staged a fold ends: no storage error, at
   any step of it or of another fold, leaves the lock taken or a fold hanging
   (_fold_streamed inside `async with lock`).  A run never goes back to be
   checked, so it is enough that again and again none waits or runs.       *)
EveryFoldEnds ==
    []<>(\A f \in Fold : fold[f] \in {"idle", "checked", "done", "void", "lost"})

(* FoldsKept: a publication adds to what is stored and drops none of it,
   however many threads warm the cache meanwhile, wherever the server died
   before and whatever became of the version sidecar: a fold reads the old
   global and replaces it in separate calls, under the lock (_fold_streamed,
   open_global_reader, global_writer).                                     *)
FoldsKept ==
    [][Reads => /\ Len(StoredFolds) <= Len(StoredFolds')
                /\ \A i \in 1..Len(StoredFolds) : StoredFolds'[i] = StoredFolds[i]]_vars

(* ReportsAreTrue: what a fold reported stays true.  One reported as done is
   in the stored global from then on, and as long as no write fails, one
   reported as void never is: its clients may send the same delta again
   (run_finalize, contribute_dp).                                          *)
ReportsAreTrue ==
    \A f \in Fold : /\ (Reads /\ fold[f] = "done") => InGlobal(f)
                    /\ (faults = {} /\ fold[f] = "void") => ~InGlobal(f)

-----------------------------------------------------------------------------
(* What comments of the source promise and the code does not keep. *)

(* CacheIsDurable: while nothing is being published, what is cached is what is
   stored: aggregate.py state, "nothing else can move it (every fold updates
   the cache in the same breath as the blob)".                             *)
CacheIsDurable ==
    (faults = {} /\ cache # None /\ \A f \in Fold : ~Publishing(f)) => cache = StoredMeta

(* FoldsAsReported: while nothing is being published, a fold reported as done
   is in the stored global, and one reported as void is not: aggregate.py
   run_finalize, "writer aborted inside; global untouched -> void", and
   store.py global_writer, "atomically publishes the blob + version".      *)
FoldsAsReported ==
    (\A g \in Fold : ~Publishing(g)) =>
        \A f \in Fold : /\ (fold[f] = "done" => InGlobal(f))
                         /\ (fold[f] = "void" => ~InGlobal(f))
=============================================================================
