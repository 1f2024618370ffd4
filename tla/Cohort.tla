------------------------------- MODULE Cohort -------------------------------
(***************************************************************************)
(* One model's secure-aggregation rounds as roger-server runs them: the    *)
(* long-polled /round/register, the seal, the streamed /contribute, the    *)
(* claim, the fold under the model's lock and the cleanup of the staged    *)
(* objects, together with the bootstrap /contribute_dp calls that fold     *)
(* into the same global (aggregate.py, app.py; staging of store.py).       *)
(*                                                                         *)
(* Steps.  A critical section under `cond`, and any stretch of a handler   *)
(* with no await in it, is one action; every await is a point where other  *)
(* calls run.  A refusal that changes no state (HTTP 400 or 403 before a   *)
(* reservation) is a stutter.  Time is abstract: a window may close at any *)
(* moment after it opens.                                                  *)
(*                                                                         *)
(* The stored global is its history: the sequence of folds that went into  *)
(* it, so its version is the length of `log`.  Publication is one step     *)
(* here, and the cached factor state moves with it; FactorStore takes      *)
(* these apart.  The process runs for good here and its cache is warm;     *)
(* Restart ends it and starts it again with a cold one.                    *)
(***************************************************************************)
EXTENDS Integers, Sequences, FiniteSets

CONSTANTS
    Key,         \* client public keys
    Req,         \* /round/register calls; a call stands for the token issued to it
    KeyOf,       \* the key each call presents
    Round,       \* Round objects (all of one model_id)
    Upload,      \* /contribute calls; a call stands for the slot it stages
    Bootstrap,   \* /contribute_dp calls; a call stands for its private tmp prefix
    Compat,      \* architecture digests
    Spec,        \* flattened layouts an upload can declare
    LengthOf,    \* total number of elements of each layout
    KMin, KTarget, EpochFolds,
    Backend,     \* ROGER_SERVER_STORAGE: "fs" or "s3"
    Faults,      \* storage calls that may raise: "open" (stage_writer), "cleanup" (stage_cleanup),
                 \* "abort" (a file system's writer.abort: closing flushes)
    None

ASSUME KeyOfAssumption    == KeyOf \in [Req -> Key]
ASSUME LengthAssumption   == LengthOf \in [Spec -> Nat]
ASSUME FiniteAssumption   == IsFiniteSet(Req) /\ IsFiniteSet(Key) /\ IsFiniteSet(Upload)
ASSUME SizeAssumption     == KMin \in Nat \ {0} /\ KTarget \in Nat /\ KMin <= KTarget
ASSUME EpochAssumption    == EpochFolds \in Nat \ {0}
ASSUME DisjointAssumption == /\ Round \cap Bootstrap = {}
                             /\ Upload \cap Bootstrap = {}
                             /\ None \notin Round \cup Bootstrap \cup Req \cup Compat
                             /\ None \notin [epoch : Nat, compat : Compat, spec : Spec]
ASSUME BackendAssumption  == Backend \in {"fs", "s3"} /\ Faults \subseteq {"open", "cleanup", "abort"}

VARIABLES
    (* Round objects, a function per field. *)
    registrants,  \* the calls whose tokens the round accepts
    peers,        \* sealed_peers
    sealed,       \* the rounds that were sealed
    failed,       \* the rounds that failed: too small, or of mixed layouts
    layout,       \* the stamp of the first upload, or None
    spent,        \* claimed tokens
    staged,       \* slots received
    inflight,     \* reservations still streaming
    fin,          \* how far finalisation is
    (* Handlers in progress, likewise. *)
    call,         \* /round/register: where the handler is
    joined,       \* and the round it joined, or None
    upload,       \* /contribute: where the handler is
    token,        \* and the token it presented,
    stamp,        \* and the stamp it declared, or None
    boot,         \* /contribute_dp: where the handler is
    bootStamp,    \* and the stamp it declared, or None
    (* The server and its store. *)
    registering,  \* the round open for registration, or None
    objects,      \* staged objects present in the store
    lock,         \* holder of the model's finalize lock, or None
    fold,         \* per holder, what a fold in progress captured, or None
    state,        \* the cached factor state {epoch, folds, compat}
    log,          \* the folds that made the stored global
    meta,         \* the factor state in its metadata
    (* The server process. *)
    start,        \* the metadata it found stored when it started
    crashes       \* how many processes died before it

memberVars  == <<registrants, peers, sealed, registering, call, joined>>
collectVars == <<layout, spent, staged, inflight, upload, token, stamp>>
bootVars    == <<boot, bootStamp>>
processVars == <<start, crashes>>
globalVars  == <<fold, state, log, meta, processVars>>

vars == <<memberVars, failed, collectVars, fin, bootVars, objects, lock, globalVars>>

Holder == Round \cup Bootstrap

(* What an upload's header declares, and the server checks. *)
Stamp == [epoch : Nat, compat : Compat, spec : Spec]

FactorState == [epoch : Nat, folds : Nat, compat : Compat \cup {None}]

(* One fold of the global: who folded, under which stamp, from which slots. *)
Entry == [by : Holder, stamp : Stamp, slots : SUBSET Upload]

FoldRec == [st : FactorState, old : Seq(Entry), slots : SUBSET Upload]

CallPhase   == {"idle", "waiting", "ok", "failed"}
UploadPhase == {"idle", "reserved", "streaming", "stored", "aborted", "done", "refused", "error"}
BootPhase   == {"idle", "checked", "aggregate", "folding", "folded", "voided", "done", "lost"}
RoundPhase  == {"none", "aggregate", "void", "folding", "folded", "voided", "done", "unswept",
                "lost"}

(* Where a round or a bootstrap call ends: finalised and cleaned up, a cleanup
   that raised ("unswept"), or, with the crashes of Restart, lost with the
   process that ran it.                                                    *)
Ended == {"done", "unswept", "lost"}

TypeOK ==
    /\ registrants \in [Round -> SUBSET Req]
    /\ peers \in [Round -> SUBSET Key]
    /\ sealed \subseteq Round
    /\ failed \subseteq Round
    /\ layout \in [Round -> Stamp \cup {None}]
    /\ spent \in [Round -> SUBSET Req]
    /\ staged \in [Round -> SUBSET Upload]
    /\ inflight \in [Round -> Int]
    /\ fin \in [Round -> RoundPhase]
    /\ registering \in Round \cup {None}
    /\ call \in [Req -> CallPhase]
    /\ joined \in [Req -> Round \cup {None}]
    /\ upload \in [Upload -> UploadPhase]
    /\ token \in [Upload -> Req \cup {None}]
    /\ stamp \in [Upload -> Stamp \cup {None}]
    /\ boot \in [Bootstrap -> BootPhase]
    /\ bootStamp \in [Bootstrap -> Stamp \cup {None}]
    /\ objects \subseteq Upload \cup Bootstrap
    /\ lock \in Holder \cup {None}
    /\ fold \in [Holder -> FoldRec \cup {None}]
    /\ state \in FactorState /\ meta \in FactorState /\ start \in FactorState
    /\ log \in Seq(Entry)
    /\ crashes \in Nat

Init ==
    /\ registrants = [r \in Round |-> {}]
    /\ peers       = [r \in Round |-> {}]
    /\ sealed      = {}
    /\ failed      = {}
    /\ layout      = [r \in Round |-> None]
    /\ spent       = [r \in Round |-> {}]
    /\ staged      = [r \in Round |-> {}]
    /\ inflight    = [r \in Round |-> 0]
    /\ fin         = [r \in Round |-> "none"]
    /\ registering = None
    /\ call        = [q \in Req |-> "idle"]
    /\ joined      = [q \in Req |-> None]
    /\ upload      = [u \in Upload |-> "idle"]
    /\ token       = [u \in Upload |-> None]
    /\ stamp       = [u \in Upload |-> None]
    /\ boot        = [d \in Bootstrap |-> "idle"]
    /\ bootStamp   = [d \in Bootstrap |-> None]
    /\ objects     = {}
    /\ lock        = None
    /\ fold        = [h \in Holder |-> None]
    /\ state       = [epoch |-> 0, folds |-> 0, compat |-> None]
    /\ log         = <<>>
    /\ meta        = state
    /\ start       = state
    /\ crashes     = 0

-----------------------------------------------------------------------------
(* Registration and seal: app.py register, aggregate.py add_registrant and
   try_seal.                                                               *)

(* Round objects no call has opened yet. *)
Fresh == {r \in Round : \A q \in Req : joined[q] # r}

(* Variant: the retried call's old token stays valid. *)
JoinKeepingOldToken(old, q) == old \cup {q}

(* `rnd.registrants[pubkey] = token`: a second call with the same key takes
   the entry over, and the token of the first call dies with it.           *)
JoinRegistrants(old, q) == {p \in old : KeyOf[p] # KeyOf[q]} \cup {q}

(* try_seal's condition; `final` at the deadline of the register window. *)
SealQuorum(regs, final) ==
    LET n == Cardinality(regs)
    IN  n >= KTarget \/ (final /\ n >= KMin)

(* Variant: the peer set is built from the tokens, not from the keys. *)
PeersByToken(regs) == regs
PeersOf(regs) == {KeyOf[q] : q \in regs}

(* Variant: a round sealed at its deadline stays open for registration. *)
KeepRegistering(r) == registering

(* _clear_registering *)
ClearRegistering(r) == IF registering = r THEN None ELSE registering

(* The round add_registrant hands a new call: the open one, or a new one.
   Round objects, and slots below, are interchangeable: the next is any.   *)
NextRound == CHOOSE r \in Fresh : TRUE
OpenRounds == IF registering = None THEN {r \in Fresh : r = NextRound} ELSE {registering}

(* The register handler up to its first wait: join the round, and seal it when
   this arrival completes it.  The sealing call itself never waits: it is
   answered in the same stretch.                                           *)
RegisterIn(q, r) ==
    LET regs == JoinRegistrants(registrants[r], q)
    IN  /\ registrants' = [registrants EXCEPT ![r] = regs]
        /\ joined' = [joined EXCEPT ![q] = r]
        /\ IF SealQuorum(regs, FALSE)
           THEN /\ sealed' = sealed \cup {r}
                /\ peers' = [peers EXCEPT ![r] = PeersOf(regs)]
                /\ registering' = None
                /\ call' = [call EXCEPT ![q] = "ok"]
           ELSE /\ registering' = r
                /\ call' = [call EXCEPT ![q] = "waiting"]
                /\ UNCHANGED <<sealed, peers>>

Register(q) ==
    /\ call[q] = "idle"
    /\ \E r \in OpenRounds : RegisterIn(q, r)
    /\ UNCHANGED <<failed, collectVars, fin, bootVars, objects, lock, globalVars>>

(* A waiting call whose register window has run out, its round still open. *)
AtDeadline(q) ==
    /\ call[q] = "waiting"
    /\ joined[q] \notin sealed \cup failed

SealAtDeadline(q) ==
    /\ AtDeadline(q)
    /\ LET r == joined[q]
       IN  /\ SealQuorum(registrants[r], TRUE)
           /\ sealed' = sealed \cup {r}
           /\ peers' = [peers EXCEPT ![r] = PeersOf(registrants[r])]
           /\ registering' = ClearRegistering(r)
    /\ call' = [call EXCEPT ![q] = "ok"]
    /\ UNCHANGED <<registrants, joined, failed, collectVars, fin, bootVars, objects, lock, globalVars>>

FailAtDeadline(q) ==
    /\ AtDeadline(q)
    /\ LET r == joined[q]
       IN  /\ ~SealQuorum(registrants[r], TRUE)
           /\ failed' = failed \cup {r}
           /\ registering' = ClearRegistering(r)
    /\ call' = [call EXCEPT ![q] = "failed"]
    /\ UNCHANGED <<registrants, joined, peers, sealed, collectVars, fin, bootVars, objects, lock, globalVars>>

(* Variant: a call looks its round up among the collecting ones. *)
SettledUnclaimed(r) == r \in failed \/ (r \in sealed /\ fin[r] = "none")
Settled(r) == r \in sealed \cup failed

(* A notified call leaves the wait: 200 when its round was sealed (even if a
   mixed layout failed it since), 503 otherwise.                           *)
Wake(q) ==
    /\ call[q] = "waiting"
    /\ Settled(joined[q])
    /\ call' = [call EXCEPT ![q] =
                    IF joined[q] \in sealed THEN "ok" ELSE "failed"]
    /\ UNCHANGED <<registrants, joined, peers, sealed, registering, failed, collectVars, fin,
                   bootVars, objects, lock, globalVars>>

-----------------------------------------------------------------------------
(* Uploads: app.py contribute, aggregate.py begin_stage, mark_received and
   unreserve, store.py stage_writer.                                       *)

RoundOf(u) == joined[token[u]]

(* check_upload, reduced to the parts of the stamp that vary here. *)
CheckUpload(s) ==
    /\ s.epoch = state.epoch
    /\ state.compat # None => s.compat = state.compat

(* The token must still be some registrant's, and not be claimed. *)
KnownToken(r, q) == q \in registrants[r]

(* Variant: a token may upload again. *)
AnyToken(r, q) == TRUE
UnspentToken(r, q) == q \notin spent[r]

(* Variant: the length is not compared. *)
SameLayoutAnyLength(l, s) == s.compat = l.compat /\ s.epoch = l.epoch

(* begin_stage's comparison with the layout the first upload fixed: the
   architecture, the total length and the epoch.                           *)
SameLayout(l, s) ==
    /\ s.compat = l.compat
    /\ LengthOf[s.spec] = LengthOf[l.spec]
    /\ s.epoch = l.epoch

(* The checks begin_stage makes before it looks at the cohort's layout.  An
   uploader holds a round_id and a token because a register call returned
   them; the stamp is whatever it trained under.                           *)
NextUpload == CHOOSE u \in Upload : upload[u] = "idle"

MayUpload(u, q, s) ==
    /\ upload[u] = "idle" /\ u = NextUpload
    /\ call[q] = "ok"
    /\ fin[joined[q]] = "none"
    /\ KnownToken(joined[q], q)
    /\ UnspentToken(joined[q], q)
    /\ CheckUpload(s)

ReserveSlot(u, q, s) ==
    /\ MayUpload(u, q, s)
    /\ LET r == joined[q]
       IN  /\ layout[r] # None => SameLayout(layout[r], s)
           /\ layout' = [layout EXCEPT ![r] = IF @ = None THEN s ELSE @]
           /\ spent' = [spent EXCEPT ![r] = @ \cup {q}]
           /\ inflight' = [inflight EXCEPT ![r] = @ + 1]
    /\ upload' = [upload EXCEPT ![u] = "reserved"]
    /\ token' = [token EXCEPT ![u] = q]
    /\ stamp' = [stamp EXCEPT ![u] = s]
    /\ UNCHANGED <<memberVars, failed, staged, fin, bootVars, objects, lock, globalVars>>

(* A layout the masks cannot cancel over: the cohort is failed for good. *)
MixedLayout(u, q, s) ==
    /\ MayUpload(u, q, s)
    /\ LET r == joined[q]
       IN  /\ layout[r] # None
           /\ ~SameLayout(layout[r], s)
           /\ failed' = failed \cup {r}
    /\ upload' = [upload EXCEPT ![u] = "refused"]
    /\ token' = [token EXCEPT ![u] = q]
    /\ stamp' = [stamp EXCEPT ![u] = s]
    /\ UNCHANGED <<memberVars, layout, spent, staged, inflight, fin, bootVars, objects, lock,
                   globalVars>>

UploadStep(u, from, to) ==
    /\ upload[u] = from
    /\ upload' = [upload EXCEPT ![u] = to]
    /\ UNCHANGED <<memberVars, failed, layout, token, stamp, fin, bootVars, lock, globalVars>>

(* On a file system the object exists from open(); on S3 from the completion
   of the multipart upload.                                                *)
OpenWriter(u) ==
    /\ UploadStep(u, "reserved", "streaming")
    /\ objects' = IF Backend = "fs" THEN objects \cup {u} ELSE objects
    /\ UNCHANGED <<spent, staged, inflight>>

(* stage_writer is called before the handler's try: when it raises, nothing
   releases the reservation.                                               *)
OpenWriterFails(u) ==
    /\ "open" \in Faults
    /\ UploadStep(u, "reserved", "error")
    /\ UNCHANGED <<spent, staged, inflight, objects>>

(* The body is in and the writer committed. *)
CommitWriter(u) ==
    /\ UploadStep(u, "streaming", "stored")
    /\ objects' = IF Backend = "s3" THEN objects \cup {u} ELSE objects
    /\ UNCHANGED <<spent, staged, inflight>>

(* Variant: a stream that breaks is not caught. *)
StreamUncaught(u) ==
    /\ UploadStep(u, "streaming", "refused")
    /\ UNCHANGED <<spent, staged, inflight, objects>>

(* The client hangs up, or a write raises: abort (which removes no file). *)
StreamFails(u) ==
    /\ UploadStep(u, "streaming", "aborted")
    /\ UNCHANGED <<spent, staged, inflight, objects>>

(* ... and the abort itself raises, inside the handler's except: the handler
   ends there, and unreserve is not reached.                               *)
AbortFails(u) ==
    /\ "abort" \in Faults /\ Backend = "fs"
    /\ UploadStep(u, "streaming", "error")
    /\ UNCHANGED <<spent, staged, inflight, objects>>

Unreserve(u) ==
    /\ UploadStep(u, "aborted", "refused")
    /\ spent' = [spent EXCEPT ![RoundOf(u)] = @ \ {token[u]}]
    /\ inflight' = [inflight EXCEPT ![RoundOf(u)] = @ - 1]
    /\ UNCHANGED <<staged, objects>>

MarkReceived(u) ==
    /\ UploadStep(u, "stored", "done")
    /\ staged' = [staged EXCEPT ![RoundOf(u)] = @ \cup {u}]
    /\ inflight' = [inflight EXCEPT ![RoundOf(u)] = @ - 1]
    /\ UNCHANGED <<spent, objects>>

-----------------------------------------------------------------------------
(* Finalisation: app.py _finalize and _finalize_after, aggregate.py
   claim_finalize, run_finalize, dp_fold and _fold_streamed.               *)

Complete(r) == Cardinality(staged[r]) = Cardinality(peers[r])

(* Variant: no timer, the last upload alone finalises. *)
ClaimedByLastUpload(r) == fin[r] = "none" /\ Complete(r)

(* Variant: whoever comes second claims a round that is done once more. *)
ClaimedAgain(r) == fin[r] \in {"none", "done"}

Unclaimed(r) == fin[r] = "none"

(* The last upload's handler, or the timer of the upload window: whichever
   comes first owns the round, the other finds it done.                    *)
ClaimFinalize(r) ==
    /\ r \in sealed
    /\ Unclaimed(r)
    /\ fin' = [fin EXCEPT ![r] = IF r \notin failed /\ Complete(r) /\ layout[r] # None
                                 THEN "aggregate" ELSE "void"]
    /\ UNCHANGED <<memberVars, failed, collectVars, bootVars, objects, lock, globalVars>>

(* Claimed rounds and staged bootstrap uploads wait for the lock in phase
   "aggregate" or "void"; the others are phases of the lock's holder.      *)
PhaseOf(h) == IF h \in Round THEN fin[h] ELSE boot[h]
StampOf(h) == IF h \in Round THEN layout[h] ELSE bootStamp[h]
SlotsOf(h) == IF h \in Round THEN staged[h] ELSE {}

Move(h, phase) ==
    /\ IF h \in Round
       THEN fin' = [fin EXCEPT ![h] = phase] /\ UNCHANGED boot
       ELSE boot' = [boot EXCEPT ![h] = phase] /\ UNCHANGED fin
    /\ UNCHANGED bootStamp

(* A cohort keeps the lock through its cleanup; a bootstrap call lets go of
   it and cleans up afterwards.                                            *)
LockAfter(h) == IF h \in Round THEN h ELSE None

(* Variant: folds of one model are not serialised. *)
NoLock == TRUE

LockFree == lock = None

(* Variants: the epoch, or the architecture, is not checked again. *)
FoldAdmitsAnyEpoch(st, s) == st.compat # None => s.compat = st.compat
FoldAdmitsAnyBase(st, s)  == s.epoch = st.epoch

(* _fold_streamed's checks, repeated under the lock. *)
FoldAdmits(st, s) ==
    /\ s.epoch = st.epoch
    /\ st.compat # None => s.compat = st.compat

(* The state after a fold: the epoch advances every EpochFolds folds. *)
AfterFold(st, s) ==
    LET n == st.folds + 1
    IN  IF n >= EpochFolds
        THEN [epoch |-> st.epoch + 1, folds |-> 0, compat |-> s.compat]
        ELSE [epoch |-> st.epoch,     folds |-> n, compat |-> s.compat]

(* Under the lock, a fold captures the factor state and the old global. *)
StartFold(h) ==
    /\ LockFree
    /\ PhaseOf(h) = "aggregate"
    /\ FoldAdmits(state, StampOf(h))
    /\ Move(h, "folding")
    /\ fold' = [fold EXCEPT ![h] = [st |-> state, old |-> log, slots |-> SlotsOf(h)]]
    /\ lock' = h
    /\ UNCHANGED <<memberVars, failed, collectVars, objects, state, log, meta, processVars>>

(* It publishes what it read plus its own delta, and the state it computed
   from the one it captured.                                               *)
CommitFold(h) ==
    /\ PhaseOf(h) = "folding"
    /\ Move(h, "folded")
    /\ log' = Append(fold[h].old,
                     [by |-> h, stamp |-> StampOf(h), slots |-> fold[h].slots])
    /\ state' = AfterFold(fold[h].st, StampOf(h))
    /\ meta' = AfterFold(fold[h].st, StampOf(h))
    /\ fold' = [fold EXCEPT ![h] = None]
    /\ lock' = LockAfter(h)
    /\ UNCHANGED <<memberVars, failed, collectVars, objects, processVars>>

(* Nothing is folded, and the global is untouched: the claim was void, or
   the fold is not admitted, or a storage error or a malformed upload comes
   up before the writer opens...                                           *)
StartVoid(h) ==
    /\ LockFree
    /\ PhaseOf(h) \in {"aggregate", "void"}
    /\ Move(h, "voided")
    /\ lock' = LockAfter(h)
    /\ UNCHANGED <<memberVars, failed, collectVars, objects, globalVars>>

(* ... or the fold aborts its writer: an error, a non-finite delta, the norm
   bound.                                                                  *)
AbortFold(h) ==
    /\ PhaseOf(h) = "folding"
    /\ Move(h, "voided")
    /\ fold' = [fold EXCEPT ![h] = None]
    /\ lock' = LockAfter(h)
    /\ UNCHANGED <<memberVars, failed, collectVars, objects, state, log, meta, processVars>>

(* Variants: everything under tmp/ goes; or only the received slots do. *)
StagedAnywhere(r)  == objects \cap Upload
StagedReceived(r)  == objects \cap staged[r]

(* stage_cleanup lists and deletes what is under tmp/<round_id>/ now. *)
StagedUnder(r) == {u \in objects \cap Upload : token[u] # None /\ RoundOf(u) = r}

(* Variant: the lock outlives the cleanup. *)
LockKept(r) == r
Unlocked(r) == None

Cleanup(r) ==
    /\ fin[r] \in {"folded", "voided"}
    /\ \/ /\ fin' = [fin EXCEPT ![r] = "done"]
          /\ objects' = objects \ StagedUnder(r)
       \/ /\ "cleanup" \in Faults
          /\ fin' = [fin EXCEPT ![r] = "unswept"]
          /\ UNCHANGED objects
    /\ lock' = Unlocked(r)
    /\ UNCHANGED <<memberVars, failed, collectVars, bootVars, globalVars>>

-----------------------------------------------------------------------------
(* Bootstrap: app.py contribute_dp.  Its prefix is private to the call, so
   the object is staged in one step.                                       *)

DpCheck(d, s) ==
    /\ boot[d] = "idle"
    /\ CheckUpload(s)
    /\ boot' = [boot EXCEPT ![d] = "checked"]
    /\ bootStamp' = [bootStamp EXCEPT ![d] = s]
    /\ UNCHANGED <<memberVars, failed, collectVars, fin, objects, lock, globalVars>>

DpStage(d) ==
    /\ boot[d] = "checked"
    /\ boot' = [boot EXCEPT ![d] = "aggregate"]
    /\ objects' = objects \cup {d}
    /\ UNCHANGED <<memberVars, failed, collectVars, fin, bootStamp, lock, globalVars>>

(* The upload fails.  On a file system its object exists until the cleanup
   that follows, which may leave it or, if the abort raises, never run.    *)
DpStageFails(d) ==
    /\ boot[d] = "checked"
    /\ boot' = [boot EXCEPT ![d] = "done"]
    /\ \/ UNCHANGED objects
       \/ /\ Backend = "fs" /\ Faults \cap {"cleanup", "abort"} # {}
          /\ objects' = objects \cup {d}
    /\ UNCHANGED <<memberVars, failed, collectVars, fin, bootStamp, lock, globalVars>>

DpCleanup(d) ==
    /\ boot[d] \in {"folded", "voided"}
    /\ boot' = [boot EXCEPT ![d] = "done"]
    /\ \/ objects' = objects \ {d}
       \/ "cleanup" \in Faults /\ UNCHANGED objects
    /\ UNCHANGED <<memberVars, failed, collectVars, fin, bootStamp, lock, globalVars>>

-----------------------------------------------------------------------------
(* The stamps a client can declare: any layout, an epoch it has been told. *)
Stamps == [epoch : 0..state.epoch, compat : Compat, spec : Spec]

(* The layout of a bootstrap upload concerns no other: any will do. *)
BootStamps == {s \in Stamps : s.spec = CHOOSE p \in Spec : TRUE}

Registration == \E q \in Req : \/ Register(q)
                               \/ SealAtDeadline(q)
                               \/ FailAtDeadline(q)
                               \/ Wake(q)

Contribution == \E u \in Upload :
                  \/ \E q \in Req, s \in Stamps : ReserveSlot(u, q, s) \/ MixedLayout(u, q, s)
                  \/ OpenWriter(u) \/ OpenWriterFails(u)
                  \/ CommitWriter(u) \/ StreamFails(u) \/ AbortFails(u)
                  \/ Unreserve(u) \/ MarkReceived(u)

Folding(h) == StartFold(h) \/ CommitFold(h) \/ StartVoid(h) \/ AbortFold(h)

Finalization == \/ \E r \in Round : ClaimFinalize(r) \/ Cleanup(r)
                \/ \E h \in Holder : Folding(h)

BootstrapCall == \E d \in Bootstrap :
                   \/ \E s \in BootStamps : DpCheck(d, s)
                   \/ DpStage(d) \/ DpStageFails(d) \/ DpCleanup(d)

Next == Registration \/ Contribution \/ Finalization \/ BootstrapCall

CohortSpec == Init /\ [][Next]_vars

(* The event loop runs what is ready: a timer that expired, a notified waiter,
   a thread-pool job, a free lock's next waiter.  So a register call, a
   round's finalisation and a bootstrap call past its upload go on whenever
   they can.  Nothing is assumed of the clients: they may never upload, or
   never finish an upload.                                                 *)
Fairness ==
    /\ \A q \in Req : WF_vars(SealAtDeadline(q) \/ FailAtDeadline(q) \/ Wake(q))
    /\ \A r \in Round : WF_vars(ClaimFinalize(r) \/ Folding(r) \/ Cleanup(r))
    /\ \A d \in Bootstrap : WF_vars(Folding(d) \/ DpCleanup(d))

FairSpec == CohortSpec /\ Fairness

-----------------------------------------------------------------------------
(* Safety. *)

(* WholeCohort: the masks cancel only over the whole cohort.  Every cohort
   folded into the global was summed over exactly one upload of every peer it
   was sealed with, and a cohort is never below KMin, whatever retries, late
   uploads and failed streams went before (claim_finalize, begin_stage).    *)
WholeCohort ==
    \A i \in 1..Len(log) : log[i].by \in Round =>
        LET cohort == peers[log[i].by]
        IN  /\ {KeyOf[token[u]] : u \in log[i].slots} = cohort
            /\ Cardinality(log[i].slots) = Cardinality(cohort)
            /\ Cardinality(cohort) >= KMin

(* MembersAgree: what is summed coordinate by coordinate was trained in one
   epoch, on one architecture, over vectors of one length: what begin_stage
   compares.  That they are of one layout is SpecsAgree, below.            *)
MembersAgree ==
    \A i \in 1..Len(log) : \A u \in log[i].slots :
        LET s == stamp[u]
        IN  /\ s.epoch = log[i].stamp.epoch
            /\ s.compat = log[i].stamp.compat
            /\ LengthOf[s.spec] = LengthOf[log[i].stamp.spec]

(* Uploads that have claimed their token and not given it back: running,
   received, or ended in an error without their token being released.      *)
Holding(u) == upload[u] \in {"reserved", "streaming", "stored", "aborted", "done", "error"}

(* TokenHeldOnce: behind a spent token of a round that has not ended there is
   exactly one upload that runs, was received, or ended in an error that kept
   the token (cohort_leak shows those).  So streams that break and are
   retried, several calls with one token and late cleanups never let a member
   count twice, and no token of a stream that was aborted is lost
   (begin_stage, mark_received, unreserve).                                *)
TokenHeldOnce ==
    \A r \in Round : fin[r] \notin Ended => \A q \in spent[r] :
        \E u \in Upload : \A v \in Upload : (Holding(v) /\ token[v] = q) <=> v = u

(* FoldedInItsEpoch: the i-th fold of the global carries a delta trained in
   the epoch the i-th fold belongs to, so the factor it was trained against
   is the one frozen in that epoch (_fold_streamed's recheck, `advance`).  *)
FoldedInItsEpoch ==
    \A i \in 1..Len(log) :
        /\ log[i].stamp.epoch * EpochFolds < i
        /\ i <= log[i].stamp.epoch * EpochFolds + EpochFolds

(* OneArchitecture: the first fold fixes the architecture of the model for
   good, also when two first folds with different bases race for it.       *)
OneArchitecture ==
    \A i \in 1..Len(log) : log[i].stamp.compat = log[1].stamp.compat

(* FoldOnce: a cohort or a bootstrap upload enters the global at most once,
   although the last upload and the timer both finalise a round.           *)
FoldOnce ==
    \A i, j \in 1..Len(log) : log[i].by = log[j].by => i = j

(* StagedUntilFolded: nothing deletes an upload of a round that is being
   aggregated: cleanups of other rounds and of bootstrap calls run beside.  *)
StagedUntilFolded ==
    \A r \in Round : fin[r] \in {"aggregate", "folding"} => staged[r] \subseteq objects

(* FoldedLeavesNothing: a cohort that was folded and whose cleanup did not
   raise has no object left in the store and gets none later, those of its
   aborted and repeated uploads included (run_finalize: "then always delete
   the round's temp objects").                                             *)
FoldedLeavesNothing ==
    \A i \in 1..Len(log) : (log[i].by \in Round /\ fin[log[i].by] = "done")
        => \A u \in objects \cap Upload : RoundOf(u) # log[i].by

(* Action properties. *)

(* FrozenAtSeal: after the seal nobody joins or leaves, so every member masks
   against the same peers (app.py: "the *same* frozen peer set").          *)
FrozenAtSeal ==
    [][\A r \in sealed : /\ r \in sealed'
                         /\ registrants'[r] = registrants[r]
                         /\ peers'[r] = peers[r]]_vars

(* NoFoldLost: a fold extends the global that is there; none overwrites one
   that was committed while it ran (the lock of app.py _finalize).         *)
NoFoldLost ==
    [][/\ Len(log') >= Len(log)
       /\ \A i \in 1..Len(log) : log'[i] = log[i]]_vars

(* Refinement. *)

G == INSTANCE Global

(* ImplementsGlobal: the rounds and the bootstrap calls together build a
   global as Global.tla promises it: each fold lands in its epoch, on the one
   architecture, once, on top of all earlier ones (_fold_streamed run under
   the model's lock by _finalize and contribute_dp).                       *)
ImplementsGlobal == G!GlobalSpec

-----------------------------------------------------------------------------
(* Liveness. *)

(* EveryCallAnswered: no register call hangs: time and again there is a moment
   at which none is waiting, its round sealed or failed.                   *)
EveryCallAnswered == []<>(\A q \in Req : call[q] # "waiting")

(* EveryCohortSettles: time and again no sealed round is left unsettled: it is
   finalised although members vanish, cleanups raise and the lock is
   contended; only a crash of the server spares it that.                   *)
EveryCohortSettles == []<>(\A r \in sealed : fin[r] \in Ended)

(* EveryBootstrapSettles: time and again no bootstrap upload that was staged
   is left neither folded nor voided.                                      *)
EveryBootstrapSettles ==
    []<>(\A d \in Bootstrap : boot[d] \in {"idle", "checked"} \cup Ended)

-----------------------------------------------------------------------------
(* What comments of the source promise and the code does not keep. *)

(* DeletedWhenDone: a round that is done has no staged object and will have
   none: aggregate.py run_finalize, "then always delete the round's temp
   objects".                                                               *)
DeletedWhenDone ==
    \A u \in Upload : (upload[u] \in {"done", "refused"} /\ token[u] # None)
        => (fin[RoundOf(u)] = "done" => u \notin objects)

(* ReservationReleased: a spent token belongs to an upload that is running or
   received: aggregate.py begin_stage, the caller streams, "then calls
   mark_received (success) or unreserve (failure)".                        *)
ReservationReleased ==
    \A r \in Round : \A q \in spent[r] :
        \E u \in Upload : token[u] = q /\ Holding(u) /\ upload[u] # "error"

(* SpecsAgree: the uploads of a folded cohort are of one layout: aggregate.py
   Round, "the cohort must agree on layout for masks to cancel", begin_stage,
   "mixed layouts can't cancel coordinate-wise -> void".                   *)
SpecsAgree ==
    \A i \in 1..Len(log) : \A u \in log[i].slots :
        stamp[u].spec = log[i].stamp.spec
=============================================================================
