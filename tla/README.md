# A TLA+ verification of roger-server

roger-server is the aggregation server of a federation: it seals cohorts of
clients, sums their masked uploads, folds each sum into a shared low-rank
adapter (the *global*) and serves it. This directory models its rounds, its
restarts, its store, the arithmetic of its sums, its density window and its
health check; it checks them with TLC and proves their safety with TLAPS.

Contents: [the system](#the-system), [the modules](#the-modules),
[the runs](#the-runs), [disagreements](#where-the-code-and-its-comments-disagree),
[the proofs](#the-proofs), [what is left out](#what-is-not-modelled-and-why),
[the plan](#the-plan).

## The system

One process, one event-loop thread. Handlers are coroutines: a stretch of code
with no `await` in it is atomic, and every `await` lets other handlers run.
Storage calls and the folds run in a thread pool, so two storage calls of one
handler may have anything between them. Three things synchronise:

* `cond`, one `asyncio.Condition`: guards the round bookkeeping, and wakes the
  long polls of `/round/register`;
* `finalize_locks[model_id]`, one lock per model: folds of one model take turns;
* the claim (`Round.finalized`): one caller finalises a round.

| component | source | state | operations | what makes it correct |
|---|---|---|---|---|
| Registration and seal | `aggregate.py` 181-208, `app.py` 182-221 | `registering`, a round's `registrants`, `sealed`, `sealed_peers`, `failed` | register, seal at KTARGET, seal or fail at the deadline, wake | members get the same frozen peers; none below KMIN; no call hangs |
| Contribution staging | `aggregate.py` 212-256, `app.py` 223-259, `store.py` 178-232 | `collecting`, `spent_tokens`, `inflight`, `staged`, the layout, the objects under `tmp/` | reserve, open, stream, commit or abort, received or unreserve | one upload per member; one layout; nothing leaks |
| Finalization and fold | `aggregate.py` 299-421, `app.py` 94-110 | `finalized`, the lock, the captured state | claim, recheck, fold, publish or void, clean up | whole cohorts only; once; in their epoch; no fold lost |
| Bootstrap | `app.py` 139-180, `aggregate.py` 260-295 | a private prefix under `tmp/` | check, stage, fold, clean up | the same, with the cohorts beside it |
| Factor state | `aggregate.py` 128-141, 418-420 | `_state` (a cache of the blob's metadata) | cold read, install, replace | what is announced is what is stored, as far as cold reads let it be |
| Publication and restart | `store.py` 128-146, 294-373 | `<stem>.safetensors`, `<stem>.version` | read, write, rename, version | a crash anywhere leaves a global |
| Broadcast | `aggregate.py` 425-434, `store.py` 151-170 | the client's cursor | version, then body | no client skips a fold |
| Mode and density | `aggregate.py` 107-124, 260-265 | `recent` | note, prune, count | distinct contributors in the window |
| Masked-sum arithmetic | `secure_agg.py`, `aggregate.py` 327-357, 408-416 | none | quantize, mask, slice, sum, dequantize, bound the norm | masks cancel over the whole cohort, and only over it |
| Factors and ranks | `delta.py` | none | phase, rank map, digest, initial A | pure functions of shape and epoch |
| Health check | `store.py` 235-283 | one shared probe model | write, read, purge | reports a broken store, only a broken one |
| Wire layer, configuration, aliases, safetensors layout, entry points | `app.py`, `aliases.py`, `store.py` 36-63, `__main__.py` | none | parsing | none here |

How they interact: registration hands a sealed round to staging through
`collecting`; staging hands it to finalisation through `staged`, by the last
upload or by the upload window's timer; finalisation and bootstrap calls fold
under the model's lock through the factor state into the store; the broadcast
reads the store without any lock.

What is hard here, and listed line by line in `PROJECT.json`: a retried
registration taking an entry over; a round joined, sealed and woken by different
calls; the last upload racing the timer; uploads outliving their round; rounds
of one model cleaning up beside each other; a fold that waited while the epoch
ended; two first folds with different architectures; a server that comes back
without its rounds while clients still hold their tokens; cold reads of the
state racing a fold; publication in two storage calls, either of which may fail
or be the last before a crash; a client reading between the two; residues that
wrap, and rounding against a norm bound; a window pruned by whoever asks for it;
health checks sharing their files.

## The modules

| module | what it is |
|---|---|
| `Global` | abstract: the global is a growing sequence of folds, each in its epoch, of one architecture, nobody's twice |
| `Cohort` | registration, staging, finalisation and bootstrap of one model, over an atomic global |
| `Restart` | `Cohort` in a process that crashes, starts again with an empty cache, and may warm it late |
| `FactorStore` | the stored global, its version, the cached state, folds by storage call, pulls, crashes, a rank reconfigured at restarts |
| `SecureSum` | what a cohort's members upload and what the server makes of it, number by number |
| `Density` | the window of contributors behind `/status`'s mode |
| `HealthCheck` | concurrent `/healthz` calls over the files of one probe model |
| `CohortProofs`, `RestartProofs`, `FactorStoreProofs`, `SecureSumProofs`, `DensityProofs`, `HealthCheckProofs` | inductive invariants and theorems of the module of that name |
| `SumProofs` | lemmas of `SecureSumProofs` that know nothing of cohorts: folds and sums over finite sets, congruences, norms |
| `MCCohort`, `MCRestart`, `MCFactorStore`, `MCSecureSum` | instances and symmetries for TLC |

```
                Global
              /        \            INSTANCE Global (PROPERTY ImplementsGlobal)
         Cohort       FactorStore
        /   |   \            \
 MCCohort   |  CohortProofs  MCFactorStore, FactorStoreProofs
         Restart   |
        /      \   |
 MCRestart  RestartProofs

      SecureSum     SumProofs      Density         HealthCheck
      /       \      /                |                |
 MCSecureSum  SecureSumProofs   DensityProofs   HealthCheckProofs
```

`Cohort` and `FactorStore` are two views of `_fold_streamed`. In `Cohort` a fold
captures the state and the old global in one step and publishes in another:
that is where rounds and bootstrap calls meet, and the view in which whole
cohorts, epochs and lost updates are questions. `FactorStore` forgets who asks
for a fold and takes it apart into its storage calls: that is where crashes,
failing calls and the cache are questions. Both are shown to implement `Global`:
`Cohort`, whose cache is always warm, with its `log`; `FactorStore` with the
folds that were stored before a cold call first cached late. After that the code
does not implement it (see `store_warm`); what still holds then is proved of
`Restart` and `FactorStore`. `SecureSum` takes over where `Cohort` says "a cohort was folded":
`WholeCohort` provides exactly the precondition of `MasksCancel`, one upload of
every peer, and `MembersAgree` that they are vectors of one length; that they are of
one layout, which `SecureSum` starts from, the code does not ensure
(`cohort_mixed`).

### Cohort and the code

One model, because rounds of different models share no state but the condition.

| code | model |
|---|---|
| `Round` objects | functions over `Round`: `registrants`, `peers`, `sealed`, `failed`, `layout`, `spent`, `staged`, `inflight` |
| `finalized` and the course of `_finalize` | `fin`: none, aggregate or void (claimed, waiting for the lock), folding, folded or voided (still holding it), done |
| a token | the register call it was issued to (`Req`); `KeyOf` is the key that call presents |
| a slot | the `/contribute` call that stages it (`Upload`) |
| a `/contribute_dp` call and its prefix | `Bootstrap` |
| compat, epoch, spec of an upload | a `Stamp`; `LengthOf` is the flattened length of a spec |
| `_state[model_id]` | `state` |
| the stored global | `log`: the folds in it; its version is the length; `meta`, its metadata |
| the process | `start`, the metadata it found, and `crashes`; constant in `Cohort` |
| W, U deadlines | a window may close at any moment after it opens |

`Register` is the handler up to its first wait: join or open a round, and seal
it if this call completes it. `SealAtDeadline`, `FailAtDeadline` and `Wake` are
the three ways out of the wait. `ReserveSlot` is `begin_stage` when it answers
ok, `MixedLayout` when it fails the round; refusals that change nothing are
stutters. `OpenWriter`, `CommitWriter`, `StreamFails`, `Unreserve` and
`MarkReceived` are the stretches between the awaits of `/contribute`;
`OpenWriterFails` and `AbortFails` are the two places where the handler ends
without reaching `unreserve` (phase `error`): `stage_writer` raising before the
`try`, and, on a file system, whose `abort` closes and so flushes, `writer.abort`
raising inside the `except`. On a file
system an object exists from `open()`, on S3 from the completed multipart
upload. `ClaimFinalize` is either caller of `_finalize`; it needs no "last
upload" action of its own, because a complete round may be claimed at any time.
`StartFold`, `CommitFold`, `StartVoid`, `AbortFold` are `_fold_streamed` by its
outcomes, for rounds and bootstrap calls alike; `Cleanup` runs under the lock,
`DpCleanup` after it, and either may raise, which leaves a round `unswept`.

Left to the environment: which stamps clients declare (any layout, any epoch
they can have been told), whether they upload at all, whether a stream breaks,
whether a fold is rejected (norm, non-finite, storage error).

### Restart and the code

`Crash` is the process dying between any two steps. `Aggregator.__init__` starts
with empty `registering`, `collecting` and `_state`: whatever round or bootstrap
call was running is lost, waiting register calls and running uploads break, the
lock is free, no round is open. What is stored stays: `log`, its metadata
(`meta`), and the objects under `tmp/`, of which a file system may in addition
have a half-written one, or lack some that a cleanup was removing. Clients keep
their tokens; the rounds they belong to are no longer collecting, so `MayUpload`
refuses them. A `Round` that never held anybody is still to be opened.

The cache starts cold, at the very first start as after a crash. Nothing is
folded before some call has warmed it, so all calls that found it cold read the
same state, that of the store when the process started (`start`); the first
install changes nothing a client could see (`state' = meta`), and each of the
others may install the same value at any later moment, over what folds have
cached since: `InstallLate`, always enabled. So `Restart` has any number of cold
callers, and the epoch clock of its cache may be set back.

Publication is one step here; `FactorStore` crashes in the middle of it.

### FactorStore and the code

`blob`, `version` (a number, absent, or `Torn`: the empty file that
`open(.., "w")` leaves before the write), `cache` (`_state`), a cold `state()`
call per `Loader` in three steps (miss, read, install), a run of `_fold_streamed`
per `Fold`: check, stage, start under the lock, open the old global, read the
version, publish the blob, (truncate,) write the version, replace the cache.
`Puller` clients read the version, then the body. `Crash` forgets everything but
the store, and may come back with another rank cap (`config`, `ROGER_AGG_RANK`).
Backend, faults and first configuration are chosen in the initial state.

Between the check of an upload and the fold its body is streamed: `FoldStage`
when it is all in and the fold is called for, `FoldStageFails` when the stream
breaks or a round misses its window. Neither has to happen. A fold is checked
twice against the cache, before its upload (`check_upload`) and under the lock,
as in the code.

`FaultSets` lists the storages to consider by the calls that may raise:
`"version"` the write of the sidecar, `"read"` any read. `_reader_at` answers a
read that raises like an absent object, on both backends (`MayMissBlob`);
`load_version` does so on S3 only, on a file system it raises and the fold is
void (`MayMissVersion`, `FoldVoid`).

`late` is a history variable that no step reads: how many folds were stored when
a cold call first installed what the store had moved on from, kept for storages
that do not fail. `TrainedIn` is
`phase_of`; the factor an epoch does not train is known by the folds that made
it (`FrozenPart`).

### SecureSum and the code

A vector is a sequence of integers counting 1/`Fine` of a quantum (the code's
1/SCALE). `Flattened`, `Rounded`, `Quantized`, `Sign`, `Masked`
are `quantize` and `mask`; a pair's noise is one arbitrary vector shared by both
members, which is what `_prg` of a shared secret is. `ReadSlot` is one turn of
`_module_sum`'s loop: the slot's int64 numbers, any representatives of their
residues, are taken (first slot) or added with two's-complement wrap-around and
reduced (`Added`). The loop runs per factor over the same slots; the model reads
a slot for all factors at once, which gives the same sums. `Offset`, `Signed`,
`Summed` are the slices and `dequantize`, `NormExceeded` the test at
`aggregate.py:414`. `R`, `Width` and `Clip` are parameters, small for TLC;
`Slack` is any bound on what rounding adds to the norm of one upload, half a
quantum in every coordinate. Members may have trained anything, within the clip
norm or not.

### Density and the code

`recent` holds the age of an address's last entry instead of its time, so a tick
makes every entry older and all ages beyond the window are one. `Status` is
`mode` with its pruning, `NoteContributor` the note from `/round/register` and
`/contribute_dp`, `Restart` the loss of the window with the process. `heard`
is history: every single note of the window, which no pruning touches.

### HealthCheck and the code

A call of `health_check` is a sequence of storage calls, each a step, and its
clean-up another. On a file system two calls that write the probe's global share
the `.tmp` file: the second `open` empties what the first one wrote, and the
rename of either takes the file both are writing; so files have an identity (the
call that made them) apart from their name. On S3 uploads are separate and the
last completed one is the object. `broken` is the kinds of operation that a
misconfigured store refuses, deletes among them: `StagedRefused`,
`PurgeRefused` (S3 answers one request for both objects and may keep either),
`RemoveFails` and `VersionRefused`. A refused delete changes no answer, because
`health_check` swallows what its clean-ups raise (`store.py` 279-283); `refused`
remembers whose upload was kept.

## The runs

The passing runs; with two workers each takes between a few seconds and about
two minutes.

| run | instance | checks | distinct states |
|---|---|---|---|
| `cohort_folds` | `MCCohort`: 2 clients, 3 register calls (one client twice), 1 round, 2 uploads, 2 bootstrap calls, 2 architectures, 2 layouts of 4 and 6 elements; KMIN = KTARGET = 2, two folds per epoch; S3, no faults | `TypeOK`, `WholeCohort`, `MembersAgree`, `ReservationReleased`, `FoldedInItsEpoch`, `OneArchitecture`, `NoFoldLost`, `ImplementsGlobal` | 1,923,589 |
| `cohort_live` | `MCRestart`: 2 clients, 2 register calls, 2 rounds, 2 uploads, 1 bootstrap call, late installs, 1 crash; KMIN 1, KTARGET 2, four folds per epoch; fs, `stage_writer`, `abort` and cleanups may raise | `WholeCohort`, `TokenHeldOnce`, `FoldOnce`, `StagedUntilFolded`, `FoldedLeavesNothing`, `FrozenAtSeal`, `EveryCallAnswered`, `EveryCohortSettles`, `EveryBootstrapSettles` | 603,747 |
| `store_crash` | `MCFactorStore`: 3 folds, 2 threads that may find the cache cold, 1 puller, 1 architecture, 2 ranks, two folds per epoch, both backends, sound, with failing sidecar writes (fs), or with failing reads (S3), 1 crash | `TypeOK`, `CursorNotAhead`, `CacheInStep`, `FrozenFactorAgrees`, `ReportsAreTrue`, `RankPinned`, `FoldsKept`, `ImplementsGlobal`, `EveryFoldEnds` | 1,132,251 |
| `secure_sum` | `MCSecureSum`: 3 keys, 2 factors of 1 and 2 elements, ring of 16 in an int64 of 64, quarter quanta, 5 updates and 3 noise vectors | `TypeOK`, `MasksCancel`, `SumIsClose`, `NormTestIsClose`, `PartHidesMembers` | 147,150 |
| `density` | 3 models, 2 of them accepted, 3 addresses, threshold 2, a window of one tick | `TypeOK`, `ModeIsDensity`, `PollingIsHarmless`, `BusyEnds` | 15,625 |
| `healthz` | 3 calls, both backends, sound or one of five kinds of operation refused, 1 crash with a new configuration | `TypeOK`, `LoneProbeIsRight`, `NothingLeft` | 1,119,897 |

What each shows:

* `WholeCohort` is the property the masks need: every folded cohort is exactly
  one upload of each sealed peer and never below KMIN. The code only compares
  two *counts* (`received` and the number of peers); that a count suffices
  depends on the token of an overwritten registration dying, on a claimed token
  staying claimed, and on a failed stream giving it back once.
* `FoldedInItsEpoch` says more than the recheck: the *i*-th fold of the global
  was trained in the epoch the *i*-th fold belongs to, so the recheck, the clock
  and the lock together are right, while the cache is warm.
* `MembersAgree`, `OneArchitecture`: what is added coordinate by coordinate is
  of one epoch, architecture and length, although the architecture is stored
  only by the first fold, after later uploads were checked without one. That it
  is of one *layout* is `SpecsAgree`, which fails, see below.
* `ReservationReleased`, without faults: a spent token always belongs to an
  upload that runs or was received, over streams that break and are retried.
  With a raising `stage_writer` it fails, see below.
* `TokenHeldOnce`, with faults and crashes: nobody counts twice. Behind a spent
  token of a round that has not ended there is one upload only. An upload that
  ended in phase `error` is among those that hold a token, because its
  reservation was never taken back.
* `FrozenAtSeal`: the barrier. `NoFoldLost`, `FoldOnce`: the lock and the claim,
  which the last upload and the timer compete for.
* `StagedUntilFolded`, `FoldedLeavesNothing`: cleanups delete what they should
  and nothing else. The second is for *folded* rounds whose cleanup did not
  raise; for voided ones it fails, see below, and objects of rounds a crash took
  stay.
* `CursorNotAhead`: `serve_global` reads the version first and `publish` writes
  it last, so a cursor never claims more folds than the body holds. It may claim
  fewer, and after a crash between blob and sidecar a client is told 204 though
  a newer blob is stored, until the next fold.
* `CacheInStep`: the cached state is the stored one whenever nothing is being
  published, over cold starts with two callers, crashes and folds, until a cold
  call caches late: nothing *else* moves the two apart. The unconditional
  statement is `CacheIsDurable`, which fails, see below.
* `FrozenFactorAgrees`: the reason for the epochs (`delta.py`, "Why one factor at
  a time"), under the same condition. A client that pulled any number of folds
  ago but in the current epoch has exactly the frozen factor the stored global
  has.
* `FoldsKept`, `ReportsAreTrue`: what survives a sidecar that cannot be written
  and a stale cache. A publication still extends what is stored, a fold reported
  done stays in it, and without failing writes a fold reported void never gets
  in.
* `RankPinned`: once a global is stored, its rank cap is the one it was created
  with, whatever the operator configures later and although the cap a cold
  caller took from the configuration may be installed around the first fold.
* `ImplementsGlobal`: twice, against the rounds and against the blob.
* `MasksCancel`: the mask arithmetic end to end, from a member's rounding to the
  server's signed sum of each factor, for every order of reading. `SumIsClose`
  measures it against the real sum. `NormTestIsClose`: the server tests the norm
  of rounded numbers against `k * clip`; what it decides is right about what was
  trained up to the rounding of each member, in both directions and for members
  that did not clip too. `PartHidesMembers`: what a partial sum comes to is as
  good as any other number, which is why `WholeCohort` matters both ways.
* `ModeIsDensity`, `PollingIsHarmless`, `BusyEnds`: pruning while answering
  changes nothing an answer depends on, and a model that is left alone falls
  back to bootstrap.
* `LoneProbeIsRight`: overlapping health checks disturb each other (two may both
  fail on a sound store), but leave nothing that would make a later lone one
  wrong about writes and reads; about deletes it says nothing. `NothingLeft`:
  what the store lets them delete is gone when the last one has ended.
* The liveness properties: every register call is answered, every sealed round
  and every staged bootstrap upload settles, and no fold keeps the lock. Each
  actor goes through its phases once, so "again and again none is waiting"
  (`[]<>`) says the same as "each that waits stops waiting".

**Why the bounds are enough.** Two clients of which one registers twice are the
least number in which a double registration can be mistaken for another member;
the two bootstrap calls of `cohort_folds` end an epoch or fix the architecture
around a cohort's fold at any point of it. Two layouts of different length are
what line 239 of `aggregate.py` tells apart; a third, of the length of the first,
is in `cohort_mixed`. Two rounds are the least number with overlap; with a crash
one of them may be lost and the other opened after it, and KMIN 1 leaves two
uploads for a cohort of one and its retry. In `cohort_live` an epoch is
longer than all folds, since what a late install does to the clock is the
subject of `store_warm`. Two folds per epoch separate "not yet", "now" and
"restart at 0"; three folds cross a boundary with a fold on either side. Two
cold callers are the least number in which one can be late. Two ranks tell a
pinned one from a configured one. The theorems below remove these bounds for
everything but liveness. For the sums: in a cohort of three every partial sum of
two still holds the noise of the third, the ring is small enough for sums to
leave it and int64 small enough to wrap at the second addition, quarter quanta
have ties in both directions, two factors of different size tell a wrong offset,
and updates lie just within, well within and beyond the clip norm. A window of
one tick has an inside, an end and an outside. Three health checks allow one to
run alone after two others left their files half cleared.

Interchangeable actors are reduced: bootstrap calls by TLC's symmetry, and
rounds, slots, folds and cold callers by letting the next one to come be a fixed
one of the idle (`NextRound`, `NextUpload`, `NextRun`, `NextLoader`), which is
sound under liveness too. `MCInit` fixes the first of two interchangeable rank
caps, and considers failing reads on S3, where the version may be missed as well,
and failing sidecars on a file system, where they may be left empty too; `store_report`
has both on both.

`CHECK_DEADLOCK FALSE` throughout: calls are bounded, and a server nobody calls
does stop. `MaxCrashes` bounds the crashes of a behaviour; nothing else is capped.

**Fairness.** `FairRestartSpec` and `FairStoreSpec` assume weak fairness of what
the event loop and the thread pool run by themselves: per register call, the end
of its window or its wake-up; per round, the end of its upload window, the lock,
the fold and the cleanup; per bootstrap call or fold, the same once its body is
staged. A lock wait needs no more than that: `asyncio.Lock` is first-in,
first-out, and each of the others takes the lock once. Nothing is assumed of
clients: they may never upload, and never finish a body (`CommitWriter`,
`StreamFails`, `DpStage`, `FoldStage`). Nor of cold calls, and no crash is ever
obliged to happen. Which outcome a fair step has (fold or void, success or error)
is open. `DensitySpec` assumes only that time passes. `HealthCheck` has no
liveness property.

Each property of a passing run has a mutant in `PROJECT.json`: a definition with
a plausible slip (a dropped check, a peer set built from the wrong thing, no
lock, a cleanup of the wrong objects), marked *Variant* in the modules, under
which the run finds the property violated.

## Where the code and its comments disagree

Six runs are expected to end in a violation, each of a property that states what
a comment of the source says.

| run | property | trace |
|---|---|---|
| `cohort_orphan` | `DeletedWhenDone` | the timer voids a round while a body is streaming; the object is committed after the cleanup and stays |
| `cohort_leak` | `ReservationReleased` | `stage_writer` raises outside the handler's `try`: the token stays spent, the retry is refused, the cohort is void. A raising `abort` on a file system does the same |
| `cohort_mixed` | `SpecsAgree` | two members declare layouts of one length but of different factors; both are accepted and summed |
| `store_warm` | `CacheIsDurable` | two cold callers: the slower one installs what it read before a fold |
| `store_report` | `FoldsAsReported` | the version sidecar fails after the blob was replaced: "void", but folded; with a failing read instead, a stored global is taken for absent and a fold reported done is overwritten |
| `sum_refused` | `HonestIsFolded` | two members who clipped are refused for the norm of their sum: they round after they clip |

`PROJECT.json` ("findings") quotes the lines. What follows for the rest of the
project:

* After `store_warm` the clock may run behind the folds; that is the condition
  `InStep` of `CacheInStep`, `FrozenFactorAgrees` and the store's refinement, and
  the reason why `Restart` claims no refinement.
* After `sum_refused`, `NormTestIsClose` is what the norm test does achieve. At
  22 fractional bits the difference is tiny, but it grows with the root of the
  vector's length, and a client that clips to exactly the norm has no room for
  it. The documentation (`src/README.md`, `ROGER_AGG_CLIP`) has honest clients
  clip *below* the budget.

One more disagreement has no run of its own: `app.py` 131-132 says that
`/healthz` touches the store "(write+read+delete)" so that a misconfigured
backend surfaces there. A refused delete does not: `health_check` swallows what
its clean-ups raise (`store.py` 279-283) and answers ok. `LoneProbeIsRight` says
so ("ok" exactly when nothing *but deletes* is broken), and `NothingLeft` says
what stays.

## The proofs

Seven modules hold theorems or lemmas; all are for every number of clients, calls,
rounds, uploads, folds, factors, probes and crashes, and every value of the
parameters.

| theorem | states |
|---|---|
| `Invariance`, `TypeCorrect` | `CohortSpec => []IInv`, `TypeOK` |
| `CohortsAreWhole` | `WholeCohort` |
| `SumsAgree` | `MembersAgree` |
| `EpochsAgree` | `FoldedInItsEpoch` |
| `BaseFixed` | `OneArchitecture` |
| `FoldsAreUnique` | `FoldOnce` |
| `StagedIsSafe` | `StagedUntilFolded` |
| `PeersAreFrozen` | `FrozenAtSeal` |
| `FoldsAreKept` (`CohortProofs`) | `NoFoldLost` |
| `TokensAreHeld` | `TokenHeldOnce` |
| `ReservationsReturn` | `ReservationReleased`, when neither `stage_writer` nor `abort` raises |
| `CohortImplementsGlobal` | `ImplementsGlobal` |
| `RestartInvariance` | `RestartSpec => []CInv` |
| `RestartsKeepCohortsWhole` | `WholeCohort`, `FoldOnce`, `StagedUntilFolded` across crashes and late installs |
| `RestartsKeepFolds` | `NoFoldLost` across crashes and late installs |
| `FoldedIsSwept` | `FoldedLeavesNothing`, when `stage_cleanup` does not raise |
| `StoreTypes` | `TypeOK` of the store, and one holder of the lock, for any faults |
| `RankIsPinned` | `RankPinned` |
| `CursorsAreHonest` | `CursorNotAhead` |
| `FoldsAreKept` (`FactorStoreProofs`) | `FoldsKept` |
| `ReportsStayTrue` | `ReportsAreTrue` |
| `CacheKeepsStep` | `CacheInStep` |
| `FrozenFactorHolds` | `FrozenFactorAgrees` |
| `StoreImplementsGlobal` | `ImplementsGlobal` of the store |
| `SumInvariance`, `SumTypes` | `SumSpec => []IInv`, `TypeOK`: no addition leaves int64 |
| `SumIsOfTheCohort` | `MasksCancel` |
| `SumLosesHalves` | `SumIsClose` |
| `NormTestDecides` | `NormTestIsClose` |
| `PartSaysNothing` | `PartHidesMembers` |
| `DensityTypes`, `ModeTellsDensity`, `PollsAreHarmless` | `TypeOK`, `ModeIsDensity`, `PollingIsHarmless` |
| `ProbeTypes`, `ProbesLeaveNothing`, `LoneProbesAreRight` | `TypeOK`, `NothingLeft`, `LoneProbeIsRight` |

### Rounds

Assumptions, all named in `Cohort`: calls, keys and uploads are finite sets;
`1 <= KMin <= KTarget` and `EpochFolds >= 1` (the configuration's defaults and
its documentation; the code does not check them); model values are distinct.

The argument. None of the properties is inductive. `IInv` adds what the code
relies on without saying it. Its part `CInv` is about the cohorts and holds
whatever the cached factor state says:

* `CallsInv`, `RegistrantsInv`, `SealInv`: who joined which round; one live
  token per key; a sealed round is closed, and its peers are its registrants'
  keys.
* `HoldingInv`, `TokenInv`: an upload in progress or received holds a claimed
  token of its round, no two hold one, and its stamp fits the round's layout.
* `StagedInv`, `ObjectsInv`: staged slots are received uploads of the round, and
  their objects exist until the round's own cleanup.
* `ClaimInv`: a round claimed for aggregation has as many received uploads as
  peers.
* `FoldInv`: a fold in progress holds the lock, and the global it captured is
  still the current one. This is where lost updates are excluded.
* `LogInv`: an entry of the log is what a finished fold contributed, once.

The rest of `IInv` is about the factor state:

* `AdmitInv`: the state a fold captured is still the cached one, and admits it.
* `BaseInv`, `ClockInv`: all folds are of the cached architecture, and the length
  of the log is `epoch * EpochFolds + folds`.

The step from counts to members (`WholeCohort`) is a counting argument:
`OwnersBound` maps received slots injectively to keys of the peer set, so as
many slots as peers means exactly one of each, and `NothingMore` that a round
which is whole receives nothing further while it waits for the lock.
`LockExclusive` and `PhaseStep` carry the lock through every action,
`StartCaptures` and `CapturedStable` the captured state through those of others,
`CommitAppends` turns them into "a commit appends to the log". With it the
refinement is short: a commit is an `AddFold` of `Global`, anything else a stutter.

`TokensAreHeld` adds `SpentInv` (a spent token is held by an upload) to
`TokenInv` (by no two). It says that nobody counts twice, whatever raises; it
does not say that the holder still runs, since an upload that ended in phase
`error` keeps its token. `ReservationsReturn` says when there is none of those:
a token stays spent with nobody uploading under it, as `cohort_leak` shows, only
after `stage_writer` raised or, on a file system, after a broken stream's `abort`
did (`NoneStuck`), so no interleaving of reservations, broken streams, retries
and claims is to blame.

### Restarts

`CInv` is an invariant of `Restart` as well. `AdmitInv`, `BaseInv` and
`ClockInv` are not: a late install sets the cached state back, also under a fold
that captured the newer one. No conjunct of `CInv` reads more than the type of
that state (`InstallKeeps`), hence whole cohorts, no double fold, no lost fold,
whatever cold calls do. `ClaimedRuns`: a claimed round has registrants, so the
crash finds it in the process; with `NothingRuns` no round is half-finalised
after it, which makes `ClaimInv` and `FoldInv` trivial then, while `log` is
untouched.

`FoldedIsSwept` adds `OwnedInv` (a staged object belongs to a call that was
given its token) and uses a consequence of the count: a folded round is full
(`FoldedIsFull`), so no further upload can hold one of its tokens, and what its
last cleanup removed nobody stages again. The assumption that the cleanup does
not raise is what the property's comment says.

### Store

* For any storage: `LockInv` (the one fold under way holds the lock) and
  `ReadyInv` (a fold that is checked finds the cache warm, and goes on with what
  it captured).
* While reads do not fail: `RankInv` (the cache, what a cold caller holds and
  what a fold took all have the stored rank) for any number of cold callers, since
  every one of them reads the same rank; `CountInv` for the cursors: the version
  is written after the blob and from a number read under the lock, so it never
  exceeds the folds stored (`NumberInv`), nor does what a client read of it
  (`SeenInv`). `BaseInv`, which `CountInv` holds too, says that the global a fold
  opened is still the stored one when it publishes: nothing else writes the blob
  while the lock is held. Hence `FoldsKept`, and with `ReportInv` (where a fold is
  tells whether it is stored) `ReportsAreTrue`, for any number of cold callers:
  what they get wrong is the clock, never the folds.
* While nothing fails, and until a cold call caches late (`InStep`): `DurableInv`.
  A fold's state is the stored one until it publishes, and admits its stamp
  (`HeldInv`); the cache differs from the store only between publication and its
  update (`AgreeInv`). No bound on the cold callers is needed: one whose value is
  still stored installs nothing new, and one whose value is not is late.
  `HistoryInv` adds the clock, and that a client's body is a prefix of the stored
  folds after which only stamps of its epoch or later came (`BodyInv`).
* From then on: what was stored when a cold call was late is stored for good
  (`LateInv`, `LateStep`), and `late` never returns to None (`StepsStay`). So the
  refinement maps `log` to the first `late` folds, which later folds leave alone.

The three theorems about `InStep` claim nothing of the clock after a late
install, because nothing of that kind is true: `store_warm` shows it. They
say that late installs are the only cause, for any number of cold callers, where
the code takes for granted that there is none (the comment at
`aggregate.py:130`). A second look at the cache before line 140 would make
`late` stay None and the theorems unconditional.

### Masked sums

Assumptions, named in `SecureSum`: keys and factor names are numbers in finite
sets; the ring `R` is even and int64 holds a whole number of turns of it, at
least two (`R` is 2^32, int64 2^64); members agree on the shapes and
expand as much noise as the shapes have elements; `Slack` is at least the norm
of half a quantum in every coordinate, and at most `Clip`. Nothing is assumed of what members train:
what needs the sum to be inside the ring says so (`InRing`).

The inductive invariant is short: `SlotsInv` says that at every moment the
accumulator is congruent mod `R` to the sum of the uploads read so far. So the
order of the slots, the turns their int64 numbers carry and the wrap at 64 bits
make no difference (`RepresentativeIs`, `AddedIs`); `RingIsEven` and
`Width % R = 0` are what this rests on. The rest is what a sum of uploads is:

* *Slices.* `ConcatenationLaysOut`: the fold that concatenates the factors puts
  each where the sizes of the smaller ones end, and `OffsetsAgree`: that is where
  the server slices.
* *Masks.* An upload is what a member rounded plus its shares of the pairs'
  noise, mod `R` (`MaskedIsSum`). The two shares of a pair are opposite, so over
  a cohort they add up to zero: `PairsCancel`, for any antisymmetric function of
  two members, by removing one member at a time (`SharesCancel`, `MasksVanish`).
* *Values.* Two numbers congruent mod `R` within one ring are equal
  (`CongruentClose`), so what is reconstructed is the exact sum when it is in the
  ring (`Reconstructed`, `SumIsExact`); rounding moves each member by at most half
  a quantum (`RoundedIsClose`).
* *Norms*, of integers and without roots. `Triangle`: from the squared norms of
  two vectors being at most `a^2` and `b^2` follows that of their sum being at
  most `(a + b)^2`. It holds because the norm of every combination
  `p * u + q * v` is at least zero; no square root is taken. `SumIsNear`: in every
  coordinate what is folded is within half a quantum per member of what was
  trained, so the norm of the difference is at most `Slack` per member
  (`NormIsNear`). `Triangle` then gives both directions of `NormTestIsClose`, with
  the difference added to what was folded or to what was trained.
* *Parts.* A member that was read and one that was not share a noise that occurs
  once in the partial sum: replacing one coordinate of it shifts that sum by as
  much, up or down (`PartShifts`), so all residues are reached (`ShiftsReachAll`).

Sums over sets of any size are inductions over data, and the library's induction
theorems cannot be instantiated here. `SumProofs` does without: a predicate is
given as the *set* of subsets (or of numbers) for which it holds, and such a set
is everything because the complement, if it had an element, would have a smallest
one (`SubsetInduction` from `SmallestSubset`, `NumberInduction` from the
well-foundedness of the naturals). `FoldExists` derives from it that the
community modules' fold over a finite set is the value its recursion describes,
and everything about sums follows from that.

### Density and health check

`YoungestInv`: the entry of an address is its youngest note, if that is inside
the window. So dropping entries outside it drops no note that counts.

`SweepInv`: while deletes are allowed and as long as a blob or a version of the
probe is there, some call is still before its removal; a call whose removal fails
gives up half way only because another one is ahead of it. A staged probe belongs
to a call that has still to remove it, was killed, or was refused (`StagedSwept`).
`LoneInv`: a call that has been alone so far finds its own files in the state it
left them, whatever earlier calls could not delete.

### Only model-checked

* Liveness (`EveryCallAnswered`, `EveryCohortSettles`, `EveryBootstrapSettles`,
  `EveryFoldEnds`, `BusyEnds`): fairness is out of the prover's reach.

## What is not modelled, and why

* **Several models.** Rounds, locks, caches and objects are kept per model; the
  models share the condition only, whose notifications are harmless when
  spurious.
* **Floating point.** `dequantize` goes through float32, whose 24 bits round sums
  beyond 2^24 quanta, and the fold scales by the learning rate and adds to a
  float32 factor. `SecureSum` ends where the exact sum is known and the norm is
  compared.
* **Hashing and key exchange**: a pair's noise is arbitrary, the same for both.
* **Pure functions of shapes**: `rank_for`, `init_A`, `compat_from_shapes`, the
  base's JSON. A clamp, two hashes and a serialisation; the models take their
  results as values.
* **Requests refused for what they are** (syntax, a token of another round,
  shapes that do not fit their own base): they change no state.
* **Objects a crash leaves under `tmp/`** stay in the model as they do in the
  code; the documentation prescribes a lifecycle rule of the bucket.
* **Sizes**: density entries of models nobody polls (memory only; they never
  count).
* **An empty version sidecar** after a crash is modelled (`Torn`): every later
  fold of the model is then void and every pull fails, until an operator repairs
  it. No property says otherwise, since nothing in the code or its documentation
  promises that such a store recovers.
* **A layout fixed by an upload that failed** is modelled (`MixedLayout` against
  it): a correct cohort is then failed. The code keeps the first layout on
  purpose; no property forbids it.
* **Wire parsing, aliases, the safetensors layout, the entry points** keep no
  state and decide nothing about the rounds.
* **The answers' contents**: `/round/register` echoes the factor state of the
  moment a call wakes, which can be later than the seal; an upload that follows
  a stale echo is refused or voided, and that is modelled.

## The plan

Done, in this order: `Cohort` with its runs; `CohortProofs`; `Global` with the
refinement and its proof; `FactorStore` with its runs; `Restart` and
`RestartProofs`; `SecureSum`; `Density`; `HealthCheck`; `FactorStoreProofs`,
`DensityProofs`, `HealthCheckProofs`; `SumProofs` and `SecureSumProofs`;
`FoldsKept`, `ReportsAreTrue` and `TokenHeldOnce` with their theorems; cold
callers in `Restart` and in the store's proofs, refused deletes in `HealthCheck`.

What could follow, in the order of what is at stake:

1. `Cohort` over `FactorStore`: `CommitFold` replaced by the storage calls, to
   have rounds, bootstrap calls and cold callers race over one non-atomic global.
   The two halves meet in `Global` today.
2. The factor state a woken register call echoes (`app.py:218`), and what a
   client does with it, as part of `Cohort`.
