---------------------------- MODULE HealthCheck ----------------------------
(***************************************************************************)
(* /healthz: every call writes, reads back and removes one probe upload of *)
(* its own and one global of a probe model that all calls share            *)
(* (health_check, _purge_global and global_writer of store.py; healthz of  *)
(* app.py).  Calls run in threads of their own, without a lock; the server *)
(* may die in the middle of them.                                          *)
(*                                                                         *)
(* All probes write the same bytes, so a file is "empty" or "full".  On a  *)
(* file system a file is known by the probe that created it, wherever it   *)
(* was renamed to since; on S3 an upload in progress is its probe's alone. *)
(***************************************************************************)
EXTENDS Integers, FiniteSets

CONSTANTS
    Probe,       \* calls of /healthz
    Backends,    \* the storage backends to consider: "fs", "s3"
    BrokenSets,  \* what may be misconfigured: sets of Kind
    MaxCrashes,  \* bound on the crashes of a behaviour
    None

Kind == {"stage", "global", "version", "read", "delete"}

ASSUME NoneAssumption    == None \notin Probe
ASSUME BackendAssumption == Backends \subseteq {"fs", "s3"}
ASSUME BrokenAssumption  == \A b \in BrokenSets : b \subseteq Kind
ASSUME CrashAssumption   == MaxCrashes \in Nat

VARIABLES
    (* The store. *)
    backend,
    broken,     \* operations that raise; a delete may be refused or not
    staged,     \* probe uploads present under tmp/
    tmp,        \* <probe stem>.safetensors.tmp, or None (fs)
    blob,       \* <probe stem>.safetensors, or None
    version,    \* <probe stem>.version exists
    content,    \* what is in a file
    (* The calls. *)
    at,         \* where a call is
    open,       \* the file its writer has open, or None
    result,     \* "ok", "error" or None
    (* History. *)
    overlapped, \* calls that ran beside another one
    refused,    \* calls whose upload the store would not delete
    swept,      \* a call ended since the server started
    crashes

storeVars == <<backend, broken>>
fileVars  == <<staged, tmp, blob, version, content>>
histVars  == <<overlapped, refused, swept, crashes>>

vars == <<storeVars, fileVars, at, open, result, histVars>>

Running(p) == at[p] \notin {"idle", "done", "lost"}

TypeOK ==
    /\ backend \in Backends
    /\ broken \in BrokenSets
    /\ staged \subseteq Probe
    /\ tmp \in Probe \cup {None}
    /\ blob \in Probe \cup {None}
    /\ version \in BOOLEAN
    /\ content \in [Probe -> {"empty", "full"}]
    /\ at \in [Probe -> {"idle", "started", "staged", "opened", "closed", "renamed", "versioned",
                         "cleanup", "purge", "remove", "unversion", "done", "lost"}]
    /\ open \in [Probe -> Probe \cup {None}]
    /\ result \in [Probe -> {"ok", "error", None}]
    /\ overlapped \subseteq Probe
    /\ refused \subseteq Probe
    /\ swept \in BOOLEAN
    /\ crashes \in 0..MaxCrashes

Init ==
    /\ backend \in Backends
    /\ broken \in BrokenSets
    /\ staged = {}
    /\ tmp = None
    /\ blob = None
    /\ version = FALSE
    /\ content = [p \in Probe |-> "empty"]
    /\ at = [p \in Probe |-> "idle"]
    /\ open = [p \in Probe |-> None]
    /\ result = [p \in Probe |-> None]
    /\ overlapped = {}
    /\ refused = {}
    /\ swept = FALSE
    /\ crashes = 0

-----------------------------------------------------------------------------

Goes(p, from, to) ==
    /\ at[p] = from
    /\ at' = [at EXCEPT ![p] = to]

(* The step raises: the probe's answer is the error, its clean-up follows. *)
Raises(p, from) ==
    /\ Goes(p, from, "cleanup")
    /\ result' = [result EXCEPT ![p] = "error"]
    /\ UNCHANGED <<storeVars, fileVars, open, histVars>>

(* A storage operation that is misconfigured, where it is called. *)
Fails(p) ==
    \E call \in {<<"started", "stage">>, <<"staged", "global">>, <<"renamed", "version">>} :
        /\ call[2] \in broken
        /\ Raises(p, call[1])

Start(p) ==
    /\ Goes(p, "idle", "started")
    /\ LET others == {o \in Probe : Running(o)}
       IN  overlapped' = IF others = {} THEN overlapped ELSE overlapped \cup others \cup {p}
    /\ UNCHANGED <<storeVars, fileVars, open, result, refused, swept, crashes>>

(* (1) the staging round trip, under an id of the probe's own. *)
StageRoundTrip(p) ==
    /\ broken \cap {"stage", "read"} = {}
    /\ Goes(p, "started", "staged")
    /\ staged' = staged \cup {p}
    /\ UNCHANGED <<storeVars, tmp, blob, version, content, open, result, histVars>>

ReadbackFails(p) ==
    /\ "read" \in broken \ {"stage"}
    /\ Goes(p, "started", "cleanup")
    /\ staged' = staged \cup {p}
    /\ result' = [result EXCEPT ![p] = "error"]
    /\ UNCHANGED <<storeVars, tmp, blob, version, content, open, histVars>>

(* (2) the global: open(.tmp, "wb") makes the file or empties the one that
   another probe is writing; S3 opens an upload nobody else sees.          *)
OpenGlobal(p) ==
    /\ "global" \notin broken
    /\ Goes(p, "staged", "opened")
    /\ IF backend = "fs"
       THEN LET file == IF tmp = None THEN p ELSE tmp
            IN  /\ tmp' = file
                /\ open' = [open EXCEPT ![p] = file]
                /\ content' = [content EXCEPT ![file] = "empty"]
       ELSE UNCHANGED <<tmp, open, content>>
    /\ UNCHANGED <<storeVars, staged, blob, version, result, histVars>>

(* What was written is buffered until the file is closed. *)
CloseGlobal(p) ==
    /\ backend = "fs"
    /\ Goes(p, "opened", "closed")
    /\ content' = [content EXCEPT ![open[p]] = "full"]
    /\ open' = [open EXCEPT ![p] = None]
    /\ UNCHANGED <<storeVars, staged, tmp, blob, version, result, histVars>>

(* Variant: os.rename where the target must not exist. *)
TargetAbsent == tmp # None /\ blob = None
CanReplace == tmp # None

Rename(p) ==
    /\ CanReplace
    /\ Goes(p, "closed", "renamed")
    /\ blob' = tmp
    /\ tmp' = None
    /\ UNCHANGED <<storeVars, staged, version, content, open, result, histVars>>

(* Another probe renamed the file this one was writing, too. *)
RenameFails(p) ==
    /\ ~CanReplace
    /\ Raises(p, "closed")

CompleteUpload(p) ==
    /\ backend = "s3"
    /\ Goes(p, "opened", "renamed")
    /\ blob' = p
    /\ content' = [content EXCEPT ![p] = "full"]
    /\ UNCHANGED <<storeVars, staged, tmp, version, open, result, histVars>>

WriteVersion(p) ==
    /\ "version" \notin broken
    /\ Goes(p, "renamed", "versioned")
    /\ version' = TRUE
    /\ UNCHANGED <<storeVars, staged, tmp, blob, content, open, result, histVars>>

(* Variant: what was read is answered, not whether it is what was written. *)
ContentRead == IF blob = None THEN "error" ELSE content[blob]
Verdict == IF blob # None /\ content[blob] = "full" THEN "ok" ELSE "error"

ReadGlobal(p) ==
    /\ Goes(p, "versioned", "cleanup")
    /\ result' = [result EXCEPT ![p] = Verdict]
    /\ UNCHANGED <<storeVars, fileVars, open, histVars>>

-----------------------------------------------------------------------------
(* The clean-up: every part runs although an earlier one raises, and none of
   them changes the answer: `except Exception: pass`.                      *)

CleanStaged(p) ==
    /\ Goes(p, "cleanup", "purge")
    /\ staged' = staged \ {p}
    /\ UNCHANGED <<storeVars, tmp, blob, version, content, open, result, histVars>>

(* S3 raises or lists the keys it kept, shutil.rmtree ignores its errors. *)
StagedRefused(p) ==
    /\ "delete" \in broken
    /\ Goes(p, "cleanup", "purge")
    /\ refused' = refused \cup {p}
    /\ UNCHANGED <<storeVars, fileVars, open, result, overlapped, swept, crashes>>

(* The call is over. *)
Ends(p, from) ==
    /\ Goes(p, from, "done")
    /\ swept' = TRUE
    /\ UNCHANGED <<storeVars, staged, tmp, content, open, result, overlapped, refused, crashes>>

(* _purge_global, on S3 one request for both objects ... *)
PurgeObjects(p) ==
    /\ backend = "s3"
    /\ Ends(p, "purge")
    /\ blob' = None
    /\ version' = FALSE

(* ... which may keep either of them ... *)
PurgeRefused(p) ==
    /\ backend = "s3" /\ "delete" \in broken
    /\ Ends(p, "purge")
    /\ blob' \in {blob, None}
    /\ version' \in {version, FALSE}

(* ... on a file system a look and a removal for each. *)
LookForBlob(p) ==
    /\ backend = "fs"
    /\ Goes(p, "purge", IF blob = None THEN "unversion" ELSE "remove")
    /\ UNCHANGED <<storeVars, fileVars, open, result, histVars>>

RemoveBlob(p) ==
    /\ blob # None
    /\ Goes(p, "remove", "unversion")
    /\ blob' = None
    /\ UNCHANGED <<storeVars, staged, tmp, version, content, open, result, histVars>>

(* os.remove raises, since another probe removed the blob first or since it
   may not: the version is skipped.                                        *)
RemoveFails(p) ==
    /\ blob = None \/ "delete" \in broken
    /\ Ends(p, "remove")
    /\ UNCHANGED <<blob, version>>

(* Variant: only a probe that passed clears its files. *)
VersionAfterFailure(p) == version /\ result[p] # "ok"
VersionAfterPurge(p) == FALSE

RemoveVersion(p) ==
    /\ Ends(p, "unversion")
    /\ version' = VersionAfterPurge(p)
    /\ UNCHANGED blob

VersionRefused(p) ==
    /\ "delete" \in broken
    /\ Ends(p, "unversion")
    /\ UNCHANGED <<blob, version>>

-----------------------------------------------------------------------------
(* The server dies; it may be restarted with another configuration. *)
Crash ==
    /\ crashes < MaxCrashes
    /\ crashes' = crashes + 1
    /\ at' = [p \in Probe |-> IF Running(p) THEN "lost" ELSE at[p]]
    /\ open' = [p \in Probe |-> None]
    /\ broken' \in BrokenSets
    /\ swept' = FALSE
    /\ UNCHANGED <<backend, fileVars, result, overlapped, refused>>

Next ==
    \/ \E p \in Probe :
         \/ Start(p) \/ StageRoundTrip(p) \/ ReadbackFails(p) \/ Fails(p)
         \/ OpenGlobal(p) \/ CloseGlobal(p) \/ Rename(p) \/ RenameFails(p)
         \/ CompleteUpload(p) \/ WriteVersion(p) \/ ReadGlobal(p)
         \/ CleanStaged(p) \/ StagedRefused(p) \/ PurgeObjects(p) \/ PurgeRefused(p)
         \/ LookForBlob(p) \/ RemoveBlob(p) \/ RemoveFails(p)
         \/ RemoveVersion(p) \/ VersionRefused(p)
    \/ Crash

HealthSpec == Init /\ [][Next]_vars

-----------------------------------------------------------------------------
(* LoneProbeIsRight: a call that ran alone answers "ok" exactly when no write
   and no read is misconfigured, whatever overlapping or killed calls and
   refused deletes left behind in the files they share (health_check; two
   calls at once may both fail on a healthy store).  Deletes it does not
   test: what they raise is swallowed.                                     *)
LoneProbeIsRight ==
    \A p \in Probe : (at[p] \in {"purge", "remove", "unversion"} /\ p \notin overlapped)
        => (result[p] = "ok" <=> broken \subseteq {"delete"})

(* NothingLeft: when the last of the calls is through and the store lets them
   delete, the probe model has neither blob nor version: although a clean-up
   gives up half way when another one is faster, and although a call removes
   files another call has just written.  What calls of a killed server left,
   or calls that could not delete, is removed with the first call after a
   restart that can; but for the uploads, which lie under ids of their own
   and stay when their call was killed or refused.                         *)
NothingLeft ==
    (swept /\ \A p \in Probe : ~Running(p)) =>
        /\ "delete" \notin broken => blob = None /\ ~version
        /\ \A p \in staged : at[p] = "lost" \/ p \in refused
=============================================================================
