---------------------------- MODULE CohortProofs ----------------------------
(***************************************************************************)
(* The inductive invariant of Cohort and the proofs of its safety          *)
(* properties, for every number of clients, rounds and uploads.            *)
(***************************************************************************)
EXTENDS Cohort, TLAPS, FiniteSetTheorems

(* A call that was made has a round, and one that was answered 200 has a
   sealed one.                                                             *)
CallsInv ==
    \A q \in Req :
        /\ call[q] = "idle" => joined[q] = None
        /\ call[q] # "idle" => joined[q] \in Round
        /\ call[q] = "ok" => joined[q] \in sealed

(* Registrants are calls of the round, one per key. *)
RegistrantsInv ==
    \A r \in Round :
        /\ \A q \in registrants[r] : joined[q] = r
        /\ \A p, q \in registrants[r] : KeyOf[p] = KeyOf[q] => p = q

(* The seal: the peers are the registrants' keys, enough of them, and the
   round is closed.  Nothing is claimed before it.                         *)
SealInv ==
    /\ registering \notin sealed
    /\ \A r \in sealed : /\ peers[r] = PeersOf(registrants[r])
                         /\ Cardinality(registrants[r]) >= KMin
    /\ \A r \in Round : /\ r \notin sealed => fin[r] \in {"none", "lost"} /\ spent[r] = {}
                        /\ spent[r] \subseteq registrants[r]

(* An upload holds a token of its cohort, and agrees with its layout. *)
HoldingInv ==
    \A u \in Upload : Holding(u) =>
        /\ token[u] \in Req
        /\ call[token[u]] = "ok"
        /\ token[u] \in spent[RoundOf(u)]
        /\ stamp[u] \in Stamp
        /\ layout[RoundOf(u)] \in Stamp
        /\ SameLayout(layout[RoundOf(u)], stamp[u])

(* No two uploads hold one token. *)
TokenInv ==
    \A u, v \in Upload :
        Holding(u) /\ Holding(v) /\ token[u] = token[v] => u = v

(* What a round has staged are received uploads of its own. *)
StagedInv ==
    \A r \in Round : \A u \in staged[r] : upload[u] = "done" /\ RoundOf(u) = r

(* What was stored stays in the store until the round's own cleanup. *)
ObjectsInv ==
    \A u \in Upload :
        /\ \/ upload[u] \in {"stored", "done"}
           \/ Backend = "fs" /\ upload[u] = "streaming"
        /\ fin[RoundOf(u)] \notin Ended
        => u \in objects

(* S holds one received upload for every peer of the sealed round r. *)
WholeRound(r, S) ==
    /\ r \in sealed
    /\ layout[r] \in Stamp
    /\ \A u \in S : upload[u] = "done" /\ RoundOf(u) = r
    /\ Cardinality(S) = Cardinality(peers[r])

ClaimInv ==
    \A r \in Round : fin[r] = "aggregate" => WholeRound(r, staged[r])

BootsInv ==
    \A d \in Bootstrap : boot[d] # "idle" => bootStamp[d] \in Stamp

(* What the fold of h captured: the global is still so. *)
Captured(h) ==
    /\ lock = h
    /\ fold[h] \in FoldRec
    /\ fold[h].old = log
    /\ StampOf(h) \in Stamp
    /\ h \in Round => WholeRound(h, fold[h].slots)
    /\ h \in Bootstrap => fold[h].slots = {}

(* A fold in progress, or a cohort cleaning up, holds the lock. *)
FoldInv ==
    \A h \in Holder :
        /\ PhaseOf(h) = "folding" => Captured(h)
        /\ h \in Round /\ PhaseOf(h) \in {"folded", "voided"} => lock = h

(* Phases of a holder whose fold is in the log. *)
Past == {"folded", "done", "unswept", "lost"}

(* An entry of the log is what one finished fold contributed. *)
EntryInv(e) ==
    /\ PhaseOf(e.by) \in Past
    /\ e.by \in Round => WholeRound(e.by, e.slots) /\ e.stamp = layout[e.by]
    /\ e.by \in Bootstrap => e.slots = {}

LogInv ==
    /\ \A i \in 1..Len(log) : EntryInv(log[i])
    /\ FoldOnce

(* What holds of the cohorts whatever the cached factor state says. *)
CInv ==
    /\ TypeOK
    /\ CallsInv
    /\ RegistrantsInv
    /\ SealInv
    /\ HoldingInv
    /\ TokenInv
    /\ StagedInv
    /\ ObjectsInv
    /\ ClaimInv
    /\ BootsInv
    /\ FoldInv
    /\ LogInv

(* The factor state a running fold captured is the cached one, and admits it. *)
Admitted(h) ==
    /\ fold[h].st = state
    /\ FoldAdmits(state, StampOf(h))

AdmitInv == \A h \in Holder : PhaseOf(h) = "folding" => Admitted(h)

(* All folds are of the cached architecture. *)
BaseInv == \A i \in 1..Len(log) : log[i].stamp.compat = state.compat

(* The epoch clock: the log's length is the number of folds counted. *)
ClockInv ==
    /\ Len(log) = state.epoch * EpochFolds + state.folds
    /\ state.folds < EpochFolds
    /\ FoldedInItsEpoch

IInv ==
    /\ CInv
    /\ AdmitInv
    /\ BaseInv
    /\ ClockInv

-----------------------------------------------------------------------------
(* Types are kept.  That a call's round and an upload's token exist when they
   are used comes from CallsInv and HoldingInv.                            *)
LEMMA TypeStep == CInv /\ [Next]_vars => TypeOK'
<1> SUFFICES ASSUME CInv, [Next]_vars PROVE TypeOK'
  OBVIOUS
<1> USE DEF memberVars, collectVars, bootVars, globalVars, processVars
<1>t. TypeOK
  BY DEF CInv
<1>1. ASSUME NEW q \in Req, Register(q) PROVE TypeOK'
  <2>1. PICK r \in Round : RegisterIn(q, r)
    BY <1>t, <1>1 DEF Register, OpenRounds, Fresh, TypeOK
  <2>2. JoinRegistrants(registrants[r], q) \in SUBSET Req
    BY <1>t DEF JoinRegistrants, TypeOK
  <2>3. PeersOf(JoinRegistrants(registrants[r], q)) \in SUBSET Key
    BY <2>2, KeyOfAssumption DEF PeersOf
  <2>4. registrants' \in [Round -> SUBSET Req] /\ peers' \in [Round -> SUBSET Key]
    BY <1>t, <2>1, <2>2, <2>3 DEF RegisterIn, TypeOK
  <2>5. joined' \in [Req -> Round \cup {None}] /\ call' \in [Req -> CallPhase]
    BY <1>t, <2>1 DEF RegisterIn, TypeOK, CallPhase
  <2>6. sealed' \subseteq Round /\ registering' \in Round \cup {None}
    BY <1>t, <2>1 DEF RegisterIn, TypeOK
  <2> QED BY <1>t, <1>1, <2>4, <2>5, <2>6 DEF Register, TypeOK
<1>2. ASSUME NEW q \in Req, SealAtDeadline(q) PROVE TypeOK'
  <2>1. joined[q] \in Round
    BY <1>2 DEF CInv, CallsInv, SealAtDeadline, AtDeadline
  <2>2. PeersOf(registrants[joined[q]]) \in SUBSET Key
    BY <1>t, <2>1, KeyOfAssumption DEF PeersOf, TypeOK
  <2> QED BY <1>t, <1>2, <2>1, <2>2 DEF SealAtDeadline, ClearRegistering, TypeOK, CallPhase
<1>3. ASSUME NEW q \in Req, FailAtDeadline(q) PROVE TypeOK'
  <2>1. joined[q] \in Round
    BY <1>3 DEF CInv, CallsInv, FailAtDeadline, AtDeadline
  <2> QED BY <1>t, <1>3, <2>1 DEF FailAtDeadline, ClearRegistering, TypeOK, CallPhase
<1>4. ASSUME NEW q \in Req, Wake(q) PROVE TypeOK'
  BY <1>t, <1>4 DEF Wake, TypeOK, CallPhase
<1>5. ASSUME NEW u \in Upload, NEW q \in Req, NEW s \in Stamp,
             ReserveSlot(u, q, s) \/ MixedLayout(u, q, s)
      PROVE  TypeOK'
  <2>1. joined[q] \in Round
    BY <1>5 DEF CInv, CallsInv, ReserveSlot, MixedLayout, MayUpload
  <2>2. CASE ReserveSlot(u, q, s)
    <3>1. spent[joined[q]] \cup {q} \in SUBSET Req
      BY <1>t, <2>1 DEF TypeOK
    <3>2. spent' \in [Round -> SUBSET Req] /\ inflight' \in [Round -> Int]
      BY <1>t, <2>1, <2>2, <3>1 DEF ReserveSlot, TypeOK
    <3>3. layout' \in [Round -> Stamp \cup {None}]
      BY <1>t, <2>1, <2>2 DEF ReserveSlot, TypeOK
    <3>4. upload' \in [Upload -> UploadPhase]
      BY <1>t, <2>2 DEF ReserveSlot, TypeOK, UploadPhase
    <3>5. token' \in [Upload -> Req \cup {None}] /\ stamp' \in [Upload -> Stamp \cup {None}]
      BY <1>t, <2>2 DEF ReserveSlot, TypeOK
    <3> QED BY <1>t, <2>2, <3>2, <3>3, <3>4, <3>5 DEF ReserveSlot, TypeOK
  <2>3. CASE MixedLayout(u, q, s)
    BY <1>t, <2>1, <2>3 DEF MixedLayout, TypeOK, UploadPhase
  <2> QED BY <1>5, <2>2, <2>3
<1>6. ASSUME NEW u \in Upload, OpenWriter(u) \/ OpenWriterFails(u)
                                \/ CommitWriter(u) \/ StreamFails(u) \/ AbortFails(u)
      PROVE  TypeOK'
  BY <1>t, <1>6
  DEF OpenWriter, OpenWriterFails, CommitWriter, StreamFails, AbortFails, UploadStep, TypeOK, UploadPhase
<1>7. ASSUME NEW u \in Upload, Unreserve(u) \/ MarkReceived(u) PROVE TypeOK'
  <2>1. RoundOf(u) \in Round
    BY <1>7 DEF CInv, HoldingInv, CallsInv, Holding, RoundOf, Unreserve, MarkReceived, UploadStep
  <2>2. upload' \in [Upload -> UploadPhase]
    BY <1>t, <1>7 DEF Unreserve, MarkReceived, UploadStep, TypeOK, UploadPhase
  <2>3. /\ spent[RoundOf(u)] \ {token[u]} \in SUBSET Req
        /\ staged[RoundOf(u)] \cup {u} \in SUBSET Upload
    BY <1>t, <2>1 DEF TypeOK
  <2>4. spent' \in [Round -> SUBSET Req] /\ staged' \in [Round -> SUBSET Upload]
    <3>1. CASE Unreserve(u)
      BY <1>t, <2>1, <2>3, <3>1 DEF Unreserve, TypeOK
    <3>2. CASE MarkReceived(u)
      BY <1>t, <2>1, <2>3, <3>2 DEF MarkReceived, TypeOK
    <3> QED BY <1>7, <3>1, <3>2
  <2>5. inflight' \in [Round -> Int]
    BY <1>t, <1>7, <2>1 DEF Unreserve, MarkReceived, TypeOK
  <2> QED BY <1>t, <1>7, <2>2, <2>4, <2>5 DEF Unreserve, MarkReceived, UploadStep, TypeOK
<1>8. ASSUME NEW r \in Round, ClaimFinalize(r) \/ Cleanup(r) PROVE TypeOK'
  BY <1>t, <1>8 DEF ClaimFinalize, Cleanup, Unlocked, TypeOK, RoundPhase
<1>9. ASSUME NEW h \in Holder, StartFold(h) \/ CommitFold(h) \/ StartVoid(h) \/ AbortFold(h)
      PROVE  TypeOK'
  <2>1. fin' \in [Round -> RoundPhase] /\ boot' \in [Bootstrap -> BootPhase]
    BY <1>t, <1>9
    DEF StartFold, CommitFold, StartVoid, AbortFold, Move, Holder, TypeOK, RoundPhase, BootPhase
  <2>2. lock' \in Holder \cup {None}
    BY <1>t, <1>9 DEF StartFold, CommitFold, StartVoid, AbortFold, LockAfter, TypeOK
  <2>3. SlotsOf(h) \in SUBSET Upload
    BY <1>t DEF SlotsOf, TypeOK
  <2>4. [st |-> state, old |-> log, slots |-> SlotsOf(h)] \in FoldRec
    BY <1>t, <2>3 DEF FoldRec, TypeOK
  <2>5. fold' \in [Holder -> FoldRec \cup {None}]
    BY <1>t, <1>9, <2>4 DEF StartFold, CommitFold, StartVoid, AbortFold, TypeOK
  <2>6. state' \in FactorState /\ log' \in Seq(Entry) /\ meta' \in FactorState
    <3>1. CASE CommitFold(h)
      <4>1. fold[h] \in FoldRec /\ StampOf(h) \in Stamp
        BY <3>1 DEF CommitFold, CInv, FoldInv, Captured
      <4>2. state' \in FactorState /\ meta' \in FactorState
        BY <3>1, <4>1, EpochAssumption DEF CommitFold, AfterFold, FactorState, FoldRec, Stamp
      <4>3. [by |-> h, stamp |-> StampOf(h), slots |-> fold[h].slots] \in Entry
        BY <4>1 DEF Entry, FoldRec
      <4>4. log' \in Seq(Entry)
        BY <3>1, <4>1, <4>3 DEF CommitFold, FoldRec
      <4> QED BY <4>2, <4>4
    <3>2. CASE ~CommitFold(h)
      BY <1>t, <1>9, <3>2 DEF StartFold, StartVoid, AbortFold, TypeOK
    <3> QED BY <3>1, <3>2
  <2> QED
    BY <1>t, <1>9, <2>1, <2>2, <2>5, <2>6
    DEF StartFold, CommitFold, StartVoid, AbortFold, Move, TypeOK
<1>10. ASSUME NEW d \in Bootstrap, NEW s \in Stamp, DpCheck(d, s) PROVE TypeOK'
  BY <1>t, <1>10 DEF DpCheck, TypeOK, BootPhase
<1>11. ASSUME NEW d \in Bootstrap, DpStage(d) \/ DpStageFails(d) \/ DpCleanup(d) PROVE TypeOK'
  BY <1>t, <1>11 DEF DpStage, DpStageFails, DpCleanup, TypeOK, BootPhase
<1>12. CASE UNCHANGED vars
  BY <1>t, <1>12 DEF vars, TypeOK
<1>13. Stamps \subseteq Stamp
  BY <1>t DEF Stamps, Stamp, TypeOK, FactorState
<1> QED
  BY <1>1, <1>2, <1>3, <1>4, <1>5, <1>6, <1>7, <1>8, <1>9, <1>10, <1>11, <1>12, <1>13
  DEF Next, Registration, Contribution, Finalization, Folding, BootstrapCall, BootStamps

-----------------------------------------------------------------------------
(* What each group of handlers leaves alone. *)
LEMMA RegistrationFrame ==
  Registration => UNCHANGED <<collectVars, fin, bootVars, objects, lock, globalVars>>
  BY DEF Registration, Register, SealAtDeadline, FailAtDeadline, Wake

LEMMA ContributionFrame ==
  Contribution => UNCHANGED <<memberVars, fin, bootVars, lock, globalVars>>
  BY DEF Contribution, ReserveSlot, MixedLayout, OpenWriter, OpenWriterFails, CommitWriter,
         StreamFails, AbortFails, Unreserve, MarkReceived, UploadStep

LEMMA FinalizationFrame ==
  Finalization => UNCHANGED <<memberVars, failed, collectVars, bootStamp>>
  BY DEF Finalization, Folding, ClaimFinalize, Cleanup, StartFold, CommitFold, StartVoid, AbortFold, Move,
         bootVars

LEMMA BootstrapFrame ==
  BootstrapCall => UNCHANGED <<memberVars, failed, collectVars, fin, lock, globalVars>>
  BY DEF BootstrapCall, BootStamps, DpCheck, DpStage, DpStageFails, DpCleanup

(* A round that takes registrations is not sealed: a sealed one has at least
   KMin registrants, so it is not fresh.                                   *)
LEMMA OpenUnsealed ==
  ASSUME CInv, NEW r \in Round, r \in OpenRounds
  PROVE  r \notin sealed
<1>1. CASE registering # None
  BY <1>1 DEF OpenRounds, CInv, SealInv
<1>2. CASE registering = None
  <2>1. \A q \in Req : joined[q] # r
    BY <1>2 DEF OpenRounds, Fresh
  <2>2. registrants[r] = {}
    BY <2>1 DEF CInv, TypeOK, RegistrantsInv
  <2>3. ~(Cardinality(registrants[r]) >= KMin)
    BY <2>2, FS_EmptySet, SizeAssumption
  <2> QED BY <2>3 DEF CInv, SealInv
<1> QED BY <1>1, <1>2

(* Cardinalities of sets of registrants are natural numbers. *)
LEMMA RegistrantsFinite ==
  ASSUME NEW S \in SUBSET Req
  PROVE  IsFiniteSet(S) /\ Cardinality(S) \in Nat
  BY FiniteAssumption, FS_Subset, FS_CardinalityType

LEMMA QuorumIsEnough ==
  ASSUME NEW S \in SUBSET Req, NEW final \in BOOLEAN, SealQuorum(S, final)
  PROVE  Cardinality(S) >= KMin
  BY RegistrantsFinite, SizeAssumption DEF SealQuorum

-----------------------------------------------------------------------------
(* Registration and the seal. *)
LEMMA CallsStep == CInv /\ [Next]_vars => CallsInv'
<1> SUFFICES ASSUME CInv, [Next]_vars PROVE CallsInv'
  OBVIOUS
<1>t. TypeOK /\ CallsInv
  BY DEF CInv
<1>1. ASSUME NEW q \in Req, Register(q) PROVE CallsInv'
  <2>1. PICK r \in Round : RegisterIn(q, r)
    BY <1>t, <1>1 DEF Register, OpenRounds, Fresh, TypeOK
  <2>2. joined' = [joined EXCEPT ![q] = r] /\ sealed \subseteq sealed'
    BY <2>1 DEF RegisterIn
  <2>3. \/ call' = [call EXCEPT ![q] = "waiting"]
        \/ call' = [call EXCEPT ![q] = "ok"] /\ r \in sealed'
    BY <2>1 DEF RegisterIn
  <2>4. ASSUME NEW p \in Req
        PROVE  /\ call'[p] = "idle" => joined'[p] = None
               /\ call'[p] # "idle" => joined'[p] \in Round
               /\ call'[p] = "ok" => joined'[p] \in sealed'
    <3>1. CASE p = q
      BY <1>t, <2>2, <2>3, <3>1 DEF TypeOK
    <3>2. CASE p # q
      <4>1. call'[p] = call[p] /\ joined'[p] = joined[p]
        BY <1>t, <2>2, <2>3, <3>2 DEF TypeOK
      <4> QED BY <1>t, <2>2, <4>1 DEF CallsInv
    <3> QED BY <3>1, <3>2
  <2> QED BY <2>4 DEF CallsInv
<1>2. ASSUME NEW q \in Req, SealAtDeadline(q) PROVE CallsInv'
  BY <1>t, <1>2 DEF SealAtDeadline, AtDeadline, CallsInv, TypeOK
<1>3. ASSUME NEW q \in Req, FailAtDeadline(q) PROVE CallsInv'
  BY <1>t, <1>3 DEF FailAtDeadline, AtDeadline, CallsInv, TypeOK
<1>4. ASSUME NEW q \in Req, Wake(q) PROVE CallsInv'
  BY <1>t, <1>4 DEF Wake, CallsInv, TypeOK
<1>5. CASE UNCHANGED memberVars
  BY <1>t, <1>5 DEF memberVars, CallsInv
<1> QED
  BY <1>1, <1>2, <1>3, <1>4, <1>5, ContributionFrame, FinalizationFrame, BootstrapFrame
  DEF Next, Registration, vars

LEMMA RegistrantsStep == CInv /\ [Next]_vars => RegistrantsInv'
<1> SUFFICES ASSUME CInv, [Next]_vars PROVE RegistrantsInv'
  OBVIOUS
<1>t. TypeOK /\ CallsInv /\ RegistrantsInv
  BY DEF CInv
<1>1. ASSUME NEW q \in Req, Register(q) PROVE RegistrantsInv'
  <2>1. PICK r \in Round : RegisterIn(q, r)
    BY <1>t, <1>1 DEF Register, OpenRounds, Fresh, TypeOK
  <2>2. registrants' = [registrants EXCEPT ![r] = JoinRegistrants(@, q)]
    BY <2>1 DEF RegisterIn
  <2>3. joined' = [joined EXCEPT ![q] = r]
    BY <2>1 DEF RegisterIn
  <2>4. ASSUME NEW x \in Round, x # r, NEW p \in registrants[x] PROVE joined'[p] = x
    <3>1. joined[q] # x
      BY <1>t, <1>1, DisjointAssumption DEF Register, CallsInv
    <3> QED BY <1>t, <2>3, <2>4, <3>1 DEF RegistrantsInv, TypeOK
  <2>5. \A p \in JoinRegistrants(registrants[r], q) : joined'[p] = r
    BY <1>t, <2>3 DEF JoinRegistrants, RegistrantsInv, TypeOK
  <2>6. \A p1, p2 \in JoinRegistrants(registrants[r], q) : KeyOf[p1] = KeyOf[p2] => p1 = p2
    BY <1>t DEF JoinRegistrants, RegistrantsInv
  <2> QED BY <1>t, <2>2, <2>4, <2>5, <2>6 DEF RegistrantsInv, TypeOK
<1>2. CASE UNCHANGED <<registrants, joined>>
  BY <1>t, <1>2 DEF RegistrantsInv
<1> QED
  BY <1>1, <1>2, ContributionFrame, FinalizationFrame, BootstrapFrame
  DEF Next, Registration, SealAtDeadline, FailAtDeadline, Wake, memberVars, vars

LEMMA SealStep == CInv /\ [Next]_vars => SealInv'
<1> SUFFICES ASSUME CInv, [Next]_vars PROVE SealInv'
  OBVIOUS
<1> USE DEF memberVars, collectVars
<1>t. TypeOK /\ CallsInv /\ SealInv
  BY DEF CInv
<1>1. ASSUME NEW q \in Req, Register(q) PROVE SealInv'
  <2>1. PICK r \in Round : r \in OpenRounds /\ RegisterIn(q, r)
    BY <1>t, <1>1 DEF Register, OpenRounds, Fresh, TypeOK
  <2> DEFINE regs == JoinRegistrants(registrants[r], q)
  <2>2. r \notin sealed /\ spent[r] = {}
    BY <1>t, <2>1, OpenUnsealed DEF SealInv
  <2>3. regs \in SUBSET Req
    BY <1>t DEF JoinRegistrants, TypeOK
  <2>4. SealQuorum(regs, FALSE) => Cardinality(regs) >= KMin
    BY <2>3, QuorumIsEnough
  <2>5. /\ registrants' = [registrants EXCEPT ![r] = regs]
        /\ UNCHANGED <<spent, fin>>
    BY <1>1, <2>1 DEF RegisterIn, Register
  <2> HIDE DEF regs
  <2>6. CASE SealQuorum(regs, FALSE)
    <3>1. /\ sealed' = sealed \cup {r}
          /\ peers' = [peers EXCEPT ![r] = PeersOf(regs)]
          /\ registering' = None
      BY <2>1, <2>6 DEF RegisterIn, regs
    <3>2. registering' \notin sealed'
      BY <1>t, <3>1, DisjointAssumption DEF TypeOK
    <3>3. \A x \in sealed' : /\ peers'[x] = PeersOf(registrants'[x])
                             /\ Cardinality(registrants'[x]) >= KMin
      BY <1>t, <2>2, <2>4, <2>5, <2>6, <3>1 DEF SealInv, TypeOK
    <3>4. \A x \in Round : /\ x \notin sealed' => fin'[x] \in {"none", "lost"} /\ spent'[x] = {}
                           /\ spent'[x] \subseteq registrants'[x]
      BY <1>t, <2>2, <2>5, <3>1 DEF SealInv, TypeOK
    <3>5. \A x \in sealed' : PeersOf(registrants'[x]) = PeersOf(registrants[x])'
      BY DEF PeersOf
    <3> QED BY <3>2, <3>3, <3>4, <3>5 DEF SealInv
  <2>7. CASE ~SealQuorum(regs, FALSE)
    <3>1. registering' = r /\ UNCHANGED <<sealed, peers>>
      BY <2>1, <2>7 DEF RegisterIn, regs
    <3> QED BY <1>t, <2>2, <2>5, <3>1 DEF SealInv, TypeOK, PeersOf
  <2> QED BY <2>6, <2>7
<1>2. ASSUME NEW q \in Req, SealAtDeadline(q) PROVE SealInv'
  <2>1. joined[q] \in Round /\ joined[q] \notin sealed
    BY <1>t, <1>2 DEF CallsInv, SealAtDeadline, AtDeadline
  <2>2. Cardinality(registrants[joined[q]]) >= KMin
    BY <1>t, <1>2, <2>1, QuorumIsEnough DEF SealAtDeadline, TypeOK
  <2>3. registering' \notin sealed'
    BY <1>t, <1>2, <2>1, DisjointAssumption DEF SealAtDeadline, ClearRegistering, SealInv, TypeOK
  <2> QED BY <1>t, <1>2, <2>1, <2>2, <2>3 DEF SealAtDeadline, SealInv, TypeOK, PeersOf
<1>3. ASSUME NEW q \in Req, FailAtDeadline(q) PROVE SealInv'
  BY <1>t, <1>3, DisjointAssumption DEF FailAtDeadline, ClearRegistering, SealInv, TypeOK, PeersOf
<1>4. ASSUME NEW q \in Req, Wake(q) PROVE SealInv'
  BY <1>t, <1>4 DEF Wake, SealInv, PeersOf
<1>5. ASSUME NEW u \in Upload, NEW q \in Req, NEW s \in Stamps, ReserveSlot(u, q, s)
      PROVE  SealInv'
  <2>1. joined[q] \in sealed /\ q \in registrants[joined[q]]
    BY <1>t, <1>5 DEF ReserveSlot, MayUpload, KnownToken, CallsInv
  <2> QED BY <1>t, <1>5, <2>1 DEF ReserveSlot, SealInv, TypeOK, PeersOf
<1>6. ASSUME NEW u \in Upload, Unreserve(u) PROVE SealInv'
  BY <1>t, <1>6 DEF Unreserve, UploadStep, SealInv, TypeOK, PeersOf
<1>7. CASE Contribution /\ UNCHANGED spent
  BY <1>t, <1>7, ContributionFrame DEF SealInv, PeersOf
<1>8. CASE Finalization
  <2>1. ASSUME NEW r \in Round, ClaimFinalize(r) \/ Cleanup(r),
               NEW x \in Round, fin'[x] \notin {"none", "lost"}
        PROVE  x \in sealed
    BY <1>t, <2>1 DEF ClaimFinalize, Cleanup, SealInv, TypeOK
  <2>2. ASSUME NEW h \in Holder,
               StartFold(h) \/ CommitFold(h) \/ StartVoid(h) \/ AbortFold(h),
               NEW x \in Round, fin'[x] \notin {"none", "lost"}
        PROVE  x \in sealed
    <3>1. fin'[x] # fin[x] => x = h /\ PhaseOf(h) \notin {"none", "lost"}
      BY <1>t, <2>2 DEF StartFold, CommitFold, StartVoid, AbortFold, Move, TypeOK
    <3> QED BY <1>t, <2>2, <3>1 DEF PhaseOf, SealInv
  <2>3. \A x \in Round : fin'[x] \notin {"none", "lost"} => x \in sealed
    BY <1>8, <2>1, <2>2 DEF Finalization, Folding
  <2> QED BY <1>t, <1>8, <2>3, FinalizationFrame DEF SealInv, PeersOf
<1>9. CASE BootstrapCall \/ UNCHANGED vars
  BY <1>t, <1>9, BootstrapFrame DEF vars, SealInv, PeersOf
<1> QED
  BY <1>1, <1>2, <1>3, <1>4, <1>5, <1>6, <1>7, <1>8, <1>9
  DEF Next, Registration, Contribution, MixedLayout, OpenWriter, OpenWriterFails, CommitWriter,
      StreamFails, AbortFails, MarkReceived

-----------------------------------------------------------------------------
(* What no step undoes: a seal, an answer, a layout, a claimed token. *)
LEMMA FrozenStep ==
  ASSUME CInv, [Next]_vars, NEW r \in sealed
  PROVE  r \in sealed' /\ registrants'[r] = registrants[r] /\ peers'[r] = peers[r]
<1> USE DEF memberVars
<1>t. TypeOK /\ CallsInv
  BY DEF CInv
<1>1. ASSUME NEW q \in Req, Register(q)
      PROVE  r \in sealed' /\ registrants'[r] = registrants[r] /\ peers'[r] = peers[r]
  <2>1. PICK x \in Round : x \in OpenRounds /\ RegisterIn(q, x)
    BY <1>t, <1>1 DEF Register, OpenRounds, Fresh, TypeOK
  <2>2. x # r
    BY <2>1, OpenUnsealed
  <2> QED BY <1>t, <2>1, <2>2 DEF RegisterIn, TypeOK
<1>2. ASSUME NEW q \in Req, SealAtDeadline(q)
      PROVE  r \in sealed' /\ registrants'[r] = registrants[r] /\ peers'[r] = peers[r]
  <2>1. joined[q] # r
    BY <1>2 DEF SealAtDeadline, AtDeadline
  <2> QED BY <1>t, <1>2, <2>1 DEF SealAtDeadline, TypeOK
<1>3. CASE UNCHANGED <<sealed, registrants, peers>>
  BY <1>3
<1> QED
  BY <1>1, <1>2, <1>3, ContributionFrame, FinalizationFrame, BootstrapFrame
  DEF Next, Registration, FailAtDeadline, Wake, vars

LEMMA AnswerStable ==
  ASSUME CInv, [Next]_vars, NEW q \in Req, call[q] = "ok"
  PROVE  call'[q] = "ok" /\ joined'[q] = joined[q]
<1> USE DEF memberVars
<1>t. TypeOK
  BY DEF CInv
<1>1. ASSUME NEW p \in Req, Register(p) PROVE call'[q] = "ok" /\ joined'[q] = joined[q]
  <2>1. PICK r \in Round : RegisterIn(p, r)
    BY <1>t, <1>1 DEF Register, OpenRounds, Fresh, TypeOK
  <2>2. p # q
    BY <1>1 DEF Register
  <2> QED BY <1>t, <2>1, <2>2 DEF RegisterIn, TypeOK
<1>2. ASSUME NEW p \in Req, SealAtDeadline(p) \/ FailAtDeadline(p) \/ Wake(p)
      PROVE  call'[q] = "ok" /\ joined'[q] = joined[q]
  <2>1. p # q
    BY <1>2 DEF SealAtDeadline, FailAtDeadline, AtDeadline, Wake
  <2> QED BY <1>t, <1>2, <2>1 DEF SealAtDeadline, FailAtDeadline, Wake, TypeOK
<1>3. CASE UNCHANGED <<call, joined>>
  BY <1>3
<1> QED
  BY <1>1, <1>2, <1>3, ContributionFrame, FinalizationFrame, BootstrapFrame
  DEF Next, Registration, vars

LEMMA LayoutStable ==
  ASSUME CInv, [Next]_vars, NEW r \in Round, layout[r] \in Stamp
  PROVE  layout'[r] = layout[r]
<1> USE DEF collectVars
<1>t. TypeOK /\ layout[r] # None
  BY DisjointAssumption DEF CInv, Stamp
<1>1. ASSUME NEW u \in Upload, NEW q \in Req, NEW s \in Stamps, ReserveSlot(u, q, s)
      PROVE  layout'[r] = layout[r]
  BY <1>t, <1>1 DEF ReserveSlot, TypeOK
<1>2. CASE UNCHANGED layout
  BY <1>2
<1> QED
  BY <1>1, <1>2, RegistrationFrame, FinalizationFrame, BootstrapFrame
  DEF Next, Contribution, MixedLayout, OpenWriter, OpenWriterFails, CommitWriter, StreamFails, AbortFails,
      Unreserve, MarkReceived, UploadStep, vars

(* Every claimed token belongs to an answered call of a real round. *)
LEMMA HoldingRound ==
  ASSUME CInv, NEW u \in Upload, Holding(u)
  PROVE  /\ token[u] \in Req
         /\ call[token[u]] = "ok"
         /\ RoundOf(u) \in Round
         /\ RoundOf(u) \in sealed
  BY DEF CInv, HoldingInv, CallsInv, RoundOf

LEMMA HoldingStable ==
  ASSUME CInv, [Next]_vars, NEW u \in Upload, Holding(u)
  PROVE  token'[u] = token[u] /\ stamp'[u] = stamp[u] /\ RoundOf(u)' = RoundOf(u)
<1> USE DEF collectVars
<1>t. TypeOK
  BY DEF CInv
<1>1. ASSUME NEW v \in Upload, NEW q \in Req, NEW s \in Stamps,
             ReserveSlot(v, q, s) \/ MixedLayout(v, q, s)
      PROVE  token'[u] = token[u] /\ stamp'[u] = stamp[u]
  <2>1. u # v
    BY <1>1 DEF ReserveSlot, MixedLayout, MayUpload, Holding
  <2> QED BY <1>t, <1>1, <2>1 DEF ReserveSlot, MixedLayout, TypeOK
<1>2. token'[u] = token[u] /\ stamp'[u] = stamp[u]
  BY <1>1, RegistrationFrame, FinalizationFrame, BootstrapFrame
  DEF Next, Contribution, OpenWriter, OpenWriterFails, CommitWriter, StreamFails, AbortFails,
      Unreserve, MarkReceived, UploadStep, vars
<1>3. joined'[token[u]] = joined[token[u]]
  BY HoldingRound, AnswerStable
<1> QED BY <1>2, <1>3 DEF RoundOf

LEMMA DoneStable ==
  ASSUME CInv, [Next]_vars, NEW u \in Upload, upload[u] = "done"
  PROVE  upload'[u] = "done" /\ RoundOf(u)' = RoundOf(u) /\ token'[u] = token[u]
<1> USE DEF collectVars
<1>t. TypeOK
  BY DEF CInv
<1>1. RoundOf(u)' = RoundOf(u) /\ token'[u] = token[u]
  BY HoldingStable DEF Holding
<1>2. ASSUME NEW v \in Upload, NEW q \in Req, NEW s \in Stamps,
             ReserveSlot(v, q, s) \/ MixedLayout(v, q, s)
      PROVE  upload'[u] = "done"
  BY <1>t, <1>2 DEF ReserveSlot, MixedLayout, MayUpload, TypeOK
<1>3. ASSUME NEW v \in Upload, NEW from \in UploadPhase \ {"done"}, NEW to, UploadStep(v, from, to)
      PROVE  upload'[u] = "done"
  BY <1>t, <1>3 DEF UploadStep, TypeOK
<1>4. ASSUME Contribution PROVE upload'[u] = "done"
  <2>1. PICK v \in Upload :
            \/ \E q \in Req, s \in Stamps : ReserveSlot(v, q, s) \/ MixedLayout(v, q, s)
            \/ OpenWriter(v) \/ OpenWriterFails(v)
            \/ CommitWriter(v) \/ StreamFails(v) \/ AbortFails(v)
            \/ Unreserve(v) \/ MarkReceived(v)
    BY <1>4 DEF Contribution
  <2>2. CASE \E q \in Req, s \in Stamps : ReserveSlot(v, q, s) \/ MixedLayout(v, q, s)
    BY <1>2, <2>2
  <2>3. CASE OpenWriter(v) \/ OpenWriterFails(v)
    BY <1>3, <2>3 DEF OpenWriter, OpenWriterFails, UploadPhase
  <2>4. CASE CommitWriter(v) \/ StreamFails(v) \/ AbortFails(v)
    BY <1>3, <2>4 DEF CommitWriter, StreamFails, AbortFails, UploadPhase
  <2>5. CASE Unreserve(v) \/ MarkReceived(v)
    BY <1>3, <2>5 DEF Unreserve, MarkReceived, UploadPhase
  <2> QED BY <2>1, <2>2, <2>3, <2>4, <2>5
<1>5. upload'[u] = "done"
  BY <1>4, RegistrationFrame, FinalizationFrame, BootstrapFrame DEF Next, vars
<1> QED BY <1>1, <1>5

(* A whole round stays whole. *)
LEMMA WholeStable ==
  ASSUME CInv, [Next]_vars
  PROVE  \A r \in Round, S \in SUBSET Upload : WholeRound(r, S) => WholeRound(r, S)'
<1> SUFFICES ASSUME NEW r \in Round, NEW S \in SUBSET Upload, WholeRound(r, S)
             PROVE  WholeRound(r, S)'
  OBVIOUS
<1>1. r \in sealed' /\ peers'[r] = peers[r]
  BY FrozenStep DEF WholeRound
<1>2. layout'[r] \in Stamp
  BY LayoutStable DEF WholeRound
<1>3. \A u \in S : upload'[u] = "done" /\ RoundOf(u)' = r
  BY DoneStable DEF WholeRound
<1> QED BY <1>1, <1>2, <1>3 DEF WholeRound

-----------------------------------------------------------------------------
(* Uploads of a cohort: a slot per peer at most, and as many only when every
   peer has one.                                                           *)
LEMMA OwnersBound ==
  ASSUME CInv, NEW r \in Round, r \in sealed, NEW S \in SUBSET Upload,
         \A u \in S : Holding(u) /\ RoundOf(u) = r
  PROVE  /\ IsFiniteSet(S) /\ IsFiniteSet(peers[r])
         /\ Cardinality(S) <= Cardinality(peers[r])
         /\ Cardinality(S) = Cardinality(peers[r])
              => {KeyOf[token[u]] : u \in S} = peers[r]
<1> DEFINE Owner == [u \in S |-> KeyOf[token[u]]]
<1>1. \A u \in S : token[u] \in registrants[r]
  BY DEF CInv, HoldingInv, SealInv
<1>2. peers[r] = {KeyOf[q] : q \in registrants[r]}
  BY DEF CInv, SealInv, PeersOf
<1>3. Owner \in [S -> peers[r]]
  BY <1>1, <1>2
<1>4. \A u, v \in S : KeyOf[token[u]] = KeyOf[token[v]] => u = v
  BY <1>1 DEF CInv, RegistrantsInv, TokenInv
<1>5. IsInjective(Owner)
  BY <1>4 DEF IsInjective
<1>6. Owner \in Injection(S, peers[r])
  BY <1>3, <1>5 DEF Injection
<1>7. IsFiniteSet(S) /\ IsFiniteSet(peers[r])
  BY FiniteAssumption, FS_Subset DEF CInv, TypeOK
<1>8. Cardinality(S) <= Cardinality(peers[r])
  BY <1>6, <1>7, FS_Injection
<1>9. Cardinality(S) = Cardinality(peers[r]) => Owner \in Surjection(S, peers[r])
  BY <1>6, <1>7, FS_Injection
<1>10. ASSUME Owner \in Surjection(S, peers[r])
       PROVE  {KeyOf[token[u]] : u \in S} = peers[r]
  <2>1. \A k \in peers[r] : \E u \in S : KeyOf[token[u]] = k
    BY <1>10 DEF Surjection
  <2>2. \A u \in S : KeyOf[token[u]] \in peers[r]
    BY <1>1, <1>2
  <2> QED BY <2>1, <2>2
<1> QED BY <1>7, <1>8, <1>9, <1>10

-----------------------------------------------------------------------------
(* Uploads. *)
(* A claimed token was claimed before the step, or is by it. *)
LEMMA HoldingFrom ==
  ASSUME CInv, [Next]_vars, NEW u \in Upload, Holding(u)',
         ~\E q \in Req, s \in Stamps : ReserveSlot(u, q, s)
  PROVE  Holding(u) /\ ~Unreserve(u)
<1> USE DEF collectVars
<1>t. TypeOK
  BY DEF CInv
<1>1. ASSUME NEW v \in Upload, NEW q \in Req, NEW s \in Stamps,
             v # u, ReserveSlot(v, q, s)
      PROVE  upload'[u] = upload[u]
  BY <1>t, <1>1 DEF ReserveSlot, TypeOK
<1>2. ASSUME NEW v \in Upload, NEW q \in Req, NEW s \in Stamps, MixedLayout(v, q, s)
      PROVE  v # u /\ upload'[u] = upload[u]
  BY <1>t, <1>2 DEF MixedLayout, TypeOK, Holding
<1>3. ASSUME NEW v \in Upload, NEW from, NEW to, UploadStep(v, from, to), v # u
      PROVE  upload'[u] = upload[u]
  BY <1>t, <1>3 DEF UploadStep, TypeOK
<1>4. ASSUME Unreserve(u) PROVE FALSE
  BY <1>t, <1>4 DEF Unreserve, UploadStep, TypeOK, Holding
<1>5. ASSUME \/ OpenWriter(u) \/ OpenWriterFails(u) \/ CommitWriter(u)
             \/ StreamFails(u) \/ AbortFails(u) \/ MarkReceived(u)
      PROVE  Holding(u)
  BY <1>5
  DEF OpenWriter, OpenWriterFails, CommitWriter, StreamFails, AbortFails, MarkReceived, UploadStep, Holding
<1>6. CASE UNCHANGED upload
  BY <1>4, <1>6 DEF Holding
<1>7. CASE Contribution
  <2>1. PICK v \in Upload :
            \/ \E q \in Req, s \in Stamps : ReserveSlot(v, q, s) \/ MixedLayout(v, q, s)
            \/ OpenWriter(v) \/ OpenWriterFails(v)
            \/ CommitWriter(v) \/ StreamFails(v) \/ AbortFails(v)
            \/ Unreserve(v) \/ MarkReceived(v)
    BY <1>7 DEF Contribution
  <2>2. CASE v = u
    <3>1. CASE \E q \in Req, s \in Stamps : ReserveSlot(v, q, s) \/ MixedLayout(v, q, s)
      BY <1>2, <2>2, <3>1
    <3> QED BY <1>4, <1>5, <2>1, <2>2, <3>1
  <2>3. CASE v # u
    <3>1. upload'[u] = upload[u]
      BY <1>1, <1>2, <1>3, <2>1, <2>3
      DEF OpenWriter, OpenWriterFails, CommitWriter, StreamFails, AbortFails, Unreserve, MarkReceived
    <3> QED BY <1>4, <3>1 DEF Holding
  <2> QED BY <2>2, <2>3
<1> QED
  BY <1>6, <1>7, RegistrationFrame, FinalizationFrame, BootstrapFrame DEF Next, vars

LEMMA HoldingStep == CInv /\ [Next]_vars => HoldingInv'
<1> SUFFICES ASSUME CInv, [Next]_vars, NEW u \in Upload, Holding(u)'
             PROVE  /\ token'[u] \in Req
                    /\ call'[token'[u]] = "ok"
                    /\ token'[u] \in spent'[RoundOf(u)']
                    /\ stamp'[u] \in Stamp
                    /\ layout'[RoundOf(u)'] \in Stamp
                    /\ SameLayout(layout'[RoundOf(u)'], stamp'[u])
  BY DEF HoldingInv, SameLayout
<1> USE DEF collectVars
<1>t. TypeOK
  BY DEF CInv
<1>1. ASSUME NEW q \in Req, NEW s \in Stamps, ReserveSlot(u, q, s)
      PROVE  /\ token'[u] = q /\ stamp'[u] = s /\ call'[q] = "ok"
             /\ RoundOf(u)' = joined[q]
             /\ q \in spent'[joined[q]]
             /\ layout'[joined[q]] \in Stamp
             /\ SameLayout(layout'[joined[q]], s)
  <2>1. joined[q] \in Round /\ s \in Stamp
    BY <1>t, <1>1 DEF ReserveSlot, MayUpload, CInv, CallsInv, Stamps, Stamp, TypeOK, FactorState
  <2>2. token'[u] = q /\ stamp'[u] = s /\ call'[q] = "ok" /\ joined' = joined
    BY <1>t, <1>1 DEF ReserveSlot, MayUpload, TypeOK, memberVars
  <2>3. q \in spent'[joined[q]]
    BY <1>t, <1>1, <2>1 DEF ReserveSlot, TypeOK
  <2>4. layout'[joined[q]] = IF layout[joined[q]] = None THEN s ELSE layout[joined[q]]
    BY <1>t, <1>1, <2>1 DEF ReserveSlot, TypeOK
  <2>5. layout[joined[q]] # None => SameLayout(layout[joined[q]], s)
    BY <1>1 DEF ReserveSlot
  <2>6. layout'[joined[q]] \in Stamp /\ SameLayout(layout'[joined[q]], s)
    BY <1>t, <2>1, <2>4, <2>5 DEF TypeOK, SameLayout
  <2> QED BY <2>2, <2>3, <2>6 DEF RoundOf
<1>2. CASE \E q \in Req, s \in Stamps : ReserveSlot(u, q, s)
  <2>1. Stamps \subseteq Stamp
    BY <1>t DEF Stamps, Stamp, TypeOK, FactorState
  <2> QED BY <1>1, <1>2, <2>1
<1>3. CASE ~\E q \in Req, s \in Stamps : ReserveSlot(u, q, s)
  <2>1. Holding(u) /\ ~Unreserve(u)
    BY <1>3, HoldingFrom
  <2>2. /\ token'[u] = token[u] /\ stamp'[u] = stamp[u] /\ RoundOf(u)' = RoundOf(u)
        /\ RoundOf(u) \in Round /\ token[u] \in Req
    BY <2>1, HoldingStable, HoldingRound
  <2>3. call'[token[u]] = "ok"
    BY <2>1, HoldingRound, AnswerStable
  <2>4. token[u] \in spent'[RoundOf(u)]
    <3>1. token[u] \in spent[RoundOf(u)]
      BY <2>1 DEF CInv, HoldingInv
    <3>2. ASSUME NEW v \in Upload, NEW q \in Req, NEW s \in Stamps, ReserveSlot(v, q, s)
          PROVE  token[u] \in spent'[RoundOf(u)]
      BY <1>t, <2>2, <3>1, <3>2 DEF ReserveSlot, TypeOK
    <3>3. ASSUME NEW v \in Upload, Unreserve(v)
          PROVE  token[u] \in spent'[RoundOf(u)]
      <4>1. v # u /\ Holding(v)
        BY <2>1, <3>3 DEF Unreserve, UploadStep, Holding
      <4>2. token[v] # token[u]
        BY <2>1, <4>1 DEF CInv, TokenInv
      <4> QED BY <1>t, <2>2, <3>1, <3>3, <4>2 DEF Unreserve, TypeOK
    <3>4. CASE UNCHANGED spent
      BY <3>1, <3>4
    <3> QED
      BY <3>2, <3>3, <3>4, RegistrationFrame, FinalizationFrame, BootstrapFrame
      DEF Next, Contribution, MixedLayout, OpenWriter, OpenWriterFails, CommitWriter, StreamFails, AbortFails,
          MarkReceived, UploadStep, vars
  <2>5. layout'[RoundOf(u)] = layout[RoundOf(u)] /\ layout[RoundOf(u)] \in Stamp
    BY <2>1, <2>2, LayoutStable DEF CInv, HoldingInv
  <2>6. stamp[u] \in Stamp /\ SameLayout(layout[RoundOf(u)], stamp[u])
    BY <2>1 DEF CInv, HoldingInv
  <2> QED BY <2>2, <2>3, <2>4, <2>5, <2>6
<1> QED BY <1>2, <1>3

LEMMA TokenStep == CInv /\ [Next]_vars => TokenInv'
<1> SUFFICES ASSUME CInv, [Next]_vars,
                    NEW u \in Upload, NEW v \in Upload,
                    Holding(u)', Holding(v)', token'[u] = token'[v], u # v
             PROVE  FALSE
  BY DEF TokenInv
<1>t. TypeOK
  BY DEF CInv
<1>1. ASSUME NEW x \in Upload, NEW y \in Upload, x # y, token'[x] = token'[y], Holding(y)',
             NEW q \in Req, NEW s \in Stamps, ReserveSlot(x, q, s)
      PROVE  FALSE
  <2>1. token'[x] = q
    BY <1>t, <1>1 DEF ReserveSlot, TypeOK
  <2>2. ~\E p \in Req, z \in Stamps : ReserveSlot(y, p, z)
    BY <1>t, <1>1 DEF ReserveSlot, MayUpload, TypeOK
  <2>3. Holding(y)
    BY <1>1, <2>2, HoldingFrom
  <2>4. token[y] = q
    BY <1>1, <2>1, <2>3, HoldingStable
  <2>5. q \in spent[joined[q]]
    BY <2>3, <2>4 DEF CInv, HoldingInv, RoundOf
  <2> QED BY <1>1, <2>5 DEF ReserveSlot, MayUpload, UnspentToken
<1>2. Holding(u) /\ Holding(v)
  BY <1>1, HoldingFrom
<1>3. token[u] = token[v]
  BY <1>2, HoldingStable
<1> QED BY <1>2, <1>3 DEF CInv, TokenInv

LEMMA StagedStep == CInv /\ [Next]_vars => StagedInv'
<1> SUFFICES ASSUME CInv, [Next]_vars, NEW r \in Round, NEW u \in staged'[r]
             PROVE  upload'[u] = "done" /\ RoundOf(u)' = r
  BY DEF StagedInv
<1> USE DEF collectVars
<1>t. TypeOK
  BY DEF CInv
<1>1. CASE u \in staged[r]
  BY <1>t, <1>1, DoneStable DEF CInv, StagedInv, TypeOK
<1>2. CASE u \notin staged[r]
  <2>1. PICK v \in Upload : MarkReceived(v)
    BY <1>2, RegistrationFrame, FinalizationFrame, BootstrapFrame
    DEF Next, Contribution, ReserveSlot, MixedLayout, OpenWriter, OpenWriterFails, CommitWriter,
        StreamFails, AbortFails, Unreserve, UploadStep, vars
  <2>2. RoundOf(v) = r /\ u = v
    BY <1>t, <1>2, <2>1 DEF MarkReceived, TypeOK
  <2>3. Holding(v)
    BY <2>1 DEF MarkReceived, UploadStep, Holding
  <2>4. upload'[v] = "done"
    BY <1>t, <2>1 DEF MarkReceived, UploadStep, TypeOK
  <2> QED BY <2>2, <2>3, <2>4, HoldingStable
<1> QED BY <1>1, <1>2

(* A slot cannot be added to a round that has them all: it would hold the
   token of an uploaded peer.                                              *)
LEMMA NothingMore ==
  ASSUME CInv, NEW r \in Round, fin[r] = "aggregate", NEW u \in Upload, RoundOf(u) = r
  PROVE  ~MarkReceived(u)
<1> SUFFICES ASSUME MarkReceived(u) PROVE FALSE
  OBVIOUS
<1>1. WholeRound(r, staged[r]) /\ staged[r] \in SUBSET Upload
  BY DEF CInv, ClaimInv, TypeOK
<1>2. upload[u] = "stored" /\ u \notin staged[r]
  BY DEF MarkReceived, UploadStep, CInv, StagedInv
<1>3. \A v \in staged[r] \cup {u} : Holding(v) /\ RoundOf(v) = r
  BY <1>1, <1>2 DEF WholeRound, Holding
<1>4. Cardinality(staged[r] \cup {u}) <= Cardinality(peers[r]) /\ IsFiniteSet(peers[r])
  BY <1>1, <1>3, OwnersBound DEF WholeRound
<1>5. IsFiniteSet(staged[r])
  BY <1>1, FiniteAssumption, FS_Subset
<1>6. Cardinality(staged[r] \cup {u}) = Cardinality(staged[r]) + 1
  BY <1>2, <1>5, FS_AddElement
<1>7. Cardinality(staged[r]) = Cardinality(peers[r])
  BY <1>1 DEF WholeRound
<1> QED BY <1>4, <1>6, <1>7, FS_CardinalityType

LEMMA ClaimStep == CInv /\ [Next]_vars => ClaimInv'
<1> SUFFICES ASSUME CInv, [Next]_vars, NEW r \in Round, fin'[r] = "aggregate"
             PROVE  WholeRound(r, staged[r])'
  BY DEF ClaimInv
<1> USE DEF collectVars
<1>t. TypeOK
  BY DEF CInv
<1>1. CASE ClaimFinalize(r)
  <2>1. WholeRound(r, staged[r])
    BY <1>t, <1>1 DEF ClaimFinalize, Complete, WholeRound, CInv, StagedInv, TypeOK
  <2> QED BY <1>1, <2>1 DEF ClaimFinalize, memberVars, WholeRound, RoundOf
<1>2. CASE ~ClaimFinalize(r)
  <2>1. fin[r] = "aggregate"
    <3>1. ASSUME NEW x \in Round, ClaimFinalize(x) \/ Cleanup(x) PROVE fin[r] = "aggregate"
      BY <1>t, <1>2, <3>1 DEF ClaimFinalize, Cleanup, TypeOK
    <3>2. ASSUME NEW h \in Holder, StartFold(h) \/ CommitFold(h) \/ StartVoid(h) \/ AbortFold(h)
          PROVE  fin[r] = "aggregate"
      BY <1>t, <3>2 DEF StartFold, CommitFold, StartVoid, AbortFold, Move, TypeOK
    <3> QED
      BY <3>1, <3>2, RegistrationFrame, ContributionFrame, BootstrapFrame
      DEF Next, Finalization, Folding, vars
  <2>3. staged'[r] = staged[r]
    <3>1. ASSUME NEW u \in Upload, MarkReceived(u) PROVE staged'[r] = staged[r]
      <4>1. RoundOf(u) # r
        BY <2>1, <3>1, NothingMore
      <4> QED BY <1>t, <3>1, <4>1 DEF MarkReceived, TypeOK
    <3> QED
      BY <3>1, RegistrationFrame, FinalizationFrame, BootstrapFrame
      DEF Next, Contribution, ReserveSlot, MixedLayout, OpenWriter, OpenWriterFails, CommitWriter,
          StreamFails, AbortFails, Unreserve, UploadStep, vars
  <2>4. WholeRound(r, staged[r])
    BY <2>1 DEF CInv, ClaimInv
  <2>5. r \in sealed' /\ layout'[r] \in Stamp /\ peers'[r] = peers[r]
    BY <2>4, FrozenStep, LayoutStable DEF WholeRound
  <2>6. \A u \in staged[r] : upload'[u] = "done" /\ RoundOf(u)' = r
    BY <1>t, <2>4, DoneStable DEF WholeRound, TypeOK
  <2> QED BY <2>3, <2>4, <2>5, <2>6 DEF WholeRound
<1> QED BY <1>1, <1>2

-----------------------------------------------------------------------------
(* Bootstrap calls, the lock and the fold. *)
LEMMA BootsStep == CInv /\ [Next]_vars => BootsInv'
<1> SUFFICES ASSUME CInv, [Next]_vars, NEW d \in Bootstrap, boot'[d] # "idle"
             PROVE  bootStamp'[d] \in Stamp
  BY DEF BootsInv
<1> USE DEF bootVars
<1>t. TypeOK /\ BootsInv
  BY DEF CInv
<1>1. ASSUME NEW x \in Bootstrap, NEW s \in Stamps, DpCheck(x, s) PROVE bootStamp'[d] \in Stamp
  <2>1. s \in Stamp
    BY <1>t DEF Stamps, Stamp, TypeOK, FactorState
  <2> QED BY <1>t, <1>1, <2>1 DEF DpCheck, BootsInv, TypeOK
<1>2. ASSUME NEW x \in Bootstrap, DpStage(x) \/ DpStageFails(x) \/ DpCleanup(x)
      PROVE  bootStamp'[d] \in Stamp
  BY <1>t, <1>2 DEF DpStage, DpStageFails, DpCleanup, BootsInv, TypeOK
<1>3. ASSUME NEW h \in Holder, StartFold(h) \/ CommitFold(h) \/ StartVoid(h) \/ AbortFold(h)
      PROVE  bootStamp'[d] \in Stamp
  <2>1. boot[d] # "idle"
    BY <1>t, <1>3 DEF StartFold, CommitFold, StartVoid, AbortFold, Move, PhaseOf, Holder, TypeOK
  <2> QED BY <1>t, <1>3, <2>1 DEF StartFold, CommitFold, StartVoid, AbortFold, Move, BootsInv
<1>4. CASE UNCHANGED bootVars
  BY <1>t, <1>4 DEF BootsInv
<1> QED
  BY <1>1, <1>2, <1>3, <1>4, RegistrationFrame, ContributionFrame
  DEF Next, Finalization, Folding, ClaimFinalize, Cleanup, BootstrapCall, BootStamps, vars

LEMMA StampStable ==
  ASSUME CInv, [Next]_vars, NEW h \in Holder, StampOf(h) \in Stamp, PhaseOf(h) # "idle"
  PROVE  StampOf(h)' = StampOf(h)
<1>t. TypeOK
  BY DEF CInv
<1>1. CASE h \in Round
  BY <1>1, LayoutStable DEF StampOf
<1>2. CASE h \notin Round
  <2>1. h \in Bootstrap /\ boot[h] # "idle"
    BY <1>2 DEF Holder, PhaseOf
  <2>2. ASSUME NEW x \in Bootstrap, NEW s \in Stamps, DpCheck(x, s)
        PROVE  bootStamp'[h] = bootStamp[h]
    BY <1>t, <2>1, <2>2 DEF DpCheck, TypeOK
  <2>3. bootStamp'[h] = bootStamp[h]
    BY <2>2, RegistrationFrame, ContributionFrame, FinalizationFrame
    DEF Next, BootstrapCall, BootStamps, DpStage, DpStageFails, DpCleanup, vars, bootVars
  <2> QED BY <1>2, <2>3 DEF StampOf
<1> QED BY <1>1, <1>2

(* While a fold runs, or a cohort cleans up, nobody else takes or leaves the
   model's lock.                                                           *)
LEMMA LockExclusive ==
  ASSUME CInv, NEW h \in Holder,
         PhaseOf(h) = "folding" \/ (h \in Round /\ PhaseOf(h) \in {"folded", "voided"}),
         NEW g \in Holder, g # h
  PROVE  /\ ~StartFold(g) /\ ~StartVoid(g) /\ ~CommitFold(g) /\ ~AbortFold(g)
         /\ g \in Round => ~Cleanup(g)
<1>1. lock = h /\ lock # None
  BY DisjointAssumption DEF CInv, FoldInv, Captured, Holder
<1>2. ~StartFold(g) /\ ~StartVoid(g)
  BY <1>1 DEF StartFold, StartVoid, LockFree
<1>3. ~CommitFold(g) /\ ~AbortFold(g)
  BY <1>1 DEF CommitFold, AbortFold, CInv, FoldInv, Captured
<1>4. g \in Round => ~Cleanup(g)
  BY <1>1 DEF Cleanup, PhaseOf, CInv, FoldInv
<1> QED BY <1>2, <1>3, <1>4

(* The phases a holder of the lock moves through, seen from a later phase. *)
LEMMA PhaseStep ==
  ASSUME CInv, [Next]_vars, NEW h \in Holder
  PROVE  /\ PhaseOf(h)' = "folding" => StartFold(h) \/ PhaseOf(h) = "folding"
         /\ PhaseOf(h)' = "folded" => CommitFold(h) \/ PhaseOf(h) = "folded"
         /\ PhaseOf(h)' = "voided" => StartVoid(h) \/ AbortFold(h) \/ PhaseOf(h) = "voided"
         /\ PhaseOf(h) \in Past => PhaseOf(h)' \in Past
<1> USE DEF PhaseOf, Holder, bootVars, Past
<1>t. TypeOK
  BY DEF CInv
<1>1. ASSUME NEW r \in Round, ClaimFinalize(r) \/ Cleanup(r)
      PROVE  /\ PhaseOf(h)' = PhaseOf(h) \/ PhaseOf(h)' \in {"aggregate", "void", "done", "unswept"}
             /\ PhaseOf(h) \in Past => PhaseOf(h)' \in Past
  BY <1>t, <1>1, DisjointAssumption DEF ClaimFinalize, Unclaimed, Cleanup, TypeOK
<1>2. ASSUME NEW g \in Holder, g # h,
             StartFold(g) \/ CommitFold(g) \/ StartVoid(g) \/ AbortFold(g)
      PROVE  PhaseOf(h)' = PhaseOf(h)
  BY <1>t, <1>2 DEF StartFold, CommitFold, StartVoid, AbortFold, Move, TypeOK
<1>3. CASE StartFold(h) \/ CommitFold(h) \/ StartVoid(h) \/ AbortFold(h)
  <2>1. StartFold(h) => PhaseOf(h)' = "folding" /\ PhaseOf(h) = "aggregate"
    BY <1>t DEF StartFold, Move, TypeOK
  <2>2. CommitFold(h) => PhaseOf(h)' = "folded" /\ PhaseOf(h) = "folding"
    BY <1>t DEF CommitFold, Move, TypeOK
  <2>3. StartVoid(h) => PhaseOf(h)' = "voided" /\ PhaseOf(h) \in {"aggregate", "void"}
    BY <1>t DEF StartVoid, Move, TypeOK
  <2>4. AbortFold(h) => PhaseOf(h)' = "voided" /\ PhaseOf(h) = "folding"
    BY <1>t DEF AbortFold, Move, TypeOK
  <2> HIDE DEF PhaseOf
  <2> QED BY <1>3, <2>1, <2>2, <2>3, <2>4
<1>4. ASSUME NEW d \in Bootstrap,
             \/ \E s \in Stamps : DpCheck(d, s)
             \/ DpStage(d) \/ DpStageFails(d) \/ DpCleanup(d)
      PROVE  /\ PhaseOf(h)' = PhaseOf(h) \/ PhaseOf(h)' \in {"checked", "aggregate", "done"}
             /\ PhaseOf(h) \in Past => PhaseOf(h)' \in Past
  BY <1>t, <1>4, DisjointAssumption DEF DpCheck, DpStage, DpStageFails, DpCleanup, TypeOK
<1>5. CASE UNCHANGED <<fin, boot>>
  BY <1>5
<1> HIDE DEF PhaseOf
<1>6. CASE Finalization
  BY <1>1, <1>2, <1>3, <1>6 DEF Finalization, Folding
<1>7. CASE BootstrapCall
  BY <1>4, <1>7 DEF BootstrapCall, BootStamps
<1> QED
  BY <1>5, <1>6, <1>7, RegistrationFrame, ContributionFrame DEF Next, vars

(* Only a fold's commit changes the global. *)
LEMMA OnlyCommit ==
  ASSUME [Next]_vars, \A h \in Holder : ~CommitFold(h)
  PROVE  UNCHANGED <<state, log>>
  BY RegistrationFrame, ContributionFrame, BootstrapFrame
  DEF Next, Finalization, Folding, ClaimFinalize, Cleanup, StartFold, StartVoid, AbortFold,
      globalVars, vars

LEMMA StartCaptures ==
  ASSUME CInv, [Next]_vars, NEW h \in Holder, StartFold(h)
  PROVE  Captured(h)'
<1> USE DEF globalVars, collectVars
<1>t. TypeOK
  BY DEF CInv
<1>1. PhaseOf(h) = "aggregate" /\ PhaseOf(h) # "idle"
  BY DEF StartFold
<1>2. StampOf(h) \in Stamp
  <2>1. CASE h \in Round
    BY <1>1, <2>1 DEF PhaseOf, StampOf, CInv, ClaimInv, WholeRound
  <2>2. CASE h \notin Round
    BY <1>1, <2>2 DEF PhaseOf, StampOf, Holder, CInv, BootsInv
  <2> QED BY <2>1, <2>2
<1>3. StampOf(h)' = StampOf(h)
  BY <1>1, <1>2, StampStable
<1>4. /\ lock' = h /\ state' = state /\ log' = log
      /\ fold'[h] = [st |-> state, old |-> log, slots |-> SlotsOf(h)]
  BY <1>t DEF StartFold, TypeOK
<1>5. SlotsOf(h) \in SUBSET Upload
  BY <1>t DEF SlotsOf, TypeOK
<1>6. fold'[h] \in FoldRec
  BY <1>t, <1>4, <1>5 DEF FoldRec, TypeOK
<1>7. ASSUME h \in Round PROVE WholeRound(h, fold[h].slots)'
  <2>1. WholeRound(h, SlotsOf(h))
    BY <1>1, <1>7 DEF PhaseOf, SlotsOf, CInv, ClaimInv
  <2>2. fold'[h].slots = SlotsOf(h)
    BY <1>4
  <2>3. UNCHANGED <<sealed, peers, joined, layout, upload, token>>
    BY DEF StartFold, memberVars
  <2> QED BY <2>1, <2>2, <2>3 DEF WholeRound, RoundOf
<1>8. h \in Bootstrap => fold'[h].slots = {}
  BY <1>4, DisjointAssumption DEF SlotsOf
<1> QED BY <1>2, <1>3, <1>4, <1>6, <1>7, <1>8 DEF Captured

(* While h goes on folding, no other step of a fold or a cohort's cleanup
   happens: the lock, the captured values and the global stay.             *)
LEMMA FoldUndisturbed ==
  ASSUME CInv, [Next]_vars, NEW h \in Holder, PhaseOf(h) = "folding", PhaseOf(h)' = "folding"
  PROVE  UNCHANGED <<lock, fold, state, log>> /\ StampOf(h)' = StampOf(h)
<1> USE DEF globalVars
<1>t. TypeOK /\ Captured(h)
  BY DEF CInv, FoldInv
<1>1. PhaseOf(h)' # "folded" /\ PhaseOf(h)' # "voided" /\ PhaseOf(h)' # "done"
  OBVIOUS
<1>2. ~StartFold(h) /\ ~StartVoid(h)
  BY DEF StartFold, StartVoid
<1>3. ~CommitFold(h) /\ ~AbortFold(h)
  BY <1>t, <1>1 DEF CommitFold, AbortFold, Move, PhaseOf, Holder, TypeOK
<1>4. \A r \in Round : ~Cleanup(r)
  <2>1. \A r \in Round : r # h => ~Cleanup(r)
    BY LockExclusive DEF Holder
  <2>2. h \in Round => ~Cleanup(h)
    BY DEF Cleanup, PhaseOf
  <2> QED BY <2>1, <2>2
<1>5. \A g \in Holder : ~StartFold(g) /\ ~StartVoid(g) /\ ~CommitFold(g) /\ ~AbortFold(g)
  BY <1>2, <1>3, LockExclusive
<1>6. UNCHANGED <<lock, fold, state, log>>
  BY <1>4, <1>5, RegistrationFrame, ContributionFrame, BootstrapFrame
  DEF Next, Finalization, Folding, ClaimFinalize, vars
<1>7. StampOf(h)' = StampOf(h)
  BY <1>t, StampStable DEF Captured
<1> QED BY <1>6, <1>7

LEMMA CapturedStable ==
  ASSUME CInv, [Next]_vars, NEW h \in Holder, PhaseOf(h) = "folding", PhaseOf(h)' = "folding"
  PROVE  Captured(h)'
<1>t. Captured(h)
  BY DEF CInv, FoldInv
<1>1. UNCHANGED <<lock, fold, log>> /\ StampOf(h)' = StampOf(h)
  BY FoldUndisturbed
<1>2. ASSUME h \in Round PROVE WholeRound(h, fold[h].slots)'
  <2>1. fold[h].slots \in SUBSET Upload /\ WholeRound(h, fold[h].slots)
    BY <1>t, <1>2 DEF Captured, FoldRec
  <2>2. h \in sealed' /\ layout'[h] \in Stamp /\ peers'[h] = peers[h]
    BY <1>2, <2>1, FrozenStep, LayoutStable DEF WholeRound
  <2>3. \A u \in fold[h].slots : upload'[u] = "done" /\ RoundOf(u)' = h
    BY <2>1, DoneStable DEF WholeRound
  <2> QED BY <1>1, <2>1, <2>2, <2>3 DEF WholeRound
<1> QED BY <1>t, <1>1, <1>2 DEF Captured

LEMMA FoldStep == CInv /\ [Next]_vars => FoldInv'
<1> SUFFICES ASSUME CInv, [Next]_vars, NEW h \in Holder
             PROVE  /\ PhaseOf(h)' = "folding" => Captured(h)'
                    /\ h \in Round /\ PhaseOf(h)' \in {"folded", "voided"} => lock' = h
  BY DEF FoldInv
<1>t. TypeOK
  BY DEF CInv
<1>1. PhaseOf(h)' = "folding" => Captured(h)'
  BY PhaseStep, StartCaptures, CapturedStable
<1>2. ASSUME h \in Round, PhaseOf(h)' \in {"folded", "voided"} PROVE lock' = h
  <2>1. CASE CommitFold(h) \/ StartVoid(h) \/ AbortFold(h)
    BY <1>2, <2>1 DEF CommitFold, StartVoid, AbortFold, LockAfter
  <2>2. CASE ~(CommitFold(h) \/ StartVoid(h) \/ AbortFold(h))
    <3>1. PhaseOf(h) \in {"folded", "voided"}
      BY <1>2, <2>2, PhaseStep
    <3>2. lock = h /\ ~StartFold(h)
      BY <1>2, <3>1 DEF CInv, FoldInv, StartFold
    <3>3. ~Cleanup(h)
      BY <1>t, <1>2 DEF Cleanup, PhaseOf, TypeOK
    <3>4. /\ \A g \in Holder : ~StartFold(g) /\ ~StartVoid(g) /\ ~CommitFold(g) /\ ~AbortFold(g)
          /\ \A r \in Round : ~Cleanup(r)
      BY <1>2, <2>2, <3>1, <3>2, <3>3, LockExclusive DEF Holder
    <3>5. lock' = lock
      BY <3>4, RegistrationFrame, ContributionFrame, BootstrapFrame
      DEF Next, Finalization, Folding, ClaimFinalize, vars
    <3> QED BY <3>2, <3>5
  <2> QED BY <2>1, <2>2
<1> QED BY <1>1, <1>2

-----------------------------------------------------------------------------
(* The stored global. *)

(* A commit appends one entry to the log that is there. *)
LEMMA CommitAppends ==
  ASSUME CInv, NEW h \in Holder, CommitFold(h)
  PROVE  LET e == [by |-> h, stamp |-> StampOf(h), slots |-> fold[h].slots]
         IN  /\ log' = Append(log, e)
             /\ log \in Seq(Entry)
             /\ Len(log') = Len(log) + 1
             /\ \A i \in 1..Len(log) : log'[i] = log[i]
             /\ log'[Len(log) + 1] = e
             /\ Captured(h)
<1>1. Captured(h) /\ log \in Seq(Entry)
  BY DEF CommitFold, CInv, FoldInv, TypeOK
<1>2. log' = Append(log, [by |-> h, stamp |-> StampOf(h), slots |-> fold[h].slots])
  BY <1>1 DEF CommitFold, Captured
<1> QED BY <1>1, <1>2

LEMMA LogKept ==
  ASSUME CInv, [Next]_vars
  PROVE  Len(log') >= Len(log) /\ \A i \in 1..Len(log) : log'[i] = log[i]
<1>1. Len(log) \in Nat
  BY DEF CInv, TypeOK
<1>2. ASSUME NEW h \in Holder, CommitFold(h)
      PROVE  Len(log') >= Len(log) /\ \A i \in 1..Len(log) : log'[i] = log[i]
  <2>1. Len(log') = Len(log) + 1 /\ \A i \in 1..Len(log) : log'[i] = log[i]
    BY <1>2, CommitAppends
  <2> QED BY <1>1, <2>1
<1>3. CASE \A h \in Holder : ~CommitFold(h)
  BY <1>1, <1>3, OnlyCommit
<1> QED BY <1>2, <1>3

LEMMA EntryStable ==
  ASSUME CInv, [Next]_vars
  PROVE  \A e \in Entry : EntryInv(e) => EntryInv(e)'
<1> SUFFICES ASSUME NEW e \in Entry, EntryInv(e) PROVE EntryInv(e)'
  OBVIOUS
<1>1. PhaseOf(e.by)' \in Past
  BY PhaseStep DEF Entry, EntryInv
<1>2. ASSUME e.by \in Round PROVE WholeRound(e.by, e.slots)' /\ e.stamp = layout'[e.by]
  BY <1>2, WholeStable, LayoutStable DEF Entry, EntryInv, WholeRound
<1> QED BY <1>1, <1>2 DEF EntryInv

LEMMA LogStep == CInv /\ [Next]_vars => LogInv'
<1> SUFFICES ASSUME CInv, [Next]_vars PROVE LogInv'
  OBVIOUS
<1>t. TypeOK /\ LogInv
  BY DEF CInv
<1>1. \A i \in 1..Len(log) : log[i] \in Entry /\ EntryInv(log[i])
  BY <1>t DEF LogInv, TypeOK
<1>2. ASSUME NEW i \in 1..Len(log), log'[i] = log[i] PROVE EntryInv(log[i])'
  BY <1>1, <1>2, EntryStable DEF EntryInv, PhaseOf, WholeRound, RoundOf
<1>3. ASSUME NEW h \in Holder, CommitFold(h) PROVE LogInv'
  <2> DEFINE e == [by |-> h, stamp |-> StampOf(h), slots |-> fold[h].slots]
  <2>1. /\ Len(log') = Len(log) + 1 /\ Len(log) \in Nat
        /\ \A i \in 1..Len(log) : log'[i] = log[i]
        /\ log'[Len(log) + 1] = e
        /\ Captured(h)
    BY <1>3, CommitAppends
  <2>2. PhaseOf(h) = "folding" /\ PhaseOf(h)' = "folded"
    BY <1>t, <1>3 DEF CommitFold, Move, PhaseOf, Holder, TypeOK
  <2>3. e \in Entry
    BY <2>1 DEF Captured, Entry, FoldRec
  <2>6. \A i \in 1..Len(log) : log[i].by # h
    BY <1>1, <2>2 DEF EntryInv, Past
  <2>7. ASSUME NEW x \in Entry, x = e PROVE EntryInv(x)'
    <3>1. PhaseOf(x.by)' \in Past
      BY <2>2, <2>7 DEF Past
    <3>2. ASSUME h \in Round PROVE WholeRound(h, x.slots) /\ x.stamp = layout[h]
      BY <2>1, <2>7, <3>2 DEF Captured, StampOf
    <3>3. ASSUME h \in Round PROVE WholeRound(h, x.slots)' /\ x.stamp = layout'[h]
      BY <3>2, <3>3, WholeStable, LayoutStable DEF Entry, WholeRound
    <3>4. h \in Bootstrap => x.slots = {}
      BY <2>1, <2>7 DEF Captured
    <3> QED BY <2>7, <3>1, <3>3, <3>4 DEF EntryInv
  <2>8. EntryInv(log[Len(log)])'
    <3>1. log'[Len(log')] = e
      BY <2>1
    <3> HIDE DEF e
    <3> QED BY <2>3, <2>7, <3>1 DEF EntryInv, PhaseOf, WholeRound, RoundOf
  <2>9. \A i \in 1..Len(log') : EntryInv(log[i])'
    <3> SUFFICES ASSUME NEW i \in 1..Len(log') PROVE EntryInv(log[i])'
      OBVIOUS
    <3>1. CASE i \in 1..Len(log)
      BY <1>2, <2>1, <3>1
    <3>2. CASE i = Len(log')
      BY <2>8, <3>2
    <3> QED BY <2>1, <3>1, <3>2
  <2>11. FoldOnce'
    BY <1>t, <2>1, <2>6 DEF LogInv, FoldOnce
  <2> QED BY <2>9, <2>11 DEF LogInv
<1>4. CASE \A h \in Holder : ~CommitFold(h)
  <2>1. UNCHANGED log
    BY <1>4, OnlyCommit
  <2>2. \A i \in 1..Len(log') : EntryInv(log[i])'
    BY <1>2, <2>1
  <2> QED BY <1>t, <2>1, <2>2 DEF LogInv, FoldOnce
<1> QED BY <1>3, <1>4

LEMMA ObjectsStep == CInv /\ [Next]_vars => ObjectsInv'
<1> SUFFICES ASSUME CInv, [Next]_vars, NEW u \in Upload,
                    \/ upload'[u] \in {"stored", "done"}
                    \/ Backend = "fs" /\ upload'[u] = "streaming",
                    fin'[RoundOf(u)'] \notin Ended
             PROVE  u \in objects'
  BY DEF ObjectsInv
<1> USE DEF collectVars
<1>t. TypeOK
  BY DEF CInv
<1>1. Holding(u) /\ RoundOf(u) \in Round /\ RoundOf(u)' = RoundOf(u)
  <2>1. Holding(u)'
    BY DEF Holding
  <2>2. ~\E q \in Req, s \in Stamps : ReserveSlot(u, q, s)
    BY <1>t DEF ReserveSlot, TypeOK
  <2> QED BY <2>1, <2>2, HoldingFrom, HoldingRound, HoldingStable
<1>2. fin[RoundOf(u)] \notin Ended
  <2>1. ASSUME NEW r \in Round, fin[r] \in Ended PROVE fin'[r] = fin[r]
    <3>1. ASSUME NEW x \in Round, ClaimFinalize(x) \/ Cleanup(x) PROVE fin'[r] = fin[r]
      BY <1>t, <2>1, <3>1 DEF ClaimFinalize, Unclaimed, Cleanup, TypeOK, Ended
    <3>2. ASSUME NEW h \in Holder, StartFold(h) \/ CommitFold(h) \/ StartVoid(h) \/ AbortFold(h)
          PROVE  fin'[r] = fin[r]
      BY <1>t, <2>1, <3>2
      DEF StartFold, CommitFold, StartVoid, AbortFold, Move, PhaseOf, TypeOK, Ended
    <3> QED
      BY <2>1, <3>1, <3>2, RegistrationFrame, ContributionFrame, BootstrapFrame
      DEF Next, Finalization, Folding, vars
  <2> QED BY <1>1, <2>1
<1>3. CASE /\ \/ upload[u] \in {"stored", "done"}
              \/ Backend = "fs" /\ upload[u] = "streaming"
           /\ u \in objects
  <2>1. ASSUME NEW r \in Round, Cleanup(r) PROVE u \in objects'
    <3>1. RoundOf(u) # r
      BY <1>t, <1>1, <2>1 DEF Cleanup, TypeOK, Ended
    <3> QED BY <1>3, <2>1, <3>1 DEF Cleanup, StagedUnder
  <2>2. ASSUME NEW d \in Bootstrap, DpCleanup(d) PROVE u \in objects'
    BY <1>3, <2>2, DisjointAssumption DEF DpCleanup
  <2>3. ASSUME NEW d \in Bootstrap, DpStage(d) PROVE u \in objects'
    BY <1>3, <2>3 DEF DpStage
  <2>4. ASSUME NEW v \in Upload, OpenWriter(v) \/ CommitWriter(v) PROVE u \in objects'
    BY <1>3, <2>4 DEF OpenWriter, CommitWriter
  <2>5. CASE UNCHANGED objects
    BY <1>3, <2>5
  <2>6. CASE Contribution
    BY <2>4, <2>5, <2>6
    DEF Contribution, ReserveSlot, MixedLayout, OpenWriterFails, StreamFails, AbortFails, Unreserve, MarkReceived
  <2>7. CASE Finalization
    BY <2>1, <2>5, <2>7
    DEF Finalization, Folding, ClaimFinalize, StartFold, CommitFold, StartVoid, AbortFold
  <2>8. CASE BootstrapCall
    <3>1. ASSUME NEW d \in Bootstrap, DpStageFails(d) PROVE u \in objects'
      BY <1>3, <3>1 DEF DpStageFails
    <3> QED BY <2>2, <2>3, <2>5, <2>8, <3>1 DEF BootstrapCall, BootStamps, DpCheck
  <2> QED
    BY <2>5, <2>6, <2>7, <2>8, RegistrationFrame DEF Next, vars
<1>4. CASE \/ upload[u] \in {"stored", "done"}
           \/ Backend = "fs" /\ upload[u] = "streaming"
  BY <1>2, <1>3, <1>4 DEF CInv, ObjectsInv
<1>5. CASE ~(\/ upload[u] \in {"stored", "done"}
             \/ Backend = "fs" /\ upload[u] = "streaming")
  <2>1. Contribution
    BY <1>5, RegistrationFrame, FinalizationFrame, BootstrapFrame DEF Next, vars
  <2>2. ASSUME NEW v \in Upload, NEW q \in Req, NEW s \in Stamps,
               ReserveSlot(v, q, s) \/ MixedLayout(v, q, s)
        PROVE  FALSE
    BY <1>t, <1>5, <2>2 DEF ReserveSlot, MixedLayout, TypeOK
  <2>3. ASSUME NEW v \in Upload, OpenWriterFails(v) \/ StreamFails(v) \/ AbortFails(v) \/ Unreserve(v)
        PROVE  FALSE
    BY <1>t, <1>5, <2>3 DEF OpenWriterFails, StreamFails, AbortFails, Unreserve, UploadStep, TypeOK
  <2>4. ASSUME NEW v \in Upload, MarkReceived(v) PROVE FALSE
    BY <1>t, <1>5, <2>4 DEF MarkReceived, UploadStep, TypeOK
  <2>5. ASSUME NEW v \in Upload, OpenWriter(v) PROVE u \in objects'
    BY <1>t, <1>5, <2>5 DEF OpenWriter, UploadStep, TypeOK
  <2>6. ASSUME NEW v \in Upload, CommitWriter(v) PROVE u \in objects'
    BY <1>t, <1>5, <2>6, BackendAssumption DEF CommitWriter, UploadStep, TypeOK
  <2> QED BY <2>1, <2>2, <2>3, <2>4, <2>5, <2>6 DEF Contribution
<1> QED BY <1>4, <1>5

-----------------------------------------------------------------------------
(* The factor state: what a running fold captured is what is cached. *)
LEMMA AdmitStep == IInv /\ [Next]_vars => AdmitInv'
<1> SUFFICES ASSUME IInv, [Next]_vars, NEW h \in Holder, PhaseOf(h)' = "folding"
             PROVE  Admitted(h)'
  BY DEF AdmitInv
<1>t. CInv /\ TypeOK /\ AdmitInv
  BY DEF IInv, CInv
<1>1. CASE StartFold(h)
  <2>1. /\ fold'[h].st = state /\ state' = state
        /\ FoldAdmits(state, StampOf(h))
    BY <1>t, <1>1 DEF StartFold, TypeOK
  <2>2. Captured(h)' /\ PhaseOf(h) = "aggregate"
    BY <1>t, <1>1, StartCaptures DEF StartFold
  <2>3. StampOf(h) \in Stamp
    <3>1. CASE h \in Round
      BY <1>t, <2>2, <3>1 DEF PhaseOf, StampOf, CInv, ClaimInv, WholeRound
    <3>2. CASE h \notin Round
      BY <1>t, <2>2, <3>2 DEF PhaseOf, StampOf, Holder, CInv, BootsInv
    <3> QED BY <3>1, <3>2
  <2>4. StampOf(h)' = StampOf(h)
    BY <1>t, <2>2, <2>3, StampStable
  <2> QED BY <2>1, <2>4 DEF Admitted, FoldAdmits
<1>2. CASE ~StartFold(h)
  <2>1. PhaseOf(h) = "folding"
    BY <1>t, <1>2, PhaseStep
  <2>2. UNCHANGED <<fold, state>> /\ StampOf(h)' = StampOf(h)
    BY <1>t, <2>1, FoldUndisturbed
  <2> QED BY <1>t, <2>1, <2>2 DEF AdmitInv, Admitted, FoldAdmits
<1> QED BY <1>1, <1>2

(* A commit moves the cached state on by its own fold. *)
LEMMA CommitAdmitted ==
  ASSUME IInv, NEW h \in Holder, CommitFold(h)
  PROVE  state' = AfterFold(state, StampOf(h)) /\ FoldAdmits(state, StampOf(h))
  BY DEF CommitFold, IInv, AdmitInv, Admitted

LEMMA BaseStep == IInv /\ [Next]_vars => BaseInv'
<1> SUFFICES ASSUME IInv, [Next]_vars PROVE BaseInv'
  OBVIOUS
<1>t. CInv /\ BaseInv
  BY DEF IInv
<1>1. ASSUME NEW h \in Holder, CommitFold(h) PROVE BaseInv'
  <2> DEFINE e == [by |-> h, stamp |-> StampOf(h), slots |-> fold[h].slots]
  <2>1. /\ Len(log') = Len(log) + 1 /\ Len(log) \in Nat /\ log \in Seq(Entry)
        /\ \A i \in 1..Len(log) : log'[i] = log[i]
        /\ log'[Len(log) + 1] = e
    BY <1>t, <1>1, CommitAppends
  <2>2. e.stamp = StampOf(h)
    OBVIOUS
  <2> HIDE DEF e
  <2>3. state'.compat = StampOf(h).compat
    BY <1>1, CommitAdmitted DEF AfterFold
  <2>4. \A i \in 1..Len(log) : log[i].stamp.compat = state'.compat
    <3>1. \A i \in 1..Len(log) : log[i].stamp.compat = state.compat /\ state.compat # None
      <4> SUFFICES ASSUME NEW i \in 1..Len(log)
                   PROVE  log[i].stamp.compat = state.compat /\ state.compat # None
        OBVIOUS
      <4>1. log[i] \in Entry
        BY <2>1
      <4>2. log[i].stamp.compat \in Compat
        BY <4>1 DEF Entry, Stamp
      <4> QED BY <1>t, <4>2, DisjointAssumption DEF BaseInv
    <3>2. state.compat # None => StampOf(h).compat = state.compat
      BY <1>1, CommitAdmitted DEF FoldAdmits
    <3> QED BY <2>3, <3>1, <3>2
  <2> QED BY <2>1, <2>2, <2>3, <2>4 DEF BaseInv
<1>2. CASE \A h \in Holder : ~CommitFold(h)
  BY <1>t, <1>2, OnlyCommit DEF BaseInv
<1> QED BY <1>1, <1>2

LEMMA ClockStep == IInv /\ [Next]_vars => ClockInv'
<1> SUFFICES ASSUME IInv, [Next]_vars PROVE ClockInv'
  OBVIOUS
<1>t. ClockInv /\ state.epoch \in Nat /\ state.folds \in Nat /\ EpochFolds \in Nat \ {0}
  BY EpochAssumption DEF IInv, CInv, TypeOK, FactorState
<1>1. ASSUME NEW h \in Holder, CommitFold(h) PROVE ClockInv'
  <2> DEFINE n == Len(log) + 1
  <2>0. log'[n] = [by |-> h, stamp |-> StampOf(h), slots |-> fold[h].slots]
    BY <1>1, CommitAppends DEF IInv
  <2>1. /\ Len(log') = n /\ Len(log) \in Nat
        /\ \A i \in 1..Len(log) : log'[i] = log[i]
        /\ log'[n].stamp = StampOf(h)
        /\ state' = AfterFold(state, StampOf(h))
    BY <1>1, <2>0, CommitAppends, CommitAdmitted DEF IInv
  <2>2. StampOf(h).epoch = state.epoch
    BY <1>1, CommitAdmitted DEF FoldAdmits
  <2>3. n = state.epoch * EpochFolds + (state.folds + 1) /\ state.folds + 1 <= EpochFolds
    BY <1>t, <2>1 DEF ClockInv
  <2>4. (state.epoch + 1) * EpochFolds = state.epoch * EpochFolds + EpochFolds
    BY <1>t
  <2>5. n = state'.epoch * EpochFolds + state'.folds /\ state'.folds < EpochFolds
    <3>1. CASE state.folds + 1 >= EpochFolds
      <4>1. state'.epoch = state.epoch + 1 /\ state'.folds = 0
        BY <2>1, <3>1 DEF AfterFold
      <4>2. state.folds + 1 = EpochFolds
        BY <1>t, <2>3, <3>1
      <4> QED BY <1>t, <2>3, <2>4, <4>1, <4>2
    <3>2. CASE ~(state.folds + 1 >= EpochFolds)
      <4>1. state'.epoch = state.epoch /\ state'.folds = state.folds + 1
        BY <2>1, <3>2 DEF AfterFold
      <4> QED BY <1>t, <2>3, <3>2, <4>1
    <3> QED BY <3>1, <3>2
  <2>6. /\ state.epoch * EpochFolds < n
        /\ n <= state.epoch * EpochFolds + EpochFolds
    <3>1. state.epoch * EpochFolds \in Nat
      BY <1>t
    <3> QED BY <1>t, <2>3, <3>1
  <2> HIDE DEF n
  <2>7. FoldedInItsEpoch'
    <3> SUFFICES ASSUME NEW i \in 1..Len(log')
                 PROVE  /\ log'[i].stamp.epoch * EpochFolds < i
                        /\ i <= log'[i].stamp.epoch * EpochFolds + EpochFolds
      BY DEF FoldedInItsEpoch
    <3>1. CASE i = n
      BY <2>1, <2>2, <2>6, <3>1
    <3>2. CASE i # n
      <4>1. i \in 1..Len(log)
        BY <2>1, <3>2 DEF n
      <4>2. log'[i] = log[i]
        BY <2>1, <4>1
      <4> QED BY <1>t, <4>1, <4>2 DEF ClockInv, FoldedInItsEpoch
    <3> QED BY <3>1, <3>2
  <2> QED BY <2>1, <2>5, <2>7 DEF ClockInv
<1>2. CASE \A h \in Holder : ~CommitFold(h)
  <2>1. UNCHANGED <<state, log>>
    BY <1>2, OnlyCommit
  <2> QED BY <1>t, <2>1 DEF ClockInv, FoldedInItsEpoch
<1> QED BY <1>1, <1>2

-----------------------------------------------------------------------------
(* The invariant holds at the start and is kept. *)
LEMMA InitInv == Init => IInv
<1> SUFFICES ASSUME Init PROVE IInv
  OBVIOUS
<1> USE DEF Init
<1>1. TypeOK
  <2>1. state \in FactorState /\ log \in Seq(Entry) /\ meta = state /\ start = state
    BY DEF FactorState
  <2>2. /\ registrants \in [Round -> SUBSET Req] /\ peers \in [Round -> SUBSET Key]
        /\ spent \in [Round -> SUBSET Req] /\ staged \in [Round -> SUBSET Upload]
        /\ inflight \in [Round -> Int] /\ layout \in [Round -> Stamp \cup {None}]
    OBVIOUS
  <2> QED BY <2>1, <2>2 DEF TypeOK, CallPhase, UploadPhase, BootPhase, RoundPhase
<1>2. CallsInv /\ RegistrantsInv
  BY DEF CallsInv, RegistrantsInv
<1>3. SealInv
  BY DEF SealInv
<1>4. HoldingInv /\ TokenInv /\ StagedInv /\ ObjectsInv
  BY DEF HoldingInv, TokenInv, StagedInv, ObjectsInv, Holding
<1>5. ClaimInv /\ BootsInv
  BY DEF ClaimInv, BootsInv
<1>6. \A h \in Holder : PhaseOf(h) \in {"none", "idle"}
  BY DEF PhaseOf, Holder
<1>7. FoldInv
  BY <1>6 DEF FoldInv
<1>8. Len(log) = 0 /\ 1..Len(log) = {}
  OBVIOUS
<1>9. LogInv
  BY <1>8 DEF LogInv, FoldOnce
<1>10. CInv
  BY <1>1, <1>2, <1>3, <1>4, <1>5, <1>7, <1>9 DEF CInv
<1>11. AdmitInv /\ BaseInv
  BY <1>6, <1>8 DEF AdmitInv, BaseInv
<1>12. ClockInv
  BY <1>8, EpochAssumption DEF ClockInv, FoldedInItsEpoch
<1> QED BY <1>10, <1>11, <1>12 DEF IInv

LEMMA CohortStep == CInv /\ [Next]_vars => CInv'
<1> SUFFICES ASSUME CInv, [Next]_vars PROVE CInv'
  OBVIOUS
<1>1. TypeOK' /\ CallsInv' /\ RegistrantsInv' /\ SealInv'
  BY TypeStep, CallsStep, RegistrantsStep, SealStep
<1>2. HoldingInv' /\ TokenInv' /\ StagedInv' /\ ObjectsInv'
  BY HoldingStep, TokenStep, StagedStep, ObjectsStep
<1>3. ClaimInv' /\ BootsInv' /\ FoldInv' /\ LogInv'
  BY ClaimStep, BootsStep, FoldStep, LogStep
<1> QED BY <1>1, <1>2, <1>3 DEF CInv

LEMMA StepInv == IInv /\ [Next]_vars => IInv'
  BY CohortStep, AdmitStep, BaseStep, ClockStep DEF IInv

(* Invariance: the inductive invariant holds in every reachable state of the
   rounds of app.py and aggregate.py, with any number of clients.          *)
THEOREM Invariance == CohortSpec => []IInv
  BY InitInv, StepInv, PTL DEF CohortSpec

-----------------------------------------------------------------------------
(* What follows from the invariant in a state. *)
LEMMA SealedEnough ==
  ASSUME CInv, NEW r \in sealed
  PROVE  Cardinality(peers[r]) >= KMin
<1> DEFINE regs == registrants[r]
<1>1. regs \in SUBSET Req /\ peers[r] = PeersOf(regs) /\ Cardinality(regs) >= KMin
  BY DEF CInv, TypeOK, SealInv
<1>2. \A p, q \in regs : KeyOf[p] = KeyOf[q] => p = q
  BY DEF CInv, TypeOK, RegistrantsInv
<1> DEFINE key == [q \in regs |-> KeyOf[q]]
<1>3. key \in Bijection(regs, peers[r])
  BY <1>1, <1>2 DEF PeersOf, Bijection, Injection, Surjection, IsInjective
<1>4. Cardinality(peers[r]) = Cardinality(regs)
  <2>1. ExistsBijection(regs, peers[r])
    BY <1>3 DEF ExistsBijection
  <2> QED BY <1>1, <2>1, RegistrantsFinite, FS_Bijection
<1> QED BY <1>1, <1>4

LEMMA WholeFromInv == CInv => WholeCohort
<1> SUFFICES ASSUME CInv, NEW i \in 1..Len(log), log[i].by \in Round
             PROVE  LET cohort == peers[log[i].by]
                    IN  /\ {KeyOf[token[u]] : u \in log[i].slots} = cohort
                        /\ Cardinality(log[i].slots) = Cardinality(cohort)
                        /\ Cardinality(cohort) >= KMin
  BY DEF WholeCohort
<1> DEFINE r == log[i].by
<1>1. WholeRound(r, log[i].slots) /\ log[i].slots \in SUBSET Upload
  <2>1. log[i] \in Entry /\ EntryInv(log[i])
    BY DEF CInv, LogInv, TypeOK
  <2> QED BY <2>1 DEF Entry, EntryInv
<1>2. \A u \in log[i].slots : Holding(u) /\ RoundOf(u) = r
  BY <1>1 DEF WholeRound, Holding
<1>3. {KeyOf[token[u]] : u \in log[i].slots} = peers[r]
  BY <1>1, <1>2, OwnersBound DEF WholeRound
<1>4. Cardinality(peers[r]) >= KMin
  BY <1>1, SealedEnough DEF WholeRound
<1> QED BY <1>1, <1>3, <1>4 DEF WholeRound

LEMMA AgreeFromInv == CInv => MembersAgree
<1> SUFFICES ASSUME CInv, NEW i \in 1..Len(log), NEW u \in log[i].slots
             PROVE  LET s == stamp[u]
                    IN  /\ s.epoch = log[i].stamp.epoch
                        /\ s.compat = log[i].stamp.compat
                        /\ LengthOf[s.spec] = LengthOf[log[i].stamp.spec]
  BY DEF MembersAgree
<1>1. log[i] \in Entry /\ EntryInv(log[i])
  BY DEF CInv, LogInv, TypeOK
<1>2. log[i].by \in Round
  BY <1>1 DEF Entry, Holder, EntryInv
<1>3. /\ upload[u] = "done" /\ RoundOf(u) = log[i].by /\ u \in Upload
      /\ log[i].stamp = layout[log[i].by]
  BY <1>1, <1>2 DEF EntryInv, WholeRound, Entry
<1>4. SameLayout(log[i].stamp, stamp[u])
  BY <1>3 DEF CInv, HoldingInv, Holding
<1> QED BY <1>4 DEF SameLayout

LEMMA OneFromInv == IInv => OneArchitecture
<1> SUFFICES ASSUME IInv, NEW i \in 1..Len(log)
             PROVE  log[i].stamp.compat = log[1].stamp.compat
  BY DEF OneArchitecture
<1>1. 1 \in 1..Len(log)
  BY DEF IInv, CInv, TypeOK
<1> QED BY <1>1 DEF IInv, BaseInv

LEMMA StagedFromInv == CInv => StagedUntilFolded
  BY DEF CInv, TypeOK, StagedInv, ObjectsInv, StagedUntilFolded, Ended

(* TypeCorrect: the state of the rounds keeps its types (Round, FactorState
   and the handlers' own variables).                                       *)
THEOREM TypeCorrect == CohortSpec => []TypeOK
<1>1. IInv => TypeOK
  BY DEF IInv, CInv
<1> QED BY <1>1, Invariance, PTL

(* CohortsAreWhole: the masks of every cohort ever folded cancel, for any
   cohort size and any interleaving of uploads, retries, failures and folds
   (claim_finalize).                                                       *)
THEOREM CohortsAreWhole == CohortSpec => []WholeCohort
<1>1. IInv => WholeCohort
  BY WholeFromInv DEF IInv
<1> QED BY <1>1, Invariance, PTL

(* SumsAgree: what _module_sum adds up is of one epoch, one architecture and
   one length.                                                             *)
THEOREM SumsAgree == CohortSpec => []MembersAgree
<1>1. IInv => MembersAgree
  BY AgreeFromInv DEF IInv
<1> QED BY <1>1, Invariance, PTL

(* EpochsAgree: no delta is folded in an epoch it was not trained in, for
   every EPOCH_FOLDS (_fold_streamed).                                     *)
THEOREM EpochsAgree == CohortSpec => []FoldedInItsEpoch
<1>1. IInv => FoldedInItsEpoch
  BY DEF IInv, ClockInv
<1> QED BY <1>1, Invariance, PTL

(* BaseFixed: the architecture of a model never changes after its first fold
   (_fold_streamed's second check of `compat`).                            *)
THEOREM BaseFixed == CohortSpec => []OneArchitecture
  BY Invariance, OneFromInv, PTL

(* FoldsAreUnique: no round and no bootstrap upload is folded twice
   (claim_finalize against _finalize_after).                               *)
THEOREM FoldsAreUnique == CohortSpec => []FoldOnce
<1>1. IInv => FoldOnce
  BY DEF IInv, CInv, LogInv
<1> QED BY <1>1, Invariance, PTL

(* StagedIsSafe: a fold finds every object it is going to read (run_finalize
   and stage_cleanup of the other rounds).                                 *)
THEOREM StagedIsSafe == CohortSpec => []StagedUntilFolded
<1>1. IInv => StagedUntilFolded
  BY StagedFromInv DEF IInv
<1> QED BY <1>1, Invariance, PTL

(* PeersAreFrozen: no step changes the membership of a sealed round
   (add_registrant, try_seal).                                             *)
THEOREM PeersAreFrozen == CohortSpec => FrozenAtSeal
<1> DEFINE Frozen == \A r \in sealed : /\ r \in sealed'
                                       /\ registrants'[r] = registrants[r]
                                       /\ peers'[r] = peers[r]
<1>1. IInv /\ [Next]_vars => [Frozen]_vars
  BY FrozenStep DEF IInv
<1> QED BY <1>1, Invariance, PTL DEF CohortSpec, FrozenAtSeal

(* FoldsAreKept: a fold's commit never drops an earlier one (the finalize
   lock held across _fold_streamed).                                       *)
THEOREM FoldsAreKept == CohortSpec => NoFoldLost
<1> DEFINE Kept == /\ Len(log') >= Len(log)
                   /\ \A i \in 1..Len(log) : log'[i] = log[i]
<1>1. IInv /\ [Next]_vars => [Kept]_vars
  BY LogKept DEF IInv
<1> QED BY <1>1, Invariance, PTL DEF CohortSpec, NoFoldLost

-----------------------------------------------------------------------------
(* Reservations: a token is spent as long as some upload holds it. *)

SpentInv == \A r \in Round : \A q \in spent[r] : \E u \in Upload : Holding(u) /\ token[u] = q

(* No call has left its reservation behind. *)
NoneStuck == \A u \in Upload : upload[u] # "error"

(* An upload that holds its token goes on holding it until it is unreserved. *)
LEMMA HoldingStays ==
  ASSUME CInv, [Next]_vars, NEW u \in Upload, Holding(u), ~Unreserve(u)
  PROVE  Holding(u)'
<1> USE DEF collectVars
<1>t. TypeOK
  BY DEF CInv
<1>1. ASSUME NEW v \in Upload, NEW q \in Req, NEW s \in Stamps,
             ReserveSlot(v, q, s) \/ MixedLayout(v, q, s)
      PROVE  Holding(u)'
  BY <1>t, <1>1 DEF ReserveSlot, MixedLayout, MayUpload, TypeOK, Holding
<1>2. ASSUME NEW v \in Upload, NEW from, NEW to, UploadStep(v, from, to), v # u
      PROVE  Holding(u)'
  BY <1>t, <1>2 DEF UploadStep, TypeOK, Holding
<1>3. CASE \/ OpenWriter(u) \/ OpenWriterFails(u) \/ CommitWriter(u)
           \/ StreamFails(u) \/ AbortFails(u) \/ MarkReceived(u)
  BY <1>t, <1>3
  DEF OpenWriter, OpenWriterFails, CommitWriter, StreamFails, AbortFails, MarkReceived, UploadStep,
      TypeOK, Holding
<1>4. CASE UNCHANGED upload
  BY <1>4 DEF Holding
<1>5. CASE Contribution
  <2>1. PICK v \in Upload :
            \/ \E q \in Req, s \in Stamps : ReserveSlot(v, q, s) \/ MixedLayout(v, q, s)
            \/ OpenWriter(v) \/ OpenWriterFails(v)
            \/ CommitWriter(v) \/ StreamFails(v) \/ AbortFails(v)
            \/ Unreserve(v) \/ MarkReceived(v)
    BY <1>5 DEF Contribution
  <2>2. CASE v = u
    BY <1>1, <1>3, <2>1, <2>2
  <2>3. CASE v # u
    BY <1>1, <1>2, <2>1, <2>3
    DEF OpenWriter, OpenWriterFails, CommitWriter, StreamFails, AbortFails, Unreserve, MarkReceived
  <2> QED BY <2>2, <2>3
<1> QED
  BY <1>4, <1>5, RegistrationFrame, FinalizationFrame, BootstrapFrame DEF Next, vars

LEMMA SpentStep == CInv /\ SpentInv /\ [Next]_vars => SpentInv'
<1> SUFFICES ASSUME CInv, SpentInv, [Next]_vars, NEW r \in Round, NEW q \in spent'[r]
             PROVE  \E u \in Upload : Holding(u)' /\ token'[u] = q
  BY DEF SpentInv
<1> USE DEF collectVars
<1>t. TypeOK
  BY DEF CInv
<1>1. CASE q \in spent[r]
  <2>1. PICK u \in Upload : Holding(u) /\ token[u] = q
    BY <1>1 DEF SpentInv
  <2>2. RoundOf(u) = r
    BY <1>1, <2>1 DEF RoundOf, CInv, SealInv, RegistrantsInv
  <2>3. ~Unreserve(u)
    BY <1>t, <2>1, <2>2 DEF Unreserve, TypeOK
  <2> QED BY <2>1, <2>3, HoldingStays, HoldingStable
<1>2. CASE q \notin spent[r]
  <2>0. ASSUME NEW u \in Upload, Unreserve(u) PROVE FALSE
    BY <1>t, <1>2, <2>0 DEF Unreserve, TypeOK
  <2>1. PICK u \in Upload, p \in Req, s \in Stamps : ReserveSlot(u, p, s)
    <3>1. CASE UNCHANGED spent
      BY <1>2, <3>1
    <3> QED
      BY <2>0, <3>1, RegistrationFrame, FinalizationFrame, BootstrapFrame
      DEF Next, Contribution, MixedLayout, OpenWriter, OpenWriterFails, CommitWriter, StreamFails, AbortFails,
          MarkReceived, UploadStep, vars
  <2>2. q = p
    BY <1>t, <1>2, <2>1 DEF ReserveSlot, TypeOK
  <2> QED BY <1>t, <2>1, <2>2 DEF ReserveSlot, Holding, TypeOK
<1> QED BY <1>1, <1>2

LEMMA NoneStuckStep ==
  ASSUME "open" \notin Faults, "abort" \notin Faults
  PROVE  CInv /\ NoneStuck /\ [Next]_vars => NoneStuck'
<1> SUFFICES ASSUME CInv, NoneStuck, [Next]_vars, NEW u \in Upload, upload'[u] = "error"
             PROVE  FALSE
  BY DEF NoneStuck
<1> USE DEF collectVars
<1>t. TypeOK
  BY DEF CInv
<1>1. ASSUME NEW v \in Upload, NEW q \in Req, NEW s \in Stamps,
             ReserveSlot(v, q, s) \/ MixedLayout(v, q, s)
      PROVE  FALSE
  BY <1>t, <1>1 DEF ReserveSlot, MixedLayout, NoneStuck, TypeOK
<1>2. ASSUME NEW v \in Upload, NEW from, NEW to, to # "error", UploadStep(v, from, to)
      PROVE  FALSE
  BY <1>t, <1>2 DEF UploadStep, NoneStuck, TypeOK
<1> QED
  BY <1>1, <1>2, RegistrationFrame, FinalizationFrame, BootstrapFrame
  DEF Next, Contribution, OpenWriter, OpenWriterFails, CommitWriter, StreamFails, AbortFails,
      Unreserve, MarkReceived, NoneStuck, vars

(* TokensAreHeld: for any number of clients, rounds and uploads, and whatever
   storage calls raise, exactly one upload stands behind a spent token of a
   round that has not ended: running, received, or ended in an error that
   kept the token (begin_stage, mark_received, unreserve).                 *)
THEOREM TokensAreHeld == CohortSpec => []TokenHeldOnce
<1>1. Init => SpentInv
  BY DEF Init, SpentInv
<1>2. IInv /\ SpentInv /\ [Next]_vars => SpentInv'
  BY SpentStep DEF IInv
<1>3. IInv /\ SpentInv => TokenHeldOnce
  BY DEF IInv, CInv, TokenInv, SpentInv, TokenHeldOnce
<1> QED BY <1>1, <1>2, <1>3, Invariance, PTL DEF CohortSpec

(* ReservationsReturn: unless stage_writer or a writer's abort raises, every
   spent token belongs to an upload that is running or received, so a member
   whose stream broke can retry, however the calls interleave: these two
   calls are the only ones a reservation is lost at (contribute).          *)
THEOREM ReservationsReturn ==
  ASSUME "open" \notin Faults, "abort" \notin Faults
  PROVE  CohortSpec => []ReservationReleased
<1>1. Init => SpentInv /\ NoneStuck
  BY DEF Init, SpentInv, NoneStuck
<1>2. IInv /\ SpentInv /\ NoneStuck /\ [Next]_vars => SpentInv' /\ NoneStuck'
  BY SpentStep, NoneStuckStep DEF IInv
<1>3. SpentInv /\ NoneStuck => ReservationReleased
  BY DEF SpentInv, NoneStuck, Holding, ReservationReleased
<1> QED BY <1>1, <1>2, <1>3, Invariance, PTL DEF CohortSpec

-----------------------------------------------------------------------------
(* Every step of the rounds leaves the global alone or is a fold that Global
   admits (_fold_streamed).                                                *)
LEMMA StepImplementsGlobal == IInv /\ [Next]_vars => [G!Next]_log
<1> SUFFICES ASSUME IInv, [Next]_vars PROVE [G!Next]_log
  OBVIOUS
<1>1. ASSUME NEW h \in Holder, CommitFold(h) PROVE G!Next
  <2> DEFINE e == [by |-> h, stamp |-> StampOf(h), slots |-> fold[h].slots]
  <2>1. /\ log' = Append(log, e)
        /\ Len(log) \in Nat
        /\ Len(log') = Len(log) + 1
        /\ log'[Len(log')] = e
        /\ Captured(h)
    BY <1>1, CommitAppends DEF IInv
  <2>2. G!InEpoch(e, Len(log) + 1)
    <3>1. StampOf(h).epoch = state.epoch
      BY <1>1, CommitAdmitted DEF FoldAdmits
    <3>2. Len(log) = state.epoch * EpochFolds + state.folds /\ state.folds < EpochFolds
      BY DEF IInv, ClockInv
    <3>3. state.epoch * EpochFolds \in Nat /\ state.folds \in Nat /\ EpochFolds \in Nat
      BY EpochAssumption DEF IInv, CInv, TypeOK, FactorState
    <3> QED BY <3>1, <3>2, <3>3 DEF G!InEpoch
  <2>3. ASSUME NEW i \in 1..Len(log)
        PROVE  log[i].by # h /\ log[i].stamp.compat = StampOf(h).compat
    <3>1. log[i] \in Entry /\ EntryInv(log[i]) /\ log[i].stamp.compat = state.compat
      BY DEF IInv, CInv, LogInv, BaseInv, TypeOK
    <3>2. PhaseOf(h) = "folding"
      BY <1>1 DEF CommitFold
    <3>3. log[i].by # h
      BY <3>1, <3>2 DEF EntryInv, Past
    <3>4. state.compat # None
      BY <3>1, DisjointAssumption DEF Entry, Stamp
    <3> QED BY <1>1, <3>1, <3>3, <3>4, CommitAdmitted DEF FoldAdmits
  <2>4. G!AddFold(e)
    BY <2>1, <2>2, <2>3 DEF G!AddFold
  <2> HIDE DEF e
  <2> QED BY <2>1, <2>4 DEF G!Next
<1>2. CASE \A h \in Holder : ~CommitFold(h)
  BY <1>2, OnlyCommit
<1> QED BY <1>1, <1>2

(* CohortImplementsGlobal: seen through its folds alone, the rounds and the
   bootstrap calls are Global.                                             *)
THEOREM CohortImplementsGlobal == CohortSpec => ImplementsGlobal
<1>1. Init => G!Init
  BY DEF Init, G!Init
<1> QED
  BY <1>1, StepImplementsGlobal, Invariance, PTL DEF CohortSpec, ImplementsGlobal, G!GlobalSpec
=============================================================================
