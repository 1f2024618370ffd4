------------------------------- MODULE Density -------------------------------
(***************************************************************************)
(* The mode a model is advertised in (/status): "busy" while enough        *)
(* distinct contributors were heard within a sliding window, "bootstrap"   *)
(* otherwise, "unsupported" outside the allowlist (mode, _note_contributor *)
(* and dp_precheck of aggregate.py; status and register of app.py).        *)
(*                                                                         *)
(* Every critical section under `cond` is one action.  Time is counted in  *)
(* ticks and a time is kept as its age, so that behaviours need no end:    *)
(* all ages beyond the window are the one age Old.                         *)
(***************************************************************************)
EXTENDS Integers, FiniteSets

CONSTANTS
    Model,
    Allowlist,   \* ROGER_AGG_MODELS; all of Model when none is set
    IP,          \* addresses contributors are told apart by
    Threshold,   \* busy_threshold
    Window,      \* busy_window, in ticks
    None

ASSUME AllowlistAssumption == Allowlist \subseteq Model
ASSUME ThresholdAssumption == Threshold \in Nat \ {0}
ASSUME WindowAssumption    == Window \in Nat /\ None \notin Nat

VARIABLES
    recent,   \* model -> ip -> age of the last note, or None
    heard     \* model -> every note inside the window, as <<ip, age>> (history)

vars == <<recent, heard>>

Old == Window + 1

TypeOK ==
    /\ recent \in [Model -> [IP -> 0..Old \cup {None}]]
    /\ heard \in [Model -> SUBSET (IP \X (0..Window))]

Init ==
    /\ recent = [m \in Model |-> [ip \in IP |-> None]]
    /\ heard = [m \in Model |-> {}]

-----------------------------------------------------------------------------
(* Variant: a note exactly at the cutoff is out. *)
InsideWindow(age) == age # None /\ age < Window

(* Variant: nothing is ever cut off. *)
EverHeard(age) == age # None

(* t >= cutoff *)
InWindow(age) == age # None /\ age <= Window

Live(m) == {ip \in IP : InWindow(recent[m][ip])}

(* What mode answers. *)
Mode(m) ==
    IF m \notin Allowlist THEN "unsupported"
    ELSE IF Cardinality(Live(m)) >= Threshold THEN "busy" ELSE "bootstrap"

(* Variant: the window starts over once it was found busy. *)
PrunedOnceBusy(m) ==
    [ip \in IP |-> IF ip \in Live(m) /\ Mode(m) # "busy" THEN recent[m][ip] ELSE None]

(* What it leaves of the model's notes. *)
Pruned(m) == [ip \in IP |-> IF ip \in Live(m) THEN recent[m][ip] ELSE None]

(* GET /status: a model outside the allowlist returns before the pruning. *)
Status(m) ==
    /\ m \in Allowlist
    /\ recent' = [recent EXCEPT ![m] = Pruned(m)]
    /\ UNCHANGED heard

(* Variant: notes are counted, not dated. *)
NotesCounted(m, ip) == [recent[m] EXCEPT ![ip] = IF @ = None THEN 1 ELSE @ + 1]

Noted(m, ip) == [recent[m] EXCEPT ![ip] = 0]

(* POST /round/register and POST /contribute_dp, as far as the density goes:
   both refuse a model outside the allowlist before they count the caller,
   and count it before anything else may refuse it.                        *)
NoteContributor(m, ip) ==
    /\ m \in Allowlist
    /\ recent' = [recent EXCEPT ![m] = Noted(m, ip)]
    /\ heard' = [heard EXCEPT ![m] = @ \cup {<<ip, 0>>}]

Older(age) == IF age \in {None, Old} THEN age ELSE age + 1

Tick ==
    /\ recent' = [m \in Model |-> [ip \in IP |-> Older(recent[m][ip])]]
    /\ heard' = [m \in Model |-> {<<n[1], n[2] + 1>> : n \in {k \in heard[m] : k[2] < Window}}]

(* The window is in memory only. *)
Restart ==
    /\ recent' = [m \in Model |-> [ip \in IP |-> None]]
    /\ heard' = [m \in Model |-> {}]

Next ==
    \/ \E m \in Model : Status(m) \/ \E ip \in IP : NoteContributor(m, ip)
    \/ Tick
    \/ Restart

(* Time passes; nobody is obliged to poll or to contribute. *)
DensitySpec == Init /\ [][Next]_vars /\ WF_vars(Tick)

-----------------------------------------------------------------------------
(* ModeIsDensity: the advertised mode is what the notes themselves say, each
   contributor counted once and at every age up to the window, its end
   included: however often the model was polled before, whenever its entries
   were pruned, and whatever the other models' traffic (mode, which prunes
   "in passing").                                                          *)
ModeIsDensity ==
    \A m \in Allowlist :
        Mode(m) = "busy" <=> Cardinality({n[1] : n \in heard[m]}) >= Threshold

(* PollingIsHarmless: asking for the mode of a model changes no model's mode:
   two polls at one moment agree (mode prunes the window it answers from).  *)
PollingIsHarmless ==
    [][\A m \in Model : Status(m) => \A n \in Model : Mode(n)' = Mode(n)]_vars

(* BusyEnds: a model that is no longer contributed to goes back to bootstrap,
   polled or not: a lone client is not sent to wait for cohorts that cannot
   form.                                                                   *)
BusyEnds ==
    \A m \in Model :
        <>[][\A ip \in IP : ~NoteContributor(m, ip)]_vars => []<>(Mode(m) # "busy")
=============================================================================
