--------------------------- MODULE DensityProofs ---------------------------
(***************************************************************************)
(* Proofs about Density, for any window, threshold, number of models and   *)
(* of contributors.                                                        *)
(***************************************************************************)
EXTENDS Density, TLAPS

(* A contributor's entry is its youngest note. *)
YoungestInv ==
    \A m \in Model, ip \in IP :
        /\ InWindow(recent[m][ip]) => <<ip, recent[m][ip]>> \in heard[m]
        /\ \A a \in 0..Window : <<ip, a>> \in heard[m] =>
               InWindow(recent[m][ip]) /\ recent[m][ip] <= a

DInv == TypeOK /\ YoungestInv

(* Asking for the mode drops no entry that counts. *)
LEMMA PruneKeeps ==
  ASSUME TypeOK, NEW m \in Model, Status(m), NEW n \in Model, NEW ip \in IP
  PROVE  \/ recent'[n][ip] = recent[n][ip]
         \/ ~InWindow(recent[n][ip]) /\ ~InWindow(recent'[n][ip])
<1>1. CASE n = m
  <2>1. recent'[n][ip] = IF ip \in Live(m) THEN recent[n][ip] ELSE None
    BY <1>1 DEF Status, Pruned, TypeOK
  <2> QED BY <1>1, <2>1 DEF Live, InWindow
<1>2. CASE n # m
  BY <1>2 DEF Status, TypeOK
<1> QED BY <1>1, <1>2

LEMMA DensityInit == Init => DInv
BY DEF Init, DInv, TypeOK, YoungestInv, InWindow

LEMMA StatusStep == ASSUME DInv, NEW m \in Model, Status(m) PROVE DInv'
<1>1. TypeOK'
  <2>1. Pruned(m) \in [IP -> 0..Old \cup {None}]
    BY DEF DInv, TypeOK, Pruned
  <2> QED BY <2>1 DEF DInv, TypeOK, Status
<1>2. YoungestInv'
  <2>1. heard' = heard
    BY DEF Status
  <2> QED BY <2>1, PruneKeeps DEF DInv, YoungestInv
<1> QED BY <1>1, <1>2 DEF DInv

LEMMA NoteStep == ASSUME DInv, NEW m \in Model, NEW ip \in IP, NoteContributor(m, ip) PROVE DInv'
<1>1. Window \in Nat /\ 0 \in 0..Window /\ 0 \in 0..Old
  BY WindowAssumption DEF Old
<1>2. TypeOK'
  <2>1. Noted(m, ip) \in [IP -> 0..Old \cup {None}]
    BY <1>1 DEF DInv, TypeOK, Noted
  <2> QED BY <1>1, <2>1 DEF DInv, TypeOK, NoteContributor
<1>3. YoungestInv'
  <2> SUFFICES ASSUME NEW n \in Model, NEW jp \in IP
               PROVE  /\ InWindow(recent'[n][jp]) => <<jp, recent'[n][jp]>> \in heard'[n]
                      /\ \A a \in 0..Window : <<jp, a>> \in heard'[n] =>
                             InWindow(recent'[n][jp]) /\ recent'[n][jp] <= a
    BY DEF YoungestInv, InWindow
  <2>1. CASE n = m /\ jp = ip
    <3>1. recent'[n][jp] = 0 /\ <<jp, 0>> \in heard'[n]
      BY <2>1 DEF DInv, TypeOK, NoteContributor, Noted
    <3>2. InWindow(0)
      BY <1>1, WindowAssumption DEF InWindow
    <3> QED BY <1>1, <3>1, <3>2
  <2>2. CASE ~(n = m /\ jp = ip)
    <3>1. recent'[n][jp] = recent[n][jp]
      BY <2>2 DEF DInv, TypeOK, NoteContributor, Noted
    <3>2. \A a : <<jp, a>> \in heard'[n] <=> <<jp, a>> \in heard[n]
      BY <2>2 DEF DInv, TypeOK, NoteContributor
    <3> QED BY <3>1, <3>2 DEF DInv, YoungestInv
  <2> QED BY <2>1, <2>2
<1> QED BY <1>2, <1>3 DEF DInv

(* What a tick makes of an age. *)
LEMMA OlderAge ==
  ASSUME NEW age \in 0..Old \cup {None}
  PROVE  /\ Older(age) \in 0..Old \cup {None}
         /\ InWindow(Older(age)) => /\ age \in 0..Window /\ age < Window
                                    /\ Older(age) = age + 1
         /\ (age \in 0..Window /\ age < Window) => InWindow(Older(age)) /\ Older(age) = age + 1
<1>1. Window \in Nat /\ Old = Window + 1 /\ None \notin Nat
  BY WindowAssumption DEF Old
<1>2. CASE age = None
  BY <1>1, <1>2 DEF Older, InWindow
<1>3. CASE age = Old
  BY <1>1, <1>3 DEF Older, InWindow
<1>4. CASE age \in 0..Window
  <2>1. age # None /\ age # Old /\ age + 1 # None
    BY <1>1, <1>4
  <2> QED BY <1>1, <1>4, <2>1 DEF Older, InWindow
<1> QED BY <1>1, <1>2, <1>3, <1>4

(* What a tick makes of the notes. *)
LEMMA OlderNotes ==
  ASSUME TypeOK, Tick, NEW m \in Model, NEW ip \in IP, NEW a \in 0..Window
  PROVE  <<ip, a>> \in heard'[m] <=> a # 0 /\ <<ip, a - 1>> \in heard[m]
<1>1. heard'[m] = {<<n[1], n[2] + 1>> : n \in {k \in heard[m] : k[2] < Window}}
  BY DEF Tick
<1>2. Window \in Nat /\ heard[m] \subseteq IP \X (0..Window)
  BY WindowAssumption DEF TypeOK
<1>3. ASSUME <<ip, a>> \in heard'[m] PROVE a # 0 /\ <<ip, a - 1>> \in heard[m]
  <2>1. PICK n \in heard[m] : n[2] < Window /\ <<ip, a>> = <<n[1], n[2] + 1>>
    BY <1>1, <1>3
  <2>2. n = <<n[1], n[2]>> /\ n[2] \in 0..Window
    BY <1>2
  <2>3. ip = n[1] /\ a = n[2] + 1
    BY <2>1
  <2>4. a - 1 = n[2] /\ a # 0
    BY <1>2, <2>2, <2>3
  <2> QED BY <2>2, <2>3, <2>4
<1>4. ASSUME a # 0, <<ip, a - 1>> \in heard[m] PROVE <<ip, a>> \in heard'[m]
  <2>1. a - 1 < Window /\ (a - 1) + 1 = a
    BY <1>2
  <2>2. <<ip, a - 1>>[1] = ip /\ <<ip, a - 1>>[2] = a - 1
    OBVIOUS
  <2>3. <<ip, (a - 1) + 1>> \in heard'[m]
    BY <1>1, <1>4, <2>1, <2>2
  <2> QED BY <2>1, <2>3
<1> QED BY <1>3, <1>4

LEMMA TickStep == ASSUME DInv, Tick PROVE DInv'
<1>w. Window \in Nat /\ None \notin Nat
  BY WindowAssumption
<1>1. ASSUME NEW m \in Model, NEW ip \in IP
      PROVE  recent[m][ip] \in 0..Old \cup {None} /\ recent'[m][ip] = Older(recent[m][ip])
  BY DEF DInv, TypeOK, Tick
<1>2. TypeOK'
  <2>1. recent' \in [Model -> [IP -> 0..Old \cup {None}]]
    BY <1>1, OlderAge DEF Tick
  <2>2. ASSUME NEW m \in Model
        PROVE  {<<n[1], n[2] + 1>> : n \in {k \in heard[m] : k[2] < Window}} \subseteq IP \X (0..Window)
    <3>1. heard[m] \subseteq IP \X (0..Window)
      BY DEF DInv, TypeOK
    <3> QED BY <1>w, <3>1
  <2> QED BY <2>1, <2>2 DEF Tick, TypeOK
<1>3. YoungestInv'
  <2> SUFFICES ASSUME NEW m \in Model, NEW ip \in IP
               PROVE  /\ InWindow(recent'[m][ip]) => <<ip, recent'[m][ip]>> \in heard'[m]
                      /\ \A a \in 0..Window : <<ip, a>> \in heard'[m] =>
                             InWindow(recent'[m][ip]) /\ recent'[m][ip] <= a
    BY DEF YoungestInv, InWindow
  <2> DEFINE age == recent[m][ip]
  <2>1. age \in 0..Old \cup {None} /\ recent'[m][ip] = Older(age)
    BY <1>1
  <2>2. /\ InWindow(age) => <<ip, age>> \in heard[m]
        /\ \A a \in 0..Window : <<ip, a>> \in heard[m] => InWindow(age) /\ age <= a
    BY DEF DInv, YoungestInv
  <2> HIDE DEF age
  <2>3. ASSUME InWindow(Older(age)) PROVE <<ip, Older(age)>> \in heard'[m]
    <3>1. age \in 0..Window /\ age < Window /\ Older(age) = age + 1
      BY <2>1, <2>3, OlderAge
    <3>2. InWindow(age) /\ age + 1 \in 0..Window /\ age + 1 # 0 /\ (age + 1) - 1 = age
      BY <1>w, <3>1 DEF InWindow
    <3> QED BY <2>2, <3>1, <3>2, OlderNotes DEF DInv
  <2>4. ASSUME NEW a \in 0..Window, <<ip, a>> \in heard'[m]
        PROVE  InWindow(Older(age)) /\ Older(age) <= a
    <3>1. a # 0 /\ <<ip, a - 1>> \in heard[m]
      BY <2>4, OlderNotes DEF DInv
    <3>2. a - 1 \in 0..Window /\ a - 1 < Window
      BY <1>w, <3>1
    <3>3. InWindow(age) /\ age <= a - 1
      BY <2>2, <3>1, <3>2
    <3>4. age \in 0..Window /\ age < Window
      BY <1>w, <2>1, <3>2, <3>3 DEF InWindow, Old
    <3> QED BY <2>1, <3>2, <3>3, <3>4, OlderAge
  <2> QED BY <2>1, <2>3, <2>4
<1> QED BY <1>2, <1>3 DEF DInv

LEMMA DensityStep == DInv /\ [Next]_vars => DInv'
<1> SUFFICES ASSUME DInv, [Next]_vars PROVE DInv'
  OBVIOUS
<1>1. CASE Restart
  BY <1>1 DEF Restart, DInv, TypeOK, YoungestInv, InWindow
<1>2. CASE UNCHANGED vars
  BY <1>2 DEF vars, DInv, TypeOK, YoungestInv, InWindow
<1> QED BY <1>1, <1>2, StatusStep, NoteStep, TickStep DEF Next

LEMMA DensityInvariance == DensitySpec => []DInv
BY DensityInit, DensityStep, PTL DEF DensitySpec

(* DensityTypes: entries are ages up to the window or past it, notes are ages
   within it.                                                              *)
THEOREM DensityTypes == DensitySpec => []TypeOK
<1>1. DInv => TypeOK
  BY DEF DInv
<1> QED BY <1>1, DensityInvariance, PTL

(* ModeTellsDensity: /status says "busy" exactly while at least the threshold
   of distinct contributors was heard within the window, for any window,
   threshold and pattern of polls and notes (mode, _note_contributor).      *)
THEOREM ModeTellsDensity == DensitySpec => []ModeIsDensity
<1>1. ASSUME DInv, NEW m \in Model PROVE Live(m) = {n[1] : n \in heard[m]}
  <2>1. ASSUME NEW ip \in Live(m) PROVE ip \in {n[1] : n \in heard[m]}
    <3>1. <<ip, recent[m][ip]>> \in heard[m]
      BY <1>1 DEF Live, DInv, YoungestInv
    <3>2. <<ip, recent[m][ip]>>[1] = ip
      OBVIOUS
    <3> QED BY <3>1, <3>2
  <2>2. ASSUME NEW n \in heard[m] PROVE n[1] \in Live(m)
    <3>1. n = <<n[1], n[2]>> /\ n[1] \in IP /\ n[2] \in 0..Window
      BY <1>1 DEF DInv, TypeOK
    <3> QED BY <1>1, <3>1 DEF Live, DInv, YoungestInv
  <2> QED BY <2>1, <2>2
<1>2. DInv => ModeIsDensity
  BY <1>1, AllowlistAssumption DEF ModeIsDensity, Mode
<1> QED BY <1>2, DensityInvariance, PTL

(* PollsAreHarmless: a poll changes nobody's mode (mode, "prunes the window
   in passing").                                                           *)
THEOREM PollsAreHarmless == DensitySpec => PollingIsHarmless
<1> DEFINE Harmless == \A m \in Model : Status(m) => \A n \in Model : Mode(n)' = Mode(n)
<1>1. DInv /\ [Next]_vars => [Harmless]_vars
  <2> SUFFICES ASSUME DInv, NEW m \in Model, Status(m), NEW n \in Model
               PROVE  Mode(n)' = Mode(n)
    OBVIOUS
  <2>1. \A ip \in IP : InWindow(recent'[n][ip]) <=> InWindow(recent[n][ip])
    BY PruneKeeps DEF DInv
  <2>2. Live(n)' = Live(n)
    BY <2>1 DEF Live, InWindow
  <2> QED BY <2>2 DEF Mode
<1> QED BY <1>1, DensityInvariance, PTL DEF DensitySpec, PollingIsHarmless
=============================================================================
