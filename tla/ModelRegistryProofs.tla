------------------------- MODULE ModelRegistryProofs -------------------------
(***************************************************************************)
(* Proofs about ModelRegistry, for any jobs and any numbers of faults and   *)
(* cleanups.                                                                *)
(***************************************************************************)
EXTENDS ModelRegistry, TLAPS

-----------------------------------------------------------------------------
(* What a training run writes and assigns *)

\* A run can be cut only after at most four saves; one that fine-tunes with
\* an unfitted scaler, after at most two.
LEMMA CutRange ==
    ASSUME NEW j \in Jobs, NEW n \in Cuts(j)
    PROVE  /\ n \in Int /\ 0 <= n /\ n <= 4
           /\ n > 2 => ~(FineTunes(j) /\ mem["proc_scaler"] = Unfitted)
BY DEF Cuts

\* The files after n saves, one by one.
LEMMA SavedFiles ==
    ASSUME NEW j \in Jobs, NEW n \in Cuts(j)
    PROVE  /\ Saved(j, n) = [p \in Parts |-> Saved(j, n)[p]]
           /\ Saved(j, n)["net_scaler"] =
                IF n >= 1 THEN runs + 1 ELSE disk["net_scaler"]
           /\ Saved(j, n)["if_detector"] =
                IF n >= 2 THEN runs + 1 ELSE disk["if_detector"]
           /\ Saved(j, n)["proc_scaler"] =
                IF n >= 3 /\ ~FineTunes(j) THEN runs + 1 ELSE disk["proc_scaler"]
           /\ Saved(j, n)["ae_detector"] =
                IF n < 4 THEN disk["ae_detector"]
                ELSE IF FineTunes(j) THEN mem["proc_scaler"] ELSE runs + 1
<1> n \in Int /\ 0 <= n /\ n <= 4
  BY CutRange
<1> QED BY DEF Saved, Place, Parts

\* The files if the next save is torn: one of them, at most, differs.
LEMMA TornFiles ==
    ASSUME NEW j \in Jobs, NEW n \in Cuts(j)
    PROVE  /\ SavedTorn(j, n) = [p \in Parts |-> SavedTorn(j, n)[p]]
           /\ SavedTorn(j, n)["net_scaler"] =
                IF n = 0 THEN Torn ELSE Saved(j, n)["net_scaler"]
           /\ SavedTorn(j, n)["if_detector"] =
                IF n = 1 THEN Torn ELSE Saved(j, n)["if_detector"]
           /\ SavedTorn(j, n)["proc_scaler"] =
                IF n = 2 /\ ~FineTunes(j) THEN Torn ELSE Saved(j, n)["proc_scaler"]
           /\ SavedTorn(j, n)["ae_detector"] =
                IF n = 3 THEN Torn ELSE Saved(j, n)["ae_detector"]
<1> n \in Int /\ 0 <= n /\ n <= 4
  BY CutRange
<1> QED BY DEF SavedTorn, Place, Parts

\* The attributes after n saves, one by one.
LEMMA AssignedParts ==
    ASSUME NEW j \in Jobs, NEW n \in Int, mem \in [Parts -> Int]
    PROVE  /\ Assigned(j, n) = [p \in Parts |-> Assigned(j, n)[p]]
           /\ Assigned(j, n)["net_scaler"] = mem["net_scaler"]
           /\ Assigned(j, n)["proc_scaler"] = mem["proc_scaler"]
           /\ Assigned(j, n)["if_detector"] =
                IF n >= 2 THEN runs + 1 ELSE mem["if_detector"]
           /\ Assigned(j, n)["ae_detector"] =
                IF FineTunes(j)
                THEN IF n >= 3 THEN mem["proc_scaler"] ELSE mem["ae_detector"]
                ELSE IF n >= 4 THEN runs + 1 ELSE mem["ae_detector"]
BY DEF Assigned, Parts

\* An initial training ends with everything it made in memory.
LEMMA TrainedParts ==
    ASSUME NEW j \in Jobs, TypeOK, Train(j)
    PROVE  /\ runs' = runs + 1
           /\ disk' = Saved(j, 4)
           /\ mem' = [p \in Parts |-> mem'[p]]
           /\ kind[j] = "initial" => \A p \in Parts : disk'[p] = runs + 1 /\ mem'[p] = runs + 1
           /\ kind[j] # "initial" => mem' = Assigned(j, 4)
<1>1. 4 \in Cuts(j) /\ mem \in [Parts -> Int] /\ runs \in Nat
  BY DEF Train, TypeOK
<1>2. CASE kind[j] = "initial"
  <2>1. ~FineTunes(j)
    BY <1>2 DEF FineTunes
  <2>2. /\ Saved(j, 4)["net_scaler"] = runs + 1
        /\ Saved(j, 4)["if_detector"] = runs + 1
        /\ Saved(j, 4)["proc_scaler"] = runs + 1
        /\ Saved(j, 4)["ae_detector"] = runs + 1
    BY <1>1, <2>1, SavedFiles
  <2>3. /\ mem' = [Assigned(j, 4) EXCEPT
                        !["net_scaler"] = LoadScaler(disk'["net_scaler"]),
                        !["proc_scaler"] = LoadScaler(disk'["proc_scaler"])]
        /\ disk' = Saved(j, 4) /\ runs' = runs + 1
    BY <1>2 DEF Train
  <2>4. /\ LoadScaler(disk'["net_scaler"]) = runs + 1
        /\ LoadScaler(disk'["proc_scaler"]) = runs + 1
    BY <1>1, <2>2, <2>3 DEF LoadScaler, Missing
  <2>5. /\ Assigned(j, 4) = [p \in Parts |-> Assigned(j, 4)[p]]
        /\ Assigned(j, 4)["if_detector"] = runs + 1
        /\ Assigned(j, 4)["ae_detector"] = runs + 1
    BY <1>1, <2>1, AssignedParts
  <2> QED BY <1>2, <2>2, <2>3, <2>4, <2>5 DEF Parts
<1>3. CASE kind[j] # "initial"
  <2>1. mem' = Assigned(j, 4) /\ disk' = Saved(j, 4) /\ runs' = runs + 1
    BY <1>3 DEF Train
  <2> QED BY <1>1, <1>3, <2>1, AssignedParts
<1> QED BY <1>2, <1>3

\* What a boot loads, attribute by attribute.
LEMMA Loaded ==
    ASSUME NEW d \in [Parts -> Int], \A p \in Parts : d[p] >= Torn
    PROVE  /\ Load(d) \in [Parts -> Int]
           /\ \A p \in Parts : Load(d)[p] >= Missing \/ Load(d)[p] = Unfitted
           /\ Load(d)["if_detector"] =
                IF d["if_detector"] > 0 THEN d["if_detector"] ELSE Missing
           /\ Load(d)["ae_detector"] \in {Missing, d["ae_detector"]}
           /\ Load(d)["ae_detector"] >= Missing
           /\ Load(d)["net_scaler"] # Missing =>
                /\ d["if_detector"] > 0
                /\ Load(d)["net_scaler"] = LoadScaler(d["net_scaler"])
           /\ Load(d)["proc_scaler"] # Missing =>
                /\ d["ae_detector"] > 0
                /\ Load(d)["ae_detector"] = d["ae_detector"]
                /\ Load(d)["proc_scaler"] = LoadScaler(d["proc_scaler"])
           /\ d["if_detector"] > 0 /\ d["net_scaler"] # Torn =>
                Load(d)["net_scaler"] = LoadScaler(d["net_scaler"])
BY DEF Load, LoadScaler, Parts, Missing, Torn, Unfitted

-----------------------------------------------------------------------------
(* Types *)

\* Begin keeps the records well typed.
LEMMA BeginTypes ==
    ASSUME TypeOK, NEW j \in Jobs, NEW k \in Kinds, Begin(j, k)
    PROVE  /\ kind' \in [Jobs -> Kinds]
           /\ status' \in [Jobs -> {"none", "started", "completed", "failed"}]
           /\ phase' \in [Jobs -> {"none", "data", "empty", "finish", "fail"}]
BY DEF TypeOK, Begin

\* What n saves leave behind, whole or torn, is well typed.
LEMMA CutTypes ==
    ASSUME TypeOK, NEW j \in Jobs, NEW n \in Cuts(j), NEW torn \in BOOLEAN
    PROVE  /\ Saved(j, n) \in [Parts -> Int]
           /\ \A p \in Parts : Saved(j, n)[p] >= Torn
           /\ SavedTorn(j, n) \in [Parts -> Int]
           /\ \A p \in Parts : SavedTorn(j, n)[p] >= Torn
           /\ Assigned(j, n) \in [Parts -> Int]
           /\ Assigned(j, n)["if_detector"] >= Missing
           /\ Assigned(j, n)["ae_detector"] >= Missing
           /\ \A p \in Parts : Assigned(j, n)[p] >= Missing \/ Assigned(j, n)[p] = Unfitted
<1> DEFINE S == Saved(j, n)
           T == SavedTorn(j, n)
           A == Assigned(j, n)
<1>1. /\ n \in Int /\ 0 <= n /\ n <= 4
      /\ n > 2 => ~(FineTunes(j) /\ mem["proc_scaler"] = Unfitted)
  BY CutRange
<1>2. /\ disk \in [Parts -> Int] /\ mem \in [Parts -> Int] /\ runs \in Nat
      /\ \A p \in Parts : disk[p] >= Torn
      /\ \A p \in Parts : mem[p] >= Missing \/ mem[p] = Unfitted
      /\ mem["if_detector"] >= Missing /\ mem["ae_detector"] >= Missing
  BY DEF TypeOK
<1>3. /\ S["net_scaler"] \in Int /\ S["net_scaler"] >= Torn
      /\ S["if_detector"] \in Int /\ S["if_detector"] >= Torn
      /\ S["proc_scaler"] \in Int /\ S["proc_scaler"] >= Torn
      /\ S["ae_detector"] \in Int /\ S["ae_detector"] >= Torn
  BY <1>1, <1>2, SavedFiles DEF Parts, Torn, Missing, Unfitted
<1>4. S = [p \in Parts |-> S[p]] /\ T = [p \in Parts |-> T[p]]
  BY SavedFiles, TornFiles
<1>5. /\ T["net_scaler"] \in {Torn, S["net_scaler"]}
      /\ T["if_detector"] \in {Torn, S["if_detector"]}
      /\ T["proc_scaler"] \in {Torn, S["proc_scaler"]}
      /\ T["ae_detector"] \in {Torn, S["ae_detector"]}
  BY TornFiles
<1>6. /\ A = [p \in Parts |-> A[p]]
      /\ A["net_scaler"] = mem["net_scaler"]
      /\ A["proc_scaler"] = mem["proc_scaler"]
      /\ A["if_detector"] \in Int /\ A["if_detector"] >= Missing
      /\ A["ae_detector"] \in Int /\ A["ae_detector"] >= Missing
  BY <1>1, <1>2, AssignedParts DEF Parts, Missing, Unfitted
<1>7. /\ \A p \in Parts : S[p] \in Int /\ S[p] >= Torn
      /\ \A p \in Parts : T[p] \in Int /\ T[p] >= Torn
  BY <1>3, <1>5 DEF Parts, Torn
<1>8. \A p \in Parts : A[p] \in Int /\ (A[p] >= Missing \/ A[p] = Unfitted)
  BY <1>2, <1>6 DEF Parts
<1> HIDE DEF S, T, A
<1>9. S \in [Parts -> Int] /\ T \in [Parts -> Int] /\ A \in [Parts -> Int]
  BY <1>4, <1>6, <1>7, <1>8
<1> QED BY <1>6, <1>7, <1>8, <1>9 DEF S, T, A

LEMMA TypeStep == TypeOK /\ [Next]_vars => TypeOK'
<1> SUFFICES ASSUME TypeOK, [Next]_vars PROVE TypeOK'
  OBVIOUS
<1> USE RegistryAssumption
<1>1. CASE Boot
  <2>1. /\ mem' \in [Parts -> Int]
        /\ mem'["if_detector"] >= Missing /\ mem'["ae_detector"] >= Missing
        /\ \A p \in Parts : mem'[p] >= Missing \/ mem'[p] = Unfitted
    <3>1. /\ disk \in [Parts -> Int] /\ \A p \in Parts : disk[p] >= Torn
          /\ mem' = Load(disk)
      BY <1>1 DEF Boot, TypeOK
    <3>2. /\ Load(disk) \in [Parts -> Int]
          /\ \A p \in Parts : Load(disk)[p] >= Missing \/ Load(disk)[p] = Unfitted
          /\ Load(disk)["ae_detector"] >= Missing
      BY <3>1, Loaded
    <3>3. Load(disk)["if_detector"] >= Missing
      <4>1. Load(disk)["if_detector"] =
              IF disk["if_detector"] > 0 THEN disk["if_detector"] ELSE Missing
        BY <3>1, Loaded
      <4> QED BY <3>1, <4>1 DEF Parts, Missing
    <3> QED BY <3>1, <3>2, <3>3
  <2>2. /\ kind' \in [Jobs -> Kinds]
        /\ status' \in [Jobs -> {"none", "started", "completed", "failed"}]
        /\ phase' \in [Jobs -> {"none", "data", "empty", "finish", "fail"}]
    <3>1. CASE disk["if_detector"] = Missing \/ disk["ae_detector"] = Missing
      <4>1. PICK j \in Jobs : Begin(j, "initial")
        BY <1>1, <3>1 DEF Boot
      <4> QED BY <4>1, BeginTypes DEF Kinds
    <3>2. CASE ~(disk["if_detector"] = Missing \/ disk["ae_detector"] = Missing)
      BY <1>1, <3>2 DEF Boot, TypeOK
    <3> QED BY <3>1, <3>2
  <2>3. /\ up' \in BOOLEAN /\ swapped' \in BOOLEAN
        /\ UNCHANGED <<disk, runs, faults, cleanups, damaged>>
    BY <1>1 DEF Boot
  <2> QED BY <2>1, <2>2, <2>3 DEF TypeOK
<1>2. ASSUME NEW j \in Jobs, NEW k \in Kinds, Trigger(j, k) PROVE TypeOK'
  <2>1. Begin(j, k)
    BY <1>2 DEF Trigger
  <2> QED BY <1>2, <2>1, BeginTypes DEF Trigger, TypeOK
<1>3. ASSUME NEW j \in Jobs, NoData(j) PROVE TypeOK'
  BY <1>3 DEF NoData, TypeOK
<1>4. ASSUME NEW j \in Jobs, Train(j) PROVE TypeOK'
  <2>1. 4 \in Cuts(j)
    BY <1>4 DEF Train
  <2>2. /\ disk' \in [Parts -> Int]
        /\ \A p \in Parts : disk'[p] >= Torn
    BY <1>4, <2>1, CutTypes DEF Train
  <2>3. runs' \in Nat /\ runs' = runs + 1
    BY <1>4 DEF Train, TypeOK
  <2>4. /\ mem' \in [Parts -> Int]
        /\ mem'["if_detector"] >= Missing /\ mem'["ae_detector"] >= Missing
        /\ \A p \in Parts : mem'[p] >= Missing \/ mem'[p] = Unfitted
    <3>1. CASE kind[j] = "initial"
      <4>1. \A p \in Parts : mem'[p] \in Int /\ mem'[p] >= Missing
        BY <1>4, <2>3, <3>1, TrainedParts DEF Missing
      <4>2. mem' = [p \in Parts |-> mem'[p]]
        BY <1>4, TrainedParts
      <4> QED BY <4>1, <4>2 DEF Parts
    <3>2. CASE kind[j] # "initial"
      <4>1. mem' = Assigned(j, 4)
        BY <1>4, <3>2, TrainedParts
      <4>2. /\ Assigned(j, 4) \in [Parts -> Int]
            /\ Assigned(j, 4)["if_detector"] >= Missing
            /\ Assigned(j, 4)["ae_detector"] >= Missing
            /\ \A p \in Parts :
                  Assigned(j, 4)[p] >= Missing \/ Assigned(j, 4)[p] = Unfitted
        BY <2>1, CutTypes
      <4> QED BY <4>1, <4>2
    <3> QED BY <3>1, <3>2
  <2>5. /\ phase' \in [Jobs -> {"none", "data", "empty", "finish", "fail"}]
        /\ damaged' \in BOOLEAN /\ swapped' \in BOOLEAN
        /\ UNCHANGED <<up, kind, status, faults, cleanups>>
    BY <1>4 DEF Train, TypeOK
  <2> QED BY <2>2, <2>3, <2>4, <2>5 DEF TypeOK
<1>5. ASSUME NEW j \in Jobs, NEW n \in 0 .. 4, NEW torn \in BOOLEAN,
             TrainFails(j, n, torn)
      PROVE  TypeOK'
  <2>1. n \in Cuts(j)
    BY <1>5 DEF TrainFails
  <2>2. /\ disk' \in [Parts -> Int]
        /\ \A p \in Parts : disk'[p] >= Torn
    BY <1>5, <2>1, CutTypes DEF TrainFails
  <2>3. /\ mem' \in [Parts -> Int]
        /\ mem'["if_detector"] >= Missing /\ mem'["ae_detector"] >= Missing
        /\ \A p \in Parts : mem'[p] >= Missing \/ mem'[p] = Unfitted
    BY <1>5, <2>1, CutTypes DEF TrainFails
  <2>4. faults' \in 0 .. MaxFaults
    BY <1>5 DEF TrainFails, TypeOK
  <2>5. /\ phase' \in [Jobs -> {"none", "data", "empty", "finish", "fail"}]
        /\ runs' \in Nat
        /\ damaged' \in BOOLEAN /\ swapped' \in BOOLEAN
        /\ UNCHANGED <<up, kind, status, cleanups>>
    BY <1>5 DEF TrainFails, TypeOK
  <2> QED BY <2>2, <2>3, <2>4, <2>5 DEF TypeOK
<1>6. ASSUME NEW j \in Jobs, Record(j) PROVE TypeOK'
  BY <1>6 DEF Record, TypeOK
<1>7. ASSUME NEW j \in Jobs, RecordFails(j) PROVE TypeOK'
  BY <1>7 DEF RecordFails, TypeOK
<1>8. ASSUME Die PROVE /\ up' \in BOOLEAN /\ swapped' \in BOOLEAN
                       /\ faults' \in 0 .. MaxFaults
                       /\ mem' = Nothing
                       /\ mem' \in [Parts -> Int]
                       /\ \A p \in Parts : mem'[p] >= Missing
                       /\ phase' \in [Jobs -> {"none", "data", "empty", "finish", "fail"}]
                       /\ UNCHANGED <<kind, status, cleanups>>
  <2>1. mem' = [p \in Parts |-> 0]
    BY <1>8 DEF Die, Nothing, Missing
  <2>2. mem' \in [Parts -> Int] /\ \A p \in Parts : mem'[p] >= 0
    BY <2>1
  <2>3. faults' \in 0 .. MaxFaults
    BY <1>8 DEF Die, TypeOK
  <2>4. /\ mem' = Nothing
        /\ phase' \in [Jobs -> {"none", "data", "empty", "finish", "fail"}]
        /\ up' \in BOOLEAN /\ swapped' \in BOOLEAN
        /\ UNCHANGED <<kind, status, cleanups>>
    BY <1>8 DEF Die
  <2> QED BY <2>2, <2>3, <2>4 DEF Missing
<1>9. CASE Crash
  BY <1>8, <1>9 DEF Crash, TypeOK, Parts
<1>10. ASSUME NEW j \in Jobs, NEW n \in 0 .. 4, NEW torn \in BOOLEAN,
              CrashInTraining(j, n, torn)
       PROVE  TypeOK'
  <2>1. n \in Cuts(j) /\ Die
    BY <1>10 DEF CrashInTraining
  <2>2. /\ disk' \in [Parts -> Int]
        /\ \A p \in Parts : disk'[p] >= Torn
    BY <1>10, <2>1, CutTypes DEF CrashInTraining
  <2>3. runs' \in Nat /\ damaged' \in BOOLEAN
    BY <1>10 DEF CrashInTraining, TypeOK
  <2> QED BY <1>8, <2>1, <2>2, <2>3 DEF TypeOK, Parts
<1>11. CASE Cleanup
  <2>1. disk' \in [Parts -> Int] /\ \A p \in Parts : disk'[p] >= Torn
    <3>1. /\ disk \in [Parts -> Int] /\ \A p \in Parts : disk[p] >= Torn
          /\ disk' = [disk EXCEPT !["net_scaler"] = 0, !["proc_scaler"] = 0]
      BY <1>11 DEF Cleanup, TypeOK, Missing
    <3>2. disk' = [p \in Parts |->
                    IF p \in {"net_scaler", "proc_scaler"} THEN 0 ELSE disk[p]]
      BY <3>1 DEF Parts
    <3>3. \A p \in Parts : disk'[p] = disk[p] \/ disk'[p] = 0
      BY <3>2
    <3>4. \A p \in Parts : disk'[p] \in Int /\ disk'[p] >= Torn
      BY <3>1, <3>3 DEF Torn
    <3>5. disk' = [p \in Parts |-> disk'[p]]
      BY <3>2
    <3> QED BY <3>4, <3>5
  <2>2. cleanups' \in 0 .. MaxCleanups /\ damaged' \in BOOLEAN
    BY <1>11 DEF Cleanup, TypeOK
  <2>3. UNCHANGED <<mem, up, kind, status, phase, runs, faults, swapped>>
    BY <1>11 DEF Cleanup
  <2> QED BY <2>1, <2>2, <2>3 DEF TypeOK
<1>12. CASE UNCHANGED vars
  BY <1>12 DEF vars, TypeOK
<1> QED BY <1>1, <1>2, <1>3, <1>4, <1>5, <1>6, <1>7, <1>9, <1>10, <1>11, <1>12
        DEF Next, JobStep

\* Every reachable state is well typed: no detector in memory is ever torn or
\* unfitted, however training, boots and cleanups fall together.
THEOREM TypeCorrect == Spec => []TypeOK
<1>1. Init => TypeOK
  <2> SUFFICES ASSUME Init PROVE TypeOK
    OBVIOUS
  <2>1. /\ disk = [p \in Parts |-> 0] /\ mem = [p \in Parts |-> 0]
    BY DEF Init, Nothing, Missing
  <2>2. /\ disk \in [Parts -> Int] /\ mem \in [Parts -> Int]
        /\ \A p \in Parts : disk[p] >= Torn /\ mem[p] >= Missing
    BY <2>1 DEF Missing, Torn
  <2>3. "if_detector" \in Parts /\ "ae_detector" \in Parts
    BY DEF Parts
  <2>4. faults \in 0 .. MaxFaults /\ cleanups \in 0 .. MaxCleanups /\ runs \in Nat
    BY RegistryAssumption DEF Init
  <2>5. /\ kind \in [Jobs -> Kinds]
        /\ status \in [Jobs -> {"none", "started", "completed", "failed"}]
        /\ phase \in [Jobs -> {"none", "data", "empty", "finish", "fail"}]
        /\ up \in BOOLEAN /\ damaged \in BOOLEAN /\ swapped \in BOOLEAN
    BY DEF Init, Kinds
  <2> QED BY <2>2, <2>3, <2>4, <2>5 DEF TypeOK
<1> QED BY <1>1, TypeStep, PTL DEF Spec

-----------------------------------------------------------------------------
(* A detector and its scaler *)

\* A scaler for process features is never loaded without the autoencoder, so
\* a retraining that has to make a new autoencoder leaves no old scaler in
\* memory.
NoLoneScaler == mem["ae_detector"] = Missing => mem["proc_scaler"] = Missing

\* The scaler in memory that retraining fine-tunes with is the one on disk.
ScalerInPlace ==
    ~damaged /\ mem["proc_scaler"] # Missing => mem["proc_scaler"] = disk["proc_scaler"]

\* A job that is under way was asked for, as one kind or the other.
JobsHaveKind == \A j \in Jobs : phase[j] # "none" => kind[j] # "none"

PairInv == JobsHaveKind /\ NoLoneScaler /\ ScalerInPlace /\ PairsAgree

\* A job that begins has its kind.
LEMMA BeginHasKind ==
    ASSUME TypeOK, JobsHaveKind, NEW j \in Jobs, NEW k \in Kinds \ {"none"},
           Begin(j, k)
    PROVE  JobsHaveKind'
BY DEF TypeOK, JobsHaveKind, Begin

\* A boot that finds pairs that fit loads pairs that fit.
LEMMA PairBoot == TypeOK /\ PairInv /\ Boot => PairInv'
<1> SUFFICES ASSUME TypeOK, PairInv, Boot PROVE PairInv'
  OBVIOUS
<1>1. /\ disk \in [Parts -> Int] /\ \A p \in Parts : disk[p] >= Torn
      /\ mem' = Load(disk) /\ disk' = disk /\ damaged' = damaged
  BY DEF Boot, TypeOK
<1>2. ~damaged => /\ disk["if_detector"] # Missing => disk["net_scaler"] = disk["if_detector"]
                  /\ disk["ae_detector"] # Missing => disk["proc_scaler"] = disk["ae_detector"]
  BY DEF PairInv, PairsAgree, Fits
<1>3. /\ mem'["if_detector"] =
            IF disk["if_detector"] > 0 THEN disk["if_detector"] ELSE Missing
      /\ mem'["proc_scaler"] # Missing =>
            /\ disk["ae_detector"] > 0
            /\ mem'["ae_detector"] = disk["ae_detector"]
            /\ mem'["proc_scaler"] = LoadScaler(disk["proc_scaler"])
      /\ disk["if_detector"] > 0 /\ disk["net_scaler"] # Torn =>
            mem'["net_scaler"] = LoadScaler(disk["net_scaler"])
  BY <1>1, Loaded
<1>4. NoLoneScaler'
  BY <1>3 DEF NoLoneScaler, Missing
<1>5. ScalerInPlace'
  BY <1>1, <1>2, <1>3 DEF ScalerInPlace, LoadScaler, Missing
<1>6. PairsAgree'
  BY <1>1, <1>2, <1>3 DEF PairsAgree, Fits, LoadScaler, Missing, Torn, Parts
<1>7. JobsHaveKind'
  <2>1. CASE disk["if_detector"] = Missing \/ disk["ae_detector"] = Missing
    <3>1. PICK j \in Jobs : Begin(j, "initial")
      BY <2>1 DEF Boot
    <3> QED BY <3>1, BeginHasKind DEF Kinds, PairInv
  <2>2. CASE ~(disk["if_detector"] = Missing \/ disk["ae_detector"] = Missing)
    BY <2>2 DEF Boot, PairInv, JobsHaveKind
  <2> QED BY <2>1, <2>2
<1> QED BY <1>4, <1>5, <1>6, <1>7 DEF PairInv

\* A training run that goes through replaces pairs by pairs.
LEMMA PairTrain ==
    ASSUME TypeOK, PairInv, NEW j \in Jobs, Train(j)
    PROVE  PairInv'
<1>1. /\ 4 \in Cuts(j) /\ mem \in [Parts -> Int] /\ runs \in Nat
      /\ damaged' = (kind[j] # "initial" /\ damaged)
      /\ swapped' = (kind[j] # "initial")
  BY DEF Train, TypeOK
<1>2. JobsHaveKind' /\ kind[j] # "none"
  BY DEF Train, TypeOK, PairInv, JobsHaveKind
<1>3. CASE kind[j] = "initial"
  <2>1. \A p \in Parts : disk'[p] = runs + 1 /\ mem'[p] = runs + 1
    BY <1>3, TrainedParts
  <2> QED BY <1>1, <1>2, <2>1 DEF PairInv, NoLoneScaler, ScalerInPlace, PairsAgree, Fits,
                             Parts, Missing
<1>4. CASE kind[j] # "initial"
  <2>1. mem' = Assigned(j, 4) /\ disk' = Saved(j, 4) /\ swapped' /\ damaged' = damaged
    BY <1>1, <1>4, TrainedParts DEF TypeOK
  <2>2. /\ disk'["net_scaler"] = runs + 1 /\ disk'["if_detector"] = runs + 1
        /\ disk'["proc_scaler"] =
              IF ~FineTunes(j) THEN runs + 1 ELSE disk["proc_scaler"]
        /\ disk'["ae_detector"] =
              IF FineTunes(j) THEN mem["proc_scaler"] ELSE runs + 1
    BY <1>1, <2>1, SavedFiles
  <2>3. /\ mem'["proc_scaler"] = mem["proc_scaler"]
        /\ mem'["ae_detector"] =
              IF FineTunes(j) THEN mem["proc_scaler"] ELSE runs + 1
    BY <1>1, <2>1, AssignedParts
  <2>4. CASE FineTunes(j)
    <3>1. mem["proc_scaler"] # Missing
      BY <2>4 DEF FineTunes
    <3>2. ~damaged => mem["proc_scaler"] = disk["proc_scaler"]
      BY <3>1 DEF PairInv, ScalerInPlace
    <3> QED BY <1>2, <2>1, <2>2, <2>3, <2>4, <3>1, <3>2
            DEF PairInv, NoLoneScaler, ScalerInPlace, PairsAgree, Fits
  <2>5. CASE ~FineTunes(j)
    <3>1. kind[j] = "incremental"
      BY <1>4, <1>2 DEF TypeOK, Kinds
    <3>2. mem["proc_scaler"] = Missing
      BY <2>5, <3>1 DEF FineTunes, PairInv, NoLoneScaler
    <3> QED BY <1>1, <1>2, <2>1, <2>2, <2>3, <2>5, <3>2
            DEF PairInv, NoLoneScaler, ScalerInPlace, PairsAgree, Fits, Missing
  <2> QED BY <2>4, <2>5
<1> QED BY <1>3, <1>4

\* A run cut short damages, and keeps the scaler and the autoencoder together.
LEMMA PairCut ==
    ASSUME TypeOK, PairInv, NEW j \in Jobs, NEW n \in Cuts(j)
    PROVE  Assigned(j, n)["ae_detector"] = Missing =>
                Assigned(j, n)["proc_scaler"] = Missing
<1>1. n \in Int /\ mem \in [Parts -> Int] /\ runs \in Nat
  BY CutRange DEF TypeOK
<1>2. /\ Assigned(j, n)["proc_scaler"] = mem["proc_scaler"]
      /\ Assigned(j, n)["ae_detector"] =
            IF FineTunes(j)
            THEN IF n >= 3 THEN mem["proc_scaler"] ELSE mem["ae_detector"]
            ELSE IF n >= 4 THEN runs + 1 ELSE mem["ae_detector"]
  BY <1>1, AssignedParts
<1> QED BY <1>1, <1>2 DEF PairInv, NoLoneScaler, FineTunes, Missing

LEMMA PairStep == TypeOK /\ PairInv /\ [Next]_vars => PairInv'
<1> SUFFICES ASSUME TypeOK, PairInv, [Next]_vars PROVE PairInv'
  OBVIOUS
<1> USE DEF PairInv
\* Steps that only move jobs on.
<1>1. ASSUME JobsHaveKind', UNCHANGED <<disk, mem, damaged, swapped>>
      PROVE  PairInv'
  BY <1>1 DEF NoLoneScaler, ScalerInPlace, PairsAgree, Fits
\* Steps that damage.
<1>2. ASSUME JobsHaveKind', NoLoneScaler', damaged' PROVE PairInv'
  BY <1>2 DEF ScalerInPlace, PairsAgree
<1>3. CASE Boot
  BY <1>3, PairBoot
<1>4. ASSUME NEW j \in Jobs, NEW k \in Kinds \ {"none"}, Trigger(j, k)
      PROVE  PairInv'
  BY <1>1, <1>4, BeginHasKind DEF Trigger
<1>5. ASSUME NEW j \in Jobs, NoData(j) PROVE PairInv'
  <2>1. JobsHaveKind'
    BY <1>5 DEF NoData, TypeOK, JobsHaveKind
  <2> QED BY <1>1, <1>5, <2>1 DEF NoData
<1>6. ASSUME NEW j \in Jobs, Train(j) PROVE PairInv'
  BY <1>6, PairTrain
<1>7. ASSUME NEW j \in Jobs, NEW n \in 0 .. 4, NEW torn \in BOOLEAN,
             TrainFails(j, n, torn)
      PROVE  PairInv'
  <2>1. n \in Cuts(j) /\ mem' = Assigned(j, n) /\ damaged'
    BY <1>7 DEF TrainFails
  <2>2. NoLoneScaler'
    BY <2>1, PairCut DEF NoLoneScaler
  <2>3. JobsHaveKind'
    BY <1>7 DEF TrainFails, TypeOK, JobsHaveKind
  <2> QED BY <1>2, <2>1, <2>2, <2>3
<1>8. ASSUME NEW j \in Jobs, Record(j) PROVE PairInv'
  <2>1. JobsHaveKind'
    BY <1>8 DEF Record, TypeOK, JobsHaveKind
  <2> QED BY <1>1, <1>8, <2>1 DEF Record
<1>9. ASSUME NEW j \in Jobs, RecordFails(j) PROVE PairInv'
  <2>1. JobsHaveKind'
    BY <1>9 DEF RecordFails, TypeOK, JobsHaveKind
  <2> QED BY <1>1, <1>9, <2>1 DEF RecordFails
\* A dead process has nothing in memory.
<1>10. ASSUME Die PROVE JobsHaveKind' /\ NoLoneScaler' /\ mem' = Nothing
  BY <1>10 DEF Die, JobsHaveKind, NoLoneScaler, Nothing, Parts
<1>11. CASE Crash
  <2>1. mem' = [p \in Parts |-> Missing] /\ disk' = disk /\ damaged' = damaged
    BY <1>10, <1>11 DEF Crash, Nothing
  <2>2. \A p \in Parts : mem'[p] = Missing
    BY <2>1
  <2>3. JobsHaveKind' /\ NoLoneScaler'
    BY <1>10, <1>11 DEF Crash
  <2> QED BY <2>1, <2>2, <2>3 DEF ScalerInPlace, PairsAgree, Fits, Parts
<1>12. ASSUME NEW j \in Jobs, NEW n \in 0 .. 4, NEW torn \in BOOLEAN,
              CrashInTraining(j, n, torn)
       PROVE  PairInv'
  <2>1. Die /\ damaged'
    BY <1>12 DEF CrashInTraining
  <2> QED BY <1>2, <1>10, <2>1
<1>13. CASE Cleanup
  <2>1. JobsHaveKind' /\ NoLoneScaler' /\ damaged'
    BY <1>13 DEF Cleanup, JobsHaveKind, NoLoneScaler
  <2> QED BY <1>2, <2>1
<1>14. CASE UNCHANGED vars
  <2>1. JobsHaveKind' /\ UNCHANGED <<disk, mem, damaged, swapped>>
    BY <1>14 DEF vars, JobsHaveKind
  <2> QED BY <1>1, <2>1
<1> QED BY <1>3, <1>4, <1>5, <1>6, <1>7, <1>8, <1>9, <1>11, <1>12, <1>13, <1>14
        DEF Next, JobStep

\* Whatever training jobs overlap, fail or die, a detector and its scaler come
\* from one run until a run is cut short or files are deleted.
THEOREM PairsAlwaysAgree == Spec => []PairsAgree
<1>1. Init => PairInv
  BY DEF Init, Nothing, Parts, Missing, PairInv, JobsHaveKind, NoLoneScaler,
         ScalerInPlace, PairsAgree, Fits
<1>2. PairInv => PairsAgree
  BY DEF PairInv
<1> QED BY <1>1, <1>2, PairStep, TypeCorrect, PTL DEF Spec

-----------------------------------------------------------------------------
(* No detector without a scaler file *)

\* As long as nobody deletes files: a detector's file never lies there without
\* its scaler's, the scaler in memory has its file, and nothing in memory is
\* unfitted.
ScalersThere ==
    cleanups = 0 =>
        /\ disk["if_detector"] # Missing => disk["net_scaler"] # Missing
        /\ disk["ae_detector"] # Missing => disk["proc_scaler"] # Missing
        /\ mem["proc_scaler"] # Missing => disk["proc_scaler"] # Missing
        /\ \A p \in Parts : mem[p] # Unfitted

\* Nor does a training run leave one, however it ends.
LEMMA ThereCut ==
    ASSUME TypeOK, ScalersThere, cleanups = 0, NEW j \in Jobs, NEW n \in Cuts(j)
    PROVE  \A d \in {Saved(j, n), SavedTorn(j, n)} :
                /\ d["if_detector"] # Missing => d["net_scaler"] # Missing
                /\ d["ae_detector"] # Missing => d["proc_scaler"] # Missing
                /\ mem["proc_scaler"] # Missing => d["proc_scaler"] # Missing
<1>1. n \in Int /\ 0 <= n /\ n <= 4 /\ runs \in Nat
  BY CutRange DEF TypeOK
<1>2. FineTunes(j) => mem["proc_scaler"] # Missing
  BY DEF FineTunes
<1>3. ASSUME NEW d, d = Saved(j, n)
      PROVE  /\ d["if_detector"] # Missing => d["net_scaler"] # Missing
             /\ d["ae_detector"] # Missing => d["proc_scaler"] # Missing
             /\ mem["proc_scaler"] # Missing => d["proc_scaler"] # Missing
  BY <1>1, <1>2, <1>3, SavedFiles DEF ScalersThere, Missing
<1>4. ASSUME NEW d, d = SavedTorn(j, n)
      PROVE  /\ d["if_detector"] # Missing => d["net_scaler"] # Missing
             /\ d["ae_detector"] # Missing => d["proc_scaler"] # Missing
             /\ mem["proc_scaler"] # Missing => d["proc_scaler"] # Missing
  BY <1>1, <1>2, <1>4, SavedFiles, TornFiles DEF ScalersThere, Missing, Torn
<1> QED BY <1>3, <1>4

\* What a cut run leaves in memory is fitted.
LEMMA FittedCut ==
    ASSUME TypeOK, ScalersThere, cleanups = 0, NEW j \in Jobs, NEW n \in Cuts(j)
    PROVE  /\ Assigned(j, n)["proc_scaler"] = mem["proc_scaler"]
           /\ \A p \in Parts : Assigned(j, n)[p] # Unfitted
<1>1. n \in Int /\ mem \in [Parts -> Int] /\ runs \in Nat
  BY CutRange DEF TypeOK
<1>2. \A p \in Parts : mem[p] # Unfitted
  BY DEF ScalersThere
<1> QED BY <1>1, <1>2, AssignedParts DEF Parts, Unfitted

LEMMA ThereStep == TypeOK /\ ScalersThere /\ [Next]_vars => ScalersThere'
<1> SUFFICES ASSUME TypeOK, ScalersThere, [Next]_vars, cleanups' = 0
             PROVE  ScalersThere'
  BY DEF ScalersThere
<1>1. CASE UNCHANGED <<disk, mem, cleanups>>
  BY <1>1 DEF ScalersThere
<1>2. CASE Boot
  <2>1. /\ disk \in [Parts -> Int] /\ \A p \in Parts : disk[p] >= Torn
        /\ mem' = Load(disk) /\ disk' = disk /\ cleanups = 0
    BY <1>2 DEF Boot, TypeOK
  <2>2. /\ disk["if_detector"] # Missing => disk["net_scaler"] # Missing
        /\ disk["ae_detector"] # Missing => disk["proc_scaler"] # Missing
    BY <2>1 DEF ScalersThere
  <2>3. /\ mem'["if_detector"] =
              IF disk["if_detector"] > 0 THEN disk["if_detector"] ELSE Missing
        /\ mem'["ae_detector"] >= Missing
        /\ mem'["net_scaler"] # Missing =>
              /\ disk["if_detector"] > 0
              /\ mem'["net_scaler"] = LoadScaler(disk["net_scaler"])
        /\ mem'["proc_scaler"] # Missing =>
              /\ disk["ae_detector"] > 0
              /\ mem'["proc_scaler"] = LoadScaler(disk["proc_scaler"])
    BY <2>1, Loaded
  <2>4. mem'["if_detector"] # Unfitted /\ mem'["ae_detector"] # Unfitted
    BY <2>1, <2>3 DEF Parts, Missing, Unfitted, Torn
  <2>5. /\ mem'["net_scaler"] # Missing => mem'["net_scaler"] = disk["net_scaler"]
        /\ mem'["proc_scaler"] # Missing => mem'["proc_scaler"] = disk["proc_scaler"]
    BY <2>2, <2>3 DEF LoadScaler, Missing
  <2>6. mem'["net_scaler"] # Unfitted /\ mem'["proc_scaler"] # Unfitted
    BY <2>1, <2>5 DEF Parts, Missing, Unfitted, Torn
  <2> QED BY <2>1, <2>2, <2>4, <2>5, <2>6 DEF ScalersThere, Parts
<1>3. ASSUME NEW j \in Jobs, Train(j) PROVE ScalersThere'
  <2>1. 4 \in Cuts(j) /\ cleanups = 0 /\ disk' = Saved(j, 4) /\ runs \in Nat
    BY <1>3 DEF Train, TypeOK
  <2>2. CASE kind[j] = "initial"
    <3>1. \A p \in Parts : disk'[p] = runs + 1 /\ mem'[p] = runs + 1
      BY <1>3, <2>2, TrainedParts
    <3> QED BY <2>1, <3>1 DEF ScalersThere, Parts, Missing, Unfitted
  <2>3. CASE kind[j] # "initial"
    <3>1. mem' = Assigned(j, 4)
      BY <1>3, <2>3, TrainedParts
    <3> QED BY <2>1, <3>1, ThereCut, FittedCut DEF ScalersThere
  <2> QED BY <2>2, <2>3
<1>4. ASSUME NEW j \in Jobs, NEW n \in 0 .. 4, NEW torn \in BOOLEAN,
             TrainFails(j, n, torn)
      PROVE  ScalersThere'
  <2>1. /\ n \in Cuts(j) /\ cleanups = 0 /\ mem' = Assigned(j, n)
        /\ disk' \in {Saved(j, n), SavedTorn(j, n)}
    BY <1>4 DEF TrainFails
  <2> QED BY <2>1, ThereCut, FittedCut DEF ScalersThere
<1>5. ASSUME Die PROVE /\ cleanups = 0
                       /\ mem' = Nothing /\ mem'["proc_scaler"] = Missing
                       /\ \A p \in Parts : mem'[p] # Unfitted
  BY <1>5 DEF Die, Nothing, Parts, Missing, Unfitted
<1>6. CASE Crash
  BY <1>5, <1>6 DEF Crash, ScalersThere
<1>7. ASSUME NEW j \in Jobs, NEW n \in 0 .. 4, NEW torn \in BOOLEAN,
             CrashInTraining(j, n, torn)
      PROVE  ScalersThere'
  <2>1. /\ n \in Cuts(j) /\ Die
        /\ disk' \in {Saved(j, n), SavedTorn(j, n)}
    BY <1>7 DEF CrashInTraining
  <2> QED BY <1>5, <2>1, ThereCut DEF ScalersThere
<1>8. ASSUME Cleanup PROVE FALSE
  BY <1>8 DEF Cleanup, TypeOK
<1>9. ASSUME NEW j \in Jobs,
             \/ NoData(j) \/ Record(j) \/ RecordFails(j)
             \/ \E k \in Kinds : Trigger(j, k)
      PROVE  UNCHANGED <<disk, mem, cleanups>>
  BY <1>9 DEF NoData, Record, RecordFails, Trigger
<1>10. CASE UNCHANGED vars
  BY <1>1, <1>10 DEF vars
<1> QED BY <1>1, <1>2, <1>3, <1>4, <1>6, <1>7, <1>8, <1>9, <1>10
        DEF Next, JobStep

\* However training is cut short, an unfitted scaler gets into memory only
\* after a deletion of files.
THEOREM UnfittedOnlyByCleanup == Spec => []UnfittedNeedsCleanup
<1>1. Init => ScalersThere
  BY DEF Init, Nothing, Parts, Missing, Unfitted, ScalersThere
<1>2. TypeOK /\ ScalersThere => UnfittedNeedsCleanup
  BY DEF TypeOK, ScalersThere, UnfittedNeedsCleanup
<1> QED BY <1>1, <1>2, ThereStep, TypeCorrect, PTL DEF Spec

=============================================================================
