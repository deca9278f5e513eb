---------------------------- MODULE ModelRegistry ----------------------------
(***************************************************************************)
(* The detectors ModelManager scores with, the files they are loaded from   *)
(* at boot, and the training jobs that replace both.                        *)
(*                                                                          *)
(* The isolation forest and the autoencoder each work on inputs scaled by   *)
(* the scaler fitted in the training run that made them. A scaler's version *)
(* is the number of the run that fitted it; a detector's is the version of  *)
(* the scaler its inputs were scaled with when it was trained.              *)
(*                                                                          *)
(* Training makes no await, so it is one step of the event loop, but it     *)
(* saves file after file: an exception or the death of the process cuts it  *)
(* short between two saves, or in the middle of one. The LSTM has no scaler *)
(* and is left out; its training comes after the saves modelled here.       *)
(***************************************************************************)
EXTENDS Integers

CONSTANTS
    Jobs,        \* bound: training jobs ever started; each trains at most once
    MaxFaults,   \* bound: exceptions and crashes, together
    MaxCleanups  \* bound: runs of the cleanup script

ASSUME RegistryAssumption == MaxFaults \in Nat /\ MaxCleanups \in Nat

VARIABLES
    disk,      \* version in each file
    mem,       \* version each attribute of ModelManager has
    up,        \* the process runs
    kind,      \* job_type of each job
    status,    \* status in each job's record
    phase,     \* where each job is
    runs,      \* training runs begun
    faults, cleanups,
    damaged,   \* a run was cut short, or files deleted, since the last full
               \* initial training
    swapped    \* retraining replaced the forest in this life of the process

vars == <<disk, mem, up, kind, status, phase, runs, faults, cleanups, damaged,
          swapped>>

-----------------------------------------------------------------------------

Parts == {"net_scaler", "if_detector", "proc_scaler", "ae_detector"}

\* Mutant: each detector is saved before its scaler.
PlaceDetectorFirst ==
    [net_scaler |-> 2, if_detector |-> 1, proc_scaler |-> 4, ae_detector |-> 3]

\* The order in which a training run saves them.
Place == [net_scaler |-> 1, if_detector |-> 2, proc_scaler |-> 3, ae_detector |-> 4]

Missing == 0
Torn == -1
Unfitted == -2   \* a StandardScaler nobody has fitted

Nothing == [p \in Parts |-> Missing]

Kinds == {"none", "initial", "incremental"}

TypeOK ==
    /\ disk \in [Parts -> Int]
    /\ \A p \in Parts : disk[p] >= Torn
    /\ mem \in [Parts -> Int]
    /\ mem["if_detector"] >= Missing /\ mem["ae_detector"] >= Missing
    /\ \A p \in Parts : mem[p] >= Missing \/ mem[p] = Unfitted
    /\ up \in BOOLEAN
    /\ kind \in [Jobs -> Kinds]
    /\ status \in [Jobs -> {"none", "started", "completed", "failed"}]
    /\ phase \in [Jobs -> {"none", "data", "empty", "finish", "fail"}]
    /\ runs \in Nat
    /\ faults \in 0 .. MaxFaults
    /\ cleanups \in 0 .. MaxCleanups
    /\ damaged \in BOOLEAN
    /\ swapped \in BOOLEAN

Init ==
    /\ disk = Nothing
    /\ mem = Nothing
    /\ up = FALSE
    /\ kind = [j \in Jobs |-> "none"]
    /\ status = [j \in Jobs |-> "none"]
    /\ phase = [j \in Jobs |-> "none"]
    /\ runs = 0
    /\ faults = 0
    /\ cleanups = 0
    /\ damaged = FALSE
    /\ swapped = FALSE

-----------------------------------------------------------------------------
(* Boot *)

\* load_scaler: a file that is not there is an uncalibrated default.
LoadScaler(v) == IF v = Missing THEN Unfitted ELSE v

\* Mutant: the scalers are taken as they are, readable or not.
LoadUnchecked(d) ==
    [net_scaler |-> LoadScaler(d["net_scaler"]),
     if_detector |-> IF d["if_detector"] > 0 THEN d["if_detector"] ELSE Missing,
     proc_scaler |-> LoadScaler(d["proc_scaler"]),
     ae_detector |-> IF d["ae_detector"] > 0 THEN d["ae_detector"] ELSE Missing]

\* initialize stops for good at the first file it cannot read.
Load(d) ==
    LET forest == d["if_detector"] > 0
        stopped == d["if_detector"] = Torn \/ (forest /\ d["net_scaler"] = Torn)
        auto == d["ae_detector"] > 0 /\ ~stopped
    IN  [net_scaler |-> IF forest /\ ~stopped THEN LoadScaler(d["net_scaler"])
                        ELSE Missing,
         if_detector |-> IF forest THEN d["if_detector"] ELSE Missing,
         proc_scaler |-> IF auto /\ d["proc_scaler"] # Torn
                         THEN LoadScaler(d["proc_scaler"]) ELSE Missing,
         ae_detector |-> IF auto THEN d["ae_detector"] ELSE Missing]

\* A job's record is written before the job's try block.
Begin(j, k) ==
    /\ status[j] = "none"
    /\ kind' = [kind EXCEPT ![j] = k]
    /\ status' = [status EXCEPT ![j] = "started"]
    /\ phase' = [phase EXCEPT ![j] = "data"]

\* lifespan: load the models; train if the file of a detector is not there.
Boot ==
    /\ ~up
    /\ up' = TRUE
    /\ mem' = Load(disk)
    /\ swapped' = FALSE
    /\ IF disk["if_detector"] = Missing \/ disk["ae_detector"] = Missing
       THEN \E j \in Jobs : Begin(j, "initial")
       ELSE UNCHANGED <<kind, status, phase>>
    /\ UNCHANGED <<disk, runs, faults, cleanups, damaged>>

-----------------------------------------------------------------------------
(* Training *)

\* POST /training/initial and /training/incremental, and the weekly job.
Trigger(j, k) ==
    /\ up
    /\ Begin(j, k)
    /\ UNCHANGED <<disk, mem, up, runs, faults, cleanups, damaged, swapped>>

\* Mutant: a job without data returns and leaves its record.
NoDataReturns(j) ==
    /\ phase[j] = "data"
    /\ phase' = [phase EXCEPT ![j] = "none"]
    /\ UNCHANGED <<disk, mem, up, kind, status, runs, faults, cleanups,
                   damaged, swapped>>

\* The feature pipeline has nothing to train on, or raises.
NoData(j) ==
    /\ phase[j] = "data"
    /\ \E outcome \in {"empty", "fail"} : phase' = [phase EXCEPT ![j] = outcome]
    /\ UNCHANGED <<disk, mem, up, kind, status, runs, faults, cleanups,
                   damaged, swapped>>

\* Retraining fine-tunes an autoencoder that is there with its scaler, in
\* place and on inputs that scaler scales; otherwise it makes a new one.
FineTunes(j) ==
    /\ kind[j] = "incremental"
    /\ mem["ae_detector"] # Missing
    /\ mem["proc_scaler"] # Missing

\* How many saves a run can get to: fine-tuning cannot use an unfitted scaler.
Cuts(j) == IF FineTunes(j) /\ mem["proc_scaler"] = Unfitted THEN 0 .. 2 ELSE 0 .. 4

\* What the files hold after the first n saves of j's run.
Saved(j, n) ==
    [p \in Parts |->
        IF Place[p] > n THEN disk[p]
        ELSE IF ~FineTunes(j) \/ Place[p] <= 2 THEN runs + 1
        ELSE IF p = "ae_detector" THEN mem["proc_scaler"] ELSE disk[p]]

\* The same, if the save after those is cut.
SavedTorn(j, n) ==
    [p \in Parts |-> IF Place[p] = n + 1 /\ (FineTunes(j) => p # "proc_scaler")
                     THEN Torn ELSE Saved(j, n)[p]]

\* What ModelManager has by then. No scaler is among it: those are loaded at
\* the end of an initial training, and not at all by retraining.
Assigned(j, n) ==
    [mem EXCEPT
        !["if_detector"] = IF n >= 2 THEN runs + 1 ELSE @,
        !["ae_detector"] = IF FineTunes(j)
                           THEN IF n >= 3 THEN mem["proc_scaler"] ELSE @
                           ELSE IF n >= 4 THEN runs + 1 ELSE @]

\* Mutant: the scalers are loaded before the detectors are trained.
TrainLoadsFirst(j) ==
    /\ phase[j] = "data"
    /\ 4 \in Cuts(j)
    /\ runs' = runs + 1
    /\ disk' = Saved(j, 4)
    /\ mem' = IF kind[j] = "initial"
              THEN [Assigned(j, 4) EXCEPT
                        !["net_scaler"] = LoadScaler(disk["net_scaler"]),
                        !["proc_scaler"] = LoadScaler(disk["proc_scaler"])]
              ELSE Assigned(j, 4)
    /\ damaged' = (kind[j] # "initial" /\ damaged)
    /\ swapped' = (kind[j] # "initial")
    /\ phase' = [phase EXCEPT ![j] = "finish"]
    /\ UNCHANGED <<up, kind, status, faults, cleanups>>

\* A run that goes through.
Train(j) ==
    /\ phase[j] = "data"
    /\ 4 \in Cuts(j)
    /\ runs' = runs + 1
    /\ disk' = Saved(j, 4)
    /\ mem' = IF kind[j] = "initial"
              THEN [Assigned(j, 4) EXCEPT
                        !["net_scaler"] = LoadScaler(disk'["net_scaler"]),
                        !["proc_scaler"] = LoadScaler(disk'["proc_scaler"])]
              ELSE Assigned(j, 4)
    /\ damaged' = (kind[j] # "initial" /\ damaged)
    /\ swapped' = (kind[j] # "initial")
    /\ phase' = [phase EXCEPT ![j] = "finish"]
    /\ UNCHANGED <<up, kind, status, faults, cleanups>>

\* A run cut short by an exception after n saves: a fault, unless it is the
\* fine-tuning that finds its scaler unfitted.
TrainFails(j, n, torn) ==
    /\ phase[j] = "data"
    /\ n \in Cuts(j)
    /\ \/ /\ faults < MaxFaults
          /\ faults' = faults + 1
       \/ /\ 4 \notin Cuts(j)
          /\ n = 2 /\ ~torn
          /\ UNCHANGED faults
    /\ runs' = runs + 1
    /\ disk' = IF torn THEN SavedTorn(j, n) ELSE Saved(j, n)
    /\ mem' = Assigned(j, n)
    /\ damaged' = TRUE
    /\ swapped' = (swapped \/ n >= 2)
    /\ phase' = [phase EXCEPT ![j] = "fail"]
    /\ UNCHANGED <<up, kind, status, cleanups>>

\* The record gets its outcome.
Record(j) ==
    /\ phase[j] \in {"empty", "finish", "fail"}
    /\ status' = [status EXCEPT ![j] =
                    IF phase[j] = "finish" THEN "completed" ELSE "failed"]
    /\ phase' = [phase EXCEPT ![j] = "none"]
    /\ UNCHANGED <<disk, mem, up, kind, runs, faults, cleanups, damaged, swapped>>

\* Writing the outcome raises: it becomes a failure, to be recorded by the
\* handler of the exception, and a failure there is never recorded.
RecordFails(j) ==
    /\ phase[j] \in {"empty", "finish", "fail"}
    /\ faults < MaxFaults
    /\ faults' = faults + 1
    /\ phase' = [phase EXCEPT ![j] = IF @ = "fail" THEN "none" ELSE "fail"]
    /\ UNCHANGED <<disk, mem, up, kind, status, runs, cleanups, damaged, swapped>>

-----------------------------------------------------------------------------

\* The process is gone: memory and jobs with it, but not files and records.
Die ==
    /\ up
    /\ faults < MaxFaults
    /\ faults' = faults + 1
    /\ up' = FALSE
    /\ mem' = Nothing
    /\ phase' = [j \in Jobs |-> "none"]
    /\ swapped' = FALSE
    /\ UNCHANGED <<kind, status, cleanups>>

\* It dies between steps ...
Crash ==
    /\ Die
    /\ UNCHANGED <<disk, runs, damaged>>

\* ... or during a training run.
CrashInTraining(j, n, torn) ==
    /\ phase[j] = "data"
    /\ n \in Cuts(j)
    /\ Die
    /\ runs' = runs + 1
    /\ disk' = IF torn THEN SavedTorn(j, n) ELSE Saved(j, n)
    /\ damaged' = TRUE

\* cleanup.py --execute: it keeps the files of the two detectors, and deletes
\* the others, unless MLflow cannot be asked.
Cleanup ==
    /\ cleanups < MaxCleanups
    /\ cleanups' = cleanups + 1
    /\ disk' = [disk EXCEPT !["net_scaler"] = Missing, !["proc_scaler"] = Missing]
    /\ damaged' = TRUE
    /\ UNCHANGED <<mem, up, kind, status, phase, runs, faults, swapped>>

JobStep(j) ==
    \/ NoData(j)
    \/ Train(j)
    \/ \E n \in 0 .. 4, torn \in BOOLEAN : TrainFails(j, n, torn)
    \/ Record(j)
    \/ RecordFails(j)

Next ==
    \/ Boot
    \/ \E j \in Jobs :
        \/ \E k \in Kinds \ {"none"} : Trigger(j, k)
        \/ JobStep(j)
        \/ \E n \in 0 .. 4, torn \in BOOLEAN : CrashInTraining(j, n, torn)
    \/ Crash
    \/ Cleanup

Spec == Init /\ [][Next]_vars

\* A job's awaits return or raise. Nobody need start or clean up anything.
FairSpec == Spec /\ \A j \in Jobs : WF_vars(JobStep(j))

-----------------------------------------------------------------------------
(* Properties *)

Fits(m, detector, scaler) == m[detector] # Missing => m[scaler] = m[detector]

\* Whatever jobs overlap, a detector and its scaler come from one run: on
\* disk always, in memory for the autoencoder wherever it has a scaler, and
\* for the forest unless retraining replaced it. Only a run cut short or a
\* deletion undoes this, and one full initial training restores it.
PairsAgree ==
    ~damaged =>
        /\ Fits(disk, "if_detector", "net_scaler")
        /\ Fits(disk, "ae_detector", "proc_scaler")
        /\ mem["proc_scaler"] # Missing => Fits(mem, "ae_detector", "proc_scaler")
        /\ ~swapped => Fits(mem, "if_detector", "net_scaler")

\* However a training run is cut short, no boot finds a detector without a
\* scaler file: nothing is scored with an unfitted scaler, unless someone
\* deleted the file.
UnfittedNeedsCleanup ==
    (\E p \in Parts : mem[p] = Unfitted) => cleanups > 0

\* A job's record does not say "started" for ever, unless something fails.
JobsEnd ==
    \A j \in Jobs : (status[j] = "started") ~>
                        (status[j] \in {"completed", "failed"} \/ faults > 0)

\* After retraining, ModelManager has what was saved.
RetrainingReloads ==
    (swapped /\ ~damaged /\ \A j \in Jobs : phase[j] = "none") =>
        \A p \in Parts : mem[p] = disk[p]

\* The cleanup script deletes orphans: never the scaler of a detector it keeps.
CleanupKeepsScalers ==
    /\ disk["if_detector"] > 0 => disk["net_scaler"] # Missing
    /\ disk["ae_detector"] > 0 => disk["proc_scaler"] # Missing

=============================================================================
