----------------------------- MODULE Checkpoints -----------------------------
(***************************************************************************)
(* What the trainer carries from step to step and across restarts: model,  *)
(* optimizer state (which may live on the CPU between steps), learning     *)
(* rate scheduler and progress; the resumable checkpoints and the weight   *)
(* checkpoints it writes, and the retention that deletes old ones.         *)
(*                                                                         *)
(* Parameters and states are counted by the updates they have seen.        *)
(***************************************************************************)
EXTENDS Integers, Sequences, FiniteSets, SequencesExt

CONSTANTS
    MaxSteps,       \* max_steps
    Interval,       \* ckpt.interval
    KeepLast,       \* ckpt.keep_last, 0 for None
    KeepInterval,   \* ckpt.keep_interval, 0 for None
    Offload,        \* model.optim_cpu_offload
    Warmup, Decay,  \* scheduler.warmup_steps, decay_steps (linear)
    Low, Full,      \* min_lr and lr, in units that make every rate whole
    MaxRestarts     \* bound: restarts

Steps == 1 .. MaxSteps

VARIABLES
    pc,         \* position of the training loop
    progress,   \* progress.step
    model,      \* updates the parameters have seen
    optimizer,  \* [seen, where, ready]: updates, "none", "gpu" or "cpu", _initialized
    schedule,   \* steps of the scheduler
    disk,       \* checkpoints: [kind, model, seen, schedule, step], kind "none", "torn", "whole"
    stable,     \* steps with a STABLE file
    steps,      \* ckpt_steps of the CheckpointManager
    weights,    \* weight checkpoints: "none", "torn", "whole"
    weightSteps,\* ckpt_steps of the WeightCheckpointManager
    restarted

ckptVars == <<pc, progress, model, optimizer, schedule, disk, stable, steps, weights, weightSteps,
              restarted>>

NoState == [seen |-> 0, where |-> "none", ready |-> FALSE]
NoFile == [kind |-> "none", model |-> 0, seen |-> 0, schedule |-> 0, step |-> 0]
Torn == [NoFile EXCEPT !.kind = "torn"]
Holds(s) == disk[s].kind = "whole"
OnDisk == {s \in Steps : disk[s].kind # "none"}
Weighed == {s \in Steps : weights[s] # "none"}
Ascending(set) == SetToSortSeq(set, LAMBDA s, t : s < t)
Elements(seq) == {seq[i] : i \in DOMAIN seq}

Init ==
    /\ pc = "forward" /\ progress = 1 /\ model = 0
    /\ optimizer = NoState /\ schedule = 0
    /\ disk = [s \in Steps |-> NoFile] /\ stable = {} /\ steps = <<>>
    /\ weights = [s \in Steps |-> "none"] /\ weightSteps = <<>>
    /\ restarted = 0

LastStep == progress >= MaxSteps

\* setup_linear_scheduler: warm-up, plateau and decay of the rate after so many
\* steps; SequentialLR restarts each phase's own count at its milestone.
Rate(count) ==
    LET decayStart == MaxSteps - Decay
        into == IF count - decayStart > Decay - 1 THEN Decay - 1 ELSE count - decayStart
    IN IF count < Warmup THEN Low + ((Full - Low) * count) \div Warmup
       ELSE IF Decay <= 1 \/ count < decayStart THEN Full
       ELSE Full - ((Full - Low) * into) \div (Decay - 1)

-----------------------------------------------------------------------------
(* One step.                                                               *)

\* Mutant: the states stay on the GPU after the first step.
SteppedResident ==
    [seen |-> optimizer.seen + 1, ready |-> TRUE,
     where |-> IF Offload /\ optimizer.ready THEN "cpu" ELSE "gpu"]

\* CPUOffloadOptimizer.step: the first one makes the states on the GPU, later
\* ones fetch them; either way they are back on the CPU at the end.
Stepped ==
    [seen |-> optimizer.seen + 1, ready |-> TRUE,
     where |-> IF Offload THEN "cpu" ELSE "gpu"]

Forward ==
    /\ pc = "forward"
    /\ model' = model + 1
    /\ optimizer' = Stepped
    /\ schedule' = schedule + 1
    /\ pc' = IF LastStep \/ progress % Interval = 0 THEN "save" ELSE "next"
    /\ UNCHANGED <<progress, disk, stable, steps, weights, weightSteps, restarted>>

NextStep ==
    /\ pc = "next"
    /\ progress' = progress + 1
    /\ pc' = "forward"
    /\ UNCHANGED <<model, optimizer, schedule, disk, stable, steps, weights, weightSteps, restarted>>

-----------------------------------------------------------------------------
(* CheckpointManager.                                                      *)

\* save writes into the directory of the step, whatever it holds.
BeginSave ==
    /\ pc = "save"
    /\ disk' = [disk EXCEPT ![progress] = Torn]
    /\ pc' = "saving"
    /\ UNCHANGED <<progress, model, optimizer, schedule, stable, steps, weights, weightSteps, restarted>>

Inserted(seq, s) == SortSeq(Append(seq, s), LAMBDA a, b : a < b)

\* AppState.state_dict: the states are staged on the GPU and taken back.
Save ==
    /\ pc = "saving"
    /\ disk' = [disk EXCEPT ![progress] =
                  [kind |-> "whole", model |-> model, seen |-> optimizer.seen, schedule |-> schedule, step |-> progress]]
    /\ optimizer' = [optimizer EXCEPT !.where = IF Offload THEN "cpu" ELSE @]
    /\ steps' = Inserted(steps, progress)
    /\ pc' = "stable"
    /\ UNCHANGED <<progress, model, schedule, stable, weights, weightSteps, restarted>>

MarkStable ==
    /\ pc = "stable"
    /\ stable' = stable \cup {progress}
    /\ pc' = "clean"
    /\ UNCHANGED <<progress, model, optimizer, schedule, disk, steps, weights, weightSteps, restarted>>

\* The steps maybe_clean keeps.
Kept(seq) ==
    IF KeepLast = 0 /\ KeepInterval = 0 THEN Elements(seq)
    ELSE {seq[i] : i \in {j \in DOMAIN seq : KeepLast > 0 /\ j > Len(seq) - KeepLast}}
           \cup {s \in Elements(seq) : KeepInterval > 0 /\ s % KeepInterval = 0}

Retained(seq) == SelectSeq(seq, LAMBDA s : s \in Kept(seq))

\* rmtree of a directory may fail, which is logged and forgotten.
Clean ==
    /\ pc = "clean"
    /\ LET gone == Elements(steps) \ Kept(steps)
       IN \E failed \in SUBSET gone : \E marked \in SUBSET failed :
            /\ disk' = [s \in Steps |-> IF s \in failed THEN Torn
                                        ELSE IF s \in gone THEN NoFile ELSE disk[s]]
            /\ stable' = (stable \ gone) \cup (stable \cap marked)
    /\ steps' = Retained(steps)
    /\ pc' = "weights"
    /\ UNCHANGED <<progress, model, optimizer, schedule, weights, weightSteps, restarted>>

\* WeightCheckpointManager.save and maybe_clean.
SaveWeights ==
    /\ pc = "weights"
    /\ weights' = [weights EXCEPT ![progress] = "torn"]
    /\ pc' = "weighing"
    /\ UNCHANGED <<progress, model, optimizer, schedule, disk, stable, steps, weightSteps, restarted>>

CleanWeights ==
    /\ pc = "weighing"
    /\ LET all == Inserted(weightSteps, progress)
           written == [weights EXCEPT ![progress] = "whole"]
       IN /\ weights' = [s \in Steps |-> IF s \in Elements(all) \ Kept(all) THEN "none" ELSE written[s]]
          /\ weightSteps' = Retained(all)
    /\ pc' = IF LastStep THEN "finished" ELSE "next"
    /\ UNCHANGED <<progress, model, optimizer, schedule, disk, stable, steps, restarted>>

-----------------------------------------------------------------------------
(* Restart.                                                                *)

\* The managers list what is on disk, up to an explicit resume_step.
Listed(dirs, resume) == Ascending({s \in dirs : resume = -1 \/ s <= resume})

\* resume_step -1 takes the latest directory, whatever is in it.
ResumeFrom(resume) ==
    IF resume # -1 THEN resume
    ELSE IF OnDisk = {} THEN 0 ELSE CHOOSE s \in OnDisk : \A t \in OnDisk : s >= t

\* load: the template is offloaded before it is filled, so the states never
\* reach the GPU.
Resume(resume) ==
    LET from == ResumeFrom(resume)
    IN /\ pc # "forward" /\ restarted < MaxRestarts
       /\ restarted' = restarted + 1
       /\ steps' = Listed(OnDisk, resume)
       /\ weightSteps' = Listed(Weighed, resume)
       /\ from < MaxSteps
       /\ IF from = 0
          THEN /\ progress' = 1 /\ model' = 0 /\ optimizer' = NoState /\ schedule' = 0
               /\ pc' = "forward"
          ELSE IF ~Holds(from)
          THEN pc' = "failed" /\ UNCHANGED <<progress, model, optimizer, schedule>>
          ELSE /\ model' = disk[from].model /\ schedule' = disk[from].schedule
               /\ optimizer' = [seen |-> disk[from].seen, ready |-> TRUE,
                                where |-> IF Offload THEN "cpu" ELSE "gpu"]
               /\ progress' = disk[from].step + 1
               /\ pc' = "forward"
       /\ UNCHANGED <<disk, stable, weights>>

Next ==
    \/ Forward \/ NextStep \/ BeginSave \/ Save \/ MarkStable \/ Clean \/ SaveWeights \/ CleanWeights
    \/ \E resume \in {-1} \cup {s \in Steps : Holds(s)} : Resume(resume)

Spec == Init /\ [][Next]_ckptVars

-----------------------------------------------------------------------------
\* Model, optimizer, scheduler and progress always belong to the same step,
\* whatever checkpoint the trainer came back from.
StateConsistent ==
    pc = "forward" => /\ model = progress - 1 /\ optimizer.seen = model /\ schedule = model

\* The learning rate starts at its minimum when there is a warm-up, stays within
\* its bounds and reaches the minimum in the last step, across any restarts.
RateReachesMinimum ==
    pc = "forward" =>
      /\ Rate(schedule) \in Low .. Full
      /\ progress = 1 /\ Warmup > 0 => Rate(schedule) = Low
      /\ progress = MaxSteps /\ Decay > 1 => Rate(schedule) = Low

\* The forward pass never shares the GPU with offloaded optimizer states.
OffloadKept == Offload /\ pc = "forward" => optimizer.where # "gpu"

\* Once a checkpoint has been marked STABLE, a whole one survives every clean-up,
\* overwriting and crash, so the trainer can be resumed, and the clean-up after
\* a save never takes the checkpoint just written (unless the retention only
\* keeps multiples of keep_interval).
ResumePointKept ==
    KeepLast > 0 \/ KeepInterval = 0 =>
      /\ stable # {} => \E s \in Steps : Holds(s)
      /\ pc \in {"weights", "weighing"} => Holds(progress)

\* The bookkeeping is sorted without repetition, as maybe_clean asserts, names
\* only directories that exist, and is as long as keep_last and keep_interval allow.
RetentionExact ==
    /\ \A i, j \in DOMAIN steps : i < j => steps[i] < steps[j]
    /\ pc # "failed" => Elements(steps) \subseteq OnDisk
    /\ pc = "weights" /\ KeepLast > 0 =>
         Cardinality({s \in Elements(steps) : KeepInterval = 0 \/ s % KeepInterval # 0}) <= KeepLast
=============================================================================
