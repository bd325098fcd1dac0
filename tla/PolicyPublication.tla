------------------------- MODULE PolicyPublication -------------------------
(***************************************************************************)
(* From trained weights to the active policy: the trainer subprocess,      *)
(* which writes a broadcast and a checkpoint for every step, and the       *)
(* coordinator's runtime, which turns the pair into a published policy,    *)
(* activates it, prunes what is redundant and, after a restart, resumes    *)
(* the trainer from the active version.                                    *)
(*                                                                         *)
(* The two processes share only directories.  Neither directory is         *)
(* replaced atomically: the trainer overwrites broadcasts/step_k and       *)
(* checkpoints/step_k in place and touches a STABLE file when it is done,  *)
(* and a STABLE file of an earlier attempt at the step stays there while   *)
(* the step is trained again.                                              *)
(*                                                                         *)
(* Training is not reproducible, so weights are the sequence of trainer    *)
(* runs that made their steps: a step trained again by a later run has     *)
(* other weights.  The base model is <<>>.                                 *)
(***************************************************************************)
EXTENDS Integers, Sequences

CONSTANTS
    MaxSteps,      \* max_steps of the trainer
    KeepLast,      \* published_checkpoint_keep_last, 0 if it is unset
    Distributed,   \* policy_distribution is configured
    MaxFaults      \* bound: crashes, trainer deaths and failed uploads

ASSUME PublicationAssumption ==
    /\ MaxSteps \in Nat \ {0}
    /\ KeepLast \in Nat
    /\ Distributed \in BOOLEAN
    /\ MaxFaults \in Nat

Step == 1 .. MaxSteps
Weights == Seq(Nat)
Torn == <<0>>          \* a file being written; runs are numbered from 1

\* A step directory: its weights, <<>> if there are none, and STABLE.
Directory == [weights: Weights, stable: BOOLEAN]
Missing == [weights |-> <<>>, stable |-> FALSE]

VARIABLES
    exported,    \* training batches in the trainer's directory
    broadcast,   \* <run>/broadcasts/step_k
    checkpoint,  \* checkpoints/step_k
    trainer,     \* the trainer process: position, step and weights
    run,         \* trainer runs launched
    policies,    \* policy directories under run_root: <<version, weights>>
    remote,      \* policies committed to the object store
    activated,   \* policies table: the weights of version 1, 2, ..., active
    pc,          \* position of CoordinatorRuntime
    candidate,   \* the weights being published
    starting,    \* CoordinatorRuntime.start has not finished
    faults       \* faults so far

disk == <<broadcast, checkpoint>>
published == <<policies, remote, activated>>
runtime == <<pc, candidate, starting>>
vars == <<exported, disk, trainer, run, published, runtime, faults>>

Active == Len(activated)

TypeOK ==
    /\ exported \in 0 .. MaxSteps
    /\ broadcast \in [Step -> Directory]
    /\ checkpoint \in [Step -> Directory]
    /\ trainer \in [pc: {"stopped", "load", "wait", "write", "overwrite", "notify",
                         "save", "resave", "mark", "exited"},
                    step: Step, weights: Weights]
    /\ run \in Nat
    /\ policies \in SUBSET (Step \X Weights)
    /\ remote \in SUBSET (Step \X Weights)
    /\ activated \in Seq(Weights)
    /\ pc \in {"down", "check", "load", "publish", "distribute", "activate", "prune",
               "redistribute", "tidy", "launch", "failed"}
    /\ candidate \in Weights
    /\ starting \in BOOLEAN
    /\ faults \in Nat

Init ==
    /\ exported = 0
    /\ broadcast = [s \in Step |-> Missing]
    /\ checkpoint = [s \in Step |-> Missing]
    /\ trainer = [pc |-> "stopped", step |-> 1, weights |-> <<>>]
    /\ run = 0
    /\ policies = {}
    /\ remote = {}
    /\ activated = <<>>
    /\ pc = "down"
    /\ candidate = <<>>
    /\ starting = TRUE
    /\ faults = 0

-----------------------------------------------------------------------------
(* The trainer: one training step after another.                           *)

\* Mutant: a resumed trainer starts from the base model.
LoadNothing ==
    /\ trainer.pc = "load"
    /\ trainer' = [trainer EXCEPT !.pc = "wait", !.weights = <<>>]
    /\ UNCHANGED <<exported, disk, run, published, runtime, faults>>

\* ckpt_manager.load: the checkpoint of the step resumed from; without one
\* the trainer dies.
LoadCheckpoint ==
    LET from == trainer.step - 1
    IN /\ trainer.pc = "load"
       /\ IF from = 0
          THEN trainer' = [trainer EXCEPT !.pc = "wait", !.weights = <<>>]
          ELSE IF checkpoint[from].weights \in {<<>>, Torn}
          THEN trainer' = [trainer EXCEPT !.pc = "exited"]
          ELSE trainer' = [trainer EXCEPT !.pc = "wait", !.weights = checkpoint[from].weights]
       /\ UNCHANGED <<exported, disk, run, published, runtime, faults>>

\* Mutant: the receiver waits for the batch after the one it needs.
TrainStepLate ==
    /\ trainer.pc = "wait"
    /\ trainer.step < exported
    /\ trainer' = [trainer EXCEPT !.pc = "write", !.weights = Append(@, run)]
    /\ UNCHANGED <<exported, disk, run, published, runtime, faults>>

\* pack receives the batch of the step; the optimizer makes new weights.
TrainStep ==
    /\ trainer.pc = "wait"
    /\ trainer.step <= exported
    /\ trainer' = [trainer EXCEPT !.pc = "write", !.weights = Append(@, run)]
    /\ UNCHANGED <<exported, disk, run, published, runtime, faults>>

\* broadcast_weights overwrites the adapter in place ...
OverwriteBroadcast ==
    /\ trainer.pc = "write"
    /\ broadcast' = [broadcast EXCEPT ![trainer.step].weights = Torn]
    /\ trainer' = [trainer EXCEPT !.pc = "overwrite"]
    /\ UNCHANGED <<exported, checkpoint, run, published, runtime, faults>>

FinishBroadcast ==
    /\ trainer.pc = "overwrite"
    /\ broadcast' = [broadcast EXCEPT ![trainer.step].weights = trainer.weights]
    /\ trainer' = [trainer EXCEPT !.pc = "notify"]
    /\ UNCHANGED <<exported, checkpoint, run, published, runtime, faults>>

\* ... and _notify_orchestrator touches STABLE.
NotifyOrchestrator ==
    /\ trainer.pc = "notify"
    /\ broadcast' = [broadcast EXCEPT ![trainer.step].stable = TRUE]
    /\ trainer' = [trainer EXCEPT !.pc = "save"]
    /\ UNCHANGED <<exported, checkpoint, run, published, runtime, faults>>

\* ckpt_manager.save, also in place ...
OverwriteCheckpoint ==
    /\ trainer.pc = "save"
    /\ checkpoint' = [checkpoint EXCEPT ![trainer.step].weights = Torn]
    /\ trainer' = [trainer EXCEPT !.pc = "resave"]
    /\ UNCHANGED <<exported, broadcast, run, published, runtime, faults>>

FinishCheckpoint ==
    /\ trainer.pc = "resave"
    /\ checkpoint' = [checkpoint EXCEPT ![trainer.step].weights = trainer.weights]
    /\ trainer' = [trainer EXCEPT !.pc = "mark"]
    /\ UNCHANGED <<exported, broadcast, run, published, runtime, faults>>

\* Mutant: the trainer goes on after its last step.
MarkStableAndGoOn ==
    /\ trainer.pc = "mark"
    /\ checkpoint' = [checkpoint EXCEPT ![trainer.step].stable = TRUE]
    /\ trainer' = [trainer EXCEPT !.pc = "wait", !.step = @ + 1]
    /\ UNCHANGED <<exported, broadcast, run, published, runtime, faults>>

\* ... and mark_stable; the trainer exits after its last step.
MarkStable ==
    /\ trainer.pc = "mark"
    /\ checkpoint' = [checkpoint EXCEPT ![trainer.step].stable = TRUE]
    /\ trainer' = IF trainer.step = MaxSteps
                  THEN [trainer EXCEPT !.pc = "exited"]
                  ELSE [trainer EXCEPT !.pc = "wait", !.step = @ + 1]
    /\ UNCHANGED <<exported, broadcast, run, published, runtime, faults>>

TrainerAlive == trainer.pc \notin {"stopped", "exited"}

\* The trainer dies alone; the coordinator goes on without it, not ready.
TrainerDies ==
    /\ TrainerAlive
    /\ faults < MaxFaults
    /\ faults' = faults + 1
    /\ trainer' = [trainer EXCEPT !.pc = "exited"]
    /\ UNCHANGED <<exported, disk, run, published, runtime>>

-----------------------------------------------------------------------------
(* _publish_available_policies, called by the service loop and by start.   *)

\* The service loop exports one more batch.
ExportBatch ==
    /\ pc \notin {"down", "failed"} /\ ~starting
    /\ exported < MaxSteps
    /\ exported' = exported + 1
    /\ UNCHANGED <<disk, trainer, run, published, runtime, faults>>

\* Mutant: the checkpoint is not waited for.
PublishableEarly(v) == v \in Step /\ broadcast[v].stable

Publishable(v) == v \in Step /\ broadcast[v].stable /\ checkpoint[v].stable

\* Both directories of the version after the active one are STABLE.
FindStable ==
    /\ pc = "check"
    /\ Publishable(Active + 1)
    /\ pc' = "load"
    /\ UNCHANGED <<exported, disk, trainer, run, published, candidate, starting, faults>>

\* start found every stable version published.
NothingToPublish ==
    /\ pc = "check" /\ starting
    /\ ~Publishable(Active + 1)
    /\ pc' = "redistribute"
    /\ UNCHANGED <<exported, disk, trainer, run, published, candidate, starting, faults>>

\* load_file raises on a file that is missing or being written.
LoadAdapter ==
    LET read == broadcast[Active + 1].weights
    IN /\ pc = "load"
       /\ IF read \in {<<>>, Torn}
          THEN pc' = "failed" /\ UNCHANGED candidate
          ELSE pc' = "publish" /\ candidate' = read
       /\ UNCHANGED <<exported, disk, trainer, run, published, starting, faults>>

\* Mutant: the policy is activated without being uploaded.
PublishLocally ==
    /\ pc = "publish"
    /\ policies' = policies \cup {<<Active + 1, candidate>>}
    /\ pc' = "activate"
    /\ UNCHANGED <<exported, disk, trainer, run, remote, activated, candidate, starting, faults>>

\* publish_lora_policy: a directory named by version and content appears at
\* once, or is there already.
PublishLoraPolicy ==
    /\ pc = "publish"
    /\ policies' = policies \cup {<<Active + 1, candidate>>}
    /\ pc' = IF Distributed THEN "distribute" ELSE "activate"
    /\ UNCHANGED <<exported, disk, trainer, run, remote, activated, candidate, starting, faults>>

\* The object store holds a policy under its version and content once every
\* file and then COMMITTED are uploaded; what is already there is verified.
Upload(v, weights) == remote' = remote \cup {<<v, weights>>}

\* S3PolicyDistributor.publish.
DistributePolicy ==
    /\ pc = "distribute"
    /\ Upload(Active + 1, candidate)
    /\ pc' = "activate"
    /\ UNCHANGED <<exported, disk, trainer, run, policies, activated, candidate, starting, faults>>

\* record_and_activate_policy.
ActivatePolicy ==
    /\ pc = "activate"
    /\ activated' = Append(activated, candidate)
    /\ candidate' = <<>>
    /\ pc' = "prune"
    /\ UNCHANGED <<exported, disk, trainer, run, policies, remote, starting, faults>>

\* Mutant: the retained checkpoints are counted without the active one.
PrunedTooFar(gone) ==
    /\ broadcast' = [s \in Step |-> IF s \in gone /\ s <= Active THEN Missing ELSE broadcast[s]]
    /\ checkpoint' = [s \in Step |->
            IF s \in gone /\ s <= Active - KeepLast + 1 THEN Missing ELSE checkpoint[s]]

\* prune_published_trainer_artifacts; a directory that cannot be removed is
\* logged and left.
Pruned(gone) ==
    /\ broadcast' = [s \in Step |-> IF s \in gone /\ s <= Active THEN Missing ELSE broadcast[s]]
    /\ checkpoint' = [s \in Step |->
            IF s \in gone /\ s <= Active - KeepLast THEN Missing ELSE checkpoint[s]]

PruneArtifacts ==
    IF KeepLast = 0 \/ Active = 0 THEN UNCHANGED disk ELSE \E gone \in SUBSET Step : Pruned(gone)

Prune ==
    /\ pc = "prune"
    /\ PruneArtifacts
    /\ pc' = "check"
    /\ UNCHANGED <<exported, trainer, run, published, candidate, starting, faults>>

-----------------------------------------------------------------------------
(* The rest of start.                                                      *)

RedistributeActive ==
    /\ pc = "redistribute"
    /\ IF Distributed /\ Active > 0 THEN Upload(Active, activated[Active]) ELSE UNCHANGED remote
    /\ pc' = "tidy"
    /\ UNCHANGED <<exported, disk, trainer, run, policies, activated, candidate, starting, faults>>

TidyUp ==
    /\ pc = "tidy"
    /\ PruneArtifacts
    /\ pc' = "launch"
    /\ UNCHANGED <<exported, trainer, run, published, candidate, starting, faults>>

\* A run resumed from step S goes on with step S + 1.
ResumeStep == Active + 1

\* _start_trainer with resume_step = the active version.
StartTrainer ==
    /\ trainer' = [pc |-> "load", step |-> ResumeStep, weights |-> <<>>]
    /\ run' = run + 1

\* The trainer is started unless the run is complete; then the service loop.
Launch ==
    /\ pc = "launch"
    /\ IF Active >= MaxSteps
       THEN UNCHANGED <<trainer, run>>
       ELSE StartTrainer
    /\ starting' = FALSE
    /\ pc' = "check"
    /\ UNCHANGED <<exported, disk, published, candidate, faults>>

\* An upload fails: the exception ends the service loop, or start.
DistributionFails ==
    /\ Distributed
    /\ \/ pc = "distribute"
       \/ pc = "redistribute" /\ Active > 0
    /\ faults < MaxFaults
    /\ faults' = faults + 1
    /\ pc' = "failed"
    /\ UNCHANGED <<exported, disk, trainer, run, published, candidate, starting>>

\* The coordinator stops, whether killed or asked to, and its trainer with it.
Down ==
    /\ pc' = "down"
    /\ candidate' = <<>>
    /\ starting' = TRUE
    /\ trainer' = [trainer EXCEPT !.pc = "stopped"]
    /\ UNCHANGED <<exported, disk, run, published>>

Crash ==
    /\ pc # "down"
    /\ faults < MaxFaults
    /\ faults' = faults + 1
    /\ Down

\* An operator stops a coordinator that is no longer ready.
StopUnready ==
    /\ \/ pc = "failed"
       \/ pc = "check" /\ trainer.pc = "exited" /\ ~Publishable(Active + 1)
    /\ Down
    /\ UNCHANGED faults

Restart ==
    /\ pc = "down"
    /\ pc' = "check"
    /\ UNCHANGED <<exported, disk, trainer, run, published, candidate, starting, faults>>

-----------------------------------------------------------------------------
Trainer ==
    \/ LoadCheckpoint
    \/ TrainStep
    \/ OverwriteBroadcast
    \/ FinishBroadcast
    \/ NotifyOrchestrator
    \/ OverwriteCheckpoint
    \/ FinishCheckpoint
    \/ MarkStable

Runtime ==
    \/ FindStable
    \/ NothingToPublish
    \/ LoadAdapter
    \/ PublishLoraPolicy
    \/ DistributePolicy
    \/ ActivatePolicy
    \/ Prune
    \/ RedistributeActive
    \/ TidyUp
    \/ Launch
    \/ StopUnready
    \/ Restart

Next ==
    \/ Trainer
    \/ Runtime
    \/ ExportBatch
    \/ TrainerDies
    \/ DistributionFails
    \/ Crash

Spec == Init /\ [][Next]_vars

\* Both processes keep running, and whoever supervises the coordinator stops
\* one that is not ready and starts one that is down.  Faults are bounded.
FairSpec == Spec /\ WF_vars(Trainer) /\ WF_vars(Runtime)

-----------------------------------------------------------------------------
(* Properties.                                                             *)

\* docs/operations.md: "Resume uses the active policy's exact full
\* checkpoint."  Pruning, crashes and steps trained again never leave the
\* active version without a whole checkpoint of its own weights.
ActiveResumable ==
    Active > 0 => checkpoint[Active] = [weights |-> activated[Active], stable |-> TRUE]

\* Between finding both STABLE files and reading the adapter, the broadcast
\* is whole and is what the checkpoint holds: a STABLE file left by an earlier
\* attempt never exposes a directory that is being overwritten.
HandoffWhole ==
    pc = "load" => /\ broadcast[Active + 1].weights \notin {<<>>, Torn}
                   /\ broadcast[Active + 1] = checkpoint[Active + 1]

\* Every policy is exactly one training step from the policy before it:
\* weights that a crash made unpublishable leave no trace in later policies.
OneLineage ==
    \A v \in DOMAIN activated :
        /\ Len(activated[v]) = v
        /\ v > 1 => activated[v - 1] = SubSeq(activated[v], 1, v - 1)

\* Workers can fetch every policy they are told to sample from: it was in
\* the policy tree and, if configured, in the object store, before activation.
ActivatedDownloadable ==
    \A v \in DOMAIN activated :
        <<v, activated[v]>> \in policies \cap (IF Distributed THEN remote ELSE policies)

\* Every exported batch eventually becomes an active policy: no crash, death
\* of the trainer or failed upload strands a version.
BatchesBecomePolicies == \A s \in Step : exported >= s ~> Active >= s
=============================================================================
