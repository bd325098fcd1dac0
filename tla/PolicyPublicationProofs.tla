---------------------- MODULE PolicyPublicationProofs ----------------------
(***************************************************************************)
(* Proofs that publication hands over whole directories and that the       *)
(* active policy always has its exact checkpoint, for every number of      *)
(* steps, retention setting and number of faults.                          *)
(***************************************************************************)
EXTENDS PolicyPublication, TLAPS

Whole(s) == broadcast[s] = checkpoint[s] /\ checkpoint[s].weights \notin {<<>>, Torn}

\* A stable checkpoint that is not yet published has an equal broadcast.
StablePairs == \A s \in Step : Active < s /\ checkpoint[s].stable => Whole(s)

\* Stable checkpoints follow the active version without a gap.
StableContiguous ==
    \A s, t \in Step : Active < t /\ t <= s /\ checkpoint[s].stable => checkpoint[t].stable

\* The trainer works on the first step without a stable checkpoint.
TrainerAhead ==
    TrainerAlive =>
        /\ run # 0
        /\ Active < trainer.step
        /\ \A s \in Step : trainer.step <= s => ~checkpoint[s].stable
        /\ \A s \in Step : Active < s /\ s < trainer.step => checkpoint[s].stable

\* What the trainer has written of its step so far.
TrainerWrites ==
    /\ trainer.pc \in {"write", "overwrite", "notify", "save", "resave", "mark"} =>
          trainer.weights \notin {<<>>, Torn}
    /\ trainer.pc \in {"notify", "save", "resave", "mark"} =>
          broadcast[trainer.step].weights = trainer.weights
    /\ trainer.pc \in {"save", "resave", "mark"} => broadcast[trainer.step].stable
    /\ trainer.pc = "mark" => checkpoint[trainer.step].weights = trainer.weights

\* start runs without a trainer, and launches one when nothing is left to publish.
StartsAlone ==
    /\ starting => ~TrainerAlive
    /\ pc = "down" => starting
    /\ pc \in {"redistribute", "tidy", "launch"} =>
          starting /\ \A s \in Step : Active < s => ~checkpoint[s].stable

\* The version being published is the stable one after the active version.
PublishesStable ==
    /\ Active <= MaxSteps
    /\ pc \in {"load", "publish", "distribute", "activate"} =>
          Active + 1 \in Step /\ checkpoint[Active + 1].stable
    /\ pc \in {"publish", "distribute", "activate"} =>
          candidate = checkpoint[Active + 1].weights

\* The part of the invariant about what the two processes share.
SharedInv ==
    /\ ActiveResumable
    /\ StablePairs
    /\ StableContiguous
    /\ TrainerAhead
    /\ TrainerWrites

PublicationInv ==
    /\ TypeOK
    /\ SharedInv
    /\ StartsAlone
    /\ PublishesStable

-----------------------------------------------------------------------------
(* Types.                                                                  *)

\* The initial state is typed and satisfies the inductive invariant.
LEMMA InitOK == ASSUME Init PROVE PublicationInv
  <1>1. Active = 0
    BY DEF Init, Active
  <1>2. TypeOK
    BY PublicationAssumption DEF Init, TypeOK, Directory, Missing, Weights, Step
  <1>3. \A s \in Step : ~checkpoint[s].stable
    BY DEF Init, Missing
  <1>4. ~TrainerAlive
    BY DEF Init, TrainerAlive
  <1>5. ActiveResumable
    BY <1>1 DEF ActiveResumable
  <1>6. StablePairs /\ StableContiguous
    BY <1>3 DEF StablePairs, StableContiguous
  <1>7. TrainerAhead
    BY <1>4 DEF TrainerAhead
  <1>8. TrainerWrites
    BY DEF Init, TrainerWrites
  <1>9. StartsAlone
    BY <1>4 DEF Init, StartsAlone
  <1>10. PublishesStable
    BY <1>1, PublicationAssumption DEF Init, PublishesStable
  <1> QED BY <1>2, <1>5, <1>6, <1>7, <1>8, <1>9, <1>10 DEF PublicationInv, SharedInv

\* The steps of the trainer keep the types.
LEMMA TrainerTypes == ASSUME TypeOK, Trainer PROVE TypeOK'
  <1> USE PublicationAssumption
  <1>1. Torn \in Weights /\ trainer.step \in Step /\ trainer.weights \in Weights
    BY DEF TypeOK, Torn, Weights
  <1>2. CASE LoadCheckpoint
    <2>1. ASSUME trainer.step - 1 # 0
          PROVE  checkpoint[trainer.step - 1].weights \in Weights
      <3>1. trainer.step - 1 \in Step
        BY <1>1, <2>1 DEF Step
      <3> QED BY <3>1 DEF TypeOK, Directory
    <2>2. <<>> \in Weights
      BY DEF Weights
    <2> QED BY <1>2, <2>1, <2>2 DEF LoadCheckpoint, TypeOK, disk, published, runtime
  <1>3. CASE TrainStep
    <2>1. Append(trainer.weights, run) \in Weights
      BY <1>1 DEF TypeOK, Weights
    <2> QED BY <1>3, <2>1 DEF TrainStep, TypeOK, disk, published, runtime
  <1>4. CASE OverwriteBroadcast
    BY <1>1, <1>4 DEF OverwriteBroadcast, TypeOK, Directory, published, runtime
  <1>5. CASE FinishBroadcast
    BY <1>1, <1>5 DEF FinishBroadcast, TypeOK, Directory, published, runtime
  <1>6. CASE NotifyOrchestrator
    BY <1>1, <1>6 DEF NotifyOrchestrator, TypeOK, Directory, published, runtime
  <1>7. CASE OverwriteCheckpoint
    BY <1>1, <1>7 DEF OverwriteCheckpoint, TypeOK, Directory, published, runtime
  <1>8. CASE FinishCheckpoint
    BY <1>1, <1>8 DEF FinishCheckpoint, TypeOK, Directory, published, runtime
  <1>9. CASE MarkStable
    <2>1. checkpoint' \in [Step -> Directory]
      BY <1>1, <1>9 DEF MarkStable, TypeOK, Directory
    <2>2. trainer.step # MaxSteps => trainer.step + 1 \in Step
      BY <1>1 DEF Step
    <2> QED BY <1>9, <2>1, <2>2 DEF MarkStable, TypeOK, published, runtime
  <1> QED BY <1>2, <1>3, <1>4, <1>5, <1>6, <1>7, <1>8, <1>9 DEF Trainer

\* Pruning keeps the types of the directories.
LEMMA PruneTypes ==
  ASSUME TypeOK, PruneArtifacts
  PROVE  broadcast' \in [Step -> Directory] /\ checkpoint' \in [Step -> Directory]
  <1>1. Missing \in Directory
    BY DEF Missing, Directory, Weights
  <1>2. CASE KeepLast = 0 \/ Active = 0
    BY <1>2 DEF TypeOK, PruneArtifacts, disk
  <1>3. CASE ~(KeepLast = 0 \/ Active = 0)
    <2>1. PICK gone \in SUBSET Step : Pruned(gone)
      BY <1>3 DEF PruneArtifacts
    <2> QED BY <1>1, <2>1 DEF TypeOK, Pruned
  <1> QED BY <1>2, <1>3

\* The steps of the coordinator's runtime keep the types.
LEMMA RuntimeTypes == ASSUME TypeOK, PublishesStable, Runtime PROVE TypeOK'
  <1> USE PublicationAssumption
  <1>1. Active \in Nat /\ Active <= MaxSteps
    BY DEF TypeOK, Active, PublishesStable
  <1>2. CASE FindStable
    BY <1>2 DEF FindStable, TypeOK, disk, published
  <1>3. CASE NothingToPublish
    BY <1>3 DEF NothingToPublish, TypeOK, disk, published
  <1>4. CASE LoadAdapter
    <2>1. broadcast[Active + 1].weights \in Weights
      BY <1>4 DEF LoadAdapter, PublishesStable, TypeOK, Directory
    <2> QED BY <1>4, <2>1 DEF LoadAdapter, TypeOK, disk, published
  <1>5. CASE PublishLoraPolicy
    BY <1>5 DEF PublishLoraPolicy, PublishesStable, TypeOK, disk
  <1>6. CASE DistributePolicy
    BY <1>6 DEF DistributePolicy, Upload, PublishesStable, TypeOK, disk
  <1>7. CASE ActivatePolicy
    <2>1. Append(activated, candidate) \in Seq(Weights)
      BY DEF TypeOK
    <2>2. <<>> \in Weights
      BY DEF Weights
    <2> QED BY <1>7, <2>1, <2>2 DEF ActivatePolicy, TypeOK, disk
  <1>8. CASE Prune
    BY <1>8, PruneTypes DEF Prune, TypeOK, published
  <1>9. CASE RedistributeActive
    <2>1. Active > 0 => Active \in Step /\ activated[Active] \in Weights
      BY <1>1 DEF Step, TypeOK, Active
    <2> QED BY <1>9, <2>1 DEF RedistributeActive, Upload, TypeOK, disk
  <1>10. CASE TidyUp
    BY <1>10, PruneTypes DEF TidyUp, TypeOK, published
  <1>11. CASE Launch
    <2>1. Active < MaxSteps => Active + 1 \in Step
      BY <1>1 DEF Step
    <2>2. <<>> \in Weights
      BY DEF Weights
    <2>3. trainer' \in [pc: {"stopped", "load", "wait", "write", "overwrite", "notify",
                             "save", "resave", "mark", "exited"},
                        step: Step, weights: Weights] /\ run' \in Nat
      <3>1. CASE Active >= MaxSteps
        BY <1>11, <3>1 DEF Launch, TypeOK
      <3>2. CASE ~(Active >= MaxSteps)
        BY <1>1, <1>11, <2>1, <2>2, <3>2 DEF Launch, StartTrainer, ResumeStep, TypeOK
      <3> QED BY <3>1, <3>2
    <2> QED BY <1>11, <2>3 DEF Launch, TypeOK, disk, published
  <1>12. CASE StopUnready
    <2>1. <<>> \in Weights
      BY DEF Weights
    <2> QED BY <1>12, <2>1 DEF StopUnready, Down, TypeOK, disk, published
  <1>13. CASE Restart
    BY <1>13 DEF Restart, TypeOK, disk, published
  <1> QED BY <1>2, <1>3, <1>4, <1>5, <1>6, <1>7, <1>8, <1>9, <1>10, <1>11, <1>12, <1>13
          DEF Runtime

\* Every step keeps the types.
LEMMA TypeStep == ASSUME TypeOK, PublishesStable, [Next]_vars PROVE TypeOK'
  <1> USE PublicationAssumption
  <1>1. CASE Trainer
    BY <1>1, TrainerTypes
  <1>2. CASE Runtime
    BY <1>2, RuntimeTypes
  <1>3. CASE ExportBatch
    BY <1>3 DEF ExportBatch, TypeOK, disk, published, runtime
  <1>4. CASE TrainerDies
    BY <1>4 DEF TrainerDies, TypeOK, disk, published, runtime
  <1>5. CASE DistributionFails
    BY <1>5 DEF DistributionFails, TypeOK, disk, published
  <1>6. CASE Crash
    <2>1. <<>> \in Weights
      BY DEF Weights
    <2> QED BY <1>6, <2>1 DEF Crash, Down, TypeOK, disk, published
  <1>7. CASE UNCHANGED vars
    BY <1>7 DEF vars, TypeOK, disk, published, runtime
  <1> QED BY <1>1, <1>2, <1>3, <1>4, <1>5, <1>6, <1>7 DEF Next

-----------------------------------------------------------------------------
(* What the processes share.                                               *)

\* Steps of the runtime that leave the directories, the trainer and the
\* active version alone.
LEMMA QuietStep ==
  ASSUME SharedInv, UNCHANGED <<broadcast, checkpoint, trainer, run, activated>>
  PROVE  SharedInv'
  BY DEF SharedInv, ActiveResumable, StablePairs, StableContiguous, TrainerAhead, TrainerWrites,
         Whole, TrainerAlive, Active

\* A step of the trainer changes at most its own directory pair, whose step
\* has no stable checkpoint.
LEMMA TrainerShared == ASSUME TypeOK, SharedInv, Trainer PROVE SharedInv'
  <1> USE PublicationAssumption
  <1>1. /\ TrainerAlive /\ UNCHANGED <<run, activated>> /\ Active' = Active
        /\ trainer.step \in Step /\ trainer.weights \in Weights
    BY DEF Trainer, LoadCheckpoint, TrainStep, OverwriteBroadcast, FinishBroadcast,
           NotifyOrchestrator, OverwriteCheckpoint, FinishCheckpoint, MarkStable, TrainerAlive,
           published, Active, TypeOK
  <1>2. /\ run # 0 /\ Active < trainer.step /\ Active \in Nat
        /\ \A s \in Step : trainer.step <= s => ~checkpoint[s].stable
        /\ \A s \in Step : Active < s /\ s < trainer.step => checkpoint[s].stable
    BY <1>1 DEF SharedInv, TrainerAhead, TypeOK, Active
  <1>3. ~checkpoint[trainer.step].stable
    BY <1>1, <1>2 DEF Step
  <1>4. CASE LoadCheckpoint \/ TrainStep
    <2>1. UNCHANGED <<broadcast, checkpoint>> /\ trainer'.step = trainer.step
      BY <1>4 DEF LoadCheckpoint, TrainStep, disk, TypeOK
    <2>2. ActiveResumable' /\ StablePairs' /\ StableContiguous'
      BY <1>1, <2>1 DEF SharedInv, ActiveResumable, StablePairs, StableContiguous, Whole
    <2>3. TrainerAhead'
      BY <1>1, <1>2, <2>1 DEF TrainerAhead
    <2>4. Append(trainer.weights, run) \notin {<<>>, Torn}
      <3> DEFINE w == Append(trainer.weights, run)
      <3>1. w \in Seq(Nat) /\ Len(w) = Len(trainer.weights) + 1 /\ w[Len(trainer.weights) + 1] = run
        BY <1>1 DEF TypeOK, Weights
      <3>2. Len(trainer.weights) \in Nat
        BY <1>1 DEF Weights
      <3>3. w # <<>>
        BY <3>1, <3>2
      <3>4. ASSUME w = Torn PROVE FALSE
        <4>1. Len(w) = 1 /\ w[1] = 0
          BY <3>4 DEF Torn
        <4> QED BY <1>2, <3>1, <3>2, <4>1
      <3> QED BY <3>3, <3>4
    <2>5. TrainerWrites'
      BY <1>4, <2>1, <2>4 DEF TrainerWrites, LoadCheckpoint, TrainStep, TypeOK
    <2> QED BY <2>2, <2>3, <2>5 DEF SharedInv
  <1>5. CASE OverwriteBroadcast \/ FinishBroadcast \/ NotifyOrchestrator
    <2>1. UNCHANGED checkpoint /\ trainer'.step = trainer.step
      BY <1>5 DEF OverwriteBroadcast, FinishBroadcast, NotifyOrchestrator, TypeOK
    <2>2. \A s \in Step : s # trainer.step => broadcast'[s] = broadcast[s]
      BY <1>5 DEF OverwriteBroadcast, FinishBroadcast, NotifyOrchestrator, TypeOK
    <2>3. ActiveResumable' /\ StableContiguous'
      BY <1>1, <2>1 DEF SharedInv, ActiveResumable, StableContiguous
    <2>4. StablePairs'
      BY <1>1, <1>3, <2>1, <2>2 DEF SharedInv, StablePairs, Whole
    <2>5. TrainerAhead'
      BY <1>1, <1>2, <2>1 DEF TrainerAhead
    <2>6. TrainerWrites'
      BY <1>1, <1>5, <2>1 DEF SharedInv, TrainerWrites, OverwriteBroadcast, FinishBroadcast,
                              NotifyOrchestrator, TypeOK, Directory
    <2> QED BY <2>3, <2>4, <2>5, <2>6 DEF SharedInv
  <1>6. CASE OverwriteCheckpoint \/ FinishCheckpoint
    <2>1. /\ UNCHANGED broadcast /\ trainer'.step = trainer.step
          /\ \A s \in Step : s # trainer.step => checkpoint'[s] = checkpoint[s]
          /\ \A s \in Step : checkpoint'[s].stable = checkpoint[s].stable
      <3>1. CASE OverwriteCheckpoint
        BY <3>1 DEF OverwriteCheckpoint, TypeOK, Directory
      <3>2. CASE FinishCheckpoint
        BY <3>2 DEF FinishCheckpoint, TypeOK, Directory
      <3> QED BY <1>6, <3>1, <3>2
    <2>2. ActiveResumable'
      <3>1. ASSUME Active > 0 PROVE Active \in Step /\ Active # trainer.step
        BY <1>1, <1>2, <3>1 DEF Step
      <3> QED BY <1>1, <2>1, <3>1 DEF SharedInv, ActiveResumable
    <2>3. StablePairs' /\ StableContiguous'
      BY <1>1, <1>3, <2>1 DEF SharedInv, StablePairs, StableContiguous, Whole
    <2>4. TrainerAhead'
      BY <1>1, <1>2, <2>1 DEF TrainerAhead
    <2>5. TrainerWrites'
      BY <1>1, <1>6, <2>1 DEF SharedInv, TrainerWrites, OverwriteCheckpoint, FinishCheckpoint,
                              TypeOK, Directory
    <2> QED BY <2>2, <2>3, <2>4, <2>5 DEF SharedInv
  <1>7. CASE MarkStable
    <2>1. /\ UNCHANGED broadcast /\ trainer'.pc \in {"exited", "wait"}
          /\ trainer'.pc = "wait" => trainer'.step = trainer.step + 1
          /\ \A s \in Step : s # trainer.step => checkpoint'[s] = checkpoint[s]
          /\ checkpoint'[trainer.step].stable
      BY <1>1, <1>7 DEF MarkStable, TypeOK, Directory
    <2>2. ActiveResumable'
      <3>1. ASSUME Active > 0 PROVE Active \in Step /\ Active # trainer.step
        BY <1>1, <1>2, <3>1 DEF Step
      <3> QED BY <1>1, <2>1, <3>1 DEF SharedInv, ActiveResumable
    <2>3. /\ broadcast'[trainer.step] = checkpoint'[trainer.step]
          /\ checkpoint'[trainer.step].weights \notin {<<>>, Torn}
      <3>1. /\ broadcast[trainer.step] \in Directory /\ checkpoint[trainer.step] \in Directory
            /\ broadcast[trainer.step].stable = TRUE
            /\ broadcast[trainer.step].weights = trainer.weights
            /\ checkpoint[trainer.step].weights = trainer.weights
            /\ trainer.weights \notin {<<>>, Torn}
        BY <1>1, <1>7 DEF MarkStable, SharedInv, TrainerWrites, TypeOK, Directory
      <3>2. checkpoint'[trainer.step] = [checkpoint[trainer.step] EXCEPT !.stable = TRUE]
        BY <1>1, <1>7 DEF MarkStable, TypeOK
      <3>3. checkpoint'[trainer.step] = [weights |-> trainer.weights, stable |-> TRUE]
        BY <3>1, <3>2 DEF Directory
      <3>4. broadcast[trainer.step] = [weights |-> trainer.weights, stable |-> TRUE]
        BY <3>1 DEF Directory
      <3> QED BY <2>1, <3>1, <3>3, <3>4
    <2>4. StablePairs'
      BY <1>1, <2>1, <2>3 DEF SharedInv, StablePairs, Whole
    <2>5. \A s \in Step : Active < s /\ s <= trainer.step => checkpoint'[s].stable
      BY <1>1, <1>2, <2>1 DEF Step
    <2>6. \A s \in Step : trainer.step < s => ~checkpoint'[s].stable
      BY <1>1, <1>2, <2>1 DEF Step
    <2>7. StableContiguous'
      BY <1>1, <2>5, <2>6 DEF StableContiguous, Step
    <2>8. TrainerAhead'
      BY <1>1, <1>2, <2>1, <2>5, <2>6 DEF TrainerAhead, TrainerAlive, Step
    <2>9. TrainerWrites'
      BY <2>1 DEF TrainerWrites
    <2> QED BY <2>2, <2>4, <2>7, <2>8, <2>9 DEF SharedInv
  <1> QED BY <1>4, <1>5, <1>6, <1>7 DEF Trainer

\* Pruning leaves the active checkpoint and everything after it.
LEMMA PruneKeeps ==
  ASSUME TypeOK, PruneArtifacts
  PROVE  /\ \A s \in Step : Active <= s => checkpoint'[s] = checkpoint[s]
         /\ \A s \in Step : Active < s => broadcast'[s] = broadcast[s]
  <1> USE PublicationAssumption
  <1>1. Active \in Nat
    BY DEF TypeOK, Active
  <1>2. CASE KeepLast = 0 \/ Active = 0
    BY <1>2 DEF PruneArtifacts, disk
  <1>3. CASE ~(KeepLast = 0 \/ Active = 0)
    <2>1. PICK gone \in SUBSET Step : Pruned(gone)
      BY <1>3 DEF PruneArtifacts
    <2> QED BY <1>1, <1>3, <2>1 DEF Pruned, Step
  <1> QED BY <1>2, <1>3

\* Pruning removes nothing that publication or a resumed trainer needs.
LEMMA PruneShared ==
  ASSUME TypeOK, SharedInv, PublishesStable, PruneArtifacts, UNCHANGED <<trainer, run, activated>>
  PROVE  SharedInv'
  <1> USE PublicationAssumption
  <1>1. Active \in Nat /\ Active' = Active /\ Active <= MaxSteps
    BY DEF TypeOK, Active, PublishesStable
  <1>2. Active > 0 => Active \in Step
    BY <1>1 DEF Step
  <1>3. ActiveResumable'
    BY <1>1, <1>2, PruneKeeps DEF SharedInv, ActiveResumable
  <1>4. StablePairs'
    BY <1>1, PruneKeeps DEF SharedInv, StablePairs, Whole, Step
  <1>5. StableContiguous'
    <2> SUFFICES ASSUME NEW s \in Step, NEW t \in Step,
                        Active < t, t <= s, checkpoint'[s].stable
                 PROVE  checkpoint'[t].stable
      BY <1>1 DEF StableContiguous
    <2>1. checkpoint'[s] = checkpoint[s] /\ checkpoint'[t] = checkpoint[t]
      BY <1>1, PruneKeeps DEF Step
    <2> QED BY <2>1 DEF SharedInv, StableContiguous
  <1>6. TrainerAhead'
    <2> SUFFICES ASSUME TrainerAlive PROVE TrainerAhead'
      BY DEF TrainerAhead, TrainerAlive
    <2>1. trainer.step \in Step
      BY DEF TypeOK
    <2>2. /\ run # 0 /\ Active < trainer.step
          /\ \A s \in Step : trainer.step <= s => ~checkpoint[s].stable
          /\ \A s \in Step : Active < s /\ s < trainer.step => checkpoint[s].stable
      BY DEF SharedInv, TrainerAhead
    <2>3. \A s \in Step : Active < s => checkpoint'[s] = checkpoint[s]
      BY <1>1, PruneKeeps DEF Step
    <2> QED BY <1>1, <2>1, <2>2, <2>3 DEF TrainerAhead, Step
  <1>7. TrainerWrites'
    <2>1. CASE ~TrainerAlive
      BY <2>1 DEF TrainerAlive, TrainerWrites
    <2>2. CASE TrainerAlive
      <3>1. trainer.step \in Step /\ Active < trainer.step
        BY <2>2 DEF SharedInv, TrainerAhead, TypeOK
      <3>2. /\ checkpoint'[trainer.step] = checkpoint[trainer.step]
            /\ broadcast'[trainer.step] = broadcast[trainer.step]
        BY <1>1, <3>1, PruneKeeps DEF Step
      <3> QED BY <3>2 DEF SharedInv, TrainerWrites
    <2> QED BY <2>1, <2>2
  <1> QED BY <1>3, <1>4, <1>5, <1>6, <1>7 DEF SharedInv

\* Activation moves the active version to a whole pair the trainer has left.
LEMMA ActivateShared ==
  ASSUME TypeOK, SharedInv, PublishesStable, ActivatePolicy
  PROVE  SharedInv' /\ Active' = Active + 1 /\ Active' <= MaxSteps
  <1> USE PublicationAssumption
  <1>1. Active \in Nat /\ Active + 1 \in Step /\ checkpoint[Active + 1].stable
    BY DEF TypeOK, Active, ActivatePolicy, PublishesStable
  <1>2. candidate = checkpoint[Active + 1].weights
    BY DEF ActivatePolicy, PublishesStable
  <1>3. Active' = Active + 1 /\ activated'[Active + 1] = candidate
    BY DEF ActivatePolicy, Active, TypeOK
  <1>4. UNCHANGED <<broadcast, checkpoint, trainer, run>>
    BY DEF ActivatePolicy, disk
  <1>5. ActiveResumable'
    <2>1. checkpoint[Active + 1] = [weights |-> candidate, stable |-> TRUE]
      BY <1>1, <1>2 DEF TypeOK, Directory
    <2> QED BY <1>3, <1>4, <2>1 DEF ActiveResumable
  <1>6. StablePairs'
    BY <1>1, <1>3, <1>4 DEF SharedInv, StablePairs, Whole, Step
  <1>7. StableContiguous'
    <2> SUFFICES ASSUME NEW s \in Step, NEW t \in Step,
                        Active + 1 < t, t <= s, checkpoint[s].stable
                 PROVE  checkpoint[t].stable
      BY <1>3, <1>4 DEF StableContiguous
    <2>1. Active < t
      BY <1>1 DEF Step
    <2> QED BY <2>1 DEF SharedInv, StableContiguous
  <1>8. TrainerAhead'
    <2> SUFFICES ASSUME TrainerAlive PROVE TrainerAhead'
      BY <1>4 DEF TrainerAhead, TrainerAlive
    <2>1. trainer.step \in Step
      BY DEF TypeOK
    <2>2. /\ run # 0 /\ Active < trainer.step
          /\ \A s \in Step : trainer.step <= s => ~checkpoint[s].stable
          /\ \A s \in Step : Active < s /\ s < trainer.step => checkpoint[s].stable
      BY DEF SharedInv, TrainerAhead
    <2>3. Active + 1 < trainer.step
      BY <1>1, <2>1, <2>2 DEF Step
    <2>4. \A s \in Step : Active + 1 < s => Active < s
      BY <1>1 DEF Step
    <2> QED BY <1>3, <1>4, <2>2, <2>3, <2>4 DEF TrainerAhead
  <1>9. TrainerWrites'
    BY <1>4 DEF SharedInv, TrainerWrites
  <1> QED BY <1>1, <1>3, <1>5, <1>6, <1>7, <1>8, <1>9 DEF SharedInv, Step

\* A trainer that is not running constrains nothing.
LEMMA StoppedShared ==
  ASSUME SharedInv, UNCHANGED <<broadcast, checkpoint, activated>>,
         trainer'.pc \in {"stopped", "exited"}
  PROVE  SharedInv' /\ ~TrainerAlive'
  BY DEF SharedInv, ActiveResumable, StablePairs, StableContiguous, TrainerAhead, TrainerWrites,
         Whole, TrainerAlive, Active

\* The trainer is launched for the first step without a stable checkpoint.
LEMMA LaunchShared ==
  ASSUME TypeOK, SharedInv, StartsAlone, Launch
  PROVE  SharedInv'
  <1> USE PublicationAssumption
  <1>1. Active \in Nat /\ run \in Nat
    BY DEF TypeOK, Active
  <1>2. UNCHANGED <<broadcast, checkpoint, activated>> /\ Active' = Active
    BY DEF Launch, disk, published, Active
  <1>3. \A s \in Step : Active < s => ~checkpoint[s].stable
    BY DEF StartsAlone, Launch
  <1>4. CASE Active >= MaxSteps
    <2>1. UNCHANGED <<trainer, run>>
      BY <1>4 DEF Launch
    <2> QED BY <1>2, <2>1, QuietStep
  <1>5. CASE ~(Active >= MaxSteps)
    <2>1. trainer' = [pc |-> "load", step |-> Active + 1, weights |-> <<>>] /\ run' = run + 1
      BY <1>5 DEF Launch, StartTrainer, ResumeStep
    <2>2. TrainerAhead'
      <3>1. run' # 0 /\ trainer'.step = Active + 1 /\ Active < Active + 1
        BY <1>1, <2>1
      <3>2. \A s \in Step : Active + 1 <= s => ~checkpoint[s].stable
        BY <1>1, <1>3 DEF Step
      <3>3. \A s \in Step : ~(Active < s /\ s < Active + 1)
        BY <1>1 DEF Step
      <3> QED BY <1>2, <3>1, <3>2, <3>3 DEF TrainerAhead
    <2>3. TrainerWrites'
      BY <2>1 DEF TrainerWrites
    <2>4. ActiveResumable' /\ StablePairs' /\ StableContiguous'
      BY <1>2 DEF SharedInv, ActiveResumable, StablePairs, StableContiguous, Whole
    <2> QED BY <2>2, <2>3, <2>4 DEF SharedInv
  <1> QED BY <1>4, <1>5

-----------------------------------------------------------------------------
(* Inductiveness.                                                          *)

\* A step of the trainer leaves the pair being published alone.
LEMMA TrainerStep == ASSUME PublicationInv, Trainer PROVE StartsAlone' /\ PublishesStable'
  <1> USE PublicationAssumption
  <1>1. /\ TrainerAlive /\ UNCHANGED <<activated, pc, candidate, starting>> /\ Active' = Active
        /\ trainer.step \in Step
    BY DEF Trainer, LoadCheckpoint, TrainStep, OverwriteBroadcast, FinishBroadcast,
           NotifyOrchestrator, OverwriteCheckpoint, FinishCheckpoint, MarkStable, TrainerAlive,
           published, runtime, Active, PublicationInv, TypeOK
  <1>2. ~starting
    BY <1>1 DEF PublicationInv, StartsAlone
  <1>3. StartsAlone'
    BY <1>1, <1>2 DEF PublicationInv, StartsAlone
  <1>4. ~checkpoint[trainer.step].stable
    BY <1>1 DEF PublicationInv, SharedInv, TrainerAhead, Step
  <1>5. \A s \in Step : s # trainer.step => checkpoint'[s] = checkpoint[s]
    BY DEF Trainer, LoadCheckpoint, TrainStep, OverwriteBroadcast, FinishBroadcast,
           NotifyOrchestrator, OverwriteCheckpoint, FinishCheckpoint, MarkStable, disk,
           PublicationInv, TypeOK
  <1>6. PublishesStable'
    BY <1>1, <1>4, <1>5 DEF PublicationInv, PublishesStable
  <1> QED BY <1>3, <1>6

\* Steps of the runtime preserve everything but the types.
LEMMA RuntimeStep ==
  ASSUME PublicationInv, Runtime
  PROVE  SharedInv' /\ StartsAlone' /\ PublishesStable'
  <1> USE PublicationAssumption DEF PublicationInv
  <1>1. Active \in Nat
    BY DEF TypeOK, Active
  <1>2. CASE FindStable
    <2>1. UNCHANGED <<broadcast, checkpoint, trainer, run, activated, candidate, starting>>
          /\ Active' = Active /\ pc' = "load"
      BY <1>2 DEF FindStable, disk, published, Active
    <2>2. Active + 1 \in Step /\ checkpoint[Active + 1].stable
      BY <1>2 DEF FindStable, Publishable
    <2>3. StartsAlone' /\ PublishesStable'
      BY <2>1, <2>2 DEF StartsAlone, PublishesStable, TrainerAlive
    <2> QED BY <2>1, <2>3, QuietStep
  <1>3. CASE NothingToPublish
    <2>1. UNCHANGED <<broadcast, checkpoint, trainer, run, activated, candidate, starting>>
          /\ Active' = Active /\ pc' = "redistribute" /\ starting
      BY <1>3 DEF NothingToPublish, disk, published, Active
    <2>2. ASSUME NEW s \in Step, Active < s, checkpoint[s].stable PROVE FALSE
      <3>1. Active + 1 \in Step /\ Active < Active + 1 /\ Active + 1 <= s
        BY <1>1, <2>2 DEF Step
      <3>2. checkpoint[Active + 1].stable
        BY <2>2, <3>1 DEF SharedInv, StableContiguous
      <3>3. broadcast[Active + 1].stable
        BY <3>1, <3>2 DEF SharedInv, StablePairs, Whole
      <3> QED BY <1>3, <3>1, <3>2, <3>3 DEF NothingToPublish, Publishable
    <2>3. StartsAlone' /\ PublishesStable'
      BY <2>1, <2>2 DEF StartsAlone, PublishesStable, TrainerAlive
    <2> QED BY <2>1, <2>3, QuietStep
  <1>4. CASE LoadAdapter
    <2>1. UNCHANGED <<broadcast, checkpoint, trainer, run, activated, starting>>
          /\ Active' = Active /\ pc' \in {"failed", "publish"}
      BY <1>4 DEF LoadAdapter, disk, published, Active
    <2>2. Active + 1 \in Step /\ checkpoint[Active + 1].stable
      BY <1>4 DEF LoadAdapter, PublishesStable
    <2>3. broadcast[Active + 1] = checkpoint[Active + 1]
      BY <1>1, <2>2 DEF SharedInv, StablePairs, Whole
    <2>4. pc' = "publish" => candidate' = checkpoint[Active + 1].weights
      BY <1>4, <2>3 DEF LoadAdapter
    <2>5. StartsAlone' /\ PublishesStable'
      BY <2>1, <2>2, <2>4 DEF StartsAlone, PublishesStable, TrainerAlive
    <2> QED BY <2>1, <2>5, QuietStep
  <1>5. CASE PublishLoraPolicy \/ DistributePolicy
    <2>1. UNCHANGED <<broadcast, checkpoint, trainer, run, activated, candidate, starting>>
          /\ Active' = Active /\ pc' \in {"distribute", "activate"}
          /\ pc \in {"publish", "distribute"}
      BY <1>5 DEF PublishLoraPolicy, DistributePolicy, disk, Active
    <2>2. StartsAlone' /\ PublishesStable'
      BY <2>1 DEF StartsAlone, PublishesStable, TrainerAlive
    <2> QED BY <2>1, <2>2, QuietStep
  <1>6. CASE ActivatePolicy
    <2>1. UNCHANGED <<trainer, starting>> /\ pc' = "prune"
      BY <1>6 DEF ActivatePolicy
    <2>2. StartsAlone' /\ PublishesStable'
      BY <1>6, <2>1, ActivateShared DEF StartsAlone, PublishesStable, TrainerAlive
    <2> QED BY <1>6, <2>2, ActivateShared
  <1>7. CASE Prune
    <2>1. UNCHANGED <<trainer, run, activated, starting>> /\ Active' = Active /\ pc' = "check"
          /\ PruneArtifacts
      BY <1>7 DEF Prune, published, Active
    <2>2. StartsAlone' /\ PublishesStable'
      BY <2>1 DEF StartsAlone, PublishesStable, TrainerAlive
    <2> QED BY <2>1, <2>2, PruneShared
  <1>8. CASE RedistributeActive
    <2>1. UNCHANGED <<broadcast, checkpoint, trainer, run, activated, candidate, starting>>
          /\ Active' = Active /\ pc' = "tidy" /\ pc = "redistribute"
      BY <1>8 DEF RedistributeActive, disk, Active
    <2>2. StartsAlone' /\ PublishesStable'
      BY <2>1 DEF StartsAlone, PublishesStable, TrainerAlive
    <2> QED BY <2>1, <2>2, QuietStep
  <1>9. CASE TidyUp
    <2>1. UNCHANGED <<trainer, run, activated, starting>> /\ Active' = Active /\ pc' = "launch"
          /\ pc = "tidy" /\ PruneArtifacts
      BY <1>9 DEF TidyUp, published, Active
    <2>2. \A s \in Step : Active < s => checkpoint'[s] = checkpoint[s]
      BY <1>1, <2>1, PruneKeeps DEF Step
    <2>3. StartsAlone' /\ PublishesStable'
      BY <2>1, <2>2 DEF StartsAlone, PublishesStable, TrainerAlive
    <2> QED BY <2>1, <2>3, PruneShared
  <1>10. CASE Launch
    <2>1. Active' = Active /\ pc' = "check" /\ ~starting'
      BY <1>10 DEF Launch, published, Active
    <2>2. StartsAlone' /\ PublishesStable'
      BY <2>1 DEF StartsAlone, PublishesStable
    <2> QED BY <1>10, <2>2, LaunchShared
  <1>11. CASE StopUnready
    <2>1. UNCHANGED <<broadcast, checkpoint, activated>> /\ Active' = Active
          /\ pc' = "down" /\ starting' = TRUE /\ trainer'.pc = "stopped"
      BY <1>11 DEF StopUnready, Down, disk, published, Active, TypeOK
    <2>2. SharedInv' /\ ~TrainerAlive'
      BY <2>1, StoppedShared
    <2>3. StartsAlone' /\ PublishesStable'
      BY <2>1, <2>2 DEF StartsAlone, PublishesStable
    <2> QED BY <2>2, <2>3
  <1>12. CASE Restart
    <2>1. UNCHANGED <<broadcast, checkpoint, trainer, run, activated, candidate, starting>>
          /\ Active' = Active /\ pc' = "check"
      BY <1>12 DEF Restart, disk, published, Active
    <2>2. StartsAlone' /\ PublishesStable'
      BY <2>1 DEF StartsAlone, PublishesStable, TrainerAlive
    <2> QED BY <2>1, <2>2, QuietStep
  <1> QED BY <1>2, <1>3, <1>4, <1>5, <1>6, <1>7, <1>8, <1>9, <1>10, <1>11, <1>12 DEF Runtime

\* The invariant is inductive.
LEMMA InductiveStep == ASSUME PublicationInv, [Next]_vars PROVE PublicationInv'
  <1> USE DEF PublicationInv
  <1>1. TypeOK'
    BY TypeStep
  <1>2. CASE Trainer
    BY <1>1, <1>2, TrainerShared, TrainerStep
  <1>3. CASE Runtime
    BY <1>1, <1>3, RuntimeStep
  <1>4. CASE ExportBatch
    <2>1. UNCHANGED <<broadcast, checkpoint, trainer, run, activated, pc, candidate, starting>>
          /\ Active' = Active
      BY <1>4 DEF ExportBatch, disk, published, runtime, Active
    <2>2. StartsAlone' /\ PublishesStable'
      BY <2>1 DEF StartsAlone, PublishesStable, TrainerAlive
    <2> QED BY <1>1, <2>1, <2>2, QuietStep
  <1>5. CASE TrainerDies
    <2>1. UNCHANGED <<broadcast, checkpoint, activated, pc, candidate, starting>>
          /\ Active' = Active /\ trainer'.pc = "exited"
      BY <1>5 DEF TrainerDies, disk, published, runtime, Active, TypeOK
    <2>2. SharedInv' /\ ~TrainerAlive'
      BY <2>1, StoppedShared
    <2>3. StartsAlone' /\ PublishesStable'
      BY <2>1, <2>2 DEF StartsAlone, PublishesStable
    <2> QED BY <1>1, <2>2, <2>3
  <1>6. CASE DistributionFails
    <2>1. UNCHANGED <<broadcast, checkpoint, trainer, run, activated, candidate, starting>>
          /\ Active' = Active /\ pc' = "failed"
      BY <1>6 DEF DistributionFails, disk, published, Active
    <2>2. StartsAlone' /\ PublishesStable'
      BY <2>1 DEF StartsAlone, PublishesStable, TrainerAlive
    <2> QED BY <1>1, <2>1, <2>2, QuietStep
  <1>7. CASE Crash
    <2>1. UNCHANGED <<broadcast, checkpoint, activated>> /\ Active' = Active
          /\ pc' = "down" /\ starting' = TRUE /\ trainer'.pc = "stopped"
      BY <1>7 DEF Crash, Down, disk, published, Active, TypeOK
    <2>2. SharedInv' /\ ~TrainerAlive'
      BY <2>1, StoppedShared
    <2>3. StartsAlone' /\ PublishesStable'
      BY <2>1, <2>2 DEF StartsAlone, PublishesStable
    <2> QED BY <1>1, <2>2, <2>3
  <1>8. CASE UNCHANGED vars
    <2>1. UNCHANGED <<broadcast, checkpoint, trainer, run, activated, pc, candidate, starting>>
          /\ Active' = Active
      BY <1>8 DEF vars, disk, published, runtime, Active
    <2>2. StartsAlone' /\ PublishesStable'
      BY <2>1 DEF StartsAlone, PublishesStable, TrainerAlive
    <2> QED BY <1>1, <2>1, <2>2, QuietStep
  <1> QED BY <1>2, <1>3, <1>4, <1>5, <1>6, <1>7, <1>8 DEF Next

-----------------------------------------------------------------------------
(* Downloads.                                                              *)

\* What is about to be activated is already where workers fetch it from.
Offered ==
    /\ ActivatedDownloadable
    /\ pc \in {"distribute", "activate"} => <<Active + 1, candidate>> \in policies
    /\ pc = "activate" /\ Distributed => <<Active + 1, candidate>> \in remote

\* Policies and uploads are never withdrawn, and activation follows both.
LEMMA OfferedStep == ASSUME TypeOK, Offered, [Next]_vars PROVE Offered'
  <1>1. CASE PublishLoraPolicy
    <2>1. UNCHANGED <<activated, candidate, remote>> /\ Active' = Active
          /\ policies' = policies \cup {<<Active + 1, candidate>>}
          /\ pc' = IF Distributed THEN "distribute" ELSE "activate"
      BY <1>1 DEF PublishLoraPolicy, Active
    <2>2. ActivatedDownloadable'
      BY <2>1 DEF Offered, ActivatedDownloadable
    <2> QED BY <2>1, <2>2 DEF Offered
  <1>2. CASE DistributePolicy
    <2>1. UNCHANGED <<activated, candidate, policies>> /\ Active' = Active
          /\ remote' = remote \cup {<<Active + 1, candidate>>}
          /\ pc' = "activate" /\ pc = "distribute"
      BY <1>2 DEF DistributePolicy, Upload, Active
    <2>2. ActivatedDownloadable'
      BY <2>1 DEF Offered, ActivatedDownloadable
    <2> QED BY <2>1, <2>2 DEF Offered
  <1>3. CASE RedistributeActive
    <2>1. UNCHANGED <<activated, candidate, policies>> /\ Active' = Active
          /\ remote \subseteq remote' /\ pc' = "tidy"
      BY <1>3 DEF RedistributeActive, Upload, Active
    <2>2. ActivatedDownloadable'
      BY <2>1 DEF Offered, ActivatedDownloadable
    <2> QED BY <2>1, <2>2 DEF Offered
  <1>4. CASE ActivatePolicy
    <2>1. UNCHANGED <<policies, remote>> /\ pc' = "prune" /\ pc = "activate"
      BY <1>4 DEF ActivatePolicy
    <2>2. <<Active + 1, candidate>> \in policies \cap (IF Distributed THEN remote ELSE policies)
      BY <2>1 DEF Offered
    <2>3. /\ DOMAIN activated' = 1 .. Active + 1 /\ DOMAIN activated = 1 .. Active
          /\ activated'[Active + 1] = candidate /\ Active \in Nat
          /\ \A v \in 1 .. Active : activated'[v] = activated[v]
      BY <1>4 DEF ActivatePolicy, TypeOK, Active
    <2>4. ActivatedDownloadable'
      <3> SUFFICES ASSUME NEW v \in 1 .. Active + 1
                   PROVE  <<v, activated'[v]>> \in policies
                              \cap (IF Distributed THEN remote ELSE policies)
        BY <2>1, <2>3 DEF ActivatedDownloadable
      <3>1. CASE v = Active + 1
        BY <2>2, <2>3, <3>1
      <3>2. CASE v \in 1 .. Active
        BY <2>3, <3>2 DEF Offered, ActivatedDownloadable
      <3> QED BY <2>3, <3>1, <3>2
    <2> QED BY <2>1, <2>4 DEF Offered
  <1>5. ASSUME UNCHANGED <<policies, remote, activated>>,
               UNCHANGED <<pc, candidate>> \/ pc' \notin {"distribute", "activate"}
        PROVE  Offered'
    BY <1>5 DEF Offered, ActivatedDownloadable, Active
  <1>6. CASE Trainer
    BY <1>5, <1>6 DEF Trainer, LoadCheckpoint, TrainStep, OverwriteBroadcast, FinishBroadcast,
           NotifyOrchestrator, OverwriteCheckpoint, FinishCheckpoint, MarkStable, published, runtime
  <1>7. CASE FindStable \/ NothingToPublish \/ LoadAdapter \/ Prune \/ TidyUp \/ Launch
             \/ StopUnready \/ Restart
    BY <1>5, <1>7 DEF FindStable, NothingToPublish, LoadAdapter, Prune, TidyUp, Launch,
           StopUnready, Down, Restart, published
  <1>8. CASE ExportBatch \/ TrainerDies \/ DistributionFails \/ Crash \/ UNCHANGED vars
    BY <1>5, <1>8 DEF ExportBatch, TrainerDies, DistributionFails, Crash, Down, vars, published, runtime
  <1> QED BY <1>1, <1>2, <1>3, <1>4, <1>6, <1>7, <1>8 DEF Next, Runtime

-----------------------------------------------------------------------------
(* Lineage.                                                                *)

\* The weights that step s is trained from.
Before(s) == IF s = 1 THEN <<>> ELSE checkpoint[s - 1].weights

\* w is one training step from base, as version v.
Follows(v, w, base) == Len(w) = v /\ base = SubSeq(w, 1, v - 1)

\* Unpublished stable checkpoints continue the line of the active version.
StableLineage ==
    \A s \in Step : Active < s /\ checkpoint[s].stable =>
        Follows(s, checkpoint[s].weights, Before(s))

\* So does the step the trainer is at.
TrainerLineage ==
    /\ trainer.pc = "wait" => trainer.weights = Before(trainer.step)
    /\ trainer.pc \in {"write", "overwrite", "notify", "save", "resave", "mark"} =>
          Follows(trainer.step, trainer.weights, Before(trainer.step))

LineageInv == OneLineage /\ StableLineage /\ TrainerLineage

\* The weights a trainer resumes from are as long as its line of versions.
LEMMA BeforeLength ==
  ASSUME TypeOK, ActiveResumable, OneLineage, StableLineage, NEW s \in Step,
         Active < s, \A t \in Step : Active < t /\ t < s => checkpoint[t].stable
  PROVE  Before(s) \in Weights /\ Len(Before(s)) = s - 1
  <1> USE PublicationAssumption
  <1>1. Active \in Nat /\ s \in Nat
    BY DEF TypeOK, Active, Step
  <1>2. CASE s = 1
    BY <1>2 DEF Before, Weights
  <1>3. CASE s # 1
    <2>1. s - 1 \in Step /\ Before(s) = checkpoint[s - 1].weights
      BY <1>3 DEF Before, Step
    <2>2. Before(s) \in Weights
      BY <2>1 DEF TypeOK, Directory
    <2>3. CASE s - 1 = Active
      <3>1. Active > 0 /\ Active \in DOMAIN activated
        BY <1>1, <2>1, <2>3 DEF Step, Active, TypeOK
      <3>2. Before(s) = activated[Active]
        BY <2>1, <2>3, <3>1 DEF ActiveResumable
      <3>3. Len(activated[Active]) = Active
        BY <3>1 DEF OneLineage
      <3> QED BY <2>2, <2>3, <3>2, <3>3
    <2>4. CASE s - 1 # Active
      <3>1. Active < s - 1 /\ s - 1 < s
        BY <1>1, <2>4
      <3> QED BY <2>1, <2>2, <3>1 DEF StableLineage, Follows
    <2> QED BY <2>3, <2>4
  <1> QED BY <1>2, <1>3

\* One more run at the end is one training step.
LEMMA AppendFollows ==
  ASSUME NEW base \in Weights, NEW r \in Nat, NEW v \in Nat, Len(base) = v - 1
  PROVE  Follows(v, Append(base, r), base)
  <1>1. Append(base, r) \in Weights /\ Len(Append(base, r)) = v
    BY DEF Weights
  <1>2. SubSeq(Append(base, r), 1, v - 1) = base
    BY DEF Weights
  <1> QED BY <1>1, <1>2 DEF Follows

\* Steps that leave the line alone: the active version, its checkpoint and the
\* ones after it, and a trainer that is the same, just started or gone.
LEMMA LineageKept ==
  ASSUME TypeOK, LineageInv, UNCHANGED activated,
         \A s \in Step : Active <= s => checkpoint'[s] = checkpoint[s],
         \/ UNCHANGED trainer /\ TrainerAlive /\ Active < trainer.step /\ trainer.step \in Step
         \/ trainer'.pc \in {"stopped", "exited", "load"}
  PROVE  LineageInv'
  <1>1. Active \in Nat /\ Active' = Active
    BY DEF TypeOK, Active
  <1>2. ASSUME NEW s \in Step, Active < s PROVE Before(s)' = Before(s)
    <2>1. s # 1 => s - 1 \in Step /\ Active <= s - 1
      BY <1>1, <1>2, PublicationAssumption DEF Step
    <2> QED BY <2>1 DEF Before
  <1>3. OneLineage'
    BY DEF LineageInv, OneLineage
  <1>4. StableLineage'
    <2> SUFFICES ASSUME NEW s \in Step, Active < s, checkpoint'[s].stable
                 PROVE  Follows(s, checkpoint'[s].weights, Before(s)')
      BY <1>1 DEF StableLineage, Follows
    <2>1. checkpoint'[s] = checkpoint[s]
      BY <1>1 DEF Step
    <2> QED BY <1>2, <2>1 DEF LineageInv, StableLineage
  <1>5. TrainerLineage'
    <2>1. CASE trainer'.pc \in {"stopped", "exited", "load"}
      BY <2>1 DEF TrainerLineage
    <2>2. CASE UNCHANGED trainer /\ TrainerAlive /\ Active < trainer.step /\ trainer.step \in Step
      <3>1. Before(trainer.step)' = Before(trainer.step)
        BY <1>2, <2>2 DEF Before
      <3> QED BY <2>2, <3>1 DEF LineageInv, TrainerLineage, Follows
    <2> QED BY <2>1, <2>2
  <1> QED BY <1>3, <1>4, <1>5 DEF LineageInv

\* The trainer adds one step to the line.
LEMMA TrainerLine == ASSUME PublicationInv, LineageInv, Trainer PROVE LineageInv'
  <1> USE PublicationAssumption DEF PublicationInv
  <1>1. /\ TrainerAlive /\ UNCHANGED activated /\ Active' = Active
        /\ trainer.step \in Step /\ trainer.weights \in Weights /\ run \in Nat /\ Active \in Nat
    BY DEF Trainer, LoadCheckpoint, TrainStep, OverwriteBroadcast, FinishBroadcast,
           NotifyOrchestrator, OverwriteCheckpoint, FinishCheckpoint, MarkStable, TrainerAlive,
           published, Active, TypeOK
  <1>2. /\ Active < trainer.step
        /\ \A s \in Step : trainer.step <= s => ~checkpoint[s].stable
        /\ \A s \in Step : Active < s /\ s < trainer.step => checkpoint[s].stable
    BY <1>1 DEF SharedInv, TrainerAhead
  <1>3. \A s \in Step : s # trainer.step => checkpoint'[s] = checkpoint[s]
    BY DEF Trainer, LoadCheckpoint, TrainStep, OverwriteBroadcast, FinishBroadcast,
           NotifyOrchestrator, OverwriteCheckpoint, FinishCheckpoint, MarkStable, disk, TypeOK
  <1>4. ASSUME NEW s \in Step, s <= trainer.step PROVE Before(s)' = Before(s)
    <2>1. s # 1 => s - 1 \in Step /\ s - 1 # trainer.step
      BY <1>1, <1>4 DEF Step
    <2> QED BY <1>3, <2>1 DEF Before
  <1>5. OneLineage'
    BY <1>1 DEF LineageInv, OneLineage
  <1>6. CASE LoadCheckpoint \/ TrainStep \/ OverwriteBroadcast \/ FinishBroadcast
             \/ NotifyOrchestrator \/ OverwriteCheckpoint \/ FinishCheckpoint
    <2>1. trainer'.step = trainer.step /\ \A s \in Step : checkpoint'[s].stable = checkpoint[s].stable
      <3>1. CASE UNCHANGED checkpoint
        BY <1>6, <3>1 DEF LoadCheckpoint, TrainStep, OverwriteBroadcast, FinishBroadcast,
               NotifyOrchestrator, OverwriteCheckpoint, FinishCheckpoint, TypeOK
      <3>2. CASE OverwriteCheckpoint
        BY <3>2 DEF OverwriteCheckpoint, TypeOK, Directory
      <3>3. CASE FinishCheckpoint
        BY <3>3 DEF FinishCheckpoint, TypeOK, Directory
      <3> QED BY <1>6, <3>1, <3>2, <3>3 DEF LoadCheckpoint, TrainStep, OverwriteBroadcast,
                FinishBroadcast, NotifyOrchestrator, disk
    <2>2. StableLineage'
      <3> SUFFICES ASSUME NEW s \in Step, Active < s, checkpoint'[s].stable
                   PROVE  Follows(s, checkpoint'[s].weights, Before(s)')
        BY <1>1 DEF StableLineage, Follows
      <3>1. s < trainer.step /\ checkpoint[s].stable
        BY <1>1, <1>2, <2>1 DEF Step
      <3>2. checkpoint'[s] = checkpoint[s] /\ Before(s)' = Before(s)
        BY <1>1, <1>3, <1>4, <3>1 DEF Step
      <3> QED BY <3>1, <3>2 DEF LineageInv, StableLineage
    <2>3. Before(trainer.step)' = Before(trainer.step)
      <3>1. trainer.step # 1 => trainer.step - 1 \in Step /\ trainer.step - 1 # trainer.step
        BY <1>1 DEF Step
      <3> QED BY <1>3, <2>1, <3>1 DEF Before
    <2>4. TrainerLineage'
      <3>1. CASE LoadCheckpoint
        <4>1. trainer'.pc = "wait" => trainer'.weights = Before(trainer.step)
          <5>1. trainer.step - 1 = 0 <=> trainer.step = 1
            BY <1>1 DEF Step
          <5> QED BY <3>1, <5>1 DEF LoadCheckpoint, Before, TypeOK
        <4>2. trainer'.pc \in {"wait", "exited"}
          BY <3>1 DEF LoadCheckpoint, TypeOK
        <4> QED BY <2>3, <4>1, <4>2 DEF TrainerLineage
      <3>2. CASE TrainStep
        <4>1. Before(trainer.step) \in Weights /\ Len(Before(trainer.step)) = trainer.step - 1
          BY <1>1, <1>2, BeforeLength DEF LineageInv, SharedInv
        <4>2. trainer.weights = Before(trainer.step)
          BY <3>2 DEF TrainStep, LineageInv, TrainerLineage
        <4>3. trainer'.weights = Append(Before(trainer.step), run) /\ trainer'.pc = "write"
          BY <3>2, <4>2 DEF TrainStep, TypeOK
        <4>4. trainer.step \in Nat
          BY <1>1 DEF Step
        <4>5. Follows(trainer.step, trainer'.weights, Before(trainer.step))
          BY <1>1, <4>1, <4>3, <4>4, AppendFollows
        <4> QED BY <2>1, <2>3, <4>3, <4>5 DEF TrainerLineage, Follows
      <3>3. CASE OverwriteBroadcast \/ FinishBroadcast \/ NotifyOrchestrator
                 \/ OverwriteCheckpoint \/ FinishCheckpoint
        <4>1. /\ trainer'.weights = trainer.weights
              /\ trainer.pc \in {"write", "overwrite", "notify", "save", "resave", "mark"}
              /\ trainer'.pc # "wait"
          BY <3>3 DEF OverwriteBroadcast, FinishBroadcast, NotifyOrchestrator,
                 OverwriteCheckpoint, FinishCheckpoint, TypeOK
        <4> QED BY <2>1, <2>3, <4>1 DEF LineageInv, TrainerLineage, Follows
      <3> QED BY <1>6, <3>1, <3>2, <3>3
    <2> QED BY <1>5, <2>2, <2>4 DEF LineageInv
  <1>7. CASE MarkStable
    <2>1. /\ trainer'.pc \in {"exited", "wait"}
          /\ trainer'.pc = "wait" => trainer'.step = trainer.step + 1 /\ trainer'.weights = trainer.weights
          /\ checkpoint'[trainer.step].weights = checkpoint[trainer.step].weights
          /\ trainer.pc = "mark"
      BY <1>1, <1>7 DEF MarkStable, TypeOK, Directory
    <2>2. checkpoint[trainer.step].weights = trainer.weights
      BY <2>1 DEF SharedInv, TrainerWrites
    <2>3. StableLineage'
      <3> SUFFICES ASSUME NEW s \in Step, Active < s, checkpoint'[s].stable
                   PROVE  Follows(s, checkpoint'[s].weights, Before(s)')
        BY <1>1 DEF StableLineage, Follows
      <3>1. CASE s = trainer.step
        <4>1. Before(s)' = Before(s)
          BY <1>1, <1>4, <3>1 DEF Step
        <4>2. Follows(trainer.step, trainer.weights, Before(trainer.step))
          BY <2>1 DEF LineageInv, TrainerLineage
        <4> QED BY <2>1, <2>2, <3>1, <4>1, <4>2
      <3>2. CASE s # trainer.step
        <4>1. checkpoint'[s] = checkpoint[s]
          BY <1>3, <3>2
        <4>2. s < trainer.step
          BY <1>1, <1>2, <3>2, <4>1 DEF Step
        <4>3. Before(s)' = Before(s)
          BY <1>1, <1>4, <4>2 DEF Step
        <4> QED BY <4>1, <4>3 DEF LineageInv, StableLineage
      <3> QED BY <3>1, <3>2
    <2>4. TrainerLineage'
      <3> SUFFICES ASSUME trainer'.pc = "wait" PROVE trainer'.weights = Before(trainer.step)'
        BY <2>1 DEF TrainerLineage
      <3>1. trainer'.step # 1 /\ trainer'.step - 1 = trainer.step
        BY <1>1, <2>1 DEF Step
      <3>2. Before(trainer.step)' = checkpoint'[trainer.step].weights
        BY <3>1 DEF Before
      <3> QED BY <2>1, <2>2, <3>2
    <2> QED BY <1>5, <2>3, <2>4 DEF LineageInv
  <1> QED BY <1>6, <1>7 DEF Trainer

\* Activation appends the stable checkpoint after the active version.
LEMMA ActivateLine == ASSUME PublicationInv, LineageInv, ActivatePolicy PROVE LineageInv'
  <1> USE PublicationAssumption DEF PublicationInv
  <1>1. Active \in Nat /\ Active + 1 \in Step /\ checkpoint[Active + 1].stable
        /\ candidate = checkpoint[Active + 1].weights
    BY DEF TypeOK, Active, ActivatePolicy, PublishesStable
  <1>2. /\ Active' = Active + 1 /\ UNCHANGED <<checkpoint, trainer>>
        /\ DOMAIN activated' = 1 .. Active + 1 /\ DOMAIN activated = 1 .. Active
        /\ activated'[Active + 1] = candidate
        /\ \A v \in 1 .. Active : activated'[v] = activated[v]
    BY DEF ActivatePolicy, Active, TypeOK, disk
  <1>3. Follows(Active + 1, candidate, Before(Active + 1))
    BY <1>1 DEF LineageInv, StableLineage
  <1>4. Active > 0 => Before(Active + 1) = activated[Active]
    BY <1>1 DEF Before, SharedInv, ActiveResumable
  <1>5. OneLineage'
    <2> SUFFICES ASSUME NEW v \in 1 .. Active + 1
                 PROVE  /\ Len(activated'[v]) = v
                        /\ v > 1 => activated'[v - 1] = SubSeq(activated'[v], 1, v - 1)
      BY <1>2 DEF OneLineage
    <2>1. CASE v = Active + 1
      BY <1>1, <1>2, <1>3, <1>4, <2>1 DEF Follows
    <2>2. CASE v \in 1 .. Active
      <3>1. v > 1 => v - 1 \in 1 .. Active
        BY <1>1, <2>2
      <3> QED BY <1>2, <2>2, <3>1 DEF LineageInv, OneLineage
    <2> QED BY <1>1, <2>1, <2>2
  <1>6. StableLineage'
    BY <1>1, <1>2 DEF LineageInv, StableLineage, Before, Follows, Step
  <1>7. TrainerLineage'
    BY <1>2 DEF LineageInv, TrainerLineage, Before, Follows
  <1> QED BY <1>5, <1>6, <1>7 DEF LineageInv

\* Every step keeps the line.
LEMMA LineageStep == ASSUME PublicationInv, LineageInv, [Next]_vars PROVE LineageInv'
  <1> USE DEF PublicationInv
  <1>1. ASSUME UNCHANGED <<activated, trainer>>,
               \A s \in Step : Active <= s => checkpoint'[s] = checkpoint[s]
        PROVE  LineageInv'
    <2>1. TrainerAlive \/ trainer.pc \in {"stopped", "exited"}
      BY DEF TrainerAlive
    <2>2. trainer.step \in Step /\ (TrainerAlive => Active < trainer.step)
      BY DEF TypeOK, SharedInv, TrainerAhead
    <2> QED BY <1>1, <2>1, <2>2, LineageKept
  <1>2. CASE Trainer
    BY <1>2, TrainerLine
  <1>3. CASE ActivatePolicy
    BY <1>3, ActivateLine
  <1>4. CASE Prune \/ TidyUp
    <2>1. UNCHANGED <<activated, trainer>> /\ PruneArtifacts
      BY <1>4 DEF Prune, TidyUp, published
    <2> QED BY <1>1, <2>1, PruneKeeps
  <1>5. CASE Launch
    <2>1. UNCHANGED <<activated, checkpoint>>
      BY <1>5 DEF Launch, disk, published
    <2>2. UNCHANGED trainer \/ trainer'.pc = "load"
      BY <1>5 DEF Launch, StartTrainer
    <2> QED BY <1>1, <2>1, <2>2, LineageKept
  <1>6. CASE StopUnready \/ Crash \/ TrainerDies
    <2>1. UNCHANGED <<activated, checkpoint>> /\ trainer'.pc \in {"stopped", "exited"}
      BY <1>6 DEF StopUnready, Crash, TrainerDies, Down, disk, published, TypeOK
    <2> QED BY <2>1, LineageKept
  <1>7. CASE FindStable \/ NothingToPublish \/ LoadAdapter \/ PublishLoraPolicy \/ DistributePolicy
             \/ RedistributeActive \/ Restart \/ ExportBatch \/ DistributionFails \/ UNCHANGED vars
    <2>1. UNCHANGED <<activated, trainer, checkpoint>>
      BY <1>7 DEF FindStable, NothingToPublish, LoadAdapter, PublishLoraPolicy, DistributePolicy,
             RedistributeActive, Restart, ExportBatch, DistributionFails, vars, disk, published
    <2> QED BY <1>1, <2>1
  <1> QED BY <1>2, <1>3, <1>4, <1>5, <1>6, <1>7 DEF Next, Runtime

-----------------------------------------------------------------------------
(* Theorems.                                                               *)

\* The inductive invariant holds in every reachable state.
THEOREM PublicationInvariant == Spec => []PublicationInv
  BY InitOK, InductiveStep, PTL DEF Spec

\* The state of trainer, directories and runtime keeps its type.
THEOREM PublicationTypes == Spec => []TypeOK
  <1>1. PublicationInv => TypeOK
    BY DEF PublicationInv
  <1> QED BY <1>1, PublicationInvariant, PTL

\* The active policy always has a whole checkpoint of exactly its weights,
\* whatever was pruned, trained again or interrupted.
THEOREM ResumeExact == Spec => []ActiveResumable
  <1>1. PublicationInv => ActiveResumable
    BY DEF PublicationInv, SharedInv
  <1> QED BY <1>1, PublicationInvariant, PTL

\* The runtime reads an adapter only from a broadcast that is whole and equal
\* to its checkpoint.
THEOREM HandoffSafe == Spec => []HandoffWhole
  <1>1. ASSUME PublicationInv PROVE HandoffWhole
    <2> SUFFICES ASSUME pc = "load" PROVE HandoffWhole
      BY DEF HandoffWhole
    <2>1. Active \in Nat /\ Active + 1 \in Step /\ checkpoint[Active + 1].stable
      BY <1>1 DEF PublicationInv, PublishesStable, TypeOK, Active
    <2>2. Whole(Active + 1)
      BY <1>1, <2>1 DEF PublicationInv, SharedInv, StablePairs
    <2> QED BY <2>2 DEF HandoffWhole, Whole
  <1> QED BY <1>1, PublicationInvariant, PTL

\* Workers are never told to sample from a policy they cannot fetch: whatever
\* failed before, activation follows the policy tree and the object store.
THEOREM Downloadable == Spec => []ActivatedDownloadable
  <1>1. Init => Offered
    BY DEF Init, Offered, ActivatedDownloadable
  <1>2. Offered => ActivatedDownloadable
    BY DEF Offered
  <1> QED BY <1>1, <1>2, OfferedStep, PublicationTypes, PTL DEF Spec

\* Every policy is one training step from the one before it, however often
\* steps were trained again after crashes: what a lost run made of a step
\* never becomes the base of a published version.
THEOREM LineageUnbroken == Spec => []OneLineage
  <1>1. ASSUME Init PROVE LineageInv
    <2>1. OneLineage
      BY <1>1 DEF Init, OneLineage
    <2>2. StableLineage
      BY <1>1 DEF Init, StableLineage, Missing
    <2>3. TrainerLineage
      BY <1>1 DEF Init, TrainerLineage
    <2> QED BY <2>1, <2>2, <2>3 DEF LineageInv
  <1>2. LineageInv => OneLineage
    BY DEF LineageInv
  <1> QED BY <1>1, <1>2, LineageStep, PublicationInvariant, PTL DEF Spec
=============================================================================
