--------------------------- MODULE TrainingQueue ---------------------------
(***************************************************************************)
(* From finished rollout groups to the batches the trainer reads: the      *)
(* ResultProcessor with its DurableTrainingQueue, the processed_groups,    *)
(* processed_rollouts and training_batches tables, and the                 *)
(* CoordinatorTrainingBatchExporter, driven by CoordinatorRuntime's        *)
(* service loop.                                                           *)
(*                                                                         *)
(* The service loop is one asyncio task: it processes at most one ready    *)
(* group, emits every batch that is full, exports the recorded batches and *)
(* publishes at most one policy, then starts again.  An artifact is        *)
(* published as a file before the transaction that refers to it, so a      *)
(* crash can leave a file without its row.  "pc" is the task's position    *)
(* and "picked" and "held" are what it carries from a publication to its   *)
(* transaction.  No other task writes these tables, so the reads of one    *)
(* iteration of _emit_ready_batches are one step with what they lead to.   *)
(*                                                                         *)
(* A rollout row is named by its group's sequence number and its ordinal;  *)
(* a batch artifact is the sequence of rollouts whose samples it holds.    *)
(***************************************************************************)
EXTENDS Integers, Sequences, FiniteSets

CONSTANTS
    BatchSize,             \* training_batch_size
    MaxPolicyLag,          \* max_policy_lag
    RequiresGroupScoring,  \* the algorithm needs every rollout of a group
    Shape,                 \* bound: the outcomes a group can end with
    MaxGroups,             \* bound: groups ever created
    MaxSteps,              \* bound: batches ever recorded
    MaxPolicy,             \* bound: policy versions the trainer reaches
    MaxCrashes             \* bound: crashes of the coordinator

\* How a trace leaves _process_group: with an error, not trainable, without
\* samples, dropped by a pre-filter, emptied by a post-filter, or kept.
Trace == {"error", "untrainable", "empty", "prefiltered", "postfiltered", "kept"}

ASSUME QueueAssumption ==
    /\ BatchSize \in Nat \ {0}
    /\ MaxPolicyLag \in Nat
    /\ RequiresGroupScoring \in BOOLEAN
    /\ Shape \subseteq Seq(Trace)
    /\ MaxGroups \in Nat
    /\ MaxSteps \in Nat
    /\ MaxPolicy \in 0 .. MaxSteps
    /\ MaxCrashes \in Nat

Group == 1 .. MaxGroups                 \* sequence numbers
Rollout == Group \X (Nat \ {0})         \* <<group, ordinal + 1>>
Step == 1 .. MaxSteps                   \* training steps, numbered from 1

VARIABLES
    group,       \* rollout_groups: state, kind, policy version and traces
    rollouts,    \* processed_rollouts of every processed group
    processed,   \* processed_groups
    batches,     \* training_batches: the members of step 1, 2, ...
    groupFiles,  \* group artifacts in the queue directory
    batchFiles,  \* batch artifacts in the queue directory, <<>> if there is none
    exported,    \* batch files in the trainer's rollout directory
    exportedTo,  \* last_exported_step, in memory
    active,      \* version of the active policy
    weights,     \* weights[v]: the artifact the trainer made version v from
    pc,          \* position of the service loop
    picked,      \* the group whose artifact is published but not recorded, or 0
    held,        \* the batch whose artifact is published but not recorded
    starting,    \* CoordinatorRuntime.start has not finished
    crashes      \* crashes so far

rows == <<rollouts, processed, batches>>
files == <<groupFiles, batchFiles>>
trainer == <<exported, weights>>
task == <<pc, picked, held, starting, crashes>>
vars == <<group, rows, files, trainer, exportedTo, active, task>>

RolloutRow == [kept: BOOLEAN, step: Nat, discarded: BOOLEAN]
GroupRow ==
    [state: {"absent", "collecting", "ready"}, kind: {"train", "eval"},
     version: Nat, traces: Seq(Trace)]
Position ==
    {"down", "process", "record", "emit", "commit", "export", "publish", "failed"}

TypeOK ==
    /\ group \in [Group -> GroupRow]
    /\ rollouts \in [Group -> Seq(RolloutRow)]
    /\ processed \subseteq Group
    /\ batches \in Seq(Seq(Rollout))
    /\ groupFiles \subseteq Group
    /\ batchFiles \in [Step -> Seq(Rollout)]
    /\ exported \in [Step -> Seq(Rollout)]
    /\ exportedTo \in Nat
    /\ active \in Nat
    /\ weights \in Seq(Seq(Rollout))
    /\ pc \in Position
    /\ picked \in 0 .. MaxGroups
    /\ held \in Seq(Rollout)
    /\ starting \in BOOLEAN
    /\ crashes \in Nat

AbsentGroup == [state |-> "absent", kind |-> "train", version |-> 0, traces |-> <<>>]

\* A new run starts the coordinator on an empty directory.
Init ==
    /\ group = [g \in Group |-> AbsentGroup]
    /\ rollouts = [g \in Group |-> <<>>]
    /\ processed = {}
    /\ batches = <<>>
    /\ groupFiles = {}
    /\ batchFiles = [s \in Step |-> <<>>]
    /\ exported = [s \in Step |-> <<>>]
    /\ exportedTo = 0
    /\ active = 0
    /\ weights = <<>>
    /\ pc = "down"
    /\ picked = 0
    /\ held = <<>>
    /\ starting = TRUE
    /\ crashes = 0

-----------------------------------------------------------------------------
(* The groups, as the scheduling side makes them.                          *)

Running == pc \notin {"down", "failed"} /\ ~starting

\* lease_or_create generates the next group for the active policy.
CreateGroup(g, kind) ==
    /\ Running
    /\ group[g].state = "absent"
    /\ \A h \in Group : h < g => group[h].state # "absent"
    /\ group' = [group EXCEPT ![g] =
                    [@ EXCEPT !.state = "collecting", !.kind = kind, !.version = active]]
    /\ UNCHANGED <<rows, files, trainer, exportedTo, active, task>>

\* The last assignment of a group gets its outcome; groups finish in any order.
FinishGroup(g, traces) ==
    /\ pc # "down"
    /\ group[g].state = "collecting"
    /\ group' = [group EXCEPT ![g] = [@ EXCEPT !.state = "ready", !.traces = traces]]
    /\ UNCHANGED <<rows, files, trainer, exportedTo, active, task>>

-----------------------------------------------------------------------------
(* Rollouts in order.                                                      *)

\* ORDER BY sequence, ordinal.
Precedes(m, n) == m[1] < n[1] \/ (m[1] = n[1] /\ m[2] <= n[2])

\* The place of m among the rollouts of R, and R listed by place.
Place(m, R) == Cardinality({n \in R : Precedes(n, m)})
InOrder(R) == [k \in 1 .. Cardinality(R) |-> CHOOSE m \in R : Place(m, R) = k]

-----------------------------------------------------------------------------
(* process_available.                                                      *)

\* Mutant: only groups of the active policy are taken up.
ReadyGroupsOfActive ==
    {g \in Group : group[g].state = "ready" /\ g \notin processed /\ group[g].version = active}

ReadyGroups == {g \in Group : group[g].state = "ready" /\ g \notin processed}

\* The trace a rollout row is made from.
Surviving(trace) == trace \in {"kept", "postfiltered"}

\* The traces of a group that survive, each named by its place in the group.
Survivors(g) ==
    InOrder({m \in {g} \X DOMAIN group[g].traces : Surviving(group[g].traces[m[2]])})

\* Mutant: a row without a batch is marked with step -1.
ProcessedUnbatched(g) ==
    IF group[g].kind = "eval" THEN <<>>
    ELSE [i \in DOMAIN Survivors(g) |->
             [kept |-> group[g].traces[Survivors(g)[i][2]] = "kept", step |-> -1, discarded |-> FALSE]]

\* The rollout rows _process_group makes of a group's traces.
Processed(g) ==
    LET row(trace) == [kept |-> trace = "kept", step |-> 0, discarded |-> FALSE]
        spoiled == RequiresGroupScoring /\ \E i \in DOMAIN group[g].traces : group[g].traces[i] = "error"
    IN IF group[g].kind = "eval" \/ spoiled
       THEN <<>>
       ELSE [i \in DOMAIN Survivors(g) |-> row(group[g].traces[Survivors(g)[i][2]])]

\* ready_groups yields the oldest; _process_group publishes its artifact ...
ProcessGroup(g) ==
    /\ pc = "process"
    /\ g \in ReadyGroups
    /\ \A h \in ReadyGroups : g <= h
    /\ groupFiles' = groupFiles \cup {g}
    /\ picked' = g
    /\ pc' = "record"
    /\ UNCHANGED <<group, rows, batchFiles, trainer, exportedTo, active, held, starting, crashes>>

NothingToProcess ==
    /\ pc = "process"
    /\ ReadyGroups = {}
    /\ pc' = "emit"
    /\ UNCHANGED <<group, rows, files, trainer, exportedTo, active, picked, held, starting, crashes>>

\* ... and record_processed_group inserts its rows.  (A group is recorded once:
\* the answer for a group already recorded is not reachable from this loop.)
RecordGroup ==
    /\ pc = "record"
    /\ processed' = processed \cup {picked}
    /\ rollouts' = [rollouts EXCEPT ![picked] = Processed(picked)]
    /\ picked' = 0
    /\ pc' = "emit"
    /\ UNCHANGED <<group, batches, files, trainer, exportedTo, active, held, starting, crashes>>

-----------------------------------------------------------------------------
(* _emit_ready_batches.                                                    *)

RolloutRowOf(m) == rollouts[m[1]][m[2]]

\* Mutant: rollouts of recorded batches are still pending.
AvailableAgain(m) == ~RolloutRowOf(m).discarded

Available(m) == RolloutRowOf(m).step = 0 /\ ~RolloutRowOf(m).discarded
Kept(m) == RolloutRowOf(m).kept
VersionOf(m) == group[m[1]].version

Recorded == UNION {{g} \X DOMAIN rollouts[g] : g \in Group}

\* pending_processed_rollouts, whose order InOrder gives.
Pending == {m \in Recorded : Available(m)}

\* Mutant: the lag window is one version too wide.
StaleLate(m) == active - VersionOf(m) > MaxPolicyLag + 1

Stale(m) == active - VersionOf(m) > MaxPolicyLag

\* Mutant: one partition for all policies.
PartitionOfAll(v) == Pending

Partition(v) == {m \in Pending : VersionOf(m) = v}

\* _select_policy_homogeneous_batch: of the policies with enough rollouts for
\* a batch, the one whose first rollout is the oldest.
Full(m) == Cardinality(Partition(VersionOf(m))) >= BatchSize

Selected ==
    LET full == {m \in Pending : Full(m)}
        oldest == InOrder(full)[1]
        first(R) == [k \in 1 .. BatchSize |-> InOrder(R)[k]]
    IN IF full = {} THEN <<>> ELSE first(Partition(VersionOf(oldest)))

Members(s) == {s[i] : i \in DOMAIN s}

\* The samples of a batch: post-filtered members have none.
Samples(members) == InOrder({m \in Members(members) : Kept(m)})

\* discard_processed_rollouts
Discarded(members) ==
    [g \in Group |-> [i \in DOMAIN rollouts[g] |->
        IF <<g, i>> \in members THEN [rollouts[g][i] EXCEPT !.discarded = TRUE]
                                ELSE rollouts[g][i]]]

\* The iteration drops the pending rollouts of policies out of the lag window.
DiscardStale ==
    LET stale == {m \in Pending : Stale(m)}
    IN /\ pc = "emit"
       /\ stale # {}
       /\ rollouts' = Discarded(stale)
       /\ UNCHANGED <<group, processed, batches, files, trainer, exportedTo, active, task>>

\* The iteration drops a full selection that has no sample.
DiscardEmpty ==
    /\ pc = "emit"
    /\ \A m \in Pending : ~Stale(m)
    /\ Selected # <<>>
    /\ Samples(Selected) = <<>>
    /\ rollouts' = Discarded(Members(Selected))
    /\ UNCHANGED <<group, processed, batches, files, trainer, exportedTo, active, task>>

\* _publish links the new file to its final name, or finds the same one there.
CanPublish(file, content) == file \in {<<>>, content}

\* verify: the file is there, with the digest and size of the row.
Intact(file, content) == file = content

\* The iteration publishes the next batch's artifact.  A different artifact
\* under the same step raises ArtifactCorruptionError, which ends the loop.
PublishBatch ==
    LET step == Len(batches) + 1
    IN /\ pc = "emit"
       /\ \A m \in Pending : ~Stale(m)
       /\ Selected # <<>>
       /\ Samples(Selected) # <<>>
       /\ step <= MaxSteps
       /\ IF CanPublish(batchFiles[step], Samples(Selected))
          THEN /\ batchFiles' = [batchFiles EXCEPT ![step] = Samples(Selected)]
               /\ held' = Selected
               /\ pc' = "commit"
          ELSE /\ pc' = "failed"
               /\ UNCHANGED <<batchFiles, held>>
       /\ UNCHANGED <<group, rows, groupFiles, trainer, exportedTo, active, picked, starting, crashes>>

\* record_training_batch: the members must still be available.
CommitBatch ==
    LET step == Len(batches) + 1
        taken == {m \in Members(held) : ~Available(m)}
    IN /\ pc = "commit"
       /\ IF taken = {}
          THEN /\ batches' = Append(batches, held)
               /\ rollouts' = [g \in Group |-> [i \in DOMAIN rollouts[g] |->
                    IF <<g, i>> \in Members(held) THEN [rollouts[g][i] EXCEPT !.step = step]
                                                  ELSE rollouts[g][i]]]
               /\ pc' = "emit"
          ELSE /\ pc' = "failed"
               /\ UNCHANGED <<batches, rollouts>>
       /\ held' = <<>>
       /\ UNCHANGED <<group, processed, files, trainer, exportedTo, active, picked, starting, crashes>>

NothingToEmit ==
    /\ pc = "emit"
    /\ \A m \in Pending : ~Stale(m)
    /\ Selected = <<>>
    /\ pc' = "export"
    /\ UNCHANGED <<group, rows, files, trainer, exportedTo, active, picked, held, starting, crashes>>

-----------------------------------------------------------------------------
(* export_available, policy publication, the trainer.                      *)

\* _export_record: the next recorded batch is linked into the trainer's
\* directory; a missing or different artifact, or a different file already
\* there, raises ArtifactCorruptionError.
ExportBatch ==
    LET step == exportedTo + 1
        content == Samples(batches[step])
        sound == \/ Intact(exported[step], content)
                 \/ exported[step] = <<>> /\ Intact(batchFiles[step], content)
    IN /\ pc = "export"
       /\ exportedTo < Len(batches)
       /\ IF sound
          THEN /\ exported' = [exported EXCEPT ![step] = content]
               /\ exportedTo' = step
               /\ UNCHANGED pc
          ELSE /\ pc' = "failed"
               /\ UNCHANGED <<exported, exportedTo>>
       /\ UNCHANGED <<group, rows, files, weights, active, picked, held, starting, crashes>>

\* In the service loop publication follows; start goes on to the service loop.
NothingToExport ==
    /\ pc = "export"
    /\ exportedTo = Len(batches)
    /\ pc' = IF starting THEN "process" ELSE "publish"
    /\ starting' = FALSE
    /\ UNCHANGED <<group, rows, files, trainer, exportedTo, active, picked, held, crashes>>

\* _publish_available_policies activates the version after the active one
\* when the trainer has finished it; start repeats it, the loop does not.
PublishPolicy ==
    /\ pc = "publish"
    /\ active < Len(weights)
    /\ active' = active + 1
    /\ pc' = IF starting THEN "publish" ELSE "process"
    /\ UNCHANGED <<group, rows, files, trainer, exportedTo, picked, held, starting, crashes>>

NothingToPublish ==
    /\ pc = "publish"
    /\ active = Len(weights)
    /\ pc' = IF starting THEN "export" ELSE "process"
    /\ UNCHANGED <<group, rows, files, trainer, exportedTo, active, picked, held, starting, crashes>>

\* Mutant: a resumed trainer reads its last batch again.
TrainAgain ==
    LET step == Len(weights) + 1
        read == IF step > 1 /\ active = step - 1 THEN step - 1 ELSE step
    IN /\ pc # "down" /\ ~starting
       /\ step <= MaxPolicy
       /\ exported[read] # <<>>
       /\ weights' = Append(weights, exported[read])
       /\ UNCHANGED <<group, rows, files, exported, exportedTo, active, task>>

\* The trainer reads the batch of its next step and finishes the step.
Train ==
    LET step == Len(weights) + 1
    IN /\ pc # "down" /\ ~starting
       /\ step <= MaxPolicy
       /\ exported[step] # <<>>
       /\ weights' = Append(weights, exported[step])
       /\ UNCHANGED <<group, rows, files, exported, exportedTo, active, task>>

-----------------------------------------------------------------------------
(* Crashes.                                                                *)

\* The coordinator and its trainer die; tables and files survive.
Crash ==
    /\ pc # "down"
    /\ crashes < MaxCrashes
    /\ crashes' = crashes + 1
    /\ pc' = "down"
    /\ picked' = 0
    /\ held' = <<>>
    /\ exportedTo' = 0
    /\ starting' = TRUE
    /\ UNCHANGED <<group, rows, files, trainer, active>>

\* Mutant: batch files that no row refers to are left in place.
RecoverKeepingBatches ==
    /\ pc = "down"
    /\ groupFiles' = groupFiles \cap processed
    /\ pc' = "publish"
    /\ UNCHANGED <<group, rows, batchFiles, trainer, exportedTo, active, picked, held, starting, crashes>>

\* DurableTrainingQueue.recover verifies the artifacts the tables refer to
\* and removes the others.
Recover ==
    LET sound == /\ processed \subseteq groupFiles
                 /\ \A s \in DOMAIN batches : Intact(batchFiles[s], Samples(batches[s]))
    IN /\ pc = "down"
       /\ IF sound
          THEN /\ groupFiles' = groupFiles \cap processed
               /\ batchFiles' = [s \in Step |-> IF s \in DOMAIN batches THEN batchFiles[s] ELSE <<>>]
               /\ pc' = "publish"
          ELSE /\ pc' = "failed"
               /\ UNCHANGED files
       /\ UNCHANGED <<group, rows, trainer, exportedTo, active, picked, held, starting, crashes>>

-----------------------------------------------------------------------------
\* The service loop, from the start of the process on.
Serve ==
    \/ \E g \in Group : ProcessGroup(g)
    \/ NothingToProcess
    \/ RecordGroup
    \/ DiscardStale
    \/ DiscardEmpty
    \/ PublishBatch
    \/ CommitBatch
    \/ NothingToEmit
    \/ ExportBatch
    \/ NothingToExport
    \/ PublishPolicy
    \/ NothingToPublish
    \/ Recover

Next ==
    \/ \E g \in Group, kind \in {"train", "eval"} : CreateGroup(g, kind)
    \/ \E g \in Group, traces \in Shape : FinishGroup(g, traces)
    \/ Serve
    \/ Train
    \/ Crash

Spec == Init /\ [][Next]_vars

\* The event loop keeps running the service task and a supervisor restarts a
\* process that died.  Nothing makes groups finish or the trainer advance.
FairSpec == Spec /\ WF_vars(Serve)

-----------------------------------------------------------------------------
(* Properties.                                                             *)

\* A rollout is consumed at most once: the rollout rows and the batches agree,
\* no rollout is a member of two batches or twice of one, and a discarded
\* rollout is in none, however crashes cut publication from recording.
RolloutsUsedOnce ==
    /\ \A s \in DOMAIN batches :
          /\ Cardinality(Members(batches[s])) = Len(batches[s])
          /\ \A m \in Members(batches[s]) :
                RolloutRowOf(m).step = s /\ ~RolloutRowOf(m).discarded
    /\ \A g \in Group : \A i \in DOMAIN rollouts[g] :
          rollouts[g][i].step # 0 => <<g, i>> \in Members(batches[rollouts[g][i].step])

\* _assert_single_payload_policy_identity: the rollouts of a batch were all
\* sampled from one policy, and there are exactly BatchSize of them.
BatchesHomogeneous ==
    \A s \in DOMAIN batches :
        /\ Len(batches[s]) = BatchSize
        /\ \A m, n \in Members(batches[s]) : VersionOf(m) = VersionOf(n)

\* What the trainer was given, and what every policy was made from, is the
\* recorded batch of that step: a batch that a crash lost between its file
\* and its row never reached the trainer, though its step number is reused.
TrainedOnRecordedBatches ==
    /\ \A s \in Step : exported[s] # <<>> =>
          s \in DOMAIN batches /\ exported[s] = Samples(batches[s])
    /\ \A v \in DOMAIN weights :
          v \in DOMAIN batches /\ weights[v] = Samples(batches[v])

\* No sequence of crashes makes the service loop or the next start raise
\* ArtifactCorruptionError or ConflictError: the artifacts the rows refer to
\* are there, and none is in the way of what is published next.
NeverWedged == pc # "failed" /\ processed \subseteq groupFiles

\* A batch is recorded only with rollouts inside the policy lag window of
\* that moment, also when policies were activated since they were processed.
FreshWhenRecorded ==
    [][Len(batches') > Len(batches) =>
          \A m \in Members(batches'[Len(batches')]) :
              active' - group'[m[1]].version <= MaxPolicyLag]_vars

\* Every finished group is eventually processed, whatever policy it was
\* sampled from and however crashes interrupt the loop.
FinishedGroupsProcessed ==
    \A g \in Group : group[g].state = "ready" ~> g \in processed

\* Every recorded batch eventually reaches the trainer's directory, also when
\* the coordinator crashed after recording it.
BatchesReachTrainer == \A s \in Step : s \in DOMAIN batches ~> exported[s] # <<>>

\* Nothing that was finished is stuck: groups reach a batch's pool and batches
\* reach the trainer.
QueueMoves == FinishedGroupsProcessed /\ BatchesReachTrainer

\* docs/configuration.md describes training_batch_size as the "completed
\* groups exported in each trainer batch".
BatchesHoldGroups ==
    \A s \in DOMAIN batches : Cardinality({m[1] : m \in Members(batches[s])}) = BatchSize
=============================================================================
