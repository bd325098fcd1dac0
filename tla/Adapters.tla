------------------------------ MODULE Adapters ------------------------------
(***************************************************************************)
(* The adapter of the trained run: layers that keep references to two      *)
(* shared tensors (tokens per adapter, scaling factors), the life of the   *)
(* run the adapter belongs to, the optimizer that is built on it, and the  *)
(* keys under which it is saved.                                           *)
(*                                                                         *)
(* Between two collectives the ranks do not depend on each other here      *)
(* (TrainerRanks interleaves them), so they move together.                 *)
(***************************************************************************)
EXTENDS Integers, Sequences, FiniteSets, SequencesExt

CONSTANTS
  Ranks,          \* 0 .. n - 1, one context parallel group, 0 is the master
  Runs,           \* run id -> [rank, scaling], its model.lora
  TrainerRank,    \* rank of the trainer's own LoRA configuration
  Targets,        \* modules that LoRA wraps
  Others,         \* parameters of other modules
  Lengths,        \* lengths of the micro batches
  CountInputs,    \* <<tokens per adapter, length of a chunk>>: inputs of ChunkCounts
  Poison,         \* 1000000.0
  MaxChanges,     \* bound: run directories made and removed
  MaxTrained,     \* bound: optimizer steps
  NoOne

VARIABLES
  onDisk,     \* run directories
  mine,       \* the run at index 0, per rank
  lastSynced, \* _last_synced_id_2_idx of the master
  cells,      \* per rank: the tensors that exist
  globals,    \* per rank: LORA_NUM_TOKENS and SCALING_FACTORS, 0 for None
  layers,     \* per rank and module: the tensors the layer refers to
  weights,    \* per rank and module: [from, steps] of its adapter
  optimized,  \* parameter groups of the optimizer
  at,         \* position of the trainer
  seen,       \* what the layers saw in the last forward
  replaced,   \* a run has given way to another between two synchronisations
  justNow,    \* ... the last two
  resumed,    \* the adapter was loaded from a checkpoint
  changes

adapterVars == <<onDisk, mine, lastSynced, cells, globals, layers, weights, optimized, at, seen, replaced, justNow, resumed, changes>>

AdapterAssumption == Poison \notin {Runs[r].scaling : r \in DOMAIN Runs} /\ NoOne \notin DOMAIN Runs

Master == 0
Cp == Cardinality(Ranks)
Unset == [tokens |-> 0, scaling |-> 0]
Fresh == [from |-> "random", steps |-> 0]

Init ==
  /\ onDisk = {} /\ lastSynced = NoOne /\ mine = [r \in Ranks |-> NoOne]
  /\ cells = [r \in Ranks |-> <<>>] /\ globals = [r \in Ranks |-> Unset]
  /\ layers = [r \in Ranks |-> [m \in Targets |-> Unset]]
  /\ weights = [r \in Ranks |-> [m \in Targets |-> Fresh]]
  /\ optimized = <<>> /\ at = "start" /\ seen = <<>> /\ replaced = FALSE /\ justNow = FALSE
  /\ resumed = FALSE /\ changes = 0

-----------------------------------------------------------------------------
\* MultiRunManager.__init__ (and setup_multi_run_manager, which takes one run only).
SetupManager ==
  /\ at = "start"
  /\ cells' = [r \in Ranks |-> << <<0>>, Poison>>]
  /\ globals' = [r \in Ranks |-> [tokens |-> 1, scaling |-> 2]]
  /\ at' = "manager"
  /\ UNCHANGED <<onDisk, mine, lastSynced, layers, weights, optimized, seen, replaced, justNow, resumed, changes>>

\* apply_lora_to_model: every target is wrapped, registered and initialised.
ApplyLora ==
  /\ at = "manager" /\ Targets # {}
  /\ layers' = [r \in Ranks |-> [m \in Targets |-> globals[r]]]
  /\ weights' = [r \in Ranks |-> [m \in Targets |-> Fresh]]
  /\ at' = "wait"
  /\ UNCHANGED <<onDisk, mine, lastSynced, cells, globals, optimized, seen, replaced, justNow, resumed, changes>>

\* A run directory with its orch.toml comes or goes.
RunAppears(run) ==
  /\ changes < MaxChanges /\ run \notin onDisk
  /\ onDisk' = onDisk \cup {run} /\ changes' = changes + 1
  /\ UNCHANGED <<mine, lastSynced, cells, globals, layers, weights, optimized, at, seen, replaced, justNow, resumed>>

RunVanishes(run) ==
  /\ changes < MaxChanges /\ run \in onDisk
  /\ onDisk' = onDisk \ {run} /\ changes' = changes + 1
  /\ UNCHANGED <<mine, lastSynced, cells, globals, layers, weights, optimized, at, seen, replaced, justNow, resumed>>

ScalingOf(r) == cells[r][globals[r].scaling]
WithScaling(r, value) == [cells[r] EXCEPT ![globals[r].scaling] = value]

\* discover_runs on the master, while it waits for the run or for a batch: a
\* vanished run poisons its scaling, a new one whose rank fits sets it.
DiscoverRuns ==
  /\ at \in {"wait", "pack"}
  /\ LET kept == IF mine[Master] \in onDisk THEN mine[Master] ELSE NoOne
         fits == IF kept # NoOne THEN {} ELSE {r \in onDisk : Runs[r].rank = TrainerRank}
     IN  \E now \in (IF fits = {} THEN {kept} ELSE fits) :
           /\ mine' = [mine EXCEPT ![Master] = now]
           /\ cells' = [cells EXCEPT ![Master] = WithScaling(Master,
                IF now # kept THEN Runs[now].scaling
                ELSE IF mine[Master] # kept THEN Poison ELSE ScalingOf(Master))]
  /\ at' = IF at = "wait" THEN "found" ELSE IF mine'[Master] = NoOne THEN "pack" ELSE "packed"
  /\ UNCHANGED <<onDisk, lastSynced, globals, layers, weights, optimized, seen, replaced, justNow, resumed, changes>>

\* More rounds of the packer's loop before a batch is there.
DiscoverAgain ==
  /\ at = "packed" /\ at' = "pack"
  /\ UNCHANGED <<onDisk, mine, lastSynced, cells, globals, layers, weights, optimized, seen, replaced, justNow, resumed, changes>>

\* synchronize_state: the other ranks copy the scaling factors first and then
\* forget the old run and create the new one; a new run's adapter starts afresh.
Synchronized(r) ==
  IF r # Master /\ mine[r] # NoOne /\ mine[r] # mine[Master] THEN Poison ELSE ScalingOf(Master)

SynchronizeState ==
  /\ at \in {"found", "packed"}
  /\ cells' = [r \in Ranks |-> WithScaling(r, Synchronized(r))]
  /\ mine' = [r \in Ranks |-> mine[Master]]
  /\ lastSynced' = mine[Master]
  /\ weights' = [r \in Ranks |->
       LET before == IF r = Master THEN lastSynced ELSE mine[r]
       IN  IF mine[Master] \notin {NoOne, before} THEN [m \in Targets |-> Fresh] ELSE weights[r]]
  /\ justNow' = (lastSynced # NoOne /\ mine[Master] \notin {NoOne, lastSynced})
  /\ replaced' = (replaced \/ justNow')
  /\ at' = IF at = "packed" THEN "train" ELSE IF mine[Master] = NoOne THEN "wait" ELSE "optimizer"
  /\ UNCHANGED <<onDisk, globals, layers, optimized, seen, resumed, changes>>

\* _create_optimizer and _create_muon_optimizer over the parameters of run 0.
GroupOf(m) ==
  IF m.dims < 2 \/ m.place \in {"lm_head", "embed_tokens"} THEN "adamw"
  ELSE IF m.place \in {"experts", "router"} THEN m.place ELSE "muon"

ParamGroups(type) ==
  IF type # "muon" THEN <<Targets>>
  ELSE LET In(g) == {m \in Targets : GroupOf(m) = g} IN
       <<In("muon")>> \o SelectSeq(<<In("experts"), In("router")>>, LAMBDA s : s # {}) \o <<In("adamw")>>

\* setup_optimizer, after wait_for_run(0); then the checkpoint, if there is one.
SetupOptimizer(type, resume) ==
  /\ at = "optimizer"
  /\ optimized' = ParamGroups(type)
  /\ weights' = IF resume THEN [r \in Ranks |-> [m \in Targets |-> [from |-> "checkpoint", steps |-> 0]]]
                ELSE weights
  /\ resumed' = resume
  /\ at' = "pack"
  /\ UNCHANGED <<onDisk, mine, lastSynced, cells, globals, layers, seen, replaced, justNow, changes>>

\* train.py cuts the counts of a micro batch to the chunk of a rank: running
\* totals, moved to the start of the chunk, clipped to it, differences.
ChunkCounts(counts, chunk, rank) ==
  LET total == [i \in 0 .. Len(counts) |-> FoldLeft(LAMBDA a, b : a + b, 0, SubSeq(counts, 1, i))]
      Clip(x) == IF x < 0 THEN 0 ELSE IF x > chunk THEN chunk ELSE x
      edge == [i \in 0 .. Len(counts) |-> IF i = 0 THEN 0 ELSE Clip(total[i] - chunk * rank)]
  IN  [i \in DOMAIN counts |-> edge[i] - edge[i - 1]]

\* set_lora_num_tokens copies into the tensor that exists; then the forward of
\* every layer, which reads through the references it holds, and the step.
Train(length) ==
  /\ at = "train" /\ \A r \in Ranks : \A m \in Targets : weights[r][m].steps < MaxTrained
  /\ LET chunk == length \div Cp
         after == [r \in Ranks |-> [cells[r] EXCEPT ![globals[r].tokens] = ChunkCounts(<<length>>, chunk, r)]]
     IN  /\ cells' = after
         /\ seen' = [r \in Ranks |-> [m \in Targets |->
              [counts |-> after[r][layers[r][m].tokens], scaling |-> after[r][layers[r][m].scaling],
               rows |-> chunk, run |-> mine[r], replacing |-> justNow]]]
  /\ weights' = [r \in Ranks |-> [m \in Targets |->
       IF \E k \in DOMAIN optimized : m \in optimized[k] THEN [weights[r][m] EXCEPT !.steps = @ + 1]
       ELSE weights[r][m]]]
  /\ at' = "pack"
  /\ UNCHANGED <<onDisk, mine, lastSynced, globals, layers, optimized, replaced, justNow, resumed, changes>>

Next ==
  \/ SetupManager \/ ApplyLora \/ DiscoverRuns \/ DiscoverAgain \/ SynchronizeState
  \/ \E run \in DOMAIN Runs : RunAppears(run) \/ RunVanishes(run)
  \/ \E type \in {"adamw", "muon"}, resume \in BOOLEAN : SetupOptimizer(type, resume)
  \/ \E length \in Lengths : Train(length)

-----------------------------------------------------------------------------
\* Keys of a state dict: [module, inner, part], inner for "base_layer.".
Keys == {[module |-> m, inner |-> TRUE, part |-> "weight"] : m \in Targets}
        \cup {[module |-> m, inner |-> FALSE, part |-> p] : m \in Targets, p \in {"lora_A", "lora_B"}}
        \cup {[module |-> m, inner |-> FALSE, part |-> "weight"] : m \in Others}

\* _post_state_dict_hook and _pre_load_state_dict_hook of a wrapped module.
Saved(keys) == {IF k.module \in Targets THEN [k EXCEPT !.inner = FALSE] ELSE k : k \in keys}
Loaded(keys) ==
  {IF k.module \in Targets /\ k.part \notin {"lora_A", "lora_B"} THEN [k EXCEPT !.inner = TRUE] ELSE k : k \in keys}

-----------------------------------------------------------------------------
\* Every layer of every rank sees the counts of its own chunk and a scaling
\* that is the training run's, although tensors are shared by reference and
\* runs come and go; but in a step that follows the replacement of a run the
\* other ranks see the poison they wrote over the factor just copied, and the
\* next synchronisation, with no other replacement, heals them.
LayersSeeRun ==
  seen # <<>> => \A r \in Ranks : \A m \in Targets :
    LET s == seen[r][m] IN
    /\ FoldLeft(LAMBDA a, b : a + b, 0, s.counts) = s.rows
    /\ s.run # NoOne
    /\ s.scaling = IF s.replacing /\ r # Master THEN Poison ELSE Runs[s.run].scaling

\* Ranks hold the same adapter, all of which is optimized, each part once; a
\* loaded checkpoint is not reset by the creation of the run it belongs to.
AdapterWhole ==
  /\ \A r \in Ranks : weights[r] = weights[Master]
  /\ \A r \in Ranks : \A m, n \in Targets : weights[r][m] = weights[r][n]
  /\ resumed /\ ~replaced => \A m \in Targets : weights[Master][m].from = "checkpoint"
  /\ optimized # <<>> =>
       /\ UNION Range(optimized) = Targets
       /\ \A j, k \in DOMAIN optimized : j # k => optimized[j] \cap optimized[k] = {}

\* The counts of a chunk are the tokens of each adapter inside the chunk.
CountsExact ==
  \A input \in CountInputs : \A rank \in Ranks :
    LET owner == FlattenSeq([i \in DOMAIN input[1] |-> [t \in 1 .. input[1][i] |-> i]])
        mineOnly == {t \in DOMAIN owner : input[2] * rank < t /\ t <= input[2] * (rank + 1)}
    IN  ChunkCounts(input[1], input[2], rank)
          = [i \in DOMAIN input[1] |-> Cardinality({t \in mineOnly : owner[t] = i})]

\* What is saved loads again, and a model without adapters can load its part.
KeysRoundTrip ==
  /\ Loaded(Saved(Keys)) = Keys
  /\ \A k \in Saved(Keys) : ~k.inner
=============================================================================
