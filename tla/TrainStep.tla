------------------------------ MODULE TrainStep ------------------------------
(***************************************************************************)
(* One optimizer step of the trainer on a grid of data parallel times      *)
(* context parallel ranks: the global token counts, the forward passes     *)
(* over sharded sequences, the three loss components and their scales, the *)
(* token export with its STABLE mark, and the statistics gathered from all *)
(* ranks.                                                                  *)
(*                                                                         *)
(* A token is one of "prompt", "action" (sampled by the policy), "distill" *)
(* (sampled, trained towards a reference), "echo" (an observation trained  *)
(* by cross entropy) and "pad".  A gradient is the number of times each    *)
(* token counts in each component, over the component's scale.             *)
(***************************************************************************)
EXTENDS Integers, Sequences, FiniteSets, SequencesExt, FiniteSetsExt

CONSTANTS
    Dp, Cp,         \* degrees of data and context parallelism
    Loads,          \* what the loaders may hand out: sequences of steps; a step gives
                    \* every data parallel rank its micro batches [seqs, rl, env]
    DrGrpo,         \* rl_normalization = "dr_grpo"
    MaxCompletion   \* dr_grpo_max_completion_tokens

DpRanks == 0 .. Dp - 1
Grid == DpRanks \X (0 .. Cp - 1)
Components == {"rl", "ce", "ref_kl"}

VARIABLES
    load,       \* the steps this run trains on
    trained,    \* optimizer steps taken
    doing,      \* position of every rank in the step
    micro,      \* micro batches a rank has finished
    local,      \* token counts of a rank
    scales,     \* denominators of the components
    logprobs,   \* of the current micro batch: which position each one is about
    mass,       \* gradient: how often a token counted in a component
    exports,    \* rows of the export file of a rank and step
    pending,    \* export directories a rank has not marked
    stable,     \* steps with a STABLE file
    stats       \* entropies gathered from all ranks, per environment

stepVars == <<load, trained, doing, micro, local, scales, logprobs, mass, exports, pending, stable,
              stats>>

Work == load[trained + 1]
Micros(d) == Work[d]
Flat(batch) == FlattenSeq(batch.seqs)
SeqLengths(batch) == [i \in DOMAIN batch.seqs |-> Len(batch.seqs[i])]
OfDp(d) == {r \in Grid : r[1] = d}
Everyone(where) == \A r \in Grid : doing[r] = where

TypeOK ==
    /\ load \in Loads /\ trained \in 0 .. Len(load)
    /\ \A r \in Grid : micro[r] \in Nat /\ doing[r] \in
         {"count", "reduce", "forward", "backward", "export", "mark", "update", "failed", "done"}
    /\ stable \subseteq Nat

Init ==
    /\ load \in Loads /\ trained = 0
    /\ doing = [r \in Grid |-> "count"] /\ micro = [r \in Grid |-> 0]
    /\ local = [r \in Grid |-> <<0, 0, 0, 0>>]
    /\ scales = [c \in Components |-> 0]
    /\ logprobs = [r \in Grid |-> <<>>]
    /\ mass = <<>> /\ exports = <<>> /\ pending = [r \in Grid |-> {}]
    /\ stable = {} /\ stats = <<>>

-----------------------------------------------------------------------------
(* The global token counts.                                                *)

LossMask(token) == token \in {"action", "distill"}

\* An absent rl stream means weight 1 on the whole loss mask.
Member(batch, component, token) ==
    CASE component = "rl" -> LossMask(token) /\ (batch.rl => token # "distill")
      [] component = "ce" -> token = "echo"
      [] component = "ref_kl" -> batch.rl /\ token = "distill"

Active(batch, component) == {i \in DOMAIN Flat(batch) : Member(batch, component, Flat(batch)[i])}

\* rl_mask keeps its batch dimension, so the slice of the first sequence is the
\* whole micro batch and the slices of the others are empty.
ActiveSequences(batch) == IF Active(batch, "rl") # {} THEN 1 ELSE 0

LocalScales(d) ==
    LET Total(Value(_)) == FoldLeft(LAMBDA sum, batch : sum + Value(batch), 0, Micros(d))
    IN <<Total(LAMBDA b : Cardinality(Active(b, "rl"))), Total(LAMBDA b : Cardinality(Active(b, "ce"))),
         Total(LAMBDA b : Cardinality(Active(b, "ref_kl"))), Total(ActiveSequences)>>

Count(r) ==
    /\ doing[r] = "count"
    /\ local' = [local EXCEPT ![r] = LocalScales(r[1])]
    /\ doing' = [doing EXCEPT ![r] = "reduce"]
    /\ UNCHANGED <<load, trained, micro, scales, logprobs, mass, exports, pending, stable, stats>>

AtLeastOne(n) == IF n > 1 THEN n ELSE 1

RlNormalizationScale(tokens, sequences) ==
    IF DrGrpo THEN AtLeastOne(sequences * MaxCompletion) ELSE AtLeastOne(tokens)

\* One collective over dp_cp sums all four counts, on every rank the same.
AllReduce ==
    /\ Everyone("reduce")
    /\ LET Sum(k) == MapThenSumSet(LAMBDA r : local[r][k], Grid)
       IN IF DrGrpo /\ Sum(4) % Cp # 0
          THEN doing' = [r \in Grid |-> "failed"] /\ UNCHANGED scales
          ELSE /\ scales' = [rl |-> RlNormalizationScale(Sum(1), Sum(4)),
                             ce |-> AtLeastOne(Sum(2)), ref_kl |-> AtLeastOne(Sum(3))]
               /\ doing' = [r \in Grid |-> IF Micros(r[1]) = <<>> THEN "export" ELSE "forward"]
    /\ UNCHANGED <<load, trained, micro, local, logprobs, mass, exports, pending, stable, stats>>

-----------------------------------------------------------------------------
(* Forward and backward.                                                   *)

\* Chunk of a sequence a context parallel rank works on.
ShardForCp(seq, c) ==
    LET chunk == Len(seq) \div Cp IN SubSeq(seq, c * chunk + 1, (c + 1) * chunk)

ShiftLeft(seq) == Append(Tail(seq), 0)
ShiftRight(seq, padValue) == <<padValue>> \o Front(seq)

\* Mutant: the log probabilities are not moved back.
UnshiftedLogprobs(batch) ==
    LET labels == ShiftLeft([i \in DOMAIN Flat(batch) |-> i])
    IN FlattenSeq([c \in 1 .. Cp |-> ShardForCp(labels, c - 1)])

\* Every rank predicts the labels of its chunk; gathered and shifted back, the
\* i-th log probability is about token i, given the token before it.
GatheredLogprobs(batch) ==
    LET labels == ShiftLeft([i \in DOMAIN Flat(batch) |-> i])
        shards == [c \in 1 .. Cp |-> ShardForCp(labels, c - 1)]
    IN ShiftRight(FlattenSeq(shards), 0)

Forward(d) ==
    /\ \A r \in OfDp(d) : doing[r] = "forward"
    /\ \A r, s \in OfDp(d) : micro[r] = micro[s]
    /\ LET batch == Micros(d)[micro[<<d, 0>>] + 1]
       IN logprobs' = [r \in Grid |-> IF r[1] = d THEN GatheredLogprobs(batch) ELSE logprobs[r]]
    /\ doing' = [r \in Grid |-> IF r[1] = d THEN "backward" ELSE doing[r]]
    /\ UNCHANGED <<load, trained, micro, local, scales, mass, exports, pending, stable, stats>>

\* compute_loss: every context parallel rank has the loss of the whole micro
\* batch; the gather's backward sums what they send to the owner of a chunk.
Counted(d, m, batch) ==
    UNION {{<<d, m, i, c>> : i \in Active(batch, c)} : c \in Components}

Add(bag, items) ==
    [x \in DOMAIN bag \cup items |->
       (IF x \in DOMAIN bag THEN bag[x] ELSE 0) + (IF x \in items THEN 1 ELSE 0)]

\* TokenExporter.export: padding is trimmed, a sequence without any loss token
\* is skipped; the first row of a step truncates the file.
TrimPadding(seq) == SelectSeq(seq, LAMBDA token : token # "pad")
Rows(m, batch) ==
    SelectSeq([i \in DOMAIN batch.seqs |-> <<m, i, TrimPadding(batch.seqs[i])>>],
              LAMBDA row : \E i \in DOMAIN row[3] : LossMask(row[3][i]))

ExportFile(r) == <<r, trained + 1>>
Appended(r, rows) ==
    IF rows = <<>> THEN exports
    ELSE [k \in DOMAIN exports \cup {ExportFile(r)} |->
            IF k # ExportFile(r) THEN exports[k]
            ELSE IF k \in DOMAIN exports THEN exports[k] \o rows ELSE rows]

Backward(r) ==
    /\ doing[r] = "backward"
    /\ LET m == micro[r] + 1
           batch == Micros(r[1])[m]
           rows == IF r[2] = 0 THEN Rows(m, batch) ELSE <<>>
       IN /\ mass' = Add(mass, Counted(r[1], m, batch))
          /\ exports' = Appended(r, rows)
          /\ pending' = [pending EXCEPT ![r] = IF rows = <<>> THEN @ ELSE @ \cup {trained + 1}]
          /\ micro' = [micro EXCEPT ![r] = m]
          /\ doing' = [doing EXCEPT ![r] = IF m = Len(Micros(r[1])) THEN "export" ELSE "forward"]
    /\ UNCHANGED <<load, trained, local, scales, logprobs, stable, stats>>

Barrier ==
    /\ Everyone("export")
    /\ doing' = [r \in Grid |-> "mark"]
    /\ UNCHANGED <<load, trained, micro, local, scales, logprobs, mass, exports, pending, stable, stats>>

MarkStable(r) ==
    /\ doing[r] = "mark"
    /\ stable' = stable \cup pending[r]
    /\ pending' = [pending EXCEPT ![r] = {}]
    /\ doing' = [doing EXCEPT ![r] = "update"]
    /\ UNCHANGED <<load, trained, micro, local, scales, logprobs, mass, exports, stats>>

-----------------------------------------------------------------------------
(* Statistics and update.                                                  *)

\* The loss tokens of a rank, by environment.
Values(r, env) ==
    FlattenSeq([m \in DOMAIN Micros(r[1]) |->
        LET batch == Micros(r[1])[m]
        IN SelectSeq([i \in DOMAIN Flat(batch) |-> IF LossMask(Flat(batch)[i]) /\ batch.env = env
                                                   THEN <<r[1], m, i>> ELSE <<>>],
                     LAMBDA v : v # <<>>)])

LocalKeys(r) == {Micros(r[1])[m].env : m \in {k \in DOMAIN Micros(r[1]) : Values(r, Micros(r[1])[k].env) # <<>>}}

\* flexible_all_gather pads with zeros to the longest and cuts them off again.
FlexibleAllGather(ranks, ValuesOf(_)) ==
    LET longest == Max({Len(ValuesOf(r)) : r \in Grid})
        padded == [r \in Grid |-> ValuesOf(r) \o [i \in 1 .. longest - Len(ValuesOf(r)) |-> <<>>]]
    IN FlattenSeq([k \in DOMAIN ranks |-> SubSeq(padded[ranks[k]], 1, Len(ValuesOf(ranks[k])))])

RankOrder == SetToSortSeq(Grid, LAMBDA r, s : r[1] * Cp + r[2] < s[1] * Cp + s[2])

\* compute_stats gathers the union of the keys, so all ranks make the same calls.
ComputeStats ==
    [env \in UNION {LocalKeys(r) : r \in Grid} |-> FlexibleAllGather(RankOrder, LAMBDA r : Values(r, env))]

\* optimizer.step and zero_grad; FSDP's averaging is undone by its divide factor.
Update ==
    /\ Everyone("update")
    /\ stats' = ComputeStats
    /\ trained' = trained + 1
    /\ mass' = <<>> /\ scales' = [c \in Components |-> 0]
    /\ micro' = [r \in Grid |-> 0]
    /\ doing' = [r \in Grid |-> IF trained + 1 = Len(load) THEN "done" ELSE "count"]
    /\ UNCHANGED <<load, local, logprobs, exports, pending, stable>>

Next ==
    \/ \E r \in Grid : Count(r) \/ Backward(r) \/ MarkStable(r)
    \/ \E d \in DpRanks : Forward(d)
    \/ AllReduce \/ Barrier \/ Update

Spec == Init /\ [][Next]_stepVars

-----------------------------------------------------------------------------
AllCounted == UNION {UNION {Counted(d, m, Micros(d)[m]) : m \in DOMAIN Micros(d)} : d \in DpRanks}

\* Before the update every token of the global batch has exactly the share
\* 1 / (tokens of its component) in the gradient, however the batch was spread
\* over ranks, micro batches and chunks.
GradientExact ==
    Everyone("update") /\ ~DrGrpo =>
      /\ DOMAIN mass = AllCounted
      /\ \A x \in DOMAIN mass : mass[x] * Cardinality({y \in AllCounted : y[4] = x[4]}) = scales[x[4]]

\* A token that trains has its own log probability, and not the one of the first
\* token of a packed sequence, which was predicted from another sequence.
LogprobsAligned ==
    \A r \in Grid : doing[r] = "backward" =>
      LET batch == Micros(r[1])[micro[r] + 1]
          starts == {1 + FoldLeft(LAMBDA a, b : a + b, 0, SubSeq(SeqLengths(batch), 1, k)) :
                       k \in 0 .. Len(batch.seqs) - 1}
      IN \A c \in Components : \A i \in Active(batch, c) : logprobs[r][i] = i /\ i \notin starts

\* A step is marked STABLE only when every rank has written all its rows.
StableExportsComplete ==
    \A s \in stable : \A d \in DpRanks :
      LET all == FlattenSeq([m \in DOMAIN load[s][d] |-> Rows(m, load[s][d][m])])
      IN IF all = <<>> THEN <<<<d, 0>>, s>> \notin DOMAIN exports
         ELSE <<<<d, 0>>, s>> \in DOMAIN exports /\ exports[<<<<d, 0>>, s>>] = all

\* The statistics are over every loss token of every rank, and no padding.
StatsExact ==
    Everyone("done") =>
      \A env \in DOMAIN stats :
        /\ <<>> \notin Range(stats[env])
        /\ \A r \in Grid : LET all == load[trained][r[1]] IN
             \A m \in DOMAIN all : all[m].env = env =>
               \A i \in DOMAIN Flat(all[m]) : LossMask(Flat(all[m])[i]) <=> <<r[1], m, i>> \in Range(stats[env])

\* What the configuration says of Dr. GRPO: a fixed denominator per response.
DenominatorPerResponse ==
    Everyone("forward") /\ DrGrpo =>
      scales["rl"] = AtLeastOne(Cp * MaxCompletion *
        Cardinality({x \in DpRanks \X (1 .. 4) \X (1 .. 4) :
                       /\ x[2] \in DOMAIN Micros(x[1]) /\ x[3] \in DOMAIN Micros(x[1])[x[2]].seqs
                       /\ \E i \in DOMAIN Micros(x[1])[x[2]].seqs[x[3]] :
                            Member(Micros(x[1])[x[2]], "rl", Micros(x[1])[x[2]].seqs[x[3]][i])}))
=============================================================================
