-------------------------- MODULE WeightConversion --------------------------
(***************************************************************************)
(* The conversion of a checkpoint between the HuggingFace layout and the   *)
(* layout the trainer uses. Every model declares one chain of operators;   *)
(* the chain is played forward when a snapshot is converted before loading *)
(* and each operator's backward half is played in reverse when weights are *)
(* exported. A state dict is a function from keys to tensors; a key is the *)
(* sequence of the components of a parameter's name, a tensor a sequence   *)
(* of rows.                                                                *)
(***************************************************************************)
EXTENDS Integers, Sequences, SequencesExt, TLC

CONSTANTS
  Chains,     \* the models converted, a subset of the names below
  Experts     \* number of routed experts of a layer

ConversionAssumption ==
  /\ Chains \subseteq {"qwen3_moe", "glm4_moe", "afmoe", "laguna", "minimax_m2", "nemotron_h", "qwen3_5_moe", "gpt_oss"}
  /\ Experts \in 2 .. 3

VARIABLES
  chain,      \* the model converted
  fused,      \* is its snapshot in the fused layout, with the alternate names
  dict,       \* the state dict, converted in place
  done,       \* operators of the chain applied so far
  way         \* "to_prime", "prime", "to_hf", "hf"

convVars == <<chain, fused, dict, done, way>>

Names == <<"0", "1", "2">>
Without(sd, K) == [k \in (DOMAIN sd) \ K |-> sd[k]]
Under(sd, pre) == {k \in DOMAIN sd : IsPrefix(pre, k)}

-----------------------------------------------------------------------------
(* The operators, as records.                                              *)
Rename(h, p)            == [op |-> "rename", hf |-> h, prime |-> p]
PrefixRename(h, p)      == [op |-> "prefix", hf |-> h, prime |-> p]
Drop(n)                 == [op |-> "drop", name |-> n]
Stack(to, pre, post)    == [op |-> "stack", stacked |-> to, pre |-> pre, post |-> post]
SplitConcat(from, a, b) == [op |-> "split", combined |-> from, parts |-> <<a, b>>]
Synthetic(p)            == [op |-> "synthetic", prime |-> p]
ShiftByMin(p)           == [op |-> "shift", prime |-> p]
SqueezeLeading(k)       == [op |-> "squeeze", key |-> k]
Conditional(any, no, a, b) == [op |-> "if", any |-> any, no |-> no, then |-> a, else |-> b]

Move(sd, from, to) ==
  IF from \in DOMAIN sd THEN (to :> sd[from]) @@ Without(sd, {from}) ELSE sd
Swap(sd, old, new) ==
  LET moved == Under(sd, old)
      To(k) == new \o SubSeq(k, Len(old) + 1, Len(k))
  IN [k \in {To(j) : j \in moved} |-> sd[CHOOSE j \in moved : To(j) = k]] @@ Without(sd, moved)
Item(op, i) == op.pre \o <<Names[i]>> \o op.post

(* Contiguous elements from the first one, up to the first that is absent. *)
Stacked(op, sd) ==
  LET n     == CHOOSE m \in 0 .. Len(Names) :
                 /\ \A i \in 1 .. m : Item(op, i) \in DOMAIN sd
                 /\ m = Len(Names) \/ Item(op, m + 1) \notin DOMAIN sd
      items == [i \in 1 .. n |-> Item(op, i)]
  IN IF n = 0 THEN sd
     ELSE (op.stacked :> [i \in 1 .. n |-> sd[items[i]]]) @@ Without(sd, ToSet(items))
Unstacked(op, sd) ==
  IF op.stacked \notin DOMAIN sd THEN sd
  ELSE LET t == sd[op.stacked]
       IN [k \in {Item(op, i) : i \in DOMAIN t} |-> t[CHOOSE i \in DOMAIN t : Item(op, i) = k]]
            @@ Without(sd, {op.stacked})

(* Two equal halves along the second dimension.                            *)
Halves(op, sd) ==
  IF op.combined \notin DOMAIN sd THEN sd
  ELSE LET t     == sd[op.combined]
           Lo(x) == SubSeq(x, 1, Len(x) \div 2)
           Hi(x) == SubSeq(x, Len(x) \div 2 + 1, Len(x))
       IN (op.parts[1] :> [i \in DOMAIN t |-> Lo(t[i])])
            @@ (op.parts[2] :> [i \in DOMAIN t |-> Hi(t[i])]) @@ Without(sd, {op.combined})
Joined(op, sd) ==
  IF ~(ToSet(op.parts) \subseteq DOMAIN sd) THEN sd
  ELSE LET a == sd[op.parts[1]]
           b == sd[op.parts[2]]
       IN (op.combined :> [i \in DOMAIN a |-> a[i] \o b[i]]) @@ Without(sd, ToSet(op.parts))

RowMin(x) == CHOOSE v \in ToSet(x) : \A w \in ToSet(x) : v <= w
Shifted(op, sd) ==
  IF op.prime \notin DOMAIN sd THEN sd
  ELSE [sd EXCEPT ![op.prime] = [i \in DOMAIN @ |-> @[i] - RowMin(@)]]
Squeezed(op, sd) ==
  IF op.key \in DOMAIN sd /\ Len(sd[op.key]) = 1 THEN [sd EXCEPT ![op.key] = @[1]] ELSE sd

(* The predicate of a Conditional sees the keys of its own direction.      *)
Branch(op, sd) ==
  IF op.any \cap DOMAIN sd # {} /\ op.no \cap DOMAIN sd = {} THEN op.then ELSE op.else

RECURSIVE HfToPrime(_, _)
HfToPrime(sd, op) ==
  CASE op.op = "rename"    -> Move(sd, op.hf, op.prime)
    [] op.op = "prefix"    -> Swap(sd, op.hf, op.prime)
    [] op.op = "drop"      -> Without(sd, Under(sd, op.name))
    [] op.op = "stack"     -> Stacked(op, sd)
    [] op.op = "split"     -> Halves(op, sd)
    [] op.op = "synthetic" -> (op.prime :> <<>>) @@ sd
    [] op.op = "shift"     -> Shifted(op, sd)
    [] op.op = "squeeze"   -> sd
    [] op.op = "if"        -> FoldLeft(HfToPrime, sd, Branch(op, sd))

RECURSIVE PrimeToHf(_, _)
PrimeToHf(sd, op) ==
  CASE op.op = "rename"    -> Move(sd, op.prime, op.hf)
    [] op.op = "prefix"    -> Swap(sd, op.prime, op.hf)
    [] op.op = "drop"      -> Without(sd, Under(sd, op.name))
    [] op.op = "stack"     -> Unstacked(op, sd)
    [] op.op = "split"     -> Joined(op, sd)
    [] op.op = "synthetic" -> Without(sd, {op.prime})
    [] op.op = "shift"     -> sd
    [] op.op = "squeeze"   -> Squeezed(op, sd)
    [] op.op = "if"        -> FoldLeft(PrimeToHf, sd, Reverse(Branch(op, sd)))

-----------------------------------------------------------------------------
(* The chains of the models, layer by layer.                               *)
At(i, tail)  == <<"model", "layers", i>> \o tail
GateDownUp   == <<<<"w1", "gate_proj">>, <<"w2", "down_proj">>, <<"w3", "up_proj">>>>
MinimaxOrder == <<<<"w1", "w1">>, <<"w2", "w2">>, <<"w3", "w3">>>>
ForEach(pairs, Op(_, _)) == [k \in DOMAIN pairs |-> Op(pairs[k][1], pairs[k][2])]

RoutedExpertsOp(i, hf, order, both) ==
  LET to     == At(i, <<"mlp", "experts">>)
      from   == At(i, <<hf, "experts">>)
      stacks == ForEach(order, LAMBDA w, n : Stack(to \o <<w>>, from, <<n>>))
      whole  == <<SplitConcat(from \o <<"gate_up_proj">>, to \o <<"w1">>, to \o <<"w3">>),
                  Rename(from \o <<"down_proj">>, to \o <<"w2">>)>>
  IN IF both THEN <<Conditional({from \o <<"gate_up_proj">>}, {}, whole, stacks)>> ELSE stacks

Router(i, hf) == <<Rename(At(i, <<hf, "gate", "weight">>), At(i, <<"mlp", "router", "gate", "weight">>))>>
BiasOf(i, from) == <<Rename(At(i, from), At(i, <<"mlp", "expert_bias">>))>>

QwenLayer(i) == Router(i, "mlp") \o RoutedExpertsOp(i, "mlp", GateDownUp, TRUE)

GlmLayer(i) ==
  Router(i, "mlp") \o BiasOf(i, <<"mlp", "gate", "bias">>) \o RoutedExpertsOp(i, "mlp", GateDownUp, TRUE)
    \o FlattenSeq(ForEach(GateDownUp, LAMBDA w, n :
         <<SqueezeLeading(At(i, <<"mlp", "shared_experts", n>>)),
           Rename(At(i, <<"mlp", "shared_experts", n>>), At(i, <<"mlp", "shared_expert", w>>))>>))
    \o <<Drop(At(i, <<"mlp", "tokens_per_expert">>))>>
AfmoeLayer(i) ==
  ForEach(GateDownUp, LAMBDA w, n :
      Rename(At(i, <<"mlp", "shared_experts", n>>), At(i, <<"mlp", "shared_expert", w>>)))
    \o RoutedExpertsOp(i, "mlp", GateDownUp, FALSE)
    \o <<Drop(At(i, <<"mlp", "tokens_per_expert">>)), Drop(At(i, <<"mlp", "reorderer">>))>>
LagunaLayer(i) ==
  LET One(w, n)  == Rename(At(i, <<"mlp", "shared_expert", n>>), At(i, <<"shared_expert", w>>))
      Many(w, n) == Rename(At(i, <<"mlp", "shared_experts", n>>), At(i, <<"shared_expert", w>>))
  IN Router(i, "mlp") \o BiasOf(i, <<"mlp", "experts", "bias">>)
       \o <<Conditional({At(i, <<"mlp", "gate", "bias">>)}, {At(i, <<"mlp", "experts", "bias">>)},
                        BiasOf(i, <<"mlp", "gate", "bias">>), <<>>)>>
       \o RoutedExpertsOp(i, "mlp", GateDownUp, TRUE)
       \o ForEach(GateDownUp, One)
       \o <<Conditional({At(i, <<"mlp", "shared_experts", "gate_proj">>)},
                        {At(i, <<"mlp", "shared_expert", "gate_proj">>)}, ForEach(GateDownUp, Many), <<>>)>>
       \o <<Drop(At(i, <<"mlp", "tokens_per_expert">>))>>
MinimaxLayer(i) ==
  Router(i, "block_sparse_moe") \o BiasOf(i, <<"block_sparse_moe", "bias">>)
    \o RoutedExpertsOp(i, "block_sparse_moe", MinimaxOrder, FALSE)
    \o <<Drop(At(i, <<"mlp", "tokens_per_expert">>))>>
Qwen35Layer(i) ==
  Router(i, "mlp") \o RoutedExpertsOp(i, "mlp", GateDownUp, TRUE)
    \o ForEach(GateDownUp, LAMBDA w, n : Rename(At(i, <<"mlp", "shared_expert", n>>), At(i, <<"shared_expert", w>>)))
    \o <<Rename(At(i, <<"mlp", "shared_expert_gate">>), At(i, <<"shared_expert_gate">>))>>
NemotronMoe(i) ==
  LET up(w, n) == Rename(At(i, <<"mixer", "experts", n>>), At(i, <<"mlp", "experts", w>>))
      each(w, n) == Stack(At(i, <<"mlp", "experts", w>>), At(i, <<"mixer", "experts">>), <<n>>)
      pair == <<<<"w1", "up_proj">>, <<"w2", "down_proj">>>>
  IN <<Rename(At(i, <<"mixer", "gate", "weight">>), At(i, <<"mlp", "router", "gate">>))>>
       \o <<Rename(At(i, <<"mixer", "gate", "bias">>), At(i, <<"mlp", "router", "bias">>)),
            ShiftByMin(At(i, <<"mlp", "router", "bias">>)),
            Conditional({At(i, <<"mixer", "experts", "up_proj">>)}, {}, ForEach(pair, up), ForEach(pair, each)),
            Synthetic(At(i, <<"mlp", "experts", "w3">>)),
            PrefixRename(At(i, <<"mixer", "shared_experts">>), At(i, <<"mlp", "shared_expert">>)),
            PrefixRename(At(i, <<"mixer", "fc1_latent_proj">>), At(i, <<"mlp", "fc1_latent_proj">>))>>
NemotronLayer(i) ==
  <<Conditional({At(i, <<"mixer", "q_proj">>), At(i, <<"self_attn", "q_proj">>)}, {},
      <<PrefixRename(At(i, <<"mixer">>), At(i, <<"self_attn">>))>>,
      <<Conditional({At(i, <<"mixer", "gate", "weight">>), At(i, <<"mlp", "router", "gate">>)}, {},
          NemotronMoe(i), <<PrefixRename(At(i, <<"mixer">>), At(i, <<"mamba">>))>>)>>)>>

LayerNames == <<"0", "1">>
PerLayer(Ops(_)) == FlattenSeq([k \in DOMAIN LayerNames |-> Ops(LayerNames[k])])
ConversionChain(c) ==
  CASE c = "qwen3_moe"   -> PerLayer(QwenLayer)
    [] c = "glm4_moe"    -> PerLayer(GlmLayer)
    [] c = "afmoe"       -> PerLayer(AfmoeLayer)
    [] c = "laguna"      -> PerLayer(LagunaLayer)
    [] c = "minimax_m2"  -> PerLayer(MinimaxLayer)
    [] c = "qwen3_5_moe" -> PerLayer(Qwen35Layer)
    [] c = "nemotron_h"  -> <<PrefixRename(<<"backbone">>, <<"model">>), Drop(<<"mtp">>),
                              Rename(<<"model", "embeddings">>, <<"model", "embed_tokens">>),
                              Rename(<<"model", "norm_f">>, <<"model", "norm">>)>> \o PerLayer(NemotronLayer)
    [] c = "gpt_oss"     -> <<>>

-----------------------------------------------------------------------------
(* Snapshots and trained models. Layer 0 is dense, layer 1 has experts. A  *)
(* table row is a tensor's name in the checkpoint and in the model.        *)
Rows(n, e)  == <<<<n, e, 1>>, <<n, e, 2>>>>
Order(c)    == CASE c = "minimax_m2" -> MinimaxOrder
                 [] c = "nemotron_h" -> <<<<"w1", "up_proj">>, <<"w2", "down_proj">>>>
                 [] OTHER -> GateDownUp
Mlp(c)      == CASE c = "minimax_m2" -> "block_sparse_moe" [] c = "nemotron_h" -> "mixer" [] OTHER -> "mlp"
Fusable(c)  == c \in {"qwen3_moe", "glm4_moe", "laguna", "qwen3_5_moe", "nemotron_h"}

SharedRows(c, alt) ==
  CASE c \in {"glm4_moe", "afmoe"} ->
         {<<<<"mlp", "shared_experts", x[2]>>, <<"mlp", "shared_expert", x[1]>>>> : x \in ToSet(GateDownUp)}
    [] c = "laguna" ->
         {<<<<"mlp", IF alt THEN "shared_experts" ELSE "shared_expert", x[2]>>, <<"shared_expert", x[1]>>>> : x \in ToSet(GateDownUp)}
    [] c = "qwen3_5_moe" ->
         {<<<<"mlp", "shared_expert", x[2]>>, <<"shared_expert", x[1]>>>> : x \in ToSet(GateDownUp)}
           \cup {<<<<"mlp", "shared_expert_gate">>, <<"shared_expert_gate">>>>}
    [] c = "nemotron_h" ->
         {<<<<"mixer", "shared_experts", "up_proj">>, <<"mlp", "shared_expert", "up_proj">>>>,
          <<<<"mixer", "fc1_latent_proj">>, <<"mlp", "fc1_latent_proj">>>>}
    [] OTHER -> {}
BiasRows(c, alt) ==
  CASE c = "glm4_moe"   -> {<<<<"mlp", "gate", "bias">>, <<"mlp", "expert_bias">>>>}
    [] c = "laguna"     -> {<<<<"mlp", IF alt THEN "gate" ELSE "experts", "bias">>, <<"mlp", "expert_bias">>>>}
    [] c = "minimax_m2" -> {<<<<"block_sparse_moe", "bias">>, <<"mlp", "expert_bias">>>>}
    [] c = "nemotron_h" -> {<<<<"mixer", "gate", "bias">>, <<"mlp", "router", "bias">>>>}
    [] OTHER -> {}
DenseRows(c, alt) ==
  IF c # "nemotron_h" THEN {<<<<"self_attn", "q_proj">>, <<"self_attn", "q_proj">>>>, <<<<"mlp", "up_proj">>, <<"mlp", "up_proj">>>>}
  ELSE IF alt THEN {<<<<"mixer", "in_proj">>, <<"mamba", "in_proj">>>>}
  ELSE {<<<<"mixer", "q_proj">>, <<"self_attn", "q_proj">>>>}
RouterRow(c) == <<IF c = "afmoe" THEN <<"mlp", "router", "gate">> ELSE <<Mlp(c), "gate", "weight">>,
                  IF c \in {"afmoe", "nemotron_h"} THEN <<"mlp", "router", "gate">>
                  ELSE <<"mlp", "router", "gate", "weight">>>>

Dict(table, side, i, Val(_)) ==
  [k \in {At(i, x[side]) : x \in table} |-> Val((CHOOSE x \in table : At(i, x[side]) = k)[2])]
ExpertName(c, w) == (CHOOSE x \in ToSet(Order(c)) : x[1] = w)[2]
PerExpert(c) ==
  LET from == At("1", <<Mlp(c), "experts">>)
      all  == {<<x[2], e>> : x \in ToSet(Order(c)), e \in 1 .. Experts}
      Key(y) == from \o <<Names[y[2]], y[1]>>
  IN [k \in {Key(y) : y \in all} |-> LET y == CHOOSE z \in all : Key(z) = k IN Rows(y[1], y[2])]
Whole(c) ==
  LET from == At("1", <<Mlp(c), "experts">>)
      All(n) == [e \in 1 .. Experts |-> Rows(n, e)]
  IN (from \o <<"down_proj">> :> All("down_proj"))
       @@ (IF c = "nemotron_h" THEN from \o <<"up_proj">> :> All("up_proj")
           ELSE from \o <<"gate_up_proj">> :> [e \in 1 .. Experts |-> Rows("gate_proj", e) \o Rows("up_proj", e)])

BiasValue(t) == [e \in 1 .. Experts |-> e + 2]
Common(c, side, alt) ==
  Dict(DenseRows(c, alt), side, "0", LAMBDA t : Rows(t[2], 0))
    @@ (IF c = "gpt_oss" THEN <<>>
        ELSE Dict(SharedRows(c, alt) \cup {RouterRow(c)}, side, "1", LAMBDA t : Rows(t[1], Len(t))))
Rooted(c, sd) == IF c = "nemotron_h" THEN Swap(sd, <<"model">>, <<"backbone">>) ELSE sd

Snapshot(c, alt) ==
  Rooted(c, Common(c, 1, alt) @@ Dict(BiasRows(c, alt), 1, "1", BiasValue)
              @@ (IF c = "gpt_oss" THEN <<>> ELSE IF alt /\ Fusable(c) THEN Whole(c) ELSE PerExpert(c))
              @@ (IF c = "nemotron_h" THEN <<"model", "embeddings">> :> Rows("embed", 0) ELSE <<>>))
    @@ (IF c = "nemotron_h" THEN <<"mtp", "head">> :> Rows("mtp", 0) ELSE <<>>)
ShiftedBias(c) == [e \in 1 .. Experts |-> IF c = "nemotron_h" THEN e - 1 ELSE e + 2]
Trained(c, alt) ==
  Common(c, 2, alt) @@ Dict(BiasRows(c, alt), 2, "1", LAMBDA t : ShiftedBias(c))
    @@ (IF c = "gpt_oss" THEN <<>>
        ELSE LET to == At("1", <<"mlp", "experts">>)
                 ws == {x[1] : x \in ToSet(Order(c))}
             IN [k \in {to \o <<w>> : w \in ws} |->
                   [e \in 1 .. Experts |-> Rows(ExpertName(c, k[Len(k)]), e)]])
    @@ (IF c = "nemotron_h" THEN (At("1", <<"mlp", "experts", "w3">>) :> <<>>)
                                 @@ (<<"model", "embed_tokens">> :> Rows("embed", 0)) ELSE <<>>)
(* What an export writes: per-expert tensors under the canonical names.    *)
Exported(c, alt) ==
  LET names == IF c = "nemotron_h" THEN alt ELSE FALSE
  IN Rooted(c, Common(c, 1, names) @@ Dict(BiasRows(c, FALSE), 1, "1", LAMBDA t : ShiftedBias(c))
                 @@ (IF c = "gpt_oss" THEN <<>> ELSE PerExpert(c))
                 @@ (IF c = "nemotron_h" THEN <<"model", "embeddings">> :> Rows("embed", 0) ELSE <<>>))

-----------------------------------------------------------------------------
(* is_hf_state_dict and is_prime_state_dict look for a telltale name.      *)
IsPrime(c, sd) ==
  /\ c # "gpt_oss"
  /\ \E k \in DOMAIN sd :
       \/ Len(k) > 5 /\ SubSeq(k, 4, 6) = <<"mlp", "experts", "w1">>
       \/ c = "nemotron_h" /\ ((Len(k) > 3 /\ k[4] \in {"mamba", "self_attn"}) \/ k = <<"model", "embed_tokens">>)
IsHf(c, sd) ==
  \E k \in DOMAIN sd :
    \/ c = "nemotron_h" /\ (k[1] = "backbone" \/ (Len(k) > 3 /\ k[4] = "mixer"))
    \/ Len(k) > 6 /\ SubSeq(k, 4, 6) = <<Mlp(c), "experts", "1">>
    \/ Len(k) > 5 /\ SubSeq(k, 4, 6) = <<"mlp", "experts", "gate_up_proj">>

(* LoRA wraps a linear layer: its weight moves under base_layer and the    *)
(* factors appear beside it. The state_dict hook takes the prefix away     *)
(* again, and an export drops the factors.                                 *)
LoraKeys(sd) == {k \in DOMAIN sd : k[Len(k)] = "q_proj"}
WithLora(sd) ==
  [k \in {j \o <<x>> : j \in LoraKeys(sd), x \in {"base_layer", "lora_A", "lora_B"}} |->
     IF k[Len(k)] = "base_layer" THEN sd[Front(k)] ELSE Rows(k[Len(k)], 0)] @@ Without(sd, LoraKeys(sd))
StateDictHook(sd) ==
  LET based == {k \in DOMAIN sd : k[Len(k)] = "base_layer"}
  IN [k \in {Front(j) : j \in based} |-> sd[k \o <<"base_layer">>]] @@ Without(sd, based)
CleanLoraStateDict(sd) == Without(sd, {k \in DOMAIN sd : k[Len(k)] \in {"lora_A", "lora_B"}})
(* GLM keeps its shared experts with a leading dimension of one.           *)
Gathered(c, sd) ==
  LET clean == CleanLoraStateDict(StateDictHook(WithLora(sd)))
  IN [k \in DOMAIN clean |-> IF c = "glm4_moe" /\ "shared_expert" \in ToSet(k) THEN <<clean[k]>> ELSE clean[k]]

-----------------------------------------------------------------------------
Init ==
  /\ chain \in Chains /\ fused \in BOOLEAN
  /\ dict = Snapshot(chain, fused)
  /\ done = 0
  /\ way = IF IsHf(chain, dict) /\ ~IsPrime(chain, dict) THEN "to_prime" ELSE "prime"

ApplyHfToPrime ==
  /\ way = "to_prime" /\ done < Len(ConversionChain(chain))
  /\ dict' = HfToPrime(dict, ConversionChain(chain)[done + 1])
  /\ done' = done + 1 /\ UNCHANGED <<chain, fused, way>>
Converted ==
  /\ way = "to_prime" /\ done = Len(ConversionChain(chain))
  /\ way' = "prime" /\ UNCHANGED <<chain, fused, dict, done>>

(* A weight checkpoint: gather, clean, convert back.                       *)
GatherWeightsOnMaster ==
  /\ way = "prime"
  /\ dict' = Gathered(chain, dict)
  /\ way' = IF IsPrime(chain, dict') THEN "to_hf" ELSE "hf"
  /\ done' = 0 /\ UNCHANGED <<chain, fused>>
ApplyPrimeToHf ==
  /\ way = "to_hf" /\ done < Len(ConversionChain(chain))
  /\ dict' = PrimeToHf(dict, Reverse(ConversionChain(chain))[done + 1])
  /\ done' = done + 1 /\ UNCHANGED <<chain, fused, way>>
WriteCheckpoint ==
  /\ way = "to_hf" /\ done = Len(ConversionChain(chain))
  /\ way' = "hf" /\ UNCHANGED <<chain, fused, dict, done>>

Next ==
  \/ ApplyHfToPrime \/ Converted \/ GatherWeightsOnMaster \/ ApplyPrimeToHf \/ WriteCheckpoint
  \/ way = "hf" /\ UNCHANGED convVars

-----------------------------------------------------------------------------
(* A converted snapshot has exactly the tensors of the model, each with    *)
(* its own contents, whichever layout and names the snapshot used, and the *)
(* next start does not take it for something to convert again.             *)
ConvertedExact ==
  way = "prime" => /\ dict = Trained(chain, fused)
                   /\ chain # "gpt_oss" => IsPrime(chain, dict) /\ ~IsHf(chain, dict)

(* An exported checkpoint holds the weights under HuggingFace names again: *)
(* nothing lost but what has no counterpart, nothing of the adapters left. *)
ExportedExact == way = "hf" => dict = Exported(chain, fused)
=============================================================================
