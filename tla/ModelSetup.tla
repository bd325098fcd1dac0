----------------------------- MODULE ModelSetup -----------------------------
(***************************************************************************)
(* setup_model: how the ranks of a trainer build the model, decide which   *)
(* tensors train, shard it, and bring the weights of the snapshot into it. *)
(* Everything up to to_empty is local to a rank; after that the ranks meet *)
(* at two barriers, between which the master rank may convert the snapshot *)
(* into a directory the next start of the trainer finds again.             *)
(*                                                                         *)
(* A tensor is named by the part of the model it belongs to and by what it *)
(* is: a weight, a LoRA factor of the weight, or a buffer that no          *)
(* checkpoint stores.                                                      *)
(***************************************************************************)
EXTENDS Integers, FiniteSets, Sequences, TLC

CONSTANTS
  Ranks,      \* the ranks of the trainer; 0 is the master
  NodeOf,     \* the machine each rank runs on
  Setups,     \* the configurations tried, as records
  Layers,     \* number of decoder layers
  Files,      \* the weight files a converted snapshot is made of
  MaxKills    \* bound on the kills of the whole trainer

SetupAssumption ==
  /\ 0 \in Ranks /\ Layers \in Nat \ {0} /\ MaxKills \in Nat
  /\ Files # {} /\ IsFiniteSet(Files)

VARIABLES
  setup,      \* the configuration of this trainer
  pc,         \* where each rank is in setup_model
  trainable,  \* the tensors with requires_grad, per rank
  content,    \* what each tensor holds, per rank
  units,      \* the FSDP unit of each part of the model, per rank
  fetched,    \* prefetch edges between units, forward and backward, per rank
  recompute,  \* what each layer recomputes in the backward pass, per rank
  path,       \* the directory the rank loads from
  made,       \* the machines on which the conversion directory exists
  written,    \* the weight files in it, per machine
  kills       \* kills so far

setupVars == <<setup, pc, trainable, content, units, fetched, recompute, path, made, written, kills>>

Weight(t) == [of |-> t, is |-> "weight"]
Lora(t)   == [of |-> t, is |-> "lora"]
Buffer(t) == [of |-> t, is |-> "buffer"]

Parts(s) ==
  {"embed", "attn", "mlp", "head"}
    \cup (IF s.moe THEN {"experts", "router"} ELSE {})
    \cup (IF s.indexer THEN {"indexer"} ELSE {})
    \cup (IF s.arch = "vlm" THEN {"vision"} ELSE {})
Weights(s) == {Weight(t) : t \in Parts(s)}
Buffers(s) == {Buffer("rotary")} \cup (IF s.custom /\ s.moe THEN {Buffer("experts")} ELSE {})

-----------------------------------------------------------------------------
(* get_model: the meta device by default, the CPU when the model has       *)
(* buffers that nobody can compute again.                                  *)
CanReinitEmptyBuffers(s) == s.custom \/ s.knownBuffers
Refused(s) ==
  \/ s.vlm # "none" /\ ~(s.arch = "vlm" /\ s.custom)
  \/ s.cp /\ s.impl = "auto" /\ ~s.custom
  \/ s.random /\ ~CanReinitEmptyBuffers(s)
Built(s) == IF CanReinitEmptyBuffers(s) THEN "meta" ELSE "loaded"

(* apply_lora_to_model and freeze_all_except_lora_and_specified            *)
FindTargetModules(s) == (s.targets \cap Parts(s)) \ {"embed"}
LoraTensors(s) == IF s.lora THEN {Lora(t) : t \in FindTargetModules(s)} ELSE {}
OnlyLoraAndSpecified(s) == LoraTensors(s) \cup {Weight(t) : t \in s.save \cap Parts(s)}
ConfigureTrainable(s) == IF s.lora THEN OnlyLoraAndSpecified(s) ELSE Weights(s)

OfPart(t, T) == {x \in T : x.of = t}
FreezeMoeRouter(s, T)     == IF s.freezeRouter THEN T \ OfPart("router", T) ELSE T
FreezeSparseIndexer(s, T) == T \ OfPart("indexer", T)
FreezeVisionEncoder(s, T) == IF s.vlm = "tuned" THEN T ELSE T \ OfPart("vision", T)

(* apply_ep replaces the expert parameters by DTensors that require        *)
(* gradients again; with LoRA everything is frozen once more.              *)
ApplyEp(s, T) ==
  IF ~s.ep THEN T
  ELSE IF s.lora THEN OnlyLoraAndSpecified(s)
  ELSE T \cup OfPart("experts", Weights(s))

TrainableTensors(s) ==
  FreezeVisionEncoder(s,
    ApplyEp(s, FreezeSparseIndexer(s, FreezeMoeRouter(s, ConfigureTrainable(s)))))

-----------------------------------------------------------------------------
(* apply_ac: every freq-th layer recomputes either the chosen targets or,  *)
(* where the layer does not offer them, everything.                        *)
SupportedTargets(s, l) ==
  {"norm", "attn_proj"}
    \cup (IF l \in s.sparse THEN {"routed_experts"} ELSE {"mlp"})
    \cup (IF l \in s.sliding THEN {"linear_attn"} ELSE {})
AcLayers(s) == {l \in 0 .. Layers - 1 : s.ac # "none" /\ l % s.freq = 0}
CheckpointMethods(s, l) ==
  IF s.ac = "full" \/ ~s.custom THEN {"layer"}
  ELSE LET on == s.acTargets \cap SupportedTargets(s, l)
       IN IF "linear_attn" \in on THEN on \ {"attn_proj"} ELSE on
AcRefused(s) ==
  s.ac = "selective"
    /\ ~(s.acTargets \subseteq
           (IF s.custom THEN UNION {SupportedTargets(s, l) : l \in AcLayers(s)} ELSE {}))

-----------------------------------------------------------------------------
(* setup_fsdp: the units of the model in the order the forward pass uses   *)
(* them, and which unit asks for which other one in advance.               *)
Block(l)   == <<"block", l>>
RouterU(l) == <<"router", l>>
ExpertU(l) == <<"experts", l>>
EmbedU     == <<"embed", 0>>
HeadU      == <<"head", 0>>
RootU      == <<"root", 0>>
CustomMoe(s, l) == s.custom /\ s.moe /\ l \in s.sparse

UnitOf(s, t, l) ==
  CASE t \in {"embed", "head"} -> IF s.tied THEN RootU ELSE IF t = "embed" THEN EmbedU ELSE HeadU
    [] t = "experts" -> IF s.ep /\ CustomMoe(s, l) THEN ExpertU(l) ELSE Block(l)
    [] t = "router"  -> IF s.fp32 /\ CustomMoe(s, l) THEN RouterU(l) ELSE Block(l)
    [] t = "vision"  -> IF s.vlm # "none" THEN <<"vision", 0>> ELSE RootU
    [] OTHER -> Block(l)
UnitsOf(s) == [x \in Parts(s) \X (0 .. Layers - 1) |-> UnitOf(s, x[1], x[2])]

LayerUnits(s, l) ==
  {Block(l)} \cup (IF CustomMoe(s, l)
                     THEN {ExpertU(l)} \cup (IF s.fp32 THEN {RouterU(l)} ELSE {}) ELSE {})
ForwardPrefetch(s) ==
  IF ~s.ep THEN {}
  ELSE (IF s.tied THEN {} ELSE {<<EmbedU, Block(0)>>, <<Block(Layers - 1), HeadU>>})
         \cup UNION {{Block(l)} \X LayerUnits(s, l + 1) : l \in 0 .. Layers - 2}
BackwardPrefetch(s) ==
  IF ~s.ep THEN {}
  ELSE {<<IF s.tied THEN RootU ELSE HeadU, Block(Layers - 1)>>}
         \cup (IF s.tied THEN {} ELSE {<<Block(0), EmbedU>>})
         \cup UNION {{Block(l)} \X LayerUnits(s, l - 1) : l \in 1 .. Layers - 1}

-----------------------------------------------------------------------------
Init ==
  /\ setup \in Setups
  /\ pc = [r \in Ranks |-> "start"]
  /\ trainable = [r \in Ranks |-> {}] /\ content = [r \in Ranks |-> <<>>]
  /\ units = [r \in Ranks |-> <<>>]   /\ fetched = [r \in Ranks |-> <<>>]
  /\ recompute = [r \in Ranks |-> <<>>]
  /\ path = [r \in Ranks |-> "none"]
  /\ made = {} /\ written = [m \in {NodeOf[r] : r \in Ranks} |-> {}]
  /\ kills = 0

(* The local part of setup_model, from resolve_auto_attn to setup_fsdp.    *)
BuildModel(r) ==
  /\ pc[r] = "start"
  /\ LET s  == setup
         no == \/ Refused(s) \/ AcRefused(s)
               \/ s.freezeRouter /\ ~s.moe
               \/ s.lora /\ FindTargetModules(s) = {}
     IN /\ pc' = [pc EXCEPT ![r] = IF no THEN "refused"
                                   ELSE IF CanReinitEmptyBuffers(s) THEN "built" ELSE "ready"]
        /\ trainable' = [trainable EXCEPT ![r] = TrainableTensors(s)]
        /\ content' = [content EXCEPT ![r] =
             [x \in Weights(s) \cup Buffers(s) |-> Built(s)]
               @@ [x \in LoraTensors(s) |-> IF CanReinitEmptyBuffers(s) THEN "meta" ELSE "reset"]]
        /\ units' = [units EXCEPT ![r] = UnitsOf(s)]
        /\ recompute' = [recompute EXCEPT ![r] = [l \in AcLayers(s) |-> CheckpointMethods(s, l)]]
        /\ fetched' = [fetched EXCEPT ![r] = <<ForwardPrefetch(s), BackwardPrefetch(s)>>]
  /\ UNCHANGED <<setup, path, made, written, kills>>

(* model.to_empty: every tensor gets memory of its own, with no contents.  *)
ToEmpty(r) ==
  /\ pc[r] = "built"
  /\ pc' = [pc EXCEPT ![r] = "emptied"]
  /\ content' = [content EXCEPT ![r] = [x \in DOMAIN content[r] |-> "empty"]]
  /\ UNCHANGED <<setup, trainable, units, fetched, recompute, path, made, written, kills>>

(* torch.distributed.barrier: nobody leaves before everybody arrived.      *)
Barrier(from, to) ==
  /\ \A r \in Ranks : pc[r] = from
  /\ pc' = [r \in Ranks |-> to]
  /\ UNCHANGED <<setup, trainable, content, units, fetched, recompute, path, made, written, kills>>

FirstBarrier  == Barrier("emptied", IF setup.resume \/ setup.random THEN "filled" ELSE "choosing")
SecondBarrier == Barrier("chosen", "loading")

(* Every rank reads the key names of the snapshot; when they are not in    *)
(* the format of the model all ranks load from the conversion directory.   *)
NeedsConversion(s) == s.custom /\ s.moe /\ s.format = "hf"
Disk(r) == IF setup.shared THEN NodeOf[0] ELSE NodeOf[r]
ChoosePath(r) ==
  /\ pc[r] = "choosing"
  /\ LET converting == NeedsConversion(setup) /\ r = 0 /\ Disk(r) \notin made
     IN /\ path' = [path EXCEPT ![r] = IF NeedsConversion(setup) THEN "prime" ELSE "snapshot"]
        /\ made' = IF converting THEN made \cup {Disk(r)} ELSE made
        /\ pc' = [pc EXCEPT ![r] = IF converting THEN "converting" ELSE "chosen"]
  /\ UNCHANGED <<setup, trainable, content, units, fetched, recompute, written, kills>>

(* save_state_dict on the master: one file after the other.                *)
WriteFile(f) ==
  /\ pc[0] = "converting" /\ f \in Files \ written[Disk(0)]
  /\ written' = [written EXCEPT ![Disk(0)] = @ \cup {f}]
  /\ UNCHANGED <<setup, pc, trainable, content, units, fetched, recompute, path, made, kills>>
EndConversion ==
  /\ pc[0] = "converting" /\ written[Disk(0)] = Files
  /\ pc' = [pc EXCEPT ![0] = "chosen"]
  /\ UNCHANGED <<setup, trainable, content, units, fetched, recompute, path, made, written, kills>>

(* dcp_load fills every tensor that is not a LoRA factor, or raises when a *)
(* key is not in the directory.                                            *)
Complete(r) == path[r] = "snapshot" \/ (Disk(r) \in made /\ written[Disk(r)] = Files)
DcpLoad(r) ==
  /\ pc[r] = "loading"
  /\ pc' = [pc EXCEPT ![r] = IF Complete(r) THEN "filled" ELSE "failed"]
  /\ content' = IF Complete(r)
       THEN [content EXCEPT ![r] =
               [x \in DOMAIN @ |-> IF x.is = "weight" THEN "loaded" ELSE @[x]]]
       ELSE content
  /\ UNCHANGED <<setup, trainable, units, fetched, recompute, path, made, written, kills>>

(* init_buffers_post_meta, and the loop over lora modules that have an     *)
(* _init_lora_parameters: no class defines it.                             *)
InitBuffersPostMeta(r) ==
  /\ pc[r] = "filled"
  /\ pc' = [pc EXCEPT ![r] = "ready"]
  /\ content' = [content EXCEPT ![r] =
       [x \in DOMAIN @ |-> IF x.is = "buffer" THEN "computed" ELSE @[x]]]
  /\ UNCHANGED <<setup, trainable, units, fetched, recompute, path, made, written, kills>>

(* The first run the run manager admits, or the checkpoint a resumed       *)
(* trainer reads, gives the remaining tensors their contents.              *)
FirstRun(r) ==
  /\ pc[r] = "ready"
  /\ pc' = [pc EXCEPT ![r] = "training"]
  /\ content' = [content EXCEPT ![r] =
       [x \in DOMAIN @ |-> IF setup.resume /\ x.is # "buffer" THEN "loaded"
                           ELSE IF x.is = "lora" THEN "reset" ELSE @[x]]]
  /\ UNCHANGED <<setup, trainable, units, fetched, recompute, path, made, written, kills>>

(* The trainer is killed, on every machine, and started again.             *)
Kill ==
  /\ kills < MaxKills /\ \E r \in Ranks : pc[r] \notin {"start", "refused"}
  /\ kills' = kills + 1
  /\ pc' = [r \in Ranks |-> "start"] /\ path' = [r \in Ranks |-> "none"]
  /\ trainable' = [r \in Ranks |-> {}] /\ content' = [r \in Ranks |-> <<>>]
  /\ units' = [r \in Ranks |-> <<>>]   /\ fetched' = [r \in Ranks |-> <<>>]
  /\ recompute' = [r \in Ranks |-> <<>>]
  /\ UNCHANGED <<setup, made, written>>

Settled == \A r \in Ranks : pc[r] \in {"training", "refused", "failed"}

Next ==
  \/ \E r \in Ranks :
       \/ BuildModel(r) \/ ToEmpty(r) \/ ChoosePath(r) \/ DcpLoad(r)
       \/ InitBuffersPostMeta(r) \/ FirstRun(r)
  \/ FirstBarrier \/ SecondBarrier
  \/ \E f \in Files : WriteFile(f)
  \/ EndConversion
  \/ Kill
  \/ Settled /\ UNCHANGED setupVars

-----------------------------------------------------------------------------
(* No rank trains on memory nobody wrote: by its first step every weight   *)
(* was loaded from a complete directory, every buffer was computed and     *)
(* every LoRA factor was reset or restored, whatever order the ranks       *)
(* reached the conversion in and wherever an earlier start was killed.     *)
NothingUninitialised ==
  \A r \in Ranks : pc[r] = "training" /\ ~setup.random =>
    \A x \in DOMAIN content[r] : content[r][x] \notin {"meta", "empty"}

(* Without kills, and with a disk all ranks see, no rank finds the         *)
(* converted snapshot missing or incomplete.                               *)
ConversionSeenWhole ==
  kills = 0 /\ (setup.shared \/ \A r \in Ranks : NodeOf[r] = NodeOf[0]) =>
    \A r \in Ranks : pc[r] # "failed"

(* What trains is what the configuration opens and nothing froze for good: *)
(* the vision encoder is frozen last, but with LoRA under expert           *)
(* parallelism the base is frozen once more by the LoRA patterns alone,    *)
(* and a router or an indexer they name trains although it was frozen.     *)
Wanted(s) ==
  LET open == IF s.lora THEN LoraTensors(s) \cup {Weight(t) : t \in s.save \cap Parts(s)}
              ELSE Weights(s)
      reopened == IF s.ep /\ s.lora THEN {"router", "indexer"} ELSE {}
      shut == {"indexer"} \cup (IF s.freezeRouter THEN {"router"} ELSE {})
  IN {x \in open : x.of \notin (shut \ reopened) \cup (IF s.vlm # "tuned" THEN {"vision"} ELSE {})}
TrainableExact ==
  \A r \in Ranks : pc[r] \in {"ready", "training"} => trainable[r] = Wanted(setup)

(* A model that starts recomputes every target that was asked for in at    *)
(* least one layer, and no target inside another: a layer whose whole      *)
(* attention is recomputed does not recompute its projections again.       *)
RecomputeHonoured ==
  \A r \in Ranks : pc[r] \in {"ready", "training"} /\ setup.ac = "selective" /\ setup.custom =>
    /\ \A t \in setup.acTargets : \E l \in DOMAIN recompute[r] :
         t \in recompute[r][l] \/ (t = "attn_proj" /\ "linear_attn" \in recompute[r][l])
    /\ \A l \in DOMAIN recompute[r] : ~({"linear_attn", "attn_proj"} \subseteq recompute[r][l])

(* Under expert parallelism every unit of a layer is asked for by exactly  *)
(* one neighbour in each direction, and always before it is used.          *)
Position(u) == CASE u[1] = "embed" -> 0 [] u[1] \in {"head", "root"} -> Layers + 1 [] OTHER -> u[2] + 1
PrefetchOrdered ==
  \A r \in Ranks : pc[r] \in {"ready", "training"} /\ setup.ep =>
    /\ \A d \in {1, 2}, e, f \in UNION {fetched[r][i] : i \in {1, 2}} :
         e \in fetched[r][d] /\ f \in fetched[r][d] /\ e[2] = f[2] => e[1] = f[1]
    /\ \A e \in fetched[r][1] : Position(e[2]) = Position(e[1]) + 1
    /\ \A e \in fetched[r][2] : Position(e[2]) = Position(e[1]) - 1
    /\ \A l \in 1 .. Layers - 1 : \A t \in Parts(setup) \ {"vision", "embed", "head"} :
         \E e \in fetched[r][1] : e[2] = units[r][<<t, l>>]
=============================================================================
