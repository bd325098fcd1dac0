---------------------------- MODULE ParallelDims ----------------------------
(***************************************************************************)
(* How the ranks of a trainer are arranged into meshes: resolve_ep picks a *)
(* degree of expert parallelism, ParallelDims checks the degrees and       *)
(* build_mesh lays the ranks out, outermost dimension first, and derives   *)
(* the groups that load data, shard parameters, reduce the loss and        *)
(* exchange tokens between experts.                                        *)
(***************************************************************************)
EXTENDS Integers, FiniteSets

CONSTANTS
  Worlds,     \* the world sizes tried
  MaxDegree,  \* bound on the degrees a configuration asks for
  MaxEp       \* the cap resolve_ep puts on expert parallelism (8 in the code)

DimsAssumption == Worlds \subseteq Nat \ {0} /\ MaxDegree \in Nat \ {0} /\ MaxEp \in Nat \ {0}

VARIABLES
  asked,      \* the configuration: world, dp_replicate, cp, ep (0 is "auto"),
              \* moe (a custom model with experts), deepep (its exchange backend)
  stage,      \* "config", "resolved", "built", "refused"
  ep,         \* the resolved degree of expert parallelism
  mesh        \* name of a mesh -> the set of its groups of ranks

dimsVars == <<asked, stage, ep, mesh>>

Low(a, b) == IF a < b THEN a ELSE b
Ranks == 0 .. asked.world - 1
Island == asked.world \div asked.replicate
DpShard == asked.world \div (asked.replicate * asked.cp)

(* ParallelDims._validate, with dp_shard left to the world size.           *)
Valid ==
  /\ DpShard >= 1
  /\ asked.replicate * DpShard * asked.cp = asked.world
  /\ ep > 1 => ep % asked.cp = 0 /\ (DpShard * asked.cp) % ep = 0

(* The degrees of the mesh's dimensions, outermost first.                  *)
ModEp == IF ep > 1 THEN (DpShard * asked.cp) \div ep ELSE DpShard
InEp  == IF ep > 1 THEN ep \div asked.cp ELSE 1
DimNames == <<"dp_replicate", "dp_shard_mod_ep", "dp_shard_in_ep", "cp">>
Degree == [n \in {"dp_replicate", "dp_shard_mod_ep", "dp_shard_in_ep", "cp"} |->
             CASE n = "dp_replicate"    -> asked.replicate
               [] n = "dp_shard_mod_ep" -> ModEp
               [] n = "dp_shard_in_ep"  -> InEp
               [] OTHER                 -> asked.cp]

(* init_device_mesh numbers the ranks row by row.                          *)
Coord(r) ==
  [n \in DOMAIN Degree |->
     CASE n = "dp_replicate"    -> r \div (ModEp * InEp * asked.cp)
       [] n = "dp_shard_mod_ep" -> (r \div (InEp * asked.cp)) % ModEp
       [] n = "dp_shard_in_ep"  -> (r \div asked.cp) % InEp
       [] OTHER                 -> r % asked.cp]

(* A submesh over some dimensions: the ranks that differ only in those.    *)
GroupOf(r, along) ==
  {q \in Ranks : \A n \in DOMAIN Degree \ along : Coord(q)[n] = Coord(r)[n]}
Groups(along) == {GroupOf(r, along) : r \in Ranks}

Shards == {"dp_shard_mod_ep", "dp_shard_in_ep"}
Submeshes ==
  [m \in {"dp", "dp_shard_cp", "dp_cp", "ep", "hsdp", "cp", "dp_shard_mod_ep", "dp_replicate"} |->
     CASE m = "dp"          -> Groups(Shards \cup {"dp_replicate"})
       [] m = "dp_shard_cp" -> Groups(Shards \cup {"cp"})
       [] m = "dp_cp"       -> Groups(Shards \cup {"dp_replicate", "cp"})
       [] m = "ep"          -> Groups({"dp_shard_in_ep", "cp"})
       [] m = "hsdp"        -> {{r \in Ranks : r \div Island = k} : k \in 0 .. asked.replicate - 1}
       [] OTHER             -> Groups({m})]

-----------------------------------------------------------------------------
Init ==
  /\ asked \in [world : Worlds, replicate : 1 .. MaxDegree, cp : 1 .. MaxDegree,
                ep : 0 .. MaxDegree, moe : BOOLEAN, deepep : BOOLEAN]
  /\ asked.replicate <= asked.world
  /\ stage = "config" /\ ep = 0 /\ mesh = <<>>

ResolveEp ==
  /\ stage = "config"
  /\ ep' = IF asked.ep # 0 THEN asked.ep ELSE IF asked.moe THEN Low(Island, MaxEp) ELSE 1
  /\ stage' = IF asked.ep = 0 /\ asked.moe /\ asked.deepep /\ ep' <= 1 THEN "refused" ELSE "resolved"
  /\ UNCHANGED <<asked, mesh>>

GetParallelDims ==
  /\ stage = "resolved"
  /\ stage' = IF Valid THEN "built" ELSE "refused"
  /\ mesh' = IF Valid THEN Submeshes ELSE <<>>
  /\ UNCHANGED <<asked, ep>>

Next == ResolveEp \/ GetParallelDims \/ (stage \in {"built", "refused"} /\ UNCHANGED dimsVars)

-----------------------------------------------------------------------------
(* Every mesh splits the world into groups of equal size. Ranks that share *)
(* a sequence load the same batch: a data group and a sequence group meet  *)
(* in one rank. A sequence is never split over two expert groups, an       *)
(* expert group never spans two replicas, and the row of the hybrid mesh a *)
(* rank is in is its parameter-sharding group, so gradients divided by     *)
(* fsdp_gradient_divide_factor average over exactly the ranks of the loss. *)
MeshesSound ==
  stage = "built" =>
    /\ \A m \in DOMAIN mesh :
         /\ UNION mesh[m] = Ranks
         /\ \A g, h \in mesh[m] : g = h \/ g \cap h = {}
         /\ \A g, h \in mesh[m] : Cardinality(g) = Cardinality(h)
    /\ \A g \in mesh["dp"], h \in mesh["cp"] : Cardinality(g \cap h) = 1
    /\ ep > 1 => \A g \in mesh["ep"] : Cardinality(g) = ep
    /\ ep > 1 => \A g \in mesh["cp"] : \E h \in mesh["ep"] : g \subseteq h
    /\ \A g \in mesh["ep"] : \E h \in mesh["dp_shard_cp"] : g \subseteq h
    /\ mesh["hsdp"] = mesh["dp_shard_cp"]
    /\ \A g \in mesh["dp_cp"] : Cardinality(g) = asked.replicate * DpShard * asked.cp

(* The automatic degree of expert parallelism is one the check accepts,    *)
(* as long as the island is no larger than the cap or a multiple of it and *)
(* the sequence degree divides both.                                       *)
AutoEpAccepted ==
  /\ stage = "refused" /\ asked.ep = 0
  /\ asked.world % asked.replicate = 0 /\ Island % asked.cp = 0
  => asked.moe /\ (ep = 1 \/ Low(Island, MaxEp) % asked.cp # 0 \/ (Island > MaxEp /\ Island % MaxEp # 0))
=============================================================================
