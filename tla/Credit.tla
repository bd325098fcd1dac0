------------------------------- MODULE Credit --------------------------------
(***************************************************************************)
(* What a group of rollouts is worth: traces become training samples, one  *)
(* per branch of the message graph; the algorithm (grpo, max_rl, echo,     *)
(* opd) gives tokens credit; filters drop rollouts; and the rest is the    *)
(* payload of the training queue.  ResultProcessor._process_group drives   *)
(* it.  Logprobs are small integers; advantages are scaled by the size of  *)
(* the group (grpo) or its sum of rewards (max_rl).                        *)
(***************************************************************************)
EXTENDS Integers, FiniteSets, FiniteSetsExt, Sequences, SequencesExt

CONSTANTS
  GroupsIn,      \* groups: sequences of traces [nodes, reward, error, length]
  AlgorithmsIn,  \* [type, penalty, roles, scoring, pre, post]
  Endpoints,     \* teacher endpoints, in order
  RepeatWindow,  \* window of the repetition filter
  Sure, Unsure,  \* logprob thresholds of the repetition and gibberish filters
  TeacherFaults, \* bound: endpoints that are not up, prefills that fail
  NotGiven       \* None

CreditAssumption == RepeatWindow \in Nat \ {0} /\ Endpoints # <<>>

VARIABLES
  cohort,     \* the group
  algo,
  doing,      \* "setup", "rollout", "group", "shipped", "raised"
  turn,       \* the rollout being finalised
  sampled,    \* per rollout: its samples
  asked,      \* prefill requests of that rollout: [sample, endpoint]
  nextPoint,  \* _round_robin
  served,     \* per endpoint: requests
  advantage,  \* per rollout: scaled scalar credit, or NotGiven
  payload,    \* the processed rollouts
  faults

creditVars == <<cohort, algo, doing, turn, sampled, asked, nextPoint, served, advantage, payload, faults>>

-----------------------------------------------------------------------------
(* The message graph (verifiers, external): nodes refer to their parents,  *)
(* branches are the paths from a root to a leaf.                           *)
(* A node is [parent, sampled, role, tokens]; a token [mask, lp, rare,     *)
(* content].                                                               *)

Leaves(t) == {n \in DOMAIN t.nodes : \A m \in DOMAIN t.nodes : t.nodes[m].parent # n}

OnPath(t, leaf) ==
  LET up[n \in 0..Len(t.nodes)] == IF n = 0 THEN {} ELSE {n} \cup up[t.nodes[n].parent]
  IN  up[leaf]

Branches(t) == LET leaves == SetToSortSeq(Leaves(t), <)
               IN  [b \in DOMAIN leaves |-> SetToSortSeq(OnPath(t, leaves[b]), <)]

TokensOf(t, path) == FlattenSeq([k \in DOMAIN path |-> t.nodes[path[k]].tokens])
PlacesOf(t, path) == FlattenSeq([k \in DOMAIN path |-> [j \in DOMAIN t.nodes[path[k]].tokens |-> <<path[k], j>>]])

-----------------------------------------------------------------------------
(* trajectories.                                                           *)

Trains(node) == node.sampled /\ \E j \in DOMAIN node.tokens : node.tokens[j].mask

\* iter_trainable_branches: a sampled node is trained in the first branch that
\* has it; in later ones it is context.
BranchMask(t, b) ==
  FlattenSeq([k \in DOMAIN Branches(t)[b] |->
    LET n == Branches(t)[b][k]
        seen == Trains(t.nodes[n]) /\ \E c \in 1..(b - 1) : n \in Range(Branches(t)[c])
    IN  [j \in DOMAIN t.nodes[n].tokens |-> t.nodes[n].tokens[j].mask /\ ~seen]])

TrainableBranches(t) == SelectSeq([b \in DOMAIN Branches(t) |-> b], LAMBDA b : TRUE \in Range(BranchMask(t, b)))

\* trace_to_samples.
SamplesOf(t) ==
  [s \in DOMAIN TrainableBranches(t) |->
     LET b == TrainableBranches(t)[s]
     IN  [places |-> PlacesOf(t, Branches(t)[b]), mask |-> BranchMask(t, b),
          logprobs |-> [j \in DOMAIN TokensOf(t, Branches(t)[b]) |-> TokensOf(t, Branches(t)[b])[j].lp],
          ce |-> NotGiven, refs |-> NotGiven, refKl |-> NotGiven, rl |-> NotGiven, advantages |-> NotGiven]]

-----------------------------------------------------------------------------
(* The algorithms.                                                         *)

\* EchoAlgorithm._weight_observations: what the environment said after the
\* first response, by role; only the message body where it is attributed.
EchoWeights(t, b) ==
  LET path == Branches(t)[b]
      after(k) == \E i \in 1..(k - 1) : t.nodes[path[i]].sampled
  IN  FlattenSeq([k \in DOMAIN path |->
        LET node == t.nodes[path[k]]
        IN  [j \in DOMAIN node.tokens |->
              IF after(k) /\ ~node.sampled /\ node.role \in algo.roles /\ node.tokens[j].content THEN 1 ELSE 0]])

Echoed(t, samples) ==
  [s \in DOMAIN samples |->
     LET w == EchoWeights(t, TrainableBranches(t)[s])
     IN  [samples[s] EXCEPT !.ce = IF 1 \in Range(w) THEN w ELSE NotGiven]]

\* GRPOAlgorithm.score_group's "shortest_correct": a correct rollout that is
\* longer than the shortest correct one loses the penalty.
Shaped(group, k) ==
  LET correct == {i \in DOMAIN group : group[i].reward = 2}
  IN  group[k].reward - (IF algo.penalty > 0 /\ k \in correct /\ \E i \in correct : group[i].length < group[k].length
                         THEN algo.penalty ELSE 0)

TotalOf(group) == FoldSeq(LAMBDA x, y : x + y, 0, [k \in DOMAIN group |-> Shaped(group, k)])

\* MaxRLAlgorithm.score_group: nothing where the mean is not positive.
MaxRlCredit(group, k) ==
  LET total == FoldSeq(LAMBDA t, n : t.reward + n, 0, group)
  IN  IF total <= 0 THEN 0 ELSE Len(group) * group[k].reward - total

\* The scalar of one rollout: reward less the mean of its group; opd has none.
ScalarCredit(group, k) ==
  CASE algo.type = "opd" -> NotGiven
    [] algo.type = "max_rl" -> MaxRlCredit(group, k)
    [] OTHER -> Len(group) * Shaped(group, k) - TotalOf(group)

\* Rollout.assign_advantages and stamp_advantages: the stream over all samples,
\* cut into samples.
Stream(samples, value) ==
  FlattenSeq([s \in DOMAIN samples |-> [j \in DOMAIN samples[s].mask |-> IF samples[s].mask[j] THEN value ELSE 0]])

StampAdvantages(samples, value) ==
  IF value = NotGiven THEN samples
  ELSE LET start(s) == FoldSeq(LAMBDA x, n : Len(x.mask) + n, 0, SubSeq(samples, 1, s - 1))
       IN  [s \in DOMAIN samples |-> [samples[s] EXCEPT !.advantages =
              SubSeq(Stream(samples, value), start(s) + 1, start(s) + Len(samples[s].mask))]]

\* stamp_loss_routing: rl ships nothing; opd's action tokens feed ref_kl.
StampLossRouting(samples) ==
  IF algo.type # "opd" THEN samples
  ELSE [s \in DOMAIN samples |->
          [samples[s] EXCEPT !.rl = [j \in DOMAIN samples[s].mask |-> 0],
                             !.refKl = [j \in DOMAIN samples[s].mask |-> IF samples[s].mask[j] THEN 1 ELSE 0]]]

-----------------------------------------------------------------------------
(* Filters.                                                                *)

\* GibberishFilter and RepetitionFilter look at the sampled tokens of a branch.
SampledOf(t, b) == SelectSeq(TokensOf(t, Branches(t)[b]), LAMBDA x : x.mask)

Gibberish(t) == \E b \in DOMAIN Branches(t) : \E x \in Range(SampledOf(t, b)) : x.rare /\ x.lp < Unsure

Repeats(t) ==
  \E b \in DOMAIN Branches(t) :
    \E i \in 1..(Len(SampledOf(t, b)) - RepeatWindow + 1) : \A k \in i..(i + RepeatWindow - 1) : SampledOf(t, b)[k].lp > Sure

Detects(name, t, value) ==
  CASE name = "gibberish" -> Gibberish(t)
    [] name = "repetition" -> Repeats(t)
    [] OTHER -> value = 0

\* apply_filters: the first filter that detects decides, enforcing or not.
Filtered(filters, t, value) ==
  LET hits == {k \in DOMAIN filters : Detects(filters[k].name, t, value)}
  IN  hits # {} /\ filters[Min(hits)].enforce

-----------------------------------------------------------------------------
Init ==
  /\ cohort \in GroupsIn /\ algo \in AlgorithmsIn
  /\ doing = IF algo.type = "opd" THEN "setup" ELSE "rollout"
  /\ turn = 1 /\ sampled = [k \in DOMAIN cohort |-> <<>>] /\ asked = {}
  /\ nextPoint = 0 /\ served = [p \in Range(Endpoints) |-> 0]
  /\ advantage = [k \in DOMAIN cohort |-> NotGiven] /\ payload = <<>> /\ faults = 0

\* OPDAlgorithm.setup: check_health of every endpoint, until its deadline.
Connect(up) ==
  /\ doing = "setup"
  /\ up \/ faults < TeacherFaults
  /\ doing' = IF up THEN "rollout" ELSE "raised"
  /\ faults' = faults + (IF up THEN 0 ELSE 1)
  /\ UNCHANGED <<cohort, algo, turn, sampled, asked, nextPoint, served, advantage, payload>>

\* PrefillScorer.score: the endpoints take turns.
PointFor(s) == Endpoints[((nextPoint + s - 1) % Len(Endpoints)) + 1]

\* A rollout in error has no samples.  finalize_rollout scores one that has.
Tokenize ==
  /\ doing = "rollout" /\ turn <= Len(cohort) /\ asked = {}
  /\ LET t == cohort[turn]
         samples == IF t.error THEN <<>> ELSE SamplesOf(t)
         wanted == algo.type = "opd" /\ samples # <<>>
     IN  /\ sampled' = [sampled EXCEPT ![turn] = IF algo.type = "echo" THEN Echoed(t, samples) ELSE samples]
         /\ asked' = IF wanted THEN {[sample |-> s, endpoint |-> PointFor(s)] : s \in DOMAIN samples} ELSE {}
         /\ nextPoint' = nextPoint + (IF wanted THEN Len(samples) ELSE 0)
         /\ served' = IF wanted THEN [p \in Range(Endpoints) |-> served[p] + Quantify(DOMAIN samples, LAMBDA s : PointFor(s) = p)] ELSE served
         /\ turn' = IF wanted THEN turn ELSE turn + 1
  /\ UNCHANGED <<cohort, algo, doing, advantage, payload, faults>>

\* prefill_logprobs: one number per token, answers in any order.
Scored(a) ==
  /\ doing = "rollout" /\ a \in asked
  /\ sampled' = [sampled EXCEPT ![turn][a.sample].refs = [j \in DOMAIN sampled[turn][a.sample].mask |-> <<"ref", sampled[turn][a.sample].places[j]>>]]
  /\ asked' = asked \ {a}
  /\ turn' = IF asked = {a} THEN turn + 1 ELSE turn
  /\ UNCHANGED <<cohort, algo, doing, nextPoint, served, advantage, payload, faults>>

\* gather raises the first error: the group is not processed.
ScoreFails(a) ==
  /\ doing = "rollout" /\ a \in asked /\ faults < TeacherFaults
  /\ doing' = "raised" /\ faults' = faults + 1
  /\ UNCHANGED <<cohort, algo, turn, sampled, asked, nextPoint, served, advantage, payload>>

Survivors ==
  LET sound == {k \in DOMAIN cohort : ~cohort[k].error}
  IN  IF algo.scoring /\ sound # DOMAIN cohort THEN <<>> ELSE SetToSortSeq(sound, <)

\* finalize_group over the survivors, pre-filters, post-filters: a rollout the
\* pre-filters drop is gone, one the post-filters drop stays without samples.
Finalize ==
  /\ doing = "rollout" /\ turn > Len(cohort)
  /\ LET who == Survivors
         group == [i \in DOMAIN who |-> cohort[who[i]]]
         credit(i) == ScalarCredit(group, i)
         value(i) == IF sampled[who[i]] = <<>> THEN NotGiven ELSE credit(i)
         kept == SelectSeq([i \in DOMAIN who |-> i], LAMBDA i : ~Filtered(algo.pre, group[i], value(i)) /\ sampled[who[i]] # <<>>)
         stamped(i) == StampLossRouting(StampAdvantages(sampled[who[i]], credit(i)))
     IN  /\ advantage' = [k \in DOMAIN cohort |-> IF k \in Range(who) THEN credit(CHOOSE i \in DOMAIN who : who[i] = k) ELSE NotGiven]
         /\ payload' = [n \in DOMAIN kept |-> [of |-> who[kept[n]],
              samples |-> IF Filtered(algo.post, group[kept[n]], value(kept[n])) THEN <<>> ELSE stamped(kept[n])]]
  /\ doing' = "shipped"
  /\ UNCHANGED <<cohort, algo, turn, sampled, asked, nextPoint, served, faults>>

Next ==
  \/ \E up \in BOOLEAN : Connect(up)
  \/ Tokenize \/ Finalize
  \/ \E a \in asked : Scored(a) \/ ScoreFails(a)

-----------------------------------------------------------------------------
(* Properties.                                                             *)

Shipped == doing = "shipped"
Samples(n) == payload[n].samples

\* A token that the model sampled is trained in exactly one sample of its
\* rollout, also where the trace forks and branches share a prefix; nothing
\* that it did not sample is trained.
TrainedOnce ==
  Shipped =>
    \A n \in DOMAIN payload :
      Samples(n) # <<>> =>
        LET t == cohort[payload[n].of]
        IN  \A m \in DOMAIN t.nodes : \A j \in DOMAIN t.nodes[m].tokens :
              Cardinality({<<s, i>> \in UNION {{s} \X DOMAIN Samples(n)[s].places : s \in DOMAIN Samples(n)} :
                            Samples(n)[s].places[i] = <<m, j>> /\ Samples(n)[s].mask[i]})
                = IF t.nodes[m].tokens[j].mask THEN 1 ELSE 0

\* Every stream of a sample is as long as its tokens: the advantage is the
\* rollout's on trained tokens and zero elsewhere; the teacher's logprobs are
\* those of these tokens; and a token feeds at most one loss component.
StreamsAligned ==
  Shipped =>
    \A n \in DOMAIN payload : \A s \in DOMAIN Samples(n) :
      LET x == Samples(n)[s]
          value == advantage[payload[n].of]
      IN  /\ Len(x.mask) = Len(x.places) /\ Len(x.logprobs) = Len(x.places)
          /\ IF value = NotGiven THEN x.advantages = NotGiven
             ELSE x.advantages = [i \in DOMAIN x.mask |-> IF x.mask[i] THEN value ELSE 0]
          /\ x.ce # NotGiven => Len(x.ce) = Len(x.mask) /\ \A i \in DOMAIN x.mask : ~(x.mask[i] /\ x.ce[i] > 0)
          /\ algo.type = "opd" => /\ x.refs = [i \in DOMAIN x.places |-> <<"ref", x.places[i]>>]
                                  /\ \A i \in DOMAIN x.mask : x.rl[i] = 0 /\ (x.refKl[i] = 1 <=> x.mask[i])

\* The credit of a group adds up to nothing, whatever is filtered afterwards,
\* and rollouts in error are neither credited nor part of the baseline.
CreditBalanced ==
  Shipped /\ algo.type # "opd" =>
    LET credited == {k \in DOMAIN cohort : advantage[k] # NotGiven}
    IN  /\ FoldSet(LAMBDA k, x : advantage[k] + x, 0, credited) = 0
        /\ \A k \in credited : ~cohort[k].error
        /\ \A k, l \in credited : cohort[k].reward > cohort[l].reward /\ advantage[k] # 0 /\ algo.penalty = 0 => advantage[k] > advantage[l]

\* No rollout is trained on that an enforcing filter detects, unless a filter
\* that only watches and detects it too comes before it; and prefill requests are spread evenly.
FiltersHonest ==
  /\ Shipped =>
       \A n \in DOMAIN payload : Samples(n) # <<>> =>
         \A filters \in {algo.pre, algo.post} : \A k \in DOMAIN filters :
           filters[k].enforce /\ Detects(filters[k].name, cohort[payload[n].of], advantage[payload[n].of]) =>
             \E j \in 1..(k - 1) : ~filters[j].enforce /\ Detects(filters[j].name, cohort[payload[n].of], advantage[payload[n].of])
  /\ \A p, q \in Range(Endpoints) : served[p] - served[q] \in {0 - 1, 0, 1}
=============================================================================
