---------------------------- MODULE MicroBatches ----------------------------
(***************************************************************************)
(* How the packer turns the samples of one training batch into the micro   *)
(* batches of every data-parallel rank: truncation, first-fit packing,     *)
(* splitting, materialisation and padding, dummies, and the balanced       *)
(* distribution.  Ranks run collectives in lock step, so the shape of the  *)
(* result matters as much as its content.                                  *)
(*                                                                         *)
(* A token is the pair of its sample's position in the batch and its own   *)
(* position in the sample; per-token arrays are sequences beside it.  The  *)
(* ref_kl stream and the other per-token arrays go the way of ce and mask. *)
(* mm_kwargs is `grid`, the placeholders of each image it carries; it need  *)
(* not hold an image_grid_thw (`indexed`): some models take pixel_values   *)
(* alone.  `kind` stands for its keys, dtypes and trailing shapes.         *)
(***************************************************************************)
EXTENDS Integers, Sequences, FiniteSets, SequencesExt

CONSTANTS
    Batches,        \* the batches to prepare: sequences of training samples
    SeqLen,         \* seq_len
    Workers,        \* num_train_workers
    Multiple,       \* pad_to_multiple_of
    Linear,         \* coefficients of bin_cost
    Quadratic,
    Absent          \* an optional field that is None

VARIABLES
    batch,      \* the training samples
    stage,      \* position of prepare_batch
    samples,    \* prepared samples, later in packing order
    bins,       \* sequence of bins, each a sequence of prepared samples
    groups,     \* micro batches by modality: << multimodal, text >>
    heap,       \* Karmarkar-Karp states of the group being distributed
    parts,      \* its partition while it is refined
    ranks       \* micro batches of every rank

packVars == <<batch, stage, samples, bins, groups, heap, parts, ranks>>

Take(s, n) == IF s = Absent THEN Absent ELSE SubSeq(s, 1, n)
Total(s) == FoldLeft(LAMBDA sum, x : sum + x, 0, s)
Constant(n, x) == [i \in 1 .. n |-> x]
Size(sample) == Len(sample.tokens)
Sizes(members) == [i \in 1 .. Len(members) |-> Size(members[i])]
Cost(lengths) == Linear * Total(lengths)
                    + Quadratic * Total([i \in 1 .. Len(lengths) |-> lengths[i] * lengths[i]])

Init ==
    /\ batch \in Batches
    /\ stage = "prepare"
    /\ samples = <<>> /\ bins = <<>>
    /\ groups = << <<>>, <<>> >>
    /\ heap = {} /\ parts = <<>>
    /\ ranks = [r \in 1 .. Workers |-> <<>>]

-----------------------------------------------------------------------------
(* prepare_sample.                                                         *)

\* multimodal_sample_error, and rl members without advantages.
Valid(s) ==
    /\ s.types # Absent => Len(s.types) = Len(s.mask)
    /\ s.grid # Absent /\ s.indexed => s.types # Absent
    /\ s.advantages \/ \A i \in 1 .. Len(s.mask) : ~(s.mask[i] /\ (s.rl = Absent \/ s.rl[i] # 0))

Truncated(s) == Len(s.mask) > SeqLen
Imaged(s) == s.types # Absent /\ s.grid # Absent

\* _truncate_mm looks image_grid_thw up before anything else.
Unindexed(s) == Truncated(s) /\ Imaged(s) /\ ~s.indexed

ImageTokens(types, n) == Cardinality({i \in 1 .. n : types[i] = 1})

\* The images whose placeholders all survive a cut at SeqLen.
Kept(s) ==
    LET surviving == ImageTokens(s.types, SeqLen)
    IN CHOOSE k \in 0 .. Len(s.grid) :
         /\ Total(Take(s.grid, k)) <= surviving
         /\ k < Len(s.grid) => Total(Take(s.grid, k + 1)) > surviving

\* _truncate_mm: never inside an image; back to the first placeholder of the
\* image that SeqLen would split.
CutPoint(s) ==
    LET acc == Total(Take(s.grid, Kept(s)))
    IN IF acc = ImageTokens(s.types, SeqLen) THEN SeqLen
       ELSE (CHOOSE i \in 1 .. Len(s.types) :
               s.types[i] = 1 /\ ImageTokens(s.types, i) = acc + 1) - 1

\* All per-token arrays are cut alike, the sidecars to the images that are kept.
Prepared(s, id) ==
    LET n == Len(s.mask)
        cut == IF ~Truncated(s) THEN n ELSE IF Imaged(s) THEN CutPoint(s) ELSE SeqLen
        grid == IF ~Truncated(s) \/ ~Imaged(s) THEN s.grid
                ELSE IF Kept(s) = 0 THEN Absent ELSE Take(s.grid, Kept(s))
    IN [tokens |-> [i \in 1 .. cut |-> <<id, i>>], mask |-> Take(s.mask, cut),
        rl |-> Take(s.rl, cut), ce |-> Take(s.ce, cut), types |-> Take(s.types, cut),
        grid |-> grid, kind |-> s.kind,
        routed |-> IF s.routed THEN cut ELSE Absent]

Prepare ==
    /\ stage = "prepare" /\ Len(samples) < Len(batch)
    /\ LET id == Len(samples) + 1
       IN /\ Valid(batch[id]) /\ ~Unindexed(batch[id])
          /\ samples' = Append(samples, Prepared(batch[id], id))
    /\ UNCHANGED <<batch, stage, bins, groups, heap, parts, ranks>>

\* A sample the producer should not have sent ends the trainer, and so does the
\* KeyError on one too long whose images have no image_grid_thw.
Reject ==
    /\ stage = "prepare" /\ Len(samples) < Len(batch)
    /\ ~Valid(batch[Len(samples) + 1]) \/ Unindexed(batch[Len(samples) + 1])
    /\ stage' = "rejected"
    /\ UNCHANGED <<batch, samples, bins, groups, heap, parts, ranks>>

-----------------------------------------------------------------------------
(* packed_samples_into_micro_bs.                                           *)

\* Stable sort of a sequence by decreasing key.
Decreasing(s, key(_)) ==
    LET order == SortSeq([i \in 1 .. Len(s) |-> i],
                         LAMBDA i, j : key(s[i]) > key(s[j]) \/ (key(s[i]) = key(s[j]) /\ i < j))
    IN [i \in 1 .. Len(s) |-> s[order[i]]]

SortSamples ==
    /\ stage = "prepare" /\ Len(samples) = Len(batch)
    /\ samples' = Decreasing(samples, Size)
    /\ stage' = "pack"
    /\ UNCHANGED <<batch, bins, groups, heap, parts, ranks>>

Multimodal(sample) == sample.grid # Absent

\* can_add: one run only, so the adapter never differs.
CanAdd(bin, sample) ==
    /\ Total(Sizes(bin)) + Size(sample) <= SeqLen
    /\ (bin[1].routed = Absent) = (sample.routed = Absent)
    /\ \A i \in 1 .. Len(bin) :
         /\ Multimodal(bin[i]) /\ Multimodal(sample)
         /\ \A j \in 1 .. i - 1 : ~Multimodal(bin[j])
         => bin[i].kind = sample.kind

\* First fit.
Pack ==
    /\ stage = "pack" /\ samples # <<>>
    /\ LET fits == {b \in 1 .. Len(bins) : CanAdd(bins[b], samples[1])}
           first == CHOOSE b \in fits : \A c \in fits : b <= c
       IN bins' = IF fits = {} THEN Append(bins, <<samples[1]>>)
                  ELSE [bins EXCEPT ![first] = Append(@, samples[1])]
    /\ samples' = Tail(samples)
    /\ UNCHANGED <<batch, stage, groups, heap, parts, ranks>>

RoundedUp(n) == ((n + Workers - 1) \div Workers) * Workers

Splittable == {b \in 1 .. Len(bins) :
    Len(bins[b]) > 1 /\ \A i \in 1 .. Len(bins[b]) : ~Multimodal(bins[b][i])}

\* split_by_workload: the heaviest sample goes to the side that is lighter.
Halves(bin) ==
    LET Weight(s) == Cost(<<Size(s)>>)
        Place(halves, s) ==
            IF halves.left <= halves.right
            THEN [halves EXCEPT !.left = @ + Weight(s), !.l = Append(@, s)]
            ELSE [halves EXCEPT !.right = @ + Weight(s), !.r = Append(@, s)]
    IN FoldLeft(Place, [left |-> 0, right |-> 0, l |-> <<>>, r |-> <<>>], Decreasing(bin, Weight))

Heaviest ==
    LET Load(b) == Cost(Sizes(bins[b]))
    IN CHOOSE b \in Splittable : \A c \in Splittable :
         Load(b) > Load(c) \/ (Load(b) = Load(c) /\ b >= c)

\* _expand_bins_by_splitting, towards a multiple of the workers.
Split ==
    /\ stage = "pack" /\ samples = <<>>
    /\ Workers > 1 /\ Len(bins) < RoundedUp(Len(bins)) /\ Splittable # {}
    /\ LET halves == Halves(bins[Heaviest])
       IN bins' = Append([bins EXCEPT ![Heaviest] = halves.l], halves.r)
    /\ UNCHANGED <<batch, stage, samples, groups, heap, parts, ranks>>

-----------------------------------------------------------------------------
(* _materialize_bin and pad_micro_batch.                                   *)

\* A stream exists once one sample carries it; the others are filled in.
Stream(bin, field(_), fill) ==
    IF \A i \in 1 .. Len(bin) : field(bin[i]) = Absent THEN Absent
    ELSE FlattenSeq([i \in 1 .. Len(bin) |->
           IF field(bin[i]) = Absent THEN Constant(Size(bin[i]), fill) ELSE field(bin[i])])

Present(bin, field(_)) == SelectSeq([i \in 1 .. Len(bin) |-> field(bin[i])], LAMBDA x : x # Absent)

RlFill == 1

Materialized(bin) ==
    LET grids == Present(bin, LAMBDA s : s.grid)
        rows == Present(bin, LAMBDA s : s.routed)
    IN [tokens |-> FlattenSeq([i \in 1 .. Len(bin) |-> bin[i].tokens]),
        mask |-> FlattenSeq([i \in 1 .. Len(bin) |-> bin[i].mask]),
        rl |-> Stream(bin, LAMBDA s : s.rl, RlFill),
        ce |-> Stream(bin, LAMBDA s : s.ce, 0),
        types |-> Stream(bin, LAMBDA s : s.types, 0),
        grid |-> IF grids = <<>> THEN Absent ELSE FlattenSeq(grids),
        routed |-> IF rows = <<>> THEN Absent ELSE Total(rows),
        lengths |-> Sizes(bin)]

Extended(stream, n) == IF stream = Absent THEN Absent ELSE stream \o Constant(n, 0)

Padded(mb) ==
    LET n == -Len(mb.tokens) % Multiple
    IN IF n = 0 THEN mb
       ELSE [mb EXCEPT !.tokens = @ \o Constant(n, <<0, 0>>), !.mask = @ \o Constant(n, FALSE),
                       !.rl = Extended(@, n), !.ce = Extended(@, n), !.types = Extended(@, n),
                       !.routed = IF @ = Absent THEN @ ELSE @ + n,
                       !.lengths[Len(mb.lengths)] = @ + n]

Materialize ==
    /\ stage = "pack" /\ samples = <<>>
    /\ ~(Workers > 1 /\ Len(bins) < RoundedUp(Len(bins)) /\ Splittable # {})
    /\ LET all == [b \in 1 .. Len(bins) |-> Padded(Materialized(bins[b]))]
       IN groups' = << SelectSeq(all, Multimodal), SelectSeq(all, LAMBDA mb : ~Multimodal(mb)) >>
    /\ stage' = "dummies"
    /\ UNCHANGED <<batch, samples, bins, heap, parts, ranks>>

-----------------------------------------------------------------------------
(* Distribution.                                                           *)

\* _make_dummy_batch.
Dummy(mb) == [mb EXCEPT !.mask = Constant(Len(@), FALSE), !.rl = Absent, !.ce = Absent]

PaddedGroup(g) ==
    IF g = <<>> THEN g ELSE g \o Constant(-Len(g) % Workers, Dummy(g[1]))

\* The states _karmarkar_karp starts from: Workers consecutive indices each, by weight.
FirstStates(weights) ==
    LET order == SortSeq([i \in 1 .. Len(weights) |-> i],
                         LAMBDA i, j : weights[i] < weights[j] \/ (weights[i] = weights[j] /\ i < j))
        Lot(n) == [w \in 1 .. Workers |->
                     LET i == order[n * Workers + w] IN [total |-> weights[i], items |-> <<i>>]]
    IN {Lot(n) : n \in 0 .. Len(weights) \div Workers - 1}

Lexical(s, t) ==
    \/ \E k \in 1 .. Len(s) : k <= Len(t) /\ Take(s, k - 1) = Take(t, k - 1) /\ s[k] < t[k]
    \/ Len(s) < Len(t) /\ Take(t, Len(s)) = s

Lighter(s, t) == s.total < t.total \/ (s.total = t.total /\ Lexical(s.items, t.items))

Ranked(state) == SortSeq(state, LAMBDA s, t : Lighter(t, s))

Spread(state) == state[1].total - state[Workers].total

\* The order of the heap: the widest spread first.
Earlier(s, t) ==
    Spread(s) > Spread(t) \/ (Spread(s) = Spread(t) /\ Lighter(t[1], s[1]))

Earliest(states) == CHOOSE s \in states : \A t \in states \ {s} : Earlier(s, t)

Weights(g) == [i \in 1 .. Len(g) |-> Cost(g[i].lengths)]

\* The group whose turn it is.
Turn == IF stage = "mm" THEN 1 ELSE 2

PadGroups ==
    /\ stage = "dummies"
    /\ groups' = << PaddedGroup(groups[1]), PaddedGroup(groups[2]) >>
    /\ stage' = "mm"
    /\ heap' = {Ranked(s) : s \in FirstStates(Weights(groups'[1]))}
    /\ UNCHANGED <<batch, samples, bins, parts, ranks>>

\* The two widest states are joined, heavy sets with light ones.
Merge ==
    /\ stage \in {"mm", "text"} /\ Cardinality(heap) > 1
    /\ LET a == Earliest(heap)
           b == Earliest(heap \ {a})
           joined == [i \in 1 .. Workers |->
                        [total |-> a[i].total + b[Workers + 1 - i].total,
                         items |-> a[i].items \o b[Workers + 1 - i].items]]
       IN heap' = (heap \ {a, b}) \cup {Ranked(joined)}
    /\ UNCHANGED <<batch, stage, samples, bins, groups, parts, ranks>>

Ascending(s) == SortSeq(s, LAMBDA i, j : i < j)

Partition ==
    /\ stage \in {"mm", "text"} /\ Cardinality(heap) = 1 /\ parts = <<>>
    /\ LET state == CHOOSE s \in heap : TRUE
       IN parts' = [w \in 1 .. Workers |-> Ascending(state[w].items)]
    /\ UNCHANGED <<batch, stage, samples, bins, groups, heap, ranks>>

Loads(partition, weights) ==
    [w \in DOMAIN partition |-> Total([i \in 1 .. Len(partition[w]) |-> weights[partition[w][i]]])]

MaxOf(loads) == CHOOSE x \in {loads[w] : w \in DOMAIN loads} : \A w \in DOMAIN loads : x >= loads[w]
MinOf(loads) == CHOOSE x \in {loads[w] : w \in DOMAIN loads} : \A w \in DOMAIN loads : x <= loads[w]
Better(l, m) ==
    \/ MaxOf(l) < MaxOf(m)
    \/ MaxOf(l) = MaxOf(m) /\ MaxOf(l) - MinOf(l) < MaxOf(m) - MinOf(m)

\* A swap of two items, <<rank, rank, position, position>>, and what it makes of the partition.
Swaps == {<<l, r, i, j>> \in (1 .. Workers) \X (1 .. Workers) \X (1 .. Len(parts[1])) \X (1 .. Len(parts[1])) :
            l < r}
Swapped(s) == [parts EXCEPT ![s[1]][s[3]] = parts[s[2]][s[4]], ![s[2]][s[4]] = parts[s[1]][s[3]]]

\* _refine_by_swapping takes the first of the best improving swaps.
BestSwaps ==
    LET weights == Weights(groups[Turn])
        After(s) == Loads(Swapped(s), weights)
    IN {s \in Swaps : /\ Better(After(s), Loads(parts, weights))
                      /\ \A t \in Swaps : ~Better(After(t), After(s))
                      /\ \A t \in Swaps : Better(After(s), After(t)) \/ s = t \/ Lexical(s, t)}

Refine ==
    /\ parts # <<>> /\ BestSwaps # {}
    /\ parts' = Swapped(CHOOSE s \in BestSwaps : TRUE)
    /\ UNCHANGED <<batch, stage, samples, bins, groups, heap, ranks>>

\* The group is dealt out; the multimodal group comes first on every rank.
Distribute ==
    /\ stage \in {"mm", "text"}
    /\ groups[Turn] # <<>> => parts # <<>> /\ BestSwaps = {}
    /\ ranks' = IF groups[Turn] = <<>> THEN ranks
                ELSE [r \in 1 .. Workers |->
                        ranks[r] \o [i \in 1 .. Len(parts[r]) |-> groups[Turn][parts[r][i]]]]
    /\ stage' = IF stage = "mm" THEN "text" ELSE "done"
    /\ heap' = IF stage = "mm" THEN {Ranked(s) : s \in FirstStates(Weights(groups[2]))} ELSE {}
    /\ parts' = <<>>
    /\ UNCHANGED <<batch, samples, bins, groups>>

Next ==
    \/ Prepare \/ Reject \/ SortSamples \/ Pack \/ Split \/ Materialize
    \/ PadGroups \/ Merge \/ Partition \/ Refine \/ Distribute

Spec == Init /\ [][Next]_packVars

-----------------------------------------------------------------------------
Done == stage = "done"
MicroBatchesOf == {<<r, i>> \in (1 .. Workers) \X (1 .. Len(ranks[1])) : i <= Len(ranks[r])}
At(c) == ranks[c[1]][c[2]]

\* Every rank gets as many micro batches as the others, and at every index all
\* of them see the same modality: no rank enters a collective alone.
RanksInStep ==
    Done => \A r, q \in 1 .. Workers :
              /\ Len(ranks[r]) = Len(ranks[q])
              /\ \A i \in 1 .. Len(ranks[r]) : Multimodal(ranks[r][i]) = Multimodal(ranks[q][i])

\* Membership of a token in a loss component: rl takes trainable tokens whose
\* weight is not 0, ce any token whose weight is not 0.
RlMember(x, i) == x.mask[i] /\ (x.rl = Absent \/ x.rl[i] # 0)
CeMember(x, i) == x.ce # Absent /\ x.ce[i] # 0

\* Occurrences of token t in the component, over all ranks.
Trained(member(_, _), t) ==
    {<<c, i>> \in MicroBatchesOf \X (1 .. SeqLen + Multiple) :
        i <= Len(At(c).tokens) /\ At(c).tokens[i] = t /\ member(At(c), i)}

\* Packing, splitting, padding and dummies train every token that survives
\* truncation exactly once in exactly the components its sample put it in.
TokensTrainedOnce ==
    Done => \A id \in 1 .. Len(batch) :
              LET s == Prepared(batch[id], id)
              IN \A i \in 1 .. Size(s) :
                   /\ Cardinality(Trained(RlMember, <<id, i>>)) = IF RlMember(s, i) THEN 1 ELSE 0
                   /\ Cardinality(Trained(CeMember, <<id, i>>)) = IF CeMember(s, i) THEN 1 ELSE 0

\* The placeholders of a micro batch are those of the images in its sidecars.
ImagesWhole ==
    Done => \A c \in MicroBatchesOf :
              LET mb == At(c)
                  seen == IF mb.types = Absent THEN 0 ELSE ImageTokens(mb.types, Len(mb.types))
              IN seen = IF mb.grid = Absent THEN 0 ELSE Total(mb.grid)

\* Arrays stay aligned with the tokens, within the length the model allows.
ArraysAligned ==
    Done => \A c \in MicroBatchesOf :
              LET mb == At(c)
                  n == Len(mb.tokens)
              IN /\ Len(mb.mask) = n /\ Total(mb.lengths) = n /\ n % Multiple = 0
                 /\ n < SeqLen + Multiple
                 /\ \A stream \in {mb.rl, mb.ce, mb.types} : stream = Absent \/ Len(stream) = n
                 /\ mb.routed \in {Absent, n}
=============================================================================
