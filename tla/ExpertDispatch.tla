--------------------------- MODULE ExpertDispatch ---------------------------
(***************************************************************************)
(* A mixture of experts layer over the ranks of an expert parallel group:  *)
(* every token picks TopK experts, its rows are sorted by expert, sent to  *)
(* the rank that owns the expert, grouped there, run through the expert    *)
(* whose segment they fall into, and summed back into the token.           *)
(*                                                                         *)
(* "local": no expert parallelism; "torch": one all-to-all with padded     *)
(* groups; "deepep": chunks of tokens, the next chunk being dispatched     *)
(* while the present one is computed.                                      *)
(*                                                                         *)
(* The result of a token is the bag of <<expert that ran, score applied>>. *)
(***************************************************************************)
EXTENDS Integers, Sequences, FiniteSets, Bags, SequencesExt, FiniteSetsExt

CONSTANTS
    EpSize,         \* ranks of the expert parallel group
    NumExperts,
    TopK,
    ChunkSize,      \* deepep_token_chunk_size
    AlignSize,      \* TOKEN_GROUP_ALIGN_SIZE_M
    Inputs,         \* tokens of the ranks: [scores, replay] each
    Bias,           \* expert_bias
    NGroup, TopkGroup,  \* group limited routing (NemotronH)
    LoraRank

EpRanks == 0 .. EpSize - 1
Experts == 0 .. NumExperts - 1

VARIABLES
    backend,    \* ep_comm_backend, "local" without expert parallelism
    kernel,     \* use_grouped_mm: "grouped", else "loop"
    router,     \* how experts are selected
    tokens,     \* tokens of each rank
    chosen,     \* selected_experts_indices of each rank
    usage,      \* tokens_per_expert of each rank
    sent,       \* chunks dispatched
    ran,        \* chunks computed
    ops,        \* collectives a rank has issued, in order
    handles,    \* _handle_cache: dispatches whose handle is still held
    partial,    \* results of the chunks a rank has computed, as rows to return
    combined,   \* output of each token, <<>> until the layer is done
    shards      \* what vLLM reads back from an exported expert adapter

edVars == <<backend, kernel, router, tokens, chosen, usage, sent, ran, ops, handles, partial, combined, shards>>

Concat(seqs) == FoldLeft(LAMBDA a, b : a \o b, <<>>, seqs)
SumSeq(s) == FoldLeft(LAMBDA a, b : a + b, 0, s)
Upto(n) == [i \in 1 .. n |-> i]

Init ==
    /\ backend \in {"local", "torch", "deepep"}
    /\ kernel \in {"grouped", "loop"}
    /\ router \in {"replay", "balanced", "topk", "grouped"}
    /\ tokens \in Inputs
    /\ chosen = [r \in EpRanks |-> <<>>]
    /\ usage = [r \in EpRanks |-> [e \in Experts |-> 0]]
    /\ sent = [r \in EpRanks |-> 0] /\ ran = [r \in EpRanks |-> 0]
    /\ ops = [r \in EpRanks |-> <<>>] /\ handles = [r \in EpRanks |-> {}]
    /\ partial = [r \in EpRanks |-> <<>>] /\ combined = [r \in EpRanks |-> <<>>]
    /\ shards = <<>>

-----------------------------------------------------------------------------
(* Routing.                                                                *)

TopOf(f, S, k) ==
    SubSeq(SetToSortSeq(S, LAMBDA a, b : f[a] > f[b] \/ (f[a] = f[b] /\ a < b)), 1, k)

\* NemotronHRouter: the groups with the best two experts stay, the scores of
\* the others become zero.
GroupLimited(f) ==
    LET size == NumExperts \div NGroup
        members(g) == g * size .. (g + 1) * size - 1
        best(g) == LET t == TopOf(f, members(g), 2) IN f[t[1]] + f[t[2]]
        kept == Range(TopOf([g \in 0 .. NGroup - 1 |-> best(g)], 0 .. NGroup - 1, TopkGroup))
    IN [e \in Experts |-> IF e \div size \in kept THEN f[e] ELSE 0]

\* Biases move the selection only; replayed routings and balanced ones skip it.
Selected(r, t) ==
    LET tok == tokens[r][t]
        biased == [e \in Experts |-> tok.scores[e] + Bias[e]]
    IN CASE router = "replay" -> tok.replay
         [] router = "balanced" -> [k \in 1 .. TopK |-> ((t - 1) * TopK + k - 1) % NumExperts]
         [] router = "topk" -> TopOf(biased, Experts, TopK)
         [] OTHER -> TopOf(GroupLimited(biased), Experts, TopK)

NumTokensPerExpert(picks) ==
    [e \in Experts |-> Cardinality({x \in (DOMAIN picks) \X (1 .. TopK) : picks[x[1]][x[2]] = e})]

Route(r) ==
    /\ chosen[r] = <<>>
    /\ LET picks == [t \in DOMAIN tokens[r] |-> Selected(r, t)]
       IN /\ chosen' = [chosen EXCEPT ![r] = picks]
          /\ usage' = [usage EXCEPT ![r] = [e \in Experts |-> @[e] + NumTokensPerExpert(picks)[e]]]
    /\ UNCHANGED <<backend, kernel, router, tokens, sent, ran, ops, handles, partial, combined, shards>>

\* Rows <<token, expert, score>> of a range of tokens, in token order.
Rows(r, lo, hi) ==
    Concat([i \in 1 .. hi - lo + 1 |->
              [k \in 1 .. TopK |-> LET e == chosen[r][lo + i - 1][k]
                                   IN <<lo + i - 1, e, tokens[r][lo + i - 1].scores[e]>>]])

\* argsort(stable=True) on the expert.
ByExpert(rows) == Concat([n \in 1 .. NumExperts |-> SelectSeq(rows, LAMBDA x : x[2] = n - 1)])

\* TokenReorderer.
Reordered(r) == ByExpert(Rows(r, 1, Len(tokens[r])))

-----------------------------------------------------------------------------
(* The experts of a rank, on rows that lie one segment after the other.    *)

Peers(r) == IF backend = "local" THEN <<r>> ELSE [i \in 1 .. EpSize |-> i - 1]
Width == IF backend = "local" THEN NumExperts ELSE NumExperts \div EpSize
FirstExpert(r) == IF backend = "local" THEN 0 ELSE r * Width

\* grouped_mm with offs = cumsum(counts): the expert that computes row i.
OffsetExpert(counts, i) == Min({n \in 1 .. Len(counts) : SumSeq(SubSeq(counts, 1, n)) >= i}) - 1

\* split(counts), one expert after the other; rows beyond the counts are padding.
SplitExpert(counts, i) == Concat([n \in 1 .. Len(counts) |-> [j \in 1 .. counts[n] |-> n - 1]])[i]

ExpertOfRow(counts, i) == IF kernel = "grouped" THEN OffsetExpert(counts, i) ELSE SplitExpert(counts, i)

-----------------------------------------------------------------------------
(* Dispatch with all_to_all.                                               *)

\* The rows of s that go to r: a contiguous range, cut by the expert counts.
Segment(s, r) ==
    LET counts == NumTokensPerExpert(chosen[s])
        upto(n) == FoldSet(LAMBDA e, a : a + counts[e], 0, 0 .. n - 1)
    IN [i \in 1 .. upto(FirstExpert(r) + Width) - upto(FirstExpert(r)) |-> <<s, upto(FirstExpert(r)) + i>>]

\* num_tokens_per_expert_group: for every peer, its rows for each local expert.
GroupCount(s, r, n) == NumTokensPerExpert(chosen[s])[FirstExpert(r) + n]

\* The size of an expert's group, rounded up, never empty.
GroupSizeAligned(n) == Max({AlignSize, ((n + AlignSize - 1) \div AlignSize) * AlignSize})

\* num_tokens_per_expert after the permutation.
AlignedCounts(r) ==
    [n \in 1 .. Width |->
       LET m == SumSeq([i \in DOMAIN Peers(r) |-> GroupCount(Peers(r)[i], r, n - 1)])
       IN GroupSizeAligned(m)]

\* Mutant: the rows stay in the order of the peers.
PermutedByPeer(r) == Upto(SumSeq(AlignedCounts(r)))

\* generate_permute_indices: positions in the received rows, grouped by expert
\* then by peer, padded with the position of the zero row.
PermutedIndices(r) ==
    LET peers == Peers(r)
        total == SumSeq([i \in DOMAIN peers |-> Len(Segment(peers[i], r))])
        start(i, n) == SumSeq([j \in 1 .. i - 1 |-> Len(Segment(peers[j], r))])
                         + FoldSet(LAMBDA m, a : a + GroupCount(peers[i], r, m), 0, 0 .. n - 1)
        group(n) == Concat([i \in DOMAIN peers |->
                              [j \in 1 .. GroupCount(peers[i], r, n) |-> start(i, n) + j]])
        padded(n) == group(n) \o [j \in 1 .. GroupSizeAligned(Len(group(n))) - Len(group(n)) |-> total + 1]
    IN Concat([n \in 1 .. Width |-> padded(n - 1)])

\* Experts of rank r on what it received, unpermuted: <<source, sorted row, expert>>.
TorchRows(r) ==
    LET received == Concat([i \in DOMAIN Peers(r) |-> Segment(Peers(r)[i], r)])
        perm == PermutedIndices(r)
    IN [j \in DOMAIN received |->
          LET p == CHOOSE q \in DOMAIN perm : perm[q] = j
          IN <<received[j][1], received[j][2], FirstExpert(r) + ExpertOfRow(AlignedCounts(r), p)>>]

-----------------------------------------------------------------------------
(* Dispatch with DeepEP.                                                   *)

Chunks(r) == IF backend = "deepep" THEN (Len(tokens[r]) + ChunkSize - 1) \div ChunkSize ELSE 1
ChunkRows(s, c) == Rows(s, (c - 1) * ChunkSize + 1, Min({c * ChunkSize, Len(tokens[s])}))

Owner(e) == e \div Width

\* Received tokens of chunk c, in the order of the sources, each with the
\* choices that fall on r; choices with score zero are masked.
DispatchedRows(r, c) ==
    Concat([i \in 1 .. EpSize |->
       LET mine == SelectSeq(ChunkRows(i - 1, c), LAMBDA x : Owner(x[2]) = r /\ x[3] # 0)
       IN [k \in DOMAIN mine |-> <<i - 1, mine[k][1], mine[k][2], mine[k][3]>>]])

\* _permute_tokens, the experts, and _unpermute_tokens: <<source, token, expert, score>>.
DeepepRows(r, c) ==
    LET rows == DispatchedRows(r, c)
        sorted == Concat([n \in 1 .. Width |-> SelectSeq(rows, LAMBDA x : x[3] = FirstExpert(r) + n - 1)])
        counts == [n \in 1 .. Width |-> Len(SelectSeq(rows, LAMBDA x : x[3] = FirstExpert(r) + n - 1))]
    IN [p \in DOMAIN sorted |->
          <<sorted[p][1], sorted[p][2], FirstExpert(r) + ExpertOfRow(counts, p), sorted[p][4]>>]

-----------------------------------------------------------------------------
(* Steps of a rank.                                                        *)

\* A collective of r is complete when every rank has issued it, after the same
\* ones: a dispatch that meets a combine leaves both waiting.
Complete(r, n) == \A s \in EpRanks : Len(ops[s]) >= n /\ SubSeq(ops[s], 1, n) = SubSeq(ops[r], 1, n)

Dispatch(r) ==
    /\ chosen[r] # <<>> /\ sent[r] < Chunks(r)
    /\ sent[r] = 0 \/ sent[r] = ran[r] + 1
    /\ sent' = [sent EXCEPT ![r] = @ + 1]
    /\ ops' = [ops EXCEPT ![r] = Append(@, <<"dispatch", sent[r] + 1>>)]
    /\ handles' = [handles EXCEPT ![r] = @ \cup {sent[r] + 1}]
    /\ UNCHANGED <<backend, kernel, router, tokens, chosen, usage, ran, partial, combined, shards>>

\* finalize_dispatch_tokens, the local experts, combine_tokens.
RunExperts(r) ==
    LET c == ran[r] + 1
        n == CHOOSE k \in DOMAIN ops[r] : ops[r][k] = <<"dispatch", c>>
    IN /\ ran[r] < sent[r] /\ (sent[r] = Chunks(r) \/ sent[r] = ran[r] + 2)
       /\ backend = "local" \/ Complete(r, n)
       /\ partial' = [partial EXCEPT ![r] =
                        Append(@, IF backend = "deepep" THEN DeepepRows(r, c) ELSE TorchRows(r))]
       /\ c \in handles[r] /\ handles' = [handles EXCEPT ![r] = @ \ {c}]
       /\ ops' = [ops EXCEPT ![r] = Append(@, <<"combine", c>>)]
       /\ ran' = [ran EXCEPT ![r] = c]
       /\ UNCHANGED <<backend, kernel, router, tokens, chosen, usage, sent, combined, shards>>

Summed(S) == FoldSet(LAMBDA x, b : b (+) SetToBag({x[2]}), EmptyBag, S)

\* The rows that came back to the tokens of r: <<<<rank, chunk, position>>, <<expert, score>>>>.
Returned(r, t) ==
    LET all == UNION {UNION {{<<s, c, j>> : j \in DOMAIN partial[s][c]} : c \in DOMAIN partial[s]} :
                        s \in Range(Peers(r))}
        row(x) == partial[x[1]][x[2]][x[3]]
        score(x) == IF backend = "deepep" THEN row(x)[4] ELSE Reordered(r)[row(x)[2]][3]
        token(x) == IF backend = "deepep" THEN row(x)[2] ELSE Reordered(r)[row(x)[2]][1]
    IN {<<x, <<row(x)[3], score(x)>>>> : x \in {y \in all : row(y)[1] = r /\ token(y) = t}}

\* sync_combine, then the rows are added to their tokens.
Finish(r) ==
    /\ chosen[r] # <<>> /\ ran[r] = Chunks(r) /\ combined[r] = <<>>
    /\ backend = "local" \/ Complete(r, Len(ops[r]))
    /\ combined' = [combined EXCEPT ![r] = [t \in DOMAIN tokens[r] |-> Summed(Returned(r, t))]]
    /\ UNCHANGED <<backend, kernel, router, tokens, chosen, usage, sent, ran, ops, handles, partial, shards>>

\* state_dict_for_adapter after full_tensor: stacked factors as vLLM unstacks
\* them, lora_A over (expert, rank) and lora_B over (rank, expert).
FullTensor == Concat([r \in 1 .. EpSize |-> [n \in 1 .. NumExperts \div EpSize |-> (r - 1) * (NumExperts \div EpSize) + n - 1]])
StackedA == [i \in 0 .. NumExperts * LoraRank - 1 |-> <<FullTensor[(i \div LoraRank) + 1], i % LoraRank>>]
StackedB == [i \in 0 .. NumExperts * LoraRank - 1 |-> <<FullTensor[(i % NumExperts) + 1], i \div NumExperts>>]
ExportAdapter ==
    /\ shards = <<>> /\ \A r \in EpRanks : combined[r] # <<>>
    /\ shards' = [x \in Experts \X (0 .. LoraRank - 1) |->
                    <<StackedA[x[1] * LoraRank + x[2]], StackedB[x[2] * NumExperts + x[1]]>>]
    /\ UNCHANGED <<backend, kernel, router, tokens, chosen, usage, sent, ran, ops, handles, partial, combined>>

Next ==
    \/ \E r \in EpRanks : Route(r) \/ Dispatch(r) \/ RunExperts(r) \/ Finish(r)
    \/ ExportAdapter

Spec == Init /\ [][Next]_edVars

-----------------------------------------------------------------------------
Weighted(b) == {x \in BagToSet(b) : x[2] # 0}

\* Every token is computed once by each expert it selected, with the score of
\* that expert, whatever the backend and however the ranks interleave.
RoutedExact ==
    \A r \in EpRanks : \A t \in DOMAIN combined[r] :
      /\ Weighted(combined[r][t]) =
           {<<e, tokens[r][t].scores[e]>> : e \in {f \in Range(chosen[r][t]) : tokens[r][t].scores[f] # 0}}
      /\ \A x \in Weighted(combined[r][t]) : CopiesIn(x, combined[r][t]) = 1

\* Ranks with equally many chunks issue the same collectives in the same
\* order; ranks whose numbers of chunks differ, which only depend on their own
\* tokens, part at the last chunk that both have, and neither ends the layer.
\* No handle of a dispatch is left when the layer is done.
ExchangesPaired ==
    /\ backend # "local" => \A r, s \in EpRanks :
         LET both == (DOMAIN ops[r]) \cap (DOMAIN ops[s])
             meet == {n \in both : ops[r][n] = ops[s][n]}
         IN IF Chunks(r) = Chunks(s) THEN meet = both
            ELSE /\ meet = both \cap 1 .. 2 * Min({Chunks(r), Chunks(s)}) - 1
                 /\ combined[r] = <<>> /\ combined[s] = <<>>
    /\ \A r \in EpRanks : combined[r] # <<>> => handles[r] = {}

\* An exported adapter gives every expert its own two factors.
AdapterExportExact == \A x \in DOMAIN shards : shards[x] = <<x, x>>
=============================================================================
