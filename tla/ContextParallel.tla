--------------------------- MODULE ContextParallel ---------------------------
(***************************************************************************)
(* Attention over a packed sequence whose tokens are spread over the ranks *)
(* of a context parallel group.  "ring" gathers the keys and values of one *)
(* KV head after the other, the next gather in flight while the kernel     *)
(* works on the present head, and in the backward pass scatters the        *)
(* gradients back; "ulysses" exchanges sequence shards for head shards;    *)
(* "mamba" does the same for the channels of a state space layer.          *)
(*                                                                         *)
(* What is computed is recorded as the set of <<query head, KV head,       *)
(* query position, key position>> that met in a kernel.                    *)
(***************************************************************************)
EXTENDS Integers, Sequences, FiniteSets, SequencesExt, FiniteSetsExt

CONSTANTS
    GroupSize,      \* ranks of the context parallel group
    Packings,       \* lengths of the packed sequences
    Shapes,         \* [q, kv]: query heads and KV heads (heads and groups of Mamba)
    Window,         \* window_size of sliding attention, -1 for none
    HeadsStride     \* heads_k_stride

Group == 0 .. GroupSize - 1

VARIABLES
    style,      \* "ring", "ulysses" or "mamba"
    lengths,    \* seq_lens
    shape,
    at,         \* position of a rank
    head,       \* i of the loop over KV heads
    buffer,     \* kv_buffer: the KV head it holds, -1 for nothing
    coming,     \* kv_buffer_copy: the KV head being gathered into it, -1 for none
    issued,     \* collectives a rank has issued, in order
    met,        \* what the kernels of a rank have computed in the forward pass
    dkv,        \* contributions in dkv_buffer
    dk,         \* gradients of a rank's own keys
    held        \* ulysses: query and KV heads (or channels) of a rank after the exchange

cpVars == <<style, lengths, shape, at, head, buffer, coming, issued, met, dkv, dk, held>>

Total == FoldLeft(LAMBDA a, b : a + b, 0, lengths)
ChunkLen == Total \div GroupSize
Chunk(r) == r * ChunkLen .. (r + 1) * ChunkLen - 1
\* cu_seqlens, as the start of every packed sequence and the end.
CuSeqlens == [k \in 1 .. Len(lengths) + 1 |-> FoldLeft(LAMBDA a, b : a + b, 0, SubSeq(lengths, 1, k - 1))]
StartOf(pos) == Max({CuSeqlens[k] : k \in {j \in DOMAIN CuSeqlens : CuSeqlens[j] <= pos}})
QueryHeads(kv, stride) == (kv * shape.q) \div shape.kv .. ((kv + stride) * shape.q) \div shape.kv - 1

Init ==
    /\ style \in {"ring", "ulysses", "mamba"}
    /\ lengths \in Packings /\ shape \in Shapes
    /\ at = [r \in Group |-> "start"]
    /\ head = [r \in Group |-> 0]
    /\ buffer = [r \in Group |-> -1] /\ coming = [r \in Group |-> -1]
    /\ issued = [r \in Group |-> <<>>]
    /\ met = [r \in Group |-> {}] /\ dkv = [r \in Group |-> {}] /\ dk = [r \in Group |-> {}]
    /\ held = [r \in Group |-> <<<<>>, <<>>>>]

-----------------------------------------------------------------------------
(* Ring.                                                                   *)

\* The kernel sees the local queries and the keys from the start of the first
\* local sequence to the end of the chunk; it is causal within each sequence.
Attended(r, qs, kv) ==
    LET window(q) == IF Window = -1 THEN StartOf(q) ELSE Max({StartOf(q), q - Window})
    IN {x \in qs \X {kv} \X Chunk(r) \X (StartOf(r * ChunkLen) .. (r + 1) * ChunkLen - 1) :
          x[4] <= x[3] /\ x[4] >= window(x[3])}

Backwards(r) == at[r] \in {"bstart", "bwait", "bkernel", "breduce"}

\* The first gather of a pass.
RingStart(r) ==
    /\ style = "ring" /\ at[r] \in {"start", "bstart"}
    /\ coming' = [coming EXCEPT ![r] = 0]
    /\ issued' = [issued EXCEPT ![r] = Append(@, <<"gather", 0>>)]
    /\ head' = [head EXCEPT ![r] = 0]
    /\ at' = [at EXCEPT ![r] = IF Backwards(r) THEN "bwait" ELSE "wait"]
    /\ UNCHANGED <<style, lengths, shape, buffer, met, dkv, dk, held>>

\* comm.wait returns once all ranks have issued the same collective.
Arrived(r) ==
    LET n == CHOOSE k \in DOMAIN issued[r] :
               issued[r][k][1] = "gather" /\ \A j \in k + 1 .. Len(issued[r]) : issued[r][j][1] # "gather"
    IN \A s \in Group : Len(issued[s]) >= n

\* The buffers are swapped, then the next head is gathered into the old one.
Swapped(r) == [buf |-> coming[r], next |-> -1]

RingWait(r) ==
    /\ style = "ring" /\ at[r] \in {"wait", "bwait"} /\ Arrived(r)
    /\ buffer' = [buffer EXCEPT ![r] = Swapped(r).buf]
    /\ LET more == head[r] < shape.kv - HeadsStride
       IN /\ coming' = [coming EXCEPT ![r] = IF more THEN head[r] + HeadsStride ELSE Swapped(r).next]
          /\ issued' = IF more THEN [issued EXCEPT ![r] = Append(@, <<"gather", head[r] + HeadsStride>>)]
                       ELSE issued
    /\ dkv' = [dkv EXCEPT ![r] = {}]
    /\ at' = [at EXCEPT ![r] = IF Backwards(r) THEN "bkernel" ELSE "kernel"]
    /\ UNCHANGED <<style, lengths, shape, head, met, dk, held>>

RingForward(r) ==
    /\ style = "ring" /\ at[r] = "kernel"
    /\ met' = [met EXCEPT ![r] = @ \cup Attended(r, QueryHeads(head[r], HeadsStride), buffer[r])]
    /\ head' = [head EXCEPT ![r] = @ + HeadsStride]
    /\ at' = [at EXCEPT ![r] = IF head[r] + HeadsStride >= shape.kv THEN "bstart" ELSE "wait"]
    /\ UNCHANGED <<style, lengths, shape, buffer, coming, issued, dkv, dk, held>>

RingBackward(r) ==
    /\ style = "ring" /\ at[r] = "bkernel"
    /\ dkv' = [dkv EXCEPT ![r] = Attended(r, QueryHeads(head[r], HeadsStride), buffer[r])]
    /\ issued' = [issued EXCEPT ![r] = Append(@, <<"reduce", head[r]>>)]
    /\ at' = [at EXCEPT ![r] = "breduce"]
    /\ UNCHANGED <<style, lengths, shape, head, buffer, coming, met, dk, held>>

\* reduce_scatter of dk and dv: every rank gets the sum over its own keys.
RingReduce ==
    /\ style = "ring" /\ \A r \in Group : at[r] = "breduce"
    /\ dk' = [r \in Group |-> dk[r] \cup {x \in UNION {dkv[s] : s \in Group} : x[4] \in Chunk(r)}]
    /\ head' = [r \in Group |-> head[r] + HeadsStride]
    /\ at' = [r \in Group |-> IF head[r] + HeadsStride >= shape.kv THEN "done" ELSE "bwait"]
    /\ UNCHANGED <<style, lengths, shape, buffer, coming, issued, met, dkv, held>>

-----------------------------------------------------------------------------
(* Ulysses.                                                                *)

Heads(n) == [i \in 1 .. n |-> i - 1]

\* KV heads are repeated until every rank can have one.
ReplicateKvHeads ==
    IF shape.kv >= GroupSize THEN Heads(shape.kv)
    ELSE [i \in 1 .. GroupSize |-> (i - 1) \div (GroupSize \div shape.kv)]

\* The slice of a list of heads that all_to_all hands to a rank, for all positions.
HeadSlice(heads, r) ==
    LET n == Len(heads) \div GroupSize IN SubSeq(heads, r * n + 1, (r + 1) * n)

SeqToHead ==
    /\ style = "ulysses" /\ \A r \in Group : at[r] = "start"
    /\ held' = [r \in Group |-> <<HeadSlice(Heads(shape.q), r), HeadSlice(ReplicateKvHeads, r)>>]
    /\ at' = [r \in Group |-> "kernel"]
    /\ UNCHANGED <<style, lengths, shape, head, buffer, coming, issued, met, dkv, dk>>

\* The kernel groups its local query heads over its local KV heads, over the
\* full sequence with the full cu_seqlens.
UlyssesKernel(r) ==
    /\ style = "ulysses" /\ at[r] = "kernel"
    /\ LET qs == held[r][1]  kvs == held[r][2]
           ratio == Len(qs) \div Len(kvs)
           window(q) == IF Window = -1 THEN StartOf(q) ELSE Max({StartOf(q), q - Window})
       IN dkv' = [dkv EXCEPT ![r] =
                    {<<qs[j], kvs[(j - 1) \div ratio + 1], x[1], x[2]>> :
                       <<j, x>> \in {y \in (1 .. Len(qs)) \X ((0 .. Total - 1) \X (0 .. Total - 1)) :
                                       y[2][2] <= y[2][1] /\ y[2][2] >= window(y[2][1])}}]
    /\ at' = [at EXCEPT ![r] = "return"]
    /\ UNCHANGED <<style, lengths, shape, head, buffer, coming, issued, met, dk, held>>

\* Back to sequence shards: the j-th head of the concatenation is the j-th head
\* of the rank it came from.
HeadToSeq ==
    /\ style = "ulysses" /\ \A r \in Group : at[r] = "return"
    /\ met' = [r \in Group |-> {x \in UNION {dkv[s] : s \in Group} : x[3] \in Chunk(r)}]
    /\ dk' = [r \in Group |-> {x \in UNION {dkv[s] : s \in Group} : x[4] \in Chunk(r)}]
    /\ at' = [r \in Group |-> "done"]
    /\ UNCHANGED <<style, lengths, shape, head, buffer, coming, issued, dkv, held>>

-----------------------------------------------------------------------------
(* Mamba: heads 0 .. q-1 of x, then the groups of B, then those of C.      *)

\* Channels a rank holds after x, B and C were exchanged separately.
LocalChannels(r) ==
    HeadSlice(Heads(shape.q), r)
      \o [i \in 1 .. shape.kv \div GroupSize |-> shape.q + HeadSlice(Heads(shape.kv), r)[i]]
      \o [i \in 1 .. shape.kv \div GroupSize |-> shape.q + shape.kv + HeadSlice(Heads(shape.kv), r)[i]]

\* conv_indices: the convolution channels the rank picks.
ConvIndices(r) ==
    LET x == shape.q \div GroupSize  g == shape.kv \div GroupSize
    IN [i \in 1 .. x |-> r * x + i - 1] \o [i \in 1 .. g |-> shape.q + r * g + i - 1]
         \o [i \in 1 .. g |-> shape.q + shape.kv + r * g + i - 1]

\* Each head scans its own documents (seq_idx) with the B and C of its group.
MambaForward ==
    /\ style = "mamba" /\ shape.kv % GroupSize = 0 /\ \A r \in Group : at[r] = "start"
    /\ held' = [r \in Group |-> <<LocalChannels(r), ConvIndices(r)>>]
    /\ LET x == shape.q \div GroupSize  g == shape.kv \div GroupSize
           scanned(s) == UNION {{<<LocalChannels(s)[j], LocalChannels(s)[x + 1 + (j - 1) \div (x \div g)] - shape.q, q, k>> :
                                   k \in StartOf(q) .. q} : <<j, q>> \in (1 .. x) \X (0 .. Total - 1)}
       IN met' = [r \in Group |-> {y \in UNION {scanned(s) : s \in Group} : y[3] \in Chunk(r)}]
    /\ at' = [r \in Group |-> "scanned"]
    /\ UNCHANGED <<style, lengths, shape, head, buffer, coming, issued, dkv, dk>>

Next ==
    \/ \E r \in Group : RingStart(r) \/ RingWait(r) \/ RingForward(r) \/ RingBackward(r) \/ UlyssesKernel(r)
    \/ RingReduce \/ SeqToHead \/ HeadToSeq \/ MambaForward

Spec == Init /\ [][Next]_cpVars

-----------------------------------------------------------------------------
\* What one device holding the whole sequence would compute.
Reference ==
    {<<h, (h * shape.kv) \div shape.q, q, k>> : <<h, q, k>> \in
       {x \in (0 .. shape.q - 1) \X (0 .. Total - 1) \X (0 .. Total - 1) :
          /\ x[3] <= x[2] /\ x[3] >= StartOf(x[2])
          /\ Window # -1 /\ style # "mamba" => x[3] >= x[2] - Window}}

\* Every causal pair within a packed sequence is computed once, by the rank that
\* owns the query, with the KV head of the query's group, whatever the style.
AttentionExact ==
    \A r \in Group : at[r] \in {"bstart", "bwait", "bkernel", "breduce", "done", "scanned"} =>
      met[r] = {x \in Reference : x[3] \in Chunk(r)}

\* The gradient of a key collects every query that saw it, on all ranks.
KeyGradientsExact ==
    \A r \in Group : at[r] = "done" => dk[r] = {x \in Reference : x[4] \in Chunk(r)}

\* The kernel never reads a buffer that a gather in flight is writing, and the
\* ranks issue the same collectives in the same order.
GathersOrdered ==
    /\ \A r \in Group : at[r] \in {"kernel", "bkernel"} /\ style = "ring" =>
         buffer[r] = head[r] /\ coming[r] # buffer[r]
    /\ \A r, s \in Group : IsPrefix(issued[r], issued[s]) \/ IsPrefix(issued[s], issued[r])

\* The convolution of a rank uses the weights of the channels it holds.
ChannelsMatched == \A r \in Group : at[r] = "scanned" => held[r][1] = held[r][2]
=============================================================================
