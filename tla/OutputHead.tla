----------------------------- MODULE OutputHead -----------------------------
(***************************************************************************)
(* The output head of a trained model: log probabilities and entropies of  *)
(* the labels, and their gradient, over chunks of tokens and chunks of the *)
(* vocabulary, so that no full row of logits is ever kept.                 *)
(*                                                                         *)
(* Exponentials have base 2 and sums are in units of 2^-Precision, which   *)
(* makes the running sums exact: the identities behind them do not depend  *)
(* on the base.  tanh(x / softcap) is a table.                             *)
(***************************************************************************)
EXTENDS Integers, Sequences, FiniteSets, SequencesExt, FiniteSetsExt

CONSTANTS
  HeadInputs,     \* packed samples: sequences of [tokens, invT], a token [id, logits]
  ChunkSize,      \* fused_lm_head_token_chunk_size
  VocabChunk,     \* vocab_chunk_size (8192)
  Vocab,          \* size of the vocabulary
  Precision,
  Softcapped, Slope   \* softcap * tanh(x / softcap) and its derivative

VARIABLES
  packed,     \* the micro batch of this rank
  kind,       \* lm_head: [fused : BOOLEAN, softcap : BOOLEAN]
  needs,      \* what autograd wants a gradient of: "hidden", "weight"
  pass,       \* "forward", "backward", "done"
  start, vocabStart,
  acc,        \* per token of the chunk: [m, s, t, target]
  out,        \* per token: what logz, logprob and entropy are computed from
  gradHidden, \* token -> vocabulary -> coefficient, times s
  gradWeight

headVars == <<packed, kind, needs, pass, start, vocabStart, acc, out, gradHidden, gradWeight>>

HeadAssumption == ChunkSize \in Nat \ {0} /\ VocabChunk \in Nat \ {0} /\ Vocab \in Nat \ {0}

Words == 0 .. Vocab - 1
Positions(input) == 1 .. Len(FlattenSeq([k \in DOMAIN input |-> input[k].tokens]))
N == Cardinality(Positions(packed))

\* s = 0 only before the first words: the maximum is then -inf.
Nothing == [m |-> 0, s |-> 0, t |-> 0, target |-> 0]

\* results.py gives every token of a sample the sample's temperature.
InvT == FlattenSeq([k \in DOMAIN packed |-> [i \in DOMAIN packed[k].tokens |-> packed[k].invT]])
Tokens == FlattenSeq([k \in DOMAIN packed |-> packed[k].tokens])

\* shift_tensor_left: the label is the next token, 0 at the end.
Label(i) == IF i = N THEN 0 ELSE Tokens[i + 1].id

\* inject_prime_lm_head: fused if a chunk size is configured, capped for Gemma.
HeadKinds == [fused : BOOLEAN, softcap : BOOLEAN]

Init ==
  /\ packed \in HeadInputs
  /\ kind \in HeadKinds
  /\ needs \in {{"hidden"}, {"hidden", "weight"}}
  /\ pass = "forward" /\ start = 0 /\ vocabStart = 0
  /\ acc = [i \in Positions(packed) |-> Nothing]
  /\ out = [i \in Positions(packed) |-> Nothing]
  /\ gradHidden = [i \in Positions(packed) |-> [v \in Words |-> 0]]
  /\ gradWeight = [v \in Words |-> [i \in Positions(packed) |-> 0]]

Chunk == start + 1 .. Min({start + ChunkSize, N})
VocabRange == vocabStart .. Min({vocabStart + VocabChunk, Vocab}) - 1

\* The logit of a word, capped before it is scaled by the temperature.
Scaled(i, v) ==
  LET x == Tokens[i].logits[v + 1] IN (IF kind.softcap THEN Softcapped[x] ELSE x) * InvT[i]

\* exp(x - m), in units of 2^-Precision.
Exp(x, m) == 2 ^ (Precision + x - m)

\* _online_logsumexp_and_weighted_update.
OnlineUpdate(a, i, words) ==
  LET xs == {Scaled(i, v) : v \in words}
      m == IF a.s = 0 THEN Max(xs) ELSE Max(xs \cup {a.m})
      Older(sum) == IF a.s = 0 THEN 0 ELSE sum \div 2 ^ (m - a.m)
  IN  [m |-> m,
       s |-> Older(a.s) + MapThenSumSet(LAMBDA v : Exp(Scaled(i, v), m), words),
       t |-> Older(a.t) + MapThenSumSet(LAMBDA v : Exp(Scaled(i, v), m) * Scaled(i, v), words),
       target |-> IF Label(i) \in words THEN Scaled(i, Label(i)) ELSE a.target]

LastWords == vocabStart + VocabChunk >= Vocab
LastChunk == start + ChunkSize >= N

\* To the next chunk of the vocabulary, then of the tokens, then to the next pass.
Advance(following) ==
  /\ vocabStart' = IF LastWords THEN 0 ELSE vocabStart + VocabChunk
  /\ start' = IF ~LastWords THEN start ELSE IF LastChunk THEN 0 ELSE start + ChunkSize
  /\ pass' = IF LastWords /\ LastChunk THEN following ELSE pass

\* _SequenceChunkedLogProbEntropyFn.forward, one product of a chunk of tokens
\* and a chunk of the vocabulary.
Forward ==
  /\ pass = "forward" /\ kind.fused
  /\ LET updated == [i \in DOMAIN acc |-> IF i \in Chunk THEN OnlineUpdate(acc[i], i, VocabRange) ELSE acc[i]]
     IN  /\ out' = IF LastWords THEN [i \in DOMAIN out |-> IF i \in Chunk THEN updated[i] ELSE out[i]] ELSE out
         /\ acc' = IF LastWords THEN [i \in DOMAIN acc |-> Nothing] ELSE updated
  /\ Advance("backward")
  /\ UNCHANGED <<packed, kind, needs, gradHidden, gradWeight>>

\* The derivative of the label's log probability by a logit, times s; the
\* incoming gradient is 1.
GradLogit(i, v) ==
  ((IF v = Label(i) THEN out[i].s ELSE 0) - Exp(Scaled(i, v), out[i].m)) * InvT[i]
    * (IF kind.softcap THEN Slope[Tokens[i].logits[v + 1]] ELSE 1)

\* _SequenceChunkedLogProbEntropyFn.backward; the Gemma head does not ask what
\* autograd needs.
Backward ==
  /\ pass = "backward" /\ kind.fused
  /\ gradHidden' = [i \in DOMAIN gradHidden |-> [v \in Words |->
       gradHidden[i][v] + IF i \in Chunk /\ v \in VocabRange THEN GradLogit(i, v) ELSE 0]]
  /\ gradWeight' = IF kind.softcap \/ "weight" \in needs
                   THEN [v \in Words |-> [i \in DOMAIN gradHidden |->
                          gradWeight[v][i] + IF i \in Chunk /\ v \in VocabRange THEN GradLogit(i, v) ELSE 0]]
                   ELSE gradWeight
  /\ Advance("done")
  /\ UNCHANGED <<packed, kind, needs, acc, out>>

\* selective_log_softmax and compute_entropy over a whole row.
WholeRow(i) == OnlineUpdate(Nothing, i, Words)

\* VanillaOutputLinear returns whole rows of logits (capped for Gemma); train.py
\* scales them and takes log_softmax and entropy, torch the gradient.
Vanilla ==
  /\ pass = "forward" /\ ~kind.fused
  /\ out' = [i \in DOMAIN out |-> WholeRow(i)]
  /\ pass' = "done"
  /\ UNCHANGED <<packed, kind, needs, start, vocabStart, acc, gradHidden, gradWeight>>

Next == Forward \/ Backward \/ Vanilla

-----------------------------------------------------------------------------
\* Whatever the chunks, every token ends with the maximum, the sum and the
\* weighted sum of its whole row, and with the logit of its own label.
RowsExact ==
  pass # "forward" => \A i \in DOMAIN out :
    LET m == Max({Scaled(i, v) : v \in Words})
    IN  out[i] = [m |-> m, s |-> MapThenSumSet(LAMBDA v : Exp(Scaled(i, v), m), Words),
                  t |-> MapThenSumSet(LAMBDA v : Exp(Scaled(i, v), m) * Scaled(i, v), Words),
                  target |-> Scaled(i, Label(i))]

\* The gradient reaches every pair of token and word once: it sums to zero over
\* the vocabulary when nothing is capped, and weights and hidden states agree.
GradientsExact ==
  pass = "done" /\ kind.fused =>
    /\ \A i \in DOMAIN gradHidden : \A v \in Words : gradHidden[i][v] = GradLogit(i, v)
    /\ ~kind.softcap => \A i \in DOMAIN gradHidden : MapThenSumSet(LAMBDA v : gradHidden[i][v], Words) = 0
    /\ "weight" \in needs => \A i \in DOMAIN gradHidden : \A v \in Words : gradWeight[v][i] = gradHidden[i][v]
=============================================================================
