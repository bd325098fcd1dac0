---------------------------- MODULE TokenServing ----------------------------
(***************************************************************************)
(* What the project adds to the vLLM server of a worker: the handler of    *)
(* /inference/v1/generate with its limits, usage and routed experts, the   *)
(* stripped chat path, the scrubbing of padded inputs, and the loading of  *)
(* adapters by expert parallel engine ranks.  The engine is external: in a *)
(* step it advances some of the running requests by a token per choice.    *)
(***************************************************************************)
EXTENDS Integers, Sequences, FiniteSets, FiniteSetsExt, SequencesExt

CONSTANTS
  Requests,     \* id -> [model, prompt, max, body, chat, stream, choices, expert]
  MaxModelLen,
  Override,     \* override_generation_config, NotSet if there is none
  Default,      \* max_tokens of SamplingParams when the client gives none
  Narrow,       \* largest expert that one byte holds
  CaptureSizes, \* batch sizes CUDA graphs are captured for
  Files,        \* adapters: [keys, format], a key [kind, expert, suffix, qualified]
  Expected,     \* expected_lora_modules
  EpRanks, RemoteTo,  \* engine ranks, and the experts that are remote to one
  NotSet

VARIABLES
  state,      \* request -> "new", "running", "done" or the error it got
  limit,      \* request -> sampling_params.max_tokens
  made,       \* request -> choice -> tokens generated
  ended,      \* request -> choices that have stopped
  captured,   \* request -> choice -> encoded experts, of its own capture
  final,      \* request -> last RequestOutput of its own capture
  response,   \* request -> response
  inputs,     \* the engine's input buffer: the owner of a slot, NotSet when zero
  replayed,   \* slots the last graph read, and the requests it was scheduled for
  loaded,     \* the adapter to load, and per engine rank its keys, NotSet before
  dead

servingTokensVars == <<state, limit, made, ended, captured, final, response, inputs, replayed, loaded, dead>>

Ids == DOMAIN Requests
ChoicesOf(q) == 1 .. Requests[q].choices

ServingAssumption == Max(CaptureSizes) >= MapThenSumSet(LAMBDA q : Requests[q].choices, Ids)

Init ==
  /\ state = [q \in Ids |-> "new"] /\ limit = [q \in Ids |-> NotSet]
  /\ made = [q \in Ids |-> [c \in ChoicesOf(q) |-> 0]] /\ ended = [q \in Ids |-> {}]
  /\ captured = [q \in Ids |-> [c \in {} |-> NotSet]] /\ final = [q \in Ids |-> NotSet]
  /\ response = [q \in Ids |-> NotSet]
  /\ inputs = [i \in 1 .. Max(CaptureSizes) |-> NotSet]
  /\ replayed = [slots |-> {}, scheduled |-> {}]
  /\ loaded \in [file : Files, ranks : {NotSet}] /\ dead = FALSE

\* _client_set_max_tokens: what cannot be read counts as set.
ClientSetMaxTokens(r) == r.body # "json" \/ r.max # NotSet

\* vLLM's get_max_tokens: the tightest of the limits that exist.
GetMaxTokens(r) ==
  Min({MaxModelLen - r.prompt} \cup (IF Override = NotSet THEN {} ELSE {Override}))

MaxTokens(r) ==
  IF ~ClientSetMaxTokens(r) THEN GetMaxTokens(r) ELSE IF r.max = NotSet THEN Default ELSE r.max

\* An adapter is a model of the server once it is loaded.
Served == {"base"} \cup (IF loaded.ranks = NotSet \/ \A r \in EpRanks : loaded.ranks[r] = {} THEN {} ELSE {"adapter"})

\* serve_tokens up to the engine: model, dead engine, length of the prompt.  A
\* prompt that fills the model passes the patched check; its limit comes out as
\* 0, and the engine, which wants room for a token, refuses it.
ServeTokens(q) ==
  /\ state[q] = "new"
  /\ LET r == Requests[q] IN
     IF r.model \notin Served THEN state' = [state EXCEPT ![q] = "no model"] /\ UNCHANGED limit
     ELSE IF dead THEN state' = [state EXCEPT ![q] = "dead"] /\ UNCHANGED limit
     ELSE IF r.prompt > MaxModelLen THEN state' = [state EXCEPT ![q] = "too long"] /\ UNCHANGED limit
     ELSE /\ state' = [state EXCEPT ![q] = IF r.prompt = MaxModelLen THEN "too long" ELSE "running"]
          /\ limit' = [limit EXCEPT ![q] = MaxTokens(r)]
  /\ UNCHANGED <<made, ended, captured, final, response, inputs, replayed, loaded, dead>>

\* The engine's batch: a row for every choice that is still generating.
Rows(S) == UNION {{<<q, c>> : c \in ChoicesOf(q) \ ended[q]} : q \in S}
Padded(n) == Min({size \in CaptureSizes : size >= n})

\* _preprocess of the model runner and _zero_padded_model_inputs behind it.
Filled(rows) ==
  [i \in DOMAIN inputs |-> IF i <= Len(rows) THEN rows[i]
                           ELSE IF i <= Padded(Len(rows)) THEN NotSet ELSE inputs[i]]

\* serialize_routed_experts: an index that needs two bytes widens the payload.
Serialized(q, c, tokens) ==
  [of |-> <<q, c>>, length |-> tokens,
   dtype |-> IF tokens > 0 /\ Requests[q].expert > Narrow THEN "uint16" ELSE "uint8"]

\* A step of the engine for the requests S.  The choices in stop end now, by
\* a stop token or at a limit; every request of S yields a RequestOutput, which
\* passes through its captures (the chat path drops the experts first).
EngineStep(S, stop) ==
  /\ ~dead /\ S # {} /\ \A q \in S : state[q] = "running" /\ Rows({q}) # {}
  /\ LET rows == Rows(S)
         now == [q \in Ids |-> [c \in ChoicesOf(q) |-> made[q][c] + IF <<q, c>> \in rows THEN 1 ELSE 0]]
         full == {p \in rows : now[p[1]][p[2]] >= Min({limit[p[1]], MaxModelLen - Requests[p[1]].prompt})}
         over == [q \in Ids |-> ended[q] \cup {c \in ChoicesOf(q) : <<q, c>> \in full \cup (stop \cap rows)}]
     IN  /\ made' = now /\ ended' = over
         /\ inputs' = Filled(SetToSeq(rows))
         /\ replayed' = [slots |-> {Filled(SetToSeq(rows))[i] : i \in 1 .. Padded(Cardinality(rows))},
                         scheduled |-> rows]
         /\ final' = [q \in Ids |-> IF q \in S THEN [prompt |-> Requests[q].prompt, tokens |-> now[q]] ELSE final[q]]
         /\ captured' = [q \in Ids |->
              IF q \notin S \/ Requests[q].chat \/ Requests[q].stream THEN captured[q]
              ELSE [c \in over[q] |-> IF c \in DOMAIN captured[q] THEN captured[q][c] ELSE Serialized(q, c, now[q][c])]]
  /\ UNCHANGED <<state, limit, response, loaded, dead>>

\* _build_usage.
Usage(output) ==
  LET completion == MapThenSumSet(LAMBDA c : output.tokens[c], DOMAIN output.tokens)
  IN  [prompt |-> output.prompt, completion |-> completion, total |-> output.prompt + completion]

\* serve_tokens_full_generator after the last output; streams are upstream's.
Respond(q) ==
  /\ state[q] = "running" /\ ended[q] = ChoicesOf(q) /\ ~dead
  /\ state' = [state EXCEPT ![q] = "done"]
  /\ response' = [response EXCEPT ![q] =
       [choices |-> [c \in ChoicesOf(q) |-> IF c \in DOMAIN captured[q] THEN captured[q][c] ELSE NotSet],
        usage |-> IF Requests[q].chat \/ Requests[q].stream THEN NotSet ELSE Usage(final[q])]]
  /\ UNCHANGED <<limit, made, ended, captured, final, inputs, replayed, loaded, dead>>

\* The engine dies: running requests fail, later ones are told so.
EngineDies ==
  /\ ~dead /\ dead' = TRUE
  /\ state' = [q \in Ids |-> IF state[q] = "running" THEN "dead" ELSE state[q]]
  /\ UNCHANGED <<limit, made, ended, captured, final, response, inputs, replayed, loaded>>

\* check_unexpected_modules: an expert's module may be named by its suffix or
\* in full.
Unexpected(keys) ==
  {k \in keys : /\ k.kind \notin {"embedding", "base_layer", "skipped"}
                /\ k.suffix \notin Expected
                /\ k.kind = "expert" => k.qualified \notin Expected}

\* from_local_checkpoint on every engine rank: an adapter with an unexpected
\* module is refused, remote experts are left out.
LoadAdapter ==
  /\ loaded.ranks = NotSet /\ ~dead
  /\ LET f == loaded.file IN
     loaded' = [loaded EXCEPT !.ranks =
       IF f.format = "none" \/ Unexpected(f.keys) # {} THEN [r \in EpRanks |-> {}]
       ELSE [r \in EpRanks |-> {k \in f.keys : k.kind = "expert" => k.expert \notin RemoteTo[r]}]]
  /\ UNCHANGED <<state, limit, made, ended, captured, final, response, inputs, replayed, dead>>

Next ==
  \/ \E q \in Ids : ServeTokens(q) \/ Respond(q)
  \/ \E S \in SUBSET Ids : \E stop \in {{}} \cup {{p} : p \in Rows(S)} : EngineStep(S, stop)
  \/ EngineDies \/ LoadAdapter

-----------------------------------------------------------------------------
\* A limit the client set is never replaced, one it left out never becomes the
\* sampling default of a few tokens, and no request outgrows the model.
LimitsHonest ==
  \A q \in Ids : limit[q] # NotSet =>
    LET r == Requests[q] IN
    /\ r.max # NotSet => limit[q] = r.max
    /\ r.max = NotSet /\ r.body = "json" =>
         r.prompt + limit[q] <= MaxModelLen /\ (Override = NotSet => limit[q] = MaxModelLen - r.prompt)
    /\ \A c \in ChoicesOf(q) : made[q][c] <= limit[q] /\ r.prompt + made[q][c] <= MaxModelLen

\* Requests that run together get their own experts, choice by choice, in a
\* width that holds them, and are billed for their own tokens; chat gets none.
ResponsesOwn ==
  \A q \in Ids : response[q] # NotSet =>
    LET r == Requests[q] IN
    IF r.chat \/ r.stream THEN \A c \in ChoicesOf(q) : response[q].choices[c] = NotSet
    ELSE /\ \A c \in ChoicesOf(q) :
              LET x == response[q].choices[c] IN
              x.of = <<q, c>> /\ x.length = made[q][c] /\ (r.expert > Narrow => x.dtype = "uint16")
         /\ response[q].usage.total = r.prompt + MapThenSumSet(LAMBDA c : made[q][c], ChoicesOf(q))

\* A replayed graph reads nothing an earlier batch has left in the buffer.
TailClean == replayed.slots \subseteq replayed.scheduled \cup {NotSet}

\* An accepted adapter is loaded whole by the engine ranks together, each expert
\* by the rank that owns it; a refused one by none.
LoadedWhole ==
  loaded.ranks # NotSet =>
    LET all == UNION {loaded.ranks[r] : r \in EpRanks} IN
    \/ all = {} /\ (loaded.file.format = "none" \/ \E k \in loaded.file.keys : k.suffix \notin Expected)
    \/ /\ all = loaded.file.keys
       /\ \A r \in EpRanks : \A k \in loaded.ranks[r] : k.kind = "expert" => k.expert \notin RemoteTo[r]
       /\ \A k \in all : k.kind = "plain" => k.suffix \in Expected
=============================================================================
