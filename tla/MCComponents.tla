--------------------------- MODULE MCComponents ----------------------------
(***************************************************************************)
(* The components around the scheduling core, checked side by side: the    *)
(* trainer's steps and parallelism, the start of the deployment, and what  *)
(* it reports.  They share no state at this level of detail.  A behaviour  *)
(* moves one of them, the one in focus, and the variables s1, s2, ... are  *)
(* that component's variables, in the order of its declaration: the states *)
(* of the components add up instead of being multiplied.                   *)
(***************************************************************************)
EXTENDS Integers, Sequences, FiniteSets, TLC

CONSTANTS
    DrGrpo,     \* rl_normalization = "dr_grpo"
    None        \* an optional value that is not given

VARIABLES focus, s1, s2, s3, s4, s5, s6, s7, s8, s9, s10, s11, s12, s13, s14, s15, s16, s17, s18

vars == <<focus, s1, s2, s3, s4, s5, s6, s7, s8, s9, s10, s11, s12, s13, s14, s15, s16, s17, s18>>

-----------------------------------------------------------------------------
\* Credit: groups of line-shaped and forked traces, one with errors, one that
\* repeats itself and one of gibberish.
Token(mask, lp, rare, content) == [mask |-> mask, lp |-> lp, rare |-> rare, content |-> content]
Given(content) == Token(FALSE, 0, FALSE, content)
Drawn(lp) == Token(TRUE, lp, FALSE, FALSE)
Node(parent, role, ts) == [parent |-> parent, sampled |-> role = "assistant", role |-> role, tokens |-> ts]
Line(ts) == <<Node(0, "user", <<Given(TRUE)>>), Node(1, "assistant", ts)>>
Fork == <<Node(0, "user", <<Given(TRUE)>>), Node(1, "assistant", <<Given(FALSE), Drawn(-1)>>),
          Node(2, "tool", <<Given(FALSE), Given(TRUE)>>), Node(3, "assistant", <<Drawn(-1)>>),
          Node(2, "tool", <<Given(TRUE)>>), Node(5, "assistant", <<Drawn(-2)>>),
          Node(2, "user", <<Given(TRUE)>>)>>
Trace(ns, reward, error, length) == [nodes |-> ns, reward |-> reward, error |-> error, length |-> length]
Short == Line(<<Drawn(-1)>>)
CreditGroups ==
    {<<Trace(Fork, 2, FALSE, 3), Trace(Short, 0, FALSE, 1), Trace(Short, 2, FALSE, 2)>>,
     <<Trace(Fork, 1, FALSE, 3), Trace(Short, 0, TRUE, 1)>>,
     <<Trace(Short, 0, FALSE, 3), Trace(Fork, 0, FALSE, 1)>>,
     <<Trace(Line(<<Drawn(0), Drawn(0)>>), 2, FALSE, 3),
       Trace(Line(<<Token(TRUE, -9, TRUE, FALSE)>>), 0, FALSE, 1)>>}
Filter(name, enforce) == [name |-> name, enforce |-> enforce]
CreditAlgorithms ==
    [type : {"grpo", "max_rl", "echo", "opd"}, penalty : {0, 1}, roles : {{"tool"}}, scoring : BOOLEAN,
     pre : {<<>>, <<Filter("gibberish", TRUE), Filter("zero", TRUE)>>,
            <<Filter("gibberish", FALSE), Filter("gibberish", TRUE)>>},
     post : {<<>>, <<Filter("repetition", TRUE)>>}]
Teachers == <<"e1", "e2">>

Credit == INSTANCE Credit WITH
    GroupsIn <- CreditGroups, AlgorithmsIn <- CreditAlgorithms, Endpoints <- Teachers, RepeatWindow <- 2,
    Sure <- -1, Unsure <- -5, TeacherFaults <- 1, NotGiven <- None,
    cohort <- s1, algo <- s2, doing <- s3, turn <- s4, sampled <- s5, asked <- s6, nextPoint <- s7,
    served <- s8, advantage <- s9, payload <- s10, faults <- s11

-----------------------------------------------------------------------------
\* MicroBatches: batches of up to three of eight shapes of sample, one batch of
\* many text samples, one without advantages and two with a sample too long
\* whose images have no image_grid_thw.
Text(n) == [mask |-> [i \in 1 .. n |-> i > 1], rl |-> None, ce |-> None, types |-> None, grid |-> None,
            indexed |-> FALSE, kind |-> 0, routed |-> FALSE, advantages |-> TRUE]
Images(before, grid, after, kind) ==
    LET n == before + grid[1] + (IF Len(grid) = 2 THEN grid[2] ELSE 0) IN
    [Text(n + after) EXCEPT !.types = [i \in 1 .. n + after |-> IF i > before /\ i <= n THEN 1 ELSE 0],
                            !.grid = grid, !.indexed = TRUE, !.kind = kind]
Unindexed(sample) == [sample EXCEPT !.indexed = FALSE, !.kind = 3]
SampleShapes ==
    {Text(4), [Text(3) EXCEPT !.rl = <<0, 0, 1>>, !.ce = <<1, 0, 0>>], [Text(4) EXCEPT !.routed = TRUE],
     Images(1, <<3, 4>>, 2, 1), Images(0, <<2>>, 1, 2), Images(0, <<2>>, 1, 1), Images(0, <<8>>, 1, 1),
     Unindexed(Images(1, <<3>>, 1, 3))}
PackedBatches ==
    UNION {[1 .. n -> SampleShapes] : n \in 1 .. 3}
    \cup {<<Text(4), Text(5), Text(4), Text(7), Text(5), Text(5)>>, <<[Text(2) EXCEPT !.advantages = FALSE]>>,
           <<Text(4), Unindexed(Images(1, <<3, 4>>, 2, 3))>>, <<Unindexed(Images(6, <<3>>, 0, 3)), Text(4)>>}

Packing == INSTANCE MicroBatches WITH
    Batches <- PackedBatches, SeqLen <- 7, Workers <- 2, Multiple <- 2, Linear <- 1, Quadratic <- 1, Absent <- None,
    batch <- s1, stage <- s2, samples <- s3, bins <- s4, groups <- s5, heap <- s6, parts <- s7, ranks <- s8

-----------------------------------------------------------------------------
\* TrainStep: two steps over two data parallel and two context parallel ranks.
Micro(seqs, rl, env) == [seqs |-> seqs, rl |-> rl, env |-> env]
Pair == Micro(<< <<"prompt", "action">>, <<"prompt", "action">> >>, FALSE, "math")
Mixed == Micro(<< <<"prompt", "action", "echo">>, <<"prompt", "distill", "distill", "pad", "pad">> >>, TRUE, "code")
Dummy == Micro(<< <<"prompt", "pad">> >>, FALSE, "math")
Echo == Micro(<< <<"prompt", "echo", "pad", "pad">> >>, TRUE, "code")
Long == Micro(<< <<"prompt", "action", "action", "action">> >>, FALSE, "code")
StepLoads ==
    {<<(0 :> <<Pair, Mixed>>) @@ (1 :> <<Long, Dummy>>), (0 :> <<Dummy>>) @@ (1 :> <<Pair>>)>>,
     <<(0 :> <<Dummy, Dummy>>) @@ (1 :> <<Dummy, Echo>>), (0 :> <<Mixed>>) @@ (1 :> <<Pair>>)>>}

Step == INSTANCE TrainStep WITH
    Dp <- 2, Cp <- 2, Loads <- StepLoads, MaxCompletion <- 4,
    load <- s1, trained <- s2, doing <- s3, micro <- s4, local <- s5, scales <- s6, logprobs <- s7, mass <- s8,
    exports <- s9, pending <- s10, stable <- s11, stats <- s12

-----------------------------------------------------------------------------
\* OutputHead: two samples of different temperatures, rows whose maximum moves
\* from chunk to chunk, and a vocabulary that its chunks do not divide.
Row(id, logits) == [id |-> id, logits |-> logits]
HeadBatches ==
    {<<[tokens |-> <<Row(1, <<0, 1, 2, 1, 0>>), Row(4, <<2, 2, 0, -1, 1>>)>>, invT |-> 1],
       [tokens |-> <<Row(0, <<-1, 0, 0, 0, 2>>), Row(2, <<1, -1, -1, 2, 2>>), Row(3, <<0, 0, 0, 0, 0>>)>>, invT |-> 2]>>,
     <<[tokens |-> <<Row(3, <<-1, -1, 2, 0, 1>>)>>, invT |-> 2]>>}
Tanh == [x \in -1 .. 2 |-> IF x = 2 THEN 1 ELSE x]
TanhSlope == [x \in -1 .. 2 |-> IF x = 0 THEN 3 ELSE IF x = 2 THEN 1 ELSE 2]

Output == INSTANCE OutputHead WITH
    HeadInputs <- HeadBatches, ChunkSize <- 2, VocabChunk <- 2, Vocab <- 5, Precision <- 8,
    Softcapped <- Tanh, Slope <- TanhSlope,
    packed <- s1, kind <- s2, needs <- s3, pass <- s4, start <- s5, vocabStart <- s6, acc <- s7, out <- s8,
    gradHidden <- s9, gradWeight <- s10

-----------------------------------------------------------------------------
\* ContextParallel: packings that cut sequences at every place of two ranks.
CpPackings == {<<4>>, <<1, 3>>, <<3, 1, 2>>, <<2, 2>>, <<1, 1, 4>>}
CpShapes == {[q |-> 4, kv |-> 2], [q |-> 4, kv |-> 4], [q |-> 2, kv |-> 1]}

Context == INSTANCE ContextParallel WITH
    GroupSize <- 2, Packings <- CpPackings, Shapes <- CpShapes, Window <- -1, HeadsStride <- 1,
    style <- s1, lengths <- s2, shape <- s3, at <- s4, head <- s5, buffer <- s6, coming <- s7, issued <- s8,
    met <- s9, dkv <- s10, dk <- s11, held <- s12

-----------------------------------------------------------------------------
\* ExpertDispatch: four experts, and two ranks with uneven numbers of tokens, in
\* as many chunks and in one more on one of them.
Rising == [scores |-> [e \in 0 .. 3 |-> e + 1], replay |-> <<0, 3>>]
Falling == [scores |-> [e \in 0 .. 3 |-> 4 - e], replay |-> <<1, 0>>]
Tied == [scores |-> [e \in 0 .. 3 |-> IF e = 2 THEN 0 ELSE 2], replay |-> <<2, 1>>]
ExpertInputs ==
    {(0 :> <<Rising, Falling, Tied>>) @@ (1 :> <<Tied, Falling, Rising, Rising>>),
     (0 :> <<Falling, Rising>>) @@ (1 :> <<Tied>>),
     (0 :> <<Rising>>) @@ (1 :> <<Rising, Rising>>),
     (0 :> <<Tied, Rising, Falling>>) @@ (1 :> <<Falling>>),
     (0 :> <<Rising, Tied, Falling>>) @@ (1 :> <<Tied, Rising, Falling, Falling, Tied>>)}
ExpertBias == [e \in 0 .. 3 |-> IF e = 1 THEN 3 ELSE 0]

Dispatch == INSTANCE ExpertDispatch WITH
    EpSize <- 2, NumExperts <- 4, TopK <- 2, ChunkSize <- 2, AlignSize <- 2, Inputs <- ExpertInputs,
    Bias <- ExpertBias, NGroup <- 2, TopkGroup <- 1, LoraRank <- 2,
    backend <- s1, kernel <- s2, router <- s3, tokens <- s4, chosen <- s5, usage <- s6, sent <- s7, ran <- s8,
    ops <- s9, handles <- s10, partial <- s11, combined <- s12, shards <- s13

Meshes == INSTANCE ParallelDims WITH
    Worlds <- {1, 2, 4, 6, 8, 12}, MaxDegree <- 4, MaxEp <- 8,
    asked <- s1, stage <- s2, ep <- s3, mesh <- s4

-----------------------------------------------------------------------------
\* TrainerRanks: three ranks, two lives of the run and one restart.
Trainer == INSTANCE TrainerRanks WITH
    Ranks <- 0 .. 2, LastStep <- 2, MaxLives <- 2, MaxCrashes <- 1,
    life <- s1, dir <- s2, exported <- s3, view <- s4, known <- s5, received <- s6, store <- s7, carried <- s8,
    late <- s9, resets <- s10, at <- s11, packing <- s12, sendStep <- s13, recvStep <- s14, files <- s15,
    input <- s16, done <- s17, restarts <- s18

\* Checkpoints: saved every second step, the last one and every fourth step kept, and restarts at any moment.
Saves == INSTANCE Checkpoints WITH
    MaxSteps <- 6, Interval <- 2, KeepLast <- 1, KeepInterval <- 4, Offload <- TRUE, Warmup <- 1, Decay <- 3,
    Low <- 0, Full <- 2, MaxRestarts <- 3,
    pc <- s1, progress <- s2, model <- s3, optimizer <- s4, schedule <- s5, disk <- s6, stable <- s7,
    steps <- s8, weights <- s9, weightSteps <- s10, restarted <- s11

\* ModelSetup: two ranks on machines of their own, and configurations that
\* combine adapters, frozen routers, tied embeddings and conversions.
Plain == [custom |-> TRUE, impl |-> "auto", cp |-> FALSE, arch |-> "text", vlm |-> "none", moe |-> TRUE,
          indexer |-> FALSE, knownBuffers |-> TRUE, lora |-> FALSE, targets |-> {}, save |-> {},
          freezeRouter |-> FALSE, ep |-> FALSE, fp32 |-> TRUE, tied |-> FALSE, format |-> "hf", resume |-> FALSE,
          random |-> FALSE, shared |-> TRUE, ac |-> "none", acTargets |-> {}, freq |-> 1, sparse |-> {1},
          sliding |-> {0}]
Lora == [Plain EXCEPT !.lora = TRUE, !.targets = {"attn", "experts"}]
ModelSetups == {
    Plain,
    [Lora EXCEPT !.ep = TRUE, !.indexer = TRUE, !.freezeRouter = TRUE, !.save = {"head"}],
    [Lora EXCEPT !.targets = {"attn", "router", "vision"}, !.freezeRouter = TRUE, !.arch = "vlm",
                 !.ac = "selective", !.acTargets = {"attn_proj", "linear_attn"}],
    [Plain EXCEPT !.ep = TRUE, !.tied = TRUE, !.freezeRouter = TRUE, !.indexer = TRUE, !.resume = TRUE,
                  !.ac = "selective", !.acTargets = {"mlp"}, !.sparse = {0, 1}],
    [Plain EXCEPT !.arch = "vlm", !.vlm = "frozen", !.shared = FALSE],
    [Plain EXCEPT !.custom = FALSE, !.moe = FALSE, !.knownBuffers = FALSE, !.sparse = {}],
    [Plain EXCEPT !.ep = TRUE, !.random = TRUE, !.ac = "full"],
    [Plain EXCEPT !.freezeRouter = TRUE, !.moe = FALSE, !.sparse = {}]}
    \cup {[Lora EXCEPT !.ep = ep, !.targets = {"attn", "router"}, !.save = {"indexer"}, !.indexer = TRUE,
                       !.freezeRouter = TRUE] : ep \in BOOLEAN}
OwnMachine == [r \in 0 .. 1 |-> r]

Setup == INSTANCE ModelSetup WITH
    Ranks <- 0 .. 1, NodeOf <- OwnMachine, Setups <- ModelSetups, Layers <- 2, Files <- {1, 2}, MaxKills <- 1,
    setup <- s1, pc <- s2, trainable <- s3, content <- s4, units <- s5, fetched <- s6, recompute <- s7, path <- s8,
    made <- s9, written <- s10, kills <- s11

ConvertedModels == {"qwen3_moe", "glm4_moe", "afmoe", "laguna", "minimax_m2", "nemotron_h", "qwen3_5_moe", "gpt_oss"}

Conversion == INSTANCE WeightConversion WITH
    Chains <- ConvertedModels, Experts <- 2,
    chain <- s1, fused <- s2, dict <- s3, done <- s4, way <- s5

\* Adapters: two ranks, two runs that fit the trainer and one that does not.
LoraRuns == ("r1" :> [rank |-> 8, scaling |-> 2]) @@ ("r2" :> [rank |-> 8, scaling |-> 4])
            @@ ("r3" :> [rank |-> 16, scaling |-> 2])
LoraTargets == [place : {"attn", "experts", "lm_head"}, dims : {2}] \cup {[place |-> "attn", dims |-> 1]}
TokenCounts == {<<counts, 2>> : counts \in {<<4>>, <<1, 3>>, <<2, 0, 2>>, <<0, 4>>, <<3, 1>>}}

Adapter == INSTANCE Adapters WITH
    Ranks <- 0 .. 1, Runs <- LoraRuns, TrainerRank <- 8, Targets <- LoraTargets,
    Others <- {[place |-> "norm", dims |-> 1]}, Lengths <- {2, 4}, CountInputs <- TokenCounts, Poison <- 1000000,
    MaxChanges <- 4, MaxTrained <- 2, NoOne <- None,
    onDisk <- s1, mine <- s2, lastSynced <- s3, cells <- s4, globals <- s5, layers <- s6, weights <- s7,
    optimized <- s8, at <- s9, seen <- s10, replaced <- s11, justNow <- s12, resumed <- s13, changes <- s14

-----------------------------------------------------------------------------
\* WorkerProcess: two processes on one state directory, started three times.
Worker == INSTANCE WorkerProcess WITH
    Processes <- {"p1", "p2"}, MaxLaunches <- 3, MaxTroubles <- 1, RetryMin <- 1, RetryMax <- 3, BodyLimit <- 3,
    Slack <- 6, Nobody <- None,
    site <- s1, lockedBy <- s2, idFile <- s3, idsMade <- s4, sessionsMade <- s5, worker <- s6, vllm <- s7,
    strays <- s8, known <- s9, launches <- s10, troubles <- s11

\* TokenServing: two requests side by side, two too long and one with a body
\* that cannot be read, with and without limits, and adapters of both layouts for two engine ranks.
Ask(model, prompt, max, body, chat, choices, expert) ==
    [model |-> model, prompt |-> prompt, max |-> max, body |-> body, chat |-> chat, stream |-> FALSE,
     choices |-> choices, expert |-> expert]
ServedRequests ==
    ("q1" :> Ask("base", 2, None, "json", FALSE, 2, 3)) @@ ("q2" :> Ask("adapter", 2, 3, "json", FALSE, 1, 9))
    @@ ("q3" :> Ask("base", 3, None, "broken", TRUE, 1, 9)) @@ ("q4" :> Ask("base", 7, 1, "json", FALSE, 1, 1))
    @@ ("q5" :> Ask("base", 4, None, "json", FALSE, 1, 1))
LoraKey(kind, expert, suffix, qualified) == [kind |-> kind, expert |-> expert, suffix |-> suffix, qualified |-> qualified]
AdapterFiles ==
    {[format |-> "safetensors", keys |-> {LoraKey("expert", 0, "w1", "experts.w1"), LoraKey("expert", 1, "w1", "experts.w1"),
                                          LoraKey("plain", 0, "q_proj", "q_proj")}],
     [format |-> "bin", keys |-> {LoraKey("expert", 0, "down", "experts.down"), LoraKey("base_layer", 0, "x", "x")}],
     [format |-> "safetensors", keys |-> {LoraKey("plain", 0, "other", "other")}],
     [format |-> "none", keys |-> {LoraKey("plain", 0, "q_proj", "q_proj")}]}

Tokens == INSTANCE TokenServing WITH
    Requests <- ServedRequests, MaxModelLen <- 4, Override <- None, Default <- 1,
    Narrow <- 4, CaptureSizes <- {2, 6}, Files <- AdapterFiles, Expected <- {"q_proj", "w1", "experts.down"},
    EpRanks <- 0 .. 1, RemoteTo <- (0 :> {1}) @@ (1 :> {0}), NotSet <- None,
    state <- s1, limit <- s2, made <- s3, ended <- s4, captured <- s5, final <- s6, response <- s7, inputs <- s8,
    replayed <- s9, loaded <- s10, dead <- s11

\* PolicyFiles: adapters of stacked experts, of one module per expert and of
\* plain modules, with right and wrong shapes and missing halves.
Prefix(root, kind, expert) == [root |-> root, kind |-> kind, expert |-> expert]
Factors(a, b, c, d) == [f \in {"A", "B"} |-> IF f = "A" THEN <<a, b>> ELSE <<c, d>>]
Stacked ==
    {(Prefix("m", "base_layer", 0) :> Factors(r1, h, g, 4)) @@ (Prefix("m", "experts", 0) :> Factors(r2, n, 2, r1)) :
        r1 \in {2, 3, 4}, r2 \in {2, 4}, h \in {2, 3}, g \in {2, 4, 6}, n \in {1, 2}}
    \cup {Prefix("m", "experts", 0) :> Factors(2, 1, 2, 2)}
PerExpert ==
    {[p \in {Prefix("m", k, i) : k \in kinds, i \in ids} |->
        CASE p.kind = "down_proj" -> Factors(2, n, 2, 2)
          [] p.kind = "gate_proj" -> Factors(2, 2, g, 2)
          [] OTHER -> Factors(2, 2, IF p.expert = 1 THEN u ELSE 3, 2)] :
        kinds \in {{"up_proj"}, {"up_proj", "down_proj"}, {"gate_proj", "up_proj", "down_proj"},
                   {"gate_proj", "down_proj"}},
        ids \in {{0}, {0, 1}, {0, 2}, {1}}, n \in {2, 3}, g \in {2, 3}, u \in {1, 3}}
    \cup {(Prefix("m", "up_proj", 0) :> Factors(2, 2, 3, 2)) @@ (Prefix("m", "down_proj", 0) :> Factors(2, 3, 2, 2))
          @@ (Prefix("m", "up_proj", 1) :> Factors(2, 2, 3, 2))}
Modules ==
    {Prefix("q", "q_proj", 0) :> x :
        x \in {Factors(2, 3, 3, 2), Factors(3, 3, 3, 3), Factors(2, 3, 3, 3), [f \in {"A"} |-> <<2, 3>>]}}
    \cup {<<>>}
PublishedAdapters == Stacked \cup PerExpert \cup Modules

Policies == INSTANCE PolicyFiles WITH
    Adapters <- PublishedAdapters, Rank <- 2, Size <- 2, MaxDamage <- 2, MaxRequests <- 2,
    adapter <- s1, published <- s2, disk <- s3, verified <- s4, checking <- s5, integrity <- s6, request <- s7,
    offset <- s8, part <- s9, damaged <- s10, damages <- s11, requests <- s12

\* CoordinatorStart: two processes; configurations that add, change and drop
\* sources, one of them with an id that contains the group key's separator.
Source(id, seed, limit, infinite) ==
    [id |-> id, kind |-> "train", algorithm |-> "grpo", maxTokens |-> 8, turns |-> 1, advertised |-> "env",
     resolved |-> "env", tasks |-> <<"t1", "t2">>, seed |-> seed, limit |-> limit, infinite |-> infinite,
     stride |-> IF seed = None THEN 2 ELSE 1, enabled |-> TRUE, hot |-> TRUE]
TrainerConfig == [model |-> "m", safetensors |-> TRUE, interval |-> 1, weightsOnly |-> FALSE, prunes |-> FALSE,
                  resume |-> None, restoresAll |-> TRUE, drGrpo |-> 8]
RunConfig(sources) == [run |-> "run", model |-> "m", trainer |-> TrainerConfig, sources |-> sources]
SourceA == Source(<<"a">>, None, None, FALSE)
SourceAB == Source(<<"a", "occurrence", "b">>, 1, None, FALSE)
SourceC == Source(<<"c">>, None, 2, TRUE)
FirstConfig == RunConfig(<<SourceA, SourceAB>>)
RunConfigs ==
    {FirstConfig, RunConfig(<<SourceC, SourceA>>), RunConfig(<<SourceC, [SourceAB EXCEPT !.seed = None]>>),
     [RunConfig(<<SourceA>>) EXCEPT !.trainer.interval = 2], [RunConfig(<<SourceA>>) EXCEPT !.run = "other"],
     RunConfig(<<[SourceA EXCEPT !.turns = 2]>>), RunConfig(<<[SourceC EXCEPT !.limit = None]>>)}

Start == INSTANCE CoordinatorStart WITH
    Coordinators <- {"c1", "c2"}, Configs <- RunConfigs, OldConfig <- FirstConfig, SchemaVersion <- 5,
    FirstVersions <- {0, 4, 6}, Digests <- {"d1"}, StartLimit <- 3, CreateLimit <- 5, Free <- None,
    owner <- s1, schema <- s2, runRow <- s3, table <- s4, created <- s5, proc <- s6, incoming <- s7, results <- s8,
    rows <- s9, put <- s10, starts <- s11

-----------------------------------------------------------------------------
\* Monitors: one to three back ends, one of which may be broken.
MonitorSetups ==
    [wandb : {TRUE}, prime : {TRUE}, file : {TRUE}, rank : {0}, interval : {2}, broken : {{}, {"wandb"}},
     samples : {3}, ratio : {5}, without : {0, 1}]
    \cup [wandb : {TRUE}, prime : {FALSE}, file : {TRUE}, rank : {0, 1}, interval : {1}, broken : {{"file"}},
          samples : {1}, ratio : {10}, without : {0}]
    \cup [wandb : {FALSE}, prime : {TRUE}, file : {FALSE}, rank : {0}, interval : {1}, broken : {{}},
          samples : {1, 3}, ratio : {-1, 0, 5, 10}, without : {0}]

Monitors == INSTANCE Monitors WITH
    Reports <- MonitorSetups, LastLogged <- 2, MaxRetries <- 2, MaxOutages <- 1,
    reportOn <- s1, mon <- s2, history <- s3, jobs <- s4, platform <- s5, chart <- s6, lines <- s7, outages <- s8

\* Reports: a training and an evaluation group, artifacts with several traces
\* or none, and a metrics file written by a trainer that crashes.
Scored(ok, reward) == [ok |-> ok, reward |-> reward, tokens |-> 2]
Job(group, kind, worker, version, traces) ==
    [group |-> group, kind |-> kind, worker |-> worker, version |-> version, traces |-> traces]
ReportScenarios == {
    [jobs |-> <<Job(1, "train", "w1", 0, <<Scored(TRUE, 0)>>), Job(2, "eval", "w1", 0, <<Scored(TRUE, 1)>>),
                Job(2, "eval", "w2", 0, <<Scored(FALSE, None)>>)>>, steps |-> 0, faults |-> 0],
    [jobs |-> <<Job(1, "train", "w1", 0, <<Scored(TRUE, 3), Scored(TRUE, 1)>>), Job(1, "train", "w2", 0, <<>>),
                Job(2, "train", "w1", 1, <<Scored(TRUE, 2)>>)>>, steps |-> 0, faults |-> 1],
    [jobs |-> <<>>, steps |-> 3, faults |-> 2]}

Pages == INSTANCE Reports WITH
    Scenarios <- ReportScenarios, GroupSize <- 2, MaxResults <- 3, BucketSize <- 2, WindowLengths <- {1, 3},
    NoValue <- None,
    run <- s1, bound <- s2, ended <- s3, damaged <- s4, queued <- s5, batched <- s6, metrics <- s7, half <- s8,
    logStep <- s9, trouble <- s10, page <- s11, logged <- s12

GaugeFamilies == <<"step", "ready">>

Telemetry == INSTANCE Telemetry WITH
    RunNames <- {"r1", "r2"}, Families <- GaugeFamilies, StepLimit <- 2, PostRetries <- 2, PostFailures <- 2,
    phase <- s1, stepNo <- s2, inUse <- s3, gauges <- s4, knownRuns <- s5, writes <- s6, scrape <- s7,
    beatPending <- s8, beats <- s9, reported <- s10, posts <- s11, billed <- s12, failures <- s13

\* Dashboards: a primary and a secondary process of one run, two runs alone.
Envs(train, eval) == [train |-> train, eval |-> eval]
RunMembers ==
    {[run |-> 1, primary |-> TRUE, shared |-> TRUE, envs |-> Envs({"a", "b"}, {"a"})],
     [run |-> 1, primary |-> FALSE, shared |-> TRUE, envs |-> Envs({}, {})],
     [run |-> 2, primary |-> FALSE, shared |-> FALSE, envs |-> Envs({"a", "b"}, {"a"})],
     [run |-> 3, primary |-> FALSE, shared |-> FALSE, envs |-> Envs({}, {})]}
JoinPatience == [primary |-> 2, other |-> 3]

Dashboards == INSTANCE Dashboards WITH
    Members <- RunMembers, Patience <- JoinPatience, ServerErrors <- 2, MaxDeleted <- 1,
    joining <- s1, tried <- s2, excused <- s3, inUseLocally <- s4, runsThere <- s5, views <- s6, listed <- s7,
    errs <- s8, removed <- s9, raced <- s10

-----------------------------------------------------------------------------
ASSUME /\ Trainer!RanksAssumption /\ Credit!CreditAssumption /\ Output!HeadAssumption /\ Adapter!AdapterAssumption
       /\ Tokens!ServingAssumption /\ Setup!SetupAssumption /\ Conversion!ConversionAssumption
       /\ Meshes!DimsAssumption /\ Worker!WorkerAssumption /\ Policies!FilesAssumption
       /\ Start!StartAssumption /\ Monitors!MonitorAssumption /\ Pages!ReportAssumption
       /\ Telemetry!TelemetryAssumption /\ Dashboards!DashboardAssumption

\* The variables that a component with n variables leaves alone.
After4 == <<s5, s6, s7, s8, s9, s10, s11, s12, s13, s14, s15, s16, s17, s18>>
After5 == <<s6, s7, s8, s9, s10, s11, s12, s13, s14, s15, s16, s17, s18>>
After8 == <<s9, s10, s11, s12, s13, s14, s15, s16, s17, s18>>
After10 == <<s11, s12, s13, s14, s15, s16, s17, s18>>
After11 == <<s12, s13, s14, s15, s16, s17, s18>>
After12 == <<s13, s14, s15, s16, s17, s18>>
After13 == <<s14, s15, s16, s17, s18>>
After14 == <<s15, s16, s17, s18>>

Init ==
    \/ focus = "credit" /\ Credit!Init
      /\ s12 = None /\ s13 = None /\ s14 = None /\ s15 = None /\ s16 = None /\ s17 = None /\ s18 = None
    \/ focus = "packing" /\ Packing!Init
      /\ s9 = None /\ s10 = None /\ s11 = None /\ s12 = None /\ s13 = None /\ s14 = None /\ s15 = None
      /\ s16 = None /\ s17 = None /\ s18 = None
    \/ focus = "step" /\ Step!Init
      /\ s13 = None /\ s14 = None /\ s15 = None /\ s16 = None /\ s17 = None /\ s18 = None
    \/ focus = "head" /\ Output!Init
      /\ s11 = None /\ s12 = None /\ s13 = None /\ s14 = None /\ s15 = None /\ s16 = None /\ s17 = None /\ s18 = None
    \/ focus = "context" /\ Context!Init
      /\ s13 = None /\ s14 = None /\ s15 = None /\ s16 = None /\ s17 = None /\ s18 = None
    \/ focus = "dispatch" /\ Dispatch!Init
      /\ s14 = None /\ s15 = None /\ s16 = None /\ s17 = None /\ s18 = None
    \/ focus = "meshes" /\ Meshes!Init
      /\ s5 = None /\ s6 = None /\ s7 = None /\ s8 = None /\ s9 = None /\ s10 = None /\ s11 = None
      /\ s12 = None /\ s13 = None /\ s14 = None /\ s15 = None /\ s16 = None /\ s17 = None /\ s18 = None
    \/ focus = "trainer" /\ Trainer!Init
    \/ focus = "saves" /\ Saves!Init
      /\ s12 = None /\ s13 = None /\ s14 = None /\ s15 = None /\ s16 = None /\ s17 = None /\ s18 = None
    \/ focus = "setup" /\ Setup!Init
      /\ s12 = None /\ s13 = None /\ s14 = None /\ s15 = None /\ s16 = None /\ s17 = None /\ s18 = None
    \/ focus = "conversion" /\ Conversion!Init
      /\ s6 = None /\ s7 = None /\ s8 = None /\ s9 = None /\ s10 = None /\ s11 = None /\ s12 = None
      /\ s13 = None /\ s14 = None /\ s15 = None /\ s16 = None /\ s17 = None /\ s18 = None
    \/ focus = "adapter" /\ Adapter!Init
      /\ s15 = None /\ s16 = None /\ s17 = None /\ s18 = None
    \/ focus = "worker" /\ Worker!Init
      /\ s12 = None /\ s13 = None /\ s14 = None /\ s15 = None /\ s16 = None /\ s17 = None /\ s18 = None
    \/ focus = "tokens" /\ Tokens!Init
      /\ s12 = None /\ s13 = None /\ s14 = None /\ s15 = None /\ s16 = None /\ s17 = None /\ s18 = None
    \/ focus = "policies" /\ Policies!Init
      /\ s13 = None /\ s14 = None /\ s15 = None /\ s16 = None /\ s17 = None /\ s18 = None
    \/ focus = "start" /\ Start!Init
      /\ s12 = None /\ s13 = None /\ s14 = None /\ s15 = None /\ s16 = None /\ s17 = None /\ s18 = None
    \/ focus = "monitors" /\ Monitors!Init
      /\ s9 = None /\ s10 = None /\ s11 = None /\ s12 = None /\ s13 = None /\ s14 = None /\ s15 = None
      /\ s16 = None /\ s17 = None /\ s18 = None
    \/ focus = "pages" /\ Pages!Init
      /\ s13 = None /\ s14 = None /\ s15 = None /\ s16 = None /\ s17 = None /\ s18 = None
    \/ focus = "telemetry" /\ Telemetry!Init
      /\ s14 = None /\ s15 = None /\ s16 = None /\ s17 = None /\ s18 = None
    \/ focus = "dashboards" /\ Dashboards!Init
      /\ s11 = None /\ s12 = None /\ s13 = None /\ s14 = None /\ s15 = None /\ s16 = None /\ s17 = None /\ s18 = None

CreditNext == focus = "credit" /\ Credit!Next /\ UNCHANGED <<focus, After11>>
PackingNext == focus = "packing" /\ Packing!Next /\ UNCHANGED <<focus, After8>>
StepNext == focus = "step" /\ Step!Next /\ UNCHANGED <<focus, After12>>
HeadNext == focus = "head" /\ Output!Next /\ UNCHANGED <<focus, After10>>
ContextNext == focus = "context" /\ Context!Next /\ UNCHANGED <<focus, After12>>
DispatchNext == focus = "dispatch" /\ Dispatch!Next /\ UNCHANGED <<focus, After13>>
MeshesNext == focus = "meshes" /\ Meshes!Next /\ UNCHANGED <<focus, After4>>
TrainerNext == focus = "trainer" /\ Trainer!Next /\ UNCHANGED focus
SavesNext == focus = "saves" /\ Saves!Next /\ UNCHANGED <<focus, After11>>
SetupNext == focus = "setup" /\ Setup!Next /\ UNCHANGED <<focus, After11>>
ConversionNext == focus = "conversion" /\ Conversion!Next /\ UNCHANGED <<focus, After5>>
AdapterNext == focus = "adapter" /\ Adapter!Next /\ UNCHANGED <<focus, After14>>
WorkerNext == focus = "worker" /\ Worker!Next /\ UNCHANGED <<focus, After11>>
TokensNext == focus = "tokens" /\ Tokens!Next /\ UNCHANGED <<focus, After11>>
PoliciesNext == focus = "policies" /\ Policies!Next /\ UNCHANGED <<focus, After12>>
StartNext == focus = "start" /\ Start!Next /\ UNCHANGED <<focus, After11>>
MonitorsNext == focus = "monitors" /\ Monitors!Next /\ UNCHANGED <<focus, After8>>
PagesNext == focus = "pages" /\ Pages!Next /\ UNCHANGED <<focus, After12>>
TelemetryNext == focus = "telemetry" /\ Telemetry!Next /\ UNCHANGED <<focus, After13>>
DashboardsNext == focus = "dashboards" /\ Dashboards!Next /\ UNCHANGED <<focus, After10>>

Next ==
    \/ CreditNext \/ PackingNext \/ StepNext \/ HeadNext \/ ContextNext
    \/ DispatchNext \/ MeshesNext \/ TrainerNext \/ SavesNext
    \/ SetupNext \/ ConversionNext \/ AdapterNext \/ WorkerNext \/ TokensNext \/ PoliciesNext
    \/ StartNext \/ MonitorsNext \/ PagesNext \/ TelemetryNext
    \/ DashboardsNext

Spec == Init /\ [][Next]_vars

\* The ranks of the trainer alone.
RanksSpec == Init /\ focus = "trainer" /\ [][TrainerNext]_vars

\* Training steps alone.
StepSpec == Init /\ focus = "step" /\ [][StepNext]_vars

-----------------------------------------------------------------------------
\* Every sampled token is trained exactly once with its own group's credit:
\* from the traces of a group (streams aligned, filters honoured, advantages
\* balanced), through the micro batches (no token lost or repeated, images
\* whole, the ranks in step), to the gradient of the step (each token with its
\* own logprob and the right denominator).
TokensTrainedExactly ==
    /\ focus = "credit" =>
        Credit!TrainedOnce /\ Credit!StreamsAligned /\ Credit!CreditBalanced /\ Credit!FiltersHonest
    /\ focus = "packing" =>
        Packing!RanksInStep /\ Packing!TokensTrainedOnce /\ Packing!ImagesWhole /\ Packing!ArraysAligned
    /\ focus = "step" =>
        Step!TypeOK /\ Step!GradientExact /\ Step!LogprobsAligned /\ Step!StableExportsComplete /\ Step!StatsExact
    /\ focus = "head" => Output!RowsExact /\ Output!GradientsExact

\* Splitting a model over ranks changes nothing: attention over a sequence cut
\* between ranks and experts on other ranks compute what one rank would,
\* collectives meet their partners (DeepEP's where ranks hold equally many
\* chunks, and nowhere else), and the meshes partition the world.
ParallelismExact ==
    /\ focus = "context" =>
        /\ Context!AttentionExact /\ Context!KeyGradientsExact
        /\ Context!GathersOrdered /\ Context!ChannelsMatched
    /\ focus = "dispatch" => Dispatch!RoutedExact /\ Dispatch!ExchangesPaired /\ Dispatch!AdapterExportExact
    /\ focus = "meshes" => Meshes!MeshesSound /\ Meshes!AutoEpAccepted

\* The trainer starts from the weights it was given and continues from where
\* it stopped: ranks agree on runs and steps, nothing uninitialised or half
\* converted is trained, and a restart finds model, optimizer, schedule and
\* step of one moment.
TrainerConsistent ==
    /\ focus = "trainer" => Trainer!RanksTogether
    /\ focus = "saves" =>
        /\ Saves!StateConsistent /\ Saves!OffloadKept /\ Saves!RateReachesMinimum
        /\ Saves!ResumePointKept /\ Saves!RetentionExact
    /\ focus = "setup" =>
        /\ Setup!NothingUninitialised /\ Setup!ConversionSeenWhole /\ Setup!TrainableExact
        /\ Setup!PrefetchOrdered /\ Setup!RecomputeHonoured
    /\ focus = "conversion" => Conversion!ConvertedExact /\ Conversion!ExportedExact
    /\ focus = "adapter" =>
        Adapter!LayersSeeRun /\ Adapter!AdapterWhole /\ Adapter!CountsExact /\ Adapter!KeysRoundTrip

\* One coordinator and one worker own their directories, schema and sources
\* survive upgrades and changes of the configuration, and only whole, verified
\* adapters are handed out.
DeploymentSound ==
    /\ focus = "worker" => Worker!OneWorkerPerState /\ Worker!EndsForCause /\ Worker!ServerOwned
    /\ focus = "tokens" =>
        Tokens!LimitsHonest /\ Tokens!ResponsesOwn /\ Tokens!TailClean /\ Tokens!LoadedWhole
    /\ focus = "policies" =>
        /\ Policies!AdaptersWhole /\ Policies!RangesExact /\ Policies!DownloadExact /\ Policies!GateHonest
    /\ focus = "start" =>
        /\ Start!OneOwner /\ Start!BackfillExact /\ Start!RowsBacked
        /\ Start!TasksStable /\ Start!LateSourcesFair

\* What is shown is what happened: statuses, histories, pages, gauges and
\* usage records agree with the run although back ends fail, files are torn
\* and readers look in the middle of a write.
ReportsTruthful ==
    /\ focus = "monitors" =>
        /\ Monitors!StatusHonest /\ Monitors!HistoryComplete
        /\ Monitors!BackEndsIndependent /\ Monitors!UploadsWhole
    /\ focus = "pages" =>
        /\ Pages!PageOrdered /\ Pages!PageComplete /\ Pages!SummariesSound
        /\ Pages!StepsShown /\ Pages!EvalCounts
    /\ focus = "telemetry" =>
        /\ Telemetry!ScrapeTruthful /\ Telemetry!RemovesPresent /\ Telemetry!BeatsFlow /\ Telemetry!UsageKept
    /\ focus = "dashboards" => Dashboards!JoinFair /\ Dashboards!OverviewsUnique

\* Dr. GRPO: a response's loss is divided by the fixed maximum completion
\* length, as the setting's description promises.
DenominatorPerResponse == focus = "step" => Step!DenominatorPerResponse

\* Synchronisation keeps the ranks in step: "All ranks then execute hooks and
\* parameter resets together" (synchronize_state).
RanksInSync == focus = "trainer" => Trainer!HooksTogether
=============================================================================
