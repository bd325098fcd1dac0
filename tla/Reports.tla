------------------------------- MODULE Reports -------------------------------
(***************************************************************************)
(* The two read-only reports on a run: the HTML monitor, which reads the   *)
(* trainer's metrics file, the coordinator's database (one SELECT at a     *)
(* time, no transaction around them) and the result artifacts while all of *)
(* them change, and the evaluation report, which watches the processed     *)
(* groups and logs what changed.                                           *)
(***************************************************************************)
EXTENDS Integers, FiniteSets, FiniteSetsExt, Sequences, SequencesExt

CONSTANTS
  Scenarios,     \* [jobs, steps, faults]: assignments [group, kind, worker, version, traces],
                 \* steps the trainer logs, trainer crashes and unreadable artifacts
  GroupSize,     \* assignments of a group
  MaxResults,    \* --max-results
  BucketSize,    \* rollouts of a chart point (16)
  WindowLengths, \* WINDOWS_SECONDS, in completions
  NoValue        \* None

ReportAssumption == GroupSize \in Nat \ {0} /\ MaxResults \in Nat \ {0} /\ BucketSize \in Nat \ {0}

VARIABLES
  run,        \* assignment i is run[i]
  bound,      \* steps and faults of the scenario
  ended,      \* assignments with outcome "result", in order of completion
  damaged,    \* assignments whose artifact cannot be read
  queued,     \* groups processed into the training queue or, for eval, reported
  batched,    \* groups taken by a training batch
  metrics,    \* metrics.jsonl: lines, each a sequence of the rows it holds
  half,       \* the last line has no end yet
  logStep,    \* the trainer's step
  trouble,
  page,       \* the snapshot being built: pc and what has been read
  logged      \* last_logged of the evaluation report: version -> summary

reportVars == <<run, bound, ended, damaged, queued, batched, metrics, half, logStep, trouble, page, logged>>

Assigned(g) == {i \in DOMAIN run : run[i].group = g}
GroupsOf == {run[i].group : i \in DOMAIN run}
KindOf(g) == run[CHOOSE i \in Assigned(g) : TRUE].kind
VersionOf(g) == run[CHOOSE i \in Assigned(g) : TRUE].version

-----------------------------------------------------------------------------
(* Numbers.  A trace is [ok, reward, tokens]; a reward may be NoValue.     *)

Finite(values) == SelectSeq(values, LAMBDA v : v # NoValue)
Total(values) == FoldSeq(LAMBDA v, s : v + s, 0, values)

\* percentile, in hundredths: linear between the two nearest ranks.
Percentile(sorted, q) ==
  LET n == Len(sorted)
      at == q * (n - 1)
      lo == at \div 100
      hi == Min({lo + 1, n - 1})
  IN  sorted[lo + 1] * 100 + (sorted[hi + 1] - sorted[lo + 1]) * (at % 100)

\* stats: nothing is said of no values.
Stats(values) ==
  LET sorted == SortSeq(Finite(values), <)
  IN  IF sorted = <<>> THEN [count |-> 0, sum |-> 0, ranks |-> <<>>]
      ELSE [count |-> Len(sorted), sum |-> Total(sorted),
            ranks |-> <<sorted[1] * 100, Percentile(sorted, 50), Percentile(sorted, 90), Percentile(sorted, 95), Last(sorted) * 100>>]

\* rolling_points: buckets of BucketSize, the last one may be smaller; a point
\* is [x, sum, n], its x the one of the newest value.
RollingPoints(values) ==
  LET kept == SelectSeq(values, LAMBDA v : v.y # NoValue)
      count == (Len(kept) + BucketSize - 1) \div BucketSize
      bucket(k) == SubSeq(kept, (k - 1) * BucketSize + 1, Min({k * BucketSize, Len(kept)}))
  IN  [k \in 1..count |-> [x |-> Last(bucket(k)).x, n |-> Len(bucket(k)),
                           sum |-> FoldSeq(LAMBDA v, s : v.y + s, 0, bucket(k))]]

-----------------------------------------------------------------------------
(* summarize_rollout_artifacts.                                            *)

\* rollout_record, for every trace of an artifact that can be read;
\* episode_to_rollouts raises for an episode without traces.
Decodable(i, broken) == i \notin broken /\ run[i].traces # <<>>

RecordsOf(i, x) == [k \in DOMAIN run[i].traces |-> [of |-> i, at |-> x, kind |-> run[i].kind, group |-> run[i].group,
    worker |-> run[i].worker, version |-> run[i].version, ok |-> run[i].traces[k].ok, reward |-> run[i].traces[k].reward,
    tokens |-> run[i].traces[k].tokens]]

Records(rows, broken) ==
  FlattenSeq([k \in DOMAIN rows |-> IF Decodable(rows[k].of, broken) THEN RecordsOf(rows[k].of, rows[k].at) ELSE <<>>])

Field(records, name) == [k \in DOMAIN records |-> records[k][name]]

\* summarize_records: a group is complete when it has as many records as
\* assignments and all of them are ok, informative when rewards differ.
CompleteGroups(records) ==
  {g \in {records[k].group : k \in DOMAIN records} :
     LET items == SelectSeq(records, LAMBDA r : r.group = g)
     IN  Len(items) = GroupSize /\ \A k \in DOMAIN items : items[k].ok}

InformativeGroups(records) ==
  {g \in CompleteGroups(records) :
     Cardinality({records[k].reward : k \in {j \in DOMAIN records : records[j].group = g}}) > 1}

Summary(records) ==
  [rollouts |-> Len(records), ok |-> Quantify(DOMAIN records, LAMBDA k : records[k].ok),
   reward |-> Stats(Field(records, "reward")), complete |-> CompleteGroups(records), informative |-> InformativeGroups(records)]

\* summarize_by_source_policy.
ByPolicy(records) ==
  [key \in {<<records[k].kind, records[k].version>> : k \in DOMAIN records} |->
     Summary(SelectSeq(records, LAMBDA r : <<r.kind, r.version>> = key))]

\* summarize_worker_activity.
Activity(records, now) ==
  [key \in {records[k].worker : k \in DOMAIN records} \X WindowLengths |->
     LET window == SelectSeq(records, LAMBDA r : r.worker = key[1] /\ r.at >= now - key[2])
     IN  [rollouts |-> Len(window), tokens |-> Total(Field(window, "tokens"))]]

\* rollout_series, of the reward of one kind.
Series(records, kind) ==
  LET of == SelectSeq(records, LAMBDA r : r.kind = kind)
  IN  RollingPoints([k \in DOMAIN of |-> [x |-> of[k].at, y |-> of[k].reward]])

-----------------------------------------------------------------------------
(* The run that is being watched.                                          *)

Blank == [pc |-> "start", now |-> 0, steps |-> {}, batches |-> {}, waiting |-> {}, done |-> {}, inWindow |-> {}, rows |-> <<>>,
          broken |-> {}, records |-> <<>>, errors |-> 0]

Init ==
  /\ \E s \in Scenarios : run = s.jobs /\ bound = [steps |-> s.steps, faults |-> s.faults]
  /\ ended = <<>> /\ damaged = {} /\ queued = {} /\ batched = {}
  /\ metrics = <<>> /\ half = FALSE /\ logStep = 0 /\ trouble = 0
  /\ page = Blank /\ logged = <<>>

watched == <<run, bound, ended, damaged, queued, batched, metrics, half, logStep, trouble>>

\* accept_result: the artifact is on disk before its row.
Complete(i) ==
  /\ i \notin Range(ended)
  /\ ended' = Append(ended, i)
  /\ UNCHANGED <<run, bound, damaged, queued, batched, metrics, half, logStep, trouble, page, logged>>

Damage(i) ==
  /\ i \in Range(ended) /\ i \notin damaged /\ trouble < bound.faults
  /\ damaged' = damaged \cup {i} /\ trouble' = trouble + 1
  /\ UNCHANGED <<run, bound, ended, queued, batched, metrics, half, logStep, page, logged>>

\* commit_processed_group, and commit_training_batch of a train group.
Process(g) ==
  /\ g \notin queued /\ Assigned(g) \subseteq Range(ended)
  /\ queued' = queued \cup {g}
  /\ UNCHANGED <<run, bound, ended, damaged, batched, metrics, half, logStep, trouble, page, logged>>

Batch(g) ==
  /\ g \in queued \ batched /\ KindOf(g) = "train"
  /\ batched' = batched \cup {g}
  /\ UNCHANGED <<run, bound, ended, damaged, queued, metrics, half, logStep, trouble, page, logged>>

\* FileMonitor.log: a row longer than the buffer is written in two parts.  A
\* part that a crash leaves behind is joined by the next row.
LogRow(whole) ==
  /\ logStep < bound.steps
  /\ LET s == logStep + 1
     IN  /\ metrics' = IF half THEN ReplaceAt(metrics, Len(metrics), Append(Last(metrics), s)) ELSE Append(metrics, <<s>>)
         /\ half' = ~whole
         /\ logStep' = s
  /\ UNCHANGED <<run, bound, ended, damaged, queued, batched, trouble, page, logged>>

EndRow ==
  /\ half /\ half' = FALSE
  /\ UNCHANGED <<run, bound, ended, damaged, queued, batched, metrics, logStep, trouble, page, logged>>

\* The trainer starts again from a checkpoint: it logs steps it has logged.
TrainerRestart(step) ==
  /\ trouble < bound.faults /\ logStep > 0 /\ step \in 0..logStep
  /\ trouble' = trouble + 1 /\ logStep' = step
  /\ UNCHANGED <<run, bound, ended, damaged, queued, batched, metrics, half, page, logged>>

-----------------------------------------------------------------------------
(* build_snapshot, for one request; every request starts from nothing.     *)

\* read_trainer_metrics and summarize_trainer_metrics: lines that are no JSON
\* object are skipped, rows of one step are merged.
StepsRead ==
  {metrics[k][1] : k \in {j \in DOMAIN metrics : Len(metrics[j]) = 1 /\ ~(half /\ j = Len(metrics))}}

ReadMetrics ==
  /\ page.pc = "start"
  /\ page' = [page EXCEPT !.pc = "batches", !.now = Len(ended), !.steps = StepsRead]
  /\ UNCHANGED <<watched, logged>>

\* summarize_database: each SELECT sees the database of its own moment.
ReadBatches ==
  /\ page.pc = "batches"
  /\ page' = [page EXCEPT !.pc = "pending", !.batches = batched]
  /\ UNCHANGED <<watched, logged>>

ReadPending ==
  /\ page.pc = "pending"
  /\ page' = [page EXCEPT !.pc = "counts", !.waiting = {g \in queued \ batched : KindOf(g) = "train"}]
  /\ UNCHANGED <<watched, logged>>

ReadCounts ==
  /\ page.pc = "counts"
  /\ page' = [page EXCEPT !.pc = "windows", !.done = Range(ended)]
  /\ UNCHANGED <<watched, logged>>

ReadWindows ==
  /\ page.pc = "windows"
  /\ page' = [page EXCEPT !.pc = "rows", !.inWindow = {ended[k] : k \in {j \in DOMAIN ended : j >= page.now - Max(WindowLengths)}}]
  /\ UNCHANGED <<watched, logged>>

\* list_result_rows: the newest MaxResults, oldest first.
ReadRows ==
  /\ page.pc = "rows"
  /\ LET all == [k \in DOMAIN ended |-> [of |-> ended[k], at |-> k]]
     IN  page' = [page EXCEPT !.pc = "artifacts", !.rows = SubSeq(all, Max({1, Len(all) - MaxResults + 1}), Len(all))]
  /\ UNCHANGED <<watched, logged>>

\* An artifact that does not decode is an error on the page, not of the page.
ReadArtifacts ==
  /\ page.pc = "artifacts"
  /\ page' = [page EXCEPT !.pc = "shown", !.broken = damaged, !.records = Records(page.rows, damaged),
                          !.errors = Quantify(DOMAIN page.rows, LAMBDA k : ~Decodable(page.rows[k].of, damaged))]
  /\ UNCHANGED <<watched, logged>>

-----------------------------------------------------------------------------
(* The evaluation report.                                                  *)

\* summarize_eval: the processed eval groups of one policy.
EvalSummary(v) ==
  LET groups == {g \in queued : KindOf(g) = "eval" /\ VersionOf(g) = v}
      traces == FlattenSeq([i \in DOMAIN run |-> IF run[i].group \in groups THEN run[i].traces ELSE <<>>])
      sound == SelectSeq(traces, LAMBDA t : t.ok)
  IN  [groups |-> Cardinality(groups), rollouts |-> Len(traces), errors |-> Len(traces) - Len(sound),
       reward |-> Total(Finite(Field(sound, "reward")))]

EvalVersions == {VersionOf(g) : g \in {h \in queued : KindOf(h) = "eval"}}

\* One round of the watch loop: what differs from last_logged is logged.
EvalRound ==
  /\ logged' = [v \in EvalVersions |-> EvalSummary(v)]
  /\ logged' # logged
  /\ UNCHANGED <<watched, page>>

Next ==
  \/ \E i \in DOMAIN run : Complete(i) \/ Damage(i)
  \/ \E g \in GroupsOf : Process(g) \/ Batch(g)
  \/ \E b \in BOOLEAN : LogRow(b)
  \/ EndRow
  \/ \E s \in 0..bound.steps : TrainerRestart(s)
  \/ ReadMetrics \/ ReadBatches \/ ReadPending \/ ReadCounts \/ ReadWindows \/ ReadRows \/ ReadArtifacts
  \/ EvalRound

-----------------------------------------------------------------------------
(* Properties.                                                             *)

Shown == page.pc = "shown"

\* The page is read in several SELECTs while the coordinator writes, yet its
\* numbers never contradict one another in the wrong direction: no group is
\* both waiting for a batch and in one, and every result counted early is
\* listed later, as far as the limit reaches.
PageOrdered ==
  Shown =>
    /\ page.batches \cap page.waiting = {}
    /\ page.done \subseteq Range(ended)
    /\ Len(page.rows) < MaxResults => page.done \cup page.inWindow \subseteq {page.rows[k].of : k \in DOMAIN page.rows}

\* Every listed result is on the page once: as its traces, or as an error; and
\* the summaries by policy and the charts divide the records, none twice.
PageComplete ==
  Shown =>
    /\ {page.rows[k].of : k \in DOMAIN page.rows}
         = {page.records[k].of : k \in DOMAIN page.records} \cup {i \in DOMAIN run : \E k \in DOMAIN page.rows : page.rows[k].of = i /\ ~Decodable(i, page.broken)}
    /\ LET by == ByPolicy(page.records)
       IN  FoldSet(LAMBDA key, n : by[key].rollouts + n, 0, DOMAIN by) = Len(page.records)
    /\ \A kind \in {"train", "eval"} :
         LET points == Series(page.records, kind)
             rewards == Finite(Field(SelectSeq(page.records, LAMBDA r : r.kind = kind), "reward"))
         IN  /\ FoldSeq(LAMBDA p, n : p.n + n, 0, points) = Len(rewards)
             /\ FoldSeq(LAMBDA p, n : p.sum + n, 0, points) = Total(rewards)
             /\ \A k \in 1..(Len(points) - 1) : points[k].x <= points[k + 1].x

\* A group that the page calls complete has a result for every assignment (for
\* single-agent episodes: an episode of several traces can stand for several
\* assignments in this count), and percentiles are ordered.
SummariesSound ==
  Shown =>
    /\ \A g \in CompleteGroups(page.records) :
         (\A i \in Assigned(g) : Len(run[i].traces) <= 1) => Assigned(g) \subseteq Range(ended)
    /\ LET ranks == Summary(page.records).reward.ranks
       IN  \A k \in 1..(Len(ranks) - 1) : ranks[k] <= ranks[k + 1]
    /\ \A key \in DOMAIN Activity(page.records, page.now), w \in WindowLengths :
         w <= key[2] => Activity(page.records, page.now)[<<key[1], w>>].rollouts <= Activity(page.records, page.now)[key].rollouts

\* The metrics shown are steps that were logged, and every one of them but the
\* row in the middle of being written and the rows that a crash in the middle
\* of a row has glued together.
StepsShown ==
  page.pc # "start" =>
    /\ page.steps \subseteq 1..bound.steps
    /\ (\A k \in DOMAIN metrics : Len(metrics[k]) = 1) /\ trouble = 0 => \A s \in 1..(Max({0} \cup page.steps)) : s \in page.steps

\* What the evaluation report last logged of a policy is what the processed
\* groups said at that moment: it never counts a group twice over rounds.
EvalCounts ==
  \A v \in DOMAIN logged : logged[v].groups <= Cardinality({g \in queued : KindOf(g) = "eval" /\ VersionOf(g) = v})
=============================================================================
