------------------------------ MODULE Monitors -------------------------------
(***************************************************************************)
(* What a training process reports, and to whom: MultiMonitor over the W&B,*)
(* Prime and file monitors.  The Prime monitor hands its requests to an    *)
(* event loop on another thread, which retries them; the process may fork, *)
(* and both halves may finish and close.                                   *)
(***************************************************************************)
EXTENDS Integers, FiniteSets, FiniteSetsExt, Sequences

CONSTANTS
  Reports,       \* which monitors are configured, on which rank, with which extras
  LastLogged,   \* steps the caller logs
  MaxRetries,   \* attempts of a request (3)
  MaxOutages    \* bound: requests that fail

MonitorAssumption == MaxRetries \in Nat \ {0} /\ LastLogged \in Nat

VARIABLES
  reportOn,   \* the setup: [wandb, prime, file : BOOLEAN, rank, interval, broken]
  mon,        \* per process, "parent" and "child": the Prime monitor's own state
  history,    \* monitors[0].history of the parent: steps
  jobs,       \* requests on the event loop: [by, kind, step, stage, attempt]
  platform,   \* what the platform holds: metrics, samples, status
  chart,      \* what W&B holds: steps
  lines,      \* metrics.jsonl: rows [step, keys]
  outages

monVars == <<reportOn, mon, history, jobs, platform, chart, lines, outages>>

Procs == {"parent", "child"}
Fresh == [alive |-> FALSE, enabled |-> FALSE, registered |-> FALSE, finalized |-> FALSE, summed |-> FALSE, closed |-> FALSE,
          step |-> 0, pending |-> {}, lastSamples |-> -1]

-----------------------------------------------------------------------------
(* Payloads.  A metric is a record of values; "nan" and "inf" are not JSON.*)

Metrics(step) == [loss |-> IF step = 2 THEN "nan" ELSE "finite", time |-> "finite"]

\* drop_non_finite_json_values.
DropNonFinite(metrics) == {k \in DOMAIN metrics : metrics[k] \notin {"nan", "inf"}}

\* sample_items_for_logging: a ratio is given in tenths.
SampleItems(n, ratio) ==
  CASE ratio = -1 -> n
    [] ratio = 0 -> 0
    [] ratio >= 10 \/ n <= 1 -> n
    [] OTHER -> Min({n, Max({1, (n * ratio) \div 10})})

\* _rollouts_to_parquet_bytes: rollouts without a trajectory are left out.
Rows(n, without) == n - without

-----------------------------------------------------------------------------
IsMaster == reportOn.rank = 0

\* setup_monitor and the constructors: a rank other than 0 is a shell that
\* keeps its history; without key or registration the Prime monitor is disabled.
\* A RUN_ID in the environment names a run that another process registered.
Init ==
  /\ reportOn \in Reports
  /\ \E up \in BOOLEAN, key \in BOOLEAN, runId \in BOOLEAN :
       mon = [p \in Procs |-> IF p = "child" THEN Fresh
              ELSE [Fresh EXCEPT !.alive = TRUE, !.enabled = reportOn.prime /\ IsMaster /\ key /\ (runId \/ up),
                                 !.registered = reportOn.prime /\ IsMaster /\ key /\ ~runId /\ up]]
  /\ history = <<>> /\ jobs = {} /\ chart = {} /\ lines = <<>> /\ outages = 0
  /\ platform = [metrics |-> {}, samples |-> {}, uploads |-> {}, status |-> IF mon["parent"].enabled THEN "running" ELSE "none"]

Job(p, kind, step) == [by |-> p, kind |-> kind, step |-> step, stage |-> IF kind = "samples" THEN "presign" ELSE "send", attempt |-> 0]

\* WandbMonitor.log and FileMonitor.log on the master rank.
ToChart(s) == chart' = IF reportOn.wandb /\ IsMaster /\ "wandb" \notin reportOn.broken THEN chart \cup {s} ELSE chart

ToFile(s) ==
  lines' = IF reportOn.file /\ IsMaster /\ "file" \notin reportOn.broken
           THEN Append(lines, [step |-> s, keys |-> DropNonFinite(Metrics(s))]) ELSE lines

\* PrimeMonitor.log, and log_samples at its interval: requests for the loop.
ToPrime(s) ==
  LET sampled == /\ s % reportOn.interval = 0 /\ reportOn.samples > 0
                 /\ Rows(SampleItems(reportOn.samples, reportOn.ratio), reportOn.without) > 0
      kinds == {"metrics"} \cup {k \in {"samples"} : sampled}
  IN  IF ~mon["parent"].enabled THEN mon' = [mon EXCEPT !["parent"].step = s] /\ UNCHANGED jobs
      ELSE /\ jobs' = jobs \cup {Job("parent", k, s) : k \in kinds}
           /\ mon' = [mon EXCEPT !["parent"].step = s, !["parent"].pending = @ \cup {x \in {s} : sampled}]

\* MultiMonitor.log: every monitor in turn; one that raises does not keep the
\* next from its turn.  The first monitor's history grows before it may raise.
Log ==
  /\ mon["parent"].alive /\ ~mon["parent"].closed /\ mon["parent"].step < LastLogged
  /\ LET s == mon["parent"].step + 1
     IN  history' = Append(history, s) /\ ToChart(s) /\ ToFile(s) /\ ToPrime(s)
  /\ UNCHANGED <<reportOn, platform, outages>>

\* The assertions of log_samples.
SamplesInOrder == \A p \in Procs : mon[p].pending \cap {mon[p].step + 1} = {} /\ mon[p].lastSamples <= mon[p].step

\* The stages of an upload: presign (once), put to the store, confirm.
NextStage(j) == CASE j.stage = "presign" -> "put" [] j.stage = "put" -> "confirm" [] OTHER -> "done"

Settled(j) == mon' = [mon EXCEPT ![j.by].pending = @ \ (IF j.kind = "samples" THEN {j.step} ELSE {})]

Succeed(j) ==
  /\ j \in jobs /\ mon[j.by].alive
  /\ LET next == NextStage(j)
     IN  IF next = "done"
         THEN /\ jobs' = jobs \ {j}
              /\ IF j.kind = "metrics"
                 THEN platform' = [platform EXCEPT !.metrics = @ \cup {<<j.step, DropNonFinite(Metrics(j.step))>>}] /\ UNCHANGED mon
                 ELSE /\ platform' = [platform EXCEPT !.samples = @ \cup {j.step}]
                      /\ mon' = [mon EXCEPT ![j.by].pending = @ \ {j.step}, ![j.by].lastSamples = j.step]
         ELSE /\ jobs' = (jobs \ {j}) \cup {[j EXCEPT !.stage = next, !.attempt = 0]}
              /\ platform' = IF j.stage = "put" THEN [platform EXCEPT !.uploads = @ \cup {j.step}] ELSE platform
              /\ UNCHANGED mon
  /\ UNCHANGED <<reportOn, history, chart, lines, outages>>

\* A presign that fails ends the upload; the others are tried MaxRetries times.
Fail(j) ==
  /\ j \in jobs /\ mon[j.by].alive /\ outages < MaxOutages
  /\ outages' = outages + 1
  /\ IF j.stage = "presign" \/ j.attempt + 1 >= MaxRetries
     THEN jobs' = jobs \ {j} /\ Settled(j)
     ELSE jobs' = (jobs \ {j}) \cup {[j EXCEPT !.attempt = @ + 1]} /\ UNCHANGED mon
  /\ UNCHANGED <<reportOn, history, platform, chart, lines>>

\* os.fork: the child has the object, but not the thread; _reinit_after_fork
\* makes a loop and a client of its own and forgets the pending uploads.
Fork ==
  /\ mon["parent"].enabled /\ ~mon["parent"].closed /\ ~mon["child"].alive /\ ~mon["child"].closed
  /\ mon' = [mon EXCEPT !["child"] = [mon["parent"] EXCEPT !.pending = {}, !.summed = FALSE]]
  /\ UNCHANGED <<reportOn, history, jobs, platform, chart, lines, outages>>

\* _finalize_run sets the status of no run but one registered here.
Finalized(p, status) == IF mon[p].registered THEN status ELSE platform.status

\* save_final_summary: the summary ends the run on the platform.  A forked
\* child returns after it; the parent sets the status where it did not arrive.
SaveFinalSummary(p, arrives) ==
  /\ mon[p].alive /\ mon[p].enabled /\ ~mon[p].closed /\ ~mon[p].summed
  /\ ~arrives => outages < MaxOutages
  /\ outages' = outages + (IF arrives THEN 0 ELSE 1)
  /\ mon' = [mon EXCEPT ![p].summed = TRUE, ![p].finalized = @ \/ p = "parent"]
  /\ platform' = [platform EXCEPT !.status =
       IF arrives THEN "completed" ELSE IF p = "parent" THEN Finalized(p, "completed") ELSE @]
  /\ UNCHANGED <<reportOn, history, jobs, chart, lines>>

\* Mutant: the process id is not compared.
ShouldFinalizeAnywhere(p) == mon[p].enabled /\ ~mon[p].finalized

\* close: a run that was not finalised has failed, which only the process that
\* registered it may say.
ShouldFinalize(p) == mon[p].enabled /\ ~mon[p].finalized /\ p = "parent"

Close(p) ==
  /\ mon[p].alive /\ ~mon[p].closed
  /\ mon' = [mon EXCEPT ![p].closed = TRUE, ![p].finalized = @ \/ ShouldFinalize(p)]
  /\ platform' = [platform EXCEPT !.status = IF ShouldFinalize(p) THEN Finalized(p, "failed") ELSE @]
  /\ UNCHANGED <<reportOn, history, jobs, chart, lines, outages>>

\* _flush has waited for every pending request: the loop stops.
StopLoop(p) ==
  /\ mon[p].alive /\ mon[p].closed
  /\ \A j \in jobs : j.by # p
  /\ mon' = [mon EXCEPT ![p].alive = FALSE]
  /\ UNCHANGED <<reportOn, history, jobs, platform, chart, lines, outages>>

\* A flush that takes longer than its timeout (30 s) is given up, and with the
\* loop the requests that are left.
GiveUpFlush(p) ==
  /\ mon[p].alive /\ mon[p].closed /\ outages > 0
  /\ \E j \in jobs : j.by = p /\ j.attempt > 0
  /\ jobs' = {j \in jobs : j.by # p}
  /\ mon' = [mon EXCEPT ![p].alive = FALSE]
  /\ UNCHANGED <<reportOn, history, platform, chart, lines, outages>>

Next ==
  \/ Log \/ Fork
  \/ \E j \in jobs : Succeed(j) \/ Fail(j)
  \/ \E p \in Procs : Close(p) \/ StopLoop(p) \/ GiveUpFlush(p) \/ \E b \in BOOLEAN : SaveFinalSummary(p, b)

-----------------------------------------------------------------------------
(* Properties.                                                             *)

\* A run is reported as failed only by the process that registered it, and
\* only if that process closes without a final summary: what a forked child
\* closes, and when, never decides that the run failed.
StatusHonest ==
  platform.status = "failed" => mon["parent"].registered /\ mon["parent"].closed /\ ~mon["parent"].summed

\* Every rank keeps every step in its history, whatever the back ends do: the
\* trainer reads its peak memory there when it ends.
HistoryComplete == history = [i \in 1..mon["parent"].step |-> i]

\* Back ends do not depend on one another: with one of them broken, the others
\* hold what was logged, and nothing that is not JSON.
BackEndsIndependent ==
  /\ IsMaster /\ reportOn.file /\ "file" \notin reportOn.broken =>
       /\ Len(lines) = mon["parent"].step
       /\ \A i \in 1..Len(lines) : lines[i].keys = DropNonFinite(Metrics(i))
  /\ IsMaster /\ reportOn.wandb /\ "wandb" \notin reportOn.broken => chart = 1..mon["parent"].step
  /\ ~IsMaster => lines = <<>> /\ chart = {} /\ platform.status = "none"

\* Nothing is lost while the platform answers: when the parent's loop has
\* stopped, every step's metrics have arrived; samples are confirmed only after
\* their bytes; and the assertions on the order of uploads hold.
UploadsWhole ==
  /\ ~mon["parent"].alive /\ outages = 0 /\ mon["parent"].enabled =>
       {m[1] : m \in platform.metrics} = 1..mon["parent"].step
  /\ platform.samples \subseteq platform.uploads
  /\ SamplesInOrder
=============================================================================
