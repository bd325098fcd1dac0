------------------------------ MODULE Telemetry ------------------------------
(***************************************************************************)
(* What the trainer tells others at the end of a step: the Prometheus      *)
(* gauges of its metrics server, scraped by a server thread while they are *)
(* updated, the heartbeat, sent by a thread of its own, and the usage      *)
(* reports, posted by a background event loop.                             *)
(***************************************************************************)
EXTENDS Integers, FiniteSets, Sequences, SequencesExt

CONSTANTS
  RunNames,       \* runs the run manager may hold
  Families,       \* the labelled gauges, in the order they are written
  StepLimit,      \* bound: steps of the trainer
  PostRetries,    \* attempts of a usage report (3)
  PostFailures    \* bound: posts and heartbeats that fail

TelemetryAssumption == StepLimit \in Nat \ {0} /\ PostRetries \in Nat \ {0} /\ IsInjective(Families)

VARIABLES
  phase,       \* of the trainer: "train", "update", "beat", "final", "stopped"
  stepNo,
  inUse,       \* runs of used_idxs
  gauges,      \* per family: the runs that have a label
  knownRuns,   \* _known_runs
  writes,      \* what update_runs has still to do: <<op, family, run>>
  scrape,      \* of the server thread: [left, seen, span]
  beatPending, \* _pending
  beats,       \* heartbeat threads that have not finished
  reported,    \* steps whose usage was reported
  posts,       \* usage reports on the loop: [step, attempt]
  billed,      \* the platform's records, keyed by step
  failures

telemetryVars == <<phase, stepNo, inUse, gauges, knownRuns, writes, scrape, beatPending, beats, reported, posts, billed, failures>>

NoScrape == [left |-> <<>>, seen |-> {}, span |-> {}]

\* MetricsServer.__init__ and start, Heartbeat.__init__, UsageReporter.__init__.
Init ==
  /\ phase = "train" /\ stepNo = 0 /\ inUse \in SUBSET RunNames
  /\ gauges = [f \in Range(Families) |-> {}] /\ knownRuns = {} /\ writes = <<>>
  /\ scrape = NoScrape
  /\ beatPending = FALSE /\ beats = 0
  /\ reported = {} /\ posts = {} /\ billed = {} /\ failures = 0

-----------------------------------------------------------------------------
(* The end of a step.                                                      *)

Each(op, runs) ==
  FlattenSeq(LET order == SetToSeq(runs)
             IN  [k \in DOMAIN order |-> [j \in DOMAIN Families |-> <<op, Families[j], order[k]>>]])

\* update_runs: labels of runs that are gone are removed, gauge by gauge, then
\* those of the current runs are set.
RunWrites == Each("remove", knownRuns \ inUse) \o Each("set", inUse)

\* The runs of the next step; the run manager changes them between steps.
StepRuns(runs) ==
  /\ phase = "train"
  /\ inUse' = runs
  /\ phase' = "update"
  /\ UNCHANGED <<stepNo, gauges, knownRuns, writes, scrape, beatPending, beats, reported, posts, billed, failures>>

\* metrics_server.update, and the list of per-run statistics.
StartUpdate ==
  /\ phase = "update" /\ knownRuns # inUse /\ writes = <<>>
  /\ writes' = RunWrites
  /\ phase' = "writing"
  /\ UNCHANGED <<stepNo, inUse, gauges, knownRuns, scrape, beatPending, beats, reported, posts, billed, failures>>

\* The same runs as before: only values are set.
SameRuns ==
  /\ phase = "update" /\ knownRuns = inUse
  /\ phase' = "beat"
  /\ UNCHANGED <<stepNo, inUse, gauges, knownRuns, writes, scrape, beatPending, beats, reported, posts, billed, failures>>

Write ==
  /\ phase = "writing" /\ writes # <<>>
  /\ LET w == Head(writes)
     IN  gauges' = [gauges EXCEPT ![w[2]] = IF w[1] = "set" THEN @ \cup {w[3]} ELSE @ \ {w[3]}]
  /\ writes' = Tail(writes)
  /\ scrape' = [scrape EXCEPT !.span = @ \cup inUse]
  /\ UNCHANGED <<phase, stepNo, inUse, knownRuns, beatPending, beats, reported, posts, billed, failures>>

EndUpdate ==
  /\ phase = "writing" /\ writes = <<>>
  /\ knownRuns' = inUse
  /\ phase' = "beat"
  /\ UNCHANGED <<stepNo, inUse, gauges, writes, scrape, beatPending, beats, reported, posts, billed, failures>>

\* Heartbeat.beat: under the lock, a thread is started unless one is at work.
\* The last step ends the loop.
Beat ==
  /\ phase = "beat"
  /\ beatPending' = TRUE
  /\ beats' = IF beatPending THEN beats ELSE beats + 1
  /\ IF stepNo + 1 = StepLimit THEN phase' = "final" /\ UNCHANGED stepNo ELSE phase' = "train" /\ stepNo' = stepNo + 1
  /\ UNCHANGED <<inUse, gauges, knownRuns, writes, scrape, reported, posts, billed, failures>>

\* _send_heartbeat: answered, refused or timed out.
BeatDone ==
  /\ beats > 0
  /\ beats' = beats - 1 /\ beatPending' = FALSE
  /\ UNCHANGED <<phase, stepNo, inUse, gauges, knownRuns, writes, scrape, reported, posts, billed, failures>>

\* The trainer ends: metrics_server.stop waits for the request in progress.
StopServer ==
  /\ phase = "final" /\ scrape.left = <<>>
  /\ phase' = "stopped"
  /\ UNCHANGED <<stepNo, inUse, gauges, knownRuns, writes, scrape, beatPending, beats, reported, posts, billed, failures>>

-----------------------------------------------------------------------------
(* The server thread: generate_latest reads gauge after gauge.             *)

ScrapeStart ==
  /\ phase # "stopped" /\ scrape = NoScrape
  /\ scrape' = [left |-> Families, seen |-> {}, span |-> knownRuns \cup (IF phase = "writing" THEN inUse ELSE {})]
  /\ UNCHANGED <<phase, stepNo, inUse, gauges, knownRuns, writes, beatPending, beats, reported, posts, billed, failures>>

ScrapeFamily ==
  /\ scrape.left # <<>>
  /\ scrape' = [scrape EXCEPT !.left = Tail(@), !.seen = @ \cup gauges[Head(scrape.left)]]
  /\ UNCHANGED <<phase, stepNo, inUse, gauges, knownRuns, writes, beatPending, beats, reported, posts, billed, failures>>

ScrapeEnd ==
  /\ scrape # NoScrape /\ scrape.left = <<>>
  /\ scrape' = NoScrape
  /\ UNCHANGED <<phase, stepNo, inUse, gauges, knownRuns, writes, beatPending, beats, reported, posts, billed, failures>>

-----------------------------------------------------------------------------
(* Usage reports: BackgroundAsync.submit and UsageReporter._post.  The     *)
(* platform (external) keeps one record per run and step.                  *)

\* report_training_usage, by whoever holds a reporter (the trainer has none).
ReportUsage ==
  /\ phase = "beat" /\ stepNo \notin reported
  /\ reported' = reported \cup {stepNo}
  /\ posts' = posts \cup {[step |-> stepNo, attempt |-> 0]}
  /\ UNCHANGED <<phase, stepNo, inUse, gauges, knownRuns, writes, scrape, beatPending, beats, billed, failures>>

Posted(p, answered) ==
  /\ p \in posts
  /\ billed' = billed \cup {p.step}
  /\ IF answered THEN posts' = posts \ {p} /\ UNCHANGED failures
     ELSE /\ failures < PostFailures /\ failures' = failures + 1
          /\ posts' = (posts \ {p}) \cup (IF p.attempt + 1 < PostRetries THEN {[p EXCEPT !.attempt = @ + 1]} ELSE {})
  /\ UNCHANGED <<phase, stepNo, inUse, gauges, knownRuns, writes, scrape, beatPending, beats, reported>>

PostLost(p) ==
  /\ p \in posts /\ failures < PostFailures
  /\ failures' = failures + 1
  /\ posts' = (posts \ {p}) \cup (IF p.attempt + 1 < PostRetries THEN {[p EXCEPT !.attempt = @ + 1]} ELSE {})
  /\ UNCHANGED <<phase, stepNo, inUse, gauges, knownRuns, writes, scrape, beatPending, beats, reported, billed>>

Next ==
  \/ \E runs \in SUBSET RunNames : StepRuns(runs)
  \/ ReportUsage
  \/ StartUpdate \/ SameRuns \/ Write \/ EndUpdate \/ Beat \/ BeatDone \/ StopServer
  \/ ScrapeStart \/ ScrapeFamily \/ ScrapeEnd
  \/ \E p \in posts : PostLost(p) \/ \E answered \in BOOLEAN : Posted(p, answered)

-----------------------------------------------------------------------------
(* Properties.                                                             *)

\* A scrape, which may read one gauge before an update and the next one after
\* it, shows only runs that were in use while it ran; no run that is gone
\* keeps a label in any gauge.
ScrapeTruthful == scrape.seen \subseteq scrape.span

\* remove raises for a label that is not there and would end the training: it
\* is never called for one.
RemovesPresent == writes # <<>> /\ Head(writes)[1] = "remove" => Head(writes)[3] \in gauges[Head(writes)[2]]

\* A slow heartbeat never piles up threads, and never silences the ones after
\* it: the flag is set exactly while a thread is at work.
BeatsFlow == beats <= 1 /\ (beatPending <=> beats = 1)

\* A usage report is lost only after PostRetries failures: with fewer, every
\* reported step is on record or still on its way, and nothing else is.
UsageKept ==
  /\ billed \subseteq reported
  /\ failures < PostRetries => reported \subseteq billed \cup {p.step : p \in posts}
=============================================================================
