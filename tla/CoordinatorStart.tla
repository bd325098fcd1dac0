-------------------------- MODULE CoordinatorStart --------------------------
(***************************************************************************)
(* The coordinator's run directory over its life: the lock, the schema and *)
(* its migrations, recovery, the registration of sources, and the spool of *)
(* results.  A coordinator may be started with another configuration, and  *)
(* killed between any two of the file-system and database steps.           *)
(***************************************************************************)
EXTENDS Integers, FiniteSets, FiniteSetsExt, Sequences, TLC

CONSTANTS
  Coordinators,   \* processes started on the run directory
  Configs,        \* configurations a process may be started with
  OldConfig,      \* the configuration that a database of schema 4 was made with
  SchemaVersion,  \* 5
  FirstVersions,  \* schema versions the database may be at when the story begins
  Digests,        \* results
  StartLimit, CreateLimit,  \* bounds: starts, groups created
  Free            \* nobody, nothing

StartAssumption == SchemaVersion \in Nat /\ FirstVersions \subseteq 0..(SchemaVersion + 1)

VARIABLES
  owner,      \* holder of coordinator.lock
  schema,     \* MAX(version) of schema_migrations
  runRow,     \* identity of the run in the database
  table,      \* scheduler_sources: source id -> settings, cursor and virtual finish
  created,    \* rollout_groups: [key, source, cursor, task]; key as the code spells it
  proc,       \* per process: position, configuration, next source to register
  incoming,   \* spool/incoming: files, whole or not
  results,    \* spool/results: digest -> "linked" (not yet durable) or "durable"
  rows,       \* accepted_results
  put,        \* the publication under way: <<position, digest>>
  starts

startVars == <<owner, schema, runRow, table, created, proc, incoming, results, rows, put, starts>>

Down == [at |-> "down", cfg |-> Free, next |-> 0]
Extended(f, k, v) == [x \in DOMAIN f \cup {k} |-> IF x = k THEN v ELSE f[x]]

-----------------------------------------------------------------------------
(* Configuration.                                                          *)

\* validate_config: the trainer's configuration against the server's.
DrGrpoFits(cfg) ==
  cfg.trainer.drGrpo # 0 =>
    \A i \in 1..Len(cfg.sources) :
       LET s == cfg.sources[i]
       IN  s.kind = "train" => /\ s.algorithm \in {"grpo", "echo"}
                               /\ s.maxTokens = cfg.trainer.drGrpo
                               /\ s.turns = 1
ValidateConfig(cfg) ==
  /\ cfg.trainer.model = cfg.model /\ cfg.trainer.safetensors
  /\ cfg.trainer.interval = 1 /\ ~cfg.trainer.weightsOnly /\ ~cfg.trainer.prunes
  /\ cfg.trainer.resume = Free /\ cfg.trainer.restoresAll
  /\ DrGrpoFits(cfg)
  /\ \A i \in 1..Len(cfg.sources) : cfg.sources[i].advertised = cfg.sources[i].resolved

\* random.Random(seed).shuffle: a permutation that only the seed determines.
Shuffled(tasks, seed) ==
  CASE seed = Free -> tasks
    [] OTHER -> [i \in 1..Len(tasks) |-> tasks[((i + seed - 1) % Len(tasks)) + 1]]

\* _load_tasks: <<>> stands for an error (verifier_v1_task_payloads refuses
\* an empty list as well).
LoadTasks(s) ==
  IF s.infinite
  THEN IF s.limit = Free \/ s.seed # Free THEN <<>>
       ELSE [i \in 1..s.limit |-> s.tasks[((i - 1) % Len(s.tasks)) + 1]]
  ELSE LET all == Shuffled(s.tasks, s.seed)
       IN  IF s.limit = Free \/ s.limit >= Len(all) THEN all ELSE SubSeq(all, 1, s.limit)

\* EnvironmentSourceSpec: what register_scheduler_source compares; `stride` is
\* the reciprocal of the weight, what a group adds to the virtual finish.
Settings(s) == [kind |-> s.kind, stride |-> s.stride, enabled |-> s.enabled, tasks |-> LoadTasks(s)]
SpecValid(s) == LoadTasks(s) # <<>> /\ (s.kind = "train" => s.hot)

-----------------------------------------------------------------------------
(* Migrations.  The key of a group is the path source:<id>:occurrence:<n>; *)
(* a source id is a sequence of words, so that one may begin another.      *)

CreationKey(id, cursor) == <<"source">> \o id \o <<"occurrence", ToString(cursor)>>
\* A row of rollout_groups; schema 4 has no source_id.
Group(id, source, cursor, tasks) ==
  [key |-> CreationKey(id, cursor), source |-> source, by |-> id, cursor |-> cursor,
   task |-> tasks[(cursor % Len(tasks)) + 1]]
Begins(id, key) ==
  LET head == <<"source">> \o id \o <<"occurrence">>
  IN  Len(key) >= Len(head) /\ SubSeq(key, 1, Len(head)) = head

\* Mutant: the first source that matches, not the longest.
BackfillShortest(key, ids) ==
  LET matching == {id \in ids : Begins(id, key)}
  IN  IF matching = {} THEN Free ELSE CHOOSE id \in matching : \A o \in matching : Len(id) <= Len(o)

\* Migration 5: the source with the longest id that begins the key.
Backfill(key, ids) ==
  LET matching == {id \in ids : Begins(id, key)}
  IN  IF matching = {} THEN Free ELSE CHOOSE id \in matching : \A o \in matching : Len(id) >= Len(o)

-----------------------------------------------------------------------------
Init ==
  /\ owner = Free /\ schema \in FirstVersions
  /\ LET old == IF schema = SchemaVersion - 1 THEN 1..Len(OldConfig.sources) ELSE {}
         Source(id) == OldConfig.sources[CHOOSE i \in old : OldConfig.sources[i].id = id]
     IN  /\ runRow = IF old = {} THEN Free ELSE OldConfig.run
         /\ table = [id \in {OldConfig.sources[i].id : i \in old} |->
                      [settings |-> Settings(Source(id)), cursor |-> 1, finish |-> Source(id).stride]]
         /\ created = {Group(id, Free, 0, table[id].settings.tasks) : id \in DOMAIN table}
  /\ proc = [c \in Coordinators |-> Down]
  /\ incoming = {} /\ results = <<>> /\ rows = {} /\ put = <<"none", Free>> /\ starts = 0

Enabled == {id \in DOMAIN table : table[id].settings.enabled}
Put(p, where) == proc' = [proc EXCEPT ![p].at = where]
Ends(p) == proc' = [proc EXCEPT ![p] = Down]

\* CoordinatorRepository.__init__: the lock, or CoordinatorLockError.
Start(p, cfg) ==
  /\ proc[p].at = "down" /\ starts < StartLimit
  /\ starts' = starts + 1
  /\ IF owner = Free THEN owner' = p /\ proc' = [proc EXCEPT ![p] = [at |-> "opening", cfg |-> cfg, next |-> 1]]
                     ELSE UNCHANGED <<owner, proc>>
  /\ UNCHANGED <<schema, runRow, table, created, incoming, results, rows, put>>

\* _migrate: a newer schema is refused; each version is one transaction.
Migrate(p) ==
  /\ proc[p].at = "opening"
  /\ IF schema > SchemaVersion
     THEN Ends(p) /\ owner' = Free /\ UNCHANGED <<schema, created>>
     ELSE IF schema = SchemaVersion
     THEN Put(p, IF runRow = Free THEN "migrated" ELSE "recovering") /\ UNCHANGED <<owner, schema, created>>
     ELSE /\ schema' = schema + 1
          /\ created' = IF schema' = 5 THEN {[g EXCEPT !.source = Backfill(g.key, DOMAIN table)] : g \in created} ELSE created
          /\ UNCHANGED <<owner, proc>>
  /\ UNCHANGED <<runRow, table, incoming, results, rows, put, starts>>

\* recover: incoming files go, every accepted result must be there and whole,
\* results that nothing refers to go.
Recover(p) ==
  /\ proc[p].at = "recovering"
  /\ incoming' = {}
  /\ IF rows \subseteq DOMAIN results
     THEN /\ results' = [d \in rows |-> results[d]]
          /\ Put(p, "migrated") /\ UNCHANGED owner
     ELSE Ends(p) /\ owner' = Free /\ UNCHANGED results
  /\ UNCHANGED <<schema, runRow, table, created, rows, put, starts>>

\* initialize_run, and the runtime's constructor.
InitializeRun(p) ==
  /\ proc[p].at = "migrated"
  /\ LET cfg == proc[p].cfg
     IN  IF runRow \in {Free, cfg.run} /\ ValidateConfig(cfg)
         THEN runRow' = cfg.run /\ Put(p, "registering") /\ UNCHANGED owner
         ELSE /\ runRow' = IF runRow = Free THEN cfg.run ELSE runRow
              /\ Ends(p) /\ owner' = Free
  /\ UNCHANGED <<schema, table, created, incoming, results, rows, put, starts>>

\* _load_sources loads them all first; then register_scheduler_source, one
\* transaction each.  A conflict ends the start, and leaves the earlier ones.
RegisterSchedulerSource(p) ==
  /\ proc[p].at = "registering"
  /\ LET cfg == proc[p].cfg
         s == cfg.sources[proc[p].next]
         finishes == {table[id].finish : id \in Enabled}
     IN  IF proc[p].next > Len(cfg.sources) THEN Put(p, "serving") /\ UNCHANGED <<owner, table>>
         ELSE IF \E i \in 1..Len(cfg.sources) : ~SpecValid(cfg.sources[i])
         THEN Ends(p) /\ owner' = Free /\ UNCHANGED table
         ELSE IF s.id \notin DOMAIN table
         THEN /\ table' = Extended(table, s.id, [settings |-> Settings(s), cursor |-> 0,
                                                 finish |-> IF finishes = {} THEN 0 ELSE Min(finishes)])
              /\ proc' = [proc EXCEPT ![p].next = @ + 1] /\ UNCHANGED owner
         ELSE IF table[s.id].settings = Settings(s)
         THEN proc' = [proc EXCEPT ![p].next = @ + 1] /\ UNCHANGED <<owner, table>>
         ELSE Ends(p) /\ owner' = Free /\ UNCHANGED table
  /\ UNCHANGED <<schema, runRow, created, incoming, results, rows, put, starts>>

\* create_next_group: the least virtual finish; the task at the cursor.
CreateNextGroup(p) ==
  /\ proc[p].at = "serving" /\ Cardinality(created) < CreateLimit
  /\ \E id \in Enabled :
       LET row == table[id]
       IN  /\ \A o \in Enabled : row.finish <= table[o].finish
           /\ created' = created \cup {Group(id, id, row.cursor, row.settings.tasks)}
           /\ table' = [table EXCEPT ![id].cursor = @ + 1, ![id].finish = @ + row.settings.stride]
  /\ UNCHANGED <<owner, schema, runRow, proc, incoming, results, rows, put, starts>>

-----------------------------------------------------------------------------
(* publish_result, step by step, and the row accept_result writes.         *)

SpoolWrite(p, d) ==
  /\ proc[p].at = "serving" /\ put[1] = "none"
  /\ incoming' = incoming \cup {d}
  /\ put' = <<"synced", d>>
  /\ UNCHANGED <<owner, schema, runRow, table, created, proc, results, rows, starts>>

\* os.link: a file that is there must have the same bytes, and stays.
SpoolLink(p) ==
  /\ proc[p].at = "serving" /\ put[1] = "synced"
  /\ results' = IF put[2] \in DOMAIN results THEN results ELSE Extended(results, put[2], "linked")
  /\ put' = <<"linked", put[2]>>
  /\ UNCHANGED <<owner, schema, runRow, table, created, proc, incoming, rows, starts>>

SpoolSync(p) ==
  /\ proc[p].at = "serving" /\ put[1] = "linked"
  /\ results' = [d \in DOMAIN results |-> "durable"]
  /\ incoming' = incoming \ {put[2]}
  /\ put' = <<"published", put[2]>>
  /\ UNCHANGED <<owner, schema, runRow, table, created, proc, rows, starts>>

AcceptRow(p) ==
  /\ proc[p].at = "serving" /\ put[1] = "published"
  /\ rows' = rows \cup {put[2]}
  /\ put' = <<"none", Free>>
  /\ UNCHANGED <<owner, schema, runRow, table, created, proc, incoming, results, starts>>

\* close, or a kill with the machine: a link that was not made durable may be
\* lost with it.
Crash(p) ==
  /\ owner = p
  /\ \E lost \in SUBSET {d \in DOMAIN results : results[d] = "linked"} :
       results' = [d \in DOMAIN results \ lost |-> results[d]]
  /\ owner' = Free /\ Ends(p)
  /\ put' = <<"none", Free>>
  /\ UNCHANGED <<schema, runRow, table, created, incoming, rows, starts>>

Next ==
  \E p \in Coordinators :
    \/ \E cfg \in Configs : Start(p, cfg)
    \/ Migrate(p) \/ Recover(p) \/ InitializeRun(p) \/ RegisterSchedulerSource(p) \/ CreateNextGroup(p)
    \/ \E d \in Digests : SpoolWrite(p, d)
    \/ SpoolLink(p) \/ SpoolSync(p) \/ AcceptRow(p) \/ Crash(p)

-----------------------------------------------------------------------------
(* Properties.                                                             *)

\* One coordinator at a time touches the run directory.
OneOwner == \A p \in Coordinators : proc[p].at # "down" => owner = p

\* A migrated database names, for every group, the source that created it,
\* also where one source's id begins another's.
BackfillExact == schema = SchemaVersion => \A g \in created : g.source = g.by

\* Every accepted result lies in the spool, durable, whenever the machine stops:
\* the recovery of a coordinator never finds one missing.
RowsBacked == \A d \in rows : d \in DOMAIN results /\ results[d] = "durable"

\* The tasks of a source keep their order over all restarts: groups of one
\* source that are a whole cycle apart have the same task.
TasksStable ==
  \A g, h \in created :
    g.by = h.by /\ g.by \in DOMAIN table
      /\ (g.cursor - h.cursor) % Len(table[g.by].settings.tasks) = 0
      => g.task = h.task

\* A source registered late starts at the others' virtual finish: it never
\* falls behind all of them by more than one group of its own.
LateSourcesFair ==
  \A a, b \in Enabled :
    table[a].finish - table[b].finish <= Max({table[a].settings.stride, table[b].settings.stride})
=============================================================================
