----------------------------- MODULE Dashboards ------------------------------
(***************************************************************************)
(* How processes join their W&B run (shared mode: the primary creates it,  *)
(* the others retry until it is there) and how a run provisions the        *)
(* overview of its environments: an existing one is reused, otherwise a    *)
(* new version is saved.  The W&B service is external.                     *)
(***************************************************************************)
EXTENDS Integers, FiniteSets, FiniteSetsExt

CONSTANTS
  Members,       \* processes: [run, primary, shared, envs]
  Patience,      \* [primary, other]: attempts of wandb.init (5 and 30)
  ServerErrors,  \* bound: transient errors of the service
  MaxDeleted     \* bound: views a user deletes, and views that cannot be read

DashboardAssumption == Patience.primary \in Nat \ {0} /\ Patience.other \in Nat \ {0}

VARIABLES
  joining,     \* per member: "init", "failed", "list", "save", "on"
  tried,       \* attempts that ended in an error
  excused,     \* those that were the service's, or the primary's, doing
  inUseLocally,\* a failed wandb.init left the run registered in wandb-core
  runsThere,   \* runs the service holds
  views,       \* saved views: [version, by, sections]
  listed,      \* what a member found: [versions, match]
  errs, removed,
  raced        \* two members were provisioning at once, or a view was unreadable

dashVars == <<joining, tried, excused, inUseLocally, runsThere, views, listed, errs, removed, raced>>

\* max_retries.
Retries(m) == IF m.shared /\ ~m.primary THEN Patience.other ELSE Patience.primary

\* Only the primary provisions in shared mode, else every online member.
Provisions(m) == m.primary \/ ~m.shared

Init ==
  /\ joining = [m \in Members |-> "init"]
  /\ tried = [m \in Members |-> 0] /\ excused = [m \in Members |-> 0]
  /\ inUseLocally = [m \in Members |-> FALSE]
  /\ runsThere = {} /\ views = {} /\ listed = [m \in Members |-> [versions |-> {}, match |-> FALSE]]
  /\ errs = 0 /\ removed = 0 /\ raced = FALSE

\* wandb.init succeeds: a member that is not the primary only resumes.
Join(m) ==
  /\ joining[m] = "init" /\ ~inUseLocally[m]
  /\ m.shared /\ ~m.primary => m.run \in runsThere
  /\ runsThere' = runsThere \cup {m.run}
  /\ joining' = [joining EXCEPT ![m] = IF Provisions(m) THEN "list" ELSE "on"]
  /\ UNCHANGED <<tried, excused, inUseLocally, views, listed, errs, removed, raced>>

\* wandb.teardown, before the next attempt.
Retry(m) == inUseLocally' = [inUseLocally EXCEPT ![m] = FALSE]

\* wandb.init raises; the last attempt lets the error through.
InitFails(m) ==
  /\ joining[m] = "init"
  /\ LET waiting == m.shared /\ ~m.primary /\ m.run \notin runsThere
         service == ~waiting /\ ~inUseLocally[m]
     IN  /\ service => errs < ServerErrors
         /\ errs' = errs + (IF service THEN 1 ELSE 0)
         /\ excused' = [excused EXCEPT ![m] = @ + (IF inUseLocally[m] THEN 0 ELSE 1)]
  /\ tried' = [tried EXCEPT ![m] = @ + 1]
  /\ IF tried[m] + 1 = Retries(m)
     THEN joining' = [joining EXCEPT ![m] = "failed"] /\ UNCHANGED inUseLocally
     ELSE Retry(m) /\ UNCHANGED joining
  /\ UNCHANGED <<runsThere, views, listed, removed, raced>>

-----------------------------------------------------------------------------
(* ensure_overview_view.                                                   *)

\* build_sections: names of the sections for a set of environments.
Sections(kind, envs) ==
  IF kind = "train" /\ Cardinality(envs) > 1 THEN {<<kind, e>> : e \in envs \cup {"agg"}}
  ELSE IF envs = {} THEN {<<kind>>} ELSE {<<kind, e>> : e \in envs}

\* view_env_signature: the environments, from the section names.
SignatureOf(sections, kind) == {s[2] : s \in {x \in sections : x[1] = kind /\ x # <<kind>> /\ x # <<"train", "agg">>}}

\* next_overview_name: 1 is the base name, k its "-vk".
NextVersion(versions) == IF 1 \notin versions THEN 1 ELSE Max(versions) + 1

Busy(m) == \E o \in Members \ {m} : joining[o] = "save"

\* list_views, and each overview read back; one that cannot be read is passed.
ListViews(m, unread) ==
  /\ joining[m] = "list" /\ unread \in SUBSET views /\ Cardinality(unread) + removed <= MaxDeleted
  /\ listed' = [listed EXCEPT ![m] =
       [versions |-> {v.version : v \in views},
        match |-> \E v \in views \ unread : SignatureOf(v.sections, "train") = m.envs.train /\ SignatureOf(v.sections, "eval") = m.envs.eval]]
  /\ joining' = [joining EXCEPT ![m] = "save"]
  /\ raced' = (raced \/ unread # {} \/ Busy(m))
  /\ removed' = removed + Cardinality(unread)
  /\ UNCHANGED <<tried, excused, inUseLocally, runsThere, views, errs>>

\* A failure here is logged and never stops the training.
SaveView(m, works) ==
  /\ joining[m] = "save"
  /\ ~works => errs < ServerErrors
  /\ errs' = errs + (IF works THEN 0 ELSE 1)
  /\ views' = IF listed[m].match \/ ~works THEN views
              ELSE views \cup {[version |-> NextVersion(listed[m].versions), by |-> m,
                                sections |-> Sections("train", m.envs.train) \cup Sections("eval", m.envs.eval)]}
  /\ joining' = [joining EXCEPT ![m] = "on"]
  /\ UNCHANGED <<tried, excused, inUseLocally, runsThere, listed, removed, raced>>

DeleteView(v) ==
  /\ removed < MaxDeleted /\ removed' = removed + 1
  /\ views' = views \ {v}
  /\ raced' = (raced \/ \E m \in Members : joining[m] = "save")
  /\ UNCHANGED <<joining, tried, excused, inUseLocally, runsThere, listed, errs>>

Next ==
  \/ \E m \in Members :
       \/ Join(m) \/ InitFails(m)
       \/ \E unread \in SUBSET views : ListViews(m, unread)
       \/ \E works \in BOOLEAN : SaveView(m, works)
  \/ \E v \in views : DeleteView(v)

-----------------------------------------------------------------------------
(* Properties.                                                             *)

\* A member gives up only after as many failures of the service, or of its
\* primary, as it has attempts: a failed attempt never causes the next one to
\* fail.
JoinFair == \A m \in Members : joining[m] = "failed" => excused[m] = Retries(m)

\* Runs that start one after another share the overview of their environments
\* (unless an environment is called "agg"), and no two overviews have one name;
\* only runs that provision at the same time can make two.
OverviewsUnique ==
  ~raced =>
    \A v, w \in views :
      v # w => /\ v.version # w.version
               /\ v.by.envs = w.by.envs => "agg" \in v.by.envs.train
=============================================================================
