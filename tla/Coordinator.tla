---------------------------- MODULE Coordinator ----------------------------
(***************************************************************************)
(* The scheduling side of the coordinator: the rollout groups, their       *)
(* assignments and leases, the lease requests, the active policy and the   *)
(* spool of accepted results, changed by the operations of                 *)
(* CoordinatorRepository.                                                  *)
(*                                                                         *)
(* Every repository call runs on CoordinatorService's single database      *)
(* thread and every change is one SQLite transaction, so an operation is   *)
(* one action.  Two operations take more than one: a lease call leases,    *)
(* generates a group and leases again in three transactions, and           *)
(* accept_result publishes the result file before the transaction that     *)
(* refers to it.                                                           *)
(* "call" holds the rest of such a call; meanwhile the database thread     *)
(* serves nobody else, but time passes and the process can crash.          *)
(*                                                                         *)
(* A request the code rejects (an exception rolls the transaction back)    *)
(* leaves the database as it was: it is a stuttering step here.            *)
(***************************************************************************)
EXTENDS Ledger

CONSTANTS
    Request,        \* lease request identifiers
    Source,         \* 1 .. number of enabled scheduler sources, in source_id order
    Kind,           \* Kind[s]: "train" or "eval"
    GroupSize,      \* GroupSize[s]: group_size
    MaxAttempts,    \* MaxAttempts[s]: max_attempts
    Timeout,        \* Timeout[s]: assignment_timeout_seconds, 0 if there is none
    Cost,           \* Cost[s]: group_size / weight
    Slots,          \* inference_slots of a worker session
    MaxPolicyLag,   \* max_policy_lag
    Preference,     \* loaded_policy_preference_seconds
    MaxGroups,      \* bound: groups ever created
    MaxPolicy,      \* bound: policy versions ever published
    LoadedSets,     \* bound: the sets of loaded policies workers report
    Horizon,        \* bound: last instant at which groups and policies appear
    MaxClock        \* bound: last instant

Group == 1 .. MaxGroups                            \* sequence numbers
Index == UNION {1 .. GroupSize[s] : s \in Source}  \* group_index + 1
Assignment == Group \X Index
LeaseId == Assignment \X Attempt
Policy == 0 .. MaxPolicy

ASSUME CoordinatorAssumption ==
    /\ None \notin Request
    /\ None \notin LeaseId
    /\ Source \subseteq Nat /\ IsFiniteSet(Source)
    /\ Kind \in [Source -> {"train", "eval"}]
    /\ GroupSize \in [Source -> Nat \ {0}]
    /\ MaxAttempts \in [Source -> 1 .. AttemptLimit]
    /\ Timeout \in [Source -> Nat]
    /\ Cost \in [Source -> Nat \ {0}]
    /\ Slots \in Nat \ {0}
    /\ MaxPolicyLag \in Nat
    /\ Preference \in Nat
    /\ MaxGroups \in Nat
    /\ MaxPolicy \in Nat
    /\ LoadedSets \subseteq SUBSET (0 .. MaxPolicy)
    /\ Horizon \in Nat
    /\ MaxClock \in Nat

VARIABLES
    clock,     \* the coordinator's clock
    up,        \* the coordinator process is running
    call,      \* the database thread's unfinished call, or NoCall
    active,    \* version of the active policy
    session,   \* registered worker sessions
    vfinish,   \* virtual_finish of every source
    group,     \* rollout_groups, by sequence
    row,       \* assignments with their leases, cancellations and outcomes
    request,   \* lease_requests
    spool      \* result files in the spool: <<lease, payload>>

vars == <<clock, up, call, active, session, vfinish, group, row, request, spool>>

GroupRow ==
    [state: {"absent", "collecting", "ready"}, source: Source \cup {None}, policy: Policy]

RequestRow ==
    [state: {"absent", "pending", "no_work", "leased"}, session: Session \cup {None},
     loaded: SUBSET Policy, lease: LeaseId \cup {None}]

\* The rest of a lease call, of no call, or of an accept_result call.
LeaseCall == [op: {"generate", "lease"}, request: Request]
NoCall == [op |-> "none"]
ResultCall == [op: {"result"}, file: LeaseId \X Payload]

TypeOK ==
    /\ clock \in Nat
    /\ up \in BOOLEAN
    /\ call \in LeaseCall \cup ResultCall \cup {NoCall}
    /\ active \in Policy
    /\ session \in SUBSET Session
    /\ vfinish \in [Source -> Nat]
    /\ group \in [Group -> GroupRow]
    /\ row \in [Assignment -> Row]
    /\ request \in [Request -> RequestRow]
    /\ spool \in SUBSET (LeaseId \X Payload)

AbsentGroup == [state |-> "absent", source |-> None, policy |-> 0]
AbsentRequest == [state |-> "absent", session |-> None, loaded |-> {}, lease |-> None]

\* initialize_run: policy 0 is active and the tables are empty.
Init ==
    /\ clock = 0
    /\ up = TRUE
    /\ call = NoCall
    /\ active = 0
    /\ session = {}
    /\ vfinish = [s \in Source |-> 0]
    /\ group = [g \in Group |-> AbsentGroup]
    /\ row = [a \in Assignment |-> AbsentRow]
    /\ request = [q \in Request |-> AbsentRequest]
    /\ spool = {}

-----------------------------------------------------------------------------
(* Whole-table steps that several operations share.                        *)

Created(g) == group[g].state # "absent"

\* No assignment of g is unfinished.
Settled(rows, g) == \A i \in Index : ~Unfinished(rows[<<g, i>>])

\* _recompute_group for the groups in G, _recompute_groups for all of them.
Recomputed(G, rows) ==
    [g \in Group |->
        IF g \in G /\ Created(g)
        THEN [group[g] EXCEPT !.state = IF Settled(rows, g) THEN "ready" ELSE "collecting"]
        ELSE group[g]]

\* Train groups whose pinned policy is more than MaxPolicyLag behind version v.
StaleGroups(v) ==
    {g \in Group : /\ Created(g)
                   /\ Kind[group[g].source] = "train"
                   /\ v - group[g].policy > MaxPolicyLag}

\* _reconcile_stale_work and _cancel_stale_train_groups.
Reconciled(rows, v) ==
    [a \in Assignment |-> IF a[1] \in StaleGroups(v) THEN CancelRow(rows[a]) ELSE rows[a]]

\* _expire_leases.
Expired(rows) == [a \in Assignment |-> ExpireRow(rows[a], clock)]

\* What lease_next_compatible does before it looks for work.
Swept == Reconciled(Expired(row), active)

Idle == up /\ call = NoCall

\* Leases that take a slot of session s.
Occupied(rows, s) == {l \in LeaseId : Occupies(rows[l[1]], l[2], s, clock)}

\* Mutant of HasRoom: off by one.
HasRoomOrFull(rows, s) == Cardinality(Occupied(rows, s)) <= Slots

HasRoom(rows, s) == Cardinality(Occupied(rows, s)) < Slots

-----------------------------------------------------------------------------
(* Time, the worker sessions and the policies.                             *)

Tick ==
    /\ clock < MaxClock
    /\ clock' = clock + 1
    /\ UNCHANGED <<up, call, active, session, vfinish, group, row, request, spool>>

\* register_worker; registering again changes nothing.
RegisterWorker(s) ==
    /\ Idle
    /\ s \notin session
    /\ session' = session \cup {s}
    /\ UNCHANGED <<clock, up, call, active, vfinish, group, row, request, spool>>

\* Mutants of ActivatePolicy: the stale work is left for the next sweep; the groups that
\* the cancellation completes are not recomputed.
ActivateOnly ==
    /\ Idle
    /\ active < MaxPolicy
    /\ clock <= Horizon
    /\ active' = active + 1
    /\ UNCHANGED <<clock, up, call, session, vfinish, group, row, request, spool>>

ActivateWithoutRecompute ==
    /\ Idle
    /\ active < MaxPolicy
    /\ clock <= Horizon
    /\ active' = active + 1
    /\ row' = Reconciled(row, active')
    /\ UNCHANGED <<clock, up, call, session, vfinish, group, request, spool>>

\* record_and_activate_policy: the runtime publishes the successor of the active one.
ActivatePolicy ==
    /\ Idle
    /\ active < MaxPolicy
    /\ clock <= Horizon
    /\ active' = active + 1
    /\ row' = Reconciled(row, active')
    /\ group' = Recomputed(StaleGroups(active'), row')
    /\ UNCHANGED <<clock, up, call, session, vfinish, request, spool>>

-----------------------------------------------------------------------------
(* Lease requests.                                                         *)

\* validate_lease_request, for a request the coordinator has not seen, that asks for
\* one slot or more.
ValidateLeaseRequest(q, s, loaded) ==
    /\ Idle
    /\ request[q].state = "absent"
    /\ s \in session
    /\ loaded \subseteq 0 .. active
    /\ HasRoom(row, s)
    /\ request' = [request EXCEPT ![q] = [state |-> "pending", session |-> s,
                                          loaded |-> loaded, lease |-> None]]
    /\ UNCHANGED <<clock, up, call, active, session, vfinish, group, row, spool>>

\* mark_lease_request_no_work: the poll ended before work was found.
MarkNoWork(q) ==
    /\ Idle
    /\ request[q].state = "pending"
    /\ request' = [request EXCEPT ![q].state = "no_work"]
    /\ UNCHANGED <<clock, up, call, active, session, vfinish, group, row, spool>>

Candidates(rows) == {a \in Assignment : Leasable(rows[a], clock)}

\* ORDER BY sequence, group_index.
Precedes(a, b) == a[1] < b[1] \/ (a[1] = b[1] /\ a[2] <= b[2])
First(a, A) == a \in A /\ \A b \in A : Precedes(a, b)

\* The oldest candidate; while it has waited less than Preference, the oldest one
\* whose policy the worker has loaded, if there is one.
Chosen(a, rows, q) ==
    LET C == Candidates(rows)
        fitting == {b \in C : group[b[1]].policy \in request[q].loaded}
    IN  \E oldest \in C :
            /\ First(oldest, C)
            /\ IF clock - rows[oldest].available < Preference /\ fitting # {}
               THEN First(a, fitting) ELSE a = oldest

\* Mutant of Grant: the request is not marked as answered.
GrantUnrecorded(q, rows) ==
    /\ HasRoom(rows, request[q].session)
    /\ \E a \in Assignment :
          /\ Chosen(a, rows, q)
          /\ row' = [rows EXCEPT ![a] = LeaseRow(@, request[q].session, clock)]
    /\ group' = Recomputed(Group, rows)
    /\ UNCHANGED request

\* lease_next_compatible finds an assignment for request q in the swept rows.
Grant(q, rows) ==
    /\ HasRoom(rows, request[q].session)
    /\ \E a \in Assignment :
          /\ Chosen(a, rows, q)
          /\ row' = [rows EXCEPT ![a] = LeaseRow(@, request[q].session, clock)]
          /\ request' = [request EXCEPT ![q] = [@ EXCEPT !.state = "leased",
                                                        !.lease = <<a, rows[a].attempts + 1>>]]
    /\ group' = Recomputed(Group, rows)

\* lease_next_compatible returns nothing: only the sweep is committed.
GrantNothing(q, rows) ==
    /\ ~HasRoom(rows, request[q].session) \/ Candidates(rows) = {}
    /\ row' = rows
    /\ group' = Recomputed(Group, rows)
    /\ UNCHANGED request

\* Mutant of NextSource: ordered by source_id alone.
FirstSource(s) == s \in Source /\ \A t \in Source : s <= t

\* The source create_next_group takes: ORDER BY virtual_finish, source_id LIMIT 1.
NextSource(s) ==
    /\ s \in Source
    /\ \A t \in Source : vfinish[s] < vfinish[t] \/ (vfinish[s] = vfinish[t] /\ s <= t)

\* Groups are numbered without gaps (next_group_sequence).
NextGroup(g) == g \in Group /\ ~Created(g) /\ \A h \in Group : h < g => Created(h)

NewRows(rows, g, s) ==
    LET deadline == IF Timeout[s] = 0 THEN NoDeadline ELSE clock + Timeout[s]
    IN  [a \in Assignment |->
            IF a[1] = g /\ a[2] \in 1 .. GroupSize[s]
            THEN NewRow(clock, deadline, MaxAttempts[s]) ELSE rows[a]]

\* _lease_request_can_generate: the worker has room and nothing can be handed out now.
CanGenerate(q) == HasRoom(row, request[q].session) /\ Candidates(row) = {}

\* create_next_group: a group of source s for the active policy.
CreateGroup(g, s) ==
    /\ NextSource(s)
    /\ NextGroup(g)
    /\ vfinish' = [vfinish EXCEPT ![s] = @ + Cost[s]]
    /\ row' = NewRows(row, g, s)
    /\ group' = [group EXCEPT ![g] = [state |-> "collecting", source |-> s, policy |-> active]]

LeaseStep(step, q) == [op |-> step, request |-> q]

\* lease_or_create_next_compatible on a pending request: lease, else create a group
\* and lease again.  Each of the three is a transaction of its own.
LeaseOrCreate(q) ==
    /\ Idle
    /\ request[q].state = "pending"
    /\ \/ Grant(q, Swept) /\ call' = NoCall
       \/ GrantNothing(q, Swept) /\ call' = LeaseStep("generate", q)
    /\ UNCHANGED <<clock, up, active, session, vfinish, spool>>

Generate(q) ==
    /\ call = LeaseStep("generate", q)
    /\ CanGenerate(q)
    /\ clock <= Horizon
    /\ \E s \in Source, g \in Group : CreateGroup(g, s)
    /\ call' = LeaseStep("lease", q)
    /\ UNCHANGED <<clock, up, active, session, request, spool>>

\* Nothing to generate, or no enabled source.
GenerateNothing(q) ==
    /\ call = LeaseStep("generate", q)
    /\ ~CanGenerate(q) \/ clock > Horizon \/ Source = {} \/ \A g \in Group : Created(g)
    /\ call' = NoCall
    /\ UNCHANGED <<clock, up, active, session, vfinish, group, row, request, spool>>

LeaseGenerated(q) ==
    /\ call = LeaseStep("lease", q)
    /\ Grant(q, Swept) \/ GrantNothing(q, Swept)
    /\ call' = NoCall
    /\ UNCHANGED <<clock, up, active, session, vfinish, spool>>

-----------------------------------------------------------------------------
(* Leases in use.                                                          *)

LeaseSession(l) == row[l[1]].lease[l[2]].session

\* record_heartbeat: the worker reports the leases H it believes it holds.
RecordHeartbeat(s, H) ==
    /\ Idle
    /\ s \in session
    /\ LET rows == Reconciled(row, active)
       IN  row' = [a \in Assignment |->
                      RenewRow(rows[a], {n \in Attempt : <<a, n>> \in H}, clock)]
    /\ group' = Recomputed(StaleGroups(active), row')
    /\ UNCHANGED <<clock, up, call, active, session, vfinish, request, spool>>

\* renew_lease, as the renewal endpoint calls it.
RenewOne(l) ==
    /\ Idle
    /\ LET rows == Reconciled(row, active)
       IN  /\ Renewable(rows[l[1]], l[2], clock)
           /\ row' = [rows EXCEPT ![l[1]] = RenewSingle(@, l[2], clock)]
    /\ group' = Recomputed(StaleGroups(active), row')
    /\ UNCHANGED <<clock, up, call, active, session, vfinish, request, spool>>

\* expire_leases, run by the reaper task every second and by the status endpoint.
ExpireLeases ==
    /\ Idle
    /\ row' = Expired(Reconciled(row, active))
    /\ group' = Recomputed(Group, row')
    /\ UNCHANGED <<clock, up, call, active, session, vfinish, request, spool>>

\* Mutant of PublishResult: the file is left to be written after the transaction.
PublishLater(l, p) ==
    /\ Idle
    /\ Submittable(row[l[1]], l[2], clock)
    /\ call' = [op |-> "result", file |-> <<l, p>>]
    /\ UNCHANGED <<clock, up, active, session, vfinish, group, row, request, spool>>

\* accept_result up to and including spool.publish_result.
PublishResult(l, p) ==
    /\ Idle
    /\ row[l[1]].outcome = "none"
    /\ Submittable(row[l[1]], l[2], clock)
    /\ spool' = spool \cup {<<l, p>>}
    /\ call' = [op |-> "result", file |-> <<l, p>>]
    /\ UNCHANGED <<clock, up, active, session, vfinish, group, row, request>>

\* Mutant of CommitResult: the group is left to the next sweep.
CommitWithoutRecompute ==
    /\ call \in ResultCall
    /\ LET l == call.file[1]
       IN  IF Submittable(row[l[1]], l[2], clock)
           THEN row' = [row EXCEPT ![l[1]] = SucceedRow(@, l[2], call.file[2])]
           ELSE UNCHANGED row
    /\ call' = NoCall
    /\ UNCHANGED <<clock, up, active, session, vfinish, group, request, spool>>

\* The transaction of accept_result: it validates again, at the time it runs.
CommitResult ==
    /\ call \in ResultCall
    /\ LET l == call.file[1]
           r == row[l[1]]
       IN  IF r.outcome = "none" /\ Submittable(r, l[2], clock)
           THEN /\ row' = [row EXCEPT ![l[1]] = SucceedRow(r, l[2], call.file[2])]
                /\ group' = Recomputed({l[1][1]}, row')
           ELSE UNCHANGED <<row, group>>
    /\ call' = NoCall
    /\ UNCHANGED <<clock, up, active, session, vfinish, request, spool>>

\* accept_failure; a failure the lease already reported is a duplicate.
AcceptFailure(l, retryable) ==
    /\ Idle
    /\ Submittable(row[l[1]], l[2], clock)
    /\ row' = [row EXCEPT ![l[1]] = FailRow(@, l[2], clock, retryable)]
    /\ group' = Recomputed({l[1][1]}, row')
    /\ UNCHANGED <<clock, up, call, active, session, vfinish, request, spool>>

-----------------------------------------------------------------------------
(* Crash and restart.                                                      *)

\* The process dies; SQLite keeps committed transactions, the spool its files.
Crash ==
    /\ up
    /\ clock <= Horizon
    /\ up' = FALSE
    /\ call' = NoCall
    /\ UNCHANGED <<clock, active, session, vfinish, group, row, request, spool>>

Referenced(rows) ==
    {f \in LeaseId \X Payload :
        LET r == rows[f[1][1]] IN
        /\ r.result = f[2]
        /\ r.lease[f[1][2]].state = "succeeded"}

\* recover, at start-up: unreferenced result files go, then expire_leases.
Recover ==
    /\ ~up
    /\ up' = TRUE
    /\ spool' = spool \cap Referenced(row)
    /\ row' = Expired(Reconciled(row, active))
    /\ group' = Recomputed(Group, row')
    /\ UNCHANGED <<clock, call, active, session, vfinish, request>>

Next ==
    \/ Tick
    \/ \E s \in Session : RegisterWorker(s)
    \/ ActivatePolicy
    \/ \E q \in Request, s \in Session, loaded \in LoadedSets :
          ValidateLeaseRequest(q, s, loaded)
    \/ \E q \in Request :
          \/ MarkNoWork(q)
          \/ LeaseOrCreate(q)
          \/ Generate(q)
          \/ GenerateNothing(q)
          \/ LeaseGenerated(q)
    \/ \E s \in Session : \E H \in SUBSET {l \in LeaseId : LeaseSession(l) = s} :
          RecordHeartbeat(s, H)
    \/ \E l \in LeaseId : RenewOne(l)
    \/ ExpireLeases
    \/ \E l \in LeaseId, p \in Payload : PublishResult(l, p)
    \/ CommitResult
    \/ \E l \in LeaseId, retryable \in BOOLEAN : AcceptFailure(l, retryable)
    \/ Crash
    \/ Recover

Spec == Init /\ [][Next]_vars
-----------------------------------------------------------------------------
(* Safety.                                                                 *)

\* At every moment an assignment has at most one active lease, which is the one its row
\* names, and it has one exactly when it is leased (lease_next_compatible, accept_result,
\* accept_failure, _expire_leases).
OneActiveLease == \A a \in Assignment : LeaseAgrees(row[a])

\* An assignment has exactly one outcome once it is terminal and none before; no INSERT
\* into assignment_outcomes ever meets an existing line (accept_result, accept_failure,
\* _expire_leases, _cancel_stale_train_groups).
OneOutcome == \A a \in Assignment : OutcomeAgrees(row[a])

\* lease_next_compatible does not look at max_attempts: it relies on _retry_or_terminal
\* to leave only assignments waiting that have an attempt left.
RetryBudget == \A a \in Assignment : BudgetKept(row[a])

\* A cancelled assignment is never left waiting: lease_next_compatible excludes it, so
\* it could never finish (_cancel_stale_train_groups, _expire_leases, accept_failure).
CancelledWorkEnds == \A a \in Assignment : CancelAgrees(row[a])

\* No lease, renewed however often, outlives its assignment's deadline
\* (lease_next_compatible, record_heartbeat, renew_lease).
LeasesEndByDeadline == \A a \in Assignment : DeadlineKept(row[a])

\* As soon as a policy is activated, the train groups it makes stale hold no work that
\* could still be handed out, and every lease in them is cancelled
\* (record_and_activate_policy reconciles in its own transaction).
StaleWorkCancelled ==
    \A a \in Assignment :
        /\ a[1] \in StaleGroups(active)
        /\ Unfinished(row[a])
        => row[a].cancel = "requested"

\* A group is ready exactly when all its assignments are terminal: every operation that
\* ends an assignment recomputes the group (_recompute_group).
ReadyMeansSettled ==
    \A g \in Group : Created(g) => (group[g].state = "ready" <=> Settled(row, g))

\* A worker session never holds more leases than it has slots, not counting leases whose
\* cancellation it has been told about (validate_lease_request, lease_next_compatible).
SlotsRespected == \A s \in Session : Cardinality(Occupied(row, s)) <= Slots

\* Every lease answers exactly one request, of the lease's own session; a request answered
\* again after a lost reply therefore gets the same lease (lease_next_compatible).
LeaseAnswersOneRequest ==
    /\ \A q \in Request : request[q].state = "leased" =>
           /\ request[q].lease \in LeaseId
           /\ LeaseSession(request[q].lease) = request[q].session
    /\ \A l \in LeaseId : row[l[1]].lease[l[2]].state # "none" =>
           \E q \in Request : /\ request[q].state = "leased" /\ request[q].lease = l
                              /\ \A p \in Request \ {q} : request[p].lease # l

\* The file of an accepted result is in the spool, whatever crashes came between its
\* publication, the transaction and recover's clean-up (accept_result, recover).
ResultsOnDisk == Referenced(row) \subseteq spool

\* Sources share the generation of groups fairly: none is ahead of another by more than
\* one of its own groups (create_next_group).
FairShare == \A s, t \in Source : vfinish[s] <= vfinish[t] + Cost[s]

-----------------------------------------------------------------------------
(* What no step may do.                                                    *)

\* A late answer loses: a lease that has expired by the clock is neither renewed nor
\* accepted a result for, even before the reaper has marked it, and a closed lease stays
\* as it is (_validate_active_envelope, record_heartbeat, renew_lease).
LateAnswersLose ==
    [][\A l \in LeaseId :
          LET old == row[l[1]].lease[l[2]]
              new == row'[l[1]].lease[l[2]]
          IN  /\ old.state \in {"succeeded", "failed", "expired"} => new.state = old.state
              /\ old.state = "active" /\ old.expires <= clock =>
                    new.state \in {"active", "expired"} /\ new.expires = old.expires]_vars

\* Leases are issued only for work that is not stale (lease_next_compatible).
NoStaleLease ==
    [][\A l \in LeaseId :
          row[l[1]].lease[l[2]].state = "none" /\ row'[l[1]].lease[l[2]].state # "none"
          => l[1][1] \notin StaleGroups(active)]_vars
-----------------------------------------------------------------------------
(* The coordinator implements the board of rollout groups.                 *)

BoardVerdict ==
    [a \in Assignment |->
        CASE row[a].state = "absent"    -> "unborn"
          [] row[a].state = "succeeded" -> row[a].result
          [] row[a].state = "failed"    -> "failed"
          [] OTHER                      -> "open"]

Board == INSTANCE RolloutBoard WITH
    Verdict <- Payload \cup {"failed"},
    verdict <- BoardVerdict,
    ready <- {g \in Group : group[g].state = "ready"}

\* Whatever leases, retries, cancellations, timeouts and crashes do, groups are posted
\* whole, each member gets one final verdict, and the group becomes ready in the step that
\* settles its last member.
ImplementsBoard == Board!Spec

-----------------------------------------------------------------------------
(* Progress.                                                               *)

\* Time passes, the reaper task runs every second, a call on the database thread goes on,
\* and a crashed coordinator is restarted.
Fairness ==
    /\ WF_vars(Tick)
    /\ WF_vars(ExpireLeases)
    /\ WF_vars(\E q \in Request : Generate(q) \/ GenerateNothing(q) \/ LeaseGenerated(q))
    /\ WF_vars(CommitResult)
    /\ WF_vars(Recover)

FairSpec == Spec /\ Fairness

\* A group with a deadline becomes ready although its workers may fall silent, keep
\* renewing, or never ask for its assignments (_expire_leases, expire_leases).
DeadlinedGroupsFinish ==
    \A g \in Group :
        Created(g) /\ Timeout[group[g].source] # 0 ~> group[g].state = "ready"

\* Cancelled work ends even without a deadline, because a cancelled lease is not renewed
\* (record_heartbeat, renew_lease, _expire_leases).
CancelledWorkFinishes ==
    \A a \in Assignment : row[a].cancel = "requested" ~> Terminal(row[a])

\* Work ends: deadlines and cancellations both bring their group to a verdict.
WorkEnds == DeadlinedGroupsFinish /\ CancelledWorkFinishes
=============================================================================
