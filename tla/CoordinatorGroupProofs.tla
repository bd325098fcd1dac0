----------------------- MODULE CoordinatorGroupProofs -----------------------
(***************************************************************************)
(* What relates Coordinator's tables to one another, for every value of    *)
(* the constants: groups and the rows they own, stale work and policies,   *)
(* leases and the requests they answer, accepted results and their files,  *)
(* sessions and their slots; and that Coordinator implements RolloutBoard. *)
(*                                                                         *)
(* The operations fall into five kinds of step (StepShape).  Each kind     *)
(* says what the rows do (Kept, of CoordinatorProofs) and which groups are *)
(* recomputed, and every invariant below is shown kind by kind.            *)
(***************************************************************************)
EXTENDS CoordinatorProofs, FiniteSetTheorems

-----------------------------------------------------------------------------
(* What the whole-table steps do.                                          *)

\* Every row evolves as Kept allows and no result is accepted.
TableKept(rows, xs) ==
    \A a \in Assignment : Kept(rows[a], xs[a], clock) /\ NothingAccepted(rows[a], xs[a])

\* The sweeps of one transaction compose.
LEMMA TableKeptTransitive ==
  ASSUME NEW rows, NEW xs, NEW ys, TableOK(rows), TableOK(xs), TableOK(ys), clock \in Nat,
         TableKept(rows, xs), TableKept(xs, ys)
  PROVE  TableKept(rows, ys)
  BY KeptTransitive DEF TableKept, TableOK

\* Cancelling stale work: rows of other groups stay as they are, and what a stale group
\* leaves unfinished has its cancellation requested.
LEMMA ReconciledKept ==
  ASSUME NEW rows, TableOK(rows), NEW v \in Int, clock \in Nat
  PROVE  /\ TableKept(rows, Reconciled(rows, v))
         /\ \A a \in Assignment :
               /\ a[1] \notin StaleGroups(v) => Reconciled(rows, v)[a] = rows[a]
               /\ a[1] \in StaleGroups(v) /\ Unfinished(Reconciled(rows, v)[a])
                     => Reconciled(rows, v)[a].cancel = "requested"
  <1> SUFFICES ASSUME NEW a \in Assignment
               PROVE  LET x == Reconciled(rows, v)[a] IN
                      /\ Kept(rows[a], x, clock) /\ NothingAccepted(rows[a], x)
                      /\ a[1] \notin StaleGroups(v) => x = rows[a]
                      /\ a[1] \in StaleGroups(v) /\ Unfinished(x) => x.cancel = "requested"
    BY DEF TableKept
  <1>1. rows[a] \in Row /\ RowInv(rows[a])
    BY DEF TableOK
  <1>2. Reconciled(rows, v)[a] = IF a[1] \in StaleGroups(v) THEN CancelRow(rows[a]) ELSE rows[a]
    BY DEF Reconciled
  <1> QED BY <1>1, <1>2, CancelRowKept, KeptReflexive

\* _expire_leases lets every row evolve as allowed.
LEMMA ExpiredKept ==
  ASSUME NEW rows, TableOK(rows), clock \in Nat
  PROVE  TableKept(rows, Expired(rows))
  BY ExpireRowKept DEF TableKept, TableOK, Expired

\* Recomputing changes no more than the states of groups that exist.
LEMMA RecomputedKeeps ==
  ASSUME group \in [Group -> GroupRow], NEW G, NEW rows, NEW g \in Group
  PROVE  LET x == Recomputed(G, rows)[g] IN
         /\ x.source = group[g].source /\ x.policy = group[g].policy
         /\ x.state = "absent" <=> group[g].state = "absent"
         /\ g \in G /\ Created(g) => (x.state = "ready" <=> Settled(rows, g))
         /\ g \notin G => x = group[g]
  <1>1. group[g] \in GroupRow
    OBVIOUS
  <1> QED BY <1>1 DEF Recomputed, GroupRow, Created

-----------------------------------------------------------------------------
(* The kinds of step there are.                                            *)

\* Rows and groups stay as they are.
QuietStep ==
    /\ UNCHANGED <<group, row, active, vfinish>>
    /\ clock' \in Nat /\ clock <= clock'

\* Leases end, are renewed or cancelled; the groups that this may complete are recomputed.
SweepStep ==
    /\ TableKept(row, row')
    /\ \E G \in SUBSET Group :
          /\ group' = Recomputed(G, row')
          /\ \A a \in Assignment : a[1] \notin G => row'[a].state = row[a].state
    /\ \/ active' = active
       \/ \A a \in Assignment :
             a[1] \in StaleGroups(active') /\ Unfinished(row'[a]) => row'[a].cancel = "requested"
    /\ UNCHANGED <<clock, vfinish>>

\* After a sweep that yields rows, assignment a is leased for request q.
GrantStep(q, rows, a) ==
    /\ request[q].state = "pending"
    /\ TableOK(rows) /\ TableKept(row, rows)
    /\ \A b \in Assignment :
          b[1] \in StaleGroups(active) /\ Unfinished(rows[b]) => rows[b].cancel = "requested"
    /\ HasRoom(rows, request[q].session)
    /\ Leasable(rows[a], clock)
    /\ row' = [rows EXCEPT ![a] = LeaseRow(rows[a], request[q].session, clock)]
    /\ request' = [request EXCEPT ![q] = [@ EXCEPT !.state = "leased",
                                                  !.lease = <<a, rows[a].attempts + 1>>]]
    /\ group' = Recomputed(Group, rows)
    /\ UNCHANGED <<clock, active, vfinish>>

\* The result of lease l is accepted.
AcceptStep ==
    \E l \in LeaseId, p \in Payload :
        /\ call \in ResultCall /\ call.file = <<l, p>>
        /\ Submittable(row[l[1]], l[2], clock)
        /\ row' = [row EXCEPT ![l[1]] = SucceedRow(row[l[1]], l[2], p)]
        /\ group' = Recomputed({l[1][1]}, row')
        /\ UNCHANGED <<clock, active, vfinish, request, spool>>

\* The active version and the clock are numbers.
LEMMA ActiveInt == ASSUME IInv PROVE active \in Int /\ clock \in Nat
  BY CoordinatorAssumption DEF IInv, TypeOK, Policy

\* Cancelling stale work and then expiring leases, as expire_leases does.
LEMMA ReconcileExpire ==
  ASSUME IInv
  PROVE  TableKept(row, Expired(Reconciled(row, active)))
  <1> DEFINE x == Reconciled(row, active)
             y == Expired(x)
  <1>1. TableOK(row) /\ TableOK(x) /\ TableOK(y)
    BY ActiveInt, ReconciledOK, ExpiredOK DEF IInv
  <1>2. TableKept(row, x) /\ TableKept(x, y)
    BY <1>1, ActiveInt, ReconciledKept, ExpiredKept
  <1> HIDE DEF x, y
  <1> QED BY <1>1, <1>2, ActiveInt, TableKeptTransitive DEF x, y

\* The sweep of lease_next_compatible.
LEMMA SweptKept ==
  ASSUME IInv
  PROVE  /\ TableOK(Swept) /\ TableKept(row, Swept)
         /\ \A a \in Assignment :
               a[1] \in StaleGroups(active) /\ Unfinished(Swept[a]) => Swept[a].cancel = "requested"
  <1> DEFINE x == Expired(row)
             y == Reconciled(x, active)
  <1>1. TableOK(row) /\ TableOK(x) /\ TableOK(y)
    BY ActiveInt, ReconciledOK, ExpiredOK DEF IInv
  <1>2. TableKept(row, x) /\ TableKept(x, y)
    BY <1>1, ActiveInt, ReconciledKept, ExpiredKept
  <1>3. \A a \in Assignment :
               a[1] \in StaleGroups(active) /\ Unfinished(y[a]) => y[a].cancel = "requested"
    BY <1>1, ActiveInt, ReconciledKept
  <1>4. Swept = y
    BY DEF Swept
  <1> HIDE DEF x, y
  <1> QED BY <1>1, <1>2, <1>3, <1>4, ActiveInt, TableKeptTransitive

\* Time, crashes, registrations, requests and result publication leave the tables alone.
LEMMA QuietShape ==
  ASSUME IInv,
         \/ Tick \/ Crash \/ UNCHANGED vars
         \/ \E s \in Session : RegisterWorker(s)
         \/ \E q \in Request, s \in Session, loaded \in LoadedSets : ValidateLeaseRequest(q, s, loaded)
         \/ \E q \in Request : MarkNoWork(q) \/ GenerateNothing(q)
         \/ \E l \in LeaseId, p \in Payload : PublishResult(l, p)
  PROVE  QuietStep
  BY ActiveInt DEF QuietStep, Tick, Crash, vars, RegisterWorker, ValidateLeaseRequest, MarkNoWork,
     GenerateNothing, PublishResult

\* record_and_activate_policy only sweeps.
LEMMA ActivatePolicyShape == ASSUME IInv, ActivatePolicy PROVE SweepStep
  <1>1. row' = Reconciled(row, active') /\ active' \in Int
    BY ActiveInt DEF ActivatePolicy
  <1>2. TableOK(row) /\ clock \in Nat
    BY ActiveInt DEF IInv
  <1>3. TableKept(row, row')
    BY <1>1, <1>2, ReconciledKept
  <1>4. \A a \in Assignment :
          /\ a[1] \notin StaleGroups(active') => row'[a] = row[a]
          /\ a[1] \in StaleGroups(active') /\ Unfinished(row'[a]) => row'[a].cancel = "requested"
    BY <1>1, <1>2, ReconciledKept
  <1>5. StaleGroups(active') \in SUBSET Group /\ group' = Recomputed(StaleGroups(active'), row')
    BY DEF ActivatePolicy, StaleGroups
  <1>6. UNCHANGED <<clock, vfinish>>
    BY DEF ActivatePolicy
  <1> QED BY <1>3, <1>4, <1>5, <1>6 DEF SweepStep

\* The reaper and the recovery at start-up only sweep.
LEMMA ReaperShape == ASSUME IInv, ExpireLeases \/ Recover PROVE SweepStep
  <1>1. TableKept(row, row')
    BY ReconcileExpire DEF ExpireLeases, Recover
  <1>2. group' = Recomputed(Group, row') /\ UNCHANGED <<clock, vfinish, active>>
    BY DEF ExpireLeases, Recover
  <1>3. \A a \in Assignment : a[1] \in Group
    BY DEF Assignment
  <1> QED BY <1>1, <1>2, <1>3 DEF SweepStep

\* A heartbeat cancels stale work, renews, and recomputes the stale groups: a renewal
\* changes no assignment state, so no other group needs it.
LEMMA RecordHeartbeatShape ==
  ASSUME IInv, NEW s \in Session, NEW H, RecordHeartbeat(s, H)
  PROVE  SweepStep
  <1> DEFINE rows == Reconciled(row, active)
             Of(a) == {n \in Attempt : <<a, n>> \in H}
  <1>1. TableOK(row) /\ TableOK(rows) /\ TableKept(row, rows)
    BY ActiveInt, ReconciledOK, ReconciledKept DEF IInv
  <1>2. row' = [a \in Assignment |-> RenewRow(rows[a], Of(a), clock)]
    BY DEF RecordHeartbeat
  <1>3. \A a \in Assignment : a[1] \notin StaleGroups(active) => rows[a] = row[a]
    BY <1>1, ActiveInt, ReconciledKept
  <1> HIDE DEF rows
  <1>4. ASSUME NEW a \in Assignment
        PROVE  Kept(rows[a], row'[a], clock) /\ NothingAccepted(rows[a], row'[a])
               /\ row'[a].state = rows[a].state
    <2>1. rows[a] \in Row /\ RowInv(rows[a]) /\ Of(a) \in SUBSET Attempt
      BY <1>1 DEF TableOK
    <2> QED BY <1>2, <2>1, ActiveInt, RenewRowKept
  <1>5. TableOK(row')
    BY RecordHeartbeatOK DEF IInv
  <1>6. TableKept(row, row')
    BY <1>1, <1>4, <1>5, ActiveInt, TableKeptTransitive DEF TableKept
  <1>7. StaleGroups(active) \in SUBSET Group /\ group' = Recomputed(StaleGroups(active), row')
    BY DEF RecordHeartbeat, StaleGroups
  <1>8. \A a \in Assignment : a[1] \notin StaleGroups(active) => row'[a].state = row[a].state
    BY <1>3, <1>4
  <1>9. UNCHANGED <<clock, vfinish, active>>
    BY DEF RecordHeartbeat
  <1> QED BY <1>6, <1>7, <1>8, <1>9 DEF SweepStep

\* A renewal cancels stale work, renews one lease and recomputes the stale groups.
LEMMA RenewOneShape == ASSUME IInv, NEW l \in LeaseId, RenewOne(l) PROVE SweepStep
  <1> DEFINE rows == Reconciled(row, active)
             new == RenewSingle(rows[l[1]], l[2], clock)
  <1>1. TableOK(row) /\ TableOK(rows) /\ TableKept(row, rows)
    BY ActiveInt, ReconciledOK, ReconciledKept DEF IInv
  <1>2. row' = [rows EXCEPT ![l[1]] = new] /\ Renewable(rows[l[1]], l[2], clock)
    BY DEF RenewOne
  <1>3. \A a \in Assignment : a[1] \notin StaleGroups(active) => rows[a] = row[a]
    BY <1>1, ActiveInt, ReconciledKept
  <1>4. l[1] \in Assignment /\ l[2] \in Attempt
    BY LeaseIdParts
  <1> HIDE DEF rows
  <1>5. new = RenewRow(rows[l[1]], {l[2]}, clock)
    BY <1>1, <1>2, <1>4, ActiveInt, RenewSingleIsRenewRow DEF TableOK
  <1>6. /\ Kept(rows[l[1]], new, clock) /\ NothingAccepted(rows[l[1]], new)
        /\ new.state = rows[l[1]].state
    BY <1>1, <1>4, <1>5, ActiveInt, RenewRowKept DEF TableOK
  <1> HIDE DEF new
  <1>7. \A a \in Assignment :
           /\ Kept(rows[a], row'[a], clock) /\ NothingAccepted(rows[a], row'[a])
           /\ row'[a].state = rows[a].state
    <2> TAKE a \in Assignment
    <2>1. rows[a] \in Row /\ row'[a] = IF a = l[1] THEN new ELSE rows[a]
      BY <1>1, <1>2 DEF TableOK
    <2> QED BY <1>6, <2>1, ActiveInt, KeptReflexive
  <1>8. TableOK(row')
    BY RenewOneOK DEF IInv
  <1>9. TableKept(row, row')
    BY <1>1, <1>7, <1>8, ActiveInt, TableKeptTransitive DEF TableKept
  <1>10. StaleGroups(active) \in SUBSET Group /\ group' = Recomputed(StaleGroups(active), row')
    BY DEF RenewOne, StaleGroups
  <1>11. \A a \in Assignment : a[1] \notin StaleGroups(active) => row'[a].state = row[a].state
    BY <1>3, <1>7
  <1>12. UNCHANGED <<clock, vfinish, active>>
    BY DEF RenewOne
  <1> QED BY <1>9, <1>10, <1>11, <1>12 DEF SweepStep

\* accept_failure ends one lease and recomputes the group of its assignment.
LEMMA AcceptFailureShape ==
  ASSUME IInv, NEW l \in LeaseId, NEW retryable \in BOOLEAN, AcceptFailure(l, retryable)
  PROVE  SweepStep
  <1> DEFINE new == FailRow(row[l[1]], l[2], clock, retryable)
  <1>1. l[1] \in Assignment /\ l[2] \in Attempt /\ l[1][1] \in Group
    BY LeaseIdParts
  <1>2. Kept(row[l[1]], new, clock) /\ NothingAccepted(row[l[1]], new)
    BY <1>1, ActiveInt, FailRowKept DEF AcceptFailure, IInv, TableOK
  <1>3. row' = [row EXCEPT ![l[1]] = new]
    BY DEF AcceptFailure
  <1> HIDE DEF new
  <1>4. \A a \in Assignment : row[a] \in Row /\ row'[a] = IF a = l[1] THEN new ELSE row[a]
    BY <1>3 DEF IInv, TableOK
  <1>5. TableKept(row, row')
    BY <1>2, <1>4, ActiveInt, KeptReflexive DEF TableKept
  <1>6. \A a \in Assignment : a[1] \notin {l[1][1]} => row'[a].state = row[a].state
    BY <1>4
  <1>7. {l[1][1]} \in SUBSET Group /\ group' = Recomputed({l[1][1]}, row')
    BY <1>1 DEF AcceptFailure
  <1>8. UNCHANGED <<clock, vfinish, active>>
    BY DEF AcceptFailure
  <1> QED BY <1>5, <1>6, <1>7, <1>8 DEF SweepStep

\* The transaction of accept_result accepts the result or, validated again, does nothing.
LEMMA CommitResultShape == ASSUME IInv, CommitResult PROVE QuietStep \/ AcceptStep
  <1> DEFINE l == call.file[1]
             p == call.file[2]
  <1>1. l \in LeaseId /\ p \in Payload /\ call.file = <<l, p>>
    BY DEF CommitResult, ResultCall
  <1>2. CASE row[l[1]].outcome = "none" /\ Submittable(row[l[1]], l[2], clock)
    <2>1. /\ row' = [row EXCEPT ![l[1]] = SucceedRow(row[l[1]], l[2], p)]
          /\ group' = Recomputed({l[1][1]}, row')
      BY <1>2 DEF CommitResult
    <2>2. call \in ResultCall /\ UNCHANGED <<clock, active, vfinish, request, spool>>
      BY DEF CommitResult
    <2>3. AcceptStep
      <3> HIDE DEF l, p
      <3> QED BY <1>1, <1>2, <2>1, <2>2 DEF AcceptStep
    <2> QED BY <2>3
  <1>3. CASE ~(row[l[1]].outcome = "none" /\ Submittable(row[l[1]], l[2], clock))
    BY <1>3, ActiveInt DEF CommitResult, QuietStep
  <1> QED BY <1>2, <1>3

\* A lease call sweeps, and then leases one assignment or nothing.
LEMMA LeaseShape ==
  ASSUME IInv, NEW q \in Request, LeaseOrCreate(q) \/ LeaseGenerated(q)
  PROVE  \/ SweepStep /\ request' = request
         \/ \E rows, a : a \in Assignment /\ GrantStep(q, rows, a)
  <1>1. request[q].state = "pending"
    BY DEF LeaseOrCreate, LeaseGenerated, LeaseStep, LeaseCall, IInv, RequestsOK
  <1>2. UNCHANGED <<clock, up, active, session, vfinish, spool>>
    BY DEF LeaseOrCreate, LeaseGenerated
  <1>3. CASE Grant(q, Swept)
    <2>1. PICK a \in Assignment :
             /\ Chosen(a, Swept, q)
             /\ row' = [Swept EXCEPT ![a] = LeaseRow(Swept[a], request[q].session, clock)]
             /\ request' = [request EXCEPT ![q] = [@ EXCEPT !.state = "leased",
                                                           !.lease = <<a, Swept[a].attempts + 1>>]]
      BY <1>3 DEF Grant
    <2>2. Leasable(Swept[a], clock)
      BY <2>1 DEF Chosen, First, Candidates
    <2>3. HasRoom(Swept, request[q].session) /\ group' = Recomputed(Group, Swept)
      BY <1>3 DEF Grant
    <2>4. GrantStep(q, Swept, a)
      BY <1>1, <1>2, <2>1, <2>2, <2>3, SweptKept DEF GrantStep
    <2> QED BY <2>4
  <1>4. CASE GrantNothing(q, Swept)
    <2>1. row' = Swept /\ group' = Recomputed(Group, row') /\ request' = request
      BY <1>4 DEF GrantNothing
    <2>2. TableKept(row, row')
      BY <2>1, SweptKept
    <2>3. \A a \in Assignment : a[1] \in Group
      BY DEF Assignment
    <2> QED BY <1>2, <2>1, <2>2, <2>3 DEF SweepStep
  <1> QED BY <1>3, <1>4 DEF LeaseOrCreate, LeaseGenerated

\* Every step is of one of these kinds, or creates a group.
LEMMA StepShape ==
  ASSUME IInv, [Next]_vars
  PROVE  \/ QuietStep
         \/ SweepStep
         \/ \E q \in Request, a \in Assignment : \E rows : GrantStep(q, rows, a)
         \/ AcceptStep
         \/ \E q \in Request : Generate(q)
  <1>1. CASE \/ Tick \/ Crash \/ UNCHANGED vars
             \/ \E s \in Session : RegisterWorker(s)
             \/ \E q \in Request, s \in Session, loaded \in LoadedSets : ValidateLeaseRequest(q, s, loaded)
             \/ \E q \in Request : MarkNoWork(q) \/ GenerateNothing(q)
             \/ \E l \in LeaseId, p \in Payload : PublishResult(l, p)
    BY <1>1, QuietShape
  <1>2. CASE ActivatePolicy \/ ExpireLeases \/ Recover
    BY <1>2, ActivatePolicyShape, ReaperShape
  <1>3. ASSUME NEW q \in Request, LeaseOrCreate(q) \/ LeaseGenerated(q)
        PROVE  SweepStep \/ \E a \in Assignment : \E rows : GrantStep(q, rows, a)
    BY <1>3, LeaseShape
  <1>4. ASSUME NEW s \in Session, NEW H, RecordHeartbeat(s, H) PROVE SweepStep
    BY <1>4, RecordHeartbeatShape
  <1>5. ASSUME NEW l \in LeaseId, RenewOne(l) PROVE SweepStep
    BY <1>5, RenewOneShape
  <1>6. ASSUME NEW l \in LeaseId, NEW retryable \in BOOLEAN, AcceptFailure(l, retryable) PROVE SweepStep
    BY <1>6, AcceptFailureShape
  <1>7. CASE CommitResult
    BY <1>7, CommitResultShape
  <1> QED BY <1>1, <1>2, <1>3, <1>4, <1>5, <1>6, <1>7 DEF Next

-----------------------------------------------------------------------------
(* Groups and their assignments.                                           *)

\* A group that does not exist has no assignments, one that exists has some; it is ready
\* exactly when they are settled, and stale work is cancelled.
GroupInv ==
    /\ \A a \in Assignment : ~Created(a[1]) => row[a].state = "absent"
    /\ \A g \in Group : Created(g) => \E i \in Index : row[<<g, i>>].state # "absent"
    /\ ReadyMeansSettled
    /\ StaleWorkCancelled

\* Readiness and staleness depend on the states of rows and the groups' fixed parts only.
LEMMA StaleSame ==
  ASSUME group \in [Group -> GroupRow], NEW G, NEW rows, group' = Recomputed(G, rows), NEW v
  PROVE  /\ \A g \in Group : Created(g)' <=> Created(g)
         /\ {g \in Group : /\ Created(g)'
                           /\ Kind[group'[g].source] = "train"
                           /\ v - group'[g].policy > MaxPolicyLag} = StaleGroups(v)
  <1>1. \A g \in Group : /\ group'[g].source = group[g].source /\ group'[g].policy = group[g].policy
                         /\ Created(g)' <=> Created(g)
    BY RecomputedKeeps DEF Created
  <1> QED BY <1>1 DEF StaleGroups

\* Whether a group is settled depends on which of its rows are unfinished.
LEMMA SettledSame ==
  ASSUME NEW rows, NEW xs, NEW g \in Group,
         \A i \in Index : Unfinished(xs[<<g, i>>]) <=> Unfinished(rows[<<g, i>>])
  PROVE  Settled(xs, g) <=> Settled(rows, g)
  BY DEF Settled

\* A group and an index name an assignment of that group.
LEMMA Member == ASSUME NEW g \in Group, NEW i \in Index PROVE <<g, i>> \in Assignment /\ <<g, i>>[1] = g
  BY DEF Assignment

\* An assignment is named by its group and its index.
LEMMA MemberParts == ASSUME NEW a \in Assignment
                     PROVE  a[1] \in Group /\ a[2] \in Index /\ a = <<a[1], a[2]>>
  BY DEF Assignment

\* GroupInv across steps that leave the tables alone.
LEMMA QuietGroups == ASSUME GroupInv, QuietStep PROVE GroupInv'
  <1>1. UNCHANGED <<group, row, active>>
    BY DEF QuietStep
  <1> QED BY <1>1 DEF GroupInv, ReadyMeansSettled, StaleWorkCancelled, Created, Settled, StaleGroups

\* GroupInv across sweeps: whichever assignments end, their groups are recomputed.
LEMMA SweepGroups == ASSUME IInv, GroupInv, SweepStep PROVE GroupInv'
  <1>1. PICK G \in SUBSET Group :
           /\ group' = Recomputed(G, row')
           /\ \A a \in Assignment : a[1] \notin G => row'[a].state = row[a].state
    BY DEF SweepStep
  <1>2. group \in [Group -> GroupRow]
    BY DEF IInv, TypeOK
  <1>3. \A g \in Group : Created(g)' <=> Created(g)
    BY <1>1, <1>2, StaleSame
  <1>4. \A a \in Assignment : row'[a].state = "absent" <=> row[a].state = "absent"
    BY DEF SweepStep, TableKept, Kept
  <1>5. \A a \in Assignment : ~Created(a[1])' => row'[a].state = "absent"
    BY <1>3, <1>4, MemberParts DEF GroupInv
  <1>6. \A g \in Group : Created(g)' => \E i \in Index : row'[<<g, i>>].state # "absent"
    BY <1>3, <1>4, Member DEF GroupInv
  <1>7. ASSUME NEW g \in Group, Created(g)'
        PROVE  group'[g].state = "ready" <=> Settled(row', g)
    <2>1. CASE g \in G
      BY <1>1, <1>2, <1>3, <1>7, <2>1, RecomputedKeeps
    <2>2. CASE g \notin G
      <3>1. group'[g] = group[g]
        BY <1>1, <1>2, <2>2, RecomputedKeeps
      <3>2. \A i \in Index : row'[<<g, i>>].state = row[<<g, i>>].state
        BY <1>1, <2>2, Member
      <3>3. \A i \in Index : Unfinished(row'[<<g, i>>]) <=> Unfinished(row[<<g, i>>])
        BY <3>2 DEF Unfinished, Waiting
      <3> QED BY <1>3, <1>7, <3>1, <3>3, SettledSame DEF GroupInv, ReadyMeansSettled
    <2> QED BY <2>1, <2>2
  <1>8. ASSUME NEW a \in Assignment, a[1] \in StaleGroups(active'), Unfinished(row'[a])
        PROVE  row'[a].cancel = "requested"
    <2>1. CASE active' = active
      <3>1. Kept(row[a], row'[a], clock) /\ row[a] \in Row
        BY DEF SweepStep, TableKept, IInv, TypeOK
      <3>2. Unfinished(row[a])
        BY <1>8, <3>1 DEF Kept, Unfinished, Waiting, WaitingState, Terminal, TerminalState, Row, AssignmentState
      <3> QED BY <1>8, <2>1, <3>1, <3>2 DEF GroupInv, StaleWorkCancelled, Kept
    <2>2. CASE active' # active
      BY <1>8, <2>2 DEF SweepStep
    <2> QED BY <2>1, <2>2
  <1>9. StaleWorkCancelled'
    <2>1. StaleGroups(active)' = StaleGroups(active')
      BY <1>1, <1>2, StaleSame DEF StaleGroups
    <2> QED BY <1>8, <2>1 DEF StaleWorkCancelled
  <1>10. ReadyMeansSettled'
    BY <1>7 DEF ReadyMeansSettled, Settled
  <1> QED BY <1>5, <1>6, <1>9, <1>10 DEF GroupInv

\* What the leased row of a GrantStep is like.
LEMMA GrantFacts ==
  ASSUME IInv, NEW q \in Request, NEW rows, NEW a \in Assignment, GrantStep(q, rows, a)
  PROVE  LET n == rows[a].attempts + 1
             x == LeaseRow(rows[a], request[q].session, clock)
         IN  /\ request[q].session \in Session /\ n \in Attempt
             /\ rows[a].lease[n].state = "none" /\ Waiting(rows[a]) /\ rows[a].cancel = "no"
             /\ x.state = "leased" /\ x.result = rows[a].result /\ x.deadline = rows[a].deadline
             /\ x.lease[n].state = "active" /\ x.lease[n].session = request[q].session
             /\ \A m \in Attempt : m # n => x.lease[m] = rows[a].lease[m]
             /\ \A b \in Assignment : row'[b] = IF b = a THEN x ELSE rows[b]
  <1> DEFINE s == request[q].session
             x == LeaseRow(rows[a], s, clock)
  <1>1. s \in Session
    BY DEF GrantStep, IInv, RequestsOK
  <1>2. rows[a] \in Row /\ RowInv(rows[a]) /\ Leasable(rows[a], clock) /\ rows \in [Assignment -> Row]
    BY DEF GrantStep, TableOK
  <1>3. row' = [rows EXCEPT ![a] = x] /\ clock \in Nat
    BY ActiveInt DEF GrantStep
  <1>4. rows[a].cancel = "no"
    BY <1>2 DEF Leasable
  <1> HIDE DEF x, s
  <1>5. \A b \in Assignment : row'[b] = IF b = a THEN x ELSE rows[b]
    BY <1>2, <1>3
  <1> QED BY <1>1, <1>2, <1>3, <1>4, <1>5, LeaseRowShape DEF x, s

\* GroupInv across a grant: the groups were recomputed before the lease, which settles nothing.
LEMMA GrantGroups ==
  ASSUME IInv, GroupInv, NEW q \in Request, NEW rows, NEW a \in Assignment, GrantStep(q, rows, a)
  PROVE  GroupInv'
  <1> DEFINE x == LeaseRow(rows[a], request[q].session, clock)
  <1>1. /\ Waiting(rows[a]) /\ rows[a].cancel = "no" /\ x.state = "leased"
        /\ \A b \in Assignment : row'[b] = IF b = a THEN x ELSE rows[b]
    BY GrantFacts
  <1>2. group \in [Group -> GroupRow] /\ group' = Recomputed(Group, rows) /\ active' = active
    BY DEF IInv, TypeOK, GrantStep
  <1>3. \A g \in Group : Created(g)' <=> Created(g)
    BY <1>2, StaleSame
  <1> HIDE DEF x
  <1>4. \A b \in Assignment : /\ row'[b].state = "absent" <=> row[b].state = "absent"
                              /\ Unfinished(row'[b]) <=> Unfinished(rows[b])
    BY <1>1 DEF GrantStep, TableKept, Kept, Waiting, WaitingState, Unfinished
  <1>5. \A b \in Assignment : ~Created(b[1])' => row'[b].state = "absent"
    BY <1>3, <1>4, MemberParts DEF GroupInv
  <1>6. \A g \in Group : Created(g)' => \E i \in Index : row'[<<g, i>>].state # "absent"
    BY <1>3, <1>4, Member DEF GroupInv
  <1>7. ASSUME NEW g \in Group, Created(g)'
        PROVE  group'[g].state = "ready" <=> Settled(row', g)
    <2>1. group'[g].state = "ready" <=> Settled(rows, g)
      BY <1>2, <1>3, <1>7, RecomputedKeeps
    <2>2. \A i \in Index : Unfinished(row'[<<g, i>>]) <=> Unfinished(rows[<<g, i>>])
      BY <1>4, Member
    <2> QED BY <2>1, <2>2, SettledSame
  <1>8. StaleWorkCancelled'
    <2>1. StaleGroups(active)' = StaleGroups(active)
      BY <1>2, StaleSame DEF StaleGroups
    <2>2. ASSUME NEW b \in Assignment, b[1] \in StaleGroups(active), Unfinished(row'[b])
          PROVE  row'[b].cancel = "requested"
      <3>1. Unfinished(rows[b]) => rows[b].cancel = "requested"
        BY <2>2 DEF GrantStep
      <3>2. b # a
        BY <1>1, <3>1 DEF Unfinished
      <3> QED BY <1>1, <1>4, <2>2, <3>1, <3>2
    <2> QED BY <2>1, <2>2 DEF StaleWorkCancelled
  <1>9. ReadyMeansSettled'
    BY <1>7 DEF ReadyMeansSettled, Settled
  <1> QED BY <1>5, <1>6, <1>8, <1>9 DEF GroupInv

\* What the accepted row of an AcceptStep is like.
LEMMA AcceptFacts ==
  ASSUME IInv, NEW l \in LeaseId, NEW p \in Payload, Submittable(row[l[1]], l[2], clock),
         row' = [row EXCEPT ![l[1]] = SucceedRow(row[l[1]], l[2], p)]
  PROVE  LET a == l[1] IN
         /\ a \in Assignment /\ l[2] \in Attempt /\ a[1] \in Group
         /\ row[a].state = "leased" /\ row'[a].state = "succeeded" /\ row'[a].result = p
         /\ \A m \in Attempt : m # l[2] => row'[a].lease[m] = row[a].lease[m]
         /\ \A b \in Assignment : b # a => row'[b] = row[b]
         /\ \A b \in Assignment : Kept(row[b], row'[b], clock)
  <1> DEFINE a == l[1]
             x == SucceedRow(row[a], l[2], p)
  <1>1. a \in Assignment /\ l[2] \in Attempt /\ a[1] \in Group
    BY LeaseIdParts
  <1>2. row[a] \in Row /\ RowInv(row[a]) /\ clock \in Nat /\ row \in [Assignment -> Row]
    BY <1>1, ActiveInt DEF IInv, TableOK
  <1>3. /\ Kept(row[a], x, clock) /\ x.state = "succeeded" /\ x.result = p
        /\ \A m \in Attempt : m # l[2] => x.lease[m] = row[a].lease[m]
    BY <1>1, <1>2, SucceedRowKept
  <1>4. row' = [row EXCEPT ![a] = x]
    OBVIOUS
  <1>5. row[a].state = "leased"
    BY DEF Submittable, Live
  <1> HIDE DEF a, x
  <1>6. row'[a] = x /\ \A b \in Assignment : b # a => row'[b] = row[b]
    BY <1>1, <1>2, <1>4
  <1>7. \A b \in Assignment : Kept(row[b], row'[b], clock)
    BY <1>2, <1>3, <1>6, KeptReflexive
  <1> QED BY <1>1, <1>3, <1>5, <1>6, <1>7 DEF a

\* GroupInv across an accepted result: only the group of the assignment can become settled.
LEMMA AcceptGroups == ASSUME IInv, GroupInv, AcceptStep PROVE GroupInv'
  <1>1. PICK l \in LeaseId, p \in Payload :
           /\ Submittable(row[l[1]], l[2], clock)
           /\ row' = [row EXCEPT ![l[1]] = SucceedRow(row[l[1]], l[2], p)]
           /\ group' = Recomputed({l[1][1]}, row')
           /\ UNCHANGED active
    BY DEF AcceptStep
  <1> DEFINE a == l[1]
  <1>2. /\ a \in Assignment /\ a[1] \in Group
        /\ row[a].state = "leased" /\ row'[a].state = "succeeded"
        /\ \A b \in Assignment : b # a => row'[b] = row[b]
        /\ \A b \in Assignment : Kept(row[b], row'[b], clock)
    BY <1>1, AcceptFacts
  <1>3. group \in [Group -> GroupRow] /\ group' = Recomputed({a[1]}, row')
    BY <1>1 DEF IInv, TypeOK
  <1> HIDE DEF a
  <1>4. \A g \in Group : Created(g)' <=> Created(g)
    BY <1>3, StaleSame
  <1>5. \A b \in Assignment : row'[b].state = "absent" <=> row[b].state = "absent"
    BY <1>2 DEF Kept
  <1>6. \A b \in Assignment : ~Created(b[1])' => row'[b].state = "absent"
    BY <1>4, <1>5, MemberParts DEF GroupInv
  <1>7. \A g \in Group : Created(g)' => \E i \in Index : row'[<<g, i>>].state # "absent"
    BY <1>4, <1>5, Member DEF GroupInv
  <1>8. ASSUME NEW g \in Group, Created(g)'
        PROVE  group'[g].state = "ready" <=> Settled(row', g)
    <2>1. CASE g = a[1]
      <3>1. g \in {a[1]} /\ Created(g)
        BY <1>4, <1>8, <2>1
      <3> QED BY <1>3, <3>1, RecomputedKeeps
    <2>2. CASE g # a[1]
      <3>1. group'[g] = group[g]
        BY <1>3, <2>2, RecomputedKeeps
      <3>2. \A i \in Index : row'[<<g, i>>] = row[<<g, i>>]
        BY <1>2, <2>2, Member
      <3> QED BY <1>4, <1>8, <3>1, <3>2, SettledSame DEF GroupInv, ReadyMeansSettled
    <2> QED BY <2>1, <2>2
  <1>9. StaleWorkCancelled'
    <2>1. StaleGroups(active)' = StaleGroups(active)
      BY <1>1, <1>3, StaleSame DEF StaleGroups
    <2>2. \A b \in Assignment : Unfinished(row'[b]) => row'[b] = row[b]
      BY <1>2 DEF Unfinished, Waiting, WaitingState
    <2> QED BY <2>1, <2>2 DEF GroupInv, StaleWorkCancelled
  <1>10. ReadyMeansSettled'
    BY <1>8 DEF ReadyMeansSettled, Settled
  <1> QED BY <1>6, <1>7, <1>9, <1>10 DEF GroupInv

\* What create_next_group does to the tables.
LEMMA GenerateFacts ==
  ASSUME IInv, NEW q \in Request, Generate(q)
  PROVE  \E s \in Source, g \in Group :
           /\ CreateGroup(g, s)
           /\ group'[g] = [state |-> "collecting", source |-> s, policy |-> active]
           /\ \A h \in Group : h # g => group'[h] = group[h]
           /\ 1 .. GroupSize[s] \subseteq Index /\ 1 \in 1 .. GroupSize[s]
           /\ \A a \in Assignment :
                 IF a[1] = g /\ a[2] \in 1 .. GroupSize[s]
                 THEN /\ row'[a].state = "pending"
                      /\ \A n \in Attempt : row'[a].lease[n] = NoLease
                 ELSE row'[a] = row[a]
  <1>1. PICK s \in Source, g \in Group : CreateGroup(g, s)
    BY DEF Generate
  <1>2. /\ group'[g] = [state |-> "collecting", source |-> s, policy |-> active]
        /\ \A h \in Group : h # g => group'[h] = group[h]
    BY <1>1 DEF CreateGroup, IInv, TypeOK
  <1>3. 1 .. GroupSize[s] \subseteq Index /\ 1 \in 1 .. GroupSize[s]
    BY CoordinatorAssumption DEF Index
  <1>4. \A a \in Assignment :
           row'[a] = IF a[1] = g /\ a[2] \in 1 .. GroupSize[s]
                     THEN NewRow(clock, IF Timeout[s] = 0 THEN NoDeadline ELSE clock + Timeout[s],
                                 MaxAttempts[s])
                     ELSE row[a]
    BY <1>1 DEF CreateGroup, NewRows
  <1>5. \A d, m : LET x == NewRow(clock, d, m) IN
                  x.state = "pending" /\ \A n \in Attempt : x.lease[n] = NoLease
    BY DEF NewRow, AbsentRow
  <1>6. \A a \in Assignment :
           IF a[1] = g /\ a[2] \in 1 .. GroupSize[s]
           THEN /\ row'[a].state = "pending"
                /\ \A n \in Attempt : row'[a].lease[n] = NoLease
           ELSE row'[a] = row[a]
    BY <1>4, <1>5
  <1> QED BY <1>1, <1>2, <1>3, <1>6

\* GroupInv across create_next_group: the new group pins the active policy, so it is not stale.
LEMMA GenerateGroups == ASSUME IInv, GroupInv, NEW q \in Request, Generate(q) PROVE GroupInv'
  <1>1. PICK s \in Source, g \in Group :
           /\ CreateGroup(g, s)
           /\ group'[g] = [state |-> "collecting", source |-> s, policy |-> active]
           /\ \A h \in Group : h # g => group'[h] = group[h]
           /\ 1 .. GroupSize[s] \subseteq Index /\ 1 \in 1 .. GroupSize[s]
           /\ \A a \in Assignment :
                 IF a[1] = g /\ a[2] \in 1 .. GroupSize[s]
                 THEN /\ row'[a].state = "pending"
                      /\ \A n \in Attempt : row'[a].lease[n] = NoLease
                 ELSE row'[a] = row[a]
    BY GenerateFacts
  <1>2. active' = active
    BY DEF Generate
  <1>3. Created(g)' /\ \A h \in Group : h # g => (Created(h)' <=> Created(h))
    BY <1>1 DEF Created
  <1>4. \A a \in Assignment : a[1] # g => row'[a] = row[a]
    BY <1>1
  <1>5. 1 \in Index /\ <<g, 1>> \in Assignment /\ row'[<<g, 1>>].state = "pending"
    BY <1>1, Member
  <1>6. \A a \in Assignment : ~Created(a[1])' => row'[a].state = "absent"
    BY <1>3, <1>4, MemberParts DEF GroupInv
  <1>7. \A h \in Group : Created(h)' => \E i \in Index : row'[<<h, i>>].state # "absent"
    <2> TAKE h \in Group
    <2>1. CASE h = g
      BY <1>5, <2>1
    <2>2. CASE h # g
      BY <1>3, <1>4, <2>2, Member DEF GroupInv
    <2> QED BY <2>1, <2>2
  <1>8. ASSUME NEW h \in Group, Created(h)'
        PROVE  group'[h].state = "ready" <=> Settled(row', h)
    <2>1. CASE h = g
      <3>1. group'[g].state = "collecting"
        BY <1>1
      <3>2. ~Settled(row', g)
        BY <1>5 DEF Settled, Unfinished, Waiting, WaitingState
      <3> QED BY <2>1, <3>1, <3>2
    <2>2. CASE h # g
      <3>1. \A i \in Index : row'[<<h, i>>] = row[<<h, i>>]
        BY <1>4, <2>2, Member
      <3>2. group'[h] = group[h]
        BY <1>1, <2>2
      <3> QED BY <1>3, <1>8, <2>2, <3>1, <3>2, SettledSame DEF GroupInv, ReadyMeansSettled
    <2> QED BY <2>1, <2>2
  <1>9. StaleWorkCancelled'
    <2>1. g \notin StaleGroups(active)'
      <3>1. ~(active - active > MaxPolicyLag)
        BY ActiveInt, CoordinatorAssumption
      <3>2. group'[g].policy = active
        BY <1>1
      <3> QED BY <1>2, <3>1, <3>2 DEF StaleGroups
    <2>2. \A h \in Group : h # g => (h \in StaleGroups(active)' <=> h \in StaleGroups(active))
      BY <1>1, <1>2, <1>3 DEF StaleGroups
    <2> QED BY <1>4, <2>1, <2>2, MemberParts DEF GroupInv, StaleWorkCancelled
  <1>10. ReadyMeansSettled'
    BY <1>8 DEF ReadyMeansSettled, Settled
  <1> QED BY <1>6, <1>7, <1>9, <1>10 DEF GroupInv

\* The empty tables satisfy GroupInv.
LEMMA GroupInvInit == Init => GroupInv
  BY DEF Init, GroupInv, ReadyMeansSettled, StaleWorkCancelled, StaleGroups, Created, AbsentGroup, AbsentRow

\* Every step preserves GroupInv.
LEMMA GroupInvStep == IInv /\ GroupInv /\ [Next]_vars => GroupInv'
  BY StepShape, QuietGroups, SweepGroups, GrantGroups, AcceptGroups, GenerateGroups

\* GroupInv is an invariant of the coordinator.
LEMMA GroupInductive == Spec => []GroupInv
  BY Inductive, GroupInvInit, GroupInvStep, PTL DEF Spec

\* A group is ready exactly when all its assignments are terminal: no path that ends an
\* assignment - result, failure, expiry, deadline, cancellation, restart - leaves its group
\* behind.
THEOREM GroupsReadyWhenSettled == Spec => []ReadyMeansSettled
  <1>1. GroupInv => ReadyMeansSettled
    BY DEF GroupInv
  <1> QED BY <1>1, GroupInductive, PTL

\* From the moment a policy is activated the train groups it makes stale hold no work that
\* could be handed out, and every lease in them is cancelled.
THEOREM StaleWorkIsCancelled == Spec => []StaleWorkCancelled
  <1>1. GroupInv => StaleWorkCancelled
    BY DEF GroupInv
  <1> QED BY <1>1, GroupInductive, PTL

-----------------------------------------------------------------------------
(* What no step may do to a lease.                                         *)

\* Every step respects LateAnswersLose.
LEMMA LateAnswersLoseStep ==
  ASSUME IInv, GroupInv, [Next]_vars, NEW l \in LeaseId
  PROVE  LET old == row[l[1]].lease[l[2]]
             new == row'[l[1]].lease[l[2]]
         IN  /\ old.state \in {"succeeded", "failed", "expired"} => new.state = old.state
             /\ old.state = "active" /\ old.expires <= clock =>
                   new.state \in {"active", "expired"} /\ new.expires = old.expires
  <1> DEFINE a == l[1]
             n == l[2]
             Goal(old, new) ==
                 /\ old.state \in {"succeeded", "failed", "expired"} => new.state = old.state
                 /\ old.state = "active" /\ old.expires <= clock =>
                       new.state \in {"active", "expired"} /\ new.expires = old.expires
  <1> SUFFICES Goal(row[a].lease[n], row'[a].lease[n])
    OBVIOUS
  <1>1. a \in Assignment /\ n \in Attempt
    BY LeaseIdParts
  <1>2. \A r, x : Kept(r, x, clock) => Goal(r.lease[n], x.lease[n])
    BY <1>1 DEF Kept, LeaseKept, Closed
  <1>3. CASE QuietStep
    BY <1>3 DEF QuietStep
  <1>4. CASE SweepStep
    BY <1>1, <1>2, <1>4 DEF SweepStep, TableKept
  <1>5. CASE AcceptStep
    <2>1. Kept(row[a], row'[a], clock)
      BY <1>1, <1>5, AcceptFacts DEF AcceptStep
    <2> QED BY <1>2, <2>1
  <1>6. ASSUME NEW q \in Request, NEW b \in Assignment, NEW rows, GrantStep(q, rows, b)
        PROVE  Goal(row[a].lease[n], row'[a].lease[n])
    <2>1. Kept(row[a], rows[a], clock)
      BY <1>1, <1>6 DEF GrantStep, TableKept
    <2>2. \/ row'[a].lease[n] = rows[a].lease[n]
          \/ rows[a].lease[n].state = "none"
      BY <1>1, <1>6, GrantFacts
    <2>3. rows[a].lease[n].state = "none" => row[a].lease[n].state = "none"
      BY <1>1, <2>1 DEF Kept, LeaseKept
    <2>4. Goal(row[a].lease[n], rows[a].lease[n])
      BY <1>2, <2>1
    <2> QED BY <2>2, <2>3, <2>4
  <1>7. ASSUME NEW q \in Request, Generate(q)
        PROVE  Goal(row[a].lease[n], row'[a].lease[n])
    <2>1. PICK g \in Group : ~Created(g) /\ (a[1] # g => row'[a] = row[a])
      BY <1>1, <1>7, GenerateFacts DEF CreateGroup, NextGroup
    <2>2. a[1] = g => row[a].lease[n].state = "none"
      <3>1. a[1] = g => row[a].state = "absent"
        BY <1>1, <2>1 DEF GroupInv
      <3>2. BudgetKept(row[a])
        BY <1>1 DEF IInv, TableOK, RowInv
      <3> QED BY <1>1, <3>1, <3>2 DEF BudgetKept, Attempt
    <2> QED BY <2>1, <2>2
  <1> HIDE DEF Goal
  <1> QED BY <1>3, <1>4, <1>5, <1>6, <1>7, StepShape

\* A late answer loses: a lease that has expired by the clock is neither renewed nor
\* accepted a result for, even before the reaper has marked it, and a closed lease stays
\* closed.
THEOREM LateAnswersAlwaysLose == Spec => LateAnswersLose
  <1>1. IInv /\ GroupInv /\ [Next]_vars =>
          [\A l \in LeaseId :
              LET old == row[l[1]].lease[l[2]]
                  new == row'[l[1]].lease[l[2]]
              IN  /\ old.state \in {"succeeded", "failed", "expired"} => new.state = old.state
                  /\ old.state = "active" /\ old.expires <= clock =>
                        new.state \in {"active", "expired"} /\ new.expires = old.expires]_vars
    BY LateAnswersLoseStep
  <1> QED BY <1>1, Inductive, GroupInductive, PTL DEF Spec, LateAnswersLose

\* Every step respects NoStaleLease: the sweep cancelled whatever is stale.
LEMMA NoStaleLeaseStep ==
  ASSUME IInv, [Next]_vars, NEW l \in LeaseId,
         row[l[1]].lease[l[2]].state = "none", row'[l[1]].lease[l[2]].state # "none"
  PROVE  l[1][1] \notin StaleGroups(active)
  <1> DEFINE a == l[1]
             n == l[2]
  <1>1. a \in Assignment /\ n \in Attempt
    BY LeaseIdParts
  <1>2. \A r, x : Kept(r, x, clock) => (r.lease[n].state = "none" <=> x.lease[n].state = "none")
    BY <1>1 DEF Kept, LeaseKept
  <1>3. ~QuietStep
    BY DEF QuietStep
  <1>4. ~SweepStep
    BY <1>1, <1>2 DEF SweepStep, TableKept
  <1>5. ~AcceptStep
    BY <1>1, <1>2, AcceptFacts DEF AcceptStep
  <1>6. ASSUME NEW q \in Request, Generate(q) PROVE FALSE
    <2>1. row'[a] = row[a] \/ row'[a].lease[n] = NoLease
      BY <1>1, <1>6, GenerateFacts
    <2> QED BY <2>1 DEF NoLease
  <1>7. ASSUME NEW q \in Request, NEW b \in Assignment, NEW rows, GrantStep(q, rows, b)
        PROVE  a[1] \notin StaleGroups(active)
    <2>1. Kept(row[a], rows[a], clock)
      BY <1>1, <1>7 DEF GrantStep, TableKept
    <2>2. rows[a].lease[n].state = "none"
      BY <1>1, <1>2, <2>1
    <2>3. a = b
      BY <1>1, <1>7, <2>2, GrantFacts
    <2>4. Waiting(rows[a]) /\ rows[a].cancel = "no"
      BY <1>7, <2>3, GrantFacts
    <2> QED BY <1>1, <1>7, <2>4 DEF GrantStep, Unfinished
  <1> QED BY <1>3, <1>4, <1>5, <1>6, <1>7, StepShape

\* Leases are issued only for work that is not stale.
THEOREM StaleWorkIsNotLeased == Spec => NoStaleLease
  <1>1. IInv /\ [Next]_vars =>
          [\A l \in LeaseId :
              row[l[1]].lease[l[2]].state = "none" /\ row'[l[1]].lease[l[2]].state # "none"
              => l[1][1] \notin StaleGroups(active)]_vars
    BY NoStaleLeaseStep
  <1> QED BY <1>1, Inductive, PTL DEF Spec, NoStaleLease

-----------------------------------------------------------------------------
(* The fair share of sources.                                              *)

\* No source is ahead of another by more than one of its own groups, however long the run:
\* the source that creates a group is never ahead before it does.
THEOREM SourcesShareFairly == Spec => []FairShare
  <1>1. Init => FairShare
    BY CoordinatorAssumption DEF Init, FairShare
  <1>2. IInv /\ FairShare /\ [Next]_vars => FairShare'
    <2> SUFFICES ASSUME IInv, FairShare, [Next]_vars PROVE FairShare'
      OBVIOUS
    <2>1. vfinish \in [Source -> Nat]
      BY DEF IInv, TypeOK
    <2>2. CASE vfinish' = vfinish
      BY <2>2 DEF FairShare
    <2>3. ASSUME NEW q \in Request, Generate(q) PROVE FairShare'
      <3>1. PICK s \in Source, g \in Group : CreateGroup(g, s)
        BY <2>3 DEF Generate
      <3>2. Cost \in [Source -> Nat \ {0}]
        BY CoordinatorAssumption
      <3>3. /\ vfinish' = [vfinish EXCEPT ![s] = vfinish[s] + Cost[s]]
            /\ \A t \in Source : vfinish[s] <= vfinish[t]
        BY <2>1, <3>1 DEF CreateGroup, NextSource
      <3>4. \A t \in Source : vfinish'[t] = IF t = s THEN vfinish[s] + Cost[s] ELSE vfinish[t]
        BY <2>1, <3>3
      <3>5. ASSUME NEW t \in Source, NEW u \in Source PROVE vfinish'[t] <= vfinish'[u] + Cost[t]
        <4>1. vfinish[t] <= vfinish[u] + Cost[t] /\ vfinish[s] <= vfinish[u]
          BY <3>3 DEF FairShare
        <4>2. /\ vfinish[t] \in Nat /\ vfinish[u] \in Nat /\ vfinish[s] \in Nat
              /\ Cost[t] \in Nat /\ Cost[s] \in Nat
          BY <2>1, <3>2
        <4> QED BY <3>4, <4>1, <4>2
      <3> QED BY <3>5 DEF FairShare
    <2> QED BY <2>2, <2>3, StepShape DEF QuietStep, SweepStep, GrantStep, AcceptStep
  <1> QED BY <1>1, <1>2, Inductive, PTL DEF Spec

-----------------------------------------------------------------------------
(* Accepted results and their files.                                       *)

\* A lease that succeeded belongs to an assignment that did.
SuccessAgrees(rows) ==
    \A a \in Assignment, n \in Attempt :
        rows[a].lease[n].state = "succeeded" => rows[a].state = "succeeded"

\* The file named by a call under way is in the spool, and a stopped process has no call.
SpoolInv ==
    /\ ResultsOnDisk
    /\ SuccessAgrees(row)
    /\ call \in ResultCall => call.file \in spool
    /\ ~up => call = NoCall

\* Steps that accept nothing refer to no new file.
LEMMA ReferencedShrinks ==
  ASSUME NEW rows, NEW xs, TableKept(rows, xs), SuccessAgrees(rows)
  PROVE  Referenced(xs) \subseteq Referenced(rows) /\ SuccessAgrees(xs)
  <1>1. ASSUME NEW a \in Assignment, NEW n \in Attempt, xs[a].lease[n].state = "succeeded"
        PROVE  /\ rows[a].lease[n].state = "succeeded"
               /\ xs[a].state = "succeeded" /\ xs[a].result = rows[a].result
    <2>1. rows[a].lease[n].state = "succeeded"
      BY <1>1 DEF TableKept, NothingAccepted
    <2>2. rows[a].state = "succeeded"
      BY <2>1 DEF SuccessAgrees
    <2> QED BY <2>1, <2>2 DEF TableKept, Kept, Terminal, TerminalState
  <1>2. SuccessAgrees(xs)
    BY <1>1 DEF SuccessAgrees
  <1>3. ASSUME NEW f \in Referenced(xs) PROVE f \in Referenced(rows)
    <2>1. /\ f \in LeaseId \X Payload /\ f[1] \in LeaseId
          /\ xs[f[1][1]].result = f[2] /\ xs[f[1][1]].lease[f[1][2]].state = "succeeded"
      BY DEF Referenced
    <2>2. f[1][1] \in Assignment /\ f[1][2] \in Attempt
      BY <2>1, LeaseIdParts
    <2> QED BY <1>1, <2>1, <2>2 DEF Referenced
  <1> QED BY <1>2, <1>3

\* Leasing refers to no file either.
LEMMA GrantReferences ==
  ASSUME IInv, NEW q \in Request, NEW rows, NEW a \in Assignment, GrantStep(q, rows, a), SuccessAgrees(row)
  PROVE  Referenced(row') \subseteq Referenced(row) /\ SuccessAgrees(row')
  <1>1. Referenced(rows) \subseteq Referenced(row) /\ SuccessAgrees(rows)
    BY ReferencedShrinks DEF GrantStep
  <1>2. ASSUME NEW b \in Assignment, NEW m \in Attempt, row'[b].lease[m].state = "succeeded"
        PROVE  rows[b].lease[m].state = "succeeded" /\ row'[b] = rows[b]
    <2>1. b # a => row'[b] = rows[b]
      BY GrantFacts
    <2>2. b = a => rows[b].lease[m].state = "succeeded"
      BY <1>2, GrantFacts
    <2>3. b # a
      BY <1>1, <2>2, GrantFacts DEF SuccessAgrees, Waiting, WaitingState
    <2> QED BY <1>2, <2>1, <2>3
  <1>3. SuccessAgrees(row')
    BY <1>1, <1>2 DEF SuccessAgrees
  <1>4. ASSUME NEW f \in Referenced(row') PROVE f \in Referenced(rows)
    <2>1. /\ f \in LeaseId \X Payload /\ f[1] \in LeaseId
          /\ row'[f[1][1]].result = f[2] /\ row'[f[1][1]].lease[f[1][2]].state = "succeeded"
      BY DEF Referenced
    <2>2. f[1][1] \in Assignment /\ f[1][2] \in Attempt
      BY <2>1, LeaseIdParts
    <2> QED BY <1>2, <2>1, <2>2 DEF Referenced
  <1> QED BY <1>1, <1>3, <1>4

\* Accepting a result refers to the file of that result and to no other new one.
LEMMA AcceptReferences ==
  ASSUME IInv, SuccessAgrees(row), NEW l \in LeaseId, NEW p \in Payload,
         Submittable(row[l[1]], l[2], clock),
         row' = [row EXCEPT ![l[1]] = SucceedRow(row[l[1]], l[2], p)]
  PROVE  Referenced(row') \subseteq Referenced(row) \cup {<<l, p>>} /\ SuccessAgrees(row')
  <1> DEFINE a == l[1]
  <1>1. /\ a \in Assignment /\ l[2] \in Attempt /\ l = <<a, l[2]>>
        /\ row[a].state = "leased" /\ row'[a].state = "succeeded" /\ row'[a].result = p
        /\ \A m \in Attempt : m # l[2] => row'[a].lease[m] = row[a].lease[m]
        /\ \A b \in Assignment : b # a => row'[b] = row[b]
    <2>1. l = <<a, l[2]>>
      BY DEF LeaseId
    <2> QED BY <2>1, AcceptFacts
  <1> HIDE DEF a
  <1>2. \A m \in Attempt : row[a].lease[m].state # "succeeded"
    BY <1>1 DEF SuccessAgrees
  <1>3. SuccessAgrees(row')
    BY <1>1 DEF SuccessAgrees
  <1>4. ASSUME NEW f \in Referenced(row') PROVE f \in Referenced(row) \cup {<<l, p>>}
    <2>1. /\ f \in LeaseId \X Payload /\ f[1] \in LeaseId /\ f = <<f[1], f[2]>>
          /\ row'[f[1][1]].result = f[2] /\ row'[f[1][1]].lease[f[1][2]].state = "succeeded"
      BY DEF Referenced
    <2>2. f[1][1] \in Assignment /\ f[1][2] \in Attempt /\ f[1] = <<f[1][1], f[1][2]>>
      BY <2>1, LeaseIdParts DEF LeaseId
    <2>3. CASE f[1][1] # a
      BY <1>1, <2>1, <2>2, <2>3 DEF Referenced
    <2>4. CASE f[1][1] = a
      <3>1. f[1][2] = l[2]
        BY <1>1, <1>2, <2>1, <2>2, <2>4
      <3>2. f[1] = l /\ f[2] = p
        BY <1>1, <2>1, <2>2, <2>4, <3>1
      <3> QED BY <2>1, <3>2
    <2> QED BY <2>3, <2>4
  <1> QED BY <1>3, <1>4

\* What every step does to the files that rows refer to.
LEMMA ReferencesStep ==
  ASSUME IInv, [Next]_vars, SuccessAgrees(row)
  PROVE  /\ SuccessAgrees(row')
         /\ \/ Referenced(row') \subseteq Referenced(row)
            \/ /\ call \in ResultCall /\ spool' = spool
               /\ Referenced(row') \subseteq Referenced(row) \cup {call.file}
  <1> DEFINE Goal == /\ SuccessAgrees(row')
                     /\ \/ Referenced(row') \subseteq Referenced(row)
                        \/ /\ call \in ResultCall /\ spool' = spool
                           /\ Referenced(row') \subseteq Referenced(row) \cup {call.file}
  <1> SUFFICES Goal
    OBVIOUS
  <1>1. CASE QuietStep
    BY <1>1 DEF QuietStep
  <1>2. CASE SweepStep
    BY <1>2, ReferencedShrinks DEF SweepStep
  <1>3. CASE AcceptStep
    <2>1. PICK l \in LeaseId, p \in Payload :
             /\ call \in ResultCall /\ call.file = <<l, p>> /\ spool' = spool
             /\ Submittable(row[l[1]], l[2], clock)
             /\ row' = [row EXCEPT ![l[1]] = SucceedRow(row[l[1]], l[2], p)]
      BY <1>3 DEF AcceptStep
    <2> QED BY <2>1, AcceptReferences
  <1>4. ASSUME NEW q \in Request, NEW a \in Assignment, NEW rows, GrantStep(q, rows, a) PROVE Goal
    BY <1>4, GrantReferences
  <1>5. ASSUME NEW q \in Request, Generate(q) PROVE Goal
    <2>1. \A a \in Assignment :
            \/ row'[a] = row[a]
            \/ \A n \in Attempt : row'[a].lease[n] = NoLease
      BY <1>5, GenerateFacts
    <2>2. SuccessAgrees(row')
      BY <2>1 DEF SuccessAgrees, NoLease
    <2>3. ASSUME NEW f \in Referenced(row') PROVE f \in Referenced(row)
      <3>1. /\ f \in LeaseId \X Payload /\ f[1] \in LeaseId
            /\ row'[f[1][1]].result = f[2] /\ row'[f[1][1]].lease[f[1][2]].state = "succeeded"
        BY DEF Referenced
      <3>2. f[1][1] \in Assignment /\ f[1][2] \in Attempt
        BY <3>1, LeaseIdParts
      <3>3. row'[f[1][1]] = row[f[1][1]]
        BY <2>1, <3>1, <3>2 DEF NoLease
      <3> QED BY <3>1, <3>3 DEF Referenced
    <2> QED BY <2>2, <2>3
  <1> HIDE DEF Goal
  <1> QED BY <1>1, <1>2, <1>3, <1>4, <1>5, StepShape

\* What every step does to the spool and the call.
LEMMA SpoolStep ==
  ASSUME IInv, [Next]_vars, SpoolInv
  PROVE  /\ spool \cap Referenced(row) \subseteq spool'
         /\ call' \in ResultCall => call'.file \in spool'
         /\ ~up' => call' = NoCall
  <1> DEFINE Goal == /\ spool \cap Referenced(row) \subseteq spool'
                     /\ call' \in ResultCall => call'.file \in spool'
                     /\ ~up' => call' = NoCall
  <1> SUFFICES Goal
    OBVIOUS
  <1>1. NoCall \notin ResultCall /\ \A step, q : LeaseStep(step, q) # NoCall
    BY DEF NoCall, ResultCall, LeaseStep
  <1>2. \A q : LeaseStep("generate", q) \notin ResultCall /\ LeaseStep("lease", q) \notin ResultCall
    BY DEF ResultCall, LeaseStep
  <1>3. CASE UNCHANGED <<spool, call, up>>
    BY <1>3 DEF SpoolInv
  <1>4. CASE Crash \/ CommitResult
    BY <1>1, <1>4 DEF Crash, CommitResult, SpoolInv
  <1>5. CASE Recover
    BY <1>1, <1>5 DEF Recover, SpoolInv
  <1>6. ASSUME NEW q \in Request, LeaseOrCreate(q) \/ Generate(q) \/ GenerateNothing(q) \/ LeaseGenerated(q)
        PROVE  Goal
    <2>1. spool' = spool /\ up' = up /\ up
      BY <1>1, <1>6 DEF LeaseOrCreate, Generate, GenerateNothing, LeaseGenerated, Idle, SpoolInv
    <2>2. call' = NoCall \/ call' = LeaseStep("generate", q) \/ call' = LeaseStep("lease", q)
      BY <1>6 DEF LeaseOrCreate, Generate, GenerateNothing, LeaseGenerated
    <2> QED BY <1>1, <1>2, <2>1, <2>2
  <1>7. ASSUME NEW l \in LeaseId, NEW p \in Payload, PublishResult(l, p) PROVE Goal
    BY <1>7 DEF PublishResult, Idle
  <1>8. CASE \/ Tick \/ ActivatePolicy \/ ExpireLeases
             \/ \E s \in Session : RegisterWorker(s)
             \/ \E q \in Request, s \in Session, loaded \in LoadedSets : ValidateLeaseRequest(q, s, loaded)
             \/ \E q \in Request : MarkNoWork(q)
             \/ \E s \in Session, H \in SUBSET LeaseId : RecordHeartbeat(s, H)
             \/ \E l \in LeaseId : RenewOne(l)
             \/ \E l \in LeaseId, retryable \in BOOLEAN : AcceptFailure(l, retryable)
    BY <1>3, <1>8 DEF Tick, ActivatePolicy, ExpireLeases, RegisterWorker, ValidateLeaseRequest, MarkNoWork,
       RecordHeartbeat, RenewOne, AcceptFailure
  <1> HIDE DEF Goal
  <1>9. UNCHANGED vars => UNCHANGED <<spool, call, up>>
    BY DEF vars
  <1> QED BY <1>3, <1>4, <1>5, <1>6, <1>7, <1>8, <1>9 DEF Next

\* The empty spool satisfies SpoolInv.
LEMMA SpoolInvInit == Init => SpoolInv
  <1> SUFFICES ASSUME Init PROVE SpoolInv
    OBVIOUS
  <1>1. \A a \in Assignment, n \in Attempt : row[a].lease[n].state = "none"
    BY DEF Init, AbsentRow, NoLease
  <1>2. Referenced(row) = {}
    BY <1>1, LeaseIdParts DEF Referenced
  <1> QED BY <1>1, <1>2 DEF Init, SpoolInv, ResultsOnDisk, SuccessAgrees, NoCall, ResultCall

\* Every step preserves SpoolInv.
LEMMA SpoolInvStep == IInv /\ SpoolInv /\ [Next]_vars => SpoolInv'
  <1> SUFFICES ASSUME IInv, SpoolInv, [Next]_vars PROVE SpoolInv'
    OBVIOUS
  <1>1. SuccessAgrees(row) /\ Referenced(row) \subseteq spool
    BY DEF SpoolInv, ResultsOnDisk
  <1>2. Referenced(row') \subseteq spool'
    BY <1>1, ReferencesStep, SpoolStep DEF SpoolInv
  <1>3. SuccessAgrees(row')
    BY <1>1, ReferencesStep
  <1>4. ResultsOnDisk' /\ SuccessAgrees(row)'
    BY <1>2, <1>3 DEF ResultsOnDisk, Referenced, SuccessAgrees
  <1> QED BY <1>4, SpoolStep DEF SpoolInv

\* The file of every accepted result is in the spool: publication comes before the
\* transaction that refers to the file, and recover's clean-up spares what rows refer to,
\* wherever the process was stopped in between.
THEOREM AcceptedResultsOnDisk == Spec => []ResultsOnDisk
  <1>1. SpoolInv => ResultsOnDisk
    BY DEF SpoolInv
  <1> QED BY <1>1, Inductive, SpoolInvInit, SpoolInvStep, PTL DEF Spec

-----------------------------------------------------------------------------
(* Requests and the leases that answer them.                               *)

\* A request holds a lease exactly once it is answered, and that lease has been issued.
RequestInv ==
    /\ LeaseAnswersOneRequest
    /\ \A q \in Request :
          IF request[q].state = "leased"
          THEN row[request[q].lease[1]].lease[request[q].lease[2]].state # "none"
          ELSE request[q].lease = None

\* No lease is issued and no issued lease changes hands.
LeasesStay(rows, xs) ==
    \A a \in Assignment, n \in Attempt :
        /\ xs[a].lease[n].state = "none" <=> rows[a].lease[n].state = "none"
        /\ rows[a].lease[n].state # "none" => xs[a].lease[n].session = rows[a].lease[n].session

\* No request is answered and no answer changes.
RequestsStay ==
    \A q \in Request :
        /\ request'[q].state = "leased" <=> request[q].state = "leased"
        /\ request'[q].lease = request[q].lease
        /\ request[q].state = "leased" => request'[q].session = request[q].session

\* Rows that evolve as allowed keep every lease issued, with its session.
LEMMA KeptLeasesStay ==
  ASSUME NEW rows, NEW xs, \A a \in Assignment : Kept(rows[a], xs[a], clock)
  PROVE  LeasesStay(rows, xs)
  BY DEF LeasesStay, Kept, LeaseKept

\* Only a grant issues leases; every other step keeps those there are.
LEMMA LeasesStayStep ==
  ASSUME IInv, GroupInv, [Next]_vars
  PROVE  \/ LeasesStay(row, row')
         \/ \E q \in Request, a \in Assignment : \E rows : GrantStep(q, rows, a)
  <1>1. CASE QuietStep
    BY <1>1 DEF QuietStep, LeasesStay
  <1>2. CASE SweepStep
    BY <1>2, KeptLeasesStay DEF SweepStep, TableKept
  <1>3. CASE AcceptStep
    BY <1>3, AcceptFacts, KeptLeasesStay DEF AcceptStep
  <1>4. ASSUME NEW q \in Request, Generate(q) PROVE LeasesStay(row, row')
    <2>1. PICK g \in Group :
             /\ ~Created(g)
             /\ \A a \in Assignment : \/ row'[a] = row[a]
                                      \/ a[1] = g /\ \A n \in Attempt : row'[a].lease[n] = NoLease
      BY <1>4, GenerateFacts DEF CreateGroup, NextGroup
    <2>2. ASSUME NEW a \in Assignment, a[1] = g, NEW n \in Attempt PROVE row[a].lease[n].state = "none"
      <3>1. row[a].state = "absent"
        BY <2>1, <2>2 DEF GroupInv
      <3>2. BudgetKept(row[a])
        BY DEF IInv, TableOK, RowInv
      <3> QED BY <3>1, <3>2 DEF BudgetKept, Attempt
    <2> QED BY <2>1, <2>2 DEF LeasesStay, NoLease
  <1> QED BY <1>1, <1>2, <1>3, <1>4, StepShape

\* Only a grant answers requests with a lease; every other step keeps those answered.
LEMMA RequestsStayStep ==
  ASSUME IInv, RequestInv, [Next]_vars
  PROVE  \/ RequestsStay
         \/ \E q \in Request, a \in Assignment : \E rows : GrantStep(q, rows, a)
  <1>1. CASE request' = request
    BY <1>1 DEF RequestsStay
  <1>2. request \in [Request -> RequestRow]
    BY DEF IInv, TypeOK
  <1>3. ASSUME NEW q \in Request, NEW s \in Session, NEW loaded \in LoadedSets,
               ValidateLeaseRequest(q, s, loaded)
        PROVE  RequestsStay
    <2> DEFINE new == [state |-> "pending", session |-> s, loaded |-> loaded, lease |-> None]
    <2>1. request[q].state = "absent" /\ request' = [request EXCEPT ![q] = new]
      BY <1>3 DEF ValidateLeaseRequest
    <2>2. request[q].lease = None
      BY <2>1 DEF RequestInv
    <2>3. \A p \in Request : request'[p] = IF p = q THEN new ELSE request[p]
      BY <1>2, <2>1
    <2> QED BY <2>1, <2>2, <2>3 DEF RequestsStay
  <1>4. ASSUME NEW q \in Request, MarkNoWork(q) PROVE RequestsStay
    <2>1. request[q] \in RequestRow /\ request[q].state = "pending"
      BY <1>2, <1>4 DEF MarkNoWork
    <2>2. \A p \in Request : request'[p] = IF p = q THEN [request[q] EXCEPT !.state = "no_work"] ELSE request[p]
      BY <1>2, <1>4 DEF MarkNoWork
    <2> QED BY <2>1, <2>2 DEF RequestsStay, RequestRow
  <1>5. ASSUME NEW q \in Request, LeaseOrCreate(q) \/ LeaseGenerated(q)
        PROVE  request' = request \/ \E a \in Assignment : \E rows : GrantStep(q, rows, a)
    BY <1>5, LeaseShape
  <1>6. CASE \/ Tick \/ ActivatePolicy \/ ExpireLeases \/ CommitResult \/ Crash \/ Recover \/ UNCHANGED vars
             \/ \E s \in Session : RegisterWorker(s)
             \/ \E q \in Request : Generate(q) \/ GenerateNothing(q)
             \/ \E s \in Session, H \in SUBSET LeaseId : RecordHeartbeat(s, H)
             \/ \E l \in LeaseId : RenewOne(l)
             \/ \E l \in LeaseId, p \in Payload : PublishResult(l, p)
             \/ \E l \in LeaseId, retryable \in BOOLEAN : AcceptFailure(l, retryable)
    <2>1. request' = request
      BY <1>6 DEF Tick, ActivatePolicy, ExpireLeases, CommitResult, Crash, Recover, vars, RegisterWorker,
         Generate, GenerateNothing, RecordHeartbeat, RenewOne, PublishResult, AcceptFailure
    <2> QED BY <1>1, <2>1
  <1> QED BY <1>1, <1>3, <1>4, <1>5, <1>6 DEF Next

\* RequestInv across steps that issue no lease.
LEMMA RequestInvStay ==
  ASSUME IInv, RequestInv, RequestsStay, LeasesStay(row, row') PROVE RequestInv'
  <1>1. ASSUME NEW q \in Request, request'[q].state = "leased"
        PROVE  /\ request'[q].lease \in LeaseId
               /\ row'[request'[q].lease[1]].lease[request'[q].lease[2]].session = request'[q].session
               /\ row'[request'[q].lease[1]].lease[request'[q].lease[2]].state # "none"
    <2> DEFINE l == request[q].lease
    <2>1. request[q].state = "leased" /\ request'[q].lease = l /\ request'[q].session = request[q].session
      BY <1>1 DEF RequestsStay
    <2>2. /\ l \in LeaseId /\ row[l[1]].lease[l[2]].session = request[q].session
          /\ row[l[1]].lease[l[2]].state # "none"
      BY <2>1 DEF RequestInv, LeaseAnswersOneRequest, LeaseSession
    <2>3. l[1] \in Assignment /\ l[2] \in Attempt
      BY <2>2, LeaseIdParts
    <2> QED BY <2>1, <2>2, <2>3 DEF LeasesStay
  <1>2. \A q \in Request : request'[q].state # "leased" => request'[q].lease = None
    BY DEF RequestInv, RequestsStay
  <1>3. ASSUME NEW l \in LeaseId, row'[l[1]].lease[l[2]].state # "none"
        PROVE  \E q \in Request : /\ request'[q].state = "leased" /\ request'[q].lease = l
                                  /\ \A p \in Request \ {q} : request'[p].lease # l
    <2>1. row[l[1]].lease[l[2]].state # "none"
      BY <1>3, LeaseIdParts DEF LeasesStay
    <2> QED BY <2>1 DEF RequestInv, LeaseAnswersOneRequest, RequestsStay
  <1>4. LeaseAnswersOneRequest'
    BY <1>1, <1>3 DEF LeaseAnswersOneRequest, LeaseSession
  <1> QED BY <1>1, <1>2, <1>4 DEF RequestInv

\* RequestInv across a grant: the new lease is of an attempt never issued before.
LEMMA RequestInvGrant ==
  ASSUME IInv, RequestInv, NEW q \in Request, NEW rows, NEW a \in Assignment, GrantStep(q, rows, a)
  PROVE  RequestInv'
  <1> DEFINE n == rows[a].attempts + 1
             new == <<a, n>>
             x == LeaseRow(rows[a], request[q].session, clock)
  <1>1. /\ n \in Attempt /\ rows[a].lease[n].state = "none"
        /\ x.lease[n].state = "active" /\ x.lease[n].session = request[q].session
        /\ \A m \in Attempt : m # n => x.lease[m] = rows[a].lease[m]
        /\ \A b \in Assignment : row'[b] = IF b = a THEN x ELSE rows[b]
    BY GrantFacts
  <1>2. LeasesStay(row, rows)
    BY KeptLeasesStay DEF GrantStep, TableKept
  <1>3. /\ request[q].state = "pending"
        /\ request' = [request EXCEPT ![q] = [@ EXCEPT !.state = "leased", !.lease = new]]
    BY DEF GrantStep
  <1> HIDE DEF n, x
  <1>4. new \in LeaseId /\ new[1] = a /\ new[2] = n
    BY <1>1 DEF LeaseId
  <1>5. /\ request'[q].state = "leased" /\ request'[q].lease = new /\ request'[q].session = request[q].session
        /\ \A p \in Request : p # q => request'[p] = request[p]
    <2>1. request \in [Request -> RequestRow] /\ request[q] \in RequestRow
      BY DEF IInv, TypeOK
    <2>2. request' = [request EXCEPT ![q] = [request[q] EXCEPT !.state = "leased", !.lease = new]]
      BY <1>3, <2>1 DEF RequestRow
    <2>3. request'[q] = [request[q] EXCEPT !.state = "leased", !.lease = new]
      BY <2>1, <2>2
    <2>4. \A p \in Request : p # q => request'[p] = request[p]
      BY <2>1, <2>2
    <2> QED BY <2>1, <2>3, <2>4 DEF RequestRow
  <1>6. row[a].lease[n].state = "none"
    BY <1>1, <1>2 DEF LeasesStay
  <1>7. \A p \in Request : request[p].lease # new
    <2> TAKE p \in Request
    <2>1. CASE request[p].state = "leased"
      BY <1>4, <1>6, <2>1 DEF RequestInv
    <2>2. CASE request[p].state # "leased"
      BY <1>4, <2>2, CoordinatorAssumption DEF RequestInv
    <2> QED BY <2>1, <2>2
  <1>8. row'[a].lease[n].state = "active" /\ row'[a].lease[n].session = request[q].session
    BY <1>1
  <1>9. ASSUME NEW b \in Assignment, NEW m \in Attempt, <<b, m>> # new
        PROVE  row'[b].lease[m] = rows[b].lease[m]
    BY <1>1, <1>9
  <1>10. ASSUME NEW p \in Request, request'[p].state = "leased"
         PROVE  /\ request'[p].lease \in LeaseId
                /\ row'[request'[p].lease[1]].lease[request'[p].lease[2]].session = request'[p].session
                /\ row'[request'[p].lease[1]].lease[request'[p].lease[2]].state # "none"
    <2>1. CASE p = q
      BY <1>4, <1>5, <1>8, <2>1
    <2>2. CASE p # q
      <3> DEFINE l == request[p].lease
      <3>1. request[p].state = "leased" /\ request'[p] = request[p]
        BY <1>5, <1>10, <2>2
      <3>2. /\ l \in LeaseId /\ row[l[1]].lease[l[2]].session = request[p].session
            /\ row[l[1]].lease[l[2]].state # "none" /\ l # new
        BY <1>7, <3>1 DEF RequestInv, LeaseAnswersOneRequest, LeaseSession
      <3>3. l[1] \in Assignment /\ l[2] \in Attempt /\ l = <<l[1], l[2]>>
        BY <3>2, LeaseIdParts DEF LeaseId
      <3>4. row'[l[1]].lease[l[2]] = rows[l[1]].lease[l[2]]
        BY <1>9, <3>2, <3>3
      <3> QED BY <1>2, <3>1, <3>2, <3>3, <3>4 DEF LeasesStay
    <2> QED BY <2>1, <2>2
  <1>11. \A p \in Request : request'[p].state # "leased" => request'[p].lease = None
    BY <1>5 DEF RequestInv
  <1>12. ASSUME NEW l \in LeaseId, row'[l[1]].lease[l[2]].state # "none"
         PROVE  \E p \in Request : /\ request'[p].state = "leased" /\ request'[p].lease = l
                                   /\ \A o \in Request \ {p} : request'[o].lease # l
    <2>1. CASE l = new
      BY <1>5, <1>7, <2>1
    <2>2. CASE l # new
      <3>1. l[1] \in Assignment /\ l[2] \in Attempt /\ l = <<l[1], l[2]>>
        BY LeaseIdParts DEF LeaseId
      <3>2. row[l[1]].lease[l[2]].state # "none"
        BY <1>2, <1>9, <1>12, <2>2, <3>1 DEF LeasesStay
      <3>3. PICK p \in Request : /\ request[p].state = "leased" /\ request[p].lease = l
                                 /\ \A o \in Request \ {p} : request[o].lease # l
        BY <3>2 DEF RequestInv, LeaseAnswersOneRequest
      <3>4. p # q
        BY <1>3, <3>3
      <3> QED BY <1>5, <2>2, <3>3, <3>4
    <2> QED BY <2>1, <2>2
  <1>13. LeaseAnswersOneRequest'
    BY <1>10, <1>12 DEF LeaseAnswersOneRequest, LeaseSession
  <1> QED BY <1>10, <1>11, <1>13 DEF RequestInv

\* Without leases and requests RequestInv holds.
LEMMA RequestInvInit == Init => RequestInv
  <1> SUFFICES ASSUME Init PROVE RequestInv
    OBVIOUS
  <1>1. \A l \in LeaseId : row[l[1]].lease[l[2]].state = "none"
    BY LeaseIdParts DEF Init, AbsentRow, NoLease
  <1>2. \A q \in Request : request[q].state = "absent" /\ request[q].lease = None
    BY DEF Init, AbsentRequest
  <1> QED BY <1>1, <1>2 DEF RequestInv, LeaseAnswersOneRequest

\* Every step preserves RequestInv.
LEMMA RequestInvStep == IInv /\ GroupInv /\ RequestInv /\ [Next]_vars => RequestInv'
  BY LeasesStayStep, RequestsStayStep, RequestInvStay, RequestInvGrant

\* Every lease answers exactly one request, of the lease's own session, so that a request
\* repeated after a lost reply gets the lease it was given.
THEOREM LeasesAnswerRequests == Spec => []LeaseAnswersOneRequest
  <1>1. RequestInv => LeaseAnswersOneRequest
    BY DEF RequestInv
  <1> QED BY <1>1, Inductive, GroupInductive, RequestInvInit, RequestInvStep, PTL DEF Spec

-----------------------------------------------------------------------------
(* Slots.                                                                  *)

\* There are finitely many lease identifiers.
LEMMA LeaseIdFinite == IsFiniteSet(LeaseId)
  <1> DEFINE sizes == {1 .. GroupSize[s] : s \in Source}
             f == [s \in Source |-> 1 .. GroupSize[s]]
  <1>1. f \in Surjection(Source, sizes)
    BY DEF Surjection
  <1>2. IsFiniteSet(sizes)
    BY <1>1, CoordinatorAssumption, FS_Surjection
  <1>3. \A T \in sizes : IsFiniteSet(T)
    BY CoordinatorAssumption, FS_Interval
  <1>4. IsFiniteSet(Index)
    BY <1>2, <1>3, FS_UNION DEF Index
  <1>5. IsFiniteSet(Group) /\ IsFiniteSet(Attempt)
    BY CoordinatorAssumption, LedgerAssumption, FS_Interval DEF Group, Attempt
  <1>6. IsFiniteSet(Assignment)
    BY <1>4, <1>5, FS_Product DEF Assignment
  <1> QED BY <1>5, <1>6, FS_Product DEF LeaseId

\* A session's occupied slots are a finite set, for every state of the table.
LEMMA OccupiedFinite ==
  ASSUME NEW rows, NEW s
  PROVE  IsFiniteSet(Occupied(rows, s)) /\ Cardinality(Occupied(rows, s)) \in Nat
  <1>1. Occupied(rows, s) \in SUBSET LeaseId
    BY DEF Occupied
  <1>2. IsFiniteSet(Occupied(rows, s))
    BY <1>1, LeaseIdFinite, FS_Subset
  <1> QED BY <1>2, FS_CardinalityType

\* Whatever a step does to the leases that exist, it takes no slot.
LEMMA OccupiedShrinks ==
  ASSUME NEW rows, NEW xs, TableOK(rows), TableOK(xs), clock \in Nat,
         \A a \in Assignment : Kept(rows[a], xs[a], clock),
         NEW s
  PROVE  Occupied(xs, s) \subseteq Occupied(rows, s)
  <1> SUFFICES ASSUME NEW l \in LeaseId, Occupies(xs[l[1]], l[2], s, clock)
               PROVE  Occupies(rows[l[1]], l[2], s, clock)
    BY DEF Occupied
  <1> DEFINE r == rows[l[1]]
             x == xs[l[1]]
             n == l[2]
  <1>1. l[1] \in Assignment /\ n \in Attempt
    BY LeaseIdParts
  <1>2. r \in Row /\ r.lease[n] \in Lease /\ x \in Row
    BY <1>1 DEF TableOK, Row
  <1>3. LeaseKept(r.lease[n], x.lease[n], clock) /\ x.deadline = r.deadline
    BY <1>1 DEF Kept
  <1>4. /\ x.lease[n].session = s /\ x.lease[n].state = "active" /\ clock < x.lease[n].expires
        /\ ~DeadlinePassed(x, clock) /\ x.lease[n].cancel # "delivered"
    BY DEF Occupies
  <1> HIDE DEF r, x, n
  <1>5. r.lease[n].state = "active" /\ r.lease[n].session = s /\ r.lease[n].cancel # "delivered"
    BY <1>3, <1>4 DEF LeaseKept
  <1>6. clock < r.lease[n].expires
    <2>1. r.lease[n].expires \in Nat
      BY <1>2 DEF Lease
    <2> QED BY <1>3, <1>4, <1>5, <2>1 DEF LeaseKept
  <1>7. ~DeadlinePassed(r, clock)
    BY <1>3, <1>4 DEF DeadlinePassed
  <1> QED BY <1>5, <1>6, <1>7 DEF Occupies, r, n

\* What occupies no more than before stays within the slots.
LEMMA SlotsBound ==
  ASSUME NEW rows, NEW xs, NEW s, Occupied(xs, s) \subseteq Occupied(rows, s),
         Cardinality(Occupied(rows, s)) <= Slots
  PROVE  Cardinality(Occupied(xs, s)) <= Slots
  <1>1. Cardinality(Occupied(xs, s)) <= Cardinality(Occupied(rows, s))
    BY OccupiedFinite, FS_Subset
  <1> QED BY <1>1, OccupiedFinite, CoordinatorAssumption

\* One element makes a finite set larger by at most one.
LEMMA OneMore ==
  ASSUME NEW S, IsFiniteSet(S), NEW e
  PROVE  /\ IsFiniteSet(S \cup {e})
         /\ Cardinality(S \cup {e}) <= Cardinality(S) + 1
         /\ Cardinality(S \cup {e}) \in Nat
  <1>1. /\ IsFiniteSet(S \cup {e})
        /\ Cardinality(S \cup {e}) = IF e \in S THEN Cardinality(S) ELSE Cardinality(S) + 1
    BY FS_AddElement
  <1>2. Cardinality(S) \in Nat
    BY FS_CardinalityType
  <1> QED BY <1>1, <1>2

\* A grant takes one slot of a session that has one free.
LEMMA GrantSlots ==
  ASSUME IInv, SlotsRespected, NEW q \in Request, NEW rows, NEW a \in Assignment, GrantStep(q, rows, a)
  PROVE  SlotsRespected'
  <1> DEFINE n == rows[a].attempts + 1
             x == LeaseRow(rows[a], request[q].session, clock)
  <1>1. /\ n \in Attempt /\ x.deadline = rows[a].deadline
        /\ x.lease[n].session = request[q].session
        /\ \A m \in Attempt : m # n => x.lease[m] = rows[a].lease[m]
        /\ \A b \in Assignment : row'[b] = IF b = a THEN x ELSE rows[b]
    BY GrantFacts
  <1>2. clock' = clock /\ HasRoom(rows, request[q].session) /\ clock \in Nat /\ TableOK(row) /\ TableOK(rows)
    BY ActiveInt DEF GrantStep, IInv
  <1> HIDE DEF n, x
  <1>3. \A s : Occupied(rows, s) \subseteq Occupied(row, s)
    BY <1>2, OccupiedShrinks DEF GrantStep, TableKept
  <1>4. ASSUME NEW s, NEW l \in LeaseId, l # <<a, n>>, Occupies(row'[l[1]], l[2], s, clock)
        PROVE  l \in Occupied(rows, s)
    <2>1. l[1] \in Assignment /\ l[2] \in Attempt /\ l = <<l[1], l[2]>>
      BY LeaseIdParts DEF LeaseId
    <2>2. row'[l[1]].lease[l[2]] = rows[l[1]].lease[l[2]] /\ row'[l[1]].deadline = rows[l[1]].deadline
      BY <1>1, <1>4, <2>1
    <2>3. Occupies(rows[l[1]], l[2], s, clock)
      BY <1>4, <2>2 DEF Occupies, DeadlinePassed
    <2> QED BY <2>3 DEF Occupied
  <1>5. ASSUME NEW s \in Session PROVE Cardinality(Occupied(row', s)) <= Slots
    <2>1. CASE s = request[q].session
      <3>1. Cardinality(Occupied(rows, s)) + 1 <= Slots
        BY <1>2, <2>1, OccupiedFinite, CoordinatorAssumption DEF HasRoom
      <3>2. Occupied(row', s) \subseteq Occupied(rows, s) \cup {<<a, n>>}
        BY <1>4 DEF Occupied
      <3>3. /\ IsFiniteSet(Occupied(rows, s) \cup {<<a, n>>})
            /\ Cardinality(Occupied(rows, s) \cup {<<a, n>>}) <= Cardinality(Occupied(rows, s)) + 1
            /\ Cardinality(Occupied(rows, s) \cup {<<a, n>>}) \in Nat
        BY OccupiedFinite, OneMore
      <3>4. Cardinality(Occupied(row', s)) <= Cardinality(Occupied(rows, s) \cup {<<a, n>>})
        BY <3>2, <3>3, FS_Subset
      <3> QED BY <3>1, <3>3, <3>4, OccupiedFinite, CoordinatorAssumption
    <2>2. CASE s # request[q].session
      <3>1. ~Occupies(row'[a], n, s, clock)
        BY <1>1, <2>2 DEF Occupies
      <3>2. Occupied(row', s) \subseteq Occupied(rows, s)
        BY <1>4, <3>1 DEF Occupied
      <3>3. Occupied(row', s) \subseteq Occupied(row, s)
        BY <1>3, <3>2
      <3> QED BY <3>3, SlotsBound DEF SlotsRespected
    <2> QED BY <2>1, <2>2
  <1> QED BY <1>2, <1>5 DEF SlotsRespected, Occupied

\* Every step respects the slots.
LEMMA SlotsStep == IInv /\ GroupInv /\ SlotsRespected /\ [Next]_vars => SlotsRespected'
  <1> SUFFICES ASSUME IInv, GroupInv, SlotsRespected, [Next]_vars PROVE SlotsRespected'
    OBVIOUS
  <1>0. IInv' /\ clock \in Nat
    BY StepOK, ActiveInt
  <1>1. CASE clock' = clock /\ \A a \in Assignment : Kept(row[a], row'[a], clock)
    <2>1. TableOK(row) /\ TableOK(row')
      BY <1>0 DEF IInv
    <2>2. \A s : Occupied(row', s) \subseteq Occupied(row, s)
      BY <1>0, <1>1, <2>1, OccupiedShrinks
    <2>3. \A s \in Session : Cardinality(Occupied(row', s)) <= Slots
      BY <2>2, SlotsBound DEF SlotsRespected
    <2> QED BY <1>1, <2>3 DEF SlotsRespected, Occupied
  <1>2. CASE QuietStep
    <2>1. row' = row /\ clock' \in Nat /\ clock <= clock'
      BY <1>2 DEF QuietStep
    <2>2. ASSUME NEW s, NEW l \in LeaseId, Occupies(row[l[1]], l[2], s, clock')
          PROVE  Occupies(row[l[1]], l[2], s, clock)
      <3>1. row[l[1]] \in Row /\ row[l[1]].lease[l[2]] \in Lease
        BY LeaseIdParts DEF IInv, TableOK, Row
      <3>2. row[l[1]].lease[l[2]].expires \in Nat /\ row[l[1]].deadline \in Nat \cup {NoDeadline}
        BY <3>1 DEF Row, Lease
      <3> QED BY <1>0, <2>1, <2>2, <3>2 DEF Occupies, DeadlinePassed, NoDeadline
    <2>3. ASSUME NEW s \in Session PROVE Cardinality(Occupied(row, s)') <= Slots
      <3> DEFINE O == {l \in LeaseId : Occupies(row[l[1]], l[2], s, clock')}
      <3>1. Occupied(row, s)' = O
        BY <2>1 DEF Occupied
      <3>2. O \subseteq Occupied(row, s)
        BY <2>2 DEF Occupied
      <3>3. Cardinality(O) <= Cardinality(Occupied(row, s)) /\ Cardinality(O) \in Nat
        <4>1. IsFiniteSet(O) /\ Cardinality(O) <= Cardinality(Occupied(row, s))
          BY <3>2, OccupiedFinite, FS_Subset
        <4> QED BY <4>1, FS_CardinalityType
      <3>4. Cardinality(Occupied(row, s)) <= Slots
        BY DEF SlotsRespected
      <3> HIDE DEF O
      <3> QED BY <3>1, <3>3, <3>4, OccupiedFinite, CoordinatorAssumption
    <2> QED BY <2>3 DEF SlotsRespected
  <1>3. CASE SweepStep
    BY <1>1, <1>3 DEF SweepStep, TableKept
  <1>4. CASE AcceptStep
    <2>1. clock' = clock
      BY <1>4 DEF AcceptStep
    <2>2. \A a \in Assignment : Kept(row[a], row'[a], clock)
      BY <1>4, AcceptFacts DEF AcceptStep
    <2> QED BY <1>1, <2>1, <2>2
  <1>5. ASSUME NEW q \in Request, Generate(q) PROVE SlotsRespected'
    <2>1. \A a \in Assignment :
             row'[a] = row[a] \/ \A n \in Attempt : row'[a].lease[n] = NoLease
      BY <1>5, GenerateFacts
    <2>2. clock' = clock
      BY <1>5 DEF Generate
    <2>3. ASSUME NEW s, NEW l \in LeaseId, Occupies(row'[l[1]], l[2], s, clock)
          PROVE  Occupies(row[l[1]], l[2], s, clock)
      BY <2>1, <2>3, LeaseIdParts DEF Occupies, NoLease
    <2>4. \A s : Occupied(row', s) \subseteq Occupied(row, s)
      BY <2>3 DEF Occupied
    <2>5. \A s \in Session : Cardinality(Occupied(row', s)) <= Slots
      BY <2>4, SlotsBound DEF SlotsRespected
    <2> QED BY <2>2, <2>5 DEF SlotsRespected, Occupied
  <1> QED BY <1>2, <1>3, <1>4, <1>5, GrantSlots, StepShape

\* Nothing is leased initially.
LEMMA SlotsInit == Init => SlotsRespected
  <1> SUFFICES ASSUME Init PROVE SlotsRespected
    OBVIOUS
  <1>1. \A l \in LeaseId : row[l[1]].lease[l[2]].state = "none"
    BY LeaseIdParts DEF Init, AbsentRow, NoLease
  <1>2. \A s : Occupied(row, s) = {}
    BY <1>1 DEF Occupied, Occupies
  <1>3. Cardinality({}) = 0 /\ 0 <= Slots
    BY FS_EmptySet, CoordinatorAssumption
  <1> QED BY <1>2, <1>3 DEF SlotsRespected

\* A worker session never holds more leases than it has slots, not counting those whose
\* cancellation it has been told of: leases are granted only when a slot is free at that
\* moment, and no renewal, recovery or passing of time takes one.
THEOREM SlotsNeverOverrun == Spec => []SlotsRespected
  BY Inductive, GroupInductive, SlotsInit, SlotsStep, PTL DEF Spec

-----------------------------------------------------------------------------
(* The coordinator implements the board of rollout groups.                 *)

\* The verdict of one row.
VerdictOf(r) ==
    CASE r.state = "absent"    -> "unborn"
      [] r.state = "succeeded" -> r.result
      [] r.state = "failed"    -> "failed"
      [] OTHER                 -> "open"

FinalVerdict == Payload \cup {"failed"}

\* A row's verdict tells absent, unfinished and terminal rows apart.
LEMMA VerdictCases ==
  ASSUME NEW r \in Row, RowInv(r)
  PROVE  /\ VerdictOf(r) = "unborn" <=> r.state = "absent"
         /\ VerdictOf(r) = "open" <=> Unfinished(r)
         /\ VerdictOf(r) \in FinalVerdict <=> Terminal(r)
         /\ VerdictOf(r) \in FinalVerdict \cup {"unborn", "open"}
  <1>1. r.state = "succeeded" => r.result \in Payload
    BY DEF RowInv, OutcomeAgrees, Row
  <1>2. r.state \in {"absent", "leased", "pending", "retry_wait", "succeeded", "failed"}
    BY DEF Row, AssignmentState, WaitingState, TerminalState
  <1>3. CASE r.state = "absent"
    BY <1>3, LedgerAssumption DEF VerdictOf, FinalVerdict, Unfinished, Waiting, WaitingState, Terminal, TerminalState
  <1>4. CASE r.state = "succeeded"
    BY <1>1, <1>4, LedgerAssumption DEF VerdictOf, FinalVerdict, Unfinished, Waiting, WaitingState, Terminal,
       TerminalState
  <1>5. CASE r.state = "failed"
    BY <1>5, LedgerAssumption DEF VerdictOf, FinalVerdict, Unfinished, Waiting, WaitingState, Terminal, TerminalState
  <1>6. CASE r.state \in {"leased", "pending", "retry_wait"}
    BY <1>6, LedgerAssumption DEF VerdictOf, FinalVerdict, Unfinished, Waiting, WaitingState, Terminal, TerminalState
  <1> QED BY <1>2, <1>3, <1>4, <1>5, <1>6

\* A verdict given is never changed, and only members that exist get one.
LEMMA VerdictKept ==
  ASSUME NEW r \in Row, RowInv(r), NEW x \in Row, RowInv(x), NEW now, Kept(r, x, now),
         VerdictOf(x) # VerdictOf(r)
  PROVE  VerdictOf(r) = "open" /\ VerdictOf(x) \in FinalVerdict
  <1>1. ~Terminal(r)
    BY DEF Kept, VerdictOf, Terminal, TerminalState
  <1>2. r.state # "absent" /\ x.state # "absent"
    BY VerdictCases DEF Kept
  <1>3. VerdictOf(r) = "open"
    BY <1>1, <1>2, VerdictCases
  <1> QED BY <1>2, <1>3, VerdictCases

\* The board's verdicts, row by row, before and after a step.
LEMMA BoardRows ==
  /\ BoardVerdict = [a \in Assignment |-> VerdictOf(row[a])]
  /\ BoardVerdict' = [a \in Assignment |-> VerdictOf(row'[a])]
  BY DEF BoardVerdict, VerdictOf

\* A step that gives open members their verdicts is the board's Settle, because groups are
\* ready when settled and only then.
LEMMA SettleStep ==
  ASSUME IInv', GroupInv',
         \A a \in Assignment : VerdictOf(row'[a]) # VerdictOf(row[a]) =>
            VerdictOf(row[a]) = "open" /\ VerdictOf(row'[a]) \in FinalVerdict
  PROVE  Board!Settle
  <1>1. \A a \in Assignment : row'[a] \in Row /\ RowInv(row'[a])
    BY DEF IInv, TableOK
  <1>2. BoardVerdict' \in [Assignment -> FinalVerdict \cup {"unborn", "open"}]
    BY <1>1, BoardRows, VerdictCases
  <1>3. \A a \in Assignment : BoardVerdict'[a] # BoardVerdict[a] =>
            BoardVerdict[a] = "open" /\ BoardVerdict'[a] \in FinalVerdict
    BY BoardRows
  <1>4. ASSUME NEW g \in Group
        PROVE  group'[g].state = "ready"
                  <=> /\ \E i \in Index : BoardVerdict'[<<g, i>>] # "unborn"
                      /\ \A i \in Index : BoardVerdict'[<<g, i>>] # "open"
    <2>1. \A i \in Index : /\ BoardVerdict'[<<g, i>>] = "unborn" <=> row'[<<g, i>>].state = "absent"
                           /\ BoardVerdict'[<<g, i>>] = "open" <=> Unfinished(row'[<<g, i>>])
      BY <1>1, BoardRows, VerdictCases, Member
    <2>2. Created(g)' <=> \E i \in Index : row'[<<g, i>>].state # "absent"
      BY Member DEF GroupInv
    <2>3. group'[g].state = "ready" => Created(g)'
      BY DEF Created
    <2>4. Created(g)' => (group'[g].state = "ready" <=> \A i \in Index : ~Unfinished(row'[<<g, i>>]))
      BY DEF GroupInv, ReadyMeansSettled, Settled
    <2> QED BY <2>1, <2>2, <2>3, <2>4
  <1>5. {g \in Group : group'[g].state = "ready"}
           = {g \in Group : /\ \E i \in Index : BoardVerdict'[<<g, i>>] # "unborn"
                            /\ \A i \in Index : BoardVerdict'[<<g, i>>] # "open"}
    BY <1>4
  <1> QED BY <1>2, <1>3, <1>5 DEF Board!Settle, Board!Member, Assignment, FinalVerdict

\* create_next_group posts the new group with all its members.
LEMMA PostStep ==
  ASSUME IInv, GroupInv, NEW q \in Request, Generate(q)
  PROVE  \E g \in Group : Board!Post(g)
  <1>1. PICK s \in Source, g \in Group :
           /\ CreateGroup(g, s)
           /\ group'[g] = [state |-> "collecting", source |-> s, policy |-> active]
           /\ \A h \in Group : h # g => group'[h] = group[h]
           /\ 1 .. GroupSize[s] \subseteq Index /\ 1 \in 1 .. GroupSize[s]
           /\ \A a \in Assignment :
                 IF a[1] = g /\ a[2] \in 1 .. GroupSize[s]
                 THEN /\ row'[a].state = "pending"
                      /\ \A n \in Attempt : row'[a].lease[n] = NoLease
                 ELSE row'[a] = row[a]
    BY GenerateFacts
  <1> DEFINE I == 1 .. GroupSize[s]
  <1>2. ~Created(g)
    BY <1>1 DEF CreateGroup, NextGroup
  <1>3. \A i \in Index : row[<<g, i>>].state = "absent"
    BY <1>2, Member DEF GroupInv
  <1>4. \A i \in Index : BoardVerdict[<<g, i>>] = "unborn"
    BY <1>3, BoardRows, Member DEF VerdictOf
  <1>5. I \in (SUBSET Index) \ {{}}
    BY <1>1
  <1> HIDE DEF I
  <1>6. \A a \in Assignment :
           VerdictOf(row'[a]) = IF a[1] = g /\ a[2] \in I THEN "open" ELSE BoardVerdict[a]
    <2>1. \A r : r.state = "pending" => VerdictOf(r) = "open"
      BY DEF VerdictOf
    <2> QED BY <1>1, <2>1, BoardRows DEF I
  <1>7. BoardVerdict' = [m \in Assignment |-> IF m[1] = g /\ m[2] \in I THEN "open" ELSE BoardVerdict[m]]
    BY <1>6, BoardRows
  <1>8. \A h \in Group : group'[h].state = "ready" <=> group[h].state = "ready"
    BY <1>1, <1>2 DEF Created
  <1>9. {h \in Group : group'[h].state = "ready"} = {h \in Group : group[h].state = "ready"}
    BY <1>8
  <1>10. Board!Post(g)
    BY <1>4, <1>5, <1>7, <1>9 DEF Board!Post, Board!Unborn, Board!Member, Assignment
  <1> QED BY <1>10

\* Every step of the coordinator is a step of the board or leaves the board as it is.
LEMMA BoardStep == IInv /\ GroupInv /\ [Next]_vars => [Board!Next]_(Board!boardVars)
  <1> SUFFICES ASSUME IInv, GroupInv, [Next]_vars
               PROVE  Board!Next \/ UNCHANGED Board!boardVars
    OBVIOUS
  <1>1. IInv' /\ GroupInv'
    BY StepOK, GroupInvStep
  <1>2. \A a \in Assignment : row[a] \in Row /\ RowInv(row[a]) /\ row'[a] \in Row /\ RowInv(row'[a])
    BY <1>1 DEF IInv, TableOK
  <1>3. CASE QuietStep
    BY <1>3 DEF QuietStep, Board!boardVars, BoardVerdict
  <1>4. CASE \A a \in Assignment : Kept(row[a], row'[a], clock)
    BY <1>1, <1>2, <1>4, VerdictKept, SettleStep DEF Board!Next
  <1>5. ASSUME NEW q \in Request, NEW a \in Assignment, NEW rows, GrantStep(q, rows, a)
        PROVE  Board!Settle
    <2>1. \A b \in Assignment : rows[b] \in Row /\ RowInv(rows[b]) /\ Kept(row[b], rows[b], clock)
      BY <1>5 DEF GrantStep, TableOK, TableKept
    <2>2. /\ Waiting(rows[a]) /\ row'[a].state = "leased"
          /\ \A b \in Assignment : b # a => row'[b] = rows[b]
      BY <1>5, GrantFacts
    <2>3. VerdictOf(rows[a]) = "open" /\ VerdictOf(row'[a]) = "open"
      BY <1>2, <2>1, <2>2, VerdictCases DEF Unfinished
    <2>4. \A b \in Assignment : VerdictOf(row'[b]) = VerdictOf(rows[b])
      BY <2>2, <2>3
    <2>5. \A b \in Assignment : VerdictOf(row'[b]) # VerdictOf(row[b]) =>
            VerdictOf(row[b]) = "open" /\ VerdictOf(row'[b]) \in FinalVerdict
      BY <1>2, <2>1, <2>4, VerdictKept
    <2> QED BY <1>1, <2>5, SettleStep
  <1>6. CASE SweepStep
    BY <1>4, <1>6 DEF SweepStep, TableKept
  <1>7. CASE AcceptStep
    BY <1>4, <1>7, AcceptFacts DEF AcceptStep
  <1>8. ASSUME NEW q \in Request, Generate(q) PROVE \E g \in Group : Board!Post(g)
    BY <1>8, PostStep
  <1> QED BY <1>3, <1>5, <1>6, <1>7, <1>8, StepShape DEF Board!Next

\* The empty tables are the empty board.
LEMMA BoardInit == Init => Board!Init
  <1> SUFFICES ASSUME Init PROVE Board!Init
    OBVIOUS
  <1>1. BoardVerdict = [a \in Assignment |-> "unborn"]
    BY BoardRows DEF Init, AbsentRow, VerdictOf
  <1>2. {g \in Group : group[g].state = "ready"} = {}
    BY DEF Init, AbsentGroup
  <1> QED BY <1>1, <1>2 DEF Board!Init, Board!Member, Assignment

\* The scheduling side of the coordinator implements the board of rollout groups: whatever
\* leases, retries, cancellations, deadlines and crashes do, a group is posted whole, each
\* member gets one final verdict, and the group is ready from the step that settles its last
\* member (create_next_group, accept_result, accept_failure, _expire_leases,
\* _recompute_group).
THEOREM CoordinatorImplementsBoard == Spec => ImplementsBoard
  <1>1. Init => Board!Init
    BY BoardInit
  <1>2. IInv /\ GroupInv /\ [Next]_vars => [Board!Next]_(Board!boardVars)
    BY BoardStep
  <1>3. Spec => []IInv /\ []GroupInv
    BY Inductive, GroupInductive, PTL
  <1> QED BY <1>1, <1>2, <1>3, PTL DEF Spec, ImplementsBoard, Board!Spec
=============================================================================
