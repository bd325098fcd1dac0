------------------------------- MODULE Ledger -------------------------------
(***************************************************************************)
(* One assignment as the coordinator's database stores it, and what the    *)
(* transactions of CoordinatorRepository do to it.                         *)
(*                                                                         *)
(* A row joins what the database keeps for one assignment in several       *)
(* tables: its line of "assignments", its "lease_attempts" (one per        *)
(* attempt, UNIQUE(assignment_id, attempt)), the cancellations of the      *)
(* assignment and of its leases, its "assignment_outcomes" line and its    *)
(* "accepted_results" line.  No transaction lets the new contents of one   *)
(* assignment depend on another assignment, so every operator below maps   *)
(* one row to one row; Coordinator applies them to whole tables.           *)
(***************************************************************************)
EXTENDS Integers, FiniteSets

CONSTANTS
    Session,        \* worker session identifiers
    Payload,        \* contents a rollout result can have (its envelope digest)
    None,           \* SQL NULL for sessions, payloads and leases
    AttemptLimit,   \* largest max_attempts of a source
    LeaseDuration,  \* lease_duration_seconds
    RetryBase,      \* retry_base_seconds
    RetryMax        \* retry_max_seconds

ASSUME LedgerAssumption ==
    /\ None \notin Session
    /\ {None, "unborn", "open", "failed"} \cap Payload = {}
    /\ AttemptLimit \in Nat \ {0}
    /\ LeaseDuration \in Nat \ {0}
    /\ RetryBase \in Nat \ {0}
    /\ RetryMax \in Nat \ {0}

NoDeadline == -1    \* deadline_at IS NULL

\* One more attempt than any source allows: an overrun would have a place to go.
Attempt == 1 .. AttemptLimit + 1

WaitingState   == {"pending", "retry_wait"}
TerminalState  == {"succeeded", "failed"}
AssignmentState == {"absent", "leased"} \cup WaitingState \cup TerminalState
LeaseState     == {"none", "active", "succeeded", "failed", "expired"}

\* "integrity_error" stands for a plain INSERT that meets an existing primary key:
\* SQLite raises IntegrityError and the transaction is lost.
FailureOutcome == {"failure", "attempts_exhausted", "deadline_exceeded"}
Outcome == {"none", "result", "integrity_error"} \cup FailureOutcome

Lease ==
    [state: LeaseState, session: Session \cup {None}, expires: Nat,
     cancel: {"no", "requested", "delivered"}]

Row ==
    [state: AssignmentState, attempts: Nat, max: Nat, available: Int,
     deadline: Nat \cup {NoDeadline}, current: Nat,
     cancel: {"no", "requested", "terminal"}, outcome: Outcome,
     result: Payload \cup {None}, lease: [Attempt -> Lease]]

NoLease == [state |-> "none", session |-> None, expires |-> 0, cancel |-> "no"]

\* The place of an assignment that has not been created.
AbsentRow ==
    [state |-> "absent", attempts |-> 0, max |-> 0, available |-> 0,
     deadline |-> NoDeadline, current |-> 0, cancel |-> "no", outcome |-> "none",
     result |-> None, lease |-> [n \in Attempt |-> NoLease]]

\* _insert_assignment
NewRow(now, deadline, max) ==
    [AbsentRow EXCEPT !.state = "pending", !.available = now,
                      !.deadline = deadline, !.max = max]

-----------------------------------------------------------------------------
(* Predicates the SQL statements use.                                      *)

Waiting(r)  == r.state \in WaitingState
Terminal(r) == r.state \in TerminalState
Unfinished(r) == Waiting(r) \/ r.state = "leased"

DeadlinePassed(r, now) == r.deadline # NoDeadline /\ r.deadline <= now

Earlier(x, y) == IF x <= y THEN x ELSE y
Later(x, y) == IF x <= y THEN y ELSE x

\* A lease lives at most until the assignment's deadline.
Capped(r, t) == IF r.deadline = NoDeadline THEN t ELSE Earlier(t, r.deadline)

\* Mutant of Live: the lease's own expiry is not compared with the clock.
LiveUntilReaped(r, n, now) ==
    r.lease[n].state = "active" /\ r.state = "leased" /\ ~DeadlinePassed(r, now)

\* The lease is still worth renewing or submitting for: active, unexpired, and the
\* assignment is leased and not past its deadline.
Live(r, n, now) ==
    /\ r.lease[n].state = "active"
    /\ r.state = "leased"
    /\ now < r.lease[n].expires
    /\ ~DeadlinePassed(r, now)

\* Counted against its session's slots: a cancelled lease stops counting when the
\* worker has been told of the cancellation.
Occupies(r, n, s, now) ==
    /\ r.lease[n].session = s
    /\ r.lease[n].state = "active"
    /\ now < r.lease[n].expires
    /\ ~DeadlinePassed(r, now)
    /\ r.lease[n].cancel # "delivered"

\* A row lease_next_compatible may hand out.
Leasable(r, now) ==
    /\ Waiting(r)
    /\ r.available <= now
    /\ ~DeadlinePassed(r, now)
    /\ r.cancel = "no"

-----------------------------------------------------------------------------
(* What the transactions do to a row.                                      *)

\* INSERT INTO assignment_outcomes, whose primary key is the assignment.
InsertOutcome(r, o) == IF r.outcome = "none" THEN o ELSE "integrity_error"

\* INSERT OR IGNORE INTO assignment_outcomes.
InsertOutcomeOrIgnore(r, o) == IF r.outcome = "none" THEN o ELSE r.outcome

RetryDelay(n) == Earlier(RetryMax, RetryBase * 2^(n - 1))

\* Mutant of RetryOrTerminal: one attempt too many.
RetryOnceMore(r, now, retryable) ==
    IF retryable /\ r.attempts <= r.max
    THEN [r EXCEPT !.state = "retry_wait", !.current = 0,
                   !.available = now + RetryDelay(r.attempts)]
    ELSE [r EXCEPT !.state = "failed", !.current = 0,
                   !.outcome = InsertOutcome(r, "attempts_exhausted")]

\* _retry_or_terminal, for a failure report (retryable or not) or an expired lease.
RetryOrTerminal(r, now, retryable) ==
    LET retryAt == now + RetryDelay(r.attempts)
        inTime == r.deadline = NoDeadline \/ retryAt < r.deadline
        outcome == IF r.attempts >= r.max THEN "attempts_exhausted"
                   ELSE IF ~retryable THEN "failure"
                   ELSE "deadline_exceeded"
    IN  IF retryable /\ r.attempts < r.max /\ inTime
        THEN [r EXCEPT !.state = "retry_wait", !.available = retryAt, !.current = 0]
        ELSE [r EXCEPT !.state = "failed", !.current = 0,
                       !.outcome = InsertOutcome(r, outcome)]

\* A cancelled assignment whose lease ended without a result is not retried.
FailCancelled(r, outcome) ==
    [r EXCEPT !.state = "failed", !.current = 0, !.outcome = outcome,
              !.cancel = IF @ = "no" THEN @ ELSE "terminal"]

\* lease_next_compatible: a new attempt, leased to session s.
LeaseRow(r, s, now) ==
    LET n == r.attempts + 1
        lease == [state |-> "active", session |-> s,
                  expires |-> Capped(r, now + LeaseDuration), cancel |-> "no"]
    IN  [r EXCEPT !.state = "leased", !.attempts = n, !.current = n, !.lease[n] = lease]

\* The leases of r that _expire_leases selects.
Overdue(r, now) ==
    {n \in Attempt : /\ r.lease[n].state = "active"
                     /\ r.lease[n].expires <= now \/ DeadlinePassed(r, now)}

\* Mutant of ExpireOverdue: the lease itself is not marked expired.
ExpireAssignmentOnly(r, now) ==
    IF Overdue(r, now) = {} THEN r ELSE RetryOrTerminal(r, now, TRUE)

\* The first loop of _expire_leases.
ExpireOverdue(r, now) ==
    LET due == Overdue(r, now)
        closed == [r EXCEPT !.lease = [n \in Attempt |->
                     IF n \in due THEN [r.lease[n] EXCEPT !.state = "expired"] ELSE r.lease[n]]]
    IN  IF due = {} THEN r
        ELSE IF \E n \in due : r.lease[n].cancel # "no"
        THEN FailCancelled(closed, InsertOutcomeOrIgnore(r, "failure"))
        ELSE RetryOrTerminal(closed, now, TRUE)

\* _expire_leases: the leases, then the waiting assignments past their deadline
\* (_terminalize_without_envelope).
ExpireRow(r, now) ==
    LET e == ExpireOverdue(r, now)
    IN  IF Waiting(e) /\ DeadlinePassed(e, now)
        THEN [e EXCEPT !.state = "failed", !.current = 0,
                       !.outcome = InsertOutcome(e, "deadline_exceeded")]
        ELSE e

\* Mutants of CancelRow: the outcome names the reason, no outcome is recorded, terminal
\* assignments are not skipped, waiting assignments are skipped.
CancelWithReason(r) ==
    IF Waiting(r)
    THEN [r EXCEPT !.state = "failed", !.cancel = "terminal", !.outcome = "policy_stale"]
    ELSE r

CancelSilently(r) ==
    IF Waiting(r) THEN [r EXCEPT !.state = "failed", !.cancel = "terminal"] ELSE r

CancelLeasedOnly(r) ==
    IF r.state # "leased" THEN r
    ELSE [r EXCEPT !.cancel = "requested", !.lease[r.current].cancel = "requested"]

\* _cancel_stale_train_groups, for an assignment of a stale group.
CancelRow(r) ==
    IF Waiting(r)
    THEN [r EXCEPT !.state = "failed", !.current = 0, !.cancel = "terminal",
                   !.outcome = InsertOutcomeOrIgnore(r, "failure")]
    ELSE IF r.state = "leased"
    THEN [r EXCEPT !.cancel = IF @ = "no" THEN "requested" ELSE @,
                   !.lease = [n \in Attempt |->
                       IF n = r.current /\ r.lease[n].cancel = "no"
                       THEN [r.lease[n] EXCEPT !.cancel = "requested"] ELSE r.lease[n]]]
    ELSE r

\* A renewal never shortens a lease and never passes the deadline.
Extended(r, n, now) ==
    [r.lease[n] EXCEPT !.expires = Capped(r, Later(@, now + LeaseDuration))]

\* The worker learns that its lease is cancelled; the lease is not extended.
Delivered(lease) == [lease EXCEPT !.cancel = "delivered"]

\* Mutants of RenewLease: the deadline does not cap it, cancelled leases are renewed.
RenewPastDeadline(r, n, now) ==
    IF Live(r, n, now) THEN [r.lease[n] EXCEPT !.expires = Later(@, now + LeaseDuration)]
    ELSE r.lease[n]

RenewCancelled(r, n, now) ==
    IF Live(r, n, now) THEN Extended(r, n, now) ELSE r.lease[n]

\* What record_heartbeat does to one of the leases the worker reports.
RenewLease(r, n, now) ==
    IF r.lease[n].cancel # "no" THEN Delivered(r.lease[n])
    ELSE IF Live(r, n, now) THEN Extended(r, n, now)
    ELSE r.lease[n]

\* record_heartbeat, for the leases H of r that the worker reports.
RenewRow(r, H, now) ==
    [r EXCEPT !.lease = [n \in Attempt |->
        IF n \in H THEN RenewLease(r, n, now) ELSE r.lease[n]]]

\* renew_lease, asked to acknowledge cancellations: it refuses a lease that is closed or
\* expired and, unless the lease is cancelled, an assignment past its deadline.
Renewable(r, n, now) ==
    /\ r.lease[n].state = "active"
    /\ now < r.lease[n].expires
    /\ r.lease[n].cancel # "no" \/ ~DeadlinePassed(r, now)

RenewSingle(r, n, now) ==
    [r EXCEPT !.lease[n] = IF r.lease[n].cancel # "no" THEN Delivered(r.lease[n])
                           ELSE Extended(r, n, now)]

\* _validate_active_envelope: the submission is for the current lease, in time.
Submittable(r, n, now) == Live(r, n, now) /\ r.current = n

\* The transaction of accept_result.
SucceedRow(r, n, p) ==
    [r EXCEPT !.state = "succeeded", !.current = 0, !.result = p,
              !.outcome = InsertOutcome(r, "result"),
              !.cancel = IF @ = "no" THEN @ ELSE "terminal",
              !.lease[n].state = "succeeded"]

\* Mutant of FailRow: a cancelled assignment is retried like any other.
FailIgnoringCancel(r, n, now, retryable) ==
    RetryOrTerminal([r EXCEPT !.lease[n].state = "failed"], now, retryable)

\* The transaction of accept_failure.
FailRow(r, n, now, retryable) ==
    LET closed == [r EXCEPT !.lease[n].state = "failed"]
    IN  IF r.lease[n].cancel # "no"
        THEN FailCancelled(closed, InsertOutcome(r, "failure"))
        ELSE RetryOrTerminal(closed, now, retryable)
-----------------------------------------------------------------------------
(* What every row satisfies between transactions.                          *)

\* The leased assignment and its active lease name each other: no second lease is
\* active, and no assignment is leased without one.
LeaseAgrees(r) ==
    /\ r.current = IF r.state = "leased" THEN r.attempts ELSE 0
    /\ r.state = "leased" => r.current \in Attempt
    /\ \A n \in Attempt : r.lease[n].state = "active" <=> n = r.current

\* An outcome exists exactly for the terminal states, and tells which one.
OutcomeAgrees(r) ==
    /\ r.outcome # "integrity_error"
    /\ Terminal(r) <=> r.outcome # "none"
    /\ r.state = "succeeded" <=> r.outcome = "result"
    /\ r.state = "succeeded" <=> r.result # None

\* Attempts are numbered from 1 without gaps and stay within the budget; whoever
\* waits for a lease has an attempt left.
BudgetKept(r) ==
    /\ r.attempts <= r.max
    /\ r.max <= AttemptLimit
    /\ Waiting(r) => r.attempts < r.max
    /\ r.state = "absent" => r.attempts = 0
    /\ \A n \in Attempt : r.lease[n].state = "none" <=> n > r.attempts

\* A cancellation that is not terminal sits on a leased assignment whose current lease
\* is cancelled too, so that the end of that lease ends the assignment.
CancelAgrees(r) ==
    /\ Waiting(r) => r.cancel = "no"
    /\ r.state = "leased" => (r.cancel = "requested" <=> r.lease[r.current].cancel # "no")
    /\ r.cancel = "requested" => r.state = "leased"
    /\ r.cancel = "terminal" => Terminal(r)

\* A lease ends no later than the assignment's deadline.
DeadlineKept(r) ==
    r.deadline # NoDeadline => \A n \in Attempt : r.lease[n].expires <= r.deadline
=============================================================================
