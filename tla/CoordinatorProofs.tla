------------------------- MODULE CoordinatorProofs -------------------------
(***************************************************************************)
(* Coordinator's type invariant and its per-assignment safety invariants,  *)
(* for every number of sessions, requests, sources, groups, attempts and   *)
(* policies and every bound on the clock.                                  *)
(***************************************************************************)
EXTENDS Coordinator, TLAPS

-----------------------------------------------------------------------------
(* Rows: every operation of the ledger keeps a row well typed and          *)
(* consistent, and changes leases, verdicts and cancellations only as Kept *)
(* allows.  The rest of the module applies these lemmas to whole tables.   *)

RowInv(r) ==
    /\ LeaseAgrees(r)
    /\ OutcomeAgrees(r)
    /\ BudgetKept(r)
    /\ CancelAgrees(r)
    /\ DeadlineKept(r)

\* The place of an assignment not yet created is a consistent row.
LEMMA AbsentRowOK == AbsentRow \in Row /\ RowInv(AbsentRow)
  <1>1. NoLease \in Lease
    BY DEF NoLease, Lease, LeaseState
  <1>2. AbsentRow \in Row
    BY <1>1 DEF AbsentRow, Row, AssignmentState, Outcome, NoDeadline
  <1>3. RowInv(AbsentRow)
    BY LedgerAssumption DEF AbsentRow, NoLease, RowInv, LeaseAgrees, OutcomeAgrees, BudgetKept,
       CancelAgrees, DeadlineKept, Attempt, Terminal, TerminalState, Waiting, WaitingState, NoDeadline
  <1> QED BY <1>2, <1>3

\* _insert_assignment makes a consistent row, given a budget of at least one attempt.
LEMMA NewRowOK ==
  ASSUME NEW now \in Nat, NEW deadline \in Nat \cup {NoDeadline}, NEW max \in 1 .. AttemptLimit
  PROVE  NewRow(now, deadline, max) \in Row /\ RowInv(NewRow(now, deadline, max))
  <1>0. max \in Nat /\ now \in Int
    BY LedgerAssumption
  <1>1. NewRow(now, deadline, max) \in Row
    <2> SUFFICES ASSUME NEW r \in Row
                 PROVE  [r EXCEPT !.state = "pending", !.available = now,
                                  !.deadline = deadline, !.max = max] \in Row
      BY AbsentRowOK DEF NewRow
    <2> QED BY <1>0 DEF Row, AssignmentState, WaitingState
  <1>2. RowInv(NewRow(now, deadline, max))
    BY LedgerAssumption DEF NewRow, AbsentRow, NoLease, RowInv, LeaseAgrees, OutcomeAgrees, BudgetKept,
       CancelAgrees, DeadlineKept, Attempt, Terminal, TerminalState, Waiting, WaitingState, NoDeadline
  <1> QED BY <1>1, <1>2

\* The retry delay is an integer for every attempt number.
LEMMA RetryDelayType == ASSUME NEW n \in Nat, n > 0 PROVE RetryDelay(n) \in Int
  BY LedgerAssumption DEF RetryDelay, Earlier

\* A capped expiry is a time, no later than the deadline if there is one.
LEMMA CappedType ==
  ASSUME NEW r \in Row, NEW t \in Nat
  PROVE  /\ Capped(r, t) \in Nat
         /\ r.deadline # NoDeadline => Capped(r, t) <= r.deadline
  BY DEF Capped, Earlier, Row, NoDeadline

\* lease_next_compatible keeps the row consistent: a leasable row has an attempt left,
\* so the new attempt's place is empty and stays within the budget.
LEMMA LeaseRowOK ==
  ASSUME NEW r \in Row, RowInv(r), NEW s \in Session, NEW now \in Nat, Leasable(r, now)
  PROVE  LeaseRow(r, s, now) \in Row /\ RowInv(LeaseRow(r, s, now))
  <1> DEFINE n == r.attempts + 1
             x == LeaseRow(r, s, now)
             e == Capped(r, now + LeaseDuration)
             l == [state |-> "active", session |-> s, expires |-> e, cancel |-> "no"]
  <1>1. e \in Nat /\ (r.deadline # NoDeadline => e <= r.deadline)
    BY CappedType, LedgerAssumption
  <1>2. l \in Lease
    BY <1>1 DEF Lease, LeaseState
  <1>3. n \in Attempt /\ Waiting(r) /\ r.cancel = "no" /\ r.attempts < r.max
    BY LedgerAssumption DEF Leasable, RowInv, BudgetKept, Attempt, Row
  <1>4. x = [r EXCEPT !.state = "leased", !.attempts = n, !.current = n, !.lease[n] = l]
    BY DEF LeaseRow
  <1> HIDE DEF n, l, e, x
  <1>n. n = r.attempts + 1 /\ n \in Nat
    BY DEF n, Row
  <1>l. l.state = "active" /\ l.cancel = "no" /\ l.expires = e
    BY DEF l
  <1>5. x \in Row
    BY <1>2, <1>4, <1>n DEF Row, AssignmentState
  <1>6. /\ x.state = "leased" /\ x.attempts = n /\ x.current = n /\ x.max = r.max
        /\ x.deadline = r.deadline /\ x.cancel = "no" /\ x.outcome = r.outcome /\ x.result = r.result
        /\ x.lease = [r.lease EXCEPT ![n] = l]
    BY <1>4, <1>3 DEF Row
  <1>7. \A m \in Attempt : x.lease[m] = IF m = n THEN l ELSE r.lease[m]
    BY <1>6 DEF Row
  <1>8. LeaseAgrees(x)
    BY <1>3, <1>6, <1>7, <1>l DEF RowInv, LeaseAgrees, Waiting, WaitingState, Attempt, Row
  <1>9. OutcomeAgrees(x)
    BY <1>3, <1>6 DEF RowInv, OutcomeAgrees, Terminal, TerminalState, Waiting, WaitingState
  <1>10. BudgetKept(x)
    BY <1>3, <1>6, <1>7, <1>l, <1>n DEF RowInv, BudgetKept, Waiting, WaitingState, Attempt, Row
  <1>11. CancelAgrees(x)
    BY <1>3, <1>6, <1>7, <1>l DEF RowInv, CancelAgrees, Waiting, WaitingState
  <1>12. DeadlineKept(x)
    BY <1>1, <1>6, <1>7, <1>l DEF RowInv, DeadlineKept
  <1> QED BY <1>5, <1>8, <1>9, <1>10, <1>11, <1>12 DEF RowInv, x
(***************************************************************************)
(* What ends an attempt.                                                   *)
(***************************************************************************)

\* r with the lease of attempt n closed: the row the ending operations start from.
Ended(r, c, n) ==
    /\ c \in Row
    /\ c = [r EXCEPT !.lease = c.lease]
    /\ c.lease[n].state \in {"succeeded", "failed", "expired"}
    /\ \A m \in Attempt : /\ m # n => c.lease[m] = r.lease[m]
                          /\ c.lease[m].expires = r.lease[m].expires
                          /\ c.lease[m].cancel = r.lease[m].cancel

\* What an ended row still satisfies when its assignment is no longer leased.
LEMMA EndedFacts ==
  ASSUME NEW r \in Row, RowInv(r), r.state = "leased", NEW c, Ended(r, c, r.current)
  PROVE  /\ c.state = "leased" /\ c.attempts = r.attempts /\ c.max = r.max
         /\ c.deadline = r.deadline /\ c.current = r.current /\ c.cancel = r.cancel
         /\ c.outcome = r.outcome /\ c.result = r.result /\ c.available = r.available
         /\ r.current \in Attempt /\ r.current = r.attempts
         /\ r.outcome = "none" /\ r.result = None
         /\ \A m \in Attempt : /\ c.lease[m].state # "active"
                               /\ c.lease[m].state = "none" <=> m > r.attempts
                               /\ r.deadline # NoDeadline => c.lease[m].expires <= r.deadline
  <1>1. /\ c.state = "leased" /\ c.attempts = r.attempts /\ c.max = r.max
        /\ c.deadline = r.deadline /\ c.current = r.current /\ c.cancel = r.cancel
        /\ c.outcome = r.outcome /\ c.result = r.result /\ c.available = r.available
    BY DEF Ended, Row
  <1>2. r.current \in Attempt /\ r.current = r.attempts /\ r.outcome = "none" /\ r.result = None
    BY DEF RowInv, LeaseAgrees, OutcomeAgrees, Terminal, TerminalState
  <1>3. \A m \in Attempt : /\ c.lease[m].state # "active"
                           /\ c.lease[m].state = "none" <=> m > r.attempts
                           /\ r.deadline # NoDeadline => c.lease[m].expires <= r.deadline
    <2> SUFFICES ASSUME NEW m \in Attempt
                 PROVE  /\ c.lease[m].state # "active"
                        /\ c.lease[m].state = "none" <=> m > r.attempts
                        /\ r.deadline # NoDeadline => c.lease[m].expires <= r.deadline
      OBVIOUS
    <2>1. CASE m = r.current
      BY <2>1, <1>2 DEF Ended, RowInv, DeadlineKept, Attempt
    <2>2. CASE m # r.current
      BY <2>2, <1>2 DEF Ended, RowInv, DeadlineKept, LeaseAgrees, BudgetKept, Attempt
    <2> QED BY <2>1, <2>2
  <1>4. QED
    BY <1>1, <1>2, <1>3, Zenon

\* The row x an operation makes of an ended one is consistent.
LEMMA EndedRowOK ==
  ASSUME NEW r \in Row, RowInv(r), r.state = "leased", NEW c, Ended(r, c, r.current),
         NEW x \in Row, x.lease = c.lease, x.current = 0, x.attempts = c.attempts,
         x.max = c.max, x.deadline = c.deadline,
         \/ /\ x.state = "retry_wait" /\ x.outcome = "none" /\ x.result = None
            /\ x.attempts < x.max /\ x.cancel = "no"
         \/ /\ x.state = "failed" /\ x.outcome \in FailureOutcome /\ x.result = None
            /\ x.cancel \in {"no", "terminal"}
         \/ /\ x.state = "succeeded" /\ x.outcome = "result" /\ x.result \in Payload
            /\ x.cancel \in {"no", "terminal"}
  PROVE  RowInv(x)
  <1>1. /\ c.attempts = r.attempts /\ c.max = r.max /\ c.deadline = r.deadline
        /\ \A m \in Attempt : /\ c.lease[m].state # "active"
                              /\ c.lease[m].state = "none" <=> m > r.attempts
                              /\ r.deadline # NoDeadline => c.lease[m].expires <= r.deadline
    BY EndedFacts
  <1>2. LeaseAgrees(x)
    BY <1>1 DEF LeaseAgrees, Attempt
  <1>3. OutcomeAgrees(x)
    BY LedgerAssumption DEF OutcomeAgrees, FailureOutcome, Terminal, TerminalState
  <1>4. BudgetKept(x)
    BY <1>1 DEF RowInv, BudgetKept, Waiting, WaitingState
  <1>5. CancelAgrees(x)
    BY DEF CancelAgrees, Waiting, WaitingState, Terminal, TerminalState
  <1>6. DeadlineKept(x)
    BY <1>1 DEF DeadlineKept
  <1> QED BY <1>2, <1>3, <1>4, <1>5, <1>6 DEF RowInv

\* _retry_or_terminal turns a row whose lease has ended into a consistent one: it waits
\* with an attempt left, or it is failed with its first outcome.
LEMMA RetryOrTerminalOK ==
  ASSUME NEW r \in Row, RowInv(r), r.state = "leased", r.cancel = "no",
         NEW c, Ended(r, c, r.current), NEW now \in Nat, NEW retryable \in BOOLEAN
  PROVE  RetryOrTerminal(c, now, retryable) \in Row /\ RowInv(RetryOrTerminal(c, now, retryable))
  <1> DEFINE x == RetryOrTerminal(c, now, retryable)
             retryAt == now + RetryDelay(c.attempts)
  <1>0. c \in Row
    BY DEF Ended
  <1>1. /\ c.attempts \in Nat /\ c.attempts > 0
        /\ c.outcome = "none" /\ c.result = None /\ c.cancel = "no"
    BY EndedFacts DEF Attempt, Row
  <1>2. retryAt \in Int
    BY <1>1, RetryDelayType
  <1>3. CASE /\ x = [c EXCEPT !.state = "retry_wait", !.available = retryAt, !.current = 0]
             /\ c.attempts < c.max
    <2> HIDE DEF retryAt, x
    <2>1. x \in Row
      BY <1>0, <1>2, <1>3 DEF Row, AssignmentState, WaitingState
    <2>2. /\ x.state = "retry_wait" /\ x.current = 0 /\ x.attempts = c.attempts /\ x.max = c.max
          /\ x.deadline = c.deadline /\ x.cancel = c.cancel /\ x.outcome = c.outcome
          /\ x.result = c.result /\ x.lease = c.lease
      BY <1>0, <1>3 DEF Row
    <2>3. RowInv(x)
      BY <1>1, <1>3, <2>1, <2>2, EndedRowOK
    <2> QED BY <2>1, <2>3 DEF x
  <1>4. CASE \E o \in FailureOutcome :
               x = [c EXCEPT !.state = "failed", !.current = 0, !.outcome = o]
    <2> HIDE DEF retryAt, x
    <2>0. PICK o \in FailureOutcome : x = [c EXCEPT !.state = "failed", !.current = 0, !.outcome = o]
      BY <1>4
    <2>1. x \in Row
      BY <1>0, <2>0 DEF Row, AssignmentState, TerminalState, Outcome
    <2>2. /\ x.state = "failed" /\ x.current = 0 /\ x.attempts = c.attempts /\ x.max = c.max
          /\ x.deadline = c.deadline /\ x.cancel = c.cancel /\ x.outcome = o
          /\ x.result = c.result /\ x.lease = c.lease
      BY <1>0, <2>0 DEF Row
    <2>3. RowInv(x)
      BY <1>1, <2>1, <2>2, EndedRowOK
    <2> QED BY <2>1, <2>3 DEF x
  <1> QED BY <1>1, <1>3, <1>4 DEF RetryOrTerminal, InsertOutcome, FailureOutcome

\* Failing a cancelled assignment whose lease has ended leaves a consistent row.
LEMMA FailCancelledOK ==
  ASSUME NEW r \in Row, RowInv(r), r.state = "leased", r.cancel # "no",
         NEW c, Ended(r, c, r.current)
  PROVE  FailCancelled(c, "failure") \in Row /\ RowInv(FailCancelled(c, "failure"))
  <1> DEFINE x == FailCancelled(c, "failure")
  <1>0. c \in Row /\ c.cancel # "no" /\ c.result = None
    BY EndedFacts DEF Ended
  <1>1. x = [c EXCEPT !.state = "failed", !.current = 0, !.outcome = "failure", !.cancel = "terminal"]
    BY <1>0 DEF FailCancelled, Row
  <1> HIDE DEF x
  <1>2. x \in Row
    BY <1>0, <1>1 DEF Row, AssignmentState, TerminalState, Outcome, FailureOutcome
  <1>3. /\ x.state = "failed" /\ x.current = 0 /\ x.attempts = c.attempts /\ x.max = c.max
        /\ x.deadline = c.deadline /\ x.cancel = "terminal" /\ x.outcome = "failure"
        /\ x.result = c.result /\ x.lease = c.lease
    BY <1>0, <1>1 DEF Row
  <1>4. RowInv(x)
    BY <1>0, <1>2, <1>3, EndedRowOK DEF FailureOutcome
  <1> QED BY <1>2, <1>4 DEF x

\* Closing the current lease of a consistent row gives an ended row.
LEMMA CloseLease ==
  ASSUME NEW r \in Row, NEW n \in Attempt, NEW st \in {"succeeded", "failed"}
  PROVE  Ended(r, [r EXCEPT !.lease[n].state = st], n)
  <1> DEFINE l == [r.lease[n] EXCEPT !.state = st]
             ls == [r.lease EXCEPT ![n] = l]
             c == [r EXCEPT !.lease = ls]
  <1>1. l \in Lease /\ l.state = st /\ l.expires = r.lease[n].expires /\ l.cancel = r.lease[n].cancel
    BY DEF Row, Lease, LeaseState
  <1> HIDE DEF l
  <1>2. ls \in [Attempt -> Lease] /\ \A m \in Attempt : ls[m] = IF m = n THEN l ELSE r.lease[m]
    BY <1>1 DEF Row
  <1> HIDE DEF ls
  <1>3. c \in Row /\ c.lease = ls
    BY <1>2 DEF Row
  <1>4. [r EXCEPT !.lease[n].state = st] = c
    BY DEF ls, l, Row
  <1>5. Ended(r, c, n)
    BY <1>1, <1>2, <1>3 DEF Ended
  <1> QED BY <1>4, <1>5

\* The transaction of accept_result keeps the row consistent.
LEMMA SucceedRowOK ==
  ASSUME NEW r \in Row, RowInv(r), NEW now \in Nat, NEW n \in Attempt, NEW p \in Payload,
         Submittable(r, n, now)
  PROVE  SucceedRow(r, n, p) \in Row /\ RowInv(SucceedRow(r, n, p))
  <1> DEFINE c == [r EXCEPT !.lease[n].state = "succeeded"]
             x == SucceedRow(r, n, p)
             k == IF r.cancel = "no" THEN "no" ELSE "terminal"
  <1>1. r.state = "leased" /\ r.current = n
    BY DEF Submittable, Live
  <1>2. Ended(r, c, r.current)
    BY <1>1, CloseLease
  <1>3. c \in Row
    BY <1>2 DEF Ended
  <1>4. r.outcome = "none"
    BY <1>1, <1>2, EndedFacts
  <1>5. x = [c EXCEPT !.state = "succeeded", !.current = 0, !.result = p, !.outcome = "result",
                      !.cancel = k]
    BY <1>4 DEF SucceedRow, InsertOutcome, Row
  <1>k. k \in {"no", "terminal"}
    OBVIOUS
  <1> HIDE DEF c, x, k
  <1>6. x \in Row
    BY <1>3, <1>5, <1>k DEF Row, AssignmentState, TerminalState, Outcome
  <1>7. /\ x.state = "succeeded" /\ x.current = 0 /\ x.attempts = c.attempts /\ x.max = c.max
        /\ x.deadline = c.deadline /\ x.cancel \in {"no", "terminal"} /\ x.outcome = "result"
        /\ x.result = p /\ x.lease = c.lease
    BY <1>3, <1>5, <1>k DEF Row
  <1>8. RowInv(x)
    BY <1>1, <1>2, <1>6, <1>7, EndedRowOK
  <1> QED BY <1>6, <1>8 DEF x

\* The transaction of accept_failure keeps the row consistent.
LEMMA FailRowOK ==
  ASSUME NEW r \in Row, RowInv(r), NEW now \in Nat, NEW n \in Attempt, NEW retryable \in BOOLEAN,
         Submittable(r, n, now)
  PROVE  FailRow(r, n, now, retryable) \in Row /\ RowInv(FailRow(r, n, now, retryable))
  <1> DEFINE c == [r EXCEPT !.lease[n].state = "failed"]
  <1>1. r.state = "leased" /\ r.current = n
    BY DEF Submittable, Live
  <1>2. Ended(r, c, r.current)
    BY <1>1, CloseLease
  <1>3. c \in Row
    BY <1>2 DEF Ended
  <1>4. r.outcome = "none"
    BY <1>1, <1>2, EndedFacts
  <1>5. r.lease[n].cancel # "no" <=> r.cancel # "no"
    BY <1>1 DEF RowInv, CancelAgrees, Row, Terminal, TerminalState
  <1> HIDE DEF c
  <1>6. CASE r.cancel # "no"
    <2>1. FailRow(r, n, now, retryable) = FailCancelled(c, "failure")
      BY <1>4, <1>5, <1>6 DEF FailRow, InsertOutcome, c
    <2> QED BY <2>1, <1>1, <1>2, <1>6, FailCancelledOK
  <1>7. CASE r.cancel = "no"
    <2>1. FailRow(r, n, now, retryable) = RetryOrTerminal(c, now, retryable)
      BY <1>5, <1>7 DEF FailRow, c
    <2> QED BY <2>1, <1>1, <1>2, <1>7, RetryOrTerminalOK
  <1> QED BY <1>6, <1>7

\* The first loop of _expire_leases keeps the row consistent: at most one lease is due,
\* the current one.
LEMMA ExpireOverdueOK ==
  ASSUME NEW r \in Row, RowInv(r), NEW now \in Nat
  PROVE  ExpireOverdue(r, now) \in Row /\ RowInv(ExpireOverdue(r, now))
  <1> DEFINE due == Overdue(r, now)
             ls == [n \in Attempt |->
                      IF n \in due THEN [r.lease[n] EXCEPT !.state = "expired"] ELSE r.lease[n]]
             c == [r EXCEPT !.lease = ls]
  <1>1. CASE due = {}
    BY <1>1 DEF ExpireOverdue
  <1>2. CASE due # {}
    <2>1. r.state = "leased" /\ due = {r.current} /\ r.current \in Attempt
      <3>1. \A n \in due : n = r.current /\ n \in Attempt
        BY DEF Overdue, RowInv, LeaseAgrees
      <3>2. r.current \in Attempt
        BY <1>2, <3>1
      <3>3. r.state = "leased"
        BY <3>2 DEF RowInv, LeaseAgrees, Attempt
      <3> QED BY <1>2, <3>1, <3>2, <3>3
    <2>a. ls \in [Attempt -> Lease]
      <3> SUFFICES ASSUME NEW n \in Attempt
                   PROVE  [r.lease[n] EXCEPT !.state = "expired"] \in Lease /\ r.lease[n] \in Lease
        OBVIOUS
      <3> QED BY DEF Row, Lease, LeaseState
    <2>b. /\ ls[r.current].state = "expired"
          /\ \A m \in Attempt : /\ m # r.current => ls[m] = r.lease[m]
                                /\ ls[m].expires = r.lease[m].expires
                                /\ ls[m].cancel = r.lease[m].cancel
      BY <2>1 DEF Row, Lease
    <2>2. c \in Row /\ c.lease = ls
      <3> HIDE DEF ls
      <3> QED BY <2>a DEF Row
    <2>3. Ended(r, c, r.current)
      <3> HIDE DEF ls
      <3> QED BY <2>b, <2>2 DEF Ended
    <2>4. r.outcome = "none"
      BY <2>1, <2>3, EndedFacts
    <2>5. (\E n \in due : r.lease[n].cancel # "no") <=> r.cancel # "no"
      BY <2>1 DEF RowInv, CancelAgrees, Row, Terminal, TerminalState
    <2>6. CASE r.cancel # "no"
      <3>1. ExpireOverdue(r, now) = FailCancelled(c, "failure")
        BY <1>2, <2>4, <2>5, <2>6 DEF ExpireOverdue, InsertOutcomeOrIgnore
      <3> QED BY <3>1, <2>1, <2>3, <2>6, FailCancelledOK
    <2>7. CASE r.cancel = "no"
      <3>1. ExpireOverdue(r, now) = RetryOrTerminal(c, now, TRUE)
        BY <1>2, <2>5, <2>7 DEF ExpireOverdue
      <3> QED BY <3>1, <2>1, <2>3, <2>7, RetryOrTerminalOK
    <2> QED BY <2>6, <2>7
  <1> QED BY <1>1, <1>2

\* _expire_leases as a whole keeps the row consistent.
LEMMA ExpireRowOK ==
  ASSUME NEW r \in Row, RowInv(r), NEW now \in Nat
  PROVE  ExpireRow(r, now) \in Row /\ RowInv(ExpireRow(r, now))
  <1> DEFINE e == ExpireOverdue(r, now)
             x == [e EXCEPT !.state = "failed", !.current = 0,
                            !.outcome = InsertOutcome(e, "deadline_exceeded")]
  <1>1. e \in Row /\ RowInv(e)
    BY ExpireOverdueOK
  <1>2. CASE ~(Waiting(e) /\ DeadlinePassed(e, now))
    BY <1>1, <1>2 DEF ExpireRow
  <1>3. CASE Waiting(e) /\ DeadlinePassed(e, now)
    <2>1. ExpireRow(r, now) = x
      BY <1>3 DEF ExpireRow
    <2> HIDE DEF e
    <2>2. InsertOutcome(e, "deadline_exceeded") = "deadline_exceeded"
      BY <1>1, <1>3 DEF InsertOutcome, RowInv, OutcomeAgrees, Waiting, WaitingState, Terminal, TerminalState
    <2>3. x \in Row
      BY <1>1, <2>2 DEF Row, AssignmentState, TerminalState, Outcome, FailureOutcome
    <2>4. /\ x.state = "failed" /\ x.current = 0 /\ x.attempts = e.attempts /\ x.max = e.max
          /\ x.deadline = e.deadline /\ x.cancel = e.cancel /\ x.outcome = "deadline_exceeded"
          /\ x.result = e.result /\ x.lease = e.lease
      BY <1>1, <2>2 DEF Row
    <2> HIDE DEF x
    <2>5. RowInv(x)
      BY <1>1, <1>3, <2>4 DEF RowInv, LeaseAgrees, OutcomeAgrees, BudgetKept, CancelAgrees,
         DeadlineKept, Waiting, WaitingState, Terminal, TerminalState
    <2> QED BY <2>1, <2>3, <2>5
  <1> QED BY <1>2, <1>3

\* _cancel_stale_train_groups keeps the row consistent.
LEMMA CancelRowOK ==
  ASSUME NEW r \in Row, RowInv(r)
  PROVE  CancelRow(r) \in Row /\ RowInv(CancelRow(r))
  <1> DEFINE x == CancelRow(r)
  <1>1. CASE Waiting(r)
    <2>1. x = [r EXCEPT !.state = "failed", !.current = 0, !.cancel = "terminal", !.outcome = "failure"]
      BY <1>1 DEF CancelRow, InsertOutcomeOrIgnore, RowInv, OutcomeAgrees, Waiting, WaitingState,
         Terminal, TerminalState
    <2> HIDE DEF x
    <2>2. x \in Row
      BY <2>1 DEF Row, AssignmentState, TerminalState, Outcome, FailureOutcome
    <2>3. /\ x.state = "failed" /\ x.current = 0 /\ x.attempts = r.attempts /\ x.max = r.max
          /\ x.deadline = r.deadline /\ x.cancel = "terminal" /\ x.outcome = "failure"
          /\ x.result = r.result /\ x.lease = r.lease
      BY <2>1 DEF Row
    <2>4. RowInv(x)
      BY <1>1, <2>3 DEF RowInv, LeaseAgrees, OutcomeAgrees, BudgetKept, CancelAgrees,
         DeadlineKept, Waiting, WaitingState, Terminal, TerminalState
    <2> QED BY <2>2, <2>4 DEF x
  <1>2. CASE r.state = "leased"
    <2> DEFINE ls == [n \in Attempt |->
                        IF n = r.current /\ r.lease[n].cancel = "no"
                        THEN [r.lease[n] EXCEPT !.cancel = "requested"] ELSE r.lease[n]]
    <2>1. x = [r EXCEPT !.cancel = "requested", !.lease = ls]
      BY <1>2 DEF CancelRow, RowInv, CancelAgrees, Waiting, WaitingState, Terminal, TerminalState, Row
    <2>2. /\ ls \in [Attempt -> Lease]
          /\ \A n \in Attempt : ls[n].state = r.lease[n].state /\ ls[n].expires = r.lease[n].expires
          /\ r.current \in Attempt /\ ls[r.current].cancel # "no"
      BY <1>2 DEF Row, Lease, RowInv, LeaseAgrees
    <2> HIDE DEF x, ls
    <2>3. x \in Row
      BY <2>1, <2>2 DEF Row
    <2>4. /\ x.state = "leased" /\ x.current = r.current /\ x.attempts = r.attempts /\ x.max = r.max
          /\ x.deadline = r.deadline /\ x.cancel = "requested" /\ x.outcome = r.outcome
          /\ x.result = r.result /\ x.lease = ls
      BY <1>2, <2>1 DEF Row
    <2>5. LeaseAgrees(x)
      BY <1>2, <2>2, <2>4 DEF RowInv, LeaseAgrees
    <2>6. OutcomeAgrees(x)
      BY <1>2, <2>4 DEF RowInv, OutcomeAgrees, Terminal, TerminalState
    <2>7. BudgetKept(x)
      BY <1>2, <2>2, <2>4 DEF RowInv, BudgetKept, Waiting, WaitingState
    <2>8. CancelAgrees(x) /\ DeadlineKept(x)
      BY <1>2, <2>2, <2>4 DEF RowInv, CancelAgrees, DeadlineKept, Waiting, WaitingState
    <2> QED BY <2>3, <2>5, <2>6, <2>7, <2>8 DEF RowInv, x
  <1>3. CASE ~Waiting(r) /\ r.state # "leased"
    BY <1>3 DEF CancelRow
  <1> QED BY <1>1, <1>2, <1>3

\* A heartbeat keeps the row consistent, whichever leases it reports.
LEMMA RenewRowOK ==
  ASSUME NEW r \in Row, RowInv(r), NEW H \in SUBSET Attempt, NEW now \in Nat
  PROVE  RenewRow(r, H, now) \in Row /\ RowInv(RenewRow(r, H, now))
  <1> DEFINE ls == [n \in Attempt |-> IF n \in H THEN RenewLease(r, n, now) ELSE r.lease[n]]
             x == RenewRow(r, H, now)
  <1>1. ASSUME NEW n \in Attempt
        PROVE  /\ RenewLease(r, n, now) \in Lease
               /\ RenewLease(r, n, now).state = r.lease[n].state
               /\ RenewLease(r, n, now).cancel # "no" <=> r.lease[n].cancel # "no"
               /\ r.deadline # NoDeadline => RenewLease(r, n, now).expires <= r.deadline
    <2> DEFINE e == Capped(r, Later(r.lease[n].expires, now + LeaseDuration))
    <2>1. Later(r.lease[n].expires, now + LeaseDuration) \in Nat
      BY LedgerAssumption DEF Later, Row, Lease
    <2>2. e \in Nat /\ (r.deadline # NoDeadline => e <= r.deadline)
      BY <2>1, CappedType
    <2> HIDE DEF e
    <2>3. r.lease[n] \in Lease /\ (r.deadline # NoDeadline => r.lease[n].expires <= r.deadline)
      BY DEF Row, RowInv, DeadlineKept
    <2>4. \/ RenewLease(r, n, now) = [r.lease[n] EXCEPT !.cancel = "delivered"] /\ r.lease[n].cancel # "no"
          \/ RenewLease(r, n, now) = [r.lease[n] EXCEPT !.expires = e]
          \/ RenewLease(r, n, now) = r.lease[n]
      BY <2>3 DEF RenewLease, Extended, Delivered, e, Lease
    <2> QED BY <2>2, <2>3, <2>4 DEF Lease
  <1>2. /\ ls \in [Attempt -> Lease]
        /\ \A n \in Attempt : /\ ls[n].state = r.lease[n].state
                              /\ ls[n].cancel # "no" <=> r.lease[n].cancel # "no"
                              /\ r.deadline # NoDeadline => ls[n].expires <= r.deadline
    BY <1>1 DEF Row, RowInv, DeadlineKept
  <1>3. x = [r EXCEPT !.lease = ls]
    BY DEF RenewRow
  <1> HIDE DEF x, ls
  <1>4. x \in Row
    BY <1>2, <1>3 DEF Row
  <1>5. /\ x.state = r.state /\ x.current = r.current /\ x.attempts = r.attempts /\ x.max = r.max
        /\ x.deadline = r.deadline /\ x.cancel = r.cancel /\ x.outcome = r.outcome
        /\ x.result = r.result /\ x.lease = ls
    BY <1>3 DEF Row
  <1>6. LeaseAgrees(x) /\ OutcomeAgrees(x)
    BY <1>2, <1>5 DEF RowInv, LeaseAgrees, OutcomeAgrees, Terminal
  <1>7. BudgetKept(x)
    BY <1>2, <1>5 DEF RowInv, BudgetKept, Waiting
  <1>8. CancelAgrees(x)
    BY <1>2, <1>5 DEF RowInv, CancelAgrees, LeaseAgrees, Waiting, Terminal
  <1>9. DeadlineKept(x)
    BY <1>2, <1>5 DEF DeadlineKept
  <1> QED BY <1>4, <1>6, <1>7, <1>8, <1>9 DEF RowInv, x

\* renew_lease does to one lease what a heartbeat that reports only that lease does: while
\* a lease is active its assignment is leased, so the check renew_lease leaves out holds.
LEMMA RenewSingleIsRenewRow ==
  ASSUME NEW r \in Row, RowInv(r), NEW n \in Attempt, NEW now \in Nat, Renewable(r, n, now)
  PROVE  RenewSingle(r, n, now) = RenewRow(r, {n}, now)
  <1>1. r.state = "leased"
    BY DEF RowInv, LeaseAgrees, Renewable, Attempt
  <1>2. RenewLease(r, n, now) = IF r.lease[n].cancel # "no" THEN Delivered(r.lease[n])
                                ELSE Extended(r, n, now)
    BY <1>1 DEF RenewLease, Renewable, Live
  <1> DEFINE new == RenewLease(r, n, now)
             ls == [m \in Attempt |-> IF m \in {n} THEN RenewLease(r, m, now) ELSE r.lease[m]]
  <1>3. [r.lease EXCEPT ![n] = new] = ls
    BY DEF Row
  <1>4. RenewSingle(r, n, now) = [r EXCEPT !.lease = [r.lease EXCEPT ![n] = new]]
    BY <1>2 DEF RenewSingle, Row
  <1>5. RenewRow(r, {n}, now) = [r EXCEPT !.lease = ls]
    BY DEF RenewRow
  <1> QED BY <1>3, <1>4, <1>5

\* renew_lease keeps the row consistent.
LEMMA RenewSingleOK ==
  ASSUME NEW r \in Row, RowInv(r), NEW n \in Attempt, NEW now \in Nat, Renewable(r, n, now)
  PROVE  RenewSingle(r, n, now) \in Row /\ RowInv(RenewSingle(r, n, now))
  BY RenewSingleIsRenewRow, RenewRowOK

-----------------------------------------------------------------------------
(* What an operation may do to a row that exists, beyond keeping it        *)
(* consistent.                                                             *)

Closed == {"succeeded", "failed", "expired"}

\* A lease keeps its session; it is neither issued nor reopened, a closed lease stays as
\* it is, and one that has expired by the clock is not extended.
LeaseKept(old, new, now) ==
    /\ new.session = old.session
    /\ old.state = "none" <=> new.state = "none"
    /\ new.state = "active" => old.state = "active"
    /\ old.state \in Closed => new.state = old.state /\ new.expires = old.expires
    /\ old.state = "active" /\ old.expires <= now =>
          new.state \in {"active", "expired"} /\ new.expires = old.expires
    /\ new.cancel # "delivered" => old.cancel # "delivered"

\* A row is neither created nor removed, a terminal row keeps its verdict, the deadline
\* is fixed, and a requested cancellation stands until the assignment is terminal.
Kept(r, x, now) ==
    /\ x.state = "absent" <=> r.state = "absent"
    /\ Terminal(r) => x.state = r.state /\ x.result = r.result
    /\ x.deadline = r.deadline
    /\ r.cancel = "requested" /\ Unfinished(x) => x.cancel = "requested"
    /\ \A n \in Attempt : LeaseKept(r.lease[n], x.lease[n], now)

\* No result is accepted.
NothingAccepted(r, x) ==
    /\ x.state = "succeeded" => r.state = "succeeded"
    /\ \A n \in Attempt : x.lease[n].state = "succeeded" => r.lease[n].state = "succeeded"

\* A row that stays as it is evolves as allowed.
LEMMA KeptReflexive ==
  ASSUME NEW r \in Row, NEW now \in Nat
  PROVE  Kept(r, r, now) /\ NothingAccepted(r, r)
  BY DEF Kept, NothingAccepted, LeaseKept

\* Two allowed changes of a lease at one instant make an allowed change.
LEMMA LeaseKeptTransitive ==
  ASSUME NEW a \in Lease, NEW b \in Lease, NEW c \in Lease, NEW now \in Nat,
         LeaseKept(a, b, now), LeaseKept(b, c, now)
  PROVE  LeaseKept(a, c, now)
  BY DEF LeaseKept, Lease, LeaseState, Closed

\* Two allowed changes of a row make one: operations sweep before they act.
LEMMA KeptTransitive ==
  ASSUME NEW r \in Row, NEW x \in Row, NEW y \in Row, NEW now \in Nat, Kept(r, x, now), Kept(x, y, now),
         RowInv(x)
  PROVE  /\ Kept(r, y, now)
         /\ NothingAccepted(r, x) /\ NothingAccepted(x, y) => NothingAccepted(r, y)
  <1>1. \A n \in Attempt : r.lease[n] \in Lease /\ x.lease[n] \in Lease /\ y.lease[n] \in Lease
    BY DEF Row
  <1>2. \A n \in Attempt : LeaseKept(r.lease[n], y.lease[n], now)
    BY <1>1, LeaseKeptTransitive DEF Kept
  <1>3. Unfinished(y) => Unfinished(x)
    BY DEF Kept, Unfinished, Waiting, WaitingState, Terminal, TerminalState, Row, AssignmentState
  <1>4. /\ y.state = "absent" <=> r.state = "absent"
        /\ y.deadline = r.deadline
        /\ r.cancel = "requested" /\ Unfinished(y) => y.cancel = "requested"
    BY <1>3 DEF Kept
  <1>5. Terminal(r) => y.state = r.state /\ y.result = r.result
    BY DEF Kept, Terminal
  <1>6. Kept(r, y, now)
    BY <1>2, <1>4, <1>5 DEF Kept
  <1> QED BY <1>6 DEF NothingAccepted

\* _cancel_stale_train_groups: what is left unfinished has its cancellation requested.
LEMMA CancelRowKept ==
  ASSUME NEW r \in Row, RowInv(r), NEW now \in Nat
  PROVE  /\ Kept(r, CancelRow(r), now) /\ NothingAccepted(r, CancelRow(r))
         /\ Unfinished(CancelRow(r)) => CancelRow(r).cancel = "requested"
         /\ r.state = "absent" => CancelRow(r) = r
  <1> DEFINE x == CancelRow(r)
  <1>1. CASE Waiting(r)
    <2>1. /\ x.state = "failed" /\ x.deadline = r.deadline /\ x.lease = r.lease /\ x.result = r.result
      BY <1>1 DEF CancelRow, Row
    <2> HIDE DEF x
    <2> QED BY <1>1, <2>1 DEF x, Kept, NothingAccepted, LeaseKept, Unfinished, Waiting, WaitingState,
                Terminal, TerminalState
  <1>2. CASE r.state = "leased"
    <2> DEFINE ls == [n \in Attempt |->
                        IF n = r.current /\ r.lease[n].cancel = "no"
                        THEN [r.lease[n] EXCEPT !.cancel = "requested"] ELSE r.lease[n]]
    <2>1. x = [r EXCEPT !.cancel = "requested", !.lease = ls]
      BY <1>2 DEF CancelRow, RowInv, CancelAgrees, Waiting, WaitingState, Terminal, TerminalState, Row
    <2>2. \A n \in Attempt :
             /\ ls[n].state = r.lease[n].state /\ ls[n].expires = r.lease[n].expires
             /\ ls[n].session = r.lease[n].session
             /\ ls[n].cancel # "delivered" => r.lease[n].cancel # "delivered"
      BY DEF Row, Lease
    <2> HIDE DEF ls, x
    <2>3. x.state = "leased" /\ x.deadline = r.deadline /\ x.lease = ls /\ x.cancel = "requested"
      BY <1>2, <2>1 DEF Row
    <2>4. \A n \in Attempt : LeaseKept(r.lease[n], x.lease[n], now)
      BY <2>2, <2>3 DEF LeaseKept, Row, Lease
    <2> QED BY <1>2, <2>2, <2>3, <2>4 DEF x, Kept, NothingAccepted, Terminal, TerminalState
  <1>3. CASE ~Waiting(r) /\ r.state # "leased"
    <2>1. x = r
      BY <1>3 DEF CancelRow
    <2> HIDE DEF x
    <2> QED BY <1>3, <2>1, KeptReflexive DEF x, Unfinished
  <1>4. r.state = "absent" => x = r
    BY DEF CancelRow, Waiting, WaitingState
  <1> QED BY <1>1, <1>2, <1>3, <1>4

\* What ends the current lease without a result leaves the other leases alone; a cancelled
\* assignment is not retried.
LEMMA EndedKept ==
  ASSUME NEW r \in Row, RowInv(r), r.state = "leased", NEW c, Ended(r, c, r.current),
         NEW now \in Nat, c.lease[r.current].session = r.lease[r.current].session,
         c.lease[r.current].state # "succeeded",
         r.lease[r.current].expires <= now => c.lease[r.current].state = "expired",
         NEW x \in Row, x.lease = c.lease, x.deadline = c.deadline,
         x.state \in {"retry_wait", "failed"}, r.cancel = "requested" => x.state = "failed"
  PROVE  Kept(r, x, now) /\ NothingAccepted(r, x)
  <1>1. r.current \in Attempt /\ c.deadline = r.deadline
    BY EndedFacts
  <1>2. \A n \in Attempt : r.lease[n].state = "active" <=> n = r.current
    BY DEF RowInv, LeaseAgrees
  <1>3. \A n \in Attempt : n = r.current =>
           LeaseKept(r.lease[n], x.lease[n], now) /\ x.lease[n].state # "succeeded"
    BY <1>1, <1>2 DEF Ended, LeaseKept, Closed
  <1>4. \A n \in Attempt : n # r.current => x.lease[n] = r.lease[n]
    BY DEF Ended
  <1>5. \A n \in Attempt : LeaseKept(r.lease[n], x.lease[n], now)
    BY <1>2, <1>3, <1>4 DEF LeaseKept
  <1>6. \A n \in Attempt : x.lease[n].state = "succeeded" => r.lease[n].state = "succeeded"
    BY <1>3, <1>4
  <1> QED BY <1>1, <1>5, <1>6 DEF Kept, NothingAccepted, Terminal, TerminalState, Unfinished, Waiting, WaitingState

\* _retry_or_terminal touches neither the leases nor the deadline.
LEMMA RetryOrTerminalShape ==
  ASSUME NEW c \in Row, NEW now, NEW retryable \in BOOLEAN
  PROVE  LET x == RetryOrTerminal(c, now, retryable)
         IN  x.lease = c.lease /\ x.deadline = c.deadline /\ x.state \in {"retry_wait", "failed"}
  BY DEF RetryOrTerminal, Row

\* Ending cancelled work as failed touches neither the leases nor the deadline.
LEMMA FailCancelledShape ==
  ASSUME NEW c \in Row, NEW o
  PROVE  LET x == FailCancelled(c, o)
         IN  x.lease = c.lease /\ x.deadline = c.deadline /\ x.state = "failed"
  BY DEF FailCancelled, Row

\* The first loop of _expire_leases.
LEMMA ExpireOverdueKept ==
  ASSUME NEW r \in Row, RowInv(r), NEW now \in Nat
  PROVE  /\ Kept(r, ExpireOverdue(r, now), now) /\ NothingAccepted(r, ExpireOverdue(r, now))
         /\ r.state = "absent" => ExpireOverdue(r, now) = r
  <1> DEFINE due == Overdue(r, now)
             ls == [n \in Attempt |->
                      IF n \in due THEN [r.lease[n] EXCEPT !.state = "expired"] ELSE r.lease[n]]
             c == [r EXCEPT !.lease = ls]
             x == ExpireOverdue(r, now)
  <1>1. CASE due = {}
    <2>1. x = r
      BY <1>1 DEF ExpireOverdue
    <2> HIDE DEF x
    <2> QED BY <2>1, KeptReflexive DEF x
  <1>2. CASE due # {}
    <2>1. r.state = "leased" /\ due = {r.current} /\ r.current \in Attempt
      <3>1. \A n \in due : n = r.current /\ n \in Attempt
        BY DEF Overdue, RowInv, LeaseAgrees
      <3>2. r.current \in Attempt
        BY <1>2, <3>1
      <3>3. r.state = "leased"
        BY <3>2 DEF RowInv, LeaseAgrees, Attempt
      <3> QED BY <1>2, <3>1, <3>2, <3>3
    <2>a. ls \in [Attempt -> Lease]
      <3> SUFFICES ASSUME NEW n \in Attempt
                   PROVE  [r.lease[n] EXCEPT !.state = "expired"] \in Lease /\ r.lease[n] \in Lease
        OBVIOUS
      <3> QED BY DEF Row, Lease, LeaseState
    <2>b. /\ ls[r.current].state = "expired" /\ ls[r.current].session = r.lease[r.current].session
          /\ \A m \in Attempt : /\ m # r.current => ls[m] = r.lease[m]
                                /\ ls[m].expires = r.lease[m].expires
                                /\ ls[m].cancel = r.lease[m].cancel
      BY <2>1 DEF Row, Lease
    <2>2. c \in Row /\ c.lease = ls
      <3> HIDE DEF ls
      <3> QED BY <2>a DEF Row
    <2>3. Ended(r, c, r.current)
      <3> HIDE DEF ls
      <3> QED BY <2>b, <2>2 DEF Ended
    <2>4. (\E n \in due : r.lease[n].cancel # "no") <=> r.cancel # "no"
      BY <2>1 DEF RowInv, CancelAgrees, Row, Terminal, TerminalState
    <2>5. \/ r.cancel # "no" /\ x = FailCancelled(c, InsertOutcomeOrIgnore(r, "failure"))
          \/ r.cancel = "no" /\ x = RetryOrTerminal(c, now, TRUE)
      BY <1>2, <2>4 DEF ExpireOverdue
    <2>6. x \in Row
      BY ExpireOverdueOK
    <2> HIDE DEF x, c, ls
    <2>7. /\ x.lease = c.lease /\ x.deadline = c.deadline /\ x.state \in {"retry_wait", "failed"}
          /\ r.cancel = "requested" => x.state = "failed"
      <3>1. CASE r.cancel # "no" /\ x = FailCancelled(c, InsertOutcomeOrIgnore(r, "failure"))
        BY <2>2, <3>1, FailCancelledShape
      <3>2. CASE r.cancel = "no" /\ x = RetryOrTerminal(c, now, TRUE)
        BY <2>2, <3>2, RetryOrTerminalShape
      <3> QED BY <2>5, <3>1, <3>2
    <2>8. Kept(r, x, now) /\ NothingAccepted(r, x)
      BY <2>1, <2>b, <2>2, <2>3, <2>6, <2>7, EndedKept
    <2> QED BY <2>1, <2>8 DEF x
  <1> QED BY <1>1, <1>2

\* _expire_leases as a whole.
LEMMA ExpireRowKept ==
  ASSUME NEW r \in Row, RowInv(r), NEW now \in Nat
  PROVE  /\ Kept(r, ExpireRow(r, now), now) /\ NothingAccepted(r, ExpireRow(r, now))
         /\ r.state = "absent" => ExpireRow(r, now) = r
  <1> DEFINE e == ExpireOverdue(r, now)
             x == ExpireRow(r, now)
  <1>1. e \in Row /\ RowInv(e) /\ Kept(r, e, now) /\ NothingAccepted(r, e)
    BY ExpireOverdueOK, ExpireOverdueKept
  <1>2. r.state = "absent" => e = r
    BY ExpireOverdueKept
  <1>3. x \in Row
    BY ExpireRowOK
  <1>4. \/ x = e
        \/ Waiting(e) /\ x = [e EXCEPT !.state = "failed", !.current = 0,
                                       !.outcome = InsertOutcome(e, "deadline_exceeded")]
    BY DEF ExpireRow
  <1>5. Waiting(e) => r.state # "absent"
    BY <1>2 DEF Waiting, WaitingState
  <1> HIDE DEF e, x
  <1>6. CASE x = e
    BY <1>1, <1>2, <1>6 DEF x
  <1>7. CASE Waiting(e) /\ x = [e EXCEPT !.state = "failed", !.current = 0,
                                         !.outcome = InsertOutcome(e, "deadline_exceeded")]
    <2>1. x.state = "failed" /\ x.deadline = e.deadline /\ x.lease = e.lease /\ x.result = e.result
      BY <1>1, <1>7 DEF Row
    <2>2. Kept(e, x, now) /\ NothingAccepted(e, x)
      BY <1>7, <2>1 DEF Kept, NothingAccepted, LeaseKept, Unfinished, Waiting, WaitingState,
         Terminal, TerminalState
    <2>3. Kept(r, x, now) /\ NothingAccepted(r, x)
      BY <1>1, <1>3, <2>2, KeptTransitive
    <2> QED BY <1>5, <1>7, <2>3 DEF x
  <1> QED BY <1>4, <1>6, <1>7

\* A heartbeat, whichever leases it reports.
LEMMA RenewRowKept ==
  ASSUME NEW r \in Row, RowInv(r), NEW H \in SUBSET Attempt, NEW now \in Nat
  PROVE  /\ Kept(r, RenewRow(r, H, now), now) /\ NothingAccepted(r, RenewRow(r, H, now))
         /\ RenewRow(r, H, now).state = r.state
  <1> DEFINE ls == [n \in Attempt |-> IF n \in H THEN RenewLease(r, n, now) ELSE r.lease[n]]
             x == RenewRow(r, H, now)
  <1>1. ASSUME NEW n \in Attempt
        PROVE  LeaseKept(r.lease[n], ls[n], now) /\ ls[n].state = r.lease[n].state
    <2> DEFINE e == Capped(r, Later(r.lease[n].expires, now + LeaseDuration))
    <2>1. r.lease[n] \in Lease
      BY DEF Row
    <2>2. \/ ls[n] = [r.lease[n] EXCEPT !.cancel = "delivered"]
          \/ ls[n] = [r.lease[n] EXCEPT !.expires = e] /\ Live(r, n, now)
          \/ ls[n] = r.lease[n]
      BY <2>1 DEF RenewLease, Extended, Delivered, Lease
    <2> HIDE DEF e, ls
    <2>3. CASE ls[n] = [r.lease[n] EXCEPT !.cancel = "delivered"]
      BY <2>1, <2>3 DEF Lease, LeaseKept, Closed
    <2>4. CASE ls[n] = [r.lease[n] EXCEPT !.expires = e] /\ Live(r, n, now)
      BY <2>1, <2>4 DEF Lease, LeaseKept, Closed, Live
    <2>5. CASE ls[n] = r.lease[n]
      BY <2>1, <2>5 DEF Lease, LeaseKept, Closed
    <2> QED BY <2>2, <2>3, <2>4, <2>5
  <1>2. x = [r EXCEPT !.lease = ls]
    BY DEF RenewRow
  <1> HIDE DEF x, ls
  <1>3. /\ x.state = r.state /\ x.deadline = r.deadline /\ x.cancel = r.cancel
        /\ x.result = r.result /\ x.lease = ls
    BY <1>2 DEF Row
  <1> QED BY <1>1, <1>3 DEF x, Kept, NothingAccepted, Terminal

\* The transaction of accept_failure.
LEMMA FailRowKept ==
  ASSUME NEW r \in Row, RowInv(r), NEW now \in Nat, NEW n \in Attempt, NEW retryable \in BOOLEAN,
         Submittable(r, n, now)
  PROVE  /\ Kept(r, FailRow(r, n, now, retryable), now)
         /\ NothingAccepted(r, FailRow(r, n, now, retryable))
  <1> DEFINE c == [r EXCEPT !.lease[n].state = "failed"]
             x == FailRow(r, n, now, retryable)
  <1>1. r.state = "leased" /\ r.current = n /\ now < r.lease[n].expires
    BY DEF Submittable, Live
  <1>2. Ended(r, c, r.current)
    BY <1>1, CloseLease
  <1>3. c \in Row /\ c.lease[n].state = "failed" /\ c.lease[n].session = r.lease[n].session
    <2>1. r.lease \in [Attempt -> Lease] /\ r.lease[n] \in Lease
      BY DEF Row
    <2>2. c.lease = [r.lease EXCEPT ![n] = [r.lease[n] EXCEPT !.state = "failed"]]
      BY DEF Row
    <2>3. [r.lease[n] EXCEPT !.state = "failed"].session = r.lease[n].session
      BY <2>1 DEF Lease
    <2>4. [r.lease[n] EXCEPT !.state = "failed"].state = "failed"
      BY <2>1 DEF Lease
    <2>5. c.lease[n] = [r.lease[n] EXCEPT !.state = "failed"]
      BY <2>1, <2>2
    <2> QED BY <1>2, <2>3, <2>4, <2>5 DEF Ended
  <1>4. r.lease[n].cancel # "no" <=> r.cancel # "no"
    BY <1>1 DEF RowInv, CancelAgrees, Row, Terminal, TerminalState
  <1>5. \/ r.cancel # "no" /\ x = FailCancelled(c, InsertOutcome(r, "failure"))
        \/ r.cancel = "no" /\ x = RetryOrTerminal(c, now, retryable)
    BY <1>4 DEF FailRow
  <1>6. x \in Row
    BY FailRowOK
  <1>7. r.lease[n].expires \in Nat
    BY DEF Row, Lease
  <1> HIDE DEF x, c
  <1>8. /\ x.lease = c.lease /\ x.deadline = c.deadline /\ x.state \in {"retry_wait", "failed"}
        /\ r.cancel = "requested" => x.state = "failed"
    <2>1. CASE r.cancel # "no" /\ x = FailCancelled(c, InsertOutcome(r, "failure"))
      BY <1>3, <2>1, FailCancelledShape
    <2>2. CASE r.cancel = "no" /\ x = RetryOrTerminal(c, now, retryable)
      BY <1>3, <2>2, RetryOrTerminalShape
    <2> QED BY <1>5, <2>1, <2>2
  <1>9. ~(r.lease[n].expires <= now)
    BY <1>1, <1>7
  <1> QED BY <1>1, <1>2, <1>3, <1>6, <1>8, <1>9, EndedKept DEF x

\* The transaction of accept_result: the current lease and only it becomes succeeded.
LEMMA SucceedRowKept ==
  ASSUME NEW r \in Row, RowInv(r), NEW now \in Nat, NEW n \in Attempt, NEW p \in Payload,
         Submittable(r, n, now)
  PROVE  LET x == SucceedRow(r, n, p)
         IN  /\ Kept(r, x, now)
             /\ x.state = "succeeded" /\ x.result = p
             /\ \A m \in Attempt : m # n => x.lease[m] = r.lease[m]
  <1> DEFINE l == [r.lease[n] EXCEPT !.state = "succeeded"]
             ls == [r.lease EXCEPT ![n] = l]
             x == SucceedRow(r, n, p)
  <1>1. r.state = "leased" /\ r.current = n /\ now < r.lease[n].expires /\ r.lease[n].state = "active"
    BY DEF Submittable, Live
  <1>2. r.lease \in [Attempt -> Lease] /\ r.lease[n].expires \in Nat
    BY DEF Row, Lease
  <1>3. l.state = "succeeded" /\ l.session = r.lease[n].session /\ l.cancel = r.lease[n].cancel
    BY <1>2 DEF Lease
  <1>4. x.state = "succeeded" /\ x.result = p /\ x.deadline = r.deadline /\ x.lease = ls
    BY DEF SucceedRow, Row
  <1> HIDE DEF x, l
  <1>5. \A m \in Attempt : x.lease[m] = IF m = n THEN l ELSE r.lease[m]
    BY <1>2, <1>4
  <1>6. \A m \in Attempt : LeaseKept(r.lease[m], x.lease[m], now)
    BY <1>1, <1>2, <1>3, <1>5 DEF LeaseKept, Closed
  <1>7. Kept(r, x, now)
    BY <1>1, <1>4, <1>6 DEF Kept, Terminal, TerminalState, Unfinished, Waiting, WaitingState
  <1> QED BY <1>4, <1>5, <1>7 DEF x

\* lease_next_compatible: the next attempt, and only it, gets a lease.
LEMMA LeaseRowShape ==
  ASSUME NEW r \in Row, RowInv(r), NEW s \in Session, NEW now \in Nat, Leasable(r, now)
  PROVE  LET x == LeaseRow(r, s, now)
             n == r.attempts + 1
         IN  /\ n \in Attempt /\ r.lease[n].state = "none" /\ Waiting(r)
             /\ x.state = "leased" /\ x.result = r.result /\ x.deadline = r.deadline
             /\ x.lease[n].state = "active" /\ x.lease[n].session = s
             /\ \A m \in Attempt : m # n => x.lease[m] = r.lease[m]
  <1> DEFINE n == r.attempts + 1
             x == LeaseRow(r, s, now)
             l == [state |-> "active", session |-> s,
                   expires |-> Capped(r, now + LeaseDuration), cancel |-> "no"]
  <1>1. n \in Attempt /\ Waiting(r) /\ r.lease[n].state = "none"
    BY LedgerAssumption DEF Leasable, RowInv, BudgetKept, Attempt, Row
  <1>2. x = [r EXCEPT !.state = "leased", !.attempts = n, !.current = n, !.lease[n] = l]
    BY DEF LeaseRow
  <1>l. l.state = "active" /\ l.session = s
    OBVIOUS
  <1> HIDE DEF n, l, x
  <1>3. /\ x.state = "leased" /\ x.deadline = r.deadline /\ x.result = r.result
        /\ x.lease = [r.lease EXCEPT ![n] = l]
    BY <1>2 DEF Row
  <1>4. \A m \in Attempt : x.lease[m] = IF m = n THEN l ELSE r.lease[m]
    BY <1>3 DEF Row
  <1> QED BY <1>1, <1>3, <1>4, <1>l DEF n, x

-----------------------------------------------------------------------------
(* The invariant of the coordinator.                                       *)

\* Every row of the assignments table is well typed and consistent.
TableOK(rows) == rows \in [Assignment -> Row] /\ \A a \in Assignment : RowInv(rows[a])

\* The call that is under way serves a request that is still pending, whose session is
\* known: what LeaseRow needs of the session it leases to.
RequestsOK ==
    /\ \A q \in Request : request[q].state # "absent" => request[q].session \in Session
    /\ call \in LeaseCall => request[call.request].state = "pending"

\* The inductive invariant.
IInv == TypeOK /\ TableOK(row) /\ RequestsOK

-----------------------------------------------------------------------------
(* The whole-table steps keep every row consistent.                        *)

\* Cancelling stale work keeps the table consistent.
LEMMA ReconciledOK ==
  ASSUME NEW rows, TableOK(rows), NEW v \in Int
  PROVE  TableOK(Reconciled(rows, v))
  BY CancelRowOK DEF TableOK, Reconciled

\* Expiring leases keeps the table consistent.
LEMMA ExpiredOK ==
  ASSUME NEW rows, TableOK(rows), clock \in Nat
  PROVE  TableOK(Expired(rows))
  BY ExpireRowOK DEF TableOK, Expired

\* What lease_next_compatible does before it looks for work keeps the table consistent.
LEMMA SweptOK == ASSUME IInv PROVE TableOK(Swept)
  <1>1. TableOK(Expired(row))
    BY ExpiredOK DEF IInv, TypeOK
  <1>2. active \in Int
    BY CoordinatorAssumption DEF IInv, TypeOK, Policy
  <1> QED BY <1>1, <1>2, ReconciledOK DEF Swept

\* Recomputing group states yields group rows.
LEMMA RecomputedOK ==
  ASSUME group \in [Group -> GroupRow], NEW G, NEW rows
  PROVE  Recomputed(G, rows) \in [Group -> GroupRow]
  BY DEF Recomputed, GroupRow

\* Replacing one row by a consistent one keeps the table consistent.
LEMMA UpdateOK ==
  ASSUME NEW rows, TableOK(rows), NEW a \in Assignment, NEW r \in Row, RowInv(r)
  PROVE  TableOK([rows EXCEPT ![a] = r])
  BY DEF TableOK

\* Adding the rows of a new group keeps the table consistent.
LEMMA NewRowsOK ==
  ASSUME NEW rows, TableOK(rows), NEW g \in Group, NEW s \in Source, clock \in Nat
  PROVE  TableOK(NewRows(rows, g, s))
  <1> DEFINE deadline == IF Timeout[s] = 0 THEN NoDeadline ELSE clock + Timeout[s]
             new == NewRow(clock, deadline, MaxAttempts[s])
  <1>1. deadline \in Nat \cup {NoDeadline} /\ MaxAttempts[s] \in 1 .. AttemptLimit
    BY CoordinatorAssumption
  <1>2. new \in Row /\ RowInv(new)
    BY <1>1, NewRowOK
  <1>3. NewRows(rows, g, s) = [a \in Assignment |->
            IF a[1] = g /\ a[2] \in 1 .. GroupSize[s] THEN new ELSE rows[a]]
    BY DEF NewRows
  <1> HIDE DEF new
  <1> QED BY <1>2, <1>3 DEF TableOK

\* A lease identifier consists of an assignment and an attempt.
LEMMA LeaseIdParts ==
  ASSUME NEW l \in LeaseId
  PROVE  l[1] \in Assignment /\ l[2] \in Attempt /\ l[1][1] \in Group
  BY DEF LeaseId, Assignment

-----------------------------------------------------------------------------
(* The initial state and each action.                                      *)

\* The initial state satisfies the inductive invariant.
LEMMA InitOK == Init => IInv
  <1> SUFFICES ASSUME Init PROVE IInv
    OBVIOUS
  <1>1. TableOK(row)
    BY AbsentRowOK DEF Init, TableOK
  <1>2. TypeOK
    BY <1>1, CoordinatorAssumption
    DEF Init, TypeOK, TableOK, Policy, GroupRow, AbsentGroup, RequestRow, AbsentRequest
  <1>3. RequestsOK
    BY DEF Init, RequestsOK, AbsentRequest, LeaseCall, NoCall
  <1> QED BY <1>1, <1>2, <1>3 DEF IInv

\* The steps that touch neither rows nor requests preserve the invariant.
LEMMA QuietOK ==
  ASSUME IInv, Tick \/ Crash \/ (\E s \in Session : RegisterWorker(s))
  PROVE  IInv'
  <1>1. CASE Tick
    BY <1>1 DEF IInv, TypeOK, TableOK, RequestsOK, Tick
  <1>2. CASE Crash
    BY <1>2 DEF IInv, TypeOK, TableOK, RequestsOK, Crash, LeaseCall, NoCall
  <1>3. CASE \E s \in Session : RegisterWorker(s)
    BY <1>3 DEF IInv, TypeOK, TableOK, RequestsOK, RegisterWorker
  <1> QED BY <1>1, <1>2, <1>3

\* An action that replaces the rows and recomputes groups, and leaves the requests and the
\* calls alone, need only be shown to keep the rows consistent.
LEMMA RowsOnlyOK ==
  ASSUME IInv, TableOK(row'), NEW G, group' = Recomputed(G, row'),
         active' \in Policy, spool' \in SUBSET (LeaseId \X Payload), up' \in BOOLEAN,
         call' = call \/ call' = NoCall,
         UNCHANGED <<clock, session, vfinish, request>>
  PROVE  IInv'
  <1>1. group' \in [Group -> GroupRow]
    BY RecomputedOK DEF IInv, TypeOK
  <1>2. TypeOK'
    BY <1>1 DEF IInv, TypeOK, TableOK
  <1>3. RequestsOK'
    BY DEF IInv, RequestsOK, LeaseCall, NoCall
  <1> QED BY <1>2, <1>3 DEF IInv

\* record_and_activate_policy preserves the invariant.
LEMMA ActivatePolicyOK == ASSUME IInv, ActivatePolicy PROVE IInv'
  <1>1. active' \in Policy /\ active' \in Int
    BY CoordinatorAssumption DEF IInv, TypeOK, ActivatePolicy, Policy
  <1>2. TableOK(row')
    BY <1>1, ReconciledOK DEF IInv, ActivatePolicy
  <1>3. group' = Recomputed(StaleGroups(active'), row')
    BY DEF ActivatePolicy
  <1> QED BY <1>1, <1>2, <1>3, RowsOnlyOK DEF ActivatePolicy, IInv, TypeOK

\* record_heartbeat preserves the invariant.
LEMMA RecordHeartbeatOK ==
  ASSUME IInv, NEW s \in Session, NEW H, RecordHeartbeat(s, H)
  PROVE  IInv'
  <1> DEFINE rows == Reconciled(row, active)
  <1>1. TableOK(rows)
    BY ReconciledOK, CoordinatorAssumption DEF IInv, TypeOK, Policy
  <1>2. row' = [a \in Assignment |-> RenewRow(rows[a], {n \in Attempt : <<a, n>> \in H}, clock)]
    BY DEF RecordHeartbeat
  <1> HIDE DEF rows
  <1>3. TableOK(row')
    BY <1>1, <1>2, RenewRowOK DEF TableOK, IInv, TypeOK
  <1> QED BY <1>3, RowsOnlyOK DEF RecordHeartbeat, IInv, TypeOK

\* renew_lease preserves the invariant.
LEMMA RenewOneOK == ASSUME IInv, NEW l \in LeaseId, RenewOne(l) PROVE IInv'
  <1> DEFINE rows == Reconciled(row, active)
  <1>1. TableOK(rows)
    BY ReconciledOK, CoordinatorAssumption DEF IInv, TypeOK, Policy
  <1>2. row' = [rows EXCEPT ![l[1]] = RenewSingle(rows[l[1]], l[2], clock)]
    BY DEF RenewOne
  <1>3. Renewable(rows[l[1]], l[2], clock)
    BY DEF RenewOne
  <1> HIDE DEF rows
  <1>4. RenewSingle(rows[l[1]], l[2], clock) \in Row /\ RowInv(RenewSingle(rows[l[1]], l[2], clock))
    BY <1>1, <1>3, RenewSingleOK, LeaseIdParts DEF TableOK, IInv, TypeOK
  <1>5. TableOK(row')
    BY <1>1, <1>2, <1>4, UpdateOK, LeaseIdParts
  <1> QED BY <1>5, RowsOnlyOK DEF RenewOne, IInv, TypeOK

\* The reaper and the recovery at start-up preserve the invariant.
LEMMA ExpireLeasesOK == ASSUME IInv, ExpireLeases \/ Recover PROVE IInv'
  <1>1. TableOK(Reconciled(row, active))
    BY ReconciledOK, CoordinatorAssumption DEF IInv, TypeOK, Policy
  <1>2. TableOK(Expired(Reconciled(row, active)))
    BY <1>1, ExpiredOK DEF IInv, TypeOK
  <1>3. row' = Expired(Reconciled(row, active)) /\ group' = Recomputed(Group, row')
    BY DEF ExpireLeases, Recover
  <1>4. spool' \in SUBSET (LeaseId \X Payload) /\ up' \in BOOLEAN
    BY DEF ExpireLeases, Recover, IInv, TypeOK
  <1> QED BY <1>2, <1>3, <1>4, RowsOnlyOK DEF ExpireLeases, Recover, IInv, TypeOK

\* Publishing a result file preserves the invariant.
LEMMA PublishResultOK ==
  ASSUME IInv, NEW l \in LeaseId, NEW p \in Payload, PublishResult(l, p)
  PROVE  IInv'
  <1>1. <<l, p>> \in LeaseId \X Payload
    OBVIOUS
  <1>2. call' \in ResultCall /\ call' \notin LeaseCall
    BY <1>1 DEF PublishResult, ResultCall, LeaseCall
  <1>3. spool' \in SUBSET (LeaseId \X Payload)
    BY <1>1 DEF PublishResult, IInv, TypeOK
  <1>4. TypeOK'
    BY <1>2, <1>3 DEF PublishResult, IInv, TypeOK
  <1>5. TableOK(row)' /\ RequestsOK'
    BY <1>2 DEF PublishResult, IInv, TableOK, RequestsOK
  <1> QED BY <1>4, <1>5 DEF IInv

\* The transaction of accept_result preserves the invariant.
LEMMA CommitResultOK == ASSUME IInv, CommitResult PROVE IInv'
  <1> DEFINE l == call.file[1]
             p == call.file[2]
             r == row[l[1]]
  <1>1. l \in LeaseId /\ p \in Payload
    BY DEF CommitResult, ResultCall
  <1>2. r \in Row /\ RowInv(r) /\ l[1] \in Assignment /\ l[2] \in Attempt /\ clock \in Nat
    BY <1>1, LeaseIdParts DEF IInv, TableOK, TypeOK
  <1>3. CASE Submittable(r, l[2], clock) /\ r.outcome = "none"
    <2>1. row' = [row EXCEPT ![l[1]] = SucceedRow(r, l[2], p)] /\ group' = Recomputed({l[1][1]}, row')
      BY <1>3 DEF CommitResult
    <2>2. SucceedRow(r, l[2], p) \in Row /\ RowInv(SucceedRow(r, l[2], p))
      BY <1>1, <1>2, <1>3, SucceedRowOK
    <2>3. TableOK(row')
      BY <1>2, <2>1, <2>2, UpdateOK DEF IInv
    <2> QED BY <2>1, <2>3, RowsOnlyOK DEF CommitResult, IInv, TypeOK
  <1>4. CASE ~(Submittable(r, l[2], clock) /\ r.outcome = "none")
    <2>1. UNCHANGED <<row, group>> /\ call' = NoCall
      BY <1>4 DEF CommitResult
    <2> QED BY <2>1 DEF CommitResult, IInv, TypeOK, TableOK, RequestsOK, NoCall, LeaseCall
  <1> QED BY <1>3, <1>4

\* accept_failure preserves the invariant.
LEMMA AcceptFailureOK ==
  ASSUME IInv, NEW l \in LeaseId, NEW retryable \in BOOLEAN, AcceptFailure(l, retryable)
  PROVE  IInv'
  <1> DEFINE r == row[l[1]]
             x == FailRow(r, l[2], clock, retryable)
  <1>1. r \in Row /\ RowInv(r) /\ l[1] \in Assignment /\ l[2] \in Attempt /\ clock \in Nat
    BY LeaseIdParts DEF IInv, TableOK, TypeOK
  <1>2. x \in Row /\ RowInv(x)
    BY <1>1, FailRowOK DEF AcceptFailure
  <1>3. row' = [row EXCEPT ![l[1]] = x]
    BY DEF AcceptFailure
  <1> HIDE DEF x
  <1>4. TableOK(row')
    BY <1>1, <1>2, <1>3, UpdateOK DEF IInv
  <1> QED BY <1>4, RowsOnlyOK DEF AcceptFailure, IInv, TypeOK

-----------------------------------------------------------------------------
(* Lease requests.                                                         *)

\* validate_lease_request preserves the invariant.
LEMMA ValidateLeaseRequestOK ==
  ASSUME IInv, NEW q \in Request, NEW s \in Session, NEW loaded \in LoadedSets,
         ValidateLeaseRequest(q, s, loaded)
  PROVE  IInv'
  <1>1. loaded \in SUBSET Policy
    BY CoordinatorAssumption DEF Policy
  <1>2. [state |-> "pending", session |-> s, loaded |-> loaded, lease |-> None] \in RequestRow
    BY <1>1 DEF RequestRow
  <1>3. TypeOK'
    BY <1>2 DEF IInv, TypeOK, ValidateLeaseRequest
  <1>4. TableOK(row)' /\ RequestsOK'
    BY DEF IInv, TypeOK, TableOK, RequestsOK, ValidateLeaseRequest, Idle, NoCall, LeaseCall
  <1> QED BY <1>3, <1>4 DEF IInv

\* mark_lease_request_no_work preserves the invariant.
LEMMA MarkNoWorkOK == ASSUME IInv, NEW q \in Request, MarkNoWork(q) PROVE IInv'
  <1>1. TypeOK'
    BY DEF IInv, TypeOK, MarkNoWork, RequestRow
  <1>2. TableOK(row)' /\ RequestsOK'
    BY DEF IInv, TypeOK, TableOK, RequestsOK, MarkNoWork, Idle, NoCall, LeaseCall, RequestRow
  <1> QED BY <1>1, <1>2 DEF IInv

\* Granting a lease keeps rows, groups and requests consistent.
LEMMA GrantOK ==
  ASSUME IInv, NEW q \in Request, request[q].state = "pending", Grant(q, Swept)
  PROVE  /\ TableOK(row')
         /\ group' \in [Group -> GroupRow]
         /\ request' \in [Request -> RequestRow]
         /\ \A p \in Request : request'[p].state # "absent" => request'[p].session \in Session
  <1> DEFINE rows == Swept
             s == request[q].session
  <1>1. TableOK(rows)
    BY SweptOK
  <1>2. s \in Session
    BY DEF IInv, RequestsOK
  <1>3. PICK a \in Assignment :
           /\ Chosen(a, rows, q)
           /\ row' = [rows EXCEPT ![a] = LeaseRow(rows[a], s, clock)]
           /\ request' = [request EXCEPT ![q] = [@ EXCEPT !.state = "leased",
                                                         !.lease = <<a, rows[a].attempts + 1>>]]
    BY DEF Grant
  <1>4. Leasable(rows[a], clock)
    BY <1>3 DEF Chosen, First, Candidates
  <1>5. clock \in Nat
    BY DEF IInv, TypeOK
  <1> HIDE DEF rows, s
  <1>6. rows[a] \in Row /\ RowInv(rows[a])
    BY <1>1 DEF TableOK
  <1>7. LeaseRow(rows[a], s, clock) \in Row /\ RowInv(LeaseRow(rows[a], s, clock))
    BY <1>2, <1>4, <1>5, <1>6, LeaseRowOK
  <1>8. TableOK(row')
    BY <1>1, <1>3, <1>7, UpdateOK
  <1>9. rows[a].attempts + 1 \in Attempt
    BY <1>4, <1>6, LedgerAssumption DEF Leasable, RowInv, BudgetKept, Attempt, Row
  <1>10. <<a, rows[a].attempts + 1>> \in LeaseId
    BY <1>9 DEF LeaseId
  <1>11. request' \in [Request -> RequestRow]
    BY <1>3, <1>10 DEF IInv, TypeOK, RequestRow
  <1>12. \A p \in Request : request'[p].state # "absent" => request'[p].session \in Session
    BY <1>3 DEF IInv, TypeOK, RequestsOK, RequestRow
  <1>13. group' \in [Group -> GroupRow]
    BY RecomputedOK DEF Grant, IInv, TypeOK
  <1> QED BY <1>8, <1>11, <1>12, <1>13

\* Finding nothing to lease keeps rows and groups consistent.
LEMMA GrantNothingOK ==
  ASSUME IInv, NEW q \in Request, GrantNothing(q, Swept)
  PROVE  /\ TableOK(row')
         /\ group' \in [Group -> GroupRow]
         /\ request' = request
  BY SweptOK, RecomputedOK DEF GrantNothing, IInv, TypeOK

\* The leasing transactions of a lease call preserve the invariant.
LEMMA LeaseOrCreateOK ==
  ASSUME IInv, NEW q \in Request, LeaseOrCreate(q) \/ LeaseGenerated(q)
  PROVE  IInv'
  <1>1. request[q].state = "pending"
    BY DEF LeaseOrCreate, LeaseGenerated, LeaseStep, LeaseCall, IInv, RequestsOK
  <1>2. UNCHANGED <<clock, up, active, session, vfinish, spool>>
    BY DEF LeaseOrCreate, LeaseGenerated
  <1>3. CASE Grant(q, Swept) /\ call' = NoCall
    <2>1. TableOK(row') /\ TypeOK'
      BY <1>1, <1>2, <1>3, GrantOK DEF IInv, TypeOK, TableOK
    <2>2. RequestsOK'
      BY <1>1, <1>3, GrantOK DEF RequestsOK, NoCall, LeaseCall
    <2> QED BY <2>1, <2>2 DEF IInv
  <1>4. CASE GrantNothing(q, Swept) /\ (call' = NoCall \/ call' = LeaseStep("generate", q))
    <2>1. call' \in LeaseCall \cup {NoCall} /\ (call' \in LeaseCall => call'.request = q)
      BY <1>4 DEF LeaseStep, LeaseCall, NoCall
    <2>2. TableOK(row') /\ TypeOK'
      BY <1>2, <1>4, <2>1, GrantNothingOK DEF IInv, TypeOK, TableOK
    <2>3. RequestsOK'
      BY <1>1, <1>4, <2>1, GrantNothingOK DEF IInv, RequestsOK
    <2> QED BY <2>2, <2>3 DEF IInv
  <1> QED BY <1>3, <1>4 DEF LeaseOrCreate, LeaseGenerated

\* create_next_group preserves the invariant.
LEMMA GenerateOK == ASSUME IInv, NEW q \in Request, Generate(q) PROVE IInv'
  <1>1. PICK s \in Source, g \in Group : CreateGroup(g, s)
    BY DEF Generate
  <1>2. TableOK(row')
    BY <1>1, NewRowsOK DEF CreateGroup, IInv, TypeOK
  <1>3. [state |-> "collecting", source |-> s, policy |-> active] \in GroupRow
    BY DEF GroupRow, IInv, TypeOK
  <1>4. group' \in [Group -> GroupRow]
    BY <1>1, <1>3 DEF CreateGroup, IInv, TypeOK
  <1>5. vfinish' \in [Source -> Nat]
    <2>1. Cost[s] \in Nat /\ vfinish \in [Source -> Nat]
      BY CoordinatorAssumption DEF IInv, TypeOK
    <2>2. vfinish' = [vfinish EXCEPT ![s] = vfinish[s] + Cost[s]]
      BY <1>1 DEF CreateGroup
    <2> QED BY <2>1, <2>2
  <1>6. call = LeaseStep("generate", q) /\ call' = LeaseStep("lease", q)
    BY DEF Generate
  <1>7. call' \in LeaseCall /\ call'.request = q /\ request[q].state = "pending"
    BY <1>6 DEF LeaseStep, LeaseCall, IInv, RequestsOK
  <1>8. TypeOK'
    BY <1>2, <1>4, <1>5, <1>7 DEF Generate, IInv, TypeOK, TableOK
  <1>9. RequestsOK'
    <2>1. request' = request
      BY DEF Generate
    <2> QED BY <1>7, <2>1 DEF IInv, RequestsOK
  <1> QED BY <1>2, <1>8, <1>9 DEF IInv

\* Not generating a group preserves the invariant.
LEMMA GenerateNothingOK == ASSUME IInv, NEW q \in Request, GenerateNothing(q) PROVE IInv'
  BY DEF GenerateNothing, IInv, TypeOK, TableOK, RequestsOK, NoCall, LeaseCall

-----------------------------------------------------------------------------

\* Every step preserves the invariant.
LEMMA StepOK == IInv /\ [Next]_vars => IInv'
  <1> SUFFICES ASSUME IInv, [Next]_vars PROVE IInv'
    OBVIOUS
  <1>1. CASE Tick \/ Crash \/ (\E s \in Session : RegisterWorker(s))
    BY <1>1, QuietOK
  <1>2. CASE ActivatePolicy
    BY <1>2, ActivatePolicyOK
  <1>3. ASSUME NEW q \in Request, NEW s \in Session, NEW loaded \in LoadedSets,
               ValidateLeaseRequest(q, s, loaded)
        PROVE  IInv'
    BY <1>3, ValidateLeaseRequestOK
  <1>4. ASSUME NEW q \in Request, MarkNoWork(q) PROVE IInv'
    BY <1>4, MarkNoWorkOK
  <1>5. ASSUME NEW q \in Request, LeaseOrCreate(q) \/ LeaseGenerated(q) PROVE IInv'
    BY <1>5, LeaseOrCreateOK
  <1>6. ASSUME NEW q \in Request, Generate(q) PROVE IInv'
    BY <1>6, GenerateOK
  <1>7. ASSUME NEW q \in Request, GenerateNothing(q) PROVE IInv'
    BY <1>7, GenerateNothingOK
  <1>8. ASSUME NEW s \in Session, NEW H, RecordHeartbeat(s, H) PROVE IInv'
    BY <1>8, RecordHeartbeatOK
  <1>9. ASSUME NEW l \in LeaseId, RenewOne(l) PROVE IInv'
    BY <1>9, RenewOneOK
  <1>10. CASE ExpireLeases \/ Recover
    BY <1>10, ExpireLeasesOK
  <1>11. ASSUME NEW l \in LeaseId, NEW p \in Payload, PublishResult(l, p) PROVE IInv'
    BY <1>11, PublishResultOK
  <1>12. CASE CommitResult
    BY <1>12, CommitResultOK
  <1>13. ASSUME NEW l \in LeaseId, NEW retryable \in BOOLEAN, AcceptFailure(l, retryable) PROVE IInv'
    BY <1>13, AcceptFailureOK
  <1>14. CASE UNCHANGED vars
    BY <1>14 DEF vars, IInv, TypeOK, TableOK, RequestsOK
  <1> QED
    BY <1>1, <1>2, <1>3, <1>4, <1>5, <1>6, <1>7, <1>8, <1>9, <1>10, <1>11, <1>12, <1>13, <1>14 DEF Next

\* The inductive invariant holds throughout every behaviour.
LEMMA Inductive == Spec => []IInv
  BY InitOK, StepOK, PTL DEF Spec

\* Every state of the coordinator is well typed.
THEOREM TypeCorrect == Spec => []TypeOK
  <1>1. IInv => TypeOK
    BY DEF IInv
  <1> QED BY <1>1, Inductive, PTL

\* Through all leases, retries, renewals, cancellations, expiries and crashes an
\* assignment has at most one active lease, the one its row names, and one exactly
\* while it is leased.
THEOREM LeaseExclusion == Spec => []OneActiveLease
  <1>1. IInv => OneActiveLease
    BY DEF IInv, TableOK, RowInv, OneActiveLease
  <1> QED BY <1>1, Inductive, PTL

\* An assignment has an outcome exactly when it is terminal, and no transaction is lost
\* to a second INSERT of one.
THEOREM OutcomeUnique == Spec => []OneOutcome
  <1>1. IInv => OneOutcome
    BY DEF IInv, TableOK, RowInv, OneOutcome
  <1> QED BY <1>1, Inductive, PTL

\* No assignment is attempted more often than max_attempts allows, although leasing does
\* not look at max_attempts.
THEOREM AttemptsBounded == Spec => []RetryBudget
  <1>1. IInv => RetryBudget
    BY DEF IInv, TableOK, RowInv, RetryBudget
  <1> QED BY <1>1, Inductive, PTL

\* A cancelled assignment is terminal or waits only for the end of a cancelled lease.
THEOREM CancellationConverges == Spec => []CancelledWorkEnds
  <1>1. IInv => CancelledWorkEnds
    BY DEF IInv, TableOK, RowInv, CancelledWorkEnds
  <1> QED BY <1>1, Inductive, PTL

\* No lease outlives its assignment's deadline, however often it is renewed.
THEOREM DeadlinesHold == Spec => []LeasesEndByDeadline
  <1>1. IInv => LeasesEndByDeadline
    BY DEF IInv, TableOK, RowInv, LeasesEndByDeadline
  <1> QED BY <1>1, Inductive, PTL
=============================================================================
