------------------------------ MODULE Episodes ------------------------------
(***************************************************************************)
(* From a lease request to an episode and its result: the long polls of    *)
(* the lease endpoint, the central episode runner and its expiry watchdog, *)
(* and one slot of a worker with its heartbeats and its own watchdog.      *)
(*                                                                         *)
(* The three keep their own copies of a lease's expiry: the row, which     *)
(* only the database thread changes, the runner's expires_at, which the    *)
(* heartbeat handler updates after the transaction, and the worker's,      *)
(* which it learns from the answer and compares with an estimate of the    *)
(* coordinator's clock.  One assignment is leased again and again; leases  *)
(* are its attempts.  A watchdog runs at least once per unit of time.      *)
(***************************************************************************)
EXTENDS Integers, FiniteSets, FiniteSetsExt

CONSTANTS
    Attempts,      \* max_attempts: leases are 1 .. Attempts
    Duration,      \* lease_duration_seconds
    Deadline,      \* the assignment's deadline, and the last moment modelled
    Handlers,      \* bound: numbers of the lease polls running at once
    MaxRequests,   \* bound: lease requests of the worker
    MaxFaults,     \* bound: polls and heartbeats lost, and changes of the trainer gate
    EpisodeSlots   \* central_episode_slots

\* Assumed of the constants.
EpisodesAssumption ==
    /\ Attempts \in Nat /\ MaxRequests \in Nat /\ MaxFaults \in Nat
    /\ Duration \in Nat \ {0} /\ Deadline \in Nat
    /\ Handlers \subseteq Nat \ {0}
    /\ EpisodeSlots \in Nat \ {0}

Lease == 1 .. Attempts
Time == 0 .. Deadline
NoExpiry == -1    \* the lease is not in expires_at
NoHandler == 0    \* the slot has no lease request under way

VARIABLES
    now,
    gate,      \* lease_gate_open
    flips,
    row,       \* lease_attempts: state and expires_at
    request,   \* lease_requests: state and lease of each request id
    handler,   \* running calls of the lease endpoint
    episode,   \* CentralEpisodeRunner.tasks
    expiry,    \* CentralEpisodeRunner.expires_at
    registered,\* leases in InferenceBroker._leases
    slot,      \* WorkerDaemon._slot_loop
    lead,      \* the worker's estimate of the coordinator's clock, minus that clock
    beat,      \* the heartbeat under way
    lost

api == <<gate, flips, request, handler>>
runner == <<episode, expiry, registered>>
node == <<slot, lead, beat>>
evars == <<now, api, row, runner, node, lost>>

FreeHandler == [at |-> "free", id |-> 0, answer |-> "retry", lease |-> 0, expires |-> 0]
NoBeat == [at |-> "none", started |-> 0, lease |-> 0, answer |-> "stop", expires |-> 0, stamp |-> 0]

EpisodesTypeOK ==
    /\ now \in Time
    /\ gate \in BOOLEAN /\ flips \in 0 .. MaxFaults
    /\ row \in [Lease -> [state: {"none", "active", "expired", "completed", "failed"}, expires: Time]]
    /\ request \in [1 .. MaxRequests -> [state: {"unknown", "pending", "leased", "no_work"}, lease: 0 .. Attempts]]
    /\ handler \in [Handlers -> [at: {"free", "entry", "loop", "offered", "closing", "answered"},
                                 id: 0 .. MaxRequests, lease: 0 .. Attempts, expires: Time,
                                 answer: {"retry", "no_work", "lease", "conflict"}]]
    /\ episode \in [Lease -> {"none", "new", "queued", "running", "storing", "failing", "cancelled"}]
    /\ expiry \in [Lease -> Time \cup {NoExpiry}]
    /\ registered \subseteq Lease
    /\ slot \in [at: {"ask", "repeat", "await", "serve", "dead"}, id: 0 .. MaxRequests,
                 handler: Handlers \cup {NoHandler}, lease: 0 .. Attempts, expires: Time]
    /\ lead \in Time
    /\ beat \in [at: {"none", "sent", "recorded", "answered"}, started: Time, lease: 0 .. Attempts,
                 answer: {"renewed", "stop"}, expires: Time, stamp: Time]
    /\ lost \in 0 .. MaxFaults

EpisodesInit ==
    /\ now = 0
    /\ gate = TRUE /\ flips = 0
    /\ row = [l \in Lease |-> [state |-> "none", expires |-> 0]]
    /\ request = [i \in 1 .. MaxRequests |-> [state |-> "unknown", lease |-> 0]]
    /\ handler = [h \in Handlers |-> FreeHandler]
    /\ episode = [l \in Lease |-> "none"]
    /\ expiry = [l \in Lease |-> NoExpiry]
    /\ registered = {}
    /\ slot = [at |-> "ask", id |-> 0, handler |-> NoHandler, lease |-> 0, expires |-> 0]
    /\ lead = 0
    /\ beat = NoBeat
    /\ lost = 0

-----------------------------------------------------------------------------
(* CentralEpisodeRunner.                                                   *)

\* start: nothing if the lease has a task.
StartEpisode(l, expires) ==
    IF episode[l] # "none" THEN UNCHANGED runner
    ELSE /\ registered' = registered \cup {l}
         /\ expiry' = [expiry EXCEPT ![l] = expires]
         /\ episode' = [episode EXCEPT ![l] = "new"]

\* The task's first step, which waits for the gate of central_episode_slots.
Enter(l) ==
    /\ episode[l] = "new"
    /\ episode' = [episode EXCEPT ![l] = "queued"]
    /\ UNCHANGED <<now, api, row, expiry, registered, node, lost>>

Run(l) ==
    /\ episode[l] = "queued"
    /\ Cardinality({m \in Lease : episode[m] = "running"}) < EpisodeSlots
    /\ episode' = [episode EXCEPT ![l] = "running"]
    /\ UNCHANGED <<now, api, row, expiry, registered, node, lost>>

\* The environment ends: with a result, which needs the worker's inference,
\* or with an exception.
Finish(l) ==
    /\ episode[l] = "running"
    /\ \/ /\ slot.at = "serve" /\ slot.lease = l
          /\ episode' = [episode EXCEPT ![l] = "storing"]
       \/ episode' = [episode EXCEPT ![l] = "failing"]
    /\ UNCHANGED <<now, api, row, expiry, registered, node, lost>>

Live(l) == row[l].state = "active" /\ now < row[l].expires

\* Mutant: the broker's entry outlives the task.
EndedOpen(l) ==
    /\ episode' = [episode EXCEPT ![l] = "none"]
    /\ expiry' = [expiry EXCEPT ![l] = NoExpiry]
    /\ UNCHANGED registered

\* finally: the copy of the expiry and the broker's entry go.
Ended(l) ==
    /\ episode' = [episode EXCEPT ![l] = "none"]
    /\ expiry' = [expiry EXCEPT ![l] = NoExpiry]
    /\ registered' = registered \ {l}

\* accept_result on the database thread; if it raises, accept_failure is next.
Store(l) ==
    /\ episode[l] = "storing"
    /\ IF Live(l)
       THEN row' = [row EXCEPT ![l].state = "completed"] /\ Ended(l)
       ELSE /\ episode' = [episode EXCEPT ![l] = "failing"]
            /\ UNCHANGED <<row, expiry, registered>>
    /\ UNCHANGED <<now, api, node, lost>>

Fail(l) ==
    /\ episode[l] = "failing"
    /\ row' = IF Live(l) THEN [row EXCEPT ![l].state = "failed"] ELSE row
    /\ Ended(l)
    /\ UNCHANGED <<now, api, node, lost>>

\* cancel: the task is told and the broker's entry closed.  A call that is on
\* the database thread completes all the same.
CancelEpisode(l) ==
    /\ row' = CASE episode[l] = "storing" /\ Live(l) -> [row EXCEPT ![l].state = "completed"]
                [] episode[l] = "failing" /\ Live(l) -> [row EXCEPT ![l].state = "failed"]
                [] OTHER -> row
    /\ registered' = registered \ {l}
    /\ CASE episode[l] = "none" -> UNCHANGED <<episode, expiry>>
         [] episode[l] = "new" -> episode' = [episode EXCEPT ![l] = "none"] /\ UNCHANGED expiry
         [] OTHER -> episode' = [episode EXCEPT ![l] = "cancelled"] /\ UNCHANGED expiry

Unwind(l) ==
    /\ episode[l] = "cancelled"
    /\ Ended(l)
    /\ UNCHANGED <<now, api, row, node, lost>>

Overdue(l) == expiry[l] # NoExpiry /\ expiry[l] <= now

\* _watch_expiry.
Watch(l) ==
    /\ Overdue(l)
    /\ episode[l] \notin {"none", "cancelled"}
    /\ CancelEpisode(l)
    /\ UNCHANGED <<now, api, node, lost>>

-----------------------------------------------------------------------------
(* The lease endpoint.                                                     *)

Answer(h, what) ==
    handler' = [handler EXCEPT ![h] = [FreeHandler EXCEPT !.at = "answered", !.answer = what]]
AnswerLease(h, l) ==
    handler' = [handler EXCEPT ![h] = [FreeHandler EXCEPT !.at = "answered", !.answer = "lease",
                                                   !.lease = l, !.expires = row[l].expires]]

\* The gate, then validate_lease_request: a request already leased is
\* answered with its lease, whatever became of it.
Validate(h) ==
    LET id == handler[h].id
    IN /\ handler[h].at = "entry"
       /\ IF ~gate
          THEN Answer(h, "retry") /\ UNCHANGED <<request, runner>>
          ELSE CASE request[id].state = "leased" ->
                       /\ StartEpisode(request[id].lease, row[request[id].lease].expires)
                       /\ AnswerLease(h, request[id].lease)
                       /\ UNCHANGED request
                 [] request[id].state = "no_work" ->
                       Answer(h, "no_work") /\ UNCHANGED <<request, runner>>
                 [] OTHER ->
                       /\ request' = [request EXCEPT ![id].state = "pending"]
                       /\ handler' = [handler EXCEPT ![h].at = "loop"]
                       /\ UNCHANGED runner
       /\ UNCHANGED <<now, gate, flips, row, node, lost>>

Expired(l) == row[l].state = "active" /\ row[l].expires <= now
Swept == [l \in Lease |-> IF Expired(l) THEN [row[l] EXCEPT !.state = "expired"] ELSE row[l]]
Available ==
    /\ \A l \in Lease : Swept[l].state \notin {"active", "completed"}
    /\ now < Deadline
NextLease == {l \in Lease : row[l].state = "none" /\ \A m \in 1 .. l - 1 : row[m].state # "none"}

\* try_lease, one call on the database thread: the lease the request already
\* has, a new one, or none.
TryLease(h) ==
    LET id == handler[h].id
    IN /\ handler[h].at = "loop"
       /\ gate
       /\ IF request[id].state = "leased"
          THEN /\ handler' = [handler EXCEPT ![h] = [@ EXCEPT !.at = "offered", !.lease = request[id].lease,
                                                        !.expires = row[request[id].lease].expires]]
               /\ UNCHANGED <<row, request>>
          ELSE IF request[id].state = "pending" /\ Available /\ NextLease # {}
          THEN \E l \in NextLease :
                 LET expires == Min({now + Duration, Deadline})
                 IN /\ row' = [Swept EXCEPT ![l] = [state |-> "active", expires |-> expires]]
                    /\ request' = [request EXCEPT ![id] = [state |-> "leased", lease |-> l]]
                    /\ handler' = [handler EXCEPT ![h] = [@ EXCEPT !.at = "offered", !.lease = l,
                                                                  !.expires = expires]]
          ELSE /\ row' = IF request[id].state = "pending" THEN Swept ELSE row
               /\ UNCHANGED <<request, handler>>
       /\ UNCHANGED <<now, gate, flips, runner, node, lost>>

\* The poll ends without an offer: the gate has closed, the durable call takes
\* too long (it goes on without its handler), or the time is up.
StopPolling(h) ==
    /\ handler[h].at \in {"loop", "offered"}
    /\ \/ ~gate /\ handler[h].at = "loop" /\ Answer(h, "retry")
       \/ gate /\ Answer(h, "retry")
       \/ gate /\ handler[h].at = "loop" /\ handler' = [handler EXCEPT ![h].at = "closing"]
    /\ UNCHANGED <<now, gate, flips, row, request, runner, node, lost>>

\* _complete_no_work: a lease found here is answered without start_episode.
CompleteNoWork(h) ==
    LET id == handler[h].id
    IN /\ handler[h].at = "closing"
       /\ IF request[id].state = "leased"
          THEN AnswerLease(h, request[id].lease) /\ UNCHANGED request
          ELSE /\ request' = [request EXCEPT ![id].state = "no_work"]
               /\ Answer(h, "no_work")
       /\ UNCHANGED <<now, gate, flips, row, runner, node, lost>>

\* associate_offered_lease: the offer must still be what the database holds.
Associates(h) == handler[h].expires = row[handler[h].lease].expires

\* The offer: with the gate closed release_unoffered_lease raises, since the
\* request refers to the lease; else associate_offered_lease compares the
\* offer with the row, and the episode starts.
Offer(h) ==
    LET l == handler[h].lease
    IN /\ handler[h].at = "offered"
       /\ IF ~gate THEN Answer(h, "retry") /\ UNCHANGED runner
          ELSE IF ~Associates(h)
          THEN Answer(h, "conflict") /\ UNCHANGED runner
          ELSE StartEpisode(l, row[l].expires) /\ AnswerLease(h, l)
       /\ UNCHANGED <<now, gate, flips, row, request, node, lost>>

FlipGate ==
    /\ flips + lost < MaxFaults
    /\ flips' = flips + 1 /\ gate' = ~gate
    /\ UNCHANGED <<now, row, request, handler, runner, node, lost>>

\* reap_expired_leases.
Reap ==
    /\ \E l \in Lease : Expired(l)
    /\ row' = Swept
    /\ UNCHANGED <<now, api, runner, node, lost>>

-----------------------------------------------------------------------------
(* The worker's slot.                                                      *)

\* A new request id, or the same request again.
Ask(h) ==
    /\ handler[h].at = "free"
    /\ \A g \in Handlers : handler[g].at = "free" => h <= g
    /\ \/ slot.at = "repeat"
       \/ slot.at = "ask" /\ slot.id < MaxRequests
    /\ LET id == IF slot.at = "ask" THEN slot.id + 1 ELSE slot.id
       IN /\ slot' = [slot EXCEPT !.at = "await", !.id = id, !.handler = h]
          /\ handler' = [handler EXCEPT ![h] = [FreeHandler EXCEPT !.at = "entry", !.id = id]]
    /\ UNCHANGED <<now, gate, flips, row, request, runner, lead, beat, lost>>

LosePoll ==
    /\ slot.at = "await" /\ flips + lost < MaxFaults
    /\ lost' = lost + 1
    /\ slot' = [slot EXCEPT !.at = "repeat", !.handler = NoHandler]
    /\ UNCHANGED <<now, api, row, runner, lead, beat>>

DiscardPoll(h) ==
    /\ handler[h].at = "answered" /\ slot.handler # h
    /\ handler' = [handler EXCEPT ![h] = FreeHandler]
    /\ UNCHANGED <<now, gate, flips, row, request, runner, node, lost>>

ServerNow == now + lead

\* _slot_loop: a lease that has expired by the worker's estimate is dropped.
ReceiveAnswer(h) ==
    LET a == handler[h]
    IN /\ slot.at = "await" /\ slot.handler = h /\ a.at = "answered"
       /\ handler' = [handler EXCEPT ![h] = FreeHandler]
       /\ slot' = CASE a.answer = "retry" -> [slot EXCEPT !.at = "repeat", !.handler = NoHandler]
                    [] a.answer = "conflict" -> [slot EXCEPT !.at = "dead", !.handler = NoHandler]
                    [] a.answer = "lease" /\ a.expires > ServerNow ->
                          [slot EXCEPT !.at = "serve", !.handler = NoHandler, !.lease = a.lease, !.expires = a.expires]
                    [] OTHER -> [slot EXCEPT !.at = "ask", !.handler = NoHandler]
       /\ UNCHANGED <<now, gate, flips, row, request, runner, lead, beat, lost>>

LeaveSlot == slot' = [slot EXCEPT !.at = "ask", !.lease = 0, !.expires = 0]

\* An exchange of a lease the broker does not know is answered with stop.
ExchangeStops ==
    /\ slot.at = "serve" /\ slot.lease \notin registered
    /\ LeaveSlot
    /\ UNCHANGED <<now, api, row, runner, lead, beat, lost>>

\* _lease_watchdog_loop.
WorkerWatch ==
    /\ slot.at = "serve" /\ slot.expires <= ServerNow
    /\ LeaveSlot
    /\ UNCHANGED <<now, api, row, runner, lead, beat, lost>>

-----------------------------------------------------------------------------
(* Heartbeats.                                                             *)

SendBeat ==
    /\ beat.at = "none" /\ slot.at = "serve"
    /\ beat' = [NoBeat EXCEPT !.at = "sent", !.started = now, !.lease = slot.lease]
    /\ UNCHANGED <<now, api, row, runner, slot, lead, lost>>

\* record_heartbeat, on the database thread.
RecordBeat ==
    LET l == beat.lease expires == Min({now + Duration, Deadline})
    IN /\ beat.at = "sent"
       /\ IF Live(l)
          THEN /\ row' = [row EXCEPT ![l].expires = expires]
               /\ beat' = [beat EXCEPT !.at = "recorded", !.answer = "renewed", !.expires = expires]
          ELSE /\ beat' = [beat EXCEPT !.at = "recorded", !.answer = "stop"]
               /\ UNCHANGED row
       /\ UNCHANGED <<now, api, runner, slot, lead, lost>>

\* The handler goes on: renew_episode or stop_episode, and the answer with
\* the coordinator's time.
AnswerBeat ==
    LET l == beat.lease
    IN /\ beat.at = "recorded"
       /\ beat' = [beat EXCEPT !.at = "answered", !.stamp = now]
       /\ IF beat.answer = "renewed"
          THEN /\ expiry' = IF episode[l] = "none" THEN expiry
                            ELSE [expiry EXCEPT ![l] = beat.expires]
               /\ UNCHANGED <<row, episode, registered>>
          ELSE CancelEpisode(l)
       /\ UNCHANGED <<now, api, slot, lead, lost>>

\* _update_server_time: server_time minus the time the request was started.
Measured(b) == b.stamp - b.started

ReceiveBeat ==
    /\ beat.at = "answered"
    /\ beat' = NoBeat
    /\ lead' = Measured(beat)
    /\ IF slot.at # "serve" \/ slot.lease # beat.lease THEN UNCHANGED slot
       ELSE IF beat.answer = "renewed" THEN slot' = [slot EXCEPT !.expires = beat.expires]
       ELSE LeaveSlot
    /\ UNCHANGED <<now, api, row, runner, lost>>

LoseBeat ==
    /\ beat.at \in {"sent", "answered"} /\ flips + lost < MaxFaults
    /\ lost' = lost + 1
    /\ beat' = NoBeat
    /\ UNCHANGED <<now, api, row, runner, slot, lead>>

-----------------------------------------------------------------------------
\* Time passes once both watchdogs have had their turn.
Tick ==
    /\ now < Deadline
    /\ \A l \in Lease : Overdue(l) => episode[l] \in {"none", "cancelled"}
    /\ ~(slot.at = "serve" /\ slot.expires <= ServerNow)
    /\ now' = now + 1
    /\ UNCHANGED <<api, row, runner, node, lost>>

EpisodeStep(l) ==
    Enter(l) \/ Run(l) \/ Finish(l) \/ Store(l) \/ Fail(l) \/ Unwind(l) \/ Watch(l)
HandlerStep(h) ==
    Validate(h) \/ TryLease(h) \/ StopPolling(h) \/ CompleteNoWork(h) \/ Offer(h)
NodeStep ==
    \/ \E h \in Handlers : Ask(h) \/ ReceiveAnswer(h) \/ DiscardPoll(h)
    \/ LosePoll \/ ExchangeStops \/ WorkerWatch
BeatStep == SendBeat \/ RecordBeat \/ AnswerBeat \/ ReceiveBeat \/ LoseBeat

EpisodesNext ==
    \/ Tick \/ FlipGate \/ Reap
    \/ \E l \in Lease : EpisodeStep(l)
    \/ \E h \in Handlers : HandlerStep(h)
    \/ NodeStep \/ BeatStep

\* Clocks advance, the watchdogs and tasks of the runner run, environments end
\* when they are cancelled; nothing is assumed of the worker.
EpisodesFairness ==
    /\ WF_evars(Tick)
    /\ WF_evars(WorkerWatch)
    /\ \A l \in Lease : WF_evars(Enter(l)) /\ WF_evars(Watch(l)) /\ WF_evars(Unwind(l))
                     /\ WF_evars(Store(l)) /\ WF_evars(Fail(l))

EpisodesSpec == EpisodesInit /\ [][EpisodesNext]_evars
FairEpisodesSpec == EpisodesSpec /\ EpisodesFairness

-----------------------------------------------------------------------------
\* An episode never believes it has longer than its lease, and the broker knows
\* the lease exactly while its task may still ask for inference: start, cancel
\* and the end of a task keep tasks, expiry times and broker in step, so that
\* register is never called for a lease it has.  An episode of an expired
\* attempt therefore ends by the watchdog's next turn, before it can overlap
\* the next attempt for longer.
EpisodesTracked ==
    \A l \in Lease :
        /\ episode[l] # "none" => expiry[l] # NoExpiry /\ expiry[l] <= row[l].expires
        /\ l \in registered <=> episode[l] \notin {"none", "cancelled"}

\* The worker's estimate never lags behind the coordinator's clock, so it stops
\* serving no later than the lease ends, and no answer to a lease request makes
\* the worker give up.
WorkerStopsInTime ==
    /\ slot.at = "serve" => ServerNow >= now /\ slot.expires <= row[slot.lease].expires
    /\ slot.at # "dead"

\* Tasks, expiry times, broker and worker agree about a lease.
EpisodesSafe == EpisodesTypeOK /\ EpisodesTracked /\ WorkerStopsInTime

\* No episode is left behind: whatever happens to its worker, its lease or the
\* answers, its task ends.
EpisodesEnd ==
    \A l \in Lease : episode[l] # "none" ~> episode[l] = "none"
=============================================================================
