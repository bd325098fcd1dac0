-------------------------- MODULE InferenceBroker --------------------------
(***************************************************************************)
(* One lease's inference exchange: the episode on the coordinator sends    *)
(* requests, the worker that holds the lease fetches them with long polls  *)
(* and attaches its answer to the next poll.                               *)
(*                                                                         *)
(* A poll may be lost on the way there or back; the worker repeats it with *)
(* the same reply, and the handler of the abandoned poll stays on the      *)
(* coordinator, still waiting for a request.  The lease may be closed and, *)
(* when a lost lease answer is repeated, registered again: then a fresh    *)
(* exchange object replaces the old one, whose handlers still hold it.     *)
(*                                                                         *)
(* Nothing limits how many requests an episode has waiting at once, and a  *)
(* handler that waits assigns active_request whatever it holds by then: an *)
(* abandoned poll and a second request together lose the first one.        *)
(***************************************************************************)
EXTENDS Integers, Sequences, FiniteSets, Functions

CONSTANTS
    Requests,         \* requests that episodes of the lease may send
    Answers,          \* what local inference may return, 502 included
    Calls,            \* numbers of the polls that may be in flight at once
    MaxEpochs,        \* bound: times the lease is registered
    MaxGiveUps,        \* bound: polls the worker gives up on
    None

\* Assumed of the constants.
BrokerAssumption ==
    /\ Calls \subseteq Nat
    /\ MaxEpochs \in Nat /\ MaxGiveUps \in Nat
    /\ None \notin Requests \cup Answers \cup Calls
    /\ {"wait", "stop", "malformed"} \cap Requests = {}

Reply == (Requests \X Answers) \cup {<<>>}     \* <<>>: the poll carries no reply
Response == Requests \cup {"wait", "stop", "malformed"}

VARIABLES
    open,       \* the lease is in broker._leases
    epoch,      \* number of the current or last exchange object
    queue,      \* exchange.requests
    replies,    \* exchange.replies
    waiter,     \* exchange.waiters: the future of each request
    received,   \* what the episode got for each request
    active,     \* exchange.active_request
    orphans,    \* requests left in the queues of closed exchange objects
    crowded,    \* history: a request of this exchange was sent while another waited
    call,       \* polls in flight and their handlers
    worker,     \* WorkerDaemon._serve_lease
    inferred,   \* how often each request was run by local inference
    givenUp

broker == <<open, epoch, queue, replies, waiter, received, active, orphans, crowded>>
vars == <<broker, call, worker, inferred, givenUp>>

Free == [at |-> "free", epoch |-> 0, reply |-> <<>>, response |-> "wait"]

TypeOK ==
    /\ open \in BOOLEAN
    /\ epoch \in 0 .. MaxEpochs
    /\ queue \in Seq(Requests)
    /\ replies \in [Requests -> Answers \cup {None}]
    /\ waiter \in [Requests -> {"unused", "waiting", "answered", "failed"}]
    /\ received \in [Requests -> Answers \cup {None}]
    /\ active \in Requests \cup {None}
    /\ orphans \subseteq Requests
    /\ crowded \in BOOLEAN
    /\ call \in [Calls -> [at: {"free", "sent", "getting", "responded"},
                           epoch: 0 .. MaxEpochs, reply: Reply, response: Response]]
    /\ worker \in [at: {"send", "await", "local", "ended", "rejected"},
                   reply: Reply, request: Requests \cup {None}, call: Calls \cup {None}]
    /\ inferred \in [Requests -> Nat]
    /\ givenUp \in 0 .. MaxGiveUps

Init ==
    /\ open = FALSE /\ epoch = 0
    /\ queue = <<>>
    /\ replies = [r \in Requests |-> None]
    /\ waiter = [r \in Requests |-> "unused"]
    /\ received = [r \in Requests |-> None]
    /\ active = None
    /\ orphans = {} /\ crowded = FALSE
    /\ call = [c \in Calls |-> Free]
    /\ worker = [at |-> "send", reply |-> <<>>, request |-> None, call |-> None]
    /\ inferred = [r \in Requests |-> 0]
    /\ givenUp = 0

-----------------------------------------------------------------------------
(* The episode's side of the broker.                                       *)

\* register: a fresh _LeaseExchange.
Register ==
    /\ ~open
    /\ epoch < MaxEpochs
    /\ open' = TRUE /\ epoch' = epoch + 1
    /\ queue' = <<>>
    /\ replies' = [r \in Requests |-> None]
    /\ active' = None /\ crowded' = FALSE
    /\ UNCHANGED <<waiter, received, orphans, call, worker, inferred, givenUp>>

Outstanding == {r \in Requests : waiter[r] = "waiting"}

\* request: a new id, its future and its place in the queue.
Request(r) ==
    /\ open
    /\ waiter[r] = "unused"
    /\ waiter' = [waiter EXCEPT ![r] = "waiting"]
    /\ queue' = Append(queue, r)
    /\ crowded' = (crowded \/ Outstanding # {})
    /\ UNCHANGED <<open, epoch, replies, received, active, orphans, call, worker, inferred, givenUp>>

\* close pops the exchange and fails every future that waits.
Close ==
    /\ open
    /\ open' = FALSE
    /\ waiter' = [r \in Requests |-> IF waiter[r] = "waiting" THEN "failed" ELSE waiter[r]]
    /\ orphans' = orphans \cup Range(queue)
    /\ UNCHANGED <<epoch, queue, replies, received, active, crowded, call, worker, inferred, givenUp>>

-----------------------------------------------------------------------------
(* exchange, up to the point where it waits for a request.                 *)

Respond(c, response) ==
    call' = [call EXCEPT ![c] = [Free EXCEPT !.at = "responded", !.response = response]]

Poll(c) == call' = [call EXCEPT ![c] = [Free EXCEPT !.at = "getting", !.epoch = epoch]]

\* The active request again, the next in the queue, or a long poll.
HandOut(c, current) ==
    IF current # None
    THEN active' = current /\ Respond(c, current) /\ UNCHANGED queue
    ELSE IF queue # <<>>
    THEN active' = Head(queue) /\ Respond(c, Head(queue)) /\ queue' = Tail(queue)
    ELSE /\ active' = current
         /\ Poll(c)
         /\ UNCHANGED queue

\* Mutant: the reply resolves its future and active_request stays.
AfterReplyStale(r) == active

\* active_request once a reply for r is stored.
AfterReply(r) == IF active = r THEN None ELSE active

\* Mutant: a reply also sets a future that is already done.
AcceptReplyAlways(c, r, a) ==
    IF replies[r] \notin {None, a}
    THEN Respond(c, "malformed") /\ UNCHANGED <<queue, replies, waiter, received, active>>
    ELSE /\ replies' = [replies EXCEPT ![r] = a]
         /\ waiter' = [waiter EXCEPT ![r] = "answered"]
         /\ received' = [received EXCEPT ![r] = a]
         /\ HandOut(c, AfterReply(r))

\* A reply: rejected if the request has another one; else it resolves the
\* future if that still waits, and the poll goes on.
AcceptReply(c, r, a) ==
    IF replies[r] \notin {None, a}
    THEN Respond(c, "malformed") /\ UNCHANGED <<queue, replies, waiter, received, active>>
    ELSE /\ replies' = [replies EXCEPT ![r] = a]
         /\ IF waiter[r] = "waiting"
            THEN /\ waiter' = [waiter EXCEPT ![r] = "answered"]
                 /\ received' = [received EXCEPT ![r] = a]
            ELSE UNCHANGED <<waiter, received>>
         /\ HandOut(c, AfterReply(r))

\* exchange: an unknown lease means stop.
Exchange(c) ==
    /\ call[c].at = "sent"
    /\ IF ~open
       THEN Respond(c, "stop") /\ UNCHANGED <<queue, replies, waiter, received, active>>
       ELSE IF call[c].reply = <<>>
       THEN HandOut(c, active) /\ UNCHANGED <<replies, waiter, received>>
       ELSE AcceptReply(c, call[c].reply[1], call[c].reply[2])
    /\ UNCHANGED <<open, epoch, orphans, crowded, worker, inferred, givenUp>>

\* A waiting handler gets a request of its own exchange object: of the
\* registered one, or one that a closed one still had.
GetRequest(c) ==
    /\ call[c].at = "getting"
    /\ IF open /\ call[c].epoch = epoch
       THEN /\ queue # <<>>
            /\ active' = Head(queue)
            /\ queue' = Tail(queue)
            /\ Respond(c, Head(queue))
            /\ UNCHANGED orphans
       ELSE \E r \in orphans :
            /\ orphans' = orphans \ {r}
            /\ Respond(c, r)
            /\ UNCHANGED <<active, queue>>
    /\ UNCHANGED <<open, epoch, replies, waiter, received, crowded, worker, inferred, givenUp>>

\* wait_seconds have passed.
WaitOver(c) ==
    /\ call[c].at = "getting"
    /\ Respond(c, "wait")
    /\ UNCHANGED <<broker, worker, inferred, givenUp>>

-----------------------------------------------------------------------------
(* The worker: _serve_lease and _retry_exchange.                           *)

Send(c) ==
    /\ worker.at = "send"
    /\ call[c].at = "free"
    /\ \A d \in Calls : call[d].at = "free" => c <= d
    /\ call' = [call EXCEPT ![c] = [Free EXCEPT !.at = "sent", !.reply = worker.reply]]
    /\ worker' = [worker EXCEPT !.at = "await", !.call = c]
    /\ UNCHANGED <<broker, inferred, givenUp>>

\* A transport error or a timeout: the same exchange is sent again.  The old
\* poll may still arrive, and its handler goes on.
GiveUp ==
    /\ worker.at = "await"
    /\ givenUp < MaxGiveUps
    /\ givenUp' = givenUp + 1
    /\ worker' = [worker EXCEPT !.at = "send", !.call = None]
    /\ UNCHANGED <<broker, call, inferred>>

\* An abandoned poll never arrives, or its response has nobody to go to.
Discard(c) ==
    /\ call[c].at \in {"sent", "responded"}
    /\ worker.call # c
    /\ call' = [call EXCEPT ![c] = Free]
    /\ UNCHANGED <<broker, worker, inferred, givenUp>>

Deliver(c) ==
    /\ worker.at = "await" /\ worker.call = c
    /\ call[c].at = "responded"
    /\ call' = [call EXCEPT ![c] = Free]
    /\ LET response == call[c].response
       IN worker' = [reply |-> <<>>, call |-> None,
                     request |-> IF response \in Requests THEN response ELSE None,
                     at |-> CASE response \in Requests -> "local"
                              [] response = "wait" -> "send"
                              [] response = "stop" -> "ended"
                              [] response = "malformed" -> "rejected"]
    /\ UNCHANGED <<broker, inferred, givenUp>>

\* The local inference request; its answer, or a 502, goes with the next poll.
Infer(a) ==
    /\ worker.at = "local"
    /\ inferred' = [inferred EXCEPT ![worker.request] = @ + 1]
    /\ worker' = [worker EXCEPT !.at = "send", !.reply = <<worker.request, a>>, !.request = None]
    /\ UNCHANGED <<broker, call, givenUp>>

\* cancel_event or stop_event, seen at the top of the loop or while the
\* local request runs: the answer is dropped.
Cancel ==
    /\ worker.at \in {"send", "local"}
    /\ worker' = [at |-> "ended", reply |-> <<>>, request |-> None, call |-> None]
    /\ UNCHANGED <<broker, call, inferred, givenUp>>

-----------------------------------------------------------------------------
ServerStep(c) == Exchange(c) \/ GetRequest(c) \/ WaitOver(c)
WorkerStep(c) == Send(c) \/ Deliver(c) \/ Discard(c)

Next ==
    \/ Register \/ Close \/ Cancel \/ GiveUp
    \/ \E r \in Requests : Request(r)
    \/ \E a \in Answers : Infer(a)
    \/ \E c \in Calls : ServerStep(c) \/ WorkerStep(c)

\* Handlers run, long polls end and the worker keeps polling; a worker that
\* has stopped no longer renews, so the expiry watchdog closes the lease.
Fairness ==
    /\ \A c \in Calls : WF_vars(ServerStep(c)) /\ WF_vars(WorkerStep(c))
    /\ WF_vars(\E a \in Answers : Infer(a))
    /\ WF_vars(worker.at \in {"ended", "rejected"} /\ Close)

Spec == Init /\ [][Next]_vars
FairSpec == Spec /\ Fairness

-----------------------------------------------------------------------------
\* Somebody still has r: it is in the queue or handed out, it is in the answer
\* to the poll the worker waits for, the worker runs it, or its reply is with
\* the worker or in a poll that may still arrive.
InHand(r) ==
    \/ r \in Range(queue) \/ active = r
    \/ worker.call \in Calls /\ call[worker.call].response = r
    \/ worker.request = r
    \/ \E a \in Answers : worker.reply = <<r, a>>
    \/ \E c \in Calls : \E a \in Answers : call[c].at = "sent" /\ call[c].reply = <<r, a>>

\* Nobody has r, and its future waits.
Lost(r) == waiter[r] = "waiting" /\ ~InHand(r)

\* A request the episode waits for is in the queue or is the active request:
\* no lost poll, repeated reply or abandoned handler loses it, as long as the
\* exchange never had two requests at once; nor do any number of requests, as
\* long as the worker never gave up a poll.
RequestKept ==
    \/ crowded /\ givenUp > 0
    \/ \A r \in Outstanding : r \in Range(queue) \/ active = r

\* The worker forwards each request and returns the response: one that the
\* episode waits for never drops out of the relay.
RelayedEach == \A r \in Requests : ~Lost(r)

\* Redelivery never makes the worker run a request twice, so two different
\* answers to one request, which exchange rejects and which would end the
\* worker daemon, cannot arise.
InferredOnce ==
    /\ \A r \in Requests : inferred[r] <= 1
    /\ worker.at # "rejected"

\* No lost poll, repeated reply or abandoned handler makes the worker run a
\* request twice, and none makes the broker lose one unless a poll was given
\* up and two requests waited at once.
InferenceSafe == TypeOK /\ RequestKept /\ InferredOnce

\* The broker implements the service an episode expects: every request is
\* answered at most once and fails only when the lease closes.
Service == INSTANCE InferenceService WITH status <- waiter
ImplementsService == Service!Spec

\* A request is settled: it is answered, or its lease is closed, even if polls
\* are lost and the worker may stop at any time, unless the broker lost it;
\* that one waits until the lease runs into its deadline.
RequestsSettle ==
    \A r \in Requests :
        waiter[r] = "waiting" ~> waiter[r] \in {"answered", "failed"} \/ Lost(r)
=============================================================================
