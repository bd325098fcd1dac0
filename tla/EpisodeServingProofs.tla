------------------------ MODULE EpisodeServingProofs ------------------------
(***************************************************************************)
(* What happens while an episode runs, proved for every value of the       *)
(* constants.  InferenceBroker, for every set of requests, answers and     *)
(* polls in flight: it implements the service an episode expects, has no   *)
(* request run twice, and loses none unless a poll was given up and two    *)
(* requests waited at once.  Episodes, for every number of attempts,       *)
(* polls, requests and faults, every lease duration and deadline:          *)
(* EpisodesSafe.                                                           *)
(*                                                                         *)
(* Of an expiry there are three copies, which are compared with the row's. *)
(* The row's never goes back, so a copy taken from it stays below it; only *)
(* the offer must equal it, which holds because the one heartbeat that may *)
(* be under way is about an earlier lease.                                 *)
(***************************************************************************)
EXTENDS InferenceBroker, Episodes, FiniteSetTheorems, TLAPS

-----------------------------------------------------------------------------
(* The inference exchange.                                                 *)

\* The types, and what the worker runs is a request.
BrokerTypes == TypeOK /\ (worker.at = "local" => worker.request \in Requests)

\* Nobody waits for a closed exchange.  In an open one every request that is
\* queued or handed out is waited for, and has one place.
ExchangeExact ==
    /\ ~open => Outstanding = {}
    /\ open => /\ \A r \in Range(queue) : waiter[r] = "waiting" /\ r # active
               /\ \A i, j \in 1 .. Len(queue) : queue[i] = queue[j] => i = j
               /\ active \in Requests => waiter[active] = "waiting"

\* As long as no poll was given up there is only the worker's own, and while it
\* waits for a request none is handed out.
OnePoll ==
    givenUp = 0 =>
        \A c \in Calls : call[c].at # "free" =>
            /\ worker.call = c
            /\ call[c].at = "getting" /\ open /\ call[c].epoch = epoch => active = None

\* Why nothing is lost: there is one request, or there is one poll.
KeptInv ==
    /\ ~crowded => \A r, s \in Outstanding : r = s
    /\ open => RequestKept
    /\ OnePoll

\* Nobody has seen r yet: the worker has not run it, does not run it and no
\* poll was answered with it.
Untouched(r) ==
    /\ inferred[r] = 0
    /\ worker.request # r
    /\ \A c \in Calls : call[c].response # r

\* What is not sent, still queued or left in a closed exchange is untouched.
HeldBack ==
    /\ \A r \in orphans : waiter[r] = "failed"
    /\ \A r \in Requests :
          waiter[r] = "unused" \/ r \in orphans \/ (open /\ r \in Range(queue)) => Untouched(r)

\* Somebody holds the answer a to r: the worker, a poll under way, the broker.
Said(r, a) == worker.reply = <<r, a>> \/ replies[r] = a \/ \E c \in Calls : call[c].reply = <<r, a>>

\* There is one answer to a request that was run, and none to another.
OneAnswer ==
    \A r \in Requests : \A a, b \in Answers :
        Said(r, a) => inferred[r] > 0 /\ (Said(r, b) => a = b)

\* The poll the worker waits for.
PollCurrent ==
    IF worker.at = "await"
    THEN /\ worker.call \in Calls
         /\ call[worker.call].at = "sent" => call[worker.call].reply = worker.reply
         /\ call[worker.call].response \in Requests => inferred[call[worker.call].response] = 0
    ELSE /\ worker.call = None
         /\ worker.at = "local" => inferred[worker.request] = 0

\* A request that was run and is still handed out gets its reply with the
\* poll that the worker is about to send or that has not arrived yet.
ReplyComes ==
    open /\ active \in Requests /\ inferred[active] > 0 =>
        \/ worker.at = "ended"
        \/ /\ \E a \in Answers : worker.reply = <<active, a>>
           /\ \/ worker.at = "send"
              \/ worker.at = "await" /\ call[worker.call].at = "sent"

NeverRejected == worker.at # "rejected" /\ \A c \in Calls : call[c].response # "malformed"

\* The whole invariant but its types.
ExchangeInv ==
    /\ ExchangeExact
    /\ KeptInv
    /\ HeldBack
    /\ OneAnswer
    /\ PollCurrent
    /\ ReplyComes
    /\ \A r \in Requests : inferred[r] <= 1
    /\ NeverRejected

-----------------------------------------------------------------------------
(* Types.                                                                  *)

CallType == [at: {"free", "sent", "getting", "responded"},
             epoch: 0 .. MaxEpochs, reply: Reply, response: Response]

\* A poll's handler is replaced by a typed one.
LEMMA CallTypes ==
  ASSUME BrokerAssumption, call \in [Calls -> CallType], NEW c \in Calls
  PROVE  /\ Free \in CallType
         /\ \A x \in Response : Respond(c, x) => call' \in [Calls -> CallType]
         /\ epoch \in 0 .. MaxEpochs /\ Poll(c) => call' \in [Calls -> CallType]
  <1>1. Free \in CallType
    BY DEF BrokerAssumption, Free, CallType, Reply, Response
  <1>2. ASSUME NEW x \in Response, Respond(c, x) PROVE call' \in [Calls -> CallType]
    <2>1. [Free EXCEPT !.at = "responded", !.response = x] \in CallType
      BY <1>1 DEF Free, CallType
    <2> QED BY <1>2, <2>1 DEF Respond
  <1>3. ASSUME epoch \in 0 .. MaxEpochs, Poll(c) PROVE call' \in [Calls -> CallType]
    <2>1. [Free EXCEPT !.at = "getting", !.epoch = epoch] \in CallType
      BY <1>1, <1>3 DEF Free, CallType
    <2> QED BY <1>3, <2>1 DEF Poll
  <1> QED BY <1>1, <1>2, <1>3

\* Handing out keeps the types.
LEMMA HandOutTypes ==
  ASSUME BrokerAssumption, TypeOK, NEW c \in Calls, NEW current \in Requests \cup {None},
         HandOut(c, current)
  PROVE  /\ queue' \in Seq(Requests) /\ active' \in Requests \cup {None}
         /\ call' \in [Calls -> CallType]
  <1>0. call \in [Calls -> CallType] /\ epoch \in 0 .. MaxEpochs /\ queue \in Seq(Requests)
    BY DEF TypeOK, CallType
  <1>1. CASE current # None
    <2>1. current \in Response
      BY <1>1 DEF Response
    <2> QED BY <1>0, <1>1, <2>1, CallTypes DEF HandOut
  <1>2. CASE current = None /\ queue # <<>>
    <2>1. Head(queue) \in Requests /\ Tail(queue) \in Seq(Requests)
      BY <1>0, <1>2
    <2>2. Head(queue) \in Response
      BY <2>1 DEF Response
    <2> QED BY <1>0, <1>2, <2>1, <2>2, CallTypes DEF HandOut
  <1>3. CASE current = None /\ queue = <<>>
    BY <1>0, <1>3, CallTypes DEF HandOut
  <1> QED BY <1>1, <1>2, <1>3

\* A reply that is not empty names a request and an answer.
LEMMA ReplyParts ==
  ASSUME NEW p \in Reply, p # <<>>
  PROVE  p[1] \in Requests /\ p[2] \in Answers /\ p = <<p[1], p[2]>>
  BY DEF Reply

\* A reply is not the empty one.
LEMMA ReplyNotEmpty == \A u, v : <<u, v>> # <<>>
  OBVIOUS

\* exchange keeps the types.
LEMMA ExchangeTypes ==
  ASSUME BrokerAssumption, TypeOK, NEW c \in Calls, Exchange(c)
  PROVE  /\ queue' \in Seq(Requests) /\ active' \in Requests \cup {None}
         /\ call' \in [Calls -> CallType]
         /\ replies' \in [Requests -> Answers \cup {None}]
         /\ waiter' \in [Requests -> {"unused", "waiting", "answered", "failed"}]
         /\ received' \in [Requests -> Answers \cup {None}]
  <1>0. /\ call \in [Calls -> CallType] /\ {"stop", "malformed"} \subseteq Response
        /\ queue \in Seq(Requests) /\ active \in Requests \cup {None}
        /\ replies \in [Requests -> Answers \cup {None}]
        /\ waiter \in [Requests -> {"unused", "waiting", "answered", "failed"}]
        /\ received \in [Requests -> Answers \cup {None}]
    BY DEF TypeOK, CallType, Response
  <1>1. CASE ~open
    BY <1>0, <1>1, CallTypes DEF Exchange
  <1>2. CASE open /\ call[c].reply = <<>>
    BY <1>0, <1>2, HandOutTypes DEF Exchange
  <1>3. CASE open /\ call[c].reply # <<>>
    <2> DEFINE r == call[c].reply[1]
               a == call[c].reply[2]
    <2>1. r \in Requests /\ a \in Answers /\ AcceptReply(c, r, a)
      BY <1>0, <1>3, ReplyParts DEF Exchange, CallType
    <2> HIDE DEF r, a
    <2>2. CASE replies[r] \notin {None, a}
      BY <1>0, <2>1, <2>2, CallTypes DEF AcceptReply
    <2>3. CASE replies[r] \in {None, a}
      <3>1. /\ replies' = [replies EXCEPT ![r] = a] /\ HandOut(c, AfterReply(r))
            /\ \/ UNCHANGED <<waiter, received>>
               \/ /\ waiter' = [waiter EXCEPT ![r] = "answered"]
                  /\ received' = [received EXCEPT ![r] = a]
        BY <2>1, <2>3 DEF AcceptReply
      <3>2. AfterReply(r) \in Requests \cup {None}
        BY <1>0 DEF AfterReply
      <3> QED BY <1>0, <2>1, <3>1, <3>2, HandOutTypes
    <2> QED BY <2>2, <2>3
  <1> QED BY <1>1, <1>2, <1>3

\* Every step keeps the types.
LEMMA TypeStep == ASSUME BrokerAssumption, BrokerTypes, [Next]_vars PROVE BrokerTypes'
  <1> USE DEF BrokerTypes
  <1>0. call \in [Calls -> CallType] /\ queue \in Seq(Requests) /\ MaxEpochs \in Nat
    BY DEF TypeOK, CallType, BrokerAssumption
  <1>1. CASE Register
    <2>1. epoch + 1 \in 0 .. MaxEpochs
      BY <1>0, <1>1 DEF Register, TypeOK
    <2>2. queue' \in Seq(Requests) /\ replies' \in [Requests -> Answers \cup {None}]
      BY <1>1 DEF Register
    <2>3. UNCHANGED <<waiter, received, orphans, call, worker, inferred, givenUp>>
      BY <1>1 DEF Register
    <2>4. open' \in BOOLEAN /\ crowded' \in BOOLEAN /\ active' = None /\ epoch' = epoch + 1
      BY <1>1 DEF Register
    <2> QED BY <2>1, <2>2, <2>3, <2>4 DEF TypeOK
  <1>2. CASE Close
    <2>1. Range(queue) \subseteq Requests
      BY <1>0 DEF Range
    <2> QED BY <1>2, <2>1 DEF Close, TypeOK
  <1>3. CASE Cancel
    BY <1>3 DEF Cancel, TypeOK, Reply, broker
  <1>4. CASE GiveUp
    <2>1. givenUp + 1 \in 0 .. MaxGiveUps
      BY <1>4 DEF GiveUp, TypeOK, BrokerAssumption
    <2> QED BY <1>4, <2>1 DEF GiveUp, TypeOK, broker
  <1>5. ASSUME NEW r \in Requests, Request(r) PROVE BrokerTypes'
    <2>1. Append(queue, r) \in Seq(Requests)
      BY <1>0
    <2> QED BY <1>5, <2>1 DEF Request, TypeOK
  <1>6. ASSUME NEW a \in Answers, Infer(a) PROVE BrokerTypes'
    <2>1. worker.request \in Requests /\ <<worker.request, a>> \in Reply
      BY <1>6 DEF Infer, Reply
    <2>2. inferred' \in [Requests -> Nat]
      BY <1>6, <2>1 DEF Infer, TypeOK
    <2> QED BY <1>6, <2>1, <2>2 DEF Infer, TypeOK, broker
  <1>7. ASSUME NEW c \in Calls, Exchange(c) PROVE BrokerTypes'
    BY <1>7, ExchangeTypes DEF Exchange, TypeOK, CallType
  <1>8. ASSUME NEW c \in Calls, GetRequest(c) PROVE BrokerTypes'
    <2>1. PICK x \in Requests : Respond(c, x)
      BY <1>0, <1>8 DEF GetRequest, TypeOK
    <2>2. call' \in [Calls -> CallType]
      <3>1. x \in Response
        BY DEF Response
      <3> QED BY <1>0, <2>1, <3>1, CallTypes
    <2>3. queue' \in Seq(Requests) /\ active' \in Requests \cup {None} /\ orphans' \subseteq Requests
      <3>1. CASE open /\ call[c].epoch = epoch
        <4>1. queue # <<>> /\ active' = Head(queue) /\ queue' = Tail(queue) /\ UNCHANGED orphans
          BY <1>8, <3>1 DEF GetRequest
        <4>2. Head(queue) \in Requests /\ Tail(queue) \in Seq(Requests)
          BY <1>0, <4>1
        <4> QED BY <4>1, <4>2 DEF TypeOK
      <3>2. CASE ~(open /\ call[c].epoch = epoch)
        BY <1>0, <1>8, <3>2 DEF GetRequest, TypeOK
      <3> QED BY <3>1, <3>2
    <2> QED BY <1>8, <2>2, <2>3 DEF GetRequest, TypeOK, CallType
  <1>9. ASSUME NEW c \in Calls, WaitOver(c) PROVE BrokerTypes'
    <2>1. "wait" \in Response
      BY DEF Response
    <2> QED BY <1>0, <1>9, <2>1, CallTypes DEF WaitOver, TypeOK, CallType, broker
  <1>10. ASSUME NEW c \in Calls, Send(c) PROVE BrokerTypes'
    <2>1. [Free EXCEPT !.at = "sent", !.reply = worker.reply] \in CallType
      BY <1>0, CallTypes DEF Free, CallType, TypeOK
    <2> QED BY <1>0, <1>10, <2>1 DEF Send, TypeOK, CallType, broker
  <1>11. ASSUME NEW c \in Calls, Deliver(c) PROVE BrokerTypes'
    <2>1. call' \in [Calls -> CallType]
      BY <1>0, <1>11, CallTypes DEF Deliver
    <2>2. call[c].response \in Response
      BY <1>0 DEF CallType
    <2>3. worker' \in [at: {"send", "await", "local", "ended", "rejected"},
                       reply: Reply, request: Requests \cup {None}, call: Calls \cup {None}]
          /\ (worker'.at = "local" => worker'.request \in Requests)
      BY <1>11, <2>2 DEF Deliver, Response, Reply, BrokerAssumption
    <2> QED BY <1>11, <2>1, <2>3 DEF Deliver, TypeOK, CallType, broker
  <1>12. ASSUME NEW c \in Calls, Discard(c) PROVE BrokerTypes'
    BY <1>0, <1>12, CallTypes DEF Discard, TypeOK, CallType, broker
  <1>13. CASE UNCHANGED vars
    BY <1>13 DEF vars, broker, TypeOK
  <1> QED BY <1>1, <1>2, <1>3, <1>4, <1>5, <1>6, <1>7, <1>8, <1>9, <1>10, <1>11, <1>12, <1>13
          DEF Next, ServerStep, WorkerStep

\* The initial state is typed.
LEMMA InitTypes == ASSUME BrokerAssumption, Init PROVE BrokerTypes
  <1>1. call \in [Calls -> CallType]
    BY DEF Init, Free, CallType, BrokerAssumption, Reply, Response
  <1>2. worker \in [at: {"send", "await", "local", "ended", "rejected"},
                    reply: Reply, request: Requests \cup {None}, call: Calls \cup {None}]
        /\ worker.at # "local"
    BY DEF Init, Reply
  <1>3. queue \in Seq(Requests) /\ epoch \in 0 .. MaxEpochs /\ givenUp \in 0 .. MaxGiveUps
    BY DEF Init, BrokerAssumption
  <1> QED BY <1>1, <1>2, <1>3 DEF Init, BrokerTypes, TypeOK, CallType

\* The exchange, its polls and the worker keep their types.
THEOREM BrokerTypesHold == ASSUME BrokerAssumption PROVE Spec => []BrokerTypes
  <1>1. Init => BrokerTypes
    BY InitTypes
  <1>2. BrokerTypes /\ [Next]_vars => BrokerTypes'
    BY TypeStep
  <1> QED BY <1>1, <1>2, PTL DEF Spec

-----------------------------------------------------------------------------
(* The service.                                                            *)

\* Every step of the exchange is a step of the service or leaves it alone.
LEMMA ServiceStep ==
  ASSUME BrokerAssumption, BrokerTypes, [Next]_vars
  PROVE  [Service!Next]_<<waiter, received>>
  <1>1. CASE Close
    BY <1>1 DEF Close, Service!Next, Service!Close
  <1>2. ASSUME NEW r \in Requests, Request(r) PROVE Service!Next
    BY <1>2 DEF Request, Service!Next, Service!Ask
  <1>3. ASSUME NEW c \in Calls, Exchange(c) PROVE Service!Next \/ UNCHANGED <<waiter, received>>
    <2>1. CASE ~open \/ call[c].reply = <<>>
      BY <1>3, <2>1 DEF Exchange
    <2>2. CASE open /\ call[c].reply # <<>>
      <3> DEFINE r == call[c].reply[1]
                 a == call[c].reply[2]
      <3>1. r \in Requests /\ a \in Answers /\ AcceptReply(c, r, a)
        BY <1>3, <2>2, ReplyParts DEF Exchange, BrokerTypes, TypeOK
      <3> HIDE DEF r, a
      <3>2. \/ UNCHANGED <<waiter, received>>
            \/ waiter[r] = "waiting" /\ waiter' = [waiter EXCEPT ![r] = "answered"]
               /\ received' = [received EXCEPT ![r] = a]
        BY <3>1 DEF AcceptReply
      <3> QED BY <3>1, <3>2 DEF Service!Next, Service!Answer
    <2> QED BY <2>1, <2>2
  <1>4. CASE Register \/ Cancel \/ GiveUp \/ UNCHANGED vars
    BY <1>4 DEF Register, Cancel, GiveUp, vars, broker
  <1>5. ASSUME NEW a \in Answers, Infer(a) PROVE UNCHANGED <<waiter, received>>
    BY <1>5 DEF Infer, broker
  <1>6. ASSUME NEW c \in Calls,
               GetRequest(c) \/ WaitOver(c) \/ Send(c) \/ Deliver(c) \/ Discard(c)
        PROVE  UNCHANGED <<waiter, received>>
    BY <1>6 DEF GetRequest, WaitOver, Send, Deliver, Discard, broker
  <1> QED BY <1>1, <1>2, <1>3, <1>4, <1>5, <1>6 DEF Next, ServerStep, WorkerStep

\* The exchange implements the service an episode expects: a request is
\* answered at most once, with what the worker answered, and fails only when
\* its lease closes, for any number of requests at a time.
THEOREM BrokerServes == ASSUME BrokerAssumption PROVE Spec => ImplementsService
  <1>1. Init => Service!Init
    BY DEF Init, Service!Init
  <1>2. BrokerTypes /\ [Next]_vars => [Service!Next]_<<waiter, received>>
    BY ServiceStep
  <1> QED BY <1>1, <1>2, BrokerTypesHold, PTL DEF Spec, ImplementsService, Service!Spec


-----------------------------------------------------------------------------
(* Handlers, polls and requests.                                           *)

\* Steps that only take answers away keep them unique.
LEMMA AnswersKept ==
  ASSUME OneAnswer, UNCHANGED inferred,
         \A r \in Requests : \A a \in Answers : Said(r, a)' => Said(r, a)
  PROVE  OneAnswer'
  <1> SUFFICES ASSUME NEW r \in Requests, NEW a \in Answers, NEW b \in Answers, Said(r, a)'
               PROVE  inferred'[r] > 0 /\ (Said(r, b)' => a = b)
    BY DEF OneAnswer
  <1> QED BY DEF OneAnswer

\* What a handler does to its poll, if it answers with something that may be
\* answered: not with a request that was run, if the worker waits for it.
LEMMA AnswerStep ==
  ASSUME BrokerAssumption, BrokerTypes, PollCurrent, NeverRejected, ReplyComes,
         NEW c \in Calls, NEW k \in CallType,
         call' = [call EXCEPT ![c] = k], UNCHANGED <<open, worker, inferred>>,
         k.at \in {"responded", "getting"}, k.response # "malformed",
         k.response \in Requests /\ worker.call = c => inferred[k.response] = 0,
         open /\ active' \in Requests /\ inferred[active'] > 0 =>
            active' = active /\ ~(worker.at = "await" /\ worker.call = c)
  PROVE  PollCurrent' /\ NeverRejected' /\ ReplyComes'
  <1>1. call'[c] = k /\ \A d \in Calls : d # c => call'[d] = call[d]
    BY DEF BrokerTypes, TypeOK
  <1>2. PollCurrent'
    BY <1>1 DEF PollCurrent
  <1>3. NeverRejected'
    BY <1>1 DEF NeverRejected
  <1>4. ReplyComes'
    BY <1>1 DEF ReplyComes, PollCurrent
  <1> QED BY <1>2, <1>3, <1>4

\* A handler that answers with what is no longer held back leaves the rest
\* untouched.
LEMMA HeldBackKept ==
  ASSUME BrokerAssumption, BrokerTypes, HeldBack,
         NEW c \in Calls, NEW k \in CallType,
         call' = [call EXCEPT ![c] = k], UNCHANGED <<open, worker, inferred>>,
         orphans' \subseteq orphans,
         \A r \in Requests : waiter'[r] = "unused" => waiter[r] = "unused",
         \A r \in Requests : waiter[r] = "failed" => waiter'[r] = "failed",
         \A r \in Requests : open /\ r \in Range(queue') => r \in Range(queue),
         k.response \in Requests =>
            /\ waiter'[k.response] # "unused"
            /\ k.response \notin orphans'
            /\ ~(open /\ k.response \in Range(queue'))
  PROVE  HeldBack'
  <1>1. call'[c] = k /\ \A d \in Calls : d # c => call'[d] = call[d]
    BY DEF BrokerTypes, TypeOK
  <1>2. orphans \subseteq Requests
    BY DEF BrokerTypes, TypeOK
  <1>3. \A r \in orphans' : waiter'[r] = "failed"
    BY <1>2 DEF HeldBack
  <1>4. ASSUME NEW r \in Requests,
               waiter'[r] = "unused" \/ r \in orphans' \/ (open /\ r \in Range(queue'))
        PROVE  Untouched(r)'
    <2>1. Untouched(r)
      BY <1>4 DEF HeldBack
    <2>2. k.response # r
      BY <1>4
    <2> QED BY <1>1, <2>1, <2>2 DEF Untouched
  <1> QED BY <1>3, <1>4 DEF HeldBack

\* The answers of the polls and of the worker only become fewer.
LEMMA SaidKept ==
  ASSUME BrokerTypes, NEW c \in Calls, NEW k \in CallType,
         call' = [call EXCEPT ![c] = k], k.reply = <<>>, UNCHANGED worker,
         NEW r \in Requests, NEW a \in Answers,
         replies'[r] = a => Said(r, a), Said(r, a)'
  PROVE  Said(r, a)
  <1>1. call'[c] = k /\ \A d \in Calls : d # c => call'[d] = call[d]
    BY DEF BrokerTypes, TypeOK
  <1>2. \A d \in Calls : call'[d].reply \in {<<>>, call[d].reply}
    BY <1>1
  <1> QED BY <1>2, ReplyNotEmpty DEF Said

\* The handler of a poll answers it, or waits: the form of its new state.
LEMMA ResponseForm ==
  ASSUME BrokerAssumption, NEW x \in Response, epoch \in 0 .. MaxEpochs
  PROVE  /\ [Free EXCEPT !.at = "responded", !.response = x] \in CallType
         /\ [Free EXCEPT !.at = "responded", !.response = x].at = "responded"
         /\ [Free EXCEPT !.at = "responded", !.response = x].response = x
         /\ [Free EXCEPT !.at = "responded", !.response = x].reply = <<>>
         /\ [Free EXCEPT !.at = "getting", !.epoch = epoch] \in CallType
         /\ [Free EXCEPT !.at = "getting", !.epoch = epoch].at = "getting"
         /\ [Free EXCEPT !.at = "getting", !.epoch = epoch].response = "wait"
         /\ [Free EXCEPT !.at = "getting", !.epoch = epoch].reply = <<>>
  <1>1. Free \in CallType /\ Free.reply = <<>> /\ Free.response = "wait"
    BY DEF BrokerAssumption, Free, CallType, Reply, Response
  <1>2. /\ [Free EXCEPT !.at = "responded", !.response = x] \in CallType
        /\ [Free EXCEPT !.at = "responded", !.response = x].at = "responded"
        /\ [Free EXCEPT !.at = "responded", !.response = x].response = x
        /\ [Free EXCEPT !.at = "responded", !.response = x].reply = <<>>
    BY <1>1 DEF CallType
  <1>3. /\ [Free EXCEPT !.at = "getting", !.epoch = epoch] \in CallType
        /\ [Free EXCEPT !.at = "getting", !.epoch = epoch].at = "getting"
        /\ [Free EXCEPT !.at = "getting", !.epoch = epoch].response = "wait"
        /\ [Free EXCEPT !.at = "getting", !.epoch = epoch].reply = <<>>
    BY <1>1 DEF CallType
  <1> QED BY <1>2, <1>3

\* A reply may settle a future whose request is no longer queued; current is
\* what is handed out after that.
Settles(current) ==
    /\ current \in {active, None}
    /\ current # active => waiter'[active] = "answered"
    /\ \A q \in Requests :
          \/ waiter'[q] = waiter[q]
          \/ waiter[q] = "waiting" /\ waiter'[q] = "answered" /\ q \notin Range(queue) /\ q # current

\* A handler that does not wait, or waits while nothing is handed out, is still
\* the only one.
LEMMA OnePollKept ==
  ASSUME BrokerTypes, OnePoll, NEW c \in Calls, NEW k \in CallType,
         call' = [call EXCEPT ![c] = k], call[c].at # "free",
         UNCHANGED <<open, worker, epoch, givenUp>>,
         k.at = "getting" => active' = None
  PROVE  OnePoll'
  <1>1. call'[c] = k /\ \A d \in Calls : d # c => call'[d] = call[d]
    BY DEF BrokerTypes, TypeOK
  <1> QED BY <1>1 DEF OnePoll

\* The steps of a handler that answers with no request or only waits.
LEMMA QuietHandler ==
  ASSUME BrokerAssumption, BrokerTypes, ExchangeInv, NEW c \in Calls, NEW current,
         Settles(current), call[c].at # "free",
         Respond(c, "wait") \/ Respond(c, "stop") \/ (Poll(c) /\ current = None),
         UNCHANGED <<open, epoch, queue, orphans, crowded, worker, inferred, givenUp>>,
         active' = current,
         open /\ current \in Requests /\ inferred[current] > 0 =>
            ~(worker.at = "await" /\ worker.call = c),
         \A r \in Requests : \A a \in Answers : replies'[r] = a => Said(r, a)
  PROVE  ExchangeInv'
  <1>1. epoch \in 0 .. MaxEpochs /\ None \notin Requests /\ queue \in Seq(Requests)
    BY DEF BrokerTypes, TypeOK, BrokerAssumption
  <1>2. PICK k \in CallType : /\ call' = [call EXCEPT ![c] = k] /\ k.reply = <<>>
                              /\ k.at \in {"responded", "getting"} /\ k.response \in {"wait", "stop"}
                              /\ k.at = "getting" => current = None
    <2>1. {"wait", "stop"} \subseteq Response
      BY DEF Response
    <2> QED BY <1>1, <2>1, ResponseForm DEF Respond, Poll
  <1>3. k.response \notin Requests
    BY <1>2 DEF BrokerAssumption
  <1>4. PollCurrent' /\ NeverRejected' /\ ReplyComes'
    BY <1>1, <1>2, <1>3, AnswerStep DEF ExchangeInv, Settles
  <1>5. HeldBack'
    BY <1>2, <1>3, HeldBackKept DEF ExchangeInv, Settles
  <1>6. OneAnswer'
    BY <1>2, SaidKept, AnswersKept DEF ExchangeInv
  <1>7. ExchangeExact'
    <2>1. Range(queue) \subseteq Requests
      BY <1>1 DEF Range
    <2> QED BY <1>1, <2>1 DEF ExchangeInv, ExchangeExact, Outstanding, Settles
  <1>8. KeptInv'
    <2>1. OnePoll'
      BY <1>2, OnePollKept DEF ExchangeInv, KeptInv
    <2>2. Outstanding' \subseteq Outstanding
      BY DEF Settles, Outstanding
    <2>3. \A r \in Outstanding' : active = r => active' = r
      BY DEF Settles, Outstanding
    <2> QED BY <2>1, <2>2, <2>3 DEF ExchangeInv, KeptInv, RequestKept
  <1> QED BY <1>4, <1>5, <1>6, <1>7, <1>8 DEF ExchangeInv

\* What is left of a queue without its head.
LEMMA TailRange ==
  ASSUME NEW q \in Seq(Requests), q # <<>>
  PROVE  /\ Head(q) \in Requests /\ Tail(q) \in Seq(Requests)
         /\ Range(q) = {Head(q)} \cup Range(Tail(q))
         /\ (\A i, j \in 1 .. Len(q) : q[i] = q[j] => i = j) =>
               /\ Head(q) \notin Range(Tail(q))
               /\ \A i, j \in 1 .. Len(Tail(q)) : Tail(q)[i] = Tail(q)[j] => i = j
  <1>1. /\ Len(q) \in Nat /\ Len(q) > 0 /\ DOMAIN q = 1 .. Len(q) /\ Head(q) = q[1]
        /\ Tail(q) \in Seq(Requests) /\ Len(Tail(q)) = Len(q) - 1
        /\ DOMAIN Tail(q) = 1 .. Len(q) - 1
        /\ \A i \in 1 .. Len(q) - 1 : Tail(q)[i] = q[i + 1]
    OBVIOUS
  <1>2. ASSUME NEW x \in Range(q) PROVE x = Head(q) \/ x \in Range(Tail(q))
    <2>1. PICK i \in 1 .. Len(q) : x = q[i]
      BY <1>1, <1>2 DEF Range
    <2>2. CASE i # 1
      <3>1. i - 1 \in 1 .. Len(q) - 1 /\ Tail(q)[i - 1] = q[i]
        BY <1>1, <2>2
      <3> QED BY <1>1, <2>1, <3>1 DEF Range
    <2> QED BY <1>1, <2>1, <2>2
  <1>3. ASSUME NEW x \in Range(Tail(q)) PROVE \E i \in 2 .. Len(q) : x = q[i]
    <2>1. PICK i \in 1 .. Len(q) - 1 : x = Tail(q)[i]
      BY <1>1, <1>3 DEF Range
    <2>2. i + 1 \in 2 .. Len(q) /\ x = q[i + 1]
      BY <1>1, <2>1
    <2> QED BY <2>2
  <1>4. Range(q) = {Head(q)} \cup Range(Tail(q))
    <2>1. Head(q) \in Range(q)
      BY <1>1 DEF Range
    <2>2. Range(Tail(q)) \subseteq Range(q)
      BY <1>1, <1>3 DEF Range
    <2> QED BY <1>2, <2>1, <2>2
  <1>5. ASSUME \A i, j \in 1 .. Len(q) : q[i] = q[j] => i = j
        PROVE  /\ Head(q) \notin Range(Tail(q))
               /\ \A i, j \in 1 .. Len(Tail(q)) : Tail(q)[i] = Tail(q)[j] => i = j
    BY <1>1, <1>3, <1>5
  <1>6. Head(q) \in Requests
    BY <1>1
  <1> QED BY <1>1, <1>4, <1>5, <1>6

\* The handler takes the next request from the queue, which then is handed
\* out: when nothing else is, or when it has waited since some earlier time.
LEMMA TakeRequest ==
  ASSUME BrokerAssumption, BrokerTypes, ExchangeInv, NEW c \in Calls, NEW current,
         Settles(current), call[c].at # "free",
         current = None \/ (call[c].at = "getting" /\ call[c].epoch = epoch),
         open, queue # <<>>, active' = Head(queue), queue' = Tail(queue), Respond(c, Head(queue)),
         UNCHANGED <<open, epoch, orphans, crowded, worker, inferred, givenUp>>,
         \A r \in Requests : \A a \in Answers : replies'[r] = a => Said(r, a)
  PROVE  ExchangeInv'
  <1>1. epoch \in 0 .. MaxEpochs /\ queue \in Seq(Requests) /\ None \notin Requests /\ givenUp \in Nat
    BY DEF BrokerTypes, TypeOK, BrokerAssumption
  <1>2. PICK x \in Requests : /\ x = Head(queue) /\ queue' \in Seq(Requests)
                              /\ Range(queue) = {x} \cup Range(queue') /\ x \notin Range(queue')
                              /\ \A i, j \in 1 .. Len(queue') : queue'[i] = queue'[j] => i = j
    BY <1>1, TailRange DEF ExchangeInv, ExchangeExact
  <1>3. Range(queue) \subseteq Requests
    BY <1>1 DEF Range
  <1>4. PICK k \in CallType : /\ call' = [call EXCEPT ![c] = k] /\ k.reply = <<>>
                              /\ k.at = "responded" /\ k.response = x
    <2>1. x \in Response
      BY DEF Response
    <2> QED BY <1>1, <1>2, <2>1, ResponseForm DEF Respond
  <1>5. waiter[x] = "waiting" /\ waiter'[x] = "waiting" /\ Untouched(x) /\ x \notin orphans /\ x # "malformed"
    <2>1. waiter[x] = "waiting"
      BY <1>2 DEF ExchangeInv, ExchangeExact
    <2>2. waiter'[x] = "waiting"
      BY <1>2, <2>1 DEF Settles
    <2> QED BY <1>2, <2>1, <2>2 DEF ExchangeInv, HeldBack, BrokerAssumption
  <1>6. PollCurrent' /\ NeverRejected' /\ ReplyComes'
    <2>1. active' = x /\ inferred[x] = 0 /\ ~(inferred[x] > 0)
      BY <1>2, <1>5 DEF Untouched
    <2> QED BY <1>4, <1>5, <2>1, AnswerStep DEF ExchangeInv
  <1>7. HeldBack'
    <2>1. /\ \A r \in Requests : waiter'[r] = "unused" => waiter[r] = "unused"
          /\ \A r \in Requests : waiter[r] = "failed" => waiter'[r] = "failed"
      BY DEF Settles
    <2> QED BY <1>2, <1>4, <1>5, <2>1, HeldBackKept DEF ExchangeInv
  <1>8. OneAnswer'
    BY <1>4, SaidKept, AnswersKept DEF ExchangeInv
  <1>9. ExchangeExact'
    <2>1. \A r \in Range(queue) : waiter'[r] = "waiting"
      BY <1>3 DEF ExchangeInv, ExchangeExact, Settles
    <2> QED BY <1>2, <1>5, <2>1 DEF ExchangeExact
  <1>10. KeptInv'
    <2>1. OnePoll'
      BY <1>4, OnePollKept DEF ExchangeInv, KeptInv
    <2>2. Outstanding' \subseteq Outstanding /\ x \in Outstanding
      BY <1>5 DEF Settles, Outstanding
    <2>3. ~crowded' => \A r, s \in Outstanding' : r = s
      BY <2>2 DEF ExchangeInv, KeptInv
    <2>4. RequestKept'
      <3> SUFFICES ASSUME ~(crowded /\ givenUp > 0), NEW r \in Outstanding'
                   PROVE  r \in Range(queue') \/ r = x
        BY <1>2 DEF RequestKept
      <3>1. CASE ~crowded
        BY <2>2, <3>1 DEF ExchangeInv, KeptInv
      <3>2. CASE givenUp = 0
        <4>1. current = None
          BY <3>2 DEF ExchangeInv, KeptInv, OnePoll, Settles
        <4>2. active # r
          BY <1>1, <4>1 DEF Settles, Outstanding
        <4>3. r \in Range(queue)
          BY <2>2, <3>2, <4>2 DEF ExchangeInv, KeptInv, RequestKept
        <4> QED BY <1>2, <4>3
      <3> QED BY <1>1, <3>1, <3>2
    <2> QED BY <2>1, <2>3, <2>4 DEF KeptInv
  <1> QED BY <1>6, <1>7, <1>8, <1>9, <1>10 DEF ExchangeInv

\* The handler repeats the request that is handed out.
LEMMA RepeatRequest ==
  ASSUME BrokerAssumption, BrokerTypes, ExchangeInv, NEW c \in Calls,
         Settles(active), call[c].at # "free",
         open, active # None, Respond(c, active),
         UNCHANGED <<open, epoch, queue, orphans, active, crowded, worker, inferred, givenUp>>,
         worker.call = c => inferred[active] = 0,
         \A r \in Requests : \A a \in Answers : replies'[r] = a => Said(r, a)
  PROVE  ExchangeInv'
  <1>1. epoch \in 0 .. MaxEpochs /\ queue \in Seq(Requests) /\ active \in Requests
    BY DEF BrokerTypes, TypeOK
  <1>2. Range(queue) \subseteq Requests
    BY <1>1 DEF Range
  <1>3. PICK k \in CallType : /\ call' = [call EXCEPT ![c] = k] /\ k.reply = <<>>
                              /\ k.at = "responded" /\ k.response = active
    <2>1. active \in Response
      BY <1>1 DEF Response
    <2> QED BY <1>1, <2>1, ResponseForm DEF Respond
  <1>4. /\ waiter[active] = "waiting" /\ waiter'[active] = "waiting" /\ active \notin orphans
        /\ active # "malformed" /\ active \notin Range(queue)
    <2>1. waiter[active] = "waiting" /\ active \notin Range(queue)
      BY <1>1 DEF ExchangeInv, ExchangeExact
    <2>2. waiter'[active] = "waiting"
      BY <1>1, <2>1 DEF Settles
    <2> QED BY <1>1, <2>1, <2>2 DEF ExchangeInv, HeldBack, BrokerAssumption
  <1>5. PollCurrent' /\ NeverRejected' /\ ReplyComes'
    <2>1. active' = active /\ (worker.call = c => ~(inferred[active] > 0))
      OBVIOUS
    <2> QED BY <1>1, <1>3, <1>4, <2>1, AnswerStep DEF ExchangeInv
  <1>6. HeldBack'
    <2>1. /\ \A r \in Requests : waiter'[r] = "unused" => waiter[r] = "unused"
          /\ \A r \in Requests : waiter[r] = "failed" => waiter'[r] = "failed"
      BY DEF Settles
    <2> QED BY <1>1, <1>3, <1>4, <2>1, HeldBackKept DEF ExchangeInv
  <1>7. OneAnswer'
    BY <1>3, SaidKept, AnswersKept DEF ExchangeInv
  <1>8. ExchangeExact'
    <2>1. \A r \in Range(queue) : waiter'[r] = "waiting"
      BY <1>2 DEF ExchangeInv, ExchangeExact, Settles
    <2> QED BY <1>4, <2>1 DEF ExchangeInv, ExchangeExact
  <1>9. KeptInv'
    <2>1. OnePoll'
      BY <1>3, OnePollKept DEF ExchangeInv, KeptInv
    <2>2. Outstanding' \subseteq Outstanding
      BY DEF Settles, Outstanding
    <2> QED BY <2>1, <2>2 DEF ExchangeInv, KeptInv, RequestKept
  <1> QED BY <1>5, <1>6, <1>7, <1>8, <1>9 DEF ExchangeInv

\* A poll, after what its reply settles: the handler repeats, takes or waits.
LEMMA HandOutStep ==
  ASSUME BrokerAssumption, BrokerTypes, ExchangeInv, NEW c \in Calls, NEW current,
         Settles(current), call[c].at # "free", open, HandOut(c, current),
         UNCHANGED <<open, epoch, orphans, crowded, worker, inferred, givenUp>>,
         worker.call = c /\ current \in Requests => inferred[current] = 0,
         \A r \in Requests : \A a \in Answers : replies'[r] = a => Said(r, a)
  PROVE  ExchangeInv'
  <1>1. CASE current # None
    <2>1. current = active /\ active \in Requests
      BY <1>1 DEF BrokerTypes, TypeOK, Settles
    <2>2. UNCHANGED <<queue, active>> /\ Respond(c, active)
      BY <1>1, <2>1 DEF HandOut
    <2> QED BY <1>1, <2>1, <2>2, RepeatRequest
  <1>2. CASE current = None /\ queue # <<>>
    <2>1. active' = Head(queue) /\ queue' = Tail(queue) /\ Respond(c, Head(queue))
      BY <1>2 DEF HandOut
    <2> QED BY <1>2, <2>1, TakeRequest
  <1>3. CASE current = None /\ queue = <<>>
    <2>1. Poll(c) /\ UNCHANGED queue /\ active' = current /\ current \notin Requests
      BY <1>3 DEF HandOut, BrokerAssumption
    <2> QED BY <1>3, <2>1, QuietHandler
  <1> QED BY <1>1, <1>2, <1>3

\* The worker's poll carries the reply that ReplyComes promises.
LEMMA CarriesReply ==
  ASSUME BrokerAssumption, BrokerTypes, ExchangeInv, NEW c \in Calls, call[c].at = "sent",
         worker.call = c, open, active \in Requests, inferred[active] > 0
  PROVE  \E a \in Answers : call[c].reply = <<active, a>>
  <1>1. worker.at = "await" /\ call[c].reply = worker.reply
    BY DEF ExchangeInv, PollCurrent, BrokerAssumption
  <1> QED BY <1>1 DEF ExchangeInv, ReplyComes

\* A poll that settles nothing.
LEMMA NothingSettled == ASSUME UNCHANGED waiter PROVE Settles(active)
  BY DEF Settles

\* exchange.
LEMMA ExchangeStep ==
  ASSUME BrokerAssumption, BrokerTypes, ExchangeInv, NEW c \in Calls, Exchange(c)
  PROVE  ExchangeInv'
  <1>1. UNCHANGED <<open, epoch, orphans, crowded, worker, inferred, givenUp>> /\ call[c].at = "sent"
    BY DEF Exchange
  <1>2. call[c].reply \in Reply /\ inferred \in [Requests -> Nat] /\ active \in Requests \cup {None}
        /\ None \notin Requests
    BY DEF BrokerTypes, TypeOK, BrokerAssumption
  <1>3. CASE ~open
    <2>1. Respond(c, "stop") /\ UNCHANGED <<queue, replies, waiter, active>>
      BY <1>3 DEF Exchange
    <2> QED BY <1>1, <1>3, <2>1, NothingSettled, QuietHandler DEF Said
  <1>4. CASE open /\ call[c].reply = <<>>
    <2>1. HandOut(c, active) /\ UNCHANGED <<replies, waiter>>
      BY <1>4 DEF Exchange
    <2>2. worker.call = c /\ active \in Requests => inferred[active] = 0
      <3> SUFFICES ASSUME worker.call = c, active \in Requests, inferred[active] > 0
                   PROVE  FALSE
        BY <1>2
      <3>1. PICK a \in Answers : call[c].reply = <<active, a>>
        BY <1>1, <1>4, CarriesReply
      <3> QED BY <1>4, <3>1, ReplyNotEmpty
    <2> QED BY <1>1, <1>4, <2>1, <2>2, NothingSettled, HandOutStep DEF Said
  <1>5. CASE open /\ call[c].reply # <<>>
    <2>1. PICK r \in Requests, a \in Answers : call[c].reply = <<r, a>> /\ AcceptReply(c, r, a)
      BY <1>2, <1>5, ReplyParts DEF Exchange
    <2>2. Said(r, a) /\ inferred[r] > 0 /\ replies[r] \in {None, a}
      <3>1. Said(r, a)
        BY <2>1 DEF Said
      <3>2. replies[r] \in Answers \cup {None}
        BY DEF BrokerTypes, TypeOK
      <3> QED BY <3>1, <3>2 DEF ExchangeInv, OneAnswer, Said
    <2>3. replies' = [replies EXCEPT ![r] = a] /\ HandOut(c, AfterReply(r))
      BY <2>1, <2>2 DEF AcceptReply
    <2>4. \A q \in Requests : \A b \in Answers : replies'[q] = b => Said(q, b)
      BY <2>2, <2>3 DEF Said, BrokerTypes, TypeOK
    <2>5. r \notin Range(queue)
      BY <1>5, <2>2 DEF ExchangeInv, HeldBack, Untouched
    <2>6. AfterReply(r) \in {active, None} /\ AfterReply(r) # r
          /\ (AfterReply(r) # active => active = r)
      BY <1>2 DEF AfterReply
    <2>7. Settles(AfterReply(r))
      <3>1. CASE waiter[r] # "waiting"
        <4>1. UNCHANGED waiter
          BY <2>1, <2>2, <3>1 DEF AcceptReply
        <4>2. active # r
          BY <1>5, <3>1 DEF ExchangeInv, ExchangeExact
        <4> QED BY <2>6, <4>1, <4>2 DEF Settles
      <3>2. CASE waiter[r] = "waiting"
        <4>1. waiter' = [waiter EXCEPT ![r] = "answered"]
          BY <2>1, <2>2, <3>2 DEF AcceptReply
        <4>2. waiter'[r] = "answered" /\ \A q \in Requests : q # r => waiter'[q] = waiter[q]
          BY <4>1 DEF BrokerTypes, TypeOK
        <4> QED BY <2>5, <2>6, <3>2, <4>2 DEF Settles
      <3> QED BY <3>1, <3>2
    <2>8. worker.call = c /\ AfterReply(r) \in Requests => inferred[AfterReply(r)] = 0
      <3> SUFFICES ASSUME worker.call = c, AfterReply(r) \in Requests, inferred[AfterReply(r)] > 0
                   PROVE  FALSE
        BY <1>2
      <3>1. AfterReply(r) = active
        BY <1>2, <2>6
      <3>2. PICK b \in Answers : call[c].reply = <<active, b>>
        BY <1>1, <1>5, <3>1, CarriesReply
      <3> QED BY <2>1, <2>6, <3>1, <3>2
    <2> HIDE DEF AfterReply
    <2> QED BY <1>1, <1>5, <2>3, <2>4, <2>7, <2>8, HandOutStep
  <1> QED BY <1>3, <1>4, <1>5

\* A waiting handler gets a request, of the queue or of a closed exchange.
LEMMA GetStep ==
  ASSUME BrokerAssumption, BrokerTypes, ExchangeInv, NEW c \in Calls, GetRequest(c)
  PROVE  ExchangeInv'
  <1>1. UNCHANGED <<open, epoch, replies, waiter, crowded, worker, inferred, givenUp>>
        /\ call[c].at = "getting"
    BY DEF GetRequest
  <1>2. CASE open /\ call[c].epoch = epoch
    <2>1. queue # <<>> /\ active' = Head(queue) /\ queue' = Tail(queue) /\ Respond(c, Head(queue))
          /\ UNCHANGED orphans
      BY <1>2 DEF GetRequest
    <2> QED BY <1>1, <1>2, <2>1, NothingSettled, TakeRequest DEF Said
  <1>3. CASE ~(open /\ call[c].epoch = epoch)
    <2>1. PICK x \in orphans : orphans' = orphans \ {x} /\ Respond(c, x) /\ UNCHANGED <<active, queue>>
      BY <1>3 DEF GetRequest
    <2>2. x \in Requests /\ waiter[x] = "failed" /\ Untouched(x) /\ x # "malformed"
      BY DEF ExchangeInv, HeldBack, BrokerTypes, TypeOK, BrokerAssumption
    <2>3. PICK k \in CallType : /\ call' = [call EXCEPT ![c] = k] /\ k.reply = <<>>
                                /\ k.at = "responded" /\ k.response = x
      <3>1. epoch \in 0 .. MaxEpochs /\ x \in Response
        BY <2>2 DEF BrokerTypes, TypeOK, Response
      <3> QED BY <2>1, <3>1, ResponseForm DEF Respond
    <2>4. inferred[x] = 0
      BY <2>2 DEF Untouched
    <2>5. open /\ active \in Requests /\ inferred[active] > 0 =>
             ~(worker.at = "await" /\ worker.call = c)
      BY <1>1 DEF ExchangeInv, ReplyComes
    <2>6. PollCurrent' /\ NeverRejected' /\ ReplyComes'
      BY <1>1, <2>1, <2>2, <2>3, <2>4, <2>5, AnswerStep DEF ExchangeInv
    <2>7. open => x \notin Range(queue)
      BY <2>2 DEF ExchangeInv, ExchangeExact
    <2>8. HeldBack'
      BY <1>1, <2>1, <2>2, <2>3, <2>7, HeldBackKept DEF ExchangeInv
    <2>9. OneAnswer'
      BY <1>1, <2>3, SaidKept, AnswersKept DEF ExchangeInv, Said
    <2>10. ExchangeExact'
      BY <1>1, <2>1 DEF ExchangeInv, ExchangeExact, Outstanding
    <2>11. KeptInv'
      <3>1. OnePoll'
        BY <1>1, <2>3, OnePollKept DEF ExchangeInv, KeptInv
      <3> QED BY <1>1, <2>1, <3>1 DEF ExchangeInv, KeptInv, RequestKept, Outstanding
    <2> QED BY <1>1, <2>6, <2>8, <2>9, <2>10, <2>11 DEF ExchangeInv
  <1> QED BY <1>2, <1>3

\* wait_seconds have passed.
LEMMA WaitOverStep ==
  ASSUME BrokerAssumption, BrokerTypes, ExchangeInv, NEW c \in Calls, WaitOver(c)
  PROVE  ExchangeInv'
  <1>1. /\ UNCHANGED <<open, epoch, queue, replies, waiter, active, orphans, crowded, worker, inferred, givenUp>>
        /\ Respond(c, "wait") /\ call[c].at = "getting"
    BY DEF WaitOver, broker
  <1>2. open /\ active \in Requests /\ inferred[active] > 0 =>
           ~(worker.at = "await" /\ worker.call = c)
    BY <1>1 DEF ExchangeInv, ReplyComes
  <1> QED BY <1>1, <1>2, NothingSettled, QuietHandler DEF Said

-----------------------------------------------------------------------------
(* The lease, the episode and the worker.                                  *)

\* register starts with nothing handed out and nobody waiting.
LEMMA RegisterStep ==
  ASSUME BrokerAssumption, BrokerTypes, ExchangeInv, Register
  PROVE  ExchangeInv'
  <1>1. /\ ~open /\ open' = TRUE /\ queue' = <<>> /\ active' = None
        /\ replies' = [r \in Requests |-> None]
        /\ UNCHANGED <<waiter, orphans, call, worker, inferred, givenUp>>
    BY DEF Register
  <1>2. None \notin Requests \cup Answers /\ Range(queue') = {}
    BY <1>1 DEF BrokerAssumption, Range
  <1>3. ExchangeExact' /\ KeptInv'
    <2>1. Outstanding = {} /\ Outstanding' = {}
      BY <1>1 DEF ExchangeInv, ExchangeExact, Outstanding
    <2>2. OnePoll'
      BY <1>1 DEF ExchangeInv, KeptInv, OnePoll
    <2> QED BY <1>1, <1>2, <2>1, <2>2 DEF ExchangeExact, KeptInv, RequestKept
  <1>4. HeldBack'
    <2>1. \A r \in Requests : r \notin Range(queue')
      BY <1>2
    <2> QED BY <1>1, <2>1 DEF ExchangeInv, HeldBack, Untouched
  <1>5. OneAnswer'
    <2>1. \A r \in Requests : \A a \in Answers : Said(r, a)' => Said(r, a)
      BY <1>1, <1>2 DEF Said
    <2> QED BY <1>1, <2>1, AnswersKept DEF ExchangeInv
  <1>6. ReplyComes'
    BY <1>1, <1>2 DEF ReplyComes
  <1>7. PollCurrent' /\ NeverRejected' /\ \A r \in Requests : inferred'[r] <= 1
    BY <1>1 DEF ExchangeInv, PollCurrent, NeverRejected
  <1> QED BY <1>3, <1>4, <1>5, <1>6, <1>7 DEF ExchangeInv

\* close fails the request the episode waits for.
LEMMA CloseStep ==
  ASSUME BrokerAssumption, BrokerTypes, ExchangeInv, Close
  PROVE  ExchangeInv'
  <1>1. /\ open /\ open' = FALSE /\ orphans' = orphans \cup Range(queue)
        /\ waiter' = [r \in Requests |-> IF waiter[r] = "waiting" THEN "failed" ELSE waiter[r]]
        /\ UNCHANGED <<replies, call, worker, inferred, givenUp>>
    BY DEF Close
  <1>2. \A r \in Range(queue) : r \in Requests /\ waiter[r] = "waiting"
    BY <1>1 DEF ExchangeInv, ExchangeExact, BrokerTypes, TypeOK, Range
  <1>3. ExchangeExact' /\ KeptInv'
    <2>1. Outstanding' = {}
      BY <1>1 DEF Outstanding
    <2>2. OnePoll'
      BY <1>1 DEF ExchangeInv, KeptInv, OnePoll
    <2> QED BY <1>1, <2>1, <2>2 DEF ExchangeExact, KeptInv
  <1>4. HeldBack'
    <2>1. \A r \in orphans : r \in Requests /\ waiter[r] = "failed"
      BY DEF ExchangeInv, HeldBack, BrokerTypes, TypeOK
    <2>2. \A r \in orphans' : waiter'[r] = "failed"
      BY <1>1, <1>2, <2>1
    <2>3. ASSUME NEW r \in Requests, waiter'[r] = "unused" \/ r \in orphans' PROVE Untouched(r)'
      <3>1. Untouched(r)
        BY <1>1, <1>2, <2>3 DEF ExchangeInv, HeldBack
      <3> QED BY <1>1, <3>1 DEF Untouched
    <2> QED BY <1>1, <2>2, <2>3 DEF HeldBack
  <1>5. OneAnswer'
    BY <1>1, AnswersKept DEF ExchangeInv, Said
  <1>6. ReplyComes'
    BY <1>1 DEF ReplyComes
  <1>7. PollCurrent' /\ NeverRejected' /\ \A r \in Requests : inferred'[r] <= 1
    BY <1>1 DEF ExchangeInv, PollCurrent, NeverRejected
  <1> QED BY <1>3, <1>4, <1>5, <1>6, <1>7 DEF ExchangeInv

\* A queue with one request more.
LEMMA AppendRange ==
  ASSUME NEW q \in Seq(Requests), NEW r \in Requests
  PROVE  /\ Range(Append(q, r)) = Range(q) \cup {r}
         /\ (\A i, j \in 1 .. Len(q) : q[i] = q[j] => i = j) /\ r \notin Range(q) =>
               \A i, j \in 1 .. Len(Append(q, r)) : Append(q, r)[i] = Append(q, r)[j] => i = j
  <1> DEFINE p == Append(q, r)
  <1>1. /\ Len(q) \in Nat /\ DOMAIN q = 1 .. Len(q)
        /\ Len(p) = Len(q) + 1 /\ DOMAIN p = 1 .. Len(q) + 1
        /\ p[Len(q) + 1] = r /\ \A i \in 1 .. Len(q) : p[i] = q[i]
    OBVIOUS
  <1> HIDE DEF p
  <1>2. \A i \in 1 .. Len(q) + 1 : i \in 1 .. Len(q) \/ i = Len(q) + 1
    BY <1>1
  <1>3. Range(p) = Range(q) \cup {r}
    BY <1>1, <1>2 DEF Range
  <1>4. ASSUME \A i, j \in 1 .. Len(q) : q[i] = q[j] => i = j, r \notin Range(q),
               NEW i \in 1 .. Len(p), NEW j \in 1 .. Len(p), p[i] = p[j]
        PROVE  i = j
    <2>1. \A k \in 1 .. Len(q) : p[k] # r
      BY <1>1, <1>4 DEF Range
    <2> QED BY <1>1, <1>2, <1>4, <2>1
  <1> QED BY <1>3, <1>4 DEF p

\* The episode sends a request, whether or not it waits for others.
LEMMA RequestStep ==
  ASSUME BrokerAssumption, BrokerTypes, ExchangeInv, NEW r \in Requests, Request(r)
  PROVE  ExchangeInv'
  <1>1. /\ open /\ waiter[r] = "unused" /\ crowded' = (crowded \/ Outstanding # {})
        /\ waiter' = [waiter EXCEPT ![r] = "waiting"] /\ queue' = Append(queue, r)
        /\ UNCHANGED <<open, epoch, replies, active, orphans, call, worker, inferred, givenUp>>
    BY DEF Request
  <1>2. /\ waiter'[r] = "waiting" /\ \A q \in Requests : q # r => waiter'[q] = waiter[q]
        /\ queue \in Seq(Requests) /\ Range(queue) \subseteq Requests
    BY <1>1 DEF BrokerTypes, TypeOK, Range
  <1>3. /\ r \notin Range(queue) /\ r # active /\ Range(queue') = Range(queue) \cup {r}
        /\ \A i, j \in 1 .. Len(queue') : queue'[i] = queue'[j] => i = j
        /\ Outstanding' = Outstanding \cup {r}
    <2>1. r \notin Range(queue) /\ r # active
      BY <1>1 DEF ExchangeInv, ExchangeExact
    <2>2. Outstanding' = Outstanding \cup {r}
      BY <1>2 DEF Outstanding
    <2> QED BY <1>1, <1>2, <2>1, <2>2, AppendRange DEF ExchangeInv, ExchangeExact
  <1>4. ExchangeExact' /\ KeptInv'
    <2>1. ExchangeExact'
      BY <1>1, <1>2, <1>3 DEF ExchangeInv, ExchangeExact
    <2>2. ~crowded' => \A p, q \in Outstanding' : p = q
      BY <1>1, <1>3
    <2>3. RequestKept'
      BY <1>1, <1>3 DEF ExchangeInv, KeptInv, RequestKept
    <2>4. OnePoll'
      BY <1>1 DEF ExchangeInv, KeptInv, OnePoll
    <2> QED BY <2>1, <2>2, <2>3, <2>4 DEF KeptInv
  <1>5. HeldBack'
    <2>1. \A q \in orphans : q \in Requests /\ q # r
      BY <1>1 DEF ExchangeInv, HeldBack, BrokerTypes, TypeOK
    <2>2. \A q \in orphans' : waiter'[q] = "failed"
      BY <1>1, <1>2, <2>1 DEF ExchangeInv, HeldBack
    <2>3. ASSUME NEW q \in Requests, waiter'[q] = "unused" \/ q \in orphans' \/ q \in Range(queue')
          PROVE  Untouched(q)'
      <3>1. waiter[q] = "unused" \/ q \in orphans \/ q \in Range(queue)
        BY <1>1, <1>2, <1>3, <2>3
      <3>2. Untouched(q)
        BY <1>1, <3>1 DEF ExchangeInv, HeldBack
      <3> QED BY <1>1, <3>2 DEF Untouched
    <2> QED BY <2>2, <2>3 DEF HeldBack
  <1>6. OneAnswer'
    BY <1>1, AnswersKept DEF ExchangeInv, Said
  <1>7. ReplyComes'
    BY <1>1 DEF ExchangeInv, ReplyComes
  <1>8. PollCurrent' /\ NeverRejected' /\ \A q \in Requests : inferred'[q] <= 1
    BY <1>1 DEF ExchangeInv, PollCurrent, NeverRejected
  <1> QED BY <1>4, <1>5, <1>6, <1>7, <1>8 DEF ExchangeInv

\* Steps of the worker that leave the broker alone keep the broker's parts, if
\* they run nothing and take up nothing that is held back.
LEMMA WorkerKeeps ==
  ASSUME ExchangeInv, UNCHANGED <<open, queue, replies, waiter, active, orphans, crowded, inferred>>,
         givenUp \in Nat, givenUp' \in {givenUp, givenUp + 1}, OnePoll',
         \A r \in Requests : Untouched(r) => Untouched(r)',
         \A r \in Requests : \A a \in Answers : Said(r, a)' => Said(r, a)
  PROVE  ExchangeExact' /\ KeptInv' /\ HeldBack' /\ OneAnswer' /\ \A r \in Requests : inferred'[r] <= 1
  <1>1. ExchangeExact'
    BY DEF ExchangeInv, ExchangeExact, Outstanding
  <1>2. HeldBack'
    BY DEF ExchangeInv, HeldBack
  <1>3. OneAnswer'
    BY AnswersKept DEF ExchangeInv
  <1>4. KeptInv'
    BY DEF ExchangeInv, KeptInv, RequestKept, Outstanding
  <1> QED BY <1>1, <1>2, <1>3, <1>4 DEF ExchangeInv

\* The worker sends, gives up, drops or stops.
LEMMA WorkerQuiet ==
  ASSUME BrokerAssumption, BrokerTypes, ExchangeInv,
         Cancel \/ GiveUp \/ \E c \in Calls : Send(c) \/ Discard(c)
  PROVE  ExchangeInv'
  <1>0. /\ UNCHANGED <<open, epoch, queue, replies, waiter, active, orphans, crowded, inferred>>
        /\ givenUp \in Nat /\ givenUp' \in {givenUp, givenUp + 1}
    <2>1. givenUp \in Nat
      BY DEF BrokerTypes, TypeOK, BrokerAssumption
    <2>2. UNCHANGED broker /\ UNCHANGED inferred
      BY DEF Cancel, GiveUp, Send, Discard
    <2>3. givenUp' \in {givenUp, givenUp + 1}
      BY DEF Cancel, GiveUp, Send, Discard
    <2> QED BY <2>1, <2>2, <2>3 DEF broker
  <1>1. /\ None \notin Requests /\ "wait" \notin Requests
        /\ Free.response = "wait" /\ Free.reply = <<>> /\ Free.at = "free" /\ None \notin Calls
    BY DEF BrokerAssumption, Free
  <1>2. CASE Cancel
    <2>1. UNCHANGED call /\ worker' = [at |-> "ended", reply |-> <<>>, request |-> None, call |-> None]
      BY <1>2 DEF Cancel
    <2>2. \A r \in Requests : Untouched(r) => Untouched(r)'
      BY <1>0, <1>1, <2>1 DEF Untouched
    <2>3. \A r \in Requests : \A a \in Answers : Said(r, a)' => Said(r, a)
      BY <1>0, <2>1, ReplyNotEmpty DEF Said
    <2>4. PollCurrent' /\ ReplyComes' /\ NeverRejected'
      BY <2>1 DEF ExchangeInv, PollCurrent, ReplyComes, NeverRejected
    <2>5. OnePoll'
      BY <1>0, <1>1, <1>2 DEF Cancel, ExchangeInv, KeptInv, OnePoll, PollCurrent
    <2> QED BY <1>0, <2>2, <2>3, <2>4, <2>5, WorkerKeeps DEF ExchangeInv
  <1>3. CASE GiveUp
    <2>1. /\ UNCHANGED call /\ worker.at = "await" /\ worker'.at = "send" /\ worker'.call = None
          /\ worker'.reply = worker.reply /\ worker'.request = worker.request
      BY <1>3 DEF GiveUp, BrokerTypes, TypeOK
    <2>2. \A r \in Requests : Untouched(r) => Untouched(r)'
      BY <1>0, <2>1 DEF Untouched
    <2>3. \A r \in Requests : \A a \in Answers : Said(r, a)' => Said(r, a)
      BY <1>0, <2>1 DEF Said
    <2>4. PollCurrent' /\ ReplyComes' /\ NeverRejected'
      BY <1>0, <2>1 DEF ExchangeInv, PollCurrent, ReplyComes, NeverRejected
    <2>5. OnePoll'
      BY <1>0, <1>3 DEF GiveUp, OnePoll
    <2> QED BY <1>0, <2>2, <2>3, <2>4, <2>5, WorkerKeeps DEF ExchangeInv
  <1>4. ASSUME NEW c \in Calls, Send(c) PROVE ExchangeInv'
    <2>1. /\ worker.at = "send" /\ worker'.at = "await" /\ worker'.call = c
          /\ worker'.reply = worker.reply /\ worker'.request = worker.request
          /\ call'[c].at = "sent" /\ call'[c].reply = worker.reply /\ call'[c].response = "wait"
          /\ \A d \in Calls : d # c => call'[d] = call[d]
      BY <1>1, <1>4 DEF Send, BrokerTypes, TypeOK, Free
    <2>2. \A r \in Requests : Untouched(r) => Untouched(r)'
      BY <1>0, <1>1, <2>1 DEF Untouched
    <2>3. \A r \in Requests : \A a \in Answers : Said(r, a)' => Said(r, a)
      BY <1>0, <2>1 DEF Said
    <2>4. PollCurrent'
      BY <1>1, <2>1 DEF PollCurrent
    <2>5. ReplyComes'
      BY <1>0, <2>1 DEF ExchangeInv, ReplyComes
    <2>6. NeverRejected'
      BY <2>1 DEF ExchangeInv, NeverRejected
    <2>7. OnePoll'
      BY <1>0, <1>1, <1>4, <2>1 DEF Send, ExchangeInv, KeptInv, OnePoll, PollCurrent
    <2> QED BY <1>0, <2>2, <2>3, <2>4, <2>5, <2>6, <2>7, WorkerKeeps DEF ExchangeInv
  <1>5. ASSUME NEW c \in Calls, Discard(c) PROVE ExchangeInv'
    <2>1. /\ UNCHANGED worker /\ worker.call # c /\ call'[c] = Free
          /\ \A d \in Calls : d # c => call'[d] = call[d]
      BY <1>5 DEF Discard, BrokerTypes, TypeOK
    <2>2. \A r \in Requests : Untouched(r) => Untouched(r)'
      BY <1>0, <1>1, <2>1 DEF Untouched
    <2>3. \A r \in Requests : \A a \in Answers : Said(r, a)' => Said(r, a)
      BY <1>0, <1>1, <2>1, ReplyNotEmpty DEF Said
    <2>4. PollCurrent'
      BY <1>0, <2>1 DEF ExchangeInv, PollCurrent
    <2>5. ReplyComes'
      BY <1>0, <2>1 DEF ExchangeInv, ReplyComes, PollCurrent
    <2>6. NeverRejected'
      BY <1>1, <2>1 DEF ExchangeInv, NeverRejected
    <2>7. OnePoll'
      BY <1>0, <1>1, <1>5, <2>1 DEF Discard, ExchangeInv, KeptInv, OnePoll
    <2> QED BY <1>0, <2>2, <2>3, <2>4, <2>5, <2>6, <2>7, WorkerKeeps DEF ExchangeInv
  <1> QED BY <1>2, <1>3, <1>4, <1>5

\* The worker takes a request that it has not run.
LEMMA DeliverStep ==
  ASSUME BrokerAssumption, BrokerTypes, ExchangeInv, NEW c \in Calls, Deliver(c)
  PROVE  ExchangeInv'
  <1>0. UNCHANGED <<open, epoch, queue, replies, waiter, active, orphans, crowded, inferred, givenUp>>
        /\ givenUp \in Nat
    BY DEF Deliver, broker, BrokerTypes, TypeOK, BrokerAssumption
  <1>1. /\ None \notin Requests /\ {"wait", "stop", "malformed"} \cap Requests = {}
        /\ Free.response = "wait" /\ Free.reply = <<>> /\ Free.at = "free"
    BY DEF BrokerAssumption, Free
  <1>2. /\ worker.at = "await" /\ worker.call = c /\ call[c].at = "responded"
        /\ call'[c] = Free /\ \A d \in Calls : d # c => call'[d] = call[d]
    BY DEF Deliver, BrokerTypes, TypeOK
  <1>3. call[c].response \in Requests \cup {"wait", "stop"}
    BY DEF ExchangeInv, NeverRejected, BrokerTypes, TypeOK, Response
  <1>4. /\ worker'.reply = <<>> /\ worker'.call = None
        /\ worker'.request = IF call[c].response \in Requests THEN call[c].response ELSE None
        /\ worker'.at \in {"local", "send", "ended"}
        /\ worker'.at = "local" => call[c].response \in Requests
    BY <1>1, <1>3 DEF Deliver
  <1>5. \A r \in Requests : Untouched(r) => Untouched(r)'
    BY <1>0, <1>1, <1>2, <1>4 DEF Untouched
  <1>6. \A r \in Requests : \A a \in Answers : Said(r, a)' => Said(r, a)
    <2>1. UNCHANGED replies /\ worker'.reply = <<>>
      BY <1>0, <1>4
    <2>2. \A d \in Calls : call'[d].reply \in {<<>>, call[d].reply}
      BY <1>1, <1>2
    <2> QED BY <2>1, <2>2, ReplyNotEmpty DEF Said
  <1>7. PollCurrent'
    <2>1. call[c].response \in Requests => inferred[call[c].response] = 0
      BY <1>2 DEF ExchangeInv, PollCurrent
    <2> QED BY <1>0, <1>4, <2>1 DEF PollCurrent
  <1>8. ReplyComes'
    BY <1>0, <1>2 DEF ExchangeInv, ReplyComes
  <1>9. NeverRejected'
    BY <1>1, <1>2, <1>4 DEF ExchangeInv, NeverRejected
  <1>10. OnePoll'
    BY <1>0, <1>1, <1>2 DEF ExchangeInv, KeptInv, OnePoll
  <1> QED BY <1>0, <1>5, <1>6, <1>7, <1>8, <1>9, <1>10, WorkerKeeps DEF ExchangeInv

\* The worker runs it: the first and only answer to the request.
LEMMA InferStep ==
  ASSUME BrokerAssumption, BrokerTypes, ExchangeInv, NEW a \in Answers, Infer(a)
  PROVE  ExchangeInv'
  <1>0. PICK x \in Requests : x = worker.request
    BY DEF Infer, BrokerTypes
  <1>1. /\ worker.at = "local" /\ inferred[x] = 0 /\ None \notin Requests
        /\ inferred \in [Requests -> Nat]
    BY <1>0 DEF Infer, BrokerTypes, TypeOK, ExchangeInv, PollCurrent, BrokerAssumption
  <1>2. /\ inferred' = [inferred EXCEPT ![x] = 1]
        /\ worker'.at = "send" /\ worker'.reply = <<x, a>> /\ worker'.request = None
        /\ worker'.call = worker.call
        /\ UNCHANGED <<open, epoch, queue, replies, waiter, active, orphans, crowded, call, givenUp>>
    BY <1>0, <1>1 DEF Infer, BrokerTypes, TypeOK, broker
  <1>3. ~Untouched(x)
    BY <1>0 DEF Untouched
  <1>4. inferred'[x] = 1 /\ \A r \in Requests : r # x => inferred'[r] = inferred[r]
    BY <1>1, <1>2
  <1>5. ExchangeExact' /\ KeptInv'
    <2>1. ExchangeExact'
      BY <1>2 DEF ExchangeInv, ExchangeExact, Outstanding
    <2>2. KeptInv'
      BY <1>2 DEF ExchangeInv, KeptInv, RequestKept, OnePoll, Outstanding
    <2> QED BY <2>1, <2>2
  <1>6. HeldBack'
    <2>1. ASSUME NEW r \in Requests, Untouched(r) PROVE Untouched(r)'
      <3>1. r # x
        BY <1>3, <2>1
      <3> QED BY <1>1, <1>2, <1>4, <2>1, <3>1 DEF Untouched
    <2> QED BY <1>2, <2>1 DEF ExchangeInv, HeldBack
  <1>7. OneAnswer'
    <2> SUFFICES ASSUME NEW r \in Requests, NEW b \in Answers, NEW d \in Answers, Said(r, b)'
                 PROVE  inferred'[r] > 0 /\ (Said(r, d)' => b = d)
      BY DEF OneAnswer
    <2>1. CASE r = x
      <3>1. \A e \in Answers : ~Said(x, e)
        BY <1>1 DEF ExchangeInv, OneAnswer
      <3>2. \A e \in Answers : Said(x, e)' => e = a
        BY <1>2, <3>1 DEF Said
      <3> QED BY <1>4, <2>1, <3>2
    <2>2. CASE r # x
      <3>1. \A e \in Answers : Said(r, e)' => Said(r, e)
        BY <1>2, <2>2 DEF Said
      <3> QED BY <1>4, <2>2, <3>1 DEF ExchangeInv, OneAnswer
    <2> QED BY <2>1, <2>2
  <1>8. PollCurrent'
    BY <1>1, <1>2 DEF ExchangeInv, PollCurrent
  <1>9. ReplyComes'
    <2> SUFFICES ASSUME open, active \in Requests, inferred'[active] > 0
                 PROVE  \E b \in Answers : worker'.reply = <<active, b>>
      BY <1>2 DEF ReplyComes
    <2>1. active = x
      BY <1>1, <1>4 DEF ExchangeInv, ReplyComes
    <2> QED BY <1>2, <2>1
  <1>10. NeverRejected' /\ \A r \in Requests : inferred'[r] <= 1
    BY <1>2, <1>4 DEF ExchangeInv, NeverRejected
  <1> QED BY <1>5, <1>6, <1>7, <1>8, <1>9, <1>10 DEF ExchangeInv

-----------------------------------------------------------------------------
(* Safety.                                                                 *)

\* Every step keeps the invariant.
LEMMA ExchangeInvStep ==
  ASSUME BrokerAssumption, BrokerTypes, ExchangeInv, [Next]_vars
  PROVE  ExchangeInv'
  <1>1. CASE UNCHANGED vars
    BY <1>1 DEF vars, broker, ExchangeInv, ExchangeExact, KeptInv, RequestKept, OnePoll, Outstanding, HeldBack,
                Untouched, OneAnswer, Said, PollCurrent, ReplyComes, NeverRejected
  <1>2. CASE Cancel \/ GiveUp \/ \E c \in Calls : Send(c) \/ Discard(c)
    BY <1>2, WorkerQuiet
  <1> QED BY <1>1, <1>2, RegisterStep, CloseStep, RequestStep, InferStep, ExchangeStep, GetStep,
             WaitOverStep, DeliverStep DEF Next, ServerStep, WorkerStep

\* At first nothing is asked and nothing is under way.
LEMMA InitExchange == ASSUME BrokerAssumption, Init PROVE ExchangeInv
  <1>1. /\ Outstanding = {} /\ None \notin Requests \cup Answers
        /\ Free.response = "wait" /\ Free.reply = <<>> /\ "wait" \notin Requests
    BY DEF Init, Outstanding, BrokerAssumption, Free
  <1>2. \A r \in Requests : Untouched(r)
    BY <1>1 DEF Init, Untouched
  <1>3. \A r \in Requests : \A a \in Answers : ~Said(r, a)
    BY <1>1, ReplyNotEmpty DEF Init, Said
  <1>4. OnePoll /\ KeptInv
    <2>1. \A c \in Calls : call[c].at = "free"
      BY DEF Init, Free
    <2> QED BY <1>1, <2>1 DEF Init, KeptInv, OnePoll
  <1> QED BY <1>1, <1>2, <1>3, <1>4 DEF Init, ExchangeInv, ExchangeExact, HeldBack, OneAnswer, PollCurrent,
             ReplyComes, NeverRejected

\* For any number of requests at once the exchange keeps its types and has no
\* request run twice, so the worker is never rejected, whatever polls are lost,
\* repeated or abandoned and however often the lease is closed and registered
\* again; and it loses no request unless both a poll was given up and two
\* requests waited at once.
THEOREM InferenceIsSafe ==
  ASSUME BrokerAssumption
  PROVE  Spec => []InferenceSafe
  <1>1. Init => ExchangeInv
    BY InitExchange
  <1>2. BrokerTypes /\ ExchangeInv /\ [Next]_vars => ExchangeInv'
    BY ExchangeInvStep
  <1>3. ASSUME BrokerTypes, ExchangeInv PROVE InferenceSafe
    <2>1. RequestKept
      BY <1>3 DEF ExchangeInv, ExchangeExact, KeptInv, RequestKept
    <2>2. InferredOnce
      BY <1>3 DEF ExchangeInv, InferredOnce, NeverRejected
    <2> QED BY <1>3, <2>1, <2>2 DEF InferenceSafe, BrokerTypes
  <1> QED BY <1>1, <1>2, <1>3, BrokerTypesHold, PTL DEF Spec

-----------------------------------------------------------------------------
(* Episodes: the invariant.                                                *)

\* Rows are only ever extended from now, so a renewal never shortens a lease.
RowsOK == \A l \in Lease : row[l].expires <= now + Duration

\* Granted(l): the lease has a row.
Granted(l) == l \in Lease /\ row[l].state # "none"

\* A request is known once the worker has sent it, and refers to a lease that
\* was granted.
RequestsOK ==
    /\ \A i \in 1 .. MaxRequests : request[i].state = "leased" => Granted(request[i].lease)
    /\ \A i \in slot.id + 1 .. MaxRequests : request[i].state = "unknown"

\* A poll works for a request that was sent; what it offers is that request's
\* lease, and what it answers a lease that was granted, for no longer than it
\* lasts.
PollOK(h) ==
    /\ handler[h].at \in {"entry", "loop", "offered", "closing"} => handler[h].id \in 1 .. slot.id
    /\ handler[h].at = "offered" => /\ request[handler[h].id].state = "leased"
                                    /\ handler[h].lease = request[handler[h].id].lease
    /\ handler[h].at = "answered" /\ handler[h].answer = "lease"
         => Granted(handler[h].lease) /\ handler[h].expires <= row[handler[h].lease].expires

HandlersOK == \A h \in Handlers : PollOK(h)

\* The poll that the slot waits for works for its request, and nobody renews
\* what it has been offered before it learns of it.
Awaited(h) ==
    /\ handler[h].at # "free"
    /\ handler[h].at # "answered" => handler[h].id = slot.id
    /\ handler[h].at = "offered" => Associates(h)
    /\ handler[h].at = "answered" => handler[h].answer # "conflict"

AwaitOK == slot.at = "await" => slot.handler \in Handlers /\ Awaited(slot.handler)

\* A heartbeat is about a lease that was granted, and never about the one the
\* slot is being offered; what it renewed lasts at least as long as it says.
BeatOK ==
    beat.at # "none" =>
        /\ Granted(beat.lease)
        /\ beat.started <= now
        /\ beat.at = "answered" => beat.started <= beat.stamp /\ beat.stamp <= now
        /\ beat.at # "sent" /\ beat.answer = "renewed" => beat.expires <= row[beat.lease].expires
        /\ slot.at \in {"await", "repeat"} /\ request[slot.id].state = "leased"
             => request[slot.id].lease # beat.lease

\* The slot serves a lease that was granted, for no longer than it lasts.
SlotOK ==
    /\ slot.at # "dead"
    /\ slot.at \in {"await", "repeat"} => slot.id \in 1 .. MaxRequests
    /\ slot.at = "serve" => Granted(slot.lease) /\ slot.expires <= row[slot.lease].expires

EpisodesInv ==
    /\ EpisodesTypeOK
    /\ EpisodesTracked
    /\ RowsOK
    /\ RequestsOK
    /\ HandlersOK
    /\ AwaitOK
    /\ BeatOK
    /\ SlotOK

-----------------------------------------------------------------------------
(* Types and frames.                                                       *)

\* The types of the records.
RowType == [state: {"none", "active", "expired", "completed", "failed"}, expires: Time]
HandlerType == [at: {"free", "entry", "loop", "offered", "closing", "answered"},
                id: 0 .. MaxRequests, lease: 0 .. Attempts, expires: Time,
                answer: {"retry", "no_work", "lease", "conflict"}]

\* What every step does to the rows: no lease is shortened or taken back.
RowsGrow ==
    \A l \in Lease : /\ row'[l].expires >= row[l].expires
                     /\ row[l].state # "none" => row'[l].state # "none"

\* Moments and leases are numbers.
LEMMA Numbers ==
  ASSUME EpisodesAssumption
  PROVE  /\ Time \subseteq Nat /\ Lease \subseteq Nat /\ 0 \in Time /\ Deadline \in Time
         /\ NoExpiry \notin Time /\ NoHandler \notin Handlers
         /\ \A l \in Lease : l \in 0 .. Attempts
         /\ 0 \in 0 .. Attempts /\ 0 \in 0 .. MaxRequests
         /\ MaxRequests \in Nat /\ Duration \in Nat /\ Deadline \in Nat
  BY DEF EpisodesAssumption, Time, Lease, NoExpiry, NoHandler

\* A lease that is granted or renewed now ends after its duration or at the
\* deadline.
LEMMA GrantedUntil ==
  ASSUME EpisodesAssumption, now \in Time
  PROVE  LET e == Min({now + Duration, Deadline})
         IN  e \in Time /\ e <= now + Duration /\ \A x \in Time : x <= now + Duration => x <= e
  <1> DEFINE e == Min({now + Duration, Deadline})
  <1>1. now + Duration \in Nat /\ Deadline \in Nat /\ now <= Deadline /\ now \in Nat /\ Duration \in Nat
    BY DEF EpisodesAssumption, Time
  <1>2. \E x \in {now + Duration, Deadline} : \A y \in {now + Duration, Deadline} : x <= y
    BY <1>1
  <1>3. e \in {now + Duration, Deadline} /\ \A y \in {now + Duration, Deadline} : e <= y
    BY <1>2 DEF Min
  <1> HIDE DEF e
  <1>4. e \in Time /\ e <= now + Duration /\ \A x \in Time : x <= now + Duration => x <= e
    BY <1>1, <1>3 DEF Time
  <1> QED BY <1>4 DEF e

\* The runner's copies stay below the rows.
LEMMA TrackedFrame ==
  ASSUME EpisodesAssumption, EpisodesTypeOK, EpisodesTypeOK', EpisodesTracked,
         RowsGrow, UNCHANGED runner
  PROVE  EpisodesTracked'
  <1>1. \A l \in Lease : row[l].expires \in Nat /\ row'[l].expires \in Nat
    BY Numbers DEF EpisodesTypeOK
  <1>2. \A l \in Lease : expiry[l] # NoExpiry => expiry[l] \in Nat
    BY Numbers DEF EpisodesTypeOK
  <1> QED BY <1>1, <1>2 DEF EpisodesTracked, RowsGrow, runner

\* Requests keep their leases.
LEMMA RequestsFrame ==
  ASSUME RequestsOK, RowsGrow, UNCHANGED request, slot'.id = slot.id
  PROVE  RequestsOK'
  BY DEF RequestsOK, RowsGrow, Granted

\* Polls that do nothing stay right.
LEMMA HandlersFrame ==
  ASSUME EpisodesAssumption, EpisodesTypeOK, EpisodesTypeOK', HandlersOK,
         RowsGrow, UNCHANGED <<handler, request>>, slot'.id >= slot.id
  PROVE  HandlersOK'
  <1>1. \A l \in Lease : row[l].expires \in Nat /\ row'[l].expires \in Nat
    BY Numbers DEF EpisodesTypeOK
  <1>2. \A h \in Handlers : handler[h].expires \in Nat /\ handler[h].id \in Nat
    <2>1. \A h \in Handlers : handler[h] \in HandlerType
      BY DEF EpisodesTypeOK, HandlerType
    <2> QED BY <2>1, Numbers DEF HandlerType
  <1>3. slot.id \in Nat /\ slot'.id \in Nat
    BY Numbers DEF EpisodesTypeOK
  <1>4. ASSUME NEW h \in Handlers, handler[h].at \in {"entry", "loop", "offered", "closing"}
        PROVE  handler[h].id \in 1 .. slot'.id
    BY <1>2, <1>3, <1>4 DEF HandlersOK, PollOK
  <1>5. ASSUME NEW h \in Handlers, handler[h].at = "answered", handler[h].answer = "lease"
        PROVE  Granted(handler[h].lease)' /\ handler[h].expires <= row'[handler[h].lease].expires
    <2>1. Granted(handler[h].lease) /\ handler[h].expires <= row[handler[h].lease].expires
      BY <1>5 DEF HandlersOK, PollOK
    <2> QED BY <1>1, <1>2, <2>1 DEF Granted, RowsGrow
  <1> QED BY <1>4, <1>5 DEF HandlersOK, PollOK, Granted

\* Heartbeats stay right while the slot does not come to wait for another
\* request.
LEMMA BeatFrame ==
  ASSUME EpisodesAssumption, EpisodesTypeOK, EpisodesTypeOK', BeatOK,
         RowsGrow, UNCHANGED <<beat, request>>, now' >= now,
         slot'.at \in {"await", "repeat"} => slot.at \in {"await", "repeat"} /\ slot'.id = slot.id
  PROVE  BeatOK'
  <1>1. \A l \in Lease : row[l].expires \in Nat /\ row'[l].expires \in Nat
    BY Numbers DEF EpisodesTypeOK
  <1>2. /\ beat.started \in Nat /\ beat.stamp \in Nat /\ beat.expires \in Nat
        /\ now \in Nat /\ now' \in Nat
    BY Numbers DEF EpisodesTypeOK
  <1> QED BY <1>1, <1>2 DEF BeatOK, Granted, RowsGrow

\* A slot that does nothing stays right.
LEMMA SlotFrame ==
  ASSUME EpisodesAssumption, EpisodesTypeOK, EpisodesTypeOK', SlotOK, RowsGrow, UNCHANGED slot
  PROVE  SlotOK'
  <1>1. \A l \in Lease : row[l].expires \in Nat /\ row'[l].expires \in Nat
    BY Numbers DEF EpisodesTypeOK
  <1>2. slot.expires \in Nat
    BY Numbers DEF EpisodesTypeOK
  <1> QED BY <1>1, <1>2 DEF SlotOK, Granted, RowsGrow

\* Steps that leave the expiry of every row alone.
LEMMA RowsSame ==
  ASSUME EpisodesAssumption, EpisodesTypeOK, EpisodesTypeOK', RowsOK, now' >= now,
         \A l \in Lease : row'[l].expires = row[l].expires
  PROVE  RowsOK'
  <1>1. \A l \in Lease : row[l].expires \in Nat
    BY Numbers DEF EpisodesTypeOK
  <1>2. now \in Nat /\ now' \in Nat /\ Duration \in Nat
    BY Numbers DEF EpisodesTypeOK
  <1> QED BY <1>1, <1>2 DEF RowsOK

\* A row changes its state and keeps its expiry, or nothing happens to it.
LEMMA RowState ==
  ASSUME EpisodesTypeOK, NEW l \in Lease, NEW st \in {"active", "expired", "completed", "failed"},
         row' = [row EXCEPT ![l].state = st] \/ row' = row
  PROVE  /\ row' \in [Lease -> RowType]
         /\ \A m \in Lease : /\ row'[m].expires = row[m].expires
                             /\ row[m].state # "none" => row'[m].state # "none"
  <1>1. row \in [Lease -> RowType]
    BY DEF EpisodesTypeOK, RowType
  <1>2. CASE row' = row
    BY <1>1, <1>2
  <1>3. CASE row' = [row EXCEPT ![l].state = st]
    <2>1. [row[l] EXCEPT !.state = st] \in RowType
      BY <1>1 DEF RowType
    <2>2. /\ row' \in [Lease -> RowType]
          /\ row'[l].state = st /\ row'[l].expires = row[l].expires
          /\ \A m \in Lease \ {l} : row'[m] = row[m]
      BY <1>1, <1>3, <2>1 DEF RowType
    <2> QED BY <2>2
  <1> QED BY <1>2, <1>3

-----------------------------------------------------------------------------
(* The central episode runner.                                             *)

\* A step of the runner: tasks, expiry times and broker change together, and
\* a row at most its state.
LEMMA RunnerFrame ==
  ASSUME EpisodesAssumption, EpisodesInv, UNCHANGED <<now, api, node, lost>>,
         row' \in [Lease -> RowType],
         \A m \in Lease : /\ row'[m].expires = row[m].expires
                          /\ row[m].state # "none" => row'[m].state # "none",
         episode' \in [Lease -> {"none", "new", "queued", "running", "storing", "failing", "cancelled"}],
         expiry' \in [Lease -> Time \cup {NoExpiry}], registered' \subseteq Lease,
         EpisodesTracked'
  PROVE  EpisodesInv'
  <1>1. UNCHANGED <<now, gate, flips, request, handler, slot, lead, beat, lost>>
    BY DEF api, node
  <1>2. EpisodesTypeOK'
    BY <1>1 DEF EpisodesInv, EpisodesTypeOK, RowType
  <1>3. RowsGrow /\ now' >= now
    <2>1. \A m \in Lease : row[m].expires \in Nat
      BY Numbers DEF EpisodesInv, EpisodesTypeOK
    <2>2. now \in Nat
      BY Numbers DEF EpisodesInv, EpisodesTypeOK
    <2> QED BY <1>1, <2>1, <2>2 DEF RowsGrow
  <1>4. slot'.id = slot.id /\ slot'.id >= slot.id
    <2>1. slot.id \in Nat
      BY Numbers DEF EpisodesInv, EpisodesTypeOK
    <2> QED BY <1>1, <2>1
  <1>5. RowsOK'
    BY <1>2, <1>3, RowsSame DEF EpisodesInv
  <1>6. RequestsOK' /\ HandlersOK' /\ BeatOK' /\ SlotOK'
    BY <1>1, <1>2, <1>3, <1>4, RequestsFrame, HandlersFrame, BeatFrame, SlotFrame DEF EpisodesInv
  <1>7. AwaitOK'
    <2>1. \A h \in Handlers : handler[h].at = "offered" => handler[h].lease \in Lease
      <3>1. ASSUME NEW h \in Handlers, handler[h].at = "offered" PROVE handler[h].lease \in Lease
        <4>1. handler[h].id \in 1 .. MaxRequests
          <5>1. handler[h].id \in 1 .. slot.id /\ slot.id \in 0 .. MaxRequests
            BY <3>1 DEF EpisodesInv, HandlersOK, PollOK, EpisodesTypeOK
          <5> QED BY <5>1, Numbers
        <4> QED BY <3>1, <4>1 DEF EpisodesInv, HandlersOK, PollOK, RequestsOK, Granted
      <3> QED BY <3>1
    <2> QED BY <1>1, <2>1 DEF EpisodesInv, AwaitOK, Awaited, Associates
  <1> QED BY <1>2, <1>5, <1>6, <1>7 DEF EpisodesInv

\* The task's end, its copy of the expiry and the broker's entry.
LEMMA EndedTracked ==
  ASSUME EpisodesAssumption, EpisodesInv, NEW l \in Lease, Ended(l),
         \A m \in Lease : row'[m].expires = row[m].expires
  PROVE  /\ episode' \in [Lease -> {"none", "new", "queued", "running", "storing", "failing", "cancelled"}]
         /\ expiry' \in [Lease -> Time \cup {NoExpiry}] /\ registered' \subseteq Lease
         /\ EpisodesTracked'
  BY DEF EpisodesInv, EpisodesTypeOK, EpisodesTracked, Ended

\* The task goes on.
LEMMA GoesOn ==
  ASSUME EpisodesAssumption, EpisodesInv, NEW l \in Lease,
         NEW e \in {"queued", "running", "storing", "failing"},
         episode[l] \in {"new", "queued", "running", "storing"},
         episode' = [episode EXCEPT ![l] = e],
         UNCHANGED <<now, api, row, expiry, registered, node, lost>>
  PROVE  EpisodesInv'
  <1>1. /\ episode' \in [Lease -> {"none", "new", "queued", "running", "storing", "failing", "cancelled"}]
        /\ expiry' \in [Lease -> Time \cup {NoExpiry}] /\ registered' \subseteq Lease
        /\ EpisodesTracked'
    BY DEF EpisodesInv, EpisodesTypeOK, EpisodesTracked
  <1>2. row' \in [Lease -> RowType]
    BY DEF EpisodesInv, EpisodesTypeOK, RowType
  <1> QED BY <1>1, <1>2, RunnerFrame

\* cancel leaves rows, tasks and broker in step.
LEMMA CancelTracked ==
  ASSUME EpisodesAssumption, EpisodesInv, NEW l \in Lease, CancelEpisode(l)
  PROVE  /\ row' \in [Lease -> RowType]
         /\ \A m \in Lease : /\ row'[m].expires = row[m].expires
                             /\ row[m].state # "none" => row'[m].state # "none"
         /\ episode' \in [Lease -> {"none", "new", "queued", "running", "storing", "failing", "cancelled"}]
         /\ expiry' \in [Lease -> Time \cup {NoExpiry}] /\ registered' \subseteq Lease
         /\ EpisodesTracked'
  <1>1. \/ row' = [row EXCEPT ![l].state = "completed"] \/ row' = [row EXCEPT ![l].state = "failed"]
        \/ row' = row
    BY DEF CancelEpisode
  <1>2. /\ row' \in [Lease -> RowType]
        /\ \A m \in Lease : /\ row'[m].expires = row[m].expires
                            /\ row[m].state # "none" => row'[m].state # "none"
    BY <1>1, RowState DEF EpisodesInv
  <1>3. /\ registered' = registered \ {l} /\ expiry' = expiry
        /\ \/ episode[l] = "none" /\ episode' = episode
           \/ episode' = [episode EXCEPT ![l] = "none"]
           \/ episode[l] # "none" /\ episode' = [episode EXCEPT ![l] = "cancelled"]
    BY DEF CancelEpisode
  <1>4. /\ episode' \in [Lease -> {"none", "new", "queued", "running", "storing", "failing", "cancelled"}]
        /\ expiry' \in [Lease -> Time \cup {NoExpiry}] /\ registered' \subseteq Lease
    BY <1>3 DEF EpisodesInv, EpisodesTypeOK
  <1>5. EpisodesTracked'
    BY <1>2, <1>3 DEF EpisodesInv, EpisodesTypeOK, EpisodesTracked
  <1> QED BY <1>2, <1>4, <1>5

\* Every step of a task, of its end and of the watchdog.
LEMMA EpisodeStepKeeps ==
  ASSUME EpisodesAssumption, EpisodesInv, NEW l \in Lease, EpisodeStep(l)
  PROVE  EpisodesInv'
  <1>1. CASE Enter(l)
    BY <1>1, GoesOn DEF Enter
  <1>2. CASE Run(l)
    BY <1>2, GoesOn DEF Run
  <1>3. CASE Finish(l)
    BY <1>3, GoesOn DEF Finish
  <1>4. CASE Store(l)
    <2>1. CASE Live(l)
      <3>1. row' = [row EXCEPT ![l].state = "completed"] /\ Ended(l) /\ UNCHANGED <<now, api, node, lost>>
        BY <1>4, <2>1 DEF Store
      <3>2. /\ row' \in [Lease -> RowType]
            /\ \A m \in Lease : /\ row'[m].expires = row[m].expires
                                /\ row[m].state # "none" => row'[m].state # "none"
        BY <3>1, RowState DEF EpisodesInv
      <3> QED BY <3>1, <3>2, EndedTracked, RunnerFrame
    <2>2. CASE ~Live(l)
      BY <1>4, <2>2, GoesOn DEF Store
    <2> QED BY <2>1, <2>2
  <1>5. CASE Fail(l)
    <2>1. /\ row' = [row EXCEPT ![l].state = "failed"] \/ row' = row
          /\ Ended(l) /\ UNCHANGED <<now, api, node, lost>>
      BY <1>5 DEF Fail
    <2>2. /\ row' \in [Lease -> RowType]
          /\ \A m \in Lease : /\ row'[m].expires = row[m].expires
                              /\ row[m].state # "none" => row'[m].state # "none"
      BY <2>1, RowState DEF EpisodesInv
    <2> QED BY <2>1, <2>2, EndedTracked, RunnerFrame
  <1>6. CASE Unwind(l)
    <2>1. Ended(l) /\ UNCHANGED <<now, api, row, node, lost>>
      BY <1>6 DEF Unwind
    <2>2. row' \in [Lease -> RowType]
      BY <2>1 DEF EpisodesInv, EpisodesTypeOK, RowType
    <2> QED BY <2>1, <2>2, EndedTracked, RunnerFrame
  <1>7. CASE Watch(l)
    <2>1. CancelEpisode(l) /\ UNCHANGED <<now, api, node, lost>>
      BY <1>7 DEF Watch
    <2> QED BY <2>1, CancelTracked, RunnerFrame
  <1> QED BY <1>1, <1>2, <1>3, <1>4, <1>5, <1>6, <1>7 DEF EpisodeStep

-----------------------------------------------------------------------------
(* The lease endpoint.                                                     *)

\* A poll that has an offer has one of a lease that was granted.
LEMMA OfferGranted ==
  ASSUME EpisodesAssumption, EpisodesInv, NEW h \in Handlers,
         handler[h].at \in {"entry", "loop", "offered", "closing"}
  PROVE  /\ handler[h].id \in 1 .. MaxRequests
         /\ request[handler[h].id].state = "leased" => Granted(request[handler[h].id].lease)
         /\ handler[h].at = "offered" => /\ Granted(handler[h].lease)
                                         /\ handler[h].lease = request[handler[h].id].lease
  <1>1. handler[h].id \in 1 .. slot.id /\ slot.id \in 0 .. MaxRequests
    BY DEF EpisodesInv, HandlersOK, PollOK, EpisodesTypeOK
  <1>2. handler[h].id \in 1 .. MaxRequests
    BY <1>1, Numbers
  <1> QED BY <1>2 DEF EpisodesInv, HandlersOK, PollOK, RequestsOK

\* A step of one poll: what it does to rows, requests and the runner keeps the
\* invariant if it does so for the poll itself.
LEMMA PollFrame ==
  ASSUME EpisodesAssumption, EpisodesInv, NEW h \in Handlers,
         UNCHANGED <<now, gate, flips, node, lost>>,
         row' \in [Lease -> RowType], RowsGrow, RowsOK',
         \A l \in Lease : row[l].state # "none" => row'[l].expires = row[l].expires,
         request' \in [1 .. MaxRequests -> [state: {"unknown", "pending", "leased", "no_work"},
                                            lease: 0 .. Attempts]],
         \A i \in 1 .. MaxRequests : request[i].state = "leased" => request'[i] = request[i],
         \A i \in 1 .. MaxRequests : request'[i].state = "leased" /\ request[i].state # "leased"
             => Granted(request[i].lease)' /\ row[request'[i].lease].state = "none",
         \A i \in slot.id + 1 .. MaxRequests : request'[i] = request[i],
         handler' \in [Handlers -> HandlerType],
         \A g \in Handlers \ {h} : handler'[g] = handler[g],
         episode' \in [Lease -> {"none", "new", "queued", "running", "storing", "failing", "cancelled"}],
         expiry' \in [Lease -> Time \cup {NoExpiry}], registered' \subseteq Lease,
         EpisodesTracked',
         PollOK(h)',
         slot.at = "await" /\ slot.handler = h => Awaited(h)'
  PROVE  EpisodesInv'
  <1>1. UNCHANGED <<now, gate, flips, slot, lead, beat, lost>>
    BY DEF node
  <1>2. EpisodesTypeOK'
    BY <1>1 DEF EpisodesInv, EpisodesTypeOK, RowType, HandlerType
  <1>3. \A l \in Lease : row[l].expires \in Nat /\ row'[l].expires \in Nat
    BY <1>2, Numbers DEF EpisodesInv, EpisodesTypeOK
  <1>4. RequestsOK'
    <2>1. ASSUME NEW i \in 1 .. MaxRequests, request'[i].state = "leased"
          PROVE  Granted(request[i].lease)'
      <3>1. CASE request[i].state = "leased"
        <4>1. Granted(request[i].lease) /\ request'[i] = request[i]
          BY <3>1 DEF EpisodesInv, RequestsOK
        <4> QED BY <4>1 DEF Granted, RowsGrow
      <3> QED BY <2>1, <3>1
    <2>2. ASSUME NEW i \in slot.id + 1 .. MaxRequests PROVE request'[i].state = "unknown"
      BY DEF EpisodesInv, RequestsOK
    <2> QED BY <1>1, <2>1, <2>2 DEF RequestsOK, Granted
  <1>5. HandlersOK'
    <2>1. ASSUME NEW g \in Handlers, g # h PROVE PollOK(g)'
      <3>1. handler'[g] = handler[g] /\ PollOK(g) /\ slot' = slot
        BY <1>1, <2>1 DEF EpisodesInv, HandlersOK
      <3>2. handler[g].expires \in Nat
        <4>1. handler[g] \in HandlerType
          BY DEF EpisodesInv, EpisodesTypeOK, HandlerType
        <4> QED BY <4>1, Numbers DEF HandlerType
      <3>3. handler[g].at = "offered" => request'[handler[g].id] = request[handler[g].id]
        BY <3>1, OfferGranted DEF PollOK
      <3>4. Granted(handler[g].lease) => Granted(handler[g].lease)'
        BY <3>1 DEF Granted, RowsGrow
      <3>5. Granted(handler[g].lease) /\ handler[g].expires <= row[handler[g].lease].expires
              => handler[g].expires <= row'[handler[g].lease].expires
        BY <1>3, <3>2 DEF Granted, RowsGrow
      <3> QED BY <3>1, <3>3, <3>4, <3>5 DEF PollOK
    <2> QED BY <2>1 DEF HandlersOK
  <1>6. AwaitOK'
    <2>1. SUFFICES ASSUME slot.at = "await" PROVE slot.handler \in Handlers /\ Awaited(slot.handler)'
      BY <1>1 DEF AwaitOK
    <2>2. slot.handler \in Handlers /\ Awaited(slot.handler)
      BY <2>1 DEF EpisodesInv, AwaitOK
    <2>3. CASE slot.handler = h
      <3>1. Awaited(h)'
        BY <2>1, <2>3
      <3> QED BY <1>1, <2>2, <2>3, <3>1 DEF Awaited, Associates
    <2>4. CASE slot.handler # h
      <3>1. handler'[slot.handler] = handler[slot.handler]
        BY <2>2, <2>4
      <3>2. handler[slot.handler].at = "offered" =>
              row'[handler[slot.handler].lease].expires = row[handler[slot.handler].lease].expires
        BY <2>2, OfferGranted DEF Granted
      <3> QED BY <1>1, <2>2, <3>1, <3>2 DEF Awaited, Associates
    <2> QED BY <2>3, <2>4
  <1>7. BeatOK'
    <2>1. SUFFICES ASSUME beat.at # "none" PROVE BeatOK'
      BY <1>1 DEF BeatOK
    <2>2. Granted(beat.lease) /\ Granted(beat.lease)' /\ beat' = beat /\ now' = now /\ slot' = slot
      BY <1>1, <2>1 DEF EpisodesInv, BeatOK, Granted, RowsGrow
    <2>3. beat.expires \in Nat
      BY Numbers DEF EpisodesInv, EpisodesTypeOK
    <2>4. beat.expires <= row[beat.lease].expires => beat.expires <= row'[beat.lease].expires
      BY <1>3, <2>2, <2>3 DEF Granted, RowsGrow
    <2>5. ASSUME slot.at \in {"await", "repeat"}, request'[slot.id].state = "leased"
          PROVE  request'[slot.id].lease # beat.lease
      <3>1. slot.id \in 1 .. MaxRequests
        BY <2>5 DEF EpisodesInv, SlotOK
      <3>2. CASE request[slot.id].state = "leased"
        BY <2>1, <2>5, <3>1, <3>2 DEF EpisodesInv, BeatOK
      <3>3. CASE request[slot.id].state # "leased"
        BY <2>2, <2>5, <3>1, <3>3 DEF Granted
      <3> QED BY <3>2, <3>3
    <2> QED BY <2>1, <2>2, <2>4, <2>5 DEF EpisodesInv, BeatOK
  <1>8. SlotOK'
    BY <1>1, <1>2, SlotFrame DEF EpisodesInv
  <1> QED BY <1>2, <1>4, <1>5, <1>6, <1>7, <1>8 DEF EpisodesInv

\* A step of one poll that leaves the rows alone and grants nothing.
LEMMA PollKeeps ==
  ASSUME EpisodesAssumption, EpisodesInv, NEW h \in Handlers,
         UNCHANGED <<now, gate, flips, row, node, lost>>,
         request' \in [1 .. MaxRequests -> [state: {"unknown", "pending", "leased", "no_work"},
                                            lease: 0 .. Attempts]],
         \A i \in 1 .. MaxRequests : request'[i] # request[i]
             => i <= slot.id /\ request[i].state # "leased" /\ request'[i].state # "leased",
         handler' \in [Handlers -> HandlerType],
         \A g \in Handlers \ {h} : handler'[g] = handler[g],
         UNCHANGED runner \/ \E l \in Lease : StartEpisode(l, row[l].expires),
         PollOK(h)',
         slot.at = "await" /\ slot.handler = h => Awaited(h)'
  PROVE  EpisodesInv'
  <1>1. row' = row /\ row \in [Lease -> RowType]
    BY DEF EpisodesInv, EpisodesTypeOK, RowType
  <1>2. \A l \in Lease : row[l].expires \in Time /\ row[l].expires \in Nat
    BY <1>1, Numbers DEF RowType
  <1>3. RowsGrow /\ RowsOK'
    BY <1>1, <1>2 DEF RowsGrow, EpisodesInv, RowsOK
  <1>4. /\ episode' \in [Lease -> {"none", "new", "queued", "running", "storing", "failing", "cancelled"}]
        /\ expiry' \in [Lease -> Time \cup {NoExpiry}] /\ registered' \subseteq Lease
        /\ EpisodesTracked'
    <2>1. CASE UNCHANGED runner
      BY <1>1, <2>1 DEF EpisodesInv, EpisodesTypeOK, EpisodesTracked, runner
    <2>2. ASSUME NEW l \in Lease, episode[l] = "none",
                 registered' = registered \cup {l}, expiry' = [expiry EXCEPT ![l] = row[l].expires],
                 episode' = [episode EXCEPT ![l] = "new"]
          PROVE  /\ episode' \in [Lease -> {"none", "new", "queued", "running", "storing", "failing", "cancelled"}]
                 /\ expiry' \in [Lease -> Time \cup {NoExpiry}] /\ registered' \subseteq Lease
                 /\ EpisodesTracked'
      <3>1. row[l].expires # NoExpiry /\ row[l].expires <= row[l].expires
        BY <1>2, Numbers
      <3>2. /\ episode' \in [Lease -> {"none", "new", "queued", "running", "storing", "failing", "cancelled"}]
            /\ expiry' \in [Lease -> Time \cup {NoExpiry}] /\ registered' \subseteq Lease
        BY <1>2, <2>2 DEF EpisodesInv, EpisodesTypeOK
      <3>3. EpisodesTracked'
        BY <1>1, <2>2, <3>1 DEF EpisodesInv, EpisodesTypeOK, EpisodesTracked
      <3> QED BY <3>2, <3>3
    <2> QED BY <2>1, <2>2 DEF StartEpisode
  <1>5. \A i \in 1 .. MaxRequests : request[i].state = "leased" => request'[i] = request[i]
    OBVIOUS
  <1>6. \A i \in 1 .. MaxRequests : request'[i].state = "leased" => request[i].state = "leased"
    OBVIOUS
  <1>7. \A i \in slot.id + 1 .. MaxRequests : request'[i] = request[i]
    <2>1. slot.id \in Nat
      BY Numbers DEF EpisodesInv, EpisodesTypeOK
    <2>2. \A i \in slot.id + 1 .. MaxRequests : i \in 1 .. MaxRequests /\ ~(i <= slot.id)
      BY <2>1, Numbers
    <2> QED BY <2>2
  <1> QED BY <1>1, <1>3, <1>4, <1>5, <1>6, <1>7, PollFrame

\* An answer without a lease.
LEMMA AnswerMoves ==
  ASSUME EpisodesAssumption, EpisodesInv, NEW h \in Handlers,
         NEW what \in {"retry", "no_work", "conflict"}, Answer(h, what)
  PROVE  /\ handler' \in [Handlers -> HandlerType]
         /\ \A g \in Handlers \ {h} : handler'[g] = handler[g]
         /\ PollOK(h)'
         /\ what # "conflict" => Awaited(h)'
  <1> DEFINE r == [FreeHandler EXCEPT !.at = "answered", !.answer = what]
  <1>1. r \in HandlerType /\ r.at = "answered" /\ r.answer = what
    BY Numbers DEF HandlerType, FreeHandler
  <1>2. handler \in [Handlers -> HandlerType] /\ handler' = [handler EXCEPT ![h] = r]
    BY DEF EpisodesInv, EpisodesTypeOK, HandlerType, Answer
  <1> HIDE DEF r
  <1>3. /\ handler' \in [Handlers -> HandlerType] /\ handler'[h] = r
        /\ \A g \in Handlers \ {h} : handler'[g] = handler[g]
    BY <1>1, <1>2
  <1> QED BY <1>1, <1>3 DEF PollOK, Awaited

\* An answer with a lease.
LEMMA AnswerLeaseMoves ==
  ASSUME EpisodesAssumption, EpisodesInv, NEW h \in Handlers, NEW l, Granted(l),
         AnswerLease(h, l), UNCHANGED row
  PROVE  /\ handler' \in [Handlers -> HandlerType]
         /\ \A g \in Handlers \ {h} : handler'[g] = handler[g]
         /\ PollOK(h)' /\ Awaited(h)'
  <1> DEFINE r == [FreeHandler EXCEPT !.at = "answered", !.answer = "lease",
                                      !.lease = l, !.expires = row[l].expires]
  <1>1. l \in Lease /\ row[l].expires \in Time /\ row[l].expires \in Nat
    BY Numbers DEF Granted, EpisodesInv, EpisodesTypeOK
  <1>2. r \in HandlerType /\ r.at = "answered" /\ r.answer = "lease" /\ r.lease = l
        /\ r.expires = row[l].expires
    BY <1>1, Numbers DEF HandlerType, FreeHandler
  <1>3. handler \in [Handlers -> HandlerType] /\ handler' = [handler EXCEPT ![h] = r]
    BY DEF EpisodesInv, EpisodesTypeOK, HandlerType, AnswerLease
  <1> HIDE DEF r
  <1>4. /\ handler' \in [Handlers -> HandlerType] /\ handler'[h] = r
        /\ \A g \in Handlers \ {h} : handler'[g] = handler[g]
    BY <1>2, <1>3
  <1> QED BY <1>1, <1>2, <1>4 DEF PollOK, Awaited, Granted

\* A poll goes on with the same request.
LEMMA PollMoves ==
  ASSUME EpisodesAssumption, EpisodesInv, NEW h \in Handlers, NEW w \in {"loop", "closing"},
         handler[h].at \in {"entry", "loop"}, handler' = [handler EXCEPT ![h].at = w],
         UNCHANGED slot
  PROVE  /\ handler' \in [Handlers -> HandlerType]
         /\ \A g \in Handlers \ {h} : handler'[g] = handler[g]
         /\ PollOK(h)'
         /\ slot.at = "await" /\ slot.handler = h => Awaited(h)'
  <1>1. handler \in [Handlers -> HandlerType]
    BY DEF EpisodesInv, EpisodesTypeOK, HandlerType
  <1>2. [handler[h] EXCEPT !.at = w] \in HandlerType
    BY <1>1 DEF HandlerType
  <1>3. /\ handler' \in [Handlers -> HandlerType]
        /\ handler'[h].at = w /\ handler'[h].id = handler[h].id
        /\ \A g \in Handlers \ {h} : handler'[g] = handler[g]
    BY <1>1, <1>2 DEF HandlerType
  <1>4. PollOK(h)'
    BY <1>3 DEF EpisodesInv, HandlersOK, PollOK
  <1>5. slot.at = "await" /\ slot.handler = h => Awaited(h)'
    BY <1>3 DEF EpisodesInv, AwaitOK, Awaited
  <1> QED BY <1>3, <1>4, <1>5

\* A request is made pending or is closed without work.
LEMMA RequestMoves ==
  ASSUME EpisodesAssumption, EpisodesInv, NEW h \in Handlers,
         handler[h].at \in {"entry", "closing"},
         NEW st \in {"pending", "no_work"},
         request[handler[h].id].state # "leased",
         request' = [request EXCEPT ![handler[h].id].state = st]
  PROVE  /\ request' \in [1 .. MaxRequests -> [state: {"unknown", "pending", "leased", "no_work"},
                                               lease: 0 .. Attempts]]
         /\ \A i \in 1 .. MaxRequests : request'[i] # request[i]
             => i <= slot.id /\ request[i].state # "leased" /\ request'[i].state # "leased"
  <1>1. handler[h].id \in 1 .. MaxRequests
    BY OfferGranted
  <1>2. handler[h].id \in 1 .. slot.id /\ slot.id \in Nat
    BY Numbers DEF EpisodesInv, HandlersOK, PollOK, EpisodesTypeOK
  <1>3. handler[h].id <= slot.id
    BY <1>2
  <1>4. request \in [1 .. MaxRequests -> [state: {"unknown", "pending", "leased", "no_work"},
                                          lease: 0 .. Attempts]]
    BY DEF EpisodesInv, EpisodesTypeOK
  <1> QED BY <1>1, <1>3, <1>4

\* The gate and validate_lease_request.
LEMMA ValidateStep ==
  ASSUME EpisodesAssumption, EpisodesInv, NEW h \in Handlers, Validate(h)
  PROVE  EpisodesInv'
  <1>0. PICK id : id = handler[h].id
    OBVIOUS
  <1>1. handler[h].at = "entry" /\ UNCHANGED <<now, gate, flips, row, node, lost>> /\ UNCHANGED slot
    BY DEF Validate, node
  <1>2. id \in 1 .. MaxRequests /\ (request[id].state = "leased" => Granted(request[id].lease))
    BY <1>0, <1>1, OfferGranted
  <1>3. request \in [1 .. MaxRequests -> [state: {"unknown", "pending", "leased", "no_work"},
                                          lease: 0 .. Attempts]]
    BY DEF EpisodesInv, EpisodesTypeOK
  <1>4. CASE Answer(h, "retry") /\ UNCHANGED <<request, runner>>
    BY <1>1, <1>3, <1>4, AnswerMoves, PollKeeps
  <1>5. CASE /\ request[id].state = "leased"
             /\ StartEpisode(request[id].lease, row[request[id].lease].expires)
             /\ AnswerLease(h, request[id].lease) /\ UNCHANGED request
    <2>1. Granted(request[id].lease) /\ request[id].lease \in Lease
      BY <1>2, <1>5 DEF Granted
    <2>2. /\ handler' \in [Handlers -> HandlerType]
          /\ \A g \in Handlers \ {h} : handler'[g] = handler[g]
          /\ PollOK(h)' /\ Awaited(h)'
      BY <1>1, <1>5, <2>1, AnswerLeaseMoves
    <2>3. \E l \in Lease : StartEpisode(l, row[l].expires)
      BY <1>5, <2>1
    <2> QED BY <1>1, <1>3, <1>5, <2>2, <2>3, PollKeeps
  <1>6. CASE Answer(h, "no_work") /\ UNCHANGED <<request, runner>>
    BY <1>1, <1>3, <1>6, AnswerMoves, PollKeeps
  <1>7. CASE /\ request[id].state # "leased"
             /\ request' = [request EXCEPT ![id].state = "pending"]
             /\ handler' = [handler EXCEPT ![h].at = "loop"]
             /\ UNCHANGED runner
    <2>1. /\ handler' \in [Handlers -> HandlerType]
          /\ \A g \in Handlers \ {h} : handler'[g] = handler[g]
          /\ PollOK(h)'
          /\ slot.at = "await" /\ slot.handler = h => Awaited(h)'
      BY <1>1, <1>7, PollMoves
    <2>2. /\ request' \in [1 .. MaxRequests -> [state: {"unknown", "pending", "leased", "no_work"},
                                                lease: 0 .. Attempts]]
          /\ \A i \in 1 .. MaxRequests : request'[i] # request[i]
               => i <= slot.id /\ request[i].state # "leased" /\ request'[i].state # "leased"
      BY <1>0, <1>1, <1>7, RequestMoves
    <2> QED BY <1>1, <1>7, <2>1, <2>2, PollKeeps
  <1> QED BY <1>4, <1>5, <1>6, <1>7, <1>0 DEF Validate

\* The poll ends without an offer.
LEMMA StopPollingStep ==
  ASSUME EpisodesAssumption, EpisodesInv, NEW h \in Handlers, StopPolling(h)
  PROVE  EpisodesInv'
  <1>1. UNCHANGED <<now, gate, flips, row, request, runner, node, lost>> /\ UNCHANGED slot
    BY DEF StopPolling, node
  <1>2. request \in [1 .. MaxRequests -> [state: {"unknown", "pending", "leased", "no_work"},
                                          lease: 0 .. Attempts]]
    BY DEF EpisodesInv, EpisodesTypeOK
  <1>3. CASE Answer(h, "retry")
    BY <1>1, <1>2, <1>3, AnswerMoves, PollKeeps
  <1>4. CASE handler[h].at = "loop" /\ handler' = [handler EXCEPT ![h].at = "closing"]
    BY <1>1, <1>2, <1>4, PollMoves, PollKeeps
  <1> QED BY <1>3, <1>4 DEF StopPolling

\* _complete_no_work.
LEMMA CompleteNoWorkStep ==
  ASSUME EpisodesAssumption, EpisodesInv, NEW h \in Handlers, CompleteNoWork(h)
  PROVE  EpisodesInv'
  <1>0. PICK id : id = handler[h].id
    OBVIOUS
  <1>1. /\ handler[h].at = "closing"
        /\ UNCHANGED <<now, gate, flips, row, runner, node, lost>> /\ UNCHANGED slot
    BY DEF CompleteNoWork, node
  <1>2. id \in 1 .. MaxRequests /\ (request[id].state = "leased" => Granted(request[id].lease))
    BY <1>0, <1>1, OfferGranted
  <1>3. request \in [1 .. MaxRequests -> [state: {"unknown", "pending", "leased", "no_work"},
                                          lease: 0 .. Attempts]]
    BY DEF EpisodesInv, EpisodesTypeOK
  <1>4. CASE request[id].state = "leased"
    <2>1. AnswerLease(h, request[id].lease) /\ UNCHANGED request /\ Granted(request[id].lease)
      BY <1>0, <1>2, <1>4 DEF CompleteNoWork
    <2>2. /\ handler' \in [Handlers -> HandlerType]
          /\ \A g \in Handlers \ {h} : handler'[g] = handler[g]
          /\ PollOK(h)' /\ Awaited(h)'
      BY <1>1, <2>1, AnswerLeaseMoves
    <2> QED BY <1>1, <1>3, <2>1, <2>2, PollKeeps
  <1>5. CASE request[id].state # "leased"
    <2>1. request' = [request EXCEPT ![id].state = "no_work"] /\ Answer(h, "no_work")
      BY <1>0, <1>5 DEF CompleteNoWork
    <2>2. /\ request' \in [1 .. MaxRequests -> [state: {"unknown", "pending", "leased", "no_work"},
                                                lease: 0 .. Attempts]]
          /\ \A i \in 1 .. MaxRequests : request'[i] # request[i]
               => i <= slot.id /\ request[i].state # "leased" /\ request'[i].state # "leased"
      BY <1>0, <1>1, <1>5, <2>1, RequestMoves
    <2> QED BY <1>1, <2>1, <2>2, AnswerMoves, PollKeeps
  <1> QED BY <1>4, <1>5

\* The offer: the poll that the slot waits for meets no conflict.
LEMMA OfferStep ==
  ASSUME EpisodesAssumption, EpisodesInv, NEW h \in Handlers, Offer(h)
  PROVE  EpisodesInv'
  <1>0. PICK l : l = handler[h].lease
    OBVIOUS
  <1>1. /\ handler[h].at = "offered"
        /\ UNCHANGED <<now, gate, flips, row, request, node, lost>> /\ UNCHANGED slot
    BY DEF Offer, node
  <1>2. Granted(l) /\ l \in Lease
    BY <1>0, <1>1, OfferGranted DEF Granted
  <1>3. request \in [1 .. MaxRequests -> [state: {"unknown", "pending", "leased", "no_work"},
                                          lease: 0 .. Attempts]]
    BY DEF EpisodesInv, EpisodesTypeOK
  <1>4. CASE Answer(h, "retry") /\ UNCHANGED runner
    BY <1>1, <1>3, <1>4, AnswerMoves, PollKeeps
  <1>5. CASE ~Associates(h) /\ Answer(h, "conflict") /\ UNCHANGED runner
    <2>1. ~(slot.at = "await" /\ slot.handler = h)
      BY <1>1, <1>5 DEF EpisodesInv, AwaitOK, Awaited
    <2> QED BY <1>1, <1>3, <1>5, <2>1, AnswerMoves, PollKeeps
  <1>6. CASE StartEpisode(l, row[l].expires) /\ AnswerLease(h, l)
    <2>1. /\ handler' \in [Handlers -> HandlerType]
          /\ \A g \in Handlers \ {h} : handler'[g] = handler[g]
          /\ PollOK(h)' /\ Awaited(h)'
      BY <1>1, <1>2, <1>6, AnswerLeaseMoves
    <2> QED BY <1>1, <1>2, <1>3, <1>6, <2>1, PollKeeps
  <1> QED BY <1>0, <1>4, <1>5, <1>6 DEF Offer

\* Sweeping expires rows and keeps their expiry.
LEMMA SweptRows ==
  ASSUME EpisodesTypeOK
  PROVE  /\ Swept \in [Lease -> RowType]
         /\ \A l \in Lease : /\ Swept[l].expires = row[l].expires
                             /\ row[l].state # "none" => Swept[l].state # "none"
  <1>1. \A l \in Lease : row[l] \in RowType
    BY DEF EpisodesTypeOK, RowType
  <1>2. \A l \in Lease : /\ [row[l] EXCEPT !.state = "expired"] \in RowType
                         /\ [row[l] EXCEPT !.state = "expired"].expires = row[l].expires
                         /\ [row[l] EXCEPT !.state = "expired"].state = "expired"
    BY <1>1 DEF RowType
  <1> QED BY <1>1, <1>2 DEF Swept

\* Rows are swept, or not, and nothing else happens.
LEMMA SweepKeeps ==
  ASSUME EpisodesAssumption, EpisodesInv, row' = Swept \/ row' = row,
         UNCHANGED <<now, api, runner, node, lost>>
  PROVE  EpisodesInv'
  <1>1. /\ row' \in [Lease -> RowType]
        /\ \A m \in Lease : /\ row'[m].expires = row[m].expires
                            /\ row[m].state # "none" => row'[m].state # "none"
    <2>1. row \in [Lease -> RowType]
      BY DEF EpisodesInv, EpisodesTypeOK, RowType
    <2> QED BY <2>1, SweptRows DEF EpisodesInv
  <1>2. /\ episode' \in [Lease -> {"none", "new", "queued", "running", "storing", "failing", "cancelled"}]
        /\ expiry' \in [Lease -> Time \cup {NoExpiry}] /\ registered' \subseteq Lease
        /\ EpisodesTracked'
    BY <1>1 DEF EpisodesInv, EpisodesTypeOK, EpisodesTracked, runner
  <1> QED BY <1>1, <1>2, RunnerFrame

\* A poll finds a lease to offer: the request's own or a new one.
LEMMA OfferedMoves ==
  ASSUME EpisodesAssumption, EpisodesInv, NEW h \in Handlers, handler[h].at = "loop",
         NEW l \in Lease, NEW e \in Time, UNCHANGED slot,
         handler' = [handler EXCEPT ![h] = [@ EXCEPT !.at = "offered", !.lease = l, !.expires = e]],
         row'[l].expires = e,
         request'[handler[h].id].state = "leased", request'[handler[h].id].lease = l
  PROVE  /\ handler' \in [Handlers -> HandlerType]
         /\ \A g \in Handlers \ {h} : handler'[g] = handler[g]
         /\ PollOK(h)'
         /\ slot.at = "await" /\ slot.handler = h => Awaited(h)'
  <1> DEFINE r == [handler[h] EXCEPT !.at = "offered", !.lease = l, !.expires = e]
  <1>1. handler \in [Handlers -> HandlerType]
    BY DEF EpisodesInv, EpisodesTypeOK, HandlerType
  <1>2. r \in HandlerType /\ r.at = "offered" /\ r.lease = l /\ r.expires = e /\ r.id = handler[h].id
    BY <1>1, Numbers DEF HandlerType
  <1>3. handler' = [handler EXCEPT ![h] = r]
    OBVIOUS
  <1> HIDE DEF r
  <1>4. /\ handler' \in [Handlers -> HandlerType] /\ handler'[h] = r
        /\ \A g \in Handlers \ {h} : handler'[g] = handler[g]
    BY <1>1, <1>2, <1>3
  <1>5. PollOK(h)'
    BY <1>2, <1>4 DEF EpisodesInv, HandlersOK, PollOK
  <1>6. slot.at = "await" /\ slot.handler = h => Awaited(h)'
    BY <1>2, <1>4 DEF EpisodesInv, AwaitOK, Awaited, Associates
  <1> QED BY <1>4, <1>5, <1>6

\* try_lease.
LEMMA TryLeaseStep ==
  ASSUME EpisodesAssumption, EpisodesInv, NEW h \in Handlers, TryLease(h)
  PROVE  EpisodesInv'
  <1>0. PICK id : id = handler[h].id
    OBVIOUS
  <1>1. /\ handler[h].at = "loop" /\ UNCHANGED <<now, gate, flips, runner, node, lost>>
        /\ UNCHANGED slot
    BY DEF TryLease, node
  <1>2. id \in 1 .. MaxRequests /\ (request[id].state = "leased" => Granted(request[id].lease))
    BY <1>0, <1>1, OfferGranted
  <1>3. request \in [1 .. MaxRequests -> [state: {"unknown", "pending", "leased", "no_work"},
                                          lease: 0 .. Attempts]]
    BY DEF EpisodesInv, EpisodesTypeOK
  <1>4. CASE request[id].state = "leased"
    <2>0. PICK l : l = request[id].lease
      OBVIOUS
    <2>1. /\ handler' = [handler EXCEPT ![h] = [@ EXCEPT !.at = "offered", !.lease = l,
                                                         !.expires = row[l].expires]]
          /\ UNCHANGED <<row, request>>
      BY <1>0, <1>4, <2>0 DEF TryLease
    <2>2. l \in Lease /\ row[l].expires \in Time
      BY <1>2, <1>4, <2>0 DEF Granted, EpisodesInv, EpisodesTypeOK
    <2>3. /\ handler' \in [Handlers -> HandlerType]
          /\ \A g \in Handlers \ {h} : handler'[g] = handler[g]
          /\ PollOK(h)'
          /\ slot.at = "await" /\ slot.handler = h => Awaited(h)'
      BY <1>0, <1>1, <1>4, <2>0, <2>1, <2>2, OfferedMoves
    <2> QED BY <1>1, <1>3, <2>1, <2>3, PollKeeps
  <1>5. ASSUME request[id].state = "pending", NEW l \in NextLease, NEW e,
               e = Min({now + Duration, Deadline}),
               row' = [Swept EXCEPT ![l] = [state |-> "active", expires |-> e]],
               request' = [request EXCEPT ![id] = [state |-> "leased", lease |-> l]],
               handler' = [handler EXCEPT ![h] = [@ EXCEPT !.at = "offered", !.lease = l, !.expires = e]]
        PROVE  EpisodesInv'
    <2>1. l \in Lease /\ row[l].state = "none" /\ l \in 0 .. Attempts
      BY <1>5, Numbers DEF NextLease
    <2>2. e \in Time /\ e <= now + Duration /\ \A x \in Time : x <= now + Duration => x <= e
      BY <1>5, GrantedUntil DEF EpisodesInv, EpisodesTypeOK
    <2>3. /\ row' \in [Lease -> RowType] /\ row'[l].state = "active" /\ row'[l].expires = e
          /\ \A m \in Lease \ {l} : row'[m] = Swept[m]
      <3>1. [state |-> "active", expires |-> e] \in RowType
        BY <2>2 DEF RowType
      <3> QED BY <1>5, <2>1, <3>1, SweptRows DEF EpisodesInv
    <2>4. \A m \in Lease : row[m].expires \in Time /\ row[m].expires \in Nat /\ row'[m].expires \in Nat
      BY <2>3, Numbers DEF EpisodesInv, EpisodesTypeOK, RowType
    <2>5. row[l].expires <= e
      BY <2>1, <2>2, <2>4 DEF EpisodesInv, RowsOK
    <2>6. \A m \in Lease \ {l} : /\ row'[m].expires = row[m].expires
                                 /\ row[m].state # "none" => row'[m].state # "none"
      BY <2>3, SweptRows DEF EpisodesInv
    <2>7. RowsGrow
      <3>1. row'[l].expires >= row[l].expires
        BY <2>1, <2>3, <2>4, <2>5
      <3> QED BY <2>1, <2>3, <2>4, <2>6, <3>1 DEF RowsGrow
    <2>8. RowsOK'
      BY <1>1, <2>2, <2>3, <2>6 DEF EpisodesInv, RowsOK
    <2>9. \A m \in Lease : row[m].state # "none" => row'[m].expires = row[m].expires
      BY <2>1, <2>6
    <2>10. /\ request' \in [1 .. MaxRequests -> [state: {"unknown", "pending", "leased", "no_work"},
                                                 lease: 0 .. Attempts]]
           /\ request'[id].state = "leased" /\ request'[id].lease = l
           /\ \A i \in 1 .. MaxRequests : i # id => request'[i] = request[i]
      BY <1>2, <1>3, <1>5, <2>1
    <2>11. \A i \in 1 .. MaxRequests : request[i].state = "leased" => request'[i] = request[i]
      BY <1>5, <2>10
    <2>12. \A i \in 1 .. MaxRequests : request'[i].state = "leased" /\ request[i].state # "leased"
             => Granted(request[i].lease)' /\ row[request'[i].lease].state = "none"
      BY <2>1, <2>3, <2>10 DEF Granted
    <2>13. \A i \in slot.id + 1 .. MaxRequests : request'[i] = request[i]
      <3>1. id \in 1 .. slot.id /\ slot.id \in Nat
        BY <1>0, <1>1, Numbers DEF EpisodesInv, HandlersOK, PollOK, EpisodesTypeOK
      <3>2. \A i \in slot.id + 1 .. MaxRequests : i \in 1 .. MaxRequests /\ i # id
        BY <3>1, Numbers
      <3> QED BY <2>10, <3>2
    <2>14. /\ handler' \in [Handlers -> HandlerType]
           /\ \A g \in Handlers \ {h} : handler'[g] = handler[g]
           /\ PollOK(h)'
           /\ slot.at = "await" /\ slot.handler = h => Awaited(h)'
      <3>1. request'[handler[h].id].state = "leased" /\ request'[handler[h].id].lease = l
        BY <1>0, <2>10
      <3>2. handler' = [handler EXCEPT ![h] = [@ EXCEPT !.at = "offered", !.lease = l, !.expires = e]]
        BY <1>5
      <3>3. e \in Time /\ l \in Lease /\ row'[l].expires = e
        BY <2>1, <2>2, <2>3
      <3> QED BY <1>1, <3>1, <3>2, <3>3, OfferedMoves
    <2>15. /\ episode' \in [Lease -> {"none", "new", "queued", "running", "storing", "failing", "cancelled"}]
           /\ expiry' \in [Lease -> Time \cup {NoExpiry}] /\ registered' \subseteq Lease
           /\ EpisodesTracked'
      <3>1. episode' = episode /\ expiry' = expiry /\ registered' = registered
        BY <1>1 DEF runner
      <3>2. \A m \in Lease : expiry[m] # NoExpiry => expiry[m] \in Nat
        BY Numbers DEF EpisodesInv, EpisodesTypeOK
      <3> QED BY <2>4, <2>7, <3>1, <3>2 DEF EpisodesInv, EpisodesTypeOK, EpisodesTracked, RowsGrow
    <2> QED BY <1>1, <2>3, <2>7, <2>8, <2>9, <2>10, <2>11, <2>12, <2>13, <2>14, <2>15, PollFrame
  <1>6. CASE row' \in {Swept, row} /\ UNCHANGED <<request, handler>>
    BY <1>1, <1>6, SweepKeeps DEF api
  <1>7. CASE request[id].state = "pending" /\ Available /\ NextLease # {}
    BY <1>0, <1>5, <1>7 DEF TryLease
  <1>8. CASE request[id].state # "leased" /\ ~(request[id].state = "pending" /\ Available /\ NextLease # {})
    BY <1>0, <1>6, <1>8 DEF TryLease
  <1> QED BY <1>4, <1>7, <1>8

-----------------------------------------------------------------------------
(* The clock and the gate.                                                 *)

\* Time passes.
LEMMA TickStep ==
  ASSUME EpisodesAssumption, EpisodesInv, Tick
  PROVE  EpisodesInv'
  <1>1. now < Deadline /\ now' = now + 1 /\ UNCHANGED <<api, row, runner, node, lost>>
    BY DEF Tick
  <1>2. UNCHANGED <<gate, flips, request, handler, row, runner, episode, expiry, registered, slot, lead, beat, lost>>
    BY <1>1 DEF api, runner, node
  <1>3. now \in Nat /\ now' \in Time /\ now' >= now
    BY <1>1, Numbers DEF EpisodesInv, EpisodesTypeOK, Time
  <1>4. EpisodesTypeOK'
    BY <1>2, <1>3 DEF EpisodesInv, EpisodesTypeOK
  <1>5. RowsGrow
    <2>1. \A l \in Lease : row[l].expires \in Nat
      BY Numbers DEF EpisodesInv, EpisodesTypeOK
    <2> QED BY <1>2, <2>1 DEF RowsGrow
  <1>6. slot'.id = slot.id /\ slot'.id >= slot.id
    <2>1. slot.id \in Nat
      BY Numbers DEF EpisodesInv, EpisodesTypeOK
    <2> QED BY <1>2, <2>1
  <1>7. EpisodesTracked' /\ RowsOK' /\ RequestsOK' /\ HandlersOK' /\ BeatOK' /\ SlotOK'
    BY <1>2, <1>3, <1>4, <1>5, <1>6, TrackedFrame, RowsSame, RequestsFrame, HandlersFrame,
       BeatFrame, SlotFrame DEF EpisodesInv
  <1>8. AwaitOK'
    BY <1>2 DEF EpisodesInv, AwaitOK, Awaited, Associates
  <1> QED BY <1>4, <1>7, <1>8 DEF EpisodesInv

\* The trainer gate opens or closes.
LEMMA FlipGateStep ==
  ASSUME EpisodesAssumption, EpisodesInv, FlipGate
  PROVE  EpisodesInv'
  <1>1. /\ flips + lost < MaxFaults /\ flips' = flips + 1 /\ gate' = ~gate
        /\ UNCHANGED <<now, row, request, handler, runner, node, lost>>
    BY DEF FlipGate
  <1>2. UNCHANGED <<now, row, request, handler, episode, expiry, registered, slot, lead, beat, lost>>
    BY <1>1 DEF runner, node
  <1>3. flips' \in 0 .. MaxFaults /\ gate' \in BOOLEAN
    <2>1. flips \in Nat /\ lost \in Nat /\ MaxFaults \in Nat
      BY DEF EpisodesInv, EpisodesTypeOK, EpisodesAssumption
    <2>2. flips' \in 0 .. MaxFaults
      BY <1>1, <2>1
    <2>3. gate' \in BOOLEAN
      BY <1>1, Zenon
    <2> QED BY <2>2, <2>3
  <1>4. EpisodesTypeOK'
    BY <1>2, <1>3 DEF EpisodesInv, EpisodesTypeOK
  <1>5. EpisodesTracked' /\ RowsOK' /\ RequestsOK' /\ HandlersOK' /\ AwaitOK' /\ BeatOK' /\ SlotOK'
    BY <1>2 DEF EpisodesInv, EpisodesTracked, RowsOK, RequestsOK, HandlersOK, PollOK, AwaitOK,
       Awaited, Associates, BeatOK, SlotOK, Granted
  <1> QED BY <1>4, <1>5 DEF EpisodesInv

-----------------------------------------------------------------------------
(* The worker's slot.                                                      *)

\* The slot leaves its poll or its lease, or begins to serve one.
LEMMA SlotKeeps ==
  ASSUME EpisodesAssumption, EpisodesInv, EpisodesTypeOK',
         UNCHANGED <<now, row, request, runner>>, slot'.id = slot.id,
         slot'.at \in {"ask", "repeat", "serve"},
         slot'.at = "repeat" => slot.at \in {"await", "repeat"},
         slot'.at = "serve" => /\ slot'.lease \in Lease /\ row[slot'.lease].state # "none"
                               /\ slot'.expires <= row[slot'.lease].expires,
         HandlersOK', BeatOK'
  PROVE  EpisodesInv'
  <1>1. RowsGrow /\ now' >= now
    <2>1. \A l \in Lease : row[l].expires \in Nat
      BY Numbers DEF EpisodesInv, EpisodesTypeOK
    <2>2. now \in Nat
      BY Numbers DEF EpisodesInv, EpisodesTypeOK
    <2> QED BY <2>1, <2>2 DEF RowsGrow
  <1>2. EpisodesTracked' /\ RowsOK' /\ RequestsOK'
    BY <1>1, TrackedFrame, RowsSame, RequestsFrame DEF EpisodesInv
  <1>3. AwaitOK'
    BY DEF AwaitOK
  <1>4. SlotOK'
    BY DEF EpisodesInv, SlotOK, Granted
  <1> QED BY <1>2, <1>3, <1>4 DEF EpisodesInv

\* The polls and the heartbeat do not depend on how far the slot has come with
\* the same request.
LEMMA SlotOnly ==
  ASSUME EpisodesAssumption, EpisodesInv, UNCHANGED <<row, request, handler, beat, now>>,
         slot'.id = slot.id,
         slot'.at \in {"await", "repeat"} => slot.at \in {"await", "repeat"}
  PROVE  HandlersOK' /\ BeatOK'
  BY DEF EpisodesInv, HandlersOK, PollOK, BeatOK, Granted

\* A new request, or the same request again.
LEMMA AskStep ==
  ASSUME EpisodesAssumption, EpisodesInv, NEW h \in Handlers, Ask(h)
  PROVE  EpisodesInv'
  <1>0. PICK id : id = IF slot.at = "ask" THEN slot.id + 1 ELSE slot.id
    OBVIOUS
  <1>1. /\ handler[h].at = "free" /\ (slot.at = "repeat" \/ (slot.at = "ask" /\ slot.id < MaxRequests))
        /\ slot' = [slot EXCEPT !.at = "await", !.id = id, !.handler = h]
        /\ handler' = [handler EXCEPT ![h] = [FreeHandler EXCEPT !.at = "entry", !.id = id]]
        /\ UNCHANGED <<now, gate, flips, row, request, runner, lead, beat, lost>>
    BY <1>0 DEF Ask
  <1>2. slot.id \in 0 .. MaxRequests /\ slot.id \in Nat /\ MaxRequests \in Nat
    BY Numbers DEF EpisodesInv, EpisodesTypeOK
  <1>3. id \in 1 .. MaxRequests /\ id >= slot.id /\ id \in Nat
    BY <1>0, <1>1, <1>2 DEF EpisodesInv, SlotOK
  <1>4. /\ slot' \in [at: {"ask", "repeat", "await", "serve", "dead"}, id: 0 .. MaxRequests,
                      handler: Handlers \cup {NoHandler}, lease: 0 .. Attempts, expires: Time]
        /\ slot'.at = "await" /\ slot'.id = id /\ slot'.handler = h
    <2>1. slot \in [at: {"ask", "repeat", "await", "serve", "dead"}, id: 0 .. MaxRequests,
                    handler: Handlers \cup {NoHandler}, lease: 0 .. Attempts, expires: Time]
      BY DEF EpisodesInv, EpisodesTypeOK
    <2>2. id \in 0 .. MaxRequests
      BY <1>2, <1>3
    <2> QED BY <1>1, <2>1, <2>2
  <1>5. /\ handler' \in [Handlers -> HandlerType] /\ handler'[h].at = "entry" /\ handler'[h].id = id
        /\ \A g \in Handlers \ {h} : handler'[g] = handler[g]
    <2> DEFINE r == [FreeHandler EXCEPT !.at = "entry", !.id = id]
    <2>1. r \in HandlerType /\ r.at = "entry" /\ r.id = id
      <3>1. id \in 0 .. MaxRequests
        BY <1>2, <1>3
      <3> QED BY <3>1, Numbers DEF HandlerType, FreeHandler
    <2>2. handler \in [Handlers -> HandlerType] /\ handler' = [handler EXCEPT ![h] = r]
      BY <1>1 DEF EpisodesInv, EpisodesTypeOK, HandlerType
    <2> HIDE DEF r
    <2> QED BY <2>1, <2>2
  <1>6. EpisodesTypeOK'
    BY <1>1, <1>4, <1>5 DEF EpisodesInv, EpisodesTypeOK, HandlerType, runner
  <1>7. RowsGrow /\ now' >= now
    <2>1. \A l \in Lease : row[l].expires \in Nat
      BY Numbers DEF EpisodesInv, EpisodesTypeOK
    <2>2. now \in Nat
      BY Numbers DEF EpisodesInv, EpisodesTypeOK
    <2> QED BY <1>1, <2>1, <2>2 DEF RowsGrow
  <1>8. EpisodesTracked' /\ RowsOK'
    BY <1>1, <1>6, <1>7, TrackedFrame, RowsSame DEF EpisodesInv
  <1>9. RequestsOK'
    <2>1. \A i \in id + 1 .. MaxRequests : i \in slot.id + 1 .. MaxRequests
      BY <1>2, <1>3
    <2> QED BY <1>1, <1>4, <2>1 DEF EpisodesInv, RequestsOK, Granted
  <1>10. HandlersOK'
    <2>1. ASSUME NEW g \in Handlers, g # h PROVE PollOK(g)'
      <3>1. handler'[g] = handler[g] /\ PollOK(g)
        BY <1>5, <2>1 DEF EpisodesInv, HandlersOK
      <3>2. \A i \in 1 .. slot.id : i \in 1 .. id
        BY <1>2, <1>3
      <3> QED BY <1>1, <1>4, <3>1, <3>2 DEF PollOK, Granted
    <2>2. PollOK(h)'
      BY <1>3, <1>4, <1>5 DEF PollOK
    <2> QED BY <2>1, <2>2 DEF HandlersOK
  <1>11. AwaitOK'
    BY <1>4, <1>5 DEF AwaitOK, Awaited
  <1>12. BeatOK'
    <2>1. slot.at = "ask" => request[id].state = "unknown"
      <3>1. slot.at = "ask" => id \in slot.id + 1 .. MaxRequests
        BY <1>0, <1>1, <1>2
      <3> QED BY <3>1 DEF EpisodesInv, RequestsOK
    <2> QED BY <1>0, <1>1, <1>4, <2>1 DEF EpisodesInv, BeatOK, Granted
  <1>13. SlotOK'
    BY <1>3, <1>4 DEF SlotOK
  <1> QED BY <1>6, <1>8, <1>9, <1>10, <1>11, <1>12, <1>13 DEF EpisodesInv

\* A poll nobody waits for any more.
LEMMA DiscardPollStep ==
  ASSUME EpisodesAssumption, EpisodesInv, NEW h \in Handlers, DiscardPoll(h)
  PROVE  EpisodesInv'
  <1>1. /\ slot.handler # h /\ handler' = [handler EXCEPT ![h] = FreeHandler]
        /\ UNCHANGED <<now, gate, flips, row, request, runner, node, lost>>
    BY DEF DiscardPoll
  <1>2. FreeHandler \in HandlerType /\ FreeHandler.at = "free"
    BY Numbers DEF HandlerType, FreeHandler
  <1>3. /\ handler' \in [Handlers -> HandlerType] /\ handler'[h].at = "free"
        /\ \A g \in Handlers \ {h} : handler'[g] = handler[g]
    BY <1>1, <1>2 DEF EpisodesInv, EpisodesTypeOK, HandlerType
  <1>4. PollOK(h)'
    BY <1>3 DEF PollOK
  <1>5. request \in [1 .. MaxRequests -> [state: {"unknown", "pending", "leased", "no_work"},
                                          lease: 0 .. Attempts]]
    BY DEF EpisodesInv, EpisodesTypeOK
  <1> QED BY <1>1, <1>3, <1>4, <1>5, PollKeeps

\* The answer to a poll: never a conflict, and a lease is served only for as
\* long as it lasts.
LEMMA ReceiveAnswerStep ==
  ASSUME EpisodesAssumption, EpisodesInv, NEW h \in Handlers, ReceiveAnswer(h)
  PROVE  EpisodesInv'
  <1>0. PICK a : a = handler[h]
    OBVIOUS
  <1>1. /\ slot.at = "await" /\ slot.handler = h /\ a.at = "answered"
        /\ handler' = [handler EXCEPT ![h] = FreeHandler]
        /\ UNCHANGED <<now, gate, flips, row, request, runner, lead, beat, lost>>
    BY <1>0 DEF ReceiveAnswer
  <1>2. a.answer # "conflict"
    BY <1>0, <1>1 DEF EpisodesInv, AwaitOK, Awaited
  <1>3. /\ slot \in [at: {"ask", "repeat", "await", "serve", "dead"}, id: 0 .. MaxRequests,
                     handler: Handlers \cup {NoHandler}, lease: 0 .. Attempts, expires: Time]
        /\ a \in HandlerType
    BY <1>0 DEF EpisodesInv, EpisodesTypeOK, HandlerType
  <1>4. \/ slot' = [slot EXCEPT !.at = "repeat", !.handler = NoHandler]
        \/ /\ a.answer = "lease"
           /\ slot' = [slot EXCEPT !.at = "serve", !.handler = NoHandler, !.lease = a.lease, !.expires = a.expires]
        \/ slot' = [slot EXCEPT !.at = "ask", !.handler = NoHandler]
    BY <1>0, <1>2 DEF ReceiveAnswer
  <1>5. /\ slot' \in [at: {"ask", "repeat", "await", "serve", "dead"}, id: 0 .. MaxRequests,
                      handler: Handlers \cup {NoHandler}, lease: 0 .. Attempts, expires: Time]
        /\ slot'.id = slot.id /\ slot'.at \in {"ask", "repeat", "serve"}
        /\ slot'.at = "serve" => a.answer = "lease" /\ slot'.lease = a.lease /\ slot'.expires = a.expires
    BY <1>3, <1>4 DEF HandlerType
  <1>6. FreeHandler \in HandlerType /\ FreeHandler.at = "free"
    BY Numbers DEF HandlerType, FreeHandler
  <1>7. /\ handler' \in [Handlers -> HandlerType] /\ handler'[h].at = "free"
        /\ \A g \in Handlers \ {h} : handler'[g] = handler[g]
    BY <1>1, <1>6 DEF EpisodesInv, EpisodesTypeOK, HandlerType
  <1>8. EpisodesTypeOK'
    BY <1>1, <1>5, <1>7 DEF EpisodesInv, EpisodesTypeOK, HandlerType, runner
  <1>9. slot'.at = "serve" => /\ slot'.lease \in Lease /\ row[slot'.lease].state # "none"
                              /\ slot'.expires <= row[slot'.lease].expires
    BY <1>0, <1>1, <1>5 DEF EpisodesInv, HandlersOK, PollOK, Granted
  <1>10. HandlersOK'
    <2>1. \A g \in Handlers \ {h} : PollOK(g)'
      BY <1>1, <1>5, <1>7 DEF EpisodesInv, HandlersOK, PollOK, Granted
    <2>2. PollOK(h)'
      BY <1>7 DEF PollOK
    <2> QED BY <2>1, <2>2 DEF HandlersOK
  <1>11. BeatOK'
    BY <1>1, <1>5 DEF EpisodesInv, BeatOK, Granted
  <1> QED BY <1>1, <1>5, <1>8, <1>9, <1>10, <1>11, SlotKeeps

\* A lost poll, a stop and the worker's own watchdog.
LEMMA LeaveSlotStep ==
  ASSUME EpisodesAssumption, EpisodesInv, LosePoll \/ ExchangeStops \/ WorkerWatch
  PROVE  EpisodesInv'
  <1>1. slot \in [at: {"ask", "repeat", "await", "serve", "dead"}, id: 0 .. MaxRequests,
                  handler: Handlers \cup {NoHandler}, lease: 0 .. Attempts, expires: Time]
    BY DEF EpisodesInv, EpisodesTypeOK
  <1>2. UNCHANGED <<now, gate, flips, request, handler, row, runner, lead, beat>>
    BY DEF LosePoll, ExchangeStops, WorkerWatch, api
  <1>3. lost' \in 0 .. MaxFaults
    <2>1. lost \in 0 .. MaxFaults /\ flips \in 0 .. MaxFaults /\ MaxFaults \in Nat
      BY DEF EpisodesInv, EpisodesTypeOK, EpisodesAssumption
    <2>2. CASE LosePoll
      BY <2>1, <2>2 DEF LosePoll
    <2>3. CASE ExchangeStops \/ WorkerWatch
      BY <2>1, <2>3 DEF ExchangeStops, WorkerWatch
    <2> QED BY <2>2, <2>3
  <1>4. \/ slot.at = "await" /\ slot' = [slot EXCEPT !.at = "repeat", !.handler = NoHandler]
        \/ slot' = [slot EXCEPT !.at = "ask", !.lease = 0, !.expires = 0]
    BY DEF LosePoll, ExchangeStops, WorkerWatch, LeaveSlot
  <1>5. /\ slot' \in [at: {"ask", "repeat", "await", "serve", "dead"}, id: 0 .. MaxRequests,
                      handler: Handlers \cup {NoHandler}, lease: 0 .. Attempts, expires: Time]
        /\ slot'.id = slot.id
        /\ slot'.at = "ask" \/ (slot'.at = "repeat" /\ slot.at = "await")
    BY <1>1, <1>4, Numbers
  <1>6. EpisodesTypeOK'
    BY <1>2, <1>3, <1>5 DEF EpisodesInv, EpisodesTypeOK, runner
  <1>7. HandlersOK' /\ BeatOK'
    BY <1>2, <1>5, SlotOnly
  <1> QED BY <1>2, <1>5, <1>6, <1>7, SlotKeeps

-----------------------------------------------------------------------------
(* Heartbeats.                                                             *)

\* A step of a heartbeat renews at most the lease it is about, and that is not
\* the one the slot is being offered.
LEMMA BeatKeeps ==
  ASSUME EpisodesAssumption, EpisodesInv, EpisodesTypeOK',
         UNCHANGED <<now, request, handler, slot>>, RowsGrow, RowsOK', EpisodesTracked',
         \A m \in Lease : beat.at = "none" \/ m # beat.lease => row'[m].expires = row[m].expires,
         BeatOK'
  PROVE  EpisodesInv'
  <1>1. slot'.id = slot.id /\ slot'.id >= slot.id
    <2>1. slot.id \in Nat
      BY Numbers DEF EpisodesInv, EpisodesTypeOK
    <2> QED BY <2>1
  <1>2. RequestsOK' /\ HandlersOK' /\ SlotOK'
    BY <1>1, RequestsFrame, HandlersFrame, SlotFrame DEF EpisodesInv
  <1>3. AwaitOK'
    <2>1. SUFFICES ASSUME slot.at = "await" PROVE AwaitOK'
      BY DEF AwaitOK
    <2>2. slot.handler \in Handlers /\ Awaited(slot.handler)
      BY <2>1 DEF EpisodesInv, AwaitOK
    <2>3. ASSUME handler[slot.handler].at = "offered"
          PROVE  Associates(slot.handler)'
      <3>1. /\ handler[slot.handler].id = slot.id
            /\ request[slot.id].state = "leased"
            /\ handler[slot.handler].lease = request[slot.id].lease
            /\ handler[slot.handler].lease \in Lease
        BY <2>2, <2>3, OfferGranted DEF EpisodesInv, HandlersOK, PollOK, Awaited, Granted
      <3>2. beat.at = "none" \/ handler[slot.handler].lease # beat.lease
        BY <2>1, <3>1 DEF EpisodesInv, BeatOK
      <3>3. row'[handler[slot.handler].lease].expires = row[handler[slot.handler].lease].expires
        BY <3>1, <3>2
      <3> QED BY <2>2, <2>3, <3>3 DEF Awaited, Associates
    <2> QED BY <2>2, <2>3 DEF AwaitOK, Awaited
  <1> QED BY <1>2, <1>3 DEF EpisodesInv

\* The rows, the clock and the runner stay as they are.
LEMMA BeatOnly ==
  ASSUME EpisodesAssumption, EpisodesInv, EpisodesTypeOK', UNCHANGED <<now, row, runner>>
  PROVE  RowsGrow /\ RowsOK' /\ EpisodesTracked'
  <1>1. \A l \in Lease : row[l].expires \in Nat
    BY Numbers DEF EpisodesInv, EpisodesTypeOK
  <1>2. now \in Nat
    BY Numbers DEF EpisodesInv, EpisodesTypeOK
  <1>3. RowsGrow
    BY <1>1 DEF RowsGrow
  <1> QED BY <1>2, <1>3, TrackedFrame, RowsSame DEF EpisodesInv

\* The worker sends a heartbeat for the lease it serves.
LEMMA SendBeatStep ==
  ASSUME EpisodesAssumption, EpisodesInv, SendBeat
  PROVE  EpisodesInv'
  <1>1. /\ beat.at = "none" /\ slot.at = "serve"
        /\ beat' = [NoBeat EXCEPT !.at = "sent", !.started = now, !.lease = slot.lease]
        /\ UNCHANGED <<now, gate, flips, request, handler, row, runner, slot, lead, lost>>
    BY DEF SendBeat, api
  <1>2. now \in Time /\ now \in Nat /\ slot.lease \in 0 .. Attempts
    BY Numbers DEF EpisodesInv, EpisodesTypeOK
  <1>3. /\ beat' \in [at: {"none", "sent", "recorded", "answered"}, started: Time, lease: 0 .. Attempts,
                      answer: {"renewed", "stop"}, expires: Time, stamp: Time]
        /\ beat'.at = "sent" /\ beat'.started = now /\ beat'.lease = slot.lease
    BY <1>1, <1>2, Numbers DEF NoBeat
  <1>4. EpisodesTypeOK'
    BY <1>1, <1>3 DEF EpisodesInv, EpisodesTypeOK, runner
  <1>5. BeatOK'
    BY <1>1, <1>2, <1>3 DEF BeatOK, EpisodesInv, SlotOK, Granted
  <1> QED BY <1>1, <1>4, <1>5, BeatOnly, BeatKeeps

\* A heartbeat or its answer is lost.
LEMMA LoseBeatStep ==
  ASSUME EpisodesAssumption, EpisodesInv, LoseBeat
  PROVE  EpisodesInv'
  <1>1. /\ flips + lost < MaxFaults /\ lost' = lost + 1 /\ beat' = NoBeat
        /\ UNCHANGED <<now, gate, flips, request, handler, row, runner, slot, lead>>
    BY DEF LoseBeat, api
  <1>2. /\ beat' \in [at: {"none", "sent", "recorded", "answered"}, started: Time, lease: 0 .. Attempts,
                      answer: {"renewed", "stop"}, expires: Time, stamp: Time]
        /\ beat'.at = "none"
    BY <1>1, Numbers DEF NoBeat
  <1>3. lost' \in 0 .. MaxFaults
    BY <1>1 DEF EpisodesInv, EpisodesTypeOK, EpisodesAssumption
  <1>4. EpisodesTypeOK'
    BY <1>1, <1>2, <1>3 DEF EpisodesInv, EpisodesTypeOK, runner
  <1>5. BeatOK'
    BY <1>2 DEF BeatOK
  <1> QED BY <1>1, <1>4, <1>5, BeatOnly, BeatKeeps

\* record_heartbeat: the row is extended, never shortened.
LEMMA RecordBeatStep ==
  ASSUME EpisodesAssumption, EpisodesInv, RecordBeat
  PROVE  EpisodesInv'
  <1>0. PICK l, e : l = beat.lease /\ e = Min({now + Duration, Deadline})
    OBVIOUS
  <1>1. /\ beat.at = "sent" /\ UNCHANGED <<now, gate, flips, request, handler, slot, lead, lost>>
        /\ UNCHANGED runner
    BY DEF RecordBeat, api
  <1>2. beat \in [at: {"none", "sent", "recorded", "answered"}, started: Time, lease: 0 .. Attempts,
                  answer: {"renewed", "stop"}, expires: Time, stamp: Time]
    BY DEF EpisodesInv, EpisodesTypeOK
  <1>3. l \in Lease /\ Granted(l)
    BY <1>0, <1>1 DEF EpisodesInv, BeatOK, Granted
  <1>4. CASE Live(l)
    <2>1. /\ row' = [row EXCEPT ![l].expires = e]
          /\ beat' = [beat EXCEPT !.at = "recorded", !.answer = "renewed", !.expires = e]
      BY <1>0, <1>4 DEF RecordBeat
    <2>2. e \in Time /\ e <= now + Duration /\ \A x \in Time : x <= now + Duration => x <= e
      BY <1>0, GrantedUntil DEF EpisodesInv, EpisodesTypeOK
    <2>3. /\ row' \in [Lease -> RowType] /\ row'[l].expires = e /\ row'[l].state = row[l].state
          /\ \A m \in Lease \ {l} : row'[m] = row[m]
      <3>1. row \in [Lease -> RowType]
        BY DEF EpisodesInv, EpisodesTypeOK, RowType
      <3>2. [row[l] EXCEPT !.expires = e] \in RowType
        BY <1>3, <2>2, <3>1 DEF RowType
      <3> QED BY <1>3, <2>1, <3>1, <3>2 DEF RowType
    <2>4. /\ beat' \in [at: {"none", "sent", "recorded", "answered"}, started: Time, lease: 0 .. Attempts,
                        answer: {"renewed", "stop"}, expires: Time, stamp: Time]
          /\ beat'.at = "recorded" /\ beat'.expires = e /\ beat'.lease = l /\ beat'.started = beat.started
      BY <1>0, <1>2, <2>1, <2>2
    <2>5. EpisodesTypeOK'
      BY <1>1, <2>3, <2>4 DEF EpisodesInv, EpisodesTypeOK, runner, RowType
    <2>6. \A m \in Lease : row[m].expires \in Time /\ row[m].expires \in Nat
      BY Numbers DEF EpisodesInv, EpisodesTypeOK
    <2>7. row[l].expires <= e /\ e \in Nat
      BY <1>3, <2>2, <2>6, Numbers DEF EpisodesInv, RowsOK
    <2>8. RowsGrow
      BY <1>3, <2>3, <2>6, <2>7 DEF RowsGrow
    <2>9. RowsOK'
      BY <1>1, <2>2, <2>3 DEF EpisodesInv, RowsOK
    <2>10. EpisodesTracked'
      BY <1>1, <2>5, <2>8, TrackedFrame DEF EpisodesInv
    <2>11. BeatOK'
      BY <1>0, <1>1, <1>3, <2>3, <2>4, <2>7 DEF EpisodesInv, BeatOK, Granted
    <2> QED BY <1>0, <1>1, <2>3, <2>5, <2>8, <2>9, <2>10, <2>11, BeatKeeps
  <1>5. CASE ~Live(l)
    <2>1. beat' = [beat EXCEPT !.at = "recorded", !.answer = "stop"] /\ UNCHANGED row
      BY <1>0, <1>5 DEF RecordBeat
    <2>2. /\ beat' \in [at: {"none", "sent", "recorded", "answered"}, started: Time, lease: 0 .. Attempts,
                        answer: {"renewed", "stop"}, expires: Time, stamp: Time]
          /\ beat'.at = "recorded" /\ beat'.answer = "stop" /\ beat'.lease = beat.lease
          /\ beat'.started = beat.started
      BY <1>2, <2>1
    <2>3. EpisodesTypeOK'
      BY <1>1, <2>1, <2>2 DEF EpisodesInv, EpisodesTypeOK, runner
    <2>4. BeatOK'
      BY <1>1, <2>1, <2>2 DEF EpisodesInv, BeatOK, Granted
    <2> QED BY <1>1, <2>1, <2>3, <2>4, BeatOnly, BeatKeeps
  <1> QED BY <1>4, <1>5

\* The runner learns of the renewal after the row: never of more than it says.
LEMMA AnswerBeatStep ==
  ASSUME EpisodesAssumption, EpisodesInv, AnswerBeat
  PROVE  EpisodesInv'
  <1>0. PICK l : l = beat.lease
    OBVIOUS
  <1>1. /\ beat.at = "recorded" /\ beat' = [beat EXCEPT !.at = "answered", !.stamp = now]
        /\ UNCHANGED <<now, gate, flips, request, handler, slot, lead, lost>>
    BY DEF AnswerBeat, api
  <1>2. /\ beat \in [at: {"none", "sent", "recorded", "answered"}, started: Time, lease: 0 .. Attempts,
                     answer: {"renewed", "stop"}, expires: Time, stamp: Time]
        /\ now \in Time /\ now \in Nat
    BY Numbers DEF EpisodesInv, EpisodesTypeOK
  <1>3. l \in Lease /\ Granted(l)
    BY <1>0, <1>1 DEF EpisodesInv, BeatOK, Granted
  <1>4. /\ beat' \in [at: {"none", "sent", "recorded", "answered"}, started: Time, lease: 0 .. Attempts,
                      answer: {"renewed", "stop"}, expires: Time, stamp: Time]
        /\ beat'.at = "answered" /\ beat'.stamp = now /\ beat'.lease = l /\ beat'.started = beat.started
        /\ beat'.answer = beat.answer /\ beat'.expires = beat.expires
    BY <1>0, <1>1, <1>2
  <1>5. /\ row' \in [Lease -> RowType]
        /\ \A m \in Lease : /\ row'[m].expires = row[m].expires
                            /\ row[m].state # "none" => row'[m].state # "none"
        /\ episode' \in [Lease -> {"none", "new", "queued", "running", "storing", "failing", "cancelled"}]
        /\ expiry' \in [Lease -> Time \cup {NoExpiry}] /\ registered' \subseteq Lease
        /\ EpisodesTracked'
    <2>1. CASE beat.answer = "renewed"
      <3>1. /\ expiry' = IF episode[l] = "none" THEN expiry ELSE [expiry EXCEPT ![l] = beat.expires]
            /\ UNCHANGED <<row, episode, registered>>
        BY <1>0, <2>1 DEF AnswerBeat
      <3>2. beat.expires <= row[l].expires /\ beat.expires \in Time /\ beat.expires # NoExpiry
        BY <1>0, <1>1, <1>2, <2>1, Numbers DEF EpisodesInv, BeatOK
      <3>3. expiry' \in [Lease -> Time \cup {NoExpiry}]
        BY <1>3, <3>1, <3>2 DEF EpisodesInv, EpisodesTypeOK
      <3>4. EpisodesTracked'
        BY <1>3, <3>1, <3>2 DEF EpisodesInv, EpisodesTypeOK, EpisodesTracked
      <3> QED BY <3>1, <3>3, <3>4 DEF EpisodesInv, EpisodesTypeOK, RowType
    <2>2. CASE beat.answer # "renewed"
      <3>1. CancelEpisode(l)
        BY <1>0, <2>2 DEF AnswerBeat
      <3> QED BY <1>3, <3>1, CancelTracked
    <2> QED BY <2>1, <2>2
  <1>6. EpisodesTypeOK'
    BY <1>1, <1>4, <1>5 DEF EpisodesInv, EpisodesTypeOK, RowType
  <1>7. RowsGrow /\ RowsOK'
    <2>1. \A m \in Lease : row[m].expires \in Nat
      BY Numbers DEF EpisodesInv, EpisodesTypeOK
    <2> QED BY <1>1, <1>5, <2>1 DEF RowsGrow, EpisodesInv, RowsOK
  <1>8. BeatOK'
    <2>1. beat.started <= now /\ now <= now
      BY <1>1, <1>2 DEF EpisodesInv, BeatOK
    <2> QED BY <1>0, <1>1, <1>3, <1>4, <1>5, <2>1 DEF EpisodesInv, BeatOK, Granted
  <1> QED BY <1>1, <1>5, <1>6, <1>7, <1>8, BeatKeeps

\* The worker takes the coordinator's time and the renewal, or stops.
LEMMA ReceiveBeatStep ==
  ASSUME EpisodesAssumption, EpisodesInv, ReceiveBeat
  PROVE  EpisodesInv'
  <1>1. /\ beat.at = "answered" /\ beat' = NoBeat /\ lead' = beat.stamp - beat.started
        /\ UNCHANGED <<now, gate, flips, request, handler, row, runner, lost>>
    BY DEF ReceiveBeat, Measured, api
  <1>2. /\ slot \in [at: {"ask", "repeat", "await", "serve", "dead"}, id: 0 .. MaxRequests,
                     handler: Handlers \cup {NoHandler}, lease: 0 .. Attempts, expires: Time]
        /\ beat.expires \in Time /\ beat.stamp \in Time /\ beat.started \in Time
    BY DEF EpisodesInv, EpisodesTypeOK
  <1>3. lead' \in Time
    <2>1. beat.started <= beat.stamp
      BY <1>1 DEF EpisodesInv, BeatOK
    <2> QED BY <1>1, <1>2, <2>1, Numbers DEF Time
  <1>4. /\ beat' \in [at: {"none", "sent", "recorded", "answered"}, started: Time, lease: 0 .. Attempts,
                      answer: {"renewed", "stop"}, expires: Time, stamp: Time]
        /\ beat'.at = "none"
    BY <1>1, Numbers DEF NoBeat
  <1>5. BeatOK'
    BY <1>4 DEF BeatOK
  <1>6. CASE UNCHANGED slot
    <2>1. EpisodesTypeOK'
      BY <1>1, <1>3, <1>4, <1>6 DEF EpisodesInv, EpisodesTypeOK, runner
    <2> QED BY <1>1, <1>5, <1>6, <2>1, BeatOnly, BeatKeeps
  <1>7. CASE /\ slot.at = "serve"
             /\ \/ /\ slot.lease = beat.lease /\ beat.answer = "renewed"
                   /\ slot' = [slot EXCEPT !.expires = beat.expires]
                \/ slot' = [slot EXCEPT !.at = "ask", !.lease = 0, !.expires = 0]
    <2>1. /\ slot' \in [at: {"ask", "repeat", "await", "serve", "dead"}, id: 0 .. MaxRequests,
                        handler: Handlers \cup {NoHandler}, lease: 0 .. Attempts, expires: Time]
          /\ slot'.id = slot.id /\ slot'.at \in {"ask", "serve"}
          /\ slot'.at = "serve" => /\ slot'.lease = beat.lease /\ slot'.expires = beat.expires
                                   /\ beat.answer = "renewed"
      BY <1>2, <1>7, Numbers
    <2>2. EpisodesTypeOK'
      BY <1>1, <1>3, <1>4, <2>1 DEF EpisodesInv, EpisodesTypeOK, runner
    <2>3. slot'.at = "serve" => /\ slot'.lease \in Lease /\ row[slot'.lease].state # "none"
                                /\ slot'.expires <= row[slot'.lease].expires
      BY <1>1, <2>1 DEF EpisodesInv, BeatOK, Granted
    <2>4. HandlersOK'
      BY <1>1, <2>1 DEF EpisodesInv, HandlersOK, PollOK, Granted
    <2> QED BY <1>1, <1>5, <2>1, <2>2, <2>3, <2>4, SlotKeeps
  <1> QED BY <1>6, <1>7 DEF ReceiveBeat, LeaveSlot

-----------------------------------------------------------------------------
(* The invariant holds, and it says what was to be shown.                  *)

\* The invariant holds when the coordinator starts.
LEMMA EpisodesStart ==
  ASSUME EpisodesAssumption, EpisodesInit
  PROVE  EpisodesInv
  <1>1. EpisodesTypeOK
    <2>1. FreeHandler \in HandlerType
      BY Numbers DEF HandlerType, FreeHandler
    <2>2. handler \in [Handlers -> HandlerType]
      BY <2>1 DEF EpisodesInit
    <2>3. 0 \in 0 .. MaxFaults
      BY DEF EpisodesAssumption
    <2> QED BY <2>2, <2>3, Numbers DEF EpisodesInit, EpisodesTypeOK, HandlerType, NoBeat
  <1>2. EpisodesTracked /\ RowsOK
    BY Numbers DEF EpisodesInit, EpisodesTracked, RowsOK
  <1>3. RequestsOK
    <2>1. \A i \in slot.id + 1 .. MaxRequests : i \in 1 .. MaxRequests
      BY Numbers DEF EpisodesInit
    <2> QED BY <2>1 DEF EpisodesInit, RequestsOK
  <1>4. HandlersOK
    BY DEF EpisodesInit, HandlersOK, PollOK, FreeHandler
  <1>5. AwaitOK /\ BeatOK /\ SlotOK
    BY DEF EpisodesInit, AwaitOK, BeatOK, NoBeat, SlotOK
  <1> QED BY <1>1, <1>2, <1>3, <1>4, <1>5 DEF EpisodesInv

\* Every step keeps the invariant.
LEMMA EpisodesStep ==
  ASSUME EpisodesAssumption, EpisodesInv, [EpisodesNext]_evars
  PROVE  EpisodesInv'
  <1>1. CASE UNCHANGED evars
    <2>1. UNCHANGED <<now, gate, flips, request, handler, row, episode, expiry, registered,
                      slot, lead, beat, lost>>
      BY <1>1 DEF evars, api, runner, node
    <2>2. EpisodesTypeOK'
      BY <2>1 DEF EpisodesInv, EpisodesTypeOK
    <2>3. EpisodesTracked' /\ RowsOK' /\ RequestsOK' /\ HandlersOK' /\ AwaitOK' /\ BeatOK' /\ SlotOK'
      BY <2>1 DEF EpisodesInv, EpisodesTracked, RowsOK, RequestsOK, HandlersOK, PollOK, AwaitOK,
         Awaited, Associates, BeatOK, SlotOK, Granted
    <2> QED BY <2>2, <2>3 DEF EpisodesInv
  <1>2. CASE Tick \/ FlipGate
    BY <1>2, TickStep, FlipGateStep
  <1>3. CASE Reap
    BY <1>3, SweepKeeps DEF Reap
  <1>4. ASSUME NEW l \in Lease, EpisodeStep(l) PROVE EpisodesInv'
    BY <1>4, EpisodeStepKeeps
  <1>5. ASSUME NEW h \in Handlers, HandlerStep(h) PROVE EpisodesInv'
    BY <1>5, ValidateStep, TryLeaseStep, StopPollingStep, CompleteNoWorkStep, OfferStep DEF HandlerStep
  <1>6. CASE NodeStep
    BY <1>6, AskStep, ReceiveAnswerStep, DiscardPollStep, LeaveSlotStep DEF NodeStep
  <1>7. CASE BeatStep
    BY <1>7, SendBeatStep, RecordBeatStep, AnswerBeatStep, ReceiveBeatStep, LoseBeatStep DEF BeatStep
  <1> QED BY <1>1, <1>2, <1>3, <1>4, <1>5, <1>6, <1>7 DEF EpisodesNext

\* EpisodesSafe: for every number of attempts, polls, requests and lost messages,
\* an episode never believes it has longer than its lease, the broker knows a
\* lease exactly while its task may ask for inference, the worker never serves
\* beyond the lease by a clock that runs behind the coordinator's, and no answer
\* to a poll makes it give up: associate_offered_lease never meets a renewed
\* lease in a poll that somebody waits for.
THEOREM EpisodesAreSafe ==
  ASSUME EpisodesAssumption
  PROVE  EpisodesSpec => []EpisodesSafe
  <1>1. EpisodesInit => EpisodesInv
    BY EpisodesStart
  <1>2. EpisodesInv /\ [EpisodesNext]_evars => EpisodesInv'
    BY EpisodesStep
  <1>3. EpisodesInv => EpisodesSafe
    <2>1. SUFFICES ASSUME EpisodesInv PROVE EpisodesSafe
      OBVIOUS
    <2>2. ServerNow >= now
      <3>1. now \in Nat /\ lead \in Nat
        BY <2>1, Numbers DEF EpisodesInv, EpisodesTypeOK
      <3> QED BY <3>1 DEF ServerNow
    <2> QED BY <2>1, <2>2 DEF EpisodesInv, EpisodesSafe, SlotOK, WorkerStopsInTime
  <1> QED BY <1>1, <1>2, <1>3, PTL DEF EpisodesSpec

=============================================================================
