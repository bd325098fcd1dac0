------------------------ MODULE WorkerProcessProofs -------------------------
(***************************************************************************)
(* One worker acts for a state directory, its server does not outlive it,  *)
(* and it ends for a cause that lasts, for every number of processes,      *)
(* starts, troubles and sizes.                                             *)
(***************************************************************************)
EXTENDS WorkerProcess, TLAPS

-----------------------------------------------------------------------------
(* The invariant.                                                          *)

\* Where a worker has its id, and where it has its server.
Named == {"named", "built", "starting", "register", "serve"}
WithServer == {"starting", "register", "serve", "ending"}
Places == {"down", "locked", "identified", "linking", "ending", "closing"} \cup Named

WorkerRecords ==
  [at : Places, id : Nat, session : Nat, delay : Nat, answer : Nat,
   why : {"none", "server", "timeout", "answer", "signal"}]

ProcessTypeOK ==
  /\ site \in [token : BOOLEAN, version : BOOLEAN, gpu : BOOLEAN,
               differs : {Nobody} \cup ModelFields \cup TokenizerFields, run : {"same", "other"}]
  /\ lockedBy \in Processes \cup {Nobody}
  /\ idFile \in Nat /\ idsMade \in Nat /\ sessionsMade \in Nat
  /\ worker \in [Processes -> WorkerRecords]
  /\ vllm \in [Processes -> {"none", "loading", "listening", "exited"}]

\* The process that is not down is the one that holds the lock.
LockHeld == \A p \in Processes : worker[p].at # "down" <=> lockedBy = p

\* A worker that is about to link an id has made one; after that it has the
\* file's, and so has every session that the coordinator knows.
IdsAgree ==
  /\ \A p \in Processes : worker[p].at = "linking" => worker[p].id # 0
  /\ \A p \in Processes : worker[p].at \in Named => worker[p].id = idFile /\ idFile # 0
  /\ \A x \in known : x[1] = idFile /\ idFile # 0

\* Only a worker that has started a server and not yet stopped has one.
ServersHeld == \A p \in Processes : vllm[p] # "none" => worker[p].at \in WithServer

ProcessInv == ProcessTypeOK /\ LockHeld /\ IdsAgree /\ ServersHeld /\ EndsForCause

USE DEF Named, WithServer, Places, WorkerRecords, ModelFields, TokenizerFields

\* A step of the process that holds the lock: it changes its own record w and
\* server, may write the id file where there was none, and leaves the lock.
Acts(p, w) ==
  /\ worker[p].at # "down" /\ w \in WorkerRecords /\ w.at # "down"
  /\ worker' = [worker EXCEPT ![p] = w]
  /\ UNCHANGED <<site, lockedBy>>
  /\ idsMade' \in Nat /\ sessionsMade' \in Nat
  /\ idFile' \in Nat /\ (idFile # 0 => idFile' = idFile)
  /\ w.at = "linking" => w.id # 0
  /\ w.at \in Named => w.id = idFile' /\ idFile' # 0
  /\ vllm' = vllm /\ (w.at \in WithServer \/ vllm[p] = "none")
  /\ \A x \in known' : x \in known \/ (x[1] = idFile' /\ idFile' # 0)
  /\ w.why = "answer" => ~(site.token /\ site.version /\ site.run = "same" /\ site.differs = Nobody)
  /\ w.answer \notin {413, 422}
  /\ w.at \in {"register", "serve"} => w.delay \in RetryMin .. RetryMax

LEMMA ActsKeeps == ASSUME ProcessInv, NEW p \in Processes, NEW w, Acts(p, w) PROVE ProcessInv'
  <1> USE DEF ProcessInv, Acts
  <1> HIDE DEF WorkerRecords
  <1>1. worker \in [Processes -> WorkerRecords] BY DEF ProcessTypeOK
  <1>2. /\ worker' \in [Processes -> WorkerRecords]
        /\ worker'[p] = w /\ \A q \in Processes : q # p => worker'[q] = worker[q]
    BY <1>1
  <1>3. ProcessTypeOK' BY <1>2 DEF ProcessTypeOK
  <1>4. LockHeld' BY <1>2 DEF LockHeld
  <1>5. \A q \in Processes : q # p => worker[q].at = "down" BY DEF LockHeld
  <1>6. IdsAgree' BY <1>2, <1>5 DEF IdsAgree
  <1>7. ServersHeld' BY <1>2 DEF ServersHeld
  <1>8. EndsForCause' BY <1>2 DEF EndsForCause
  <1> QED BY <1>3, <1>4, <1>6, <1>7, <1>8

\* What is known of the record of a process.
LEMMA RecordFacts ==
  ASSUME ProcessInv, NEW p \in Processes
  PROVE  /\ worker[p] \in WorkerRecords
         /\ worker[p].at \in Named => worker[p].id = idFile /\ idFile # 0
         /\ worker[p].at = "linking" => worker[p].id # 0
         /\ worker[p].at \notin WithServer => vllm[p] = "none"
         /\ worker[p].why = "answer" =>
              ~(site.token /\ site.version /\ site.run = "same" /\ site.differs = Nobody)
         /\ worker[p].answer \notin {413, 422}
         /\ worker[p].at \in {"register", "serve"} => worker[p].delay \in RetryMin .. RetryMax
         /\ \A x \in known : x[1] = idFile /\ idFile # 0
         /\ idFile \in Nat /\ idsMade \in Nat /\ sessionsMade \in Nat
  BY DEF ProcessInv, ProcessTypeOK, IdsAgree, ServersHeld, EndsForCause

\* A worker that ends, other than on an answer.
LEMMA EndActs ==
  ASSUME ProcessInv, NEW p \in Processes, worker[p].at \in WithServer,
         NEW why \in {"server", "timeout", "signal"}, EndOf(p, why),
         UNCHANGED <<site, lockedBy, idFile, idsMade, sessionsMade, vllm, known>>
  PROVE  ProcessInv'
  <1> DEFINE w == [worker[p] EXCEPT !.at = "ending", !.why = why]
  <1>1. worker[p] \in WorkerRecords BY RecordFacts
  <1>2. w \in WorkerRecords /\ w.at = "ending" /\ w.why = why /\ w.answer = worker[p].answer BY <1>1
  <1>3. worker' = [worker EXCEPT ![p] = w] BY DEF EndOf
  <1> HIDE DEF w, WorkerRecords
  <1>4. Acts(p, w) BY <1>2, <1>3, RecordFacts DEF Acts
  <1> QED BY <1>4, ActsKeeps

LEMMA OpenStateKeeps ==
  ASSUME WorkerAssumption, ProcessInv, NEW p \in Processes, OpenState(p)
  PROVE  ProcessInv'
  <1> USE DEF WorkerAssumption, ProcessInv, OpenState, Resting
  <1>1. ProcessTypeOK' BY DEF ProcessTypeOK
  <1>2. LockHeld' BY DEF LockHeld, ProcessTypeOK
  <1>3. IdsAgree' BY DEF IdsAgree, ProcessTypeOK, LockHeld
  <1>4. ServersHeld' BY DEF ServersHeld, ProcessTypeOK, LockHeld
  <1>5. EndsForCause' BY DEF EndsForCause, ProcessTypeOK, LockHeld
  <1> QED BY <1>1, <1>2, <1>3, <1>4, <1>5

LEMMA DiscoverBaseModelIdentityKeeps ==
  ASSUME WorkerAssumption, ProcessInv, NEW p \in Processes, DiscoverBaseModelIdentity(p)
  PROVE  ProcessInv'
  <1> USE DEF WorkerAssumption, ProcessInv, DiscoverBaseModelIdentity, Go
  <1>1. ProcessTypeOK' BY DEF ProcessTypeOK
  <1>2. LockHeld' BY DEF LockHeld, ProcessTypeOK
  <1>3. IdsAgree' BY DEF IdsAgree, ProcessTypeOK, LockHeld
  <1>4. ServersHeld' BY DEF ServersHeld, ProcessTypeOK, LockHeld
  <1>5. EndsForCause' BY DEF EndsForCause, ProcessTypeOK, LockHeld
  <1> QED BY <1>1, <1>2, <1>3, <1>4, <1>5

LEMMA LoadWorkerIdKeeps ==
  ASSUME WorkerAssumption, ProcessInv, NEW p \in Processes, LoadWorkerId(p)
  PROVE  ProcessInv'
  <1>1. worker[p] \in WorkerRecords /\ idFile \in Nat /\ idsMade + 1 \in Nat BY RecordFacts
  <1>2. CASE idFile # 0
    <2> DEFINE w == [worker[p] EXCEPT !.at = "named", !.id = idFile]
    <2>1. w \in WorkerRecords /\ w.at = "named" /\ w.id = idFile /\ w.answer = worker[p].answer
            /\ w.why = worker[p].why
      BY <1>1
    <2>2. worker' = [worker EXCEPT ![p] = w] BY <1>2 DEF LoadWorkerId
    <2>3. worker[p].at = "identified" /\ UNCHANGED <<site, lockedBy, idFile, idsMade, sessionsMade, vllm, known>>
      BY <1>2 DEF LoadWorkerId
    <2> HIDE DEF w, WorkerRecords
    <2>4. Acts(p, w) BY <1>2, <2>1, <2>2, <2>3, RecordFacts DEF Acts
    <2> QED BY <2>4, ActsKeeps
  <1>3. CASE idFile = 0
    <2> DEFINE w == [worker[p] EXCEPT !.at = "linking", !.id = idsMade + 1]
    <2>1. w \in WorkerRecords /\ w.at = "linking" /\ w.id = idsMade + 1 /\ w.answer = worker[p].answer
            /\ w.why = worker[p].why
      BY <1>1
    <2>2. worker' = [worker EXCEPT ![p] = w] BY <1>3 DEF LoadWorkerId
    <2>3. /\ worker[p].at = "identified" /\ idsMade' = idsMade + 1
          /\ UNCHANGED <<site, lockedBy, idFile, sessionsMade, vllm, known>>
      BY <1>3 DEF LoadWorkerId
    <2> HIDE DEF w, WorkerRecords
    <2>4. Acts(p, w) BY <2>1, <2>2, <2>3, RecordFacts DEF Acts
    <2> QED BY <2>4, ActsKeeps
  <1> QED BY <1>2, <1>3

\* Only the worker that holds the lock links an id.
LEMMA LinkWorkerIdKeeps ==
  ASSUME WorkerAssumption, ProcessInv, NEW p \in Processes, LinkWorkerId(p)
  PROVE  ProcessInv'
  <1>1. worker[p] \in WorkerRecords BY RecordFacts
  <1>2. /\ worker[p].at = "linking" /\ UNCHANGED <<site, lockedBy, idsMade, sessionsMade, vllm, known>>
        /\ idFile' = IF idFile = 0 THEN worker[p].id ELSE idFile
    BY DEF LinkWorkerId
  <1>3. idFile' \in Nat /\ idFile' # 0 /\ (idFile # 0 => idFile' = idFile) BY <1>1, <1>2, RecordFacts
  <1> DEFINE w == [worker[p] EXCEPT !.at = "named", !.id = idFile']
  <1>4. w \in WorkerRecords /\ w.at = "named" /\ w.id = idFile' /\ w.answer = worker[p].answer
          /\ w.why = worker[p].why
    BY <1>1, <1>3
  <1>5. worker' = [worker EXCEPT ![p] = w] BY DEF LinkWorkerId
  <1> HIDE DEF w, WorkerRecords
  <1>6. Acts(p, w) BY <1>2, <1>3, <1>4, <1>5, RecordFacts DEF Acts
  <1> QED BY <1>6, ActsKeeps

LEMMA BuildRegistrationKeeps ==
  ASSUME WorkerAssumption, ProcessInv, NEW p \in Processes, BuildRegistration(p)
  PROVE  ProcessInv'
  <1>1. worker[p] \in WorkerRecords /\ sessionsMade + 1 \in Nat BY RecordFacts
  <1>2. /\ worker[p].at = "named" /\ sessionsMade' = sessionsMade + 1
        /\ UNCHANGED <<site, lockedBy, idFile, idsMade, vllm, known>>
    BY DEF BuildRegistration
  <1> DEFINE w == IF site.gpu THEN [worker[p] EXCEPT !.at = "built", !.session = sessionsMade + 1]
                  ELSE [worker[p] EXCEPT !.at = "closing"]
  <1>3. w \in WorkerRecords /\ w.at \in {"built", "closing"} /\ w.id = worker[p].id
          /\ w.answer = worker[p].answer /\ w.why = worker[p].why
    <2>1. CASE site.gpu BY <1>1, <2>1
    <2>2. CASE ~site.gpu BY <1>1, <2>2
    <2> QED BY <2>1, <2>2
  <1>4. worker' = [worker EXCEPT ![p] = w]
    <2>1. CASE site.gpu BY <2>1 DEF BuildRegistration
    <2>2. CASE ~site.gpu BY <1>1, <2>2 DEF BuildRegistration, Go
    <2> QED BY <2>1, <2>2
  <1> HIDE DEF w, WorkerRecords
  <1>5. Acts(p, w) BY <1>2, <1>3, <1>4, RecordFacts DEF Acts
  <1> QED BY <1>5, ActsKeeps

LEMMA StartServerKeeps ==
  ASSUME WorkerAssumption, ProcessInv, NEW p \in Processes, StartServer(p)
  PROVE  ProcessInv'
  <1> USE DEF WorkerAssumption, ProcessInv, StartServer, Go
  <1>1. ProcessTypeOK' BY DEF ProcessTypeOK
  <1>2. LockHeld' BY DEF LockHeld, ProcessTypeOK
  <1>3. IdsAgree' BY DEF IdsAgree, ProcessTypeOK, LockHeld
  <1>4. ServersHeld' BY DEF ServersHeld, ProcessTypeOK, LockHeld
  <1>5. EndsForCause' BY DEF EndsForCause, ProcessTypeOK, LockHeld
  <1> QED BY <1>1, <1>2, <1>3, <1>4, <1>5

LEMMA BindKeeps == ASSUME WorkerAssumption, ProcessInv, NEW p \in Processes, Bind(p) PROVE ProcessInv'
  <1> USE DEF WorkerAssumption, ProcessInv, Bind
  <1>1. ProcessTypeOK' BY DEF ProcessTypeOK
  <1>2. LockHeld' BY DEF LockHeld, ProcessTypeOK
  <1>3. IdsAgree' BY DEF IdsAgree, ProcessTypeOK, LockHeld
  <1>4. ServersHeld' BY DEF ServersHeld, ProcessTypeOK, LockHeld
  <1>5. EndsForCause' BY DEF EndsForCause, ProcessTypeOK, LockHeld
  <1> QED BY <1>1, <1>2, <1>3, <1>4, <1>5

LEMMA ServerDiesKeeps ==
  ASSUME WorkerAssumption, ProcessInv, NEW p \in Processes, ServerDies(p)
  PROVE  ProcessInv'
  <1> USE DEF WorkerAssumption, ProcessInv, ServerDies
  <1>1. ProcessTypeOK' BY DEF ProcessTypeOK
  <1>2. LockHeld' BY DEF LockHeld, ProcessTypeOK
  <1>3. IdsAgree' BY DEF IdsAgree, ProcessTypeOK, LockHeld
  <1>4. ServersHeld' BY DEF ServersHeld, ProcessTypeOK, LockHeld
  <1>5. EndsForCause' BY DEF EndsForCause, ProcessTypeOK, LockHeld
  <1> QED BY <1>1, <1>2, <1>3, <1>4, <1>5

LEMMA AwaitReadyKeeps ==
  ASSUME WorkerAssumption, ProcessInv, NEW p \in Processes, AwaitReady(p)
  PROVE  ProcessInv'
  <1>0. /\ worker[p].at = "starting"
        /\ UNCHANGED <<site, lockedBy, idFile, idsMade, sessionsMade, vllm, known>>
    BY DEF AwaitReady
  <1>1. CASE EndOf(p, "server") \/ EndOf(p, "timeout") BY <1>0, <1>1, EndActs
  <1>2. CASE worker' = [worker EXCEPT ![p] = [@ EXCEPT !.at = "register", !.delay = RetryMin]]
    <2> DEFINE w == [worker[p] EXCEPT !.at = "register", !.delay = RetryMin]
    <2>1. worker[p] \in WorkerRecords BY RecordFacts
    <2>2. RetryMin \in Nat /\ RetryMin \in RetryMin .. RetryMax BY DEF WorkerAssumption
    <2>3. w \in WorkerRecords /\ w.at = "register" /\ w.delay = RetryMin /\ w.id = worker[p].id
            /\ w.answer = worker[p].answer /\ w.why = worker[p].why
      BY <2>1, <2>2
    <2>4. worker' = [worker EXCEPT ![p] = w] BY <1>2
    <2> HIDE DEF w, WorkerRecords
    <2>5. Acts(p, w) BY <1>0, <2>2, <2>3, <2>4, RecordFacts DEF Acts
    <2> QED BY <2>5, ActsKeeps
  <1>3. \/ EndOf(p, "server") \/ EndOf(p, "timeout")
        \/ worker' = [worker EXCEPT ![p] = [@ EXCEPT !.at = "register", !.delay = RetryMin]]
    BY DEF AwaitReady
  <1> QED BY <1>1, <1>2, <1>3

LEMMA MonitorKeeps ==
  ASSUME ProcessInv, NEW p \in Processes, Monitor(p)
  PROVE  ProcessInv'
  BY EndActs DEF Monitor

LEMMA StopKeeps ==
  ASSUME ProcessInv, NEW p \in Processes, Stop(p)
  PROVE  ProcessInv'
  BY EndActs DEF Stop

LEMMA StopServerKeeps ==
  ASSUME WorkerAssumption, ProcessInv, NEW p \in Processes, StopServer(p)
  PROVE  ProcessInv'
  <1> USE DEF WorkerAssumption, ProcessInv, StopServer, Go, Cleaned
  <1>1. ProcessTypeOK' BY DEF ProcessTypeOK
  <1>2. LockHeld' BY DEF LockHeld, ProcessTypeOK
  <1>3. IdsAgree' BY DEF IdsAgree, ProcessTypeOK, LockHeld
  <1>4. ServersHeld' BY DEF ServersHeld, ProcessTypeOK, LockHeld
  <1>5. EndsForCause' BY DEF EndsForCause, ProcessTypeOK, LockHeld
  <1> QED BY <1>1, <1>2, <1>3, <1>4, <1>5

LEMMA CloseStateKeeps ==
  ASSUME WorkerAssumption, ProcessInv, NEW p \in Processes, CloseState(p)
  PROVE  ProcessInv'
  <1> USE DEF WorkerAssumption, ProcessInv, CloseState
  <1>1. ProcessTypeOK' BY DEF ProcessTypeOK
  <1>2. LockHeld' BY DEF LockHeld, ProcessTypeOK
  <1>3. IdsAgree' BY DEF IdsAgree, ProcessTypeOK, LockHeld
  <1>4. ServersHeld' BY DEF ServersHeld, ProcessTypeOK, LockHeld
  <1>5. EndsForCause' BY DEF EndsForCause, ProcessTypeOK, LockHeld
  <1> QED BY <1>1, <1>2, <1>3, <1>4, <1>5

LEMMA KillKeeps == ASSUME WorkerAssumption, ProcessInv, NEW p \in Processes, Kill(p) PROVE ProcessInv'
  <1> USE DEF WorkerAssumption, ProcessInv, Kill, Resting
  <1>1. ProcessTypeOK' BY DEF ProcessTypeOK
  <1>2. LockHeld' BY DEF LockHeld, ProcessTypeOK
  <1>3. IdsAgree' BY DEF IdsAgree, ProcessTypeOK, LockHeld
  <1>4. ServersHeld' BY DEF ServersHeld, ProcessTypeOK, LockHeld
  <1>5. EndsForCause' BY DEF EndsForCause, ProcessTypeOK, LockHeld
  <1> QED BY <1>1, <1>2, <1>3, <1>4, <1>5

\* The pause between two tries stays within its bounds.
LEMMA PauseBounds ==
  ASSUME WorkerAssumption, NEW d \in RetryMin .. RetryMax
  PROVE  Pause(d) \in RetryMin .. RetryMax
  <1> DEFINE S == {2 * d, RetryMax}
  <1>1. S \subseteq Int /\ \E x \in S : \A y \in S : x <= y BY DEF WorkerAssumption
  <1>2. Min(S) \in S /\ \A y \in S : Min(S) <= y
    <2> HIDE DEF S
    <2> QED BY <1>1 DEF Min
  <1>3. Min(S) = 2 * d \/ Min(S) = RetryMax BY <1>2
  <1>4. Min(S) <= RetryMax BY <1>2
  <1>5. Pause(d) = Min(S) BY DEF Pause
  <1> HIDE DEF S
  <1>6. CASE Min(S) = RetryMax BY <1>5, <1>6 DEF WorkerAssumption
  <1>7. CASE Min(S) = 2 * d BY <1>4, <1>5, <1>7 DEF WorkerAssumption
  <1> QED BY <1>3, <1>6, <1>7

\* Troubles that pass are answered with a status that is tried again.
LEMMA TroublesPass ==
  ASSUME NEW x \in PassingTroubles
  PROVE  StatusOf(x) \in {429, 503, 500} /\ Retryable(StatusOf(x))
  <1>1. x \in {"capacity", "database_busy", "trainer_unavailable", "lease_pending", "internal"}
    BY DEF PassingTroubles
  <1>2. StatusOf(x) \in {429, 503, 500} BY <1>1 DEF StatusOf
  <1> QED BY <1>2 DEF Retryable

\* A reply the worker is willing to send passes both limits, whatever its size.
LEMMA RepliesFit ==
  ASSUME WorkerAssumption, NEW n \in Nat
  PROVE  ParseControlBody(LocalReply(n)) \cup BrokerCheck(LocalReply(n)) = {}
  <1>1. LocalReply(n) \in 0 .. BodyLimit BY DEF LocalReply, WorkerAssumption
  <1>2. \A k \in 0 .. BodyLimit : Encoded(k) + Overhead <= (2 * BodyLimit) + Slack
    <2> TAKE k \in 0 .. BodyLimit
    <2>1. PICK q \in Nat : q = (k + 2) \div 3 OBVIOUS
    <2>2. 3 * q <= k + 2 BY <2>1
    <2> QED BY <2>1, <2>2 DEF Encoded, Overhead, WorkerAssumption
  <1>3. Encoded(LocalReply(n)) \in Int BY <1>1 DEF Encoded
  <1>4. ParseControlBody(LocalReply(n)) = {}
    BY <1>1, <1>2, <1>3 DEF ParseControlBody, WorkerAssumption, Overhead
  <1>5. BrokerCheck(LocalReply(n)) = {} BY <1>1 DEF BrokerCheck, WorkerAssumption
  <1> QED BY <1>4, <1>5

\* An answer that the worker heeds: it tries again, or ends for a lasting cause.
LEMMA HeedKeeps ==
  ASSUME WorkerAssumption, ProcessInv, NEW p \in Processes, worker[p].at \in {"register", "serve"},
         NEW status \in {200, 400, 401, 409, 429, 500, 503},
         ~Retryable(status) => ~(site.token /\ site.version /\ site.run = "same"),
         Heed(p, status), UNCHANGED <<site, lockedBy, idFile, idsMade, sessionsMade, vllm>>,
         \A x \in known' : x \in known \/ (x[1] = idFile /\ idFile # 0)
  PROVE  ProcessInv'
  <1>1. worker[p] \in WorkerRecords /\ worker[p].delay \in RetryMin .. RetryMax /\ status \in Nat
    BY RecordFacts
  <1>2. Pause(worker[p].delay) \in RetryMin .. RetryMax BY <1>1, PauseBounds
  <1>3. PICK d \in Nat : d = Pause(worker[p].delay) BY <1>2 DEF WorkerAssumption
  <1>4. CASE Retryable(status)
    <2> DEFINE w == [worker[p] EXCEPT !.answer = status, !.delay = d]
    <2>1. w \in WorkerRecords /\ w.at = worker[p].at /\ w.delay = d /\ w.id = worker[p].id
            /\ w.answer = status /\ w.why = worker[p].why
      BY <1>1
    <2>2. worker' = [worker EXCEPT ![p] = w] BY <1>3, <1>4 DEF Heed
    <2> HIDE DEF w, WorkerRecords
    <2>3. Acts(p, w) BY <1>2, <1>3, <2>1, <2>2, RecordFacts DEF Acts
    <2> QED BY <2>3, ActsKeeps
  <1>5. CASE ~Retryable(status)
    <2> DEFINE w == [worker[p] EXCEPT !.answer = status, !.at = "ending", !.why = "answer"]
    <2>1. w \in WorkerRecords /\ w.at = "ending" /\ w.answer = status BY <1>1
    <2>2. worker' = [worker EXCEPT ![p] = w] BY <1>5 DEF Heed
    <2> HIDE DEF w, WorkerRecords
    <2>3. Acts(p, w) BY <1>5, <2>1, <2>2, RecordFacts DEF Acts
    <2> QED BY <2>3, ActsKeeps
  <1> QED BY <1>4, <1>5

\* Registering: a refusal lasts, and a session is recorded under the file's id.
LEMMA RegisterKeeps ==
  ASSUME WorkerAssumption, ProcessInv, NEW p \in Processes, Register(p)
  PROVE  ProcessInv'
  <1> USE DEF ProcessInv
  <1>0. worker[p].at = "register" /\ UNCHANGED <<site, lockedBy, idFile, idsMade, sessionsMade, vllm>>
    BY DEF Register
  <1>1. PICK status \in RegisterAnswers, lost \in BOOLEAN :
          /\ known' = IF status = 200 THEN known \cup {<<worker[p].id, worker[p].session>>} ELSE known
          /\ IF lost THEN worker' = [worker EXCEPT ![p].delay = Pause(@)]
             ELSE IF status = 200
             THEN worker' = [worker EXCEPT ![p] = [@ EXCEPT !.at = "serve", !.answer = 200, !.delay = RetryMin]]
             ELSE Heed(p, status)
    BY DEF Register
  <1>2. /\ status \in {200, 400, 401, 409, 429, 500, 503}
        /\ status # 200 /\ ~Retryable(status) => ~(site.token /\ site.version /\ site.run = "same")
    <2>1. CASE Admission # 200 BY <2>1 DEF RegisterAnswers, Admission
    <2>2. CASE Admission = 200 /\ site.run = "other"
      BY <2>2 DEF RegisterAnswers, StatusOf
    <2>3. CASE Admission = 200 /\ site.run # "other"
      <3>1. status = 200 \/ \E x \in PassingTroubles : status = StatusOf(x) BY <2>3 DEF RegisterAnswers
      <3> QED BY <3>1, TroublesPass
    <2> QED BY <2>1, <2>2, <2>3
  <1>3. worker[p] \in WorkerRecords /\ worker[p].id = idFile /\ idFile # 0
          /\ worker[p].delay \in RetryMin .. RetryMax
    BY <1>0, RecordFacts
  <1>4. \A x \in known' : x \in known \/ (x[1] = idFile /\ idFile # 0) BY <1>1, <1>3
  <1>5. CASE lost
    <2>1. Pause(worker[p].delay) \in RetryMin .. RetryMax BY <1>3, PauseBounds
    <2>2. PICK d \in Nat : d = Pause(worker[p].delay) BY <2>1 DEF WorkerAssumption
    <2> DEFINE w == [worker[p] EXCEPT !.delay = d]
    <2>3. w \in WorkerRecords /\ w.at = worker[p].at /\ w.delay = d /\ w.id = worker[p].id
            /\ w.answer = worker[p].answer /\ w.why = worker[p].why
      BY <1>3
    <2>4. worker' = [worker EXCEPT ![p] = w] BY <1>1, <1>5, <2>2
    <2> HIDE DEF w, WorkerRecords
    <2>5. Acts(p, w) BY <1>0, <1>4, <2>1, <2>2, <2>3, <2>4, RecordFacts DEF Acts
    <2> QED BY <2>5, ActsKeeps
  <1>6. CASE ~lost /\ status = 200
    <2> DEFINE w == [worker[p] EXCEPT !.at = "serve", !.answer = 200, !.delay = RetryMin]
    <2>1. RetryMin \in Nat /\ RetryMin \in RetryMin .. RetryMax BY DEF WorkerAssumption
    <2>2. w \in WorkerRecords /\ w.at = "serve" /\ w.delay = RetryMin /\ w.id = worker[p].id
            /\ w.answer = 200 /\ w.why = worker[p].why
      BY <1>3, <2>1
    <2>3. worker' = [worker EXCEPT ![p] = w] BY <1>1, <1>6
    <2> HIDE DEF w, WorkerRecords
    <2>4. Acts(p, w) BY <1>0, <1>4, <2>1, <2>2, <2>3, RecordFacts DEF Acts
    <2> QED BY <2>4, ActsKeeps
  <1>7. CASE ~lost /\ status # 200
    <2>1. Heed(p, status) BY <1>1, <1>7
    <2> QED BY <1>0, <1>2, <1>4, <1>7, <2>1, HeedKeeps
  <1> QED BY <1>5, <1>6, <1>7

\* An exchange is never refused for its size; other troubles pass.
LEMMA ExchangeKeeps ==
  ASSUME WorkerAssumption, ProcessInv, NEW p \in Processes, Exchange(p)
  PROVE  ProcessInv'
  <1>0. /\ worker[p].at = "serve"
        /\ UNCHANGED <<site, lockedBy, idFile, idsMade, sessionsMade, vllm, known>>
    BY DEF Exchange
  <1>1. UNCHANGED worker \/ \E x \in PassingTroubles : Heed(p, StatusOf(x))
    <2>1. \A n \in 0 .. BodyLimit + 2 : ParseControlBody(LocalReply(n)) \cup BrokerCheck(LocalReply(n)) = {}
      BY RepliesFit DEF WorkerAssumption
    <2> QED BY <2>1 DEF Exchange
  <1>2. CASE UNCHANGED worker
    BY <1>0, <1>2 DEF ProcessInv, ProcessTypeOK, LockHeld, IdsAgree, ServersHeld, EndsForCause
  <1>3. CASE \E x \in PassingTroubles : Heed(p, StatusOf(x))
    <2>1. PICK x \in PassingTroubles : Heed(p, StatusOf(x)) BY <1>3
    <2>2. StatusOf(x) \in {200, 400, 401, 409, 429, 500, 503} /\ Retryable(StatusOf(x)) BY TroublesPass
    <2>3. \A y \in known' : y \in known BY <1>0
    <2>4. PICK status \in {200, 400, 401, 409, 429, 500, 503} : status = StatusOf(x) BY <2>2
    <2>5. Heed(p, status) /\ Retryable(status) BY <2>1, <2>2, <2>4
    <2>6. UNCHANGED <<site, lockedBy, idFile, idsMade, sessionsMade, vllm>> BY <1>0
    <2>7. worker[p].at \in {"register", "serve"} BY <1>0
    <2>8. ~Retryable(status) => ~(site.token /\ site.version /\ site.run = "same") BY <2>5
    <2>9. \A y \in known' : y \in known \/ (y[1] = idFile /\ idFile # 0) BY <2>3
    <2> QED BY <2>5, <2>6, <2>7, <2>8, <2>9, HeedKeeps
  <1> QED BY <1>1, <1>2, <1>3

\* A stray server belongs to nobody.
LEMMA StraysKeep == ASSUME ProcessInv, StrayBinds \/ StrayEnds PROVE ProcessInv'
  BY DEF ProcessInv, StrayBinds, StrayEnds, ProcessTypeOK, LockHeld, IdsAgree, ServersHeld, EndsForCause

LEMMA StutterProcess == ASSUME ProcessInv, UNCHANGED procVars PROVE ProcessInv'
  BY DEF procVars, ProcessInv, ProcessTypeOK, LockHeld, IdsAgree, ServersHeld, EndsForCause

LEMMA InitProcess == ASSUME WorkerAssumption, Init PROVE ProcessInv
  <1> USE DEF WorkerAssumption, Init, Resting
  <1>1. ProcessTypeOK
    <2>1. worker \in [Processes -> WorkerRecords] OBVIOUS
    <2>2. site \in [token : BOOLEAN, version : BOOLEAN, gpu : BOOLEAN,
                    differs : {Nobody} \cup ModelFields \cup TokenizerFields, run : {"same",
                       "other"}] OBVIOUS
    <2> QED BY <2>1, <2>2 DEF ProcessTypeOK
  <1>2. LockHeld /\ IdsAgree /\ ServersHeld BY DEF LockHeld, IdsAgree, ServersHeld
  <1>3. EndsForCause BY DEF EndsForCause
  <1> QED BY <1>1, <1>2, <1>3 DEF ProcessInv

\* However the processes of a state directory start, stop and die: one acts
\* at a time and under one id, its server is gone when it has ended, and it
\* ends on an answer only if the answer would not change (the lock and the id
\* of WorkerState, WorkerVLLMSupervisor, the daemon's retries).
THEOREM WorkersAreSound ==
  ASSUME WorkerAssumption
  PROVE  Spec => [](OneWorkerPerState /\ EndsForCause /\ ServerOwned)
  <1>1. Init => ProcessInv BY InitProcess
  <1>2. ProcessInv /\ [Next]_procVars => ProcessInv'
    <2> SUFFICES ASSUME ProcessInv, [Next]_procVars PROVE ProcessInv' OBVIOUS
    <2>1. CASE UNCHANGED procVars BY <2>1, StutterProcess
    <2>2. CASE Next
      BY <2>2, OpenStateKeeps, DiscoverBaseModelIdentityKeeps, LoadWorkerIdKeeps, LinkWorkerIdKeeps,
         BuildRegistrationKeeps, StartServerKeeps, BindKeeps, ServerDiesKeeps, AwaitReadyKeeps,
            RegisterKeeps,
         ExchangeKeeps, MonitorKeeps, StopKeeps, StopServerKeeps, CloseStateKeeps, KillKeeps,
            StraysKeep
         DEF Next
    <2> QED BY <2>1, <2>2
  <1>3. ProcessInv => OneWorkerPerState /\ EndsForCause /\ ServerOwned
    <2> SUFFICES ASSUME ProcessInv PROVE OneWorkerPerState /\ ServerOwned BY DEF ProcessInv
    <2>1. OneWorkerPerState BY DEF ProcessInv, OneWorkerPerState, IdsAgree, LockHeld
    <2>2. ServerOwned BY DEF ProcessInv, ServerOwned, ServersHeld, LockHeld, ProcessTypeOK
    <2> QED BY <2>1, <2>2
  <1> QED BY <1>1, <1>2, <1>3, PTL DEF Spec

=============================================================================
