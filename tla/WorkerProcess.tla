--------------------------- MODULE WorkerProcess ----------------------------
(***************************************************************************)
(* The life of a worker process, from the lock on its state directory to   *)
(* the end of its vLLM server, and the answers of the coordinator's HTTP   *)
(* interface that decide whether it goes on.  Two processes may be started *)
(* on one state directory, and any of them may be killed.                  *)
(***************************************************************************)
EXTENDS Integers, FiniteSets, FiniteSetsExt

CONSTANTS
  Processes,    \* worker processes started on the state directory
  MaxLaunches,  \* bound: starts of worker processes
  MaxTroubles,  \* bound: failures of the server, lost requests, retryable answers
  RetryMin, RetryMax,
  BodyLimit,    \* inference_body_limit_bytes, of the worker and of the coordinator
  Slack,        \* what the interface allows beyond twice that limit (1 MiB)
  Nobody

WorkerAssumption ==
  /\ Nobody \notin Processes
  /\ RetryMin \in Nat \ {0} /\ RetryMax \in Nat /\ RetryMax >= RetryMin
  /\ BodyLimit \in Nat \ {0} /\ Slack \in Nat /\ Slack >= 6

VARIABLES
  site,       \* the deployment: is the token right, the protocol version, which
              \* field of the model's pinned identity differs, is there a GPU
  lockedBy,   \* holder of worker.lock
  idFile,     \* identity/worker-id, 0 if there is none
  idsMade, sessionsMade,
  worker,     \* per process: position, worker id, session, retry delay, last answer, why it ends
  vllm,       \* its inference server: "none", "loading", "listening", "exited"
  strays,     \* servers of killed workers: how many load, how many listen
  known,      \* the coordinator's worker_sessions: <<worker id, session>>
  launches, troubles

procVars == <<site, lockedBy, idFile, idsMade, sessionsMade, worker, vllm, strays, known, launches, troubles>>

Resting == [at |-> "down", id |-> 0, session |-> 0, delay |-> 0, answer |-> 0, why |-> "none"]

-----------------------------------------------------------------------------
(* The interface's answers.                                                *)

\* Middleware: the token first, then the header's protocol version.
Admission == IF ~site.token THEN 401 ELSE IF ~site.version THEN 400 ELSE 200

\* The exception handlers.
StatusOf(error) ==
  CASE error \in {"conflict", "incompatible", "invalid_state", "identity_mismatch"} -> 409
    [] error = "not_found" -> 404
    [] error = "malformed" -> 422
    [] error = "too_large" -> 413
    [] error = "capacity" -> 429
    [] error \in {"database_busy", "trainer_unavailable", "lease_pending", "inference_unavailable"} -> 503
    [] error \in {"database_failure", "artifact_corruption", "internal"} -> 500

\* Troubles that pass.
PassingTroubles == {"capacity", "database_busy", "trainer_unavailable", "lease_pending", "internal"}

\* A reply's body travels as base64 inside JSON; the parser's limit is on the
\* encoded request, the broker's on the decoded body.
Encoded(n) == 4 * ((n + 2) \div 3)
Overhead == 4
ParseControlBody(n) == IF Encoded(n) + Overhead > (2 * BodyLimit) + Slack THEN {"too_large"} ELSE {}
BrokerCheck(n) == IF n > BodyLimit THEN {"malformed"} ELSE {}
\* The worker replaces a body beyond its limit by an error of its own.
LocalReply(n) == IF n > BodyLimit THEN 1 ELSE n

Retryable(status) == status \in {408, 425, 429} \/ status >= 500

-----------------------------------------------------------------------------
\* What calculate_base_model_identity derives from the pinned artifacts: the
\* model's, and the tokenizer's digests.
ModelFields == {"config", "vocab"}
TokenizerFields == {"tokenizer", "chat_template"}

Go(p, where) == worker' = [worker EXCEPT ![p].at = where]
EndOf(p, why) == worker' = [worker EXCEPT ![p] = [@ EXCEPT !.at = "ending", !.why = why]]

Init ==
  /\ site \in [token : BOOLEAN, version : BOOLEAN, gpu : BOOLEAN,
               differs : {Nobody} \cup ModelFields \cup TokenizerFields,
               run : {"same", "other"}]
  /\ Cardinality({f \in {"token", "version", "gpu"} : ~site[f]})
       + (IF site.differs = Nobody THEN 0 ELSE 1) + (IF site.run = "same" THEN 0 ELSE 1) <= 1
  /\ lockedBy = Nobody /\ idFile = 0 /\ idsMade = 0 /\ sessionsMade = 0
  /\ worker = [p \in Processes |-> Resting]
  /\ vllm = [p \in Processes |-> "none"]
  /\ strays = [loading |-> 0, listening |-> 0] /\ known = {} /\ launches = 0 /\ troubles = 0

\* WorkerState: the lock, or the process ends at once.
OpenState(p) ==
  /\ worker[p].at = "down" /\ launches < MaxLaunches
  /\ launches' = launches + 1
  /\ IF lockedBy = Nobody THEN lockedBy' = p /\ worker' = [worker EXCEPT ![p] = [Resting EXCEPT !.at = "locked"]]
     ELSE UNCHANGED <<lockedBy, worker>>
  /\ UNCHANGED <<site, idFile, idsMade, sessionsMade, vllm, strays, known, troubles>>

\* discover_base_model_identity: every field of the pinned identity is
\* recomputed from the artifacts.
DiscoverBaseModelIdentity(p) ==
  /\ worker[p].at = "locked"
  /\ IF site.differs = Nobody THEN Go(p, "identified") ELSE Go(p, "closing")
  /\ UNCHANGED <<site, lockedBy, idFile, idsMade, sessionsMade, vllm, strays, known, launches, troubles>>

\* load_or_create_worker_id: the file's id, or a new one in a temporary file.
LoadWorkerId(p) ==
  /\ worker[p].at = "identified"
  /\ IF idFile # 0
     THEN worker' = [worker EXCEPT ![p] = [@ EXCEPT !.at = "named", !.id = idFile]] /\ UNCHANGED idsMade
     ELSE /\ idsMade' = idsMade + 1
          /\ worker' = [worker EXCEPT ![p] = [@ EXCEPT !.at = "linking", !.id = idsMade + 1]]
  /\ UNCHANGED <<site, lockedBy, idFile, sessionsMade, vllm, strays, known, launches, troubles>>

\* os.link never replaces a file that is there.
LinkWorkerId(p) ==
  /\ worker[p].at = "linking"
  /\ idFile' = IF idFile = 0 THEN worker[p].id ELSE idFile
  /\ worker' = [worker EXCEPT ![p] = [@ EXCEPT !.at = "named", !.id = idFile']]
  /\ UNCHANGED <<site, lockedBy, idsMade, sessionsMade, vllm, strays, known, launches, troubles>>

\* build_registration, with a new session.
BuildRegistration(p) ==
  /\ worker[p].at = "named"
  /\ sessionsMade' = sessionsMade + 1
  /\ IF site.gpu THEN worker' = [worker EXCEPT ![p] = [@ EXCEPT !.at = "built", !.session = sessionsMade + 1]]
     ELSE Go(p, "closing")
  /\ UNCHANGED <<site, lockedBy, idFile, idsMade, vllm, strays, known, launches, troubles>>

\* The server's configuration is written aside and moved into place, so a
\* server never reads a torn one; then the server is started.
StartServer(p) ==
  /\ worker[p].at = "built"
  /\ vllm' = [vllm EXCEPT ![p] = "loading"]
  /\ Go(p, "starting")
  /\ UNCHANGED <<site, lockedBy, idFile, idsMade, sessionsMade, strays, known, launches, troubles>>

\* _ready asks whatever listens on the port.
PortTaken == strays.listening > 0 \/ \E q \in Processes : vllm[q] = "listening"

\* The server takes its port, or ends because another one has it.
Bind(p) ==
  /\ vllm[p] = "loading"
  /\ vllm' = [vllm EXCEPT ![p] = IF PortTaken THEN "exited" ELSE "listening"]
  /\ UNCHANGED <<site, lockedBy, idFile, idsMade, sessionsMade, worker, strays, known, launches, troubles>>

ServerDies(p) ==
  /\ vllm[p] \in {"loading", "listening"} /\ troubles < MaxTroubles
  /\ vllm' = [vllm EXCEPT ![p] = "exited"] /\ troubles' = troubles + 1
  /\ UNCHANGED <<site, lockedBy, idFile, idsMade, sessionsMade, worker, strays, known, launches>>

\* WorkerVLLMSupervisor.start: an exit, then whatever answers on the port,
\* then the deadline.
AwaitReady(p) ==
  /\ worker[p].at = "starting"
  /\ CASE vllm[p] = "exited" -> EndOf(p, "server")
       [] vllm[p] # "exited" /\ PortTaken ->
            worker' = [worker EXCEPT ![p] = [@ EXCEPT !.at = "register", !.delay = RetryMin]]
       [] OTHER -> troubles < MaxTroubles /\ EndOf(p, "timeout")
  /\ troubles' = IF vllm[p] # "exited" /\ ~PortTaken THEN troubles + 1 ELSE troubles
  /\ UNCHANGED <<site, lockedBy, idFile, idsMade, sessionsMade, vllm, strays, known, launches>>

Pause(delay) == Min({2 * delay, RetryMax})

\* What the worker does with an answer that is not the expected one.
Heed(p, status) ==
  worker' = [worker EXCEPT ![p] =
    IF Retryable(status) THEN [worker[p] EXCEPT !.answer = status, !.delay = Pause(worker[p].delay)]
    ELSE [worker[p] EXCEPT !.answer = status, !.at = "ending", !.why = "answer"]]

\* register_worker compares the base model; a session seen before is no error.
RegisterAnswers ==
  IF Admission # 200 THEN {Admission}
  ELSE IF site.run = "other" THEN {StatusOf("incompatible")}
  ELSE {200}
         \cup (IF troubles < MaxTroubles THEN {StatusOf(x) : x \in PassingTroubles} ELSE {})

\* _register; the answer to a registration may be lost after it is recorded.
Register(p) ==
  /\ worker[p].at = "register"
  /\ \E status \in RegisterAnswers, lost \in BOOLEAN :
       /\ lost => troubles < MaxTroubles
       /\ known' = IF status = 200 THEN known \cup {<<worker[p].id, worker[p].session>>} ELSE known
       /\ IF lost THEN worker' = [worker EXCEPT ![p].delay = Pause(@)]
          ELSE IF status = 200 THEN worker' = [worker EXCEPT ![p] = [@ EXCEPT !.at = "serve", !.answer = 200, !.delay = RetryMin]]
          ELSE Heed(p, status)
       /\ troubles' = IF lost \/ Retryable(status) THEN troubles + 1 ELSE troubles
  /\ UNCHANGED <<site, lockedBy, idFile, idsMade, sessionsMade, vllm, strays, launches>>

\* An exchange with the reply of the local server, whatever its size.
Exchange(p) ==
  /\ worker[p].at = "serve"
  /\ \E n \in 0 .. BodyLimit + 2 :
       LET sent   == LocalReply(n)
           errors == ParseControlBody(sent) \cup BrokerCheck(sent)
       IN \/ errors = {} /\ UNCHANGED <<worker, troubles>>
          \/ \E x \in errors : Heed(p, StatusOf(x)) /\ UNCHANGED troubles
          \/ /\ errors = {} /\ troubles < MaxTroubles /\ troubles' = troubles + 1
             /\ \E x \in PassingTroubles : Heed(p, StatusOf(x))
  /\ UNCHANGED <<site, lockedBy, idFile, idsMade, sessionsMade, vllm, strays, known, launches>>

\* monitor: the server's exit ends the worker.
Monitor(p) ==
  /\ worker[p].at = "serve" /\ vllm[p] = "exited"
  /\ EndOf(p, "server")
  /\ UNCHANGED <<site, lockedBy, idFile, idsMade, sessionsMade, vllm, strays, known, launches, troubles>>

\* SIGTERM or SIGINT.
Stop(p) ==
  /\ worker[p].at \in {"starting", "register", "serve"}
  /\ EndOf(p, "signal")
  /\ UNCHANGED <<site, lockedBy, idFile, idsMade, sessionsMade, vllm, strays, known, launches, troubles>>

\* cleanup_process: the whole process tree.
Cleaned(p) == [vllm EXCEPT ![p] = "none"]

\* supervisor.stop: SIGTERM, then SIGKILL.
StopServer(p) ==
  /\ worker[p].at = "ending"
  /\ vllm' = Cleaned(p)
  /\ Go(p, "closing")
  /\ UNCHANGED <<site, lockedBy, idFile, idsMade, sessionsMade, strays, known, launches, troubles>>

CloseState(p) ==
  /\ worker[p].at = "closing"
  /\ lockedBy' = Nobody
  /\ worker' = [worker EXCEPT ![p].at = "down"]
  /\ UNCHANGED <<site, idFile, idsMade, sessionsMade, vllm, strays, known, launches, troubles>>

\* SIGKILL: the kernel drops the lock; the server, a child, lives on.
Kill(p) ==
  /\ worker[p].at # "down" /\ launches < MaxLaunches
  /\ lockedBy' = Nobody
  /\ worker' = [worker EXCEPT ![p] = Resting]
  /\ strays' = IF vllm[p] \in {"loading", "listening"} THEN [strays EXCEPT ![vllm[p]] = @ + 1] ELSE strays
  /\ vllm' = [vllm EXCEPT ![p] = "none"]
  /\ UNCHANGED <<site, idFile, idsMade, sessionsMade, known, launches, troubles>>

\* One that was still loading takes the port later, or ends because it is taken.
StrayBinds ==
  /\ strays.loading > 0
  /\ strays' = [loading |-> strays.loading - 1,
                listening |-> strays.listening + IF PortTaken THEN 0 ELSE 1]
  /\ UNCHANGED <<site, lockedBy, idFile, idsMade, sessionsMade, worker, vllm, known, launches, troubles>>

StrayEnds ==
  /\ \E phase \in {"loading", "listening"} : strays[phase] > 0 /\ strays' = [strays EXCEPT ![phase] = @ - 1]
  /\ UNCHANGED <<site, lockedBy, idFile, idsMade, sessionsMade, worker, vllm, known, launches, troubles>>

Next ==
  \/ \E p \in Processes :
       \/ OpenState(p) \/ DiscoverBaseModelIdentity(p) \/ LoadWorkerId(p) \/ LinkWorkerId(p)
       \/ BuildRegistration(p) \/ StartServer(p) \/ Bind(p) \/ ServerDies(p) \/ AwaitReady(p) \/ Register(p)
       \/ Exchange(p) \/ Monitor(p) \/ Stop(p) \/ StopServer(p) \/ CloseState(p) \/ Kill(p)
  \/ StrayBinds \/ StrayEnds

Spec == Init /\ [][Next]_procVars

-----------------------------------------------------------------------------
\* However the processes start, stop and die, the state directory names one
\* worker to the coordinator, and one process at a time acts for it.
OneWorkerPerState ==
  /\ \A x, y \in known : x[1] = y[1]
  /\ \A p, q \in Processes : worker[p].at # "down" /\ worker[q].at # "down" => p = q

\* A worker ends on an answer only if repeating the request would not change
\* it; a reply it was willing to send is never refused for its size, and the
\* pause between two tries stays within the configured bounds.
EndsForCause ==
  \A p \in Processes :
    /\ worker[p].why = "answer" =>
         ~(site.token /\ site.version /\ site.run = "same" /\ site.differs = Nobody)
    /\ worker[p].answer \notin {413, 422}
    /\ worker[p].at \in {"register", "serve"} => worker[p].delay \in RetryMin .. RetryMax

\* A worker that has ended, other than by being killed, leaves no server, and
\* while its server starts or runs the worker holds the lock.
ServerOwned ==
  \A p \in Processes :
    /\ worker[p].at \in {"down", "closing"} => vllm[p] = "none"
    /\ vllm[p] # "none" => lockedBy = p
=============================================================================
