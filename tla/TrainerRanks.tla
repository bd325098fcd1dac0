---------------------------- MODULE TrainerRanks ----------------------------
(***************************************************************************)
(* The ranks of the trainer from start-up to the end of a step: the master *)
(* discovers the run on disk, packs batches and writes micro-batch files;  *)
(* the other ranks follow through a key of the store and those files, and  *)
(* all of them meet in collectives.  Run directories come and go under the *)
(* trainer, and the trainer crashes and starts again.                      *)
(*                                                                         *)
(* There is one run id; every directory made for it is a life of its own.  *)
(***************************************************************************)
EXTENDS Integers, Sequences, FiniteSets

CONSTANTS
    Ranks,          \* ranks, of which 0 is the master
    LastStep,       \* bound: batches exported to one life
    MaxLives,       \* bound: directories made for the run
    MaxCrashes      \* bound: restarts of the trainer

Master == 0
Others == Ranks \ {Master}

RanksAssumption == Ranks \subseteq Nat /\ Master \in Ranks

VARIABLES
    life,       \* lives so far
    dir,        \* the run's directory: "none", "husk" (no orch.toml), "invalid", "valid"
    exported,   \* batches exported to this life
    view,       \* a rank's run: life whose config it holds (0: no run), progress, ready_to_update
    known,      \* the run is in the master's _last_synced_id_2_idx
    received,   \* _received_steps of the receiver, 0 if not set
    store,      \* the key "runs"
    carried,    \* the key carries the run's config
    late,       \* the master changed the key before a rank had read it
    resets,     \* parameter resets and creation hooks a rank has run
    at,         \* position of every rank
    packing,    \* batch being sent, <<life, step>>, and the ranks whose file is missing
    sendStep,   \* current_step of the sender
    recvStep,   \* current_step of a rank's receiver
    files,      \* micro-batch files: <<step, rank, batch>>
    input,      \* what a rank trains on in this step
    done,       \* last step the trainer has checkpointed
    restarts

runVars == <<life, dir, exported>>
rankVars == <<view, known, received, store, carried, late, resets>>
fileVars == <<packing, sendStep, recvStep, files, input>>
ranksVars == <<runVars, rankVars, fileVars, at, done, restarts>>

NoRun == [run |-> 0, step |-> 0, ready |-> FALSE]
NoBatch == <<0, 0>>
Idle == [batch |-> NoBatch, left |-> {}]

\* A trainer process that starts: everything in memory is new.
Fresh ==
    /\ view' = [r \in Ranks |-> NoRun]
    /\ known' = FALSE /\ received' = 0 /\ store' = NoRun /\ carried' = FALSE /\ late' = FALSE
    /\ resets' = [r \in Ranks |-> 0]
    /\ at' = [r \in Ranks |-> "find"]
    /\ packing' = Idle
    /\ sendStep' = done + 1
    /\ recvStep' = [r \in Ranks |-> done + 1]
    /\ input' = [r \in Ranks |-> NoBatch]

Init ==
    /\ life = 0 /\ dir = "none" /\ exported = 0
    /\ view = [r \in Ranks |-> NoRun]
    /\ known = FALSE /\ received = 0 /\ store = NoRun /\ carried = FALSE /\ late = FALSE
    /\ resets = [r \in Ranks |-> 0]
    /\ at = [r \in Ranks |-> "find"]
    /\ packing = Idle
    /\ sendStep = 1
    /\ recvStep = [r \in Ranks |-> 1]
    /\ files = {}
    /\ input = [r \in Ranks |-> NoBatch]
    /\ done = 0 /\ restarts = 0

Goto(r, where) == at' = [at EXCEPT ![r] = where]

-----------------------------------------------------------------------------
(* The run's directory, which the coordinator or an operator changes.      *)

CreateRun ==
    /\ dir = "none" /\ life < MaxLives
    /\ life' = life + 1 /\ exported' = 0
    /\ dir' \in {"valid", "invalid"}
    /\ UNCHANGED <<rankVars, fileVars, at, done, restarts>>

FixConfig ==
    /\ dir = "invalid" /\ dir' = "valid"
    /\ UNCHANGED <<life, exported, rankVars, fileVars, at, done, restarts>>

DeleteRun ==
    /\ dir \in {"valid", "invalid"} /\ dir' = "none"
    /\ UNCHANGED <<life, exported, rankVars, fileVars, at, done, restarts>>

\* The coordinator exports its batches in order.
Export ==
    /\ dir = "valid" /\ exported < LastStep
    /\ exported' = exported + 1
    /\ UNCHANGED <<life, dir, rankVars, fileVars, at, done, restarts>>

-----------------------------------------------------------------------------
(* discover_runs and synchronize_state.                                    *)

\* The view after discover_runs: a run whose directory is gone is forgotten, a
\* new one is taken up if its config parses, and one that was replaced since
\* the last look is not noticed.
Discovered ==
    LET kept == IF dir = "none" THEN [NoRun EXCEPT !.ready = view[Master].ready] ELSE view[Master]
    IN IF kept.run = 0 /\ dir = "valid"
       THEN [run |-> life, step |-> IF life = 1 THEN done + 1 ELSE 1, ready |-> kept.ready]
       ELSE kept

\* The master writes the key: its runs, and the config of a run that is new
\* since its last synchronisation.  Only the barrier orders the ranks, so one
\* that has passed it may still have to read what the master now replaces.
Write(run) ==
    /\ store' = run
    /\ carried' = (run.run # 0 /\ ~known)
    /\ late' = (late \/ (/\ <<store, carried>>' # <<store, carried>>
                       /\ \E r \in Others : at[r] \in {"adopt", "adoptStep"}))

\* wait_for_run on the master, and the store half of synchronize_state.
Find ==
    /\ at[Master] = "find"
    /\ view[Master].run = 0
    /\ view' = [view EXCEPT ![Master] = Discovered]
    /\ Write(Discovered)
    /\ Goto(Master, "barrier")
    /\ UNCHANGED <<runVars, known, received, resets, fileVars, done, restarts>>

\* wait_for_run on the other ranks.
FindOther(r) ==
    /\ r \in Others /\ at[r] = "find" /\ view[r].run = 0
    /\ Goto(r, "barrier")
    /\ UNCHANGED <<runVars, rankVars, fileVars, done, restarts>>

\* The run is there: the optimizer is built, and a checkpoint is loaded together.
Found(r) ==
    /\ at[r] = "find" /\ view[r].run # 0
    /\ Goto(r, IF done = 0 THEN "setup" ELSE "load")
    /\ UNCHANGED <<runVars, rankVars, fileVars, done, restarts>>

\* The data loader.  The packer removes the micro-batch files of an earlier process.
Setup(r) ==
    /\ at[r] = "setup"
    /\ files' = IF r = Master THEN {} ELSE files
    /\ Goto(r, IF r = Master THEN "pack" ELSE "wait")
    /\ UNCHANGED <<runVars, rankVars, packing, sendStep, recvStep, input, done, restarts>>

\* A collective lets everyone pass once everyone has reached it.
Pass(here, next(_)) ==
    /\ \A r \in Ranks : at[r] \in here
    /\ at' = [r \in Ranks |-> next(r)]
    /\ UNCHANGED <<runVars, rankVars, fileVars, done, restarts>>

Load == Pass({"load"}, LAMBDA r : "setup")

\* The barrier of synchronize_state, in wait_for_run and in wait_for_batch.
Barriers == {"barrier", "stepBarrier"}
Barrier == Pass(Barriers, LAMBDA r : IF at[r] = "barrier" THEN "adopt" ELSE "adoptStep")

\* The rest of synchronize_state on the master: hooks for what is new since
\* the last synchronisation.
AdoptMaster ==
    /\ at[Master] \in {"adopt", "adoptStep"}
    /\ resets' = [resets EXCEPT ![Master] = IF view[Master].run # 0 /\ ~known THEN @ + 1 ELSE @]
    /\ known' = (view[Master].run # 0)
    /\ Goto(Master, IF at[Master] = "adopt" THEN "find" ELSE "get")
    /\ UNCHANGED <<runVars, view, received, store, carried, late, fileVars, done, restarts>>

\* What another rank makes of the store: the config only comes with a run that
\* is new to the master, so a rank that knows the id keeps the one it has.
Adopted(old) ==
    [run |-> IF store.run = 0 THEN 0 ELSE IF old.run = 0 THEN store.run ELSE old.run,
     step |-> store.step, ready |-> store.ready]

\* A run this rank has not got, of which the key holds no config.
Unexplained(r) == view[r].run = 0 /\ store.run # 0 /\ ~carried

AdoptOther(r) ==
    /\ r \in Others /\ at[r] \in {"adopt", "adoptStep"} /\ ~Unexplained(r)
    /\ view' = [view EXCEPT ![r] = Adopted(@)]
    /\ resets' = [resets EXCEPT ![r] = IF view[r].run = 0 /\ store.run # 0 THEN @ + 1 ELSE @]
    /\ Goto(r, IF at[r] = "adopt" THEN "find" ELSE "get")
    /\ UNCHANGED <<runVars, known, received, store, carried, late, fileVars, done, restarts>>

\* new_configs has no such key: the rank raises and the trainer ends.
AdoptFails(r) ==
    /\ r \in Others /\ at[r] \in {"adopt", "adoptStep"} /\ Unexplained(r)
    /\ at' = [q \in Ranks |-> "failed"]
    /\ UNCHANGED <<runVars, rankVars, fileVars, done, restarts>>

-----------------------------------------------------------------------------
(* Packer.pack, the micro-batch files and wait_for_batch.                  *)

Discover ==
    /\ at[Master] = "pack"
    /\ view[Master] # Discovered
    /\ view' = [view EXCEPT ![Master] = Discovered]
    /\ UNCHANGED <<runVars, known, received, store, carried, late, resets, fileVars, at, done, restarts>>

\* _get_received_step: from the progress when it is first asked, and never
\* again; reset_run has no caller.
NextStep == IF received = 0 THEN view[Master].step ELSE received

\* receive, and the head of pack: progress moves on before the batch is sent.
ReceiveBatch ==
    /\ at[Master] = "pack"
    /\ view[Master].run # 0 /\ ~view[Master].ready
    /\ dir \in {"valid", "invalid"} /\ exported >= NextStep
    /\ received' = NextStep + 1
    /\ view' = [view EXCEPT ![Master] = [@ EXCEPT !.ready = TRUE, !.step = view[Master].step + 1]]
    /\ packing' = [batch |-> <<life, NextStep>>, left |-> Ranks]
    /\ Goto(Master, "send")
    /\ UNCHANGED <<runVars, known, store, carried, late, resets, sendStep, recvStep, files, input, done, restarts>>

\* One file per rank, moved into place when it is complete.
SendFile(r) ==
    /\ at[Master] = "send" /\ r \in packing.left
    /\ \A q \in packing.left : r <= q
    /\ files' = {f \in files : ~(f[1] = sendStep /\ f[2] = r)} \cup {<<sendStep, r, packing.batch>>}
    /\ packing' = [packing EXCEPT !.left = @ \ {r}]
    /\ UNCHANGED <<runVars, rankVars, sendStep, recvStep, input, at, done, restarts>>

Sent ==
    /\ at[Master] = "send" /\ packing.left = {}
    /\ sendStep' = sendStep + 1
    /\ packing' = Idle
    /\ Goto(Master, "wait")
    /\ UNCHANGED <<runVars, rankVars, recvStep, files, input, done, restarts>>

\* receiver.wait: any file of that name will do.
Wait(r) ==
    /\ at[r] = "wait"
    /\ \E f \in files : f[1] = recvStep[r] /\ f[2] = r
    /\ IF r = Master THEN Write(view[Master]) ELSE UNCHANGED <<store, carried, late>>
    /\ Goto(r, "stepBarrier")
    /\ UNCHANGED <<runVars, view, known, received, resets, fileVars, done, restarts>>

Get(r) ==
    /\ at[r] = "get"
    /\ \E f \in files :
         /\ f[1] = recvStep[r] /\ f[2] = r
         /\ input' = [input EXCEPT ![r] = f[3]]
    /\ recvStep' = [recvStep EXCEPT ![r] = @ + 1]
    /\ Goto(r, "reduce")
    /\ UNCHANGED <<runVars, rankVars, packing, sendStep, files, done, restarts>>

\* The loss scales are summed over all ranks, then everyone trains.
Train == Pass({"reduce"}, LAMBDA r : "broadcast")

-----------------------------------------------------------------------------
(* broadcast_weights and the checkpoint.                                   *)

\* Tensors are gathered for every run that is ready.
Gather ==
    Pass({"broadcast"}, LAMBDA r : IF r = Master /\ view[r].ready THEN "publish" ELSE "checkpoint")

\* A run that was deleted meanwhile is skipped; the others are written, which
\* makes the directory again if it goes at that moment.
Publish ==
    /\ at[Master] = "publish"
    /\ \/ /\ dir = "none"
          /\ view' = [view EXCEPT ![Master].ready = FALSE]
          /\ Goto(Master, "checkpoint")
          /\ UNCHANGED dir
       \/ /\ dir # "none"
          /\ dir' \in {dir, "husk"}
          /\ Goto(Master, "recheck")
          /\ UNCHANGED view
    /\ UNCHANGED <<life, exported, known, received, store, carried, late, resets, fileVars, done, restarts>>

\* ... and a directory without its config is removed again.
Recheck ==
    /\ at[Master] = "recheck" /\ dir # "none"
    /\ dir' = IF dir = "husk" THEN "none" ELSE dir
    /\ view' = [view EXCEPT ![Master].ready = FALSE]
    /\ Goto(Master, "checkpoint")
    /\ UNCHANGED <<life, exported, known, received, store, carried, late, resets, fileVars, done, restarts>>

\* If the directory has gone as a whole, rmtree raises and the trainer ends.
RecheckFails ==
    /\ at[Master] = "recheck" /\ dir = "none"
    /\ at' = [r \in Ranks |-> "failed"]
    /\ UNCHANGED <<runVars, rankVars, fileVars, done, restarts>>

Checkpoint ==
    /\ \A r \in Ranks : at[r] = "checkpoint"
    /\ done' = recvStep[Master] - 1
    /\ at' = [r \in Ranks |-> IF r = Master THEN "pack" ELSE "wait"]
    /\ UNCHANGED <<runVars, rankVars, fileVars, restarts>>

\* The whole process group dies and torchrun starts it again.
Crash ==
    /\ restarts < MaxCrashes /\ restarts' = restarts + 1
    /\ Fresh
    /\ dir' = IF dir = "husk" THEN "none" ELSE dir
    /\ UNCHANGED <<life, exported, files, done>>

-----------------------------------------------------------------------------
Next ==
    \/ CreateRun \/ FixConfig \/ DeleteRun \/ Export
    \/ Find \/ Load \/ Barrier \/ AdoptMaster \/ Discover \/ ReceiveBatch \/ Sent
    \/ Train \/ Gather \/ Publish \/ Recheck \/ RecheckFails \/ Checkpoint \/ Crash
    \/ \E r \in Ranks :
         FindOther(r) \/ Found(r) \/ Setup(r) \/ AdoptOther(r) \/ AdoptFails(r) \/ SendFile(r) \/ Wait(r) \/ Get(r)

Spec == Init /\ [][Next]_ranksVars

-----------------------------------------------------------------------------
\* Collectives, each with the places where a rank waits in it.
Collectives == {Barriers, {"load"}, {"reduce"}, {"broadcast"}, {"checkpoint"}}

Blocked(r) ==
    \/ \E c \in Collectives : at[r] \in c
    \/ at[r] = "wait" /\ ~\E f \in files : f[1] = recvStep[r] /\ f[2] = r

\* Ranks never wait for each other for ever: when all of them wait, they wait
\* in the same collective.
CollectivesMatch ==
    (\A r \in Ranks : Blocked(r)) => \E c \in Collectives : \A r \in Ranks : at[r] \in c

\* When the ranks train, they hold micro batches of one batch, agree which run
\* is ready, where it stands and how often its parameters were initialised.
RanksAgree ==
    (\A r \in Ranks : at[r] \in {"reduce", "broadcast"}) =>
        \A r \in Others :
            /\ input[r] = input[Master]
            /\ view[r].ready = view[Master].ready /\ view[r].step = view[Master].step
            /\ (view[r].run = 0) = (view[Master].run = 0)
            /\ resets[r] = resets[Master]

\* A run comes with its config, and its hooks run on every rank in the same
\* round: a rank is ahead of the master only between one barrier and the next.
HooksTogether ==
    \A r \in Others :
        /\ at[r] \in {"adopt", "adoptStep"} => ~Unexplained(r)
        /\ resets[r] > resets[Master] => at[Master] \in {"adopt", "adoptStep"}

\* The ranks agree when they train, and move together as long as every rank
\* reads the key before the master changes it.
RanksTogether == RanksAgree /\ (~late => CollectivesMatch /\ HooksTogether)

=============================================================================
