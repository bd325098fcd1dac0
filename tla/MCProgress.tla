----------------------------- MODULE MCProgress -----------------------------
(***************************************************************************)
(* The progress of the coordinator's work and of its training queue, side  *)
(* by side: a behaviour moves the one in focus, so their states add up.    *)
(* Time, the reaper and the service loop are scheduled by the code; workers*)
(* and the trainer are not.                                                *)
(***************************************************************************)
EXTENDS MCCoordinator

VARIABLES
    focus,
    finished, pool, processed, recorded, groupFiles, batchFiles, exported, exportedTo,
    newest, weights, position, picked, held, starting, crashes

\* Groups both kept, partly emptied by a filter, or with an error.
FewShapes == {<<"kept", "kept">>, <<"postfiltered", "kept">>, <<"kept", "error">>}

Queue == INSTANCE TrainingQueue WITH
    BatchSize <- 1, MaxPolicyLag <- 1, RequiresGroupScoring <- TRUE, Shape <- FewShapes,
    MaxGroups <- 2, MaxSteps <- 4, MaxPolicy <- 2, MaxCrashes <- 1,
    group <- finished, rollouts <- pool, batches <- recorded, active <- newest, pc <- position

ASSUME Queue!QueueAssumption

queueVars == <<finished, pool, processed, recorded, groupFiles, batchFiles, exported, exportedTo,
               newest, weights, position, picked, held, starting, crashes>>

ProgressInit == focus \in {"work", "queue"} /\ Init /\ Queue!Init

WorkNext == focus = "work" /\ Next /\ UNCHANGED <<focus, queueVars>>
QueueNext == focus = "queue" /\ Queue!Next /\ UNCHANGED <<focus, vars>>

ProgressNext == WorkNext \/ QueueNext

\* The fairness each component states, of the one that moves.
ProgressSpec ==
    /\ ProgressInit /\ [][ProgressNext]_<<focus, vars, queueVars>>
    /\ WF_vars(focus = "work" /\ Tick)
    /\ WF_vars(focus = "work" /\ ExpireLeases)
    /\ WF_vars(focus = "work" /\ \E q \in Request : Generate(q) \/ GenerateNothing(q) \/ LeaseGenerated(q))
    /\ WF_vars(focus = "work" /\ CommitResult)
    /\ WF_vars(focus = "work" /\ Recover)
    /\ WF_queueVars(focus = "queue" /\ Queue!Serve)

-----------------------------------------------------------------------------
\* Nothing that was finished is stuck: every group is processed and every
\* recorded batch reaches the trainer (the service loop of CoordinatorRuntime).
QueueMoves == Queue!QueueMoves
=============================================================================
