----------------------------- MODULE MCServing -----------------------------
(***************************************************************************)
(* The components that serve a lease, checked side by side: the inference  *)
(* exchange, the worker's policies, episodes and the transfer of policies. *)
(* They share no state at this level of detail, so a behaviour moves one   *)
(* of them, the one in focus, and the states of the four add up instead of *)
(* being multiplied.  All four are extended, so that the runs check the    *)
(* very definitions the theorems state.                                    *)
(***************************************************************************)
EXTENDS InferenceBroker, PolicyTransfer, WorkerPolicies, Episodes, TLC

VARIABLE focus

ASSUME BrokerAssumption
ASSUME TransferAssumption
ASSUME WorkerAssumption
ASSUME EpisodesAssumption

MCSize == [p \in Adapters |-> 1]

ServingInit ==
    /\ focus \in {"broker", "node", "runner", "transfer"}
    /\ Init /\ TransferInit /\ EpisodesInit
    /\ PoliciesInit
    /\ \/ \A p \in Adapters : disk[p] = "absent"
       \/ focus = "node" /\ \A p \in Adapters : disk[p] = "whole"

BrokerNext == focus = "broker" /\ Next /\ UNCHANGED <<focus, policyVars, evars, transferVars>>
NodeNext == focus = "node" /\ PoliciesNext /\ UNCHANGED <<focus, vars, evars, transferVars>>
RunnerNext == focus = "runner" /\ EpisodesNext /\ UNCHANGED <<focus, vars, policyVars, transferVars>>
RelayNext == focus = "transfer" /\ TransferNext /\ UNCHANGED <<focus, vars, policyVars, evars>>

ServingNext == BrokerNext \/ NodeNext \/ RunnerNext \/ RelayNext

ServingSpec == ServingInit /\ [][ServingNext]_<<focus, vars, policyVars, evars, transferVars>>

\* The inference exchange alone.
RelaySpec == ServingInit /\ focus = "broker" /\ [][BrokerNext]_<<focus, vars, policyVars, evars, transferVars>>

\* The fairness each component states, of the one that moves.
FairServingSpec ==
    /\ ServingSpec
    /\ \A c \in Calls :
        /\ WF_vars(focus = "broker" /\ ServerStep(c))
        /\ WF_vars(focus = "broker" /\ WorkerStep(c))
    /\ WF_vars(focus = "broker" /\ \E a \in Answers : Infer(a))
    /\ WF_vars(focus = "broker" /\ worker.at \in {"ended", "rejected"} /\ Close)
    /\ \A t \in Slots \cup {Prefetch} : WF_policyVars(focus = "node" /\ CacheStep(t))
    /\ \A s \in Slots : WF_policyVars(focus = "node" /\ SlotStep(s))
    /\ WF_policyVars(focus = "node" /\ EnsureFails(Prefetch))
    /\ WF_evars(focus = "runner" /\ Tick)
    /\ WF_evars(focus = "runner" /\ WorkerWatch)
    /\ \A l \in 1 .. Attempts :
        WF_evars(focus = "runner" /\ (\/ Enter(l) \/ Watch(l) \/ Unwind(l) \/ Store(l) \/ Fail(l)))

-----------------------------------------------------------------------------
\* Requests are settled, slots get to serve and episodes end.
ServingProgress == RequestsSettle /\ SlotsServe /\ EpisodesEnd
=============================================================================
