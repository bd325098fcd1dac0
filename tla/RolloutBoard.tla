---------------------------- MODULE RolloutBoard ----------------------------
(***************************************************************************)
(* What the coordinator promises about rollout groups, without leases,     *)
(* retries, time or crashes: a group is posted whole, each of its members  *)
(* gets one verdict that never changes, and the group is ready from the    *)
(* very step that settles its last member.                                 *)
(***************************************************************************)
EXTENDS Integers

CONSTANTS
    Group,      \* rollout groups
    Index,      \* positions in a group
    Verdict     \* what a member can end with, "unborn" and "open" apart

Member == Group \X Index

VARIABLES
    verdict,    \* verdict of every member, or "unborn" or "open"
    ready       \* groups the result pipeline may take

boardVars == <<verdict, ready>>

Init ==
    /\ verdict = [m \in Member |-> "unborn"]
    /\ ready = {}

Unborn(g) == \A i \in Index : verdict[<<g, i>>] = "unborn"

\* A group appears with all the members it will ever have.
Post(g) ==
    /\ Unborn(g)
    /\ \E I \in (SUBSET Index) \ {{}} :
          verdict' = [m \in Member |-> IF m[1] = g /\ m[2] \in I THEN "open" ELSE verdict[m]]
    /\ UNCHANGED ready

\* Some open members get their verdicts; groups without an open member become ready.
Settle ==
    /\ verdict' \in [Member -> Verdict \cup {"unborn", "open"}]
    /\ \A m \in Member : verdict'[m] # verdict[m] => verdict[m] = "open" /\ verdict'[m] \in Verdict
    /\ ready' = {g \in Group : /\ \E i \in Index : verdict'[<<g, i>>] # "unborn"
                               /\ \A i \in Index : verdict'[<<g, i>>] # "open"}

Next == (\E g \in Group : Post(g)) \/ Settle

Spec == Init /\ [][Next]_boardVars
=============================================================================
