--------------------------- MODULE MCCoordinator ---------------------------
(* Instances of Coordinator for TLC. *)
EXTENDS Coordinator, TLC

CONSTANTS s1, s2, p1, p2, q1, q2, q3, q4

\* One train source with a deadline, groups of two.
MCSource1 == {1}
MCTrain == <<"train">>
MCTwo == <<2>>
MCOne == <<1>>
MCTimeout == <<3>>
MCNoTimeout == <<0>>

\* A train source without a deadline and an evaluation source with one.
MCSource2 == {1, 2}
MCTrainEval == <<"train", "eval">>
MCOnes == <<1, 1>>
MCTwos == <<2, 2>>
MCTimeouts == <<0, 2>>
MCCosts == <<2, 3>>

MCNothingLoaded == {{}}
MCLoaded == {{}, {1}}

\* Identifiers that only name things may be exchanged.
Symmetric == Permutations(Session) \cup Permutations(Payload) \cup Permutations(Request)
=============================================================================
