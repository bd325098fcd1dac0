-------------------------- MODULE MCTrainingQueue --------------------------
(* Instances of TrainingQueue for TLC. *)
EXTENDS TrainingQueue

\* Groups of two rollouts and of one: both kept, one emptied by a filter,
\* nothing but emptied ones, one with an error, one trace without samples.
MCShapes ==
    {<<"kept", "kept">>, <<"kept", "postfiltered">>, <<"postfiltered", "postfiltered">>,
     <<"kept", "error">>, <<"empty", "kept">>}
=============================================================================
