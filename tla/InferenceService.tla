------------------------- MODULE InferenceService -------------------------
(***************************************************************************)
(* What an episode may expect of BrokerTransport.handle_async_request: a   *)
(* request it sends stays pending until it is answered, once, or until the *)
(* lease closes, which fails every pending request at once.                *)
(***************************************************************************)
CONSTANTS
    Requests,    \* inference requests of the episodes under one lease
    Answers,     \* what a worker may answer
    None         \* no answer yet

VARIABLES
    status,      \* what the episode knows of each request
    received     \* the answer of each answered request

Init ==
    /\ status = [r \in Requests |-> "unused"]
    /\ received = [r \in Requests |-> None]

Ask(r) ==
    /\ status[r] = "unused"
    /\ status' = [status EXCEPT ![r] = "waiting"]
    /\ UNCHANGED received

Answer(r, a) ==
    /\ status[r] = "waiting"
    /\ status' = [status EXCEPT ![r] = "answered"]
    /\ received' = [received EXCEPT ![r] = a]

Close ==
    /\ status' = [r \in Requests |-> IF status[r] = "waiting" THEN "failed" ELSE status[r]]
    /\ UNCHANGED received

Next ==
    \/ \E r \in Requests : Ask(r) \/ \E a \in Answers : Answer(r, a)
    \/ Close

Spec == Init /\ [][Next]_<<status, received>>
=============================================================================
