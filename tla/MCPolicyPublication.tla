------------------------ MODULE MCPolicyPublication ------------------------
(* Instances of PolicyPublication for TLC. *)
EXTENDS PolicyPublication
=============================================================================
