----------------------------- MODULE MCGateway -----------------------------
(* One request at a time on a system that is just being started. *)
EXTENDS Gateway

=============================================================================
