------------------------------ MODULE MCServer ------------------------------
(* Instances of ServerController for TLC; the bounds are set in each .cfg. *)
EXTENDS ServerInvariant
=============================================================================
