----------------------------- MODULE MCGameType -----------------------------
(* Instances of GameTypeController for TLC; the bounds are set in each .cfg. *)
EXTENDS GameTypeController
=============================================================================
