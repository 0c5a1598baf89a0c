----------------------------- MODULE ServerLife -----------------------------
(***************************************************************************)
(* What the server controller promises about one Server and its pod, with  *)
(* no cache, no finalizer and no reconcile loop: a server is created,      *)
(* is asked to go, and goes only when no live pod is left behind.          *)
(*                                                                         *)
(* A pod is "up" from its creation to the moment it is marked for          *)
(* deletion.  The fleet controller relies on exactly this life cycle.      *)
(***************************************************************************)

VARIABLES
    life,   \* "none" (not created yet), "live", "terminating" or "gone"
    podUp   \* a pod of this server exists and is not marked for deletion

vars == <<life, podUp>>

Init == life = "none" /\ podUp = FALSE

Create ==
    /\ life = "none"
    /\ life' = "live"
    /\ UNCHANGED podUp

\* A pod appears only for a server that still exists, at most one at a time.
StartPod ==
    /\ life \in {"live", "terminating"}
    /\ ~podUp
    /\ podUp' = TRUE
    /\ UNCHANGED life

StopPod ==
    /\ podUp
    /\ podUp' = FALSE
    /\ UNCHANGED life

\* A deletion request; a server that has no pod up may vanish at once.
Delete ==
    /\ life = "live"
    /\ \/ life' = "terminating"
       \/ ~podUp /\ life' = "gone"
    /\ UNCHANGED podUp

\* The server object disappears, never from under a pod that is up.
Finalise ==
    /\ life = "terminating"
    /\ ~podUp
    /\ life' = "gone"
    /\ UNCHANGED podUp

Next == Create \/ StartPod \/ StopPod \/ Delete \/ Finalise

Spec == Init /\ [][Next]_vars

=============================================================================
