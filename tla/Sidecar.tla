------------------------------ MODULE Sidecar ------------------------------
(***************************************************************************)
(* The sidecar container of one game server pod: an HTTP process whose     *)
(* whole state is the two booleans of app.App.  The operator posts to      *)
(* /shutdown and reads /allow_delete; the game process reads /shutdown and *)
(* posts to /allow_delete.  Every request is served by a goroutine of its  *)
(* own, so a handler is one atomic read or write of a boolean.  A body     *)
(* that does not decode is answered with status 400 and changes nothing.   *)
(***************************************************************************)

VARIABLE sidecar  \* [DeleteAllowed |-> BOOLEAN, ShutdownRequested |-> BOOLEAN]

Type == [DeleteAllowed : BOOLEAN, ShutdownRequested : BOOLEAN]

\* A fresh App{}: both flags have Go's zero value.
Fresh == [DeleteAllowed |-> FALSE, ShutdownRequested |-> FALSE]

Init == sidecar = Fresh

\* POST /allow_delete, by the game: any boolean, the flag can be taken back.
SetDeleteAllowed(allowed) == sidecar' = [sidecar EXCEPT !.DeleteAllowed = allowed]

\* GET /allow_delete, by the operator.
IsDeleteAllowed == sidecar.DeleteAllowed

\* POST /shutdown, by the operator.
SetShutdownRequested(shutdown) ==
    sidecar' = [sidecar EXCEPT !.ShutdownRequested = shutdown]

\* GET /shutdown, by the game.
IsShutdownRequested == sidecar.ShutdownRequested

\* The container is restarted by the kubelet: nothing was persisted.
Restart == sidecar' = Fresh

=============================================================================
