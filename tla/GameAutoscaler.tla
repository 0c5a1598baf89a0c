--------------------------- MODULE GameAutoscaler ---------------------------
(***************************************************************************)
(* The GameAutoscaler controller: it asks a webhook of the user, at fixed  *)
(* intervals, how many replicas a GameType should have and writes the      *)
(* answer into the GameType.  Between reading the GameType and writing it  *)
(* lies an HTTP request of up to ten seconds, in which users edit.         *)
(*                                                                         *)
(* What Reconcile checks of the autoscaler itself is SpecExit; the actions  *)
(* are those for a spec that passes, as every admitted one does.            *)
(***************************************************************************)
EXTENDS Integers, Admission

CONSTANTS
    Half,       \* 2^31 in the code: int32 holds -Half .. Half - 1
    Wishes,     \* the replica counts the webhook may ask for (a Go int)
    MaxWishes,  \* bound on changes of the webhook's mind
    MaxEdits,   \* bound on edits of the game type by users
    MaxFaults   \* bound on failed calls and on crashes

ASSUME AutoscalerAssumption ==
    /\ Half \in Nat \ {0, 1}
    /\ Wishes \subseteq Int /\ Wishes # {}
    /\ MaxWishes \in Nat /\ MaxEdits \in Nat /\ MaxFaults \in Nat

VARIABLES
    gametype, cGametype, gWatch,  \* API copy, cached copy, undelivered versions
    autoscaler, cAutoscaler,      \* whether the GameAutoscaler exists
    wish,                         \* what the webhook would answer now
    queued, timer,                \* work queue; a RequeueAfter is running
    pc, gt, answer,               \* the running Reconcile: next call, locals
    wishes, edits, faults

gametypeVars == <<gametype, gWatch>>
cacheVars == <<cGametype, cAutoscaler>>
workerVars == <<queued, timer, pc, gt, answer>>
budgetVars == <<wishes, edits, faults>>
vars == <<gametypeVars, autoscaler, cacheVars, wish, workerVars, budgetVars>>

-----------------------------------------------------------------------------

\* Mutant: the count is converted without wrapping around.
Int32_Wide(n) == n

\* int32(n) of a Go int.
Int32(n) == ((n + Half) % (2 * Half)) - Half

Int32s == -Half .. Half - 1

\* del: it is being deleted and has its finalizer; users: how often users have
\* changed the rest of the spec.
GameTypes == [ex : BOOLEAN, del : BOOLEAN, replicas : Int32s, users : Nat, rv : Nat]
NoGameType == [ex |-> FALSE, del |-> FALSE, replicas |-> 0, users |-> 0, rv |-> 0]

WriteGametype(t) ==
    IF t = gametype THEN UNCHANGED gametypeVars
    ELSE /\ gametype' = [t EXCEPT !.rv = gametype.rv + 1]
         /\ gWatch' = gWatch \cup {gametype'}

GametypeCurrent == gametype.ex /\ gametype.rv = gt.rv

NoAnswer == [Scale |-> FALSE, DesiredReplicas |-> 0]

\* The webhook asks for its wish, unless the count it was told fits already.
Webhook(current) == [Scale |-> wish # current, DesiredReplicas |-> wish]

Steps == {"idle", "getGametype", "sendRequest", "update"}

\* Reconcile returns: again at once (an error), or after the sync interval.
Return(again) ==
    /\ pc' = "idle"
    /\ gt' = NoGameType
    /\ answer' = NoAnswer
    /\ queued' = (queued \/ again)
    /\ timer' = (timer \/ ~again)

\* Where the spec of the autoscaler leads Reconcile: an error that comes back
\* for ever, a nil Service or a nil Time dereferenced, no second poll (a
\* RequeueAfter that is not positive plans nothing), or the polling.
SpecExit(s) ==
    CASE s.policy # "webhook"                            -> "error"
      [] s.policy = "webhook" /\ ~s.url /\ ~s.service    -> "panic"
      [] s.policy = "webhook" /\ (s.url \/ s.service) ->
            IF ~s.path \/ s.sync # "fixedinterval" THEN "error"
            ELSE IF ~s.time THEN "panic"
            ELSE IF s.interval > 0 THEN "polls" ELSE "once"

\* An autoscaler that is not found is an error, tried again for ever.
Reconcile ==
    /\ pc = "idle"
    /\ queued
    /\ \/ ~cAutoscaler /\ Return(TRUE)
       \/ /\ cAutoscaler
          /\ queued' = FALSE
          /\ pc' = "getGametype"
          /\ UNCHANGED <<timer, gt, answer>>
    /\ UNCHANGED <<gametypeVars, autoscaler, cacheVars, wish, budgetVars>>

GetGametype ==
    /\ pc = "getGametype"
    /\ \/ ~cGametype.ex /\ Return(TRUE)
       \/ /\ cGametype.ex
          /\ gt' = cGametype
          /\ pc' = "sendRequest"
          /\ UNCHANGED <<queued, timer, answer>>
    /\ UNCHANGED <<gametypeVars, autoscaler, cacheVars, wish, budgetVars>>

\* Mutant: after an answer that asks for nothing no new request is planned.
SendScaleWebhookRequest_Once ==
    /\ pc = "sendRequest"
    /\ LET result == Webhook(gt.replicas) IN
       \/ /\ ~result.Scale
          /\ pc' = "idle" /\ gt' = NoGameType /\ answer' = NoAnswer
          /\ UNCHANGED <<queued, timer>>
       \/ /\ result.Scale
          /\ answer' = result
          /\ pc' = "update"
          /\ UNCHANGED <<queued, timer, gt>>
    /\ UNCHANGED <<gametypeVars, autoscaler, cacheVars, wish, budgetVars>>

\* The request carries the replicas of the copy of the game type just read.
SendScaleWebhookRequest ==
    /\ pc = "sendRequest"
    /\ LET result == Webhook(gt.replicas) IN
       \/ ~result.Scale /\ Return(FALSE)
       \/ /\ result.Scale
          /\ answer' = result
          /\ pc' = "update"
          /\ UNCHANGED <<queued, timer, gt>>
    /\ UNCHANGED <<gametypeVars, autoscaler, cacheVars, wish, budgetVars>>

\* Mutant: the write is not bound to the version that was read.
Update_Unconditional ==
    /\ pc = "update"
    /\ \/ /\ gametype.ex
          /\ WriteGametype([gt EXCEPT !.replicas = Int32(answer.DesiredReplicas),
                                      !.rv = gametype.rv])
          /\ Return(FALSE)
       \/ ~gametype.ex /\ UNCHANGED gametypeVars /\ Return(TRUE)
    /\ UNCHANGED <<autoscaler, cacheVars, wish, budgetVars>>

\* The whole game type is written back, with the new replicas; refused if it
\* has changed since it was read.
Update ==
    /\ pc = "update"
    /\ \/ /\ GametypeCurrent
          /\ WriteGametype([gt EXCEPT !.replicas = Int32(answer.DesiredReplicas)])
          /\ Return(FALSE)
       \/ ~GametypeCurrent /\ UNCHANGED gametypeVars /\ Return(TRUE)
    /\ UNCHANGED <<autoscaler, cacheVars, wish, budgetVars>>

Worker == Reconcile \/ GetGametype \/ SendScaleWebhookRequest \/ Update

\* The webhook does not answer with status 200 and a body that decodes, or the
\* write fails or its answer is lost: the error is tried again (the minute of
\* RequeueAfter does not apply to errors).
CallFails ==
    /\ faults < MaxFaults
    /\ faults' = faults + 1
    /\ pc \in {"sendRequest", "update"}
    /\ \/ UNCHANGED gametypeVars
       \/ /\ pc = "update" /\ GametypeCurrent
          /\ WriteGametype([gt EXCEPT !.replicas = Int32(answer.DesiredReplicas)])
    /\ Return(TRUE)
    /\ UNCHANGED <<autoscaler, cacheVars, wish, wishes, edits>>

\* The operator restarts: timers are lost, everything is listed again.
Crash ==
    /\ faults < MaxFaults
    /\ faults' = faults + 1
    /\ pc' = "idle" /\ gt' = NoGameType /\ answer' = NoAnswer
    /\ timer' = FALSE
    /\ queued' = autoscaler
    /\ cAutoscaler' = autoscaler
    /\ cGametype' = gametype
    /\ gWatch' = {}
    /\ UNCHANGED <<gametype, autoscaler, wish, wishes, edits>>

-----------------------------------------------------------------------------
(* The timer, the watches, the users and the webhook *)

TimerFires ==
    /\ timer
    /\ timer' = FALSE
    /\ queued' = TRUE
    /\ UNCHANGED <<gametypeVars, autoscaler, cacheVars, wish, pc, gt, answer, budgetVars>>

\* The controller does not watch game types: a new version queues nothing.
DeliverGametype ==
    /\ \E v \in gWatch :
          /\ cGametype' = v
          /\ gWatch' = {w \in gWatch : w.rv > v.rv}
    /\ UNCHANGED <<gametype, autoscaler, cAutoscaler, wish, workerVars, budgetVars>>

DeliverAutoscaler ==
    /\ cAutoscaler # autoscaler
    /\ cAutoscaler' = autoscaler
    /\ queued' = TRUE
    /\ UNCHANGED <<gametypeVars, autoscaler, cGametype, wish, timer, pc, gt, answer,
                   budgetVars>>

CreateGametype ==
    /\ gametype.rv = 0
    /\ WriteGametype([NoGameType EXCEPT !.ex = TRUE, !.replicas = 1])
    /\ UNCHANGED <<autoscaler, cacheVars, wish, workerVars, budgetVars>>

EditGametype ==
    /\ gametype.ex
    /\ edits < MaxEdits
    /\ edits' = edits + 1
    /\ \/ WriteGametype([gametype EXCEPT !.users = @ + 1])
       \/ WriteGametype([gametype EXCEPT !.replicas = IF @ = 0 THEN 1 ELSE 0])
    /\ UNCHANGED <<autoscaler, cacheVars, wish, workerVars, wishes, faults>>

\* The finalizer keeps the game type, which is polled and scaled as before.
DeleteGametype ==
    /\ gametype.ex /\ ~gametype.del
    /\ WriteGametype([gametype EXCEPT !.del = TRUE])
    /\ UNCHANGED <<autoscaler, cacheVars, wish, workerVars, budgetVars>>

\* The game type controller takes its finalizer off, or it never had one.
GametypeGone ==
    /\ gametype.ex
    /\ WriteGametype([NoGameType EXCEPT !.rv = gametype.rv])
    /\ UNCHANGED <<autoscaler, cacheVars, wish, workerVars, budgetVars>>

ChangeAutoscaler ==
    /\ edits < MaxEdits
    /\ edits' = edits + 1
    /\ autoscaler' = ~autoscaler
    /\ UNCHANGED <<gametypeVars, cacheVars, wish, workerVars, wishes, faults>>

ChangeWish ==
    /\ wishes < MaxWishes
    /\ wishes' = wishes + 1
    /\ wish' \in Wishes \ {wish}
    /\ UNCHANGED <<gametypeVars, autoscaler, cacheVars, workerVars, edits, faults>>

Environment ==
    \/ TimerFires \/ DeliverGametype \/ DeliverAutoscaler \/ CreateGametype
    \/ EditGametype \/ DeleteGametype \/ GametypeGone \/ ChangeAutoscaler \/ ChangeWish

-----------------------------------------------------------------------------

Init ==
    /\ gametype = NoGameType /\ cGametype = NoGameType /\ gWatch = {}
    /\ autoscaler = FALSE /\ cAutoscaler = FALSE
    /\ wish \in Wishes
    /\ queued = FALSE /\ timer = FALSE
    /\ pc = "idle" /\ gt = NoGameType /\ answer = NoAnswer
    /\ wishes = 0 /\ edits = 0 /\ faults = 0

Next == Worker \/ CallFails \/ Crash \/ Environment

Spec == Init /\ [][Next]_vars

\* The worker and the informers keep running and the interval passes.
Fairness ==
    /\ WF_vars(Worker)
    /\ WF_vars(TimerFires)
    /\ WF_vars(DeliverGametype)
    /\ WF_vars(DeliverAutoscaler)

FairSpec == Spec /\ Fairness

-----------------------------------------------------------------------------
(* Properties *)

TypeOK ==
    /\ gametype \in GameTypes /\ cGametype \in GameTypes /\ gWatch \subseteq GameTypes
    /\ autoscaler \in BOOLEAN /\ cAutoscaler \in BOOLEAN
    /\ wish \in Wishes
    /\ queued \in BOOLEAN /\ timer \in BOOLEAN
    /\ pc \in Steps /\ gt \in GameTypes
    /\ answer \in [Scale : BOOLEAN, DesiredReplicas : Wishes \cup {0}]
    /\ wishes \in 0..MaxWishes /\ edits \in 0..MaxEdits /\ faults \in 0..MaxFaults

\* A scaling write is the answer to a question about the replicas that are
\* still in force, and undoes nothing that users wrote while the webhook was
\* thinking.
ScalesWhatItAskedAbout ==
    [][pc = "update" /\ pc' = "idle" /\ gametype' # gametype
        => gametype'.users = gametype.users /\ gt.replicas = gametype.replicas]_vars

\* While autoscaler and game type exist, the game type being deleted or not,
\* the webhook is asked again and again: no error, conflict, restart or answer ends the polling.
WebhookIsPolled ==
    autoscaler /\ gametype.ex ~> pc = "sendRequest" \/ ~autoscaler \/ ~gametype.ex

\* When users and webhook have settled, the game type gets what the webhook
\* asks for, as an int32.
ScalingSettles ==
    <>[](autoscaler /\ gametype.ex => gametype.replicas = Int32(wish))

=============================================================================
