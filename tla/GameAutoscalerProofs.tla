------------------------ MODULE GameAutoscalerProofs ------------------------
(***************************************************************************)
(* Proofs about GameAutoscaler, for every width of the integers, every set *)
(* of wishes of the webhook and every bound.                               *)
(***************************************************************************)
EXTENDS MCAutoscaler, TLAPS

\* The versions of the game type that the controller has or will be told of.
Copies == gWatch \cup {cGametype, gt, NoGameType}

\* A resource version names one state of the game type, and no copy is ahead.
VersionsAreUnique ==
    \A v \in Copies : v.rv <= gametype.rv /\ (v.rv = gametype.rv => v = gametype)

Inv == TypeOK /\ VersionsAreUnique

-----------------------------------------------------------------------------
(* Types *)

\* The conversion of the webhook's count to an int32 stays in its range.
LEMMA Int32InRange == ASSUME NEW n \in Int PROVE Int32(n) \in Int32s
<1>1. Half \in Nat /\ 2 * Half \in Nat /\ 2 * Half > 0 /\ n + Half \in Int
  BY AutoscalerAssumption
<1>2. (n + Half) % (2 * Half) \in 0 .. (2 * Half - 1)
  BY <1>1
<1>3. QED
  BY <1>1, <1>2 DEF Int32, Int32s

LEMMA SmallCounts == 0 \in Int32s /\ 1 \in Int32s /\ NoGameType \in GameTypes
  BY AutoscalerAssumption DEF Int32s, NoGameType, GameTypes

\* What Update and the CallFails that loses its answer write.
LEMMA ScaledType ==
    ASSUME TypeOK
    PROVE  [gt EXCEPT !.replicas = Int32(answer.DesiredReplicas)] \in GameTypes
<1>1. answer.DesiredReplicas \in Wishes \cup {0}
  BY DEF TypeOK
<1>2. Wishes \cup {0} \subseteq Int
  BY AutoscalerAssumption
<1>3. QED
  BY <1>1, <1>2, Int32InRange DEF TypeOK, GameTypes

LEMMA WriteType ==
    ASSUME TypeOK, NEW t \in GameTypes, WriteGametype(t)
    PROVE  gametype' \in GameTypes /\ gWatch' \subseteq GameTypes
<1>1. CASE t = gametype
  BY <1>1 DEF WriteGametype, gametypeVars, TypeOK
<1>2. CASE t # gametype
  <2>1. [t EXCEPT !.rv = gametype.rv + 1] \in GameTypes
    BY DEF TypeOK, GameTypes
  <2>2. QED
    BY <1>2, <2>1 DEF WriteGametype, TypeOK
<1>3. QED
  BY <1>1, <1>2

LEMMA ReturnType ==
    ASSUME TypeOK, NEW again \in BOOLEAN, Return(again)
    PROVE  /\ pc' \in Steps /\ gt' \in GameTypes /\ queued' \in BOOLEAN /\ timer' \in BOOLEAN
           /\ answer' \in [Scale : BOOLEAN, DesiredReplicas : Wishes \cup {0}]
<1>1. NoAnswer \in [Scale : BOOLEAN, DesiredReplicas : Wishes \cup {0}]
  BY DEF NoAnswer
<1>2. QED
  BY <1>1, SmallCounts DEF Return, TypeOK, Steps

LEMMA TypeStep == ASSUME TypeOK, [Next]_vars PROVE TypeOK'
<1> USE SmallCounts DEF gametypeVars, cacheVars, workerVars, budgetVars
<1>1. CASE Reconcile
  BY <1>1, ReturnType DEF Reconcile, TypeOK, Steps
<1>2. CASE GetGametype
  BY <1>2, ReturnType DEF GetGametype, TypeOK, Steps
<1>3. CASE SendScaleWebhookRequest
  <2>1. Webhook(gt.replicas) \in [Scale : BOOLEAN, DesiredReplicas : Wishes \cup {0}]
    BY DEF Webhook, TypeOK
  <2>2. QED
    BY <1>3, <2>1, ReturnType DEF SendScaleWebhookRequest, TypeOK, Steps
<1>4. CASE Update
  <2>1. gametype' \in GameTypes /\ gWatch' \subseteq GameTypes
    BY <1>4, ScaledType, WriteType DEF Update, TypeOK
  <2>2. QED
    BY <1>4, <2>1, ReturnType DEF Update, TypeOK
<1>5. CASE CallFails
  <2>1. gametype' \in GameTypes /\ gWatch' \subseteq GameTypes
    BY <1>5, ScaledType, WriteType DEF CallFails, TypeOK
  <2>2. faults' \in 0..MaxFaults
    BY <1>5, AutoscalerAssumption DEF CallFails, TypeOK
  <2>3. QED
    BY <1>5, <2>1, <2>2, ReturnType DEF CallFails, TypeOK
<1>6. CASE Crash
  <2>1. faults' \in 0..MaxFaults
    BY <1>6, AutoscalerAssumption DEF Crash, TypeOK
  <2>2. QED
    BY <1>6, <2>1 DEF Crash, TypeOK, Steps, NoAnswer
<1>7. CASE TimerFires
  BY <1>7 DEF TimerFires, TypeOK
<1>8. CASE DeliverGametype
  BY <1>8 DEF DeliverGametype, TypeOK
<1>9. CASE DeliverAutoscaler
  BY <1>9 DEF DeliverAutoscaler, TypeOK
<1>10. CASE CreateGametype
  <2>1. [NoGameType EXCEPT !.ex = TRUE, !.replicas = 1] \in GameTypes
    BY DEF GameTypes
  <2>2. QED
    BY <1>10, <2>1, WriteType DEF CreateGametype, TypeOK
<1>11. CASE EditGametype
  <2>1. /\ [gametype EXCEPT !.users = @ + 1] \in GameTypes
        /\ [gametype EXCEPT !.replicas = IF @ = 0 THEN 1 ELSE 0] \in GameTypes
    BY DEF GameTypes, TypeOK
  <2>2. edits' \in 0..MaxEdits
    BY <1>11, AutoscalerAssumption DEF EditGametype, TypeOK
  <2>3. gametype' \in GameTypes /\ gWatch' \subseteq GameTypes
    BY <1>11, <2>1, WriteType DEF EditGametype
  <2>4. QED
    BY <1>11, <2>2, <2>3 DEF EditGametype, TypeOK
<1>12. CASE DeleteGametype
  <2>1. [gametype EXCEPT !.del = TRUE] \in GameTypes
    BY DEF GameTypes, TypeOK
  <2>2. QED
    BY <1>12, <2>1, WriteType DEF DeleteGametype, TypeOK
<1>13. CASE GametypeGone
  <2>1. [NoGameType EXCEPT !.rv = gametype.rv] \in GameTypes
    BY DEF GameTypes, TypeOK
  <2>2. QED
    BY <1>13, <2>1, WriteType DEF GametypeGone, TypeOK
<1>14. CASE ChangeAutoscaler
  <2>1. edits' \in 0..MaxEdits
    BY <1>14, AutoscalerAssumption DEF ChangeAutoscaler, TypeOK
  <2>2. QED
    BY <1>14, <2>1 DEF ChangeAutoscaler, TypeOK
<1>15. CASE ChangeWish
  <2>1. wishes' \in 0..MaxWishes
    BY <1>15, AutoscalerAssumption DEF ChangeWish, TypeOK
  <2>2. QED
    BY <1>15, <2>1 DEF ChangeWish, TypeOK
<1>16. CASE UNCHANGED vars
  BY <1>16 DEF vars, TypeOK
<1>17. QED
  BY <1>1, <1>2, <1>3, <1>4, <1>5, <1>6, <1>7, <1>8, <1>9, <1>10, <1>11, <1>12, <1>13,
     <1>14, <1>15, <1>16 DEF Next, Worker, Environment

LEMMA TypeInit == Init => TypeOK
<1>1. NoAnswer \in [Scale : BOOLEAN, DesiredReplicas : Wishes \cup {0}]
  BY DEF NoAnswer
<1>2. 0 \in 0..MaxWishes /\ 0 \in 0..MaxEdits /\ 0 \in 0..MaxFaults
  BY AutoscalerAssumption
<1>3. QED
  BY <1>1, <1>2, SmallCounts DEF Init, TypeOK, Steps

\* Every reachable state is well typed: in particular the replicas of the game
\* type stay an int32, whatever count the webhook answers.
THEOREM TypeCorrect == Spec => []TypeOK
  BY TypeInit, TypeStep, PTL DEF Spec

-----------------------------------------------------------------------------
(* Versions *)

LEMMA InvTypes ==
    ASSUME TypeOK
    PROVE  gametype.rv \in Nat /\ \A v \in Copies : v \in GameTypes /\ v.rv \in Nat
<1>1. \A v \in Copies : v \in GameTypes
  BY SmallCounts DEF Copies, TypeOK
<1>2. QED
  BY <1>1 DEF TypeOK, GameTypes

\* A step that reads, or forgets: every copy is one there was before, or the
\* game type itself.
LEMMA ReadKeepsVersions ==
    ASSUME Inv, gametype' = gametype, Copies' \subseteq Copies \cup {gametype}
    PROVE  VersionsAreUnique'
  BY InvTypes DEF Inv, VersionsAreUnique

\* A write: the new version is ahead of every copy there was.
LEMMA WriteKeepsVersions ==
    ASSUME Inv, NEW t \in GameTypes, WriteGametype(t),
           cGametype' = cGametype, gt' \in {gt, NoGameType}
    PROVE  VersionsAreUnique'
<1>1. CASE t = gametype
  <2>1. gametype' = gametype /\ gWatch' = gWatch
    BY <1>1 DEF WriteGametype, gametypeVars
  <2>2. QED
    BY <2>1, ReadKeepsVersions DEF Copies
<1>2. CASE t # gametype
  <2>1. gametype'.rv = gametype.rv + 1
    BY <1>2 DEF WriteGametype, GameTypes
  <2>2. Copies' \subseteq Copies \cup {gametype'}
    BY <1>2 DEF WriteGametype, Copies
  <2>3. QED
    BY <2>1, <2>2, InvTypes DEF Inv, VersionsAreUnique
<1>3. QED
  BY <1>1, <1>2

LEMMA VersionsStep == ASSUME Inv, [Next]_vars PROVE VersionsAreUnique'
<1> USE DEF gametypeVars, cacheVars, workerVars, budgetVars
<1>t. TypeOK
  BY DEF Inv
<1>1. CASE Reconcile
  BY <1>1, ReadKeepsVersions DEF Reconcile, Return, Copies
<1>2. CASE GetGametype
  BY <1>2, ReadKeepsVersions DEF GetGametype, Return, Copies
<1>3. CASE SendScaleWebhookRequest
  BY <1>3, ReadKeepsVersions DEF SendScaleWebhookRequest, Return, Copies
<1>4. CASE Update
  <2>1. gt' = NoGameType /\ cGametype' = cGametype
    BY <1>4 DEF Update, Return
  <2>2. CASE UNCHANGED gametypeVars
    BY <2>1, <2>2, ReadKeepsVersions DEF Copies
  <2>3. CASE WriteGametype([gt EXCEPT !.replicas = Int32(answer.DesiredReplicas)])
    BY <1>t, <2>1, <2>3, ScaledType, WriteKeepsVersions
  <2>4. QED
    BY <1>4, <2>2, <2>3 DEF Update
<1>5. CASE CallFails
  <2>1. gt' = NoGameType /\ cGametype' = cGametype
    BY <1>5 DEF CallFails, Return
  <2>2. CASE UNCHANGED gametypeVars
    BY <2>1, <2>2, ReadKeepsVersions DEF Copies
  <2>3. CASE WriteGametype([gt EXCEPT !.replicas = Int32(answer.DesiredReplicas)])
    BY <1>t, <2>1, <2>3, ScaledType, WriteKeepsVersions
  <2>4. QED
    BY <1>5, <2>2, <2>3 DEF CallFails
<1>6. CASE Crash
  BY <1>6, ReadKeepsVersions DEF Crash, Copies
<1>7. CASE TimerFires
  BY <1>7, ReadKeepsVersions DEF TimerFires, Copies
<1>8. CASE DeliverGametype
  BY <1>8, ReadKeepsVersions DEF DeliverGametype, Copies
<1>9. CASE DeliverAutoscaler
  BY <1>9, ReadKeepsVersions DEF DeliverAutoscaler, Copies
<1>10. CASE CreateGametype
  <2>1. [NoGameType EXCEPT !.ex = TRUE, !.replicas = 1] \in GameTypes
    BY SmallCounts DEF GameTypes
  <2>2. QED
    BY <1>10, <2>1, WriteKeepsVersions DEF CreateGametype
<1>11. CASE EditGametype
  <2>1. /\ [gametype EXCEPT !.users = @ + 1] \in GameTypes
        /\ [gametype EXCEPT !.replicas = IF @ = 0 THEN 1 ELSE 0] \in GameTypes
    BY <1>t, SmallCounts DEF GameTypes, TypeOK
  <2>2. QED
    BY <1>11, <2>1, WriteKeepsVersions DEF EditGametype
<1>12. CASE DeleteGametype
  <2>1. [gametype EXCEPT !.del = TRUE] \in GameTypes
    BY <1>t DEF GameTypes, TypeOK
  <2>2. QED
    BY <1>12, <2>1, WriteKeepsVersions DEF DeleteGametype
<1>13. CASE GametypeGone
  <2>1. [NoGameType EXCEPT !.rv = gametype.rv] \in GameTypes
    BY <1>t, SmallCounts DEF GameTypes, TypeOK
  <2>2. QED
    BY <1>13, <2>1, WriteKeepsVersions DEF GametypeGone
<1>14. CASE ChangeAutoscaler
  BY <1>14, ReadKeepsVersions DEF ChangeAutoscaler, Copies
<1>15. CASE ChangeWish
  BY <1>15, ReadKeepsVersions DEF ChangeWish, Copies
<1>16. CASE UNCHANGED vars
  BY <1>16, ReadKeepsVersions DEF vars, Copies
<1>17. QED
  BY <1>1, <1>2, <1>3, <1>4, <1>5, <1>6, <1>7, <1>8, <1>9, <1>10, <1>11, <1>12, <1>13,
     <1>14, <1>15, <1>16 DEF Next, Worker, Environment

\* No two states of the game type share a resource version, and what the
\* controller holds never runs ahead of what is stored.
THEOREM InvCorrect == Spec => []Inv
<1>1. Init => Inv
  <2>1. Init => VersionsAreUnique
    BY DEF Init, VersionsAreUnique, Copies, NoGameType
  <2>2. QED
    BY <2>1, TypeInit DEF Inv
<1>2. Inv /\ [Next]_vars => Inv'
  <2>1. Inv => TypeOK
    BY DEF Inv
  <2>2. QED
    BY <2>1, TypeStep, VersionsStep DEF Inv
<1>3. QED
  BY <1>1, <1>2, PTL DEF Spec

-----------------------------------------------------------------------------
(* Scaling writes *)

\* A copy that is current is the game type itself.
LEMMA CurrentCopyIsStored == Inv /\ GametypeCurrent => gt = gametype
  BY DEF Inv, VersionsAreUnique, Copies, GametypeCurrent

LEMMA ScalingStep ==
    ASSUME Inv, [Next]_vars, pc = "update", pc' = "idle", gametype' # gametype
    PROVE  gametype'.users = gametype.users /\ gt.replicas = gametype.replicas
<1> USE DEF gametypeVars, cacheVars, workerVars, budgetVars
<1>1. Update \/ CallFails
  BY DEF Next, vars, Worker, Environment, Reconcile, GetGametype, SendScaleWebhookRequest,
         Crash, TimerFires, DeliverGametype, DeliverAutoscaler, CreateGametype,
         EditGametype, DeleteGametype, GametypeGone, ChangeAutoscaler, ChangeWish
<1>2. /\ GametypeCurrent
      /\ WriteGametype([gt EXCEPT !.replicas = Int32(answer.DesiredReplicas)])
  BY <1>1 DEF Update, CallFails
<1>3. gt = gametype
  BY <1>2, CurrentCopyIsStored
<1>4. gametype'.users = gametype.users
  BY <1>2, <1>3 DEF WriteGametype, Inv, TypeOK, GameTypes
<1>5. QED
  BY <1>3, <1>4

\* However long the webhook thinks, a scaling write of Reconcile undoes no
\* edit and answers a question about the replicas that are in force.
THEOREM ScalingIsCurrent == Spec => ScalesWhatItAskedAbout
<1>1. Inv /\ [Next]_vars =>
        [pc = "update" /\ pc' = "idle" /\ gametype' # gametype
            => gametype'.users = gametype.users /\ gt.replicas = gametype.replicas]_vars
  BY ScalingStep
<1>2. QED
  BY <1>1, InvCorrect, PTL DEF Spec, ScalesWhatItAskedAbout


-----------------------------------------------------------------------------
(* The autoscalers that are let in *)

\* Every autoscaler that schema and ValidateCreate let in is polled again and
\* again, whatever its names and its interval: Reconcile and
\* SendScaleWebhookRequest meet no nil pointer and no spec they reject.
THEOREM EveryAdmittedAutoscalerPolls ==
    ASSUME NEW s, s.url \in BOOLEAN, s.service \in BOOLEAN, s.path \in BOOLEAN,
           s.time \in BOOLEAN, AutoscalerAdmitted(s)
    PROVE  SpecExit(s) = "polls"
<1>1. /\ s.policy = "webhook" /\ s.sync = "fixedinterval" /\ s.path
      /\ s.service \/ s.url
  BY DEF AutoscalerAdmitted, AutoscalerSchema, AutoscalerValidateCreate
<1>2. s.time /\ s.interval > 0
  BY Zenon DEF AutoscalerAdmitted, AutoscalerValidateCreate
<1>3. QED
  BY <1>1, <1>2, Zenon DEF SpecExit

\* The property that the run checks of the small specs.
THEOREM AdmittedAutoscalersPollCorrect == Spec => []AdmittedAutoscalersPoll
<1>1. ASSUME NEW s \in Specs
      PROVE  /\ s.url \in BOOLEAN /\ s.service \in BOOLEAN /\ s.path \in BOOLEAN
             /\ s.time \in BOOLEAN
  BY Zenon DEF Specs
<1>2. AdmittedAutoscalersPoll
  BY <1>1, EveryAdmittedAutoscalerPolls DEF AdmittedAutoscalersPoll
<1>3. QED
  BY <1>2, PTL
=============================================================================
