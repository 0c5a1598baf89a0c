---------------------------- MODULE MCAutoscaler ----------------------------
(* An instance of GameAutoscaler for TLC; the bounds are set in the .cfg. *)
EXTENDS GameAutoscaler

Specs == [gameName : {"", "g"}, policy : {"", "webhook"}, sync : {"", "fixedinterval"},
          url : BOOLEAN, service : BOOLEAN, path : BOOLEAN, time : BOOLEAN,
          interval : -1..1]

\* Every autoscaler that schema and ValidateCreate let in is polled again and
\* again: Reconcile and SendScaleWebhookRequest meet no nil pointer and no
\* spec they reject, and the interval is one that does not end the polling.
\* It depends on no variable: the initial state is enough.
AdmittedAutoscalersPoll == Init => \A s \in Specs : AutoscalerAdmitted(s) => SpecExit(s) = "polls"
=============================================================================
