----------------------------- MODULE Admission -----------------------------
(***************************************************************************)
(* What the API server lets in: the schema of the CRDs and the defaulting  *)
(* and validating webhooks of the operator, as functions of the object.    *)
(* They guard what users, the service and the controllers themselves       *)
(* create; ValidateDelete, and ValidateUpdate of a game type, refuse       *)
(* nothing.                                                                *)
(*                                                                         *)
(* A pod spec is the sequence of the images of its containers.  A timeout  *)
(* is a number of minutes, 0 for nil.  A server spec is                    *)
(* [pod, timeout], a fleet spec and a game type spec [server, priority].   *)
(***************************************************************************)
EXTENDS Naturals, Sequences

NoImage == ""
NoTimeout == 0

\* +kubebuilder:validation:Enum of AgePriority, an optional field.
CrdPriorities == {"oldest_first", "smallest_first"}

validPriorities == {"oldest_first", "newest_first"}

\* Default, the same for the three kinds that hold a server spec.
Default(server) == IF server.timeout = NoTimeout THEN [server EXCEPT !.timeout = 40] ELSE server

HasImages(pod) == \A i \in DOMAIN pod : pod[i] # NoImage

ServerValidateCreate(server) == Len(server.pod) >= 1 /\ HasImages(server.pod)

ServerValidateUpdate(old, new) == old.pod = new.pod

\* Mutant: the webhook leaves the priority to the schema.
validatePriorities_Schema(spec) == spec.priority # ""

validatePriorities(spec) == spec.priority # "" /\ spec.priority \in validPriorities

FleetValidateCreate(spec) ==
    /\ validatePriorities(spec)
    /\ HasImages(spec.server.pod)
    /\ spec.server.timeout # NoTimeout

FleetValidateUpdate(old, new) ==
    validatePriorities(new) /\ old.server.pod = new.server.pod

GametypeValidateCreate(spec) ==
    HasImages(spec.server.pod) /\ Len(spec.server.pod) # 0

\* An autoscaler spec: [gameName, policy, url, service, path, sync, time,
\* interval]; url, service, path and time say whether the pointer is set, and
\* interval is what time points to, in milliseconds.
AutoscalerSchema(s) == s.policy = "webhook" /\ s.sync = "fixedinterval" /\ s.path

\* Mutant: a policy counts as one that has a target.
AutoscalerValidateCreate_NoTarget(s) == s.gameName # "" /\ s.time /\ s.interval > 0

\* Sync and AutoscalePolicy are empty when none of their fields is set.
AutoscalerValidateCreate(s) ==
    /\ s.gameName # ""
    /\ s.sync # "" \/ s.time
    /\ s.policy # "" \/ s.url \/ s.service \/ s.path
    /\ s.policy = "webhook" => s.service \/ s.url
    /\ s.time /\ s.interval > 0

-----------------------------------------------------------------------------
(* The whole way of a create request *)

FleetDefault(spec) == [spec EXCEPT !.server = Default(@)]

ServerAdmitted(server) == ServerValidateCreate(Default(server))

FleetAdmitted(spec) ==
    spec.priority \in CrdPriorities /\ FleetValidateCreate(FleetDefault(spec))

GametypeAdmitted(spec) ==
    spec.priority \in CrdPriorities /\ GametypeValidateCreate(FleetDefault(spec))

FleetUpdateAdmitted(old, new) ==
    new.priority \in CrdPriorities /\ FleetValidateUpdate(old, FleetDefault(new))

AutoscalerAdmitted(s) == AutoscalerSchema(s) /\ AutoscalerValidateCreate(s)

\* The spec of the fleet of a game type and of the server of a spec.
FleetOfGametype(spec) == FleetDefault(spec)
ServerOfFleet(spec) == FleetDefault(spec).server

=============================================================================
