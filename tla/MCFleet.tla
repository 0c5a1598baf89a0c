------------------------------ MODULE MCFleet ------------------------------
(* Instances of FleetController for TLC, and what the pure operators it uses *)
(* compute over every small input; the bounds are set in each .cfg.  The two *)
(* properties of operators depend on no variable, so they are evaluated in   *)
(* the initial state only.                                                   *)
EXTENDS FleetController, Admission

MCReplicas == {-1, 1, 2}

Strategies == {"", "oldest_first", "newest_first", "smallest_first"}

\* Lists of distinct servers, in any order.
Lists == {l \in UNION {[1..n -> 1..3] : n \in 0..3} :
             \A i, j \in DOMAIN l : i # j => l[i] # l[j]}

\* FindDeleteServer is right about every such list, every order of creation
\* and every answer of the sidecars (see ChoiceIsCorrect).
SelectionIsCorrect ==
    Init => \A strategy \in Strategies, deleteFirst \in BOOLEAN, list \in Lists,
               ts \in [1..3 -> 1..3], answer \in [1..3 -> Answers] :
                ChoiceIsCorrect(strategy, deleteFirst, list, ts, answer)

PodSpecs == {<<>>, <<NoImage>>, <<"image">>, <<"image", NoImage>>}
Specs == [server : [pod : PodSpecs, timeout : {NoTimeout, 5}], priority : Strategies]

\* What the API server lets in can be carried out one level down: a fleet has
\* a priority that FindDeleteServer knows, and its servers are let in unless
\* it has no containers; the fleet of a game type is let in, and its servers
\* too, unless the priority is smallest_first, which only CRD and game type
\* webhook accept: such a game type never gets a fleet.
SpecWorks(spec) ==
    /\ FleetAdmitted(spec) =>
           /\ ~ChoiceFails(spec.priority, FALSE, {1}, <<"no">>)
           /\ ServerAdmitted(ServerOfFleet(spec)) <=> spec.server.pod # <<>>
    /\ GametypeAdmitted(spec) =>
           LET fleetSpec == FleetOfGametype(spec) IN
           IF spec.priority = "smallest_first" THEN ~FleetAdmitted(fleetSpec)
           ELSE FleetAdmitted(fleetSpec) /\ ServerAdmitted(ServerOfFleet(fleetSpec))

\* Updates of fleets and servers let in nothing that could not have been created.
UpdateWorks(spec, new) ==
    /\ FleetAdmitted(spec) /\ FleetUpdateAdmitted(spec, new) => FleetAdmitted(new)
    /\ ServerAdmitted(spec.server) /\ ServerValidateUpdate(spec.server, new.server)
           => ServerAdmitted(new.server)

\* Every small spec works, and so does every update of one to another.
AdmittedSpecsWork ==
    Init => \A spec \in Specs : SpecWorks(spec) /\ \A new \in Specs : UpdateWorks(spec, new)
=============================================================================
