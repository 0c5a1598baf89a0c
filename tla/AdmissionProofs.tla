-------------------------- MODULE AdmissionProofs --------------------------
(***************************************************************************)
(* What MCFleet checks of the pure operators over small inputs, for every  *)
(* input: the specs that schema and webhooks let in, whatever their        *)
(* containers, images, timeouts and priorities, and the choice of the      *)
(* server to delete, by the theorem of FleetSelectionProofs.               *)
(***************************************************************************)
EXTENDS MCFleet, FleetSelectionProofs

\* Every spec of a fleet or a game type, for any images and any priorities.
AllSpecs(Images, Priorities) ==
    [server : [pod : Seq(Images), timeout : Nat], priority : Priorities]

\* Default fills in the timeout and leaves the rest of a spec alone.
LEMMA DefaultFills ==
    ASSUME NEW Images, NEW Priorities, NEW spec \in AllSpecs(Images, Priorities)
    PROVE  /\ FleetDefault(spec) \in AllSpecs(Images, Priorities)
           /\ FleetDefault(spec).priority = spec.priority
           /\ FleetDefault(spec).server = Default(spec.server)
           /\ Default(spec.server).pod = spec.server.pod
           /\ Default(spec.server).timeout # NoTimeout
           /\ Default(Default(spec.server)) = Default(spec.server)
<1>1. spec.server \in [pod : Seq(Images), timeout : Nat]
  BY DEF AllSpecs
<1>2. /\ Default(spec.server) \in [pod : Seq(Images), timeout : Nat]
      /\ Default(spec.server).pod = spec.server.pod
      /\ Default(spec.server).timeout # NoTimeout
      /\ Default(Default(spec.server)) = Default(spec.server)
  BY <1>1 DEF Default, NoTimeout
<1>3. QED
  BY <1>2 DEF FleetDefault, AllSpecs

\* A pod spec that is not empty has a container.
LEMMA NonEmptyPods ==
    ASSUME NEW Images, NEW pod \in Seq(Images)
    PROVE  pod # <<>> <=> Len(pod) >= 1
OBVIOUS

\* What the API server lets in can be carried out one level down, for every
\* spec: see SpecWorks.
THEOREM EverySpecWorks ==
    ASSUME NEW Images, NEW Priorities, NEW spec \in AllSpecs(Images, Priorities)
    PROVE  SpecWorks(spec)
<1> DEFINE default == FleetDefault(spec)
<1>1. /\ default \in AllSpecs(Images, Priorities) /\ default.priority = spec.priority
      /\ default.server = Default(spec.server) /\ Default(default.server) = default.server
      /\ default.server.pod = spec.server.pod /\ default.server.timeout # NoTimeout
  BY DefaultFills
<1>2. /\ FleetDefault(default).priority = spec.priority
      /\ FleetDefault(default).server = default.server
  BY <1>1, DefaultFills
<1>3. spec.server.pod \in Seq(Images)
  BY DEF AllSpecs
<1> HIDE DEF default
<1>4. ASSUME FleetAdmitted(spec)
      PROVE  /\ ~ChoiceFails(spec.priority, FALSE, {1}, <<"no">>)
             /\ ServerAdmitted(ServerOfFleet(spec)) <=> spec.server.pod # <<>>
  <2>1. spec.priority \in validPriorities /\ HasImages(spec.server.pod)
    BY <1>1, <1>4 DEF FleetAdmitted, FleetValidateCreate, validatePriorities, default
  <2>2. ~ChoiceFails(spec.priority, FALSE, {1}, <<"no">>)
    BY <2>1 DEF ChoiceFails, validPriorities
  <2>3. ServerAdmitted(ServerOfFleet(spec)) <=> Len(spec.server.pod) >= 1
    BY <1>1, <2>1 DEF ServerAdmitted, ServerOfFleet, ServerValidateCreate, default
  <2>4. QED
    BY <1>3, <2>2, <2>3, NonEmptyPods
<1>5. ASSUME GametypeAdmitted(spec)
      PROVE  IF spec.priority = "smallest_first" THEN ~FleetAdmitted(default)
             ELSE FleetAdmitted(default) /\ ServerAdmitted(ServerOfFleet(default))
  <2>1. /\ spec.priority \in CrdPriorities
        /\ HasImages(spec.server.pod) /\ Len(spec.server.pod) # 0
    BY <1>1, <1>5 DEF GametypeAdmitted, GametypeValidateCreate, default
  <2>2. FleetAdmitted(default) <=> spec.priority \in validPriorities
    BY <1>1, <1>2, <2>1 DEF FleetAdmitted, FleetValidateCreate, validatePriorities,
                            validPriorities, CrdPriorities
  <2>3. spec.priority \in validPriorities <=> spec.priority # "smallest_first"
    BY <2>1 DEF CrdPriorities, validPriorities
  <2>4. ServerAdmitted(ServerOfFleet(default))
    BY <1>1, <1>2, <1>3, <2>1 DEF ServerAdmitted, ServerOfFleet, ServerValidateCreate
  <2>5. QED
    BY <2>2, <2>3, <2>4
<1>6. QED
  BY <1>4, <1>5 DEF SpecWorks, FleetOfGametype, default

\* The webhooks of updates let in nothing that could not have been created:
\* no change of a fleet or of a server gets around the checks of its creation.
THEOREM EveryUpdateWorks ==
    ASSUME NEW Images, NEW Priorities,
           NEW spec \in AllSpecs(Images, Priorities), NEW new \in AllSpecs(Images, Priorities)
    PROVE  UpdateWorks(spec, new)
<1>1. /\ FleetDefault(spec).server.pod = spec.server.pod
      /\ FleetDefault(new).server.pod = new.server.pod
      /\ FleetDefault(new).server.timeout # NoTimeout
      /\ Default(spec.server).pod = spec.server.pod
      /\ Default(new.server).pod = new.server.pod
  BY DefaultFills
<1>2. FleetAdmitted(spec) /\ FleetUpdateAdmitted(spec, new) => FleetAdmitted(new)
  BY <1>1 DEF FleetAdmitted, FleetUpdateAdmitted, FleetValidateCreate, FleetValidateUpdate
<1>3. ServerAdmitted(spec.server) /\ ServerValidateUpdate(spec.server, new.server)
          => ServerAdmitted(new.server)
  BY <1>1 DEF ServerAdmitted, ServerValidateCreate, ServerValidateUpdate
<1>4. QED
  BY <1>2, <1>3 DEF UpdateWorks

\* The property that the run checks of the small specs.
THEOREM AdmittedSpecsWorkCorrect == Spec => []AdmittedSpecsWork
<1>1. \A spec \in Specs : spec \in AllSpecs({NoImage, "image"}, Strategies)
  <2>1. \A pod \in PodSpecs : pod \in Seq({NoImage, "image"})
    <3>1. ASSUME NEW Images, NEW a \in Images, NEW b \in Images
          PROVE  <<>> \in Seq(Images) /\ <<a>> \in Seq(Images) /\ <<a, b>> \in Seq(Images)
      OBVIOUS
    <3>2. QED
      BY <3>1 DEF PodSpecs
  <2>2. NoTimeout \in Nat
    BY DEF NoTimeout
  <2>3. QED
    BY <2>1, <2>2 DEF Specs, AllSpecs
<1>2. AdmittedSpecsWork
  BY <1>1, EverySpecWorks, EveryUpdateWorks DEF AdmittedSpecsWork
<1>3. QED
  BY <1>2, PTL

\* The property that the run checks of the small lists.
THEOREM SelectionAlwaysCorrect == Spec => []SelectionIsCorrect
<1>1. ASSUME NEW deleteFirst \in BOOLEAN, NEW list \in Lists,
             NEW ts \in [1..3 -> 1..3], NEW answer \in [1..3 -> Answers]
      PROVE  Given(1..3, list, ts, answer, deleteFirst)
  <2>1. PICK n \in 0..3 : list \in [1..n -> 1..3]
    BY <1>1 DEF Lists
  <2>2. list \in Seq(1..3)
    BY <2>1
  <2>3. ts \in [1..3 -> Int]
    OBVIOUS
  <2>4. QED
    BY <2>2, <2>3 DEF Given, Lists, NoChoice
<1>2. SelectionIsCorrect
  BY <1>1, FindDeleteServerCorrect DEF SelectionIsCorrect
<1>3. QED
  BY <1>2, PTL
=============================================================================
