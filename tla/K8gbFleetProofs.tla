-------------------------- MODULE K8gbFleetProofs --------------------------
(***************************************************************************)
(* Theorems about K8gbFleet: a fleet of any size, with any ids, regions,   *)
(* zones and tags, in which two members may share an id or a tag, after    *)
(* any number of changes and faults.                                       *)
(***************************************************************************)
EXTENDS K8gbFleet, TLAPS

\* None is neither a setting, nor the values of a Release, nor a status.
LEMMA NoneApart == None \notin Settings \cup Values \cup Status
<1>1. \A s \in Settings : "zone" \in DOMAIN s
  BY DEF Settings
<1>2. \A s \in Values : "zone" \in DOMAIN s
  BY DEF Values
<1>3. \A s \in Status : "zone" \in DOMAIN s
  BY DEF Status
<1>4. "zone" \notin DOMAIN None
  BY DEF None
<1> QED BY <1>1, <1>2, <1>3, <1>4

-----------------------------------------------------------------------------
(* Type correctness *)

LEMMA TagType ==
    ASSUME NEW c \in Ctps, NEW p \in Settings
    PROVE  GeoTag(c, p) \in AllTags
BY DEF GeoTag, Settings, AllTags

LEMMA ValuesType ==
    ASSUME TypeOK, NEW c \in Ctps, NEW p \in Settings
    PROVE  ReleaseValues(c, p) \in Values /\ K8gbStatus(c, p) \in Status
<1>1. \A d \in Ctps : k8gb[d] # None => k8gb[d] \in Settings
  BY DEF TypeOK
<1>2. ExtGeoTags(c, p) \subseteq AllTags
  BY <1>1, TagType DEF ExtGeoTags
<1>3. p.zone \in Zones /\ GeoTag(c, p) \in AllTags
  BY TagType DEF Settings
<1>4. lb[c] \in {"none", "pinned", "other"} /\ deployed[c] \in BOOLEAN
  BY DEF TypeOK
<1>5. Glue(c) \in BOOLEAN
  BY <1>4 DEF Glue
<1> QED BY <1>2, <1>3, <1>4, <1>5 DEF ReleaseValues, K8gbStatus, Values, Status

Plans == [values : Values \cup {None}, status : Status \cup {None}]

LEMMA ComposedType ==
    ASSUME TypeOK, NEW c \in Ctps
    PROVE  Composed(c) \in Plans /\ NoPlan \in Plans
<1>1. NoPlan \in Plans
  BY DEF NoPlan, Plans
<1>2. ASSUME k8gb[c] # None PROVE Composed(c) \in Plans
  <2>1. k8gb[c] \in Settings
    BY <1>2 DEF TypeOK
  <2>2. ReleaseValues(c, k8gb[c]) \in Values /\ K8gbStatus(c, k8gb[c]) \in Status
    BY <2>1, ValuesType
  <2> QED BY <1>2, <2>2 DEF Composed, Plans
<1> QED BY <1>1, <1>2 DEF Composed

\* Every variable keeps its type.
THEOREM TypeCorrect == Spec => []TypeOK
<1>1. Init => TypeOK
  <2> SUFFICES ASSUME Init PROVE TypeOK
    OBVIOUS
  <2> USE FleetAssumption DEF FleetAssumption, Init
  <2>1. /\ life \in [Ctps -> {"absent", "live", "terminating"}]
        /\ k8gb \in [Ctps -> Settings \cup {None}] /\ \A c \in Ctps : k8gb[c] \in Settings
        /\ deployed \in [Ctps -> BOOLEAN]
        /\ lb \in [Ctps -> {"none", "pinned", "other"}]
        /\ addr \in [Ctps -> {"none", "there", "going", "replayed"}]
        /\ wedged \in [Ctps -> BOOLEAN]
        /\ pc \in [Ctps -> {"idle", "planned", "applied"}]
        /\ changes \in 0 .. MaxChanges
    OBVIOUS
  <2>2. NoPlan \in Plans
    BY DEF NoPlan, Plans
  <2>3. ASSUME NEW c \in Ctps
        PROVE  ReleaseValues(c, k8gb[c]) \in Values /\ K8gbStatus(c, k8gb[c]) \in Status
    <3>1. \A d \in Ctps : GeoTag(d, k8gb[d]) \in AllTags
      BY <2>1, TagType
    <3>2. ExtGeoTags(c, k8gb[c]) \subseteq AllTags
      BY <3>1 DEF ExtGeoTags
    <3>3. k8gb[c].zone \in Zones /\ GeoTag(c, k8gb[c]) \in AllTags
      BY <2>1, <3>1 DEF Settings
    <3>4. lb[c] \in {"none", "pinned", "other"} /\ Glue(c) \in BOOLEAN
      BY <2>1 DEF Glue
    <3> QED BY <3>2, <3>3, <3>4 DEF ReleaseValues, K8gbStatus, Values, Status
  <2>4. /\ values \in [Ctps -> Values \cup {None}]
        /\ chart \in [Ctps -> Values \cup {None}]
        /\ status \in [Ctps -> Status \cup {None}]
        /\ plan \in [Ctps -> Plans]
    BY <2>2, <2>3
  <2> QED BY <2>1, <2>4 DEF TypeOK, Plans
<1>2. TypeOK /\ [Next]_vars => TypeOK'
  <2> SUFFICES ASSUME TypeOK, [Next]_vars PROVE TypeOK'
    OBVIOUS
  <2>1. CASE UNCHANGED vars
    BY <2>1 DEF vars, child, address, pass, TypeOK
  <2>2. ASSUME NEW c \in Ctps,
               \/ Reconcile(c) \/ Azure(c) \/ Replay(c) \/ Gone(c)
               \/ Configure(c) \/ Create(c) \/ Delete(c)
               \/ Reattach(c) \/ Fail(c) \/ Abort(c)
        PROVE  TypeOK'
    <3> USE DEF TypeOK, child, address, pass
    <3>0. NoPlan \in Plans /\ Composed(c) \in Plans /\ plan \in [Ctps -> Plans]
      BY ComposedType DEF Plans
    <3>1. CASE Compose(c)
      BY <3>0, <3>1 DEF Compose, Plans
    <3>2. CASE Denied(c)
      BY <3>0, <3>2 DEF Denied, EndPass, Plans
    <3>3. CASE Apply(c)
      <4>1. plan[c] \in Plans
        BY <3>0
      <4>2. plan[c].values \in Values \cup {None}
        BY <4>1 DEF Plans
      <4>3. values' \in [Ctps -> Values \cup {None}]
        BY <3>3, <4>2 DEF Apply
      <4>4. [plan[c] EXCEPT !.values = None] \in Plans
        BY <4>1 DEF Plans
      <4>5. plan' \in [Ctps -> Plans]
        BY <3>0, <3>3, <4>4 DEF Apply
      <4>6. AddressAfter(c) \in {"none", "there", "going", "replayed"}
        <5>1. CASE plan[c].values = None /\ addr[c] # "none"
          BY <5>1 DEF AddressAfter
        <5>2. CASE plan[c].values # None /\ addr[c] = "none"
          BY <5>2 DEF AddressAfter
        <5>3. CASE /\ ~(plan[c].values = None /\ addr[c] # "none")
                   /\ ~(plan[c].values # None /\ addr[c] = "none")
          <6>1. AddressAfter(c) = addr[c]
            BY <5>3 DEF AddressAfter
          <6> QED BY <6>1
        <5> QED BY <5>1, <5>2, <5>3
      <4>7. /\ addr' \in [Ctps -> {"none", "there", "going", "replayed"}]
            /\ wedged' \in [Ctps -> BOOLEAN]
        BY <3>3, <4>6 DEF Apply
      <4>8. UNCHANGED <<life, k8gb, chart, deployed, lb, status, changes>>
            /\ pc' \in [Ctps -> {"idle", "planned", "applied"}]
        BY <3>3 DEF Apply
      <4> QED BY <4>3, <4>5, <4>7, <4>8 DEF Plans
    <3>4. CASE PatchStatus(c)
      <4>1. plan[c].status \in Status \cup {None}
        BY <3>0 DEF Plans
      <4> QED BY <3>0, <3>4, <4>1 DEF PatchStatus, EndPass, Plans
    <3>5. CASE Azure(c)
      <4>1. CASE Attach(c)
        BY <4>1 DEF Attach
      <4>2. CASE Upgrade(c)
        BY <4>2 DEF Upgrade
      <4>3. CASE Uninstall(c)
        BY <4>3 DEF Uninstall
      <4>4. CASE AddressGone(c)
        <5>1. /\ addr' = [addr EXCEPT ![c] = "none"]
              /\ \E w \in BOOLEAN : wedged' = [wedged EXCEPT ![c] = w]
              /\ UNCHANGED <<life, k8gb, values, chart, deployed, lb, status, pass, changes>>
          BY <4>4 DEF AddressGone
        <5>2. wedged' \in [Ctps -> BOOLEAN]
          BY <5>1
        <5> QED BY <5>1, <5>2
      <4> QED BY <3>5, <4>1, <4>2, <4>3, <4>4 DEF Azure
    <3>6. CASE Gone(c)
      BY <3>6 DEF Gone
    <3>7. Change => changes' \in 0 .. MaxChanges
      BY FleetAssumption DEF Change, FleetAssumption
    <3>8. CASE Configure(c)
      <4>1. k8gb' \in [Ctps -> Settings \cup {None}]
        BY <3>8, FleetAssumption DEF Configure, FleetAssumption
      <4> QED BY <3>7, <3>8, <4>1 DEF Configure
    <3>9. CASE Create(c)
      <4>1. k8gb' \in [Ctps -> Settings \cup {None}]
        BY <3>9, FleetAssumption DEF Create, FleetAssumption
      <4> QED BY <3>7, <3>9, <4>1 DEF Create
    <3>10. CASE Delete(c)
      BY <3>7, <3>10 DEF Delete
    <3>11. CASE Reattach(c)
      <4>1. lb' \in [Ctps -> {"none", "pinned", "other"}]
        BY <3>11 DEF Reattach
      <4> QED BY <3>7, <3>11, <4>1 DEF Reattach
    <3>12. CASE Fail(c)
      BY <3>7, <3>12 DEF Fail
    <3>13. CASE Abort(c)
      BY <3>0, <3>7, <3>13 DEF Abort, EndPass, Plans
    <3>14. CASE Replay(c)
      BY <3>14 DEF Replay
    <3> QED BY <2>2, <3>1, <3>2, <3>3, <3>4, <3>5, <3>6, <3>8, <3>9, <3>10, <3>11, <3>12,
               <3>13, <3>14
            DEF Reconcile
  <2> QED BY <2>1, <2>2 DEF Next
<1> QED BY <1>1, <1>2, PTL DEF Spec

-----------------------------------------------------------------------------
(* What comes back starts from nothing *)

\* A member that is absent has left no settings, no Release, no status and no
\* reconcile under way.
THEOREM InductiveInvariant == Spec => []IInv
<1>1. Init => AbsentBlank
  BY DEF Init, AbsentBlank
<1>2. TypeOK /\ AbsentBlank /\ [Next]_vars => AbsentBlank'
  <2> SUFFICES ASSUME TypeOK, AbsentBlank, [Next]_vars PROVE AbsentBlank'
    OBVIOUS
  <2>1. CASE UNCHANGED vars
    BY <2>1 DEF vars, child, address, pass, AbsentBlank, Installed
  <2>2. ASSUME NEW c \in Ctps,
               \/ Reconcile(c) \/ Azure(c) \/ Replay(c) \/ Gone(c)
               \/ Configure(c) \/ Create(c) \/ Delete(c)
               \/ Reattach(c) \/ Fail(c) \/ Abort(c),
               NEW d \in Ctps, life'[d] = "absent"
        PROVE  /\ k8gb'[d] = None /\ values'[d] = None /\ status'[d] = None
               /\ chart'[d] = None /\ lb'[d] = "none" /\ pc'[d] = "idle"
               /\ addr'[d] = "none" /\ ~wedged'[d]
    <3> USE DEF TypeOK, child, address, pass
    <3>0. life[d] = "absent" => /\ k8gb[d] = None /\ values[d] = None /\ status[d] = None
                                /\ chart[d] = None /\ lb[d] = "none" /\ pc[d] = "idle"
                                /\ addr[d] = "none" /\ ~wedged[d]
      BY DEF AbsentBlank, Installed
    <3>1. CASE Reconcile(c)
      BY <2>2, <3>0, <3>1
      DEF Reconcile, Compose, Denied, Apply, PatchStatus, EndPass, Installed
    <3>2. CASE Azure(c) \/ Replay(c)
      BY <2>2, <3>0, <3>2 DEF Azure, Attach, Upgrade, Uninstall, AddressGone, Replay
    <3>3. CASE Gone(c)
      BY <2>2, <3>0, <3>3 DEF Gone
    <3>4. CASE Configure(c) \/ Create(c) \/ Delete(c)
      BY <2>2, <3>0, <3>4 DEF Configure, Create, Delete, Change
    <3>5. CASE Reattach(c) \/ Fail(c) \/ Abort(c)
      BY <2>2, <3>0, <3>5 DEF Reattach, Fail, Abort, EndPass, Change
    <3> QED BY <2>2, <3>1, <3>2, <3>3, <3>4, <3>5
  <2> QED BY <2>1, <2>2 DEF Next, AbsentBlank, Installed
<1>3. AbsentBlank /\ TypeOK => IInv
  BY DEF IInv
<1> QED BY <1>1, <1>2, <1>3, TypeCorrect, PTL DEF Spec

-----------------------------------------------------------------------------
(* Where the fleet comes to rest *)

\* What a member at rest runs and publishes.
LEMMA MemberAtRest ==
    ASSUME IInv, NEW c \in Ctps, AtRest(c)
    PROVE  IF Running(c)
           THEN /\ chart[c] = ReleaseValues(c, k8gb[c]) /\ chart[c] # None /\ deployed[c]
                /\ status[c] = K8gbStatus(c, k8gb[c]) /\ status[c] # None
           ELSE k8gb[c] = None /\ status[c] = None
<1>1. life[c] = "live" \/ life[c] = "absent"
  BY DEF IInv, TypeOK, AtRest
<1>2. CASE Running(c)
  <2>1. k8gb[c] \in Settings /\ life[c] = "live" /\ k8gb[c] # None
    BY <1>2 DEF Running, IInv, TypeOK
  <2>2. ReleaseValues(c, k8gb[c]) \in Values /\ K8gbStatus(c, k8gb[c]) \in Status
    BY <2>1, ValuesType DEF IInv
  <2>3. [values |-> ReleaseValues(c, k8gb[c]), status |-> K8gbStatus(c, k8gb[c])]
          = [values |-> values[c], status |-> status[c]]
    BY <2>1 DEF AtRest, Composed
  <2>4. values[c] = ReleaseValues(c, k8gb[c]) /\ status[c] = K8gbStatus(c, k8gb[c])
    BY <2>3
  <2>5. values[c] # None /\ status[c] # None
    BY <2>2, <2>4, NoneApart
  <2> QED BY <1>2, <2>4, <2>5 DEF AtRest
<1>3. CASE ~Running(c)
  <2>1. k8gb[c] = None
    BY <1>1, <1>3 DEF Running, IInv, AbsentBlank
  <2>2. CASE life[c] = "live"
    <3>1. NoPlan = [values |-> values[c], status |-> status[c]]
      BY <2>1, <2>2 DEF AtRest, Composed
    <3>2. status[c] = None
      BY <3>1 DEF NoPlan
    <3> QED BY <1>3, <2>1, <3>2
  <2>3. CASE life[c] = "absent"
    BY <1>3, <2>1, <2>3 DEF IInv, AbsentBlank
  <2> QED BY <1>1, <2>2, <2>3
<1> QED BY <1>2, <1>3

\* A fleet of which every member is at rest has its peers and its glue right.
THEOREM RestIsRightHolds == Spec => []RestIsRight
<1>1. ASSUME IInv, \A c \in Ctps : AtRest(c) PROVE PeersRight /\ GlueRight
  <2>1. ASSUME NEW c \in Ctps, Running(c)
        PROVE  /\ chart[c] = ReleaseValues(c, k8gb[c]) /\ chart[c] # None /\ deployed[c]
               /\ status[c] = K8gbStatus(c, k8gb[c]) /\ status[c] # None
    BY <1>1, <2>1, MemberAtRest
  <2>2. ASSUME NEW c \in Ctps, ~Running(c) PROVE k8gb[c] = None /\ status[c] = None
    BY <1>1, <2>2, MemberAtRest
  <2>3. \A d \in Ctps : life[d] # "absent" /\ k8gb[d] # None <=> Running(d)
    BY <2>2 DEF Running
  <2>4. ASSUME NEW c \in Ctps, Running(c)
        PROVE  ExtGeoTags(c, k8gb[c]) = {Tag(d) : d \in Peers(c)}
    <3>1. \A d \in Ctps : d \in Peers(c) <=>
            /\ life[d] # "absent" /\ Id[d] # Id[c]
            /\ k8gb[d] # None /\ k8gb[d].zone = k8gb[c].zone
            /\ Tag(d) # Tag(c)
      BY <2>3 DEF Peers
    <3> QED BY <3>1 DEF ExtGeoTags, Tag, Peers
  <2>5. PeersRight
    <3> SUFFICES ASSUME NEW c \in Ctps, Running(c)
                 PROVE  /\ chart[c] # None /\ chart[c].tag = Tag(c)
                        /\ chart[c].ext = {Tag(d) : d \in Peers(c)}
      BY DEF PeersRight
    <3>1. chart[c] = ReleaseValues(c, k8gb[c]) /\ chart[c] # None
      BY <2>1
    <3>2. /\ ReleaseValues(c, k8gb[c]).tag = Tag(c)
          /\ ReleaseValues(c, k8gb[c]).ext = ExtGeoTags(c, k8gb[c])
      BY DEF ReleaseValues, Tag
    <3>3. ExtGeoTags(c, k8gb[c]) = {Tag(d) : d \in Peers(c)}
      BY <2>4
    <3> QED BY <3>1, <3>2, <3>3
  <2>6. ASSUME NEW c \in Ctps, Running(c)
        PROVE  /\ Published(c) <=> Running(c) /\ Answers(c)
               /\ Published(c) => status[c].tag = chart[c].tag /\ status[c].zone = chart[c].zone
    <3>1. /\ chart[c] = ReleaseValues(c, k8gb[c]) /\ chart[c] # None /\ deployed[c]
          /\ status[c] = K8gbStatus(c, k8gb[c]) /\ status[c] # None
      BY <2>1, <2>6
    <3>2. /\ ReleaseValues(c, k8gb[c]).tag = K8gbStatus(c, k8gb[c]).tag
          /\ ReleaseValues(c, k8gb[c]).zone = K8gbStatus(c, k8gb[c]).zone
          /\ K8gbStatus(c, k8gb[c]).glue = Glue(c)
      BY DEF ReleaseValues, K8gbStatus
    <3>3. Published(c) <=> Glue(c)
      BY <3>1, <3>2 DEF Published
    <3>4. Answers(c) <=> Glue(c)
      BY <3>1 DEF Answers, Glue
    <3> QED BY <2>6, <3>1, <3>2, <3>3, <3>4
  <2>7. ASSUME NEW c \in Ctps, ~Running(c) PROVE ~Published(c)
    BY <2>2, <2>7 DEF Published
  <2> QED BY <2>5, <2>6, <2>7 DEF GlueRight
<1>2. IInv => RestIsRight
  BY <1>1 DEF RestIsRight
<1> QED BY <1>2, InductiveInvariant, PTL
=============================================================================
