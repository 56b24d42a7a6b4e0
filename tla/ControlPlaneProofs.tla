------------------------- MODULE ControlPlaneProofs -------------------------
(***************************************************************************)
(* Proofs about ControlPlane: its types, and what managementPolicies       *)
(* guarantee through any sequence of edits, reconciles, faults and         *)
(* teardowns, for any choice of parameters, reports and bounds.            *)
(***************************************************************************)
EXTENDS ControlPlane, CompositionProofs, TLAPS

-----------------------------------------------------------------------------
(* Policies *)

\* A resource never gets a verb that the mode does not grant, and Storage, the
\* Knative operator and the observed CoreDNS Service never get Delete.
LEMMA PoliciesBounded ==
    ASSUME NEW n \in Names, NEW mode \in Modes
    PROVE  /\ Policies(n, mode) \subseteq ModePolicies(mode)
           /\ ModePolicies(mode) \subseteq Verbs
           /\ n \in Protected => "Delete" \notin Policies(n, mode)
<1>0. /\ UsageSet \cap Storage = {}
      /\ {"knative-operator-release", "k8gb-coredns-observe"} \cap (UsageSet \cup Storage) = {}
  BY DEF UsageSet, Storage
<1>1. /\ StoragePolicies(mode) \subseteq ModePolicies(mode)
      /\ "Delete" \notin StoragePolicies(mode)
  BY DEF StoragePolicies, ModePolicies, Verbs, Modes
<1>2. /\ OperatorPolicies(mode) \subseteq ModePolicies(mode)
      /\ "Delete" \notin OperatorPolicies(mode)
  BY DEF OperatorPolicies, ModePolicies, Verbs, Modes
<1>3. {"Observe"} \subseteq ModePolicies(mode) /\ ModePolicies(mode) \subseteq Verbs
  BY DEF ModePolicies, Verbs, Modes
<1>4. CASE n \in UsageSet
  <2>1. Policies(n, mode) = {}
    BY <1>0, <1>4 DEF Policies
  <2> QED BY <1>3, <2>1
<1>5. CASE n \notin UsageSet /\ n \in Storage
  <2>1. Policies(n, mode) = StoragePolicies(mode)
    BY <1>0, <1>5 DEF Policies
  <2> QED BY <1>1, <1>3, <2>1
<1>6. CASE n \notin UsageSet \cup Storage /\ n = "knative-operator-release"
  BY <1>2, <1>3, <1>6 DEF Policies
<1>7. CASE n \notin UsageSet \cup Storage /\ n = "k8gb-coredns-observe"
  BY <1>3, <1>7 DEF Policies
<1>8. CASE n \notin UsageSet \cup Storage \cup {"knative-operator-release", "k8gb-coredns-observe"}
  BY <1>3, <1>8 DEF Policies, Protected
<1> QED BY <1>4, <1>5, <1>6, <1>7, <1>8

-----------------------------------------------------------------------------
(* Type correctness *)

LEMMA NoPlanType == NoPlan \in Plan /\ NoContent \in Content
BY DEF NoPlan, NoContent, Plan, Content, Params, Modes

LEMMA TypeInit == Init => TypeOK
<1> SUFFICES ASSUME Init PROVE TypeOK
  OBVIOUS
<1>1. params \in Params /\ params.mode \in Modes /\ modes \subseteq Modes
  BY ParamAssumption DEF Init, ParamAssumption, Params
<1>2. 0 \in 0 .. MaxEdits /\ 0 \in 0 .. MaxFaults /\ 0 \in 0 .. 2
      /\ 0 \in 0 .. MaxConflicts
  BY ParamAssumption DEF ParamAssumption
<1>3. policies \in [Names -> SUBSET Verbs]
  BY DEF Init
<1> QED BY <1>1, <1>2, <1>3, NoPlanType DEF Init, TypeOK

\* One write of a plan keeps the types.
LEMMA WriteType ==
    ASSUME TypeOK, NEW names \in SUBSET plan.names, Write(names)
    PROVE  /\ UNCHANGED <<life, params, modes, dying, lost, up, everUp, edits, conflicts>>
           /\ refs' \subseteq Names /\ exists' \subseteq Names /\ dying' \subseteq exists'
           /\ policies' \in [Names -> SUBSET Verbs]
           /\ content' \in Content
           /\ pc' = "idle" /\ plan' \in Plan
           /\ restores' \in 0 .. 2
<1> USE DEF TypeOK
<1>1. plan.names \subseteq Names /\ plan.params.mode \in Modes /\ plan.content \in Content
  BY DEF Plan, Params
<1>2. \A n \in Names : Policies(n, plan.params.mode) \in SUBSET Verbs
  BY <1>1, PoliciesBounded
<1>3. policies' \in [Names -> SUBSET Verbs]
  BY <1>2 DEF Write
<1>4. content' \in Content
  BY <1>1 DEF Write, Content
<1>5. restores' \in 0 .. 2
  BY DEF Write
<1> QED BY <1>1, <1>3, <1>4, <1>5, NoPlanType DEF Write, userVars

\* What goes with a resource are resources, and those that stay as long as the
\* ControlPlane is live go only with themselves, the cluster or the network.
LEMMA GoesWithType ==
    ASSUME NEW n \in Names
    PROVE  /\ GoesWith(n) \subseteq Names
           /\ n \notin {"network", "aks"} => GoesWith(n) \cap Kept \subseteq {n}
<1>1. {"k8gb-release", "k8gb-coredns-observe"} \subseteq Names \ Kept
  BY DEF Names, Kept, Storage
<1>2. CASE n = "network"
  BY <1>2 DEF GoesWith
<1>3. CASE n = "aks"
  BY <1>3 DEF GoesWith
<1>4. CASE n = "k8gb-release"
  <2>1. GoesWith(n) = {n, "k8gb-coredns-observe"}
    BY <1>4 DEF GoesWith
  <2> QED BY <1>1, <1>4, <2>1
<1>5. CASE n \notin {"network", "aks", "k8gb-release"}
  BY <1>5 DEF GoesWith
<1> QED BY <1>2, <1>3, <1>4, <1>5

LEMMA TypeNext == TypeOK /\ [Next]_vars => TypeOK'
<1> SUFFICES ASSUME TypeOK, [Next]_vars PROVE TypeOK'
  OBVIOUS
<1> USE ParamAssumption DEF TypeOK, ParamAssumption
<1>1. CASE UNCHANGED vars
  BY <1>1 DEF vars, userVars, objVars, histVars, boundVars
<1>2. CASE Edit
  <2>1. PICK p \in EditParams : params' = p /\ modes' = modes \cup {p.mode}
    BY <1>2 DEF Edit
  <2>2. params' \in Params /\ modes' \subseteq Modes
    BY <2>1 DEF Params
  <2>3. edits' \in 0 .. MaxEdits
    BY <1>2 DEF Edit, UserStep
  <2> QED BY <1>2, <2>2, <2>3 DEF Edit, UserStep, objVars, histVars
<1>3. CASE DeleteXR
  <2>1. edits' \in 0 .. MaxEdits
    BY <1>3 DEF DeleteXR, UserStep
  <2> QED BY <1>3, <2>1 DEF DeleteXR, UserStep, objVars, histVars
<1>4. CASE Compose
  <2> DEFINE o == [present |-> refs \cap exists, up |-> up]
             args == ManagerArgs(params, o)
             caps == Capabilities(params, o)
             cid  == Reports(o, "identityIds")
  <2>1. PICK conflict \in BOOLEAN :
          /\ conflict => conflicts < MaxConflicts
          /\ conflicts' = IF conflict THEN conflicts + 1 ELSE conflicts
          /\ plan' = [names   |-> Desired(params, o, conflict),
                      params  |-> params,
                      content |-> [args |-> args, caps |-> caps, clientId |-> cid]]
    BY <1>4 DEF Compose
  <2>2. Desired(params, o, conflict) \subseteq Names
    BY DesiredType
  <2>3. args \subseteq Features /\ caps \subseteq Features /\ cid \in BOOLEAN
    BY DEF ManagerArgs, Capabilities, Features, Reports
  <2>4. plan' \in Plan
    <3> HIDE DEF args, caps, cid, o
    <3> QED BY <2>1, <2>2, <2>3 DEF Plan, Content
  <2>5. conflicts' \in 0 .. MaxConflicts
    BY <2>1
  <2> QED BY <1>4, <2>4, <2>5 DEF Compose, userVars, objVars, histVars
<1>5. CASE Collect
  BY <1>5 DEF Collect, userVars, histVars, boundVars
<1>6. CASE Apply
  BY <1>6, WriteType DEF Apply
<1>7. Fault => faults' \in 0 .. MaxFaults
  BY DEF Fault
<1>8. CASE ApplyFails
  <2>1. PICK names \in SUBSET plan.names : Write(names)
    BY <1>8 DEF ApplyFails
  <2> QED BY <1>7, <1>8, <2>1, WriteType DEF ApplyFails
<1>9. CASE Abort
  BY <1>7, <1>9, NoPlanType DEF Abort, userVars, objVars, histVars
<1>10. ASSUME NEW r \in Reportable, BringUp(r) PROVE TypeOK'
  BY <1>10 DEF BringUp, userVars, objVars, histVars, boundVars
<1>11. ASSUME NEW r \in Reportable, Regress(r) PROVE TypeOK'
  BY <1>7, <1>11 DEF Regress, userVars, objVars, histVars
<1>12. CASE Finalize
  <2>1. PICK gone \in {dying} \cup {{n} : n \in dying \cap Releases} :
          /\ exists' = exists \ gone
          /\ dying' = dying \ gone
          /\ lost' = lost \cup UNION {GoesWith(n) : n \in {m \in gone : "Delete" \in policies[m]}}
          /\ policies' = [n \in Names |-> IF n \in gone THEN {} ELSE policies[n]]
          /\ content' = [args |-> IF "uxp-release" \in gone THEN {} ELSE content.args,
                         caps |-> IF "upbound-runtime-config" \in gone
                                  THEN {} ELSE content.caps,
                         clientId |-> IF "backup-sa" \in gone
                                      THEN FALSE ELSE content.clientId]
          /\ up' = {r \in up : ReportedBy(r) \notin gone}
          /\ UNCHANGED <<userVars, refs, restores, everUp, pc, plan, boundVars>>
    BY <1>12 DEF Finalize
  <2>2. gone \subseteq dying
    OBVIOUS
  <2>3. policies' \in [Names -> SUBSET Verbs]
    BY <2>1
  <2>4. content' \in Content
    BY <2>1 DEF Content
  <2>5. lost' \subseteq Names
    BY <2>1, <2>2, GoesWithType
  <2> QED BY <2>1, <2>2, <2>3, <2>4, <2>5 DEF userVars, boundVars
<1>13. CASE Cascade
  BY <1>13 DEF Cascade, userVars, histVars, boundVars
<1> QED BY <1>1, <1>2, <1>3, <1>4, <1>5, <1>6, <1>8, <1>9, <1>10, <1>11, <1>12, <1>13
        DEF Next, Reconcile, World, Faulty

\* Every variable keeps its type; in particular the function composes only
\* resources it has named, whatever it observes.
THEOREM TypeCorrect == Spec => []TypeOK
BY TypeInit, TypeNext, PTL DEF Spec

-----------------------------------------------------------------------------
(* What the policies guarantee *)

\* More modes grant more verbs.
LEMMA VerbsOfMonotone ==
    ASSUME NEW ms, NEW ns, ms \subseteq ns
    PROVE  VerbsOf(ms) \subseteq VerbsOf(ns)
BY DEF VerbsOf

\* Provision and ObserveOnly grant no Delete.
LEMMA OrphaningModes ==
    "Delete" \notin VerbsOf({"Provision", "ObserveOnly"})
BY DEF VerbsOf, ModePolicies

LEMMA InitIInv == Init => IInv
<1> SUFFICES ASSUME Init PROVE IInv
  OBVIOUS
<1>1. TypeOK
  BY TypeInit
<1>2. Protected \subseteq Names
  BY DEF Protected, Storage, Names
<1> QED BY <1>1, <1>2 DEF Init, IInv, PoliciesInForce, BasePlanned, ProvisionOrphans,
           KeptWhileLive

\* A step that loses nothing, forgets no mode, gives no resource policies beyond
\* the modes and plans and deletes as BasePlanned says keeps the invariant.
LEMMA NothingLost ==
    ASSUME IInv, TypeOK', lost' = lost, modes \subseteq modes',
           params'.mode \in modes', life' = "live" => life = "live", BasePlanned',
           pc' # "idle" => plan'.params.mode \in modes',
           \A n \in Names : \/ policies'[n] = policies[n]
                            \/ \E m \in modes' : policies'[n] = Policies(n, m)
    PROVE  IInv'
<1>1. \A n \in Names : policies'[n] \subseteq VerbsOf(modes')
  <2> TAKE n \in Names
  <2>1. CASE policies'[n] = policies[n]
    BY <2>1, VerbsOfMonotone DEF IInv, PoliciesInForce
  <2>2. ASSUME NEW m \in modes', policies'[n] = Policies(n, m)
        PROVE  policies'[n] \subseteq VerbsOf(modes')
    <3>1. m \in Modes
      BY DEF TypeOK
    <3>2. Policies(n, m) \subseteq ModePolicies(m)
      BY <3>1, PoliciesBounded
    <3> QED BY <2>2, <3>2 DEF VerbsOf
  <2> QED BY <2>1, <2>2
<1>2. Protected \subseteq Names
  BY DEF Protected, Storage, Names
<1>3. \A n \in Protected : "Delete" \notin policies'[n]
  <2> TAKE n \in Protected
  <2>1. ASSUME NEW m \in modes' PROVE "Delete" \notin Policies(n, m)
    BY <1>2, PoliciesBounded DEF TypeOK
  <2> QED BY <1>2, <2>1 DEF IInv, PoliciesInForce
<1> QED BY <1>1, <1>3 DEF IInv, PoliciesInForce, ProvisionOrphans, KeptWhileLive

LEMMA NextIInv == IInv /\ [Next]_vars => IInv'
<1> SUFFICES ASSUME IInv, [Next]_vars PROVE IInv'
  OBVIOUS
<1>1. TypeOK /\ TypeOK'
  BY TypeNext DEF IInv
<1>2. params.mode \in modes /\ (pc # "idle" => plan.params.mode \in modes)
  BY DEF IInv, PoliciesInForce
<1>3. /\ pc # "idle" => {"network", "aks"} \subseteq plan.names
      /\ life = "live" => dying \cap {"network", "aks"} = {}
  BY DEF IInv, BasePlanned
\* Steps that neither plan nor delete anything.
<1>4. ASSUME pc' \in {pc, "idle"}, pc' # "idle" => plan' = plan,
             dying' = dying, life' = "live" => life = "live"
      PROVE  BasePlanned'
  BY <1>3, <1>4 DEF BasePlanned
<1>5. CASE UNCHANGED vars
  BY <1>1, <1>2, <1>4, <1>5, NothingLost DEF vars, userVars, objVars, histVars
<1>6. CASE Edit
  BY <1>1, <1>2, <1>4, <1>6, NothingLost DEF Edit, objVars, histVars
<1>7. CASE DeleteXR
  BY <1>1, <1>2, <1>4, <1>7, NothingLost DEF DeleteXR, objVars, histVars
<1>8. CASE Compose
  <2>1. plan'.params.mode = params.mode
    BY <1>8 DEF Compose
  <2>2. UNCHANGED <<userVars, objVars, histVars>>
    BY <1>8 DEF Compose
  <2>3. {"network", "aks"} \subseteq plan'.names
    <3> DEFINE o == [present |-> refs \cap exists, up |-> up]
    <3>1. PICK conflict \in BOOLEAN : plan'.names = Desired(params, o, conflict)
      BY <1>8 DEF Compose
    <3>2. {"network", "aks"} \subseteq Desired(params, o, conflict)
      <4> HIDE DEF o
      <4> QED BY DEF Desired, AddNetwork, AddAks
    <3> QED BY <3>1, <3>2
  <2>4. BasePlanned'
    BY <1>3, <2>2, <2>3 DEF BasePlanned, userVars, objVars
  <2> QED BY <1>1, <1>2, <2>1, <2>2, <2>4, NothingLost DEF userVars, objVars, histVars
<1>9. CASE Collect
  <2>1. BasePlanned'
    BY <1>3, <1>9 DEF Collect, BasePlanned, userVars
  <2> QED BY <1>1, <1>2, <1>9, <2>1, NothingLost DEF Collect, userVars, histVars
<1>10. ASSUME NEW names \in SUBSET plan.names, Write(names), pc = "collected" PROVE IInv'
  <2>1. \A n \in Names : policies'[n] = policies[n] \/ policies'[n] = Policies(n, plan.params.mode)
    BY <1>10 DEF Write
  <2>2. plan.params.mode \in modes
    BY <1>2, <1>10
  <2>3. pc' = "idle" /\ UNCHANGED <<life, params, modes, dying, lost>>
    BY <1>10 DEF Write, userVars
  <2> QED BY <1>1, <1>2, <1>4, <2>1, <2>2, <2>3, NothingLost
<1>11. CASE Apply
  BY <1>10, <1>11 DEF Apply
<1>12. CASE ApplyFails
  <2>1. PICK names \in SUBSET plan.names : Write(names)
    BY <1>12 DEF ApplyFails
  <2> QED BY <1>10, <1>12, <2>1 DEF ApplyFails
<1>13. CASE Abort
  BY <1>1, <1>2, <1>4, <1>13, NothingLost DEF Abort, userVars, objVars, histVars
<1>14. ASSUME NEW r \in Reportable, BringUp(r) \/ Regress(r) PROVE IInv'
  BY <1>1, <1>2, <1>4, <1>14, NothingLost DEF BringUp, Regress, userVars, objVars, histVars
<1>15. CASE Finalize
  <2>1. PICK gone \in {dying} \cup {{n} : n \in dying \cap Releases} :
          /\ lost' = lost \cup UNION {GoesWith(n) : n \in {m \in gone : "Delete" \in policies[m]}}
          /\ dying' = dying \ gone
          /\ policies' = [n \in Names |-> IF n \in gone THEN {} ELSE policies[n]]
          /\ UNCHANGED <<userVars, pc, plan>>
    BY <1>15 DEF Finalize
  <2>2. gone \subseteq dying /\ gone \subseteq Names
    BY <1>1 DEF TypeOK
  <2>3. ASSUME life = "live" PROVE lost' \cap Kept = {}
    <3>1. ASSUME NEW m \in gone, "Delete" \in policies[m] PROVE GoesWith(m) \cap Kept = {}
      <4>1. m \in Names \ Protected
        BY <2>2, <3>1 DEF IInv, PoliciesInForce
      <4>2. m \notin {"network", "aks"}
        BY <1>3, <2>2, <2>3
      <4>3. GoesWith(m) \cap Kept \subseteq {m}
        BY <4>1, <4>2, GoesWithType
      <4> QED BY <4>1, <4>2, <4>3 DEF Kept, Protected
    <3>2. lost \cap Kept = {}
      BY <2>3 DEF IInv, KeptWhileLive
    <3> QED BY <2>1, <3>1, <3>2
  <2>4. ASSUME modes \subseteq {"Provision", "ObserveOnly"} PROVE lost' = {}
    <3>1. \A n \in gone : "Delete" \notin policies[n]
      BY <2>2, <2>4, VerbsOfMonotone, OrphaningModes DEF IInv, PoliciesInForce
    <3>2. lost = {}
      BY <2>4 DEF IInv, ProvisionOrphans
    <3> QED BY <2>1, <3>1, <3>2
  <2>5. \A n \in Names : policies'[n] \subseteq policies[n]
    BY <2>1
  <2>6. Protected \subseteq Names
    BY DEF Protected, Storage, Names
  <2>7. PoliciesInForce'
    BY <2>1, <2>5, <2>6 DEF IInv, PoliciesInForce, userVars
  <2>8. BasePlanned'
    BY <1>3, <2>1 DEF BasePlanned, userVars
  <2>9. KeptWhileLive' /\ ProvisionOrphans'
    BY <2>1, <2>3, <2>4 DEF KeptWhileLive, ProvisionOrphans, userVars
  <2> QED BY <1>1, <2>7, <2>8, <2>9 DEF IInv
<1>16. CASE Cascade
  <2>1. BasePlanned'
    BY <1>3, <1>16 DEF Cascade, BasePlanned, userVars
  <2> QED BY <1>1, <1>2, <1>16, <2>1, NothingLost DEF Cascade, userVars, histVars
<1> QED BY <1>5, <1>6, <1>7, <1>8, <1>9, <1>11, <1>12, <1>13, <1>14, <1>15, <1>16
        DEF Next, Reconcile, World, Faulty

\* The inductive invariant holds in every reachable state.
THEOREM InductiveInvariant == Spec => []IInv
BY InitIInv, NextIInv, PTL DEF Spec

\* No resource ever carries a verb beyond those of the modes its ControlPlane
\* has had.
THEOREM NoVerbBeyondModesHolds == Spec => []NoVerbBeyondModes
<1>1. IInv => NoVerbBeyondModes
  BY DEF IInv, TypeOK, PoliciesInForce, NoVerbBeyondModes
<1> QED BY <1>1, InductiveInvariant, PTL

\* A ControlPlane never in Full or Deprovision loses no external resource,
\* whatever is edited, deleted or fails.
THEOREM ProvisionOrphansHolds == Spec => []ProvisionOrphans
<1>1. IInv => ProvisionOrphans
  BY DEF IInv
<1> QED BY <1>1, InductiveInvariant, PTL

\* Backup storage, the Knative operator, the cluster and its network are lost only
\* with the whole ControlPlane, in any mode and any sequence of modes.
THEOREM KeptWhileLiveHolds == Spec => []KeptWhileLive
<1>1. IInv => KeptWhileLive
  BY DEF IInv
<1> QED BY <1>1, InductiveInvariant, PTL

-----------------------------------------------------------------------------
(* Gates *)

\* A call of the function desires a resource only when all it is held back for is
\* reported.
LEMMA DesiredGated ==
    ASSUME NEW p \in Params, NEW o, NEW conflict \in BOOLEAN,
           NEW n \in Desired(p, o, conflict)
    PROVE  Gate(n, p.on) \subseteq o.up
<1>1. n \in AddNetwork \cup AddAks \cup AddUxp \cup AddCertmanager => Gate(n, p.on) = {}
  BY DEF AddNetwork, AddAks, AddUxp, AddCertmanager, Gate
<1>2. n \in AddUsage(p, o) => Gate(n, p.on) \subseteq o.up
  BY DEF AddUsage, RoleEmitted, Reports, If, Gate
<1>3. n \in AddGateway(o) => Gate(n, p.on) \subseteq o.up
  BY DEF AddGateway, Reports, If, Gate
<1>4. n \in AddK8gb(o) => Gate(n, p.on) \subseteq o.up
  BY DEF AddK8gb, RoleEmitted, Reports, If, Gate
<1>5. n \in AddArgocd(o) => Gate(n, p.on) \subseteq o.up
  BY DEF AddArgocd, Reports, If, Gate
<1>6. n \in AddBackup(p) => Gate(n, p.on) = {}
  BY DEF AddBackup, Storage, If, Gate
<1>7. Reports(o, "oidcUrl") /\ Reports(o, "uxp-release") /\ n \in AddWorkloadIdentity(p, o)
        => Gate(n, p.on) \subseteq o.up
  BY DEF AddWorkloadIdentity, Reports, If, Gate
<1>8. n \in AddLicense(p, o, conflict) => Gate(n, p.on) = {}
  BY DEF AddLicense, If, Gate
<1>9. FeaturesLicensed(p, o) /\ n \in AddVpa => Gate(n, p.on) \subseteq o.up
  BY DEF AddVpa, FeaturesLicensed, Reports, If, Gate
<1>10. FeaturesLicensed(p, o) /\ n \in AddKnative(o) => Gate(n, p.on) \subseteq o.up
  BY DEF AddKnative, KnativeDepsReady, FeaturesLicensed, Reports, If, Gate
<1>11. n = "upbound-runtime-config" => Gate(n, p.on) = {}
  BY DEF Gate
<1> QED BY <1>1, <1>2, <1>3, <1>4, <1>5, <1>6, <1>7, <1>8, <1>9, <1>10, <1>11
        DEF Desired, If

\* What is reported has been reported, and a plan was made when the gates of all
\* it names had been open.
PlanGated ==
    /\ up \subseteq everUp
    /\ \A n \in plan.names : Gate(n, plan.params.on) \subseteq everUp

LEMMA NextPlanGated == TypeOK /\ PlanGated /\ [Next]_vars => PlanGated'
<1> SUFFICES ASSUME TypeOK, PlanGated, [Next]_vars PROVE PlanGated'
  OBVIOUS
<1>1. CASE UNCHANGED vars
  BY <1>1 DEF vars, PlanGated
<1>2. CASE Edit \/ DeleteXR \/ Collect \/ Cascade
  BY <1>2 DEF Edit, DeleteXR, Collect, Cascade, PlanGated
<1>3. CASE Compose
  <2> DEFINE o == [present |-> refs \cap exists, up |-> up]
  <2>1. PICK conflict \in BOOLEAN :
          plan'.names = Desired(params, o, conflict) /\ plan'.params = params
    BY <1>3 DEF Compose
  <2>2. \A n \in plan'.names : Gate(n, plan'.params.on) \subseteq o.up
    <3> HIDE DEF o
    <3> QED BY <2>1, DesiredGated DEF TypeOK
  <2> QED BY <1>3, <2>2 DEF Compose, PlanGated
<1>4. CASE Apply \/ ApplyFails \/ Abort
  <2>1. plan'.names = {} /\ UNCHANGED <<up, everUp>>
    BY <1>4 DEF Apply, ApplyFails, Abort, Write, NoPlan
  <2> QED BY <2>1 DEF PlanGated
<1>5. ASSUME NEW r \in Reportable, BringUp(r) \/ Regress(r) PROVE PlanGated'
  BY <1>5 DEF BringUp, Regress, PlanGated
<1>6. CASE Finalize
  <2>1. up' \subseteq up /\ UNCHANGED <<everUp, plan>>
    BY <1>6 DEF Finalize
  <2> QED BY <2>1 DEF PlanGated
<1> QED BY <1>1, <1>2, <1>3, <1>4, <1>5, <1>6 DEF Next, Reconcile, World, Faulty

\* Only the application of a plan creates resources, and only those it names.
LEMMA CreatedByPlan == TypeOK /\ [Next]_vars => exists' \ exists \subseteq plan.names
<1> SUFFICES ASSUME TypeOK, [Next]_vars PROVE exists' \ exists \subseteq plan.names
  OBVIOUS
<1>1. CASE UNCHANGED exists
  BY <1>1
<1>2. CASE Apply \/ ApplyFails
  BY <1>2 DEF Apply, ApplyFails, Write
<1>3. CASE Finalize
  BY <1>3 DEF Finalize
<1>4. UNCHANGED exists \/ Apply \/ ApplyFails \/ Finalize
  BY DEF Next, Reconcile, World, Faulty, vars, objVars, Edit, DeleteXR, Compose, Collect,
         Abort, BringUp, Regress, Cascade
<1> QED BY <1>1, <1>2, <1>3, <1>4

\* What compose holds back appears only after all it is held back for has been up,
\* for any parameters, edits in the middle of a reconcile, faults and verdicts.
THEOREM GatesRespectedHolds == Spec => GatesRespected
<1>1. Init => PlanGated
  BY DEF Init, PlanGated, NoPlan
<1>2. TypeOK /\ PlanGated /\ [Next]_vars
        => [\A n \in exists' \ exists : Gate(n, plan.params.on) \subseteq everUp]_vars
  BY CreatedByPlan DEF PlanGated
<1> QED BY <1>1, <1>2, NextPlanGated, TypeCorrect, PTL DEF Spec, GatesRespected

-----------------------------------------------------------------------------
(* The verdicts of the license guard *)

Untouched == edits = 0 /\ faults = 0

\* What a call desires now, with everything it has composed so far in place.
Wanted(names) == Desired(params, [present |-> names, up |-> up], FALSE)

\* The strengthening of ConflictUninstallsNothing: what exists is what was desired
\* by an earlier call and is still desired, the license with its Secret, and a
\* plan takes nothing of it away.
Growing ==
    Untouched =>
        /\ life = "live" /\ dying = {} /\ exists = refs
        /\ refs \subseteq Wanted(refs)
        /\ "uxp-license" \in refs => "uxp-license-secret" \in refs
        /\ pc # "idle" =>
             /\ refs \subseteq plan.names
             /\ plan.names \subseteq Wanted(plan.names)
             /\ "uxp-license" \in plan.names => "uxp-license-secret" \in plan.names

LEMMA ComposeGrows == TypeOK /\ Growing /\ Compose => Growing'
<1> SUFFICES ASSUME TypeOK, Growing, Compose, Untouched PROVE Growing'
  BY DEF Growing, Compose, Untouched
<1> DEFINE o == [present |-> refs \cap exists, up |-> up]
<1>1. PICK conflict \in BOOLEAN :
        plan'.names = Desired(params, o, conflict) /\ plan'.params = params
  BY DEF Compose
<1>2. /\ life = "live" /\ dying = {} /\ exists = refs
      /\ refs \subseteq Wanted(refs)
      /\ "uxp-license" \in refs => "uxp-license-secret" \in refs
  BY DEF Growing
<1>3. o = [present |-> refs, up |-> up]
  BY <1>2
<1>4. params \in Params
  BY DEF TypeOK
<1>5. refs \subseteq plan'.names
  <2>1. CASE "uxp-license-secret" \in refs
    <3>1. Wanted(refs) \subseteq Desired(params, o, TRUE) /\ Wanted(refs) = Desired(params, o, FALSE)
      BY <1>3, <1>4, <2>1, DesiredMonotone DEF Wanted
    <3> QED BY <1>1, <1>2, <3>1
  <2>2. CASE "uxp-license-secret" \notin refs
    <3>1. Wanted(refs) \subseteq plan'.names \cup {"uxp-license-secret", "uxp-license"}
      BY <1>1, <1>3, <1>4, LicenseTogether DEF Wanted
    <3> QED BY <1>2, <2>2, <3>1
  <2> QED BY <2>1, <2>2
<1>6. plan'.names \subseteq Desired(params, [present |-> plan'.names, up |-> up], FALSE)
  <2> DEFINE q == [present |-> plan'.names, up |-> up]
  <2>1. o.present \subseteq q.present /\ o.up \subseteq q.up
    BY <1>3, <1>5
  <2>2. Desired(params, o, conflict) \subseteq Desired(params, q, FALSE)
    <3> HIDE DEF o, q
    <3> QED BY <1>4, <2>1, DesiredMonotone
  <2> QED BY <1>1, <2>2
<1>7. "uxp-license" \in plan'.names => "uxp-license-secret" \in plan'.names
  BY <1>1, <1>4, LicenseTogether
<1> QED BY <1>2, <1>5, <1>6, <1>7
        DEF Growing, Untouched, Wanted, Compose, userVars, objVars, histVars

LEMMA NextGrowing == TypeOK /\ Growing /\ [Next]_vars => Growing'
<1> SUFFICES ASSUME TypeOK, Growing, [Next]_vars PROVE Growing'
  OBVIOUS
<1>1. CASE UNCHANGED vars
  BY <1>1 DEF vars, userVars, objVars, histVars, boundVars, Growing, Untouched, Wanted
<1>2. CASE Edit \/ DeleteXR \/ ApplyFails \/ Abort \/ \E r \in Reportable : Regress(r)
  <2>1. ~Untouched'
    BY <1>2 DEF Edit, DeleteXR, UserStep, ApplyFails, Abort, Regress, Fault, Untouched, TypeOK
  <2> QED BY <2>1 DEF Growing
<1>3. CASE Compose
  BY <1>3, ComposeGrows
<1>4. CASE Collect
  BY <1>4 DEF Collect, Growing, Untouched, Wanted, userVars, histVars, boundVars
<1>5. CASE Apply
  BY <1>5 DEF Apply, Write, Growing, Untouched, Wanted, userVars
<1>6. ASSUME NEW r \in Reportable, BringUp(r) PROVE Growing'
  <2> SUFFICES ASSUME Untouched' PROVE Growing'
    BY DEF Growing
  <2>1. ASSUME NEW names, names \subseteq Wanted(names) PROVE names \subseteq (Wanted(names))'
    <3> DEFINE o == [present |-> names, up |-> up]
               q == [present |-> names, up |-> up']
    <3>1. o.present \subseteq q.present /\ o.up \subseteq q.up
      BY <1>6 DEF BringUp
    <3>2. Desired(params, o, FALSE) \subseteq Desired(params, q, FALSE)
      <4> HIDE DEF o, q
      <4> QED BY <3>1, DesiredMonotone DEF TypeOK
    <3> QED BY <1>6, <2>1, <3>2 DEF Wanted, BringUp, userVars
  <2>2. UNCHANGED <<life, params, refs, exists, dying, pc, plan, edits, faults>>
    BY <1>6 DEF BringUp, userVars, objVars, boundVars
  <2> QED BY <2>1, <2>2 DEF Growing, Untouched
<1>7. CASE Finalize \/ Cascade
  BY <1>7 DEF Finalize, Cascade, Growing, Untouched, boundVars
<1> QED BY <1>1, <1>2, <1>3, <1>4, <1>5, <1>6, <1>7 DEF Next, Reconcile, World, Faulty

\* However the license guard changes its verdict, a ControlPlane that is neither
\* edited nor hit by a fault has nothing uninstalled.
THEOREM ConflictUninstallsNothingHolds == Spec => []ConflictUninstallsNothing
<1>1. Init => Growing
  BY DEF Init, Growing
<1>2. Growing => ConflictUninstallsNothing
  BY DEF Growing, Untouched, ConflictUninstallsNothing
<1> QED BY <1>1, <1>2, NextGrowing, TypeCorrect, PTL DEF Spec

-----------------------------------------------------------------------------
(* Where the loop comes to rest *)

\* A report that decides is a report, so it is in when everything is.
LEMMA EverythingReports ==
    \A r \in Reportable : Reports(Everything, r)
<1>1. \A r \in Reportable : ReportedBy(r) \in Names
  BY DEF Reportable, Releases, Fields, ReportedBy, Names, Storage
<1> QED BY <1>1 DEF Everything, Reports

\* Two observations with all the reports that decide make the function return
\* the same, the paid features and the workload identity included.
LEMMA DecidingDecide ==
    ASSUME NEW p \in Params, NEW o, NEW q,
           \A r \in Deciding(p) : Reports(o, r) /\ Reports(q, r)
    PROVE  /\ Desired(p, o, FALSE) = Desired(p, q, FALSE)
           /\ ManagerArgs(p, o) = p.on \cap {"vpa", "knative"}
           /\ Capabilities(p, o) = p.on \cap {"vpa", "knative"}
           /\ "backup" \in p.on => Reports(o, "identityIds")
<1>1. /\ "backup" \in p.on => {"oidcUrl", "uxp-release", "identityIds", "storageId"} \subseteq Deciding(p)
      /\ "license" \in p.on => "uxp-license" \in Deciding(p)
      /\ "vpa" \in p.on => "vpa-release" \in Deciding(p)
      /\ "knative" \in p.on => {"certmanager-release", "knative-operator-release",
                                "knative-serving-cr"} \subseteq Deciding(p)
      /\ "k8gb" \in p.on => {"principalId", "publicIpId", "envoy-gateway-release"} \subseteq Deciding(p)
      /\ "argocd" \in p.on => {"certmanager-release", "envoy-gateway-release",
                               "argocd-release"} \subseteq Deciding(p)
  BY DEF Deciding, If
<1>2. ASSUME NEW s, \A r \in Deciding(p) : Reports(s, r)
      PROVE  /\ FeaturesLicensed(p, s)
             /\ "knative" \in p.on => KnativeDepsReady(s) /\ KnativeReady(s)
             /\ "vpa" \in p.on => Reports(s, "vpa-release")
             /\ "k8gb" \in p.on => RoleEmitted(s)
             /\ "k8gb" \in p.on \/ "argocd" \in p.on => Reports(s, "envoy-gateway-release")
             /\ "argocd" \in p.on => Reports(s, "certmanager-release") /\ Reports(s, "argocd-release")
             /\ "backup" \in p.on => /\ Reports(s, "oidcUrl") /\ Reports(s, "uxp-release")
                                     /\ Reports(s, "identityIds") /\ Reports(s, "storageId")
  BY <1>1, <1>2 DEF FeaturesLicensed, KnativeDepsReady, KnativeReady, RoleEmitted
<1>3. /\ ManagerArgs(p, o) = p.on \cap {"vpa", "knative"}
      /\ Capabilities(p, o) = p.on \cap {"vpa", "knative"}
      /\ Capabilities(p, q) = p.on \cap {"vpa", "knative"}
  BY <1>2 DEF ManagerArgs, Capabilities
<1>4. AddUsage(p, o) = AddUsage(p, q)
  BY <1>2 DEF AddUsage, If
<1>5. /\ "k8gb" \in p.on \/ "argocd" \in p.on => AddGateway(o) = AddGateway(q)
      /\ "k8gb" \in p.on => AddK8gb(o) = AddK8gb(q)
      /\ "argocd" \in p.on => AddArgocd(o) = AddArgocd(q)
      /\ "backup" \in p.on => AddWorkloadIdentity(p, o) = AddWorkloadIdentity(p, q)
      /\ "knative" \in p.on => AddKnative(o) = AddKnative(q)
  BY <1>2 DEF AddGateway, AddK8gb, AddArgocd, AddWorkloadIdentity, AddKnative, If
<1>6. \A n : Composed(n, p, o) <=> Composed(n, p, q)
  BY <1>2, <1>3, <1>4, <1>5 DEF Composed
<1>7. AddLicense(p, o, FALSE) = AddLicense(p, q, FALSE)
  BY DEF AddLicense
<1>8. \A n : n \in Desired(p, o, FALSE) <=> n \in Desired(p, q, FALSE)
  BY <1>6, <1>7, DesiredComposed
<1>9. Desired(p, o, FALSE) = Desired(p, q, FALSE)
  BY <1>8 DEF Desired
<1> QED BY <1>2, <1>3, <1>9

\* Gate after gate opens: where all that can report has reported, and what the
\* function returns is there, every report that decides is in.
LEMMA EveryGateOpens ==
    ASSUME NEW p \in Params, NEW o, NEW reported,
           o.present = Desired(p, o, FALSE), o.up = reported,
           \A r \in Deciding(p) :
             ReportedBy(r) \in o.present /\ Needs(r) \subseteq reported => r \in reported
    PROVE  \A r \in Deciding(p) : Reports(o, r)
<1> DEFINE D == Deciding(p)
<1>0. /\ "backup" \in p.on => {"uxp-release", "identityIds", "storageId"} \subseteq D
      /\ "license" \in p.on => {"uxp-release", "uxp-license"} \subseteq D
      /\ "vpa" \in p.on => "vpa-release" \in D
      /\ "knative" \in p.on => {"certmanager-release", "knative-operator-release",
                                "knative-serving-cr"} \subseteq D
      /\ "k8gb" \in p.on => {"principalId", "publicIpId", "envoy-gateway-release"} \subseteq D
      /\ "argocd" \in p.on => {"certmanager-release", "envoy-gateway-release",
                               "argocd-release"} \subseteq D
      /\ "oidcUrl" \in D
  BY DEF Deciding, If
<1> HIDE DEF D
<1>1. ASSUME NEW n, Composed(n, p, o) \/ n \in AddLicense(p, o, FALSE) PROVE n \in o.present
  <2>1. n \in Desired(p, o, FALSE)
    BY <1>1, DesiredComposed
  <2> QED BY <2>1
<1>2. ASSUME NEW r \in D, ReportedBy(r) \in o.present, Needs(r) \subseteq reported
      PROVE  Reports(o, r)
  BY <1>2 DEF Reports, D
<1>3. Reports(o, "oidcUrl")
  <2>1. "aks" \in o.present
    BY <1>1 DEF Composed, AddAks
  <2>2. ReportedBy("oidcUrl") = "aks" /\ Needs("oidcUrl") = {}
    BY DEF ReportedBy, Needs, Releases
  <2> QED BY <1>0, <1>2, <2>1, <2>2
<1>4. ASSUME NEW r \in Releases \cap D, r \in o.present PROVE Reports(o, r)
  <2>1. ReportedBy(r) = r /\ Needs(r) = {"oidcUrl"}
    BY DEF ReportedBy, Needs, Releases
  <2>2. "oidcUrl" \in reported
    BY <1>3 DEF Reports
  <2>3. r \in D /\ ReportedBy(r) \in o.present /\ Needs(r) \subseteq reported
    BY <1>4, <2>1, <2>2
  <2> QED BY <1>2, <2>3
<1>5. /\ "uxp-release" \in D => Reports(o, "uxp-release")
      /\ "certmanager-release" \in D => Reports(o, "certmanager-release")
  <2>1. "uxp-release" \in o.present /\ "certmanager-release" \in o.present
    BY <1>1 DEF Composed, AddUxp, AddCertmanager
  <2> QED BY <1>4, <2>1 DEF Releases
<1>6. "license" \in p.on => Reports(o, "uxp-license")
  <2> SUFFICES ASSUME "license" \in p.on PROVE Reports(o, "uxp-license")
    OBVIOUS
  <2>1. "uxp-license" \in o.present
    BY <1>1 DEF AddLicense, If
  <2>2. ReportedBy("uxp-license") = "uxp-license" /\ Needs("uxp-license") = {"uxp-release"}
    BY DEF ReportedBy, Needs, Releases
  <2>3. "uxp-release" \in reported
    BY <1>0, <1>5 DEF Reports
  <2>4. /\ "uxp-license" \in D /\ ReportedBy("uxp-license") \in o.present
        /\ Needs("uxp-license") \subseteq reported
    BY <1>0, <2>1, <2>2, <2>3
  <2> QED BY <1>2, <2>4
<1>7. FeaturesLicensed(p, o)
  BY <1>6 DEF FeaturesLicensed
<1>8. "vpa" \in p.on => Reports(o, "vpa-release")
  <2>1. "vpa" \in p.on => "vpa-release" \in o.present
    BY <1>1, <1>7 DEF Composed, AddVpa
  <2> QED BY <1>0, <1>4, <2>1 DEF Releases
<1>9. "knative" \in p.on => Reports(o, "knative-operator-release") /\ Reports(o, "knative-serving-cr")
  <2> SUFFICES ASSUME "knative" \in p.on
               PROVE  Reports(o, "knative-operator-release") /\ Reports(o, "knative-serving-cr")
    OBVIOUS
  <2>1. "knative-operator-release" \in o.present
    BY <1>1, <1>7 DEF Composed, AddKnative
  <2>2. Reports(o, "knative-operator-release") /\ Reports(o, "certmanager-release")
    BY <1>0, <1>4, <1>5, <2>1 DEF Releases
  <2>3. "knative-serving-cr" \in AddKnative(o)
    BY <2>2 DEF AddKnative, If, KnativeDepsReady
  <2>4. "knative-serving-cr" \in o.present
    BY <1>1, <1>7, <2>3 DEF Composed
  <2>5. /\ ReportedBy("knative-serving-cr") = "knative-serving-cr"
        /\ Needs("knative-serving-cr") = {"knative-operator-release", "certmanager-release"}
    BY DEF ReportedBy, Needs, Releases
  <2>6. Needs("knative-serving-cr") \subseteq reported
    BY <2>2, <2>5 DEF Reports
  <2> QED BY <1>0, <1>2, <2>2, <2>4, <2>5, <2>6
<1>10. "k8gb" \in p.on \/ "argocd" \in p.on => Reports(o, "envoy-gateway-release")
  <2>1. "k8gb" \in p.on \/ "argocd" \in p.on => "envoy-gateway-release" \in o.present
    BY <1>1 DEF Composed, AddGateway
  <2> QED BY <1>0, <1>4, <2>1 DEF Releases
<1>11. "k8gb" \in p.on => Reports(o, "principalId") /\ Reports(o, "publicIpId")
  <2>1. "k8gb" \in p.on => "aks" \in o.present /\ "k8gb-ip" \in o.present
    BY <1>1 DEF Composed, AddAks, AddK8gb
  <2>2. /\ ReportedBy("principalId") = "aks" /\ ReportedBy("publicIpId") = "k8gb-ip"
        /\ Needs("principalId") = {} /\ Needs("publicIpId") = {}
    BY DEF ReportedBy, Needs, Releases
  <2>3. ASSUME "k8gb" \in p.on, NEW r \in {"principalId", "publicIpId"}
        PROVE  r \in D /\ ReportedBy(r) \in o.present /\ Needs(r) \subseteq reported
    BY <1>0, <2>1, <2>2, <2>3
  <2> QED BY <1>2, <2>3
<1>12. "argocd" \in p.on => Reports(o, "argocd-release")
  <2>1. "argocd" \in p.on => "argocd-release" \in o.present
    BY <1>1 DEF Composed, AddArgocd
  <2> QED BY <1>0, <1>4, <2>1 DEF Releases
<1>13. "backup" \in p.on => Reports(o, "identityIds") /\ Reports(o, "storageId")
  <2> SUFFICES ASSUME "backup" \in p.on
               PROVE  Reports(o, "identityIds") /\ Reports(o, "storageId")
    OBVIOUS
  <2>1. "backup-storage-account" \in o.present
    BY <1>1 DEF Composed, AddBackup, Storage
  <2>2. "backup-identity" \in o.present
    <3>1. "backup-identity" \in AddWorkloadIdentity(p, o)
      BY DEF AddWorkloadIdentity
    <3> QED BY <1>0, <1>1, <1>3, <1>5, <3>1 DEF Composed
  <2>3. /\ ReportedBy("identityIds") = "backup-identity"
        /\ ReportedBy("storageId") = "backup-storage-account"
        /\ Needs("identityIds") = {} /\ Needs("storageId") = {}
    BY DEF ReportedBy, Needs, Releases
  <2>4. ASSUME NEW r \in {"identityIds", "storageId"}
        PROVE  r \in D /\ ReportedBy(r) \in o.present /\ Needs(r) \subseteq reported
    BY <1>0, <2>1, <2>2, <2>3, <2>4
  <2> QED BY <1>2, <2>4
<1>14. ASSUME NEW r \in D
       PROVE  \/ r = "oidcUrl"
              \/ "backup" \in p.on /\ r \in {"uxp-release", "identityIds", "storageId"}
              \/ "license" \in p.on /\ r \in {"uxp-release", "uxp-license"}
              \/ "vpa" \in p.on /\ r = "vpa-release"
              \/ /\ "knative" \in p.on
                 /\ r \in {"certmanager-release", "knative-operator-release",
                           "knative-serving-cr"}
              \/ /\ "k8gb" \in p.on
                 /\ r \in {"principalId", "publicIpId", "envoy-gateway-release"}
              \/ /\ "argocd" \in p.on
                 /\ r \in {"certmanager-release", "envoy-gateway-release", "argocd-release"}
  BY <1>14 DEF D, Deciding, If
<1>15. \A r \in D : Reports(o, r)
  BY <1>14, <1>3, <1>5, <1>6, <1>8, <1>9, <1>10, <1>11, <1>12, <1>13
<1> QED BY <1>15 DEF D

LEMMA DecidingType == \A p \in Params : Deciding(p) \subseteq Reportable
BY DEF Deciding, If, Reportable, Releases, Fields

\* The service account of the backups comes with the backups, once the cluster
\* and UXP are up.
LEMMA AccountWithBackup ==
    ASSUME NEW p, NEW o, "backup-sa" \in Desired(p, o, FALSE)
    PROVE  "backup" \in p.on
<1>1. "backup-sa" \notin AddUsage(p, o) \cup AddGateway(o) \cup AddK8gb(o) \cup AddArgocd(o)
  BY DEF AddUsage, AddGateway, AddK8gb, AddArgocd, If
<1>2. "backup-sa" \notin AddLicense(p, o, FALSE) \cup AddKnative(o)
  BY DEF AddLicense, AddKnative, If
<1>3. "backup-sa" \notin AddNetwork \cup AddAks \cup AddUxp \cup AddCertmanager \cup AddVpa
  BY DEF AddNetwork, AddAks, AddUxp, AddCertmanager, AddVpa
<1> QED BY <1>1, <1>2, <1>3, DesiredComposed DEF Composed

\* The loop comes to rest nowhere but in the complete ControlPlane.
THEOREM QuietIsSteadyHolds == Spec => []QuietIsSteady
<1>1. ASSUME TypeOK, Quiet PROVE Steady
  <2> DEFINE o == [present |-> exists, up |-> up]
  <2>1. params \in Params /\ o.present = exists /\ o.up = up
    BY <1>1 DEF TypeOK
  <2>2. refs \cap exists = exists
    BY <1>1 DEF Quiet
  <2>3. /\ refs = exists /\ dying = {}
        /\ exists = Desired(params, o, FALSE)
        /\ \A n \in exists : policies[n] = Policies(n, params.mode)
        /\ content = [args     |-> ManagerArgs(params, o),
                      caps     |-> Capabilities(params, o),
                      clientId |-> "backup-sa" \in exists /\ Reports(o, "identityIds")]
        /\ \A r \in Deciding(params) :
             ReportedBy(r) \in exists /\ Needs(r) \subseteq up => r \in up
    BY <1>1, <2>2 DEF Quiet
  <2>4. /\ content.args = ManagerArgs(params, o)
        /\ content.caps = Capabilities(params, o)
        /\ content.clientId <=> "backup-sa" \in exists /\ Reports(o, "identityIds")
    BY <2>3
  <2> HIDE DEF o
  <2>5. \A r \in Deciding(params) : Reports(o, r)
    BY <2>1, <2>3, EveryGateOpens
  <2>6. \A r \in Deciding(params) : Reports(Everything, r)
    BY <2>1, DecidingType, EverythingReports
  <2>7. /\ Desired(params, o, FALSE) = Desired(params, Everything, FALSE)
        /\ ManagerArgs(params, o) = params.on \cap {"vpa", "knative"}
        /\ Capabilities(params, o) = params.on \cap {"vpa", "knative"}
        /\ "backup" \in params.on => Reports(o, "identityIds")
    BY <2>1, <2>5, <2>6, DecidingDecide
  <2>8. "backup-sa" \in exists <=> "backup" \in params.on
    <3>1. ASSUME "backup" \in params.on PROVE "backup-sa" \in Desired(params, o, FALSE)
      <4>1. {"oidcUrl", "uxp-release"} \subseteq Deciding(params)
        BY <3>1 DEF Deciding, If
      <4>2. "backup-sa" \in AddWorkloadIdentity(params, o)
        BY DEF AddWorkloadIdentity
      <4> QED BY <2>5, <3>1, <4>1, <4>2, DesiredComposed DEF Composed
    <3> QED BY <2>3, <3>1, AccountWithBackup
  <2> QED BY <2>3, <2>4, <2>7, <2>8 DEF Steady
<1>2. TypeOK => QuietIsSteady
  BY <1>1 DEF QuietIsSteady
<1> QED BY <1>2, TypeCorrect, PTL
=============================================================================
