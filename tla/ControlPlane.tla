---------------------------- MODULE ControlPlane ----------------------------
(***************************************************************************)
(* The life of one ControlPlane: users edit it, Crossplane runs the        *)
(* composition function on it over and over, garbage collects and applies  *)
(* composed resources, and the providers and the child cluster report back *)
(* what the next call of the function reads.                               *)
(*                                                                         *)
(* Composition says what the function returns.  Crossplane, the providers  *)
(* and the child cluster are external: they are modelled by what the       *)
(* function relies on.  A reconcile reads the resources its references     *)
(* name, deletes those that are no longer desired, and only then replaces  *)
(* the references and applies the desired ones; a resource being deleted   *)
(* keeps its policies and its reports until it is finalized, and can be    *)
(* applied again meanwhile.  A provider deletes the external resource on   *)
(* finalization if the policies last applied include Delete, and with it   *)
(* what is inside: the resource group takes the whole ControlPlane.        *)
(*                                                                         *)
(* Simplifications.  The deletion order that Usages enforce, and the       *)
(* refusal of a resource group that is not empty, are Teardown's: here     *)
(* what is being deleted goes all at once, or one Release ahead of the     *)
(* rest.  The deletes of a reconcile are one step, and of a write that     *)
(* breaks off either one resource is missing or all are.  External         *)
(* resources change only through their reports.  MaxEdits, MaxFaults and   *)
(* MaxConflicts bound user edits, faults and the calls in which the        *)
(* license guard reports a conflict; the reconciles are not bounded.       *)
(***************************************************************************)
EXTENDS Composition, Naturals

CONSTANTS
    InitParams,     \* the parameters a ControlPlane may be created with
    EditParams,     \* the parameters a user may change it to
    Arriving,       \* the reports that may come in while the parameters are p
    MaxEdits, MaxFaults, MaxConflicts

ASSUME ParamAssumption ==
    /\ InitParams \subseteq Params
    /\ EditParams \subseteq Params
    /\ Arriving \in [Params -> SUBSET Reportable]
    /\ MaxEdits \in Nat
    /\ MaxFaults \in Nat
    /\ MaxConflicts \in Nat

VARIABLES
    life,       \* "live", or "deleting" once the XR has a deletionTimestamp
    params,     \* spec.parameters
    refs,       \* the composed resources the XR references
    exists,     \* the composed resources in the API server
    dying,      \* those of them that are being deleted
    policies,   \* the managementPolicies each was last applied with
    content,    \* what was last applied of the UXP args, capabilities, client id
    up,         \* what the statuses of the existing resources report
    pc, plan,   \* the reconcile under way and what its function call returned
    modes,      \* history: the modes the ControlPlane has had
    everUp,     \* history: the reports that have been seen
    lost,       \* history: resources whose external counterpart, if any, was deleted
    restores,   \* history: how often the Restore was created, counted to 2
    edits, faults,
    conflicts   \* the calls so far in which the license guard reported a conflict

userVars == <<life, params, modes>>
objVars  == <<refs, exists, dying, policies, content>>
histVars == <<lost, restores>>
boundVars == <<edits, faults, conflicts>>
vars == <<userVars, objVars, histVars, up, everUp, pc, plan, boundVars>>

Content == [args : SUBSET Features, caps : SUBSET Features, clientId : BOOLEAN]
Plan    == [names : SUBSET Names, params : Params, content : Content]

TypeOK ==
    /\ life \in {"live", "deleting"}
    /\ params \in Params
    /\ refs \subseteq Names
    /\ exists \subseteq Names
    /\ dying \subseteq exists
    /\ policies \in [Names -> SUBSET Verbs]
    /\ content \in Content
    /\ up \subseteq Reportable
    /\ pc \in {"idle", "planned", "collected"}
    /\ plan \in Plan
    /\ modes \subseteq Modes
    /\ everUp \subseteq Reportable
    /\ lost \subseteq Names
    /\ restores \in 0 .. 2
    /\ edits \in 0 .. MaxEdits
    /\ faults \in 0 .. MaxFaults
    /\ conflicts \in 0 .. MaxConflicts

NoContent == [args |-> {}, caps |-> {}, clientId |-> FALSE]
NoPlan    == [names |-> {}, params |-> [mode |-> "Full", on |-> {}], content |-> NoContent]

Init ==
    /\ life = "live"
    /\ params \in InitParams
    /\ modes = {params.mode}
    /\ refs = {} /\ exists = {} /\ dying = {}
    /\ policies = [n \in Names |-> {}]
    /\ content = NoContent
    /\ up = {} /\ everUp = {}
    /\ pc = "idle" /\ plan = NoPlan
    /\ lost = {} /\ restores = 0
    /\ edits = 0 /\ faults = 0 /\ conflicts = 0

-----------------------------------------------------------------------------
(* Users *)

UserStep  == edits < MaxEdits /\ edits' = edits + 1 /\ UNCHANGED <<faults, conflicts>>

Edit ==
    /\ UserStep
    /\ life = "live"
    /\ \E p \in EditParams \ {params} : params' = p /\ modes' = modes \cup {p.mode}
    /\ UNCHANGED <<life, objVars, histVars, up, everUp, pc, plan>>

\* The XR is deleted, possibly while a reconcile is under way.
DeleteXR ==
    /\ UserStep
    /\ life = "live"
    /\ life' = "deleting"
    /\ UNCHANGED <<params, modes, objVars, histVars, up, everUp, pc, plan>>

-----------------------------------------------------------------------------
(* The reconcile *)

\* Crossplane reads the XR and what it references and runs the function.  The
\* license guard reports a conflict or not; without a license it is not asked.
Compose ==
    /\ pc = "idle"
    /\ life = "live"
    /\ pc' = "planned"
    /\ LET o == [present |-> refs \cap exists, up |-> up]
       IN  \E conflict \in BOOLEAN :
             /\ conflict => "license" \in params.on /\ conflicts < MaxConflicts
             /\ conflicts' = IF conflict THEN conflicts + 1 ELSE conflicts
             /\ plan' = [names   |-> Desired(params, o, conflict),
                         params  |-> params,
                         content |-> [args |-> ManagerArgs(params, o),
                                      caps |-> Capabilities(params, o),
                                      clientId |-> Reports(o, "identityIds")]]
    /\ UNCHANGED <<userVars, objVars, histVars, up, everUp, edits, faults>>

\* Observed resources that are not desired any more are deleted.
Collect ==
    /\ pc = "planned"
    /\ pc' = "collected"
    /\ dying' = dying \cup ((refs \cap exists) \ plan.names)
    /\ UNCHANGED <<userVars, refs, exists, policies, content, histVars, up, everUp,
                   plan, boundVars>>

\* The references are replaced and the resources in `names` are applied.
Write(names) ==
    /\ refs' = plan.names
    /\ exists' = exists \cup names
    /\ policies' = [n \in Names |->
                       IF n \in names THEN Policies(n, plan.params.mode) ELSE policies[n]]
    /\ content' = [args |-> IF "uxp-release" \in names
                            THEN plan.content.args ELSE content.args,
                   caps |-> IF "upbound-runtime-config" \in names
                            THEN plan.content.caps ELSE content.caps,
                   clientId |-> IF "backup-sa" \in names
                                THEN plan.content.clientId ELSE content.clientId]
    /\ restores' = IF /\ "backup-restore" \in names \ exists
                      /\ "Create" \in Policies("backup-restore", plan.params.mode)
                      /\ restores < 2
                   THEN restores + 1 ELSE restores
    /\ pc' = "idle"
    /\ plan' = NoPlan
    /\ UNCHANGED <<userVars, dying, lost, up, everUp, edits, conflicts>>

Apply ==
    /\ pc = "collected"
    /\ Write(plan.names)
    /\ UNCHANGED faults

Fault == faults < MaxFaults /\ faults' = faults + 1

\* One resource is refused and the others are applied, or none is.
ApplyFails ==
    /\ Fault
    /\ pc = "collected"
    /\ \E names \in {{}} \cup {plan.names \ {n} : n \in plan.names \ UsageSet} : Write(names)

\* The reconcile dies after the call of the function or after the deletions.
Abort ==
    /\ Fault
    /\ pc # "idle"
    /\ pc' = "idle"
    /\ plan' = NoPlan
    /\ UNCHANGED <<userVars, objVars, histVars, up, everUp, edits, conflicts>>

-----------------------------------------------------------------------------
(* Providers, child cluster and garbage collector *)

\* What must be up before r can be: a Release needs the cluster, the License
\* needs UXP, KnativeServing its operator and cert-manager.
Needs(r) ==
    CASE r \in Releases            -> {"oidcUrl"}
      [] r = "uxp-license"         -> {"uxp-release"}
      [] r = "knative-serving-cr"  -> {"knative-operator-release", "certmanager-release"}
      [] OTHER                     -> {}

BringUp(r) ==
    /\ r \in Arriving[params]
    /\ ReportedBy(r) \in exists \ dying
    /\ r \notin up
    /\ Needs(r) \subseteq up
    /\ up' = up \cup {r}
    /\ everUp' = everUp \cup {r}
    /\ UNCHANGED <<userVars, objVars, histVars, pc, plan, boundVars>>

\* A Helm upgrade fails, a license is rejected, Knative Serving degrades.
Regress(r) ==
    /\ Fault
    /\ r \in up \ Fields
    /\ up' = up \ {r}
    /\ UNCHANGED <<userVars, objVars, histVars, everUp, pc, plan, edits, conflicts>>

\* What is inside an external resource and goes with it.  The storage account,
\* the address, the identity and the cluster are all created in the resource
\* group of the Network XR, the Releases and Objects inside the cluster, and the
\* Service that is only observed by the k8gb Release.
GoesWith(n) ==
    CASE n = "network" -> Names \ UsageSet
      [] n = "aks" -> Names \ (UsageSet \cup Storage \cup
                               {"network", "k8gb-ip", "k8gb-ip-role", "backup-identity",
                                "backup-federation", "backup-role"})
      [] n = "k8gb-release" -> {n, "k8gb-coredns-observe"}
      [] OTHER -> {n}

\* Resources being deleted are finalized, all of them or one Release before the
\* rest; their external resources go too if the policies include Delete.
Finalize ==
    \E gone \in {dying} \cup {{n} : n \in dying \cap Releases} :
        /\ gone # {}
        /\ exists' = exists \ gone
        /\ dying' = dying \ gone
        /\ lost' = lost \cup UNION {GoesWith(n) : n \in {m \in gone : "Delete" \in policies[m]}}
        /\ policies' = [n \in Names |-> IF n \in gone THEN {} ELSE policies[n]]
        /\ content' = [args |-> IF "uxp-release" \in gone THEN {} ELSE content.args,
                       caps |-> IF "upbound-runtime-config" \in gone THEN {} ELSE content.caps,
                       clientId |-> IF "backup-sa" \in gone THEN FALSE ELSE content.clientId]
        /\ up' = {r \in up : ReportedBy(r) \notin gone}
        /\ UNCHANGED <<userVars, refs, restores, everUp, pc, plan, boundVars>>

\* What belongs to an XR that is being deleted is deleted with it.
Cascade ==
    /\ life = "deleting"
    /\ dying # exists
    /\ dying' = exists
    /\ UNCHANGED <<userVars, refs, exists, policies, content, histVars, up, everUp,
                   pc, plan, boundVars>>

-----------------------------------------------------------------------------
Reconcile == Compose \/ Collect \/ Apply
World     == Finalize \/ Cascade \/ \E r \in Reportable : BringUp(r)
Faulty    == ApplyFails \/ Abort \/ \E r \in Reportable : Regress(r)
Next      == Edit \/ DeleteXR \/ Reconcile \/ World \/ Faulty

Spec == Init /\ [][Next]_vars

\* Crossplane requeues the XR for ever; providers retry until a resource is up
\* or gone; the garbage collector does not forget.
Fairness ==
    /\ WF_vars(Reconcile)
    /\ WF_vars(Finalize)
    /\ WF_vars(Cascade)
    /\ \A r \in Reportable : WF_vars(BringUp(r))
FairSpec == Spec /\ Fairness

-----------------------------------------------------------------------------
(* Properties *)

VerbsOf(ms) == UNION {ModePolicies(m) : m \in ms}

\* No composed resource ever has a verb that none of the modes the ControlPlane
\* has had grants: an ObserveOnly take-over creates nothing, Provision deletes
\* nothing, Deprovision updates nothing, backup storage and the Knative
\* operator with policies of their own included, whatever edits and aborted
\* reconciles come in between (compose, orphan policy; backup.py storage_policies).
NoVerbBeyondModes ==
    \A n \in exists : policies[n] \subseteq VerbsOf(modes)

\* A ControlPlane that has only been in Provision or ObserveOnly has lost no
\* external resource: neither to its deletion, nor to add-ons turned off or
\* gates that closed again (fn.py "never include Delete, so the provisioned
\* control plane is orphaned").
ProvisionOrphans ==
    modes \subseteq {"Provision", "ObserveOnly"} => lost = {}

\* Backup storage, the Knative operator and the cluster with its network are lost
\* with the whole ControlPlane only: as long as it is live no edit of its features
\* or its mode, no verdict and no reconcile that fails half-way costs it one of
\* them (backup.py "never include Delete"; knative.py "keep the operator running";
\* compose adds network and aks whatever is asked for).  Its deletion takes them
\* all in a mode with Delete: the storage account is in the resource group of the
\* Network XR (backup.py:28), the operator in the cluster.
Protected == Storage \cup {"knative-operator-release", "k8gb-coredns-observe"}
Kept == Storage \cup {"knative-operator-release", "network", "aks"}
KeptWhileLive == life = "live" => lost \cap Kept = {}

\* The inductive strengthening of the three properties above: they follow from
\* the policies in force, those a plan is about to apply included, because only
\* a finalization takes an external resource, and from the cluster and its
\* network being in every plan of a live ControlPlane.
PoliciesInForce ==
    /\ params.mode \in modes
    /\ pc # "idle" => plan.params.mode \in modes
    /\ \A n \in Names : policies[n] \subseteq VerbsOf(modes)
    /\ \A n \in Protected : "Delete" \notin policies[n]
BasePlanned ==
    /\ pc # "idle" => {"network", "aks"} \subseteq plan.names
    /\ life = "live" => dying \cap {"network", "aks"} = {}
IInv == TypeOK /\ PoliciesInForce /\ BasePlanned /\ ProvisionOrphans /\ KeptWhileLive

\* What compose and its helpers hold a resource back for, with the features `on`:
\* the release that brings its CRDs, the ids it is made of, the issuer and the
\* deployed UXP for the workload identity, the accepted license for the paid
\* features.
Gate(n, on) ==
    CASE n \in {"envoy-proxy-config", "gateway-class", "argocd-gateway", "argocd-httproute"}
           -> {"envoy-gateway-release"}
      [] n \in {"argocd-issuer", "argocd-cert"} -> {"certmanager-release"}
      [] n = "argocd-app" -> {"argocd-release"}
      [] n \in {"vpa-release", "knative-operator-release"} -> If("license" \in on, {"uxp-license"})
      [] n \in {"knative-serving-ns", "knative-serving-cr"}
           -> {"certmanager-release", "knative-operator-release"}
              \cup If("license" \in on, {"uxp-license"})
      [] n \in {"backup-identity", "backup-federation", "backup-sa", "controller-restart",
                "backup-restore"} -> {"oidcUrl", "uxp-release"}
      [] n = "backup-role" -> {"oidcUrl", "uxp-release", "identityIds", "storageId"}
      [] n \in {"k8gb-ip-role", "usage-k8gb-ip-role-release"} -> {"publicIpId", "principalId"}
      [] OTHER -> {}

\* What compose holds back appears only after all it is held back for has been up:
\* no Gateway API, cert-manager, Argo CD or KnativeServing object before the
\* release with its CRDs, no role assignment before its ids, no workload identity
\* before issuer and UXP, no paid feature before the license is accepted, although
\* the call that decided so ran against older parameters and reports than those at
\* the time of the write.  Not held back, and so not spoken of: the backup
\* configuration, RBAC and schedule and the license with its Secret, which the code
\* hands to the provider to wait for UXP there (backup.py:4-6); the runtime config
\* has two gates, either of which will do.
GatesRespected ==
    [][\A n \in exists' \ exists : Gate(n, plan.params.on) \subseteq everUp]_vars

Everything == [present |-> Names, up |-> Reportable]

\* Nothing is left to do: the desired resources and no others exist, with the
\* policies of the current mode, and the manager args, the capabilities and the
\* client id are those of the features asked for.
Steady ==
    /\ refs = exists /\ dying = {}
    /\ exists = Desired(params, Everything, FALSE)
    /\ \A n \in exists : policies[n] = Policies(n, params.mode)
    /\ content.args = params.on \cap {"vpa", "knative"}
    /\ content.caps = content.args
    /\ content.clientId <=> "backup" \in params.on

\* Once edits and faults stop, the loop of calls that each see only what the
\* last one brought up reaches the complete control plane and stays there; a
\* deleted one leaves nothing behind.  No gate waits for something that waits
\* for the gate, and no failed or half-applied reconcile leaves a resource out.
Converges == <>[](IF life = "live" THEN Steady ELSE exists = {})

\* The reports that decide anything while p is asked for: the others change
\* nothing the function returns.
Deciding(p) ==
    {"oidcUrl"}
    \cup If("backup" \in p.on, {"uxp-release", "identityIds", "storageId"})
    \cup If("license" \in p.on, {"uxp-release", "uxp-license"})
    \cup If("vpa" \in p.on, {"vpa-release"})
    \cup If("knative" \in p.on,
            {"certmanager-release", "knative-operator-release", "knative-serving-cr"})
    \cup If("k8gb" \in p.on, {"principalId", "publicIpId", "envoy-gateway-release"})
    \cup If("argocd" \in p.on,
            {"certmanager-release", "envoy-gateway-release", "argocd-release"})

\* The loop has come to rest: another reconcile, without a conflict, would write
\* what is there, and what can still report something that decides has done so.
Quiet ==
    LET o == [present |-> refs \cap exists, up |-> up]
    IN  /\ life = "live" /\ pc = "idle"
        /\ refs = exists /\ dying = {}
        /\ exists = Desired(params, o, FALSE)
        /\ \A n \in exists : policies[n] = Policies(n, params.mode)
        /\ content = [args     |-> ManagerArgs(params, o),
                      caps     |-> Capabilities(params, o),
                      clientId |-> "backup-sa" \in exists /\ Reports(o, "identityIds")]
        /\ \A r \in Deciding(params) : ReportedBy(r) \in exists /\ Needs(r) \subseteq up => r \in up

\* The loop comes to rest nowhere but in the complete ControlPlane, whatever
\* features are asked for together, in whatever mode, and whatever edits and
\* faults came before: there is no gate that waits, over however many calls, for
\* what it holds back itself (the gates of compose and the add_ helpers).
QuietIsSteady == Quiet => Steady

\* While the guard changes its verdict from call to call, a live ControlPlane
\* that is not edited has nothing uninstalled: neither the license, nor a paid
\* feature that runs under it (compose: "On conflict, keep a license already
\* installed ... only a new claim is withheld").
ConflictUninstallsNothing ==
    edits = 0 /\ faults = 0 => dying = {}

\* apis/ctp/definition.yaml: installFrom is "Applied once at bootstrap", so the
\* Restore is created at most once.
RestoredOnce == restores <= 1

\* apis/ctp/definition.yaml: Provision "never deletes": no external resource is
\* deleted while the ControlPlane is in a mode without Delete.
NothingLostInProvision ==
    [][params.mode \in {"Provision", "ObserveOnly"} => lost' = lost]_vars
=============================================================================
