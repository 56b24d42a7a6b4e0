---------------------------- MODULE Composition ----------------------------
(***************************************************************************)
(* What the composition function returns: compose() and the add_* helpers  *)
(* it calls, as operators on the parameters of the ControlPlane and on     *)
(* what was observed of its composed resources.                            *)
(*                                                                         *)
(* A resource is the name it has in rsp.desired.resources.  Of a manifest  *)
(* only what another part of the system reacts to is kept: its             *)
(* managementPolicies, the UXP manager args, the runtime-config            *)
(* capabilities and the client-id annotation.  An optional feature is on   *)
(* or off; its other settings (chart values, hostnames, sizes, schedules)  *)
(* decide nothing.  The license guard is LicenseClaims; here its verdict   *)
(* is the argument `conflict`.                                             *)
(***************************************************************************)
EXTENDS FiniteSets

Modes == {"Full", "Provision", "ObserveOnly", "Deprovision"}

\* spec.parameters: the mode, and which optional features are asked for.
Features == {"backup", "schedule", "installFrom", "license", "vpa", "knative", "k8gb", "argocd"}
Params   == [mode : Modes, on : SUBSET Features]

-----------------------------------------------------------------------------
(* managementPolicies *)

Verbs == {"Observe", "Create", "Update", "LateInitialize", "Delete"}

\* Mutant of ModePolicies: Provision falls back to the default.
DefaultedPolicies(mode) ==
    CASE mode \in {"Full", "Provision"} -> Verbs
      [] mode = "ObserveOnly" -> {"Observe"}
      [] mode = "Deprovision" -> {"Create", "Delete", "Observe"}

\* _MODE_POLICIES; "*" stands for every verb.
ModePolicies(mode) ==
    CASE mode = "Full"        -> Verbs
      [] mode = "Provision"   -> Verbs \ {"Delete"}
      [] mode = "ObserveOnly" -> {"Observe"}
      [] mode = "Deprovision" -> {"Create", "Delete", "Observe"}

\* Mutant of StoragePolicies: the same policies in every mode.
FixedStorage(mode) == Verbs \ {"Delete"}

\* Backup storage is never deleted, and is not updated while it is decommissioned.
StoragePolicies(mode) ==
    CASE mode = "ObserveOnly" -> {"Observe"}
      [] mode = "Deprovision" -> {"Observe", "Create"}
      [] OTHER                -> Verbs \ {"Delete"}

\* The Knative operator is created and then left alone.
OperatorPolicies(mode) ==
    IF mode = "ObserveOnly" THEN {"Observe"} ELSE {"Create", "Observe"}

Storage  == {"backup-storage-account", "backup-container"}
UsageSet == {"usage-release-aks", "usage-aks-network", "usage-envoy-gateway-aks",
             "usage-envoy-proxy-config-aks", "usage-gateway-class-aks", "usage-k8gb-aks",
             "usage-k8gb-coredns-aks", "usage-k8gb-ip-release", "usage-k8gb-ip-role-release",
             "usage-argocd-aks", "usage-argocd-issuer-aks", "usage-argocd-cert-aks",
             "usage-argocd-gateway-aks", "usage-argocd-httproute-aks", "usage-argocd-app-aks"}

\* Mutant of Policies: every resource takes the policies of the mode.
UniformPolicies(n, mode) == IF n \in UsageSet THEN {} ELSE ModePolicies(mode)
\* The policies a resource is applied with: those it sets itself, else those of
\* the mode (the loop at the end of compose for everything with a forProvider,
\* the parameters of the Network and AKS XRs).  Usages have no external
\* resource and no policies.
Policies(n, mode) ==
    CASE n \in UsageSet -> {}
      [] n \in Storage -> StoragePolicies(mode)
      [] n = "knative-operator-release" -> OperatorPolicies(mode)
      [] n = "k8gb-coredns-observe" -> {"Observe"}
      [] OTHER -> ModePolicies(mode)

-----------------------------------------------------------------------------
(* What the function reads of the observed resources: o.present holds their
   names, o.up what their statuses report.  A Release is in o.up when its state
   is "deployed", uxp-license and knative-serving-cr when they are Ready; the
   other reports are the fields named below. *)

Fields == {"oidcUrl", "principalId", "publicIpId", "identityIds", "storageId"}

ReportedBy(r) ==
    CASE r \in {"oidcUrl", "principalId"} -> "aks"
      [] r = "publicIpId"  -> "k8gb-ip"
      [] r = "identityIds" -> "backup-identity"
      [] r = "storageId"   -> "backup-storage-account"
      [] OTHER             -> r

Reports(o, r) == ReportedBy(r) \in o.present /\ r \in o.up

\* Mutant of FeaturesLicensed: a license need not be accepted yet.
UncheckedLicense(p, o) == "license" \notin p.on \/ "uxp-license" \in o.present

FeaturesLicensed(p, o) == "license" \notin p.on \/ Reports(o, "uxp-license")
KnativeDepsReady(o) ==
    Reports(o, "certmanager-release") /\ Reports(o, "knative-operator-release")
KnativeReady(o) == KnativeDepsReady(o) /\ Reports(o, "knative-serving-cr")

\* build_manager_args: the feature flags of the UXP manager.
ManagerArgs(p, o) ==
    {f \in {"vpa", "knative"} :
        /\ f \in p.on /\ FeaturesLicensed(p, o)
        /\ IF f = "vpa" THEN Reports(o, "vpa-release") ELSE KnativeReady(o)}

\* The capabilities of the UpboundRuntimeConfig; the license plays no part.
Capabilities(p, o) ==
    {f \in {"vpa", "knative"} :
        /\ f \in p.on
        /\ IF f = "vpa" THEN Reports(o, "vpa-release") ELSE KnativeReady(o)}

-----------------------------------------------------------------------------
(* The resources each helper adds *)

If(cond, names) == IF cond THEN names ELSE {}

RoleEmitted(o) == Reports(o, "publicIpId") /\ Reports(o, "principalId")

\* What every ControlPlane is made of: the Network and AKS XRs, UXP, cert-manager.
AddNetwork     == {"network"}
AddAks         == {"aks"}
AddUxp         == {"uxp-release"}
AddCertmanager == {"certmanager-release"}
AddVpa         == {"vpa-release"}

\* Mutant of AddUsage: the Usage of the address shares the gate of the role's.
NestedUsage(p, o) ==
    {"usage-release-aks", "usage-aks-network"}
    \cup If("k8gb" \in p.on,
            {"usage-k8gb-aks"}
            \cup If(RoleEmitted(o), {"usage-k8gb-ip-release", "usage-k8gb-ip-role-release"}))

AddUsage(p, o) ==
    {"usage-release-aks", "usage-aks-network"}
    \cup If("k8gb" \in p.on \/ "argocd" \in p.on,
            {"usage-envoy-gateway-aks", "usage-envoy-proxy-config-aks",
             "usage-gateway-class-aks"})
    \cup If("k8gb" \in p.on,
            {"usage-k8gb-aks", "usage-k8gb-coredns-aks", "usage-k8gb-ip-release"}
            \cup If(RoleEmitted(o), {"usage-k8gb-ip-role-release"}))
    \cup If("argocd" \in p.on,
            {"usage-argocd-aks", "usage-argocd-issuer-aks", "usage-argocd-cert-aks",
             "usage-argocd-gateway-aks", "usage-argocd-httproute-aks",
             "usage-argocd-app-aks"})

\* Mutant of AddGateway: the release itself waits for the release.
LateGateway(o) ==
    If(Reports(o, "envoy-gateway-release"),
       {"envoy-gateway-release", "envoy-proxy-config", "gateway-class"})

\* The Gateway API objects wait for the CRDs of the Envoy Gateway release.
AddGateway(o) ==
    {"envoy-gateway-release"}
    \cup If(Reports(o, "envoy-gateway-release"), {"envoy-proxy-config", "gateway-class"})

\* The role assignment takes literal ids and waits until both are observed.
AddK8gb(o) ==
    {"k8gb-ip", "k8gb-release", "k8gb-coredns-observe"}
    \cup If(RoleEmitted(o), {"k8gb-ip-role"})

\* Mutant of AddArgocd: the Application does not wait for its CRD.
UngatedArgocd(o) ==
    {"argocd-release", "argocd-app"}
    \cup If(Reports(o, "envoy-gateway-release"), {"argocd-gateway", "argocd-httproute"})
    \cup If(Reports(o, "certmanager-release"), {"argocd-issuer", "argocd-cert"})

AddArgocd(o) ==
    {"argocd-release"}
    \cup If(Reports(o, "envoy-gateway-release"), {"argocd-gateway", "argocd-httproute"})
    \cup If(Reports(o, "certmanager-release"), {"argocd-issuer", "argocd-cert"})
    \cup If(Reports(o, "argocd-release"), {"argocd-app"})

\* Mutant of AddBackup: the account under another name.
MisnamedBackup(p) ==
    {"backup-account", "backup-container", "backup-config", "backup-rbac",
     "backup-rbac-binding"}
    \cup If("schedule" \in p.on, {"backup-schedule"})

AddBackup(p) ==
    Storage \cup {"backup-config", "backup-rbac", "backup-rbac-binding"}
    \cup If("schedule" \in p.on, {"backup-schedule"})

\* Mutant of AddWorkloadIdentity: everything waits for the ids of the identity.
LateIdentity(p, o) ==
    If(Reports(o, "identityIds") /\ Reports(o, "storageId"),
       {"backup-identity", "backup-federation", "backup-sa", "controller-restart", "backup-role"})
    \cup If("installFrom" \in p.on, {"backup-restore"})

\* Composed only while the OIDC issuer is known and UXP is deployed.  The client and
\* the principal id are one report, identityIds, and the location to restore from is
\* one the function can read: from another it composes no Restore and says nothing.
AddWorkloadIdentity(p, o) ==
    {"backup-identity", "backup-federation", "backup-sa", "controller-restart"}
    \cup If(Reports(o, "identityIds") /\ Reports(o, "storageId"), {"backup-role"})
    \cup If("installFrom" \in p.on, {"backup-restore"})

\* Mutant of AddLicense: a conflict strips the license.
StrictLicense(p, o, conflict) ==
    If("license" \in p.on /\ ~conflict, {"uxp-license-secret", "uxp-license"})

\* On conflict an installed license is kept, a new one is withheld.
AddLicense(p, o, conflict) ==
    If("license" \in p.on /\ (~conflict \/ "uxp-license-secret" \in o.present),
       {"uxp-license-secret", "uxp-license"})

\* The KnativeServing CR waits for the operator and for cert-manager.
AddKnative(o) ==
    {"knative-operator-release"}
    \cup If(KnativeDepsReady(o), {"knative-serving-ns", "knative-serving-cr"})

\* compose: the resources desired of a ControlPlane with parameters p.
Desired(p, o, conflict) ==
    AddNetwork \cup AddAks \cup AddUxp \cup AddCertmanager
    \cup AddUsage(p, o)
    \cup If("k8gb" \in p.on \/ "argocd" \in p.on, AddGateway(o))
    \cup If("k8gb" \in p.on, AddK8gb(o))
    \cup If("argocd" \in p.on, AddArgocd(o))
    \cup If("backup" \in p.on, AddBackup(p))
    \cup If("backup" \in p.on /\ Reports(o, "oidcUrl") /\ Reports(o, "uxp-release"),
            AddWorkloadIdentity(p, o))
    \cup AddLicense(p, o, conflict)
    \cup If("vpa" \in p.on /\ FeaturesLicensed(p, o), AddVpa)
    \cup If("knative" \in p.on /\ FeaturesLicensed(p, o), AddKnative(o))
    \cup If(Capabilities(p, o) # {}, {"upbound-runtime-config"})

\* The resource names of a ControlPlane, and what they can report.
Names ==
    {"network", "aks", "uxp-release", "certmanager-release", "envoy-gateway-release",
     "envoy-proxy-config", "gateway-class", "k8gb-ip", "k8gb-ip-role", "k8gb-release",
     "k8gb-coredns-observe", "argocd-release", "argocd-gateway", "argocd-httproute",
     "argocd-issuer", "argocd-cert", "argocd-app", "backup-config", "backup-rbac",
     "backup-rbac-binding", "backup-schedule", "backup-identity", "backup-federation",
     "backup-sa", "backup-role", "controller-restart", "backup-restore",
     "uxp-license-secret", "uxp-license", "vpa-release", "knative-operator-release",
     "knative-serving-ns", "knative-serving-cr", "upbound-runtime-config"}
    \cup Storage \cup UsageSet

Releases == {"uxp-release", "certmanager-release", "envoy-gateway-release", "k8gb-release",
             "argocd-release", "vpa-release", "knative-operator-release"}
Reportable == Releases \cup {"uxp-license", "knative-serving-cr"} \cup Fields
=============================================================================
