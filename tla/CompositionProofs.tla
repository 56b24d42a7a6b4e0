------------------------- MODULE CompositionProofs -------------------------
(***************************************************************************)
(* Lemmas about Composition: what the function may return, and how that    *)
(* depends on what it observes, for any parameters and observations.       *)
(***************************************************************************)
EXTENDS Composition, TLAPS

\* The function desires nothing but named resources.
LEMMA DesiredType ==
    ASSUME NEW p \in Params, NEW o, NEW conflict \in BOOLEAN
    PROVE  Desired(p, o, conflict) \subseteq Names
<1>1. AddUsage(p, o) \subseteq Names
  BY DEF AddUsage, If, Names, UsageSet
<1>2. AddGateway(o) \subseteq Names /\ AddK8gb(o) \subseteq Names
  BY DEF AddGateway, AddK8gb, If, Names
<1>3. AddArgocd(o) \subseteq Names
  BY DEF AddArgocd, If, Names
<1>4. AddBackup(p) \subseteq Names
  BY DEF AddBackup, If, Names
<1>5. AddWorkloadIdentity(p, o) \subseteq Names
  BY DEF AddWorkloadIdentity, If, Names
<1>6. AddLicense(p, o, conflict) \subseteq Names
  BY DEF AddLicense, If, Names
<1>7. AddKnative(o) \subseteq Names
  BY DEF AddKnative, If, Names
<1>8. /\ AddNetwork \cup AddAks \cup AddUxp \cup AddCertmanager \cup AddVpa \subseteq Names
      /\ "upbound-runtime-config" \in Names
  BY DEF AddNetwork, AddAks, AddUxp, AddCertmanager, AddVpa, Names
<1> QED BY <1>1, <1>2, <1>3, <1>4, <1>5, <1>6, <1>7, <1>8 DEF Desired, If

\* Which helper a desired resource comes from.
Composed(n, p, o) ==
    \/ n \in AddNetwork \cup AddAks \cup AddUxp \cup AddCertmanager \cup AddUsage(p, o)
    \/ ("k8gb" \in p.on \/ "argocd" \in p.on) /\ n \in AddGateway(o)
    \/ "k8gb" \in p.on /\ n \in AddK8gb(o)
    \/ "argocd" \in p.on /\ n \in AddArgocd(o)
    \/ "backup" \in p.on /\ n \in AddBackup(p)
    \/ /\ "backup" \in p.on /\ Reports(o, "oidcUrl") /\ Reports(o, "uxp-release")
       /\ n \in AddWorkloadIdentity(p, o)
    \/ "vpa" \in p.on /\ FeaturesLicensed(p, o) /\ n \in AddVpa
    \/ "knative" \in p.on /\ FeaturesLicensed(p, o) /\ n \in AddKnative(o)
    \/ Capabilities(p, o) # {} /\ n = "upbound-runtime-config"

LEMMA DesiredComposed ==
    ASSUME NEW p, NEW o, NEW conflict \in BOOLEAN, NEW n
    PROVE  n \in Desired(p, o, conflict) <=> Composed(n, p, o) \/ n \in AddLicense(p, o, conflict)
BY DEF Desired, Composed, If

\* More resources and more reports only open gates, and for a ControlPlane that
\* has its license Secret the verdict makes no difference.
LEMMA DesiredMonotone ==
    ASSUME NEW p \in Params, NEW o, NEW q, NEW conflict \in BOOLEAN,
           o.present \subseteq q.present, o.up \subseteq q.up
    PROVE  /\ Desired(p, o, conflict) \subseteq Desired(p, q, FALSE)
           /\ "uxp-license-secret" \in q.present
                => Desired(p, o, conflict) \subseteq Desired(p, q, TRUE)
<1>1. \A r : Reports(o, r) => Reports(q, r)
  BY DEF Reports
<1>2. /\ RoleEmitted(o) => RoleEmitted(q)
      /\ KnativeDepsReady(o) => KnativeDepsReady(q)
      /\ FeaturesLicensed(p, o) => FeaturesLicensed(p, q)
      /\ Capabilities(p, o) \subseteq Capabilities(p, q)
  BY <1>1 DEF RoleEmitted, KnativeDepsReady, KnativeReady, FeaturesLicensed, Capabilities
<1>3. AddUsage(p, o) \subseteq AddUsage(p, q)
  BY <1>2 DEF AddUsage, If
<1>4. AddGateway(o) \subseteq AddGateway(q) /\ AddK8gb(o) \subseteq AddK8gb(q)
  BY <1>1, <1>2 DEF AddGateway, AddK8gb, If
<1>5. AddArgocd(o) \subseteq AddArgocd(q)
  BY <1>1 DEF AddArgocd, If
<1>6. AddWorkloadIdentity(p, o) \subseteq AddWorkloadIdentity(p, q)
  BY <1>1 DEF AddWorkloadIdentity, If
<1>7. AddKnative(o) \subseteq AddKnative(q)
  BY <1>2 DEF AddKnative, If
<1>8. /\ AddLicense(p, o, conflict) \subseteq AddLicense(p, q, FALSE)
      /\ "uxp-license-secret" \in q.present
           => AddLicense(p, o, conflict) \subseteq AddLicense(p, q, TRUE)
  BY DEF AddLicense, If
<1>9. \A n : Composed(n, p, o) => Composed(n, p, q)
  BY <1>1, <1>2, <1>3, <1>4, <1>5, <1>6, <1>7 DEF Composed
<1> QED BY <1>8, <1>9, DesiredComposed

\* A license and its Secret are desired together or not at all.
LEMMA LicenseTogether ==
    ASSUME NEW p \in Params, NEW o, NEW conflict \in BOOLEAN
    PROVE  /\ Desired(p, o, FALSE) \subseteq
                Desired(p, o, conflict) \cup {"uxp-license-secret", "uxp-license"}
           /\ "uxp-license" \in Desired(p, o, conflict)
                => "uxp-license-secret" \in Desired(p, o, conflict)
<1>1. AddLicense(p, o, FALSE) \subseteq {"uxp-license-secret", "uxp-license"}
  BY DEF AddLicense, If
<1>2. "uxp-license" \in AddLicense(p, o, conflict)
        => "uxp-license-secret" \in AddLicense(p, o, conflict)
  BY DEF AddLicense, If
<1>3. "uxp-license" \notin AddUsage(p, o) \cup AddGateway(o) \cup AddK8gb(o) \cup AddArgocd(o)
  BY DEF AddUsage, AddGateway, AddK8gb, AddArgocd, If
<1>4. "uxp-license" \notin AddBackup(p) \cup AddWorkloadIdentity(p, o) \cup AddKnative(o)
  BY DEF AddBackup, Storage, AddWorkloadIdentity, AddKnative, If
<1>5. "uxp-license" \notin AddNetwork \cup AddAks \cup AddUxp \cup AddCertmanager \cup AddVpa
  BY DEF AddNetwork, AddAks, AddUxp, AddCertmanager, AddVpa
<1>6. ~Composed("uxp-license", p, o)
  BY <1>3, <1>4, <1>5 DEF Composed
<1> QED BY <1>1, <1>2, <1>6, DesiredComposed

\* A resource that only one add-on composes is desired only with that add-on.
LEMMA DesiredWithFeature ==
    ASSUME NEW p, NEW o, NEW conflict \in BOOLEAN, NEW n \in Desired(p, o, conflict)
    PROVE  /\ n \in {"k8gb-ip", "k8gb-ip-role", "k8gb-release", "k8gb-coredns-observe"}
                => "k8gb" \in p.on /\ n \in AddK8gb(o)
           /\ n \in {"argocd-release", "argocd-issuer", "argocd-cert", "argocd-gateway",
                      "argocd-httproute", "argocd-app"}
                => "argocd" \in p.on
           /\ n \in {"envoy-gateway-release", "envoy-proxy-config", "gateway-class"}
                => "k8gb" \in p.on \/ "argocd" \in p.on
<1> DEFINE K == {"k8gb-ip", "k8gb-ip-role", "k8gb-release", "k8gb-coredns-observe"}
           A == {"argocd-release", "argocd-issuer", "argocd-cert", "argocd-gateway",
                 "argocd-httproute", "argocd-app"}
           E == {"envoy-gateway-release", "envoy-proxy-config", "gateway-class"}
<1>1. n \in AddUsage(p, o) => n \notin K \cup A \cup E
  BY DEF AddUsage, If
<1>2. n \in AddGateway(o) => n \in E /\ n \notin K \cup A
  BY DEF AddGateway, If
<1>3. n \in AddK8gb(o) => n \in K /\ n \notin A \cup E
  BY DEF AddK8gb, If
<1>4. n \in AddArgocd(o) => n \in A /\ n \notin K \cup E
  BY DEF AddArgocd, If
<1>5. n \in AddBackup(p) => n \notin K \cup A \cup E
  BY DEF AddBackup, Storage, If
<1>6. n \in AddWorkloadIdentity(p, o) => n \notin K \cup A \cup E
  BY DEF AddWorkloadIdentity, If
<1>7. n \in AddLicense(p, o, conflict) => n \notin K \cup A \cup E
  BY DEF AddLicense, If
<1>8. n \in AddKnative(o) => n \notin K \cup A \cup E
  BY DEF AddKnative, If
<1>9. n \in AddNetwork \cup AddAks \cup AddUxp \cup AddCertmanager \cup AddVpa
          \cup {"upbound-runtime-config"} => n \notin K \cup A \cup E
  BY DEF AddNetwork, AddAks, AddUxp, AddCertmanager, AddVpa
<1>10. Composed(n, p, o) \/ n \in AddLicense(p, o, conflict)
  BY DesiredComposed
<1> HIDE DEF K, A, E
<1>11. /\ n \in K => "k8gb" \in p.on /\ n \in AddK8gb(o)
       /\ n \in A => "argocd" \in p.on
       /\ n \in E => "k8gb" \in p.on \/ "argocd" \in p.on
  BY <1>1, <1>2, <1>3, <1>4, <1>5, <1>6, <1>7, <1>8, <1>9, <1>10 DEF Composed
<1> QED BY <1>11 DEF K, A, E

\* Usages come from add_usage_resources alone.
LEMMA DesiredUsage ==
    ASSUME NEW p, NEW o, NEW conflict \in BOOLEAN, NEW u \in UsageSet
    PROVE  u \in Desired(p, o, conflict) <=> u \in AddUsage(p, o)
<1>1. u \notin AddGateway(o) \cup AddK8gb(o) \cup AddArgocd(o)
  BY DEF AddGateway, AddK8gb, AddArgocd, If, UsageSet
<1>2. u \notin AddBackup(p) \cup AddWorkloadIdentity(p, o) \cup AddLicense(p, o, conflict)
  BY DEF AddBackup, Storage, AddWorkloadIdentity, AddLicense, If, UsageSet
<1>3. u \notin AddNetwork \cup AddAks \cup AddUxp \cup AddCertmanager \cup AddVpa \cup AddKnative(o)
  BY DEF AddNetwork, AddAks, AddUxp, AddCertmanager, AddVpa, AddKnative, If, UsageSet
<1>4. u # "upbound-runtime-config"
  BY DEF UsageSet
<1> QED BY <1>1, <1>2, <1>3, <1>4, DesiredComposed DEF Composed
=============================================================================
