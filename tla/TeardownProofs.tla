--------------------------- MODULE TeardownProofs ---------------------------
(***************************************************************************)
(* Theorems about Teardown, for every part of the composition, every set   *)
(* of features the user turns on and off, and every number of changes.     *)
(***************************************************************************)
EXTENDS Teardown, CompositionProofs

LEMMA TypedWanted == Wanted \in SUBSET Scope
BY DEF Wanted

\* A Usage protects and waits for one of the parts looked at, and is neither.
LEMMA UsageEnds ==
    ASSUME NEW u \in Usages
    PROVE  /\ UsageOf(u) \in Scope \ Usages /\ UsageBy(u) \in Scope \ Usages
           /\ UsageOf(u) \in {"aks", "network", "k8gb-ip", "k8gb-ip-role"}
<1>1. UsageOf(u) \in Scope /\ UsageBy(u) \in Scope
  BY TeardownAssumption DEF TeardownAssumption, Usages
<1>2. UsageOf(u) \in {"aks", "network", "k8gb-ip", "k8gb-ip-role"}
  BY DEF Usages, UsageSet, UsageOf
<1>3. UsageOf(u) \notin UsageSet /\ UsageBy(u) \notin UsageSet
  BY DEF Usages, UsageSet, UsageOf, UsageBy
<1> QED BY <1>1, <1>2, <1>3 DEF Usages

LEMMA Reporters ==
    \A r \in Reportable : ReportedBy(r) \notin UsageSet
BY DEF Reportable, Releases, Fields, ReportedBy, UsageSet

\* Every variable keeps its type.
THEOREM TypeCorrect == Spec => []TypeOK
<1>1. Init => TypeOK
  <2> SUFFICES ASSUME Init PROVE TypeOK
    OBVIOUS
  <2>1. res \in [Scope -> {"absent", "present", "deleting"}]
    BY DEF Init
  <2>2. hasty \in BOOLEAN
    BY Zenon DEF Init
  <2>3. changes \in 0 .. MaxChanges
    BY TeardownAssumption DEF Init, TeardownAssumption
  <2>4. on \in SUBSET Features
    BY TeardownAssumption DEF Init, TeardownAssumption
  <2> QED BY <2>1, <2>2, <2>3, <2>4 DEF Init, TypeOK
<1>2. TypeOK /\ [Next]_vars => TypeOK'
  <2> SUFFICES ASSUME TypeOK, [Next]_vars PROVE TypeOK'
    OBVIOUS
  <2> USE TeardownAssumption DEF TypeOK, TeardownAssumption, passVars, EndPass
  <2>1. CASE Start
    BY <2>1, TypedWanted DEF Start
  <2>2. CASE Apply
    BY <2>2 DEF Apply
  <2>3. CASE Crash
    BY <2>3 DEF Crash
  <2>4. CASE DeleteXR
    <3>1. hasty' \in BOOLEAN
      BY <2>4 DEF DeleteXR
    <3> QED BY <2>4, <3>1 DEF DeleteXR
  <2>5. ASSUME NEW D \in SUBSET (Undesired \ Stuck), CollectSome(D) PROVE TypeOK'
    <3>1. denied' \in SUBSET Scope
      BY <2>5 DEF CollectSome, Stuck, Undesired
    <3> QED BY <2>5, <3>1 DEF CollectSome
  <2>6. ASSUME NEW n \in Scope, Sweep(n) \/ Finish(n) PROVE TypeOK'
    BY <2>6 DEF Sweep, Finish, CloudAfter
  <2>7. ASSUME NEW u \in Usages, Activate(u) \/ Release(u) PROVE TypeOK'
    BY <2>7 DEF Activate, Release, Usages
  <2>8. ASSUME NEW r \in Arriving, BringUp(r) \/ Lose(r) PROVE TypeOK'
    <3>1. hasty' \in BOOLEAN
      BY <2>8 DEF BringUp, Lose
    <3> QED BY <2>8, <3>1 DEF BringUp, Lose
  <2>9. ASSUME NEW f \in Offered, Toggle(f) PROVE TypeOK'
    <3>1. hasty' \in BOOLEAN
      BY <2>9 DEF Toggle
    <3> QED BY <2>9, <3>1 DEF Toggle
  <2>10. CASE UNCHANGED vars
    BY <2>10 DEF vars
  <2> QED BY <2>1, <2>2, <2>3, <2>4, <2>5, <2>6, <2>7, <2>8, <2>9, <2>10 DEF Next
<1> QED BY <1>1, <1>2, PTL DEF Spec

-----------------------------------------------------------------------------
(* The function returns a Usage with what it is about *)

LEMMA WhenDesired ==
    ASSUME NEW q, NEW o
    PROVE  /\ {"network", "aks"} \subseteq Desired(q, o, FALSE)
           /\ \A n \in {"k8gb-ip", "k8gb-release"} :
                n \in Desired(q, o, FALSE) <=> "k8gb" \in q.on
           /\ "k8gb-ip-role" \in Desired(q, o, FALSE) <=> "k8gb" \in q.on /\ RoleEmitted(o)
<1>1. {"network", "aks"} \subseteq Desired(q, o, FALSE)
  BY DesiredComposed DEF Composed, AddNetwork, AddAks
<1>2. ASSUME NEW n \in {"k8gb-ip", "k8gb-release", "k8gb-ip-role"}
      PROVE  n \in Desired(q, o, FALSE) <=> "k8gb" \in q.on /\ n \in AddK8gb(o)
  <2>1. "k8gb" \in q.on /\ n \in AddK8gb(o) => n \in Desired(q, o, FALSE)
    BY DesiredComposed DEF Composed
  <2>2. n \in Desired(q, o, FALSE) => "k8gb" \in q.on /\ n \in AddK8gb(o)
    BY DesiredWithFeature
  <2> QED BY <2>1, <2>2
<1>3. /\ "k8gb-ip" \in AddK8gb(o) /\ "k8gb-release" \in AddK8gb(o)
      /\ "k8gb-ip-role" \in AddK8gb(o) <=> RoleEmitted(o)
  BY DEF AddK8gb, If
<1> QED BY <1>1, <1>2, <1>3

\* The role assignment of k8gb can be returned.
RoleDue == {"k8gb-ip", "aks"} \subseteq Present /\ {"publicIpId", "principalId"} \subseteq up

\* When the function asks for the resources that Usages protect.
Known ==
    /\ Wanted \subseteq Scope
    /\ Scope \cap {"network", "aks"} \subseteq Wanted
    /\ \A n \in Scope \cap {"k8gb-ip", "k8gb-release"} : n \in Wanted <=> "k8gb" \in on
    /\ RoleEmitted([present |-> Present, up |-> up]) <=> RoleDue
    /\ "k8gb-ip-role" \in Scope => ("k8gb-ip-role" \in Wanted <=> "k8gb" \in on /\ RoleDue)

LEMMA WhenWanted == Known /\ Known'
<1>1. ASSUME NEW there, NEW reported, NEW asked
      PROVE  LET q == [mode |-> Mode, on |-> asked]
                 o == [present |-> there, up |-> reported]
             IN  /\ {"network", "aks"} \subseteq Desired(q, o, FALSE)
                 /\ \A n \in {"k8gb-ip", "k8gb-release"} :
                      n \in Desired(q, o, FALSE) <=> "k8gb" \in asked
                 /\ RoleEmitted(o) <=> /\ {"k8gb-ip", "aks"} \subseteq there
                                       /\ {"publicIpId", "principalId"} \subseteq reported
                 /\ "k8gb-ip-role" \in Desired(q, o, FALSE) <=> "k8gb" \in asked /\ RoleEmitted(o)
  <2> DEFINE q == [mode |-> Mode, on |-> asked]
             o == [present |-> there, up |-> reported]
  <2>1. q.on = asked
    OBVIOUS
  <2>2. RoleEmitted(o) <=> /\ {"k8gb-ip", "aks"} \subseteq there
                           /\ {"publicIpId", "principalId"} \subseteq reported
    BY DEF RoleEmitted, Reports, ReportedBy
  <2> HIDE DEF q, o
  <2>3. /\ {"network", "aks"} \subseteq Desired(q, o, FALSE)
        /\ \A n \in {"k8gb-ip", "k8gb-release"} :
             n \in Desired(q, o, FALSE) <=> "k8gb" \in asked
        /\ "k8gb-ip-role" \in Desired(q, o, FALSE) <=> "k8gb" \in asked /\ RoleEmitted(o)
    BY <2>1, WhenDesired
  <2> QED BY <2>2, <2>3 DEF q, o
<1>2. Known
  <2> DEFINE o == [present |-> Present, up |-> up]
             D == Desired([mode |-> Mode, on |-> on], o, FALSE)
  <2>1. /\ {"network", "aks"} \subseteq D
        /\ \A n \in {"k8gb-ip", "k8gb-release"} : n \in D <=> "k8gb" \in on
        /\ RoleEmitted(o) <=> /\ {"k8gb-ip", "aks"} \subseteq Present
                              /\ {"publicIpId", "principalId"} \subseteq up
        /\ "k8gb-ip-role" \in D <=> "k8gb" \in on /\ RoleEmitted(o)
    BY <1>1
  <2>2. Wanted = D \cap Scope
    BY DEF Wanted
  <2> HIDE DEF D
  <2> QED BY <2>1, <2>2 DEF Known, RoleDue
<1>3. Known'
  <2> DEFINE o == [present |-> Present', up |-> up']
             D == Desired([mode |-> Mode, on |-> on'], o, FALSE)
  <2>1. /\ {"network", "aks"} \subseteq D
        /\ \A n \in {"k8gb-ip", "k8gb-release"} : n \in D <=> "k8gb" \in on'
        /\ RoleEmitted(o) <=> /\ {"k8gb-ip", "aks"} \subseteq Present'
                              /\ {"publicIpId", "principalId"} \subseteq up'
        /\ "k8gb-ip-role" \in D <=> "k8gb" \in on' /\ RoleEmitted(o)
    BY <1>1
  <2>2. Wanted' = D \cap Scope
    BY DEF Wanted
  <2> HIDE DEF D
  <2> QED BY <2>1, <2>2 DEF Known, RoleDue
<1> QED BY <1>2, <1>3

Guards(u, p) == UsageOf(u) = p[1] /\ UsageBy(u) = p[2]

LEMMA GuardedTogether ==
    ASSUME NEW p \in MustOutlive, NEW q, NEW o,
           p[1] \in Desired(q, o, FALSE), p[2] \in Desired(q, o, FALSE)
    PROVE  \E u \in UsageSet : Guards(u, p) /\ u \in Desired(q, o, FALSE)
<1>1. ASSUME NEW u \in AddUsage(q, o) PROVE u \in Desired(q, o, FALSE)
  BY <1>1, DesiredComposed DEF Composed
<1>2. CASE p = <<"network", "aks">>
  <2>1. "usage-aks-network" \in AddUsage(q, o) /\ Guards("usage-aks-network", p)
    BY <1>2 DEF AddUsage, Guards, UsageOf, UsageBy
  <2> QED BY <1>1, <2>1 DEF UsageSet
<1>3. CASE p = <<"k8gb-ip", "k8gb-release">>
  <2>1. "k8gb" \in q.on
    BY <1>3, DesiredWithFeature
  <2>2. "usage-k8gb-ip-release" \in AddUsage(q, o) /\ Guards("usage-k8gb-ip-release", p)
    BY <1>3, <2>1 DEF AddUsage, If, Guards, UsageOf, UsageBy
  <2> QED BY <1>1, <2>2 DEF UsageSet
<1>4. CASE p = <<"k8gb-ip-role", "k8gb-release">>
  <2>1. "k8gb" \in q.on /\ "k8gb-ip-role" \in AddK8gb(o)
    BY <1>4, DesiredWithFeature
  <2>2. RoleEmitted(o)
    BY <2>1 DEF AddK8gb, If
  <2>3. /\ "usage-k8gb-ip-role-release" \in AddUsage(q, o)
        /\ Guards("usage-k8gb-ip-role-release", p)
    BY <1>4, <2>1, <2>2 DEF AddUsage, If, Guards, UsageOf, UsageBy
  <2> QED BY <1>1, <2>3 DEF UsageSet
<1>5. CASE p = <<"aks", "uxp-release">>
  <2>1. "usage-release-aks" \in AddUsage(q, o) /\ Guards("usage-release-aks", p)
    BY <1>5 DEF AddUsage, Guards, UsageOf, UsageBy
  <2> QED BY <1>1, <2>1 DEF UsageSet
<1>6. ASSUME p[1] = "aks",
             p[2] \in {"envoy-gateway-release", "envoy-proxy-config", "gateway-class"}
      PROVE  \E u \in AddUsage(q, o) : u \in UsageSet /\ Guards(u, p)
  <2>1. "k8gb" \in q.on \/ "argocd" \in q.on
    BY <1>6, DesiredWithFeature
  <2>2. {"usage-envoy-gateway-aks", "usage-envoy-proxy-config-aks", "usage-gateway-class-aks"}
          \subseteq AddUsage(q, o)
    BY <2>1 DEF AddUsage, If
  <2>3. CASE p[2] = "envoy-gateway-release"
    BY <1>6, <2>2, <2>3 DEF Guards, UsageOf, UsageBy, UsageSet
  <2>4. CASE p[2] = "envoy-proxy-config"
    BY <1>6, <2>2, <2>4 DEF Guards, UsageOf, UsageBy, UsageSet
  <2>5. CASE p[2] = "gateway-class"
    BY <1>6, <2>2, <2>5 DEF Guards, UsageOf, UsageBy, UsageSet
  <2> QED BY <1>6, <2>3, <2>4, <2>5
<1>7. ASSUME p[1] = "aks", p[2] \in {"k8gb-release", "k8gb-coredns-observe"}
      PROVE  \E u \in AddUsage(q, o) : u \in UsageSet /\ Guards(u, p)
  <2>1. "k8gb" \in q.on
    BY <1>7, DesiredWithFeature
  <2>2. {"usage-k8gb-aks", "usage-k8gb-coredns-aks"} \subseteq AddUsage(q, o)
    BY <2>1 DEF AddUsage, If
  <2> QED BY <1>7, <2>2 DEF Guards, UsageOf, UsageBy, UsageSet
<1>8. ASSUME p[1] = "aks",
             p[2] \in {"argocd-release", "argocd-issuer", "argocd-cert", "argocd-gateway",
                       "argocd-httproute", "argocd-app"}
      PROVE  \E u \in AddUsage(q, o) : u \in UsageSet /\ Guards(u, p)
  <2>1. "argocd" \in q.on
    BY <1>8, DesiredWithFeature
  <2>2. {"usage-argocd-aks", "usage-argocd-issuer-aks", "usage-argocd-cert-aks",
         "usage-argocd-gateway-aks", "usage-argocd-httproute-aks", "usage-argocd-app-aks"}
          \subseteq AddUsage(q, o)
    BY <2>1 DEF AddUsage, If
  <2>3. CASE p[2] \in {"argocd-release", "argocd-issuer", "argocd-cert"}
    BY <1>8, <2>2, <2>3 DEF Guards, UsageOf, UsageBy, UsageSet
  <2>4. CASE p[2] \in {"argocd-gateway", "argocd-httproute", "argocd-app"}
    BY <1>8, <2>2, <2>4 DEF Guards, UsageOf, UsageBy, UsageSet
  <2> QED BY <1>8, <2>3, <2>4
<1>9. \/ p[1] = "aks" /\ p[2] \in InCluster /\ p = <<p[1], p[2]>>
      \/ p \in {<<"network", "aks">>, <<"k8gb-ip", "k8gb-release">>,
                <<"k8gb-ip-role", "k8gb-release">>}
  BY DEF MustOutlive
<1> QED BY <1>1, <1>2, <1>3, <1>4, <1>5, <1>6, <1>7, <1>8, <1>9 DEF InCluster

LEMMA SettledCovers ==
    ASSUME Settled, NEW p \in MustOutlive, p[1] \in Scope, p[2] \in Scope, res[p[1]] = "present"
    PROVE  Covered(p)
<1> DEFINE q == [mode |-> Mode, on |-> on]
           o == [present |-> Present, up |-> up]
<1> SUFFICES ASSUME Exists(p[2]) PROVE \E u \in active : Guards(u, p)
  BY DEF Covered, Guards
<1>1. Present = Wanted /\ Wanted = Desired(q, o, FALSE) \cap Scope
  BY DEF Settled, Wanted
<1>2. p[1] \in Present /\ p[2] \in Present
  BY DEF Present, Exists
<1> HIDE DEF q, o
<1>3. PICK u \in UsageSet : Guards(u, p) /\ u \in Desired(q, o, FALSE)
  BY <1>1, <1>2, GuardedTogether
<1>4. u \in Scope
  BY <1>3, TeardownAssumption DEF TeardownAssumption, Guards
<1>5. u \in Present \cap Usages
  BY <1>1, <1>3, <1>4 DEF Usages
<1> QED BY <1>3, <1>5 DEF Settled

-----------------------------------------------------------------------------
(* The inductive invariant *)

LEMMA Protected ==
    \A p \in MustOutlive :
        /\ p[1] \notin UsageSet /\ p[2] \notin UsageSet
        /\ \/ p[1] \in {"network", "aks"}
           \/ p[1] \in {"k8gb-ip", "k8gb-ip-role"} /\ p[2] = "k8gb-release"
BY DEF MustOutlive, InCluster, UsageSet

\* While the XR lives nothing threatens the cluster and its network, and what
\* threatens the address and the role of k8gb is that they are not asked for, or
\* a deletion that was denied before.
Threats ==
    /\ \A n \in Scope \cap {"network", "aks"} : ~Endangered(n)
    /\ "k8gb-ip" \in Scope =>
         (Endangered("k8gb-ip") => "k8gb-ip" \in denied \/ "k8gb" \notin on)
    /\ "k8gb-ip-role" \in Scope =>
         (Endangered("k8gb-ip-role") =>
            \/ "k8gb-ip-role" \in denied \/ "k8gb" \notin on \/ ~RoleDue
            \/ phase = "planned" /\ "k8gb-ip-role" \notin plan)

LEMMA ThreatsNow ==
    ASSUME xr = "live", BaseStays, K8gbAsAsked
    PROVE  Threats
BY WhenWanted DEF Threats, Endangered, BaseStays, K8gbAsAsked, Known

LEMMA ThreatsNext ==
    ASSUME xr' = "live", BaseStays', K8gbAsAsked'
    PROVE  Threats'
BY WhenWanted DEF Threats, Endangered, BaseStays, K8gbAsAsked, Known

\* A change that finds everything settled leaves everything covered.
LEMMA ChangePreserves ==
    ASSUME TypeOK, TypeOK', UsagesInTime,
           (\E f \in Offered : Toggle(f)) \/ (\E r \in Arriving : Lose(r)) \/ DeleteXR
    PROVE  UsagesInTime'
<1>1. /\ res' = res /\ active' = active /\ phase' = phase /\ plan' = plan
      /\ denied' \in {denied, {}} /\ (xr' = "live" => xr = "live" /\ denied' = denied)
      /\ ~hasty' => ~hasty /\ Settled
  BY DEF Toggle, Lose, DeleteXR, passVars
<1>2. BaseStays'
  BY <1>1 DEF UsagesInTime, BaseStays, Present, Exists
<1>3. ASSUME ~hasty' PROVE AllCovered'
  <2> SUFFICES ASSUME NEW p \in MustOutlive, p[1] \in Scope, p[2] \in Scope,
                      res'[p[1]] = "present"
               PROVE  Covered(p)'
    BY DEF AllCovered
  <2>1. Covered(p)
    BY <1>1, <1>3, SettledCovers
  <2> QED BY <1>1, <2>1 DEF Covered, Exists
<1>4. ASSUME ~hasty' PROVE K8gbAsAsked'
  <2>1. phase' = "idle" /\ Present = Wanted /\ \A n \in Scope \ Usages : res[n] # "deleting"
    BY <1>1, <1>4 DEF Settled
  <2>2. \A n \in Scope \cap {"k8gb-ip", "k8gb-release"} : res[n] # "deleting"
    BY <2>1, <1>4, <1>1 DEF Settled, Usages, UsageSet
  <2>3. (Exists("k8gb-ip") \/ Exists("k8gb-ip-role")) /\ "k8gb-release" \in Scope
          => Exists("k8gb-release")
    BY <2>1, <1>4, <1>1, WhenWanted DEF Known, Settled, Present, Exists
  <2> QED BY <1>1, <2>1, <2>2, <2>3 DEF K8gbAsAsked, Exists
<1>5. ASSUME ~hasty', xr' = "gone" PROVE phase' = "idle"
  BY <1>1, <1>5 DEF Settled
<1> QED BY <1>2, <1>3, <1>4, <1>5 DEF UsagesInTime

\* What a step does not make worse stays as good as it was.
LEMMA NothingWorse ==
    ASSUME AllCovered,
           \A p \in MustOutlive :
               p[1] \in Scope /\ p[2] \in Scope /\ res'[p[1]] = "present" =>
                  \/ ~Endangered(p[1])'
                  \/ /\ res[p[1]] = "present"
                     /\ Covered(p) => Covered(p)'
                     /\ Endangered(p[1])' => Endangered(p[1])
    PROVE  AllCovered'
BY DEF AllCovered

\* The reconcile: what the function returned is what is asked for.
LEMMA StartPreserves ==
    ASSUME TypeOK, TypeOK', UsagesInTime, Start
    PROVE  UsagesInTime'
<1>1. /\ xr = "live" /\ xr' = xr /\ res' = res /\ active' = active /\ denied' = denied
      /\ on' = on /\ up' = up /\ hasty' = hasty /\ phase' = "planned" /\ plan' = Wanted
  BY DEF Start
<1>2. Present' = Present /\ Wanted' = Wanted
  BY <1>1 DEF Present, Exists, Wanted
<1>3. BaseStays'
  BY <1>1, <1>2, WhenWanted DEF UsagesInTime, BaseStays, Known
<1>4. ASSUME ~hasty PROVE K8gbAsAsked'
  BY <1>1, <1>2, <1>4, WhenWanted DEF UsagesInTime, K8gbAsAsked, Known, Exists
<1>5. ASSUME ~hasty PROVE AllCovered'
  <2>1. \A n : Endangered(n)' => Endangered(n)
    BY <1>1, <1>2 DEF Endangered
  <2>2. \A p : Covered(p) => Covered(p)'
    BY <1>1 DEF Covered, Exists
  <2> QED BY <1>1, <1>5, <2>1, <2>2, NothingWorse DEF UsagesInTime
<1> QED BY <1>1, <1>3, <1>4, <1>5 DEF UsagesInTime

LEMMA CrashPreserves ==
    ASSUME TypeOK, TypeOK', UsagesInTime, Crash
    PROVE  UsagesInTime'
<1>1. /\ xr' = xr /\ res' = res /\ active' = active /\ denied' = denied
      /\ on' = on /\ up' = up /\ hasty' = hasty /\ phase' = "idle"
  BY DEF Crash, EndPass
<1>2. Present' = Present /\ Wanted' = Wanted
  BY <1>1 DEF Present, Exists, Wanted
<1>3. BaseStays'
  BY <1>1, <1>2 DEF UsagesInTime, BaseStays
<1>4. ASSUME ~hasty PROVE K8gbAsAsked'
  BY <1>1, <1>4 DEF UsagesInTime, K8gbAsAsked, Exists
<1>5. ASSUME ~hasty PROVE AllCovered'
  <2>1. \A n : Endangered(n)' => Endangered(n)
    BY <1>1, <1>2 DEF Endangered
  <2>2. \A p : Covered(p) => Covered(p)'
    BY <1>1 DEF Covered, Exists
  <2> QED BY <1>1, <1>5, <2>1, <2>2, NothingWorse DEF UsagesInTime
<1> QED BY <1>1, <1>3, <1>4, <1>5 DEF UsagesInTime

\* A denied delete, after the deletes that came first.
LEMMA CollectPreserves ==
    ASSUME TypeOK, TypeOK', UsagesInTime,
           NEW D \in SUBSET (Undesired \ Stuck), CollectSome(D)
    PROVE  UsagesInTime'
<1>1. /\ phase = "planned" /\ phase' = "idle" /\ xr' = xr /\ on' = on /\ up' = up
      /\ active' = active /\ hasty' = hasty
      /\ res' = [n \in Scope |-> IF n \in D THEN "deleting" ELSE res[n]]
  BY DEF CollectSome, EndPass
<1>2. PICK s \in Stuck : denied' = IF xr = "live" THEN denied \cup {s} ELSE denied
  BY DEF CollectSome
<1>3. s \in Scope /\ s \notin plan /\ res[s] = "present" /\ s \notin Usages
  BY UsageEnds DEF Stuck, Undesired, Held, TypeOK
<1>4. \A n \in D : n \in Scope /\ n \notin plan /\ res[n] = "present"
  BY DEF Undesired
<1>5. \A n : Exists(n)' <=> Exists(n)
  BY <1>1, <1>4 DEF Exists
<1>6. Present' = Present /\ Wanted' = Wanted
  BY <1>1, <1>5 DEF Present, Wanted
<1>7. BaseStays'
  BY <1>1, <1>2, <1>3, <1>4, <1>6 DEF UsagesInTime, BaseStays, Present, Exists
<1>8. ASSUME ~hasty PROVE K8gbAsAsked'
  BY <1>1, <1>4, <1>5, <1>8 DEF UsagesInTime, K8gbAsAsked
<1>9. ASSUME ~hasty PROVE AllCovered'
  <2>1. \A n : Endangered(n)' => Endangered(n)
    BY <1>1, <1>2, <1>3, <1>6 DEF Endangered
  <2>2. \A p : Covered(p) => Covered(p)'
    BY <1>1, <1>5 DEF Covered
  <2>3. \A p \in MustOutlive : p[1] \in Scope /\ res'[p[1]] = "present" => res[p[1]] = "present"
    BY <1>1
  <2> QED BY <1>9, <2>1, <2>2, <2>3, NothingWorse DEF UsagesInTime
<1> QED BY <1>1, <1>7, <1>8, <1>9 DEF UsagesInTime

\* A reconcile that is not denied anything: what it creates, it creates together
\* with k8gb, and k8gb was there before the role.
LEMMA ApplyPreserves ==
    ASSUME TypeOK, TypeOK', UsagesInTime, Apply
    PROVE  UsagesInTime'
<1>1. /\ phase = "planned" /\ phase' = "idle" /\ xr' = xr /\ on' = on /\ up' = up
      /\ active' = active /\ hasty' = hasty /\ denied' = denied
      /\ res' = [n \in Scope |-> IF n \in Undesired THEN "deleting"
                                 ELSE IF n \in plan /\ ~Exists(n) THEN "present"
                                 ELSE res[n]]
  BY DEF Apply, EndPass
<1>2. \A n \in Scope :
         /\ n \in Undesired <=> res[n] = "present" /\ n \notin plan
         /\ Exists(n) <=> res[n] # "absent"
         /\ Exists(n)' <=> res'[n] # "absent"
  BY DEF Undesired, Exists
<1>3. \A n \in Scope : /\ n \in plan => Exists(n)'
                       /\ Exists(n) => Exists(n)'
                       /\ res'[n] = "present" => n \in plan
                       /\ res'[n] = "deleting" => res[n] = "deleting" \/ n \notin plan
                       /\ res'[n] = "present" /\ Exists(n) => res[n] = "present"
                       /\ n \notin plan /\ Exists(n)' => Exists(n)
  BY <1>1, <1>2 DEF TypeOK
<1>4. Present \subseteq Present'
  BY <1>3 DEF Present
<1>5. BaseStays'
  BY <1>1, <1>3, <1>4 DEF UsagesInTime, BaseStays
<1>6. ASSUME ~hasty PROVE xr = "live"
  BY <1>1, <1>6 DEF UsagesInTime, TypeOK
<1>7. ASSUME ~hasty PROVE K8gbAsAsked'
  BY <1>1, <1>3, <1>6, <1>7 DEF UsagesInTime, K8gbAsAsked, Exists
<1>8. ASSUME ~hasty PROVE AllCovered'
  <2> SUFFICES ASSUME NEW p \in MustOutlive, p[1] \in Scope, p[2] \in Scope,
                      res'[p[1]] = "present", Endangered(p[1])'
               PROVE  Covered(p)'
    BY DEF AllCovered
  <2>1. /\ xr = "live" /\ BaseStays' /\ K8gbAsAsked' /\ BaseStays /\ K8gbAsAsked /\ AllCovered
    BY <1>5, <1>6, <1>7, <1>8 DEF UsagesInTime
  <2>2. p[1] \in {"k8gb-ip", "k8gb-ip-role"} /\ p[2] = "k8gb-release"
    BY <1>1, <2>1, ThreatsNext, Protected DEF Threats
  <2>3. p[1] \in plan /\ "k8gb" \in on
    BY <1>1, <1>3, <2>1, <2>2 DEF K8gbAsAsked
  <2>4. p[1] \in denied
    BY <1>1, <1>4, <2>1, <2>2, <2>3, ThreatsNext, WhenWanted
       DEF Threats, K8gbAsAsked, Known, RoleDue
  <2>5. Exists(p[1]) /\ res[p[1]] = "present" /\ Exists(p[2])
    BY <1>1, <1>3, <2>1, <2>2, <2>3, <2>4 DEF BaseStays, K8gbAsAsked, Present
  <2>6. Covered(p)
    BY <2>1, <2>4, <2>5 DEF AllCovered, Endangered
  <2> QED BY <1>1, <2>5, <2>6 DEF Covered
<1> QED BY <1>1, <1>5, <1>6, <1>7, <1>8 DEF UsagesInTime

-----------------------------------------------------------------------------
(* The Usages, the garbage collector, the providers and their reports *)

LEMMA ActivatePreserves ==
    ASSUME TypeOK, TypeOK', UsagesInTime, NEW u \in Usages, Activate(u)
    PROVE  UsagesInTime'
<1>1. /\ xr' = xr /\ res' = res /\ active \subseteq active' /\ denied' = denied
      /\ on' = on /\ up' = up /\ hasty' = hasty /\ phase' = phase /\ plan' = plan
  BY DEF Activate, passVars
<1>2. Present' = Present /\ Wanted' = Wanted
  BY <1>1 DEF Present, Exists, Wanted
<1>3. BaseStays'
  BY <1>1, <1>2 DEF UsagesInTime, BaseStays
<1>4. ASSUME ~hasty PROVE K8gbAsAsked'
  BY <1>1, <1>2, <1>4 DEF UsagesInTime, K8gbAsAsked, Exists
<1>5. ASSUME ~hasty PROVE AllCovered'
  <2>1. \A n : Endangered(n)' => Endangered(n)
    BY <1>1, <1>2 DEF Endangered
  <2>2. \A p : Covered(p) => Covered(p)'
    BY <1>1 DEF Covered, Exists
  <2> QED BY <1>1, <1>5, <2>1, <2>2, NothingWorse DEF UsagesInTime
<1> QED BY <1>1, <1>3, <1>4, <1>5 DEF UsagesInTime

\* What a Usage that goes does to the resources.
LEMMA ReleaseEffect ==
    ASSUME TypeOK, NEW u \in Usages, Release(u)
    PROVE  /\ active' = active \ {u}
           /\ u \in active => ~Exists(UsageBy(u))
           /\ \A n \in Scope \ Usages :
                /\ Exists(n)' <=> Exists(n)
                /\ res'[n] = "present" => res[n] = "present"
                /\ res'[n] # res[n] => /\ n \in denied /\ res[n] = "present"
                                      /\ n = UsageOf(u) /\ u \in active
                                      /\ ~\E v \in active \ {u} : UsageOf(v) = n
<1>1. UsageOf(u) \in Scope \ Usages /\ u \in Scope
  BY UsageEnds DEF Usages
<1>2. \/ res' = [res EXCEPT ![u] = "absent"]
      \/ /\ u \in active /\ UsageOf(u) \in denied /\ res[UsageOf(u)] = "present"
         /\ ~\E v \in active \ {u} : UsageOf(v) = UsageOf(u)
         /\ res' = [res EXCEPT ![u] = "absent", ![UsageOf(u)] = "deleting"]
  BY DEF Release
<1>3. active' = active \ {u} /\ (u \in active => ~Exists(UsageBy(u)))
  BY DEF Release
<1> QED BY <1>1, <1>2, <1>3 DEF Exists, TypeOK

\* A step that neither edits nor plans, and does not end what the role needs,
\* threatens nothing that was not threatened before.
LEMMA SameThreats ==
    ASSUME TypeOK, xr' = xr, on' = on, denied' \subseteq denied, phase' = phase, plan' = plan,
           xr = "live" /\ "k8gb" \in on /\ RoleDue => RoleDue',
           NEW p \in MustOutlive, p[1] \in Scope, Endangered(p[1])'
    PROVE  Endangered(p[1])
BY WhenWanted, Protected DEF Endangered, Known, TypeOK

LEMMA ReleasePreserves ==
    ASSUME TypeOK, TypeOK', UsagesInTime, NEW u \in Usages, Release(u)
    PROVE  UsagesInTime'
<1>1. /\ xr' = xr /\ denied' = denied /\ on' = on /\ up' = up /\ hasty' = hasty
      /\ phase' = phase /\ plan' = plan
  BY DEF Release, passVars
<1>2. /\ active' = active \ {u}
      /\ u \in active => ~Exists(UsageBy(u))
      /\ \A n \in Scope \ Usages :
           /\ Exists(n)' <=> Exists(n)
           /\ res'[n] = "present" => res[n] = "present"
           /\ res'[n] # res[n] => n \in denied /\ n = UsageOf(u) /\ u \in active
  BY ReleaseEffect
<1>3. {"network", "aks", "k8gb-ip", "k8gb-ip-role", "k8gb-release"} \cap Usages = {}
  BY DEF Usages, UsageSet
<1>4. \A n \in {"network", "aks", "k8gb-ip", "k8gb-ip-role", "k8gb-release"} :
         Exists(n)' <=> Exists(n)
  BY <1>2, <1>3 DEF Exists
<1>5. RoleDue' <=> RoleDue
  BY <1>1, <1>4 DEF RoleDue, Present, Exists
<1>6. BaseStays'
  <2>1. denied' \subseteq Present' \ Usages
    BY <1>1, <1>2 DEF UsagesInTime, BaseStays, Present
  <2>2. xr = "live" => \A n \in Scope \cap {"network", "aks"} : res'[n] # "deleting"
    BY <1>2, <1>3 DEF UsagesInTime, BaseStays
  <2> QED BY <1>1, <2>1, <2>2 DEF UsagesInTime, BaseStays
<1>7. ASSUME ~hasty PROVE K8gbAsAsked'
  <2> SUFFICES ASSUME xr = "live" PROVE K8gbAsAsked'
    BY <1>1 DEF K8gbAsAsked
  <2>1. \A n \in Scope \cap {"k8gb-ip", "k8gb-release"} :
           res'[n] = "deleting" => "k8gb" \notin on
    <3> SUFFICES ASSUME NEW n \in Scope \cap {"k8gb-ip", "k8gb-release"},
                        res'[n] = "deleting", "k8gb" \in on
                 PROVE  FALSE
      OBVIOUS
    <3>1. n \in denied /\ n = UsageOf(u) /\ u \in active /\ ~Exists(UsageBy(u))
      BY <1>2, <1>3, <1>7 DEF UsagesInTime, K8gbAsAsked
    <3>2. n = "k8gb-ip" /\ UsageBy(u) = "k8gb-release"
      BY <3>1 DEF Usages, UsageSet, UsageOf, UsageBy
    <3>3. Exists(n) /\ "k8gb-release" \in Scope
      BY <3>1, <3>2, UsageEnds DEF UsagesInTime, BaseStays, Present
    <3> QED BY <1>7, <3>1, <3>2, <3>3 DEF UsagesInTime, K8gbAsAsked
  <2> QED BY <1>1, <1>4, <1>5, <1>7, <2>1, WhenWanted DEF UsagesInTime, K8gbAsAsked, Known
<1>8. ASSUME ~hasty PROVE AllCovered'
  <2>1. ASSUME NEW p \in MustOutlive, p[2] \in Scope, Covered(p) PROVE Covered(p)'
    <3>1. p[2] \notin Usages
      BY Protected DEF Usages
    <3>2. Exists(p[2])' <=> Exists(p[2])
      BY <1>2, <2>1, <3>1
    <3> QED BY <1>2, <2>1, <3>2 DEF Covered
  <2>2. \A p \in MustOutlive : p[1] \in Scope /\ res'[p[1]] = "present" => res[p[1]] = "present"
    BY <1>2, Protected DEF Usages
  <2>3. \A p \in MustOutlive : p[1] \in Scope /\ Endangered(p[1])' => Endangered(p[1])
    BY <1>1, <1>5, SameThreats
  <2> QED BY <1>8, <2>1, <2>2, <2>3, NothingWorse DEF UsagesInTime
<1> QED BY <1>1, <1>6, <1>7, <1>8 DEF UsagesInTime

\* The garbage collector comes when the XR is gone: everything is covered by then.
LEMMA SweepPreserves ==
    ASSUME TypeOK, TypeOK', UsagesInTime, NEW n \in Scope, Sweep(n)
    PROVE  UsagesInTime'
<1>1. /\ xr = "gone" /\ xr' = xr /\ active' = active /\ denied' = denied /\ on' = on
      /\ up' = up /\ hasty' = hasty /\ phase' = phase /\ plan' = plan
      /\ res[n] = "present" /\ res' = [res EXCEPT ![n] = "deleting"]
  BY DEF Sweep, passVars
<1>2. \A m : Exists(m)' <=> Exists(m)
  BY <1>1 DEF Exists, TypeOK
<1>3. BaseStays'
  BY <1>1, <1>2 DEF UsagesInTime, BaseStays, Present
<1>4. K8gbAsAsked'
  BY <1>1 DEF K8gbAsAsked
<1>5. ASSUME ~hasty PROVE AllCovered'
  <2>1. \A m : Endangered(m)
    BY <1>1 DEF Endangered
  <2>2. \A p : Covered(p) => Covered(p)'
    BY <1>1, <1>2 DEF Covered
  <2>3. \A p \in MustOutlive : p[1] \in Scope /\ res'[p[1]] = "present" => res[p[1]] = "present"
    BY <1>1 DEF TypeOK
  <2> QED BY <1>5, <2>1, <2>2, <2>3, NothingWorse DEF UsagesInTime
<1> QED BY <1>1, <1>3, <1>4, <1>5 DEF UsagesInTime

\* While k8gb is asked for, neither the address nor the cluster that its role
\* needs is being deleted.
LEMMA FinishPreserves ==
    ASSUME TypeOK, TypeOK', UsagesInTime, NEW n \in Scope, Finish(n)
    PROVE  UsagesInTime'
<1>1. /\ n \notin Usages /\ res[n] = "deleting" /\ res' = [res EXCEPT ![n] = "absent"]
      /\ up' = {r \in up : ReportedBy(r) # n} /\ denied' = denied \ {n}
      /\ xr' = xr /\ active' = active /\ on' = on /\ hasty' = hasty
      /\ phase' = phase /\ plan' = plan
  BY DEF Finish, passVars
<1>2. \A m : Exists(m)' <=> Exists(m) /\ m # n
  BY <1>1 DEF Exists, TypeOK
<1>3. BaseStays'
  <2>1. denied' \subseteq Present' \ Usages
    BY <1>1, <1>2 DEF UsagesInTime, BaseStays, Present
  <2>2. \A m \in Scope : res'[m] = "deleting" => res[m] = "deleting"
    BY <1>1 DEF TypeOK
  <2> QED BY <1>1, <2>1, <2>2 DEF UsagesInTime, BaseStays
<1>4. ASSUME ~hasty, xr = "live", "k8gb" \in on PROVE n \notin {"aks", "k8gb-ip", "k8gb-release"}
  BY <1>1, <1>4 DEF UsagesInTime, BaseStays, K8gbAsAsked
<1>5. ASSUME ~hasty, xr = "live", "k8gb" \in on, RoleDue PROVE RoleDue'
  <2>1. n # "aks" /\ n # "k8gb-ip"
    BY <1>4, <1>5
  <2>2. ReportedBy("publicIpId") = "k8gb-ip" /\ ReportedBy("principalId") = "aks"
    BY DEF ReportedBy
  <2> QED BY <1>1, <1>2, <1>5, <2>1, <2>2 DEF RoleDue, Present
<1>6. ASSUME ~hasty PROVE K8gbAsAsked'
  <2> SUFFICES ASSUME xr = "live" PROVE K8gbAsAsked'
    BY <1>1 DEF K8gbAsAsked
  <2>1. \A m \in Scope : res'[m] = "deleting" => res[m] = "deleting"
    BY <1>1 DEF TypeOK
  <2>2. K8gbAsAsked /\ Known /\ Known'
    BY <1>6, WhenWanted DEF UsagesInTime
  <2>3. \A m \in Scope \cap {"k8gb-ip", "k8gb-release"} :
           /\ phase' = "planned" => (m \in plan' <=> "k8gb" \in on')
           /\ res'[m] = "deleting" => "k8gb" \notin on'
    BY <1>1, <2>1, <2>2 DEF K8gbAsAsked
  <2>4. phase' = "planned" /\ "k8gb-ip-role" \in plan' => "k8gb" \in on' /\ RoleDue'
    BY <1>1, <1>5, <1>6, <2>2 DEF K8gbAsAsked, Known
  <2>5. "k8gb" \in on' /\ (Exists("k8gb-ip")' \/ Exists("k8gb-ip-role")')
          /\ "k8gb-release" \in Scope => Exists("k8gb-release")'
    BY <1>1, <1>2, <1>4, <1>6, <2>2 DEF K8gbAsAsked
  <2> QED BY <2>2, <2>3, <2>4, <2>5 DEF K8gbAsAsked, Known
<1>7. ASSUME ~hasty PROVE AllCovered'
  <2>1. \A p : Covered(p) => Covered(p)'
    BY <1>1, <1>2 DEF Covered
  <2>2. \A p \in MustOutlive : p[1] \in Scope /\ res'[p[1]] = "present" => res[p[1]] = "present"
    BY <1>1 DEF TypeOK
  <2>3. \A p \in MustOutlive : p[1] \in Scope /\ Endangered(p[1])' => Endangered(p[1])
    BY <1>1, <1>5, <1>7, SameThreats
  <2> QED BY <1>7, <2>1, <2>2, <2>3, NothingWorse DEF UsagesInTime
<1> QED BY <1>1, <1>3, <1>6, <1>7 DEF UsagesInTime

LEMMA BringUpPreserves ==
    ASSUME TypeOK, TypeOK', UsagesInTime, NEW r \in Arriving, BringUp(r)
    PROVE  UsagesInTime'
<1>1. /\ xr' = xr /\ res' = res /\ active' = active /\ denied' = denied /\ on' = on
      /\ up' = up \cup {r} /\ hasty' = hasty /\ phase' = phase /\ plan' = plan
  BY DEF BringUp, passVars
<1>2. Present' = Present /\ (RoleDue => RoleDue')
  BY <1>1 DEF Present, Exists, RoleDue
<1>3. BaseStays'
  BY <1>1, <1>2 DEF UsagesInTime, BaseStays
<1>4. ASSUME ~hasty PROVE K8gbAsAsked'
  BY <1>1, <1>2, <1>4, WhenWanted DEF UsagesInTime, K8gbAsAsked, Exists, Known
<1>5. ASSUME ~hasty PROVE AllCovered'
  <2>1. \A p : Covered(p) => Covered(p)'
    BY <1>1 DEF Covered, Exists
  <2>2. \A p \in MustOutlive : p[1] \in Scope /\ Endangered(p[1])' => Endangered(p[1])
    BY <1>1, <1>2, SameThreats
  <2> QED BY <1>1, <1>5, <2>1, <2>2, NothingWorse DEF UsagesInTime
<1> QED BY <1>1, <1>3, <1>4, <1>5 DEF UsagesInTime

-----------------------------------------------------------------------------
(* Theorems *)

(* While every change finds the last one settled, a Usage in force stands     *)
(* between whatever may be deleted and what still needs it.                   *)
THEOREM UsagesInTimeHolds == Spec => []UsagesInTime
<1>1. Init => UsagesInTime
  <2> SUFFICES ASSUME Init PROVE UsagesInTime
    OBVIOUS
  <2>1. xr = "live" /\ denied = {} /\ phase = "idle" /\ \A n \in Scope : res[n] = "absent"
    BY DEF Init
  <2>2. BaseStays /\ K8gbAsAsked
    BY <2>1 DEF BaseStays, K8gbAsAsked, Exists
  <2>3. AllCovered
    BY <2>1 DEF AllCovered
  <2> QED BY <2>1, <2>2, <2>3 DEF UsagesInTime
<1>2. TypeOK /\ TypeOK' /\ UsagesInTime /\ [Next]_vars => UsagesInTime'
  <2> SUFFICES ASSUME TypeOK, TypeOK', UsagesInTime, [Next]_vars PROVE UsagesInTime'
    OBVIOUS
  <2>1. CASE Start
    BY <2>1, StartPreserves
  <2>2. CASE Apply
    BY <2>2, ApplyPreserves
  <2>3. CASE Crash
    BY <2>3, CrashPreserves
  <2>4. CASE DeleteXR
    BY <2>4, ChangePreserves
  <2>5. ASSUME NEW D \in SUBSET (Undesired \ Stuck), CollectSome(D) PROVE UsagesInTime'
    BY <2>5, CollectPreserves
  <2>6. ASSUME NEW n \in Scope, Sweep(n) \/ Finish(n) PROVE UsagesInTime'
    BY <2>6, SweepPreserves, FinishPreserves
  <2>7. ASSUME NEW u \in Usages, Activate(u) \/ Release(u) PROVE UsagesInTime'
    BY <2>7, ActivatePreserves, ReleasePreserves
  <2>8. ASSUME NEW r \in Arriving, BringUp(r) \/ Lose(r) PROVE UsagesInTime'
    BY <2>8, BringUpPreserves, ChangePreserves
  <2>9. ASSUME NEW f \in Offered, Toggle(f) PROVE UsagesInTime'
    BY <2>9, ChangePreserves
  <2>10. CASE UNCHANGED vars
    <3>1. Present' = Present /\ Wanted' = Wanted
      BY <2>10 DEF vars, Present, Exists, Wanted
    <3> QED BY <2>10, <3>1 DEF vars, passVars, UsagesInTime, BaseStays, AllCovered, Covered,
                               Endangered, K8gbAsAsked, Exists
  <2> QED BY <2>1, <2>2, <2>3, <2>4, <2>5, <2>6, <2>7, <2>8, <2>9, <2>10 DEF Next
<1> QED BY <1>1, <1>2, TypeCorrect, PTL DEF Spec

(* No deletion begins of what another resource still needs for its own, while *)
(* every change finds the last one settled.                                   *)
THEOREM OrderKeptHolds == Spec => OrderKept
<1> DEFINE Ordered == ~hasty => \A p \in MustOutlive : Orderly(p)
<1>1. ASSUME TypeOK, UsagesInTime, [Next]_vars PROVE Ordered
  <2> SUFFICES ASSUME ~hasty, NEW p \in MustOutlive, p[1] \in Scope, p[2] \in Scope,
                      res[p[1]] = "present", Exists(p[2])
               PROVE  res'[p[1]] = "present"
    BY DEF Orderly
  <2>1. Endangered(p[1]) => \E u \in active : UsageOf(u) = p[1] /\ UsageBy(u) = p[2]
    BY <1>1 DEF UsagesInTime, AllCovered, Covered
  <2>2. Endangered(p[1]) => Held(p[1])
    BY <2>1 DEF Held
  <2>3. phase = "planned" /\ p[1] \notin plan => Endangered(p[1])
    BY DEF Endangered
  <2>4. CASE Apply
    <3>1. Stuck = {} /\ phase = "planned"
          /\ res' = [n \in Scope |-> IF n \in Undesired THEN "deleting"
                                   ELSE IF n \in plan /\ ~Exists(n) THEN "present"
                                   ELSE res[n]]
      BY <2>4 DEF Apply
    <3>2. p[1] \notin Undesired
      BY <2>2, <2>3, <3>1 DEF Undesired, Stuck
    <3> QED BY <3>1, <3>2
  <2>5. ASSUME NEW D \in SUBSET (Undesired \ Stuck), CollectSome(D)
        PROVE  res'[p[1]] = "present"
    <3>1. phase = "planned" /\ res' = [n \in Scope |-> IF n \in D THEN "deleting" ELSE res[n]]
      BY <2>5 DEF CollectSome
    <3>2. p[1] \notin D
      BY <2>2, <2>3, <3>1 DEF Undesired, Stuck
    <3> QED BY <3>1, <3>2
  <2>6. ASSUME NEW n \in Scope, Sweep(n) PROVE res'[p[1]] = "present"
    <3>1. xr = "gone" /\ ~Held(n) /\ res' = [res EXCEPT ![n] = "deleting"]
      BY <2>6 DEF Sweep
    <3>2. n # p[1]
      BY <2>2, <3>1 DEF Endangered
    <3> QED BY <1>1, <3>1, <3>2 DEF TypeOK
  <2>7. ASSUME NEW n \in Scope, Finish(n) PROVE res'[p[1]] = "present"
    <3>1. res[n] = "deleting" /\ res' = [res EXCEPT ![n] = "absent"]
      BY <2>7 DEF Finish
    <3> QED BY <1>1, <3>1 DEF TypeOK
  <2>8. ASSUME NEW u \in Usages, Release(u) PROVE res'[p[1]] = "present"
    <3> SUFFICES ASSUME res'[p[1]] # res[p[1]] PROVE FALSE
      OBVIOUS
    <3>1. p[1] \in Scope \ Usages
      BY Protected DEF Usages
    <3>2. /\ p[1] \in denied /\ p[1] = UsageOf(u) /\ u \in active /\ ~Exists(UsageBy(u))
          /\ ~\E v \in active \ {u} : UsageOf(v) = p[1]
      BY <1>1, <2>8, <3>1, ReleaseEffect
    <3>3. PICK v \in active : UsageOf(v) = p[1] /\ UsageBy(v) = p[2]
      BY <2>1, <3>2 DEF Endangered
    <3> QED BY <3>2, <3>3
  <2>9. ASSUME NEW u \in Usages, Activate(u) PROVE res'[p[1]] = "present"
    BY <2>9 DEF Activate
  <2>10. ASSUME NEW r \in Arriving, BringUp(r) \/ Lose(r) PROVE res'[p[1]] = "present"
    BY <2>10 DEF BringUp, Lose
  <2>11. ASSUME NEW f \in Offered, Toggle(f) PROVE res'[p[1]] = "present"
    BY <2>11 DEF Toggle
  <2>12. CASE Start \/ Crash \/ DeleteXR \/ UNCHANGED vars
    BY <2>12 DEF Start, Crash, DeleteXR, vars
  <2> QED BY <1>1, <2>4, <2>5, <2>6, <2>7, <2>8, <2>9, <2>10, <2>11, <2>12 DEF Next
<1>2. TypeOK /\ UsagesInTime /\ [Next]_vars => Ordered
  BY <1>1
<1> QED BY <1>2, TypeCorrect, UsagesInTimeHolds, PTL DEF Spec, OrderKept

-----------------------------------------------------------------------------
(* Nothing is blocked *)

\* What a Usage in force protects stays as long as the Usage does, whatever the
\* users, the reconciles and the garbage collector do, and whenever it came into
\* force: the deletions of a reconcile, of a sweep and the repeated ones all
\* respect it.
THEOREM InForceHolds == Spec => []InForce
<1>1. Init => InForce
  BY DEF Init, InForce
<1>2. TypeOK /\ InForce /\ [Next]_vars => InForce'
  <2> SUFFICES ASSUME TypeOK, InForce, [Next]_vars, NEW v \in active'
               PROVE  Exists(v)' /\ res'[UsageOf(v)] = "present"
    BY DEF InForce
  <2>1. v \in active => /\ v \in Usages /\ v \in Scope /\ res[v] # "absent"
                        /\ UsageOf(v) \in Scope \ Usages /\ res[UsageOf(v)] = "present"
    BY UsageEnds DEF TypeOK, InForce, Exists
  <2>2. v \in active => Held(UsageOf(v))
    BY DEF Held
  <2>3. CASE Apply
    <3>1. /\ Stuck = {} /\ active' = active
          /\ res' = [n \in Scope |-> IF n \in Undesired THEN "deleting"
                                     ELSE IF n \in plan /\ ~Exists(n) THEN "present"
                                     ELSE res[n]]
      BY <2>3 DEF Apply
    <3>2. UsageOf(v) \notin Undesired
      BY <2>2, <3>1 DEF Stuck
    <3> QED BY <2>1, <3>1, <3>2 DEF Exists
  <2>4. ASSUME NEW D \in SUBSET (Undesired \ Stuck), CollectSome(D)
        PROVE  Exists(v)' /\ res'[UsageOf(v)] = "present"
    <3>1. active' = active /\ res' = [n \in Scope |-> IF n \in D THEN "deleting" ELSE res[n]]
      BY <2>4 DEF CollectSome
    <3>2. UsageOf(v) \notin D
      BY <2>2, <3>1 DEF Undesired, Stuck
    <3> QED BY <2>1, <3>1, <3>2 DEF Exists
  <2>5. ASSUME NEW n \in Scope, Sweep(n) PROVE Exists(v)' /\ res'[UsageOf(v)] = "present"
    <3>1. ~Held(n) /\ active' = active /\ res' = [res EXCEPT ![n] = "deleting"]
      BY <2>5 DEF Sweep
    <3>2. n # UsageOf(v)
      BY <2>2, <3>1
    <3> QED BY <2>1, <3>1, <3>2 DEF Exists, TypeOK
  <2>6. ASSUME NEW n \in Scope, Finish(n) PROVE Exists(v)' /\ res'[UsageOf(v)] = "present"
    <3>1. /\ n \notin Usages /\ res[n] = "deleting" /\ active' = active
          /\ res' = [res EXCEPT ![n] = "absent"]
      BY <2>6 DEF Finish
    <3> QED BY <2>1, <3>1 DEF Exists, TypeOK
  <2>7. ASSUME NEW u \in Usages, Activate(u) PROVE Exists(v)' /\ res'[UsageOf(v)] = "present"
    BY <2>1, <2>7 DEF Activate, Exists, Usages
  <2>8. ASSUME NEW u \in Usages, Release(u) PROVE Exists(v)' /\ res'[UsageOf(v)] = "present"
    <3>1. active' = active \ {u} /\ v # u /\ UsageOf(u) \in Scope \ Usages
      BY <2>8, UsageEnds DEF Release
    <3>2. \/ res' = [res EXCEPT ![u] = "absent"]
          \/ /\ UsageOf(v) # UsageOf(u)
             /\ res' = [res EXCEPT ![u] = "absent", ![UsageOf(u)] = "deleting"]
      BY <2>8, <3>1 DEF Release
    <3> QED BY <2>1, <3>1, <3>2 DEF Exists, TypeOK, Usages
  <2>9. CASE \/ Start \/ Crash \/ DeleteXR \/ UNCHANGED vars
             \/ \E r \in Arriving : BringUp(r) \/ Lose(r)
             \/ \E f \in Offered : Toggle(f)
    BY <2>1, <2>9 DEF Start, Crash, DeleteXR, BringUp, Lose, Toggle, vars, Exists
  <2> QED BY <2>3, <2>4, <2>5, <2>6, <2>7, <2>8, <2>9 DEF Next
<1> QED BY <1>1, <1>2, TypeCorrect, PTL DEF Spec

\* A Usage is returned only with what it protects; and if it is not returned
\* although what it waits for is, it is the one of the role assignment, which
\* lacks an id.
LEMMA UsageAsked ==
    ASSUME NEW u \in UsageSet, NEW q, NEW o
    PROVE  LET D == Desired(q, o, FALSE)
           IN  /\ u \in D => UsageOf(u) \in D
               /\ UsageBy(u) \in D /\ u \notin D =>
                    u = "usage-k8gb-ip-role-release" /\ ~RoleEmitted(o)
<1> DEFINE D == Desired(q, o, FALSE)
<1>1. u \in D <=> u \in AddUsage(q, o)
  BY DesiredUsage
<1>2. ASSUME u \in AddUsage(q, o) PROVE UsageOf(u) \in D
  <2>1. CASE UsageOf(u) \in {"network", "aks"}
    BY <2>1, WhenDesired
  <2>2. CASE u = "usage-k8gb-ip-release"
    <3>1. "k8gb" \in q.on
      BY <1>2, <2>2 DEF AddUsage, If
    <3> QED BY <2>2, <3>1, WhenDesired DEF UsageOf
  <2>3. CASE u = "usage-k8gb-ip-role-release"
    <3>1. "k8gb" \in q.on /\ RoleEmitted(o)
      BY <1>2, <2>3 DEF AddUsage, If
    <3> QED BY <2>3, <3>1, WhenDesired DEF UsageOf
  <2> QED BY <2>1, <2>2, <2>3 DEF UsageOf, UsageSet
<1>3. ASSUME UsageBy(u) \in D, u \notin AddUsage(q, o)
      PROVE  u = "usage-k8gb-ip-role-release" /\ ~RoleEmitted(o)
  <2>1. u \notin {"usage-release-aks", "usage-aks-network"}
    BY <1>3 DEF AddUsage
  <2>2. CASE u \in {"usage-envoy-gateway-aks", "usage-envoy-proxy-config-aks",
                    "usage-gateway-class-aks"}
    <3>1. "k8gb" \in q.on \/ "argocd" \in q.on
      BY <1>3, <2>2, DesiredWithFeature DEF UsageBy
    <3> QED BY <1>3, <2>2, <3>1 DEF AddUsage, If
  <2>3. CASE u \in {"usage-k8gb-aks", "usage-k8gb-coredns-aks", "usage-k8gb-ip-release"}
    <3>1. "k8gb" \in q.on
      BY <1>3, <2>3, DesiredWithFeature DEF UsageBy
    <3> QED BY <1>3, <2>3, <3>1 DEF AddUsage, If
  <2>4. CASE u \in {"usage-argocd-aks", "usage-argocd-issuer-aks", "usage-argocd-cert-aks",
                    "usage-argocd-gateway-aks", "usage-argocd-httproute-aks",
                    "usage-argocd-app-aks"}
    <3>1. "argocd" \in q.on
      BY <1>3, <2>4, DesiredWithFeature DEF UsageBy
    <3> QED BY <1>3, <2>4, <3>1 DEF AddUsage, If
  <2>5. CASE u = "usage-k8gb-ip-role-release"
    <3>1. "k8gb" \in q.on
      BY <1>3, <2>5, DesiredWithFeature DEF UsageBy
    <3> QED BY <1>3, <2>5, <3>1 DEF AddUsage, If
  <2> QED BY <2>1, <2>2, <2>3, <2>4, <2>5 DEF UsageSet
<1> QED BY <1>1, <1>2, <1>3

\* The same of the part of the composition that is looked at.
LEMMA UsageWanted ==
    ASSUME NEW u \in Usages, u \notin Wanted, UsageBy(u) \in Wanted
    PROVE  /\ UsageOf(u) = "k8gb-ip-role" /\ UsageBy(u) = "k8gb-release"
           /\ ~RoleEmitted([present |-> Present, up |-> up])
<1> DEFINE q == [mode |-> Mode, on |-> on]
           o == [present |-> Present, up |-> up]
<1>1. u \in UsageSet /\ u \in Scope
  BY DEF Usages
<1>2. Wanted = Desired(q, o, FALSE) \cap Scope
  BY DEF Wanted
<1> HIDE DEF q, o
<1>3. u = "usage-k8gb-ip-role-release" /\ ~RoleEmitted(o)
  BY <1>1, <1>2, UsageAsked
<1> QED BY <1>3 DEF UsageOf, UsageBy, o

LEMMA ProtectedWanted ==
    ASSUME NEW u \in Usages, UsageOf(u) \notin Wanted
    PROVE  u \notin Wanted
<1> DEFINE q == [mode |-> Mode, on |-> on]
           o == [present |-> Present, up |-> up]
<1>1. u \in UsageSet /\ u \in Scope /\ UsageOf(u) \in Scope
  BY UsageEnds DEF Usages
<1>2. Wanted = Desired(q, o, FALSE) \cap Scope
  BY DEF Wanted
<1> HIDE DEF q, o
<1> QED BY <1>1, <1>2, UsageAsked

\* The Usages make no chain but one: the network waits for the cluster.
LEMMA NoChain ==
    ASSUME NEW u \in Usages, NEW v \in Usages, UsageOf(v) = UsageBy(u)
    PROVE  UsageBy(u) = "aks" /\ UsageOf(u) = "network"
<1>1. UsageBy(u) \in {"aks", "network", "k8gb-ip", "k8gb-ip-role"}
  BY UsageEnds
<1> QED BY <1>1 DEF Usages, UsageSet, UsageBy, UsageOf

\* A ControlPlane that is not as it is to be can go on, or is wedged.
THEOREM NeverBlockedHolds == Spec => []NeverBlocked
<1>1. ASSUME TypeOK, InForce, Present # Target, ~CanGoOn PROVE Wedged
  <2> DEFINE undesired == {n \in Scope : res[n] = "present"} \ Target
  <2>1. /\ \A n \in undesired : Held(n)
        /\ undesired = {} => Target \subseteq Present
        /\ \A n \in Scope \ Usages : res[n] # "deleting"
        /\ \A u \in Usages : res[u] = "deleting" => u \in active /\ Exists(UsageBy(u))
    BY <1>1 DEF CanGoOn
  <2>2. /\ active \subseteq Usages /\ Usages \subseteq Scope
        /\ \A n \in Scope : res[n] \in {"absent", "present", "deleting"}
    BY <1>1 DEF TypeOK, Usages
  <2>3. \A u \in active : res[u] # "absent" /\ res[UsageOf(u)] = "present"
    BY <1>1 DEF InForce, Exists
  <2>4. ASSUME NEW n \in undesired
        PROVE  n \notin Usages /\ \E v \in active : UsageOf(v) = n
    BY <2>1, <2>2, UsageEnds DEF Held
  <2>5. ASSUME NEW u \in Usages, res[u] = "deleting"
        PROVE  /\ u \in active /\ UsageBy(u) \in Scope \ Usages
               /\ res[UsageBy(u)] = "present"
    BY <2>1, <2>2, <2>5, UsageEnds DEF Exists
  <2>6. ASSUME NEW u \in Usages, res[u] = "deleting", UsageBy(u) \notin Target
        PROVE  UsageBy(u) = "aks" /\ UsageOf(u) = "network"
    <3>1. PICK v \in active : UsageOf(v) = UsageBy(u)
      BY <2>4, <2>5, <2>6
    <3> QED BY <2>2, <3>1, NoChain
  <2>7. CASE xr = "gone"
    <3>1. Target = {}
      BY <2>7 DEF Target
    <3>2. ASSUME NEW u \in Usages, res[u] # "absent" PROVE res[u] = "deleting"
      BY <2>2, <2>4, <3>1, <3>2
    <3>3. ASSUME NEW u \in Usages, res[u] = "deleting" PROVE FALSE
      <4>1. PICK v \in active : UsageOf(v) = UsageBy(u)
        BY <2>4, <2>5, <3>1, <3>3
      <4>2. UsageOf(v) = "aks"
        BY <2>6, <3>1, <3>3, <4>1
      <4>3. v \in Usages /\ res[v] = "deleting"
        BY <2>2, <2>3, <3>2
      <4> QED BY <2>6, <3>1, <4>2, <4>3
    <3>4. active = {}
      BY <2>2, <2>3, <3>2, <3>3
    <3>5. PICK n \in Scope : res[n] # "absent"
      BY <1>1, <3>1 DEF Present, Exists
    <3>6. n \in undesired
      BY <2>1, <2>2, <3>1, <3>2, <3>3, <3>5
    <3> QED BY <2>4, <3>4, <3>6
  <2>8. CASE xr # "gone"
    <3>1. xr = "live" /\ Target = Wanted
      BY <1>1, <2>8 DEF TypeOK, Target
    <3>2. "aks" \in Scope => "aks" \in Wanted
      BY WhenWanted DEF Known
    <3>3. ASSUME NEW u \in Usages, res[u] = "deleting", u \notin Wanted PROVE Wedged
      <4>1. u \in active /\ UsageBy(u) \in Scope /\ res[UsageOf(u)] = "present"
        BY <2>3, <2>5, <3>3
      <4>2. UsageBy(u) \in Wanted
        BY <2>6, <3>1, <3>2, <3>3, <4>1
      <4>3. /\ UsageOf(u) = "k8gb-ip-role" /\ UsageBy(u) = "k8gb-release"
            /\ ~RoleEmitted([present |-> Present, up |-> up])
        BY <3>3, <4>2, UsageWanted
      <4>4. Exists("k8gb-ip-role")
        BY <4>1, <4>3, UsageEnds DEF Exists
      <4> QED BY <3>1, <3>3, <4>1, <4>2, <4>3, <4>4 DEF Wedged
    <3>4. CASE undesired = {}
      <4>1. PICK n \in Scope : res[n] # "absent" /\ n \notin Wanted
        BY <1>1, <2>1, <3>1, <3>4 DEF Present, Exists
      <4>2. n \in Usages /\ res[n] = "deleting"
        BY <2>1, <2>2, <3>1, <3>4, <4>1
      <4> QED BY <3>3, <4>1, <4>2
    <3>5. CASE undesired # {}
      <4>1. PICK n \in undesired : TRUE
        BY <3>5
      <4>2. PICK u \in active : UsageOf(u) = n
        BY <2>4
      <4>3. u \in Usages /\ u \notin Wanted
        BY <2>2, <3>1, <4>1, <4>2, ProtectedWanted
      <4>4. res[u] = "deleting"
        BY <2>2, <2>3, <2>4, <3>1, <4>3
      <4> QED BY <3>3, <4>3, <4>4
    <3> QED BY <3>4, <3>5
  <2> QED BY <2>7, <2>8
<1>2. TypeOK /\ InForce => NeverBlocked
  BY <1>1 DEF NeverBlocked
<1> QED BY <1>2, TypeCorrect, InForceHolds, PTL

\* The role assignment is there only with the address, while every change finds
\* the last one settled and k8gb is asked for.
RoleWithAddress ==
    ~hasty /\ xr = "live" /\ "k8gb" \in on /\ Exists("k8gb-ip-role") => Exists("k8gb-ip")

\* A ControlPlane is wedged for good only if a user did not wait.
THEOREM WedgedByHasteHolds == Spec => []WedgedByHaste
<1>1. Init => RoleWithAddress
  BY DEF Init, RoleWithAddress, Exists
<1>2. TypeOK /\ UsagesInTime /\ RoleWithAddress /\ [Next]_vars => RoleWithAddress'
  <2> DEFINE Ip == "k8gb-ip"
             Role == "k8gb-ip-role"
  <2> SUFFICES ASSUME TypeOK, UsagesInTime, RoleWithAddress, [Next]_vars,
                      ~hasty', xr' = "live", "k8gb" \in on', Exists(Role)'
               PROVE  Exists(Ip)'
    BY DEF RoleWithAddress
  <2>1. /\ "k8gb" \in on /\ ~hasty /\ xr = "live" /\ Exists(Role) => Exists(Ip)
        /\ ~hasty /\ xr = "live" => K8gbAsAsked
    BY DEF RoleWithAddress, UsagesInTime
  <2>2. ASSUME UNCHANGED <<xr, on, res, hasty>> PROVE Exists(Ip)'
    BY <2>1, <2>2 DEF Exists
  <2>3. CASE Apply
    <3>1. /\ xr = "live" /\ ~hasty /\ "k8gb" \in on /\ phase = "planned"
          /\ res' = [n \in Scope |-> IF n \in Undesired THEN "deleting"
                                     ELSE IF n \in plan /\ ~Exists(n) THEN "present"
                                     ELSE res[n]]
      BY <2>3 DEF Apply
    <3>2. \A n \in Scope : Exists(n) => Exists(n)'
      BY <3>1 DEF Exists
    <3>3. Exists(Role) \/ Role \in plan
      BY <3>1 DEF Exists, Undesired
    <3>4. Role \in plan => Exists(Ip)
      <4>1. Role \in plan => RoleEmitted([present |-> Present, up |-> up])
        BY <2>1, <3>1 DEF K8gbAsAsked
      <4> QED BY <4>1, WhenWanted DEF Known, RoleDue, Present
    <3> QED BY <2>1, <3>1, <3>2, <3>3, <3>4 DEF Exists
  <2>4. ASSUME NEW D \in SUBSET (Undesired \ Stuck), CollectSome(D) PROVE Exists(Ip)'
    <3>1. /\ UNCHANGED <<xr, on, hasty>>
          /\ res' = [n \in Scope |-> IF n \in D THEN "deleting" ELSE res[n]]
          /\ D \subseteq {n \in Scope : res[n] = "present"}
      BY <2>4 DEF CollectSome, Undesired
    <3>2. \A n \in Scope : Exists(n) <=> Exists(n)'
      BY <3>1 DEF Exists
    <3> QED BY <2>1, <3>1, <3>2 DEF Exists
  <2>5. ASSUME NEW n \in Scope, Finish(n) PROVE Exists(Ip)'
    <3>1. /\ UNCHANGED <<xr, on, hasty>> /\ res[n] = "deleting"
          /\ res' = [res EXCEPT ![n] = "absent"]
      BY <2>5 DEF Finish
    <3>2. Exists(Role) /\ Exists(Ip)
      BY <2>1, <3>1 DEF Exists, TypeOK
    <3>3. n # Ip
      BY <2>1, <3>1 DEF K8gbAsAsked
    <3> QED BY <3>1, <3>2, <3>3 DEF Exists, TypeOK
  <2>6. ASSUME NEW u \in Usages, Release(u) PROVE Exists(Ip)'
    <3>1. UNCHANGED <<xr, on, hasty>> /\ Ip \notin Usages /\ Role \notin Usages
      BY <2>6 DEF Release, Usages, UsageSet
    <3>2. \A n \in Scope \ Usages : Exists(n)' <=> Exists(n)
      BY <2>6, ReleaseEffect
    <3> QED BY <2>1, <3>1, <3>2 DEF Exists
  <2>7. ASSUME NEW u \in Usages, Activate(u) PROVE Exists(Ip)'
    BY <2>2, <2>7 DEF Activate
  <2>8. ASSUME NEW r \in Arriving, BringUp(r) \/ Lose(r) PROVE Exists(Ip)'
    BY <2>1, <2>8 DEF BringUp, Lose, Exists
  <2>9. ASSUME NEW f \in Offered, Toggle(f) PROVE Exists(Ip)'
    <3>1. xr = "live" /\ UNCHANGED <<xr, res>> /\ ~hasty /\ Settled
      BY <2>9 DEF Toggle
    <3>2. Exists(Role)
      BY <3>1 DEF Exists
    <3>3. Role \in Wanted
      BY <3>1, <3>2 DEF Settled, Present, Exists
    <3>4. "k8gb" \in on
      BY <3>2, <3>3, WhenWanted DEF Known, Exists
    <3> QED BY <2>1, <3>1, <3>2, <3>4 DEF Exists
  <2>10. ASSUME NEW n \in Scope, Sweep(n) PROVE Exists(Ip)'
    BY <2>10 DEF Sweep
  <2>11. CASE Start \/ Crash \/ DeleteXR \/ UNCHANGED vars
    BY <2>2, <2>11 DEF Start, Crash, DeleteXR, vars
  <2> QED BY <2>3, <2>4, <2>5, <2>6, <2>7, <2>8, <2>9, <2>10, <2>11 DEF Next
<1>3. RoleWithAddress => WedgedByHaste
  BY WhenWanted DEF RoleWithAddress, WedgedByHaste, Wedged, Known, Exists
<1> QED BY <1>1, <1>2, <1>3, TypeCorrect, UsagesInTimeHolds, PTL DEF Spec
=============================================================================
