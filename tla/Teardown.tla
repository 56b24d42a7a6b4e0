------------------------------ MODULE Teardown ------------------------------
(***************************************************************************)
(* How the composed resources of one ControlPlane go away, and what the    *)
(* deletion-order Usages of add_usage_resources do to the order.  There    *)
(* are two ways to go.  A feature is turned off: the next reconcile of     *)
(* Crossplane deletes what the function no longer returns, one resource    *)
(* after the other in no particular order, and applies what it does return *)
(* only if none of the deletes failed.  Or the XR is deleted: it goes at   *)
(* once, and the garbage collector of Kubernetes deletes what it owned,    *)
(* each resource by itself, for as long as it takes.                       *)
(*                                                                         *)
(* A Usage in force makes the API server deny the deletion of the resource *)
(* it is `of`.  A Usage that is deleted stays in force until the resource  *)
(* it is `by` is gone; then it goes and, with replayDeletion, repeats a    *)
(* deletion that was denied.  That repetition is a goroutine that dies     *)
(* with its process, so it may not happen.                                 *)
(*                                                                         *)
(* Simplifications.  Scope is the part of the composition under study; a   *)
(* resource outside it takes no part in the order.  The composed Network   *)
(* and AKS XRs are resources like the others: a Usage of them, or by them, *)
(* ends with the XR and not with the Azure resources behind it.  The       *)
(* writes of a reconcile are one step: a Usage comes into force by a step  *)
(* of its own, so that its absence is seen all the same.  cloud            *)
(* keeps two of those: the resource group, which stands for what "network" *)
(* owns, and the storage account inside it.                                *)
(***************************************************************************)
EXTENDS Composition, Naturals

\* Mutant of UsageOf: the reference of `by` pasted over that of `of`.
PastedUsageOf(u) ==
    CASE u = "usage-aks-network"          -> "network"
      [] u = "usage-k8gb-ip-release"      -> "k8gb-release"
      [] u = "usage-k8gb-ip-role-release" -> "k8gb-ip-role"
      [] OTHER                            -> "aks"

\* The resource a Usage protects.
UsageOf(u) ==
    CASE u = "usage-aks-network"          -> "network"
      [] u = "usage-k8gb-ip-release"      -> "k8gb-ip"
      [] u = "usage-k8gb-ip-role-release" -> "k8gb-ip-role"
      [] OTHER                            -> "aks"

\* The resource that has to be gone first.
UsageBy(u) ==
    CASE u = "usage-release-aks"             -> "uxp-release"
      [] u = "usage-aks-network"             -> "aks"
      [] u = "usage-envoy-gateway-aks"       -> "envoy-gateway-release"
      [] u = "usage-envoy-proxy-config-aks"  -> "envoy-proxy-config"
      [] u = "usage-gateway-class-aks"       -> "gateway-class"
      [] u = "usage-k8gb-coredns-aks"        -> "k8gb-coredns-observe"
      [] u = "usage-argocd-aks"              -> "argocd-release"
      [] u = "usage-argocd-issuer-aks"       -> "argocd-issuer"
      [] u = "usage-argocd-cert-aks"         -> "argocd-cert"
      [] u = "usage-argocd-gateway-aks"      -> "argocd-gateway"
      [] u = "usage-argocd-httproute-aks"    -> "argocd-httproute"
      [] u = "usage-argocd-app-aks"          -> "argocd-app"
      [] u \in {"usage-k8gb-aks", "usage-k8gb-ip-release", "usage-k8gb-ip-role-release"}
                                             -> "k8gb-release"

CONSTANTS
    Scope,      \* the names of the composed resources looked at
    Offered,    \* the features the user turns on and off
    Mode,       \* managementMode
    Arriving,   \* the reports of the resources that are looked at
    MaxChanges

ASSUME TeardownAssumption ==
    /\ Scope \subseteq Names
    /\ \A u \in UsageSet : u \in Scope <=> UsageOf(u) \in Scope /\ UsageBy(u) \in Scope
    /\ Offered \subseteq Features
    /\ Mode \in Modes
    /\ Arriving \subseteq Reportable
    /\ MaxChanges \in Nat

VARIABLES
    xr,         \* "live" or "gone"
    on,         \* spec.parameters: the features that are on
    res,        \* res[n]: "absent", "present" or "deleting" (deletionTimestamp set)
    up,         \* what the resources report
    active,     \* the Usages in force
    denied,     \* the resources of which a reconcile was denied the deletion
    phase,      \* of the reconcile: "idle" or "planned"
    plan,       \* what the function returned to it
    cloud,      \* of "network" and the storage account: what exists in Azure
    hasty,      \* history: the user or a fault came before all was settled
    changes     \* how often the user or a fault has come, the deletion apart

passVars == <<phase, plan>>
vars == <<xr, on, res, up, active, denied, passVars, cloud, hasty, changes>>

Usages  == Scope \cap UsageSet
InAzure == Scope \cap {"network", "backup-storage-account"}

TypeOK ==
    /\ xr \in {"live", "gone"}
    /\ on \in SUBSET Features
    /\ res \in [Scope -> {"absent", "present", "deleting"}]
    /\ up \in SUBSET Reportable
    /\ active \in SUBSET Usages
    /\ denied \in SUBSET Scope
    /\ phase \in {"idle", "planned"}
    /\ plan \in SUBSET Scope
    /\ cloud \in SUBSET InAzure
    /\ hasty \in BOOLEAN
    /\ changes \in 0 .. MaxChanges

-----------------------------------------------------------------------------
(* The Usages in force *)

Exists(n) == n \in Scope /\ res[n] # "absent"
Held(n)   == \E u \in active : UsageOf(u) = n

\* The Usage controller takes note of a new Usage.
Activate(u) ==
    /\ res[u] = "present" /\ u \notin active
    /\ res[UsageOf(u)] = "present"
    /\ active' = active \cup {u}
    /\ UNCHANGED <<xr, on, res, up, denied, passVars, cloud, hasty, changes>>

\* A deleted Usage goes once the resource it is `by` is gone, and may repeat a
\* denied deletion unless another Usage still forbids it.
Release(u) ==
    /\ res[u] = "deleting"
    /\ u \in active => ~Exists(UsageBy(u))
    /\ active' = active \ {u}
    /\ LET n == UsageOf(u)
       IN  \/ res' = [res EXCEPT ![u] = "absent"]
           \/ /\ u \in active /\ n \in denied /\ res[n] = "present"
              /\ ~\E v \in active \ {u} : UsageOf(v) = n
              /\ res' = [res EXCEPT ![u] = "absent", ![n] = "deleting"]
    /\ UNCHANGED <<xr, on, up, denied, passVars, cloud, hasty, changes>>

-----------------------------------------------------------------------------
(* The reconcile of a live XR *)

Present == {n \in Scope : Exists(n)}
Wanted  ==
    Desired([mode |-> Mode, on |-> on], [present |-> Present, up |-> up], FALSE) \cap Scope

\* The resources are as the function wants them, and every Usage is in force.
Settled ==
    /\ phase = "idle"
    /\ Present = Wanted
    /\ Present \cap Usages \subseteq active
    /\ \A n \in Scope \ Usages : res[n] # "deleting"

Start ==
    /\ xr = "live" /\ phase = "idle"
    /\ phase' = "planned"
    /\ plan' = Wanted
    /\ UNCHANGED <<xr, on, res, up, active, denied, cloud, hasty, changes>>

\* What exists and was not returned, and what of it cannot be deleted now.
Undesired == {n \in Scope : res[n] = "present"} \ plan
Stuck     == {n \in Undesired : Held(n)}

EndPass == phase' = "idle" /\ plan' = {}

\* The deletes of D succeed, the next one is denied and ends the reconcile.
CollectSome(D) ==
    /\ phase = "planned"
    /\ \E n \in Stuck : denied' = IF xr = "live" THEN denied \cup {n} ELSE denied
    /\ res' = [n \in Scope |-> IF n \in D THEN "deleting" ELSE res[n]]
    /\ EndPass
    /\ UNCHANGED <<xr, on, up, active, cloud, hasty, changes>>

\* All deletes succeed and what was returned is applied: resources that do not
\* exist are created, one that is being deleted is only patched.
Apply ==
    /\ phase = "planned" /\ Stuck = {}
    /\ res' = [n \in Scope |-> IF n \in Undesired THEN "deleting"
                               ELSE IF n \in plan /\ ~Exists(n) THEN "present"
                               ELSE res[n]]
    /\ cloud' = cloud \cup (plan \cap InAzure)
    /\ EndPass
    /\ UNCHANGED <<xr, on, up, active, denied, hasty, changes>>

\* Crossplane restarts in the middle of a reconcile.
Crash ==
    /\ changes < MaxChanges /\ phase = "planned"
    /\ changes' = changes + 1
    /\ EndPass
    /\ UNCHANGED <<xr, on, res, up, active, denied, cloud, hasty>>

-----------------------------------------------------------------------------
(* The garbage collector, the providers and Azure *)

\* A denied delete changes nothing here: the collector tries again, which is
\* also all that a repeated deletion could do.
Sweep(n) ==
    /\ xr = "gone" /\ res[n] = "present" /\ ~Held(n)
    /\ res' = [res EXCEPT ![n] = "deleting"]
    /\ UNCHANGED <<xr, on, up, active, denied, passVars, cloud, hasty, changes>>

\* What a finished deletion leaves in Azure.  Without Delete among the policies
\* the Azure resource stays.  A resource group goes with all it contains.
CloudAfter(n) ==
    IF "Delete" \notin Policies(n, Mode) THEN cloud
    ELSE IF n = "network" THEN {} ELSE cloud \ {n}

\* A provider ends the deletion of its resource.  Deleting a resource group
\* that is not empty may also be refused, and is tried again for ever.
Finish(n) ==
    /\ n \notin Usages /\ res[n] = "deleting"
    /\ res' = [res EXCEPT ![n] = "absent"]
    /\ up' = {r \in up : ReportedBy(r) # n}
    /\ denied' = denied \ {n}
    /\ cloud' = CloudAfter(n)
    /\ UNCHANGED <<xr, on, active, passVars, hasty, changes>>

BringUp(r) ==
    /\ xr = "live" /\ r \notin up
    /\ ReportedBy(r) \in Scope /\ res[ReportedBy(r)] = "present"
    /\ up' = up \cup {r}
    /\ UNCHANGED <<xr, on, res, active, denied, passVars, cloud, hasty, changes>>

\* A status loses a field, or a Release its "deployed", for a while.
Lose(r) ==
    /\ changes < MaxChanges /\ r \in up
    /\ changes' = changes + 1
    /\ up' = up \ {r}
    /\ hasty' = (hasty \/ ~Settled)
    /\ UNCHANGED <<xr, on, res, active, denied, passVars, cloud>>

-----------------------------------------------------------------------------
(* The user *)

Toggle(f) ==
    /\ xr = "live" /\ changes < MaxChanges
    /\ changes' = changes + 1
    /\ on' = IF f \in on THEN on \ {f} ELSE on \cup {f}
    /\ hasty' = (hasty \/ ~Settled)
    /\ UNCHANGED <<xr, res, up, active, denied, passVars, cloud>>

\* The XR goes, its parameters with it; nothing reads the reports any more.  A
\* reconcile under way goes on.
DeleteXR ==
    /\ xr = "live"
    /\ xr' = "gone"
    /\ on' = {} /\ up' = {} /\ denied' = {}
    /\ hasty' = (hasty \/ ~Settled)
    /\ UNCHANGED <<res, active, passVars, cloud, changes>>

Init ==
    /\ xr = "live"
    /\ on \in SUBSET Offered
    /\ res = [n \in Scope |-> "absent"]
    /\ up = {} /\ active = {} /\ denied = {}
    /\ phase = "idle" /\ plan = {}
    /\ cloud = {}
    /\ hasty = FALSE
    /\ changes = 0

Next ==
    \/ Start \/ Apply \/ Crash \/ DeleteXR
    \/ \E D \in SUBSET (Undesired \ Stuck) : CollectSome(D)
    \/ \E n \in Scope : Sweep(n) \/ Finish(n)
    \/ \E u \in Usages : Activate(u) \/ Release(u)
    \/ \E r \in Arriving : BringUp(r) \/ Lose(r)
    \/ \E f \in Offered : Toggle(f)

Spec == Init /\ [][Next]_vars

\* Crossplane reconciles for ever; the collector and the providers retry for
\* ever; reports arrive.  The undesired resources are taken from a Go map, in
\* an order that changes from one reconcile to the next, so none is always
\* behind the one whose deletion is denied.  Whether a resource group that is
\* not empty ever goes is left open.
Drains(n) == n = "network" => cloud \subseteq {"network"}
Fairness ==
    /\ WF_vars(Start) /\ WF_vars(Apply)
    /\ SF_vars(CollectSome(Undesired \ Stuck))
    /\ WF_vars(\E n \in Scope : Sweep(n))
    /\ WF_vars(\E n \in Scope : Finish(n) /\ Drains(n))
    /\ WF_vars(\E u \in Usages : Activate(u) \/ Release(u))
    /\ WF_vars(\E r \in Arriving : BringUp(r))
FairSpec == Spec /\ Fairness

-----------------------------------------------------------------------------
(* Properties *)

\* What runs inside the cluster and reaches it through its kubeconfig: UXP and
\* the resources of the add-ons that add_usage_resources promises to guard.
InCluster ==
    {"uxp-release", "envoy-gateway-release", "envoy-proxy-config", "gateway-class",
     "k8gb-release", "k8gb-coredns-observe", "argocd-release", "argocd-issuer",
     "argocd-cert", "argocd-gateway", "argocd-httproute", "argocd-app"}
MustOutlive ==
    {<<"network", "aks">>, <<"k8gb-ip", "k8gb-release">>, <<"k8gb-ip-role", "k8gb-release">>}
    \cup ({"aks"} \X InCluster)

Orderly(p) ==
    p[1] \in Scope /\ p[2] \in Scope /\ res[p[1]] = "present" /\ Exists(p[2])
        => res'[p[1]] = "present"

\* Whichever way the resources go, and whatever the order in which Crossplane,
\* the garbage collector and the Usages get to act, no deletion begins of what
\* another resource still needs for its own: not of the cluster under its
\* add-ons, of the network under the cluster, of the address and its role under
\* k8gb (usages.py: "so it finishes uninstalling before the AKS
\* cluster/kubeconfig is torn out from under it").  The exception is a change
\* that comes before the last one has settled: a Usage that does not exist yet
\* holds nothing back.
OrderKept == [][~hasty => \A p \in MustOutlive : Orderly(p)]_vars

\* What the Usages have to do is to be in force before their time comes.  A
\* resource is endangered when something may delete it, and covered against
\* another when a Usage in force, or the absence of the other, makes that safe.
Endangered(n) ==
    \/ xr = "gone"
    \/ n \in denied
    \/ n \notin Wanted
    \/ phase = "planned" /\ n \notin plan
Covered(p) ==
    Exists(p[2]) => \E u \in active : UsageOf(u) = p[1] /\ UsageBy(u) = p[2]
AllCovered ==
    \A p \in MustOutlive :
        p[1] \in Scope /\ p[2] \in Scope /\ res[p[1]] = "present" /\ ~Covered(p)
            => ~Endangered(p[1])

\* Until the XR is deleted nothing deletes the cluster and its network.
BaseStays ==
    /\ denied \subseteq Present \ Usages
    /\ xr = "live" =>
         \A n \in Scope \cap {"network", "aks"} :
             /\ n \notin denied /\ res[n] # "deleting"
             /\ phase = "planned" => n \in plan

\* k8gb comes with its address and goes with it, and a reconcile under way
\* knows which of the two is asked for.
K8gbAsAsked ==
    xr = "live" =>
        /\ \A n \in Scope \cap {"k8gb-ip", "k8gb-release"} :
             /\ phase = "planned" => (n \in plan <=> "k8gb" \in on)
             /\ res[n] = "deleting" => "k8gb" \notin on
        /\ phase = "planned" /\ "k8gb-ip-role" \in plan
             => "k8gb" \in on /\ RoleEmitted([present |-> Present, up |-> up])
        /\ "k8gb" \in on /\ (Exists("k8gb-ip") \/ Exists("k8gb-ip-role"))
             /\ "k8gb-release" \in Scope => Exists("k8gb-release")

\* As long as every change finds the last one settled, whatever is endangered is
\* covered: the function returns each Usage together with the two resources it
\* is about, so none of the three can be there without the others when it counts.
\* This is the inductive strengthening of OrderKept.
UsagesInTime ==
    /\ BaseStays
    /\ ~hasty => /\ AllCovered
                 /\ K8gbAsAsked
                 /\ xr = "gone" => phase = "idle"

Target == IF xr = "live" THEN Wanted ELSE {}

\* k8gb is on, its address is gone, and so the role assignment is not returned
\* any more (RoleEmitted); but the Usage that protects the role, once deleted,
\* waits for a k8gb Release that is not going to go.
Wedged ==
    /\ xr = "live" /\ "k8gb-release" \in Wanted
    /\ \E u \in active : /\ res[u] = "deleting" /\ UsageBy(u) = "k8gb-release"
                         /\ UsageOf(u) = "k8gb-ip-role" /\ Exists("k8gb-ip-role")
    /\ ~RoleEmitted([present |-> Present, up |-> up])

\* The next pass or the next sweep deletes something, creates something or, as
\* Usages and deletions are carried through, there is something to carry through.
CanGoOn ==
    LET undesired == {n \in Scope : res[n] = "present"} \ Target
    IN  \/ \E n \in undesired : ~Held(n)
        \/ undesired = {} /\ ~(Target \subseteq Present)
        \/ \E n \in Scope \ Usages : res[n] = "deleting"
        \/ \E u \in Usages : res[u] = "deleting" /\ (u \in active => ~Exists(UsageBy(u)))

\* A ControlPlane that is not yet as it is to be can always go on, after any
\* changes, lost reports and half-done reconciles: the Usages protect nothing in
\* a circle, and the deletion each of them waits for is itself asked for and
\* allowed (add_usage_resources).  The one exception is Wedged.
NeverBlocked == phase = "idle" /\ Present # Target => CanGoOn \/ Wedged

\* What makes it so.  A Usage in force is there itself, and what it protects is
\* neither deleted nor being deleted, even if it came into force late.
InForce == \A u \in active : Exists(u) /\ res[UsageOf(u)] = "present"

\* Without the address the ControlPlane is wedged for good, and only a user in a
\* hurry gets there: k8gb was turned on again before it had gone.  One who waits
\* for each change to settle is wedged at most while a report is missing.
WedgedByHaste == Wedged /\ ~Exists("k8gb-ip") => hasty

\* Every change ends with the resources that are asked for and no others.  A
\* deleted ControlPlane goes with all it owns: no deletion is denied for ever,
\* whenever the XR is deleted and with a reconcile still about to write (README
\* "Clean teardown: XR delete cascades").  While the XR lives, the deletes that
\* a Usage denies, each of which ends a reconcile before it applies anything,
\* hold up neither the other deletes nor the new resources for ever, and the
\* repetition of one that came after the user changed his mind is made good.
\* One change does not end: k8gb turned on again while it goes away can leave
\* the ControlPlane wedged, with every reconcile failing at the delete of the
\* role and the address never created again.
ChangeEnds == <>[](Present = Target \/ (Wedged /\ hasty))

\* As README has it, the resource group of a deleted ControlPlane "is fully
\* drained" and its "backup data survives XR deletion".
DrainedAndKept ==
    xr = "gone" /\ "backup-storage-account" \in cloud
        ~> [](cloud = {"backup-storage-account"})
=============================================================================
