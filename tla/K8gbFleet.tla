----------------------------- MODULE K8gbFleet -----------------------------
(***************************************************************************)
(* The ControlPlanes with k8gb as one DNS fleet.  Each tells its k8gb a geo *)
(* tag and the tags of its peers, read from the specs of all ControlPlanes *)
(* when its own reconcile comes round, and publishes in its status the NS  *)
(* name of its CoreDNS and, once the pinned address answers, the glue for  *)
(* the parent zone.  Nothing tells a ControlPlane that a peer has changed. *)
(*                                                                         *)
(* A reconcile reads everything, runs the function, deletes what was not   *)
(* returned, applies what was, and patches the status last.  The deletion  *)
(* of the address is denied by a Usage until the k8gb Release is gone, and *)
(* a denied deletion ends the reconcile before the status: k8gb that is    *)
(* being uninstalled still advertises its glue.  The Usages may repeat a   *)
(* denied deletion later, when k8gb is wanted again; the address goes then *)
(* and the ControlPlane can be wedged (Teardown's Wedged): its reconciles  *)
(* all end at the delete of the role assignment, which is not returned     *)
(* without an address (fn.py:199) and which the Release protects.          *)
(*                                                                         *)
(* Simplifications.  A resource group, a region and an id belong to one    *)
(* ControlPlane for good.  The role assignment, the Usages and the order   *)
(* of the deletes are Teardown's: here they end a reconcile, once or, when *)
(* wedged, always.  A deleted XR loses its composed resources in one step. *)
(* An endpoint is "pinned" when it is the address of the PublicIP, which   *)
(* Azure does not delete while it is in use.                               *)
(***************************************************************************)
EXTENDS Naturals, FiniteSets

CONSTANTS
    Ctps,
    Id, Location,   \* of each ControlPlane
    Zones,          \* the values of k8gb.dnsZone
    Overrides,      \* the values of k8gb.clusterGeoTag, NoTag among them
    NoTag,
    Start,          \* the settings the ControlPlanes may start with
    Choices,        \* and those a user may give them
    MaxChanges      \* what users, Azure and faults may do, all together

Settings == [zone : Zones, tag : Overrides]
None     == [none |-> TRUE]

ASSUME FleetAssumption ==
    /\ NoTag \in Overrides
    /\ Start \subseteq Settings /\ Choices \subseteq Settings
    /\ MaxChanges \in Nat

VARIABLES
    life,       \* "absent", "live", or "terminating" (deletionTimestamp set)
    k8gb,       \* spec.parameters.k8gb: None unless enabled
    values,     \* the values of the k8gb Release; None when it is gone or going
    chart,      \* the values k8gb runs with in the child cluster, or None
    deployed,   \* the Release reports "deployed"
    lb,         \* the endpoint of the CoreDNS Service
    addr,       \* the PublicIP: "none", "there", or being deleted: "going" by a
                \* reconcile, "replayed" by a Usage
    wedged,     \* the delete of the role assignment is denied for as long as k8gb is on
    status,     \* status.controlplane.k8gb
    pc, plan,   \* the reconcile, and what the function returned to it
    changes

address == <<addr, wedged>>
child   == <<chart, deployed, lb, address>>
pass    == <<pc, plan>>
vars    == <<life, k8gb, values, child, status, pass, changes>>

\* derive_k8gb_geo_tag
GeoTag(c, p) == IF p.tag # NoTag THEN p.tag ELSE <<"azure", Location[c], Id[c]>>

AllTags   == (Overrides \ {NoTag}) \cup {<<"azure", Location[c], Id[c]>> : c \in Ctps}
Values    == [zone : Zones, tag : AllTags, ext : SUBSET AllTags]
Status    == [zone : Zones, tag : AllTags, endpoint : {"none", "pinned", "other"},
              glue : BOOLEAN]

TypeOK ==
    /\ life \in [Ctps -> {"absent", "live", "terminating"}]
    /\ k8gb \in [Ctps -> Settings \cup {None}]
    /\ values \in [Ctps -> Values \cup {None}]
    /\ chart \in [Ctps -> Values \cup {None}]
    /\ deployed \in [Ctps -> BOOLEAN]
    /\ lb \in [Ctps -> {"none", "pinned", "other"}]
    /\ addr \in [Ctps -> {"none", "there", "going", "replayed"}]
    /\ wedged \in [Ctps -> BOOLEAN]
    /\ status \in [Ctps -> Status \cup {None}]
    /\ pc \in [Ctps -> {"idle", "planned", "applied"}]
    /\ plan \in [Ctps -> [values : Values \cup {None}, status : Status \cup {None}]]
    /\ changes \in 0 .. MaxChanges

-----------------------------------------------------------------------------
(* The function *)

\* Mutant of ExtGeoTags: the zone of the peer is not looked at.
AnyZoneTags(c, p) ==
    {GeoTag(d, k8gb[d]) :
        d \in {e \in Ctps : life[e] # "absent" /\ Id[e] # Id[c] /\ k8gb[e] # None}}
    \ {GeoTag(c, p)}

\* derive_k8gb_ext_geo_tags: a peer counts until it is gone, also while it is
\* being deleted; one with the same id or the same tag does not.
ExtGeoTags(c, p) ==
    {GeoTag(d, k8gb[d]) :
        d \in {e \in Ctps : /\ life[e] # "absent" /\ Id[e] # Id[c]
                            /\ k8gb[e] # None /\ k8gb[e].zone = p.zone}}
    \ {GeoTag(c, p)}

\* Mutant of Glue: any endpoint will do.
UnpinnedGlue(c) == deployed[c] /\ lb[c] # "none"

\* glueAddresses and delegationRecord are there, both or neither.
Glue(c) == deployed[c] /\ lb[c] = "pinned"

K8gbStatus(c, p) ==
    [zone |-> p.zone, tag |-> GeoTag(c, p), endpoint |-> lb[c], glue |-> Glue(c)]

ReleaseValues(c, p) ==
    [zone |-> p.zone, tag |-> GeoTag(c, p), ext |-> ExtGeoTags(c, p)]

NoPlan == [values |-> None, status |-> None]
Composed(c) ==
    IF k8gb[c] = None THEN NoPlan
    ELSE [values |-> ReleaseValues(c, k8gb[c]), status |-> K8gbStatus(c, k8gb[c])]

-----------------------------------------------------------------------------
(* The reconcile of one ControlPlane *)

\* The reconciles of a wedged ControlPlane change nothing and are left out.
Compose(c) ==
    /\ life[c] = "live" /\ pc[c] = "idle"
    /\ wedged[c] => k8gb[c] = None
    /\ pc' = [pc EXCEPT ![c] = "planned"]
    /\ plan' = [plan EXCEPT ![c] = Composed(c)]
    /\ UNCHANGED <<life, k8gb, values, child, status, changes>>

EndPass(c) == pc' = [pc EXCEPT ![c] = "idle"] /\ plan' = [plan EXCEPT ![c] = NoPlan]

Installed(c) == chart[c] # None \/ lb[c] # "none"

\* k8gb is not wanted and something of it is left: the Release is deleted, the
\* deletion of the address is denied and the reconcile is over.  Without a Release
\* nothing protects the role any more.
Denied(c) ==
    /\ pc[c] = "planned" /\ plan[c].values = None
    /\ values[c] # None \/ Installed(c)
    /\ values' = [values EXCEPT ![c] = None]
    /\ wedged' = [wedged EXCEPT ![c] = wedged[c] /\ Installed(c)]
    /\ EndPass(c)
    /\ UNCHANGED <<life, k8gb, chart, deployed, lb, addr, status, changes>>

\* The address after all deletes have succeeded and what was returned is applied.
AddressAfter(c) ==
    CASE plan[c].values = None /\ addr[c] # "none" -> "going"
      [] plan[c].values # None /\ addr[c] = "none" -> "there"
      [] OTHER -> addr[c]

\* All deletes succeed.  What is being deleted is only patched.
Apply(c) ==
    /\ pc[c] = "planned"
    /\ plan[c].values = None => values[c] = None /\ ~Installed(c)
    /\ values' = IF values[c] = None /\ Installed(c) THEN values
                 ELSE [values EXCEPT ![c] = plan[c].values]
    /\ addr' = [addr EXCEPT ![c] = AddressAfter(c)]
    /\ wedged' = [wedged EXCEPT ![c] = FALSE]
    /\ pc' = [pc EXCEPT ![c] = "applied"]
    /\ plan' = [plan EXCEPT ![c].values = None]
    /\ UNCHANGED <<life, k8gb, chart, deployed, lb, status, changes>>

PatchStatus(c) ==
    /\ pc[c] = "applied"
    /\ status' = [status EXCEPT ![c] = plan[c].status]
    /\ EndPass(c)
    /\ UNCHANGED <<life, k8gb, values, child, changes>>

-----------------------------------------------------------------------------
(* The child cluster and Azure *)

\* The cloud provider gives the CoreDNS Service its endpoint.
Attach(c) ==
    /\ values[c] # None /\ lb[c] = "none" /\ addr[c] # "none"
    /\ lb' = [lb EXCEPT ![c] = "pinned"]
    /\ UNCHANGED <<life, k8gb, values, chart, deployed, address, status, pass, changes>>

\* Helm installs or upgrades the chart, and waits for the LoadBalancer.
Upgrade(c) ==
    /\ values[c] # None /\ lb[c] # "none"
    /\ chart[c] # values[c] \/ ~deployed[c]
    /\ chart' = [chart EXCEPT ![c] = values[c]]
    /\ deployed' = [deployed EXCEPT ![c] = TRUE]
    /\ UNCHANGED <<life, k8gb, values, lb, address, status, pass, changes>>

Uninstall(c) ==
    /\ values[c] = None /\ Installed(c)
    /\ chart' = [chart EXCEPT ![c] = None]
    /\ deployed' = [deployed EXCEPT ![c] = FALSE]
    /\ lb' = [lb EXCEPT ![c] = "none"]
    /\ wedged' = [wedged EXCEPT ![c] = FALSE]
    /\ UNCHANGED <<life, k8gb, values, addr, status, pass, changes>>

\* The Release is gone, its Usages go, and one of them repeats the denied deletion
\* of the address, whatever is wanted by now.
Replay(c) ==
    /\ values[c] = None /\ ~Installed(c) /\ addr[c] = "there"
    /\ addr' = [addr EXCEPT ![c] = "replayed"]
    /\ UNCHANGED <<life, k8gb, values, chart, deployed, lb, wedged, status, pass, changes>>

\* The deletion of the address ends.  If the Release has been put back meanwhile,
\* the Usage of the role may still have been there to see it, and stays.
AddressGone(c) ==
    /\ addr[c] \in {"going", "replayed"} /\ lb[c] # "pinned"
    /\ addr' = [addr EXCEPT ![c] = "none"]
    /\ \E w \in BOOLEAN :
         /\ w => addr[c] = "replayed" /\ values[c] # None
         /\ wedged' = [wedged EXCEPT ![c] = w]
    /\ UNCHANGED <<life, k8gb, values, chart, deployed, lb, status, pass, changes>>

-----------------------------------------------------------------------------
(* Users and faults *)

Change == changes < MaxChanges /\ changes' = changes + 1

Configure(c) ==
    /\ Change /\ life[c] = "live"
    /\ \E p \in (Choices \cup {None}) \ {k8gb[c]} : k8gb' = [k8gb EXCEPT ![c] = p]
    /\ UNCHANGED <<life, values, child, status, pass>>

Create(c) ==
    /\ Change /\ life[c] = "absent"
    /\ life' = [life EXCEPT ![c] = "live"]
    /\ \E p \in Choices : k8gb' = [k8gb EXCEPT ![c] = p]
    /\ UNCHANGED <<values, child, status, pass>>

Delete(c) ==
    /\ Change /\ life[c] = "live"
    /\ life' = [life EXCEPT ![c] = "terminating"]
    /\ UNCHANGED <<k8gb, values, child, status, pass>>

Gone(c) ==
    /\ life[c] = "terminating" /\ pc[c] = "idle"
    /\ life' = [life EXCEPT ![c] = "absent"]
    /\ k8gb' = [k8gb EXCEPT ![c] = None]
    /\ values' = [values EXCEPT ![c] = None]
    /\ chart' = [chart EXCEPT ![c] = None]
    /\ status' = [status EXCEPT ![c] = None]
    /\ deployed' = [deployed EXCEPT ![c] = FALSE]
    /\ lb' = [lb EXCEPT ![c] = "none"]
    /\ addr' = [addr EXCEPT ![c] = "none"]
    /\ wedged' = [wedged EXCEPT ![c] = FALSE]
    /\ UNCHANGED <<pass, changes>>

\* The LoadBalancer is recreated, or comes up with an address of its own (a
\* Service of a release that did not pin it).
Reattach(c) ==
    /\ Change /\ values[c] # None
    /\ \E e \in {"none", "other"} \ {lb[c]} : lb' = [lb EXCEPT ![c] = e]
    /\ UNCHANGED <<life, k8gb, values, chart, deployed, address, status, pass>>

\* A Helm upgrade fails.
Fail(c) ==
    /\ Change /\ deployed[c]
    /\ deployed' = [deployed EXCEPT ![c] = FALSE]
    /\ UNCHANGED <<life, k8gb, values, chart, lb, address, status, pass>>

\* A write is refused or Crossplane restarts.
Abort(c) ==
    /\ Change /\ pc[c] # "idle"
    /\ EndPass(c)
    /\ UNCHANGED <<life, k8gb, values, child, status>>

-----------------------------------------------------------------------------
\* A fleet that has settled: every ControlPlane runs k8gb, knows its peers and
\* publishes its glue.  Create is how it came about.
Init ==
    /\ life = [c \in Ctps |-> "live"]
    /\ k8gb \in [Ctps -> Start]
    /\ values = [c \in Ctps |-> ReleaseValues(c, k8gb[c])]
    /\ chart = values
    /\ deployed = [c \in Ctps |-> TRUE]
    /\ lb = [c \in Ctps |-> "pinned"]
    /\ addr = [c \in Ctps |-> "there"]
    /\ wedged = [c \in Ctps |-> FALSE]
    /\ status = [c \in Ctps |-> K8gbStatus(c, k8gb[c])]
    /\ pc = [c \in Ctps |-> "idle"]
    /\ plan = [c \in Ctps |-> NoPlan]
    /\ changes = 0

Reconcile(c) == Compose(c) \/ Denied(c) \/ Apply(c) \/ PatchStatus(c)
Azure(c)     == Attach(c) \/ Upgrade(c) \/ Uninstall(c) \/ AddressGone(c)
Next ==
    \E c \in Ctps :
        \/ Reconcile(c) \/ Azure(c) \/ Replay(c) \/ Gone(c)
        \/ Configure(c) \/ Create(c) \/ Delete(c)
        \/ Reattach(c) \/ Fail(c) \/ Abort(c)

Spec == Init /\ [][Next]_vars

\* Crossplane requeues each ControlPlane for ever, deletions are carried
\* through, and the providers keep trying.  A Usage need not repeat a deletion:
\* that is a goroutine which dies with its process.
Fairness == \A c \in Ctps : WF_vars(Reconcile(c)) /\ WF_vars(Azure(c)) /\ WF_vars(Gone(c))
FairSpec == Spec /\ Fairness

-----------------------------------------------------------------------------
(* Properties *)

Running(c) == life[c] = "live" /\ k8gb[c] # None
Tag(c)     == GeoTag(c, k8gb[c])
Peers(c)   ==
    {d \in Ctps \ {c} : /\ Running(d) /\ k8gb[d].zone = k8gb[c].zone
                        /\ Id[d] # Id[c] /\ Tag(d) # Tag(c)}

Answers(c)   == chart[c] # None /\ deployed[c] /\ lb[c] = "pinned"
Published(c) == status[c] # None /\ status[c].glue

PeersRight ==
    \A c \in Ctps : Running(c) /\ ~wedged[c] =>
        /\ chart[c] # None
        /\ chart[c].tag = Tag(c)
        /\ chart[c].ext = {Tag(d) : d \in Peers(c)}
GlueRight ==
    \A c \in Ctps : ~wedged[c] =>
        /\ Published(c) <=> Running(c) /\ Answers(c)
        /\ Published(c) => status[c].tag = chart[c].tag /\ status[c].zone = chart[c].zone

\* However the users add, remove, retag and move the members, and whichever
\* reconcile sees which of it, in the end every k8gb runs with its own tag and
\* the tags of exactly the members of its zone, none of one that has gone or
\* moved away (README "k8gb peers on the same dnsZone get each other's geo
\* tags").  A member with the id or the tag of another stays unknown to it.  Not
\* so a member wedged by turning k8gb off and soon on again: no reconcile of it
\* gets to its Release any more (fn.py:199), so it never hears of its peers; they
\* do hear of it.
PeersKnown == <>[]PeersRight

\* In the end the parent zone is offered the glue of exactly those members whose
\* k8gb is up behind the pinned address, under the NS name k8gb itself uses:
\* glue that no longer answers is withdrawn, also when k8gb was turned off and
\* the reconciles that did it never got to the status, and an address that
\* comes back is published again (status.py:133, "This is the contract FleetGslb
\* consumes").  README has it that glue does not depend on the endpoint, see
\* GlueStable.  A wedged member keeps whatever it said last.
GlueAnswers == <>[]GlueRight

\* README: "glueAddresses must stay stable across LB recreates", and is "populated
\* straight from the pinned PublicIP's status.atProvider.ipAddress, not from the
\* observed Service endpoint": once published, glue stays as long as the settings
\* and the address it is made of do and k8gb is deployed.
GlueStable ==
    [][\A c \in Ctps :
         /\ Published(c) /\ Running(c)
         /\ life'[c] = "live" /\ k8gb'[c] = k8gb[c]
         /\ deployed'[c] /\ addr'[c] = "there"
         => Published(c)']_vars

\* Another reconcile of c would write what is there, and neither Helm nor the
\* cloud provider has anything left to do.  A wedged member counts only if it
\* happens to have what it should.
AtRest(c) ==
    /\ life[c] # "terminating" /\ pc[c] = "idle"
    /\ life[c] = "live" => Composed(c) = [values |-> values[c], status |-> status[c]]
    /\ IF values[c] = None THEN ~Installed(c)
       ELSE chart[c] = values[c] /\ deployed[c] /\ lb[c] # "none"

\* There is no wrong state to come to rest in: where every member is at rest,
\* whatever changes, faults and half-done reconciles led there, peers and glue
\* are right.  No member keeps a tag or a record that only one more change
\* would correct, though each decides from the specs of the others and its own
\* child cluster alone (derive_k8gb_ext_geo_tags, update_status).
RestIsRight == (\A c \in Ctps : AtRest(c)) => PeersRight /\ GlueRight

\* What of a ControlPlane outlives it: nothing.
AbsentBlank ==
    \A c \in Ctps : life[c] = "absent" =>
        /\ k8gb[c] = None /\ values[c] = None /\ status[c] = None
        /\ ~Installed(c) /\ pc[c] = "idle"
        /\ addr[c] = "none" /\ ~wedged[c]

\* The inductive invariant behind RestIsRight: a member that comes back starts
\* from nothing, so what the others see of it is what it says now.
IInv == TypeOK /\ AbsentBlank
=============================================================================
