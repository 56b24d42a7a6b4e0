# Formal specification of configuration-azure-ctp

This directory specifies the Azure ControlPlane configuration (`apis/`,
`functions/ctp/`) in TLA+. The modules are checked with TLC on small instances
and the main safety properties are proved with TLAPS for every instance.

## The system

A *ControlPlane* (XR) asks for an AKS cluster with UXP and optional add-ons.
Crossplane reconciles every ControlPlane in a loop of its own: it reads the XR
and its composed resources, calls the composition function `compose()` with
them (and with the list of all ControlPlanes, if the function asked for it),
deletes composed resources the function no longer returns, applies those it
returns, and writes the status. The function is pure and stateless: everything
it remembers, it reads back from the specs and statuses it wrote before. So the
hard behaviour is not in one call but in sequences of calls that each see what
the earlier ones left half done, and in several ControlPlanes that see each
other's statuses while they are being written.

| Component | State | Operations | Hard behaviour | What makes it correct |
| --- | --- | --- | --- | --- |
| License guard (`prelude.py` `check_license_conflict`, `fn.py`, `status.py`) | `spec.parameters.license`, `status.controlplane.license` (the claim), the Secret in the `uxp-license-secret` Object, the `LicenseConflict` condition, of every ControlPlane | decide, claim, install, report | no lock across ControlPlanes; claim and Object are written apart; a reconcile may die in between; timestamps tie or are missing; upgrade from a release without claims | a license is not given away twice except in the documented race; the guard never strips an installed license; all agree on one owner; a conflict surfaces; a free Secret is granted |
| Composition function (`fn.py`, the `add_*` modules) | none of its own; reads composed resources | one call per reconcile | gates across calls (CRDs, ids, readiness), regressions, garbage collection of what is no longer returned, partly applied results | nothing before what it relies on; the loop converges; nothing is left out after a fault |
| Management modes (`fn.py` `_MODE_POLICIES`, orphan loop, `backup.py`, `knative.py`) | the `managementPolicies` of every composed resource | mode switch, deletion | resources keep the policies they were last applied with; some set their own | no verb beyond the modes; Provision and ObserveOnly orphan; storage gets no Delete of its own and goes with its resource group only |
| Usages (`usages.py`) | Usage objects | composed with what they guard, deleted with it | a Usage comes into force later than it is composed; a denied delete ends the reconcile; a deletion is repeated after the user changed his mind | nothing is deleted before what still needs it; every change and every teardown ends |
| k8gb contract (`prelude.py`, `status.py`) | geo tags in the Release, `nsName`, endpoint and glue in the status, of every ControlPlane | computed per call from the peers' specs and from what is observed | peers change without telling anyone; reconciles that end before the status | every k8gb knows exactly its peers in the end; glue is offered exactly for what answers; what a wedged member leaves behind |
| Status aggregation (`status.py`) | counters and conditions | computed per call | observed is not desired | the claim, the conflict and the k8gb contract are covered above; the counters are not modelled |
| Provisioning pipeline (`.github/workflows/provision.yaml`, `tests/provision`) | files, a KIND cluster, what is left in Azure | classify, reconcile, decommission, poll | runs that break off and lose their cluster; polls that fail or mislead; a queue of one | nothing is deleted that is not declared Deprovision; green means done; every run ends |

Crossplane, the providers, the child cluster and Azure are outside the
repository. They are modelled by what the function relies on, and marked
external in `PROJECT.json`.

## Modules

| Module | Models |
| --- | --- |
| `LicenseRegistry` | what the license guard promises, without saying how: the abstract specification |
| `LicenseClaims` | the license guard and the interleaved reconciles of several ControlPlanes |
| `MCLicenseClaims` | its instances for TLC |
| `LicenseClaimsProofs` | its theorems |
| `Composition` | `compose()` and its helpers as operators: the names, policies and gate conditions of what one call returns |
| `CompositionProofs` | lemmas about it, for any parameters and observations |
| `ControlPlane` | one ControlPlane over time: edits, calls of `Composition`, garbage collection, providers, deletion, faults |
| `MCControlPlane` | its instances for TLC |
| `ControlPlaneProofs` | its theorems |
| `Teardown` | the composed resources of one ControlPlane going away under the Usages; extends `Composition` |
| `MCTeardown` | its instances for TLC |
| `TeardownProofs` | its theorems |
| `K8gbFleet` | several ControlPlanes with k8gb: peers, geo tags, endpoint and glue |
| `MCK8gbFleet` | its instance for TLC |
| `K8gbFleetProofs` | its theorems |
| `Pipeline` | runs of the provisioning workflow over what they leave in Azure; extends `Composition` |
| `MCPipeline` | its instance for TLC |
| `PipelineProofs` | its theorems |

`LicenseClaims` and `ControlPlane` are composed by an argument of the function:
the guard's verdict. In `ControlPlane` it is free (any verdict in any call),
which includes every verdict that `LicenseClaims` can give. `Teardown` and
`Pipeline` use the same `Composition` as `ControlPlane`: which resources there
are, which Usage comes with which, and which policies a mode gives.

### LicenseClaims

`spec`, `created`, `life` are the XR as the API server has it; `claim` and
`conflict` are what `update_status` writes; `installed` is the Secret in the
`patchesFrom` of the composed `uxp-license-secret`. A reconcile is four actions:
`Observe` (Crossplane's snapshot of the XR and its resources), `Compose` (one
call of the function, with the peers as they are then), and `WriteStatus` and
`ApplyObjects` in either order. Between any two of them any other ControlPlane,
user or fault may act, and `Abort` ends the reconcile with one of the writes
undone. `LicenseConflict`, `Ahead`, `ClaimRank` and `LicenseClaim` are
`check_license_conflict`, its `ahead` loop, `claim_order` and the license branch
of `compose`. Users create, repoint and delete ControlPlanes, and a restore may
reset a creation timestamp.

`raced` is a history variable. `Compose` adds a pair to it when it grants a
Secret while a peer's decision about the same Secret is under way or was left
half written. It is what turns README.md's remark that "two ControlPlanes
reconciled at the same moment can both install the license" into something that
can be checked: nothing *else* may lead there.

`LicenseRegistry` is the same promise as a specification: members decide and
carry out, and a decision never stakes a Secret in which a *settled* member has
a stake. The refinement mapping (`Implements`, at the end of `LicenseClaims`)
reads `members` as the ControlPlanes that are alive, `stakes` as what each of
them has installed, claimed or is about to write, `held` as what it has
installed, and `settled` as those whose decision is neither under way nor left
half written.

### Composition and ControlPlane

Resources are the keys of `rsp.desired.resources`. `Desired(p, o, conflict)` is
what `compose` returns for the parameters `p`, the observations `o` and the
guard's verdict; `Policies` the `managementPolicies` after the orphan loop,
`ManagerArgs` and `Capabilities` the feature flags. A report ("deployed",
`status.aks.oidcUrl`, an Azure resource id, the License's Ready, ...) is an
element of `up`. One operator stands for each `add_*` helper.

`ControlPlane` runs it: `Compose` reads, `Collect` deletes what is no longer
desired, `Apply` replaces the references and applies the rest. `ApplyFails`
(one resource is refused), `Abort` (the reconcile dies) and `Regress` (something
that was ready is not any more) are the faults. `Finalize` removes deleted
resources, and their external counterparts if the policies *last applied*
include Delete, with all that goes with these (`GoesWith`): the resource group of
`network` takes everything in it, the storage account included, the cluster what
runs in it. `Cascade` is the deletion of the XR. `lost`, `everUp`, `modes`,
`restores` and the counters of edits and faults are history variables that only
properties and bounds read. The deletes of a reconcile are one step, and a write
that breaks off has left out one resource or all of them.

### Teardown

`res[n]` is the composed resource ("deleting" once it has a deletionTimestamp),
`active` the Usages in force, `denied` the resources of which a reconcile was
denied the deletion, `cloud` what is in Azure behind the resource group and the
storage account. A reconcile is `Start` (the call of the function) and then
either `Apply`, when all deletes of what was not returned go through, or
`CollectSome`, when the deletes in `D` do and the next one is denied: Crossplane
takes them in the order of a Go map. When the XR is gone the garbage collector
(`Sweep`) does it resource by resource. `Activate` and `Release` are the Usage
controller, with `replayDeletion` in the second disjunct of `Release`. `Finish`
is a provider that is done; deleting the resource group takes all that is in it
(`CloudAfter`). `hasty` records that a user or a fault came before the last
change had settled, the one case in which a Usage may not be there yet.

Usages come into force, and resources go, by the API server, the Usage
controller and the garbage collector of Crossplane and Kubernetes; these actions
are external, modelled as far as `usages.py` relies on them.

### K8gbFleet

`k8gb[c]` is `spec.parameters.k8gb`, `values[c]` the values of the composed
Release, `chart[c]` those k8gb runs with, `lb[c]` the endpoint of the CoreDNS
Service, `status[c]` the `status.controlplane.k8gb`. `GeoTag`, `ExtGeoTags` and
`Glue` are `derive_k8gb_geo_tag`, `derive_k8gb_ext_geo_tags` and the condition
under which `update_status` writes `glueAddresses` and `delegationRecord`.
`addr[c]` is the PublicIP: there, being deleted, or being deleted because a Usage
repeated an older denied deletion. `Compose` reads the specs of all ControlPlanes
at one moment; `Apply` and `PatchStatus` write at later ones; `Denied` is a
reconcile that ends at the Usage of the address, before the status. `Replay` and
`AddressGone` are how `Teardown`'s wedge comes about here: the address goes
although the Release is wanted again, and the Usage of the role may still be
there. No reconcile of a `wedged` member gets to its Release or status any more,
until its user turns k8gb off. Users configure, create and delete members; load
balancers are recreated; upgrades fail; reconciles die.

### Pipeline

`queue` and `commit` are the dispatch that waits and the commit of the run;
`mr` the managed resources in the KIND cluster of the run, `azure` and `going`
what outlives it; `zeros`, `polls` of the poll loop as in the script, `misread`
that its last empty answer was wrong. Of a control plane three resources are kept:
`network`, which stands for its resource group, the cluster, and the storage
account of the backups. `DeleteInAzure` of the group takes what is in it along
(`GoesWith`), and the group is the last to go (`AzureDeletes`). `Wanted`, `InScope` and `Manifests` are the
classify step and the two test generators. `Adopt`, `DeleteXRs` and `NextPass`
are a pass of `up test`, `Poll` and `Verdict` the loop and its end, `Fail` any
step that fails. The policies are those of `Composition`: what a pass deletes is
decided by the mode alone.

## What is checked

Passing runs (all with `tlc -config <run>.cfg <module>`):

| Run | Properties | Bounds, and why they are enough |
| --- | --- | --- |
| `ClaimsPair` | `TypeOK`, `IInv`, `SharedOnlyByRace`, `RestIsJust`, `NeverStripsLive`, `Implements`, `ConflictSurfaces`, `FreeSecretGranted` | 2 ControlPlanes, 2 Secrets, 2 timestamps, 3 user steps, 1 abort: room for two creations, an edit of either (repoint, delete, reset) and a dying reconcile. The proofs of the safety properties are for any number of steps. |
| `ClaimsUpgrade` | `OneOwner`, `UpgradeRestsSettled`, `UpgradeSettles` | 3 ControlPlanes that share one Secret, every mix of missing and equal timestamps, no edits: three ranks are needed to see that two of them agree on the third. Two timestamps that differ are in `ClaimsPair`, any in the proofs. |
| `CtpModes` | `TypeOK`, `NoVerbBeyondModes`, `ProvisionOrphans`, `KeptWhileLive` | all four modes, with none or all of the features that set policies of their own; 2 edits or deletions at any moment. |
| `CtpGates` | `ConflictUninstallsNothing`, `QuietIsSteady`, `GatesRespected`, `Converges` | backup with schedule and restore, k8gb, VPA, or Knative under a license; the reports that decide anything (`Deciding`) in every order; 1 edit to Argo CD or to VPA under a license, or a deletion; 1 fault; 1 verdict of conflict: each gate can open, close once and open again. |
| `Teardown` | `UsagesInTime`, `NeverBlocked`, `OrderKept`, `ChangeEnds` | k8gb with its address, its role, the cluster and their three Usages: the only part of the composition in which a Usage protects what goes while the XR lives. 3 edits, lost reports or crashes, and the deletion: off, on and off again, or a lost report in between. |
| `K8gbFleet` | `RestIsRight`, `PeersKnown`, `GlueAnswers` | 2 ControlPlanes, 2 zones, 1 tag that clashes with a default; 3 changes or faults at any moment, among them a deletion followed by a creation, and k8gb turned off and on again (the wedge) with one more change, of the peer or of the load balancer. |
| `Pipeline` | `OnlyDeprovisioned`, `GreenMeansDone`, `RunsEnd` | a control plane in any mode, next to it one that is decommissioned or not there, or a template instead (`SomeCommits`), 2 dispatches of any two such commits; a ceiling of 4 polls, which leaves room for a wrong empty answer, a missing one and two right ones. The proofs are for any of them. |

What they show, in short. The license guard gives a Secret to a second
ControlPlane only through overlapping or half-written decisions, and a conflict
then shows in one of the statuses; the sorting of claims is total; no verdict
takes a license away. The policies in force never exceed the modes the
ControlPlane has had, so switching through the modes never creates, updates or
deletes more than they say, and a Provision or ObserveOnly control plane is
orphaned whole. A live ControlPlane never loses its backups, its cluster or the
Knative operator to an edit or a fault; its deletion in Full takes them all, the
backups with their resource group. The gates of the function are acyclic and self-healing: whatever
the order of reports and whichever apply failed, the loop ends in the complete
set of resources. The Usages are in force whenever something may be deleted, as
long as users wait for one change to settle before the next; if they do not,
deletions still end, with one exception that `ChangeEnds` names (`Wedged` and
`hasty`): k8gb turned off and on again while it goes. The address is then being
deleted, the role assignment is not returned without the address, its Usage waits
for a k8gb Release that is not going to go, and each reconcile ends at the denied
delete of the role, so that the address is never created again. In a fleet, tags
and glue follow every change in the end, though nobody is told of it, except in a
member that is wedged in this way: it never hears of its peers again and keeps
publishing what it said last. A decommission takes the backups with the resource
group; if Azure refuses to delete the group for what is in it, the run is red. The
pipeline's two empty polls are enough for what it takes for granted: that the
cluster does not answer wrongly twice running, and that a provider keeps a managed
resource with Delete until Azure is rid of its own. The comment at
`provision.yaml:134-136` warns that an empty list "is not proof"; the storage
account is the example, it leaves the cluster at once.

That something happens in the end has two halves: nothing stops short of it, and
what can go on does. The first is a matter of single states, and the runs check
it beside the liveness property: the guard, an upgrade, the loop of calls and the
fleet come to rest (one more reconcile would change nothing) only where they
should (`RestIsJust`, `UpgradeRestsSettled`, `QuietIsSteady`, `RestIsRight`), and a
change under the Usages can always go on (`NeverBlocked`). These halves are
proved for every instance; the second half is what fairness gives.

Each property comes with a *mutant* of the modelled code in the module
(`AgeFirstRank`, `StrippedClaim`, `FixedStorage`, `LateIdentity`, ...; the pairs
are in `PROJECT.json`): a plausible mistake under which the run fails.

### Disagreements between code and documents

Runs that are expected to fail, each with one property taken from a document or
a comment:

- `ClaimsSwap`: two ControlPlanes repointed to each other's Secret stay in
  `LicenseConflict` for ever, although every reference is unique, which README.md
  gives as the way to clear it. Each still holds the Secret the other wants.
- `CtpRestore`: `installFrom` is "applied once at bootstrap", but a UXP release
  that is not "deployed" for one reconcile takes the Restore down and up again.
- `CtpKeep`: an edit that switches to Provision *and* drops a feature deletes
  the feature's external resources: they are collected with the policies of Full.
- `TeardownBackup`: README.md says of the deletion of a ControlPlane that its
  resource group "is fully drained" and that "backup data survives XR deletion".
  The storage account is in that resource group: either it goes with the group,
  or the group stays.
- `K8gbGlue`: README.md has `glueAddresses` "stay stable across LB recreates" and
  come "not from the observed Service endpoint"; `status.py:133` publishes them only
  while the observed endpoint is the pinned address, so a load balancer that is
  recreated takes them away until it is back.

Seen while modelling, without a run:

- The only rollout of the backup controller happens when its ServiceAccount may
  not have its client id yet (`workload_identity.py:144`); nothing rolls it again.
- The `controller-restart` Object owns the Deployment it restarts: collecting it
  in Full, for instance while UXP is not "deployed", deletes the controller.
- Adding a license to a ControlPlane that runs VPA or Knative, or a License whose
  Ready flickers, uninstalls them until it is accepted (`fn.py:177`).
- A `*.tmpl.yaml` file with a mode counts for the classify step of
  `provision.yaml` and not for the test generators, whose empty set then fails.
- The generators' comment says a file "without an explicit managementMode is
  ignored by both passes"; so is one in Full, whose XR the pass would destroy.

### Fairness

Users and faults are never fair: nothing has to be edited and nothing has to
fail, and both are bounded (`MaxEdits`, `MaxAborts`, `MaxFaults`, `MaxConflicts`,
`MaxChanges`, `MaxRuns`), after which the system is left to itself.

- `LicenseClaims`: the next step of each ControlPlane's reconcile, or of its
  deletion, is taken in the end (Crossplane requeues an XR on errors, on changes
  and on its poll interval).
- `ControlPlane`: also, what can become ready does (providers retry until then)
  and the garbage collector does its work.
- `Teardown`: the same, and strong fairness of `CollectSome` with all deletes
  that are allowed. The undesired resources come from a Go map, whose order
  changes from call to call, so that no allowed delete is for ever behind the
  denied one; each denied delete disables and enables the step again, hence SF.
  A resource group that is not empty need not ever go (`Drains`).
- `K8gbFleet`: each ControlPlane's reconcile, its cluster and its deletion. Not
  the repeated deletion (`Replay`): a goroutine of the Usage controller that dies
  with its process.
- `Pipeline`: the runner goes on with its steps, and a test whose control planes do
  not become Ready runs into its timeout (`TimeOut`; `timeoutSeconds` in the
  generators). Nothing is asked of Crossplane and Azure.

The safety runs use `Spec`, or hold without the fairness of `FairSpec`. Deadlock
is not checked: a management cluster without ControlPlanes may stay as it is
once the changes are used up, and so may a ControlPlane that is gone and a
pipeline without a dispatch.

## What is proved

`LicenseClaimsProofs`, from `ConstAssumption` only (any set of ControlPlanes and
Secrets, any finite bounds on edits and aborts, identities that are pairwise
different):

- `TypeCorrect`, `OneOwnerHolds`. The core is that `Precedes` is a strict total
  order on the guard's entries (`PrecedesTotal`, `PrecedesTransitive`), which
  takes `Ident` to be injective, and that every non-empty set of entries has a
  least one (`LeastEntry`): it takes the least in each component of the rank in
  turn, so it also holds for infinitely many ControlPlanes.
- `InductiveInvariant`, `SharedOnlyByRaceHolds`, `NeverStripsLiveHolds`.
  `SharedOnlyByRace` is not inductive: what a ControlPlane *will* install is
  already settled by its claim and its plan. `IInv` therefore speaks of the
  *stake* (installed, claimed, and about to be written): stakes of two live
  ControlPlanes only intersect if the two raced (`StakesApart`). It needs
  `ViewCurrent` and `PlanFromView`, that nobody else writes a ControlPlane's claim
  and resources during its reconcile, so that the license kept on conflict is
  the one installed, and `AbsentBlank`, that a new ControlPlane starts without a
  stake. The interesting step is `Compose` (`ComposeApart`): a Secret granted
  without a conflict is in no peer's claim, and so in no *settled* peer's stake.
  The writes only shrink stakes (`StakesShrink`).

- `RestIsJustHolds`, from the types alone: the history leaves nothing behind that
  a state at rest does not show. At rest the claim is what is installed, and an
  owner named by the guard is alive and claims the Secret or asks for it
  (`VerdictHolds`); if it only asks for it, it is told of no conflict itself
  (`OwnerUndisputed`) and so has it installed. Two that share a license cannot
  both be granted it (`NotBothGranted`): the order decides between them.
- `UpgradeRestsSettledHolds`, `UpgradeKeepsLicenses`, for `UpgradeSpec`: the
  invariant holds from a fleet without claims too, because there everybody counts
  as having raced with everybody (`UpgradeInitIInv`); until the first edit everyone
  has what it asks for (`Unedited`), so at rest the guard's order among the sharers
  is that of their ages (`OrderByAge`).

`ControlPlaneProofs`, from `ParamAssumption` only (any parameters, verdicts,
reports and bounds):

- `TypeCorrect`: `compose` returns only known resources, and so on.
- `NoVerbBeyondModesHolds`, `ProvisionOrphansHolds`, `KeptWhileLiveHolds`, from
  `InductiveInvariant`: the policies in force and those of the plan about to be
  applied (`PoliciesInForce`) stay within the modes so far, and a finalization
  takes only what they allow and what goes with that. A live ControlPlane keeps its
  backups because they have no Delete and the resource group they are in is in
  every plan (`BasePlanned`), so that it is never among what is collected.
- `GatesRespectedHolds`: when a plan is made, what its gates wait for is in `up`
  and so in `everUp`, which only grows; that it still is at the time of the write
  is the invariant, over older parameters and reports than those of the write. It
  speaks of what `compose()` holds back (`Gate`). The backup configuration, RBAC
  and schedule are not (`backup.py:4-6`: they "stay pending until UXP installs the
  BackupConfig CRD"), nor is the license.
- `ConflictUninstallsNothingHolds`: without edits and faults `up` only grows, and
  `Desired` grows with it (`DesiredMonotone`) whatever the verdict, because a
  ControlPlane that has its license Secret keeps it (`LicenseTogether`).

- `QuietIsSteadyHolds`: a ControlPlane at rest is complete. `EveryGateOpens`
  follows the gates in the order in which they open (the issuer of the cluster,
  the Releases, the license, the paid features and Knative Serving, the ids for
  the roles): what the function returns exists, what exists and can report has
  done so, so the next gate is open. `DecidingDecide` says that the reports that
  decide are indeed all the function looks at: with them in, it returns what it
  returns for everything. Only `TypeOK` is needed of the history: no edit, fault or
  abort can leave anything behind that a state at rest would not show.

`ImplementsRegistry` (in `LicenseClaimsProofs`) shows that `LicenseClaims`
implements `LicenseRegistry`, for all its constants: creations and deletions are
`Join` and `Leave`, `Compose` is `Decide`, the writes are `CarryOut`, and the
rest are stuttering steps. It uses `IInv`: a granted Secret is free because a
settled member's stake is its claim, which the guard reads.

`TeardownProofs`, from `TeardownAssumption` only: any part of the composition
that contains a Usage exactly if it contains both ends of it, so also the whole;
any features, reports and number of changes:

- `UsagesInTimeHolds`. The property is inductive as it stands. Its core is
  `AllCovered`: what may be deleted is covered by a Usage in force against what
  needs it. A user's change that finds everything settled leaves everything
  covered (`SettledCovers`), because the function returns a Usage together with
  the two resources it is about (`GuardedTogether`, over all fifteen). `BaseStays`
  and `K8gbAsAsked` say what a reconcile under way may still create or delete, and
  that a repeated deletion never meets a resource that is asked for again.
- `OrderKeptHolds`, from it: each step that deletes is one that a Usage forbids.

- `InForceHolds`: whatever the users do, a Usage in force exists and what it
  protects is neither deleted nor being deleted. `NeverBlockedHolds` uses it. A
  change that could not go on would leave only resources that a Usage denies and
  Usages that wait. A Usage waits for a resource that is not itself protected,
  except that the network waits for the cluster (`NoChain`), so what it waits for
  can be deleted if it is undesired; and a Usage that is not returned although
  what it waits for is, is the one of the role (`UsageAsked`, over all fifteen),
  which is `Wedged`.
- `WedgedByHasteHolds`, from `UsagesInTime`: the wedge that does not pass, the one
  without the address, is met only by a user who did not wait. While every change
  finds the last one settled, the role is never there without its address
  (`RoleWithAddress`): k8gb is turned on again only when the role is gone, and
  neither collected nor deleted again while it is on.

`K8gbFleetProofs`, from `FleetAssumption` only: any members, which may share ids
and tags, any zones, and any number of changes and faults:

- `TypeCorrect`, and `InductiveInvariant`: who is gone has left nothing behind
  (`AbsentBlank`), which makes a reconcile that outlives its XR impossible.
- `RestIsRightHolds`, from it: at rest what a member runs and publishes is what it
  would compute now (`MemberAtRest`), nobody is being deleted any more, and so the
  peers the function finds by the specs are those that run k8gb. `PeersRight` and
  `GlueRight` leave out wedged members, whose peers are still right about them.

`PipelineProofs`, from `PipelineAssumption` only: any files, templates, commits,
number of runs and ceiling:

- `InductiveInvariant`: what is in the cluster belongs to the pass under way
  (`ClusterOfPass`), what has been provisioned stays (`Provisioned`), nothing is in
  Azure without its group or stays when the group goes (`GroupHolds`), what has
  left the cluster in the second pass has left Azure, the storage accounts apart
  (`Leaving`), and of two empty polls the second is right (`EmptyTwice`).
- `OnlyDeprovisionedHolds`, from it, from `WhoDeletes` (only Deprovision gives
  Delete to something, and not to the backups) and from `DeletedOfRun` (backups go
  with their group). `GreenMeansDoneHolds`: the groups have left Azure by `Leaving`
  and took the backups by `GroupHolds`.

Only model-checked: everything under fairness (`ConflictSurfaces`,
`FreeSecretGranted`, `UpgradeSettles`, `Converges`, `ChangeEnds`, `PeersKnown`,
`GlueAnswers`, `RunsEnd`), because TLAPS does not handle liveness under fairness.
Of all but `RunsEnd` the safety half described above is proved; that a run of the
pipeline ends rests on the timeouts of its steps, which only fairness expresses.

## What is not modelled

- The contents of manifests (Helm values, node sizes, host names, tags,
  `last-reconcile-date`): no property depends on them. An add-on is on or off.
- The first call of the function in each reconcile, without the required
  ControlPlanes, whose result Crossplane discards.
- The readiness counters, Ready and `NodePoolVmSizeImmutable`: they report what
  is observed, and no handler of the function reads them back (the end-to-end
  tests wait for the composite's own Ready).
- The managed resources behind the composed Network and AKS XRs: they belong to
  other packages. A Usage of those XRs ends with them, and the Azure resources go
  later.
- cert-manager, VPA, Knative and the backup Objects in the order of a teardown:
  `usages.py` does not guard them.
- `main.py` starts the gRPC server and keeps no state.
- A location to restore from that cannot be parsed (`workload_identity.py:233`): no
  Restore is composed then, without a word.
- Between the deletes of one reconcile of `ControlPlane`, and after some of its
  applies: a write that breaks off is missing one resource or all.
- What other tools do to Azure or to the child cluster behind the providers.

## Plan

Done: the modules above, their runs and their proofs. Left:

1. A larger fleet for `K8gbFleet` (three members, so that two changes of
   different peers overlap in a third), once its states are made fewer.
2. `Teardown` and `ControlPlane` in one module, so that modes and gates meet the
   Usages in one run; now they share only `Composition`.
3. The readiness counters against the desired resources, if something comes to
   depend on them.
