------------------------------ MODULE Pipeline ------------------------------
(***************************************************************************)
(* The provisioning pipeline: what a run of provision.yaml does to the     *)
(* control planes declared under controlplanes/.  Its cluster (KIND) and   *)
(* the Crossplane in it live as long as the run; what they know is lost    *)
(* with them, and only Azure remembers.  One pass adopts or creates the    *)
(* Provision and ObserveOnly control planes and lets go of them again, the *)
(* other adopts the Deprovision ones, deletes them, and polls until the    *)
(* managed resources have left the cluster.                                *)
(*                                                                         *)
(* Simplifications.  A file stands for its parameters.id; a commit gives   *)
(* each file a mode, "none" when there is no file or no mode in it.  Of a  *)
(* control plane three resources are kept: "network" for its resource      *)
(* group, the cluster in it, and the storage account of the backups, which *)
(* is in it too and has policies of its own (Composition).  In what order  *)
(* they are deleted is Teardown's; here it is any.  A pass of `up test`    *)
(* destroys its cluster before the next one starts; when it fails, for     *)
(* whatever reason, the run is over.  A poll may report nothing while      *)
(* something is left, but not twice running, and a provider keeps a        *)
(* managed resource with Delete until Azure is rid of its own: that is     *)
(* what the loop takes for granted.                                        *)
(***************************************************************************)
EXTENDS Composition, Naturals

CONSTANTS
    Files,      \* the files under controlplanes/
    Templates,  \* those named *.tmpl.yaml
    Commits,    \* what the user may commit: [Files -> Modes \cup {"none"}]
    MaxPolls,   \* 30
    MaxRuns

Parts == {"network", "aks", "backup-storage-account"}

ASSUME PipelineAssumption ==
    /\ Templates \subseteq Files
    /\ Commits \subseteq [Files -> Modes \cup {"none"}]
    /\ MaxPolls \in Nat \ {0}
    /\ MaxRuns \in Nat

VARIABLES
    queue,      \* the commit of the dispatch that waits, or NoCommit
    commit,     \* the commit of the run, or NoCommit
    step,       \* of the run
    mr,         \* the managed resources in the cluster of the run
    azure,      \* the resources that exist
    going,      \* those Azure is deleting
    zeros, polls, misread,  \* of the poll loop
    result,     \* of the last run
    runs

NoCommit == [f \in Files |-> "no commit"]
loopVars == <<zeros, polls, misread>>
vars     == <<queue, commit, step, mr, azure, going, loopVars, result, runs>>

All   == Files \X Parts
NoMRs == [r \in All |-> "absent"]

TypeOK ==
    /\ queue \in Commits \cup {NoCommit}
    /\ commit \in Commits \cup {NoCommit}
    /\ step \in {"idle", "reconcile", "orphan", "decommission", "poll"}
    /\ mr \in [All -> {"absent", "live", "deleting"}]
    /\ azure \in SUBSET All
    /\ going \in SUBSET azure
    /\ zeros \in 0 .. 2
    /\ polls \in 0 .. MaxPolls
    /\ misread \in BOOLEAN
    /\ result \in {"none", "green", "red"}
    /\ runs \in 0 .. MaxRuns

-----------------------------------------------------------------------------
(* Which files a pass is about *)

\* Mutant of Wanted: the reconcile pass takes every mode the other does not.
LaxWanted(pass, mode) ==
    mode # "none" /\ ((mode = "Deprovision") <=> (pass = "decommission"))

Wanted(pass, mode) ==
    IF pass = "decommission" THEN mode = "Deprovision"
    ELSE mode \in {"Provision", "ObserveOnly"}

\* The classify step looks at every *.yaml, the generators skip the templates.
InScope(pass, c)   == \E f \in Files : Wanted(pass, c[f])
Manifests(pass, c) == {f \in Files \ Templates : Wanted(pass, c[f])}

-----------------------------------------------------------------------------
(* The user and the runner *)

\* A dispatch runs the commit it was made at.  One waits for the run under way;
\* a newer one takes its place.
Dispatch ==
    /\ runs < MaxRuns
    /\ runs' = runs + 1
    /\ \E c \in Commits : queue' = c
    /\ UNCHANGED <<commit, step, mr, azure, going, loopVars, result>>

\* The runner is destroyed, with the cluster and the Crossplane in it.
End(r) ==
    /\ commit' = NoCommit /\ step' = "idle" /\ result' = r
    /\ mr' = NoMRs
    /\ zeros' = 0 /\ polls' = 0 /\ misread' = FALSE

Begin ==
    /\ step = "idle" /\ queue # NoCommit
    /\ queue' = NoCommit
    /\ IF InScope("reconcile", queue) THEN commit' = queue /\ step' = "reconcile"
       ELSE IF InScope("decommission", queue) THEN commit' = queue /\ step' = "decommission"
       ELSE UNCHANGED <<commit, step>>
    /\ result' = IF commit' = NoCommit THEN "green" ELSE "none"
    /\ UNCHANGED <<mr, azure, going, loopVars, runs>>

\* A step fails: an empty test set, a control plane that does not become Ready
\* in time, an error of `up test`, no node to poll, a cancelled job.
Fail ==
    /\ step # "idle"
    /\ End("red")
    /\ UNCHANGED <<queue, azure, going, runs>>

-----------------------------------------------------------------------------
(* The test: adopt or create, wait for Ready, delete the XRs *)

Group(r) == <<r[1], "network">>

Tested   == {r \in All : r[1] \in Manifests(step, commit)}
AllLive  == Tested # {} /\ \A r \in Tested : mr[r] = "live"

\* A resource that is not there is created if the policies allow and its group is
\* there; one that Azure is deleting does not become ready.
Adoptable(r) ==
    /\ r \notin going
    /\ r \in azure \/ "Create" \in Policies(r[2], commit[r[1]])
    /\ r # Group(r) => Group(r) \in azure \ going

Adopt(r) ==
    /\ step \in {"reconcile", "decommission"}
    /\ mr[r] = "absent" /\ r \in Tested /\ Adoptable(r)
    /\ mr' = [mr EXCEPT ![r] = "live"]
    /\ azure' = azure \cup {r}
    /\ UNCHANGED <<queue, commit, step, going, loopVars, result, runs>>

\* `up test` deletes the XRs of its control planes once all are Ready.
DeleteXRs ==
    /\ step \in {"reconcile", "decommission"}
    /\ AllLive
    /\ step' = IF step = "reconcile" THEN "orphan" ELSE "poll"
    /\ UNCHANGED <<queue, commit, mr, azure, going, loopVars, result, runs>>

\* The XRs are collected in the background: what they composed comes later.
Collect(r) ==
    /\ step \in {"orphan", "poll"} /\ mr[r] = "live"
    /\ mr' = [mr EXCEPT ![r] = "deleting"]
    /\ UNCHANGED <<queue, commit, step, azure, going, loopVars, result, runs>>

\* What goes when Azure deletes r: a resource group takes all that is in it.
GoesWith(r) == IF r = Group(r) THEN {q \in azure : Group(q) = r} ELSE {r}

\* The provider asks Azure for the deletion if the policies have Delete, and lets
\* go of its resource when it is gone.  Without Delete it lets go at once.
DeleteInAzure(r) ==
    /\ mr[r] = "deleting" /\ "Delete" \in Policies(r[2], commit[r[1]])
    /\ r \in azure \ going
    /\ going' = going \cup GoesWith(r)
    /\ UNCHANGED <<queue, commit, step, mr, azure, loopVars, result, runs>>

LetGo(r) ==
    /\ mr[r] = "deleting"
    /\ "Delete" \in Policies(r[2], commit[r[1]]) => r \notin azure
    /\ mr' = [mr EXCEPT ![r] = "absent"]
    /\ UNCHANGED <<queue, commit, step, azure, going, loopVars, result, runs>>

\* What Azure has begun it ends, with or without the runner, the group last.
AzureDeletes(r) ==
    /\ r \in going /\ GoesWith(r) = {r}
    /\ azure' = azure \ {r} /\ going' = going \ {r}
    /\ UNCHANGED <<queue, commit, step, mr, loopVars, result, runs>>

\* The cleanup of the first pass ends, done or timed out, and its cluster goes.
NextPass ==
    /\ step = "orphan"
    /\ IF InScope("decommission", commit)
       THEN /\ step' = "decommission" /\ mr' = NoMRs
            /\ UNCHANGED <<commit, loopVars, result>>
       ELSE End("green")
    /\ UNCHANGED <<queue, azure, going, runs>>

-----------------------------------------------------------------------------
(* The poll loop *)

\* Mutants: a poll without an answer leaves the count of empty ones as it is,
\* or starts the loop again.
KeptZeros(z, answer) == CASE answer = "none" -> z [] answer = "empty" -> z + 1 [] OTHER -> 0
FreshPolls(n, answer) == IF answer = "none" THEN 0 ELSE n + 1

Drained(z)           == z >= 2
NextZeros(z, answer) == IF answer = "empty" THEN z + 1 ELSE 0
NextPolls(n, answer) == n + 1

Left == {r \in All : mr[r] # "absent"}

\* What `kubectl get managed` may answer: nothing at all, or what is left, or
\* an empty list although something is.
Poll(answer) ==
    /\ step = "poll" /\ polls < MaxPolls /\ ~Drained(zeros)
    /\ answer = "some"  => Left # {}
    /\ answer = "empty" => Left = {} \/ ~misread
    /\ misread' = (answer = "empty" /\ Left # {})
    /\ zeros' = NextZeros(zeros, answer)
    /\ polls' = NextPolls(polls, answer)
    /\ UNCHANGED <<queue, commit, step, mr, azure, going, result, runs>>

Verdict ==
    /\ step = "poll"
    /\ polls = MaxPolls \/ Drained(zeros)
    /\ End(IF Drained(zeros) THEN "green" ELSE "red")
    /\ UNCHANGED <<queue, azure, going, runs>>

-----------------------------------------------------------------------------
Init ==
    /\ queue = NoCommit /\ commit = NoCommit
    /\ step = "idle"
    /\ mr = NoMRs
    /\ azure = {} /\ going = {}
    /\ zeros = 0 /\ polls = 0 /\ misread = FALSE
    /\ result = "none"
    /\ runs = 0

Loop       == \E answer \in {"none", "some", "empty"} : Poll(answer)
Job        == Begin \/ DeleteXRs \/ NextPass \/ Loop \/ Verdict
Crossplane == \E r \in All : Adopt(r) \/ Collect(r) \/ DeleteInAzure(r) \/ LetGo(r)

Next ==
    \/ Dispatch \/ Fail \/ Job \/ Crossplane
    \/ \E r \in All : AzureDeletes(r)

Spec == Init /\ [][Next]_vars

\* The runner goes on with its steps and gives up a test that does not get its
\* control planes Ready.  Nothing is asked of Crossplane and Azure, which may
\* refuse to delete a group that is not empty for ever.
TimeOut  == step \in {"reconcile", "decommission"} /\ ~AllLive /\ Fail
Fairness == WF_vars(Job \/ TimeOut)
FairSpec == Spec /\ Fairness

-----------------------------------------------------------------------------
(* Properties *)

\* Whatever is dispatched, in whatever order, over what earlier runs left behind
\* when they ended or broke off, Azure is asked to delete nothing but resources
\* of control planes that the commit of the run declares Deprovision, and their
\* backups only together with the resource group they are in (provision.yaml
\* "dynamic provisioning acts only on explicit intent, so a stray file can't
\* trigger a decommission"; backup.py "never include Delete").
OnlyDeprovisioned ==
    [][\A r \in going' \ going :
          /\ commit[r[1]] = "Deprovision"
          /\ r[2] \in Storage => Group(r) \in going' \ going]_vars

\* A green run has done what its commit says: the control planes to provision
\* are there, and of those to decommission nothing is left in Azure, not the
\* group (controlplanes/README.md "want: ResourceGroupNotFound") and, since they
\* are in it, not the backups; while a group that Azure will not delete for what
\* is in it keeps the run from being green.  The count of empty polls is all the
\* loop has to tell the end of the cascade from its beginning, an answer that is
\* missing or one that is wrong (provision.yaml "Require two consecutive empty
\* polls").  The loop cannot see a managed resource that left the cluster ahead of
\* its Azure resource, and asks for a look at Azure for that (provision.yaml
\* "It is not proof"): the model has a provider that does not let that happen.
GreenMeansDone ==
    [][commit # NoCommit /\ commit' = NoCommit /\ result' = "green" =>
        \A f \in Files \ Templates :
            /\ commit[f] = "Provision" => {f} \X Parts \subseteq azure
            /\ commit[f] = "Deprovision" => ({f} \X Parts) \cap azure = {}]_vars

\* Every run comes to an end, so that the one queued behind it starts, also when
\* the cluster never answers a poll or the cascade is stuck.
RunsEnd == []<>(commit = NoCommit)
=============================================================================
