-------------------------- MODULE PipelineProofs --------------------------
(***************************************************************************)
(* Theorems about Pipeline, for any set of files, any commits, any number  *)
(* of runs and any ceiling of the poll loop.                               *)
(***************************************************************************)
EXTENDS Pipeline, TLAPS

LEMMA NothingThere == /\ NoMRs \in [All -> {"absent", "live", "deleting"}]
                      /\ \A r \in All : NoMRs[r] = "absent"
BY DEF NoMRs

LEMMA TypedInit == Init => TypeOK
<1>1. Init => misread \in BOOLEAN
  BY Zenon DEF Init
<1> QED BY <1>1, PipelineAssumption, NothingThere DEF Init, TypeOK, PipelineAssumption

LEMMA TypedEnd ==
    ASSUME TypeOK, UNCHANGED <<queue, azure, going, runs>>, End("red") \/ End("green")
    PROVE  TypeOK'
<1>1. misread' \in BOOLEAN
  BY Zenon DEF End
<1> QED BY <1>1, PipelineAssumption, NothingThere DEF End, TypeOK, PipelineAssumption

(* Every variable keeps its type: two empty answers end the poll loop, and so *)
(* does the ceiling.                                                       *)
THEOREM TypeCorrect == Spec => []TypeOK
<1>1. Init => TypeOK
  BY TypedInit
<1>2. TypeOK /\ [Next]_vars => TypeOK'
  <2> SUFFICES ASSUME TypeOK, [Next]_vars PROVE TypeOK'
    OBVIOUS
  <2> USE PipelineAssumption DEF TypeOK, PipelineAssumption
  <2>1. CASE Dispatch
    BY <2>1 DEF Dispatch, loopVars
  <2>2. CASE Begin
    BY <2>2 DEF Begin, loopVars
  <2>3. CASE Fail
    BY <2>3, TypedEnd DEF Fail
  <2>4. CASE DeleteXRs
    BY <2>4 DEF DeleteXRs, loopVars
  <2>5. CASE NextPass
    BY <2>5, NothingThere, TypedEnd DEF NextPass, loopVars
  <2>6. ASSUME NEW answer \in {"none", "some", "empty"}, Poll(answer) PROVE TypeOK'
    <3>1. zeros' \in 0 .. 2 /\ polls' \in 0 .. MaxPolls
      BY <2>6 DEF Poll, Drained, NextZeros, NextPolls
    <3> QED BY <2>6, <3>1 DEF Poll
  <2>7. CASE Verdict
    BY <2>7, TypedEnd DEF Verdict
  <2>8. ASSUME NEW r \in All, Adopt(r) \/ Collect(r) \/ LetGo(r) PROVE TypeOK'
    BY <2>8 DEF Adopt, Collect, LetGo, loopVars
  <2>9. ASSUME NEW r \in All, DeleteInAzure(r) \/ AzureDeletes(r) PROVE TypeOK'
    BY <2>9 DEF DeleteInAzure, GoesWith, AzureDeletes, loopVars
  <2>10. CASE UNCHANGED vars
    BY <2>10 DEF vars, loopVars
  <2> QED BY <2>1, <2>2, <2>3, <2>4, <2>5, <2>6, <2>7, <2>8, <2>9, <2>10
          DEF Next, Job, Crossplane, Loop
<1> QED BY <1>1, <1>2, PTL DEF Spec

-----------------------------------------------------------------------------
(* The inductive invariant *)

\* The pass that the managed resources in the cluster belong to.
Pass == IF step \in {"reconcile", "orphan"} THEN "reconcile" ELSE "decommission"

\* Nothing is in the cluster that is not of the pass; what is live there is alive
\* in Azure, but that a group may take it while the loop polls; nothing is deleted
\* before the XRs are.
ClusterOfPass ==
    \A r \in All :
        /\ mr[r] # "absent" => step # "idle" /\ r[1] \in Manifests(Pass, commit)
        /\ mr[r] = "live" /\ step # "poll" => r \in azure /\ r \notin going
        /\ mr[r] = "deleting" => step \in {"orphan", "poll"}

\* What is in Azure is in its group, and goes when the group does.
GroupHolds ==
    \A r \in azure : Group(r) \in azure /\ (Group(r) \in going => r \in going)

\* Once the first pass is through, what is to be provisioned is there and stays.
Provisioned ==
    step \in {"orphan", "decommission", "poll"} =>
        \A r \in All : r[1] \notin Templates /\ commit[r[1]] = "Provision"
                          => r \in azure /\ r \notin going

\* While the loop polls, every control plane to decommission has been adopted: a
\* resource that has left the cluster has left Azure, but for the backups, which
\* leave with the group.
Leaving ==
    step = "poll" =>
        \A r \in All : r[1] \in Manifests("decommission", commit)
                         /\ r[2] \notin Storage /\ mr[r] = "absent" => r \notin azure

\* One empty answer may be wrong, two are not.
EmptyTwice ==
    /\ step # "poll" => zeros = 0 /\ misread = FALSE
    /\ zeros = 1 /\ misread = FALSE => Left = {}
    /\ zeros = 2 => Left = {}

RunOfCommit ==
    /\ step = "idle" => commit = NoCommit
    /\ step # "idle" => commit \in Commits

IInv ==
    /\ TypeOK /\ ClusterOfPass /\ GroupHolds /\ Provisioned
    /\ Leaving /\ EmptyTwice /\ RunOfCommit

\* Only Deprovision asks for a deletion, and not for that of the backups.
LEMMA WhoDeletes ==
    ASSUME NEW c \in Commits, NEW pass \in {"reconcile", "decommission"},
           NEW r \in All, r[1] \in Manifests(pass, c)
    PROVE  "Delete" \in Policies(r[2], c[r[1]])
             <=> pass = "decommission" /\ r[2] \notin Storage
<1>1. /\ pass = "reconcile" => c[r[1]] \in {"Provision", "ObserveOnly"}
      /\ pass = "decommission" => c[r[1]] = "Deprovision"
  BY DEF Manifests, Wanted
<1>2. r[2] \in {"network", "aks", "backup-storage-account"}
  BY DEF All, Parts
<1>3. CASE r[2] \in {"network", "aks"}
  BY <1>1, <1>3 DEF Policies, UsageSet, Storage, ModePolicies, Verbs
<1>4. CASE r[2] = "backup-storage-account"
  BY <1>1, <1>4 DEF Policies, UsageSet, Storage, StoragePolicies, Verbs
<1> QED BY <1>2, <1>3, <1>4


\* A resource is in its group, and the group in itself.
LEMMA GroupType ==
    ASSUME NEW r \in All
    PROVE  /\ Group(r) \in All /\ Group(r)[1] = r[1] /\ Group(Group(r)) = Group(r)
           /\ GoesWith(r) = {r} \/ (GoesWith(r) = {q \in azure : Group(q) = r} /\ r = Group(r))
BY DEF Group, All, Parts, GoesWith

LEMMA Initially == Init => IInv
<1> SUFFICES ASSUME Init PROVE IInv
  OBVIOUS
<1>1. TypeOK
  BY TypedInit
<1>2. \A r \in All : mr[r] = "absent"
  BY DEF Init, NoMRs
<1>3. ClusterOfPass
  BY <1>2 DEF ClusterOfPass
<1> QED BY <1>1, <1>3 DEF Init, IInv, GroupHolds, Provisioned, Leaving, EmptyTwice, RunOfCommit

\* The end of a run, whichever way it ends, leaves nothing to prove.
LEMMA EndPreserves ==
    ASSUME IInv, TypeOK', UNCHANGED <<azure, going>>, End("red") \/ End("green")
    PROVE  IInv'
<1>1. \A r \in All : mr'[r] = "absent"
  BY DEF End, NoMRs
<1>2. ClusterOfPass'
  BY <1>1 DEF ClusterOfPass
<1>3. step' = "idle" /\ commit' = NoCommit /\ zeros' = 0 /\ misread' = FALSE
  BY DEF End
<1>4. GroupHolds'
  BY DEF IInv, GroupHolds
<1> QED BY <1>2, <1>3, <1>4 DEF IInv, Provisioned, Leaving, EmptyTwice, RunOfCommit

\* A step of the job itself: it moves from one stage to the next.
LEMMA BeginPreserves ==
    ASSUME IInv, TypeOK', Begin
    PROVE  IInv'
<1>1. step = "idle" /\ mr' = mr /\ zeros' = zeros /\ misread' = misread
  BY DEF Begin, loopVars
<1>2. \A r \in All : mr[r] = "absent"
  BY <1>1 DEF IInv, ClusterOfPass
<1>3. ClusterOfPass' /\ GroupHolds'
  BY <1>1, <1>2 DEF Begin, IInv, ClusterOfPass, GroupHolds
<1>4. CASE InScope("reconcile", queue)
  <2>1. step' = "reconcile" /\ commit' = queue /\ queue \in Commits
    BY <1>4 DEF Begin, IInv, TypeOK
  <2> QED BY <1>1, <1>3, <2>1 DEF IInv, Provisioned, Leaving, EmptyTwice, RunOfCommit
<1>5. CASE ~InScope("reconcile", queue) /\ InScope("decommission", queue)
  <2>1. step' = "decommission" /\ commit' = queue /\ queue \in Commits
    BY <1>5 DEF Begin, IInv, TypeOK
  <2>2. \A f \in Files : queue[f] # "Provision"
    BY <1>5 DEF InScope, Wanted
  <2>3. Provisioned'
    BY <2>1, <2>2 DEF Provisioned, All
  <2> QED BY <1>1, <1>3, <2>1, <2>3 DEF IInv, Leaving, EmptyTwice, RunOfCommit
<1>6. CASE ~InScope("reconcile", queue) /\ ~InScope("decommission", queue)
  <2>1. step' = "idle" /\ commit' = commit
    BY <1>1, <1>6 DEF Begin
  <2> QED BY <1>1, <1>3, <2>1 DEF IInv, Provisioned, Leaving, EmptyTwice, RunOfCommit
<1> QED BY <1>4, <1>5, <1>6

LEMMA DeleteXRsPreserves ==
    ASSUME IInv, TypeOK', DeleteXRs
    PROVE  IInv'
<1>1. /\ commit' = commit /\ mr' = mr /\ azure' = azure /\ going' = going
      /\ zeros' = zeros /\ misread' = misread
  BY DEF DeleteXRs, loopVars
<1>2. \A r \in Tested : r \in azure /\ r \notin going /\ mr[r] = "live"
  BY DEF DeleteXRs, AllLive, IInv, ClusterOfPass, Tested
<1>3. zeros' = 0 /\ misread' = FALSE
  BY <1>1 DEF DeleteXRs, IInv, EmptyTwice
<1>4. GroupHolds'
  BY <1>1 DEF IInv, GroupHolds
<1>5. CASE step = "reconcile"
  <2>1. step' = "orphan"
    BY <1>5 DEF DeleteXRs
  <2>2. ClusterOfPass'
    BY <1>1, <1>5, <2>1 DEF IInv, ClusterOfPass, Pass
  <2>3. Provisioned'
    <3> SUFFICES ASSUME NEW r \in All, r[1] \notin Templates, commit[r[1]] = "Provision"
                 PROVE  r \in azure /\ r \notin going
      BY <1>1 DEF Provisioned
    <3>1. r \in Tested
      BY <1>5 DEF Tested, Manifests, Wanted, All
    <3> QED BY <3>1, <1>2
  <2> QED BY <1>1, <1>3, <1>4, <1>5, <2>1, <2>2, <2>3
          DEF IInv, Leaving, EmptyTwice, RunOfCommit
<1>6. CASE step = "decommission"
  <2>1. step' = "poll"
    BY <1>6 DEF DeleteXRs
  <2>2. ClusterOfPass'
    BY <1>1, <1>6, <2>1 DEF IInv, ClusterOfPass, Pass
  <2>3. Provisioned'
    BY <1>1, <1>6 DEF IInv, Provisioned
  <2>4. Leaving'
    <3> SUFFICES ASSUME NEW r \in All, r[1] \in Manifests("decommission", commit)
                 PROVE  mr[r] # "absent"
      BY <1>1 DEF Leaving
    <3>1. r \in Tested
      BY <1>6 DEF Tested
    <3> QED BY <3>1, <1>2
  <2> QED BY <1>1, <1>3, <1>4, <1>6, <2>1, <2>2, <2>3, <2>4 DEF IInv, EmptyTwice, RunOfCommit
<1> QED BY <1>5, <1>6 DEF DeleteXRs

LEMMA NextPassPreserves ==
    ASSUME IInv, TypeOK', NextPass
    PROVE  IInv'
<1>1. CASE InScope("decommission", commit)
  <2>1. /\ step = "orphan" /\ step' = "decommission" /\ mr' = NoMRs
        /\ commit' = commit /\ azure' = azure /\ going' = going
        /\ zeros' = zeros /\ misread' = misread
    BY <1>1 DEF NextPass, loopVars
  <2>2. ClusterOfPass'
    BY <2>1 DEF ClusterOfPass, NoMRs
  <2>3. Provisioned'
    BY <2>1 DEF IInv, Provisioned
  <2>4. EmptyTwice' /\ GroupHolds'
    BY <2>1 DEF IInv, EmptyTwice, GroupHolds
  <2> QED BY <2>1, <2>2, <2>3, <2>4 DEF IInv, Leaving, RunOfCommit
<1>2. CASE ~InScope("decommission", commit)
  BY <1>2, EndPreserves DEF NextPass
<1> QED BY <1>1, <1>2

\* A poll: of two empty answers running the second is right, and it is as right
\* when a wrong one came before.
LEMMA PollPreserves ==
    ASSUME IInv, TypeOK', NEW answer \in {"none", "some", "empty"}, Poll(answer)
    PROVE  IInv'
<1>1. /\ step = "poll" /\ step' = step /\ commit' = commit
      /\ mr' = mr /\ azure' = azure /\ going' = going
  BY DEF Poll
<1>2. Left' = Left
  BY <1>1 DEF Left
<1>3. ClusterOfPass' /\ GroupHolds' /\ Provisioned' /\ Leaving' /\ RunOfCommit'
  BY <1>1 DEF IInv, ClusterOfPass, Pass, GroupHolds, Provisioned, Leaving, RunOfCommit
<1>4. zeros \in 0 .. 2 /\ misread \in BOOLEAN
  BY DEF IInv, TypeOK
<1>5. EmptyTwice'
  <2>1. CASE answer = "empty"
    <3>1. zeros' = zeros + 1 /\ misread' = (Left # {})
      BY <2>1 DEF Poll, NextZeros
    <3>2. Left = {} \/ misread = FALSE
      BY <2>1, <1>4 DEF Poll
    <3>3. zeros = 1 /\ misread = FALSE => Left = {}
      BY DEF IInv, EmptyTwice
    <3>4. zeros' = 2 => zeros = 1
      BY <3>1, <1>4
    <3> QED BY <1>1, <1>2, <3>1, <3>2, <3>3, <3>4 DEF EmptyTwice
  <2>2. CASE answer # "empty"
    BY <1>1, <2>2 DEF Poll, NextZeros, EmptyTwice
  <2> QED BY <2>1, <2>2
<1> QED BY <1>3, <1>5 DEF IInv

\* What Crossplane and Azure do, resource by resource.
LEMMA AdoptPreserves ==
    ASSUME IInv, TypeOK', NEW r \in All, Adopt(r)
    PROVE  IInv'
<1>1. /\ step \in {"reconcile", "decommission"} /\ step' = step /\ commit' = commit
      /\ going' = going /\ azure' = azure \cup {r} /\ zeros' = zeros /\ misread' = misread
      /\ r \notin going /\ r[1] \in Manifests(step, commit)
      /\ r # Group(r) => Group(r) \in azure /\ Group(r) \notin going
  BY DEF Adopt, Adoptable, Tested, loopVars
<1>2. mr'[r] = "live" /\ \A q \in All \ {r} : mr'[q] = mr[q]
  BY DEF Adopt, IInv, TypeOK
<1>3. ClusterOfPass'
  <2> SUFFICES ASSUME NEW q \in All
               PROVE  /\ mr'[q] # "absent" => step # "idle" /\ q[1] \in Manifests(Pass, commit)
                      /\ mr'[q] = "live" /\ step # "poll" => q \in azure' /\ q \notin going
                      /\ mr'[q] = "deleting" => step \in {"orphan", "poll"}
    BY <1>1 DEF ClusterOfPass, Pass
  <2>1. Pass = step
    BY <1>1 DEF Pass
  <2>2. CASE q = r
    BY <1>1, <1>2, <2>1, <2>2
  <2>3. CASE q # r
    BY <1>1, <1>2, <2>3 DEF IInv, ClusterOfPass
  <2> QED BY <2>2, <2>3
<1>4. Provisioned'
  BY <1>1 DEF IInv, Provisioned
<1>5. GroupHolds'
  <2> SUFFICES ASSUME NEW q \in azure'
               PROVE  Group(q) \in azure' /\ (Group(q) \in going => q \in going)
    BY <1>1 DEF GroupHolds
  <2>1. CASE q \in azure
    BY <1>1, <2>1 DEF IInv, GroupHolds
  <2>2. CASE q = r
    BY <1>1, <2>2
  <2> QED BY <1>1, <2>1, <2>2
<1> QED BY <1>1, <1>3, <1>4, <1>5 DEF IInv, Leaving, EmptyTwice, RunOfCommit

LEMMA CollectPreserves ==
    ASSUME IInv, TypeOK', NEW r \in All, Collect(r)
    PROVE  IInv'
<1>1. /\ step \in {"orphan", "poll"} /\ step' = step /\ commit' = commit /\ azure' = azure
      /\ going' = going /\ zeros' = zeros /\ misread' = misread /\ mr[r] = "live"
  BY DEF Collect, loopVars
<1>2. mr'[r] = "deleting" /\ \A q \in All \ {r} : mr'[q] = mr[q]
  BY DEF Collect, IInv, TypeOK
<1>3. ClusterOfPass'
  BY <1>1, <1>2 DEF IInv, ClusterOfPass, Pass
<1>4. Leaving' /\ GroupHolds'
  BY <1>1, <1>2 DEF IInv, Leaving, GroupHolds
<1>5. EmptyTwice'
  <2>1. r \in Left /\ r \in Left'
    BY <1>1, <1>2 DEF Left
  <2> QED BY <1>1, <2>1 DEF IInv, EmptyTwice
<1> QED BY <1>1, <1>3, <1>4, <1>5 DEF IInv, Provisioned, RunOfCommit

\* What is being deleted in the cluster belongs to its pass.
LEMMA DeletingOfPass ==
    ASSUME IInv, NEW r \in All, mr[r] = "deleting"
    PROVE  /\ step \in {"orphan", "poll"}
           /\ r[1] \in Manifests(Pass, commit)
           /\ "Delete" \in Policies(r[2], commit[r[1]])
                <=> step = "poll" /\ r[2] \notin Storage
<1>1. step \in {"orphan", "poll"} /\ r[1] \in Manifests(Pass, commit)
  BY DEF IInv, ClusterOfPass
<1>2. commit \in Commits
  BY <1>1 DEF IInv, RunOfCommit
<1>3. Pass = IF step = "poll" THEN "decommission" ELSE "reconcile"
  BY <1>1 DEF Pass
<1>4. Pass \in {"reconcile", "decommission"}
  BY <1>3
<1>5. "Delete" \in Policies(r[2], commit[r[1]])
        <=> Pass = "decommission" /\ r[2] \notin Storage
  BY <1>1, <1>2, <1>4, WhoDeletes
<1> QED BY <1>1, <1>3, <1>5

\* What Azure begins to delete is of the run and to be decommissioned, and of the
\* backups only what goes with its group.
LEMMA DeletedOfRun ==
    ASSUME IInv, NEW r \in All, DeleteInAzure(r), NEW q \in GoesWith(r)
    PROVE  /\ step = "poll" /\ q \in azure /\ q[1] = r[1]
           /\ commit[q[1]] = "Deprovision"
           /\ q[2] \in Storage => Group(q) = r
<1>1. mr[r] = "deleting" /\ "Delete" \in Policies(r[2], commit[r[1]]) /\ r \in azure
  BY DEF DeleteInAzure
<1>2. step = "poll" /\ r[2] \notin Storage /\ r[1] \in Manifests("decommission", commit)
  BY <1>1, DeletingOfPass DEF Pass
<1>3. commit[r[1]] = "Deprovision"
  BY <1>2 DEF Manifests, Wanted
<1>4. CASE q = r
  BY <1>1, <1>2, <1>3, <1>4
<1>5. CASE q \in azure /\ Group(q) = r
  <2>1. q \in All
    BY <1>5 DEF IInv, TypeOK
  <2> QED BY <1>2, <1>3, <1>5, <2>1, GroupType
<1> QED BY <1>4, <1>5, GroupType

LEMMA DeleteInAzurePreserves ==
    ASSUME IInv, TypeOK', NEW r \in All, DeleteInAzure(r)
    PROVE  IInv'
<1>1. /\ step' = step /\ commit' = commit /\ azure' = azure /\ mr' = mr
      /\ going' = going \cup GoesWith(r) /\ zeros' = zeros /\ misread' = misread
      /\ mr[r] = "deleting" /\ "Delete" \in Policies(r[2], commit[r[1]]) /\ r \in azure
  BY DEF DeleteInAzure, loopVars
<1>2. \A q \in GoesWith(r) : commit[q[1]] # "Provision"
  BY DeletedOfRun
<1>3. step = "poll"
  BY <1>1, DeletingOfPass, WhoDeletes
<1>4. ClusterOfPass'
  BY <1>1, <1>3 DEF IInv, ClusterOfPass, Pass
<1>5. Provisioned'
  BY <1>1, <1>2 DEF IInv, Provisioned
<1>6. Leaving'
  BY <1>1 DEF IInv, Leaving
<1>7. EmptyTwice'
  BY <1>1 DEF IInv, EmptyTwice, Left
<1>8. GroupHolds'
  <2> SUFFICES ASSUME NEW q \in azure, Group(q) \in going'
               PROVE  q \in going'
    BY <1>1 DEF IInv, GroupHolds
  <2>1. q \in All
    BY DEF IInv, TypeOK
  <2>2. CASE Group(q) \in going
    BY <1>1, <2>2 DEF IInv, GroupHolds
  <2>3. CASE Group(q) = r
    BY <1>1, <2>1, <2>3, GroupType DEF GoesWith
  <2>4. CASE Group(q) \in GoesWith(r) /\ Group(q) # r
    BY <2>1, <2>4, GroupType
  <2> QED BY <1>1, <2>2, <2>3, <2>4
<1> QED BY <1>1, <1>4, <1>5, <1>6, <1>7, <1>8 DEF IInv, RunOfCommit

LEMMA LetGoPreserves ==
    ASSUME IInv, TypeOK', NEW r \in All, LetGo(r)
    PROVE  IInv'
<1>1. /\ step' = step /\ commit' = commit /\ azure' = azure /\ going' = going
      /\ zeros' = zeros /\ misread' = misread /\ mr[r] = "deleting"
      /\ "Delete" \in Policies(r[2], commit[r[1]]) => r \notin azure
  BY DEF LetGo, loopVars
<1>2. mr'[r] = "absent" /\ \A q \in All \ {r} : mr'[q] = mr[q]
  BY DEF LetGo, IInv, TypeOK
<1>3. step = "poll" /\ r[2] \notin Storage => r \notin azure
  BY <1>1, DeletingOfPass
<1>4. ClusterOfPass'
  BY <1>1, <1>2 DEF IInv, ClusterOfPass, Pass
<1>5. Leaving' /\ GroupHolds'
  BY <1>1, <1>2, <1>3 DEF IInv, Leaving, GroupHolds
<1>6. EmptyTwice'
  <2>1. r \in Left
    BY <1>1 DEF Left
  <2> QED BY <1>1, <2>1 DEF IInv, EmptyTwice
<1> QED BY <1>1, <1>4, <1>5, <1>6 DEF IInv, Provisioned, RunOfCommit

LEMMA AzureDeletesPreserves ==
    ASSUME IInv, TypeOK', NEW r \in All, AzureDeletes(r)
    PROVE  IInv'
<1>1. /\ step' = step /\ commit' = commit /\ mr' = mr /\ r \in going /\ GoesWith(r) = {r}
      /\ azure' = azure \ {r} /\ going' = going \ {r} /\ zeros' = zeros /\ misread' = misread
  BY DEF AzureDeletes, loopVars
<1>2. ClusterOfPass'
  BY <1>1 DEF IInv, ClusterOfPass, Pass
<1>3. GroupHolds'
  <2> SUFFICES ASSUME NEW q \in azure, q # r
               PROVE  /\ Group(q) \in azure /\ Group(q) # r
                      /\ Group(q) \in going => q \in going
    BY <1>1 DEF GroupHolds
  <2>1. q \in All
    BY DEF IInv, TypeOK
  <2>2. CASE Group(q) = r
    BY <1>1, <2>1, <2>2, GroupType DEF GoesWith
  <2> QED BY <2>2 DEF IInv, GroupHolds
<1>4. Provisioned' /\ Leaving'
  BY <1>1 DEF IInv, Provisioned, Leaving
<1>5. EmptyTwice'
  BY <1>1 DEF IInv, EmptyTwice, Left
<1> QED BY <1>1, <1>2, <1>3, <1>4, <1>5 DEF IInv, RunOfCommit

-----------------------------------------------------------------------------
(* Theorems *)

(* Between the steps of a run there is a fixed relation of what the commit  *)
(* asks for, what is in the cluster and what is in Azure.                   *)
THEOREM InductiveInvariant == Spec => []IInv
<1>1. Init => IInv
  BY Initially
<1>2. IInv /\ TypeOK' /\ [Next]_vars => IInv'
  <2> SUFFICES ASSUME IInv, TypeOK', [Next]_vars PROVE IInv'
    OBVIOUS
  <2>1. CASE Dispatch \/ UNCHANGED vars
    <3>1. /\ step' = step /\ commit' = commit /\ mr' = mr /\ azure' = azure
          /\ going' = going /\ zeros' = zeros /\ misread' = misread
      BY <2>1 DEF Dispatch, vars, loopVars
    <3> QED BY <3>1 DEF IInv, ClusterOfPass, Pass, GroupHolds, Provisioned, Leaving,
                        EmptyTwice, Left, RunOfCommit
  <2>2. CASE Begin
    BY <2>2, BeginPreserves
  <2>3. CASE Fail
    BY <2>3, EndPreserves DEF Fail
  <2>4. CASE DeleteXRs
    BY <2>4, DeleteXRsPreserves
  <2>5. CASE NextPass
    BY <2>5, NextPassPreserves
  <2>6. ASSUME NEW answer \in {"none", "some", "empty"}, Poll(answer) PROVE IInv'
    BY <2>6, PollPreserves
  <2>7. CASE Verdict
    BY <2>7, EndPreserves DEF Verdict
  <2>8. ASSUME NEW r \in All, Adopt(r) \/ Collect(r) \/ DeleteInAzure(r) \/ LetGo(r)
        PROVE  IInv'
    BY <2>8, AdoptPreserves, CollectPreserves, DeleteInAzurePreserves, LetGoPreserves
  <2>9. ASSUME NEW r \in All, AzureDeletes(r) PROVE IInv'
    BY <2>9, AzureDeletesPreserves
  <2> QED BY <2>1, <2>2, <2>3, <2>4, <2>5, <2>6, <2>7, <2>8, <2>9
          DEF Next, Job, Crossplane, Loop
<1> QED BY <1>1, <1>2, TypeCorrect, PTL DEF Spec

(* Whatever is dispatched over what earlier runs left behind, Azure is asked *)
(* to delete nothing but resources of control planes that the commit of the  *)
(* run declares Deprovision, and the backups only with their whole group.    *)
THEOREM OnlyDeprovisionedHolds == Spec => OnlyDeprovisioned
<1> DEFINE Declared == \A r \in going' \ going :
                          /\ commit[r[1]] = "Deprovision"
                          /\ r[2] \in Storage => Group(r) \in going' \ going
<1>1. ASSUME IInv, [Next]_vars PROVE Declared
  <2>1. ASSUME NEW r \in All, DeleteInAzure(r) PROVE Declared
    <3>1. going' = going \cup GoesWith(r) /\ r \in azure /\ r \notin going
      BY <2>1 DEF DeleteInAzure
    <3>2. ASSUME NEW q \in GoesWith(r)
          PROVE  /\ commit[q[1]] = "Deprovision"
                 /\ q[2] \in Storage => Group(q) = r
      BY <1>1, <2>1, <3>2, DeletedOfRun
    <3>3. r \in GoesWith(r)
      BY <3>1, GroupType DEF GoesWith
    <3> QED BY <3>1, <3>2, <3>3
  <2>2. CASE Dispatch \/ Fail \/ Job \/ UNCHANGED vars
    <3>1. going' = going
      BY <2>2 DEF Dispatch, Fail, Job, Begin, DeleteXRs, NextPass, Loop, Poll, Verdict, vars
    <3> QED BY <3>1
  <2>3. ASSUME NEW r \in All, Adopt(r) \/ Collect(r) \/ LetGo(r) \/ AzureDeletes(r)
        PROVE  Declared
    BY <2>3 DEF Adopt, Collect, LetGo, AzureDeletes
  <2> QED BY <1>1, <2>1, <2>2, <2>3 DEF Next, Crossplane
<1> QED BY <1>1, InductiveInvariant, PTL DEF Spec, OnlyDeprovisioned

(* A green run has done what its commit says: the control planes to provision *)
(* are there, those to decommission are gone with their backups.             *)
THEOREM GreenMeansDoneHolds == Spec => GreenMeansDone
<1> DEFINE Done ==
        \A f \in Files \ Templates :
            /\ commit[f] = "Provision" => {f} \X Parts \subseteq azure
            /\ commit[f] = "Deprovision" => ({f} \X Parts) \cap azure = {}
<1>1. ASSUME IInv, [Next]_vars, commit # NoCommit, commit' = NoCommit, result' = "green"
      PROVE  Done
  <2>1. step # "idle"
    BY <1>1 DEF IInv, RunOfCommit
  <2>2. ASSUME step \in {"orphan", "poll"}, NEW f \in Files \ Templates,
               commit[f] = "Provision"
        PROVE  {f} \X Parts \subseteq azure
    <3> SUFFICES ASSUME NEW p \in Parts PROVE <<f, p>> \in azure
      OBVIOUS
    <3>1. <<f, p>> \in All
      BY DEF All
    <3> QED BY <1>1, <2>2, <3>1 DEF IInv, Provisioned
  <2>3. CASE NextPass
    <3>1. step = "orphan" /\ ~InScope("decommission", commit)
      BY <1>1, <2>3 DEF NextPass
    <3>2. \A f \in Files : commit[f] # "Deprovision"
      BY <3>1 DEF InScope, Wanted
    <3> QED BY <2>2, <3>1, <3>2
  <2>4. CASE Verdict
    <3>1. step = "poll" /\ Drained(zeros)
      BY <1>1, <2>4 DEF Verdict, End
    <3>2. Left = {}
      BY <1>1, <3>1 DEF IInv, TypeOK, EmptyTwice, Drained
    <3>3. ASSUME NEW f \in Files \ Templates, commit[f] = "Deprovision"
          PROVE  ({f} \X Parts) \cap azure = {}
      <4> DEFINE g == <<f, "network">>
      <4>1. g \in All /\ g[1] = f /\ g[2] \notin Storage
        BY DEF All, Parts, Storage
      <4>2. f \in Manifests("decommission", commit)
        BY <3>3 DEF Manifests, Wanted
      <4>3. mr[g] = "absent"
        BY <3>2, <4>1 DEF Left
      <4>4. g \notin azure
        BY <1>1, <3>1, <4>1, <4>2, <4>3 DEF IInv, Leaving
      <4>5. \A r \in {f} \X Parts : Group(r) = g
        BY DEF Group
      <4> QED BY <1>1, <4>4, <4>5 DEF IInv, GroupHolds
    <3> QED BY <2>2, <3>1, <3>3
  <2>5. CASE Fail
    BY <1>1, <2>5 DEF Fail, End
  <2>6. CASE Begin
    BY <2>1, <2>6 DEF Begin
  <2>7. CASE Dispatch \/ DeleteXRs \/ Loop \/ UNCHANGED vars
    BY <1>1, <2>7 DEF Dispatch, DeleteXRs, Loop, Poll, vars
  <2>8. ASSUME NEW r \in All,
               Adopt(r) \/ Collect(r) \/ DeleteInAzure(r) \/ LetGo(r) \/ AzureDeletes(r)
        PROVE  Done
    BY <1>1, <2>8 DEF Adopt, Collect, DeleteInAzure, LetGo, AzureDeletes
  <2> QED BY <1>1, <2>3, <2>4, <2>5, <2>6, <2>7, <2>8 DEF Next, Job, Crossplane
<1>2. IInv /\ [Next]_vars
        => (commit # NoCommit /\ commit' = NoCommit /\ result' = "green" => Done)
  BY <1>1
<1> QED BY <1>2, InductiveInvariant, PTL DEF Spec, GreenMeansDone
=============================================================================
