--------------------------- MODULE LicenseClaims ---------------------------
(***************************************************************************)
(* How the ControlPlanes of one management cluster share out the license   *)
(* Secrets they reference.  Every ControlPlane (XR) is reconciled by a     *)
(* loop of its own: the reconciler reads the XR and its composed           *)
(* resources, runs the composition function with the list of all           *)
(* ControlPlanes, and writes what the function returns, the status by one  *)
(* call and the composed Objects by others.  No lock is held across        *)
(* ControlPlanes: the only coordination is what check_license_conflict     *)
(* reads in the specs and statuses of the peers.                           *)
(*                                                                         *)
(* Simplifications.  A Secret stands for a namespace/name pair, a          *)
(* ControlPlane for the namespace/name of its XR.  `installed` is the      *)
(* Secret in the uxp-license-secret Object's patchesFrom; the License      *)
(* Object is composed in the same breath and carries nothing more.  The    *)
(* first function call of a reconcile, made before Crossplane has fetched  *)
(* the required ControlPlanes, is discarded by Crossplane and not modelled.*)
(* The two writes of a reconcile happen in either order and the reconcile  *)
(* may die between them.  MaxEdits and MaxAborts bound the steps of the    *)
(* users and of the faults; nothing bounds the reconciles.                 *)
(***************************************************************************)
EXTENDS Naturals, FiniteSets

CONSTANTS
    Ctps,       \* the ControlPlanes that may exist
    Secrets,    \* the license Secrets a ControlPlane may reference
    NoSecret,   \* "no license": the parameter, status field or Object is absent
    NoOne,      \* "no owner": no conflict
    Ident,      \* the order of the namespace/name pairs: [Ctps -> Nat]
    Times,      \* the creation timestamps, in seconds; 0 is a missing one
    MaxEdits, MaxAborts

ASSUME ConstAssumption ==
    /\ NoSecret \notin Secrets
    /\ NoOne \notin Ctps
    /\ Ident \in [Ctps -> Nat]
    /\ \A c, d \in Ctps : Ident[c] = Ident[d] => c = d
    /\ Times \subseteq Nat /\ Times # {}
    /\ MaxEdits \in Nat
    /\ MaxAborts \in Nat

VARIABLES
    life,       \* life[c]: "absent", "live", or "terminating" (deletionTimestamp set)
    spec,       \* spec[c]: the Secret spec.parameters.license references
    created,    \* created[c]: metadata.creationTimestamp
    claim,      \* claim[c]: the Secret status.controlplane.license records
    conflict,   \* conflict[c]: the owner the LicenseConflict condition names
    installed,  \* installed[c]: the Secret the composed license is copied from
    pc,         \* pc[c]: how far the reconcile of c has come
    seen,       \* seen[c]: what the reconcile read of c when it started
    plan,       \* plan[c]: the license and the conflict the function returned
    todo,       \* todo[c]: the writes of the reconcile still to be done
    raced,      \* history: the pairs whose license decisions overlapped
    edits, aborts

xrVars  == <<life, spec, created>>
ownVars == <<claim, conflict, installed>>
runVars == <<pc, seen, plan, todo>>
vars    == <<xrVars, ownVars, runVars, raced, edits, aborts>>

MaybeSecret == Secrets \cup {NoSecret}
MaybeOwner  == Ctps \cup {NoOne}
Writes      == {"status", "objects"}

View == [spec : MaybeSecret, claim : MaybeSecret, created : Times, installed : MaybeSecret]
Plan == [license : MaybeSecret, conflict : MaybeOwner]

TypeOK ==
    /\ life \in [Ctps -> {"absent", "live", "terminating"}]
    /\ spec \in [Ctps -> MaybeSecret]
    /\ created \in [Ctps -> Times]
    /\ claim \in [Ctps -> MaybeSecret]
    /\ conflict \in [Ctps -> MaybeOwner]
    /\ installed \in [Ctps -> MaybeSecret]
    /\ pc \in [Ctps -> {"idle", "observed", "writing"}]
    /\ seen \in [Ctps -> View]
    /\ plan \in [Ctps -> Plan]
    /\ todo \in [Ctps -> SUBSET Writes]
    /\ raced \subseteq (Ctps \X Ctps)
    /\ edits \in 0 .. MaxEdits
    /\ aborts \in 0 .. MaxAborts

Live == {c \in Ctps : life[c] = "live"}

-----------------------------------------------------------------------------
(* check_license_conflict *)

\* What a ControlPlane shows the guard: its spec, its claim and its age.
Entry(c) == [id |-> c, spec |-> spec[c], claim |-> claim[c], created |-> created[c]]

\* Mutants of ClaimRank: age before holding; no identity to break ties.
AgeFirstRank(s, a) ==
    << IF a.created = 0 THEN 1 ELSE 0, a.created, IF a.claim = s THEN 0 ELSE 1, Ident[a.id] >>
TieRank(s, a) ==
    << IF a.claim = s THEN 0 ELSE 1, IF a.created = 0 THEN 1 ELSE 0, a.created, 0 >>

\* claim_order(a) < claim_order(b) for the Secret s: holders come first, then
\* the oldest, a missing timestamp counting as youngest, then the identity.
ClaimRank(s, a) ==
    << IF a.claim = s THEN 0 ELSE 1, IF a.created = 0 THEN 1 ELSE 0, a.created, Ident[a.id] >>
Precedes(s, a, b) ==
    LET x == ClaimRank(s, a)
        y == ClaimRank(s, b)
    IN  \E i \in 1 .. 4 : x[i] < y[i] /\ \A j \in 1 .. (i - 1) : x[j] = y[j]

\* Mutant of Ahead: only what the peers request counts.
RequestersAhead(me) ==
    {p \in {Entry(d) : d \in Live \ {me.id}} :
        me.spec = p.spec /\ Precedes(me.spec, p, me)}

\* The peers that request or hold the Secret `me` requests and outrank it.
Ahead(me) ==
    {p \in {Entry(d) : d \in Live \ {me.id}} :
        me.spec \in {p.spec, p.claim} /\ Precedes(me.spec, p, me)}

\* Mutants of LicenseConflict: a holder is never in conflict; the owner is
\* named by its Secret.
HolderConflict(me) ==
    IF me.spec \in {NoSecret, me.claim} \/ Ahead(me) = {} THEN NoOne
    ELSE (CHOOSE p \in Ahead(me) :
             \A q \in Ahead(me) \ {p} : Precedes(me.spec, p, q)).id
SecretConflict(me) ==
    IF me.spec = NoSecret \/ Ahead(me) = {} THEN NoOne ELSE me.spec

\* The owner that denies `me` the Secret it requests, or NoOne.
LicenseConflict(me) ==
    LET ahead == Ahead(me)
    IN  IF me.spec = NoSecret \/ ahead = {} THEN NoOne
        ELSE (CHOOSE p \in ahead : \A q \in ahead \ {p} : Precedes(me.spec, p, q)).id

\* Mutants of LicenseClaim: a conflict strips the license; an installed license
\* is never replaced.
StrippedClaim(v, owner) ==
    IF v.spec = NoSecret \/ owner = NoOne THEN v.spec ELSE NoSecret
StickyClaim(v, owner) ==
    IF v.spec = NoSecret \/ (owner = NoOne /\ v.installed = NoSecret)
    THEN v.spec ELSE v.installed

\* The license composed: on conflict the one already installed, if any.
LicenseClaim(v, owner) ==
    IF v.spec = NoSecret \/ owner = NoOne THEN v.spec ELSE v.installed

-----------------------------------------------------------------------------
(* Users and the API server *)

NoView == [spec |-> NoSecret, claim |-> NoSecret,
           created |-> CHOOSE t \in Times : TRUE, installed |-> NoSecret]
NoPlan == [license |-> NoSecret, conflict |-> NoOne]

\* A half-written decision: what c has claimed, installed or is about to write
\* does not agree yet, so a peer that looks now cannot see all of it.
Stake(c) ==
    ({installed[c], claim[c]} \cup (IF pc[c] = "writing" THEN {plan[c].license} ELSE {}))
        \ {NoSecret}
Unsettled(c) == pc[c] = "writing" \/ claim[c] # installed[c]

Edit == edits < MaxEdits /\ edits' = edits + 1 /\ UNCHANGED aborts

Create(c) ==
    /\ Edit
    /\ life[c] = "absent"
    /\ life' = [life EXCEPT ![c] = "live"]
    /\ \E s \in MaybeSecret : spec' = [spec EXCEPT ![c] = s]
    /\ \E t \in Times : created' = [created EXCEPT ![c] = t]
    /\ UNCHANGED <<ownVars, runVars, raced>>

\* A user edits spec.parameters.license, at any moment of the reconcile.
Repoint(c) ==
    /\ Edit
    /\ life[c] = "live"
    /\ \E s \in MaybeSecret \ {spec[c]} : spec' = [spec EXCEPT ![c] = s]
    /\ UNCHANGED <<life, created, ownVars, runVars, raced>>

\* A restore that recreates the XR resets its creationTimestamp.
ResetCreation(c) ==
    /\ Edit
    /\ life[c] = "live"
    /\ \E t \in Times \ {created[c]} : created' = [created EXCEPT ![c] = t]
    /\ UNCHANGED <<life, spec, ownVars, runVars, raced>>

Delete(c) ==
    /\ Edit
    /\ life[c] = "live"
    /\ life' = [life EXCEPT ![c] = "terminating"]
    /\ UNCHANGED <<spec, created, ownVars, runVars, raced>>

\* The finalizer goes once the composed resources are gone.  The reconciler
\* removes it, so no reconcile of c is under way.
Gone(c) ==
    /\ life[c] = "terminating"
    /\ pc[c] = "idle"
    /\ life' = [life EXCEPT ![c] = "absent"]
    /\ spec' = [spec EXCEPT ![c] = NoSecret]
    /\ claim' = [claim EXCEPT ![c] = NoSecret]
    /\ conflict' = [conflict EXCEPT ![c] = NoOne]
    /\ installed' = [installed EXCEPT ![c] = NoSecret]
    /\ raced' = {r \in raced : c \notin {r[1], r[2]}}
    /\ UNCHANGED <<created, runVars, edits, aborts>>

-----------------------------------------------------------------------------
(* The reconcile of one ControlPlane *)

\* The reconciler reads the XR and its composed resources.  An XR with a
\* deletionTimestamp is not composed any more.
Observe(c) ==
    /\ pc[c] = "idle"
    /\ life[c] = "live"
    /\ pc' = [pc EXCEPT ![c] = "observed"]
    /\ seen' = [seen EXCEPT ![c] = [spec |-> spec[c], claim |-> claim[c],
                                    created |-> created[c], installed |-> installed[c]]]
    /\ UNCHANGED <<xrVars, ownVars, plan, todo, raced, edits, aborts>>

\* The function runs on what Observe read of c and on the peers as they are
\* now.  It grants c a Secret while a peer's decision on that Secret is half
\* written: the two have raced.
Compose(c) ==
    /\ pc[c] = "observed"
    /\ pc' = [pc EXCEPT ![c] = "writing"]
    /\ LET v     == seen[c]
           owner == LicenseConflict([id |-> c, spec |-> v.spec, claim |-> v.claim,
                                     created |-> v.created])
       IN  /\ plan' = [plan EXCEPT ![c] = [license |-> LicenseClaim(v, owner),
                                           conflict |-> owner]]
           /\ raced' = raced \cup
                {<<c, d>> : d \in {e \in Live \ {c} :
                    owner = NoOne /\ Unsettled(e) /\ v.spec \in Stake(e)}}
    /\ todo' = [todo EXCEPT ![c] = Writes]
    /\ UNCHANGED <<xrVars, ownVars, seen, edits, aborts>>

\* One write done; the last one ends the reconcile.
Done(c, w) ==
    /\ pc[c] = "writing"
    /\ w \in todo[c]
    /\ IF todo[c] = {w}
       THEN /\ pc' = [pc EXCEPT ![c] = "idle"]
            /\ seen' = [seen EXCEPT ![c] = NoView]
            /\ plan' = [plan EXCEPT ![c] = NoPlan]
            /\ todo' = [todo EXCEPT ![c] = {}]
       ELSE todo' = [todo EXCEPT ![c] = @ \ {w}] /\ UNCHANGED <<pc, seen, plan>>

\* The status patch replaces the claim and the condition; a status without
\* `license` removes the field.
WriteStatus(c) ==
    /\ Done(c, "status")
    /\ claim' = [claim EXCEPT ![c] = plan[c].license]
    /\ conflict' = [conflict EXCEPT ![c] = plan[c].conflict]
    /\ UNCHANGED <<xrVars, installed, raced, edits, aborts>>

\* The composed license Objects are applied, or garbage collected when the
\* function returned none.
ApplyObjects(c) ==
    /\ Done(c, "objects")
    /\ installed' = [installed EXCEPT ![c] = plan[c].license]
    /\ UNCHANGED <<xrVars, claim, conflict, raced, edits, aborts>>

\* An API error or a crash of Crossplane ends the reconcile half way; what is
\* written stays written and the next reconcile starts afresh.
Abort(c) ==
    /\ aborts < MaxAborts
    /\ pc[c] # "idle"
    /\ aborts' = aborts + 1
    /\ pc' = [pc EXCEPT ![c] = "idle"]
    /\ seen' = [seen EXCEPT ![c] = NoView]
    /\ plan' = [plan EXCEPT ![c] = NoPlan]
    /\ todo' = [todo EXCEPT ![c] = {}]
    /\ UNCHANGED <<xrVars, ownVars, raced, edits>>

-----------------------------------------------------------------------------
Blank ==
    /\ pc = [c \in Ctps |-> "idle"]
    /\ seen = [c \in Ctps |-> NoView]
    /\ plan = [c \in Ctps |-> NoPlan]
    /\ todo = [c \in Ctps |-> {}]
    /\ claim = [c \in Ctps |-> NoSecret]
    /\ conflict = [c \in Ctps |-> NoOne]
    /\ edits = 0
    /\ aborts = 0

\* A management cluster without ControlPlanes.
Init ==
    /\ Blank
    /\ life = [c \in Ctps |-> "absent"]
    /\ spec = [c \in Ctps |-> NoSecret]
    /\ created = [c \in Ctps |-> CHOOSE t \in Times : TRUE]
    /\ installed = [c \in Ctps |-> NoSecret]
    /\ raced = {}

User(c)      == Create(c) \/ Repoint(c) \/ ResetCreation(c) \/ Delete(c)
Reconcile(c) == Observe(c) \/ Compose(c) \/ WriteStatus(c) \/ ApplyObjects(c)
Next == \E c \in Ctps : User(c) \/ Gone(c) \/ Reconcile(c) \/ Abort(c)

Spec == Init /\ [][Next]_vars

\* Crossplane requeues every ControlPlane for ever (failed reconciles at once,
\* the others on the poll interval) and a deletion is carried through.
Fairness == \A c \in Ctps : WF_vars(Reconcile(c) \/ Gone(c))
FairSpec == Spec /\ Fairness

-----------------------------------------------------------------------------
(* Properties *)

Shares(c, d) ==
    /\ c \in Live /\ d \in Live /\ c # d
    /\ installed[c] = installed[d] /\ installed[c] # NoSecret

\* Two live ControlPlanes have the license of one Secret installed only if one
\* was granted it while the other's decision on it was still being written, or
\* was left half written by a reconcile that died: no other interleaving of
\* edits, deletions, clock ties and reconciles gives a license away twice
\* (check_license_conflict; README "Two ControlPlanes reconciled at the same
\* moment can both install the license").  A race is remembered for the pair, for
\* whatever Secret they share later; Implements tells the Secrets apart.
SharedOnlyByRace ==
    \A c, d \in Ctps : Shares(c, d) => <<c, d>> \in raced \/ <<d, c>> \in raced

\* The inductive strengthening of SharedOnlyByRace and NeverStripsLive.  What
\* can be installed or claimed twice is not only what is installed: it is the
\* stake, which also holds the claim and the license about to be written.
StakesApart ==
    \A c, d \in Live : c # d /\ Stake(c) \cap Stake(d) # {} =>
        <<c, d>> \in raced \/ <<d, c>> \in raced
ViewCurrent ==
    \A c \in Ctps : pc[c] = "observed" =>
        seen[c].claim = claim[c] /\ seen[c].installed = installed[c]
PlanFromView ==
    \A c \in Ctps : pc[c] = "writing" =>
        /\ plan[c].license = LicenseClaim(seen[c], plan[c].conflict)
        /\ seen[c].spec = NoSecret => plan[c].conflict = NoOne
        /\ "objects" \in todo[c] => seen[c].installed = installed[c]
AbsentBlank ==
    \A c \in Ctps : life[c] = "absent" =>
        pc[c] = "idle" /\ claim[c] = NoSecret /\ installed[c] = NoSecret

\* No decision about a license ever overlaps another live ControlPlane's stake
\* in the same Secret unless the two raced, and every plan still agrees with
\* the composed resources it was made from when it is written.
IInv == TypeOK /\ StakesApart /\ ViewCurrent /\ PlanFromView /\ AbsentBlank

\* Whenever the guard runs, all ControlPlanes competing for a Secret get
\* answers that name one owner: at most one requester is told it owns the
\* Secret, and the requesters that are told of an owner agree with it
\* (claim_order is a total order, ties and missing timestamps included).
OneOwner ==
    \A c, d \in Live :
        LET a == LicenseConflict(Entry(c))
            b == LicenseConflict(Entry(d))
        IN  c # d /\ spec[c] = spec[d] /\ spec[c] # NoSecret
                => /\ a = NoOne => b = c
                   /\ a # NoOne => b \in {a, NoOne}

\* A live ControlPlane loses or changes an installed license only to what the
\* reconcile saw in its own spec, and never while the function reports a
\* conflict: the guard withholds new licenses and does not strip live ones
\* (compose: "only a new claim is withheld").
NeverStripsLive ==
    [][\A c \in Live :
          c \in Live' /\ installed[c] # NoSecret /\ installed'[c] # installed[c]
              => /\ plan[c].conflict = NoOne
                 /\ installed'[c] = seen[c].spec]_vars

\* The registry the ControlPlanes keep without a registrar.  Its members are the
\* live ControlPlanes; the stake, the license and the decision under way of each
\* are those above.
LiveStakes == [c \in Ctps |-> IF c \in Live THEN Stake(c) ELSE {}]
LiveHeld   == [c \in Ctps |-> IF c \in Live THEN installed[c] ELSE NoSecret]
Decided    == {c \in Live : ~Unsettled(c)}

Registry == INSTANCE LicenseRegistry WITH
    members <- Live, stakes <- LiveStakes, held <- LiveHeld, settled <- Decided

\* Every interleaving of edits, reconciles and aborts is a run of the registry:
\* no decision on a Secret goes against a settled one, an installed license is
\* always a staked one, and a ControlPlane whose reconcile died counts as
\* undecided until its claim and its license agree again
\* (check_license_conflict "A holder ... outranks any XR that is not").
Implements == Registry!Spec

\* Two ControlPlanes that share a Secret do not stay silent about it for ever: one
\* of them reports LicenseConflict, unless the sharing ends first
\* (README "The one that does not own the Secret then reports LicenseConflict").
ConflictSurfaces ==
    \A c, d \in Ctps :
        []<>(Shares(c, d) => conflict[c] # NoOne \/ conflict[d] # NoOne)

Wants(c, s) == c \in Live /\ spec[c] = s
Contested(c, s) == \E d \in Live \ {c} : s \in {spec[d], claim[d], installed[d]}

\* A Secret that one ControlPlane requests and no other requests, claims or has
\* installed is in the end installed there, with no conflict reported, however
\* the Secret came free (README "To resolve it, point the ControlPlane
\* reporting the conflict at its own Secret").
FreeSecretGranted ==
    \A c \in Ctps, s \in Secrets :
        <>[](Wants(c, s) /\ ~Contested(c, s)) => <>[](installed[c] = s /\ conflict[c] = NoOne)

\* As README and the LicenseConflict message have it ("Each ControlPlane must
\* use a unique license secret"): once every ControlPlane references a Secret
\* that no other references, the one that does gets its license.
UniqueReferenceGranted ==
    \A c \in Ctps, s \in Secrets :
        <>[](Wants(c, s) /\ \A d \in Live \ {c} : spec[d] # s) => <>(installed[c] = s)

\* Another reconcile of c would write what is there.
AtRest(c) ==
    LET owner   == LicenseConflict(Entry(c))
        license == LicenseClaim([spec |-> spec[c], installed |-> installed[c]], owner)
    IN  /\ pc[c] = "idle" /\ conflict[c] = owner
        /\ claim[c] = license /\ installed[c] = license

\* Where the reconciles have come to rest, nobody waits for nothing: who is denied
\* a Secret is told of another live ControlPlane, and that one has the license
\* of this very Secret installed; whoever is told of no conflict has what it asks
\* for, and has it alone or with ControlPlanes that do report a conflict.  So no
\* claim left behind keeps a Secret from everybody, and of those that took one
\* license at the same moment all but one say so (check_license_conflict; README
\* "The one that does not own the Secret then reports LicenseConflict").
RestIsJust ==
    (\A c \in Live : AtRest(c)) =>
        \A c \in Live :
            /\ conflict[c] = NoOne => installed[c] = spec[c]
            /\ conflict[c] # NoOne =>
                 conflict[c] \in Live \ {c} /\ installed[conflict[c]] = spec[c]
            /\ \A d \in Live : Shares(c, d) => conflict[c] # NoOne \/ conflict[d] # NoOne

-----------------------------------------------------------------------------
(* The upgrade from a release that had no guard: licenses are installed, some
   from one Secret, and no status records a claim.  Those without a license take
   no part. *)

UpgradeInit ==
    /\ Blank
    /\ life = [c \in Ctps |-> "live"]
    /\ spec \in [Ctps -> Secrets]
    /\ created \in [Ctps -> Times]
    /\ installed = spec
    /\ raced = {r \in Ctps \X Ctps : r[1] # r[2]}

UpgradeSpec == UpgradeInit /\ [][Next]_vars /\ Fairness

\* The sharer of c's Secret that outranks all others by age.
Oldest(c) ==
    \A d \in Ctps \ {c} : spec[d] = spec[c] =>
        LET unclaimed(e) == [Entry(e) EXCEPT !.claim = NoSecret]
        IN  Precedes(spec[c], unclaimed(c), unclaimed(d))

\* After an upgrade, whatever the order in which the first reconciles read and
\* write, every sharer of a Secret ends up reporting LicenseConflict except the
\* oldest, and all of them keep their license
\* (README "After the upgrade every sharer but the oldest reports").
Settled ==
    \A c \in Ctps : /\ installed[c] = spec[c]
                   /\ spec[c] # NoSecret => (conflict[c] = NoOne <=> Oldest(c))
UpgradeSettles == [](edits = 0) => <>[]Settled

\* There is nothing else an upgrade can come to rest in: no order of the first
\* reconciles leaves the wrong sharer as the owner, two of them, or none.
UpgradeRestsSettled == edits = 0 /\ (\A c \in Live : AtRest(c)) => Settled

\* Until the first edit everybody has what it asked for all along.
Unedited ==
    edits = 0 =>
        /\ Live = Ctps /\ installed = spec
        /\ \A c \in Ctps : /\ pc[c] # "idle" => seen[c].spec = spec[c]
                           /\ pc[c] = "writing" => plan[c].license = spec[c]
=============================================================================
