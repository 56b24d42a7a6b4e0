------------------------ MODULE LicenseClaimsProofs ------------------------
(***************************************************************************)
(* Proofs about LicenseClaims, for any number of ControlPlanes, Secrets    *)
(* and creation times.                                                     *)
(***************************************************************************)
EXTENDS LicenseClaims, WellFoundedInduction, TLAPS

\* What the guard compares: one entry per ControlPlane.
Entries == [id : Ctps, spec : MaybeSecret, claim : MaybeSecret, created : Times]

-----------------------------------------------------------------------------
(* claim_order is a total order with a least element in every set *)

\* The lexicographic order written out: four ways to precede.
LEMMA PrecedesExpanded ==
    ASSUME NEW s, NEW a \in Entries, NEW b \in Entries
    PROVE  LET x == ClaimRank(s, a)
               y == ClaimRank(s, b)
           IN  Precedes(s, a, b) <=>
                 \/ x[1] < y[1]
                 \/ x[1] = y[1] /\ x[2] < y[2]
                 \/ x[1] = y[1] /\ x[2] = y[2] /\ x[3] < y[3]
                 \/ x[1] = y[1] /\ x[2] = y[2] /\ x[3] = y[3] /\ x[4] < y[4]
<1> DEFINE x == ClaimRank(s, a)
           y == ClaimRank(s, b)
           Q(i) == x[i] < y[i] /\ \A j \in 1 .. (i - 1) : x[j] = y[j]
<1>1. 1 .. 4 = {1, 2, 3, 4}
  OBVIOUS
<1>2. /\ 1 .. (1 - 1) = {}     /\ 1 .. (2 - 1) = {1}
      /\ 1 .. (3 - 1) = {1, 2} /\ 1 .. (4 - 1) = {1, 2, 3}
  OBVIOUS
<1>3. Precedes(s, a, b) <=> \E i \in 1 .. 4 : Q(i)
  BY DEF Precedes
<1> HIDE DEF x, y
<1>4. (\E i \in 1 .. 4 : Q(i)) <=> Q(1) \/ Q(2) \/ Q(3) \/ Q(4)
  <2> HIDE DEF Q
  <2> QED BY <1>1
<1>5. /\ Q(1) <=> x[1] < y[1]
      /\ Q(2) <=> x[1] = y[1] /\ x[2] < y[2]
      /\ Q(3) <=> x[1] = y[1] /\ x[2] = y[2] /\ x[3] < y[3]
      /\ Q(4) <=> x[1] = y[1] /\ x[2] = y[2] /\ x[3] = y[3] /\ x[4] < y[4]
  BY <1>2
<1> HIDE DEF Q
<1> QED BY <1>3, <1>4, <1>5 DEF x, y

\* The components of a rank are natural numbers and the last one is the
\* identity of the ControlPlane.
LEMMA RankType ==
    ASSUME NEW s, NEW a \in Entries
    PROVE  LET x == ClaimRank(s, a)
           IN  /\ x[1] \in Nat /\ x[2] \in Nat /\ x[3] \in Nat /\ x[4] \in Nat
               /\ x[1] = 0 <=> a.claim = s
               /\ x[1] \in {0, 1}
               /\ x[4] = Ident[a.id]
<1>1. a.id \in Ctps /\ a.created \in Nat /\ Ident[a.id] \in Nat
  BY ConstAssumption DEF Entries, ConstAssumption
<1> QED BY <1>1 DEF ClaimRank

\* Two entries of different ControlPlanes are ordered one way or the other,
\* never both.
LEMMA PrecedesTotal ==
    ASSUME NEW s, NEW a \in Entries, NEW b \in Entries, a.id # b.id
    PROVE  Precedes(s, a, b) <=> ~Precedes(s, b, a)
<1>1. Ident[a.id] # Ident[b.id]
  BY ConstAssumption DEF Entries, ConstAssumption
<1> DEFINE x == ClaimRank(s, a)
           y == ClaimRank(s, b)
<1>2. /\ x[1] \in Nat /\ x[2] \in Nat /\ x[3] \in Nat /\ x[4] \in Nat
      /\ y[1] \in Nat /\ y[2] \in Nat /\ y[3] \in Nat /\ y[4] \in Nat
      /\ x[4] # y[4]
  BY <1>1, RankType
<1>3. Precedes(s, a, b) <=>
                 \/ x[1] < y[1]
                 \/ x[1] = y[1] /\ x[2] < y[2]
                 \/ x[1] = y[1] /\ x[2] = y[2] /\ x[3] < y[3]
                 \/ x[1] = y[1] /\ x[2] = y[2] /\ x[3] = y[3] /\ x[4] < y[4]
  BY PrecedesExpanded
<1>4. Precedes(s, b, a) <=>
                 \/ y[1] < x[1]
                 \/ y[1] = x[1] /\ y[2] < x[2]
                 \/ y[1] = x[1] /\ y[2] = x[2] /\ y[3] < x[3]
                 \/ y[1] = x[1] /\ y[2] = x[2] /\ y[3] = x[3] /\ y[4] < x[4]
  BY PrecedesExpanded
<1> HIDE DEF x, y
<1> QED BY <1>2, <1>3, <1>4

\* A non-empty set of naturals has a least element.
LEMMA NatLeast ==
    ASSUME NEW T \in SUBSET Nat, T # {}
    PROVE  \E m \in T : \A n \in T : m <= n
<1>1. PICK m \in T : \A n \in T : <<n, m>> \notin OpToRel(<, Nat)
  BY NatLessThanWellFounded, WFMin
<1>2. \A n \in T : ~(n < m)
  BY <1>1 DEF OpToRel
<1> QED BY <1>2

\* Every non-empty set of entries of different ControlPlanes has an entry that
\* precedes the others: LicenseConflict always names one.
LEMMA LeastEntry ==
    ASSUME NEW s, NEW E \in SUBSET Entries, E # {},
           \A p, q \in E : p.id = q.id => p = q
    PROVE  \E p \in E : \A q \in E \ {p} : Precedes(s, p, q)
<1> DEFINE R(p, i) == ClaimRank(s, p)[i]
<1>0. \A p \in E : R(p, 1) \in Nat /\ R(p, 2) \in Nat /\ R(p, 3) \in Nat /\ R(p, 4) \in Nat
  BY RankType
<1>p. \A p, q \in E : Precedes(s, p, q) <=>
                 \/ R(p, 1) < R(q, 1)
                 \/ R(p, 1) = R(q, 1) /\ R(p, 2) < R(q, 2)
                 \/ R(p, 1) = R(q, 1) /\ R(p, 2) = R(q, 2) /\ R(p, 3) < R(q, 3)
                 \/ R(p, 1) = R(q, 1) /\ R(p, 2) = R(q, 2) /\ R(p, 3) = R(q, 3) /\ R(p, 4) < R(q, 4)
  BY PrecedesExpanded
<1>i. \A p, q \in E : R(p, 4) = R(q, 4) => p = q
  BY RankType, ConstAssumption DEF Entries, ConstAssumption
<1> HIDE DEF R
<1>l. ASSUME NEW F \in SUBSET E, F # {}, NEW i \in {1, 2, 3, 4}
      PROVE  \E p \in F : \A q \in F : R(p, i) <= R(q, i)
  <2> DEFINE T == {R(p, i) : p \in F}
  <2>1. T \in SUBSET Nat /\ T # {}
    BY <1>0, <1>l
  <2> HIDE DEF T
  <2>2. PICK m \in T : \A n \in T : m <= n
    BY <2>1, NatLeast
  <2> QED BY <2>2 DEF T
<1>1. PICK p1 \in E : \A q \in E : R(p1, 1) <= R(q, 1)
  BY <1>l
<1> DEFINE E1 == {q \in E : R(q, 1) = R(p1, 1)}
<1>2. PICK p2 \in E1 : \A q \in E1 : R(p2, 2) <= R(q, 2)
  BY <1>l
<1> DEFINE E2 == {q \in E1 : R(q, 2) = R(p2, 2)}
<1>3. PICK p3 \in E2 : \A q \in E2 : R(p3, 3) <= R(q, 3)
  BY <1>l
<1> DEFINE E3 == {q \in E2 : R(q, 3) = R(p3, 3)}
<1>4. PICK p4 \in E3 : \A q \in E3 : R(p4, 4) <= R(q, 4)
  BY <1>l
<1>5. ASSUME NEW q \in E \ {p4} PROVE Precedes(s, p4, q)
  <2>1. p4 \in E /\ R(p4, 4) # R(q, 4)
    BY <1>i, <1>5
  <2>2. R(p4, 1) = R(p1, 1) /\ R(p4, 2) = R(p2, 2) /\ R(p4, 3) = R(p3, 3)
    OBVIOUS
  <2>3. CASE q \notin E1
    BY <2>1, <2>2, <2>3, <1>1, <1>0, <1>p
  <2>4. CASE q \in E1 /\ q \notin E2
    BY <2>1, <2>2, <2>4, <1>2, <1>0, <1>p
  <2>5. CASE q \in E2 /\ q \notin E3
    BY <2>1, <2>2, <2>5, <1>3, <1>0, <1>p
  <2>6. CASE q \in E3
    BY <2>1, <2>2, <2>6, <1>4, <1>0, <1>p
  <2> QED BY <2>3, <2>4, <2>5, <2>6
<1> QED BY <1>5

\* What the guard looks at are entries of different ControlPlanes.
LEMMA AheadEntries ==
    ASSUME TypeOK, NEW me \in Entries
    PROVE  /\ Ahead(me) \in SUBSET Entries
           /\ \A p \in Ahead(me) : p.id \in Live \ {me.id} /\ p = Entry(p.id)
           /\ \A p, q \in Ahead(me) : p.id = q.id => p = q
<1>1. \A d \in Live : Entry(d) \in Entries /\ Entry(d).id = d
  BY DEF Live, Entry, Entries, TypeOK
<1> QED BY <1>1 DEF Ahead

\* The guard returns NoOne or the peer of `ahead` that precedes the others.
LEMMA ConflictNames ==
    ASSUME TypeOK, NEW me \in Entries
    PROVE  LET o == LicenseConflict(me)
           IN  \/ o = NoOne /\ (me.spec = NoSecret \/ Ahead(me) = {})
               \/ /\ me.spec # NoSecret
                  /\ o \in Live \ {me.id}
                  /\ Entry(o) \in Ahead(me)
                  /\ \A q \in Ahead(me) \ {Entry(o)} : Precedes(me.spec, Entry(o), q)
<1>1. CASE me.spec = NoSecret \/ Ahead(me) = {}
  BY <1>1 DEF LicenseConflict
<1>2. CASE ~(me.spec = NoSecret \/ Ahead(me) = {})
  <2> DEFINE First(p) == \A q \in Ahead(me) \ {p} : Precedes(me.spec, p, q)
             w == CHOOSE p \in Ahead(me) : First(p)
  <2>1. \E p \in Ahead(me) : First(p)
    BY <1>2, AheadEntries, LeastEntry
  <2>2. w \in Ahead(me) /\ First(w)
    BY <2>1
  <2>3. LicenseConflict(me) = w.id
    BY <1>2 DEF LicenseConflict
  <2>4. w.id \in Live \ {me.id} /\ w = Entry(w.id)
    BY <2>2, AheadEntries
  <2> HIDE DEF w
  <2> QED BY <1>2, <2>2, <2>3, <2>4
<1> QED BY <1>1, <1>2

\* What the reconcile of c hands to the guard.
Me(c) == [id |-> c, spec |-> seen[c].spec, claim |-> seen[c].claim,
          created |-> seen[c].created]

\* The plan of a reconcile is of its type.
LEMMA PlanType ==
    ASSUME TypeOK, NEW c \in Ctps
    PROVE  /\ Me(c) \in Entries
           /\ LicenseConflict(Me(c)) \in MaybeOwner
           /\ LicenseClaim(seen[c], LicenseConflict(Me(c))) \in MaybeSecret
<1>1. seen[c] \in View
  BY DEF TypeOK
<1>2. Me(c) \in Entries
  BY <1>1 DEF Me, Entries, View
<1>3. LicenseConflict(Me(c)) \in MaybeOwner
  BY <1>2, ConflictNames DEF MaybeOwner, Live
<1> QED BY <1>1, <1>2, <1>3 DEF LicenseClaim, View

LEMMA NoViewType == NoView \in View /\ NoPlan \in Plan
<1>1. (CHOOSE t \in Times : TRUE) \in Times
  BY ConstAssumption DEF ConstAssumption
<1> QED BY <1>1 DEF NoView, View, NoPlan, Plan, MaybeSecret, MaybeOwner

-----------------------------------------------------------------------------
(* Type correctness *)

LEMMA TypeInit == Init => TypeOK
<1> SUFFICES ASSUME Init PROVE TypeOK
  OBVIOUS
<1>1. (CHOOSE t \in Times : TRUE) \in Times
  BY ConstAssumption DEF ConstAssumption
<1>2. 0 \in 0 .. MaxEdits /\ 0 \in 0 .. MaxAborts
  BY ConstAssumption DEF ConstAssumption
<1> QED BY <1>1, <1>2, NoViewType DEF Init, Blank, TypeOK, MaybeSecret, MaybeOwner

LEMMA TypeNext == TypeOK /\ [Next]_vars => TypeOK'
<1> SUFFICES ASSUME TypeOK, [Next]_vars PROVE TypeOK'
  OBVIOUS
<1> USE ConstAssumption DEF TypeOK, ConstAssumption
<1>1. CASE UNCHANGED vars
  BY <1>1 DEF vars, xrVars, ownVars, runVars
<1>2. ASSUME NEW c \in Ctps, User(c) PROVE TypeOK'
  <2>1. Edit => edits' \in 0 .. MaxEdits /\ aborts' \in 0 .. MaxAborts
    BY DEF Edit
  <2>2. CASE Create(c)
    BY <2>1, <2>2 DEF Create, Edit, ownVars, runVars, MaybeSecret
  <2>3. CASE Repoint(c)
    BY <2>1, <2>3 DEF Repoint, Edit, ownVars, runVars, MaybeSecret
  <2>4. CASE ResetCreation(c)
    BY <2>1, <2>4 DEF ResetCreation, Edit, ownVars, runVars
  <2>5. CASE Delete(c)
    BY <2>1, <2>5 DEF Delete, Edit, ownVars, runVars
  <2> QED BY <1>2, <2>2, <2>3, <2>4, <2>5 DEF User
<1>3. ASSUME NEW c \in Ctps, Gone(c) PROVE TypeOK'
  BY <1>3 DEF Gone, runVars, MaybeSecret, MaybeOwner
<1>4. ASSUME NEW c \in Ctps, Observe(c) PROVE TypeOK'
  <2>1. [spec |-> spec[c], claim |-> claim[c], created |-> created[c],
         installed |-> installed[c]] \in View
    BY DEF View
  <2> QED BY <1>4, <2>1 DEF Observe, xrVars, ownVars
<1>5. ASSUME NEW c \in Ctps, Compose(c) PROVE TypeOK'
  <2> DEFINE o == LicenseConflict(Me(c))
             q == [license |-> LicenseClaim(seen[c], o), conflict |-> o]
  <2>1. q \in Plan
    BY PlanType DEF Plan
  <2>2. plan' = [plan EXCEPT ![c] = q]
    BY <1>5 DEF Compose, Me
  <2>3. plan' \in [Ctps -> Plan]
    <3> HIDE DEF q
    <3> QED BY <2>1, <2>2
  <2>4. raced' \subseteq (Ctps \X Ctps)
    BY <1>5 DEF Compose, Live
  <2> QED BY <1>5, <2>3, <2>4 DEF Compose, xrVars, ownVars, Writes
<1>6. ASSUME NEW c \in Ctps, NEW w, Done(c, w)
      PROVE  /\ pc' \in [Ctps -> {"idle", "observed", "writing"}]
             /\ seen' \in [Ctps -> View]
             /\ plan' \in [Ctps -> Plan]
             /\ todo' \in [Ctps -> SUBSET Writes]
  BY <1>6, NoViewType DEF Done
<1>7. ASSUME NEW c \in Ctps, WriteStatus(c) PROVE TypeOK'
  <2>1. plan[c].license \in MaybeSecret /\ plan[c].conflict \in MaybeOwner
    BY DEF Plan
  <2> QED BY <1>6, <1>7, <2>1 DEF WriteStatus, xrVars
<1>8. ASSUME NEW c \in Ctps, ApplyObjects(c) PROVE TypeOK'
  <2>1. plan[c].license \in MaybeSecret
    BY DEF Plan
  <2> QED BY <1>6, <1>8, <2>1 DEF ApplyObjects, xrVars
<1>9. ASSUME NEW c \in Ctps, Abort(c) PROVE TypeOK'
  <2>1. aborts' \in 0 .. MaxAborts
    BY <1>9 DEF Abort
  <2> QED BY <1>9, <2>1, NoViewType DEF Abort, xrVars, ownVars
<1> QED BY <1>1, <1>2, <1>3, <1>4, <1>5, <1>7, <1>8, <1>9 DEF Next, Reconcile

\* Every variable keeps its type, for any ControlPlanes, Secrets and times; the
\* hard case is Compose, where the guard must find an owner to name.
THEOREM TypeCorrect == Spec => []TypeOK
BY TypeInit, TypeNext, PTL DEF Spec

-----------------------------------------------------------------------------
(* The inductive invariant *)

LEMMA InitIInv == Init => IInv
BY TypeInit DEF Init, Blank, IInv, StakesApart, ViewCurrent, PlanFromView,
                AbsentBlank, Live

\* A step that adds no stake, brings no ControlPlane to life and forgets no
\* race keeps the stakes apart.
LEMMA StakesShrink ==
    ASSUME StakesApart, Live' \subseteq Live, raced \subseteq raced',
           \A c \in Live' : Stake(c)' \subseteq Stake(c)
    PROVE  StakesApart'
BY DEF StakesApart

\* The heart of the argument: the reconcile of c takes a stake in the Secret it
\* plans only if it had it already, or the guard granted it.  In the second
\* case a peer d with a stake in it is either unsettled, and the race is
\* recorded, or it holds the Secret; then c outranks it only by holding the
\* Secret too.
LEMMA ComposeApart ==
    ASSUME IInv, NEW c \in Ctps, Compose(c)
    PROVE  StakesApart'
<1> USE DEF IInv
<1> DEFINE me == Me(c)
           o  == LicenseConflict(me)
           s  == LicenseClaim(seen[c], o)
<1>1. /\ me \in Entries /\ me.id = c
      /\ me.spec = seen[c].spec /\ me.claim = seen[c].claim
  BY PlanType DEF Me
<1>2. /\ pc[c] = "observed"
      /\ plan' = [plan EXCEPT ![c] = [license |-> s, conflict |-> o]]
      /\ pc' = [pc EXCEPT ![c] = "writing"]
      /\ raced' = raced \cup
           {<<c, d>> : d \in {e \in Live \ {c} :
               o = NoOne /\ Unsettled(e) /\ me.spec \in Stake(e)}}
      /\ UNCHANGED <<life, claim, installed>>
  BY <1>1 DEF Compose, Me, xrVars, ownVars
<1>3. seen[c].claim = claim[c] /\ seen[c].installed = installed[c]
  BY <1>2 DEF ViewCurrent
<1> HIDE DEF me, o, s
<1>4. /\ Live' = Live
      /\ \A d \in Ctps \ {c} : Stake(d)' = Stake(d)
      /\ Stake(c)' \subseteq Stake(c) \cup ({s} \ {NoSecret})
  BY <1>2 DEF Live, Stake, TypeOK
<1>5. CASE s \in Stake(c) \cup {NoSecret}
  <2>1. \A d \in Live' : Stake(d)' \subseteq Stake(d)
    BY <1>4, <1>5 DEF Live
  <2> QED BY <1>2, <1>4, <2>1, StakesShrink
<1>6. CASE s \notin Stake(c) \cup {NoSecret}
  <2>1. o = NoOne /\ s = me.spec /\ s # NoSecret
    BY <1>1, <1>3, <1>6 DEF s, LicenseClaim, Stake
  <2>2. Ahead(me) = {}
    BY <1>1, <2>1, ConflictNames, ConstAssumption DEF o, Live, ConstAssumption
  <2>3. ASSUME NEW d \in Live \ {c}, s \in Stake(d)
        PROVE  <<c, d>> \in raced'
    <3>1. CASE Unsettled(d)
      BY <1>2, <2>1, <2>3, <3>1
    <3>2. CASE ~Unsettled(d)
      <4>1. claim[d] = s
        BY <2>3, <3>2 DEF Unsettled, Stake
      <4>2. claim[c] # s
        BY <1>6 DEF Stake
      <4>3. Entry(d) \in Entries /\ Entry(d).id = d /\ Entry(d).claim = s
        BY <4>1 DEF Entry, Entries, Live, TypeOK
      <4>4. ~Precedes(me.spec, Entry(d), me)
        BY <1>1, <2>1, <2>2, <4>3 DEF Ahead
      <4>5. Precedes(me.spec, me, Entry(d))
        BY <1>1, <4>3, <4>4, PrecedesTotal
      <4>6. Precedes(me.spec, Entry(d), me)
        <5>1. ClaimRank(me.spec, Entry(d))[1] < ClaimRank(me.spec, me)[1]
          BY <1>1, <1>3, <2>1, <4>2, <4>3, RankType
        <5> QED BY <1>1, <4>3, <5>1, PrecedesExpanded
      <4> QED BY <4>4, <4>6
    <3> QED BY <3>1, <3>2
  <2>4. ASSUME NEW x \in Live, NEW y \in Live, x # y, Stake(x)' \cap Stake(y)' # {}
        PROVE  <<x, y>> \in raced' \/ <<y, x>> \in raced'
    <3>1. CASE Stake(x) \cap Stake(y) # {}
      BY <1>2, <2>4, <3>1 DEF StakesApart
    <3>2. CASE Stake(x) \cap Stake(y) = {}
      <4>1. (x = c /\ s \in Stake(y)) \/ (y = c /\ s \in Stake(x))
        BY <1>4, <2>4, <3>2 DEF Live
      <4> QED BY <2>3, <2>4, <4>1
    <3> QED BY <3>1, <3>2
  <2> QED BY <1>4, <2>4 DEF StakesApart
<1> QED BY <1>5, <1>6

LEMMA NextIInv == IInv /\ [Next]_vars => IInv'
<1> SUFFICES ASSUME IInv, [Next]_vars PROVE IInv'
  OBVIOUS
<1>0. TypeOK /\ TypeOK'
  BY TypeNext DEF IInv
<1> DEFINE Rest == ViewCurrent /\ PlanFromView /\ AbsentBlank
<1> SUFFICES StakesApart' /\ Rest'
  BY <1>0 DEF IInv
<1>1. CASE UNCHANGED vars
  BY <1>1 DEF IInv, vars, xrVars, ownVars, runVars, StakesApart, ViewCurrent,
              PlanFromView, AbsentBlank, Live, Stake
<1>2. ASSUME NEW c \in Ctps, Create(c) PROVE StakesApart' /\ Rest'
  <2>1. /\ Live' = Live \cup {c} /\ c \notin Live /\ Stake(c)' = {}
        /\ \A d \in Ctps : Stake(d)' = Stake(d)
    BY <1>0, <1>2 DEF Create, ownVars, runVars, Live, Stake, TypeOK, IInv, AbsentBlank
  <2>2. StakesApart'
    BY <1>2, <2>1 DEF Create, StakesApart, IInv, Live
  <2>3. Rest'
    BY <1>0, <1>2 DEF Create, ownVars, runVars, TypeOK, IInv, ViewCurrent,
                      PlanFromView, AbsentBlank
  <2> QED BY <2>2, <2>3
<1>3. ASSUME NEW c \in Ctps, Repoint(c) \/ ResetCreation(c) \/ Delete(c)
      PROVE  StakesApart' /\ Rest'
  <2>1. UNCHANGED <<ownVars, runVars, raced>>
    BY <1>3 DEF Repoint, ResetCreation, Delete
  <2>2. Live' \subseteq Live /\ \A d \in Ctps : life'[d] = "absent" => life[d] = "absent"
    BY <1>0, <1>3 DEF Repoint, ResetCreation, Delete, Live, TypeOK
  <2>3. StakesApart'
    BY <2>1, <2>2, StakesShrink DEF ownVars, runVars, Stake, IInv
  <2>4. Rest'
    BY <2>1, <2>2 DEF ownVars, runVars, IInv, ViewCurrent, PlanFromView, AbsentBlank
  <2> QED BY <2>3, <2>4
<1>4. ASSUME NEW c \in Ctps, Gone(c) PROVE StakesApart' /\ Rest'
  <2>1. /\ Live' = Live /\ c \notin Live
        /\ \A d \in Ctps \ {c} : Stake(d)' = Stake(d)
        /\ \A x, y \in Ctps \ {c} : <<x, y>> \in raced => <<x, y>> \in raced'
    BY <1>0, <1>4 DEF Gone, runVars, Live, Stake, TypeOK
  <2>2. StakesApart'
    BY <2>1 DEF StakesApart, IInv, Live
  <2>3. Rest'
    BY <1>0, <1>4 DEF Gone, runVars, TypeOK, IInv, ViewCurrent, PlanFromView, AbsentBlank
  <2> QED BY <2>2, <2>3
<1>5. ASSUME NEW c \in Ctps, Observe(c) PROVE StakesApart' /\ Rest'
  <2>1. Live' = Live /\ raced' = raced /\ \A d \in Ctps : Stake(d)' \subseteq Stake(d)
    BY <1>0, <1>5 DEF Observe, xrVars, ownVars, Live, Stake, TypeOK
  <2>2. StakesApart'
    BY <2>1, StakesShrink DEF IInv, Live
  <2>3. Rest'
    BY <1>0, <1>5 DEF Observe, xrVars, ownVars, TypeOK, IInv, ViewCurrent,
                      PlanFromView, AbsentBlank
  <2> QED BY <2>2, <2>3
<1>6. ASSUME NEW c \in Ctps, Compose(c) PROVE StakesApart' /\ Rest'
  <2> DEFINE o == LicenseConflict(Me(c))
  <2>1. StakesApart'
    BY <1>6, ComposeApart
  <2>2. /\ pc[c] = "observed" /\ pc' = [pc EXCEPT ![c] = "writing"]
        /\ plan'[c] = [license |-> LicenseClaim(seen[c], o), conflict |-> o]
        /\ \A d \in Ctps \ {c} : plan'[d] = plan[d]
        /\ \A d \in Ctps \ {c} : todo'[d] = todo[d]
        /\ UNCHANGED <<life, claim, installed, seen>>
    BY <1>0, <1>6 DEF Compose, Me, xrVars, ownVars, TypeOK
  <2>3. seen[c].spec = NoSecret => o = NoOne
    BY DEF LicenseConflict, Me
  <2>4. seen[c].installed = installed[c] /\ life[c] # "absent"
    BY <2>2 DEF IInv, ViewCurrent, AbsentBlank
  <2> HIDE DEF o
  <2>5. ViewCurrent' /\ AbsentBlank'
    BY <1>0, <2>2, <2>4 DEF IInv, ViewCurrent, AbsentBlank, TypeOK
  <2>6. PlanFromView'
    BY <1>0, <2>2, <2>3, <2>4 DEF IInv, PlanFromView, LicenseClaim, TypeOK
  <2> QED BY <2>1, <2>5, <2>6
<1>7. ASSUME NEW c \in Ctps, NEW w \in Writes, Done(c, w)
      PROVE  /\ pc[c] = "writing" /\ pc'[c] \in {"idle", "writing"}
             /\ w \in todo[c] /\ w \notin todo'[c]
             /\ todo'[c] \subseteq todo[c]
             /\ pc'[c] = "writing" => seen'[c] = seen[c] /\ plan'[c] = plan[c]
             /\ \A d \in Ctps \ {c} : /\ pc'[d] = pc[d] /\ seen'[d] = seen[d]
                                      /\ plan'[d] = plan[d] /\ todo'[d] = todo[d]
  BY <1>0, <1>7 DEF Done, TypeOK
<1>8. ASSUME NEW c \in Ctps, WriteStatus(c) PROVE StakesApart' /\ Rest'
  <2>1. /\ claim' = [claim EXCEPT ![c] = plan[c].license]
        /\ UNCHANGED <<life, installed, raced>>
    BY <1>8 DEF WriteStatus, xrVars
  <2>2. Done(c, "status") /\ "status" \in Writes
    BY <1>8 DEF WriteStatus, Writes
  <2>3. Live' = Live /\ \A d \in Ctps : Stake(d)' \subseteq Stake(d)
    BY <1>0, <1>7, <2>1, <2>2 DEF Live, Stake, TypeOK
  <2>4. StakesApart'
    BY <2>1, <2>3, StakesShrink DEF IInv, Live
  <2>5. ViewCurrent' /\ AbsentBlank'
    BY <1>0, <1>7, <2>1, <2>2 DEF IInv, ViewCurrent, AbsentBlank, TypeOK
  <2>6. PlanFromView'
    BY <1>0, <1>7, <2>1, <2>2 DEF IInv, PlanFromView, LicenseClaim
  <2> QED BY <2>4, <2>5, <2>6
<1>9. ASSUME NEW c \in Ctps, ApplyObjects(c) PROVE StakesApart' /\ Rest'
  <2>1. /\ installed' = [installed EXCEPT ![c] = plan[c].license]
        /\ UNCHANGED <<life, claim, raced>>
    BY <1>9 DEF ApplyObjects, xrVars
  <2>2. Done(c, "objects") /\ "objects" \in Writes
    BY <1>9 DEF ApplyObjects, Writes
  <2>3. Live' = Live /\ \A d \in Ctps : Stake(d)' \subseteq Stake(d)
    BY <1>0, <1>7, <2>1, <2>2 DEF Live, Stake, TypeOK
  <2>4. StakesApart'
    BY <2>1, <2>3, StakesShrink DEF IInv, Live
  <2>5. ViewCurrent' /\ AbsentBlank'
    BY <1>0, <1>7, <2>1, <2>2 DEF IInv, ViewCurrent, AbsentBlank, TypeOK
  <2>6. PlanFromView'
    BY <1>0, <1>7, <2>1, <2>2 DEF IInv, PlanFromView, LicenseClaim, TypeOK
  <2> QED BY <2>4, <2>5, <2>6
<1>10. ASSUME NEW c \in Ctps, Abort(c) PROVE StakesApart' /\ Rest'
  <2>1. Live' = Live /\ raced' = raced /\ \A d \in Ctps : Stake(d)' \subseteq Stake(d)
    BY <1>0, <1>10 DEF Abort, xrVars, ownVars, Live, Stake, TypeOK
  <2>2. StakesApart'
    BY <2>1, StakesShrink DEF IInv, Live
  <2>3. Rest'
    BY <1>0, <1>10 DEF Abort, xrVars, ownVars, TypeOK, IInv, ViewCurrent,
                       PlanFromView, AbsentBlank, LicenseClaim
  <2> QED BY <2>2, <2>3
<1> QED BY <1>1, <1>2, <1>3, <1>4, <1>5, <1>6, <1>8, <1>9, <1>10
        DEF Next, User, Reconcile

\* The inductive invariant holds in every reachable state.
THEOREM InductiveInvariant == Spec => []IInv
BY InitIInv, NextIInv, PTL DEF Spec

\* Two live ControlPlanes share an installed license only after a race for it,
\* whatever the number of ControlPlanes and Secrets, and however their edits,
\* deletions, clock ties, aborted reconciles and restarts interleave.
THEOREM SharedOnlyByRaceHolds == Spec => []SharedOnlyByRace
<1>1. IInv => SharedOnlyByRace
  BY DEF IInv, StakesApart, SharedOnlyByRace, Shares, Stake, Live
<1> QED BY <1>1, InductiveInvariant, PTL

StripsNone ==
    \A c \in Live :
        c \in Live' /\ installed[c] # NoSecret /\ installed'[c] # installed[c]
            => /\ plan[c].conflict = NoOne
               /\ installed'[c] = seen[c].spec

\* A step takes no license away but as the spec that was read asks.
LEMMA NextStripsNone == IInv /\ [Next]_vars => StripsNone
<1> SUFFICES ASSUME IInv, [Next]_vars, NEW c \in Live, c \in Live',
                    installed[c] # NoSecret, installed'[c] # installed[c]
             PROVE  plan[c].conflict = NoOne /\ installed'[c] = seen[c].spec
  BY DEF StripsNone
<1>1. TypeOK /\ c \in Ctps /\ life[c] = "live" /\ life'[c] = "live"
  BY DEF IInv, Live
<1>2. ASSUME NEW d \in Ctps, Gone(d) PROVE c = d => FALSE
  BY <1>1, <1>2 DEF Gone
<1>3. ASSUME NEW d \in Ctps, ApplyObjects(d) PROVE c # d => FALSE
  BY <1>1, <1>3 DEF ApplyObjects, TypeOK
<1>4. ApplyObjects(c)
  BY <1>1, <1>2, <1>3 DEF Next, User, Create, Repoint, ResetCreation, Delete, Gone,
     Reconcile, Observe, Compose, WriteStatus, Abort, vars, ownVars, TypeOK
<1>5. /\ installed'[c] = plan[c].license /\ pc[c] = "writing" /\ "objects" \in todo[c]
  BY <1>1, <1>4 DEF ApplyObjects, Done, TypeOK
<1> QED BY <1>1, <1>5 DEF IInv, PlanFromView, LicenseClaim

\* An installed license is lost or replaced only as the spec the reconcile read
\* asks, never because of a conflict.
THEOREM NeverStripsLiveHolds == Spec => NeverStripsLive
<1>1. IInv /\ [Next]_vars => [StripsNone]_vars
  BY NextStripsNone
<1> QED BY <1>1, InductiveInvariant, PTL DEF Spec, NeverStripsLive, StripsNone

-----------------------------------------------------------------------------
(* One owner *)

\* The order is transitive.
LEMMA PrecedesTransitive ==
    ASSUME NEW s, NEW a \in Entries, NEW b \in Entries, NEW d \in Entries,
           Precedes(s, a, b), Precedes(s, b, d)
    PROVE  Precedes(s, a, d)
<1> DEFINE x == ClaimRank(s, a)
           y == ClaimRank(s, b)
           z == ClaimRank(s, d)
           Lex(u, v) == \/ u[1] < v[1]
                        \/ u[1] = v[1] /\ u[2] < v[2]
                        \/ u[1] = v[1] /\ u[2] = v[2] /\ u[3] < v[3]
                        \/ u[1] = v[1] /\ u[2] = v[2] /\ u[3] = v[3] /\ u[4] < v[4]
<1>1. /\ x[1] \in Nat /\ x[2] \in Nat /\ x[3] \in Nat /\ x[4] \in Nat
      /\ y[1] \in Nat /\ y[2] \in Nat /\ y[3] \in Nat /\ y[4] \in Nat
      /\ z[1] \in Nat /\ z[2] \in Nat /\ z[3] \in Nat /\ z[4] \in Nat
  BY RankType
<1>2. Lex(x, y) /\ Lex(y, z)
  BY PrecedesExpanded
<1>3. Precedes(s, a, d) <=> Lex(x, z)
  BY PrecedesExpanded
<1> HIDE DEF x, y, z
<1> QED BY <1>1, <1>2, <1>3

LEMMA TypedOneOwner == TypeOK => OneOwner
<1> SUFFICES ASSUME TypeOK, NEW c \in Live, NEW d \in Live, c # d,
                    spec[c] = spec[d], spec[c] # NoSecret
             PROVE  LET a == LicenseConflict(Entry(c))
                        b == LicenseConflict(Entry(d))
                    IN  /\ a = NoOne => b = c
                        /\ a # NoOne => b \in {a, NoOne}
  BY DEF OneOwner
<1> DEFINE a == LicenseConflict(Entry(c))
           b == LicenseConflict(Entry(d))
           s == spec[c]
<1>1. \A e \in Live : /\ Entry(e) \in Entries /\ Entry(e).id = e /\ e # NoOne
                      /\ Entry(e).spec = spec[e] /\ Entry(e).claim = claim[e]
  BY ConstAssumption DEF Entry, Entries, Live, TypeOK, ConstAssumption
<1>2. \A e \in {c, d}, f \in Live :
          Entry(f) \in Ahead(Entry(e)) <=>
              /\ f # e
              /\ s \in {spec[f], claim[f]}
              /\ Precedes(s, Entry(f), Entry(e))
  BY <1>1 DEF Ahead
<1>3. \/ a = NoOne /\ Ahead(Entry(c)) = {}
      \/ /\ a \in Live \ {c} /\ Entry(a) \in Ahead(Entry(c))
         /\ \A q \in Ahead(Entry(c)) \ {Entry(a)} : Precedes(s, Entry(a), q)
  BY <1>1, ConflictNames
<1>4. \/ b = NoOne /\ Ahead(Entry(d)) = {}
      \/ /\ b \in Live \ {d} /\ Entry(b) \in Ahead(Entry(d))
         /\ \A q \in Ahead(Entry(d)) \ {Entry(b)} : Precedes(s, Entry(b), q)
  BY <1>1, ConflictNames
<1> HIDE DEF a, b
<1>5. ASSUME a = NoOne PROVE b = c
  <2>1. Ahead(Entry(c)) = {}
    BY <1>1, <1>3, <1>5
  <2>2. Precedes(s, Entry(c), Entry(d))
    BY <1>1, <1>2, <2>1, PrecedesTotal
  <2>3. b \in Live /\ Entry(c) \in Ahead(Entry(d))
    BY <1>2, <1>4, <2>2
  <2>4. ASSUME b # c PROVE FALSE
    <3>1. Precedes(s, Entry(b), Entry(c))
      BY <1>1, <1>4, <2>3, <2>4
    <3>2. Entry(b) \in Ahead(Entry(c))
      BY <1>2, <1>4, <2>3, <2>4, <3>1
    <3> QED BY <2>1, <3>2
  <2> QED BY <2>4
<1>6. ASSUME a # NoOne, b # NoOne, a # b PROVE FALSE
  <2>1. /\ a \in Live /\ a # c /\ s \in {spec[a], claim[a]}
        /\ Precedes(s, Entry(a), Entry(c))
        /\ b \in Live /\ b # d /\ s \in {spec[b], claim[b]}
        /\ Precedes(s, Entry(b), Entry(d))
    BY <1>2, <1>3, <1>4, <1>6
  <2>2. CASE Precedes(s, Entry(a), Entry(b))
    <3>1. Precedes(s, Entry(a), Entry(d))
      BY <1>1, <2>1, <2>2, PrecedesTransitive
    <3>2. a # d
      BY <1>1, <1>6, <2>1, <2>2, PrecedesTotal
    <3>3. Precedes(s, Entry(b), Entry(a))
      BY <1>1, <1>2, <1>4, <1>6, <2>1, <3>1, <3>2
    <3> QED BY <1>1, <1>6, <2>1, <2>2, <3>3, PrecedesTotal
  <2>3. CASE Precedes(s, Entry(b), Entry(a))
    <3>1. Precedes(s, Entry(b), Entry(c))
      BY <1>1, <2>1, <2>3, PrecedesTransitive
    <3>2. b # c
      BY <1>1, <1>6, <2>1, <2>3, PrecedesTotal
    <3>3. Precedes(s, Entry(a), Entry(b))
      BY <1>1, <1>2, <1>3, <1>6, <2>1, <3>1, <3>2
    <3> QED BY <1>1, <1>6, <2>1, <2>3, <3>3, PrecedesTotal
  <2> QED BY <1>1, <1>6, <2>1, <2>2, <2>3, PrecedesTotal
<1> QED BY <1>5, <1>6 DEF a, b

\* In every reachable state the guard gives all requesters of one Secret
\* answers that agree on its owner, for any set of ControlPlanes.
THEOREM OneOwnerHolds == Spec => []OneOwner
BY TypedOneOwner, TypeCorrect, PTL

-----------------------------------------------------------------------------
(* Where the reconciles come to rest *)

\* What the guard's verdict on c says of the peers, at any moment: with NoOne,
\* every peer that requests or claims the Secret comes after c; a named owner
\* requests or claims it and comes before c and before the other candidates.
Verdict(c) ==
    LET o == LicenseConflict(Entry(c))
    IN  \/ /\ o = NoOne
           /\ spec[c] # NoSecret =>
                \A d \in Live \ {c} : spec[c] \in {spec[d], claim[d]}
                    => ~Precedes(spec[c], Entry(d), Entry(c))
        \/ /\ o \in Live \ {c} /\ spec[c] # NoSecret
           /\ spec[c] \in {spec[o], claim[o]}
           /\ Precedes(spec[c], Entry(o), Entry(c))
           /\ \A d \in Live \ {c, o} :
                 /\ spec[c] \in {spec[d], claim[d]}
                 /\ Precedes(spec[c], Entry(d), Entry(c))
                 => Precedes(spec[c], Entry(o), Entry(d))

LEMMA LiveEntries ==
    ASSUME TypeOK, NEW c \in Live
    PROVE  /\ Entry(c) \in Entries /\ Entry(c).id = c
           /\ Entry(c).spec = spec[c] /\ Entry(c).claim = claim[c]
           /\ c \in Ctps /\ c # NoOne
BY ConstAssumption DEF Entry, Entries, Live, TypeOK, ConstAssumption

LEMMA VerdictHolds ==
    ASSUME TypeOK, NEW c \in Live
    PROVE  Verdict(c)
<1> DEFINE o == LicenseConflict(Entry(c))
           s == spec[c]
<1>1. \A d \in Live : Entry(d) \in Ahead(Entry(c)) <=>
          d # c /\ s \in {spec[d], claim[d]} /\ Precedes(s, Entry(d), Entry(c))
  BY LiveEntries DEF Ahead
<1>2. \/ o = NoOne /\ (s = NoSecret \/ Ahead(Entry(c)) = {})
      \/ /\ s # NoSecret /\ o \in Live \ {c} /\ Entry(o) \in Ahead(Entry(c))
         /\ \A q \in Ahead(Entry(c)) \ {Entry(o)} : Precedes(s, Entry(o), q)
  BY LiveEntries, ConflictNames
<1> HIDE DEF o
<1>3. CASE o = NoOne
  BY <1>1, <1>2, <1>3, LiveEntries DEF Verdict, o
<1>4. CASE o # NoOne
  <2>1. \A d \in Live \ {c, o} : Entry(d) # Entry(o)
    BY <1>2, <1>4, LiveEntries
  <2> QED BY <1>1, <1>2, <1>4, <2>1 DEF Verdict, o
<1> QED BY <1>3, <1>4

\* The owner of a Secret is told of no conflict, unless it wants another Secret.
LEMMA OwnerUndisputed ==
    ASSUME TypeOK, NEW c \in Live, NEW o \in Live, o # c,
           LicenseConflict(Entry(c)) = o, spec[o] = spec[c]
    PROVE  LicenseConflict(Entry(o)) = NoOne
<1> SUFFICES ASSUME NEW p \in Live \ {o}, LicenseConflict(Entry(o)) = p PROVE FALSE
  BY VerdictHolds DEF Verdict
<1>1. /\ Precedes(spec[c], Entry(o), Entry(c))
      /\ \A d \in Live \ {c, o} : /\ spec[c] \in {spec[d], claim[d]}
                                  /\ Precedes(spec[c], Entry(d), Entry(c))
                                  => Precedes(spec[c], Entry(o), Entry(d))
  BY VerdictHolds, LiveEntries DEF Verdict
<1>2. /\ spec[c] \in {spec[p], claim[p]}
      /\ Precedes(spec[c], Entry(p), Entry(o))
  BY VerdictHolds, LiveEntries DEF Verdict
<1>3. p # c
  BY <1>1, <1>2, LiveEntries, PrecedesTotal
<1>4. Precedes(spec[c], Entry(p), Entry(c))
  BY <1>1, <1>2, LiveEntries, PrecedesTransitive
<1>5. Precedes(spec[c], Entry(o), Entry(p))
  BY <1>1, <1>2, <1>3, <1>4
<1> QED BY <1>2, <1>5, LiveEntries, PrecedesTotal

\* Of two that ask for one Secret one is told of a conflict.
LEMMA NotBothGranted ==
    ASSUME TypeOK, NEW c \in Live, NEW d \in Live, c # d,
           spec[c] = spec[d], spec[c] # NoSecret,
           LicenseConflict(Entry(c)) = NoOne, LicenseConflict(Entry(d)) = NoOne
    PROVE  FALSE
<1>1. /\ ~Precedes(spec[c], Entry(d), Entry(c))
      /\ ~Precedes(spec[c], Entry(c), Entry(d))
  BY VerdictHolds, LiveEntries DEF Verdict
<1> QED BY <1>1, LiveEntries, PrecedesTotal

LEMMA Resting ==
    ASSUME TypeOK, NEW c \in Live, AtRest(c)
    PROVE  /\ conflict[c] = LicenseConflict(Entry(c)) /\ claim[c] = installed[c]
           /\ conflict[c] = NoOne \/ spec[c] = NoSecret => installed[c] = spec[c]
<1> DEFINE v == [spec |-> spec[c], installed |-> installed[c]]
<1>1. v.spec = spec[c] /\ v.installed = installed[c]
  OBVIOUS
<1> HIDE DEF v
<1> QED BY <1>1 DEF AtRest, LicenseClaim, v

LEMMA RestJust == TypeOK => RestIsJust
<1> SUFFICES ASSUME TypeOK, \A c \in Live : AtRest(c), NEW c \in Live
             PROVE  /\ conflict[c] = NoOne => installed[c] = spec[c]
                    /\ conflict[c] # NoOne =>
                         conflict[c] \in Live \ {c} /\ installed[conflict[c]] = spec[c]
                    /\ \A d \in Live : Shares(c, d) => conflict[c] # NoOne \/ conflict[d] # NoOne
  BY DEF RestIsJust
<1>1. conflict[c] = NoOne => installed[c] = spec[c]
  BY Resting
<1>2. ASSUME conflict[c] # NoOne
      PROVE  conflict[c] \in Live \ {c} /\ installed[conflict[c]] = spec[c]
  <2> DEFINE o == conflict[c]
  <2>1. /\ o = LicenseConflict(Entry(c)) /\ o \in Live \ {c}
        /\ spec[c] \in {spec[o], claim[o]}
    BY <1>2, Resting, VerdictHolds DEF Verdict
  <2> HIDE DEF o
  <2>2. CASE spec[o] = spec[c]
    <3>1. LicenseConflict(Entry(o)) = NoOne
      BY <2>1, <2>2, OwnerUndisputed
    <3> QED BY <2>1, <2>2, <3>1, Resting DEF o
  <2>3. CASE spec[o] # spec[c]
    BY <2>1, <2>3, Resting DEF o
  <2> QED BY <2>2, <2>3
<1>3. ASSUME NEW d \in Live, Shares(c, d), conflict[c] = NoOne, conflict[d] = NoOne
      PROVE  FALSE
  <2>1. c # d /\ spec[c] = spec[d] /\ spec[c] # NoSecret
    BY <1>3, Resting DEF Shares
  <2> QED BY <1>3, <2>1, Resting, NotBothGranted
<1> QED BY <1>1, <1>2, <1>3

\* Wherever the reconciles of any number of ControlPlanes come to rest, each
\* conflict names a live owner that runs on the very Secret, and each license
\* without a conflict is the one asked for and shared with nobody silent.
THEOREM RestIsJustHolds == Spec => []RestIsJust
BY RestJust, TypeCorrect, PTL

-----------------------------------------------------------------------------
(* The upgrade *)

LEMMA UpgradeInitIInv == UpgradeInit => IInv /\ Unedited
<1> SUFFICES ASSUME UpgradeInit PROVE IInv /\ Unedited
  OBVIOUS
<1>1. 0 \in 0 .. MaxEdits /\ 0 \in 0 .. MaxAborts
  BY ConstAssumption DEF ConstAssumption
<1>2. TypeOK
  BY <1>1, NoViewType DEF UpgradeInit, Blank, TypeOK, MaybeSecret, MaybeOwner
<1>3. StakesApart
  BY DEF UpgradeInit, StakesApart, Live
<1>4. ViewCurrent /\ PlanFromView /\ AbsentBlank
  BY DEF UpgradeInit, Blank, ViewCurrent, PlanFromView, AbsentBlank
<1>5. Unedited
  BY DEF UpgradeInit, Blank, Unedited, Live
<1> QED BY <1>2, <1>3, <1>4, <1>5 DEF IInv

LEMMA NextUnedited == IInv /\ Unedited /\ [Next]_vars => Unedited'
<1> SUFFICES ASSUME IInv, Unedited, [Next]_vars, edits' = 0 PROVE Unedited'
  BY DEF Unedited
<1> USE DEF IInv
<1>1. edits \in Nat
  BY ConstAssumption DEF TypeOK, ConstAssumption
<1>2. ASSUME NEW c \in Ctps, User(c) PROVE FALSE
  BY <1>1, <1>2 DEF User, Create, Repoint, ResetCreation, Delete, Edit
<1>3. edits = 0
  BY <1>2 DEF Next, Gone, Reconcile, Observe, Compose, WriteStatus, ApplyObjects, Abort, vars
<1>4. /\ Live = Ctps /\ installed = spec
      /\ \A c \in Ctps : /\ pc[c] # "idle" => seen[c].spec = spec[c]
                         /\ pc[c] = "writing" => plan[c].license = spec[c]
  BY <1>3 DEF Unedited
<1> USE DEF Unedited, Live, TypeOK
<1>5. ASSUME NEW c \in Ctps, Gone(c) PROVE FALSE
  BY <1>4, <1>5 DEF Gone
<1>6. ASSUME NEW c \in Ctps, Observe(c) PROVE Unedited'
  BY <1>4, <1>6 DEF Observe, xrVars, ownVars
<1>7. ASSUME NEW c \in Ctps, Compose(c) PROVE Unedited'
  <2> DEFINE o == LicenseConflict(Me(c))
             q == [license |-> LicenseClaim(seen[c], o), conflict |-> o]
  <2>1. seen[c].installed = spec[c] /\ seen[c].spec = spec[c]
    BY <1>4, <1>7 DEF Compose, ViewCurrent
  <2>2. q.license = spec[c]
    BY <2>1 DEF LicenseClaim
  <2>3. plan' = [plan EXCEPT ![c] = q]
    BY <1>7 DEF Compose, Me
  <2>4. /\ pc' = [pc EXCEPT ![c] = "writing"]
        /\ UNCHANGED <<life, spec, installed, seen>>
    BY <1>7 DEF Compose, xrVars, ownVars
  <2> HIDE DEF q
  <2> QED BY <1>4, <2>1, <2>2, <2>3, <2>4
<1>8. ASSUME NEW c \in Ctps, NEW w, Done(c, w)
      PROVE  \A d \in Ctps : pc'[d] # "idle" =>
                pc'[d] = pc[d] /\ seen'[d] = seen[d] /\ plan'[d] = plan[d]
  BY <1>8 DEF Done
<1>9. ASSUME NEW c \in Ctps, WriteStatus(c) PROVE Unedited'
  BY <1>4, <1>8, <1>9 DEF WriteStatus, xrVars
<1>10. ASSUME NEW c \in Ctps, ApplyObjects(c) PROVE Unedited'
  <2>1. installed' = installed
    BY <1>4, <1>10 DEF ApplyObjects, Done
  <2> QED BY <1>4, <1>8, <1>10, <2>1 DEF ApplyObjects, xrVars
<1>11. ASSUME NEW c \in Ctps, Abort(c) PROVE Unedited'
  BY <1>4, <1>11 DEF Abort, xrVars, ownVars
<1>12. CASE UNCHANGED vars
  BY <1>4, <1>12 DEF vars, xrVars, ownVars, runVars
<1> QED BY <1>2, <1>5, <1>6, <1>7, <1>9, <1>10, <1>11, <1>12 DEF Next, Reconcile

\* Among those that hold a Secret the order is that among those that do not.
LEMMA OrderByAge ==
    ASSUME NEW s \in Secrets, NEW a \in Entries, NEW b \in Entries,
           a.claim = s, b.claim = s
    PROVE  Precedes(s, [a EXCEPT !.claim = NoSecret], [b EXCEPT !.claim = NoSecret])
             <=> Precedes(s, a, b)
<1> DEFINE p == [a EXCEPT !.claim = NoSecret]
           q == [b EXCEPT !.claim = NoSecret]
<1>1. NoSecret # s
  BY ConstAssumption DEF ConstAssumption
<1>2. p \in Entries /\ q \in Entries
  BY DEF Entries, MaybeSecret
<1>3. /\ ClaimRank(s, p) = <<1, ClaimRank(s, a)[2], ClaimRank(s, a)[3], ClaimRank(s, a)[4]>>
      /\ ClaimRank(s, q) = <<1, ClaimRank(s, b)[2], ClaimRank(s, b)[3], ClaimRank(s, b)[4]>>
      /\ ClaimRank(s, a)[1] = 0 /\ ClaimRank(s, b)[1] = 0
  BY <1>1 DEF ClaimRank, Entries
<1>4. /\ ClaimRank(s, p)[1] = 1 /\ ClaimRank(s, q)[1] = 1
      /\ \A i \in {2, 3, 4} : /\ ClaimRank(s, p)[i] = ClaimRank(s, a)[i]
                              /\ ClaimRank(s, q)[i] = ClaimRank(s, b)[i]
  BY <1>3
<1> HIDE DEF p, q
<1> QED BY <1>2, <1>3, <1>4, PrecedesExpanded DEF p, q

LEMMA UpgradeRest == IInv /\ Unedited => UpgradeRestsSettled
<1> SUFFICES ASSUME IInv, Unedited, edits = 0, \A c \in Live : AtRest(c), NEW c \in Ctps
             PROVE  /\ installed[c] = spec[c]
                    /\ spec[c] # NoSecret => (conflict[c] = NoOne <=> Oldest(c))
  BY DEF UpgradeRestsSettled, Settled
<1>1. TypeOK /\ Live = Ctps /\ installed = spec
  BY DEF IInv, Unedited
<1>2. \A d \in Ctps : claim[d] = spec[d] /\ conflict[d] = LicenseConflict(Entry(d))
  BY <1>1, Resting
<1>3. ASSUME spec[c] # NoSecret PROVE conflict[c] = NoOne <=> Oldest(c)
  <2> DEFINE s == spec[c]
  <2>1. s \in Secrets
    BY <1>1, <1>3 DEF TypeOK, MaybeSecret
  <2>2. Oldest(c) <=> \A d \in Ctps \ {c} : spec[d] = s => Precedes(s, Entry(c), Entry(d))
    <3>1. ASSUME NEW d \in Ctps \ {c}, spec[d] = s
          PROVE  Precedes(s, [Entry(c) EXCEPT !.claim = NoSecret],
                             [Entry(d) EXCEPT !.claim = NoSecret])
                   <=> Precedes(s, Entry(c), Entry(d))
      BY <1>1, <1>2, <2>1, <3>1, LiveEntries, OrderByAge
    <3> QED BY <3>1 DEF Oldest
  <2>3. Oldest(c) <=> \A d \in Ctps \ {c} : spec[d] = s => ~Precedes(s, Entry(d), Entry(c))
    BY <1>1, <2>2, LiveEntries, PrecedesTotal
  <2>4. Verdict(c)
    BY <1>1, VerdictHolds
  <2>5. NoOne \notin Ctps
    BY ConstAssumption DEF ConstAssumption
  <2> QED BY <1>1, <1>2, <1>3, <2>3, <2>4, <2>5 DEF Verdict
<1> QED BY <1>1, <1>3

LEMMA UpgradeInvariant == UpgradeSpec => [](IInv /\ Unedited)
<1>1. IInv /\ Unedited /\ [Next]_vars => (IInv /\ Unedited)'
  BY NextIInv, NextUnedited
<1> QED BY <1>1, UpgradeInitIInv, PTL DEF UpgradeSpec

\* From an upgrade without edits the reconciles can come to rest only where every
\* sharer of a Secret but the oldest reports a conflict and all keep their
\* license, however many they are and in whatever order they begin.
THEOREM UpgradeRestsSettledHolds == UpgradeSpec => []UpgradeRestsSettled
BY UpgradeInvariant, UpgradeRest, PTL

\* What holds of a registry that began empty holds after an upgrade too, edits
\* and aborts included: no verdict takes an installed license away, although at
\* first no status records a claim, and the requesters agree on one owner.
THEOREM UpgradeKeepsLicenses == UpgradeSpec => NeverStripsLive /\ []OneOwner /\ []RestIsJust
<1>1. IInv /\ [Next]_vars => [StripsNone]_vars
  BY NextStripsNone
<1>2. IInv => OneOwner /\ RestIsJust
  BY TypedOneOwner, RestJust DEF IInv
<1> QED BY <1>1, <1>2, UpgradeInvariant, PTL DEF UpgradeSpec, NeverStripsLive, StripsNone

-----------------------------------------------------------------------------
(* The implementation of the registry *)

\* What a ControlPlane newly stakes is staked by no live peer that has decided:
\* the case the guard exists for, read off ComposeApart's argument for a single
\* peer.
LEMMA GrantFree ==
    ASSUME IInv, NEW c \in Ctps, NEW d \in Live \ {c}, ~Unsettled(d),
           pc[c] = "observed",
           NEW s, s = LicenseClaim(seen[c], LicenseConflict(Me(c))),
           s \notin Stake(c) \cup {NoSecret}
    PROVE  s \notin Stake(d)
<1> DEFINE me == Me(c)
           o  == LicenseConflict(me)
<1>1. /\ me \in Entries /\ me.id = c
      /\ me.spec = seen[c].spec /\ me.claim = seen[c].claim
  BY PlanType DEF Me, IInv
<1>2. seen[c].claim = claim[c] /\ seen[c].installed = installed[c]
  BY DEF IInv, ViewCurrent
<1>o. s = LicenseClaim(seen[c], o)
  OBVIOUS
<1> HIDE DEF me, o
<1>3. o = NoOne /\ s = me.spec /\ s # NoSecret
  BY <1>1, <1>2, <1>o DEF LicenseClaim, Stake
<1>4. Ahead(me) = {}
  BY <1>1, <1>3, ConflictNames, ConstAssumption DEF o, Live, ConstAssumption, IInv
<1>5. SUFFICES ASSUME s \in Stake(d) PROVE FALSE
  OBVIOUS
<1>6. claim[d] = s
  BY <1>5 DEF Unsettled, Stake
<1>7. Entry(d) \in Entries /\ Entry(d).id = d /\ Entry(d).claim = s
  BY <1>6 DEF Entry, Entries, Live, TypeOK, IInv
<1>8. ~Precedes(me.spec, Entry(d), me)
  BY <1>1, <1>3, <1>4, <1>7 DEF Ahead
<1>9. ClaimRank(me.spec, Entry(d))[1] < ClaimRank(me.spec, me)[1]
  <2>1. claim[c] # s
    BY DEF Stake
  <2> QED BY <1>1, <1>2, <1>3, <1>7, <2>1, RankType
<1> QED BY <1>1, <1>7, <1>8, <1>9, PrecedesExpanded

\* The mapped variables at one ControlPlane.
LEMMA Mapped ==
    ASSUME NEW c \in Ctps
    PROVE  /\ LiveStakes[c] = IF c \in Live THEN Stake(c) ELSE {}
           /\ LiveHeld[c] = IF c \in Live THEN installed[c] ELSE NoSecret
           /\ c \in Decided <=> c \in Live /\ ~Unsettled(c)
BY DEF LiveStakes, LiveHeld, Decided

\* A step that touches neither who is alive nor, of those, what they stake,
\* hold or have decided is a stutter of the registry.
LEMMA Stutters ==
    ASSUME Live' = Live,
           \A d \in Live : /\ Stake(d)' = Stake(d)
                           /\ installed'[d] = installed[d]
                           /\ Unsettled(d)' <=> Unsettled(d)
    PROVE  UNCHANGED Registry!vars
BY DEF Registry!vars, LiveStakes, LiveHeld, Decided

\* A step of one live ControlPlane, seen as a step of the mapped variables.
LEMMA MappedStep ==
    ASSUME Live' = Live, NEW c \in Live, Live \subseteq Ctps,
           \A d \in Live \ {c} : /\ Stake(d)' = Stake(d)
                                 /\ installed'[d] = installed[d]
                                 /\ Unsettled(d)' <=> Unsettled(d)
    PROVE  /\ LiveStakes' = [LiveStakes EXCEPT ![c] = Stake(c)']
           /\ LiveHeld' = [LiveHeld EXCEPT ![c] = installed'[c]]
           /\ Decided' = IF Unsettled(c)' THEN Decided \ {c} ELSE Decided \cup {c}
<1>1. LiveStakes' = [LiveStakes EXCEPT ![c] = Stake(c)']
  BY DEF LiveStakes
<1>2. LiveHeld' = [LiveHeld EXCEPT ![c] = installed'[c]]
  BY DEF LiveHeld
<1>3. Decided' = IF Unsettled(c)' THEN Decided \ {c} ELSE Decided \cup {c}
  BY DEF Decided
<1> QED BY <1>1, <1>2, <1>3

\* A write or an abort of a live reconcile carries a decision out.
LEMMA CarriesOut ==
    ASSUME TypeOK, TypeOK', Live' = Live, NEW c \in Live, Unsettled(c),
           Stake(c)' \subseteq Stake(c),
           \A d \in Live \ {c} : /\ Stake(d)' = Stake(d)
                                 /\ installed'[d] = installed[d]
                                 /\ Unsettled(d)' <=> Unsettled(d)
    PROVE  Registry!CarryOut(c)
<1>1. Live \subseteq Ctps
  BY DEF Live
<1>2. /\ LiveStakes' = [LiveStakes EXCEPT ![c] = Stake(c)']
      /\ LiveHeld' = [LiveHeld EXCEPT ![c] = installed'[c]]
      /\ Decided' = IF Unsettled(c)' THEN Decided \ {c} ELSE Decided \cup {c}
  BY <1>1, MappedStep
<1>3. c \in Live \ Decided /\ LiveStakes[c] = Stake(c)
  BY <1>1, Mapped
<1>4. installed'[c] \in Stake(c)' \cup {NoSecret}
  BY DEF Stake
<1>5. \/ Decided' = Decided
      \/ Decided' = Decided \cup {c} /\ Stake(c)' = {installed'[c]} \ {NoSecret}
  <2>1. CASE Unsettled(c)'
    BY <1>2, <1>3, <2>1
  <2>2. CASE ~Unsettled(c)'
    BY <1>2, <2>2 DEF Unsettled, Stake
  <2> QED BY <2>1, <2>2
<1> DEFINE left == Stake(c)'
           s == installed'[c]
<1>6. /\ left \in SUBSET LiveStakes[c] /\ s \in LiveStakes[c] \cup {NoSecret}
      /\ s \in left \cup {NoSecret}
      /\ LiveStakes' = [LiveStakes EXCEPT ![c] = left]
      /\ LiveHeld' = [LiveHeld EXCEPT ![c] = s]
      /\ \/ UNCHANGED Decided
         \/ Decided' = Decided \cup {c} /\ left = {s} \ {NoSecret}
  BY <1>2, <1>3, <1>4, <1>5
<1> HIDE DEF left, s
<1> QED BY <1>3, <1>6 DEF Registry!CarryOut

LEMMA CreateJoins ==
    ASSUME IInv, NEW c \in Ctps, Create(c)
    PROVE  Registry!Join(c)
<1>1. /\ Live' = Live \cup {c} /\ c \notin Live
      /\ Stake(c) = {} /\ installed[c] = NoSecret /\ ~Unsettled(c)
      /\ \A d \in Ctps : Stake(d)' = Stake(d) /\ (Unsettled(d)' <=> Unsettled(d))
      /\ installed' = installed
  BY DEF Create, ownVars, runVars, Live, Stake, Unsettled, TypeOK, IInv, AbsentBlank
<1>2. LiveStakes' = LiveStakes /\ LiveHeld' = LiveHeld
  BY <1>1 DEF LiveStakes, LiveHeld
<1>3. Decided' = Decided \cup {c}
  BY <1>1 DEF Decided, Live
<1> QED BY <1>1, <1>2, <1>3 DEF Registry!Join

LEMMA DeleteLeaves ==
    ASSUME IInv, NEW c \in Ctps, Delete(c)
    PROVE  Registry!Leave(c)
<1>1. /\ Live' = Live \ {c} /\ c \in Live
      /\ \A d \in Ctps : Stake(d)' = Stake(d) /\ (Unsettled(d)' <=> Unsettled(d))
      /\ installed' = installed
  BY DEF Delete, ownVars, runVars, Live, Stake, Unsettled, TypeOK, IInv
<1>2. LiveStakes' = [LiveStakes EXCEPT ![c] = {}] /\ LiveHeld' = [LiveHeld EXCEPT ![c] = NoSecret]
  BY <1>1 DEF LiveStakes, LiveHeld
<1>3. Decided' = Decided \ {c}
  <2>1. Live \subseteq Ctps
    BY DEF Live
  <2> QED BY <1>1, <2>1 DEF Decided
<1> QED BY <1>1, <1>2, <1>3 DEF Registry!Leave

LEMMA ComposeDecides ==
    ASSUME IInv, NEW c \in Live, Compose(c)
    PROVE  Registry!Decide(c)
<1> DEFINE s == LicenseClaim(seen[c], LicenseConflict(Me(c)))
           grant == {s} \ (Stake(c) \cup {NoSecret})
<1>0. c \in Ctps /\ Live \subseteq Ctps
  BY DEF Live
<1>s. s \in MaybeSecret
  BY <1>0, PlanType DEF IInv
<1>1. /\ pc[c] = "observed" /\ pc' = [pc EXCEPT ![c] = "writing"]
      /\ plan'[c].license = s
      /\ \A d \in Ctps \ {c} : plan'[d] = plan[d]
      /\ UNCHANGED <<life, claim, installed>>
  BY <1>0 DEF Compose, Me, xrVars, ownVars, IInv, TypeOK
<1> HIDE DEF s
<1>2. Live' = Live /\ pc'[c] = "writing" /\ \A d \in Ctps \ {c} : pc'[d] = pc[d]
  BY <1>0, <1>1 DEF Live, IInv, TypeOK
<1>3. /\ Stake(c)' = Stake(c) \cup grant /\ Unsettled(c)'
      /\ \A d \in Live \ {c} : /\ Stake(d)' = Stake(d)
                               /\ installed'[d] = installed[d]
                               /\ Unsettled(d)' <=> Unsettled(d)
  BY <1>0, <1>1, <1>2 DEF Stake, Unsettled
<1>4. /\ LiveStakes' = [LiveStakes EXCEPT ![c] = Stake(c)']
      /\ LiveHeld' = [LiveHeld EXCEPT ![c] = installed'[c]]
      /\ Decided' = Decided \ {c}
  BY <1>0, <1>2, <1>3, MappedStep
<1>5. LiveHeld' = LiveHeld
  BY <1>0, <1>1, <1>2 DEF LiveHeld
<1>6. LiveStakes[c] = Stake(c)
  BY <1>0, Mapped
<1>7. grant \in {{}} \cup {{t} : t \in Registry!Free(c)}
  <2>1. CASE grant = {}
    BY <2>1
  <2>2. CASE grant # {}
    <3>1. grant = {s} /\ s \notin Stake(c) \cup {NoSecret} /\ s \in Secrets
      BY <2>2, <1>s DEF MaybeSecret
    <3>2. ASSUME NEW d \in Decided \ {c} PROVE s \notin LiveStakes[d]
      <4>1. d \in Live \ {c} /\ ~Unsettled(d) /\ LiveStakes[d] = Stake(d)
        BY <1>0, Mapped DEF Decided
      <4> QED BY <1>0, <1>1, <3>1, <4>1, GrantFree DEF s
    <3> QED BY <3>1, <3>2 DEF Registry!Free
  <2> QED BY <2>1, <2>2
<1> HIDE DEF grant
<1>8. LiveStakes' = [LiveStakes EXCEPT ![c] = LiveStakes[c] \cup grant]
  BY <1>3, <1>4, <1>6
<1> QED BY <1>2, <1>4, <1>5, <1>7, <1>8 DEF Registry!Decide

\* Every step of the ControlPlanes is a step of the registry or leaves it as it
\* is.
LEMMA StepsImplement ==
    ASSUME IInv, TypeOK', [Next]_vars
    PROVE  [Registry!Next]_Registry!vars
<1> USE DEF IInv
<1>0. Live \subseteq Ctps
  BY DEF Live
<1>1. CASE UNCHANGED vars
  <2>1. Live' = Live
    BY <1>1 DEF vars, xrVars, Live
  <2>2. UNCHANGED Registry!vars
    BY <1>1, <2>1, Stutters DEF vars, xrVars, ownVars, runVars, Stake, Unsettled
  <2> QED BY <2>2
<1>2. ASSUME NEW c \in Ctps, Create(c) PROVE Registry!Next
  BY <1>2, CreateJoins DEF Registry!Next
<1>3. ASSUME NEW c \in Ctps, Delete(c) PROVE Registry!Next
  BY <1>3, DeleteLeaves DEF Registry!Next
<1>4. ASSUME NEW c \in Ctps, Repoint(c) \/ ResetCreation(c)
      PROVE  UNCHANGED Registry!vars
  BY <1>4, Stutters DEF Repoint, ResetCreation, ownVars, runVars, Live, Stake, Unsettled
<1>5. ASSUME NEW c \in Ctps, Gone(c) PROVE UNCHANGED Registry!vars
  <2>1. Live' = Live /\ c \notin Live
    BY <1>5 DEF Gone, Live, TypeOK
  <2>2. \A d \in Live : /\ claim'[d] = claim[d] /\ installed'[d] = installed[d]
                        /\ pc'[d] = pc[d] /\ plan'[d] = plan[d]
    BY <1>0, <1>5, <2>1 DEF Gone, runVars, TypeOK
  <2> QED BY <2>1, <2>2, Stutters DEF Stake, Unsettled
<1>6. ASSUME NEW c \in Ctps, Observe(c) PROVE UNCHANGED Registry!vars
  <2>1. Live' = Live /\ UNCHANGED <<claim, installed, plan>>
    BY <1>6 DEF Observe, xrVars, ownVars, Live
  <2>2. \A d \in Ctps : pc'[d] = "writing" <=> pc[d] = "writing"
    BY <1>6 DEF Observe, TypeOK
  <2>3. \A d \in Live : Stake(d)' = Stake(d) /\ (Unsettled(d)' <=> Unsettled(d))
    BY <1>0, <2>1, <2>2 DEF Stake, Unsettled
  <2> QED BY <2>1, <2>3, Stutters
<1>7. ASSUME NEW c \in Ctps \ Live, Live' = Live,
             \A d \in Ctps \ {c} : /\ claim'[d] = claim[d] /\ installed'[d] = installed[d]
                                   /\ pc'[d] = pc[d] /\ plan'[d] = plan[d]
      PROVE  UNCHANGED Registry!vars
  BY <1>0, <1>7, Stutters DEF Stake, Unsettled
<1>8. ASSUME NEW c \in Ctps, Compose(c) PROVE [Registry!Next]_Registry!vars
  <2>1. CASE c \in Live
    BY <1>8, <2>1, ComposeDecides DEF Registry!Next
  <2>2. CASE c \notin Live
    BY <1>7, <1>8, <2>2 DEF Compose, xrVars, ownVars, Live, TypeOK
  <2> QED BY <2>1, <2>2
<1>9. ASSUME NEW c \in Ctps, WriteStatus(c) \/ ApplyObjects(c) \/ Abort(c)
      PROVE  [Registry!Next]_Registry!vars
  <2>1. Live' = Live
    BY <1>9 DEF WriteStatus, ApplyObjects, Abort, xrVars, Live
  <2>2. \A d \in Ctps \ {c} : /\ claim'[d] = claim[d] /\ installed'[d] = installed[d]
                              /\ pc'[d] = pc[d] /\ plan'[d] = plan[d]
    BY <1>9 DEF WriteStatus, ApplyObjects, Abort, Done, ownVars, TypeOK
  <2>3. \A d \in Live \ {c} : /\ Stake(d)' = Stake(d)
                              /\ installed'[d] = installed[d]
                              /\ Unsettled(d)' <=> Unsettled(d)
    BY <1>0, <2>2 DEF Stake, Unsettled
  <2>4. Stake(c)' \subseteq Stake(c)
    <3>1. CASE WriteStatus(c)
      BY <3>1 DEF WriteStatus, Done, Stake, TypeOK
    <3>2. CASE ApplyObjects(c)
      BY <3>2 DEF ApplyObjects, Done, Stake, TypeOK
    <3>3. CASE Abort(c)
      BY <3>3 DEF Abort, ownVars, Stake, TypeOK
    <3> QED BY <1>9, <3>1, <3>2, <3>3
  <2>5. CASE c \notin Live
    BY <1>7, <2>1, <2>2, <2>5
  <2>6. CASE c \in Live /\ Unsettled(c)
    BY <2>1, <2>3, <2>4, <2>6, CarriesOut DEF Registry!Next
  <2>7. CASE c \in Live /\ ~Unsettled(c)
    <3>1. pc[c] # "writing" /\ Abort(c)
      BY <1>9, <2>7 DEF Unsettled, WriteStatus, ApplyObjects, Done
    <3>2. /\ pc'[c] = "idle" /\ UNCHANGED <<claim, installed>>
      BY <3>1 DEF Abort, ownVars, TypeOK
    <3>3. Stake(c)' = Stake(c) /\ (Unsettled(c)' <=> Unsettled(c))
      BY <3>1, <3>2 DEF Stake, Unsettled
    <3> QED BY <2>1, <2>3, <3>2, <3>3, Stutters
  <2> QED BY <2>5, <2>6, <2>7
<1> QED BY <1>1, <1>2, <1>3, <1>4, <1>5, <1>6, <1>8, <1>9 DEF Next, User, Reconcile

\* The ControlPlanes implement the registry: for any number of them and of
\* Secrets, no decision about a license goes against a decided peer's stake.
THEOREM ImplementsRegistry == Spec => Implements
<1>1. Init => Registry!Init
  BY DEF Init, Blank, Live, LiveStakes, LiveHeld, Decided, Registry!Init
<1>2. IInv /\ IInv' /\ [Next]_vars => [Registry!Next]_Registry!vars
  BY StepsImplement DEF IInv
<1> QED BY <1>1, <1>2, InductiveInvariant, PTL DEF Spec, Implements, Registry!Spec
=============================================================================
