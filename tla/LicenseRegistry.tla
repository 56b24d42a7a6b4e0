-------------------------- MODULE LicenseRegistry --------------------------
(***************************************************************************)
(* What the license guard promises, without saying how: the ControlPlanes  *)
(* of a management cluster as the members of a registry in which each has  *)
(* a stake in some license Secrets, of which it holds at most one.         *)
(*                                                                         *)
(* A member that decides anew becomes unsettled and may stake one more     *)
(* Secret, but none in which a settled member has a stake.  It then        *)
(* carries its decision out: stakes are given up, the license held changes *)
(* to a staked one or to none, and the member settles when it stakes       *)
(* exactly what it holds.  Who asks for what, who is older and what the    *)
(* statuses say is left to the implementation.                             *)
(***************************************************************************)
CONSTANTS Ctps, Secrets, NoSecret

VARIABLES
    members,    \* the ControlPlanes that are alive
    stakes,     \* stakes[c]: the Secrets c has installed, claimed or been granted
    held,       \* held[c]: the Secret whose license c has installed, or NoSecret
    settled     \* the members that are not in the middle of a decision

vars == <<members, stakes, held, settled>>

Init ==
    /\ members = {}
    /\ stakes = [c \in Ctps |-> {}]
    /\ held = [c \in Ctps |-> NoSecret]
    /\ settled = {}

Join(c) ==
    /\ c \notin members
    /\ members' = members \cup {c}
    /\ settled' = settled \cup {c}
    /\ UNCHANGED <<stakes, held>>

Leave(c) ==
    /\ c \in members
    /\ members' = members \ {c}
    /\ settled' = settled \ {c}
    /\ stakes' = [stakes EXCEPT ![c] = {}]
    /\ held' = [held EXCEPT ![c] = NoSecret]

\* The Secrets in which no other settled member has a stake.
Free(c) == {s \in Secrets : \A d \in settled \ {c} : s \notin stakes[d]}

Decide(c) ==
    /\ c \in members
    /\ settled' = settled \ {c}
    /\ \E grant \in {{}} \cup {{s} : s \in Free(c)} :
         stakes' = [stakes EXCEPT ![c] = @ \cup grant]
    /\ UNCHANGED <<members, held>>

CarryOut(c) ==
    /\ c \in members \ settled
    /\ \E left \in SUBSET stakes[c], s \in stakes[c] \cup {NoSecret} :
         /\ s \in left \cup {NoSecret}
         /\ stakes' = [stakes EXCEPT ![c] = left]
         /\ held' = [held EXCEPT ![c] = s]
         /\ \/ UNCHANGED settled
            \/ settled' = settled \cup {c} /\ left = {s} \ {NoSecret}
    /\ UNCHANGED members

Next == \E c \in Ctps : Join(c) \/ Leave(c) \/ Decide(c) \/ CarryOut(c)

Spec == Init /\ [][Next]_vars
=============================================================================
