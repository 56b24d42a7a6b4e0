---------------------------- MODULE MCK8gbFleet ----------------------------
(* A fleet of two for TLC, in one region; the user may give one ControlPlane *)
(* the tag that is the default of the other.                                 *)
EXTENDS K8gbFleet, TLC

CONSTANTS c1, c2, noTag

Ids       == c1 :> "one" @@ c2 :> "two"
Region    == [c \in Ctps |-> "west"]
TagOfOne  == <<"azure", "west", "one">>
TagsGiven == {noTag, TagOfOne}

Plain == {[zone |-> "z1", tag |-> noTag]}
Moved == Plain \cup {[zone |-> "z2", tag |-> noTag], [zone |-> "z1", tag |-> TagOfOne]}
=============================================================================
