----------------------------- MODULE MCPipeline -----------------------------
(* One control plane in any mode next to one that is decommissioned or not   *)
(* there; in its place there may be a template that nobody should act on.    *)
EXTENDS Pipeline

SomeCommits ==
    {c \in [Files -> Modes \cup {"none"}] :
        /\ c["cp1"] # "none"
        /\ c["cp2"] \in {"none", "Deprovision"}
        /\ c["cp.tmpl"] \in {"none", "Deprovision"}
        /\ c["cp2"] # "none" => c["cp.tmpl"] = "none"}
=============================================================================
