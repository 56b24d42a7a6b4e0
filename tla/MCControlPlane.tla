--------------------------- MODULE MCControlPlane ---------------------------
(* Instances of ControlPlane for TLC: which features are on, and what a     *)
(* user may change them to.                                                 *)
EXTENDS ControlPlane

P(mode, on) == [mode |-> mode, on |-> on]

\* Every mode, with and without the features that set policies of their own.
ModeSwitches == {P(m, on) : m \in Modes, on \in {{}, {"backup", "knative", "k8gb"}}}

Backup == {P("Full", {"backup", "schedule", "installFrom"})}

\* Every feature that is composed in stages, and what a user changes to: another
\* add-on, which turns the first one off, or a license for what already runs.
Staged   == Backup \cup {P("Full", {"k8gb"}), P("Full", {"vpa"}),
                         P("Full", {"license", "knative"})}
Switched == {P("Full", {"argocd"}), P("Full", {"license", "vpa"})}

NoEdit     == {}
OffAndKeep == {P("Provision", {})}

\* Reports that decide nothing are left out, and those of the backup alone.
DecidingReports == [p \in Params |-> Deciding(p)]
BackupReports   == [p \in Params |-> {"oidcUrl", "uxp-release", "identityIds", "storageId"}]
=============================================================================
