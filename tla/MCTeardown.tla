----------------------------- MODULE MCTeardown -----------------------------
(* Parts of the composition for Teardown: k8gb with its address, its role and *)
(* the cluster; the storage account and the resource group it is in.          *)
EXTENDS Teardown

K8gb == {"aks", "k8gb-ip", "k8gb-ip-role", "k8gb-release",
         "usage-k8gb-aks", "usage-k8gb-ip-release",
         "usage-k8gb-ip-role-release"}
K8gbReports == {"publicIpId", "principalId"}

Backup == {"network", "aks", "usage-aks-network", "backup-storage-account"}
=============================================================================
