--------------------------- MODULE MCDaemonClients ---------------------------
(* Instances of DaemonClients for TLC.                                     *)
EXTENDS DaemonClients

(* Every request but the priority of a focused pane, which is the one a    *)
(* pane has when none was ever set.                                        *)
SharedOps == OpKinds \ {"focus"}
==============================================================================
