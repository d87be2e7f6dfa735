--------------------------- MODULE MCSnapshotPush ---------------------------
(* Instances of SnapshotPush for TLC.                                      *)
EXTENDS SnapshotPush

Nobody == {}

ViewOps  == {"mutate", "priority"}
LeaveOps == {"mutate", "unsubscribe", "get"}
=============================================================================
