------------------------------ MODULE MCPaneIo ------------------------------
(* Instances of PaneIo for TLC.                                            *)
EXTENDS PaneIo

(* A pane is driven, resized and closed while the child keeps asking and   *)
(* may exit.                                                               *)
QueryOutputs == {"query"}
HandleOps == {"command", "resize", "reply", "drop", "input", "exit", "close"}

(* Synchronized updates, well formed or left open.                         *)
SyncOutputs == {"text", "bsu", "esu", "flip"}
SyncOps == {"command", "snapshot", "resize", "exit"}

(* A child that writes and exits, and a pane nobody touches.               *)
TextOutputs == {"text"}
ExitOps == {"exit"}

=============================================================================
