-------------------------- MODULE MCClientTransport --------------------------
(* Instances of ClientTransport for TLC.                                   *)
EXTENDS ClientTransport
=============================================================================
