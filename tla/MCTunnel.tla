------------------------------- MODULE MCTunnel -------------------------------
(***************************************************************************)
(* Small instances of Tunnel for TLC.                                      *)
(***************************************************************************)
EXTENDS Tunnel

AllAnswers == {"ok", "rejected", "tls_required"}
=============================================================================
