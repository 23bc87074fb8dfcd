------------------------------ MODULE MCTunnel ------------------------------
(* Small instances of Tunnel for TLC; the configurations give the bounds. *)
EXTENDS Tunnel
=============================================================================
