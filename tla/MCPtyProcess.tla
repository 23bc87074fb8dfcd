---------------------------- MODULE MCPtyProcess ----------------------------
(* Small instances of PtyProcess for TLC. *)
EXTENDS PtyProcess

CONSTANTS v1, v2

=============================================================================
