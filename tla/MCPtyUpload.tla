----------------------------- MODULE MCPtyUpload -----------------------------
(* A small instance of PtyUpload for TLC. *)
EXTENDS PtyUpload, TLC

CONSTANTS s1, s2, a, dots

=============================================================================
