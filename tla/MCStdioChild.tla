---------------------------- MODULE MCStdioChild ----------------------------
(* Small instances of StdioChild for TLC; the configurations give the bounds. *)
EXTENDS StdioChild
=============================================================================
