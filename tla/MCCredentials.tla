--------------------------- MODULE MCCredentials ---------------------------
(* A small instance of Credentials for TLC; the configuration gives it.    *)
EXTENDS Credentials, TLC

\* Processes differ by nothing but their names.
ProcSymmetry == Permutations(Procs)
=============================================================================
