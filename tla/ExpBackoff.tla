----------------------------- MODULE ExpBackoff -----------------------------
(***************************************************************************)
(* The exponential backoff of the tunnel and of --env-url                  *)
(* (internal/tunnel/manager.go, internal/envurl/envurl.go): a Duration,    *)
(* which is a signed integer of so many bits, shifted left by the number   *)
(* of failures, and capped.                                                *)
(***************************************************************************)
EXTENDS Integers

Pow2[n \in Nat] == IF n = 0 THEN 1 ELSE 2 * Pow2[n - 1]

\* The signed integer that the lowest bits of n are.
Signed(n, bits) ==
    LET u == n % Pow2[bits]
    IN  IF u < Pow2[bits - 1] THEN u ELSE u - Pow2[bits]

\* base << n: what is shifted out is lost, and the sign with it.
ShiftLeft(base, n, bits) == Signed(base * Pow2[n], bits)

CappedAbove(d, limit) == IF d > limit THEN limit ELSE d    \* mutant: d <= 0 is forgotten

\* Of an integer, the code's d > limit || d <= 0.
Capped(d, limit) == IF d \in 1 .. limit THEN d ELSE limit

=============================================================================
