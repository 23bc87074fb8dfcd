------------------------------ MODULE EnvFetch ------------------------------
(***************************************************************************)
(* Loading variables from --env-url (internal/envurl/envurl.go): Fetch,    *)
(* its attempts, the waits between them and the deadline.                  *)
(*                                                                         *)
(* Time is counted in ticks since Fetch began.  An attempt takes any time  *)
(* up to its timeout, a wait any time below the backoff (full jitter); the *)
(* time between two statements is left out.  What the variables are is     *)
(* the caller's business: Meandr chooses them.                             *)
(***************************************************************************)
EXTENDS ExpBackoff

CONSTANTS
    Patience,       \* defaultPatience, in ticks
    AttemptTimeout, \* attemptTimeout
    FetchBase,      \* backoffBase
    FetchCap,       \* backoffCap
    DurationBits,   \* the bits of a Duration: 64
    MaxFailures     \* bound: failures beyond it are not counted

\* What an attempt may come back with: the variables, an answer that will not
\* change by asking again, one that may, or the end of the context.
Refusals   == {"4xx", "bad body"}
Retriable  == {"unreachable", "5xx", "429", "canceled"}
FetchAnswers == {"vars"} \cup Refusals \cup Retriable

ASSUME FetchAssumption ==
    /\ Patience \in Nat /\ AttemptTimeout \in Nat
    /\ FetchBase \in Nat \ {0} /\ FetchCap \in Nat \ {0}
    /\ DurationBits \in Nat \ {0} /\ MaxFailures \in Nat

VARIABLES
    fetchPc,    \* "idle", "ask", "inflight", "sleep", "loaded", "failed" or "canceled"
    elapsed,    \* the time since Fetch began
    failures,   \* attempt: the failures so far
    answered,   \* the last attempt's answer, "none" before it
    ctxDone     \* the caller's context

fetchVars == <<fetchPc, elapsed, failures, answered>>

FetchInit == fetchPc = "idle" /\ elapsed = 0 /\ failures = 0 /\ answered = "none"

-----------------------------------------------------------------------------

FetchBackoff(n) == Capped(ShiftLeft(FetchBase, n, DurationBits), FetchCap)

EverPatient(t) == FALSE                  \* mutant: no deadline
OutOfPatience(t) == t > Patience

FetchBegins ==
    /\ fetchPc = "idle" /\ fetchPc' = "ask"
    /\ UNCHANGED <<elapsed, failures, answered, ctxDone>>

\* Not an http or https URL.
FetchRefusesURL ==
    /\ fetchPc = "idle" /\ fetchPc' = "failed"
    /\ UNCHANGED <<elapsed, failures, answered, ctxDone>>

\* Do returns at once when the context is done.
Ask ==
    /\ fetchPc = "ask" /\ ~ctxDone /\ fetchPc' = "inflight"
    /\ UNCHANGED <<elapsed, failures, answered, ctxDone>>

\* once returns, and Fetch looks at its answer and at the clock.
Answered(a, t) ==
    /\ answered' = a /\ elapsed' = elapsed + t
    /\ fetchPc' = CASE a = "vars"                              -> "loaded"
                    [] a \in Refusals \/ OutOfPatience(elapsed + t) ->
                         IF a = "canceled" THEN "canceled" ELSE "failed"
                    [] OTHER                                   -> "sleep"
    /\ UNCHANGED <<failures, ctxDone>>

AskCanceled == fetchPc = "ask" /\ ctxDone /\ Answered("canceled", 0)

\* Among the answers to an attempt that is under way when the context ends is a
\* body cut short: once makes no difference between that and a bad one.
AttemptEnds ==
    /\ fetchPc = "inflight"
    /\ \E a \in FetchAnswers, t \in 0 .. AttemptTimeout :
        (a = "canceled" => ctxDone) /\ Answered(a, t)

\* rand.Int63n is below its argument.
SleptFor(t) ==
    /\ fetchPc = "sleep" /\ fetchPc' = "ask"
    /\ elapsed' = elapsed + t
    /\ failures' = IF failures < MaxFailures THEN failures + 1 ELSE failures
    /\ UNCHANGED <<answered, ctxDone>>

FetchSleepEnds == \E t \in 0 .. FetchBackoff(failures) - 1 : SleptFor(t)

FetchSleepCanceled ==
    /\ fetchPc = "sleep" /\ ctxDone /\ fetchPc' = "canceled"
    /\ UNCHANGED <<elapsed, failures, answered, ctxDone>>

Fetching ==
    \/ FetchBegins \/ FetchRefusesURL \/ Ask \/ AskCanceled \/ AttemptEnds
    \/ FetchSleepEnds \/ FetchSleepCanceled

\* Its locals go out of scope when the caller has the result.
FetchTaken ==
    /\ fetchPc' = "idle" /\ elapsed' = 0 /\ failures' = 0 /\ answered' = "none"

-----------------------------------------------------------------------------
(* What it guarantees *)

FetchType ==
    /\ fetchPc \in {"idle", "ask", "inflight", "sleep", "loaded", "failed", "canceled"}
    /\ elapsed \in Nat /\ failures \in 0 .. MaxFailures
    /\ answered \in FetchAnswers \cup {"none"}

\* However the attempts, the waits and the clock fall out, Fetch has returned
\* one wait and one attempt after its patience ran out at the latest, and gives up
\* what may still come right no sooner; a wait is drawn from a range that is neither
\* empty nor above the cap, after as many failures in a row as it takes for the
\* shift to overflow.
PatienceHolds ==
    /\ elapsed <= Patience + FetchCap + AttemptTimeout
    /\ fetchPc = "failed" /\ answered \in Retriable => elapsed > Patience
    /\ fetchPc = "sleep" =>
        /\ elapsed <= Patience
        /\ FetchBackoff(failures) \in 1 .. FetchCap

=============================================================================
