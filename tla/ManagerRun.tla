----------------------------- MODULE ManagerRun -----------------------------
(***************************************************************************)
(* What Manager.Run of internal/tunnel promises its caller, whatever its   *)
(* goroutines, channels, waits and sessions: every connection is made      *)
(* again when it is lost, until the service refuses it for good or the     *)
(* context is done; and Run returns one of the refusals it was given, or   *)
(* the end of the context, or nothing at all, for which the refusals of    *)
(* all of the connections have to come before Run first looks.             *)
(***************************************************************************)
CONSTANTS
    Slots,      \* connections
    Refusals    \* the service's answers that another dial cannot mend

VARIABLES
    link,       \* for each slot: "down", "up" or "over"
    refused,    \* the refusals so far
    ctxDone,
    result      \* what Run returned: "none" yet, "nil", "canceled" or a refusal

vars == <<link, refused, ctxDone, result>>

Init ==
    /\ link = [s \in Slots |-> "down"] /\ refused = {}
    /\ ctxDone = FALSE /\ result = "none"

Cancel ==
    /\ ~ctxDone /\ ctxDone' = TRUE
    /\ UNCHANGED <<link, refused, result>>

Becomes(s, l) == link' = [link EXCEPT ![s] = l]

Connect(s) ==
    /\ link[s] = "down" /\ Becomes(s, "up")
    /\ UNCHANGED <<refused, ctxDone, result>>

Lose(s) ==
    /\ link[s] = "up" /\ Becomes(s, "down")
    /\ UNCHANGED <<refused, ctxDone, result>>

\* Run returns, once, and at once if it waits for this.
MayReturn(e) == UNCHANGED result \/ (result = "none" /\ result' = e)

Refuse(s, r) ==
    /\ link[s] = "down" /\ Becomes(s, "over")
    /\ refused' = refused \cup {r} /\ MayReturn(r)
    /\ UNCHANGED ctxDone

GiveUp(s) ==
    /\ link[s] = "down" /\ ctxDone /\ Becomes(s, "over")
    /\ MayReturn("canceled")
    /\ UNCHANGED <<refused, ctxDone>>

Return(e) ==
    /\ result = "none" /\ result' = e
    /\ \/ e \in refused
       \/ e = "canceled" /\ ctxDone /\ \E s \in Slots : link[s] = "over"
       \/ e = "nil" /\ ~ctxDone /\ refused # {} /\ \A s \in Slots : link[s] = "over"
    /\ UNCHANGED <<link, refused, ctxDone>>

Next ==
    \/ Cancel
    \/ \E s \in Slots : Connect(s) \/ Lose(s) \/ GiveUp(s) \/ \E r \in Refusals : Refuse(s, r)
    \/ \E e \in Refusals \cup {"canceled", "nil"} : Return(e)

Spec == Init /\ [][Next]_vars

=============================================================================
