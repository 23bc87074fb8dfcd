------------------------------ MODULE PtyRelay ------------------------------
(***************************************************************************)
(* What a Process of internal/pty promises its sessions, whatever queues,  *)
(* locks and goroutines it is made of: from the moment it attaches, a      *)
(* session is handed every read of the PTY, each once and in order, until  *)
(* it ends; one that has ended may still be handed some of what was read,  *)
(* never the same or an earlier read again.  The exit of the program ends  *)
(* every session at once, and turns away those that come later; Stop       *)
(* returns after that.                                                     *)
(***************************************************************************)
EXTENDS Naturals

CONSTANT Viewers

VARIABLES
    nread,      \* how often the PTY was read
    session,    \* "away", "live", "ended", "over" or "refused"
    shown,      \* the last read each session was handed
    exited,     \* the exit of the program is known
    stopped     \* Stop has returned

vars == <<nread, session, shown, exited, stopped>>

Init ==
    /\ nread = 0 /\ exited = FALSE /\ stopped = FALSE
    /\ session = [v \in Viewers |-> "away"]
    /\ shown = [v \in Viewers |-> 0]

Becomes(v, s) == session' = [session EXCEPT ![v] = s]

Read ==
    /\ nread' = nread + 1
    /\ UNCHANGED <<session, shown, exited, stopped>>

\* A session gets in, at the last read (which is on its way to the sessions)
\* or right after it.
Enter(v) ==
    /\ session[v] = "away" /\ ~exited
    /\ Becomes(v, "live")
    /\ \E n \in 0 .. nread : n + 1 >= nread /\ shown' = [shown EXCEPT ![v] = n]
    /\ UNCHANGED <<nread, exited, stopped>>

TurnAway(v) ==
    /\ session[v] = "away" /\ exited
    /\ Becomes(v, "refused")
    /\ UNCHANGED <<nread, shown, exited, stopped>>

\* The next read, while the session is live.
Show(v) ==
    /\ session[v] = "live" /\ shown[v] < nread
    /\ shown' = [shown EXCEPT ![v] = @ + 1]
    /\ UNCHANGED <<nread, session, exited, stopped>>

\* What is left for a session that has ended.
ShowRest(v) ==
    /\ session[v] \in {"ended", "over"}
    /\ \E n \in shown[v] + 1 .. nread : shown' = [shown EXCEPT ![v] = n]
    /\ UNCHANGED <<nread, session, exited, stopped>>

End(v) ==
    /\ session[v] = "live" /\ Becomes(v, "ended")
    /\ UNCHANGED <<nread, shown, exited, stopped>>

Leave(v) ==
    /\ session[v] = "ended" /\ Becomes(v, "over")
    /\ UNCHANGED <<nread, shown, exited, stopped>>

\* The exit: no session stays live, in the same step.
Exit ==
    /\ ~exited /\ exited' = TRUE
    /\ session' = [v \in Viewers |-> IF session[v] = "live" THEN "ended" ELSE session[v]]
    /\ UNCHANGED <<nread, shown, stopped>>

StopReturns ==
    /\ exited /\ stopped' = TRUE
    /\ UNCHANGED <<nread, session, shown, exited>>

Next ==
    \/ Read \/ Exit \/ StopReturns
    \/ \E v \in Viewers :
          Enter(v) \/ TurnAway(v) \/ Show(v) \/ ShowRest(v) \/ End(v) \/ Leave(v)

Spec == Init /\ [][Next]_vars

=============================================================================
