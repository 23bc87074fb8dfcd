---------------------------- MODULE StdioSession ----------------------------
(***************************************************************************)
(* What a Child of internal/stdio promises whoever serves a stream with    *)
(* it, whatever goroutines, timers and pipes it is made of: what the       *)
(* server writes is passed on in order, and all of it unless the stream    *)
(* broke or the server had exited and others kept its stdout open; the     *)
(* server's stdin is closed before it is told to terminate, and it is told *)
(* to before it is killed, unless the context is done; Attach returns when *)
(* the server has been reaped, and its error is true.                      *)
(***************************************************************************)
EXTENDS Naturals

VARIABLES
    server,     \* "none" while it runs, else how it ended: "ok", "fail", "signal"
    reaped,
    told,       \* the strongest signal it was sent: "none", "term", "kill"
    stdin,      \* open
    wrote,      \* how much it wrote to stdout
    passed,     \* how much of it was taken to be passed on
    relay,      \* "on", "complete", "cut" (others kept stdout open) or "broken"
    result,     \* what Attach returned, "none" before it
    ended,      \* the stream has ended
    ctxDone

vars == <<server, reaped, told, stdin, wrote, passed, relay, result, ended, ctxDone>>

Init ==
    /\ server = "none" /\ reaped = FALSE /\ told = "none" /\ stdin = TRUE
    /\ wrote = 0 /\ passed = 0 /\ relay = "on" /\ result = "none"
    /\ ended = FALSE /\ ctxDone = FALSE

\* The server may leave others behind that write in its stead.
Write ==
    /\ relay # "complete" /\ wrote' = wrote + 1
    /\ UNCHANGED <<server, reaped, told, stdin, passed, relay, result, ended, ctxDone>>

Pass ==
    /\ relay = "on" /\ passed < wrote /\ passed' = passed + 1
    /\ UNCHANGED <<server, reaped, told, stdin, wrote, relay, result, ended, ctxDone>>

RelayEnds(how) ==
    /\ relay = "on" /\ relay' = how
    /\ \/ how = "complete" /\ passed = wrote /\ server # "none"
       \/ how = "cut" /\ reaped
       \/ how = "broken" /\ ended
    /\ UNCHANGED <<server, reaped, told, stdin, wrote, passed, result, ended, ctxDone>>

Exit(how) ==
    /\ server = "none" /\ (told = "kill" => how = "signal") /\ server' = how
    /\ UNCHANGED <<reaped, told, stdin, wrote, passed, relay, result, ended, ctxDone>>

Reap ==
    /\ server # "none" /\ reaped' = TRUE
    /\ UNCHANGED <<server, told, stdin, wrote, passed, relay, result, ended, ctxDone>>

CloseInput ==
    /\ stdin' = FALSE
    /\ UNCHANGED <<server, reaped, told, wrote, passed, relay, result, ended, ctxDone>>

Signal ==
    /\ server = "none"
    /\ \/ told = "none" /\ told' = "term" /\ (~stdin \/ ctxDone)
       \/ told = "term" /\ told' = "kill"
    /\ UNCHANGED <<server, reaped, stdin, wrote, passed, relay, result, ended, ctxDone>>

Return(r) ==
    /\ relay # "on" /\ reaped /\ result = "none" /\ result' = r
    /\ \/ r = "nil" /\ server # "fail" /\ relay # "broken" /\ ~ctxDone
       \/ r = "fail" /\ server = "fail" /\ relay # "broken" /\ ~ctxDone
       \/ r = "canceled" /\ ctxDone /\ relay # "broken"
       \/ r = "relay" /\ relay # "cut"
    /\ UNCHANGED <<server, reaped, told, stdin, wrote, passed, relay, ended, ctxDone>>

StreamEnds ==
    /\ ended' = TRUE
    /\ UNCHANGED <<server, reaped, told, stdin, wrote, passed, relay, result, ctxDone>>

Cancel ==
    /\ ctxDone' = TRUE
    /\ UNCHANGED <<server, reaped, told, stdin, wrote, passed, relay, result, ended>>

Next ==
    \/ Write \/ Pass \/ Reap \/ CloseInput \/ Signal \/ StreamEnds \/ Cancel
    \/ \E how \in {"complete", "cut", "broken"} : RelayEnds(how)
    \/ \E how \in {"ok", "fail", "signal"} : Exit(how)
    \/ \E r \in {"nil", "fail", "canceled", "relay"} : Return(r)

Spec == Init /\ [][Next]_vars

=============================================================================
