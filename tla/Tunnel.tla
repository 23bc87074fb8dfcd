------------------------------- MODULE Tunnel -------------------------------
(***************************************************************************)
(* The tunnel: tunnel.Manager, which keeps its connections open, and       *)
(* tunnel.Conn, which serves one (internal/tunnel/manager.go, conn.go, and *)
(* the answers of dial.go).                                                *)
(*                                                                         *)
(* Goroutines: Run; one hold per slot; in Serve, the one that closes the   *)
(* session when the context is done; and a handler per stream.  What a     *)
(* handler runs is a server that may end at any time and need not end when *)
(* its stream does: StdioChild and PtyProcess say when they do.            *)
(*                                                                         *)
(* A stream is a member of a pool: when its handler has returned, another  *)
(* stream may have its name.  Time is not modelled, except that a wait     *)
(* keeps its upper bound in seconds.  NewConn does not fail: yamux.Server  *)
(* only refuses a bad configuration, and this one is fixed.                *)
(***************************************************************************)
EXTENDS ExpBackoff

CONSTANTS
    Slots,      \* connections held: Manager.Conns, or connsDefault
    Streams,    \* the pool of streams
    Answers,    \* what a dial may come back with
    Cancels,    \* whether the context may be cancelled
    DurationBits, \* the bits of a Duration: 64
    MaxAttempt  \* bound: failures in a row beyond it are not counted

Refused  == {"401", "404", "409", "426", "101 other"}
Accepted == {"101"}
Retried  == {"429", "503", "other", "unreachable"}

ASSUME TunnelAssumption ==
    /\ Slots # {}
    /\ Answers \subseteq Refused \cup Accepted \cup Retried
    /\ Cancels \in BOOLEAN /\ MaxAttempt \in Nat /\ DurationBits \in Nat \ {0}

VARIABLES
    \* Run.
    run,        \* "start" (before its select), "parked" or "returned"
    fatal,      \* the channel of one error: "empty" or the error in it
    result,     \* what Run returned: "none" yet, "nil", "canceled" or an answer
    \* hold, for each slot.
    pc,         \* "top", "dial", "sleep", "serve", "drain", "returned", "done"
    attempt,    \* failures in a row
    answer,     \* the last dial's
    wait,       \* the most it may sleep now, in seconds
    \* Serve, for each slot, and its handlers.
    session,    \* its yamux session: "closed" (none) or "open"
    handler,    \* for each stream: "none", "offered", "spawn", "attach", "close"
    owner,      \* the slot whose session brought it
    left,       \* streams whose handlers Serve has stopped waiting for
    ctxDone

runVars  == <<run, fatal, result>>
holdVars == <<pc, attempt, answer, wait>>
connVars == <<session, handler, owner, left>>

vars == <<runVars, holdVars, connVars, ctxDone>>

Init ==
    /\ run = "start" /\ fatal = "empty" /\ result = "none"
    /\ pc = [s \in Slots |-> "top"] /\ attempt = [s \in Slots |-> 0]
    /\ answer = [s \in Slots |-> "none"] /\ wait = [s \in Slots |-> 0]
    /\ session = [s \in Slots |-> "closed"]
    /\ handler = [t \in Streams |-> "none"]
    /\ owner \in [Streams -> Slots]
    /\ left = {} /\ ctxDone = FALSE

-----------------------------------------------------------------------------
(* The answer to a dial *)

IsError(a) == a \notin Accepted         \* mutant: every failed dial is final
IsFatal(a) == a \in Refused
After(a)   == IF a = "429" THEN 30 ELSE 0

\* At most this long: backoffBase << attempt, capped.
BackoffCap == 30
Backoff(n) == Capped(ShiftLeft(1, n, DurationBits), BackoffCap)

-----------------------------------------------------------------------------
(* Run *)

\* hold's error reaches Run if it waits in its select, else the channel, if
\* there is room; a second error is dropped.
Report(e) ==
    IF run = "parked"
    THEN run' = "returned" /\ result' = e /\ UNCHANGED fatal
    ELSE /\ fatal' = IF fatal = "empty" THEN e ELSE fatal
         /\ UNCHANGED <<run, result>>

AllDone == \A s \in Slots : pc[s] = "done"

\* Nothing is ready yet.
RunParks ==
    /\ run = "start" /\ fatal = "empty" /\ ~AllDone
    /\ run' = "parked"
    /\ UNCHANGED <<fatal, result, holdVars, connVars, ctxDone>>

RunTakes ==
    /\ run = "start" /\ fatal # "empty"
    /\ run' = "returned" /\ result' = fatal /\ fatal' = "empty"
    /\ UNCHANGED <<holdVars, connVars, ctxDone>>

\* With an error in the channel as well, select picks either.
RunDone ==
    /\ run # "returned" /\ AllDone
    /\ run' = "returned" /\ result' = IF ctxDone THEN "canceled" ELSE "nil"
    /\ UNCHANGED <<fatal, holdVars, connVars, ctxDone>>

Run == RunParks \/ RunTakes \/ RunDone

-----------------------------------------------------------------------------
(* hold *)

Goto(s, label) == pc' = [pc EXCEPT ![s] = label]

HoldReturns(s, e) == Goto(s, "returned") /\ Report(e)

HoldTop(s) ==
    /\ pc[s] = "top"
    /\ IF ctxDone THEN HoldReturns(s, "canceled")
                  ELSE Goto(s, "dial") /\ UNCHANGED runVars
    /\ UNCHANGED <<attempt, answer, wait, connVars, ctxDone>>

\* Dial takes no context.  The new session's streams are all still to come.
DialAccepted(s, a) ==
    /\ pc[s] = "dial" /\ a \in Accepted
    /\ Goto(s, "serve")
    /\ answer' = [answer EXCEPT ![s] = a] /\ attempt' = [attempt EXCEPT ![s] = 0]
    /\ session' = [session EXCEPT ![s] = "open"]
    /\ UNCHANGED <<runVars, wait, handler, owner, left, ctxDone>>

DialRefused(s, a) ==
    /\ pc[s] = "dial" /\ a \notin Accepted /\ IsFatal(a)
    /\ HoldReturns(s, a)
    /\ answer' = [answer EXCEPT ![s] = a]
    /\ UNCHANGED <<attempt, wait, connVars, ctxDone>>

DialFails(s, a) ==
    /\ pc[s] = "dial" /\ a \notin Accepted /\ ~IsFatal(a)
    /\ Goto(s, "sleep")
    /\ answer' = [answer EXCEPT ![s] = a]
    /\ wait' = [wait EXCEPT ![s] = IF After(a) > 0 THEN After(a) ELSE Backoff(attempt[s])]
    /\ attempt' = [attempt EXCEPT ![s] = IF @ < MaxAttempt THEN @ + 1 ELSE @]
    /\ UNCHANGED <<runVars, connVars, ctxDone>>

SleepEnds(s) ==
    /\ pc[s] = "sleep" /\ Goto(s, "top")
    /\ UNCHANGED <<runVars, attempt, answer, wait, connVars, ctxDone>>

SleepCanceled(s) ==
    /\ pc[s] = "sleep" /\ ctxDone
    /\ HoldReturns(s, "canceled")
    /\ UNCHANGED <<attempt, answer, wait, connVars, ctxDone>>

\* Run's WaitGroup, after the error is reported.
SlotDone(s) ==
    /\ pc[s] = "returned" /\ Goto(s, "done")
    /\ UNCHANGED <<runVars, attempt, answer, wait, connVars, ctxDone>>

Dial(s) == \E a \in Answers : DialAccepted(s, a) \/ DialRefused(s, a) \/ DialFails(s, a)

-----------------------------------------------------------------------------
(* Serve *)

Mine(s) == {t \in Streams : owner[t] = s /\ t \notin left}

\* The handlers Serve waits for.
Spawned(s)  == {t \in Mine(s) : handler[t] \in {"attach", "close"}}
                                        \* mutant: wg.Add in the handler, once it has spawned
Handlers(s) == {t \in Mine(s) : handler[t] \in {"spawn", "attach", "close"}}

CloseSession(s) ==
    /\ session[s] = "open" /\ session' = [session EXCEPT ![s] = "closed"]

\* The service opens a stream on the session (external).
StreamOpens(s, t) ==
    /\ session[s] = "open" /\ handler[t] = "none"
    /\ handler' = [handler EXCEPT ![t] = "offered"]
    /\ owner' = [owner EXCEPT ![t] = s]
    /\ UNCHANGED <<runVars, holdVars, session, left, ctxDone>>

\* The socket breaks or the service closes it (external).
SessionLost(s) ==
    /\ CloseSession(s)
    /\ UNCHANGED <<runVars, holdVars, handler, owner, left, ctxDone>>

NobodyCloses(s) == FALSE                \* mutant: Accept is not unblocked

\* The goroutine that waits for ctx.Done or for Serve to return.
CtxCloses(s) ==
    /\ pc[s] \in {"serve", "drain"} /\ ctxDone /\ CloseSession(s)
    /\ UNCHANGED <<runVars, holdVars, handler, owner, left, ctxDone>>

\* Accept may still return a stream that was waiting when the session closed.
Accept(s, t) ==
    /\ pc[s] = "serve" /\ handler[t] = "offered" /\ owner[t] = s
    /\ handler' = [handler EXCEPT ![t] = "spawn"]
    /\ UNCHANGED <<runVars, holdVars, session, owner, left, ctxDone>>

\* Streams that a slot has not accepted.
Waiting(s) == {t \in Streams : handler[t] = "offered" /\ owner[t] = s}

\* The session has closed, or it is open and yamux cannot acknowledge a stream:
\* Serve takes no more of them either way.
AcceptFails(s) ==
    /\ pc[s] = "serve" /\ (session[s] = "closed" \/ Waiting(s) # {})
    /\ Goto(s, "drain")
    /\ UNCHANGED <<runVars, attempt, answer, wait, connVars, ctxDone>>

\* Serve closes the session, and the streams it did not accept with it, and returns;
\* hold either ends or starts over.
ServeReturns(s) ==
    /\ IF ctxDone THEN HoldReturns(s, "canceled")
                  ELSE Goto(s, "top") /\ UNCHANGED runVars
    /\ session' = [session EXCEPT ![s] = "closed"]
    /\ handler' = [t \in Streams |-> IF t \in Waiting(s) THEN "none" ELSE handler[t]]
    /\ UNCHANGED <<attempt, answer, wait, owner, ctxDone>>

Drained(s) ==
    /\ pc[s] = "drain" /\ Handlers(s) = {}
    /\ ServeReturns(s) /\ UNCHANGED left

DrainForever(s) == FALSE                \* mutant: wg.Wait without a timeout

DrainExpires(s) ==
    /\ pc[s] = "drain" /\ Handlers(s) # {}
    /\ ServeReturns(s) /\ left' = left \cup Handlers(s)

-----------------------------------------------------------------------------
(* A handler *)

HandlerStep(t, from, to) ==
    /\ handler[t] = from /\ handler' = [handler EXCEPT ![t] = to]
    /\ UNCHANGED <<runVars, holdVars, session, owner, left, ctxDone>>

\* The server is started, or cannot be.
Spawn(t)     == HandlerStep(t, "spawn", "attach") \/ HandlerStep(t, "spawn", "close")

\* Attach returns and the server is stopped: it may have ended of itself.
Attached(t)  == HandlerStep(t, "attach", "close")

\* The stream is closed and the WaitGroup told.
HandlerEnds(t) ==
    /\ handler[t] = "close" /\ handler' = [handler EXCEPT ![t] = "none"]
    /\ left' = left \ {t}
    /\ UNCHANGED <<runVars, holdVars, session, owner, ctxDone>>

Handle(t) == Spawn(t) \/ Attached(t) \/ HandlerEnds(t)

-----------------------------------------------------------------------------

\* A signal (external).
CtxCancel ==
    /\ Cancels /\ ~ctxDone /\ ctxDone' = TRUE
    /\ UNCHANGED <<runVars, holdVars, connVars>>

Hold(s) ==
    \/ HoldTop(s) \/ Dial(s) \/ SleepEnds(s) \/ SleepCanceled(s) \/ SlotDone(s)

Serve(s) ==
    \/ SessionLost(s) \/ CtxCloses(s) \/ AcceptFails(s) \/ Drained(s) \/ DrainExpires(s)
    \/ \E t \in Streams : StreamOpens(s, t) \/ Accept(s, t)

Next ==
    \/ Run \/ CtxCancel
    \/ \E s \in Slots : Hold(s) \/ Serve(s)
    \/ \E t \in Streams : Handle(t)

Spec == Init /\ [][Next]_vars

(***************************************************************************)
(* Fairness.  Run and hold go on; a dial comes back, by its deadline if    *)
(* need be; timers fire.  A server that was started need not end, nor a    *)
(* handler be done with it.                                                *)
(***************************************************************************)
Fairness ==
    /\ WF_vars(Run)
    /\ \A s \in Slots :
        /\ WF_vars(HoldTop(s)) /\ WF_vars(Dial(s)) /\ WF_vars(SleepEnds(s))
        /\ WF_vars(SlotDone(s)) /\ WF_vars(CtxCloses(s))
        /\ WF_vars(session[s] = "closed" /\ AcceptFails(s))
        /\ WF_vars(Drained(s) \/ DrainExpires(s))

FairSpec == Spec /\ Fairness

-----------------------------------------------------------------------------
(* What it guarantees *)

Errors == Refused \cup Retried \cup {"canceled"}

RunType ==
    /\ run \in {"start", "parked", "returned"}
    /\ fatal \in Errors \cup {"empty"} /\ result \in Errors \cup {"none", "nil"}

HoldType ==
    /\ pc \in [Slots -> {"top", "dial", "sleep", "serve", "drain", "returned", "done"}]
    /\ attempt \in [Slots -> 0 .. MaxAttempt]
    /\ answer \in [Slots -> Answers \cup {"none"}]
    /\ wait \in [Slots -> 0 .. BackoffCap]
    /\ \A s \in Slots : pc[s] = "sleep" => wait[s] > 0

ConnType ==
    /\ session \in [Slots -> {"closed", "open"}]
    /\ handler \in [Streams -> {"none", "offered", "spawn", "attach", "close"}]
    /\ owner \in [Streams -> Slots]
    /\ left \subseteq Streams /\ ctxDone \in BOOLEAN

\* Every variable has the values its declaration names; a wait has a positive upper
\* bound, which is what rand.Int63n asks for, and it is not above the cap.
TypeOK == RunType /\ HoldType /\ ConnType

\* What a slot is to the abstract manager.
LinkOf(s) ==
    CASE pc[s] \in {"returned", "done"} -> "over"
      [] pc[s] = "serve" -> "up"
      [] OTHER -> "down"

\* The refusals so far: a slot that had one does not dial again.
Given == {r \in Refused : \E s \in Slots : answer[s] = r}

Contract == INSTANCE ManagerRun WITH
    Refusals <- Refused,
    link <- [s \in Slots |-> LinkOf(s)],
    refused <- Given

\* Run and hold together are the manager that ManagerRun describes: a failure that
\* another dial could mend ends no slot and is never what Run returns, a refusal is,
\* and a cancellation only when there was one.
ImplementsRun == Contract!Spec

\* With one slot, which is what the commands use: when Run returns, every
\* server that still runs has had its drainGrace, whatever ended Run.
NothingLeftBehind ==
    run = "returned" =>
        \A t \in Streams : handler[t] \in {"spawn", "attach", "close"} => t \in left

\* A cancelled context, or an error hold does not retry, ends Run, though no
\* server ends.
StopEndsRun == (ctxDone \/ \E s \in Slots : pc[s] = "returned") ~> run = "returned"

\* With a service that is reachable now and again and accepts the tunnel, a
\* slot is connected again until Run ends, though servers of an earlier
\* connection never end.
KeepsConnected ==
    \A s \in Slots :
        SF_vars(\E a \in Answers : DialAccepted(s, a))
            => (pc[s] # "serve" ~> pc[s] = "serve" \/ run = "returned")

\* A shutdown is clean: a dial that comes back when the context is done does
\* not make its answer the error of Run.
CancelIsClean ==
    [][\A s \in Slots : ctxDone /\ pc[s] = "dial" /\ pc'[s] = "returned"
            => result' \in {"none", "canceled"}]_vars

=============================================================================
