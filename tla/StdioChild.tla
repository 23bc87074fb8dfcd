----------------------------- MODULE StdioChild -----------------------------
(***************************************************************************)
(* One MCP server and the stream it serves (internal/stdio/child.go, and   *)
(* the goroutine of internal/tunnel/conn.go that runs it).                 *)
(*                                                                         *)
(* Five goroutines: Attach (relays stdout, then stops the server), the one *)
(* it starts (relays stdin), the waiter (cmd.Wait), os/exec's watcher of   *)
(* the context, and whichever of the first two is first to call Stop.  The *)
(* server is the process that was started, here the leader, and at most    *)
(* one process it starts, the helper, which shares its pipes and stays in  *)
(* the leader's process group or leaves it for a session of its own.       *)
(*                                                                         *)
(* Bytes are counted, not kept.  Time is not modelled: a timer may fire at *)
(* any point after it is set.                                              *)
(***************************************************************************)
EXTENDS Naturals

CONSTANTS
    Homes,      \* where a helper may live: "group", "session"
    Cancels,    \* whether the context may be cancelled
    Hangs,      \* whether the peer may close the stream
    Unprompted, \* whether the server may end before its stdin is closed or a signal
                \* of this side reaches it
    PipeIn,     \* how many unread writes the stdin pipe holds
    PipeOut,    \* how many unread writes the stdout pipe holds
    MaxOutput   \* bound: how often the server writes

ASSUME ChildAssumption ==
    /\ Homes \subseteq {"group", "session"}
    /\ Cancels \in BOOLEAN /\ Hangs \in BOOLEAN /\ Unprompted \in BOOLEAN
    /\ PipeIn \in Nat \ {0} /\ PipeOut \in Nat \ {0} /\ MaxOutput \in Nat

VARIABLES
    \* The server's processes and pipes.
    exit,       \* how the leader ended: "none" while it runs, "ok", "fail", "signal"
    helper,     \* "none", "group", "session" or "gone"
    leaderSig,  \* the strongest signal this side sent it: "none", "term", "kill"
    helperSig,  \* whether it sent the helper one
    wrote,      \* how often the server wrote to stdout
    inBuf,      \* writes it has not read from stdin
    \* This side's ends of the pipes.
    stdin,      \* open
    outR,       \* open
    taken,      \* how much of wrote was read from stdout
    \* cmd.Wait and os/exec's watchCtx.
    waitPc,     \* "wait", "reaped", "drain", "done" (waitDone has its value)
    waitErr,    \* what exitError makes of it: "none", "nil", "fail", "canceled"
    watch,      \* "watching", "grace", "killed", "off"
    outTimer,   \* the AfterFunc that closes outR: "off", "armed", "fired"
    \* Stop.
    stopPc,     \* "idle", "wait1", "check1", "term", "wait2", "check2", "kill",
                \* "await", "done"
    \* Attach and its caller.
    outPc,      \* "read", "write", "stop", "select", "returned", "closed"
    outErr,     \* of io.Copy: "nil", "closed" (outR, which is expected) or "relay"
    result,     \* what Attach returned: "none", "nil", "relay", "canceled", "fail"
    \* The goroutine that relays stdin.
    inPc,       \* "read", "write", "close", "stop", "done"
    inErr,      \* "nil" or "relay"
    \* The stream and the context.
    stream,     \* "open", "hungup" (by the peer) or "closed" (by this side)
    ctxDone

procVars   == <<exit, helper, leaderSig, helperSig, wrote, inBuf>>
waitVars   == <<waitPc, waitErr, watch, outTimer>>
attachVars == <<outPc, outErr, result>>
inVars     == <<inPc, inErr>>
envVars    == <<stream, ctxDone>>

vars == <<procVars, stdin, outR, taken, waitVars, stopPc, attachVars, inVars, envVars>>

Init ==
    /\ exit = "none" /\ helper = "none" /\ leaderSig = "none" /\ helperSig = FALSE
    /\ wrote = 0 /\ inBuf = 0
    /\ stdin = TRUE /\ outR = TRUE /\ taken = 0
    /\ waitPc = "wait" /\ waitErr = "none" /\ watch = "watching" /\ outTimer = "off"
    /\ stopPc = "idle"
    /\ outPc = "read" /\ outErr = "nil" /\ result = "none"
    /\ inPc = "read" /\ inErr = "nil"
    /\ stream = "open" /\ ctxDone = FALSE

-----------------------------------------------------------------------------
(* The server and the world (external) *)

HelperLives == helper \in {"group", "session"}
ServerLives == exit = "none" \/ HelperLives

Spawn(home) ==
    /\ exit = "none" /\ helper = "none"
    /\ helper' = home
    /\ UNCHANGED <<exit, leaderSig, helperSig, wrote, inBuf, stdin, outR, taken,
                   waitVars, stopPc, attachVars, inVars, envVars>>

ServerWrites ==
    /\ ServerLives /\ wrote < MaxOutput
    /\ outR /\ wrote - taken < PipeOut
    /\ wrote' = wrote + 1
    /\ UNCHANGED <<exit, helper, leaderSig, helperSig, inBuf, stdin, outR, taken,
                   waitVars, stopPc, attachVars, inVars, envVars>>

ServerReads ==
    /\ ServerLives /\ inBuf > 0
    /\ inBuf' = inBuf - 1
    /\ UNCHANGED <<exit, helper, leaderSig, helperSig, wrote, stdin, outR, taken,
                   waitVars, stopPc, attachVars, inVars, envVars>>

\* The leader exits, or dies of a signal, which is one of this side's unless it
\* may end unprompted.
Exit(how) ==
    /\ exit = "none"
    /\ leaderSig = "kill" => how = "signal"
    /\ Unprompted \/ leaderSig # "none" \/ (~stdin /\ how # "signal")
    /\ exit' = how
    /\ UNCHANGED <<helper, leaderSig, helperSig, wrote, inBuf, stdin, outR, taken,
                   waitVars, stopPc, attachVars, inVars, envVars>>

HelperExits ==
    /\ HelperLives /\ helper' = "gone"
    /\ UNCHANGED <<exit, leaderSig, helperSig, wrote, inBuf, stdin, outR, taken,
                   waitVars, stopPc, attachVars, inVars, envVars>>

PeerCloses ==
    /\ Hangs /\ stream = "open" /\ stream' = "hungup"
    /\ UNCHANGED <<procVars, stdin, outR, taken, waitVars, stopPc, attachVars,
                   inVars, ctxDone>>

CtxCancel ==
    /\ Cancels /\ ~ctxDone /\ ctxDone' = TRUE
    /\ UNCHANGED <<procVars, stdin, outR, taken, waitVars, stopPc, attachVars,
                   inVars, stream>>

\* Serve closes the yamux session, and every stream with it, once ctx is done.
ConnCloses ==
    /\ ctxDone /\ stream # "closed" /\ stream' = "closed"
    /\ UNCHANGED <<procVars, stdin, outR, taken, waitVars, stopPc, attachVars,
                   inVars, ctxDone>>

Environment ==
    \/ ServerWrites \/ ServerReads \/ HelperExits
    \/ PeerCloses \/ CtxCancel \/ ConnCloses
    \/ \E home \in Homes : Spawn(home)
    \/ \E how \in {"ok", "fail", "signal"} : Exit(how)

-----------------------------------------------------------------------------
(* Signals *)

\* terminateGroup and killGroup: everything in the leader's group hears it.
SignalGroup(s) ==
    /\ leaderSig' = IF exit = "none" /\ leaderSig # "kill" THEN s ELSE leaderSig
    /\ helperSig' = (helperSig \/ helper = "group")
    /\ UNCHANGED <<exit, helper, wrote, inBuf>>

-----------------------------------------------------------------------------
(* The waiter, and os/exec's watcher of the context *)

\* The leader is reaped; from here its process id may be another's.
Reap ==
    /\ waitPc = "wait" /\ exit # "none"
    /\ waitPc' = "reaped"
    /\ UNCHANGED <<procVars, stdin, outR, taken, waitErr, watch, outTimer, stopPc,
                   attachVars, inVars, envVars>>

\* The context is done before the waiter takes the watcher's result: Cancel.
WatchCancel ==
    /\ watch = "watching" /\ ctxDone /\ waitPc \in {"wait", "reaped"}
    /\ SignalGroup("term")
    /\ watch' = "grace"
    /\ UNCHANGED <<stdin, outR, taken, waitPc, waitErr, outTimer, stopPc, attachVars,
                   inVars, envVars>>

NoWaitDelay == FALSE                    \* mutant: WaitDelay is left at zero
\* WaitDelay later the leader alone is killed, and its stderr closed.
WatchKill ==
    /\ watch = "grace" /\ waitPc \in {"wait", "reaped"}
    /\ leaderSig' = IF exit = "none" THEN "kill" ELSE leaderSig
    /\ watch' = "killed"
    /\ UNCHANGED <<exit, helper, helperSig, wrote, inBuf, stdin, outR, taken, waitPc,
                   waitErr, outTimer, stopPc, attachVars, inVars, envVars>>

\* What Stop reports of the exit: Wait's error, as exitError sees it.
ExitError ==
    CASE exit = "fail" -> "fail"
      [] exit = "signal" -> "nil"
      [] exit = "ok" -> IF watch = "watching" THEN "nil" ELSE "canceled"

\* Wait takes the watcher's result, which ends it.
WatchEnds ==
    /\ waitPc = "reaped"
    /\ waitPc' = "drain" /\ waitErr' = ExitError /\ watch' = "off"
    /\ UNCHANGED <<procVars, stdin, outR, taken, outTimer, stopPc, attachVars, inVars,
                   envVars>>

\* Wait returns once stderr has ended or WaitDelay has passed, whichever is
\* first; the AfterFunc is set and waitDone gets its value.
CloseAtOnce ==                          \* mutant: pipes closed by Wait, as StdoutPipe's are
    outR' = FALSE /\ outTimer' = "off"
ArmTimer ==
    outTimer' = "armed" /\ UNCHANGED outR

WaitReturns ==
    /\ waitPc = "drain" /\ waitPc' = "done"
    /\ ArmTimer
    /\ UNCHANGED <<procVars, stdin, taken, waitErr, watch, stopPc, attachVars, inVars,
                   envVars>>

TimerNeverSet == FALSE                  \* mutant: stdout is never given up
OutTimer ==
    /\ outTimer = "armed"
    /\ outTimer' = "fired" /\ outR' = FALSE
    /\ UNCHANGED <<procVars, stdin, taken, waitPc, waitErr, watch, stopPc, attachVars,
                   inVars, envVars>>

Wait == Reap \/ WatchCancel \/ WatchKill \/ WatchEnds \/ WaitReturns \/ OutTimer

-----------------------------------------------------------------------------
(* Stop *)

\* The first to call it runs it; every other caller waits until it is through.
Asked == outPc = "stop" \/ inPc = "stop"
NotWaitedFor == stopPc # "idle"         \* mutant: a flag in place of the sync.Once
Stopped == stopPc = "done"

StopStarts ==
    /\ stopPc = "idle" /\ Asked
    /\ stdin' = FALSE /\ stopPc' = "wait1"
    /\ UNCHANGED <<procVars, outR, taken, waitVars, attachVars, inVars, envVars>>

StopOnly == UNCHANGED <<stdin, outR, taken, waitVars, attachVars, inVars, envVars>>

\* Either select, reaped's or the last receive gets the value of waitDone.
StopExited ==
    /\ stopPc \in {"wait1", "check1", "wait2", "check2", "await"}
    /\ waitPc = "done" /\ stopPc' = "done"
    /\ UNCHANGED procVars /\ StopOnly

StopExpired ==
    /\ \/ stopPc = "wait1" /\ stopPc' = "check1"
       \/ stopPc = "wait2" /\ stopPc' = "check2"
    /\ UNCHANGED procVars /\ StopOnly

\* reaped finds waitDone empty.
StopNotReaped ==
    /\ waitPc # "done"
    /\ \/ stopPc = "check1" /\ stopPc' = "term"
       \/ stopPc = "check2" /\ stopPc' = "kill"
    /\ UNCHANGED procVars /\ StopOnly

StopTerminates == stopPc = "term" /\ stopPc' = "wait2" /\ SignalGroup("term") /\ StopOnly
StopKills      == stopPc = "kill" /\ stopPc' = "await" /\ SignalGroup("kill") /\ StopOnly

Stop ==
    \/ StopStarts \/ StopExited \/ StopExpired \/ StopNotReaped
    \/ StopTerminates \/ StopKills

-----------------------------------------------------------------------------
(* Attach: stdout to the stream *)

Readable == wrote > taken

OutRead ==
    /\ outPc = "read" /\ outR /\ Readable
    /\ taken' = taken + 1 /\ outPc' = "write"
    /\ UNCHANGED <<procVars, stdin, outR, waitVars, stopPc, outErr, result, inVars,
                   envVars>>

\* Nothing is left and nobody can write any more, or outR is closed.
OutEnds ==
    /\ outPc = "read"
    /\ ~outR \/ (wrote = taken /\ ~ServerLives)
    /\ outPc' = "stop" /\ outErr' = IF outR THEN "nil" ELSE "closed"
    /\ UNCHANGED <<procVars, stdin, outR, taken, waitVars, stopPc, result, inVars,
                   envVars>>

OutWritten ==
    /\ outPc = "write" /\ stream # "closed"
    /\ outPc' = "read"
    /\ UNCHANGED <<procVars, stdin, outR, taken, waitVars, stopPc, outErr, result,
                   inVars, envVars>>

OutFails ==
    /\ outPc = "write" /\ stream # "open"
    /\ outPc' = "stop" /\ outErr' = "relay"
    /\ UNCHANGED <<procVars, stdin, outR, taken, waitVars, stopPc, result, inVars,
                   envVars>>

OutStopped ==
    /\ outPc = "stop" /\ Stopped
    /\ outPc' = "select"
    /\ UNCHANGED <<procVars, stdin, outR, taken, waitVars, stopPc, outErr, result,
                   inVars, envVars>>

\* Attach's error, with what the stdin relay reported or without.
RelayOnly(relay) ==                     \* mutant: how the server exited is dropped
    IF relay = "relay" THEN "relay" ELSE IF ctxDone THEN "canceled" ELSE "nil"
Outcome(relay) ==
    IF relay = "relay" THEN "relay" ELSE IF ctxDone THEN "canceled" ELSE waitErr

\* inDone has its value, or a second has passed.
AttachReturns ==
    /\ outPc = "select"
    /\ \/ /\ inPc \in {"stop", "done"}
          /\ result' = Outcome(IF outErr = "nil" THEN inErr ELSE outErr)
       \/ result' = Outcome(outErr)
    /\ outPc' = "returned"
    /\ UNCHANGED <<procVars, stdin, outR, taken, waitVars, stopPc, outErr, inVars,
                   envVars>>

\* handle's deferred calls: Stop, which is through, and the stream's Close.
StreamKept == UNCHANGED stream          \* mutant: the stream is not closed
StreamClosed == stream' = "closed"

HandleReturns ==
    /\ outPc = "returned" /\ outPc' = "closed"
    /\ StreamClosed
    /\ UNCHANGED <<procVars, stdin, outR, taken, waitVars, stopPc, outErr, result,
                   inVars, ctxDone>>

Attach ==
    \/ OutRead \/ OutEnds \/ OutWritten \/ OutFails
    \/ OutStopped \/ AttachReturns \/ HandleReturns

-----------------------------------------------------------------------------
(* The goroutine that relays the stream to stdin *)

\* The peer has sent something; it may still be read after a close.
InRead ==
    /\ inPc = "read" /\ inPc' = "write"
    /\ UNCHANGED <<procVars, stdin, outR, taken, waitVars, stopPc, attachVars, inErr,
                   envVars>>

\* The stream has ended, by a close or by a reset.
InEnds ==
    /\ inPc = "read" /\ stream # "open"
    /\ inPc' = "close" /\ inErr' \in {"nil", "relay"}
    /\ UNCHANGED <<procVars, stdin, outR, taken, waitVars, stopPc, attachVars, envVars>>

InWritten ==
    /\ inPc = "write" /\ stdin /\ ServerLives /\ inBuf < PipeIn
    /\ inBuf' = inBuf + 1 /\ inPc' = "read"
    /\ UNCHANGED <<exit, helper, leaderSig, helperSig, wrote, stdin, outR, taken,
                   waitVars, stopPc, attachVars, inErr, envVars>>

\* Stop has closed stdin, or nobody has its other end.
InFails ==
    /\ inPc = "write" /\ (~stdin \/ ~ServerLives)
    /\ inPc' = "close" /\ inErr' = IF stdin THEN "relay" ELSE "nil"
    /\ UNCHANGED <<procVars, stdin, outR, taken, waitVars, stopPc, attachVars, envVars>>

NeverStops ==                           \* mutant: the server is not stopped from here
    /\ inPc = "close"
    /\ stdin' = FALSE /\ inPc' = "done"
    /\ UNCHANGED <<procVars, outR, taken, waitVars, stopPc, attachVars, inErr, envVars>>

\* stdin is closed, and inDone gets its value.
InCloses ==
    /\ inPc = "close"
    /\ stdin' = FALSE /\ inPc' = "stop"
    /\ UNCHANGED <<procVars, outR, taken, waitVars, stopPc, attachVars, inErr, envVars>>

InStopped ==
    /\ inPc = "stop" /\ Stopped
    /\ inPc' = "done"
    /\ UNCHANGED <<procVars, stdin, outR, taken, waitVars, stopPc, attachVars, inErr,
                   envVars>>

In == InRead \/ InEnds \/ InWritten \/ InFails \/ InCloses \/ InStopped

-----------------------------------------------------------------------------

Next == Environment \/ Wait \/ Stop \/ Attach \/ In

Spec == Init /\ [][Next]_vars

(***************************************************************************)
(* Fairness.  Goroutines that can run do, timers fire, a killed leader     *)
(* dies, a cancelled connection closes its streams, and a stream that has  *)
(* been closed runs out of what was sent before.  A stream whose peer has  *)
(* hung up takes a write or refuses it: yamux resets it if need be.        *)
(* Nothing is assumed of the server: it may ignore SIGTERM and a closed    *)
(* stdin, not read, leave a helper behind that never ends.  Nor is the     *)
(* peer of an open stream assumed to read: the properties say so where     *)
(* either matters.                                                         *)
(***************************************************************************)
Fairness ==
    /\ WF_vars(ConnCloses)
    /\ WF_vars(leaderSig = "kill" /\ Exit("signal"))
    /\ WF_vars(Reap) /\ WF_vars(WatchCancel) /\ WF_vars(WatchKill)
    /\ WF_vars(WatchEnds) /\ WF_vars(WaitReturns) /\ WF_vars(OutTimer)
    /\ WF_vars(Stop)
    /\ WF_vars(OutRead) /\ WF_vars(OutEnds)
    /\ WF_vars(stream # "open" /\ (OutWritten \/ OutFails))
    /\ WF_vars(OutStopped) /\ WF_vars(AttachReturns) /\ WF_vars(HandleReturns)
    /\ SF_vars(InEnds) /\ WF_vars(InWritten \/ InFails)
    /\ WF_vars(InCloses) /\ WF_vars(InStopped)

FairSpec == Spec /\ Fairness

-----------------------------------------------------------------------------
(* What it guarantees *)

ProcType ==
    /\ exit \in {"none", "ok", "fail", "signal"}
    /\ helper \in {"none", "group", "session", "gone"}
    /\ leaderSig \in {"none", "term", "kill"} /\ helperSig \in BOOLEAN
    /\ wrote \in Nat /\ taken \in 0 .. wrote /\ wrote - taken <= PipeOut
    /\ inBuf \in 0 .. PipeIn

WaitType ==
    /\ stdin \in BOOLEAN /\ outR \in BOOLEAN
    /\ waitPc \in {"wait", "reaped", "drain", "done"}
    /\ waitErr \in {"none", "nil", "fail", "canceled"}
    /\ watch \in {"watching", "grace", "killed", "off"}
    /\ outTimer \in {"off", "armed", "fired"}
    /\ stopPc \in {"idle", "wait1", "check1", "term", "wait2", "check2", "kill",
                   "await", "done"}

RelayType ==
    /\ outPc \in {"read", "write", "stop", "select", "returned", "closed"}
    /\ outErr \in {"nil", "closed", "relay"}
    /\ result \in {"none", "nil", "relay", "canceled", "fail"}
    /\ inPc \in {"read", "write", "close", "stop", "done"}
    /\ inErr \in {"nil", "relay"}
    /\ stream \in {"open", "hungup", "closed"} /\ ctxDone \in BOOLEAN

\* Every variable has the values its declaration names, and no pipe holds
\* more than the kernel lets it.
TypeOK == ProcType /\ WaitType /\ RelayType

\* Once Attach is past Stop the leader has been reaped and Wait has returned,
\* whoever called Stop first: a session leaves no zombie.
NoZombieLeft == outPc \in {"select", "returned", "closed"} => waitPc = "done"

\* A relay of stdout that the peer did not break off has passed on all the server
\* wrote, unless the AfterFunc cut it off: Wait, which runs at the same time,
\* takes nothing from it.
OutputRelayed ==
    outPc \notin {"read", "write"} /\ outErr # "relay" /\ outTimer # "fired"
        => taken = wrote

\* How the relay of stdout ended.
RelayOf ==
    IF outPc \in {"read", "write"} THEN "on"
    ELSE CASE outErr = "relay" -> "broken"
           [] outErr = "closed" -> "cut"
           [] OTHER -> "complete"

Session == INSTANCE StdioSession WITH
    server <- exit,
    reaped <- (waitPc # "wait"),
    told <- leaderSig,
    passed <- taken,
    relay <- RelayOf,
    ended <- (stream # "open")

\* Attach, Stop, the waiter and the watcher of the context are together the session
\* that StdioSession describes: stdin is closed before SIGTERM, SIGTERM comes before
\* SIGKILL, whoever sends them; output is lost only in the ways it names; and an
\* exit status is not lost between the callers of Stop.
ImplementsSession == Session!Spec

Over == outPc = "closed" /\ inPc = "done"

\* A stream that has ended, by either side, ends its session as long as the
\* server reads its stdin, though it heeds nothing else: Attach and its caller
\* return, and so does the goroutine that relayed the stream.
StreamEndsSession == WF_vars(ServerReads) => (stream # "open" ~> Over)

\* A cli told to stop ends the session whatever the server, what the server
\* started and the peer do.
CancelEndsSession == ctxDone ~> Over

\* A server that has exited ends its session, though what it started holds
\* its pipes open for ever, as long as the peer reads.
ExitEndsSession == WF_vars(OutWritten) => (exit # "none" ~> outPc = "closed")

\* A session that is over leaves no goroutine on its stream.
NoGoroutineLeft == outPc = "closed" ~> inPc = "done"

\* A stream that has ended stops the process, whatever the process does.
ClosingStreamStops == stream # "open" ~> Over

\* When the session is over, what the leader started in its group has ended or
\* has at least been signalled.
GroupStopped == outPc = "closed" => helper # "group" \/ helperSig

=============================================================================
