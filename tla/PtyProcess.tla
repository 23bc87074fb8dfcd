----------------------------- MODULE PtyProcess -----------------------------
(***************************************************************************)
(* One program on a PTY and the sessions attached to it                    *)
(* (internal/pty/process.go).                                              *)
(*                                                                         *)
(* Five kinds of goroutine share a Process: the pump that reads the PTY    *)
(* and broadcasts every read, the waiter that reaps the program, the       *)
(* caller of Stop, and for every attached session its Attach call (which   *)
(* runs the input loop), its output loop and the goroutine that closes its *)
(* stream once it has ended.  An action is what one of them does between   *)
(* two points at which another one can run: a critical section of p.mu, a  *)
(* select, one blocking system call.                                       *)
(*                                                                         *)
(* Data is abstracted.  The n-th read of the PTY, and the frame made of    *)
(* it, is the number n.  A data frame typed by a session reaches the PTY   *)
(* in two halves, which is what the input lock is there to keep together;  *)
(* of the bytes only the session that wrote the last half is kept.         *)
(* Pasted files and sizes are the subject of other modules.                *)
(***************************************************************************)
EXTENDS Naturals, Sequences

CONSTANTS
    Viewers,        \* sessions; each attaches at most once
    Readers,        \* the sessions whose peer goes on reading its stream
    Typists,        \* the sessions whose peer sends frames
    Closers,        \* the sessions whose peer may close its stream
    QueueFrames,    \* queueFrames: the capacity of viewer.out
    TtyOut,         \* how much unread output the kernel holds before a writer blocks
    TtyIn,          \* how many unread halves of input it holds
    Exits,          \* how the program may exit: with status "ok" or "fail"
    Shutdown,       \* how the cli may be told to end: "stop", "cancel" or both
    MaxOutput,      \* bound: how much output there is in a behaviour
    None            \* nobody

ASSUME PtyAssumption ==
    /\ Readers \subseteq Viewers /\ Typists \subseteq Viewers
    /\ Closers \subseteq Viewers
    /\ QueueFrames \in Nat \ {0}
    /\ TtyOut \in Nat \ {0}
    /\ TtyIn \in Nat \ {0}
    /\ Exits \subseteq {"ok", "fail"} /\ Shutdown \subseteq {"stop", "cancel"}
    /\ "stop" \in Shutdown => "fail" \in Exits
    /\ MaxOutput \in Nat
    /\ None \notin Viewers

VARIABLES
    \* The program, its process group and the terminal's side of the PTY.
    prog,       \* the program: "running", a zombie ("ok" or "fail"), or "reaped"
    killed,     \* whether a SIGKILL is on its way to the running program
    ttyHeld,    \* whether any process still has the terminal open
    written,    \* how much output was written to the terminal
    inBuf,      \* input halves the program has not read
    lastIn,     \* whose half reached the terminal last
    \* The pump.
    pumpPc,     \* "read", "snapshot", "offer" or "closed"
    nread,      \* how many reads it has done
    targets,    \* viewers of the snapshot that still have to get the frame
    stalled,    \* the viewer it is waiting for, or None
    \* Process, under p.mu.
    viewers,
    done,       \* p.done is closed
    err,        \* p.err, computed when the program is reaped
    \* Process, under p.inMu.
    inMu,       \* the session that holds the input lock, or None
    \* The sessions.
    attach,     \* Attach: "new", "input", "lock", "write1", "write2", "leave", "returned"
    gone,       \* v.gone is closed
    outPc,      \* the output loop: "off", "select", "write", "failed"
    stream,     \* "open", "hungup" (by the peer) or "closed" (by this side)
    out,        \* v.out, the frames queued for the stream
    last,       \* the last frame taken from it, at first the last one before it joined
    \* Stop, and the context of the streams.
    stopPc,     \* "idle", "check", "term", "grace", "kill", "await", "returned"
    ctxDone

progVars == <<prog, killed, ttyHeld, written>>
inVars   == <<inBuf, lastIn, inMu>>
pumpVars == <<pumpPc, nread, targets, stalled>>
muVars   == <<viewers, done, err>>
sessVars == <<attach, gone, outPc, stream, out, last>>
ctlVars  == <<stopPc, ctxDone>>

vars == <<progVars, inVars, pumpVars, muVars, sessVars, ctlVars>>

Statuses == {"ok", "fail"}

Init ==
    /\ prog = "running" /\ killed = FALSE
    /\ ttyHeld = TRUE /\ written = 0
    /\ inBuf = 0 /\ lastIn = None /\ inMu = None
    /\ pumpPc = "read" /\ nread = 0 /\ targets = {} /\ stalled = None
    /\ viewers = {} /\ done = FALSE /\ err = "none"
    /\ attach = [v \in Viewers |-> "new"]
    /\ gone = [v \in Viewers |-> FALSE]
    /\ outPc = [v \in Viewers |-> "off"]
    /\ stream = [v \in Viewers |-> "open"]
    /\ out = [v \in Viewers |-> <<>>]
    /\ last = [v \in Viewers |-> 0]
    /\ stopPc = "idle" /\ ctxDone = FALSE

-----------------------------------------------------------------------------
(* Helpers *)

\* viewer.end: v.gone is closed, once.
End(v) == gone' = [gone EXCEPT ![v] = TRUE]

RoomForOneMore(v) == Len(out[v]) <= QueueFrames    \* mutant: off by one
HasRoom(v) == Len(out[v]) < QueueFrames

\* The frame of the read in hand goes into the viewer's channel.
Enqueue(v) == out' = [out EXCEPT ![v] = Append(@, nread)]

\* The range loop of broadcast goes on with the next viewer, or back to Read.
NextTarget(v) ==
    /\ targets' = targets \ {v}
    /\ stalled' = None
    /\ pumpPc' = IF targets = {v} THEN "read" ELSE "offer"


-----------------------------------------------------------------------------
(* The program and the kernel (external: only what the code relies on) *)

\* The program, or a descendant that has the terminal open, writes; it blocks
\* while the kernel holds as much as it will.
ProgWrite ==
    /\ ttyHeld /\ written < MaxOutput
    /\ written - nread < TtyOut
    /\ written' = written + 1
    /\ UNCHANGED <<prog, killed, ttyHeld, inVars, pumpVars, muVars, sessVars, ctlVars>>

\* It reads its terminal, whenever it pleases.
ProgRead ==
    /\ ttyHeld /\ inBuf > 0
    /\ inBuf' = inBuf - 1
    /\ UNCHANGED <<progVars, lastIn, inMu, pumpVars, muVars, sessVars, ctlVars>>

\* SIGTERM it may take as it likes; SIGKILL ends it.
Exit(s) ==
    /\ prog = "running"
    /\ killed => s = "fail"
    /\ prog' = s /\ killed' = FALSE
    /\ UNCHANGED <<ttyHeld, written, inVars, pumpVars, muVars, sessVars, ctlVars>>

\* The last process that had the terminal open closes it.
TtyClose ==
    /\ ttyHeld /\ ttyHeld' = FALSE
    /\ UNCHANGED <<prog, killed, written, inVars, pumpVars, muVars, sessVars, ctlVars>>

\* The service closes its side of the session's stream, or its reset arrives.
PeerCloses(v) ==
    /\ v \in Closers /\ attach[v] # "new" /\ stream[v] = "open"
    /\ stream' = [stream EXCEPT ![v] = "hungup"]
    /\ UNCHANGED <<progVars, inVars, pumpVars, muVars, attach, gone, outPc, out,
                   last, ctlVars>>

\* The context every stream of the connection runs under is cancelled.
CtxCancel ==
    /\ "cancel" \in Shutdown /\ ~ctxDone /\ ctxDone' = TRUE
    /\ UNCHANGED <<progVars, inVars, pumpVars, muVars, sessVars, stopPc>>

-----------------------------------------------------------------------------
(* pump and broadcast *)

PumpRead ==
    /\ pumpPc = "read" /\ written > nread
    /\ nread' = nread + 1 /\ pumpPc' = "snapshot"
    /\ UNCHANGED <<progVars, inVars, targets, stalled, muVars, sessVars, ctlVars>>

\* Read fails once nobody has the terminal open and its output is drained.
PumpClose ==
    /\ pumpPc = "read" /\ written = nread /\ ~ttyHeld
    /\ pumpPc' = "closed"
    /\ UNCHANGED <<progVars, inVars, nread, targets, stalled, muVars, sessVars, ctlVars>>

\* broadcast copies the set of viewers under p.mu.
Snapshot ==
    /\ pumpPc = "snapshot"
    /\ targets' = viewers
    /\ pumpPc' = IF viewers = {} THEN "read" ELSE "offer"
    /\ UNCHANGED <<progVars, inVars, nread, stalled, muVars, sessVars, ctlVars>>

\* The select with a default: of the ready cases any may be picked.
Offer(v) ==
    /\ pumpPc = "offer" /\ stalled = None /\ v \in targets
    /\ \/ /\ HasRoom(v) /\ Enqueue(v) /\ NextTarget(v)
       \/ /\ gone[v] /\ NextTarget(v)
          /\ UNCHANGED out
       \/ /\ ~HasRoom(v) /\ ~gone[v]
          /\ stalled' = v
          /\ UNCHANGED <<pumpPc, targets, out>>
    /\ UNCHANGED <<progVars, inVars, nread, muVars, attach, gone, outPc, stream,
                   last, ctlVars>>

\* The stall timer fires: the viewer is dropped.
StallForgotten(v) == UNCHANGED gone     \* mutant: only the frame is dropped
StallNever(v) == FALSE                  \* mutant: there is no timer
StallLimit(v) == End(v)

\* The select that waits for the viewer, or for the stall limit to pass.
Stalled(v) ==
    /\ stalled = v
    /\ NextTarget(v)
    /\ \/ /\ HasRoom(v) /\ Enqueue(v)
          /\ UNCHANGED gone
       \/ /\ gone[v]
          /\ UNCHANGED <<out, gone>>
       \/ /\ StallLimit(v)
          /\ UNCHANGED out
    /\ UNCHANGED <<progVars, inVars, nread, muVars, attach, outPc, stream, last, ctlVars>>

Pump ==
    \/ PumpRead \/ PumpClose \/ Snapshot
    \/ \E v \in Viewers : Offer(v) \/ Stalled(v)

-----------------------------------------------------------------------------
(* Attach, and the loops of one session *)

\* join's look at p.done.
Open == ~done

\* join under p.mu, and the goroutines started for a viewer that got in.
Join(v) ==
    /\ attach[v] = "new"
    /\ \/ /\ ~Open
          /\ attach' = [attach EXCEPT ![v] = "returned"]
          /\ UNCHANGED <<viewers, outPc, last>>
       \/ /\ Open
          /\ attach' = [attach EXCEPT ![v] = "input"]
          /\ viewers' = viewers \cup {v}
          /\ outPc' = [outPc EXCEPT ![v] = "select"]
          /\ last' = [last EXCEPT ![v] = IF pumpPc = "snapshot" THEN nread - 1
                                         ELSE nread]
    /\ UNCHANGED <<progVars, inVars, pumpVars, done, err, gone, stream, out, ctlVars>>

\* context.AfterFunc(ctx, v.end); stopped once Attach returns.
CtxEnd(v) ==
    /\ ctxDone /\ attach[v] \notin {"new", "returned"} /\ ~gone[v]
    /\ End(v)
    /\ UNCHANGED <<progVars, inVars, pumpVars, muVars, attach, outPc, stream,
                   out, last, ctlVars>>

\* The goroutine that closes an ended viewer's stream.
StreamLeftOpen(v) == FALSE              \* mutant: the stream is left open
CloseStream(v) ==
    /\ gone[v] /\ stream[v] # "closed"
    /\ stream' = [stream EXCEPT ![v] = "closed"]
    /\ UNCHANGED <<progVars, inVars, pumpVars, muVars, attach, gone, outPc, out,
                   last, ctlVars>>

\* output's select: a frame, or the end.
OutputTake(v) ==
    /\ outPc[v] = "select" /\ out[v] # <<>>
    /\ last' = [last EXCEPT ![v] = Head(out[v])]
    /\ out' = [out EXCEPT ![v] = Tail(@)]
    /\ outPc' = [outPc EXCEPT ![v] = "write"]
    /\ UNCHANGED <<progVars, inVars, pumpVars, muVars, attach, gone, stream, ctlVars>>

OutputStop(v) ==
    /\ outPc[v] = "select" /\ gone[v]
    /\ outPc' = [outPc EXCEPT ![v] = "off"]
    /\ UNCHANGED <<progVars, inVars, pumpVars, muVars, attach, gone, stream, out,
                   last, ctlVars>>

\* Write returns: the stream has taken the frame, which is up to the peer, and
\* the loop goes on; or it fails.
OutputOnce(v) ==                        \* mutant: output is not a loop
    /\ outPc[v] = "write" /\ stream[v] # "closed"
    /\ outPc' = [outPc EXCEPT ![v] = "off"]
    /\ UNCHANGED <<progVars, inVars, pumpVars, muVars, attach, gone, stream, out,
                   last, ctlVars>>

OutputWritten(v) ==
    /\ outPc[v] = "write" /\ stream[v] # "closed"
    /\ outPc' = [outPc EXCEPT ![v] = "select"]
    /\ UNCHANGED <<progVars, inVars, pumpVars, muVars, attach, gone, stream, out,
                   last, ctlVars>>

OutputFails(v) ==
    /\ outPc[v] = "write" /\ stream[v] # "open"
    /\ End(v)
    /\ outPc' = [outPc EXCEPT ![v] = "failed"]
    /\ UNCHANGED <<progVars, inVars, pumpVars, muVars, attach, stream, out, last, ctlVars>>

\* input returns, and Attach ends the viewer.
InputReturns(v) ==
    /\ attach' = [attach EXCEPT ![v] = "leave"]
    /\ End(v)

\* The stream's bytes have run out: either side has closed it.
InputEOF(v) ==
    /\ attach[v] = "input" /\ stream[v] # "open"
    /\ InputReturns(v)
    /\ UNCHANGED <<progVars, inVars, pumpVars, muVars, outPc, stream, out, last, ctlVars>>

\* The next frame is one this side does not accept.  What the peer sent before
\* the stream was closed, by either side, may still be read after it.
InputBadFrame(v) ==
    /\ attach[v] = "input" /\ v \in Typists
    /\ InputReturns(v)
    /\ UNCHANGED <<progVars, inVars, pumpVars, muVars, outPc, stream, out, last, ctlVars>>

\* The next frame is data for the program.
InputData(v) ==
    /\ attach[v] = "input" /\ v \in Typists
    /\ attach' = [attach EXCEPT ![v] = "lock"]
    /\ UNCHANGED <<progVars, inVars, pumpVars, muVars, gone, outPc, stream, out,
                   last, ctlVars>>

Unguarded == TRUE                       \* mutant: no p.inMu
Unlocked == inMu = None

InputLock(v) ==
    /\ attach[v] = "lock" /\ Unlocked
    /\ inMu' = v
    /\ attach' = [attach EXCEPT ![v] = "write1"]
    /\ UNCHANGED <<progVars, inBuf, lastIn, pumpVars, muVars, gone, outPc, stream,
                   out, last, ctlVars>>

\* master.Write puts half of the frame into the terminal's input, once there
\* is room for it; with the second half it returns and the lock is released.
InputWrite(v) ==
    /\ ttyHeld /\ inBuf < TtyIn
    /\ inBuf' = inBuf + 1 /\ lastIn' = v
    /\ \/ /\ attach[v] = "write1"
          /\ attach' = [attach EXCEPT ![v] = "write2"]
          /\ UNCHANGED inMu
       \/ /\ attach[v] = "write2"
          /\ attach' = [attach EXCEPT ![v] = "input"]
          /\ inMu' = None
    /\ UNCHANGED <<progVars, pumpVars, muVars, gone, outPc, stream, out, last, ctlVars>>

\* master.Write fails once nobody has the terminal open.
InputWriteFails(v) ==
    /\ attach[v] \in {"write1", "write2"} /\ ~ttyHeld
    /\ InputReturns(v)
    /\ inMu' = None
    /\ UNCHANGED <<progVars, inBuf, lastIn, pumpVars, muVars, outPc, stream, out,
                   last, ctlVars>>

\* The deferred leave, under p.mu, and Attach's return.
Leave(v) ==
    /\ attach[v] = "leave"
    /\ viewers' = viewers \ {v}
    /\ End(v)
    /\ attach' = [attach EXCEPT ![v] = "returned"]
    /\ UNCHANGED <<progVars, inVars, pumpVars, done, err, outPc, stream, out,
                   last, ctlVars>>

Session(v) ==
    \/ Join(v) \/ CtxEnd(v) \/ CloseStream(v) \/ Leave(v)
    \/ OutputTake(v) \/ OutputStop(v) \/ OutputWritten(v) \/ OutputFails(v)
    \/ InputEOF(v) \/ InputBadFrame(v) \/ InputData(v)
    \/ InputLock(v) \/ InputWrite(v) \/ InputWriteFails(v)

-----------------------------------------------------------------------------
(* wait *)

\* cmd.Wait reaps the program; exitError looks at p.stopping right after.
Reap ==
    /\ prog \in Statuses
    /\ prog' = "reaped"
    /\ err' = IF prog = "ok" \/ stopPc # "idle" THEN "nil" ELSE "error"
    /\ UNCHANGED <<killed, ttyHeld, written, inVars, pumpVars, viewers, done,
                   sessVars, ctlVars>>

\* Every viewer there is ends.
EndNobody == UNCHANGED gone             \* mutant: viewers are left to notice
EndEveryViewer == gone' = [v \in Viewers |-> gone[v] \/ v \in viewers]

\* Under p.mu: close(p.done), and end the viewers.
Publish ==
    /\ prog = "reaped" /\ ~done
    /\ done' = TRUE
    /\ EndEveryViewer
    /\ UNCHANGED <<progVars, inVars, pumpVars, viewers, err, attach, outPc, stream,
                   out, last, ctlVars>>

-----------------------------------------------------------------------------
(* Stop *)

StopStep(from, to) ==
    /\ stopPc = from /\ stopPc' = to
    /\ UNCHANGED <<prog, ttyHeld, written, inVars, pumpVars, muVars, sessVars, ctxDone>>

\* stopping.Store(true); p.stopping is TRUE iff stopPc # "idle".
StopAsk == "stop" \in Shutdown /\ StopStep("idle", "check") /\ UNCHANGED killed

StopCheck == StopStep("check", IF done THEN "await" ELSE "term") /\ UNCHANGED killed

\* SIGTERM to the group.
StopTerminate == StopStep("term", "grace") /\ UNCHANGED killed

\* The select of p.done and the stopGrace timer.
StopExited == done /\ StopStep("grace", "await") /\ UNCHANGED killed

NoKill == StopStep("grace", "await") /\ UNCHANGED killed   \* mutant: TERM is all
StopExpired == StopStep("grace", "kill") /\ UNCHANGED killed

\* SIGKILL to the group.
NoWait ==                               \* mutant: the exit is not waited for
    StopStep("kill", "returned") /\ killed' = (prog = "running")
StopKill == StopStep("kill", "await") /\ killed' = (prog = "running")

\* p.Err() returns what p.done guards.
StopReturn == done /\ StopStep("await", "returned") /\ UNCHANGED killed

Stop ==
    \/ StopCheck \/ StopTerminate \/ StopExited \/ StopExpired
    \/ StopKill \/ StopReturn

-----------------------------------------------------------------------------

Environment ==
    \/ ProgWrite \/ ProgRead \/ TtyClose \/ CtxCancel
    \/ \E s \in Exits : Exit(s)
    \/ \E v \in Viewers : PeerCloses(v)

Next ==
    \/ Environment
    \/ Pump
    \/ \E v \in Viewers : Session(v)
    \/ Reap \/ Publish
    \/ StopAsk \/ Stop

Spec == Init /\ [][Next]_vars

(***************************************************************************)
(* Fairness.  A goroutine that can run runs, timers fire, a killed program *)
(* dies, and sync.Mutex starves nobody for ever.  A closed stream runs out *)
(* of what was sent before (or is reset), so InputEOF is not put off for   *)
(* ever.  A peer in Readers goes on reading.  Nothing is assumed of the    *)
(* program: it may never exit, read or write, nor of whatever else has the *)
(* terminal open, nor of the other peers.                                  *)
(***************************************************************************)
SessionFairness(v) ==
    /\ WF_vars(CtxEnd(v)) /\ WF_vars(CloseStream(v)) /\ WF_vars(Leave(v))
    /\ WF_vars(OutputTake(v) \/ OutputStop(v))
    /\ WF_vars(stream[v] = "closed" /\ OutputFails(v))
    /\ v \in Readers => WF_vars(OutputWritten(v))
    /\ SF_vars(InputEOF(v))
    /\ SF_vars(InputLock(v))
    /\ WF_vars(InputWrite(v)) /\ WF_vars(InputWriteFails(v))

Fairness ==
    /\ WF_vars(Pump)
    /\ WF_vars(Reap) /\ WF_vars(Publish)
    /\ WF_vars(Stop)
    /\ WF_vars(killed /\ Exit("fail"))
    /\ \A v \in Viewers : SessionFairness(v)

FairSpec == Spec /\ Fairness

-----------------------------------------------------------------------------
(* What it guarantees *)

ProgType ==
    /\ prog \in {"running", "reaped"} \cup Statuses
    /\ killed \in BOOLEAN /\ ttyHeld \in BOOLEAN /\ written \in Nat

InType ==
    /\ inBuf \in 0 .. TtyIn
    /\ lastIn \in Viewers \cup {None} /\ inMu \in Viewers \cup {None}

PumpType ==
    /\ pumpPc \in {"read", "snapshot", "offer", "closed"}
    /\ nread \in Nat /\ nread <= written
    /\ targets \subseteq Viewers /\ stalled \in Viewers \cup {None}

MuType ==
    /\ viewers \subseteq Viewers
    /\ done \in BOOLEAN /\ err \in {"none", "nil", "error"}

QueueType ==
    /\ out \in [Viewers -> Seq(Nat)]
    /\ \A v \in Viewers : Len(out[v]) <= QueueFrames

SessType ==
    /\ attach \in [Viewers -> {"new", "input", "lock", "write1", "write2",
                              "leave", "returned"}]
    /\ gone \in [Viewers -> BOOLEAN]
    /\ outPc \in [Viewers -> {"off", "select", "write", "failed"}]
    /\ stream \in [Viewers -> {"open", "hungup", "closed"}]
    /\ last \in [Viewers -> Nat]

CtlType ==
    /\ stopPc \in {"idle", "check", "term", "grace", "kill", "await", "returned"}
    /\ ctxDone \in BOOLEAN

\* Every variable has the values its declaration names, no viewer's channel
\* holds more than queueFrames, and nothing is read that was not written.
TypeOK ==
    /\ ProgType /\ InType /\ PumpType /\ MuType
    /\ QueueType /\ SessType /\ CtlType

\* Once the program's exit is published no viewer is left that has not ended:
\* join and wait agree, under p.mu, on whether a session got in before the
\* exit (and is ended by wait) or after (and is turned away).
DoneEndsEveryViewer == done => \A v \in viewers : gone[v]

\* The last read the viewer is to have in its channel by now: broadcast has
\* not come to it with the read in hand, or it has.
Upto(v) == IF pumpPc = "snapshot" \/ v \in targets THEN nread - 1 ELSE nread

Contiguous(v) ==
    /\ last[v] + Len(out[v]) = Upto(v)
    /\ \A i \in 1 .. Len(out[v]) : out[v][i] = last[v] + i

\* What a viewer that has not ended finds in its channel is every read since
\* the last one it took, in order and each once: a session may be late or
\* dropped, but its terminal never misses a read in the middle, whatever
\* broadcast's snapshot, the stall timer and the other sessions do.
NoGapWhileAttached == \A v \in viewers : ~gone[v] => Contiguous(v)

\* Whoever is halfway through a frame wrote the last half that reached the
\* terminal: no other session's keys land inside a frame (p.inMu).
FramesWhole == \A v \in Viewers : attach[v] = "write2" => lastIn = v

\* Stop returns only once the program has been reaped, its error is there and
\* no session is attached unended.
StopReturnsAfterExit ==
    stopPc = "returned" =>
        /\ prog = "reaped" /\ done /\ err # "none"
        /\ \A v \in viewers : gone[v]

\* What a session is to the abstract relay: Attach and v.gone say so together.
SessionOf(v) ==
    CASE attach[v] = "new" -> "away"
      [] attach[v] = "returned" -> IF gone[v] THEN "over" ELSE "refused"
      [] OTHER -> IF gone[v] THEN "ended" ELSE "live"

Relay == INSTANCE PtyRelay WITH
    session <- [v \in Viewers |-> SessionOf(v)],
    shown <- last,
    exited <- done,
    stopped <- (stopPc = "returned")

\* The goroutines, locks and channels together are the relay that PtyRelay
\* describes: nothing a session is handed is missing, out of order or handed
\* twice, to its end and beyond, and the exit reaches all sessions at once.
ImplementsRelay == Relay!Spec

\* Whatever is written to the terminal is read, and the pump comes back to read
\* more, whoever is attached: a session that has stopped reading holds the PTY
\* no longer than its stall limit.
BackFor(n) == nread > n \/ (nread = n /\ pumpPc \in {"read", "closed"})
PtyAlwaysRead == \A n \in 1 .. MaxOutput : (written >= n) ~> BackFor(n)

\* The last read that was shown to the viewer's peer, while it has not ended.
Shown(v) == IF outPc[v] \in {"write", "failed"} THEN last[v] - 1 ELSE last[v]

\* A session whose peer goes on reading is shown every read since it joined,
\* unless it ends first, however slow or silent the other sessions are.
ReaderCatchesUp ==
    \A v \in Readers : \A n \in 1 .. MaxOutput :
        (v \in viewers /\ nread >= n) ~> (gone[v] \/ Shown(v) >= n)

\* Once the program has exited and nothing else has its terminal open, every
\* session's Attach returns, whatever its peer does.
ExitEndsSessions ==
    (done /\ ~ttyHeld) ~> (\A v \in Viewers : attach[v] \in {"new", "returned"})

\* Stop returns, however the program takes SIGTERM.
StopReturns == (stopPc # "idle") ~> (stopPc = "returned")

\* The Attach of a session that has ended returns, whatever its peer does: it
\* can only be kept by its input, in a write to a program that does not read,
\* or in the lock behind such a write.
EndedReturns ==
    \A v \in Viewers :
        gone[v] ~> (attach[v] \in {"returned", "lock", "write1", "write2"})

\* What the running program writes while a session is attached is shown to it,
\* as long as its peer reads, unless it ends while the program runs.
OutputShown ==
    \A v \in Readers : \A n \in 1 .. MaxOutput :
        (v \in viewers /\ ~gone[v] /\ written >= n /\ prog = "running")
            ~> (Shown(v) >= n \/ (gone[v] /\ ~done))

=============================================================================
