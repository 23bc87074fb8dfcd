-------------------------- MODULE StdioChild_proofs --------------------------
(***************************************************************************)
(* Proofs about StdioChild, for every size of the pipes, every number of   *)
(* writes, and every kind of helper.                                       *)
(***************************************************************************)
EXTENDS StdioChild, TLAPS

\* Stop is through only with the value of waitDone, and Attach passes it only
\* when it is through.
StopInv ==
    /\ stopPc = "done" => waitPc = "done"
    /\ outPc \in {"select", "returned", "closed"} => stopPc = "done"

\* A process that has been waited for has exited, and what Stop reports of it
\* is not made up; Attach has a result only once it has returned.
ErrInv ==
    /\ waitPc # "wait" => exit # "none"
    /\ waitPc \in {"drain", "done"} /\ exit = "fail" => waitErr = "fail"
    /\ waitPc \in {"drain", "done"} => waitErr # "none"
    /\ result # "none" => outPc \in {"returned", "closed"}

\* Only the timer closes stdout, it is set when waitDone is filled, and a relay
\* that ended before it did left nobody behind who could still write.
DrainInv ==
    /\ waitPc # "done" => outTimer = "off"
    /\ ~outR => outTimer = "fired"
    /\ outPc \notin {"read", "write"} /\ outErr # "relay" /\ outTimer # "fired"
        => taken = wrote /\ ~ServerLives

\* What Attach returns is known by whoever ended first: a status is only reported of
\* a server that has it, a cancellation only when there was one.
TruthInv ==
    /\ waitErr = "fail" => exit = "fail"
    /\ waitErr = "canceled" => ctxDone
    /\ watch \in {"grace", "killed"} => ctxDone
    /\ watch = "off" => waitPc \in {"drain", "done"}
    /\ outPc \notin {"read", "write"} /\ outErr = "nil" => taken = wrote /\ ~ServerLives
    /\ outPc \in {"read", "write"} => outErr = "nil"
    /\ outErr = "closed" => waitPc = "done"
    /\ outPc \notin {"returned", "closed"} => result = "none"

\* stdin is closed before the first signal of Stop, and both Stop and the watcher have
\* sent SIGTERM to a leader that still runs before they come to SIGKILL.
ToldInv ==
    /\ stopPc # "idle" => stdin = FALSE
    /\ exit = "none" /\ (\/ stopPc \in {"wait2", "check2", "kill", "await"}
                          \/ watch \in {"grace", "killed"})
          => leaderSig # "none"

IInv == TypeOK /\ StopInv /\ ErrInv /\ DrainInv /\ TruthInv /\ ToldInv

USE DEF TypeOK, ProcType, WaitType, RelayType, StopInv, ErrInv, DrainInv, TruthInv,
        ToldInv, IInv, ServerLives, HelperLives

-----------------------------------------------------------------------------

LEMMA InitIInv == Init => IInv
<1> SUFFICES ASSUME Init PROVE IInv
    OBVIOUS
<1>1. helperSig \in BOOLEAN /\ stdin \in BOOLEAN /\ outR \in BOOLEAN /\ ctxDone \in BOOLEAN
    BY Zenon DEF Init
<1>2. outR
    BY Zenon DEF Init
<1> QED
    BY <1>1, <1>2, ChildAssumption DEF Init

LEMMA NextIInv == IInv /\ [Next]_vars => IInv'
<1> SUFFICES ASSUME IInv, [Next]_vars PROVE IInv'
    OBVIOUS
<1> USE ChildAssumption
<1> USE DEF procVars, waitVars, attachVars, inVars, envVars
<1>1. CASE \E home \in Homes : Spawn(home)
    BY <1>1 DEF Spawn
<1>2. CASE ServerWrites
    BY <1>2 DEF ServerWrites
<1>3. CASE ServerReads
    BY <1>3 DEF ServerReads
<1>4. CASE \E how \in {"ok", "fail", "signal"} : Exit(how)
    BY <1>4 DEF Exit
<1>5. CASE HelperExits
    BY <1>5 DEF HelperExits
<1>6. CASE PeerCloses
    BY <1>6 DEF PeerCloses
<1>7. CASE CtxCancel
    BY <1>7 DEF CtxCancel
<1>8. CASE ConnCloses
    BY <1>8 DEF ConnCloses
<1>9. CASE Wait
    <2>1. CASE Reap
        BY <2>1 DEF Reap
    <2>2. CASE WatchCancel
        BY <2>2 DEF WatchCancel, SignalGroup
    <2>3. CASE WatchKill
        BY <2>3 DEF WatchKill
    <2>4. CASE WatchEnds
        BY <2>4 DEF WatchEnds, ExitError
    <2>5. CASE WaitReturns
        BY <2>5 DEF WaitReturns, ArmTimer
    <2>6. CASE OutTimer
        <3>1. outR' \in BOOLEAN
            BY <2>6, Zenon DEF OutTimer
        <3> QED
            BY <2>6, <3>1 DEF OutTimer
    <2> QED
        BY <1>9, <2>1, <2>2, <2>3, <2>4, <2>5, <2>6 DEF Wait
<1>10. CASE Stop
    <2>1. CASE StopStarts
        <3>1. stdin' \in BOOLEAN
            BY <2>1, Zenon DEF StopStarts
        <3> QED
            BY <2>1, <3>1 DEF StopStarts
    <2>2. CASE StopExited
        BY <2>2 DEF StopExited, StopOnly
    <2>3. CASE StopExpired
        BY <2>3 DEF StopExpired, StopOnly
    <2>4. CASE StopNotReaped
        BY <2>4 DEF StopNotReaped, StopOnly
    <2>5. CASE StopTerminates
        BY <2>5 DEF StopTerminates, StopOnly, SignalGroup
    <2>6. CASE StopKills
        BY <2>6 DEF StopKills, StopOnly, SignalGroup
    <2> QED
        BY <1>10, <2>1, <2>2, <2>3, <2>4, <2>5, <2>6 DEF Stop
<1>11. CASE Attach
    <2>1. CASE OutRead
        BY <2>1 DEF OutRead, Readable
    <2>2. CASE OutEnds
        BY <2>2 DEF OutEnds
    <2>3. CASE OutWritten
        BY <2>3 DEF OutWritten
    <2>4. CASE OutFails
        BY <2>4 DEF OutFails
    <2>5. CASE OutStopped
        BY <2>5 DEF OutStopped, Stopped
    <2>6. CASE AttachReturns
        BY <2>6 DEF AttachReturns, Outcome
    <2>7. CASE HandleReturns
        BY <2>7 DEF HandleReturns, StreamClosed
    <2> QED
        BY <1>11, <2>1, <2>2, <2>3, <2>4, <2>5, <2>6, <2>7 DEF Attach
<1>12. CASE In
    <2>1. CASE InRead
        BY <2>1 DEF InRead
    <2>2. CASE InEnds
        BY <2>2 DEF InEnds
    <2>3. CASE InWritten
        BY <2>3 DEF InWritten
    <2>4. CASE InFails
        BY <2>4 DEF InFails
    <2>5. CASE InCloses
        <3>1. stdin' \in BOOLEAN
            BY <2>5, Zenon DEF InCloses
        <3> QED
            BY <2>5, <3>1 DEF InCloses
    <2>6. CASE InStopped
        BY <2>6 DEF InStopped
    <2> QED
        BY <1>12, <2>1, <2>2, <2>3, <2>4, <2>5, <2>6 DEF In
<1>13. CASE UNCHANGED vars
    BY <1>13 DEF vars
<1> QED
    BY <1>1, <1>2, <1>3, <1>4, <1>5, <1>6, <1>7, <1>8, <1>9, <1>10, <1>11, <1>12,
       <1>13 DEF Next, Environment

LEMMA Invariance == Spec => []IInv
<1>1. Init => IInv
    BY InitIInv
<1>2. IInv /\ [Next]_vars => IInv'
    BY NextIInv
<1> HIDE DEF IInv
<1> QED
    BY <1>1, <1>2, PTL DEF Spec

-----------------------------------------------------------------------------
(* The theorems *)

HIDE DEF TypeOK, ProcType, WaitType, RelayType, StopInv, ErrInv, DrainInv, TruthInv,
         ToldInv, IInv, ServerLives, HelperLives

\* Types and the bounds of the pipes.
THEOREM TypeCorrect == Spec => []TypeOK
<1>1. IInv => TypeOK
    BY DEF IInv
<1> QED
    BY <1>1, Invariance, PTL

\* A session that is over has reaped its server, whichever of the two relays
\* was the first to call Child.Stop.
THEOREM ServerReaped == Spec => []NoZombieLeft
<1>1. IInv => NoZombieLeft
    BY DEF IInv, StopInv, NoZombieLeft
<1> QED
    BY <1>1, Invariance, PTL

\* Running cmd.Wait beside the relay costs no output: all of it is relayed
\* unless the peer or the AfterFunc broke the relay off.
THEOREM OutputComplete == Spec => []OutputRelayed
<1>1. IInv => OutputRelayed
    BY DEF IInv, DrainInv, OutputRelayed
<1> QED
    BY <1>1, Invariance, PTL

-----------------------------------------------------------------------------
(* Every step is a step of StdioSession, or none *)

\* What the session's state is made of.
LEMMA NothingSeen ==
    ASSUME UNCHANGED <<exit, waitPc, leaderSig, stdin, wrote, taken, outPc, outErr, result,
                       stream, ctxDone>>
    PROVE  UNCHANGED Session!vars
BY DEF Session!vars, RelayOf

LEMMA EnvironmentSimulated == IInv /\ Environment => [Session!Next]_(Session!vars)
<1> SUFFICES ASSUME IInv, Environment PROVE [Session!Next]_(Session!vars)
    OBVIOUS
<1> USE DEF procVars, waitVars, attachVars, inVars, envVars, RelayOf
<1>1. ASSUME NEW home \in Homes, Spawn(home) PROVE UNCHANGED Session!vars
    BY <1>1, NothingSeen DEF Spawn
<1>2. CASE ServerReads \/ HelperExits
    BY <1>2, NothingSeen DEF ServerReads, HelperExits
<1>3. CASE ServerWrites
    <2>1. RelayOf # "complete"
        BY <1>3 DEF ServerWrites, IInv, TruthInv, TypeOK, RelayType
    <2>2. Session!Write
        BY <1>3, <2>1 DEF ServerWrites, Session!Write
    <2> QED
        BY <2>2 DEF Session!Next
<1>4. ASSUME NEW how \in {"ok", "fail", "signal"}, Exit(how) PROVE Session!Next
    <2>1. Session!Exit(how)
        BY <1>4 DEF Exit, Session!Exit
    <2> QED
        BY <2>1 DEF Session!Next
<1>5. CASE PeerCloses \/ ConnCloses
    <2>1. (stream # "open")' = TRUE
        BY <1>5 DEF PeerCloses, ConnCloses
    <2>2. Session!StreamEnds
        BY <1>5, <2>1 DEF PeerCloses, ConnCloses, Session!StreamEnds
    <2> QED
        BY <2>2 DEF Session!Next
<1>6. CASE CtxCancel
    <2>1. Session!Cancel
        BY <1>6 DEF CtxCancel, Session!Cancel
    <2> QED
        BY <2>1 DEF Session!Next
<1> QED
    BY <1>1, <1>2, <1>3, <1>4, <1>5, <1>6 DEF Environment

\* A signal to the group is one to the leader, if it still runs and has not had it.
LEMMA SignalSimulated ==
    ASSUME IInv, NEW g, SignalGroup(g),
           \/ g = "term" /\ (stdin = FALSE \/ ctxDone)
           \/ g = "kill" /\ (exit = "none" => leaderSig # "none"),
           UNCHANGED <<waitPc, stdin, taken, outPc, outErr, result, stream, ctxDone>>
    PROVE  [Session!Next]_(Session!vars)
<1>1. UNCHANGED <<exit, wrote>>
    BY DEF SignalGroup
<1>2. CASE leaderSig' = leaderSig
    BY <1>1, <1>2, NothingSeen
<1>3. CASE leaderSig' # leaderSig
    <2>1. exit = "none" /\ leaderSig # "kill" /\ leaderSig' = g
        BY <1>3 DEF SignalGroup
    <2>2. leaderSig \in {"none", "term"}
        BY <2>1 DEF IInv, TypeOK, ProcType
    <2>3. \/ leaderSig = "none" /\ leaderSig' = "term" /\ (~stdin \/ ctxDone)
          \/ leaderSig = "term" /\ leaderSig' = "kill"
        BY <1>3, <2>1, <2>2
    <2>4. Session!Signal
        BY <1>1, <2>1, <2>3 DEF Session!Signal, RelayOf
    <2> QED
        BY <2>4 DEF Session!Next
<1> QED
    BY <1>2, <1>3

LEMMA WaitSimulated == IInv /\ Wait => [Session!Next]_(Session!vars)
<1> SUFFICES ASSUME IInv, Wait PROVE [Session!Next]_(Session!vars)
    OBVIOUS
<1> USE DEF procVars, attachVars, inVars, envVars
<1>1. CASE Reap
    <2>1. (waitPc # "wait")' = TRUE
        BY <1>1 DEF Reap
    <2>2. Session!Reap
        BY <1>1, <2>1 DEF Reap, Session!Reap, RelayOf
    <2> QED
        BY <2>2 DEF Session!Next
<1>2. CASE WatchCancel
    BY <1>2, SignalSimulated DEF WatchCancel
<1>3. CASE WatchKill
    <2>1. CASE leaderSig' = leaderSig
        BY <1>3, <2>1, NothingSeen DEF WatchKill
    <2>2. CASE leaderSig' # leaderSig
        <3>1. exit = "none" /\ leaderSig = "term" /\ leaderSig' = "kill"
            BY <1>3, <2>2 DEF WatchKill, IInv, ToldInv, TypeOK, ProcType
        <3>2. Session!Signal
            BY <1>3, <3>1 DEF WatchKill, Session!Signal, RelayOf
        <3> QED
            BY <3>2 DEF Session!Next
    <2> QED
        BY <2>1, <2>2
<1>4. CASE WatchEnds \/ WaitReturns
    <2>1. (waitPc # "wait")' = (waitPc # "wait")
        BY <1>4 DEF WatchEnds, WaitReturns
    <2> QED
        BY <1>4, <2>1 DEF WatchEnds, WaitReturns, Session!vars, RelayOf
<1>5. CASE OutTimer
    BY <1>5, NothingSeen DEF OutTimer
<1> QED
    BY <1>1, <1>2, <1>3, <1>4, <1>5 DEF Wait

LEMMA CloseSimulated ==
    ASSUME stdin' = FALSE,
           UNCHANGED <<exit, waitPc, leaderSig, wrote, taken, outPc, outErr, result, stream,
                       ctxDone>>
    PROVE  Session!Next
<1>1. Session!CloseInput
    BY DEF Session!CloseInput, RelayOf
<1> QED
    BY <1>1 DEF Session!Next

LEMMA StopSimulated == IInv /\ Stop => [Session!Next]_(Session!vars)
<1> SUFFICES ASSUME IInv, Stop PROVE [Session!Next]_(Session!vars)
    OBVIOUS
<1> USE DEF procVars, waitVars, attachVars, inVars, envVars
<1>1. CASE StopStarts
    BY <1>1, CloseSimulated DEF StopStarts
<1>2. CASE StopExited \/ StopExpired \/ StopNotReaped
    BY <1>2, NothingSeen DEF StopExited, StopExpired, StopNotReaped, StopOnly
<1>3. CASE StopTerminates
    <2>1. stdin = FALSE
        BY <1>3 DEF StopTerminates, IInv, ToldInv
    <2> QED
        BY <1>3, <2>1, SignalSimulated DEF StopTerminates, StopOnly
<1>4. CASE StopKills
    <2>1. exit = "none" => leaderSig # "none"
        BY <1>4 DEF StopKills, IInv, ToldInv
    <2> QED
        BY <1>4, <2>1, SignalSimulated DEF StopKills, StopOnly
<1> QED
    BY <1>1, <1>2, <1>3, <1>4 DEF Stop

LEMMA AttachSimulated == IInv /\ Attach => [Session!Next]_(Session!vars)
<1> SUFFICES ASSUME IInv, Attach PROVE [Session!Next]_(Session!vars)
    OBVIOUS
<1> USE DEF procVars, waitVars, attachVars, inVars, envVars
<1>1. CASE OutRead
    <2>1. taken < wrote
        BY <1>1 DEF OutRead, Readable, IInv, TypeOK, ProcType
    <2>2. RelayOf = "on" /\ RelayOf' = "on"
        BY <1>1 DEF OutRead, RelayOf
    <2>3. Session!Pass
        BY <1>1, <2>1, <2>2 DEF OutRead, Session!Pass
    <2> QED
        BY <2>3 DEF Session!Next
<1>2. CASE OutEnds
    <2>1. RelayOf = "on"
        BY <1>2 DEF OutEnds, RelayOf
    <2>2. CASE outR
        <3>1. RelayOf' = "complete" /\ taken = wrote /\ exit # "none"
            BY <1>2, <2>2 DEF OutEnds, RelayOf, ServerLives
        <3>2. Session!RelayEnds("complete")
            BY <1>2, <2>1, <3>1 DEF OutEnds, Session!RelayEnds
        <3> QED
            BY <3>2 DEF Session!Next
    <2>3. CASE ~outR
        <3>1. waitPc # "wait"
            BY <2>3 DEF IInv, DrainInv
        <3>2. RelayOf' = "cut"
            BY <1>2, <2>3 DEF OutEnds, RelayOf
        <3>3. Session!RelayEnds("cut")
            BY <1>2, <2>1, <3>1, <3>2 DEF OutEnds, Session!RelayEnds
        <3> QED
            BY <3>3 DEF Session!Next
    <2> QED
        BY <2>2, <2>3
<1>3. CASE OutFails
    <2>1. RelayOf = "on" /\ RelayOf' = "broken"
        BY <1>3 DEF OutFails, RelayOf
    <2>2. Session!RelayEnds("broken")
        BY <1>3, <2>1 DEF OutFails, Session!RelayEnds
    <2> QED
        BY <2>2 DEF Session!Next
<1>4. CASE OutWritten \/ OutStopped
    <2>1. RelayOf' = RelayOf
        BY <1>4 DEF OutWritten, OutStopped, RelayOf
    <2> QED
        BY <1>4, <2>1 DEF OutWritten, OutStopped, Session!vars
<1>5. CASE AttachReturns
    <2>1. RelayOf' = RelayOf /\ RelayOf # "on" /\ result = "none" /\ waitPc = "done"
        BY <1>5 DEF AttachReturns, RelayOf, IInv, StopInv, TruthInv
    <2>2. exit \in {"ok", "fail", "signal"} /\ waitErr \in {"nil", "fail", "canceled"}
        BY <2>1 DEF IInv, ErrInv, TypeOK, ProcType, WaitType
    <2>3. waitErr = "nil" => exit # "fail"
        BY <2>1 DEF IInv, ErrInv
    <2>4. PICK e \in {"nil", "closed", "relay"} :
              /\ result' = Outcome(e)
              /\ outErr = "relay" => e = "relay"
              /\ outErr = "closed" => e # "relay"
        BY <1>5 DEF AttachReturns, IInv, TypeOK, RelayType
    <2>5. outErr = "relay" <=> RelayOf = "broken"
        BY <1>5 DEF AttachReturns, RelayOf
    <2>6. RelayOf = "cut" => outErr = "closed"
        BY DEF RelayOf
    <2>7. \/ result' = "relay" /\ RelayOf # "cut"
          \/ result' = "canceled" /\ ctxDone /\ RelayOf # "broken"
          \/ result' = waitErr /\ ~ctxDone /\ RelayOf # "broken"
        BY <2>4, <2>5, <2>6 DEF Outcome
    <2>8. Session!Return(result') /\ result' \in {"nil", "fail", "canceled", "relay"}
        BY <1>5, <2>1, <2>2, <2>3, <2>7
        DEF AttachReturns, Session!Return, IInv, TruthInv
    <2> QED
        BY <2>8 DEF Session!Next
<1>6. CASE HandleReturns
    <2>1. RelayOf' = RelayOf
        BY <1>6 DEF HandleReturns, RelayOf
    <2>2. (stream # "open")' = TRUE
        BY <1>6 DEF HandleReturns, StreamClosed
    <2>3. Session!StreamEnds
        BY <1>6, <2>1, <2>2 DEF HandleReturns, Session!StreamEnds
    <2> QED
        BY <2>3 DEF Session!Next
<1> QED
    BY <1>1, <1>2, <1>3, <1>4, <1>5, <1>6 DEF Attach

LEMMA InSimulated == IInv /\ In => [Session!Next]_(Session!vars)
<1> SUFFICES ASSUME IInv, In PROVE [Session!Next]_(Session!vars)
    OBVIOUS
<1> USE DEF procVars, waitVars, attachVars, inVars, envVars
<1>1. CASE InRead \/ InEnds \/ InWritten \/ InFails \/ InStopped
    BY <1>1, NothingSeen DEF InRead, InEnds, InWritten, InFails, InStopped
<1>2. CASE InCloses
    BY <1>2, CloseSimulated DEF InCloses
<1> QED
    BY <1>1, <1>2 DEF In

\* The goroutines of child.go and os/exec, in whatever order, keep the contract of
\* StdioSession, for any pipes and any output: the order of Stop's measures, what of the
\* output may be lost, and what Attach says of the end.
THEOREM SessionImplemented == Spec => ImplementsSession
<1>1. Init => Session!Init
    <2> SUFFICES ASSUME Init PROVE Session!Init
        OBVIOUS
    <2>1. (waitPc # "wait") = FALSE /\ (stream # "open") = FALSE
        BY DEF Init
    <2> QED
        BY <2>1 DEF Init, Session!Init, RelayOf
<1>2. IInv /\ [Next]_vars => [Session!Next]_(Session!vars)
    <2>1. UNCHANGED vars => UNCHANGED Session!vars
        BY NothingSeen DEF vars, procVars, waitVars, attachVars, inVars, envVars
    <2> QED
        BY <2>1, EnvironmentSimulated, WaitSimulated, StopSimulated, AttachSimulated,
           InSimulated DEF Next
<1> QED
    BY <1>1, <1>2, Invariance, PTL DEF Spec, ImplementsSession, Session!Spec

=============================================================================
