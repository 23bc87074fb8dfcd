-------------------------- MODULE PtyProcess_proofs --------------------------
(***************************************************************************)
(* The safety properties of PtyProcess and its refinement of PtyRelay, for *)
(* every set of sessions, queue length and amount of output.               *)
(*                                                                         *)
(* None of the properties is inductive alone.  The inductive invariant IInv *)
(* adds what the goroutines know of one another: whom the pump's snapshot  *)
(* can hold, what a session that has not joined looks like, who holds the  *)
(* input lock, and in which order the exit is reaped and published.        *)
(***************************************************************************)
EXTENDS PtyProcess, TLAPS

\* The pump has targets only while it offers, and waits only for one of them;
\* a read in hand has been counted.
PumpInv ==
    /\ pumpPc = "snapshot" => nread > 0
    /\ pumpPc # "offer" => targets = {}
    /\ pumpPc = "offer" => nread > 0
    /\ stalled # None => stalled \in targets

\* A session that has not attached is in no set and has nothing queued; one
\* whose Attach has returned is no viewer any more.
NewInv ==
    \A v \in Viewers :
        /\ attach[v] = "new" =>
              v \notin viewers /\ v \notin targets /\ out[v] = <<>>
        /\ attach[v] = "returned" => v \notin viewers

\* Only the holder of the input lock is in master.Write.
LockInv == \A v \in Viewers : attach[v] \in {"write1", "write2"} => inMu = v

\* The exit is published after it is reaped, and Stop returns after that.
ExitInv ==
    /\ prog = "reaped" => err # "none"
    /\ done => prog = "reaped"
    /\ stopPc = "returned" => done

IInv ==
    /\ TypeOK /\ PumpInv /\ NewInv /\ LockInv /\ ExitInv
    /\ DoneEndsEveryViewer /\ NoGapWhileAttached /\ FramesWhole

-----------------------------------------------------------------------------
(* What each kind of step leaves alone *)

\* The world outside touches the program, the terminal and the peers' streams.
LEMMA EnvironmentFrame ==
    Environment =>
        /\ UNCHANGED <<lastIn, inMu, pumpVars, muVars, attach, gone, outPc, out,
                       last, stopPc>>
        /\ prog' = prog \/ prog' \in Exits
  BY DEF Environment, ProgWrite, ProgRead, TtyClose, CtxCancel, Exit, PeerCloses,
         progVars, inVars, pumpVars,
         muVars, sessVars, ctlVars

\* The pump touches its own variables, the channels and, on a stall, v.gone.
LEMMA PumpFrame ==
    Pump => UNCHANGED <<progVars, inVars, muVars, attach, outPc, stream, last,
                        ctlVars>>
  BY DEF Pump, PumpRead, PumpClose, Snapshot, Offer, Stalled, progVars, inVars,
      pumpVars,
         muVars, sessVars, ctlVars

\* A session touches the input, the set of viewers and its own variables.
LEMMA SessionFrame ==
    ASSUME NEW v \in Viewers, Session(v)
    PROVE  UNCHANGED <<progVars, pumpVars, done, err, ctlVars>>
  BY DEF Session, Join, CtxEnd, CloseStream, Leave, OutputTake, OutputStop,
         OutputWritten, OutputFails, InputEOF, InputBadFrame, InputData,
         InputLock, InputWrite, InputWriteFails, InputReturns, End, progVars,
             inVars, pumpVars,
         muVars, sessVars, ctlVars

\* Stop touches the program and its own program counter.
LEMMA StopFrame ==
    StopAsk \/ Stop => UNCHANGED <<prog, ttyHeld, written, inVars, pumpVars, muVars,
                                   sessVars, ctxDone>>
  BY DEF Stop, StopAsk, StopCheck, StopTerminate, StopExited, StopExpired,
         StopKill, StopReturn, StopStep

\* wait touches the exit and, in the end, v.gone.
LEMMA WaitFrame ==
    Reap \/ Publish => UNCHANGED <<inVars, pumpVars, viewers, attach, outPc, stream,
                                   out, last, ctlVars>>
  BY DEF Reap, Publish, sessVars

-----------------------------------------------------------------------------
(* Every step preserves every part of IInv *)

\* A frame queued where there is room keeps the channel within its bound.
LEMMA EnqueueType ==
    ASSUME NEW v \in Viewers, TypeOK, HasRoom(v), Enqueue(v)
    PROVE  QueueType'
<1>1. out[v] \in Seq(Nat) /\ nread \in Nat /\ Len(out[v]) < QueueFrames
  BY DEF TypeOK, QueueType, PumpType, HasRoom
<1>2. Append(out[v], nread) \in Seq(Nat) /\ Len(Append(out[v], nread)) <= QueueFrames
  BY <1>1, PtyAssumption
<1>3. out' = [out EXCEPT ![v] = Append(out[v], nread)]
  BY DEF Enqueue
<1> QED
  BY <1>2, <1>3 DEF TypeOK, QueueType

\* Types and bounds; joining in the middle of a broadcast needs a read to have
\* been counted.
LEMMA TypeStep ==
    TypeOK /\ PumpInv /\ [Next]_vars => TypeOK'
<1> SUFFICES ASSUME TypeOK, PumpInv, [Next]_vars
             PROVE  TypeOK'
  OBVIOUS
<1> USE DEF TypeOK, Statuses, ProgType, InType, PumpType, MuType, QueueType,
    SessType, CtlType, progVars, inVars, pumpVars, muVars, sessVars, ctlVars
<1>1. CASE ProgWrite
  BY PtyAssumption, <1>1 DEF ProgWrite
<1>2. CASE ProgRead
  BY PtyAssumption, <1>2 DEF ProgRead
<1>3. CASE TtyClose
  <2>1. ttyHeld' \in BOOLEAN
    BY <1>3, Zenon DEF TtyClose
  <2> QED
    BY <1>3, <2>1 DEF TtyClose
<1>4. CASE CtxCancel
  BY PtyAssumption, <1>4 DEF CtxCancel
<1>5. ASSUME NEW s \in Exits, Exit(s) PROVE TypeOK'
  <2>1. killed' \in BOOLEAN
    BY <1>5, Zenon DEF Exit
  <2> QED
    BY <1>5, <2>1, PtyAssumption DEF Exit
<1>6. ASSUME NEW v \in Viewers, PeerCloses(v) PROVE TypeOK'
  BY PtyAssumption, <1>6 DEF PeerCloses
<1>7. CASE PumpRead
  BY PtyAssumption, <1>7 DEF PumpRead
<1>8. CASE PumpClose
  BY PtyAssumption, <1>8 DEF PumpClose
<1>9. CASE Snapshot
  BY PtyAssumption, <1>9 DEF Snapshot
<1>10. ASSUME NEW v \in Viewers, Offer(v) PROVE TypeOK'
  <2>1. QueueType'
    <3>1. CASE HasRoom(v) /\ Enqueue(v)
      BY <3>1, EnqueueType
    <3>2. CASE UNCHANGED out
      BY <3>2
    <3> QED
      BY <1>10, <3>1, <3>2 DEF Offer
  <2>2. PumpType'
    BY <1>10 DEF Offer, NextTarget
  <2>3. SessType'
    BY <1>10 DEF Offer, StallLimit, End
  <2>4. ProgType' /\ InType' /\ MuType' /\ CtlType'
    BY <1>10 DEF Offer
  <2> QED
    BY <2>1, <2>2, <2>3, <2>4 DEF TypeOK
<1>11. ASSUME NEW v \in Viewers, Stalled(v) PROVE TypeOK'
  <2>1. QueueType'
    <3>1. CASE HasRoom(v) /\ Enqueue(v)
      BY <3>1, EnqueueType
    <3>2. CASE UNCHANGED out
      BY <3>2
    <3> QED
      BY <1>11, <3>1, <3>2 DEF Stalled
  <2>2. PumpType'
    BY <1>11 DEF Stalled, NextTarget
  <2>3. SessType'
    BY <1>11 DEF Stalled, StallLimit, End
  <2>4. ProgType' /\ InType' /\ MuType' /\ CtlType'
    BY <1>11 DEF Stalled
  <2> QED
    BY <2>1, <2>2, <2>3, <2>4 DEF TypeOK
<1>12. ASSUME NEW v \in Viewers, Join(v) PROVE TypeOK'
  <2>1. attach' \in [Viewers -> {"new", "input", "lock", "write1", "write2",
                                 "leave", "returned"}]
    BY <1>12 DEF Join
  <2>2. outPc' \in [Viewers -> {"off", "select", "write", "failed"}]
    BY <1>12 DEF Join
  <2>3. last' \in [Viewers -> Nat]
    <3>1. nread - 1 \in Nat \/ pumpPc # "snapshot"
      BY DEF PumpInv
    <3> QED
      BY <1>12, <3>1 DEF Join
  <2>4. MuType'
    BY <1>12 DEF Join
  <2>5. SessType'
    BY <1>12, <2>1, <2>2, <2>3 DEF Join
  <2>6. ProgType' /\ InType' /\ PumpType' /\ QueueType' /\ CtlType'
    BY <1>12 DEF Join
  <2> QED
    BY <2>4, <2>5, <2>6 DEF TypeOK
<1>13. ASSUME NEW v \in Viewers, CtxEnd(v) PROVE TypeOK'
  BY PtyAssumption, <1>13 DEF CtxEnd, End
<1>14. ASSUME NEW v \in Viewers, CloseStream(v) PROVE TypeOK'
  BY PtyAssumption, <1>14 DEF CloseStream
<1>15. ASSUME NEW v \in Viewers, Leave(v) PROVE TypeOK'
  BY PtyAssumption, <1>15 DEF Leave, End
<1>16. ASSUME NEW v \in Viewers, OutputTake(v) PROVE TypeOK'
  <2>1. out[v] \in Seq(Nat) /\ out[v] # <<>>
    BY <1>16 DEF OutputTake
  <2>2. /\ Head(out[v]) \in Nat /\ Tail(out[v]) \in Seq(Nat)
        /\ Len(Tail(out[v])) = Len(out[v]) - 1
    BY <2>1
  <2>3. QueueType'
    BY <1>16, <2>2, PtyAssumption DEF OutputTake
  <2>4. SessType'
    BY <1>16, <2>2 DEF OutputTake
  <2>5. ProgType' /\ InType' /\ PumpType' /\ MuType' /\ CtlType'
    BY <1>16 DEF OutputTake
  <2> QED
    BY <2>3, <2>4, <2>5 DEF TypeOK
<1>17. ASSUME NEW v \in Viewers, OutputStop(v) PROVE TypeOK'
  BY PtyAssumption, <1>17 DEF OutputStop
<1>18. ASSUME NEW v \in Viewers, OutputWritten(v) PROVE TypeOK'
  BY PtyAssumption, <1>18 DEF OutputWritten
<1>19. ASSUME NEW v \in Viewers, OutputFails(v) PROVE TypeOK'
  BY PtyAssumption, <1>19 DEF OutputFails, End
<1>20. ASSUME NEW v \in Viewers, InputEOF(v) PROVE TypeOK'
  BY PtyAssumption, <1>20 DEF InputEOF, InputReturns, End
<1>21. ASSUME NEW v \in Viewers, InputBadFrame(v) PROVE TypeOK'
  BY PtyAssumption, <1>21 DEF InputBadFrame, InputReturns, End
<1>22. ASSUME NEW v \in Viewers, InputData(v) PROVE TypeOK'
  BY PtyAssumption, <1>22 DEF InputData
<1>23. ASSUME NEW v \in Viewers, InputLock(v) PROVE TypeOK'
  BY PtyAssumption, <1>23 DEF InputLock, Unlocked
<1>24. ASSUME NEW v \in Viewers, InputWrite(v) PROVE TypeOK'
  <2>1. attach' \in [Viewers -> {"new", "input", "lock", "write1", "write2",
                                 "leave", "returned"}]
    BY <1>24 DEF InputWrite
  <2>2. InType'
    BY <1>24, PtyAssumption DEF InputWrite
  <2>3. SessType'
    BY <1>24, <2>1 DEF InputWrite
  <2>4. ProgType' /\ PumpType' /\ MuType' /\ QueueType' /\ CtlType'
    BY <1>24 DEF InputWrite
  <2> QED
    BY <2>2, <2>3, <2>4 DEF TypeOK
<1>25. ASSUME NEW v \in Viewers, InputWriteFails(v) PROVE TypeOK'
  BY PtyAssumption, <1>25 DEF InputWriteFails, InputReturns, End
<1>26. CASE Reap
  BY PtyAssumption, <1>26 DEF Reap, Statuses
<1>27. CASE Publish
  BY PtyAssumption, <1>27 DEF Publish, EndEveryViewer
<1>28. CASE StopAsk
  BY PtyAssumption, <1>28 DEF StopAsk, StopStep
<1>29. CASE StopCheck
  BY PtyAssumption, <1>29 DEF StopCheck, StopStep
<1>30. CASE StopTerminate
  BY PtyAssumption, <1>30 DEF StopTerminate, StopStep
<1>31. CASE StopExited
  BY PtyAssumption, <1>31 DEF StopExited, StopStep
<1>32. CASE StopExpired
  BY PtyAssumption, <1>32 DEF StopExpired, StopStep
<1>33. CASE StopKill
  BY PtyAssumption, <1>33 DEF StopKill, StopStep
<1>34. CASE StopReturn
  BY PtyAssumption, <1>34 DEF StopReturn, StopStep
<1>35. CASE UNCHANGED vars
  BY <1>35 DEF vars
<1> QED
  BY <1>1, <1>2, <1>3, <1>4, <1>5, <1>6, <1>7, <1>8, <1>9, <1>10, <1>11, <1>12,
      <1>13, <1>14, <1>15, <1>16, <1>17, <1>18, <1>19, <1>20, <1>21, <1>22, <1>23,
      <1>24, <1>25, <1>26, <1>27, <1>28, <1>29, <1>30, <1>31, <1>32, <1>33, <1>34,
      <1>35 DEF Next, Environment, Pump, Session, Stop

\* The pump's program counter, its snapshot and the viewer it waits for agree.
LEMMA PumpStep == TypeOK /\ PumpInv /\ [Next]_vars => PumpInv'
<1> SUFFICES ASSUME TypeOK, PumpInv, [Next]_vars
             PROVE  PumpInv'
  OBVIOUS
<1>1. CASE UNCHANGED pumpVars
  BY <1>1 DEF PumpInv, pumpVars
<1>2. CASE PumpRead \/ PumpClose
  BY <1>2 DEF PumpRead, PumpClose, PumpInv, TypeOK, PumpType
<1>3. CASE Snapshot
  BY <1>3 DEF Snapshot, PumpInv
<1>4. ASSUME NEW v \in Viewers, Offer(v)
      PROVE  PumpInv'
  BY <1>4 DEF Offer, NextTarget, PumpInv, pumpVars
<1>5. ASSUME NEW v \in Viewers, Stalled(v)
      PROVE  PumpInv'
  <2>1. v \in targets /\ pumpPc = "offer"
    BY <1>5, PtyAssumption DEF Stalled, PumpInv
  <2> QED
    BY <1>5, <2>1 DEF Stalled, NextTarget, PumpInv
<1>6. Pump \/ UNCHANGED pumpVars
  BY EnvironmentFrame, SessionFrame, StopFrame, WaitFrame DEF Next, vars
<1> QED
  BY <1>1, <1>2, <1>3, <1>4, <1>5, <1>6 DEF Pump

\* A session appears in the sets only by joining and is no viewer once Attach
\* has returned.
LEMMA NewStep == TypeOK /\ PumpInv /\ NewInv /\ [Next]_vars => NewInv'
<1> SUFFICES ASSUME TypeOK, PumpInv, NewInv, [Next]_vars
             PROVE  NewInv'
  OBVIOUS
<1>1. CASE UNCHANGED <<attach, viewers, targets, out>>
  BY <1>1 DEF NewInv
<1>2. CASE PumpRead \/ PumpClose \/ Snapshot
  BY <1>2 DEF PumpRead, PumpClose, Snapshot, NewInv, muVars, sessVars
<1>3. ASSUME NEW v \in Viewers, Offer(v)
      PROVE  NewInv'
  BY <1>3 DEF Offer, NextTarget, Enqueue, NewInv, muVars, TypeOK, QueueType
<1>4. ASSUME NEW v \in Viewers, Stalled(v)
      PROVE  NewInv'
  <2>1. v \in targets
    BY <1>4, PtyAssumption DEF Stalled, PumpInv
  <2> QED
    BY <1>4, <2>1 DEF Stalled, NextTarget, Enqueue, NewInv, muVars, TypeOK, QueueType
<1>5. ASSUME NEW v \in Viewers, Session(v)
      PROVE  NewInv'
  <2> USE DEF NewInv, TypeOK, SessType, MuType, pumpVars, muVars
  <2>1. CASE Join(v)
    BY <1>5, <2>1 DEF Join
  <2>2. CASE Leave(v)
    BY <1>5, <2>2 DEF Leave, End
  <2>3. CASE OutputTake(v)
    BY <1>5, <2>3 DEF OutputTake, QueueType
  <2>4. CASE \/ InputEOF(v) \/ InputBadFrame(v) \/ InputData(v)
             \/ InputLock(v) \/ InputWrite(v) \/ InputWriteFails(v)
    BY <1>5, <2>4 DEF InputEOF, InputBadFrame, InputData, InputLock, InputWrite,
                      InputWriteFails, InputReturns
  <2>5. CASE CtxEnd(v) \/ CloseStream(v) \/ OutputStop(v) \/ OutputWritten(v)
             \/ OutputFails(v)
    BY <1>5, <2>5 DEF CtxEnd, CloseStream, OutputStop, OutputWritten, OutputFails
  <2> QED
    BY <1>5, <2>1, <2>2, <2>3, <2>4, <2>5 DEF Session
<1>6. \/ Pump \/ \E v \in Viewers : Session(v)
      \/ UNCHANGED <<attach, viewers, targets, out>>
  BY EnvironmentFrame, StopFrame, WaitFrame DEF Next, vars, pumpVars, muVars, sessVars
<1> QED
  BY <1>1, <1>2, <1>3, <1>4, <1>5, <1>6 DEF Pump

\* The input lock is taken only when it is free and released by its holder.
LEMMA LockStep == TypeOK /\ LockInv /\ [Next]_vars => LockInv'
<1> SUFFICES ASSUME TypeOK, LockInv, [Next]_vars
             PROVE  LockInv'
  OBVIOUS
<1>1. CASE UNCHANGED <<attach, inMu>>
  BY <1>1 DEF LockInv
<1>2. ASSUME NEW v \in Viewers, Session(v)
      PROVE  LockInv'
  <2> USE DEF LockInv, TypeOK, SessType
  <2>1. CASE \/ Join(v) \/ CtxEnd(v) \/ CloseStream(v) \/ Leave(v) \/ OutputTake(v)
             \/ OutputStop(v) \/ OutputWritten(v) \/ OutputFails(v)
             \/ InputEOF(v) \/ InputBadFrame(v) \/ InputData(v)
    BY <2>1 DEF Join, CtxEnd, CloseStream, Leave, OutputTake, OutputStop, OutputWritten,
                OutputFails, InputEOF, InputBadFrame, InputData, InputReturns, inVars
  <2>2. CASE InputLock(v)
    BY <2>2, PtyAssumption DEF InputLock, Unlocked
  <2>3. CASE InputWrite(v)
    BY <2>3 DEF InputWrite
  <2>4. CASE InputWriteFails(v)
    BY <2>4 DEF InputWriteFails, InputReturns
  <2> QED
    BY <1>2, <2>1, <2>2, <2>3, <2>4 DEF Session
<1>3. UNCHANGED <<attach, inMu>> \/ \E v \in Viewers : Session(v)
  BY EnvironmentFrame, PumpFrame, StopFrame, WaitFrame DEF Next, vars, inVars, sessVars
<1> QED
  BY <1>1, <1>2, <1>3

\* Whoever else writes a half would need the lock.
LEMMA FramesStep == TypeOK /\ LockInv /\ FramesWhole /\ [Next]_vars => FramesWhole'
<1> SUFFICES ASSUME TypeOK, LockInv, FramesWhole, [Next]_vars
             PROVE  FramesWhole'
  OBVIOUS
<1>1. CASE UNCHANGED <<attach, lastIn>>
  BY <1>1 DEF FramesWhole
<1>2. ASSUME NEW v \in Viewers, Session(v)
      PROVE  FramesWhole'
  <2> USE DEF FramesWhole, TypeOK, SessType
  <2>1. CASE InputWrite(v)
    \* Whoever else is halfway would hold the lock v holds.
    BY <2>1 DEF InputWrite, LockInv
  <2>2. CASE \/ Join(v) \/ CtxEnd(v) \/ CloseStream(v) \/ Leave(v) \/ OutputTake(v)
             \/ OutputStop(v) \/ OutputWritten(v) \/ OutputFails(v)
             \/ InputEOF(v) \/ InputBadFrame(v) \/ InputData(v) \/ InputLock(v)
             \/ InputWriteFails(v)
    BY <2>2 DEF Join, CtxEnd, CloseStream, Leave, OutputTake, OutputStop, OutputWritten,
                OutputFails, InputEOF, InputBadFrame, InputData, InputLock,
                InputWriteFails, InputReturns, inVars
  <2> QED
    BY <1>2, <2>1, <2>2 DEF Session
<1>3. UNCHANGED <<attach, lastIn>> \/ \E v \in Viewers : Session(v)
  BY EnvironmentFrame, PumpFrame, StopFrame, WaitFrame DEF Next, vars, inVars, sessVars
<1> QED
  BY <1>1, <1>2, <1>3

\* Reaped, then published, then Stop returns.
LEMMA ExitStep == TypeOK /\ ExitInv /\ [Next]_vars => ExitInv'
<1> SUFFICES ASSUME TypeOK, ExitInv, [Next]_vars
             PROVE  ExitInv'
  OBVIOUS
<1> USE DEF ExitInv
<1>1. CASE UNCHANGED <<prog, err, done, stopPc>>
  BY <1>1
<1>2. CASE Environment
  <2>1. prog' = prog \/ prog' # "reaped"
    BY <1>2, EnvironmentFrame, PtyAssumption
  <2>2. prog = "reaped" => prog' = prog
    BY <1>2 DEF Environment, ProgWrite, ProgRead, TtyClose, CtxCancel, Exit, PeerCloses,
                progVars
  <2> QED
    BY <1>2, <2>1, <2>2, EnvironmentFrame DEF muVars
<1>3. CASE Reap
  BY <1>3 DEF Reap, Statuses, ctlVars
<1>4. CASE Publish
  BY <1>4 DEF Publish, progVars, ctlVars
<1>5. CASE StopAsk \/ Stop
  BY <1>5 DEF Stop, StopAsk, StopCheck, StopTerminate, StopExited, StopExpired,
              StopKill, StopReturn, StopStep, muVars
<1>6. \/ Environment \/ Reap \/ Publish \/ StopAsk \/ Stop
      \/ UNCHANGED <<prog, err, done, stopPc>>
  BY PumpFrame, SessionFrame DEF Next, vars, progVars, muVars, ctlVars
<1> QED
  BY <1>1, <1>2, <1>3, <1>4, <1>5, <1>6

\* Nobody joins after the exit is published, and nobody's end is undone.
LEMMA DoneStep == TypeOK /\ DoneEndsEveryViewer /\ [Next]_vars => DoneEndsEveryViewer'
<1> SUFFICES ASSUME TypeOK, DoneEndsEveryViewer, [Next]_vars
             PROVE  DoneEndsEveryViewer'
  OBVIOUS
<1> USE DEF DoneEndsEveryViewer, TypeOK, SessType, MuType
<1>1. CASE UNCHANGED <<done, viewers, gone>>
  BY <1>1
<1>2. CASE Pump
  BY <1>2, PumpFrame DEF Pump, PumpRead, PumpClose, Snapshot, Offer, Stalled,
      StallLimit,
                         End, muVars, sessVars
<1>3. ASSUME NEW v \in Viewers, Session(v)
      PROVE  DoneEndsEveryViewer'
  <2>1. CASE Join(v)
    BY <2>1 DEF Join, Open
  <2>2. CASE Leave(v)
    BY <2>2 DEF Leave, End
  <2>3. CASE \/ CtxEnd(v) \/ OutputFails(v) \/ InputEOF(v) \/ InputBadFrame(v)
             \/ InputWriteFails(v)
    BY <2>3 DEF CtxEnd, OutputFails, InputEOF, InputBadFrame, InputWriteFails,
                InputReturns, End, muVars
  <2>4. CASE \/ CloseStream(v) \/ OutputTake(v) \/ OutputStop(v) \/ OutputWritten(v)
             \/ InputData(v) \/ InputLock(v) \/ InputWrite(v)
    BY <2>4 DEF CloseStream, OutputTake, OutputStop, OutputWritten, InputData,
        InputLock,
                InputWrite, muVars
  <2> QED
    BY <1>3, <2>1, <2>2, <2>3, <2>4 DEF Session
<1>4. CASE Publish
  BY <1>4 DEF Publish, EndEveryViewer
<1>5. \/ Pump \/ Publish \/ \E v \in Viewers : Session(v)
      \/ UNCHANGED <<done, viewers, gone>>
  BY EnvironmentFrame, StopFrame DEF Next, Reap, vars, muVars, sessVars
<1> QED
  BY <1>1, <1>2, <1>3, <1>4, <1>5

\* Contiguous, of a channel s and the last frame a taken from it.
Run(s, a, upto) ==
    /\ a + Len(s) = upto
    /\ \A i \in 1 .. Len(s) : s[i] = a + i

\* A run of reads stays one when the next read is queued, and when the first
\* is taken.
LEMMA AppendRun ==
    ASSUME NEW s \in Seq(Nat), NEW a \in Nat, NEW r \in Nat, Run(s, a, r - 1)
    PROVE  Run(Append(s, r), a, r)
<1>1. r = a + Len(s) + 1 /\ Len(Append(s, r)) = Len(s) + 1
  BY DEF Run
<1>2. ASSUME NEW i \in 1 .. Len(s) + 1
      PROVE  Append(s, r)[i] = a + i
  BY <1>1 DEF Run
<1> QED
  BY <1>1, <1>2 DEF Run

LEMMA TailRun ==
    ASSUME NEW s \in Seq(Nat), s # <<>>, NEW a \in Nat, NEW r, Run(s, a, r)
    PROVE  Run(Tail(s), Head(s), r)
<1>1. Len(s) \in Nat \ {0}
  OBVIOUS
<1>2. Head(s) = s[1] /\ s[1] = a + 1
  BY <1>1 DEF Run
<1>3. Len(Tail(s)) = Len(s) - 1
  BY <1>1
<1>4. ASSUME NEW i \in 1 .. Len(s) - 1
      PROVE  Tail(s)[i] = s[i + 1] /\ i + 1 \in 1 .. Len(s)
  BY <1>1
<1>5. Head(s) + Len(Tail(s)) = r
  BY <1>1, <1>2, <1>3 DEF Run
<1>6. ASSUME NEW i \in 1 .. Len(s) - 1
      PROVE  Tail(s)[i] = Head(s) + i
  <2>1. s[i + 1] = a + (i + 1)
    BY <1>4 DEF Run
  <2>2. Tail(s)[i] = a + (i + 1)
    BY <1>4, <2>1
  <2> QED
    BY <1>1, <1>2, <2>2
<1> QED
  BY <1>3, <1>5, <1>6 DEF Run

\* Contiguous is such a run, before a step
LEMMA RunOf == \A v : Contiguous(v) <=> Run(out[v], last[v], Upto(v))
  BY DEF Contiguous, Run

\* and after it.
LEMMA RunOfNext == \A v : Contiguous(v)' <=> Run(out'[v], last'[v], Upto(v)')
  BY DEF Contiguous, Run

\* A broadcast goes past every viewer once: those in the snapshot get the read
\* or end, and those that join meanwhile start after it.
LEMMA GapStep ==
    TypeOK /\ PumpInv /\ NewInv /\ NoGapWhileAttached /\ [Next]_vars => NoGapWhileAttached'
<1> SUFFICES ASSUME TypeOK, PumpInv, NewInv, NoGapWhileAttached, [Next]_vars,
                    NEW u \in viewers', ~gone'[u]
             PROVE  Contiguous(u)'
  BY DEF NoGapWhileAttached
<1>0. /\ out \in [Viewers -> Seq(Nat)] /\ last \in [Viewers -> Nat]
      /\ gone \in [Viewers -> BOOLEAN] /\ viewers \subseteq Viewers
      /\ targets \subseteq Viewers /\ nread \in Nat
  BY DEF TypeOK, QueueType, SessType, MuType, PumpType
<1> DEFINE Kept == u \in viewers /\ ~gone[u]
<1>1. ASSUME Kept, UNCHANGED <<out, last, pumpPc, targets, nread>>
      PROVE  Contiguous(u)'
  BY <1>1 DEF NoGapWhileAttached, Contiguous, Upto
<1>2. CASE PumpRead
  <2>1. Kept /\ out'[u] = out[u] /\ last'[u] = last[u] /\ u \notin targets
    BY <1>2 DEF PumpRead, PumpInv, muVars, sessVars
  <2>2. Upto(u) = nread /\ Upto(u)' = nread
    BY <1>0, <1>2, <2>1 DEF PumpRead, Upto
  <2> QED
    BY <2>1, <2>2 DEF NoGapWhileAttached, Contiguous
<1>3. CASE Snapshot
  BY <1>3 DEF Snapshot, NoGapWhileAttached, Contiguous, Upto, muVars, sessVars
<1>4. ASSUME NEW v \in targets, UNCHANGED <<viewers, nread, last>>, Kept,
             pumpPc = "offer", NextTarget(v),
             \/ u # v /\ UNCHANGED out
             \/ Enqueue(v)
      PROVE  Contiguous(u)'
  \* Broadcast goes past v: what v has now goes up to the read in hand.
  <2>1. CASE u # v
    <3>1. out'[u] = out[u] /\ Upto(u)' = Upto(u)
      BY <1>4, <2>1, <1>0 DEF Enqueue, NextTarget, Upto
    <3> QED
      BY <1>4, <3>1 DEF NoGapWhileAttached, Contiguous
  <2>2. CASE u = v
    <3>1. out'[u] = Append(out[u], nread)
      BY <1>4, <2>2, <1>0 DEF Enqueue
    <3>2. Upto(u) = nread - 1 /\ Upto(u)' = nread
      BY <1>4, <2>2 DEF NextTarget, Upto
    <3>3. Contiguous(u) /\ out[u] \in Seq(Nat) /\ last[u] \in Nat /\ last'[u] = last[u]
      BY <1>4, <1>0 DEF NoGapWhileAttached
    <3>4. Run(out[u], last[u], nread - 1)
      BY <3>2, <3>3, RunOf
    <3> QED
      BY <3>1, <3>2, <3>3, <3>4, <1>0, AppendRun, RunOfNext
  <2> QED
    BY <2>1, <2>2
<1>5. ASSUME NEW v \in Viewers, Offer(v)
      PROVE  Contiguous(u)'
  <2>1. Kept /\ UNCHANGED <<viewers, nread, last, gone>>
    BY <1>5 DEF Offer, muVars
  <2>2. CASE UNCHANGED <<pumpPc, targets, out>>
    BY <1>1, <2>1, <2>2
  <2> QED
    BY <1>4, <1>5, <2>1, <2>2 DEF Offer
<1>6. ASSUME NEW v \in Viewers, Stalled(v)
      PROVE  Contiguous(u)'
  <2>1. v \in targets /\ pumpPc = "offer"
    BY <1>6, PtyAssumption DEF Stalled, PumpInv
  <2>2. Kept /\ UNCHANGED <<viewers, nread, last>>
    BY <1>6, <1>0 DEF Stalled, StallLimit, End, muVars
  <2>3. \/ u # v /\ UNCHANGED out
        \/ Enqueue(v)
    BY <1>6, <2>2, <1>0 DEF Stalled, StallLimit, End
  <2> QED
    BY <1>4, <1>6, <2>1, <2>2, <2>3 DEF Stalled
<1>7. ASSUME NEW v \in Viewers, Session(v)
      PROVE  Contiguous(u)'
  <2>1. UNCHANGED <<pumpPc, targets, nread>>
    BY <1>7, SessionFrame DEF pumpVars
  <2>2. CASE Join(v) /\ u = v
    <3>1. attach[v] = "new" /\ out[v] = <<>> /\ v \notin targets /\ v \notin viewers
      BY <1>7, <2>2 DEF Join, NewInv
    <3>2. last'[u] = Upto(u)' /\ out'[u] = <<>>
      BY <1>0, <2>1, <2>2, <3>1 DEF Join, Upto
    <3> QED
      BY <1>0, <2>1, <3>2, <1>7 DEF Contiguous, Upto, PumpInv
  <2>3. CASE OutputTake(v) /\ u = v
    <3>1. out[u] \in Seq(Nat) /\ out[u] # <<>> /\ Contiguous(u) /\ last[u] \in Nat
      BY <1>0, <2>3 DEF OutputTake, NoGapWhileAttached, muVars
    <3>2. last'[u] = Head(out[u]) /\ out'[u] = Tail(out[u]) /\ Upto(u)' = Upto(u)
      BY <1>0, <2>1, <2>3, <1>7 DEF OutputTake, Upto
    <3>3. Run(out[u], last[u], Upto(u))
      BY <3>1, RunOf
    <3> QED
      BY <3>1, <3>2, <3>3, TailRun, RunOfNext
  <2>4. CASE (Join(v) \/ OutputTake(v)) /\ u # v
    <3>1. Kept /\ out'[u] = out[u] /\ last'[u] = last[u]
      BY <1>0, <1>7, <2>4 DEF Join, OutputTake, muVars
    <3> QED
      BY <2>1, <3>1 DEF NoGapWhileAttached, Contiguous, Upto
  <2>5. CASE \/ CtxEnd(v) \/ CloseStream(v) \/ Leave(v) \/ OutputStop(v)
             \/ OutputWritten(v) \/ OutputFails(v) \/ InputEOF(v) \/ InputBadFrame(v)
             \/ InputData(v) \/ InputLock(v) \/ InputWrite(v) \/ InputWriteFails(v)
    <3>1. Kept /\ UNCHANGED <<out, last>>
      BY <1>0, <2>5 DEF CtxEnd, CloseStream, Leave, OutputStop, OutputWritten,
          OutputFails,
         InputEOF, InputBadFrame, InputData, InputLock, InputWrite, InputWriteFails,
         InputReturns, End, muVars
    <3> QED
      BY <1>1, <2>1, <3>1
  <2> QED
    BY <1>7, <2>2, <2>3, <2>4, <2>5 DEF Session
<1>8. CASE Environment
  BY <1>1, <1>8, EnvironmentFrame DEF pumpVars, muVars
<1>9. CASE PumpClose
  BY <1>9 DEF PumpClose, PumpInv, NoGapWhileAttached, Contiguous, Upto, muVars, sessVars
<1>10. CASE Reap \/ Publish
  <2>1. Kept
    BY <1>10, <1>0 DEF Reap, Publish, EndEveryViewer, sessVars
  <2> QED
    BY <1>1, <1>10, <2>1, WaitFrame DEF pumpVars
<1>11. CASE StopAsk \/ Stop \/ UNCHANGED vars
  BY <1>1, <1>11, StopFrame DEF vars, pumpVars, muVars, sessVars
<1> QED
  BY <1>2, <1>3, <1>5, <1>6, <1>7, <1>8, <1>9, <1>10, <1>11 DEF Next, Pump

-----------------------------------------------------------------------------
(* The theorems *)

\* The inductive invariant holds at the start,
LEMMA InitInv == Init => IInv
<1> SUFFICES ASSUME Init PROVE IInv
  OBVIOUS
<1>1. TypeOK
  <2>1. killed \in BOOLEAN /\ ttyHeld \in BOOLEAN /\ done \in BOOLEAN /\ ctxDone \in BOOLEAN
    BY Zenon DEF Init
  <2>2. ProgType /\ MuType /\ CtlType
    BY <2>1 DEF Init, ProgType, MuType, CtlType
  <2>3. InType /\ PumpType
    BY PtyAssumption DEF Init, InType, PumpType
  <2>4. QueueType /\ SessType
    BY PtyAssumption DEF Init, QueueType, SessType
  <2> QED
    BY <2>2, <2>3, <2>4 DEF TypeOK
<1>2. PumpInv /\ NewInv /\ LockInv /\ ExitInv
  BY PtyAssumption DEF Init, PumpInv, NewInv, LockInv, ExitInv
<1>3. DoneEndsEveryViewer /\ NoGapWhileAttached /\ FramesWhole
  BY DEF Init, DoneEndsEveryViewer, NoGapWhileAttached, FramesWhole
<1> QED
  BY <1>1, <1>2, <1>3 DEF IInv

\* is preserved by every step,
LEMMA StepInv == IInv /\ [Next]_vars => IInv'
  BY TypeStep, PumpStep, NewStep, LockStep, FramesStep, ExitStep, DoneStep, GapStep
      DEF IInv

\* and so always holds.
LEMMA Inductive == Spec => []IInv
  BY InitInv, StepInv, PTL DEF Spec

\* Every behaviour keeps to the types and the bounds of TypeOK: process.go
\* queues no more than queueFrames for a session.
THEOREM TypeCorrect == Spec => []TypeOK
<1>1. IInv => TypeOK
  BY DEF IInv
<1> QED
  BY <1>1, Inductive, PTL

\* No session is left attached and unended once the exit is published: join
\* and wait of process.go do their parts under one lock.
THEOREM ExitSeenByAll == Spec => []DoneEndsEveryViewer
<1>1. IInv => DoneEndsEveryViewer
  BY DEF IInv
<1> QED
  BY <1>1, Inductive, PTL

\* broadcast leaves no hole in the output of a session that has not ended.
THEOREM OutputContiguous == Spec => []NoGapWhileAttached
<1>1. IInv => NoGapWhileAttached
  BY DEF IInv
<1> QED
  BY <1>1, Inductive, PTL

\* p.inMu keeps the frames that sessions type apart.
THEOREM InputWhole == Spec => []FramesWhole
<1>1. IInv => FramesWhole
  BY DEF IInv
<1> QED
  BY <1>1, Inductive, PTL

\* When Stop has returned the program is reaped and every session has ended.
THEOREM StopComplete == Spec => []StopReturnsAfterExit
<1>1. IInv => StopReturnsAfterExit
  BY DEF IInv, ExitInv, DoneEndsEveryViewer, StopReturnsAfterExit
<1> QED
  BY <1>1, Inductive, PTL

-----------------------------------------------------------------------------
(* PtyProcess implements PtyRelay.  IInv says what a live session has in   *)
(* its channel; RelayInv adds what is true of all of them, live or not: a  *)
(* channel only ever rises, and who is outside is in nobody's hands.       *)

\* A session that has not come in, or was turned away.
Outside(v) == attach[v] = "new" \/ (attach[v] = "returned" /\ ~gone[v])

\* Nobody writes to a session that is outside, and nobody has ended it; one
\* that is inside is a viewer until Attach returns, which its end precedes.
OutsideInv ==
    \A v \in Viewers :
        /\ Outside(v) => outPc[v] = "off" /\ v \notin targets /\ ~gone[v]
        /\ attach[v] \notin {"new", "returned"} => v \in viewers
        /\ attach[v] = "leave" => gone[v]

\* A channel s and the last frame a taken from it: frames rise, up to u.
Rises(s, a, u) ==
    /\ a <= u
    /\ \A i \in 1 .. Len(s) : a < s[i] /\ s[i] <= u
    /\ \A i, j \in 1 .. Len(s) : i < j => s[i] < s[j]

RiseInv == \A v \in Viewers : Rises(out[v], last[v], Upto(v))

RelayInv == OutsideInv /\ RiseInv

-----------------------------------------------------------------------------
(* Rising channels *)

\* The next read is put behind a channel that rises,
LEMMA AppendRises ==
    ASSUME NEW s \in Seq(Nat), NEW a \in Nat, NEW r \in Nat, Rises(s, a, r - 1)
    PROVE  Rises(Append(s, r), a, r)
<1>1. Len(s) \in Nat /\ Len(Append(s, r)) = Len(s) + 1
  OBVIOUS
<1>2. /\ \A i \in 1 .. Len(s) : Append(s, r)[i] = s[i]
      /\ Append(s, r)[Len(s) + 1] = r
  OBVIOUS
<1>3. \A i \in 1 .. Len(s) : s[i] \in Nat
  OBVIOUS
<1>4. a <= r
  BY DEF Rises
<1>5. ASSUME NEW i \in 1 .. Len(s) + 1
      PROVE  a < Append(s, r)[i] /\ Append(s, r)[i] <= r
  BY <1>1, <1>2, <1>3 DEF Rises
<1>6. ASSUME NEW i \in 1 .. Len(s) + 1, NEW j \in 1 .. Len(s) + 1, i < j
      PROVE  Append(s, r)[i] < Append(s, r)[j]
  BY <1>1, <1>2, <1>3, <1>6 DEF Rises
<1> QED
  BY <1>1, <1>4, <1>5, <1>6 DEF Rises

\* its first frame is taken,
LEMMA TailRises ==
    ASSUME NEW s \in Seq(Nat), s # <<>>, NEW a \in Nat, NEW u \in Nat, Rises(s, a, u)
    PROVE  Rises(Tail(s), Head(s), u) /\ a < Head(s) /\ Head(s) <= u
<1>1. Len(s) \in Nat \ {0} /\ Len(Tail(s)) = Len(s) - 1
  OBVIOUS
<1>2. Head(s) = s[1] /\ a < s[1] /\ s[1] <= u /\ s[1] \in Nat
  BY <1>1 DEF Rises
<1>3. ASSUME NEW i \in 1 .. Len(s) - 1
      PROVE  Tail(s)[i] = s[i + 1] /\ i + 1 \in 1 .. Len(s)
  BY <1>1
<1>4. ASSUME NEW i \in 1 .. Len(s) - 1
      PROVE  Head(s) < Tail(s)[i] /\ Tail(s)[i] <= u
  <2>1. 1 \in 1 .. Len(s) /\ i + 1 \in 1 .. Len(s) /\ 1 < i + 1
    BY <1>1
  <2> QED
    BY <1>2, <1>3, <2>1 DEF Rises
<1>5. ASSUME NEW i \in 1 .. Len(s) - 1, NEW j \in 1 .. Len(s) - 1, i < j
      PROVE  Tail(s)[i] < Tail(s)[j]
  <2>1. i + 1 < j + 1
    BY <1>5
  <2> QED
    BY <1>3, <2>1 DEF Rises
<1> QED
  BY <1>1, <1>2, <1>4, <1>5 DEF Rises

\* and more may be on its way.
LEMMA RisesHigher ==
    ASSUME NEW s \in Seq(Nat), NEW a \in Nat, NEW t \in Nat, NEW u \in Nat,
           t <= u, Rises(s, a, t)
    PROVE  Rises(s, a, u)
<1>1. \A i \in 1 .. Len(s) : s[i] \in Nat
  OBVIOUS
<1> QED
  BY <1>1 DEF Rises

-----------------------------------------------------------------------------
(* Every step preserves RelayInv *)

\* A session comes in by joining and is ended before Attach returns.
LEMMA OutsideStep == IInv /\ OutsideInv /\ [Next]_vars => OutsideInv'
<1> SUFFICES ASSUME IInv, OutsideInv, [Next]_vars
             PROVE  OutsideInv'
  OBVIOUS
<1>0. /\ attach \in [Viewers -> {"new", "input", "lock", "write1", "write2",
                                 "leave", "returned"}]
      /\ outPc \in [Viewers -> {"off", "select", "write", "failed"}]
      /\ gone \in [Viewers -> BOOLEAN]
      /\ viewers \subseteq Viewers /\ targets \subseteq Viewers
      /\ NewInv /\ PumpInv
  BY DEF IInv, TypeOK, SessType, MuType, PumpType
<1> USE DEF OutsideInv, Outside
<1>1. CASE UNCHANGED <<attach, gone, outPc, targets, viewers>>
  BY <1>1
<1>2. CASE PumpRead \/ PumpClose
  BY <1>2 DEF PumpRead, PumpClose, muVars, sessVars
<1>3. CASE Snapshot
  BY <1>0, <1>3 DEF Snapshot, NewInv, muVars, sessVars
<1>4. ASSUME NEW v \in Viewers, Offer(v) PROVE OutsideInv'
  BY <1>0, <1>4 DEF Offer, NextTarget, muVars
<1>5. ASSUME NEW v \in Viewers, Stalled(v) PROVE OutsideInv'
  <2>1. v \in targets
    BY <1>0, <1>5, PtyAssumption DEF Stalled, PumpInv
  <2> QED
    BY <1>0, <1>5, <2>1 DEF Stalled, NextTarget, StallLimit, End, muVars
<1>6. ASSUME NEW v \in Viewers, Session(v) PROVE OutsideInv'
  <2>1. UNCHANGED targets
    BY <1>6, SessionFrame DEF pumpVars
  <2>2. CASE Join(v)
    BY <1>0, <2>1, <2>2 DEF Join, NewInv
  <2>3. CASE Leave(v)
    BY <1>0, <2>1, <2>3 DEF Leave, End, NewInv
  <2>4. CASE CtxEnd(v) \/ CloseStream(v)
    BY <1>0, <2>1, <2>4 DEF CtxEnd, CloseStream, End, muVars
  <2>5. CASE OutputTake(v) \/ OutputStop(v) \/ OutputWritten(v) \/ OutputFails(v)
    BY <1>0, <2>1, <2>5 DEF OutputTake, OutputStop, OutputWritten, OutputFails, End, muVars
  <2>6. CASE InputEOF(v) \/ InputBadFrame(v) \/ InputWriteFails(v)
    BY <1>0, <2>1, <2>6 DEF InputEOF, InputBadFrame, InputWriteFails, InputReturns, End,
                            muVars
  <2>7. CASE InputData(v) \/ InputLock(v) \/ InputWrite(v)
    BY <1>0, <2>1, <2>7 DEF InputData, InputLock, InputWrite, muVars
  <2> QED
    BY <1>6, <2>2, <2>3, <2>4, <2>5, <2>6, <2>7 DEF Session
<1>7. CASE Publish
  BY <1>0, <1>7 DEF Publish, EndEveryViewer, NewInv, pumpVars
<1>8. \/ Pump \/ Publish \/ \E v \in Viewers : Session(v)
      \/ UNCHANGED <<attach, gone, outPc, targets, viewers>>
  BY EnvironmentFrame, StopFrame DEF Next, Reap, vars, pumpVars, muVars, sessVars
<1> QED
  BY <1>1, <1>2, <1>3, <1>4, <1>5, <1>6, <1>7, <1>8 DEF Pump

\* What a session is to have by now was read, before a step
LEMMA UptoType == IInv => \A v \in Viewers : Upto(v) \in Nat /\ Upto(v) <= nread
<1> SUFFICES ASSUME IInv, NEW v \in Viewers
             PROVE  Upto(v) \in Nat /\ Upto(v) <= nread
  OBVIOUS
<1>1. nread \in Nat /\ PumpInv
  BY DEF IInv, TypeOK, PumpType
<1> QED
  BY <1>1 DEF Upto, PumpInv

\* and after it.
LEMMA UptoTypeNext == (IInv => \A v \in Viewers : Upto(v) \in Nat /\ Upto(v) <= nread)'
  BY UptoType, PTL

\* What a session is to have by now only goes up, but for one that joins.
LEMMA UptoHigher ==
    ASSUME IInv, [Next]_vars, NEW v \in Viewers
    PROVE  Upto(v) \in Nat /\ Upto(v)' \in Nat /\ Upto(v) <= Upto(v)' /\ Upto(v)' <= nread'
<1>0. nread \in Nat /\ targets \subseteq Viewers /\ PumpInv /\ TypeOK
  BY DEF IInv, TypeOK, PumpType
<1>2. Upto(v) \in Nat /\ Upto(v)' \in Nat /\ Upto(v)' <= nread'
  BY StepInv, UptoType, UptoTypeNext
<1>3. CASE UNCHANGED pumpVars
  BY <1>2, <1>3 DEF Upto, pumpVars
<1>4. CASE PumpRead \/ PumpClose
  BY <1>0, <1>2, <1>4 DEF PumpRead, PumpClose, Upto, PumpInv
<1>5. CASE Snapshot
  BY <1>0, <1>2, <1>5 DEF Snapshot, Upto
<1>6. ASSUME NEW w \in Viewers, Offer(w) \/ Stalled(w)
      PROVE  Upto(v) <= Upto(v)'
  <2>1. nread' = nread /\ targets' \subseteq targets /\ pumpPc = "offer"
            /\ pumpPc' # "snapshot"
    BY <1>0, <1>6, PtyAssumption DEF Offer, Stalled, NextTarget, PumpInv
  <2> QED
    BY <1>0, <2>1 DEF Upto
<1>7. Pump \/ UNCHANGED pumpVars
  BY EnvironmentFrame, SessionFrame, StopFrame, WaitFrame DEF Next, vars
<1> QED
  BY <1>2, <1>3, <1>4, <1>5, <1>6, <1>7 DEF Pump

\* A frame is put into a channel once, behind those before it.
LEMMA RiseStep == IInv /\ RelayInv /\ [Next]_vars => RiseInv'
<1> SUFFICES ASSUME IInv, RelayInv, [Next]_vars, NEW u \in Viewers
             PROVE  Rises(out'[u], last'[u], Upto(u)')
  BY DEF RiseInv
<1>0. /\ out \in [Viewers -> Seq(Nat)] /\ last \in [Viewers -> Nat]
      /\ targets \subseteq Viewers /\ nread \in Nat /\ PumpInv /\ NewInv
      /\ attach \in [Viewers -> {"new", "input", "lock", "write1", "write2",
                                 "leave", "returned"}]
  BY DEF IInv, TypeOK, QueueType, SessType, PumpType
<1>1. Rises(out[u], last[u], Upto(u))
  BY DEF RelayInv, RiseInv
<1>2. /\ Upto(u) \in Nat /\ Upto(u)' \in Nat
      /\ Upto(u) <= Upto(u)' /\ Upto(u)' <= nread'
  BY UptoHigher
<1>3. CASE UNCHANGED <<out[u], last[u]>>
  BY <1>0, <1>1, <1>2, <1>3, RisesHigher
<1>4. ASSUME u \in targets, Enqueue(u), NextTarget(u), UNCHANGED <<nread, last>>,
             pumpPc = "offer"
      PROVE  Rises(out'[u], last'[u], Upto(u)')
  <2>1. Upto(u) = nread - 1 /\ Upto(u)' = nread
    BY <1>4 DEF Upto, NextTarget
  <2>2. out'[u] = Append(out[u], nread) /\ last'[u] = last[u]
    BY <1>0, <1>4 DEF Enqueue
  <2> QED
    BY <1>0, <1>1, <2>1, <2>2, AppendRises
<1>5. ASSUME NEW v \in Viewers, Offer(v) \/ Stalled(v)
      PROVE  Rises(out'[u], last'[u], Upto(u)')
  <2>1. v \in targets /\ pumpPc = "offer" /\ UNCHANGED <<nread, last>>
    BY <1>0, <1>5, PtyAssumption DEF Offer, Stalled, PumpInv
  <2>2. UNCHANGED out \/ (Enqueue(v) /\ NextTarget(v))
    BY <1>5 DEF Offer, Stalled
  <2>3. CASE u = v /\ Enqueue(v) /\ NextTarget(v)
    BY <1>4, <2>1, <2>3
  <2>4. CASE UNCHANGED out \/ (u # v /\ Enqueue(v))
    BY <1>0, <1>3, <2>1, <2>4 DEF Enqueue
  <2> QED
    BY <2>2, <2>3, <2>4
<1>6. ASSUME NEW v \in Viewers, Session(v)
      PROVE  Rises(out'[u], last'[u], Upto(u)')
  <2>1. UNCHANGED <<pumpPc, targets, nread>>
    BY <1>6, SessionFrame DEF pumpVars
  <2>2. CASE Join(v) /\ u = v
    <3>1. out[u] = <<>> /\ out'[u] = <<>> /\ u \notin targets
      BY <1>0, <2>2 DEF Join, NewInv
    <3>2. last'[u] = Upto(u)' \/ UNCHANGED last[u]
      BY <1>0, <2>1, <2>2, <3>1 DEF Join, Upto
    <3>3. CASE last'[u] = Upto(u)'
      BY <1>2, <3>1, <3>3 DEF Rises
    <3> QED
      BY <1>3, <3>1, <3>2, <3>3
  <2>3. CASE OutputTake(v) /\ u = v
    <3>1. out[u] # <<>> /\ last'[u] = Head(out[u]) /\ out'[u] = Tail(out[u])
      BY <1>0, <2>3 DEF OutputTake
    <3>2. Upto(u)' = Upto(u)
      BY <2>1 DEF Upto
    <3> QED
      BY <1>0, <1>1, <1>2, <3>1, <3>2, TailRises
  <2>4. CASE \/ (Join(v) \/ OutputTake(v)) /\ u # v
             \/ UNCHANGED <<out, last>>
    BY <1>0, <1>3, <2>4 DEF Join, OutputTake
  <2>5. \/ Join(v) \/ OutputTake(v)
        \/ UNCHANGED <<out, last>>
    BY <1>6 DEF Session, CtxEnd, CloseStream, Leave, OutputStop, OutputWritten, OutputFails,
         InputEOF, InputBadFrame, InputData, InputLock, InputWrite, InputWriteFails
  <2> QED
    BY <2>2, <2>3, <2>4, <2>5
<1>7. \/ UNCHANGED <<out, last>>
      \/ \E v \in Viewers : Session(v) \/ Offer(v) \/ Stalled(v)
  BY EnvironmentFrame, StopFrame, WaitFrame
     DEF Next, Pump, PumpRead, PumpClose, Snapshot, vars, sessVars
<1> QED
  BY <1>3, <1>5, <1>6, <1>7

\* RelayInv holds at the start and is preserved.
LEMMA RelayInit == Init => RelayInv
  BY DEF Init, RelayInv, OutsideInv, Outside, RiseInv, Rises, Upto

LEMMA RelayStep == IInv /\ RelayInv /\ [Next]_vars => RelayInv'
  BY OutsideStep, RiseStep DEF RelayInv

-----------------------------------------------------------------------------
(* Every step is a step of the relay, or none *)

\* What the relay's state is made of.
LEMMA MappedVars ==
    UNCHANGED <<nread, attach, gone, last, done, stopPc>> => UNCHANGED Relay!vars
  BY DEF Relay!vars, SessionOf

\* A step that ends v, and does nothing else the relay sees.
LEMMA EndSimulated ==
    ASSUME TypeOK, OutsideInv, NEW v \in Viewers, End(v), ~Outside(v),
           UNCHANGED <<nread, last, done, stopPc>>,
           \/ UNCHANGED attach
           \/ /\ attach' = [attach EXCEPT ![v] = "leave"]
              /\ attach[v] \notin {"new", "returned"}
    PROVE  [Relay!Next]_(Relay!vars)
<1>0. /\ gone \in [Viewers -> BOOLEAN]
      /\ attach \in [Viewers -> {"new", "input", "lock", "write1", "write2",
                                 "leave", "returned"}]
  BY DEF TypeOK, SessType
<1> DEFINE S == [u \in Viewers |-> SessionOf(u)]
           T == [u \in Viewers |-> SessionOf(u)']
<1>1. \A u \in Viewers : u # v => SessionOf(u)' = SessionOf(u)
  BY <1>0 DEF End, SessionOf
<1>2. CASE gone[v]
  <2>1. SessionOf(v)' = SessionOf(v)
    BY <1>0, <1>2 DEF End, SessionOf, Outside
  <2>2. T = S
    BY <1>1, <2>1
  <2> QED
    BY <2>2 DEF Relay!vars
<1>3. CASE ~gone[v]
  <2>1. SessionOf(v) = "live" /\ SessionOf(v)' = "ended"
    BY <1>0, <1>3 DEF End, SessionOf, Outside
  <2>2. T = [S EXCEPT ![v] = "ended"] /\ S[v] = "live"
    BY <1>1, <2>1
  <2>3. Relay!End(v)
    BY <2>2 DEF Relay!End, Relay!Becomes
  <2> QED
    BY <2>3 DEF Relay!Next
<1> QED
  BY <1>2, <1>3

\* The next frame is what the relay shows: the next read to a session that is
\* live, a later one to a session that has ended.
LEMMA TakeSimulated ==
    ASSUME IInv, RelayInv, [Next]_vars, NEW v \in Viewers, OutputTake(v)
    PROVE  [Relay!Next]_(Relay!vars)
<1>0. /\ out[v] \in Seq(Nat) /\ out[v] # <<>> /\ last \in [Viewers -> Nat]
      /\ viewers \subseteq Viewers /\ nread \in Nat
      /\ gone \in [Viewers -> BOOLEAN]
  BY DEF OutputTake, IInv, TypeOK, QueueType, SessType, MuType, PumpType
<1>1. /\ UNCHANGED <<nread, attach, gone, done, stopPc>>
      /\ last' = [last EXCEPT ![v] = Head(out[v])]
      /\ outPc[v] = "select"
  BY DEF OutputTake, pumpVars, muVars, ctlVars
<1>2. Upto(v) \in Nat /\ Upto(v) <= nread
  BY UptoType
<1>3. Rises(out[v], last[v], Upto(v))
  BY DEF RelayInv, RiseInv
<1>4. Head(out[v]) \in Nat /\ last[v] < Head(out[v]) /\ Head(out[v]) <= nread
  <2>1. Head(out[v]) \in Nat
    BY <1>0
  <2>2. last[v] < Head(out[v]) /\ Head(out[v]) <= Upto(v)
    BY <1>0, <1>2, <1>3, TailRises
  <2> QED
    BY <1>0, <1>2, <2>1, <2>2
<1> DEFINE S == [u \in Viewers |-> SessionOf(u)]
<1>5. S' = S
  BY <1>1 DEF SessionOf
<1>6. CASE S[v] = "live"
  <2>1. v \in viewers /\ ~gone[v]
    BY <1>6 DEF SessionOf, RelayInv, OutsideInv
  <2>2. Contiguous(v)
    BY <2>1 DEF IInv, NoGapWhileAttached
  <2>3. Head(out[v]) = last[v] + 1
    <3>1. 1 \in 1 .. Len(out[v]) /\ Head(out[v]) = out[v][1]
      BY <1>0
    <3> QED
      BY <2>2, <3>1 DEF Contiguous
  <2>4. last' = [last EXCEPT ![v] = last[v] + 1]
    BY <1>1, <2>3
  <2>5. last[v] < nread
    BY <1>0, <1>4
  <2>6. Relay!Show(v)
    BY <1>1, <1>5, <1>6, <2>4, <2>5 DEF Relay!Show
  <2> QED
    BY <2>6 DEF Relay!Next
<1>7. CASE S[v] # "live"
  <2>1. S[v] \in {"ended", "over"}
    BY <1>1, <1>7 DEF SessionOf, RelayInv, OutsideInv, Outside
  <2>2. Head(out[v]) \in last[v] + 1 .. nread
    BY <1>0, <1>4
  <2>3. Relay!ShowRest(v)
    BY <1>1, <1>5, <2>1, <2>2 DEF Relay!ShowRest
  <2> QED
    BY <2>3 DEF Relay!Next
<1> QED
  BY <1>6, <1>7

\* Joining is getting in, or being turned away.
LEMMA JoinSimulated ==
    ASSUME IInv, RelayInv, NEW v \in Viewers, Join(v)
    PROVE  [Relay!Next]_(Relay!vars)
<1>0. /\ nread \in Nat /\ PumpInv /\ done \in BOOLEAN
      /\ attach \in [Viewers -> {"new", "input", "lock", "write1", "write2",
                                 "leave", "returned"}]
      /\ attach[v] = "new" /\ ~gone[v]
  BY DEF Join, IInv, TypeOK, SessType, PumpType, MuType, RelayInv, OutsideInv, Outside
<1> DEFINE S == [u \in Viewers |-> SessionOf(u)]
           T == [u \in Viewers |-> SessionOf(u)']
<1>1. UNCHANGED <<nread, gone, done, stopPc>>
  BY DEF Join, pumpVars, ctlVars
<1>2. CASE ~Open
  <2>1. attach' = [attach EXCEPT ![v] = "returned"] /\ last' = last /\ done
    BY <1>2 DEF Join, Open
  <2>2. T = [S EXCEPT ![v] = "refused"] /\ S[v] = "away"
    BY <1>0, <1>1, <2>1 DEF SessionOf
  <2>3. Relay!TurnAway(v)
    BY <1>1, <2>1, <2>2 DEF Relay!TurnAway, Relay!Becomes
  <2> QED
    BY <2>3 DEF Relay!Next
<1>3. CASE Open
  <2>1. /\ attach' = [attach EXCEPT ![v] = "input"] /\ ~done
        /\ last' = [last EXCEPT ![v] = IF pumpPc = "snapshot" THEN nread - 1 ELSE nread]
    BY <1>3 DEF Join, Open
  <2>2. T = [S EXCEPT ![v] = "live"] /\ S[v] = "away"
    BY <1>0, <1>1, <2>1 DEF SessionOf
  <2>3. \E n \in 0 .. nread : n + 1 >= nread /\ last' = [last EXCEPT ![v] = n]
    <3>1. CASE pumpPc = "snapshot"
      <4>1. nread - 1 \in 0 .. nread /\ (nread - 1) + 1 >= nread
        BY <1>0, <3>1 DEF PumpInv
      <4> QED
        BY <2>1, <3>1, <4>1
    <3>2. CASE pumpPc # "snapshot"
      <4>1. nread \in 0 .. nread /\ nread + 1 >= nread
        BY <1>0
      <4>2. last' = [last EXCEPT ![v] = nread]
        BY <2>1, <3>2
      <4> QED
        BY <4>1, <4>2
    <3> QED
      BY <3>1, <3>2
  <2>4. Relay!Enter(v)
    BY <1>1, <2>1, <2>2, <2>3 DEF Relay!Enter, Relay!Becomes
  <2> QED
    BY <2>4 DEF Relay!Next
<1> QED
  BY <1>2, <1>3

\* Attach's last step is the end of the session, which came before.
LEMMA LeaveSimulated ==
    ASSUME IInv, RelayInv, NEW v \in Viewers, Leave(v)
    PROVE  [Relay!Next]_(Relay!vars)
<1>0. /\ gone \in [Viewers -> BOOLEAN]
      /\ attach \in [Viewers -> {"new", "input", "lock", "write1", "write2",
                                 "leave", "returned"}]
      /\ attach[v] = "leave" /\ gone[v]
  BY DEF Leave, IInv, TypeOK, SessType, RelayInv, OutsideInv
<1> DEFINE S == [u \in Viewers |-> SessionOf(u)]
           T == [u \in Viewers |-> SessionOf(u)']
<1>1. UNCHANGED <<nread, last, done, stopPc, gone>>
  BY <1>0 DEF Leave, End, pumpVars, ctlVars
<1>2. attach' = [attach EXCEPT ![v] = "returned"]
  BY DEF Leave
<1>3. T = [S EXCEPT ![v] = "over"] /\ S[v] = "ended"
  BY <1>0, <1>1, <1>2 DEF SessionOf
<1>4. Relay!Leave(v)
  BY <1>1, <1>3 DEF Relay!Leave, Relay!Becomes
<1> QED
  BY <1>4 DEF Relay!Next

\* wait tells every viewer, in the step that makes the exit known.
LEMMA PublishSimulated ==
    ASSUME IInv, RelayInv, Publish
    PROVE  [Relay!Next]_(Relay!vars)
<1>0. gone \in [Viewers -> BOOLEAN] /\ NewInv
  BY DEF IInv, TypeOK, SessType
<1>1. /\ UNCHANGED <<nread, attach, last, stopPc>> /\ ~done /\ done' = TRUE
      /\ gone' = [u \in Viewers |-> gone[u] \/ u \in viewers]
  BY DEF Publish, EndEveryViewer, pumpVars, ctlVars
<1> DEFINE S == [u \in Viewers |-> SessionOf(u)]
           T == [u \in Viewers |-> SessionOf(u)']
<1>2. ASSUME NEW u \in Viewers
      PROVE  SessionOf(u)' = IF SessionOf(u) = "live" THEN "ended" ELSE SessionOf(u)
  <2>1. CASE u \in viewers
    BY <1>0, <1>1, <2>1 DEF SessionOf, NewInv
  <2>2. CASE u \notin viewers
    BY <1>0, <1>1, <2>2 DEF SessionOf, RelayInv, OutsideInv
  <2> QED
    BY <2>1, <2>2
<1>3. T = [u \in Viewers |-> IF S[u] = "live" THEN "ended" ELSE S[u]]
  BY <1>2
<1>4. Relay!Exit
  BY <1>1, <1>3 DEF Relay!Exit
<1> QED
  BY <1>4 DEF Relay!Next

LEMMA StopSimulated ==
    ASSUME IInv, StopAsk \/ Stop
    PROVE  [Relay!Next]_(Relay!vars)
<1>1. UNCHANGED <<nread, attach, gone, last, done>>
  BY StopFrame DEF pumpVars, muVars, sessVars
<1>2. CASE StopReturn
  <2>1. done /\ (stopPc' = "returned") = TRUE
    BY <1>2 DEF StopReturn, StopStep
  <2>2. Relay!StopReturns
    BY <1>1, <2>1 DEF Relay!StopReturns, SessionOf
  <2> QED
    BY <2>2 DEF Relay!Next
<1>3. CASE ~StopReturn
  <2>1. (stopPc' = "returned") = (stopPc = "returned")
    BY <1>3 DEF Stop, StopAsk, StopCheck, StopTerminate, StopExited, StopExpired,
                StopKill, StopStep
  <2> QED
    BY <1>1, <2>1 DEF Relay!vars, SessionOf
<1> QED
  BY <1>2, <1>3

LEMMA SessionSimulated ==
    ASSUME IInv, RelayInv, [Next]_vars, NEW v \in Viewers, Session(v)
    PROVE  [Relay!Next]_(Relay!vars)
<1>1. UNCHANGED <<nread, done, stopPc>>
  BY SessionFrame DEF pumpVars, ctlVars
<1>2. TypeOK /\ OutsideInv
  BY DEF IInv, RelayInv
<1>3. CASE Join(v) \/ Leave(v) \/ OutputTake(v)
  BY <1>3, JoinSimulated, LeaveSimulated, TakeSimulated
<1>4. CASE CtxEnd(v) \/ OutputFails(v)
  <2>1. End(v) /\ UNCHANGED <<attach, last>> /\ ~Outside(v)
    BY <1>2, <1>4 DEF CtxEnd, OutputFails, OutsideInv, Outside
  <2> QED
    BY <1>1, <1>2, <2>1, EndSimulated
<1>5. CASE InputEOF(v) \/ InputBadFrame(v) \/ InputWriteFails(v)
  <2>1. /\ End(v) /\ UNCHANGED last
        /\ attach' = [attach EXCEPT ![v] = "leave"]
        /\ attach[v] \notin {"new", "returned"}
    BY <1>5 DEF InputEOF, InputBadFrame, InputWriteFails, InputReturns
  <2>2. ~Outside(v)
    BY <2>1 DEF Outside
  <2> QED
    BY <1>1, <1>2, <2>1, <2>2, EndSimulated
<1>6. CASE CloseStream(v) \/ OutputStop(v) \/ OutputWritten(v)
  BY <1>1, <1>6, MappedVars DEF CloseStream, OutputStop, OutputWritten
<1>7. CASE InputData(v) \/ InputLock(v) \/ InputWrite(v)
  <2>1. UNCHANGED <<gone, last>>
    BY <1>7 DEF InputData, InputLock, InputWrite
  <2>2. \A u \in Viewers : SessionOf(u)' = SessionOf(u)
    BY <1>2, <1>7, <2>1 DEF InputData, InputLock, InputWrite, SessionOf, TypeOK, SessType
  <2> QED
    BY <1>1, <2>1, <2>2 DEF Relay!vars
<1> QED
  BY <1>3, <1>4, <1>5, <1>6, <1>7 DEF Session

LEMMA PumpSimulated ==
    ASSUME IInv, RelayInv, Pump
    PROVE  [Relay!Next]_(Relay!vars)
<1>1. UNCHANGED <<attach, last, done, stopPc>>
  BY PumpFrame DEF muVars, ctlVars
<1>2. CASE PumpRead
  <2>1. nread' = nread + 1 /\ UNCHANGED gone
    BY <1>2 DEF PumpRead, sessVars
  <2>2. Relay!Read
    BY <1>1, <2>1 DEF Relay!Read, SessionOf
  <2> QED
    BY <2>2 DEF Relay!Next
<1>3. CASE PumpClose \/ Snapshot \/ \E v \in Viewers : Offer(v)
  BY <1>1, <1>3, MappedVars DEF PumpClose, Snapshot, Offer, sessVars
<1>4. ASSUME NEW v \in Viewers, Stalled(v)
      PROVE  [Relay!Next]_(Relay!vars)
  <2>1. ~Outside(v) /\ nread' = nread
    BY <1>4, PtyAssumption DEF Stalled, IInv, PumpInv, RelayInv, OutsideInv
  <2>2. UNCHANGED gone \/ End(v)
    BY <1>4 DEF Stalled, StallLimit
  <2> QED
    BY <1>1, <2>1, <2>2, MappedVars, EndSimulated DEF IInv, RelayInv
<1> QED
  BY <1>2, <1>3, <1>4 DEF Pump

\* All of them together.
LEMMA Simulated == IInv /\ RelayInv /\ [Next]_vars => [Relay!Next]_(Relay!vars)
<1> SUFFICES ASSUME IInv, RelayInv, [Next]_vars
             PROVE  [Relay!Next]_(Relay!vars)
  OBVIOUS
<1>1. CASE Environment
  BY <1>1, EnvironmentFrame, MappedVars DEF pumpVars, muVars
<1>2. CASE Reap
  BY <1>2, MappedVars DEF Reap, pumpVars, sessVars, ctlVars
<1>3. CASE UNCHANGED vars
  BY <1>3, MappedVars DEF vars, pumpVars, muVars, sessVars, ctlVars
<1> QED
  BY <1>1, <1>2, <1>3, PumpSimulated, SessionSimulated, PublishSimulated, StopSimulated
     DEF Next

\* The initial state is the relay's.
LEMMA InitSimulated == Init => Relay!Init
<1> SUFFICES ASSUME Init PROVE Relay!Init
  OBVIOUS
<1>1. [v \in Viewers |-> SessionOf(v)] = [v \in Viewers |-> "away"]
  BY DEF Init, SessionOf
<1>2. (stopPc = "returned") = FALSE
  BY DEF Init
<1> QED
  BY <1>1, <1>2 DEF Init, Relay!Init

\* Whatever process.go's goroutines do, in whatever order, its sessions see the
\* relay of PtyRelay: every read once and in order to their end, no read twice
\* after it, one exit for all of them.
THEOREM RelayImplemented == Spec => ImplementsRelay
<1>1. Init => IInv /\ RelayInv
  BY InitInv, RelayInit
<1>2. IInv /\ RelayInv /\ [Next]_vars => IInv' /\ RelayInv'
  BY StepInv, RelayStep
<1> HIDE DEF IInv, RelayInv
<1> QED
  BY <1>1, <1>2, InitSimulated, Simulated, PTL DEF Spec, ImplementsRelay, Relay!Spec

=============================================================================
