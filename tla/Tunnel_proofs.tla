---------------------------- MODULE Tunnel_proofs ----------------------------
(***************************************************************************)
(* Proofs about Tunnel, for any number of slots and streams and any        *)
(* answers of the service.                                                 *)
(***************************************************************************)
EXTENDS Tunnel, Recursion_proofs

\* Only a refusal that some slot was given is in Run's channel, or a cancellation
\* that has come; Run has no result until it returns.
ErrorInv ==
    /\ run # "returned" => result = "none"
    /\ fatal \in Given \cup {"empty", "canceled"}
    /\ fatal = "canceled" => ctxDone

\* A slot is over when it was refused, and only then or when the context is done.
Over(s) == pc[s] \in {"returned", "done"}

OverInv ==
    \A s \in Slots :
        /\ answer[s] \in Refused => Over(s)
        /\ Over(s) => answer[s] \in Refused \/ ctxDone

\* A session is open only while its slot is in Serve, and only then has streams
\* that were not accepted; a handler Serve has not given up is the work of a
\* slot that is in Serve.
OwnInv ==
    /\ \A s \in Slots : session[s] = "open" => pc[s] \in {"serve", "drain"}
    /\ \A t \in Streams : handler[t] = "offered" => pc[owner[t]] \in {"serve", "drain"}
    /\ \A t \in Streams : t \notin left /\ handler[t] # "none"
        => pc[owner[t]] \in {"serve", "drain"}

\* Run ends, and an error is in its channel, only after some hold has returned.
RunInv ==
    run = "returned" \/ fatal # "empty"
        => \E s \in Slots : pc[s] \in {"returned", "done"}

IInv == TypeOK /\ ErrorInv /\ OverInv /\ OwnInv /\ RunInv

-----------------------------------------------------------------------------

LEMMA BackoffBounded == \A n \in Nat : Backoff(n) \in 1 .. BackoffCap
<1> SUFFICES ASSUME NEW n \in Nat PROVE Backoff(n) \in 1 .. BackoffCap
    OBVIOUS
<1> QED
    BY DEF Backoff, Capped, BackoffCap

\* The model counts waits in seconds, the code in nanoseconds: the wait of
\* manager.go:148 is that of the model, for any number of failures, whatever either
\* of them shifts out.
THEOREM SecondsSuffice ==
    ASSUME DurationBits = 64
    PROVE  \A n \in Nat :
               Capped(ShiftLeft(Second, n, 64), BackoffCap * Second) = Second * Backoff(n)
<1>1. PICK c \in Nat \ {0}, k \in Nat, bits \in Nat \ {0}, limit \in Nat \ {0} :
          c = 1 /\ k = 0 /\ bits = 64 /\ limit = 30
    BY SMT
<1>2. c * limit <= Pow2[bits - 1] /\ c * Pow2[k] = 1
    <2>1. PICK a \in Nat : a = Pow2[bits - 1]
        BY Pow2Positive, SMT
    <2>2. a >= 72057594037927936
        BY <1>1, <2>1, Pow2Values, SMT
    <2>3. c * limit = 30 /\ c * Pow2[k] = 1
        BY <1>1, Pow2Steps, SMT
    <2> QED
        BY <2>1, <2>2, <2>3, SMT
<1>3. \A n \in Nat :
          Capped(ShiftLeft(c * Pow2[k], n, bits), limit)
              = IF c * Pow2[k] * Pow2[n] <= limit THEN c * Pow2[k] * Pow2[n] ELSE limit
    BY ONLY <1>2, BackoffExact, c \in Nat \ {0}, k \in Nat, bits \in Nat \ {0},
            limit \in Nat \ {0}
<1>4. ASSUME NEW n \in Nat
      PROVE  Backoff(n) = IF Pow2[n] <= 30 THEN Pow2[n] ELSE 30
    <2>1. PICK p \in Nat \ {0} : p = Pow2[n]
        BY Pow2Positive, SMT
    <2>2. Backoff(n) = IF 1 * p <= 30 THEN 1 * p ELSE 30
        BY <1>1, <1>2, <1>3, <2>1, SMT DEF Backoff, BackoffCap
    <2> QED
        BY <2>1, <2>2, SMT
<1>5. ASSUME NEW n \in Nat
      PROVE  Capped(ShiftLeft(Second, n, 64), 30 * Second) =
                 Second * (IF Pow2[n] <= 30 THEN Pow2[n] ELSE 30)
    BY NoShortWait, SMT DEF Second
<1> QED
    BY <1>4, <1>5, SMT DEF BackoffCap

LEMMA InitIInv == Init => IInv
<1> SUFFICES ASSUME Init PROVE IInv
    OBVIOUS
<1>1. ctxDone \in BOOLEAN
    BY Zenon DEF Init
<1>2. TypeOK
    BY <1>1, TunnelAssumption
    DEF Init, TypeOK, RunType, HoldType, ConnType, Errors, BackoffCap
<1>3. OverInv
    BY DEF Init, OverInv, Over, Refused
<1> QED
    BY <1>2, <1>3 DEF Init, IInv, ErrorInv, OwnInv, RunInv

-----------------------------------------------------------------------------
(* Every step keeps IInv *)

\* An error that Run may have for a result after this step.
Final(e) == e \in Given' \/ (e = "canceled" /\ ctxDone')

\* What Run's part of the state depends on.
Kept ==
    /\ \A s \in Slots : answer[s] \in Refused => answer'[s] = answer[s]
    /\ ctxDone => ctxDone'

LEMMA GivenStays == Kept => Given \subseteq Given'
BY DEF Kept, Given

\* hold's error is in the channel, in Run's result, or dropped.
LEMMA ReportKeeps ==
    ASSUME IInv, NEW e, Final(e), Report(e), Kept
    PROVE  RunType' /\ ErrorInv'
<1>1. e \in Errors
    BY DEF Final, Given, Errors
<1>2. RunType'
    BY <1>1 DEF IInv, TypeOK, RunType, Report
<1>3. \A r \in Given' : r # "canceled"
    BY DEF Given, Refused
<1>4. ErrorInv'
    BY <1>3, GivenStays DEF IInv, TypeOK, RunType, ErrorInv, Final, Report, Kept
<1> QED
    BY <1>2, <1>4

LEMMA RunStays == IInv /\ Kept /\ UNCHANGED runVars => RunType' /\ ErrorInv'
BY GivenStays DEF IInv, TypeOK, RunType, ErrorInv, Kept, runVars

\* A slot that returns leaves every other slot where it was.
LEMMA ReturnKeeps ==
    ASSUME IInv, NEW s \in Slots, NEW e, Final(e), HoldReturns(s, e), Kept
    PROVE  RunType' /\ ErrorInv' /\ RunInv'
<1>1. RunType' /\ ErrorInv'
    BY ReportKeeps DEF HoldReturns
<1>2. pc'[s] = "returned"
    BY DEF HoldReturns, Goto, IInv, TypeOK, HoldType
<1> QED
    BY <1>1, <1>2 DEF RunInv

\* A slot that ends because the context is done.
LEMMA CanceledKeeps ==
    ASSUME IInv, NEW s \in Slots, HoldReturns(s, "canceled"), ctxDone, UNCHANGED <<answer, ctxDone>>
    PROVE  RunType' /\ ErrorInv' /\ RunInv' /\ OverInv'
<1>1. Final("canceled") /\ Kept
    BY DEF Final, Kept
<1>2. RunType' /\ ErrorInv' /\ RunInv'
    BY <1>1, ReturnKeeps
<1>3. OverInv'
    BY DEF HoldReturns, Goto, IInv, TypeOK, HoldType, OverInv, Over
<1> QED
    BY <1>2, <1>3

LEMMA RunStep == IInv /\ Run => IInv'
<1> SUFFICES ASSUME IInv, Run PROVE IInv'
    OBVIOUS
<1>1. UNCHANGED <<holdVars, connVars, ctxDone>>
    BY DEF Run, RunParks, RunTakes, RunDone
<1>2. HoldType' /\ ConnType' /\ OverInv' /\ OwnInv'
    BY <1>1 DEF IInv, TypeOK, HoldType, ConnType, OverInv, Over, OwnInv, holdVars, connVars
<1>3. Given' = Given
    BY <1>1 DEF Given, holdVars
<1>4. CASE RunParks
    BY <1>1, <1>2, <1>3, <1>4
    DEF RunParks, IInv, TypeOK, RunType, ErrorInv, RunInv, holdVars
<1>5. CASE RunTakes
    <2>1. fatal \in Errors
        BY <1>5 DEF RunTakes, IInv, ErrorInv, Given, Errors
    <2> QED
        BY <1>1, <1>2, <1>3, <1>5, <2>1
        DEF RunTakes, IInv, TypeOK, RunType, ErrorInv, RunInv, holdVars
<1>6. CASE RunDone
    <2>1. \E s \in Slots : pc[s] \in {"returned", "done"}
        BY <1>6, TunnelAssumption DEF RunDone, AllDone
    <2> QED
        BY <1>1, <1>2, <1>3, <1>6, <2>1
        DEF RunDone, IInv, TypeOK, RunType, Errors, ErrorInv, RunInv, holdVars
<1> QED
    BY <1>4, <1>5, <1>6 DEF Run

LEMMA HoldStep == \A s \in Slots : IInv /\ Hold(s) => IInv'
<1> SUFFICES ASSUME NEW s \in Slots, IInv, Hold(s) PROVE IInv'
    OBVIOUS
<1> USE DEF Goto, runVars, connVars
<1>1. CASE HoldTop(s)
    <2>1. HoldType' /\ ConnType' /\ OwnInv'
        BY <1>1 DEF HoldTop, HoldReturns, IInv, TypeOK, HoldType, ConnType, OwnInv
    <2>2. CASE ctxDone
        <3>1. RunType' /\ ErrorInv' /\ RunInv' /\ OverInv'
            BY <1>1, <2>2, CanceledKeeps DEF HoldTop
        <3> QED
            BY <2>1, <3>1 DEF IInv, TypeOK
    <2>3. CASE ~ctxDone
        <3>1. RunType' /\ ErrorInv'
            BY <1>1, <2>3, RunStays DEF HoldTop, Kept
        <3>2. RunInv' /\ OverInv'
            BY <1>1, <2>3 DEF HoldTop, IInv, TypeOK, HoldType, RunInv, OverInv, Over
        <3> QED
            BY <2>1, <3>1, <3>2 DEF IInv, TypeOK
    <2> QED
        BY <2>2, <2>3
<1>2. ASSUME NEW a \in Answers, DialAccepted(s, a) PROVE IInv'
    <2>1. HoldType' /\ ConnType'
        BY <1>2, TunnelAssumption DEF DialAccepted, IInv, TypeOK, HoldType, ConnType
    <2>2. Kept
        BY <1>2 DEF DialAccepted, IInv, TypeOK, HoldType, OverInv, Over, Kept
    <2>3. RunType' /\ ErrorInv'
        BY <1>2, <2>2, RunStays DEF DialAccepted
    <2>4. OwnInv'
        BY <1>2 DEF DialAccepted, IInv, TypeOK, HoldType, ConnType, OwnInv
    <2>5. RunInv' /\ OverInv'
        BY <1>2 DEF DialAccepted, Accepted, Refused, IInv, TypeOK, HoldType, RunInv,
           OverInv, Over
    <2> QED
        BY <2>1, <2>3, <2>4, <2>5 DEF IInv, TypeOK
<1>3. ASSUME NEW a \in Answers, DialRefused(s, a) PROVE IInv'
    <2>1. Kept
        BY <1>3 DEF DialRefused, IInv, TypeOK, HoldType, OverInv, Over, Kept
    <2>2. answer'[s] = a /\ a \in Refused
        BY <1>3 DEF DialRefused, IsFatal, IInv, TypeOK, HoldType
    <2>3. Final(a)
        BY <2>2 DEF Final, Given
    <2>4. RunType' /\ ErrorInv' /\ RunInv'
        BY <1>3, <2>1, <2>3, ReturnKeeps DEF DialRefused
    <2>5. OwnInv' /\ HoldType' /\ ConnType'
        BY <1>3 DEF DialRefused, HoldReturns, IInv, TypeOK, HoldType, ConnType, OwnInv
    <2>6. OverInv'
        BY <1>3, <2>2 DEF DialRefused, HoldReturns, IInv, TypeOK, HoldType, OverInv, Over
    <2> QED
        BY <2>4, <2>5, <2>6 DEF IInv, TypeOK
<1>4. ASSUME NEW a \in Answers, DialFails(s, a) PROVE IInv'
    <2>1. Backoff(attempt[s]) \in 1 .. BackoffCap /\ After(a) \in 0 .. BackoffCap
        BY BackoffBounded DEF IInv, TypeOK, HoldType, After, BackoffCap
    <2>2. HoldType'
        BY <1>4, <2>1, TunnelAssumption DEF DialFails, IInv, TypeOK, HoldType
    <2>3. Kept
        BY <1>4 DEF DialFails, IInv, TypeOK, HoldType, OverInv, Over, Kept
    <2>4. RunType' /\ ErrorInv'
        BY <1>4, <2>3, RunStays DEF DialFails
    <2>5. ConnType' /\ OwnInv' /\ RunInv'
        BY <1>4 DEF DialFails, IInv, TypeOK, HoldType, ConnType, OwnInv, RunInv
    <2>6. OverInv'
        BY <1>4 DEF DialFails, IsFatal, IInv, TypeOK, HoldType, OverInv, Over
    <2> QED
        BY <2>2, <2>4, <2>5, <2>6 DEF IInv, TypeOK
<1>5. CASE SleepEnds(s)
    <2>1. RunType' /\ ErrorInv'
        BY <1>5, RunStays DEF SleepEnds, Kept
    <2>2. HoldType' /\ ConnType' /\ OwnInv' /\ RunInv' /\ OverInv'
        BY <1>5 DEF SleepEnds, IInv, TypeOK, HoldType, ConnType, OwnInv, RunInv, OverInv, Over
    <2> QED
        BY <2>1, <2>2 DEF IInv, TypeOK
<1>6. CASE SleepCanceled(s)
    <2>1. RunType' /\ ErrorInv' /\ RunInv' /\ OverInv'
        BY <1>6, CanceledKeeps DEF SleepCanceled
    <2>2. OwnInv' /\ HoldType' /\ ConnType'
        BY <1>6 DEF SleepCanceled, HoldReturns, IInv, TypeOK, HoldType, ConnType, OwnInv
    <2> QED
        BY <2>1, <2>2 DEF IInv, TypeOK
<1>7. CASE SlotDone(s)
    <2>1. pc'[s] = "done"
        BY <1>7 DEF SlotDone, IInv, TypeOK, HoldType
    <2>2. RunType' /\ ErrorInv'
        BY <1>7, RunStays DEF SlotDone, Kept
    <2>3. HoldType' /\ ConnType' /\ OwnInv' /\ RunInv' /\ OverInv'
        BY <1>7, <2>1
        DEF SlotDone, IInv, TypeOK, HoldType, ConnType, OwnInv, RunInv, OverInv, Over
    <2> QED
        BY <2>2, <2>3 DEF IInv, TypeOK
<1> QED
    BY <1>1, <1>2, <1>3, <1>4, <1>5, <1>6, <1>7 DEF Hold, Dial

\* Run and the slots' answers are no business of the steps of Serve and its handlers.
LEMMA BesideKeeps ==
    ASSUME IInv, UNCHANGED <<runVars, answer, ctxDone>>
    PROVE  RunType' /\ ErrorInv'
BY RunStays DEF Kept

LEMMA ServeStep == \A s \in Slots : IInv /\ Serve(s) => IInv'
<1> SUFFICES ASSUME NEW s \in Slots, IInv, Serve(s) PROVE IInv'
    OBVIOUS
<1> USE DEF Goto, holdVars
<1>1. CASE SessionLost(s)
    BY <1>1, BesideKeeps DEF SessionLost, CloseSession, IInv, TypeOK, HoldType, ConnType,
       OwnInv, RunInv, OverInv, Over, runVars
<1>2. CASE CtxCloses(s)
    BY <1>2, BesideKeeps DEF CtxCloses, CloseSession, IInv, TypeOK, HoldType, ConnType,
       OwnInv, RunInv, OverInv, Over, runVars
<1>3. CASE AcceptFails(s)
    <2>1. RunType' /\ ErrorInv'
        BY <1>3, BesideKeeps DEF AcceptFails
    <2>2. HoldType' /\ ConnType' /\ OwnInv'
        BY <1>3 DEF AcceptFails, connVars, IInv, TypeOK, HoldType, ConnType, OwnInv
    <2>3. RunInv' /\ OverInv'
        BY <1>3 DEF AcceptFails, runVars, IInv, TypeOK, HoldType, RunInv, OverInv, Over
    <2> QED
        BY <2>1, <2>2, <2>3 DEF IInv, TypeOK
<1>4. ASSUME ServeReturns(s), pc[s] = "drain", left' \subseteq Streams,
             left \subseteq left', Handlers(s) \subseteq left'
      PROVE  IInv'
    <2>1. OwnInv'
        BY <1>4 DEF ServeReturns, Waiting, HoldReturns, Handlers, Mine, IInv, TypeOK, HoldType,
           ConnType, OwnInv
    <2>2. HoldType' /\ ConnType'
        BY <1>4 DEF ServeReturns, HoldReturns, IInv, TypeOK, HoldType, ConnType
    <2>3. CASE ctxDone
        <3>1. RunType' /\ ErrorInv' /\ RunInv' /\ OverInv'
            BY <1>4, <2>3, CanceledKeeps DEF ServeReturns
        <3> QED
            BY <2>1, <2>2, <3>1 DEF IInv, TypeOK
    <2>4. CASE ~ctxDone
        <3>1. RunType' /\ ErrorInv'
            BY <1>4, <2>4, BesideKeeps DEF ServeReturns
        <3>2. RunInv' /\ OverInv'
            BY <1>4, <2>4
            DEF ServeReturns, IInv, TypeOK, HoldType, RunInv, OverInv, Over, runVars
        <3> QED
            BY <2>1, <2>2, <3>1, <3>2 DEF IInv, TypeOK
    <2> QED
        BY <2>3, <2>4
<1>5. CASE Drained(s)
    BY <1>4, <1>5 DEF Drained, IInv, TypeOK, ConnType
<1>6. CASE DrainExpires(s)
    <2>1. Handlers(s) \subseteq Streams
        BY DEF Handlers, Mine
    <2> QED
        BY <1>4, <1>6, <2>1 DEF DrainExpires, IInv, TypeOK, ConnType
<1>7. ASSUME NEW t \in Streams, StreamOpens(s, t) PROVE IInv'
    BY <1>7, BesideKeeps DEF StreamOpens, IInv, TypeOK, HoldType, ConnType,
       OwnInv, RunInv, OverInv, Over, runVars
<1>8. ASSUME NEW t \in Streams, Accept(s, t) PROVE IInv'
    BY <1>8, BesideKeeps DEF Accept, IInv, TypeOK, HoldType, ConnType,
       OwnInv, RunInv, OverInv, Over, runVars
<1> QED
    BY <1>1, <1>2, <1>3, <1>5, <1>6, <1>7, <1>8 DEF Serve

LEMMA HandleStep == \A t \in Streams : IInv /\ Handle(t) => IInv'
<1> SUFFICES ASSUME NEW t \in Streams, IInv, Handle(t) PROVE IInv'
    OBVIOUS
<1>1. UNCHANGED <<runVars, holdVars, session, owner, ctxDone>>
    BY DEF Handle, Spawn, Attached, HandlerEnds, HandlerStep
<1>2. RunType' /\ ErrorInv' /\ HoldType' /\ RunInv' /\ OverInv'
    BY <1>1, BesideKeeps
    DEF IInv, TypeOK, HoldType, RunInv, OverInv, Over, holdVars, runVars
<1> USE DEF IInv, TypeOK, ConnType, OwnInv, holdVars
<1>3. CASE Spawn(t)
    BY <1>1, <1>2, <1>3 DEF Spawn, HandlerStep
<1>4. CASE Attached(t)
    BY <1>1, <1>2, <1>4 DEF Attached, HandlerStep
<1>5. CASE HandlerEnds(t)
    BY <1>1, <1>2, <1>5 DEF HandlerEnds
<1> QED
    BY <1>3, <1>4, <1>5 DEF Handle

LEMMA NextIInv == IInv /\ [Next]_vars => IInv'
<1> SUFFICES ASSUME IInv, [Next]_vars PROVE IInv'
    OBVIOUS
<1>1. ASSUME UNCHANGED <<runVars, holdVars, connVars>>, ctxDone => ctxDone', ctxDone' \in BOOLEAN
      PROVE  IInv'
    <2>1. RunType' /\ ErrorInv'
        BY <1>1, RunStays DEF Kept, holdVars
    <2> QED
        BY <1>1, <2>1 DEF IInv, TypeOK, HoldType, ConnType, OwnInv, RunInv, OverInv, Over,
           runVars, holdVars, connVars
<1>2. CASE CtxCancel
    <2>1. ctxDone' \in BOOLEAN
        BY <1>2, Zenon DEF CtxCancel
    <2> QED
        BY <1>1, <1>2, <2>1 DEF CtxCancel
<1>3. CASE UNCHANGED vars
    BY <1>1, <1>3 DEF vars, IInv, TypeOK, ConnType
<1> QED
    BY <1>2, <1>3, RunStep, HoldStep, ServeStep, HandleStep DEF Next

LEMMA Invariance == Spec => []IInv
BY InitIInv, NextIInv, PTL DEF Spec

-----------------------------------------------------------------------------
(* The theorems *)

\* Types, and the cap of every wait.
THEOREM TypeCorrect == Spec => []TypeOK
<1>1. IInv => TypeOK
    BY DEF IInv
<1> QED
    BY <1>1, Invariance, PTL

\* With one slot, Run returns only when its servers have ended or have had
\* their drainGrace, whatever the number of streams.
THEOREM ServersDrained ==
    ASSUME NEW a, Slots = {a}
    PROVE  Spec => []NothingLeftBehind
<1>1. IInv => NothingLeftBehind
    BY DEF IInv, TypeOK, HoldType, ConnType, OwnInv, RunInv, NothingLeftBehind
<1> QED
    BY <1>1, Invariance, PTL

-----------------------------------------------------------------------------
(* Every step is a step of ManagerRun, or none *)

Links == [s \in Slots |-> LinkOf(s)]

\* A slot that goes on to l has the link that l is.
LEMMA Moves ==
    ASSUME TypeOK, NEW s \in Slots, NEW l, Goto(s, l), NEW k,
           k = IF l \in {"returned", "done"} THEN "over" ELSE IF l = "serve" THEN "up" ELSE "down"
    PROVE  Links' = [Links EXCEPT ![s] = k]
<1>1. pc' = [pc EXCEPT ![s] = l] /\ pc'[s] = l
    BY DEF Goto, TypeOK, HoldType
<1>2. LinkOf(s)' = k
    BY <1>1 DEF LinkOf
<1>3. \A t \in Slots : t # s => LinkOf(t)' = LinkOf(t)
    BY <1>1 DEF LinkOf, TypeOK, HoldType
<1> QED
    BY <1>2, <1>3 DEF Links

\* A slot that is neither over nor served stays as it is when it goes on likewise.
LEMMA MovesNot ==
    ASSUME TypeOK, NEW s \in Slots, NEW l, Goto(s, l), LinkOf(s) = "down",
           l \notin {"returned", "done", "serve"}
    PROVE  Links' = Links
<1>1. Links' = [Links EXCEPT ![s] = "down"]
    BY Moves
<1> QED
    BY <1>1 DEF Links

LEMMA GivenSame ==
    ASSUME IInv, NEW s \in Slots, NEW a, answer' = [answer EXCEPT ![s] = a],
           answer[s] \notin Refused, a \notin Refused
    PROVE  Given' = Given
BY DEF IInv, TypeOK, HoldType, Given

LEMMA NothingSeen ==
    ASSUME UNCHANGED <<pc, answer, ctxDone, result>>
    PROVE  UNCHANGED Contract!vars
BY DEF Contract!vars, LinkOf, Given

\* A slot that has not been refused and is not served ends with the context.
LEMMA CancelSimulated ==
    ASSUME IInv, NEW s \in Slots, HoldReturns(s, "canceled"), ctxDone,
           LinkOf(s) = "down", UNCHANGED <<answer, ctxDone>>
    PROVE  Contract!Next
<1>1. Links' = [Links EXCEPT ![s] = "over"] /\ Links[s] = "down"
    BY Moves DEF HoldReturns, IInv, Links
<1>2. UNCHANGED result \/ (result = "none" /\ result' = "canceled")
    BY DEF HoldReturns, Report, IInv, ErrorInv
<1>3. Contract!GiveUp(s)
    BY <1>1, <1>2 DEF Contract!GiveUp, Contract!Becomes, Contract!MayReturn, Links, Given
<1> QED
    BY <1>3 DEF Contract!Next

LEMMA RunSimulated == IInv /\ Run => [Contract!Next]_(Contract!vars)
<1> SUFFICES ASSUME IInv, Run PROVE [Contract!Next]_(Contract!vars)
    OBVIOUS
<1>1. UNCHANGED <<pc, answer, ctxDone>>
    BY DEF Run, RunParks, RunTakes, RunDone, holdVars
<1>2. Links' = Links /\ Given' = Given
    BY <1>1 DEF Links, LinkOf, Given
<1>3. CASE RunParks
    BY <1>1, <1>3, NothingSeen DEF RunParks
<1>4. CASE RunTakes
    <2>1. result = "none" /\ result' = fatal
        BY <1>4 DEF RunTakes, IInv, ErrorInv
    <2>2. \E s \in Slots : Links[s] = "over"
        BY <1>4 DEF RunTakes, IInv, RunInv, Links, LinkOf
    <2>3. fatal \in Given \/ (fatal = "canceled" /\ ctxDone)
        BY <1>4 DEF RunTakes, IInv, ErrorInv
    <2>4. Contract!Return(fatal)
        BY <1>1, <1>2, <2>1, <2>2, <2>3 DEF Contract!Return, Links
    <2>5. fatal \in Refused \cup {"canceled", "nil"}
        BY <2>3 DEF Given
    <2> QED
        BY <2>4, <2>5 DEF Contract!Next
<1>5. CASE RunDone
    <2>1. result = "none" /\ result' = IF ctxDone THEN "canceled" ELSE "nil"
        BY <1>5 DEF RunDone, IInv, ErrorInv
    <2>2. \A s \in Slots : Links[s] = "over" /\ Over(s)
        BY <1>5 DEF RunDone, AllDone, Links, LinkOf, Over
    <2>3. ~ctxDone => Given # {}
        BY <2>2, TunnelAssumption DEF IInv, OverInv, Given
    <2>4. Contract!Return(result')
        BY <1>1, <1>2, <2>1, <2>2, <2>3, TunnelAssumption DEF Contract!Return, Links
    <2> QED
        BY <2>1, <2>4 DEF Contract!Next
<1> QED
    BY <1>3, <1>4, <1>5 DEF Run

LEMMA HoldSimulated ==
    ASSUME IInv, NEW s \in Slots, Hold(s)
    PROVE  [Contract!Next]_(Contract!vars)
<1>0. TypeOK
    BY DEF IInv
<1>1. CASE HoldTop(s)
    <2>1. LinkOf(s) = "down" /\ UNCHANGED <<answer, ctxDone>>
        BY <1>1 DEF HoldTop, LinkOf
    <2>2. CASE ctxDone
        BY <1>1, <2>1, <2>2, CancelSimulated DEF HoldTop
    <2>3. CASE ~ctxDone
        <3>1. Goto(s, "dial") /\ UNCHANGED result
            BY <1>1, <2>3 DEF HoldTop, runVars
        <3>2. Links' = Links
            BY <1>0, <2>1, <3>1, MovesNot
        <3> QED
            BY <2>1, <3>1, <3>2 DEF Contract!vars, Links, Given
    <2> QED
        BY <2>2, <2>3
<1>2. ASSUME pc[s] = "dial" PROVE LinkOf(s) = "down" /\ Links[s] = "down" /\ answer[s] \notin Refused
    BY <1>2 DEF LinkOf, Links, IInv, OverInv, Over
<1>3. ASSUME NEW a \in Answers, DialAccepted(s, a) PROVE Contract!Next
    <2>1. Links' = [Links EXCEPT ![s] = "up"] /\ Links[s] = "down"
        BY <1>0, <1>2, <1>3, Moves DEF DialAccepted
    <2>2. Given' = Given
        BY <1>2, <1>3, GivenSame DEF DialAccepted, Accepted, Refused
    <2>3. Contract!Connect(s)
        BY <1>3, <2>1, <2>2
        DEF DialAccepted, runVars, Contract!Connect, Contract!Becomes, Links
    <2> QED
        BY <2>3 DEF Contract!Next
<1>4. ASSUME NEW a \in Answers, DialRefused(s, a) PROVE Contract!Next
    <2>1. Links' = [Links EXCEPT ![s] = "over"] /\ Links[s] = "down"
        BY <1>0, <1>2, <1>4, Moves DEF DialRefused, HoldReturns
    <2>2. a \in Refused
        BY <1>4 DEF DialRefused, IsFatal
    <2>3. Given' = Given \cup {a}
        BY <1>2, <1>4, <2>2 DEF DialRefused, IInv, TypeOK, HoldType, Given
    <2>4. UNCHANGED result \/ (result = "none" /\ result' = a)
        BY <1>4 DEF DialRefused, HoldReturns, Report, IInv, ErrorInv
    <2>5. Contract!Refuse(s, a)
        BY <1>4, <2>1, <2>3, <2>4
        DEF DialRefused, Contract!Refuse, Contract!Becomes, Contract!MayReturn, Links
    <2> QED
        BY <2>2, <2>5 DEF Contract!Next
<1>5. ASSUME NEW a \in Answers, DialFails(s, a) PROVE UNCHANGED Contract!vars
    <2>1. Links' = Links
        BY <1>0, <1>2, <1>5, MovesNot DEF DialFails
    <2>2. Given' = Given
        BY <1>2, <1>5, GivenSame DEF DialFails, IsFatal
    <2> QED
        BY <1>5, <2>1, <2>2 DEF DialFails, runVars, Contract!vars, Links
<1>6. CASE SleepEnds(s)
    <2>1. LinkOf(s) = "down" /\ Goto(s, "top")
        BY <1>6 DEF SleepEnds, LinkOf
    <2>2. Links' = Links
        BY <1>0, <2>1, MovesNot
    <2> QED
        BY <1>6, <2>2 DEF SleepEnds, runVars, Contract!vars, Links, Given
<1>7. CASE SleepCanceled(s)
    BY <1>7, CancelSimulated DEF SleepCanceled, LinkOf
<1>8. CASE SlotDone(s)
    <2>1. Links' = [Links EXCEPT ![s] = "over"] /\ Links[s] = "over"
        BY <1>0, <1>8, Moves DEF SlotDone, Links, LinkOf
    <2>2. Links' = Links
        BY <2>1 DEF Links
    <2> QED
        BY <1>8, <2>2 DEF SlotDone, runVars, Contract!vars, Links, Given
<1> QED
    BY <1>1, <1>3, <1>4, <1>5, <1>6, <1>7, <1>8 DEF Hold, Dial

LEMMA ServeSimulated ==
    ASSUME IInv, NEW s \in Slots, Serve(s)
    PROVE  [Contract!Next]_(Contract!vars)
<1>0. TypeOK
    BY DEF IInv
<1>1. CASE UNCHANGED <<pc, answer, ctxDone, result>>
    BY <1>1, NothingSeen
<1>2. CASE AcceptFails(s)
    <2>1. Links' = [Links EXCEPT ![s] = "down"] /\ Links[s] = "up"
        BY <1>0, <1>2, Moves DEF AcceptFails, Links, LinkOf
    <2>2. Contract!Lose(s)
        BY <1>2, <2>1
        DEF AcceptFails, runVars, Contract!Lose, Contract!Becomes, Links, Given
    <2> QED
        BY <2>2 DEF Contract!Next
<1>3. ASSUME pc[s] = "drain", ServeReturns(s) PROVE [Contract!Next]_(Contract!vars)
    <2>1. LinkOf(s) = "down" /\ UNCHANGED <<answer, ctxDone>>
        BY <1>3 DEF ServeReturns, LinkOf
    <2>2. CASE ctxDone
        BY <1>3, <2>1, <2>2, CancelSimulated DEF ServeReturns
    <2>3. CASE ~ctxDone
        <3>1. Goto(s, "top") /\ UNCHANGED result
            BY <1>3, <2>3 DEF ServeReturns, runVars
        <3>2. Links' = Links
            BY <1>0, <2>1, <3>1, MovesNot
        <3> QED
            BY <2>1, <3>1, <3>2 DEF Contract!vars, Links, Given
    <2> QED
        BY <2>2, <2>3
<1>4. CASE SessionLost(s) \/ CtxCloses(s) \/ \E t \in Streams : StreamOpens(s, t) \/ Accept(s, t)
    BY <1>1, <1>4 DEF SessionLost, CtxCloses, StreamOpens, Accept, runVars, holdVars
<1> QED
    BY <1>2, <1>3, <1>4 DEF Serve, Drained, DrainExpires

\* Whatever Run and the slots do, in whatever order, is what ManagerRun allows, for any
\* number of slots and streams: Run never returns an error that another dial could mend.
THEOREM RunImplemented == Spec => ImplementsRun
<1>1. Init => Contract!Init
    <2> SUFFICES ASSUME Init PROVE Contract!Init
        OBVIOUS
    <2>1. [s \in Slots |-> LinkOf(s)] = [s \in Slots |-> "down"]
        BY DEF Init, LinkOf
    <2>2. Given = {}
        BY DEF Init, Given, Refused
    <2> QED
        BY <2>1, <2>2 DEF Init, Contract!Init
<1>2. IInv /\ [Next]_vars => [Contract!Next]_(Contract!vars)
    <2> SUFFICES ASSUME IInv, [Next]_vars PROVE [Contract!Next]_(Contract!vars)
        OBVIOUS
    <2>1. CASE CtxCancel
        <3>1. Contract!Cancel
            BY <2>1 DEF CtxCancel, Contract!Cancel, runVars, holdVars, LinkOf, Given
        <3> QED
            BY <3>1 DEF Contract!Next
    <2>2. CASE UNCHANGED vars
        BY <2>2, NothingSeen DEF vars, runVars, holdVars
    <2>3. ASSUME NEW t \in Streams, Handle(t) PROVE UNCHANGED Contract!vars
        BY <2>3, NothingSeen
        DEF Handle, Spawn, Attached, HandlerEnds, HandlerStep, runVars, holdVars
    <2> QED
        BY <2>1, <2>2, <2>3, RunSimulated, HoldSimulated, ServeSimulated DEF Next
<1> QED
    BY <1>1, <1>2, Invariance, PTL DEF Spec, ImplementsRun, Contract!Spec

=============================================================================
