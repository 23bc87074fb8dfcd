---------------------------- MODULE Meandr_proofs ----------------------------
(***************************************************************************)
(* Proofs about Meandr, for any arguments, variables, answers, times and   *)
(* processes.                                                              *)
(***************************************************************************)
EXTENDS Meandr, Expand_proofs

-----------------------------------------------------------------------------
(* ContainerRest: what every step of meandr and of the other processes keeps *)

\* meandr has looked who it is before it does anything to anybody.
RoleInv ==
    /\ restPc = "idle" <=> role = "unknown"
    /\ RestAtWork => First(role)
    /\ ~First(role) => \A p \in Procs : heard[p] = "none"

\* Of the processes listed, one that runs is still to be read, or was found.
LookInv ==
    /\ restPc = "idle" => listed = {}
    /\ restPc # "read" => unread = {}
    /\ \A p \in listed : state[p] # "none"
    /\ restPc = "read" => \A p \in listed : p \in unread \/ p \in others \/ p \notin Live

RestInv == RestType /\ RoleInv /\ LookInv /\ LeftoversStopped

LEMMA RestInitInv == RestInit => RestInv
BY DEF RestInit, RestInv, RestType, RoleInv, LookInv, LeftoversStopped, RestAtWork, First

\* A signal to all reaches whoever runs and may be signalled.
LEMMA SignalReaches ==
    ASSUME RestType, NEW sig \in {"term", "kill"}, SignalAll(sig)
    PROVE  /\ heard' \in [Procs -> {"none", "term", "kill"}]
           /\ \A p \in Live \cap mine : heard'[p] = sig
BY DEF RestType, SignalAll, Live

LEMMA RestKeeps == RestInv /\ StopRest => RestInv'
<1> SUFFICES ASSUME RestInv, StopRest PROVE RestInv'
    OBVIOUS
<1> USE DEF RestInv, RoleInv, LookInv, LeftoversStopped, RestAtWork, First, Live
<1>1. CASE RestBegins
    BY <1>1, MineAssumption DEF RestBegins, RestType
<1>2. CASE List
    BY <1>2 DEF List, RestType
<1>3. ASSUME NEW p \in Procs, ReadStat(p) PROVE RestInv'
    BY <1>3 DEF ReadStat, Counts, RestType
<1>4. CASE Look
    BY <1>4 DEF Look, NobodyLeft, RestType
<1>5. CASE Terminate
    BY <1>5, SignalReaches DEF Terminate, RestType
<1>6. CASE Loop
    BY <1>6 DEF Loop, AfterTheWait, RestType
<1>7. CASE Reap
    BY <1>7 DEF Reap, RestType
<1>8. CASE Kill
    BY <1>8, SignalReaches DEF Kill, KillAll, RestType
<1> QED
    BY <1>1, <1>2, <1>3, <1>4, <1>5, <1>6, <1>7, <1>8 DEF StopRest

\* Whatever the other processes do meanwhile.
LEMMA OthersKeep == RestInv /\ OtherProcs => RestInv'
<1> SUFFICES ASSUME RestInv, OtherProcs PROVE RestInv'
    OBVIOUS
<1> USE DEF RestInv, RoleInv, LookInv, LeftoversStopped, RestAtWork, First, Live
<1>1. CASE WaitEnds
    BY <1>1 DEF WaitEnds, RestType
<1>2. ASSUME NEW p \in Procs, ProcExits(p) PROVE RestInv'
    BY <1>2 DEF ProcExits, RestType
<1>3. ASSUME NEW p \in Procs, NEW q \in Procs, ProcForks(p, q) PROVE RestInv'
    BY <1>3 DEF ProcForks, RestType
<1> QED
    BY <1>1, <1>2, <1>3 DEF OtherProcs

LEMMA RestStays == RestInv /\ UNCHANGED restVars => RestInv'
BY DEF restVars, RestInv, RestType, RoleInv, LookInv, LeftoversStopped, RestAtWork, First, Live

\* What StopRest guarantees follows.
LEMMA RestSafe == RestInv => RestType /\ LeftoversStopped
BY DEF RestInv

-----------------------------------------------------------------------------
(* The inductive invariant *)

\* The context ends, and with it Fetch and mgr.Run, because of a signal, until the
\* command returns; the error Stop is called with says why; and a program that Stop
\* was not called for is judged by how it ended.
CallsInv ==
    /\ caught => signals > 0
    /\ ctxDone /\ pc \notin {"rest", "exit", "killed"} => signals > 0
    /\ ran = "canceled" => signals > 0
    /\ pc = "select" => ran # "off"
    /\ prog # "none" => cmd = "pty"
    /\ exitErr = "nil" => prog = "ok" \/ stopping
    /\ pc \notin {"grace", "await", "killed"} => sent = "none"
    /\ pc \notin {"check", "grace", "await", "killed"} => ~stopping
    /\ pc \in {"begin", "parse", "fetch", "take", "find", "unset", "expand", "start"} =>
        prog = "none"
    /\ pc \in {"stop", "check", "grace", "await"} =>
        (err = "canceled" /\ signals > 0) \/ (err \in {"nil", "refused"} /\ ran = err)

\* Where Fetch is, and what it knows of the time and of the context.
FetchInv ==
    /\ FetchType /\ PatienceHolds
    /\ fetchPc = "idle" => elapsed = 0 /\ answered = "none"
    /\ fetchPc \in {"ask", "inflight"} => elapsed < Patience + FetchCap
    /\ fetchPc = "canceled" \/ answered = "canceled" => ctxDone

\* From where on there is no token in the variables.
Commanded == {"expand", "start", "select", "stop", "check", "grace", "await"}

\* No variable but the token's has the secret.
Kept(env) == \A n \in Names \ {EnvToken} : env[n] # Unset => Without(env[n], Secret)

EnvInv ==
    /\ environ \in Variables /\ loaded \in Variables /\ Kept(environ) /\ Kept(loaded)
    /\ pc \in {"begin", "parse", "fetch", "find", "unset"} \cup Commanded =>
        loaded[EnvToken] = Unset
    /\ pc \in Commanded => environ[EnvToken] \in {Unset, <<>>}

ArgInv ==
    /\ arg \in Seq(Chars) /\ argOut \in Seq(Chars)
    /\ Without(arg, Secret) /\ Without(argOut, Secret)

\* The variables do not change while an argument is being expanded.
MeantInv ==
    /\ AsMeant
    /\ pc \notin {"expand", "start", "killed"} => argAt = 0

IInv ==
    /\ MainType /\ BesideType /\ CallsInv /\ FetchInv /\ EnvInv /\ ArgInv /\ MeantInv
    /\ RestInv

-----------------------------------------------------------------------------
(* Fetch *)

LEMMA BackoffBounded == \A n : FetchBackoff(n) \in 1 .. FetchCap
BY FetchAssumption DEF FetchBackoff, Capped

LEMMA FetchStep == FetchInv /\ Fetching => FetchInv'
<1> SUFFICES ASSUME FetchInv, Fetching PROVE FetchInv'
    OBVIOUS
<1> USE FetchAssumption DEF FetchInv, FetchType, PatienceHolds
<1>1. CASE FetchBegins \/ FetchRefusesURL \/ Ask
    BY <1>1 DEF FetchBegins, FetchRefusesURL, Ask, Retriable
<1>2. ASSUME NEW a \in FetchAnswers, NEW t \in 0 .. AttemptTimeout,
             fetchPc \in {"ask", "inflight"}, a = "canceled" => ctxDone, Answered(a, t)
      PROVE  FetchInv'
    <2>1. elapsed' \in Nat /\ elapsed' <= Patience + FetchCap + AttemptTimeout
        BY <1>2 DEF Answered
    <2>2. FetchBackoff(failures') \in 1 .. FetchCap
        BY BackoffBounded
    <2>3. fetchPc' \in {"loaded", "canceled", "failed", "sleep"}
        BY <1>2 DEF Answered
    <2>4. fetchPc' = "sleep" => elapsed' <= Patience
        BY <1>2 DEF Answered, OutOfPatience
    <2>5. fetchPc' = "failed" /\ a \in Retriable => elapsed' > Patience
        BY <1>2 DEF Answered, OutOfPatience, Retriable, Refusals
    <2>6. fetchPc' = "canceled" => ctxDone
        BY <1>2 DEF Answered
    <2> QED
        BY <1>2, <2>1, <2>2, <2>3, <2>4, <2>5, <2>6 DEF Answered, FetchBackoff
<1>3. CASE AskCanceled
    BY <1>2, <1>3 DEF AskCanceled, FetchAnswers, Retriable
<1>4. CASE AttemptEnds
    BY <1>2, <1>4 DEF AttemptEnds
<1>5. CASE FetchSleepEnds
    BY <1>5, BackoffBounded DEF FetchSleepEnds, SleptFor
<1>6. CASE FetchSleepCanceled
    BY <1>6 DEF FetchSleepCanceled
<1> QED
    BY <1>1, <1>3, <1>4, <1>5, <1>6 DEF Fetching

LEMMA FetchTakenKeeps == FetchTaken => FetchInv'
BY FetchAssumption DEF FetchTaken, FetchInv, FetchType, PatienceHolds, Retriable

\* The context does not come back.
LEMMA FetchStays == FetchInv /\ UNCHANGED fetchVars /\ (ctxDone => ctxDone') => FetchInv'
BY DEF fetchVars, FetchInv, FetchType, PatienceHolds, FetchBackoff

-----------------------------------------------------------------------------
(* Expand *)

LEMMA Single ==
    ASSUME NEW S, NEW x \in S, NEW c, x # c
    PROVE  <<x>> \in Seq(S) /\ Without(<<x>>, c)
BY DEF Without

LEMMA Joined ==
    ASSUME NEW s \in Seq(Chars), NEW r \in Seq(Chars), NEW c,
           Without(s, c), Without(r, c)
    PROVE  s \o r \in Seq(Chars) /\ Without(s \o r, c)
BY DEF Without

LEMMA ValueKept ==
    ASSUME EnvInv, pc \in Commanded, NEW n, Known(n)
    PROVE  Value(n) \in Seq(Chars) /\ Without(Value(n), Secret)
<1>1. n \in Names /\ Value(n) # Unset /\ Value(n) \in Seq(Chars) \cup {Unset}
    BY DEF Known, Value, EnvInv, Variables
<1>2. CASE n = EnvToken
    BY <1>1, <1>2 DEF Known, Value, EnvInv, Without
<1>3. CASE n # EnvToken
    BY <1>1, <1>3 DEF Value, EnvInv, Kept
<1> QED
    BY <1>1, <1>2, <1>3

LEMMA WriteKeeps ==
    ASSUME ArgInv, NEW s \in Seq(Chars), NEW k, Without(s, Secret), Write(s, k)
    PROVE  ArgInv'
BY Joined DEF Write, ArgInv

LEMMA ExpandKeeps == ArgInv /\ EnvInv /\ pc \in Commanded /\ ExpandStep => ArgInv'
<1> SUFFICES ASSUME ArgInv, EnvInv, pc \in Commanded, ExpandStep PROVE ArgInv'
    OBVIOUS
<1>1. <<"$">> \in Seq(Chars) /\ Without(<<"$">>, Secret)
    BY Single, SecretAssumption, ExpandAssumption
<1>2. CASE CopyChar
    <2>1. <<arg[argAt]>> \in Seq(Chars) /\ Without(<<arg[argAt]>>, Secret)
        BY <1>2 DEF CopyChar, Reading, ArgInv, Without
    <2> QED
        BY <1>2, <2>1, WriteKeeps DEF CopyChar
<1>3. CASE WriteDollar \/ LeaveDollar
    <2>1. CASE Write(<<"$">>, 2)
        BY <1>1, <2>1, WriteKeeps
    <2>2. CASE Write(<<"$">>, 1)
        BY <1>1, <2>2, WriteKeeps
    <2> QED
        BY <1>3, <2>1, <2>2 DEF WriteDollar, LeaveDollar
<1>4. CASE ExpandBraced
    BY <1>4, ValueKept, WriteKeeps DEF ExpandBraced, BracedKnown
<1>5. CASE ExpandBare
    BY <1>5, ValueKept, WriteKeeps DEF ExpandBare, BareKnown
<1> QED
    BY <1>2, <1>3, <1>4, <1>5 DEF ExpandStep

LEMMA ExpandTakenKeeps == ExpandTaken => ArgInv'
BY DEF ExpandTaken, ArgInv, Without

LEMMA TypedLoop == ArgInv /\ EnvInv => LoopType
BY DEF ArgInv, EnvInv, LoopType

\* The argument is done with, or there is none.
LEMMA MeantTaken == argAt' = 0 => MeantInv'
BY TakenMeans DEF MeantInv

LEMMA MeantIdle ==
    ASSUME MeantInv, pc \notin {"expand", "start", "killed"}, UNCHANGED argAt
    PROVE  MeantInv'
BY MeantTaken DEF MeantInv

LEMMA MeantStays ==
    ASSUME MeantInv, UNCHANGED <<argVars, envVars>>,
           pc \in {"expand", "start", "killed"} => pc' \in {"expand", "start", "killed"}
    PROVE  MeantInv'
BY MeansStays DEF MeantInv, argVars, envVars

LEMMA MeantExpanding ==
    ASSUME ArgInv, EnvInv, MeantInv, pc = "expand", pc' = "expand",
           ExpandStep \/ \E a \in Args : ExpandBegins(a)
    PROVE  MeantInv'
<1>1. LoopType
    BY TypedLoop
<1>2. AsMeant'
    BY <1>1, StepMeans, BeginMeans, MeandrAssumption DEF MeantInv
<1> QED
    BY <1>2 DEF MeantInv

-----------------------------------------------------------------------------
(* Steps of the main goroutine *)

\* All that is not about the parts above.
Control == MainType /\ BesideType /\ CallsInv

\* The steps that change nothing but the label, and what is not Control.
LEMMA GotoKeeps ==
    ASSUME Control, NEW l, Goto(l), UNCHANGED <<cmd, err, code, besides, ctxDone>>,
           l \in {"parse", "fetch", "take", "find", "unset", "expand", "start"},
           pc \in {"begin", "parse", "fetch", "take", "find", "unset", "expand"}
    PROVE  Control'
BY DEF Goto, Control, MainType, BesideType, CallsInv, besides, sigVars, progVars

LEMMA ReturnKeeps ==
    ASSUME IInv, NEW e \in Errors, Return(e)
    PROVE  IInv'
<1>1. MainType' /\ BesideType'
    BY DEF Return, Goto, IInv, MainType, BesideType, Errors
<1>2. CallsInv'
    BY DEF Return, Goto, IInv, CallsInv
<1>3. FetchInv' /\ ArgInv'
    BY FetchTakenKeeps, ExpandTakenKeeps DEF Return
<1>4. RestInv'
    BY RestStays DEF Return, IInv
<1>5. EnvInv'
    BY DEF Return, Goto, NoVariables, IInv, EnvInv, Variables, Kept, Commanded
<1>6. MeantInv'
    BY MeantTaken DEF Return, ExpandTaken
<1> QED
    BY <1>1, <1>2, <1>3, <1>4, <1>5, <1>6 DEF IInv

\* A step that leaves the parts alone and the environment where it needs no token.
LEMMA PartsStay ==
    ASSUME IInv, UNCHANGED parts, Control',
           pc' \in Commanded => pc \in Commanded,
           pc' \in {"begin", "parse", "fetch", "find", "unset"} =>
                pc \in {"begin", "parse", "fetch", "find", "unset"},
           pc \in {"expand", "start", "killed"} => pc' \in {"expand", "start", "killed"}
    PROVE  IInv'
<1>1. FetchInv' /\ RestInv'
    BY FetchStays, RestStays DEF parts, IInv
<1>2. ArgInv'
    BY DEF parts, argVars, IInv, ArgInv
<1>3. EnvInv'
    BY DEF parts, envVars, IInv, EnvInv, Commanded, Kept
<1>4. MeantInv'
    BY MeantStays DEF parts, IInv
<1> QED
    BY <1>1, <1>2, <1>3, <1>4 DEF Control, IInv

LEMMA PrepareStep ==
    IInv /\ (Begin \/ UsageError \/ Parsed \/ Fetch \/ Loaded \/ NotLoaded) => IInv'
<1> SUFFICES ASSUME IInv, Begin \/ UsageError \/ Parsed \/ Fetch \/ Loaded \/ NotLoaded
             PROVE  IInv'
    OBVIOUS
<1>0. Control
    BY DEF IInv, Control
<1>1. CASE Begin
    <2>1. Control'
        BY <1>1 DEF Begin, Goto, parts, progVars, IInv, Control, MainType, BesideType, CallsInv
    <2> QED
        BY <1>1, <2>1, PartsStay DEF Begin, Goto, Commanded
<1>2. CASE UsageError
    BY <1>2, ReturnKeeps DEF UsageError, Errors
<1>3. CASE Parsed
    <2>1. EnvInv'
        BY <1>3 DEF Parsed, parts, envVars, IInv, EnvInv, Commanded, Kept
    <2>2. Control'
        BY <1>0, <1>3, GotoKeeps DEF Parsed, staying, parts, Goto
    <2>3. FetchInv' /\ RestInv' /\ ArgInv'
        BY <1>3, FetchStays, RestStays DEF Parsed, parts, argVars, IInv, ArgInv
    <2>4. MeantInv'
        BY <1>3, MeantIdle DEF Parsed, parts, argVars, IInv
    <2> QED
        BY <2>1, <2>2, <2>3, <2>4 DEF Control, IInv
<1>4. CASE Fetch
    <2>1. UNCHANGED ctxDone
        BY <1>4 DEF Fetch, Fetching, FetchBegins, FetchRefusesURL, Ask, AskCanceled, AttemptEnds,
           Answered, FetchSleepEnds, SleptFor, FetchSleepCanceled
    <2>2. Control'
        BY <1>4, <2>1 DEF Fetch, ownVars, besides, sigVars, progVars, IInv, Control, MainType,
           BesideType, CallsInv
    <2>3. FetchInv'
        BY <1>4, FetchStep DEF Fetch, IInv
    <2>4. EnvInv' /\ ArgInv' /\ RestInv'
        BY <1>4, RestStays DEF Fetch, ownVars, envVars, argVars, IInv, EnvInv, ArgInv, Commanded,
           Kept
    <2>5. MeantInv'
        BY <1>4, MeantStays DEF Fetch, ownVars, IInv
    <2> QED
        BY <2>2, <2>3, <2>4, <2>5 DEF Control, IInv
<1>5. CASE Loaded
    <2>1. Control'
        BY <1>0, <1>5, GotoKeeps DEF Loaded, staying
    <2>2. EnvInv'
        BY <1>5, MeandrAssumption, SecretAssumption
        DEF Loaded, Goto, IInv, EnvInv, Variables, Kept, Commanded
    <2>3. FetchInv' /\ ArgInv' /\ RestInv'
        BY <1>5, FetchTakenKeeps, RestStays DEF Loaded, argVars, IInv, ArgInv
    <2>4. MeantInv'
        BY <1>5, MeantIdle DEF Loaded, argVars, IInv
    <2> QED
        BY <2>1, <2>2, <2>3, <2>4 DEF Control, IInv
<1>6. CASE NotLoaded
    BY <1>6, ReturnKeeps DEF NotLoaded, Errors
<1> QED
    BY <1>1, <1>2, <1>3, <1>4, <1>5, <1>6

LEMMA TokenStep ==
    IInv /\ (TakeToken \/ FindToken \/ NoToken \/ ClearToken \/ ExpandArg \/ Expanded) => IInv'
<1> SUFFICES ASSUME IInv,
                    TakeToken \/ FindToken \/ NoToken \/ ClearToken \/ ExpandArg \/ Expanded
             PROVE  IInv'
    OBVIOUS
<1>0. Control
    BY DEF IInv, Control
<1>1. CASE TakeToken
    <2>1. Control'
        BY <1>0, <1>1, GotoKeeps DEF TakeToken, staying
    <2>2. EnvInv'
        BY <1>1, MeandrAssumption
        DEF TakeToken, DropToken, Goto, IInv, EnvInv, Variables, Kept, Commanded
    <2>3. FetchInv' /\ ArgInv' /\ RestInv'
        BY <1>1, FetchStays, RestStays DEF TakeToken, argVars, IInv, ArgInv
    <2>4. MeantInv'
        BY <1>1, MeantIdle DEF TakeToken, argVars, IInv
    <2> QED
        BY <2>1, <2>2, <2>3, <2>4 DEF Control, IInv
<1>2. CASE FindToken
    <2>1. Control'
        BY <1>0, <1>2, GotoKeeps DEF FindToken, staying, parts
    <2> QED
        BY <1>2, <2>1, PartsStay DEF FindToken, Goto, Commanded
<1>3. CASE NoToken
    BY <1>3, ReturnKeeps DEF NoToken, Errors
<1>4. CASE ClearToken
    <2>1. Control'
        BY <1>0, <1>4, GotoKeeps DEF ClearToken, staying
    <2>2. EnvInv'
        BY <1>4, MeandrAssumption
        DEF ClearToken, UnsetToken, Goto, IInv, EnvInv, Variables, Kept, Commanded
    <2>3. FetchInv' /\ ArgInv' /\ RestInv'
        BY <1>4, FetchStays, RestStays DEF ClearToken, argVars, IInv, ArgInv
    <2>4. MeantInv'
        BY <1>4, MeantIdle DEF ClearToken, argVars, IInv
    <2> QED
        BY <2>1, <2>2, <2>3, <2>4 DEF Control, IInv
<1>5. CASE ExpandArg
    <2>1. UNCHANGED <<environ, loaded>>
        BY <1>5 DEF ExpandArg, ExpandBegins, ExpandStep, CopyChar, WriteDollar, ExpandBraced,
           ExpandBare, LeaveDollar, Write
    <2>2. Control' /\ EnvInv'
        BY <1>5, <2>1 DEF ExpandArg, ownVars, besides, sigVars, progVars, IInv, Control, MainType,
           BesideType, CallsInv, EnvInv, Commanded, Kept
    <2>3. FetchInv' /\ RestInv'
        BY <1>5, FetchStays, RestStays DEF ExpandArg, IInv
    <2>4. ArgInv'
        <3>1. ASSUME NEW a \in Args, ExpandBegins(a) PROVE ArgInv'
            BY <3>1, MeandrAssumption, SecretAssumption DEF ExpandBegins, ArgInv, Without
        <3>2. CASE ExpandStep
            BY <1>5, <3>2, ExpandKeeps DEF ExpandArg, IInv, Commanded
        <3> QED
            BY <1>5, <3>1, <3>2 DEF ExpandArg
    <2>5. MeantInv'
        BY <1>5, MeantExpanding DEF ExpandArg, ownVars, IInv
    <2> QED
        BY <2>2, <2>3, <2>4, <2>5 DEF Control, IInv
<1>6. CASE Expanded
    <2>1. Control'
        BY <1>0, <1>6, GotoKeeps DEF Expanded, staying, parts
    <2> QED
        BY <1>6, <2>1, PartsStay DEF Expanded, Goto, Commanded
<1> QED
    BY <1>1, <1>2, <1>3, <1>4, <1>5, <1>6

LEMMA StopAndReturnKeeps ==
    ASSUME IInv, NEW e \in {"nil", "canceled", "refused"}, pc = "select", cmd = "pty",
           e = "canceled" => signals > 0, e # "canceled" => ran = e,
           StopAndReturn(e)
    PROVE  IInv'
<1>1. Control'
    BY DEF StopAndReturn, Goto, besides, sigVars, progVars, parts, IInv, Control, MainType,
       BesideType, CallsInv, Errors
<1> QED
    BY <1>1, PartsStay DEF StopAndReturn, Goto, Commanded

LEMMA RunStep ==
    IInv /\ (Start \/ StartFails \/ SelectDone \/ SelectRan \/ SelectCtx) => IInv'
<1> SUFFICES ASSUME IInv, Start \/ StartFails \/ SelectDone \/ SelectRan \/ SelectCtx
             PROVE  IInv'
    OBVIOUS
<1>1. CASE Start
    <2>1. Control'
        BY <1>1 DEF Start, Goto, sigVars, IInv, Control, MainType, BesideType, CallsInv
    <2>2. FetchInv' /\ ArgInv' /\ RestInv'
        BY <1>1, FetchStays, ExpandTakenKeeps, RestStays DEF Start, IInv
    <2>3. EnvInv'
        BY <1>1 DEF Start, Goto, envVars, IInv, EnvInv, Kept, Commanded
    <2>4. MeantInv'
        BY <1>1, MeantTaken DEF Start, ExpandTaken, IInv
    <2> QED
        BY <2>1, <2>2, <2>3, <2>4 DEF Control, IInv
<1>2. CASE StartFails
    BY <1>2, ReturnKeeps DEF StartFails, Errors
<1>3. CASE SelectDone
    BY <1>3, ReturnKeeps DEF SelectDone, Done, IInv, BesideType, Errors
<1>5. CASE SelectRan
    <2>1. ran \in {"nil", "canceled", "refused"} /\ ran \in Errors
        BY <1>5 DEF SelectRan, IInv, BesideType, CallsInv, Errors
    <2>2. CASE cmd = "tunnel" /\ Return(ran)
        BY <2>1, <2>2, ReturnKeeps
    <2>3. CASE cmd = "pty" /\ StopAndReturn(ran)
        <3>1. pc = "select" /\ (ran = "canceled" => signals > 0)
            BY <1>5 DEF SelectRan, IInv, CallsInv
        <3> QED
            BY <2>1, <2>3, <3>1, StopAndReturnKeeps
    <2> QED
        BY <1>5, <2>2, <2>3 DEF SelectRan
<1>6. CASE SelectCtx
    <2>1. signals > 0
        BY <1>6 DEF SelectCtx, IInv, CallsInv
    <2> QED
        BY <1>6, <2>1, StopAndReturnKeeps DEF SelectCtx
<1> QED
    BY <1>1, <1>2, <1>3, <1>5, <1>6

LEMMA StopStepKeeps ==
    IInv /\ (StopBegins \/ StopTerm \/ StopKill \/ StopReturns) => IInv'
<1> SUFFICES ASSUME IInv, StopBegins \/ StopTerm \/ StopKill \/ StopReturns PROVE IInv'
    OBVIOUS
<1>1. CASE StopBegins \/ StopTerm \/ StopKill
    <2>1. MainType' /\ BesideType'
        BY <1>1 DEF StopBegins, StopTerm, StopKill, StopStep, Goto, sigVars, parts, IInv, MainType,
           BesideType
    <2>2. CallsInv'
        BY <1>1 DEF StopBegins, StopTerm, StopKill, StopStep, Goto, sigVars, parts, IInv, CallsInv
    <2>3. /\ UNCHANGED parts /\ pc \in {"stop", "check", "grace"}
          /\ pc' \in {"check", "grace", "await"}
        BY <1>1 DEF StopBegins, StopTerm, StopKill, StopStep, Goto
    <2> QED
        BY <2>1, <2>2, <2>3, PartsStay DEF Commanded, Control
<1>2. CASE StopReturns
    BY <1>2, ReturnKeeps DEF StopReturns, IInv, CallsInv, Errors
<1> QED
    BY <1>1, <1>2

LEMMA MainStep == IInv /\ (Rest \/ Exit) => IInv'
<1> SUFFICES ASSUME IInv, Rest \/ Exit PROVE IInv'
    OBVIOUS
<1>1. CASE Rest
    <2>1. Control'
        BY <1>1 DEF Rest, ownVars, besides, sigVars, progVars, IInv, Control, MainType,
           BesideType, CallsInv
    <2>2. FetchInv' /\ RestInv'
        BY <1>1, FetchStays, RestKeeps DEF Rest, IInv
    <2>3. EnvInv' /\ ArgInv'
        BY <1>1 DEF Rest, ownVars, envVars, argVars, IInv, EnvInv, ArgInv, Commanded, Kept
    <2>4. MeantInv'
        BY <1>1, MeantStays DEF Rest, ownVars, IInv
    <2> QED
        BY <2>1, <2>2, <2>3, <2>4 DEF Control, IInv
<1>2. CASE Exit
    <2>1. CodeOf(err) \in 0 .. 3
        BY DEF CodeOf
    <2>2. Control'
        BY <1>2, <2>1 DEF Exit, Goto, parts, besides, sigVars, progVars, IInv, Control, MainType,
           BesideType, CallsInv
    <2> QED
        BY <1>2, <2>2, PartsStay DEF Exit, Goto, Commanded
<1> QED
    BY <1>1, <1>2

-----------------------------------------------------------------------------
(* Steps beside it *)

LEMMA BesideStep == IInv /\ Beside => IInv'
<1> SUFFICES ASSUME IInv, Beside PROVE IInv'
    OBVIOUS
<1>1. CASE Signal
    <2>1. Control'
        <3>1. MainType' /\ signals' \in 1 .. MaxSignals
            BY <1>1, MeandrAssumption DEF Signal, Goto, IInv, MainType, BesideType
        <3>2. BesideType'
            <4>1. caught' \in BOOLEAN
                BY <1>1, Zenon DEF Signal, IInv, BesideType
            <4> QED
                BY <1>1, <3>1, <4>1 DEF Signal, parts, progVars, IInv, BesideType
        <3>3. CallsInv'
            BY <1>1, <3>1 DEF Signal, Goto, parts, progVars, IInv, CallsInv
        <3> QED
            BY <3>1, <3>2, <3>3 DEF Control
    <2>2. pc' = pc \/ pc' = "killed"
        BY <1>1 DEF Signal, Goto
    <2> QED
        BY <1>1, <2>1, <2>2, PartsStay DEF Signal, Commanded
<1>2. CASE CtxCancel
    <2>1. Control'
        BY <1>2 DEF CtxCancel, ownVars, besides, sigVars, progVars, IInv, Control, MainType,
           BesideType, CallsInv
    <2>2. FetchInv' /\ RestInv'
        BY <1>2, FetchStays, RestStays DEF CtxCancel, IInv
    <2>3. EnvInv' /\ ArgInv'
        BY <1>2 DEF CtxCancel, ownVars, envVars, argVars, IInv, EnvInv, ArgInv, Commanded, Kept
    <2>4. MeantInv'
        BY <1>2, MeantStays DEF CtxCancel, ownVars, IInv
    <2> QED
        BY <2>1, <2>2, <2>3, <2>4 DEF Control, IInv
<1>3. CASE HandlerGoes
    <2>1. Control'
        BY <1>3 DEF HandlerGoes, parts, progVars, IInv, Control, MainType, BesideType, CallsInv
    <2> QED
        BY <1>3, <2>1, PartsStay DEF HandlerGoes
<1>4. CASE Reaped
    <2>1. Control'
        BY <1>4 DEF Reaped, ExitError, parts, sigVars, IInv, Control, MainType, BesideType, CallsInv
    <2> QED
        BY <1>4, <2>1, PartsStay DEF Reaped
<1>5. CASE Others
    <2>1. Control'
        BY <1>5 DEF Others, ownVars, besides, sigVars, progVars, IInv, Control, MainType,
           BesideType, CallsInv
    <2>2. FetchInv' /\ RestInv'
        BY <1>5, FetchStays, OthersKeep DEF Others, IInv
    <2>3. EnvInv' /\ ArgInv'
        BY <1>5 DEF Others, ownVars, envVars, argVars, IInv, EnvInv, ArgInv, Commanded, Kept
    <2>4. MeantInv'
        BY <1>5, MeantStays DEF Others, ownVars, IInv
    <2> QED
        BY <2>1, <2>2, <2>3, <2>4 DEF Control, IInv
<1>6. ASSUME NEW e \in {"nil", "canceled", "refused"}, ManagerReturns(e) PROVE IInv'
    <2>1. Control'
        BY <1>6 DEF ManagerReturns, parts, sigVars, progVars, IInv, Control, MainType, BesideType,
           CallsInv
    <2> QED
        BY <1>6, <2>1, PartsStay DEF ManagerReturns
<1>7. ASSUME NEW how \in {"ok", "fail", "signal"}, ProgExits(how) PROVE IInv'
    <2>1. Control'
        BY <1>7 DEF ProgExits, parts, sigVars, IInv, Control, MainType, BesideType, CallsInv
    <2> QED
        BY <1>7, <2>1, PartsStay DEF ProgExits
<1> QED
    BY <1>1, <1>2, <1>3, <1>4, <1>5, <1>6, <1>7 DEF Beside

LEMMA InitIInv == Init => IInv
<1> SUFFICES ASSUME Init PROVE IInv
    OBVIOUS
<1>1. MainType /\ BesideType /\ CallsInv
    <2>1. caught \in BOOLEAN /\ ctxDone \in BOOLEAN /\ stopping \in BOOLEAN
        BY Zenon DEF Init
    <2> QED
        BY <2>1, MeandrAssumption DEF Init, MainType, BesideType, CallsInv
<1>2. FetchInv
    BY FetchAssumption DEF Init, FetchInit, FetchInv, FetchType, PatienceHolds, Retriable
<1>3. EnvInv
    BY MeandrAssumption, SecretAssumption
    DEF Init, NoVariables, EnvInv, Variables, Kept, Commanded
<1>4. ArgInv
    BY DEF Init, ExpandInit, ArgInv, Without
<1>5. MeantInv
    BY DEF Init, ExpandInit, MeantInv, AsMeant
<1>6. RestInv
    BY RestInitInv DEF Init
<1> QED
    BY <1>1, <1>2, <1>3, <1>4, <1>5, <1>6 DEF IInv

LEMMA NextIInv == IInv /\ [Next]_vars => IInv'
<1> SUFFICES ASSUME IInv, [Next]_vars PROVE IInv'
    OBVIOUS
<1>1. CASE UNCHANGED vars
    <2>1. Control'
        BY <1>1 DEF vars, ownVars, besides, sigVars, progVars, parts, IInv, Control, MainType,
           BesideType, CallsInv
    <2> QED
        BY <1>1, <2>1, PartsStay DEF vars, ownVars
<1>2. CASE Main
    BY <1>2, PrepareStep, TokenStep, RunStep, StopStepKeeps, MainStep DEF Main
<1> QED
    BY <1>1, <1>2, BesideStep DEF Next

LEMMA Invariance == Spec => []IInv
<1> HIDE DEF IInv
<1> QED
    BY InitIInv, NextIInv, PTL DEF Spec

-----------------------------------------------------------------------------
(* The theorems *)

\* Types.
THEOREM TypeCorrect == Spec => []TypeOK
<1>1. IInv => TypeOK
    BY DEF IInv, FetchInv, RestInv, TypeOK
<1> QED
    BY <1>1, Invariance, PTL

\* Fetch's deadline, and the range of every wait, for any times and any number of
\* failures.
THEOREM PatienceKept == Spec => []PatienceHolds
<1>1. IInv => PatienceHolds
    BY DEF IInv, FetchInv
<1> QED
    BY <1>1, Invariance, PTL

\* No token reaches the command, in a variable or in an argument.
THEOREM TokenKeptFromCommand == Spec => []SecretKept
<1>1. IInv => SecretKept
    <2> SUFFICES ASSUME IInv PROVE SecretKept
        OBVIOUS
    <2>1. ASSUME pc \in Commanded PROVE ~HasToken(environ) /\ ~HasToken(loaded)
        <3>1. environ[EnvToken] \in {Unset, <<>>} /\ loaded[EnvToken] = Unset
            BY <2>1 DEF IInv, EnvInv
        <3>2. DOMAIN environ[EnvToken] = {} \/ environ[EnvToken] = Unset
            BY <3>1
        <3> QED
            BY <3>1, <3>2 DEF HasToken
    <2>2. Without(argOut, Secret)
        BY DEF IInv, ArgInv
    <2> QED
        BY <2>1, <2>2 DEF SecretKept, Commanded
<1> QED
    BY <1>1, Invariance, PTL

\* The command gets each argument with every variable it refers to in its place, and
\* otherwise as it was, as the documentation says; for arguments, names and values of
\* any length.
THEOREM ArgumentsMeant == Spec => []ExpandsAsMeant
<1>1. IInv => ExpandsAsMeant
    BY TypedLoop, MeansSafe DEF IInv, MeantInv
<1> QED
    BY <1>1, Invariance, PTL

\* No process that meandr may signal, and whose entry it read in its last look around,
\* outlives it without a SIGKILL, for any number of processes that exit and start others
\* meanwhile, whichever of them it may signal and whichever readings of /proc fail.
THEOREM RestStopped == Spec => []LeftoversStopped
<1>1. IInv => LeftoversStopped
    BY RestSafe DEF IInv
<1> QED
    BY <1>1, Invariance, PTL

\* Which steps return, and with what.
LEMMA ReturnSteps ==
    ASSUME Next, Returns
    PROVE  \/ UsageError \/ NotLoaded \/ NoToken \/ StartFails \/ SelectDone \/ StopReturns
           \/ SelectRan
BY DEF Returns, Next, Main, Beside, Begin, Parsed, Fetch, Loaded, TakeToken, FindToken, ClearToken,
   ExpandArg, Expanded, Start, SelectCtx, StopAndReturn, StopBegins, StopTerm, StopKill, StopStep,
   Rest, Exit, Signal, CtxCancel, HandlerGoes, Reaped, Others, ManagerReturns, ProgExits, Goto,
   ownVars

\* The exit code, for every way a command may return.
THEOREM CodesTell == Spec => ExitCodeTells
<1>1. IInv /\ [Next]_vars =>
        [Returns =>
            /\ CodeOf(err') = 0 => signals > 0 \/ prog = "ok" \/ ran = "nil"
            /\ CodeOf(err') = 1 /\ sent # "none" => ran = "refused"]_vars
    <2> SUFFICES ASSUME IInv, Next, Returns
                 PROVE  /\ CodeOf(err') = 0 => signals > 0 \/ prog = "ok" \/ ran = "nil"
                        /\ CodeOf(err') = 1 /\ sent # "none" => ran = "refused"
        OBVIOUS
    <2>1. CASE UsageError \/ NoToken \/ StartFails
        <3>1. err' \in {"usage", "nocred", "failed"}
            BY <2>1 DEF UsageError, NoToken, StartFails, Return
        <3>2. sent = "none"
            BY <2>1 DEF UsageError, NoToken, StartFails, IInv, CallsInv
        <3> QED
            BY <3>1, <3>2 DEF CodeOf
    <2>2. CASE NotLoaded
        <3>1. err' = fetchPc /\ fetchPc \in {"failed", "canceled"} /\ sent = "none"
            BY <2>2 DEF NotLoaded, Return, IInv, CallsInv
        <3>2. fetchPc = "canceled" => signals > 0
            BY <2>2 DEF NotLoaded, IInv, FetchInv, CallsInv
        <3> QED
            BY <3>1, <3>2 DEF CodeOf
    <2>3. CASE SelectDone
        <3>1. err' = exitErr /\ sent = "none" /\ ~stopping
            BY <2>3 DEF SelectDone, Return, IInv, CallsInv
        <3>2. exitErr \in {"nil", "program"} /\ (exitErr = "nil" => prog = "ok")
            BY <2>3, <3>1 DEF SelectDone, Done, IInv, BesideType, CallsInv
        <3> QED
            BY <3>1, <3>2 DEF CodeOf
    <2>4. CASE SelectRan
        <3>1. err' = ran /\ sent = "none"
            BY <2>4 DEF SelectRan, Returns, StopAndReturn, Goto, Return, IInv, CallsInv
        <3>2. ran \in {"nil", "canceled", "refused"} /\ (ran = "canceled" => signals > 0)
            BY <2>4 DEF SelectRan, IInv, BesideType, CallsInv
        <3> QED
            BY <3>1, <3>2 DEF CodeOf
    <2>5. CASE StopReturns
        <3>1. err' = err
            BY <2>5 DEF StopReturns, Return
        <3>2. (err = "canceled" /\ signals > 0) \/ (err \in {"nil", "refused"} /\ ran = err)
            <4>1. pc \in {"check", "grace", "await"}
                BY <2>5 DEF StopReturns
            <4> QED
                BY <4>1 DEF IInv, CallsInv
        <3> QED
            BY <3>1, <3>2 DEF CodeOf
    <2> QED
        BY <2>1, <2>2, <2>3, <2>4, <2>5, ReturnSteps
<1> QED
    BY <1>1, Invariance, PTL DEF Spec, ExitCodeTells

\* runPTY returns with its program reaped.
THEOREM NoProgramLeft == Spec => ProgramReaped
<1>1. IInv /\ [Next]_vars => [Returns /\ prog # "none" => Done]_vars
    <2> SUFFICES ASSUME IInv, Next, Returns, prog # "none" PROVE Done
        OBVIOUS
    <2>1. CASE UsageError \/ NoToken \/ StartFails \/ NotLoaded
        BY <2>1 DEF UsageError, NoToken, StartFails, NotLoaded, IInv, CallsInv
    <2>2. CASE SelectDone \/ StopReturns
        BY <2>2 DEF SelectDone, StopReturns
    <2>3. CASE SelectRan
        BY <2>3 DEF SelectRan, Returns, StopAndReturn, Goto, IInv, CallsInv
    <2> QED
        BY <2>1, <2>2, <2>3, ReturnSteps
<1> QED
    BY <1>1, Invariance, PTL DEF Spec, ProgramReaped

=============================================================================
