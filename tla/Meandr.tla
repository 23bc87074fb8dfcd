------------------------------- MODULE Meandr -------------------------------
(***************************************************************************)
(* One run of "meandr tunnel" or "meandr pty", from its first statement to *)
(* its exit code (cmd/meandr/main.go, tunnel.go, pty.go).                  *)
(*                                                                         *)
(* The main goroutine loads the environment (EnvFetch), finds the token,   *)
(* expands the command (Expand), runs the tunnel and the program, stops    *)
(* them and then what is left in its container (ContainerRest).  Beside it *)
(* run the goroutine of mgr.Run, which Tunnel models in full, the          *)
(* program, which PtyProcess does, and the two of signalContext.           *)
(*                                                                         *)
(* Of the flags only what decides which steps are taken is kept.           *)
(***************************************************************************)
EXTENDS EnvFetch, Expand, ContainerRest

CONSTANTS
    Commands,   \* of "tunnel" and "pty"
    Environs,   \* environments it may be started in
    Loads,      \* sets of variables --env-url may have
    Args,       \* arguments of the command
    EnvToken,   \* the name of the variable that holds a token
    Secret,     \* a character that is in tokens only
    MaxSignals  \* bound: how many SIGINTs and SIGTERMs there are

ASSUME MeandrAssumption ==
    /\ Commands \subseteq {"tunnel", "pty"} /\ EnvToken \in Names
    /\ Environs \subseteq [Names -> Seq(Chars) \cup {Unset}]
    /\ Loads \subseteq [Names -> Seq(Chars) \cup {Unset}]
    /\ Args \subseteq Seq(Chars)
    /\ MaxSignals \in Nat

Without(s, c) == \A i \in DOMAIN s : s[i] # c

\* The token is in the variable meant for it, and nowhere else.
ASSUME SecretAssumption ==
    /\ Secret # "$" /\ \A a \in Args : Without(a, Secret)
    /\ \A env \in Environs \cup Loads, n \in Names \ {EnvToken} :
            env[n] # Unset => Without(env[n], Secret)

VARIABLES
    cmd,
    pc,         \* "begin", "parse", "fetch", "take", "find", "unset", "expand", "start",
                \* "select", "stop", "check", "grace", "await", "rest", "exit", "killed"
    err,        \* what the command returns: "none" yet, "nil", "usage", "nocred",
                \* "canceled", "refused" (by the service), "program" or "failed"
    code,       \* the exit code, 9 before there is one
    \* Signals, and signalContext.
    signals,    \* how many came
    handler,    \* "default" or "notify" (caught)
    caught,     \* one is on its way to the context
    \* mgr.Run.
    ran,        \* "off", "running", or what it returned: "nil", "canceled" or "refused"
    \* pty.Process.
    prog,       \* "none", "running", or how it ended: "ok", "fail" or "signal"
    exitErr,    \* p.err once p.done is closed: "none" before, "nil" or "program"
    stopping,   \* p.stopping
    sent        \* the last signal Stop sent: "none", "term" or "kill"

sigVars   == <<signals, handler, caught>>
progVars  == <<prog, exitErr, stopping, sent>>
besides   == <<sigVars, ran, progVars>>
ownVars   == <<cmd, pc, err, code, besides>>
envVars   == <<environ, loaded>>
parts     == <<envVars, argVars, fetchVars, restVars, ctxDone>>

vars == <<ownVars, parts>>

\* What most steps of the main goroutine leave alone.
staying == <<cmd, err, code, besides>>

NoVariables == [n \in Names |-> Unset]

Init ==
    /\ cmd \in Commands /\ pc = "begin" /\ err = "none" /\ code = 9
    /\ signals = 0 /\ handler = "default" /\ caught = FALSE /\ ctxDone = FALSE
    /\ ran = "off"
    /\ prog = "none" /\ exitErr = "none" /\ stopping = FALSE /\ sent = "none"
    /\ environ \in Environs /\ loaded = NoVariables
    /\ ExpandInit /\ FetchInit /\ RestInit

-----------------------------------------------------------------------------
(* prepare *)

Goto(label) == pc' = label

\* What a command returns with: its locals are gone, and its deferred calls are
\* made, of which stop takes the handler away and cancels the context.
Return(e) ==
    /\ Goto("rest") /\ err' = e
    /\ handler' = "default" /\ caught' = FALSE /\ ctxDone' = TRUE
    /\ ran' = "off" /\ exitErr' = "none" /\ stopping' = FALSE /\ sent' = "none"
    /\ prog' = "none" /\ loaded' = NoVariables
    /\ FetchTaken /\ ExpandTaken
    /\ UNCHANGED <<cmd, code, signals, environ, restVars>>

Begin ==
    /\ pc = "begin" /\ Goto("parse") /\ handler' = "notify"
    /\ UNCHANGED <<cmd, err, code, signals, caught, ran, progVars, parts>>

\* Bad flags, no --id, no command, or an unknown log level or format.
UsageError ==
    /\ pc = "parse" /\ Return("usage")

\* With --env-url or without.
Parsed ==
    /\ pc = "parse" /\ pc' \in {"fetch", "take"}
    /\ UNCHANGED <<staying, parts>>

Fetch ==
    /\ pc = "fetch" /\ Fetching
    /\ UNCHANGED <<ownVars, envVars, argVars, restVars>>

Loaded ==
    /\ pc = "fetch" /\ fetchPc = "loaded"
    /\ loaded' \in Loads /\ FetchTaken /\ Goto("take")
    /\ UNCHANGED <<staying, environ, argVars, restVars, ctxDone>>

NotLoaded ==
    /\ pc = "fetch" /\ fetchPc \in {"failed", "canceled"}
    /\ Return(fetchPc)

\* Of what strings.TrimSpace leaves, whether it is anything.
HasToken(env) ==
    env[EnvToken] # Unset /\ \E i \in DOMAIN env[EnvToken] : env[EnvToken][i] # " "

LeaveToken == UNCHANGED loaded          \* mutant: the token stays a variable
DropToken  == loaded' = [loaded EXCEPT ![EnvToken] = Unset]

TakeToken ==
    /\ pc = "take" /\ DropToken
    /\ Goto(IF HasToken(loaded) THEN "unset" ELSE "find")
    /\ UNCHANGED <<staying, environ, argVars, fetchVars, restVars, ctxDone>>

\* In the environment, or in the file: Credentials says what can be found there.
FindToken ==
    /\ pc = "find" /\ Goto("unset")
    /\ UNCHANGED <<staying, parts>>

\* There is none, or the file cannot be used.
NoToken ==
    /\ pc = "find" /\ ~HasToken(environ)
    /\ \E e \in {"nocred", "failed"} : Return(e)

UnsetToken == IF environ[EnvToken] \notin {Unset, <<>>}
              THEN environ' = [environ EXCEPT ![EnvToken] = Unset]
              ELSE UNCHANGED environ

ClearToken ==
    /\ pc = "unset" /\ UnsetToken /\ Goto("expand")
    /\ UNCHANGED <<staying, loaded, argVars, fetchVars, restVars, ctxDone>>

\* With --expand-env; one argument stands for all.
ExpandArg ==
    /\ pc = "expand" /\ UNCHANGED <<ownVars, fetchVars, restVars, ctxDone>>
    /\ \/ \E a \in Args : ExpandBegins(a)
       \/ ExpandStep

\* All are expanded, or --expand-env was not given.
Expanded ==
    /\ pc = "expand" /\ (argAt = 0 \/ ArgDone)
    /\ Goto("start")
    /\ UNCHANGED <<staying, parts>>

-----------------------------------------------------------------------------
(* runTunnel and runPTY *)

\* What prepare returned is handed over; the model has no more use for the arguments.
Start ==
    /\ pc = "start" /\ Goto("select") /\ ran' = "running"
    /\ prog' = IF cmd = "pty" THEN "running" ELSE "none"
    /\ ExpandTaken
    /\ UNCHANGED <<cmd, err, code, sigVars, exitErr, stopping, sent, envVars,
                   fetchVars, restVars, ctxDone>>

StartFails == pc = "start" /\ cmd = "pty" /\ Return("failed")

Done == exitErr # "none"

\* The program exited.
SelectDone == pc = "select" /\ Done /\ Return(exitErr)

ReturnAtOnce(e)  == Return(e)           \* mutant: the program is not stopped
StopAndReturn(e) == Goto("stop") /\ err' = e /\ UNCHANGED <<cmd, code, besides, parts>>

\* mgr.Run returned.  runTunnel waits for nothing else.
SelectRan ==
    /\ pc = "select" /\ ran # "running"
    /\ \/ cmd = "tunnel" /\ Return(ran)
       \/ cmd = "pty" /\ StopAndReturn(ran)

SelectCtx ==
    /\ pc = "select" /\ cmd = "pty" /\ ctxDone
    /\ StopAndReturn("canceled")

StopStep(from, to) ==
    /\ pc = from /\ Goto(to)
    /\ UNCHANGED <<cmd, err, code, sigVars, ran, prog, exitErr, parts>>

StopBegins == StopStep("stop", "check") /\ stopping' = TRUE /\ UNCHANGED sent
StopTerm   == ~Done /\ StopStep("check", "grace") /\ sent' = "term" /\ UNCHANGED stopping
StopKill   == ~Done /\ StopStep("grace", "await") /\ sent' = "kill" /\ UNCHANGED stopping

StopReturns ==
    /\ pc \in {"check", "grace", "await"} /\ Done
    /\ Return(err)

-----------------------------------------------------------------------------
(* main *)

Rest ==
    /\ pc = "rest" /\ StopRest
    /\ UNCHANGED <<ownVars, envVars, argVars, fetchVars, ctxDone>>

\* mutant: the program's own, which is -1 for one that died of a signal
ProgramsCode(e) == IF e = "program" THEN -1 ELSE IF e \in {"nil", "canceled"} THEN 0 ELSE 1

CodeOf(e) ==
    CASE e = "nil" -> 0 [] e = "canceled" -> 0 [] e = "usage" -> 2 [] e = "nocred" -> 3
      [] OTHER -> 1

Exit ==
    /\ pc = "rest" /\ restPc = "done"
    /\ Goto("exit") /\ code' = CodeOf(err)
    /\ UNCHANGED <<cmd, err, besides, parts>>

Main ==
    \/ Begin \/ UsageError \/ Parsed \/ Fetch \/ Loaded \/ NotLoaded
    \/ TakeToken \/ FindToken \/ NoToken \/ ClearToken \/ ExpandArg \/ Expanded
    \/ Start \/ StartFails \/ SelectDone \/ SelectRan \/ SelectCtx
    \/ StopBegins \/ StopTerm \/ StopKill \/ StopReturns
    \/ Rest \/ Exit

-----------------------------------------------------------------------------
(* Beside it *)

Ended == pc \in {"exit", "killed"}

\* A SIGINT or a SIGTERM (external): caught, or the default action.
Signal ==
    /\ ~Ended /\ signals < MaxSignals /\ signals' = signals + 1
    /\ IF handler = "notify" THEN caught' = TRUE /\ UNCHANGED pc
                             ELSE Goto("killed") /\ UNCHANGED caught
    /\ UNCHANGED <<cmd, err, code, handler, ran, progVars, parts>>

\* The goroutine of signal.NotifyContext.
CtxCancel ==
    /\ caught /\ ~ctxDone /\ ctxDone' = TRUE
    /\ UNCHANGED <<ownVars, envVars, argVars, fetchVars, restVars>>

\* The AfterFunc.
HandlerGoes ==
    /\ ctxDone /\ handler = "notify" /\ handler' = "default"
    /\ UNCHANGED <<cmd, pc, err, code, signals, caught, ran, progVars, parts>>

\* mgr.Run: Tunnel says when (ManagerRun, which it implements, and StopEndsRun); its
\* nil is a refusal that came before Run's select.  Once main is on its way out nobody is
\* there to take its error.
ManagerReturns(e) ==
    /\ pc = "select" /\ ran = "running" /\ (e = "canceled" => ctxDone) /\ ran' = e
    /\ UNCHANGED <<cmd, pc, err, code, sigVars, progVars, parts>>

\* The program (external).
ProgExits(how) ==
    /\ ~Ended /\ prog = "running" /\ prog' = how
    /\ UNCHANGED <<cmd, pc, err, code, sigVars, ran, exitErr, stopping, sent,
                   parts>>

SignalsAreOurs(how, stop) ==            \* mutant: any signal is taken for Stop's
    IF how \in {"ok", "signal"} \/ stop THEN "nil" ELSE "program"
ExitError(how, stop) == IF how = "ok" \/ stop THEN "nil" ELSE "program"

\* wait: the error is judged, and p.done closed.
Reaped ==
    /\ ~Ended /\ prog \in {"ok", "fail", "signal"} /\ ~Done
    /\ exitErr' = ExitError(prog, stopping)
    /\ UNCHANGED <<cmd, pc, err, code, sigVars, ran, prog, stopping, sent,
                   parts>>

Others ==
    /\ ~Ended /\ OtherProcs
    /\ UNCHANGED <<ownVars, envVars, argVars, fetchVars, ctxDone>>

Beside ==
    \/ Signal \/ CtxCancel \/ HandlerGoes \/ Reaped \/ Others
    \/ \E e \in {"nil", "canceled", "refused"} : ManagerReturns(e)
    \/ \E how \in {"ok", "fail", "signal"} : ProgExits(how)

Next == Main \/ Beside

Spec == Init /\ [][Next]_vars

(***************************************************************************)
(* Fairness.  The goroutines go on and timers fire; the clock does not     *)
(* stand still through every attempt and every wait of Fetch; mgr.Run ends *)
(* when its context does (Tunnel, StopEndsRun); a program that was sent    *)
(* SIGKILL dies.  Neither the program nor the service need do anything.    *)
(***************************************************************************)
TimePasses == Fetch /\ elapsed' > elapsed
Killed     == sent = "kill" /\ \E how \in {"ok", "fail", "signal"} : ProgExits(how)
WaitOver   == ~Ended /\ WaitEnds /\ UNCHANGED <<ownVars, envVars, argVars, fetchVars, ctxDone>>

Fairness ==
    /\ WF_vars(Main) /\ SF_vars(TimePasses)
    /\ WF_vars(CtxCancel) /\ WF_vars(ManagerReturns("canceled"))
    /\ WF_vars(Killed) /\ WF_vars(Reaped) /\ WF_vars(WaitOver)

FairSpec == Spec /\ Fairness

-----------------------------------------------------------------------------
(* What it guarantees *)

Errors == {"nil", "usage", "nocred", "canceled", "refused", "program", "failed"}

MainType ==
    /\ cmd \in Commands
    /\ pc \in {"begin", "parse", "fetch", "take", "find", "unset", "expand", "start",
               "select", "stop", "check", "grace", "await", "rest", "exit", "killed"}
    /\ err \in Errors \cup {"none"} /\ code \in 0 .. 3 \cup {9}

BesideType ==
    /\ signals \in 0 .. MaxSignals /\ handler \in {"default", "notify"}
    /\ caught \in BOOLEAN /\ ctxDone \in BOOLEAN
    /\ ran \in {"off", "running", "nil", "canceled", "refused"}
    /\ prog \in {"none", "running", "ok", "fail", "signal"}
    /\ exitErr \in {"none", "nil", "program"}
    /\ stopping \in BOOLEAN /\ sent \in {"none", "term", "kill"}

\* Every variable has the values its declaration names.
TypeOK == MainType /\ BesideType /\ FetchType /\ RestType

\* What the command is given: a token in no variable, wherever the one in use came
\* from, and none expanded into its arguments.
SecretKept ==
    /\ pc \in {"start", "select", "stop", "check", "grace", "await"} =>
        ~HasToken(environ) /\ ~HasToken(loaded)
    /\ pc = "start" => Without(argOut, Secret)

Returns == pc # "rest" /\ pc' = "rest"

\* Of the exit codes: 0 is a signal's, or that of a program which ended with
\* status 0 by itself, and of no other failure than the refusal that mgr.Run itself
\* loses; a program that was stopped is no failure, and one that died of a signal
\* nobody here sent is.
ExitCodeTells ==
    [][Returns =>
        /\ CodeOf(err') = 0 => signals > 0 \/ prog = "ok" \/ ran = "nil"
        /\ CodeOf(err') = 1 /\ sent # "none" => ran = "refused"]_vars

\* pty's program does not outlive it: whichever of the three ends the select waits
\* for comes first, runPTY returns with the program reaped.
ProgramReaped == [][Returns /\ prog # "none" => Done]_vars

\* A signal ends it, whatever it is doing, and so does the exit of the program,
\* though the service keeps the tunnel: with a program that heeds no SIGTERM, an
\* --env-url that never answers and processes in its container that do not go.
EndsWhenDue == (signals > 0 \/ Done) ~> Ended

\* It comes to run the command, or it ends: whatever --env-url answers, and after
\* however many failures.
StartsOrEnds == pc = "parse" ~> pc = "select" \/ Ended

=============================================================================
