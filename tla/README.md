# A model of meandr-cli

TLA+ modules for `meandr`, the client that connects a local MCP server, or a
program on a PTY, to the meandr service over one outbound tunnel. Paths below
are those of the repository, `internal/...` being `src/internal/...`.

## 1. The system

`meandr tunnel` and `meandr pty` share everything but what a stream is attached
to. The command line (`cmd/meandr`) resolves a token and hands over to
`tunnel.Manager`, which dials the service, upgrades the connection and runs
yamux on it as the server side. The service opens a stream when it needs the
program; every stream gets a handler, which attaches it to a `Child`: a new MCP
server process (`internal/stdio`), or one more session on the one PTY
(`internal/pty`). A context that ends on a signal goes through all of it.

| Component | State | Operations | Hard parts | Correct when | Module |
|---|---|---|---|---|---|
| PTY process `internal/pty/process.go` | program, viewers, queues, input lock, `done`, Stop's `once` | pump/broadcast, wait, join/Attach/leave, input and output loops, Stop | five kinds of goroutine, three locks and channels, peers that stop reading, an exit in the middle of anything | the PTY is always read; no session misses a read; every session hears of the exit; frames stay whole; Stop returns after the exit | `PtyProcess` |
| PTY frames and uploads `frame.go`, `upload.go` | one partial file per session | parse, startUpload, write, finish, abort | same names, a crash between two steps | a file is there whole or not at all | `PtyUpload` |
| stdio child `internal/stdio/child.go` | process, pipes, waitDone, Stop's `once` | Start, Attach (two relays), Stop, waiter, os/exec's watcher | relays, Wait and Stop in any order; servers that heed nothing; grandchildren | the session ends, nothing is left behind, output and failures are not lost | `StdioChild` |
| stderr tail `child.go` | last lines | Write, snapshot | a line in pieces, a line without end | bounded, and the last lines | not modelled |
| tunnel manager `internal/tunnel/manager.go` | slots, attempt, the channel of one error | Run, hold, backoff | retries, fatal errors, cancellation, select among ready cases | connected again and again; gives up only when refused | `Tunnel` |
| tunnel connection `internal/tunnel/conn.go` | yamux session, handlers, WaitGroup | Serve, handle, waitTimeout | streams accepted while it closes, handlers that do not end | waits for its handlers, but not for ever | `Tunnel` |
| dialler `internal/tunnel/dial.go` | none kept | Dial, statusToInfo | what is fatal, what is retried | see the manager | `Tunnel` (answers) |
| credentials `internal/config`, `configure.go` | the file, a temporary file per Store | Token, Store, load | writers and readers at once, a failure or a kill in Store, a file that changes between two looks | the file is whole; answers are ones it had; no token is left lying about; a Store alone keeps the others' entries | `Credentials` |
| environment `internal/envurl` | none kept | Fetch, once, backoff | retries against a deadline, a shift that overflows | ends in time; gives up what may mend no sooner | `EnvFetch`, `ExpBackoff` |
| expansion `cmd/meandr/expand.go` | none | expandArgs | indices moved by hand | agrees with its documentation | `Expand` |
| container `internal/container` | the processes left | StopRest | /proc read while processes come and go, reaping, a deadline | nothing is left that was there, as far as meandr may signal it and can read of it; nothing is signalled on a host | `ContainerRest` |
| command line `cmd/meandr` | contexts, environment, exit code | run, prepare, runTunnel, runPTY, signalContext | three events ready at once, a second signal, a token to be hidden | exit codes as documented; the program is reaped; a signal ends it; the command sees no token | `Meandr` |

Interaction: `hold` calls `Serve`, `Serve` starts handlers, a handler calls
`Spawn`, `Attach`, `Stop`; the context reaches `hold`'s sleep, `Serve`'s closer,
`os/exec` and the viewers; a stream's end reaches a child only through its two
copy loops; the exit of the PTY's program reaches `runPTY` through `Done`. `Meandr`
composes `EnvFetch`, `Expand` and `ContainerRest`, whose steps are those of its main
goroutine, and takes of `Tunnel` and `PtyProcess` what they are shown to promise;
`Tunnel` and `EnvFetch` share `ExpBackoff`.

## 2. Modules

### `PtyProcess` (internal/pty/process.go)

An action is what a goroutine does between two points where another can run: a
critical section of `p.mu`, a select, or one blocking call.

| Code | State | Actions |
|---|---|---|
| `pump`, `broadcast` | `pumpPc`, `nread`, `targets` (the snapshot), `stalled` | `PumpRead`, `PumpClose`, `Snapshot`, `Offer`, `Stalled` |
| `join`, `Attach`, `leave` | `viewers`, `attach`, `gone` | `Join`, `CtxEnd`, `CloseStream`, `Leave` |
| `viewer.output` | `outPc`, `out`, `last` | `OutputTake`, `OutputStop`, `OutputWritten`, `OutputFails` |
| `input`, `frameReader.next` | `attach`, `inMu`, `inBuf`, `lastIn` | `InputData`, `InputLock`, `InputWrite`, `InputWriteFails`, `InputBadFrame`, `InputEOF` |
| `wait`, `exitError` | `prog`, `err`, `done` | `Reap`, `Publish` |
| `Stop`, `Err` | `stopPc`, `killed` | `StopAsk` ... `StopReturn` |
| program, kernel, peer, context | `written`, `ttyHeld`, `stream`, `ctxDone` | `ProgWrite`, `ProgRead`, `Exit`, `TtyClose`, `PeerCloses`, `CtxCancel` |

The n-th read of the PTY, and its frame, is the number n. A typed frame reaches
the terminal in two halves. Go's select takes any ready case, so a viewer that
has ended may still be given frames, or not, with holes: what a viewer must
have is stated for those that have not ended. Timers are not timed: the stall
limit may fire as soon as it is set, and may lose to room in the queue.

### `PtyRelay` (what internal/pty promises)

The abstract specification of a PTY process, without queues, locks and goroutines:
a session that attaches at some read is handed the next one and the next one until
it ends; one that has ended may still be handed later ones, with holes, but none
again; the exit ends every session in one step. `PtyProcess` implements it
(`ImplementsRelay`): `session` is computed from `viewers`, `attach` and `gone`,
`shown` is what `output` took last, `exited` is `done`, and most steps of the
goroutines stutter.

### `PtyUpload` (internal/pty/upload.go, the file frames of `input`)

| Code | State | Actions |
|---|---|---|
| the frames of `input`, `startUpload`, `upload.write` | `pc`, `up`, `begun` | `FileFrame`, `FileData`, `Undo`, `BadFrame`, `InputData`, `InputWritten`, `InputEnds` |
| `finish`, `send` | `placed`, `told` | `Rename`, `RenameFails`, `Discard`, `FinishFailed`, `Answer`, `AnswerDropped` |
| the deferred `abort` | | `Abort` |
| the directory | `parts`, `part`, `file`, `orphans` | |
| `viewer.end` from elsewhere; a kill, or the return of main | `gone`, `crashes` | `ViewerEnds`, `Crash` |

A system call is a step, and each may fail if `Faults` has it; close and rename
are one, since only the rename can be seen. The bytes of a file are units that
name their upload. A partial file left by a crash stays, as in the code: `O_EXCL`
then refuses every later upload of that name (`FileFrame`, with `n` in `parts`).
Typed input matters here only in that it holds the loop: `InputData` is the wait for
the lock and the write to the PTY, `InputWritten` its end, which need not come.

### `UploadStore` (what internal/pty promises of pasted files)

The abstract specification of uploads, in which there are no partial files: a session
pastes one file at a time, of which so much is left; it is saved whole and in one step,
or has failed, and its answer says which; a paste ends without an answer only when its
session is gone or closes, or the cli ends. `PtyUpload` implements it
(`ImplementsStore`): `paste` is `up` without `part`, and its outcome is read from
`err` and `placed`.

### `StdioChild` (internal/stdio/child.go, the caller in internal/tunnel/conn.go)

| Code | State | Actions |
|---|---|---|
| the goroutine in `Start`, `cmd.Wait`, os/exec's `watchCtx` | `waitPc`, `waitErr`, `watch`, `outTimer`, `outR` | `Reap`, `WatchCancel`, `WatchKill`, `WatchEnds`, `WaitReturns`, `OutTimer` |
| `Stop`, `stop`, `reaped` | `stopPc`, `stdin` | `StopStarts`, `StopExited`, `StopExpired`, `StopNotReaped`, `StopTerminates`, `StopKills` |
| `Attach`, `handle` | `outPc`, `outErr`, `result`, `taken` | `OutRead` ... `OutStopped`, `AttachReturns`, `HandleReturns` |
| the goroutine in `Attach` | `inPc`, `inErr` | `InRead` ... `InStopped` |
| the server and one process it starts | `exit`, `helper`, `leaderSig`, `helperSig`, `wrote`, `inBuf` | `Spawn`, `ServerWrites`, `ServerReads`, `Exit`, `HelperExits` |
| yamux, `Serve`'s closer, the context | `stream`, `ctxDone` | `PeerCloses`, `ConnCloses`, `CtxCancel` |

`Stop` runs once, in whichever goroutine calls it first; the others wait until it is
through (`Stopped`), as callers of `sync.Once.Do` do. `cmd.Wait` is three steps, since
the leader is reaped long before its stderr is drained and `waitDone` filled.
`Unprompted` says whether the server may also exit of itself; without it, it exits only
on a closed stdin or a signal. os/exec is modelled from its use: `Cancel` is called when
the context is done before `Wait` takes the watcher's result, and `WaitDelay` later the
leader alone is killed. Bytes are counted. `Start`'s errors start nothing and leave
nothing, and are the handler's `Spawn` in `Tunnel`.

### `Tunnel` (internal/tunnel/manager.go, conn.go, the answers of dial.go)

| Code | State | Actions |
|---|---|---|
| `Manager.Run` | `run`, `fatal`, `result` | `RunParks`, `RunTakes`, `RunDone`, `Report` |
| `hold`, `sleepCtx`, `backoff`, `statusToInfo` | `pc`, `attempt`, `answer`, `wait` | `HoldTop`, `DialAccepted`, `DialRefused`, `DialFails`, `SleepEnds`, `SleepCanceled`, `SlotDone` |
| `Serve`, `waitTimeout` | `session`, `left` | `CtxCloses`, `Accept`, `AcceptFails`, `Drained`, `DrainExpires` |
| `handle` | `handler`, `owner` | `Spawn`, `Attached`, `HandlerEnds` |
| service and network | | `StreamOpens`, `SessionLost`, `CtxCancel` |

An error sent while Run waits in its select goes straight to it; one sent before
that stays in the channel, where select may prefer `done`. A handler's server
may end at any time and need not end at all: when it does is what the other two
modules are about. `left` keeps the handlers `Serve` has stopped waiting for. `Accept` fails
when the session is closed, and may fail on an open one as it answers a stream; what
follows is the same: `Serve` waits for its handlers and then closes the session.
`attempt` stops at `MaxAttempt`. The backoff is a shift of a signed integer of
`DurationBits` bits (`ExpBackoff`), which the instance makes small enough to overflow.
`noteAdvice` is left out: nothing reads what it writes.

### `Credentials` (internal/config/credentials.go, configure.go)

| Code | State | Actions |
|---|---|---|
| `runConfigure`, `Token` | `pc`, `kind`, `id`, `result` | `BeginStore`, `BeginToken` |
| `load` | `creds` | `Stat`, `ReadFile`, `LoadError` |
| `Store` | `temp`, `file` | `CreateTemp`, `ChmodFails`, `Write`, `Close`, `Rename`, `RenameFails` |
| the deferred `Remove` and its warning | `temp`, `warned` | `Remove` |
| a kill, the operator | | `Kill`, `OperatorChmods`, `OperatorRemoves` |

A file is its mode, whether it is blank, whole, junk or cut short, and the token of
each tunnel. A process stores a token of its own, so that a token tells who stored
it. `newer` and `answers` are history: what others stored since a Store loaded the
file, and what the file had during a Token call. A killed process leaves its temporary
file; nothing in the code ever removes that one.

### `EnvFetch`, `Expand`, `ContainerRest`, `Meandr` (cmd/meandr and what it calls)

| Code | State | Actions |
|---|---|---|
| `Fetch`, `once`, `backoff`, `sleepCtx` | `fetchPc`, `elapsed`, `failures`, `answered` | `FetchBegins`, `FetchRefusesURL`, `Ask`, `AskCanceled`, `AttemptEnds`, `FetchSleepEnds`, `FetchSleepCanceled` |
| `expand`, `environLookup` | `arg`, `argAt` (`i + 1`), `argOut` | `ExpandBegins`, `CopyChar`, `WriteDollar`, `ExpandBraced`, `ExpandBare`, `LeaveDollar` |
| `StopRest`, `stop`, `first`, `others`, `reapOrphans` | `role`, `restPc`, `polling`, `listed`, `unread`, `others` | `RestBegins`, `List`, `ReadStat`, `Look`, `Terminate`, `Loop`, `Reap`, `Kill` |
| the container's processes, the clock | `state`, `heard`, `mine`, `waited` | `ProcExits`, `ProcForks`, `WaitEnds` |
| `prepare`, `takeToken` | `pc`, `environ`, `loaded` | `UsageError`, `Parsed`, `Fetch`, `Loaded`, `NotLoaded`, `TakeToken`, `FindToken`, `NoToken`, `ClearToken`, `ExpandArg`, `Expanded` |
| `runTunnel`, `runPTY` | `pc`, `err`, `ran` | `Start`, `StartFails`, `SelectDone`, `SelectRan`, `SelectCtx` |
| `Process.Stop`, `wait`, `exitError` | `stopping`, `sent`, `prog`, `exitErr` | `StopBegins`, `StopTerm`, `StopKill`, `StopReturns`, `Reaped` |
| `signalContext` | `handler`, `caught`, `ctxDone` | `Begin`, `CtxCancel`, `HandlerGoes` |
| `run`, `main` | `err`, `code` | `Rest`, `Exit` |
| signals, `mgr.Run`, the program | `signals` | `Signal`, `ManagerReturns`, `ProgExits` |

`Return` is every `return` of the two commands: their locals go out of scope and
their deferred calls are made, so that from then on a signal kills. A signal that
comes while the handler is in place is on its way to the context (`caught`); a second
one does nothing more until `HandlerGoes`. Fetch's clock counts ticks. One argument
stands for all, which are expanded one by one. An entry of /proc is read one step
after another, and processes exit and fork between; ids are not used again. Only the
processes in `mine` can be signalled by meandr (kill(-1) leaves out those of another
user, and its error is dropped); the others hear nothing and keep it waiting. A listing
of /proc may be cut short or empty, and the stat of a process that runs unreadable, as
the code ignores both errors: `listed` is what could be read in the last look. `Return`
also cancels the context and removes the handler, in one step: a signal that comes
between the two is caught for a context that is over, and only fails to kill. Blank
tokens, which `TrimSpace` makes none, are in the instance.

### `StdioSession` (what internal/stdio promises) and `ManagerRun` (what Manager.Run does)

Two more abstract specifications. `StdioSession` is a session with a server seen
from its stream: its output is passed on in order, and its relay ends complete, cut
(others held stdout after the exit) or broken (by the peer); stdin is closed before
SIGTERM and that comes before SIGKILL, unless the context is done; Attach returns
when the server has been reaped, and its error is true of the exit. `StdioChild`
implements it (`ImplementsSession`): `told` is the leader's strongest signal, `relay`
is computed from `outPc` and `outErr`, `passed` is what the relay took; which
goroutine runs `Stop`, the timers and `waitDone` are gone.

`ManagerRun` has a link for each slot, down, up or over, the refusals so far, and what
Run returned: one of the refusals, the end of the context, or nothing for a
refusal, and this only if all links were over before. `Tunnel` implements it
(`ImplementsRun`): a link is up while its slot is in `Serve`; attempts, waits,
streams, handlers and the channel of one error are gone.

## 3. Checks

`MCPtyProcess`, `MCPtyUpload`, `MCStdioChild`, `MCTunnel`, `MCCredentials` and
`MCMeandr` instantiate the modules. Only runs where everything may come to an end
switch deadlock checking off.

| Run | Configuration | Properties | Shows |
|---|---|---|---|
| pty_output | `MCPtyOutput` | `TypeOK`, `NoGapWhileAttached`, `ImplementsRelay` | broadcast's snapshot, the queues and the stall limit lose no read of a session that has not ended; every step is one of `PtyRelay` or a stutter |
| pty_live | `MCPtyLive` | `PtyAlwaysRead`, `ReaderCatchesUp`, `EndedReturns` | a peer that stopped reading holds up neither the program nor the others, and is returned from once dropped |
| pty_end | `MCPtyEnd` | `FramesWhole`, `StopReturnsAfterExit`, `ExitEndsSessions`, `StopReturns` | frames stay whole; Stop returns, and after the exit; with a program that reads nothing and heeds nothing |
| pty_last_output | `MCPtyLastOutput` | `OutputShown` | *violated*: see 6 |
| pty_upload | `MCPtyUpload` | `TypeOK`, `FilesWhole`, `PartsOwned`, `ImplementsStore`, `GoneReturns` | uploads of the same names by two sessions, with failing calls and a crash; every step is one of `UploadStore` or a stutter |
| child_live | `MCChildLive` | `NoZombieLeft`, `OutputRelayed`, `ImplementsSession`, `StreamEndsSession`, `CancelEndsSession`, `ExitEndsSession`, `NoGoroutineLeft` | all orders of exit, hang-up, timers, signals; every end of one part ends the session; every step is one of `StdioSession` or a stutter |
| child_deaf | `MCChildDeaf` | `ClosingStreamStops` | *violated*: see 6 |
| child_wrapper | `MCChildWrapper` | `GroupStopped` | *violated*: see 6 |
| tunnel_serve | `MCTunnelServe` | `TypeOK`, `NothingLeftBehind`, `ImplementsRun`, `StopEndsRun`, `KeepsConnected` | retries, drains and shutdown of the one slot the commands use; a backoff that overflows; every step is one of `ManagerRun` or a stutter |
| tunnel_cancel | `MCTunnelCancel` | `CancelIsClean` | *violated*: see 6 |
| credentials | `MCCredentials` | `FileWhole`, `TokenAnswers`, `TempsGone`, `KeepsOthers` | three processes that store or look up, every call failing or cut short by a kill, an operator who changes the mode or removes the file |
| meandr | `MCMeandr` | `TypeOK`, `PatienceHolds`, `ExpandsAsMeant`, `SecretKept`, `LeftoversStopped`, `ExitCodeTells`, `ProgramReaped`, `EndsWhenDue`, `StartsOrEnds` | both commands from start to exit code, with two signals at any moment |

Bounds. Two sessions are enough for everything one session can do to another (hold the
pump, hold the input lock, join during the other's broadcast), and they are
interchangeable where no peer is singled out. A queue of one frame and three writes fill
the queue, stall it and drop it; 64 only puts this off. A stdin pipe of one write and a
stdout pipe of two are full after one or two steps. One helper, in the group or out of
it, stands for a grandchild that a signal reaches or not; `child_live` takes the one it
does not reach, and the leader of `child_wrapper` ends only when prompted, so that its
exit answers the closed stdin. Three streams on one slot are what can be offered,
starting and running at once. Two uploads of no bytes or two units, by one session or
two, meet under one name, follow each other and find what a crash has left. Six failures
in a row pass the cap of the backoff, and overflow a Duration of 7 bits. Three processes
and two tunnels let two Stores meet on one tunnel or on two while a Token reads, and a
third Store come between the two of the others. In `meandr`, the second signal meets
every step after the first; Fetch's deadline of three ticks leaves room for several
attempts and waits, and six failures overflow 6 bits; two processes let one fork the
other during any look, and one of them may be another user's; the arguments are all
strings of up to three of the characters that matter, longer ones with braces, and the
token's name in both forms, with a loaded value that looks like a reference to it. The
proofs below hold for every value of these.

Fairness. Goroutines that can run do (weak fairness on their actions, or on the select
they wait in; a write that waits for a program, or for a lock that such a write holds,
is none of these), timers fire, a process sent SIGKILL dies, a dial comes back by its
deadline, a mutex starves nobody (strong fairness of `InputLock`). A stream that has
been closed runs out of the data that was sent before (strong fairness of `InputEOF` and
`InEnds`, and of `InputEnds` in `PtyUpload`): yamux 0.1.2 keeps a stream this side has
closed readable until the peer closes it too or five minutes have passed. In `Meandr`,
Fetch's clock does not stand still through all attempts and waits (strong fairness of
`TimePasses`), mgr.Run ends once its context has (`StopEndsRun` of `Tunnel`), and the
wait of `StopRest` is over at some time. `Credentials` has no fairness: a process may be
killed at any step. No server, program, helper or peer is assumed to do anything, except
where a property says so: `Readers` in pty_live, and the premises
`WF_vars(ServerReads)`, `WF_vars(OutWritten)`, `WF_vars(InputWritten(s))` and
`SF_vars(... DialAccepted ...)` of the properties they stand in.

## 4. Proofs

`PtyProcess_proofs`, `PtyUpload_proofs`, `StdioChild_proofs`, `Tunnel_proofs`,
`Credentials_proofs`, `Meandr_proofs`, `Expand_proofs` and `Recursion_proofs` are
checked by TLAPS, for all values of the constants that satisfy the modules' assumptions.

* `PtyProcess_proofs`: `TypeCorrect`, `ExitSeenByAll`, `OutputContiguous`,
  `InputWhole`, `StopComplete`. None of the properties is inductive. `IInv` adds
  what the goroutines know of each other: `PumpInv` (there are targets only while
  the pump offers, and a read in hand was counted), `NewInv` (a session that has
  not joined is nowhere), `LockInv` (who writes holds the lock), `ExitInv` (reaped,
  then published, then returned). Each conjunct has its lemma, with a case per
  action; frame lemmas say what a goroutine leaves alone.
  `RelayImplemented` is the refinement of `PtyRelay`. Over `IInv` it needs
  `OutsideInv` (who has not joined or has returned is in no list of targets) and
  `RiseInv`: a session's queue rises, above the last read it took and up to the last
  one the pump has offered it. A queue that is contiguous only until the session ends
  rises for ever, which is what keeps `ShowRest` from going back.
* `PtyUpload_proofs`: `TypeCorrect`, `WholeOrNothing`, `AnswersTell`,
  `PartsHaveOwners`, `StoreImplemented`. `FilesWhole` is not inductive: `ContentInv`
  says that a partial file which may still be renamed holds exactly what its upload
  received, which needs `HoldInv` (nobody else writes to it, which is O_EXCL's doing)
  and `PlaceInv` (an upload that failed holds no partial file). `PastInv` and
  `MineInv` keep uploads apart from those that are over. The refinement of
  `UploadStore` needs of these that nothing has been placed of an upload which is
  still received or given up, and that one which is finished has no byte left.
* `StdioChild_proofs`: `TypeCorrect`, `ServerReaped`, `OutputComplete`,
  `SessionImplemented`. `StopInv` carries the value of `waitDone` from the waiter
  through Stop to Attach; `ErrInv` says that the value is the exit's; `DrainInv`
  that only the timer closes stdout, and that an end of file leaves no writer.
  The refinement of `StdioSession` needs two more: `TruthInv`, that what the relays and
  the waiter report happened (a copy broke because the stream did, a cut relay was
  closed after the reaping, a cancellation is reported only of one that came), and
  `ToldInv`, that whoever is about to signal the leader has been through the steps
  that come before.
* `Tunnel_proofs`: `TypeCorrect`, `RunImplemented`, `SecondsSuffice`, and
  `ServersDrained`, which assumes one slot. `TypeCorrect` includes that the argument of
  `rand.Int63n` is positive. `OwnInv` ties every handler that is still
  waited for to a slot that is in `Serve`; `RunInv` says that Run ends only after a
  hold has; `ErrorInv` that what is on its way to Run is a refusal a slot was given, or
  a cancellation; `OverInv` that Run returns nil only when there was such an error and
  all slots are over.
* `Credentials_proofs`: `TypeCorrect`, `NeverCutShort`, `AnswersHeld`,
  `NothingLyingAbout`, `OthersKept`. `TempInv` ties the temporary file to where Store
  is, `CredsInv` says that Store's map differs from the file only where the file has
  changed since (the premise of `KeepsOthers` at `Rename`), and `AnswersInv` that a
  Token call which found the file private may read what the file had then, though
  the mode has changed since.
* `Meandr_proofs`: `TypeCorrect`, `PatienceKept`, `TokenKeptFromCommand`,
  `ArgumentsMeant`, `RestStopped`, `CodesTell`, `NoProgramLeft`. `LookInv` says that
  of the processes listed, but those whose reading failed, each is still to be read, was
  found, or does not run.
  `FetchInv` bounds the clock by where Fetch is. `EnvInv` and `ArgInv` follow the
  token out of the variables, and keep its character out of what is written to the
  argument. `CallsInv` says what must have happened before the main goroutine is where
  it is. `SecretAssumption` is assumed: the token is in no other variable and in no
  argument to begin with. `MeantInv` is the loop invariant of expand, `AsMeant` of
  `Expand_proofs`, while an argument is expanded.
* `Expand_proofs`: `NoDollarNoChange`, `EveryTurnReads`, and the lemmas of
  `ArgumentsMeant`. `AsMeant` says that what is written, followed by the meaning of what
  is left, is the meaning of the argument; each of the loop's ways (`StepMeans` and
  the lemmas it rests on) keeps it.
* `Recursion_proofs`: `BackoffExact`, `NoShortWait`, and what lets the others reason
  about recursive functions. The library's induction theorems take an operator and
  cannot be used here, so `Least` proves that a non-empty set of naturals has a least
  element, from which follow induction over a set (`Induction`), and that a function
  defined by recursion on a length or a number exists and satisfies its equation
  (`Recursion`). `Meaning` of `Expand` and `Pow2` of `ExpBackoff` are such functions.
  What a shift leaves of a product c * 2^k that leaves the width is still a multiple of
  2^k: when c * cap fits, this is 0, negative or above the cap, and the wait is the
  cap as it would be in integers without a width. Both of the code's bases meet the
  condition (`NoShortWait`), which is why a model in seconds (`SecondsSuffice`) is one
  of a program in nanoseconds.

Proved and left out of the runs, since a property of a run says as much or more: the
types of `StdioChild` and `Credentials`, `DoneEndsEveryViewer`, which
`ImplementsRelay` contains, and `AnswersTrue`, which `ImplementsStore` does.

Every invariant, action property and refinement that a passing run checks is proved.
Only model-checked: everything that must eventually happen (the prover has no `ENABLED`,
on which fairness rests), which are `PtyAlwaysRead`, `ReaderCatchesUp`, `EndedReturns`,
`ExitEndsSessions`, `StopReturns`, `GoneReturns`, `StreamEndsSession`,
`CancelEndsSession`, `ExitEndsSession`, `NoGoroutineLeft`, `StopEndsRun`,
`KeepsConnected`, `EndsWhenDue` and `StartsOrEnds`; and the violated properties.

## 5. Not modelled

TLS, HTTP and yamux framing, log output, version strings, how `configure` reads its
answers from a terminal or a pipe, `install.sh`, the tests' edge server, and the
Windows and other stubs (no process groups, no PTY). In `PtyProcess`, window sizes,
and the answers to uploads that share a viewer's queue with its output. The lines of
stderr that a child keeps for a log message (`stderrTail`). Links and other users'
files in the storage directory, and a loss of power (no file is synced). Process ids
that are used again: signals go to the processes they were meant for. In
`Credentials`, an edit of the file in place by another program. In `Meandr`, the
flags beyond the steps they decide, and a clock that is set: Go's is monotonic.

## 6. Where code and documentation disagree

Shown by a run:

* pty_last_output: README.md:186-187, output "goes to all of them". `wait` ends every
  viewer when the program is reaped; what is still in the PTY, in a queue, or in
  the hands of a select that picks `v.gone` is not shown.
* child_deaf: README.md:155-156, "Closing the stream stops the process." While a
  write to the stdin of a server that does not read blocks, nobody reads the
  stream's end. A cancelled context does end such a session (`CancelEndsSession`).
* child_wrapper: README.md:167-168, wrappers "are still stopped cleanly". `stop`
  returns at child.go:226 when the wrapper exits on the stdin its peer's hang-up closed, and what it
  started in its group is not signalled.
* tunnel_cancel: main.go:147, exit code 0 for shutdown on a signal. A dial that is
  under way when the signal comes, and is refused, decides the exit code.

Met while modelling, each visible in the actions named, without a run:

* process.go:172-173 says that closing the stream unblocks both directions; an
  input loop in `p.master.Write`, or waiting for `p.inMu`, is not unblocked while the
  program reads nothing, and a partial file of its session stays with it (`InputLock`,
  `InputWrite`, the exception in `EndedReturns`; `InputWritten`, the premise of
  `GoneReturns`).
* child.go:253-255 says that `reaped` keeps a signal from a reused group; the
  leader is reaped before `waitDone` is filled (`Reap`, `WatchEnds`, `WaitReturns`).
* child.go:86-90 says that the relay drains stdout to its end; the AfterFunc of
  line 122 also closes it on a relay that is slow to write (`OutTimer`).
* child.go:331-332 takes every signalled exit to be its own doing (`ExitError`).
* dial.go:202 says of a 503 "retry at once"; `hold` waits for the backoff
  (`DialFails`).
* manager.go:76 says "redialling with backoff"; there is no wait after a connection
  that was accepted has ended (`ServeReturns`).
* manager.go:65-73: an error sent before Run has reached its select can lose to
  `done`, and Run returns nil (`RunDone`); a tunnel that was refused then ends with
  exit code 0, which main.go:148 gives a 1 (`ManagerReturns`, and the exception in
  `ExitCodeTells`).
* upload.go:49 says of abort that nothing of the upload stays; `runPTY` returns at
  pty.go:39 without waiting for the input loops, so that a partial file can stay, and
  with it every later upload of that name fails (`Crash`, `orphans`).
* main.go:147 and main.go:75, a signal is a clean exit: once that has the head of
  --env-url's answer and is reading its body when the signal comes, returns "the body
  is not a JSON object" whatever cut it short, and the exit code is 1 (`AttemptEnds`).
* main.go:122 says that --env-url is retried "for up to a minute": Fetch looks at the
  clock before a wait, and goes on for one wait and one attempt past its minute
  (`PatienceHolds` has the bound).
* credentials.go:65 says "keeping any others": of two Stores at once the later rename
  wins, and takes the other's entry with it (`KeepsOthers` has the exception).
* rest_linux.go:21-23 says that every process that is left is sent SIGTERM, then
  SIGKILL; a process that is started after /proc was listed by one that is gone when
  its entry is read is not noticed, and outlives meandr unsignalled. So does a process
  of another user, where meandr is not root: kill(-1) leaves it out (line 42) and its
  error is dropped (lines 43, 50). And where /proc cannot be listed, or a stat not be
  read (lines 68, 75-77), nobody is taken to be there (`List`, `ReadStat`, `SignalAll`;
  `LeftoversStopped` has the exceptions).
* manager.go:30 says that 0 follows the service's suggestion; `advice` is never read.

## 7. Plan

Done: `PtyProcess`, `StdioChild`, `Tunnel`, `PtyUpload`, the abstract `PtyRelay`,
`UploadStore`, `StdioSession` and `ManagerRun` and their refinements, `Credentials`,
`ExpBackoff`, `EnvFetch`, `Expand`, `ContainerRest` and their composition `Meandr`,
each with its proofs.

Left to prove, where the provers reach it:

1. `Credentials` against an abstract file on which a Token call looks once, in one step;
   it needs a choice of that moment, which `answers` now leaves open.
2. `Meandr` over `ManagerRun` itself, in place of the `ran` that is reduced from it.

Left to model, in this order, each small and with little to go wrong in it but the first:

1. resize in `PtyProcess`: the size the program has is the last one sent by anybody,
   and every size sent is signalled.
2. `StderrTail`: bounded, the last whole lines, against a reference over short inputs.
3. `configure`'s prompt and password, which read the same terminal one after the other.
