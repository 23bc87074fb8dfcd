---------------------------- MODULE ContainerRest ----------------------------
(***************************************************************************)
(* What meandr does last, as a container's first process: StopRest         *)
(* (internal/container/rest_linux.go).                                     *)
(*                                                                         *)
(* The other processes run beside it: they exit, and start others, between *)
(* any two of its steps; /proc is listed in one step and then read entry   *)
(* by entry, and any of this may fail.  Some of the processes may be those *)
(* of a user meandr may not signal.  A process is a member of a pool; its  *)
(* id is used once.  Time is not modelled: the wait may be over at any     *)
(* point.                                                                  *)
(***************************************************************************)
EXTENDS Naturals

CONSTANTS
    Procs,      \* processes besides PID 1 and meandr
    Mines       \* the sets of them that meandr may be allowed to signal

ASSUME MineAssumption == Mines \subseteq SUBSET Procs

VARIABLES
    role,       \* "unknown" until first() looks: "pid1", "initchild" (of one of inits),
                \* "hostchild" (of another PID 1) or "child" (of some other process)
    restPc,     \* "idle", "list", "read", "term", "loop", "reap", "kill", "done"
    polling,    \* in the loop that waits, rather than before the SIGTERM
    waited,     \* the wait is over
    state,      \* each process: "none", "run", "zombie" or "gone"
    heard,      \* the last signal meandr sent it while it ran: "none", "term", "kill"
    mine,       \* the processes meandr may signal
    listed,     \* the entries of /proc when it was last listed, but those that
                \* could not be read
    unread,     \* those whose stat is still to be read
    others      \* those found to be left

restVars == <<role, restPc, polling, waited, state, heard, mine, listed, unread,
              others>>

RestInit ==
    /\ role = "unknown" /\ restPc = "idle" /\ polling = FALSE /\ waited = FALSE
    /\ state = [p \in Procs |-> "none"] /\ heard = [p \in Procs |-> "none"]
    /\ mine = {} /\ listed = {} /\ unread = {} /\ others = {}

-----------------------------------------------------------------------------
(* The other processes (external) *)

Live == {p \in Procs : state[p] = "run"}

RestAtWork == restPc \notin {"idle", "done"}

\* Its parent, or PID 1, may not have waited for it yet.
ProcExits(p) ==
    /\ RestAtWork /\ p \in Live
    /\ \E s \in {"zombie", "gone"} : state' = [state EXCEPT ![p] = s]
    /\ heard' = [heard EXCEPT ![p] = "none"]
    /\ UNCHANGED <<role, restPc, polling, waited, mine, listed, unread, others>>

ProcForks(p, q) ==
    /\ RestAtWork /\ p \in Live /\ heard[p] # "kill" /\ state[q] = "none"
    /\ state' = [state EXCEPT ![q] = "run"]
    /\ UNCHANGED <<role, restPc, polling, waited, heard, mine, listed, unread, others>>

WaitEnds ==
    /\ RestAtWork /\ polling /\ ~waited /\ waited' = TRUE
    /\ UNCHANGED <<role, restPc, polling, state, heard, mine, listed, unread, others>>

-----------------------------------------------------------------------------
(* stop *)

First(r) == r \in {"pid1", "initchild"}

\* What is left when meandr's own children have stopped is anybody's guess.  The
\* name of a PID 1 that cannot be read is not that of an init.
RestBegins ==
    /\ restPc = "idle"
    /\ role' \in {"pid1", "initchild", "hostchild", "child"}
    /\ state' \in [Procs -> {"none", "run", "zombie"}] /\ mine' \in Mines
    /\ \/ First(role') /\ restPc' = "list"
       \/ role' # "pid1" /\ restPc' = "done"
    /\ UNCHANGED <<polling, waited, heard, listed, unread, others>>

\* os.ReadDir of /proc: zombies have an entry too.  If it fails, what it got so far
\* is all there is.
List ==
    /\ restPc = "list" /\ restPc' = "read"
    /\ listed' \in SUBSET {p \in Procs : state[p] \in {"run", "zombie"}}
    /\ unread' = listed' /\ others' = {}
    /\ UNCHANGED <<role, polling, waited, state, heard, mine>>

\* A process that is gone, or a zombie, is not one of them.
Counts(p) == state[p] = "run"

\* The stat of one that runs may be unreadable too: it is passed over.
ReadStat(p) ==
    /\ restPc = "read" /\ p \in unread
    /\ unread' = unread \ {p}
    /\ \/ ~Counts(p) /\ UNCHANGED <<others, listed>>
       \/ Counts(p) /\ others' = others \cup {p} /\ UNCHANGED listed
       \/ Counts(p) /\ listed' = listed \ {p} /\ UNCHANGED others
    /\ UNCHANGED <<role, restPc, polling, waited, state, heard, mine>>

NobodyLeft == others = {}

\* sleep is where the loop goes on after 50 ms.
Look ==
    /\ restPc = "read" /\ unread = {}
    /\ restPc' = CASE NobodyLeft -> "done"
                   [] ~NobodyLeft /\ ~polling -> "term"
                   [] ~NobodyLeft /\ polling  -> "loop"
    /\ others' = {}
    /\ UNCHANGED <<role, polling, waited, state, heard, mine, listed, unread>>

\* kill(-1, sig) is one system call: it reaches at once everyone meandr may signal.
\* That it reached nobody is ignored.
SignalAll(sig) ==
    heard' = [p \in Procs |-> IF p \in Live \cap mine THEN sig ELSE heard[p]]

Terminate ==
    /\ restPc = "term" /\ restPc' = "loop" /\ polling' = TRUE
    /\ SignalAll("term")
    /\ UNCHANGED <<role, waited, state, mine, listed, unread, others>>

AsLongAsItTakes == "reap"               \* mutant: the wait has no end
AfterTheWait    == IF waited THEN "kill" ELSE "reap"

\* The condition of the for loop.
Loop ==
    /\ restPc = "loop" /\ restPc' = AfterTheWait
    /\ UNCHANGED <<role, polling, waited, state, heard, mine, listed, unread, others>>

\* Only PID 1 inherits orphans.  A zombie whose parent runs is not one.  What the last
\* look found is not kept.
Reap ==
    /\ restPc = "reap" /\ restPc' = "list" /\ listed' = {}
    /\ \E orphans \in SUBSET {p \in Procs : state[p] = "zombie"} :
        /\ role # "pid1" => orphans = {}
        /\ state' = [p \in Procs |-> IF p \in orphans THEN "gone" ELSE state[p]]
    /\ UNCHANGED <<role, polling, waited, heard, mine, unread, others>>

JustReturn == UNCHANGED heard           \* mutant: SIGTERM is all they get
KillAll    == SignalAll("kill")

Kill ==
    /\ restPc = "kill" /\ restPc' = "done"
    /\ KillAll
    /\ UNCHANGED <<role, polling, waited, state, mine, listed, unread, others>>

StopRest ==
    \/ RestBegins \/ List \/ Look \/ Terminate \/ Loop \/ Reap \/ Kill
    \/ \E p \in Procs : ReadStat(p)

OtherProcs ==
    \/ WaitEnds
    \/ \E p \in Procs : ProcExits(p) \/ \E q \in Procs : ProcForks(p, q)

-----------------------------------------------------------------------------
(* What it guarantees *)

RestType ==
    /\ role \in {"unknown", "pid1", "initchild", "hostchild", "child"}
    /\ restPc \in {"idle", "list", "read", "term", "loop", "reap", "kill", "done"}
    /\ polling \in BOOLEAN /\ waited \in BOOLEAN
    /\ state \in [Procs -> {"none", "run", "zombie", "gone"}]
    /\ heard \in [Procs -> {"none", "term", "kill"}]
    /\ mine \subseteq Procs
    /\ listed \subseteq Procs /\ unread \subseteq listed /\ others \subseteq Procs

\* Of the processes meandr may signal, one that outlives it in its container was sent
\* SIGKILL, or was not in what meandr could read of /proc in its last look around: it
\* came since, or a reading failed, which is taken for its end.  One that was read is
\* neither overlooked nor let off, though others exit, fork and turn zombies while
\* meandr reads, and though some hear no signal of meandr's.  Outside a container no
\* process hears anything, whatever is left.
LeftoversStopped ==
    /\ restPc = "done" /\ First(role) =>
        \A p \in Live \cap mine : heard[p] = "kill" \/ p \notin listed
    /\ role \in {"hostchild", "child"} => \A p \in Procs : heard[p] = "none"

=============================================================================
