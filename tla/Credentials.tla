---------------------------- MODULE Credentials ----------------------------
(***************************************************************************)
(* The credentials file (internal/config/credentials.go): processes that   *)
(* run "meandr configure" (cmd/meandr/configure.go), which calls Store,    *)
(* and processes that look up a token, all on the same file.               *)
(*                                                                         *)
(* Each system call is a step, and may fail; a process may be killed       *)
(* between any two.  The operator changes the file's mode, or removes it.  *)
(* A renamed file is another file, so that whoever has the old one open    *)
(* reads the old one whole: reading is one step.                           *)
(*                                                                         *)
(* A process stores a token of its own, which its name stands for.         *)
(***************************************************************************)
EXTENDS Naturals

CONSTANTS
    Procs,      \* the processes
    Tunnels,    \* tunnel ids
    OldToken,   \* a token the file had before
    NoToken     \* a tunnel's token when there is none

ASSUME CredentialsAssumption == NoToken \notin Procs \cup {OldToken}

VARIABLES
    file,       \* a file at the path
    temp,       \* each process: its temporary file
    pc,         \* each process: "idle", "stat", "read", "create", "write", "close",
                \* "rename", "remove", "done" or "killed"
    kind,       \* each process: "store" or "token", what it was started to do
    id,         \* each process: the tunnel
    creds,      \* each process: creds.Tunnels
    result,     \* each process: "none" yet, "usage", "failed", "stored", "nocred" or a token
    warned,     \* those that could not remove their temporary file
    \* History.
    newer,      \* each Store: the tunnels whose entry changed since it loaded the file
    answers     \* each Token call: what the versions of the file since it began have for it

locals == <<kind, id, creds>>
vars   == <<file, temp, pc, locals, result, warned, newer, answers>>

-----------------------------------------------------------------------------
(* Files *)

Tokens   == Procs \cup {OldToken, NoToken}
NoTokens == [t \in Tunnels |-> NoToken]

\* A file is private (0600) or open to others, and blank, whole, junk or cut short.
Files  == [mode : {"none", "private", "open"}, body : {"blank", "whole", "junk", "part"},
           tokens : [Tunnels -> Tokens]]

File(mode, body, tokens) == [mode |-> mode, body |-> body, tokens |-> tokens]
NoFile == File("none", "blank", NoTokens)

OldFiles ==
    {NoFile}
    \cup {File(m, b, NoTokens) : m \in {"private", "open"}, b \in {"blank", "junk"}}
    \cup {File(m, "whole", ts) : m \in {"private", "open"},
                                 ts \in [Tunnels -> {OldToken, NoToken}]}

NeverRefused(f) == FALSE                 \* mutant: the permissions are not looked at
Refused(f) == f.mode = "open"

\* What Token makes of a file, were it to look at it in one step.
Answer(f, t) ==
    CASE f.mode = "open" \/ f.body \in {"junk", "part"} -> "failed"
      [] f.mode # "open" /\ f.body \in {"blank", "whole"} ->
            IF f.tokens[t] = NoToken THEN "nocred" ELSE f.tokens[t]

-----------------------------------------------------------------------------

Init ==
    /\ file \in OldFiles /\ temp = [p \in Procs |-> NoFile]
    /\ pc = [p \in Procs |-> "idle"]
    /\ kind \in [Procs -> {"store", "token"}] /\ id \in [Procs -> Tunnels]
    /\ creds = [p \in Procs |-> NoTokens] /\ result = [p \in Procs |-> "none"]
    /\ warned = {}
    /\ newer = [p \in Procs |-> {}] /\ answers = [p \in Procs |-> {}]

Goto(p, label) == pc' = [pc EXCEPT ![p] = label]
Result(p, r)   == result' = [result EXCEPT ![p] = r]

Return(p, r) == Goto(p, "done") /\ Result(p, r)

Storing(p) == pc[p] \in {"create", "write", "close", "rename"}
Looking(p) == kind[p] = "token" /\ pc[p] \in {"stat", "read"}

\* A file takes the place of the one at the path, and history of it.
Replace(f) ==
    /\ file' = f
    /\ newer' = [p \in Procs |->
                    IF Storing(p) THEN newer[p] \cup {t \in Tunnels : f.tokens[t] # file.tokens[t]}
                                  ELSE newer[p]]
    /\ answers' = [p \in Procs |-> IF Looking(p) THEN answers[p] \cup {Answer(f, id[p])}
                                                ELSE answers[p]]

KeepFiles  == UNCHANGED <<file, temp, warned, answers>>
KeepLocals == UNCHANGED <<locals, newer>>

\* configure has its flags, and the id and the token it asks for, or has not;
\* then Path and MkdirAll.
BeginStore(p) ==
    /\ pc[p] = "idle" /\ kind[p] = "store"
    /\ \/ Goto(p, "stat") /\ UNCHANGED result
       \/ \E r \in {"usage", "failed"} : Return(p, r)
    /\ KeepFiles /\ KeepLocals

\* Token, without one in the environment; Path.
BeginToken(p) ==
    /\ pc[p] = "idle" /\ kind[p] = "token"
    /\ \/ Goto(p, "stat") /\ UNCHANGED result
       \/ Return(p, "failed")
    /\ answers' = [answers EXCEPT ![p] = {Answer(file, id[p])}]
    /\ UNCHANGED <<file, temp, warned>> /\ KeepLocals

-----------------------------------------------------------------------------
(* load *)

Found(ts, p) == IF ts[id[p]] = NoToken THEN "nocred" ELSE ts[id[p]]

\* load returns, and the caller goes on.
Load(p, ts) ==
    /\ creds' = [creds EXCEPT ![p] = IF kind[p] = "store" THEN [ts EXCEPT ![id[p]] = p] ELSE ts]
    /\ newer' = [newer EXCEPT ![p] = {}]
    /\ IF kind[p] = "store" THEN Goto(p, "create") /\ UNCHANGED result
                            ELSE Return(p, Found(ts, p))
    /\ UNCHANGED <<kind, id>>

StoreAnyway(p) == IF kind[p] = "store" THEN Load(p, NoTokens)    \* mutant: Store starts afresh
                                       ELSE Return(p, "failed") /\ KeepLocals
LoadFails(p) == Return(p, "failed") /\ KeepLocals

\* Store takes a file that has gone for one that was never there; Token does not.
LoadMissing(p) == IF kind[p] = "store" THEN Load(p, NoTokens) ELSE LoadFails(p)

Stat(p) ==
    /\ pc[p] = "stat" /\ KeepFiles
    /\ \/ file.mode = "none" /\ Load(p, NoTokens)
       \/ file.mode # "none" /\ Refused(file) /\ LoadFails(p)
       \/ /\ file.mode # "none" /\ ~Refused(file)
          /\ Goto(p, "read") /\ UNCHANGED result /\ KeepLocals

ReadFile(p) ==
    /\ pc[p] = "read" /\ KeepFiles
    /\ \/ file.mode = "none" /\ LoadMissing(p)
       \/ file.mode # "none" /\ file.body \in {"blank", "whole"} /\ Load(p, file.tokens)
       \/ file.mode # "none" /\ file.body \in {"junk", "part"} /\ LoadFails(p)

\* Stat or ReadFile does not get at the file.
LoadError(p) ==
    /\ pc[p] \in {"stat", "read"} /\ LoadFails(p) /\ KeepFiles

-----------------------------------------------------------------------------
(* Store *)

CreateTemp(p) ==
    /\ pc[p] = "create"
    /\ \/ /\ temp' = [temp EXCEPT ![p] = File("private", "blank", NoTokens)]
          /\ Goto(p, "write") /\ UNCHANGED result
       \/ Return(p, "failed") /\ UNCHANGED temp
    /\ UNCHANGED <<file, warned, answers>> /\ KeepLocals

JustReturn(p, r) == Return(p, r)         \* mutant: the deferred call is not made
Cleanup(p, r)    == Goto(p, "remove") /\ Result(p, r)

WriteOn(p)     == Goto(p, "close") /\ UNCHANGED result       \* mutant: Write's error is dropped
WriteFailed(p) == Cleanup(p, "failed")

Write(p) ==
    /\ pc[p] = "write"
    /\ \/ /\ temp' = [temp EXCEPT ![p] = File("private", "whole", creds[p])]
          /\ Goto(p, "close") /\ UNCHANGED result
       \/ /\ temp' = [temp EXCEPT ![p] = File("private", "part", NoTokens)]
          /\ WriteFailed(p)
    /\ UNCHANGED <<file, warned, answers>> /\ KeepLocals

\* CreateTemp's file is private already.
ChmodFails(p) ==
    /\ pc[p] = "write" /\ Cleanup(p, "failed")
    /\ KeepFiles /\ KeepLocals

Close(p) ==
    /\ pc[p] = "close"
    /\ \/ Goto(p, "rename") /\ UNCHANGED result
       \/ Cleanup(p, "failed")
    /\ KeepFiles /\ KeepLocals

Rename(p) ==
    /\ pc[p] = "rename"
    /\ Replace(temp[p]) /\ temp' = [temp EXCEPT ![p] = NoFile]
    /\ Cleanup(p, "stored")
    /\ UNCHANGED <<warned, locals>>

RenameFails(p) ==
    /\ pc[p] = "rename" /\ Cleanup(p, "failed")
    /\ KeepFiles /\ KeepLocals

\* The deferred Remove: there may be nothing to remove, and it may fail.  Store's
\* locals are gone.
Remove(p) ==
    /\ pc[p] = "remove" /\ Goto(p, "done")
    /\ \/ temp' = [temp EXCEPT ![p] = NoFile] /\ UNCHANGED warned
       \/ temp[p] # NoFile /\ warned' = warned \cup {p} /\ UNCHANGED temp
    /\ creds' = [creds EXCEPT ![p] = NoTokens] /\ newer' = [newer EXCEPT ![p] = {}]
    /\ UNCHANGED <<file, answers, result, kind, id>>

-----------------------------------------------------------------------------
(* Beside them (external) *)

\* A crash, or Ctrl-C: configure catches no signal.
Kill(p) ==
    /\ pc[p] \notin {"idle", "done", "killed"} /\ Goto(p, "killed")
    /\ creds' = [creds EXCEPT ![p] = NoTokens]
    /\ newer' = [newer EXCEPT ![p] = {}] /\ answers' = [answers EXCEPT ![p] = {}]
    /\ UNCHANGED <<file, temp, kind, id, result, warned>>

OperatorChmods ==
    /\ file.mode # "none"
    /\ \E m \in {"private", "open"} : Replace([file EXCEPT !.mode = m])
    /\ UNCHANGED <<temp, pc, locals, result, warned>>

OperatorRemoves ==
    /\ file.mode # "none" /\ Replace(NoFile)
    /\ UNCHANGED <<temp, pc, locals, result, warned>>

Step(p) ==
    \/ BeginStore(p) \/ BeginToken(p) \/ Stat(p) \/ ReadFile(p) \/ LoadError(p)
    \/ CreateTemp(p) \/ ChmodFails(p) \/ Write(p) \/ Close(p)
    \/ Rename(p) \/ RenameFails(p) \/ Remove(p)

Next ==
    \/ OperatorChmods \/ OperatorRemoves
    \/ \E p \in Procs : Step(p) \/ Kill(p)

Spec == Init /\ [][Next]_vars

-----------------------------------------------------------------------------
(* What it guarantees *)

Results == Procs \cup {OldToken, "none", "usage", "failed", "stored", "nocred"}

\* Every variable has the values its declaration names; Token has either a token
\* or says that there is none.
TypeOK ==
    /\ file \in Files /\ temp \in [Procs -> Files]
    /\ pc \in [Procs -> {"idle", "stat", "read", "create", "write", "close",
                         "rename", "remove", "done", "killed"}]
    /\ kind \in [Procs -> {"store", "token"}] /\ id \in [Procs -> Tunnels]
    /\ creds \in [Procs -> [Tunnels -> Tokens]] /\ result \in [Procs -> Results]
    /\ warned \subseteq Procs
    /\ newer \in [Procs -> SUBSET Tunnels] /\ answers \in [Procs -> SUBSET Results]

\* The file at the path is never one cut short, and no tunnel has another's token,
\* however many write it, whichever of their steps fails and wherever they are killed.
FileWhole ==
    /\ file.body # "part"
    /\ \A t \in Tunnels :
        file.tokens[t] \in {NoToken, OldToken} \cup {p \in Procs : id[p] = t}

\* Unless it fails, Token's answer is one the file had at some moment of the call,
\* though load looks twice at a file that may be replaced, opened to others or
\* removed between: a token comes from a file that was private while the call was
\* under way, and "no credential" is not said of a tunnel that had one all along.
TokenAnswers ==
    \A p \in Procs : pc[p] = "done" /\ kind[p] = "token" =>
        result[p] \in answers[p] \cup {"failed"}

\* A Store that returned, for better or worse, leaves no temporary file with a
\* token behind, or has said so.
TempsGone == \A p \in Procs : pc[p] = "done" => temp[p] = NoFile \/ p \in warned

\* Store takes another tunnel's token out of the file, or puts an old one back,
\* only if that one was stored since it loaded the file itself: alone, it keeps
\* the others, whatever state the file was found in.
KeepsOthers ==
    [][\A p \in Procs : Rename(p) =>
        \A t \in Tunnels \ {id[p]} : file'.tokens[t] = file.tokens[t] \/ t \in newer[p]]_vars

=============================================================================
