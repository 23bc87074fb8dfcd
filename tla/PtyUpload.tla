------------------------------ MODULE PtyUpload ------------------------------
(***************************************************************************)
(* The files pasted into the sessions of one PTY (internal/pty/upload.go,  *)
(* and the file frames of input in internal/pty/process.go).               *)
(*                                                                         *)
(* The input loops of all sessions write to one storage directory, which   *)
(* outlives them and the cli.  An action is what a loop does between two   *)
(* points at which another loop, or the end of the cli, can come in: a     *)
(* frame read, a change of the directory, an answer queued.                *)
(*                                                                         *)
(* A file is the set of the units it holds; the i-th unit of an upload u   *)
(* is <<u, i>>.  Frames of input leave all this alone, but may keep the    *)
(* loop in its write to the program; those that set the size do not.       *)
(***************************************************************************)
EXTENDS Naturals

CONSTANTS
    Sessions,
    Names,          \* names a file frame may carry
    Plain,          \* those of them that are plain file names, as startUpload asks
    Sizes,          \* the sizes a file frame may announce
    Frame,          \* how many units a file data frame carries at most
    Faults,         \* which system calls may fail: "open", "write", "finish", "remove"
    MaxFiles,       \* bound: how many file frames there are
    MaxCrashes,     \* bound: how often the cli ends in the middle of it
    None            \* no upload, no file

ASSUME UploadAssumption ==
    /\ Plain \subseteq Names
    /\ Sizes \subseteq Nat
    /\ Frame \in Nat \ {0}
    /\ Faults \subseteq {"open", "write", "finish", "remove"}
    /\ MaxFiles \in Nat /\ MaxCrashes \in Nat

VARIABLES
    \* The input loops.
    pc,         \* "frames", "input", "undo", "finish", "discard", "answer", "abort",
                \* "returned"
    up,         \* up: the upload in progress, or None
    gone,       \* v.gone is closed
    \* The storage directory.
    parts,      \* the names whose partial file exists
    part,       \* what each partial file holds
    file,       \* what each name holds: a file with its upload, or None
    \* History.
    begun,      \* how many file frames there have been
    placed,     \* the uploads that were renamed into place
    told,       \* the answers queued for the sessions
    orphans,    \* the names whose partial file nobody removed
    crashes

loopVars == <<pc, up, gone, begun>>
dirVars  == <<parts, part, file, placed, orphans>>
vars     == <<loopVars, dirVars, told, crashes>>

\* The uploads there may be: one for each file frame, with the size it announced.
Uploads == [by : Sessions, no : Nat, size : Nat]
Units(u, from, to) == {<<u, i>> : i \in from .. to}

\* up: part is TRUE while there is a partial file of its own, u.f or what
\* finish has still to remove; err, once anything has failed.
InProgress == [u : Uploads, name : Names, left : Nat, part : BOOLEAN, err : BOOLEAN]

\* The same as the session sees it.
Outcomes == {"none", "saved", "failed"}
Pastes == [u : Uploads, name : Names, left : Nat, outcome : Outcomes]

ASSUME NoneAssumption == None \notin InProgress \cup Pastes

Init ==
    /\ pc = [s \in Sessions |-> "frames"]
    /\ up = [s \in Sessions |-> None]
    /\ gone = [s \in Sessions |-> FALSE]
    /\ parts = {} /\ part = [n \in Names |-> {}] /\ file = [n \in Names |-> None]
    /\ begun = 0 /\ placed = {} /\ told = {} /\ orphans = {} /\ crashes = 0

-----------------------------------------------------------------------------
(* Helpers *)

Goto(s, l) == pc' = [pc EXCEPT ![s] = l]

\* The loop goes on with the next frame, unless the upload has all its bytes.
Proceed(s, left) == Goto(s, IF left = 0 THEN "finish" ELSE "frames")

\* O_EXCL: the partial file must not exist.
Anyway(n) == TRUE                       \* mutant: without O_EXCL
Absent(n) == n \notin parts

\* os.Remove of the partial file; that it fails is ignored.
Removed(n) ==
    \/ parts' = parts \ {n} /\ UNCHANGED orphans
    \/ "remove" \in Faults /\ orphans' = orphans \cup {n} /\ UNCHANGED parts

-----------------------------------------------------------------------------
(* The file frames of input *)

\* startUpload.  A name that is not plain and a directory or file that cannot
\* be made are kept for the answer.
FileFrame(s, n, size) ==
    /\ pc[s] = "frames" /\ up[s] = None /\ begun < MaxFiles
    /\ begun' = begun + 1
    /\ \E opened \in BOOLEAN :
        /\ IF opened
           THEN /\ n \in Plain /\ Absent(n)
                /\ parts' = parts \cup {n} /\ part' = [part EXCEPT ![n] = {}]
           ELSE /\ n \notin Plain \/ n \in parts \/ "open" \in Faults
                /\ UNCHANGED <<parts, part>>
        /\ up' = [up EXCEPT ![s] =
                    [u |-> [by |-> s, no |-> begun', size |-> size],
                     name |-> n, left |-> size, part |-> opened, err |-> ~opened]]
    /\ Proceed(s, size)
    /\ UNCHANGED <<gone, file, placed, orphans, told, crashes>>

\* File data is within its file.
Anyhow(s, k) == up[s] # None            \* mutant: its length is not looked at
Fits(s, k) == up[s] # None /\ k <= up[s].left

\* upload.write: the bytes are dropped if the upload has failed, written, or
\* fail to be; then the upload is aborted (Undo).
FileData(s, k) ==
    /\ pc[s] = "frames" /\ Fits(s, k)
    /\ LET v == up[s]
           written == v.u.size - v.left
           left == v.left - k
       IN  \/ /\ ~v.part
              /\ up' = [up EXCEPT ![s].left = left]
              /\ Proceed(s, left)
              /\ UNCHANGED part
           \/ /\ v.part
              /\ part' = [part EXCEPT ![v.name] =
                            @ \cup Units(v.u, written + 1, written + k)]
              /\ up' = [up EXCEPT ![s].left = left]
              /\ Proceed(s, left)
           \/ /\ v.part /\ "write" \in Faults
              /\ up' = [up EXCEPT ![s].left = left, ![s].err = TRUE]
              /\ Goto(s, "undo")
              /\ UNCHANGED part
    /\ UNCHANGED <<gone, begun, parts, file, placed, orphans, told, crashes>>

\* abort, in write: whatever else comes of the file is dropped.
Undo(s) ==
    /\ pc[s] = "undo"
    /\ Removed(up[s].name)
    /\ up' = [up EXCEPT ![s].part = FALSE]
    /\ Proceed(s, up[s].left)
    /\ UNCHANGED <<gone, begun, part, file, placed, told, crashes>>

\* A file frame before the last file is done, file data past its file or of
\* no file.
BadFrame(s) ==
    /\ pc[s] = "frames"
    /\ up[s] # None \/ \E k \in 1 .. Frame : ~Fits(s, k)
    /\ Goto(s, "abort")
    /\ UNCHANGED <<up, gone, begun, dirVars, told, crashes>>

\* A frame of input, while a file may be half received: the loop is in inMu.Lock
\* or in its write to the program.
InputData(s) ==
    /\ pc[s] = "frames"
    /\ Goto(s, "input")
    /\ UNCHANGED <<up, gone, begun, dirVars, told, crashes>>

\* The program has read enough of it, or the write fails.
InputWritten(s) ==
    /\ pc[s] = "input"
    /\ \E l \in {"frames", "abort"} : Goto(s, l)
    /\ UNCHANGED <<up, gone, begun, dirVars, told, crashes>>

\* The stream has run out, or another kind of frame ends the session.
InputEnds(s) ==
    /\ pc[s] = "frames"
    /\ Goto(s, "abort")
    /\ UNCHANGED <<up, gone, begun, dirVars, told, crashes>>

-----------------------------------------------------------------------------
(* finish, and the answer *)

\* Close and Rename.
Rename(s) ==
    /\ pc[s] = "finish" /\ up[s].part
    /\ file' = [file EXCEPT ![up[s].name] = [of |-> up[s].u, data |-> part[up[s].name]]]
    /\ parts' = parts \ {up[s].name}
    /\ placed' = placed \cup {up[s].u}
    /\ up' = [up EXCEPT ![s].part = FALSE]
    /\ Goto(s, "answer")
    /\ UNCHANGED <<gone, begun, part, orphans, told, crashes>>

\* One of them fails.
RenameFails(s) ==
    /\ pc[s] = "finish" /\ up[s].part /\ "finish" \in Faults
    /\ Goto(s, "discard")
    /\ UNCHANGED <<up, gone, begun, dirVars, told, crashes>>

\* The partial file is removed, and the error kept for the answer.
Forgets(s) == up' = [up EXCEPT ![s].part = FALSE]   \* mutant: u.err is not set
Keeps(s) == up' = [up EXCEPT ![s].part = FALSE, ![s].err = TRUE]

Discard(s) ==
    /\ pc[s] = "discard"
    /\ Removed(up[s].name)
    /\ Keeps(s)
    /\ Goto(s, "answer")
    /\ UNCHANGED <<gone, begun, part, file, placed, told, crashes>>

\* There is nothing to rename.
FinishFailed(s) ==
    /\ pc[s] = "finish" /\ ~up[s].part
    /\ Goto(s, "answer")
    /\ UNCHANGED <<up, gone, begun, dirVars, told, crashes>>

\* send: the answer is queued, once there is room, or the viewer has gone.
Answer(s) ==
    /\ pc[s] = "answer"
    /\ told' = told \cup {<<up[s].u, IF up[s].err THEN "failed" ELSE "saved">>}
    /\ up' = [up EXCEPT ![s] = None]
    /\ Goto(s, "frames")
    /\ UNCHANGED <<gone, begun, dirVars, crashes>>

Waits(s) == FALSE                       \* mutant: send waits for room only
Gone(s) == gone[s]

AnswerDropped(s) ==
    /\ pc[s] = "answer" /\ Gone(s)
    /\ up' = [up EXCEPT ![s] = None]
    /\ Goto(s, "frames")
    /\ UNCHANGED <<gone, begun, dirVars, told, crashes>>

-----------------------------------------------------------------------------
(* The end *)

\* input's deferred abort, and the end of the viewer.
Leaves(s) == UNCHANGED <<parts, orphans>>           \* mutant: nothing is aborted
Aborts(s) ==
    IF up[s] # None /\ up[s].part THEN Removed(up[s].name)
                                  ELSE UNCHANGED <<parts, orphans>>

Abort(s) ==
    /\ pc[s] = "abort"
    /\ Aborts(s)
    /\ up' = [up EXCEPT ![s] = None]
    /\ gone' = [gone EXCEPT ![s] = TRUE]
    /\ Goto(s, "returned")
    /\ UNCHANGED <<begun, part, file, placed, told, crashes>>

\* The viewer is ended from elsewhere: PtyProcess has the ways.
ViewerEnds(s) ==
    /\ pc[s] # "returned" /\ ~gone[s]
    /\ gone' = [gone EXCEPT ![s] = TRUE]
    /\ UNCHANGED <<pc, up, begun, dirVars, told, crashes>>

\* The cli is killed, or main returns while the loops are at work: nothing
\* waits for them.  It is started again with the same directory.
Crash ==
    /\ crashes < MaxCrashes /\ crashes' = crashes + 1
    /\ pc' = [s \in Sessions |-> "frames"]
    /\ up' = [s \in Sessions |-> None]
    /\ gone' = [s \in Sessions |-> FALSE]
    /\ orphans' = parts
    /\ UNCHANGED <<begun, parts, part, file, placed, told>>

Input(s) ==
    \/ \E n \in Names, size \in Sizes : FileFrame(s, n, size)
    \/ \E k \in 1 .. Frame : FileData(s, k)
    \/ Undo(s) \/ BadFrame(s) \/ InputData(s) \/ InputWritten(s) \/ InputEnds(s)
    \/ Rename(s) \/ RenameFails(s) \/ Discard(s) \/ FinishFailed(s)
    \/ Answer(s) \/ AnswerDropped(s) \/ Abort(s)

Next ==
    \/ \E s \in Sessions : Input(s) \/ ViewerEnds(s)
    \/ Crash

Spec == Init /\ [][Next]_vars

(***************************************************************************)
(* Fairness.  The stream of an ended viewer is closed and holds so many    *)
(* frames: a loop that comes back to it again and again finds its end.     *)
(* Of a peer nothing is assumed: it may send nothing, and read no answer.  *)
(* Nor of the program: it may leave a write to it waiting for ever.        *)
(***************************************************************************)
Fairness ==
    \A s \in Sessions :
        /\ SF_vars(gone[s] /\ InputEnds(s))
        /\ WF_vars(Undo(s)) /\ WF_vars(Discard(s))
        /\ WF_vars(Rename(s) \/ RenameFails(s) \/ FinishFailed(s))
        /\ WF_vars(AnswerDropped(s)) /\ WF_vars(Abort(s))

FairSpec == Spec /\ Fairness

-----------------------------------------------------------------------------
(* What it guarantees *)

Holds(s, n) == up[s] # None /\ up[s].part /\ up[s].name = n

LoopType ==
    /\ pc \in [Sessions -> {"frames", "input", "undo", "finish", "discard", "answer",
                            "abort", "returned"}]
    /\ up \in [Sessions -> InProgress \cup {None}]
    /\ gone \in [Sessions -> BOOLEAN]
    /\ begun \in Nat

DirType ==
    /\ parts \subseteq Names /\ orphans \subseteq Names
    /\ part \in [Names -> SUBSET (Uploads \X Nat)]
    /\ file \in [Names -> [of : Uploads, data : SUBSET (Uploads \X Nat)] \cup {None}]

HistoryType ==
    /\ placed \subseteq Uploads
    /\ told \subseteq Uploads \X {"saved", "failed"}
    /\ crashes \in Nat

\* Every variable has the values its declaration names; no upload takes more
\* bytes than its file frame announced.
TypeOK == LoopType /\ DirType /\ HistoryType

\* A name holds no file, or all of one upload and nothing of another: whatever
\* sessions paste at once, whichever calls fail, and wherever the cli ends.
FilesWhole ==
    \A n \in Names : file[n] # None =>
        file[n].data = Units(file[n].of, 1, file[n].of.size)

\* A partial file belongs to exactly one upload in progress, which will rename
\* or remove it, unless a crash or a failing remove has left it behind.
PartsOwned ==
    /\ \A n \in parts \ orphans : \E s \in Sessions : Holds(s, n)
    /\ \A s, t \in Sessions : \A n \in Names : Holds(s, n) /\ Holds(t, n) => s = t

\* The session and its paste as the session sees them: of the partial file there is
\* nothing to be seen.
SessionOf(s) == IF pc[s] = "returned" THEN "closed" ELSE IF gone[s] THEN "gone" ELSE "open"

OutcomeOf(s) ==
    IF up[s].err THEN "failed" ELSE IF up[s].u \in placed THEN "saved" ELSE "none"

PasteOf(s) ==
    IF up[s] = None THEN None
    ELSE [u |-> up[s].u, name |-> up[s].name, left |-> up[s].left, outcome |-> OutcomeOf(s)]

Store == INSTANCE UploadStore WITH
    session <- [s \in Sessions |-> SessionOf(s)],
    paste <- [s \in Sessions |-> PasteOf(s)]

\* startUpload, write, finish and abort are together the store that UploadStore
\* describes: an answer says what became of the file, a file that is not plain or
\* could not be written is saved by no later step, and what the input loops do with
\* partial files, in any order, is never seen under a name.
ImplementsStore == Store!Spec

\* The input loop of an ended viewer returns, and gives its partial file up, if the
\* program lets its writes of input end: it waits for nobody to read its answers.
\* (Behind a program that does not read, loop and partial file stay.)
GoneReturns ==
    \A s \in Sessions :
        WF_vars(InputWritten(s)) => (gone[s] ~> (pc[s] = "returned" \/ ~gone[s]))

=============================================================================
