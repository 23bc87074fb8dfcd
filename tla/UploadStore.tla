----------------------------- MODULE UploadStore -----------------------------
(***************************************************************************)
(* What internal/pty promises of pasted files, whatever system calls,      *)
(* partial files and kills there are: a session pastes one file at a time; *)
(* a file takes its name's place whole, in one step, when all of it has    *)
(* been received, or nothing of it ever does; the session is answered once *)
(* and truly, unless it is gone before; and a file that may not be saved,  *)
(* or cannot be, is received all the same.                                 *)
(***************************************************************************)
EXTENDS Naturals

CONSTANTS
    Sessions,
    Names,
    Plain,      \* the names that may be saved under
    Sizes,
    Frame,      \* how much comes at once at most
    None

VARIABLES
    session,    \* for each session: "open", "gone" (nobody reads its answers) or "closed"
    paste,      \* for each session: the paste in progress, or None
    begun,      \* how many pastes there have been
    file,       \* for each name: the file saved under it, or None
    told        \* the answers

vars == <<session, paste, begun, file, told>>

Whole(u) == [of |-> u, data |-> {<<u, i>> : i \in 1 .. u.size}]

Init ==
    /\ session = [s \in Sessions |-> "open"]
    /\ paste = [s \in Sessions |-> None]
    /\ begun = 0 /\ file = [n \in Names |-> None] /\ told = {}

Becomes(s, p) == paste' = [paste EXCEPT ![s] = p]

Paste(u, n, left, outcome) == [u |-> u, name |-> n, left |-> left, outcome |-> outcome]
Goes(s, left, outcome) == Becomes(s, Paste(paste[s].u, paste[s].name, left, outcome))

\* The outcome is "none" until the file has been saved or cannot be any more.
Announce(s, n, size, outcome) ==
    /\ session[s] # "closed" /\ paste[s] = None
    /\ n \notin Plain => outcome = "failed"
    /\ begun' = begun + 1
    /\ Becomes(s, Paste([by |-> s, no |-> begun', size |-> size], n, size, outcome))
    /\ UNCHANGED <<session, file, told>>

Receive(s, k, outcome) ==
    /\ paste[s] # None /\ k <= paste[s].left
    /\ paste[s].outcome = "failed" => outcome = "failed"
    /\ Goes(s, paste[s].left - k, outcome)
    /\ UNCHANGED <<session, begun, file, told>>

Received(s, outcome) == paste[s] # None /\ paste[s].left = 0 /\ paste[s].outcome = outcome

Save(s) ==
    /\ Received(s, "none")
    /\ file' = [file EXCEPT ![paste[s].name] = Whole(paste[s].u)]
    /\ Goes(s, 0, "saved")
    /\ UNCHANGED <<session, begun, told>>

Fail(s) ==
    /\ Received(s, "none")
    /\ Goes(s, 0, "failed")
    /\ UNCHANGED <<session, begun, file, told>>

Tell(s, outcome) ==
    /\ Received(s, outcome)
    /\ told' = told \cup {<<paste[s].u, outcome>>}
    /\ Becomes(s, None)
    /\ UNCHANGED <<session, begun, file>>

\* Nobody is there to be told.
Drop(s, outcome) ==
    /\ session[s] = "gone" /\ Received(s, outcome)
    /\ Becomes(s, None)
    /\ UNCHANGED <<session, begun, file, told>>

Leave(s) ==
    /\ session[s] = "open" /\ session' = [session EXCEPT ![s] = "gone"]
    /\ UNCHANGED <<paste, begun, file, told>>

\* The session ends, in the middle of a paste perhaps, but not of an answer.
Close(s) ==
    /\ paste[s] # None => paste[s].outcome # "saved"
    /\ session' = [session EXCEPT ![s] = "closed"]
    /\ Becomes(s, None)
    /\ UNCHANGED <<begun, file, told>>

\* The cli ends and is started again: the files that were saved stay.
Restart ==
    /\ session' = [s \in Sessions |-> "open"]
    /\ paste' = [s \in Sessions |-> None]
    /\ UNCHANGED <<begun, file, told>>

Next ==
    \/ Restart
    \/ \E s \in Sessions :
        \/ \E n \in Names, size \in Sizes, o \in {"none", "failed"} : Announce(s, n, size, o)
        \/ \E k \in 1 .. Frame, o \in {"none", "failed"} : Receive(s, k, o)
        \/ Save(s) \/ Fail(s)
        \/ \E o \in {"saved", "failed"} : Tell(s, o) \/ Drop(s, o)
        \/ Leave(s) \/ Close(s)

Spec == Init /\ [][Next]_vars

=============================================================================
