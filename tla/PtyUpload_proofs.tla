-------------------------- MODULE PtyUpload_proofs --------------------------
(***************************************************************************)
(* Proofs about PtyUpload, for any sessions, names and sizes, any calls    *)
(* that fail, and any number of crashes.                                   *)
(***************************************************************************)
EXTENDS PtyUpload, TLAPS

\* An upload in progress is its session's, was counted, and is not over.
MineInv ==
    \A s \in Sessions : up[s] # None =>
        /\ up[s].u.by = s /\ up[s].u.no <= begun
        /\ up[s].left <= up[s].u.size
        /\ \A a \in told : a[1] # up[s].u

\* Whatever is over was counted.
PastInv ==
    /\ \A u \in placed : u.no <= begun
    /\ \A a \in told : a[1].no <= begun

\* What an input loop in each place knows of its upload.
PlaceInv ==
    /\ \A s \in Sessions :
        pc[s] \in {"undo", "finish", "discard", "answer"} => up[s] # None
    /\ \A s \in Sessions : up[s] # None =>
        /\ pc[s] \in {"undo", "discard"} => up[s].part
        /\ pc[s] = "undo" => up[s].err
        /\ pc[s] \in {"frames", "input", "finish"} => (up[s].part <=> ~up[s].err)
        /\ pc[s] \in {"finish", "discard", "answer"} => up[s].left = 0
        /\ pc[s] = "discard" => ~up[s].err
        /\ pc[s] = "answer" => ~up[s].part /\ (up[s].err <=> up[s].u \notin placed)
        /\ pc[s] \in {"frames", "input", "undo", "finish", "discard", "abort"}
              => up[s].u \notin placed
        /\ pc[s] # "returned"

\* A partial file somebody holds is there, is his alone, and nobody left it.
HoldInv ==
    /\ orphans \subseteq parts
    /\ \A s \in Sessions : \A n \in Names : Holds(s, n) => n \in parts \ orphans
    /\ PartsOwned

\* A partial file that may still be renamed holds what was received.
ContentInv ==
    \A s \in Sessions :
        up[s] # None /\ up[s].part /\ pc[s] \in {"frames", "input", "finish"}
        => part[up[s].name] = Units(up[s].u, 1, up[s].u.size - up[s].left)

\* A session is told that a file was saved only if it was put in place, and
\* that it failed only if it was not.
AnswersTrue ==
    \A a \in told : (a[2] = "saved") <=> (a[1] \in placed)

IInv ==
    /\ TypeOK /\ MineInv /\ PastInv /\ PlaceInv /\ HoldInv /\ ContentInv
    /\ FilesWhole /\ AnswersTrue

-----------------------------------------------------------------------------
LEMMA InitIInv == Init => IInv
BY UploadAssumption DEF Init, IInv, TypeOK, LoopType, DirType, HistoryType, MineInv,
   PastInv, PlaceInv, HoldInv, PartsOwned, Holds, ContentInv, FilesWhole, AnswersTrue

-----------------------------------------------------------------------------
(* The steps that add nothing to a file *)

LEMMA BadFrameStep ==
    ASSUME IInv, NEW s \in Sessions, BadFrame(s)
    PROVE  IInv'
BY UploadAssumption DEF IInv, TypeOK, LoopType, DirType, HistoryType, MineInv,
   PastInv, PlaceInv, HoldInv, PartsOwned, Holds, ContentInv, FilesWhole, AnswersTrue,
   InProgress, Uploads, BadFrame, dirVars, Goto, Fits

LEMMA InputEndsStep ==
    ASSUME IInv, NEW s \in Sessions, InputEnds(s)
    PROVE  IInv'
BY UploadAssumption DEF IInv, TypeOK, LoopType, DirType, HistoryType, MineInv,
   PastInv, PlaceInv, HoldInv, PartsOwned, Holds, ContentInv, FilesWhole, AnswersTrue,
   InProgress, Uploads, InputEnds, dirVars, Goto

LEMMA InputDataStep ==
    ASSUME IInv, NEW s \in Sessions, InputData(s)
    PROVE  IInv'
BY UploadAssumption DEF IInv, TypeOK, LoopType, DirType, HistoryType, MineInv,
   PastInv, PlaceInv, HoldInv, PartsOwned, Holds, ContentInv, FilesWhole, AnswersTrue,
   InProgress, Uploads, InputData, dirVars, Goto

LEMMA InputWrittenStep ==
    ASSUME IInv, NEW s \in Sessions, InputWritten(s)
    PROVE  IInv'
BY UploadAssumption DEF IInv, TypeOK, LoopType, DirType, HistoryType, MineInv,
   PastInv, PlaceInv, HoldInv, PartsOwned, Holds, ContentInv, FilesWhole, AnswersTrue,
   InProgress, Uploads, InputWritten, dirVars, Goto

LEMMA RenameFailsStep ==
    ASSUME IInv, NEW s \in Sessions, RenameFails(s)
    PROVE  IInv'
BY UploadAssumption DEF IInv, TypeOK, LoopType, DirType, HistoryType, MineInv,
   PastInv, PlaceInv, HoldInv, PartsOwned, Holds, ContentInv, FilesWhole, AnswersTrue,
   InProgress, Uploads, RenameFails, dirVars, Goto

LEMMA FinishFailedStep ==
    ASSUME IInv, NEW s \in Sessions, FinishFailed(s)
    PROVE  IInv'
BY UploadAssumption DEF IInv, TypeOK, LoopType, DirType, HistoryType, MineInv,
   PastInv, PlaceInv, HoldInv, PartsOwned, Holds, ContentInv, FilesWhole, AnswersTrue,
   InProgress, Uploads, FinishFailed, dirVars, Goto

LEMMA AnswerStep ==
    ASSUME IInv, NEW s \in Sessions, Answer(s)
    PROVE  IInv'
BY UploadAssumption DEF IInv, TypeOK, LoopType, DirType, HistoryType, MineInv,
   PastInv, PlaceInv, HoldInv, PartsOwned, Holds, ContentInv, FilesWhole, AnswersTrue,
   InProgress, Uploads, Answer, dirVars, Goto

LEMMA AnswerDroppedStep ==
    ASSUME IInv, NEW s \in Sessions, AnswerDropped(s)
    PROVE  IInv'
BY UploadAssumption DEF IInv, TypeOK, LoopType, DirType, HistoryType, MineInv,
   PastInv, PlaceInv, HoldInv, PartsOwned, Holds, ContentInv, FilesWhole, AnswersTrue,
   InProgress, Uploads, AnswerDropped, dirVars, Goto, Gone

LEMMA AbortStep ==
    ASSUME IInv, NEW s \in Sessions, Abort(s)
    PROVE  IInv'
BY UploadAssumption DEF IInv, TypeOK, LoopType, DirType, HistoryType, MineInv,
   PastInv, PlaceInv, HoldInv, PartsOwned, Holds, ContentInv, FilesWhole, AnswersTrue,
   InProgress, Uploads, Abort, dirVars, Goto, Removed, Aborts

LEMMA ViewerEndsStep ==
    ASSUME IInv, NEW s \in Sessions, ViewerEnds(s)
    PROVE  IInv'
BY UploadAssumption DEF IInv, TypeOK, LoopType, DirType, HistoryType, MineInv,
   PastInv, PlaceInv, HoldInv, PartsOwned, Holds, ContentInv, FilesWhole, AnswersTrue,
   InProgress, Uploads, ViewerEnds, dirVars

LEMMA CrashStep ==
    ASSUME IInv, Crash
    PROVE  IInv'
BY UploadAssumption DEF IInv, TypeOK, LoopType, DirType, HistoryType, MineInv,
   PastInv, PlaceInv, HoldInv, PartsOwned, Holds, ContentInv, FilesWhole, AnswersTrue,
   InProgress, Uploads, Crash, dirVars

-----------------------------------------------------------------------------
(* The steps that change an upload's bytes or its partial file *)

\* Whoever removes its partial file, or leaves it behind, holds it no longer,
\* and nobody else did.
LEMMA RemovedKeeps ==
    ASSUME IInv, NEW s \in Sessions, up[s] # None, up[s].part, Removed(up[s].name),
           NEW w, ~w.part, up' = [up EXCEPT ![s] = w]
    PROVE  HoldInv'
<1>1. up[s].name \in Names /\ Holds(s, up[s].name)
    BY DEF IInv, TypeOK, LoopType, InProgress, Holds
<1>2. ASSUME NEW t \in Sessions, NEW n \in Names, Holds(t, n)'
      PROVE  Holds(t, n) /\ t # s
    BY <1>2 DEF Holds, IInv, TypeOK, LoopType
<1>3. ASSUME NEW t \in Sessions, NEW n \in Names, Holds(t, n), t # s
      PROVE  Holds(t, n)' /\ n # up[s].name
    BY <1>1, <1>3 DEF Holds, IInv, HoldInv, PartsOwned, TypeOK, LoopType
<1>4. orphans \subseteq parts /\ up[s].name \in parts \ orphans
    BY <1>1 DEF IInv, HoldInv
<1>5. parts' \ orphans' = (parts \ orphans) \ {up[s].name} /\ orphans' \subseteq parts'
    BY <1>4 DEF Removed
<1>6. \A t \in Sessions : \A n \in Names : Holds(t, n)' => n \in parts' \ orphans'
    BY <1>2, <1>3, <1>5 DEF IInv, HoldInv
<1>7. \A n \in parts' \ orphans' : \E t \in Sessions : Holds(t, n)'
    <2> SUFFICES ASSUME NEW n \in parts' \ orphans'
                 PROVE  \E t \in Sessions : Holds(t, n)'
        OBVIOUS
    <2>1. n \in parts \ orphans /\ n \in Names /\ n # up[s].name
        BY <1>5 DEF IInv, TypeOK, DirType
    <2>2. PICK t \in Sessions : Holds(t, n)
        BY <2>1 DEF IInv, HoldInv, PartsOwned
    <2>3. t # s
        BY <2>1, <2>2 DEF Holds
    <2> QED
        BY <1>3, <2>1, <2>2, <2>3
<1>8. \A t, t2 \in Sessions : \A n \in Names : Holds(t, n)' /\ Holds(t2, n)' => t = t2
    BY <1>2 DEF IInv, HoldInv, PartsOwned
<1> QED
    BY <1>5, <1>6, <1>7, <1>8 DEF HoldInv, PartsOwned

LEMMA UndoStep ==
    ASSUME IInv, NEW s \in Sessions, Undo(s)
    PROVE  IInv'
<1> DEFINE w == [up[s] EXCEPT !.part = FALSE]
<1>1. /\ up[s] \in InProgress /\ up[s] # None
      /\ up[s].part /\ up[s].err /\ pc[s] = "undo"
    BY DEF IInv, TypeOK, LoopType, PlaceInv, Undo
<1>2. w \in InProgress /\ w # None
    BY <1>1, NoneAssumption, FALSE \in BOOLEAN DEF InProgress
<1>3. /\ w.u = up[s].u /\ w.name = up[s].name /\ w.left = up[s].left
      /\ w.err = up[s].err /\ w.part = FALSE
    BY <1>1 DEF InProgress
<1>4. up' = [up EXCEPT ![s] = w]
    BY DEF Undo
<1> HIDE DEF w
<1>5. LoopType' /\ DirType' /\ HistoryType'
    <2>1. LoopType'
        BY <1>1, <1>2, <1>4 DEF Undo, Goto, Proceed, IInv, TypeOK, LoopType
    <2>2. DirType'
        BY <1>1 DEF Undo, Removed, IInv, TypeOK, DirType, InProgress
    <2> QED
        BY <2>1, <2>2 DEF Undo, IInv, TypeOK, HistoryType
<1>6. MineInv' /\ PastInv'
    BY <1>1, <1>3, <1>4 DEF Undo, IInv, MineInv, PastInv
<1>7. PlaceInv'
    <2>1. /\ pc'[s] = (IF up[s].left = 0 THEN "finish" ELSE "frames") /\ up'[s] = w
          /\ \A t \in Sessions : t # s => pc'[t] = pc[t] /\ up'[t] = up[t]
        BY <1>4 DEF Undo, Goto, Proceed, IInv, TypeOK, LoopType
    <2>2. placed' = placed /\ w.err /\ w.u \notin placed
        BY <1>1, <1>3 DEF Undo, IInv, PlaceInv
    <2> QED
        BY <1>2, <1>3, <2>1, <2>2 DEF IInv, PlaceInv
<1>8. HoldInv'
    BY <1>1, <1>3, <1>4, RemovedKeeps DEF Undo
<1>9. ContentInv'
    BY <1>1, <1>3, <1>4 DEF Undo, Goto, Proceed, IInv, ContentInv, TypeOK, LoopType
<1> QED
    BY <1>5, <1>6, <1>7, <1>8, <1>9 DEF Undo, IInv, TypeOK, FilesWhole, AnswersTrue

LEMMA RenameStep ==
    ASSUME IInv, NEW s \in Sessions, Rename(s)
    PROVE  IInv'
<1> DEFINE w == [up[s] EXCEPT !.part = FALSE]
<1>1. /\ up[s] \in InProgress /\ up[s] # None
      /\ up[s].part /\ pc[s] = "finish" /\ up[s].left = 0
    BY DEF IInv, TypeOK, LoopType, PlaceInv, Rename
<1>2. w \in InProgress /\ w # None
    BY <1>1, NoneAssumption, FALSE \in BOOLEAN DEF InProgress
<1>3. /\ w.u = up[s].u /\ w.name = up[s].name /\ w.left = up[s].left
      /\ w.err = up[s].err /\ w.part = FALSE
    BY <1>1 DEF InProgress
<1>4. up' = [up EXCEPT ![s] = w]
    BY DEF Rename
<1>5. up[s].u \in Uploads /\ up[s].name \in Names /\ up[s].u.size \in Nat
    BY <1>1 DEF InProgress, Uploads
<1>6. part[up[s].name] = Units(up[s].u, 1, up[s].u.size)
    BY <1>1, <1>5 DEF IInv, ContentInv
<1> HIDE DEF w
<1>7. LoopType' /\ HistoryType'
    BY <1>1, <1>2, <1>4, <1>5 DEF Rename, Goto, dirVars, IInv, TypeOK, LoopType, HistoryType
<1>8. DirType'
    BY <1>1, <1>5 DEF Rename, IInv, TypeOK, DirType
<1>9. MineInv' /\ PastInv'
    BY <1>1, <1>3, <1>4 DEF Rename, IInv, MineInv, PastInv
<1>10. PlaceInv'
    <2>1. \A t \in Sessions : t # s /\ up[t] # None => up[t].u # up[s].u
        BY <1>1 DEF IInv, MineInv
    <2>2. /\ pc'[s] = "answer" /\ up'[s] = w
          /\ \A t \in Sessions : t # s => pc'[t] = pc[t] /\ up'[t] = up[t]
        BY <1>4 DEF Rename, Goto, IInv, TypeOK, LoopType
    <2>3. ~w.err /\ w.u \in placed'
        BY <1>1, <1>3 DEF Rename, IInv, PlaceInv
    <2>4. \A t \in Sessions : t # s /\ up[t] # None =>
              (up[t].u \in placed' <=> up[t].u \in placed)
        BY <2>1 DEF Rename
    <2> QED
        BY <1>1, <1>2, <1>3, <2>2, <2>3, <2>4 DEF IInv, PlaceInv
<1>11. HoldInv'
    BY <1>1, <1>3, <1>4, <1>5 DEF Rename, IInv, HoldInv, PartsOwned, Holds, TypeOK, LoopType, DirType
<1>12. ContentInv'
    BY <1>1, <1>3, <1>4 DEF Rename, Goto, IInv, ContentInv, TypeOK, LoopType
<1>13. FilesWhole'
    BY <1>5, <1>6 DEF Rename, IInv, FilesWhole, TypeOK, DirType
<1>14. AnswersTrue'
    BY <1>1 DEF Rename, IInv, MineInv, AnswersTrue
<1> QED
    BY <1>7, <1>8, <1>9, <1>10, <1>11, <1>12, <1>13, <1>14 DEF IInv, TypeOK

LEMMA DiscardStep ==
    ASSUME IInv, NEW s \in Sessions, Discard(s)
    PROVE  IInv'
<1> DEFINE w == [up[s] EXCEPT !.part = FALSE, !.err = TRUE]
<1>1. /\ up[s] \in InProgress /\ up[s] # None
      /\ up[s].part /\ pc[s] = "discard"
    BY DEF IInv, TypeOK, LoopType, PlaceInv, Discard
<1>2. w \in InProgress /\ w # None
    BY <1>1, NoneAssumption, FALSE \in BOOLEAN, TRUE \in BOOLEAN DEF InProgress
<1>3. /\ w.u = up[s].u /\ w.name = up[s].name /\ w.left = up[s].left
      /\ w.err = TRUE /\ w.part = FALSE
    BY <1>1 DEF InProgress
<1>4. up' = [up EXCEPT ![s] = w]
    BY DEF Discard, Keeps
<1> HIDE DEF w
<1>5. LoopType' /\ DirType' /\ HistoryType'
    BY <1>1, <1>2, <1>4 DEF Discard, Removed, Goto, IInv, TypeOK, LoopType, DirType, HistoryType, InProgress
<1>6. MineInv' /\ PastInv'
    BY <1>1, <1>3, <1>4 DEF Discard, IInv, MineInv, PastInv
<1>7. PlaceInv'
    BY <1>1, <1>2, <1>3, <1>4 DEF Discard, Goto, IInv, PlaceInv, TypeOK, LoopType
<1>8. HoldInv'
    BY <1>1, <1>3, <1>4, RemovedKeeps DEF Discard
<1>9. ContentInv'
    BY <1>1, <1>3, <1>4 DEF Discard, Goto, IInv, ContentInv, TypeOK, LoopType
<1> QED
    BY <1>5, <1>6, <1>7, <1>8, <1>9 DEF Discard, IInv, TypeOK, FilesWhole, AnswersTrue

\* The units of consecutive writes are those of one.
LEMMA NoUnits == ASSUME NEW u PROVE Units(u, 1, 0) = {}
BY DEF Units

LEMMA MoreUnits ==
    ASSUME NEW u, NEW m \in Nat, NEW k \in Nat
    PROVE  Units(u, 1, m) \cup Units(u, m + 1, m + k) = Units(u, 1, m + k)
<1>1. (1 .. m) \cup (m + 1 .. m + k) = 1 .. m + k
    OBVIOUS
<1> QED
    BY <1>1 DEF Units

LEMMA FileFrameStep ==
    ASSUME IInv, NEW s \in Sessions, NEW n \in Names, NEW size \in Sizes,
           FileFrame(s, n, size)
    PROVE  IInv'
<1> DEFINE u == [by |-> s, no |-> begun', size |-> size]
<1>1. PICK opened \in BOOLEAN :
        /\ IF opened
           THEN /\ n \in Plain /\ Absent(n)
                /\ parts' = parts \cup {n} /\ part' = [part EXCEPT ![n] = {}]
           ELSE /\ n \notin Plain \/ n \in parts \/ "open" \in Faults
                /\ UNCHANGED <<parts, part>>
        /\ up' = [up EXCEPT ![s] = [u |-> u, name |-> n, left |-> size,
                                    part |-> opened, err |-> ~opened]]
    BY DEF FileFrame
<1> DEFINE w == [u |-> u, name |-> n, left |-> size, part |-> opened, err |-> ~opened]
<1>2. /\ up[s] = None /\ pc[s] = "frames" /\ size \in Nat
      /\ begun \in Nat /\ begun' = begun + 1
    BY UploadAssumption DEF FileFrame, IInv, TypeOK, LoopType
<1>3. u \in Uploads /\ u.by = s /\ u.no = begun + 1 /\ u.size = size
    BY <1>2 DEF Uploads
<1>4. w \in InProgress
    <2>1. (~opened) \in BOOLEAN
        OBVIOUS
    <2> QED
        BY <1>2, <1>3, <2>1 DEF InProgress
<1>5. w # None
    BY <1>4, NoneAssumption
<1>6. /\ w.u = u /\ w.name = n /\ w.left = size
      /\ w.part = opened /\ w.err = ~opened
    OBVIOUS
<1>7. up' = [up EXCEPT ![s] = w]
    BY <1>1
<1>8. u \notin placed /\ \A a \in told : a[1] # u
    BY <1>2, <1>3 DEF IInv, PastInv, TypeOK, HistoryType, Uploads
<1> HIDE DEF u, w
<1>9. /\ pc'[s] \in {"frames", "finish"} /\ (pc'[s] = "finish" => size = 0)
      /\ \A t \in Sessions : t # s => pc'[t] = pc[t]
      /\ pc' \in [Sessions -> {"frames", "input", "undo", "finish", "discard", "answer",
                               "abort", "returned"}]
    BY DEF FileFrame, Goto, Proceed, IInv, TypeOK, LoopType
<1>10. /\ up'[s] = w /\ up' \in [Sessions -> InProgress \cup {None}]
       /\ \A t \in Sessions : t # s => up'[t] = up[t]
    BY <1>4, <1>7 DEF IInv, TypeOK, LoopType
<1>11. \A t \in Sessions : \A m \in Names :
        Holds(t, m)' <=> (t # s /\ Holds(t, m)) \/ (t = s /\ m = n /\ opened)
    BY <1>2, <1>5, <1>6, <1>10 DEF Holds
<1>12. TypeOK'
    <2>1. LoopType'
        BY <1>2, <1>9, <1>10 DEF FileFrame, IInv, TypeOK, LoopType
    <2>2. DirType'
        BY <1>1 DEF FileFrame, IInv, TypeOK, DirType
    <2> QED
        BY <2>1, <2>2 DEF FileFrame, IInv, TypeOK, HistoryType
<1>13. MineInv'
    <2>1. ASSUME NEW t \in Sessions, t # s, up[t] # None
          PROVE  /\ up[t].u.by = t /\ up[t].u.no <= begun + 1
                 /\ up[t].left <= up[t].u.size
                 /\ \A a \in told : a[1] # up[t].u
        BY <1>2, <2>1 DEF IInv, MineInv, TypeOK, LoopType, InProgress, Uploads
    <2> QED
        BY <1>2, <1>3, <1>6, <1>8, <1>10, <2>1 DEF FileFrame, MineInv
<1>14. PastInv'
    BY <1>2 DEF FileFrame, IInv, PastInv, TypeOK, HistoryType, Uploads
<1>15. PlaceInv'
    <2>1. w.part <=> ~w.err
        BY <1>6
    <2>2. ASSUME NEW t \in Sessions, t # s
          PROVE  pc'[t] = pc[t] /\ up'[t] = up[t]
        BY <1>9, <1>10, <2>2
    <2>3. placed' = placed
        BY DEF FileFrame
    <2> QED
        BY <1>5, <1>6, <1>8, <1>9, <1>10, <2>1, <2>2, <2>3 DEF IInv, PlaceInv
<1>16. HoldInv'
    <2>1. CASE opened
        <3>1. n \notin parts /\ parts' = parts \cup {n} /\ orphans' = orphans
            BY <1>1, <2>1 DEF FileFrame, Absent
        <3>2. \A t \in Sessions : \A m \in Names :
                Holds(t, m)' <=> (t # s /\ Holds(t, m)) \/ (t = s /\ m = n)
            BY <1>11, <2>1
        <3>3. \A t \in Sessions : \A m \in Names : Holds(t, m) => t # s /\ m # n
            BY <1>2, <3>1 DEF Holds, IInv, HoldInv
        <3>4. n \notin orphans /\ parts \subseteq Names
            BY <3>1 DEF IInv, HoldInv, TypeOK, DirType
        <3>5. orphans' \subseteq parts' /\ parts' \ orphans' = (parts \ orphans) \cup {n}
            BY <3>1, <3>4 DEF IInv, HoldInv
        <3>6. \A t \in Sessions : \A m \in Names : Holds(t, m)' => m \in parts' \ orphans'
            BY <3>2, <3>5 DEF IInv, HoldInv
        <3>7. \A m \in parts' \ orphans' : \E t \in Sessions : Holds(t, m)'
            BY <3>2, <3>3, <3>4, <3>5 DEF IInv, HoldInv, PartsOwned
        <3>8. \A t, t2 \in Sessions : \A m \in Names :
                Holds(t, m)' /\ Holds(t2, m)' => t = t2
            BY <3>2, <3>3 DEF IInv, HoldInv, PartsOwned
        <3> QED
            BY <3>5, <3>6, <3>7, <3>8 DEF HoldInv, PartsOwned
    <2>2. CASE ~opened
        <3>1. parts' = parts /\ orphans' = orphans
            BY <1>1, <2>2 DEF FileFrame
        <3>2. \A t \in Sessions : \A m \in Names : Holds(t, m)' <=> t # s /\ Holds(t, m)
            BY <1>11, <2>2
        <3>3. \A m \in Names : ~Holds(s, m)
            BY <1>2 DEF Holds
        <3>4. parts \subseteq Names
            BY DEF IInv, TypeOK, DirType
        <3> QED
            BY <3>1, <3>2, <3>3, <3>4 DEF IInv, HoldInv, PartsOwned
    <2> QED
        BY <2>1, <2>2
<1>17. ContentInv'
    <2> SUFFICES ASSUME NEW t \in Sessions, up'[t] # None, up'[t].part,
                        pc'[t] \in {"frames", "input", "finish"}
                 PROVE  part'[up'[t].name]
                            = Units(up'[t].u, 1, up'[t].u.size - up'[t].left)
        BY DEF ContentInv
    <2>1. CASE t = s
        <3>1. opened /\ part'[n] = {}
            BY <1>1, <1>6, <1>10, <2>1 DEF IInv, TypeOK, DirType
        <3>2. u.size - w.left = 0
            BY <1>2, <1>3, <1>6
        <3> QED
            BY <1>6, <1>10, <2>1, <3>1, <3>2, NoUnits
    <2>2. CASE t # s
        <3>1. up'[t] = up[t] /\ pc'[t] = pc[t]
            BY <1>9, <1>10, <2>2
        <3>2. up[t].name \in Names /\ Holds(t, up[t].name)
            BY <3>1 DEF IInv, TypeOK, LoopType, InProgress, Holds
        <3>3. up[t].name \in parts
            BY <3>2 DEF IInv, HoldInv
        <3>4. part'[up[t].name] = part[up[t].name]
            BY <1>1, <3>2, <3>3 DEF Absent, IInv, TypeOK, DirType
        <3> QED
            BY <3>1, <3>4 DEF IInv, ContentInv
    <2> QED
        BY <2>1, <2>2
<1>18. FilesWhole' /\ AnswersTrue'
    BY DEF FileFrame, IInv, FilesWhole, AnswersTrue
<1> QED
    BY <1>12, <1>13, <1>14, <1>15, <1>16, <1>17, <1>18 DEF IInv

\* What write does to the upload, whatever becomes of the bytes.
LEMMA Written ==
    ASSUME IInv, NEW s \in Sessions, NEW k \in 1 .. Frame, FileData(s, k)
    PROVE  \E w \in InProgress :
            /\ w # None /\ up' = [up EXCEPT ![s] = w]
            /\ w.u = up[s].u /\ w.name = up[s].name /\ w.part = up[s].part
            /\ w.left = up[s].left - k
            /\ \/ /\ w.err = up[s].err /\ Proceed(s, w.left)
                  /\ IF w.part THEN part' = [part EXCEPT ![w.name] =
                                    @ \cup Units(w.u, w.u.size - up[s].left + 1,
                                                 w.u.size - up[s].left + k)]
                               ELSE part' = part
               \/ w.err /\ w.part /\ Goto(s, "undo") /\ part' = part
<1> DEFINE v == up[s]
           w1 == [v EXCEPT !.left = v.left - k]
           w2 == [v EXCEPT !.left = v.left - k, !.err = TRUE]
<1>1. v \in InProgress /\ v # None /\ k \in Nat /\ k <= v.left
    BY UploadAssumption DEF FileData, Fits, IInv, TypeOK, LoopType
<1>2. v.left - k \in Nat
    BY <1>1 DEF InProgress
<1>3. w1 \in InProgress /\ w2 \in InProgress
    BY <1>1, <1>2, TRUE \in BOOLEAN DEF InProgress
<1>4. w1 # None /\ w2 # None
    BY <1>3, NoneAssumption
<1>5. /\ w1.u = v.u /\ w1.name = v.name /\ w1.part = v.part
      /\ w1.left = v.left - k /\ w1.err = v.err
    BY <1>1 DEF InProgress
<1>6. /\ w2.u = v.u /\ w2.name = v.name /\ w2.part = v.part
      /\ w2.left = v.left - k /\ w2.err = TRUE
    BY <1>1 DEF InProgress
<1>7. \/ /\ up' = [up EXCEPT ![s] = w1] /\ Proceed(s, v.left - k)
         /\ IF v.part THEN part' = [part EXCEPT ![v.name] =
                                @ \cup Units(v.u, v.u.size - v.left + 1,
                                             v.u.size - v.left + k)]
                      ELSE part' = part
      \/ /\ up' = [up EXCEPT ![s] = w2] /\ v.part /\ Goto(s, "undo")
         /\ part' = part
    BY DEF FileData
<1> HIDE DEF v, w1, w2
<1>8. CASE up' = [up EXCEPT ![s] = w1]
    BY <1>3, <1>4, <1>5, <1>6, <1>7, <1>8 DEF v
<1>9. CASE up' = [up EXCEPT ![s] = w2]
    BY <1>3, <1>4, <1>5, <1>6, <1>7, <1>9 DEF v
<1> QED
    BY <1>7, <1>8, <1>9

LEMMA FileDataStep ==
    ASSUME IInv, NEW s \in Sessions, NEW k \in 1 .. Frame, FileData(s, k)
    PROVE  IInv'
<1> DEFINE old == up[s].left
<1>1. PICK w \in InProgress :
        /\ w # None /\ up' = [up EXCEPT ![s] = w]
        /\ w.u = up[s].u /\ w.name = up[s].name /\ w.part = up[s].part
        /\ w.left = old - k
        /\ \/ /\ w.err = up[s].err /\ Proceed(s, w.left)
              /\ IF w.part THEN part' = [part EXCEPT ![w.name] =
                                @ \cup Units(w.u, w.u.size - old + 1, w.u.size - old + k)]
                           ELSE part' = part
           \/ w.err /\ w.part /\ Goto(s, "undo") /\ part' = part
    BY Written
<1>2. /\ up[s] # None /\ pc[s] = "frames" /\ k \in Nat
      /\ w.u \in Uploads /\ w.name \in Names /\ w.u.size \in Nat
      /\ old \in Nat /\ w.left \in Nat /\ old <= w.u.size
    BY <1>1, UploadAssumption
    DEF FileData, Fits, IInv, TypeOK, LoopType, InProgress, Uploads, MineInv
<1> HIDE DEF old
<1>3. /\ up'[s] = w /\ up' \in [Sessions -> InProgress \cup {None}]
      /\ \A t \in Sessions : t # s => up'[t] = up[t]
    BY <1>1 DEF IInv, TypeOK, LoopType
<1>4. /\ pc'[s] \in {"frames", "finish", "undo"}
      /\ pc'[s] = "finish" => w.left = 0
      /\ pc'[s] = "undo" => w.err /\ w.part
      /\ pc'[s] # "undo" => (w.err <=> up[s].err)
      /\ \A t \in Sessions : t # s => pc'[t] = pc[t]
      /\ pc' \in [Sessions -> {"frames", "input", "undo", "finish", "discard", "answer",
                               "abort", "returned"}]
    BY <1>1 DEF Goto, Proceed, IInv, TypeOK, LoopType
<1>5. \A t \in Sessions : \A n \in Names : Holds(t, n)' <=> Holds(t, n)
    BY <1>1, <1>2, <1>3 DEF Holds
<1>6. TypeOK'
    <2>1. LoopType'
        BY <1>3, <1>4 DEF FileData, IInv, TypeOK, LoopType
    <2>2. part' \in [Names -> SUBSET (Uploads \X Nat)]
        <3>1. Units(w.u, w.u.size - old + 1, w.u.size - old + k)
                    \subseteq Uploads \X Nat
            BY <1>2 DEF Units
        <3> QED
            BY <1>1, <1>2, <3>1 DEF IInv, TypeOK, DirType
    <2> QED
        BY <2>1, <2>2 DEF FileData, IInv, TypeOK, DirType, HistoryType
<1>7. MineInv'
    <2>1. w.left <= w.u.size
        BY <1>1, <1>2
    <2> QED
        BY <1>1, <1>2, <1>3, <2>1 DEF FileData, IInv, MineInv
<1>8. PlaceInv'
    <2>1. w.u \notin placed /\ (pc'[s] # "undo" => (w.part <=> ~w.err))
        BY <1>1, <1>2, <1>4 DEF IInv, PlaceInv
    <2>2. placed' = placed
        BY DEF FileData
    <2> QED
        BY <1>1, <1>3, <1>4, <2>1, <2>2 DEF IInv, PlaceInv
<1>9. HoldInv'
    <2>1. parts' = parts /\ orphans' = orphans /\ parts \subseteq Names
        BY DEF FileData, IInv, TypeOK, DirType
    <2> QED
        BY <1>5, <2>1 DEF IInv, HoldInv, PartsOwned
<1>10. ContentInv'
    <2> SUFFICES ASSUME NEW t \in Sessions, up'[t] # None, up'[t].part,
                        pc'[t] \in {"frames", "input", "finish"}
                 PROVE  part'[up'[t].name]
                            = Units(up'[t].u, 1, up'[t].u.size - up'[t].left)
        BY DEF ContentInv
    <2>1. CASE t = s
        <3>1. part[w.name] = Units(w.u, 1, w.u.size - old)
            BY <1>1, <1>2, <1>3, <2>1 DEF IInv, ContentInv, old
        <3>2. part'[w.name] = part[w.name]
                    \cup Units(w.u, w.u.size - old + 1, w.u.size - old + k)
            BY <1>1, <1>2, <1>3, <2>1 DEF Goto, IInv, TypeOK, LoopType, DirType
        <3>3. /\ w.u.size - old \in Nat
              /\ w.u.size - old + k = w.u.size - w.left
            BY <1>1, <1>2
        <3>4. part'[w.name] = Units(w.u, 1, w.u.size - old + k)
            <4> DEFINE m == w.u.size - old
            <4>1. m \in Nat /\ k \in Nat
                BY <1>2, <3>3
            <4> HIDE DEF m
            <4>2. Units(w.u, 1, m) \cup Units(w.u, m + 1, m + k) = Units(w.u, 1, m + k)
                BY <4>1, MoreUnits, Zenon
            <4> QED
                BY <3>1, <3>2, <4>2 DEF m
        <3> QED
            BY <1>3, <2>1, <3>3, <3>4
    <2>2. CASE t # s
        <3>1. up'[t] = up[t] /\ pc'[t] = pc[t]
            BY <1>3, <1>4, <2>2
        <3>2. up[t].name \in Names /\ Holds(t, up[t].name)
            BY <3>1 DEF IInv, TypeOK, LoopType, InProgress, Holds
        <3>3. w.part => up[t].name # w.name
            BY <1>1, <1>2, <2>2, <3>2 DEF Holds, IInv, HoldInv, PartsOwned
        <3>4. part'[up[t].name] = part[up[t].name]
            BY <1>1, <3>2, <3>3 DEF IInv, TypeOK, DirType
        <3> QED
            BY <3>1, <3>4 DEF IInv, ContentInv
    <2> QED
        BY <2>1, <2>2
<1> QED
    BY <1>6, <1>7, <1>8, <1>9, <1>10
    DEF FileData, IInv, PastInv, FilesWhole, AnswersTrue

-----------------------------------------------------------------------------
(* The theorems *)

LEMMA StepIInv == IInv /\ [Next]_vars => IInv'
<1> SUFFICES ASSUME IInv, [Next]_vars PROVE IInv'
    OBVIOUS
<1>1. CASE UNCHANGED vars
    BY <1>1 DEF vars, loopVars, dirVars, IInv, TypeOK, LoopType, DirType, HistoryType,
        MineInv, PastInv, PlaceInv, HoldInv, PartsOwned, Holds, ContentInv,
        FilesWhole, AnswersTrue
<1>2. ASSUME NEW s \in Sessions, Input(s) PROVE IInv'
    BY <1>2, FileFrameStep, FileDataStep, UndoStep, BadFrameStep, InputDataStep,
       InputWrittenStep, InputEndsStep,
       RenameStep, RenameFailsStep, DiscardStep, FinishFailedStep, AnswerStep,
       AnswerDroppedStep, AbortStep DEF Input
<1> QED
    BY <1>1, <1>2, ViewerEndsStep, CrashStep DEF Next

LEMMA Invariant == Spec => []IInv
<1> HIDE DEF IInv
<1> QED
    BY InitIInv, StepIInv, PTL DEF Spec

\* Every variable keeps to its values, whatever the sessions send.
THEOREM TypeCorrect == Spec => []TypeOK
<1>1. IInv => TypeOK
    BY DEF IInv
<1> QED
    BY <1>1, Invariant, PTL

\* No name ever holds part of an upload, or parts of two: the input loops that
\* share the directory keep apart by O_EXCL alone.
THEOREM WholeOrNothing == Spec => []FilesWhole
<1>1. IInv => FilesWhole
    BY DEF IInv
<1> QED
    BY <1>1, Invariant, PTL

\* The answer to an upload says what became of it.
THEOREM AnswersTell == Spec => []AnswersTrue
<1>1. IInv => AnswersTrue
    BY DEF IInv
<1> QED
    BY <1>1, Invariant, PTL

\* Every partial file that no crash and no failing removal left behind has one
\* owner, which will rename or remove it.
THEOREM PartsHaveOwners == Spec => []PartsOwned
<1>1. IInv => PartsOwned
    BY DEF IInv, HoldInv
<1> QED
    BY <1>1, Invariant, PTL

-----------------------------------------------------------------------------
(* Every step is a step of UploadStore, or none *)

PasteMap   == [s \in Sessions |-> PasteOf(s)]
SessionMap == [s \in Sessions |-> SessionOf(s)]

\* A paste is an upload without its partial file.
LEMMA PasteTyped ==
    ASSUME IInv, NEW s \in Sessions, up[s] # None
    PROVE  /\ PasteOf(s) \in Pastes /\ PasteOf(s) # None
           /\ PasteOf(s) = [u |-> up[s].u, name |-> up[s].name, left |-> up[s].left,
                            outcome |-> OutcomeOf(s)]
<1>1. up[s] \in InProgress
    BY DEF IInv, TypeOK, LoopType
<1>2. OutcomeOf(s) \in Outcomes
    BY DEF OutcomeOf, Outcomes
<1>3. PasteOf(s) \in Pastes
    BY <1>1, <1>2 DEF PasteOf, Pastes, InProgress
<1> QED
    BY <1>3, NoneAssumption DEF PasteOf

\* A step of one input loop is one of its paste and of no other.
LEMMA PasteMoves ==
    ASSUME NEW s \in Sessions, NEW w, up \in [Sessions -> InProgress \cup {None}],
           up' = [up EXCEPT ![s] = w], placed' = placed
    PROVE  /\ PasteMap' = [PasteMap EXCEPT ![s] = PasteOf(s)']
           /\ up'[s] = w
           /\ PasteOf(s)' = IF w = None THEN None
                            ELSE [u |-> w.u, name |-> w.name, left |-> w.left,
                                  outcome |-> IF w.err THEN "failed"
                                              ELSE IF w.u \in placed THEN "saved" ELSE "none"]
<1>1. up'[s] = w /\ \A t \in Sessions : t # s => up'[t] = up[t]
    OBVIOUS
<1>2. ASSUME NEW t \in Sessions, t # s PROVE PasteOf(t)' = PasteOf(t)
    BY <1>1, <1>2 DEF PasteOf, OutcomeOf
<1> QED
    BY <1>1, <1>2 DEF PasteMap, PasteOf, OutcomeOf

\* What the loops do with partial files, and where they are, is not seen.
LEMMA NothingSeen ==
    ASSUME UNCHANGED <<up, gone, begun, file, placed, told>>,
           \A s \in Sessions : pc'[s] = "returned" <=> pc[s] = "returned"
    PROVE  UNCHANGED Store!vars
<1>1. PasteMap' = PasteMap
    BY DEF PasteMap, PasteOf, OutcomeOf
<1>2. SessionMap' = SessionMap
    BY DEF SessionMap, SessionOf
<1> QED
    BY <1>1, <1>2 DEF Store!vars, PasteMap, SessionMap

\* A loop that does not return leaves its session as it is.
LEMMA SessionStays ==
    ASSUME IInv, NEW s \in Sessions, NEW l, l # "returned", Goto(s, l),
           pc[s] # "returned", UNCHANGED gone
    PROVE  SessionMap' = SessionMap
<1>1. \A t \in Sessions : pc'[t] = "returned" <=> pc[t] = "returned"
    BY DEF Goto, IInv, TypeOK, LoopType
<1> QED
    BY <1>1 DEF SessionMap, SessionOf

LEMMA FileFrameSimulated ==
    ASSUME IInv, NEW s \in Sessions, NEW n \in Names, NEW size \in Sizes, FileFrame(s, n, size)
    PROVE  Store!Next
<1>1. PICK opened \in BOOLEAN :
        /\ ~opened => n \notin Plain \/ n \in parts \/ "open" \in Faults
        /\ opened => n \in Plain
        /\ up' = [up EXCEPT ![s] =
                    [u |-> [by |-> s, no |-> begun', size |-> size],
                     name |-> n, left |-> size, part |-> opened, err |-> ~opened]]
    BY DEF FileFrame
<1> DEFINE u == [by |-> s, no |-> begun', size |-> size]
           w == [u |-> u, name |-> n, left |-> size, part |-> opened, err |-> ~opened]
           o == IF opened THEN "none" ELSE "failed"
<1>2. begun' = begun + 1 /\ begun \in Nat /\ size \in Nat /\ u \in Uploads
    BY UploadAssumption DEF FileFrame, IInv, TypeOK, LoopType, Uploads
<1>3. u \notin placed
    BY <1>2 DEF IInv, PastInv
<1>3a. w \in InProgress
    BY <1>2 DEF InProgress
<1>4. w # None
    BY <1>3a, NoneAssumption
<1>5. /\ PasteMap' = [PasteMap EXCEPT ![s] = PasteOf(s)']
      /\ PasteOf(s)' = [u |-> u, name |-> n, left |-> size, outcome |-> o]
    BY <1>1, <1>3, <1>4, PasteMoves DEF FileFrame, IInv, TypeOK, LoopType
<1>6. SessionMap' = SessionMap
    BY SessionStays DEF FileFrame, Proceed
<1>7. SessionMap[s] # "closed" /\ PasteMap[s] = None
    BY DEF FileFrame, SessionMap, SessionOf, PasteMap, PasteOf
<1>8. Store!Announce(s, n, size, o)
    BY <1>1, <1>2, <1>5, <1>6, <1>7
    DEF FileFrame, Store!Announce, Store!Becomes, Store!Paste, PasteMap, SessionMap
<1> QED
    BY <1>8 DEF Store!Next

LEMMA FileDataSimulated ==
    ASSUME IInv, NEW s \in Sessions, NEW k \in 1 .. Frame, FileData(s, k)
    PROVE  Store!Next
<1> DEFINE left == up[s].left - k
<1>1. /\ up[s] # None /\ up[s] \in InProgress /\ k <= up[s].left
      /\ pc[s] = "frames" /\ up[s].u \notin placed /\ (up[s].part <=> ~up[s].err)
    BY DEF FileData, Fits, IInv, TypeOK, LoopType, PlaceInv
<1>2. left \in Nat
    BY <1>1, UploadAssumption DEF InProgress
<1>3. PICK o \in {"none", "failed"}, w \in InProgress :
        /\ up' = [up EXCEPT ![s] = w]
        /\ w.u = up[s].u /\ w.name = up[s].name /\ w.left = left
        /\ (IF w.err THEN "failed" ELSE IF w.u \in placed THEN "saved" ELSE "none") = o
        /\ up[s].err => o = "failed"
    <2> DEFINE v == [up[s] EXCEPT !.left = left]
               f == [up[s] EXCEPT !.left = left, !.err = TRUE]
    <2>1. v \in InProgress /\ f \in InProgress
        BY <1>1, <1>2 DEF InProgress
    <2>2. up' = [up EXCEPT ![s] = v] \/ up' = [up EXCEPT ![s] = f]
        BY DEF FileData
    <2>3. /\ v.u = up[s].u /\ v.name = up[s].name /\ v.left = left /\ v.err = up[s].err
          /\ f.u = up[s].u /\ f.name = up[s].name /\ f.left = left /\ f.err = TRUE
        BY <1>1 DEF InProgress
    <2> HIDE DEF v, f
    <2>4. CASE up' = [up EXCEPT ![s] = v]
        BY <1>1, <2>1, <2>3, <2>4
    <2>5. CASE up' = [up EXCEPT ![s] = f]
        BY <1>1, <2>1, <2>3, <2>5
    <2> QED
        BY <2>2, <2>4, <2>5
<1>4. w # None
    BY NoneAssumption
<1>5. /\ PasteMap' = [PasteMap EXCEPT ![s] = PasteOf(s)']
      /\ PasteOf(s)' = [u |-> up[s].u, name |-> up[s].name, left |-> left, outcome |-> o]
    BY <1>3, <1>4, PasteMoves DEF FileData, IInv, TypeOK, LoopType
<1>6. SessionMap' = SessionMap
    BY <1>1, SessionStays DEF FileData, Proceed
<1>7. /\ PasteMap[s] = PasteOf(s) /\ PasteOf(s) # None
      /\ PasteOf(s) = [u |-> up[s].u, name |-> up[s].name, left |-> up[s].left,
                       outcome |-> OutcomeOf(s)]
      /\ OutcomeOf(s) = "failed" => up[s].err
    BY <1>1, PasteTyped DEF PasteMap, OutcomeOf
<1>8. Store!Receive(s, k, o)
    <2>1. PasteMap[s] # None /\ k <= PasteMap[s].left
          /\ (PasteMap[s].outcome = "failed" => o = "failed")
        BY <1>1, <1>3, <1>7
    <2>2. PasteMap' = [PasteMap EXCEPT ![s] =
              Store!Paste(PasteMap[s].u, PasteMap[s].name, PasteMap[s].left - k, o)]
        BY <1>5, <1>7 DEF Store!Paste
    <2>3. UNCHANGED <<begun, file, told>>
        BY DEF FileData
    <2> QED
        BY <1>6, <2>1, <2>2, <2>3
        DEF Store!Receive, Store!Goes, Store!Becomes, PasteMap, SessionMap
<1> QED
    BY <1>8 DEF Store!Next

LEMMA UndoSimulated ==
    ASSUME IInv, NEW s \in Sessions, Undo(s)
    PROVE  UNCHANGED Store!vars
<1>1. up[s] # None /\ up[s] \in InProgress /\ pc[s] = "undo"
    BY DEF Undo, IInv, PlaceInv, TypeOK, LoopType
<1>2. up' = [up EXCEPT ![s] = [up[s] EXCEPT !.part = FALSE]]
    BY <1>1 DEF Undo
<1>3. [up[s] EXCEPT !.part = FALSE] \in InProgress
    BY <1>1 DEF InProgress
<1>4. [up[s] EXCEPT !.part = FALSE] # None
    BY <1>3, NoneAssumption
<1>5. /\ PasteMap' = [PasteMap EXCEPT ![s] = PasteOf(s)']
      /\ up'[s] = [up[s] EXCEPT !.part = FALSE]
    BY <1>2, PasteMoves DEF Undo, IInv, TypeOK, LoopType
<1>6. PasteOf(s)' = PasteOf(s)
    BY <1>1, <1>4, <1>5 DEF PasteOf, OutcomeOf, Undo, InProgress
<1>7. PasteMap' = PasteMap
    BY <1>5, <1>6 DEF PasteMap
<1>8. SessionMap' = SessionMap
    BY <1>1, SessionStays DEF Undo, Proceed
<1> QED
    BY <1>7, <1>8 DEF Store!vars, PasteMap, SessionMap, Undo

LEMMA UnseenSimulated ==
    ASSUME IInv, NEW s \in Sessions,
           \/ BadFrame(s) \/ InputData(s) \/ InputWritten(s) \/ InputEnds(s)
           \/ RenameFails(s) \/ FinishFailed(s)
    PROVE  UNCHANGED Store!vars
<1>1. UNCHANGED <<up, gone, begun, file, placed, told>>
    BY DEF BadFrame, InputData, InputWritten, InputEnds, RenameFails, FinishFailed, dirVars
<1>2. \A t \in Sessions : pc'[t] = "returned" <=> pc[t] = "returned"
    BY DEF BadFrame, InputData, InputWritten, InputEnds, RenameFails, FinishFailed, Goto,
       IInv, TypeOK, LoopType
<1> QED
    BY <1>1, <1>2, NothingSeen

\* What a loop that finishes an upload knows of the paste.
LEMMA Finishing ==
    ASSUME IInv, NEW s \in Sessions, pc[s] \in {"finish", "discard", "answer"}, up[s] # None
    PROVE  /\ up[s] \in InProgress /\ up[s].left = 0
           /\ PasteMap[s] = Store!Paste(up[s].u, up[s].name, 0, OutcomeOf(s))
           /\ PasteMap[s] # None
<1>1. up[s] \in InProgress /\ up[s].left = 0
    BY DEF IInv, TypeOK, LoopType, PlaceInv
<1> QED
    BY <1>1, PasteTyped DEF PasteMap, Store!Paste

LEMMA RenameSimulated ==
    ASSUME IInv, NEW s \in Sessions, Rename(s)
    PROVE  Store!Save(s)
<1> DEFINE w == [up[s] EXCEPT !.part = FALSE]
<1>1. /\ pc[s] = "finish" /\ up[s].part /\ up[s] # None /\ ~up[s].err
      /\ up[s].u \notin placed
    BY DEF Rename, IInv, PlaceInv
<1>2. /\ up[s] \in InProgress /\ up[s].left = 0
      /\ PasteMap[s] = Store!Paste(up[s].u, up[s].name, 0, "none") /\ PasteMap[s] # None
    BY <1>1, Finishing DEF OutcomeOf
<1>3. w \in InProgress
    BY <1>2 DEF InProgress
<1>4. /\ w # None /\ w.u = up[s].u /\ w.name = up[s].name /\ w.left = 0 /\ ~w.err
    BY <1>1, <1>2, <1>3, NoneAssumption DEF InProgress
<1> HIDE DEF w
<1>5. /\ up'[s] = w /\ placed' = placed \cup {up[s].u}
      /\ \A t \in Sessions : t # s => up'[t] = up[t]
    BY DEF Rename, IInv, TypeOK, LoopType, w
<1>6. ASSUME NEW t \in Sessions, t # s PROVE PasteOf(t)' = PasteOf(t)
    <2>1. up[t] # None => up[t].u # up[s].u
        BY <1>1, <1>6 DEF IInv, MineInv
    <2> QED
        BY <1>5, <1>6, <2>1 DEF PasteOf, OutcomeOf
<1>7. PasteOf(s)' = Store!Paste(up[s].u, up[s].name, 0, "saved")
    BY <1>4, <1>5 DEF PasteOf, OutcomeOf, Store!Paste
<1>8. PasteMap' = [PasteMap EXCEPT ![s] = Store!Paste(up[s].u, up[s].name, 0, "saved")]
    BY <1>6, <1>7 DEF PasteMap
<1>9. file' = [file EXCEPT ![up[s].name] = Store!Whole(up[s].u)]
    <2>1. up[s].u.size \in Nat
        BY <1>2 DEF InProgress, Uploads
    <2>2. part[up[s].name] = Units(up[s].u, 1, up[s].u.size)
        BY <1>1, <1>2, <2>1 DEF IInv, ContentInv
    <2> QED
        BY <2>2 DEF Rename, Store!Whole, Units
<1>10. SessionMap' = SessionMap
    BY <1>1, SessionStays DEF Rename
<1>11. /\ PasteMap[s].u = up[s].u /\ PasteMap[s].name = up[s].name
       /\ PasteMap[s].left = 0 /\ PasteMap[s].outcome = "none"
    BY <1>2 DEF Store!Paste
<1>12. UNCHANGED <<begun, told>>
    BY DEF Rename
<1> QED
    BY <1>2, <1>8, <1>9, <1>10, <1>11, <1>12
    DEF Store!Save, Store!Received, Store!Goes, Store!Becomes, PasteMap, SessionMap

LEMMA DiscardSimulated ==
    ASSUME IInv, NEW s \in Sessions, Discard(s)
    PROVE  Store!Fail(s)
<1> DEFINE w == [up[s] EXCEPT !.part = FALSE, !.err = TRUE]
<1>1. pc[s] = "discard" /\ up[s] # None /\ ~up[s].err /\ up[s].u \notin placed
    BY DEF Discard, IInv, PlaceInv
<1>2. /\ up[s] \in InProgress /\ up[s].left = 0
      /\ PasteMap[s] = Store!Paste(up[s].u, up[s].name, 0, "none") /\ PasteMap[s] # None
    BY <1>1, Finishing DEF OutcomeOf
<1>3. w \in InProgress
    BY <1>2, TRUE \in BOOLEAN, FALSE \in BOOLEAN DEF InProgress
<1>4. /\ w # None /\ w.u = up[s].u /\ w.name = up[s].name /\ w.left = up[s].left
      /\ w.err = TRUE
    <2>1. w # None
        BY <1>3, NoneAssumption
    <2> QED
        BY <1>2, <2>1 DEF InProgress
<1>5. up' = [up EXCEPT ![s] = w] /\ placed' = placed
    BY DEF Discard, Keeps
<1> HIDE DEF w
<1>6. PasteMap' = [PasteMap EXCEPT ![s] = Store!Paste(up[s].u, up[s].name, 0, "failed")]
    <2>1. up \in [Sessions -> InProgress \cup {None}]
        BY DEF IInv, TypeOK, LoopType
    <2>2. /\ PasteMap' = [PasteMap EXCEPT ![s] = PasteOf(s)']
          /\ PasteOf(s)' = [u |-> w.u, name |-> w.name, left |-> w.left,
                            outcome |-> IF w.err THEN "failed"
                                        ELSE IF w.u \in placed THEN "saved" ELSE "none"]
        BY <1>4, <1>5, <2>1, PasteMoves
    <2> QED
        BY <1>2, <1>4, <2>2 DEF Store!Paste
<1>7. SessionMap' = SessionMap
    BY <1>1, SessionStays DEF Discard
<1>8. /\ PasteMap[s].u = up[s].u /\ PasteMap[s].name = up[s].name
      /\ PasteMap[s].left = 0 /\ PasteMap[s].outcome = "none"
    BY <1>2 DEF Store!Paste
<1>9. UNCHANGED <<begun, file, told>>
    BY DEF Discard
<1> QED
    BY <1>2, <1>6, <1>7, <1>8, <1>9
    DEF Store!Fail, Store!Received, Store!Goes, Store!Becomes, PasteMap, SessionMap

LEMMA AnswerSimulated ==
    ASSUME IInv, NEW s \in Sessions, Answer(s) \/ AnswerDropped(s)
    PROVE  Store!Next
<1> DEFINE o == IF up[s].err THEN "failed" ELSE "saved"
<1>1. /\ pc[s] = "answer" /\ up[s] # None
      /\ (up[s].err <=> up[s].u \notin placed)
    BY DEF Answer, AnswerDropped, IInv, PlaceInv
<1>2. PasteMap[s] = Store!Paste(up[s].u, up[s].name, 0, o) /\ PasteMap[s] # None
    BY <1>1, Finishing DEF OutcomeOf
<1>3. /\ PasteMap[s].u = up[s].u /\ PasteMap[s].left = 0 /\ PasteMap[s].outcome = o
    BY <1>2 DEF Store!Paste
<1>4. PasteMap' = [PasteMap EXCEPT ![s] = None]
    BY PasteMoves DEF Answer, AnswerDropped, dirVars, IInv, TypeOK, LoopType
<1>5. SessionMap' = SessionMap
    BY <1>1, SessionStays DEF Answer, AnswerDropped
<1>6. o \in {"saved", "failed"}
    OBVIOUS
<1>7. CASE Answer(s)
    <2>1. told' = told \cup {<<up[s].u, o>>} /\ UNCHANGED <<begun, file>>
        BY <1>7 DEF Answer, dirVars
    <2> HIDE DEF o
    <2>2. Store!Tell(s, o)
        BY <1>2, <1>3, <1>4, <1>5, <2>1
        DEF Store!Tell, Store!Received, Store!Becomes, PasteMap, SessionMap
    <2> QED
        BY <1>6, <2>2 DEF Store!Next
<1>8. CASE AnswerDropped(s)
    <2>1. SessionMap[s] = "gone" /\ UNCHANGED <<begun, file, told>>
        BY <1>1, <1>8 DEF AnswerDropped, Gone, dirVars, SessionMap, SessionOf
    <2> HIDE DEF o
    <2>2. Store!Drop(s, o)
        BY <1>2, <1>3, <1>4, <1>5, <2>1
        DEF Store!Drop, Store!Received, Store!Becomes, PasteMap, SessionMap
    <2> QED
        BY <1>6, <2>2 DEF Store!Next
<1> QED
    BY <1>7, <1>8

LEMMA AbortSimulated ==
    ASSUME IInv, NEW s \in Sessions, Abort(s)
    PROVE  Store!Close(s)
<1>1. up[s] # None => up[s].u \notin placed
    BY DEF Abort, IInv, PlaceInv
<1>2. PasteMap[s] # None => PasteMap[s].outcome # "saved"
    BY <1>1, PasteTyped DEF PasteMap, PasteOf, OutcomeOf
<1>3. PasteMap' = [PasteMap EXCEPT ![s] = None]
    BY PasteMoves DEF Abort, IInv, TypeOK, LoopType
<1>4. SessionMap' = [SessionMap EXCEPT ![s] = "closed"]
    BY DEF Abort, Goto, SessionMap, SessionOf, IInv, TypeOK, LoopType
<1>5. UNCHANGED <<begun, file, told>>
    BY DEF Abort
<1> QED
    BY <1>2, <1>3, <1>4, <1>5 DEF Store!Close, Store!Becomes, PasteMap, SessionMap

LEMMA ViewerEndsSimulated ==
    ASSUME IInv, NEW s \in Sessions, ViewerEnds(s)
    PROVE  Store!Leave(s)
<1>1. SessionMap[s] = "open" /\ SessionMap' = [SessionMap EXCEPT ![s] = "gone"]
    BY DEF ViewerEnds, SessionMap, SessionOf, IInv, TypeOK, LoopType
<1>2. PasteMap' = PasteMap /\ UNCHANGED <<begun, file, told>>
    BY DEF ViewerEnds, dirVars, PasteMap, PasteOf, OutcomeOf
<1> QED
    BY <1>1, <1>2 DEF Store!Leave, PasteMap, SessionMap

LEMMA CrashSimulated == Crash => Store!Restart
<1> SUFFICES ASSUME Crash PROVE Store!Restart
    OBVIOUS
<1>1. SessionMap' = [s \in Sessions |-> "open"] /\ PasteMap' = [s \in Sessions |-> None]
    BY DEF Crash, SessionMap, SessionOf, PasteMap, PasteOf
<1>2. UNCHANGED <<begun, file, told>>
    BY DEF Crash
<1> QED
    BY <1>1, <1>2 DEF Store!Restart, PasteMap, SessionMap

\* The input loops of any sessions, with any failing calls and any number of crashes,
\* keep the contract of UploadStore: partial files, their removal and O_EXCL are seen
\* by nobody, a file appears whole and at once, and its answer, if one comes, is true.
THEOREM StoreImplemented == Spec => ImplementsStore
<1>1. Init => Store!Init
    BY DEF Init, Store!Init, SessionOf, PasteOf
<1>2. IInv /\ [Next]_vars => [Store!Next]_(Store!vars)
    <2> SUFFICES ASSUME IInv, [Next]_vars PROVE [Store!Next]_(Store!vars)
        OBVIOUS
    <2>1. CASE UNCHANGED vars
        BY <2>1, NothingSeen DEF vars, loopVars, dirVars
    <2>2. ASSUME NEW s \in Sessions, Input(s) PROVE [Store!Next]_(Store!vars)
        <3>1. Rename(s) \/ Discard(s) \/ Abort(s) => Store!Next
            BY RenameSimulated, DiscardSimulated, AbortSimulated DEF Store!Next
        <3> QED
            BY <2>2, <3>1, FileFrameSimulated, FileDataSimulated, UndoSimulated,
               UnseenSimulated, AnswerSimulated DEF Input
    <2>3. ASSUME NEW s \in Sessions, ViewerEnds(s) PROVE Store!Next
        BY <2>3, ViewerEndsSimulated DEF Store!Next
    <2>4. Crash => Store!Next
        BY CrashSimulated DEF Store!Next
    <2> QED
        BY <2>1, <2>2, <2>3, <2>4 DEF Next
<1> HIDE DEF IInv
<1> QED
    BY <1>1, <1>2, Invariant, PTL DEF Spec, ImplementsStore, Store!Spec

=============================================================================
