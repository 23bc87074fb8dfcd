------------------------- MODULE Credentials_proofs -------------------------
(***************************************************************************)
(* Proofs about Credentials, for any number of processes and tunnels.      *)
(***************************************************************************)
EXTENDS Credentials, TLAPS

\* A tunnel has a token that was stored for it, the old one, or none.
Own(ts) == \A t \in Tunnels : ts[t] \in {NoToken, OldToken} \cup {p \in Procs : id[p] = t}

\* The file is whole, and only a whole one has tokens.
FileInv ==
    /\ file.body # "part"
    /\ file.mode = "none" => file.body = "blank"
    /\ file.body # "whole" => file.tokens = NoTokens
    /\ Own(file.tokens)

\* What is in the temporary file, by where Store is.
TempInv == \A p \in Procs :
    /\ pc[p] \in {"create", "write", "close", "rename", "remove"} => kind[p] = "store"
    /\ pc[p] \in {"idle", "stat", "read", "create"} => temp[p] = NoFile
    /\ pc[p] \in {"close", "rename"} => temp[p] = File("private", "whole", creds[p])
    /\ pc[p] = "done" => temp[p] = NoFile \/ p \in warned

\* Store's map differs from the file's in its own tunnel and those stored since.
CredsInv == \A p \in Procs : Storing(p) =>
    /\ Own(creds[p])
    /\ \A t \in Tunnels \ {id[p]} : creds[p][t] = file.tokens[t] \/ t \in newer[p]

\* The file's answer, its mode aside.
Content(f, t) ==
    IF f.body \in {"junk", "part"} THEN "failed"
    ELSE IF f.tokens[t] = NoToken THEN "nocred" ELSE f.tokens[t]

\* A Token call that has found the file private may read it when it is no more,
\* but the file has been as it is while it was.
AnswersInv == \A p \in Procs :
    /\ Looking(p) => Answer(file, id[p]) \in answers[p]
    /\ kind[p] = "token" /\ pc[p] = "read" => Content(file, id[p]) \in answers[p]
    /\ kind[p] = "token" /\ pc[p] = "done" => result[p] \in answers[p] \cup {"failed"}

IInv == TypeOK /\ FileInv /\ TempInv /\ CredsInv /\ AnswersInv

-----------------------------------------------------------------------------
(* Files *)

LEMMA NoTokensType == NoTokens \in [Tunnels -> Tokens] /\ Own(NoTokens)
BY DEF NoTokens, Tokens, Own

LEMMA FileType ==
    ASSUME NEW m \in {"none", "private", "open"}, NEW b \in {"blank", "whole", "junk", "part"},
           NEW ts \in [Tunnels -> Tokens]
    PROVE  /\ File(m, b, ts) \in Files
           /\ File(m, b, ts).mode = m /\ File(m, b, ts).body = b /\ File(m, b, ts).tokens = ts
BY DEF File, Files

LEMMA NoFileType ==
    NoFile \in Files /\ NoFile.mode = "none" /\ NoFile.body = "blank" /\ NoFile.tokens = NoTokens
BY FileType, NoTokensType DEF NoFile

LEMMA AnswerType ==
    ASSUME NEW f \in Files, NEW t \in Tunnels
    PROVE  /\ Answer(f, t) \in Results
           /\ Content(f, t) \in Results
           /\ f.mode # "open" => Answer(f, t) = Content(f, t)
BY DEF Answer, Content, Files, Results, Tokens

-----------------------------------------------------------------------------

\* A file that may be at the path.
Sound(f) ==
    /\ f \in Files /\ f.body # "part"
    /\ f.mode = "none" => f.body = "blank"
    /\ f.body # "whole" => f.tokens = NoTokens
    /\ Own(f.tokens)

LEMMA OldFilesSound == \A f \in OldFiles : Sound(f)
<1>1. Sound(NoFile)
    BY NoFileType, NoTokensType DEF Sound
<1>2. \A m \in {"private", "open"}, b \in {"blank", "junk"} : Sound(File(m, b, NoTokens))
    BY FileType, NoTokensType DEF Sound
<1>3. ASSUME NEW m \in {"private", "open"}, NEW ts \in [Tunnels -> {OldToken, NoToken}]
      PROVE  Sound(File(m, "whole", ts))
    <2>1. ts \in [Tunnels -> Tokens] /\ Own(ts)
        BY DEF Tokens, Own
    <2> QED
        BY <2>1, FileType DEF Sound
<1>4. ASSUME NEW f \in {File(m, "whole", ts) : m \in {"private", "open"},
                            ts \in [Tunnels -> {OldToken, NoToken}]}
      PROVE  Sound(f)
    <2>1. PICK m \in {"private", "open"}, ts \in [Tunnels -> {OldToken, NoToken}] :
            f = File(m, "whole", ts)
        OBVIOUS
    <2> QED
        BY <2>1, <1>3
<1>5. ASSUME NEW f \in {File(m, b, NoTokens) : m \in {"private", "open"}, b \in {"blank", "junk"}}
      PROVE  Sound(f)
    <2>1. PICK m \in {"private", "open"}, b \in {"blank", "junk"} : f = File(m, b, NoTokens)
        OBVIOUS
    <2> QED
        BY <2>1, <1>2
<1> QED
    BY <1>1, <1>4, <1>5 DEF OldFiles

LEMMA InitIInv == Init => IInv
<1> SUFFICES ASSUME Init PROVE IInv
    OBVIOUS
<1>1. Sound(file)
    BY OldFilesSound DEF Init
<1>2. TypeOK
    BY <1>1, NoFileType, NoTokensType DEF Init, TypeOK, Sound, Results
<1>3. FileInv
    BY <1>1 DEF FileInv, Sound
<1>4. TempInv /\ CredsInv /\ AnswersInv
    BY DEF Init, TempInv, CredsInv, AnswersInv, Storing, Looking
<1> QED
    BY <1>2, <1>3, <1>4 DEF IInv

-----------------------------------------------------------------------------
(* Steps that leave the file, and the locals of Store, alone *)

\* A process goes somewhere, with some result, and nothing else changes.
LEMMA GoesKeeps ==
    ASSUME IInv, NEW p \in Procs, NEW l, NEW r \in Results, KeepFiles, KeepLocals,
           l \in {"stat", "read", "rename", "remove", "done"},
           pc' = [pc EXCEPT ![p] = l],
           result' = [result EXCEPT ![p] = r],
           l = "stat"   => pc[p] = "idle" /\ kind[p] = "store",
           l = "read"   => pc[p] = "stat" /\ file.mode = "private",
           l = "rename" => pc[p] = "close",
           l = "remove" => pc[p] \in {"write", "close", "rename"},
           l = "done"   => r \in {"usage", "failed"} /\ pc[p] \in {"idle", "stat", "read", "create"}
                           /\ (r = "usage" => kind[p] = "store")
    PROVE  IInv'
<1> USE DEF KeepFiles, KeepLocals, locals
<1>1. TypeOK'
    BY DEF IInv, TypeOK
<1>2. FileInv'
    BY DEF IInv, FileInv, Own
<1>3. TempInv'
    BY DEF IInv, TypeOK, TempInv
<1>4. CredsInv'
    BY DEF IInv, TypeOK, CredsInv, Storing, Own
<1>5. AnswersInv'
    <2>1. l = "read" => Answer(file, id[p]) = Content(file, id[p])
        BY AnswerType DEF IInv, TypeOK
    <2> QED
        BY <2>1 DEF IInv, TypeOK, AnswersInv, Looking, Answer, Content
<1> QED
    BY <1>1, <1>2, <1>3, <1>4, <1>5 DEF IInv

LEMMA BeginStep == \A p \in Procs : IInv /\ (BeginStore(p) \/ BeginToken(p)) => IInv'
<1> SUFFICES ASSUME NEW p \in Procs, IInv, BeginStore(p) \/ BeginToken(p) PROVE IInv'
    OBVIOUS
<1>1. CASE BeginStore(p)
    <2>1. CASE Goto(p, "stat") /\ UNCHANGED result
        <3>1. result' = [result EXCEPT ![p] = result[p]] /\ result[p] \in Results
            BY <2>1 DEF IInv, TypeOK
        <3> QED
            BY <1>1, <2>1, <3>1, GoesKeeps DEF BeginStore, Goto
    <2>2. ASSUME NEW r \in {"usage", "failed"}, Return(p, r) PROVE IInv'
        <3>1. r \in Results
            BY DEF Results
        <3> QED
            BY <1>1, <2>2, <3>1, GoesKeeps DEF BeginStore, Return, Goto, Result
    <2> QED
        BY <1>1, <2>1, <2>2 DEF BeginStore
<1>2. CASE BeginToken(p)
    <2> USE DEF KeepLocals, locals, Goto, Return, Result
    <2>1. Answer(file, id[p]) \in Results
        BY AnswerType DEF IInv, TypeOK
    <2>2. TypeOK' /\ FileInv'
        <3>1. UNCHANGED <<file, temp, warned, kind, id, creds, newer>>
            BY <1>2 DEF BeginToken
        <3>2. answers' \in [Procs -> SUBSET Results]
            BY <1>2, <2>1 DEF BeginToken, IInv, TypeOK
        <3>3. pc' = [pc EXCEPT ![p] = "stat"] \/ pc' = [pc EXCEPT ![p] = "done"]
            BY <1>2 DEF BeginToken
        <3>4. result' \in [Procs -> Results]
            BY <1>2 DEF BeginToken, IInv, TypeOK, Results
        <3> QED
            BY <3>1, <3>2, <3>3, <3>4 DEF IInv, TypeOK, FileInv, Own
    <2>3. TempInv' /\ CredsInv'
        BY <1>2 DEF BeginToken, IInv, TypeOK, TempInv, CredsInv, Storing, Own
    <2>4. AnswersInv'
        <3>1. UNCHANGED <<file, kind, id>>
            BY <1>2 DEF BeginToken
        <3>2. answers' = [answers EXCEPT ![p] = {Answer(file, id[p])}]
            BY <1>2 DEF BeginToken
        <3>3. \/ pc' = [pc EXCEPT ![p] = "stat"] /\ result' = result
              \/ pc' = [pc EXCEPT ![p] = "done"] /\ result' = [result EXCEPT ![p] = "failed"]
            BY <1>2 DEF BeginToken
        <3>4. \A q \in Procs : Answer(file', id'[q]) = Answer(file, id[q])
                               /\ Content(file', id'[q]) = Content(file, id[q])
            BY <3>1
        <3> QED
            BY <3>1, <3>2, <3>3, <3>4 DEF IInv, TypeOK, AnswersInv, Looking
    <2> QED
        BY <2>2, <2>3, <2>4 DEF IInv
<1> QED
    BY <1>1, <1>2

-----------------------------------------------------------------------------
(* load *)

LEMMA FailKeeps ==
    ASSUME IInv, NEW p \in Procs, pc[p] \in {"stat", "read"}, LoadFails(p), KeepFiles
    PROVE  IInv'
<1>1. "failed" \in Results
    BY DEF Results
<1> QED
    BY <1>1, GoesKeeps DEF LoadFails, Return, Goto, Result

\* What load returns is the file's tokens, those of the file at this moment.
LEMMA LoadKeeps ==
    ASSUME IInv, NEW p \in Procs, pc[p] \in {"stat", "read"}, Load(p, file.tokens), KeepFiles,
           kind[p] = "token" => Found(file.tokens, p) \in answers[p]
    PROVE  IInv'
<1> USE DEF KeepFiles
<1>1. file.tokens \in [Tunnels -> Tokens] /\ Own(file.tokens)
    BY DEF IInv, TypeOK, Files, FileInv
<1>2. CASE kind[p] = "store"
    <2>1. creds' = [creds EXCEPT ![p] = [file.tokens EXCEPT ![id[p]] = p]]
        BY <1>2 DEF Load
    <2>2. TypeOK' /\ FileInv'
        BY <1>1, <1>2, <2>1 DEF Load, Goto, IInv, TypeOK, FileInv, Own, Tokens
    <2>3. TempInv'
        BY <1>2 DEF Load, Goto, IInv, TypeOK, TempInv
    <2>4. CredsInv'
        BY <1>1, <1>2, <2>1 DEF Load, Goto, IInv, TypeOK, CredsInv, Storing, Own
    <2>5. AnswersInv'
        BY <1>2 DEF Load, Goto, IInv, TypeOK, AnswersInv, Looking
    <2> QED
        BY <2>2, <2>3, <2>4, <2>5 DEF IInv
<1>3. CASE kind[p] = "token"
    <2>1. Found(file.tokens, p) \in Results
        BY <1>1 DEF Found, Results, Tokens, IInv, TypeOK
    <2>2. TypeOK' /\ FileInv'
        <3>1. UNCHANGED <<file, temp, warned, answers, kind, id>>
            BY <1>3 DEF Load
        <3>2. pc' = [pc EXCEPT ![p] = "done"] /\ creds' = [creds EXCEPT ![p] = file.tokens]
            BY <1>3 DEF Load, Goto, Return
        <3>3. newer' = [newer EXCEPT ![p] = {}]
            BY DEF Load
        <3>4. result' \in [Procs -> Results]
            BY <1>3, <2>1 DEF Load, Return, Result, IInv, TypeOK
        <3> QED
            <4>1. TypeOK'
                BY <1>1, <3>1, <3>2, <3>3, <3>4 DEF IInv, TypeOK
            <4>2. FileInv'
                BY <3>1 DEF IInv, FileInv, Own
            <4> QED
                BY <4>1, <4>2
    <2>3. TempInv'
        BY <1>3 DEF Load, Goto, Return, Result, IInv, TypeOK, TempInv
    <2>4. CredsInv'
        BY <1>3 DEF Load, Goto, Return, Result, IInv, TypeOK, CredsInv, Storing, Own
    <2>5. AnswersInv'
        BY <1>3, <2>1 DEF Load, Goto, Return, Result, IInv, TypeOK, AnswersInv, Looking
    <2> QED
        BY <2>2, <2>3, <2>4, <2>5 DEF IInv
<1> QED
    BY <1>2, <1>3 DEF IInv, TypeOK

LEMMA LoadStep == \A p \in Procs : IInv /\ (Stat(p) \/ ReadFile(p) \/ LoadError(p)) => IInv'
<1> SUFFICES ASSUME NEW p \in Procs, IInv, Stat(p) \/ ReadFile(p) \/ LoadError(p)
             PROVE  IInv'
    OBVIOUS
<1>1. file \in Files /\ id[p] \in Tunnels
    BY DEF IInv, TypeOK
<1>2. CASE Stat(p) /\ file.mode = "none" /\ Load(p, NoTokens)
    <2>1. file.tokens = NoTokens
        BY <1>2 DEF IInv, FileInv
    <2>2. kind[p] = "token" => Found(file.tokens, p) \in answers[p]
        BY <1>1, <1>2 DEF Stat, IInv, FileInv, AnswersInv, Looking, Answer, Found
    <2> QED
        BY <1>2, <2>1, <2>2, LoadKeeps DEF Stat
<1>3. CASE Stat(p) /\ LoadFails(p)
    BY <1>3, FailKeeps DEF Stat
<1>4. CASE Stat(p) /\ ~Refused(file) /\ file.mode # "none" /\ Goto(p, "read")
           /\ UNCHANGED result /\ KeepLocals
    <2>1. result' = [result EXCEPT ![p] = result[p]] /\ result[p] \in Results
        BY <1>4 DEF IInv, TypeOK
    <2>2. file.mode = "private"
        BY <1>1, <1>4 DEF Refused, Files
    <2> QED
        BY <1>4, <2>1, <2>2, GoesKeeps DEF Stat, Goto
<1>5. CASE ReadFile(p) /\ file.mode = "none" /\ LoadMissing(p)
    <2>1. CASE kind[p] = "store"
        <3>1. file.tokens = NoTokens
            BY <1>5 DEF IInv, FileInv
        <3> QED
            BY <1>5, <2>1, <3>1, LoadKeeps DEF ReadFile, LoadMissing
    <2>2. CASE kind[p] # "store"
        BY <1>5, <2>2, FailKeeps DEF ReadFile, LoadMissing
    <2> QED
        BY <2>1, <2>2
<1>6. CASE ReadFile(p) /\ file.body \in {"blank", "whole"} /\ Load(p, file.tokens)
    <2>1. kind[p] = "token" => Found(file.tokens, p) \in answers[p]
        BY <1>6 DEF ReadFile, IInv, AnswersInv, Content, Found
    <2> QED
        BY <1>6, <2>1, LoadKeeps DEF ReadFile
<1>7. CASE ReadFile(p) /\ LoadFails(p)
    BY <1>7, FailKeeps DEF ReadFile
<1>8. CASE LoadError(p)
    BY <1>8, FailKeeps DEF LoadError
<1> QED
    BY <1>2, <1>3, <1>4, <1>5, <1>6, <1>7, <1>8 DEF Stat, ReadFile

-----------------------------------------------------------------------------
(* A file takes the place of another *)

LEMMA ReplaceKeeps ==
    ASSUME IInv, NEW f, Sound(f), Replace(f), UNCHANGED <<kind, id, creds, warned>>,
           f.mode # "open" \/ (f.body = file.body /\ f.tokens = file.tokens),
           pc' = pc \/ \E p \in Procs : kind[p] = "store" /\ pc' = [pc EXCEPT ![p] = "remove"],
           result' = result \/ \E p \in Procs : kind[p] = "store"
                                    /\ result' = [result EXCEPT ![p] = "stored"],
           temp' \in [Procs -> Files]
    PROVE  TypeOK' /\ FileInv' /\ CredsInv' /\ AnswersInv'
<1>1. \A q \in Procs : id[q] \in Tunnels /\ Answer(f, id[q]) \in Results
    BY AnswerType DEF Sound, IInv, TypeOK
<1>2. file' = f
    BY DEF Replace
<1>3. TypeOK'
    <2>1. newer' \in [Procs -> SUBSET Tunnels]
        BY DEF Replace, IInv, TypeOK
    <2>2. answers' \in [Procs -> SUBSET Results]
        BY <1>1 DEF Replace, IInv, TypeOK
    <2>3. pc' \in [Procs -> {"idle", "stat", "read", "create", "write", "close",
                             "rename", "remove", "done", "killed"}]
        BY DEF IInv, TypeOK
    <2>4. result' \in [Procs -> Results]
        BY DEF IInv, TypeOK, Results
    <2> QED
        BY <1>2, <2>1, <2>2, <2>3, <2>4 DEF Sound, IInv, TypeOK
<1>4. FileInv'
    BY <1>2 DEF Sound, FileInv, Own
<1>5. CredsInv'
    <2> SUFFICES ASSUME NEW q \in Procs, Storing(q)'
                 PROVE  Own(creds[q])' /\ \A t \in Tunnels \ {id[q]} :
                            creds[q][t] = f.tokens[t] \/ t \in newer'[q]
        BY <1>2 DEF CredsInv
    <2>1. Storing(q)
        BY DEF Storing, IInv, TypeOK
    <2>2. newer'[q] = newer[q] \cup {t \in Tunnels : f.tokens[t] # file.tokens[t]}
        BY <2>1 DEF Replace
    <2> QED
        BY <2>1, <2>2 DEF IInv, CredsInv, Own
<1>6. AnswersInv'
    <2> SUFFICES ASSUME NEW q \in Procs, kind[q] = "token"
                 PROVE  /\ Looking(q)' => Answer(f, id[q]) \in answers'[q]
                        /\ pc'[q] = "read" => Content(f, id[q]) \in answers'[q]
                        /\ pc'[q] = "done" => result'[q] \in answers'[q] \cup {"failed"}
        BY <1>2 DEF AnswersInv, Looking, Answer, Content
    <2>1. pc'[q] = pc[q] /\ result'[q] = result[q]
        BY DEF IInv, TypeOK
    <2>2. CASE Looking(q)
        <3>1. answers'[q] = answers[q] \cup {Answer(f, id[q])}
            BY <2>2 DEF Replace
        <3>2. pc[q] = "read" => Content(f, id[q]) \in answers'[q]
            <4>1. CASE f.mode # "open"
                BY <1>1, <3>1, <4>1, AnswerType DEF Sound
            <4>2. CASE f.body = file.body /\ f.tokens = file.tokens
                BY <3>1, <4>2 DEF Content, IInv, AnswersInv
            <4> QED
                BY <4>1, <4>2
        <3> QED
            BY <2>1, <2>2, <3>1, <3>2 DEF Looking
    <2>3. CASE ~Looking(q)
        <3>1. answers'[q] = answers[q]
            BY <2>3 DEF Replace
        <3>2. pc'[q] \notin {"stat", "read"}
            BY <2>1, <2>3 DEF Looking
        <3> QED
            BY <2>1, <3>1, <3>2 DEF Looking, IInv, AnswersInv
    <2> QED
        BY <2>2, <2>3
<1> QED
    BY <1>3, <1>4, <1>5, <1>6

LEMMA OperatorStep == IInv /\ (OperatorChmods \/ OperatorRemoves) => IInv'
<1> SUFFICES ASSUME IInv, OperatorChmods \/ OperatorRemoves PROVE IInv'
    OBVIOUS
<1> USE DEF locals
<1>0. temp \in [Procs -> Files] /\ file \in Files
    BY DEF IInv, TypeOK
<1>1. TypeOK' /\ FileInv' /\ CredsInv' /\ AnswersInv'
    <2>1. CASE OperatorChmods
        <3>1. PICK m \in {"private", "open"} : Replace([file EXCEPT !.mode = m])
            BY <2>1 DEF OperatorChmods
        <3>2. Sound([file EXCEPT !.mode = m])
            BY <1>0 DEF Sound, Files, IInv, FileInv
        <3>3. [file EXCEPT !.mode = m].body = file.body
              /\ [file EXCEPT !.mode = m].tokens = file.tokens
            BY <1>0 DEF Files
        <3> QED
            BY <1>0, <2>1, <3>1, <3>2, <3>3, ReplaceKeeps DEF OperatorChmods
    <2>2. CASE OperatorRemoves
        <3>1. Sound(NoFile) /\ NoFile.mode # "open"
            BY NoFileType, NoTokensType DEF Sound
        <3> QED
            BY <1>0, <2>2, <3>1, ReplaceKeeps DEF OperatorRemoves
    <2> QED
        BY <2>1, <2>2
<1>2. TempInv'
    BY DEF OperatorChmods, OperatorRemoves, IInv, TempInv
<1> QED
    BY <1>1, <1>2 DEF IInv

\* What a Store moves into place is its temporary file, whole.
LEMMA TempSound ==
    ASSUME IInv, NEW p \in Procs, pc[p] = "rename"
    PROVE  /\ Sound(temp[p]) /\ temp[p].mode = "private"
           /\ temp[p].tokens = creds[p] /\ kind[p] = "store"
<1>1. temp[p] = File("private", "whole", creds[p]) /\ creds[p] \in [Tunnels -> Tokens]
      /\ Own(creds[p]) /\ kind[p] = "store"
    BY DEF IInv, TypeOK, TempInv, CredsInv, Storing
<1> QED
    BY <1>1, FileType DEF Sound

LEMMA RenameStep == \A p \in Procs : IInv /\ Rename(p) => IInv'
<1> SUFFICES ASSUME NEW p \in Procs, IInv, Rename(p) PROVE IInv'
    OBVIOUS
<1> USE DEF locals
<1>1. temp' = [temp EXCEPT ![p] = NoFile] /\ pc' = [pc EXCEPT ![p] = "remove"]
      /\ result' = [result EXCEPT ![p] = "stored"]
    BY DEF Rename, Cleanup, Goto, Result
<1>2. temp' \in [Procs -> Files]
    BY <1>1, NoFileType DEF IInv, TypeOK
<1>3. TypeOK' /\ FileInv' /\ CredsInv' /\ AnswersInv'
    BY <1>1, <1>2, TempSound, ReplaceKeeps DEF Rename
<1>4. TempInv'
    BY <1>1, TempSound DEF Rename, IInv, TypeOK, TempInv
<1> QED
    BY <1>3, <1>4 DEF IInv

-----------------------------------------------------------------------------
(* The other steps of Store *)

LEMMA StoreStep ==
    \A p \in Procs : IInv /\ (CreateTemp(p) \/ ChmodFails(p) \/ Write(p) \/ Close(p)
                              \/ RenameFails(p) \/ Remove(p) \/ Kill(p)) => IInv'
<1> SUFFICES ASSUME NEW p \in Procs, IInv,
                    CreateTemp(p) \/ ChmodFails(p) \/ Write(p) \/ Close(p)
                        \/ RenameFails(p) \/ Remove(p) \/ Kill(p)
             PROVE  IInv'
    OBVIOUS
<1>0. "failed" \in Results /\ result[p] \in Results
    BY DEF Results, IInv, TypeOK
\* Only the temporary file changes, and where Store is.
<1>1. ASSUME NEW f \in Files, NEW l \in {"write", "close", "remove"}, NEW r \in Results,
             temp' = [temp EXCEPT ![p] = f], Goto(p, l), Result(p, r),
             UNCHANGED <<file, warned, answers>>, KeepLocals,
             l = "write" => pc[p] = "create",
             l = "close" => pc[p] = "write" /\ f = File("private", "whole", creds[p]),
             l = "remove" => pc[p] = "write"
      PROVE  IInv'
    <2> USE <1>1 DEF KeepLocals, locals, Goto, Result
    <2>1. TypeOK'
        BY DEF IInv, TypeOK
    <2>2. FileInv' /\ TempInv'
        BY DEF IInv, TypeOK, FileInv, TempInv, Own
    <2>3. CredsInv'
        BY DEF IInv, TypeOK, CredsInv, Storing, Own
    <2>4. AnswersInv'
        BY DEF IInv, TypeOK, TempInv, AnswersInv, Looking, Answer, Content
    <2> QED
        BY <2>1, <2>2, <2>3, <2>4 DEF IInv
<1>2. CASE CreateTemp(p)
    <2>1. CASE Return(p, "failed") /\ UNCHANGED temp
        BY <1>0, <1>2, <2>1, GoesKeeps DEF CreateTemp, Return, Goto, Result, KeepFiles
    <2>2. CASE temp' = [temp EXCEPT ![p] = File("private", "blank", NoTokens)]
               /\ Goto(p, "write") /\ UNCHANGED result
        <3>1. File("private", "blank", NoTokens) \in Files
            BY FileType, NoTokensType
        <3>2. Result(p, result[p])
            BY <2>2 DEF Result, IInv, TypeOK
        <3> QED
            BY <1>0, <1>1, <1>2, <2>2, <3>1, <3>2 DEF CreateTemp
    <2> QED
        BY <1>2, <2>1, <2>2 DEF CreateTemp
<1>3. CASE ChmodFails(p) \/ RenameFails(p)
    BY <1>0, <1>3, GoesKeeps DEF ChmodFails, RenameFails, Cleanup, Goto, Result
<1>4. CASE Write(p)
    <2>1. CASE temp' = [temp EXCEPT ![p] = File("private", "whole", creds[p])]
               /\ Goto(p, "close") /\ UNCHANGED result
        <3>1. File("private", "whole", creds[p]) \in Files
            BY FileType DEF IInv, TypeOK
        <3>2. Result(p, result[p])
            BY <2>1 DEF Result, IInv, TypeOK
        <3> QED
            BY <1>0, <1>1, <1>4, <2>1, <3>1, <3>2 DEF Write
    <2>2. CASE temp' = [temp EXCEPT ![p] = File("private", "part", NoTokens)]
               /\ WriteFailed(p)
        <3>1. File("private", "part", NoTokens) \in Files
            BY FileType, NoTokensType
        <3> QED
            BY <1>0, <1>1, <1>4, <2>2, <3>1 DEF Write, WriteFailed, Cleanup
    <2> QED
        BY <1>4, <2>1, <2>2 DEF Write
<1>5. CASE Close(p)
    <2>1. CASE Goto(p, "rename") /\ UNCHANGED result
        <3>1. result' = [result EXCEPT ![p] = result[p]]
            BY <2>1 DEF IInv, TypeOK
        <3> QED
            BY <1>0, <1>5, <2>1, <3>1, GoesKeeps DEF Close, Goto
    <2>2. CASE Cleanup(p, "failed")
        BY <1>0, <1>5, <2>2, GoesKeeps DEF Close, Cleanup, Goto, Result
    <2> QED
        BY <1>5, <2>1, <2>2 DEF Close
\* Its locals go.
<1>6. CASE Remove(p) \/ Kill(p)
    <2>1. /\ creds' = [creds EXCEPT ![p] = NoTokens] /\ newer' = [newer EXCEPT ![p] = {}]
          /\ UNCHANGED <<file, result, kind, id>>
        BY <1>6 DEF Remove, Kill
    <2>. PICK l \in {"done", "killed"} : pc' = [pc EXCEPT ![p] = l]
        BY <1>6 DEF Remove, Kill, Goto
    <2>2. TypeOK'
        <3>1. temp' \in [Procs -> Files] /\ warned' \subseteq Procs
            BY <1>6, NoFileType DEF Remove, Kill, IInv, TypeOK
        <3>2. answers' \in [Procs -> SUBSET Results]
            BY <1>6 DEF Remove, Kill, IInv, TypeOK
        <3> QED
            BY <2>1, <3>1, <3>2, NoTokensType DEF IInv, TypeOK
    <2>3. FileInv'
        BY <2>1 DEF IInv, FileInv, Own
    <2>4. TempInv'
        BY <1>6, <2>1 DEF Remove, Kill, Goto, IInv, TypeOK, TempInv
    <2>5. CredsInv'
        <3> SUFFICES ASSUME NEW q \in Procs, Storing(q)'
                     PROVE  (Own(creds[q]) /\ \A t \in Tunnels \ {id[q]} :
                                creds[q][t] = file.tokens[t] \/ t \in newer[q])'
            BY DEF CredsInv
        <3>1. q # p /\ Storing(q)
            BY DEF Storing, IInv, TypeOK
        <3>2. creds'[q] = creds[q] /\ newer'[q] = newer[q]
            BY <2>1, <3>1 DEF IInv, TypeOK
        <3> QED
            BY <2>1, <3>1, <3>2 DEF IInv, CredsInv, Own
    <2>6. AnswersInv'
        BY <1>6, <2>1 DEF Remove, Kill, Goto, IInv, TypeOK, TempInv, AnswersInv, Looking, Answer,
           Content
    <2> QED
        BY <2>2, <2>3, <2>4, <2>5, <2>6 DEF IInv
<1> QED
    BY <1>2, <1>3, <1>4, <1>5, <1>6

LEMMA NextIInv == IInv /\ [Next]_vars => IInv'
<1> SUFFICES ASSUME IInv, [Next]_vars PROVE IInv'
    OBVIOUS
<1>1. CASE UNCHANGED vars
    <2> USE <1>1 DEF vars, locals
    <2>1. TypeOK' /\ FileInv' /\ TempInv'
        BY DEF IInv, TypeOK, FileInv, TempInv, Own
    <2>2. CredsInv'
        BY DEF IInv, CredsInv, Storing, Own
    <2>3. AnswersInv'
        BY DEF IInv, AnswersInv, Looking, Answer, Content
    <2> QED
        BY <2>1, <2>2, <2>3 DEF IInv
<1>2. ASSUME NEW p \in Procs, Step(p) \/ Kill(p) PROVE IInv'
    <2>1. CASE BeginStore(p) \/ BeginToken(p)
        BY <2>1, BeginStep
    <2>2. CASE Stat(p) \/ ReadFile(p) \/ LoadError(p)
        BY <2>2, LoadStep
    <2>3. CASE CreateTemp(p) \/ ChmodFails(p) \/ Write(p) \/ Close(p) \/ RenameFails(p)
                \/ Remove(p) \/ Kill(p)
        BY <2>3, StoreStep
    <2>4. CASE Rename(p)
        BY <2>4, RenameStep
    <2> QED
        BY <1>2, <2>1, <2>2, <2>3, <2>4 DEF Step
<1> QED
    BY <1>1, <1>2, OperatorStep DEF Next

LEMMA Invariance == Spec => []IInv
<1> HIDE DEF IInv
<1> QED
    BY InitIInv, NextIInv, PTL DEF Spec

-----------------------------------------------------------------------------
(* The theorems *)

\* Types, and that Token returns a token or an error.
THEOREM TypeCorrect == Spec => []TypeOK
<1>1. IInv => TypeOK
    BY DEF IInv
<1> QED
    BY <1>1, Invariance, PTL

\* The file is whole, and no tunnel has another's token, whatever fails and whoever
\* is killed, for any number of processes and tunnels.
THEOREM NeverCutShort == Spec => []FileWhole
<1>1. IInv => FileWhole
    BY DEF IInv, FileInv, Own, FileWhole
<1> QED
    BY <1>1, Invariance, PTL

\* Token's two looks at the file come to an answer it had during the call.
THEOREM AnswersHeld == Spec => []TokenAnswers
<1>1. IInv => TokenAnswers
    BY DEF IInv, AnswersInv, TokenAnswers
<1> QED
    BY <1>1, Invariance, PTL

\* No Store that returns leaves a token lying about without a word.
THEOREM NothingLyingAbout == Spec => []TempsGone
<1>1. IInv => TempsGone
    BY DEF IInv, TempInv, TempsGone
<1> QED
    BY <1>1, Invariance, PTL

\* A Store undoes only what was stored since it loaded the file.
THEOREM OthersKept == Spec => KeepsOthers
<1>1. IInv /\ [Next]_vars =>
        [\A p \in Procs : Rename(p) =>
            \A t \in Tunnels \ {id[p]} : file'.tokens[t] = file.tokens[t] \/ t \in newer[p]]_vars
    <2> SUFFICES ASSUME IInv, NEW p \in Procs, Rename(p), NEW t \in Tunnels \ {id[p]}
                 PROVE  file'.tokens[t] = file.tokens[t] \/ t \in newer[p]
        OBVIOUS
    <2>1. file' = temp[p] /\ pc[p] = "rename"
        BY DEF Rename, Replace
    <2> QED
        BY <2>1, TempSound DEF IInv, CredsInv, Storing
<1> QED
    BY <1>1, Invariance, PTL DEF Spec, KeepsOthers

=============================================================================
