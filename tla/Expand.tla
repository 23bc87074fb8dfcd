------------------------------- MODULE Expand -------------------------------
(***************************************************************************)
(* --expand-env (cmd/meandr/expand.go): one argument of the command is     *)
(* read from left to right, and each reference to a variable it names is   *)
(* replaced.  The arguments are expanded one by one, each on its own.      *)
(*                                                                         *)
(* A character is a member of a small set; a name and a value are          *)
(* sequences of them.  The early return for an argument without a dollar   *)
(* gives what the loop gives, and is left out.                             *)
(***************************************************************************)
EXTENDS Naturals, Sequences

CONSTANTS
    Chars,      \* characters
    Letters,    \* characters a name may start with
    Digits,     \* those it may go on with besides
    Names,      \* names of variables there may be
    Unset       \* the value of a variable that is not there

ASSUME ExpandAssumption ==
    /\ {"$", "{", "}"} \cup Letters \cup Digits \subseteq Chars
    /\ {"$", "{", "}"} \cap (Letters \cup Digits) = {}
    /\ Names \subseteq Seq(Chars)
    /\ Unset \notin Seq(Chars)

VARIABLES
    environ,    \* this process's environment: a value or Unset for each name
    loaded,     \* --env-url's variables
    arg,        \* the argument
    argAt,      \* i + 1: the next character to read, 0 before it begins
    argOut      \* what has been written

argVars == <<arg, argAt, argOut>>

ExpandInit == arg = <<>> /\ argAt = 0 /\ argOut = <<>>

-----------------------------------------------------------------------------

NameChars == Letters \cup Digits

ValidName(n) ==
    /\ n # <<>> /\ n[1] \in Letters
    /\ \A i \in 2 .. Len(n) : n[i] \in NameChars

\* environLookup: the loaded variables first.
Known(n) == n \in Names /\ (loaded[n] # Unset \/ environ[n] # Unset)
Value(n) == IF loaded[n] # Unset THEN loaded[n] ELSE environ[n]

From(i, j) == SubSeq(arg, i, j)

\* The least index from i on whose character is in none of the chars, or one
\* past the end.
EndOfRun(i, chars) ==
    CHOOSE j \in i .. Len(arg) + 1 :
        /\ \A k \in i .. j - 1 : arg[k] \in chars
        /\ j <= Len(arg) => arg[j] \notin chars

\* The name in ${NAME}, and in $NAME, when the dollar is at i.
Braced(i) ==
    LET Ends == {j \in i + 2 .. Len(arg) : arg[j] = "}"}
    IN  IF Ends = {} THEN <<>>
        ELSE From(i + 2, (CHOOSE j \in Ends : \A k \in Ends : j <= k) - 1)
Bare(i)   == From(i + 1, EndOfRun(i + 1, NameChars) - 1)

Write(s, read) ==
    /\ argOut' = argOut \o s /\ argAt' = argAt + read
    /\ UNCHANGED <<arg, environ, loaded>>

Reading == argAt \in 1 .. Len(arg)
Dollar  == Reading /\ arg[argAt] = "$" /\ argAt < Len(arg)
Next1   == arg[argAt + 1]

BracedKnown == Known(Braced(argAt)) /\ ValidName(Braced(argAt))
BareKnown   == Known(Bare(argAt))

ExpandBegins(a) ==
    /\ argAt = 0 /\ argAt' = 1 /\ arg' = a /\ argOut' = <<>>
    /\ UNCHANGED <<environ, loaded>>

CopyChar == Reading /\ ~Dollar /\ Write(<<arg[argAt]>>, 1)

WriteDollar == Dollar /\ Next1 = "$" /\ Write(<<"$">>, 2)

OnlyTheName == Len(Braced(argAt)) + 2   \* mutant: the brace is read again
BracedRead  == Len(Braced(argAt)) + 3
BareRead    == Len(Bare(argAt)) + 1

ExpandBraced ==
    /\ Dollar /\ Next1 = "{" /\ BracedKnown
    /\ Write(Value(Braced(argAt)), BracedRead)

ExpandBare ==
    /\ Dollar /\ Next1 \in Letters /\ BareKnown
    /\ Write(Value(Bare(argAt)), BareRead)

\* The dollar is left as written, and what follows it is read on its own.
LeaveDollar ==
    /\ Dollar /\ Next1 # "$"
    /\ ~(Next1 = "{" /\ BracedKnown) /\ ~(Next1 \in Letters /\ BareKnown)
    /\ Write(<<"$">>, 1)

ExpandStep == CopyChar \/ WriteDollar \/ ExpandBraced \/ ExpandBare \/ LeaveDollar

ArgDone == argAt > Len(arg)

\* The argument goes to the command.
ExpandTaken == arg' = <<>> /\ argAt' = 0 /\ argOut' = <<>>

-----------------------------------------------------------------------------
(* What it guarantees *)

StartsWith(s, p) == Len(p) <= Len(s) /\ SubSeq(s, 1, Len(p)) = p
Drop(s, n)       == SubSeq(s, n + 1, Len(s))

\* The two ways to refer to the variable n at the head of s; a bare name goes on
\* for as long as it can.
InBraces(s, n) == StartsWith(s, <<"$", "{">> \o n \o <<"}">>)
IsBare(s, n)   == /\ StartsWith(s, <<"$">> \o n)
                  /\ Len(s) > Len(n) + 1 => s[Len(n) + 2] \notin NameChars

\* The variables that can be referred to, with their values.
Defined == [n \in {n \in Names : Known(n) /\ ValidName(n)} |-> Value(n)]

\* What stands at the head of s, when the variables vars are defined: how long it
\* is and what the documentation says it means.
HeadOf(vars, s) ==
    CASE StartsWith(s, <<"$", "$">>) -> [length |-> 2, means |-> <<"$">>]
      [] \E n \in DOMAIN vars : InBraces(s, n) ->
            LET n == CHOOSE n \in DOMAIN vars : InBraces(s, n)
            IN  [length |-> Len(n) + 3, means |-> vars[n]]
      [] \E n \in DOMAIN vars : IsBare(s, n) ->
            LET n == CHOOSE n \in DOMAIN vars : IsBare(s, n)
            IN  [length |-> Len(n) + 1, means |-> vars[n]]
      [] OTHER -> [length |-> 1, means |-> <<s[1]>>]

\* What each argument means: what stands at its head, then the rest on its own.
Meaning(vars) ==
    LET meant[s \in Seq(Chars)] ==
            IF s = <<>> THEN <<>>
            ELSE HeadOf(vars, s).means \o meant[Drop(s, HeadOf(vars, s).length)]
    IN  meant

\* The loop, which moves its index by hand in three places, ends with what the
\* documentation says: known names are replaced wherever they are referred to,
\* a value is not read again, $$ is a dollar, and the rest is as written.
ExpandsAsMeant == argAt > 0 /\ ArgDone => argOut = Meaning(Defined)[arg]

=============================================================================
