------------------------------ MODULE MCMeandr ------------------------------
(* A small instance of Meandr for TLC: the strings; the configuration gives *)
(* the bounds.                                                              *)
EXTENDS Meandr, SequencesExt

CONSTANTS d1, d2

MCProcs == {d1, d2}

\* meandr may signal both, or one is another user's.
MCMines == {MCProcs, {d1}}

MCChars == {"$", "{", "}", "A", "T", "1", "a", "b", "c", "s", " "}

\* Those of the short arguments.
ArgChars == {"$", "{", "}", "A", "1"}

MCLetters == {"A", "T"}
MCNames   == {<<"A">>, <<"A", "1">>, <<"1">>, <<"T">>}
MCToken   == <<"T">>

Vars(a, a1, one, t) ==
    (<<"A">> :> a) @@ (<<"A", "1">> :> a1) @@ (<<"1">> :> one) @@ (<<"T">> :> t)

\* A token or a blank one; and a name that cannot be written in an argument.
MCEnvirons == {Vars(<<"a">>, <<"c">>, <<"b">>, t) : t \in {<<"s">>, <<" ">>}}

\* A value that looks like a reference to the token, a token, a blank one.
MCLoads == {Vars(<<"$", "T">>, Unset, Unset, <<"s">>), Vars(Unset, Unset, Unset, <<" ">>)}

\* All short arguments, longer ones with braces, and the token.
MCArgs ==
    SeqOf(ArgChars, 3)
    \cup {<<"$", "{">> \o x \o <<"}">> \o y : x \in SeqOf(ArgChars, 2), y \in SeqOf(ArgChars, 1)}
    \cup {<<"$", "T">>, <<"$", "{", "T", "}">>}
=============================================================================
