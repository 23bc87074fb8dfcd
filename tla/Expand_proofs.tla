---------------------------- MODULE Expand_proofs ----------------------------
(***************************************************************************)
(* Proofs about Expand: the loop gives what the documentation says, for    *)
(* any characters, names, values and arguments, of any length.             *)
(*                                                                         *)
(* Meaning is a recursive function: Recursion_proofs says that there is    *)
(* one that meets its equation.                                            *)
(***************************************************************************)
EXTENDS Expand, Recursion_proofs

-----------------------------------------------------------------------------
(* The head of a sequence *)

\* Names that can be written, and values.
Sound(vars) ==
    \A n \in DOMAIN vars : n \in Seq(Chars) /\ ValidName(n) /\ vars[n] \in Seq(Chars)

LEMMA SameSeq ==
    ASSUME NEW C, NEW s \in Seq(C), NEW t \in Seq(C),
           Len(s) = Len(t), \A i \in 1 .. Len(s) : s[i] = t[i]
    PROVE  s = t
OBVIOUS

LEMMA Associates ==
    ASSUME NEW C, NEW s \in Seq(C), NEW t \in Seq(C), NEW u \in Seq(C)
    PROVE  (s \o t) \o u = s \o (t \o u)
OBVIOUS

LEMMA SpecialChars ==
    /\ "$" \in Chars /\ "{" \in Chars /\ "}" \in Chars
    /\ "$" \notin NameChars /\ "{" \notin NameChars /\ "}" \notin NameChars
BY ExpandAssumption DEF NameChars

LEMMA DropIs ==
    ASSUME NEW s \in Seq(Chars), NEW k \in 0 .. Len(s)
    PROVE  /\ Drop(s, k) \in Seq(Chars) /\ Len(Drop(s, k)) = Len(s) - k
           /\ \A i \in 1 .. Len(s) - k : Drop(s, k)[i] = s[i + k]
BY DEF Drop

LEMMA DropDrop ==
    ASSUME NEW s \in Seq(Chars), NEW j \in 0 .. Len(s), NEW k \in 0 .. Len(s) - j
    PROVE  Drop(Drop(s, j), k) = Drop(s, j + k)
<1>1. Drop(s, j) \in Seq(Chars) /\ Len(Drop(s, j)) = Len(s) - j
      /\ \A i \in 1 .. Len(s) - j : Drop(s, j)[i] = s[i + j]
    BY DropIs
<1>2. Drop(Drop(s, j), k) \in Seq(Chars) /\ Len(Drop(Drop(s, j), k)) = Len(s) - j - k
      /\ \A i \in 1 .. Len(s) - j - k : Drop(Drop(s, j), k)[i] = Drop(s, j)[i + k]
    BY <1>1, DropIs
<1>3. Drop(s, j + k) \in Seq(Chars) /\ Len(Drop(s, j + k)) = Len(s) - j - k
      /\ \A i \in 1 .. Len(s) - j - k : Drop(s, j + k)[i] = s[i + j + k]
    BY DropIs
<1>4. ASSUME NEW i \in 1 .. Len(s) - j - k PROVE Drop(Drop(s, j), k)[i] = Drop(s, j + k)[i]
    <2>1. i + k \in 1 .. Len(s) - j /\ i + k + j = i + j + k
        OBVIOUS
    <2>2. Drop(s, j)[i + k] = s[i + k + j]
        BY <1>1, <2>1
    <2> QED
        BY <1>2, <1>3, <2>1, <2>2
<1> QED
    BY <1>2, <1>3, <1>4, SameSeq

\* What it is to start with p, character by character.
LEMMA StartsIs ==
    ASSUME NEW s \in Seq(Chars), NEW p \in Seq(Chars)
    PROVE  StartsWith(s, p) <=> Len(p) <= Len(s) /\ \A i \in 1 .. Len(p) : s[i] = p[i]
<1>1. CASE Len(p) <= Len(s)
    <2> DEFINE h == SubSeq(s, 1, Len(p))
    <2>1. h \in Seq(Chars) /\ Len(h) = Len(p) /\ \A i \in 1 .. Len(p) : h[i] = s[i]
        BY <1>1
    <2> HIDE DEF h
    <2>2. h = p <=> \A i \in 1 .. Len(p) : s[i] = p[i]
        BY <2>1, SameSeq
    <2> QED
        BY <1>1, <2>2 DEF StartsWith, h
<1>2. CASE ~(Len(p) <= Len(s))
    BY <1>2 DEF StartsWith
<1> QED
    BY <1>1, <1>2

\* A sequence n behind one character, behind two, before one, and in between.
LEMMA Pair ==
    ASSUME NEW C, NEW x \in C, NEW y \in C, NEW p, p = <<x, y>>
    PROVE  p \in Seq(C) /\ Len(p) = 2 /\ p[1] = x /\ p[2] = y
OBVIOUS

LEMMA BehindOne ==
    ASSUME NEW C, NEW x \in C, NEW n \in Seq(C), NEW p, p = <<x>> \o n
    PROVE  /\ p \in Seq(C) /\ Len(p) = Len(n) + 1 /\ p[1] = x
           /\ \A i \in 1 .. Len(n) : p[i + 1] = n[i]
OBVIOUS

LEMMA BehindTwo ==
    ASSUME NEW C, NEW x \in C, NEW y \in C, NEW n \in Seq(C), NEW p, p = <<x, y>> \o n
    PROVE  /\ p \in Seq(C) /\ Len(p) = Len(n) + 2 /\ p[1] = x /\ p[2] = y
           /\ \A i \in 1 .. Len(n) : p[i + 2] = n[i]
OBVIOUS

LEMMA BeforeOne ==
    ASSUME NEW C, NEW x \in C, NEW n \in Seq(C), NEW p, p = n \o <<x>>
    PROVE  /\ p \in Seq(C) /\ Len(p) = Len(n) + 1 /\ p[Len(n) + 1] = x
           /\ \A i \in 1 .. Len(n) : p[i] = n[i]
OBVIOUS

LEMMA Between ==
    ASSUME NEW C, NEW x \in C, NEW y \in C, NEW z \in C, NEW n \in Seq(C),
           NEW p, p = <<x, y>> \o n \o <<z>>
    PROVE  /\ p \in Seq(C) /\ Len(p) = Len(n) + 3 /\ p[1] = x /\ p[2] = y
           /\ p[Len(n) + 3] = z /\ \A i \in 1 .. Len(n) : p[i + 2] = n[i]
<1>1. PICK q : q = <<x, y>> \o n
    OBVIOUS
<1>2. /\ q \in Seq(C) /\ Len(q) = Len(n) + 2 /\ q[1] = x /\ q[2] = y
      /\ \A i \in 1 .. Len(n) : q[i + 2] = n[i]
    BY <1>1, BehindTwo
<1>3. p = q \o <<z>>
    BY <1>1
<1>4. /\ p \in Seq(C) /\ Len(p) = Len(q) + 1 /\ p[Len(q) + 1] = z
      /\ \A i \in 1 .. Len(q) : p[i] = q[i]
    BY <1>2, <1>3, BeforeOne
<1> QED
    BY <1>2, <1>4

LEMMA DollarsAre ==
    ASSUME NEW s \in Seq(Chars)
    PROVE  StartsWith(s, <<"$", "$">>) <=> Len(s) >= 2 /\ s[1] = "$" /\ s[2] = "$"
<1>0. PICK p : p = <<"$", "$">>
    OBVIOUS
<1>1. p \in Seq(Chars) /\ Len(p) = 2 /\ p[1] = "$" /\ p[2] = "$"
    BY <1>0, SpecialChars, Pair, Zenon
<1>2. StartsWith(s, p) <=> Len(p) <= Len(s) /\ \A i \in 1 .. Len(p) : s[i] = p[i]
    BY <1>1, StartsIs
<1>3. (\A i \in 1 .. 2 : s[i] = p[i]) <=> s[1] = p[1] /\ s[2] = p[2]
    OBVIOUS
<1> QED
    BY <1>0, <1>1, <1>2, <1>3

LEMMA BracesAre ==
    ASSUME NEW s \in Seq(Chars), NEW n \in Seq(Chars)
    PROVE  InBraces(s, n) <=> /\ Len(s) >= Len(n) + 3 /\ s[1] = "$" /\ s[2] = "{"
                              /\ \A i \in 1 .. Len(n) : s[i + 2] = n[i]
                              /\ s[Len(n) + 3] = "}"
<1>1. PICK k \in Nat : k = Len(n)
    OBVIOUS
<1>2. PICK p : p = <<"$", "{">> \o n \o <<"}">>
    OBVIOUS
<1>3. /\ p \in Seq(Chars) /\ Len(p) = Len(n) + 3 /\ p[1] = "$" /\ p[2] = "{"
      /\ p[Len(n) + 3] = "}" /\ \A i \in 1 .. Len(n) : p[i + 2] = n[i]
    <2>1. PICK x \in Chars, y \in Chars, z \in Chars : x = "$" /\ y = "{" /\ z = "}"
        BY SpecialChars
    <2>2. p = <<x, y>> \o n \o <<z>>
        BY <1>2, <2>1
    <2>3. /\ p \in Seq(Chars) /\ Len(p) = Len(n) + 3 /\ p[1] = x /\ p[2] = y
          /\ p[Len(n) + 3] = z /\ \A i \in 1 .. Len(n) : p[i + 2] = n[i]
        BY ONLY <2>2, Between, x \in Chars, y \in Chars, z \in Chars, n \in Seq(Chars)
    <2> QED
        BY <2>1, <2>3
<1>4. /\ Len(p) = k + 3 /\ p[1] = "$" /\ p[2] = "{" /\ p[k + 3] = "}"
      /\ \A i \in 1 .. k : p[i + 2] = n[i]
    BY <1>1, <1>3, Zenon
<1>5. InBraces(s, n) <=> StartsWith(s, p)
    BY <1>2 DEF InBraces
<1>6. InBraces(s, n) <=> k + 3 <= Len(s) /\ \A i \in 1 .. k + 3 : s[i] = p[i]
    <2>1. StartsWith(s, p) <=> Len(p) <= Len(s) /\ \A i \in 1 .. Len(p) : s[i] = p[i]
        BY <1>3, StartsIs
    <2>2. Len(p) = k + 3
        BY <1>4
    <2> QED
        BY ONLY <1>5, <2>1, <2>2, Zenon
<1>7. ASSUME \A i \in 1 .. k + 3 : s[i] = p[i]
       PROVE  /\ s[1] = "$" /\ s[2] = "{" /\ s[k + 3] = "}"
              /\ \A i \in 1 .. k : s[i + 2] = n[i]
    <2>1. 1 \in 1 .. k + 3 /\ 2 \in 1 .. k + 3 /\ k + 3 \in 1 .. k + 3
          /\ \A i \in 1 .. k : i + 2 \in 1 .. k + 3
        OBVIOUS
    <2> QED
        BY <1>4, <1>7, <2>1
<1>8. ASSUME s[1] = "$", s[2] = "{", s[k + 3] = "}", \A i \in 1 .. k : s[i + 2] = n[i],
              NEW i \in 1 .. k + 3
       PROVE  s[i] = p[i]
    <2>1. CASE i - 2 \in 1 .. k
        <3>1. s[i - 2 + 2] = n[i - 2] /\ p[i - 2 + 2] = n[i - 2]
            BY ONLY <1>4, <1>8, <2>1
        <3>2. i - 2 + 2 = i
            OBVIOUS
        <3> QED
            BY <3>1, <3>2
    <2>2. CASE i - 2 \notin 1 .. k
        <3>1. i = 1 \/ i = 2 \/ i = k + 3
            BY <2>2
        <3> QED
            BY <1>4, <1>8, <3>1
    <2> QED
        BY <2>1, <2>2
<1> QED
    BY <1>1, <1>6, <1>7, <1>8

LEMMA BareIs ==
    ASSUME NEW s \in Seq(Chars), NEW n \in Seq(Chars)
    PROVE  IsBare(s, n) <=> /\ Len(s) >= Len(n) + 1 /\ s[1] = "$"
                            /\ \A i \in 1 .. Len(n) : s[i + 1] = n[i]
                            /\ Len(s) > Len(n) + 1 => s[Len(n) + 2] \notin NameChars
<1>1. PICK k \in Nat : k = Len(n)
    OBVIOUS
<1>2. PICK p : p = <<"$">> \o n
    OBVIOUS
<1>3. /\ p \in Seq(Chars) /\ Len(p) = Len(n) + 1 /\ p[1] = "$"
      /\ \A i \in 1 .. Len(n) : p[i + 1] = n[i]
    <2>1. PICK x \in Chars : x = "$"
        BY SpecialChars
    <2>2. p = <<x>> \o n
        BY <1>2, <2>1
    <2>3. /\ p \in Seq(Chars) /\ Len(p) = Len(n) + 1 /\ p[1] = x
          /\ \A i \in 1 .. Len(n) : p[i + 1] = n[i]
        BY ONLY <2>2, BehindOne, x \in Chars, n \in Seq(Chars)
    <2> QED
        BY <2>1, <2>3
<1>4. Len(p) = k + 1 /\ p[1] = "$" /\ \A i \in 1 .. k : p[i + 1] = n[i]
    BY <1>1, <1>3, Zenon
<1>5. StartsWith(s, p) <=> k + 1 <= Len(s) /\ \A i \in 1 .. k + 1 : s[i] = p[i]
    <2>1. StartsWith(s, p) <=> Len(p) <= Len(s) /\ \A i \in 1 .. Len(p) : s[i] = p[i]
        BY <1>3, StartsIs
    <2>2. Len(p) = k + 1
        BY <1>4
    <2> QED
        BY ONLY <2>1, <2>2, Zenon
<1>6. ASSUME \A i \in 1 .. k + 1 : s[i] = p[i]
      PROVE  s[1] = "$" /\ \A i \in 1 .. k : s[i + 1] = n[i]
    <2>1. 1 \in 1 .. k + 1 /\ \A i \in 1 .. k : i + 1 \in 1 .. k + 1
        OBVIOUS
    <2> QED
        BY <1>4, <1>6, <2>1
<1>7. ASSUME s[1] = "$", \A i \in 1 .. k : s[i + 1] = n[i], NEW i \in 1 .. k + 1
      PROVE  s[i] = p[i]
    <2>1. CASE i - 1 \in 1 .. k
        <3>1. s[i - 1 + 1] = n[i - 1] /\ p[i - 1 + 1] = n[i - 1]
            BY ONLY <1>4, <1>7, <2>1
        <3>2. i - 1 + 1 = i
            OBVIOUS
        <3> QED
            BY <3>1, <3>2
    <2>2. CASE i - 1 \notin 1 .. k
        <3>1. i = 1
            BY <2>2
        <3> QED
            BY <1>4, <1>7, <3>1
    <2> QED
        BY <2>1, <2>2
<1> QED
    BY <1>1, <1>2, <1>5, <1>6, <1>7 DEF IsBare

\* No brace closes in it.
Unclosed(n) == \A i \in 1 .. Len(n) : n[i] # "}"

LEMMA NameIs ==
    ASSUME NEW n \in Seq(Chars), ValidName(n)
    PROVE  /\ Len(n) \in Nat \ {0} /\ n[1] \in Letters
           /\ \A i \in 1 .. Len(n) : n[i] \in NameChars
           /\ Unclosed(n)
<1>1. Len(n) \in Nat \ {0} /\ n[1] \in Letters
    BY DEF ValidName
<1>2. \A i \in 1 .. Len(n) : n[i] \in NameChars
    BY <1>1 DEF ValidName, NameChars
<1> QED
    BY <1>1, <1>2, SpecialChars DEF Unclosed

\* No two names stand between the same braces, nor behind the same dollar: the
\* shorter would end where the other goes on.
LEMMA BracesNotShorter ==
    ASSUME NEW s \in Seq(Chars), NEW m \in Seq(Chars), NEW n \in Seq(Chars),
           Unclosed(n), InBraces(s, m), InBraces(s, n)
    PROVE  ~(Len(m) < Len(n)) /\ \A i \in 1 .. Len(n) : s[i + 2] = n[i]
<1>1. s[Len(m) + 3] = "}"
    BY BracesAre
<1>2. \A i \in 1 .. Len(n) : s[i + 2] = n[i]
    BY BracesAre
<1>3. \A i \in 1 .. Len(n) : n[i] # "}"
    BY DEF Unclosed
<1>4. ASSUME Len(m) < Len(n) PROVE FALSE
    <2>1. Len(m) + 1 \in 1 .. Len(n) /\ Len(m) + 1 + 2 = Len(m) + 3
        BY <1>4
    <2> QED
        BY <1>1, <1>2, <1>3, <2>1
<1> QED
    BY <1>2, <1>4

LEMMA BracesUnique ==
    ASSUME NEW s \in Seq(Chars), NEW m \in Seq(Chars), NEW n \in Seq(Chars),
           Unclosed(m), Unclosed(n), InBraces(s, m), InBraces(s, n)
    PROVE  m = n
<1>1. ~(Len(m) < Len(n)) /\ \A i \in 1 .. Len(n) : s[i + 2] = n[i]
    BY BracesNotShorter
<1>2. ~(Len(n) < Len(m)) /\ \A i \in 1 .. Len(m) : s[i + 2] = m[i]
    BY BracesNotShorter
<1>3. Len(m) \in Nat /\ Len(n) \in Nat
    OBVIOUS
<1>4. Len(m) = Len(n)
    BY ONLY <1>1, <1>2, <1>3
<1>5. \A i \in 1 .. Len(m) : m[i] = n[i]
    BY <1>1, <1>2, <1>4
<1> QED
    BY <1>4, <1>5, SameSeq

LEMMA BareNotShorter ==
    ASSUME NEW s \in Seq(Chars), NEW m \in Seq(Chars), NEW n \in Seq(Chars),
           ValidName(n), IsBare(s, m), IsBare(s, n)
    PROVE  ~(Len(m) < Len(n)) /\ \A i \in 1 .. Len(n) : s[i + 1] = n[i]
<1>1. Len(s) > Len(m) + 1 => s[Len(m) + 2] \notin NameChars
    BY BareIs
<1>2. Len(s) >= Len(n) + 1
    BY BareIs
<1>3. \A i \in 1 .. Len(n) : s[i + 1] = n[i]
    BY BareIs
<1>4. \A i \in 1 .. Len(n) : n[i] \in NameChars
    BY NameIs
<1>5. ASSUME Len(m) < Len(n) PROVE FALSE
    <2>1. /\ Len(m) + 1 \in 1 .. Len(n) /\ Len(m) + 1 + 1 = Len(m) + 2
          /\ Len(s) > Len(m) + 1
        BY <1>2, <1>5
    <2> QED
        BY <1>1, <1>3, <1>4, <2>1
<1> QED
    BY <1>3, <1>5

LEMMA BareUnique ==
    ASSUME NEW s \in Seq(Chars), NEW m \in Seq(Chars), NEW n \in Seq(Chars),
           ValidName(m), ValidName(n), IsBare(s, m), IsBare(s, n)
    PROVE  m = n
<1>1. ~(Len(m) < Len(n)) /\ \A i \in 1 .. Len(n) : s[i + 1] = n[i]
    BY BareNotShorter
<1>2. ~(Len(n) < Len(m)) /\ \A i \in 1 .. Len(m) : s[i + 1] = m[i]
    BY BareNotShorter
<1>3. Len(m) \in Nat /\ Len(n) \in Nat
    OBVIOUS
<1>4. Len(m) = Len(n)
    BY ONLY <1>1, <1>2, <1>3
<1>5. \A i \in 1 .. Len(m) : m[i] = n[i]
    BY <1>1, <1>2, <1>4
<1> QED
    BY <1>4, <1>5, SameSeq

-----------------------------------------------------------------------------
(* What stands at the head *)

\* What is behind the dollar tells which of the three it is.
LEMMA Behinds ==
    ASSUME NEW vars, Sound(vars), NEW s \in Seq(Chars), NEW n \in DOMAIN vars
    PROVE  /\ n \in Seq(Chars) /\ ValidName(n) /\ vars[n] \in Seq(Chars)
           /\ StartsWith(s, <<"$", "$">>) => s[2] = "$"
           /\ InBraces(s, n) => s[2] = "{"
           /\ IsBare(s, n) => s[2] \in NameChars
<1>1. n \in Seq(Chars) /\ ValidName(n) /\ vars[n] \in Seq(Chars)
    BY DEF Sound
<1>2. 1 \in 1 .. Len(n) /\ n[1] \in NameChars
    <2>1. Len(n) \in Nat \ {0} /\ n[1] \in Letters
        BY ONLY <1>1, NameIs
    <2> QED
        BY <2>1 DEF NameChars
<1>3. IsBare(s, n) => s[1 + 1] = n[1]
    BY <1>1, <1>2, BareIs
<1>4. IsBare(s, n) => s[2] \in NameChars
    BY <1>2, <1>3
<1> QED
    BY <1>1, <1>4, DollarsAre, BracesAre

LEMMA HeadDollars ==
    ASSUME NEW vars, Sound(vars), NEW s \in Seq(Chars), StartsWith(s, <<"$", "$">>)
    PROVE  HeadOf(vars, s) = [length |-> 2, means |-> <<"$">>]
<1>1. \A n \in DOMAIN vars : ~InBraces(s, n) /\ ~IsBare(s, n)
    BY Behinds, SpecialChars
<1> QED
    BY <1>1 DEF HeadOf

LEMMA HeadBraces ==
    ASSUME NEW vars, Sound(vars), NEW s \in Seq(Chars),
           NEW n \in DOMAIN vars, InBraces(s, n)
    PROVE  HeadOf(vars, s) = [length |-> Len(n) + 3, means |-> vars[n]]
<1>1. ~StartsWith(s, <<"$", "$">>) /\ \A m \in DOMAIN vars : ~IsBare(s, m)
    BY Behinds, SpecialChars
<1> DEFINE m == CHOOSE m \in DOMAIN vars : InBraces(s, m)
<1>2. m \in DOMAIN vars /\ InBraces(s, m)
    OBVIOUS
<1>3. HeadOf(vars, s) = [length |-> Len(m) + 3, means |-> vars[m]]
    BY <1>1 DEF HeadOf
<1> HIDE DEF m
<1>4. m = n
    BY <1>2, Behinds, NameIs, BracesUnique
<1> QED
    BY <1>3, <1>4

LEMMA HeadBare ==
    ASSUME NEW vars, Sound(vars), NEW s \in Seq(Chars),
           NEW n \in DOMAIN vars, IsBare(s, n)
    PROVE  HeadOf(vars, s) = [length |-> Len(n) + 1, means |-> vars[n]]
<1>1. ~StartsWith(s, <<"$", "$">>) /\ ~\E m \in DOMAIN vars : InBraces(s, m)
    BY Behinds, SpecialChars
<1> DEFINE m == CHOOSE m \in DOMAIN vars : IsBare(s, m)
<1>2. m \in DOMAIN vars /\ IsBare(s, m)
    OBVIOUS
<1>3. HeadOf(vars, s) = [length |-> Len(m) + 1, means |-> vars[m]]
    BY <1>1 DEF HeadOf
<1> HIDE DEF m
<1>4. m = n
    BY <1>2, Behinds, BareUnique
<1> QED
    BY <1>3, <1>4

LEMMA HeadPlain ==
    ASSUME NEW vars, NEW s, ~StartsWith(s, <<"$", "$">>),
           \A n \in DOMAIN vars : ~InBraces(s, n) /\ ~IsBare(s, n)
    PROVE  HeadOf(vars, s) = [length |-> 1, means |-> <<s[1]>>]
BY DEF HeadOf

\* Something stands there, and it ends with s at the latest.
LEMMA HeadFits ==
    ASSUME NEW vars, Sound(vars), NEW s \in Seq(Chars), s # <<>>
    PROVE  HeadOf(vars, s).length \in 1 .. Len(s) /\ HeadOf(vars, s).means \in Seq(Chars)
<1>1. CASE StartsWith(s, <<"$", "$">>)
    <2>1. <<"$">> \in Seq(Chars)
        <3>1. PICK x \in Chars : x = "$"
            BY SpecialChars
        <3>2. <<x>> \in Seq(Chars)
            OBVIOUS
        <3> QED
            BY <3>1, <3>2
    <2>2. Len(s) \in Nat /\ Len(s) >= 2
        BY <1>1, DollarsAre
    <2>3. HeadOf(vars, s) = [length |-> 2, means |-> <<"$">>]
        BY <1>1, HeadDollars
    <2>4. HeadOf(vars, s).length = 2 /\ HeadOf(vars, s).means = <<"$">>
        BY ONLY <2>3
    <2> QED
        BY <2>1, <2>2, <2>4
<1>2. ASSUME NEW n \in DOMAIN vars, InBraces(s, n)
      PROVE  HeadOf(vars, s).length \in 1 .. Len(s) /\ HeadOf(vars, s).means \in Seq(Chars)
    <2>1. n \in Seq(Chars) /\ vars[n] \in Seq(Chars)
        BY DEF Sound
    <2>2. Len(s) >= Len(n) + 3
        BY <1>2, <2>1, BracesAre
    <2> QED
        BY <1>2, <2>1, <2>2, HeadBraces
<1>3. ASSUME NEW n \in DOMAIN vars, IsBare(s, n)
      PROVE  HeadOf(vars, s).length \in 1 .. Len(s) /\ HeadOf(vars, s).means \in Seq(Chars)
    <2>1. n \in Seq(Chars) /\ vars[n] \in Seq(Chars)
        BY DEF Sound
    <2>2. Len(s) >= Len(n) + 1
        BY <1>3, <2>1, BareIs
    <2> QED
        BY <1>3, <2>1, <2>2, HeadBare
<1>4. CASE /\ ~StartsWith(s, <<"$", "$">>)
           /\ \A n \in DOMAIN vars : ~InBraces(s, n) /\ ~IsBare(s, n)
    <2>1. Len(s) \in Nat \ {0} /\ s[1] \in Chars
        OBVIOUS
    <2>2. <<s[1]>> \in Seq(Chars)
        BY <2>1
    <2>3. HeadOf(vars, s) = [length |-> 1, means |-> <<s[1]>>]
        BY <1>4, HeadPlain
    <2>4. HeadOf(vars, s).length = 1 /\ HeadOf(vars, s).means = <<s[1]>>
        BY ONLY <2>3
    <2> QED
        BY <2>1, <2>2, <2>4
<1> QED
    BY <1>1, <1>2, <1>3, <1>4

-----------------------------------------------------------------------------
(* What a sequence means *)

\* Meaning is the function its definition says it is.
LEMMA MeaningIs ==
    ASSUME NEW vars, Sound(vars)
    PROVE  Meaning(vars) =
               [s \in Seq(Chars) |->
                   IF s = <<>> THEN <<>>
                   ELSE HeadOf(vars, s).means \o Meaning(vars)[Drop(s, HeadOf(vars, s).length)]]
<1>1. ASSUME NEW s \in Seq(Chars), s # <<>>
      PROVE  /\ Drop(s, HeadOf(vars, s).length) \in Seq(Chars)
             /\ Len(Drop(s, HeadOf(vars, s).length)) < Len(s)
    <2>1. HeadOf(vars, s).length \in 1 .. Len(s)
        BY <1>1, HeadFits
    <2> QED
        BY <2>1, DropIs
<1> DEFINE Size(s) == Len(s)
           Said(s) == IF s = <<>> THEN <<>> ELSE HeadOf(vars, s).means
           Rest(s) == IF s = <<>> THEN <<>> ELSE Drop(s, HeadOf(vars, s).length)
<1>2. ASSUME NEW s \in Seq(Chars)
      PROVE  /\ Size(s) \in Nat /\ Rest(s) \in Seq(Chars) /\ (Size(s) = 0 <=> s = <<>>)
             /\ Size(s) # 0 => Size(Rest(s)) < Size(s)
    <2>1. Size(s) \in Nat /\ (Size(s) = 0 <=> s = <<>>) /\ <<>> \in Seq(Chars)
        OBVIOUS
    <2> QED
        BY <1>1, <2>1
<1>3. ASSUME NEW s \in Seq(Chars), s # <<>>
      PROVE  Said(s) = HeadOf(vars, s).means /\ Rest(s) = Drop(s, HeadOf(vars, s).length)
    BY <1>3
<1>4. ASSUME NEW s \in Seq(Chars) PROVE Said(s) \in Seq(Chars)
    <2>1. <<>> \in Seq(Chars)
        OBVIOUS
    <2>2. s # <<>> => HeadOf(vars, s).means \in Seq(Chars)
        BY HeadFits
    <2> QED
        BY <2>1, <2>2
<1> HIDE DEF Size, Said, Rest
<1> DEFINE size == [s \in Seq(Chars) |-> Size(s)]
           rest == [s \in Seq(Chars) |-> Rest(s)]
           step == [p \in Seq(Chars) \X Seq(Chars) |-> Said(p[1]) \o p[2]]
<1>5. /\ \A s \in Seq(Chars) : size[s] = Size(s) /\ rest[s] = Rest(s)
      /\ \A s \in Seq(Chars), t \in Seq(Chars) : step[<<s, t>>] = Said(s) \o t
    OBVIOUS
<1>6. size \in [Seq(Chars) -> Nat] /\ rest \in [Seq(Chars) -> Seq(Chars)]
    BY <1>2
<1>7. step \in [Seq(Chars) \X Seq(Chars) -> Seq(Chars)] /\ <<>> \in Seq(Chars)
    BY <1>4
<1> HIDE DEF size, rest, step
<1>8. Shrinks(Seq(Chars), size, rest)
    BY <1>2, <1>5, <1>6 DEF Shrinks
<1>9. PICK f : Solves(f, Seq(Chars), size, <<>>, step, rest)
    BY <1>8, Recursion
<1>10. \A s \in Seq(Chars) : f[s] \in Seq(Chars)
    BY <1>7, <1>8, <1>9, RecursionTyped
<1>11. ASSUME NEW s \in Seq(Chars)
       PROVE  (IF size[s] = 0 THEN <<>> ELSE step[<<s, f[rest[s]]>>]) =
                 IF s = <<>> THEN <<>>
                 ELSE HeadOf(vars, s).means \o f[Drop(s, HeadOf(vars, s).length)]
    <2>1. size[s] = 0 <=> s = <<>>
        BY <1>2, <1>5
    <2>2. rest[s] \in Seq(Chars) /\ f[rest[s]] \in Seq(Chars)
        BY <1>2, <1>5, <1>10
    <2>3. step[<<s, f[rest[s]]>>] = Said(s) \o f[rest[s]]
        BY <1>5, <2>2
    <2> QED
        BY <1>3, <1>5, <2>1, <2>3
<1>12. f = [s \in Seq(Chars) |->
              IF s = <<>> THEN <<>>
              ELSE HeadOf(vars, s).means \o f[Drop(s, HeadOf(vars, s).length)]]
    BY ONLY <1>9, <1>11 DEF Solves
<1> QED
    BY <1>12 DEF Meaning

LEMMA MeaningOfNothing ==
    ASSUME NEW vars, Sound(vars)
    PROVE  Meaning(vars)[<<>>] = <<>>
<1>0. <<>> \in Seq(Chars)
    OBVIOUS
<1>1. PICK s \in Seq(Chars) : s = <<>>
    BY <1>0, Zenon
<1>2. Meaning(vars)[s] = <<>>
    BY <1>1, MeaningIs
<1> QED
    BY <1>1, <1>2

LEMMA MeaningOfHead ==
    ASSUME NEW vars, Sound(vars), NEW s \in Seq(Chars), s # <<>>
    PROVE  Meaning(vars)[s] =
               HeadOf(vars, s).means \o Meaning(vars)[Drop(s, HeadOf(vars, s).length)]
BY MeaningIs

LEMMA MeaningTyped ==
    ASSUME NEW vars, Sound(vars)
    PROVE  \A s \in Seq(Chars) : Meaning(vars)[s] \in Seq(Chars)
<1> DEFINE T == {k \in Nat : \A s \in Seq(Chars) : Len(s) < k => Meaning(vars)[s] \in Seq(Chars)}
<1>1. 0 \in T
    OBVIOUS
<1>2. ASSUME NEW k \in Nat, k \in T PROVE k + 1 \in T
    <2> SUFFICES ASSUME NEW s \in Seq(Chars), Len(s) < k + 1
                 PROVE  Meaning(vars)[s] \in Seq(Chars)
        OBVIOUS
    <2>1. CASE s = <<>>
        BY <2>1, MeaningOfNothing
    <2>2. CASE s # <<>>
        <3> DEFINE h == HeadOf(vars, s).length
        <3>1. h \in 1 .. Len(s) /\ HeadOf(vars, s).means \in Seq(Chars)
            BY <2>2, HeadFits
        <3> HIDE DEF h
        <3>2. Drop(s, h) \in Seq(Chars) /\ Len(Drop(s, h)) < k
            <4>1. Drop(s, h) \in Seq(Chars) /\ Len(Drop(s, h)) = Len(s) - h
                BY <3>1, DropIs
            <4>2. Len(s) \in Nat
                OBVIOUS
            <4> QED
                BY <3>1, <4>1, <4>2
        <3>3. Meaning(vars)[Drop(s, h)] \in Seq(Chars)
            BY <1>2, <3>2
        <3>4. Meaning(vars)[s] = HeadOf(vars, s).means \o Meaning(vars)[Drop(s, h)]
            BY <2>2, MeaningOfHead DEF h
        <3> QED
            BY <3>1, <3>3, <3>4
    <2> QED
        BY <2>1, <2>2
<1> HIDE DEF T
<1>3. Nat \subseteq T
    BY <1>1, <1>2, Induction
<1>4. ASSUME NEW s \in Seq(Chars) PROVE Meaning(vars)[s] \in Seq(Chars)
    <2>1. Len(s) + 1 \in T /\ Len(s) < Len(s) + 1
        BY <1>3
    <2> QED
        BY <2>1 DEF T
<1> QED
    BY <1>4

-----------------------------------------------------------------------------
(* The loop *)

Variables == [Names -> Seq(Chars) \cup {Unset}]

LoopType ==
    /\ arg \in Seq(Chars) /\ argOut \in Seq(Chars)
    /\ environ \in Variables /\ loaded \in Variables

\* What is left to read.
Left == Drop(arg, argAt - 1)

\* What has been written and what the rest means are together what the argument
\* means.
AsMeant ==
    argAt # 0 =>
        /\ argAt \in 1 .. Len(arg) + 1
        /\ argOut \o Meaning(Defined)[Left] = Meaning(Defined)[arg]

LEMMA DefinedIs ==
    ASSUME LoopType
    PROVE  /\ Sound(Defined)
           /\ \A n : n \in DOMAIN Defined <=> Known(n) /\ ValidName(n)
           /\ \A n : Known(n) /\ ValidName(n) => Defined[n] = Value(n)
<1>1. ASSUME NEW n, Known(n) PROVE n \in Names /\ n \in Seq(Chars) /\ Value(n) \in Seq(Chars)
    BY <1>1, ExpandAssumption DEF Known, Value, LoopType, Variables
<1>2. \A n : Known(n) => n \in Names
    BY DEF Known
<1>3. \A n : n \in DOMAIN Defined <=> Known(n) /\ ValidName(n)
    BY <1>2 DEF Defined
<1>4. \A n : Known(n) /\ ValidName(n) => Defined[n] = Value(n)
    BY <1>2 DEF Defined
<1> QED
    BY <1>1, <1>3, <1>4 DEF Sound

LEMMA LeftIs ==
    ASSUME LoopType, argAt \in 1 .. Len(arg) + 1
    PROVE  /\ Left \in Seq(Chars) /\ Len(Left) = Len(arg) - argAt + 1
           /\ \A i \in 1 .. Len(arg) - argAt + 1 : Left[i] = arg[i + argAt - 1]
<1>1. arg \in Seq(Chars) /\ Len(arg) \in Nat
    BY DEF LoopType
<1>2. PICK k \in 0 .. Len(arg) : k = argAt - 1
    BY <1>1
<1>3. /\ Drop(arg, k) \in Seq(Chars) /\ Len(Drop(arg, k)) = Len(arg) - k
      /\ \A i \in 1 .. Len(arg) - k : Drop(arg, k)[i] = arg[i + k]
    BY <1>1, DropIs
<1>4. Left = Drop(arg, k) /\ Len(arg) - k = Len(arg) - argAt + 1
    BY <1>1, <1>2 DEF Left
<1>5. \A i \in 1 .. Len(arg) - argAt + 1 : i + argAt - 1 = i + k
    BY <1>2
<1> QED
    BY <1>3, <1>4, <1>5

\* A turn of the loop that reads what stands at the head and writes what it means.
LEMMA ReadsHead ==
    ASSUME LoopType, AsMeant, Reading, NEW k, NEW w, Write(w, k),
           HeadOf(Defined, Left) = [length |-> k, means |-> w]
    PROVE  AsMeant'
<1>1. Sound(Defined)
    BY DefinedIs
<1>2. Len(arg) \in Nat /\ argAt \in 1 .. Len(arg) /\ arg \in Seq(Chars) /\ argOut \in Seq(Chars)
    BY DEF LoopType, Reading
<1>3. Left \in Seq(Chars) /\ Len(Left) = Len(arg) - argAt + 1
    BY <1>2, LeftIs
<1>4. Left # <<>>
    BY <1>2, <1>3
<1>5. k \in 1 .. Len(Left) /\ w \in Seq(Chars)
    <2>1. HeadOf(Defined, Left).length = k /\ HeadOf(Defined, Left).means = w
        OBVIOUS
    <2> QED
        BY <1>1, <1>3, <1>4, <2>1, HeadFits
<1>6. Meaning(Defined)[Left] = w \o Meaning(Defined)[Drop(Left, k)]
    <2>1. HeadOf(Defined, Left).length = k /\ HeadOf(Defined, Left).means = w
        OBVIOUS
    <2> QED
        BY <1>1, <1>3, <1>4, <2>1, MeaningOfHead
<1>7. Drop(Left, k) = Drop(arg, argAt - 1 + k)
    <2>1. argAt - 1 \in 0 .. Len(arg) /\ k \in 0 .. Len(arg) - (argAt - 1)
        BY <1>2, <1>3, <1>5
    <2> QED
        BY <1>2, <2>1, DropDrop DEF Left
<1>8. argAt' = argAt + k /\ argOut' = argOut \o w /\ UNCHANGED <<arg, environ, loaded>>
    BY DEF Write
<1>9. argAt' # 0 /\ argAt' \in 1 .. Len(arg) + 1 /\ argAt' - 1 = argAt - 1 + k
    BY <1>2, <1>3, <1>5, <1>8
<1>10. Left' = Drop(Left, k) /\ Defined' = Defined
    <2>1. Left' = Drop(Left, k)
        BY <1>7, <1>8, <1>9 DEF Left, Drop
    <2>2. Defined' = Defined
        BY <1>8 DEF Defined, Known, Value
    <2> QED
        BY <2>1, <2>2
<1>11. Drop(Left, k) \in Seq(Chars)
    BY <1>3, <1>5, DropIs
<1>12. Meaning(Defined)[Drop(Left, k)] \in Seq(Chars)
    BY <1>1, <1>11, MeaningTyped
<1>13. argOut \o Meaning(Defined)[Left] = Meaning(Defined)[arg]
    BY <1>2 DEF AsMeant
<1>14. (argOut \o w) \o Meaning(Defined)[Drop(Left, k)] = Meaning(Defined)[arg]
    <2>1. (argOut \o w) \o Meaning(Defined)[Drop(Left, k)]
              = argOut \o (w \o Meaning(Defined)[Drop(Left, k)])
        <3>1. PICK m \in Seq(Chars) : m = Meaning(Defined)[Drop(Left, k)]
            BY <1>12
        <3>2. argOut \in Seq(Chars) /\ w \in Seq(Chars)
            BY <1>2, <1>5
        <3>3. (argOut \o w) \o m = argOut \o (w \o m)
            BY ONLY <3>2, m \in Seq(Chars), Associates
        <3> QED
            BY <3>1, <3>3
    <2> QED
        BY <1>6, <1>13, <2>1
<1>15. (argOut \o Meaning(Defined)[Left])' = Meaning(Defined)[arg]
    BY <1>8, <1>10, <1>14
<1> QED
    BY <1>8, <1>9, <1>10, <1>15 DEF AsMeant

LEMMA HeadIsChar ==
    ASSUME NEW vars, Sound(vars), NEW s \in Seq(Chars), s # <<>>,
           Len(s) = 1 \/ s[1] # "$"
    PROVE  HeadOf(vars, s) = [length |-> 1, means |-> <<s[1]>>]
<1>1. Len(s) \in Nat /\ ~(Len(s) >= 2 /\ s[1] = "$")
    OBVIOUS
<1>2. ~StartsWith(s, <<"$", "$">>)
    BY <1>1, DollarsAre
<1>3. ASSUME NEW n \in DOMAIN vars PROVE ~InBraces(s, n) /\ ~IsBare(s, n)
    <2>1. n \in Seq(Chars) /\ Len(n) \in Nat \ {0}
        BY Behinds, NameIs
    <2>2. InBraces(s, n) => Len(s) >= Len(n) + 3 /\ s[1] = "$"
        BY <2>1, BracesAre
    <2>3. IsBare(s, n) => Len(s) >= Len(n) + 1 /\ s[1] = "$"
        BY <2>1, BareIs
    <2> QED
        BY <1>1, <2>1, <2>2, <2>3
<1> QED
    BY <1>2, <1>3, HeadPlain

LEMMA CopyMeans == LoopType /\ AsMeant /\ CopyChar => AsMeant'
<1> SUFFICES ASSUME LoopType, AsMeant, CopyChar PROVE AsMeant'
    OBVIOUS
<1>1. Reading /\ ~Dollar /\ Write(<<arg[argAt]>>, 1)
    BY DEF CopyChar
<1>2. Len(arg) \in Nat /\ argAt \in 1 .. Len(arg)
    BY <1>1 DEF LoopType, Reading
<1>3. /\ Left \in Seq(Chars) /\ Len(Left) = Len(arg) - argAt + 1
      /\ Left[1] = arg[argAt]
    <2>1. 1 \in 1 .. Len(arg) - argAt + 1 /\ 1 + argAt - 1 = argAt
        BY <1>2
    <2> QED
        BY <1>2, <2>1, LeftIs
<1>4. Left # <<>> /\ (Len(Left) = 1 \/ Left[1] # "$")
    BY <1>1, <1>2, <1>3 DEF Dollar
<1>5. HeadOf(Defined, Left) = [length |-> 1, means |-> <<arg[argAt]>>]
    BY <1>3, <1>4, DefinedIs, HeadIsChar
<1> QED
    BY <1>1, <1>5, ReadsHead

\* What a dollar and what follows it look like.
LEMMA DollarLeft ==
    ASSUME LoopType, Dollar
    PROVE  /\ Reading /\ Len(arg) \in Nat /\ argAt \in 1 .. Len(arg) - 1
           /\ Left \in Seq(Chars) /\ Len(Left) = Len(arg) - argAt + 1
           /\ Left[1] = "$" /\ Left[2] = Next1
           /\ \A i \in 1 .. Len(arg) - argAt + 1 : Left[i] = arg[i + argAt - 1]
<1>1. Reading /\ Len(arg) \in Nat /\ argAt \in 1 .. Len(arg) - 1 /\ arg[argAt] = "$"
    BY DEF LoopType, Reading, Dollar
<1>2. /\ Left \in Seq(Chars) /\ Len(Left) = Len(arg) - argAt + 1
      /\ \A i \in 1 .. Len(arg) - argAt + 1 : Left[i] = arg[i + argAt - 1]
    BY <1>1, LeftIs
<1>3. /\ 1 \in 1 .. Len(arg) - argAt + 1 /\ 1 + argAt - 1 = argAt
      /\ 2 \in 1 .. Len(arg) - argAt + 1 /\ 2 + argAt - 1 = argAt + 1
    BY <1>1
<1>4. Left[1] = arg[argAt] /\ Left[2] = arg[argAt + 1]
    BY <1>2, <1>3
<1> QED
    BY <1>1, <1>2, <1>4 DEF Next1

LEMMA DollarMeans == LoopType /\ AsMeant /\ WriteDollar => AsMeant'
<1> SUFFICES ASSUME LoopType, AsMeant, WriteDollar PROVE AsMeant'
    OBVIOUS
<1>1. Dollar /\ Next1 = "$" /\ Write(<<"$">>, 2)
    BY DEF WriteDollar
<1>2. Reading /\ Left \in Seq(Chars) /\ Len(Left) >= 2 /\ Left[1] = "$" /\ Left[2] = "$"
    BY <1>1, DollarLeft
<1>3. StartsWith(Left, <<"$", "$">>)
    BY <1>2, DollarsAre
<1>4. HeadOf(Defined, Left) = [length |-> 2, means |-> <<"$">>]
    BY <1>2, <1>3, DefinedIs, HeadDollars
<1> QED
    BY <1>1, <1>2, <1>4, ReadsHead

LEMMA CutIs ==
    ASSUME NEW s \in Seq(Chars), NEW i \in Nat \ {0}, NEW e \in Nat \ {0},
           i <= e, e <= Len(s) + 1, NEW n, n = SubSeq(s, i, e - 1)
    PROVE  /\ n \in Seq(Chars) /\ Len(n) = e - i
           /\ \A k \in 1 .. e - i : n[k] = s[k + i - 1]
OBVIOUS

\* Where no z follows, none is behind the second character of what is left.
LEMMA NeverCloses ==
    ASSUME NEW C, NEW s \in Seq(C), NEW i \in 1 .. Len(s), NEW r \in Seq(C),
           Len(r) = Len(s) - i + 1, \A k \in 1 .. Len(s) - i + 1 : r[k] = s[k + i - 1],
           NEW z, \A j \in i + 2 .. Len(s) : s[j] # z
    PROVE  \A m \in Nat : Len(r) >= m + 3 => r[m + 3] # z
<1>1. Len(s) \in Nat
    OBVIOUS
<1>2. ASSUME NEW m \in Nat, Len(r) >= m + 3 PROVE r[m + 3] # z
    <2>1. m + 3 \in 1 .. Len(s) - i + 1 /\ m + 3 + i - 1 \in i + 2 .. Len(s)
        BY <1>1, <1>2
    <2> QED
        BY <2>1
<1> QED
    BY <1>2

\* The first of some numbers.
LEMMA Earliest ==
    ASSUME NEW T, T \subseteq Nat, T # {},
           NEW e, e = CHOOSE j \in T : \A k \in T : j <= k
    PROVE  e \in T /\ \A k \in T : e <= k
<1>1. \E j \in T : \A k \in T : j <= k
    BY ONLY T \subseteq Nat, T # {}, Least
<1> QED
    BY <1>1

\* What the loop takes for a name in braces is what stands in the braces, if a
\* brace closes.
LEMMA BracedIs ==
    ASSUME LoopType, Dollar, Next1 = "{"
    PROVE  \/ Braced(argAt) = <<>> /\ \A n \in Seq(Chars) : ~InBraces(Left, n)
           \/ /\ Braced(argAt) \in Seq(Chars) /\ Unclosed(Braced(argAt))
              /\ InBraces(Left, Braced(argAt))
<1>1. Left \in Seq(Chars) /\ Left[1] = "$" /\ Left[2] = "{"
    BY DollarLeft
<1>2. PICK s \in Seq(Chars), i \in 1 .. Len(arg), r \in Seq(Chars), z \in Chars :
          s = arg /\ i = argAt /\ r = Left /\ z = "}"
    <2>1. PICK z \in Chars : z = "}"
        BY ExpandAssumption, Zenon
    <2> QED
        BY <2>1, DollarLeft DEF LoopType, Reading
<1> DEFINE Ends == {j \in i + 2 .. Len(s) : s[j] = z}
<1>3. i \in 1 .. Len(s)
    BY <1>2
<1>4. Len(r) = Len(s) - i + 1
    BY <1>2, DollarLeft, Zenon
<1>5. \A k \in 1 .. Len(s) - i + 1 : r[k] = s[k + i - 1]
    BY <1>2, DollarLeft, Zenon
<1>6. CASE Ends = {}
    <2>1. Braced(argAt) = <<>>
        BY <1>2, <1>6 DEF Braced
    <2>2. \A j \in i + 2 .. Len(s) : s[j] # z
        BY <1>2, <1>6
    <2>3. \A m \in Nat : Len(r) >= m + 3 => r[m + 3] # z
        BY ONLY <1>4, <1>5, <2>2, NeverCloses, <1>3, s \in Seq(Chars), r \in Seq(Chars)
    <2>4. ASSUME NEW n \in Seq(Chars), InBraces(Left, n) PROVE FALSE
        <3>1. Len(Left) >= Len(n) + 3 /\ Left[Len(n) + 3] = "}"
            BY <1>1, <2>4, BracesAre
        <3>2. Len(n) \in Nat
            BY ONLY n \in Seq(Chars)
        <3> QED
            BY ONLY <1>2, <2>3, <3>1, <3>2, Zenon
    <2> QED
        BY <2>1, <2>4
<1>7. CASE Ends # {}
    <2>1. PICK e, n : /\ e = CHOOSE j \in Ends : \A k \in Ends : j <= k
                      /\ n = SubSeq(s, i + 2, e - 1)
        OBVIOUS
    <2>2. Braced(argAt) = n
        BY <1>2, <1>7, <2>1 DEF Braced, From
    <2>3. Ends \subseteq Nat /\ Len(s) \in Nat /\ i \in Nat \ {0}
        BY ONLY <1>3, s \in Seq(Chars)
    <2>4. \A j : j \in Ends <=> j \in i + 2 .. Len(s) /\ s[j] = z
        OBVIOUS
    <2> HIDE DEF Ends
    <2>5. e \in Ends /\ \A k \in Ends : e <= k
        BY ONLY <1>7, <2>1, <2>3, Earliest
    <2>6. e \in i + 2 .. Len(s)
        BY ONLY <2>4, <2>5
    <2>7. n = SubSeq(s, i + 2, e - 1)
        BY ONLY <2>1
    <2>8. /\ n \in Seq(Chars) /\ Len(r) >= Len(n) + 3 /\ r[Len(n) + 3] = s[e]
          /\ \A k \in 1 .. Len(n) : /\ r[k + 2] = n[k]
                                    /\ \E j \in i + 2 .. e - 1 : n[k] = s[j]
        <3>1. PICK b \in Nat \ {0}, c \in Nat \ {0} : b = i + 2 /\ c = e
            BY ONLY <2>3, <2>6
        <3>2. n = SubSeq(s, b, c - 1) /\ b <= c /\ c <= Len(s) + 1
            BY ONLY <2>3, <2>6, <2>7, <3>1
        <3>3. n \in Seq(Chars) /\ Len(n) = c - b /\ \A k \in 1 .. c - b : n[k] = s[k + b - 1]
            BY ONLY <3>2, CutIs, s \in Seq(Chars), b \in Nat \ {0}, c \in Nat \ {0}
        <3>4. /\ Len(n) + 3 \in 1 .. Len(s) - i + 1 /\ Len(n) + 3 + i - 1 = e
              /\ Len(r) >= Len(n) + 3
            BY ONLY <1>4, <2>3, <2>6, <3>1, <3>3
        <3>5. r[Len(n) + 3] = s[e]
            BY ONLY <1>5, <3>4
        <3>6. ASSUME NEW k \in 1 .. Len(n)
              PROVE  r[k + 2] = n[k] /\ \E j \in i + 2 .. e - 1 : n[k] = s[j]
            <4>1. /\ k + 2 \in 1 .. Len(s) - i + 1 /\ k + 2 + i - 1 = k + b - 1
                  /\ k + b - 1 \in i + 2 .. e - 1 /\ k \in 1 .. c - b
                BY ONLY <2>3, <2>6, <3>1, <3>3, k \in 1 .. Len(n)
            <4>2. r[k + 2] = s[k + b - 1] /\ n[k] = s[k + b - 1]
                BY ONLY <1>5, <3>3, <4>1
            <4> QED
                BY ONLY <4>1, <4>2
        <3> QED
            BY ONLY <3>3, <3>4, <3>5, <3>6
    <2>9. ASSUME NEW j \in i + 2 .. e - 1 PROVE s[j] # z
        <3>1. j \in i + 2 .. Len(s) /\ ~(e <= j)
            BY ONLY <2>3, <2>6, j \in i + 2 .. e - 1
        <3> QED
            BY ONLY <2>4, <2>5, <3>1
    <2>10. /\ n \in Seq(Chars) /\ Len(r) >= Len(n) + 3 /\ r[Len(n) + 3] = z
           /\ \A k \in 1 .. Len(n) : r[k + 2] = n[k]
           /\ \A k \in 1 .. Len(n) : n[k] # z
        BY ONLY <2>4, <2>5, <2>8, <2>9
    <2>11. InBraces(r, n) <=> /\ Len(r) >= Len(n) + 3 /\ r[1] = "$" /\ r[2] = "{"
                              /\ \A k \in 1 .. Len(n) : r[k + 2] = n[k]
                              /\ r[Len(n) + 3] = "}"
        <3>1. n \in Seq(Chars)
            BY <2>10
        <3> QED
            BY ONLY <3>1, r \in Seq(Chars), BracesAre
    <2>12. InBraces(r, n)
        BY ONLY <1>1, <1>2, <2>10, <2>11, Zenon
    <2>13. Unclosed(n)
        BY <1>2, <2>10, Zenon DEF Unclosed
    <2> QED
        BY <1>2, <2>2, <2>10, <2>12, <2>13
<1> QED
    BY <1>6, <1>7

LEMMA EndOfRunIs ==
    ASSUME NEW i \in Nat \ {0}, NEW chars, arg \in Seq(Chars), i <= Len(arg) + 1
    PROVE  /\ EndOfRun(i, chars) \in i .. Len(arg) + 1
           /\ \A k \in i .. EndOfRun(i, chars) - 1 : arg[k] \in chars
           /\ EndOfRun(i, chars) <= Len(arg) => arg[EndOfRun(i, chars)] \notin chars
<1> DEFINE T == {j \in i .. Len(arg) + 1 : j <= Len(arg) => arg[j] \notin chars}
<1>0. Len(arg) \in Nat
    OBVIOUS
<1>1. T \subseteq Nat
    BY <1>0
<1>2. Len(arg) + 1 \in T
    BY <1>0
<1>3. PICK j \in T : \A k \in T : j <= k
    <2> HIDE DEF T
    <2> QED
        BY <1>1, <1>2, Least
<1>4. j \in i .. Len(arg) + 1 /\ (j <= Len(arg) => arg[j] \notin chars)
    BY <1>3
<1>5. ASSUME NEW k \in i .. j - 1 PROVE arg[k] \in chars
    <2>1. k \in i .. Len(arg) + 1 /\ ~(j <= k) /\ k <= Len(arg)
        BY <1>0, <1>4
    <2>2. k \notin T
        BY <1>3, <2>1
    <2> QED
        BY <2>1, <2>2
<1> HIDE DEF T
<1> QED
    BY <1>4, <1>5 DEF EndOfRun

\* What it takes for a bare name is one, if it begins with a letter.
LEMMA BareIsBare ==
    ASSUME LoopType, Dollar, Next1 \in Letters
    PROVE  /\ Bare(argAt) \in Seq(Chars) /\ ValidName(Bare(argAt))
           /\ IsBare(Left, Bare(argAt))
<1> DEFINE e == EndOfRun(argAt + 1, NameChars)
<1>1. /\ Len(arg) \in Nat /\ argAt \in 1 .. Len(arg) - 1 /\ arg \in Seq(Chars)
      /\ Left \in Seq(Chars) /\ Len(Left) = Len(arg) - argAt + 1 /\ Left[1] = "$"
    BY DollarLeft DEF LoopType
<1>2. \A i \in 1 .. Len(arg) - argAt + 1 : Left[i] = arg[i + argAt - 1]
    BY DollarLeft
<1>3. /\ e \in argAt + 1 .. Len(arg) + 1
      /\ \A k \in argAt + 1 .. e - 1 : arg[k] \in NameChars
      /\ e <= Len(arg) => arg[e] \notin NameChars
    <2>1. argAt + 1 \in Nat \ {0} /\ argAt + 1 <= Len(arg) + 1
        BY <1>1
    <2> QED
        BY <1>1, <2>1, EndOfRunIs
<1>4. Bare(argAt) = From(argAt + 1, e - 1)
    BY DEF Bare
<1> HIDE DEF e
<1>5. e # argAt + 1
    BY <1>1, <1>3 DEF Next1, NameChars
<1>6. PICK n : n = Bare(argAt)
    OBVIOUS
<1>7. /\ n \in Seq(Chars) /\ Len(n) = e - argAt - 1
      /\ \A k \in 1 .. e - argAt - 1 : n[k] = arg[k + argAt]
    <2>1. argAt + 1 \in Nat \ {0} /\ e \in Nat \ {0} /\ argAt + 1 <= e /\ e <= Len(arg) + 1
        BY <1>1, <1>3
    <2>2. PICK s \in Seq(Chars), i \in Nat \ {0}, j \in Nat \ {0} :
              s = arg /\ i = argAt + 1 /\ j = e
        BY <1>1, <2>1
    <2>3. n = SubSeq(s, i, j - 1) /\ i <= j /\ j <= Len(s) + 1
        BY <1>1, <1>4, <1>6, <2>1, <2>2 DEF From
    <2>4. /\ n \in Seq(Chars) /\ Len(n) = j - i
          /\ \A k \in 1 .. j - i : n[k] = s[k + i - 1]
        BY ONLY <2>3, CutIs, s \in Seq(Chars), i \in Nat \ {0}, j \in Nat \ {0}
    <2>5. j - i = e - argAt - 1 /\ \A k \in 1 .. e - argAt - 1 : k + i - 1 = k + argAt
        BY <1>1, <1>3, <2>2
    <2> QED
        BY <2>2, <2>4, <2>5
<1>8. ASSUME NEW k \in 1 .. e - argAt - 1
      PROVE  n[k] \in NameChars /\ Left[k + 1] = n[k]
    <2>1. /\ k + 1 \in 1 .. Len(arg) - argAt + 1 /\ k + 1 + argAt - 1 = k + argAt
          /\ k + argAt \in argAt + 1 .. e - 1
        BY <1>1, <1>3
    <2>2. Left[k + 1] = arg[k + argAt] /\ n[k] = arg[k + argAt]
        BY <1>2, <1>7, <2>1
    <2> QED
        BY <1>3, <2>1, <2>2
<1>9. ValidName(n)
    <2>1. 1 \in 1 .. e - argAt - 1 /\ 1 + argAt = argAt + 1
        BY <1>1, <1>3, <1>5
    <2>2. n[1] \in Letters
        BY <1>7, <2>1 DEF Next1
    <2>3. n # <<>>
        BY <1>7, <2>1
    <2>4. \A k \in 2 .. Len(n) : k \in 1 .. e - argAt - 1
        BY <1>1, <1>3, <1>7
    <2> QED
        BY <1>8, <2>2, <2>3, <2>4 DEF ValidName
<1>10. /\ Len(Left) >= Len(n) + 1
       /\ Len(Left) > Len(n) + 1 => Left[Len(n) + 2] \notin NameChars
    <2>1. PICK k \in Nat : k = e - argAt + 1
        BY <1>1, <1>3
    <2>2. k = Len(n) + 2 /\ Len(Left) >= Len(n) + 1
        BY <1>1, <1>3, <1>7, <2>1
    <2>3. ASSUME Len(Left) > Len(n) + 1
          PROVE  k \in 1 .. Len(arg) - argAt + 1 /\ k + argAt - 1 = e /\ e <= Len(arg)
        BY <1>1, <1>3, <1>7, <2>1, <2>3
    <2> QED
        BY <1>2, <1>3, <2>2, <2>3
<1>11. IsBare(Left, n)
    BY <1>1, <1>7, <1>8, <1>10, BareIs
<1> QED
    BY <1>6, <1>7, <1>9, <1>11

LEMMA BracedMeans == LoopType /\ AsMeant /\ ExpandBraced => AsMeant'
<1> SUFFICES ASSUME LoopType, AsMeant, ExpandBraced PROVE AsMeant'
    OBVIOUS
<1>1. Dollar /\ Next1 = "{"
    BY DEF ExpandBraced
<1>2. PICK n : n = Braced(argAt)
    OBVIOUS
<1>3. Known(n) /\ ValidName(n) /\ Write(Value(n), Len(n) + 3)
    BY <1>2 DEF ExpandBraced, BracedKnown, BracedRead
<1>4. n \in DOMAIN Defined /\ Defined[n] = Value(n) /\ Sound(Defined)
    BY <1>3, DefinedIs
<1>5. InBraces(Left, n)
    BY <1>1, <1>2, <1>3, BracedIs DEF ValidName
<1>6. Reading /\ Left \in Seq(Chars)
    BY <1>1, DollarLeft
<1>7. HeadOf(Defined, Left) = [length |-> Len(n) + 3, means |-> Value(n)]
    BY <1>4, <1>5, <1>6, HeadBraces
<1> QED
    BY <1>3, <1>6, <1>7, ReadsHead

LEMMA BareMeans == LoopType /\ AsMeant /\ ExpandBare => AsMeant'
<1> SUFFICES ASSUME LoopType, AsMeant, ExpandBare PROVE AsMeant'
    OBVIOUS
<1>1. Dollar /\ Next1 \in Letters
    BY DEF ExpandBare
<1>2. PICK n : n = Bare(argAt)
    OBVIOUS
<1>3. Known(n) /\ Write(Value(n), Len(n) + 1)
    BY <1>2 DEF ExpandBare, BareKnown, BareRead
<1>4. ValidName(n) /\ IsBare(Left, n)
    BY <1>1, <1>2, BareIsBare
<1>5. n \in DOMAIN Defined /\ Defined[n] = Value(n) /\ Sound(Defined)
    BY <1>3, <1>4, DefinedIs
<1>6. Reading /\ Left \in Seq(Chars)
    BY <1>1, DollarLeft
<1>7. HeadOf(Defined, Left) = [length |-> Len(n) + 1, means |-> Value(n)]
    BY <1>4, <1>5, <1>6, HeadBare
<1> QED
    BY <1>3, <1>6, <1>7, ReadsHead

\* A dollar is left as it is only where nothing the documentation names begins.
LEMMA LeaveMeans == LoopType /\ AsMeant /\ LeaveDollar => AsMeant'
<1> SUFFICES ASSUME LoopType, AsMeant, LeaveDollar PROVE AsMeant'
    OBVIOUS
<1>1. Dollar /\ Next1 # "$" /\ Write(<<"$">>, 1)
    BY DEF LeaveDollar
<1>2. ~(Next1 = "{" /\ BracedKnown) /\ ~(Next1 \in Letters /\ BareKnown)
    BY DEF LeaveDollar
<1>3. Reading /\ Left \in Seq(Chars) /\ Left[1] = "$" /\ Left[2] = Next1
    BY <1>1, DollarLeft
<1>4. ~StartsWith(Left, <<"$", "$">>)
    BY <1>1, <1>3, DollarsAre
<1>5. Sound(Defined)
    BY DefinedIs
<1>6. ASSUME NEW n \in DOMAIN Defined PROVE ~InBraces(Left, n) /\ ~IsBare(Left, n)
    <2>1. n \in Seq(Chars) /\ ValidName(n) /\ Known(n)
        BY <1>5, DefinedIs DEF Sound
    <2>2. ASSUME InBraces(Left, n) PROVE FALSE
        <3>1. Next1 = "{"
            BY <1>3, <2>1, <2>2, BracesAre
        <3>2. /\ Braced(argAt) \in Seq(Chars) /\ Unclosed(Braced(argAt))
              /\ InBraces(Left, Braced(argAt))
            BY <1>1, <2>1, <2>2, <3>1, BracedIs
        <3>3. Unclosed(n)
            BY <2>1, NameIs
        <3>4. n = Braced(argAt)
            BY <1>3, <2>1, <2>2, <3>2, <3>3, BracesUnique
        <3> QED
            BY <1>2, <2>1, <3>1, <3>4 DEF BracedKnown
    <2>3. ASSUME IsBare(Left, n) PROVE FALSE
        <3>1. 1 \in 1 .. Len(n) /\ n[1] \in Letters
            BY <2>1, NameIs
        <3>2. Left[1 + 1] = n[1]
            BY <1>3, <2>1, <2>3, <3>1, BareIs
        <3>3. Next1 \in Letters
            BY <1>3, <3>1, <3>2
        <3>4. /\ Bare(argAt) \in Seq(Chars) /\ ValidName(Bare(argAt))
              /\ IsBare(Left, Bare(argAt))
            BY <1>1, <3>3, BareIsBare
        <3>5. n = Bare(argAt)
            BY <1>3, <2>1, <2>3, <3>4, BareUnique
        <3> QED
            BY <1>2, <2>1, <3>3, <3>5 DEF BareKnown
    <2> QED
        BY <2>2, <2>3
<1>7. HeadOf(Defined, Left) = [length |-> 1, means |-> <<"$">>]
    BY <1>3, <1>4, <1>6, HeadPlain
<1> QED
    BY <1>1, <1>3, <1>7, ReadsHead

LEMMA StepMeans == LoopType /\ AsMeant /\ ExpandStep => AsMeant'
BY CopyMeans, DollarMeans, BracedMeans, BareMeans, LeaveMeans DEF ExpandStep

LEMMA BeginMeans ==
    ASSUME LoopType, NEW a \in Seq(Chars), ExpandBegins(a)
    PROVE  AsMeant'
<1>1. argAt' = 1 /\ arg' = a /\ argOut' = <<>> /\ Defined' = Defined
    BY DEF ExpandBegins, Defined, Known, Value
<1>2. Drop(a, 0) = a /\ Len(a) \in Nat
    BY DEF Drop
<1>3. Left' = a
    BY <1>1, <1>2 DEF Left, Drop
<1>4. <<>> \o Meaning(Defined)[a] = Meaning(Defined)[a]
    <2>1. PICK m \in Seq(Chars) : m = Meaning(Defined)[a]
        BY DefinedIs, MeaningTyped
    <2>2. <<>> \o m = m
        OBVIOUS
    <2> QED
        BY <2>1, <2>2
<1>5. argAt' \in 1 .. Len(arg') + 1
    BY <1>1, <1>2
<1> QED
    BY <1>1, <1>3, <1>4, <1>5 DEF AsMeant

LEMMA TakenMeans == argAt' = 0 => AsMeant'
BY DEF AsMeant

LEMMA MeansStays == AsMeant /\ UNCHANGED <<arg, argAt, argOut, environ, loaded>> => AsMeant'
BY DEF AsMeant, Left, Drop, Defined, Known, Value

\* When nothing is left to read, what has been written is what the argument means.
LEMMA MeansSafe == LoopType /\ AsMeant => ExpandsAsMeant
<1> SUFFICES ASSUME LoopType, AsMeant, argAt > 0, ArgDone
             PROVE  argOut = Meaning(Defined)[arg]
    BY DEF ExpandsAsMeant
<1>1. arg \in Seq(Chars) /\ Len(arg) \in Nat /\ argOut \in Seq(Chars)
    BY DEF LoopType
<1>2. argAt # 0
    OBVIOUS
<1>3. argAt \in 1 .. Len(arg) + 1 /\ argOut \o Meaning(Defined)[Left] = Meaning(Defined)[arg]
    BY <1>2 DEF AsMeant
<1>4. argAt = Len(arg) + 1
    BY <1>1, <1>3 DEF ArgDone
<1>5. Left \in Seq(Chars) /\ Len(Left) = 0
    BY <1>1, <1>3, <1>4, LeftIs
<1>6. Left = <<>>
    BY <1>5
<1>7. Meaning(Defined)[Left] = <<>>
    BY <1>6, DefinedIs, MeaningOfNothing
<1>8. argOut \o <<>> = argOut
    BY <1>1
<1> QED
    BY <1>3, <1>7, <1>8

-----------------------------------------------------------------------------
(* The early return *)

\* expand returns an argument without a dollar as it is, before the loop: that
\* is what the argument means, whatever the variables are.
THEOREM NoDollarNoChange ==
    ASSUME NEW vars, Sound(vars)
    PROVE  \A s \in Seq(Chars) : (\A i \in 1 .. Len(s) : s[i] # "$") => Meaning(vars)[s] = s
<1> DEFINE Plain(s) == \A i \in 1 .. Len(s) : s[i] # "$"
           T == {k \in Nat : \A s \in Seq(Chars) : Len(s) < k /\ Plain(s) => Meaning(vars)[s] = s}
<1>1. 0 \in T
    OBVIOUS
<1>2. ASSUME NEW k \in Nat, k \in T PROVE k + 1 \in T
    <2> SUFFICES ASSUME NEW s \in Seq(Chars), Len(s) < k + 1, Plain(s)
                 PROVE  Meaning(vars)[s] = s
        OBVIOUS
    <2>1. CASE s = <<>>
        BY <2>1, MeaningOfNothing
    <2>2. CASE s # <<>>
        <3>1. Len(s) \in Nat \ {0} /\ s[1] # "$" /\ s[1] \in Chars
            BY <2>2
        <3>2. PICK n \in 0 .. Len(s) : n = 1
            BY <3>1
        <3>3. /\ Drop(s, n) \in Seq(Chars) /\ Len(Drop(s, n)) = Len(s) - n
              /\ \A i \in 1 .. Len(s) - n : Drop(s, n)[i] = s[i + n]
            BY ONLY DropIs, s \in Seq(Chars), n \in 0 .. Len(s)
        <3>4. Len(Drop(s, n)) < k
            BY <3>1, <3>2, <3>3
        <3>5. Plain(Drop(s, n))
            <4>1. ASSUME NEW i \in 1 .. Len(Drop(s, n)) PROVE Drop(s, n)[i] # "$"
                <5>1. i \in 1 .. Len(s) - n /\ i + n \in 1 .. Len(s)
                    BY <3>1, <3>2, <3>3
                <5> QED
                    BY <3>3, <5>1
            <4> QED
                BY <4>1
        <3>6. Meaning(vars)[Drop(s, n)] = Drop(s, n)
            BY <1>2, <3>3, <3>4, <3>5
        <3>7. HeadOf(vars, s) = [length |-> 1, means |-> <<s[1]>>]
            BY <2>2, <3>1, HeadIsChar
        <3>8. HeadOf(vars, s).length = n /\ HeadOf(vars, s).means = <<s[1]>>
            BY ONLY <3>2, <3>7
        <3>9. Meaning(vars)[s] = <<s[1]>> \o Drop(s, n)
            BY <2>2, <3>6, <3>8, MeaningOfHead
        <3>10. <<s[1]>> \o Drop(s, n) = s
            BY <3>1, <3>2 DEF Drop
        <3> QED
            BY <3>9, <3>10
    <2> QED
        BY <2>1, <2>2
<1> HIDE DEF T
<1>3. Nat \subseteq T
    BY <1>1, <1>2, Induction
<1>4. ASSUME NEW s \in Seq(Chars), Plain(s) PROVE Meaning(vars)[s] = s
    <2>1. Len(s) + 1 \in T /\ Len(s) < Len(s) + 1
        BY <1>3
    <2> QED
        BY <1>4, <2>1 DEF T
<1> QED
    BY <1>4

LEMMA Advances ==
    ASSUME argAt \in Nat \ {0}, arg \in Seq(Chars), AsMeant',
           NEW k \in Nat \ {0}, NEW w, Write(w, k)
    PROVE  argAt' \in argAt + 1 .. Len(arg') + 1
<1>1. argAt' = argAt + k /\ Len(arg') \in Nat
    BY DEF Write
<1>2. argAt' # 0
    BY <1>1
<1>3. argAt' \in 1 .. Len(arg') + 1
    BY <1>2 DEF AsMeant
<1> QED
    BY <1>1, <1>3

\* Every turn of the loop reads something, and never more than there is: this is what
\* its end rests on, and the index it moves by hand in three places.
THEOREM EveryTurnReads ==
    LoopType /\ AsMeant /\ ExpandStep => argAt' \in argAt + 1 .. Len(arg') + 1
<1> SUFFICES ASSUME LoopType, AsMeant, ExpandStep
             PROVE  argAt' \in argAt + 1 .. Len(arg') + 1
    OBVIOUS
<1>1. AsMeant' /\ arg \in Seq(Chars)
    BY StepMeans DEF LoopType
<1>2. argAt \in Nat \ {0}
    <2>1. Reading
        BY DEF ExpandStep, CopyChar, WriteDollar, ExpandBraced, ExpandBare, LeaveDollar, Dollar
    <2> QED
        BY ONLY <2>1 DEF Reading
<1>3. CASE CopyChar
    BY <1>1, <1>2, <1>3, Advances DEF CopyChar
<1>4. CASE WriteDollar
    BY <1>1, <1>2, <1>4, Advances DEF WriteDollar
<1>5. CASE LeaveDollar
    <2>1. Write(<<"$">>, 1)
        BY <1>5 DEF LeaveDollar
    <2>2. 1 \in Nat \ {0}
        OBVIOUS
    <2> QED
        BY ONLY <1>1, <1>2, <2>1, <2>2, Advances
<1>6. CASE ExpandBraced
    <2>1. Braced(argAt) # <<>> /\ Dollar /\ Next1 = "{"
        BY <1>6 DEF ExpandBraced, BracedKnown, ValidName
    <2>2. Braced(argAt) \in Seq(Chars)
        BY <2>1, BracedIs
    <2>3. BracedRead \in Nat \ {0}
        BY <2>2 DEF BracedRead
    <2> QED
        BY <1>1, <1>2, <1>6, <2>3, Advances DEF ExpandBraced
<1>7. CASE ExpandBare
    <2>1. Bare(argAt) \in Seq(Chars)
        BY <1>7, BareIsBare DEF ExpandBare
    <2>2. BareRead \in Nat \ {0}
        BY <2>1 DEF BareRead
    <2> QED
        BY <1>1, <1>2, <1>7, <2>2, Advances DEF ExpandBare
<1> QED
    BY <1>3, <1>4, <1>5, <1>6, <1>7 DEF ExpandStep

=============================================================================
