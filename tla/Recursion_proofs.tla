--------------------------- MODULE Recursion_proofs ---------------------------
(***************************************************************************)
(* Numbers, functions that are defined by recursion, and the exponential   *)
(* backoff (ExpBackoff), for any number of failures.                       *)
(*                                                                         *)
(* A set of numbers has a least element; induction follows for sets, and   *)
(* from that the existence of a function that meets a recursive equation.  *)
(***************************************************************************)
EXTENDS ExpBackoff, WellFoundedInduction, TLAPS

-----------------------------------------------------------------------------
(* Numbers, and functions by recursion *)

Less == {ss \in Nat \X Nat : ss[1] < ss[2]}

LEMMA LessIsWellFounded == IsWellFoundedOn(Less, Nat)
BY NatLessThanWellFounded DEF OpToRel, Less

LEMMA Least ==
    ASSUME NEW T, T \subseteq Nat, T # {}
    PROVE  \E m \in T : \A k \in T : m <= k
<1>1. PICK m \in T : \A k \in T : ~ (<<k, m>> \in Less)
    BY LessIsWellFounded, WFMin
<1>2. ASSUME NEW k \in T PROVE m <= k
    <2>1. m \in Nat /\ k \in Nat
        OBVIOUS
    <2>2. ~(k < m)
        BY <1>1, <2>1 DEF Less
    <2> QED
        BY <2>1, <2>2
<1> QED
    BY <1>2

\* Induction: a set of numbers closed under successor holds them all.
LEMMA Induction ==
    ASSUME NEW T, 0 \in T, \A n \in Nat : n \in T => n + 1 \in T
    PROVE  Nat \subseteq T
<1> SUFFICES ASSUME Nat \ T # {} PROVE FALSE
    OBVIOUS
<1>1. PICK m \in Nat \ T : \A k \in Nat \ T : m <= k
    BY Least
<1>2. m # 0 /\ m - 1 \in Nat /\ m - 1 + 1 = m
    BY <1>1
<1>3. m - 1 \in T
    BY <1>1, <1>2
<1> QED
    BY <1>1, <1>2, <1>3

\* f is the function on what in S is smaller than n: the first value at size 0, and
\* elsewhere a step from its value at the rest.
Approximates(f, n, S, size, first, step, rest) ==
    f = [s \in {s \in S : size[s] < n} |->
            IF size[s] = 0 THEN first ELSE step[<<s, f[rest[s]]>>]]

Shrinks(S, size, rest) ==
    /\ size \in [S -> Nat] /\ rest \in [S -> S]
    /\ \A s \in S : size[s] # 0 => size[rest[s]] < size[s]

LEMMA ApproximationExists ==
    ASSUME NEW S, NEW size, NEW first, NEW step, NEW rest, Shrinks(S, size, rest)
    PROVE  \A n \in Nat : \E f : Approximates(f, n, S, size, first, step, rest)
<1> DEFINE T == {n \in Nat : \E f : Approximates(f, n, S, size, first, step, rest)}
<1>1. 0 \in T
    <2> DEFINE f == [s \in {} |-> first]
    <2>1. {s \in S : size[s] < 0} = {}
        BY DEF Shrinks
    <2>2. Approximates(f, 0, S, size, first, step, rest)
        BY <2>1 DEF Approximates
    <2> QED
        BY <2>2
<1>2. ASSUME NEW n \in Nat, n \in T PROVE n + 1 \in T
    <2>1. PICK f : Approximates(f, n, S, size, first, step, rest)
        BY <1>2
    <2> DEFINE g == [s \in {s \in S : size[s] < n + 1} |->
                        IF size[s] = 0 THEN first ELSE step[<<s, f[rest[s]]>>]]
    <2>2. ASSUME NEW s \in S, size[s] < n PROVE f[s] = g[s]
        <3>1. s \in {t \in S : size[t] < n} /\ s \in {t \in S : size[t] < n + 1}
            BY <2>2 DEF Shrinks
        <3>2. f[s] = IF size[s] = 0 THEN first ELSE step[<<s, f[rest[s]]>>]
            BY <2>1, <3>1 DEF Approximates
        <3> QED
            BY <3>1, <3>2
    <2>3. ASSUME NEW s \in S, size[s] < n + 1, size[s] # 0 PROVE f[rest[s]] = g[rest[s]]
        <3>1. rest[s] \in S /\ size[rest[s]] < n
            BY <2>3 DEF Shrinks
        <3> QED
            BY <2>2, <3>1
    <2>4. g = [s \in {s \in S : size[s] < n + 1} |->
                        IF size[s] = 0 THEN first ELSE step[<<s, g[rest[s]]>>]]
        BY <2>3
    <2>5. Approximates(g, n + 1, S, size, first, step, rest)
        BY <2>4 DEF Approximates
    <2> HIDE DEF g
    <2> QED
        BY <2>5
<1> HIDE DEF T
<1>3. Nat \subseteq T
    BY <1>1, <1>2, Induction
<1> QED
    BY <1>3 DEF T

LEMMA ApproximationsAgree ==
    ASSUME NEW S, NEW size, NEW first, NEW step, NEW rest, Shrinks(S, size, rest),
           NEW m \in Nat, NEW n \in Nat, NEW f, NEW g,
           Approximates(f, m, S, size, first, step, rest), Approximates(g, n, S, size, first, step, rest)
    PROVE  \A s \in S : size[s] < m /\ size[s] < n => f[s] = g[s]
<1> DEFINE T == {k \in Nat : \A s \in S : size[s] < k /\ size[s] < m /\ size[s] < n => f[s] = g[s]}
<1>1. 0 \in T
    BY DEF Shrinks
<1>2. ASSUME NEW k \in Nat, k \in T PROVE k + 1 \in T
    <2>1. SUFFICES ASSUME NEW s \in S, size[s] < k + 1, size[s] < m, size[s] < n
                 PROVE  f[s] = g[s]
        OBVIOUS
    <2>2. f[s] = IF size[s] = 0 THEN first ELSE step[<<s, f[rest[s]]>>]
        BY <2>1 DEF Approximates
    <2>3. g[s] = IF size[s] = 0 THEN first ELSE step[<<s, g[rest[s]]>>]
        BY <2>1 DEF Approximates
    <2>4. size[s] # 0 => f[rest[s]] = g[rest[s]]
        BY <1>2, <2>1 DEF Shrinks
    <2> QED
        BY <2>2, <2>3, <2>4
<1> HIDE DEF T
<1>3. Nat \subseteq T
    BY <1>1, <1>2, Induction
<1>4. ASSUME NEW s \in S, size[s] < m, size[s] < n PROVE f[s] = g[s]
    <2>1. size[s] + 1 \in T /\ size[s] < size[s] + 1
        BY <1>3 DEF Shrinks
    <2> QED
        BY <1>4, <2>1 DEF T
<1> QED
    BY <1>4

Solves(f, S, size, first, step, rest) ==
    f = [s \in S |-> IF size[s] = 0 THEN first ELSE step[<<s, f[rest[s]]>>]]

LEMMA Recursion ==
    ASSUME NEW S, NEW size, NEW first, NEW step, NEW rest, Shrinks(S, size, rest)
    PROVE  \E f : Solves(f, S, size, first, step, rest)
<1> DEFINE A(n) == CHOOSE f : Approximates(f, n, S, size, first, step, rest)
           F == [s \in S |-> A(size[s] + 1)[s]]
<1>1. \A n \in Nat : Approximates(A(n), n, S, size, first, step, rest)
    BY ApproximationExists
<1> HIDE DEF A
<1>2. ASSUME NEW s \in S, NEW n \in Nat, size[s] < n PROVE F[s] = A(n)[s]
    <2>1. size[s] + 1 \in Nat /\ size[s] < size[s] + 1
        BY DEF Shrinks
    <2>2. PICK m, f, g : m \in Nat /\ m = size[s] + 1 /\ f = A(n) /\ g = A(m)
        BY <2>1
    <2>3. m \in Nat
        BY <2>2
    <2>4. Approximates(f, n, S, size, first, step, rest)
        BY <1>1, <2>2
    <2>5. Approximates(g, m, S, size, first, step, rest)
        BY <1>1, <2>2
    <2>6. \A t \in S : size[t] < n /\ size[t] < m => f[t] = g[t]
        BY ONLY <2>4, <2>5, ApproximationsAgree, Shrinks(S, size, rest), n \in Nat, <2>3
    <2>7. f[s] = g[s]
        BY <1>2, <2>1, <2>2, <2>6
    <2> QED
        BY <2>2, <2>7
<1>3. ASSUME NEW s \in S
      PROVE  F[s] = IF size[s] = 0 THEN first ELSE step[<<s, F[rest[s]]>>]
    <2>1. size[s] + 1 \in Nat /\ size[s] < size[s] + 1
        BY DEF Shrinks
    <2> DEFINE g == A(size[s] + 1)
    <2>2. Approximates(g, size[s] + 1, S, size, first, step, rest)
        BY <1>1, <2>1
    <2>3. F[s] = g[s]
        OBVIOUS
    <2> HIDE DEF g
    <2>4. g[s] = IF size[s] = 0 THEN first ELSE step[<<s, g[rest[s]]>>]
        BY <2>1, <2>2 DEF Approximates
    <2>5. size[s] # 0 => F[rest[s]] = g[rest[s]]
        <3>1. ASSUME size[s] # 0 PROVE rest[s] \in S /\ size[rest[s]] < size[s] + 1
            BY <3>1 DEF Shrinks
        <3> QED
            BY <1>2, <2>1, <3>1 DEF g
    <2> QED
        BY <2>3, <2>4, <2>5
<1>4. F = [s \in S |-> IF size[s] = 0 THEN first ELSE step[<<s, F[rest[s]]>>]]
    <2> DEFINE G == [s \in S |-> IF size[s] = 0 THEN first ELSE step[<<s, F[rest[s]]>>]]
    <2>1. \A s \in S : F[s] = G[s]
        BY <1>3
    <2>2. F = [s \in S |-> F[s]] /\ G = [s \in S |-> G[s]]
        OBVIOUS
    <2> HIDE DEF F, G
    <2>3. F = G
        BY <2>1, <2>2
    <2> QED
        BY <2>3 DEF G
<1> HIDE DEF F
<1>5. Solves(F, S, size, first, step, rest)
    BY <1>4 DEF Solves
<1> QED
    BY <1>5

\* Its values are where the first is and the steps lead.
LEMMA RecursionTyped ==
    ASSUME NEW S, NEW V, NEW size, NEW first \in V, NEW step \in [S \X V -> V], NEW rest,
           Shrinks(S, size, rest), NEW f, Solves(f, S, size, first, step, rest)
    PROVE  \A s \in S : f[s] \in V
<1> DEFINE T == {k \in Nat : \A s \in S : size[s] < k => f[s] \in V}
<1>1. 0 \in T
    BY DEF Shrinks
<1>2. ASSUME NEW k \in Nat, k \in T PROVE k + 1 \in T
    <2> SUFFICES ASSUME NEW s \in S, size[s] < k + 1 PROVE f[s] \in V
        OBVIOUS
    <2>1. f[s] = IF size[s] = 0 THEN first ELSE step[<<s, f[rest[s]]>>]
        BY DEF Solves
    <2>2. size[s] # 0 => f[rest[s]] \in V
        BY <1>2 DEF Shrinks
    <2> QED
        BY <2>1, <2>2
<1> HIDE DEF T
<1>3. Nat \subseteq T
    BY <1>1, <1>2, Induction
<1>4. ASSUME NEW s \in S PROVE f[s] \in V
    <2>1. size[s] + 1 \in T /\ size[s] < size[s] + 1
        BY <1>3 DEF Shrinks
    <2> QED
        BY <2>1 DEF T
<1> QED
    BY <1>4

-----------------------------------------------------------------------------
(* The backoff *)

LEMMA Pow2Exists ==
    Pow2 = [n \in Nat |-> IF n = 0 THEN 1 ELSE 2 * Pow2[n - 1]]
<1> DEFINE size == [n \in Nat |-> n]
           rest == [n \in Nat |-> IF n = 0 THEN 0 ELSE n - 1]
           step == [p \in Nat \X Nat |-> 2 * p[2]]
<1>1. Shrinks(Nat, size, rest)
    BY DEF Shrinks
<1>2. 1 \in Nat /\ step \in [Nat \X Nat -> Nat]
    OBVIOUS
<1>3. /\ \A n \in Nat : size[n] = n /\ (n # 0 => rest[n] = n - 1)
      /\ \A n \in Nat, m \in Nat : step[<<n, m>>] = 2 * m
    OBVIOUS
<1> HIDE DEF size, rest, step
<1>4. PICK f : Solves(f, Nat, size, 1, step, rest)
    BY <1>1, Recursion
<1>5. \A n \in Nat : f[n] \in Nat
    BY <1>1, <1>2, <1>4, RecursionTyped
<1>6. ASSUME NEW n \in Nat
      PROVE  (IF size[n] = 0 THEN 1 ELSE step[<<n, f[rest[n]]>>])
                 = IF n = 0 THEN 1 ELSE 2 * f[n - 1]
    <2>1. n # 0 => n - 1 \in Nat /\ f[n - 1] \in Nat
        BY <1>5
    <2> QED
        BY <1>3, <2>1
<1>7. f = [n \in Nat |-> IF n = 0 THEN 1 ELSE 2 * f[n - 1]]
    BY ONLY <1>4, <1>6 DEF Solves
<1> QED
    BY <1>7 DEF Pow2

LEMMA Pow2Steps == Pow2[0] = 1 /\ \A n \in Nat : Pow2[n + 1] = 2 * Pow2[n]
<1>1. Pow2[0] = 1
    BY Pow2Exists
<1>2. ASSUME NEW n \in Nat PROVE Pow2[n + 1] = 2 * Pow2[n]
    <2>1. n + 1 \in Nat /\ n + 1 # 0 /\ n + 1 - 1 = n
        OBVIOUS
    <2> QED
        BY <2>1, Pow2Exists
<1> QED
    BY <1>1, <1>2

LEMMA Pow2Positive == \A n \in Nat : Pow2[n] \in Nat \ {0}
<1> DEFINE T == {n \in Nat : Pow2[n] \in Nat \ {0}}
<1>1. 0 \in T
    BY Pow2Steps
<1>2. ASSUME NEW n \in Nat, n \in T PROVE n + 1 \in T
    BY <1>2, Pow2Steps
<1> HIDE DEF T
<1>3. Nat \subseteq T
    BY <1>1, <1>2, Induction
<1> QED
    BY <1>3 DEF T

LEMMA Pow2Sum == \A m \in Nat, n \in Nat : Pow2[m + n] = Pow2[m] * Pow2[n]
<1> SUFFICES ASSUME NEW m \in Nat PROVE \A n \in Nat : Pow2[m + n] = Pow2[m] * Pow2[n]
    OBVIOUS
<1> DEFINE T == {n \in Nat : Pow2[m + n] = Pow2[m] * Pow2[n]}
<1>1. 0 \in T
    BY Pow2Steps, Pow2Positive
<1>2. ASSUME NEW n \in Nat, n \in T PROVE n + 1 \in T
    <2>1. Pow2[m + (n + 1)] = 2 * Pow2[m + n] /\ Pow2[n + 1] = 2 * Pow2[n]
        <3>1. m + (n + 1) = (m + n) + 1 /\ m + n \in Nat
            OBVIOUS
        <3> QED
            BY <3>1, Pow2Steps
    <2>2. PICK a \in Nat, b \in Nat : a = Pow2[m] /\ b = Pow2[n]
        BY Pow2Positive
    <2>3. 2 * (a * b) = a * (2 * b)
        OBVIOUS
    <2>4. Pow2[m + n] = Pow2[m] * Pow2[n]
        BY <1>2
    <2> QED
        BY <2>1, <2>2, <2>3, <2>4
<1> HIDE DEF T
<1>3. Nat \subseteq T
    BY <1>1, <1>2, Induction
<1> QED
    BY <1>3 DEF T

LEMMA Divided ==
    ASSUME NEW a \in Nat, NEW b \in Nat \ {0}
    PROVE  \E d \in Nat : a = b * d + (a % b) /\ a % b \in 0 .. b - 1
<1>1. a \div b \in Nat /\ a = b * (a \div b) + (a % b) /\ a % b \in 0 .. b - 1
    OBVIOUS
<1> QED
    BY <1>1

LEMMA Multiple ==
    ASSUME NEW m \in Nat, NEW b \in Nat \ {0}
    PROVE  (b * m) % b = 0
OBVIOUS

LEMMA AtLeast ==
    ASSUME NEW a \in Nat \ {0}, NEW b \in Nat
    PROVE  b <= a * b
OBVIOUS

\* Of a number that a power of two divides, the lowest bits are a multiple of it too,
\* and none are left when the power is as high as they are many.
LEMMA LowBits ==
    ASSUME NEW c \in Nat \ {0}, NEW j \in Nat, NEW bits \in Nat \ {0}
    PROVE  \E w \in Nat : (c * Pow2[j]) % Pow2[bits] = w * Pow2[j]
<1>1. PICK q \in Nat \ {0}, b \in Nat \ {0} : q = Pow2[j] /\ b = Pow2[bits]
    BY Pow2Positive
<1>2. CASE bits <= j
    <2>1. j - bits \in Nat /\ bits + (j - bits) = j
        BY <1>2
    <2>2. Pow2[bits + (j - bits)] = Pow2[bits] * Pow2[j - bits]
        BY <2>1, Pow2Sum
    <2>3. PICK r \in Nat \ {0} : r = Pow2[j - bits]
        BY <2>1, Pow2Positive
    <2>4. q = b * r
        BY <1>1, <2>1, <2>2, <2>3
    <2>5. c * q = b * (c * r) /\ c * r \in Nat
        BY <2>4
    <2>6. (b * (c * r)) % b = 0
        BY <2>5, Multiple
    <2>7. (c * q) % b = 0 * q
        BY <2>5, <2>6
    <2> QED
        BY <1>1, <2>7
<1>3. CASE j < bits
    <2>1. bits - j \in Nat /\ j + (bits - j) = bits
        BY <1>3
    <2>2. Pow2[j + (bits - j)] = Pow2[j] * Pow2[bits - j]
        BY <2>1, Pow2Sum
    <2>3. PICK r \in Nat \ {0} : r = Pow2[bits - j]
        BY <2>1, Pow2Positive
    <2>4. b = q * r
        BY <1>1, <2>1, <2>2, <2>3
    <2>5. PICK a \in Nat : a = c * q
        OBVIOUS
    <2>6. PICK d \in Nat : a = b * d + (a % b) /\ a % b \in 0 .. b - 1
        BY Divided
    <2>7. PICK u \in Nat : u = a % b
        BY <2>6
    <2>8. c * q = (q * r) * d + u
        BY <2>4, <2>5, <2>6, <2>7
    <2>9. u = (c - r * d) * q
        BY <2>8
    <2>10. c - r * d \in Nat
        <3>1. PICK v \in Int : v = c - r * d
            OBVIOUS
        <3>2. u = v * q
            BY <2>9, <3>1
        <3>3. v >= 0
            BY <3>2
        <3> QED
            BY <3>1, <3>3
    <2> QED
        BY <1>1, <2>5, <2>7, <2>9, <2>10
<1> QED
    BY <1>2, <1>3

\* A backoff is as it would be with integers of any size: what the shift loses never
\* makes a short wait of a long one.  It holds of a base that is c times a power of two
\* when c times the limit is at most the greatest duration.
THEOREM BackoffExact ==
    ASSUME NEW c \in Nat \ {0}, NEW k \in Nat, NEW bits \in Nat \ {0}, NEW limit \in Nat \ {0},
           c * limit <= Pow2[bits - 1]
    PROVE  \A n \in Nat :
               LET exact == c * Pow2[k] * Pow2[n]
               IN  Capped(ShiftLeft(c * Pow2[k], n, bits), limit)
                       = IF exact <= limit THEN exact ELSE limit
<1> SUFFICES ASSUME NEW n \in Nat
             PROVE  Capped(ShiftLeft(c * Pow2[k], n, bits), limit)
                        = IF c * Pow2[k] * Pow2[n] <= limit THEN c * Pow2[k] * Pow2[n] ELSE limit
    OBVIOUS
<1>1. PICK h \in Nat \ {0}, b \in Nat \ {0}, q \in Nat \ {0} :
          h = Pow2[bits - 1] /\ b = Pow2[bits] /\ q = Pow2[k + n]
    BY Pow2Positive
<1>2. b = 2 * h
    <2>1. bits - 1 \in Nat /\ bits - 1 + 1 = bits
        OBVIOUS
    <2> QED
        BY <1>1, <2>1, Pow2Steps
<1>3. c * Pow2[k] * Pow2[n] = c * q
    <2>1. PICK x \in Nat, y \in Nat : x = Pow2[k] /\ y = Pow2[n]
        BY Pow2Positive
    <2>2. q = x * y
        BY <1>1, <2>1, Pow2Sum
    <2>3. c * x * y = c * q
        BY <2>2
    <2> QED
        BY <2>1, <2>3
<1>4. PICK v \in Nat : v = c * q
    OBVIOUS
<1>5. PICK w \in Nat : v % b = w * q
    <2>1. k + n \in Nat
        OBVIOUS
    <2> QED
        BY <1>1, <1>4, <2>1, LowBits
<1>6. PICK u \in Nat : u = v % b /\ u < b
    <2>1. v % b \in 0 .. b - 1
        OBVIOUS
    <2> QED
        BY <2>1
<1>7. ShiftLeft(c * Pow2[k], n, bits) = IF u < h THEN u ELSE u - b
    BY <1>1, <1>3, <1>4, <1>6 DEF ShiftLeft, Signed
<1>8. CASE v < h
    <2>1. u = v
        BY <1>2, <1>6, <1>8
    <2>2. v # 0
        BY <1>4
    <2> QED
        BY <1>3, <1>4, <1>7, <1>8, <2>1, <2>2 DEF Capped
<1>9. CASE v >= h
    <2>1. limit <= h
        <3>1. PICK m \in Nat : m = c * limit
            OBVIOUS
        <3>2. limit <= m /\ m <= h
            BY <1>1, <3>1, AtLeast
        <3> QED
            BY <3>2
    <2>2. limit <= q
        <3>1. c * limit <= c * q
            BY <1>1, <1>4, <1>9
        <3> QED
            BY <3>1
    <2>3. u = 0 \/ q <= u
        BY <1>5, <1>6, AtLeast
    <2>4. Capped(ShiftLeft(c * Pow2[k], n, bits), limit) = limit
        BY <1>2, <1>6, <1>7, <2>2, <2>3 DEF Capped
    <2>5. v <= limit => v = limit
        BY <1>9, <2>1
    <2> QED
        BY <1>3, <1>4, <2>4, <2>5
<1> QED
    BY <1>8, <1>9

\* The durations of the code, in nanoseconds: backoffBase and backoffCap of manager.go
\* are a second and thirty, those of envurl.go half a second and eight.
Second == 1000000000

LEMMA Pow2Values ==
    Pow2[8] = 256 /\ Pow2[9] = 512 /\ Pow2[63] >= 72057594037927936
<1>1. Pow2[1] = 2 /\ Pow2[2] = 4
    <2>1. Pow2[0 + 1] = 2 * Pow2[0] /\ Pow2[1 + 1] = 2 * Pow2[1]
        BY Pow2Steps
    <2> QED
        BY <2>1, Pow2Steps
<1>2. Pow2[4] = 16 /\ Pow2[3] = 8
    <2>1. Pow2[2 + 2] = Pow2[2] * Pow2[2] /\ Pow2[2 + 1] = 2 * Pow2[2]
        BY Pow2Sum, Pow2Steps
    <2> QED
        BY <1>1, <2>1
<1>3. Pow2[8] = 256 /\ Pow2[9] = 512 /\ Pow2[7] = 128
    <2>1. /\ Pow2[4 + 4] = Pow2[4] * Pow2[4] /\ Pow2[8 + 1] = 2 * Pow2[8]
          /\ Pow2[4 + 3] = Pow2[4] * Pow2[3]
        BY Pow2Sum, Pow2Steps
    <2> QED
        BY <1>2, <2>1
<1>4. Pow2[16] = 65536
    <2>1. Pow2[8 + 8] = Pow2[8] * Pow2[8]
        BY Pow2Sum
    <2> QED
        BY <1>3, <2>1
<1>5. Pow2[32] = 4294967296 /\ Pow2[24] = 16777216
    <2>1. Pow2[16 + 16] = Pow2[16] * Pow2[16] /\ Pow2[16 + 8] = Pow2[16] * Pow2[8]
        BY Pow2Sum
    <2> QED
        BY <1>3, <1>4, <2>1, SMT
<1>6. Pow2[63] >= 72057594037927936
    <2>1. Pow2[32 + 24] = Pow2[32] * Pow2[24] /\ Pow2[56 + 7] = Pow2[56] * Pow2[7]
        BY Pow2Sum
    <2>2. Pow2[56] = 72057594037927936
        BY <1>5, <2>1, SMT
    <2>3. PICK a \in Nat, b \in Nat : a = Pow2[56] /\ b = Pow2[63]
        BY Pow2Positive, SMT
    <2>4. b = a * 128
        BY <1>3, <2>1, <2>3, SMT
    <2>5. b >= a
        BY <2>4, SMT
    <2> QED
        BY <2>2, <2>3, <2>5, SMT
<1> QED
    BY <1>3, <1>6, SMT

\* The wait of the tunnel (manager.go:148) and that of --env-url (envurl.go:129), in
\* a Duration of 64 bits, never wrap around below their caps, however many failures.
THEOREM NoShortWait ==
    \A n \in Nat :
        /\ Capped(ShiftLeft(Second, n, 64), 30 * Second)
               = IF Pow2[n] <= 30 THEN Second * Pow2[n] ELSE 30 * Second
        /\ Capped(ShiftLeft(500000000, n, 64), 8 * Second)
               = IF Pow2[n] <= 16 THEN 500000000 * Pow2[n] ELSE 8 * Second
<1>1. PICK p \in Nat, q \in Nat, c \in Nat \ {0}, base \in Nat \ {0}, half \in Nat \ {0} :
          /\ p = 9 /\ q = 8 /\ c = 1953125 /\ base = Second /\ half = 500000000
    BY SMT DEF Second
<1>2. base = c * Pow2[p] /\ half = c * Pow2[q]
    BY <1>1, Pow2Values, SMT DEF Second
<1>3. PICK bits \in Nat \ {0}, cap \in Nat \ {0}, limit \in Nat \ {0} :
          bits = 64 /\ cap = 30 * Second /\ limit = 8 * Second
    BY SMT DEF Second
<1>4. c * cap <= Pow2[bits - 1] /\ c * limit <= Pow2[bits - 1]
    <2>1. Pow2[bits - 1] >= 72057594037927936
        BY <1>3, Pow2Values, SMT
    <2>2. c * cap = 58593750000000000 /\ c * limit = 15625000000000000
        BY <1>1, <1>3, SMT DEF Second
    <2>3. PICK a \in Nat : a = Pow2[bits - 1]
        BY Pow2Positive, SMT
    <2> QED
        BY <2>1, <2>2, <2>3, SMT
<1>5. \A n \in Nat :
          Capped(ShiftLeft(base, n, bits), cap)
              = IF base * Pow2[n] <= cap THEN base * Pow2[n] ELSE cap
    BY ONLY <1>2, <1>4, BackoffExact, p \in Nat, c \in Nat \ {0}, bits \in Nat \ {0},
            cap \in Nat \ {0}
<1>6. \A n \in Nat :
          Capped(ShiftLeft(half, n, bits), limit)
              = IF half * Pow2[n] <= limit THEN half * Pow2[n] ELSE limit
    BY ONLY <1>2, <1>4, BackoffExact, q \in Nat, c \in Nat \ {0}, bits \in Nat \ {0},
            limit \in Nat \ {0}
<1>7. ASSUME NEW n \in Nat
      PROVE  /\ base * Pow2[n] <= cap <=> Pow2[n] <= 30
             /\ half * Pow2[n] <= limit <=> Pow2[n] <= 16
    BY <1>1, <1>3, Pow2Positive, SMT DEF Second
<1> QED
    BY <1>1, <1>3, <1>5, <1>6, <1>7, SMT

=============================================================================
