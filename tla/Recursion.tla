----------------------------- MODULE Recursion -----------------------------
(***************************************************************************)
(* Induction over the numbers up to n, from the library's theorem that <   *)
(* is well founded, and what it says of recursive functions.  The sets     *)
(* stand for the predicates an induction is about.                         *)
(***************************************************************************)
EXTENDS Integers, WellFoundedInduction, TLAPS

Less == {pair \in Nat \X Nat : pair[1] < pair[2]}

\* A non-empty set of numbers has a least one.
LEMMA LeastNumber ==
    ASSUME NEW T \in SUBSET Nat, T # {}
    PROVE  \E m \in T : \A k \in T : m <= k
<1>1. IsWellFoundedOn(Less, Nat)
    BY NatLessThanWellFounded DEF OpToRel, Less
<1>2. PICK m \in T : \A k \in T : <<k, m>> \notin Less
    BY <1>1, WFMin
<1>3. \A k, l \in Nat : <<k, l>> \in Less <=> k < l
    BY DEF Less
<1>4. \A k \in T : ~(k < m)
    BY <1>2, <1>3
<1>5. \A k \in T : m <= k
    BY <1>4
<1> QED BY <1>5

\* A set that starts at 0 and has no end before n has all numbers up to n.
LEMMA InductionTo ==
    ASSUME NEW n \in Nat, NEW T, 0 \in T,
           \A m \in 0 .. n - 1 : m \in T => m + 1 \in T
    PROVE  \A m \in 0 .. n : m \in T
<1> DEFINE U == {m \in 0 .. n : m \notin T}
<1> SUFFICES ASSUME U # {} PROVE FALSE
    OBVIOUS
<1>1. PICK m \in U : \A k \in U : m <= k
    <2>1. U \in SUBSET Nat
        OBVIOUS
    <2> HIDE DEF U
    <2> QED BY <2>1, LeastNumber
<1>2. m # 0 /\ m - 1 \in 0 .. n - 1
    BY <1>1
<1>3. m - 1 \in T
    BY <1>1, <1>2
<1> QED BY <1>1, <1>2, <1>3

\* f is the function that is c at 0 and steps by F up to m.
Recursive(f, c, F, m) == \A k \in 0 .. m : f[k] = IF k = 0 THEN c ELSE F[k][f[k - 1]]

\* There is one, for a step that stays in V.
LEMMA RecursionDefines ==
    ASSUME NEW n \in Nat, NEW V, NEW c \in V, NEW F \in [0 .. n -> [V -> V]]
    PROVE  \E f \in [0 .. n -> V] : Recursive(f, c, F, n)
<1> DEFINE T == {m \in 0 .. n : \E f \in [0 .. n -> V] : Recursive(f, c, F, m)}
<1>1. 0 \in T
    <2> DEFINE f == [k \in 0 .. n |-> c]
    <2>1. f \in [0 .. n -> V] /\ f[0] = c
        OBVIOUS
    <2> HIDE DEF f
    <2>2. Recursive(f, c, F, 0)
        BY <2>1 DEF Recursive
    <2>3. 0 \in 0 .. n
        OBVIOUS
    <2> QED BY <2>1, <2>2, <2>3
<1>2. ASSUME NEW m \in 0 .. n - 1, m \in T
      PROVE  m + 1 \in T
    <2>1. PICK f \in [0 .. n -> V] : Recursive(f, c, F, m)
        BY <1>2
    <2> DEFINE v == F[m + 1][f[m]]
               g == [f EXCEPT ![m + 1] = v]
    <2>2. m + 1 \in 0 .. n /\ m \in 0 .. n
        OBVIOUS
    <2>3. v \in V
        BY <2>2
    <2>4. g \in [0 .. n -> V]
        BY <2>3
    <2>5. g[m + 1] = v /\ \A k \in 0 .. m : g[k] = f[k]
        BY <2>2
    <2> HIDE DEF g
    <2>6. ASSUME NEW k \in 0 .. m + 1
          PROVE  g[k] = IF k = 0 THEN c ELSE F[k][g[k - 1]]
        <3>1. CASE k = m + 1
            BY <2>2, <2>5, <3>1
        <3>2. CASE k # m + 1
            <4>1. k \in 0 .. m /\ (k # 0 => k - 1 \in 0 .. m)
                BY <3>2
            <4>2. f[k] = IF k = 0 THEN c ELSE F[k][f[k - 1]]
                BY <2>1, <4>1 DEF Recursive
            <4> QED BY <2>5, <4>1, <4>2
        <3> QED BY <3>1, <3>2
    <2>7. Recursive(g, c, F, m + 1)
        BY <2>6 DEF Recursive
    <2> QED BY <2>2, <2>4, <2>7
<1> HIDE DEF T
<1>3. \A m \in 0 .. n : m \in T
    BY <1>1, <1>2, InductionTo
<1>4. \E f \in [0 .. n -> V] : Recursive(f, c, F, n)
    <2>1. n \in T
        BY <1>3
    <2> QED BY <2>1 DEF T
<1> QED BY <1>4

=============================================================================
