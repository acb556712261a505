------------------------- MODULE RecursiveFunctions -------------------------
(***************************************************************************)
(* Induction over the natural numbers, and the existence of the functions  *)
(* that are defined by it, in forms that first-order provers can use: the  *)
(* induction hypothesis is a set, and a step of a definition a function.   *)
(***************************************************************************)
EXTENDS Integers, WellFoundedInduction, TLAPS

\* A set of numbers that has 0, and n + 1 with every n, has every number.
LEMMA Induction ==
  ASSUME NEW S, 0 \in S, \A n \in Nat : n \in S => n + 1 \in S
  PROVE  Nat \subseteq S
<1> SUFFICES ASSUME Nat \ S # {} PROVE FALSE
  OBVIOUS
<1> DEFINE Less == OpToRel(<, Nat)
<1>1. IsWellFoundedOn(Less, Nat)
  BY NatLessThanWellFounded
<1>2. \A x, y \in Nat : y < x => <<y, x>> \in Less
  BY DEF OpToRel
<1> HIDE DEF Less
<1>3. PICK x \in Nat \ S : \A y \in Nat \ S : <<y, x>> \notin Less
  BY <1>1, WFMin
<1>4. x # 0 /\ x - 1 \in Nat /\ x - 1 < x
  BY <1>3
<1>5. x - 1 \in S
  BY <1>2, <1>3, <1>4
<1>6. (x - 1) + 1 \in S
  BY <1>4, <1>5
<1> QED BY <1>3, <1>6

\* g is the beginning, up to n, of what the recursion from c by step computes.
Begins(g, n, c, step) ==
  /\ g[0] = c
  /\ \A i \in 1 .. n : g[i] = step[<<i, g[i - 1]>>]

\* f is what it computes.
Computes(f, c, step) ==
  /\ f[0] = c
  /\ \A n \in Nat \ {0} : f[n] = step[<<n, f[n - 1]>>]

\* A function defined by recursion over the numbers exists, and has the values
\* of its base and of its step in its range.
LEMMA PrimitiveRecursion ==
  ASSUME NEW S, NEW c \in S, NEW step \in [Nat \X S -> S]
  PROVE  \E f \in [Nat -> S] : Computes(f, c, step)
<1> DEFINE Beginnings(n) == {g \in [0 .. n -> S] : Begins(g, n, c, step)}
<1>1. Nat \subseteq {n \in Nat : Beginnings(n) # {}}
  <2>1. [i \in 0 .. 0 |-> c] \in Beginnings(0)
    BY DEF Begins
  <2>2. ASSUME NEW n \in Nat, NEW g \in Beginnings(n)
        PROVE  Beginnings(n + 1) # {}
    <3> DEFINE h == [i \in 0 .. n + 1 |-> IF i = n + 1 THEN step[<<n + 1, g[n]>>] ELSE g[i]]
    <3>1. g \in [0 .. n -> S] /\ g[n] \in S
      OBVIOUS
    <3>2. h \in [0 .. n + 1 -> S]
      BY <3>1
    <3>3. h[0] = c
      BY DEF Begins
    <3>4. ASSUME NEW i \in 1 .. n PROVE h[i] = step[<<i, h[i - 1]>>]
      <4>1. h[i] = g[i] /\ h[i - 1] = g[i - 1]
        OBVIOUS
      <4> QED BY <4>1 DEF Begins
    <3>5. h[n + 1] = step[<<n + 1, h[(n + 1) - 1]>>]
      <4>1. (n + 1) - 1 = n /\ n # n + 1
        OBVIOUS
      <4> QED BY <4>1
    <3> HIDE DEF h
    <3>6. Begins(h, n + 1, c, step)
      <4>1. ASSUME NEW i \in 1 .. n + 1 PROVE h[i] = step[<<i, h[i - 1]>>]
        <5>1. i \in 1 .. n \/ i = n + 1
          OBVIOUS
        <5> QED BY <3>4, <3>5, <5>1
      <4> QED BY <3>3, <4>1 DEF Begins
    <3> QED BY <3>2, <3>6
  <2> DEFINE Begun == {n \in Nat : Beginnings(n) # {}}
  <2> HIDE DEF Beginnings
  <2>3. 0 \in Begun /\ \A n \in Nat : n \in Begun => n + 1 \in Begun
    BY <2>1, <2>2
  <2> HIDE DEF Begun
  <2>4. Nat \subseteq Begun
    BY <2>3, Induction
  <2> QED BY <2>4 DEF Begun
<1>2. \A m, n \in Nat : \A g \in Beginnings(m), h \in Beginnings(n) :
        m <= n => g[m] = h[m]
  <2> SUFFICES ASSUME NEW m \in Nat, NEW n \in Nat, m <= n,
                      NEW g \in Beginnings(m), NEW h \in Beginnings(n)
               PROVE  g[m] = h[m]
    OBVIOUS
  <2> DEFINE Same == {k \in Nat : k <= m => g[k] = h[k]}
  <2>1. 0 \in Same
    BY DEF Begins
  <2>2. ASSUME NEW k \in Nat, k \in Same PROVE k + 1 \in Same
    <3> SUFFICES ASSUME k + 1 <= m PROVE g[k + 1] = h[k + 1]
      OBVIOUS
    <3>1. k + 1 \in 1 .. m /\ k + 1 \in 1 .. n /\ (k + 1) - 1 = k
      OBVIOUS
    <3>2. g[k] = h[k]
      BY <2>2
    <3>3. g[k + 1] = step[<<k + 1, g[(k + 1) - 1]>>] /\ h[k + 1] = step[<<k + 1, h[(k + 1) - 1]>>]
      BY <3>1 DEF Begins
    <3> QED BY <3>1, <3>2, <3>3
  <2> HIDE DEF Same
  <2>3. Nat \subseteq Same
    BY <2>1, <2>2, Induction
  <2> QED BY <2>3 DEF Same
<1> DEFINE f == [n \in Nat |-> (CHOOSE g \in Beginnings(n) : TRUE)[n]]
<1>3. ASSUME NEW n \in Nat, NEW g \in Beginnings(n) PROVE f[n] = g[n]
  <2>1. (CHOOSE h \in Beginnings(n) : TRUE) \in Beginnings(n)
    BY <1>3
  <2> QED BY <1>2, <2>1
<1>4. f \in [Nat -> S]
  <2> SUFFICES ASSUME NEW n \in Nat PROVE f[n] \in S
    OBVIOUS
  <2>1. PICK g \in Beginnings(n) : TRUE
    BY <1>1
  <2> QED BY <1>3, <2>1
<1>5. f[0] = c
  <2>1. PICK g \in Beginnings(0) : TRUE
    BY <1>1
  <2> QED BY <1>3, <2>1 DEF Begins
<1>6. ASSUME NEW n \in Nat \ {0} PROVE f[n] = step[<<n, f[n - 1]>>]
  <2>1. PICK g \in Beginnings(n) : TRUE
    BY <1>1
  <2>2. n - 1 \in Nat /\ n \in 1 .. n
    BY <1>6
  <2>3. PICK h \in Beginnings(n - 1) : TRUE
    BY <1>1, <2>2
  <2>4. h[n - 1] = g[n - 1]
    BY <1>2, <2>1, <2>2, <2>3
  <2>5. f[n] = g[n] /\ f[n - 1] = g[n - 1]
    BY <1>3, <2>1, <2>2, <2>3, <2>4
  <2> QED BY <2>1, <2>2, <2>5 DEF Begins
<1> HIDE DEF f
<1> QED BY <1>4, <1>5, <1>6 DEF Computes

=============================================================================
