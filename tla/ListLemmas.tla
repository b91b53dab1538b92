----------------------------- MODULE ListLemmas -------------------------------
(*****************************************************************************)
(* Sequences as stacks of calls in progress, the running one last (what a    *)
(* push, a pop and a change of the top do to the elements), and as lists     *)
(* that a loop goes over.                                                    *)
(*                                                                           *)
(* Induction: the library's theorems take a predicate, which the provers     *)
(* cannot instantiate; here it is a set of numbers, from the theorem that    *)
(* the numbers are well-founded.                                             *)
(*****************************************************************************)
EXTENDS Integers, Sequences, Sublists, SequenceTheorems, WellFoundedInduction, TLAPS

\* A stack with something on it has a top.
LEMMA StackTop ==
  ASSUME NEW S, NEW s \in Seq(S), s # <<>>
  PROVE  Len(s) \in Nat \ {0} /\ Len(s) \in 1 .. Len(s) /\ s[Len(s)] \in S
OBVIOUS

\* Every element is of the stack's type.
LEMMA StackElement ==
  ASSUME NEW S, NEW s \in Seq(S), NEW k \in 1 .. Len(s)
  PROVE  s[k] \in S
OBVIOUS

\* A push keeps what was there and adds one element.
LEMMA StackPush ==
  ASSUME NEW S, NEW s \in Seq(S), NEW f \in S
  PROVE  /\ Append(s, f) \in Seq(S) /\ Append(s, f) # <<>>
         /\ Len(s) \in Nat /\ Len(Append(s, f)) = Len(s) + 1
         /\ Append(s, f)[Len(s) + 1] = f
         /\ \A k \in 1 .. Len(s) : Append(s, f)[k] = s[k]
OBVIOUS

\* A pop takes the top away and nothing else.
LEMMA StackPop ==
  ASSUME NEW S, NEW s \in Seq(S), s # <<>>
  PROVE  LET t == SubSeq(s, 1, Len(s) - 1)
         IN /\ t \in Seq(S)
            /\ Len(t) = Len(s) - 1 /\ Len(s) \in Nat \ {0}
            /\ \A k \in 1 .. Len(s) - 1 : t[k] = s[k]
<1> DEFINE t == SubSeq(s, 1, Len(s) - 1)
<1>1. Len(s) \in Nat \ {0}
  OBVIOUS
<1>2. /\ t \in Seq(S)
      /\ Len(t) = IF 1 <= Len(s) - 1 THEN (Len(s) - 1) - 1 + 1 ELSE 0
      /\ \A i \in 1 .. (Len(s) - 1) - 1 + 1 : t[i] = s[1 + i - 1]
  BY <1>1, SubSeqProperties
<1>3. \A i \in 1 .. Len(s) - 1 : 1 + i - 1 = i
  BY <1>1
<1> HIDE DEF t
<1>4. Len(t) = Len(s) - 1
  <2>1. \A n \in Nat \ {0} : (IF 1 <= n - 1 THEN (n - 1) - 1 + 1 ELSE 0) = n - 1
    OBVIOUS
  <2> QED  BY <1>1, <1>2, <2>1, Zenon
<1>5. \A k \in 1 .. Len(s) - 1 : t[k] = s[k]
  BY <1>1, <1>2, <1>3
<1> QED  BY <1>1, <1>2, <1>4, <1>5, Zenon DEF t

\* A change of the top leaves the calls below it alone.
LEMMA StackSetTop ==
  ASSUME NEW S, NEW s \in Seq(S), s # <<>>, NEW f \in S
  PROVE  LET t == [s EXCEPT ![Len(s)] = f]
         IN /\ t \in Seq(S) /\ t # <<>>
            /\ Len(t) = Len(s) /\ Len(s) \in Nat \ {0}
            /\ t[Len(s)] = f
            /\ \A k \in 1 .. Len(s) - 1 : t[k] = s[k]
OBVIOUS

-------------------------------------------------------------------------------
\* There is a first among numbers.
LEMMA FirstOf ==
  ASSUME NEW F \in SUBSET Nat, F # {}
  PROVE  \E i \in F : \A j \in F : i <= j
<1> DEFINE R == OpToRel(<, Nat)
<1>1. IsWellFoundedOn(R, Nat)
  BY NatLessThanWellFounded
<1>2. \A x, y \in Nat : <<y, x>> \in R <=> y < x
  BY DEF OpToRel
<1> HIDE DEF R
<1>3. \E x \in F : \A y \in F : ~ (<<y, x>> \in R)
  BY <1>1, WFMin
<1>4. \A x, y \in Nat : ~ (y < x) => x <= y
  OBVIOUS
<1> QED  BY <1>2, <1>3, <1>4

\* Induction over a set of numbers.
LEMMA Counting ==
  ASSUME NEW N \in SUBSET Nat, 0 \in N, \A n \in N : n + 1 \in N
  PROVE  N = Nat
<1> SUFFICES ASSUME Nat \ N # {} PROVE FALSE
  OBVIOUS
<1>1. PICK i \in Nat \ N : \A j \in Nat \ N : i <= j
  BY FirstOf
<1>2. i # 0 /\ i - 1 \in Nat
  BY <1>1
<1>3. i - 1 \in N
  BY <1>1, <1>2
<1>4. (i - 1) + 1 \in N
  BY <1>3
<1> QED  BY <1>1, <1>4

\* k is the function that Sublist(s, S) is defined by, on the first n elements.
SublistLoop(s, S, n, k) ==
  k = [i \in 0 .. n |-> IF i = 0 THEN <<>> ELSE IF s[i] \in S THEN Append(k[i - 1], s[i]) ELSE k[i - 1]]

\* The function that Sublist is defined by is there.
LEMMA SublistLoopExists ==
  ASSUME NEW s, NEW S, NEW n \in Nat
  PROVE  \E k : SublistLoop(s, S, n, k)
<1> DEFINE N == {m \in Nat : \E k : SublistLoop(s, S, m, k)}
<1>1. 0 \in N
  <2> DEFINE k == [i \in 0 .. 0 |-> <<>>]
  <2>1. k = [i \in 0 .. 0 |-> IF i = 0 THEN <<>> ELSE IF s[i] \in S THEN Append(k[i - 1], s[i]) ELSE k[i - 1]]
    OBVIOUS
  <2> HIDE DEF k
  <2> QED  BY <2>1 DEF SublistLoop
<1>2. ASSUME NEW m \in N
      PROVE  m + 1 \in N
  <2>1. PICK k : SublistLoop(s, S, m, k)
    OBVIOUS
  <2> DEFINE v == IF s[m + 1] \in S THEN Append(k[m], s[m + 1]) ELSE k[m]
             g == [i \in 0 .. m + 1 |-> IF i = m + 1 THEN v ELSE k[i]]
             e(i) == IF i = 0 THEN <<>> ELSE IF s[i] \in S THEN Append(g[i - 1], s[i]) ELSE g[i - 1]
  <2>2. m \in Nat /\ m + 1 \in Nat
    OBVIOUS
  <2>3. ASSUME NEW i \in 0 .. m + 1
        PROVE  g[i] = e(i)
    <3>1. CASE i = m + 1
      <4>1. i # 0 /\ i - 1 = m /\ m \in 0 .. m + 1 /\ m # m + 1
        BY <2>2, <3>1
      <4>2. g[i] = v /\ g[i - 1] = k[m]
        BY <3>1, <4>1
      <4> HIDE DEF g
      <4> QED  BY <3>1, <4>1, <4>2
    <3>2. CASE i = 0
      <4>1. 0 # m + 1 /\ 0 \in 0 .. m /\ 0 \in 0 .. m + 1
        BY <2>2
      <4>2. g[0] = k[0]
        BY <4>1
      <4>3. k[0] = <<>>
        BY <2>1, <4>1 DEF SublistLoop
      <4> HIDE DEF g
      <4> QED  BY <3>2, <4>2, <4>3
    <3>3. CASE i # 0 /\ i # m + 1
      <4>1. i \in 0 .. m /\ i - 1 \in 0 .. m + 1 /\ i - 1 # m + 1
        BY <2>2, <3>3
      <4>2. g[i] = k[i] /\ g[i - 1] = k[i - 1]
        BY <3>3, <4>1
      <4>3. k[i] = IF i = 0 THEN <<>> ELSE IF s[i] \in S THEN Append(k[i - 1], s[i]) ELSE k[i - 1]
        BY <2>1, <4>1, Zenon DEF SublistLoop
      <4> HIDE DEF g
      <4> QED  BY <4>2, <4>3
    <3> QED  BY <3>1, <3>2, <3>3
  <2>4. g = [i \in 0 .. m + 1 |-> e(i)]
    <3>1. g = [i \in 0 .. m + 1 |-> g[i]]
      OBVIOUS
    <3> HIDE DEF g
    <3> QED  BY <2>3, <3>1, Zenon
  <2> HIDE DEF g
  <2>5. SublistLoop(s, S, m + 1, g)
    BY <2>4, Zenon DEF SublistLoop
  <2> QED  BY <2>2, <2>5
<1>3. N = Nat
  <2> HIDE DEF N
  <2>1. N \in SUBSET Nat
    BY DEF N
  <2> QED  BY <1>1, <1>2, <2>1, Counting
<1> QED  BY <1>3

\* What a loop over s keeps: elements of s that are in S, in the order of s, and all of
\* them.  f says where in s each element of the sublist is.
SublistOf(r, s, S, n, f) ==
  /\ f \in [1 .. Len(r) -> 1 .. n]
  /\ \A i \in 1 .. Len(r) : r[i] = s[f[i]] /\ s[f[i]] \in S
  /\ \A i, j \in 1 .. Len(r) : i < j => f[i] < f[j]
  /\ \A k \in 1 .. n : s[k] \in S => \E i \in 1 .. Len(r) : f[i] = k

\* One more turn of the loop.
LEMMA SublistNext ==
  ASSUME NEW T, NEW s \in Seq(T), NEW S, NEW n \in Nat, n < Len(s),
         NEW r \in Seq(T), NEW f, SublistOf(r, s, S, n, f)
  PROVE  LET q == IF s[n + 1] \in S THEN Append(r, s[n + 1]) ELSE r
         IN q \in Seq(T) /\ \E g : SublistOf(q, s, S, n + 1, g)
<1>1. n + 1 \in 1 .. Len(s) /\ s[n + 1] \in T
  OBVIOUS
<1>2. \A i \in 1 .. Len(r) : f[i] \in 1 .. n
  BY DEF SublistOf
<1>3. CASE s[n + 1] \in S
  <2> DEFINE q == Append(r, s[n + 1])
             m == Len(r)
             g == [i \in 1 .. m + 1 |-> IF i = m + 1 THEN n + 1 ELSE f[i]]
  <2>1. q \in Seq(T) /\ Len(q) = m + 1 /\ q[m + 1] = s[n + 1] /\ (\A i \in 1 .. m : q[i] = r[i]) /\ m \in Nat
    BY <1>1, AppendProperties
  <2>2. \A i \in 1 .. m : r[i] = s[f[i]] /\ s[f[i]] \in S
    BY DEF SublistOf
  <2>3. \A i, j \in 1 .. m : i < j => f[i] < f[j]
    BY DEF SublistOf
  <2>4. \A k \in 1 .. n : s[k] \in S => \E i \in 1 .. m : f[i] = k
    BY DEF SublistOf
  <2> HIDE DEF q, m
  <2>5. g[m + 1] = n + 1 /\ \A i \in 1 .. m : g[i] = f[i] /\ i # m + 1 /\ i \in 1 .. m + 1
    BY <2>1
  <2>6. g \in [1 .. m + 1 -> 1 .. n + 1]
    BY <1>2, <2>1 DEF m
  <2> HIDE DEF g
  <2>7. ASSUME NEW i \in 1 .. m + 1
        PROVE  q[i] = s[g[i]] /\ s[g[i]] \in S
    <3>1. i = m + 1 \/ i \in 1 .. m
      BY <2>1
    <3> QED  BY <1>3, <2>1, <2>2, <2>5, <3>1
  <2>8. ASSUME NEW i \in 1 .. m + 1, NEW j \in 1 .. m + 1, i < j
        PROVE  g[i] < g[j]
    <3>1. i \in 1 .. m
      BY <2>1, <2>8
    <3>2. CASE j = m + 1
      <4>1. g[i] \in 1 .. n
        BY <1>2, <2>5, <3>1 DEF m
      <4> QED  BY <2>5, <3>2, <4>1
    <3>3. CASE j # m + 1
      <4>1. j \in 1 .. m
        BY <2>1, <3>3
      <4> QED  BY <2>3, <2>5, <2>8, <3>1, <4>1
    <3> QED  BY <3>2, <3>3
  <2>9. ASSUME NEW k \in 1 .. n + 1, s[k] \in S
        PROVE  \E i \in 1 .. m + 1 : g[i] = k
    <3>1. CASE k = n + 1
      <4>1. m + 1 \in 1 .. m + 1
        BY <2>1
      <4> QED  BY <2>5, <3>1, <4>1
    <3>2. CASE k # n + 1
      <4>1. k \in 1 .. n
        BY <3>2
      <4>2. PICK i \in 1 .. m : f[i] = k
        BY <2>4, <2>9, <4>1
      <4> QED  BY <2>5, <4>2
    <3> QED  BY <3>1, <3>2
  <2>10. SublistOf(q, s, S, n + 1, g)
    BY <2>1, <2>6, <2>7, <2>8, <2>9, Zenon DEF SublistOf
  <2> QED  BY <1>3, <2>1, <2>10 DEF q
<1>4. CASE s[n + 1] \notin S
  <2>1. f \in [1 .. Len(r) -> 1 .. n + 1]
    BY <1>2 DEF SublistOf
  <2>2. \A k \in 1 .. n + 1 : s[k] \in S => k \in 1 .. n
    BY <1>4
  <2>3. SublistOf(r, s, S, n + 1, f)
    BY <2>1, <2>2 DEF SublistOf
  <2> QED  BY <1>4, <2>3
<1> QED  BY <1>3, <1>4

\* What Sublist returns.
LEMMA SublistFacts ==
  ASSUME NEW T, NEW s \in Seq(T), NEW S
  PROVE  Sublist(s, S) \in Seq(T) /\ \E f : SublistOf(Sublist(s, S), s, S, Len(s), f)
<1> DEFINE n == Len(s)
<1>0. n \in Nat
  OBVIOUS
<1> HIDE DEF n
<1> DEFINE k == CHOOSE k : SublistLoop(s, S, n, k)
           N == {m \in Nat : m <= n => k[m] \in Seq(T) /\ \E f : SublistOf(k[m], s, S, m, f)}
<1>1. SublistLoop(s, S, n, k)
  BY <1>0, SublistLoopExists
<1>2. Sublist(s, S) = k[n]
  BY Zenon DEF Sublist, SublistLoop, n
<1> HIDE DEF k
<1>3. \A i \in 0 .. n : k[i] = IF i = 0 THEN <<>> ELSE IF s[i] \in S THEN Append(k[i - 1], s[i]) ELSE k[i - 1]
  BY <1>1, Zenon DEF SublistLoop
<1>4. 0 \in N
  <2>1. k[0] = <<>>
    BY <1>0, <1>3
  <2>2. <<>> \in Seq(T) /\ Len(<<>>) = 0 /\ 1 .. 0 = {}
    OBVIOUS
  <2>3. SublistOf(<<>>, s, S, 0, [i \in 1 .. 0 |-> 0])
    BY <2>2 DEF SublistOf
  <2> QED  BY <2>1, <2>2, <2>3
<1>5. ASSUME NEW m \in N
      PROVE  m + 1 \in N
  <2> SUFFICES ASSUME m + 1 <= n
               PROVE  k[m + 1] \in Seq(T) /\ \E f : SublistOf(k[m + 1], s, S, m + 1, f)
    OBVIOUS
  <2>1. m \in Nat /\ m <= n /\ m < n
    BY <1>0
  <2>2. k[m] \in Seq(T) /\ \E f : SublistOf(k[m], s, S, m, f)
    BY <2>1
  <2>3. k[m + 1] = IF s[m + 1] \in S THEN Append(k[m], s[m + 1]) ELSE k[m]
    <3>1. m + 1 \in 0 .. n /\ m + 1 # 0 /\ (m + 1) - 1 = m
      BY <1>0, <2>1
    <3> QED  BY <1>3, <3>1
  <2> QED  BY <2>1, <2>2, <2>3, SublistNext DEF n
<1>6. N = Nat
  <2> HIDE DEF N
  <2>1. N \in SUBSET Nat
    BY DEF N
  <2> QED  BY <1>4, <1>5, <2>1, Counting
<1> QED  BY <1>0, <1>2, <1>6 DEF n
===============================================================================
