---------------------------- MODULE PromptProofs ----------------------------
(***************************************************************************)
(* What the model is given and what is kept of what it says.               *)
(*   One model call of an iteration (ModelCall): it is given up only when  *)
(* there is no room, what the user was shown and what is recorded account  *)
(* for its output, and errors that were compacted away are remembered.     *)
(*   The texts the calls start from (Templates): the instructions of a     *)
(* session stay what they were when it was spawned, files that sessions    *)
(* write back keep their text, and what goes back is what the documented   *)
(* patterns name.                                                          *)
(***************************************************************************)
EXTENDS ModelCall, Templates, SequenceTheorems, FiniteSetTheorems, WellFoundedInduction, TLAPS

-----------------------------------------------------------------------------
(* Loops over numbers and over sequences *)

\* Natural numbers are well-founded ...
LEMMA Least ==
  ASSUME NEW T, T \subseteq Nat, T # {}
  PROVE  \E x \in T : \A y \in T : x <= y
<1> DEFINE less == OpToRel(<, Nat)
<1>1. IsWellFoundedOn(less, Nat)
  BY NatLessThanWellFounded
<1>2. ASSUME NEW x \in T, NEW y \in T, <<y, x>> \notin less PROVE x <= y
  <2>1. <<y, x>> \in Nat \X Nat
    OBVIOUS
  <2>2. ~(y < x)
    BY <1>2, <2>1 DEF OpToRel
  <2> QED
    BY <2>2
<1> HIDE DEF less
<1>3. PICK x \in T : \A y \in T : <<y, x>> \notin less
  BY <1>1, WFMin
<1> QED
  BY <1>2, <1>3

\* ... so that a set which holds 0 and with each number the next has all ...
LEMMA Counting ==
  ASSUME NEW S, 0 \in S, \A n \in Nat : n \in S => n + 1 \in S
  PROVE  Nat \subseteq S
<1> SUFFICES ASSUME Nat \ S # {} PROVE FALSE
  OBVIOUS
<1>1. PICK x \in Nat \ S : \A y \in Nat \ S : x <= y
  BY Least
<1>2. x # 0 /\ x - 1 \in Nat \ S
  OBVIOUS
<1> QED
  BY <1>1, <1>2

\* ... and a set of numbers with a bound has a greatest.
LEMMA Greatest ==
  ASSUME NEW n \in Nat, NEW S, S \subseteq 1 .. n, S # {}
  PROVE  \E x \in S : \A y \in S : y <= x
<1> DEFINE A == {m \in Nat : \A R \in SUBSET (1 .. m) :
                               R # {} => \E x \in R : \A y \in R : y <= x}
<1>1. 0 \in A
  <2>1. 1 .. 0 = {}
    OBVIOUS
  <2> QED
    BY <2>1
<1>2. ASSUME NEW m \in Nat, m \in A PROVE m + 1 \in A
  <2> SUFFICES ASSUME NEW R \in SUBSET (1 .. m + 1), R # {}
               PROVE  \E x \in R : \A y \in R : y <= x
    OBVIOUS
  <2>1. CASE m + 1 \in R
    BY <2>1
  <2>2. CASE m + 1 \notin R
    <3>1. R \in SUBSET (1 .. m)
      BY <2>2
    <3> QED
      BY <1>2, <3>1
  <2> QED
    BY <2>1, <2>2
<1> HIDE DEF A
<1>3. n \in A
  BY <1>1, <1>2, Counting
<1> QED
  BY <1>3 DEF A

\* The ends of a set of numbers with a bound.
LEMMA Extremes ==
  ASSUME NEW n \in Nat, NEW S, S \subseteq 1 .. n, S # {}
  PROVE  Min(S) \in S /\ Max(S) \in S
<1>0. S \subseteq Nat
  OBVIOUS
<1>1. \E x \in S : \A y \in S : x <= y
  BY <1>0, Least
<1>2. \E x \in S : \A y \in S : x >= y
  <2>1. PICK x \in S : \A y \in S : y <= x
    BY Greatest
  <2>2. \A y \in S : y \in Nat
    OBVIOUS
  <2> QED
    BY <2>1, <2>2
<1> QED
  BY <1>1, <1>2, Zenon DEF Min, Max

\* A loop that makes a value of S from the number of the turn and the value
\* before has a value after each turn.
LoopValues(f, S, a, turnOf, n) ==
  /\ f \in [0 .. n -> S] /\ f[0] = a
  /\ \A i \in 1 .. n : f[i] = turnOf[<<i, f[i - 1]>>]

LEMMA Turns ==
  ASSUME NEW S, NEW a \in S, NEW turnOf \in [Nat \X S -> S], NEW n \in Nat
  PROVE  \E f : LoopValues(f, S, a, turnOf, n)
<1> USE DEF LoopValues
<1> DEFINE Run(m, f) == LoopValues(f, S, a, turnOf, m)
           A == {m \in Nat : \E f : Run(m, f)}
<1>1. 0 \in A
  <2>1. Run(0, [i \in {0} |-> a])
    OBVIOUS
  <2> QED
    BY <2>1
<1>2. ASSUME NEW m \in Nat, m \in A PROVE m + 1 \in A
  <2>1. PICK f : Run(m, f)
    BY <1>2
  <2>2. PICK k : k = m + 1
    OBVIOUS
  <2> DEFINE v == turnOf[<<k, f[m]>>]
             g == [i \in 0 .. k |-> IF i = k THEN v ELSE f[i]]
  <2>3. k \in Nat /\ k - 1 = m /\ k > m
    BY <2>2
  <2>4. f[m] \in S
    BY <2>1
  <2>5. v \in S
    BY <2>3, <2>4
  <2>6. \A i \in 0 .. m : i \in 0 .. k /\ i # k /\ f[i] \in S
    BY <2>1, <2>3
  <2>7. g \in [0 .. k -> S] /\ g[0] = a /\ g[k] = v /\ \A i \in 0 .. m : g[i] = f[i]
    <3> HIDE DEF v
    <3>1. \A i \in 0 .. k : i = k \/ i \in 0 .. m
      BY <2>3
    <3> QED
      BY <2>1, <2>3, <2>5, <2>6, <3>1
  <2> HIDE DEF g
  <2>8. ASSUME NEW i \in 1 .. k PROVE g[i] = turnOf[<<i, g[i - 1]>>]
    <3>1. CASE i = k
      BY <2>3, <2>7, <3>1
    <3>2. CASE i # k
      <4>1. i \in 1 .. m /\ i \in 0 .. m /\ i - 1 \in 0 .. m
        BY <2>3, <3>2
      <4> QED
        BY <2>1, <2>7, <4>1
    <3> QED
      BY <3>1, <3>2
  <2>9. Run(k, g)
    BY <2>7, <2>8
  <2> QED
    BY <2>2, <2>3, <2>9
<1> HIDE DEF A
<1>3. n \in A
  BY <1>1, <1>2, Counting
<1> QED
  BY <1>3 DEF A

\* A set that holds the empty sequence, and with a sequence each that is one
\* element longer, has all.
LEMMA Growing ==
  ASSUME NEW T, NEW P, <<>> \in P,
         \A s \in Seq(T) : \A x \in T : s \in P => Append(s, x) \in P
  PROVE  Seq(T) \subseteq P
<1> DEFINE A == {n \in Nat : \A s \in Seq(T) : Len(s) = n => s \in P}
<1>1. 0 \in A
  <2>1. \A s \in Seq(T) : Len(s) = 0 => s = <<>>
    OBVIOUS
  <2> QED
    BY <2>1
<1>2. ASSUME NEW m \in Nat, m \in A PROVE m + 1 \in A
  <2> SUFFICES ASSUME NEW s \in Seq(T), Len(s) = m + 1 PROVE s \in P
    OBVIOUS
  <2> DEFINE f == SubSeq(s, 1, m)
  <2>1. f \in Seq(T) /\ Len(f) = m /\ s[m + 1] \in T
    OBVIOUS
  <2>2. s = Append(f, s[m + 1])
    OBVIOUS
  <2> HIDE DEF f
  <2>3. f \in P
    BY <1>2, <2>1
  <2> QED
    BY <2>1, <2>2, <2>3
<1> HIDE DEF A
<1>3. Nat \subseteq A
  BY <1>1, <1>2, Counting
<1> QED
  BY <1>3 DEF A

\* The elements of a sequence with one more.
LEMMA SetOfAppend ==
  ASSUME NEW T, NEW s \in Seq(T), NEW x \in T
  PROVE  ToSet(Append(s, x)) = ToSet(s) \cup {x}
<1>1. DOMAIN s = 1 .. Len(s) /\ DOMAIN Append(s, x) = 1 .. Len(s) + 1 /\ Len(s) \in Nat
  OBVIOUS
<1>2. /\ Append(s, x)[Len(s) + 1] = x
      /\ \A i \in 1 .. Len(s) : Append(s, x)[i] = s[i] /\ i \in 1 .. Len(s) + 1
  OBVIOUS
<1>3. \A i \in 1 .. Len(s) + 1 : i = Len(s) + 1 \/ i \in 1 .. Len(s)
  BY <1>1
<1>4. Len(s) + 1 \in 1 .. Len(s) + 1
  BY <1>1
<1> QED
  BY <1>1, <1>2, <1>3, <1>4 DEF ToSet

\* An element appended to the second of two sequences.
AppendsLast(s, r, x) == Append(s \o r, x) = s \o Append(r, x)

LEMMA AppendToBoth ==
  ASSUME NEW T, NEW s \in Seq(T), NEW r \in Seq(T), NEW x \in T
  PROVE  AppendsLast(s, r, x)
BY DEF AppendsLast

\* Sequences are put together from the left or from the right.
Associates(s, t, u) == (s \o t) \o u = s \o (t \o u)

LEMMA Association ==
  ASSUME NEW T, NEW s \in Seq(T), NEW t \in Seq(T), NEW u \in Seq(T)
  PROVE  Associates(s, t, u)
BY ConcatAssociative DEF Associates

\* Sequences are equal where their lengths and their elements are.
LEMMA SameSequence ==
  ASSUME NEW T, NEW p \in Seq(T), NEW q \in Seq(T),
         Len(p) = Len(q), \A i \in 1 .. Len(p) : p[i] = q[i]
  PROVE  p = q
OBVIOUS

\* A sequence is what comes before a place in it, and the rest.
LEMMA SplitAt ==
  ASSUME NEW T, NEW p \in Seq(T), NEW k \in 0 .. Len(p)
  PROVE  /\ SubSeq(p, 1, k) \in Seq(T) /\ SubSeq(p, k + 1, Len(p)) \in Seq(T)
         /\ Len(SubSeq(p, 1, k)) = k /\ Len(SubSeq(p, k + 1, Len(p))) = Len(p) - k
         /\ SubSeq(p, 1, k) \o SubSeq(p, k + 1, Len(p)) = p
<1> DEFINE a == SubSeq(p, 1, k)
           b == SubSeq(p, k + 1, Len(p))
<1>1. a \in Seq(T) /\ Len(a) = k /\ \A i \in 1 .. k : a[i] = p[i]
  OBVIOUS
<1>2. b \in Seq(T) /\ Len(b) = Len(p) - k /\ \A i \in 1 .. Len(p) - k : b[i] = p[k + i]
  OBVIOUS
<1> HIDE DEF a, b
<1> DEFINE c == a \o b
<1>3. /\ c \in Seq(T) /\ Len(c) = Len(a) + Len(b)
      /\ \A i \in 1 .. Len(a) + Len(b) : c[i] = IF i <= Len(a) THEN a[i] ELSE b[i - Len(a)]
  <2>1. a \in Seq(T) /\ b \in Seq(T)
    BY <1>1, <1>2
  <2> QED
    BY <2>1, ConcatProperties
<1> HIDE DEF c
<1>0. k \in Nat /\ Len(p) \in Nat /\ k <= Len(p)
  OBVIOUS
<1>4. Len(c) = Len(p) /\ \A i \in 1 .. Len(c) : c[i] = p[i]
  <2>1. Len(c) = Len(p)
    BY <1>0, <1>1, <1>2, <1>3
  <2>2. ASSUME NEW i \in 1 .. Len(p) PROVE c[i] = p[i]
    <3>1. CASE i <= k
      BY <1>0, <1>1, <1>2, <1>3, <3>1
    <3>2. CASE ~(i <= k)
      <4>1. i - k \in 1 .. Len(p) - k /\ k + (i - k) = i
        BY <1>0, <3>2
      <4> QED
        BY <1>0, <1>1, <1>2, <1>3, <3>2, <4>1
    <3> QED
      BY <3>1, <3>2
  <2> QED
    BY <2>1, <2>2
<1>5. c = p
  BY <1>3, <1>4, SameSequence
<1> QED
  BY <1>1, <1>2, <1>5 DEF a, b, c

-----------------------------------------------------------------------------
(* Selection *)

\* What the loop of Only has after each turn.
OnlyTurns(f, s, S, T) ==
  /\ f \in [0 .. Len(s) -> Seq(T)] /\ f[0] = <<>>
  /\ \A i \in 1 .. Len(s) : f[i] = IF s[i] \in S THEN Append(f[i - 1], s[i]) ELSE f[i - 1]

LEMMA OnlyRuns ==
  ASSUME NEW T, NEW s \in Seq(T), NEW S
  PROVE  \E f : OnlyTurns(f, s, S, T) /\ Only(s, S) = f[Len(s)]
<1> DEFINE n == Len(s)
           turnOf == [x \in Nat \X Seq(T) |->
                        IF x[1] \in 1 .. n /\ s[x[1]] \in S
                        THEN Append(x[2], s[x[1]]) ELSE x[2]]
           Loop(g) == g = [i \in 0 .. n |->
                             IF i = 0 THEN <<>>
                             ELSE IF s[i] \in S THEN Append(g[i - 1], s[i]) ELSE g[i - 1]]
<1>1. n \in Nat /\ <<>> \in Seq(T) /\ \A i \in 1 .. n : s[i] \in T
  OBVIOUS
<1>2. turnOf \in [Nat \X Seq(T) -> Seq(T)]
  <2> HIDE DEF n
  <2>1. ASSUME NEW x \in Nat \X Seq(T)
        PROVE  (IF x[1] \in 1 .. n /\ s[x[1]] \in S THEN Append(x[2], s[x[1]]) ELSE x[2])
                 \in Seq(T)
    <3>1. x[2] \in Seq(T)
      OBVIOUS
    <3>2. \A y \in T : Append(x[2], y) \in Seq(T)
      BY <3>1
    <3> QED
      BY <1>1, <3>1, <3>2
  <2> QED
    BY <2>1
<1>3. PICK f \in [0 .. n -> Seq(T)] :
        f[0] = <<>> /\ \A i \in 1 .. n : f[i] = turnOf[<<i, f[i - 1]>>]
  <2> DEFINE e == <<>>
             U == Seq(T)
  <2> HIDE DEF turnOf, n
  <2>1. e \in U /\ turnOf \in [Nat \X U -> U] /\ n \in Nat
    BY <1>1, <1>2
  <2> HIDE DEF e, U
  <2>2. PICK f : LoopValues(f, U, e, turnOf, n)
    BY <2>1, Turns
  <2>3. f \in [0 .. n -> Seq(T)] /\ f[0] = <<>>
    BY <2>2 DEF LoopValues, e, U
  <2> QED
    BY <2>2, <2>3, Zenon DEF LoopValues
<1>4. ASSUME NEW i \in 1 .. n
      PROVE  f[i] = IF s[i] \in S THEN Append(f[i - 1], s[i]) ELSE f[i - 1]
  <2> HIDE DEF n
  <2> DEFINE x == <<i, f[i - 1]>>
  <2>1. x \in Nat \X Seq(T) /\ x[1] = i /\ x[2] = f[i - 1]
    <3>1. i - 1 \in 0 .. n /\ i \in Nat
      BY <1>1
    <3>2. f[i - 1] \in Seq(T)
      BY <1>3, <3>1
    <3> QED
      BY <3>1, <3>2
  <2> HIDE DEF x
  <2>2. turnOf[x] = IF i \in 1 .. n /\ s[i] \in S THEN Append(f[i - 1], s[i]) ELSE f[i - 1]
    BY <2>1
  <2>3. f[i] = turnOf[x]
    <3> HIDE DEF turnOf
    <3> QED
      BY <1>3 DEF x
  <2> QED
    BY <2>2, <2>3
<1>5. Loop(f)
  <2> HIDE DEF n, turnOf
  <2>1. f = [i \in 0 .. n |-> f[i]]
    BY <1>3
  <2>2. ASSUME NEW i \in 0 .. n
        PROVE  f[i] = IF i = 0 THEN <<>>
                      ELSE IF s[i] \in S THEN Append(f[i - 1], s[i]) ELSE f[i - 1]
    <3>1. CASE i = 0
      BY <1>3, <3>1
    <3>2. CASE i # 0
      <4>1. i \in 1 .. n
        BY <1>1, <3>2
      <4> QED
        BY <1>4, <3>2, <4>1, Zenon
    <3> QED
      BY <3>1, <3>2
  <2> QED
    BY <2>1, <2>2, Zenon
<1> DEFINE g == CHOOSE h : Loop(h)
<1>6. Loop(g)
  BY <1>5, Zenon
<1>7. Only(s, S) = g[n]
  BY DEF Only
<1> HIDE DEF g, n, turnOf
<1>8. \A i \in 0 .. n : g[i] = IF i = 0 THEN <<>>
                             ELSE IF s[i] \in S THEN Append(g[i - 1], s[i]) ELSE g[i - 1]
  BY <1>6, Zenon
<1>9. DOMAIN g = 0 .. n /\ g = [i \in 0 .. n |-> g[i]]
  BY <1>6, <1>8
<1> DEFINE A == {i \in Nat : i <= n => g[i] \in Seq(T)}
<1>10. 0 \in A
  <2>1. 0 \in 0 .. n
    BY <1>1
  <2>2. g[0] = <<>>
    BY <1>8, <2>1, Zenon
  <2> QED
    BY <1>1, <2>2
<1>11. ASSUME NEW m \in Nat, m \in A PROVE m + 1 \in A
  <2>1. PICK k : k = m + 1
    OBVIOUS
  <2>2. CASE k <= n
    <3>1. k \in 0 .. n /\ k # 0 /\ k - 1 = m /\ k \in 1 .. n /\ m <= n
      BY <1>1, <2>1, <2>2
    <3>2. g[m] \in Seq(T) /\ s[k] \in T
      BY <1>1, <1>11, <3>1
    <3>3. g[k] = IF s[k] \in S THEN Append(g[m], s[k]) ELSE g[m]
      BY <1>8, <3>1
    <3>4. g[k] \in Seq(T)
      BY <3>2, <3>3
    <3> QED
      BY <2>1, <3>4
  <2> QED
    BY <1>1, <2>1, <2>2
<1> HIDE DEF A
<1>12. Nat \subseteq A
  BY <1>10, <1>11, Counting
<1>13. g \in [0 .. n -> Seq(T)]
  <2>1. \A i \in 0 .. n : g[i] \in Seq(T)
    BY <1>1, <1>12 DEF A
  <2> QED
    BY <1>9, <2>1
<1>14. \A i \in 1 .. n : g[i] = IF s[i] \in S THEN Append(g[i - 1], s[i]) ELSE g[i - 1]
  <2>1. \A i \in 1 .. n : i \in 0 .. n /\ i # 0
    BY <1>1
  <2> QED
    BY <1>8, <2>1
<1>15. g[0] = <<>>
  BY <1>1, <1>8
<1> QED
  BY <1>7, <1>13, <1>14, <1>15 DEF n, OnlyTurns

\* Nothing is selected from nothing.
LEMMA OnlyEmpty == ASSUME NEW S PROVE Only(<<>>, S) = <<>>
<1> DEFINE e == <<>>
<1>1. e \in Seq({}) /\ Len(e) = 0
  OBVIOUS
<1> HIDE DEF e
<1>2. PICK f : OnlyTurns(f, e, S, {}) /\ Only(e, S) = f[Len(e)]
  BY <1>1, OnlyRuns
<1> QED
  BY <1>1, <1>2 DEF e, OnlyTurns

\* An element more is one selected more, if it is in the set.
LEMMA OnlyAppend ==
  ASSUME NEW T, NEW s \in Seq(T), NEW x \in T, NEW S
  PROVE  Only(Append(s, x), S) =
           IF x \in S THEN Append(Only(s, S), x) ELSE Only(s, S)
<1> DEFINE t == Append(s, x)
           n == Len(s)
<1>1. /\ n \in Nat /\ t \in Seq(T) /\ Len(t) = n + 1
      /\ t[n + 1] = x /\ \A i \in 1 .. n : t[i] = s[i]
  OBVIOUS
<1> HIDE DEF t
<1>2. PICK f : OnlyTurns(f, s, S, T) /\ Only(s, S) = f[Len(s)]
  BY OnlyRuns
<1>3. PICK g : OnlyTurns(g, t, S, T) /\ Only(t, S) = g[Len(t)]
  BY <1>1, OnlyRuns
<1> HIDE DEF n
<1> USE DEF OnlyTurns
<1> DEFINE A == {i \in Nat : i <= n => g[i] = f[i]}
<1>4. 0 \in A
  BY <1>2, <1>3
<1>5. ASSUME NEW m \in Nat, m \in A PROVE m + 1 \in A
  <2>1. PICK k : k = m + 1
    OBVIOUS
  <2>2. CASE k <= n
    <3>1. k \in 1 .. n /\ k - 1 = m /\ m <= n /\ k \in 1 .. n + 1
      BY <1>1, <2>1, <2>2
    <3>2. g[k] = IF t[k] \in S THEN Append(g[m], t[k]) ELSE g[m]
      BY <1>1, <1>3, <3>1
    <3>3. f[k] = IF s[k] \in S THEN Append(f[m], s[k]) ELSE f[m]
      BY <1>2, <3>1 DEF n
    <3>4. g[m] = f[m] /\ t[k] = s[k]
      BY <1>1, <1>5, <3>1
    <3>5. g[k] = f[k]
      BY <3>2, <3>3, <3>4
    <3> QED
      BY <2>1, <3>5
  <2> QED
    BY <1>1, <2>1, <2>2
<1> HIDE DEF A
<1>6. g[n] = f[n]
  <2>1. n \in A
    BY <1>1, <1>4, <1>5, Counting
  <2> QED
    BY <1>1, <2>1 DEF A
<1>7. g[n + 1] = IF x \in S THEN Append(g[n], x) ELSE g[n]
  <2>1. n + 1 \in 1 .. n + 1 /\ n + 1 - 1 = n
    BY <1>1
  <2> QED
    BY <1>1, <1>3, <2>1
<1> QED
  BY <1>1, <1>2, <1>3, <1>6, <1>7 DEF n, t

\* What is selected are the elements in the set, and they are a sequence.
LEMMA OnlyElements ==
  ASSUME NEW T, NEW s \in Seq(T), NEW S
  PROVE  /\ Only(s, S) \in Seq(T \cap S)
         /\ ToSet(Only(s, S)) = ToSet(s) \cap S
<1> DEFINE Good(r) == /\ Only(r, S) \in Seq(T \cap S)
                      /\ ToSet(Only(r, S)) = ToSet(r) \cap S
           P == {r \in Seq(T) : Good(r)}
<1>1. <<>> \in P
  <2>1. Only(<<>>, S) = <<>> /\ <<>> \in Seq(T) /\ <<>> \in Seq(T \cap S)
    BY OnlyEmpty
  <2>2. ToSet(<<>>) = {}
    BY DEF ToSet
  <2> QED
    BY <2>1, <2>2
<1>2. ASSUME NEW r \in Seq(T), NEW x \in T, r \in P PROVE Append(r, x) \in P
  <2> DEFINE o == Only(r, S)
             q == Append(r, x)
  <2>1. /\ q \in Seq(T)
        /\ Only(q, S) = IF x \in S THEN Append(o, x) ELSE o
    BY OnlyAppend
  <2>2. o \in Seq(T \cap S) /\ ToSet(o) = ToSet(r) \cap S
    BY <1>2
  <2>3. ToSet(q) = ToSet(r) \cup {x}
    BY SetOfAppend
  <2> HIDE DEF o, q
  <2>4. CASE x \in S
    <3>1. Append(o, x) \in Seq(T \cap S)
      BY <2>2, <2>4
    <3>2. ToSet(Append(o, x)) = ToSet(o) \cup {x}
      BY <2>2, <2>4, SetOfAppend
    <3> QED
      BY <2>1, <2>2, <2>3, <2>4, <3>1, <3>2 DEF q
  <2>5. CASE x \notin S
    BY <2>1, <2>2, <2>3, <2>5 DEF q
  <2> QED
    BY <2>4, <2>5
<1> HIDE DEF P
<1>3. s \in P
  BY <1>1, <1>2, Growing
<1> QED
  BY <1>3 DEF P

\* An element of the set is selected.
LEMMA OnlyOne ==
  ASSUME NEW T, NEW x \in T, NEW S, x \in S PROVE Only(<<x>>, S) = <<x>>
<1>1. PICK e \in Seq(T) : e = <<>>
  <2>1. <<>> \in Seq(T)
    OBVIOUS
  <2> QED
    BY <2>1, Zenon
<1>2. Only(Append(e, x), S) = IF x \in S THEN Append(Only(e, S), x) ELSE Only(e, S)
  BY OnlyAppend
<1>3. Only(e, S) = <<>>
  BY <1>1, OnlyEmpty
<1>4. Append(e, x) = <<x>>
  BY <1>1
<1> QED
  BY <1>1, <1>2, <1>3, <1>4

\* What is selected from two sequences, one after the other.
LEMMA OnlyConcat ==
  ASSUME NEW T, NEW s \in Seq(T), NEW t \in Seq(T), NEW S
  PROVE  Only(s \o t, S) = Only(s, S) \o Only(t, S)
<1> DEFINE P == {r \in Seq(T) : Only(s \o r, S) = Only(s, S) \o Only(r, S)}
<1>0. Only(s, S) \in Seq(T \cap S)
  BY OnlyElements
<1>1. <<>> \in P
  <2>1. s \o <<>> = s /\ Only(s, S) \o <<>> = Only(s, S) /\ <<>> \in Seq(T)
    BY <1>0
  <2> QED
    BY <2>1, OnlyEmpty
<1>2. ASSUME NEW r \in Seq(T), NEW x \in T, r \in P PROVE Append(r, x) \in P
  <2>1. s \o r \in Seq(T) /\ Append(r, x) \in Seq(T) /\ s \o Append(r, x) = Append(s \o r, x)
    BY AppendToBoth DEF AppendsLast
  <2>2. Only(s \o r, S) = Only(s, S) \o Only(r, S) /\ Only(r, S) \in Seq(T \cap S)
    BY <1>2, OnlyElements
  <2>3. Only(Append(r, x), S) = IF x \in S THEN Append(Only(r, S), x) ELSE Only(r, S)
    BY OnlyAppend
  <2>4. Only(Append(s \o r, x), S)
          = IF x \in S THEN Append(Only(s \o r, S), x) ELSE Only(s \o r, S)
    BY <2>1, OnlyAppend
  <2> DEFINE a == Only(s, S)
             b == Only(r, S)
  <2>5. a \in Seq(T) /\ b \in Seq(T)
    <3>1. \A o : o \in Seq(T \cap S) => o \in Seq(T)
      OBVIOUS
    <3> QED
      BY <1>0, <2>2, <3>1
  <2> HIDE DEF a, b
  <2>6. Append(a \o b, x) = a \o Append(b, x)
    <3>1. AppendsLast(a, b, x)
      BY <2>5, AppendToBoth
    <3> QED
      BY <3>1, Zenon DEF AppendsLast
  <2>7. Only(Append(s \o r, x), S) = IF x \in S THEN Append(a \o b, x) ELSE a \o b
    BY <2>2, <2>4 DEF a, b
  <2>8. Only(s \o Append(r, x), S) = a \o Only(Append(r, x), S)
    <3>1. CASE x \in S
      BY <2>1, <2>3, <2>6, <2>7, <3>1 DEF b
    <3>2. CASE x \notin S
      BY <2>1, <2>3, <2>7, <3>2 DEF b
    <3> QED
      BY <3>1, <3>2
  <2> QED
    BY <2>1, <2>8 DEF a
<1> HIDE DEF P
<1>3. t \in P
  BY <1>1, <1>2, Growing
<1> QED
  BY <1>3 DEF P

\* Nothing is selected where nothing is in the set.
LEMMA OnlyNone ==
  ASSUME NEW T, NEW s \in Seq(T), NEW S, \A x \in T : x \notin S
  PROVE  Only(s, S) = <<>>
<1>1. Only(s, S) \in Seq(T \cap S) /\ T \cap S = {}
  BY OnlyElements
<1> DEFINE o == Only(s, S)
<1> HIDE DEF o
<1>2. o \in Seq({})
  BY <1>1 DEF o
<1>3. o = <<>>
  BY <1>2
<1> QED
  BY <1>3 DEF o

-----------------------------------------------------------------------------
(* Concatenation *)

FlatTurns(f, ss, T) ==
  /\ f \in [0 .. Len(ss) -> Seq(T)] /\ f[0] = <<>>
  /\ \A i \in 1 .. Len(ss) : f[i] = f[i - 1] \o ss[i]

LEMMA FlatRuns ==
  ASSUME NEW T, NEW ss \in Seq(Seq(T))
  PROVE  \E f : FlatTurns(f, ss, T)
<1> DEFINE n == Len(ss)
           U == Seq(T)
           e == <<>>
           turnOf == [x \in Nat \X U |-> IF x[1] \in 1 .. n THEN x[2] \o ss[x[1]] ELSE x[2]]
<1>1. n \in Nat /\ e \in U /\ \A i \in 1 .. n : ss[i] \in U
  OBVIOUS
<1>2. \A u, v \in U : u \o v \in U
  OBVIOUS
<1>3. turnOf \in [Nat \X U -> U]
  <2> HIDE DEF n, U
  <2> QED
    BY <1>1, <1>2
<1>4. PICK f : LoopValues(f, U, e, turnOf, n)
  <2> HIDE DEF turnOf, n, U, e
  <2> QED
    BY <1>1, <1>3, Turns
<1>5. f \in [0 .. n -> U] /\ f[0] = <<>>
  <2> HIDE DEF n, U, turnOf
  <2> QED
    BY <1>4 DEF LoopValues
<1>6. ASSUME NEW i \in 1 .. n PROVE f[i] = f[i - 1] \o ss[i]
  <2> HIDE DEF n, U, e
  <2> DEFINE x == <<i, f[i - 1]>>
  <2>1. x \in Nat \X U /\ x[1] = i /\ x[2] = f[i - 1]
    <3>1. i - 1 \in 0 .. n /\ i \in Nat
      BY <1>1
    <3> QED
      BY <1>5, <3>1
  <2> HIDE DEF x
  <2>2. turnOf[x] = f[i - 1] \o ss[i]
    BY <2>1
  <2>3. f[i] = turnOf[x]
    <3> HIDE DEF turnOf
    <3> QED
      BY <1>4 DEF LoopValues, x
  <2> QED
    BY <2>2, <2>3
<1> QED
  BY <1>5, <1>6 DEF FlatTurns

\* What the loop of FlattenSeq has at its end.
LEMMA FlatIs ==
  ASSUME NEW T, NEW ss \in Seq(Seq(T)), NEW f, FlatTurns(f, ss, T)
  PROVE  FlattenSeq(ss) = f[Len(ss)]
<1> DEFINE n == Len(ss)
           Loop(g) == g = [i \in 1 .. n |-> IF i = 1 THEN ss[i] ELSE g[i - 1] \o ss[i]]
           h == [i \in 1 .. n |-> f[i]]
<1>0. n \in Nat /\ \A i \in 1 .. n : ss[i] \in Seq(T)
  OBVIOUS
<1>1. /\ n \in Nat /\ \A i \in 1 .. n : ss[i] \in Seq(T)
      /\ f \in [0 .. n -> Seq(T)] /\ f[0] = <<>>
      /\ \A i \in 1 .. n : f[i] = f[i - 1] \o ss[i]
  BY <1>0, Zenon DEF FlatTurns
<1>2. CASE n = 0
  <2>1. FlattenSeq(ss) = ss /\ ss = <<>>
    BY <1>2 DEF FlattenSeq
  <2> QED
    BY <1>1, <1>2, <2>1
<1>3. CASE n # 0
  <2> DEFINE g == CHOOSE x : Loop(x)
  <2>1. FlattenSeq(ss) = g[n]
    BY <1>3, Zenon DEF FlattenSeq
  <2> HIDE DEF n
  <2>2. ASSUME NEW i \in 1 .. n PROVE h[i] = IF i = 1 THEN ss[i] ELSE h[i - 1] \o ss[i]
    <3>1. h[i] = f[i] /\ f[i] = f[i - 1] \o ss[i] /\ ss[i] \in Seq(T)
      BY <1>1
    <3>2. CASE i = 1
      <4>1. f[i - 1] = <<>>
        BY <1>1, <3>2
      <4> QED
        BY <3>1, <3>2, <4>1
    <3>3. CASE i # 1
      <4>1. i - 1 \in 1 .. n
        BY <1>1, <3>3
      <4> QED
        BY <3>1, <3>3, <4>1
    <3> QED
      BY <3>2, <3>3
  <2>3. Loop(h)
    <3>1. h = [i \in 1 .. n |-> h[i]]
      OBVIOUS
    <3> HIDE DEF h
    <3> QED
      BY <2>2, <3>1, Zenon
  <2> HIDE DEF h
  <2>4. Loop(g)
    BY <2>3, Zenon
  <2> HIDE DEF g
  <2>5. \A i \in 1 .. n : g[i] = IF i = 1 THEN ss[i] ELSE g[i - 1] \o ss[i]
    BY <2>4, Zenon
  <2> DEFINE A == {i \in Nat : i \in 1 .. n => g[i] = f[i]}
  <2>6. 0 \in A
    OBVIOUS
  <2>7. ASSUME NEW m \in Nat, m \in A PROVE m + 1 \in A
    <3>1. PICK k : k = m + 1
      OBVIOUS
    <3>2. CASE k \in 1 .. n
      <4>1. k - 1 = m /\ (k # 1 => m \in 1 .. n) /\ (k = 1 => m = 0)
        BY <1>1, <3>1, <3>2
      <4>2. f[k] = f[m] \o ss[k] /\ ss[k] \in Seq(T)
        BY <1>1, <3>2, <4>1
      <4>3. g[k] = IF k = 1 THEN ss[k] ELSE g[m] \o ss[k]
        BY <2>5, <3>2, <4>1
      <4>4. k = 1 => f[m] \o ss[k] = ss[k]
        <5>1. <<>> \o ss[k] = ss[k]
          BY <4>2
        <5> QED
          BY <1>1, <4>1, <5>1
      <4>5. k # 1 => g[m] = f[m]
        BY <2>7, <4>1
      <4>6. g[k] = f[k]
        BY <4>2, <4>3, <4>4, <4>5
      <4> QED
        BY <3>1, <4>6
    <3> QED
      BY <3>1, <3>2
  <2> HIDE DEF A
  <2>8. n \in A
    BY <1>1, <2>6, <2>7, Counting
  <2>9. g[n] = f[n]
    BY <1>1, <1>3, <2>8 DEF A
  <2> QED
    BY <2>1, <2>9 DEF n
<1> QED
  BY <1>2, <1>3

\* The concatenation of sequences is a sequence.
LEMMA FlatType ==
  ASSUME NEW T, NEW ss \in Seq(Seq(T))
  PROVE  FlattenSeq(ss) \in Seq(T)
<1>1. PICK f : FlatTurns(f, ss, T)
  BY FlatRuns
<1>2. FlattenSeq(ss) = f[Len(ss)] /\ Len(ss) \in 0 .. Len(ss)
  BY <1>1, FlatIs
<1> QED
  BY <1>1, <1>2 DEF FlatTurns

\* One more comes at the end.
LEMMA FlatAppend ==
  ASSUME NEW T, NEW ss \in Seq(Seq(T)), NEW t \in Seq(T)
  PROVE  FlattenSeq(Append(ss, t)) = FlattenSeq(ss) \o t
<1> DEFINE tt == Append(ss, t)
           n == Len(ss)
<1>1. /\ n \in Nat /\ tt \in Seq(Seq(T)) /\ Len(tt) = n + 1
      /\ tt[n + 1] = t /\ \A i \in 1 .. n : tt[i] = ss[i]
  OBVIOUS
<1> HIDE DEF tt
<1>2. PICK g : FlatTurns(g, tt, T)
  BY <1>1, FlatRuns
<1> DEFINE f == [i \in 0 .. n |-> g[i]]
<1> HIDE DEF n
<1>3. /\ g \in [0 .. n + 1 -> Seq(T)] /\ g[0] = <<>>
      /\ \A i \in 1 .. n + 1 : g[i] = g[i - 1] \o tt[i]
  BY <1>1, <1>2 DEF FlatTurns
<1>4. FlatTurns(f, ss, T)
  <2>1. f \in [0 .. n -> Seq(T)] /\ f[0] = <<>>
    BY <1>1, <1>3
  <2>2. \A i \in 1 .. n : f[i] = f[i - 1] \o ss[i]
    <3>1. \A i \in 1 .. n : i \in 1 .. n + 1 /\ i \in 0 .. n /\ i - 1 \in 0 .. n
      BY <1>1
    <3> QED
      BY <1>1, <1>3, <3>1
  <2> HIDE DEF f
  <2> QED
    BY <2>1, <2>2 DEF FlatTurns, n
<1>5. f[n] = g[n] /\ n + 1 \in 1 .. n + 1 /\ n + 1 - 1 = n
  BY <1>1
<1> HIDE DEF f
<1>6. FlattenSeq(ss) = g[n]
  BY <1>4, <1>5, FlatIs DEF n
<1>7. FlattenSeq(tt) = g[n + 1]
  BY <1>1, <1>2, FlatIs
<1>8. g[n + 1] = g[n] \o t
  <2>1. PICK k : k = n + 1
    OBVIOUS
  <2>2. k \in 1 .. n + 1 /\ k - 1 = n /\ tt[k] = t
    BY <1>1, <2>1
  <2>3. g[k] = g[k - 1] \o tt[k]
    BY <1>3, <2>2, Zenon
  <2> QED
    BY <2>1, <2>2, <2>3, Zenon
<1> QED
  BY <1>6, <1>7, <1>8 DEF tt

\* The concatenation of nothing.
LEMMA FlatEmpty == FlattenSeq(<<>>) = <<>>
  BY DEF FlattenSeq

-----------------------------------------------------------------------------
(* Room for the context (ModelCall): a prompt is given up for lack of it      *)
(* only when nothing is left to give up                                       *)

\* The number of messages that are kept is positive.
LEMMA KeepIs == Keep \in Nat \ {0}
  BY ModelCallAssumption DEF ModelCallAssumption

IsSeq(ms) == \E S : ms \in Seq(S)

\* Between the system prompt and the newest messages there is at most one,
\* and what is there is not the result of a tool.
NothingLeft(ms) ==
  /\ Len(ms) <= 2 + Keep
  /\ \A i \in 1 .. Len(ms) - Keep : ms[i].role # "tool"

\* The inductive invariant.  The runner is on its way to a compaction only
\* when there is something to compact, and gives up only when not.
RoomInv ==
  /\ IsSeq(messages)
  /\ pc = "summarise" => Compactable(messages, Keep)
  /\ pc = "full" => NothingLeft(messages) /\ Decision(messages) = "fail"

\* A sequence is a function on the numbers up to its length.
LEMMA IsSeqFacts ==
  ASSUME NEW ms, IsSeq(ms)
  PROVE  DOMAIN ms = 1 .. Len(ms) /\ Len(ms) \in Nat /\ ms = [i \in DOMAIN ms |-> ms[i]]
<1>1. PICK S : ms \in Seq(S)
  BY DEF IsSeq
<1> QED
  BY <1>1

\* Messages that are not results of tools are not pruned.
LEMMA PruneKeeps ==
  ASSUME NEW ms, IsSeq(ms), NothingLeft(ms)
  PROVE  Prune(ms, Keep) = ms
<1>1. ASSUME NEW i \in DOMAIN ms, i <= Len(ms) - Keep PROVE ~Prunable(ms[i])
  <2>1. i \in 1 .. Len(ms) - Keep
    BY <1>1, IsSeqFacts, KeepIs
  <2> QED
    BY <2>1 DEF NothingLeft, Prunable
<1>2. ms = [i \in DOMAIN ms |-> ms[i]]
  BY IsSeqFacts
<1> QED
  BY <1>1, <1>2, Zenon DEF Prune

\* Pruning leaves the number of the messages and their roles.
LEMMA PruneShape ==
  ASSUME NEW ms, IsSeq(ms)
  PROVE  /\ IsSeq(Prune(ms, Keep))
         /\ Len(Prune(ms, Keep)) = Len(ms)
         /\ \A i \in 1 .. Len(ms) : Prune(ms, Keep)[i].role = ms[i].role
<1> DEFINE n == Len(ms)
           new == Prune(ms, Keep)
<1>1. DOMAIN ms = 1 .. n /\ n \in Nat
  BY IsSeqFacts
<1>2. new = [i \in 1 .. n |-> IF i <= n - Keep /\ Prunable(ms[i])
                              THEN Pruned(ms[i]) ELSE ms[i]]
  BY <1>1, Zenon DEF Prune
<1> HIDE DEF n, new
<1>3. new \in Seq({new[i] : i \in 1 .. n}) /\ Len(new) = n
  <2>1. DOMAIN new = 1 .. n /\ new \in [1 .. n -> {new[i] : i \in 1 .. n}]
    BY <1>2
  <2> QED
    BY <1>1, <2>1
<1>4. ASSUME NEW i \in 1 .. n PROVE new[i].role = ms[i].role
  <2>1. CASE i <= n - Keep /\ Prunable(ms[i])
    <3>1. Pruned(ms[i]).role = ms[i].role
      BY <2>1 DEF Prunable, Pruned
    <3> QED
      BY <1>2, <2>1, <3>1
  <2>2. CASE ~(i <= n - Keep /\ Prunable(ms[i]))
    BY <1>2, <2>2
  <2> QED
    BY <2>1, <2>2
<1>5. IsSeq(new)
  BY <1>3 DEF IsSeq
<1> QED
  BY <1>3, <1>4, <1>5 DEF n, new

\* Whether messages can be compacted is a matter of their number and of the
\* role of the first.
LEMMA CompactableMeans ==
  ASSUME NEW ms, IsSeq(ms)
  PROVE  /\ KeepAtLeast(Keep) = Keep
         /\ Preserved(ms) = IF Len(ms) > 0 /\ ms[1].role = "system" THEN 1 ELSE 0
         /\ Compactable(ms, Keep)
              <=> Len(ms) - Preserved(ms) > Keep
<1>1. KeepAtLeast(Keep) = Keep
  BY KeepIs DEF KeepAtLeast, Max
<1>2. ms # <<>> <=> Len(ms) > 0
  <2>1. PICK S : ms \in Seq(S)
    BY DEF IsSeq
  <2> QED
    BY <2>1
<1> QED
  BY <1>1, <1>2 DEF Preserved, Compactable

\* Where nothing can be compacted, nothing is left to give up.
LEMMA NoneLeft ==
  ASSUME NEW ms, IsSeq(ms), ~Compactable(ms, Keep)
  PROVE  NothingLeft(ms)
<1> DEFINE n == Len(ms)
           p == Preserved(ms)
<1>1. n \in Nat /\ p = (IF n > 0 /\ ms[1].role = "system" THEN 1 ELSE 0)
      /\ n - p <= Keep
  BY IsSeqFacts, CompactableMeans, KeepIs
<1>2. ASSUME NEW i \in 1 .. n - Keep PROVE ms[i].role # "tool"
  <2>1. i = 1 /\ ms[1].role = "system"
    BY <1>1, <1>2, KeepIs
  <2> QED
    BY <2>1
<1>3. n <= 2 + Keep
  BY <1>1, KeepIs
<1> QED
  BY <1>2, <1>3 DEF NothingLeft

\* The role of a message is the one it is made with.
LEMMA MessageRole ==
  ASSUME NEW role, NEW tool, NEW bytes, NEW error, NEW count, NEW id
  PROVE  Message(role, tool, bytes, error, count, id).role = role
  BY DEF Message

\* What is compacted has the system prompt, the continuation and the newest
\* messages, and nothing else.
LEMMA CompactLeaves ==
  ASSUME NEW ms, NEW b, IsSeq(ms), Compactable(ms, Keep)
  PROVE  /\ IsSeq(Compact(ms, Keep, b))
         /\ NothingLeft(Compact(ms, Keep, b))
<1> DEFINE n == Len(ms)
           p == Preserved(ms)
           k == Keep
           c == Message("continuation", "", b, FALSE, 0, 0)
           front == SubSeq(ms, 1, p)
           tail  == SubSeq(ms, n - k + 1, n)
<1>1. PICK S : ms \in Seq(S)
  BY DEF IsSeq
<1>2. /\ n \in Nat /\ k \in Nat \ {0} /\ n - p > k
      /\ p = IF n > 0 /\ ms[1].role = "system" THEN 1 ELSE 0
  BY IsSeqFacts, CompactableMeans, KeepIs
<1>3. p \in {0, 1} /\ p <= n
  BY <1>2
<1>4. Compact(ms, k, b) = front \o <<c>> \o tail
  BY CompactableMeans DEF Compact
<1>5. c.role = "continuation"
  <2> DEFINE none == ""
  <2>1. c = Message("continuation", none, b, FALSE, 0, 0)
    OBVIOUS
  <2> HIDE DEF none, c
  <2> QED
    BY <2>1 DEF Message
<1> DEFINE T == S \cup {c}
<1> HIDE DEF n, p, k, c, T
<1>6. front \in Seq(T) /\ Len(front) = p /\ \A i \in 1 .. p : front[i] = ms[i]
  <2>1. ms \in Seq(T)
    BY <1>1 DEF T
  <2>2. Len(ms) = n
    BY DEF n
  <2> QED
    BY <1>2, <1>3, <2>1, <2>2, SubSeqProperties
<1>7. tail \in Seq(T) /\ Len(tail) = k
  <2>1. ms \in Seq(T)
    BY <1>1 DEF T
  <2>2. Len(ms) = n /\ n - k + 1 \in 1 .. n + 1 /\ n - (n - k + 1) + 1 = k
    BY <1>2, <1>3 DEF n
  <2> QED
    BY <1>2, <2>1, <2>2, SubSeqProperties
<1>8. <<c>> \in Seq(T) /\ Len(<<c>>) = 1 /\ <<c>>[1] = c
  BY DEF T
<1> DEFINE one == <<c>>
<1> HIDE DEF front, tail, one
<1>9. /\ front \o one \in Seq(T) /\ Len(front \o one) = p + 1
      /\ \A i \in 1 .. p + 1 : (front \o one)[i] = IF i <= p THEN front[i] ELSE one[i - p]
  BY <1>3, <1>6, <1>8, ConcatProperties DEF one
<1> DEFINE head == front \o one
           new  == head \o tail
<1> HIDE DEF head
<1>10. /\ new \in Seq(T) /\ Len(new) = p + 1 + k
      /\ \A i \in 1 .. p + 1 : new[i] = head[i]
  BY <1>2, <1>3, <1>7, <1>9, ConcatProperties DEF head
<1>11. Compact(ms, k, b) = new
  BY <1>4 DEF one, head
<1> HIDE DEF new
<1>12. ASSUME NEW i \in 1 .. Len(new) - k PROVE new[i].role # "tool"
  <2>1. i \in 1 .. p + 1
    BY <1>2, <1>3, <1>10, <1>12
  <2>2. CASE i <= p
    <3>1. new[i] = ms[1] /\ p = 1
      BY <1>3, <1>6, <1>9, <1>10, <2>1, <2>2 DEF head
    <3> QED
      BY <1>2, <3>1
  <2>3. CASE ~(i <= p)
    <3>1. i - p = 1
      BY <1>3, <2>1, <2>3
    <3>2. new[i] = c
      BY <1>8, <1>9, <1>10, <2>1, <2>3, <3>1 DEF head, one
    <3> QED
      BY <1>5, <3>2
  <2> QED
    BY <2>2, <2>3
<1>13. Len(new) <= 2 + k
  BY <1>2, <1>3, <1>10
<1>14. IsSeq(new) /\ NothingLeft(new)
  BY <1>10, <1>12, <1>13 DEF IsSeq, NothingLeft, k
<1> QED
  BY <1>11, <1>14 DEF k

\* The session that runs the prompt starts with room.
LEMMA RoomInit == CallInit => RoomInv
<1> SUFFICES ASSUME CallInit PROVE RoomInv
  OBVIOUS
<1> DEFINE a == Message("system", "", 400, FALSE, 0, 0)
           b == Message("user", "", 200, FALSE, 0, 1)
<1>1. messages = <<a, b>> /\ pc = "manage"
  BY Zenon DEF CallInit
<1> HIDE DEF a, b
<1>2. messages \in Seq({a, b})
  BY <1>1
<1> QED
  BY <1>1, <1>2 DEF RoomInv, IsSeq

\* Where the messages go on being those they were, and the runner goes
\* neither to a compaction nor gives up, nothing is lost.
LEMMA RoomKept ==
  ASSUME RoomInv, messages' = messages, setup' = setup,
         pc' = pc \/ pc' \notin {"summarise", "full"}
  PROVE  RoomInv'
  BY DEF RoomInv, NothingLeft, IsSeq, Decision

\* What is appended leaves a sequence.
LEMMA IsSeqStored ==
  ASSUME NEW ms, NEW m, IsSeq(ms)
  PROVE  IsSeq(ms \o <<m>>)
<1>1. PICK S : ms \in Seq(S)
  BY DEF IsSeq
<1>2. ms \in Seq(S \cup {m}) /\ <<m>> \in Seq(S \cup {m})
  BY <1>1
<1>3. ms \o <<m>> \in Seq(S \cup {m})
  BY <1>2
<1> QED
  BY <1>3 DEF IsSeq

\* Bringing the context under its budget: the runner gives up only if
\* nothing can be compacted, and then nothing was pruned either.
LEMMA RoomManage ==
  ASSUME RoomInv, ManageContext
  PROVE  RoomInv'
<1> DEFINE pruned == Prune(messages, Keep)
<1>1. IsSeq(messages) /\ pc = "manage" /\ setup' = setup
  BY DEF RoomInv, ManageContext
<1>2. IsSeq(pruned)
  BY <1>1, PruneShape
<1>3. \/ messages' \in {messages, pruned} /\ pc' = "ask"
      \/ messages' = pruned /\ pc' = "summarise" /\ Compactable(pruned, Keep)
      \/ /\ messages' = pruned /\ pc' = "full" /\ ~Compactable(pruned, Keep)
         /\ Decision(messages) = "fail"
  BY Zenon DEF ManageContext, Goto
<1> HIDE DEF pruned
<1>4. CASE messages' \in {messages, pruned} /\ pc' = "ask"
  BY <1>1, <1>2, <1>4 DEF RoomInv
<1>5. CASE messages' = pruned /\ pc' = "summarise" /\ Compactable(pruned, Keep)
  BY <1>2, <1>5 DEF RoomInv
<1>6. CASE /\ messages' = pruned /\ pc' = "full" /\ ~Compactable(pruned, Keep)
           /\ Decision(messages) = "fail"
  <2>1. NothingLeft(pruned)
    BY <1>2, <1>6, NoneLeft
  <2>2. Len(pruned) = Len(messages) /\ Len(messages) \in Nat
        /\ \A i \in 1 .. Len(messages) : pruned[i].role = messages[i].role
    BY <1>1, PruneShape, IsSeqFacts DEF pruned
  <2>3. NothingLeft(messages)
    <3>1. ASSUME NEW i \in 1 .. Len(messages) - Keep PROVE messages[i].role # "tool"
      <4>1. i \in 1 .. Len(messages) /\ i \in 1 .. Len(pruned) - Keep
        BY <2>2, <3>1, KeepIs
      <4> QED
        BY <2>1, <2>2, <4>1 DEF NothingLeft
    <3> QED
      BY <2>1, <2>2, <3>1 DEF NothingLeft
  <2>4. pruned = messages
    BY <1>1, <2>3, PruneKeeps DEF pruned
  <2> QED
    BY <1>1, <1>6, <2>3, <2>4 DEF RoomInv, Decision
<1> QED
  BY <1>3, <1>4, <1>5, <1>6

\* After a compaction the runner gives up only if that was all there was.
LEMMA RoomCompacted ==
  ASSUME RoomInv, pc = "summarise", Compacted
  PROVE  RoomInv'
<1>1. PICK b \in Summaries :
        /\ messages' = Compact(messages, Keep, b)
        /\ pc' = IF urgent /\ Decision(Compact(messages, Keep, b)) = "fail"
                     THEN "full" ELSE "ask"
  BY Zenon DEF Compacted, Goto
<1>2. IsSeq(messages) /\ Compactable(messages, Keep)
  BY DEF RoomInv
<1>3. IsSeq(messages') /\ NothingLeft(messages')
  BY <1>1, <1>2, CompactLeaves
<1>4. setup' = setup
  BY DEF Compacted
<1>5. pc' # "summarise" /\ (pc' = "full" => Decision(messages') = "fail")
  BY <1>1
<1> QED
  BY <1>3, <1>4, <1>5 DEF RoomInv, NothingLeft, IsSeq, Decision

\* Each action of the prompt keeps the invariant.
LEMMA RoomStep == RoomInv /\ [CallNext]_callVars => RoomInv'
<1> SUFFICES ASSUME RoomInv, [CallNext]_callVars PROVE RoomInv'
  OBVIOUS
<1>1. CASE ManageContext
  BY <1>1, RoomManage
<1>2. CASE SummariseByModel
  BY <1>2, RoomCompacted DEF SummariseByModel
<1>3. CASE SummariseByHeuristic
  BY <1>3, RoomCompacted DEF SummariseByHeuristic
<1>4. CASE RetryChat
  BY <1>4, RoomKept DEF RetryChat, context
<1>5. CASE Ask \/ Connect
  BY <1>5, RoomKept DEF Ask, Connect, Goto, context
<1>6. CASE RetryStream \/ StreamFails
  BY <1>6, RoomKept DEF RetryStream, StreamFails, Goto, context
<1>7. CASE TextChunk \/ CallChunk
  <2>1. messages' = messages /\ setup' = setup /\ pc' = pc
    BY <1>7 DEF TextChunk, CallChunk, context
  <2> QED
    BY <2>1, RoomKept
<1>8. CASE StreamEnds \/ Finish
  BY <1>8, RoomKept DEF StreamEnds, Finish, Goto, context
<1>9. CASE Answer
  <2>1. /\ \E m : messages' = messages \o <<m>>
        /\ pc' \notin {"summarise", "full"}
    BY <1>9, Zenon DEF Answer, Store, Goto
  <2> QED
    BY <2>1, IsSeqStored DEF RoomInv
<1>10. CASE ExecuteTool
  <2>1. \E m : messages' = messages \o <<m>>
    BY <1>10, Zenon DEF ExecuteTool, Store
  <2>2. pc' \notin {"summarise", "full"}
    BY <1>10 DEF ExecuteTool, Goto
  <2> QED
    BY <2>1, <2>2, IsSeqStored DEF RoomInv
<1>11. CASE UNCHANGED callVars
  BY <1>11, RoomKept DEF callVars, context
<1> QED
  BY <1>1, <1>2, <1>3, <1>4, <1>5, <1>6, <1>7, <1>8, <1>9, <1>10, <1>11, Zenon DEF CallNext

\* A prompt is given up for lack of room only when nothing is left to give
\* up: the emergency compaction is not followed by an error while there is
\* something to prune or more than the newest messages to compact.
THEOREM FullIsLast == CallSpec => []FullIsTruthful
<1>1. RoomInv => FullIsTruthful
  <2> SUFFICES ASSUME RoomInv, pc = "full" PROVE FullIsTruthful
    BY Zenon DEF FullIsTruthful
  <2>1. NothingLeft(messages) /\ Decision(messages) = "fail" /\ IsSeq(messages)
    BY DEF RoomInv
  <2>2. Prune(messages, Keep) = messages
    BY <2>1, PruneKeeps
  <2>3. Len(messages) <= 1 + 1 + Keep
    BY <2>1, KeepIs, IsSeqFacts DEF NothingLeft
  <2> QED
    BY <2>1, <2>2, <2>3 DEF FullIsTruthful
<1> QED
  BY RoomInit, RoomStep, <1>1, PTL DEF CallSpec
-----------------------------------------------------------------------------
(* What is shown and what is recorded (ModelCall)                             *)

Text == Seq(Chars)
WordChars == {"w"} \X (0 .. MaxAttempts)

\* The words that have become events, and those that are about to.
WordsIn(evs, p) == Words(FlattenSeq(evs)) \o Words(p)

\* What the call has shown ends with the response it assembles; the events and
\* what is not yet an event have every word of it.
OutputInv ==
  /\ attempt \in 0 .. MaxAttempts - 1
  /\ resp = [choices |-> resp.choices, text |-> resp.text, calls |-> resp.calls]
  /\ resp.text \in Text /\ shown \in Text /\ pending \in Text /\ events \in Seq(Text)
  /\ \E before \in Text : shown = before \o resp.text
  /\ WordsIn(events, pending) = Words(shown)
  /\ pc \in {"answered", "failed"} => pending = <<>>

\* A character is part of a word if it says so.
LEMMA WordChar == ASSUME NEW c \in Chars PROVE c \in WordChars <=> c[1] = "w"
  BY DEF Chars, WordChars

\* The words of texts, one after the other.
LEMMA WordsConcat ==
  ASSUME NEW s \in Text, NEW t \in Text
  PROVE  s \o t \in Text /\ Words(s \o t) = Words(s) \o Words(t) /\ Words(s) \in Text
<1>1. s \o t \in Text
  BY DEF Text
<1>2. Words(s \o t) = Words(s) \o Words(t)
  BY OnlyConcat DEF Words, Text
<1>3. Words(s) \in Seq(Chars \cap WordChars)
  BY OnlyElements DEF Words, Text, WordChars
<1>4. \A o : o \in Seq(Chars \cap WordChars) => o \in Text
  BY DEF Text
<1> QED
  BY <1>1, <1>2, <1>3, <1>4

\* A blank segment has no words.
LEMMA BlankWords ==
  ASSUME NEW s \in Text, IsBlank(s)
  PROVE  Words(s) = <<>>
<1> DEFINE B == {c \in Chars : c[1] # "w"}
<1>1. s \in Seq(B)
  <2>1. \A i \in 1 .. Len(s) : s[i] \in B
    BY DEF Text, IsBlank
  <2> HIDE DEF B
  <2> QED
    BY <2>1 DEF Text
<1>2. \A c \in B : c \notin WordChars
  BY DEF WordChars
<1> HIDE DEF B
<1> QED
  BY <1>1, <1>2, OnlyNone DEF Words, WordChars

\* An event is appended with the words of its segment.
LEMMA EmittedWords ==
  ASSUME NEW evs \in Seq(Text), NEW s \in Text
  PROVE  /\ Emitted(evs, s) \in Seq(Text)
         /\ FlattenSeq(evs) \in Text /\ FlattenSeq(Emitted(evs, s)) \in Text
         /\ Words(FlattenSeq(Emitted(evs, s))) = Words(FlattenSeq(evs)) \o Words(s)
<1>0. FlattenSeq(evs) \in Text
  BY FlatType DEF Text
<1>1. CASE IsBlank(s)
  <2>1. Words(s) = <<>> /\ Emitted(evs, s) = evs
    BY <1>1, BlankWords DEF Emitted
  <2>2. Words(FlattenSeq(evs)) \in Text
    BY <1>0, WordsConcat
  <2>3. \A t \in Text : t \o <<>> = t
    BY DEF Text
  <2> QED
    BY <1>0, <2>1, <2>2, <2>3
<1>2. CASE ~IsBlank(s)
  <2>1. Emitted(evs, s) = Append(evs, s)
    BY <1>2 DEF Emitted
  <2>2. Append(evs, s) \in Seq(Text)
    OBVIOUS
  <2>3. FlattenSeq(Append(evs, s)) = FlattenSeq(evs) \o s
    BY FlatAppend DEF Text
  <2>4. FlattenSeq(evs) \o s \in Text
        /\ Words(FlattenSeq(evs) \o s) = Words(FlattenSeq(evs)) \o Words(s)
    BY <1>0, WordsConcat
  <2> QED
    BY <1>0, <2>1, <2>2, <2>3, <2>4
<1> QED
  BY <1>1, <1>2

\* Where a segment may end: at a newline, or after a character at least.
LEMMA NewlineIs ==
  ASSUME NEW p \in Text, FirstNewline(p) # 0
  PROVE  FirstNewline(p) \in 1 .. Len(p) /\ p[FirstNewline(p)][1] = "n"
<1> DEFINE I == {i \in 1 .. Len(p) : IsNewline(p[i])}
<1>1. I # {} /\ FirstNewline(p) = Min(I)
  BY DEF FirstNewline, SelectInSeq
<1>2. Len(p) \in Nat /\ I \subseteq 1 .. Len(p)
  BY DEF Text
<1> HIDE DEF I
<1>3. FirstNewline(p) \in I
  BY <1>1, <1>2, Extremes
<1> QED
  BY <1>2, <1>3 DEF I, IsNewline

LEMMA LastSpaceIs ==
  ASSUME NEW p \in Text, Len(p) >= MaxSegment
  PROVE  LastSpace(p) \in 0 .. MaxSegment
<1> DEFINE q == SubSeq(p, 1, MaxSegment)
           I == {i \in 1 .. Len(q) : IsSpace(q[i])}
<1>0. MaxSegment \in Nat
  BY ModelCallAssumption DEF ModelCallAssumption
<1>1. Len(q) = MaxSegment
  BY <1>0 DEF Text
<1>2. LastSpace(p) = IF I # {} THEN Max(I) ELSE 0
  BY DEF LastSpace, SelectLastInSeq
<1>3. I \subseteq 1 .. MaxSegment
  BY <1>1
<1> HIDE DEF I
<1>4. CASE I = {}
  BY <1>0, <1>2, <1>4
<1>5. CASE I # {}
  <2>1. Max(I) \in I
    BY <1>0, <1>3, <1>5, Extremes
  <2>2. \A i \in I : i \in 0 .. MaxSegment
    BY <1>0, <1>3
  <2>3. Max(I) \in 0 .. MaxSegment
    BY <2>1, <2>2, Zenon
  <2> QED
    BY <1>2, <1>5, <2>3, Zenon
<1> QED
  BY <1>4, <1>5

\* A piece is cut off at a place, and at a newline without it.
LEMMA SplitAround ==
  ASSUME NEW p \in Text, NEW k \in 1 .. Len(p)
  PROVE  /\ SubSeq(p, 1, k - 1) \in Text /\ SubSeq(p, k, Len(p)) \in Text
         /\ SubSeq(p, k + 1, Len(p)) \in Text
         /\ Words(p) = Words(SubSeq(p, 1, k - 1)) \o Words(SubSeq(p, k, Len(p)))
         /\ p[k][1] # "w" => Words(SubSeq(p, k, Len(p))) = Words(SubSeq(p, k + 1, Len(p)))
<1> DEFINE a == SubSeq(p, 1, k - 1)
           b == SubSeq(p, k, Len(p))
           c == SubSeq(p, k + 1, Len(p))
           one == <<p[k]>>
<1>0. k - 1 \in 0 .. Len(p) /\ k - 1 + 1 = k /\ k \in 0 .. Len(p) /\ Len(p) \in Nat
  BY DEF Text
<1>1. a \in Text /\ b \in Text /\ a \o b = p
  <2>1. SubSeq(p, k - 1 + 1, Len(p)) = b
    BY <1>0
  <2> HIDE DEF b
  <2> QED
    BY <1>0, <2>1, SplitAt DEF Text
<1>2. c \in Text
  BY <1>0, SplitAt DEF Text
<1>3. p[k] \in Chars /\ one \in Text
  BY DEF Text
<1>4. one \o c = b
  <2>1. b = one \o c
    <3>1. Len(p) \in k .. Len(p) /\ k \in 1 .. Len(p)
      BY <1>0
    <3> QED
      BY <3>1, SubSeqRecursiveFirst DEF Text
  <2> QED
    BY <2>1
<1>5. Words(p) = Words(a) \o Words(b)
  BY <1>1, WordsConcat
<1>6. Words(b) = Words(one) \o Words(c) /\ Words(c) \in Text
  BY <1>2, <1>3, <1>4, WordsConcat
<1>7. ASSUME p[k][1] # "w" PROVE Words(b) = Words(c)
  <2>1. IsBlank(one)
    BY <1>7 DEF IsBlank
  <2>2. Words(one) = <<>>
    BY <1>3, <2>1, BlankWords
  <2>3. \A t \in Text : <<>> \o t = t
    BY DEF Text
  <2> QED
    BY <1>6, <2>2, <2>3
<1> QED
  BY <1>1, <1>2, <1>5, <1>7

\* What a round of the loop works on.
Emits == [pending : Text, events : Seq(Text)]

\* A segment that is cut off the pending text takes its words along.
LEMMA CutPiece ==
  ASSUME NEW evs \in Seq(Text), NEW p \in Text, NEW a \in Text, NEW r \in Text,
         Words(p) = Words(a) \o Words(r)
  PROVE  WordsIn(Emitted(evs, a), r) = WordsIn(evs, p) /\ Emitted(evs, a) \in Seq(Text)
<1>1. /\ Emitted(evs, a) \in Seq(Text) /\ FlattenSeq(evs) \in Text
      /\ Words(FlattenSeq(Emitted(evs, a))) = Words(FlattenSeq(evs)) \o Words(a)
  BY EmittedWords
<1>2. Words(FlattenSeq(evs)) \in Text /\ Words(a) \in Text /\ Words(r) \in Text
  BY <1>1, WordsConcat
<1>3. Associates(Words(FlattenSeq(evs)), Words(a), Words(r))
  BY <1>2, Association DEF Text
<1> QED
  BY <1>1, <1>3, Zenon DEF WordsIn, Associates

\* A round of the loop loses no word.
LEMMA CutWords ==
  ASSUME NEW s \in Emits
  PROVE  Cut(s) \in Emits /\ WordsIn(Cut(s).events, Cut(s).pending) = WordsIn(s.events, s.pending)
<1> DEFINE p == s.pending
           n == Len(p)
           nl == FirstNewline(p)
           at == IF LastSpace(p) - 1 > MinCut THEN LastSpace(p) - 1 ELSE MaxSegment
<1>1. p \in Text /\ n \in Nat /\ s.events \in Seq(Text)
  BY DEF Emits, Text
<1> DEFINE a == SubSeq(p, 1, nl - 1)
           r == SubSeq(p, nl + 1, n)
           b == SubSeq(p, 1, at)
           q == SubSeq(p, at + 1, n)
<1>2. Cut(s) = IF nl > 0 THEN [pending |-> r, events |-> Emitted(s.events, a)]
               ELSE IF setup.tty \/ n < MaxSegment THEN s
               ELSE [pending |-> q, events |-> Emitted(s.events, b)]
  BY Zenon DEF Cut
<1> HIDE DEF p, n, nl, at
<1>3. CASE nl > 0
  <2>1. nl \in 1 .. n /\ p[nl][1] # "w"
    <3>1. nl # 0
      BY <1>3
    <3>2. nl \in 1 .. n /\ p[nl][1] = "n"
      BY <1>1, <3>1, NewlineIs DEF nl, n
    <3> QED
      BY <3>2
  <2>2. a \in Text /\ r \in Text /\ Words(p) = Words(a) \o Words(r)
    BY <1>1, <2>1, SplitAround DEF n
  <2> HIDE DEF a, r
  <2>3. Emitted(s.events, a) \in Seq(Text) /\ WordsIn(Emitted(s.events, a), r) = WordsIn(s.events, p)
    BY <1>1, <2>2, CutPiece
  <2>4. Cut(s) = [pending |-> r, events |-> Emitted(s.events, a)]
    BY <1>2, <1>3
  <2> QED
    BY <2>2, <2>3, <2>4 DEF Emits, p
<1>4. CASE ~(nl > 0) /\ (setup.tty \/ n < MaxSegment)
  <2>1. Cut(s) = s
    BY <1>2, <1>4
  <2> QED
    BY <2>1
<1>5. CASE ~(nl > 0) /\ ~(setup.tty \/ n < MaxSegment)
  <2>0. MaxSegment \in Nat /\ MinCut \in Nat
    BY ModelCallAssumption DEF ModelCallAssumption
  <2>1. LastSpace(p) \in 0 .. MaxSegment
    <3>1. Len(p) >= MaxSegment
      BY <1>1, <1>5, <2>0 DEF n
    <3> QED
      BY <1>1, <3>1, LastSpaceIs
  <2>2. at \in 0 .. n
    <3>1. n >= MaxSegment
      BY <1>1, <1>5, <2>0
    <3> QED
      BY <1>1, <2>0, <2>1, <3>1 DEF at
  <2>3. b \in Text /\ q \in Text /\ b \o q = p
    BY <1>1, <2>2, SplitAt DEF n, Text
  <2> HIDE DEF b, q
  <2>4. Words(p) = Words(b) \o Words(q)
    BY <2>3, WordsConcat
  <2>5. Emitted(s.events, b) \in Seq(Text) /\ WordsIn(Emitted(s.events, b), q) = WordsIn(s.events, p)
    BY <1>1, <2>3, <2>4, CutPiece
  <2>6. Cut(s) = [pending |-> q, events |-> Emitted(s.events, b)]
    BY <1>2, <1>5
  <2> QED
    BY <2>3, <2>5, <2>6 DEF Emits, p
<1> QED
  BY <1>3, <1>4, <1>5

\* The whole loop loses no word.
LEMMA SegmentsWords ==
  ASSUME NEW text \in Text, events \in Seq(Text)
  PROVE  /\ Segments(text) \in Emits
         /\ WordsIn(Segments(text).events, Segments(text).pending) = WordsIn(events, text)
<1> DEFINE n == Len(text)
           e == [pending |-> text, events |-> events]
           w == WordsIn(events, text)
           U == {s \in Emits : WordsIn(s.events, s.pending) = w}
           turnOf == [x \in Nat \X U |-> Cut(x[2])]
           Loop(g) == g = [i \in 0 .. n |-> IF i = 0 THEN e ELSE Cut(g[i - 1])]
<1>1. n \in Nat
  BY DEF Text
<1>2. e \in U
  BY DEF Emits
<1>3. \A s \in U : Cut(s) \in U
  BY CutWords
<1>4. turnOf \in [Nat \X U -> U]
  <2> HIDE DEF U
  <2> QED
    BY <1>3
<1>5. PICK f : LoopValues(f, U, e, turnOf, n)
  <2> HIDE DEF turnOf, n, U, e
  <2> QED
    BY <1>1, <1>2, <1>4, Turns
<1> HIDE DEF n, U, e
<1>6. f \in [0 .. n -> U] /\ f[0] = e
  <2> HIDE DEF turnOf
  <2> QED
    BY <1>5 DEF LoopValues
<1>7. ASSUME NEW i \in 1 .. n PROVE f[i] = Cut(f[i - 1])
  <2> DEFINE x == <<i, f[i - 1]>>
  <2>1. x \in Nat \X U /\ x[2] = f[i - 1]
    <3>1. i - 1 \in 0 .. n /\ i \in Nat
      BY <1>1
    <3> QED
      BY <1>6, <3>1
  <2> HIDE DEF x
  <2>2. turnOf[x] = Cut(f[i - 1])
    BY <2>1
  <2>3. f[i] = turnOf[x]
    <3> HIDE DEF turnOf
    <3> QED
      BY <1>5 DEF LoopValues, x
  <2> QED
    BY <2>2, <2>3
<1> HIDE DEF turnOf
<1>8. ASSUME NEW i \in 0 .. n PROVE f[i] = IF i = 0 THEN e ELSE Cut(f[i - 1])
  <2>1. CASE i = 0
    BY <1>6, <2>1
  <2>2. CASE i # 0
    <3>1. i \in 1 .. n
      BY <1>1, <2>2
    <3> QED
      BY <1>7, <2>2, <3>1, Zenon
  <2> QED
    BY <2>1, <2>2
<1>9. Loop(f)
  <2>1. f = [i \in 0 .. n |-> f[i]]
    BY <1>6
  <2> QED
    BY <1>8, <2>1, Zenon
<1> DEFINE g == CHOOSE h : Loop(h)
<1>10. Segments(text) = g[n]
  BY Zenon DEF Segments, n, e
<1>11. Loop(g)
  BY <1>9, Zenon
<1> HIDE DEF g
<1>12. \A i \in 0 .. n : g[i] = IF i = 0 THEN e ELSE Cut(g[i - 1])
  BY <1>11, Zenon
<1> DEFINE A == {i \in Nat : i <= n => g[i] \in U}
<1>13. 0 \in A
  <2>1. 0 \in 0 .. n
    BY <1>1
  <2>2. g[0] = e
    BY <1>12, <2>1, Zenon
  <2> QED
    BY <1>2, <2>2
<1>14. ASSUME NEW m \in Nat, m \in A PROVE m + 1 \in A
  <2>1. PICK k : k = m + 1
    OBVIOUS
  <2>2. CASE k <= n
    <3>1. k \in 0 .. n /\ k # 0 /\ k - 1 = m /\ m <= n
      BY <1>1, <2>1, <2>2
    <3>2. g[k] = Cut(g[m])
      BY <1>12, <3>1, Zenon
    <3>3. g[k] \in U
      BY <1>3, <1>14, <3>1, <3>2
    <3> QED
      BY <2>1, <3>3
  <2> QED
    BY <1>1, <2>1, <2>2
<1> HIDE DEF A
<1>15. n \in A
  BY <1>1, <1>13, <1>14, Counting
<1>16. g[n] \in U
  BY <1>1, <1>15 DEF A
<1> QED
  BY <1>10, <1>16 DEF U

\* A text ends with what it was continued by.
LEMMA EndsWith ==
  ASSUME NEW s \in Text, NEW t \in Text
  PROVE  IsSuffix(t, s \o t)
<1> DEFINE u == s \o t
           m == Len(s)
           n == Len(t)
<1>1. /\ m \in Nat /\ n \in Nat /\ u \in Text /\ Len(u) = m + n
      /\ \A i \in 1 .. n : u[m + i] = t[i]
  BY DEF Text
<1> HIDE DEF u
<1> DEFINE a == Reverse(t)
           b == Reverse(u)
<1>2. /\ a \in Text /\ Len(a) = n /\ \A i \in 1 .. n : a[i] = t[n - i + 1]
      /\ b \in Text /\ Len(b) = m + n /\ \A i \in 1 .. m + n : b[i] = u[m + n - i + 1]
  <2>1. \A i \in 1 .. n : n - i + 1 \in 1 .. n
    BY <1>1
  <2>2. \A i \in 1 .. m + n : m + n - i + 1 \in 1 .. m + n
    BY <1>1
  <2> QED
    BY <1>1, <2>1, <2>2 DEF Reverse, Text
<1> HIDE DEF a, b
<1>3. ASSUME NEW i \in 1 .. n PROVE a[i] = b[i]
  <2>1. n - i + 1 \in 1 .. n /\ m + (n - i + 1) = m + n - i + 1 /\ i \in 1 .. m + n
    BY <1>1
  <2> QED
    BY <1>1, <1>2, <2>1
<1> HIDE DEF m, n
<1> DEFINE c == SubSeq(a, 1, n)
           d == SubSeq(b, 1, n)
<1>4. c \in Text /\ Len(c) = n /\ \A i \in 1 .. n : c[i] = a[i]
  BY <1>1, <1>2 DEF Text
<1>5. d \in Text /\ Len(d) = n /\ \A i \in 1 .. n : d[i] = b[i]
  BY <1>1, <1>2 DEF Text
<1> HIDE DEF c, d
<1>6. c = d
  BY <1>3, <1>4, <1>5, SameSequence DEF Text
<1>7. IsPrefix(a, b)
  BY <1>1, <1>2, <1>6 DEF IsPrefix, c, d
<1> QED
  BY <1>7 DEF IsSuffix, a, b, u

\* A call begins with nothing shown, recorded or assembled.
LEMMA NothingSaid ==
  /\ NoResponse = [choices |-> NoResponse.choices, text |-> NoResponse.text,
                   calls |-> NoResponse.calls]
  /\ NoResponse.text = <<>> /\ <<>> \in Text /\ <<>> \in Seq(Text)
  /\ Words(<<>>) = <<>> /\ FlattenSeq(<<>>) = <<>> /\ <<>> \o <<>> = <<>>
<1>1. Words(<<>>) = <<>>
  BY OnlyEmpty DEF Words
<1>2. <<>> \in Text /\ <<>> \in Seq(Text) /\ <<>> \o <<>> = <<>>
  BY DEF Text
<1> QED
  BY <1>1, <1>2, FlatEmpty DEF NoResponse

LEMMA OutputFresh ==
  ASSUME attempt' = 0, resp' = NoResponse, shown' = <<>>, pending' = <<>>, events' = <<>>
  PROVE  OutputInv'
<1> DEFINE e == <<>>
<1>1. /\ e \in Text /\ e \in Seq(Text) /\ NoResponse.text = e /\ e = e \o e
      /\ Words(e) = e /\ FlattenSeq(e) = e
  BY NothingSaid
<1>2. WordsIn(e, e) = Words(e)
  BY <1>1 DEF WordsIn
<1>3. resp' = [choices |-> resp'.choices, text |-> resp'.text, calls |-> resp'.calls]
  BY NothingSaid
<1>4. 0 \in 0 .. MaxAttempts - 1
  BY ModelCallAssumption DEF ModelCallAssumption
<1>5. shown' = e /\ pending' = e /\ events' = e /\ resp'.text = e
  BY <1>1
<1>6. \E before \in Text : shown' = before \o resp'.text
  BY <1>1, <1>5
<1>7. WordsIn(events', pending') = Words(shown')
  BY <1>2, <1>5
<1> HIDE DEF e
<1> QED
  BY <1>1, <1>3, <1>4, <1>5, <1>6, <1>7 DEF OutputInv, WordsIn, Words, e

LEMMA OutputInit == CallInit => OutputInv
<1> SUFFICES ASSUME CallInit PROVE OutputInv
  OBVIOUS
<1> DEFINE e == <<>>
<1>0. attempt = 0 /\ resp = NoResponse /\ shown = e /\ pending = e /\ events = e
  BY Zenon DEF CallInit
<1>1. /\ e \in Text /\ e \in Seq(Text) /\ NoResponse.text = e /\ e = e \o e
      /\ Words(e) = e /\ FlattenSeq(e) = e
  BY NothingSaid
<1>2. WordsIn(e, e) = Words(e)
  BY <1>1 DEF WordsIn
<1>3. resp = [choices |-> resp.choices, text |-> resp.text, calls |-> resp.calls]
  BY <1>0, NothingSaid
<1>4. 0 \in 0 .. MaxAttempts - 1
  BY ModelCallAssumption DEF ModelCallAssumption
<1>5. \E before \in Text : shown = before \o resp.text
  BY <1>0, <1>1
<1>6. WordsIn(events, pending) = Words(shown)
  BY <1>0, <1>2
<1>7. resp.text = e
  BY <1>0, <1>1
<1> HIDE DEF e
<1> QED
  BY <1>0, <1>1, <1>3, <1>4, <1>5, <1>6, <1>7 DEF OutputInv, e

\* Where nothing is shown, recorded or assembled, all stays as it was.
LEMMA OutputKept ==
  ASSUME OutputInv, attempt' \in 0 .. MaxAttempts - 1,
         UNCHANGED <<resp, shown, pending, events>>,
         pc' \in {"answered", "failed"} => pending = <<>>
  PROVE  OutputInv'
<1>1. /\ resp = [choices |-> resp.choices, text |-> resp.text, calls |-> resp.calls]
      /\ resp.text \in Text /\ shown \in Text /\ pending \in Text /\ events \in Seq(Text)
      /\ \E before \in Text : shown = before \o resp.text
      /\ WordsIn(events, pending) = Words(shown)
  BY Zenon DEF OutputInv
<1>2. resp' = resp /\ shown' = shown /\ pending' = pending /\ events' = events
  OBVIOUS
<1>3. WordsIn(events', pending') = Words(shown')
  BY <1>1, <1>2
<1> QED
  BY <1>1, <1>2, <1>3 DEF OutputInv, WordsIn, Words

\* A piece of text.
LEMMA OutputText == OutputInv /\ TextChunk => OutputInv'
<1> SUFFICES ASSUME OutputInv, TextChunk PROVE OutputInv'
  OBVIOUS
<1>1. PICK t \in ChunkTexts :
        LET text == [i \in DOMAIN t |-> <<t[i], attempt>>] IN
          /\ resp' = [resp EXCEPT !.choices = TRUE, !.text = @ \o text]
          /\ WriteChunk(text)
  BY Zenon DEF TextChunk
<1> DEFINE text == [i \in DOMAIN t |-> <<t[i], attempt>>]
           s == Segments(pending \o text)
<1>2. /\ resp' = [resp EXCEPT !.choices = TRUE, !.text = @ \o text]
      /\ shown' = shown \o text /\ pending' = s.pending /\ events' = s.events
  BY <1>1, Zenon DEF WriteChunk
<1>3. text \in Text
  <2>1. t \in Seq({"w", "s", "n"})
    BY ModelCallAssumption DEF ModelCallAssumption
  <2>2. MaxAttempts \in Nat
    BY ModelCallAssumption DEF ModelCallAssumption
  <2>3. attempt \in 0 .. MaxAttempts
    BY <2>2 DEF OutputInv
  <2> QED
    BY <2>1, <2>3 DEF Text, Chars
<1> HIDE DEF text
<1>4. /\ resp = [choices |-> resp.choices, text |-> resp.text, calls |-> resp.calls]
      /\ resp.text \in Text /\ shown \in Text /\ pending \in Text /\ events \in Seq(Text)
      /\ WordsIn(events, pending) = Words(shown)
  BY Zenon DEF OutputInv
<1>5. PICK before \in Text : shown = before \o resp.text
  BY Zenon DEF OutputInv
<1>6. /\ pending \o text \in Text /\ Words(pending \o text) = Words(pending) \o Words(text)
      /\ shown \o text \in Text /\ Words(shown \o text) = Words(shown) \o Words(text)
      /\ resp.text \o text \in Text
      /\ Words(pending) \in Text /\ Words(text) \in Text
  BY <1>3, <1>4, WordsConcat
<1>7. /\ s \in Emits
      /\ WordsIn(s.events, s.pending) = WordsIn(events, pending \o text)
  BY <1>4, <1>6, SegmentsWords
<1>8. WordsIn(events, pending \o text) = Words(shown \o text)
  <2>1. FlattenSeq(events) \in Text
    BY <1>4, FlatType DEF Text
  <2>2. Words(FlattenSeq(events)) \in Text
    BY <2>1, WordsConcat
  <2>3. Associates(Words(FlattenSeq(events)), Words(pending), Words(text))
    BY <1>6, <2>2, Association DEF Text
  <2> QED
    BY <1>4, <1>6, <2>3, Zenon DEF WordsIn, Associates
<1> HIDE DEF s
<1>9. s.pending \in Text /\ s.events \in Seq(Text)
  BY <1>7 DEF Emits
<1>10. /\ resp' = [choices |-> TRUE, text |-> resp.text \o text, calls |-> resp.calls]
       /\ resp'.text = resp.text \o text
  BY <1>2, <1>4
<1>11. Associates(before, resp.text, text)
  BY <1>3, <1>4, <1>5, Association DEF Text
<1>12. shown' = before \o resp'.text
  BY <1>2, <1>5, <1>10, <1>11, Zenon DEF Associates
<1>13. resp' = [choices |-> resp'.choices, text |-> resp'.text, calls |-> resp'.calls]
  BY <1>10
<1>14. WordsIn(events', pending') = Words(shown')
  BY <1>2, <1>7, <1>8, Zenon
<1>15. attempt' = attempt /\ pc' = "stream"
  BY Zenon DEF TextChunk
<1>16. attempt' \in 0 .. MaxAttempts - 1 /\ pc' \notin {"answered", "failed"}
  BY <1>15, Zenon DEF OutputInv
<1>17. /\ resp'.text \in Text /\ shown' \in Text /\ pending' \in Text
       /\ events' \in Seq(Text)
  BY <1>2, <1>6, <1>9, <1>10, Zenon
<1> QED
  BY <1>5, <1>12, <1>13, <1>14, <1>16, <1>17, Zenon DEF OutputInv, WordsIn, Words

\* What is left becomes the last event.
LEMMA OutputFinish == OutputInv /\ Finish => OutputInv'
<1> SUFFICES ASSUME OutputInv, Finish PROVE OutputInv'
  OBVIOUS
<1> DEFINE e == <<>>
<1>1. /\ events' = Emitted(events, pending) /\ pending' = e
      /\ attempt' = attempt /\ resp' = resp /\ shown' = shown
  BY Zenon DEF Finish, stream
<1>2. /\ resp = [choices |-> resp.choices, text |-> resp.text, calls |-> resp.calls]
      /\ resp.text \in Text /\ shown \in Text /\ pending \in Text /\ events \in Seq(Text)
      /\ WordsIn(events, pending) = Words(shown)
      /\ attempt \in 0 .. MaxAttempts - 1
      /\ \E before \in Text : shown = before \o resp.text
  BY Zenon DEF OutputInv
<1>3. e \in Text /\ Words(e) = e
  BY NothingSaid
<1>4. Words(pending) = Words(pending) \o Words(e)
  <2>1. Words(pending) \in Text
    BY <1>2, WordsConcat
  <2>2. \A t \in Text : t = t \o e
    BY DEF Text
  <2> QED
    BY <1>3, <2>1, <2>2
<1> HIDE DEF e
<1>5. /\ WordsIn(Emitted(events, pending), e) = WordsIn(events, pending)
      /\ Emitted(events, pending) \in Seq(Text)
  BY <1>2, <1>3, <1>4, CutPiece
<1>6. WordsIn(events', pending') = Words(shown')
  BY <1>1, <1>2, <1>5, Zenon
<1>7. pending' = <<>>
  BY <1>1 DEF e
<1>8. pending' \in Text /\ events' \in Seq(Text)
  BY <1>1, <1>3, <1>5, Zenon
<1> QED
  BY <1>1, <1>2, <1>6, <1>7, <1>8, Zenon DEF OutputInv, WordsIn, Words

\* Each action of the prompt accounts for what it shows.
LEMMA OutputStep == OutputInv /\ [CallNext]_callVars => OutputInv'
<1> SUFFICES ASSUME OutputInv, [CallNext]_callVars PROVE OutputInv'
  OBVIOUS
<1>0. /\ attempt \in 0 .. MaxAttempts - 1 /\ MaxAttempts \in Nat \ {0}
      /\ pc \in {"answered", "failed"} => pending = <<>>
  <2>1. MaxAttempts \in Nat \ {0}
    BY ModelCallAssumption DEF ModelCallAssumption
  <2> QED
    BY <2>1, Zenon DEF OutputInv
<1>1. CASE ManageContext
  <2>1. /\ pc' \in {"ask", "summarise", "full"}
        /\ UNCHANGED <<attempt, resp, shown, pending, events>>
    BY <1>1, Zenon DEF ManageContext, Goto, stream, emitter
  <2> QED
    BY <1>0, <2>1, OutputKept
<1>2. CASE RetryChat
  <2>1. attempt' = attempt + 1 /\ attempt < MaxAttempts - 1 /\ pc' = pc
        /\ UNCHANGED <<resp, shown, pending, events>>
    BY <1>2, Zenon DEF RetryChat, emitter
  <2>2. attempt' \in 0 .. MaxAttempts - 1
    BY <1>0, <2>1
  <2> QED
    BY <1>0, <2>1, <2>2, OutputKept
<1>3. CASE SummariseByModel \/ SummariseByHeuristic
  <2>1. Compacted
    BY <1>3 DEF SummariseByModel, SummariseByHeuristic
  <2>2. attempt' = 0 /\ pc' \in {"full", "ask"} /\ UNCHANGED <<resp, shown, pending, events>>
    BY <2>1, Zenon DEF Compacted, Goto, emitter
  <2>3. attempt' \in 0 .. MaxAttempts - 1
    BY <1>0, <2>2
  <2> QED
    BY <2>2, <2>3, OutputKept
<1>4. CASE Ask \/ Connect \/ StreamFails \/ StreamEnds
  <2>1. /\ pc' \in {"send", "stream", "flush", "flushFailed"}
        /\ UNCHANGED <<attempt, resp, shown, pending, events>>
    BY <1>4, Zenon DEF Ask, Connect, StreamFails, StreamEnds, Goto, stream, emitter
  <2> QED
    BY <1>0, <2>1, OutputKept
<1>5. CASE RetryStream
  <2>1. /\ attempt' = attempt + 1 /\ attempt < MaxAttempts - 1 /\ pc' = "send"
        /\ resp' = NoResponse /\ shown' = shown /\ pending' = pending /\ events' = events
    BY <1>5, Zenon DEF RetryStream, Goto, emitter
  <2>2. attempt' \in 0 .. MaxAttempts - 1
    BY <1>0, <2>1
  <2> DEFINE e == <<>>
  <2>3. /\ resp' = [choices |-> resp'.choices, text |-> resp'.text, calls |-> resp'.calls]
        /\ resp'.text = e /\ e \in Text
    BY <2>1, NothingSaid, Zenon
  <2>4. /\ shown \in Text /\ pending \in Text /\ events \in Seq(Text)
        /\ WordsIn(events, pending) = Words(shown)
    BY Zenon DEF OutputInv
  <2>5. shown' = shown \o resp'.text
    <3>1. shown \o e = shown
      BY <2>4 DEF Text
    <3> QED
      BY <2>1, <2>3, <3>1, Zenon
  <2>6. WordsIn(events', pending') = Words(shown')
    BY <2>1, <2>4, Zenon
  <2>7. pc' \notin {"answered", "failed"}
    BY <2>1
  <2> QED
    BY <2>1, <2>2, <2>3, <2>4, <2>5, <2>6, <2>7, Zenon DEF OutputInv, WordsIn, Words
<1>6. CASE TextChunk
  BY <1>6, OutputText
<1>7. CASE CallChunk
  <2>1. PICK c : resp' = [resp EXCEPT !.choices = TRUE, !.calls = c]
    BY <1>7, Zenon DEF CallChunk
  <2>2. pc' = "stream" /\ attempt' = attempt /\ UNCHANGED <<shown, pending, events>>
    BY <1>7, Zenon DEF CallChunk, emitter
  <2>3. /\ resp = [choices |-> resp.choices, text |-> resp.text, calls |-> resp.calls]
        /\ resp.text \in Text /\ shown \in Text /\ pending \in Text /\ events \in Seq(Text)
        /\ WordsIn(events, pending) = Words(shown)
        /\ \E before \in Text : shown = before \o resp.text
    BY Zenon DEF OutputInv
  <2>4. resp' = [choices |-> TRUE, text |-> resp.text, calls |-> c] /\ resp'.text = resp.text
    BY <2>1, <2>3
  <2>5. resp' = [choices |-> resp'.choices, text |-> resp'.text, calls |-> resp'.calls]
    BY <2>4
  <2>6. WordsIn(events', pending') = Words(shown')
    BY <2>2, <2>3, Zenon
  <2>7. pc' \notin {"answered", "failed"} /\ attempt' \in 0 .. MaxAttempts - 1
    BY <1>0, <2>2
  <2>8. shown' = shown /\ pending' = pending /\ events' = events
    BY <2>2
  <2> QED
    BY <2>3, <2>4, <2>5, <2>6, <2>7, <2>8, Zenon DEF OutputInv, WordsIn, Words
<1>8. CASE Finish
  BY <1>8, OutputFinish
<1>9. CASE Answer
  BY <1>9, OutputFresh, Zenon DEF Answer, NewCall
<1>10. CASE ExecuteTool
  <2>1. UNCHANGED <<attempt, resp, shown, pending, events>>
    BY <1>10, Zenon DEF ExecuteTool, stream, emitter
  <2>2. pc = "tools" /\ (pc' = pc \/ pc' \in {"manage", "done"})
    BY <1>10 DEF ExecuteTool, Goto
  <2> QED
    BY <1>0, <2>1, <2>2, OutputKept
<1>11. CASE UNCHANGED callVars
  <2>1. UNCHANGED <<attempt, resp, shown, pending, events, pc>>
    BY <1>11, Zenon DEF callVars, stream, emitter
  <2> QED
    BY <1>0, <2>1, OutputKept
<1> QED
  BY <1>1, <1>2, <1>3, <1>4, <1>5, <1>6, <1>7, <1>8, <1>9, <1>10, <1>11, Zenon DEF CallNext

\* However a call is retried, fails or ends, the output shows the response
\* last, and the events have every word of the output.
THEOREM OutputIsAccountedFor == CallSpec => []OutputAccounted
<1>1. OutputInv => OutputAccounted
  <2> SUFFICES ASSUME OutputInv PROVE OutputAccounted
    OBVIOUS
  <2>1. PICK before \in Text : shown = before \o resp.text
    BY Zenon DEF OutputInv
  <2>2. resp.text \in Text /\ events \in Seq(Text) /\ WordsIn(events, pending) = Words(shown)
    BY Zenon DEF OutputInv
  <2>3. IsSuffix(resp.text, shown)
    BY <2>1, <2>2, EndsWith
  <2>4. ASSUME pc \in {"answered", "failed"} PROVE Words(FlattenSeq(events)) = Words(shown)
    <3>1. pending = <<>>
      BY <2>4, Zenon DEF OutputInv
    <3>2. FlattenSeq(events) \in Text
      BY <2>2, FlatType DEF Text
    <3>3. Words(FlattenSeq(events)) \in Text /\ Words(pending) = <<>>
      BY <3>1, <3>2, WordsConcat, NothingSaid
    <3>4. \A t \in Text : t \o <<>> = t
      BY DEF Text
    <3> QED
      BY <2>2, <3>3, <3>4 DEF WordsIn
  <2> QED
    BY <2>3, <2>4, Zenon DEF OutputAccounted
<1> QED
  BY OutputInit, OutputStep, <1>1, PTL DEF CallSpec
-----------------------------------------------------------------------------
(* Errors that are compacted away (ModelCall)                                 *)

Failed(m) == m.role = "tool" /\ m.error
WholeMessage(m) == m = [role |-> m.role, tool |-> m.tool, bytes |-> m.bytes,
                        error |-> m.error, calls |-> m.calls, id |-> m.id]
IdsOf(ms) == {m.id : m \in ms}

\* The errors among the messages are of different calls, and none of them is
\* among those that are owed.
Orderly(ms, old, n) ==
  /\ IsSeq(ms)
  /\ \A i \in 1 .. Len(ms) : WholeMessage(ms[i])
  /\ \A i \in 1 .. Len(ms) : Failed(ms[i]) => ms[i].id \in 1 .. n /\ ms[i].id \notin old
  /\ \A i, j \in 1 .. Len(ms) :
       Failed(ms[i]) /\ Failed(ms[j]) /\ ms[i].id = ms[j].id => i = j

\* The sequence holds the elements of the set, each once.
Lists(s, S) == s \in Seq(Nat) /\ ToSet(s) = S /\ Len(s) = Cardinality(S)

\* The inductive invariant: as long as there is room for them, the next steps
\* of the continuation are the errors that are owed, each once.
ErrorsInv ==
  /\ RoomInv
  /\ said \in Nat /\ owed \subseteq 1 .. said
  /\ Orderly(messages, owed, said)
  /\ Cardinality(owed) <= 5 => Lists(cont.next, owed)

\* A bounded set of numbers is finite.
LEMMA BoundedIsFinite ==
  ASSUME NEW n \in Nat, NEW S, S \subseteq 1 .. n
  PROVE  IsFiniteSet(S) /\ Cardinality(S) \in Nat
<1>1. IsFiniteSet(1 .. n)
  BY FS_Interval
<1> QED
  BY <1>1, FS_Subset, FS_CardinalityType

\* With fewer errors owed the messages are still in order.
LEMMA OrderlyLess ==
  ASSUME NEW ms, NEW old, NEW less, NEW n, Orderly(ms, old, n), less \subseteq old
  PROVE  Orderly(ms, less, n)
  BY Zenon DEF Orderly

\* Pruning does not touch errors, and makes none.
LEMMA OrderlyPruned ==
  ASSUME NEW ms, NEW old, NEW n, Orderly(ms, old, n)
  PROVE  Orderly(Prune(ms, Keep), old, n)
<1> DEFINE new == Prune(ms, Keep)
<1>1. IsSeq(ms) /\ DOMAIN ms = 1 .. Len(ms)
  BY IsSeqFacts, Zenon DEF Orderly
<1>2. IsSeq(new) /\ Len(new) = Len(ms)
  BY <1>1, PruneShape
<1>3. ASSUME NEW i \in 1 .. Len(ms)
      PROVE  /\ WholeMessage(new[i]) /\ new[i].id = ms[i].id
             /\ Failed(new[i]) <=> Failed(ms[i])
  <2>1. new[i] = IF i <= Len(ms) - Keep /\ Prunable(ms[i]) THEN Pruned(ms[i]) ELSE ms[i]
    BY <1>1, Zenon DEF Prune
  <2>2. WholeMessage(ms[i])
    BY Zenon DEF Orderly
  <2>3. CASE Prunable(ms[i]) /\ new[i] = Pruned(ms[i])
    <3>1. PICK b : Pruned(ms[i]) = [ms[i] EXCEPT !.bytes = b]
      BY Zenon DEF Pruned
    <3>2. new[i] = [role |-> ms[i].role, tool |-> ms[i].tool, bytes |-> b,
                    error |-> ms[i].error, calls |-> ms[i].calls, id |-> ms[i].id]
      BY <2>2, <2>3, <3>1 DEF WholeMessage
    <3> HIDE DEF new
    <3> QED
      BY <3>2 DEF WholeMessage, Failed
  <2>4. CASE new[i] = ms[i]
    BY <2>2, <2>4, Zenon
  <2> QED
    BY <2>1, <2>3, <2>4, Zenon
<1> HIDE DEF new
<1>4. Orderly(new, old, n)
  BY <1>2, <1>3, Zenon DEF Orderly
<1> QED
  BY <1>4 DEF new

\* What is stored has a number of its own.
LEMMA OrderlyStored ==
  ASSUME NEW ms, NEW old, NEW n \in Nat, Orderly(ms, old, n), old \subseteq 1 .. n,
         NEW role, NEW tool, NEW bytes, NEW error, NEW count
  PROVE  Orderly(ms \o <<Message(role, tool, bytes, error, count, n + 1)>>, old, n + 1)
<1> DEFINE m == Message(role, tool, bytes, error, count, n + 1)
           new == ms \o <<m>>
<1>1. WholeMessage(m) /\ m.id = n + 1
  BY DEF Message, WholeMessage
<1> HIDE DEF m
<1>2. PICK S : ms \in Seq(S)
  BY DEF Orderly, IsSeq
<1>3. /\ new \in Seq(S \cup {m}) /\ Len(new) = Len(ms) + 1 /\ Len(ms) \in Nat
      /\ new[Len(ms) + 1] = m /\ \A i \in 1 .. Len(ms) : new[i] = ms[i]
  <2>1. ms \in Seq(S \cup {m}) /\ <<m>> \in Seq(S \cup {m})
    BY <1>2
  <2> QED
    BY <2>1
<1> HIDE DEF new
<1>4. IsSeq(new)
  BY <1>3 DEF IsSeq
<1>5. \A i \in 1 .. Len(new) : i = Len(ms) + 1 \/ i \in 1 .. Len(ms)
  BY <1>3
<1>6. /\ \A i \in 1 .. Len(ms) : WholeMessage(ms[i])
      /\ \A i \in 1 .. Len(ms) : Failed(ms[i]) => ms[i].id \in 1 .. n /\ ms[i].id \notin old
      /\ \A i, j \in 1 .. Len(ms) :
           Failed(ms[i]) /\ Failed(ms[j]) /\ ms[i].id = ms[j].id => i = j
  BY Zenon DEF Orderly
<1>7. \A i \in 1 .. Len(new) : WholeMessage(new[i])
  BY <1>1, <1>3, <1>5, <1>6
<1>8. n + 1 \notin old /\ n + 1 \in 1 .. n + 1 /\ n + 1 \notin 1 .. n
      /\ \A k \in 1 .. n : k \in 1 .. n + 1
  OBVIOUS
<1>9. ASSUME NEW i \in 1 .. Len(new), Failed(new[i])
      PROVE  new[i].id \in 1 .. n + 1 /\ new[i].id \notin old
  BY <1>1, <1>3, <1>5, <1>6, <1>8, <1>9
<1>10. ASSUME NEW i \in 1 .. Len(new), NEW j \in 1 .. Len(new),
              Failed(new[i]), Failed(new[j]), new[i].id = new[j].id
       PROVE  i = j
  <2>1. CASE i = Len(ms) + 1
    BY <1>1, <1>3, <1>5, <1>6, <1>8, <1>10, <2>1
  <2>2. CASE j = Len(ms) + 1
    BY <1>1, <1>3, <1>5, <1>6, <1>8, <1>10, <2>2
  <2>3. CASE i \in 1 .. Len(ms) /\ j \in 1 .. Len(ms)
    BY <1>3, <1>6, <1>10, <2>3
  <2> QED
    BY <1>5, <2>1, <2>2, <2>3
<1>11. Orderly(new, old, n + 1)
  BY <1>4, <1>7, <1>9, <1>10, Zenon DEF Orderly
<1> QED
  BY <1>11 DEF new, m

\* Errors of different numbers are selected one by one.
LEMMA SelectedOnce ==
  ASSUME NEW T, NEW S, NEW s \in Seq(T),
         \A i, j \in 1 .. Len(s) : s[i] \in S /\ s[j] \in S /\ s[i].id = s[j].id => i = j
  PROVE  /\ IsFiniteSet(IdsOf(ToSet(s) \cap S))
         /\ Len(Only(s, S)) = Cardinality(IdsOf(ToSet(s) \cap S))
<1> DEFINE Apart(r) == \A i, j \in 1 .. Len(r) :
                         r[i] \in S /\ r[j] \in S /\ r[i].id = r[j].id => i = j
           N(r) == IdsOf(ToSet(r) \cap S)
           Good(r) == IsFiniteSet(N(r)) /\ Len(Only(r, S)) = Cardinality(N(r))
           P == {r \in Seq(T) : Apart(r) => Good(r)}
<1>1. <<>> \in P
  <2>1. Only(<<>>, S) = <<>> /\ <<>> \in Seq(T)
    BY OnlyEmpty
  <2>2. ToSet(<<>>) = {}
    BY DEF ToSet
  <2>3. N(<<>>) = {}
    BY <2>2 DEF IdsOf
  <2>4. Good(<<>>)
    BY <2>1, <2>3, FS_EmptySet
  <2> QED
    BY <2>1, <2>4
<1>2. ASSUME NEW r \in Seq(T), NEW x \in T, r \in P PROVE Append(r, x) \in P
  <2> DEFINE q == Append(r, x)
  <2>1. /\ q \in Seq(T) /\ Len(q) = Len(r) + 1 /\ q[Len(r) + 1] = x
        /\ Len(r) \in Nat /\ \A i \in 1 .. Len(r) : q[i] = r[i]
    OBVIOUS
  <2>2. Only(q, S) = IF x \in S THEN Append(Only(r, S), x) ELSE Only(r, S)
    BY OnlyAppend
  <2>3. ToSet(q) = ToSet(r) \cup {x}
    BY SetOfAppend
  <2>4. Only(r, S) \in Seq(T \cap S)
    BY OnlyElements
  <2> HIDE DEF q
  <2> SUFFICES ASSUME Apart(q) PROVE Good(q)
    BY <2>1 DEF q
  <2>5. Apart(r)
    BY <2>1
  <2>6. Good(r)
    BY <1>2, <2>5
  <2>7. CASE x \in S
    <3>1. N(q) = N(r) \cup {x.id}
      BY <2>3, <2>7 DEF IdsOf
    <3>2. x.id \notin N(r)
      <4> SUFFICES ASSUME NEW m \in ToSet(r) \cap S, m.id = x.id PROVE FALSE
        BY DEF IdsOf
      <4>1. PICK i \in 1 .. Len(r) : m = r[i]
        <5>1. DOMAIN r = 1 .. Len(r)
          OBVIOUS
        <5> QED
          BY <5>1, Zenon DEF ToSet
      <4>2. /\ i \in 1 .. Len(q) /\ Len(r) + 1 \in 1 .. Len(q) /\ i # Len(r) + 1
            /\ q[i] = m /\ q[Len(r) + 1] = x
        BY <2>1, <4>1
      <4> QED
        BY <2>7, <4>2
    <3>3. IsFiniteSet(N(q)) /\ Cardinality(N(q)) = Cardinality(N(r)) + 1
      <4> HIDE DEF N
      <4> QED
        BY <2>6, <3>1, <3>2, FS_AddElement
    <3>4. Len(Only(q, S)) = Len(Only(r, S)) + 1
      BY <2>2, <2>4, <2>7
    <3> QED
      BY <2>6, <3>3, <3>4
  <2>8. CASE x \notin S
    <3>1. ToSet(q) \cap S = ToSet(r) \cap S
      BY <2>3, <2>8
    <3> QED
      BY <2>2, <2>6, <2>8, <3>1
  <2> QED
    BY <2>7, <2>8
<1> HIDE DEF P
<1>3. s \in P
  BY <1>1, <1>2, Growing
<1>4. Good(s)
  BY <1>3 DEF P
<1> QED
  BY <1>4

\* What is compacted and what is left of it: p messages are in front.
Places(ms, b, p) ==
  LET new  == Compact(ms, Keep, b)
      head == CompactedHead(ms, Keep)
      n    == Len(ms) - Keep
  IN  /\ p \in {0, 1} /\ n > p /\ Len(ms) \in Nat
      /\ p = 1 => ms[1].role = "system"
      /\ IsSeq(new) /\ Len(new) = p + 1 + Keep
      /\ \A i \in 1 .. p : new[i] = ms[i]
      /\ new[p + 1] = Message("continuation", "", b, FALSE, 0, 0)
      /\ \A i \in p + 2 .. p + 1 + Keep : new[i] = ms[i - (p + 1) + n]
      /\ IsSeq(head) /\ Len(head) = n - p
      /\ \A j \in 1 .. n - p : head[j] = ms[j + p]

LEMMA CompactPlaces ==
  ASSUME NEW ms, NEW b, IsSeq(ms), Compactable(ms, Keep)
  PROVE  \E p : Places(ms, b, p)
<1> DEFINE n == Len(ms)
           p == Preserved(ms)
           k == Keep
           c == Message("continuation", "", b, FALSE, 0, 0)
           front == SubSeq(ms, 1, p)
           tail  == SubSeq(ms, n - k + 1, n)
           head  == SubSeq(ms, p + 1, n - k)
<1>1. PICK S : ms \in Seq(S)
  BY DEF IsSeq
<1>2. /\ n \in Nat /\ k \in Nat \ {0} /\ n - p > k
      /\ p = IF n > 0 /\ ms[1].role = "system" THEN 1 ELSE 0
  BY IsSeqFacts, CompactableMeans, KeepIs
<1>3. p \in {0, 1} /\ p <= n
  BY <1>2
<1>4. Compact(ms, k, b) = front \o <<c>> \o tail /\ CompactedHead(ms, k) = head
  BY CompactableMeans DEF Compact, CompactedHead
<1> DEFINE T == S \cup {c}
<1> HIDE DEF n, p, k, c, T
<1>6. front \in Seq(T) /\ Len(front) = p /\ \A i \in 1 .. p : front[i] = ms[i]
  <2>1. ms \in Seq(T)
    BY <1>1 DEF T
  <2>2. Len(ms) = n
    BY DEF n
  <2> QED
    BY <1>2, <1>3, <2>1, <2>2, SubSeqProperties
<1>7. tail \in Seq(T) /\ Len(tail) = k /\ \A i \in 1 .. k : tail[i] = ms[n - k + i]
  <2>1. ms \in Seq(T)
    BY <1>1 DEF T
  <2>2. Len(ms) = n /\ n - k + 1 \in 1 .. n + 1 /\ n - (n - k + 1) + 1 = k
    BY <1>2, <1>3 DEF n
  <2>3. \A i \in 1 .. k : n - k + 1 + i - 1 = n - k + i
    BY <1>2
  <2> QED
    BY <1>2, <2>1, <2>2, <2>3, SubSeqProperties
<1>8. head \in Seq(T) /\ Len(head) = n - k - p /\ \A j \in 1 .. n - k - p : head[j] = ms[j + p]
  <2>1. ms \in Seq(T)
    BY <1>1 DEF T
  <2>2. Len(ms) = n /\ p + 1 \in 1 .. n + 1 /\ n - k \in p .. n /\ n - k - (p + 1) + 1 = n - k - p
    BY <1>2, <1>3 DEF n
  <2>3. \A i \in 1 .. n - k - p : p + 1 + i - 1 = i + p
    BY <1>2, <1>3
  <2> QED
    BY <1>2, <1>3, <2>1, <2>2, <2>3, SubSeqProperties
<1>9. <<c>> \in Seq(T) /\ Len(<<c>>) = 1 /\ <<c>>[1] = c
  BY DEF T
<1> DEFINE one == <<c>>
<1> HIDE DEF front, tail, one, head
<1>10. /\ front \o one \in Seq(T) /\ Len(front \o one) = p + 1
       /\ \A i \in 1 .. p + 1 : (front \o one)[i] = IF i <= p THEN front[i] ELSE one[i - p]
  BY <1>3, <1>6, <1>9, ConcatProperties DEF one
<1> DEFINE start == front \o one
           new   == start \o tail
<1> HIDE DEF start
<1>11. /\ new \in Seq(T) /\ Len(new) = p + 1 + k
       /\ \A i \in 1 .. p + 1 + k : new[i] = IF i <= p + 1 THEN start[i] ELSE tail[i - (p + 1)]
  <2>1. start \in Seq(T) /\ tail \in Seq(T) /\ Len(start) = p + 1 /\ Len(tail) = k
    BY <1>7, <1>10 DEF start
  <2>2. /\ start \o tail \in Seq(T) /\ Len(start \o tail) = Len(start) + Len(tail)
        /\ \A i \in 1 .. Len(start) + Len(tail) :
             (start \o tail)[i] = IF i <= Len(start) THEN start[i] ELSE tail[i - Len(start)]
    BY <2>1, ConcatProperties
  <2> QED
    BY <2>1, <2>2, Zenon
<1>12. Compact(ms, k, b) = new
  BY <1>4 DEF one, start
<1> HIDE DEF new
<1>13. \A i \in 1 .. p : new[i] = ms[i]
  <2>1. \A i \in 1 .. p : i \in 1 .. p + 1 /\ i \in 1 .. p + 1 + k /\ i <= p /\ i <= p + 1
    BY <1>2, <1>3
  <2> QED
    BY <1>6, <1>10, <1>11, <2>1 DEF start
<1>14. new[p + 1] = c
  <2>1. PICK i : i = p + 1
    OBVIOUS
  <2>2. i \in 1 .. p + 1 /\ i \in 1 .. p + 1 + k /\ ~(i <= p) /\ i <= p + 1 /\ i - p = 1
    BY <1>2, <1>3, <2>1
  <2> QED
    BY <1>9, <1>10, <1>11, <2>1, <2>2 DEF start, one
<1>15. ASSUME NEW i \in p + 2 .. p + 1 + k PROVE new[i] = ms[i - (p + 1) + (n - k)]
  <2>1. /\ i \in 1 .. p + 1 + k /\ ~(i <= p + 1) /\ i - (p + 1) \in 1 .. k
        /\ n - k + (i - (p + 1)) = i - (p + 1) + (n - k)
    BY <1>2, <1>3
  <2> QED
    BY <1>7, <1>11, <2>1
<1>16. p = 1 => ms[1].role = "system"
  BY <1>2
<1>17. IsSeq(head) /\ IsSeq(new) /\ n - k > p
  BY <1>2, <1>3, <1>8, <1>11 DEF IsSeq
<1>18. CompactedHead(ms, k) = head
  BY <1>4
<1>19. c = Message("continuation", "", b, FALSE, 0, 0)
  BY Zenon DEF c
<1>20. Places(ms, b, p)
  BY <1>2, <1>3, <1>8, <1>11, <1>12, <1>13, <1>14, <1>15, <1>16, <1>17, <1>18, <1>19,
     Zenon DEF n, k, Places
<1> QED
  BY <1>20

\* The errors of the head have left the messages.
LEMMA OrderlyCompacted ==
  ASSUME NEW ms, NEW old, NEW n, NEW b, Orderly(ms, old, n), Compactable(ms, Keep)
  PROVE  Orderly(Compact(ms, Keep, b), old \cup ErrorsIn(CompactedHead(ms, Keep)), n)
<1> DEFINE new  == Compact(ms, Keep, b)
           head == CompactedHead(ms, Keep)
           cut  == Len(ms) - Keep
           from(i, p) == i - (p + 1) + cut
<1>0. IsSeq(ms)
  BY Zenon DEF Orderly
<1>1. PICK p : Places(ms, b, p)
  BY <1>0, CompactPlaces
<1> DEFINE c == Message("continuation", "", b, FALSE, 0, 0)
<1>2. /\ p \in {0, 1} /\ cut > p /\ Len(ms) \in Nat
      /\ p = 1 => ms[1].role = "system"
      /\ IsSeq(new) /\ Len(new) = p + 1 + Keep
      /\ \A i \in 1 .. p : new[i] = ms[i]
      /\ new[p + 1] = c
      /\ \A i \in p + 2 .. p + 1 + Keep : new[i] = ms[from(i, p)]
      /\ IsSeq(head) /\ Len(head) = cut - p
      /\ \A j \in 1 .. cut - p : head[j] = ms[j + p]
  BY <1>1, Zenon DEF Places
<1>3. WholeMessage(c) /\ ~Failed(c)
  <2> DEFINE none == ""
  <2>1. c = Message("continuation", none, b, FALSE, 0, 0)
    OBVIOUS
  <2> HIDE DEF none, c
  <2> QED
    BY <2>1 DEF Message, WholeMessage, Failed
<1> HIDE DEF new, head, c
<1>4. /\ \A i \in 1 .. Len(ms) : WholeMessage(ms[i])
      /\ \A i \in 1 .. Len(ms) : Failed(ms[i]) => ms[i].id \in 1 .. n /\ ms[i].id \notin old
      /\ \A i, j \in 1 .. Len(ms) :
           Failed(ms[i]) /\ Failed(ms[j]) /\ ms[i].id = ms[j].id => i = j
  BY Zenon DEF Orderly
<1>5. Keep \in Nat \ {0}
  BY KeepIs
<1>6. ASSUME NEW i \in 1 .. Len(new)
      PROVE  \/ i \in 1 .. p /\ i = 1 /\ p = 1 /\ new[i] = ms[1] /\ 1 \in 1 .. Len(ms)
             \/ i = p + 1 /\ new[i] = c
             \/ i \in p + 2 .. p + 1 + Keep /\ new[i] = ms[from(i, p)]
                  /\ from(i, p) \in 1 .. Len(ms) /\ from(i, p) > cut
  <2>1. \/ i = 1 /\ p = 1
        \/ i = p + 1
        \/ i \in p + 2 .. p + 1 + Keep
    BY <1>2, <1>5
  <2>2. CASE i = 1 /\ p = 1
    <3>1. i \in 1 .. p /\ 1 \in 1 .. Len(ms)
      BY <1>2, <1>5, <2>2
    <3> QED
      BY <1>2, <2>2, <3>1
  <2>3. CASE i = p + 1
    BY <1>2, <2>3
  <2>4. CASE i \in p + 2 .. p + 1 + Keep
    <3>1. from(i, p) \in 1 .. Len(ms) /\ from(i, p) > cut
      BY <1>2, <1>5, <2>4
    <3> QED
      BY <1>2, <2>4, <3>1
  <2> QED
    BY <2>1, <2>2, <2>3, <2>4
<1>7. \A i \in 1 .. Len(new) : WholeMessage(new[i])
  BY <1>3, <1>4, <1>6
<1>8. ASSUME NEW i \in 1 .. Len(new), Failed(new[i])
      PROVE  /\ i \in p + 2 .. p + 1 + Keep /\ new[i] = ms[from(i, p)]
             /\ from(i, p) \in 1 .. Len(ms) /\ from(i, p) > cut
  <2>1. p = 1 => ~Failed(ms[1])
    BY <1>2 DEF Failed
  <2> QED
    BY <1>3, <1>6, <1>8, <2>1
<1>9. ASSUME NEW e \in ErrorsIn(head)
      PROVE  \E k \in 1 .. Len(ms) : k <= cut /\ Failed(ms[k]) /\ ms[k].id = e
  <2>1. PICK m \in Errors(head) : m.id = e
    BY <1>9, Zenon DEF ErrorsIn
  <2>2. m \in ToSet(head) /\ Failed(m)
    BY <2>1, Zenon DEF Errors, Failed
  <2>3. PICK j \in 1 .. Len(head) : m = head[j]
    <3>1. DOMAIN head = 1 .. Len(head)
      BY <1>2, IsSeqFacts
    <3> QED
      BY <2>2, <3>1, Zenon DEF ToSet
  <2>4. head[j] = ms[j + p] /\ j + p \in 1 .. Len(ms) /\ j + p <= cut
    BY <1>2, <1>5
  <2> QED
    BY <2>1, <2>2, <2>3, <2>4
<1>10. ASSUME NEW i \in 1 .. Len(new), Failed(new[i])
       PROVE  new[i].id \in 1 .. n /\ new[i].id \notin old \cup ErrorsIn(head)
  <2>1. /\ new[i] = ms[from(i, p)]
        /\ from(i, p) \in 1 .. Len(ms) /\ from(i, p) > cut
    BY <1>8, <1>10
  <2>2. new[i].id \in 1 .. n /\ new[i].id \notin old
    BY <1>4, <1>10, <2>1
  <2>3. new[i].id \notin ErrorsIn(head)
    <3> SUFFICES ASSUME new[i].id \in ErrorsIn(head) PROVE FALSE
      OBVIOUS
    <3>1. PICK k \in 1 .. Len(ms) : k <= cut /\ Failed(ms[k]) /\ ms[k].id = new[i].id
      BY <1>9
    <3>2. k = from(i, p)
      BY <1>4, <1>10, <2>1, <3>1
    <3> QED
      BY <1>2, <1>5, <2>1, <3>1, <3>2
  <2> QED
    BY <2>2, <2>3
<1>11. ASSUME NEW i \in 1 .. Len(new), NEW j \in 1 .. Len(new),
              Failed(new[i]), Failed(new[j]), new[i].id = new[j].id
       PROVE  i = j
  <2>1. /\ new[i] = ms[from(i, p)] /\ from(i, p) \in 1 .. Len(ms)
        /\ new[j] = ms[from(j, p)] /\ from(j, p) \in 1 .. Len(ms)
    BY <1>8, <1>11
  <2>2. from(i, p) = from(j, p)
    BY <1>4, <1>11, <2>1
  <2> QED
    BY <1>2, <1>5, <2>2
<1>12. Orderly(new, old \cup ErrorsIn(head), n)
  BY <1>2, <1>7, <1>10, <1>11, Zenon DEF Orderly
<1> QED
  BY <1>12 DEF new, head

\* The errors of the head are told apart by their numbers, so that as many
\* are selected as there are numbers.
LEMMA HeadErrors ==
  ASSUME NEW ms, NEW old, NEW n \in Nat, Orderly(ms, old, n), Compactable(ms, Keep)
  PROVE  LET head == CompactedHead(ms, Keep) IN
         /\ ErrorsIn(head) \subseteq 1 .. n
         /\ ErrorsIn(head) \cap old = {}
         /\ Lists(Ids(Only(head, Errors(head))), ErrorsIn(head))
<1> DEFINE head == CompactedHead(ms, Keep)
           cut  == Len(ms) - Keep
           E    == Errors(head)
           o    == Only(head, E)
<1>0. IsSeq(ms)
  BY Zenon DEF Orderly
<1>1. PICK p : Places(ms, 0, p)
  BY <1>0, CompactPlaces
<1>2. /\ p \in {0, 1} /\ cut > p /\ Len(ms) \in Nat
      /\ IsSeq(head) /\ Len(head) = cut - p
      /\ \A j \in 1 .. cut - p : head[j] = ms[j + p]
  BY <1>1, Zenon DEF Places
<1>3. Keep \in Nat \ {0}
  BY KeepIs
<1>4. /\ \A i \in 1 .. Len(ms) : Failed(ms[i]) => ms[i].id \in 1 .. n /\ ms[i].id \notin old
      /\ \A i, j \in 1 .. Len(ms) :
           Failed(ms[i]) /\ Failed(ms[j]) /\ ms[i].id = ms[j].id => i = j
  BY Zenon DEF Orderly
<1> HIDE DEF head
<1>5. PICK T : head \in Seq(T)
  BY <1>2 DEF IsSeq
<1>6. DOMAIN head = 1 .. Len(head)
  BY <1>5
<1>7. ASSUME NEW m \in E PROVE m \in ToSet(head) /\ Failed(m) /\ m.id \in 1 .. n /\ m.id \notin old
  <2>1. m \in ToSet(head) /\ Failed(m)
    BY <1>7, Zenon DEF Errors, Failed
  <2>2. PICK j \in 1 .. Len(head) : m = head[j]
    BY <1>6, <2>1, Zenon DEF ToSet
  <2>3. head[j] = ms[j + p] /\ j + p \in 1 .. Len(ms)
    BY <1>2, <1>3
  <2> QED
    BY <1>4, <2>1, <2>2, <2>3
<1>8. ErrorsIn(head) = IdsOf(E)
  BY Zenon DEF ErrorsIn, IdsOf
<1>9. ErrorsIn(head) \subseteq 1 .. n /\ ErrorsIn(head) \cap old = {}
  <2> HIDE DEF E
  <2> QED
    BY <1>7, <1>8 DEF IdsOf
<1>10. ToSet(head) \cap E = E
  <2> HIDE DEF E
  <2> QED
    BY <1>7
<1>11. ASSUME NEW i \in 1 .. Len(head), NEW j \in 1 .. Len(head),
              head[i] \in E, head[j] \in E, head[i].id = head[j].id
       PROVE  i = j
  <2>1. Failed(head[i]) /\ Failed(head[j])
    BY <1>7, <1>11
  <2>2. /\ head[i] = ms[i + p] /\ i + p \in 1 .. Len(ms)
        /\ head[j] = ms[j + p] /\ j + p \in 1 .. Len(ms)
    BY <1>2, <1>3
  <2>3. i + p = j + p
    BY <1>4, <1>11, <2>1, <2>2
  <2> QED
    BY <1>2, <2>3
<1> HIDE DEF E, o
<1>12. Len(o) = Cardinality(ErrorsIn(head))
  BY <1>5, <1>8, <1>10, <1>11, SelectedOnce DEF o
<1>13. o \in Seq(T \cap E) /\ ToSet(o) = E
  BY <1>5, <1>10, OnlyElements DEF o
<1> DEFINE ids == Ids(o)
<1>14. DOMAIN o = 1 .. Len(o) /\ Len(o) \in Nat /\ ids = [i \in 1 .. Len(o) |-> o[i].id]
  <2>1. DOMAIN o = 1 .. Len(o) /\ Len(o) \in Nat
    BY <1>13
  <2> QED
    BY <2>1 DEF Ids
<1>15. \A i \in 1 .. Len(o) : o[i] \in E /\ o[i].id \in Nat
  BY <1>7, <1>13
<1> HIDE DEF ids
<1>16. ids \in Seq(Nat) /\ Len(ids) = Len(o) /\ DOMAIN ids = 1 .. Len(o)
  <2>1. ids \in [1 .. Len(o) -> Nat]
    BY <1>14, <1>15
  <2> QED
    BY <1>14, <2>1
<1>17. ToSet(ids) = IdsOf(E)
  <2>1. ToSet(ids) = {ids[i] : i \in 1 .. Len(o)}
    BY <1>16 DEF ToSet
  <2>2. E = {o[i] : i \in 1 .. Len(o)}
    BY <1>13, <1>14 DEF ToSet
  <2>3. \A i \in 1 .. Len(o) : ids[i] = o[i].id
    BY <1>14
  <2> QED
    BY <2>1, <2>2, <2>3 DEF IdsOf
<1>18. Lists(ids, ErrorsIn(head))
  BY <1>8, <1>12, <1>16, <1>17 DEF Lists
<1> QED
  BY <1>9, <1>18 DEF ids, o, E, head

\* Nothing is left out of what is short enough.
LEMMA AllNewest == ASSUME NEW s, NEW n, Len(s) <= n PROVE Newest(s, n) = s
  BY DEF Newest

\* Two lists of different errors, one after the other.
LEMMA ListsBoth ==
  ASSUME NEW r, NEW s, NEW R, NEW S, IsFiniteSet(R), IsFiniteSet(S), R \cap S = {},
         Lists(r, R), Lists(s, S)
  PROVE  Lists(r \o s, R \cup S)
<1>1. Cardinality(R \cup S) = Cardinality(R) + Cardinality(S)
  <2>1. Cardinality(R \cap S) = 0
    BY FS_EmptySet
  <2>2. Cardinality(R \cup S) = Cardinality(R) + Cardinality(S) - Cardinality(R \cap S)
    BY FS_Union
  <2> QED
    BY <2>1, <2>2, FS_CardinalityType
<1>2. r \in Seq(Nat) /\ s \in Seq(Nat) /\ ToSet(r) = R /\ ToSet(s) = S
      /\ Len(r) = Cardinality(R) /\ Len(s) = Cardinality(S)
  BY DEF Lists
<1> DEFINE t == r \o s
<1>3. /\ t \in Seq(Nat) /\ Len(t) = Len(r) + Len(s) /\ Len(r) \in Nat /\ Len(s) \in Nat
      /\ DOMAIN t = 1 .. Len(r) + Len(s) /\ DOMAIN r = 1 .. Len(r) /\ DOMAIN s = 1 .. Len(s)
      /\ \A i \in 1 .. Len(r) + Len(s) : t[i] = IF i <= Len(r) THEN r[i] ELSE s[i - Len(r)]
  <2>1. /\ t \in Seq(Nat) /\ Len(t) = Len(r) + Len(s)
        /\ \A i \in 1 .. Len(r) + Len(s) : t[i] = IF i <= Len(r) THEN r[i] ELSE s[i - Len(r)]
    BY <1>2, ConcatProperties
  <2> HIDE DEF t
  <2>2. /\ Len(r) \in Nat /\ Len(s) \in Nat /\ DOMAIN t = 1 .. Len(t)
        /\ DOMAIN r = 1 .. Len(r) /\ DOMAIN s = 1 .. Len(s)
    BY <1>2, <2>1
  <2> QED
    BY <2>1, <2>2, Zenon
<1> HIDE DEF t
<1>4. ToSet(t) \subseteq R \cup S
  <2>1. ASSUME NEW i \in 1 .. Len(r) + Len(s) PROVE t[i] \in R \cup S
    <3>1. CASE i <= Len(r)
      <4>1. i \in 1 .. Len(r) /\ t[i] = r[i]
        BY <1>3, <3>1
      <4>2. r[i] \in ToSet(r)
        BY <1>3, <4>1, Zenon DEF ToSet
      <4> QED
        BY <1>2, <4>1, <4>2
    <3>2. CASE ~(i <= Len(r))
      <4>1. PICK j : j = i - Len(r)
        OBVIOUS
      <4>2. j \in 1 .. Len(s) /\ t[i] = s[j]
        BY <1>3, <3>2, <4>1
      <4>3. s[j] \in ToSet(s)
        BY <1>3, <4>2, Zenon DEF ToSet
      <4> QED
        BY <1>2, <4>2, <4>3
    <3> QED
      BY <3>1, <3>2
  <2>2. ToSet(t) = {t[i] : i \in 1 .. Len(r) + Len(s)}
    BY <1>3, Zenon DEF ToSet
  <2> QED
    BY <2>1, <2>2
<1>5. R \cup S \subseteq ToSet(t)
  <2>1. ASSUME NEW x \in R PROVE x \in ToSet(t)
    <3>1. PICK i \in 1 .. Len(r) : x = r[i]
      BY <1>2, <1>3 DEF ToSet
    <3>2. i \in 1 .. Len(r) + Len(s) /\ t[i] = x
      BY <1>3, <3>1
    <3> QED
      BY <1>3, <3>2 DEF ToSet
  <2>2. ASSUME NEW x \in S PROVE x \in ToSet(t)
    <3>1. PICK i \in 1 .. Len(s) : x = s[i]
      BY <1>2, <1>3 DEF ToSet
    <3>2. PICK j : j = i + Len(r)
      OBVIOUS
    <3>3. j \in 1 .. Len(r) + Len(s) /\ ~(j <= Len(r)) /\ j - Len(r) = i
      BY <1>3, <3>2
    <3>4. t[j] = x
      BY <1>3, <3>1, <3>3
    <3> QED
      BY <1>3, <3>3, <3>4 DEF ToSet
  <2> QED
    BY <2>1, <2>2
<1>6. Lists(t, R \cup S)
  BY <1>1, <1>2, <1>3, <1>4, <1>5 DEF Lists
<1> QED
  BY <1>6 DEF t

\* The heuristic writes what is owed into its next steps.
LEMMA HeuristicLists ==
  ASSUME NEW head, NEW prior, NEW old, NEW n \in Nat, old \subseteq 1 .. n,
         ErrorsIn(head) \subseteq 1 .. n, ErrorsIn(head) \cap old = {},
         Lists(Ids(Only(head, Errors(head))), ErrorsIn(head)),
         Cardinality(old) <= 5 => Lists(prior.next, old),
         Cardinality(old \cup ErrorsIn(head)) <= 5
  PROVE  Lists(BuildContinuation(head, prior).next, old \cup ErrorsIn(head))
<1> DEFINE E   == ErrorsIn(head)
           ids == Ids(Only(head, Errors(head)))
           loops == Newest(ids, 10)
           resolve == Newest(loops, 5)
           prev == prior.next
           next == IF prev = <<>> THEN resolve ELSE Newest(resolve \o prev, 10)
<1>1. BuildContinuation(head, prior).next = next
  BY DEF BuildContinuation
<1> HIDE DEF E, ids, loops, resolve, prev, next
<1>2. /\ IsFiniteSet(E) /\ IsFiniteSet(old) /\ IsFiniteSet(old \cup E)
      /\ Cardinality(E) \in Nat /\ Cardinality(old) \in Nat /\ Cardinality(old \cup E) \in Nat
  <2>1. E \subseteq 1 .. n /\ old \cup E \subseteq 1 .. n
    BY DEF E
  <2> QED
    BY <2>1, BoundedIsFinite
<1>3. E \cap old = {} /\ Lists(ids, E) /\ Cardinality(old \cup E) <= 5
  BY DEF E, ids
<1>4. Cardinality(old) <= Cardinality(old \cup E) /\ Cardinality(E) <= Cardinality(old \cup E)
  <2>1. old \subseteq old \cup E /\ E \subseteq old \cup E
    OBVIOUS
  <2> QED
    BY <1>2, <2>1, FS_Subset
<1>5. Cardinality(old) <= 5 /\ Cardinality(E) <= 5
  BY <1>2, <1>3, <1>4
<1>6. Lists(prev, old)
  BY <1>5 DEF prev
<1>7. resolve = ids
  <2>1. Len(ids) <= 5 /\ Len(ids) <= 10
    BY <1>2, <1>3, <1>5 DEF Lists
  <2>2. loops = ids
    BY <2>1, AllNewest DEF loops
  <2> QED
    BY <2>1, <2>2, AllNewest DEF resolve
<1>8. CASE prev = <<>>
  <2>1. old = {}
    BY <1>6, <1>8 DEF Lists, ToSet
  <2>2. next = ids /\ old \cup E = E
    BY <1>7, <1>8, <2>1 DEF next
  <2>3. Lists(next, old \cup E)
    BY <1>3, <2>2, Zenon
  <2> QED
    BY <1>1, <2>3 DEF E
<1>9. CASE prev # <<>>
  <2>1. Lists(ids \o prev, E \cup old)
    BY <1>2, <1>3, <1>6, ListsBoth
  <2>2. E \cup old = old \cup E
    OBVIOUS
  <2>3. Len(ids \o prev) <= 10
    <3>1. Len(ids \o prev) = Cardinality(old \cup E)
      BY <2>1, <2>2, Zenon DEF Lists
    <3> QED
      BY <1>2, <1>3, <3>1
  <2>4. next = ids \o prev
    BY <1>7, <1>9, <2>3, AllNewest DEF next
  <2>5. Lists(next, old \cup E)
    BY <2>1, <2>2, <2>4, Zenon
  <2> QED
    BY <1>1, <2>5 DEF E
<1> QED
  BY <1>8, <1>9

\* A prompt starts without errors.
LEMMA ErrorsInit == CallInit => ErrorsInv
<1> SUFFICES ASSUME CallInit PROVE ErrorsInv
  OBVIOUS
<1> DEFINE a == Message("system", "", 400, FALSE, 0, 0)
           b == Message("user", "", 200, FALSE, 0, 1)
<1>1. /\ messages = <<a, b>> /\ said = 1 /\ owed = {}
      /\ cont = NoContinuation
  BY Zenon DEF CallInit
<1>2. WholeMessage(a) /\ ~Failed(a) /\ WholeMessage(b) /\ ~Failed(b)
  <2> DEFINE none == ""
  <2>1. a = Message("system", none, 400, FALSE, 0, 0) /\ b = Message("user", none, 200, FALSE, 0, 1)
    OBVIOUS
  <2> HIDE DEF none, a, b
  <2> QED
    BY <2>1 DEF Message, WholeMessage, Failed
<1> HIDE DEF a, b
<1>3. IsSeq(messages) /\ Len(messages) = 2 /\ messages[1] = a /\ messages[2] = b
  <2>1. messages \in Seq({a, b})
    BY <1>1
  <2> QED
    BY <1>1, <2>1 DEF IsSeq
<1>4. \A i \in 1 .. Len(messages) : messages[i] = a \/ messages[i] = b
  BY <1>3
<1>5. Orderly(messages, owed, said)
  BY <1>2, <1>3, <1>4, Zenon DEF Orderly
<1>6. Lists(cont.next, owed)
  <2>1. cont.next = <<>>
    BY <1>1 DEF NoContinuation
  <2> QED
    BY <1>1, <2>1, FS_EmptySet DEF Lists, ToSet
<1>7. said \in Nat /\ owed \subseteq 1 .. said
  BY <1>1
<1> QED
  BY <1>5, <1>6, <1>7, RoomInit, Zenon DEF ErrorsInv

\* Where the messages, the continuation and what is owed go on, nothing is
\* forgotten.
LEMMA ErrorsKept ==
  ASSUME ErrorsInv, RoomInv', said' = said, owed' = owed, cont' = cont,
         messages' = messages
  PROVE  ErrorsInv'
<1>1. Orderly(messages, owed, said) /\ Orderly(messages', owed', said') = Orderly(messages, owed, said)
  BY Zenon DEF ErrorsInv
<1> QED
  BY <1>1, Zenon DEF ErrorsInv, Lists

\* What a compaction takes away is written down, by the heuristic ...
LEMMA ErrorsHeuristic ==
  ASSUME ErrorsInv, SummariseByHeuristic, RoomInv'
  PROVE  ErrorsInv'
<1> DEFINE head == CompactedHead(messages, Keep)
<1>1. /\ cont' = BuildContinuation(head, cont) /\ owed' = owed \cup ErrorsIn(head)
      /\ pc = "summarise" /\ Compacted
  BY Zenon DEF SummariseByHeuristic
<1>2. PICK b \in Summaries : messages' = Compact(messages, Keep, b)
  BY <1>1, Zenon DEF Compacted
<1>3. said' = said
  BY <1>1 DEF Compacted
<1>4. /\ Compactable(messages, Keep) /\ said \in Nat /\ owed \subseteq 1 .. said
      /\ Orderly(messages, owed, said)
      /\ Cardinality(owed) <= 5 => Lists(cont.next, owed)
  BY <1>1, Zenon DEF ErrorsInv, RoomInv
<1>5. /\ ErrorsIn(head) \subseteq 1 .. said /\ ErrorsIn(head) \cap owed = {}
      /\ Lists(Ids(Only(head, Errors(head))), ErrorsIn(head))
  BY <1>4, HeadErrors
<1>6. Orderly(messages', owed', said')
  BY <1>1, <1>2, <1>3, <1>4, OrderlyCompacted
<1> HIDE DEF head
<1>7. ASSUME Cardinality(owed') <= 5 PROVE Lists(cont'.next, owed')
  <2>1. Cardinality(owed \cup ErrorsIn(head)) <= 5
    BY <1>1, <1>7
  <2>2. Lists(BuildContinuation(head, cont).next, owed \cup ErrorsIn(head))
    BY <1>4, <1>5, <2>1, HeuristicLists
  <2> QED
    BY <1>1, <2>2
<1>8. said' \in Nat /\ owed' \subseteq 1 .. said'
  BY <1>1, <1>3, <1>4, <1>5
<1> QED
  BY <1>6, <1>7, <1>8, Zenon DEF ErrorsInv, Lists

\* ... while the model is trusted to have done so.
LEMMA ErrorsModel ==
  ASSUME ErrorsInv, SummariseByModel, RoomInv'
  PROVE  ErrorsInv'
<1> DEFINE e == <<>>
<1>1. /\ cont' = [by |-> "model", goal |-> 0, loops |-> e, next |-> e]
      /\ owed' = {} /\ pc = "summarise" /\ Compacted
  BY Zenon DEF SummariseByModel
<1>2. PICK b \in Summaries : messages' = Compact(messages, Keep, b)
  BY <1>1, Zenon DEF Compacted
<1>3. said' = said
  BY <1>1 DEF Compacted
<1>4. /\ Compactable(messages, Keep) /\ said \in Nat
      /\ Orderly(messages, owed, said)
  BY <1>1, Zenon DEF ErrorsInv, RoomInv
<1>5. Orderly(messages', owed', said')
  <2>1. Orderly(messages', owed \cup ErrorsIn(CompactedHead(messages, Keep)), said)
    BY <1>2, <1>4, OrderlyCompacted
  <2>2. {} \subseteq owed \cup ErrorsIn(CompactedHead(messages, Keep))
    OBVIOUS
  <2>3. Orderly(messages', {}, said)
    BY <2>1, <2>2, OrderlyLess
  <2> QED
    BY <1>1, <1>3, <2>3, Zenon
<1>6. Lists(cont'.next, owed')
  <2>1. cont'.next = <<>>
    BY <1>1
  <2> QED
    BY <1>1, <2>1, FS_EmptySet DEF Lists, ToSet
<1>7. said' \in Nat /\ owed' \subseteq 1 .. said'
  BY <1>1, <1>3, <1>4
<1> QED
  BY <1>5, <1>6, <1>7, Zenon DEF ErrorsInv, Lists

\* A message with a number of its own is stored.
LEMMA ErrorsStored ==
  ASSUME ErrorsInv, RoomInv', owed' = owed, cont' = cont,
         NEW role, NEW tool, NEW bytes, NEW error, NEW count,
         Store(<<Message(role, tool, bytes, error, count, said + 1)>>)
  PROVE  ErrorsInv'
<1> DEFINE m == Message(role, tool, bytes, error, count, said + 1)
<1>1. messages' = messages \o <<m>> /\ said' = said + 1
  <2>1. Len(<<m>>) = 1
    <3> HIDE DEF m
    <3> QED
      OBVIOUS
  <2> QED
    BY <2>1, Zenon DEF Store
<1>2. /\ said \in Nat /\ owed \subseteq 1 .. said
      /\ Orderly(messages, owed, said)
      /\ Cardinality(owed) <= 5 => Lists(cont.next, owed)
  BY Zenon DEF ErrorsInv
<1>3. Orderly(messages \o <<m>>, owed, said + 1)
  BY <1>2, OrderlyStored
<1> HIDE DEF m
<1>4. Orderly(messages', owed', said')
  BY <1>1, <1>3, Zenon
<1>5. said' \in Nat /\ owed' \subseteq 1 .. said'
  BY <1>1, <1>2
<1> QED
  BY <1>2, <1>4, <1>5, Zenon DEF ErrorsInv, Lists

\* Each action of the prompt keeps the errors.
LEMMA ErrorsStep == ErrorsInv /\ [CallNext]_callVars => ErrorsInv'
<1> SUFFICES ASSUME ErrorsInv, [CallNext]_callVars PROVE ErrorsInv'
  OBVIOUS
<1>0. RoomInv'
  BY RoomStep DEF ErrorsInv
<1>1. CASE ManageContext
  <2>1. messages' \in {messages, Prune(messages, Keep)}
    BY <1>1, Zenon DEF ManageContext
  <2>2. said' = said /\ owed' = owed /\ cont' = cont
    BY <1>1, Zenon DEF ManageContext
  <2>3. Orderly(messages, owed, said)
    BY Zenon DEF ErrorsInv
  <2>4. Orderly(messages', owed, said)
    BY <2>1, <2>3, OrderlyPruned
  <2>5. Orderly(messages', owed', said')
    BY <2>2, <2>4, Zenon
  <2> QED
    BY <1>0, <2>2, <2>5, Zenon DEF ErrorsInv, Lists
<1>2. CASE SummariseByModel
  BY <1>0, <1>2, ErrorsModel
<1>3. CASE SummariseByHeuristic
  BY <1>0, <1>3, ErrorsHeuristic
<1>4. CASE RetryChat
  BY <1>0, <1>4, ErrorsKept, Zenon DEF RetryChat, context
<1>5. CASE Ask \/ Connect
  BY <1>0, <1>5, ErrorsKept, Zenon DEF Ask, Connect, context
<1>6. CASE RetryStream \/ StreamFails
  BY <1>0, <1>6, ErrorsKept, Zenon DEF RetryStream, StreamFails, context
<1>7. CASE TextChunk \/ CallChunk
  BY <1>0, <1>7, ErrorsKept, Zenon DEF TextChunk, CallChunk, context
<1>8. CASE StreamEnds \/ Finish
  BY <1>0, <1>8, ErrorsKept, Zenon DEF StreamEnds, Finish, context
<1>9. CASE Answer
  <2>1. /\ owed' = owed /\ cont' = cont
        /\ Store(<<Message("assistant", "", IF resp.text = <<>> THEN 0 ELSE 100, FALSE,
                           Len(resp.calls), said + 1)>>)
    BY <1>9, Zenon DEF Answer
  <2> QED
    BY <1>0, <2>1, ErrorsStored, Zenon
<1>10. CASE ExecuteTool
  <2>1. /\ owed' = owed /\ cont' = cont
        /\ \E r \in ToolResults :
             Store(<<Message("tool", r.tool, TruncateToolOutput(r.tool, r.bytes), r.error, 0, said + 1)>>)
    BY <1>10, Zenon DEF ExecuteTool
  <2> QED
    BY <1>0, <2>1, ErrorsStored, Zenon
<1>11. CASE UNCHANGED callVars
  BY <1>0, <1>11, ErrorsKept, Zenon DEF callVars, context
<1> QED
  BY <1>1, <1>2, <1>3, <1>4, <1>5, <1>6, <1>7, <1>8, <1>9, <1>10, <1>11, Zenon DEF CallNext

\* However often the heuristic compacts, an error that was compacted away
\* is among the next steps of the continuation.
THEOREM ErrorsAreRemembered == CallSpec => []ErrorsRemembered
<1>1. ErrorsInv => ErrorsRemembered
  BY DEF ErrorsInv, ErrorsRemembered, Lists
<1> QED
  BY ErrorsInit, ErrorsStep, <1>1, PTL DEF CallSpec

-----------------------------------------------------------------------------
(* What the variables of a call hold (ModelCall)                               *)

Roles == {"system", "user", "continuation", "assistant", "tool"}
MessageOK(m, n) == m.role \in Roles /\ m.bytes \in Nat /\ m.id \in 0 .. n
MessagesOK(ms, n) == \A i \in 1 .. Len(ms) : MessageOK(ms[i], n)

\* The places of a prompt, and those in which its turn is not one of MaxTurns any more.
CallPlaces == {"manage", "summarise", "ask", "send", "stream", "flush", "flushFailed",
               "answered", "tools", "done", "failed", "full"}

\* The tool calls that a response may have.
CallLists == {s \in Seq(Nat) : Len(s) <= MaxIndex + 1}

\* The inductive invariant.  A turn that has begun is one of MaxTurns, and as many
\* calls are to be executed as the response had.
TurnInv ==
  /\ setup \in Setups /\ MessagesOK(messages, said)
  /\ cont.by \in {"none", "heuristic", "model"}
  /\ workingSet \in 0 .. 50 /\ turn \in 1 .. MaxTurns + 1
  /\ pc \in CallPlaces /\ (turn > MaxTurns => pc = "done")
  /\ chunks \in 0 .. MaxChunks
  /\ resp.calls \in CallLists
  /\ todo \in 0 .. MaxIndex + 1 /\ (pc = "tools" => todo > 0)

CallTypeInv == ErrorsInv /\ OutputInv /\ TurnInv

\* The budget of a tool is positive, and so is that of an aged result.
LEMMA BudgetIs ==
  ASSUME NEW tool
  PROVE  /\ OutputBudget(tool) \in Nat /\ OutputBudget(tool) >= 1024
         /\ AgedBudget(tool) \in Nat /\ AgedBudget(tool) >= 512
<1>1. OutputBudget(tool) \in {48 * 1024, 1024, 16 * 1024, 8 * 1024, 32 * 1024}
  <2>1. CASE tool \in {"Read", "Skill", "Write", "Edit", "Grep", "Glob"}
    BY <2>1 DEF OutputBudget
  <2>2. CASE tool \notin {"Read", "Skill", "Write", "Edit", "Grep", "Glob"}
    BY <2>2 DEF OutputBudget
  <2> QED
    BY <2>1, <2>2
<1> DEFINE q == OutputBudget(tool) \div 4
<1>2. OutputBudget(tool) \in Nat /\ OutputBudget(tool) >= 1024 /\ q \in Nat
  BY <1>1
<1> HIDE DEF q
<1>3. \E n \in Nat : {512, q} \subseteq 1 .. n
  <2>1. q >= 1
    BY <1>1 DEF q
  <2>2. {512, q} \subseteq 1 .. 512 + q
    BY <1>2, <2>1
  <2> QED
    BY <1>2, <2>2
<1>4. Max({512, q}) \in {512, q}
  <2>1. PICK n \in Nat : {512, q} \subseteq 1 .. n
    BY <1>3
  <2>2. {512, q} # {}
    OBVIOUS
  <2> QED
    BY <2>1, <2>2, Extremes
<1>5. q >= 256
  BY <1>1 DEF q
<1>6. Max({512, q}) >= 512
  <2>1. \E x \in {512, q} : \A y \in {512, q} : x >= y
    <3>1. CASE q >= 512
      BY <1>2, <3>1
    <3>2. CASE ~(q >= 512)
      BY <1>2, <3>2
    <3> QED
      BY <3>1, <3>2
  <2>2. \A y \in {512, q} : Max({512, q}) >= y
    BY <2>1 DEF Max
  <2> QED
    BY <2>2
<1> QED
  BY <1>2, <1>4, <1>6 DEF AgedBudget, q

\* A text that is cut has a length.
LEMMA CutLength ==
  ASSUME NEW b \in Nat, NEW max \in Nat, max >= 512
  PROVE  TruncateMiddle(b, max) \in Nat
BY DEF TruncateMiddle

\* What is pruned, compacted or stored keeps its place among the messages.
LEMMA PrunedOK ==
  ASSUME NEW ms, NEW n, IsSeq(ms), MessagesOK(ms, n),
         \A i \in 1 .. Len(ms) : WholeMessage(ms[i])
  PROVE  MessagesOK(Prune(ms, Keep), n)
<1> DEFINE new == Prune(ms, Keep)
<1>1. Len(new) = Len(ms) /\ DOMAIN ms = 1 .. Len(ms)
  BY PruneShape, IsSeqFacts
<1>2. ASSUME NEW i \in 1 .. Len(ms) PROVE MessageOK(new[i], n)
  <2>1. new[i] = IF i <= Len(ms) - Keep /\ Prunable(ms[i]) THEN Pruned(ms[i]) ELSE ms[i]
    BY <1>1, Zenon DEF Prune
  <2>2. WholeMessage(ms[i]) /\ MessageOK(ms[i], n)
    BY Zenon DEF MessagesOK
  <2>3. CASE new[i] = Pruned(ms[i])
    <3> DEFINE a == AgedBudget(ms[i].tool)
               b == IF a <= 512 THEN PruneMarkerBytes ELSE TruncateMiddle(ms[i].bytes, a)
    <3>1. a \in Nat /\ a >= 512
      BY BudgetIs
    <3>2. ms[i].bytes \in Nat
      BY <2>2 DEF MessageOK
    <3>3. b \in Nat
      <4> HIDE DEF a
      <4>1. TruncateMiddle(ms[i].bytes, a) \in Nat
        BY <3>1, <3>2, CutLength
      <4> QED
        BY <4>1 DEF PruneMarkerBytes
    <3>4. Pruned(ms[i]) = [ms[i] EXCEPT !.bytes = b]
      BY Zenon DEF Pruned
    <3> HIDE DEF b
    <3>5. new[i] = [role |-> ms[i].role, tool |-> ms[i].tool, bytes |-> b,
                    error |-> ms[i].error, calls |-> ms[i].calls, id |-> ms[i].id]
      BY <2>2, <2>3, <3>4 DEF WholeMessage
    <3> HIDE DEF new
    <3> QED
      BY <2>2, <3>3, <3>5 DEF MessageOK
  <2>4. CASE new[i] = ms[i]
    BY <2>2, <2>4, Zenon
  <2> QED
    BY <2>1, <2>3, <2>4, Zenon
<1> HIDE DEF new
<1>3. MessagesOK(new, n)
  BY <1>1, <1>2, Zenon DEF MessagesOK
<1> QED
  BY <1>3 DEF new

\* A message that is made has what it was made with.
LEMMA MadeOK ==
  ASSUME NEW role \in Roles, NEW tool, NEW bytes \in Nat, NEW error, NEW count,
         NEW n, NEW id \in 0 .. n
  PROVE  MessageOK(Message(role, tool, bytes, error, count, id), n)
BY DEF MessageOK, Message

LEMMA CompactedOK ==
  ASSUME NEW ms, NEW n \in Nat, NEW b \in Nat, IsSeq(ms), MessagesOK(ms, n),
         Compactable(ms, Keep)
  PROVE  MessagesOK(Compact(ms, Keep, b), n)
<1> DEFINE new == Compact(ms, Keep, b)
           c == Message("continuation", "", b, FALSE, 0, 0)
<1>1. PICK p : Places(ms, b, p)
  BY CompactPlaces
<1>2. MessageOK(c, n)
  <2>1. "continuation" \in Roles /\ 0 \in 0 .. n
    BY DEF Roles
  <2> QED
    BY <2>1, MadeOK
<1>3. /\ p \in {0, 1} /\ Len(ms) - Keep > p /\ Len(ms) \in Nat /\ Len(new) = p + 1 + Keep
      /\ \A i \in 1 .. p : new[i] = ms[i]
      /\ new[p + 1] = c
      /\ \A i \in p + 2 .. p + 1 + Keep : new[i] = ms[i - (p + 1) + (Len(ms) - Keep)]
  BY <1>1, Zenon DEF Places
<1> HIDE DEF new, c
<1>4. ASSUME NEW i \in 1 .. Len(new) PROVE MessageOK(new[i], n)
  <2>1. \A k \in 1 .. Len(ms) : MessageOK(ms[k], n)
    BY Zenon DEF MessagesOK
  <2>2. CASE i \in 1 .. p
    <3>1. i \in 1 .. Len(ms)
      BY <1>3, <2>2, KeepIs
    <3> QED
      BY <1>3, <2>1, <2>2, <3>1, Zenon
  <2>3. CASE i = p + 1
    BY <1>2, <1>3, <2>3, Zenon
  <2>4. CASE i \in p + 2 .. p + 1 + Keep
    <3>1. i - (p + 1) + (Len(ms) - Keep) \in 1 .. Len(ms)
      BY <1>3, <2>4, KeepIs
    <3> QED
      BY <1>3, <2>1, <2>4, <3>1, Zenon
  <2> QED
    BY <1>3, <2>2, <2>3, <2>4, KeepIs
<1>5. MessagesOK(new, n)
  BY <1>4, Zenon DEF MessagesOK
<1> QED
  BY <1>5 DEF new

LEMMA StoredOK ==
  ASSUME NEW ms, NEW n \in Nat, IsSeq(ms), MessagesOK(ms, n), NEW m, MessageOK(m, n + 1)
  PROVE  MessagesOK(ms \o <<m>>, n + 1)
<1> DEFINE new == ms \o <<m>>
<1>1. PICK S : ms \in Seq(S)
  BY DEF IsSeq
<1>2. /\ Len(new) = Len(ms) + 1 /\ Len(ms) \in Nat
      /\ new[Len(ms) + 1] = m /\ \A i \in 1 .. Len(ms) : new[i] = ms[i]
  <2>1. ms \in Seq(S \cup {m}) /\ <<m>> \in Seq(S \cup {m})
    BY <1>1
  <2> QED
    BY <2>1
<1> HIDE DEF new
<1>3. ASSUME NEW i \in 1 .. Len(new) PROVE MessageOK(new[i], n + 1)
  <2>1. CASE i = Len(ms) + 1
    BY <1>2, <2>1
  <2>2. CASE i \in 1 .. Len(ms)
    <3>1. MessageOK(ms[i], n)
      BY <2>2, Zenon DEF MessagesOK
    <3>2. \A k \in 0 .. n : k \in 0 .. n + 1
      OBVIOUS
    <3> QED
      BY <1>2, <2>2, <3>1, <3>2 DEF MessageOK
  <2> QED
    BY <1>2, <2>1, <2>2
<1>4. MessagesOK(new, n + 1)
  BY <1>3, Zenon DEF MessagesOK
<1> QED
  BY <1>4 DEF new

\* The calls that a delta makes or extends.
LEMMA FilledOK ==
  ASSUME NEW calls \in CallLists, NEW i \in 0 .. MaxIndex
  PROVE  [Filled(calls, i + 1) EXCEPT ![i + 1] = @ + 1] \in CallLists
<1> DEFINE top == Max({i + 1, Len(calls)})
           f == Filled(calls, i + 1)
<1>1. MaxIndex \in Nat
  BY ModelCallAssumption DEF ModelCallAssumption
<1>2. calls \in Seq(Nat) /\ Len(calls) \in 0 .. MaxIndex + 1 /\ DOMAIN calls = 1 .. Len(calls)
  BY <1>1 DEF CallLists
<1>3. \E x \in {i + 1, Len(calls)} : \A y \in {i + 1, Len(calls)} : x >= y
  <2>1. CASE i + 1 >= Len(calls)
    BY <1>1, <1>2, <2>1
  <2>2. CASE ~(i + 1 >= Len(calls))
    BY <1>1, <1>2, <2>2
  <2> QED
    BY <2>1, <2>2
<1>4. top \in {i + 1, Len(calls)} /\ top >= i + 1
  <2>1. top \in {i + 1, Len(calls)} /\ \A y \in {i + 1, Len(calls)} : top >= y
    BY <1>3, Zenon DEF Max
  <2> QED
    BY <2>1
<1>5. f = [k \in 1 .. top |-> IF k \in DOMAIN calls THEN calls[k] ELSE 0]
  BY Zenon DEF Filled
<1> HIDE DEF top, f
<1>6. f \in [1 .. top -> Nat] /\ top \in 1 .. MaxIndex + 1 /\ i + 1 \in 1 .. top
  <2>1. \A k \in 1 .. top : (IF k \in DOMAIN calls THEN calls[k] ELSE 0) \in Nat
    BY <1>2
  <2>2. top \in 1 .. MaxIndex + 1 /\ i + 1 \in 1 .. top
    <3>1. i \in Nat /\ i <= MaxIndex /\ Len(calls) \in Nat /\ Len(calls) <= MaxIndex + 1
      BY <1>1, <1>2
    <3>2. top \in Nat /\ top <= MaxIndex + 1 /\ top >= i + 1
      BY <1>1, <1>4, <3>1
    <3> QED
      BY <1>1, <3>1, <3>2
  <2> QED
    BY <1>5, <2>1, <2>2
<1>7. [f EXCEPT ![i + 1] = @ + 1] \in [1 .. top -> Nat]
  BY <1>6
<1>8. \A g \in [1 .. top -> Nat] : g \in Seq(Nat) /\ Len(g) = top
  BY <1>6
<1>9. [f EXCEPT ![i + 1] = @ + 1] \in CallLists
  BY <1>1, <1>6, <1>7, <1>8 DEF CallLists
<1> QED
  BY <1>9 DEF f

\* What is assembled starts without calls.
LEMMA NoCalls == NoResponse.calls = <<>> /\ NoResponse.calls \in CallLists
<1>1. MaxIndex \in Nat
  BY ModelCallAssumption DEF ModelCallAssumption
<1>2. NoResponse.calls = <<>>
  BY DEF NoResponse
<1> QED
  BY <1>1, <1>2 DEF CallLists

\* A prompt starts with two messages and nothing else.
LEMMA CallTypeInit == CallInit => CallTypeInv
<1> SUFFICES ASSUME CallInit PROVE CallTypeInv
  OBVIOUS
<1> DEFINE a == Message("system", "", 400, FALSE, 0, 0)
           b == Message("user", "", 200, FALSE, 0, 1)
<1>1. /\ messages = <<a, b>> /\ said = 1 /\ cont = NoContinuation
      /\ setup \in Setups /\ workingSet = 0 /\ turn = 1 /\ pc = "manage"
      /\ chunks = 0 /\ resp = NoResponse /\ todo = 0
  BY Zenon DEF CallInit
<1>2. MessageOK(a, 1) /\ MessageOK(b, 1)
  <2>1. "system" \in Roles /\ "user" \in Roles /\ 0 \in 0 .. 1 /\ 1 \in 0 .. 1
        /\ 400 \in Nat /\ 200 \in Nat
    BY DEF Roles
  <2> QED
    BY <2>1, MadeOK
<1> HIDE DEF a, b
<1>3. MessagesOK(messages, said)
  <2>1. \A i \in 1 .. Len(messages) : messages[i] = a \/ messages[i] = b
    BY <1>1
  <2> QED
    BY <1>1, <1>2, <2>1, Zenon DEF MessagesOK
<1>4. cont.by = "none"
  BY <1>1 DEF NoContinuation
<1>5. resp.calls \in CallLists
  BY <1>1, NoCalls
<1>6. MaxTurns \in Nat \ {0} /\ MaxChunks \in Nat /\ MaxIndex \in Nat
  BY ModelCallAssumption DEF ModelCallAssumption
<1>7. TurnInv
  BY <1>1, <1>3, <1>4, <1>5, <1>6 DEF TurnInv, CallPlaces
<1> QED
  BY <1>7, ErrorsInit, OutputInit DEF CallTypeInv

\* A step that leaves the turn, and what is to be executed in it, alone.
LEMMA TurnKept ==
  ASSUME TurnInv, MessagesOK(messages', said'), UNCHANGED <<setup, workingSet, turn, todo>>,
         cont'.by \in {"none", "heuristic", "model"},
         chunks' \in 0 .. MaxChunks, resp'.calls \in CallLists,
         pc # "done", pc' \in CallPlaces, pc' # "tools"
  PROVE  TurnInv'
<1>1. ~(turn' > MaxTurns)
  BY DEF TurnInv
<1>2. MessagesOK(messages, said)' = MessagesOK(messages', said')
  BY DEF MessagesOK, MessageOK, Roles
<1> QED
  BY <1>1, <1>2, Zenon DEF TurnInv, CallPlaces, CallLists

\* A message is stored, with a length and the number of its own.
LEMMA TypesStored ==
  ASSUME IsSeq(messages), said \in Nat, MessagesOK(messages, said),
         NEW role \in Roles, NEW tool, NEW bytes \in Nat, NEW error, NEW count,
         Store(<<Message(role, tool, bytes, error, count, said + 1)>>)
  PROVE  MessagesOK(messages', said')
<1> DEFINE m == Message(role, tool, bytes, error, count, said + 1)
<1>1. messages' = messages \o <<m>> /\ said' = said + 1
  <2>1. Len(<<m>>) = 1
    <3> HIDE DEF m
    <3> QED
      OBVIOUS
  <2> QED
    BY <2>1, Zenon DEF Store
<1>2. said + 1 \in 0 .. said + 1
  OBVIOUS
<1>3. MessageOK(m, said + 1)
  BY <1>2, MadeOK
<1> HIDE DEF m
<1> QED
  BY <1>1, <1>3, StoredOK

\* Each action keeps the types.
LEMMA TurnStep == CallTypeInv /\ [CallNext]_callVars => TurnInv'
<1> SUFFICES ASSUME CallTypeInv, [CallNext]_callVars PROVE TurnInv'
  OBVIOUS
<1>0. /\ TurnInv /\ IsSeq(messages) /\ said \in Nat /\ MessagesOK(messages, said)
      /\ \A i \in 1 .. Len(messages) : WholeMessage(messages[i])
  BY Zenon DEF CallTypeInv, TurnInv, ErrorsInv, Orderly
<1>00. /\ cont.by \in {"none", "heuristic", "model"} /\ pc \in CallPlaces
       /\ chunks \in 0 .. MaxChunks /\ resp.calls \in CallLists
       /\ workingSet \in 0 .. 50 /\ turn \in 1 .. MaxTurns + 1 /\ setup \in Setups
       /\ todo \in 0 .. MaxIndex + 1 /\ (turn > MaxTurns => pc = "done")
  BY <1>0, Zenon DEF TurnInv
<1>000. MaxChunks \in Nat /\ MaxIndex \in Nat /\ MaxTurns \in Nat \ {0} /\ Summaries \subseteq Nat
        /\ ToolResults \subseteq [tool : STRING, bytes : Nat, error : BOOLEAN]
  BY ModelCallAssumption DEF ModelCallAssumption
<1>1. CASE ManageContext
  <2>1. /\ messages' \in {messages, Prune(messages, Keep)} /\ said' = said /\ cont' = cont
        /\ UNCHANGED <<setup, workingSet, turn, todo>> /\ chunks' = chunks /\ resp' = resp
        /\ pc = "manage" /\ pc' \in {"ask", "summarise", "full"}
    BY <1>1, Zenon DEF ManageContext, Goto, stream
  <2>2. MessagesOK(messages', said')
    <3>1. MessagesOK(Prune(messages, Keep), said)
      BY <1>0, PrunedOK
    <3> QED
      BY <1>0, <2>1, <3>1
  <2>3. pc' \in CallPlaces /\ pc' # "tools" /\ pc # "done"
    BY <2>1 DEF CallPlaces
  <2> QED
    BY <1>0, <1>00, <2>1, <2>2, <2>3, TurnKept
<1>2. CASE SummariseByModel \/ SummariseByHeuristic
  <2>1. /\ Compacted /\ pc = "summarise" /\ cont'.by \in {"none", "heuristic", "model"}
    <3>1. CASE SummariseByModel
      <4> DEFINE e == <<>>
      <4>1. pc = "summarise" /\ Compacted /\ cont' = [by |-> "model", goal |-> 0, loops |-> e, next |-> e]
        BY <3>1, Zenon DEF SummariseByModel
      <4> HIDE DEF e
      <4> QED
        BY <4>1
    <3>2. CASE SummariseByHeuristic
      <4>1. pc = "summarise" /\ Compacted
            /\ cont' = BuildContinuation(CompactedHead(messages, Keep), cont)
        BY <3>2, Zenon DEF SummariseByHeuristic
      <4>2. PICK g, l, n : cont' = [by |-> "heuristic", goal |-> g, loops |-> l, next |-> n]
        BY <4>1, Zenon DEF BuildContinuation
      <4> QED
        BY <4>1, <4>2
    <3> QED
      BY <1>2, <3>1, <3>2
  <2>2. PICK b \in Summaries : messages' = Compact(messages, Keep, b)
    BY <2>1, Zenon DEF Compacted
  <2>3. /\ said' = said /\ UNCHANGED <<setup, workingSet, turn, todo>> /\ chunks' = chunks
        /\ resp' = resp /\ pc' \in {"ask", "full"}
    BY <2>1, Zenon DEF Compacted, Goto
  <2>4. Compactable(messages, Keep)
    BY <2>1, Zenon DEF CallTypeInv, ErrorsInv, RoomInv
  <2>5. MessagesOK(messages', said')
    <3>1. b \in Nat
      BY <1>000
    <3>2. MessagesOK(Compact(messages, Keep, b), said)
      BY <1>0, <2>4, <3>1, CompactedOK
    <3> QED
      BY <2>2, <2>3, <3>2, Zenon
  <2>6. pc' \in CallPlaces /\ pc' # "tools" /\ pc # "done"
    BY <2>1, <2>3 DEF CallPlaces
  <2> QED
    BY <1>0, <1>00, <2>1, <2>3, <2>5, <2>6, TurnKept
<1>3. CASE RetryChat \/ Ask \/ Connect \/ RetryStream \/ StreamFails \/ TextChunk \/ CallChunk
             \/ StreamEnds \/ Finish
  <2>1. messages' = messages /\ said' = said /\ cont' = cont
        /\ UNCHANGED <<setup, workingSet, turn, todo>>
    BY <1>3, Zenon DEF RetryChat, Ask, Connect, RetryStream, StreamFails, TextChunk, CallChunk,
                       StreamEnds, Finish, context
  <2>2. /\ pc \in {"summarise", "ask", "send", "stream", "flush", "flushFailed"}
        /\ \/ pc' = pc
           \/ pc' \in {"send", "stream", "flush", "flushFailed", "answered", "failed"}
    BY <1>3, Zenon DEF RetryChat, Ask, Connect, RetryStream, StreamFails, TextChunk, CallChunk,
                       StreamEnds, Finish, Goto
  <2>3. chunks' \in {0, chunks} \/ (chunks < MaxChunks /\ chunks' = chunks + 1)
    BY <1>3, Zenon DEF RetryChat, Ask, Connect, RetryStream, StreamFails, TextChunk, CallChunk,
                       StreamEnds, Finish, stream
  <2>4. chunks' \in 0 .. MaxChunks
    BY <1>00, <1>000, <2>3
  <2>5. resp'.calls \in CallLists
    <3>1. CASE RetryChat \/ Ask \/ Connect \/ StreamFails \/ StreamEnds \/ Finish
      <4>1. resp' = resp
        BY <3>1, Zenon DEF RetryChat, Ask, Connect, StreamFails, StreamEnds, Finish, stream
      <4> QED
        BY <1>00, <4>1, Zenon
    <3>2. CASE RetryStream
      <4>1. resp' = NoResponse
        BY <3>2, Zenon DEF RetryStream
      <4> QED
        BY <4>1, NoCalls, Zenon
    <3>3. resp = [choices |-> resp.choices, text |-> resp.text, calls |-> resp.calls]
      BY Zenon DEF CallTypeInv, OutputInv
    <3>4. CASE TextChunk
      <4>1. PICK t : resp' = [resp EXCEPT !.choices = TRUE, !.text = t]
        BY <3>4, Zenon DEF TextChunk
      <4>2. resp'.calls = resp.calls
        BY <3>3, <4>1
      <4> QED
        BY <1>00, <4>2, Zenon
    <3>5. CASE CallChunk
      <4> DEFINE c(i) == [Filled(resp.calls, i + 1) EXCEPT ![i + 1] = @ + 1]
      <4>1. PICK i \in 0 .. MaxIndex : resp' = [resp EXCEPT !.choices = TRUE, !.calls = c(i)]
        BY <3>5, Zenon DEF CallChunk
      <4>2. c(i) \in CallLists
        BY <1>00, FilledOK
      <4> HIDE DEF c
      <4>3. resp'.calls = c(i)
        BY <3>3, <4>1
      <4> QED
        BY <4>2, <4>3
    <3> QED
      BY <1>3, <3>1, <3>2, <3>4, <3>5
  <2>6. pc' \in CallPlaces /\ pc' # "tools" /\ pc # "done"
    BY <2>2 DEF CallPlaces
  <2>7. MessagesOK(messages', said') /\ cont'.by \in {"none", "heuristic", "model"}
    BY <1>0, <1>00, <2>1, Zenon
  <2> QED
    BY <1>0, <2>1, <2>4, <2>5, <2>6, <2>7, TurnKept
<1>4. CASE Answer
  <2> DEFINE n == IF resp.text = <<>> THEN 0 ELSE 100
             k == Len(resp.calls)
  <2>1. /\ Store(<<Message("assistant", "", n, FALSE, k, said + 1)>>)
        /\ todo' = k /\ pc' = IF resp.calls = <<>> THEN "done" ELSE "tools"
        /\ chunks' = 0 /\ resp' = NoResponse /\ setup' = setup /\ cont' = cont
        /\ workingSet' = workingSet /\ turn' = turn /\ pc = "answered"
    BY <1>4, Zenon DEF Answer, NewCall, Goto
  <2>2. n \in Nat /\ "assistant" \in Roles
    BY DEF Roles
  <2>3. k \in 0 .. MaxIndex + 1 /\ (resp.calls # <<>> => k > 0)
    BY <1>00, <1>000 DEF CallLists
  <2> HIDE DEF n, k
  <2>4. MessagesOK(messages', said')
    BY <1>0, <2>1, <2>2, TypesStored
  <2>5. /\ pc' \in CallPlaces /\ pc' \in {"done", "tools"} /\ (pc' = "tools" => todo' > 0)
        /\ todo' \in 0 .. MaxIndex + 1
    BY <2>1, <2>3 DEF CallPlaces
  <2>6. ~(turn' > MaxTurns) /\ chunks' \in 0 .. MaxChunks /\ resp'.calls \in CallLists
    <3>1. ~(turn' > MaxTurns)
      <4>1. turn' = turn /\ pc = "answered"
        BY <2>1, Zenon
      <4> QED
        BY <1>00, <4>1
    <3>2. chunks' \in 0 .. MaxChunks
      <4>1. chunks' = 0
        BY <2>1, Zenon
      <4> QED
        BY <1>000, <4>1
    <3>3. resp'.calls \in CallLists
      BY <2>1, NoCalls, Zenon
    <3> QED
      BY <3>1, <3>2, <3>3
  <2>7. MessagesOK(messages, said)'
    BY <2>4 DEF MessagesOK, MessageOK, Roles
  <2>8. /\ setup' \in Setups /\ cont'.by \in {"none", "heuristic", "model"}
        /\ workingSet' \in 0 .. 50 /\ turn' \in 1 .. MaxTurns + 1
    BY <1>00, <2>1, Zenon
  <2> QED
    BY <2>5, <2>6, <2>7, <2>8, Zenon DEF TurnInv, CallPlaces, CallLists
<1>5. CASE ExecuteTool
  <2>1. /\ \E r \in ToolResults :
             Store(<<Message("tool", r.tool, TruncateToolOutput(r.tool, r.bytes), r.error, 0, said + 1)>>)
        /\ workingSet' = Min({workingSet + 1, 50}) /\ todo' = todo - 1 /\ pc = "tools"
        /\ IF todo > 1 THEN UNCHANGED <<pc, turn>>
           ELSE turn' = turn + 1 /\ pc' = IF turn < MaxTurns THEN "manage" ELSE "done"
        /\ setup' = setup /\ cont' = cont /\ chunks' = chunks /\ resp' = resp
    BY <1>5, Zenon DEF ExecuteTool, Goto, stream
  <2>2. MessagesOK(messages', said')
    <3>1. PICK r \in ToolResults :
            Store(<<Message("tool", r.tool, TruncateToolOutput(r.tool, r.bytes), r.error, 0, said + 1)>>)
      BY <2>1
    <3>2. r.bytes \in Nat /\ "tool" \in Roles
      BY <1>000 DEF Roles
    <3>3. TruncateToolOutput(r.tool, r.bytes) \in Nat
      <4>1. OutputBudget(r.tool) \in Nat /\ OutputBudget(r.tool) >= 512
        BY BudgetIs
      <4> QED
        BY <3>2, <4>1, CutLength DEF TruncateToolOutput
    <3> QED
      BY <1>0, <3>1, <3>2, <3>3, TypesStored
  <2>3. workingSet' \in 0 .. 50
    <3>1. {workingSet + 1, 50} \subseteq 1 .. 51 /\ {workingSet + 1, 50} # {}
      BY <1>00
    <3>2. \A y \in {workingSet + 1, 50} : Min({workingSet + 1, 50}) <= y
      <4>1. \E x \in {workingSet + 1, 50} : \A y \in {workingSet + 1, 50} : x <= y
        <5>1. CASE workingSet + 1 <= 50
          BY <1>00, <5>1
        <5>2. CASE ~(workingSet + 1 <= 50)
          BY <1>00, <5>2
        <5> QED
          BY <5>1, <5>2
      <4> QED
        BY <4>1, Zenon DEF Min
    <3>3. Min({workingSet + 1, 50}) \in 1 .. 51
      BY <3>1, Extremes
    <3> QED
      BY <2>1, <3>2, <3>3
  <2>4. /\ todo > 0 /\ turn <= MaxTurns
    BY <1>00, <1>000, <2>1, <1>0 DEF TurnInv
  <2>5. /\ pc' \in {"tools", "manage", "done"} /\ turn' \in 1 .. MaxTurns + 1
        /\ (turn' > MaxTurns => pc' = "done") /\ todo' \in 0 .. MaxIndex + 1
        /\ (pc' = "tools" => todo' > 0)
    <3>1. CASE todo > 1
      BY <1>00, <1>000, <2>1, <2>4, <3>1
    <3>2. CASE ~(todo > 1)
      BY <1>00, <1>000, <2>1, <2>4, <3>2
    <3> QED
      BY <3>1, <3>2
  <2>6. pc' \in CallPlaces
    BY <2>5 DEF CallPlaces
  <2>7. MessagesOK(messages, said)'
    BY <2>2 DEF MessagesOK, MessageOK, Roles
  <2>8. /\ setup' \in Setups /\ cont'.by \in {"none", "heuristic", "model"}
        /\ chunks' \in 0 .. MaxChunks /\ resp'.calls \in CallLists
    BY <1>00, <2>1, Zenon
  <2> QED
    BY <2>3, <2>5, <2>6, <2>7, <2>8, Zenon DEF TurnInv, CallPlaces, CallLists
<1>6. CASE UNCHANGED callVars
  <2>1. UNCHANGED <<setup, messages, said, cont, workingSet, turn, pc, chunks, resp, todo>>
    BY <1>6, Zenon DEF callVars, context, stream
  <2>2. MessagesOK(messages, said)'
    BY <1>0, <2>1, Zenon DEF MessagesOK, MessageOK, Roles
  <2> QED
    BY <1>0, <2>1, <2>2, Zenon DEF TurnInv, CallPlaces, CallLists
<1> QED
  BY <1>1, <1>2, <1>3, <1>4, <1>5, <1>6, Zenon DEF CallNext

\* Every variable of a call holds what its comment says: the messages have roles,
\* lengths and the numbers they were stored with, no prompt has more than its
\* turns, and no error is owed that was not stored.
THEOREM CallTyped == CallSpec => []CallTypeOK
<1>1. CallTypeInv => CallTypeOK
  <2> SUFFICES ASSUME CallTypeInv PROVE CallTypeOK
    OBVIOUS
  <2>1. ErrorsInv /\ OutputInv /\ TurnInv
    BY DEF CallTypeInv
  <2>2. DOMAIN messages = 1 .. Len(messages)
    BY <2>1, IsSeqFacts, Zenon DEF ErrorsInv, RoomInv
  <2>3. said \in Nat /\ owed \subseteq 1 .. said /\ attempt \in 0 .. MaxAttempts - 1
    BY <2>1, Zenon DEF ErrorsInv, OutputInv
  <2>4. \A i \in DOMAIN messages : /\ messages[i].role \in Roles
                                   /\ messages[i].bytes \in Nat /\ messages[i].id \in 0 .. said
    BY <2>1, <2>2, Zenon DEF TurnInv, MessagesOK, MessageOK
  <2> QED
    BY <2>1, <2>3, <2>4, Zenon DEF TurnInv, CallTypeOK, Roles, CallPlaces
<1>2. CallTypeInv /\ [CallNext]_callVars => CallTypeInv'
  BY ErrorsStep, OutputStep, TurnStep DEF CallTypeInv
<1> QED
  BY <1>1, <1>2, CallTypeInit, PTL DEF CallSpec

-----------------------------------------------------------------------------
(* Texts and the prompt that is composed of them (Templates)                  *)

\* The assumptions on texts, one by one.
LEMMA TextFacts ==
  /\ AgentMD \in Files /\ ClaudeMD \in Files /\ AgentMD # ClaudeMD
  /\ Absent \notin Texts /\ <<>> \in Texts /\ Scaffold \in Texts /\ Scaffold # <<>>
  /\ Walk \in Seq(Files) /\ ToSet(Walk) = Files
  /\ \A s \in Sessions : s \in Marks
<1>1. AgentMD \in Files /\ ClaudeMD \in Files
  BY DEF Files
<1>2. AgentMD # ClaudeMD
  BY DEF AgentMD, ClaudeMD, Name
<1>3. Absent \notin Texts /\ Walk \in Seq(Files) /\ ToSet(Walk) = Files
  BY TemplatesAssumption DEF TemplatesAssumption, ToSet, Range
<1>4. <<>> \in Texts
  BY DEF Texts
<1>5. Scaffold \in Texts /\ Scaffold # <<>>
  <2>1. Scaffold \in Seq(Range(Scaffold)) /\ Scaffold # <<>>
    BY DEF Scaffold, Range
  <2>2. Range(Scaffold) \subseteq Marks
    BY DEF Marks
  <2> HIDE DEF Marks
  <2>3. \A x : x \in Seq(Range(Scaffold)) => x \in Seq(Marks)
    BY <2>2
  <2> QED
    BY <2>1, <2>3 DEF Texts
<1>6. \A s \in Sessions : s \in Marks
  BY DEF Marks
<1> QED
  BY <1>1, <1>2, <1>3, <1>4, <1>5, <1>6

\* A sequence is a prefix of itself with more behind it, and stays one.
LEMMA PrefixOfMore ==
  ASSUME NEW T, NEW a \in Seq(T), NEW b \in Seq(T)
  PROVE  IsPrefix(a, a \o b)
<1>1. /\ a \o b \in Seq(T) /\ Len(a \o b) = Len(a) + Len(b)
      /\ Len(a) \in Nat /\ Len(b) \in Nat
      /\ \A i \in 1 .. Len(a) : (a \o b)[i] = a[i]
  OBVIOUS
<1> DEFINE c == a \o b
           p == SubSeq(c, 1, Len(a))
           q == SubSeq(a, 1, Len(a))
<1> HIDE DEF c
<1>2. p \in Seq(T) /\ Len(p) = Len(a) /\ \A i \in 1 .. Len(a) : p[i] = c[i]
  BY <1>1 DEF c
<1>3. q \in Seq(T) /\ Len(q) = Len(a) /\ \A i \in 1 .. Len(a) : q[i] = a[i]
  BY <1>1
<1> HIDE DEF p, q
<1>4. q = p
  <2>1. \A i \in 1 .. Len(q) : q[i] = p[i]
    BY <1>1, <1>2, <1>3 DEF c
  <2> QED
    BY <1>2, <1>3, <2>1, SameSequence
<1>5. Len(a) <= Len(c)
  BY <1>1 DEF c
<1> QED
  BY <1>4, <1>5 DEF IsPrefix, c, p, q

\* The other way round.
LEMMA RestOfPrefix ==
  ASSUME NEW T, NEW a \in Seq(T), NEW t \in Seq(T), IsPrefix(a, t)
  PROVE  \E b \in Seq(T) : t = a \o b
<1>1. Len(a) <= Len(t) /\ SubSeq(a, 1, Len(a)) = SubSeq(t, 1, Len(a)) /\ Len(a) \in Nat
      /\ Len(t) \in Nat
  BY DEF IsPrefix
<1>2. SubSeq(a, 1, Len(a)) = a
  <2> DEFINE q == SubSeq(a, 1, Len(a))
  <2>1. q \in Seq(T) /\ Len(q) = Len(a) /\ \A i \in 1 .. Len(q) : q[i] = a[i]
    BY <1>1
  <2> HIDE DEF q
  <2>2. q = a
    BY <2>1, SameSequence
  <2> QED
    BY <2>2 DEF q
<1>3. Len(a) \in 0 .. Len(t)
  BY <1>1
<1>4. /\ SubSeq(t, Len(a) + 1, Len(t)) \in Seq(T)
      /\ SubSeq(t, 1, Len(a)) \o SubSeq(t, Len(a) + 1, Len(t)) = t
  BY <1>3, SplitAt
<1>5. t = a \o SubSeq(t, Len(a) + 1, Len(t))
  BY <1>1, <1>2, <1>4, Zenon
<1> QED
  BY <1>4, <1>5

LEMMA PrefixGrows ==
  ASSUME NEW T, NEW a \in Seq(T), NEW t \in Seq(T), NEW x \in T, IsPrefix(a, t)
  PROVE  IsPrefix(a, Append(t, x))
<1>1. PICK b \in Seq(T) : t = a \o b
  BY RestOfPrefix
<1>2. Append(a \o b, x) = a \o Append(b, x)
  <2>1. AppendsLast(a, b, x)
    BY AppendToBoth
  <2> QED
    BY <2>1, Zenon DEF AppendsLast
<1>3. Append(b, x) \in Seq(T)
  OBVIOUS
<1>4. IsPrefix(a, a \o Append(b, x))
  BY <1>3, PrefixOfMore
<1> QED
  BY <1>1, <1>2, <1>4, Zenon

\* The concatenation of one sequence or more begins with the first.
LEMMA FlatBegins ==
  ASSUME NEW T, NEW ss \in Seq(Seq(T)), ss # <<>>
  PROVE  \E r \in Seq(T) : FlattenSeq(ss) = ss[1] \o r
<1> DEFINE U == Seq(T)
           Starts(x) == \E r \in U : FlattenSeq(x) = x[1] \o r
           P == {x \in Seq(U) : x # <<>> => Starts(x)}
<1>1. <<>> \in P
  OBVIOUS
<1>2. ASSUME NEW x \in Seq(U), NEW t \in U, x \in P PROVE Append(x, t) \in P
  <2>1. FlattenSeq(Append(x, t)) = FlattenSeq(x) \o t
    BY FlatAppend
  <2>2. CASE x = <<>>
    <3>1. Append(x, t)[1] = t
      BY <2>2
    <3>2. FlattenSeq(x) = <<>>
      BY <2>2, FlatEmpty
    <3> DEFINE e == <<>>
    <3>3. e \o t = t /\ t \o e = t /\ e \in U
      OBVIOUS
    <3> HIDE DEF e, U
    <3>4. FlattenSeq(Append(x, t)) = Append(x, t)[1] \o e
      BY <2>1, <3>1, <3>2, <3>3, Zenon DEF e
    <3>5. Starts(Append(x, t))
      BY <3>3, <3>4
    <3>6. Append(x, t) \in Seq(U)
      OBVIOUS
    <3> QED
      BY <3>5, <3>6
  <2>3. CASE x # <<>>
    <3>1. PICK r \in U : FlattenSeq(x) = x[1] \o r
      BY <1>2, <2>3
    <3>2. x[1] \in U /\ Append(x, t)[1] = x[1]
      BY <2>3
    <3>3. r \o t \in U /\ (x[1] \o r) \o t = x[1] \o (r \o t)
      <4> DEFINE a == x[1]
      <4>1. a \in U
        BY <3>2
      <4> HIDE DEF a
      <4>2. Associates(a, r, t)
        BY <4>1, Association
      <4>3. r \o t \in U
        OBVIOUS
      <4> QED
        BY <4>2, <4>3, Zenon DEF Associates, a
    <3>4. FlattenSeq(Append(x, t)) = Append(x, t)[1] \o (r \o t)
      BY <2>1, <3>1, <3>2, <3>3, Zenon
    <3>5. Append(x, t) \in Seq(U)
      OBVIOUS
    <3> HIDE DEF U
    <3>6. Starts(Append(x, t))
      BY <3>3, <3>4
    <3> QED
      BY <3>5, <3>6
  <2> QED
    BY <2>2, <2>3
<1> HIDE DEF P
<1>3. Seq(U) \subseteq P
  <2> HIDE DEF U
  <2> QED
    BY <1>1, <1>2, Growing
<1> QED
  BY <1>3 DEF P

\* A text with its variables replaced is a text of the same length.
LEMMA ExpandedIs ==
  ASSUME NEW s \in Sessions, NEW a \in Texts
  PROVE  /\ Expanded(s, a) \in Texts /\ Len(Expanded(s, a)) = Len(a)
         /\ DOMAIN a = 1 .. Len(a) /\ Len(a) \in Nat
         /\ \A i \in 1 .. Len(a) : Expanded(s, a)[i] = IF a[i] = Var THEN s ELSE a[i]
         /\ a # <<>> => Expanded(s, a) # <<>>
<1>1. DOMAIN a = 1 .. Len(a) /\ Len(a) \in Nat /\ \A i \in 1 .. Len(a) : a[i] \in Marks
  BY DEF Texts
<1>2. s \in Marks
  BY TextFacts
<1> DEFINE x == Expanded(s, a)
<1>3. x = [i \in 1 .. Len(a) |-> IF a[i] = Var THEN s ELSE a[i]]
  BY <1>1 DEF Expanded
<1> HIDE DEF x
<1>4. x \in [1 .. Len(a) -> Marks]
  BY <1>1, <1>2, <1>3
<1>5. x \in Texts /\ Len(x) = Len(a)
  BY <1>1, <1>4 DEF Texts
<1>6. a # <<>> => x # <<>>
  <2>1. a # <<>> => Len(a) # 0
    BY DEF Texts
  <2> QED
    BY <1>5, <2>1
<1>7. \A i \in 1 .. Len(a) : x[i] = IF a[i] = Var THEN s ELSE a[i]
  BY <1>3
<1> QED
  BY <1>1, <1>5, <1>6, <1>7 DEF x

LEMMA ExpandedConcat ==
  ASSUME NEW s \in Sessions, NEW a \in Texts, NEW b \in Texts
  PROVE  a \o b \in Texts /\ Expanded(s, a \o b) = Expanded(s, a) \o Expanded(s, b)
<1> DEFINE c == a \o b
           x == Expanded(s, a)
           y == Expanded(s, b)
           z == Expanded(s, c)
<1>1. /\ c \in Texts /\ Len(c) = Len(a) + Len(b)
      /\ \A i \in 1 .. Len(a) + Len(b) : c[i] = IF i <= Len(a) THEN a[i] ELSE b[i - Len(a)]
  BY ConcatProperties DEF Texts
<1> HIDE DEF c
<1>2. /\ x \in Texts /\ Len(x) = Len(a) /\ Len(a) \in Nat
      /\ \A i \in 1 .. Len(a) : x[i] = IF a[i] = Var THEN s ELSE a[i]
  BY ExpandedIs
<1>3. /\ y \in Texts /\ Len(y) = Len(b) /\ Len(b) \in Nat
      /\ \A i \in 1 .. Len(b) : y[i] = IF b[i] = Var THEN s ELSE b[i]
  BY ExpandedIs
<1>4. /\ z \in Texts /\ Len(z) = Len(c)
      /\ \A i \in 1 .. Len(c) : z[i] = IF c[i] = Var THEN s ELSE c[i]
  BY <1>1, ExpandedIs
<1> HIDE DEF x, y, z
<1> DEFINE w == x \o y
<1>5. /\ w \in Texts /\ Len(w) = Len(x) + Len(y)
      /\ \A i \in 1 .. Len(x) + Len(y) : w[i] = IF i <= Len(x) THEN x[i] ELSE y[i - Len(x)]
  <2>1. x \in Seq(Marks) /\ y \in Seq(Marks)
    BY <1>2, <1>3 DEF Texts
  <2> QED
    BY <2>1, ConcatProperties DEF Texts
<1> HIDE DEF w
<1>6. ASSUME NEW i \in 1 .. Len(z) PROVE z[i] = w[i]
  <2>1. i \in 1 .. Len(a) + Len(b)
    BY <1>1, <1>4
  <2>2. CASE i <= Len(a)
    BY <1>1, <1>2, <1>3, <1>4, <1>5, <2>1, <2>2
  <2>3. CASE ~(i <= Len(a))
    <3>1. i - Len(a) \in 1 .. Len(b)
      BY <1>2, <1>3, <2>1, <2>3
    <3> QED
      BY <1>1, <1>2, <1>3, <1>4, <1>5, <2>1, <2>3, <3>1
  <2> QED
    BY <2>2, <2>3
<1>7. z = w
  BY <1>1, <1>2, <1>3, <1>4, <1>5, <1>6, SameSequence DEF Texts
<1> QED
  BY <1>1, <1>7 DEF c, w, x, y, z

\* The workspace of a session whose configuration names files to compose.
Workspace(s) ==
  /\ sess[s].ws \in [Files -> Texts \cup {Absent}]
  /\ sess[s].conf.compose \in Seq(Files)

PartTexts(s) == [i \in DOMAIN Parts(s) |-> sess[s].ws[Parts(s)[i]]]

LEMMA PartsAre ==
  ASSUME NEW s \in Sessions, Workspace(s)
  PROVE  /\ Parts(s) \in Seq(Present(s)) /\ Present(s) \subseteq Files
         /\ PartTexts(s) \in Seq(Texts) /\ Len(PartTexts(s)) = Len(Parts(s))
         /\ \A i \in 1 .. Len(Parts(s)) : PartTexts(s)[i] = sess[s].ws[Parts(s)[i]]
         /\ AgentMD \in Present(s) => Parts(s) # <<>> /\ Parts(s)[1] = AgentMD
<1> DEFINE one == <<AgentMD>>
           rest == sess[s].conf.compose
           P == Present(s)
           ps == Parts(s)
           tx == PartTexts(s)
<1>1. one \in Seq(Files) /\ rest \in Seq(Files) /\ one \o rest \in Seq(Files)
  BY TextFacts DEF Workspace
<1>2. P \subseteq Files /\ \A p \in P : sess[s].ws[p] \in Texts
  BY DEF Workspace, Present
<1>3. ps \in Seq(P)
  <2>1. Only(one \o rest, P) \in Seq(Files \cap P)
    BY <1>1, OnlyElements
  <2>2. Files \cap P = P
    BY <1>2
  <2>3. ps = Only(one \o rest, P)
    BY DEF Parts
  <2> QED
    BY <2>1, <2>2, <2>3, Zenon
<1>4. AgentMD \in P => ps # <<>> /\ ps[1] = AgentMD
  <2> SUFFICES ASSUME AgentMD \in P PROVE ps # <<>> /\ ps[1] = AgentMD
    OBVIOUS
  <2>1. ps = Only(one, P) \o Only(rest, P)
    <3>1. ps = Only(one \o rest, P)
      BY DEF Parts
    <3> HIDE DEF one, rest, P, ps
    <3> QED
      BY <1>1, <3>1, OnlyConcat
  <2>2. Only(one, P) = one
    <3> HIDE DEF P
    <3>1. Only(<<AgentMD>>, P) = <<AgentMD>>
      BY TextFacts, OnlyOne
    <3> QED
      BY <3>1
  <2>3. Only(rest, P) \in Seq(Files \cap P)
    BY <1>1, OnlyElements
  <2> DEFINE r == Only(rest, P)
  <2> HIDE DEF r, P, ps
  <2>4. one \o r # <<>> /\ (one \o r)[1] = AgentMD
    BY <2>3 DEF r
  <2> QED
    BY <2>1, <2>2, <2>4, Zenon DEF r
<1> HIDE DEF P, ps, tx
<1>5. DOMAIN ps = 1 .. Len(ps) /\ Len(ps) \in Nat /\ \A i \in 1 .. Len(ps) : ps[i] \in P
  BY <1>3
<1>6. tx = [i \in 1 .. Len(ps) |-> sess[s].ws[ps[i]]]
  BY <1>5 DEF PartTexts, tx, ps
<1>7. tx \in [1 .. Len(ps) -> Texts]
  BY <1>2, <1>5, <1>6
<1>8. tx \in Seq(Texts) /\ Len(tx) = Len(ps)
  BY <1>5, <1>7
<1> QED
  BY <1>2, <1>3, <1>4, <1>6, <1>8 DEF P, ps, tx

\* The prompt begins with the instructions, and is empty only if all it is
\* composed of is.
LEMMA PromptIs ==
  ASSUME NEW s \in Sessions, Workspace(s)
  PROVE  /\ ComposePrompt(s) \in Texts
         /\ AgentMD \in Present(s) =>
              IsPrefix(Expanded(s, sess[s].ws[AgentMD]), ComposePrompt(s))
         /\ AgentMD \in Present(s) /\ sess[s].ws[AgentMD] # <<>> => ~NothingToSay(s)
         /\ (\A p \in Files : sess[s].ws[p] # <<>>) /\ ~NothingToSay(s)
              => ComposePrompt(s) # <<>>
<1> DEFINE ps == Parts(s)
           tx == PartTexts(s)
           flat == FlattenSeq(tx)
<1>1. /\ ps \in Seq(Present(s)) /\ Present(s) \subseteq Files
      /\ tx \in Seq(Texts) /\ Len(tx) = Len(ps)
      /\ \A i \in 1 .. Len(ps) : tx[i] = sess[s].ws[ps[i]]
      /\ AgentMD \in Present(s) => ps # <<>> /\ ps[1] = AgentMD
  BY PartsAre
<1>2. ComposePrompt(s) = Expanded(s, flat)
  BY Zenon DEF ComposePrompt, PartTexts
<1> HIDE DEF ps, tx
<1>3. flat \in Texts
  BY <1>1, FlatType DEF Texts
<1> HIDE DEF flat
<1>4. ComposePrompt(s) \in Texts /\ (flat # <<>> => ComposePrompt(s) # <<>>)
  BY <1>2, <1>3, ExpandedIs
<1>5. ASSUME ps # <<>>
      PROVE  /\ tx[1] \in Texts /\ tx[1] = sess[s].ws[ps[1]] /\ ps[1] \in Files
             /\ \E r \in Texts : flat = tx[1] \o r
  <2>1. Len(ps) \in Nat /\ Len(ps) # 0
    BY <1>1, <1>5
  <2>2. tx # <<>> /\ 1 \in 1 .. Len(ps)
    BY <1>1, <2>1
  <2>3. tx[1] \in Texts /\ ps[1] \in Files
    BY <1>1, <2>2
  <2>4. \E r \in Seq(Marks) : FlattenSeq(tx) = tx[1] \o r
    BY <1>1, <2>2, FlatBegins DEF Texts
  <2> QED
    BY <1>1, <2>2, <2>3, <2>4 DEF Texts, flat
<1>6. ASSUME ps # <<>>, tx[1] # <<>> PROVE flat # <<>>
  <2>1. PICK r \in Texts : flat = tx[1] \o r
    BY <1>5, <1>6
  <2>2. tx[1] \in Texts
    BY <1>5, <1>6
  <2> QED
    BY <1>6, <2>1, <2>2 DEF Texts
<1>7. ASSUME AgentMD \in Present(s)
      PROVE  IsPrefix(Expanded(s, sess[s].ws[AgentMD]), ComposePrompt(s))
  <2>1. ps # <<>> /\ ps[1] = AgentMD
    BY <1>1, <1>7
  <2>2. PICK r \in Texts : flat = tx[1] \o r
    BY <1>5, <2>1
  <2>3. tx[1] \in Texts /\ tx[1] = sess[s].ws[AgentMD]
    BY <1>5, <2>1
  <2>4. Expanded(s, flat) = Expanded(s, tx[1]) \o Expanded(s, r)
    BY <2>2, <2>3, ExpandedConcat
  <2>5. Expanded(s, tx[1]) \in Texts /\ Expanded(s, r) \in Texts
    BY <2>3, ExpandedIs
  <2>6. IsPrefix(Expanded(s, tx[1]), Expanded(s, tx[1]) \o Expanded(s, r))
    BY <2>5, PrefixOfMore DEF Texts
  <2> QED
    BY <1>2, <2>3, <2>4, <2>6, Zenon
<1>8. ASSUME AgentMD \in Present(s), sess[s].ws[AgentMD] # <<>> PROVE ~NothingToSay(s)
  <2>1. ps # <<>> /\ ps[1] = AgentMD
    BY <1>1, <1>8
  <2>2. tx[1] # <<>>
    BY <1>5, <1>8, <2>1
  <2>3. ComposePrompt(s) # <<>>
    BY <1>4, <1>6, <2>1, <2>2
  <2> QED
    BY <2>3, Zenon DEF NothingToSay
<1>9. ASSUME \A p \in Files : sess[s].ws[p] # <<>>, ~NothingToSay(s)
      PROVE  ComposePrompt(s) # <<>>
  <2>1. CASE Len(ps) <= 1
    BY <1>9, <2>1, Zenon DEF NothingToSay, ps
  <2>2. CASE ~(Len(ps) <= 1)
    <3>1. ps # <<>>
      BY <2>2
    <3>2. tx[1] # <<>>
      BY <1>5, <1>9, <3>1
    <3> QED
      BY <1>4, <1>6, <3>1, <3>2
  <2> QED
    BY <2>1, <2>2
<1> QED
  BY <1>4, <1>7, <1>8, <1>9

-----------------------------------------------------------------------------
(* The library: what commands leave behind (Templates, Library)               *)

\* The configurations agents of the scenarios may have.
Contexts == {sc.config.context : sc \in Scenarios}
Known    == {cf \in Configurations : cf.context \in Contexts}

LibraryInv ==
  /\ scenario \in Scenarios
  /\ config \in Known \cup {Absent}
  /\ files \in [Files -> Texts \cup {Absent}]
  /\ DOMAIN cmds = Commands
  /\ \A c \in Commands : DOMAIN cmds[c] = {"kind", "skill", "pc", "read"}
  /\ \A c \in Commands : cmds[c].pc = "save config" => cmds[c].read \in Known

\* A command gives a file a text, removes it or leaves it alone.
NoneEmptied == \A p \in Files : files'[p] # <<>> \/ files'[p] = files[p]

LEMMA LibraryFacts ==
  /\ \A sc \in Scenarios : sc.config \in Known
  /\ \A cf \in Known, ks \in SUBSET Skills : [cf EXCEPT !.skills = ks] \in Known
  /\ Absent \notin Known
  /\ <<>> # Absent
<1>1. \A sc \in Scenarios : sc.config \in Known
  BY LibraryAssumption DEF LibraryAssumption, Known, Contexts
<1>2. ASSUME NEW cf \in Known, NEW ks \in SUBSET Skills PROVE [cf EXCEPT !.skills = ks] \in Known
  <2> DEFINE new == [cf EXCEPT !.skills = ks]
  <2>1. cf \in Configurations /\ cf.context \in Contexts
    BY DEF Known
  <2>2. new \in Configurations /\ new.context = cf.context
    BY <2>1 DEF Configurations
  <2> HIDE DEF new
  <2>3. new \in Known
    BY <2>1, <2>2 DEF Known
  <2> QED
    BY <2>3 DEF new
<1>3. Absent \notin Known
  BY TemplatesAssumption DEF TemplatesAssumption, Known
<1>4. <<>> # Absent
  BY TextFacts
<1> QED
  BY <1>1, <1>2, <1>3, <1>4

LEMMA LibraryInitial == LibraryInit => LibraryInv /\ \A p \in Files : files[p] # <<>>
<1> SUFFICES ASSUME LibraryInit PROVE LibraryInv /\ \A p \in Files : files[p] # <<>>
  OBVIOUS
<1>1. scenario \in Scenarios /\ config = scenario.config /\ files = InitialFiles
  BY DEF LibraryInit
<1>2. config \in Known
  BY <1>1, LibraryFacts
<1>3. files \in [Files -> (Texts \ {<<>>}) \cup {Absent}]
  BY <1>1, TemplatesAssumption DEF TemplatesAssumption
<1>4. \A p \in Files : files[p] # <<>>
  BY <1>3, LibraryFacts
<1>5. cmds = [c \in Commands |->
                [kind |-> "none", skill |-> Absent, pc |-> "unborn", read |-> Absent]]
  BY DEF LibraryInit
<1>6. /\ DOMAIN cmds = Commands
      /\ \A c \in Commands : DOMAIN cmds[c] = {"kind", "skill", "pc", "read"}
      /\ \A c \in Commands : cmds[c].pc = "unborn"
  BY <1>5
<1> QED
  BY <1>1, <1>2, <1>3, <1>4, <1>6 DEF LibraryInv

\* What a command remembers is a configuration if it is about to save one.
LEMMA TakesFine ==
  ASSUME LibraryInv, NEW c \in Commands, NEW kind, NEW k, NEW step, NEW read,
         Takes(c, kind, k, step, read), step = "save config" => read \in Known
  PROVE  /\ DOMAIN cmds' = Commands
         /\ \A d \in Commands : DOMAIN cmds'[d] = {"kind", "skill", "pc", "read"}
         /\ \A d \in Commands : cmds'[d].pc = "save config" => cmds'[d].read \in Known
<1> DEFINE new == [kind |-> kind, skill |-> k, pc |-> step, read |-> read]
<1>1. DOMAIN new = {"kind", "skill", "pc", "read"} /\ new.pc = step /\ new.read = read
  OBVIOUS
<1> HIDE DEF new
<1>2. DOMAIN cmds = Commands
  BY DEF LibraryInv
<1>3. cmds' = [cmds EXCEPT ![c] = new]
  BY Zenon DEF Takes, new
<1>4. /\ DOMAIN cmds' = Commands /\ cmds'[c] = new
      /\ \A d \in Commands : d # c => cmds'[d] = cmds[d]
  BY <1>2, <1>3
<1>5. ASSUME NEW d \in Commands
      PROVE  /\ DOMAIN cmds'[d] = {"kind", "skill", "pc", "read"}
             /\ cmds'[d].pc = "save config" => cmds'[d].read \in Known
  BY <1>1, <1>4, Zenon DEF LibraryInv
<1> QED
  BY <1>4, <1>5, Zenon

LEMMA GoesFine ==
  ASSUME LibraryInv, NEW c \in Commands, NEW step, Goes(c, step), step # "save config"
  PROVE  /\ DOMAIN cmds' = Commands
         /\ \A d \in Commands : DOMAIN cmds'[d] = {"kind", "skill", "pc", "read"}
         /\ \A d \in Commands : cmds'[d].pc = "save config" => cmds'[d].read \in Known
<1>1. DOMAIN cmds = Commands /\ DOMAIN cmds[c] = {"kind", "skill", "pc", "read"}
  BY DEF LibraryInv
<1>2. /\ DOMAIN cmds' = Commands
      /\ DOMAIN cmds'[c] = DOMAIN cmds[c] /\ cmds'[c].pc = step
      /\ \A d \in Commands \ {c} : cmds'[d] = cmds[d]
  BY <1>1 DEF Goes
<1> QED
  BY <1>1, <1>2 DEF LibraryInv

\* Where a command leaves the agent alone, only what it remembers matters.
LEMMA AgentAlone ==
  ASSUME LibraryInv, UNCHANGED <<config, files, scenario>>,
         DOMAIN cmds' = Commands,
         \A d \in Commands : DOMAIN cmds'[d] = {"kind", "skill", "pc", "read"},
         \A d \in Commands : cmds'[d].pc = "save config" => cmds'[d].read \in Known
  PROVE  LibraryInv' /\ NoneEmptied
  BY DEF LibraryInv, NoneEmptied

\* The text of a file is replaced.
LEMMA FileTaken ==
  ASSUME LibraryInv, NEW p \in Files, files' = [files EXCEPT ![p] = Scaffold]
  PROVE  files' \in [Files -> Texts \cup {Absent}] /\ NoneEmptied
  BY TextFacts DEF LibraryInv, NoneEmptied

LEMMA CommandKeeps ==
  ASSUME LibraryInv, NEW c \in Commands, CommandStep(c) \/ RemoveSessions(c)
  PROVE  LibraryInv' /\ NoneEmptied
<1>1. CASE CreateAgent(c)
  BY <1>1, TakesFine, AgentAlone DEF CreateAgent
<1>2. CASE AddAgent(c)
  <2>1. \E step \in {"write config", "failed"} : Takes(c, "agent add", Absent, step, Absent)
    BY <1>2 DEF AddAgent
  <2>2. /\ DOMAIN cmds' = Commands
        /\ \A d \in Commands : DOMAIN cmds'[d] = {"kind", "skill", "pc", "read"}
        /\ \A d \in Commands : cmds'[d].pc = "save config" => cmds'[d].read \in Known
    BY <2>1, TakesFine
  <2>3. /\ files' = files \/ files' = [files EXCEPT ![AgentMD] = Scaffold]
        /\ config' = config /\ scenario' = scenario
    BY <1>2 DEF AddAgent
  <2>4. files' \in [Files -> Texts \cup {Absent}] /\ NoneEmptied
    BY <2>3, FileTaken, TextFacts DEF LibraryInv, NoneEmptied
  <2> QED
    BY <2>2, <2>3, <2>4 DEF LibraryInv
<1>3. CASE WriteConfig(c)
  <2>1. \E step \in {"install skills", "write agent.md", "failed"} : Goes(c, step)
    BY <1>3 DEF WriteConfig
  <2>2. /\ DOMAIN cmds' = Commands
        /\ \A d \in Commands : DOMAIN cmds'[d] = {"kind", "skill", "pc", "read"}
        /\ \A d \in Commands : cmds'[d].pc = "save config" => cmds'[d].read \in Known
    BY <2>1, GoesFine
  <2>3. files' = files /\ scenario' = scenario /\ config' \in {config, scenario.config}
    BY <1>3 DEF WriteConfig
  <2>4. config' \in Known \cup {Absent}
    BY <2>3, LibraryFacts DEF LibraryInv
  <2> QED
    BY <2>2, <2>3, <2>4 DEF LibraryInv, NoneEmptied
<1>4. CASE WriteAgentMD(c)
  <2>1. \E step \in {"done", "failed"} : Goes(c, step)
    BY <1>4 DEF WriteAgentMD
  <2>2. /\ DOMAIN cmds' = Commands
        /\ \A d \in Commands : DOMAIN cmds'[d] = {"kind", "skill", "pc", "read"}
        /\ \A d \in Commands : cmds'[d].pc = "save config" => cmds'[d].read \in Known
    BY <2>1, GoesFine
  <2>3. /\ files' = files \/ files' = [files EXCEPT ![AgentMD] = Scaffold]
        /\ config' = config /\ scenario' = scenario
    BY <1>4 DEF WriteAgentMD
  <2>4. files' \in [Files -> Texts \cup {Absent}] /\ NoneEmptied
    BY <2>3, FileTaken, TextFacts DEF LibraryInv, NoneEmptied
  <2> QED
    BY <2>2, <2>3, <2>4 DEF LibraryInv
<1>5. CASE InstallSkills(c)
  <2>1. \E step \in {"done", "failed"} : Goes(c, step)
    BY <1>5 DEF InstallSkills
  <2> QED
    BY <1>5, <2>1, GoesFine, AgentAlone DEF InstallSkills
<1>6. CASE RemoveAgent(c)
  <2>1. Takes(c, "agent remove", Absent, "remove sessions", Absent)
    BY <1>6 DEF RemoveAgent
  <2>2. /\ DOMAIN cmds' = Commands
        /\ \A d \in Commands : DOMAIN cmds'[d] = {"kind", "skill", "pc", "read"}
        /\ \A d \in Commands : cmds'[d].pc = "save config" => cmds'[d].read \in Known
    BY <2>1, TakesFine
  <2>3. config' = Absent /\ files' = [p \in Files |-> Absent] /\ scenario' = scenario
    BY <1>6 DEF RemoveAgent
  <2>4. NoneEmptied
    BY <2>3, LibraryFacts DEF NoneEmptied
  <2> QED
    BY <2>2, <2>3, <2>4 DEF LibraryInv
<1>7. CASE RemoveSessions(c)
  BY <1>7, GoesFine, AgentAlone DEF RemoveSessions
<1>8. CASE LoadConfig(c)
  <2>1. Takes(c, "agent skills", Absent, "save config", config) /\ config \in Known
    BY <1>8 DEF LoadConfig, LibraryInv
  <2> QED
    BY <1>8, <2>1, TakesFine, AgentAlone DEF LoadConfig
<1>9. CASE SaveConfig(c)
  <2>1. \E step \in {"done", "failed"} : Goes(c, step)
    BY <1>9 DEF SaveConfig
  <2>2. /\ DOMAIN cmds' = Commands
        /\ \A d \in Commands : DOMAIN cmds'[d] = {"kind", "skill", "pc", "read"}
        /\ \A d \in Commands : cmds'[d].pc = "save config" => cmds'[d].read \in Known
    BY <2>1, GoesFine
  <2>3. cmds[c].read \in Known
    BY <1>9 DEF SaveConfig, At, LibraryInv
  <2>4. config' \in Known \cup {Absent}
    <3>1. config' = config \/ \E ks \in SUBSET Skills : config' = [cmds[c].read EXCEPT !.skills = ks]
      BY <1>9 DEF SaveConfig
    <3>2. \A ks \in SUBSET Skills : [cmds[c].read EXCEPT !.skills = ks] \in Known
      BY <2>3, LibraryFacts, Zenon
    <3>3. config \in Known \cup {Absent}
      BY DEF LibraryInv
    <3> QED
      BY <3>1, <3>2, <3>3, Zenon
  <2>5. files' = files /\ scenario' = scenario
    BY <1>9 DEF SaveConfig
  <2> QED
    BY <2>2, <2>4, <2>5 DEF LibraryInv, NoneEmptied
<1>10. CASE \E k \in Skills : CreateSkill(c, k) \/ AddSkill(c, k) \/ LoadRefs(c, k)
                              \/ RemoveSkill(c, k)
  <2>1. PICK k \in Skills : CreateSkill(c, k) \/ AddSkill(c, k) \/ LoadRefs(c, k)
                            \/ RemoveSkill(c, k)
    BY <1>10
  <2>2. \E kind, step, read : step # "save config" /\ Takes(c, kind, k, step, read)
    BY <2>1 DEF CreateSkill, AddSkill, LoadRefs, RemoveSkill
  <2>3. UNCHANGED <<config, files, scenario>>
    BY <2>1 DEF CreateSkill, AddSkill, LoadRefs, RemoveSkill
  <2> QED
    BY <2>2, <2>3, TakesFine, AgentAlone
<1>11. CASE WriteSkill(c)
  <2>1. \E step \in {"done", "failed"} : Goes(c, step)
    BY <1>11 DEF WriteSkill
  <2> QED
    BY <1>11, <2>1, GoesFine, AgentAlone DEF WriteSkill
<1>12. CASE SaveRefs(c)
  BY <1>12, GoesFine, AgentAlone DEF SaveRefs
<1> QED
  BY <1>1, <1>2, <1>3, <1>4, <1>5, <1>6, <1>7, <1>8, <1>9, <1>10, <1>11, <1>12
  DEF CommandStep

-----------------------------------------------------------------------------
(* The sessions: what holds of each of them (Templates)                       *)

Fields == {"pc", "sub", "detached", "conf", "saved", "manifest", "ok", "status", "dir", "ws",
           "prompt", "skills", "failed", "todo", "open", "synced", "pass", "given", "torn",
           "replaced", "launches", "edits"}

LEMMA FieldNames == DOMAIN Unborn = Fields
  BY DEF Unborn, Fields

Shaped == DOMAIN sess = Sessions /\ \A s \in Sessions : DOMAIN sess[s] = Fields

\* A step of s that gives it the fields of with.
Writes(s, with) ==
  /\ Shaped' /\ \A t \in Sessions : t # s => sess'[t] = sess[t]
  /\ \A f \in DOMAIN with : sess'[s][f] = with[f]
  /\ \A f \in Fields \ DOMAIN with : sess'[s][f] = sess[s][f]

LEMMA AdvanceIs ==
  ASSUME Shaped, NEW s \in Sessions, NEW with, DOMAIN with \subseteq Fields, Advance(s, with)
  PROVE  Writes(s, with)
<1> DEFINE new == Both(with, sess[s])
<1>1. /\ DOMAIN new = Fields
      /\ \A f \in DOMAIN with : new[f] = with[f]
      /\ \A f \in Fields \ DOMAIN with : new[f] = sess[s][f]
  BY DEF Both, Shaped
<1>2. sess' = [sess EXCEPT ![s] = new]
  BY Zenon DEF Advance
<1> HIDE DEF new
<1>3. /\ DOMAIN sess' = Sessions /\ sess'[s] = new
      /\ \A t \in Sessions : t # s => sess'[t] = sess[t]
  BY <1>2 DEF Shaped
<1>4. ASSUME NEW t \in Sessions PROVE DOMAIN sess'[t] = Fields
  BY <1>1, <1>3, Zenon DEF Shaped
<1> QED
  BY <1>1, <1>3, <1>4, Zenon DEF Shaped, Writes

\* The steps of a session whose workspace has been made.
Made == {"skills", "track", "launch", "run", "hook", "sync", "ended"}

Typed(s) ==
  /\ sess[s].pc \in {"unborn", "copy", "failed"} \cup Made
  /\ sess[s].ws \in [Files -> Texts \cup {Absent}]
  /\ sess[s].todo \in Seq(Files) /\ sess[s].given \in Texts \cup {Absent}
  /\ sess[s].pc # "unborn" => sess[s].conf \in Known
  /\ sess[s].pc \in Made => sess[s].saved = sess[s].conf

\* Begins the text with the instructions given to s?
Prefixed(s, text) == text # Absent /\ IsPrefix(Expanded(s, sess[s].given), text)

\* The native runtime finds the instructions in agent.md whenever it is resumed,
\* Claude Code in CLAUDE.md until that is composed anew.
Instructed(s) ==
  (sess[s].pc \in Made /\ sess[s].given \notin {Absent, <<>>})
    => /\ Native(s) => /\ sess[s].given = sess[s].ws[AgentMD]
                       /\ sess[s].pc \in {"skills", "track", "launch"}
                            => Prefixed(s, sess[s].prompt)
       /\ ~Native(s) /\ ~sess[s].replaced => Prefixed(s, sess[s].ws[ClaudeMD])

\* What the pass at the end of s has to write.
Target(s) ==
  {Mapped(s, p) : p \in {q \in Present(s) : MatchesAny(Mapped(s, q), sess[s].conf.context)}}

Unwritten(s) == {Mapped(s, p) : p \in ToSet(sess[s].todo)}

Passing(s) ==
  /\ sess[s].open => sess[s].pc \in {"hook", "sync"} /\ sess[s].todo # <<>>
  /\ sess[s].pc \in {"hook", "sync"}
       => \A i \in 1 .. Len(sess[s].todo) : sess[s].ws[sess[s].todo[i]] # Absent
  /\ sess[s].pc = "sync"
       => /\ sess[s].todo # <<>>
          /\ sess[s].synced \cup Unwritten(s) = Target(s)
  /\ sess[s].pc = "ended" /\ sess[s].pass => sess[s].synced = Target(s)

\* No file of a workspace is empty unless one was when it was copied.
Whole(s) == ~sess[s].torn => \A p \in Files : sess[s].ws[p] # <<>>

SessionGood(s) == Typed(s) /\ Instructed(s) /\ Passing(s) /\ Whole(s)

\* An empty file of the template is being written, unless a copy has been torn.
BeingWritten ==
  (\A s \in Sessions : ~sess[s].torn)
    => \A p \in Files : files[p] = <<>> =>
         \E s \in Sessions : sess[s].open /\ Mapped(s, Head(sess[s].todo)) = p

TemplatesInv ==
  LibraryInv /\ Shaped /\ (\A s \in Sessions : SessionGood(s)) /\ BeingWritten

\* A session none of whose fields but its status change stays as it is.
LEMMA Untouched ==
  ASSUME NEW t \in Sessions, SessionGood(t),
         \A f \in Fields \ {"status"} : sess'[t][f] = sess[t][f]
  PROVE  SessionGood(t)'
<1>1. /\ sess'[t].pc = sess[t].pc /\ sess'[t].ws = sess[t].ws /\ sess'[t].todo = sess[t].todo
      /\ sess'[t].given = sess[t].given /\ sess'[t].conf = sess[t].conf
      /\ sess'[t].saved = sess[t].saved /\ sess'[t].prompt = sess[t].prompt
      /\ sess'[t].replaced = sess[t].replaced /\ sess'[t].open = sess[t].open
      /\ sess'[t].synced = sess[t].synced /\ sess'[t].pass = sess[t].pass
      /\ sess'[t].torn = sess[t].torn
  BY DEF Fields
<1>2. Typed(t)'
  BY <1>1 DEF SessionGood, Typed
<1>3. Instructed(t)'
  BY <1>1, Zenon DEF SessionGood, Instructed, Native, Prefixed, Expanded
<1>4. Target(t)' = Target(t)
  BY <1>1, Zenon DEF Target, Mapped, Native, Present
<1>5. Passing(t)'
  <2>1. Unwritten(t)' = Unwritten(t)
    BY <1>1, Zenon DEF Unwritten, Mapped, Native
  <2> QED
    BY <1>1, <1>4, <2>1 DEF SessionGood, Passing
<1>6. Whole(t)'
  BY <1>1, Zenon DEF SessionGood, Whole
<1> QED
  BY <1>2, <1>3, <1>5, <1>6 DEF SessionGood

\* A step of a session that writes no file of the template.
LEMMA Bystander ==
  ASSUME TemplatesInv, NEW s \in Sessions, ~sess[s].open, files' = files,
         \A t \in Sessions : t # s => sess'[t] = sess[t],
         sess[s].torn => sess'[s].torn
  PROVE  BeingWritten'
<1> SUFFICES ASSUME \A t \in Sessions : ~sess'[t].torn, NEW p \in Files, files'[p] = <<>>
             PROVE  \E t \in Sessions : sess'[t].open /\ Mapped(t, Head(sess[t].todo))' = p
  BY Zenon DEF BeingWritten
<1>1. \A t \in Sessions : ~sess[t].torn
  BY Zenon
<1>2. PICK t \in Sessions : sess[t].open /\ Mapped(t, Head(sess[t].todo)) = p
  BY <1>1, Zenon DEF TemplatesInv, BeingWritten
<1>3. sess'[t] = sess[t]
  BY <1>2, Zenon
<1>4. Mapped(t, Head(sess[t].todo))' = Mapped(t, Head(sess[t].todo))
  BY <1>3, Zenon DEF Mapped, Native
<1> QED
  BY <1>2, <1>3, <1>4, Zenon

\* The whole invariant after such a step, from what it does to its session.
LEMMA OneSession ==
  ASSUME TemplatesInv, NEW s \in Sessions, ~sess[s].open, UNCHANGED libraryVars,
         NEW with, Writes(s, with), SessionGood(s)', sess[s].torn => sess'[s].torn
  PROVE  TemplatesInv'
<1>1. files' = files /\ LibraryInv'
  BY DEF libraryVars, TemplatesInv, LibraryInv
<1>2. Shaped' /\ \A t \in Sessions : t # s => sess'[t] = sess[t]
  BY DEF Writes
<1>3. BeingWritten'
  BY <1>1, <1>2, Bystander
<1>4. ASSUME NEW t \in Sessions PROVE SessionGood(t)'
  <2>1. CASE t = s
    BY <2>1
  <2>2. CASE t # s
    BY <1>2, <2>2, Untouched DEF TemplatesInv
  <2> QED
    BY <2>1, <2>2
<1> QED
  BY <1>1, <1>2, <1>3, <1>4 DEF TemplatesInv

-----------------------------------------------------------------------------
(* The steps of a session up to its launch, and its edits                     *)

\* A step of s that leaves the library alone and s as it has to be.
Keeps(s) ==
  /\ ~sess[s].open /\ UNCHANGED libraryVars /\ (\E with : Writes(s, with))
  /\ SessionGood(s)' /\ (sess[s].torn => sess'[s].torn)

LEMMA KeepsAll == ASSUME TemplatesInv, NEW s \in Sessions, Keeps(s) PROVE TemplatesInv'
  BY OneSession DEF Keeps

\* A workspace is a workspace to PromptIs once there is a configuration.
LEMMA WorkspaceIs ==
  ASSUME NEW s \in Sessions, Typed(s), sess[s].pc # "unborn" PROVE Workspace(s)
  BY DEF Typed, Workspace, Known, Configurations

LEMMA NoFilesAre == NoFiles \in [Files -> Texts \cup {Absent}] /\ \A p \in Files : NoFiles[p] # <<>>
  BY TextFacts DEF NoFiles

LEMMA BeginKeeps ==
  ASSUME TemplatesInv, NEW s \in Sessions, NEW sub, Begin(s, sub) PROVE Keeps(s)
<1> DEFINE left == Only(Walk, {p \in Files : files[p] # Absent})
           with == [pc |-> "copy", sub |-> sub, detached |-> sub, conf |-> config,
                    dir |-> TRUE, todo |-> left]
<1>1. left \in Seq(Files)
  <2> DEFINE S == {p \in Files : files[p] # Absent}
  <2>1. Only(Walk, S) \in Seq(Files \cap S)
    <3> HIDE DEF S
    <3> QED
      BY TextFacts, OnlyElements
  <2>2. Only(Walk, S) \in Seq(Files)
    BY <2>1
  <2> QED
    BY <2>2
<1> HIDE DEF left
<1>2. /\ DOMAIN with = {"pc", "sub", "detached", "conf", "dir", "todo"}
      /\ with.pc = "copy" /\ with.conf = config /\ with.todo = left
  OBVIOUS
<1>3. sess[s].pc = "unborn" /\ config # Absent /\ UNCHANGED libraryVars /\ Advance(s, with)
  BY Zenon DEF Begin, Is, Quiet, left
<1> HIDE DEF with
<1>4. Writes(s, with)
  <2>1. DOMAIN with \subseteq Fields
    BY <1>2 DEF Fields
  <2> QED
    BY <1>3, <2>1, AdvanceIs DEF TemplatesInv
<1>5. /\ sess'[s].pc = "copy" /\ sess'[s].conf = config /\ sess'[s].todo = left
      /\ sess'[s].ws = sess[s].ws /\ sess'[s].given = sess[s].given
      /\ sess'[s].open = sess[s].open /\ sess'[s].torn = sess[s].torn
  BY <1>2, <1>4 DEF Writes, Fields
<1>6. SessionGood(s) /\ config \in Known
  BY <1>3 DEF TemplatesInv, LibraryInv
<1>7. ~sess[s].open
  BY <1>3, <1>6 DEF SessionGood, Passing
<1>8. Typed(s)'
  BY <1>1, <1>5, <1>6 DEF SessionGood, Typed, Made
<1>9. Instructed(s)' /\ Passing(s)' /\ Whole(s)'
  BY <1>5, <1>6, <1>7 DEF SessionGood, Instructed, Passing, Whole, Made
<1> QED
  BY <1>3, <1>4, <1>5, <1>7, <1>8, <1>9 DEF Keeps, SessionGood

LEMMA UndoKeeps ==
  ASSUME TemplatesInv, NEW s \in Sessions, sess[s].pc \in {"copy", "track"}, Undo(s), Quiet
  PROVE  Keeps(s)
<1> DEFINE with == [pc |-> "failed", dir |-> FALSE, ws |-> NoFiles]
<1>1. DOMAIN with = {"pc", "dir", "ws"} /\ with.pc = "failed" /\ with.ws = NoFiles
  OBVIOUS
<1>2. Advance(s, with)
  BY Zenon DEF Undo
<1> HIDE DEF with
<1>3. Writes(s, with)
  <2>1. DOMAIN with \subseteq Fields
    BY <1>1 DEF Fields
  <2> QED
    BY <1>2, <2>1, AdvanceIs DEF TemplatesInv
<1>4. /\ sess'[s].pc = "failed" /\ sess'[s].ws = NoFiles
      /\ sess'[s].conf = sess[s].conf /\ sess'[s].todo = sess[s].todo
      /\ sess'[s].given = sess[s].given
      /\ sess'[s].open = sess[s].open /\ sess'[s].torn = sess[s].torn
  BY <1>1, <1>3 DEF Writes, Fields
<1>5. SessionGood(s)
  BY DEF TemplatesInv
<1>6. ~sess[s].open
  BY <1>5 DEF SessionGood, Passing
<1>7. Typed(s)'
  BY <1>4, <1>5, NoFilesAre DEF SessionGood, Typed, Made
<1>8. Instructed(s)' /\ Passing(s)'
  BY <1>4, <1>6 DEF Instructed, Passing, Made
<1>9. Whole(s)'
  BY <1>4, NoFilesAre DEF Whole
<1> QED
  BY <1>3, <1>4, <1>6, <1>7, <1>8, <1>9 DEF Keeps, SessionGood, Quiet

LEMMA CopyKeeps ==
  ASSUME TemplatesInv, NEW s \in Sessions, CopyFile(s) PROVE Keeps(s)
<1> DEFINE p == Head(sess[s].todo)
<1>1. /\ sess[s].pc = "copy" /\ sess[s].todo # <<>> /\ Quiet
      /\ files[p] = Absent => Undo(s)
  BY DEF CopyFile, Is
<1>2. CASE files[p] = Absent
  BY <1>1, <1>2, UndoKeeps
<1>3. CASE files[p] # Absent
  <2> DEFINE ws == [sess[s].ws EXCEPT ![p] = files[p]]
             left == Tail(sess[s].todo)
             torn == sess[s].torn \/ files[p] = <<>>
             with == [ws |-> ws, todo |-> left, torn |-> torn]
  <2>1. Advance(s, with)
    BY <1>3, Zenon DEF CopyFile
  <2>2. SessionGood(s) /\ files \in [Files -> Texts \cup {Absent}]
    BY DEF TemplatesInv, LibraryInv
  <2>3. p \in Files /\ left \in Seq(Files)
    BY <1>1, <2>2 DEF SessionGood, Typed
  <2> HIDE DEF p
  <2>4. ws \in [Files -> Texts \cup {Absent}]
    BY <2>2, <2>3 DEF SessionGood, Typed
  <2>5. ~torn => \A q \in Files : ws[q] # <<>>
    BY <2>2, <2>3 DEF SessionGood, Typed, Whole
  <2> HIDE DEF ws, left
  <2>6. /\ DOMAIN with = {"ws", "todo", "torn"}
        /\ with.ws = ws /\ with.todo = left /\ with.torn = torn
    BY Zenon
  <2> HIDE DEF with, torn
  <2>7. Writes(s, with)
    <3>1. DOMAIN with \subseteq Fields
      BY <2>6 DEF Fields
    <3> QED
      BY <2>1, <3>1, AdvanceIs DEF TemplatesInv
  <2>8. /\ sess'[s].ws = ws /\ sess'[s].todo = left /\ sess'[s].torn = torn
        /\ sess'[s].pc = "copy" /\ sess'[s].conf = sess[s].conf
        /\ sess'[s].given = sess[s].given /\ sess'[s].open = sess[s].open
    <3>1. {"ws", "todo", "torn"} \subseteq DOMAIN with
      BY <2>6
    <3>2. {"pc", "conf", "given", "open"} \subseteq Fields \ DOMAIN with
      BY <2>6 DEF Fields
    <3> QED
      BY <1>1, <2>6, <2>7, <3>1, <3>2 DEF Writes
  <2>9. ~sess[s].open
    BY <1>1, <2>2 DEF SessionGood, Passing
  <2>10. Typed(s)'
    BY <1>1, <2>2, <2>3, <2>4, <2>8 DEF SessionGood, Typed, Made, left
  <2>11. Instructed(s)' /\ Passing(s)'
    BY <2>8, <2>9 DEF Instructed, Passing, Made
  <2>12. Whole(s)'
    BY <2>5, <2>8, Zenon DEF Whole
  <2>13. sess[s].torn => sess'[s].torn
    BY <2>8, Zenon DEF torn
  <2> QED
    BY <1>1, <2>7, <2>9, <2>10, <2>11, <2>12, <2>13 DEF Keeps, SessionGood, Quiet
<1> QED
  BY <1>2, <1>3

\* The instructions are composed of the workspace there is.
LEMMA ProvisionedIs ==
  ASSUME NEW s \in Sessions, Typed(s), sess[s].pc # "unborn", NEW prov, prov = Provisioned(s)
  PROVE  \/ /\ NothingToSay(s) /\ DOMAIN prov = {"launches"}
         \/ /\ ~NothingToSay(s) /\ Native(s)
            /\ DOMAIN prov = {"prompt"} /\ prov.prompt = ComposePrompt(s)
         \/ /\ ~NothingToSay(s) /\ ~Native(s) /\ DOMAIN prov = {"ws", "replaced"}
            /\ prov.ws \in [Files -> Texts \cup {Absent}]
            /\ prov.ws[ClaudeMD] = ComposePrompt(s)
            /\ \A p \in Files \ {ClaudeMD} : prov.ws[p] \in {Absent, sess[s].ws[p]}
            /\ prov.replaced = (sess[s].replaced \/ sess[s].ws[ClaudeMD] # Absent)
<1>1. CASE NothingToSay(s)
  <2>1. prov = [launches |-> sess[s].launches]
    BY <1>1, Zenon DEF Provisioned
  <2> QED
    BY <1>1, <2>1
<1>2. CASE ~NothingToSay(s) /\ Native(s)
  <2>1. prov = [prompt |-> ComposePrompt(s)]
    BY <1>2, Zenon DEF Provisioned, NativeInstructions
  <2> QED
    BY <1>2, <2>1
<1>3. CASE ~NothingToSay(s) /\ ~Native(s)
  <2> DEFINE ws == [sess[s].ws EXCEPT ![AgentMD] = Absent, ![ClaudeMD] = ComposePrompt(s)]
             rep == sess[s].replaced \/ sess[s].ws[ClaudeMD] # Absent
  <2>1. prov = [ws |-> ws, replaced |-> rep]
    BY <1>3, Zenon DEF Provisioned, ClaudeInstructions
  <2>2. ComposePrompt(s) \in Texts
    BY WorkspaceIs, PromptIs
  <2> DEFINE told == ComposePrompt(s)
  <2> HIDE DEF told
  <2>3. /\ ws \in [Files -> Texts \cup {Absent}] /\ ws[ClaudeMD] = told
        /\ \A p \in Files \ {ClaudeMD} : ws[p] \in {Absent, sess[s].ws[p]}
    BY <2>2, TextFacts DEF Typed, told
  <2> HIDE DEF ws, rep
  <2>4. DOMAIN prov = {"ws", "replaced"} /\ prov.ws = ws /\ prov.replaced = rep
    BY <2>1
  <2> QED
    BY <1>3, <2>3, <2>4, Zenon DEF rep, told
<1> QED
  BY <1>1, <1>2, <1>3

\* What they are composed of was not empty: nor is what is written.
LEMMA ProvisionedWhole ==
  ASSUME NEW s \in Sessions, Typed(s), sess[s].pc # "unborn", NEW prov, prov = Provisioned(s),
         "ws" \in DOMAIN prov, \A p \in Files : sess[s].ws[p] # <<>>
  PROVE  \A p \in Files : prov.ws[p] # <<>>
<1>1. /\ ~NothingToSay(s) /\ prov.ws[ClaudeMD] = ComposePrompt(s)
      /\ \A p \in Files \ {ClaudeMD} : prov.ws[p] \in {Absent, sess[s].ws[p]}
  BY ProvisionedIs
<1>2. ComposePrompt(s) # <<>>
  BY <1>1, WorkspaceIs, PromptIs
<1> QED
  BY <1>1, <1>2, TextFacts

LEMMA PrepareKeeps ==
  ASSUME TemplatesInv, NEW s \in Sessions, PrepareSession(s) PROVE Keeps(s)
<1>1. sess[s].pc = "copy" /\ Quiet
  BY DEF PrepareSession, Is
<1>2. CASE Undo(s)
  BY <1>1, <1>2, UndoKeeps
<1>3. CASE ~Undo(s)
  <2> DEFINE prov == Provisioned(s)
             own == [pc |-> "skills", saved |-> sess[s].conf, given |-> sess[s].ws[AgentMD]]
             with == Both(own, prov)
  <2>1. Advance(s, with)
    BY <1>3, Zenon DEF PrepareSession
  <2>2. SessionGood(s) /\ Typed(s)
    BY DEF TemplatesInv, SessionGood
  <2>3. /\ DOMAIN own = {"pc", "saved", "given"} /\ own.pc = "skills"
        /\ own.saved = sess[s].conf /\ own.given = sess[s].ws[AgentMD]
    OBVIOUS
  <2> HIDE DEF own
  <2>4. \/ /\ NothingToSay(s) /\ DOMAIN prov = {"launches"}
        \/ /\ ~NothingToSay(s) /\ Native(s)
           /\ DOMAIN prov = {"prompt"} /\ prov.prompt = ComposePrompt(s)
        \/ /\ ~NothingToSay(s) /\ ~Native(s) /\ DOMAIN prov = {"ws", "replaced"}
           /\ prov.ws \in [Files -> Texts \cup {Absent}]
           /\ prov.ws[ClaudeMD] = ComposePrompt(s)
           /\ \A p \in Files \ {ClaudeMD} : prov.ws[p] \in {Absent, sess[s].ws[p]}
           /\ prov.replaced = (sess[s].replaced \/ sess[s].ws[ClaudeMD] # Absent)
    BY <1>1, <2>2, ProvisionedIs
  <2>5. "ws" \in DOMAIN prov /\ (\A p \in Files : sess[s].ws[p] # <<>>)
           => \A p \in Files : prov.ws[p] # <<>>
    BY <1>1, <2>2, ProvisionedWhole
  <2> HIDE DEF prov
  <2>6. /\ DOMAIN with = {"pc", "saved", "given"} \cup DOMAIN prov
        /\ with.pc = "skills" /\ with.saved = sess[s].conf /\ with.given = sess[s].ws[AgentMD]
        /\ \A f \in DOMAIN prov \ {"pc", "saved", "given"} : with[f] = prov[f]
    BY <2>3 DEF Both
  <2> HIDE DEF with
  <2>7. Writes(s, with)
    <3>1. DOMAIN with \subseteq Fields
      BY <2>4, <2>6 DEF Fields
    <3> QED
      BY <2>1, <3>1, AdvanceIs DEF TemplatesInv
  <2>8. /\ sess'[s].pc = "skills" /\ sess'[s].saved = sess[s].conf
        /\ sess'[s].given = sess[s].ws[AgentMD] /\ sess'[s].conf = sess[s].conf
        /\ sess'[s].todo = sess[s].todo /\ sess'[s].open = sess[s].open
        /\ sess'[s].torn = sess[s].torn
    <3>1. {"pc", "saved", "given"} \subseteq DOMAIN with
      BY <2>6
    <3>2. {"conf", "todo", "open", "torn"} \subseteq Fields \ DOMAIN with
      BY <2>4, <2>6 DEF Fields
    <3> QED
      BY <2>6, <2>7, <3>1, <3>2 DEF Writes
  <2>9. \A f \in {"ws", "prompt", "replaced"} :
           sess'[s][f] = IF f \in DOMAIN prov THEN prov[f] ELSE sess[s][f]
    BY <2>6, <2>7 DEF Writes, Fields
  <2>10. /\ sess'[s].ws = IF "ws" \in DOMAIN prov THEN prov.ws ELSE sess[s].ws
         /\ sess'[s].prompt = IF "prompt" \in DOMAIN prov THEN prov.prompt ELSE sess[s].prompt
    BY <2>9
  <2>11. ~sess[s].open
    BY <1>1, <2>2 DEF SessionGood, Passing
  <2>12. Typed(s)'
    <3>1. sess'[s].ws \in [Files -> Texts \cup {Absent}]
      BY <2>2, <2>4, <2>10 DEF Typed
    <3>2. sess[s].ws[AgentMD] \in Texts \cup {Absent}
      BY <2>2, TextFacts DEF Typed
    <3> QED
      BY <1>1, <2>2, <2>8, <3>1, <3>2 DEF Typed, Made
  <2>13. Instructed(s)'
    <3> SUFFICES ASSUME sess[s].ws[AgentMD] \notin {Absent, <<>>}
                 PROVE  /\ Native(s) => /\ sess'[s].ws[AgentMD] = sess[s].ws[AgentMD]
                                        /\ Prefixed(s, sess[s].prompt)'
                        /\ ~Native(s) => Prefixed(s, sess[s].ws[ClaudeMD])'
      BY <2>8, Zenon DEF Instructed, Native
    <3>1. AgentMD \in Present(s)
      BY TextFacts DEF Present
    <3>2. /\ ComposePrompt(s) \in Texts /\ ~NothingToSay(s)
          /\ IsPrefix(Expanded(s, sess[s].ws[AgentMD]), ComposePrompt(s))
      BY <1>1, <2>2, <3>1, WorkspaceIs, PromptIs
    <3>3. ComposePrompt(s) # Absent
      BY <3>2, TextFacts
    <3>4. CASE Native(s)
      <4>1. DOMAIN prov = {"prompt"} /\ prov.prompt = ComposePrompt(s)
        BY <2>4, <3>2, <3>4
      <4>2. sess'[s].ws = sess[s].ws /\ sess'[s].prompt = ComposePrompt(s)
        BY <2>10, <4>1
      <4> QED
        BY <2>8, <3>2, <3>3, <3>4, <4>2, Zenon DEF Prefixed
    <3>5. CASE ~Native(s)
      <4>1. DOMAIN prov = {"ws", "replaced"} /\ prov.ws[ClaudeMD] = ComposePrompt(s)
        BY <2>4, <3>2, <3>5
      <4>2. sess'[s].ws[ClaudeMD] = ComposePrompt(s)
        BY <2>10, <4>1
      <4> QED
        BY <2>8, <3>2, <3>3, <3>5, <4>2, Zenon DEF Prefixed
    <3> QED
      BY <3>4, <3>5
  <2>14. Passing(s)'
    BY <2>8, <2>11 DEF Passing
  <2>15. Whole(s)'
    BY <2>2, <2>5, <2>8, <2>10 DEF SessionGood, Whole
  <2> QED
    BY <1>1, <2>7, <2>8, <2>11, <2>12, <2>13, <2>14, <2>15 DEF Keeps, SessionGood, Quiet
<1> QED
  BY <1>2, <1>3

\* The skills found, whichever they are.
LEMMA ResolvedIs ==
  ASSUME NEW s, NEW found PROVE DOMAIN Resolved(s, found) = {"failed", "skills"}
  BY DEF Resolved

\* A step after which s is elsewhere, with all it had.
LEMMA Onward ==
  ASSUME NEW s \in Sessions, SessionGood(s), ~sess[s].open,
         \A f \in {"conf", "saved", "ws", "prompt", "todo", "open", "synced", "given", "torn",
                   "replaced"} : sess'[s][f] = sess[s][f],
         sess[s].pc \in Made, sess'[s].pc \in Made \ {"hook", "sync"},
         sess'[s].pc = "ended" => ~sess'[s].pass,
         sess'[s].pc \in {"skills", "track", "launch"}
           => sess[s].pc \in {"skills", "track", "launch"}
  PROVE  SessionGood(s)'
<1>1. /\ sess'[s].ws = sess[s].ws /\ sess'[s].todo = sess[s].todo
      /\ sess'[s].given = sess[s].given /\ sess'[s].conf = sess[s].conf
      /\ sess'[s].saved = sess[s].saved /\ sess'[s].prompt = sess[s].prompt
      /\ sess'[s].replaced = sess[s].replaced /\ sess'[s].open = sess[s].open
      /\ sess'[s].synced = sess[s].synced /\ sess'[s].torn = sess[s].torn
  OBVIOUS
<1>2. Typed(s)'
  BY <1>1 DEF SessionGood, Typed, Made
<1>3. Instructed(s)'
  BY <1>1, Zenon DEF SessionGood, Instructed, Native, Prefixed
<1>4. Passing(s)'
  BY <1>1 DEF Passing
<1>5. Whole(s)'
  BY <1>1, Zenon DEF SessionGood, Whole
<1> QED
  BY <1>2, <1>3, <1>4, <1>5 DEF SessionGood

LEMMA ResolveKeeps ==
  ASSUME TemplatesInv, NEW s \in Sessions, ResolveSkills(s) PROVE Keeps(s)
<1>1. PICK found \in SUBSET sess[s].conf.skills :
         Advance(s, Both([pc |-> "track", manifest |-> TRUE], Resolved(s, found)))
  BY Zenon DEF ResolveSkills
<1> DEFINE own == [pc |-> "track", manifest |-> TRUE]
           got == Resolved(s, found)
           with == Both(own, got)
<1>2. DOMAIN own = {"pc", "manifest"} /\ own.pc = "track"
  OBVIOUS
<1>3. DOMAIN got = {"failed", "skills"}
  BY ResolvedIs
<1>4. Advance(s, with)
  BY <1>1, Zenon
<1> HIDE DEF own, got
<1>5. DOMAIN with = {"pc", "manifest", "failed", "skills"} /\ with.pc = "track"
  BY <1>2, <1>3 DEF Both
<1> HIDE DEF with
<1>6. Writes(s, with)
  <2>1. DOMAIN with \subseteq Fields
    BY <1>5 DEF Fields
  <2> QED
    BY <1>4, <2>1, AdvanceIs DEF TemplatesInv
<1>7. /\ sess'[s].pc = "track"
      /\ \A f \in {"conf", "saved", "ws", "prompt", "todo", "open", "synced", "given", "torn",
                   "replaced"} : sess'[s][f] = sess[s][f]
  BY <1>5, <1>6 DEF Writes, Fields
<1>8. SessionGood(s) /\ sess[s].pc = "skills" /\ UNCHANGED libraryVars
  BY DEF TemplatesInv, ResolveSkills, Is, Quiet
<1>9. ~sess[s].open
  BY <1>8 DEF SessionGood, Passing
<1>10. SessionGood(s)'
  BY <1>7, <1>8, <1>9, Onward DEF Made
<1>11. sess'[s].torn = sess[s].torn
  BY <1>7
<1> QED
  BY <1>6, <1>8, <1>9, <1>10, <1>11 DEF Keeps

LEMMA TrackKeeps ==
  ASSUME TemplatesInv, NEW s \in Sessions, Track(s) PROVE Keeps(s)
<1>1. sess[s].pc = "track" /\ Quiet
  BY DEF Track, Is
<1>2. CASE Undo(s)
  BY <1>1, <1>2, UndoKeeps
<1>3. CASE ~Undo(s)
  <2> DEFINE with == [pc |-> "launch", ok |-> TRUE, status |-> "active"]
  <2>1. Advance(s, with)
    BY <1>3, Zenon DEF Track
  <2>2. DOMAIN with = {"pc", "ok", "status"} /\ with.pc = "launch"
    OBVIOUS
  <2> HIDE DEF with
  <2>3. Writes(s, with)
    <3>1. DOMAIN with \subseteq Fields
      BY <2>2 DEF Fields
    <3> QED
      BY <2>1, <3>1, AdvanceIs DEF TemplatesInv
  <2>4. /\ sess'[s].pc = "launch"
        /\ \A f \in {"conf", "saved", "ws", "prompt", "todo", "open", "synced", "given", "torn",
                     "replaced"} : sess'[s][f] = sess[s][f]
    BY <2>2, <2>3 DEF Writes, Fields
  <2>5. SessionGood(s)
    BY DEF TemplatesInv
  <2>6. ~sess[s].open
    BY <1>1, <2>5 DEF SessionGood, Passing
  <2>7. SessionGood(s)'
    BY <1>1, <2>4, <2>5, <2>6, Onward DEF Made
  <2>8. sess'[s].torn = sess[s].torn
    BY <2>4
  <2> QED
    BY <1>1, <2>3, <2>6, <2>7, <2>8 DEF Keeps, Quiet
<1> QED
  BY <1>2, <1>3

LEMMA LaunchKeeps ==
  ASSUME TemplatesInv, NEW s \in Sessions, Launch(s) PROVE Keeps(s)
<1>1. sess[s].pc = "launch" /\ UNCHANGED libraryVars
  BY DEF Launch, Is, Quiet
<1>2. \E with : /\ Advance(s, with) /\ DOMAIN with \subseteq {"pc", "status", "launches", "pass"}
                /\ "pc" \in DOMAIN with
                /\ \/ with.pc = "run"
                   \/ with.pc = "ended" /\ "pass" \in DOMAIN with /\ with.pass = FALSE
  <2> DEFINE runs == [pc |-> "run", status |-> Updated(s, "active"),
                      launches |-> sess[s].launches + 1]
             fails == [pc |-> "ended", pass |-> FALSE,
                       status |-> IF sess[s].detached THEN sess[s].status
                                  ELSE Updated(s, "completed_error")]
  <2>1. Advance(s, runs) \/ Advance(s, fails)
    BY Zenon DEF Launch
  <2>2. DOMAIN runs = {"pc", "status", "launches"} /\ runs.pc = "run"
    OBVIOUS
  <2>3. DOMAIN fails = {"pc", "pass", "status"} /\ fails.pc = "ended" /\ fails.pass = FALSE
    OBVIOUS
  <2> HIDE DEF runs, fails
  <2> QED
    BY <2>1, <2>2, <2>3
<1>3. PICK with : /\ Advance(s, with) /\ DOMAIN with \subseteq {"pc", "status", "launches", "pass"}
                  /\ "pc" \in DOMAIN with
                  /\ \/ with.pc = "run"
                     \/ with.pc = "ended" /\ "pass" \in DOMAIN with /\ with.pass = FALSE
  BY <1>2
<1>4. Writes(s, with)
  <2>1. DOMAIN with \subseteq Fields
    BY <1>3 DEF Fields
  <2> QED
    BY <1>3, <2>1, AdvanceIs DEF TemplatesInv
<1>5. /\ sess'[s].pc = "run" \/ (sess'[s].pc = "ended" /\ sess'[s].pass = FALSE)
      /\ \A f \in {"conf", "saved", "ws", "prompt", "todo", "open", "synced", "given", "torn",
                   "replaced"} : sess'[s][f] = sess[s][f]
  BY <1>3, <1>4 DEF Writes, Fields
<1>6. SessionGood(s)
  BY DEF TemplatesInv
<1>7. ~sess[s].open
  BY <1>1, <1>6 DEF SessionGood, Passing
<1>8. SessionGood(s)'
  BY <1>1, <1>5, <1>6, <1>7, Onward DEF Made
<1>9. sess'[s].torn = sess[s].torn
  BY <1>5
<1> QED
  BY <1>1, <1>4, <1>7, <1>8, <1>9 DEF Keeps

\* Resuming composes the instructions from the workspace as it is now.
LEMMA ResumeKeeps ==
  ASSUME TemplatesInv, NEW s \in Sessions, NEW detached, ResumedWith(s, detached), Quiet
  PROVE  Keeps(s)
<1>1. sess[s].pc = "ended" /\ SessionGood(s)
  BY DEF ResumedWith, Is, TemplatesInv
<1> DEFINE prov == Provisioned(s)
           own == [pc |-> "launch", conf |-> sess[s].saved, detached |-> detached]
<1>2. PICK found \in SUBSET sess[s].saved.skills :
         Advance(s, Both(own, Both(Resolved(s, found), prov)))
  BY Zenon DEF ResumedWith
<1> DEFINE got == Resolved(s, found)
           rest == Both(got, prov)
           with == Both(own, rest)
<1>3. /\ DOMAIN own = {"pc", "conf", "detached"} /\ own.pc = "launch"
      /\ own.conf = sess[s].saved
  OBVIOUS
<1>4. DOMAIN got = {"failed", "skills"}
  BY ResolvedIs
<1>5. Advance(s, with)
  BY <1>2, Zenon
<1> HIDE DEF own, got
<1>6. \/ /\ NothingToSay(s) /\ DOMAIN prov = {"launches"}
      \/ /\ ~NothingToSay(s) /\ Native(s)
         /\ DOMAIN prov = {"prompt"} /\ prov.prompt = ComposePrompt(s)
      \/ /\ ~NothingToSay(s) /\ ~Native(s) /\ DOMAIN prov = {"ws", "replaced"}
         /\ prov.ws \in [Files -> Texts \cup {Absent}]
         /\ prov.ws[ClaudeMD] = ComposePrompt(s)
         /\ \A p \in Files \ {ClaudeMD} : prov.ws[p] \in {Absent, sess[s].ws[p]}
         /\ prov.replaced = (sess[s].replaced \/ sess[s].ws[ClaudeMD] # Absent)
  BY <1>1, ProvisionedIs DEF SessionGood
<1>7. "ws" \in DOMAIN prov /\ (\A p \in Files : sess[s].ws[p] # <<>>)
         => \A p \in Files : prov.ws[p] # <<>>
  BY <1>1, ProvisionedWhole DEF SessionGood
<1> HIDE DEF prov
<1>8. /\ DOMAIN rest = {"failed", "skills"} \cup DOMAIN prov
      /\ \A f \in DOMAIN prov \ {"failed", "skills"} : rest[f] = prov[f]
  BY <1>4 DEF Both
<1> HIDE DEF rest
<1>9. /\ DOMAIN with = {"pc", "conf", "detached", "failed", "skills"} \cup DOMAIN prov
      /\ with.pc = "launch" /\ with.conf = sess[s].saved
      /\ \A f \in DOMAIN rest \ {"pc", "conf", "detached"} : with[f] = rest[f]
  BY <1>3, <1>8 DEF Both
<1> HIDE DEF with
<1>10. Writes(s, with)
  <2>1. DOMAIN with \subseteq Fields
    BY <1>6, <1>9 DEF Fields
  <2> QED
    BY <1>5, <2>1, AdvanceIs DEF TemplatesInv
<1>11. /\ sess'[s].pc = "launch" /\ sess'[s].conf = sess[s].saved
       /\ sess'[s].saved = sess[s].saved /\ sess'[s].given = sess[s].given
       /\ sess'[s].todo = sess[s].todo /\ sess'[s].open = sess[s].open
       /\ sess'[s].torn = sess[s].torn
  <2>1. {"pc", "conf"} \subseteq DOMAIN with
    BY <1>9
  <2>2. {"saved", "given", "todo", "open", "torn"} \subseteq Fields \ DOMAIN with
    BY <1>6, <1>9 DEF Fields
  <2> QED
    BY <1>9, <1>10, <2>1, <2>2 DEF Writes
<1>12. \A f \in {"ws", "prompt", "replaced"} :
          sess'[s][f] = IF f \in DOMAIN prov THEN prov[f] ELSE sess[s][f]
  <2>1. \A f \in {"ws", "prompt", "replaced"} :
           /\ f \in DOMAIN prov => f \in DOMAIN with /\ with[f] = prov[f]
           /\ f \notin DOMAIN prov => f \in Fields \ DOMAIN with
    BY <1>8, <1>9 DEF Fields
  <2> QED
    BY <1>10, <2>1, Zenon DEF Writes
<1>13. /\ sess'[s].ws = IF "ws" \in DOMAIN prov THEN prov.ws ELSE sess[s].ws
       /\ sess'[s].prompt = IF "prompt" \in DOMAIN prov THEN prov.prompt ELSE sess[s].prompt
       /\ sess'[s].replaced = IF "replaced" \in DOMAIN prov THEN prov.replaced
                                                            ELSE sess[s].replaced
  BY <1>12
<1>14. ~sess[s].open /\ sess[s].saved = sess[s].conf /\ sess[s].conf \in Known
  BY <1>1 DEF SessionGood, Passing, Typed, Made
<1>15. Typed(s)'
  <2>1. sess'[s].ws \in [Files -> Texts \cup {Absent}]
    BY <1>1, <1>6, <1>13 DEF SessionGood, Typed
  <2> QED
    BY <1>1, <1>11, <1>14, <2>1 DEF SessionGood, Typed, Made
<1>16. Instructed(s)'
  <2> SUFFICES ASSUME sess[s].given \notin {Absent, <<>>}
               PROVE  /\ Native(s) => /\ sess[s].given = sess'[s].ws[AgentMD]
                                      /\ Prefixed(s, sess[s].prompt)'
                      /\ ~Native(s) /\ ~sess'[s].replaced => Prefixed(s, sess[s].ws[ClaudeMD])'
    BY <1>11, <1>14, Zenon DEF Instructed, Native
  <2>1. Instructed(s) /\ sess[s].pc \in Made /\ Typed(s)
    BY <1>1 DEF SessionGood, Made
  <2>2. CASE Native(s)
    <3>1. sess[s].given = sess[s].ws[AgentMD]
      BY <2>1, <2>2 DEF Instructed
    <3>2. AgentMD \in Present(s)
      BY <3>1, TextFacts DEF Present
    <3>3. /\ ComposePrompt(s) \in Texts /\ ~NothingToSay(s)
          /\ IsPrefix(Expanded(s, sess[s].given), ComposePrompt(s))
      BY <1>1, <2>1, <3>1, <3>2, WorkspaceIs, PromptIs
    <3>4. ComposePrompt(s) # Absent
      BY <3>3, TextFacts
    <3>5. DOMAIN prov = {"prompt"} /\ prov.prompt = ComposePrompt(s)
      BY <1>6, <2>2, <3>3
    <3>6. sess'[s].ws = sess[s].ws /\ sess'[s].prompt = ComposePrompt(s)
      BY <1>13, <3>5
    <3> QED
      BY <1>11, <2>2, <3>1, <3>3, <3>4, <3>6, Zenon DEF Prefixed
  <2>3. CASE ~Native(s)
    <3> SUFFICES ASSUME ~sess'[s].replaced PROVE Prefixed(s, sess[s].ws[ClaudeMD])'
      BY <2>3
    <3>1. ~sess[s].replaced
      BY <1>6, <1>13, <2>3
    <3>2. Prefixed(s, sess[s].ws[ClaudeMD])
      BY <2>1, <2>3, <3>1, Zenon DEF Instructed
    <3>3. sess[s].ws[ClaudeMD] # Absent
      BY <3>2 DEF Prefixed
    <3>4. DOMAIN prov = {"launches"}
      BY <1>6, <1>13, <2>3, <3>3
    <3>5. sess'[s].ws = sess[s].ws
      BY <1>13, <3>4
    <3> QED
      BY <1>11, <3>2, <3>5, Zenon DEF Prefixed
  <2> QED
    BY <2>2, <2>3
<1>17. Passing(s)'
  BY <1>11, <1>14 DEF Passing
<1>18. Whole(s)'
  BY <1>1, <1>7, <1>11, <1>13 DEF SessionGood, Whole
<1> QED
  BY <1>10, <1>11, <1>14, <1>15, <1>16, <1>17, <1>18 DEF Keeps, SessionGood, Quiet

-----------------------------------------------------------------------------
(* The running session, its end and the files that go back                    *)

LEMMA EditKeeps ==
  ASSUME TemplatesInv, NEW s \in Sessions, NEW p \in Files, Edit(s, p) PROVE Keeps(s)
<1> DEFINE text == Append(IF sess[s].ws[p] = Absent THEN <<>> ELSE sess[s].ws[p], s)
           ws == [sess[s].ws EXCEPT ![p] = text]
           edits == sess[s].edits + 1
           given == IF Native(s) /\ p = AgentMD THEN text ELSE sess[s].given
           With(runs) == [ws |-> ws, edits |-> edits, given |-> given,
                          pc |-> IF runs THEN "hook" ELSE "run",
                          todo |-> IF runs THEN <<p>> ELSE <<>>]
<1>1. sess[s].pc = "run" /\ UNCHANGED libraryVars /\ SessionGood(s) /\ Typed(s)
  BY DEF Edit, Is, Quiet, TemplatesInv, SessionGood
<1>2. PICK runs \in {FALSE, Hooked(s, p)} : Advance(s, With(runs))
  BY Zenon DEF Edit
<1>3. text \in Texts /\ text # <<>> /\ text # Absent
  <2> DEFINE old == IF sess[s].ws[p] = Absent THEN <<>> ELSE sess[s].ws[p]
  <2>1. old \in Texts
    BY <1>1, TextFacts DEF Typed
  <2> HIDE DEF old
  <2>2. Append(old, s) \in Texts /\ Append(old, s) # <<>>
    BY <2>1, TextFacts DEF Texts
  <2>3. text = Append(old, s)
    BY Zenon DEF old
  <2> HIDE DEF text
  <2> QED
    BY <2>2, <2>3, TextFacts
<1>4. sess[s].ws[p] # Absent => text = Append(sess[s].ws[p], s)
  BY Zenon
<1> HIDE DEF text
<1>5. /\ ws \in [Files -> Texts \cup {Absent}] /\ ws[p] = text
      /\ \A q \in Files : q # p => ws[q] = sess[s].ws[q]
  BY <1>1, <1>3 DEF Typed
<1> HIDE DEF ws, given, edits
<1> DEFINE step == IF runs THEN "hook" ELSE "run"
           left == IF runs THEN <<p>> ELSE <<>>
           with == With(runs)
<1>6. /\ left \in Seq(Files)
      /\ \/ step = "run"
         \/ step = "hook" /\ \A i \in 1 .. Len(left) : left[i] = p
  OBVIOUS
<1> HIDE DEF step, left
<1>7. with = [ws |-> ws, edits |-> edits, given |-> given, pc |-> step, todo |-> left]
  BY Zenon DEF step, left
<1> HIDE DEF with
<1>8. /\ DOMAIN with = {"ws", "edits", "given", "pc", "todo"}
      /\ with.ws = ws /\ with.given = given /\ with.pc = step /\ with.todo = left
  BY <1>7
<1>9. Writes(s, with)
  <2>1. DOMAIN with \subseteq Fields
    BY <1>8 DEF Fields
  <2>2. Advance(s, with)
    BY <1>2 DEF with
  <2> QED
    BY <2>1, <2>2, AdvanceIs DEF TemplatesInv
<1>10. /\ sess'[s].ws = ws /\ sess'[s].given = given /\ sess'[s].pc = step
       /\ sess'[s].todo = left /\ sess'[s].conf = sess[s].conf
       /\ sess'[s].saved = sess[s].saved /\ sess'[s].open = sess[s].open
       /\ sess'[s].torn = sess[s].torn /\ sess'[s].replaced = sess[s].replaced
  <2>1. {"ws", "given", "pc", "todo"} \subseteq DOMAIN with
    BY <1>8
  <2>2. {"conf", "saved", "open", "torn", "replaced"} \subseteq Fields \ DOMAIN with
    BY <1>8 DEF Fields
  <2> QED
    BY <1>8, <1>9, <2>1, <2>2 DEF Writes
<1>11. ~sess[s].open
  BY <1>1 DEF SessionGood, Passing
<1>12. Typed(s)'
  <2>1. given \in Texts \cup {Absent}
    BY <1>1, <1>3 DEF given, Typed
  <2> QED
    BY <1>1, <1>5, <1>6, <1>10, <2>1 DEF Typed, Made
<1>13. Instructed(s)'
  <2>1. Native(s)' <=> Native(s)
    BY <1>10, Zenon DEF Native
  <2>2. step \notin {"skills", "track", "launch"}
    BY <1>6
  <2> SUFFICES ASSUME given \notin {Absent, <<>>}
               PROVE  /\ Native(s) => given = ws[AgentMD]
                      /\ ~Native(s) /\ ~sess[s].replaced => Prefixed(s, sess[s].ws[ClaudeMD])'
    BY <1>10, <2>1, <2>2, Zenon DEF Instructed
  <2>3. Instructed(s) /\ sess[s].pc \in Made
    BY <1>1 DEF SessionGood, Made
  <2>4. CASE Native(s)
    <3>1. CASE p = AgentMD
      BY <1>5, <2>4, <3>1 DEF given
    <3>2. CASE p # AgentMD
      <4>1. given = sess[s].given /\ ws[AgentMD] = sess[s].ws[AgentMD]
        BY <1>5, <3>2, TextFacts DEF given
      <4> QED
        BY <2>3, <2>4, <4>1 DEF Instructed
    <3> QED
      BY <2>4, <3>1, <3>2
  <2>5. CASE ~Native(s) /\ ~sess[s].replaced
    <3>1. given = sess[s].given
      BY <2>5, Zenon DEF given
    <3>2. Prefixed(s, sess[s].ws[ClaudeMD])
      BY <2>3, <2>5, <3>1, Zenon DEF Instructed
    <3> DEFINE told == Expanded(s, sess[s].given)
               old == sess[s].ws[ClaudeMD]
    <3>3. sess[s].given \in Texts
      BY <1>1, <3>1 DEF Typed
    <3>4. told \in Texts
      BY <3>3, ExpandedIs
    <3>5. old # Absent /\ IsPrefix(told, old)
      BY <3>2 DEF Prefixed
    <3>6. old \in Texts
      BY <1>1, <3>5, TextFacts DEF Typed
    <3>7. ws[ClaudeMD] # Absent /\ IsPrefix(told, ws[ClaudeMD])
      <4>1. CASE p = ClaudeMD
        <5>1. ws[ClaudeMD] = Append(old, s) /\ ws[ClaudeMD] # Absent
          BY <1>3, <1>4, <1>5, <3>5, <4>1
        <5> HIDE DEF told, old
        <5>2. IsPrefix(told, Append(old, s))
          BY <3>4, <3>5, <3>6, TextFacts, PrefixGrows DEF Texts
        <5> QED
          BY <5>1, <5>2
      <4>2. CASE p # ClaudeMD
        BY <1>5, <3>5, <4>2, TextFacts
      <4> QED
        BY <4>1, <4>2
    <3> QED
      BY <1>10, <2>5, <3>1, <3>7, Zenon DEF Prefixed
  <2> QED
    BY <2>4, <2>5
<1>14. Passing(s)'
  <2>1. ws[p] # Absent
    BY <1>3, <1>5
  <2>2. step \in {"hook", "sync"} => \A i \in 1 .. Len(left) : ws[left[i]] # Absent
    BY <1>6, <2>1
  <2>3. step # "sync" /\ step # "ended"
    BY <1>6
  <2> QED
    BY <1>10, <1>11, <2>2, <2>3 DEF Passing
<1>15. Whole(s)'
  <2>1. ~sess[s].torn => \A q \in Files : ws[q] # <<>>
    BY <1>1, <1>3, <1>5 DEF SessionGood, Whole
  <2> QED
    BY <1>10, <2>1, Zenon DEF Whole
<1> QED
  BY <1>1, <1>9, <1>10, <1>11, <1>12, <1>13, <1>14, <1>15 DEF Keeps, SessionGood

\* The list of the pass names the files of its target, each with a text.
LEMMA ToSyncIs ==
  ASSUME NEW s \in Sessions, Typed(s)
  PROVE  /\ ToSync(s) \in Seq(Files)
         /\ \A i \in 1 .. Len(ToSync(s)) : sess[s].ws[ToSync(s)[i]] # Absent
         /\ Target(s) = {Mapped(s, p) : p \in ToSet(ToSync(s))}
<1> DEFINE S == {p \in Present(s) : MatchesAny(Mapped(s, p), sess[s].conf.context)}
           left == ToSync(s)
<1>1. left = Only(Walk, S)
  BY Zenon DEF ToSync
<1>2. S \subseteq Files /\ \A p \in S : sess[s].ws[p] # Absent
  BY DEF Present
<1>3. Target(s) = {Mapped(s, p) : p \in S}
  BY Zenon DEF Target
<1> HIDE DEF S, left
<1>4. left \in Seq(Files \cap S) /\ ToSet(left) = ToSet(Walk) \cap S
  BY <1>1, TextFacts, OnlyElements
<1>5. Files \cap S = S /\ ToSet(left) = S
  BY <1>2, <1>4, TextFacts
<1>6. left \in Seq(S)
  BY <1>4, <1>5, Zenon
<1>7. left \in Seq(Files) /\ \A i \in 1 .. Len(left) : left[i] \in S
  BY <1>2, <1>6
<1> QED
  BY <1>2, <1>3, <1>5, <1>7, Zenon DEF left

LEMMA EndKeeps ==
  ASSUME TemplatesInv, NEW s \in Sessions, End(s) PROVE Keeps(s)
<1> DEFINE step == IF HasPass(s) /\ ToSync(s) # <<>> THEN "sync" ELSE "ended"
           left == IF HasPass(s) THEN ToSync(s) ELSE <<>>
           none == {}
           has == HasPass(s)
           status == IF sess[s].detached THEN sess[s].status ELSE Updated(s, "completed")
           with == [pc |-> step, todo |-> left, synced |-> none, pass |-> has, status |-> status]
<1>1. sess[s].pc = "run" /\ UNCHANGED libraryVars /\ SessionGood(s) /\ Typed(s)
  BY DEF End, Is, Quiet, TemplatesInv, SessionGood
<1>2. Advance(s, with)
  BY Zenon DEF End
<1>3. /\ ToSync(s) \in Seq(Files)
      /\ \A i \in 1 .. Len(ToSync(s)) : sess[s].ws[ToSync(s)[i]] # Absent
      /\ Target(s) = {Mapped(s, p) : p \in ToSet(ToSync(s))}
  BY <1>1, ToSyncIs
<1>4. /\ left \in Seq(Files) /\ \A i \in 1 .. Len(left) : sess[s].ws[left[i]] # Absent
      /\ \/ step = "sync" /\ left # <<>> /\ left = ToSync(s)
         \/ step = "ended" /\ has /\ left = <<>> /\ left = ToSync(s)
         \/ step = "ended" /\ ~has
  BY <1>3
<1> HIDE DEF step, left, none, has, status
<1>5. /\ DOMAIN with = {"pc", "todo", "synced", "pass", "status"}
      /\ with.pc = step /\ with.todo = left /\ with.synced = none /\ with.pass = has
  OBVIOUS
<1> HIDE DEF with
<1>6. Writes(s, with)
  <2>1. DOMAIN with \subseteq Fields
    BY <1>5 DEF Fields
  <2> QED
    BY <1>2, <2>1, AdvanceIs DEF TemplatesInv
<1>7. /\ sess'[s].pc = step /\ sess'[s].todo = left /\ sess'[s].synced = none
      /\ sess'[s].pass = has /\ sess'[s].conf = sess[s].conf /\ sess'[s].ws = sess[s].ws
      /\ sess'[s].saved = sess[s].saved /\ sess'[s].open = sess[s].open
      /\ sess'[s].torn = sess[s].torn /\ sess'[s].replaced = sess[s].replaced
      /\ sess'[s].given = sess[s].given /\ sess'[s].prompt = sess[s].prompt
  <2>1. {"pc", "todo", "synced", "pass"} \subseteq DOMAIN with
    BY <1>5
  <2>2. {"conf", "ws", "saved", "open", "torn", "replaced", "given", "prompt"}
          \subseteq Fields \ DOMAIN with
    BY <1>5 DEF Fields
  <2> QED
    BY <1>5, <1>6, <2>1, <2>2 DEF Writes
<1>8. ~sess[s].open
  BY <1>1 DEF SessionGood, Passing
<1>9. Typed(s)'
  BY <1>1, <1>4, <1>7 DEF Typed, Made
<1>10. Instructed(s)'
  <2>1. Instructed(s) /\ sess[s].pc \in Made /\ step \notin {"skills", "track", "launch"}
    BY <1>1, <1>4 DEF SessionGood, Made
  <2> QED
    BY <1>7, <2>1, Zenon DEF Instructed, Native, Prefixed
<1>11. Passing(s)'
  <2>1. Target(s)' = Target(s)
    BY <1>7, Zenon DEF Target, Mapped, Native, Present
  <2>2. Unwritten(s)' = {Mapped(s, p) : p \in ToSet(left)}
    BY <1>7, Zenon DEF Unwritten, Mapped, Native
  <2>3. left = ToSync(s) => Unwritten(s)' = Target(s)
    BY <1>3, <2>2, Zenon
  <2>4. left = <<>> => ToSet(left) = {}
    BY DEF ToSet
  <2>5. left = <<>> => Unwritten(s)' = {}
    BY <2>2, <2>4
  <2> QED
    BY <1>4, <1>7, <1>8, <2>1, <2>3, <2>5 DEF Passing, none
<1>12. Whole(s)'
  BY <1>1, <1>7, Zenon DEF SessionGood, Whole
<1> QED
  BY <1>1, <1>6, <1>7, <1>8, <1>9, <1>10, <1>11, <1>12 DEF Keeps, SessionGood

\* An effect on the template and on one session of it.
LEMMA OpenKeeps ==
  ASSUME TemplatesInv, NEW s \in Sessions, OpenSynced(s) PROVE TemplatesInv'
<1> DEFINE q == Mapped(s, Head(sess[s].todo))
           with == [open |-> TRUE]
<1>1. /\ sess[s].pc \in {"hook", "sync"} /\ sess[s].todo # <<>> /\ ~sess[s].open
      /\ files' = [files EXCEPT ![q] = <<>>] /\ Advance(s, with)
      /\ UNCHANGED <<config, cmds, scenario>>
  BY Zenon DEF OpenSynced
<1>2. SessionGood(s) /\ Typed(s) /\ files \in [Files -> Texts \cup {Absent}]
  BY DEF TemplatesInv, SessionGood, LibraryInv
<1>3. Head(sess[s].todo) \in Files
  BY <1>1, <1>2 DEF Typed
<1>4. q \in Files
  BY <1>3, TextFacts DEF Mapped
<1> HIDE DEF q
<1>5. DOMAIN with = {"open"} /\ with.open = TRUE
  OBVIOUS
<1> HIDE DEF with
<1>6. Writes(s, with)
  <2>1. DOMAIN with \subseteq Fields
    BY <1>5 DEF Fields
  <2> QED
    BY <1>1, <2>1, AdvanceIs DEF TemplatesInv
<1>7. sess'[s].open = TRUE /\ \A f \in Fields \ {"open"} : sess'[s][f] = sess[s][f]
  BY <1>5, <1>6 DEF Writes
<1>8. /\ sess'[s].pc = sess[s].pc /\ sess'[s].ws = sess[s].ws /\ sess'[s].todo = sess[s].todo
      /\ sess'[s].given = sess[s].given /\ sess'[s].conf = sess[s].conf
      /\ sess'[s].saved = sess[s].saved /\ sess'[s].prompt = sess[s].prompt
      /\ sess'[s].replaced = sess[s].replaced /\ sess'[s].synced = sess[s].synced
      /\ sess'[s].pass = sess[s].pass /\ sess'[s].torn = sess[s].torn
  BY <1>7 DEF Fields
<1>9. SessionGood(s)'
  <2>1. Typed(s)'
    BY <1>2, <1>8 DEF Typed
  <2>2. Instructed(s)'
    BY <1>2, <1>8, Zenon DEF SessionGood, Instructed, Native, Prefixed
  <2>3. Target(s)' = Target(s) /\ Unwritten(s)' = Unwritten(s)
    BY <1>8, Zenon DEF Target, Unwritten, Mapped, Native, Present
  <2>4. Passing(s)'
    BY <1>1, <1>2, <1>8, <2>3 DEF SessionGood, Passing
  <2>5. Whole(s)'
    BY <1>2, <1>8, Zenon DEF SessionGood, Whole
  <2> QED
    BY <2>1, <2>2, <2>4, <2>5 DEF SessionGood
<1>10. ASSUME NEW t \in Sessions PROVE SessionGood(t)'
  <2>1. CASE t = s
    BY <1>9, <2>1
  <2>2. CASE t # s
    BY <1>6, <2>2, Untouched DEF TemplatesInv, Writes
  <2> QED
    BY <2>1, <2>2
<1>11. BeingWritten'
  <2> SUFFICES ASSUME \A t \in Sessions : ~sess'[t].torn, NEW p \in Files, files'[p] = <<>>
               PROVE  \E t \in Sessions : sess'[t].open /\ Mapped(t, Head(sess[t].todo))' = p
    BY Zenon DEF BeingWritten
  <2>1. CASE p = q
    <3>1. Mapped(s, Head(sess[s].todo))' = q
      BY <1>8, Zenon DEF Mapped, Native, q
    <3> QED
      BY <1>7, <2>1, <3>1
  <2>2. CASE p # q
    <3>1. files[p] = <<>>
      BY <1>1, <1>2, <2>2
    <3>2. \A t \in Sessions : ~sess[t].torn
      <4>1. \A t \in Sessions : t # s => sess'[t] = sess[t]
        BY <1>6 DEF Writes
      <4>2. ASSUME NEW t \in Sessions PROVE ~sess[t].torn
        <5>1. sess'[t].torn = sess[t].torn
          BY <1>8, <4>1
        <5> QED
          BY <5>1
      <4> QED
        BY <4>2
    <3>3. PICK t \in Sessions : sess[t].open /\ Mapped(t, Head(sess[t].todo)) = p
      BY <3>1, <3>2, Zenon DEF TemplatesInv, BeingWritten
    <3>4. t # s
      BY <1>1, <3>3
    <3>5. sess'[t] = sess[t]
      BY <1>6, <3>4 DEF Writes
    <3>6. Mapped(t, Head(sess[t].todo))' = Mapped(t, Head(sess[t].todo))
      BY <3>5, Zenon DEF Mapped, Native
    <3> QED
      BY <3>3, <3>5, <3>6, Zenon
  <2> QED
    BY <2>1, <2>2
<1>12. LibraryInv'
  <2>1. files' \in [Files -> Texts \cup {Absent}]
    BY <1>1, <1>2, <1>4, TextFacts
  <2> QED
    BY <1>1, <2>1 DEF TemplatesInv, LibraryInv
<1> QED
  BY <1>6, <1>10, <1>11, <1>12 DEF TemplatesInv, Writes

\* What is written over another text, or into an empty file, is not empty.
LEMMA OverIs ==
  ASSUME NEW a \in Texts, NEW b \in Texts
  PROVE  Over(a, b) \in Texts /\ (a # <<>> => Over(a, b) # <<>>)
<1> DEFINE r == SubSeq(b, Len(a) + 1, Len(b))
<1>1. r \in Seq(Marks)
  BY DEF Texts
<1> HIDE DEF r
<1>2. a \o r \in Seq(Marks) /\ (a # <<>> => a \o r # <<>>)
  BY <1>1 DEF Texts
<1>3. Over(a, b) = a \o r
  BY Zenon DEF Over, r
<1> QED
  BY <1>2, <1>3 DEF Texts

LEMMA WriteKeeps ==
  ASSUME TemplatesInv, NEW s \in Sessions, WriteSynced(s) PROVE TemplatesInv'
<1> DEFINE h == Head(sess[s].todo)
           q == Mapped(s, h)
           left == Tail(sess[s].todo)
           synced == sess[s].synced \cup {q}
           step == CASE Is(s, "hook") -> "run"
                   [] Is(s, "sync") /\ Len(sess[s].todo) = 1 -> "ended"
                   [] OTHER -> "sync"
           with == [open |-> FALSE, todo |-> left, synced |-> synced, pc |-> step]
<1>1. /\ sess[s].open /\ Advance(s, with) /\ UNCHANGED <<config, cmds, scenario>>
      /\ files' = [files EXCEPT ![q] = IF @ = Absent THEN Absent ELSE Over(sess[s].ws[h], @)]
  BY Zenon DEF WriteSynced
<1>2. SessionGood(s) /\ Typed(s) /\ files \in [Files -> Texts \cup {Absent}]
  BY DEF TemplatesInv, SessionGood, LibraryInv
<1>3. sess[s].pc \in {"hook", "sync"} /\ sess[s].todo # <<>>
  BY <1>1, <1>2 DEF SessionGood, Passing
<1>4. /\ sess[s].todo \in Seq(Files) /\ Len(sess[s].todo) \in Nat /\ Len(sess[s].todo) # 0
      /\ h \in Files /\ h = sess[s].todo[1] /\ left \in Seq(Files)
      /\ Len(left) = Len(sess[s].todo) - 1
      /\ \A i \in 1 .. Len(left) : i + 1 \in 1 .. Len(sess[s].todo) /\ left[i] = sess[s].todo[i + 1]
  BY <1>2, <1>3 DEF Typed
<1>5. ToSet(sess[s].todo) = {h} \cup ToSet(left)
  <2> DEFINE all == sess[s].todo
  <2> HIDE DEF h, left, all
  <2>1. ToSet(all) = {all[i] : i \in 1 .. Len(all)}
    BY <1>4 DEF ToSet, all
  <2>2. ToSet(left) = {left[i] : i \in 1 .. Len(left)}
    BY <1>4 DEF ToSet
  <2>3. ASSUME NEW x, x \in ToSet(all) PROVE x \in {h} \cup ToSet(left)
    <3>1. PICK i \in 1 .. Len(all) : x = all[i]
      BY <2>1, <2>3 DEF all
    <3>2. CASE i = 1
      BY <1>4, <3>1, <3>2 DEF all
    <3>3. CASE i # 1
      <4>1. PICK j : j = i - 1
        OBVIOUS
      <4>2. j \in 1 .. Len(left) /\ i = j + 1
        BY <1>4, <3>1, <3>3, <4>1 DEF all
      <4>3. x = left[j]
        BY <1>4, <3>1, <4>2 DEF all
      <4> QED
        BY <2>2, <4>2, <4>3
    <3> QED
      BY <3>2, <3>3
  <2>4. ASSUME NEW x, x \in {h} \cup ToSet(left) PROVE x \in ToSet(all)
    <3>1. CASE x = h
      <4>1. 1 \in 1 .. Len(all)
        BY <1>4 DEF all
      <4> QED
        BY <1>4, <2>1, <3>1, <4>1 DEF all
    <3>2. CASE x \in ToSet(left)
      <4>1. PICK i \in 1 .. Len(left) : x = left[i]
        BY <2>2, <3>2
      <4>2. i + 1 \in 1 .. Len(all) /\ x = all[i + 1]
        BY <1>4, <4>1 DEF all
      <4> QED
        BY <2>1, <4>2 DEF all
    <3> QED
      BY <2>4, <3>1, <3>2
  <2>5. ToSet(all) = {h} \cup ToSet(left)
    BY <2>3, <2>4
  <2> QED
    BY <2>5 DEF all
<1>6. q \in Files
  BY <1>4, TextFacts DEF Mapped
<1>7. \/ sess[s].pc = "hook" /\ step = "run"
      \/ sess[s].pc = "sync" /\ Len(sess[s].todo) = 1 /\ step = "ended"
      \/ sess[s].pc = "sync" /\ Len(sess[s].todo) # 1 /\ step = "sync"
  BY <1>3 DEF Is
<1>8. sess[s].ws[h] # Absent /\ sess[s].ws[h] \in Texts
  BY <1>2, <1>3, <1>4 DEF SessionGood, Passing, Typed
<1>9. Unwritten(s) = {q} \cup {Mapped(s, p) : p \in ToSet(left)}
  <2> HIDE DEF h, left
  <2>1. Unwritten(s) = {Mapped(s, p) : p \in {h} \cup ToSet(left)}
    BY <1>5, Zenon DEF Unwritten
  <2> QED
    BY <2>1, Zenon
<1> HIDE DEF h, q, left, synced, step
<1>10. /\ DOMAIN with = {"open", "todo", "synced", "pc"} /\ with.open = FALSE
       /\ with.todo = left /\ with.synced = synced /\ with.pc = step
  OBVIOUS
<1> HIDE DEF with
<1>11. Writes(s, with)
  <2>1. DOMAIN with \subseteq Fields
    BY <1>10 DEF Fields
  <2> QED
    BY <1>1, <2>1, AdvanceIs DEF TemplatesInv
<1>12. /\ sess'[s].open = FALSE /\ sess'[s].todo = left /\ sess'[s].synced = synced
       /\ sess'[s].pc = step /\ sess'[s].conf = sess[s].conf /\ sess'[s].ws = sess[s].ws
       /\ sess'[s].saved = sess[s].saved /\ sess'[s].torn = sess[s].torn
       /\ sess'[s].replaced = sess[s].replaced /\ sess'[s].given = sess[s].given
       /\ sess'[s].prompt = sess[s].prompt
  <2>1. {"open", "todo", "synced", "pc"} \subseteq DOMAIN with
    BY <1>10
  <2>2. {"conf", "ws", "saved", "torn", "replaced", "given", "prompt"} \subseteq Fields \ DOMAIN with
    BY <1>10 DEF Fields
  <2> QED
    BY <1>10, <1>11, <2>1, <2>2 DEF Writes
<1>13. SessionGood(s)'
  <2>1. Typed(s)'
    BY <1>2, <1>4, <1>7, <1>12 DEF Typed, Made
  <2>2. Instructed(s)'
    <3>1. Instructed(s) /\ sess[s].pc \in Made /\ step \notin {"skills", "track", "launch"}
      BY <1>2, <1>3, <1>7 DEF SessionGood, Made
    <3> QED
      BY <1>12, <3>1, Zenon DEF Instructed, Native, Prefixed
  <2>3. Target(s)' = Target(s)
    BY <1>12, Zenon DEF Target, Mapped, Native, Present
  <2>4. Unwritten(s)' = {Mapped(s, p) : p \in ToSet(left)}
    BY <1>12, Zenon DEF Unwritten, Mapped, Native
  <2>5. sess[s].pc = "sync" => synced \cup Unwritten(s)' = Target(s)
    <3>1. sess[s].pc = "sync" => sess[s].synced \cup Unwritten(s) = Target(s)
      BY <1>2 DEF SessionGood, Passing
    <3>2. Unwritten(s) = {q} \cup Unwritten(s)'
      BY <1>9, <2>4, Zenon
    <3> QED
      BY <3>1, <3>2 DEF synced
  <2>6. left = <<>> => Unwritten(s)' = {}
    <3>1. left = <<>> => ToSet(left) = {}
      BY DEF ToSet
    <3>2. {Mapped(s, p) : p \in {}} = {}
      OBVIOUS
    <3> QED
      BY <2>4, <3>1, <3>2, Zenon
  <2>7. step = "sync" => left # <<>>
    <3>1. Len(left) # 0 => left # <<>>
      OBVIOUS
    <3>2. Len(sess[s].todo) # 1 => Len(left) # 0
      BY <1>4
    <3>3. step = "sync" => Len(sess[s].todo) # 1
      BY <1>7
    <3> QED
      BY <3>1, <3>2, <3>3
  <2>8. step = "ended" => left = <<>>
    BY <1>4, <1>7
  <2>9. \A i \in 1 .. Len(left) : sess[s].ws[left[i]] # Absent
    BY <1>2, <1>3, <1>4 DEF SessionGood, Passing
  <2>10. Passing(s)'
    BY <1>7, <1>12, <2>3, <2>5, <2>6, <2>7, <2>8, <2>9 DEF Passing
  <2>11. Whole(s)'
    BY <1>2, <1>12, Zenon DEF SessionGood, Whole
  <2> QED
    BY <2>1, <2>2, <2>10, <2>11 DEF SessionGood
<1>14. ASSUME NEW t \in Sessions PROVE SessionGood(t)'
  <2>1. CASE t = s
    BY <1>13, <2>1
  <2>2. CASE t # s
    BY <1>11, <2>2, Untouched DEF TemplatesInv, Writes
  <2> QED
    BY <2>1, <2>2
<1>15. /\ files' \in [Files -> Texts \cup {Absent}]
       /\ \A p \in Files : p # q => files'[p] = files[p]
       /\ sess[s].ws[h] # <<>> => files'[q] # <<>>
  <2> DEFINE new == IF files[q] = Absent THEN Absent ELSE Over(sess[s].ws[h], files[q])
  <2>1. files' = [files EXCEPT ![q] = new]
    BY <1>1
  <2>2. new \in Texts \cup {Absent} /\ (sess[s].ws[h] # <<>> => new # <<>>)
    BY <1>2, <1>6, <1>8, OverIs, TextFacts
  <2> HIDE DEF new
  <2> QED
    BY <1>2, <1>6, <2>1, <2>2
<1>16. BeingWritten'
  <2> SUFFICES ASSUME \A t \in Sessions : ~sess'[t].torn, NEW p \in Files, files'[p] = <<>>
               PROVE  \E t \in Sessions : sess'[t].open /\ Mapped(t, Head(sess[t].todo))' = p
    BY Zenon DEF BeingWritten
  <2>1. \A t \in Sessions : ~sess[t].torn
    <3>1. \A t \in Sessions : t # s => sess'[t] = sess[t]
      BY <1>11 DEF Writes
    <3>2. ASSUME NEW t \in Sessions PROVE ~sess[t].torn
      <4>1. sess'[t].torn = sess[t].torn
        BY <1>12, <3>1
      <4> QED
        BY <4>1
    <3> QED
      BY <3>2
  <2>2. sess[s].ws[h] # <<>>
    BY <1>2, <1>4, <2>1 DEF SessionGood, Whole
  <2>3. p # q /\ files[p] = <<>>
    BY <1>15, <2>2
  <2>4. PICK t \in Sessions : sess[t].open /\ Mapped(t, Head(sess[t].todo)) = p
    BY <2>1, <2>3, Zenon DEF TemplatesInv, BeingWritten
  <2>5. t # s
    BY <2>3, <2>4, Zenon DEF q, h
  <2>6. sess'[t] = sess[t]
    BY <1>11, <2>5 DEF Writes
  <2>7. Mapped(t, Head(sess[t].todo))' = Mapped(t, Head(sess[t].todo))
    BY <2>6, Zenon DEF Mapped, Native
  <2> QED
    BY <2>4, <2>6, <2>7, Zenon
<1>17. LibraryInv'
  BY <1>1, <1>15 DEF TemplatesInv, LibraryInv
<1> QED
  BY <1>11, <1>14, <1>16, <1>17 DEF TemplatesInv, Writes

LEMMA TemplatesInitial == Init => TemplatesInv
<1> SUFFICES ASSUME Init PROVE TemplatesInv
  OBVIOUS
<1>1. LibraryInv /\ \A p \in Files : files[p] # <<>>
  BY LibraryInitial DEF Init
<1>2. sess = [s \in Sessions |-> Unborn]
  BY DEF Init
<1>3. Shaped
  BY <1>2, FieldNames DEF Shaped
<1>4. ASSUME NEW s \in Sessions PROVE SessionGood(s)
  <2>1. /\ Unborn.pc = "unborn" /\ Unborn.ws = NoFiles /\ Unborn.todo = <<>>
        /\ Unborn.given = Absent /\ Unborn.open = FALSE
    BY DEF Unborn
  <2>2. /\ sess[s].pc = "unborn" /\ sess[s].ws = NoFiles /\ sess[s].todo = <<>>
        /\ sess[s].given = Absent /\ ~sess[s].open
    BY <1>2, <2>1
  <2>3. Typed(s)
    BY <2>2, NoFilesAre DEF Typed, Made
  <2>4. Instructed(s) /\ Passing(s)
    BY <2>2 DEF Instructed, Passing, Made
  <2>5. Whole(s)
    BY <2>2, NoFilesAre DEF Whole
  <2> QED
    BY <2>3, <2>4, <2>5 DEF SessionGood
<1> QED
  BY <1>1, <1>3, <1>4 DEF TemplatesInv, BeingWritten

\* Commands change sessions at most in their status, and empty no file.
LEMMA CommandsKeep ==
  ASSUME TemplatesInv, NEW c \in Commands,
         (CommandStep(c) /\ UNCHANGED sess) \/ DropSessions(c)
  PROVE  TemplatesInv'
<1>1. LibraryInv' /\ NoneEmptied
  BY CommandKeeps DEF TemplatesInv, DropSessions
<1>2. Shaped' /\ \A t \in Sessions : \A f \in Fields \ {"status"} : sess'[t][f] = sess[t][f]
  <2>1. CASE sess' = sess
    BY <2>1 DEF TemplatesInv, Shaped
  <2>2. CASE sess' = [t \in Sessions |-> [sess[t] EXCEPT !.status = "none"]]
    <3>1. ASSUME NEW t \in Sessions
          PROVE  /\ DOMAIN sess'[t] = Fields
                 /\ \A f \in Fields \ {"status"} : sess'[t][f] = sess[t][f]
      <4>1. sess'[t] = [sess[t] EXCEPT !.status = "none"]
        BY <2>2
      <4> QED
        BY <4>1 DEF TemplatesInv, Shaped
    <3> QED
      BY <2>2, <3>1 DEF Shaped
  <2> QED
    BY <2>1, <2>2, Zenon DEF DropSessions
<1>3. ASSUME NEW t \in Sessions PROVE SessionGood(t)'
  BY <1>2, Untouched DEF TemplatesInv
<1>4. BeingWritten'
  <2> SUFFICES ASSUME \A t \in Sessions : ~sess'[t].torn, NEW p \in Files, files'[p] = <<>>
               PROVE  \E t \in Sessions : sess'[t].open /\ Mapped(t, Head(sess[t].todo))' = p
    BY Zenon DEF BeingWritten
  <2>1. ASSUME NEW t \in Sessions
        PROVE  /\ sess'[t].torn = sess[t].torn /\ sess'[t].open = sess[t].open
               /\ sess'[t].todo = sess[t].todo /\ sess'[t].conf = sess[t].conf
    BY <1>2 DEF Fields
  <2>2. files[p] = <<>>
    BY <1>1 DEF NoneEmptied
  <2>3. \A t \in Sessions : ~sess[t].torn
    BY <2>1, Zenon
  <2>4. PICK t \in Sessions : sess[t].open /\ Mapped(t, Head(sess[t].todo)) = p
    BY <2>2, <2>3, Zenon DEF TemplatesInv, BeingWritten
  <2>5. Mapped(t, Head(sess[t].todo))' = Mapped(t, Head(sess[t].todo))
    BY <2>1, Zenon DEF Mapped, Native
  <2> QED
    BY <2>1, <2>4, <2>5, Zenon
<1> QED
  BY <1>1, <1>2, <1>3, <1>4 DEF TemplatesInv

LEMMA SessionsKeep ==
  ASSUME TemplatesInv, NEW s \in Sessions, SessionStep(s) PROVE TemplatesInv'
<1>1. CASE SpawnSession(s) \/ SpawnSubSession(s)
  BY <1>1, BeginKeeps, KeepsAll DEF SpawnSession, SpawnSubSession
<1>2. CASE CopyFile(s)
  BY <1>2, CopyKeeps, KeepsAll
<1>3. CASE PrepareSession(s)
  BY <1>3, PrepareKeeps, KeepsAll
<1>4. CASE ResolveSkills(s)
  BY <1>4, ResolveKeeps, KeepsAll
<1>5. CASE Track(s)
  BY <1>5, TrackKeeps, KeepsAll
<1>6. CASE Launch(s)
  BY <1>6, LaunchKeeps, KeepsAll
<1>7. CASE ResumeSession(s) \/ ResumeSubSession(s)
  BY <1>7, ResumeKeeps, KeepsAll DEF ResumeSession, ResumeSubSession
<1>8. CASE End(s)
  BY <1>8, EndKeeps, KeepsAll
<1>9. CASE OpenSynced(s)
  BY <1>9, OpenKeeps
<1>10. CASE WriteSynced(s)
  BY <1>10, WriteKeeps
<1>11. CASE \E p \in Files : Edit(s, p)
  BY <1>11, EditKeeps, KeepsAll
<1> QED
  BY <1>1, <1>2, <1>3, <1>4, <1>5, <1>6, <1>7, <1>8, <1>9, <1>10, <1>11 DEF SessionStep

LEMMA TemplatesNext == TemplatesInv /\ [Next]_vars => TemplatesInv'
<1> SUFFICES ASSUME TemplatesInv, [Next]_vars PROVE TemplatesInv'
  OBVIOUS
<1>1. CASE \E s \in Sessions : SessionStep(s)
  BY <1>1, SessionsKeep
<1>2. CASE \E c \in Commands : (CommandStep(c) /\ UNCHANGED sess) \/ DropSessions(c)
  BY <1>2, CommandsKeep
<1>3. CASE UNCHANGED vars
  <2>1. sess' = sess /\ files' = files /\ LibraryInv'
    BY <1>3 DEF vars, libraryVars, TemplatesInv, LibraryInv
  <2>2. ASSUME NEW t \in Sessions PROVE SessionGood(t)'
    BY <2>1, Untouched DEF TemplatesInv
  <2>3. Shaped'
    BY <2>1 DEF TemplatesInv, Shaped
  <2>4. BeingWritten'
    BY <2>1, Zenon DEF TemplatesInv, BeingWritten, Mapped, Native
  <2> QED
    BY <2>1, <2>2, <2>3, <2>4 DEF TemplatesInv
<1> QED
  BY <1>1, <1>2, <1>3 DEF Next

\* The inductive invariant of the workspaces and the template holds throughout.
THEOREM TemplatesKept == Spec => []TemplatesInv
<1> QED
  BY TemplatesInitial, TemplatesNext, PTL DEF Spec

\* A runtime starts with the instructions that the agent had when the session was
\* spawned, however often it is resumed, and whatever happens to the template
\* (PrepareSession, ComposePrompt, ResumeSession).
THEOREM InstructionsAreKept == Spec => []InstructionsKept
<1>1. TemplatesInv => InstructionsKept
  <2> SUFFICES ASSUME TemplatesInv, NEW s \in Sessions, ~sess[s].replaced, sess[s].pc = "launch",
                      sess[s].given \notin {Absent, <<>>}
               PROVE  Payload(s) # Absent /\ IsPrefix(Expanded(s, sess[s].given), Payload(s))
    BY Zenon DEF InstructionsKept, BeginsWithInstructions, Is
  <2>1. Instructed(s) /\ sess[s].pc \in Made
    BY DEF TemplatesInv, SessionGood, Made
  <2>2. CASE Native(s)
    <3>1. Prefixed(s, sess[s].prompt)
      BY <2>1, <2>2 DEF Instructed
    <3> QED
      BY <2>2, <3>1, Zenon DEF Payload, Prefixed
  <2>3. CASE ~Native(s)
    <3>1. Prefixed(s, sess[s].ws[ClaudeMD])
      BY <2>1, <2>3 DEF Instructed
    <3> QED
      BY <2>3, <3>1, Zenon DEF Payload, Prefixed
  <2> QED
    BY <2>2, <2>3
<1> QED
  BY <1>1, TemplatesKept, PTL

\* A file of the template that nobody is writing has its text, unless a session
\* was spawned from it while it was truncated (SyncBack's CopyFile, CopyDir).
THEOREM TextsSurvive == Spec => []TextSurvives
<1>1. TemplatesInv => TextSurvives
  BY Zenon DEF TemplatesInv, BeingWritten, TextSurvives
<1> QED
  BY <1>1, TemplatesKept, PTL

-----------------------------------------------------------------------------
(* The patterns: the matcher of the pass and the documented table (Sync)      *)

\* The names in paths; that a literal is a STRING is beyond the provers.
PathNames == Names \cup {Name("agent", "md"), Name("CLAUDE", "md")}

LEMMA FilesArePaths == \A p \in Files : p \in Seq(PathNames) /\ p # <<>>
<1>1. \A x \in PathNames : <<x>> \in Seq(PathNames) /\ <<x>> # <<>>
  OBVIOUS
<1>2. Name("agent", "md") \in PathNames /\ Name("CLAUDE", "md") \in PathNames
  BY DEF PathNames
<1>3. AgentMD \in Seq(PathNames) \ {<<>>} /\ ClaudeMD \in Seq(PathNames) \ {<<>>}
  BY <1>1, <1>2, Zenon DEF AgentMD, ClaudeMD
<1>4. \A p \in UserFiles : p \in Seq(PathNames) /\ p # <<>>
  <2>1. Names \subseteq PathNames
    BY DEF PathNames
  <2> HIDE DEF PathNames
  <2>2. UserFiles \subseteq Seq(Names) \ {<<>>}
    BY LibraryAssumption DEF LibraryAssumption, Paths
  <2> QED
    BY <2>1, <2>2
<1> QED
  BY <1>3, <1>4 DEF Files

LEMMA DeepIs == Deep.kind = "deep"
  BY Zenon DEF Deep

\* The place of the first "**".
LEMMA DeepAt ==
  ASSUME NEW segs \in Seq(Forms), NEW k \in 1 .. Len(segs), segs[k] = Deep,
         \A i \in 1 .. k - 1 : segs[i] # Deep
  PROVE  SelectInSeq(segs, IsDeep) = k
<1> DEFINE I == {i \in 1 .. Len(segs) : IsDeep(segs[i])}
<1>1. k \in I /\ I \subseteq Nat /\ \A i \in I : k <= i
  BY DEF IsDeep
<1>2. SelectInSeq(segs, IsDeep) = IF I # {} THEN Min(I) ELSE 0
  BY DEF SelectInSeq
<1> HIDE DEF I
<1>3. Min(I) \in I /\ \A i \in I : Min(I) <= i
  <2>1. \E x \in I : \A y \in I : x <= y
    BY <1>1
  <2> QED
    BY <2>1, Zenon DEF Min
<1> DEFINE min == Min(I)
<1>4. min = k
  <2>1. min \in I /\ \A i \in I : min <= i
    BY <1>3
  <2> HIDE DEF min
  <2> QED
    BY <1>1, <2>1
<1> QED
  BY <1>1, <1>2, <1>4, Zenon

\* The first n elements of two sequences.
LEMMA FirstOnes ==
  ASSUME NEW T, NEW a \in Seq(T), NEW n \in 0 .. Len(a)
  PROVE  /\ SubSeq(a, 1, n) \in Seq(T) /\ Len(SubSeq(a, 1, n)) = n
         /\ SubSeq(SubSeq(a, 1, n), 1, n) = SubSeq(a, 1, n)
<1> DEFINE b == SubSeq(a, 1, n)
           c == SubSeq(b, 1, n)
<1>1. b \in Seq(T) /\ Len(b) = n /\ \A i \in 1 .. n : b[i] = a[i]
  OBVIOUS
<1> HIDE DEF b
<1>2. c \in Seq(T) /\ Len(c) = n /\ \A i \in 1 .. n : c[i] = b[i]
  BY <1>1
<1> HIDE DEF c
<1>3. c = b
  BY <1>1, <1>2, SameSequence
<1> QED
  BY <1>1, <1>3 DEF b, c

\* A directory: what lies below it.
LEMMA DirectoryMatch ==
  ASSUME NEW path \in Files, NEW pat \in Patterns, pat.slash, ~DottedDirectory(pat),
         Listed(pat, Files)
  PROVE  MatchOne(path, pat) <=> Documented(path, pat)
<1> DEFINE segs == pat.segs
           n == Len(segs)
<1>1. segs \in Seq(Forms) /\ n \in Nat /\ n # 0 /\ path \in Seq(PathNames)
  BY FilesArePaths DEF Patterns
<1>2. /\ \A i \in 1 .. n : segs[i].kind = "name"
      /\ path # segs /\ (n = 1 => Last(path) # segs[1])
  BY DEF Listed
<1>3. DOMAIN segs = 1 .. n
  BY <1>1
<1>4. IsDir(pat)
  BY <1>2, <1>3, Zenon DEF IsDir, DottedDirectory
<1>5. Documented(path, pat) <=> IsStrictPrefix(segs, path)
  BY Zenon DEF Documented
<1>6. ~Contains(segs, Deep)
  BY <1>2, DeepIs DEF Contains
<1>7. \A i \in 1 .. n : \A name : SegmentMatches(name, segs[i]) => name = segs[i]
  BY <1>2 DEF SegmentMatches
<1> HIDE DEF segs, n
<1>8. ~GlobMatches(path, segs)
  <2> SUFFICES ASSUME GlobMatches(path, segs) PROVE FALSE
    OBVIOUS
  <2>1. Len(path) = n /\ \A i \in 1 .. n : path[i] = segs[i]
    BY <1>3, <1>7 DEF GlobMatches, n
  <2> DEFINE T == PathNames \cup Forms
  <2>2. path \in Seq(T) /\ segs \in Seq(T)
    BY <1>1
  <2> HIDE DEF T
  <2>3. path = segs
    BY <2>1, <2>2, SameSequence DEF n
  <2> QED
    BY <1>2, <2>3
<1>9. n = 1 => ~GlobMatches(<<Last(path)>>, segs)
  <2> SUFFICES ASSUME n = 1, GlobMatches(<<Last(path)>>, segs) PROVE FALSE
    OBVIOUS
  <2>1. SegmentMatches(<<Last(path)>>[1], segs[1])
    BY <1>3 DEF GlobMatches
  <2>2. Last(path) = segs[1]
    BY <1>7, <2>1
  <2> QED
    BY <1>2, <2>2
<1>10. MatchOne(path, pat) <=> IsPrefix(segs, path)
  BY <1>4, <1>6, <1>8, <1>9, Zenon DEF MatchOne, segs, n
<1> QED
  BY <1>2, <1>5, <1>10, Zenon DEF IsStrictPrefix

\* A glob without a slash: the last name.
LEMMA NameMatch ==
  ASSUME NEW path \in Files, NEW pat \in Patterns, ~pat.slash, Len(pat.segs) = 1,
         Listed(pat, Files)
  PROVE  MatchOne(path, pat) <=> Documented(path, pat)
<1> DEFINE segs == pat.segs
<1>1. /\ segs \in Seq(Forms) /\ Len(segs) = 1 /\ DOMAIN segs = {1}
      /\ path \in Seq(PathNames) /\ Len(path) \in Nat /\ Len(path) # 0
  BY FilesArePaths DEF Patterns
<1>2. ~IsDir(pat)
  BY DEF Listed
<1>3. Documented(path, pat) <=> SegmentMatches(Last(path), segs[1])
  BY DEF Documented
<1> HIDE DEF segs
<1>4. GlobMatches(<<Last(path)>>, segs) <=> SegmentMatches(Last(path), segs[1])
  BY <1>1 DEF GlobMatches
<1>5. GlobMatches(path, segs) => SegmentMatches(Last(path), segs[1])
  BY <1>1 DEF GlobMatches, Last
<1>6. CASE segs[1] = Deep
  <2>1. SegmentMatches(Last(path), segs[1])
    BY <1>6, DeepIs DEF SegmentMatches
  <2>2. SelectInSeq(segs, IsDeep) = 1
    BY <1>1, <1>6, DeepAt
  <2> DEFINE pre == SubSeq(segs, 1, 1 - 1)
             suf == SubSeq(segs, 1 + 1, Len(segs))
  <2>3. pre = <<>> /\ suf = <<>>
    BY <1>1
  <2> HIDE DEF pre, suf
  <2>4. IsStrictPrefix(pre, path)
    <3>1. SubSeq(path, 1, 0) = <<>> /\ SubSeq(pre, 1, 0) = <<>> /\ Len(pre) = 0
      BY <1>1, <2>3
    <3> QED
      BY <1>1, <2>3, <3>1 DEF IsStrictPrefix, IsPrefix
  <2>5. MatchDoublestar(path, segs)
    BY <2>2, <2>3, <2>4, Zenon DEF MatchDoublestar, pre, suf
  <2>6. Contains(segs, Deep)
    BY <1>1, <1>6 DEF Contains
  <2> QED
    BY <1>3, <2>1, <2>5, <2>6, Zenon DEF MatchOne, segs
<1>7. CASE segs[1] # Deep
  <2>1. ~Contains(segs, Deep)
    BY <1>1, <1>7 DEF Contains
  <2>2. MatchOne(path, pat) <=> GlobMatches(path, segs) \/ GlobMatches(<<Last(path)>>, segs)
    BY <1>1, <1>2, <2>1, Zenon DEF MatchOne, segs
  <2> QED
    BY <1>3, <1>4, <1>5, <2>2
<1> QED
  BY <1>6, <1>7

\* A glob for a path.
LEMMA PathMatch ==
  ASSUME NEW path \in Files, NEW pat \in Patterns, ~pat.slash, Len(pat.segs) # 1,
         pat.segs[Len(pat.segs) - 1] # Deep, Listed(pat, Files)
  PROVE  MatchOne(path, pat) <=> Documented(path, pat)
<1> DEFINE segs == pat.segs
           n == Len(segs)
<1>1. segs \in Seq(Forms) /\ n \in Nat /\ DOMAIN segs = 1 .. n /\ n > 1
  <2>1. segs \in Seq(Forms) /\ segs # <<>> /\ n # 1
    BY DEF Patterns
  <2> HIDE DEF segs
  <2>2. Len(segs) # 0 /\ Len(segs) \in Nat /\ DOMAIN segs = 1 .. Len(segs)
    BY <2>1, EmptySeq
  <2>3. \A m \in Nat : m # 0 /\ m # 1 => m > 1
    OBVIOUS
  <2> QED
    BY <2>1, <2>2, <2>3, Zenon
<1>2. ~IsDir(pat) /\ \A i \in 1 .. n : segs[i] # Deep
  BY Zenon DEF Listed
<1>3. Documented(path, pat)
        <=> /\ Len(path) = n
            /\ \A i \in 1 .. n : SegmentMatches(path[i], segs[i])
  BY Zenon DEF Documented
<1>4. ~Contains(segs, Deep)
  BY <1>2, Zenon DEF Contains
<1> HIDE DEF segs, n
<1>5. MatchOne(path, pat) <=> GlobMatches(path, segs)
  BY <1>1, <1>2, <1>4, Zenon DEF MatchOne, segs, n
<1> QED
  BY <1>1, <1>3, <1>5, Zenon DEF GlobMatches, n

\* "**" before the last segment: below a directory, at any depth.
LEMMA DeepMatch ==
  ASSUME NEW path \in Files, NEW pat \in Patterns, ~pat.slash, Len(pat.segs) # 1,
         pat.segs[Len(pat.segs) - 1] = Deep, Listed(pat, Files)
  PROVE  MatchOne(path, pat) <=> Documented(path, pat)
<1> DEFINE segs == pat.segs
           n == Len(segs)
           len == Len(path)
<1>1. segs \in Seq(Forms) /\ n \in Nat /\ DOMAIN segs = 1 .. n /\ n > 1
  <2>1. segs \in Seq(Forms) /\ segs # <<>> /\ n # 1
    BY DEF Patterns
  <2> HIDE DEF segs
  <2>2. Len(segs) # 0 /\ Len(segs) \in Nat /\ DOMAIN segs = 1 .. Len(segs)
    BY <2>1, EmptySeq
  <2>3. \A m \in Nat : m # 0 /\ m # 1 => m > 1
    OBVIOUS
  <2> QED
    BY <2>1, <2>2, <2>3, Zenon
<1>2. path \in Seq(PathNames) /\ len \in Nat /\ len # 0
  BY FilesArePaths
<1>3. \A i \in 1 .. n - 2 : segs[i] # Deep
  BY <1>1 DEF Listed
<1>4. Documented(path, pat)
        <=> /\ len > n - 2
            /\ SubSeq(path, 1, n - 2) = SubSeq(segs, 1, n - 2)
            /\ SegmentMatches(Last(path), segs[n])
  BY <1>1 DEF Documented
<1>5. segs[n - 1] = Deep /\ n - 1 \in 1 .. n
  BY <1>1
<1>6. ~IsDir(pat)
  <2>1. segs[n - 1].kind # "name" /\ n - 1 \in DOMAIN segs
    BY <1>1, <1>5, DeepIs
  <2> QED
    BY <2>1, Zenon DEF IsDir
<1>7. Contains(segs, Deep)
  BY <1>5 DEF Contains
<1> DEFINE at == SelectInSeq(segs, IsDeep)
<1>8. at = n - 1
  <2>1. \A i \in 1 .. (n - 1) - 1 : segs[i] # Deep
    BY <1>1, <1>3
  <2> HIDE DEF segs
  <2> QED
    BY <1>1, <1>5, <2>1, DeepAt
<1> HIDE DEF at
<1> DEFINE prefix == SubSeq(segs, 1, at - 1)
           suffix == SubSeq(segs, at + 1, n)
           rest == SubSeq(path, at, len)
<1>9. MatchOne(path, pat)
        <=> /\ IsStrictPrefix(prefix, path)
            /\ \/ suffix = <<>>
               \/ \E i \in DOMAIN rest : GlobMatches(SubSeq(rest, i, Len(rest)), suffix)
  BY <1>6, <1>7, Zenon DEF MatchOne, MatchDoublestar, at
<1> HIDE DEF segs, n, len
<1>10. prefix = SubSeq(segs, 1, n - 2)
  <2>1. at - 1 = n - 2
    BY <1>1, <1>8
  <2> QED
    BY <2>1, Zenon
<1>11. suffix # <<>> /\ Len(suffix) = 1 /\ DOMAIN suffix = {1} /\ suffix[1] = segs[n]
  BY <1>1, <1>8 DEF n
<1>12. IsStrictPrefix(prefix, path)
         <=> len > n - 2 /\ SubSeq(path, 1, n - 2) = SubSeq(segs, 1, n - 2)
  <2> DEFINE m == n - 2
             p == SubSeq(segs, 1, m)
  <2>1. m \in 0 .. Len(segs) /\ m \in Nat
    BY <1>1 DEF n
  <2>2. p \in Seq(Forms) /\ Len(p) = m /\ SubSeq(p, 1, m) = p
    <3> HIDE DEF m
    <3> QED
      BY <1>1, <2>1, FirstOnes
  <2> HIDE DEF m, p
  <2>3. IsPrefix(p, path) <=> m <= len /\ p = SubSeq(path, 1, m)
    BY <2>2 DEF IsPrefix, len
  <2>4. m = len => SubSeq(path, 1, m) = path
    <3> DEFINE whole == SubSeq(path, 1, len)
    <3>1. whole \in Seq(PathNames) /\ Len(whole) = len /\ \A i \in 1 .. len : whole[i] = path[i]
      BY <1>2 DEF len
    <3> HIDE DEF whole
    <3>2. whole = path
      BY <1>2, <3>1, SameSequence DEF len
    <3> QED
      BY <3>2 DEF whole
  <2>5. p = path => m = len
    BY <2>2 DEF len
  <2>6. IsStrictPrefix(p, path) <=> len > m /\ SubSeq(path, 1, m) = p
    <3>1. m <= len /\ m # len <=> len > m
      BY <1>2, <2>1
    <3>2. len > m => m <= len
      BY <1>2, <2>1
    <3> QED
      BY <2>3, <2>4, <2>5, <3>1, <3>2, Zenon DEF IsStrictPrefix
  <2>7. prefix = p
    BY <1>10 DEF p, m
  <2> HIDE DEF prefix
  <2> QED
    BY <2>6, <2>7 DEF p, m
<1>13. ASSUME len > n - 2
       PROVE  (\E i \in DOMAIN rest : GlobMatches(SubSeq(rest, i, Len(rest)), suffix))
                <=> SegmentMatches(Last(path), segs[n])
  <2> DEFINE k == Len(rest)
  <2>1. /\ rest \in Seq(PathNames) /\ k \in Nat /\ k = len - at + 1 /\ k # 0
        /\ DOMAIN rest = 1 .. k /\ rest[k] = path[len]
    BY <1>1, <1>2, <1>8, <1>13 DEF len
  <2> HIDE DEF rest, suffix, k
  <2>2. ASSUME NEW i \in 1 .. k
        PROVE  /\ Len(SubSeq(rest, i, k)) = k - i + 1
               /\ i = k => SubSeq(rest, i, k)[1] = rest[k]
    BY <2>1, <2>2 DEF k
  <2>3. ASSUME NEW i \in 1 .. k, GlobMatches(SubSeq(rest, i, k), suffix)
        PROVE  SegmentMatches(rest[k], segs[n])
    <3>1. Len(SubSeq(rest, i, k)) = 1 /\ SegmentMatches(SubSeq(rest, i, k)[1], suffix[1])
      BY <1>11, <2>3 DEF GlobMatches
    <3>2. i = k
      BY <2>1, <2>2, <3>1
    <3> QED
      BY <1>11, <2>2, <3>1, <3>2
  <2>4. ASSUME SegmentMatches(rest[k], segs[n]) 
        PROVE  k \in 1 .. k /\ GlobMatches(SubSeq(rest, k, k), suffix)
    <3>1. k \in 1 .. k
      BY <2>1
    <3>2. Len(SubSeq(rest, k, k)) = 1 /\ SubSeq(rest, k, k)[1] = rest[k]
      <4>1. Len(SubSeq(rest, k, k)) = k - k + 1 /\ SubSeq(rest, k, k)[1] = rest[k]
        BY <2>2, <3>1, Zenon
      <4>2. k - k + 1 = 1
        BY <2>1
      <4> QED
        BY <4>1, <4>2, Zenon
    <3> QED
      BY <1>11, <2>4, <3>1, <3>2 DEF GlobMatches
  <2>5. Last(path) = rest[k]
    BY <2>1 DEF Last, len
  <2> QED
    BY <2>1, <2>3, <2>4, <2>5, Zenon DEF k
<1> HIDE DEF prefix, suffix, rest
<1> QED
  BY <1>4, <1>9, <1>11, <1>12, <1>13, Zenon

LEMMA MatchIsDocumented ==
  ASSUME NEW path \in Files, NEW pat \in Patterns, Listed(pat, Files), ~DottedDirectory(pat)
  PROVE  MatchOne(path, pat) <=> Documented(path, pat)
  BY DirectoryMatch, NameMatch, PathMatch, DeepMatch

\* The pass after a session writes back what the documented table of patterns says,
\* for every set of patterns of the kinds the table lists (SyncBackWithOptions,
\* MatchOne).
THEOREM SyncIsDocumented == ASSUME PatternsListed PROVE Spec => []SyncedAsDocumented
<1>1. TemplatesInv => SyncedAsDocumented
  <2> SUFFICES ASSUME TemplatesInv, NEW s \in Sessions, sess[s].pc = "ended", sess[s].pass,
                      \A pat \in sess[s].conf.context : ~DottedDirectory(pat)
               PROVE  sess[s].synced =
                        {Mapped(s, p) : p \in {q \in Files :
                           /\ sess[s].ws[q] # Absent
                           /\ \E pat \in sess[s].conf.context : Documented(Mapped(s, q), pat)}}
    BY Zenon DEF SyncedAsDocumented, Is
  <2>1. sess[s].synced = Target(s) /\ sess[s].conf \in Known
    BY DEF TemplatesInv, SessionGood, Passing, Typed
  <2> DEFINE pats == sess[s].conf.context
  <2>2. \A pat \in pats : pat \in Patterns /\ Listed(pat, Files)
    <3>1. pats \in Contexts /\ sess[s].conf \in Configurations
      BY <2>1 DEF Known
    <3>2. pats \subseteq Patterns
      BY <3>1 DEF Configurations
    <3> HIDE DEF pats
    <3>3. PICK sc \in Scenarios : pats = sc.config.context
      BY <3>1 DEF Contexts
    <3> QED
      BY <3>2, <3>3 DEF PatternsListed
  <2>3. \A q \in Files : Mapped(s, q) \in Files
    BY TextFacts DEF Mapped
  <2>4. ASSUME NEW q \in Files
        PROVE  MatchesAny(Mapped(s, q), pats) <=> \E pat \in pats : Documented(Mapped(s, q), pat)
    <3>1. \A pat \in pats : MatchOne(Mapped(s, q), pat) <=> Documented(Mapped(s, q), pat)
      BY <2>2, <2>3, MatchIsDocumented
    <3> QED
      BY <3>1, Zenon DEF MatchesAny
  <2> DEFINE A == {q \in Present(s) : MatchesAny(Mapped(s, q), pats)}
             B == {q \in Files : /\ sess[s].ws[q] # Absent
                                 /\ \E pat \in pats : Documented(Mapped(s, q), pat)}
  <2>5. A = B
    BY <2>4, Zenon DEF Present
  <2>6. Target(s) = {Mapped(s, p) : p \in A}
    BY Zenon DEF Target
  <2> HIDE DEF A
  <2> QED
    BY <2>1, <2>5, <2>6, Zenon
<1> QED
  BY <1>1, TemplatesKept, PTL

-----------------------------------------------------------------------------
(* The records of sessions, and the skills (Templates, Library)               *)

\* Steps at which sessions.yaml has no entry of the session.
Early == {"unborn", "copy", "skills", "track", "failed"}

\* A session is entered once its workspace, permissions.json and session.json are
\* there, and none of them goes away while it is.
Recorded(s) ==
  /\ sess[s].prompt \in Texts \cup {Absent} /\ sess[s].failed \subseteq Skills
  /\ sess[s].status \in {"none", "active", "completed", "completed_error"}
  /\ sess[s].status # "none" => sess[s].ok
  /\ sess[s].pc \in Early => sess[s].status = "none"
  /\ sess[s].pc \in {"copy"} \cup Made => sess[s].dir
  /\ sess[s].pc \in Made \ {"skills"} => sess[s].manifest

LocalSkills == [Skills -> {Absent, "partial", "valid"}]

SkillsInv ==
  /\ dir \in BOOLEAN /\ local \in LocalSkills /\ refs \subseteq Skills
  /\ \A c \in Commands : cmds[c].pc = "save refs" => cmds[c].read \subseteq Skills

RecordInv == SkillsInv /\ \A s \in Sessions : Recorded(s)

\* What a step of a session does to the fields that matter here.
LEMMA RecordedFields ==
  ASSUME NEW s \in Sessions, NEW with, Writes(s, with)
  PROVE  \A f \in {"pc", "prompt", "failed", "status", "ok", "dir", "manifest"} :
           sess'[s][f] = IF f \in DOMAIN with THEN with[f] ELSE sess[s][f]
  BY DEF Writes, Fields

\* Only s is concerned.
LEMMA RecordedOthers ==
  ASSUME RecordInv, NEW s \in Sessions, NEW with, Writes(s, with), Recorded(s)',
         UNCHANGED <<local, refs, cmds>>, dir' \in BOOLEAN
  PROVE  RecordInv'
<1>1. \A t \in Sessions : t # s => sess'[t] = sess[t]
  BY DEF Writes
<1>2. ASSUME NEW t \in Sessions, t # s PROVE Recorded(t)'
  BY <1>1, <1>2 DEF RecordInv, Recorded
<1>3. SkillsInv'
  BY DEF RecordInv, SkillsInv
<1> QED
  BY <1>2, <1>3 DEF RecordInv

\* s is elsewhere, with the record it had.
LEMMA RecordedOnward ==
  ASSUME NEW s \in Sessions, NEW with, Recorded(s), Writes(s, with),
         DOMAIN with \cap {"prompt", "failed", "status", "ok", "dir", "manifest"} = {},
         "pc" \in DOMAIN with => \/ /\ sess[s].pc \in Made \ {"skills", "track"}
                                    /\ with.pc \in Made \ {"skills", "track"}
  PROVE  Recorded(s)'
<1>1. /\ sess'[s].prompt = sess[s].prompt /\ sess'[s].failed = sess[s].failed
      /\ sess'[s].status = sess[s].status /\ sess'[s].ok = sess[s].ok
      /\ sess'[s].dir = sess[s].dir /\ sess'[s].manifest = sess[s].manifest
      /\ sess'[s].pc = IF "pc" \in DOMAIN with THEN with.pc ELSE sess[s].pc
  BY RecordedFields
<1> QED
  BY <1>1 DEF Recorded, Early, Made

LEMMA UndoRecorded ==
  ASSUME TemplatesInv, NEW s \in Sessions, Recorded(s), sess[s].pc \in {"copy", "track"}, Undo(s)
  PROVE  (\E with : Writes(s, with)) /\ Recorded(s)'
<1> DEFINE with == [pc |-> "failed", dir |-> FALSE, ws |-> NoFiles]
<1>1. DOMAIN with = {"pc", "dir", "ws"} /\ with.pc = "failed"
  OBVIOUS
<1>2. Advance(s, with)
  BY Zenon DEF Undo
<1> HIDE DEF with
<1>3. Writes(s, with)
  <2>1. DOMAIN with \subseteq Fields
    BY <1>1 DEF Fields
  <2> QED
    BY <1>2, <2>1, AdvanceIs DEF TemplatesInv
<1>4. /\ sess'[s].prompt = sess[s].prompt /\ sess'[s].failed = sess[s].failed
      /\ sess'[s].status = sess[s].status /\ sess'[s].ok = sess[s].ok
      /\ sess'[s].manifest = sess[s].manifest /\ sess'[s].pc = "failed"
  BY <1>1, <1>3, RecordedFields
<1> QED
  BY <1>3, <1>4 DEF Recorded, Early, Made

LEMMA BeginRecorded ==
  ASSUME TemplatesInv, NEW s \in Sessions, Recorded(s), NEW sub, Begin(s, sub)
  PROVE  (\E with : Writes(s, with)) /\ Recorded(s)'
<1> DEFINE left == Only(Walk, {p \in Files : files[p] # Absent})
           with == [pc |-> "copy", sub |-> sub, detached |-> sub, conf |-> config,
                    dir |-> TRUE, todo |-> left]
<1>1. sess[s].pc = "unborn" /\ Advance(s, with)
  BY Zenon DEF Begin, Is
<1> HIDE DEF left
<1>2. /\ DOMAIN with = {"pc", "sub", "detached", "conf", "dir", "todo"}
      /\ with.pc = "copy" /\ with.dir = TRUE
  OBVIOUS
<1> HIDE DEF with
<1>3. Writes(s, with)
  <2>1. DOMAIN with \subseteq Fields
    BY <1>2 DEF Fields
  <2> QED
    BY <1>1, <2>1, AdvanceIs DEF TemplatesInv
<1>4. /\ sess'[s].prompt = sess[s].prompt /\ sess'[s].failed = sess[s].failed
      /\ sess'[s].status = sess[s].status /\ sess'[s].ok = sess[s].ok
      /\ sess'[s].dir = TRUE /\ sess'[s].pc = "copy"
  BY <1>2, <1>3, RecordedFields
<1> QED
  BY <1>1, <1>3, <1>4 DEF Recorded, Early, Made

LEMMA CopyRecorded ==
  ASSUME TemplatesInv, NEW s \in Sessions, Recorded(s), CopyFile(s)
  PROVE  (\E with : Writes(s, with)) /\ Recorded(s)'
<1> DEFINE p == Head(sess[s].todo)
           ws == [sess[s].ws EXCEPT ![p] = files[p]]
           left == Tail(sess[s].todo)
           torn == sess[s].torn \/ files[p] = <<>>
           with == [ws |-> ws, todo |-> left, torn |-> torn]
<1>1. sess[s].pc = "copy" /\ (Undo(s) \/ Advance(s, with))
  BY Zenon DEF CopyFile, Is
<1>2. CASE Undo(s)
  BY <1>1, <1>2, UndoRecorded
<1>3. CASE Advance(s, with)
  <2> HIDE DEF ws, left, torn
  <2>1. DOMAIN with = {"ws", "todo", "torn"}
    OBVIOUS
  <2> HIDE DEF with
  <2>2. Writes(s, with)
    <3>1. DOMAIN with \subseteq Fields
      BY <2>1 DEF Fields
    <3> QED
      BY <1>3, <3>1, AdvanceIs DEF TemplatesInv
  <2> QED
    BY <2>1, <2>2, RecordedOnward
<1> QED
  BY <1>1, <1>2, <1>3

\* What the instructions add to a step.
LEMMA ProvisionedPrompt ==
  ASSUME NEW s \in Sessions, Typed(s), sess[s].pc # "unborn", NEW prov, prov = Provisioned(s)
  PROVE  /\ DOMAIN prov \subseteq {"launches", "prompt", "ws", "replaced"}
         /\ "prompt" \in DOMAIN prov => prov.prompt \in Texts
<1>1. ComposePrompt(s) \in Texts
  BY WorkspaceIs, PromptIs
<1> QED
  BY <1>1, ProvisionedIs

LEMMA PrepareRecorded ==
  ASSUME TemplatesInv, NEW s \in Sessions, Recorded(s), PrepareSession(s)
  PROVE  (\E with : Writes(s, with)) /\ Recorded(s)'
<1> DEFINE prov == Provisioned(s)
           own == [pc |-> "skills", saved |-> sess[s].conf, given |-> sess[s].ws[AgentMD]]
           with == Both(own, prov)
<1>1. sess[s].pc = "copy" /\ (Undo(s) \/ Advance(s, with))
  BY Zenon DEF PrepareSession, Is
<1>2. CASE Undo(s)
  BY <1>1, <1>2, UndoRecorded
<1>3. CASE Advance(s, with)
  <2>1. DOMAIN own = {"pc", "saved", "given"} /\ own.pc = "skills"
    OBVIOUS
  <2> HIDE DEF own
  <2>2. /\ DOMAIN prov \subseteq {"launches", "prompt", "ws", "replaced"}
        /\ "prompt" \in DOMAIN prov => prov.prompt \in Texts
    BY <1>1, ProvisionedPrompt DEF TemplatesInv, SessionGood
  <2> HIDE DEF prov
  <2>3. /\ DOMAIN with = {"pc", "saved", "given"} \cup DOMAIN prov /\ with.pc = "skills"
        /\ "prompt" \in DOMAIN with => with.prompt \in Texts
    BY <2>1, <2>2 DEF Both
  <2> HIDE DEF with
  <2>4. Writes(s, with)
    <3>1. DOMAIN with \subseteq Fields
      BY <2>2, <2>3 DEF Fields
    <3> QED
      BY <1>3, <3>1, AdvanceIs DEF TemplatesInv
  <2>5. {"pc"} \subseteq DOMAIN with /\ {"failed", "status", "ok", "dir"} \cap DOMAIN with = {}
    BY <2>2, <2>3
  <2>6. /\ sess'[s].prompt \in {sess[s].prompt} \cup Texts /\ sess'[s].failed = sess[s].failed
        /\ sess'[s].status = sess[s].status /\ sess'[s].ok = sess[s].ok
        /\ sess'[s].dir = sess[s].dir /\ sess'[s].pc = "skills"
    BY <2>3, <2>4, <2>5, RecordedFields
  <2> QED
    BY <1>1, <2>4, <2>6 DEF Recorded, Early, Made
<1> QED
  BY <1>1, <1>2, <1>3

\* Only skills the agent has can fail to resolve.
LEMMA ResolvedFails ==
  ASSUME NEW s \in Sessions, Typed(s), sess[s].pc # "unborn", NEW found
  PROVE  Resolved(s, found).failed \subseteq Skills
<1> DEFINE got == [k \in sess[s].conf.skills |->
                     IF local[k] # Absent THEN local[k]
                     ELSE IF k \in found THEN "valid" ELSE Absent]
           new == {k \in DOMAIN got : got[k] # Absent}
           skills == Both([k \in new |-> got[k]], sess[s].skills)
<1>1. sess[s].conf.skills \subseteq Skills
  BY DEF Typed, Known, Configurations
<1>2. Resolved(s, found) = [failed |-> DOMAIN got \ new, skills |-> skills]
  BY Zenon DEF Resolved
<1>3. DOMAIN got = sess[s].conf.skills
  OBVIOUS
<1> HIDE DEF got, new, skills
<1>4. Resolved(s, found).failed = DOMAIN got \ new
  BY <1>2
<1> QED
  BY <1>1, <1>3, <1>4

LEMMA ResolveRecorded ==
  ASSUME TemplatesInv, NEW s \in Sessions, Recorded(s), ResolveSkills(s)
  PROVE  (\E with : Writes(s, with)) /\ Recorded(s)'
<1>1. PICK found \in SUBSET sess[s].conf.skills :
         Advance(s, Both([pc |-> "track", manifest |-> TRUE], Resolved(s, found)))
  BY Zenon DEF ResolveSkills
<1> DEFINE own == [pc |-> "track", manifest |-> TRUE]
           got == Resolved(s, found)
           with == Both(own, got)
<1>2. sess[s].pc = "skills" /\ Typed(s)
  BY DEF ResolveSkills, Is, TemplatesInv, SessionGood
<1>3. DOMAIN own = {"pc", "manifest"} /\ own.pc = "track" /\ own.manifest = TRUE
  OBVIOUS
<1>4. DOMAIN got = {"failed", "skills"} /\ got.failed \subseteq Skills
  BY <1>2, ResolvedIs, ResolvedFails
<1>5. Advance(s, with)
  BY <1>1, Zenon
<1> HIDE DEF own, got
<1>6. /\ DOMAIN with = {"pc", "manifest", "failed", "skills"} /\ with.pc = "track"
      /\ with.manifest = TRUE /\ with.failed \subseteq Skills
  BY <1>3, <1>4 DEF Both
<1> HIDE DEF with
<1>7. Writes(s, with)
  <2>1. DOMAIN with \subseteq Fields
    BY <1>6 DEF Fields
  <2> QED
    BY <1>5, <2>1, AdvanceIs DEF TemplatesInv
<1>8. /\ sess'[s].prompt = sess[s].prompt /\ sess'[s].failed = with.failed
      /\ sess'[s].status = sess[s].status /\ sess'[s].ok = sess[s].ok
      /\ sess'[s].dir = sess[s].dir /\ sess'[s].manifest = TRUE /\ sess'[s].pc = "track"
  BY <1>6, <1>7, RecordedFields
<1> QED
  BY <1>2, <1>6, <1>7, <1>8 DEF Recorded, Early, Made

LEMMA TrackRecorded ==
  ASSUME TemplatesInv, NEW s \in Sessions, Recorded(s), Track(s)
  PROVE  (\E with : Writes(s, with)) /\ Recorded(s)'
<1> DEFINE with == [pc |-> "launch", ok |-> TRUE, status |-> "active"]
<1>1. sess[s].pc = "track" /\ (Undo(s) \/ Advance(s, with))
  BY Zenon DEF Track, Is
<1>2. CASE Undo(s)
  BY <1>1, <1>2, UndoRecorded
<1>3. CASE Advance(s, with)
  <2>1. /\ DOMAIN with = {"pc", "ok", "status"} /\ with.pc = "launch"
        /\ with.ok = TRUE /\ with.status = "active"
    OBVIOUS
  <2> HIDE DEF with
  <2>2. Writes(s, with)
    <3>1. DOMAIN with \subseteq Fields
      BY <2>1 DEF Fields
    <3> QED
      BY <1>3, <3>1, AdvanceIs DEF TemplatesInv
  <2>3. /\ sess'[s].prompt = sess[s].prompt /\ sess'[s].failed = sess[s].failed
        /\ sess'[s].status = "active" /\ sess'[s].ok = TRUE
        /\ sess'[s].dir = sess[s].dir /\ sess'[s].manifest = sess[s].manifest
        /\ sess'[s].pc = "launch"
    BY <2>1, <2>2, RecordedFields
  <2> QED
    BY <1>1, <2>2, <2>3 DEF Recorded, Early, Made
<1> QED
  BY <1>1, <1>2, <1>3

\* A step that may also update the status, if there is an entry.
LEMMA StatusRecorded ==
  ASSUME NEW s \in Sessions, NEW with, Recorded(s), Writes(s, with),
         DOMAIN with \cap {"prompt", "failed", "ok", "dir", "manifest"} = {},
         {"pc", "status"} \subseteq DOMAIN with,
         sess[s].pc \in Made \ {"skills", "track"}, with.pc \in Made \ {"skills", "track"},
         \/ with.status = sess[s].status
         \/ sess[s].status # "none" /\ with.status \in {"active", "completed", "completed_error"}
  PROVE  Recorded(s)'
<1>1. /\ sess'[s].prompt = sess[s].prompt /\ sess'[s].failed = sess[s].failed
      /\ sess'[s].status = with.status /\ sess'[s].ok = sess[s].ok
      /\ sess'[s].dir = sess[s].dir /\ sess'[s].manifest = sess[s].manifest
      /\ sess'[s].pc = with.pc
  BY RecordedFields
<1> QED
  BY <1>1 DEF Recorded, Early, Made

LEMMA LaunchRecorded ==
  ASSUME TemplatesInv, NEW s \in Sessions, Recorded(s), Launch(s)
  PROVE  (\E with : Writes(s, with)) /\ Recorded(s)'
<1> DEFINE started == Updated(s, "active")
           count == sess[s].launches + 1
           failed == IF sess[s].detached THEN sess[s].status ELSE Updated(s, "completed_error")
           runs == [pc |-> "run", status |-> started, launches |-> count]
           fails == [pc |-> "ended", pass |-> FALSE, status |-> failed]
<1>1. sess[s].pc = "launch" /\ (Advance(s, runs) \/ Advance(s, fails))
  BY Zenon DEF Launch, Is
<1>2. /\ started = sess[s].status \/ (sess[s].status # "none" /\ started = "active")
      /\ failed = sess[s].status \/ (sess[s].status # "none" /\ failed = "completed_error")
  BY DEF Updated
<1> HIDE DEF started, count, failed
<1>3. /\ DOMAIN runs = {"pc", "status", "launches"} /\ runs.pc = "run" /\ runs.status = started
      /\ DOMAIN fails = {"pc", "pass", "status"} /\ fails.pc = "ended" /\ fails.status = failed
  OBVIOUS
<1> HIDE DEF runs, fails
<1>4. DOMAIN runs \subseteq Fields /\ DOMAIN fails \subseteq Fields
  BY <1>3 DEF Fields
<1>5. CASE Advance(s, runs)
  <2>1. Writes(s, runs)
    BY <1>4, <1>5, AdvanceIs DEF TemplatesInv
  <2>2. /\ DOMAIN runs \cap {"prompt", "failed", "ok", "dir", "manifest"} = {}
        /\ {"pc", "status"} \subseteq DOMAIN runs
        /\ sess[s].pc \in Made \ {"skills", "track"} /\ runs.pc \in Made \ {"skills", "track"}
    BY <1>1, <1>3 DEF Made
  <2> QED
    BY <1>2, <1>3, <2>1, <2>2, StatusRecorded
<1>6. CASE Advance(s, fails)
  <2>1. Writes(s, fails)
    BY <1>4, <1>6, AdvanceIs DEF TemplatesInv
  <2>2. /\ DOMAIN fails \cap {"prompt", "failed", "ok", "dir", "manifest"} = {}
        /\ {"pc", "status"} \subseteq DOMAIN fails
        /\ sess[s].pc \in Made \ {"skills", "track"} /\ fails.pc \in Made \ {"skills", "track"}
    BY <1>1, <1>3 DEF Made
  <2> QED
    BY <1>2, <1>3, <2>1, <2>2, StatusRecorded
<1> QED
  BY <1>1, <1>5, <1>6

LEMMA ResumeRecorded ==
  ASSUME TemplatesInv, NEW s \in Sessions, Recorded(s), NEW detached, ResumedWith(s, detached)
  PROVE  (\E with : Writes(s, with)) /\ Recorded(s)'
<1>1. sess[s].pc = "ended" /\ Typed(s)
  BY DEF ResumedWith, Is, TemplatesInv, SessionGood
<1> DEFINE prov == Provisioned(s)
           own == [pc |-> "launch", conf |-> sess[s].saved, detached |-> detached]
<1>2. PICK found \in SUBSET sess[s].saved.skills :
         Advance(s, Both(own, Both(Resolved(s, found), prov)))
  BY Zenon DEF ResumedWith
<1> DEFINE got == Resolved(s, found)
           rest == Both(got, prov)
           with == Both(own, rest)
<1>3. DOMAIN own = {"pc", "conf", "detached"} /\ own.pc = "launch"
  OBVIOUS
<1>4. DOMAIN got = {"failed", "skills"} /\ got.failed \subseteq Skills
  BY <1>1, ResolvedIs, ResolvedFails
<1>5. Advance(s, with)
  BY <1>2, Zenon
<1>6. /\ DOMAIN prov \subseteq {"launches", "prompt", "ws", "replaced"}
      /\ "prompt" \in DOMAIN prov => prov.prompt \in Texts
  BY <1>1, ProvisionedPrompt
<1> HIDE DEF own, got, prov
<1>7. /\ DOMAIN rest = {"failed", "skills"} \cup DOMAIN prov
      /\ rest.failed = got.failed
      /\ "prompt" \in DOMAIN prov => rest.prompt = prov.prompt
  BY <1>4 DEF Both
<1> HIDE DEF rest
<1>8. /\ DOMAIN with = {"pc", "conf", "detached", "failed", "skills"} \cup DOMAIN prov
      /\ with.pc = "launch" /\ with.failed \subseteq Skills
      /\ "prompt" \in DOMAIN with => with.prompt \in Texts
  BY <1>3, <1>4, <1>6, <1>7 DEF Both
<1> HIDE DEF with
<1>9. Writes(s, with)
  <2>1. DOMAIN with \subseteq Fields
    BY <1>6, <1>8 DEF Fields
  <2> QED
    BY <1>5, <2>1, AdvanceIs DEF TemplatesInv
<1>10. {"pc", "failed"} \subseteq DOMAIN with
       /\ {"status", "ok", "dir", "manifest"} \cap DOMAIN with = {}
  BY <1>6, <1>8
<1>11. /\ sess'[s].prompt \in {sess[s].prompt} \cup Texts /\ sess'[s].failed \subseteq Skills
       /\ sess'[s].status = sess[s].status /\ sess'[s].ok = sess[s].ok
       /\ sess'[s].dir = sess[s].dir /\ sess'[s].manifest = sess[s].manifest
       /\ sess'[s].pc = "launch"
  BY <1>8, <1>9, <1>10, RecordedFields
<1> QED
  BY <1>1, <1>9, <1>11 DEF Recorded, Early, Made

LEMMA EditRecorded ==
  ASSUME TemplatesInv, NEW s \in Sessions, Recorded(s), NEW p \in Files, Edit(s, p)
  PROVE  (\E with : Writes(s, with)) /\ Recorded(s)'
<1> DEFINE text == Append(IF sess[s].ws[p] = Absent THEN <<>> ELSE sess[s].ws[p], s)
           ws == [sess[s].ws EXCEPT ![p] = text]
           edits == sess[s].edits + 1
           given == IF Native(s) /\ p = AgentMD THEN text ELSE sess[s].given
           Step(runs) == IF runs THEN "hook" ELSE "run"
           Left(runs) == IF runs THEN <<p>> ELSE <<>>
<1>1. PICK runs \in {FALSE, Hooked(s, p)} :
         Advance(s, [ws |-> ws, edits |-> edits, given |-> given, pc |-> Step(runs),
                     todo |-> Left(runs)])
  BY Zenon DEF Edit
<1> DEFINE step == Step(runs)
           left == Left(runs)
           with == [ws |-> ws, edits |-> edits, given |-> given, pc |-> step, todo |-> left]
<1>2. step \in {"hook", "run"} /\ sess[s].pc = "run"
  BY DEF Edit, Is
<1>3. Advance(s, with)
  BY <1>1, Zenon
<1> HIDE DEF ws, edits, given, step, left
<1>4. DOMAIN with = {"ws", "edits", "given", "pc", "todo"} /\ with.pc = step
  OBVIOUS
<1> HIDE DEF with
<1>5. Writes(s, with)
  <2>1. DOMAIN with \subseteq Fields
    BY <1>4 DEF Fields
  <2> QED
    BY <1>3, <2>1, AdvanceIs DEF TemplatesInv
<1> QED
  BY <1>2, <1>4, <1>5, RecordedOnward DEF Made

LEMMA EndRecorded ==
  ASSUME TemplatesInv, NEW s \in Sessions, Recorded(s), End(s)
  PROVE  (\E with : Writes(s, with)) /\ Recorded(s)'
<1> DEFINE step == IF HasPass(s) /\ ToSync(s) # <<>> THEN "sync" ELSE "ended"
           left == IF HasPass(s) THEN ToSync(s) ELSE <<>>
           none == {}
           has == HasPass(s)
           status == IF sess[s].detached THEN sess[s].status ELSE Updated(s, "completed")
           with == [pc |-> step, todo |-> left, synced |-> none, pass |-> has, status |-> status]
<1>1. sess[s].pc = "run" /\ Advance(s, with)
  BY Zenon DEF End, Is
<1>2. /\ step \in {"sync", "ended"}
      /\ status = sess[s].status \/ (sess[s].status # "none" /\ status = "completed")
  BY DEF Updated
<1> HIDE DEF step, left, none, has, status
<1>3. /\ DOMAIN with = {"pc", "todo", "synced", "pass", "status"}
      /\ with.pc = step /\ with.status = status
  OBVIOUS
<1> HIDE DEF with
<1>4. Writes(s, with)
  <2>1. DOMAIN with \subseteq Fields
    BY <1>3 DEF Fields
  <2> QED
    BY <1>1, <2>1, AdvanceIs DEF TemplatesInv
<1> QED
  BY <1>1, <1>2, <1>3, <1>4, StatusRecorded DEF Made

LEMMA OpenRecorded ==
  ASSUME TemplatesInv, NEW s \in Sessions, Recorded(s), OpenSynced(s)
  PROVE  (\E with : Writes(s, with)) /\ Recorded(s)'
<1> DEFINE with == [open |-> TRUE]
<1>1. Advance(s, with)
  BY Zenon DEF OpenSynced
<1>2. DOMAIN with = {"open"}
  OBVIOUS
<1> HIDE DEF with
<1>3. Writes(s, with)
  <2>1. DOMAIN with \subseteq Fields
    BY <1>2 DEF Fields
  <2> QED
    BY <1>1, <2>1, AdvanceIs DEF TemplatesInv
<1> QED
  BY <1>2, <1>3, RecordedOnward

LEMMA WriteRecorded ==
  ASSUME TemplatesInv, NEW s \in Sessions, Recorded(s), WriteSynced(s)
  PROVE  (\E with : Writes(s, with)) /\ Recorded(s)'
<1> DEFINE h == Head(sess[s].todo)
           q == Mapped(s, h)
           left == Tail(sess[s].todo)
           synced == sess[s].synced \cup {q}
           step == CASE Is(s, "hook") -> "run"
                   [] Is(s, "sync") /\ Len(sess[s].todo) = 1 -> "ended"
                   [] OTHER -> "sync"
           with == [open |-> FALSE, todo |-> left, synced |-> synced, pc |-> step]
<1>1. sess[s].open /\ Advance(s, with)
  BY Zenon DEF WriteSynced
<1>2. sess[s].pc \in {"hook", "sync"}
  BY <1>1 DEF TemplatesInv, SessionGood, Passing
<1>3. step \in {"run", "ended", "sync"}
  OBVIOUS
<1> HIDE DEF left, synced, step
<1>4. DOMAIN with = {"open", "todo", "synced", "pc"} /\ with.pc = step
  OBVIOUS
<1> HIDE DEF with
<1>5. Writes(s, with)
  <2>1. DOMAIN with \subseteq Fields
    BY <1>4 DEF Fields
  <2> QED
    BY <1>1, <2>1, AdvanceIs DEF TemplatesInv
<1> QED
  BY <1>2, <1>3, <1>4, <1>5, RecordedOnward DEF Made

LEMMA SessionsRecorded ==
  ASSUME TemplatesInv, RecordInv, NEW s \in Sessions, SessionStep(s) PROVE RecordInv'
<1>1. Recorded(s)
  BY DEF RecordInv
<1>2. (\E with : Writes(s, with)) /\ Recorded(s)'
  <2>1. CASE SpawnSession(s) \/ SpawnSubSession(s)
    BY <1>1, <2>1, BeginRecorded DEF SpawnSession, SpawnSubSession
  <2>2. CASE CopyFile(s)
    BY <1>1, <2>2, CopyRecorded
  <2>3. CASE PrepareSession(s)
    BY <1>1, <2>3, PrepareRecorded
  <2>4. CASE ResolveSkills(s)
    BY <1>1, <2>4, ResolveRecorded
  <2>5. CASE Track(s)
    BY <1>1, <2>5, TrackRecorded
  <2>6. CASE Launch(s)
    BY <1>1, <2>6, LaunchRecorded
  <2>7. CASE ResumeSession(s) \/ ResumeSubSession(s)
    BY <1>1, <2>7, ResumeRecorded DEF ResumeSession, ResumeSubSession
  <2>8. CASE End(s)
    BY <1>1, <2>8, EndRecorded
  <2>9. CASE OpenSynced(s)
    BY <1>1, <2>9, OpenRecorded
  <2>10. CASE WriteSynced(s)
    BY <1>1, <2>10, WriteRecorded
  <2>11. CASE \E p \in Files : Edit(s, p)
    BY <1>1, <2>11, EditRecorded
  <2> QED
    BY <2>1, <2>2, <2>3, <2>4, <2>5, <2>6, <2>7, <2>8, <2>9, <2>10, <2>11 DEF SessionStep
<1>3. UNCHANGED <<local, refs, cmds>> /\ dir' \in {dir, TRUE}
  BY DEF SessionStep, SpawnSession, SpawnSubSession, Begin, CopyFile, PrepareSession, ResolveSkills,
         Track, Launch, ResumeSession, ResumeSubSession, End, OpenSynced, WriteSynced, Edit,
         Quiet, libraryVars
<1>4. dir' \in BOOLEAN
  BY <1>3 DEF RecordInv, SkillsInv
<1> QED
  BY <1>2, <1>3, <1>4, RecordedOthers

\* What a command is about to write into skills.yaml.
LEMMA TakesRefs ==
  ASSUME LibraryInv, SkillsInv, NEW c \in Commands, NEW kind, NEW k, NEW step, NEW read,
         Takes(c, kind, k, step, read), step = "save refs" => read \subseteq Skills
  PROVE  \A d \in Commands : cmds'[d].pc = "save refs" => cmds'[d].read \subseteq Skills
<1> DEFINE new == [kind |-> kind, skill |-> k, pc |-> step, read |-> read]
<1>1. new.pc = step /\ new.read = read
  OBVIOUS
<1> HIDE DEF new
<1>2. cmds' = [cmds EXCEPT ![c] = new] /\ DOMAIN cmds = Commands
  BY Zenon DEF Takes, new, LibraryInv
<1>3. cmds'[c] = new /\ \A d \in Commands : d # c => cmds'[d] = cmds[d]
  BY <1>2
<1>4. ASSUME NEW d \in Commands, cmds'[d].pc = "save refs" PROVE cmds'[d].read \subseteq Skills
  <2>1. CASE d = c
    BY <1>1, <1>3, <1>4, <2>1
  <2>2. CASE d # c
    BY <1>3, <1>4, <2>2 DEF SkillsInv
  <2> QED
    BY <2>1, <2>2
<1> QED
  BY <1>4

LEMMA GoesRefs ==
  ASSUME LibraryInv, SkillsInv, NEW c \in Commands, NEW step, Goes(c, step), step # "save refs"
  PROVE  \A d \in Commands : cmds'[d].pc = "save refs" => cmds'[d].read \subseteq Skills
<1>1. DOMAIN cmds = Commands /\ DOMAIN cmds[c] = {"kind", "skill", "pc", "read"}
  BY DEF LibraryInv
<1>2. cmds'[c].pc = step /\ \A d \in Commands \ {c} : cmds'[d] = cmds[d]
  BY <1>1 DEF Goes
<1> QED
  BY <1>1, <1>2 DEF SkillsInv

LEMMA LocalTaken ==
  ASSUME local \in LocalSkills, NEW k, NEW got \in Outcomes, local' = [local EXCEPT ![k] = got]
  PROVE  local' \in LocalSkills
  BY DEF LocalSkills, Outcomes

\* Where a command leaves the skills alone, only what it remembers matters.
LEMMA SkillsAlone ==
  ASSUME SkillsInv, dir' \in {dir, TRUE, FALSE}, local' = local, refs' = refs,
         \A d \in Commands : cmds'[d].pc = "save refs" => cmds'[d].read \subseteq Skills
  PROVE  SkillsInv'
  BY DEF SkillsInv

LEMMA CommandSkills ==
  ASSUME LibraryInv, SkillsInv, NEW c \in Commands, CommandStep(c) \/ RemoveSessions(c)
  PROVE  SkillsInv'
<1> DEFINE Fine == \A d \in Commands : cmds'[d].pc = "save refs" => cmds'[d].read \subseteq Skills
<1>1. CASE CreateAgent(c)
  BY <1>1, TakesRefs, SkillsAlone DEF CreateAgent
<1>2. CASE AddAgent(c)
  <2>1. \E step \in {"write config", "failed"} : Takes(c, "agent add", Absent, step, Absent)
    BY <1>2 DEF AddAgent
  <2>2. Fine
    BY <2>1, TakesRefs
  <2> QED
    BY <1>2, <2>2, SkillsAlone DEF AddAgent
<1>3. CASE WriteConfig(c)
  <2>1. \E step \in {"install skills", "write agent.md", "failed"} : Goes(c, step)
    BY <1>3 DEF WriteConfig
  <2>2. Fine
    BY <2>1, GoesRefs
  <2> QED
    BY <1>3, <2>2, SkillsAlone DEF WriteConfig
<1>4. CASE WriteAgentMD(c)
  <2>1. \E step \in {"done", "failed"} : Goes(c, step)
    BY <1>4 DEF WriteAgentMD
  <2>2. Fine
    BY <2>1, GoesRefs
  <2> QED
    BY <1>4, <2>2, SkillsAlone DEF WriteAgentMD
<1>5. CASE InstallSkills(c)
  <2>1. \E step \in {"done", "failed"} : Goes(c, step)
    BY <1>5 DEF InstallSkills
  <2>2. Fine
    BY <2>1, GoesRefs
  <2>3. local' = local \/ \E k \in Skills, got \in Outcomes :
                             local' = [local EXCEPT ![k] = got]
    BY <1>5 DEF InstallSkills
  <2>4. local' \in LocalSkills
    BY <2>3, LocalTaken DEF SkillsInv
  <2>5. UNCHANGED <<dir, refs>>
    BY <1>5 DEF InstallSkills
  <2> QED
    BY <2>2, <2>4, <2>5 DEF SkillsInv
<1>6. CASE RemoveAgent(c)
  BY <1>6, TakesRefs, SkillsAlone DEF RemoveAgent
<1>7. CASE RemoveSessions(c)
  BY <1>7, GoesRefs, SkillsAlone DEF RemoveSessions
<1>8. CASE LoadConfig(c)
  <2>1. Takes(c, "agent skills", Absent, "save config", config)
    BY <1>8 DEF LoadConfig
  <2> QED
    BY <1>8, <2>1, TakesRefs, SkillsAlone DEF LoadConfig
<1>9. CASE SaveConfig(c)
  <2>1. \E step \in {"done", "failed"} : Goes(c, step)
    BY <1>9 DEF SaveConfig
  <2>2. Fine
    BY <2>1, GoesRefs
  <2> QED
    BY <1>9, <2>2, SkillsAlone DEF SaveConfig
<1>10. CASE \E k \in Skills : CreateSkill(c, k)
  <2>1. PICK k \in Skills : CreateSkill(c, k)
    BY <1>10
  <2>2. Takes(c, "skill create", k, "write skill", Absent)
    BY <2>1 DEF CreateSkill
  <2>3. Fine
    BY <2>2, TakesRefs
  <2>4. local' \in LocalSkills
    BY <2>1, LocalTaken DEF CreateSkill, SkillsInv, Outcomes
  <2> QED
    BY <2>1, <2>3, <2>4 DEF CreateSkill, SkillsInv
<1>11. CASE \E k \in Skills : AddSkill(c, k)
  <2>1. PICK k \in Skills : AddSkill(c, k)
    BY <1>11
  <2>2. \E step \in {"done", "failed"} : Takes(c, "skill add", k, step, Absent)
    BY <2>1 DEF AddSkill
  <2>3. Fine
    BY <2>2, TakesRefs
  <2>4. local' \in LocalSkills
    BY <2>1, LocalTaken DEF AddSkill, SkillsInv
  <2> QED
    BY <2>1, <2>3, <2>4 DEF AddSkill, SkillsInv
<1>12. CASE \E k \in Skills : LoadRefs(c, k)
  <2>1. PICK k \in Skills : LoadRefs(c, k)
    BY <1>12
  <2>2. Takes(c, "skill ref", k, "save refs", refs \cup {k}) /\ refs \cup {k} \subseteq Skills
    BY <2>1 DEF LoadRefs, SkillsInv
  <2>3. Fine
    BY <2>2, TakesRefs
  <2> QED
    BY <2>1, <2>3, SkillsAlone DEF LoadRefs
<1>13. CASE \E k \in Skills : RemoveSkill(c, k)
  <2>1. PICK k \in Skills : RemoveSkill(c, k)
    BY <1>13
  <2>2. \/ Takes(c, "skill remove", k, "save refs", refs \ {k}) /\ refs \ {k} \subseteq Skills
        \/ Takes(c, "skill remove", k, "done", Absent)
    BY <2>1 DEF RemoveSkill, SkillsInv
  <2>3. Fine
    BY <2>2, TakesRefs
  <2>4. local' \in LocalSkills
    BY <2>1, LocalTaken DEF RemoveSkill, SkillsInv, Outcomes
  <2> QED
    BY <2>1, <2>3, <2>4 DEF RemoveSkill, SkillsInv
<1>14. CASE WriteSkill(c)
  <2>1. \E step \in {"done", "failed"} : Goes(c, step)
    BY <1>14 DEF WriteSkill
  <2>2. Fine
    BY <2>1, GoesRefs
  <2>3. local' = local \/ local' = [local EXCEPT ![The(c)] = "valid"]
    BY <1>14 DEF WriteSkill
  <2>4. local' \in LocalSkills
    BY <2>3, LocalTaken DEF SkillsInv, Outcomes
  <2> QED
    BY <1>14, <2>2, <2>4 DEF WriteSkill, SkillsInv
<1>15. CASE SaveRefs(c)
  <2>1. Fine
    BY <1>15, GoesRefs DEF SaveRefs
  <2>2. refs' \subseteq Skills
    BY <1>15 DEF SaveRefs, At, SkillsInv
  <2> QED
    BY <1>15, <2>1, <2>2 DEF SaveRefs, SkillsInv
<1> QED
  BY <1>1, <1>2, <1>3, <1>4, <1>5, <1>6, <1>7, <1>8, <1>9, <1>10, <1>11, <1>12, <1>13, <1>14, <1>15
  DEF CommandStep

LEMMA RecordInitial == Init => RecordInv
<1> SUFFICES ASSUME Init PROVE RecordInv
  OBVIOUS
<1>1. SkillsInv
  <2>1. scenario.config \in Configurations
    BY LibraryAssumption DEF Init, LibraryInit, LibraryAssumption
  <2>2. scenario.config.skills \subseteq Skills
    BY <2>1 DEF Configurations
  <2>3. dir = TRUE /\ refs \subseteq Skills
    BY <2>2 DEF Init, LibraryInit
  <2>4. local \in [Skills -> {Absent, "valid"}]
    BY DEF Init, LibraryInit
  <2>5. cmds = [c \in Commands |->
                  [kind |-> "none", skill |-> Absent, pc |-> "unborn", read |-> Absent]]
    BY DEF Init, LibraryInit
  <2>6. \A c \in Commands : cmds[c].pc = "unborn"
    BY <2>5
  <2> QED
    BY <2>3, <2>4, <2>6 DEF SkillsInv, LocalSkills
<1>2. ASSUME NEW s \in Sessions PROVE Recorded(s)
  <2>1. sess[s] = Unborn
    BY DEF Init
  <2>2. Unborn.pc = "unborn" /\ Unborn.prompt = Absent /\ Unborn.failed = {} /\ Unborn.status = "none"
    BY DEF Unborn
  <2> QED
    BY <2>1, <2>2 DEF Recorded, Early, Made
<1> QED
  BY <1>1, <1>2 DEF RecordInv

LEMMA RecordNext == TemplatesInv /\ RecordInv /\ [Next]_vars => RecordInv'
<1> SUFFICES ASSUME TemplatesInv, RecordInv, [Next]_vars PROVE RecordInv'
  OBVIOUS
<1>1. CASE \E s \in Sessions : SessionStep(s)
  BY <1>1, SessionsRecorded
<1>2. ASSUME NEW c \in Commands, CommandStep(c), UNCHANGED sess PROVE RecordInv'
  <2>1. SkillsInv'
    BY <1>2, CommandSkills DEF TemplatesInv, RecordInv
  <2> QED
    BY <1>2, <2>1 DEF RecordInv, Recorded
<1>3. ASSUME NEW c \in Commands, DropSessions(c) PROVE RecordInv'
  <2>1. SkillsInv'
    BY <1>3, CommandSkills DEF DropSessions, TemplatesInv, RecordInv
  <2>2. ASSUME NEW s \in Sessions PROVE Recorded(s)'
    <3>1. sess'[s] = [sess[s] EXCEPT !.status = "none"]
      BY <1>3 DEF DropSessions
    <3>2. DOMAIN sess[s] = Fields
      BY DEF TemplatesInv, Shaped
    <3>3. /\ sess'[s].status = "none" /\ sess'[s].prompt = sess[s].prompt
          /\ sess'[s].failed = sess[s].failed /\ sess'[s].pc = sess[s].pc
          /\ sess'[s].dir = sess[s].dir /\ sess'[s].manifest = sess[s].manifest
      BY <3>1, <3>2 DEF Fields
    <3> QED
      BY <3>3 DEF RecordInv, Recorded
  <2> QED
    BY <2>1, <2>2 DEF RecordInv
<1>4. CASE UNCHANGED vars
  BY <1>4 DEF vars, libraryVars, RecordInv, SkillsInv, Recorded
<1> QED
  BY <1>1, <1>2, <1>3, <1>4 DEF Next

\* Every state is well typed, and a session that is entered in sessions.yaml has
\* what a resume needs: its workspace, session.json and permissions.json
\* (SpawnSession's order of writes and its deferred removal, ResumeSession).
THEOREM TemplatesTyped == Spec => []TypeOK
<1>1. TemplatesInv /\ RecordInv => TypeOK
  <2> SUFFICES ASSUME TemplatesInv, RecordInv PROVE TypeOK
    OBVIOUS
  <2>1. /\ dir \in BOOLEAN /\ files \in [Files -> Texts \cup {Absent}]
        /\ local \in LocalSkills /\ refs \subseteq Skills
    BY DEF TemplatesInv, LibraryInv, RecordInv, SkillsInv
  <2>2. ASSUME NEW s \in Sessions
        PROVE  /\ DOMAIN sess[s] = DOMAIN Unborn
               /\ sess[s].ws \in [Files -> Texts \cup {Absent}]
               /\ sess[s].prompt \in Texts \cup {Absent} /\ sess[s].failed \subseteq Skills
               /\ sess[s].status \in {"none", "active", "completed", "completed_error"}
    BY FieldNames DEF TemplatesInv, Shaped, SessionGood, Typed, RecordInv, Recorded
  <2>3. ASSUME NEW s \in Sessions, sess[s].status # "none"
        PROVE  sess[s].saved # Absent /\ sess[s].manifest /\ sess[s].dir /\ sess[s].ok
    <3>1. Recorded(s) /\ Typed(s)
      BY DEF TemplatesInv, SessionGood, RecordInv
    <3>2. sess[s].pc \in Made \ {"skills", "track"}
      BY <2>3, <3>1 DEF Recorded, Typed, Early, Made
    <3>3. sess[s].saved = sess[s].conf /\ sess[s].conf \in Known
      BY <3>1, <3>2 DEF Typed, Made
    <3> QED
      BY <2>3, <3>1, <3>2, <3>3, LibraryFacts DEF Recorded
  <2> QED
    BY <2>1, <2>2, <2>3 DEF TypeOK, LocalSkills
<1> QED
  BY <1>1, TemplatesInitial, TemplatesNext, RecordInitial, RecordNext, PTL DEF Spec

=============================================================================
