-------------------------- MODULE Selections_Proofs --------------------------
(***************************************************************************)
(* Lemmas about Only, and the induction they rest on.                      *)
(*                                                                         *)
(* The induction theorems of the library take an operator for the property *)
(* that is proved.  Here a property is the set of the numbers that have    *)
(* it, so that every lemma is first-order.                                 *)
(***************************************************************************)
EXTENDS Selections, Integers, SequenceTheorems, WellFoundedInduction, TLAPS

------------------------------------------------------------------------------
(* Induction on the natural numbers, for a property given as the set of    *)
(* the numbers that have it, and definition by recursion.                  *)

\* A set of natural numbers that is not empty has a least element.
LEMMA Least == ASSUME NEW T, T \subseteq Nat, T # {} PROVE \E x \in T : \A y \in T : x <= y
<1> DEFINE R == {ss \in Nat \X Nat : ss[1] < ss[2]}
<1>1. IsWellFoundedOn(R, Nat)
  BY NatLessThanWellFounded DEF OpToRel
<1> HIDE DEF R
<1>2. PICK x \in T : \A y \in T : <<y, x>> \notin R
  BY <1>1, WFMin
<1>3. \A y \in T : <<y, x>> \notin {ss \in Nat \X Nat : ss[1] < ss[2]}
  BY <1>2 DEF R
<1>4. \A y \in T : ~(y < x)
  BY <1>3
<1> QED BY <1>4

\* Induction, for a property that is given as a set.
LEMMA Induction == ASSUME NEW G, 0 \in G, \A n \in Nat : n \in G => n + 1 \in G PROVE Nat \subseteq G
<1> SUFFICES ASSUME Nat \ G # {} PROVE FALSE
  OBVIOUS
<1>1. PICK x \in Nat \ G : \A y \in Nat \ G : x <= y
  BY Least
<1> QED BY <1>1

\* Induction on sequences: what holds of the empty one and is kept by Append.
LEMMA SequenceInduction ==
  ASSUME NEW T, NEW G, <<>> \in G, \A s \in Seq(T), x \in T : s \in G => Append(s, x) \in G
  PROVE  Seq(T) \subseteq G
<1> DEFINE H == {n \in Nat : \A s \in Seq(T) : Len(s) = n => s \in G}
<1>1. 0 \in H
  OBVIOUS
<1>2. ASSUME NEW n \in Nat, n \in H PROVE n + 1 \in H
  <2> SUFFICES ASSUME NEW s \in Seq(T), Len(s) = n + 1 PROVE s \in G
    OBVIOUS
  <2>1. PICK t \in Seq(T), x \in T : s = Append(t, x)
    BY SequenceEmptyOrAppend
  <2>2. Len(t) = n
    BY <2>1
  <2>3. t \in G
    BY <1>2, <2>2
  <2> QED
    BY <2>1, <2>3
<1> HIDE DEF H
<1>3. Nat \subseteq H
  BY <1>1, <1>2, Induction
<1>4. ASSUME NEW s \in Seq(T) PROVE s \in G
  <2>1. Len(s) \in H
    BY <1>3
  <2> QED
    BY <2>1 DEF H
<1> QED
  BY <1>4

\* g is the table of the recursion, up to k.
Recursive(g, b, step, k) == \A i \in 0..k : g[i] = IF i = 0 THEN b ELSE step[i][g[i - 1]]

\* A function can be defined by recursion.
LEMMA Recursion ==
  ASSUME NEW V, NEW b \in V, NEW step \in [Nat -> [V -> V]], NEW k \in Nat
  PROVE  \E g \in [0..k -> V] : Recursive(g, b, step, k)
<1> DEFINE Def(g, n) == \A i \in 0..n : g[i] = IF i = 0 THEN b ELSE step[i][g[i - 1]]
           G == {n \in Nat : \E g \in [0..n -> V] : Def(g, n)}
<1>1. 0 \in G
  <2>1. [i \in 0..0 |-> b] \in [0..0 -> V] /\ Def([i \in 0..0 |-> b], 0)
    OBVIOUS
  <2> QED
    BY <2>1
<1>2. ASSUME NEW n \in Nat, n \in G PROVE n + 1 \in G
  <2>1. PICK g \in [0..n -> V] : Def(g, n)
    BY <1>2
  <2>2. PICK v \in V : v = step[n + 1][g[n]]
    OBVIOUS
  <2> DEFINE h == [i \in 0..(n + 1) |-> IF i <= n THEN g[i] ELSE v]
  <2>3. h \in [0..(n + 1) -> V]
    OBVIOUS
  <2>4. ASSUME NEW i \in 0..(n + 1) PROVE h[i] = IF i = 0 THEN b ELSE step[i][h[i - 1]]
    <3>1. CASE i = n + 1
      BY <3>1, <2>2
    <3>2. CASE i \in 0..n
      BY <3>2, <2>1
    <3> QED BY <3>1, <3>2
  <2>5. Def(h, n + 1)
    BY <2>4
  <2> HIDE DEF h, Def
  <2> QED
    BY <2>3, <2>5
<1>3. k \in G
  <2> HIDE DEF G
  <2> QED BY <1>1, <1>2, Induction
<1> QED
  BY <1>3 DEF Recursive

------------------------------------------------------------------------------
(* The elements of a sequence that are in a set, in their order.           *)

\* The table that Only defines, and what it ends with.
IsOnly(only, s, S) ==
    only = [i \in 0..Len(s) |-> IF i = 0 THEN <<>>
                                ELSE IF s[i] \in S THEN Append(only[i - 1], s[i]) ELSE only[i - 1]]

LEMMA OnlyTable ==
  ASSUME NEW S, NEW T, NEW s \in Seq(T)
  PROVE  \E only : IsOnly(only, s, S) /\ Only(s, S) = only[Len(s)]
<1> DEFINE step == [i \in Nat |-> [v \in Seq(S) |-> IF s[i] \in S THEN Append(v, s[i]) ELSE v]]
<1>1. <<>> \in Seq(S) /\ Len(s) \in Nat
  OBVIOUS
<1>2. step \in [Nat -> [Seq(S) -> Seq(S)]]
  OBVIOUS
<1>3. \A v \in Seq(S), i \in Nat : step[i][v] = IF s[i] \in S THEN Append(v, s[i]) ELSE v
  OBVIOUS
<1> HIDE DEF step
<1>4. PICK g \in [0..Len(s) -> Seq(S)] : Recursive(g, <<>>, step, Len(s))
  BY <1>1, <1>2, Recursion
<1>5. ASSUME NEW i \in 0..Len(s)
      PROVE  g[i] = IF i = 0 THEN <<>> ELSE IF s[i] \in S THEN Append(g[i - 1], s[i]) ELSE g[i - 1]
  <2>1. CASE i = 0
    BY <1>4, <2>1 DEF Recursive
  <2>2. CASE i # 0
    <3>1. g[i - 1] \in Seq(S) /\ i \in Nat
      BY <2>2
    <3> QED
      BY <1>3, <1>4, <2>2, <3>1 DEF Recursive
  <2> QED
    BY <2>1, <2>2
<1>6. IsOnly(g, s, S)
   BY <1>5 DEF IsOnly
<1> DEFINE only == CHOOSE f : IsOnly(f, s, S)
<1>7. IsOnly(only, s, S)
  <2> HIDE DEF only
  <2> QED
    BY <1>6 DEF only
<1>8. Only(s, S) = only[Len(s)]
  BY DEF Only, IsOnly
<1> QED
  <2> HIDE DEF only
  <2> QED
    BY <1>7, <1>8

LEMMA OnlyStep ==
  ASSUME NEW S, NEW T, NEW s \in Seq(T), NEW only, IsOnly(only, s, S), NEW n \in Nat, n + 1 <= Len(s)
  PROVE  only[n + 1] = IF s[n + 1] \in S THEN Append(only[n], s[n + 1]) ELSE only[n]
<1> DEFINE k == n + 1
<1>1. k \in 0..Len(s) /\ k # 0 /\ k - 1 = n
  OBVIOUS
<1> HIDE DEF k
<1>2. only[k] = IF s[k] \in S THEN Append(only[k - 1], s[k]) ELSE only[k - 1]
  BY <1>1 DEF IsOnly
<1> QED
  BY <1>1, <1>2 DEF k

\* Its entries are sequences over S, and depend only on the elements so far.
LEMMA OnlyEntries ==
  ASSUME NEW S, NEW T, NEW s \in Seq(T), NEW only, IsOnly(only, s, S)
  PROVE  \A n \in 0..Len(s) : only[n] \in Seq(S)
<1> DEFINE G == {n \in Nat : n <= Len(s) => only[n] \in Seq(S)}
<1>1. 0 \in G
  BY DEF IsOnly
<1>2. ASSUME NEW n \in Nat, n \in G PROVE n + 1 \in G
  <2> SUFFICES ASSUME n + 1 <= Len(s) PROVE only[n + 1] \in Seq(S)
    OBVIOUS
  <2>1. only[n] \in Seq(S)
    BY <1>2
  <2>2. only[n + 1] = IF s[n + 1] \in S THEN Append(only[n], s[n + 1]) ELSE only[n]
    BY OnlyStep
  <2> QED
    BY <2>1, <2>2
<1>3. Nat \subseteq G
  <2> HIDE DEF G
  <2> QED
    BY <1>1, <1>2, Induction
<1> QED
  BY <1>3

LEMMA OnlyPrefix ==
  ASSUME NEW S, NEW T, NEW s \in Seq(T), NEW t \in Seq(T), NEW f, NEW g,
         IsOnly(f, s, S), IsOnly(g, t, S),
         NEW k \in Nat, k <= Len(s), k <= Len(t), \A i \in 1..k : s[i] = t[i]
  PROVE  f[k] = g[k]
<1> DEFINE G == {n \in Nat : n <= k => f[n] = g[n]}
<1>1. 0 \in G
  BY DEF IsOnly
<1>2. ASSUME NEW n \in Nat, n \in G PROVE n + 1 \in G
  <2> SUFFICES ASSUME n + 1 <= k PROVE f[n + 1] = g[n + 1]
    OBVIOUS
  <2>1. f[n] = g[n] /\ s[n + 1] = t[n + 1]
    BY <1>2
  <2>2. f[n + 1] = IF s[n + 1] \in S THEN Append(f[n], s[n + 1]) ELSE f[n]
    BY OnlyStep
  <2>3. g[n + 1] = IF t[n + 1] \in S THEN Append(g[n], t[n + 1]) ELSE g[n]
    BY OnlyStep
  <2> QED
    BY <2>1, <2>2, <2>3
<1>3. Nat \subseteq G
  <2> HIDE DEF G
  <2> QED
    BY <1>1, <1>2, Induction
<1> QED
  BY <1>3

LEMMA OnlyType == ASSUME NEW S, NEW T, NEW s \in Seq(T) PROVE Only(s, S) \in Seq(S)
<1>1. PICK only : IsOnly(only, s, S) /\ Only(s, S) = only[Len(s)]
  BY OnlyTable
<1> QED
  BY <1>1, OnlyEntries

LEMMA OnlyShorter == ASSUME NEW S, NEW T, NEW s \in Seq(T) PROVE Len(Only(s, S)) <= Len(s)
<1>1. PICK only : IsOnly(only, s, S) /\ Only(s, S) = only[Len(s)]
  BY OnlyTable
<1> DEFINE G == {n \in Nat : n <= Len(s) => Len(only[n]) <= n}
<1>2. 0 \in G
  BY <1>1 DEF IsOnly
<1>3. ASSUME NEW n \in Nat, n \in G PROVE n + 1 \in G
  <2> SUFFICES ASSUME n + 1 <= Len(s) PROVE Len(only[n + 1]) <= n + 1
    OBVIOUS
  <2>1. Len(only[n]) <= n /\ only[n] \in Seq(S)
    BY <1>1, <1>3, OnlyEntries
  <2>2. only[n + 1] = IF s[n + 1] \in S THEN Append(only[n], s[n + 1]) ELSE only[n]
    BY <1>1, OnlyStep
  <2> QED
    BY <2>1, <2>2
<1>4. Nat \subseteq G
  <2> HIDE DEF G
  <2> QED
    BY <1>2, <1>3, Induction
<1> QED
  BY <1>1, <1>4

LEMMA OnlyEmpty == ASSUME NEW S PROVE Only(<<>>, S) = <<>>
<1>1. PICK only : IsOnly(only, <<>>, S) /\ Only(<<>>, S) = only[Len(<<>>)]
  <2>1. <<>> \in Seq(S)
    OBVIOUS
  <2> QED
    BY <2>1, OnlyTable
<1> QED
  BY <1>1 DEF IsOnly

LEMMA OnlyAppend ==
  ASSUME NEW S, NEW T, NEW s \in Seq(T), NEW x \in T
  PROVE  Only(Append(s, x), S) = IF x \in S THEN Append(Only(s, S), x) ELSE Only(s, S)
<1> DEFINE t == Append(s, x)
<1>1. t \in Seq(T) /\ Len(t) = Len(s) + 1 /\ t[Len(t)] = x /\ \A i \in 1..Len(s) : s[i] = t[i]
  OBVIOUS
<1> HIDE DEF t
<1>2. PICK f : IsOnly(f, s, S) /\ Only(s, S) = f[Len(s)]
  BY OnlyTable
<1>3. PICK g : IsOnly(g, t, S) /\ Only(t, S) = g[Len(t)]
  BY <1>1, OnlyTable
<1>4. f[Len(s)] = g[Len(s)]
  BY <1>1, <1>2, <1>3, OnlyPrefix
<1>5. g[Len(s) + 1] = IF t[Len(s) + 1] \in S THEN Append(g[Len(s)], t[Len(s) + 1]) ELSE g[Len(s)]
  BY <1>1, <1>3, OnlyStep
<1> QED
  BY <1>1, <1>2, <1>3, <1>4, <1>5 DEF t

LEMMA OnlyTail ==
  ASSUME NEW S, NEW T, NEW s \in Seq(T), s # <<>>
  PROVE  Only(s, S) = (IF Head(s) \in S THEN <<Head(s)>> ELSE <<>>) \o Only(Tail(s), S)
<1> DEFINE t == Tail(s)
           first == IF Head(s) \in S THEN <<Head(s)>> ELSE <<>>
<1>1. /\ t \in Seq(T) /\ Len(t) \in Nat /\ Len(s) = Len(t) + 1 /\ s[1] = Head(s)
      /\ \A i \in 1..Len(t) : t[i] = s[i + 1]
  OBVIOUS
<1>2. first \in Seq(S) /\ first \o <<>> = first
  OBVIOUS
<1>3. \A v \in Seq(S), x \in S : Append(first \o v, x) = first \o Append(v, x)
  <2> HIDE DEF first
  <2> QED
    BY SMTT(30), <1>2
<1> HIDE DEF t, first
<1>4. PICK f : IsOnly(f, s, S) /\ Only(s, S) = f[Len(s)]
  BY OnlyTable
<1>5. PICK g : IsOnly(g, t, S) /\ Only(t, S) = g[Len(t)]
  BY <1>1, OnlyTable
<1> DEFINE G == {n \in Nat : n <= Len(t) => f[n + 1] = first \o g[n]}
<1>6. 0 \in G
  <2>1. f[0] = <<>> /\ g[0] = <<>>
    BY <1>1, <1>4, <1>5 DEF IsOnly
  <2>2. f[0 + 1] = IF s[0 + 1] \in S THEN Append(f[0], s[0 + 1]) ELSE f[0]
    BY SMTT(30), <1>1, <1>4, OnlyStep
  <2>3. f[0 + 1] = first
    BY <1>1, <2>1, <2>2 DEF first
  <2> QED
    BY <1>2, <2>1, <2>3
<1>7. ASSUME NEW n \in Nat, n \in G PROVE n + 1 \in G
  <2> SUFFICES ASSUME n + 1 <= Len(t) PROVE f[(n + 1) + 1] = first \o g[n + 1]
    OBVIOUS
  <2>1. f[n + 1] = first \o g[n]
    BY <1>1, <1>7
  <2>2. f[(n + 1) + 1] = IF s[(n + 1) + 1] \in S THEN Append(f[n + 1], s[(n + 1) + 1]) ELSE f[n + 1]
    <3>1. PICK k \in Nat : k = n + 1 /\ k + 1 <= Len(s)
      BY <1>1
    <3>2. IsOnly(f, s, S) /\ k \in Nat /\ k + 1 <= Len(s)
      BY <1>4, <3>1
    <3>3. f[k + 1] = IF s[k + 1] \in S THEN Append(f[k], s[k + 1]) ELSE f[k]
      BY ONLY <3>2, OnlyStep, s \in Seq(T)
    <3> QED
      BY <3>1, <3>3
  <2>3. g[n + 1] = IF t[n + 1] \in S THEN Append(g[n], t[n + 1]) ELSE g[n]
    BY <1>1, <1>5, OnlyStep
  <2>4. t[n + 1] = s[(n + 1) + 1]
    BY <1>1
  <2>5. g[n] \in Seq(S)
    BY <1>1, <1>5, OnlyEntries
  <2> QED
    BY <1>3, <2>1, <2>2, <2>3, <2>4, <2>5
<1>8. Nat \subseteq G
  <2> HIDE DEF G
  <2> QED
    BY <1>6, <1>7, Induction
<1>9. f[Len(t) + 1] = first \o g[Len(t)]
  BY <1>1, <1>8
<1> QED
  BY <1>1, <1>4, <1>5, <1>9 DEF t, first

\* What is chosen from a sequence without repetitions has none.
LEMMA OnlyApart ==
  ASSUME NEW S, NEW T, NEW s \in Seq(T), \A i, j \in 1..Len(s) : s[i] = s[j] => i = j
  PROVE  \A i, j \in 1..Len(Only(s, S)) : Only(s, S)[i] = Only(s, S)[j] => i = j
<1> DEFINE Apart(t) == \A i, j \in 1..Len(t) : t[i] = t[j] => i = j
           From(t, n) == \A i \in 1..Len(t) : \E k \in 1..n : t[i] = s[k]
<1>1. PICK only : IsOnly(only, s, S) /\ Only(s, S) = only[Len(s)]
  BY OnlyTable
<1> DEFINE G == {n \in Nat : n <= Len(s) => Apart(only[n]) /\ From(only[n], n)}
<1>2. 0 \in G
  <2>1. only[0] = <<>>
    BY <1>1 DEF IsOnly
  <2> QED
    BY <2>1
<1>3. ASSUME NEW n \in Nat, n \in G PROVE n + 1 \in G
  <2> SUFFICES ASSUME n + 1 <= Len(s) PROVE Apart(only[n + 1]) /\ From(only[n + 1], n + 1)
    OBVIOUS
  <2>1. Apart(only[n]) /\ From(only[n], n)
    BY <1>3
  <2>2. PICK t, x, more : t = only[n] /\ t \in Seq(S) /\ x = s[n + 1] /\ more = only[n + 1]
    BY <1>1, OnlyEntries
  <2>3. more = IF x \in S THEN Append(t, x) ELSE t
    BY <1>1, <2>2, OnlyStep
  <2>4. \A i \in 1..Len(t) : \E k \in 1..n : t[i] = s[k]
    BY <2>1, <2>2
  <2>5. \A i \in 1..Len(t) : t[i] # x
    BY <2>2, <2>4
  <2>6. CASE more = t
    BY <2>1, <2>2, <2>6
  <2>7. CASE x \in S /\ more = Append(t, x)
    <3>1. /\ Len(more) = Len(t) + 1 /\ Len(t) \in Nat /\ more[Len(t) + 1] = x
          /\ \A i \in 1..Len(t) : more[i] = t[i]
      BY <2>7
    <3>2. \A i \in 1..Len(more) : i \in 1..Len(t) \/ i = Len(t) + 1
      BY <3>1
    <3>3. Apart(more)
      <4>1. \A i, j \in 1..Len(t) : t[i] = t[j] => i = j
        BY <2>1, <2>2
      <4> SUFFICES ASSUME NEW i \in 1..Len(more), NEW j \in 1..Len(more), more[i] = more[j] PROVE i = j
        OBVIOUS
      <4> QED
        BY ONLY <2>5, <3>1, <3>2, <4>1, i \in 1..Len(more), j \in 1..Len(more), more[i] = more[j]
    <3>4. From(more, n + 1)
      <4> SUFFICES ASSUME NEW i \in 1..Len(more) PROVE \E k \in 1..(n + 1) : more[i] = s[k]
        OBVIOUS
      <4>1. CASE i \in 1..Len(t)
        <5>1. PICK k \in 1..n : t[i] = s[k]
          BY <2>4, <4>1
        <5>2. k \in 1..(n + 1) /\ more[i] = s[k]
          BY <3>1, <4>1, <5>1
        <5> QED
          BY <5>2
      <4>2. CASE i = Len(t) + 1
        <5>1. n + 1 \in 1..(n + 1) /\ more[i] = s[n + 1]
          BY <2>2, <3>1, <4>2
        <5> QED
          BY <5>1
      <4> QED
        BY <3>2, <4>1, <4>2
    <3> QED
      BY <2>2, <3>3, <3>4
  <2> QED
    BY <2>3, <2>6, <2>7
<1> HIDE DEF G
<1>4. Nat \subseteq G
  BY <1>2, <1>3, Induction
<1>5. Len(s) \in G
  BY <1>4
<1> QED
  BY <1>1, <1>5 DEF G

------------------------------------------------------------------------------
(* How many there are.                                                     *)

LEMMA HowMany == ASSUME NEW S, NEW T, NEW s \in Seq(T) PROVE Len(Only(s, S)) \in Nat
  BY OnlyType

LEMMA HowManyAppend ==
  ASSUME NEW S, NEW T, NEW s \in Seq(T), NEW x \in T
  PROVE  Len(Only(Append(s, x), S)) = Len(Only(s, S)) + (IF x \in S THEN 1 ELSE 0)
<1>1. Only(s, S) \in Seq(S)
  BY OnlyType
<1>2. Only(Append(s, x), S) = IF x \in S THEN Append(Only(s, S), x) ELSE Only(s, S)
  BY OnlyAppend
<1> QED
  BY <1>1, <1>2

LEMMA HowManyTail ==
  ASSUME NEW S, NEW T, NEW s \in Seq(T), s # <<>>
  PROVE  Len(Only(s, S)) = Len(Only(Tail(s), S)) + (IF Head(s) \in S THEN 1 ELSE 0)
<1>1. Tail(s) \in Seq(T)
  OBVIOUS
<1>2. Only(Tail(s), S) \in Seq(S)
  BY <1>1, OnlyType
<1>3. Only(s, S) = (IF Head(s) \in S THEN <<Head(s)>> ELSE <<>>) \o Only(Tail(s), S)
  BY OnlyTail
<1>4. CASE Head(s) \in S
  <2>1. <<Head(s)>> \in Seq(S) /\ Len(<<Head(s)>>) = 1
    BY <1>4
  <2>2. Len(Only(s, S)) = 1 + Len(Only(Tail(s), S))
    BY <1>2, <1>3, <1>4, <2>1
  <2> QED
    BY <1>2, <1>4, <2>2
<1>5. CASE Head(s) \notin S
  BY <1>2, <1>3, <1>5
<1> QED
  BY <1>4, <1>5

------------------------------------------------------------------------------
(* A field of the elements of a queue.                                     *)

Each(s, f) == [i \in DOMAIN s |-> f[s[i]]]

LEMMA EachType ==
  ASSUME NEW S, NEW V, NEW f \in [S -> V], NEW s \in Seq(S)
  PROVE  Each(s, f) \in Seq(V) /\ Len(Each(s, f)) = Len(s)
<1>1. Each(s, f) = [i \in 1..Len(s) |-> f[s[i]]]
  BY DEF Each
<1> QED
  BY <1>1

LEMMA EachEntry ==
  ASSUME NEW S, NEW V, NEW f \in [S -> V], NEW s \in Seq(S), NEW i \in 1..Len(s)
  PROVE  s[i] \in S /\ Each(s, f)[i] = f[s[i]]
  BY DEF Each

LEMMA EachAppend ==
  ASSUME NEW S, NEW V, NEW f \in [S -> V], NEW s \in Seq(S), NEW e \in S
  PROVE  Each(Append(s, e), f) = Append(Each(s, f), f[e])
<1>1. PICK t \in Seq(V) :
         /\ t = Each(s, f) /\ Len(t) = Len(s) /\ Len(s) \in Nat
         /\ \A i \in 1..Len(s) : s[i] \in S /\ t[i] = f[s[i]]
  <2>1. Each(s, f) = [i \in 1..Len(s) |-> f[s[i]]]
    BY DEF Each
  <2> QED
    BY <2>1
<1>2. Append(t, f[e]) = [i \in 1..(Len(s) + 1) |-> Append(t, f[e])[i]]
  BY <1>1
<1>3. Each(Append(s, e), f) = [i \in 1..(Len(s) + 1) |-> f[Append(s, e)[i]]]
  BY DEF Each
<1>4. \A i \in 1..(Len(s) + 1) : f[Append(s, e)[i]] = Append(t, f[e])[i]
  BY <1>1
<1> QED
  BY <1>1, <1>2, <1>3, <1>4

LEMMA EachTail ==
  ASSUME NEW S, NEW V, NEW f \in [S -> V], NEW s \in Seq(S), s # <<>>
  PROVE  /\ Each(s, f) # <<>> /\ Head(Each(s, f)) = f[Head(s)]
         /\ Each(Tail(s), f) = Tail(Each(s, f))
<1>1. PICK t \in Seq(V) :
         /\ t = Each(s, f) /\ Len(t) = Len(s) /\ Len(s) \in Nat
         /\ \A i \in 1..Len(s) : s[i] \in S /\ t[i] = f[s[i]]
  <2>1. Each(s, f) = [i \in 1..Len(s) |-> f[s[i]]]
    BY DEF Each
  <2> QED
    BY <2>1
<1>2. Len(s) > 0 /\ Len(Tail(s)) = Len(s) - 1 /\ t # <<>> /\ Tail(s) \in Seq(S)
  BY <1>1
<1>3. Head(t) = f[Head(s)]
  BY <1>1, <1>2
<1>4. Tail(t) = [i \in 1..(Len(s) - 1) |-> t[i + 1]]
  <2>1. /\ Tail(t) \in Seq(V) /\ Len(Tail(t)) = Len(s) - 1
        /\ \A i \in 1..(Len(s) - 1) : Tail(t)[i] = t[i + 1]
    BY <1>1, <1>2
  <2>2. PICK u \in Seq(V) : u = Tail(t)
    BY <2>1
  <2>3. u = [i \in 1..Len(u) |-> u[i]]
    OBVIOUS
  <2> QED
    BY <2>1, <2>2, <2>3
<1>5. Each(Tail(s), f) = [i \in 1..(Len(s) - 1) |-> f[Tail(s)[i]]]
  BY <1>2 DEF Each
<1>6. \A i \in 1..(Len(s) - 1) : f[Tail(s)[i]] = t[i + 1]
  BY <1>1, <1>2
<1> QED
  BY <1>1, <1>2, <1>3, <1>4, <1>5, <1>6
------------------------------------------------------------------------------
(* A sequence around one of its elements.                                  *)

LEMMA Around ==
  ASSUME NEW S, NEW s \in Seq(S), NEW q \in 1..Len(s)
  PROVE  /\ SubSeq(s, 1, q - 1) \in Seq(S) /\ SubSeq(s, q + 1, Len(s)) \in Seq(S)
         /\ Len(SubSeq(s, 1, q - 1)) = q - 1
         /\ \A i \in 1..(q - 1) : SubSeq(s, 1, q - 1)[i] = s[i]
         /\ SubSeq(s, q, Len(s)) = <<s[q]>> \o SubSeq(s, q + 1, Len(s))
         /\ s = (SubSeq(s, 1, q - 1) \o <<s[q]>>) \o SubSeq(s, q + 1, Len(s))
<1>1. Len(s) \in Nat /\ q \in Nat /\ q - 1 \in 0..Len(s)
  OBVIOUS
<1>2. SubSeq(s, q, Len(s)) = <<s[q]>> \o SubSeq(s, q + 1, Len(s))
  BY <1>1, SubSeqRecursiveFirst
<1>3. /\ SubSeq(s, 1, q - 1) \in Seq(S) /\ Len(SubSeq(s, 1, q - 1)) = q - 1
      /\ \A i \in 1..(q - 1) : SubSeq(s, 1, q - 1)[i] = s[i]
  BY <1>1
<1>4. SubSeq(s, q + 1, Len(s)) \in Seq(S)
  <2>1. \A i \in (q + 1)..Len(s) : s[i] \in S
    BY <1>1
  <2> QED
    BY <1>1, <2>1, SubSeqProperties
<1>5. s = SubSeq(s, 1, q - 1) \o SubSeq(s, q, Len(s))
  <2>1. PICK m, k, n : m = 1 /\ k = q - 1 /\ n = Len(s) /\ k + 1 = q
    BY <1>1
  <2>2. m \in 1..(Len(s) + 1) /\ k \in (m - 1)..Len(s) /\ n \in k..Len(s)
    BY <1>1, <2>1
  <2>3. SubSeq(s, m, k) \o SubSeq(s, k + 1, n) = SubSeq(s, m, n)
    BY <2>2, ConcatAdjacentSubSeq
  <2> QED
    BY <2>1, <2>3, SubSeqFull
<1>6. <<s[q]>> \in Seq(S)
  BY <1>1
<1>7. SubSeq(s, 1, q - 1) \o (<<s[q]>> \o SubSeq(s, q + 1, Len(s)))
      = (SubSeq(s, 1, q - 1) \o <<s[q]>>) \o SubSeq(s, q + 1, Len(s))
  <2>1. PICK u \in Seq(S), v \in Seq(S), w \in Seq(S) :
           u = SubSeq(s, 1, q - 1) /\ v = <<s[q]>> /\ w = SubSeq(s, q + 1, Len(s))
    BY <1>3, <1>4, <1>6
  <2>2. (u \o v) \o w = u \o (v \o w)
    BY SMTT(30), ConcatAssociative
  <2> QED
    BY ONLY <2>1, <2>2
<1> QED
  BY <1>2, <1>3, <1>4, <1>5, <1>7

\* What is before and behind an element of b, where a is put before b.
LEMMA BehindFirst ==
  ASSUME NEW S, NEW a \in Seq(S), NEW b \in Seq(S), NEW k \in 1..Len(b)
  PROVE  /\ SubSeq(a \o b, 1, Len(a) + k - 1) = a \o SubSeq(b, 1, k - 1)
         /\ SubSeq(a \o b, Len(a) + k + 1, Len(a \o b)) = SubSeq(b, k + 1, Len(b))
<1>1. PICK n, m : n = Len(a) /\ m = Len(b) /\ n \in Nat /\ m \in Nat /\ k \in 1..m
  OBVIOUS
<1>2. PICK arg : arg = a \o b
  OBVIOUS
<1>3. /\ arg \in Seq(S) /\ Len(arg) = n + m /\ (\A i \in 1..n : arg[i] = a[i])
      /\ \A i \in 1..m : arg[n + i] = b[i]
  BY <1>1, <1>2
<1>4. PICK s, t, u, v : /\ s = SubSeq(b, 1, k - 1) /\ t = SubSeq(b, k + 1, m)
                        /\ u = SubSeq(arg, 1, n + k - 1) /\ v = SubSeq(arg, n + k + 1, n + m)
  OBVIOUS
<1>5. s \in Seq(S) /\ Len(s) = k - 1 /\ \A i \in 1..(k - 1) : s[i] = b[i]
  BY <1>1, <1>4
<1>6. u \in Seq(S) /\ Len(u) = n + k - 1 /\ \A i \in 1..(n + k - 1) : u[i] = arg[i]
  BY <1>1, <1>3, <1>4
<1>7. t \in Seq(S) /\ Len(t) = m - k /\ \A i \in 1..(m - k) : t[i] = b[k + i]
  <2>1. \A i \in (k + 1)..m : b[i] \in S
    BY <1>1
  <2>2. t \in Seq(S) /\ Len(t) = m - k /\ \A i \in 1..(m - k) : t[i] = b[(k + 1) + i - 1]
    BY <1>1, <1>4, <2>1, SubSeqProperties
  <2>3. \A i \in 1..(m - k) : (k + 1) + i - 1 = k + i
    BY <1>1
  <2> QED
    BY <2>2, <2>3
<1>8. v \in Seq(S) /\ Len(v) = m - k /\ \A i \in 1..(m - k) : v[i] = arg[n + k + i]
  <2>1. \A i \in (n + k + 1)..(n + m) : arg[i] \in S
    BY <1>1, <1>3
  <2>2. v \in Seq(S) /\ Len(v) = m - k /\ \A i \in 1..(m - k) : v[i] = arg[(n + k + 1) + i - 1]
    BY <1>1, <1>4, <2>1, SubSeqProperties
  <2>3. \A i \in 1..(m - k) : (n + k + 1) + i - 1 = n + k + i
    BY <1>1
  <2> QED
    BY <2>2, <2>3
<1>9. u = a \o s
  <2>1. PICK w : w = a \o s
    OBVIOUS
  <2>2. /\ w \in Seq(S) /\ Len(w) = n + k - 1 /\ (\A i \in 1..n : w[i] = a[i])
        /\ \A i \in 1..(k - 1) : w[n + i] = s[i]
    BY <1>1, <1>5, <2>1
  <2>3. ASSUME NEW i \in 1..(n + k - 1) PROVE u[i] = w[i]
    <3>1. CASE i \in 1..n
      BY <1>3, <1>6, <2>2, <3>1
    <3>2. CASE i \notin 1..n
      <4>1. PICK j \in 1..(k - 1) : i = n + j /\ j \in 1..m
        <5>1. i - n \in 1..(k - 1) /\ i = n + (i - n) /\ i - n \in 1..m
          BY <1>1, <3>2
        <5> QED
          BY <5>1
      <4>2. u[i] = arg[n + j] /\ arg[n + j] = b[j] /\ b[j] = s[j] /\ w[i] = s[j]
        BY <1>3, <1>5, <1>6, <2>2, <4>1
      <4> QED
        BY <4>2
    <3> QED
      BY <3>1, <3>2
  <2>4. u = w
    BY ONLY <1>6, <2>2, <2>3, SeqEqual
  <2> QED
    BY <2>1, <2>4
<1>10. v = t
  <2>1. ASSUME NEW i \in 1..(m - k) PROVE v[i] = t[i]
    <3>1. k + i \in 1..m /\ n + k + i = n + (k + i)
      BY <1>1
    <3> QED
      BY <1>3, <1>7, <1>8, <3>1
  <2> QED
    BY ONLY <1>7, <1>8, <2>1, SeqEqual
<1> QED
  BY <1>1, <1>2, <1>3, <1>4, <1>9, <1>10

\* An element that is put once more before itself.
LEMMA Twins == ASSUME NEW S, NEW c \in S PROVE <<c>> \o <<c>> = <<c, c>>
<1>1. <<c>> \in Seq(S) /\ <<c, c>> \in Seq(S) /\ Len(<<c>>) = 1 /\ Len(<<c, c>>) = 2
  OBVIOUS
<1>2. PICK x \in Seq(S), y \in Seq(S) : /\ x = <<c>> /\ y = <<c, c>> /\ Len(x) = 1 /\ x[1] = c
                                     /\ Len(y) = 2 /\ y[1] = c /\ y[2] = c
  BY <1>1
<1>3. x \o x \in Seq(S) /\ Len(x \o x) = Len(x) + Len(x)
  OBVIOUS
<1>4. (x \o x)[1] = x[1]
  BY <1>2, <1>3
<1>5. (x \o x)[1 + 1] = x[1]
  BY <1>2, <1>3
<1>6. 1 + 1 = 2
  OBVIOUS
<1>7. \A i \in 1..2 : (x \o x)[i] = y[i]
  <2>1. \A i \in 1..2 : i = 1 \/ i = 2
    OBVIOUS
  <2> QED
    BY <1>2, <1>4, <1>5, <1>6, <2>1
<1>8. x \o x = y
  BY <1>2, <1>3, <1>6, <1>7, SeqEqual
<1> QED
  BY <1>2, <1>8

LEMMA TwinsMoved ==
  ASSUME NEW S, NEW u \in Seq(S), NEW one \in Seq(S), NEW t \in Seq(S)
  PROVE  /\ (u \o one) \o (one \o t) = (u \o (one \o one)) \o t
         /\ u \o (one \o one) \in Seq(S) /\ (u \o one) \o (one \o t) \in Seq(S)
         /\ Len(u \o (one \o one)) = Len(u) + Len(one) + Len(one)
         /\ Len((u \o one) \o (one \o t)) = Len((u \o one) \o t) + Len(one)
<1>1. (u \o one) \o one = u \o (one \o one)
  BY ConcatAssociative
<1>2. Len(u) \in Nat /\ Len(one) \in Nat /\ Len(t) \in Nat
  OBVIOUS
<1>3. PICK v \in Seq(S) : v = u \o one /\ Len(v) = Len(u) + Len(one)
  <2>1. u \o one \in Seq(S) /\ Len(u \o one) = Len(u) + Len(one)
    OBVIOUS
  <2> QED
    BY ONLY <2>1
<1>4. v \o (one \o t) = (v \o one) \o t
  BY SMTT(30), ConcatAssociative
<1>5. PICK w \in Seq(S) : w = one \o t /\ Len(w) = Len(one) + Len(t)
  <2>1. one \o t \in Seq(S) /\ Len(one \o t) = Len(one) + Len(t)
    OBVIOUS
  <2> QED
    BY ONLY <2>1
<1>6. PICK two \in Seq(S) : two = one \o one /\ Len(two) = Len(one) + Len(one)
  <2>1. one \o one \in Seq(S) /\ Len(one \o one) = Len(one) + Len(one)
    OBVIOUS
  <2> QED
    BY ONLY <2>1
<1>7. Len(v \o t) = Len(v) + Len(t)
  BY ConcatProperties
<1>8. v \o w \in Seq(S) /\ Len(v \o w) = Len(v) + Len(w)
  BY ConcatProperties
<1>9. u \o two \in Seq(S) /\ Len(u \o two) = Len(u) + Len(two)
  BY ConcatProperties
<1> QED
  BY ONLY <1>2, <1>3, <1>5, <1>6, <1>7, <1>8, <1>9, <1>4, <1>1

LEMMA Twofold ==
  ASSUME NEW S, NEW s \in Seq(S), NEW q \in 1..Len(s)
  PROVE  LET longer == (SubSeq(s, 1, q - 1) \o <<s[q]>>) \o SubSeq(s, q, Len(s))
             a == SubSeq(s, 1, q - 1) \o <<s[q], s[q]>>
         IN  /\ longer = a \o SubSeq(s, q + 1, Len(s))
             /\ longer \in Seq(S) /\ Len(longer) = Len(s) + 1 /\ a \in Seq(S) /\ Len(a) = q + 1
<1>1. /\ SubSeq(s, 1, q - 1) \in Seq(S) /\ SubSeq(s, q + 1, Len(s)) \in Seq(S)
      /\ Len(SubSeq(s, 1, q - 1)) = q - 1
      /\ SubSeq(s, q, Len(s)) = <<s[q]>> \o SubSeq(s, q + 1, Len(s))
      /\ s = (SubSeq(s, 1, q - 1) \o <<s[q]>>) \o SubSeq(s, q + 1, Len(s))
  BY Around
<1>2. <<s[q]>> \in Seq(S) /\ Len(<<s[q]>>) = 1 /\ <<s[q]>> \o <<s[q]>> = <<s[q], s[q]>> /\ s[q] \in S
  <2>1. s[q] \in S
    OBVIOUS
  <2> QED
    BY <2>1, Twins
<1>3. PICK u \in Seq(S), t \in Seq(S), one \in Seq(S) :
         /\ u = SubSeq(s, 1, q - 1) /\ t = SubSeq(s, q + 1, Len(s)) /\ Len(u) = q - 1
         /\ one = <<s[q]>> /\ Len(one) = 1 /\ one \o one = <<s[q], s[q]>>
         /\ SubSeq(s, q, Len(s)) = one \o t /\ s = (u \o one) \o t
  BY ONLY <1>1, <1>2
<1>4. /\ (u \o one) \o (one \o t) = (u \o (one \o one)) \o t
      /\ u \o (one \o one) \in Seq(S) /\ (u \o one) \o (one \o t) \in Seq(S)
      /\ Len(u \o (one \o one)) = Len(u) + Len(one) + Len(one)
      /\ Len((u \o one) \o (one \o t)) = Len((u \o one) \o t) + Len(one)
  BY SMTT(30), TwinsMoved
<1>5. Len(u) + Len(one) + Len(one) = q + 1
  BY <1>3
<1> QED
  BY ONLY <1>3, <1>4, <1>5
==============================================================================
