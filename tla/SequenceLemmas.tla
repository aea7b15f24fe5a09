--------------------------- MODULE SequenceLemmas ---------------------------
(***************************************************************************)
(* Induction over the naturals and along a recursive function, with sets   *)
(* and functions in the place of operators, and what follows from it for   *)
(* the operators of SequenceHelpers.                                       *)
(***************************************************************************)
EXTENDS SequenceHelpers, SequenceTheorems, FiniteSetTheorems, WellFoundedInduction, TLAPS

(* A set of naturals that is not empty has a least element.                *)
LEMMA LeastElement ==
  ASSUME NEW T \in SUBSET Nat, T # {}
  PROVE  \E m \in T : \A k \in T : m <= k
<1> DEFINE R == OpToRel(<, Nat)
<1>1. IsWellFoundedOn(OpToRel(<, Nat), Nat)
  BY NatLessThanWellFounded
<1>2. \A x, y \in Nat : x < y => <<x, y>> \in R
  BY DEF OpToRel
<1> HIDE DEF R
<1>3. PICK m \in T : \A y \in T : ~(<<y, m>> \in R)
  BY <1>1, WFMin DEF R
<1>4. \A y \in T : y \in Nat /\ m \in Nat /\ ~(y < m)
  BY <1>2, <1>3
<1>5. QED BY <1>4

(* Induction from m up to n; the predicate is a set.                       *)
LEMMA Climb ==
  ASSUME NEW m \in Nat, NEW n \in Nat, NEW S,
         m \in S, \A i \in m + 1 .. n : i - 1 \in S => i \in S
  PROVE  \A i \in m .. n : i \in S
<1> DEFINE T == {i \in m .. n : i \notin S}
<1> SUFFICES ASSUME T # {} PROVE FALSE
  OBVIOUS
<1>1. T \in SUBSET Nat
  OBVIOUS
<1>2. PICK k \in T : \A i \in T : k <= i
  <2> HIDE DEF T
  <2>1. QED BY <1>1, LeastElement
<1>3. k \in m + 1 .. n /\ k - 1 \in m .. n /\ k - 1 \notin T
  BY <1>2
<1>4. QED BY <1>3

(* f starts with first and goes on by Step, a function of its last value   *)
(* and the next index.                                                     *)
StepsOn(D, m, n) == [D \X (m + 1 .. n) -> D]
Follows(f, m, n, first, Step) ==
  f[m] = first /\ \A i \in m + 1 .. n : f[i] = Step[<<f[i - 1], i>>]

(* Such a function exists.                                                 *)
LEMMA RecursionExists ==
  ASSUME NEW m \in Nat, NEW n \in Nat, m <= n, NEW D, NEW first \in D,
         NEW Step \in StepsOn(D, m, n)
  PROVE  \E f \in [m .. n -> D] : Follows(f, m, n, first, Step)
<1> USE DEF StepsOn, Follows
<1> DEFINE Good(k) == \E f \in [m .. k -> D] :
                        f[m] = first /\ \A i \in m + 1 .. k : f[i] = Step[<<f[i - 1], i>>]
           S == {k \in m .. n : Good(k)}
<1>1. m \in S
  <2>1. [i \in m .. m |-> first] \in [m .. m -> D]
    OBVIOUS
  <2>2. Good(m)
    <3> WITNESS [i \in m .. m |-> first] \in [m .. m -> D]
    <3>1. QED OBVIOUS
  <2>3. QED BY <2>2
<1>2. ASSUME NEW k \in m + 1 .. n, k - 1 \in S
      PROVE  k \in S
  <2>1. PICK f \in [m .. k - 1 -> D] :
               f[m] = first /\ \A i \in m + 1 .. k - 1 : f[i] = Step[<<f[i - 1], i>>]
    BY <1>2
  <2> DEFINE g == [i \in m .. k |-> IF i = k THEN Step[<<f[k - 1], k>>] ELSE f[i]]
  <2>2. f[k - 1] \in D
    OBVIOUS
  <2>3. <<f[k - 1], k>> \in D \X (m + 1 .. n)
    BY <2>2
  <2>4. Step[<<f[k - 1], k>>] \in D
    BY <2>3
  <2>5. g \in [m .. k -> D]
    BY <2>4
  <2>6. g[m] = first
    BY <2>1
  <2>7. ASSUME NEW i \in m + 1 .. k
        PROVE  g[i] = Step[<<g[i - 1], i>>]
    <3>1. CASE i = k
      <4>1. k \in m .. k /\ k - 1 \in m .. k /\ k - 1 # k
        OBVIOUS
      <4>2. g[k] = Step[<<f[k - 1], k>>] /\ g[k - 1] = f[k - 1]
        BY <4>1
      <4>3. QED BY <3>1, <4>2
    <3>2. CASE i # k
      <4>1. i \in m + 1 .. k - 1 /\ i - 1 \in m .. k - 1 /\ i - 1 # k
        BY <3>2
      <4>2. g[i] = f[i] /\ g[i - 1] = f[i - 1]
        BY <3>2, <4>1
      <4>3. QED BY <2>1, <4>1, <4>2
    <3>3. QED BY <3>1, <3>2
  <2> HIDE DEF g
  <2>8. Good(k)
    BY <2>5, <2>6, <2>7
  <2>9. k \in m .. n
    OBVIOUS
  <2>10. QED BY <2>8, <2>9
<1>3. n \in S
  <2> HIDE DEF S
  <2>1. \A i \in m .. n : i \in S
    BY <1>1, <1>2, Climb
  <2>2. QED BY <2>1
<1>4. Good(n)
  BY <1>3
<1>5. QED BY <1>4

-----------------------------------------------------------------------------
(* sum: nothing at first, then one number more at each step.               *)
LEMMA TotalSteps ==
  ASSUME NEW s \in Seq(Int)
  PROVE  \E f \in [0 .. Len(s) -> Int] :
           /\ f[0] = 0 /\ Total(s) = f[Len(s)]
           /\ \A i \in 1 .. Len(s) : f[i] = f[i - 1] + s[i]
<1> DEFINE n == Len(s)
           Step == [p \in Int \X (0 + 1 .. n) |-> p[1] + s[p[2]]]
           Is(f) == f = [i \in 0 .. n |-> IF i = 0 THEN 0 ELSE f[i - 1] + s[i]]
<1>1. n \in Nat /\ 0 <= n /\ \A i \in 1 .. n : s[i] \in Int
  OBVIOUS
<1>2. Step \in StepsOn(Int, 0, n)
  BY <1>1 DEF StepsOn
<1>3. PICK f \in [0 .. n -> Int] : Follows(f, 0, n, 0, Step)
  <2>1. n \in Nat /\ 0 \in Nat /\ 0 <= n /\ 0 \in Int
    BY <1>1
  <2> HIDE DEF n, Step
  <2>2. QED BY <1>2, <2>1, RecursionExists, Zenon
<1>4. ASSUME NEW i \in 1 .. n
      PROVE  f[i] = f[i - 1] + s[i]
  <2>1. i \in 0 + 1 .. n /\ f[i - 1] \in Int
    BY <1>1
  <2>2. f[i] = Step[<<f[i - 1], i>>]
    BY <1>3, <2>1 DEF Follows
  <2>3. <<f[i - 1], i>> \in Int \X (0 + 1 .. n)
    BY <2>1
  <2>4. QED BY <2>2, <2>3
<1>5. Is(f)
  BY <1>1, <1>3, <1>4 DEF Follows
<1>6. PICK g : g = (CHOOSE h : Is(h)) /\ Is(g)
  <2> HIDE DEF Is
  <2>1. QED BY <1>5
<1>7. Total(s) = g[n]
  BY <1>6 DEF Total
<1>8. g = [i \in 0 .. n |-> IF i = 0 THEN 0 ELSE g[i - 1] + s[i]]
  BY <1>6
<1>9. g[0] = 0 /\ \A i \in 1 .. n : g[i] = g[i - 1] + s[i]
  BY <1>1, <1>8
<1>10. \A i \in 0 .. n : g[i] \in Int
  <2> DEFINE S == {i \in 0 .. n : g[i] \in Int}
  <2>1. 0 \in S
    BY <1>1, <1>9
  <2>2. \A i \in 0 + 1 .. n : i - 1 \in S => i \in S
    BY <1>1, <1>9
  <2>3. \A i \in 0 .. n : i \in S
    <3> HIDE DEF S, n
    <3>1. QED BY <1>1, <2>1, <2>2, Climb
  <2>4. QED BY <2>3
<1>11. g \in [0 .. n -> Int]
  BY <1>8, <1>10
<1>12. QED BY <1>7, <1>9, <1>11
-----------------------------------------------------------------------------
LEMMA ConcatFacts ==
  ASSUME NEW T, NEW s \in Seq(T), NEW t \in Seq(T)
  PROVE  s \o t \in Seq(T) /\ <<>> \o t = t /\ <<>> \in Seq(T)
OBVIOUS

(* flatten: nothing at first, then one sequence more at each step.         *)
LEMMA FlattenSteps ==
  ASSUME NEW T, NEW ss \in Seq(Seq(T))
  PROVE  \E f \in [0 .. Len(ss) -> Seq(T)] :
           /\ f[0] = <<>> /\ FlattenSeq(ss) = f[Len(ss)]
           /\ \A i \in 1 .. Len(ss) : f[i] = f[i - 1] \o ss[i]
<1> DEFINE n == Len(ss)
           Step == [p \in Seq(T) \X (1 + 1 .. n) |-> p[1] \o ss[p[2]]]
           Is(f) == f = [i \in 1 .. n |-> IF i = 1 THEN ss[i] ELSE f[i - 1] \o ss[i]]
<1>1. n \in Nat /\ \A i \in 1 .. n : ss[i] \in Seq(T)
  OBVIOUS
<1>2. CASE n = 0
  <2>1. ss = <<>> /\ FlattenSeq(ss) = <<>>
    BY <1>1, <1>2 DEF FlattenSeq
  <2> DEFINE h == [i \in 0 .. n |-> <<>>]
  <2>2. h \in [0 .. n -> Seq(T)] /\ h[0] = <<>> /\ h[n] = <<>>
    BY <1>2
  <2>3. \A i \in 1 .. n : h[i] = h[i - 1] \o ss[i]
    BY <1>2
  <2> HIDE DEF h
  <2>4. QED BY <2>1, <2>2, <2>3
<1>3. CASE n # 0
  <2>1. 1 \in Nat /\ n \in Nat /\ 1 <= n /\ ss[1] \in Seq(T)
    BY <1>1, <1>3
  <2>2. Step \in StepsOn(Seq(T), 1, n)
    BY <1>1 DEF StepsOn
  <2>3. PICK f \in [1 .. n -> Seq(T)] : Follows(f, 1, n, ss[1], Step)
    <3> HIDE DEF n, Step
    <3>1. QED BY <2>1, <2>2, RecursionExists, Zenon
  <2>4. ASSUME NEW i \in 2 .. n
        PROVE  f[i] = f[i - 1] \o ss[i]
    <3>1. i \in 1 + 1 .. n /\ f[i - 1] \in Seq(T)
      <4>1. i \in 1 + 1 .. n /\ i - 1 \in 1 .. n
        BY <1>1
      <4> HIDE DEF n
      <4>2. QED BY <4>1
    <3>2. f[i] = Step[<<f[i - 1], i>>]
      BY <2>3, <3>1 DEF Follows
    <3>3. <<f[i - 1], i>> \in Seq(T) \X (1 + 1 .. n)
      BY <3>1
    <3>4. QED BY <3>2, <3>3
  <2>5. Is(f)
    <3>1. f = [i \in 1 .. n |-> f[i]]
      OBVIOUS
    <3>2. \A i \in 1 .. n : f[i] = IF i = 1 THEN ss[i] ELSE f[i - 1] \o ss[i]
      <4>1. f[1] = ss[1]
        BY <2>3 DEF Follows
      <4>2. \A i \in 1 .. n : i = 1 \/ i \in 2 .. n
        BY <1>1
      <4>3. QED BY <2>4, <4>1, <4>2
    <3> HIDE DEF n
    <3>3. QED BY <3>1, <3>2
  <2>6. PICK g : g = (CHOOSE h : Is(h)) /\ Is(g)
    <3> HIDE DEF Is
    <3>1. QED BY <2>5
  <2>7. FlattenSeq(ss) = g[n]
    BY <1>3, <2>6 DEF FlattenSeq
  <2>8. g[1] = ss[1] /\ \A i \in 2 .. n : g[i] = g[i - 1] \o ss[i]
    <3> HIDE DEF n
    <3>1. \A i \in 1 .. n : g[i] = IF i = 1 THEN ss[i] ELSE g[i - 1] \o ss[i]
      BY <2>6
    <3>2. 1 \in 1 .. n /\ \A i \in 2 .. n : i \in 1 .. n /\ i # 1
      BY <2>1
    <3>3. QED BY <3>1, <3>2
  <2>9. \A i \in 1 .. n : g[i] \in Seq(T)
    <3> DEFINE S == {i \in 1 .. n : g[i] \in Seq(T)}
    <3>1. 1 \in S
      BY <2>1, <2>8
    <3>2. ASSUME NEW i \in 1 + 1 .. n, i - 1 \in S
          PROVE  i \in S
      <4>1. i \in 2 .. n /\ i \in 1 .. n /\ g[i - 1] \in Seq(T) /\ ss[i] \in Seq(T)
        BY <1>1, <3>2
      <4>2. g[i] = g[i - 1] \o ss[i]
        BY <2>8, <4>1
      <4>3. g[i] \in Seq(T)
        BY <4>1, <4>2, ConcatFacts
      <4>4. QED BY <4>1, <4>3
    <3>3. \A i \in 1 .. n : i \in S
      <4> HIDE DEF S, n
      <4>1. QED BY <2>1, <3>1, <3>2, Climb
    <3>4. QED BY <3>3
  <2> DEFINE h == [i \in 0 .. n |-> IF i = 0 THEN <<>> ELSE g[i]]
  <2>10. h \in [0 .. n -> Seq(T)]
    <3>1. \A i \in 0 .. n : i # 0 => i \in 1 .. n
      BY <1>1
    <3>2. \A i \in 0 .. n : (IF i = 0 THEN <<>> ELSE g[i]) \in Seq(T)
      BY <2>9, <3>1
    <3> HIDE DEF n
    <3>3. QED BY <3>2
  <2>11. h[0] = <<>> /\ FlattenSeq(ss) = h[n]
    BY <1>1, <2>1, <2>7
  <2>12. ASSUME NEW i \in 1 .. n
         PROVE  h[i] = h[i - 1] \o ss[i]
    <3>1. h[i] = g[i] /\ i \in Nat /\ g[i] \in Seq(T) /\ ss[i] \in Seq(T)
      BY <1>1, <2>9
    <3>2. CASE i = 1
      <4>1. h[0] = <<>> /\ g[1] = ss[1]
        BY <2>8, <2>11
      <4>2. <<>> \o ss[i] = ss[i]
        BY <3>1, ConcatFacts
      <4>3. h[i - 1] = <<>>
        BY <3>2, <4>1
      <4> HIDE DEF h
      <4>4. QED BY <3>1, <3>2, <4>1, <4>2, <4>3
    <3>3. CASE i # 1
      <4>1. i \in 2 .. n /\ h[i - 1] = g[i - 1]
        BY <1>1, <3>1, <3>3
      <4>2. QED BY <2>8, <3>1, <4>1
    <3>4. QED BY <3>2, <3>3
  <2> HIDE DEF h
  <2>13. QED BY <2>10, <2>11, <2>12
<1>4. QED BY <1>2, <1>3
(* The members of a concatenation.                                         *)
LEMMA ConcatMembers ==
  ASSUME NEW T, NEW s \in Seq(T), NEW t \in Seq(T)
  PROVE  ToSet(s \o t) = ToSet(s) \cup ToSet(t)
<1>1. /\ Len(s) \in Nat /\ Len(t) \in Nat /\ Len(s \o t) = Len(s) + Len(t)
      /\ DOMAIN s = 1 .. Len(s) /\ DOMAIN t = 1 .. Len(t)
      /\ DOMAIN (s \o t) = 1 .. Len(s) + Len(t)
      /\ \A i \in 1 .. Len(s) : (s \o t)[i] = s[i]
      /\ \A i \in 1 .. Len(t) : (s \o t)[Len(s) + i] = t[i]
  OBVIOUS
<1> DEFINE u == s \o t
<1> HIDE DEF u
<1>2. ASSUME NEW x \in ToSet(u)
      PROVE  x \in ToSet(s) \cup ToSet(t)
  <2>1. PICK i \in 1 .. Len(s) + Len(t) : x = u[i]
    BY <1>1, <1>2 DEF ToSet, u
  <2>2. CASE i \in 1 .. Len(s)
    BY <1>1, <2>1, <2>2 DEF ToSet, u
  <2>3. CASE i \notin 1 .. Len(s)
    <3>1. i - Len(s) \in 1 .. Len(t) /\ i = Len(s) + (i - Len(s))
      BY <1>1, <2>1, <2>3
    <3>2. x = t[i - Len(s)]
      BY <1>1, <2>1, <3>1 DEF u
    <3>3. QED BY <1>1, <3>1, <3>2 DEF ToSet
  <2>4. QED BY <2>2, <2>3
<1>3. ASSUME NEW x \in ToSet(s)
      PROVE  x \in ToSet(u)
  <2>1. PICK i \in 1 .. Len(s) : x = s[i]
    BY <1>1, <1>3 DEF ToSet
  <2>2. i \in 1 .. Len(s) + Len(t) /\ u[i] = x
    BY <1>1, <2>1 DEF u
  <2>3. QED BY <1>1, <2>2 DEF ToSet, u
<1>4. ASSUME NEW x \in ToSet(t)
      PROVE  x \in ToSet(u)
  <2>1. PICK i \in 1 .. Len(t) : x = t[i]
    BY <1>1, <1>4 DEF ToSet
  <2>2. Len(s) + i \in 1 .. Len(s) + Len(t) /\ u[Len(s) + i] = x
    BY <1>1, <2>1 DEF u
  <2>3. QED BY <1>1, <2>2 DEF ToSet, u
<1>5. QED BY <1>2, <1>3, <1>4 DEF u

(* Flattened, the sequences have the members they had.                     *)
LEMMA FlattenMembers ==
  ASSUME NEW T, NEW ss \in Seq(Seq(T))
  PROVE  /\ FlattenSeq(ss) \in Seq(T)
         /\ \A x : x \in ToSet(FlattenSeq(ss)) <=> \E i \in DOMAIN ss : x \in ToSet(ss[i])
<1> DEFINE n == Len(ss)
<1>1. n \in Nat /\ 0 \in Nat /\ DOMAIN ss = 1 .. n /\ \A i \in 1 .. n : ss[i] \in Seq(T)
  OBVIOUS
<1>2. PICK f \in [0 .. n -> Seq(T)] :
        /\ f[0] = <<>> /\ FlattenSeq(ss) = f[n]
        /\ \A i \in 1 .. n : f[i] = f[i - 1] \o ss[i]
  BY FlattenSteps
<1> HIDE DEF n
<1> DEFINE Holds(k) == \A x : x \in ToSet(f[k]) <=> \E i \in 1 .. k : x \in ToSet(ss[i])
           S == {k \in 0 .. n : Holds(k)}
<1>3. 0 \in S
  <2>1. ToSet(f[0]) = {} /\ 0 \in 0 .. n
    BY <1>1, <1>2 DEF ToSet
  <2>2. QED BY <2>1
<1>4. ASSUME NEW k \in 0 + 1 .. n, k - 1 \in S
      PROVE  k \in S
  <2>1. /\ k \in 1 .. n /\ k \in 0 .. n /\ k - 1 \in 0 .. n /\ ss[k] \in Seq(T)
        /\ f[k - 1] \in Seq(T) /\ 1 .. k = (1 .. k - 1) \cup {k}
    BY <1>1
  <2>2. ToSet(f[k]) = ToSet(f[k - 1]) \cup ToSet(ss[k])
    <3>1. f[k] = f[k - 1] \o ss[k]
      BY <1>2, <2>1
    <3>2. ToSet(f[k - 1] \o ss[k]) = ToSet(f[k - 1]) \cup ToSet(ss[k])
      BY <2>1, ConcatMembers
    <3>3. QED BY <3>1, <3>2
  <2>3. Holds(k - 1)
    BY <1>4
  <2>4. Holds(k)
    BY <2>1, <2>2, <2>3
  <2> HIDE DEF Holds
  <2>5. QED BY <2>1, <2>4
<1>5. \A k \in 0 .. n : k \in S
  <2> HIDE DEF S
  <2>1. QED BY <1>1, <1>3, <1>4, Climb
<1>6. Holds(n) /\ n \in 0 .. n
  BY <1>1, <1>5
<1>7. QED BY <1>1, <1>2, <1>6

-----------------------------------------------------------------------------
LEMMA FunctionIsSeq ==
  ASSUME NEW T, NEW n \in Nat, NEW f \in [1 .. n -> T]
  PROVE  f \in Seq(T) /\ Len(f) = n /\ DOMAIN f = 1 .. n
OBVIOUS

(* What filter makes of each element: itself alone or nothing.             *)
Chosen(s, S) == [i \in DOMAIN s |-> IF s[i] \in S THEN <<s[i]>> ELSE <<>>]

LEMMA ChosenFacts ==
  ASSUME NEW T, NEW s \in Seq(T), NEW S
  PROVE  /\ Chosen(s, S) \in Seq(Seq(T)) /\ Len(Chosen(s, S)) = Len(s)
         /\ DOMAIN Chosen(s, S) = 1 .. Len(s)
         /\ Select(s, S) = FlattenSeq(Chosen(s, S))
<1>1. Len(s) \in Nat /\ DOMAIN s = 1 .. Len(s) /\ \A i \in 1 .. Len(s) : s[i] \in T
  OBVIOUS
<1>2. \A i \in 1 .. Len(s) : (IF s[i] \in S THEN <<s[i]>> ELSE <<>>) \in Seq(T)
  BY <1>1
<1> DEFINE n == Len(s)
           ss == Chosen(s, S)
           D == Seq(T)
<1>3. n \in Nat /\ ss \in [1 .. n -> D]
  BY <1>1, <1>2 DEF Chosen
<1>4. Select(s, S) = FlattenSeq(ss)
  BY DEF Select, Chosen
<1>5. ss \in Seq(D) /\ Len(ss) = n /\ DOMAIN ss = 1 .. n
  <2> HIDE DEF n, ss, D
  <2>1. QED BY <1>3, FunctionIsSeq
<1>6. QED BY <1>4, <1>5

(* Selected are the members that are in S.                                 *)
LEMMA SelectFacts ==
  ASSUME NEW T, NEW s \in Seq(T), NEW S
  PROVE  /\ Select(s, S) \in Seq(T)
         /\ \A x : x \in ToSet(Select(s, S)) <=> x \in ToSet(s) /\ x \in S
<1> DEFINE ss == Chosen(s, S)
<1>1. DOMAIN s = 1 .. Len(s)
  OBVIOUS
<1>2. /\ ss \in Seq(Seq(T)) /\ DOMAIN ss = 1 .. Len(s) /\ Select(s, S) = FlattenSeq(ss)
  BY ChosenFacts
<1>3. ASSUME NEW x, NEW i \in 1 .. Len(s)
      PROVE  x \in ToSet(ss[i]) <=> x = s[i] /\ x \in S
  <2>1. ss[i] = IF s[i] \in S THEN <<s[i]>> ELSE <<>>
    BY <1>1 DEF Chosen
  <2>2. ToSet(<<s[i]>>) = {s[i]} /\ ToSet(<<>>) = {}
    BY DEF ToSet
  <2> HIDE DEF ss
  <2>3. QED BY <2>1, <2>2
<1>4. \A x : x \in ToSet(s) <=> \E i \in 1 .. Len(s) : x = s[i]
  BY <1>1 DEF ToSet
<1> HIDE DEF ss
<1>5. /\ FlattenSeq(ss) \in Seq(T)
      /\ \A x : x \in ToSet(FlattenSeq(ss)) <=> \E i \in DOMAIN ss : x \in ToSet(ss[i])
  BY <1>2, FlattenMembers
<1>6. QED BY <1>2, <1>3, <1>4, <1>5

(* filter, step by step.                                                   *)
Selects(f, s, S) ==
  /\ f[0] = <<>> /\ Select(s, S) = f[Len(s)]
  /\ \A i \in 1 .. Len(s) : f[i] = IF s[i] \in S THEN Append(f[i - 1], s[i]) ELSE f[i - 1]

LEMMA SelectSteps ==
  ASSUME NEW T, NEW s \in Seq(T), NEW S
  PROVE  \E f \in [0 .. Len(s) -> Seq(T)] : Selects(f, s, S)
<1> DEFINE ss == Chosen(s, S)
<1>1. Len(s) \in Nat /\ DOMAIN s = 1 .. Len(s) /\ \A i \in 1 .. Len(s) : s[i] \in T
  OBVIOUS
<1>2. /\ ss \in Seq(Seq(T)) /\ Len(ss) = Len(s) /\ Select(s, S) = FlattenSeq(ss)
      /\ \A i \in 1 .. Len(s) : ss[i] = IF s[i] \in S THEN <<s[i]>> ELSE <<>>
  BY <1>1, ChosenFacts DEF Chosen
<1> HIDE DEF ss
<1>3. PICK f \in [0 .. Len(ss) -> Seq(T)] :
        /\ f[0] = <<>> /\ FlattenSeq(ss) = f[Len(ss)]
        /\ \A i \in 1 .. Len(ss) : f[i] = f[i - 1] \o ss[i]
  BY <1>2, FlattenSteps
<1>4. ASSUME NEW i \in 1 .. Len(s)
      PROVE  f[i] = IF s[i] \in S THEN Append(f[i - 1], s[i]) ELSE f[i - 1]
  <2>1. f[i] = f[i - 1] \o ss[i] /\ f[i - 1] \in Seq(T) /\ s[i] \in T
    <3>1. i - 1 \in 0 .. Len(s)
      BY <1>1
    <3>2. QED BY <1>1, <1>2, <1>3, <3>1
  <2>2. \A t \in Seq(T), e \in T : t \o <<e>> = Append(t, e) /\ t \o <<>> = t
    OBVIOUS
  <2>3. QED BY <1>2, <2>1, <2>2
<1>5. Selects(f, s, S)
  BY <1>2, <1>3, <1>4 DEF Selects
<1>6. QED BY <1>2, <1>5

-----------------------------------------------------------------------------
(* Counting.                                                               *)
LEMMA CountFacts ==
  ASSUME NEW T, NEW s \in Seq(T), NEW S
  PROVE  /\ IsFiniteSet({i \in DOMAIN s : s[i] \in S})
         /\ Count(s, S) \in Nat
         /\ \A R : (\A i \in DOMAIN s : s[i] \in R => s[i] \in S) => Count(s, R) <= Count(s, S)
<1>1. IsFiniteSet(1 .. Len(s)) /\ DOMAIN s = 1 .. Len(s)
  BY FS_Interval
<1>2. IsFiniteSet({i \in DOMAIN s : s[i] \in S})
  BY <1>1, FS_Subset
<1>3. Count(s, S) \in Nat
  BY <1>2, FS_CardinalityType DEF Count
<1>4. ASSUME NEW R, \A i \in DOMAIN s : s[i] \in R => s[i] \in S
      PROVE  Count(s, R) <= Count(s, S)
  <2>1. {i \in DOMAIN s : s[i] \in R} \subseteq {i \in DOMAIN s : s[i] \in S}
    BY <1>4
  <2>2. QED BY <1>2, <2>1, FS_Subset DEF Count
<1>5. QED BY <1>2, <1>3, <1>4

LEMMA CountEmpty == \A S : Count(<<>>, S) = 0
<1> SUFFICES ASSUME NEW S PROVE Count(<<>>, S) = 0
  OBVIOUS
<1>1. {i \in DOMAIN <<>> : <<>>[i] \in S} = {}
  OBVIOUS
<1>2. QED BY <1>1, FS_EmptySet DEF Count

LEMMA CountAppend ==
  ASSUME NEW T, NEW s \in Seq(T), NEW e \in T, NEW S
  PROVE  Count(Append(s, e), S) = Count(s, S) + IF e \in S THEN 1 ELSE 0
<1> DEFINE A == {i \in DOMAIN s : s[i] \in S}
           B == {i \in DOMAIN Append(s, e) : Append(s, e)[i] \in S}
<1>1. /\ Len(s) \in Nat /\ DOMAIN s = 1 .. Len(s)
      /\ DOMAIN Append(s, e) = (1 .. Len(s)) \cup {Len(s) + 1}
      /\ Append(s, e)[Len(s) + 1] = e
      /\ \A i \in 1 .. Len(s) : Append(s, e)[i] = s[i]
  OBVIOUS
<1>2. IsFiniteSet(A)
  BY CountFacts
<1>3. CASE e \in S
  <2>1. B = A \cup {Len(s) + 1} /\ Len(s) + 1 \notin A
    BY <1>1, <1>3
  <2> HIDE DEF A, B
  <2>2. Cardinality(B) = Cardinality(A) + 1
    BY <1>2, <2>1, FS_AddElement
  <2>3. QED BY <1>3, <2>2 DEF Count, A, B
<1>4. CASE e \notin S
  <2>1. B = A
    BY <1>1, <1>4
  <2>2. Cardinality(A) \in Nat
    BY <1>2, FS_CardinalityType
  <2> HIDE DEF A, B
  <2>3. Cardinality(B) = Cardinality(A) + 0
    BY <2>1, <2>2
  <2>4. QED BY <1>4, <2>3 DEF Count, A, B
<1>5. QED BY <1>3, <1>4

(* Of the selected elements as many are in R as are in both.               *)
LEMMA CountSelect ==
  ASSUME NEW T, NEW s \in Seq(T), NEW S, NEW R
  PROVE  Count(Select(s, S), R) = Count(s, S \cap R)
<1> DEFINE n == Len(s)
           A(k) == {i \in 1 .. k : s[i] \in S \cap R}
<1>1. n \in Nat /\ 0 \in Nat /\ DOMAIN s = 1 .. n /\ \A i \in 1 .. n : s[i] \in T
  OBVIOUS
<1>2. PICK f \in [0 .. Len(s) -> Seq(T)] : Selects(f, s, S)
  BY SelectSteps
<1>3. Count(s, S \cap R) = Cardinality(A(n))
  BY <1>1 DEF Count
<1>4. f \in [0 .. n -> Seq(T)] /\ f[0] = <<>> /\ Select(s, S) = f[n]
        /\ \A i \in 1 .. n : f[i] = IF s[i] \in S THEN Append(f[i - 1], s[i]) ELSE f[i - 1]
  BY <1>2 DEF Selects
<1> HIDE DEF n
<1> DEFINE P == {k \in 0 .. n : Count(f[k], R) = Cardinality(A(k))}
<1>5. 0 \in P
  <2>1. A(0) = {} /\ 0 \in 0 .. n
    BY <1>1
  <2>2. Cardinality(A(0)) = 0
    BY <2>1, FS_EmptySet
  <2>3. Count(f[0], R) = 0
    BY <1>4, CountEmpty
  <2>4. QED BY <2>1, <2>2, <2>3
<1>6. ASSUME NEW k \in 0 + 1 .. n, k - 1 \in P
      PROVE  k \in P
  <2>1. /\ k \in 1 .. n /\ k \in 0 .. n /\ k - 1 \in 0 .. n /\ s[k] \in T
        /\ 1 .. k = (1 .. k - 1) \cup {k} /\ k \notin 1 .. k - 1
    BY <1>1
  <2>2. f[k - 1] \in Seq(T)
    BY <1>4, <2>1
  <2>3. Count(f[k - 1], R) = Cardinality(A(k - 1)) /\ Count(f[k - 1], R) \in Nat
    BY <1>6, <2>2, CountFacts
  <2>4. IsFiniteSet(A(k - 1))
    <3>1. IsFiniteSet(1 .. k - 1)
      BY <2>1, FS_Interval
    <3>2. A(k - 1) \subseteq 1 .. k - 1
      OBVIOUS
    <3> HIDE DEF A
    <3>3. QED BY <3>1, <3>2, FS_Subset
  <2>5. Count(f[k], R) = Count(f[k - 1], R) + IF s[k] \in S \cap R THEN 1 ELSE 0
    <3>1. CASE s[k] \in S
      <4>1. f[k] = Append(f[k - 1], s[k])
        BY <1>4, <2>1, <3>1
      <4>2. Count(f[k], R) = Count(f[k - 1], R) + IF s[k] \in R THEN 1 ELSE 0
        BY <2>1, <2>2, <4>1, CountAppend
      <4>3. s[k] \in R <=> s[k] \in S \cap R
        BY <3>1
      <4>4. QED BY <4>2, <4>3
    <3>2. CASE s[k] \notin S
      <4>1. f[k] = f[k - 1]
        BY <1>4, <2>1, <3>2
      <4>2. QED BY <2>3, <3>2, <4>1
    <3>3. QED BY <3>1, <3>2
  <2>6. CASE s[k] \in S \cap R
    <3>1. A(k) = A(k - 1) \cup {k} /\ k \notin A(k - 1)
      BY <2>1, <2>6
    <3> HIDE DEF A
    <3>2. Cardinality(A(k)) = Cardinality(A(k - 1)) + 1
      BY <2>4, <3>1, FS_AddElement
    <3>3. Count(f[k], R) = Cardinality(A(k))
      BY <2>3, <2>5, <2>6, <3>2
    <3>4. QED BY <2>1, <3>3
  <2>7. CASE s[k] \notin S \cap R
    <3>1. A(k) = A(k - 1)
      BY <2>1, <2>7
    <3> HIDE DEF A
    <3>2. Count(f[k], R) = Cardinality(A(k))
      BY <2>3, <2>5, <2>7, <3>1
    <3>3. QED BY <2>1, <3>2
  <2>8. QED BY <2>6, <2>7
<1>7. \A k \in 0 .. n : k \in P
  <2> HIDE DEF P
  <2>1. QED BY <1>1, <1>5, <1>6, Climb
<1>8. n \in 0 .. n
  BY <1>1
<1>9. QED BY <1>3, <1>4, <1>7, <1>8

-----------------------------------------------------------------------------
(* A bounded set of naturals that is not empty has a greatest element.     *)
LEMMA GreatestElement ==
  ASSUME NEW n \in Nat, NEW T \in SUBSET (0 .. n), T # {}
  PROVE  \E m \in T : \A k \in T : k <= m
<1> DEFINE R == {k \in 0 .. n : n - k \in T}
<1>1. R \in SUBSET Nat /\ R # {}
  <2>1. PICK k \in T : TRUE
    OBVIOUS
  <2>2. n - k \in 0 .. n /\ n - (n - k) = k
    OBVIOUS
  <2>3. n - k \in R
    BY <2>1, <2>2
  <2>4. R \in SUBSET Nat
    OBVIOUS
  <2>5. QED BY <2>3, <2>4
<1>2. PICK r \in R : \A k \in R : r <= k
  <2> HIDE DEF R
  <2>1. QED BY <1>1, LeastElement
<1>3. ASSUME NEW k \in T
      PROVE  k <= n - r
  <2>1. n - k \in 0 .. n /\ n - (n - k) = k
    OBVIOUS
  <2>2. n - k \in R
    BY <2>1
  <2>3. QED BY <1>2, <2>2
<1>4. QED BY <1>2, <1>3

(* f holds the sums of what s starts with.                                 *)
Sums(f, s) ==
  /\ f[0] = 0 /\ Total(s) = f[Len(s)]
  /\ \A i \in 1 .. Len(s) : f[i] = f[i - 1] + s[i]

LEMMA SumsExist ==
  ASSUME NEW s \in Seq(Int)
  PROVE  \E f \in [0 .. Len(s) -> Int] : Sums(f, s)
BY TotalSteps DEF Sums

(* Sums of two lists are compared element by element.                      *)
LEMMA TotalMonotone ==
  ASSUME NEW s \in Seq(Int), NEW t \in Seq(Int), Len(s) = Len(t),
         \A i \in 1 .. Len(s) : s[i] <= t[i]
  PROVE  Total(s) <= Total(t)
<1> DEFINE n == Len(s)
<1>1. n \in Nat /\ 0 \in Nat /\ \A i \in 1 .. n : s[i] \in Int /\ t[i] \in Int
  OBVIOUS
<1>2. PICK f \in [0 .. Len(s) -> Int] : Sums(f, s)
  BY SumsExist
<1>3. PICK g \in [0 .. Len(t) -> Int] : Sums(g, t)
  BY SumsExist
<1> DEFINE S == {i \in 0 .. n : f[i] <= g[i]}
<1>4. 0 \in S
  BY <1>1, <1>2, <1>3 DEF Sums
<1>5. ASSUME NEW i \in 0 + 1 .. n, i - 1 \in S
      PROVE  i \in S
  <2>1. i \in 1 .. Len(s) /\ i \in 1 .. Len(t) /\ i - 1 \in 0 .. n /\ i \in 0 .. n
    BY <1>1
  <2>2. f[i] = f[i - 1] + s[i] /\ g[i] = g[i - 1] + t[i] /\ f[i - 1] <= g[i - 1]
    BY <1>2, <1>3, <1>5, <2>1 DEF Sums
  <2>3. f[i] \in Int /\ g[i] \in Int /\ f[i - 1] \in Int /\ g[i - 1] \in Int
          /\ s[i] \in Int /\ t[i] \in Int /\ s[i] <= t[i]
    BY <1>1, <2>1
  <2>4. QED BY <2>1, <2>2, <2>3
<1>6. \A i \in 0 .. n : i \in S
  <2> HIDE DEF S, n
  <2>1. QED BY <1>1, <1>4, <1>5, Climb
<1>7. n \in S
  BY <1>1, <1>6
<1>8. QED BY <1>2, <1>3, <1>7 DEF Sums

LEMMA TotalNat ==
  ASSUME NEW s \in Seq(Nat)
  PROVE  Total(s) \in Nat
<1>1. Len(s) \in Nat /\ 0 \in Nat /\ s \in Seq(Int) /\ \A i \in 1 .. Len(s) : s[i] \in Nat
  OBVIOUS
<1>2. PICK f \in [0 .. Len(s) -> Int] : Sums(f, s)
  BY <1>1, SumsExist
<1> DEFINE S == {i \in 0 .. Len(s) : f[i] \in Nat}
<1>3. 0 \in S
  BY <1>1, <1>2 DEF Sums
<1>4. \A i \in 0 + 1 .. Len(s) : i - 1 \in S => i \in S
  BY <1>1, <1>2 DEF Sums
<1>5. \A i \in 0 .. Len(s) : i \in S
  <2> HIDE DEF S
  <2>1. QED BY <1>1, <1>3, <1>4, Climb
<1>6. QED BY <1>1, <1>2, <1>5 DEF Sums

LEMMA TotalShort ==
  /\ Total(<<>>) = 0
  /\ \A x \in Int : Total(<<x>>) = x
<1>1. Total(<<>>) = 0
  <2>1. <<>> \in Seq(Int) /\ Len(<<>>) = 0
    OBVIOUS
  <2>2. PICK f \in [0 .. Len(<<>>) -> Int] : Sums(f, <<>>)
    BY <2>1, SumsExist
  <2>3. QED BY <2>1, <2>2 DEF Sums
<1>2. ASSUME NEW x \in Int
      PROVE  Total(<<x>>) = x
  <2> DEFINE s == <<x>>
  <2>1. s \in Seq(Int) /\ Len(s) = 1 /\ s[1] = x
    OBVIOUS
  <2> HIDE DEF s
  <2>2. PICK f \in [0 .. Len(s) -> Int] : Sums(f, s)
    BY <2>1, SumsExist
  <2>3. f[0] = 0 /\ Total(s) = f[1] /\ f[1] = f[1 - 1] + s[1]
    BY <2>1, <2>2 DEF Sums
  <2>4. Total(s) = x
    BY <2>1, <2>3
  <2>5. QED BY <2>4 DEF s
<1>3. QED BY <1>1, <1>2

LEMMA TotalConcat ==
  ASSUME NEW s \in Seq(Int), NEW t \in Seq(Int)
  PROVE  Total(s \o t) = Total(s) + Total(t)
<1> DEFINE m == Len(s)
           n == Len(t)
           u == s \o t
<1>1. /\ m \in Nat /\ n \in Nat /\ 0 \in Nat /\ Len(u) = m + n /\ u \in Seq(Int)
      /\ \A i \in 1 .. m : u[i] = s[i] /\ s[i] \in Int
      /\ \A i \in 1 .. n : u[m + i] = t[i] /\ t[i] \in Int
  OBVIOUS
<1> HIDE DEF u
<1>2. PICK f \in [0 .. Len(s) -> Int] : Sums(f, s)
  BY SumsExist
<1>3. PICK g \in [0 .. Len(t) -> Int] : Sums(g, t)
  BY SumsExist
<1>4. PICK h \in [0 .. Len(u) -> Int] : Sums(h, u)
  BY <1>1, SumsExist
<1>5. /\ f[0] = 0 /\ Total(s) = f[m] /\ \A i \in 1 .. m : f[i] = f[i - 1] + s[i]
      /\ g[0] = 0 /\ Total(t) = g[n] /\ \A i \in 1 .. n : g[i] = g[i - 1] + t[i]
      /\ h[0] = 0 /\ Total(u) = h[m + n] /\ \A i \in 1 .. m + n : h[i] = h[i - 1] + u[i]
      /\ f \in [0 .. m -> Int] /\ g \in [0 .. n -> Int] /\ h \in [0 .. m + n -> Int]
  BY <1>1, <1>2, <1>3, <1>4 DEF Sums
<1> HIDE DEF m, n
<1> DEFINE S == {i \in 0 .. m : h[i] = f[i]}
<1>6. 0 \in S
  BY <1>1, <1>5
<1>7. ASSUME NEW i \in 0 + 1 .. m, i - 1 \in S
      PROVE  i \in S
  <2>1. i \in 1 .. m /\ i \in 1 .. m + n /\ i - 1 \in 0 .. m /\ i \in 0 .. m
    BY <1>1
  <2>2. h[i] = h[i - 1] + u[i] /\ f[i] = f[i - 1] + s[i] /\ u[i] = s[i] /\ h[i - 1] = f[i - 1]
    BY <1>1, <1>5, <1>7, <2>1
  <2>3. QED BY <2>1, <2>2
<1>8. \A i \in 0 .. m : i \in S
  <2> HIDE DEF S
  <2>1. QED BY <1>1, <1>6, <1>7, Climb
<1>9. h[m] = f[m]
  BY <1>1, <1>8
<1> DEFINE R == {i \in 0 .. n : h[m + i] = f[m] + g[i]}
<1>10. 0 \in R
  BY <1>1, <1>5, <1>9
<1>11. ASSUME NEW i \in 0 + 1 .. n, i - 1 \in R
       PROVE  i \in R
  <2>1. i \in 1 .. n /\ m + i \in 1 .. m + n /\ i - 1 \in 0 .. n /\ i \in 0 .. n
          /\ (m + i) - 1 = m + (i - 1)
    BY <1>1
  <2>2. h[m + i] = h[m + (i - 1)] + u[m + i] /\ g[i] = g[i - 1] + t[i] /\ u[m + i] = t[i]
    BY <1>1, <1>5, <2>1
  <2>3. h[m + (i - 1)] = f[m] + g[i - 1]
    BY <1>11
  <2>4. f[m] \in Int /\ g[i - 1] \in Int /\ t[i] \in Int
    <3>1. m \in 0 .. m
      BY <1>1
    <3>2. QED BY <1>1, <1>5, <2>1, <3>1
  <2>5. h[m + i] = f[m] + g[i]
    BY <2>2, <2>3, <2>4
  <2>6. QED BY <2>1, <2>5
<1>12. \A i \in 0 .. n : i \in R
  <2> HIDE DEF R
  <2>1. QED BY <1>1, <1>10, <1>11, Climb
<1>13. h[m + n] = f[m] + g[n]
  BY <1>1, <1>12
<1>14. QED BY <1>5, <1>13 DEF u

-----------------------------------------------------------------------------
(* What the elements of s weigh together, w giving each element's weight.  *)
Weights(s, w) == [i \in DOMAIN s |-> w[s[i]]]
Weigh(s, w)   == Total(Weights(s, w))

LEMMA WeightsAreSeq ==
  ASSUME NEW T, NEW s \in Seq(T), NEW w \in [T -> Int]
  PROVE  /\ Weights(s, w) \in Seq(Int) /\ Len(Weights(s, w)) = Len(s)
         /\ \A i \in 1 .. Len(s) : Weights(s, w)[i] = w[s[i]]
<1>1. Len(s) \in Nat /\ DOMAIN s = 1 .. Len(s) /\ \A i \in 1 .. Len(s) : s[i] \in T
  OBVIOUS
<1> DEFINE n == Len(s)
           f == Weights(s, w)
<1>2. n \in Nat /\ f \in [1 .. n -> Int] /\ \A i \in 1 .. n : f[i] = w[s[i]]
  BY <1>1 DEF Weights
<1> HIDE DEF n, f
<1>3. f \in Seq(Int) /\ Len(f) = n
  BY <1>2, FunctionIsSeq
<1>4. QED BY <1>2, <1>3 DEF f, n

(* u is s and then t.                                                      *)
Joins(u, s, t) ==
  /\ Len(u) = Len(s) + Len(t)
  /\ \A i \in 1 .. Len(s) : u[i] = s[i]
  /\ \A i \in 1 .. Len(t) : u[Len(s) + i] = t[i]

LEMMA ConcatJoins ==
  ASSUME NEW T, NEW s \in Seq(T), NEW t \in Seq(T)
  PROVE  s \o t \in Seq(T) /\ Joins(s \o t, s, t)
BY DEF Joins

LEMMA WeighConcat ==
  ASSUME NEW T, NEW s \in Seq(T), NEW t \in Seq(T), NEW w \in [T -> Int]
  PROVE  /\ Weigh(s \o t, w) = Weigh(s, w) + Weigh(t, w)
         /\ Weigh(s, w) \in Int /\ Weigh(t, w) \in Int
<1> DEFINE u == s \o t
           ws == Weights(s, w)
           wt == Weights(t, w)
           wu == Weights(u, w)
<1>1. /\ Len(s) \in Nat /\ Len(t) \in Nat /\ Len(u) = Len(s) + Len(t) /\ u \in Seq(T)
      /\ \A i \in 1 .. Len(s) : u[i] = s[i] /\ i \in 1 .. Len(u)
      /\ \A i \in 1 .. Len(t) : u[Len(s) + i] = t[i] /\ Len(s) + i \in 1 .. Len(u)
  OBVIOUS
<1> HIDE DEF u
<1>2. ws \in Seq(Int) /\ wt \in Seq(Int) /\ wu \in Seq(Int)
        /\ Len(ws) = Len(s) /\ Len(wt) = Len(t) /\ Len(wu) = Len(u)
  BY <1>1, WeightsAreSeq
<1>3. /\ \A i \in 1 .. Len(s) : ws[i] = w[s[i]]
      /\ \A i \in 1 .. Len(t) : wt[i] = w[t[i]]
      /\ \A i \in 1 .. Len(u) : wu[i] = w[u[i]]
  <2>1. DOMAIN s = 1 .. Len(s) /\ DOMAIN t = 1 .. Len(t) /\ DOMAIN u = 1 .. Len(u)
    BY <1>1
  <2>2. QED BY <2>1 DEF Weights
<1> HIDE DEF ws, wt, wu
<1>4. wu = ws \o wt
  <2> DEFINE v == ws \o wt
  <2>1. /\ v \in Seq(Int) /\ Len(v) = Len(s) + Len(t)
        /\ \A i \in 1 .. Len(s) : v[i] = ws[i]
        /\ \A i \in 1 .. Len(t) : v[Len(s) + i] = wt[i]
    <3>1. v \in Seq(Int) /\ Joins(v, ws, wt)
      BY <1>2, ConcatJoins
    <3> HIDE DEF v
    <3>2. QED BY <1>2, <3>1 DEF Joins
  <2> HIDE DEF v
  <2>2. ASSUME NEW i \in 1 .. Len(u)
        PROVE  wu[i] = v[i]
    <3>1. CASE i <= Len(s)
      <4>1. i \in 1 .. Len(s)
        BY <1>1, <3>1
      <4>2. u[i] = s[i] /\ v[i] = ws[i]
        BY <1>1, <2>1, <4>1
      <4>3. QED BY <1>3, <4>1, <4>2
    <3>2. CASE i > Len(s)
      <4>1. i - Len(s) \in 1 .. Len(t) /\ Len(s) + (i - Len(s)) = i
        BY <1>1, <3>2
      <4>2. u[i] = t[i - Len(s)] /\ v[i] = wt[i - Len(s)]
        BY <1>1, <2>1, <4>1
      <4>3. QED BY <1>3, <4>1, <4>2
    <3>3. QED BY <1>1, <3>1, <3>2
  <2>3. Len(wu) = Len(v)
    BY <1>1, <1>2, <2>1
  <2>4. wu = v
    BY <1>2, <2>1, <2>2, <2>3
  <2>5. QED BY <2>4 DEF v
<1>5. Total(wu) = Total(ws) + Total(wt)
  BY <1>2, <1>4, TotalConcat
<1>6. ASSUME NEW numbers \in Seq(Int)
      PROVE  Total(numbers) \in Int
  <2>1. PICK f \in [0 .. Len(numbers) -> Int] : Sums(f, numbers)
    BY SumsExist
  <2>2. Len(numbers) \in 0 .. Len(numbers)
    OBVIOUS
  <2>3. QED BY <2>1, <2>2 DEF Sums
<1>7. Total(wu) = Total(ws) + Total(wt) /\ Total(ws) \in Int /\ Total(wt) \in Int
  BY <1>2, <1>5, <1>6
<1>8. QED BY <1>7 DEF Weigh, u, ws, wt, wu

LEMMA WeighShort ==
  ASSUME NEW T, NEW w \in [T -> Int]
  PROVE  Weigh(<<>>, w) = 0 /\ \A x \in T : Weigh(<<x>>, w) = w[x]
<1>1. Weigh(<<>>, w) = 0
  <2>1. Weights(<<>>, w) = <<>>
    BY DEF Weights
  <2>2. QED BY <2>1, TotalShort DEF Weigh
<1>2. ASSUME NEW x \in T
      PROVE  Weigh(<<x>>, w) = w[x]
  <2>1. Weights(<<x>>, w) = <<w[x]>>
    BY DEF Weights
  <2>2. w[x] \in Int
    OBVIOUS
  <2>3. QED BY <2>1, <2>2, TotalShort DEF Weigh
<1>3. QED BY <1>1, <1>2

(* Flattened sequences weigh no more than the sum of their bounds.         *)
LEMMA WeighFlatten ==
  ASSUME NEW T, NEW ss \in Seq(Seq(T)), NEW w \in [T -> Int], NEW bounds \in Seq(Int),
         Len(bounds) = Len(ss), \A i \in 1 .. Len(ss) : Weigh(ss[i], w) <= bounds[i]
  PROVE  Weigh(FlattenSeq(ss), w) <= Total(bounds)
<1> DEFINE n == Len(ss)
<1>1. n \in Nat /\ 0 \in Nat /\ \A i \in 1 .. n : ss[i] \in Seq(T) /\ bounds[i] \in Int
  OBVIOUS
<1>2. PICK f \in [0 .. Len(ss) -> Seq(T)] :
        /\ f[0] = <<>> /\ FlattenSeq(ss) = f[Len(ss)]
        /\ \A i \in 1 .. Len(ss) : f[i] = f[i - 1] \o ss[i]
  BY FlattenSteps
<1>3. PICK g \in [0 .. Len(bounds) -> Int] : Sums(g, bounds)
  BY SumsExist
<1>4. /\ g \in [0 .. n -> Int] /\ g[0] = 0 /\ Total(bounds) = g[n]
      /\ \A i \in 1 .. n : g[i] = g[i - 1] + bounds[i]
  BY <1>3 DEF Sums
<1> DEFINE S == {i \in 0 .. n : Weigh(f[i], w) <= g[i]}
<1>5. 0 \in S
  <2>1. Weigh(<<>>, w) = 0
    BY WeighShort
  <2>2. f[0] = <<>> /\ g[0] = 0 /\ 0 \in 0 .. n
    BY <1>1, <1>2, <1>4
  <2>3. QED BY <2>1, <2>2
<1>6. ASSUME NEW i \in 0 + 1 .. n, i - 1 \in S
      PROVE  i \in S
  <2>1. i \in 1 .. n /\ i \in 0 .. n /\ i - 1 \in 0 .. n
    BY <1>1
  <2>2. f[i - 1] \in Seq(T) /\ ss[i] \in Seq(T) /\ f[i] = f[i - 1] \o ss[i]
    BY <1>1, <1>2, <2>1
  <2>3. Weigh(f[i], w) = Weigh(f[i - 1], w) + Weigh(ss[i], w)
          /\ Weigh(f[i - 1], w) \in Int /\ Weigh(ss[i], w) \in Int
    <3> DEFINE a == f[i - 1]
               b == ss[i]
    <3>1. a \in Seq(T) /\ b \in Seq(T) /\ f[i] = a \o b
      BY <2>2
    <3> HIDE DEF a, b
    <3>2. Weigh(a \o b, w) = Weigh(a, w) + Weigh(b, w)
            /\ Weigh(a, w) \in Int /\ Weigh(b, w) \in Int
      BY <3>1, WeighConcat
    <3>3. Weigh(f[i], w) = Weigh(a, w) + Weigh(b, w)
      BY <3>1, <3>2
    <3>4. QED BY <3>2, <3>3 DEF a, b
  <2>4. Weigh(ss[i], w) <= bounds[i] /\ bounds[i] \in Int
    BY <1>1, <2>1
  <2>5. Weigh(f[i - 1], w) <= g[i - 1] /\ g[i - 1] \in Int /\ g[i] = g[i - 1] + bounds[i]
    BY <1>4, <1>6, <2>1
  <2>6. Weigh(f[i], w) <= g[i]
    BY <2>3, <2>4, <2>5
  <2>7. QED BY <2>1, <2>6
<1>7. \A i \in 0 .. n : i \in S
  <2> HIDE DEF S, n
  <2>1. QED BY <1>1, <1>5, <1>6, Climb
<1>8. n \in S
  BY <1>1, <1>7
<1>9. QED BY <1>2, <1>4, <1>8

(* Weights are linear.                                                     *)
Less(w, u, c, v, T) == \A x \in T : w[x] = u[x] - c * v[x]

LEMMA WeighLinear ==
  ASSUME NEW T, NEW s \in Seq(T), NEW c \in Int,
         NEW u \in [T -> Int], NEW v \in [T -> Int], NEW w \in [T -> Int],
         Less(w, u, c, v, T)
  PROVE  Weigh(s, w) = Weigh(s, u) - c * Weigh(s, v)
<1> DEFINE n == Len(s)
           ws == Weights(s, w)
           us == Weights(s, u)
           vs == Weights(s, v)
<1>1. n \in Nat /\ 0 \in Nat /\ DOMAIN s = 1 .. n /\ \A i \in 1 .. n : s[i] \in T
  OBVIOUS
<1>2. /\ us \in Seq(Int) /\ Len(us) = n /\ vs \in Seq(Int) /\ Len(vs) = n
      /\ ws \in Seq(Int) /\ Len(ws) = n
  BY WeightsAreSeq
<1>3. \A i \in 1 .. n : us[i] = u[s[i]] /\ vs[i] = v[s[i]] /\ ws[i] = w[s[i]]
  BY <1>1 DEF Weights
<1> HIDE DEF us, vs, ws
<1>4. PICK f \in [0 .. Len(us) -> Int] : Sums(f, us)
  BY <1>2, SumsExist
<1>5. PICK g \in [0 .. Len(vs) -> Int] : Sums(g, vs)
  BY <1>2, SumsExist
<1>6. PICK h \in [0 .. Len(ws) -> Int] : Sums(h, ws)
  BY <1>2, SumsExist
<1>7. /\ f[0] = 0 /\ Total(us) = f[n] /\ \A i \in 1 .. n : f[i] = f[i - 1] + us[i]
      /\ g[0] = 0 /\ Total(vs) = g[n] /\ \A i \in 1 .. n : g[i] = g[i - 1] + vs[i]
      /\ h[0] = 0 /\ Total(ws) = h[n] /\ \A i \in 1 .. n : h[i] = h[i - 1] + ws[i]
      /\ f \in [0 .. n -> Int] /\ g \in [0 .. n -> Int] /\ h \in [0 .. n -> Int]
  BY <1>2, <1>4, <1>5, <1>6 DEF Sums
<1> HIDE DEF n
<1> DEFINE S == {i \in 0 .. n : h[i] = f[i] - c * g[i]}
<1>8. 0 \in S
  BY <1>1, <1>7
<1>9. ASSUME NEW i \in 0 + 1 .. n, i - 1 \in S
      PROVE  i \in S
  <2>1. i \in 1 .. n /\ i \in 0 .. n /\ i - 1 \in 0 .. n /\ s[i] \in T
    BY <1>1
  <2>2. h[i - 1] = f[i - 1] - c * g[i - 1]
    BY <1>9
  <2>3. ws[i] = us[i] - c * vs[i] /\ us[i] \in Int /\ vs[i] \in Int
    BY <1>3, <2>1 DEF Less
  <2>4. /\ f[i] = f[i - 1] + us[i] /\ g[i] = g[i - 1] + vs[i] /\ h[i] = h[i - 1] + ws[i]
        /\ f[i - 1] \in Int /\ g[i - 1] \in Int
    BY <1>7, <2>1
  <2>5. ASSUME NEW a \in Int, NEW b \in Int, NEW p \in Int, NEW q \in Int
        PROVE  (a - c * b) + (p - c * q) = (a + p) - c * (b + q)
    OBVIOUS
  <2>6. h[i] = f[i] - c * g[i]
    <3> DEFINE a == f[i - 1]
               b == g[i - 1]
               p == us[i]
               q == vs[i]
    <3>1. /\ a \in Int /\ b \in Int /\ p \in Int /\ q \in Int
          /\ f[i] = a + p /\ g[i] = b + q /\ h[i] = (a - c * b) + (p - c * q)
      BY <2>2, <2>3, <2>4
    <3> HIDE DEF a, b, p, q
    <3>2. QED BY <2>5, <3>1
  <2>7. QED BY <2>1, <2>6
<1>10. \A i \in 0 .. n : i \in S
  <2> HIDE DEF S
  <2>1. QED BY <1>1, <1>8, <1>9, Climb
<1>11. n \in S
  BY <1>1, <1>10
<1>12. QED BY <1>7, <1>11 DEF Weigh, ws, us, vs

(* Counting is weighing with one for what counts and zero for the rest.    *)
Indicates(w, S, T) == \A x \in T : w[x] = IF x \in S THEN 1 ELSE 0

LEMMA CountIsWeight ==
  ASSUME NEW T, NEW s \in Seq(T), NEW S, NEW w \in [T -> Int], Indicates(w, S, T)
  PROVE  Count(s, S) = Weigh(s, w)
<1> DEFINE n == Len(s)
           ws == Weights(s, w)
           A(k) == {i \in 1 .. k : s[i] \in S}
<1>1. n \in Nat /\ 0 \in Nat /\ DOMAIN s = 1 .. n /\ \A i \in 1 .. n : s[i] \in T
  OBVIOUS
<1>2. ws \in Seq(Int) /\ Len(ws) = n /\ \A i \in 1 .. n : ws[i] = w[s[i]]
  BY WeightsAreSeq
<1>3. PICK f \in [0 .. Len(ws) -> Int] : Sums(f, ws)
  BY <1>2, SumsExist
<1>4. f[0] = 0 /\ Total(ws) = f[n] /\ \A i \in 1 .. n : f[i] = f[i - 1] + w[s[i]]
  BY <1>1, <1>2, <1>3 DEF Sums
<1>5. Count(s, S) = Cardinality(A(n)) /\ Weigh(s, w) = f[n]
  BY <1>1, <1>4 DEF Count, Weigh
<1> HIDE DEF n, ws
<1> DEFINE P == {k \in 0 .. n : IsFiniteSet(A(k)) /\ Cardinality(A(k)) = f[k]}
<1>6. 0 \in P
  <2>1. A(0) = {} /\ 0 \in 0 .. n
    BY <1>1
  <2>2. QED BY <1>4, <2>1, FS_EmptySet
<1>7. ASSUME NEW k \in 0 + 1 .. n, k - 1 \in P
      PROVE  k \in P
  <2>1. /\ k \in 1 .. n /\ k \in 0 .. n /\ s[k] \in T
        /\ 1 .. k = (1 .. k - 1) \cup {k} /\ k \notin 1 .. k - 1
    BY <1>1
  <2>2. f[k] = f[k - 1] + IF s[k] \in S THEN 1 ELSE 0
    BY <1>4, <2>1 DEF Indicates
  <2>3. IsFiniteSet(A(k - 1)) /\ Cardinality(A(k - 1)) = f[k - 1]
    BY <1>7
  <2>4. Cardinality(A(k - 1)) \in Nat
    <3> HIDE DEF A
    <3>1. QED BY <2>3, FS_CardinalityType
  <2>5. CASE s[k] \in S
    <3>1. A(k) = A(k - 1) \cup {k} /\ k \notin A(k - 1)
      BY <2>1, <2>5
    <3> HIDE DEF A
    <3>2. IsFiniteSet(A(k)) /\ Cardinality(A(k)) = Cardinality(A(k - 1)) + 1
      BY <2>3, <3>1, FS_AddElement
    <3>3. QED BY <2>1, <2>2, <2>3, <2>5, <3>2
  <2>6. CASE s[k] \notin S
    <3>1. A(k) = A(k - 1)
      BY <2>1, <2>6
    <3> HIDE DEF A
    <3>2. QED BY <2>1, <2>2, <2>3, <2>4, <2>6, <3>1
  <2>7. QED BY <2>5, <2>6
<1>8. \A k \in 0 .. n : k \in P
  <2> HIDE DEF P
  <2>1. QED BY <1>1, <1>6, <1>7, Climb
<1>9. n \in 0 .. n
  BY <1>1
<1>10. QED BY <1>5, <1>8, <1>9

-----------------------------------------------------------------------------
(* Every element of s becomes what f makes of it: none, one or more.       *)
Replaced(s, f) == [i \in DOMAIN s |-> f[s[i]]]

LEMMA ReplacedIsSeq ==
  ASSUME NEW T, NEW D, NEW s \in Seq(T), NEW f \in [T -> Seq(D)]
  PROVE  /\ Replaced(s, f) \in Seq(Seq(D)) /\ Len(Replaced(s, f)) = Len(s)
         /\ DOMAIN Replaced(s, f) = DOMAIN s
<1>1. Len(s) \in Nat /\ DOMAIN s = 1 .. Len(s) /\ \A i \in 1 .. Len(s) : s[i] \in T
  OBVIOUS
<1> DEFINE n == Len(s)
           E == Seq(D)
           r == Replaced(s, f)
<1>2. f \in [T -> E] /\ n \in Nat
  BY <1>1
<1> HIDE DEF E
<1>3. r \in [1 .. n -> E]
  BY <1>1, <1>2 DEF Replaced
<1> HIDE DEF n, r
<1>4. r \in Seq(E) /\ Len(r) = n /\ DOMAIN r = 1 .. n
  BY <1>2, <1>3, FunctionIsSeq
<1>5. QED BY <1>1, <1>4 DEF E, n, r

LEMMA ReplacedMembers ==
  ASSUME NEW T, NEW D, NEW s \in Seq(T), NEW f \in [T -> Seq(D)]
  PROVE  /\ FlattenSeq(Replaced(s, f)) \in Seq(D)
         /\ \A x : x \in ToSet(FlattenSeq(Replaced(s, f)))
                  <=> \E i \in DOMAIN s : x \in ToSet(f[s[i]])
<1> DEFINE r == Replaced(s, f)
<1>1. r \in Seq(Seq(D)) /\ DOMAIN r = DOMAIN s
  BY ReplacedIsSeq
<1>2. \A i \in DOMAIN s : r[i] = f[s[i]]
  BY DEF Replaced
<1> HIDE DEF r
<1>3. /\ FlattenSeq(r) \in Seq(D)
      /\ \A x : x \in ToSet(FlattenSeq(r)) <=> \E i \in DOMAIN r : x \in ToSet(r[i])
  BY <1>1, FlattenMembers
<1>4. \A x : x \in ToSet(FlattenSeq(r)) <=> \E i \in DOMAIN s : x \in ToSet(f[s[i]])
  BY <1>1, <1>2, <1>3
<1>5. QED BY <1>3, <1>4 DEF r

LEMMA ReplacedWeighs ==
  ASSUME NEW T, NEW s \in Seq(T), NEW f \in [T -> Seq(T)], NEW w \in [T -> Int],
         \A i \in DOMAIN s : Weigh(f[s[i]], w) <= w[s[i]]
  PROVE  Weigh(FlattenSeq(Replaced(s, f)), w) <= Weigh(s, w)
<1> DEFINE r == Replaced(s, f)
           bounds == Weights(s, w)
<1>1. r \in Seq(Seq(T)) /\ Len(r) = Len(s) /\ DOMAIN s = 1 .. Len(s)
  <2>1. DOMAIN s = 1 .. Len(s)
    OBVIOUS
  <2>2. QED BY <2>1, ReplacedIsSeq
<1>2. \A i \in 1 .. Len(s) : r[i] = f[s[i]]
  BY <1>1 DEF Replaced
<1>3. bounds \in Seq(Int) /\ Len(bounds) = Len(s)
  BY WeightsAreSeq
<1>4. \A i \in 1 .. Len(s) : bounds[i] = w[s[i]]
  BY <1>1 DEF Weights
<1> HIDE DEF r, bounds
<1>5. \A i \in 1 .. Len(r) : Weigh(r[i], w) <= bounds[i]
  BY <1>1, <1>2, <1>4
<1>6. Weigh(FlattenSeq(r), w) <= Total(bounds)
  BY <1>1, <1>3, <1>5, WeighFlatten
<1>7. QED BY <1>6 DEF r, bounds, Weigh

(* Only the empty sequence has no members.                                *)
LEMMA EmptyHasNone ==
  ASSUME NEW T, NEW s \in Seq(T)
  PROVE  s = <<>> <=> ToSet(s) = {}
<1>1. s = <<>> <=> Len(s) = 0
  OBVIOUS
<1>2. Len(s) \in Nat /\ DOMAIN s = 1 .. Len(s)
  OBVIOUS
<1>3. Len(s) # 0 => 1 \in DOMAIN s
  BY <1>2
<1>4. Len(s) = 0 => ToSet(s) = {}
  BY <1>2 DEF ToSet
<1>5. Len(s) # 0 => ToSet(s) # {}
  BY <1>3 DEF ToSet
<1>6. QED BY <1>1, <1>4, <1>5
=============================================================================
