--------------------------- MODULE CollectionFacts ---------------------------
(***************************************************************************)
(* Facts about natural numbers, sequences and finite sums that the proofs  *)
(* of several components rest on.                                          *)
(*                                                                         *)
(* Induction is stated about sets: a set of numbers that has 0 and the     *)
(* successor of each of its elements has every number.  A recursive        *)
(* function is first shown to exist, then to have its properties.          *)
(***************************************************************************)
EXTENDS Selections, Integers, FiniteSets, FiniteSetsExt, SequencesExt, Folds,
        FiniteSetTheorems, WellFoundedInduction, TLAPS

Less == {pair \in Nat \X Nat : pair[1] < pair[2]}

LEMMA LessWellFounded == IsWellFoundedOn(Less, Nat)
<1>1. Less = OpToRel(<, Nat)
  BY DEF Less, OpToRel
<1>2. QED
  BY <1>1, NatLessThanWellFounded

(* A set of natural numbers has a least one.                               *)
LEMMA LeastNatural ==
    ASSUME NEW T \in SUBSET Nat, T # {}
    PROVE  \E x \in T : \A y \in T : x <= y
<1>1. PICK x \in T : \A y \in T : ~ (<<y, x>> \in Less)
  BY LessWellFounded, WFMin
<1>2. ASSUME NEW y \in T PROVE x <= y
  <2>1. y \in Nat /\ x \in Nat
    OBVIOUS
  <2>2. y < x => <<y, x>> \in Less
    BY <2>1 DEF Less
  <2>3. QED
    BY <1>1, <2>1, <2>2
<1>3. QED
  BY <1>2

(* Induction over the natural numbers.                                     *)
LEMMA Induct ==
    ASSUME NEW T, 0 \in T, \A n \in Nat : n \in T => n + 1 \in T
    PROVE  \A n \in Nat : n \in T
<1> DEFINE Missing == {n \in Nat : n \notin T}
<1>1. SUFFICES ASSUME Missing # {} PROVE FALSE
  OBVIOUS
<1>2. PICK x \in Missing : \A y \in Missing : x <= y
  BY <1>1, LeastNatural
<1>3. x # 0 /\ x - 1 \in Nat /\ x - 1 \notin Missing
  BY <1>2
<1>4. QED
  BY <1>2, <1>3

(* A set of numbers up to n has a largest.                                 *)
LEMMA LargestBelow ==
    ASSUME NEW n \in Nat, NEW T \in SUBSET (0 .. n), T # {}
    PROVE  \E x \in T : \A y \in T : y <= x
<1> DEFINE U == {n - t : t \in T}
<1>1. U \in SUBSET Nat /\ U # {}
  <2>1. \A t \in T : t \in 0 .. n /\ n - t \in Nat
    OBVIOUS
  <2>2. PICK t \in T : TRUE
    OBVIOUS
  <2>3. n - t \in U
    OBVIOUS
  <2>4. QED
    BY <2>1, <2>3
<1> HIDE DEF U
<1>2. PICK u \in U : \A v \in U : u <= v
  BY <1>1, LeastNatural
<1>3. PICK x \in T : u = n - x
  BY DEF U
<1>4. ASSUME NEW y \in T PROVE y <= x
  <2>1. n - y \in U /\ x \in 0 .. n /\ y \in 0 .. n
    BY DEF U
  <2>2. QED
    BY <1>2, <1>3, <2>1
<1>5. QED
  BY <1>4

(* Induction over the subsets of a finite set.                             *)
LEMMA InductFinite ==
    ASSUME NEW S, IsFiniteSet(S), NEW P, {} \in P,
           \A T \in SUBSET S : \A x \in S \ T : T \in P => T \union {x} \in P
    PROVE  \A T \in SUBSET S : T \in P
<1> DEFINE N == {n \in Nat : \A T \in SUBSET S : Cardinality(T) = n => T \in P}
<1>1. \A T \in SUBSET S : IsFiniteSet(T) /\ Cardinality(T) \in Nat
  BY FS_Subset, FS_CardinalityType
<1>2. 0 \in N
  BY <1>1, FS_EmptySet
<1>3. ASSUME NEW n \in Nat, n \in N, NEW T \in SUBSET S, Cardinality(T) = n + 1
      PROVE  T \in P
  <2>1. T # {}
    BY <1>1, <1>3, FS_EmptySet
  <2>2. PICK x \in T : TRUE
    BY <2>1
  <2>3. Cardinality(T \ {x}) = n
    <3>1. IsFiniteSet(T)
      BY <1>1
    <3>2. Cardinality(T \ {x}) = Cardinality(T) - 1
      BY <2>2, <3>1, FS_RemoveElement
    <3>3. QED
      BY <1>3, <3>2
  <2>4. T \ {x} \in P /\ (T \ {x}) \union {x} = T
    BY <1>3, <2>3
  <2>5. QED
    BY <2>4
<1>4. \A n \in Nat : n \in N
  <2>1. \A n \in Nat : n \in N => n + 1 \in N
    BY <1>3
  <2> HIDE DEF N
  <2>2. QED
    BY <1>2, <2>1, Induct
<1>5. QED
  BY <1>1, <1>4

---------------------------------------------------------------------------
(* Select.                                                                 *)

Chosen(g, s, S, n) ==
    g = [i \in 0 .. n |->
            IF i = 0 THEN <<>>
            ELSE IF s[i] \in S THEN Append(g[i - 1], s[i])
            ELSE g[i - 1]]

LEMMA ChosenExists ==
    ASSUME NEW s, NEW S PROVE \A n \in Nat : \E g : Chosen(g, s, S, n)
<1> DEFINE T == {n \in Nat : \E g : Chosen(g, s, S, n)}
<1>1. 0 \in T
  <2>1. Chosen([i \in 0 .. 0 |-> <<>>], s, S, 0)
    BY DEF Chosen
  <2>2. QED
    BY <2>1
<1>2. ASSUME NEW n \in Nat, n \in T PROVE n + 1 \in T
  <2>1. PICK g : Chosen(g, s, S, n)
    BY <1>2
  <2> DEFINE next == IF s[n + 1] \in S THEN Append(g[n], s[n + 1]) ELSE g[n]
             h == [i \in 0 .. n + 1 |-> IF i = n + 1 THEN next ELSE g[i]]
  <2>2. ASSUME NEW i \in 0 .. n + 1
        PROVE  h[i] = IF i = 0 THEN <<>>
                      ELSE IF s[i] \in S THEN Append(h[i - 1], s[i]) ELSE h[i - 1]
    <3>1. CASE i = n + 1
      <4>1. h[i] = next /\ h[i - 1] = g[n] /\ i # 0
        BY <3>1
      <4>2. QED
        BY <3>1, <4>1
    <3>2. CASE i = 0
      BY <2>1, <3>2 DEF Chosen
    <3>3. CASE i \in 1 .. n
      <4>0. i \in 0 .. n /\ i # 0
        BY <3>3
      <4>1. g[i] = IF s[i] \in S THEN Append(g[i - 1], s[i]) ELSE g[i - 1]
        BY <2>1, <4>0 DEF Chosen
      <4>2. h[i] = g[i] /\ h[i - 1] = g[i - 1]
        BY <3>3
      <4>3. QED
        BY <3>3, <4>1, <4>2
    <3>4. QED
      BY <3>1, <3>2, <3>3
  <2>3. Chosen(h, s, S, n + 1)
    BY <2>2 DEF Chosen
  <2>4. QED
    BY <2>3
<1> HIDE DEF T
<1>3. \A n \in Nat : n \in T
  BY <1>1, <1>2, Induct
<1>4. QED
  BY <1>3 DEF T

(* The steps by which Select goes through s.                               *)
LEMMA SelectSteps ==
    ASSUME NEW A, NEW s \in Seq(A), NEW S
    PROVE  \E g : /\ Select(s, S) = g[Len(s)]
                  /\ g[0] = <<>>
                  /\ \A i \in 1 .. Len(s) :
                        g[i] = IF s[i] \in S THEN Append(g[i - 1], s[i]) ELSE g[i - 1]
<1> DEFINE g == CHOOSE h : Chosen(h, s, S, Len(s))
<1>1. Select(s, S) = g[Len(s)]
  BY DEF Select, Chosen
<1>2. Chosen(g, s, S, Len(s))
  BY ChosenExists
<1> HIDE DEF g
<1>3. \A i \in 0 .. Len(s) :
            g[i] = IF i = 0 THEN <<>>
                   ELSE IF s[i] \in S THEN Append(g[i - 1], s[i]) ELSE g[i - 1]
  BY <1>2 DEF Chosen
<1>4. 0 \in 0 .. Len(s) /\ \A i \in 1 .. Len(s) : i \in 0 .. Len(s) /\ i # 0
  OBVIOUS
<1>5. g[0] = <<>>
  BY <1>3, <1>4
<1>6. ASSUME NEW i \in 1 .. Len(s)
      PROVE  g[i] = IF s[i] \in S THEN Append(g[i - 1], s[i]) ELSE g[i - 1]
  BY <1>3, <1>4
<1>7. QED
  BY <1>1, <1>5, <1>6

\* t is made of the first n elements of s that are in S, taken at the places at.
Picks(at, t, s, S, n) ==
    /\ at \in [1 .. Len(t) -> 1 .. n]
    /\ \A i, j \in 1 .. Len(t) : i < j => at[i] < at[j]
    /\ \A i \in 1 .. Len(t) : t[i] = s[at[i]] /\ t[i] \in S
    /\ \A p \in 1 .. n : s[p] \in S => \E i \in 1 .. Len(t) : at[i] = p

(* Select takes the elements of S, each from its place, in order.          *)
LEMMA SelectPicks ==
    ASSUME NEW A, NEW s \in Seq(A), NEW S
    PROVE  /\ Select(s, S) \in Seq(A)
           /\ \E at : Picks(at, Select(s, S), s, S, Len(s))
<1>1. PICK g : /\ Select(s, S) = g[Len(s)]
               /\ g[0] = <<>>
               /\ \A i \in 1 .. Len(s) :
                     g[i] = IF s[i] \in S THEN Append(g[i - 1], s[i]) ELSE g[i - 1]
  BY SelectSteps
<1> DEFINE T == {n \in Nat : n <= Len(s) =>
                    g[n] \in Seq(A) /\ \E at : Picks(at, g[n], s, S, n)}
<1>2. 0 \in T
  <2>1. Picks([i \in 1 .. 0 |-> 1], <<>>, s, S, 0)
    BY DEF Picks
  <2>2. <<>> \in Seq(A)
    OBVIOUS
  <2>3. QED
    BY <1>1, <2>1, <2>2
<1>3. ASSUME NEW n \in Nat, n \in T, n + 1 <= Len(s)
      PROVE  g[n + 1] \in Seq(A) /\ \E at : Picks(at, g[n + 1], s, S, n + 1)
  <2>1. PICK at : g[n] \in Seq(A) /\ Picks(at, g[n], s, S, n)
    BY <1>3
  <2>2. s[n + 1] \in A /\ g[n + 1] = IF s[n + 1] \in S THEN Append(g[n], s[n + 1]) ELSE g[n]
    BY <1>1, <1>3
  <2> DEFINE m == Len(g[n])
  <2>3. m \in Nat
    BY <2>1
  <2>4. CASE s[n + 1] \notin S
    <3>1. Picks(at, g[n], s, S, n + 1)
      BY <1>3, <2>1, <2>3, <2>4 DEF Picks
    <3>2. QED
      BY <2>1, <2>2, <2>4, <3>1
  <2>5. CASE s[n + 1] \in S
    <3> DEFINE t == Append(g[n], s[n + 1])
               to == [i \in 1 .. m + 1 |-> IF i = m + 1 THEN n + 1 ELSE at[i]]
    <3>0. /\ at \in [1 .. m -> 1 .. n]
          /\ \A i, j \in 1 .. m : i < j => at[i] < at[j]
          /\ \A i \in 1 .. m : g[n][i] = s[at[i]] /\ g[n][i] \in S
          /\ \A p \in 1 .. n : s[p] \in S => \E i \in 1 .. m : at[i] = p
      BY <2>1 DEF Picks
    <3>1. /\ t \in Seq(A) /\ Len(t) = m + 1 /\ t[m + 1] = s[n + 1]
          /\ \A i \in 1 .. m : t[i] = g[n][i]
      BY <2>1, <2>2
    <3> HIDE DEF t, m
    <3>2. /\ to[m + 1] = n + 1
          /\ \A i \in 1 .. m : to[i] = at[i] /\ to[i] \in 1 .. n
      <4>1. m + 1 \in 1 .. m + 1 /\ \A i \in 1 .. m : i \in 1 .. m + 1 /\ i # m + 1
        BY <2>3
      <4>2. QED
        BY <3>0, <4>1
    <3>3. \A i \in 1 .. m + 1 : i = m + 1 \/ i \in 1 .. m
      BY <2>3
    <3>4. to \in [1 .. m + 1 -> 1 .. n + 1]
      <4>1. to = [i \in 1 .. m + 1 |-> to[i]]
        OBVIOUS
      <4>2. \A i \in 1 .. m + 1 : to[i] \in 1 .. n + 1
        <5> HIDE DEF to
        <5>1. n + 1 \in 1 .. n + 1 /\ \A p \in 1 .. n : p \in 1 .. n + 1
          OBVIOUS
        <5>2. QED
          BY <3>2, <3>3, <5>1
      <4> HIDE DEF to
      <4>3. QED
        BY <4>1, <4>2
    <3> HIDE DEF to
    <3>5. ASSUME NEW i \in 1 .. m + 1, NEW j \in 1 .. m + 1, i < j PROVE to[i] < to[j]
      <4>1. i \in 1 .. m
        BY <2>3, <3>5
      <4>2. CASE j = m + 1
        BY <3>2, <4>1, <4>2
      <4>3. CASE j \in 1 .. m
        BY <3>0, <3>2, <3>5, <4>1, <4>3
      <4>4. QED
        BY <3>3, <4>2, <4>3
    <3>6. ASSUME NEW i \in 1 .. m + 1 PROVE t[i] = s[to[i]] /\ t[i] \in S
      <4>1. CASE i = m + 1
        BY <2>5, <3>1, <3>2, <4>1
      <4>2. CASE i \in 1 .. m
        BY <3>0, <3>1, <3>2, <4>2
      <4>3. QED
        BY <3>3, <4>1, <4>2
    <3>7. ASSUME NEW p \in 1 .. n + 1, s[p] \in S
          PROVE  \E i \in 1 .. m + 1 : to[i] = p
      <4>1. CASE p = n + 1
        BY <2>3, <3>2, <4>1
      <4>2. CASE p \in 1 .. n
        <5>1. PICK i \in 1 .. m : at[i] = p
          BY <3>0, <3>7, <4>2
        <5>2. i \in 1 .. m + 1
          BY <2>3
        <5>3. QED
          BY <3>2, <5>1, <5>2
      <4>3. QED
        BY <4>1, <4>2
    <3>8. Picks(to, t, s, S, n + 1)
      BY <3>1, <3>4, <3>5, <3>6, <3>7 DEF Picks
    <3>9. t = g[n + 1]
      BY <2>2, <2>5 DEF t
    <3>10. QED
      BY <3>1, <3>8, <3>9
  <2>6. QED
    BY <2>4, <2>5
<1>4. \A n \in Nat : n \in T
  <2>1. ASSUME NEW n \in Nat, n \in T PROVE n + 1 \in T
    <3>1. n + 1 <= Len(s) => g[n + 1] \in Seq(A) /\ \E at : Picks(at, g[n + 1], s, S, n + 1)
      BY <1>3, <2>1
    <3>2. QED
      BY <3>1
  <2> HIDE DEF T
  <2>2. QED
    BY <1>2, <2>1, Induct
<1>5. Len(s) \in T
  BY <1>4
<1>6. QED
  BY <1>1, <1>5

Distinct(s) == \A i, j \in 1 .. Len(s) : s[i] = s[j] => i = j
Elements(s) == {s[i] : i \in 1 .. Len(s)}

(* What is in the selection, and that nothing is in it twice that was not  *)
(* in s.                                                                   *)
LEMMA SelectElements ==
    ASSUME NEW A, NEW s \in Seq(A), NEW S
    PROVE  /\ Select(s, S) \in Seq(A)
           /\ Elements(Select(s, S)) = Elements(s) \intersect S
           /\ Distinct(s) => Distinct(Select(s, S))
<1> DEFINE t == Select(s, S)
<1>1. PICK at : t \in Seq(A) /\ Picks(at, t, s, S, Len(s))
  BY SelectPicks
<1> HIDE DEF t
<1>2. Len(t) \in Nat /\ Len(s) \in Nat
  BY <1>1
<1>3. Elements(t) = Elements(s) \intersect S
  <2>1. ASSUME NEW i \in 1 .. Len(t)
        PROVE  t[i] \in S /\ \E p \in 1 .. Len(s) : t[i] = s[p]
    BY <1>1, <1>2 DEF Picks
  <2>2. ASSUME NEW p \in 1 .. Len(s), s[p] \in S
        PROVE  \E i \in 1 .. Len(t) : s[p] = t[i]
    BY <1>1, <1>2, <2>2 DEF Picks
  <2>3. ASSUME NEW x PROVE x \in Elements(t) <=> x \in Elements(s) /\ x \in S
    <3>1. x \in Elements(t) => x \in Elements(s) /\ x \in S
      BY <2>1 DEF Elements
    <3>2. x \in Elements(s) /\ x \in S => x \in Elements(t)
      BY <2>2 DEF Elements
    <3>3. QED
      BY <3>1, <3>2
  <2>4. QED
    BY <2>3
<1>4. ASSUME Distinct(s), NEW i \in 1 .. Len(t), NEW j \in 1 .. Len(t), t[i] = t[j]
      PROVE  i = j
  <2>1. at[i] = at[j]
    BY <1>1, <1>4 DEF Distinct, Picks
  <2>2. QED
    BY <1>1, <1>2, <2>1 DEF Picks
<1>5. QED
  BY <1>1, <1>3, <1>4 DEF Distinct, t

(* Where nothing stands twice, the length counts the elements.             *)
LEMMA DistinctLength ==
    ASSUME NEW A, NEW s \in Seq(A), Distinct(s)
    PROVE  IsFiniteSet(Elements(s)) /\ Cardinality(Elements(s)) = Len(s)
<1> DEFINE f == [i \in 1 .. Len(s) |-> s[i]]
<1>1. Len(s) \in Nat
  OBVIOUS
<1>2. f \in Bijection(1 .. Len(s), Elements(s))
  BY DEF Bijection, Injection, Surjection, IsInjective, Distinct, Elements
<1>3. IsFiniteSet(1 .. Len(s)) /\ Cardinality(1 .. Len(s)) = Len(s)
  <2>1. /\ IsFiniteSet(1 .. Len(s))
        /\ Cardinality(1 .. Len(s)) = IF 1 > Len(s) THEN 0 ELSE Len(s) - 1 + 1
    BY <1>1, FS_Interval, SMTT(30)
  <2>2. QED
    BY <1>1, <2>1
<1>4. ExistsBijection(1 .. Len(s), Elements(s))
  BY <1>2 DEF ExistsBijection
<1>5. QED
  BY <1>3, <1>4, FS_Bijection

LEMMA AppendElements ==
    ASSUME NEW A, NEW s \in Seq(A), NEW x \in A
    PROVE  /\ Append(s, x) \in Seq(A)
           /\ Elements(Append(s, x)) = Elements(s) \union {x}
           /\ Distinct(s) /\ x \notin Elements(s) => Distinct(Append(s, x))
<1> DEFINE t == Append(s, x)
           n == Len(s)
<1>1. t \in Seq(A) /\ n \in Nat /\ Len(t) = n + 1 /\ t[n + 1] = x /\ \A i \in 1 .. n : t[i] = s[i]
  OBVIOUS
<1> HIDE DEF t
<1>2. \A i \in 1 .. n + 1 : i = n + 1 \/ i \in 1 .. n
  BY <1>1
<1>3. \A i \in 1 .. n : i \in 1 .. n + 1
  BY <1>1
<1>4. n + 1 \in 1 .. n + 1
  BY <1>1
<1> HIDE DEF n
<1>5. ASSUME NEW y PROVE y \in Elements(t) <=> y \in Elements(s) \union {x}
  <2>1. y \in Elements(t) => y \in Elements(s) \union {x}
    BY <1>1, <1>2 DEF Elements, n
  <2>2. y \in Elements(s) \union {x} => y \in Elements(t)
    BY <1>1, <1>3, <1>4 DEF Elements, n
  <2>3. QED
    BY <2>1, <2>2
<1>6. ASSUME Distinct(s), x \notin Elements(s),
             NEW i \in 1 .. n + 1, NEW j \in 1 .. n + 1, t[i] = t[j]
      PROVE  i = j
  <2>1. \A p \in 1 .. n : s[p] # x
    BY <1>6 DEF Elements, n
  <2>2. \A p, q \in 1 .. n : s[p] = s[q] => p = q
    BY <1>6 DEF Distinct, n
  <2>3. QED
    BY <1>1, <1>2, <1>6, <2>1, <2>2
<1>7. Elements(t) = Elements(s) \union {x}
  BY <1>5
<1>8. Distinct(s) /\ x \notin Elements(s) => Distinct(t)
  BY <1>1, <1>6 DEF Distinct
<1>9. QED
  BY <1>1, <1>7, <1>8 DEF t

(* If only the first element is left out, the tail remains.                *)
LEMMA SelectTail ==
    ASSUME NEW A, NEW s \in Seq(A), s # <<>>, NEW S, s[1] \notin S,
           \A i \in 2 .. Len(s) : s[i] \in S
    PROVE  Select(s, S) = Tail(s)
<1>1. PICK g : /\ Select(s, S) = g[Len(s)]
               /\ g[0] = <<>>
               /\ \A i \in 1 .. Len(s) :
                     g[i] = IF s[i] \in S THEN Append(g[i - 1], s[i]) ELSE g[i - 1]
  BY SelectSteps
<1> DEFINE T == {n \in Nat : n + 1 <= Len(s) =>
                    /\ g[n + 1] \in Seq(A) /\ Len(g[n + 1]) = n
                    /\ \A i \in 1 .. n : g[n + 1][i] = s[i + 1]}
<1>2. Len(s) \in Nat /\ Len(s) >= 1
  OBVIOUS
<1>3. 0 \in T
  <2>1. g[1] = g[0] /\ g[0] = <<>>
    BY <1>1, <1>2
  <2>2. 0 + 1 = 1 /\ Len(<<>>) = 0 /\ <<>> \in Seq(A) /\ 1 .. 0 = {}
    OBVIOUS
  <2>3. QED
    BY <2>1, <2>2
<1>4. ASSUME NEW n \in Nat, n \in T, n + 2 <= Len(s)
      PROVE  /\ g[n + 2] \in Seq(A) /\ Len(g[n + 2]) = n + 1
             /\ \A i \in 1 .. n + 1 : g[n + 2][i] = s[i + 1]
  <2>1. g[n + 1] \in Seq(A) /\ Len(g[n + 1]) = n /\ \A i \in 1 .. n : g[n + 1][i] = s[i + 1]
    BY <1>4
  <2>2. n + 2 \in 1 .. Len(s) /\ n + 2 \in 2 .. Len(s) /\ (n + 2) - 1 = n + 1
    BY <1>2, <1>4
  <2>3. s[n + 2] \in A /\ s[n + 2] \in S
    BY <2>2
  <2>4. g[n + 2] = Append(g[n + 1], s[n + 2])
    BY <1>1, <2>2, <2>3
  <2>5. ASSUME NEW i \in 1 .. n + 1 PROVE g[n + 2][i] = s[i + 1]
    <3>1. CASE i \in 1 .. n
      BY <2>1, <2>3, <2>4, <3>1
    <3>2. CASE i = n + 1
      BY <2>1, <2>3, <2>4, <3>2
    <3>3. QED
      BY <3>1, <3>2
  <2>6. g[n + 2] \in Seq(A) /\ Len(g[n + 2]) = n + 1
    BY <2>1, <2>3, <2>4
  <2>7. QED
    BY <2>5, <2>6
<1>5. \A n \in Nat : n \in T => n + 1 \in T
  <2> TAKE n \in Nat
  <2>1. n + 1 + 1 = n + 2
    OBVIOUS
  <2>2. QED
    BY <1>4, <2>1
<1>6. Len(s) - 1 \in T
  <2>1. Len(s) - 1 \in Nat
    BY <1>2
  <2> HIDE DEF T
  <2>2. QED
    BY <1>3, <1>5, <2>1, Induct
<1>7. /\ Select(s, S) \in Seq(A) /\ Len(Select(s, S)) = Len(s) - 1
      /\ \A i \in 1 .. Len(s) - 1 : Select(s, S)[i] = s[i + 1]
  BY <1>1, <1>2, <1>6
<1>8. Tail(s) \in Seq(A) /\ Len(Tail(s)) = Len(s) - 1
      /\ \A i \in 1 .. Len(s) - 1 : Tail(s)[i] = s[i + 1]
  OBVIOUS
<1>9. QED
  BY <1>7, <1>8

---------------------------------------------------------------------------
(* FlattenSeq.                                                             *)

JoinedTo(g, ss, n) == g = [i \in 1 .. n |-> IF i = 1 THEN ss[i] ELSE g[i - 1] \o ss[i]]

LEMMA JoinedToExists ==
    ASSUME NEW ss PROVE \A n \in Nat : \E g : JoinedTo(g, ss, n)
<1> DEFINE T == {n \in Nat : \E g : JoinedTo(g, ss, n)}
<1>1. 0 \in T
  <2>1. JoinedTo([i \in 1 .. 0 |-> <<>>], ss, 0)
    BY DEF JoinedTo
  <2>2. QED
    BY <2>1
<1>2. ASSUME NEW n \in Nat, n \in T PROVE n + 1 \in T
  <2>1. PICK g : JoinedTo(g, ss, n)
    BY <1>2
  <2> DEFINE next == IF n + 1 = 1 THEN ss[n + 1] ELSE g[n] \o ss[n + 1]
             h == [i \in 1 .. n + 1 |-> IF i = n + 1 THEN next ELSE g[i]]
  <2>2. ASSUME NEW i \in 1 .. n + 1
        PROVE  h[i] = IF i = 1 THEN ss[i] ELSE h[i - 1] \o ss[i]
    <3>1. CASE i = n + 1
      <4>1. h[i] = next
        BY <3>1
      <4>2. i # 1 => i - 1 \in 1 .. n + 1 /\ i - 1 # n + 1 /\ h[i - 1] = g[n]
        BY <3>1
      <4>3. QED
        BY <3>1, <4>1, <4>2
    <3>2. CASE i \in 1 .. n
      <4>1. g[i] = IF i = 1 THEN ss[i] ELSE g[i - 1] \o ss[i]
        BY <2>1, <3>2 DEF JoinedTo
      <4>2. h[i] = g[i] /\ (i # 1 => h[i - 1] = g[i - 1])
        BY <3>2
      <4>3. QED
        BY <4>1, <4>2
    <3>3. QED
      BY <3>1, <3>2
  <2>3. JoinedTo(h, ss, n + 1)
    BY <2>2 DEF JoinedTo
  <2>4. QED
    BY <2>3
<1> HIDE DEF T
<1>3. \A n \in Nat : n \in T
  BY <1>1, <1>2, Induct
<1>4. QED
  BY <1>3 DEF T

(* The steps by which FlattenSeq joins the sequences of ss.                *)
LEMMA FlattenSteps ==
    ASSUME NEW A, NEW ss \in Seq(Seq(A))
    PROVE  \E g : /\ FlattenSeq(ss) = g[Len(ss)]
                  /\ g[0] = <<>>
                  /\ \A i \in 1 .. Len(ss) : g[i] = g[i - 1] \o ss[i]
<1>1. CASE Len(ss) = 0
  <2> DEFINE g == [i \in 0 .. 0 |-> <<>>]
  <2>1. FlattenSeq(ss) = <<>>
    BY <1>1 DEF FlattenSeq
  <2>2. g[0] = <<>> /\ \A i \in 1 .. Len(ss) : FALSE
    BY <1>1
  <2>3. QED
    BY <1>1, <2>1, <2>2
<1>2. CASE Len(ss) # 0
  <2> DEFINE f == CHOOSE h : JoinedTo(h, ss, Len(ss))
             g == [i \in 0 .. Len(ss) |-> IF i = 0 THEN <<>> ELSE f[i]]
  <2>1. FlattenSeq(ss) = f[Len(ss)]
    BY <1>2 DEF FlattenSeq, JoinedTo
  <2>2. Len(ss) \in Nat /\ JoinedTo(f, ss, Len(ss))
    BY JoinedToExists
  <2> HIDE DEF f
  <2>3. \A i \in 1 .. Len(ss) : f[i] = IF i = 1 THEN ss[i] ELSE f[i - 1] \o ss[i]
    BY <2>2 DEF JoinedTo
  <2>4. g[0] = <<>> /\ g[Len(ss)] = f[Len(ss)]
    BY <1>2, <2>2
  <2>5. ASSUME NEW i \in 1 .. Len(ss) PROVE g[i] = g[i - 1] \o ss[i]
    <3>1. ss[i] \in Seq(A)
      OBVIOUS
    <3>2. <<>> \o ss[i] = ss[i]
      BY <3>1
    <3>3. CASE i = 1
      BY <2>2, <2>3, <3>2, <3>3
    <3>4. CASE i # 1
      <4>1. g[i] = f[i] /\ g[i - 1] = f[i - 1]
        BY <2>2, <3>4
      <4>2. QED
        BY <2>3, <3>4, <4>1
    <3>5. QED
      BY <3>3, <3>4
  <2>6. QED
    BY <2>1, <2>4, <2>5
<1>3. QED
  BY <1>1, <1>2

\* t joins the first n sequences of ss: its k-th element is the one at off[k]
\* in the sequence blk[k].
JoinedAt(blk, off, t, ss, n) ==
    /\ blk \in [1 .. Len(t) -> 1 .. n] /\ off \in [1 .. Len(t) -> Nat]
    /\ \A k \in 1 .. Len(t) : off[k] \in 1 .. Len(ss[blk[k]]) /\ t[k] = ss[blk[k]][off[k]]
    /\ \A j, k \in 1 .. Len(t) :
          j < k => blk[j] < blk[k] \/ (blk[j] = blk[k] /\ off[j] < off[k])
    /\ \A i \in 1 .. n : \A o \in 1 .. Len(ss[i]) :
          \E k \in 1 .. Len(t) : blk[k] = i /\ off[k] = o

\* One sequence more.
LEMMA JoinOneMore ==
    ASSUME NEW A, NEW ss \in Seq(Seq(A)), NEW n \in Nat, n + 1 <= Len(ss),
           NEW t \in Seq(A), NEW blk, NEW off, JoinedAt(blk, off, t, ss, n)
    PROVE  /\ t \o ss[n + 1] \in Seq(A)
           /\ \E b, o : JoinedAt(b, o, t \o ss[n + 1], ss, n + 1)
<1> DEFINE u == t \o ss[n + 1]
           m == Len(t)
           q == Len(ss[n + 1])
           b == [k \in 1 .. m + q |-> IF k <= m THEN blk[k] ELSE n + 1]
           o == [k \in 1 .. m + q |-> IF k <= m THEN off[k] ELSE k - m]
<1>1. ss[n + 1] \in Seq(A) /\ m \in Nat /\ q \in Nat
  OBVIOUS
<1>2. u \in Seq(A) /\ Len(u) = m + q
  BY <1>1
<1>3. \A k \in 1 .. m : u[k] = t[k]
  BY <1>1
<1>4. ASSUME NEW k \in 1 .. m + q, ~(k <= m)
      PROVE  k - m \in 1 .. q /\ u[k] = ss[n + 1][k - m]
  BY <1>1, <1>4
<1>5. /\ blk \in [1 .. m -> 1 .. n] /\ off \in [1 .. m -> Nat]
      /\ \A k \in 1 .. m : off[k] \in 1 .. Len(ss[blk[k]]) /\ t[k] = ss[blk[k]][off[k]]
      /\ \A j, k \in 1 .. m :
            j < k => blk[j] < blk[k] \/ (blk[j] = blk[k] /\ off[j] < off[k])
      /\ \A i \in 1 .. n : \A p \in 1 .. Len(ss[i]) :
            \E k \in 1 .. m : blk[k] = i /\ off[k] = p
  BY DEF JoinedAt
<1>6. \A k \in 1 .. m : k \in 1 .. m + q /\ b[k] = blk[k] /\ o[k] = off[k]
                        /\ b[k] \in 1 .. n /\ o[k] \in Nat
  <2>1. \A k \in 1 .. m : k \in 1 .. m + q /\ k <= m
    BY <1>1
  <2>2. QED
    BY <1>5, <2>1
<1>7. ASSUME NEW k \in 1 .. m + q, ~(k <= m) PROVE b[k] = n + 1 /\ o[k] = k - m
  BY <1>7
<1>8. b = [k \in 1 .. m + q |-> b[k]] /\ o = [k \in 1 .. m + q |-> o[k]]
  OBVIOUS
<1>9. \A k \in 1 .. m + q : k <= m => k \in 1 .. m
  BY <1>1
<1> HIDE DEF b, o, u, m, q
<1>10. b \in [1 .. m + q -> 1 .. n + 1] /\ o \in [1 .. m + q -> Nat]
  <2>1. ASSUME NEW k \in 1 .. m + q PROVE b[k] \in 1 .. n + 1 /\ o[k] \in Nat
    <3>1. CASE k <= m
      BY <1>6, <1>9, <3>1
    <3>2. CASE ~(k <= m)
      BY <1>1, <1>4, <1>7, <3>2
    <3>3. QED
      BY <3>1, <3>2
  <2>2. QED
    BY <1>8, <2>1
<1>11. ASSUME NEW k \in 1 .. m + q
       PROVE  o[k] \in 1 .. Len(ss[b[k]]) /\ u[k] = ss[b[k]][o[k]]
  <2>1. CASE k <= m
    BY <1>3, <1>5, <1>6, <1>9, <2>1
  <2>2. CASE ~(k <= m)
    BY <1>4, <1>7, <2>2 DEF q
  <2>3. QED
    BY <2>1, <2>2
<1>12. ASSUME NEW j \in 1 .. m + q, NEW k \in 1 .. m + q, j < k
       PROVE  b[j] < b[k] \/ (b[j] = b[k] /\ o[j] < o[k])
  <2>1. CASE k <= m
    <3>1. j \in 1 .. m /\ k \in 1 .. m
      BY <1>1, <1>9, <1>12, <2>1
    <3>2. QED
      BY <1>5, <1>6, <1>12, <3>1, SMTT(30)
  <2>2. CASE j <= m /\ ~(k <= m)
    <3>1. b[k] = n + 1 /\ b[j] \in 1 .. n
      BY <1>6, <1>7, <1>9, <2>2
    <3>2. QED
      BY <3>1
  <2>3. CASE ~(j <= m)
    <3>1. ~(k <= m)
      BY <1>1, <1>12, <2>3
    <3>2. b[j] = n + 1 /\ b[k] = n + 1 /\ o[j] = j - m /\ o[k] = k - m
      BY <1>7, <2>3, <3>1
    <3>3. QED
      BY <1>1, <1>12, <3>2
  <2>4. QED
    BY <2>1, <2>2, <2>3
<1>13. ASSUME NEW i \in 1 .. n + 1, NEW p \in 1 .. Len(ss[i])
       PROVE  \E k \in 1 .. m + q : b[k] = i /\ o[k] = p
  <2>1. CASE i = n + 1
    <3>1. p \in 1 .. q
      BY <2>1 DEF q
    <3>2. m + p \in 1 .. m + q /\ ~(m + p <= m) /\ (m + p) - m = p
      BY <1>1, <3>1
    <3>3. QED
      BY <1>7, <2>1, <3>2
  <2>2. CASE i \in 1 .. n
    <3>1. PICK k \in 1 .. m : blk[k] = i /\ off[k] = p
      BY <1>5, <2>2
    <3>2. QED
      BY <1>6, <3>1
  <2>3. QED
    BY <2>1, <2>2
<1>14. JoinedAt(b, o, u, ss, n + 1)
  BY <1>2, <1>10, <1>11, <1>12, <1>13 DEF JoinedAt
<1>15. QED
  BY <1>2, <1>14 DEF u

(* Where each element of a joined sequence comes from.                     *)
LEMMA FlattenPlaces ==
    ASSUME NEW A, NEW ss \in Seq(Seq(A))
    PROVE  /\ FlattenSeq(ss) \in Seq(A)
           /\ \E blk, off : JoinedAt(blk, off, FlattenSeq(ss), ss, Len(ss))
<1>1. PICK g : /\ FlattenSeq(ss) = g[Len(ss)]
               /\ g[0] = <<>>
               /\ \A i \in 1 .. Len(ss) : g[i] = g[i - 1] \o ss[i]
  BY FlattenSteps
<1> DEFINE T == {n \in Nat : n <= Len(ss) =>
                    g[n] \in Seq(A) /\ \E blk, off : JoinedAt(blk, off, g[n], ss, n)}
<1>2. 0 \in T
  <2>1. JoinedAt([k \in 1 .. 0 |-> 1], [k \in 1 .. 0 |-> 1], <<>>, ss, 0)
    BY DEF JoinedAt
  <2>2. <<>> \in Seq(A)
    OBVIOUS
  <2>3. QED
    BY <1>1, <2>1, <2>2
<1>3. ASSUME NEW n \in Nat, n \in T, n + 1 <= Len(ss)
      PROVE  g[n + 1] \in Seq(A) /\ \E blk, off : JoinedAt(blk, off, g[n + 1], ss, n + 1)
  <2>1. g[n] \in Seq(A) /\ \E blk, off : JoinedAt(blk, off, g[n], ss, n)
    BY <1>3
  <2>2. g[n + 1] = g[n] \o ss[n + 1]
    <3>1. n + 1 \in 1 .. Len(ss) /\ (n + 1) - 1 = n
      BY <1>3
    <3>2. QED
      BY <1>1, <3>1
  <2>3. QED
    BY <1>3, <2>1, <2>2, JoinOneMore
<1>4. \A n \in Nat : n \in T
  <2>1. ASSUME NEW n \in Nat, n \in T PROVE n + 1 \in T
    <3>1. n + 1 <= Len(ss) =>
             g[n + 1] \in Seq(A) /\ \E blk, off : JoinedAt(blk, off, g[n + 1], ss, n + 1)
      BY <1>3, <2>1
    <3>2. QED
      BY <3>1
  <2> HIDE DEF T
  <2>2. QED
    BY <1>2, <2>1, Induct
<1>5. Len(ss) \in T
  BY <1>4
<1>6. QED
  BY <1>1, <1>5

(* What a joined sequence has, and that nothing is in it twice when the    *)
(* sequences share nothing.                                                *)
LEMMA FlattenElements ==
    ASSUME NEW A, NEW ss \in Seq(Seq(A))
    PROVE  /\ FlattenSeq(ss) \in Seq(A)
           /\ Elements(FlattenSeq(ss)) = UNION {Elements(ss[i]) : i \in 1 .. Len(ss)}
           /\ (\A i \in 1 .. Len(ss) : Distinct(ss[i]))
              /\ (\A i, j \in 1 .. Len(ss) :
                     i # j => Elements(ss[i]) \intersect Elements(ss[j]) = {})
              => Distinct(FlattenSeq(ss))
<1> DEFINE t == FlattenSeq(ss)
<1>1. PICK blk, off : t \in Seq(A) /\ JoinedAt(blk, off, t, ss, Len(ss))
  BY FlattenPlaces
<1> HIDE DEF t
<1>2. /\ Len(t) \in Nat /\ Len(ss) \in Nat
      /\ blk \in [1 .. Len(t) -> 1 .. Len(ss)] /\ off \in [1 .. Len(t) -> Nat]
      /\ \A k \in 1 .. Len(t) : off[k] \in 1 .. Len(ss[blk[k]]) /\ t[k] = ss[blk[k]][off[k]]
      /\ \A j, k \in 1 .. Len(t) :
            j < k => blk[j] < blk[k] \/ (blk[j] = blk[k] /\ off[j] < off[k])
      /\ \A i \in 1 .. Len(ss) : \A o \in 1 .. Len(ss[i]) :
            \E k \in 1 .. Len(t) : blk[k] = i /\ off[k] = o
  BY <1>1 DEF JoinedAt
<1>3. \A k \in 1 .. Len(t) : blk[k] \in 1 .. Len(ss) /\ t[k] \in Elements(ss[blk[k]])
  BY <1>2 DEF Elements
<1>4. Elements(t) \subseteq UNION {Elements(ss[i]) : i \in 1 .. Len(ss)}
  BY <1>3 DEF Elements
<1>5. ASSUME NEW i \in 1 .. Len(ss), NEW x \in Elements(ss[i]) PROVE x \in Elements(t)
  <2>1. PICK o \in 1 .. Len(ss[i]) : x = ss[i][o]
    BY DEF Elements
  <2>2. PICK k \in 1 .. Len(t) : blk[k] = i /\ off[k] = o
    BY <1>2
  <2>3. t[k] = x
    BY <1>2, <2>1, <2>2
  <2>4. QED
    BY <2>3 DEF Elements
<1>6. ASSUME \A i \in 1 .. Len(ss) : Distinct(ss[i]),
             \A i, j \in 1 .. Len(ss) :
                 i # j => Elements(ss[i]) \intersect Elements(ss[j]) = {}
      PROVE  Distinct(t)
  <2>1. SUFFICES ASSUME NEW j \in 1 .. Len(t), NEW k \in 1 .. Len(t), t[j] = t[k]
                 PROVE  j = k
    BY DEF Distinct
  <2>2. blk[j] = blk[k]
    BY <1>3, <1>6, <2>1
  <2>3. off[j] = off[k]
    <3>1. Distinct(ss[blk[j]])
      BY <1>3, <1>6
    <3>2. /\ off[j] \in 1 .. Len(ss[blk[j]]) /\ t[j] = ss[blk[j]][off[j]]
          /\ off[k] \in 1 .. Len(ss[blk[j]]) /\ t[k] = ss[blk[j]][off[k]]
      BY <1>2, <2>2
    <3>3. QED
      BY <2>1, <3>1, <3>2 DEF Distinct
  <2>4. ~(j < k) /\ ~(k < j)
    <3>1. off[j] \in Nat /\ blk[j] \in Nat
      BY <1>2, <1>3
    <3>2. /\ j < k => blk[j] < blk[k] \/ (blk[j] = blk[k] /\ off[j] < off[k])
          /\ k < j => blk[k] < blk[j] \/ (blk[k] = blk[j] /\ off[k] < off[j])
      BY <1>2
    <3>3. QED
      BY <2>2, <2>3, <3>1, <3>2
  <2>5. QED
    BY <1>2, <2>4
<1>7. QED
  BY <1>1, <1>4, <1>5, <1>6 DEF t

Precedes(s, x, y) == \E i, j \in 1 .. Len(s) : i < j /\ s[i] = x /\ s[j] = y

LEMMA FlattenPrecedes ==
    ASSUME NEW A, NEW ss \in Seq(Seq(A)), NEW x, NEW y,
           NEW i \in 1 .. Len(ss), NEW j \in 1 .. Len(ss),
           \/ i < j /\ x \in Elements(ss[i]) /\ y \in Elements(ss[j])
           \/ i = j /\ Precedes(ss[i], x, y)
    PROVE  Precedes(FlattenSeq(ss), x, y)
<1> DEFINE t == FlattenSeq(ss)
<1>1. PICK blk, off : t \in Seq(A) /\ JoinedAt(blk, off, t, ss, Len(ss))
  BY FlattenPlaces
<1> HIDE DEF t
<1>2. /\ Len(t) \in Nat
      /\ \A k \in 1 .. Len(t) : t[k] = ss[blk[k]][off[k]]
      /\ \A m, k \in 1 .. Len(t) :
            m < k => blk[m] < blk[k] \/ (blk[m] = blk[k] /\ off[m] < off[k])
      /\ \A b \in 1 .. Len(ss) : \A o \in 1 .. Len(ss[b]) :
            \E k \in 1 .. Len(t) : blk[k] = b /\ off[k] = o
  BY <1>1 DEF JoinedAt
<1>3. PICK p \in 1 .. Len(ss[i]), q \in 1 .. Len(ss[j]) :
          ss[i][p] = x /\ ss[j][q] = y /\ (i < j \/ (i = j /\ p < q))
  BY DEF Elements, Precedes
<1>4. PICK k \in 1 .. Len(t) : blk[k] = i /\ off[k] = p
  BY <1>2
<1>5. PICK m \in 1 .. Len(t) : blk[m] = j /\ off[m] = q
  BY <1>2
<1>6. p \in Nat /\ q \in Nat /\ i \in Nat /\ j \in Nat
  OBVIOUS
<1>7. ~(m < k) /\ m # k
  <2>1. m < k => j < i \/ (j = i /\ q < p)
    BY <1>2, <1>4, <1>5
  <2>2. m = k => i = j /\ p = q
    BY <1>4, <1>5
  <2>3. QED
    BY <1>3, <1>6, <2>1, <2>2
<1>8. k < m
  BY <1>2, <1>7
<1>9. t[k] = x /\ t[m] = y
  BY <1>2, <1>3, <1>4, <1>5
<1>10. QED
  BY <1>8, <1>9 DEF Precedes, t

LEMMA SelectPrecedes ==
    ASSUME NEW A, NEW s \in Seq(A), NEW S, NEW x \in S, NEW y \in S, Precedes(s, x, y)
    PROVE  Precedes(Select(s, S), x, y)
<1> DEFINE t == Select(s, S)
<1>1. PICK at : t \in Seq(A) /\ Picks(at, t, s, S, Len(s))
  BY SelectPicks
<1> HIDE DEF t
<1>2. /\ Len(t) \in Nat /\ at \in [1 .. Len(t) -> 1 .. Len(s)]
      /\ \A i, j \in 1 .. Len(t) : i < j => at[i] < at[j]
      /\ \A i \in 1 .. Len(t) : t[i] = s[at[i]]
      /\ \A p \in 1 .. Len(s) : s[p] \in S => \E i \in 1 .. Len(t) : at[i] = p
  BY <1>1 DEF Picks
<1>3. PICK p \in 1 .. Len(s), q \in 1 .. Len(s) : p < q /\ s[p] = x /\ s[q] = y
  BY DEF Precedes
<1>4. PICK i \in 1 .. Len(t) : at[i] = p
  BY <1>2, <1>3
<1>5. PICK j \in 1 .. Len(t) : at[j] = q
  BY <1>2, <1>3
<1>6. i < j
  <2>1. ~(j < i) /\ i # j
    BY <1>2, <1>3, <1>4, <1>5
  <2>2. QED
    BY <1>2, <2>1
<1>7. QED
  BY <1>2, <1>3, <1>4, <1>5, <1>6 DEF Precedes, t

\* In a sequence without repetitions it says how all occurrences lie.
LEMMA DistinctPrecedes ==
    ASSUME NEW s, Distinct(s), NEW x, NEW y, Precedes(s, x, y),
           NEW i \in 1 .. Len(s), NEW j \in 1 .. Len(s), s[i] = x, s[j] = y
    PROVE  i < j
  BY DEF Distinct, Precedes

LEMMA ConcatElements ==
    ASSUME NEW A, NEW s \in Seq(A), NEW t \in Seq(A)
    PROVE  /\ s \o t \in Seq(A)
           /\ Elements(s \o t) = Elements(s) \union Elements(t)
           /\ Len(s \o t) = Len(s) + Len(t)
           /\ \A i \in 1 .. Len(s \o t) :
                 \/ i \in 1 .. Len(s) /\ (s \o t)[i] = s[i]
                 \/ i - Len(s) \in 1 .. Len(t) /\ (s \o t)[i] = t[i - Len(s)]
<1> DEFINE u == s \o t
<1>1. /\ u \in Seq(A) /\ Len(s) \in Nat /\ Len(t) \in Nat /\ Len(u) = Len(s) + Len(t)
      /\ \A i \in 1 .. Len(s) : u[i] = s[i]
      /\ \A i \in 1 .. Len(t) : u[i + Len(s)] = t[i]
  OBVIOUS
<1> HIDE DEF u
<1>2. ASSUME NEW i \in 1 .. Len(u)
      PROVE  \/ i \in 1 .. Len(s) /\ u[i] = s[i]
             \/ i - Len(s) \in 1 .. Len(t) /\ u[i] = t[i - Len(s)]
  <2>1. CASE i <= Len(s)
    BY <1>1, <2>1
  <2>2. CASE ~(i <= Len(s))
    <3>1. i - Len(s) \in 1 .. Len(t) /\ (i - Len(s)) + Len(s) = i
      BY <1>1, <2>2
    <3>2. QED
      BY <1>1, <3>1
  <2>3. QED
    BY <2>1, <2>2
<1>3. ASSUME NEW i \in 1 .. Len(s) PROVE i \in 1 .. Len(u) /\ u[i] = s[i]
  BY <1>1
<1>4. ASSUME NEW i \in 1 .. Len(t) PROVE i + Len(s) \in 1 .. Len(u) /\ u[i + Len(s)] = t[i]
  BY <1>1
<1>5. Elements(u) = Elements(s) \union Elements(t)
  <2>1. Elements(u) \subseteq Elements(s) \union Elements(t)
    BY <1>2 DEF Elements
  <2>2. Elements(s) \subseteq Elements(u)
    BY <1>3 DEF Elements
  <2>3. Elements(t) \subseteq Elements(u)
    BY <1>4 DEF Elements
  <2>4. QED
    BY <2>1, <2>2, <2>3
<1>6. QED
  BY <1>1, <1>2, <1>5 DEF u

LEMMA ConcatPrecedes ==
    ASSUME NEW A, NEW s \in Seq(A), NEW t \in Seq(A), NEW x, NEW y,
           \/ Precedes(s, x, y)
           \/ Precedes(t, x, y)
           \/ x \in Elements(s) /\ y \in Elements(t)
    PROVE  Precedes(s \o t, x, y)
<1> DEFINE u == s \o t
<1>1. /\ Len(s) \in Nat /\ Len(t) \in Nat /\ Len(u) = Len(s) + Len(t)
      /\ \A i \in 1 .. Len(s) : u[i] = s[i]
      /\ \A i \in 1 .. Len(t) : u[i + Len(s)] = t[i]
  OBVIOUS
<1> HIDE DEF u
<1>2. /\ \A i \in 1 .. Len(s) : i \in 1 .. Len(u)
      /\ \A i \in 1 .. Len(t) : i + Len(s) \in 1 .. Len(u)
  BY <1>1
<1>3. CASE Precedes(s, x, y)
  BY <1>1, <1>2, <1>3 DEF Precedes
<1>4. CASE Precedes(t, x, y)
  <2>1. PICK i \in 1 .. Len(t), j \in 1 .. Len(t) : i < j /\ t[i] = x /\ t[j] = y
    BY <1>4 DEF Precedes
  <2>2. i + Len(s) < j + Len(s)
    BY <1>1, <2>1
  <2>3. Precedes(u, x, y)
    BY <1>1, <1>2, <2>1, <2>2 DEF Precedes
  <2>4. QED
    BY <2>3 DEF u
<1>5. CASE x \in Elements(s) /\ y \in Elements(t)
  <2>1. PICK i \in 1 .. Len(s), j \in 1 .. Len(t) : s[i] = x /\ t[j] = y
    BY <1>5 DEF Elements
  <2>2. i < j + Len(s)
    BY <1>1
  <2>3. Precedes(u, x, y)
    BY <1>1, <1>2, <2>1, <2>2 DEF Precedes
  <2>4. QED
    BY <2>3 DEF u
<1>6. QED
  BY <1>3, <1>4, <1>5 DEF u

LEMMA ConcatDistinct ==
    ASSUME NEW A, NEW s \in Seq(A), NEW t \in Seq(A), Distinct(s), Distinct(t),
           Elements(s) \intersect Elements(t) = {}
    PROVE  Distinct(s \o t)
<1> DEFINE u == s \o t
<1>1. /\ Len(u) \in Nat /\ Len(s) \in Nat
      /\ \A i \in 1 .. Len(u) :
            \/ i \in 1 .. Len(s) /\ u[i] = s[i]
            \/ i - Len(s) \in 1 .. Len(t) /\ u[i] = t[i - Len(s)]
  BY ConcatElements
<1> HIDE DEF u
<1>2. SUFFICES ASSUME NEW i \in 1 .. Len(u), NEW j \in 1 .. Len(u), u[i] = u[j]
               PROVE  i = j
  BY DEF Distinct, u
<1>3. CASE i \in 1 .. Len(s) /\ j \in 1 .. Len(s) /\ u[i] = s[i] /\ u[j] = s[j]
  BY <1>2, <1>3 DEF Distinct
<1>4. CASE /\ i - Len(s) \in 1 .. Len(t) /\ j - Len(s) \in 1 .. Len(t)
           /\ u[i] = t[i - Len(s)] /\ u[j] = t[j - Len(s)]
  <2>1. i - Len(s) = j - Len(s)
    BY <1>2, <1>4 DEF Distinct
  <2>2. QED
    BY <1>1, <2>1
<1>5. CASE ~(\/ i \in 1 .. Len(s) /\ j \in 1 .. Len(s) /\ u[i] = s[i] /\ u[j] = s[j]
             \/ /\ i - Len(s) \in 1 .. Len(t) /\ j - Len(s) \in 1 .. Len(t)
                /\ u[i] = t[i - Len(s)] /\ u[j] = t[j - Len(s)])
  BY <1>1, <1>2, <1>5 DEF Elements
<1>6. QED
  BY <1>3, <1>4, <1>5

LEMMA NarrowSeq ==
    ASSUME NEW A, NEW B, NEW s \in Seq(A), Elements(s) \subseteq B PROVE s \in Seq(B)
<1>1. \A i \in 1 .. Len(s) : s[i] \in B
  BY DEF Elements
<1>2. QED
  BY <1>1

---------------------------------------------------------------------------
(* Sums.                                                                   *)

Total(f, T) == MapThenSumSet(LAMBDA x : f[x], T)

First(T) == CHOOSE x \in T : TRUE
Rest(T) == T \ {First(T)}
Sized(D, n) == {T \in SUBSET D : Cardinality(T) <= n}

Summed(g, f, P) ==
    g = [T \in P |-> IF T = {} THEN 0 ELSE f[First(T)] + g[Rest(T)]]

LEMMA RestSmaller ==
    ASSUME NEW T, IsFiniteSet(T), T # {}
    PROVE  /\ First(T) \in T /\ IsFiniteSet(Rest(T))
           /\ Cardinality(T) \in Nat /\ Cardinality(Rest(T)) \in Nat
           /\ Cardinality(T) = Cardinality(Rest(T)) + 1
<1>1. First(T) \in T
  BY DEF First
<1>2. IsFiniteSet(Rest(T)) /\ Cardinality(Rest(T)) = Cardinality(T) - 1
  BY <1>1, FS_RemoveElement DEF Rest
<1>3. Cardinality(T) \in Nat /\ Cardinality(Rest(T)) \in Nat
  BY <1>2, FS_CardinalityType
<1>4. QED
  BY <1>1, <1>2, <1>3

LEMMA SummedExists ==
    ASSUME NEW D, IsFiniteSet(D), NEW f PROVE \E g : Summed(g, f, SUBSET D)
<1> DEFINE N == {n \in Nat : \E g : Summed(g, f, Sized(D, n))}
<1>1. \A T \in SUBSET D : IsFiniteSet(T) /\ Cardinality(T) \in Nat
  BY FS_Subset, FS_CardinalityType
<1>2. 0 \in N
  <2>1. \A T \in Sized(D, 0) : T = {}
    BY <1>1, FS_EmptySet DEF Sized
  <2>2. Summed([T \in Sized(D, 0) |-> 0], f, Sized(D, 0))
    BY <2>1 DEF Summed
  <2>3. QED
    BY <2>2
<1>3. ASSUME NEW n \in Nat, n \in N PROVE n + 1 \in N
  <2>1. PICK g : Summed(g, f, Sized(D, n))
    BY <1>3
  <2> DEFINE h == [T \in Sized(D, n + 1) |->
                      IF T = {} THEN 0 ELSE f[First(T)] + g[Rest(T)]]
  <2>2. ASSUME NEW T \in Sized(D, n) PROVE T \in Sized(D, n + 1) /\ h[T] = g[T]
    <3>1. T \in Sized(D, n + 1)
      BY <1>1 DEF Sized
    <3>2. g[T] = IF T = {} THEN 0 ELSE f[First(T)] + g[Rest(T)]
      BY <2>1 DEF Summed
    <3>3. QED
      BY <3>1, <3>2
  <2>3. ASSUME NEW T \in Sized(D, n + 1), T # {} PROVE Rest(T) \in Sized(D, n)
    <3>1. T \in SUBSET D /\ Cardinality(T) <= n + 1
      BY DEF Sized
    <3>2. Rest(T) \in SUBSET D
      BY <3>1 DEF Rest
    <3>3. Cardinality(Rest(T)) <= n
      BY <1>1, <2>3, <3>1, RestSmaller
    <3>4. QED
      BY <3>2, <3>3 DEF Sized
  <2>4. ASSUME NEW T \in Sized(D, n + 1)
        PROVE  h[T] = IF T = {} THEN 0 ELSE f[First(T)] + h[Rest(T)]
    <3>1. CASE T = {}
      BY <3>1
    <3>2. CASE T # {}
      <4>1. h[Rest(T)] = g[Rest(T)]
        BY <2>2, <2>3, <3>2
      <4>2. h[T] = f[First(T)] + g[Rest(T)]
        BY <3>2
      <4>3. QED
        BY <3>2, <4>1, <4>2
    <3>3. QED
      BY <3>1, <3>2
  <2>5. h = [T \in Sized(D, n + 1) |-> h[T]]
    OBVIOUS
  <2> HIDE DEF h
  <2>6. Summed(h, f, Sized(D, n + 1))
    BY <2>4, <2>5 DEF Summed
  <2>7. QED
    BY <2>6
<1>4. \A n \in Nat : n \in N
  <2> HIDE DEF N
  <2>1. QED
    BY <1>2, <1>3, Induct
<1>5. Sized(D, Cardinality(D)) = SUBSET D
  BY FS_Subset DEF Sized
<1>6. Cardinality(D) \in N
  BY <1>1, <1>4
<1>7. QED
  BY <1>5, <1>6

\* It depends only on the set it is taken of.
LEMMA SummedAgree ==
    ASSUME NEW D, IsFiniteSet(D), NEW C \in SUBSET D, NEW f, NEW g, NEW h,
           Summed(g, f, SUBSET D), Summed(h, f, SUBSET C)
    PROVE  g[C] = h[C]
<1> DEFINE N == {n \in Nat : \A T \in SUBSET C : Cardinality(T) = n => g[T] = h[T]}
<1>1. \A T \in SUBSET D : IsFiniteSet(T) /\ Cardinality(T) \in Nat
  BY FS_Subset, FS_CardinalityType
<1>2. ASSUME NEW T \in SUBSET C
      PROVE  /\ g[T] = IF T = {} THEN 0 ELSE f[First(T)] + g[Rest(T)]
             /\ h[T] = IF T = {} THEN 0 ELSE f[First(T)] + h[Rest(T)]
  <2>1. T \in SUBSET D
    OBVIOUS
  <2>2. QED
    BY <2>1 DEF Summed
<1>3. 0 \in N
  BY <1>1, <1>2, FS_EmptySet
<1>4. ASSUME NEW n \in Nat, n \in N, NEW T \in SUBSET C, Cardinality(T) = n + 1
      PROVE  g[T] = h[T]
  <2>1. IsFiniteSet(T) /\ T # {}
    BY <1>1, <1>4, FS_EmptySet
  <2>2. Cardinality(Rest(T)) = n
    BY <1>4, <2>1, RestSmaller
  <2>3. Rest(T) \in SUBSET C
    BY DEF Rest
  <2>4. g[Rest(T)] = h[Rest(T)]
    BY <1>4, <2>2, <2>3
  <2>5. QED
    BY <1>2, <2>1, <2>4
<1>5. \A n \in Nat : n \in N
  <2>1. ASSUME NEW n \in Nat, n \in N PROVE n + 1 \in N
    <3>1. \A T \in SUBSET C : Cardinality(T) = n + 1 => g[T] = h[T]
      BY <1>4, <2>1
    <3>2. QED
      BY <3>1
  <2> HIDE DEF N
  <2>2. QED
    BY <1>3, <2>1, Induct
<1>6. QED
  BY <1>1, <1>5

LEMMA TotalSteps ==
    ASSUME NEW D, IsFiniteSet(D), NEW f
    PROVE  /\ Total(f, {}) = 0
           /\ D # {} => Total(f, D) = f[First(D)] + Total(f, Rest(D))
<1> DEFINE Sum(C) == CHOOSE g : Summed(g, f, SUBSET C)
<1>1. \A C : Total(f, C) = Sum(C)[C]
  BY DEF Total, MapThenSumSet, MapThenFoldSet, Summed, First, Rest
<1>2. ASSUME NEW C, IsFiniteSet(C) PROVE Summed(Sum(C), f, SUBSET C)
  BY <1>2, SummedExists
<1> HIDE DEF Sum
<1>3. Total(f, {}) = 0
  BY <1>1, <1>2, FS_EmptySet DEF Summed
<1>4. ASSUME D # {} PROVE Total(f, D) = f[First(D)] + Total(f, Rest(D))
  <2>1. Rest(D) \in SUBSET D /\ IsFiniteSet(Rest(D))
    BY FS_Subset DEF Rest
  <2>2. Sum(D)[Rest(D)] = Sum(Rest(D))[Rest(D)]
    <3>1. Summed(Sum(D), f, SUBSET D) /\ Summed(Sum(Rest(D)), f, SUBSET Rest(D))
      BY <1>2, <2>1
    <3>2. QED
      BY <2>1, <3>1, SummedAgree
  <2>3. Summed(Sum(D), f, SUBSET D) /\ D \in SUBSET D
    BY <1>2
  <2>4. Sum(D)[D] = f[First(D)] + Sum(D)[Rest(D)]
    BY <1>4, <2>3 DEF Summed
  <2>5. QED
    BY <1>1, <2>2, <2>4
<1>5. QED
  BY <1>3, <1>4

LEMMA TotalIsNat ==
    ASSUME NEW D, IsFiniteSet(D), NEW f, \A x \in D : f[x] \in Nat
    PROVE  \A T \in SUBSET D : Total(f, T) \in Nat
<1> DEFINE N == {n \in Nat : \A T \in SUBSET D : Cardinality(T) = n => Total(f, T) \in Nat}
<1>1. \A T \in SUBSET D : IsFiniteSet(T) /\ Cardinality(T) \in Nat
  BY FS_Subset, FS_CardinalityType
<1>2. 0 \in N
  BY <1>1, TotalSteps, FS_EmptySet
<1>3. ASSUME NEW n \in Nat, n \in N, NEW T \in SUBSET D, Cardinality(T) = n + 1
      PROVE  Total(f, T) \in Nat
  <2>1. IsFiniteSet(T) /\ T # {}
    BY <1>1, <1>3, FS_EmptySet
  <2>2. Rest(T) \in SUBSET D /\ Cardinality(Rest(T)) = n
    BY <1>3, <2>1, RestSmaller DEF Rest
  <2>3. f[First(T)] \in Nat /\ Total(f, Rest(T)) \in Nat
    BY <1>3, <2>1, <2>2, RestSmaller
  <2>4. Total(f, T) = f[First(T)] + Total(f, Rest(T))
    BY <2>1, TotalSteps
  <2>5. QED
    BY <2>3, <2>4
<1>4. \A n \in Nat : n \in N
  <2>1. ASSUME NEW n \in Nat, n \in N PROVE n + 1 \in N
    <3>1. \A T \in SUBSET D : Cardinality(T) = n + 1 => Total(f, T) \in Nat
      BY <1>3, <2>1
    <3>2. QED
      BY <3>1
  <2> HIDE DEF N
  <2>2. QED
    BY <1>2, <2>1, Induct
<1>5. QED
  BY <1>1, <1>4

(* A sum of natural numbers may be taken in any order.                     *)
LEMMA TotalOfNats ==
    ASSUME NEW D, IsFiniteSet(D), NEW f, \A x \in D : f[x] \in Nat
    PROVE  /\ Total(f, {}) = 0
           /\ \A T \in SUBSET D : Total(f, T) \in Nat
           /\ \A T \in SUBSET D : \A x \in T : Total(f, T) = f[x] + Total(f, T \ {x})
<1> DEFINE Right(T) == \A x \in T : Total(f, T) = f[x] + Total(f, T \ {x})
           N == {n \in Nat : \A T \in SUBSET D : Cardinality(T) = n => Right(T)}
<1>1. \A T \in SUBSET D : IsFiniteSet(T) /\ Cardinality(T) \in Nat
  BY FS_Subset, FS_CardinalityType
<1>2. Total(f, {}) = 0
  BY TotalSteps
<1>3. 0 \in N
  BY <1>1, <1>2, FS_EmptySet
<1>4. ASSUME NEW n \in Nat, n \in N, NEW T \in SUBSET D, Cardinality(T) = n + 1
      PROVE  Right(T)
  <2>1. IsFiniteSet(T) /\ T # {}
    BY <1>1, <1>4, FS_EmptySet
  <2>2. ASSUME NEW x \in T PROVE T \ {x} \in SUBSET D /\ Cardinality(T \ {x}) = n
    <3>1. Cardinality(T \ {x}) = Cardinality(T) - 1
      BY <2>1, FS_RemoveElement
    <3>2. QED
      BY <1>4, <3>1
  <2>3. \A x \in T : Right(T \ {x})
    BY <1>4, <2>2
  <2> DEFINE c == First(T)
  <2>4. c \in T /\ Total(f, T) = f[c] + Total(f, T \ {c})
    BY <2>1, TotalSteps, RestSmaller DEF Rest
  <2> HIDE DEF c
  <2>5. \A x \in T : f[x] \in Nat
    OBVIOUS
  <2>7. ASSUME NEW x \in T, x # c PROVE Total(f, T) = f[x] + Total(f, T \ {x})
    <3>1. Total(f, T \ {c}) = f[x] + Total(f, (T \ {c}) \ {x})
      BY <2>3, <2>4, <2>7
    <3>2. Total(f, T \ {x}) = f[c] + Total(f, (T \ {x}) \ {c})
      BY <2>3, <2>4, <2>7
    <3>3. (T \ {x}) \ {c} = (T \ {c}) \ {x}
      OBVIOUS
    <3>4. Total(f, (T \ {c}) \ {x}) \in Nat
      BY TotalIsNat
    <3>5. QED
      BY <2>4, <2>5, <3>1, <3>2, <3>3, <3>4
  <2>8. QED
    BY <2>4, <2>7
<1>5. \A n \in Nat : n \in N
  <2>1. ASSUME NEW n \in Nat, n \in N PROVE n + 1 \in N
    <3>1. \A T \in SUBSET D : Cardinality(T) = n + 1 => Right(T)
      BY <1>4, <2>1
    <3>2. QED
      BY <3>1
  <2> HIDE DEF N
  <2>2. QED
    BY <1>3, <2>1, Induct
<1>6. QED
  BY <1>1, <1>2, <1>5, TotalIsNat

(* What is taken out of a set comes off its sum.                           *)
LEMMA TotalDifference ==
    ASSUME NEW D, IsFiniteSet(D), NEW f, \A x \in D : f[x] \in Nat,
           NEW T \in SUBSET D, NEW S \in SUBSET T
    PROVE  Total(f, T) = Total(f, S) + Total(f, T \ S)
<1> DEFINE P == {C \in SUBSET T : Total(f, T) = Total(f, C) + Total(f, T \ C)}
<1>1. \A C \in SUBSET D : Total(f, C) \in Nat
  BY TotalOfNats
<1>2. IsFiniteSet(T)
  BY FS_Subset
<1>3. {} \in P
  <2>1. T \ {} = T /\ Total(f, {}) = 0
    BY TotalOfNats
  <2>2. QED
    BY <1>1, <2>1
<1>4. ASSUME NEW C \in SUBSET T, NEW x \in T \ C, C \in P PROVE C \union {x} \in P
  <2>1. Total(f, C \union {x}) = f[x] + Total(f, C)
    <3>1. C \union {x} \in SUBSET D /\ x \in C \union {x} /\ (C \union {x}) \ {x} = C
      OBVIOUS
    <3>2. QED
      BY <3>1, TotalOfNats
  <2>2. Total(f, T \ C) = f[x] + Total(f, T \ (C \union {x}))
    <3>1. T \ C \in SUBSET D /\ x \in T \ C /\ (T \ C) \ {x} = T \ (C \union {x})
      OBVIOUS
    <3>2. QED
      BY <3>1, TotalOfNats
  <2>3. /\ f[x] \in Nat /\ Total(f, C) \in Nat /\ Total(f, T \ (C \union {x})) \in Nat
    BY <1>1
  <2>4. QED
    BY <1>4, <2>1, <2>2, <2>3
<1>5. \A C \in SUBSET T : C \in P
  <2> HIDE DEF P
  <2>1. QED
    BY <1>2, <1>3, <1>4, InductFinite
<1>6. QED
  BY <1>5
=============================================================================
