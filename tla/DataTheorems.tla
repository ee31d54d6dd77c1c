---------------------------- MODULE DataTheorems ----------------------------
(***************************************************************************)
(* Induction over data for the proofs about amounts and lists.  The        *)
(* induction theorems of the library take the property as an operator,     *)
(* which the provers cannot instantiate; here it is a set of numbers, and  *)
(* the principle follows from the existence of minimal elements.           *)
(***************************************************************************)
EXTENDS Integers, Sequences, Functions, FiniteSetTheorems, WellFoundedInduction, TLAPS

NatOrder == {p \in Nat \X Nat : p[1] < p[2]}

\* A set of numbers that holds 0 and the successor of each of its members holds
\* every number.
LEMMA Induction ==
  ASSUME NEW T, 0 \in T, \A n \in Nat : n \in T => n + 1 \in T
  PROVE  Nat \subseteq T
<1> DEFINE U == Nat \ T
<1> SUFFICES ASSUME U # {} PROVE FALSE
  OBVIOUS
<1>1. IsWellFoundedOn(NatOrder, Nat)
  BY NatLessThanWellFounded DEF OpToRel, NatOrder
<1>2. PICK x \in U : \A y \in U : ~(<<y, x>> \in NatOrder)
  <2>1. U \subseteq Nat
    OBVIOUS
  <2> HIDE DEF U
  <2> QED BY <1>1, <2>1, WFMin
<1>3. x - 1 \in Nat /\ <<x - 1, x>> \in NatOrder
  BY <1>2 DEF NatOrder
<1>4. (x - 1) + 1 \in T
  BY <1>2, <1>3
<1> QED BY <1>2, <1>4

LEMMA LeastNumber ==
  ASSUME NEW S \in SUBSET Nat, S # {}
  PROVE  \E x \in S : \A y \in S : x <= y
<1>1. IsWellFoundedOn(NatOrder, Nat)
  BY NatLessThanWellFounded DEF OpToRel, NatOrder
<1>2. PICK x \in S : \A y \in S : ~(<<y, x>> \in NatOrder)
  BY <1>1, WFMin
<1>3. ASSUME NEW y \in S PROVE x <= y
  <2>1. y < x => <<y, x>> \in NatOrder
    BY DEF NatOrder
  <2> QED BY <1>2, <2>1
<1> QED BY <1>3

\* A collection of subsets of a finite set that holds each subset whose smaller
\* neighbours it holds, holds them all.
LEMMA SubsetInduction ==
  ASSUME NEW S, IsFiniteSet(S), NEW T,
         \A s \in SUBSET S : (\A x \in s : s \ {x} \in T) => s \in T
  PROVE  SUBSET S \subseteq T
<1> DEFINE N == {n \in Nat : \A s \in SUBSET S : Cardinality(s) = n => s \in T}
<1>1. \A s \in SUBSET S : IsFiniteSet(s) /\ Cardinality(s) \in Nat
  BY FS_Subset, FS_CardinalityType
<1>2. \A s \in SUBSET S : Cardinality(s) = 0 => s = {}
  BY <1>1, FS_EmptySet
<1>3. 0 \in N
  BY <1>2
<1>4. ASSUME NEW n \in Nat, n \in N PROVE n + 1 \in N
  <2> SUFFICES ASSUME NEW s \in SUBSET S, Cardinality(s) = n + 1 PROVE s \in T
    OBVIOUS
  <2>1. ASSUME NEW x \in s PROVE s \ {x} \in T
    <3>1. Cardinality(s \ {x}) = n
      BY <1>1, FS_RemoveElement
    <3> QED BY <1>4, <3>1
  <2> QED BY <2>1
<1> HIDE DEF N
<1>5. Nat \subseteq N
  BY <1>3, <1>4, Induction
<1> QED BY <1>1, <1>5 DEF N

-----------------------------------------------------------------------------
(* Sums of the values of a function W over finite sets.                    *)

Pick(s) == CHOOSE x \in s : TRUE

\* g gives the sum over each member of D, as the fold of the library computes it.
Sums(W, D, g) ==
  g = [s \in D |-> IF s = {} THEN 0 ELSE W[Pick(s)] + g[s \ {Pick(s)}]]

Iter(W, S) == CHOOSE g : Sums(W, SUBSET S, g)

LEMMA SumIsIter ==
  ASSUME NEW W, NEW S
  PROVE  SumFunctionOnSet(W, S) = Iter(W, S)[S]
  BY DEF SumFunctionOnSet, FoldFunctionOnSet, MapThenFoldSet, Iter, Sums, Pick

\* The equation of the fold has a solution: one for the sets of n members gives
\* one for the sets of n + 1.
LEMMA SumsExist ==
  ASSUME NEW W, NEW S, IsFiniteSet(S)
  PROVE  Sums(W, SUBSET S, Iter(W, S))
<1> DEFINE Small(n) == {s \in SUBSET S : Cardinality(s) <= n}
           T == {n \in Nat : \E g : Sums(W, Small(n), g)}
<1>1. \A s \in SUBSET S : IsFiniteSet(s) /\ Cardinality(s) \in Nat
  BY FS_Subset, FS_CardinalityType
<1>2. \A s \in SUBSET S : s # {} =>
        Pick(s) \in s /\ Cardinality(s \ {Pick(s)}) = Cardinality(s) - 1
  BY <1>1, FS_RemoveElement DEF Pick
<1>3. 0 \in T
  <2> DEFINE g == [s \in Small(0) |-> 0]
  <2>1. \A s \in Small(0) : s = {}
    BY <1>1, FS_EmptySet
  <2>2. Sums(W, Small(0), g)
    BY <2>1 DEF Sums
  <2> QED BY <2>2
<1>4. ASSUME NEW n \in Nat, n \in T PROVE n + 1 \in T
  <2>1. PICK g : Sums(W, Small(n), g)
    BY <1>4
  <2> DEFINE h == [s \in Small(n + 1) |-> IF s = {} THEN 0 ELSE W[Pick(s)] + g[s \ {Pick(s)}]]
  <2>2. Small(n) \subseteq Small(n + 1)
    BY <1>1
  <2>3. \A s \in Small(n + 1) : s # {} => s \ {Pick(s)} \in Small(n)
    BY <1>1, <1>2
  <2> HIDE DEF Small
  <2>4. \A s \in Small(n) : h[s] = g[s]
    BY <2>1, <2>2 DEF Sums
  <2>5. Sums(W, Small(n + 1), h)
    BY <2>3, <2>4 DEF Sums
  <2> QED BY <2>5
<1> HIDE DEF T
<1>5. Cardinality(S) \in T
  BY <1>1, <1>3, <1>4, Induction
<1>6. Small(Cardinality(S)) = SUBSET S
  BY <1>1, FS_Subset
<1>7. \E g : Sums(W, SUBSET S, g)
  BY <1>5, <1>6 DEF T
<1> QED BY <1>7 DEF Iter

LEMMA SumsUnique ==
  ASSUME NEW W, NEW S, IsFiniteSet(S), NEW D, SUBSET S \subseteq D, NEW E, SUBSET S \subseteq E,
         NEW g, Sums(W, D, g), NEW h, Sums(W, E, h)
  PROVE  g[S] = h[S]
<1> DEFINE T == {s \in SUBSET S : g[s] = h[s]}
<1>1. ASSUME NEW s \in SUBSET S, \A x \in s : s \ {x} \in T PROVE s \in T
  <2>1. s = {} \/ Pick(s) \in s
    BY DEF Pick
  <2> QED BY <1>1, <2>1 DEF Sums
<1> HIDE DEF T
<1>2. S \in T
  BY <1>1, SubsetInduction
<1> QED BY <1>2 DEF T

LEMMA SumOfEmpty ==
  ASSUME NEW W
  PROVE  SumFunctionOnSet(W, {}) = 0
<1>1. Sums(W, SUBSET {}, Iter(W, {}))
  BY SumsExist, FS_EmptySet
<1> QED BY <1>1, SumIsIter DEF Sums

LEMMA SumUnfolds ==
  ASSUME NEW W, NEW S, IsFiniteSet(S), S # {}
  PROVE  SumFunctionOnSet(W, S) = W[Pick(S)] + SumFunctionOnSet(W, S \ {Pick(S)})
<1> DEFINE R == S \ {Pick(S)}
<1>1. R \subseteq S /\ IsFiniteSet(R)
  BY FS_Subset
<1>2. Sums(W, SUBSET S, Iter(W, S)) /\ Sums(W, SUBSET R, Iter(W, R))
  BY <1>1, SumsExist
<1>3. Iter(W, S)[R] = Iter(W, R)[R]
  <2>1. SUBSET R \subseteq SUBSET S
    OBVIOUS
  <2> HIDE DEF R
  <2> QED BY <1>1, <1>2, <2>1, SumsUnique
<1>4. Iter(W, S)[S] = W[Pick(S)] + Iter(W, S)[R]
  BY <1>2 DEF Sums
<1> QED BY <1>3, <1>4, SumIsIter

\* A sum of naturals is a natural.
LEMMA SumNat ==
  ASSUME NEW W, NEW S, IsFiniteSet(S), \A x \in S : W[x] \in Nat
  PROVE  SumFunctionOnSet(W, S) \in Nat
<1> DEFINE T == {s \in SUBSET S : SumFunctionOnSet(W, s) \in Nat}
<1>1. ASSUME NEW s \in SUBSET S, \A x \in s : s \ {x} \in T PROVE s \in T
  <2>1. CASE s = {}
    BY <2>1, SumOfEmpty
  <2>2. CASE s # {}
    <3>1. Pick(s) \in s /\ IsFiniteSet(s)
      BY <2>2, FS_Subset DEF Pick
    <3>2. SumFunctionOnSet(W, s) = W[Pick(s)] + SumFunctionOnSet(W, s \ {Pick(s)})
      BY <2>2, <3>1, SumUnfolds
    <3> QED BY <1>1, <3>1, <3>2
  <2> QED BY <2>1, <2>2
<1> HIDE DEF T
<1>2. S \in T
  BY <1>1, SubsetInduction
<1> QED BY <1>2 DEF T

\* The order in which the members are taken does not matter.
THEOREM SumRemove ==
  ASSUME NEW W, NEW S, IsFiniteSet(S), \A x \in S : W[x] \in Nat, NEW x \in S
  PROVE  SumFunctionOnSet(W, S) = W[x] + SumFunctionOnSet(W, S \ {x})
<1> DEFINE F(s) == SumFunctionOnSet(W, s)
           T == {s \in SUBSET S : \A y \in s : F(s) = W[y] + F(s \ {y})}
<1>1. \A s \in SUBSET S : IsFiniteSet(s) /\ F(s) \in Nat
  BY FS_Subset, SumNat
<1>2. ASSUME NEW s \in SUBSET S, \A y \in s : s \ {y} \in T PROVE s \in T
  <2> DEFINE p == Pick(s)
  <2> SUFFICES ASSUME NEW y \in s PROVE F(s) = W[y] + F(s \ {y})
    OBVIOUS
  <2>1. p \in s
    BY DEF Pick
  <2>2. F(s) = W[p] + F(s \ {p})
    BY <1>1, SumUnfolds
  <2> HIDE DEF p
  <2>3. CASE y = p
    BY <2>2, <2>3
  <2>4. CASE y # p
    <3> DEFINE rest == (s \ {p}) \ {y}
    <3>1. rest = (s \ {y}) \ {p} /\ rest \in SUBSET S
      OBVIOUS
    <3>2. F(s \ {p}) = W[y] + F(rest)
      BY <1>2, <2>1, <2>4
    <3>3. F(s \ {y}) = W[p] + F(rest)
      BY <1>2, <2>1, <2>4, <3>1
    <3>4. F(rest) \in Nat /\ W[p] \in Nat /\ W[y] \in Nat
      BY <1>1, <2>1, <3>1
    <3> HIDE DEF F, rest
    <3> QED BY <2>2, <3>2, <3>3, <3>4
  <2> QED BY <2>3, <2>4
<1> HIDE DEF T
<1>3. S \in T
  BY <1>2, SubsetInduction
<1> QED BY <1>3 DEF T

\* What a member adds to a sum.
THEOREM SumAdd ==
  ASSUME NEW W, NEW S, IsFiniteSet(S), NEW x, x \notin S, \A y \in S \cup {x} : W[y] \in Nat
  PROVE  SumFunctionOnSet(W, S \cup {x}) = W[x] + SumFunctionOnSet(W, S)
<1>1. IsFiniteSet(S \cup {x})
  BY FS_AddElement
<1>2. (S \cup {x}) \ {x} = S
  OBVIOUS
<1> QED BY <1>1, <1>2, SumRemove

\* A part is not worth more than the whole.
THEOREM SumMonotone ==
  ASSUME NEW W, NEW S, IsFiniteSet(S), \A x \in S : W[x] \in Nat, NEW R \in SUBSET S
  PROVE  SumFunctionOnSet(W, R) <= SumFunctionOnSet(W, S)
<1> DEFINE F(s) == SumFunctionOnSet(W, s)
           T == {s \in SUBSET S : \A r \in SUBSET s : F(r) <= F(s)}
<1>1. \A s \in SUBSET S : IsFiniteSet(s) /\ F(s) \in Nat
  BY FS_Subset, SumNat
<1>2. ASSUME NEW s \in SUBSET S, \A x \in s : s \ {x} \in T PROVE s \in T
  <2> SUFFICES ASSUME NEW r \in SUBSET s PROVE F(r) <= F(s)
    OBVIOUS
  <2>1. CASE r = s
    BY <1>1, <2>1
  <2>2. CASE r # s
    <3>1. PICK x \in s : x \notin r
      BY <2>2
    <3>2. F(r) <= F(s \ {x})
      BY <1>2, <3>1
    <3>3. F(s) = W[x] + F(s \ {x})
      BY <1>1, SumRemove
    <3>4. F(r) \in Nat /\ F(s \ {x}) \in Nat /\ F(s) \in Nat /\ W[x] \in Nat
      BY <1>1
    <3> HIDE DEF F
    <3> QED BY <3>2, <3>3, <3>4
  <2> QED BY <2>1, <2>2
<1> HIDE DEF T
<1>3. S \in T
  BY <1>2, SubsetInduction
<1> QED BY <1>3 DEF T

\* The whole is worth its two parts.
THEOREM SumSplit ==
  ASSUME NEW W, NEW S, IsFiniteSet(S), \A x \in S : W[x] \in Nat, NEW R \in SUBSET S
  PROVE  SumFunctionOnSet(W, S) = SumFunctionOnSet(W, R) + SumFunctionOnSet(W, S \ R)
<1> DEFINE F(s) == SumFunctionOnSet(W, s)
           T == {s \in SUBSET S : \A r \in SUBSET s : F(s) = F(r) + F(s \ r)}
<1>1. \A s \in SUBSET S : IsFiniteSet(s) /\ F(s) \in Nat
  BY FS_Subset, SumNat
<1>2. ASSUME NEW s \in SUBSET S, \A x \in s : s \ {x} \in T PROVE s \in T
  <2> SUFFICES ASSUME NEW r \in SUBSET s PROVE F(s) = F(r) + F(s \ r)
    OBVIOUS
  <2>1. CASE r = s
    <3>1. F(s \ r) = 0
      BY <2>1, SumOfEmpty
    <3>2. F(s) \in Nat
      BY <1>1
    <3> HIDE DEF F
    <3> QED BY <2>1, <3>1, <3>2
  <2>2. CASE r # s
    <3>1. PICK x \in s : x \notin r
      BY <2>2
    <3>2. r \subseteq s \ {x} /\ (s \ {x}) \ r = (s \ r) \ {x} /\ x \in s \ r
      BY <3>1
    <3>3. F(s \ {x}) = F(r) + F((s \ r) \ {x})
      BY <1>2, <3>2
    <3>4. F(s) = W[x] + F(s \ {x}) /\ F(s \ r) = W[x] + F((s \ r) \ {x})
      BY <1>1, <3>2, SumRemove
    <3>5. /\ F(r) \in Nat /\ F(s \ {x}) \in Nat /\ F(s \ r) \in Nat /\ W[x] \in Nat
          /\ F((s \ r) \ {x}) \in Nat
      BY <1>1
    <3> HIDE DEF F
    <3> QED BY <3>3, <3>4, <3>5
  <2> QED BY <2>1, <2>2
<1> HIDE DEF T
<1>3. S \in T
  BY <1>2, SubsetInduction
<1> QED BY <1>3 DEF T

-----------------------------------------------------------------------------
(* The members of a list s that are outside a set S, in the same order.    *)

\* k[i] is what the first i members of s leave, for the numbers i of D.
Filters(s, S, D, k) ==
  k = [i \in D |-> IF i = 0 THEN <<>>
                   ELSE IF s[i] \in S THEN k[i - 1] ELSE Append(k[i - 1], s[i])]

Filter(s, S) == CHOOSE k : Filters(s, S, 0 .. Len(s), k)

LEMMA FilterAt ==
  ASSUME NEW s, NEW S, NEW D, NEW k, Filters(s, S, D, k), NEW i \in D
  PROVE  /\ i = 0 => k[i] = <<>>
         /\ i # 0 /\ s[i] \in S => k[i] = k[i - 1]
         /\ i # 0 /\ s[i] \notin S => k[i] = Append(k[i - 1], s[i])
<1>1. k[i] = IF i = 0 THEN <<>>
             ELSE IF s[i] \in S THEN k[i - 1] ELSE Append(k[i - 1], s[i])
  BY Zenon DEF Filters
<1> QED BY <1>1

LEMMA FilterGrows ==
  ASSUME NEW s, NEW S, NEW n \in Nat, NEW k, Filters(s, S, 0 .. n, k)
  PROVE  \E h : Filters(s, S, 0 .. n + 1, h)
<1> DEFINE D == 0 .. n
           E == 0 .. n + 1
           h == [i \in E |-> IF i = 0 THEN <<>>
                             ELSE IF s[i] \in S THEN k[i - 1] ELSE Append(k[i - 1], s[i])]
<1>1. D \subseteq E /\ \A i \in E : i # 0 => i - 1 \in D
  OBVIOUS
<1>2. Filters(s, S, D, k)
  OBVIOUS
<1> HIDE DEF D, E
<1>3. \A i \in D : h[i] = k[i]
  <2> TAKE i \in D
  <2>1. /\ i = 0 => k[i] = <<>>
        /\ i # 0 /\ s[i] \in S => k[i] = k[i - 1]
        /\ i # 0 /\ s[i] \notin S => k[i] = Append(k[i - 1], s[i])
    BY <1>2, FilterAt
  <2> QED BY <1>1, <2>1, Zenon
<1>4. \A i \in E : i # 0 => h[i - 1] = k[i - 1]
  BY <1>1, <1>3, Zenon
<1>5. h = [i \in E |-> IF i = 0 THEN <<>>
                       ELSE IF s[i] \in S THEN h[i - 1] ELSE Append(h[i - 1], s[i])]
  BY <1>4, Zenon
<1> QED BY <1>5, Zenon DEF Filters, E

LEMMA FilterExists ==
  ASSUME NEW A, NEW s \in Seq(A), NEW S
  PROVE  Filters(s, S, 0 .. Len(s), Filter(s, S))
<1> DEFINE T == {n \in Nat : \E k : Filters(s, S, 0 .. n, k)}
<1>1. 0 \in T
  <2> DEFINE k == [i \in {0} |-> <<>>]
  <2>1. k = [i \in {0} |-> IF i = 0 THEN <<>>
                           ELSE IF s[i] \in S THEN k[i - 1] ELSE Append(k[i - 1], s[i])]
    BY Zenon
  <2>2. 0 .. 0 = {0}
    OBVIOUS
  <2>3. Filters(s, S, 0 .. 0, k)
    BY <2>1, <2>2, Zenon DEF Filters
  <2> QED BY <2>3
<1>2. ASSUME NEW n \in Nat, n \in T PROVE n + 1 \in T
  BY <1>2, FilterGrows
<1> HIDE DEF T
<1>3. Len(s) \in T
  BY <1>1, <1>2, Induction
<1> QED BY <1>3 DEF T, Filter

LEMMA RangeOfAppend ==
  ASSUME NEW A, NEW s \in Seq(A), NEW a \in A
  PROVE  Range(Append(s, a)) = Range(s) \cup {a}
<1> DEFINE t == Append(s, a)
<1>1. /\ DOMAIN s = 1 .. Len(s) /\ DOMAIN t = 1 .. Len(s) + 1
      /\ \A i \in 1 .. Len(s) : t[i] = s[i]
      /\ t[Len(s) + 1] = a
  OBVIOUS
<1> HIDE DEF t
<1>2. \A i \in DOMAIN t : t[i] \in Range(s) \cup {a}
  BY <1>1 DEF Range
<1>3. \A x \in Range(s) \cup {a} : \E i \in DOMAIN t : t[i] = x
  BY <1>1 DEF Range
<1> QED BY <1>2, <1>3 DEF Range, t

Distinct(s) == \A i, j \in 1 .. Len(s) : s[i] = s[j] => i = j

\* What is left of the list, and of its order: nothing in S, nothing twice.
LEMMA FilterPrefix ==
  ASSUME NEW A, NEW s \in Seq(A), NEW S, Distinct(s), NEW k, Filters(s, S, 0 .. Len(s), k),
         NEW n \in 0 .. Len(s)
  PROVE  /\ k[n] \in Seq(A)
         /\ Range(k[n]) = {s[i] : i \in 1 .. n} \ S
         /\ Distinct(k[n])
<1> DEFINE Good(i) == /\ k[i] \in Seq(A)
                      /\ Range(k[i]) = {s[j] : j \in 1 .. i} \ S
                      /\ Distinct(k[i])
           T == {i \in Nat : i <= Len(s) => Good(i)}
<1>1. 0 \in T
  <2>1. k[0] = <<>>
    <3>1. 0 \in 0 .. Len(s)
      OBVIOUS
    <3> QED BY <3>1, FilterAt
  <2>2. Range(<<>>) = {} /\ {s[j] : j \in 1 .. 0} = {} /\ Distinct(<<>>)
    BY DEF Range, Distinct
  <2>3. <<>> \in Seq(A)
    OBVIOUS
  <2>4. Good(0)
    BY <2>1, <2>2, <2>3
  <2> QED BY <2>4
<1>2. ASSUME NEW i \in Nat, i \in T PROVE i + 1 \in T
  <2> SUFFICES ASSUME i + 1 <= Len(s) PROVE Good(i + 1)
    OBVIOUS
  <2>1. Good(i)
    BY <1>2
  <2>2. i + 1 \in 1 .. Len(s) /\ s[i + 1] \in A
    BY <1>2
  <2>3. {s[j] : j \in 1 .. i + 1} = {s[j] : j \in 1 .. i} \cup {s[i + 1]}
    OBVIOUS
  <2>4. k[i + 1] = IF s[i + 1] \in S THEN k[i] ELSE Append(k[i], s[i + 1])
    <3> DEFINE j == i + 1  D == 0 .. Len(s)
    <3>1. j \in D /\ j # 0 /\ j - 1 = i /\ Filters(s, S, D, k)
      BY <2>2
    <3> HIDE DEF j, D
    <3>2. /\ s[j] \in S => k[j] = k[j - 1]
          /\ s[j] \notin S => k[j] = Append(k[j - 1], s[j])
      BY <3>1, FilterAt
    <3> QED BY <3>1, <3>2 DEF j
  <2>5. CASE s[i + 1] \in S
    BY <2>1, <2>3, <2>4, <2>5
  <2>6. CASE s[i + 1] \notin S
    <3> DEFINE l == k[i]  a == s[i + 1]
    <3>1. l \in Seq(A) /\ a \in A /\ k[i + 1] = Append(l, a)
      BY <2>1, <2>2, <2>4, <2>6
    <3>2. a \notin Range(l)
      <4>1. \A j \in 1 .. i : s[j] # a
        BY <2>2 DEF Distinct
      <4> QED BY <2>1, <4>1
    <3>3. Range(l) = {s[j] : j \in 1 .. i} \ S /\ Distinct(l)
      BY <2>1
    <3> HIDE DEF l, a
    <3>4. Range(k[i + 1]) = Range(l) \cup {a}
      BY <3>1, RangeOfAppend
    <3>5. Distinct(k[i + 1])
      BY <3>1, <3>2, <3>3 DEF Distinct, Range
    <3>6. k[i + 1] \in Seq(A)
      BY <3>1
    <3>7. a = s[i + 1]
      BY DEF a
    <3> QED BY <2>3, <2>6, <3>3, <3>4, <3>5, <3>6, <3>7
  <2> QED BY <2>5, <2>6
<1> HIDE DEF T
<1>3. n \in T
  BY <1>1, <1>2, Induction
<1> QED BY <1>3 DEF T

THEOREM FilterProperties ==
  ASSUME NEW A, NEW s \in Seq(A), NEW S, Distinct(s)
  PROVE  /\ Filter(s, S)[Len(s)] \in Seq(A)
         /\ Range(Filter(s, S)[Len(s)]) = Range(s) \ S
         /\ Distinct(Filter(s, S)[Len(s)])
<1>1. Len(s) \in 0 .. Len(s) /\ Range(s) = {s[i] : i \in 1 .. Len(s)}
  BY DEF Range
<1>2. Filters(s, S, 0 .. Len(s), Filter(s, S))
  BY FilterExists
<1>3. \A k : Filters(s, S, 0 .. Len(s), k) =>
        /\ k[Len(s)] \in Seq(A)
        /\ Range(k[Len(s)]) = {s[i] : i \in 1 .. Len(s)} \ S
        /\ Distinct(k[Len(s)])
  BY <1>1, FilterPrefix
<1> QED BY <1>1, <1>2, <1>3

\* A list without repetition is as long as the set of its members is large.
THEOREM DistinctCounts ==
  ASSUME NEW A, NEW s \in Seq(A), Distinct(s)
  PROVE  IsFiniteSet(Range(s)) /\ Cardinality(Range(s)) = Len(s)
<1> DEFINE D == 1 .. Len(s)
<1>1. s \in Injection(D, Range(s)) /\ s \in Surjection(D, Range(s))
  BY DEF Distinct, Range, Injection, Surjection, IsInjective
<1>2. IsFiniteSet(D) /\ Cardinality(D) = Len(s)
  <2>1. Len(s) \in Nat
    OBVIOUS
  <2>2. IsFiniteSet(D) /\ Cardinality(D) = IF 1 > Len(s) THEN 0 ELSE Len(s) - 1 + 1
    BY <2>1, FS_Interval
  <2> HIDE DEF D
  <2> QED BY <2>1, <2>2
<1> HIDE DEF D
<1> QED BY <1>1, <1>2, FS_Surjection
=============================================================================
