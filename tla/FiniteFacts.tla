----------------------------- MODULE FiniteFacts -----------------------------
(***************************************************************************)
(* Facts about finite sets and natural numbers, from which the proofs      *)
(* about the models take what Max and SumFunction return.                  *)
(***************************************************************************)
EXTENDS Naturals, FiniteSets, FiniteSetsExt, FiniteSetTheorems,
        WellFoundedInduction, TLAPS

--------------------------------------------------------------------------------
(* Least and largest elements                                                 *)

\* A non-empty set of natural numbers has a least element.
LEMMA LeastElement ==
    ASSUME NEW T, T \subseteq Nat, T # {}
    PROVE  \E x \in T : \A y \in T : x <= y
<1> DEFINE R == OpToRel(<, Nat)
<1>1. PICK x \in T : \A y \in T : ~ (<<y, x>> \in R)
  <2> HIDE DEF R
  <2>1. IsWellFoundedOn(R, Nat)
    BY NatLessThanWellFounded, Zenon DEF R
  <2> QED BY <2>1, WFMin
<1>2. ASSUME NEW y \in T PROVE x <= y
  <2>1. x \in Nat /\ y \in Nat
    OBVIOUS
  <2>2. y < x => <<y, x>> \in R
    BY <2>1 DEF OpToRel
  <2>3. ~ (y < x)
    BY <1>1, <2>2
  <2> QED BY <2>1, <2>3, SMT
<1> QED BY <1>2

\* A function from a finite non-empty set to the natural numbers takes a largest
\* value.
LEMMA LargestValue ==
    ASSUME NEW S, IsFiniteSet(S), S # {}, NEW f \in [S -> Nat]
    PROVE  \E a \in S : \A b \in S : f[b] <= f[a]
<1> DEFINE Has(A) == \E a \in A : \A b \in A : f[b] <= f[a]
           Bad == {A \in SUBSET S : A # {} /\ ~ Has(A)}
           T == {n \in Nat : \E A \in Bad : n = Cardinality(A)}
<1>1. \A A \in SUBSET S : IsFiniteSet(A) /\ Cardinality(A) \in Nat
  BY FS_Subset, FS_CardinalityType
<1>2. SUFFICES ASSUME Bad # {} PROVE FALSE
  <2>1. S \in SUBSET S
    OBVIOUS
  <2>2. S \notin Bad
    BY <1>2
  <2> QED BY <2>1, <2>2, Zenon
<1>3. T \subseteq Nat /\ T # {}
  <2> HIDE DEF Bad
  <2>1. \A A \in Bad : A \in SUBSET S
    BY DEF Bad
  <2> QED BY <1>1, <1>2, <2>1
<1>4. PICK n \in T : \A m \in T : n <= m
  <2> HIDE DEF T
  <2> QED BY <1>3, LeastElement
<1>5. PICK A \in Bad : n = Cardinality(A)
  BY <1>4
<1>6. PICK x \in A : TRUE
  OBVIOUS
<1> DEFINE B == A \ {x}
<1>7. B \in SUBSET S /\ Cardinality(B) = n - 1 /\ Cardinality(B) \in Nat /\ n \in Nat
  BY <1>1, <1>5, <1>6, FS_RemoveElement
<1>8. B \notin Bad
  <2>1. SUFFICES ASSUME B \in Bad PROVE FALSE
    OBVIOUS
  <2>2. Cardinality(B) \in T
    BY <1>7, <2>1
  <2>3. n <= n - 1
    BY <1>4, <1>7, <2>2
  <2> QED BY <1>7, <2>3, SMT
<1>9. \A a \in A : f[a] \in Nat
  OBVIOUS
<1>10. CASE B = {}
  <2>1. A = {x}
    BY <1>6, <1>10
  <2>2. f[x] <= f[x]
    BY <1>6, <1>9
  <2>3. Has(A)
    BY <2>1, <2>2
  <2> QED BY <2>3
<1>11. CASE B # {}
  <2>1. PICK a \in B : \A b \in B : f[b] <= f[a]
    BY <1>7, <1>8, <1>11
  <2>2. f[a] \in Nat /\ f[x] \in Nat /\ \A b \in B : f[b] \in Nat
    BY <1>6, <1>9, <2>1
  <2>3. \A b \in A : b = x \/ b \in B
    OBVIOUS
  <2>4. CASE f[x] <= f[a]
    <3>1. a \in A /\ \A b \in A : f[b] <= f[a]
      BY <2>1, <2>3, <2>4
    <3> QED BY <3>1
  <2>5. CASE f[a] <= f[x]
    <3>1. \A b \in B : f[b] <= f[x]
      BY <2>1, <2>2, <2>5, SMT
    <3>2. \A b \in A : f[b] <= f[x]
      BY <2>2, <2>3, <3>1, SMT
    <3> QED BY <1>6, <3>2
  <2>6. f[x] <= f[a] \/ f[a] <= f[x]
    BY <2>2, SMT
  <2> QED BY <2>4, <2>5, <2>6
<1> QED BY <1>10, <1>11

\* Max of a finite non-empty set of natural numbers is its largest element.
LEMMA MaxOfFinite ==
    ASSUME NEW S, IsFiniteSet(S), S # {}, S \subseteq Nat
    PROVE  Max(S) \in S /\ \A y \in S : y <= Max(S)
<1> DEFINE f == [x \in S |-> x]
<1>1. f \in [S -> Nat]
  OBVIOUS
<1>2. PICK a \in S : \A b \in S : f[b] <= f[a]
  BY <1>1, LargestValue, Zenon
<1>3. \A b \in S : a >= b
  BY <1>2
<1>4. Max(S) \in S /\ \A y \in S : Max(S) >= y
  BY <1>3, Zenon DEF Max
<1> QED BY <1>4

\* Max of a non-empty set of natural numbers up to n is its largest element.
LEMMA MaxOfBounded ==
    ASSUME NEW n \in Nat, NEW S, S # {}, S \subseteq 0..n
    PROVE  Max(S) \in S /\ \A y \in S : y <= Max(S)
<1>1. IsFiniteSet(S)
  <2>1. IsFiniteSet(0..n)
    BY FS_Interval
  <2>2. S \in SUBSET (0..n)
    OBVIOUS
  <2> QED BY <2>1, <2>2, FS_Subset, Zenon
<1>2. S \subseteq Nat
  OBVIOUS
<1> QED BY <1>1, <1>2, MaxOfFinite

--------------------------------------------------------------------------------
(* Induction over a set of naturals and over the subsets of a finite set      *)

\* What holds of zero and of the successor of any number it holds of, holds of all.
LEMMA AllNaturals ==
    ASSUME NEW Good, 0 \in Good, \A n \in Nat : n \in Good => n + 1 \in Good
    PROVE  Nat \subseteq Good
<1> DEFINE Bad == {n \in Nat : n \notin Good}
<1>1. SUFFICES ASSUME Bad # {} PROVE FALSE
  OBVIOUS
<1>2. PICK n \in Bad : \A m \in Bad : n <= m
  <2>1. Bad \subseteq Nat
    OBVIOUS
  <2> HIDE DEF Bad
  <2> QED BY <1>1, <2>1, LeastElement
<1>3. n \in Nat /\ n # 0
  OBVIOUS
<1>4. n - 1 \in Nat /\ ~ (n <= n - 1)
  BY <1>3
<1>5. n - 1 \in Good
  BY <1>2, <1>4
<1>6. (n - 1) + 1 = n
  BY <1>3
<1> QED BY <1>4, <1>5, <1>6

\* What holds of the empty set, and of a set with one more element than one it holds
\* of, holds of every subset of a finite set.
LEMMA AllSubsets ==
    ASSUME NEW S, IsFiniteSet(S), NEW Good, {} \in Good,
           \A T \in SUBSET S : \A x \in S \ T : T \in Good => T \cup {x} \in Good
    PROVE  S \in Good
<1> DEFINE Of(n) == \A T \in SUBSET S : Cardinality(T) = n => T \in Good
           Done == {n \in Nat : Of(n)}
<1>1. \A T \in SUBSET S : IsFiniteSet(T) /\ Cardinality(T) \in Nat
  BY FS_Subset, FS_CardinalityType
<1>2. 0 \in Done
  <2>1. \A T \in SUBSET S : Cardinality(T) = 0 => T = {}
    BY <1>1, FS_EmptySet
  <2> QED BY <2>1
<1>3. ASSUME NEW n \in Nat, n \in Done PROVE n + 1 \in Done
  <2>1. SUFFICES ASSUME NEW T \in SUBSET S, Cardinality(T) = n + 1 PROVE T \in Good
    OBVIOUS
  <2>2. T # {}
    <3>1. Cardinality({}) = 0
      BY FS_EmptySet
    <3> QED BY <2>1, <3>1
  <2>3. PICK x \in T : TRUE
    BY <2>2
  <2>4. PICK U : U = T \ {x}
    OBVIOUS
  <2>5. Cardinality(U) = n
    <3>1. Cardinality(T \ {x}) = Cardinality(T) - 1
      BY <1>1, <2>3, FS_RemoveElement
    <3> QED BY <2>1, <2>4, <3>1
  <2>6. U \in Good /\ U \in SUBSET S /\ x \in S \ U /\ T = U \cup {x}
    BY <1>3, <2>4, <2>5
  <2> QED BY <2>6
<1>4. Nat \subseteq Done
  <2> HIDE DEF Done
  <2> QED BY <1>2, <1>3, AllNaturals
<1>5. S \in SUBSET S
  OBVIOUS
<1> QED BY <1>1, <1>4, <1>5

--------------------------------------------------------------------------------
(* Sums of the values of a function over a finite set                         *)

\* f sums the values of g over every subset of S with at most n elements
SumsUpTo(f, g, S, n) ==
    f = [s \in {t \in SUBSET S : Cardinality(t) <= n} |->
            IF s = {} THEN 0 ELSE g[CHOOSE x \in s : TRUE] + f[s \ {CHOOSE x \in s : TRUE}]]

\* f is what the sum over S is defined with
SumsOver(f, g, S) ==
    f = [s \in SUBSET S |->
            IF s = {} THEN 0 ELSE g[CHOOSE x \in s : TRUE] + f[s \ {CHOOSE x \in s : TRUE}]]

\* A set without one of its elements is a smaller subset.
LEMMA WithoutOne ==
    ASSUME NEW S, IsFiniteSet(S), NEW s \in SUBSET S, NEW x \in s
    PROVE  /\ s \ {x} \in SUBSET S
           /\ Cardinality(s) \in Nat /\ Cardinality(s \ {x}) \in Nat
           /\ Cardinality(s) = Cardinality(s \ {x}) + 1
<1>1. IsFiniteSet(s)
  BY FS_Subset
<1>2. Cardinality(s) \in Nat /\ Cardinality(s \ {x}) = Cardinality(s) - 1 /\ IsFiniteSet(s \ {x})
  BY <1>1, FS_CardinalityType, FS_RemoveElement
<1>3. Cardinality(s \ {x}) \in Nat
  BY <1>2, FS_CardinalityType
<1> QED BY <1>2, <1>3

\* The function that defines a sum exists.
LEMMA SumsExist ==
    ASSUME NEW g, NEW S, IsFiniteSet(S)
    PROVE  \E f : SumsOver(f, g, S)
<1> DEFINE Done == {n \in Nat : \E f : SumsUpTo(f, g, S, n)}
           Small(n) == {t \in SUBSET S : Cardinality(t) <= n}
           First(s) == CHOOSE x \in s : TRUE
<1>1. 0 \in Done
  <2> DEFINE f == [s \in Small(0) |-> 0]
  <2>1. \A s \in Small(0) : s = {}
    <3>1. SUFFICES ASSUME NEW s \in SUBSET S, Cardinality(s) <= 0 PROVE s = {}
      OBVIOUS
    <3>2. IsFiniteSet(s) /\ Cardinality(s) \in Nat
      BY FS_Subset, FS_CardinalityType
    <3>3. Cardinality(s) = 0
      BY <3>1, <3>2
    <3> QED BY <3>2, <3>3, FS_EmptySet
  <2>2. SumsUpTo(f, g, S, 0)
    BY <2>1 DEF SumsUpTo
  <2> QED BY <2>2
<1>2. ASSUME NEW n \in Nat, n \in Done PROVE n + 1 \in Done
  <2>1. PICK f : SumsUpTo(f, g, S, n)
    BY <1>2
  <2> DEFINE h == [s \in Small(n + 1) |-> IF s = {} THEN 0 ELSE g[First(s)] + f[s \ {First(s)}]]
  <2>2. \A s \in Small(n) : /\ s \in Small(n + 1)
                            /\ f[s] = IF s = {} THEN 0 ELSE g[First(s)] + f[s \ {First(s)}]
    <3>1. ASSUME NEW s \in Small(n) PROVE s \in Small(n + 1)
      <4>1. Cardinality(s) \in Nat
        BY FS_Subset, FS_CardinalityType
      <4> QED BY <4>1
    <3> QED BY <2>1, <3>1 DEF SumsUpTo
  <2>3. \A s \in Small(n) : h[s] = f[s]
    BY <2>2
  <2>4. ASSUME NEW s \in Small(n + 1), s # {}
        PROVE  h[s] = g[First(s)] + h[s \ {First(s)}]
    <3>1. PICK x : x = First(s)
      OBVIOUS
    <3>2. s \ {x} \in Small(n)
      <4>1. x \in s
        BY <2>4, <3>1
      <4>2. /\ s \ {x} \in SUBSET S /\ Cardinality(s \ {x}) \in Nat
            /\ Cardinality(s) = Cardinality(s \ {x}) + 1
        BY <4>1, WithoutOne
      <4> QED BY <4>2
    <3>3. h[s \ {x}] = f[s \ {x}]
      BY <2>3, <3>2
    <3> QED BY <2>4, <3>1, <3>3
  <2>5. \A s \in Small(n + 1) :
            h[s] = IF s = {} THEN 0 ELSE g[First(s)] + h[s \ {First(s)}]
    BY <2>4
  <2>6. h = [s \in Small(n + 1) |-> h[s]]
    OBVIOUS
  <2>7. SumsUpTo(h, g, S, n + 1)
    <3> HIDE DEF h
    <3> QED BY <2>5, <2>6 DEF SumsUpTo
  <2> QED BY <2>7
<1>3. Cardinality(S) \in Nat /\ Nat \subseteq Done
  <2> HIDE DEF Done
  <2> QED BY <1>1, <1>2, AllNaturals, FS_CardinalityType
<1>4. PICK f : SumsUpTo(f, g, S, Cardinality(S))
  BY <1>3
<1>5. Small(Cardinality(S)) = SUBSET S
  BY FS_Subset
<1> QED BY <1>4, <1>5 DEF SumsUpTo, SumsOver

\* A sum is the value of such a function.
LEMMA SumIs ==
    ASSUME NEW g, NEW S, IsFiniteSet(S)
    PROVE  \E f : SumsOver(f, g, S) /\ SumFunctionOnSet(g, S) = f[S]
<1>1. PICK f : f = CHOOSE h : SumsOver(h, g, S)
  OBVIOUS
<1>2. SumsOver(f, g, S)
  BY <1>1, SumsExist
<1>3. SumFunctionOnSet(g, S) = f[S]
  BY <1>1 DEF SumsOver, SumFunctionOnSet, FoldFunctionOnSet, MapThenFoldSet
<1> QED BY <1>2, <1>3

\* The functions for two sets agree on what is a subset of both.
LEMMA SumsAgree ==
    ASSUME NEW g, NEW S, IsFiniteSet(S), NEW T \in SUBSET S, NEW f, SumsOver(f, g, S),
           NEW h, SumsOver(h, g, T)
    PROVE  f[T] = h[T]
<1> DEFINE Done == {n \in Nat : \A s \in SUBSET T : Cardinality(s) = n => f[s] = h[s]}
           First(s) == CHOOSE x \in s : TRUE
<1>1. IsFiniteSet(T) /\ \A s \in SUBSET T : IsFiniteSet(s) /\ Cardinality(s) \in Nat
  BY FS_Subset, FS_CardinalityType
<1>2. /\ \A s \in SUBSET T : h[s] = IF s = {} THEN 0 ELSE g[First(s)] + h[s \ {First(s)}]
      /\ \A s \in SUBSET S : f[s] = IF s = {} THEN 0 ELSE g[First(s)] + f[s \ {First(s)}]
  BY DEF SumsOver
<1>3. 0 \in Done
  <2>1. \A s \in SUBSET T : Cardinality(s) = 0 => s = {}
    BY <1>1, FS_EmptySet
  <2> QED BY <1>2, <2>1
<1>4. ASSUME NEW n \in Nat, n \in Done PROVE n + 1 \in Done
  <2>1. SUFFICES ASSUME NEW s \in SUBSET T, Cardinality(s) = n + 1 PROVE f[s] = h[s]
    OBVIOUS
  <2>2. s # {}
    <3>1. Cardinality({}) = 0
      BY FS_EmptySet
    <3> QED BY <2>1, <3>1
  <2>3. PICK x : x = First(s)
    OBVIOUS
  <2>4. s \ {x} \in SUBSET T /\ Cardinality(s \ {x}) = n
    <3>1. s \ {x} \in SUBSET T /\ Cardinality(s \ {x}) \in Nat
          /\ n + 1 = Cardinality(s \ {x}) + 1
      <4>1. x \in s
        BY <2>2, <2>3
      <4> QED BY <1>1, <2>1, <4>1, WithoutOne
    <3> QED BY <3>1
  <2>5. f[s \ {x}] = h[s \ {x}]
    BY <1>4, <2>4
  <2>6. h[s] = g[First(s)] + h[s \ {First(s)}]
    BY <1>2, <2>2
  <2>7. s \in SUBSET S
    OBVIOUS
  <2>8. f[s] = g[First(s)] + f[s \ {First(s)}]
    BY <1>2, <2>2, <2>7
  <2> HIDE DEF First
  <2> QED BY <2>3, <2>5, <2>6, <2>8
<1>5. Nat \subseteq Done
  <2> HIDE DEF Done
  <2> QED BY <1>3, <1>4, AllNaturals
<1> QED BY <1>1, <1>5

\* A sum is the value of the function at an element plus the sum over the rest, whichever
\* the element.
LEMMA SumTakesOut ==
    ASSUME NEW g, NEW S, IsFiniteSet(S), \A x \in S : g[x] \in Int
    PROVE  /\ SumFunctionOnSet(g, S) \in Int
           /\ \A y \in S : SumFunctionOnSet(g, S) = g[y] + SumFunctionOnSet(g, S \ {y})
<1> DEFINE Total(s) == SumFunctionOnSet(g, s)
           Goes(s) == Total(s) \in Int /\ \A y \in s : Total(s) = g[y] + Total(s \ {y})
           Done == {n \in Nat : \A s \in SUBSET S : Cardinality(s) <= n => Goes(s)}
<1>1. \A s \in SUBSET S : IsFiniteSet(s) /\ Cardinality(s) \in Nat
  BY FS_Subset, FS_CardinalityType
<1>2. ASSUME NEW s \in SUBSET S
      PROVE  /\ s = {} => Total(s) = 0
             /\ s # {} => \E x \in s : Total(s) = g[x] + Total(s \ {x})
  <2>1. IsFiniteSet(s)
    BY <1>1
  <2>2. PICK f : SumsOver(f, g, s) /\ Total(s) = f[s]
    BY <2>1, SumIs
  <2>3. s = {} => Total(s) = 0
    BY <2>2 DEF SumsOver
  <2>4. ASSUME s # {} PROVE \E x \in s : Total(s) = g[x] + Total(s \ {x})
    <3>1. PICK x \in s : f[s] = g[x] + f[s \ {x}]
      <4>1. s \in SUBSET s /\ (CHOOSE x \in s : TRUE) \in s
        BY <2>4
      <4>2. f[s] = g[CHOOSE x \in s : TRUE] + f[s \ {CHOOSE x \in s : TRUE}]
        BY <2>2, <2>4, <4>1 DEF SumsOver
      <4> QED BY <4>1, <4>2
    <3>2. PICK t : t = s \ {x}
      OBVIOUS
    <3>3. t \in SUBSET s /\ IsFiniteSet(t)
      <4>1. t \in SUBSET s /\ t \in SUBSET S
        BY <3>2
      <4> QED BY <1>1, <4>1
    <3>4. PICK h : SumsOver(h, g, t) /\ Total(t) = h[t]
      BY <3>3, SumIs
    <3>5. f[t] = h[t]
      BY <2>1, <2>2, <3>3, <3>4, SumsAgree
    <3> QED BY <2>2, <3>1, <3>2, <3>4, <3>5
  <2> QED BY <2>3, <2>4
<1> HIDE DEF Total
<1>3. 0 \in Done
  <2>1. ASSUME NEW s \in SUBSET S, Cardinality(s) <= 0 PROVE s = {}
    <3>1. IsFiniteSet(s) /\ Cardinality(s) = 0
      BY <1>1, <2>1
    <3> QED BY <3>1, FS_EmptySet
  <2> QED BY <1>2, <2>1
<1>4. ASSUME NEW n \in Nat, n \in Done PROVE n + 1 \in Done
  <2>1. SUFFICES ASSUME NEW s \in SUBSET S, Cardinality(s) <= n + 1, s # {} PROVE Goes(s)
    BY <1>2
  <2>3. PICK x \in s : Total(s) = g[x] + Total(s \ {x})
    BY <1>2, <2>1
  <2>4. \A y \in s : s \ {y} \in SUBSET S /\ Cardinality(s \ {y}) <= n
    <3>1. ASSUME NEW y \in s PROVE s \ {y} \in SUBSET S /\ Cardinality(s \ {y}) <= n
      <4>1. /\ s \ {y} \in SUBSET S /\ Cardinality(s \ {y}) \in Nat
            /\ Cardinality(s) = Cardinality(s \ {y}) + 1
        BY WithoutOne
      <4> QED BY <2>1, <4>1
    <3> QED BY <3>1
  <2>5. \A y \in s : Goes(s \ {y})
    BY <1>4, <2>4
  <2>6. \A y \in s : Total(s \ {y}) \in Int /\ g[y] \in Int
    BY <2>5
  <2>7. ASSUME NEW y \in s, y # x PROVE Total(s) = g[y] + Total(s \ {y})
    <3>1. (s \ {x}) \ {y} = (s \ {y}) \ {x}
      OBVIOUS
    <3>2. PICK t : t = (s \ {x}) \ {y}
      OBVIOUS
    <3>3. Total(s \ {x}) = g[y] + Total(t)
      BY <2>5, <2>7, <3>2
    <3>4. Total(s \ {y}) = g[x] + Total(t)
      BY <2>5, <2>7, <3>1, <3>2
    <3>5. Total(t) \in Int
      <4>1. t \in SUBSET S /\ y \in s \ {x} /\ s \ {x} \in SUBSET S
        BY <2>7, <3>2
      <4>2. Cardinality(t) \in Nat /\ Cardinality(s \ {x}) = Cardinality(t) + 1
        BY <3>2, <4>1, WithoutOne
      <4>3. Cardinality(t) <= n
        BY <2>4, <4>2
      <4> QED BY <1>4, <4>1, <4>3
    <3> QED BY <2>3, <2>6, <3>3, <3>4, <3>5
  <2> QED BY <2>3, <2>6, <2>7
<1>5. Nat \subseteq Done
  <2> HIDE DEF Done
  <2> QED BY <1>3, <1>4, AllNaturals
<1>6. Goes(S)
  BY <1>1, <1>5
<1> QED BY <1>6 DEF Total

\* The sum over nothing is zero, and an element more adds its value.
LEMMA SumOfNone ==
    ASSUME NEW g
    PROVE  SumFunctionOnSet(g, {}) = 0
<1>1. IsFiniteSet({}) /\ {} \in SUBSET {}
  BY FS_EmptySet
<1>2. PICK f : SumsOver(f, g, {}) /\ SumFunctionOnSet(g, {}) = f[{}]
  BY <1>1, SumIs
<1> QED BY <1>1, <1>2 DEF SumsOver

LEMMA SumAdds ==
    ASSUME NEW g, NEW S, IsFiniteSet(S), \A x \in S : g[x] \in Int,
           NEW T \in SUBSET S, NEW y \in S \ T
    PROVE  /\ SumFunctionOnSet(g, T) \in Int
           /\ SumFunctionOnSet(g, T \cup {y}) = SumFunctionOnSet(g, T) + g[y]
<1>1. PICK U : U = T \cup {y}
  OBVIOUS
<1>2. IsFiniteSet(U) /\ IsFiniteSet(T) /\ y \in U /\ U \ {y} = T
  BY <1>1, FS_Subset
<1>3. \A x \in U : g[x] \in Int
  BY <1>1
<1>4. SumFunctionOnSet(g, T) \in Int
  BY <1>2, SumTakesOut
<1>5. SumFunctionOnSet(g, U) = g[y] + SumFunctionOnSet(g, U \ {y})
  BY <1>2, <1>3, SumTakesOut
<1>6. SumFunctionOnSet(g, U) = g[y] + SumFunctionOnSet(g, T) /\ g[y] \in Int
  BY <1>2, <1>5
<1>7. SumFunctionOnSet(g, U) = SumFunctionOnSet(g, T) + g[y]
  BY <1>4, <1>6
<1> QED BY <1>1, <1>4, <1>7

\* The sum of the differences is the difference of the sums.
LEMMA SumOfDifferences ==
    ASSUME NEW S, IsFiniteSet(S), NEW d, NEW a, NEW b,
           \A x \in S : a[x] \in Int /\ b[x] \in Int /\ d[x] = a[x] - b[x]
    PROVE  SumFunctionOnSet(d, S) = SumFunctionOnSet(a, S) - SumFunctionOnSet(b, S)
<1> DEFINE Good == {T \in SUBSET S :
                        SumFunctionOnSet(d, T) = SumFunctionOnSet(a, T) - SumFunctionOnSet(b, T)}
<1>1. {} \in Good
  <2>1. /\ SumFunctionOnSet(d, {}) = 0 /\ SumFunctionOnSet(a, {}) = 0
        /\ SumFunctionOnSet(b, {}) = 0
    BY SumOfNone
  <2> QED BY <2>1
<1>2. ASSUME NEW T \in SUBSET S, NEW y \in S \ T, T \in Good PROVE T \cup {y} \in Good
  <2>1. \A x \in S : a[x] \in Int /\ b[x] \in Int /\ d[x] \in Int
    OBVIOUS
  <2>2. /\ SumFunctionOnSet(a, T) \in Int
        /\ SumFunctionOnSet(a, T \cup {y}) = SumFunctionOnSet(a, T) + a[y]
    BY <2>1, SumAdds
  <2>3. /\ SumFunctionOnSet(b, T) \in Int
        /\ SumFunctionOnSet(b, T \cup {y}) = SumFunctionOnSet(b, T) + b[y]
    BY <2>1, SumAdds
  <2>4. /\ SumFunctionOnSet(d, T) \in Int
        /\ SumFunctionOnSet(d, T \cup {y}) = SumFunctionOnSet(d, T) + d[y]
    BY <2>1, SumAdds
  <2>5. T \cup {y} \in SUBSET S /\ a[y] \in Int /\ b[y] \in Int /\ d[y] = a[y] - b[y]
        /\ SumFunctionOnSet(d, T) = SumFunctionOnSet(a, T) - SumFunctionOnSet(b, T)
    BY <1>2
  <2>6. SumFunctionOnSet(d, T \cup {y})
            = SumFunctionOnSet(a, T \cup {y}) - SumFunctionOnSet(b, T \cup {y})
    BY <2>2, <2>3, <2>4, <2>5
  <2> QED BY <2>5, <2>6
<1>3. S \in Good
  <2> HIDE DEF Good
  <2> QED BY <1>1, <1>2, AllSubsets
<1> QED BY <1>3

\* A sum of larger values is larger.
LEMMA SumIsMonotone ==
    ASSUME NEW S, IsFiniteSet(S), NEW a, NEW b,
           \A x \in S : a[x] \in Int /\ b[x] \in Int /\ a[x] <= b[x]
    PROVE  SumFunctionOnSet(a, S) <= SumFunctionOnSet(b, S)
<1> DEFINE Good == {T \in SUBSET S : SumFunctionOnSet(a, T) <= SumFunctionOnSet(b, T)}
<1>1. {} \in Good
  <2>1. SumFunctionOnSet(a, {}) = 0 /\ SumFunctionOnSet(b, {}) = 0
    BY SumOfNone
  <2> QED BY <2>1
<1>2. ASSUME NEW T \in SUBSET S, NEW y \in S \ T, T \in Good PROVE T \cup {y} \in Good
  <2>1. /\ SumFunctionOnSet(a, T) \in Int
        /\ SumFunctionOnSet(a, T \cup {y}) = SumFunctionOnSet(a, T) + a[y]
    BY SumAdds
  <2>2. /\ SumFunctionOnSet(b, T) \in Int
        /\ SumFunctionOnSet(b, T \cup {y}) = SumFunctionOnSet(b, T) + b[y]
    BY SumAdds
  <2>3. T \cup {y} \in SUBSET S /\ a[y] \in Int /\ b[y] \in Int /\ a[y] <= b[y]
        /\ SumFunctionOnSet(a, T) <= SumFunctionOnSet(b, T)
    BY <1>2
  <2>4. SumFunctionOnSet(a, T \cup {y}) <= SumFunctionOnSet(b, T \cup {y})
    BY <2>1, <2>2, <2>3
  <2> QED BY <2>3, <2>4
<1>3. S \in Good
  <2> HIDE DEF Good
  <2> QED BY <1>1, <1>2, AllSubsets
<1> QED BY <1>3

\* Equal values have equal sums.
LEMMA SumOfEqual ==
    ASSUME NEW S, IsFiniteSet(S), NEW a, NEW b, \A x \in S : a[x] \in Int /\ b[x] = a[x]
    PROVE  SumFunctionOnSet(a, S) = SumFunctionOnSet(b, S)
<1>1. \A x \in S : /\ a[x] \in Int /\ b[x] \in Int
                   /\ a[x] <= b[x] /\ b[x] <= a[x]
  OBVIOUS
<1>2. SumFunctionOnSet(a, S) \in Int /\ SumFunctionOnSet(b, S) \in Int
  BY <1>1, SumTakesOut
<1>3. SumFunctionOnSet(a, S) <= SumFunctionOnSet(b, S)
  BY <1>1, SumIsMonotone
<1>4. SumFunctionOnSet(b, S) <= SumFunctionOnSet(a, S)
  BY <1>1, SumIsMonotone
<1> QED BY <1>2, <1>3, <1>4

\* Zeros add nothing to a sum.
LEMMA SumOfZeros ==
    ASSUME NEW S, IsFiniteSet(S), NEW a, NEW T \in SUBSET S,
           \A x \in S : a[x] \in Int /\ (x \notin T => a[x] = 0)
    PROVE  SumFunctionOnSet(a, S) = SumFunctionOnSet(a, T)
<1> DEFINE Good == {U \in SUBSET S : SumFunctionOnSet(a, U) = SumFunctionOnSet(a, U \cap T)}
<1>1. {} \in Good
  OBVIOUS
<1>2. ASSUME NEW U \in SUBSET S, NEW y \in S \ U, U \in Good PROVE U \cup {y} \in Good
  <2>1. /\ SumFunctionOnSet(a, U) \in Int
        /\ SumFunctionOnSet(a, U \cup {y}) = SumFunctionOnSet(a, U) + a[y]
    BY SumAdds
  <2>2. PICK V : V = U \cap T
    OBVIOUS
  <2>3. V \in SUBSET S /\ y \in S \ V /\ U \cup {y} \in SUBSET S
        /\ SumFunctionOnSet(a, U) = SumFunctionOnSet(a, V)
    BY <1>2, <2>2
  <2>4. CASE y \in T
    <3>1. SumFunctionOnSet(a, V \cup {y}) = SumFunctionOnSet(a, V) + a[y]
      <4> HIDE DEF Good
      <4> QED BY <2>3, SumAdds
    <3>2. (U \cup {y}) \cap T = V \cup {y}
      BY <2>2, <2>4
    <3> QED BY <2>1, <2>3, <3>1, <3>2
  <2>5. CASE y \notin T
    <3>1. a[y] = 0 /\ (U \cup {y}) \cap T = V
      BY <2>2, <2>5
    <3>2. SumFunctionOnSet(a, U \cup {y}) = SumFunctionOnSet(a, V)
      BY <2>1, <2>3, <3>1
    <3> QED BY <2>3, <3>1, <3>2
  <2> QED BY <2>4, <2>5
<1>3. S \in Good
  <2> HIDE DEF Good
  <2> QED BY <1>1, <1>2, AllSubsets
<1>4. S \cap T = T
  OBVIOUS
<1> QED BY <1>3, <1>4

\* Values that are named otherwise have the same sum.
LEMMA SumIsRenamed ==
    ASSUME NEW S, IsFiniteSet(S), NEW T, NEW h \in Surjection(S, T), NEW a, NEW b,
           \A x \in S : a[x] \in Int /\ b[h[x]] = a[x],
           \A x, y \in S : h[x] = h[y] => x = y
    PROVE  IsFiniteSet(T) /\ SumFunctionOnSet(b, T) = SumFunctionOnSet(a, S)
<1> DEFINE Image(U) == {h[x] : x \in U}
           Good == {U \in SUBSET S : SumFunctionOnSet(b, Image(U)) = SumFunctionOnSet(a, U)}
<1>1. IsFiniteSet(Image(S))
  <2>1. h \in Surjection(S, Image(S))
    BY DEF Surjection
  <2> HIDE DEF Image
  <2> QED BY <2>1, FS_Surjection
<1>2. \A z \in Image(S) : b[z] \in Int
  OBVIOUS
<1>3. {} \in Good
  <2>1. Image({}) = {}
    OBVIOUS
  <2>2. SumFunctionOnSet(b, {}) = 0 /\ SumFunctionOnSet(a, {}) = 0
    BY SumOfNone
  <2> QED BY <2>1, <2>2
<1>4. ASSUME NEW U \in SUBSET S, NEW y \in S \ U, U \in Good PROVE U \cup {y} \in Good
  <2>1. /\ SumFunctionOnSet(a, U) \in Int
        /\ SumFunctionOnSet(a, U \cup {y}) = SumFunctionOnSet(a, U) + a[y]
    <3>1. \A x \in S : a[x] \in Int
      OBVIOUS
    <3>2. U \in SUBSET S /\ y \in S \ U
      OBVIOUS
    <3> HIDE DEF Good, Image
    <3> QED BY <3>1, <3>2, SumAdds
  <2>2. PICK z : z = h[y]
    OBVIOUS
  <2>3. Image(U) \in SUBSET Image(S) /\ z \in Image(S) \ Image(U) /\ b[z] = a[y]
    BY <2>2
  <2>4. Image(U \cup {y}) = Image(U) \cup {z}
    BY <2>2
  <2>5. SumFunctionOnSet(b, Image(U)) = SumFunctionOnSet(a, U) /\ U \cup {y} \in SUBSET S
    BY <1>4
  <2>6. SumFunctionOnSet(b, Image(U \cup {y})) = SumFunctionOnSet(a, U \cup {y})
    <3> HIDE DEF Image
    <3>1. SumFunctionOnSet(b, Image(U) \cup {z}) = SumFunctionOnSet(b, Image(U)) + b[z]
      BY <1>1, <1>2, <2>3, SumAdds
    <3> QED BY <2>1, <2>3, <2>4, <2>5, <3>1
  <2> QED BY <2>5, <2>6
<1>5. S \in Good
  <2> HIDE DEF Good
  <2> QED BY <1>3, <1>4, AllSubsets
<1>6. Image(S) = T
  BY DEF Surjection
<1> QED BY <1>1, <1>5, <1>6
==============================================================================
