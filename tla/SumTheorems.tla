----------------------------- MODULE SumTheorems -----------------------------
(***************************************************************************)
(* Facts about finite sums and about the greatest and least element of a   *)
(* finite set of integers.  Induction over finite sets is used in the form *)
(* "a non-empty family of subsets of a finite set has a minimal member".   *)
(***************************************************************************)
EXTENDS FiniteSetsExt, FiniteSetTheorems, WellFoundedInduction, TLAPS

HasMinimal(F) == \E T \in F : \A U \in F : U \subseteq T => U = T

(* Induction: a non-empty family of subsets of a finite set has a minimal member. *)
LEMMA MinimalSubset ==
  ASSUME NEW S, IsFiniteSet(S), NEW Bad \in SUBSET (SUBSET S), Bad # {}
  PROVE  HasMinimal(Bad)
<1>1. IsWellFoundedOn(StrictSubsetOrdering(S), SUBSET S)
  BY FS_StrictSubsetOrderingWellFounded, FS_FiniteSubsetsOfFinite
<1>2. PICK T \in Bad : \A U \in Bad : ~ (<<U, T>> \in StrictSubsetOrdering(S))
  BY <1>1, WFMin
<1>3. QED
  BY <1>2 DEF StrictSubsetOrdering, HasMinimal

(* A non-empty finite set of integers has a least and a greatest element. *)
LEMMA MinInt ==
  ASSUME NEW S, IsFiniteSet(S), S \subseteq Int, S # {}
  PROVE  /\ Min(S) \in S
         /\ \A y \in S : Min(S) <= y
<1> DEFINE HasMin(T) == \E x \in T : \A y \in T : x <= y
           Bad == {T \in SUBSET S : T # {} /\ ~ HasMin(T)}
<1>1. Bad = {}
  <2> SUFFICES ASSUME Bad # {} PROVE FALSE
    OBVIOUS
  <2>1. PICK T \in Bad : \A U \in Bad : U \subseteq T => U = T
    <3>1. Bad \in SUBSET (SUBSET S) /\ Bad # {}
      OBVIOUS
    <3> HIDE DEF Bad
    <3>2. HasMinimal(Bad)
      BY <3>1, MinimalSubset
    <3> QED BY <3>2 DEF HasMinimal
  <2>2. PICK x \in T : TRUE
    BY <2>1
  <2>3. T \ {x} \notin Bad
    BY <2>1, <2>2
  <2>4. T \ {x} # {}
    <3> SUFFICES ASSUME T = {x} PROVE FALSE
      BY <2>2
    <3> QED BY <2>1
  <2>5. PICK m \in T \ {x} : \A y \in T \ {x} : m <= y
    BY <2>1, <2>3, <2>4
  <2>6. m \in Int /\ x \in Int /\ T \subseteq Int
    BY <2>1, <2>2, <2>5
  <2>7. CASE m <= x
    BY <2>1, <2>5, <2>6, <2>7
  <2>8. CASE x <= m
    <3>1. \A y \in T : x <= y
      BY <2>5, <2>6, <2>8
    <3> QED BY <3>1, <2>1, <2>2
  <2> QED BY <2>6, <2>7, <2>8
<1>2. HasMin(S)
  BY <1>1
<1> QED BY <1>2 DEF Min

(* A finite non-empty set of integers has a maximum. *)
LEMMA MaxInt ==
  ASSUME NEW S, IsFiniteSet(S), S \subseteq Int, S # {}
  PROVE  /\ Max(S) \in S
         /\ \A y \in S : Max(S) >= y
<1> DEFINE HasMax(T) == \E x \in T : \A y \in T : x >= y
           Bad == {T \in SUBSET S : T # {} /\ ~ HasMax(T)}
<1>1. Bad = {}
  <2> SUFFICES ASSUME Bad # {} PROVE FALSE
    OBVIOUS
  <2>1. PICK T \in Bad : \A U \in Bad : U \subseteq T => U = T
    <3>1. Bad \in SUBSET (SUBSET S) /\ Bad # {}
      OBVIOUS
    <3> HIDE DEF Bad
    <3>2. HasMinimal(Bad)
      BY <3>1, MinimalSubset
    <3> QED BY <3>2 DEF HasMinimal
  <2>2. PICK x \in T : TRUE
    BY <2>1
  <2>3. T \ {x} \notin Bad
    BY <2>1, <2>2
  <2>4. T \ {x} # {}
    <3> SUFFICES ASSUME T = {x} PROVE FALSE
      BY <2>2
    <3> QED BY <2>1
  <2>5. PICK m \in T \ {x} : \A y \in T \ {x} : m >= y
    BY <2>1, <2>3, <2>4
  <2>6. m \in Int /\ x \in Int /\ T \subseteq Int
    BY <2>1, <2>2, <2>5
  <2>7. CASE m >= x
    BY <2>1, <2>5, <2>6, <2>7
  <2>8. CASE x >= m
    <3>1. \A y \in T : x >= y
      BY <2>5, <2>6, <2>8
    <3> QED BY <3>1, <2>1, <2>2
  <2> QED BY <2>6, <2>7, <2>8
<1>2. HasMax(S)
  BY <1>1
<1> QED BY <1>2 DEF Max
-----------------------------------------------------------------------------
(* The sum of f over S, as SumFunctionOnSet computes it: element by element. *)
AnyOf(s) == CHOOSE x \in s : TRUE
Iterates(f, S, it) ==
  it = [s \in SUBSET S |-> IF s = {} THEN 0 ELSE f[AnyOf(s)] + it[s \ {AnyOf(s)}]]

(* Chosen members are members. *)
LEMMA AnyIn == ASSUME NEW s, s # {} PROVE AnyOf(s) \in s
BY DEF AnyOf

(* The sum as the recursive function it chooses. *)
LEMMA SumUnfold ==
  ASSUME NEW f, NEW S
  PROVE  SumFunctionOnSet(f, S) = (CHOOSE it : Iterates(f, S, it))[S]
BY DEF SumFunctionOnSet, FoldFunctionOnSet, MapThenFoldSet, Iterates, AnyOf

(* Iterations over two sets agree on the subsets of both. *)
LEMMA IteratesAgree ==
  ASSUME NEW f, NEW A, NEW B, IsFiniteSet(A), NEW a, NEW b,
         Iterates(f, A, a), Iterates(f, B, b), NEW r \in SUBSET A, r \in SUBSET B
  PROVE  a[r] = b[r]
<1> DEFINE Bad == {s \in SUBSET A : s \subseteq B /\ a[s] # b[s]}
<1> SUFFICES ASSUME Bad # {} PROVE FALSE
  OBVIOUS
<1>1. PICK s \in Bad : \A u \in Bad : u \subseteq s => u = s
  <2>1. Bad \in SUBSET (SUBSET A) /\ Bad # {}
    OBVIOUS
  <2> HIDE DEF Bad
  <2>2. HasMinimal(Bad)
    BY <2>1, MinimalSubset
  <2> QED BY <2>2 DEF HasMinimal
<1>2. s # {}
  BY <1>1 DEF Iterates
<1>3. AnyOf(s) \in s
  BY <1>2, AnyIn
<1>4. a[s \ {AnyOf(s)}] = b[s \ {AnyOf(s)}]
  BY <1>1, <1>3
<1>5. a[s] = f[AnyOf(s)] + a[s \ {AnyOf(s)}] /\ b[s] = f[AnyOf(s)] + b[s \ {AnyOf(s)}]
  BY <1>1, <1>2 DEF Iterates
<1> QED BY <1>1, <1>4, <1>5

(* The iteration is defined for every finite set. *)
LEMMA IteratesExists ==
  ASSUME NEW f, NEW S, IsFiniteSet(S)
  PROVE  \E it : Iterates(f, S, it)
<1> DEFINE Bad == {T \in SUBSET S : ~ \E it : Iterates(f, T, it)}
<1> SUFFICES ASSUME Bad # {} PROVE FALSE
  OBVIOUS
<1>1. PICK T \in Bad : \A U \in Bad : U \subseteq T => U = T
  <2>1. Bad \in SUBSET (SUBSET S) /\ Bad # {}
    OBVIOUS
  <2> HIDE DEF Bad
  <2>2. HasMinimal(Bad)
    BY <2>1, MinimalSubset
  <2> QED BY <2>2 DEF HasMinimal
<1> DEFINE F(U) == CHOOSE it : Iterates(f, U, it)
<1>2. \A U \in SUBSET T : U # T => Iterates(f, U, F(U))
  BY <1>1
<1> DEFINE value(s) == f[AnyOf(s)] + F(s \ {AnyOf(s)})[s \ {AnyOf(s)}]
           g == [s \in SUBSET T |-> IF s = {} THEN 0 ELSE value(s)]
<1>3. ASSUME NEW s \in SUBSET T, s # {}
      PROVE  g[s \ {AnyOf(s)}] = F(s \ {AnyOf(s)})[s \ {AnyOf(s)}]
  <2> DEFINE r == s \ {AnyOf(s)}
  <2>1. AnyOf(s) \in s /\ r \in SUBSET T /\ r # T
    BY <1>3, AnyIn
  <2>2. Iterates(f, r, F(r))
    BY <2>1, <1>2
  <2> HIDE DEF F
  <2>3. CASE r = {}
    BY <2>1, <2>2, <2>3 DEF Iterates
  <2>4. CASE r # {}
    <3> DEFINE q == r \ {AnyOf(r)}
    <3>1. AnyOf(r) \in r /\ q \in SUBSET T /\ q # T /\ q \in SUBSET r
      BY <2>1, <2>4, AnyIn
    <3>2. Iterates(f, q, F(q))
      BY <3>1, <1>2 DEF F
    <3>3. IsFiniteSet(r)
      BY <1>1, <2>1, FS_Subset
    <3>4. F(r)[q] = F(q)[q]
      <4> HIDE DEF q, r
      <4> QED BY <2>2, <3>1, <3>2, <3>3, IteratesAgree
    <3>5. F(r)[r] = f[AnyOf(r)] + F(r)[q]
      BY <2>2, <2>4 DEF Iterates
    <3>6. g[r] = f[AnyOf(r)] + F(q)[q]
      BY <2>1, <2>4
    <3> QED BY <3>4, <3>5, <3>6
  <2> QED BY <2>3, <2>4
<1>4. g = [s \in SUBSET T |-> IF s = {} THEN 0 ELSE f[AnyOf(s)] + g[s \ {AnyOf(s)}]]
  <2> HIDE DEF F
  <2>1. ASSUME NEW s \in SUBSET T, s # {} PROVE value(s) = f[AnyOf(s)] + g[s \ {AnyOf(s)}]
    BY <2>1, <1>3
  <2> QED BY <2>1
<1> HIDE DEF g
<1> QED BY <1>1, <1>4 DEF Iterates

(* That function sums every subset as the sum over the subset does. *)
LEMMA SumIterates ==
  ASSUME NEW f, NEW S, IsFiniteSet(S), NEW T \in SUBSET S, NEW it, Iterates(f, S, it)
  PROVE  SumFunctionOnSet(f, T) = it[T]
<1> DEFINE c == CHOOSE k : Iterates(f, T, k)
<1>1. IsFiniteSet(T)
  BY FS_Subset
<1>2. Iterates(f, T, c)
  BY <1>1, IteratesExists
<1>3. SumFunctionOnSet(f, T) = c[T]
  BY SumUnfold
<1> HIDE DEF c
<1>4. c[T] = it[T]
  BY <1>1, <1>2, IteratesAgree
<1> QED BY <1>3, <1>4
-----------------------------------------------------------------------------
(* The facts about sums the proofs use. *)
LEMMA SumEmpty == ASSUME NEW f PROVE SumFunctionOnSet(f, {}) = 0
<1>1. PICK it : Iterates(f, {}, it)
  BY FS_EmptySet, IteratesExists
<1>2. it[{}] = 0
  BY <1>1 DEF Iterates
<1> QED BY <1>1, <1>2, FS_EmptySet, SumIterates

(* A sum is its chosen member plus the rest. *)
LEMMA SumAny ==
  ASSUME NEW f, NEW S, IsFiniteSet(S), S # {}
  PROVE  /\ AnyOf(S) \in S
         /\ SumFunctionOnSet(f, S) = f[AnyOf(S)] + SumFunctionOnSet(f, S \ {AnyOf(S)})
<1>1. PICK it : Iterates(f, S, it)
  BY IteratesExists
<1>2. it[S] = f[AnyOf(S)] + it[S \ {AnyOf(S)}]
  BY <1>1 DEF Iterates
<1>3. SumFunctionOnSet(f, S) = it[S] /\ SumFunctionOnSet(f, S \ {AnyOf(S)}) = it[S \ {AnyOf(S)}]
  BY <1>1, SumIterates
<1> QED BY <1>2, <1>3, AnyIn

(* The sum of integers is an integer. *)
LEMMA SumInt ==
  ASSUME NEW f, NEW S, IsFiniteSet(S), \A x \in S : f[x] \in Int
  PROVE  SumFunctionOnSet(f, S) \in Int
<1> DEFINE Bad == {T \in SUBSET S : SumFunctionOnSet(f, T) \notin Int}
<1> SUFFICES ASSUME Bad # {} PROVE FALSE
  OBVIOUS
<1>1. PICK T \in Bad : \A U \in Bad : U \subseteq T => U = T
  <2>1. Bad \in SUBSET (SUBSET S) /\ Bad # {}
    OBVIOUS
  <2> HIDE DEF Bad
  <2>2. HasMinimal(Bad)
    BY <2>1, MinimalSubset
  <2> QED BY <2>2 DEF HasMinimal
<1>2. T # {}
  <2> SUFFICES ASSUME T = {} PROVE FALSE
    OBVIOUS
  <2>1. SumFunctionOnSet(f, T) = 0
    BY SumEmpty
  <2> QED BY <1>1, <2>1
<1>3. IsFiniteSet(T)
  BY <1>1, FS_Subset
<1>4. AnyOf(T) \in T /\ SumFunctionOnSet(f, T) = f[AnyOf(T)] + SumFunctionOnSet(f, T \ {AnyOf(T)})
  BY <1>2, <1>3, SumAny
<1>5. SumFunctionOnSet(f, T \ {AnyOf(T)}) \in Int
  BY <1>1, <1>4
<1> QED BY <1>1, <1>4, <1>5

(* The order does not matter: any element may be added last. *)
LEMMA SumRemove ==
  ASSUME NEW f, NEW S, IsFiniteSet(S), \A x \in S : f[x] \in Int, NEW y \in S
  PROVE  SumFunctionOnSet(f, S) = f[y] + SumFunctionOnSet(f, S \ {y})
<1> DEFINE Good(T) == \A x \in T : SumFunctionOnSet(f, T) = f[x] + SumFunctionOnSet(f, T \ {x})
           Bad == {T \in SUBSET S : ~ Good(T)}
<1> SUFFICES ASSUME Bad # {} PROVE FALSE
  OBVIOUS
<1>1. PICK T \in Bad : \A U \in Bad : U \subseteq T => U = T
  <2>1. Bad \in SUBSET (SUBSET S) /\ Bad # {}
    OBVIOUS
  <2> HIDE DEF Bad
  <2>2. HasMinimal(Bad)
    BY <2>1, MinimalSubset
  <2> QED BY <2>2 DEF HasMinimal
<1>2. PICK x \in T : SumFunctionOnSet(f, T) # f[x] + SumFunctionOnSet(f, T \ {x})
  BY <1>1
<1> DEFINE a == AnyOf(T)
<1>3. IsFiniteSet(T) /\ IsFiniteSet(T \ {a}) /\ IsFiniteSet((T \ {a}) \ {x})
  BY <1>1, FS_Subset
<1>4. a \in T /\ SumFunctionOnSet(f, T) = f[a] + SumFunctionOnSet(f, T \ {a})
  BY <1>2, <1>3, SumAny
<1>5. a # x
  BY <1>2, <1>4
<1>6. SumFunctionOnSet(f, T \ {a}) = f[x] + SumFunctionOnSet(f, (T \ {a}) \ {x})
  <2>1. T \ {a} \notin Bad
    BY <1>1, <1>4
  <2> QED BY <1>1, <1>2, <1>5, <2>1
<1>7. SumFunctionOnSet(f, T \ {x}) = f[a] + SumFunctionOnSet(f, (T \ {x}) \ {a})
  <2>1. T \ {x} \notin Bad
    BY <1>1, <1>2
  <2> QED BY <1>1, <1>4, <1>5, <2>1
<1>8. (T \ {a}) \ {x} = (T \ {x}) \ {a}
  OBVIOUS
<1>9. f[a] \in Int /\ f[x] \in Int /\ SumFunctionOnSet(f, (T \ {a}) \ {x}) \in Int
  <2>1. \A z \in (T \ {a}) \ {x} : f[z] \in Int
    BY <1>1
  <2> HIDE DEF a
  <2> QED BY <1>1, <1>2, <1>3, <1>4, <2>1, SumInt
<1> DEFINE rest == SumFunctionOnSet(f, (T \ {a}) \ {x})
<1>10. SumFunctionOnSet(f, T) = f[a] + (f[x] + rest) /\ SumFunctionOnSet(f, T \ {x}) = f[a] + rest
  BY <1>4, <1>6, <1>7, <1>8
<1> HIDE DEF a, rest, Bad
<1>11. f[a] + (f[x] + rest) = f[x] + (f[a] + rest)
  BY <1>9 DEF rest
<1> QED BY <1>2, <1>10, <1>11

(* Functions that agree on a set have the same sum over it. *)
LEMMA SumSame ==
  ASSUME NEW f, NEW g, NEW S, IsFiniteSet(S), \A x \in S : f[x] = g[x]
  PROVE  SumFunctionOnSet(f, S) = SumFunctionOnSet(g, S)
<1> DEFINE Bad == {T \in SUBSET S : SumFunctionOnSet(f, T) # SumFunctionOnSet(g, T)}
<1> SUFFICES ASSUME Bad # {} PROVE FALSE
  OBVIOUS
<1>1. PICK T \in Bad : \A U \in Bad : U \subseteq T => U = T
  <2>1. Bad \in SUBSET (SUBSET S) /\ Bad # {}
    OBVIOUS
  <2> HIDE DEF Bad
  <2>2. HasMinimal(Bad)
    BY <2>1, MinimalSubset
  <2> QED BY <2>2 DEF HasMinimal
<1>2. T # {}
  BY <1>1, SumEmpty
<1>3. IsFiniteSet(T)
  BY <1>1, FS_Subset
<1>4. /\ AnyOf(T) \in T
      /\ SumFunctionOnSet(f, T) = f[AnyOf(T)] + SumFunctionOnSet(f, T \ {AnyOf(T)})
      /\ SumFunctionOnSet(g, T) = g[AnyOf(T)] + SumFunctionOnSet(g, T \ {AnyOf(T)})
  BY <1>2, <1>3, SumAny
<1>5. SumFunctionOnSet(f, T \ {AnyOf(T)}) = SumFunctionOnSet(g, T \ {AnyOf(T)})
  BY <1>1, <1>4
<1> QED BY <1>1, <1>4, <1>5

(* The sum over two disjoint sets. *)
LEMMA SumUnion ==
  ASSUME NEW f, NEW A, NEW B, IsFiniteSet(A), IsFiniteSet(B), A \cap B = {},
         \A x \in A \union B : f[x] \in Int
  PROVE  SumFunctionOnSet(f, A \union B) = SumFunctionOnSet(f, A) + SumFunctionOnSet(f, B)
<1> DEFINE Bad == {T \in SUBSET A : SumFunctionOnSet(f, T \union B)
                                    # SumFunctionOnSet(f, T) + SumFunctionOnSet(f, B)}
<1> SUFFICES ASSUME Bad # {} PROVE FALSE
  OBVIOUS
<1>1. PICK T \in Bad : \A U \in Bad : U \subseteq T => U = T
  <2>1. Bad \in SUBSET (SUBSET A) /\ Bad # {}
    OBVIOUS
  <2> HIDE DEF Bad
  <2>2. HasMinimal(Bad)
    BY <2>1, MinimalSubset
  <2> QED BY <2>2 DEF HasMinimal
<1>2. SumFunctionOnSet(f, B) \in Int
  BY SumInt
<1>3. T # {}
  <2> SUFFICES ASSUME T = {} PROVE FALSE
    OBVIOUS
  <2>1. T \union B = B /\ SumFunctionOnSet(f, T) = 0
    BY SumEmpty
  <2> QED BY <1>1, <1>2, <2>1
<1>4. PICK x \in T : TRUE
  BY <1>3
<1>5. IsFiniteSet(T) /\ IsFiniteSet(T \union B) /\ IsFiniteSet(T \ {x})
  BY <1>1, FS_Subset, FS_Union
<1>6. (T \union B) \ {x} = (T \ {x}) \union B
  BY <1>1, <1>4
<1>7. SumFunctionOnSet(f, T \union B) = f[x] + SumFunctionOnSet(f, (T \ {x}) \union B)
  <2>1. \A z \in T \union B : f[z] \in Int
    BY <1>1
  <2> QED BY <1>4, <1>5, <1>6, <2>1, SumRemove
<1>8. SumFunctionOnSet(f, T) = f[x] + SumFunctionOnSet(f, T \ {x})
  <2>1. \A z \in T : f[z] \in Int
    BY <1>1
  <2> QED BY <1>4, <1>5, <2>1, SumRemove
<1>9. SumFunctionOnSet(f, (T \ {x}) \union B) = SumFunctionOnSet(f, T \ {x}) + SumFunctionOnSet(f, B)
  BY <1>1, <1>4
<1>10. f[x] \in Int /\ SumFunctionOnSet(f, T \ {x}) \in Int
  <2>1. \A z \in T \ {x} : f[z] \in Int
    BY <1>1
  <2> QED BY <1>1, <1>4, <1>5, <2>1, SumInt
<1> QED BY <1>1, <1>2, <1>7, <1>8, <1>9, <1>10

(* The sum of the negated values. *)
LEMMA SumNegated ==
  ASSUME NEW f, NEW g, NEW S, IsFiniteSet(S), \A x \in S : f[x] \in Int /\ g[x] = 0 - f[x]
  PROVE  SumFunctionOnSet(g, S) = 0 - SumFunctionOnSet(f, S)
<1> DEFINE Bad == {T \in SUBSET S : SumFunctionOnSet(g, T) # 0 - SumFunctionOnSet(f, T)}
<1> SUFFICES ASSUME Bad # {} PROVE FALSE
  OBVIOUS
<1>1. PICK T \in Bad : \A U \in Bad : U \subseteq T => U = T
  <2>1. Bad \in SUBSET (SUBSET S) /\ Bad # {}
    OBVIOUS
  <2> HIDE DEF Bad
  <2>2. HasMinimal(Bad)
    BY <2>1, MinimalSubset
  <2> QED BY <2>2 DEF HasMinimal
<1>2. T # {}
  <2> SUFFICES ASSUME T = {} PROVE FALSE
    OBVIOUS
  <2>1. SumFunctionOnSet(f, T) = 0 /\ SumFunctionOnSet(g, T) = 0
    BY SumEmpty
  <2> QED BY <1>1, <2>1
<1>3. IsFiniteSet(T) /\ IsFiniteSet(T \ {AnyOf(T)})
  BY <1>1, FS_Subset
<1>4. /\ AnyOf(T) \in T
      /\ SumFunctionOnSet(f, T) = f[AnyOf(T)] + SumFunctionOnSet(f, T \ {AnyOf(T)})
      /\ SumFunctionOnSet(g, T) = g[AnyOf(T)] + SumFunctionOnSet(g, T \ {AnyOf(T)})
  BY <1>2, <1>3, SumAny
<1>5. SumFunctionOnSet(g, T \ {AnyOf(T)}) = 0 - SumFunctionOnSet(f, T \ {AnyOf(T)})
  BY <1>1, <1>4
<1>6. SumFunctionOnSet(f, T \ {AnyOf(T)}) \in Int /\ f[AnyOf(T)] \in Int /\ g[AnyOf(T)] = 0 - f[AnyOf(T)]
  <2>1. \A x \in T \ {AnyOf(T)} : f[x] \in Int
    BY <1>1
  <2> QED BY <1>1, <1>3, <1>4, <2>1, SumInt
<1> QED BY <1>1, <1>4, <1>5, <1>6

(* The image of a finite set is finite. *)
LEMMA FiniteImage ==
  ASSUME NEW h, NEW S, IsFiniteSet(S)
  PROVE  IsFiniteSet({h[x] : x \in S})
<1> DEFINE T == {h[x] : x \in S}
           k == [x \in S |-> h[x]]
<1>1. k \in Surjection(S, T)
  BY DEF Surjection
<1> HIDE DEF k, T
<1>2. IsFiniteSet(T)
  BY <1>1, FS_Surjection
<1> QED BY <1>2 DEF T

(* The sum over the image of a set under an injective renaming. *)
LEMMA SumRenamed ==
  ASSUME NEW f, NEW g, NEW h, NEW S, IsFiniteSet(S),
         \A x \in S : g[x] \in Int /\ g[x] = f[h[x]],
         \A x, y \in S : h[x] = h[y] => x = y
  PROVE  SumFunctionOnSet(f, {h[x] : x \in S}) = SumFunctionOnSet(g, S)
<1> DEFINE Image(T) == {h[x] : x \in T}
           Bad == {T \in SUBSET S : SumFunctionOnSet(f, Image(T)) # SumFunctionOnSet(g, T)}
<1> SUFFICES ASSUME Bad # {} PROVE FALSE
  OBVIOUS
<1>1. PICK T \in Bad : \A U \in Bad : U \subseteq T => U = T
  <2>1. Bad \in SUBSET (SUBSET S) /\ Bad # {}
    OBVIOUS
  <2> HIDE DEF Bad
  <2>2. HasMinimal(Bad)
    BY <2>1, MinimalSubset
  <2> QED BY <2>2 DEF HasMinimal
<1>2. T # {}
  <2> SUFFICES ASSUME T = {} PROVE FALSE
    OBVIOUS
  <2>1. Image(T) = {}
    OBVIOUS
  <2>2. SumFunctionOnSet(f, Image(T)) = 0 /\ SumFunctionOnSet(g, T) = 0
    BY <2>1, SumEmpty
  <2> QED BY <1>1, <2>2
<1>3. PICK x \in T : TRUE
  BY <1>2
<1>4. IsFiniteSet(T) /\ IsFiniteSet(Image(T))
  <2>1. IsFiniteSet(T)
    BY <1>1, FS_Subset
  <2> QED BY <2>1, FiniteImage
<1>5. SumFunctionOnSet(g, T) = g[x] + SumFunctionOnSet(g, T \ {x})
  <2>1. \A z \in T : g[z] \in Int
    BY <1>1
  <2> QED BY <1>3, <1>4, <2>1, SumRemove
<1>6. SumFunctionOnSet(f, Image(T)) = f[h[x]] + SumFunctionOnSet(f, Image(T) \ {h[x]})
  <2>1. \A z \in Image(T) : f[z] \in Int
    BY <1>1
  <2>2. h[x] \in Image(T)
    BY <1>3
  <2> HIDE DEF Image
  <2> QED BY <1>4, <2>1, <2>2, SumRemove
<1>7. Image(T) \ {h[x]} = Image(T \ {x})
  BY <1>1, <1>3
<1>8. SumFunctionOnSet(f, Image(T \ {x})) = SumFunctionOnSet(g, T \ {x})
  <2>1. T \ {x} \notin Bad /\ T \ {x} \in SUBSET S
    BY <1>1, <1>3
  <2> HIDE DEF Image
  <2> QED BY <2>1
<1>9. g[x] = f[h[x]]
  BY <1>1, <1>3
<1> HIDE DEF Image
<1> QED BY <1>1, <1>5, <1>6, <1>7, <1>8, <1>9

(* Natural numbers sum up to a natural number. *)
LEMMA SumNat ==
  ASSUME NEW f, NEW S, IsFiniteSet(S), \A x \in S : f[x] \in Int /\ f[x] >= 0
  PROVE  SumFunctionOnSet(f, S) \in Int /\ SumFunctionOnSet(f, S) >= 0
<1> DEFINE Bad == {T \in SUBSET S : ~ (SumFunctionOnSet(f, T) >= 0)}
<1>1. SumFunctionOnSet(f, S) \in Int
  BY SumInt
<1>2. Bad = {}
  <2> SUFFICES ASSUME Bad # {} PROVE FALSE
    OBVIOUS
  <2>1. PICK T \in Bad : \A U \in Bad : U \subseteq T => U = T
    <3>1. Bad \in SUBSET (SUBSET S) /\ Bad # {}
      OBVIOUS
    <3> HIDE DEF Bad
    <3>2. HasMinimal(Bad)
      BY <3>1, MinimalSubset
    <3> QED BY <3>2 DEF HasMinimal
  <2>2. IsFiniteSet(T) /\ T # {}
    <3>1. IsFiniteSet(T)
      BY <2>1, FS_Subset
    <3>2. SumFunctionOnSet(f, {}) = 0 /\ SumFunctionOnSet(f, {}) >= 0
      BY SumEmpty
    <3>3. T # {}
      BY <2>1, <3>2
    <3> QED BY <3>1, <3>3
  <2>3. PICK y \in T : TRUE
    BY <2>2
  <2>4. SumFunctionOnSet(f, T) = f[y] + SumFunctionOnSet(f, T \ {y})
    BY <2>1, <2>2, SumRemove
  <2>5. T \ {y} \in SUBSET S /\ T \ {y} # T /\ T \ {y} \subseteq T
    BY <2>1
  <2>6. SumFunctionOnSet(f, T \ {y}) >= 0
    BY <2>1, <2>5
  <2>7. SumFunctionOnSet(f, T \ {y}) \in Int
    BY <2>1, <2>5, SumInt, FS_Subset
  <2>8. f[y] \in Int /\ f[y] >= 0
    BY <2>1
  <2>9. SumFunctionOnSet(f, T) >= 0
    BY <2>4, <2>6, <2>7, <2>8
  <2> QED BY <2>1, <2>9
<1> QED BY <1>1, <1>2

(* The sum after one summand has changed. *)
LEMMA SumUpdate ==
  ASSUME NEW f, NEW g, NEW S, IsFiniteSet(S), NEW y \in S,
         \A x \in S : f[x] \in Int /\ g[x] \in Int,
         \A x \in S \ {y} : g[x] = f[x]
  PROVE  SumFunctionOnSet(g, S) = SumFunctionOnSet(f, S) - f[y] + g[y]
<1>1. SumFunctionOnSet(f, S) = f[y] + SumFunctionOnSet(f, S \ {y})
  BY SumRemove
<1>2. SumFunctionOnSet(g, S) = g[y] + SumFunctionOnSet(g, S \ {y})
  BY SumRemove
<1>3. IsFiniteSet(S \ {y})
  BY FS_RemoveElement
<1>4. SumFunctionOnSet(f, S \ {y}) = SumFunctionOnSet(g, S \ {y})
  BY <1>3, SumSame
<1>5. SumFunctionOnSet(f, S \ {y}) \in Int
  BY <1>3, SumInt
<1> QED BY <1>1, <1>2, <1>4, <1>5

(* Zeros sum up to zero. *)
LEMMA SumZero ==
  ASSUME NEW f, NEW S, IsFiniteSet(S), \A x \in S : f[x] = 0
  PROVE  SumFunctionOnSet(f, S) = 0
<1>1. \A x \in S : f[x] \in Int /\ f[x] = 0 - f[x]
  OBVIOUS
<1>2. SumFunctionOnSet(f, S) = 0 - SumFunctionOnSet(f, S)
  BY <1>1, SumNegated
<1>3. SumFunctionOnSet(f, S) \in Int
  BY <1>1, SumInt
<1> QED BY <1>2, <1>3

(* A summand is at most the sum of natural numbers. *)
LEMMA SumAtLeast ==
  ASSUME NEW f, NEW S, IsFiniteSet(S), \A x \in S : f[x] \in Int /\ f[x] >= 0, NEW y \in S
  PROVE  SumFunctionOnSet(f, S) >= f[y]
<1>1. SumFunctionOnSet(f, S) = f[y] + SumFunctionOnSet(f, S \ {y})
  BY SumRemove
<1>2. IsFiniteSet(S \ {y})
  BY FS_RemoveElement
<1>3. SumFunctionOnSet(f, S \ {y}) \in Int /\ SumFunctionOnSet(f, S \ {y}) >= 0
  BY <1>2, SumNat
<1>4. f[y] \in Int
  OBVIOUS
<1> QED BY <1>1, <1>3, <1>4

(* A sum of as many summands as S has elements, each of at most c. *)
LEMMA SumBound ==
  ASSUME NEW f, NEW S, IsFiniteSet(S), NEW c \in Int, \A x \in S : f[x] \in Int /\ f[x] <= c
  PROVE  SumFunctionOnSet(f, S) <= Cardinality(S) * c
<1> DEFINE Bad == {T \in SUBSET S : ~ (SumFunctionOnSet(f, T) <= Cardinality(T) * c)}
<1>1. Bad = {}
  <2> SUFFICES ASSUME Bad # {} PROVE FALSE
    OBVIOUS
  <2>1. PICK T \in Bad : \A U \in Bad : U \subseteq T => U = T
    <3>1. Bad \in SUBSET (SUBSET S) /\ Bad # {}
      OBVIOUS
    <3> HIDE DEF Bad
    <3>2. HasMinimal(Bad)
      BY <3>1, MinimalSubset
    <3> QED BY <3>2 DEF HasMinimal
  <2>2. IsFiniteSet(T) /\ T # {}
    <3>1. IsFiniteSet(T)
      BY <2>1, FS_Subset
    <3>2. 0 * c = 0
      OBVIOUS
    <3>3. SumFunctionOnSet(f, {}) <= Cardinality({}) * c
      BY <3>2, SumEmpty, FS_EmptySet
    <3> QED BY <2>1, <3>1, <3>3
  <2>3. PICK y \in T : TRUE
    BY <2>2
  <2>4. SumFunctionOnSet(f, T) = f[y] + SumFunctionOnSet(f, T \ {y})
    BY <2>1, <2>2, SumRemove
  <2>5. T \ {y} \in SUBSET S /\ T \ {y} # T /\ T \ {y} \subseteq T
    BY <2>1
  <2>6. SumFunctionOnSet(f, T \ {y}) <= Cardinality(T \ {y}) * c
    BY <2>1, <2>5
  <2>7. SumFunctionOnSet(f, T \ {y}) \in Int
    BY <2>1, <2>5, SumInt, FS_Subset
  <2>8. PICK k \in Int : k = Cardinality(T \ {y})
    BY <2>2, FS_RemoveElement, FS_CardinalityType
  <2>9. Cardinality(T) = k + 1
    <3>1. Cardinality(T) \in Nat
      BY <2>2, FS_CardinalityType
    <3>2. Cardinality(T \ {y}) = Cardinality(T) - 1
      BY <2>2, <2>3, FS_RemoveElement
    <3> QED BY <2>8, <3>1, <3>2
  <2>10. (k + 1) * c = k * c + c /\ k * c \in Int
    OBVIOUS
  <2>11. f[y] \in Int /\ f[y] <= c
    BY <2>1
  <2>12. SumFunctionOnSet(f, T) <= k * c + c
    BY <2>4, <2>6, <2>7, <2>8, <2>10, <2>11
  <2>13. SumFunctionOnSet(f, T) <= Cardinality(T) * c
    BY <2>9, <2>10, <2>12
  <2> QED BY <2>1, <2>13
<1> QED BY <1>1
=============================================================================
