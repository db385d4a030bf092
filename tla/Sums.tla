-------------------------------- MODULE Sums --------------------------------
(***************************************************************************)
(* Lemmas on data that the proofs share: the least number of a set of      *)
(* naturals, by which a proof reasons about all numbers without a          *)
(* predicate as a parameter, and the sum of a function over a finite set.  *)
(***************************************************************************)
EXTENDS Integers, FiniteSets, Functions, FiniteSetTheorems, WellFoundedInduction, TLAPS

-----------------------------------------------------------------------------
(* Least elements                                                          *)

\* A set of naturals that is not empty has a least element.
LEMMA LeastNat ==
    ASSUME NEW T, T \subseteq Nat, T # {}
    PROVE  \E n \in T : \A m \in T : n <= m
  <1>1. PICK n \in T : \A m \in T : ~ (<<m, n>> \in OpToRel(<, Nat))
    BY NatLessThanWellFounded, WFMin, Zenon
  <1>2. ASSUME NEW m \in T PROVE n <= m
    <2>1. ~ (m < n)
      BY <1>1 DEF OpToRel
    <2> QED
      BY <2>1
  <1> QED
    BY <1>2

\* Of the subsets of a finite set, a set of them that is not empty has one with
\* no other inside it.
LEMMA LeastSubset ==
    ASSUME NEW S, IsFiniteSet(S), NEW T, T \subseteq SUBSET S, T # {}
    PROVE  \E U \in T : \A V \in T : V \subseteq U => V = U
  <1>1. IsWellFoundedOn(StrictSubsetOrdering(S), SUBSET S)
    BY FS_StrictSubsetOrderingWellFounded, FS_FiniteSubsetsOfFinite, Zenon
  <1>2. PICK U \in T : \A V \in T : ~ (<<V, U>> \in StrictSubsetOrdering(S))
    BY <1>1, WFMin, Zenon
  <1>3. ASSUME NEW V \in T, V \subseteq U PROVE V = U
    BY <1>2, <1>3 DEF StrictSubsetOrdering
  <1> QED
    BY <1>2, <1>3

-----------------------------------------------------------------------------
(* The recursion of a sum                                                  *)

\* The element that the fold of the community modules takes next.
Pick(s) == CHOOSE x \in s : TRUE

\* g is the table of partial sums that the fold over S builds.
IsSum(g, fun, S) ==
    g = [s \in SUBSET S |-> IF s = {} THEN 0 ELSE fun[Pick(s)] + g[s \ {Pick(s)}]]

\* Two tables agree wherever both have an entry.
LEMMA SumUnique ==
    ASSUME NEW fun, NEW S, IsFiniteSet(S), NEW T \in SUBSET S, NEW g, NEW h,
           IsSum(g, fun, S), IsSum(h, fun, T)
    PROVE  \A s \in SUBSET T : g[s] = h[s]
  <1> DEFINE Bad == {s \in SUBSET T : g[s] # h[s]}
  <1> SUFFICES ASSUME Bad # {} PROVE FALSE
    OBVIOUS
  <1>1. IsFiniteSet(T)
    BY FS_Subset
  <1>2. PICK U \in Bad : \A V \in Bad : V \subseteq U => V = U
    <2>1. Bad \subseteq SUBSET T
      OBVIOUS
    <2> HIDE DEF Bad
    <2> QED
      BY <1>1, <2>1, LeastSubset
  <1>3. /\ g[U] = IF U = {} THEN 0 ELSE fun[Pick(U)] + g[U \ {Pick(U)}]
        /\ h[U] = IF U = {} THEN 0 ELSE fun[Pick(U)] + h[U \ {Pick(U)}]
    BY DEF IsSum
  <1>4. U # {}
    BY <1>2, <1>3
  <1>5. Pick(U) \in U
    BY <1>4 DEF Pick
  <1>6. U \ {Pick(U)} \notin Bad
    BY <1>2, <1>5
  <1>7. g[U \ {Pick(U)}] = h[U \ {Pick(U)}]
    BY <1>6
  <1> QED
    BY <1>2, <1>3, <1>4, <1>7

\* Every finite set has a table.
LEMMA SumExists ==
    ASSUME NEW fun, NEW S, IsFiniteSet(S)
    PROVE  \E g : IsSum(g, fun, S)
  <1> DEFINE Bad == {s \in SUBSET S : ~ \E g : IsSum(g, fun, s)}
  <1> SUFFICES ASSUME Bad # {} PROVE FALSE
    OBVIOUS
  <1>1. PICK U \in Bad : \A V \in Bad : V \subseteq U => V = U
    <2>1. Bad \subseteq SUBSET S
      OBVIOUS
    <2> HIDE DEF Bad
    <2> QED
      BY <2>1, LeastSubset
  <1> DEFINE Table(s) == CHOOSE g : IsSum(g, fun, s)
             Rest(s)  == s \ {Pick(s)}
             whole    == [s \in SUBSET U |-> IF s = {} THEN 0
                                             ELSE fun[Pick(s)] + Table(Rest(s))[Rest(s)]]
  <1>2. ASSUME NEW s \in SUBSET U, s # {}
        PROVE  /\ Pick(s) \in s
               /\ Rest(s) \in SUBSET U /\ Rest(s) # U
    BY <1>2 DEF Pick
  <1>3. ASSUME NEW s \in SUBSET U, s # U
        PROVE  IsSum(Table(s), fun, s)
    <2>1. \E g : IsSum(g, fun, s)
      BY <1>1, <1>3
    <2> QED
      BY <2>1
  <1>4. ASSUME NEW s \in SUBSET U, s # U
        PROVE  Table(s)[s] = whole[s]
    <2>1. IsSum(Table(s), fun, s)
      BY <1>3, <1>4
    <2>2. Table(s)[s] = IF s = {} THEN 0 ELSE fun[Pick(s)] + Table(s)[Rest(s)]
      BY <2>1, Zenon DEF IsSum
    <2>3. CASE s = {}
      BY <2>2, <2>3
    <2>4. CASE s # {}
      <3>1. IsSum(Table(Rest(s)), fun, Rest(s)) /\ Rest(s) \in SUBSET s
        BY <1>2, <1>3, <2>4
      <3>2. IsFiniteSet(s)
        BY <1>4, FS_Subset
      <3>3. Table(s)[Rest(s)] = Table(Rest(s))[Rest(s)]
        BY <2>1, <3>1, <3>2, SumUnique
      <3> QED
        BY <2>2, <2>4, <3>3
    <2> QED
      BY <2>3, <2>4
  <1>5. ASSUME NEW s \in SUBSET U
        PROVE  whole[s] = IF s = {} THEN 0 ELSE fun[Pick(s)] + whole[s \ {Pick(s)}]
    <2>1. CASE s = {}
      BY <2>1
    <2>2. CASE s # {}
      <3>1. Table(Rest(s))[Rest(s)] = whole[Rest(s)]
        BY <1>2, <1>4, <2>2
      <3> QED
        BY <2>2, <3>1
    <2> QED
      BY <2>1, <2>2
  <1>6. whole = [s \in SUBSET U |-> whole[s]]
    OBVIOUS
  <1> HIDE DEF whole
  <1>7. IsSum(whole, fun, U)
    BY <1>5, <1>6 DEF IsSum
  <1> QED
    BY <1>1, <1>7

\* The sum of the community modules is an entry of that table.
LEMMA SumTable ==
    ASSUME NEW fun, NEW S, IsFiniteSet(S)
    PROVE  \E g : IsSum(g, fun, S) /\ SumFunctionOnSet(fun, S) = g[S]
  <1> DEFINE table == CHOOSE g : IsSum(g, fun, S)
  <1>1. IsSum(table, fun, S)
    BY SumExists, Zenon
  <1>2. SumFunctionOnSet(fun, S) = table[S]
    BY DEF SumFunctionOnSet, FoldFunctionOnSet, MapThenFoldSet, IsSum, Pick
  <1> QED
    BY <1>1, <1>2

\* Nothing adds up to zero.
LEMMA SumEmpty ==
    ASSUME NEW fun
    PROVE  SumFunctionOnSet(fun, {}) = 0
  <1>1. PICK g : IsSum(g, fun, {}) /\ SumFunctionOnSet(fun, {}) = g[{}]
    BY FS_EmptySet, SumTable
  <1> QED
    BY <1>1 DEF IsSum

\* A sum is one of its terms, and the sum of the others.
LEMMA SumPick ==
    ASSUME NEW fun, NEW S, IsFiniteSet(S), S # {}
    PROVE  SumFunctionOnSet(fun, S) = fun[Pick(S)] + SumFunctionOnSet(fun, S \ {Pick(S)})
  <1> DEFINE R == S \ {Pick(S)}
  <1>1. IsFiniteSet(R) /\ R \in SUBSET S
    BY FS_RemoveElement
  <1>2. PICK g : IsSum(g, fun, S) /\ SumFunctionOnSet(fun, S) = g[S]
    BY SumTable
  <1>3. PICK h : IsSum(h, fun, R) /\ SumFunctionOnSet(fun, R) = h[R]
    BY <1>1, SumTable
  <1>4. g[R] = h[R]
    BY <1>1, <1>2, <1>3, SumUnique
  <1>5. g[S] = fun[Pick(S)] + g[R]
    BY <1>2 DEF IsSum
  <1> QED
    BY <1>2, <1>3, <1>4, <1>5

-----------------------------------------------------------------------------
(* What a sum returns                                                      *)

\* Integers add up to an integer.
LEMMA SumInt ==
    ASSUME NEW S, IsFiniteSet(S), NEW fun, \A x \in S : fun[x] \in Int
    PROVE  SumFunctionOnSet(fun, S) \in Int
  <1> DEFINE Bad == {s \in SUBSET S : SumFunctionOnSet(fun, s) \notin Int}
  <1> SUFFICES ASSUME Bad # {} PROVE FALSE
    OBVIOUS
  <1>1. Bad \subseteq SUBSET S
    OBVIOUS
  <1>2. PICK U \in Bad : \A V \in Bad : V \subseteq U => V = U
    <2> HIDE DEF Bad
    <2> QED
      BY <1>1, LeastSubset
  <1>3. IsFiniteSet(U)
    BY <1>2, FS_Subset
  <1>4. U # {}
    <2>1. SumFunctionOnSet(fun, U) \notin Int
      BY <1>2
    <2>2. SumFunctionOnSet(fun, {}) \in Int
      BY SumEmpty
    <2> QED
      BY <2>1, <2>2
  <1>5. Pick(U) \in U
    BY <1>4 DEF Pick
  <1>6. U \ {Pick(U)} \notin Bad
    BY <1>2, <1>5
  <1>7. SumFunctionOnSet(fun, U) = fun[Pick(U)] + SumFunctionOnSet(fun, U \ {Pick(U)})
    BY <1>3, <1>4, SumPick
  <1> QED
    BY <1>2, <1>5, <1>6, <1>7

\* The order does not matter: any term may be taken out first.
LEMMA SumRemove ==
    ASSUME NEW S, IsFiniteSet(S), NEW fun, \A x \in S : fun[x] \in Int, NEW y \in S
    PROVE  SumFunctionOnSet(fun, S) = fun[y] + SumFunctionOnSet(fun, S \ {y})
  <1> DEFINE Sum(s) == SumFunctionOnSet(fun, s)
             Bad    == {s \in SUBSET S : \E x \in s : Sum(s) # fun[x] + Sum(s \ {x})}
  <1> SUFFICES ASSUME Bad # {} PROVE FALSE
    OBVIOUS
  <1>1. Bad \subseteq SUBSET S
    OBVIOUS
  <1>2. PICK U \in Bad : \A V \in Bad : V \subseteq U => V = U
    <2> HIDE DEF Bad
    <2> QED
      BY <1>1, LeastSubset
  <1>3. PICK x \in U : Sum(U) # fun[x] + Sum(U \ {x})
    BY <1>2
  <1> DEFINE p == Pick(U)
  <1>4. p \in U
    BY <1>3 DEF Pick
  <1>5. \A s \in SUBSET U : IsFiniteSet(s) /\ Sum(s) \in Int
    <2> SUFFICES ASSUME NEW s \in SUBSET U PROVE IsFiniteSet(s) /\ Sum(s) \in Int
      OBVIOUS
    <2>1. IsFiniteSet(s)
      BY FS_Subset
    <2> QED
      BY <2>1, SumInt
  <1>6. Sum(U) = fun[p] + Sum(U \ {p})
    BY <1>3, <1>5, SumPick
  <1>7. x # p
    BY <1>3, <1>6
  <1>8. U \ {p} \notin Bad /\ U \ {x} \notin Bad
    BY <1>2, <1>4
  <1>9. Sum(U \ {p}) = fun[x] + Sum((U \ {p}) \ {x})
    BY <1>7, <1>8
  <1>10. Sum(U \ {x}) = fun[p] + Sum((U \ {x}) \ {p})
    BY <1>4, <1>7, <1>8
  <1>11. (U \ {p}) \ {x} = (U \ {x}) \ {p}
    OBVIOUS
  <1>12. /\ fun[x] \in Int /\ fun[p] \in Int
         /\ Sum((U \ {x}) \ {p}) \in Int
    BY <1>4, <1>5
  <1> HIDE DEF p, Bad
  <1>13. /\ Sum(U \ {p}) = fun[x] + Sum((U \ {x}) \ {p})
         /\ Sum(U) = fun[p] + Sum(U \ {p})
         /\ Sum(U \ {x}) = fun[p] + Sum((U \ {x}) \ {p})
    BY <1>6, <1>9, <1>10, <1>11
  <1>14. \A a, b, c \in Int : b + (a + c) = a + (b + c)
    OBVIOUS
  <1>15. Sum(U) = fun[x] + Sum(U \ {x})
    BY <1>12, <1>13, <1>14
  <1> QED
    BY <1>3, <1>15

\* Sums of functions that agree on the set are equal.
LEMMA SumEqual ==
    ASSUME NEW S, IsFiniteSet(S), NEW fun, NEW gun, \A x \in S : fun[x] = gun[x]
    PROVE  SumFunctionOnSet(fun, S) = SumFunctionOnSet(gun, S)
  <1> DEFINE Bad == {s \in SUBSET S : SumFunctionOnSet(fun, s) # SumFunctionOnSet(gun, s)}
  <1> SUFFICES ASSUME Bad # {} PROVE FALSE
    OBVIOUS
  <1>1. Bad \subseteq SUBSET S
    OBVIOUS
  <1>2. PICK U \in Bad : \A V \in Bad : V \subseteq U => V = U
    <2> HIDE DEF Bad
    <2> QED
      BY <1>1, LeastSubset
  <1>3. IsFiniteSet(U)
    BY <1>2, FS_Subset
  <1>4. U # {}
    BY <1>2, SumEmpty
  <1>5. Pick(U) \in U
    BY <1>4 DEF Pick
  <1>6. U \ {Pick(U)} \notin Bad
    BY <1>2, <1>5
  <1>7. /\ SumFunctionOnSet(fun, U) = fun[Pick(U)] + SumFunctionOnSet(fun, U \ {Pick(U)})
        /\ SumFunctionOnSet(gun, U) = gun[Pick(U)] + SumFunctionOnSet(gun, U \ {Pick(U)})
    BY <1>3, <1>4, SumPick
  <1> QED
    BY <1>2, <1>5, <1>6, <1>7

-----------------------------------------------------------------------------
(* Sums of a whole function                                                *)

\* A sum of zeros.
LEMMA SumZero ==
    ASSUME NEW S, IsFiniteSet(S), NEW fun, \A x \in S : fun[x] = 0
    PROVE  SumFunctionOnSet(fun, S) = 0
  <1> DEFINE Bad == {s \in SUBSET S : SumFunctionOnSet(fun, s) # 0}
  <1> SUFFICES ASSUME Bad # {} PROVE FALSE
    OBVIOUS
  <1>1. Bad \subseteq SUBSET S
    OBVIOUS
  <1>2. PICK U \in Bad : \A V \in Bad : V \subseteq U => V = U
    <2> HIDE DEF Bad
    <2> QED
      BY <1>1, LeastSubset
  <1>3. IsFiniteSet(U)
    BY <1>2, FS_Subset
  <1>4. U # {}
    BY <1>2, SumEmpty
  <1>5. Pick(U) \in U
    BY <1>4 DEF Pick
  <1>6. SumFunctionOnSet(fun, U \ {Pick(U)}) = 0
    BY <1>2, <1>5
  <1>7. SumFunctionOnSet(fun, U) = fun[Pick(U)] + SumFunctionOnSet(fun, U \ {Pick(U)})
    BY <1>3, <1>4, SumPick
  <1>8. fun[Pick(U)] = 0
    BY <1>5
  <1> QED
    BY <1>2, <1>6, <1>7, <1>8

\* A sum of naturals is a natural number, and no term is above it.
LEMMA SumNat ==
    ASSUME NEW D, IsFiniteSet(D), NEW fun \in [D -> Nat]
    PROVE  SumFunction(fun) \in Nat /\ \A x \in D : fun[x] <= SumFunction(fun)
  <1> DEFINE Sum(s) == SumFunctionOnSet(fun, s)
             Bad    == {s \in SUBSET D : Sum(s) \notin Nat}
  <1>1. \A s \in SUBSET D : Sum(s) \in Nat
    <2> SUFFICES ASSUME Bad # {} PROVE FALSE
      OBVIOUS
    <2>1. Bad \subseteq SUBSET D
      OBVIOUS
    <2>2. PICK U \in Bad : \A V \in Bad : V \subseteq U => V = U
      <3> HIDE DEF Bad
      <3> QED
        BY <2>1, LeastSubset
    <2>3. IsFiniteSet(U)
      BY <2>2, FS_Subset
    <2>4. U # {}
      <3>1. SumFunctionOnSet(fun, U) \notin Nat
        BY <2>2
      <3>2. SumFunctionOnSet(fun, {}) \in Nat
        BY SumEmpty
      <3> QED
        BY <3>1, <3>2
    <2>5. Pick(U) \in U
      BY <2>4 DEF Pick
    <2>6. U \ {Pick(U)} \notin Bad
      BY <2>2, <2>5
    <2>7. Sum(U) = fun[Pick(U)] + Sum(U \ {Pick(U)})
      BY <2>3, <2>4, SumPick
    <2>8. fun[Pick(U)] \in Nat /\ Sum(U \ {Pick(U)}) \in Nat
      BY <2>5, <2>6
    <2> QED
      BY <2>2, <2>7, <2>8
  <1>2. ASSUME NEW x \in D PROVE fun[x] <= Sum(D)
    <2>1. Sum(D) = fun[x] + Sum(D \ {x})
      BY SumRemove
    <2>2. fun[x] \in Nat /\ Sum(D \ {x}) \in Nat
      BY <1>1
    <2> HIDE DEF Sum
    <2> QED
      BY <2>1, <2>2
  <1>3. SumFunction(fun) = Sum(D)
    BY DEF SumFunction
  <1> QED
    BY <1>1, <1>2, <1>3

\* What one assignment changes the sum by.
LEMMA SumExcept ==
    ASSUME NEW D, IsFiniteSet(D), NEW fun \in [D -> Int], NEW x \in D, NEW v \in Int
    PROVE  /\ SumFunction(fun) \in Int
           /\ SumFunction([fun EXCEPT ![x] = v]) = SumFunction(fun) - fun[x] + v
  <1> DEFINE gun == [fun EXCEPT ![x] = v]
             R   == D \ {x}
  <1>1. gun \in [D -> Int] /\ gun[x] = v /\ \A y \in R : gun[y] = fun[y]
    OBVIOUS
  <1>2. IsFiniteSet(R)
    BY FS_RemoveElement
  <1>3. SumFunction(fun) = SumFunctionOnSet(fun, D) /\ SumFunction(gun) = SumFunctionOnSet(gun, D)
    BY DEF SumFunction
  <1> HIDE DEF gun
  <1>4. SumFunctionOnSet(fun, D) = fun[x] + SumFunctionOnSet(fun, R)
    BY SumRemove
  <1>5. SumFunctionOnSet(gun, D) = v + SumFunctionOnSet(gun, R)
    BY <1>1, SumRemove
  <1>6. SumFunctionOnSet(fun, R) = SumFunctionOnSet(gun, R)
    BY <1>1, <1>2, SumEqual
  <1>7. SumFunctionOnSet(fun, R) \in Int /\ fun[x] \in Int
    BY <1>2, SumInt
  <1> QED
    BY <1>3, <1>4, <1>5, <1>6, <1>7 DEF gun

-----------------------------------------------------------------------------
(* Sums compared                                                           *)

\* A family of subsets that has the empty set, and every set that it has
\* without its first element, has the whole set.
LEMMA PickInduction ==
    ASSUME NEW S, IsFiniteSet(S), NEW Good, {} \in Good,
           \A s \in SUBSET S : s # {} /\ s \ {Pick(s)} \in Good => s \in Good
    PROVE  S \in Good
  <1> DEFINE Bad == (SUBSET S) \ Good
  <1> SUFFICES ASSUME Bad # {} PROVE FALSE
    OBVIOUS
  <1>1. PICK U \in Bad : \A V \in Bad : V \subseteq U => V = U
    <2>1. Bad \subseteq SUBSET S
      OBVIOUS
    <2> HIDE DEF Bad
    <2> QED
      BY <2>1, LeastSubset
  <1>2. U \in SUBSET S /\ U \notin Good
    BY <1>1
  <1>3. U # {}
    BY <1>2
  <1>4. Pick(U) \in U
    BY <1>3 DEF Pick
  <1>5. U \ {Pick(U)} \notin Bad
    <2> HIDE DEF Bad
    <2> QED
      BY <1>1, <1>4
  <1>6. U \ {Pick(U)} \in Good
    BY <1>2, <1>5
  <1> QED
    BY <1>2, <1>3, <1>6

\* Products are taken apart.
LEMMA Distribute ==
    ASSUME NEW a \in Int, NEW b \in Int, NEW c \in Int
    PROVE  a * (b + c) = a * b + a * c /\ a * b \in Int /\ a * c \in Int
  OBVIOUS

\* A factor of all terms is a factor of the sum.
LEMMA SumScale ==
    ASSUME NEW S, IsFiniteSet(S), NEW fun, NEW hun, NEW a \in Int,
           \A x \in S : fun[x] \in Int /\ hun[x] = a * fun[x]
    PROVE  SumFunctionOnSet(hun, S) = a * SumFunctionOnSet(fun, S)
  <1> DEFINE F(s) == SumFunctionOnSet(fun, s)
             H(s) == SumFunctionOnSet(hun, s)
             Good == {s \in SUBSET S : H(s) = a * F(s)}
  <1>1. {} \in Good
    <2>1. F({}) = 0 /\ H({}) = 0
      BY SumEmpty
    <2> HIDE DEF F, H
    <2> QED
      BY <2>1
  <1>2. ASSUME NEW s \in SUBSET S, s # {}, s \ {Pick(s)} \in Good
        PROVE  s \in Good
    <2> DEFINE p == Pick(s)
    <2>1. p \in s
      BY <1>2 DEF Pick
    <2>2. IsFiniteSet(s) /\ IsFiniteSet(s \ {p})
      BY FS_Subset
    <2>3. F(s) = fun[p] + F(s \ {p}) /\ H(s) = hun[p] + H(s \ {p})
      BY <1>2, <2>2, SumPick
    <2>4. fun[p] \in Int /\ F(s \ {p}) \in Int
      BY <2>1, <2>2, SumInt
    <2>5. hun[p] = a * fun[p] /\ H(s \ {p}) = a * F(s \ {p})
      BY <1>2, <2>1
    <2> HIDE DEF F, H, p
    <2>6. a * (fun[p] + F(s \ {p})) = a * fun[p] + a * F(s \ {p})
      BY <2>4, Distribute
    <2> QED
      BY <2>3, <2>5, <2>6
  <1> HIDE DEF Good
  <1>3. S \in Good
    BY <1>1, <1>2, PickInduction
  <1> QED
    BY <1>3 DEF Good

\* The sum of two functions.
LEMMA SumPlus ==
    ASSUME NEW S, IsFiniteSet(S), NEW fun, NEW gun, NEW hun,
           \A x \in S : fun[x] \in Int /\ gun[x] \in Int /\ hun[x] = fun[x] + gun[x]
    PROVE  SumFunctionOnSet(hun, S) = SumFunctionOnSet(fun, S) + SumFunctionOnSet(gun, S)
  <1> DEFINE F(s) == SumFunctionOnSet(fun, s)
             G(s) == SumFunctionOnSet(gun, s)
             H(s) == SumFunctionOnSet(hun, s)
             Good == {s \in SUBSET S : H(s) = F(s) + G(s)}
  <1>1. {} \in Good
    <2>1. F({}) = 0 /\ G({}) = 0 /\ H({}) = 0
      BY SumEmpty
    <2> HIDE DEF F, G, H
    <2> QED
      BY <2>1
  <1>2. ASSUME NEW s \in SUBSET S, s # {}, s \ {Pick(s)} \in Good
        PROVE  s \in Good
    <2> DEFINE p == Pick(s)
    <2>1. p \in s
      BY <1>2 DEF Pick
    <2>2. IsFiniteSet(s) /\ IsFiniteSet(s \ {p})
      BY FS_Subset
    <2>3. /\ F(s) = fun[p] + F(s \ {p}) /\ G(s) = gun[p] + G(s \ {p})
          /\ H(s) = hun[p] + H(s \ {p})
      BY <1>2, <2>2, SumPick
    <2>4. /\ fun[p] \in Int /\ F(s \ {p}) \in Int
          /\ gun[p] \in Int /\ G(s \ {p}) \in Int
      BY <2>1, <2>2, SumInt
    <2>5. hun[p] = fun[p] + gun[p] /\ H(s \ {p}) = F(s \ {p}) + G(s \ {p})
      BY <1>2, <2>1
    <2> HIDE DEF F, G, H, p
    <2> QED
      BY <2>3, <2>4, <2>5
  <1> HIDE DEF Good
  <1>3. S \in Good
    BY <1>1, <1>2, PickInduction
  <1> QED
    BY <1>3 DEF Good

\* Smaller terms have a smaller sum.
LEMMA SumMonotone ==
    ASSUME NEW S, IsFiniteSet(S), NEW fun, NEW gun,
           \A x \in S : fun[x] \in Int /\ gun[x] \in Int /\ fun[x] <= gun[x]
    PROVE  SumFunctionOnSet(fun, S) <= SumFunctionOnSet(gun, S)
  <1> DEFINE F(s) == SumFunctionOnSet(fun, s)
             G(s) == SumFunctionOnSet(gun, s)
             Good == {s \in SUBSET S : F(s) <= G(s)}
  <1>1. {} \in Good
    <2>1. F({}) = 0 /\ G({}) = 0
      BY SumEmpty
    <2> HIDE DEF F, G
    <2> QED
      BY <2>1
  <1>2. ASSUME NEW s \in SUBSET S, s # {}, s \ {Pick(s)} \in Good
        PROVE  s \in Good
    <2> DEFINE p == Pick(s)
    <2>1. p \in s
      BY <1>2 DEF Pick
    <2>2. IsFiniteSet(s) /\ IsFiniteSet(s \ {p})
      BY FS_Subset
    <2>3. F(s) = fun[p] + F(s \ {p}) /\ G(s) = gun[p] + G(s \ {p})
      BY <1>2, <2>2, SumPick
    <2>4. /\ fun[p] \in Int /\ F(s \ {p}) \in Int
          /\ gun[p] \in Int /\ G(s \ {p}) \in Int
      BY <2>1, <2>2, SumInt
    <2>5. fun[p] <= gun[p] /\ F(s \ {p}) <= G(s \ {p})
      BY <1>2, <2>1
    <2> HIDE DEF F, G, p
    <2> QED
      BY <2>3, <2>4, <2>5
  <1> HIDE DEF Good
  <1>3. S \in Good
    BY <1>1, <1>2, PickInduction
  <1> QED
    BY <1>3 DEF Good

\* One for every element of R.
Count(S, R) == [x \in S |-> IF x \in R THEN 1 ELSE 0]

\* The ones that Count gives to the members of R add up to their number.
LEMMA SumCount ==
    ASSUME NEW S, IsFiniteSet(S), NEW R
    PROVE  SumFunctionOnSet(Count(S, R), S) = Cardinality(S \cap R)
  <1> DEFINE F(s) == SumFunctionOnSet(Count(S, R), s)
             Good == {s \in SUBSET S : F(s) = Cardinality(s \cap R)}
  <1>1. {} \in Good
    BY SumEmpty, FS_EmptySet
  <1>2. ASSUME NEW s \in SUBSET S, s # {}, s \ {Pick(s)} \in Good
        PROVE  s \in Good
    <2> DEFINE p == Pick(s)
    <2>1. p \in s
      BY <1>2 DEF Pick
    <2>2. IsFiniteSet(s) /\ IsFiniteSet(s \ {p}) /\ IsFiniteSet(s \cap R)
      BY FS_Subset
    <2>3. F(s) = Count(S, R)[p] + F(s \ {p})
      BY <1>2, <2>2, SumPick
    <2>4. F(s \ {p}) = Cardinality((s \ {p}) \cap R)
      BY <1>2
    <2>5. Cardinality(s \cap R) \in Nat
      BY <2>2, FS_CardinalityType
    <2> HIDE DEF F, p
    <2>6. CASE p \in R
      <3>1. (s \ {p}) \cap R = (s \cap R) \ {p} /\ p \in s \cap R
        BY <2>1, <2>6
      <3>2. Cardinality((s \cap R) \ {p}) = Cardinality(s \cap R) - 1
        BY <2>2, <3>1, FS_RemoveElement
      <3>3. Count(S, R)[p] = 1
        BY <2>1, <2>6 DEF Count
      <3> QED
        BY <2>3, <2>4, <2>5, <3>1, <3>2, <3>3
    <2>7. CASE p \notin R
      <3>1. (s \ {p}) \cap R = s \cap R
        BY <2>7
      <3>2. Count(S, R)[p] = 0
        BY <2>1, <2>7 DEF Count
      <3> QED
        BY <2>3, <2>4, <2>5, <3>1, <3>2
    <2> QED
      BY <2>6, <2>7
  <1> HIDE DEF Good
  <1>3. S \in Good
    BY <1>1, <1>2, PickInduction
  <1> QED
    BY <1>3 DEF Good

\* An inequality between all terms is one between the sums.
LEMMA SumsCompare ==
    ASSUME NEW S, IsFiniteSet(S), NEW fun, NEW gun, NEW hun,
           NEW a \in Int, NEW b \in Int, NEW c \in Int,
           \A x \in S : /\ fun[x] \in Int /\ gun[x] \in Int /\ hun[x] \in Int
                        /\ a * fun[x] <= b * gun[x] + c * hun[x]
    PROVE  a * SumFunctionOnSet(fun, S)
             <= b * SumFunctionOnSet(gun, S) + c * SumFunctionOnSet(hun, S)
  <1> DEFINE F == [x \in S |-> a * fun[x]]
             G == [x \in S |-> b * gun[x]]
             H == [x \in S |-> c * hun[x]]
             R == [x \in S |-> G[x] + H[x]]
  <1>1. ASSUME NEW x \in S
        PROVE  /\ a * fun[x] \in Int /\ b * gun[x] \in Int /\ c * hun[x] \in Int
    BY Distribute
  <1>2. \A x \in S : /\ fun[x] \in Int /\ F[x] = a * fun[x] /\ F[x] \in Int
                     /\ gun[x] \in Int /\ G[x] = b * gun[x] /\ G[x] \in Int
                     /\ hun[x] \in Int /\ H[x] = c * hun[x] /\ H[x] \in Int
    BY <1>1
  <1> HIDE DEF F, G, H
  <1>3. \A x \in S : R[x] = G[x] + H[x] /\ R[x] \in Int /\ F[x] <= R[x]
    BY <1>2
  <1> HIDE DEF R
  <1>4. SumFunctionOnSet(F, S) = a * SumFunctionOnSet(fun, S)
    BY <1>2, SumScale
  <1>5. SumFunctionOnSet(G, S) = b * SumFunctionOnSet(gun, S)
    BY <1>2, SumScale
  <1>6. SumFunctionOnSet(H, S) = c * SumFunctionOnSet(hun, S)
    BY <1>2, SumScale
  <1>7. SumFunctionOnSet(R, S) = SumFunctionOnSet(G, S) + SumFunctionOnSet(H, S)
    BY <1>2, <1>3, SumPlus
  <1>8. SumFunctionOnSet(F, S) <= SumFunctionOnSet(R, S)
    BY <1>2, <1>3, SumMonotone
  <1> QED
    BY <1>4, <1>5, <1>6, <1>7, <1>8

\* The same without factors but the last.
LEMMA SumAtMost ==
    ASSUME NEW S, IsFiniteSet(S), NEW fun, NEW gun, NEW hun, NEW c \in Int,
           \A x \in S : /\ fun[x] \in Int /\ gun[x] \in Int /\ hun[x] \in Int
                        /\ fun[x] <= gun[x] + c * hun[x]
    PROVE  SumFunctionOnSet(fun, S)
             <= SumFunctionOnSet(gun, S) + c * SumFunctionOnSet(hun, S)
  <1> DEFINE F == SumFunctionOnSet(fun, S)
             G == SumFunctionOnSet(gun, S)
             H == SumFunctionOnSet(hun, S)
  <1>1. PICK one \in Int : one = 1
    OBVIOUS
  <1>2. \A x \in S : one * fun[x] <= one * gun[x] + c * hun[x]
    <2> SUFFICES ASSUME NEW x \in S PROVE one * fun[x] <= one * gun[x] + c * hun[x]
      OBVIOUS
    <2>1. one * fun[x] = fun[x] /\ one * gun[x] = gun[x]
      BY <1>1
    <2> QED
      BY <2>1
  <1>3. one * F <= one * G + c * H
    BY <1>2, SumsCompare
  <1>4. F \in Int /\ G \in Int
    BY SumInt
  <1> HIDE DEF F, G, H
  <1>5. one * F = F /\ one * G = G
    BY <1>1, <1>4
  <1> QED
    BY <1>3, <1>5 DEF F, G, H

\* A quotient and what it leaves.
LEMMA Quotient ==
    ASSUME NEW a \in Nat, NEW b \in Nat \ {0}
    PROVE  /\ a \div b \in Nat
           /\ b * (a \div b) <= a
           /\ a < b * (a \div b) + b
  BY SMT

\* A quotient is the largest number with a product in reach.
LEMMA AtMostQuotient ==
    ASSUME NEW a \in Nat, NEW b \in Nat \ {0}, NEW x \in Int, b * x <= a
    PROVE  x <= a \div b
  <1>1. a \div b \in Nat /\ a < b * (a \div b) + b
    BY Quotient
  <1> SUFFICES ASSUME x > a \div b PROVE FALSE
    BY <1>1
  <1> DEFINE q == a \div b
  <1>2. q + 1 <= x
    BY <1>1
  <1> HIDE DEF q
  <1>3. q \in Nat /\ a < b * q + b
    BY <1>1 DEF q
  <1>4. b * (q + 1) <= b * x /\ b * (q + 1) = b * q + b
    BY <1>2, <1>3, SMT
  <1> QED
    BY <1>3, <1>4, SMT

\* A positive factor is cancelled from an inequality.
LEMMA CancelFactor ==
    ASSUME NEW a \in Nat \ {0}, NEW x \in Int, NEW y \in Int, a * x <= a * y
    PROVE  x <= y
  BY SMT

\* A factor is put into an inequality.
LEMMA FactorKeepsOrder ==
    ASSUME NEW a \in Nat, NEW x \in Int, NEW y \in Int, x <= y
    PROVE  a * x <= a * y /\ a * x \in Int /\ a * y \in Int
  BY SMT

-----------------------------------------------------------------------------
(* Running totals                                                          *)

\* The totals of the first k terms, as a recursive function builds them.
IsRunning(total, term, n) ==
    total = [k \in 0..n |-> IF k = 0 THEN 0 ELSE total[k - 1] + term[k]]

\* Every list of terms has running totals.
LEMMA RunningExists ==
    ASSUME NEW term, NEW n \in Nat
    PROVE  \E total : IsRunning(total, term, n)
  <1> DEFINE Bad == {m \in Nat : ~ \E total : IsRunning(total, term, m)}
  <1> SUFFICES ASSUME Bad # {} PROVE FALSE
    OBVIOUS
  <1>1. Bad \subseteq Nat
    OBVIOUS
  <1>2. PICK m \in Bad : \A j \in Bad : m <= j
    <2> HIDE DEF Bad
    <2> QED
      BY <1>1, LeastNat
  <1>3. CASE m = 0
    <2> DEFINE none == [k \in 0..0 |-> 0]
    <2>1. IsRunning(none, term, 0)
      BY DEF IsRunning
    <2> QED
      BY <1>2, <1>3, <2>1
  <1>4. CASE m # 0
    <2>1. m - 1 \in Nat /\ m - 1 \notin Bad
      BY <1>2, <1>4
    <2>2. PICK before : IsRunning(before, term, m - 1)
      BY <2>1
    <2> DEFINE total == [k \in 0..m |-> IF k = m THEN before[m - 1] + term[m] ELSE before[k]]
    <2>3. ASSUME NEW k \in 0..m
          PROVE  total[k] = IF k = 0 THEN 0 ELSE total[k - 1] + term[k]
      <3>1. CASE k = m
        BY <3>1, <1>4
      <3>2. CASE k # m
        <4>1. k \in 0..(m - 1) /\ (k # 0 => k - 1 \in 0..(m - 1))
          BY <3>2
        <4>2. before[k] = IF k = 0 THEN 0 ELSE before[k - 1] + term[k]
          BY <2>2, <4>1 DEF IsRunning
        <4>3. total[k] = before[k] /\ (k # 0 => total[k - 1] = before[k - 1])
          BY <3>2, <4>1
        <4> QED
          BY <4>2, <4>3
      <3> QED
        BY <3>1, <3>2
    <2>4. total = [k \in 0..m |-> total[k]]
      OBVIOUS
    <2> HIDE DEF total
    <2>5. IsRunning(total, term, m)
      BY <2>3, <2>4 DEF IsRunning
    <2> QED
      BY <1>2, <2>5
  <1> QED
    BY <1>3, <1>4

-----------------------------------------------------------------------------
(* Loops                                                                   *)

\* The states of a loop, which each take `next` of the one before.
IsLoop(states, first, next, n) ==
    states = [k \in 0..n |-> IF k = 0 THEN first ELSE next[states[k - 1]]]

\* Every loop runs.
LEMMA LoopExists ==
    ASSUME NEW first, NEW next, NEW n \in Nat
    PROVE  \E states : IsLoop(states, first, next, n)
  <1> DEFINE Bad == {m \in Nat : ~ \E states : IsLoop(states, first, next, m)}
  <1> SUFFICES ASSUME Bad # {} PROVE FALSE
    OBVIOUS
  <1>1. Bad \subseteq Nat
    OBVIOUS
  <1>2. PICK m \in Bad : \A j \in Bad : m <= j
    <2> HIDE DEF Bad
    <2> QED
      BY <1>1, LeastNat
  <1>3. CASE m = 0
    <2> DEFINE none == [k \in 0..0 |-> first]
    <2>1. IsLoop(none, first, next, 0)
      BY DEF IsLoop
    <2> QED
      BY <1>2, <1>3, <2>1
  <1>4. CASE m # 0
    <2>1. m - 1 \in Nat /\ m - 1 \notin Bad
      BY <1>2, <1>4
    <2>2. PICK before : IsLoop(before, first, next, m - 1)
      BY <2>1
    <2> DEFINE states == [k \in 0..m |-> IF k = m THEN next[before[m - 1]] ELSE before[k]]
    <2>3. ASSUME NEW k \in 0..m
          PROVE  states[k] = IF k = 0 THEN first ELSE next[states[k - 1]]
      <3>1. CASE k = m
        BY <3>1, <1>4
      <3>2. CASE k # m
        <4>1. k \in 0..(m - 1) /\ (k # 0 => k - 1 \in 0..(m - 1))
          BY <3>2
        <4>2. before[k] = IF k = 0 THEN first ELSE next[before[k - 1]]
          BY <2>2, <4>1 DEF IsLoop
        <4>3. states[k] = before[k] /\ (k # 0 => states[k - 1] = before[k - 1])
          BY <3>2, <4>1
        <4> QED
          BY <4>2, <4>3
      <3> QED
        BY <3>1, <3>2
    <2>4. states = [k \in 0..m |-> states[k]]
      OBVIOUS
    <2> HIDE DEF states
    <2>5. IsLoop(states, first, next, m)
      BY <2>3, <2>4 DEF IsLoop
    <2> QED
      BY <1>2, <2>5
  <1> QED
    BY <1>3, <1>4

\* What holds at the start of a loop and is kept by each of its steps holds of
\* all its states.
LEMMA LoopKeeps ==
    ASSUME NEW n \in Nat, NEW Good, 0 \in Good,
           \A k \in 1..n : k - 1 \in Good => k \in Good
    PROVE  \A k \in 0..n : k \in Good
  <1> DEFINE Bad == (0..n) \ Good
  <1> SUFFICES ASSUME Bad # {} PROVE FALSE
    OBVIOUS
  <1>1. Bad \subseteq Nat
    OBVIOUS
  <1>2. PICK m \in Bad : \A j \in Bad : m <= j
    <2> HIDE DEF Bad
    <2> QED
      BY <1>1, LeastNat
  <1>3. m \in 1..n /\ m - 1 \notin Bad /\ m - 1 \in 0..n
    BY <1>2
  <1> QED
    BY <1>2, <1>3

-----------------------------------------------------------------------------
(* Sums put together                                                       *)

\* The sum over two sets that have nothing in common.
LEMMA SumUnion ==
    ASSUME NEW S, IsFiniteSet(S), NEW T, IsFiniteSet(T), S \cap T = {},
           NEW fun, \A x \in S \cup T : fun[x] \in Int
    PROVE  SumFunctionOnSet(fun, S \cup T)
             = SumFunctionOnSet(fun, S) + SumFunctionOnSet(fun, T)
  <1> DEFINE F(s)  == SumFunctionOnSet(fun, s)
             Good  == {s \in SUBSET T : F(S \cup s) = F(S) + F(s)}
  <1>1. {} \in Good
    <2>1. F({}) = 0 /\ F(S) \in Int
      BY SumEmpty, SumInt
    <2>2. S \cup {} = S
      OBVIOUS
    <2> HIDE DEF F
    <2> QED
      BY <2>1, <2>2
  <1>2. ASSUME NEW s \in SUBSET T, s # {}, s \ {Pick(s)} \in Good
        PROVE  s \in Good
    <2> DEFINE y == Pick(s)
    <2>1. y \in s
      BY <1>2 DEF Pick
    <2>2. /\ IsFiniteSet(s) /\ IsFiniteSet(S \cup s) /\ IsFiniteSet(s \ {y})
          /\ y \in S \cup s /\ (S \cup s) \ {y} = S \cup (s \ {y})
      <3>1. IsFiniteSet(s)
        BY FS_Subset
      <3> HIDE DEF y
      <3>2. IsFiniteSet(S \cup s)
        BY <3>1, FS_Union
      <3>3. IsFiniteSet(s \ {y})
        BY <3>1, FS_RemoveElement
      <3>4. y \in S \cup s /\ (S \cup s) \ {y} = S \cup (s \ {y})
        BY <2>1
      <3> QED
        BY <3>1, <3>2, <3>3, <3>4
    <2> HIDE DEF y
    <2>3. F(S \cup s) = fun[y] + F(S \cup (s \ {y}))
      BY <2>2, SumRemove
    <2>4. F(s) = fun[y] + F(s \ {y})
      BY <2>1, <2>2, SumRemove
    <2>5. F(S \cup (s \ {y})) = F(S) + F(s \ {y})
      BY <1>2 DEF y
    <2>6. fun[y] \in Int /\ F(S) \in Int /\ F(s \ {y}) \in Int
      BY <2>1, <2>2, SumInt
    <2> HIDE DEF F
    <2> QED
      BY <2>3, <2>4, <2>5, <2>6
  <1>3. T \in Good
    <2> HIDE DEF Good
    <2> QED
      BY <1>1, <1>2, PickInduction
  <1> QED
    BY <1>3

\* A sum of differences over an interval is the difference of its ends.
LEMMA SumTelescopes ==
    ASSUME NEW a \in Nat, NEW b \in Nat, a <= b, NEW c, \A i \in a..b : c[i] \in Int,
           NEW fun, \A i \in (a + 1)..b : fun[i] = c[i] - c[i - 1]
    PROVE  SumFunctionOnSet(fun, (a + 1)..b) = c[b] - c[a]
  <1> DEFINE F(s) == SumFunctionOnSet(fun, s)
             Good == {k \in 0..(b - a) : F((a + 1)..(a + k)) = c[a + k] - c[a]}
  <1>1. 0 \in Good
    <2>1. (a + 1)..(a + 0) = {} /\ a + 0 = a /\ c[a] \in Int
      OBVIOUS
    <2> QED
      BY <2>1, SumEmpty
  <1>2. ASSUME NEW k \in 1..(b - a), k - 1 \in Good
        PROVE  k \in Good
    <2> DEFINE S == (a + 1)..(a + k)
               R == (a + 1)..(a + (k - 1))
               j == a + k
    <2>1. /\ IsFiniteSet(S) /\ j \in S /\ S \ {j} = R
          /\ \A i \in S : i \in (a + 1)..b
          /\ a + (k - 1) = j - 1 /\ j - 1 \in a..b /\ j \in a..b /\ a \in a..b
      <3>1. IsFiniteSet(S)
        BY FS_Interval
      <3>2. k \in Int /\ k >= 1 /\ a + k <= b
        OBVIOUS
      <3>3. j \in S /\ j - 1 \in a..b /\ j \in a..b /\ a \in a..b /\ a + (k - 1) = j - 1
        BY <3>2
      <3>4. S \ {j} = R
        BY <3>2
      <3>5. \A i \in S : i \in (a + 1)..b
        BY <3>2
      <3> QED
        BY <3>1, <3>3, <3>4, <3>5
    <2>2. \A i \in S : fun[i] \in Int
      <3> SUFFICES ASSUME NEW i \in S PROVE fun[i] \in Int
        OBVIOUS
      <3>1. i \in (a + 1)..b
        BY <2>1
      <3>2. i \in a..b /\ i - 1 \in a..b
        BY <3>1
      <3>3. c[i] \in Int /\ c[i - 1] \in Int
        BY <3>2
      <3> QED
        BY <3>1, <3>3
    <2>3. F(S) = fun[j] + F(R)
      <3>1. F(S) = fun[j] + F(S \ {j})
        <4> HIDE DEF S, R, j
        <4> QED
          BY <2>1, <2>2, SumRemove
      <3>2. S \ {j} = R
        BY <2>1
      <3> HIDE DEF S, R, j, F
      <3> QED
        BY <3>1, <3>2
    <2>4. F(R) = c[j - 1] - c[a] /\ fun[j] = c[j] - c[j - 1]
      <3>1. F((a + 1)..(a + (k - 1))) = c[a + (k - 1)] - c[a]
        BY <1>2
      <3>2. F(R) = c[j - 1] - c[a]
        BY <2>1, <3>1, Zenon
      <3>3. j \in (a + 1)..b
        BY <2>1
      <3> QED
        BY <3>2, <3>3
    <2>5. c[j] \in Int /\ c[j - 1] \in Int /\ c[a] \in Int
      BY <2>1
    <2> HIDE DEF F, S, R, j
    <2>6. F(S) = c[j] - c[a]
      BY <2>3, <2>4, <2>5
    <2> QED
      BY <2>6 DEF S, j
  <1>3. \A k \in 0..(b - a) : k \in Good
    <2> HIDE DEF Good
    <2>1. b - a \in Nat
      OBVIOUS
    <2> QED
      BY <1>1, <1>2, <2>1, LoopKeeps
  <1>4. F((a + 1)..(a + (b - a))) = c[a + (b - a)] - c[a]
    <2>1. b - a \in 0..(b - a)
      OBVIOUS
    <2> QED
      BY <2>1, <1>3
  <1>5. a + (b - a) = b
    OBVIOUS
  <1> HIDE DEF F
  <1> QED
    BY <1>4, <1>5 DEF F
=============================================================================
