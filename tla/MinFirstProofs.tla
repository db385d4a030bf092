---------------------------- MODULE MinFirstProofs ----------------------------
(***************************************************************************)
(* Proofs about the allocation of MinFirst, for any number of buckets,     *)
(* levels, capacities and amounts: the rounds of several units end where   *)
(* units given one by one do, and what that leaves is orderly.             *)
(***************************************************************************)
EXTENDS MinFirstAllocationStrategy, Sums

\* Levels of the buckets in D, and what they hold together.
Levels(D) == [D -> Nat]
Total(levels) == SumFunction(levels)

States(D) == [buckets: Levels(D), left: Nat]

\* A bucket that was given units holds no more than its capacity.
WithinCapacity(before, after, capacities) ==
    \A i \in DOMAIN before : /\ before[i] <= after[i]
                             /\ before[i] < after[i] => after[i] <= capacities[i]

\* When a bucket got its last unit, no bucket that still has free space now was
\* to come before it.
Orderly(before, after, capacities) ==
    \A i, j \in DOMAIN before :
        before[i] < after[i] /\ after[j] < capacities[j]
        => after[i] - 1 < after[j] \/ (after[i] - 1 = after[j] /\ i < j)

\* Nothing is lost, and something is left only when there is no free space.
Spread(before, amount, capacities, state) ==
    /\ state \in States(DOMAIN before)
    /\ Total(state.buckets) + state.left = Total(before) + amount
    /\ WithinCapacity(before, state.buckets, capacities)

Done(state, capacities) == state.left = 0 \/ Open(state.buckets, capacities) = {}

-----------------------------------------------------------------------------
(* The bucket to be filled next                                            *)

\* A set of naturals has a least element.
LEMMA MinOfNats ==
    ASSUME NEW T, T \subseteq Nat, T # {}
    PROVE  Min(T) \in T /\ \A m \in T : Min(T) <= m
  <1>1. \E n \in T : \A m \in T : n <= m
    BY LeastNat
  <1> QED
    BY <1>1 DEF Min

\* The least filled buckets are those that share the lowest level, and there is
\* a first one.
LEMMA FirstOfLeast ==
    ASSUME NEW D, D \subseteq Nat, NEW levels \in Levels(D), NEW capacities \in Levels(D),
           Open(levels, capacities) # {}
    PROVE  LET candidates == LeastFilled(levels, capacities)
               best       == Min(candidates)
           IN  /\ candidates \subseteq Open(levels, capacities)
               /\ best \in candidates /\ best \in D
               /\ levels[best] < capacities[best]
               /\ \A j \in candidates : levels[j] = levels[best] /\ best <= j
               /\ \A j \in Open(levels, capacities) :
                    levels[best] <= levels[j] /\ (levels[j] = levels[best] => j \in candidates)
  <1> DEFINE open       == Open(levels, capacities)
             candidates == LeastFilled(levels, capacities)
             heights    == {levels[j] : j \in open}
  <1>1. open \subseteq D /\ \A j \in open : levels[j] \in Nat
    BY DEF Open, Levels
  <1>2. heights \subseteq Nat /\ heights # {}
    BY <1>1
  <1>3. PICK h \in heights : \A m \in heights : h <= m
    <2> HIDE DEF heights
    <2> QED
      BY <1>2, LeastNat
  <1>4. PICK i \in open : levels[i] = h
    BY <1>3
  <1>5. candidates = {j \in open : levels[j] = h}
    BY <1>1, <1>3, <1>4 DEF LeastFilled
  <1>6. candidates \subseteq Nat /\ candidates # {}
    BY <1>1, <1>4, <1>5
  <1>7. Min(candidates) \in candidates /\ \A j \in candidates : Min(candidates) <= j
    BY <1>6, MinOfNats
  <1>8. \A j \in open : h <= levels[j]
    BY <1>3
  <1>9. levels[Min(candidates)] < capacities[Min(candidates)] /\ Min(candidates) \in D
    BY <1>1, <1>5, <1>7 DEF Open
  <1> QED
    BY <1>1, <1>5, <1>7, <1>8, <1>9

\* The bucket i of D gets a part more.
Raised(D, levels, i, part, after) ==
    /\ levels \in Levels(D) /\ after \in Levels(D) /\ i \in D /\ part \in Nat
    /\ after[i] = levels[i] + part
    /\ \A j \in D \ {i} : after[j] = levels[j]

\* What a bucket gets is what all hold more.
LEMMA OneMore ==
    ASSUME NEW D, IsFiniteSet(D), NEW levels, NEW best, NEW part, NEW after,
           Raised(D, levels, best, part, after)
    PROVE  /\ Total(levels) \in Int
           /\ Total(after) = Total(levels) + part
  <1>1. levels \in [D -> Int] /\ levels[best] \in Int /\ levels[best] + part \in Int
    BY DEF Raised, Levels
  <1>2. after = [levels EXCEPT ![best] = levels[best] + part]
    BY DEF Raised, Levels
  <1> best \in D /\ part \in Nat
    BY DEF Raised
  <1>3. /\ SumFunction(levels) \in Int
        /\ SumFunction([levels EXCEPT ![best] = levels[best] + part])
             = SumFunction(levels) - levels[best] + (levels[best] + part)
    BY <1>1, SumExcept
  <1>4. /\ Total(levels) \in Int
        /\ Total(after) = Total(levels) - levels[best] + (levels[best] + part)
    BY <1>2, <1>3 DEF Total
  <1> QED
    BY <1>1, <1>4

-----------------------------------------------------------------------------
(* Unit by unit                                                            *)

\* One unit more keeps order and capacities.
LEMMA UnitKeeps ==
    ASSUME NEW D, D \subseteq Nat, IsFiniteSet(D), NEW before \in Levels(D),
           NEW capacities \in Levels(D), NEW amount \in Nat,
           NEW state, Spread(before, amount, capacities, state),
           Orderly(before, state.buckets, capacities), ~ Done(state, capacities)
    PROVE  LET next == GiveUnit(state, capacities)
           IN  /\ Spread(before, amount, capacities, next)
               /\ Orderly(before, next.buckets, capacities)
               /\ next.left = state.left - 1
  <1> DEFINE levels == state.buckets
             best   == Min(LeastFilled(levels, capacities))
             after  == [levels EXCEPT ![best] = @ + 1]
             next   == [buckets |-> after, left |-> state.left - 1]
  <1>1. /\ DOMAIN before = D /\ levels \in Levels(D) /\ levels \in [D -> Nat]
        /\ before \in [D -> Nat] /\ capacities \in [D -> Nat]
        /\ state.left \in Nat \ {0} /\ Open(levels, capacities) # {}
    BY DEF Levels, Spread, States, Done
  <1>2. GiveUnit(state, capacities) = next
    BY <1>1 DEF GiveUnit
  <1>3. /\ best \in D /\ levels[best] < capacities[best]
        /\ \A j \in Open(levels, capacities) :
             levels[best] <= levels[j]
             /\ (levels[j] = levels[best] => j \in LeastFilled(levels, capacities))
        /\ \A j \in LeastFilled(levels, capacities) : best <= j
    BY <1>1, FirstOfLeast
  <1> HIDE DEF best
  <1>4. /\ after \in [D -> Nat] /\ after[best] = levels[best] + 1
        /\ \A j \in D \ {best} : after[j] = levels[j]
    <2> HIDE DEF levels
    <2>1. levels \in [D -> Nat] /\ best \in D /\ levels[best] + 1 \in Nat
      BY <1>1, <1>3
    <2> QED
      BY <2>1
  <1>5. Total(after) = Total(levels) + 1 /\ Total(levels) \in Int
    <2> HIDE DEF levels, after
    <2>1. Raised(D, levels, best, 1, after)
      BY <1>1, <1>3, <1>4 DEF Raised, Levels
    <2> QED
      BY <2>1, OneMore
  <1> HIDE DEF after
  <1>6. Total(before) + amount \in Int
    <2>1. SumFunction(before) \in Nat
      BY <1>1, SumNat
    <2> QED
      BY <2>1 DEF Total
  <1>7. Spread(before, amount, capacities, next)
    <2>1. next \in States(D)
      BY <1>1, <1>4 DEF States, Levels
    <2>2. Total(after) + (state.left - 1) = Total(before) + amount
      BY <1>1, <1>5, <1>6 DEF Spread
    <2>3. WithinCapacity(before, levels, capacities)
      BY DEF Spread
    <2>4. WithinCapacity(before, after, capacities)
      <3> SUFFICES ASSUME NEW i \in D
                   PROVE  /\ before[i] <= after[i]
                          /\ before[i] < after[i] => after[i] <= capacities[i]
        BY <1>1 DEF WithinCapacity
      <3>1. /\ before[i] <= levels[i]
            /\ before[i] < levels[i] => levels[i] <= capacities[i]
        BY <1>1, <2>3 DEF WithinCapacity
      <3> QED
        BY <3>1, <1>1, <1>3, <1>4
    <2> QED
      BY <1>1, <2>1, <2>2, <2>4 DEF Spread
  <1>8. Orderly(before, after, capacities)
    <2> SUFFICES ASSUME NEW i \in D, NEW j \in D, before[i] < after[i], after[j] < capacities[j]
                 PROVE  after[i] - 1 < after[j] \/ (after[i] - 1 = after[j] /\ i < j)
      BY <1>1 DEF Orderly
    <2>1. /\ i \in Nat /\ j \in Nat /\ best \in Nat
          /\ levels[i] \in Nat /\ levels[j] \in Nat /\ after[i] \in Nat /\ after[j] \in Nat
          /\ capacities[j] \in Nat
      BY <1>1, <1>3, <1>4
    <2>2. CASE i = j
      BY <2>1, <2>2
    <2>3. CASE i = best /\ j # best
      <3>1. after[j] = levels[j] /\ after[i] = levels[best] + 1
        BY <1>4, <2>3
      <3>2. j \in Open(levels, capacities)
        BY <3>1, <1>1 DEF Open
      <3>3. levels[best] <= levels[j] /\ (levels[j] = levels[best] => best <= j)
        BY <3>2, <1>3
      <3> QED
        BY <2>1, <2>3, <3>1, <3>3
    <2>4. CASE i # best
      <3>1. after[i] = levels[i] /\ levels[j] <= after[j]
        BY <1>4, <2>1, <2>4
      <3>2. levels[i] - 1 < levels[j] \/ (levels[i] - 1 = levels[j] /\ i < j)
        BY <1>1, <2>1, <3>1 DEF Orderly
      <3> QED
        BY <2>1, <3>1, <3>2
    <2> QED
      BY <2>2, <2>3, <2>4
  <1> QED
    BY <1>2, <1>7, <1>8

-----------------------------------------------------------------------------
(* Round by round                                                          *)

\* Quotients rounded up.
LEMMA RoundedUp ==
    ASSUME NEW a \in Nat \ {0}, NEW b \in Nat \ {0}
    PROVE  /\ CeilDiv(a, b) \in 1..a
           /\ b * (CeilDiv(a, b) - 1) < a
  <1> DEFINE q == (a + b - 1) \div b
  <1>1. a + b - 1 \in Nat
    OBVIOUS
  <1>2. q \in Nat /\ b * q <= a + b - 1 /\ a + b - 1 < b * q + b
    BY <1>1, Quotient
  <1> HIDE DEF q
  <1>3. b * (q - 1) = b * q - b
    BY <1>2, SMT
  <1>4. q # 0
    BY <1>2
  <1>5. ~ (a < q)
    <2> SUFFICES ASSUME a + 1 <= q PROVE FALSE
      BY <1>2
    <2>1. b * (a + 1) <= b * q /\ b * (a + 1) = b * a + b
      BY <1>2, FactorKeepsOrder, SMT
    <2>2. 1 * a <= b * a /\ b * a \in Int /\ b * q \in Int
      BY <1>2, SMT
    <2> QED
      BY <1>2, <2>1, <2>2
  <1> QED
    BY <1>2, <1>3, <1>4, <1>5 DEF CeilDiv, q

\* What the best candidate takes in a round is at least one unit, at most what
\* is left; it does not go beyond its capacity or the next level of a bucket
\* with space; and one unit less for each of the candidates is less than there is.
LEMMA PartOfRound ==
    ASSUME NEW D, D \subseteq Nat, IsFiniteSet(D), NEW levels \in Levels(D),
           NEW capacities \in Levels(D), Open(levels, capacities) # {}, NEW left \in Nat \ {0}
    PROVE  LET candidates == LeastFilled(levels, capacities)
               best       == Min(candidates)
               part       == BestCandidatePart(levels, capacities, left)
           IN  /\ part \in 1..left
               /\ levels[best] + part <= capacities[best]
               /\ \A j \in Open(levels, capacities) \ candidates : levels[best] + part <= levels[j]
               /\ Cardinality(candidates) \in Nat
               /\ (part - 1) * Cardinality(candidates) < left
  <1> DEFINE open       == Open(levels, capacities)
             candidates == LeastFilled(levels, capacities)
             best       == Min(candidates)
             higher     == {levels[j] : j \in open} \ {levels[best]}
             bounds     == higher \cup {capacities[best]}
             m          == Cardinality(candidates)
             share      == CeilDiv(left, m)
             room       == Min(bounds) - levels[best]
             part       == BestCandidatePart(levels, capacities, left)
  <1>1. /\ candidates \subseteq open /\ best \in candidates /\ best \in D
        /\ levels[best] < capacities[best]
        /\ \A j \in open : levels[best] <= levels[j]
                            /\ (levels[j] = levels[best] => j \in candidates)
    BY FirstOfLeast
  <1>2. open \subseteq D /\ levels \in [D -> Nat] /\ capacities \in [D -> Nat]
    BY DEF Open, Levels
  <1>3. IsFiniteSet(candidates) /\ candidates # {}
    BY <1>1, <1>2, FS_Subset
  <1>4. m \in Nat \ {0}
    BY <1>3, FS_CardinalityType, FS_EmptySet
  <1>5. part = Min({share, room})
    BY DEF BestCandidatePart
  <1> HIDE DEF candidates, best, part, m
  <1>6. share \in 1..left /\ m * (share - 1) < left
    BY <1>4, RoundedUp
  <1>7. bounds \subseteq Nat /\ bounds # {}
    BY <1>1, <1>2
  <1>8. Min(bounds) \in bounds /\ \A h \in bounds : Min(bounds) <= h
    <2> HIDE DEF bounds
    <2> QED
      BY <1>7, MinOfNats
  <1>9. levels[best] < Min(bounds) /\ levels[best] \in Nat /\ Min(bounds) \in Nat
    <2>1. \A h \in higher : levels[best] < h
      BY <1>1, <1>2
    <2> QED
      BY <1>1, <1>2, <1>7, <1>8, <2>1
  <1>10. \A j \in open \ candidates : Min(bounds) <= levels[j]
    <2> SUFFICES ASSUME NEW j \in open \ candidates PROVE levels[j] \in bounds
      BY <1>8
    <2> QED
      BY <1>1
  <1>11. Min(bounds) <= capacities[best]
    BY <1>8
  <1> HIDE DEF share, open, bounds
  <1>12. room \in Nat \ {0}
    BY <1>9
  <1>13. part \in {share, room} /\ part <= share /\ part <= room
    <2> HIDE DEF room
    <2>1. {share, room} \subseteq Nat /\ {share, room} # {}
      BY <1>6, <1>12
    <2>2. Min({share, room}) \in {share, room} /\ \A x \in {share, room} : Min({share, room}) <= x
      BY <2>1, MinOfNats
    <2> QED
      BY <2>2, <1>5
  <1>14. part \in 1..left
    <2> HIDE DEF room
    <2> QED
      BY <1>6, <1>12, <1>13
  <1>15. levels[best] + part <= Min(bounds)
    BY <1>9, <1>13, <1>14
  <1>16. (part - 1) * m < left
    <2>1. m * (part - 1) <= m * (share - 1) /\ m * (part - 1) \in Int /\ m * (share - 1) \in Int
      BY <1>4, <1>6, <1>13, <1>14, FactorKeepsOrder
    <2>2. (part - 1) * m = m * (part - 1)
      BY <1>4, <1>14, SMT
    <2> QED
      BY <1>6, <2>1, <2>2
  <1>17. levels[best] + part <= capacities[best]
    BY <1>1, <1>2, <1>9, <1>11, <1>14, <1>15
  <1>18. \A j \in open \ candidates : levels[best] + part <= levels[j]
    BY <1>2, <1>9, <1>10, <1>14, <1>15
  <1> QED
    BY <1>4, <1>14, <1>16, <1>17, <1>18 DEF candidates, best, part, m, open
-----------------------------------------------------------------------------
(* Rounds end where units do                                               *)

\* What unit by unit comes to, and a state on the way to it.
Final(before, amount, capacities, final) ==
    /\ Spread(before, amount, capacities, final)
    /\ Orderly(before, final.buckets, capacities)
    /\ Done(final, capacities)

OnTheWay(before, amount, state, final) ==
    /\ state \in States(DOMAIN before)
    /\ Total(state.buckets) + state.left = Total(before) + amount
    /\ \A i \in DOMAIN before : /\ before[i] <= state.buckets[i]
                                /\ state.buckets[i] <= final.buckets[i]

\* No round gives the best candidate more than it has in the end.  If one did,
\* the best candidate would have space left in the end; so everything was given
\* away, and as the others get at most what it gets, that is less than there is.
LEMMA PartIsFair ==
    ASSUME NEW D, D \subseteq Nat, IsFiniteSet(D), NEW before \in Levels(D),
           NEW capacities \in Levels(D), NEW amount \in Nat,
           NEW final, Final(before, amount, capacities, final),
           NEW state, OnTheWay(before, amount, state, final), ~ Done(state, capacities)
    PROVE  LET best == Min(LeastFilled(state.buckets, capacities))
           IN  state.buckets[best] + BestCandidatePart(state.buckets, capacities, state.left)
                 <= final.buckets[best]
  <1> DEFINE levels     == state.buckets
             ends       == final.buckets
             candidates == LeastFilled(levels, capacities)
             best       == Min(candidates)
             part       == BestCandidatePart(levels, capacities, state.left)
             m          == Cardinality(candidates)
  <1>1. /\ DOMAIN before = D /\ levels \in Levels(D) /\ ends \in Levels(D)
        /\ levels \in [D -> Nat] /\ ends \in [D -> Nat]
        /\ before \in [D -> Nat] /\ capacities \in [D -> Nat]
        /\ state.left \in Nat \ {0} /\ final.left \in Nat /\ Open(levels, capacities) # {}
    BY DEF Levels, OnTheWay, States, Done, Final, Spread
  <1>2. /\ candidates \subseteq Open(levels, capacities) /\ best \in candidates /\ best \in D
        /\ levels[best] < capacities[best]
        /\ \A j \in candidates : levels[j] = levels[best] /\ best <= j
    BY <1>1, FirstOfLeast
  <1>3. /\ part \in 1..state.left /\ levels[best] + part <= capacities[best]
        /\ \A j \in Open(levels, capacities) \ candidates : levels[best] + part <= levels[j]
        /\ m \in Nat /\ (part - 1) * m < state.left
    BY <1>1, PartOfRound
  <1>4. Total(levels) + state.left = Total(ends) + final.left
    BY DEF OnTheWay, Final, Spread
  <1>5. \A i \in D : levels[i] <= ends[i] /\ before[i] <= levels[i]
    BY <1>1 DEF OnTheWay
  <1>6. /\ WithinCapacity(before, ends, capacities) /\ Orderly(before, ends, capacities)
        /\ final.left = 0 \/ Open(ends, capacities) = {}
    BY DEF Final, Spread, Done
  <1>7. candidates \subseteq D /\ D \cap candidates = candidates
    BY <1>1, <1>2 DEF Open
  <1>8. \A j \in D : j \in Open(levels, capacities) <=> levels[j] < capacities[j]
    BY <1>1 DEF Open
  <1>9. \A j \in D : j \in Open(ends, capacities) <=> ends[j] < capacities[j]
    BY <1>1 DEF Open
  <1>10. /\ Total(levels) = SumFunctionOnSet(levels, D) /\ Total(levels) \in Nat
         /\ Total(ends) = SumFunctionOnSet(ends, D) /\ Total(ends) \in Nat
    BY <1>1, SumNat DEF Total, SumFunction
  <1> HIDE DEF levels, ends, candidates, best, part, m
  <1> SUFFICES ASSUME ~ (levels[best] + part <= ends[best])
               PROVE  FALSE
    BY DEF levels, ends, candidates, best, part
  <1>11. ends[best] <= levels[best] + (part - 1) /\ ends[best] < capacities[best]
    BY <1>1, <1>2, <1>3
  <1>12. final.left = 0
    BY <1>2, <1>6, <1>9, <1>11
  <1>13. ASSUME NEW j \in D
         PROVE  ends[j] <= levels[j] + (part - 1) * Count(D, candidates)[j]
    <2>1. /\ ends[j] \in Nat /\ levels[j] \in Nat /\ before[j] \in Nat /\ capacities[j] \in Nat
          /\ ends[best] \in Nat /\ levels[best] \in Nat
          /\ j \in Nat /\ best \in Nat /\ part - 1 \in Nat /\ part \in Nat
      BY <1>1, <1>2, <1>3
    <2>2. /\ before[j] <= levels[j]
          /\ before[j] < ends[j] => ends[j] <= capacities[j]
      BY <1>1, <1>5, <1>6 DEF WithinCapacity
    <2>3. before[j] < ends[j] => ends[j] - 1 < ends[best] \/ (ends[j] - 1 = ends[best] /\ j < best)
      BY <1>1, <1>2, <1>6, <1>11 DEF Orderly
    <2>4. CASE j \in candidates
      <3>1. Count(D, candidates)[j] = 1 /\ (part - 1) * 1 = part - 1
        BY <2>1, <2>4 DEF Count
      <3>2. levels[j] = levels[best] /\ best <= j
        BY <1>2, <2>4
      <3>3. ends[j] <= levels[j] + (part - 1)
        BY <2>1, <2>2, <2>3, <3>2, <1>11
      <3> QED
        BY <2>1, <3>1, <3>3
    <2>5. CASE j \notin candidates
      <3>1. Count(D, candidates)[j] = 0 /\ (part - 1) * 0 = 0
        BY <2>1, <2>5 DEF Count
      <3>2. ends[j] <= levels[j]
        <4>1. CASE levels[j] < capacities[j]
          <5>1. levels[best] + part <= levels[j]
            BY <1>3, <1>8, <2>5, <4>1
          <5> QED
            BY <2>1, <2>2, <2>3, <1>11, <5>1
        <4>2. CASE ~ (levels[j] < capacities[j])
          BY <2>1, <2>2, <4>2
        <4> QED
          BY <4>1, <4>2
      <3> QED
        BY <2>1, <3>1, <3>2
    <2> QED
      BY <2>4, <2>5
  <1>14. /\ part - 1 \in Int
         /\ \A j \in D : ends[j] \in Int /\ levels[j] \in Int /\ Count(D, candidates)[j] \in Int
    BY <1>1, <1>3 DEF Count
  <1>15. SumFunctionOnSet(ends, D)
           <= SumFunctionOnSet(levels, D)
              + (part - 1) * SumFunctionOnSet(Count(D, candidates), D)
    <2> DEFINE others == part - 1
    <2>1. /\ others \in Int
          /\ \A j \in D : /\ ends[j] \in Int /\ levels[j] \in Int
                          /\ Count(D, candidates)[j] \in Int
                          /\ ends[j] <= levels[j] + others * Count(D, candidates)[j]
      BY <1>13, <1>14
    <2> HIDE DEF others
    <2>2. SumFunctionOnSet(ends, D)
            <= SumFunctionOnSet(levels, D) + others * SumFunctionOnSet(Count(D, candidates), D)
      BY <2>1, SumAtMost
    <2> QED
      BY <2>2 DEF others
  <1>16. SumFunctionOnSet(Count(D, candidates), D) = m
    BY <1>7, SumCount DEF m
  <1>17. (part - 1) * m \in Int
    BY <1>3, <1>14
  <1>18. Total(ends) <= Total(levels) + (part - 1) * m
    BY <1>10, <1>15, <1>16, <1>17
  <1> QED
    BY <1>1, <1>3, <1>4, <1>10, <1>12, <1>17, <1>18

\* A round stays on the way, and either is the last or leaves less.
LEMMA RoundKeeps ==
    ASSUME NEW D, D \subseteq Nat, IsFiniteSet(D), NEW before \in Levels(D),
           NEW capacities \in Levels(D), NEW amount \in Nat,
           NEW final, Final(before, amount, capacities, final),
           NEW state, OnTheWay(before, amount, state, final)
    PROVE  LET next == AllocateToBestCandidate(state, capacities)
           IN  /\ OnTheWay(before, amount, next, final)
               /\ IF Done(state, capacities) THEN next = state
                  ELSE next.left \in Nat /\ next.left < state.left
  <1>1. CASE Done(state, capacities)
    BY <1>1 DEF Done, AllocateToBestCandidate
  <1>2. CASE ~ Done(state, capacities)
    <2> DEFINE levels == state.buckets
               best   == Min(LeastFilled(levels, capacities))
               part   == BestCandidatePart(levels, capacities, state.left)
               after  == [levels EXCEPT ![best] = @ + part]
               next   == [buckets |-> after, left |-> state.left - part]
    <2>1. /\ DOMAIN before = D /\ levels \in Levels(D) /\ levels \in [D -> Nat]
          /\ before \in [D -> Nat] /\ final.buckets \in [D -> Nat]
          /\ state.left \in Nat \ {0} /\ Open(levels, capacities) # {}
      BY <1>2 DEF Levels, OnTheWay, States, Done, Final, Spread
    <2>2. AllocateToBestCandidate(state, capacities) = next
      BY <1>2 DEF Done, AllocateToBestCandidate
    <2>3. best \in D
      BY <2>1, FirstOfLeast
    <2>4. part \in 1..state.left
      BY <2>1, PartOfRound
    <2>5. levels[best] + part <= final.buckets[best]
      BY <1>2, PartIsFair
    <2> HIDE DEF best, part
    <2>6. /\ after \in [D -> Nat] /\ after[best] = levels[best] + part
          /\ \A j \in D \ {best} : after[j] = levels[j]
      BY <2>1, <2>3, <2>4
    <2>7. Total(after) = Total(levels) + part /\ Total(levels) \in Int
      <3> HIDE DEF levels, after
      <3>1. Raised(D, levels, best, part, after)
        BY <2>1, <2>3, <2>4, <2>6 DEF Raised, Levels
      <3> QED
        BY <3>1, OneMore
    <2> HIDE DEF after
    <2>8. next \in States(D)
      BY <2>1, <2>4, <2>6 DEF States, Levels
    <2>9. Total(after) + (state.left - part) = Total(before) + amount
      <3>1. Total(levels) + state.left = Total(before) + amount
        BY DEF OnTheWay
      <3> QED
        BY <2>1, <2>4, <2>7, <3>1
    <2>10. ASSUME NEW i \in D
           PROVE  before[i] <= after[i] /\ after[i] <= final.buckets[i]
      <3>1. before[i] <= levels[i] /\ levels[i] <= final.buckets[i]
        BY <2>1 DEF OnTheWay
      <3> QED
        BY <3>1, <2>1, <2>3, <2>4, <2>5, <2>6
    <2>11. OnTheWay(before, amount, next, final)
      BY <2>1, <2>8, <2>9, <2>10 DEF OnTheWay
    <2>12. next.left \in Nat /\ next.left < state.left
      BY <2>1, <2>4
    <2> QED
      BY <1>2, <2>2, <2>11, <2>12
  <1> QED
    BY <1>1, <1>2

\* Who is on the way and done is there: what would be given to another has been
\* given, or can be given to nobody.
LEMMA DoneIsFinal ==
    ASSUME NEW D, IsFiniteSet(D), NEW before \in Levels(D),
           NEW capacities \in Levels(D), NEW amount \in Nat,
           NEW final, Final(before, amount, capacities, final),
           NEW state, OnTheWay(before, amount, state, final), Done(state, capacities)
    PROVE  state.buckets = final.buckets
  <1> DEFINE levels == state.buckets
             ends   == final.buckets
  <1>1. /\ DOMAIN before = D /\ levels \in [D -> Nat] /\ ends \in [D -> Nat]
        /\ before \in [D -> Nat] /\ capacities \in [D -> Nat]
        /\ state.left \in Nat /\ final.left \in Nat
    BY DEF Levels, OnTheWay, States, Final, Spread
  <1>2. Total(levels) + state.left = Total(ends) + final.left
    BY DEF OnTheWay, Final, Spread
  <1>3. \A i \in D : levels[i] <= ends[i] /\ before[i] <= levels[i]
    BY <1>1 DEF OnTheWay
  <1>4. \A i \in D : before[i] < ends[i] => ends[i] <= capacities[i]
    BY <1>1 DEF Final, Spread, WithinCapacity
  <1> SUFFICES ASSUME NEW i \in D PROVE levels[i] = ends[i]
    BY <1>1
  <1>6. CASE state.left = 0
    <2> HIDE DEF levels, ends
    <2> DEFINE more   == ends[i] - levels[i]
               raised == [levels EXCEPT ![i] = @ + more]
    <2>1. Total(levels) \in Int /\ Total(raised) = Total(levels) + more
      <3>1. more \in Nat
        BY <1>1, <1>3
      <3> HIDE DEF more
      <3>2. /\ raised \in [D -> Nat] /\ raised[i] = levels[i] + more
            /\ \A j \in D \ {i} : raised[j] = levels[j]
        BY <3>1, <1>1
      <3> HIDE DEF raised
      <3>3. Raised(D, levels, i, more, raised)
        BY <3>1, <3>2, <1>1 DEF Raised, Levels
      <3> QED
        BY <3>3, OneMore
    <2>2. \A j \in D : raised[j] \in Int /\ ends[j] \in Int /\ raised[j] <= ends[j]
      BY <1>1, <1>3
    <2>3. DOMAIN raised = D
      BY <1>1
    <2> HIDE DEF raised
    <2>4. SumFunctionOnSet(raised, D) <= SumFunctionOnSet(ends, D)
      BY <2>2, SumMonotone
    <2>5. Total(raised) <= Total(ends)
      BY <1>1, <2>3, <2>4 DEF Total, SumFunction
    <2>6. Total(ends) \in Nat
      BY <1>1, SumNat DEF Total
    <2>7. levels[i] <= ends[i] /\ levels[i] \in Nat /\ ends[i] \in Nat
      BY <1>1, <1>3
    <2>8. more <= 0
      <3> HIDE DEF more
      <3>1. more \in Int
        BY <2>7 DEF more
      <3> QED
        BY <1>1, <1>2, <1>6, <2>1, <2>5, <2>6, <3>1
    <2> QED
      BY <2>7, <2>8
  <1>7. CASE Open(levels, capacities) = {}
    <2>1. ~ (levels[i] < capacities[i])
      BY <1>1, <1>7 DEF Open
    <2> QED
      BY <2>1, <1>1, <1>3, <1>4
  <1> QED
    BY <1>6, <1>7 DEF Done

-----------------------------------------------------------------------------
(* The two loops                                                           *)

\* The loops of unit by unit, and of allocate.
IsGiving(states, buckets, capacities, n) ==
    states = [k \in 0..n |-> IF k = 0 THEN [buckets |-> buckets, left |-> n]
                             ELSE GiveUnit(states[k - 1], capacities)]

IsRounds(states, buckets, capacities, n) ==
    states = [k \in 0..n |-> IF k = 0 THEN [buckets |-> buckets, left |-> n]
                             ELSE AllocateToBestCandidate(states[k - 1], capacities)]

\* The start of both.
LEMMA LoopStart ==
    ASSUME NEW D, NEW before \in Levels(D), NEW capacities \in Levels(D), NEW amount \in Nat
    PROVE  LET start == [buckets |-> before, left |-> amount]
           IN  Spread(before, amount, capacities, start) /\ Orderly(before, before, capacities)
  <1>1. before \in [D -> Nat] /\ DOMAIN before = D
    BY DEF Levels
  <1> QED
    BY <1>1 DEF Spread, States, Levels, WithinCapacity, Orderly

\* Unit by unit comes to a final state.
LEMMA UnitsAreFinal ==
    ASSUME NEW D, D \subseteq Nat, IsFiniteSet(D), NEW before \in Levels(D),
           NEW capacities \in Levels(D), NEW amount \in Nat
    PROVE  Final(before, amount, capacities, UnitByUnit(before, capacities, amount))
  <1> DEFINE start == [buckets |-> before, left |-> amount]
             Fit   == {state \in States(D) : /\ Spread(before, amount, capacities, state)
                                             /\ Orderly(before, state.buckets, capacities)}
             next  == [state \in Fit |-> GiveUnit(state, capacities)]
             given == CHOOSE states : IsGiving(states, before, capacities, amount)
             At(k, state) == /\ state \in Fit
                             /\ \/ Open(state.buckets, capacities) = {}
                                \/ state.left = amount - k
  <1>1. UnitByUnit(before, capacities, amount) = given[amount]
    BY DEF UnitByUnit, IsGiving
  <1>2. DOMAIN before = D
    BY DEF Levels
  <1>3. At(0, start)
    BY <1>2, LoopStart DEF Spread
  <1>4. ASSUME NEW k \in 1..amount, NEW state, At(k - 1, state)
        PROVE  next[state] = GiveUnit(state, capacities) /\ At(k, next[state])
    <2>1. CASE Open(state.buckets, capacities) = {}
      BY <1>4, <2>1 DEF GiveUnit
    <2>2. CASE Open(state.buckets, capacities) # {}
      <3>1. state \in Fit /\ state.left = amount - (k - 1)
        BY <1>4, <2>2
      <3>2. ~ Done(state, capacities)
        BY <2>2, <3>1 DEF Done
      <3>3. LET unit == GiveUnit(state, capacities)
            IN  /\ Spread(before, amount, capacities, unit)
                /\ Orderly(before, unit.buckets, capacities)
                /\ unit.left = state.left - 1
        BY <3>1, <3>2, UnitKeeps
      <3> QED
        BY <1>2, <3>1, <3>3 DEF Spread
    <2> QED
      BY <2>1, <2>2
  <1> HIDE DEF next, start, At
  <1>5. ASSUME NEW states, states[0] = start,
               \A k \in 1..amount : \/ states[k] = next[states[k - 1]]
                                    \/ states[k] = GiveUnit(states[k - 1], capacities)
        PROVE  \A k \in 0..amount : At(k, states[k])
    <2> DEFINE Good == {k \in 0..amount : At(k, states[k])}
    <2>1. 0 \in Good
      BY <1>3, <1>5
    <2>2. ASSUME NEW k \in 1..amount, k - 1 \in Good PROVE k \in Good
      BY <1>4, <1>5, <2>2
    <2> HIDE DEF Good
    <2>3. \A k \in 0..amount : k \in Good
      BY <2>1, <2>2, LoopKeeps
    <2> QED
      BY <2>3 DEF Good
  <1>6. PICK loop : IsLoop(loop, start, next, amount)
    BY LoopExists
  <1>7. /\ loop[0] = start
        /\ \A k \in 1..amount : loop[k] = next[loop[k - 1]]
    BY <1>6 DEF IsLoop
  <1>8. \A k \in 0..amount : At(k, loop[k])
    BY <1>5, <1>7
  <1>9. IsGiving(loop, before, capacities, amount)
    <2>1. \A k \in 1..amount : next[loop[k - 1]] = GiveUnit(loop[k - 1], capacities)
      BY <1>4, <1>8
    <2> QED
      BY <1>6, <2>1 DEF IsLoop, IsGiving, start
  <1>10. IsGiving(given, before, capacities, amount)
    BY <1>9
  <1> HIDE DEF given
  <1>11. /\ given[0] = start
         /\ \A k \in 1..amount : given[k] = GiveUnit(given[k - 1], capacities)
    BY <1>10 DEF IsGiving, start
  <1>12. At(amount, given[amount])
    BY <1>5, <1>11
  <1> QED
    BY <1>1, <1>12 DEF At, Final, Done

\* The rounds of allocate come to what unit by unit does.
THEOREM RoundsAreFair ==
    ASSUME NEW D, D \subseteq Nat, IsFiniteSet(D), NEW before \in Levels(D),
           NEW capacities \in Levels(D), NEW amount \in Nat
    PROVE  Allocate(before, capacities, amount) = UnitByUnit(before, capacities, amount)
  <1> DEFINE start  == [buckets |-> before, left |-> amount]
             final  == UnitByUnit(before, capacities, amount)
             Way    == {state \in States(D) : OnTheWay(before, amount, state, final)}
             next   == [state \in Way |-> AllocateToBestCandidate(state, capacities)]
             rounds == CHOOSE states : IsRounds(states, before, capacities, amount)
             At(k, state) == /\ state \in Way
                             /\ Done(state, capacities) \/ state.left <= amount - k
  <1>1. Allocate(before, capacities, amount) = rounds[amount]
    BY DEF Allocate, IsRounds
  <1>2. DOMAIN before = D
    BY DEF Levels
  <1>3. Final(before, amount, capacities, final)
    BY UnitsAreFinal
  <1> HIDE DEF final
  <1>4. At(0, start)
    <2>1. Spread(before, amount, capacities, start)
      BY LoopStart
    <2>2. \A i \in D : before[i] <= before[i] /\ before[i] <= final.buckets[i]
      BY <1>2, <1>3 DEF Levels, Final, Spread, WithinCapacity
    <2>3. start \in States(D) /\ start.buckets = before /\ start.left <= amount - 0
      BY <1>2, <2>1 DEF Spread
    <2> HIDE DEF start
    <2>4. OnTheWay(before, amount, start, final)
      BY <1>2, <2>1, <2>2, <2>3 DEF Spread, OnTheWay
    <2> QED
      BY <2>3, <2>4
  <1>5. ASSUME NEW k \in 1..amount, NEW state, At(k - 1, state)
        PROVE  /\ next[state] = AllocateToBestCandidate(state, capacities)
               /\ At(k, next[state])
    <2> DEFINE round == AllocateToBestCandidate(state, capacities)
    <2>1. state \in Way /\ state.left \in Nat /\ OnTheWay(before, amount, state, final)
      BY <1>5 DEF States
    <2>2. /\ OnTheWay(before, amount, round, final)
          /\ IF Done(state, capacities) THEN round = state
             ELSE round.left \in Nat /\ round.left < state.left
      BY <1>3, <2>1, RoundKeeps
    <2>3. next[state] = round
      BY <2>1
    <2> HIDE DEF round, next
    <2>4. round \in Way
      BY <1>2, <2>2 DEF OnTheWay
    <2>5. Done(round, capacities) \/ round.left <= amount - k
      BY <1>5, <2>1, <2>2
    <2> QED
      BY <2>3, <2>4, <2>5 DEF round
  <1> HIDE DEF next, start, At
  <1>6. ASSUME NEW states, states[0] = start,
               \A k \in 1..amount : \/ states[k] = next[states[k - 1]]
                                    \/ states[k] = AllocateToBestCandidate(states[k - 1],
                                                                           capacities)
        PROVE  \A k \in 0..amount : At(k, states[k])
    <2> DEFINE Good == {k \in 0..amount : At(k, states[k])}
    <2>1. 0 \in Good
      BY <1>4, <1>6
    <2>2. ASSUME NEW k \in 1..amount, k - 1 \in Good PROVE k \in Good
      BY <1>5, <1>6, <2>2
    <2> HIDE DEF Good
    <2>3. \A k \in 0..amount : k \in Good
      BY <2>1, <2>2, LoopKeeps
    <2> QED
      BY <2>3 DEF Good
  <1>7. PICK loop : IsLoop(loop, start, next, amount)
    BY LoopExists
  <1>8. /\ loop[0] = start
        /\ \A k \in 1..amount : loop[k] = next[loop[k - 1]]
    BY <1>7 DEF IsLoop
  <1>9. \A k \in 0..amount : At(k, loop[k])
    BY <1>6, <1>8
  <1>10. IsRounds(loop, before, capacities, amount)
    <2>1. \A k \in 1..amount :
            next[loop[k - 1]] = AllocateToBestCandidate(loop[k - 1], capacities)
      BY <1>5, <1>9
    <2> QED
      BY <1>7, <2>1 DEF IsLoop, IsRounds, start
  <1>11. IsRounds(rounds, before, capacities, amount)
    BY <1>10
  <1> HIDE DEF rounds
  <1>12. /\ rounds[0] = start
         /\ \A k \in 1..amount : rounds[k] = AllocateToBestCandidate(rounds[k - 1], capacities)
    BY <1>11 DEF IsRounds, start
  <1> DEFINE last == rounds[amount]
  <1>13. At(amount, last)
    BY <1>6, <1>12
  <1> HIDE DEF last
  <1>14. /\ last \in States(D) /\ OnTheWay(before, amount, last, final)
         /\ Done(last, capacities)
    BY <1>13 DEF At, Done, States
  <1>15. last.buckets = final.buckets
    BY <1>3, <1>14, DoneIsFinal
  <1>16. last.left = final.left
    <2>1. /\ Total(last.buckets) + last.left = Total(before) + amount
          /\ Total(final.buckets) + final.left = Total(before) + amount
          /\ last.left \in Nat /\ final.left \in Nat /\ final.buckets \in [D -> Nat]
      BY <1>2, <1>3, <1>14 DEF OnTheWay, Final, Spread, States, Levels
    <2>2. Total(final.buckets) \in Nat
      BY <2>1, SumNat DEF Total
    <2> QED
      BY <1>15, <2>1, <2>2
  <1>17. final \in States(D)
    BY <1>2, <1>3 DEF Final, Spread
  <1> QED
    BY <1>1, <1>14, <1>15, <1>16, <1>17 DEF States, last, final

\* What the router reads of an allocation: no bucket loses anything, none gets
\* more than its capacity, and all of them together get no more than there is.
THEOREM AllocationBounds ==
    ASSUME NEW D, D \subseteq Nat, IsFiniteSet(D), NEW before \in Levels(D),
           NEW capacities \in Levels(D), NEW amount \in Nat
    PROVE  LET after == Allocate(before, capacities, amount).buckets
           IN  /\ after \in Levels(D)
               /\ \A i \in D : /\ before[i] <= after[i]
                               /\ before[i] < after[i] => after[i] <= capacities[i]
               /\ Total(after) - Total(before) \in 0..amount
  <1> DEFINE final == UnitByUnit(before, capacities, amount)
             after == final.buckets
  <1>1. Allocate(before, capacities, amount) = final
    BY RoundsAreFair
  <1>2. Final(before, amount, capacities, final)
    BY UnitsAreFinal
  <1> HIDE DEF final
  <1>3. /\ DOMAIN before = D /\ before \in [D -> Nat] /\ after \in [D -> Nat]
        /\ final.left \in Nat
        /\ Total(after) + final.left = Total(before) + amount
        /\ WithinCapacity(before, after, capacities)
    BY <1>2 DEF Final, Spread, States, Levels
  <1>4. Total(after) \in Nat /\ Total(before) \in Nat
    BY <1>3, SumNat DEF Total
  <1>5. Total(before) <= Total(after)
    <2>1. \A i \in D : before[i] \in Int /\ after[i] \in Int /\ before[i] <= after[i]
      BY <1>3 DEF WithinCapacity
    <2>2. SumFunctionOnSet(before, D) <= SumFunctionOnSet(after, D)
      BY <2>1, SumMonotone
    <2> QED
      BY <1>3, <2>2 DEF Total, SumFunction
  <1>6. Total(after) - Total(before) \in 0..amount
    BY <1>3, <1>4, <1>5
  <1> QED
    BY <1>1, <1>3, <1>6 DEF WithinCapacity, Levels
=============================================================================
