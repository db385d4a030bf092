--------------------- MODULE MinFirstAllocationStrategy ---------------------
(***************************************************************************)
(* The library that spreads an amount over buckets that are filled to      *)
(* different levels and have different capacities, the least filled first  *)
(* (MinFirstAllocationStrategy.sol), and what it is to compute: the        *)
(* distribution one gets by giving away one unit at a time.                *)
(*                                                                         *)
(* Buckets and capacities are sequences of the same length.                *)
(***************************************************************************)
EXTENDS Integers, FiniteSets, FiniteSetsExt

CeilDiv(a, b) == (a + b - 1) \div b

\* The buckets with free space, and the first of the least filled of them.
Open(buckets, capacities) == {i \in DOMAIN buckets : buckets[i] < capacities[i]}

LeastFilled(buckets, capacities) ==
    LET open == Open(buckets, capacities)
    IN  {i \in open : \A j \in open : buckets[i] <= buckets[j]}

\* Altered form of BestCandidatePart: the part is rounded down.
BestCandidatePartDown(buckets, capacities, allocationSize) ==
    LET candidates == LeastFilled(buckets, capacities)
        best       == Min(candidates)
        higher     == {buckets[j] : j \in Open(buckets, capacities)} \ {buckets[best]}
        bound      == Min(higher \cup {capacities[best]})
    IN  Min({allocationSize \div Cardinality(candidates), bound - buckets[best]})

\* What the best candidate takes in one round: its part of the amount if it
\* shares its level with others, up to the next level or its capacity.
BestCandidatePart(buckets, capacities, allocationSize) ==
    LET candidates == LeastFilled(buckets, capacities)
        best       == Min(candidates)
        higher     == {buckets[j] : j \in Open(buckets, capacities)} \ {buckets[best]}
        bound      == Min(higher \cup {capacities[best]})
    IN  Min({CeilDiv(allocationSize, Cardinality(candidates)), bound - buckets[best]})

AllocateToBestCandidate(state, capacities) ==
    IF state.left = 0 \/ Open(state.buckets, capacities) = {} THEN state
    ELSE LET best == Min(LeastFilled(state.buckets, capacities))
             part == BestCandidatePart(state.buckets, capacities, state.left)
         IN  [buckets |-> [state.buckets EXCEPT ![best] = @ + part],
              left    |-> state.left - part]

\* The loop of allocate.  A round that allocates anything allocates at least
\* one unit, and a round that allocates nothing is the last, so as many rounds
\* as there are units are enough.
Allocate(buckets, capacities, allocationSize) ==
    LET round[n \in 0..allocationSize] ==
            IF n = 0 THEN [buckets |-> buckets, left |-> allocationSize]
            ELSE AllocateToBestCandidate(round[n - 1], capacities)
    IN  round[allocationSize]

\* The reference: every unit goes to the first of the least filled buckets
\* that have free space.
GiveUnit(state, capacities) ==
    IF Open(state.buckets, capacities) = {} THEN state
    ELSE LET best == Min(LeastFilled(state.buckets, capacities))
         IN  [buckets |-> [state.buckets EXCEPT ![best] = @ + 1],
              left    |-> state.left - 1]

UnitByUnit(buckets, capacities, allocationSize) ==
    LET given[n \in 0..allocationSize] ==
            IF n = 0 THEN [buckets |-> buckets, left |-> allocationSize]
            ELSE GiveUnit(given[n - 1], capacities)
    IN  given[allocationSize]
=============================================================================
