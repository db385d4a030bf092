---------------------------- MODULE TokenBucket ----------------------------
(***************************************************************************)
(* What a staking rate limit promises: a token bucket that is filled block *)
(* by block.  The level moves towards the capacity by a fixed amount per   *)
(* block, from below or from above, and never crosses it.  Every stake     *)
(* takes its amount out of the level and may not exceed it; burning        *)
(* external shares puts an amount back, possibly above the capacity.       *)
(*                                                                         *)
(* The contract counts no blocks: it stores the level of the last use and  *)
(* derives the present one from the blocks that passed.  The module        *)
(* StakeLimit must look like this one from outside.                        *)
(***************************************************************************)
EXTENDS Naturals

CONSTANT Amounts    \* amounts of ether: what is taken, limits, refills

VARIABLES
    open,       \* staking is not paused
    capacity,   \* 0: staking is unlimited
    refill,     \* how far the level moves per block
    level,      \* what may be staked now
    mark        \* the level of the last use, the one a pause falls back to

vars == <<open, capacity, refill, level, mark>>

Limited == capacity # 0

OneBlock(l) ==
    IF l < capacity
    THEN IF l + refill < capacity THEN l + refill ELSE capacity
    ELSE IF l >= capacity + refill THEN l - refill ELSE capacity

NextBlock ==
    /\ level' = IF open /\ Limited THEN OneBlock(level) ELSE level
    /\ UNCHANGED <<open, capacity, refill, mark>>

Take(amount) ==
    /\ open /\ Limited
    /\ amount <= level
    /\ level' = level - amount
    /\ mark' = level'
    /\ UNCHANGED <<open, capacity, refill>>

PutBack(amount) ==
    /\ open /\ Limited
    /\ level' = level + amount
    /\ mark' = level'
    /\ UNCHANGED <<open, capacity, refill>>

Close ==
    /\ open' = FALSE
    /\ level' = mark
    /\ UNCHANGED <<capacity, refill, mark>>

Reopen ==
    /\ ~open
    /\ open' = TRUE
    /\ level' = mark
    /\ UNCHANGED <<capacity, refill, mark>>

\* The governance sets a new limit: the level starts at the mark if the new
\* capacity allows it, or at the new capacity.
Configure(newCapacity, newRefill) ==
    /\ newCapacity # 0
    /\ capacity' = newCapacity
    /\ refill' = newRefill
    /\ \/ mark <= newCapacity /\ mark' = mark
       \/ mark' = newCapacity
    /\ level' = mark'
    /\ UNCHANGED open

Unlimit ==
    /\ capacity' = 0
    /\ refill' = 0
    /\ level' = mark
    /\ UNCHANGED <<open, mark>>

Init ==
    /\ ~open
    /\ capacity = 0 /\ refill = 0
    /\ level = 0 /\ mark = 0

Next ==
    \/ NextBlock
    \/ \E amount \in Amounts : Take(amount) \/ PutBack(amount)
    \/ Close
    \/ Reopen
    \/ \E c \in Amounts, r \in Amounts : Configure(c, r)
    \/ Unlimit

Spec == Init /\ [][Next]_vars
=============================================================================
