----------------------------- MODULE StakeLimit -----------------------------
(***************************************************************************)
(* The staking state of Lido (lib/StakeLimitUtils.sol and the internal     *)
(* functions of Lido.sol that read and write it): whether staking is       *)
(* paused, and the rate limit.  One storage slot holds both; a pause is a  *)
(* zero block number, no limit is a zero maximum.                          *)
(*                                                                         *)
(* The limit of a block is never stored.  It is derived from the limit of  *)
(* the last use and the number of blocks since then.                       *)
(*                                                                         *)
(* These are parts of transactions: Lido.tla joins them with the rest of   *)
(* what the entry points do.                                               *)
(***************************************************************************)
EXTENDS Integers

CONSTANTS
    Uint96Max,      \* type(uint96).max, the width of a limit
    Uint32Max,      \* type(uint32).max, the width of a number of blocks
    MaxBlocks       \* bound of the model: the last block explored

ASSUME StakeLimitAssumption ==
    /\ Uint96Max \in Nat
    /\ Uint32Max \in Nat
    /\ MaxBlocks \in Nat \ {0}
    /\ MaxBlocks <= Uint32Max

VARIABLES
    stakeLimit,     \* STAKING_STATE_POSITION
    blockNumber     \* block.number

stakeVars == <<stakeLimit, blockNumber>>

StakeLimitData ==
    [prevStakeBlockNumber: 0..Uint32Max,
     prevStakeLimit: 0..Uint96Max,
     maxStakeLimitGrowthBlocks: 0..Uint32Max,
     maxStakeLimit: 0..Uint96Max]

StakeTypeOK ==
    /\ stakeLimit \in StakeLimitData
    /\ blockNumber \in 1..MaxBlocks

isStakingPaused(d) == d.prevStakeBlockNumber = 0

isStakingLimitSet(d) == d.maxStakeLimit # 0

IncPerBlock(d) ==
    IF d.maxStakeLimitGrowthBlocks = 0
    THEN 0
    ELSE d.maxStakeLimit \div d.maxStakeLimitGrowthBlocks

calculateCurrentStakeLimit(d, block) ==
    LET change == (block - d.prevStakeBlockNumber) * IncPerBlock(d)
        up == d.prevStakeLimit + change
        down == d.prevStakeLimit - change
    IN  IF d.prevStakeLimit < d.maxStakeLimit
        THEN IF up < d.maxStakeLimit THEN up ELSE d.maxStakeLimit
        ELSE IF down > d.maxStakeLimit THEN down ELSE d.maxStakeLimit

\* Altered form of UpdatePrevStakeLimit: the block of the use is not stored.
UpdatePrevStakeLimitOldBlock(limit) ==
    /\ limit <= Uint96Max
    /\ ~isStakingPaused(stakeLimit)
    /\ stakeLimit' = [stakeLimit EXCEPT !.prevStakeLimit = limit]

\* updatePrevStakeLimit: the new level must fit its field, and the state must
\* not be a paused one, whose block number would be overwritten.
UpdatePrevStakeLimit(limit) ==
    /\ limit <= Uint96Max
    /\ ~isStakingPaused(stakeLimit)
    /\ stakeLimit' = [stakeLimit EXCEPT !.prevStakeLimit = limit,
                                        !.prevStakeBlockNumber = blockNumber]

\* _decreaseStakingLimit: a stake is refused while staking is paused and
\* beyond the current limit.
DecreaseStakingLimit(amount) ==
    LET current == calculateCurrentStakeLimit(stakeLimit, blockNumber)
    IN  /\ ~isStakingPaused(stakeLimit)
        /\ \/ isStakingLimitSet(stakeLimit)
              /\ amount <= current
              /\ UpdatePrevStakeLimit(current - amount)
           \/ ~isStakingLimitSet(stakeLimit)
              /\ UNCHANGED stakeLimit
        /\ UNCHANGED blockNumber

\* _increaseStakingLimit: works while staking is paused too, and then leaves
\* the limit alone.
IncreaseStakingLimit(amount) ==
    LET current == calculateCurrentStakeLimit(stakeLimit, blockNumber)
    IN  /\ IF isStakingLimitSet(stakeLimit) /\ ~isStakingPaused(stakeLimit)
           THEN UpdatePrevStakeLimit(current + amount)
           ELSE UNCHANGED stakeLimit
        /\ UNCHANGED blockNumber

\* setStakeLimitPauseState(true)
DoPauseStaking ==
    /\ stakeLimit' = [stakeLimit EXCEPT !.prevStakeBlockNumber = 0]
    /\ UNCHANGED blockNumber

\* setStakeLimitPauseState(false)
DoResumeStaking ==
    /\ stakeLimit' = [stakeLimit EXCEPT !.prevStakeBlockNumber = blockNumber]
    /\ UNCHANGED blockNumber

\* setStakingLimit of the library, under the check of Lido that the maximum
\* takes at most half of its field.
DoSetStakingLimit(maxLimit, incPerBlock) ==
    LET d == stakeLimit
        reset == \/ isStakingPaused(d)
                 \/ ~isStakingLimitSet(d)
                 \/ maxLimit < d.prevStakeLimit
    IN  /\ maxLimit <= Uint96Max \div 2
        /\ maxLimit # 0
        /\ maxLimit >= incPerBlock
        /\ incPerBlock # 0 => maxLimit \div incPerBlock <= Uint32Max
        /\ stakeLimit' =
             [prevStakeBlockNumber |-> IF isStakingPaused(d) THEN 0 ELSE blockNumber,
              prevStakeLimit |-> IF reset THEN maxLimit ELSE d.prevStakeLimit,
              maxStakeLimitGrowthBlocks |->
                  IF incPerBlock = 0 THEN 0 ELSE maxLimit \div incPerBlock,
              maxStakeLimit |-> maxLimit]
        /\ UNCHANGED blockNumber

DoRemoveStakingLimit ==
    /\ stakeLimit' = [stakeLimit EXCEPT !.maxStakeLimit = 0]
    /\ UNCHANGED blockNumber

\* The chain moves on.
DoNextBlock ==
    /\ blockNumber < MaxBlocks
    /\ blockNumber' = blockNumber + 1
    /\ UNCHANGED stakeLimit

StakeInit ==
    /\ stakeLimit = [prevStakeBlockNumber |-> 0, prevStakeLimit |-> 0,
                     maxStakeLimitGrowthBlocks |-> 0, maxStakeLimit |-> 0]
    /\ blockNumber = 1

-----------------------------------------------------------------------------
\* What a holder may stake in the present block.
Level ==
    IF isStakingPaused(stakeLimit) \/ ~isStakingLimitSet(stakeLimit)
    THEN stakeLimit.prevStakeLimit
    ELSE calculateCurrentStakeLimit(stakeLimit, blockNumber)

Bucket == INSTANCE TokenBucket WITH
    Amounts <- 0..Uint96Max,
    open <- ~isStakingPaused(stakeLimit),
    capacity <- stakeLimit.maxStakeLimit,
    refill <- IncPerBlock(stakeLimit),
    level <- Level,
    mark <- stakeLimit.prevStakeLimit

\* The staking limit is a token bucket: the limit computed from the block of
\* the last use is the one that block by block refilling would give, whatever
\* stakes, burns, pauses and changes of the limit happened before.
BucketSpec == Bucket!Spec
=============================================================================
