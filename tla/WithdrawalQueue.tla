-------------------------- MODULE WithdrawalQueue --------------------------
(***************************************************************************)
(* The withdrawal queue of the protocol (WithdrawalQueueBase.sol and       *)
(* WithdrawalQueue.sol).  A holder locks stETH in a request; requests are  *)
(* finalized first in, first out, at the discount rate of the finalization *)
(* that covers them, and the owner of a finalized request claims its ether.*)
(*                                                                         *)
(* The queue never stores what one request is worth.  It stores cumulative *)
(* sums of stETH and shares, and one checkpoint per finalization with the  *)
(* first request it covers and its maximal share rate; the worth of a      *)
(* request is computed when it is claimed, from a checkpoint the caller    *)
(* names.                                                                  *)
(*                                                                         *)
(* One action is one iteration of a batched entry point                    *)
(* (requestWithdrawals, claimWithdrawals): what a batch does is a run of   *)
(* these steps, and the recipient of one claim may call back into the      *)
(* queue before the next one, which is any step in between.                *)
(***************************************************************************)
EXTENDS PausableUntil, Integers, Sequences, FiniteSets

CONSTANTS
    Users,          \* accounts that own requests
    Amounts,        \* amounts of stETH a request may ask for in the model
    MIN_STETH_WITHDRAWAL_AMOUNT,
    MAX_STETH_WITHDRAWAL_AMOUNT,
    E27_PRECISION_BASE,
    PauseInputs,    \* durations and last paused seconds the model tries
    Rates,          \* [ether, shares]: the pool totals that stETH may report
    MaxRequests,    \* bound of the model: requests ever enqueued
    MaxBatches      \* bound of the model: batches in one finalization

ASSUME QueueAssumption ==
    /\ MIN_STETH_WITHDRAWAL_AMOUNT \in Nat \ {0}
    /\ MAX_STETH_WITHDRAWAL_AMOUNT \in Nat \ {0}
    /\ Amounts \subseteq Nat
    /\ E27_PRECISION_BASE \in Nat \ {0}
    /\ Rates \subseteq [ether: Nat \ {0}, shares: Nat \ {0}]
    /\ Rates # {}
    /\ PauseInputs \subseteq 0..UintMax
    /\ MaxRequests \in Nat
    /\ MaxBatches \in Nat

\* The smallest request is worth at least one share: with the protocol's
\* constants, one share stays below MIN_STETH_WITHDRAWAL_AMOUNT = 100 wei.
ASSUME ShareAssumption ==
    \A r \in Rates : r.ether <= MIN_STETH_WITHDRAWAL_AMOUNT * r.shares

VARIABLES
    queue,                      \* 0..lastRequestId -> request, 0 is a dummy
    lastRequestId,
    lastFinalizedRequestId,
    checkpoints,                \* 0..lastCheckpointIndex -> checkpoint
    lastCheckpointIndex,
    lockedEtherAmount,
    requestsByOwner,            \* the set of open requests of each owner
    lastReportTimestamp,
    bunkerModeSinceTimestamp,
    stETHRate,                  \* external: pool totals stETH converts with
    heldShares                  \* external: stETH shares of the queue itself

requestVars == <<queue, lastRequestId, requestsByOwner, heldShares>>
finalVars   == <<lastFinalizedRequestId, checkpoints, lastCheckpointIndex>>
reportVars  == <<lastReportTimestamp, bunkerModeSinceTimestamp, stETHRate>>
queueVars   == <<requestVars, finalVars, lockedEtherAmount, reportVars>>
vars        == <<pauseVars, queueVars>>

BUNKER_MODE_DISABLED_TIMESTAMP == UintMax

-----------------------------------------------------------------------------
(* Data                                                                    *)

WithdrawalRequest ==
    [cumulativeStETH: Nat, cumulativeShares: Nat, owner: Users,
     timestamp: 0..MaxTime, claimed: BOOLEAN, reportTimestamp: 0..MaxTime]

Checkpoint == [fromRequestId: Nat, maxShareRate: Nat]

\* The dummy at index 0 has no owner and is born claimed.
DummyRequest(t) ==
    [cumulativeStETH |-> 0, cumulativeShares |-> 0, timestamp |-> t,
     claimed |-> TRUE, reportTimestamp |-> 0]

getSharesByPooledEth(amount) == (amount * stETHRate.shares) \div stETHRate.ether
getPooledEthByShares(shares) == (shares * stETHRate.ether) \div stETHRate.shares

\* _calcBatch, for the requests after `pre` up to and including `end`
BatchStETH(pre, end) == queue[end].cumulativeStETH - queue[pre].cumulativeStETH
BatchShares(pre, end) == queue[end].cumulativeShares - queue[pre].cumulativeShares
BatchShareRate(pre, end) ==
    (BatchStETH(pre, end) * E27_PRECISION_BASE) \div BatchShares(pre, end)

\* The ether of a batch: its stETH, or its shares at the maximal rate when
\* its own rate is above the maximum.
BatchEther(pre, end, maxShareRate) ==
    IF BatchShareRate(pre, end) > maxShareRate
    THEN (BatchShares(pre, end) * maxShareRate) \div E27_PRECISION_BASE
    ELSE BatchStETH(pre, end)

-----------------------------------------------------------------------------
(* Views                                                                   *)

isBunkerModeActive == bunkerModeSinceTimestamp < BUNKER_MODE_DISABLED_TIMESTAMP

unfinalizedStETH == BatchStETH(lastFinalizedRequestId, lastRequestId)

\* Altered form of ValidHint: the next checkpoint is not looked at.
ValidHintNoUpperBound(id, hint) ==
    /\ hint \in 1..lastCheckpointIndex
    /\ id >= checkpoints[hint].fromRequestId

\* The checks of _calculateClaimableEther on the hint.
ValidHint(id, hint) ==
    /\ hint \in 1..lastCheckpointIndex
    /\ id >= checkpoints[hint].fromRequestId
    /\ hint < lastCheckpointIndex => id < checkpoints[hint + 1].fromRequestId

\* Altered form of CalculateClaimableEther: the rate of the last finalization.
ClaimAtLastRate(id, hint) ==
    BatchEther(id - 1, id, checkpoints[lastCheckpointIndex].maxShareRate)

CalculateClaimableEther(id, hint) ==
    BatchEther(id - 1, id, checkpoints[hint].maxShareRate)

NOT_FOUND == 0

\* Altered form of BinarySearch: a checkpoint that starts at the request itself
\* is skipped.
BinarySearchStrict(id, first, last) ==
    LET Ranges == (0..lastCheckpointIndex) \X (0..lastCheckpointIndex)
        search[range \in Ranges] ==
            LET min == range[1]
                max == range[2]
                mid == (max + min + 1) \div 2
            IN  IF max <= min THEN min
                ELSE IF checkpoints[mid].fromRequestId < id THEN search[<<mid, max>>]
                ELSE search[<<min, mid - 1>>]
    IN  search[<<first, last>>]

\* The loop of _findCheckpointHint over the range from min to max.
BinarySearch(id, first, last) ==
    LET Ranges == (0..lastCheckpointIndex) \X (0..lastCheckpointIndex)
        search[range \in Ranges] ==
            LET min == range[1]
                max == range[2]
                mid == (max + min + 1) \div 2
            IN  IF max <= min THEN min
                ELSE IF checkpoints[mid].fromRequestId <= id THEN search[<<mid, max>>]
                ELSE search[<<min, mid - 1>>]
    IN  search[<<first, last>>]

FindCheckpointHint(id, start, end) ==
    IF id > lastFinalizedRequestId \/ start > end THEN NOT_FOUND
    ELSE IF id >= checkpoints[end].fromRequestId
         THEN IF end = lastCheckpointIndex \/ id < checkpoints[end + 1].fromRequestId
              THEN end
              ELSE NOT_FOUND
    ELSE IF id < checkpoints[start].fromRequestId THEN NOT_FOUND
    ELSE BinarySearch(id, start, end - 1)

-----------------------------------------------------------------------------
(* Finalization                                                            *)

\* Altered form of CanPrefinalize: the last request is out of range.
CanPrefinalizeOpen(batches, maxShareRate) ==
    /\ maxShareRate # 0
    /\ batches # <<>>
    /\ batches[1] > lastFinalizedRequestId
    /\ batches[Len(batches)] < lastRequestId
    /\ \A k \in 2..Len(batches) : batches[k] > batches[k - 1]

\* The checks of prefinalize on the batches that the oracle proposes.
CanPrefinalize(batches, maxShareRate) ==
    /\ maxShareRate # 0
    /\ batches # <<>>
    /\ batches[1] > lastFinalizedRequestId
    /\ batches[Len(batches)] <= lastRequestId
    /\ \A k \in 2..Len(batches) : batches[k] > batches[k - 1]

\* The last request before batch k.
BatchStart(batches, k) == IF k = 1 THEN lastFinalizedRequestId ELSE batches[k - 1]

EthToLock(batches, maxShareRate) ==
    LET sum[k \in 0..Len(batches)] ==
            IF k = 0 THEN 0
            ELSE sum[k - 1] + BatchEther(BatchStart(batches, k), batches[k], maxShareRate)
    IN  sum[Len(batches)]

\* Altered form of SharesToBurn: the last batch only.
SharesToBurnLast(batches) ==
    BatchShares(BatchStart(batches, Len(batches)), batches[Len(batches)])

SharesToBurn(batches) ==
    LET sum[k \in 0..Len(batches)] ==
            IF k = 0 THEN 0
            ELSE sum[k - 1] + BatchShares(BatchStart(batches, k), batches[k])
    IN  sum[Len(batches)]

\* Altered form of NewCheckpoint: it starts at the last finalized request.
NewCheckpointEarly(maxShareRate) ==
    [fromRequestId |-> lastFinalizedRequestId, maxShareRate |-> maxShareRate]

\* The first request a new checkpoint covers is the first unfinalized one.
NewCheckpoint(maxShareRate) ==
    [fromRequestId |-> lastFinalizedRequestId + 1, maxShareRate |-> maxShareRate]

\* One finalization as the accounting of a report makes it: prefinalize prices
\* the batches, _finalize locks that ether and appends a checkpoint, and the
\* shares are burnt from the queue's own balance (external: Accounting, Burner).
\* Lido does not call finalize at all when there is no ether to lock.  The entry
\* point finalize itself (external: WithdrawalQueueERC721) is closed by a pause.
Finalize(batches, maxShareRate) ==
    /\ ~IsPaused
    /\ CanPrefinalize(batches, maxShareRate)
    /\ \E last \in (lastFinalizedRequestId + 1)..lastRequestId,
          amountOfETH \in 1..BatchStETH(lastFinalizedRequestId, batches[Len(batches)]),
          sharesToBurn \in 0..heldShares :
        /\ last = batches[Len(batches)]
        /\ amountOfETH = EthToLock(batches, maxShareRate)
        /\ sharesToBurn = SharesToBurn(batches)
        /\ checkpoints' =
               [i \in 0..(lastCheckpointIndex + 1) |->
                    IF i = lastCheckpointIndex + 1
                    THEN NewCheckpoint(maxShareRate)
                    ELSE checkpoints[i]]
        /\ lastCheckpointIndex' = lastCheckpointIndex + 1
        /\ lockedEtherAmount' = lockedEtherAmount + amountOfETH
        /\ lastFinalizedRequestId' = last
        /\ heldShares' = heldShares - sharesToBurn
    /\ UNCHANGED <<pauseVars, queue, lastRequestId, requestsByOwner, reportVars>>

-----------------------------------------------------------------------------
(* Requests                                                                *)

\* The struct that _enqueue stores.
NewRequest(amountOfStETH, amountOfShares, owner) ==
    [cumulativeStETH  |-> queue[lastRequestId].cumulativeStETH + amountOfStETH,
     cumulativeShares |-> queue[lastRequestId].cumulativeShares + amountOfShares,
     owner |-> owner, timestamp |-> now, claimed |-> FALSE,
     reportTimestamp |-> lastReportTimestamp]

\* _enqueue, after stETH has moved the shares of the amount to the queue.
Enqueue(amountOfStETH, owner) ==
    LET requestId      == lastRequestId + 1
        amountOfShares == getSharesByPooledEth(amountOfStETH)
        newRequest     == NewRequest(amountOfStETH, amountOfShares, owner)
    IN  /\ lastRequestId < MaxRequests
        /\ lastRequestId' = requestId
        /\ queue' = [i \in 0..requestId |-> IF i = requestId THEN newRequest ELSE queue[i]]
        /\ requestsByOwner' = [requestsByOwner EXCEPT ![owner] = @ \cup {requestId}]
        /\ heldShares' = heldShares + amountOfShares
        /\ UNCHANGED <<pauseVars, finalVars, lockedEtherAmount, reportVars>>

\* Altered form of CheckWithdrawalRequestAmount: only the upper bound.
CheckUpperAmount(amount) == amount <= MAX_STETH_WITHDRAWAL_AMOUNT

CheckWithdrawalRequestAmount(amount) ==
    amount \in MIN_STETH_WITHDRAWAL_AMOUNT..MAX_STETH_WITHDRAWAL_AMOUNT

\* One iteration of requestWithdrawals.
RequestWithdrawal(amount, owner) ==
    /\ ~IsPaused
    /\ CheckWithdrawalRequestAmount(amount)
    /\ Enqueue(amount, owner)

\* One iteration of requestWithdrawalsWstETH: the wrapped amount is a number
\* of shares, and what unwrapping returns is checked and enqueued.
RequestWithdrawalWstETH(amountOfWstETH, owner) ==
    LET amountOfStETH == getPooledEthByShares(amountOfWstETH)
    IN  /\ ~IsPaused
        /\ CheckWithdrawalRequestAmount(amountOfStETH)
        /\ Enqueue(amountOfStETH, owner)

-----------------------------------------------------------------------------
(* Claims                                                                  *)

\* Altered form of CloseRequest: the owner's set keeps the request.
CloseRequestKeepSet(sender, id) ==
    /\ queue' = [queue EXCEPT ![id].claimed = TRUE]
    /\ UNCHANGED requestsByOwner

\* What _claim writes before it computes the ether: the flag, and the set of
\* the owner's open requests.
CloseRequest(sender, id) ==
    /\ queue' = [queue EXCEPT ![id].claimed = TRUE]
    /\ requestsByOwner' = [requestsByOwner EXCEPT ![sender] = @ \ {id}]

\* _claim: the checks, the effects, then the transfer, in that order.
Claim(sender, id, hint) ==
    /\ id \in 1..lastFinalizedRequestId
    /\ ~queue[id].claimed
    /\ queue[id].owner = sender
    /\ ValidHint(id, hint)
    /\ \E ether \in 0..lockedEtherAmount :
        /\ ether = CalculateClaimableEther(id, hint)
        /\ lockedEtherAmount' = lockedEtherAmount - ether
    /\ CloseRequest(sender, id)
    /\ UNCHANGED <<pauseVars, lastRequestId, heldShares, finalVars, reportVars>>

\* claimWithdrawals and claimWithdrawalsTo take the hint from the caller,
\* claimWithdrawal looks it up.
ClaimWithdrawals(sender, id, hint) == Claim(sender, id, hint)

ClaimWithdrawal(sender, id) ==
    Claim(sender, id, FindCheckpointHint(id, 1, lastCheckpointIndex))

-----------------------------------------------------------------------------
(* Oracle and pause                                                        *)

\* onOracleReport, in the transaction that rebases stETH to `rate` (external).
\* The oracle reports frame after frame, so its timestamps increase.
OnOracleReport(isBunkerModeNow, bunkerStartTimestamp, reportTimestamp, rate) ==
    /\ bunkerStartTimestamp < now
    /\ reportTimestamp < now
    /\ lastReportTimestamp < reportTimestamp
    /\ lastReportTimestamp' = reportTimestamp
    /\ stETHRate' = rate
    /\ bunkerModeSinceTimestamp' =
         IF isBunkerModeNow = isBunkerModeActive THEN bunkerModeSinceTimestamp
         ELSE IF isBunkerModeNow THEN bunkerStartTimestamp
         ELSE BUNKER_MODE_DISABLED_TIMESTAMP
    /\ UNCHANGED <<pauseVars, requestVars, finalVars, lockedEtherAmount>>

Resume               == DoResume /\ UNCHANGED <<now, queueVars>>
PauseFor(duration)   == DoPauseFor(duration) /\ UNCHANGED <<now, queueVars>>
PauseUntil(last)     == DoPauseUntil(last) /\ UNCHANGED <<now, queueVars>>
Tick                 == DoTick /\ UNCHANGED <<resumeSince, queueVars>>

-----------------------------------------------------------------------------
(* The component                                                           *)

\* After _initialize: an empty queue, paused until the owner resumes it.
Init ==
    /\ now = 0
    /\ resumeSince = PAUSE_INFINITELY
    /\ queue = [i \in {0} |-> DummyRequest(now)]
    /\ lastRequestId = 0
    /\ lastFinalizedRequestId = 0
    /\ checkpoints = [i \in {0} |-> [fromRequestId |-> 0, maxShareRate |-> 0]]
    /\ lastCheckpointIndex = 0
    /\ lockedEtherAmount = 0
    /\ requestsByOwner = [u \in Users |-> {}]
    /\ lastReportTimestamp = 0
    /\ bunkerModeSinceTimestamp = BUNKER_MODE_DISABLED_TIMESTAMP
    /\ stETHRate \in Rates
    /\ heldShares = 0

\* The rate of a finalization is the rate of the pool at the report.
ShareRate(rate) == (rate.ether * E27_PRECISION_BASE) \div rate.shares

BatchProposals == UNION {[1..n -> 0..(lastRequestId + 1)] : n \in 0..MaxBatches}

AnyFinalize ==
    \E batches \in BatchProposals, rate \in Rates : Finalize(batches, ShareRate(rate))

UserStep ==
    \E u \in Users :
        \/ \E amount \in Amounts : RequestWithdrawal(amount, u)
        \/ \E amount \in Amounts : RequestWithdrawalWstETH(amount, u)
        \/ \E id \in 0..(lastRequestId + 1) : ClaimWithdrawal(u, id)
        \/ \E id \in 0..(lastRequestId + 1), hint \in 0..(lastCheckpointIndex + 1) :
               ClaimWithdrawals(u, id, hint)

ReportStep ==
    \E bunker \in BOOLEAN, start, time \in 0..MaxTime, rate \in Rates :
        OnOracleReport(bunker, start, time, rate)

PauseStep ==
    \/ Resume
    \/ \E duration \in PauseInputs : PauseFor(duration)
    \/ \E last \in PauseInputs : PauseUntil(last)

OtherStep == UserStep \/ ReportStep \/ PauseStep \/ Tick

Next == AnyFinalize \/ OtherStep

Spec == Init /\ [][Next]_vars

-----------------------------------------------------------------------------
(* Properties                                                              *)

\* The shape of the storage: every slot holds a value of its type.
TypeOK ==
    /\ PauseTypeOK
    /\ lastRequestId \in Nat
    /\ lastFinalizedRequestId \in 0..lastRequestId
    /\ DOMAIN queue = 0..lastRequestId
    /\ queue[0] \in [cumulativeStETH: {0}, cumulativeShares: {0}, claimed: {TRUE},
                     timestamp: 0..MaxTime, reportTimestamp: {0}]
    /\ \A i \in 1..lastRequestId : queue[i] \in WithdrawalRequest
    /\ lastCheckpointIndex \in Nat
    /\ checkpoints \in [0..lastCheckpointIndex -> Checkpoint]
    /\ lockedEtherAmount \in Nat
    /\ requestsByOwner \in [Users -> SUBSET (1..lastRequestId)]
    /\ lastReportTimestamp \in 0..MaxTime
    /\ bunkerModeSinceTimestamp \in 0..MaxTime \cup {BUNKER_MODE_DISABLED_TIMESTAMP}
    /\ stETHRate \in Rates
    /\ heldShares \in Nat

\* The cumulative sums grow with every request, by at least the smallest
\* amount and by at least one share: no request makes _calcBatch divide by zero.
SumsIncrease ==
    \A i \in 1..lastRequestId :
        /\ queue[i].cumulativeStETH >= queue[i - 1].cumulativeStETH + MIN_STETH_WITHDRAWAL_AMOUNT
        /\ queue[i].cumulativeShares > queue[i - 1].cumulativeShares

\* Requests are in the order of their block timestamps and of the reports they
\* saw, so that cutting the queue at a timestamp leaves a prefix.
TimesIncrease ==
    /\ \A i \in 1..lastRequestId :
        /\ queue[i].timestamp >= queue[i - 1].timestamp
        /\ queue[i].reportTimestamp >= queue[i - 1].reportTimestamp
    /\ \A i \in 0..lastRequestId :
        /\ queue[i].timestamp <= now
        /\ queue[i].reportTimestamp <= lastReportTimestamp

\* The checkpoints tile the finalized requests: the first one starts at the
\* first request, each starts after the ones before, none starts after the last
\* finalized request.
CheckpointsTile ==
    /\ checkpoints[0].fromRequestId = 0
    /\ lastCheckpointIndex > 0 => checkpoints[1].fromRequestId = 1
    /\ \A i, j \in 0..lastCheckpointIndex :
        i < j => checkpoints[i].fromRequestId < checkpoints[j].fromRequestId
    /\ \A i \in 0..lastCheckpointIndex :
        checkpoints[i].fromRequestId <= lastFinalizedRequestId
    /\ lastCheckpointIndex = 0 <=> lastFinalizedRequestId = 0

\* The set kept for an owner is exactly the owner's requests that are not
\* claimed, whatever was finalized and claimed in between.
OwnersExact ==
    \A u \in Users :
        requestsByOwner[u] = {i \in 1..lastRequestId : queue[i].owner = u /\ ~queue[i].claimed}

\* Only a finalized request is claimed.
ClaimedIsFinalized ==
    \A i \in 1..lastRequestId : queue[i].claimed => i <= lastFinalizedRequestId

\* The queue holds the shares of the unfinalized requests and no more, so the
\* burn that goes with a finalization never takes the shares of a request that
\* still waits.
SharesBacked == heldShares = BatchShares(lastFinalizedRequestId, lastRequestId)

\* _findCheckpointHint over any range returns the one checkpoint that the hint
\* check of _claim accepts, when the range has it, and NOT_FOUND otherwise; over
\* the whole range every finalized request has it.
HintsCorrect ==
    \A id \in 1..lastRequestId :
        LET valid == {h \in 1..lastCheckpointIndex : ValidHint(id, h)}
        IN  /\ id <= lastFinalizedRequestId =>
                 FindCheckpointHint(id, 1, lastCheckpointIndex) \in valid
            /\ \A start, end \in 1..lastCheckpointIndex :
                 id <= lastFinalizedRequestId =>
                   LET found == valid \cap start..end
                   IN  IF found = {} THEN FindCheckpointHint(id, start, end) = NOT_FOUND
                       ELSE found = {FindCheckpointHint(id, start, end)}

\* Every finalized request has a hint that _claim accepts, so that no ether is
\* locked for a request that nobody can claim.
HintExists ==
    \A id \in 1..lastFinalizedRequestId :
        \E h \in 1..lastCheckpointIndex : ValidHint(id, h)

\* What a finalized request is worth: the hints that _claim accepts for it are
\* one (HintsCorrect).
Hints(id) == {h \in 1..lastCheckpointIndex : ValidHint(id, h)}
OneOf(S)  == CHOOSE x \in S : TRUE

ClaimableEther(id) == CalculateClaimableEther(id, OneOf(Hints(id)))

-----------------------------------------------------------------------------
(* What the queue promises                                                 *)

status ==
    [i \in 1..lastRequestId |->
        IF queue[i].claimed THEN "claimed"
        ELSE IF i <= lastFinalizedRequestId THEN "finalized"
        ELSE "pending"]

worth ==
    [i \in 1..lastRequestId |->
        IF i <= lastFinalizedRequestId THEN ClaimableEther(i) ELSE BatchStETH(i - 1, i)]

Escrow == INSTANCE WithdrawalEscrow
          WITH count <- lastRequestId, status <- status, worth <- worth,
               escrow <- lockedEtherAmount

\* The queue with its sums, checkpoints and hints implements an escrow that
\* fixes what each request is worth once, when it is finalized.
EscrowSpec == Escrow!Spec
=============================================================================
