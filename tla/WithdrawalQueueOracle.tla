----------------------- MODULE WithdrawalQueueOracle -----------------------
(***************************************************************************)
(* The other half of finalization: the view calculateFinalizationBatches,  *)
(* which the oracle daemon calls until it is finished, and the queue under *)
(* an oracle that reports what the view returns.                           *)
(*                                                                         *)
(* The view prices request by request and prefinalize batch by batch, each *)
(* rounding down.  The properties relate the two prices with what the      *)
(* owners are paid at the end.                                             *)
(***************************************************************************)
EXTENDS WithdrawalQueue, Functions

CONSTANTS
    MAX_BATCHES_LENGTH,
    Budgets             \* ether budgets that the oracle may start with

ASSUME OracleAssumption ==
    /\ MAX_BATCHES_LENGTH \in Nat \ {0}
    /\ Budgets \subseteq Nat

\* The largest request is worth at most as many shares as the precision has
\* parts: with the protocol's constants, a share stays above one millionth of a
\* wei.
ASSUME PrecisionAssumption ==
    \A r \in Rates : MAX_STETH_WITHDRAWAL_AMOUNT * r.shares <= E27_PRECISION_BASE * r.ether

\* The shares of the smallest request, made at one rate, are worth a wei at any
\* other: with the protocol's constants, the share price never falls to a
\* hundredth.
ASSUME PriceAssumption ==
    \A r, q \in Rates :
        E27_PRECISION_BASE
            <= ((MIN_STETH_WITHDRAWAL_AMOUNT * r.shares) \div r.ether) * ShareRate(q)

-----------------------------------------------------------------------------
(* The view                                                                *)

\* BatchesCalculationState, with the filled part of the static array.
StartState(budget) == [remainingEthBudget |-> budget, finished |-> FALSE, batches |-> <<>>]

RequestEther(id, maxShareRate) == BatchEther(id - 1, id, maxShareRate)

RequestDiscounted(id, maxShareRate) == BatchShareRate(id - 1, id) > maxShareRate

\* Whether request id extends the batch of the request before it: requests of
\* one report count as equal, whatever their own rates.
SameBatch(id, maxShareRate) ==
    \/ queue[id - 1].reportTimestamp = queue[id].reportTimestamp
    \/ RequestDiscounted(id - 1, maxShareRate) = RequestDiscounted(id, maxShareRate)

\* Altered form of Spend: the budget stays as it is.
SpendNothing(state, ether) == state

Spend(state, ether) == [state EXCEPT !.remainingEthBudget = @ - ether]

\* One iteration of the loop: it handles the next request, or breaks.  The
\* budget is reduced before the limit on the number of batches is looked at.
HandleRequest(loop, end, maxShareRate, maxTimestamp) ==
    LET state   == loop.state
        id      == loop.currentId
        ether   == RequestEther(id, maxShareRate)
        paid    == Spend(state, ether)
        n       == Len(state.batches)
        extends == n # 0 /\ SameBatch(id, maxShareRate)
        next    == IF extends THEN [paid EXCEPT !.batches[n] = id]
                   ELSE [paid EXCEPT !.batches = Append(@, id)]
    IN  IF loop.broken \/ id = end THEN loop
        ELSE IF queue[id].timestamp > maxTimestamp \/ ether > state.remainingEthBudget
        THEN [loop EXCEPT !.broken = TRUE]
        ELSE IF ~extends /\ n = MAX_BATCHES_LENGTH
        THEN [loop EXCEPT !.state = paid, !.broken = TRUE]
        ELSE [state |-> next, currentId |-> id + 1, broken |-> FALSE]

LoopStart(state, first) == [state |-> state, currentId |-> first, broken |-> FALSE]

HandleRequests(state, first, end, maxShareRate, maxTimestamp) ==
    LET loop[k \in 0..(end - first)] ==
            IF k = 0 THEN LoopStart(state, first)
            ELSE HandleRequest(loop[k - 1], end, maxShareRate, maxTimestamp)
    IN  loop[end - first]

\* Altered form of FirstUnhandled: a resumed call prices the last request again.
LastHandled(state) ==
    IF state.batches = <<>> THEN lastFinalizedRequestId + 1
    ELSE state.batches[Len(state.batches)]

\* Where a call starts: after the last request that a batch has.
FirstUnhandled(state) ==
    IF state.batches = <<>> THEN lastFinalizedRequestId + 1
    ELSE state.batches[Len(state.batches)] + 1

CanCalculate(state) == ~state.finished /\ state.remainingEthBudget # 0

calculateFinalizationBatches(maxShareRate, maxTimestamp, maxRequestsPerCall, state) ==
    LET first       == FirstUnhandled(state)
        nextCall    == first + maxRequestsPerCall
        queueLength == lastRequestId + 1
        end         == IF queueLength < nextCall THEN queueLength ELSE nextCall
        result      == HandleRequests(state, first, end, maxShareRate, maxTimestamp)
    IN  [result.state EXCEPT
            !.finished = result.currentId = queueLength \/ result.currentId < nextCall]

\* The daemon (external): call after call, until the state is finished or the
\* next call would revert.  A call that does not finish the state handles at
\* least one request, so that one call for each request is enough.
NextCall(state, perCall, maxShareRate, maxTimestamp) ==
    IF CanCalculate(state)
    THEN calculateFinalizationBatches(maxShareRate, maxTimestamp, perCall, state)
    ELSE state

CallUntilFinished(state, perCall, maxShareRate, maxTimestamp) ==
    LET call[n \in 0..(lastRequestId + 1)] ==
            IF n = 0 THEN state
            ELSE NextCall(call[n - 1], perCall, maxShareRate, maxTimestamp)
    IN  call[lastRequestId + 1]

Calculated(budget, maxShareRate, maxTimestamp) ==
    calculateFinalizationBatches(maxShareRate, maxTimestamp, MaxRequests + 1, StartState(budget))

-----------------------------------------------------------------------------
(* The queue with a record of what rounding may cost                       *)

VARIABLE
    roundingDebt    \* finalized requests paid in full out of a discounted batch

oracleVars == <<vars, roundingDebt>>

BatchRequests(batches, k) == (BatchStart(batches, k) + 1)..batches[k]

\* Requests that are not discounted themselves, in batches that are.
PaidInFull(batches, maxShareRate) ==
    UNION {{i \in BatchRequests(batches, k) : ~RequestDiscounted(i, maxShareRate)} :
              k \in {k \in 1..Len(batches) :
                        BatchShareRate(BatchStart(batches, k), batches[k]) > maxShareRate}}

\* A finalization with any batches that prefinalize accepts.
FreeFinalize ==
    \E batches \in BatchProposals, rate \in Rates :
        /\ Finalize(batches, ShareRate(rate))
        /\ roundingDebt' = roundingDebt + Cardinality(PaidInFull(batches, ShareRate(rate)))

\* A finalization with the batches of the view, at the rate and the budget that
\* the oracle chose.
OracleFinalize ==
    \E budget \in Budgets, rate \in Rates, maxTimestamp \in 0..now :
        LET maxShareRate == ShareRate(rate)
            batches      == Calculated(budget, maxShareRate, maxTimestamp).batches
        IN  /\ budget # 0
            /\ Finalize(batches, maxShareRate)
            /\ roundingDebt' = roundingDebt + Cardinality(PaidInFull(batches, maxShareRate))

OracleInit == Init /\ roundingDebt = 0

FreeNext   == FreeFinalize \/ (OtherStep /\ UNCHANGED roundingDebt)
OracleNext == OracleFinalize \/ (OtherStep /\ UNCHANGED roundingDebt)

FreeSpec   == OracleInit /\ [][FreeNext]_oracleVars
OracleSpec == OracleInit /\ [][OracleNext]_oracleVars

-----------------------------------------------------------------------------
(* Properties                                                              *)

\* Ether that the owners of finalized requests can still claim.
Unclaimed == {i \in 1..lastFinalizedRequestId : ~queue[i].claimed}

OwedEther == SumFunctionOnSet([i \in Unclaimed |-> ClaimableEther(i)], Unclaimed)

\* Whatever batches the oracle reports, the locked ether pays for every claim
\* up to one wei for each request that is paid in full out of a discounted
\* batch; with batches that do not mix the two kinds it pays for all.
SolventUpToDust == OwedEther <= lockedEtherAmount + roundingDebt

\* The comment in _claim says that rounding leaves dust with the queue: the
\* locked ether always pays for every claim.
LockedCoversClaims == OwedEther <= lockedEtherAmount

\* Every report: the rates, budgets and timestamps the oracle may ask with.
ForAllReports(P(_, _, _)) ==
    \A budget \in Budgets \ {0}, rate \in Rates, maxTimestamp \in 0..now :
        P(budget, ShareRate(rate), maxTimestamp)

\* What the view proposes passes the checks of prefinalize, and the price of
\* its batches is never above the stETH of the requests: _finalize takes it.
ProposalAccepted ==
    LET Accepted(budget, maxShareRate, maxTimestamp) ==
            LET batches == Calculated(budget, maxShareRate, maxTimestamp).batches
            IN  batches # <<>> =>
                  /\ CanPrefinalize(batches, maxShareRate)
                  /\ EthToLock(batches, maxShareRate) <=
                       BatchStETH(lastFinalizedRequestId, batches[Len(batches)])
    IN  ForAllReports(Accepted)

\* However many requests one call may handle, the calls end with the batches
\* that a single call would return.
ChunkingIrrelevant ==
    LET SameResult(budget, maxShareRate, maxTimestamp) ==
            \A perCall \in 1..MaxRequests :
                CallUntilFinished(StartState(budget), perCall, maxShareRate, maxTimestamp).batches
                  = Calculated(budget, maxShareRate, maxTimestamp).batches
    IN  ForAllReports(SameResult)

\* What the owners can claim together, once the requests of a proposal are
\* finalized, fits the budget that the view was asked with.
ProposalClaims(batches, maxShareRate) ==
    LET proposed == (lastFinalizedRequestId + 1)..batches[Len(batches)]
    IN  SumFunctionOnSet([i \in proposed |-> RequestEther(i, maxShareRate)], proposed)

ClaimsWithinBudget ==
    LET ClaimsFit(budget, maxShareRate, maxTimestamp) ==
            LET batches == Calculated(budget, maxShareRate, maxTimestamp).batches
            IN  batches # <<>> => ProposalClaims(batches, maxShareRate) <= budget
    IN  ForAllReports(ClaimsFit)

\* The documentation of the view says that it calculates what can be finalized
\* within the budget: what finalization locks for the batches is the budget at
\* most, up to a wei for each request that the rounding of its price may free.
BatchesWithinBudget ==
    LET BatchesFit(budget, maxShareRate, maxTimestamp) ==
            LET batches == Calculated(budget, maxShareRate, maxTimestamp).batches
                last    == batches[Len(batches)]
            IN  batches # <<>> =>
                  EthToLock(batches, maxShareRate) <= budget + (last - lastFinalizedRequestId)
    IN  ForAllReports(BatchesFit)
=============================================================================
