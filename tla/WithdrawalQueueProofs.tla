----------------------- MODULE WithdrawalQueueProofs -----------------------
(***************************************************************************)
(* Proofs about the withdrawal queue, for any users, amounts, rates and    *)
(* bounds: its storage stays consistent, every finalized request has       *)
(* exactly one hint, and the queue implements the escrow.                  *)
(***************************************************************************)
EXTENDS WithdrawalQueueOracle, SequenceTheorems, Sums, TLAPS

\* The inductive invariant.  The storage needs SumsIncrease so that a price is
\* never negative and never divides by zero, and CheckpointsTile so that a new
\* checkpoint leaves the hints of the requests before it alone.
QueueInv ==
    /\ TypeOK
    /\ SumsIncrease
    /\ TimesIncrease
    /\ CheckpointsTile
    /\ OwnersExact
    /\ ClaimedIsFinalized
    /\ HintExists

-----------------------------------------------------------------------------
(* Arithmetic                                                              *)

\* Division of naturals stays among the naturals.
LEMMA DivNat ==
    ASSUME NEW a \in Nat, NEW b \in Nat \ {0}
    PROVE  a \div b \in Nat
  BY SMT

\* Division of integers stays among the integers.
LEMMA DivInt ==
    ASSUME NEW a \in Int, NEW b \in Nat \ {0}
    PROVE  a \div b \in Int
  BY SMT

\* An amount that is worth a share converts to at least one share.
LEMMA ShareOfAmount ==
    ASSUME NEW amount \in Nat, NEW least \in Nat, least <= amount,
           NEW ether \in Nat \ {0}, NEW shares \in Nat \ {0},
           ether <= least * shares
    PROVE  (amount * shares) \div ether \in Nat \ {0}
  <1>1. least * shares <= amount * shares
    BY SMT
  <1>2. amount * shares \in Nat /\ ether <= amount * shares
    BY <1>1, SMT
  <1> QED
    BY <1>2, SMT

\* Shares whose own rate is above the maximal rate are worth no more at the
\* maximal rate than the amount they were made for.
LEMMA DiscountLowers ==
    ASSUME NEW amount \in Nat, NEW shares \in Nat \ {0}, NEW maxRate \in Nat,
           NEW base \in Nat \ {0}, (amount * base) \div shares > maxRate
    PROVE  (shares * maxRate) \div base <= amount
  BY SMT

\* A rate in the model is a natural number.
LEMMA ShareRateNat ==
    ASSUME NEW rate \in Rates
    PROVE  ShareRate(rate) \in Nat
  <1>1. rate.ether * E27_PRECISION_BASE \in Nat /\ rate.shares \in Nat \ {0}
    BY QueueAssumption, SMT
  <1> QED
    BY <1>1, DivNat DEF ShareRate

-----------------------------------------------------------------------------
(* The invariant                                                           *)

\* The storage of a new queue is consistent.
THEOREM InitInv == Init => QueueInv
  <1> SUFFICES ASSUME Init PROVE QueueInv
    OBVIOUS
  <1>1. TypeOK
    BY QueueAssumption, TimeAssumption
    DEF Init, TypeOK, PauseTypeOK, PAUSE_INFINITELY, DummyRequest, Checkpoint,
        BUNKER_MODE_DISABLED_TIMESTAMP
  <1>2. SumsIncrease /\ TimesIncrease /\ ClaimedIsFinalized /\ HintExists
    BY DEF Init, SumsIncrease, TimesIncrease, ClaimedIsFinalized, HintExists, DummyRequest
  <1>3. CheckpointsTile
    BY DEF Init, CheckpointsTile
  <1>4. OwnersExact
    BY DEF Init, OwnersExact
  <1> QED
    BY <1>1, <1>2, <1>3, <1>4 DEF QueueInv

\* A new request keeps the invariant: its sums extend the last ones and it
\* joins the open requests of its owner.
LEMMA EnqueueInv ==
    ASSUME QueueInv, NEW owner \in Users, NEW amount \in Nat,
           CheckWithdrawalRequestAmount(amount), Enqueue(amount, owner)
    PROVE  QueueInv'
  <1> DEFINE id     == lastRequestId + 1
             shares == getSharesByPooledEth(amount)
             new    == NewRequest(amount, shares, owner)
  <1>1. shares \in Nat \ {0}
    <2>1. /\ stETHRate.ether \in Nat \ {0} /\ stETHRate.shares \in Nat \ {0}
          /\ stETHRate.ether <= MIN_STETH_WITHDRAWAL_AMOUNT * stETHRate.shares
          /\ MIN_STETH_WITHDRAWAL_AMOUNT \in Nat /\ MIN_STETH_WITHDRAWAL_AMOUNT <= amount
      BY QueueAssumption, ShareAssumption
      DEF QueueInv, TypeOK, CheckWithdrawalRequestAmount
    <2> QED
      BY <2>1, ShareOfAmount DEF getSharesByPooledEth
  <1>2. /\ lastRequestId' = id
        /\ queue' = [i \in 0..id |-> IF i = id THEN new ELSE queue[i]]
        /\ requestsByOwner' = [requestsByOwner EXCEPT ![owner] = @ \cup {id}]
        /\ heldShares' = heldShares + shares
        /\ UNCHANGED <<pauseVars, finalVars, lockedEtherAmount, reportVars>>
    BY DEF Enqueue
  <1>3. /\ lastRequestId \in Nat /\ id \in Nat
        /\ queue[lastRequestId].cumulativeStETH \in Nat
        /\ queue[lastRequestId].cumulativeShares \in Nat
        /\ MIN_STETH_WITHDRAWAL_AMOUNT \in Nat /\ MIN_STETH_WITHDRAWAL_AMOUNT <= amount
    BY QueueAssumption
    DEF QueueInv, TypeOK, WithdrawalRequest, CheckWithdrawalRequestAmount
  <1>4. /\ new \in WithdrawalRequest
        /\ new.cumulativeStETH = queue[lastRequestId].cumulativeStETH + amount
        /\ new.cumulativeShares = queue[lastRequestId].cumulativeShares + shares
        /\ new.owner = owner /\ new.timestamp = now /\ ~new.claimed
        /\ new.reportTimestamp = lastReportTimestamp
    BY <1>1, <1>3 DEF QueueInv, TypeOK, PauseTypeOK, NewRequest, WithdrawalRequest
  <1>5. /\ queue'[id] = new
        /\ \A i \in 0..lastRequestId : queue'[i] = queue[i]
    BY <1>2, <1>3
  <1> HIDE DEF shares, new
  <1>6. TypeOK'
    <2>1. lastFinalizedRequestId \in 0..id
      BY <1>3 DEF QueueInv, TypeOK
    <2>2. DOMAIN queue' = 0..id /\ queue'[0] = queue[0]
      BY <1>2, <1>3, <1>5
    <2>3. \A i \in 1..id : queue'[i] \in WithdrawalRequest
      <3>1. \A i \in 1..id : i = id \/ i \in 1..lastRequestId
        BY <1>3
      <3> QED
        BY <3>1, <1>4, <1>5 DEF QueueInv, TypeOK
    <2>4. requestsByOwner' \in [Users -> SUBSET (1..id)]
      <3>1. 1..lastRequestId \subseteq 1..id /\ id \in 1..id
        BY <1>3
      <3> QED
        BY <3>1, <1>2 DEF QueueInv, TypeOK
    <2>5. heldShares' \in Nat
      BY <1>1, <1>2 DEF QueueInv, TypeOK
    <2> QED
      BY <2>1, <2>2, <2>3, <2>4, <2>5, <1>2, <1>3
      DEF QueueInv, TypeOK, PauseTypeOK, pauseVars, finalVars, reportVars
  <1>7. SumsIncrease'
    <2> SUFFICES ASSUME NEW i \in 1..id
                 PROVE  /\ queue'[i].cumulativeStETH >=
                             queue'[i - 1].cumulativeStETH + MIN_STETH_WITHDRAWAL_AMOUNT
                        /\ queue'[i].cumulativeShares > queue'[i - 1].cumulativeShares
      BY <1>2 DEF SumsIncrease
    <2>1. CASE i = id
      BY <2>1, <1>1, <1>3, <1>4, <1>5
    <2>2. CASE i # id
      <3>1. i \in 1..lastRequestId /\ i - 1 \in 0..lastRequestId
        BY <2>2, <1>3
      <3> QED
        BY <3>1, <1>5 DEF QueueInv, SumsIncrease
    <2> QED
      BY <2>1, <2>2
  <1>8. TimesIncrease'
    <2>1. ASSUME NEW i \in 1..id
          PROVE  /\ queue'[i].timestamp >= queue'[i - 1].timestamp
                 /\ queue'[i].reportTimestamp >= queue'[i - 1].reportTimestamp
      <3>1. CASE i = id
        BY <3>1, <1>3, <1>4, <1>5 DEF QueueInv, TimesIncrease
      <3>2. CASE i # id
        <4>1. i \in 1..lastRequestId /\ i - 1 \in 0..lastRequestId
          BY <3>2, <1>3
        <4> QED
          BY <4>1, <1>5 DEF QueueInv, TimesIncrease
      <3> QED
        BY <3>1, <3>2
    <2>2. ASSUME NEW i \in 0..id
          PROVE  queue'[i].timestamp <= now /\ queue'[i].reportTimestamp <= lastReportTimestamp
      <3>1. i = id \/ i \in 0..lastRequestId
        BY <1>3
      <3>2. CASE i = id
        <4>1. now \in Nat /\ lastReportTimestamp \in Nat
          BY DEF QueueInv, TypeOK, PauseTypeOK
        <4> QED
          BY <3>2, <4>1, <1>4, <1>5
      <3>3. CASE i \in 0..lastRequestId
        BY <3>3, <1>5 DEF QueueInv, TimesIncrease
      <3> QED
        BY <3>1, <3>2, <3>3
    <2> QED
      BY <2>1, <2>2, <1>2 DEF TimesIncrease, pauseVars, reportVars
  <1>9. CheckpointsTile' /\ HintExists'
    BY <1>2 DEF QueueInv, CheckpointsTile, HintExists, ValidHint, finalVars
  <1>10. OwnersExact'
    <2> SUFFICES ASSUME NEW u \in Users, NEW i \in 1..id
                 PROVE  i \in requestsByOwner'[u] <=> queue'[i].owner = u /\ ~queue'[i].claimed
      <3>1. requestsByOwner' \in [Users -> SUBSET (1..id)]
        BY <1>2, <1>6 DEF TypeOK
      <3>2. \A u \in Users : requestsByOwner'[u] \subseteq 1..id
        BY <3>1
      <3> QED
        BY <1>2, <3>2 DEF OwnersExact
    <2>1. CASE i = id
      BY <2>1, <1>2, <1>3, <1>4, <1>5 DEF QueueInv, TypeOK
    <2>2. CASE i # id
      <3>1. i \in 1..lastRequestId
        BY <2>2, <1>3
      <3> QED
        BY <3>1, <2>2, <1>2, <1>5 DEF QueueInv, TypeOK, OwnersExact
    <2> QED
      BY <2>1, <2>2
  <1>11. ClaimedIsFinalized'
    <2> SUFFICES ASSUME NEW i \in 1..id, queue'[i].claimed
                 PROVE  i <= lastFinalizedRequestId
      BY <1>2 DEF ClaimedIsFinalized, finalVars
    <2>1. i \in 1..lastRequestId
      BY <1>3, <1>4, <1>5
    <2> QED
      BY <2>1, <1>5 DEF QueueInv, ClaimedIsFinalized
  <1> QED
    BY <1>6, <1>7, <1>8, <1>9, <1>10, <1>11 DEF QueueInv

\* A finalization keeps the invariant: the new checkpoint starts after all the
\* others and is the hint of the requests it covers.
LEMMA FinalizeInv ==
    ASSUME QueueInv, NEW batches, NEW rate \in Nat, Finalize(batches, rate)
    PROVE  QueueInv'
  <1> DEFINE n     == lastCheckpointIndex
             first == lastFinalizedRequestId + 1
             new   == NewCheckpoint(rate)
  <1>1. PICK last \in first..lastRequestId, ether \in Nat, burnt \in 0..heldShares :
          /\ checkpoints' = [i \in 0..(n + 1) |-> IF i = n + 1 THEN new ELSE checkpoints[i]]
          /\ lastCheckpointIndex' = n + 1
          /\ lockedEtherAmount' = lockedEtherAmount + ether
          /\ lastFinalizedRequestId' = last
          /\ heldShares' = heldShares - burnt
    <2>1. \A a, b : a \in 1..b => a \in Nat
      OBVIOUS
    <2> QED
      BY <2>1 DEF Finalize
  <1>2. UNCHANGED <<pauseVars, queue, lastRequestId, requestsByOwner, reportVars>>
    BY DEF Finalize
  <1>3. /\ n \in Nat /\ n' = n + 1
        /\ lastFinalizedRequestId \in Nat /\ lastRequestId \in Nat
        /\ last \in Nat /\ first <= last /\ last <= lastRequestId
    BY <1>1 DEF QueueInv, TypeOK
  <1>4. new \in Checkpoint /\ new.fromRequestId = first
    BY <1>3 DEF NewCheckpoint, Checkpoint
  <1>5. /\ checkpoints'[n + 1] = new
        /\ \A i \in 0..n : checkpoints'[i] = checkpoints[i]
    BY <1>1, <1>3
  <1> HIDE DEF new
  <1>6. TypeOK'
    <2>1. checkpoints' \in [0..(n + 1) -> Checkpoint]
      BY <1>1, <1>3, <1>4 DEF QueueInv, TypeOK
    <2>2. lockedEtherAmount' \in Nat /\ heldShares' \in Nat
      BY <1>1 DEF QueueInv, TypeOK
    <2>3. lastFinalizedRequestId' \in 0..lastRequestId' /\ lastCheckpointIndex' \in Nat
      BY <1>1, <1>2, <1>3
    <2>4. checkpoints' \in [0..lastCheckpointIndex' -> Checkpoint]
      BY <2>1, <1>1
    <2> QED
      BY <2>2, <2>3, <2>4, <1>2 DEF QueueInv, TypeOK, PauseTypeOK, pauseVars, reportVars
  <1>7. (SumsIncrease /\ TimesIncrease /\ OwnersExact)'
    BY <1>2 DEF QueueInv, SumsIncrease, TimesIncrease, OwnersExact, pauseVars, reportVars
  <1>8. ClaimedIsFinalized'
    BY <1>1, <1>2, <1>3 DEF QueueInv, ClaimedIsFinalized, TypeOK
  <1>9. CheckpointsTile'
    <2>1. \A i \in 0..n : /\ checkpoints[i].fromRequestId \in Nat
                          /\ checkpoints[i].fromRequestId < first
      BY <1>3 DEF QueueInv, TypeOK, CheckpointsTile, Checkpoint
    <2>2. checkpoints'[0].fromRequestId = 0 /\ checkpoints'[1].fromRequestId = 1
      <3>1. CASE n = 0
        BY <3>1, <1>3, <1>4, <1>5 DEF QueueInv, CheckpointsTile
      <3>2. CASE n # 0
        BY <3>2, <1>3, <1>5 DEF QueueInv, CheckpointsTile
      <3> QED
        BY <3>1, <3>2
    <2>3. ASSUME NEW i \in 0..(n + 1), NEW j \in 0..(n + 1), i < j
          PROVE  checkpoints'[i].fromRequestId < checkpoints'[j].fromRequestId
      <3>1. i \in 0..n /\ (j = n + 1 \/ j \in 0..n)
        BY <1>3, <2>3
      <3> QED
        BY <3>1, <2>1, <2>3, <1>4, <1>5 DEF QueueInv, CheckpointsTile
    <2>4. ASSUME NEW i \in 0..(n + 1)
          PROVE  checkpoints'[i].fromRequestId <= last
      <3>1. i = n + 1 \/ i \in 0..n
        BY <1>3
      <3> QED
        BY <3>1, <2>1, <1>3, <1>4, <1>5
    <2> QED
      BY <2>2, <2>3, <2>4, <1>1, <1>3 DEF CheckpointsTile
  <1>10. HintExists'
    <2> SUFFICES ASSUME NEW id \in 1..last
                 PROVE  \E h \in 1..(n + 1) :
                          /\ id >= checkpoints'[h].fromRequestId
                          /\ h < n + 1 => id < checkpoints'[h + 1].fromRequestId
      BY <1>1, <1>3 DEF HintExists, ValidHint
    <2>1. CASE id >= first
      <3>1. id >= checkpoints'[n + 1].fromRequestId /\ n + 1 \in 1..(n + 1)
        BY <2>1, <1>3, <1>4, <1>5
      <3> QED
        BY <3>1, <1>3
    <2>2. CASE ~(id >= first)
      <3>1. PICK h \in 1..n : ValidHint(id, h)
        BY <2>2, <1>3 DEF QueueInv, HintExists
      <3>2. /\ h \in 1..(n + 1)
            /\ id >= checkpoints'[h].fromRequestId
        BY <3>1, <1>3, <1>5 DEF ValidHint
      <3>3. id < checkpoints'[h + 1].fromRequestId
        <4>1. CASE h = n
          BY <4>1, <2>2, <1>3, <1>4, <1>5
        <4>2. CASE h < n
          BY <4>2, <3>1, <1>3, <1>5 DEF ValidHint
        <4> QED
          BY <4>1, <4>2, <3>1, <1>3
      <3> QED
        BY <3>2, <3>3
    <2> QED
      BY <2>1, <2>2, <1>3
  <1> QED
    BY <1>6, <1>7, <1>8, <1>9, <1>10 DEF QueueInv

\* A claim keeps the invariant: the request leaves the open requests of the
\* sender, who is its owner, and of nobody else.
LEMMA ClaimInv ==
    ASSUME QueueInv, NEW sender \in Users, NEW id, NEW hint, Claim(sender, id, hint)
    PROVE  QueueInv'
  <1>1. /\ id \in 1..lastFinalizedRequestId /\ id \in 1..lastRequestId
        /\ queue[id].owner = sender /\ ~queue[id].claimed
        /\ queue[id] \in WithdrawalRequest
    BY DEF Claim, QueueInv, TypeOK
  <1>2. PICK ether \in 0..lockedEtherAmount : lockedEtherAmount' = lockedEtherAmount - ether
    BY DEF Claim
  <1>3. /\ queue' = [queue EXCEPT ![id].claimed = TRUE]
        /\ requestsByOwner' = [requestsByOwner EXCEPT ![sender] = @ \ {id}]
        /\ UNCHANGED <<pauseVars, lastRequestId, heldShares, finalVars, reportVars>>
    BY DEF Claim, CloseRequest
  <1>4. /\ DOMAIN queue' = 0..lastRequestId
        /\ queue'[id] = [queue[id] EXCEPT !.claimed = TRUE]
        /\ \A i \in 0..lastRequestId : i # id => queue'[i] = queue[i]
    <2>1. DOMAIN queue = 0..lastRequestId /\ id \in 0..lastRequestId
      BY <1>1 DEF QueueInv, TypeOK
    <2> QED
      BY <2>1, <1>3
  <1>5. /\ queue'[id] \in WithdrawalRequest
        /\ queue'[id].claimed
        /\ queue'[id].owner = sender
    BY <1>1, <1>4 DEF WithdrawalRequest
  <1>6. \A i \in 0..lastRequestId :
          /\ queue'[i].cumulativeStETH = queue[i].cumulativeStETH
          /\ queue'[i].cumulativeShares = queue[i].cumulativeShares
          /\ queue'[i].timestamp = queue[i].timestamp
          /\ queue'[i].reportTimestamp = queue[i].reportTimestamp
    BY <1>1, <1>4 DEF WithdrawalRequest
  <1>7. TypeOK'
    <2>1. queue'[0] = queue[0]
      BY <1>1, <1>4 DEF QueueInv, TypeOK
    <2>2. \A i \in 1..lastRequestId : queue'[i] \in WithdrawalRequest
      BY <1>4, <1>5 DEF QueueInv, TypeOK
    <2>3. requestsByOwner' \in [Users -> SUBSET (1..lastRequestId)]
      BY <1>3 DEF QueueInv, TypeOK
    <2>4. lockedEtherAmount' \in Nat
      BY <1>2 DEF QueueInv, TypeOK
    <2> QED
      BY <2>1, <2>2, <2>3, <2>4, <1>3, <1>4
      DEF QueueInv, TypeOK, PauseTypeOK, pauseVars, finalVars, reportVars
  <1>8. SumsIncrease' /\ TimesIncrease'
    <2>1. \A i \in 1..lastRequestId : i \in 0..lastRequestId /\ i - 1 \in 0..lastRequestId
      BY DEF QueueInv, TypeOK
    <2>2. SumsIncrease'
      BY <2>1, <1>3, <1>6 DEF QueueInv, SumsIncrease
    <2>3. TimesIncrease'
      BY <2>1, <1>3, <1>6 DEF QueueInv, TimesIncrease, pauseVars, reportVars
    <2> QED
      BY <2>2, <2>3
  <1>9. CheckpointsTile' /\ HintExists'
    BY <1>3 DEF QueueInv, CheckpointsTile, HintExists, ValidHint, finalVars
  <1>10. OwnersExact'
    <2> SUFFICES ASSUME NEW u \in Users, NEW i \in 1..lastRequestId
                 PROVE  i \in requestsByOwner'[u] <=> queue'[i].owner = u /\ ~queue'[i].claimed
      BY <1>3, <1>7 DEF OwnersExact, TypeOK
    <2>1. CASE i = id
      BY <2>1, <1>1, <1>3, <1>5 DEF QueueInv, TypeOK, OwnersExact
    <2>2. CASE i # id
      BY <2>2, <1>3, <1>4 DEF QueueInv, TypeOK, OwnersExact
    <2> QED
      BY <2>1, <2>2
  <1>11. ClaimedIsFinalized'
    BY <1>1, <1>3, <1>4 DEF QueueInv, TypeOK, ClaimedIsFinalized, finalVars
  <1> QED
    BY <1>7, <1>8, <1>9, <1>10, <1>11 DEF QueueInv

\* A report changes the bunker mode, the report timestamp and the rate.
LEMMA ReportInv ==
    ASSUME QueueInv, NEW bunker \in BOOLEAN, NEW start \in 0..MaxTime,
           NEW time \in 0..MaxTime, NEW rate \in Rates,
           OnOracleReport(bunker, start, time, rate)
    PROVE  QueueInv'
  <1>1. /\ lastReportTimestamp' = time /\ lastReportTimestamp < time
        /\ stETHRate' = rate
        /\ UNCHANGED <<pauseVars, requestVars, finalVars, lockedEtherAmount>>
    BY DEF OnOracleReport
  <1>2. bunkerModeSinceTimestamp' \in 0..MaxTime \cup {BUNKER_MODE_DISABLED_TIMESTAMP}
    BY DEF OnOracleReport, QueueInv, TypeOK
  <1>3. TypeOK'
    BY <1>1, <1>2 DEF QueueInv, TypeOK, PauseTypeOK, pauseVars, requestVars, finalVars
  <1>4. TimesIncrease'
    <2>1. \A i \in 0..lastRequestId : queue[i].reportTimestamp \in Nat
      BY DEF QueueInv, TypeOK, WithdrawalRequest
    <2> QED
      BY <2>1, <1>1, <1>3 DEF QueueInv, TypeOK, TimesIncrease, pauseVars, requestVars
  <1>5. (SumsIncrease /\ CheckpointsTile /\ OwnersExact /\ ClaimedIsFinalized /\ HintExists)'
    BY <1>1 DEF QueueInv, SumsIncrease, CheckpointsTile, OwnersExact, ClaimedIsFinalized,
                HintExists, ValidHint, requestVars, finalVars
  <1> QED
    BY <1>3, <1>4, <1>5 DEF QueueInv

\* The pause and the clock leave the queue alone.
LEMMA ClockInv ==
    ASSUME QueueInv, now' \in 0..MaxTime, now <= now', resumeSince' \in 0..UintMax,
           UNCHANGED queueVars
    PROVE  QueueInv'
  <1> USE DEF QueueInv, queueVars, requestVars, finalVars, reportVars
  <1>1. TypeOK'
    BY DEF TypeOK, PauseTypeOK
  <1>2. TimesIncrease'
    <2>1. now \in Nat /\ now' \in Nat
      BY DEF TypeOK, PauseTypeOK
    <2>2. \A i \in 0..lastRequestId : queue[i].timestamp \in Nat
      BY DEF TypeOK, WithdrawalRequest
    <2> QED
      BY <2>1, <2>2 DEF TimesIncrease
  <1>3. (SumsIncrease /\ CheckpointsTile /\ OwnersExact /\ ClaimedIsFinalized /\ HintExists)'
    BY DEF SumsIncrease, CheckpointsTile, OwnersExact, ClaimedIsFinalized, HintExists, ValidHint
  <1> QED
    BY <1>1, <1>2, <1>3

\* Every call keeps the storage consistent.
THEOREM NextInv == QueueInv /\ [Next]_vars => QueueInv'
  <1> SUFFICES ASSUME QueueInv, [Next]_vars PROVE QueueInv'
    OBVIOUS
  <1>0. now \in 0..MaxTime /\ resumeSince \in 0..UintMax
    BY DEF QueueInv, TypeOK, PauseTypeOK
  <1>1. CASE AnyFinalize
    BY <1>1, FinalizeInv, ShareRateNat DEF AnyFinalize
  <1>2. CASE UserStep
    <2>1. PICK u \in Users :
            \/ \E amount \in Amounts : RequestWithdrawal(amount, u)
            \/ \E amount \in Amounts : RequestWithdrawalWstETH(amount, u)
            \/ \E id \in 0..(lastRequestId + 1) : ClaimWithdrawal(u, id)
            \/ \E id \in 0..(lastRequestId + 1), hint \in 0..(lastCheckpointIndex + 1) :
                   ClaimWithdrawals(u, id, hint)
      BY <1>2 DEF UserStep
    <2>2. ASSUME NEW amount \in Amounts, RequestWithdrawal(amount, u)
          PROVE  QueueInv'
      BY <2>2, QueueAssumption, EnqueueInv DEF RequestWithdrawal
    <2>3. ASSUME NEW amount \in Amounts, RequestWithdrawalWstETH(amount, u)
          PROVE  QueueInv'
      <3>1. getPooledEthByShares(amount) \in Nat
        <4>1. amount * stETHRate.ether \in Nat /\ stETHRate.shares \in Nat \ {0}
          BY QueueAssumption DEF QueueInv, TypeOK
        <4> QED
          BY <4>1, DivNat DEF getPooledEthByShares
      <3> QED
        BY <3>1, <2>3, EnqueueInv DEF RequestWithdrawalWstETH
    <2>4. ASSUME NEW id, ClaimWithdrawal(u, id) PROVE QueueInv'
      BY <2>4, ClaimInv DEF ClaimWithdrawal
    <2>5. ASSUME NEW id, NEW hint, ClaimWithdrawals(u, id, hint) PROVE QueueInv'
      BY <2>5, ClaimInv DEF ClaimWithdrawals
    <2> QED
      BY <2>1, <2>2, <2>3, <2>4, <2>5
  <1>3. CASE ReportStep
    BY <1>3, ReportInv DEF ReportStep
  <1>4. CASE PauseStep
    <2>1. UNCHANGED <<now, queueVars>>
      BY <1>4 DEF PauseStep, Resume, PauseFor, PauseUntil
    <2>2. resumeSince' \in 0..UintMax
      BY <1>0, <1>4, QueueAssumption, TimeAssumption
      DEF PauseStep, Resume, PauseFor, PauseUntil, DoResume, DoPauseFor, DoPauseUntil,
          PAUSE_INFINITELY
    <2>3. now' \in 0..MaxTime /\ now <= now' /\ UNCHANGED queueVars
      BY <1>0, <2>1
    <2> QED
      BY <2>2, <2>3, ClockInv
  <1>5. CASE Tick
    <2>1. UNCHANGED queueVars /\ resumeSince' \in 0..UintMax
      BY <1>5, <1>0 DEF Tick
    <2>2. now' \in 0..MaxTime /\ now <= now'
      BY <1>5, <1>0, TimeAssumption DEF Tick, DoTick
    <2> QED
      BY <2>1, <2>2, ClockInv
  <1>6. CASE UNCHANGED vars
    <2>1. UNCHANGED <<now, resumeSince, queueVars>>
      BY <1>6 DEF vars, pauseVars
    <2>2. now' \in 0..MaxTime /\ now <= now' /\ resumeSince' \in 0..UintMax
      BY <2>1, <1>0
    <2> QED
      BY <2>1, <2>2, ClockInv
  <1> QED
    BY <1>1, <1>2, <1>3, <1>4, <1>5, <1>6 DEF Next, OtherStep

\* The invariant holds in every reachable state of the queue.
THEOREM QueueInvariant == Spec => []QueueInv
  BY InitInv, NextInv, PTL DEF Spec

\* Every slot of the storage holds a value of its type, in every reachable state.
THEOREM TypeCorrect == Spec => []TypeOK
  <1>1. QueueInv => TypeOK
    BY DEF QueueInv
  <1> QED
    BY <1>1, QueueInvariant, PTL

\* The storage relates as the code relies on: the sums and the times grow, and
\* every finalized request can be claimed with some hint.
THEOREM StorageConsistent == Spec => [](SumsIncrease /\ TimesIncrease /\ HintExists)
  <1>1. QueueInv => SumsIncrease /\ TimesIncrease /\ HintExists
    BY DEF QueueInv
  <1> QED
    BY <1>1, QueueInvariant, PTL

\* The checkpoints tile the finalized requests in every reachable state.
THEOREM CheckpointsAlwaysTile == Spec => []CheckpointsTile
  <1>1. QueueInv => CheckpointsTile
    BY DEF QueueInv
  <1> QED
    BY <1>1, QueueInvariant, PTL

\* The set of an owner's open requests is exact in every reachable state.
THEOREM OwnersAlwaysExact == Spec => []OwnersExact
  <1>1. QueueInv => OwnersExact
    BY DEF QueueInv
  <1> QED
    BY <1>1, QueueInvariant, PTL

-----------------------------------------------------------------------------
(* What a request is worth                                                 *)

\* The price of one request is a natural number, no more than its stETH.
LEMMA PriceBounded ==
    ASSUME QueueInv, NEW id \in 1..lastRequestId, NEW maxRate \in Nat
    PROVE  /\ BatchStETH(id - 1, id) \in Nat
           /\ BatchEther(id - 1, id, maxRate) \in Nat
           /\ BatchEther(id - 1, id, maxRate) <= BatchStETH(id - 1, id)
  <1>1. /\ queue[id].cumulativeStETH \in Nat /\ queue[id].cumulativeShares \in Nat
        /\ queue[id - 1].cumulativeStETH \in Nat /\ queue[id - 1].cumulativeShares \in Nat
        /\ queue[id].cumulativeStETH >= queue[id - 1].cumulativeStETH
        /\ queue[id].cumulativeShares > queue[id - 1].cumulativeShares
    <2>1. id - 1 = 0 \/ id - 1 \in 1..lastRequestId
      BY DEF QueueInv, TypeOK
    <2>2. /\ queue[id] \in WithdrawalRequest
          /\ queue[id - 1].cumulativeStETH \in Nat /\ queue[id - 1].cumulativeShares \in Nat
      BY <2>1 DEF QueueInv, TypeOK, WithdrawalRequest
    <2>3. MIN_STETH_WITHDRAWAL_AMOUNT \in Nat
      BY QueueAssumption
    <2> QED
      BY <2>2, <2>3 DEF QueueInv, SumsIncrease, WithdrawalRequest
  <1>2. BatchStETH(id - 1, id) \in Nat /\ BatchShares(id - 1, id) \in Nat \ {0}
    BY <1>1 DEF BatchStETH, BatchShares
  <1>3. CASE BatchShareRate(id - 1, id) > maxRate
    <2>1. (BatchShares(id - 1, id) * maxRate) \div E27_PRECISION_BASE <= BatchStETH(id - 1, id)
      BY <1>2, <1>3, QueueAssumption, DiscountLowers DEF BatchShareRate
    <2>2. (BatchShares(id - 1, id) * maxRate) \div E27_PRECISION_BASE \in Nat
      <3>1. BatchShares(id - 1, id) * maxRate \in Nat
        BY <1>2, SMT
      <3> QED
        BY <3>1, QueueAssumption, DivNat
    <2> QED
      BY <1>2, <1>3, <2>1, <2>2 DEF BatchEther
  <1>4. CASE ~(BatchShareRate(id - 1, id) > maxRate)
    BY <1>2, <1>4 DEF BatchEther
  <1> QED
    BY <1>3, <1>4

\* A request has at most one hint, and a finalized one has exactly one: two
\* checkpoints cannot both be the last that starts at or before it.
LEMMA HintUnique ==
    ASSUME QueueInv, NEW id \in 1..lastFinalizedRequestId
    PROVE  \E h \in 1..lastCheckpointIndex : Hints(id) = {h}
  <1>1. PICK h \in 1..lastCheckpointIndex : ValidHint(id, h)
    BY DEF QueueInv, HintExists
  <1>2. ASSUME NEW j \in 1..lastCheckpointIndex, NEW k \in 1..lastCheckpointIndex,
               ValidHint(id, j), ValidHint(id, k), j < k
        PROVE  FALSE
    <2>1. /\ j + 1 \in 0..lastCheckpointIndex /\ k \in 0..lastCheckpointIndex
          /\ checkpoints[j + 1].fromRequestId \in Nat /\ checkpoints[k].fromRequestId \in Nat
          /\ id \in Nat /\ lastCheckpointIndex \in Nat
      BY <1>2 DEF QueueInv, TypeOK, Checkpoint
    <2>2. checkpoints[j + 1].fromRequestId <= checkpoints[k].fromRequestId
      BY <1>2, <2>1 DEF QueueInv, CheckpointsTile
    <2> QED
      BY <1>2, <2>1, <2>2 DEF ValidHint
  <1>3. ASSUME NEW k \in 1..lastCheckpointIndex, ValidHint(id, k)
        PROVE  k = h
    <2>1. k < h \/ h < k \/ k = h
      BY DEF QueueInv, TypeOK
    <2> QED
      BY <1>1, <1>2, <1>3, <2>1
  <1> QED
    BY <1>1, <1>3 DEF Hints

OneHint ==
    \A id \in 1..lastFinalizedRequestId :
        \E h \in 1..lastCheckpointIndex : Hints(id) = {h}

\* A finalized request has one valid hint.
LEMMA HintsAreOne == QueueInv => OneHint
  BY HintUnique DEF OneHint

\* Any hint that _claim accepts gives the same worth.
LEMMA WorthByHint ==
    ASSUME QueueInv, NEW id \in 1..lastFinalizedRequestId,
           NEW h \in 1..lastCheckpointIndex, ValidHint(id, h)
    PROVE  ClaimableEther(id) = CalculateClaimableEther(id, h)
  <1>1. Hints(id) = {h}
    BY HintUnique DEF Hints
  <1>2. OneOf({h}) = h
    BY DEF OneOf
  <1> QED
    BY <1>1, <1>2 DEF ClaimableEther

\* The worth of a finalized request is a natural number, no more than nominal.
LEMMA WorthBounded ==
    ASSUME QueueInv, NEW id \in 1..lastFinalizedRequestId
    PROVE  ClaimableEther(id) \in Nat /\ ClaimableEther(id) <= BatchStETH(id - 1, id)
  <1>1. PICK h \in 1..lastCheckpointIndex : ValidHint(id, h)
    BY DEF QueueInv, HintExists
  <1>2. checkpoints[h].maxShareRate \in Nat /\ id \in 1..lastRequestId
    BY DEF QueueInv, TypeOK, Checkpoint
  <1> QED
    BY <1>1, <1>2, WorthByHint, PriceBounded DEF CalculateClaimableEther

-----------------------------------------------------------------------------
(* The queue implements the escrow                                         *)

\* The pending worth, the finalized worth and the status are natural numbers
\* and statuses.
WorthIsNat == worth \in [1..lastRequestId -> Nat]

\* What a finalized request is worth is a natural number.
LEMMA WorthType == QueueInv => WorthIsNat
  <1> SUFFICES ASSUME QueueInv PROVE worth \in [1..lastRequestId -> Nat]
    BY DEF WorthIsNat
  <1> SUFFICES ASSUME NEW i \in 1..lastRequestId
               PROVE  (IF i <= lastFinalizedRequestId THEN ClaimableEther(i)
                       ELSE BatchStETH(i - 1, i)) \in Nat
    BY DEF worth
  <1>1. BatchStETH(i - 1, i) \in Nat
    BY PriceBounded
  <1>2. CASE i <= lastFinalizedRequestId
    <2>1. i \in 1..lastFinalizedRequestId
      BY <1>2 DEF QueueInv, TypeOK
    <2> QED
      BY <2>1, <1>2, WorthBounded
  <1> QED
    BY <1>1, <1>2

\* What the price of a request depends on: its own two sums and the one rate.
LEMMA PriceKept ==
    ASSUME NEW i \in 1..lastRequestId, NEW maxRate, lastRequestId \in Nat,
           \A j \in 0..lastRequestId :
               /\ queue'[j].cumulativeStETH = queue[j].cumulativeStETH
               /\ queue'[j].cumulativeShares = queue[j].cumulativeShares
    PROVE  /\ BatchStETH(i - 1, i)' = BatchStETH(i - 1, i)
           /\ BatchShares(i - 1, i)' = BatchShares(i - 1, i)
           /\ BatchShareRate(i - 1, i)' = BatchShareRate(i - 1, i)
  <1>1. i \in 0..lastRequestId /\ i - 1 \in 0..lastRequestId
    OBVIOUS
  <1>2. /\ BatchStETH(i - 1, i)' = BatchStETH(i - 1, i)
        /\ BatchShares(i - 1, i)' = BatchShares(i - 1, i)
    BY <1>1 DEF BatchStETH, BatchShares
  <1> QED
    BY <1>2 DEF BatchShareRate

\* The worth of a finalized request is kept by every step that keeps the sums
\* of the requests and the checkpoints its hint looks at.
LEMMA WorthKept ==
    ASSUME QueueInv, QueueInv', NEW i \in 1..lastFinalizedRequestId,
           lastFinalizedRequestId' >= lastFinalizedRequestId,
           NEW h \in 1..lastCheckpointIndex, h \in 1..lastCheckpointIndex',
           ValidHint(i, h), ValidHint(i, h)',
           checkpoints'[h] = checkpoints[h],
           \A j \in 0..lastRequestId :
               /\ queue'[j].cumulativeStETH = queue[j].cumulativeStETH
               /\ queue'[j].cumulativeShares = queue[j].cumulativeShares
    PROVE  ClaimableEther(i)' = ClaimableEther(i)
  <1>1. /\ i \in 1..lastRequestId /\ lastRequestId \in Nat
        /\ i \in 1..lastFinalizedRequestId'
    BY DEF QueueInv, TypeOK
  <1>2. CalculateClaimableEther(i, h)' = CalculateClaimableEther(i, h)
    BY <1>1, PriceKept DEF CalculateClaimableEther, BatchEther
  <1>3. ClaimableEther(i) = CalculateClaimableEther(i, h)
    BY WorthByHint
  <1>4. ClaimableEther(i)' = CalculateClaimableEther(i, h)'
    <2>1. Hints(i)' = {h}
      <3>1. QueueInv' => OneHint'
        BY HintsAreOne, PTL
      <3>2. \E k \in 1..lastCheckpointIndex' : Hints(i)' = {k}
        BY <1>1, <3>1 DEF OneHint
      <3> QED
        BY <3>2 DEF Hints
    <2>2. OneOf({h}) = h
      BY DEF OneOf
    <2> QED
      BY <2>1, <2>2 DEF ClaimableEther
  <1> QED
    BY <1>2, <1>3, <1>4

\* A new queue is a new escrow.
LEMMA EscrowInit == Init => Escrow!Init
  <1> SUFFICES ASSUME Init PROVE Escrow!Init
    OBVIOUS
  <1>1. lastRequestId = 0 /\ lockedEtherAmount = 0
    BY DEF Init
  <1>2. status = [i \in 1..0 |-> "pending"]
    BY <1>1 DEF status
  <1>3. worth = [i \in 1..0 |-> 0]
    BY <1>1 DEF worth
  <1> QED
    BY <1>1, <1>2, <1>3 DEF Escrow!Init

\* A step that keeps the requests, their sums and flags, the checkpoints and
\* what is finalized keeps the worth and the status of every request.
LEMMA EscrowStutter ==
    ASSUME QueueInv, QueueInv', UNCHANGED <<queue, lastRequestId>>,
           UNCHANGED finalVars, UNCHANGED lockedEtherAmount
    PROVE  UNCHANGED Escrow!vars
  <1>1. status' = status
    BY DEF status, finalVars
  <1>2. ASSUME NEW i \in 1..lastRequestId
        PROVE  /\ BatchStETH(i - 1, i)' = BatchStETH(i - 1, i)
               /\ i <= lastFinalizedRequestId => ClaimableEther(i)' = ClaimableEther(i)
    <2>1. BatchStETH(i - 1, i)' = BatchStETH(i - 1, i)
      BY DEF BatchStETH
    <2>2. ASSUME i <= lastFinalizedRequestId
          PROVE  ClaimableEther(i)' = ClaimableEther(i)
      <3>1. i \in 1..lastFinalizedRequestId
        BY <2>2 DEF QueueInv, TypeOK
      <3>2. PICK h \in 1..lastCheckpointIndex : ValidHint(i, h)
        BY <3>1 DEF QueueInv, HintExists
      <3>3. /\ lastFinalizedRequestId' >= lastFinalizedRequestId
            /\ h \in 1..lastCheckpointIndex'
            /\ checkpoints'[h] = checkpoints[h]
        BY DEF finalVars, QueueInv, TypeOK
      <3>4. ValidHint(i, h)'
        BY <3>2 DEF ValidHint, finalVars
      <3> QED
        BY <3>1, <3>2, <3>3, <3>4, WorthKept
    <2> QED
      BY <2>1, <2>2
  <1>3. worth' = worth
    BY <1>2 DEF worth, finalVars
  <1> QED
    BY <1>1, <1>3 DEF Escrow!vars

\* A request is one of the escrow.
LEMMA EscrowRequest ==
    ASSUME QueueInv, QueueInv', NEW owner \in Users, NEW amount \in Nat, Enqueue(amount, owner)
    PROVE  Escrow!Request
  <1> DEFINE n == lastRequestId
  <1>1. /\ lastRequestId' = n + 1 /\ n \in Nat
        /\ UNCHANGED finalVars /\ UNCHANGED lockedEtherAmount
        /\ \A i \in 0..n : queue'[i] = queue[i]
        /\ queue'[n + 1].claimed = FALSE
        /\ lastFinalizedRequestId <= n
    <2>1. lastRequestId \in Nat
      BY DEF QueueInv, TypeOK
    <2> QED
      BY <2>1 DEF Enqueue, NewRequest, QueueInv, TypeOK
  <1>2. status' = [i \in 1..(n + 1) |-> IF i = n + 1 THEN "pending" ELSE status[i]]
    <2>1. status' = [i \in 1..(n + 1) |->
                        IF queue'[i].claimed THEN "claimed"
                        ELSE IF i <= lastFinalizedRequestId THEN "finalized"
                        ELSE "pending"]
      BY <1>1 DEF status, finalVars
    <2>2. ASSUME NEW i \in 1..(n + 1)
          PROVE  (IF queue'[i].claimed THEN "claimed"
                  ELSE IF i <= lastFinalizedRequestId THEN "finalized" ELSE "pending")
                 = (IF i = n + 1 THEN "pending" ELSE status[i])
      <3>1. CASE i = n + 1
        BY <3>1, <1>1 DEF QueueInv, TypeOK
      <3>2. CASE i # n + 1
        <4>1. i \in 1..n /\ i \in 0..n
          BY <3>2, <1>1
        <4> QED
          BY <4>1, <3>2, <1>1 DEF status
      <3> QED
        BY <3>1, <3>2
    <2> QED
      BY <2>1, <2>2
  <1>3. worth' \in [1..(n + 1) -> Nat]
    <2>1. WorthIsNat'
      BY WorthType, PTL
    <2> QED
      BY <2>1, <1>1 DEF WorthIsNat
  <1>4. ASSUME NEW i \in 1..n
        PROVE  worth'[i] = worth[i]
    <2>1. worth'[i] = IF i <= lastFinalizedRequestId THEN ClaimableEther(i)'
                      ELSE BatchStETH(i - 1, i)'
      BY <1>1 DEF worth, finalVars
    <2>2. worth[i] = IF i <= lastFinalizedRequestId THEN ClaimableEther(i)
                     ELSE BatchStETH(i - 1, i)
      BY DEF worth
    <2>3. BatchStETH(i - 1, i)' = BatchStETH(i - 1, i)
      BY <1>1, PriceKept
    <2>4. CASE i <= lastFinalizedRequestId
      <3>1. i \in 1..lastFinalizedRequestId
        BY <2>4 DEF QueueInv, TypeOK
      <3>2. PICK h \in 1..lastCheckpointIndex : ValidHint(i, h)
        BY <3>1 DEF QueueInv, HintExists
      <3>3. /\ lastFinalizedRequestId' >= lastFinalizedRequestId
            /\ h \in 1..lastCheckpointIndex'
            /\ checkpoints'[h] = checkpoints[h]
        BY <1>1 DEF finalVars, QueueInv, TypeOK
      <3>4. ValidHint(i, h)'
        BY <3>2, <1>1 DEF ValidHint, finalVars
      <3>5. ClaimableEther(i)' = ClaimableEther(i)
        BY <1>1, <3>1, <3>2, <3>3, <3>4, WorthKept
      <3> QED
        BY <2>1, <2>2, <2>4, <3>5
    <2> QED
      BY <2>1, <2>2, <2>3, <2>4
  <1> QED
    BY <1>1, <1>2, <1>3, <1>4 DEF Escrow!Request

WorthsBounded ==
    \A id \in 1..lastFinalizedRequestId : ClaimableEther(id) <= BatchStETH(id - 1, id)

\* A finalized request is worth no more than its stETH.
LEMMA WorthsAreBounded == QueueInv => WorthsBounded
  BY WorthBounded DEF WorthsBounded

\* A finalization is one of the escrow, at its rate and for its requests.
LEMMA EscrowFinalize ==
    ASSUME QueueInv, QueueInv', NEW batches, NEW rate \in Nat, Finalize(batches, rate)
    PROVE  Escrow!Finalize
  <1> DEFINE n == lastRequestId
             f == lastFinalizedRequestId
             c == lastCheckpointIndex
  <1>1. PICK last \in (f + 1)..n, ether \in Nat \ {0} :
          /\ checkpoints' = [i \in 0..(c + 1) |-> IF i = c + 1 THEN NewCheckpoint(rate)
                                                  ELSE checkpoints[i]]
          /\ lastCheckpointIndex' = c + 1
          /\ lockedEtherAmount' = lockedEtherAmount + ether
          /\ lastFinalizedRequestId' = last
    <2>1. \A a, b : a \in 1..b => a \in Nat \ {0}
      OBVIOUS
    <2> QED
      BY <2>1 DEF Finalize
  <1>2. UNCHANGED queue /\ UNCHANGED lastRequestId
    BY DEF Finalize
  <1>3. /\ n \in Nat /\ f \in Nat /\ c \in Nat /\ last \in Nat /\ f < last /\ last <= n
        /\ lockedEtherAmount \in Nat
        /\ \A i \in 0..c : checkpoints'[i] = checkpoints[i]
        /\ checkpoints'[c + 1].fromRequestId = f + 1
    <2>1. n \in Nat /\ f \in Nat /\ c \in Nat /\ lockedEtherAmount \in Nat
      BY DEF QueueInv, TypeOK
    <2> QED
      BY <2>1, <1>1 DEF NewCheckpoint
  <1>4. \A i \in 1..n : queue[i].claimed => i <= f
    BY DEF QueueInv, ClaimedIsFinalized
  <1>5. status' = [i \in 1..n |-> IF i <= last /\ status[i] = "pending" THEN "finalized"
                                  ELSE status[i]]
    <2>1. status' = [i \in 1..n |-> IF queue[i].claimed THEN "claimed"
                                    ELSE IF i <= last THEN "finalized" ELSE "pending"]
      BY <1>1, <1>2 DEF status
    <2>2. ASSUME NEW i \in 1..n
          PROVE  (IF queue[i].claimed THEN "claimed"
                  ELSE IF i <= last THEN "finalized" ELSE "pending")
                 = (IF i <= last /\ status[i] = "pending" THEN "finalized" ELSE status[i])
      <3>1. status[i] = IF queue[i].claimed THEN "claimed"
                        ELSE IF i <= f THEN "finalized" ELSE "pending"
        BY DEF status
      <3>2. i \in Nat
        BY <1>3
      <3> QED
        BY <3>1, <3>2, <1>3, <1>4
    <2> QED
      BY <2>1, <2>2
  <1>6. last \in 1..n /\ status[last] = "pending"
    BY <1>3, <1>4 DEF status
  <1>7. worth' \in [1..n -> Nat]
    <2>1. WorthIsNat'
      BY WorthType, PTL
    <2> QED
      BY <2>1, <1>2 DEF WorthIsNat
  <1>8. ASSUME NEW i \in 1..n
        PROVE  IF status'[i] # status[i] THEN worth'[i] <= worth[i] ELSE worth'[i] = worth[i]
    <2>1. worth'[i] = IF i <= last THEN ClaimableEther(i)' ELSE BatchStETH(i - 1, i)'
      BY <1>1, <1>2 DEF worth
    <2>2. worth[i] = IF i <= f THEN ClaimableEther(i) ELSE BatchStETH(i - 1, i)
      BY DEF worth
    <2>3. BatchStETH(i - 1, i)' = BatchStETH(i - 1, i)
      BY <1>2 DEF BatchStETH
    <2>4. CASE i <= f
      <3>1. i \in 1..f
        BY <2>4, <1>3
      <3>2. PICK h \in 1..c : ValidHint(i, h)
        BY <3>1 DEF QueueInv, HintExists
      <3>3. ValidHint(i, h)'
        <4>1. i >= checkpoints'[h].fromRequestId
          BY <3>2, <1>3 DEF ValidHint
        <4>2. i < checkpoints'[h + 1].fromRequestId
          <5>1. CASE h = c
            BY <5>1, <2>4, <1>3
          <5>2. CASE h < c
            BY <5>2, <3>2, <1>3 DEF ValidHint
          <5> QED
            BY <5>1, <5>2, <1>3
        <4>3. h \in 1..(c + 1)
          BY <1>3
        <4> QED
          BY <4>1, <4>2, <4>3, <1>1 DEF ValidHint
      <3>4. /\ lastFinalizedRequestId' >= lastFinalizedRequestId
            /\ h \in 1..lastCheckpointIndex'
            /\ checkpoints'[h] = checkpoints[h]
        BY <1>1, <1>3
      <3>5. ClaimableEther(i)' = ClaimableEther(i)
        BY <1>2, <3>1, <3>2, <3>3, <3>4, WorthKept
      <3>6. status'[i] = status[i]
        BY <1>3, <1>5, <2>4 DEF status
      <3> QED
        BY <2>1, <2>2, <2>4, <3>5, <3>6, <1>3
    <2>5. CASE ~(i <= f) /\ i <= last
      <3>1. WorthsBounded'
        BY WorthsAreBounded, PTL
      <3>2. ClaimableEther(i)' <= BatchStETH(i - 1, i)'
        BY <3>1, <2>5, <1>1, <1>3 DEF WorthsBounded
      <3>3. status'[i] # status[i]
        BY <1>4, <1>5, <2>5 DEF status
      <3> QED
        BY <2>1, <2>2, <2>3, <2>5, <3>2, <3>3
    <2>6. CASE ~(i <= f) /\ ~(i <= last)
      <3>1. status'[i] = status[i]
        BY <1>5, <2>6
      <3> QED
        BY <2>1, <2>2, <2>3, <2>6, <3>1
    <2> QED
      BY <2>4, <2>5, <2>6
  <1>9. lockedEtherAmount' \in Nat /\ lockedEtherAmount' > lockedEtherAmount
    BY <1>1, <1>3
  <1> QED
    BY <1>2, <1>5, <1>6, <1>7, <1>8, <1>9 DEF Escrow!Finalize

\* A claim is one of the escrow, by the owner and for what was recorded.
LEMMA EscrowClaim ==
    ASSUME QueueInv, QueueInv', NEW sender \in Users, NEW id, NEW hint, Claim(sender, id, hint)
    PROVE  Escrow!Claim
  <1> DEFINE n == lastRequestId
             f == lastFinalizedRequestId
  <1>1. /\ id \in 1..f /\ id \in 1..n /\ id \in 0..n
        /\ ~queue[id].claimed /\ ValidHint(id, hint)
        /\ queue[id] \in WithdrawalRequest /\ DOMAIN queue = 0..n
        /\ n \in Nat /\ f \in Nat
    <2>1. id \in 1..f /\ ~queue[id].claimed /\ ValidHint(id, hint)
      BY DEF Claim
    <2>2. /\ n \in Nat /\ f \in 0..n /\ DOMAIN queue = 0..n
          /\ \A i \in 1..n : queue[i] \in WithdrawalRequest
      BY DEF QueueInv, TypeOK
    <2> QED
      BY <2>1, <2>2
  <1>2. /\ CalculateClaimableEther(id, hint) \in 0..lockedEtherAmount
        /\ lockedEtherAmount' = lockedEtherAmount - CalculateClaimableEther(id, hint)
    BY DEF Claim
  <1>3. /\ queue' = [queue EXCEPT ![id].claimed = TRUE]
        /\ UNCHANGED <<lastRequestId>> /\ UNCHANGED finalVars
    BY DEF Claim, CloseRequest
  <1>4. /\ queue'[id] = [queue[id] EXCEPT !.claimed = TRUE]
        /\ \A i \in 0..n : i # id => queue'[i] = queue[i]
    BY <1>1, <1>3
  <1>5. /\ queue'[id].claimed
        /\ \A i \in 0..n : /\ queue'[i].cumulativeStETH = queue[i].cumulativeStETH
                           /\ queue'[i].cumulativeShares = queue[i].cumulativeShares
    BY <1>1, <1>4 DEF WithdrawalRequest
  <1>6. status[id] = "finalized" /\ status' = [status EXCEPT ![id] = "claimed"]
    <2>1. status[id] = "finalized"
      BY <1>1 DEF status
    <2>2. status' = [i \in 1..n |-> IF queue'[i].claimed THEN "claimed"
                                    ELSE IF i <= f THEN "finalized" ELSE "pending"]
      BY <1>3 DEF status, finalVars
    <2>3. ASSUME NEW i \in 1..n
          PROVE  (IF queue'[i].claimed THEN "claimed"
                  ELSE IF i <= f THEN "finalized" ELSE "pending")
                 = (IF i = id THEN "claimed" ELSE status[i])
      <3>1. CASE i = id
        BY <3>1, <1>5
      <3>2. CASE i # id
        BY <3>2, <1>1, <1>4 DEF status
      <3> QED
        BY <3>1, <3>2
    <2>4. [status EXCEPT ![id] = "claimed"]
            = [i \in 1..n |-> IF i = id THEN "claimed" ELSE status[i]]
      BY DEF status
    <2> QED
      BY <2>1, <2>2, <2>3, <2>4
  <1>7. ClaimableEther(id) = CalculateClaimableEther(id, hint)
    BY <1>1, WorthByHint DEF ValidHint
  <1>8. worth[id] = CalculateClaimableEther(id, hint)
    BY <1>1, <1>7 DEF worth
  <1>9. worth' = worth
    <2>1. ASSUME NEW i \in 1..n
          PROVE  /\ BatchStETH(i - 1, i)' = BatchStETH(i - 1, i)
                 /\ i <= f => ClaimableEther(i)' = ClaimableEther(i)
      <3>1. BatchStETH(i - 1, i)' = BatchStETH(i - 1, i)
        BY <1>1, <1>5, PriceKept
      <3>2. ASSUME i <= f PROVE ClaimableEther(i)' = ClaimableEther(i)
        <4>1. i \in 1..f
          BY <3>2, <1>1
        <4>2. PICK h \in 1..lastCheckpointIndex : ValidHint(i, h)
          BY <4>1 DEF QueueInv, HintExists
        <4>3. /\ lastFinalizedRequestId' >= lastFinalizedRequestId
              /\ h \in 1..lastCheckpointIndex'
              /\ checkpoints'[h] = checkpoints[h]
          BY <1>1, <1>3 DEF finalVars
        <4>4. ValidHint(i, h)'
          BY <4>2, <1>3 DEF ValidHint, finalVars
        <4> QED
          BY <1>5, <4>1, <4>2, <4>3, <4>4, WorthKept
      <3> QED
        BY <3>1, <3>2
    <2> QED
      BY <2>1, <1>3 DEF worth, finalVars
  <1>10. worth[id] <= lockedEtherAmount /\ lockedEtherAmount' = lockedEtherAmount - worth[id]
    BY <1>2, <1>8 DEF QueueInv, TypeOK
  <1> QED
    BY <1>1, <1>3, <1>6, <1>9, <1>10 DEF Escrow!Claim

\* A step that is no finalization is a request or a claim of the escrow, or
\* changes nothing there.
LEMMA EscrowOther ==
    ASSUME QueueInv, QueueInv', OtherStep \/ UNCHANGED vars
    PROVE  Escrow!Request \/ Escrow!Claim \/ UNCHANGED Escrow!vars
  <1>1. CASE UserStep
    <2>1. PICK u \in Users :
            \/ \E amount \in Amounts : RequestWithdrawal(amount, u)
            \/ \E amount \in Amounts : RequestWithdrawalWstETH(amount, u)
            \/ \E id \in 0..(lastRequestId + 1) : ClaimWithdrawal(u, id)
            \/ \E id \in 0..(lastRequestId + 1), hint \in 0..(lastCheckpointIndex + 1) :
                   ClaimWithdrawals(u, id, hint)
      BY <1>1 DEF UserStep
    <2>2. ASSUME NEW amount \in Amounts, RequestWithdrawal(amount, u)
          PROVE  Escrow!Request
      BY <2>2, QueueAssumption, EscrowRequest DEF RequestWithdrawal
    <2>3. ASSUME NEW amount \in Amounts, RequestWithdrawalWstETH(amount, u)
          PROVE  Escrow!Request
      <3>1. getPooledEthByShares(amount) \in Nat
        <4>1. amount \in Nat /\ stETHRate.ether \in Nat /\ stETHRate.shares \in Nat \ {0}
          BY QueueAssumption DEF QueueInv, TypeOK
        <4>2. amount * stETHRate.ether \in Nat
          BY <4>1
        <4> QED
          BY <4>1, <4>2, DivNat DEF getPooledEthByShares
      <3>2. Enqueue(getPooledEthByShares(amount), u)
        BY <2>3 DEF RequestWithdrawalWstETH
      <3> HIDE DEF getPooledEthByShares
      <3> QED
        BY <3>1, <3>2, EscrowRequest
    <2>4. ASSUME NEW id, ClaimWithdrawal(u, id) PROVE Escrow!Claim
      BY <2>4, EscrowClaim DEF ClaimWithdrawal
    <2>5. ASSUME NEW id, NEW hint, ClaimWithdrawals(u, id, hint) PROVE Escrow!Claim
      BY <2>5, EscrowClaim DEF ClaimWithdrawals
    <2> QED
      BY <2>1, <2>2, <2>3, <2>4, <2>5
  <1>2. CASE ReportStep \/ PauseStep \/ Tick \/ UNCHANGED vars
    <2>1. /\ UNCHANGED <<queue, lastRequestId>>
          /\ UNCHANGED finalVars /\ UNCHANGED lockedEtherAmount
      BY <1>2
      DEF ReportStep, OnOracleReport, PauseStep, Resume, PauseFor, PauseUntil, Tick,
          vars, queueVars, requestVars
    <2> QED
      BY <2>1, EscrowStutter
  <1> QED
    BY <1>1, <1>2 DEF OtherStep

\* Every step of the queue is a step of the escrow, or changes nothing there.
LEMMA EscrowNext == QueueInv /\ QueueInv' /\ [Next]_vars => [Escrow!Next]_Escrow!vars
  <1> SUFFICES ASSUME QueueInv, QueueInv', [Next]_vars PROVE [Escrow!Next]_Escrow!vars
    OBVIOUS
  <1>1. CASE AnyFinalize
    BY <1>1, EscrowFinalize, ShareRateNat DEF AnyFinalize, Escrow!Next
  <1>2. CASE OtherStep \/ UNCHANGED vars
    BY <1>2, EscrowOther DEF Escrow!Next
  <1> QED
    BY <1>1, <1>2 DEF Next

\* The queue implements the escrow: what a request is worth is fixed once, when
\* it is finalized, at no more than its nominal worth, and is paid out once.
THEOREM ImplementsEscrow == Spec => EscrowSpec
  <1>1. Spec => []QueueInv
    BY QueueInvariant
  <1> QED
    BY <1>1, EscrowInit, EscrowNext, PTL DEF Spec, EscrowSpec, Escrow!Spec

-----------------------------------------------------------------------------
(* The shares that wait are the shares the queue holds                     *)

\* The cumulative shares of every request there is are a natural number.
LEMMA SharesAreNat ==
    ASSUME QueueInv
    PROVE  \A i \in 0..lastRequestId :
              queue[i].cumulativeShares \in Nat /\ queue[i].cumulativeStETH \in Nat
  <1>1. \A i \in 0..lastRequestId : i = 0 \/ i \in 1..lastRequestId
    BY DEF QueueInv, TypeOK
  <1> QED
    BY <1>1 DEF QueueInv, TypeOK, WithdrawalRequest

\* What the oracle may propose is a list of request ids.
LEMMA ProposalsAreLists == QueueInv => BatchProposals \subseteq Seq(Nat)
  <1> SUFFICES ASSUME QueueInv, NEW m \in 0..MaxBatches,
                      NEW batches \in [1..m -> 0..(lastRequestId + 1)]
               PROVE  batches \in Seq(Nat)
    BY DEF BatchProposals
  <1>1. m \in Nat /\ lastRequestId \in Nat
    BY QueueAssumption DEF QueueInv, TypeOK
  <1>2. batches \in [1..m -> Nat]
    BY <1>1
  <1> QED
    BY <1>1, <1>2

\* The batches that prefinalize accepts end at requests there are, and each one
\* after the one before it.
LEMMA BatchesInQueue ==
    ASSUME QueueInv, NEW batches \in Seq(Nat), NEW rate, CanPrefinalize(batches, rate)
    PROVE  /\ Len(batches) \in Nat \ {0}
           /\ \A k \in 1..Len(batches) :
                 /\ batches[k] \in 1..lastRequestId
                 /\ BatchStart(batches, k) \in 0..lastRequestId
                 /\ BatchStart(batches, k) < batches[k]
                 /\ k > 1 => BatchStart(batches, k) = batches[k - 1]
           /\ BatchStart(batches, 1) = lastFinalizedRequestId
  <1> DEFINE m == Len(batches)
  <1>1. m \in Nat /\ \A k \in 1..m : batches[k] \in Nat
    OBVIOUS
  <1>2. m \in Nat /\ lastRequestId \in Nat /\ lastFinalizedRequestId \in 0..lastRequestId
    BY <1>1 DEF QueueInv, TypeOK
  <1>4. m \in Nat \ {0}
    BY <1>2 DEF CanPrefinalize
  <1>5. \A k \in 1..m : k # 1 => batches[k - 1] < batches[k]
    BY <1>2 DEF CanPrefinalize
  <1>6. \A k \in 1..m : batches[k] \in 0..lastRequestId
    <2> DEFINE Good == {j \in 0..(m - 1) : batches[m - j] <= lastRequestId}
    <2>1. 0 \in Good
      BY <1>4 DEF CanPrefinalize
    <2>2. ASSUME NEW j \in 1..(m - 1), j - 1 \in Good
          PROVE  j \in Good
      <3>1. /\ m - j \in 1..m /\ m - (j - 1) \in 1..m /\ m - (j - 1) # 1
            /\ (m - (j - 1)) - 1 = m - j /\ j \in 0..(m - 1)
        BY <1>4
      <3>2. batches[m - j] < batches[m - (j - 1)]
        BY <3>1, <1>5
      <3>3. batches[m - (j - 1)] <= lastRequestId
        BY <2>2
      <3> QED
        BY <3>1, <3>2, <3>3, <1>1, <1>2
    <2>3. \A j \in 0..(m - 1) : j \in Good
      <3>1. m - 1 \in Nat
        BY <1>4
      <3> HIDE DEF Good
      <3> QED
        BY <2>1, <2>2, <3>1, LoopKeeps
    <2> SUFFICES ASSUME NEW k \in 1..m PROVE batches[k] <= lastRequestId
      BY <1>1, <1>2
    <2>4. m - k \in 0..(m - 1) /\ m - (m - k) = k
      BY <1>4
    <2> QED
      BY <2>3, <2>4
  <1>7. batches[1] > lastFinalizedRequestId
    BY DEF CanPrefinalize
  <1>8. ASSUME NEW k \in 1..m
        PROVE  /\ batches[k] \in 1..lastRequestId
               /\ BatchStart(batches, k) \in 0..lastRequestId
               /\ BatchStart(batches, k) < batches[k]
               /\ k > 1 => BatchStart(batches, k) = batches[k - 1]
    <2>1. CASE k = 1
      BY <2>1, <1>2, <1>4, <1>6, <1>7 DEF BatchStart
    <2>2. CASE k # 1
      <3>1. k - 1 \in 1..m
        BY <2>2, <1>2
      <3> QED
        BY <2>2, <3>1, <1>2, <1>5, <1>6 DEF BatchStart
    <2> QED
      BY <2>1, <2>2
  <1> QED
    BY <1>4, <1>8 DEF BatchStart

\* The shares that a finalization burns are the shares of all the requests it
\* covers, however they are cut into batches.
LEMMA BurnTelescopes ==
    ASSUME QueueInv, NEW batches \in Seq(Nat), NEW rate, CanPrefinalize(batches, rate)
    PROVE  SharesToBurn(batches)
             = BatchShares(lastFinalizedRequestId, batches[Len(batches)])
  <1> DEFINE n    == Len(batches)
             term == [k \in 1..n |-> BatchShares(BatchStart(batches, k), batches[k])]
             body(sum) == [k \in 0..n |-> IF k = 0 THEN 0 ELSE sum[k - 1]
                              + BatchShares(BatchStart(batches, k), batches[k])]
             burnt == CHOOSE sum : sum = body(sum)
  <1>1. n \in Nat \ {0}
    BY BatchesInQueue
  <1>2. PICK total : IsRunning(total, term, n)
    BY <1>1, RunningExists
  <1>3. \A k \in 0..n : k # 0 => k \in 1..n
    BY <1>1
  <1>4. total = body(total)
    BY <1>2, <1>3 DEF IsRunning
  <1>5. burnt = body(burnt)
    BY <1>4
  <1>6. SharesToBurn(batches) = burnt[n]
    BY DEF SharesToBurn
  <1> DEFINE c(i) == queue[i].cumulativeShares
             f    == lastFinalizedRequestId
             Bad  == {k \in 1..n : burnt[k] # c(batches[k]) - c(f)}
  <1>7. /\ f \in 0..lastRequestId
        /\ \A i \in 0..lastRequestId : c(i) \in Nat
        /\ \A k \in 1..n : batches[k] \in 0..lastRequestId
    <2>1. f \in 0..lastRequestId /\ lastRequestId \in Nat
      BY DEF QueueInv, TypeOK
    <2>2. \A i \in 0..lastRequestId : c(i) \in Nat
      BY SharesAreNat
    <2>3. \A k \in 1..n : batches[k] \in 1..lastRequestId
      BY BatchesInQueue
    <2> QED
      BY <2>1, <2>2, <2>3
  <1>8. /\ burnt[0] = 0
        /\ \A k \in 1..n : burnt[k] = burnt[k - 1] + (c(batches[k]) - c(BatchStart(batches, k)))
    <2>1. \A k \in 0..n : burnt[k] = body(burnt)[k]
      BY <1>5
    <2> HIDE DEF burnt
    <2>2. 0 \in 0..n /\ \A k \in 1..n : k \in 0..n /\ k # 0
      BY <1>1
    <2> QED
      BY <2>1, <2>2 DEF BatchShares
  <1> HIDE DEF burnt
  <1>9. Bad = {}
    <2> SUFFICES ASSUME Bad # {} PROVE FALSE
      OBVIOUS
    <2>1. Bad \subseteq Nat
      BY <1>1
    <2>2. PICK k \in Bad : \A j \in Bad : k <= j
      <3> HIDE DEF Bad
      <3> QED
        BY <2>1, LeastNat
    <2>3. k \in 1..n /\ burnt[k] # c(batches[k]) - c(f)
      BY <2>2
    <2>4. CASE k = 1
      <3>1. BatchStart(batches, 1) = f
        BY BatchesInQueue
      <3>2. c(batches[k]) \in Nat /\ c(f) \in Nat
        BY <1>7, <2>3
      <3>3. /\ burnt[0] = 0
            /\ burnt[k] = burnt[0] + (c(batches[k]) - c(f))
        <4>1. burnt[k] = burnt[k - 1] + (c(batches[k]) - c(BatchStart(batches, k)))
          BY <1>8, <2>3
        <4>2. k - 1 = 0 /\ BatchStart(batches, k) = f
          BY <2>4, <3>1
        <4> HIDE DEF c, f
        <4> QED
          BY <1>8, <4>1, <4>2
      <3> HIDE DEF c
      <3> QED
        BY <2>3, <3>2, <3>3
    <2>5. CASE k # 1
      <3>1. k - 1 \in 1..n /\ k > 1 /\ k - 1 \notin Bad
        BY <1>1, <2>2, <2>3, <2>5
      <3>2. BatchStart(batches, k) = batches[k - 1]
        BY <2>3, <3>1, BatchesInQueue
      <3>3. burnt[k - 1] = c(batches[k - 1]) - c(f)
        BY <3>1
      <3>4. c(batches[k]) \in Nat /\ c(batches[k - 1]) \in Nat /\ c(f) \in Nat
        BY <1>7, <2>3, <3>1
      <3>5. burnt[k] = burnt[k - 1] + (c(batches[k]) - c(batches[k - 1]))
        BY <1>8, <2>3, <3>2
      <3> QED
        BY <2>3, <3>3, <3>4, <3>5
    <2> QED
      BY <2>4, <2>5
  <1>10. burnt[n] = c(batches[n]) - c(f)
    BY <1>1, <1>9
  <1> QED
    BY <1>6, <1>10 DEF BatchShares

\* What a step keeps, beside the invariant, so that a finalization burns the
\* shares of the requests it covers and no more.
BackedInv == QueueInv /\ SharesBacked

\* A new queue holds no shares and has none to burn.
LEMMA BackedInit == Init => SharesBacked
  BY DEF Init, SharesBacked, BatchShares, DummyRequest

\* A new request adds its own shares to what the queue holds.
LEMMA EnqueueBacked ==
    ASSUME QueueInv, SharesBacked, NEW owner \in Users, NEW amount \in Nat,
           CheckWithdrawalRequestAmount(amount), Enqueue(amount, owner)
    PROVE  SharesBacked'
  <1> DEFINE n      == lastRequestId
             f      == lastFinalizedRequestId
             amountOfShares == getSharesByPooledEth(amount)
             new    == NewRequest(amount, amountOfShares, owner)
  <1>1. /\ n' = n + 1 /\ f' = f
        /\ queue' = [i \in 0..(n + 1) |-> IF i = n + 1 THEN new ELSE queue[i]]
        /\ heldShares' = heldShares + amountOfShares
    BY DEF Enqueue, finalVars
  <1>2. n \in Nat /\ f \in 0..n
    BY DEF QueueInv, TypeOK
  <1>3. /\ queue'[f] = queue[f]
        /\ queue'[n + 1].cumulativeShares = queue[n].cumulativeShares + amountOfShares
    BY <1>1, <1>2 DEF NewRequest
  <1>4. queue[f].cumulativeShares \in Nat /\ queue[n].cumulativeShares \in Nat
    BY <1>2, SharesAreNat
  <1>5. amountOfShares \in Nat
    <2>1. amount * stETHRate.shares \in Nat /\ stETHRate.ether \in Nat \ {0}
      BY QueueAssumption DEF QueueInv, TypeOK
    <2> QED
      BY <2>1, DivNat DEF getSharesByPooledEth
  <1>6. BatchShares(f, n)' = queue'[n + 1].cumulativeShares - queue[f].cumulativeShares
    BY <1>1, <1>3 DEF BatchShares
  <1>7. heldShares = queue[n].cumulativeShares - queue[f].cumulativeShares
    BY DEF SharesBacked, BatchShares
  <1> HIDE DEF amountOfShares
  <1>8. heldShares' = BatchShares(f, n)'
    BY <1>1, <1>3, <1>4, <1>5, <1>6, <1>7
  <1> QED
    BY <1>8 DEF SharesBacked

\* A finalization burns what its requests were made with.
LEMMA FinalizeBacked ==
    ASSUME QueueInv, SharesBacked, NEW batches \in Seq(Nat), NEW rate \in Nat,
           Finalize(batches, rate)
    PROVE  SharesBacked'
  <1> DEFINE n    == lastRequestId
             f    == lastFinalizedRequestId
             last == batches[Len(batches)]
  <1>1. CanPrefinalize(batches, rate)
    BY DEF Finalize
  <1>2. /\ f' = last /\ n' = n /\ queue' = queue
        /\ heldShares' = heldShares - SharesToBurn(batches)
    BY DEF Finalize
  <1>3. SharesToBurn(batches) = BatchShares(f, last)
    BY <1>1, BurnTelescopes
  <1>4. f \in 0..n /\ n \in 0..n /\ last \in 0..n
    <2>1. n \in Nat /\ f \in 0..n
      BY DEF QueueInv, TypeOK
    <2>2. last \in 1..n
      BY <1>1, BatchesInQueue
    <2> QED
      BY <2>1, <2>2
  <1>5. /\ queue[f].cumulativeShares \in Nat /\ queue[n].cumulativeShares \in Nat
        /\ queue[last].cumulativeShares \in Nat
    BY <1>4, SharesAreNat
  <1> HIDE DEF last
  <1> QED
    BY <1>2, <1>3, <1>5 DEF SharesBacked, BatchShares

\* Every call changes alike the shares that the queue holds and those it has to burn.
LEMMA BackedNext == BackedInv /\ [Next]_vars => SharesBacked'
  <1> SUFFICES ASSUME QueueInv, SharesBacked, [Next]_vars PROVE SharesBacked'
    BY DEF BackedInv
  <1>1. CASE AnyFinalize
    BY <1>1, FinalizeBacked, ShareRateNat, ProposalsAreLists DEF AnyFinalize
  <1>2. ASSUME NEW u \in Users, NEW amount \in Amounts, RequestWithdrawal(amount, u)
        PROVE  SharesBacked'
    BY <1>2, QueueAssumption, EnqueueBacked DEF RequestWithdrawal
  <1>3. ASSUME NEW u \in Users, NEW amount \in Amounts, RequestWithdrawalWstETH(amount, u)
        PROVE  SharesBacked'
    <2>1. getPooledEthByShares(amount) \in Nat
      <3>1. amount * stETHRate.ether \in Nat /\ stETHRate.shares \in Nat \ {0}
        BY QueueAssumption DEF QueueInv, TypeOK
      <3> QED
        BY <3>1, DivNat DEF getPooledEthByShares
    <2> QED
      BY <2>1, <1>3, EnqueueBacked DEF RequestWithdrawalWstETH
  <1>4. ASSUME NEW u \in Users, NEW id, NEW hint, Claim(u, id, hint)
        PROVE  SharesBacked'
    <2>1. /\ id \in 1..lastRequestId /\ lastRequestId \in Nat
          /\ lastFinalizedRequestId \in 0..lastRequestId
          /\ DOMAIN queue = 0..lastRequestId /\ queue[id] \in WithdrawalRequest
      BY <1>4 DEF Claim, QueueInv, TypeOK
    <2>2. /\ queue' = [queue EXCEPT ![id].claimed = TRUE]
          /\ UNCHANGED <<lastRequestId, lastFinalizedRequestId, heldShares>>
      BY <1>4 DEF Claim, CloseRequest, finalVars
    <2>3. \A i \in 0..lastRequestId : queue'[i].cumulativeShares = queue[i].cumulativeShares
      BY <2>1, <2>2 DEF WithdrawalRequest
    <2>4. lastRequestId \in 0..lastRequestId
      BY <2>1
    <2> QED
      BY <2>1, <2>2, <2>3, <2>4 DEF SharesBacked, BatchShares
  <1>5. CASE UserStep
    BY <1>2, <1>3, <1>4, <1>5 DEF UserStep, ClaimWithdrawal, ClaimWithdrawals
  <1>6. CASE ReportStep \/ PauseStep \/ Tick \/ UNCHANGED vars
    <2>1. UNCHANGED <<queue, lastRequestId, lastFinalizedRequestId, heldShares>>
      BY <1>6
      DEF ReportStep, OnOracleReport, PauseStep, Resume, PauseFor, PauseUntil, Tick,
          vars, queueVars, requestVars, finalVars
    <2> QED
      BY <2>1 DEF SharesBacked, BatchShares
  <1> QED
    BY <1>1, <1>5, <1>6 DEF Next, OtherStep

\* The shares the queue holds are always those of the requests that wait: no
\* finalization burns what backs a later request, and none leaves shares behind.
THEOREM AlwaysBacked == Spec => []SharesBacked
  <1>1. Init => BackedInv
    BY InitInv, BackedInit DEF BackedInv
  <1>2. BackedInv /\ [Next]_vars => BackedInv'
    BY NextInv, BackedNext DEF BackedInv
  <1>3. BackedInv => SharesBacked
    BY DEF BackedInv
  <1> QED
    BY <1>1, <1>2, <1>3, PTL DEF Spec

-----------------------------------------------------------------------------
(* The search for a hint                                                   *)

\* Where the search of a request with hint v ends in a range: at v, or at the
\* end of the range that is closer to it.
Nearest(v, min, max) ==
    IF max <= min \/ v <= min THEN min ELSE IF v >= max THEN max ELSE v

\* The checkpoints that start at or before a request are those up to its hint.
LEMMA HintSeparates ==
    ASSUME QueueInv, NEW id \in 1..lastFinalizedRequestId,
           NEW v \in 1..lastCheckpointIndex, ValidHint(id, v),
           NEW h \in 0..lastCheckpointIndex
    PROVE  checkpoints[h].fromRequestId <= id <=> h <= v
  <1>1. /\ lastCheckpointIndex \in Nat /\ lastFinalizedRequestId \in Nat
        /\ \A i \in 0..lastCheckpointIndex : checkpoints[i].fromRequestId \in Nat
        /\ \A i, j \in 0..lastCheckpointIndex :
              i < j => checkpoints[i].fromRequestId < checkpoints[j].fromRequestId
    BY DEF QueueInv, TypeOK, Checkpoint, CheckpointsTile
  <1>2. v \in 0..lastCheckpointIndex /\ id >= checkpoints[v].fromRequestId
    BY <1>1 DEF ValidHint
  <1>3. CASE h <= v
    <2>1. h = v \/ checkpoints[h].fromRequestId < checkpoints[v].fromRequestId
      BY <1>1, <1>2, <1>3
    <2> QED
      BY <2>1, <1>1, <1>2, <1>3
  <1>4. CASE h > v
    <2>1. v + 1 \in 0..lastCheckpointIndex /\ v < lastCheckpointIndex
      BY <1>1, <1>4
    <2>2. id < checkpoints[v + 1].fromRequestId
      BY <2>1 DEF ValidHint
    <2>3. h = v + 1 \/ checkpoints[v + 1].fromRequestId < checkpoints[h].fromRequestId
      BY <2>1, <1>1, <1>4
    <2> QED
      BY <2>1, <2>2, <2>3, <1>1, <1>4
  <1> QED
    BY <1>1, <1>3, <1>4

\* Halving the range keeps the place that is nearest to the hint.
LEMMA HalvingNearest ==
    ASSUME NEW v \in Nat, NEW min \in Nat, NEW max \in Nat, NEW mid \in (min + 1)..max
    PROVE  IF mid <= v THEN Nearest(v, mid, max) = Nearest(v, min, max)
           ELSE Nearest(v, min, mid - 1) = Nearest(v, min, max)
  BY DEF Nearest

\* The loop finds the hint, or the end of its range that is closer to it: each
\* iteration halves the range and never leaves it.
LEMMA SearchFinds ==
    ASSUME QueueInv, NEW id \in 1..lastFinalizedRequestId,
           NEW v \in 1..lastCheckpointIndex, ValidHint(id, v),
           NEW first \in 0..lastCheckpointIndex, NEW last \in 0..lastCheckpointIndex
    PROVE  BinarySearch(id, first, last) = Nearest(v, first, last)
  <1> DEFINE n      == lastCheckpointIndex
             Ranges == (0..n) \X (0..n)
             Mid(r) == (r[2] + r[1] + 1) \div 2
             Step(g, r) == IF r[2] <= r[1] THEN r[1]
                           ELSE IF checkpoints[Mid(r)].fromRequestId <= id
                                THEN g[<<Mid(r), r[2]>>]
                           ELSE g[<<r[1], Mid(r) - 1>>]
             closed == [r \in Ranges |-> Nearest(v, r[1], r[2])]
             search == CHOOSE g : g = [r \in Ranges |-> Step(g, r)]
  <1>1. n \in Nat /\ v \in 1..n
    BY DEF QueueInv, TypeOK
  <1>2. ASSUME NEW r \in Ranges, ~(r[2] <= r[1])
        PROVE  /\ Mid(r) \in (r[1] + 1)..r[2]
               /\ <<Mid(r), r[2]>> \in Ranges
               /\ <<r[1], Mid(r) - 1>> \in Ranges
    <2>1. r[1] \in 0..n /\ r[2] \in 0..n
      OBVIOUS
    <2>2. Mid(r) \in (r[1] + 1)..r[2]
      BY <2>1, <1>2
    <2> QED
      BY <2>1, <2>2, <1>1
  <1>3. ASSUME NEW r \in Ranges, NEW g,
               ~(r[2] <= r[1]) =>
                  /\ g[<<Mid(r), r[2]>>] = Nearest(v, Mid(r), r[2])
                  /\ g[<<r[1], Mid(r) - 1>>] = Nearest(v, r[1], Mid(r) - 1)
        PROVE  Step(g, r) = Nearest(v, r[1], r[2])
    <2>1. r[1] \in Nat /\ r[2] \in Nat /\ v \in Nat
      BY <1>1
    <2>2. CASE r[2] <= r[1]
      BY <2>2 DEF Nearest
    <2>3. CASE ~(r[2] <= r[1])
      <3> DEFINE m == Mid(r)
      <3>1. m \in (r[1] + 1)..r[2] /\ m \in 0..n
        BY <1>2, <2>3
      <3>2. checkpoints[m].fromRequestId <= id <=> m <= v
        BY <3>1, HintSeparates
      <3>3. Step(g, r) = IF m <= v THEN Nearest(v, m, r[2]) ELSE Nearest(v, r[1], m - 1)
        BY <1>3, <2>3, <3>2
      <3> HIDE DEF m
      <3> QED
        BY <2>1, <2>3, <3>1, <3>3, HalvingNearest
    <2> QED
      BY <2>2, <2>3
  <1>4. closed = [r \in Ranges |-> Step(closed, r)]
    <2> SUFFICES ASSUME NEW r \in Ranges PROVE Nearest(v, r[1], r[2]) = Step(closed, r)
      OBVIOUS
    <2>1. ~(r[2] <= r[1]) =>
             /\ closed[<<Mid(r), r[2]>>] = Nearest(v, Mid(r), r[2])
             /\ closed[<<r[1], Mid(r) - 1>>] = Nearest(v, r[1], Mid(r) - 1)
      BY <1>2
    <2> HIDE DEF closed, Step
    <2> QED
      BY <2>1, <1>3
  <1>5. search = [r \in Ranges |-> Step(search, r)]
    BY <1>4
  <1>6. BinarySearch(id, first, last) = search[<<first, last>>]
    BY DEF BinarySearch
  <1> DEFINE Bad == {d \in Nat : \E r \in Ranges :
                        d = r[2] - r[1] /\ search[r] # Nearest(v, r[1], r[2])}
  <1>7. ASSUME NEW r \in Ranges PROVE search[r] = Step(search, r)
    BY <1>5, Zenon
  <1> HIDE DEF search
  <1>8. Bad = {}
    <2> SUFFICES ASSUME Bad # {} PROVE FALSE
      OBVIOUS
    <2>1. Bad \subseteq Nat
      OBVIOUS
    <2>2. PICK d \in Bad : \A e \in Bad : d <= e
      <3> HIDE DEF Bad
      <3> QED
        BY <2>1, LeastNat
    <2>3. PICK r \in Ranges : d = r[2] - r[1] /\ search[r] # Nearest(v, r[1], r[2])
      BY <2>2
    <2>4. ASSUME NEW q \in Ranges, q[2] - q[1] < d
          PROVE  search[q] = Nearest(v, q[1], q[2])
      <3>1. CASE q[2] <= q[1]
        BY <1>7, <3>1 DEF Nearest
      <3>2. CASE ~(q[2] <= q[1])
        <4>1. q[2] - q[1] \in Nat /\ q[2] - q[1] \notin Bad
          BY <2>2, <2>4, <3>2
        <4> QED
          BY <4>1
      <3> QED
        BY <3>1, <3>2
    <2>5. ASSUME ~(r[2] <= r[1])
          PROVE  /\ search[<<Mid(r), r[2]>>] = Nearest(v, Mid(r), r[2])
                 /\ search[<<r[1], Mid(r) - 1>>] = Nearest(v, r[1], Mid(r) - 1)
      <3>1. r[1] \in Nat /\ r[2] \in Nat /\ Mid(r) \in (r[1] + 1)..r[2]
        BY <1>2, <2>5
      <3> HIDE DEF Mid
      <3>2. r[2] - Mid(r) < d /\ (Mid(r) - 1) - r[1] < d
        BY <2>3, <3>1
      <3> QED
        BY <1>2, <2>4, <2>5, <3>2
    <2>6. Step(search, r) = Nearest(v, r[1], r[2])
      BY <2>5, <1>3
    <2> QED
      BY <2>3, <2>6, <1>7
  <1>9. ASSUME NEW r \in Ranges PROVE search[r] = Nearest(v, r[1], r[2])
    <2>1. CASE r[2] <= r[1]
      BY <1>7, <2>1 DEF Nearest
    <2>2. CASE ~(r[2] <= r[1])
      <3>1. r[2] - r[1] \in Nat /\ r[2] - r[1] \notin Bad
        BY <1>8, <2>2
      <3> QED
        BY <3>1
    <2> QED
      BY <2>1, <2>2
  <1>10. <<first, last>> \in Ranges
    OBVIOUS
  <1> QED
    BY <1>6, <1>9, <1>10

\* What _findCheckpointHint returns: the hint when the range has it.
LEMMA FindsHint ==
    ASSUME QueueInv, NEW id \in 1..lastFinalizedRequestId,
           NEW v \in 1..lastCheckpointIndex, ValidHint(id, v),
           NEW start \in 1..lastCheckpointIndex, NEW end \in 1..lastCheckpointIndex
    PROVE  FindCheckpointHint(id, start, end) = IF v \in start..end THEN v ELSE NOT_FOUND
  <1> DEFINE n == lastCheckpointIndex
  <1>1. /\ n \in Nat /\ lastFinalizedRequestId \in Nat
        /\ start \in 0..n /\ end \in 0..n /\ v \in Nat /\ ~(id > lastFinalizedRequestId)
    BY DEF QueueInv, TypeOK
  <1>2. CASE start > end
    BY <1>1, <1>2 DEF FindCheckpointHint
  <1>3. CASE start <= end /\ end <= v
    <2>1. id >= checkpoints[end].fromRequestId
      <3>1. checkpoints[end].fromRequestId <= id
        BY <1>1, <1>3, HintSeparates
      <3> QED
        BY <3>1
    <2>2. (end = n \/ id < checkpoints[end + 1].fromRequestId) <=> end = v
      <3>1. CASE end = v
        BY <3>1, <1>1 DEF ValidHint
      <3>2. CASE end # v
        <4>1. end + 1 \in 0..n /\ end + 1 <= v
          BY <3>2, <1>1, <1>3
        <4>2. checkpoints[end + 1].fromRequestId <= id
          BY <4>1, HintSeparates
        <4>3. checkpoints[end + 1].fromRequestId \in Nat
          BY <4>1 DEF QueueInv, TypeOK, Checkpoint
        <4> QED
          BY <3>2, <4>1, <4>2, <4>3, <1>1
      <3> QED
        BY <3>1, <3>2
    <2>3. FindCheckpointHint(id, start, end) = IF end = v THEN end ELSE NOT_FOUND
      BY <1>1, <1>3, <2>1, <2>2 DEF FindCheckpointHint
    <2> QED
      BY <2>3, <1>1, <1>3
  <1>4. CASE start <= end /\ end > v
    <2>1. ~(id >= checkpoints[end].fromRequestId)
      <3>1. ~(checkpoints[end].fromRequestId <= id)
        BY <1>1, <1>4, HintSeparates
      <3> QED
        BY <3>1
    <2>2. id < checkpoints[start].fromRequestId <=> start > v
      <3>1. checkpoints[start].fromRequestId <= id <=> start <= v
        BY <1>1, HintSeparates
      <3>2. checkpoints[start].fromRequestId \in Nat
        BY <1>1 DEF QueueInv, TypeOK, Checkpoint
      <3> QED
        BY <3>1, <3>2, <1>1
    <2>3. BinarySearch(id, start, end - 1) = Nearest(v, start, end - 1)
      <3>1. end - 1 \in 0..n
        BY <1>1
      <3> QED
        BY <3>1, <1>1, SearchFinds
    <2>4. FindCheckpointHint(id, start, end) =
            IF start > v THEN NOT_FOUND ELSE Nearest(v, start, end - 1)
      BY <1>1, <1>4, <2>1, <2>2, <2>3 DEF FindCheckpointHint
    <2> QED
      BY <1>1, <1>4, <2>4 DEF Nearest
  <1> QED
    BY <1>1, <1>2, <1>3, <1>4

\* The binary search finds the hint if its range has one, and nothing else.
LEMMA HintsAreFound == QueueInv => HintsCorrect
  <1> SUFFICES ASSUME QueueInv, NEW id \in 1..lastRequestId, id <= lastFinalizedRequestId
               PROVE  LET valid == {h \in 1..lastCheckpointIndex : ValidHint(id, h)}
                      IN  /\ FindCheckpointHint(id, 1, lastCheckpointIndex) \in valid
                          /\ \A start, end \in 1..lastCheckpointIndex :
                               LET found == valid \cap start..end
                               IN  IF found = {}
                                   THEN FindCheckpointHint(id, start, end) = NOT_FOUND
                                   ELSE found = {FindCheckpointHint(id, start, end)}
    BY DEF HintsCorrect
  <1>1. id \in 1..lastFinalizedRequestId /\ lastCheckpointIndex \in Nat
    BY DEF QueueInv, TypeOK
  <1>2. PICK v \in 1..lastCheckpointIndex : Hints(id) = {v}
    BY <1>1, HintUnique
  <1>3. ValidHint(id, v) /\ {h \in 1..lastCheckpointIndex : ValidHint(id, h)} = {v}
    BY <1>2 DEF Hints
  <1>4. \A start, end \in 1..lastCheckpointIndex :
           FindCheckpointHint(id, start, end) = IF v \in start..end THEN v ELSE NOT_FOUND
    BY <1>1, <1>3, FindsHint
  <1>5. FindCheckpointHint(id, 1, lastCheckpointIndex) = v
    <2>1. 1 \in 1..lastCheckpointIndex /\ lastCheckpointIndex \in 1..lastCheckpointIndex
      BY <1>1
    <2> QED
      BY <1>4, <2>1
  <1> QED
    BY <1>3, <1>4, <1>5

\* _findCheckpointHint returns, over any range of checkpoints, the one hint that
\* _claim accepts for a finalized request when the range has it, and NOT_FOUND
\* otherwise: a claim without a hint never fails for the want of one.
THEOREM HintsAlwaysCorrect == Spec => []HintsCorrect
  BY QueueInvariant, HintsAreFound, PTL

-----------------------------------------------------------------------------
(* The prices of a finalization against the ether it locks                 *)

\* No request has more shares than the precision has parts.
SharesBounded ==
    \A i \in 1..lastRequestId : BatchShares(i - 1, i) <= E27_PRECISION_BASE

\* Every request is worth a wei at any rate of the pool.
SharesWorth ==
    \A i \in 1..lastRequestId, rate \in Rates :
        E27_PRECISION_BASE <= BatchShares(i - 1, i) * ShareRate(rate)

\* What the requests there are keep to, beside the invariant.
SharesSound ==
    /\ SharesBounded
    /\ SharesWorth
    /\ lastRequestId <= MaxRequests

\* What rounding leaves of the price of one request: at the maximal rate it is
\* rounded down; paid in full, it is less than one wei above the maximal rate.
LEMMA PriceRounded ==
    ASSUME NEW amount \in Nat, NEW shares \in Nat \ {0}, NEW maxRate \in Nat,
           NEW base \in Nat \ {0}, shares <= base
    PROVE  IF (amount * base) \div shares > maxRate
           THEN base * ((shares * maxRate) \div base) <= maxRate * shares
           ELSE base * (amount - 1) <= maxRate * shares
  <1> DEFINE rate == (amount * base) \div shares
             full == amount * base
             most == shares * maxRate
  <1>1. full \in Nat /\ most \in Nat /\ most = maxRate * shares
    BY SMT
  <1>2. CASE rate > maxRate
    <2>1. base * (most \div base) <= most
      BY <1>1, Quotient
    <2> QED
      BY <1>1, <1>2, <2>1
  <1>3. CASE ~(rate > maxRate)
    <2>1. rate \in Nat /\ full < shares * rate + shares
      BY <1>1, Quotient
    <2>2. shares * rate <= shares * maxRate
      BY <1>3, <2>1, FactorKeepsOrder
    <2>3. shares * rate \in Int
      BY <2>1, SMT
    <2>4. full < most + base
      BY <1>1, <2>1, <2>2, <2>3
    <2>5. base * (amount - 1) = full - base
      BY SMT
    <2> QED
      BY <1>1, <1>3, <2>4, <2>5
  <1> QED
    BY <1>2, <1>3

\* The shares and the stETH of a request are natural numbers, and it has a share.
LEMMA RequestSums ==
    ASSUME QueueInv, NEW i \in 1..lastRequestId
    PROVE  BatchStETH(i - 1, i) \in Nat /\ BatchShares(i - 1, i) \in Nat \ {0}
  <1>1. i \in 0..lastRequestId /\ i - 1 \in 0..lastRequestId
    BY DEF QueueInv, TypeOK
  <1>2. /\ queue[i].cumulativeShares \in Nat /\ queue[i - 1].cumulativeShares \in Nat
        /\ queue[i].cumulativeShares > queue[i - 1].cumulativeShares
    BY <1>1, SharesAreNat DEF QueueInv, SumsIncrease
  <1> QED
    BY <1>2, PriceBounded, ShareRateNat, QueueAssumption DEF BatchShares

\* The stETH and the shares of a batch are those of its requests.
LEMMA BatchesAreSums ==
    ASSUME QueueInv, NEW a \in 0..lastRequestId, NEW b \in 0..lastRequestId, a <= b
    PROVE  LET steth  == [i \in (a + 1)..b |-> BatchStETH(i - 1, i)]
               shares == [i \in (a + 1)..b |-> BatchShares(i - 1, i)]
           IN  /\ SumFunctionOnSet(steth, (a + 1)..b) = BatchStETH(a, b)
               /\ SumFunctionOnSet(shares, (a + 1)..b) = BatchShares(a, b)
  <1> DEFINE n == lastRequestId
             S == (a + 1)..b
             steth  == [i \in S |-> BatchStETH(i - 1, i)]
             shares == [i \in S |-> BatchShares(i - 1, i)]
             c == [i \in 0..n |-> queue[i].cumulativeStETH]
             d == [i \in 0..n |-> queue[i].cumulativeShares]
  <1>1. n \in Nat /\ a \in Nat /\ b \in Nat /\ a..b \subseteq 0..n
    BY DEF QueueInv, TypeOK
  <1>2. \A i \in a..b : c[i] \in Int /\ d[i] \in Int
    BY <1>1, SharesAreNat
  <1>3. ASSUME NEW i \in S
        PROVE  steth[i] = c[i] - c[i - 1] /\ shares[i] = d[i] - d[i - 1]
    <2>1. i \in 0..n /\ i - 1 \in 0..n
      BY <1>1
    <2> QED
      BY <2>1 DEF BatchStETH, BatchShares
  <1>4. /\ c[b] - c[a] = BatchStETH(a, b)
        /\ d[b] - d[a] = BatchShares(a, b)
    BY DEF BatchStETH, BatchShares
  <1> HIDE DEF c, d, steth, shares
  <1>5. SumFunctionOnSet(steth, S) = c[b] - c[a]
    BY <1>1, <1>2, <1>3, SumTelescopes
  <1>6. SumFunctionOnSet(shares, S) = d[b] - d[a]
    BY <1>1, <1>2, <1>3, SumTelescopes
  <1> QED
    BY <1>4, <1>5, <1>6 DEF steth, shares

\* What the price of each request is above the dust it may cost: one wei for
\* those in `dusty`.
NetPrice(maxRate, dusty) ==
    [i \in 1..lastRequestId |->
        BatchEther(i - 1, i, maxRate) - (IF i \in dusty THEN 1 ELSE 0)]

\* The price of a batch covers the prices of its requests, when one wei is
\* given up for each that is paid in full out of a discounted batch.
LEMMA BatchCovers ==
    ASSUME QueueInv, SharesBounded, NEW a \in 0..lastRequestId, NEW b \in 0..lastRequestId,
           a < b, NEW maxRate \in Nat, NEW dusty,
           BatchShareRate(a, b) > maxRate =>
               \A i \in (a + 1)..b : ~RequestDiscounted(i, maxRate) => i \in dusty
    PROVE  SumFunctionOnSet(NetPrice(maxRate, dusty), (a + 1)..b) <= BatchEther(a, b, maxRate)
  <1> DEFINE S   == (a + 1)..b
             net == NetPrice(maxRate, dusty)
             steth  == [i \in S |-> BatchStETH(i - 1, i)]
             shares == [i \in S |-> BatchShares(i - 1, i)]
             base   == E27_PRECISION_BASE
  <1>1. /\ IsFiniteSet(S) /\ S \subseteq 1..lastRequestId /\ base \in Nat \ {0}
    <2>1. IsFiniteSet(S)
      BY FS_Interval
    <2>2. lastRequestId \in Nat
      BY DEF QueueInv, TypeOK
    <2> QED
      BY <2>1, <2>2, QueueAssumption
  <1>2. /\ SumFunctionOnSet(steth, S) = BatchStETH(a, b)
        /\ SumFunctionOnSet(shares, S) = BatchShares(a, b)
    BY BatchesAreSums
  <1>3. ASSUME NEW i \in S
        PROVE  /\ steth[i] \in Nat /\ shares[i] \in Nat \ {0} /\ shares[i] <= base
               /\ BatchEther(i - 1, i, maxRate) \in Nat
               /\ BatchEther(i - 1, i, maxRate) <= steth[i]
               /\ net[i] = BatchEther(i - 1, i, maxRate) - (IF i \in dusty THEN 1 ELSE 0)
               /\ net[i] \in Int /\ net[i] <= BatchEther(i - 1, i, maxRate)
    <2>1. i \in 1..lastRequestId
      BY <1>1
    <2>2. steth[i] \in Nat /\ shares[i] \in Nat \ {0} /\ shares[i] <= base
      BY <2>1, RequestSums DEF SharesBounded
    <2>3. BatchEther(i - 1, i, maxRate) \in Nat /\ BatchEther(i - 1, i, maxRate) <= steth[i]
      BY <2>1, PriceBounded
    <2>4. net[i] = BatchEther(i - 1, i, maxRate) - (IF i \in dusty THEN 1 ELSE 0)
      BY <2>1 DEF NetPrice
    <2> QED
      BY <2>2, <2>3, <2>4
  <1>4. CASE ~(BatchShareRate(a, b) > maxRate)
    <2>1. BatchEther(a, b, maxRate) = BatchStETH(a, b)
      BY <1>4 DEF BatchEther
    <2>2. \A i \in S : net[i] \in Int /\ steth[i] \in Int /\ net[i] <= steth[i]
      BY <1>3
    <2> HIDE DEF S, net, steth
    <2>3. SumFunctionOnSet(net, S) <= SumFunctionOnSet(steth, S)
      BY <1>1, <2>2, SumMonotone
    <2> QED
      BY <1>2, <2>1, <2>3 DEF S, net
  <1>5. CASE BatchShareRate(a, b) > maxRate
    <2> DEFINE total == BatchShares(a, b) * maxRate
    <2>1. BatchEther(a, b, maxRate) = total \div base
      BY <1>5 DEF BatchEther
    <2>2. ASSUME NEW i \in S PROVE base * net[i] <= maxRate * shares[i] + 0 * shares[i]
      <3> DEFINE amount == steth[i]
                 price  == BatchEther(i - 1, i, maxRate)
                 mine   == shares[i]
      <3>1. /\ RequestDiscounted(i, maxRate) <=> (amount * base) \div mine > maxRate
            /\ price = IF RequestDiscounted(i, maxRate)
                       THEN (mine * maxRate) \div base ELSE amount
        BY DEF RequestDiscounted, BatchShareRate, BatchEther
      <3>2. amount \in Nat /\ mine \in Nat \ {0} /\ mine <= base /\ price \in Nat
        BY <1>3
      <3>3. /\ net[i] \in Int /\ net[i] <= price
            /\ ~RequestDiscounted(i, maxRate) => net[i] = price - 1
        BY <1>3, <1>5
      <3>4. maxRate * mine \in Int /\ maxRate * mine + 0 * mine = maxRate * mine
        BY <3>2, SMT
      <3> HIDE DEF amount, mine, price
      <3>5. IF (amount * base) \div mine > maxRate
            THEN base * ((mine * maxRate) \div base) <= maxRate * mine
            ELSE base * (amount - 1) <= maxRate * mine
        BY <1>1, <3>2, PriceRounded
      <3>6. base * net[i] <= maxRate * mine
        <4>1. CASE RequestDiscounted(i, maxRate)
          <5>1. base * price <= maxRate * mine
            BY <3>1, <3>5, <4>1
          <5>2. base * net[i] <= base * price /\ base * net[i] \in Int /\ base * price \in Int
            BY <1>1, <3>2, <3>3, FactorKeepsOrder
          <5> HIDE DEF net
          <5> QED
            BY <3>4, <5>1, <5>2
        <4>2. CASE ~RequestDiscounted(i, maxRate)
          BY <3>1, <3>3, <3>5, <4>2
        <4> QED
          BY <4>1, <4>2
      <3> QED
        BY <3>4, <3>6 DEF mine
    <2>3. \A i \in S : net[i] \in Int /\ shares[i] \in Int
      BY <1>3
    <2>4. BatchShares(a, b) \in Int
      BY <1>1, <1>2, <2>3, SumInt
    <2> HIDE DEF S, net, shares, base
    <2>5. base * SumFunctionOnSet(net, S)
            <= maxRate * SumFunctionOnSet(shares, S) + 0 * SumFunctionOnSet(shares, S)
      <3>1. base \in Int /\ maxRate \in Int /\ 0 \in Int
        BY <1>1
      <3> QED
        BY <1>1, <2>2, <2>3, <3>1, SumsCompare
    <2>6. SumFunctionOnSet(net, S) \in Int
      BY <1>1, <2>3, SumInt
    <2>7. base * SumFunctionOnSet(net, S) <= total
      BY <1>2, <2>4, <2>5
    <2>8. total \in Nat
      <3>1. BatchShares(a, b) \in Nat
        <4>1. \A i \in S : shares[i] \in Int /\ 0 <= shares[i]
          BY <1>3
        <4>2. 0 <= SumFunctionOnSet(shares, S)
          <5> DEFINE zero == [i \in S |-> 0]
          <5>1. SumFunctionOnSet(zero, S) = 0
            BY <1>1, SumZero
          <5>2. \A i \in S : zero[i] \in Int /\ shares[i] \in Int /\ zero[i] <= shares[i]
            BY <4>1
          <5> HIDE DEF zero
          <5>3. SumFunctionOnSet(zero, S) <= SumFunctionOnSet(shares, S)
            BY <1>1, <5>2, SumMonotone
          <5> QED
            BY <5>1, <5>3
        <4> QED
          BY <1>2, <2>4, <4>2
      <3> QED
        BY <3>1, SMT
    <2>9. SumFunctionOnSet(net, S) <= total \div base
      <3> HIDE DEF total
      <3> QED
        BY <1>1, <2>6, <2>7, <2>8, AtMostQuotient
    <2> QED
      BY <2>1, <2>9 DEF S, net, base
  <1> QED
    BY <1>4, <1>5

\* The ether of a finalization is a running total over its batches.
LEMMA EthIsRunning ==
    ASSUME NEW batches, Len(batches) \in Nat, NEW maxRate
    PROVE  \E eth : /\ eth[0] = 0
                    /\ \A k \in 1..Len(batches) :
                          eth[k] = eth[k - 1]
                                    + BatchEther(BatchStart(batches, k), batches[k], maxRate)
                    /\ EthToLock(batches, maxRate) = eth[Len(batches)]
  <1> DEFINE n    == Len(batches)
             term == [k \in 1..n |-> BatchEther(BatchStart(batches, k), batches[k], maxRate)]
             body(sum) == [k \in 0..n |-> IF k = 0 THEN 0 ELSE sum[k - 1]
                              + BatchEther(BatchStart(batches, k), batches[k], maxRate)]
             eth  == CHOOSE sum : sum = body(sum)
  <1>1. PICK total : IsRunning(total, term, n)
    BY RunningExists
  <1>2. \A k \in 0..n : k # 0 => k \in 1..n
    OBVIOUS
  <1>3. total = body(total)
    BY <1>1, <1>2 DEF IsRunning
  <1>4. eth = body(eth)
    BY <1>3
  <1>5. EthToLock(batches, maxRate) = eth[n]
    BY DEF EthToLock
  <1>6. \A k \in 0..n : eth[k] = body(eth)[k]
    BY <1>4
  <1>7. 0 \in 0..n /\ \A k \in 1..n : k \in 0..n /\ k # 0
    OBVIOUS
  <1> HIDE DEF eth
  <1>8. /\ eth[0] = 0
        /\ \A k \in 1..n : eth[k] = eth[k - 1]
                                     + BatchEther(BatchStart(batches, k), batches[k], maxRate)
    BY <1>6, <1>7
  <1> QED
    BY <1>5, <1>8

\* The last request of the first k batches.
BatchEnd(batches, k) == IF k = 0 THEN lastFinalizedRequestId ELSE batches[k]

\* Where the batches start and end.
LEMMA BatchEnds ==
    ASSUME QueueInv, NEW batches \in Seq(Nat), NEW rate, CanPrefinalize(batches, rate)
    PROVE  /\ Len(batches) \in Nat \ {0}
           /\ \A k \in 0..Len(batches) :
                 /\ BatchEnd(batches, k) \in 0..lastRequestId
                 /\ lastFinalizedRequestId <= BatchEnd(batches, k)
           /\ \A k \in 1..Len(batches) :
                 /\ BatchStart(batches, k) = BatchEnd(batches, k - 1)
                 /\ BatchEnd(batches, k) = batches[k]
                 /\ BatchEnd(batches, k - 1) < BatchEnd(batches, k)
  <1> DEFINE m == Len(batches)
             f == lastFinalizedRequestId
  <1>1. /\ m \in Nat \ {0} /\ f \in 0..lastRequestId /\ lastRequestId \in Nat
        /\ \A k \in 1..m : /\ batches[k] \in 1..lastRequestId
                           /\ BatchStart(batches, k) < batches[k]
                           /\ k > 1 => BatchStart(batches, k) = batches[k - 1]
        /\ BatchStart(batches, 1) = f
    BY BatchesInQueue DEF QueueInv, TypeOK
  <1>2. ASSUME NEW k \in 1..m
        PROVE  /\ BatchStart(batches, k) = BatchEnd(batches, k - 1)
               /\ BatchEnd(batches, k) = batches[k]
               /\ BatchEnd(batches, k - 1) < BatchEnd(batches, k)
    <2>1. k = 1 \/ (k > 1 /\ k - 1 # 0)
      OBVIOUS
    <2>2. BatchStart(batches, k) = BatchEnd(batches, k - 1)
      BY <1>1, <2>1 DEF BatchEnd
    <2>3. BatchEnd(batches, k) = batches[k]
      BY DEF BatchEnd
    <2> QED
      BY <1>1, <2>2, <2>3
  <1>3. \A k \in 0..m : BatchEnd(batches, k) \in 0..lastRequestId
    BY <1>1 DEF BatchEnd
  <1> DEFINE Good == {k \in 0..m : f <= BatchEnd(batches, k)}
  <1>4. 0 \in Good
    BY <1>1 DEF BatchEnd
  <1>5. ASSUME NEW k \in 1..m, k - 1 \in Good PROVE k \in Good
    <2>1. f <= BatchEnd(batches, k - 1) /\ BatchEnd(batches, k - 1) < BatchEnd(batches, k)
      BY <1>2, <1>5
    <2>2. BatchEnd(batches, k - 1) \in Nat /\ BatchEnd(batches, k) \in Nat /\ f \in Nat
      BY <1>1, <1>3
    <2> QED
      BY <2>1, <2>2
  <1>6. \A k \in 0..m : k \in Good
    <2> HIDE DEF Good
    <2> QED
      BY <1>1, <1>4, <1>5, LoopKeeps
  <1> QED
    BY <1>1, <1>2, <1>3, <1>6

\* The ether that a finalization locks covers the price of every request that
\* it finalizes, but for one wei for each that is paid in full out of a
\* discounted batch.
LEMMA FinalizationCovers ==
    ASSUME QueueInv, SharesBounded, NEW batches \in Seq(Nat), NEW maxRate \in Nat,
           CanPrefinalize(batches, maxRate)
    PROVE  LET new   == (lastFinalizedRequestId + 1)..batches[Len(batches)]
               price == [i \in new |-> BatchEther(i - 1, i, maxRate)]
           IN  /\ Cardinality(PaidInFull(batches, maxRate)) \in Nat
               /\ EthToLock(batches, maxRate) \in Int
               /\ SumFunctionOnSet(price, new)
                    <= EthToLock(batches, maxRate) + Cardinality(PaidInFull(batches, maxRate))
  <1> DEFINE n     == lastRequestId
             f     == lastFinalizedRequestId
             m     == Len(batches)
             new   == (f + 1)..batches[m]
             price == [i \in new |-> BatchEther(i - 1, i, maxRate)]
             dusty == PaidInFull(batches, maxRate)
             net   == NetPrice(maxRate, dusty)
             End(k) == BatchEnd(batches, k)
  <1>1. /\ m \in Nat \ {0} /\ f \in 0..n /\ n \in Nat
        /\ \A k \in 0..m : End(k) \in 0..n /\ f <= End(k)
        /\ \A k \in 1..m : /\ BatchStart(batches, k) = End(k - 1)
                           /\ End(k) = batches[k] /\ End(k - 1) < End(k)
        /\ End(0) = f
    BY BatchEnds DEF QueueInv, TypeOK, BatchEnd
  <1>2. PICK eth : /\ eth[0] = 0
                   /\ \A k \in 1..m : eth[k] = eth[k - 1] + BatchEther(End(k - 1), End(k), maxRate)
                   /\ EthToLock(batches, maxRate) = eth[m]
    <2>1. PICK eth : /\ eth[0] = 0
                     /\ \A k \in 1..m : eth[k] = eth[k - 1]
                            + BatchEther(BatchStart(batches, k), batches[k], maxRate)
                     /\ EthToLock(batches, maxRate) = eth[m]
      BY <1>1, EthIsRunning
    <2> QED
      BY <1>1, <2>1
  <1>3. ASSUME NEW k \in 1..m
        PROVE  SumFunctionOnSet(net, (End(k - 1) + 1)..End(k))
                 <= BatchEther(End(k - 1), End(k), maxRate)
    <2>1. k - 1 \in 0..m /\ k \in 0..m
      BY <1>1
    <2>2. ASSUME BatchShareRate(End(k - 1), End(k)) > maxRate,
                 NEW i \in (End(k - 1) + 1)..End(k), ~RequestDiscounted(i, maxRate)
          PROVE  i \in dusty
      <3>1. i \in BatchRequests(batches, k)
        BY <1>1, <2>2 DEF BatchRequests
      <3>2. BatchShareRate(BatchStart(batches, k), batches[k]) > maxRate
        BY <1>1, <2>2
      <3> QED
        BY <2>2, <3>1, <3>2 DEF PaidInFull
    <2> HIDE DEF End, dusty
    <2> QED
      BY <1>1, <2>1, <2>2, BatchCovers
  <1>4. \A i \in 1..n : net[i] \in Int
    <2> SUFFICES ASSUME NEW i \in 1..n PROVE net[i] \in Int
      OBVIOUS
    <2>1. BatchEther(i - 1, i, maxRate) \in Nat
      BY PriceBounded
    <2> QED
      BY <2>1 DEF NetPrice
  <1>5. ASSUME NEW k \in 1..m PROVE BatchEther(End(k - 1), End(k), maxRate) \in Int
    <2> DEFINE a == End(k - 1)
               b == End(k)
    <2>1. a \in 0..n /\ b \in 0..n
      BY <1>1
    <2>2. BatchStETH(a, b) \in Int /\ BatchShares(a, b) \in Int
      <3> HIDE DEF a, b
      <3>1. /\ queue[a].cumulativeShares \in Nat /\ queue[a].cumulativeStETH \in Nat
            /\ queue[b].cumulativeShares \in Nat /\ queue[b].cumulativeStETH \in Nat
        BY <2>1, SharesAreNat
      <3> QED
        BY <3>1 DEF BatchStETH, BatchShares
    <2>3. BatchShares(a, b) * maxRate \in Int
      BY <2>2, SMT
    <2> HIDE DEF a, b
    <2>4. (BatchShares(a, b) * maxRate) \div E27_PRECISION_BASE \in Int
      BY <2>3, QueueAssumption, DivInt
    <2>5. BatchEther(a, b, maxRate) \in Int
      BY <2>2, <2>4 DEF BatchEther
    <2> QED
      BY <2>5 DEF a, b
  <1> DEFINE Upto(k) == (f + 1)..End(k)
             Good == {k \in 0..m : eth[k] \in Int /\ SumFunctionOnSet(net, Upto(k)) <= eth[k]}
  <1>6. 0 \in Good
    <2>1. Upto(0) = {}
      BY <1>1
    <2>2. 0 \in 0..m
      BY <1>1
    <2>3. SumFunctionOnSet(net, {}) = 0
      BY SumEmpty
    <2>4. SumFunctionOnSet(net, Upto(0)) = 0
      BY <2>1, <2>3, Zenon
    <2>5. eth[0] = 0
      BY <1>2
    <2> HIDE DEF net, Upto, m
    <2>6. eth[0] \in Int /\ SumFunctionOnSet(net, Upto(0)) <= eth[0]
      BY <2>4, <2>5
    <2> QED
      BY <2>2, <2>6
  <1>7. ASSUME NEW k \in 1..m, k - 1 \in Good PROVE k \in Good
    <2> DEFINE S == Upto(k - 1)
               T == (End(k - 1) + 1)..End(k)
               e == BatchEther(End(k - 1), End(k), maxRate)
    <2>1. /\ f \in Nat /\ End(k - 1) \in Nat /\ End(k) \in Nat
          /\ f <= End(k - 1) /\ End(k - 1) < End(k) /\ End(k) <= n
      BY <1>1
    <2>2. /\ IsFiniteSet(S) /\ IsFiniteSet(T) /\ S \cap T = {} /\ S \cup T = Upto(k)
          /\ S \cup T \subseteq 1..n
      <3> HIDE DEF End
      <3>1. IsFiniteSet(S) /\ IsFiniteSet(T)
        <4>1. /\ f + 1 \in Int /\ End(k - 1) \in Int
              /\ End(k - 1) + 1 \in Int /\ End(k) \in Int
          BY <2>1
        <4> QED
          BY <4>1, FS_Interval
      <3>2. S \cap T = {} /\ S \cup T \subseteq 1..n
        BY <1>1, <2>1
      <3>3. S \cup T = Upto(k)
        <4>1. \A i : i \in S \cup T <=> i \in Upto(k)
          BY <2>1
        <4> QED
          BY <4>1
      <3> QED
        BY <3>1, <3>2, <3>3
    <2>3. SumFunctionOnSet(net, S) \in Int /\ SumFunctionOnSet(net, T) \in Int
      <3> HIDE DEF S, T, net
      <3> QED
        BY <1>4, <2>2, SumInt
    <2>4. SumFunctionOnSet(net, Upto(k)) = SumFunctionOnSet(net, S) + SumFunctionOnSet(net, T)
      <3> HIDE DEF S, T, net
      <3>1. /\ IsFiniteSet(S) /\ IsFiniteSet(T) /\ S \cap T = {}
            /\ \A i \in S \cup T : net[i] \in Int
        BY <1>4, <2>2
      <3>2. SumFunctionOnSet(net, S \cup T)
              = SumFunctionOnSet(net, S) + SumFunctionOnSet(net, T)
        BY <3>1, SumUnion
      <3> QED
        BY <2>2, <3>2
    <2>5. SumFunctionOnSet(net, T) <= e /\ e \in Int
      BY <1>3, <1>5
    <2>6. eth[k - 1] \in Int /\ SumFunctionOnSet(net, S) <= eth[k - 1] /\ eth[k] = eth[k - 1] + e
      BY <1>2, <1>7
    <2> HIDE DEF S, T, e, net, Upto
    <2> QED
      BY <2>3, <2>4, <2>5, <2>6
  <1>8. m \in Good
    <2>1. m \in Nat /\ m \in 0..m
      BY <1>1
    <2> HIDE DEF Good, m
    <2>2. \A k \in 0..m : k \in Good
      BY <1>6, <1>7, <2>1, LoopKeeps
    <2> QED
      BY <2>1, <2>2
  <1>9. /\ EthToLock(batches, maxRate) \in Int
        /\ SumFunctionOnSet(net, new) <= EthToLock(batches, maxRate)
    <2>1. m \in 1..m
      BY <1>1
    <2>2. Upto(m) = new
      BY <1>1, <2>1
    <2> QED
      BY <1>2, <1>8, <2>2
  <1>10. IsFiniteSet(new) /\ new \subseteq 1..n
    <2>1. batches[m] \in 0..n /\ m \in 1..m
      BY <1>1
    <2> HIDE DEF m
    <2>2. f + 1 \in Int /\ batches[m] \in Int
      BY <1>1, <2>1
    <2>3. IsFiniteSet(new)
      BY <2>2, FS_Interval
    <2> QED
      BY <1>1, <2>1, <2>3
  <1>11. /\ IsFiniteSet(dusty) /\ IsFiniteSet(new \cap dusty)
         /\ Cardinality(new \cap dusty) <= Cardinality(dusty)
         /\ Cardinality(dusty) \in Nat /\ Cardinality(new \cap dusty) \in Nat
    <2>1. dusty \subseteq 1..n
      <3> SUFFICES ASSUME NEW k \in 1..m, NEW i \in BatchRequests(batches, k)
                   PROVE  i \in 1..n
        BY DEF PaidInFull
      <3>1. BatchStart(batches, k) \in 0..n /\ batches[k] \in 0..n
        BY <1>1
      <3> QED
        BY <1>1, <3>1 DEF BatchRequests
    <2>2. IsFiniteSet(1..n)
      BY <1>1, FS_Interval
    <2>3. IsFiniteSet(dusty)
      BY <2>1, <2>2, FS_Subset
    <2>4. IsFiniteSet(new \cap dusty) /\ Cardinality(new \cap dusty) <= Cardinality(dusty)
      BY <2>3, FS_Subset
    <2> QED
      BY <2>3, <2>4, FS_CardinalityType
  <1>12. SumFunctionOnSet(price, new)
           = SumFunctionOnSet(net, new) + SumFunctionOnSet(Count(new, dusty), new)
    <2>1. ASSUME NEW i \in new
          PROVE  /\ net[i] \in Int /\ Count(new, dusty)[i] \in Int
                 /\ price[i] = net[i] + Count(new, dusty)[i]
      <3>1. i \in 1..n
        BY <1>10
      <3>2. BatchEther(i - 1, i, maxRate) \in Nat
        BY <3>1, PriceBounded
      <3> HIDE DEF dusty
      <3> QED
        BY <3>1, <3>2 DEF NetPrice, Count
    <2> HIDE DEF new, net, dusty, price
    <2> QED
      BY <1>10, <2>1, SumPlus
  <1>13. SumFunctionOnSet(Count(new, dusty), new) = Cardinality(new \cap dusty)
    BY <1>10, SumCount
  <1>14. SumFunctionOnSet(net, new) \in Int
    <2> HIDE DEF new, net
    <2> QED
      BY <1>4, <1>10, SumInt
  <1> HIDE DEF new, net, dusty, price
  <1>15. SumFunctionOnSet(price, new) <= EthToLock(batches, maxRate) + Cardinality(dusty)
    BY <1>9, <1>11, <1>12, <1>13, <1>14
  <1> QED
    BY <1>9, <1>11, <1>15 DEF new, price, dusty

-----------------------------------------------------------------------------
(* The locked ether against the claims                                     *)

\* The requests whose owners can claim, as the escrow sees them.
Finalized == {i \in 1..lastRequestId : status[i] = "finalized"}

\* What the owners can claim is what the escrow owes, a natural number for each.
OwedAsWorth ==
    /\ IsFiniteSet(Finalized)
    /\ Finalized = Unclaimed
    /\ \A i \in Finalized : worth[i] \in Nat
    /\ OwedEther = SumFunctionOnSet(worth, Finalized)
    /\ OwedEther \in Int

\* What is owed is the sum of what the open finalized requests are worth.
LEMMA OwedIsWorth == QueueInv => OwedAsWorth
  <1> SUFFICES ASSUME QueueInv PROVE OwedAsWorth
    OBVIOUS
  <1>1. lastRequestId \in Nat /\ lastFinalizedRequestId \in 0..lastRequestId
    BY DEF QueueInv, TypeOK
  <1>2. IsFiniteSet(Finalized)
    <2>1. IsFiniteSet(1..lastRequestId)
      BY <1>1, FS_Interval
    <2> QED
      BY <2>1, FS_Subset DEF Finalized
  <1>3. Finalized = Unclaimed
    <2>1. \A i : i \in Finalized <=> i \in Unclaimed
      BY <1>1 DEF Finalized, Unclaimed, status
    <2> QED
      BY <2>1
  <1>4. \A i \in Finalized : worth[i] \in Nat /\ worth[i] = ClaimableEther(i)
    <2> SUFFICES ASSUME NEW i \in Finalized
                 PROVE  worth[i] \in Nat /\ worth[i] = ClaimableEther(i)
      OBVIOUS
    <2>1. i \in 1..lastFinalizedRequestId /\ i \in 1..lastRequestId
      BY <1>1, <1>3 DEF Unclaimed
    <2>2. i <= lastFinalizedRequestId
      BY <2>1, <1>1
    <2> QED
      BY <2>1, <2>2, WorthBounded DEF worth
  <1> DEFINE claim == [i \in Unclaimed |-> ClaimableEther(i)]
  <1>5. \A i \in Finalized : claim[i] = worth[i]
    BY <1>3, <1>4
  <1>6. OwedEther = SumFunctionOnSet(claim, Finalized)
    BY <1>3 DEF OwedEther
  <1>7. SumFunctionOnSet(claim, Finalized) = SumFunctionOnSet(worth, Finalized)
    <2> HIDE DEF claim
    <2> QED
      BY <1>2, <1>5, SumEqual
  <1>8. SumFunctionOnSet(worth, Finalized) \in Int
    <2>1. \A i \in Finalized : worth[i] \in Int
      BY <1>4
    <2> QED
      BY <1>2, <2>1, SumInt
  <1> QED
    BY <1>2, <1>3, <1>4, <1>6, <1>7, <1>8 DEF OwedAsWorth

\* What a finalized request is worth is its price at the rate of any hint that
\* _claim accepts.
PricedByHint ==
    \A id \in 1..lastFinalizedRequestId, h \in 1..lastCheckpointIndex :
        ValidHint(id, h) =>
            ClaimableEther(id) = BatchEther(id - 1, id, checkpoints[h].maxShareRate)

\* A finalized request is worth its price at any hint that _claim accepts.
LEMMA PricesAreByHint == QueueInv => PricedByHint
  BY WorthByHint DEF PricedByHint, CalculateClaimableEther

\* The invariant: the shares of every request are within bounds, and the locked
\* ether and the dust pay for every claim.
DustInv ==
    /\ QueueInv
    /\ SharesSound
    /\ roundingDebt \in Nat
    /\ SolventUpToDust

\* A new queue owes nothing and has rounded nothing.
LEMMA DustInit == OracleInit => DustInv
  <1> SUFFICES ASSUME OracleInit PROVE DustInv
    OBVIOUS
  <1>1. QueueInv /\ roundingDebt = 0 /\ lastRequestId = 0 /\ lockedEtherAmount = 0
    BY InitInv DEF OracleInit, Init
  <1>2. SharesSound
    BY <1>1, QueueAssumption DEF SharesSound, SharesBounded, SharesWorth
  <1>3. OwedEther = 0
    <2>1. OwedEther = SumFunctionOnSet(worth, Finalized)
      BY <1>1, OwedIsWorth DEF OwedAsWorth
    <2>2. Finalized = {}
      BY <1>1 DEF Finalized
    <2> QED
      BY <2>1, <2>2, SumEmpty
  <1> QED
    BY <1>1, <1>2, <1>3 DEF DustInv, SolventUpToDust

\* A new request has a bounded number of shares, since its amount is bounded.
LEMMA EnqueueSound ==
    ASSUME QueueInv, SharesSound, NEW owner \in Users, NEW amount \in Nat,
           CheckWithdrawalRequestAmount(amount), Enqueue(amount, owner)
    PROVE  SharesSound'
  <1> DEFINE n      == lastRequestId
             shares == getSharesByPooledEth(amount)
             new    == NewRequest(amount, shares, owner)
             base   == E27_PRECISION_BASE
  <1>1. /\ n' = n + 1 /\ n \in Nat /\ n' <= MaxRequests
        /\ queue' = [i \in 0..(n + 1) |-> IF i = n + 1 THEN new ELSE queue[i]]
    BY QueueAssumption DEF Enqueue, QueueInv, TypeOK
  <1>2. /\ shares \in Nat /\ shares <= base
        /\ \A rate \in Rates : base <= shares * ShareRate(rate)
    <2> DEFINE e     == stETHRate.ether
               s     == stETHRate.shares
               most  == MAX_STETH_WITHDRAWAL_AMOUNT
               least == MIN_STETH_WITHDRAWAL_AMOUNT
    <2>1. /\ e \in Nat \ {0} /\ s \in Nat \ {0} /\ base \in Nat /\ most \in Nat
          /\ most * s <= base * e /\ amount <= most /\ least \in Nat /\ least <= amount
      BY QueueAssumption, PrecisionAssumption
      DEF QueueInv, TypeOK, CheckWithdrawalRequestAmount
    <2>2. shares = (amount * s) \div e
      BY DEF getSharesByPooledEth
    <2>3. \A rate \in Rates : /\ base <= ((least * s) \div e) * ShareRate(rate)
                              /\ ShareRate(rate) \in Nat
      BY PriceAssumption, ShareRateNat DEF QueueInv, TypeOK
    <2> HIDE DEF e, s, most, least, base, shares
    <2>4. /\ amount * s \in Nat /\ amount * s <= most * s /\ base * e \in Nat
          /\ least * s \in Nat /\ least * s <= amount * s
      BY <2>1, SMT
    <2>5. shares \in Nat /\ e * shares <= amount * s
      BY <2>1, <2>2, <2>4, Quotient
    <2>6. e * shares <= e * base
      BY <2>1, <2>4, <2>5, SMT
    <2>7. shares <= base
      BY <2>1, <2>5, <2>6, CancelFactor
    <2>8. (least * s) \div e \in Nat /\ (least * s) \div e <= shares
      <3>1. (least * s) \div e \in Nat /\ e * ((least * s) \div e) <= least * s
        BY <2>1, <2>4, Quotient
      <3> DEFINE q == (least * s) \div e
      <3> HIDE DEF q
      <3>2. e * q <= amount * s
        BY <2>1, <2>4, <3>1, SMT DEF q
      <3>3. q <= shares
        BY <2>1, <2>2, <2>4, <3>1, <3>2, AtMostQuotient DEF q
      <3> QED
        BY <3>1, <3>3 DEF q
    <2>9. ASSUME NEW rate \in Rates PROVE base <= shares * ShareRate(rate)
      <3> DEFINE q == (least * s) \div e
                 r == ShareRate(rate)
      <3>1. /\ q \in Nat /\ q <= shares /\ r \in Nat /\ base <= q * r
        BY <2>3, <2>8
      <3> HIDE DEF q, r
      <3>2. q * r <= shares * r
        BY <2>5, <3>1, SMT
      <3>3. q * r \in Nat /\ shares * r \in Nat
        BY <2>5, <3>1, SMT
      <3>4. base <= shares * r
        BY <2>1, <3>1, <3>2, <3>3
      <3> QED
        BY <3>4 DEF r
    <2> QED
      BY <2>5, <2>7, <2>9
  <1> DEFINE Own(i) == queue'[i].cumulativeShares - queue'[i - 1].cumulativeShares
  <1>3. ASSUME NEW i \in 1..(n + 1)
        PROVE  Own(i) <= base /\ \A rate \in Rates : base <= Own(i) * ShareRate(rate)
    <2>1. CASE i = n + 1
      <3>1. queue'[i].cumulativeShares = queue[n].cumulativeShares + shares
        BY <1>1, <2>1 DEF NewRequest
      <3>2. queue'[i - 1] = queue[n] /\ queue[n].cumulativeShares \in Nat
        BY <1>1, <2>1, SharesAreNat
      <3> HIDE DEF shares
      <3>3. Own(i) = shares
        BY <1>2, <3>1, <3>2
      <3> QED
        BY <1>2, <3>3
    <2>2. CASE i # n + 1
      <3>1. i \in 1..n /\ i \in 0..(n + 1) /\ i - 1 \in 0..(n + 1) /\ i - 1 # n + 1
        BY <1>1, <2>2
      <3>2. queue'[i] = queue[i] /\ queue'[i - 1] = queue[i - 1]
        BY <1>1, <2>2, <3>1
      <3>3. Own(i) = BatchShares(i - 1, i)
        BY <3>2 DEF BatchShares
      <3> HIDE DEF Own
      <3> QED
        BY <3>1, <3>3 DEF SharesSound, SharesBounded, SharesWorth
    <2> QED
      BY <2>1, <2>2
  <1>4. \A i \in 1..(n + 1) : BatchShares(i - 1, i)' = Own(i)
    BY DEF BatchShares
  <1>5. \A rate \in Rates : ShareRate(rate)' = ShareRate(rate)
    BY DEF ShareRate
  <1> HIDE DEF Own
  <1>6. SharesBounded' /\ SharesWorth'
    BY <1>1, <1>3, <1>4, <1>5 DEF SharesBounded, SharesWorth
  <1> QED
    BY <1>1, <1>6 DEF SharesSound

\* A step that leaves the sums of the requests alone.
LEMMA SameSumsSound ==
    ASSUME QueueInv, SharesSound, lastRequestId' = lastRequestId,
           \A j \in 0..lastRequestId : queue'[j].cumulativeShares = queue[j].cumulativeShares
    PROVE  SharesSound'
  <1>1. \A i \in 1..lastRequestId : i \in 0..lastRequestId /\ i - 1 \in 0..lastRequestId
    BY DEF QueueInv, TypeOK
  <1>2. \A i \in 1..lastRequestId : BatchShares(i - 1, i)' = BatchShares(i - 1, i)
    BY <1>1 DEF BatchShares
  <1>3. \A rate \in Rates : ShareRate(rate)' = ShareRate(rate)
    BY DEF ShareRate
  <1>4. SharesBounded' /\ SharesWorth'
    BY <1>2, <1>3 DEF SharesSound, SharesBounded, SharesWorth
  <1> QED
    BY <1>4 DEF SharesSound

\* Requests are few and small enough for their prices to be exact up to a wei.
LEMMA SharesStaySound == QueueInv /\ SharesSound /\ [Next]_vars => SharesSound'
  <1> SUFFICES ASSUME QueueInv, SharesSound, [Next]_vars PROVE SharesSound'
    OBVIOUS
  <1>1. CASE AnyFinalize
    <2>1. UNCHANGED <<queue, lastRequestId>>
      BY <1>1 DEF AnyFinalize, Finalize
    <2> QED
      BY <2>1, SameSumsSound
  <1>2. ASSUME NEW u \in Users, NEW amount \in Amounts, RequestWithdrawal(amount, u)
        PROVE  SharesSound'
    BY <1>2, QueueAssumption, EnqueueSound DEF RequestWithdrawal
  <1>3. ASSUME NEW u \in Users, NEW amount \in Amounts, RequestWithdrawalWstETH(amount, u)
        PROVE  SharesSound'
    <2>1. getPooledEthByShares(amount) \in Nat
      <3>1. amount * stETHRate.ether \in Nat /\ stETHRate.shares \in Nat \ {0}
        BY QueueAssumption DEF QueueInv, TypeOK
      <3> QED
        BY <3>1, DivNat DEF getPooledEthByShares
    <2> QED
      BY <2>1, <1>3, EnqueueSound DEF RequestWithdrawalWstETH
  <1>4. ASSUME NEW u \in Users, NEW id, NEW hint, Claim(u, id, hint)
        PROVE  SharesSound'
    <2>1. /\ id \in 1..lastRequestId /\ lastRequestId \in Nat
          /\ DOMAIN queue = 0..lastRequestId /\ queue[id] \in WithdrawalRequest
      BY <1>4 DEF Claim, QueueInv, TypeOK
    <2>2. queue' = [queue EXCEPT ![id].claimed = TRUE] /\ UNCHANGED lastRequestId
      BY <1>4 DEF Claim, CloseRequest
    <2>3. \A i \in 0..lastRequestId : queue'[i].cumulativeShares = queue[i].cumulativeShares
      BY <2>1, <2>2 DEF WithdrawalRequest
    <2> QED
      BY <2>2, <2>3, SameSumsSound
  <1>5. CASE UserStep
    BY <1>2, <1>3, <1>4, <1>5 DEF UserStep, ClaimWithdrawal, ClaimWithdrawals
  <1>6. CASE ReportStep \/ PauseStep \/ Tick \/ UNCHANGED vars
    <2>1. UNCHANGED <<queue, lastRequestId>>
      BY <1>6
      DEF ReportStep, OnOracleReport, PauseStep, Resume, PauseFor, PauseUntil, Tick,
          vars, queueVars, requestVars
    <2> QED
      BY <2>1, SameSumsSound
  <1> QED
    BY <1>1, <1>5, <1>6 DEF Next, OtherStep

\* A request, a claim and what changes nothing in the escrow keep what the owners
\* can claim within the locked ether: a claim takes from both what it pays.
LEMMA OtherSolvent ==
    ASSUME QueueInv, OwedAsWorth, OwedAsWorth', SolventUpToDust,
           Escrow!Request \/ Escrow!Claim \/ UNCHANGED Escrow!vars,
           roundingDebt' = roundingDebt, lockedEtherAmount \in Nat, roundingDebt \in Nat
    PROVE  SolventUpToDust'
  <1> DEFINE n == lastRequestId
  <1>1. /\ OwedEther = SumFunctionOnSet(worth, Finalized) /\ OwedEther \in Int
        /\ OwedEther' = SumFunctionOnSet(worth', Finalized') /\ OwedEther' \in Int
        /\ OwedEther <= lockedEtherAmount + roundingDebt
        /\ IsFiniteSet(Finalized) /\ \A i \in Finalized : worth[i] \in Nat
    BY DEF OwedAsWorth, SolventUpToDust
  <1>2. n \in Nat /\ status = [i \in 1..n |-> status[i]]
    BY DEF QueueInv, TypeOK, status
  <1>3. CASE Escrow!Request
    <2>1. /\ n' = n + 1 /\ lockedEtherAmount' = lockedEtherAmount
          /\ status' = [i \in 1..(n + 1) |-> IF i = n + 1 THEN "pending" ELSE status[i]]
          /\ \A i \in 1..n : worth'[i] = worth[i]
      BY <1>3 DEF Escrow!Request
    <2>2. Finalized' = Finalized
      <3>1. \A i \in 1..(n + 1) : i = n + 1 \/ i \in 1..n
        BY <1>2
      <3>2. \A i \in 1..n : i \in 1..(n + 1) /\ i # n + 1
        BY <1>2
      <3>3. \A i : i \in Finalized' <=> i \in 1..(n + 1) /\ status'[i] = "finalized"
        BY <2>1 DEF Finalized
      <3>4. \A i : i \in Finalized' <=> i \in 1..n /\ status[i] = "finalized"
        BY <2>1, <3>1, <3>2, <3>3
      <3> QED
        BY <3>4 DEF Finalized
    <2>3. \A i \in Finalized : worth[i] = worth'[i]
      BY <2>1 DEF Finalized
    <2>4. SumFunctionOnSet(worth, Finalized) = SumFunctionOnSet(worth', Finalized)
      BY <1>1, <2>3, SumEqual
    <2> QED
      BY <1>1, <2>1, <2>2, <2>4 DEF SolventUpToDust
  <1>4. CASE Escrow!Claim
    <2>1. PICK id \in 1..n :
            /\ status[id] = "finalized"
            /\ status' = [status EXCEPT ![id] = "claimed"]
            /\ lockedEtherAmount' = lockedEtherAmount - worth[id]
            /\ n' = n /\ worth' = worth
      BY <1>4 DEF Escrow!Claim
    <2>2. id \in Finalized
      BY <2>1 DEF Finalized
    <2>3. Finalized' = Finalized \ {id}
      <3>1. \A i \in 1..n : status'[i] = IF i = id THEN "claimed" ELSE status[i]
        BY <1>2, <2>1
      <3> QED
        BY <2>1, <3>1 DEF Finalized
    <2>4. SumFunctionOnSet(worth, Finalized)
            = worth[id] + SumFunctionOnSet(worth, Finalized \ {id})
      <3>1. \A i \in Finalized : worth[i] \in Int
        BY <1>1
      <3> QED
        BY <1>1, <2>2, <3>1, SumRemove
    <2>5. OwedEther' = SumFunctionOnSet(worth, Finalized \ {id})
      BY <1>1, <2>1, <2>3
    <2>6. worth[id] \in Nat
      BY <1>1, <2>2
    <2>7. OwedEther' <= lockedEtherAmount' + roundingDebt'
      <3> DEFINE w == worth[id]
      <3>1. OwedEther = w + OwedEther'
        BY <1>1, <2>4, <2>5
      <3>2. w \in Nat /\ lockedEtherAmount' = lockedEtherAmount - w
        BY <2>1, <2>6
      <3> HIDE DEF w
      <3> QED
        BY <1>1, <3>1, <3>2
    <2> QED
      BY <2>7 DEF SolventUpToDust
  <1>5. CASE UNCHANGED Escrow!vars
    <2>1. n' = n /\ status' = status /\ worth' = worth /\ lockedEtherAmount' = lockedEtherAmount
      BY <1>5 DEF Escrow!vars
    <2>2. Finalized' = Finalized
      BY <2>1 DEF Finalized
    <2> QED
      BY <1>1, <2>1, <2>2 DEF SolventUpToDust
  <1> QED
    BY <1>3, <1>4, <1>5

\* A finalization adds to the claims the prices of the requests it finalizes,
\* which the ether it locks and the dust cover.
LEMMA FinalizeSolvent ==
    ASSUME DustInv, QueueInv', OwedAsWorth, OwedAsWorth', PricedByHint',
           NEW batches \in Seq(Nat), NEW rate \in Nat, Finalize(batches, rate),
           roundingDebt' = roundingDebt + Cardinality(PaidInFull(batches, rate))
    PROVE  roundingDebt' \in Nat /\ SolventUpToDust'
  <1> DEFINE n     == lastRequestId
             f     == lastFinalizedRequestId
             c     == lastCheckpointIndex
             last  == batches[Len(batches)]
             new   == (f + 1)..last
             price == [i \in new |-> BatchEther(i - 1, i, rate)]
             ether == EthToLock(batches, rate)
             dust  == Cardinality(PaidInFull(batches, rate))
  <1>1. /\ QueueInv /\ SharesBounded /\ roundingDebt \in Nat
        /\ OwedEther <= lockedEtherAmount + roundingDebt
        /\ CanPrefinalize(batches, rate)
        /\ lockedEtherAmount \in Nat
        /\ UNCHANGED queue /\ UNCHANGED lastRequestId
    BY DEF DustInv, SharesSound, SolventUpToDust, Finalize, QueueInv, TypeOK
  <1>2. /\ lastFinalizedRequestId' = last
        /\ lockedEtherAmount' = lockedEtherAmount + ether
        /\ lastCheckpointIndex' = c + 1
        /\ checkpoints' = [i \in 0..(c + 1) |-> IF i = c + 1 THEN NewCheckpoint(rate)
                                                ELSE checkpoints[i]]
        /\ last \in (f + 1)..n
    BY DEF Finalize
  <1>3. dust \in Nat /\ ether \in Int /\ SumFunctionOnSet(price, new) <= ether + dust
    BY <1>1, FinalizationCovers
  <1>4. /\ n \in Nat /\ f \in 0..n /\ c \in Nat /\ last \in Nat /\ new \subseteq 1..n
        /\ IsFiniteSet(new)
    <2>1. n \in Nat /\ f \in 0..n /\ c \in Nat
      BY <1>1 DEF QueueInv, TypeOK
    <2> HIDE DEF last
    <2>2. last \in Nat /\ last <= n
      BY <1>2, <2>1
    <2>3. IsFiniteSet(new)
      BY <2>1, <2>2, FS_Interval
    <2> QED
      BY <2>1, <2>2, <2>3
  <1>5. ASSUME NEW i \in new
        PROVE  worth'[i] = price[i]
    <2>1. i \in 1..lastFinalizedRequestId' /\ i \in 1..n /\ f + 1 <= i /\ i <= last
      BY <1>2, <1>4
    <2>2. PICK h \in Nat : h = c + 1
      BY <1>4
    <2>3. checkpoints'[h] = NewCheckpoint(rate) /\ h \in 1..lastCheckpointIndex'
      BY <1>2, <1>4, <2>2
    <2>4. ValidHint(i, h)'
      BY <1>2, <1>4, <2>1, <2>2, <2>3 DEF ValidHint, NewCheckpoint
    <2>5. checkpoints'[h].maxShareRate = rate
      BY <2>3 DEF NewCheckpoint
    <2>6. ClaimableEther(i)' = BatchEther(i - 1, i, rate)
      <3>1. ClaimableEther(i)' = BatchEther(i - 1, i, checkpoints[h].maxShareRate)'
        BY <2>1, <2>3, <2>4 DEF PricedByHint
      <3> QED
        BY <1>1, <2>5, <3>1 DEF BatchEther, BatchShareRate, BatchStETH, BatchShares
    <2>7. worth'[i] = ClaimableEther(i)'
      BY <1>1, <1>2, <1>4, <2>1 DEF worth
    <2> QED
      BY <2>6, <2>7
  <1>6. Escrow!Finalize
    BY <1>1, EscrowFinalize
  <1>7. Finalized' = Finalized \cup new /\ Finalized \cap new = {}
    <2>1. /\ \A i : i \in Finalized <=> i \in 1..f /\ ~queue[i].claimed
          /\ \A i : i \in Finalized' <=> i \in 1..last /\ ~queue'[i].claimed
      BY <1>2 DEF OwedAsWorth, Unclaimed
    <2>2. \A i \in new : ~queue[i].claimed
      <3> SUFFICES ASSUME NEW i \in new, queue[i].claimed PROVE FALSE
        OBVIOUS
      <3>1. i \in 1..n /\ f + 1 <= i
        BY <1>4
      <3> QED
        BY <1>1, <1>4, <3>1 DEF QueueInv, ClaimedIsFinalized
    <2>3. \A i : i \in 1..last <=> i \in 1..f \/ i \in new
      BY <1>2, <1>4
    <2>4. \A i \in new : i \notin 1..f
      BY <1>4
    <2> HIDE DEF new, last
    <2>5. \A i : i \in Finalized' <=> i \in Finalized \/ i \in new
      BY <1>1, <2>1, <2>2, <2>3
    <2> QED
      BY <2>1, <2>4, <2>5
  <1>8. \A i \in Finalized : worth'[i] = worth[i]
    <2> SUFFICES ASSUME NEW i \in Finalized PROVE worth'[i] = worth[i]
      OBVIOUS
    <2>1. i \in 1..n /\ status[i] = "finalized"
      BY DEF Finalized
    <2>2. PICK bound \in 1..n :
            /\ status' = [j \in 1..n |-> IF j <= bound /\ status[j] = "pending"
                                         THEN "finalized" ELSE status[j]]
            /\ \A j \in 1..n : IF status'[j] # status[j] THEN worth'[j] <= worth[j]
                               ELSE worth'[j] = worth[j]
      BY <1>6 DEF Escrow!Finalize
    <2> QED
      BY <2>1, <2>2
  <1>9. OwedEther' = OwedEther + SumFunctionOnSet(price, new)
    <2>1. /\ IsFiniteSet(Finalized) /\ \A i \in Finalized : worth[i] \in Nat
          /\ OwedEther = SumFunctionOnSet(worth, Finalized)
          /\ OwedEther' = SumFunctionOnSet(worth', Finalized')
          /\ \A i \in Finalized' : worth'[i] \in Nat
      BY DEF OwedAsWorth
    <2>2. SumFunctionOnSet(worth', Finalized \cup new)
            = SumFunctionOnSet(worth', Finalized) + SumFunctionOnSet(worth', new)
      <3>1. \A i \in Finalized \cup new : worth'[i] \in Int
        BY <1>7, <2>1
      <3> HIDE DEF new
      <3> QED
        BY <1>4, <1>7, <2>1, <3>1, SumUnion
    <2>3. SumFunctionOnSet(worth', Finalized) = SumFunctionOnSet(worth, Finalized)
      BY <1>8, <2>1, SumEqual
    <2>4. SumFunctionOnSet(worth', new) = SumFunctionOnSet(price, new)
      <3> HIDE DEF new, price
      <3> QED
        BY <1>4, <1>5, SumEqual
    <2> QED
      BY <1>7, <2>1, <2>2, <2>3, <2>4
  <1>10. SumFunctionOnSet(price, new) \in Int
    <2>1. \A i \in new : price[i] \in Int
      <3> SUFFICES ASSUME NEW i \in new PROVE BatchEther(i - 1, i, rate) \in Int
        OBVIOUS
      <3>1. i \in 1..n
        BY <1>4
      <3> QED
        BY <1>1, <3>1, PriceBounded
    <2> HIDE DEF new, price
    <2> QED
      BY <1>4, <2>1, SumInt
  <1>11. OwedEther \in Int
    BY DEF OwedAsWorth
  <1> HIDE DEF new, price, ether, dust
  <1>12. roundingDebt' = roundingDebt + dust
    BY DEF dust
  <1>13. OwedEther' <= lockedEtherAmount' + roundingDebt'
    BY <1>1, <1>2, <1>3, <1>9, <1>10, <1>11, <1>12
  <1>14. roundingDebt' \in Nat
    BY <1>1, <1>3, <1>12
  <1> QED
    BY <1>13, <1>14 DEF SolventUpToDust

\* A finalization locks what its requests can claim, up to a wei for each that is paid
\* in full in a batch above the maximal rate.
LEMMA DustFinalize ==
    ASSUME DustInv, NEW batches \in Seq(Nat), NEW rate \in Nat, Finalize(batches, rate),
           roundingDebt' = roundingDebt + Cardinality(PaidInFull(batches, rate))
    PROVE  DustInv'
  <1>1. QueueInv /\ SharesSound
    BY DEF DustInv
  <1>2. QueueInv'
    BY <1>1, FinalizeInv
  <1>3. SharesSound'
    BY <1>1, SameSumsSound DEF Finalize
  <1>4. OwedAsWorth /\ OwedAsWorth' /\ PricedByHint'
    BY <1>1, <1>2, OwedIsWorth, PricesAreByHint, PTL
  <1>5. roundingDebt' \in Nat /\ SolventUpToDust'
    BY <1>2, <1>4, FinalizeSolvent
  <1> QED
    BY <1>2, <1>3, <1>5 DEF DustInv

\* No other call adds to what is owed without ether, or takes ether without a claim.
LEMMA DustOther ==
    ASSUME DustInv, OtherStep \/ UNCHANGED vars, UNCHANGED roundingDebt
    PROVE  DustInv'
  <1>1. QueueInv /\ SharesSound /\ roundingDebt \in Nat /\ SolventUpToDust
    BY DEF DustInv
  <1>2. [Next]_vars
    BY DEF Next
  <1>3. QueueInv' /\ SharesSound'
    BY <1>1, <1>2, NextInv, SharesStaySound
  <1>4. OwedAsWorth /\ OwedAsWorth'
    BY <1>1, <1>3, OwedIsWorth, PTL
  <1>5. Escrow!Request \/ Escrow!Claim \/ UNCHANGED Escrow!vars
    BY <1>1, <1>3, EscrowOther
  <1>6. lockedEtherAmount \in Nat
    BY <1>1 DEF QueueInv, TypeOK
  <1>7. SolventUpToDust'
    BY <1>1, <1>4, <1>5, <1>6, OtherSolvent
  <1> QED
    BY <1>1, <1>3, <1>7 DEF DustInv

\* So every step of the oracle that reports any batches keeps the invariant.
LEMMA DustNext == DustInv /\ [FreeNext]_oracleVars => DustInv'
  <1> SUFFICES ASSUME DustInv, [FreeNext]_oracleVars PROVE DustInv'
    OBVIOUS
  <1>1. CASE FreeFinalize
    <2>1. PICK batches \in BatchProposals, rate \in Rates :
            /\ Finalize(batches, ShareRate(rate))
            /\ roundingDebt' = roundingDebt + Cardinality(PaidInFull(batches, ShareRate(rate)))
      BY <1>1 DEF FreeFinalize
    <2>2. batches \in Seq(Nat) /\ ShareRate(rate) \in Nat
      BY ProposalsAreLists, ShareRateNat DEF DustInv
    <2> QED
      BY <2>1, <2>2, DustFinalize
  <1>2. CASE (OtherStep /\ UNCHANGED roundingDebt) \/ UNCHANGED oracleVars
    BY <1>2, DustOther DEF oracleVars
  <1> QED
    BY <1>1, <1>2 DEF FreeNext

\* Whatever batches the oracle reports, the locked ether pays for every claim,
\* up to one wei for each request that was paid in full out of a discounted
\* batch.
THEOREM AlwaysSolvent == FreeSpec => []SolventUpToDust
  <1>1. DustInv => SolventUpToDust
    BY DEF DustInv
  <1> QED
    BY <1>1, DustInit, DustNext, PTL DEF FreeSpec

-----------------------------------------------------------------------------
(* The loop of the view                                                    *)

CalculationStates == [remainingEthBudget: Nat, finished: BOOLEAN, batches: Seq(Nat)]

\* Batches that grow, over requests that wait.
Ordered(batches) ==
    /\ batches \in Seq(Nat)
    /\ \A k \in 1..Len(batches) : batches[k] \in (lastFinalizedRequestId + 1)..lastRequestId
    /\ \A k \in 2..Len(batches) : batches[k] > batches[k - 1]

\* What the loop goes through: as long as it is not broken, the next request is
\* the one after its last batch.
Loops(end) ==
    {loop \in [state: CalculationStates, currentId: Nat, broken: BOOLEAN] :
        /\ loop.currentId \in (lastFinalizedRequestId + 1)..end
        /\ Ordered(loop.state.batches)
        /\ IF loop.broken THEN loop.currentId < end
           ELSE FirstUnhandled(loop.state) = loop.currentId}

\* Ordered batches stay ordered when the next request extends the last one.
LEMMA OrderedExtends ==
    ASSUME QueueInv, NEW batches, Ordered(batches), batches # <<>>,
           NEW id \in 1..lastRequestId, id = batches[Len(batches)] + 1
    PROVE  /\ Ordered([batches EXCEPT ![Len(batches)] = id])
           /\ Len([batches EXCEPT ![Len(batches)] = id]) = Len(batches)
           /\ [batches EXCEPT ![Len(batches)] = id][Len(batches)] = id
  <1> DEFINE m   == Len(batches)
             new == [batches EXCEPT ![m] = id]
             f   == lastFinalizedRequestId
  <1>1. /\ f \in Nat /\ lastRequestId \in Nat /\ batches \in Seq(Nat) /\ m \in Nat \ {0}
        /\ \A k \in 1..m : batches[k] \in (f + 1)..lastRequestId
        /\ \A k \in 2..m : batches[k] > batches[k - 1]
    <2>1. batches \in Seq(Nat) /\ f \in Nat /\ lastRequestId \in Nat
      BY DEF Ordered, QueueInv, TypeOK
    <2>2. m \in Nat \ {0}
      BY <2>1, EmptySeq
    <2> QED
      BY <2>1, <2>2 DEF Ordered
  <1>2. /\ new \in Seq(Nat) /\ Len(new) = m
        /\ \A k \in 1..m : new[k] = IF k = m THEN id ELSE batches[k]
    BY <1>1, ExceptSeq
  <1> HIDE DEF new
  <1>3. ASSUME NEW k \in 1..m PROVE new[k] \in (f + 1)..lastRequestId
    <2>1. batches[m] \in (f + 1)..lastRequestId /\ batches[k] \in (f + 1)..lastRequestId
      BY <1>1
    <2>2. id \in (f + 1)..lastRequestId
      BY <1>1, <2>1
    <2>3. new[k] = IF k = m THEN id ELSE batches[k]
      BY <1>2
    <2> QED
      BY <2>1, <2>2, <2>3
  <1>4. ASSUME NEW k \in 2..m PROVE new[k] > new[k - 1]
    <2>1. k \in 1..m /\ k - 1 \in 1..m /\ k - 1 # m
      BY <1>1
    <2>2. batches[k] > batches[k - 1] /\ batches[k] \in Nat /\ batches[k - 1] \in Nat
      <3> HIDE DEF m, f
      <3>1. batches[k] > batches[k - 1]
        BY <1>1
      <3>2. /\ batches[k] \in (f + 1)..lastRequestId
            /\ batches[k - 1] \in (f + 1)..lastRequestId
        BY <1>1, <2>1
      <3>3. \A i \in (f + 1)..lastRequestId : i \in Nat
        BY <1>1
      <3> QED
        BY <3>1, <3>2, <3>3
    <2>3. new[k - 1] = batches[k - 1] /\ new[k] = IF k = m THEN id ELSE batches[k]
      BY <1>2, <2>1
    <2> QED
      BY <2>2, <2>3
  <1>5. m \in 1..m /\ new[m] = id
    BY <1>1, <1>2
  <1> QED
    BY <1>2, <1>3, <1>4, <1>5 DEF Ordered, new

\* And when it makes a batch of its own.
LEMMA OrderedAppends ==
    ASSUME QueueInv, NEW batches, Ordered(batches), NEW id \in 1..lastRequestId,
           id = IF batches = <<>> THEN lastFinalizedRequestId + 1
                ELSE batches[Len(batches)] + 1
    PROVE  /\ Ordered(Append(batches, id))
           /\ Append(batches, id) # <<>>
           /\ Append(batches, id)[Len(Append(batches, id))] = id
  <1> DEFINE m   == Len(batches)
             new == Append(batches, id)
             f   == lastFinalizedRequestId
  <1>1. /\ f \in Nat /\ lastRequestId \in Nat /\ batches \in Seq(Nat) /\ m \in Nat
        /\ \A k \in 1..m : batches[k] \in (f + 1)..lastRequestId
        /\ \A k \in 2..m : batches[k] > batches[k - 1]
        /\ batches = <<>> <=> m = 0
    <2>1. batches \in Seq(Nat) /\ f \in Nat /\ lastRequestId \in Nat
      BY DEF Ordered, QueueInv, TypeOK
    <2>2. m \in Nat /\ (batches = <<>> <=> m = 0)
      BY <2>1, EmptySeq
    <2> QED
      BY <2>1, <2>2 DEF Ordered
  <1>2. /\ new \in Seq(Nat) /\ Len(new) = m + 1
        /\ \A k \in 1..m : new[k] = batches[k]
        /\ new[m + 1] = id
    BY <1>1
  <1>3. new # <<>>
    BY <1>1, <1>2
  <1> HIDE DEF new
  <1>4. id \in (f + 1)..lastRequestId
    <2>1. CASE m = 0
      BY <1>1, <2>1
    <2>2. CASE m # 0
      <3>1. batches[m] \in (f + 1)..lastRequestId
        BY <1>1, <2>2
      <3> QED
        BY <1>1, <2>2, <3>1
    <2> QED
      BY <2>1, <2>2
  <1>5. \A k \in 1..(m + 1) : new[k] \in (f + 1)..lastRequestId
    <2>1. \A k \in 1..(m + 1) : k = m + 1 \/ k \in 1..m
      BY <1>1
    <2> QED
      BY <1>1, <1>2, <1>4, <2>1
  <1>6. ASSUME NEW k \in 2..(m + 1) PROVE new[k] > new[k - 1]
    <2>1. CASE k = m + 1
      <3>1. k - 1 = m /\ m \in 1..m /\ batches[m] \in Nat /\ m # 0
        BY <1>1, <2>1
      <3> QED
        BY <1>1, <1>2, <2>1, <3>1
    <2>2. CASE k # m + 1
      <3>1. k \in 2..m /\ k \in 1..m /\ k - 1 \in 1..m
        BY <1>1, <2>2
      <3> QED
        BY <1>1, <1>2, <3>1
    <2> QED
      BY <2>1, <2>2
  <1> QED
    BY <1>2, <1>3, <1>5, <1>6 DEF Ordered, new

\* Every iteration keeps to the states of the loop: a broken loop stays as it
\* is, another handles the request or breaks at it.
LEMMA HandleKeeps ==
    ASSUME QueueInv, NEW end \in 1..(lastRequestId + 1), NEW rate \in Nat, NEW time,
           NEW loop \in Loops(end)
    PROVE  LET new == HandleRequest(loop, end, rate, time)
           IN  /\ new \in Loops(end)
               /\ new.state.finished = loop.state.finished
               /\ loop.broken \/ loop.currentId = end => new = loop
               /\ ~new.broken /\ loop.currentId # end => new.currentId = loop.currentId + 1
  <1> DEFINE state   == loop.state
             id      == loop.currentId
             batches == state.batches
             n       == Len(batches)
             ether   == RequestEther(id, rate)
             paid    == [state EXCEPT !.remainingEthBudget = @ - ether]
             extends == n # 0 /\ SameBatch(id, rate)
             next    == IF extends THEN [paid EXCEPT !.batches[n] = id]
                        ELSE [paid EXCEPT !.batches = Append(@, id)]
             new     == HandleRequest(loop, end, rate, time)
  <1>1. /\ loop \in [state: CalculationStates, currentId: Nat, broken: BOOLEAN]
        /\ id \in (lastFinalizedRequestId + 1)..end
        /\ Ordered(batches)
        /\ IF loop.broken THEN id < end ELSE FirstUnhandled(state) = id
        /\ lastFinalizedRequestId \in Nat /\ lastRequestId \in Nat /\ end \in Nat
    BY DEF Loops, QueueInv, TypeOK
  <1>2. /\ state \in CalculationStates /\ batches \in Seq(Nat) /\ n \in Nat
        /\ (batches = <<>> <=> n = 0) /\ loop.broken \in BOOLEAN
    <2>1. state \in CalculationStates /\ batches \in Seq(Nat) /\ loop.broken \in BOOLEAN
      BY <1>1 DEF CalculationStates
    <2> QED
      BY <2>1, EmptySeq
  <1>3. new = IF loop.broken \/ id = end THEN loop
              ELSE IF queue[id].timestamp > time \/ ether > state.remainingEthBudget
              THEN [loop EXCEPT !.broken = TRUE]
              ELSE IF ~extends /\ n = MAX_BATCHES_LENGTH
              THEN [loop EXCEPT !.state = paid, !.broken = TRUE]
              ELSE [state |-> next, currentId |-> id + 1, broken |-> FALSE]
    BY DEF HandleRequest, Spend
  <1> SUFFICES /\ new \in Loops(end)
               /\ new.state.finished = state.finished
               /\ loop.broken \/ id = end => new = loop
               /\ ~new.broken /\ id # end => new.currentId = id + 1
    OBVIOUS
  <1> HIDE DEF new
  <1>4. CASE loop.broken \/ id = end
    BY <1>3, <1>4
  <1>5. CASE /\ ~(loop.broken \/ id = end)
             /\ queue[id].timestamp > time \/ ether > state.remainingEthBudget
    <2>1. new = [loop EXCEPT !.broken = TRUE]
      BY <1>3, <1>5
    <2>2. /\ new \in [state: CalculationStates, currentId: Nat, broken: BOOLEAN]
          /\ new.state = state /\ new.currentId = id /\ new.broken
      BY <1>1, <2>1
    <2>3. id < end
      BY <1>1, <1>5
    <2> QED
      BY <1>1, <1>5, <2>2, <2>3 DEF Loops
  <1>6. CASE /\ ~(loop.broken \/ id = end)
             /\ ~(queue[id].timestamp > time \/ ether > state.remainingEthBudget)
    <2>1. id < end /\ id \in 1..lastRequestId /\ FirstUnhandled(state) = id
      BY <1>1, <1>6
    <2>2. ether \in Nat
      BY <2>1, PriceBounded DEF RequestEther
    <2>3. paid = [remainingEthBudget |-> state.remainingEthBudget - ether,
                  finished |-> state.finished, batches |-> batches]
      BY <1>2 DEF CalculationStates
    <2>4. paid \in CalculationStates /\ state.remainingEthBudget - ether \in Nat
      <3>1. state.remainingEthBudget \in Nat /\ state.finished \in BOOLEAN
        BY <1>2 DEF CalculationStates
      <3>2. state.remainingEthBudget - ether \in Nat
        BY <1>6, <2>2, <3>1
      <3> HIDE DEF ether, paid, batches
      <3> QED
        BY <1>2, <2>3, <3>1, <3>2 DEF CalculationStates
    <2>5. CASE ~extends /\ n = MAX_BATCHES_LENGTH
      <3>1. new = [loop EXCEPT !.state = paid, !.broken = TRUE]
        BY <1>3, <1>6, <2>5
      <3>2. paid.batches = batches /\ paid.finished = state.finished
        BY <2>3
      <3> HIDE DEF paid
      <3>3. /\ new \in [state: CalculationStates, currentId: Nat, broken: BOOLEAN]
            /\ new.state = paid /\ new.currentId = id /\ new.broken
        BY <1>1, <2>4, <3>1
      <3> QED
        BY <1>1, <1>6, <2>1, <3>2, <3>3 DEF Loops
    <2>6. CASE ~(~extends /\ n = MAX_BATCHES_LENGTH)
      <3> DEFINE longer == IF extends THEN [batches EXCEPT ![n] = id] ELSE Append(batches, id)
      <3>1. new = [state |-> next, currentId |-> id + 1, broken |-> FALSE]
        BY <1>3, <1>6, <2>6
      <3>2. next = [remainingEthBudget |-> state.remainingEthBudget - ether,
                    finished |-> state.finished, batches |-> longer]
        <4> HIDE DEF ether
        <4> QED
          BY <2>3
      <3>3. id = IF batches = <<>> THEN lastFinalizedRequestId + 1 ELSE batches[n] + 1
        BY <2>1 DEF FirstUnhandled
      <3>4. Ordered(longer) /\ longer # <<>> /\ longer[Len(longer)] = id
        <4>1. CASE extends
          <5>1. batches # <<>> /\ id = batches[n] + 1
            BY <1>2, <3>3, <4>1
          <5>2. longer = [batches EXCEPT ![n] = id]
            BY <4>1
          <5>3. Ordered(longer) /\ Len(longer) = n /\ longer[n] = id
            BY <1>1, <2>1, <5>1, <5>2, OrderedExtends
          <5>4. longer # <<>>
            <6>1. n # 0
              BY <4>1
            <6> HIDE DEF longer, n
            <6> QED
              BY <5>3, <6>1, EmptySeq
          <5> QED
            BY <5>3, <5>4
        <4>2. CASE ~extends
          <5>1. longer = Append(batches, id)
            BY <4>2
          <5> QED
            BY <1>1, <2>1, <3>3, <5>1, OrderedAppends
        <4> QED
          BY <4>1, <4>2
      <3> HIDE DEF longer, next, ether
      <3>5. longer \in Seq(Nat) /\ state.finished \in BOOLEAN
        BY <1>2, <3>4 DEF Ordered, CalculationStates
      <3>6. next \in CalculationStates /\ next.batches = longer /\ next.finished = state.finished
        BY <2>4, <3>2, <3>5 DEF CalculationStates
      <3>7. FirstUnhandled(next) = id + 1
        BY <3>4, <3>6 DEF FirstUnhandled
      <3>8. id + 1 \in (lastFinalizedRequestId + 1)..end /\ id + 1 \in Nat
        BY <1>1, <2>1
      <3>9. /\ new \in [state: CalculationStates, currentId: Nat, broken: BOOLEAN]
            /\ new.state = next /\ new.currentId = id + 1 /\ ~new.broken
        BY <3>1, <3>6, <3>8
      <3> QED
        BY <1>6, <3>4, <3>6, <3>7, <3>8, <3>9 DEF Loops
    <2> QED
      BY <2>5, <2>6
  <1> QED
    BY <1>4, <1>5, <1>6

\* The loop runs, through states of the loop.
LEMMA LoopRuns ==
    ASSUME QueueInv, NEW end \in 1..(lastRequestId + 1), NEW first \in 1..end,
           NEW rate \in Nat, NEW time, NEW state, LoopStart(state, first) \in Loops(end)
    PROVE  \E loop :
              /\ loop[0] = LoopStart(state, first)
              /\ \A k \in 1..(end - first) : loop[k] = HandleRequest(loop[k - 1], end, rate, time)
              /\ \A k \in 0..(end - first) : loop[k] \in Loops(end)
              /\ HandleRequests(state, first, end, rate, time) = loop[end - first]
  <1> DEFINE n     == end - first
             start == LoopStart(state, first)
             Step(l) == HandleRequest(l, end, rate, time)
             next  == [l \in Loops(end) |-> Step(l)]
             body(loop) == [k \in 0..n |-> IF k = 0 THEN start ELSE Step(loop[k - 1])]
             run   == CHOOSE loop : loop = body(loop)
  <1>1. n \in Nat
    OBVIOUS
  <1>2. \A l \in Loops(end) : Step(l) \in Loops(end)
    BY HandleKeeps
  <1> HIDE DEF n, start, Step
  <1>3. PICK states : IsLoop(states, start, next, n)
    BY <1>1, LoopExists
  <1>4. \A k \in 0..n : states[k] = IF k = 0 THEN start ELSE next[states[k - 1]]
    BY <1>3 DEF IsLoop
  <1>5. 0 \in 0..n /\ \A k \in 1..n : k \in 0..n /\ k - 1 \in 0..n /\ k # 0
    BY <1>1
  <1>6. \A k \in 0..n : states[k] \in Loops(end)
    <2> DEFINE Good == {k \in 0..n : states[k] \in Loops(end)}
    <2>1. 0 \in Good
      BY <1>4, <1>5 DEF start
    <2>2. ASSUME NEW k \in 1..n, k - 1 \in Good PROVE k \in Good
      <3>1. states[k - 1] \in Loops(end)
        BY <2>2
      <3>2. states[k] = next[states[k - 1]]
        BY <1>4, <1>5
      <3>3. states[k] = Step(states[k - 1])
        BY <3>1, <3>2
      <3>4. states[k] \in Loops(end)
        BY <1>2, <3>1, <3>3
      <3> QED
        BY <1>5, <3>4
    <2>3. \A k \in 0..n : k \in Good
      <3> HIDE DEF Good
      <3> QED
        BY <1>1, <2>1, <2>2, LoopKeeps
    <2> QED
      BY <2>3
  <1>7. states = body(states)
    <2>1. \A k \in 0..n : states[k] = IF k = 0 THEN start ELSE Step(states[k - 1])
      <3> SUFFICES ASSUME NEW k \in 0..n, k # 0 PROVE states[k] = Step(states[k - 1])
        BY <1>4
      <3>1. k - 1 \in 0..n
        BY <1>1
      <3>2. states[k - 1] \in Loops(end)
        BY <1>6, <3>1
      <3> QED
        BY <1>4, <3>2
    <2>2. states = [k \in 0..n |-> states[k]]
      BY <1>3 DEF IsLoop
    <2> QED
      BY <2>1, <2>2
  <1>8. run = body(run)
    BY <1>7
  <1>9. HandleRequests(state, first, end, rate, time) = run[n]
    BY DEF HandleRequests, n, start, Step
  <1>10. \A k \in 0..n : run[k] = IF k = 0 THEN start ELSE Step(run[k - 1])
    BY <1>8
  <1> HIDE DEF run
  <1> DEFINE Good == {k \in 0..n : run[k] \in Loops(end)}
  <1>11. 0 \in Good
    BY <1>5, <1>10 DEF start
  <1>12. ASSUME NEW k \in 1..n, k - 1 \in Good PROVE k \in Good
    <2>1. run[k] = Step(run[k - 1]) /\ run[k - 1] \in Loops(end) /\ k \in 0..n
      BY <1>5, <1>10, <1>12
    <2> QED
      BY <1>2, <2>1
  <1>13. \A k \in 0..n : k \in Good
    <2> HIDE DEF Good
    <2> QED
      BY <1>1, <1>11, <1>12, LoopKeeps
  <1>14. /\ run[0] = start
         /\ \A k \in 1..n : run[k] = Step(run[k - 1])
    BY <1>5, <1>10
  <1> QED
    BY <1>9, <1>13, <1>14 DEF n, start, Step

\* The last request that a call handles is before this one.
CallEnd(state, perCall) ==
    IF lastRequestId + 1 < FirstUnhandled(state) + perCall THEN lastRequestId + 1
    ELSE FirstUnhandled(state) + perCall

\* A call starts in a state of its loop.
LEMMA CallStarts ==
    ASSUME QueueInv, NEW state \in CalculationStates, Ordered(state.batches),
           NEW perCall \in Nat
    PROVE  /\ FirstUnhandled(state) \in (lastFinalizedRequestId + 1)..(lastRequestId + 1)
           /\ FirstUnhandled(state) \in 1..CallEnd(state, perCall)
           /\ CallEnd(state, perCall) \in 1..(lastRequestId + 1)
           /\ LoopStart(state, FirstUnhandled(state)) \in Loops(CallEnd(state, perCall))
  <1> DEFINE f     == lastFinalizedRequestId
             n     == lastRequestId
             first == FirstUnhandled(state)
             end   == CallEnd(state, perCall)
  <1>1. n \in Nat /\ f \in 0..n
    BY DEF QueueInv, TypeOK
  <1>2. first \in (f + 1)..(n + 1)
    <2>1. CASE state.batches = <<>>
      BY <1>1, <2>1 DEF FirstUnhandled
    <2>2. CASE state.batches # <<>>
      <3> DEFINE m == Len(state.batches)
      <3>1. m \in Nat \ {0}
        BY <2>2, EmptySeq DEF Ordered
      <3>2. state.batches[m] \in (f + 1)..n
        BY <3>1 DEF Ordered
      <3> QED
        BY <1>1, <2>2, <3>2 DEF FirstUnhandled
    <2> QED
      BY <2>1, <2>2
  <1> HIDE DEF first
  <1>3. end \in first..(n + 1) /\ first \in 1..end /\ end \in 1..(n + 1)
    BY <1>1, <1>2 DEF CallEnd, first
  <1>4. LoopStart(state, first) \in [state: CalculationStates, currentId: Nat, broken: BOOLEAN]
    BY <1>1, <1>2 DEF LoopStart
  <1>5. first \in (f + 1)..end
    BY <1>1, <1>2, <1>3
  <1>6. LoopStart(state, first) \in Loops(end)
    BY <1>4, <1>5 DEF Loops, LoopStart, first
  <1> QED
    BY <1>2, <1>3, <1>6 DEF first

\* Whatever is asked of it, a call keeps the batches of its state in order.
LEMMA CallKeeps ==
    ASSUME QueueInv, NEW state \in CalculationStates, Ordered(state.batches),
           NEW perCall \in Nat, NEW rate \in Nat, NEW time
    PROVE  LET new == calculateFinalizationBatches(rate, time, perCall, state)
           IN  new \in CalculationStates /\ Ordered(new.batches)
  <1> DEFINE first  == FirstUnhandled(state)
             end    == CallEnd(state, perCall)
             result == HandleRequests(state, first, end, rate, time)
             done   == \/ result.currentId = lastRequestId + 1
                       \/ result.currentId < first + perCall
             new    == calculateFinalizationBatches(rate, time, perCall, state)
  <1>1. new = [result.state EXCEPT !.finished = done]
    BY DEF calculateFinalizationBatches, CallEnd
  <1>2. first \in 1..end /\ end \in 1..(lastRequestId + 1) /\ LoopStart(state, first) \in Loops(end)
    BY CallStarts
  <1>3. done \in BOOLEAN
    OBVIOUS
  <1> HIDE DEF first, end, new, done
  <1>4. PICK loop : /\ \A k \in 0..(end - first) : loop[k] \in Loops(end)
                    /\ result = loop[end - first]
    BY <1>2, LoopRuns
  <1>5. end - first \in 0..(end - first)
    BY <1>2
  <1> HIDE DEF result
  <1>6. result.state \in CalculationStates /\ Ordered(result.state.batches)
    BY <1>4, <1>5 DEF Loops
  <1>7. new \in CalculationStates /\ new.batches = result.state.batches
    BY <1>1, <1>3, <1>6 DEF CalculationStates
  <1> QED
    BY <1>6, <1>7 DEF new

\* The rate of any pool is not zero in the precision of the queue.
LEMMA ShareRatePositive ==
    ASSUME NEW rate \in Rates
    PROVE  ShareRate(rate) \in Nat \ {0}
  <1> DEFINE e    == rate.ether
             s    == rate.shares
             most == MAX_STETH_WITHDRAWAL_AMOUNT
             base == E27_PRECISION_BASE
  <1>1. /\ e \in Nat \ {0} /\ s \in Nat \ {0} /\ base \in Nat /\ most \in Nat \ {0}
        /\ most * s <= base * e
    BY QueueAssumption, PrecisionAssumption
  <1>2. ShareRate(rate) = (e * base) \div s
    BY DEF ShareRate
  <1> HIDE DEF e, s, most, base
  <1>3. e * base \in Nat /\ s * most <= e * base
    BY <1>1, SMT
  <1>4. most <= (e * base) \div s
    BY <1>1, <1>3, AtMostQuotient
  <1>5. (e * base) \div s \in Nat
    BY <1>1, <1>3, DivNat
  <1> QED
    BY <1>1, <1>2, <1>4, <1>5

\* The price of a batch is a number, no more than its stETH.
LEMMA BatchPriceBounded ==
    ASSUME QueueInv, NEW a \in 0..lastRequestId, NEW b \in 0..lastRequestId, a < b,
           NEW maxRate \in Nat
    PROVE  /\ BatchEther(a, b, maxRate) \in Int
           /\ BatchStETH(a, b) \in Int
           /\ BatchEther(a, b, maxRate) <= BatchStETH(a, b)
  <1> DEFINE S      == (a + 1)..b
             steth  == [i \in S |-> BatchStETH(i - 1, i)]
             shares == [i \in S |-> BatchShares(i - 1, i)]
  <1>1. /\ SumFunctionOnSet(steth, S) = BatchStETH(a, b)
        /\ SumFunctionOnSet(shares, S) = BatchShares(a, b)
    BY BatchesAreSums
  <1>2. /\ IsFiniteSet(S) /\ S \subseteq 1..lastRequestId /\ b \in S
    <2>1. IsFiniteSet(S)
      BY FS_Interval
    <2>2. lastRequestId \in Nat
      BY DEF QueueInv, TypeOK
    <2> QED
      BY <2>1, <2>2
  <1>3. \A i \in S : steth[i] \in Nat /\ shares[i] \in Nat \ {0}
    BY <1>2, RequestSums
  <1>4. steth \in [S -> Nat] /\ shares \in [S -> Nat] /\ SumFunction(steth) = SumFunctionOnSet(steth, S)
        /\ SumFunction(shares) = SumFunctionOnSet(shares, S)
    BY <1>3 DEF SumFunction
  <1> HIDE DEF S, steth, shares
  <1>5. BatchStETH(a, b) \in Nat /\ BatchShares(a, b) \in Nat \ {0}
    <2>1. BatchStETH(a, b) \in Nat
      BY <1>1, <1>2, <1>4, SumNat
    <2>2. BatchShares(a, b) \in Nat /\ shares[b] <= BatchShares(a, b)
      BY <1>1, <1>2, <1>4, SumNat
    <2> QED
      BY <1>2, <1>3, <2>1, <2>2
  <1>6. CASE BatchShareRate(a, b) > maxRate
    <2>1. BatchShares(a, b) * maxRate \in Nat
      BY <1>5, SMT
    <2>2. (BatchShares(a, b) * maxRate) \div E27_PRECISION_BASE \in Nat
      BY <2>1, QueueAssumption, DivNat
    <2>3. (BatchShares(a, b) * maxRate) \div E27_PRECISION_BASE <= BatchStETH(a, b)
      BY <1>5, <1>6, QueueAssumption, DiscountLowers DEF BatchShareRate
    <2> QED
      BY <1>5, <1>6, <2>2, <2>3 DEF BatchEther
  <1> QED
    BY <1>5, <1>6 DEF BatchEther

\* The price of the batches is never above the stETH of their requests.
LEMMA LockBounded ==
    ASSUME QueueInv, NEW batches \in Seq(Nat), NEW maxRate \in Nat,
           CanPrefinalize(batches, maxRate)
    PROVE  EthToLock(batches, maxRate)
             <= BatchStETH(lastFinalizedRequestId, batches[Len(batches)])
  <1> DEFINE n == lastRequestId
             f == lastFinalizedRequestId
             m == Len(batches)
             End(k) == BatchEnd(batches, k)
             c(i)   == queue[i].cumulativeStETH
  <1>1. /\ m \in Nat \ {0} /\ n \in Nat
        /\ \A k \in 0..m : End(k) \in 0..n
        /\ \A k \in 1..m : /\ BatchStart(batches, k) = End(k - 1)
                           /\ End(k) = batches[k] /\ End(k - 1) < End(k)
        /\ End(0) = f
    BY BatchEnds DEF QueueInv, TypeOK, BatchEnd
  <1>2. PICK eth : /\ eth[0] = 0
                   /\ \A k \in 1..m : eth[k] = eth[k - 1] + BatchEther(End(k - 1), End(k), maxRate)
                   /\ EthToLock(batches, maxRate) = eth[m]
    <2>1. PICK eth : /\ eth[0] = 0
                     /\ \A k \in 1..m : eth[k] = eth[k - 1]
                            + BatchEther(BatchStart(batches, k), batches[k], maxRate)
                     /\ EthToLock(batches, maxRate) = eth[m]
      BY <1>1, EthIsRunning
    <2> QED
      BY <1>1, <2>1
  <1>3. \A i \in 0..n : c(i) \in Nat
    BY SharesAreNat
  <1>4. ASSUME NEW k \in 1..m
        PROVE  /\ BatchEther(End(k - 1), End(k), maxRate) \in Int
               /\ BatchEther(End(k - 1), End(k), maxRate) <= c(End(k)) - c(End(k - 1))
    <2>1. k - 1 \in 0..m /\ k \in 0..m
      BY <1>1
    <2> HIDE DEF End
    <2> QED
      BY <1>1, <2>1, BatchPriceBounded DEF BatchStETH
  <1> DEFINE Good == {k \in 0..m : eth[k] \in Int /\ eth[k] <= c(End(k)) - c(f)}
  <1>5. 0 \in Good
    <2>1. c(f) \in Nat /\ c(End(0)) = c(f) /\ 0 \in 0..m
      BY <1>1, <1>3
    <2> HIDE DEF c, End
    <2> QED
      BY <1>2, <2>1
  <1>6. ASSUME NEW k \in 1..m, k - 1 \in Good PROVE k \in Good
    <2> DEFINE e == BatchEther(End(k - 1), End(k), maxRate)
    <2>1. e \in Int /\ e <= c(End(k)) - c(End(k - 1)) /\ eth[k] = eth[k - 1] + e
      BY <1>2, <1>4
    <2>2. eth[k - 1] \in Int /\ eth[k - 1] <= c(End(k - 1)) - c(f)
      BY <1>6
    <2>3. c(End(k)) \in Nat /\ c(End(k - 1)) \in Nat /\ c(f) \in Nat /\ k \in 0..m
      <3>1. End(0) \in 0..n /\ End(k) \in 0..n /\ End(k - 1) \in 0..n
        BY <1>1
      <3> HIDE DEF End
      <3> QED
        BY <1>1, <1>3, <3>1
    <2> HIDE DEF e, c, End
    <2> QED
      BY <2>1, <2>2, <2>3
  <1>7. m \in Good
    <2>1. m \in Nat /\ m \in 0..m
      BY <1>1
    <2> HIDE DEF Good, m
    <2>2. \A k \in 0..m : k \in Good
      BY <1>5, <1>6, <2>1, LoopKeeps
    <2> QED
      BY <2>1, <2>2
  <1>8. m \in 1..m /\ End(m) = batches[m]
    BY <1>1
  <1> QED
    BY <1>2, <1>7, <1>8 DEF BatchStETH

\* The batches that one call returns are in order.
LEMMA CalculatedOrdered ==
    ASSUME QueueInv, NEW budget \in Nat, NEW rate \in Nat, NEW time
    PROVE  Ordered(Calculated(budget, rate, time).batches)
  <1>1. StartState(budget) \in CalculationStates /\ StartState(budget).batches = <<>>
    BY EmptySeq DEF StartState, CalculationStates
  <1>2. Ordered(<<>>)
    BY EmptySeq DEF Ordered
  <1>3. MaxRequests + 1 \in Nat
    BY QueueAssumption
  <1> QED
    BY <1>1, <1>2, <1>3, CallKeeps DEF Calculated

\* Batches in order are batches that prefinalize accepts.
LEMMA OrderedAccepted ==
    ASSUME QueueInv, NEW batches, Ordered(batches), batches # <<>>, NEW rate \in Nat \ {0}
    PROVE  /\ CanPrefinalize(batches, rate)
           /\ EthToLock(batches, rate)
                <= BatchStETH(lastFinalizedRequestId, batches[Len(batches)])
  <1>1. batches \in Seq(Nat) /\ Len(batches) \in Nat \ {0}
    BY EmptySeq DEF Ordered
  <1>2. CanPrefinalize(batches, rate)
    <2>1. 1 \in 1..Len(batches) /\ Len(batches) \in 1..Len(batches)
      BY <1>1
    <2>2. lastFinalizedRequestId \in Nat /\ lastRequestId \in Nat
      BY DEF QueueInv, TypeOK
    <2>3. /\ batches[1] \in (lastFinalizedRequestId + 1)..lastRequestId
          /\ batches[Len(batches)] \in (lastFinalizedRequestId + 1)..lastRequestId
      BY <2>1 DEF Ordered
    <2>4. batches[1] > lastFinalizedRequestId /\ batches[Len(batches)] <= lastRequestId
      BY <2>2, <2>3
    <2> QED
      BY <2>4 DEF CanPrefinalize, Ordered
  <1> QED
    BY <1>1, <1>2, LockBounded

\* What the view returns passes prefinalize.
LEMMA ProposalsAccepted == QueueInv => ProposalAccepted
  <1> SUFFICES ASSUME QueueInv,
                      NEW budget \in Budgets \ {0}, NEW rate \in Rates, NEW time \in 0..now
               PROVE  LET batches == Calculated(budget, ShareRate(rate), time).batches
                      IN  batches # <<>> =>
                            /\ CanPrefinalize(batches, ShareRate(rate))
                            /\ EthToLock(batches, ShareRate(rate)) <=
                                 BatchStETH(lastFinalizedRequestId, batches[Len(batches)])
    BY DEF ProposalAccepted, ForAllReports
  <1>1. budget \in Nat /\ ShareRate(rate) \in Nat \ {0}
    BY OracleAssumption, ShareRatePositive
  <1> DEFINE batches == Calculated(budget, ShareRate(rate), time).batches
  <1>2. Ordered(batches)
    BY <1>1, CalculatedOrdered
  <1> HIDE DEF batches
  <1>3. batches # <<>> =>
          /\ CanPrefinalize(batches, ShareRate(rate))
          /\ EthToLock(batches, ShareRate(rate)) <=
               BatchStETH(lastFinalizedRequestId, batches[Len(batches)])
    BY <1>1, <1>2, OrderedAccepted
  <1> QED
    BY <1>3 DEF batches

\* Whenever the oracle asks the view, prefinalize accepts what it proposes, and
\* its price is never above the stETH of the requests.
THEOREM ProposalsAlwaysAccepted == FreeSpec => []ProposalAccepted
  <1>1. DustInv => ProposalAccepted
    BY ProposalsAccepted DEF DustInv
  <1> QED
    BY <1>1, DustInit, DustNext, PTL DEF FreeSpec

\* So does every step of the oracle that reports what the view returns keep the invariant.
LEMMA OracleDustNext == DustInv /\ [OracleNext]_oracleVars => DustInv'
  <1> SUFFICES ASSUME DustInv, [OracleNext]_oracleVars PROVE DustInv'
    OBVIOUS
  <1>1. CASE OracleFinalize
    <2>1. PICK budget \in Budgets, rate \in Rates, time \in 0..now :
            LET batches == Calculated(budget, ShareRate(rate), time).batches
            IN  /\ Finalize(batches, ShareRate(rate))
                /\ roundingDebt' = roundingDebt
                                     + Cardinality(PaidInFull(batches, ShareRate(rate)))
      BY <1>1 DEF OracleFinalize
    <2>2. budget \in Nat /\ ShareRate(rate) \in Nat
      BY OracleAssumption, ShareRateNat
    <2>3. Calculated(budget, ShareRate(rate), time).batches \in Seq(Nat)
      BY <2>2, CalculatedOrdered DEF DustInv, Ordered
    <2> QED
      BY <2>1, <2>2, <2>3, DustFinalize
  <1>2. CASE (OtherStep /\ UNCHANGED roundingDebt) \/ UNCHANGED oracleVars
    BY <1>2, DustOther DEF oracleVars
  <1> QED
    BY <1>1, <1>2 DEF OracleNext

\* Under an oracle that reports what its view returns the locked ether pays for
\* every claim up to the same dust, and the next proposal is accepted too.
THEOREM OracleSolvent == OracleSpec => [](SolventUpToDust /\ ProposalAccepted)
  <1>1. DustInv => SolventUpToDust /\ ProposalAccepted
    BY ProposalsAccepted DEF DustInv
  <1> QED
    BY <1>1, DustInit, OracleDustNext, PTL DEF OracleSpec

-----------------------------------------------------------------------------
(* One call or many                                                        *)

\* No request is free.
LEMMA RequestCosts ==
    ASSUME QueueInv, SharesWorth, NEW id \in 1..lastRequestId, NEW rate \in Rates
    PROVE  RequestEther(id, ShareRate(rate)) \in Nat \ {0}
  <1> DEFINE shares == BatchShares(id - 1, id)
             r      == ShareRate(rate)
             base   == E27_PRECISION_BASE
  <1>1. r \in Nat /\ shares \in Nat \ {0} /\ base \in Nat \ {0} /\ base <= shares * r
    BY ShareRateNat, RequestSums, QueueAssumption DEF SharesWorth
  <1>2. BatchStETH(id - 1, id) \in Nat \ {0}
    <2>1. id \in 0..lastRequestId /\ id - 1 \in 0..lastRequestId
      BY DEF QueueInv, TypeOK
    <2>2. /\ queue[id].cumulativeStETH \in Nat /\ queue[id - 1].cumulativeStETH \in Nat
          /\ queue[id].cumulativeStETH
               >= queue[id - 1].cumulativeStETH + MIN_STETH_WITHDRAWAL_AMOUNT
      BY <2>1, SharesAreNat DEF QueueInv, SumsIncrease
    <2> QED
      BY <2>2, QueueAssumption DEF BatchStETH
  <1>3. (shares * r) \div base \in Nat \ {0}
    <2> HIDE DEF shares, r, base
    <2>1. shares * r \in Nat
      BY <1>1, SMT
    <2>2. base * 1 <= shares * r
      BY <1>1, <2>1
    <2>3. 1 <= (shares * r) \div base
      BY <1>1, <2>1, <2>2, AtMostQuotient
    <2> QED
      BY <1>1, <2>1, <2>3, DivNat
  <1> QED
    BY <1>2, <1>3 DEF RequestEther, BatchEther

\* The loop of one call that may handle every request.
IsWhole(loop, budget, rate, time) ==
    /\ loop[0] = LoopStart(StartState(budget), lastFinalizedRequestId + 1)
    /\ \A k \in 1..(lastRequestId - lastFinalizedRequestId) :
          loop[k] = HandleRequest(loop[k - 1], lastRequestId + 1, rate, time)
    /\ \A k \in 0..(lastRequestId - lastFinalizedRequestId) :
          loop[k] \in Loops(lastRequestId + 1)

\* The loop of one call over the whole queue is well defined.
LEMMA WholeExists ==
    ASSUME QueueInv, NEW budget \in Nat, NEW rate \in Nat, NEW time
    PROVE  \E loop : IsWhole(loop, budget, rate, time)
  <1> DEFINE f     == lastFinalizedRequestId
             n     == lastRequestId
             start == StartState(budget)
  <1>1. n \in Nat /\ f \in 0..n
    BY DEF QueueInv, TypeOK
  <1>2. start \in CalculationStates /\ start.batches = <<>>
    BY EmptySeq DEF StartState, CalculationStates
  <1>3. Ordered(start.batches)
    BY <1>2, EmptySeq DEF Ordered
  <1>4. FirstUnhandled(start) = f + 1
    BY <1>2 DEF FirstUnhandled
  <1>5. f + 1 \in 1..(n + 1) /\ n + 1 \in 1..(n + 1) /\ (n + 1) - (f + 1) = n - f
    BY <1>1
  <1>6. LoopStart(start, f + 1) \in Loops(n + 1)
    BY <1>1, <1>2, <1>3, <1>4 DEF Loops, LoopStart
  <1> HIDE DEF start
  <1> DEFINE end   == n + 1
             first == f + 1
  <1>7. first \in 1..end /\ end \in 1..(lastRequestId + 1) /\ LoopStart(start, first) \in Loops(end)
        /\ end - first = n - f
    BY <1>5, <1>6
  <1> HIDE DEF end, first
  <1>8. PICK loop : /\ loop[0] = LoopStart(start, first)
                    /\ \A k \in 1..(end - first) :
                          loop[k] = HandleRequest(loop[k - 1], end, rate, time)
                    /\ \A k \in 0..(end - first) : loop[k] \in Loops(end)
                    /\ HandleRequests(start, first, end, rate, time) = loop[end - first]
    BY <1>7, LoopRuns
  <1>9. IsWhole(loop, budget, rate, time)
    BY <1>7, <1>8 DEF IsWhole, start, end, first
  <1> QED
    BY <1>9

\* Until the loop breaks it handles one request after the other.
CountsUp(loop) ==
    \A k \in 0..(lastRequestId - lastFinalizedRequestId) :
       /\ loop[k].state.finished = FALSE
       /\ ~loop[k].broken => loop[k].currentId = lastFinalizedRequestId + 1 + k

\* The loop of one call handles the requests one by one.
LEMMA WholeCounts ==
    ASSUME QueueInv, NEW budget \in Nat, NEW rate \in Nat, NEW time, NEW loop,
           IsWhole(loop, budget, rate, time)
    PROVE  CountsUp(loop)
  <1> DEFINE f   == lastFinalizedRequestId
             n   == lastRequestId
             end == n + 1
             Good == {k \in 0..(n - f) : /\ loop[k].state.finished = FALSE
                                         /\ ~loop[k].broken => loop[k].currentId = f + 1 + k}
  <1>1. n \in Nat /\ f \in 0..n /\ n - f \in Nat /\ end \in 1..(lastRequestId + 1)
    BY DEF QueueInv, TypeOK
  <1>2. 0 \in Good
    <2>1. loop[0] = LoopStart(StartState(budget), f + 1)
      BY DEF IsWhole
    <2>2. f + 1 + 0 = f + 1 /\ 0 \in 0..(n - f)
      BY <1>1
    <2> QED
      BY <2>1, <2>2 DEF LoopStart, StartState
  <1>3. ASSUME NEW k \in 1..(n - f), k - 1 \in Good PROVE k \in Good
    <2> DEFINE old == loop[k - 1]
               new == loop[k]
    <2>1. /\ new = HandleRequest(old, end, rate, time) /\ old \in Loops(end)
          /\ k \in 0..(n - f) /\ k - 1 \in 0..(n - f)
      BY <1>1 DEF IsWhole
    <2>2. old.state.finished = FALSE /\ (~old.broken => old.currentId = f + 1 + (k - 1))
      BY <1>3
    <2> HIDE DEF old, new, end
    <2>3. /\ new.state.finished = old.state.finished
          /\ old.broken \/ old.currentId = end => new = old
          /\ ~new.broken /\ old.currentId # end => new.currentId = old.currentId + 1
      BY <1>1, <2>1, HandleKeeps
    <2>4. ~old.broken => old.currentId # end
      BY <1>1, <2>2 DEF end
    <2>5. ~new.broken => new.currentId = f + 1 + k
      BY <1>1, <2>2, <2>3, <2>4
    <2> QED
      BY <2>1, <2>2, <2>3, <2>5 DEF new
  <1>4. \A k \in 0..(n - f) : k \in Good
    <2> HIDE DEF Good
    <2> QED
      BY <1>1, <1>2, <1>3, LoopKeeps
  <1> QED
    BY <1>4 DEF CountsUp

\* A loop that cannot go on: it is broken, or has no budget for any request.
Stuck(loop) == loop.broken \/ loop.state.remainingEthBudget = 0

\* A loop with no budget left handles a further request to no effect.
LEMMA StuckOnce ==
    ASSUME QueueInv, SharesWorth, NEW end \in 1..(lastRequestId + 1), NEW rate \in Rates,
           NEW time, NEW loop \in Loops(end), Stuck(loop)
    PROVE  LET new == HandleRequest(loop, end, ShareRate(rate), time)
           IN  Stuck(new) /\ new.state = loop.state
  <1> DEFINE id  == loop.currentId
             new == HandleRequest(loop, end, ShareRate(rate), time)
  <1>1. CASE loop.broken \/ id = end
    <2>1. new = loop
      BY <1>1, ShareRateNat, HandleKeeps
    <2> QED
      BY <2>1
  <1>2. CASE ~(loop.broken \/ id = end)
    <2>1. /\ id \in (lastFinalizedRequestId + 1)..end
          /\ loop \in [state: CalculationStates, currentId: Nat, broken: BOOLEAN]
          /\ lastFinalizedRequestId \in Nat /\ lastRequestId \in Nat
      BY DEF Loops, QueueInv, TypeOK
    <2>2. id \in 1..lastRequestId
      BY <1>2, <2>1
    <2>3. RequestEther(id, ShareRate(rate)) \in Nat \ {0}
      BY <2>2, RequestCosts
    <2>4. RequestEther(id, ShareRate(rate)) > loop.state.remainingEthBudget
      BY <1>2, <2>3 DEF Stuck
    <2>5. new = [loop EXCEPT !.broken = TRUE]
      BY <1>2, <2>4 DEF HandleRequest
    <2>6. new.broken /\ new.state = loop.state
      BY <2>1, <2>5
    <2> QED
      BY <2>6 DEF Stuck
  <1> QED
    BY <1>1, <1>2

\* It ends with the state it is in.
LEMMA StuckStays ==
    ASSUME QueueInv, SharesWorth, NEW budget \in Nat, NEW rate \in Rates, NEW time, NEW loop,
           IsWhole(loop, budget, ShareRate(rate), time),
           NEW k \in 0..(lastRequestId - lastFinalizedRequestId), Stuck(loop[k])
    PROVE  loop[lastRequestId - lastFinalizedRequestId].state = loop[k].state
  <1> DEFINE f    == lastFinalizedRequestId
             n    == lastRequestId
             end  == n + 1
             Good == {d \in 0..((n - f) - k) : /\ Stuck(loop[k + d])
                                               /\ loop[k + d].state = loop[k].state}
  <1>1. /\ n \in Nat /\ f \in 0..n /\ n - f \in Nat /\ end \in 1..(lastRequestId + 1)
        /\ (n - f) - k \in Nat /\ k \in Nat
    BY DEF QueueInv, TypeOK
  <1>2. 0 \in Good
    BY <1>1
  <1>3. ASSUME NEW d \in 1..((n - f) - k), d - 1 \in Good PROVE d \in Good
    <2> DEFINE old == loop[k + (d - 1)]
               new == loop[k + d]
    <2>1. /\ k + d \in 1..(n - f) /\ (k + d) - 1 = k + (d - 1)
          /\ k + (d - 1) \in 0..(n - f) /\ d \in 0..((n - f) - k)
      BY <1>1
    <2>2. new = HandleRequest(old, end, ShareRate(rate), time) /\ old \in Loops(end)
      BY <2>1 DEF IsWhole
    <2>3. Stuck(old) /\ old.state = loop[k].state
      BY <1>3
    <2> HIDE DEF old, new, end
    <2>4. Stuck(new) /\ new.state = old.state
      BY <1>1, <2>2, <2>3, StuckOnce
    <2> QED
      BY <2>1, <2>3, <2>4 DEF new
  <1>4. (n - f) - k \in Good
    <2>1. (n - f) - k \in 0..((n - f) - k)
      BY <1>1
    <2> HIDE DEF Good
    <2>2. \A d \in 0..((n - f) - k) : d \in Good
      BY <1>1, <1>2, <1>3, LoopKeeps
    <2> QED
      BY <2>1, <2>2
  <1>5. k + ((n - f) - k) = n - f
    BY <1>1
  <1> QED
    BY <1>4, <1>5

\* An iteration does not depend on where the loop ends, unless it is there.
LEMMA SameIteration ==
    ASSUME NEW loop, NEW end, NEW other, NEW rate, NEW time,
           loop.broken \/ (loop.currentId # end /\ loop.currentId # other)
    PROVE  HandleRequest(loop, end, rate, time) = HandleRequest(loop, other, rate, time)
  BY DEF HandleRequest

\* What a call does that resumes the whole loop after k requests: the iterations
\* of the loop, up to the end of the call.
Resumes(loop, k, perCall, rate, time) ==
    LET first == lastFinalizedRequestId + 1 + k
        end   == CallEnd(loop[k].state, perCall)
        last  == loop[k + (end - first)]
    IN  /\ FirstUnhandled(loop[k].state) = first
        /\ end \in first..(lastRequestId + 1)
        /\ last \in Loops(end)
        /\ calculateFinalizationBatches(rate, time, perCall, loop[k].state)
             = [last.state EXCEPT !.finished = \/ last.currentId = lastRequestId + 1
                                               \/ last.currentId < first + perCall]

\* A call that resumes the loop where it is not broken does what the loop does.
LEMMA CallResumes ==
    ASSUME QueueInv, NEW budget \in Nat, NEW rate \in Nat, NEW time, NEW loop,
           IsWhole(loop, budget, rate, time), NEW perCall \in Nat,
           NEW k \in 0..(lastRequestId - lastFinalizedRequestId), ~loop[k].broken
    PROVE  Resumes(loop, k, perCall, rate, time)
  <1> DEFINE f     == lastFinalizedRequestId
             n     == lastRequestId
             state == loop[k].state
             first == f + 1 + k
             end   == CallEnd(state, perCall)
             new   == calculateFinalizationBatches(rate, time, perCall, state)
  <1>1. n \in Nat /\ f \in 0..n /\ k \in Nat /\ first \in Nat
    BY DEF QueueInv, TypeOK
  <1>2. \A j \in 0..(lastRequestId - lastFinalizedRequestId) :
           /\ loop[j].state.finished = FALSE
           /\ ~loop[j].broken => loop[j].currentId = lastFinalizedRequestId + 1 + j
    <2>1. CountsUp(loop)
      BY WholeCounts
    <2> QED
      BY <2>1 DEF CountsUp
  <1>3. /\ loop[k] \in Loops(n + 1) /\ loop[k].currentId = first
    <2>1. loop[k] \in Loops(lastRequestId + 1)
      BY DEF IsWhole
    <2>2. loop[k].currentId = lastFinalizedRequestId + 1 + k
      BY <1>2
    <2> QED
      BY <2>1, <2>2
  <1>4. /\ state \in CalculationStates /\ Ordered(state.batches)
        /\ FirstUnhandled(state) = first
    BY <1>3 DEF Loops
  <1>5. /\ first \in 1..end /\ end \in 1..(lastRequestId + 1)
        /\ LoopStart(state, first) \in Loops(end)
    BY <1>4, CallStarts
  <1>6. loop[k] = LoopStart(state, first)
    <2>1. loop[k] \in [state: CalculationStates, currentId: Nat, broken: BOOLEAN]
      BY <1>3 DEF Loops
    <2> HIDE DEF first
    <2> QED
      BY <1>3, <2>1 DEF LoopStart
  <1> DEFINE result == HandleRequests(state, first, end, rate, time)
             done(l) == l.currentId = n + 1 \/ l.currentId < first + perCall
  <1>7. new = [result.state EXCEPT !.finished = done(result)]
    BY <1>4 DEF calculateFinalizationBatches, CallEnd
  <1>8. PICK part : /\ part[0] = LoopStart(state, first)
                    /\ \A i \in 1..(end - first) :
                          part[i] = HandleRequest(part[i - 1], end, rate, time)
                    /\ \A i \in 0..(end - first) : part[i] \in Loops(end)
                    /\ result = part[end - first]
    <2> HIDE DEF first, end, state
    <2> QED
      BY <1>5, LoopRuns
  <1> HIDE DEF end, result
  <1>9. /\ end \in first..(n + 1) /\ end - first \in Nat
        /\ \A i \in 0..(end - first) : k + i \in 0..(n - f)
    BY <1>1, <1>5
  <1> DEFINE Good == {i \in 0..(end - first) : part[i] = loop[k + i]}
  <1>10. 0 \in Good
    BY <1>1, <1>6, <1>8, <1>9
  <1>11. ASSUME NEW i \in 1..(end - first), i - 1 \in Good PROVE i \in Good
    <2> DEFINE old == loop[k + (i - 1)]
    <2>1. /\ k + (i - 1) \in 0..(n - f) /\ k + i \in 1..(n - f) /\ i \in 0..(end - first)
          /\ (k + i) - 1 = k + (i - 1)
      BY <1>1, <1>9
    <2>2. part[i - 1] = old /\ part[i] = HandleRequest(part[i - 1], end, rate, time)
      BY <1>8, <1>11
    <2>3. loop[k + i] = HandleRequest(old, n + 1, rate, time)
      BY <2>1 DEF IsWhole
    <2>4. ~old.broken => old.currentId = f + 1 + (k + (i - 1))
      BY <1>2, <2>1
    <2>5. old.broken \/ (old.currentId # end /\ old.currentId # n + 1)
      <3> HIDE DEF old
      <3> QED
        BY <1>1, <1>9, <2>4
    <2> HIDE DEF old
    <2>6. HandleRequest(old, end, rate, time) = HandleRequest(old, n + 1, rate, time)
      BY <2>5, SameIteration
    <2> QED
      BY <2>1, <2>2, <2>3, <2>6
  <1>12. \A i \in 0..(end - first) : i \in Good
    <2> HIDE DEF Good
    <2> QED
      BY <1>9, <1>10, <1>11, LoopKeeps
  <1>13. /\ end - first \in 0..(end - first)
         /\ part[end - first] = loop[k + (end - first)]
    BY <1>9, <1>12
  <1>14. result = loop[k + (end - first)] /\ result \in Loops(end)
    BY <1>8, <1>13
  <1> QED
    BY <1>4, <1>7, <1>9, <1>14 DEF end, Resumes

\* The calls of the daemon, one after the other.
LEMMA CallsRun ==
    ASSUME NEW state, NEW perCall, NEW rate, NEW time, NEW n \in Nat, n = lastRequestId + 1,
           NEW States, state \in States,
           \A s \in States : NextCall(s, perCall, rate, time) \in States
    PROVE  \E call :
              /\ call[0] = state
              /\ \A m \in 1..n : call[m] = NextCall(call[m - 1], perCall, rate, time)
              /\ CallUntilFinished(state, perCall, rate, time) = call[n]
  <1> DEFINE Step(s)    == NextCall(s, perCall, rate, time)
             next       == [s \in States |-> Step(s)]
             body(call) == [m \in 0..n |-> IF m = 0 THEN state ELSE Step(call[m - 1])]
             run        == CHOOSE call : call = body(call)
  <1>1. \A s \in States : Step(s) \in States
    OBVIOUS
  <1>2. CallUntilFinished(state, perCall, rate, time) = run[n]
    BY DEF CallUntilFinished
  <1> HIDE DEF Step
  <1>3. PICK calls : IsLoop(calls, state, next, n)
    BY LoopExists
  <1>4. \A m \in 0..n : calls[m] = IF m = 0 THEN state ELSE next[calls[m - 1]]
    BY <1>3 DEF IsLoop
  <1>5. 0 \in 0..n /\ \A m \in 1..n : m \in 0..n /\ m - 1 \in 0..n /\ m # 0
    OBVIOUS
  <1>6. \A m \in 0..n : calls[m] \in States
    <2> DEFINE Good == {m \in 0..n : calls[m] \in States}
    <2>1. 0 \in Good
      BY <1>4, <1>5
    <2>2. ASSUME NEW m \in 1..n, m - 1 \in Good PROVE m \in Good
      <3>1. calls[m - 1] \in States /\ calls[m] = next[calls[m - 1]]
        BY <1>4, <1>5, <2>2
      <3> QED
        BY <1>1, <1>5, <3>1
    <2>3. \A m \in 0..n : m \in Good
      <3> HIDE DEF Good
      <3> QED
        BY <2>1, <2>2, LoopKeeps
    <2> QED
      BY <2>3
  <1>7. calls = body(calls)
    <2>1. \A m \in 0..n : calls[m] = IF m = 0 THEN state ELSE Step(calls[m - 1])
      <3> SUFFICES ASSUME NEW m \in 0..n, m # 0 PROVE calls[m] = Step(calls[m - 1])
        BY <1>4
      <3>1. m - 1 \in 0..n
        OBVIOUS
      <3>2. calls[m - 1] \in States
        BY <1>6, <3>1
      <3> QED
        BY <1>4, <3>2
    <2>2. calls = [m \in 0..n |-> calls[m]]
      BY <1>3 DEF IsLoop
    <2> QED
      BY <2>1, <2>2
  <1>8. run = body(run)
    BY <1>7
  <1> HIDE DEF run
  <1>9. \A m \in 0..n : run[m] = IF m = 0 THEN state ELSE Step(run[m - 1])
    BY <1>8
  <1>10. run[0] = state /\ \A m \in 1..n : run[m] = Step(run[m - 1])
    BY <1>5, <1>9
  <1> QED
    BY <1>2, <1>10 DEF Step

\* The calls are where the loop is after k requests.
At(state, loop, k) ==
    /\ k \in 0..(lastRequestId - lastFinalizedRequestId)
    /\ state = loop[k].state
    /\ ~loop[k].broken

\* The calls have ended with the batches of the loop.
Ended(state, loop) ==
    /\ state.finished = TRUE
    /\ state.batches = loop[lastRequestId - lastFinalizedRequestId].state.batches

\* A call that is not refused moves on in the loop or ends it.
LEMMA CallMoves ==
    ASSUME QueueInv, SharesWorth, NEW budget \in Nat, NEW rate \in Rates, NEW time, NEW loop,
           IsWhole(loop, budget, ShareRate(rate), time), NEW perCall \in Nat \ {0},
           NEW state, NEW k, At(state, loop, k)
    PROVE  LET new == NextCall(state, perCall, ShareRate(rate), time)
           IN  \/ state.remainingEthBudget = 0 /\ new = state
               \/ Ended(new, loop)
               \/ \E j \in Nat : j > k /\ At(new, loop, j)
  <1> DEFINE f     == lastFinalizedRequestId
             n     == lastRequestId
             share == ShareRate(rate)
             new   == NextCall(state, perCall, share, time)
             first == f + 1 + k
             end   == CallEnd(loop[k].state, perCall)
             j     == k + (end - first)
             last  == loop[j]
             done  == last.currentId = n + 1 \/ last.currentId < first + perCall
  <1>1. /\ n \in Nat /\ f \in 0..n /\ n - f \in Nat /\ k \in 0..(n - f) /\ share \in Nat
        /\ state = loop[k].state /\ ~loop[k].broken
    BY ShareRateNat DEF QueueInv, TypeOK, At
  <1>2. CountsUp(loop)
    <2> HIDE DEF share
    <2> QED
      BY <1>1, WholeCounts DEF share
  <1>3. state.finished = FALSE
    BY <1>1, <1>2 DEF CountsUp
  <1>4. CASE ~CanCalculate(state)
    BY <1>3, <1>4 DEF CanCalculate, NextCall
  <1>5. CASE CanCalculate(state)
    <2>1. /\ FirstUnhandled(loop[k].state) = first
          /\ end \in first..(n + 1)
          /\ last \in Loops(end)
          /\ calculateFinalizationBatches(share, time, perCall, loop[k].state)
               = [last.state EXCEPT !.finished = done]
      <3>1. Resumes(loop, k, perCall, share, time)
        <4> HIDE DEF share
        <4> QED
          BY <1>1, CallResumes DEF share
      <3> HIDE DEF share
      <3> QED
        BY <3>1 DEF Resumes
    <2>2. new = [last.state EXCEPT !.finished = done]
      BY <1>1, <1>5, <2>1 DEF NextCall
    <2>3. /\ end = IF n + 1 < first + perCall THEN n + 1 ELSE first + perCall
          /\ j \in 0..(n - f) /\ j \in Nat /\ f + 1 + j = end
      BY <1>1, <2>1 DEF CallEnd
    <2>4. /\ last.state \in CalculationStates /\ last.currentId \in (f + 1)..end
          /\ last.broken => last.currentId < end
      BY <2>1 DEF Loops
    <2>5. last.state.finished = FALSE /\ (~last.broken => last.currentId = f + 1 + j)
      BY <1>2, <2>3 DEF CountsUp
    <2>6. new.batches = last.state.batches /\ new.finished = done
      BY <2>2, <2>4 DEF CalculationStates
    <2> HIDE DEF new, end, last, j
    <2>7. CASE last.broken
      <3>1. Stuck(last)
        BY <2>7 DEF Stuck
      <3>2. loop[n - f].state = last.state
        BY <2>3, <3>1, StuckStays DEF last
      <3>3. done
        BY <1>1, <2>3, <2>4, <2>7
      <3>4. new.finished = TRUE
        BY <2>6, <3>3
      <3> QED
        BY <2>6, <3>2, <3>4 DEF Ended, new
    <2>8. CASE ~last.broken /\ end = n + 1
      <3>1. last.currentId = n + 1 /\ j = n - f
        BY <1>1, <2>3, <2>5, <2>8
      <3>2. new.finished = TRUE
        BY <2>6, <3>1
      <3> QED
        BY <2>6, <3>1, <3>2 DEF Ended, new, last
    <2>9. CASE ~last.broken /\ end # n + 1
      <3>1. last.currentId = end /\ end = first + perCall /\ j > k
        BY <1>1, <2>3, <2>5, <2>9
      <3>2. done = FALSE
        BY <1>1, <2>9, <3>1
      <3>3. new = last.state
        BY <2>2, <2>4, <2>5, <3>2 DEF CalculationStates
      <3>4. At(new, loop, j)
        BY <2>3, <2>9, <3>3 DEF At, last
      <3> QED
        BY <2>3, <3>1, <3>4 DEF new
    <2> QED
      BY <2>7, <2>8, <2>9
  <1> QED
    BY <1>4, <1>5

\* The single call runs the whole loop.
LEMMA CalculatedIsWhole ==
    ASSUME QueueInv, SharesSound, NEW budget \in Nat, NEW rate \in Nat, NEW time, NEW loop,
           IsWhole(loop, budget, rate, time)
    PROVE  Calculated(budget, rate, time).batches
             = loop[lastRequestId - lastFinalizedRequestId].state.batches
  <1> DEFINE f     == lastFinalizedRequestId
             n     == lastRequestId
             most  == MaxRequests + 1
             first == f + 1 + 0
             end   == CallEnd(loop[0].state, most)
             last  == loop[0 + (end - first)]
             done  == last.currentId = n + 1 \/ last.currentId < first + most
  <1>1. /\ n \in Nat /\ f \in 0..n /\ n - f \in Nat /\ 0 \in 0..(n - f)
        /\ most \in Nat /\ n < most
    BY QueueAssumption DEF QueueInv, TypeOK, SharesSound
  <1>2. loop[0] = LoopStart(StartState(budget), f + 1)
    BY DEF IsWhole
  <1>3. loop[0].state = StartState(budget) /\ ~loop[0].broken
    BY <1>2 DEF LoopStart
  <1> HIDE DEF most
  <1>4. /\ FirstUnhandled(loop[0].state) = first
        /\ end \in first..(n + 1)
        /\ last \in Loops(end)
        /\ calculateFinalizationBatches(rate, time, most, loop[0].state)
             = [last.state EXCEPT !.finished = done]
    <2>1. Resumes(loop, 0, most, rate, time)
      BY <1>1, <1>3, CallResumes
    <2> QED
      BY <2>1 DEF Resumes
  <1>5. end = n + 1 /\ 0 + (end - first) = n - f
    BY <1>1, <1>4 DEF CallEnd
  <1>6. last = loop[n - f] /\ last.state \in CalculationStates
    BY <1>4, <1>5 DEF Loops
  <1>7. Calculated(budget, rate, time) = [last.state EXCEPT !.finished = done]
    BY <1>3, <1>4 DEF Calculated, most
  <1> HIDE DEF last
  <1> QED
    BY <1>6, <1>7 DEF CalculationStates

\* Calls of any length return the batches of the one that handles all requests.
LEMMA CallsAgree ==
    ASSUME QueueInv, SharesSound, NEW budget \in Nat, NEW rate \in Rates, NEW time,
           NEW perCall \in Nat \ {0}
    PROVE  CallUntilFinished(StartState(budget), perCall, ShareRate(rate), time).batches
             = Calculated(budget, ShareRate(rate), time).batches
  <1> DEFINE f     == lastFinalizedRequestId
             n     == lastRequestId
             share == ShareRate(rate)
             start == StartState(budget)
             ResumedStates == {s \in CalculationStates : Ordered(s.batches)}
  <1>1. /\ n \in Nat /\ f \in 0..n /\ n - f \in Nat /\ n + 1 \in Nat /\ 0 \in 0..(n - f)
        /\ share \in Nat /\ SharesWorth
    BY ShareRateNat DEF QueueInv, TypeOK, SharesSound
  <1> HIDE DEF share
  <1>2. PICK loop : IsWhole(loop, budget, share, time)
    BY <1>1, WholeExists
  <1>3. start \in ResumedStates
    <2>1. start \in CalculationStates /\ start.batches = <<>>
      BY EmptySeq DEF StartState, CalculationStates
    <2>2. Ordered(start.batches)
      BY <2>1, EmptySeq DEF Ordered
    <2> QED
      BY <2>1, <2>2
  <1>4. \A s \in ResumedStates : NextCall(s, perCall, share, time) \in ResumedStates
    BY <1>1, CallKeeps DEF NextCall
  <1> HIDE DEF start, ResumedStates
  <1>5. PICK call : /\ call[0] = start
                    /\ \A m \in 1..(n + 1) :
                          call[m] = NextCall(call[m - 1], perCall, share, time)
                    /\ CallUntilFinished(start, perCall, share, time) = call[n + 1]
    BY <1>1, <1>3, <1>4, CallsRun
  <1> DEFINE Passed(m) == \E k \in 0..(n - f) : /\ At(call[m], loop, k)
                                               /\ \/ k >= m
                                                  \/ call[m].remainingEthBudget = 0
             Good == {m \in 0..(n + 1) : Ended(call[m], loop) \/ Passed(m)}
  <1>6. 0 \in Good
    <2>1. loop[0] = LoopStart(start, f + 1)
      BY <1>2 DEF IsWhole, start
    <2>2. At(call[0], loop, 0)
      BY <1>1, <1>5, <2>1 DEF At, LoopStart
    <2> QED
      BY <1>1, <2>2
  <1>7. ASSUME NEW m \in 1..(n + 1), m - 1 \in Good PROVE m \in Good
    <2> DEFINE old == call[m - 1]
               new == call[m]
    <2>1. new = NextCall(old, perCall, share, time) /\ m \in 0..(n + 1)
      BY <1>1, <1>5
    <2>2. CASE Ended(old, loop)
      <3>1. new = old
        BY <2>1, <2>2 DEF Ended, CanCalculate, NextCall
      <3> QED
        BY <2>1, <2>2, <3>1
    <2>3. CASE Passed(m - 1)
      <3>1. PICK k \in 0..(n - f) : /\ At(old, loop, k)
                                    /\ k >= m - 1 \/ old.remainingEthBudget = 0
        BY <2>3
      <3>2. CASE old.remainingEthBudget = 0
        <4>1. new = old
          BY <2>1, <3>2 DEF CanCalculate, NextCall
        <4> HIDE DEF new, old
        <4>2. At(new, loop, k) /\ new.remainingEthBudget = 0
          BY <3>1, <3>2, <4>1
        <4> QED
          BY <2>1, <4>2 DEF new
      <3>3. CASE old.remainingEthBudget # 0
        <4> HIDE DEF new, old
        <4>1. \/ Ended(new, loop)
              \/ \E j \in Nat : j > k /\ At(new, loop, j)
          BY <1>1, <1>2, <2>1, <3>1, <3>3, CallMoves DEF share
        <4>2. ASSUME NEW j \in Nat, j > k, At(new, loop, j)
              PROVE  j \in 0..(n - f) /\ j >= m
          BY <1>1, <3>1, <3>3, <4>2 DEF At
        <4> QED
          BY <2>1, <4>1, <4>2 DEF new
      <3> QED
        BY <3>2, <3>3
    <2> QED
      BY <1>7, <2>2, <2>3
  <1>8. n + 1 \in Good
    <2>1. \A m \in 0..(n + 1) : m \in Good
      <3> HIDE DEF Good
      <3> QED
        BY <1>1, <1>6, <1>7, LoopKeeps
    <2> QED
      BY <1>1, <2>1
  <1>9. call[n + 1].batches = loop[n - f].state.batches
    <2>1. CASE Ended(call[n + 1], loop)
      BY <2>1 DEF Ended
    <2>2. CASE Passed(n + 1)
      <3>1. PICK k \in 0..(n - f) : /\ At(call[n + 1], loop, k)
                                    /\ k >= n + 1 \/ call[n + 1].remainingEthBudget = 0
        BY <2>2
      <3>2. call[n + 1] = loop[k].state /\ loop[k].state.remainingEthBudget = 0
        BY <1>1, <3>1 DEF At
      <3>3. Stuck(loop[k])
        BY <3>2 DEF Stuck
      <3>4. loop[n - f].state = loop[k].state
        BY <1>1, <1>2, <3>3, StuckStays DEF share
      <3> QED
        BY <3>2, <3>4
    <2> QED
      BY <1>8, <2>1, <2>2
  <1>10. Calculated(budget, share, time).batches = loop[n - f].state.batches
    BY <1>1, <1>2, CalculatedIsWhole
  <1> QED
    BY <1>5, <1>9, <1>10 DEF share, start

\* Whatever the number of requests that one call of the view handles, the calls
\* of the daemon end with the batches that a single call would return.
THEOREM ChunksAlwaysAgree == FreeSpec => []ChunkingIrrelevant
  <1>1. DustInv => ChunkingIrrelevant
    <2> SUFFICES ASSUME DustInv, NEW budget \in Budgets \ {0}, NEW rate \in Rates,
                        NEW time \in 0..now, NEW perCall \in 1..MaxRequests
                 PROVE  CallUntilFinished(StartState(budget), perCall, ShareRate(rate), time).batches
                          = Calculated(budget, ShareRate(rate), time).batches
      BY DEF ChunkingIrrelevant, ForAllReports
    <2>1. budget \in Nat /\ perCall \in Nat \ {0}
      BY OracleAssumption, QueueAssumption
    <2> QED
      BY <2>1, CallsAgree DEF DustInv
  <1> QED
    BY <1>1, DustInit, DustNext, PTL DEF FreeSpec

-----------------------------------------------------------------------------
(* The budget                                                              *)

\* An iteration that goes on spends the price of its request; one that breaks
\* the loop leaves the batches as they are.
LEMMA HandleSpends ==
    ASSUME NEW end, NEW rate, NEW time, NEW loop \in Loops(end),
           ~loop.broken, loop.currentId # end
    PROVE  LET new == HandleRequest(loop, end, rate, time)
           IN  IF new.broken THEN new.state.batches = loop.state.batches
               ELSE new.state.remainingEthBudget
                      = loop.state.remainingEthBudget - RequestEther(loop.currentId, rate)
  <1> DEFINE state   == loop.state
             id      == loop.currentId
             n       == Len(state.batches)
             ether   == RequestEther(id, rate)
             paid    == [state EXCEPT !.remainingEthBudget = @ - ether]
             extends == n # 0 /\ SameBatch(id, rate)
             next    == IF extends THEN [paid EXCEPT !.batches[n] = id]
                        ELSE [paid EXCEPT !.batches = Append(@, id)]
             new     == HandleRequest(loop, end, rate, time)
  <1>1. new = IF queue[id].timestamp > time \/ ether > state.remainingEthBudget
              THEN [loop EXCEPT !.broken = TRUE]
              ELSE IF ~extends /\ n = MAX_BATCHES_LENGTH
              THEN [loop EXCEPT !.state = paid, !.broken = TRUE]
              ELSE [state |-> next, currentId |-> id + 1, broken |-> FALSE]
    BY DEF HandleRequest, Spend
  <1>2. /\ loop \in [state: CalculationStates, currentId: Nat, broken: BOOLEAN]
        /\ state \in CalculationStates
    BY DEF Loops
  <1>3. /\ paid.remainingEthBudget = state.remainingEthBudget - ether
        /\ paid.batches = state.batches
        /\ paid \in [remainingEthBudget: {paid.remainingEthBudget}, finished: BOOLEAN,
                     batches: Seq(Nat)]
    <2> HIDE DEF ether
    <2> QED
      BY <1>2 DEF CalculationStates
  <1> HIDE DEF paid, extends, n, ether
  <1>4. next.remainingEthBudget = paid.remainingEthBudget
    BY <1>3
  <1> SUFFICES IF new.broken THEN new.state.batches = state.batches
               ELSE new.state.remainingEthBudget = state.remainingEthBudget - ether
    BY DEF ether
  <1> HIDE DEF new, next
  <1>5. CASE queue[id].timestamp > time \/ ether > state.remainingEthBudget
    <2>1. new = [loop EXCEPT !.broken = TRUE]
      BY <1>1, <1>5
    <2> QED
      BY <1>2, <2>1
  <1>6. CASE /\ ~(queue[id].timestamp > time \/ ether > state.remainingEthBudget)
             /\ ~extends /\ n = MAX_BATCHES_LENGTH
    <2>1. new = [loop EXCEPT !.state = paid, !.broken = TRUE]
      BY <1>1, <1>6
    <2> QED
      BY <1>2, <1>3, <2>1
  <1>7. CASE /\ ~(queue[id].timestamp > time \/ ether > state.remainingEthBudget)
             /\ ~(~extends /\ n = MAX_BATCHES_LENGTH)
    <2>1. new = [state |-> next, currentId |-> id + 1, broken |-> FALSE]
      BY <1>1, <1>7
    <2> QED
      BY <1>3, <1>4, <2>1
  <1> QED
    BY <1>5, <1>6, <1>7

\* Requests that a state of the view has in its batches.
Handled(state) == (lastFinalizedRequestId + 1)..(FirstUnhandled(state) - 1)

\* What the loop has spent is what the owners of the handled requests can claim.
LEMMA WholeFits ==
    ASSUME QueueInv, NEW budget \in Nat, NEW rate \in Nat, NEW time, NEW loop,
           IsWhole(loop, budget, rate, time)
    PROVE  LET last == loop[lastRequestId - lastFinalizedRequestId].state
               price == [i \in 1..lastRequestId |-> RequestEther(i, rate)]
           IN  /\ SumFunctionOnSet(price, Handled(last)) <= budget
               /\ Handled(last) \subseteq 1..lastRequestId
  <1> DEFINE f       == lastFinalizedRequestId
             n       == lastRequestId
             price   == [i \in 1..n |-> RequestEther(i, rate)]
             cost(l) == SumFunctionOnSet(price, Handled(l.state))
             left(l) == l.state.remainingEthBudget
             Good    == {k \in 0..(n - f) :
                           /\ cost(loop[k]) <= budget
                           /\ ~loop[k].broken => cost(loop[k]) = budget - left(loop[k])}
  <1>1. /\ n \in Nat /\ f \in 0..n /\ n - f \in Nat /\ n + 1 \in 1..(lastRequestId + 1)
        /\ CountsUp(loop)
    <2>1. CountsUp(loop)
      BY WholeCounts
    <2>2. n \in Nat /\ f \in 0..n
      BY DEF QueueInv, TypeOK
    <2> QED
      BY <2>1, <2>2
  <1>2. \A i \in 1..n : price[i] \in Nat
    BY PriceBounded DEF RequestEther
  <1> HIDE DEF price
  <1>3. \A k \in 0..(n - f) : loop[k] \in Loops(n + 1)
    BY DEF IsWhole
  <1>4. \A l \in Loops(n + 1) : /\ FirstUnhandled(l.state) \in (f + 1)..(n + 1)
                                /\ Handled(l.state) \subseteq 1..n
                                /\ left(l) \in Nat
    <2> SUFFICES ASSUME NEW l \in Loops(n + 1)
                 PROVE  /\ FirstUnhandled(l.state) \in (f + 1)..(n + 1)
                        /\ Handled(l.state) \subseteq 1..n
                        /\ left(l) \in Nat
      OBVIOUS
    <2>1. l.state \in CalculationStates /\ Ordered(l.state.batches)
      BY DEF Loops
    <2>2. FirstUnhandled(l.state) \in (f + 1)..(n + 1)
      BY <2>1, CallStarts
    <2> QED
      BY <1>1, <2>1, <2>2 DEF Handled, CalculationStates
  <1>5. 0 \in Good
    <2>1. loop[0] = LoopStart(StartState(budget), f + 1)
      BY DEF IsWhole
    <2>2. left(loop[0]) = budget /\ loop[0].state.batches = <<>>
      BY <2>1 DEF LoopStart, StartState
    <2>3. Handled(loop[0].state) = {}
      BY <1>1, <2>2 DEF Handled, FirstUnhandled
    <2>4. cost(loop[0]) = 0
      BY <2>3, SumEmpty
    <2> QED
      BY <1>1, <2>2, <2>4
  <1>6. ASSUME NEW k \in 1..(n - f), k - 1 \in Good PROVE k \in Good
    <2> DEFINE old == loop[k - 1]
               new == loop[k]
               id  == f + k
    <2>1. /\ k \in 0..(n - f) /\ k - 1 \in 0..(n - f) /\ id \in 1..n /\ f + 1 + (k - 1) = id
          /\ id # n + 1
      BY <1>1
    <2>2. new = HandleRequest(old, n + 1, rate, time)
      BY DEF IsWhole
    <2>3. old \in Loops(n + 1) /\ new \in Loops(n + 1)
      BY <1>3, <2>1
    <2>4. ~old.broken => old.currentId = id
      BY <1>1, <2>1 DEF CountsUp
    <2>5. cost(old) <= budget /\ (~old.broken => cost(old) = budget - left(old))
      BY <1>6
    <2> SUFFICES cost(new) <= budget /\ (~new.broken => cost(new) = budget - left(new))
      BY <2>1
    <2> HIDE DEF old, new, id
    <2>6. CASE old.broken
      <3>1. new = old
        BY <2>2, <2>6 DEF HandleRequest
      <3> QED
        BY <2>5, <2>6, <3>1
    <2>7. CASE ~old.broken
      <3>1. /\ old.currentId = id
            /\ IF new.broken THEN new.state.batches = old.state.batches
               ELSE left(new) = left(old) - RequestEther(id, rate)
        BY <2>1, <2>2, <2>3, <2>4, <2>7, HandleSpends
      <3>2. CASE new.broken
        <4>1. Handled(new.state) = Handled(old.state)
          BY <3>1, <3>2 DEF Handled, FirstUnhandled
        <4> QED
          BY <2>5, <3>2, <4>1
      <3>3. CASE ~new.broken
        <4>1. FirstUnhandled(old.state) = id
          BY <2>3, <2>7, <3>1 DEF Loops
        <4>2. new.currentId = id + 1
          BY <1>1, <2>1, <2>2, <2>3, <3>1, <3>3, HandleKeeps
        <4>3. FirstUnhandled(new.state) = id + 1
          BY <2>3, <3>3, <4>2 DEF Loops
        <4> DEFINE before == Handled(old.state)
                   after  == Handled(new.state)
        <4>4. /\ id \in after /\ after \ {id} = before /\ after \subseteq 1..n
          BY <1>1, <1>4, <2>1, <2>3, <4>1, <4>3 DEF Handled, id
        <4> HIDE DEF before, after
        <4>5. IsFiniteSet(after)
          <5>1. IsFiniteSet(1..n)
            BY <1>1, FS_Interval
          <5> QED
            BY <4>4, <5>1, FS_Subset
        <4>6. \A i \in after : price[i] \in Int
          BY <1>2, <4>4
        <4>7. SumFunctionOnSet(price, after) = price[id] + SumFunctionOnSet(price, before)
          BY <4>4, <4>5, <4>6, SumRemove
        <4>8. price[id] = RequestEther(id, rate) /\ price[id] \in Nat
          BY <1>2, <2>1 DEF price
        <4>9. cost(new) = price[id] + cost(old)
          BY <4>7 DEF before, after
        <4>10. /\ left(old) \in Nat /\ left(new) \in Nat
               /\ cost(old) = budget - left(old) /\ left(new) = left(old) - price[id]
          BY <1>4, <2>3, <2>5, <2>7, <3>1, <3>3, <4>8
        <4> HIDE DEF cost, left
        <4> QED
          BY <4>8, <4>9, <4>10
      <3> QED
        BY <3>2, <3>3
    <2> QED
      BY <2>6, <2>7
  <1>7. \A k \in 0..(n - f) : k \in Good
    <2> HIDE DEF Good
    <2> QED
      BY <1>1, <1>5, <1>6, LoopKeeps
  <1>8. cost(loop[n - f]) <= budget /\ Handled(loop[n - f].state) \subseteq 1..n
    BY <1>1, <1>3, <1>4, <1>7
  <1> QED
    BY <1>8 DEF price

\* What the owners can claim of the batches is within the budget.
LEMMA ClaimsFit ==
    ASSUME QueueInv, SharesSound, NEW budget \in Nat, NEW rate \in Nat, NEW time,
           Calculated(budget, rate, time).batches # <<>>
    PROVE  ProposalClaims(Calculated(budget, rate, time).batches, rate) <= budget
  <1> DEFINE f        == lastFinalizedRequestId
             n        == lastRequestId
             batches  == Calculated(budget, rate, time).batches
             proposed == (f + 1)..batches[Len(batches)]
             price    == [i \in 1..n |-> RequestEther(i, rate)]
             claims   == [i \in proposed |-> RequestEther(i, rate)]
  <1>1. PICK loop : IsWhole(loop, budget, rate, time)
    BY WholeExists
  <1> DEFINE last == loop[n - f].state
  <1>2. batches = last.batches
    BY <1>1, CalculatedIsWhole
  <1>3. SumFunctionOnSet(price, Handled(last)) <= budget /\ Handled(last) \subseteq 1..n
    BY <1>1, WholeFits
  <1>4. Ordered(batches)
    BY CalculatedOrdered
  <1> HIDE DEF batches, last
  <1>5. batches # <<>> /\ batches[Len(batches)] \in (f + 1)..n /\ f \in Nat /\ n \in Nat
    <2>1. Len(batches) \in Nat \ {0}
      BY <1>4, EmptySeq DEF batches, Ordered
    <2> QED
      BY <1>4, <2>1 DEF Ordered, batches, QueueInv, TypeOK
  <1>6. Handled(last) = proposed
    BY <1>2, <1>5 DEF Handled, FirstUnhandled
  <1>7. IsFiniteSet(proposed) /\ \A i \in proposed : price[i] = claims[i]
    <2>1. IsFiniteSet(proposed)
      BY <1>5, FS_Interval
    <2>2. proposed \subseteq 1..n
      BY <1>5
    <2> QED
      BY <2>1, <2>2
  <1> HIDE DEF price, claims, proposed
  <1>8. SumFunctionOnSet(price, proposed) = SumFunctionOnSet(claims, proposed)
    BY <1>7, SumEqual
  <1>9. SumFunctionOnSet(claims, proposed) <= budget
    BY <1>3, <1>6, <1>8
  <1> QED
    BY <1>9 DEF ProposalClaims, claims, proposed, batches

\* Whatever the budget, the owners of the requests that the view proposes can
\* claim no more than it, once those requests are finalized.
THEOREM ClaimsAlwaysFit == FreeSpec => []ClaimsWithinBudget
  <1>1. DustInv => ClaimsWithinBudget
    <2> SUFFICES ASSUME DustInv, NEW budget \in Budgets \ {0}, NEW rate \in Rates,
                        NEW time \in 0..now,
                        Calculated(budget, ShareRate(rate), time).batches # <<>>
                 PROVE  ProposalClaims(Calculated(budget, ShareRate(rate), time).batches,
                                       ShareRate(rate)) <= budget
      BY DEF ClaimsWithinBudget, ForAllReports
    <2>1. budget \in Nat /\ ShareRate(rate) \in Nat
      BY OracleAssumption, ShareRateNat
    <2> QED
      BY <2>1, ClaimsFit DEF DustInv
  <1> QED
    BY <1>1, DustInit, DustNext, PTL DEF FreeSpec
=============================================================================
