---------------------- MODULE MCWithdrawalQueueOracle ----------------------
(* The instances of the queue and its oracle that TLC explores.            *)
EXTENDS WithdrawalQueueOracle

CONSTANT Alice

MCOneUser == {Alice}

MCRates == {[ether |-> 10, shares |-> 8], [ether |-> 10, shares |-> 7]}

\* One rate only: 142 in the model's precision, while 10 of 7 shares is 142.8
\* and 72 of 50 shares is 144.
MCOneRate == {[ether |-> 10, shares |-> 7]}

\* The share price when two requests are made, when a third one is made, and
\* between them when all are finalized.
MCBudgetRates == {[ether |-> 13, shares |-> 10], [ether |-> 18, shares |-> 10],
                  [ether |-> 16, shares |-> 10]}

\* The pause and the bunker mode, which the prices do not depend on, stay out of
\* the way: the queue is resumed in the first block, reports are not in bunker
\* mode.
Quiet ==
    /\ resumeSince \in {0, PAUSE_INFINITELY}
    /\ resumeSince = PAUSE_INFINITELY => now = 0
    /\ bunkerModeSinceTimestamp = BUNKER_MODE_DISABLED_TIMESTAMP

\* Requests are made, none is finalized.
OnlyRequests == Quiet /\ lastFinalizedRequestId = 0
=============================================================================
