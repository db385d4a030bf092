------------------------- MODULE MCWithdrawalQueue -------------------------
(* The instances of the withdrawal queue that TLC explores.                *)
EXTENDS WithdrawalQueue, TLC

CONSTANTS Alice, Bob

MCUsers == {Alice, Bob}
MCOneUser == {Alice}

Symmetric == Permutations(MCUsers)

\* 10 shares per 10 ether, and 7 shares per 10 ether: amounts do not divide
\* evenly, and requests made at one rate are discounted or not at the other.
MCRates == {[ether |-> 10, shares |-> 10], [ether |-> 10, shares |-> 7]}

\* Constraint: pauses and the bunker mode, which the storage of the requests does
\* not depend on, come while there is at most one request.
EarlyPauses ==
    lastRequestId > 1 =>
        /\ resumeSince \in {0, PAUSE_INFINITELY}
        /\ resumeSince = PAUSE_INFINITELY => now = 0
        /\ ~isBunkerModeActive
=============================================================================
