-------------------------- MODULE MCStakingRouter --------------------------
(* The instances of the staking router that TLC explores.                  *)
EXTENDS StakingRouter, TLC

CONSTANTS A, B, C

MCAddresses  == {A, B}
MCAddresses3 == {A, B, C}

\* Configurations: both types, with and without a limit on the share, fees that
\* add up to one half or to three quarters.
Config(wcType, limit, fee, treasuryFee) ==
    [fee |-> fee, treasuryFee |-> treasuryFee, stakeShareLimit |-> limit,
     maxDepositsPerBlock |-> 1, minDepositBlockDistance |-> 1, wcType |-> wcType]

MCDepositConfigs == {Config(WC_TYPE_02, 3, 1, 1)}
MCFeeConfigs == {Config(WC_TYPE_01, 4, 1, 1), Config(WC_TYPE_02, 4, 0, 2), Config(WC_TYPE_01, 4, 3, 0)}

MCFeePairs == {[fee |-> 1, treasuryFee |-> 1], [fee |-> 0, treasuryFee |-> 2],
               [fee |-> 3, treasuryFee |-> 0], [fee |-> 3, treasuryFee |-> 2]}

\* A module of the version before the upgrade: one validator of two has exited,
\* which the module has not been told yet.
OldA ==
    [address |-> A, fee |-> 1, treasuryFee |-> 1, stakeShareLimit |-> 4,
     maxDepositsPerBlock |-> 1, minDepositBlockDistance |-> 1, status |-> "Active",
     exitedValidatorsCount |-> 1, exited |-> 0, deposited |-> 2, depositable |-> 1]

\* Two modules of one validator: the first has no more keys, the second is
\* limited to half of the stake.
Old(a, limit, keys) ==
    [address |-> a, fee |-> 1, treasuryFee |-> 1, stakeShareLimit |-> limit,
     maxDepositsPerBlock |-> 1, minDepositBlockDistance |-> 1, status |-> "Active",
     exitedValidatorsCount |-> 0, exited |-> 0, deposited |-> 1, depositable |-> keys]

MCOldStorages == {<<OldA>>}
MCOldPair     == {<<Old(A, 4, 0), Old(B, 2, 1)>>}
MCAnyStorage  == {<<>>, <<OldA>>}
MCDeltas      == {-1, 1}
MCPenalties   == {-1}

\* Constraint: at most one thing stands in the way of deposits at a time, a
\* module that is not active or Lido's own pause; exits that the router and the
\* module count differently are in one module; and the stake of a module of the
\* first type, which nothing reads, stays put.
Focus ==
    /\ Cardinality({id \in Ids : config[id].status # "Active"}) <= (IF canDeposit THEN 1 ELSE 0)
    /\ Cardinality({id \in Ids : accounting[id].exitedValidatorsCount # SummaryOf(id).exited}) <= 1
    /\ \A id \in Ids :
        LET usual == SummaryOf(id).deposited * MaxEBType1
        IN  IF config[id].wcType = WC_TYPE_01 THEN StakeOf(id) = usual ELSE StakeOf(id) <= usual + 1

\* Constraint: nothing happens that the registry, the balances and the fees do
\* not read; exits are not reported, the modules and Lido stay as they are.
RegistryOnly ==
    /\ canDeposit
    /\ \A id \in Ids : SummaryOf(id).exited = 0 /\ accounting[id].exitedValidatorsCount <= 1
    /\ \A a \in Addresses : ~stale[a] /\ (a # A => summary[a].depositable = 0)
    /\ \A id \in Ids : config[id].status # "DepositsPaused"
=============================================================================
