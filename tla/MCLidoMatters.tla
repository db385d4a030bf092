--------------------------- MODULE MCLidoMatters ---------------------------
(* An instance of Lido that explores one matter per behaviour: the share   *)
(* rate under reports and mints for vaults, two holders and their          *)
(* allowances, the staking limit from block to block, deposits, frames,    *)
(* requests and the reserves at a rate of one, or the wrapper.  Every step *)
(* is a step of Lido or of the wrapper; the matter chosen at the start     *)
(* says which steps happen and with what inputs.                           *)
EXTENDS WstETH, MCLido

CONSTANT Wst

MattersAccounts == MCAccounts \cup {Wst}

VARIABLE matter

MattersInit ==
    /\ WrapInit
    /\ matter \in {"rate", "allowances", "limit", "frames", "wrapper"}
    \* a migrated deposit in flight is a matter of frames
    /\ deposited > 0 => matter = "frames"

SwitchStep == Stop \/ ResumeProtocol \/ PauseStaking \/ ResumeStaking

RateStep ==
    /\ matter = "rate"
    /\ \/ \E value \in {1, 3} : Submit(Alice, value)
       \/ \E amount \in {1, 2} :
             \/ Transfer(Alice, Hub, amount)
             \/ TransferShares(Alice, Hub, amount)
             \/ MintExternalShares(Alice, amount)
             \/ BurnExternalShares(amount)
             \/ InternalizeExternalBadDebt(amount)
             \/ \E value \in 1..MaxEther : RebalanceExternalEtherToInternal(value, amount)
       \/ WithdrawDepositableEther(2)
       \/ \E delta \in ClDeltas : ProcessClStateUpdate(delta)
       \/ MintShares(Alice, 1)
       \/ SetMaxExternalRatioBP(2)
       \/ SwitchStep
       \/ NextFrame
    /\ refSlot' <= 2

AllowanceStep ==
    /\ matter = "allowances"
    /\ HolderStep \/ SwitchStep \/ \E delta \in {1, 3} : ProcessClStateUpdate(delta)
    /\ InternalEther' <= InitialBalance + 4
    /\ \A u \in Users : /\ \A a \in {Hub, Wst} : allowances'[u][a] = 0 /\ shares'[a] = 0
                        /\ \A s \in Users : allowances'[u][s] \in 0..2 \cup {UintMax}

LimitStep ==
    /\ matter = "limit"
    /\ \/ \E value \in {1, 2} : Submit(Alice, value)
       \/ Transfer(Alice, Hub, 2)
       \/ TransferShares(Alice, Hub, 2)
       \/ MintExternalShares(Alice, 2)
       \/ BurnExternalShares(2)
       \/ \E value \in 1..MaxEther : RebalanceExternalEtherToInternal(value, 2)
       \/ SetMaxExternalRatioBP(3)
       \/ \E limit \in {3, 7}, inc \in {0, 2} : SetStakingLimit(limit, inc)
       \/ RemoveStakingLimit
       \/ SwitchStep
       \/ NextBlock
    /\ InternalEther' <= InitialBalance + 5

FrameStep ==
    /\ matter = "frames"
    /\ \/ \E value \in {1, 2} :
             \/ Submit(Alice, value)
             \/ RequestWithdrawal(Alice, value)
             \/ WithdrawDepositableEther(value)
       \/ Approve(Alice, QueueAddress, UintMax)
       \/ ProcessClStateUpdate(0)
       \/ \E received \in VaultAmounts, last \in lastFinalized..Len(requests) :
             CollectRewardsAndProcessWithdrawals(received, last)
       \/ RequestBurn
       \/ \E amount \in 1..shares[Burner] : BurnShares(amount)
       \/ \E target \in {0, 1, 2} : SetDepositsReserveTarget(target)
       \/ SwitchStep
       \/ NextFrame
       \/ ReportBunkerMode
    /\ InternalEther' <= 4

WrapStep ==
    /\ matter = "wrapper"
    /\ \/ /\ \/ ResumeProtocol
             \/ Submit(Alice, 2)
             \/ TransferShares(Alice, Wrapper, 1)
             \/ Approve(Alice, Wrapper, 3)
             \/ WithdrawDepositableEther(2)
             \/ \E delta \in ClDeltas : ProcessClStateUpdate(delta)
             \/ MintShares(Alice, 1)
             \/ NextFrame
          /\ UNCHANGED wrapVars
       \/ \E value \in {1, 3} : Receive(Alice, value)
       \/ \E amount \in {1, 2} : Wrap(Alice, amount)
       \/ \E u \in Users : \E amount \in 1..wrapped[u] : Unwrap(u, amount)
       \/ MoveWrapped(Alice, Bob, 1)
    /\ refSlot' <= 2
    /\ wrapped'[Bob] + shares'[Bob] <= 1
    /\ totalShares' <= 8

MattersNext ==
    /\ \/ /\ RateStep \/ AllowanceStep \/ LimitStep \/ FrameStep
          /\ UNCHANGED wrapVars
       \/ WrapStep
    /\ UNCHANGED matter

MattersSpec == MattersInit /\ [][MattersNext]_<<allVars, matter>>
=============================================================================
