---------------------------- MODULE WstETHProofs ----------------------------
(***************************************************************************)
(* The wrapper is backed, and unwrapping loses dust, for any accounts,     *)
(* amounts and bounds.                                                     *)
(*                                                                         *)
(* A step of the wrapper is a stake or a transfer of Lido's by an account  *)
(* that is no user, so Lido's invariant holds in the composition too.      *)
(* From its types follows what two roundings leave.                        *)
(***************************************************************************)
EXTENDS WstETH, LidoProofs

WrapInv ==
    /\ LidoInv
    /\ wrapped \in [Accounts -> Nat]
    /\ wrappedSupply \in Nat
    /\ WrapperBacked

-----------------------------------------------------------------------------
(* Lido under the calls of the wrapper                                     *)

\* Ether that the wrapper receives is a stake like any other.
LEMMA StakeForWrapper ==
    ASSUME LidoInv, NEW value \in EtherAmounts, Submit(Wrapper, value)
    PROVE  /\ LidoInv'
           /\ value \in Nat
           /\ getSharesByPooledEth(value, ShareRate) \in Nat
<1>1. value \in Nat /\ Wrapper \in Accounts
  BY LidoAssumption, WrapperAssumption
<1>2. getSharesByPooledEth(value, ShareRate) \in Nat
  BY <1>1, RateType, SharesNat DEF Submit, CanBuyShares
<1>3. StakeStep
  BY <1>1 DEF Submit, StakeStep
<1>4. ShareStep /\ AllowanceStep
  BY <1>1, <1>2 DEF Submit, ShareStep, AllowanceStep
<1>5. ExternalStep
  BY DEF Submit, ExternalStep, externalVars
<1>6. OutsideStep /\ FrameStep /\ ReserveStep
  BY DEF Submit, outsideVars, OutsideStep, FrameStep, ReserveStep
<1>7. BufferStep
  BY <1>1 DEF BufferStep
<1> QED
  BY <1>1, <1>2, <1>3, <1>4, <1>5, <1>6, <1>7, StakeInvKept, TokenInvKept,
     OutsideInvKept, FrameInvKept, BufferInvKept, ReserveInvKept DEF LidoInv

\* Its transfers, in and out, are those of any account.
LEMMA TransferForWrapper ==
    ASSUME LidoInv, NEW u \in Users, NEW n \in Nat,
           TransferFrom(Wrapper, u, Wrapper, n) \/ Transfer(Wrapper, u, n)
    PROVE  /\ LidoInv'
           /\ getSharesByPooledEth(n, ShareRate) \in Nat
<1>1. u \in Accounts /\ Wrapper \in Accounts
  BY LidoAssumption, WrapperAssumption
<1>2. CanBuyShares(n, ShareRate)
  BY DEF TransferFrom, Transfer, DoTransferFrom, DoTransfer
<1>3. getSharesByPooledEth(n, ShareRate) \in Nat
  BY <1>2, RateType, SharesNat DEF CanBuyShares
<1>4. ShareStep /\ AllowanceStep
  BY <1>1, TransferSteps DEF TransferFrom, Transfer
<1>5. UnchangedButToken /\ active' = active
  BY DEF TransferFrom, Transfer, DoTransferFrom, DoTransfer
<1>6. StakeStep /\ ExternalStep /\ OutsideStep /\ FrameStep /\ BufferStep /\ ReserveStep
  BY <1>5 DEF UnchangedButToken, externalVars, outsideVars, StakeStep, ExternalStep,
     OutsideStep, FrameStep, BufferStep, ReserveStep
<1> QED
  BY <1>3, <1>4, <1>6, StakeInvKept, TokenInvKept, OutsideInvKept, FrameInvKept,
     BufferInvKept, ReserveInvKept DEF LidoInv

-----------------------------------------------------------------------------
(* Two roundings                                                           *)

\* The rest of a division is less than the divisor.
LEMMA DivRest ==
    ASSUME NEW a \in Nat, NEW b \in Nat \ {0}
    PROVE  a < (a \div b) * b + b
  BY SMT

\* An amount w priced at e ether for s shares, and the price turned into
\* shares again.
LEMMA RoundTrip ==
    ASSUME NEW w \in Nat, NEW e \in Nat \ {0}, NEW s \in Nat \ {0}
    PROVE  LET back == (((w * e) \div s) * s) \div e
           IN  /\ back \in Nat
               /\ back <= w
               /\ (w - back) * e < s + e
<1> DEFINE price == (w * e) \div s
           back == (price * s) \div e
<1>1. w * e \in Nat
  OBVIOUS
<1>2. price \in Nat /\ price * s <= w * e /\ w * e < price * s + s
  BY <1>1, DivBelow, DivRest
<1> HIDE DEF price
<1>3. price * s \in Nat
  BY <1>2
<1>4. back \in Nat /\ back * e <= price * s /\ price * s < back * e + e
  BY <1>3, DivBelow, DivRest
<1> HIDE DEF back
<1>5. back * e \in Nat
  BY <1>4
<1>6. back * e <= w * e /\ w * e < back * e + s + e
  BY <1>1, <1>2, <1>3, <1>4, <1>5
<1>7. back <= w
  <2>1. SUFFICES ASSUME back > w PROVE FALSE
    BY <1>4
  <2>2. back = w + (back - w) /\ back - w \in Nat \ {0}
    BY <1>4, <2>1
  <2>3. back * e = w * e + (back - w) * e
    BY <1>4
  <2>4. (back - w) * e >= 1
    BY <2>2
  <2> QED
    BY <1>1, <1>5, <1>6, <2>2, <2>3, <2>4
<1>8. (w - back) * e = w * e - back * e
  BY <1>4
<1>9. (w - back) * e < s + e
  BY <1>1, <1>5, <1>6, <1>8
<1> QED
  BY <1>4, <1>7, <1>9 DEF back, price

-----------------------------------------------------------------------------
(* What the steps do to the surplus                                        *)

Spared == shares'[Wrapper] >= shares[Wrapper]

\* No step of Lido takes shares from the wrapper, and none but a user, the
\* queue, the burner or the hub pays.
LEMMA LidoSparesWrapper ==
    ASSUME WrapInv, Next
    PROVE  Spared
<1>0. /\ Wrapper \in Accounts /\ Users \subseteq Accounts /\ Wrapper \notin Users
      /\ {Queue, Burner, VaultHub} \subseteq Accounts
      /\ Wrapper \notin {Queue, Burner, VaultHub}
      /\ shares \in [Accounts -> Nat]
  BY LidoAssumption, WrapperAssumption DEF WrapInv, LidoInv, TokenInv
<1>1. ASSUME NEW from \in Accounts \ {Wrapper}, NEW to, NEW n \in Nat, MoveShares(from, to, n)
      PROVE  Spared
  BY <1>0, <1>1 DEF MoveShares, Spared
<1>2. ASSUME NEW to, NEW n \in Nat, CreateShares(to, n)
      PROVE  Spared
  BY <1>0, <1>2 DEF CreateShares, Spared
<1>3. ASSUME NEW a \in {Burner, VaultHub}, NEW n, DestroyShares(a, n)
      PROVE  Spared
  BY <1>0, <1>3 DEF DestroyShares, Spared
<1>4. ASSUME UNCHANGED shares
      PROVE  Spared
  BY <1>0, <1>4 DEF Spared
<1>5. ASSUME NEW spender, NEW from \in Accounts \ {Wrapper}, NEW to, NEW n \in Nat,
             \/ DoTransfer(from, to, n, ShareRate)
             \/ DoTransferFrom(spender, from, to, n, ShareRate)
             \/ DoTransferShares(from, to, n, ShareRate)
             \/ DoTransferSharesFrom(spender, from, to, n, ShareRate)
      PROVE  Spared
  <2>1. CanBuyShares(n, ShareRate) => getSharesByPooledEth(n, ShareRate) \in Nat
    BY RateType, SharesNat DEF CanBuyShares, WrapInv
  <2> QED
    BY <1>1, <1>5, <2>1 DEF DoTransfer, DoTransferFrom, DoTransferShares,
       DoTransferSharesFrom
<1>6. CASE HolderStep
  <2>1. CASE \E u \in Users, value \in EtherAmounts : Submit(u, value)
    <3>1. PICK u \in Users, value \in EtherAmounts : Submit(u, value)
      BY <2>1
    <3>2. getSharesByPooledEth(value, ShareRate) \in Nat
      BY <3>1, LidoAssumption, RateType, SharesNat DEF Submit, CanBuyShares, WrapInv
    <3> QED
      BY <1>2, <3>1, <3>2 DEF Submit
  <2>2. CASE \E u \in Users, amount \in RequestAmounts : RequestWithdrawal(u, amount)
    BY <1>0, <1>5, <2>2, LidoAssumption DEF RequestWithdrawal
  <2>3. CASE \E u \in Users, to \in Recipients, amount \in TransferAmounts :
               Transfer(u, to, amount) \/ TransferShares(u, to, amount)
    BY <1>0, <1>5, <2>3, LidoAssumption DEF Transfer, TransferShares
  <2>4. CASE \E u \in Users, to \in Recipients, amount \in TransferAmounts, from \in Users :
               TransferFrom(u, from, to, amount) \/ TransferSharesFrom(u, from, to, amount)
    BY <1>0, <1>5, <2>4, LidoAssumption DEF TransferFrom, TransferSharesFrom
  <2>5. CASE \E u \in Users, spender \in Recipients, amount \in AllowanceAmounts :
               \/ Approve(u, spender, amount)
               \/ IncreaseAllowance(u, spender, amount)
               \/ DecreaseAllowance(u, spender, amount)
    BY <1>4, <2>5 DEF Approve, IncreaseAllowance, DecreaseAllowance, DoApprove,
       DoIncreaseAllowance, DoDecreaseAllowance
  <2> QED
    BY <1>6, <2>1, <2>2, <2>3, <2>4, <2>5 DEF HolderStep
<1>7. CASE \E amount \in DepositAmounts : WithdrawDepositableEther(amount)
  BY <1>4, <1>7 DEF WithdrawDepositableEther, tokenVars
<1>8. CASE ReportStep
  <2>1. CASE \/ \E delta \in ClDeltas : ProcessClStateUpdate(delta)
             \/ \E amount \in ShareAmounts : InternalizeExternalBadDebt(amount)
             \/ \E received \in VaultAmounts, last \in lastFinalized..Len(requests) :
                   CollectRewardsAndProcessWithdrawals(received, last)
    BY <1>4, <2>1 DEF ProcessClStateUpdate, InternalizeExternalBadDebt,
       CollectRewardsAndProcessWithdrawals, tokenVars
  <2>2. CASE \E u \in Users, amount \in FeeShares : MintShares(u, amount)
    BY <1>2, <2>2, LidoAssumption DEF MintShares
  <2>3. CASE RequestBurn
    <3>1. sharesToBurn \in Nat
      BY DEF WrapInv, LidoInv, OutsideInv
    <3> QED
      BY <1>0, <1>5, <2>3, <3>1 DEF RequestBurn
  <2>4. CASE \E amount \in 1..shares[Burner] : BurnShares(amount)
    BY <1>3, <2>4 DEF BurnShares
  <2> QED
    BY <1>8, <2>1, <2>2, <2>3, <2>4 DEF ReportStep
<1>9. CASE VaultStep
  BY <1>2, <1>3, <1>4, <1>9, LidoAssumption DEF VaultStep, MintExternalShares,
     BurnExternalShares, RebalanceExternalEtherToInternal, tokenVars
<1>10. CASE GovernanceStep
  BY <1>4, <1>10 DEF GovernanceStep, Stop, ResumeProtocol, PauseStaking, ResumeStaking,
     SetStakingLimit, RemoveStakingLimit, SetMaxExternalRatioBP,
     SetDepositsReserveTarget, UnchangedButStaking, tokenVars
<1>11. CASE NextBlock \/ NextFrame \/ ReportBunkerMode
  BY <1>4, <1>11 DEF NextBlock, NextFrame, ReportBunkerMode, UnchangedButStaking, tokenVars
<1> QED
  BY <1>6, <1>7, <1>8, <1>9, <1>10, <1>11 DEF Next

\* The four calls of a holder, and what each does to supply and shares.
LEMMA WrapStepEffect ==
    ASSUME WrapInv, NEW u \in Users, NEW n \in Nat, Wrap(u, n)
    PROVE  WrapInv' /\ wrappedSupply' >= wrappedSupply
<1> DEFINE bought == getSharesByPooledEth(n, ShareRate)
<1>1. /\ u \in Accounts /\ Wrapper \in Accounts /\ u # Wrapper
      /\ shares \in [Accounts -> Nat]
  BY LidoAssumption, WrapperAssumption DEF WrapInv, LidoInv, TokenInv
<1>2. LidoInv' /\ bought \in Nat
  BY TransferForWrapper DEF Wrap, WrapInv
<1>3. /\ shares' = [[shares EXCEPT ![u] = @ - bought] EXCEPT ![Wrapper] = @ + bought]
      /\ wrapped' = [wrapped EXCEPT ![u] = @ + bought]
      /\ wrappedSupply' = wrappedSupply + bought
  BY DEF Wrap, TransferFrom, DoTransferFrom, MoveShares, MintWrapped, getWstETHByStETH
<1> HIDE DEF bought
<1> QED
  BY <1>1, <1>2, <1>3 DEF WrapInv, WrapperBacked, Surplus

\* Stake and wrap issues what the wrapper received.
LEMMA ReceiveEffect ==
    ASSUME WrapInv, NEW u \in Users, NEW value \in EtherAmounts, Receive(u, value)
    PROVE  WrapInv' /\ wrappedSupply' >= wrappedSupply
<1> DEFINE bought == getSharesByPooledEth(value, ShareRate)
<1>1. /\ u \in Accounts /\ Wrapper \in Accounts
      /\ shares \in [Accounts -> Nat]
  BY LidoAssumption, WrapperAssumption DEF WrapInv, LidoInv, TokenInv
<1>2. LidoInv' /\ bought \in Nat
  BY StakeForWrapper DEF Receive, WrapInv
<1>3. /\ shares' = [shares EXCEPT ![Wrapper] = @ + bought]
      /\ wrapped' = [wrapped EXCEPT ![u] = @ + bought]
      /\ wrappedSupply' = wrappedSupply + bought
  BY DEF Receive, Submit, CreateShares, MintWrapped
<1> HIDE DEF bought
<1> QED
  BY <1>1, <1>2, <1>3 DEF WrapInv, WrapperBacked, Surplus

\* An unwrap leaves the wrapper no less than it must hold, and little more.
LEMMA UnwrapEffect ==
    ASSUME WrapInv, NEW u \in Users, NEW n \in 1..wrapped[u], Unwrap(u, n)
    PROVE  /\ WrapInv'
           /\ Surplus' >= Surplus
           /\ (Surplus' - Surplus) * InternalEther < InternalShares + InternalEther
<1> DEFINE price == getPooledEthByShares(n, ShareRate)
           back == getSharesByPooledEth(price, ShareRate)
<1>1. /\ u \in Accounts /\ Wrapper \in Accounts /\ u # Wrapper
      /\ shares \in [Accounts -> Nat]
      /\ wrapped \in [Accounts -> Nat] /\ wrappedSupply \in Nat
  BY LidoAssumption, WrapperAssumption DEF WrapInv, LidoInv, TokenInv
<1>2. n \in Nat
  BY <1>1
<1>3. /\ InternalEther \in Nat \ {0} /\ InternalShares \in Nat \ {0}
      /\ ShareRate = [ether |-> InternalEther, shares |-> InternalShares]
  BY RateType DEF WrapInv, Unwrap, CanPrice, Transfer, DoTransfer, CanBuyShares, ShareRate
<1>4. price \in Nat
  BY <1>2, <1>3, RateType, PriceNat DEF WrapInv
<1>5. LidoInv'
  BY <1>4, TransferForWrapper DEF Unwrap, WrapInv, getStETHByWstETH
<1>6. back \in Nat /\ back <= n /\ (n - back) * InternalEther < InternalShares + InternalEther
  BY <1>2, <1>3, RoundTrip DEF getPooledEthByShares, getSharesByPooledEth
<1>7. /\ shares' = [[shares EXCEPT ![Wrapper] = @ - back] EXCEPT ![u] = @ + back]
      /\ back <= shares[Wrapper]
      /\ wrapped' = [wrapped EXCEPT ![u] = @ - n]
      /\ n <= wrappedSupply /\ wrappedSupply' = wrappedSupply - n
  BY DEF Unwrap, Transfer, DoTransfer, MoveShares, BurnWrapped, getStETHByWstETH
<1> HIDE DEF price, back
<1>8. Surplus' = Surplus + (n - back) /\ Surplus \in Int
  BY <1>1, <1>2, <1>6, <1>7 DEF Surplus
<1>9. wrapped' \in [Accounts -> Nat] /\ wrappedSupply' \in Nat
  BY <1>1, <1>2, <1>7
<1>10. Surplus' - Surplus = n - back
  BY <1>2, <1>6, <1>8
<1> QED
  BY <1>2, <1>5, <1>6, <1>8, <1>9, <1>10 DEF WrapInv, WrapperBacked

\* Passing wrapped shares on changes no total.
LEMMA MoveEffect ==
    ASSUME WrapInv, NEW u \in Users, NEW to \in Users, NEW n \in 1..wrapped[u],
           MoveWrapped(u, to, n)
    PROVE  WrapInv' /\ wrappedSupply' = wrappedSupply
<1>1. /\ u \in Accounts /\ to \in Accounts /\ n \in Nat
      /\ wrapped \in [Accounts -> Nat]
  BY LidoAssumption DEF WrapInv
<1>2. /\ UNCHANGED vars /\ wrappedSupply' = wrappedSupply
      /\ n <= wrapped[u]
      /\ wrapped' = [[wrapped EXCEPT ![u] = @ - n] EXCEPT ![to] = @ + n]
  BY DEF MoveWrapped
<1>3. LidoInv' /\ shares' = shares
  BY <1>2, NextInv DEF WrapInv, vars, tokenVars
<1>4. wrapped' \in [Accounts -> Nat]
  BY <1>1, <1>2
<1> QED
  BY <1>2, <1>3, <1>4 DEF WrapInv, WrapperBacked, Surplus

-----------------------------------------------------------------------------
(* The invariant                                                           *)

\* A new wrapper holds nothing and has issued nothing.
LEMMA WrapInitInv == WrapInit => WrapInv
<1> SUFFICES ASSUME WrapInit PROVE WrapInv
  OBVIOUS
<1>1. LidoInv
  BY InitInv DEF WrapInit
<1>2. shares[Wrapper] \in Nat
  BY <1>1, WrapperAssumption DEF LidoInv, TokenInv
<1> QED
  BY <1>1, <1>2 DEF WrapInit, WrapInv, WrapperBacked, Surplus

\* A step keeps the invariant, and unless it unwraps it keeps the supply.
LEMMA WrapNextInv ==
    ASSUME WrapInv, [WrapNext]_allVars
    PROVE  /\ WrapInv'
           /\ \/ wrappedSupply' >= wrappedSupply
              \/ /\ Surplus' >= Surplus
                 /\ (Surplus' - Surplus) * InternalEther < InternalShares + InternalEther
<1>0. wrappedSupply \in Nat /\ shares \in [Accounts -> Nat] /\ Wrapper \in Accounts
  BY WrapperAssumption DEF WrapInv, LidoInv, TokenInv
<1>1. CASE Next /\ UNCHANGED wrapVars
  <2>1. LidoInv'
    BY <1>1, NextInv DEF WrapInv
  <2>2. shares'[Wrapper] >= shares[Wrapper] /\ shares' \in [Accounts -> Nat]
    BY <1>1, <2>1, LidoSparesWrapper DEF Spared, LidoInv, TokenInv
  <2> QED
    BY <1>0, <1>1, <2>1, <2>2 DEF WrapInv, WrapperBacked, Surplus, wrapVars
<1>2. CASE WrapperStep
  <2>1. PICK u \in Users :
           \/ \E value \in EtherAmounts : Receive(u, value)
           \/ \E amount \in TransferAmounts : Wrap(u, amount)
           \/ \E amount \in 1..wrapped[u] :
                 \/ Unwrap(u, amount)
                 \/ \E to \in Users : MoveWrapped(u, to, amount)
    BY <1>2 DEF WrapperStep
  <2>2. CASE \E value \in EtherAmounts : Receive(u, value)
    BY <2>2, ReceiveEffect
  <2>3. CASE \E amount \in TransferAmounts : Wrap(u, amount)
    BY <2>3, WrapStepEffect, LidoAssumption
  <2>4. CASE \E amount \in 1..wrapped[u] : Unwrap(u, amount)
    BY <2>4, UnwrapEffect
  <2>5. CASE \E amount \in 1..wrapped[u] : \E to \in Users : MoveWrapped(u, to, amount)
    BY <1>0, <2>5, MoveEffect
  <2> QED
    BY <2>1, <2>2, <2>3, <2>4, <2>5
<1>3. CASE UNCHANGED allVars
  <2>1. UNCHANGED <<vars, wrapped, wrappedSupply>>
    BY <1>3 DEF allVars, wrapVars
  <2>2. LidoInv' /\ shares' = shares
    BY <2>1, NextInv DEF WrapInv, vars, tokenVars
  <2> QED
    BY <1>0, <2>1, <2>2 DEF WrapInv, WrapperBacked, Surplus
<1> QED
  BY <1>1, <1>2, <1>3 DEF WrapNext

\* Lido's invariant holds with the wrapper among its holders, and the shares
\* of the wrapper cover its supply.
THEOREM WrapInvariant == WrapSpec => []WrapInv
<1>1. WrapInv /\ [WrapNext]_allVars => WrapInv'
  BY WrapNextInv
<1> QED
  BY <1>1, WrapInitInv, PTL DEF WrapSpec

\* The last holder to unwrap gets shares: the wrapper always holds at least
\* as many as it has issued.
THEOREM AlwaysBacked == WrapSpec => []WrapperBacked
<1>1. WrapInv => WrapperBacked
  BY DEF WrapInv
<1> QED
  BY <1>1, WrapInvariant, PTL

\* An unwrap takes nothing from the other holders, and costs its own less
\* than the worth of a share and a wei.
THEOREM LosesDust == WrapSpec => UnwrapLosesDust
<1>1. ASSUME WrapInv, WrapInv', [WrapNext]_allVars, wrappedSupply' < wrappedSupply
      PROVE  /\ Surplus' >= Surplus
             /\ (Surplus' - Surplus) * InternalEther < InternalShares + InternalEther
  <2>1. wrappedSupply \in Nat /\ wrappedSupply' \in Nat
    BY <1>1 DEF WrapInv
  <2> QED
    BY <1>1, <2>1, WrapNextInv
<1>2. WrapInv /\ WrapInv' /\ [WrapNext]_allVars
      => [wrappedSupply' < wrappedSupply =>
            /\ Surplus' >= Surplus
            /\ (Surplus' - Surplus) * InternalEther < InternalShares + InternalEther]_allVars
  BY <1>1
<1> QED
  BY <1>2, WrapInvariant, PTL DEF UnwrapLosesDust, WrapSpec
=============================================================================
