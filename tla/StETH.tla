------------------------------- MODULE StETH -------------------------------
(***************************************************************************)
(* The token (StETH.sol, with the pause flag of utils/Pausable.sol).  It   *)
(* keeps shares; an amount of tokens is a number of shares at the share    *)
(* rate of the moment, which the contract that inherits it supplies as a   *)
(* numerator in ether and a denominator in shares.  Both conversions round *)
(* down, and one exists that rounds up.                                    *)
(*                                                                         *)
(* These are parts of transactions: Lido.tla supplies the rate and joins   *)
(* them with the rest of what the entry points do.                         *)
(***************************************************************************)
EXTENDS Integers, FiniteSets

CONSTANTS
    Accounts,       \* every address of the model
    ZeroAddress,    \* address(0)
    StETHAddress,   \* the token contract itself
    UintMax,        \* type(uint256).max
    Uint128Max      \* 2^128 - 1: share totals have 128 bits

ASSUME StETHAssumption ==
    /\ IsFiniteSet(Accounts)
    /\ ZeroAddress \in Accounts
    /\ StETHAddress \in Accounts
    /\ UintMax \in Nat
    /\ Uint128Max \in Nat
    /\ Uint128Max <= UintMax

VARIABLES
    active,         \* ACTIVE_FLAG_POSITION: the protocol is not stopped
    totalShares,    \* the low half of TOTAL_AND_EXTERNAL_SHARES_POSITION
    shares,         \* account -> shares
    allowances      \* owner -> spender -> tokens

tokenVars == <<active, totalShares, shares, allowances>>

INFINITE_ALLOWANCE == UintMax

TokenTypeOK ==
    /\ active \in BOOLEAN
    /\ totalShares \in 0..Uint128Max
    /\ shares \in [Accounts -> Nat]
    /\ allowances \in [Accounts -> [Accounts -> 0..UintMax]]

\* A rate [ether, shares] is the pair that the inheriting contract returns
\* from _getShareRateNumerator and _getShareRateDenominator.  A conversion
\* reverts when it would divide by zero.
CanBuyShares(eth, rate) == eth < Uint128Max /\ rate.ether # 0

CanPrice(amount, rate) == amount < Uint128Max /\ rate.shares # 0

\* Altered form of getSharesByPooledEth: rounded up.
SharesRoundedUp(eth, rate) ==
    (eth * rate.shares + rate.ether - 1) \div rate.ether

getSharesByPooledEth(eth, rate) == (eth * rate.shares) \div rate.ether

getPooledEthByShares(amount, rate) == (amount * rate.ether) \div rate.shares

\* Altered form of getPooledEthBySharesRoundUp: rounded down.
PooledEthRoundedDown(amount, rate) == (amount * rate.ether) \div rate.shares

getPooledEthBySharesRoundUp(amount, rate) ==
    (amount * rate.ether + rate.shares - 1) \div rate.shares

\* Altered form of MoveShares: the recipient is credited from the balances
\* read before the sender was debited.
MoveSharesStale(from, to, amount) ==
    /\ active
    /\ {from, to} \cap {ZeroAddress} = {}
    /\ to # StETHAddress
    /\ amount <= shares[from]
    /\ shares' = [[shares EXCEPT ![from] = @ - amount]
                         EXCEPT ![to] = shares[to] + amount]

\* _transferShares.  The credit is added to what the debit left, which shows
\* in a transfer to oneself.
MoveShares(from, to, amount) ==
    /\ active
    /\ {from, to} \cap {ZeroAddress} = {}
    /\ to # StETHAddress
    /\ amount <= shares[from]
    /\ shares' = [[shares EXCEPT ![from] = @ - amount] EXCEPT ![to] = @ + amount]

\* _mintShares; the callers check the pause.
CreateShares(to, amount) ==
    /\ to \notin {ZeroAddress, StETHAddress}
    /\ totalShares + amount <= Uint128Max
    /\ totalShares' = totalShares + amount
    /\ shares' = [shares EXCEPT ![to] = @ + amount]

\* _burnShares
DestroyShares(account, amount) ==
    /\ account # ZeroAddress
    /\ amount <= shares[account]
    /\ amount <= totalShares
    /\ totalShares' = totalShares - amount
    /\ shares' = [shares EXCEPT ![account] = @ - amount]

\* _approve
SetAllowance(owner, spender, amount) ==
    /\ {owner, spender} \cap {ZeroAddress} = {}
    /\ allowances' = [allowances EXCEPT ![owner][spender] = amount]

\* _spendAllowance: an infinite allowance is not consumed.
SpendAllowance(owner, spender, amount) ==
    IF allowances[owner][spender] = INFINITE_ALLOWANCE
    THEN UNCHANGED allowances
    ELSE /\ amount <= allowances[owner][spender]
         /\ SetAllowance(owner, spender, allowances[owner][spender] - amount)

-----------------------------------------------------------------------------
\* The entry points of a holder.  All but the allowance ones need a running
\* protocol, through _transferShares.
DoTransfer(from, to, amount, rate) ==
    /\ CanBuyShares(amount, rate)
    /\ MoveShares(from, to, getSharesByPooledEth(amount, rate))
    /\ UNCHANGED <<active, totalShares, allowances>>

DoTransferFrom(spender, from, to, amount, rate) ==
    /\ CanBuyShares(amount, rate)
    /\ SpendAllowance(from, spender, amount)
    /\ MoveShares(from, to, getSharesByPooledEth(amount, rate))
    /\ UNCHANGED <<active, totalShares>>

DoTransferShares(from, to, amount, rate) ==
    /\ CanPrice(amount, rate)
    /\ MoveShares(from, to, amount)
    /\ UNCHANGED <<active, totalShares, allowances>>

DoTransferSharesFrom(spender, from, to, amount, rate) ==
    /\ CanPrice(amount, rate)
    /\ SpendAllowance(from, spender, getPooledEthByShares(amount, rate))
    /\ MoveShares(from, to, amount)
    /\ UNCHANGED <<active, totalShares>>

DoApprove(owner, spender, amount) ==
    /\ SetAllowance(owner, spender, amount)
    /\ UNCHANGED <<active, totalShares, shares>>

DoIncreaseAllowance(owner, spender, amount) ==
    /\ allowances[owner][spender] + amount <= UintMax
    /\ SetAllowance(owner, spender, allowances[owner][spender] + amount)
    /\ UNCHANGED <<active, totalShares, shares>>

DoDecreaseAllowance(owner, spender, amount) ==
    /\ amount <= allowances[owner][spender]
    /\ SetAllowance(owner, spender, allowances[owner][spender] - amount)
    /\ UNCHANGED <<active, totalShares, shares>>
=============================================================================
