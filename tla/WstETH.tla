------------------------------- MODULE WstETH -------------------------------
(***************************************************************************)
(* WstETH.sol, composed with Lido: a token whose balances are numbers of   *)
(* shares and stay when the price of a share moves.  The wrapper holds     *)
(* stETH as any account does; what it mints and what it receives are       *)
(* computed apart, by conversions that round on their own, at a rate that  *)
(* reports change between a wrap and an unwrap.                            *)
(*                                                                         *)
(* Nobody acts for the wrapper but its holders, through the calls below.   *)
(***************************************************************************)
EXTENDS Lido

CONSTANT Wrapper        \* the address of the contract

ASSUME WrapperAssumption ==
    /\ Wrapper \in Accounts
    /\ Wrapper \notin Users \cup {ZeroAddress, StETHAddress, Stone, Queue,
                                  Burner, VaultHub}

VARIABLES
    wrapped,            \* balanceOf
    wrappedSupply       \* totalSupply

wrapVars == <<wrapped, wrappedSupply>>
allVars == <<vars, wrapVars>>

\* Altered form of getWstETHByStETH: rounded for the holder.
WstETHRoundedUp(amount) == SharesRoundedUp(amount, ShareRate)

getWstETHByStETH(amount) == getSharesByPooledEth(amount, ShareRate)

\* Altered form of getStETHByWstETH: divided before multiplied.
StETHByWholeRate(amount) == amount * (InternalEther \div InternalShares)

getStETHByWstETH(amount) == getPooledEthByShares(amount, ShareRate)

\* ERC20's _mint, _burn and transfer
MintWrapped(u, amount) ==
    /\ wrapped' = [wrapped EXCEPT ![u] = @ + amount]
    /\ wrappedSupply' = wrappedSupply + amount

BurnWrapped(u, amount) ==
    /\ amount <= wrapped[u]
    /\ amount <= wrappedSupply
    /\ wrapped' = [wrapped EXCEPT ![u] = @ - amount]
    /\ wrappedSupply' = wrappedSupply - amount

MoveWrapped(from, to, amount) ==
    /\ to # ZeroAddress
    /\ amount <= wrapped[from]
    /\ wrapped' = [[wrapped EXCEPT ![from] = @ - amount] EXCEPT ![to] = @ + amount]
    /\ UNCHANGED <<vars, wrappedSupply>>

Wrap(u, amount) ==
    /\ amount # 0
    /\ CanBuyShares(amount, ShareRate)
    /\ MintWrapped(u, getWstETHByStETH(amount))
    /\ TransferFrom(Wrapper, u, Wrapper, amount)

Unwrap(u, amount) ==
    /\ amount # 0
    /\ CanPrice(amount, ShareRate)
    /\ BurnWrapped(u, amount)
    /\ Transfer(Wrapper, u, getStETHByWstETH(amount))

\* receive: the stake is the wrapper's, its shares are the holder's.
Receive(u, value) ==
    /\ Submit(Wrapper, value)
    /\ MintWrapped(u, getSharesByPooledEth(value, ShareRate))

WrapperStep ==
    \E u \in Users :
       \/ \E value \in EtherAmounts : Receive(u, value)
       \/ \E amount \in TransferAmounts : Wrap(u, amount)
       \/ \E amount \in 1..wrapped[u] :
             \/ Unwrap(u, amount)
             \/ \E to \in Users : MoveWrapped(u, to, amount)

WrapInit ==
    /\ Init
    /\ wrapped = [a \in Accounts |-> 0]
    /\ wrappedSupply = 0

WrapNext == (Next /\ UNCHANGED wrapVars) \/ WrapperStep

WrapSpec == WrapInit /\ [][WrapNext]_allVars

-----------------------------------------------------------------------------
\* Properties.

\* What the wrapper holds beyond its supply.
Surplus == shares[Wrapper] - wrappedSupply

\* The shares of the wrapper cover its supply, at whatever rates it was
\* wrapped and unwrapped: the last holder to unwrap gets as much as the first.
WrapperBacked == Surplus >= 0

\* An unwrap prices shares in ether and the ether in shares again, rounding
\* down twice.  What the holder loses to the wrapper is never negative, and
\* worth less than a share and a wei.
UnwrapLosesDust ==
    [][wrappedSupply' < wrappedSupply =>
         /\ Surplus' >= Surplus
         /\ (Surplus' - Surplus) * InternalEther < InternalShares + InternalEther]_allVars
=============================================================================
