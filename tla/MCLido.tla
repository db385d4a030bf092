------------------------------ MODULE MCLido ------------------------------
(* The instances of Lido that TLC explores.                                *)
EXTENDS Lido, TLC

CONSTANTS Alice, Bob, Zero, Token, Dead, QueueAddress, BurnerAddress, Hub

MCAccounts == {Alice, Bob, Zero, Token, Dead, QueueAddress, BurnerAddress, Hub}

\* A reward of one, a penalty of one, or neither.
MCDeltas == {-1, 0, 1}
=============================================================================
