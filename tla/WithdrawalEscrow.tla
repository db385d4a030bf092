-------------------------- MODULE WithdrawalEscrow --------------------------
(***************************************************************************)
(* What the withdrawal queue promises its users, without cumulative sums,  *)
(* checkpoints or hints.  A request waits at its nominal worth.  A         *)
(* finalization covers a prefix of the waiting requests, may lower the     *)
(* worth of each and puts ether in escrow.  From then on the worth of a    *)
(* request never changes, and it is paid out of the escrow once.           *)
(***************************************************************************)
EXTENDS Naturals

VARIABLES
    count,      \* requests made so far
    status,     \* 1..count -> "pending", "finalized" or "claimed"
    worth,      \* 1..count -> ether a request will be, or was, paid
    escrow      \* ether locked for finalized requests

vars == <<count, status, worth, escrow>>

Init ==
    /\ count = 0
    /\ status = [i \in 1..0 |-> "pending"]
    /\ worth = [i \in 1..0 |-> 0]
    /\ escrow = 0

Request ==
    /\ count' = count + 1
    /\ status' = [i \in 1..(count + 1) |-> IF i = count + 1 THEN "pending" ELSE status[i]]
    /\ worth' \in [1..(count + 1) -> Nat]
    /\ \A i \in 1..count : worth'[i] = worth[i]
    /\ UNCHANGED escrow

\* Requests are finalized in the order they were made, each at no more than
\* its nominal worth.
Finalize ==
    \E last \in 1..count :
        /\ status[last] = "pending"
        /\ status' = [i \in 1..count |->
                        IF i <= last /\ status[i] = "pending" THEN "finalized" ELSE status[i]]
        /\ worth' \in [1..count -> Nat]
        /\ \A i \in 1..count :
             IF status'[i] # status[i] THEN worth'[i] <= worth[i] ELSE worth'[i] = worth[i]
        /\ escrow' \in Nat
        /\ escrow' > escrow
        /\ UNCHANGED count

Claim ==
    \E id \in 1..count :
        /\ status[id] = "finalized"
        /\ status' = [status EXCEPT ![id] = "claimed"]
        /\ worth[id] <= escrow
        /\ escrow' = escrow - worth[id]
        /\ UNCHANGED <<count, worth>>

Next == Request \/ Finalize \/ Claim

Spec == Init /\ [][Next]_vars
=============================================================================
