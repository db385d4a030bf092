--------------------------- MODULE PausableUntil ---------------------------
(***************************************************************************)
(* The pause switch of the withdrawal queue (utils/PausableUntil.sol): one *)
(* storage slot, the first second at which the contract is running again. *)
(* The functions are internal; the contract that inherits them adds roles  *)
(* and decides which of its own entry points a pause blocks.               *)
(***************************************************************************)
EXTENDS Naturals

CONSTANTS
    UintMax,    \* type(uint256).max: the largest value of a storage slot
    MaxTime     \* bound of the model: the last block timestamp explored

ASSUME TimeAssumption ==
    /\ UintMax \in Nat
    /\ MaxTime \in Nat
    /\ MaxTime < UintMax

VARIABLES
    now,            \* block.timestamp
    resumeSince     \* RESUME_SINCE_TIMESTAMP_POSITION

pauseVars == <<now, resumeSince>>

PAUSE_INFINITELY == UintMax

IsPaused == now < resumeSince

PauseTypeOK ==
    /\ now \in 0..MaxTime
    /\ resumeSince \in 0..UintMax

\* _resume: only a paused contract can be resumed.
DoResume ==
    /\ IsPaused
    /\ resumeSince' = now

\* _pauseFor: a running contract, a positive duration, checked addition.
DoPauseFor(duration) ==
    /\ ~IsPaused
    /\ duration # 0
    /\ \/ duration = PAUSE_INFINITELY /\ resumeSince' = PAUSE_INFINITELY
       \/ /\ duration # PAUSE_INFINITELY
          /\ now + duration <= UintMax
          /\ resumeSince' = now + duration

\* Altered form of DoPauseUntil: an infinite pause is not told apart.
DoPauseUntilOverflow(lastPausedSecond) ==
    /\ ~IsPaused
    /\ lastPausedSecond >= now
    /\ resumeSince' = lastPausedSecond + 1

\* _pauseUntil: the contract stays paused through lastPausedSecond.
DoPauseUntil(lastPausedSecond) ==
    /\ ~IsPaused
    /\ lastPausedSecond >= now
    /\ \/ lastPausedSecond = PAUSE_INFINITELY /\ resumeSince' = PAUSE_INFINITELY
       \/ /\ lastPausedSecond # PAUSE_INFINITELY
          /\ resumeSince' = lastPausedSecond + 1

\* The next block (external: the chain's clock).
DoTick ==
    /\ now < MaxTime
    /\ now' = now + 1
=============================================================================
