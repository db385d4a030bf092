# TLA+ models of the proof closure's evidence and of the contracts it pins

The repository is a Lean proof closure for Lido's Staking Router v3: eleven guarantees about *single calls*
of the contracts, the pinned Solidity sources they are about, and the Python scripts that collect the evidence for
all of it. Two things are left open by theorems about one call, and are what this directory covers:

- the **evidence**: scripts that look at a working tree, query compiled modules and leave files for later scripts,
  with nothing that keeps the tree still, no locks and no atomic writes; and the readers of Lean and Markdown
  texts that guard the sources and the reports;
- **sequences** of calls of the contracts by several actors: the withdrawal queue, Lido with stETH and its
  staking limit, the staking router with its allocation.

Both are modelled as the code stands, checked with TLC on small instances, and the most important properties are proved with
TLAPS for every value of the constants.

All paths below are relative to `src/`; `queue/` stands for `audit/address-steth-quote-call/solidity/queue/src/core/`,
`lido/` for `audit/address-steth-quote-call/solidity/lido/src/contracts/0.4.24/` and `router/` for
`audit/deposit-dsm-call/solidity/src/contracts/`.

## 1. Inventory

### Components, their state and their operations

| Component | State it keeps | Operations | Modelled by |
|---|---|---|---|
| Dossier evidence scripts: `audit/<dossier>/validate.py`, `write_receipt.py`, `check_receipt.py`, `seal.py`, `build.py`, `check-*.py`, `solidity/run.py`, `solidity/check.py`, `integration/*.py` | the files of the dossier: hashes of sources, axioms, identities of builds and compilers, logs, receipts | compare with pins, look for words, ask for axioms, compile, run tests, write or compare files, seal | `EvidenceScripts` (how they run), `EvidenceDossiers` (what they are) |
| Readers of Lean sources: `scripts/check_proof_escapes.py`, `check_public_claim_surfaces.py`, `check_report_theorem_inventory.py` | position, depth of comments, string or name | blank comments and strings | `LeanScanners`, on every text `TextReaders` |
| Reader of Markdown tables: `scripts/gfm_table.py` | fence, HTML block, paragraph, table; one attempt per paragraph | literal lines, tables | `GfmTables`, on every text `TextReaders` |
| Withdrawal queue: `queue/WithdrawalQueueBase.sol`, `queue/WithdrawalQueue.sol` | requests with cumulative stETH and shares, last and last finalized id, rate checkpoints, locked ether, owners' sets, bunker mode, time of the last report | request (stETH, wstETH), claim with and without a hint, find hints, prefinalize, finalize, calculate batches (view, several calls), oracle report, pause and resume | `WithdrawalQueue`, `WithdrawalQueueOracle`, abstractly `WithdrawalEscrow` |
| Timed pauses: `queue/utils/PausableUntil.sol` | the moment until which the contract is paused | pause for, pause until, resume, passage of time | `PausableUntil` |
| Lido: `lido/Lido.sol` | buffered ether, three slots of deposits and consensus-layer balance, deposits reserve and its target, external shares and their ratio, `active`, staking limit | stake, withdraw for deposits, the three calls of a report, bad debt, mint, burn and rebalance external shares, pause, limits, reserve target, upgrade to v4 | `Lido` |
| stETH token: `lido/StETH.sol`, `lido/StETHPermit.sol` | shares, total shares, allowances | transfers in ether and in shares, allowances, mint, burn | `StETH` (composed by `Lido`) |
| Staking limit: `lido/lib/StakeLimitUtils.sol` | last block, last limit, maximum, blocks of growth, all in one slot | update, decrease, increase, configure, remove, pause, resume | `StakeLimit`, abstractly `TokenBucket` |
| Staking router: `router/0.8.25/sr/*.sol` | modules with their configuration, deposits, exits and balances; total balance; credentials; top-up cap | deposit, top up, add and update modules, shares, fees, status, credentials, exit reports in two phases and by hand, balance reports, upgrade | `StakingRouter` |
| MinFirst allocation: `router/common/lib/MinFirstAllocationStrategy.sol` | none | allocate | `MinFirstAllocationStrategy` |
| Beacon chain depositor: `router/0.8.25/lib/BeaconChainDepositor.sol` | none | deposit, top up | inside `StakingRouter` (what is pulled is sent); bytes and roots not modelled |
| Wrapped stETH: `audit/address-wrapped-token-call/.../WstETH.sol` | balances and supply in shares; holds stETH as an account of Lido | wrap, unwrap, stake and wrap, transfer | `WstETH` (composed with `Lido`) |
| Withdrawal vault requests: `audit/consolidation-gateway-call/.../WithdrawalVaultEIP7685.sol` | none of its own | withdrawal and consolidation requests with a fee | not modelled (section 7) |
| Locator, proxies: `audit/account-accounting-call/.../LidoLocator.sol`, `.../proxy/OssifiableProxy.sol` | admin and implementation | upgrade, change admin, ossify | not modelled (section 7) |
| Lean models and proofs, executable contract models: `LidoSRv3/` | none between calls | pure functions and theorems | not modelled: Lean checks them |
| Metadata and report generators: `scripts/audit_metadata.py`, `generate_ux2.py`, `source_spans.py` | none between runs | batch checks of the registry and its wordings | not modelled |
| Other gates: `scripts/check_trust_axioms.py`, `check_verity_provenance.py`, `check_import_dag.py`, `check_python_quality.py`, `check_diagram_taxonomy.py` | none between runs | compare a parsed tree with allowlists | not modelled; the axioms are a step of the evidence scripts |
| Drivers: `scripts/*.sh`, `audit/trio/`, `run-diagnostics.py`, vector generators | none that a script reads again | run compilers, harnesses, native tests | not modelled |
| Harnesses, vectors, reports, registry: `audit/*/solidity/test`, `report/`, `audit/*.yaml` | none | tests and documents | not modelled |

These contracts are used by the pinned code, but their source is **not** in the repository: Accounting, the sanity checker, AccountingOracle
and HashConsensus, DepositSecurityModule, the top-up and consolidation gateways, the node operators
registries, Burner, VaultHub, and `WithdrawalQueueERC721.finalize`. They are the environment of the models
(section 4).

### How they interact

The scripts of a dossier never call each other. They share the tree and the files of the dossier:

    developer ── edits, lake build ──►  tree: packages, old and new modules, compiled modules, pinned contracts
                                          │ compared with pins, hashed, asked for axioms
        build.py ── validate.py ── run.py / check.py ── check-evidence.py
              │         │ source-inputs, axioms, runtime, identities, logs, snapshots
              ▼         ▼
        files of the dossier ──► write_receipt.py, seal.py ──► receipt ──► check_receipt.py, readonly-validator.py
                                                                           (compare only, write nothing)

A developer starts them by hand, in an order that the README of the dossier suggests and nothing enforces; a script stops at its first
failed assertion and what it wrote before stays. A dossier's sources are then what the gates in `scripts/` read, each
through a scanner of its own. The contracts interact by calls:

    holders ── wrap, unwrap, stake ──► WstETH ── submit, transfer(From) ──► Lido
    holders ── submit, transfer ──► Lido(StETH, StakeLimit) ◄── mint / burn / rebalance ── VaultHub
                                     ▲      │  ▲                   
        collectRewardsAndProcess…    │      │  └── unfinalizedStETH, bunker mode ── WithdrawalQueue
    Accounting ──────────────────────┘      │ withdrawDepositableEther                   ▲
        │  prefinalize / onOracleReport     ▼                                            │ request, claim
        └──────────────────────────► StakingRouter ── MinFirst ──► modules             holders
               exits, balances, fees        ▲
                                            └── DepositSecurityModule, TopUpGateway

Lido asks the queue for unfinalized stETH and for bunker mode before it lets the router have ether; the router
pulls that ether from Lido and sends it on; Accounting drives both sides of a report. Calls are synchronous
and atomic (an exception undoes a transaction), so the interleavings are those of *transactions*: what one
actor computed before (batches off chain, hints, a share rate, a quote of the allocation, module-signed keys) is used
by a later transaction after others have run.

### Behaviours that are hard, and what makes each component correct

- **Evidence scripts.** A run may fail or be killed between two files, or in the middle of one; files of an earlier run, of another
  tree, or cut off are found by the next; some scripts write only what is missing; the tree may change during a run and between
  runs. Correct: a script that passed leaves files that say what is there, and what an earlier run left neither is
  taken for evidence nor keeps a writing run from passing, unless it is the only copy of something.
- **Text readers.** Comments nest, strings escape, and comment marks inside strings, names and literals are text; a Markdown table depends on the
  lines before it. Correct: readers that guard the same text agree on what is code, and a row that one gate trusts is one
  that the others see.
- **Queue.** Prices are differences of cumulative sums, rounded per batch when ether is locked and per request
  when it is claimed; a claimer chooses the checkpoint with a hint; batches are computed over several view calls
  and finalized later. Correct: every finalized request has exactly one rate, of its own finalization; no
  finalization disturbs an earlier one; locked ether covers claims; what the view proposes is accepted.
- **Lido.** Reports may be missed or late, deposits fall between reference slot and report, and the reserve's
  target moves mid-frame; the buffer is booked apart from the ether moved; the upgrade can meet deposits in flight.
  Correct: each deposit is counted once, ether kept for withdrawals is not deposited, the rate never
  falls outside a report, booked ether is there.
- **stETH.** Amounts are rounded in two directions and transfers to oneself alias two writes. Correct: shares add
  up, and leave a holder only with consent.
- **Wrapped stETH.** It mints what it computes and receives what Lido computes; pays a price of a price, at a rate that has moved since; burns what it
  is told. Correct: what it holds covers what it issued, so that no holder is left to pay for another's rounding.
- **Staking limit.** State is brought up to date lazily, at the next use. Correct: it behaves like a token bucket filled by block.
- **Router.** Exits are counted twice (router, module), in two phases and corrected by hand; shares, fees and totals
  are stored redundantly; a hook may fail while credentials change; early returns come after the deposit state was
  saved. Correct: the active count is defined, allocation is min-first within capacities, one deposit per
  module and block, sums and fees consistent, keys signed for old credentials never deposited.

`PROJECT.json` lists the hazards one by one, at the line where each bites, with the properties that would
catch it.

## 2. Modules

| Module | Role |
|---|---|
| `EvidenceScripts` | the machine that runs a script: one action per kind of step (`Look`, `Review`, `RecordFile`, `CompileModules`, `RunForge`), `Crash`, and the developer's `Begin`, `Edit`, `Build` |
| `EvidenceDossiers` | the scripts under `audit/`, each as the sequence of its steps; parts that scripts share are operators |
| `MCEvidence` | the dossiers for TLC, each with its scripts and the files that are committed with it |
| `EvidenceProofs` | the inductive invariant, `PassIsAccepted` and `AcceptedRunNeverFails`, for any dossiers |
| `LeanScanners` | three scanners of Lean text, a step per character or token, and the whole scan as a function |
| `GfmTables` | the literal lines of a Markdown text and the tables in it, line by line |
| `TextReaders` | extends both: a text is written fragment by fragment, over any alphabet, and the readers are compared on what is there |
| `MCTextReaders`, `TextReadersProofs` | alphabets for TLC; the properties of the readers for texts of any length |
| `PausableUntil` | timed pauses: `PauseFor`, `PauseUntil`, `Resume`, `Tick` |
| `WithdrawalEscrow` | abstract specification: requests of an amount and shares are recorded, finalized in order at a rate and ether, claimed once by the owner |
| `WithdrawalQueue` | the contract's storage and every call that writes it; `Escrow == INSTANCE WithdrawalEscrow` is the refinement |
| `WithdrawalQueueOracle` | `calculateFinalizationBatches` call by call, the oracle that reports its result (`OracleSpec`), and one that reports any batches the contract accepts and prices in range (`FreeSpec`) |
| `MCWithdrawalQueue`, `MCWithdrawalQueueOracle` | instances for TLC |
| `WithdrawalQueueProofs` | inductive invariants; storage, refinement, hints, solvency, and the view with its callers |
| `Sums` | lemmas that the proofs share: least elements, loops, sums of a function over a finite set |
| `TokenBucket` | abstract specification of the staking limit: a level that grows each block up to a maximum |
| `StakeLimit` | the packed slot with its lazy update; `Bucket == INSTANCE TokenBucket WITH …` |
| `StETH` | shares, allowances, prices; extended by `Lido`, which supplies ether and rate |
| `Lido` | extends both; one action per external call, an action per call of the report |
| `WstETH` | the wrapper, composed with `Lido`: its calls are stakes and transfers of Lido by an account of its own |
| `MCLido`, `MCLidoMatters`, `LidoProofs`, `WstETHProofs` | instances and proofs |
| `MinFirstAllocationStrategy` | the algorithm as recursive *functions*, and the reference `UnitByUnit` that gives one unit at a time |
| `MinFirstProofs` | the two are equal, and what they return is within bounds |
| `StakingRouter` | registry, allocation, deposits, reports, fees, credentials, upgrade |
| `MCStakingRouter`, `StakingRouterProofs` | instances and proofs |

An action has the name of the call it models, its guard is the conjunction of the call's reverts, and it
changes everything the call changes. Alternates such as `SeeOnce` or
`SpendNothing` stand just before the definition they vary: they are small faults used to confirm that a property depends on the line it is about,
and no specification uses them.

Correspondence of the state:

- *Evidence.* `tree` gives each artefact (packages, old modules, compiled modules, pinned contracts, …) a version: 0 is the one that is pinned or accepted;
  of the new modules, another version may be as good, have a forbidden word or axiom, or no longer say what the theorem it extends said (`Dropping`).
  What Foundry compiled of the tests (`compiled`) is in no checkout: it starts as `Missing` or there. `files` gives each file of the dossier
  the rows it consists of: which artefact, or which other file, at which version. A hash is such a row. `Absent` and `Torn` are
  a file that is not there and one that was cut off. `pc` is the place in the script, `seen` what its variables hold of the tree,
  `steady` whether anybody else touched the tree since it started (history). A script is a sequence of steps; a step is an assertion on the tree
  (`Match`, `Words`, `Foundations`, `Carried`), a read (`Read`; `Adopt` of what Foundry compiled or else of the dossier's snapshot of it), an assertion on a file (`Held`, `Sound`, `Passed`, `Load`,
  `Same`), or a write (`Record`, `Keep`, `Forge`, `Compile`). Validators with `--write` and the comparing ones that replay them with writes turned
  into comparisons have both modes or only the second one.
- *Text readers.* A Lean text is a sequence of characters, one letter standing for all; a Markdown line is the record of the
  patterns of `gfm_table.py` that it matches, with the number of cells it splits into.
- *Queue.* `queue` is `_getQueue()` with its dummy entry 0; `checkpoints` the checkpoint map, whose index is
  `lastCheckpointIndex`; `requestsByOwner` the owners' sets; `lockedEtherAmount`, `lastRequestId`,
  `lastFinalizedRequestId`, `lastReportTimestamp`, `bunkerModeSinceTimestamp` the slots of these names. `heldShares` is the queue's balance of stETH
  shares. `ClaimWithdrawal` picks its hint with `FindCheckpointHint`; `ClaimWithdrawals` takes any hint from the caller.
- *Lido.* The two counters that v4 packs in one slot are the variables `depositedPostReport` (deposits since the
  last report) and `depositedNextReport` with the frame it belongs to. `balance` is the contract's ether; `deposited` and `settled` are history variables for `DepositsCountedOnce`.
- *Wrapped stETH.* `wrapped` and `wrappedSupply` are `balanceOf` and `totalSupply`; the shares it holds are Lido's `shares[Wrapper]`.
- *Router.* `config`, `deposits` and `accounting` are the three storage structs of a module, by id; `summary` is
  what a module answers when asked (external), `stale` marks a module whose depositable keys were signed for
  former credentials (history).

Recursion is written as recursive functions and folds throughout, so that every module can be proved about.
Where a call updates one entry of a function twice (a transfer to oneself), the second update is an `EXCEPT` of the result of the first, in the order of
the code.

## 3. Runs

The contracts need no liveness: every call terminates in one transaction, nothing in them schedules
another, and no fairness is assumed. The evidence scripts do: a writing run must get through whatever is left of
earlier ones (`AcceptedRunPasses`). Its fairness is `WF_vars(RunStep)`: a process that runs takes its next step. Nothing is
assumed of the developer, who need not start, edit or build anything, nor of the kill, which is never forced. Instances that stop at their bounds by design say
`CHECK_DEADLOCK FALSE`; the router always has a step.

| Run | States | Question and bounds |
|---|---|---|
| `Evidence` | 1193 thousand | Is a pass worth what it says, and does an accepted run pass? Every dossier, from a checkout without evidence and with the committed one; one edit of any artefact that its scripts look at, `lake build` at any time, two runs of any scripts, each killed or failing anywhere. Two runs are the least where one finds what another left; one edit gives a stale, a torn or a half-written dossier; new modules have four versions: accepted, another good one, one with an escape and one that lost the conclusion it carries on. Foundry's output is there (of these tests or others) or missing. |
| `EvidenceSeal` | violation | see section 5 |
| `TextReaders` | 610 thousand | Do the scanners agree, and the tables? Lean texts of up to five fragments (a character, or a pair such as `/-`): enough for a nested comment, or an escape before a quote before a comment. Markdown texts of up to four lines of 17 kinds: paragraph, header, delimiter and one row, or a fence or tag around two of them; and of up to eight lines of three kinds (text, delimiter, underline): two tables one under the other, after a paragraph. |
| `TextTables` | violation | see section 5 |
| `QueueStorage` | 92 thousand | Does the storage stay consistent? Two owners (symmetric), three requests of 10 or 13 wei, of which 5 is refused as too small, two batches a finalization, any well-formed batches, rates below, at and above one, three moments. Three requests are the least with a neighbour on either side of a finalization's edge. Pauses (one moment, or forever) start only at the first moment (`EarlyPauses`): a pause meets every other call, but not repeatedly. |
| `QueueOracle` | 199 thousand | Is what the queue locks enough, and what the view proposes accepted? One owner, three requests, every batches and rate the oracle could report, three budgets (one request, less than two, plenty), every chunking. The constraint `Quiet` leaves pauses to the other run. Also the refinement of the escrow. |
| `QueueClaimDust`, `QueueBudget` | violations | see section 5 |
| `LidoMatters` | 1007 thousand | All of Lido and of the wrapper, one matter per behaviour (`MCLidoMatters`), each made of their actions with inputs of its own. *frames*: three frames with any report missed or late, requests, finalizations, three targets, an upgrade with deposits in flight; three frames let a counter go stale *twice* before a report. *rate*: stakes, external mints and burns, rebalancing, bad debt, fees and rewards, at rates above and below one. *allowances*: two holders, self-transfers, the zero address, infinite and finite allowances at uneven rates. *limit*: four blocks, two maxima, growth by nothing or 2. *wrapper*: two holders wrap, stake, pass on and unwrap up to three shares around rewards, penalties, fees and a donation. |
| `RouterDeposits` | 227 thousand | Deposits and top-ups over two blocks of an upgraded module and one of the second type: exits, pauses, keys and credentials change in between. Keys are allocated one or three at a time. `Focus` keeps the instance to the two modules and to one credentials change at a time. |
| `RouterFees` | 166 thousand | Up to three modules registered, reconfigured, stopped and given balances in any order, from a fresh router and an upgraded one. `RegistryOnly` leaves the deposits to the other run. Three modules are the least where a third disagrees with two. |
| `RouterShareLimit` | violation | see section 5 |

What the properties say:

- **Evidence.** `PassIsAccepted`: if a script passed and nobody touched the tree while it ran, then every check of it would
  pass at its end, and every file it wrote or compared says what is there. No step undoes an earlier one, no file of an
  earlier, failed or killed run is taken for what it is not, and a snapshot that was kept is one that was compared. `AcceptedRunNeverFails`: a writing run of a script that
  needs no file it does not write itself, on a tree that is as accepted and stays so, fails at no step, whatever was left before;
  the one exception, written out in `Provided`, is a dossier's snapshot of what Foundry compiled, which two scripts adopt where Foundry's output is missing (section 5);
  `AcceptedRunPasses`: it comes to its end, unless it is killed or the tree is touched.
- **Text readers.** `ScannersAgree`: the gates for escapes, for the public surface and for theorems of a report read comments and strings
  alike (on texts without the literals and names that only some of them know). `StrippingIsFinal`: their output has the lines and the length of the
  source and no comment that a second reading would find. `TrustedTablesAreSeen`: every row that a gate trusts is in a table
  that the gate which refuses stray rows sees (its header may be further up, its last row is the same), and no line of either table
  is in a fence or an HTML block.
- **Queue.** `SumsIncrease`: neighbours' differences are amounts, prices and shares of one request. `OwnersExact`: the sets hold exactly the open requests of each owner. `SharesBacked`: the
  queue holds the shares it has yet to burn. `CheckpointsTile`: the checkpoints split the finalized requests without
  gap or overlap. `HintsCorrect`: the binary search agrees with the definition of a hint, over every range a caller may
  give. `EscrowSpec`: a request is priced at the rate it was finalized at, whatever hint is used and whatever is
  finalized later, and is paid once, to its owner. `SolventUpToDust`: locked ether covers all claims up to the batches' rounding, counted in the
  history variable `roundingDebt`. `ProposalAccepted`, `ChunkingIrrelevant`, `ClaimsWithinBudget`: the batches the view
  proposes pass `prefinalize`, do not depend on how the calls are cut, and leave their owners no more to claim than the budget.
- **Lido.** `DepositsCountedOnce`, `ReportShowsDeposits`: what a report is told of deposits is what was deposited up
  to its reference slot, whatever was missed. `BufferIsBacked`: booked ether is held ether.
  `WithdrawalsReserveKept`: between two reports deposits and governance never lower the ether that
  requests count on. `RateNeverFalls`: outside a report and
  internalized bad debt no step lowers the rate. `ExternalRatioKept`: minting never passes the configured ratio.
  `SharesAddUp`, `HoldersConsent`, `BucketSpec`: as named.
- **Wrapped stETH.** `WrapperBacked`: the wrapper's shares cover its supply, whatever the rate did between a wrap and an unwrap.
  `UnwrapLosesDust`: an unwrap takes nothing from the others and costs its holder less than the worth of a share and a wei.
- **Router.** `ActiveCountDefined`: no module's exits exceed its deposits, which would block the
  allocation of *all* modules. `AllocationIsFair`: for every reachable state the allocation equals giving one
  unit at a time to the least filled module with room. `TopUpFits`: a top-up never carries a module past what
  its active validators can hold. `DepositsPerBlockKept`: at most one deposit, of at most the configured number of keys, per module and block.
  `StaleKeysHeld`: keys signed for former credentials are not deposited while their module was put on
  hold. `FeesConsistent`, `BalancesAddUp`, `FeeIsConfigured`: all modules of the router share one fee sum, the total
  is the sum of the balances, and the fee paid is the configured one up to the counted roundings.

Every property of a passing run was also seen to fail for a plausible fault of the code it is about
(`PROJECT.json`, `mutants`).

## 4. Abstractions and the environment

- *Evidence.* A hash tells contents apart, so a row of a file is the version itself. The steps of a script are those of its code in
  their order; assertions on many paths are one step where they are about the same kind of artefact, so a run fails at a kind, not at a path.
  Tests pass at their accepted version and fail at any other; `forge test` runs those that the script has read, and no `run.py` compares its retained inputs with a pin.
  Snapshots of several contracts are one file. A killed run leaves the file it was writing as it was, or cut off. What Lean, solc, forge and git answer depends only on the tree
  (they are pinned and outside the repository). Files that no script of a dossier writes (logs that were piped, receipts made by hand)
  are there or not, as committed. Comparing validators write under `/tmp` as well, which nothing reads again.
- *Text readers.* The forms in which a scanner is called with extra masking (`mask_escaped_identifiers`) and the lengths of code fences
  are left out; a fence of another length would only keep its block open. The patterns of `gfm_table.py` are the marks of a line.
- *Arithmetic.* Solidity 0.8 arithmetic reverts on overflow: the guard requires that the result fits. Unchecked
  subtractions (Solidity 0.4.24: `InternalShares`) wrap modulo `UintMax + 1`. Divisions round as in the code.
  Widths are constants (`UintMax`, `Uint128Max`, `Uint96Max`, `Uint32Max`).
- *Batched calls* (several requests, claims or hints in one transaction) are one action per element; a call
  that fails in the middle would undo all of them, so each prefix that the model shows is also reachable by shorter calls.
- *Queue.* The rate and the batches are those that the oracle reports; `finalize` is guarded by "not paused" as the ERC721 subclass does (no
  source: external). Report times grow. A permit is an approval, so a request with a permit is a request.
- *Lido.* Accounting may make the calls of a report in any combination and with any values that Lido accepts, except
  that it reports each frame's consensus-layer update at most once; Burner holds the shares it is told to burn.
- *Router.* Amounts are in units of one minimal deposit; `MaxEBType1` is also the size of an initial deposit, as 32 ether is
  in the code. A module may change its depositable keys, deposited and exited counts as the router lets
  it (`ModuleChangesKeys`, `ModuleChangesStake`), its hook may fail at the change of credentials, and it answers with no more keys than asked.
  The distance in blocks that DepositSecurityModule keeps is the guard `DistanceKept`. The storage an upgrade
  finds has consistent fee sums, and its last deposit block counts as 0. Calls handed through to modules that change nothing in the router,
  roles, names, `lastDepositAt` and the exit share threshold are left out.

## 5. Where code and comments disagree

Five runs end in a counterexample to a sentence of the source; each is an entry under `findings`.

1. **`QueueClaimDust`** — `WithdrawalQueueBase.sol:473-475` says rounding dust *accumulates*, that is, locked ether is
   never less than the claims. Two requests of one report, one above the maximal rate and one
   not, share a batch; its price is rounded down once, at the maximal rate, while the second is paid in full. The claims
   can come to one wei more, and the last claim waits for another finalization. At the real scale (`1e27`): with a pool
   of 9756454378974918949372157 wei and 7657932506428134350602237 shares, requests of 974995770417313134845 wei (765283320547147584958
   shares) and 156574640 wei (122896902 shares) and a maximal rate of 1274032432485565432488920166, the batch locks
   974995770417469709483 wei, and the claims are 974995770417469709484. `SolventUpToDust` says how far this can go.
2. **`QueueBudget`** — lines 192-193 say the view finds what can be finalized *within the given budget*, and 258-261 that rates in
   one report differ by 1-2 wei. A request of 5 gets 3 shares at a rate of 1.3 and is worth 1.67 a share by itself; at a maximal rate
   of 1.6 it is discounted and a request of 12 of the same report is not. They share a batch, which a discounted request of the next report (7, at 1.8)
   then joins. The view counts 12 + 4 + 4; the average rate of the batch is 1.6, so `prefinalize` locks all 24. At the real scale: requests of 1000
   ether and of 100 wei at 1.2, then one of 1000 ether at 1.2001, finalized at 1.20005: the view spends 1999958336805266227912 wei, and 2000000000000000000100 are locked,
   0.04 ether more. What the owners can claim is within the budget (`ClaimsWithinBudget`), so the difference stays with the queue.
3. **`TextTables`** — `scripts/gfm_table.py:4-6` says the reader declines what it does not support rather than inventing a table, and
   389-391 that with `interrupting=False` a header that does not begin its own block is declined. In the lines

       x
       a|b
       --|--
       ===
       c|d
       --|--
       e|f

   the table of `a|b` interrupts the paragraph, and all that follows are its rows: this is what `interrupting=True` returns. The other
   reading declines that table, takes `===` for the underline that closes the paragraph (278, 421), although it does not end a table (197-217), and
   returns `c|d` as a header. What it trusts is still a row of a table that the other one sees (`TrustedTablesAreSeen`), but not of that table.
4. **`RouterShareLimit`** — `SRTypes.sol:50` calls `stakeShareLimit` the maximum share of a module; `SRLib.sol:506-552`
   takes it of the stake there *would be* if all depositable ether were allocated. When the other
   modules cannot take theirs, a module limited to a half ends with two validators of three.
5. **`EvidenceSeal`** — `audit/topup-root-call-batch/README.md:40` says that after successful checks `write_receipt.py` seals *their* exact hashes.
   The script loads `source-inputs.json`, the axioms and the build log (10-15), but hashes the modules as they are when it runs (22, 40): an
   edit after the validator is sealed beside axioms of the modules before it. Of the sibling dossiers,
   `topup-root-physical-effects` and `account-checked-fee-split` compare (`Held("source-inputs")`).

Smaller ones that no run is spent on: `address-steth-transfer-from-call/check-evidence.py:47-57` and `address-steth-transfer-call/check-evidence.py:43-53` take their own
snapshot for Foundry's output where that is missing, as in a checkout, and write it again in place: a run killed there leaves the only copy cut off, and every later one stops at `json.loads` until Foundry
or git brings it back (no text promises otherwise, so it is a condition of `AcceptedRunNeverFails` and no finding); `WithdrawalQueueBase.sol:212-213` tells the oracle to call the view until `finished`, but a call that stops at its request limit
with the budget spent exactly returns an unfinished state (283), which the next call refuses (221); its batches are those of a finished one (`ChunkingIrrelevant`); `StETH.sol:340` overlooks a rate of exactly one half; `StakeLimitUtils.sol:44` claims
`prevStakeLimit <= maxStakeLimit`, which an external burn breaks until the next update; `Lido.sol:1305` says internal shares are never 0, which takes a ratio limit far above those in
use, external shares withdrawn and burnt as internal ones, and a reward and internalized bad debt in one history to break; the growth per block is
rounded through a number of blocks, so a limit of 3 growing by 2 grows by 3 (`StakeLimitUtils.sol:101-103, 160-161` against `Lido.sol:390`);
`StETH.sol:45-50` says approvals need a running protocol, `_approve` (443) does not; the example at
`MinFirstAllocationStrategy.sol:22` shows (15, 15, 1) where the rounding up gives (16, 15); `StakingRouter.sol:655` says
the capacity of an inactive module is 0, the code (`SRLib.sol:540`) takes its present allocation; `maxTopUpPerBlockGwei` caps one call, and one call a block is left to the gateway.

## 6. Proofs

All theorems assume only what the named `ASSUME`s of the modules say of the constants: natural numbers, amounts above
zero, distinct special addresses, finitely many accounts, alphabets of characters or lines. These say more:

- `PrecisionAssumption` (queue): the largest request is worth no more shares than the precision has parts, that is, a share is worth
  more than a millionth of a wei (1000 ether against `1e27`). Without it a request's own rate could round to a value that says nothing about it.
- `PriceAssumption` (queue): the shares of the smallest request at one rate are worth at least a wei at any other, that is, 100 wei stay
  worth one. Without it a request could be free, and a call with no budget left could still take it.
- `HolderAssumption` (Lido): Burner and VaultHub are not among the holders; they burn what is theirs.
- `OrderAssumption` (evidence), about the scripts and not about their runs: a script writes about what it has looked at, and what it has looked
  at, demanded or written it does not overwrite later, but for a snapshot that it adopts. Only `Adopt` looks at Foundry's own output.
- `DemandsAssumption`, `VersionsAssumption` (evidence): the pinned version of an artefact has nothing forbidden, drops nothing and is there, and a script that can write and needs no
  file of others (but to adopt it) demands no version of the new modules, leaves no file empty, and compares a file with what it wrote there.

TLC evaluates them for the instances, those about scripts for every script of `EvidenceDossiers`. The proofs follow one pattern: an invariant strong enough to be inductive, a lemma per action, a
theorem by PTL.

**Induction without induction theorems.** Recursive functions, folds and sums need induction over data, which the
library offers for an operator parameter only. `Sums` does without: a set of naturals that is not empty has a least element
(`LeastNat`, from the library's theorem about well-founded orders), so if the numbers for which a claim fails are a *set*, there is a least
one, and the step leads from its predecessor to a contradiction. `LoopExists` shows this way that a recursively defined function exists, so that
`CHOOSE` finds one, and `LoopKeeps` that what an iteration keeps the whole loop keeps. The sum over a set is unfolded
by one element (`SumRemove`), by parts (`SumUnion`), and telescoped (`SumTelescopes`). These are what the proofs about the binary search,
the loops of the view, the daemon's calls, MinFirst, fees and shares rest on.

**`EvidenceProofs`.** `PassIsAcceptedAlways`: for any dossiers, any number and length of scripts, any versions, edits and runs. `IInv` = `Typing`, `RowsKnown`, `SeenNow`, `TakenHold`. `PassIsAccepted` itself says
nothing until the end; `TakenHold` says it of the steps taken so far, `SeenNow` that what the script remembers is still so, without which a file
written from memory would not be about the tree, and `RowsKnown` that a file has rows only about what its writers name, without which a receipt that was
found to hold could have a row about a file that a later step writes. Each action keeps the earlier steps' findings because it writes nothing that
they are about (`OrderAssumption`). `AcceptedNeverFails` uses the same invariant: a file that such a script demands was left by an earlier step of the same
run (`FileIsOwn`), and by `TakenHold` it still says what is there, so every step finds what it asks for (`AcceptedStepPasses`). A snapshot that is adopted is the exception: it was left by an earlier run, and is whole only because `Acceptable` says so
(`Provided`); the failing step left it as it was, so what is known of it after the step was so before. Of `AcceptedRunPasses` only
that a step is always possible and that fairness takes it is left to TLC.

**`TextReadersProofs`.** Texts of any length, over any alphabets; the type of a text is the only invariant over the writing of it, and the work is about one
text. A scan is a loop (`Sums`), and a lemma for each mode of each scanner says what one step does. Of the Lean scanners, in three stages:

- `Scanned`: where a scan is, what it has written is as long as what it has read, its mode is one its scanner has (`Fits`), and
  each character it wrote is the source's or a blank (`Reads`).
- `Final`: a second scan, of any text that begins with what the first one wrote, has come as far. It must be *any* text, because a step reads a character ahead, and what the first
  scan will write there is not yet known; that a copied character opens no comment once its neighbour is blanked is `OpensStill`.
  At the end that text is the output itself: `StrippingIsAlwaysFinal`.
- `Followed` for the report's inventory, `Paired` for the gate against escapes, which is compared on the source and on what the surface gate keeps of it. The
  inventory takes a whole string in one step, up to the first quote that is not escaped (`EscapedExists`, `StringEnds`), while the surface gate goes on character by
  character: `Followed` says where the one is within the string that the other takes. Together: `ScannersAlwaysAgree`.

The tables: what either reading finds has a header over a delimiter and ends before the first line that breaks it, and what the
trusting one finds begins its paragraph (`TablesAreTables`). `Seen` is kept by each round of the refusing one: a header above the present line that begins a paragraph lies in a table it has found
(`RoundSees`), either as its header or further down, and then both end at the same line (`TableEndsOnce`). No line of a table is literal, because its
header is not and what opens a fence or a block ends it (`TablesShow`). Together: `AlwaysTrustedTablesAreSeen`. An attempt to prove that the trusted table
*itself* is seen failed, and TLC found the text of section 5.

**`WithdrawalQueueProofs`.** `QueueInv` = `TypeOK`, `SumsIncrease`, `TimesIncrease`, `CheckpointsTile`, `OwnersExact`,
`ClaimedIsFinalized`, `HintExists`. `CheckpointsTile` alone is not inductive: that a claim or a finalization leaves it
alone needs the types and the order of ids, and that a claim pays from one rate needs that a hint exists and is unique.
Theorems: `TypeCorrect`, `StorageConsistent`, `CheckpointsAlwaysTile`, `OwnersAlwaysExact`, and `ImplementsEscrow` (`Spec => EscrowSpec`): a new request extends the escrow by one, a finalization prices exactly
the ids between the two finalized ids (a hint valid before stays valid and keeps its rate), and a claim pays what
the escrow recorded.

`HintsAlwaysCorrect`: each round of the binary search keeps the hint within its bounds, if it was there, and brings them closer by one at least, so it ends, at the
hint or at the end of the range nearest to it; the search is a recursive function of the two bounds, and the induction is over their distance.
`AlwaysBacked`: what the batches burn telescopes (`BurnTelescopes`) to the shares of the requests between the two finalized ids.

*Solvency.* `DustInv` = `QueueInv`, `SharesSound` (there are at most `MaxRequests` requests, none has more shares than the precision has parts, and each is worth a wei at any rate),
`SolventUpToDust`. What is owed is the sum of the prices at the hints (`OwedIsWorth`, `PricesAreByHint`), so a claim takes from both sides the same. A finalization adds the prices of
its requests, batch by batch. A batch above the maximal rate locks the rounded product of its shares; each of its requests gets the rounded product of
its own, which is no more together, or, if its own rate is not above, its stETH, which is at most one wei more than that product (`PriceRounded`,
which needs the bound on its shares, hence `PrecisionAssumption`): the wei that `roundingDebt` counts. A batch below locks the nominal sum. `AlwaysSolvent` says it for
any batches, `OracleSolvent` for those of the view.

*The view.* `Loops` are the states its loop goes through: batches that grow, of requests that wait, and the next request after the last of them. `HandleKeeps` says that
an iteration keeps that, `LoopRuns` that `HandleRequests` is such a loop. `ProposalsAlwaysAccepted`: such batches pass `prefinalize`, and no batch costs more than its stETH.
`ChunksAlwaysAgree`: the calls are compared with the loop of one call over the whole queue (`IsWhole`). A call that starts where that loop is
does what it does, up to the call's end (`CallResumes`), so the calls are always at some place of it (`At`), or have ended like it. A call with no budget left is
refused; the whole loop stops there too, because no request is free (`StuckStays`, by `PriceAssumption`). `ClaimsAlwaysFit`: what that loop has spent is the sum of the prices of what it has handled
(`WholeFits`).

**`LidoProofs`.** `LidoInv` = staking slot, token, outside (history), frame, buffer and reserve parts. The frame part says
which frame the second counter belongs to and bounds it by the first: without it a report after a
missed frame could subtract deposits that were never in it. The reserve part says that the stored reserve was set by a
report or lowered since. From it: `TypeCorrect`, `CountedOnce`, `ReportShows`, `Backed`, `StopPauses`, and the action properties
`Renewed`, `ReserveKept`, `RatioKept`, `RateKept` (the last rests on lemmas about products of rounded quotients). `AddUp` (`SharesAddUp`): every change of
`shares` is a mint, a burn or a move, and `SumExcept` says what each does to the sum. `Consent` (`HoldersConsent`): the shares that leave an account without a step of its own
are worth no more than what the allowance lost.

**`WstETHProofs`.** `WrapInv` = `LidoInv`, the types of the wrapper, `WrapperBacked`. A call of the wrapper is a stake or a transfer by an account that is not among
Lido's users, so the lemmas of `LidoProofs` about groups of variables are used again for it; Lido's own steps spare the wrapper, because only users, the queue, the burner and
the hub pay. `RoundTrip` is the arithmetic of the two roundings. Theorems: `AlwaysBacked`, `LosesDust`.

`ImplementsBucket`: with `Level` (the limit computed at the present block) as the bucket's level every change is a step of
the bucket; the next block is where the lazily stored limit and the growing one are compared.

**`StakingRouterProofs`.** `RouterInv` = `RegistryType` (the types of the registry, without the totals), `AddressesDiffer`,
`FeesConsistent`, `ExitsBounded`, `BlockBegun`. `ActiveCountDefined` speaks of registered modules and is not inductive: a module is added at
an address whose counts must already be in order, so `ExitsBounded` says it of all of them. `BlockBegun` says that a
module whose last deposit block is not the present one has the deposits it began the block with; together with `AddressesDiffer`,
which keeps one module's deposit from touching another's count, it makes a second deposit in a block visible. Theorems: `AlwaysAllocates`, `NoneTwice`, `OneFeeSum`, and
the action properties `OneDepositPerBlock` and `StaleHeld`, each with a lemma that names the actions that deposit, or that make keys stale.

The amounts come second, from `RouterInv` and the lemmas about sums: `AmountsInvariant` (stakes and ether are never below zero) and with it `TypeCorrect`;
`BalancesTotal` (a report changes one balance and the total by the same difference); `FeesAddUp` (each module's share of the fee rounds three times, so the sum lacks at most
three units for each module with a balance); `TopUpsFit`; and `AlwaysFair`, which applies `MinFirstProofs` to the modules' stakes and capacities.

**`MinFirstProofs`.** `RoundsAreFair`: for any finite set of buckets, the rounds of several units end where units given one by one do. A round gives the best candidate
its share of the amount rounded up, which unit by unit would not do *in that order*, so the states in between differ and cannot be compared step by step. What they have in common
is the end: `UnitsAreFinal` says of the state that unit by unit reaches what it spread, that it is orderly (nobody got a unit while somebody with space had less), and that nothing is left to give. A round never
gives the best candidate more than it has in that state (`PartIsFair`), so every round stays on the way to it (`RoundKeeps`), and a state that is on the way and has nothing left to give
is that state (`DoneIsFinal`). `AllocationBounds` is what the router relies on.

Only model-checked, and why: `AcceptedRunPasses` is liveness (its safety half is proved). The properties `StopPauses`, `Renewed` and `NoneTwice` are only proved: they are steps of the inductive
arguments, and too close to single lines to be worth a run.

## 7. Plan

Done: evidence scripts and text readers; queue, Lido with token and limit, wrapper, router with allocation; proofs about all of them.

Not modelled, and why: `run-diagnostics.py` (17 copies: they run native tests and print), the generators of inputs and vectors, and `audit/trio/`
(one-off drivers that compare two executions) leave nothing that a later script reads; the generators and gates of
`scripts/` other than the four readers are one pass over a tree against lists of names and wordings, with no file written and no order to go wrong: a model
of them would be a copy. The Lean models are pure and checked by Lean. The order in which a developer runs the scripts of *several* dossiers is not modelled either: they
share only the tree.
Of the contracts, `WithdrawalVaultEIP7685` keeps nothing between calls (a fee is asked for and charged in one call, of a system contract outside the repository), `LidoLocator` is
immutable, and `OssifiableProxy` has one step that cannot be undone: no property of theirs takes more than one call to break. `lido/StETHPermit.sol` and the wrapper's permit are approvals by signature.

1. **Extend the model.** A module that composes Lido, queue and router: a
   report that prefinalizes, finalizes and burns, with deposits and claims of others between its parts; there
   `unfinalizedStETH` and the router's deposits are no longer any value but the other contract's. The ratchets of `check_import_dag.py` and
   `check_python_quality.py` (an allowlist that only shrinks).
2. **Prove more.** A bound on
   what `BatchesWithinBudget` may miss, by the share rates of the reports that wait.
