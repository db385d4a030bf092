--------------------------- MODULE EvidenceDossiers ---------------------------
(***************************************************************************)
(* The scripts under audit/, as the steps they take in the order they take *)
(* them.  What is in a step is abstracted to what it is about:             *)
(*                                                                         *)
(*   packages  the Lake packages, against the pins of lake-manifest.json   *)
(*   old       the repository's own sources, against the dossier's base    *)
(*   imports   what the build really consumed, against the local copies    *)
(*   new       the Lean modules of the dossier                             *)
(*   build     what was compiled of them                                   *)
(*   core      the pinned contract sources                                 *)
(*   fixtures  earlier evidence and copied inputs, against their hashes    *)
(*   forge     the outputs and inputs of the Solidity compiler             *)
(*   tests     the tests of the dossier, Solidity and Lean                 *)
(*   compiled  what Foundry compiled of the tests, if that is there        *)
(*   runtime   the C sources of the native hash functions                  *)
(*   config    the Lake files and the modules that import the new ones     *)
(***************************************************************************)
EXTENDS SequencesExt

At(op, S, f) == <<[op |-> op, on |-> S, file |-> f]>>

Match(S)     == At("match", S, "")              \* compared with what is pinned
Read(S)      == At("read", S, "")               \* hashed
Words        == At("words", {"new"}, "")        \* no sorry, axiom, ... in the text
Foundations  == At("foundations", {"build"}, "") \* only ordinary axioms
Carried      == At("carried", {"old", "new"}, "") \* the new text has the old theorem's
Adopt(f)     == At("adopt", {"compiled", "tests"}, f) \* what was compiled, or else f
Record(f, S) == At("record", S, f)              \* write the file, or compare
Keep(f, S)   == At("keep", S, f)                \* write it unless it is there
Same(f, S)   == At("same", S, f)                \* the file is what would be written
Held(f)      == At("held", {}, f)               \* every row of it is as it is now
Sound(f)     == At("sound", {"build"}, f)       \* the axioms in it are ordinary
Passed(f)    == At("sound", {"tests"}, f)       \* it is the log of tests that passed
Load(f)      == At("load", {}, f)               \* it can be read
Compile      == At("compile", {}, "")           \* lake build of the new modules
Forge(f, S)  == At("forge", S, f)               \* forge test of what was read, its output in f

WriteOnly(steps)      == [steps |-> steps, modes |-> {"write"}]
WriteOrCompare(steps) == [steps |-> steps, modes |-> {"write", "compare"}]
CompareOnly(steps)    == [steps |-> steps, modes |-> {"compare"}]

----------------------------------------------------------------------------
\* Parts that several scripts share.  The old sources that a module imports are
\* compared, the new ones are hashed; the packages at their pins come first.

ClosureSeen == Match({"packages"}) \o Match({"old"}) \o Read({"new"})
                 \o Record("source-inputs", {"packages", "old", "new"})
ImportsSeen == Match({"packages"}) \o Match({"old", "imports"}) \o Read({"new"})
                 \o Record("source-inputs", {"packages", "old", "new"})
CoreSeen    == Match({"core"}) \o Record("solidity-identities", {"core"})
AxiomsFound == Foundations \o Record("axioms", {"build"})
RuntimeSeen == Read({"runtime"}) \o Record("runtime-inputs", {"runtime"})
NormalBuild == Read({"new", "build"}) \o Record("normal-identities", {"new", "build"})

\* The files that a receipt of the whole dossier hashes beside the new sources.
Evidence == {"source-inputs", "axioms", "runtime-inputs", "normal-identities",
             "solidity-identities", "compiler-identities", "compiler-check",
             "correspondence", "reuse-identities", "preservation", "inherited",
             "summary", "snapshot", "solidity", "solidity-log", "lean-log", "vectors",
             "dependency-inputs", "source-check"}
Receipt(S) == Record("receipt", {"new"} \cup Evidence \cup S)

\* A validator that only compares is the validator itself with its writes made
\* comparisons; then the receipt has to hold and the configuration to be the
\* accepted one.  What it would write outside the dossier is left out.
Compared(script) == CompareOnly(script.steps \o Held("receipt") \o Match({"config"}))
IsNormal(st)     == st.op \in {"record", "same"} /\ st.file = "normal-identities"
ButNormal(script) ==
    [script EXCEPT !.steps = SelectSeq(@, LAMBDA st : ~IsNormal(st))]

----------------------------------------------------------------------------
\* Withdrawal requests by address

RequestCallValidate         == WriteOnly(ImportsSeen \o Words \o AxiomsFound \o RuntimeSeen)
WrappedTransferCallValidate == WriteOnly(ImportsSeen \o Words \o AxiomsFound \o RuntimeSeen)
WrappedTokenCallValidate    == WriteOnly(ImportsSeen \o Words \o AxiomsFound \o RuntimeSeen)
WrappedRequestCallValidate  == WriteOnly(ImportsSeen \o Words \o AxiomsFound \o RuntimeSeen)
QuoteCallValidate           == WriteOnly(ImportsSeen \o Words \o AxiomsFound \o RuntimeSeen)
ConversionCallValidate      == WriteOnly(ImportsSeen \o Words \o AxiomsFound \o RuntimeSeen)
TransferCallValidate        == WriteOnly(ImportsSeen \o Words \o AxiomsFound \o RuntimeSeen)
RequestBatchesValidate      == WriteOnly(ImportsSeen \o Words \o AxiomsFound \o RuntimeSeen)
PermitRequestCallsValidate  == WriteOnly(ImportsSeen \o Words \o AxiomsFound \o RuntimeSeen)
\* The old sources with three literals replaced.
RequestCallRepairValidate   == WriteOnly(ImportsSeen \o Words \o AxiomsFound \o RuntimeSeen)
TransferFromCallValidate ==
    WriteOrCompare(ImportsSeen \o Words \o AxiomsFound \o RuntimeSeen
        \o Read({"new", "build"}) \o Match({"config"})
        \o Record("normal-identities", {"new", "build", "config"}))
\* The claim of withdrawals: the words are looked for after the axioms are written.
ActualConsumerValidate == WriteOnly(ClosureSeen \o AxiomsFound \o Words)

\* Storage slots that the models name, against what the compiler says of them.
RequestCallRepairSlots  == CompareOnly(Match({"core", "old"}))
WrappedRequestCallSlots == CompareOnly(Match({"core", "old"}))

\* What the compiler took in, against the old dossiers, the core and npm.
WrappedTransferCallCorrespondence ==
    WriteOnly(Match({"old", "fixtures", "core", "forge"})
        \o Record("correspondence", {"old", "fixtures", "core", "forge"}))
WrappedTokenCallCorrespondence   == WrappedTransferCallCorrespondence
RequestBatchesCorrespondence     == WrappedTransferCallCorrespondence
PermitRequestCallsCorrespondence == WrappedTransferCallCorrespondence

\* Compiled artefacts: the fixtures they come from, a snapshot, a record of them.
Snapshot == Record("snapshot", {"forge"})
Compilers(S) == Record("compiler-identities", S \cup {"snapshot"})

\* What Foundry left or, in a checkout, the snapshot itself, compared with the tests
\* there are and written to the snapshot.
SnapshotRenewed == Adopt("snapshot") \o Record("snapshot", {"compiled"})
TransferFromCallEvidence == WriteOrCompare(Match({"fixtures", "core"}) \o SnapshotRenewed
                                \o Match({"fixtures"}) \o Compilers({"fixtures", "core"}))
TransferCallEvidence     == WriteOnly(Match({"fixtures", "core"}) \o SnapshotRenewed
                                \o Match({"fixtures"}) \o Compilers({"fixtures", "core"}))
ConversionCallEvidence   == WriteOnly(Match({"fixtures"}) \o Match({"forge"})
                                \o Snapshot \o Compilers({"fixtures", "forge"}))
\* An archived artefact stays; its bytecode has to be what was compiled now.
QuoteCallEvidence        == WriteOnly(Match({"fixtures"}) \o Match({"forge"})
                                \o Keep("snapshot", {"forge"}) \o Match({"old"})
                                \o Compilers({"fixtures", "forge"}))

RequestCallReceipt == WriteOnly(Match({"core", "fixtures"}) \o Read({"tests"})
    \o Record("solidity-identities", {"core", "fixtures", "tests"})
    \o Load("source-inputs") \o Load("axioms") \o Read({"new", "build"}) \o Receipt({"build"}))

WrappedTransferCallReadonly == Compared(WrappedTransferCallValidate)
TransferCallReadonly        == Compared(TransferCallValidate)
QuoteCallReadonly           == Compared(QuoteCallValidate)
ConversionCallReadonly      == Compared(ConversionCallValidate)
RequestBatchesReadonly      == Compared(RequestBatchesValidate)
PermitRequestCallsReadonly  == Compared(PermitRequestCallsValidate)
TransferFromCallReadonly    == Compared(ButNormal(TransferFromCallValidate))

----------------------------------------------------------------------------
\* Top-ups

RootCallBatchValidate       == WriteOnly(ClosureSeen \o Words \o AxiomsFound)
ModuleMemoryValidate        == WriteOnly(ClosureSeen \o Words \o AxiomsFound)
RootPhysicalEffectsValidate == WriteOnly(ClosureSeen \o Words \o AxiomsFound)
ModuleNocodeValidate        == WriteOnly(ClosureSeen \o Words \o AxiomsFound)
MinimalLedgerValidate       == WriteOnly(ClosureSeen \o Words \o AxiomsFound)

RootCallBatchReceipt == WriteOnly(Load("source-inputs") \o Load("axioms") \o Passed("lean-log")
                            \o Sound("axioms") \o Read({"new"}) \o Receipt({}))
ModuleMemoryReceipt  == WriteOnly(Load("source-inputs") \o Load("axioms") \o Passed("lean-log")
                            \o Read({"new"}) \o Receipt({}))
RootPhysicalEffectsReceipt == WriteOnly(Match({"old"}) \o Held("source-inputs") \o Sound("axioms")
                            \o Passed("lean-log") \o Read({"new"}) \o Receipt({}))

Inherited == Match({"core", "fixtures"}) \o Record("inherited", {"core", "fixtures"})
RootCallBatchInherited       == WriteOnly(Inherited)
RootPhysicalEffectsInherited == WriteOnly(Inherited)
ModuleMemorySourceIr         == WriteOnly(Inherited)

\* Validators that write only when asked to, and compare otherwise.
Registered == ImportsSeen \o Words \o Read({"new", "build"}) \o AxiomsFound
                \o Record("normal-identities", {"new", "build"})
CompilerChecked(S) == Match(S) \o Record("compiler-check", {"fixtures"})

RouterLocatorCallValidate == WriteOrCompare(Registered
    \o CompilerChecked({"core", "fixtures"}) \o Match({"fixtures"}) \o Carried
    \o Held("solidity") \o Passed("solidity-log") \o Held("snapshot")
    \o Record("correspondence", {"fixtures", "solidity"})
    \o Match({"fixtures"}) \o Read({"runtime"}) \o Record("runtime-inputs", {"runtime", "fixtures"}))

RouterAdmissionCallValidate == WriteOrCompare(Registered
    \o Match({"core", "fixtures"}) \o Held("solidity") \o Passed("solidity-log")
    \o Held("snapshot") \o Carried \o Record("compiler-check", {"fixtures", "snapshot"})
    \o Match({"old"}) \o Record("summary", {"new", "packages"}))

TimingHistoryValidate == WriteOrCompare(Registered
    \o CompilerChecked({"core", "fixtures"}) \o Match({"fixtures"}) \o Carried
    \o Record("correspondence", {"core", "fixtures"})
    \o Match({"fixtures"}) \o Read({"runtime"}) \o Record("runtime-inputs", {"runtime", "fixtures"}))

EntryAdmissionValidate == WriteOrCompare(Registered
    \o CompilerChecked({"core", "fixtures"}) \o Match({"fixtures"}) \o Carried
    \o Match({"fixtures"}) \o Record("correspondence", {"fixtures"})
    \o RuntimeSeen)

CredentialGetterValidate == WriteOrCompare(Registered
    \o Match({"core", "fixtures"}) \o Record("reuse-identities", {"core", "fixtures"})
    \o Match({"fixtures"}) \o Read({"runtime"}) \o Record("runtime-inputs", {"runtime", "fixtures"}))

CredentialCallValidate == WriteOrCompare(Registered
    \o CompilerChecked({"core", "fixtures"}) \o RuntimeSeen)

\* Forge, on what is read and copied elsewhere, compared with no pin: the log first,
\* then the verdict, the artefacts, a receipt of it all.
ForgeRun == Read({"fixtures", "tests"}) \o Forge("solidity-log", {"tests"})
              \o Record("snapshot", {"fixtures", "tests"})
              \o Record("solidity", {"tests", "fixtures", "solidity-log", "snapshot"})
RouterAdmissionCallForge == WriteOnly(ForgeRun)
RouterLocatorCallForge   == WriteOnly(ForgeRun)
EntryAdmissionForge      == WriteOnly(ForgeRun)

RouterAdmissionCallSeal == WriteOrCompare(Read({"new"}) \o Load("summary") \o Receipt({}))

RouterLocatorCallReadonly     == Compared(ButNormal(RouterLocatorCallValidate))
RouterAdmissionCallIntegration == Compared(ButNormal(RouterAdmissionCallValidate))
EntryAdmissionReadonly        == Compared(ButNormal(EntryAdmissionValidate))
TimingHistoryReadonly ==
    CompareOnly(ButNormal(TimingHistoryValidate).steps \o Held("receipt"))

\* A retained receipt of the Solidity run, against its inputs.
EntryAdmissionRuntime == CompareOnly(Held("solidity") \o Passed("solidity-log")
    \o Held("snapshot") \o Match({"fixtures"}) \o Passed("native-log"))

----------------------------------------------------------------------------
\* Accounts

CheckedFeeSplitBuild == WriteOnly(Compile)
\* The one old module that was changed is the old one with a block inserted.
CheckedFeeSplitValidate == WriteOnly(Match({"old"}) \o Read({"new"}) \o Record("preservation", {"new"})
    \o ClosureSeen \o CoreSeen \o Words \o AxiomsFound)
CheckedFeeSplitReceipt == WriteOnly(Held("source-inputs") \o Sound("axioms") \o Passed("lean-log")
    \o Read({"new", "build"}) \o Receipt({"build"}))

FeeDistributionBuild    == WriteOnly(Compile)
FeeDistributionValidate == WriteOnly(ImportsSeen \o CoreSeen \o Words \o AxiomsFound)
FeeDistributionSolidity == WriteOnly(Match({"fixtures", "core", "forge"}) \o Snapshot
    \o Record("solidity", {"forge", "fixtures", "snapshot"}))
FeeDistributionReceipt == WriteOnly(Match({"old"}) \o Held("source-inputs") \o Sound("axioms")
    \o Passed("lean-log") \o Passed("solidity-log") \o Match({"fixtures"}) \o Read({"new", "build"})
    \o Receipt({"build"}))

TreasuryCallBuild    == WriteOnly(Compile)
TreasuryCallValidate == WriteOnly(ImportsSeen \o CoreSeen \o Words \o AxiomsFound)
TreasuryCallSolidity == WriteOnly(Match({"fixtures", "core", "forge"}) \o Snapshot
    \o Passed("solidity-log") \o Record("solidity", {"forge", "fixtures", "snapshot"}))
TreasuryCallReceipt == WriteOnly(Load("source-inputs") \o Load("axioms") \o Load("solidity")
    \o Passed("lean-log") \o Read({"new"}) \o Receipt({}))

PhysicalPauseBuild    == WriteOnly(Compile)
PhysicalPauseValidate == WriteOnly(ImportsSeen \o CoreSeen \o Words \o AxiomsFound)
PhysicalPauseEvidence == WriteOnly(Match({"fixtures", "forge"}) \o Snapshot
    \o Compilers({"fixtures", "forge"}))
PhysicalPauseReadonly == Compared(PhysicalPauseValidate)

\* The compiled modules are hashed by the build, after it.
AccountingCallBuild == WriteOnly(Compile \o NormalBuild)
AccountingCallValidate == WriteOnly(ImportsSeen \o CoreSeen \o Words
    \o Read({"build"}) \o Record("lean-log", {"build"}) \o Record("query-identities", {"old"})
    \o AxiomsFound
    \o Read({"new", "build"}) \o Same("normal-identities", {"new", "build"}) \o Match({"config"}))
AccountingCallEvidence == WriteOnly(Match({"fixtures", "core", "forge"}) \o Snapshot
    \o Compilers({"fixtures", "core", "forge"}))
\* The validator that only compares takes the hashes of the build from itself.
AccountingCallReadonly ==
    CompareOnly(Load("normal-identities") \o Match({"new"})
        \o Compared(ButNormal(AccountingCallValidate)).steps)

FeeCastInvariantValidate == WriteOnly(ClosureSeen \o Words \o AxiomsFound)
FeeCastInvariantReceipt  == CompareOnly(Held("receipt") \o Held("source-inputs")
    \o Match({"packages", "core"}) \o Sound("axioms") \o Passed("lean-log"))

ActualMintReceipt == CompareOnly(Held("receipt") \o Match({"core"}) \o Passed("lean-log")
    \o Sound("axioms"))

----------------------------------------------------------------------------
\* SSZ proofs

RootCallCompositionValidate == WriteOnly(ClosureSeen \o Words \o AxiomsFound)
ActualRootTreeValidate      == WriteOnly(ClosureSeen \o Words \o AxiomsFound)

CompiledClEntryValidate == WriteOrCompare(Registered
    \o CompilerChecked({"core", "fixtures"}) \o RuntimeSeen)

DeclaredSiblingsValidate == WriteOrCompare(Registered
    \o Match({"fixtures", "core"}) \o Carried \o Record("reuse-identities", {"fixtures", "core"})
    \o Match({"old"}) \o Record("summary", {"new", "packages"}))
DeclaredSiblingsSeal == WriteOrCompare(Read({"new"}) \o Load("summary") \o Receipt({}))
DeclaredSiblingsIntegration == Compared(ButNormal(DeclaredSiblingsValidate))

\* Lines of the pinned contracts that a model was written from.
StatePlacementSource == CompareOnly(Match({"fixtures", "new"}) \o Match({"core"}))
VerifierEntrySource  == CompareOnly(Match({"core"}))
ValidatorLeafSource  == CompareOnly(Match({"core"}))
WrapperIndexSource   == CompareOnly(Match({"core"}))
ProofFoldSource      == CompareOnly(Match({"core"}))
TopupWeiSource       == CompareOnly(Match({"core"}))

----------------------------------------------------------------------------
\* Consolidations and deposits

SettlementRequestsInherited == WriteOnly(Inherited)
SettlementRequestsValidate  == WriteOnly(ClosureSeen \o Words \o AxiomsFound)
SettlementRequestsReceipt   == WriteOnly(Match({"old"}) \o Held("source-inputs") \o Sound("axioms")
    \o Passed("lean-log") \o Read({"new"}) \o Receipt({}))

\* Here the hashes of the build are recorded before the axioms are looked at.
Rebuilt == ImportsSeen \o Words \o NormalBuild \o AxiomsFound

PhysicalQuotaForge    == WriteOnly(ForgeRun)
\* The sources in what was compiled are at their pins or are the tests there are.
CompilerInputs == Match({"fixtures", "core"}) \o Read({"tests"}) \o Held("solidity") \o Held("snapshot")
            \o Passed("solidity-log")
            \o Record("compiler-identities", {"fixtures", "core", "tests", "snapshot"})
PhysicalQuotaValidate == WriteOrCompare(Rebuilt \o Match({"old"}) \o Carried \o CompilerInputs
    \o Record("correspondence", {"core", "snapshot"}))
PhysicalQuotaReceipt     == WriteOnly(Read({"new", "config"}) \o Receipt({"config"}))
PhysicalQuotaIntegration == Compared(ButNormal(PhysicalQuotaValidate))

PhysicalEntryForge    == WriteOnly(ForgeRun)
PhysicalEntryValidate == WriteOrCompare(Rebuilt \o Match({"fixtures"}) \o Carried \o CompilerInputs
    \o Record("correspondence", {"core"}) \o Passed("native-log")
    \o Match({"fixtures"}) \o Record("reuse-identities", {"fixtures", "native-log"}))
PhysicalEntryReceipt     == WriteOnly(Read({"new", "config"}) \o Receipt({"config"}))
PhysicalEntryIntegration == Compared(ButNormal(PhysicalEntryValidate))

AdmissionErrorsValidate == WriteOrCompare(Rebuilt \o Match({"fixtures", "core"})
    \o Record("reuse-identities", {"fixtures"})
    \o Record("compiler-identities", {"fixtures", "core"})
    \o Record("correspondence", {"core"}))
AdmissionErrorsReceipt     == WriteOnly(Read({"new", "config"}) \o Receipt({"config"}))
AdmissionErrorsIntegration == Compared(ButNormal(AdmissionErrorsValidate))

DsmCallValidate           == WriteOnly(ImportsSeen \o Words \o AxiomsFound)
PhysicalAdmissionValidate == WriteOnly(ImportsSeen \o Words \o AxiomsFound)

\* Everything in one script, the compilation and the tests included.
ActualModuleCallValidate == WriteOnly(Match({"core", "packages"})
    \o Compile \o Read({"build"}) \o Record("lean-log", {"build"}) \o Foundations
    \o Record("vectors", {"build"}) \o Read({"tests"}) \o Forge("solidity-log", {"tests"})
    \o Read({"forge"}) \o Record("compiler-identities", {"forge"})
    \o Match({"old"}) \o Read({"new", "build"})
    \o Record("dependency-inputs", {"old", "new", "build"})
    \o Match({"core"}) \o Record("source-check", {"core"})
    \o Read({"new"}) \o Receipt({}))
ActualModuleCallReceipt == CompareOnly(Held("receipt") \o Held("dependency-inputs"))

----------------------------------------------------------------------------
\* Receipts that are only compared again, and report every row that is off

ReceiptHolds   == CompareOnly(Held("receipt") \o Held("dependency-inputs")
                      \o Match({"packages", "core"}))
InheritedHolds == CompareOnly(Held("receipt") \o Held("inherited") \o Held("dependency-inputs")
                      \o Match({"packages"}))

BlsCompositionReceipt    == ReceiptHolds
TypedFfiBridgeReceipt    == ReceiptHolds
ShaCallMemoryReceipt     == ReceiptHolds
ScratchEvmMemoryReceipt  == ReceiptHolds
ProofCalldataStepReceipt == ReceiptHolds
ProofCalldataLoopReceipt == ReceiptHolds
ModuleCallReceipt        == ReceiptHolds
HistoryDomainReceipt     == CompareOnly(Held("receipt") \o Held("dependency-inputs")
                                \o Match({"packages"}))
RouterCommittedReceipt   == InheritedHolds
ProofCommittedReceipt    == InheritedHolds
PubkeyBytesReceipt       == InheritedHolds
ShaCommittedReceipt      == InheritedHolds
WitnessAbiReceipt        == InheritedHolds
BatchConsumerReceipt     == InheritedHolds
BeaconCommittedReceipt   == InheritedHolds
BeaconSumReceipt         == InheritedHolds

RouterContinuationCheck  == CompareOnly(Load("source-check") \o Held("receipt")
    \o Held("source-inputs") \o Held("source-check") \o Words \o Passed("lean-log")
    \o Sound("axioms"))
GatewayWitnessBatchCheck == CompareOnly(RouterContinuationCheck.steps
    \o Passed("solidity-log") \o Held("solidity"))
SettlementCheck          == CompareOnly(Held("source-inputs") \o Match({"packages"})
    \o Passed("lean-log") \o Passed("solidity-log") \o Held("receipt"))
=============================================================================
