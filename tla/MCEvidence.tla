------------------------------ MODULE MCEvidence ------------------------------
(***************************************************************************)
(* The dossiers for TLC: which scripts each of them has, and the files     *)
(* that are committed with it, which are those that the scripts write at   *)
(* the accepted tree, one after another, and those that no script of it    *)
(* writes.                                                                 *)
(***************************************************************************)
EXTENDS EvidenceScripts, EvidenceDossiers

MCArtefacts == {"packages", "old", "imports", "core", "fixtures", "forge", "tests",
                "runtime", "config", "compiled", "new", "build"}
MCFiles     == Evidence \cup {"receipt", "query-identities", "native-log"}
MCVersions  == [a \in MCArtefacts |->
                   CASE a = "new"      -> 0..3
                     [] a = "compiled" -> {0, 1, Missing}
                     [] OTHER          -> 0..1]

\* What a script would write at the accepted tree.
WriteAtBase(fs, st) ==
    IF st.op \in {"record", "keep", "forge"}
    THEN [fs EXCEPT ![st.file] =
             {<<x, IF x \in MCFiles THEN fs[x] ELSE 0>> :
                 x \in {y \in st.on : y \in MCFiles => fs[y] # Absent}}]
    ELSE fs
AtBase(steps) == FoldLeft(WriteAtBase, [f \in MCFiles |-> Absent], steps)

Dossier(scripts, steps) == [scripts |-> scripts, committed |-> AtBase(steps)]

\* Files that no script of the dossier writes.
Log(f)     == Record(f, {"tests"})
Deps       == Record("dependency-inputs", {"packages", "old", "new"})
Sources    == Record("source-inputs", {"packages", "old", "new"})
Axioms     == Record("axioms", {"build"})
Sealed     == Receipt({})

WithReceipt(scripts, steps) == Dossier(scripts, steps \o Sealed)

ByAddress == <<
    Dossier([validate |-> RequestCallValidate, receipt |-> RequestCallReceipt],
            RequestCallValidate.steps \o RequestCallReceipt.steps),
    Dossier([validate |-> RequestCallRepairValidate, slots |-> RequestCallRepairSlots],
            RequestCallRepairValidate.steps),
    Dossier([validate |-> WrappedRequestCallValidate, slots |-> WrappedRequestCallSlots],
            WrappedRequestCallValidate.steps),
    WithReceipt([validate |-> WrappedTransferCallValidate,
                 correspondence |-> WrappedTransferCallCorrespondence,
                 readonly |-> WrappedTransferCallReadonly],
                WrappedTransferCallValidate.steps \o WrappedTransferCallCorrespondence.steps),
    Dossier([validate |-> WrappedTokenCallValidate,
             correspondence |-> WrappedTokenCallCorrespondence],
            WrappedTokenCallValidate.steps \o WrappedTokenCallCorrespondence.steps),
    WithReceipt([validate |-> RequestBatchesValidate,
                 correspondence |-> RequestBatchesCorrespondence,
                 readonly |-> RequestBatchesReadonly],
                RequestBatchesValidate.steps \o RequestBatchesCorrespondence.steps),
    WithReceipt([validate |-> PermitRequestCallsValidate,
                 correspondence |-> PermitRequestCallsCorrespondence,
                 readonly |-> PermitRequestCallsReadonly],
                PermitRequestCallsValidate.steps \o PermitRequestCallsCorrespondence.steps),
    WithReceipt([validate |-> QuoteCallValidate, evidence |-> QuoteCallEvidence,
                 readonly |-> QuoteCallReadonly],
                QuoteCallValidate.steps \o QuoteCallEvidence.steps),
    WithReceipt([validate |-> ConversionCallValidate, evidence |-> ConversionCallEvidence,
                 readonly |-> ConversionCallReadonly],
                ConversionCallValidate.steps \o ConversionCallEvidence.steps),
    WithReceipt([validate |-> TransferCallValidate, evidence |-> TransferCallEvidence,
                 readonly |-> TransferCallReadonly],
                TransferCallValidate.steps \o TransferCallEvidence.steps),
    WithReceipt([validate |-> TransferFromCallValidate, evidence |-> TransferFromCallEvidence,
                 readonly |-> TransferFromCallReadonly],
                TransferFromCallValidate.steps \o TransferFromCallEvidence.steps),
    Dossier([validate |-> ActualConsumerValidate], ActualConsumerValidate.steps)>>
TopUps == <<
    Dossier([validate |-> RootCallBatchValidate, inherited |-> RootCallBatchInherited,
             receipt |-> RootCallBatchReceipt],
            RootCallBatchValidate.steps \o RootCallBatchInherited.steps
                \o Log("lean-log") \o RootCallBatchReceipt.steps),
    Dossier([validate |-> ModuleMemoryValidate, inherited |-> ModuleMemorySourceIr,
             receipt |-> ModuleMemoryReceipt],
            ModuleMemoryValidate.steps \o ModuleMemorySourceIr.steps \o Log("lean-log")
                \o ModuleMemoryReceipt.steps),
    Dossier([validate |-> RootPhysicalEffectsValidate, inherited |-> RootPhysicalEffectsInherited,
             receipt |-> RootPhysicalEffectsReceipt],
            RootPhysicalEffectsValidate.steps \o RootPhysicalEffectsInherited.steps
                \o Log("lean-log") \o RootPhysicalEffectsReceipt.steps),
    Dossier([validate |-> ModuleNocodeValidate], ModuleNocodeValidate.steps),
    Dossier([validate |-> MinimalLedgerValidate], MinimalLedgerValidate.steps),
    WithReceipt([forge |-> RouterLocatorCallForge, validate |-> RouterLocatorCallValidate,
                 readonly |-> RouterLocatorCallReadonly],
                RouterLocatorCallForge.steps \o RouterLocatorCallValidate.steps),
    Dossier([forge |-> RouterAdmissionCallForge, validate |-> RouterAdmissionCallValidate,
             seal |-> RouterAdmissionCallSeal, readonly |-> RouterAdmissionCallIntegration],
            RouterAdmissionCallForge.steps \o RouterAdmissionCallValidate.steps
                \o RouterAdmissionCallSeal.steps),
    WithReceipt([validate |-> TimingHistoryValidate, readonly |-> TimingHistoryReadonly],
                TimingHistoryValidate.steps),
    WithReceipt([forge |-> EntryAdmissionForge, validate |-> EntryAdmissionValidate,
                 runtime |-> EntryAdmissionRuntime, readonly |-> EntryAdmissionReadonly],
                EntryAdmissionForge.steps \o Log("native-log") \o EntryAdmissionValidate.steps),
    Dossier([validate |-> CredentialGetterValidate], CredentialGetterValidate.steps),
    Dossier([validate |-> CredentialCallValidate], CredentialCallValidate.steps)>>

Accounts == <<
    Dossier([build |-> CheckedFeeSplitBuild, validate |-> CheckedFeeSplitValidate,
             receipt |-> CheckedFeeSplitReceipt],
            CheckedFeeSplitValidate.steps \o Log("lean-log") \o CheckedFeeSplitReceipt.steps),
    Dossier([build |-> FeeDistributionBuild, validate |-> FeeDistributionValidate,
             solidity |-> FeeDistributionSolidity, receipt |-> FeeDistributionReceipt],
            FeeDistributionValidate.steps \o Log("solidity-log") \o FeeDistributionSolidity.steps
                \o Log("lean-log") \o FeeDistributionReceipt.steps),
    Dossier([build |-> TreasuryCallBuild, validate |-> TreasuryCallValidate,
             solidity |-> TreasuryCallSolidity, receipt |-> TreasuryCallReceipt],
            TreasuryCallValidate.steps \o Log("solidity-log") \o TreasuryCallSolidity.steps
                \o Log("lean-log") \o TreasuryCallReceipt.steps),
    WithReceipt([build |-> PhysicalPauseBuild, validate |-> PhysicalPauseValidate,
                 evidence |-> PhysicalPauseEvidence, readonly |-> PhysicalPauseReadonly],
                PhysicalPauseValidate.steps \o PhysicalPauseEvidence.steps),
    WithReceipt([build |-> AccountingCallBuild, validate |-> AccountingCallValidate,
                 evidence |-> AccountingCallEvidence, readonly |-> AccountingCallReadonly],
                AccountingCallBuild.steps \o AccountingCallValidate.steps
                    \o AccountingCallEvidence.steps),
    WithReceipt([validate |-> FeeCastInvariantValidate, check |-> FeeCastInvariantReceipt],
                FeeCastInvariantValidate.steps \o Log("lean-log")),
    WithReceipt([check |-> ActualMintReceipt], Log("lean-log") \o Axioms)>>

SszProofs == <<
    Dossier([validate |-> RootCallCompositionValidate], RootCallCompositionValidate.steps),
    Dossier([validate |-> ActualRootTreeValidate], ActualRootTreeValidate.steps),
    Dossier([validate |-> CompiledClEntryValidate], CompiledClEntryValidate.steps),
    Dossier([validate |-> DeclaredSiblingsValidate, seal |-> DeclaredSiblingsSeal,
             readonly |-> DeclaredSiblingsIntegration],
            DeclaredSiblingsValidate.steps \o DeclaredSiblingsSeal.steps),
    Dossier([source |-> StatePlacementSource], <<>>),
    Dossier([source |-> VerifierEntrySource], <<>>),
    Dossier([source |-> ValidatorLeafSource], <<>>),
    Dossier([source |-> WrapperIndexSource], <<>>),
    Dossier([source |-> ProofFoldSource], <<>>),
    Dossier([source |-> TopupWeiSource], <<>>)>>

ConsolidationsAndDeposits == <<
    Dossier([inherited |-> SettlementRequestsInherited, validate |-> SettlementRequestsValidate,
             receipt |-> SettlementRequestsReceipt],
            SettlementRequestsInherited.steps \o SettlementRequestsValidate.steps
                \o Log("lean-log") \o SettlementRequestsReceipt.steps),
    Dossier([forge |-> PhysicalQuotaForge, validate |-> PhysicalQuotaValidate,
             receipt |-> PhysicalQuotaReceipt, readonly |-> PhysicalQuotaIntegration],
            PhysicalQuotaForge.steps \o PhysicalQuotaValidate.steps \o PhysicalQuotaReceipt.steps),
    Dossier([forge |-> PhysicalEntryForge, validate |-> PhysicalEntryValidate,
             receipt |-> PhysicalEntryReceipt, readonly |-> PhysicalEntryIntegration],
            PhysicalEntryForge.steps \o Log("native-log") \o PhysicalEntryValidate.steps
                \o PhysicalEntryReceipt.steps),
    Dossier([validate |-> AdmissionErrorsValidate, receipt |-> AdmissionErrorsReceipt,
             readonly |-> AdmissionErrorsIntegration],
            AdmissionErrorsValidate.steps \o AdmissionErrorsReceipt.steps),
    Dossier([validate |-> DsmCallValidate], DsmCallValidate.steps),
    Dossier([validate |-> PhysicalAdmissionValidate], PhysicalAdmissionValidate.steps),
    Dossier([validate |-> ActualModuleCallValidate, check |-> ActualModuleCallReceipt],
            ActualModuleCallValidate.steps)>>

Retained(check) == WithReceipt([check |-> check],
    Deps \o Sources \o Axioms \o Inherited \o Log("lean-log") \o Log("solidity-log")
        \o Record("solidity", {"tests"}) \o Record("source-check", {"core"}))

Receipts == <<
    Retained(BlsCompositionReceipt), Retained(TypedFfiBridgeReceipt),
    Retained(ShaCallMemoryReceipt), Retained(ScratchEvmMemoryReceipt),
    Retained(ProofCalldataStepReceipt), Retained(ProofCalldataLoopReceipt),
    Retained(ModuleCallReceipt), Retained(HistoryDomainReceipt),
    Retained(RouterCommittedReceipt), Retained(ProofCommittedReceipt),
    Retained(PubkeyBytesReceipt), Retained(ShaCommittedReceipt), Retained(WitnessAbiReceipt),
    Retained(BatchConsumerReceipt), Retained(BeaconCommittedReceipt), Retained(BeaconSumReceipt),
    Retained(RouterContinuationCheck), Retained(GatewayWitnessBatchCheck),
    Retained(SettlementCheck)>>

MCDossiers ==
    ByAddress \o TopUps \o Accounts \o SszProofs \o ConsolidationsAndDeposits \o Receipts

\* The one dossier of which the documentation says what a receipt seals.
MCRootCallBatch == <<TopUps[1]>>

\* A receipt is for the modules that were checked: it has the hash of the new
\* modules that the validator recorded.
SealedIsChecked ==
    status = "passed" /\ role = "receipt" /\ steady =>
        \A row \in files["receipt"] : row[1] = "new" => row \in files["source-inputs"]
=============================================================================
