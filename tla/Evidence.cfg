SPECIFICATION Spec
CONSTANTS
    Artefacts <- MCArtefacts
    Files <- MCFiles
    Versions <- MCVersions
    Escaping = {2}
    Unsound = {2}
    Dropping = {3}
    Missing = Missing
    Dossiers <- MCDossiers
    MaxEdits = 1
    MaxRuns = 2
INVARIANTS PassIsAccepted AcceptedRunNeverFails
PROPERTY AcceptedRunPasses
CHECK_DEADLOCK FALSE
