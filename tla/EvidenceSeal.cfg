SPECIFICATION Spec
CONSTANTS
    Artefacts <- MCArtefacts
    Files <- MCFiles
    Versions <- MCVersions
    Escaping = {2}
    Unsound = {2}
    Dropping = {3}
    Missing = Missing
    Dossiers <- MCRootCallBatch
    MaxEdits = 1
    MaxRuns = 2
INVARIANT SealedIsChecked
CHECK_DEADLOCK FALSE
