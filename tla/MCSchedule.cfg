\* Two requests at a time on two files, three sheets and two kinds of mapping.
SPECIFICATION Spec
CONSTANTS
    Requests = {r1, r2}
    Sheets <- MCSheets
    Configs <- MCConfigs
    FileNames = {f1, f2}
    Cells = {"w1", "w2", "w3", "d1"}
    Edits = {"w3", "absent"}
    ChunkSize = 2
    MaxOps = 3
    MaxFaults = 1
SYMMETRY Symmetry
INVARIANTS
    TypeOK
    OneCurrent
    StatsCoverInserts
    ImportIsStored
    NullPrevention
CHECK_DEADLOCK FALSE
