CONSTANTS
    None = None
    MaxActs = 4
    Defaults <- MCDefaults
    Chapters = 2
    MaxOpens = 2
SPECIFICATION FairNotesSpec
INVARIANTS
    NotesTypeOK
    SavedNotesStay
    ChaptersKeepTheirOrder
    LeftBehindAreInnerOrLate
PROPERTIES
    ListedNotesAreSaved
CHECK_DEADLOCK FALSE
