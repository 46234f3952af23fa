CONSTANTS
    Items = {i1, i2}
    Stored = {i1}
    Folders = {f1, f2}
    Listed = {f1}
    Collections = {}
    NewItem = NewItem
    NoItem = NoItem
    NoFolder = NoFolder
    Personal = Personal
    AllItems = AllItems
    MaxOps = 2
    MaxTexts = 1
    MaxUpdates = 1
SPECIFICATION Spec
INVARIANT EditingInv
PROPERTIES NoSilentOverwrite UnsavedTextIsKept
CHECK_DEADLOCK FALSE
