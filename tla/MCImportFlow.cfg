SPECIFICATION Spec
CONSTANTS
    Files = {"A", "B"}
    NoFile = "none"
    Personal = "personal"
    Formats = {"browser-csv", "generic-csv"}
    Collections = {"shared"}
    Contents <- MCContents
    DetectedFormat <- MCDetectedFormat
    Additions <- MCAdditions
    MaxItemsPerRequest = 2
    BodyBudget = 4
    MaxBodyBytes = 5
    Envelope = 1
INVARIANTS FlowInv ImportsWhatWasPreviewed ChunksFit
PROPERTIES KeepsItsPromise ImportEnds
