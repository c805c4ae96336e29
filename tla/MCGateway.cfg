SPECIFICATION Spec
CONSTANTS
    None = None
    NonString = NonString
    NoObject = NoObject
    NoArray = NoArray
    MaxLoads = 2
    Char <- MCChar
    Files <- MCFiles
    Stores <- MCStores
    Requests <- MCRequests
INVARIANTS
    ServedConfigsAreUsable
    BackendSeesItsCaller
    CandidatesAreMerged
