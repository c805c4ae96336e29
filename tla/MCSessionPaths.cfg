SPECIFICATION Spec
CONSTANTS
    Char <- MCChar
    Sep = "_"
    Slash = "/"
    Prefix <- MCPrefix
    Pw <- MCPw
    ArtifactSuffix <- MCArtifactSuffix
    Endpoints = {"session", "host", "video", "logs", "vnc"}
    Tokens <- MCTokens
    Configured <- MCConfigured
    Upstreams <- MCUpstreams
    Rests <- MCRests
    Texts <- MCTexts
INVARIANTS
    IdsRoundTrip
    OnlyEncodedIdsAreRouted
    CommandsReachTheirSession
    RecordingsAreNamedOnce
