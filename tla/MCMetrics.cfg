SPECIFICATION MSpec
CONSTANTS
    strict = strict
    lenient = lenient
    Pool = {strict, lenient}
    Limit <- MCLimit
    Penalty <- MCPenalty
    Request = {r1, r2}
    Paths <- MCPaths
    PwSegments = {"r1_t_pw_1"}
    MaxReloads = 1
    Bounds = {1, 3}
    Durations = {2}
INVARIANTS
    ScrapesAddUp
    CountedAttemptsWereReported
PROPERTY EventuallyBackInRotation
