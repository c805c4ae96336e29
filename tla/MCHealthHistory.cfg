SPECIFICATION HSpec
CONSTANTS
    twice = twice
    once = once
    instant = instant
    unwatched = unwatched
    Pool = {twice, once, instant, unwatched}
    Policy <- MCPolicy
    Stranger = {stranger}
    DefaultCooldown = 3
    Unset = Unset
    NoTime = NoTime
    MaxTime = 6
    MaxFailures = 3
INVARIANTS
    TypeOK
    DeadlineIffThreshold
    DeadlineWithinCooldown
    OutOnlyAfterThresholdInARow
    ThresholdInARowPutsOut
PROPERTIES
    CooldownServed
    IsCircuitBreaker
