SPECIFICATION Spec
CONSTANTS
    first = first
    second = second
    broken = broken
    a = a
    b = b
    host1 = host1
    host2 = host2
    Req = {r1}
    Contents = {first, second, broken}
    Config <- MCConfig
    Secrets = {old, new}
    NoSecret = NoSecret
    NoPool = NoPool
    Threshold = 2
    Start = first
    StartSecret = old
    MaxEdits = 3
    MaxSignals = 2
PROPERTY SurvivorsKeepCooldown
