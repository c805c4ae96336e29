SPECIFICATION Safety
CONSTANTS
    fragile = fragile
    sturdy = sturdy
    any = any
    webdriver = webdriver
    playwright = playwright
    chrome = chrome
    Req = {r1, r2}
    Pools <- MCPools
    Catalog <- MCCatalog
    NoRegion = NoRegion
    NoPool = NoPool
    MaxInt = 127
    Policy <- MCPolicy
    DefaultCooldown = 3
    Unset = Unset
    NoTime = NoTime
    MaxTime = 2
    MaxFailures = 4
    WebDriverRequests <- MCWebDriverRequests
    PlaywrightRequests <- MCPlaywrightRequests
    WebDriverIds = {u1, u2}
    MintedIds = {pw1, pw2}
    PwIds = {pw1, pw2}
    NoId = NoId
    Kinds = {"create", "playwright", "session", "side", "settings"}
INVARIANT EjectedOnlyByUpstream
