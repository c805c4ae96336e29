SPECIFICATION Spec
CONSTANTS
    fragile = fragile
    sturdy = sturdy
    any = any
    webdriver = webdriver
    playwright = playwright
    chrome = chrome
    Req = {r1, r2}
    Pools <- MCOnePool
    Catalog <- MCCatalog
    NoRegion = NoRegion
    NoPool = NoPool
    MaxInt = 127
    Policy <- MCOnePolicy
    DefaultCooldown = 3
    Unset = Unset
    NoTime = NoTime
    MaxTime = 2
    MaxFailures = 4
    WebDriverRequests <- MCWebDriverRequests
    PlaywrightRequests <- MCPlaywrightRequests
    WebDriverIds = {u1, pwlike}
    MintedIds = {pw1, pw2}
    PwIds = {pwlike, pw1, pw2}
    NoId = NoId
    Kinds = {"create", "playwright", "session", "side", "settings"}
INVARIANT TypeOK
PROPERTY RequestsEnd
