SPECIFICATION HSpec
CONSTANTS
    eu1 = eu1
    eu2 = eu2
    us1 = us1
    eu = eu
    us = us
    ap = ap
    webdriver = webdriver
    playwright = playwright
    chrome = chrome
    firefox = firefox
    opera = opera
    Caller = {c1}
    Pools <- MCPools
    Catalog <- MCCatalog
    RequestLists <- MCRequestLists
    NoRegion = NoRegion
    NoPool = NoPool
    MaxInt = 7
INVARIANTS
    TypeOK
    FailsOnlyIfNoPoolStayedUp
    ChosenCouldServe
    PreferencesKept
    DrawIsProportional
PROPERTY SelectionEnds
