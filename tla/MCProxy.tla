------------------------------ MODULE MCProxy ------------------------------
(* Two pools: one goes out on its first failure and is the only one for     *)
(* Playwright, the other goes out on its second in a row. Or the first alone. *)
EXTENDS Proxy

CONSTANTS fragile, sturdy, any, webdriver, playwright, chrome

MCPools ==
    << [id |-> fragile, region |-> any, weight |-> 1, protocols |-> {webdriver, playwright}],
       [id |-> sturdy, region |-> any, weight |-> 1, protocols |-> {webdriver}] >>

MCOnePool == << MCPools[1] >>

MCCatalog ==
    { [name |-> chrome, versions |-> {<<"1">>}, platforms |-> {},
       protocols |-> {webdriver, playwright}] }

Strict(threshold) == [enabled |-> TRUE, failureThreshold |-> threshold, cooldown |-> 1]

MCPolicy == [b \in {fragile, sturdy} |-> Strict(IF b = fragile THEN 1 ELSE 2)]
MCOnePolicy == [b \in {fragile} |-> Strict(1)]

Ask(v, p) ==
    [browser |-> chrome, version |-> v, platform |-> <<>>, region |-> NoRegion, protocol |-> p]

MCWebDriverRequests == { << Ask(<<>>, webdriver) >> }
MCPlaywrightRequests == { << Ask(<<"1">>, playwright) >> }
=============================================================================
