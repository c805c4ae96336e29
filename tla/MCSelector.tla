----------------------------- MODULE MCSelector -----------------------------
(* Three pools in two regions, two of them for both protocols, the weights of *)
(* any two of which fit in an int and those of all three do not; a catalog    *)
(* with two browsers; clients that ask for a region with pools, a region    *)
(* without any, no region, a browser nobody lists, and for alternatives.    *)
EXTENDS SelectorHistory

CONSTANTS eu1, eu2, us1, eu, us, ap, webdriver, playwright, chrome, firefox, opera

MCPools ==
    << [id |-> eu1, region |-> eu, weight |-> 3, protocols |-> {webdriver, playwright}],
       [id |-> us1, region |-> us, weight |-> 4, protocols |-> {webdriver, playwright}],
       [id |-> eu2, region |-> eu, weight |-> 1, protocols |-> {webdriver}] >>

v12  == <<"1", "2">>
v120 == <<"1", "2", "0">>

MCCatalog ==
    { [name |-> chrome, versions |-> {v120}, platforms |-> {},
       protocols |-> {webdriver, playwright}],
      [name |-> firefox, versions |-> {v12}, platforms |-> {<<"l">>},
       protocols |-> {webdriver}] }

Ask(b, v, r, p) ==
    [browser |-> b, version |-> v, platform |-> <<>>, region |-> r, protocol |-> p]

\* Chrome 120 does not serve a client that asks for 12, so the third list is
\* left with its second request.
MCRequestLists ==
    { << Ask(chrome, v120, eu, webdriver) >>,
      << Ask(chrome, <<>>, ap, webdriver) >>,
      << Ask(chrome, v12, NoRegion, webdriver), Ask(firefox, v120, us, webdriver) >>,
      << Ask(chrome, v120, NoRegion, playwright) >>,
      << Ask(chrome, <<>>, us, webdriver), Ask(firefox, <<>>, NoRegion, webdriver) >>,
      << Ask(opera, <<>>, NoRegion, webdriver) >> }

=============================================================================
