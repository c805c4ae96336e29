------------------------------ MODULE Matching ------------------------------
(***************************************************************************)
(* internal/routing/request.go, the part that reads nothing but its         *)
(* arguments: does the catalog, and does a pool, serve a request? Strings   *)
(* are sequences of characters, already lower-cased, because matching is by *)
(* prefix; the empty one is an absent capability.                           *)
(***************************************************************************)
EXTENDS SequencesExt

\* A client narrows what the operator declares: the requested string starts
\* with a declared one.
PrefixMatchAny(values, requested) == \E v \in values : IsPrefix(v, requested)

BrowserServes(browser, req) ==
    /\ browser.name = req.browser
    /\ req.protocol \in browser.protocols
    /\ req.version # <<>> => PrefixMatchAny(browser.versions, req.version)
    /\ req.platform # <<>> /\ browser.platforms # {}
         => PrefixMatchAny(browser.platforms, req.platform)

CatalogSupports(catalog, req) == \E b \in catalog : BrowserServes(b, req)

\* What a pool must be, its health apart, to be a candidate of a request.
PoolServes(pool, req) == pool.weight > 0 /\ req.protocol \in pool.protocols
=============================================================================
