------------------------------ MODULE Selector ------------------------------
(***************************************************************************)
(* routing.Selector.SelectFirst and Select, one goroutine per caller. The   *)
(* scan asks the health manager for each pool in turn and takes no lock     *)
(* around it, so availability may change between any two pools, and between *)
(* the scan and the use of the pool it chose.                               *)
(***************************************************************************)
EXTENDS Integers, Sequences, FiniteSetsExt, Matching

CONSTANTS
    Caller,         \* goroutines that select a pool
    Pools,          \* config.BackendPools in file order: [id, region, protocols, weight]
    Catalog,        \* config.Catalog.Browsers: [name, versions, platforms, protocols]
    RequestLists,   \* what a caller may ask for: non-empty sequences of requests
    NoRegion,       \* the empty region
    NoPool,         \* no pool chosen
    MaxInt          \* the greatest int of the build

PoolIds == {Pools[k].id : k \in DOMAIN Pools}

\* config.Validate: pools have distinct ids, a region and a positive weight, on
\* whose size there is no limit but that of an int.
ASSUME PoolsAssumption ==
    /\ MaxInt \in Nat
    /\ Pools \in Seq(Range(Pools))
    /\ \A k \in DOMAIN Pools : Pools[k].weight \in 1..MaxInt /\ Pools[k].region # NoRegion
    /\ \A k, l \in DOMAIN Pools : Pools[k].id = Pools[l].id => k = l
    /\ NoPool \notin PoolIds

\* ParseWebDriverNewSession and ParsePlaywrightPath return at least one.
ASSUME RequestsAssumption == \A rs \in RequestLists : rs \in Seq(Range(rs)) /\ rs # <<>>

VARIABLES
    avail,          \* the ids health.Available answers true for
    call            \* the state of each caller's SelectFirst

PoolOf(id) == CHOOSE p \in {Pools[k] : k \in DOMAIN Pools} : p.id = id

InFlight(c) == call[c].pc \in {"catalog", "scan"}

CallType ==
    [pc : {"idle", "catalog", "scan", "done", "failed", "panicked"},
     requests : RequestLists \cup {<<>>},
     i : Nat, regionAware : BOOLEAN, at : Nat \ {0},
     matches : SUBSET PoolIds, chosen : PoolIds \cup {NoPool}]

TypeOK ==
    /\ avail \in SUBSET PoolIds
    /\ call \in [Caller -> CallType]
    /\ \A c \in Caller : /\ InFlight(c) => call[c].i \in DOMAIN call[c].requests
                         /\ call[c].pc = "done" => call[c].chosen \in PoolIds

Idle == [pc |-> "idle", requests |-> <<>>, i |-> 1, regionAware |-> TRUE, at |-> 1,
         matches |-> {}, chosen |-> NoPool]

Init ==
    /\ avail = PoolIds
    /\ call = [c \in Caller |-> Idle]

Request(c) == call[c].requests[call[c].i]

-----------------------------------------------------------------------------

Begin(c, requests) ==
    /\ call[c].pc = "idle"
    /\ call' = [call EXCEPT ![c] = [Idle EXCEPT !.pc = "catalog", !.requests = requests]]

\* Mutants: the first error ends the search; the search goes past the end.
SelectFailedAtOnce(s) == [s EXCEPT !.pc = "failed"]

SelectFailedPastEnd(s) == [s EXCEPT !.i = @ + 1, !.pc = "catalog", !.regionAware = TRUE]

\* Select returned an error: SelectFirst goes on to the next request, or
\* returns the last error when there is none.
SelectFailed(s) ==
    IF s.i < Len(s.requests)
    THEN [s EXCEPT !.i = @ + 1, !.pc = "catalog", !.regionAware = TRUE]
    ELSE [s EXCEPT !.pc = "failed"]

\* The first line of Select.
CheckCatalog(c) ==
    /\ call[c].pc = "catalog"
    /\ call' = [call EXCEPT ![c] =
                  IF CatalogSupports(Catalog, Request(c))
                  THEN [@ EXCEPT !.pc = "scan", !.regionAware = TRUE, !.at = 1, !.matches = {}]
                  ELSE SelectFailed(@)]

Scanned(c) == call[c].pc = "scan" /\ call[c].at > Len(Pools)

OutOfRegion(pool, s, req) ==
    s.regionAware /\ req.region # NoRegion /\ pool.region # req.region

\* Mutants of the step below: the health of a pool is not asked for, and the
\* region filter outlives the first scan.
ScanUnhealthyPool(c) ==
    /\ call[c].pc = "scan"
    /\ call[c].at <= Len(Pools)
    /\ LET pool == Pools[call[c].at]
       IN  call' = [call EXCEPT ![c].at = @ + 1,
                                ![c].matches =
                                    IF /\ ~OutOfRegion(pool, call[c], Request(c))
                                       /\ PoolServes(pool, Request(c))
                                    THEN @ \cup {pool.id} ELSE @]

ScanPoolAnyRegion(c) ==
    /\ call[c].pc = "scan"
    /\ call[c].at <= Len(Pools)
    /\ LET pool == Pools[call[c].at]
       IN  call' = [call EXCEPT ![c].at = @ + 1,
                                ![c].matches =
                                    IF /\ pool.id \in avail
                                       /\ PoolServes(pool, Request(c))
                                    THEN @ \cup {pool.id} ELSE @]

\* One turn of the loop in candidates: the region, the health of this pool as
\* it is now, its weight and its protocols.
ScanPool(c) ==
    /\ call[c].pc = "scan"
    /\ call[c].at <= Len(Pools)
    /\ LET pool == Pools[call[c].at]
       IN  call' = [call EXCEPT ![c].at = @ + 1,
                                ![c].matches =
                                    IF /\ ~OutOfRegion(pool, call[c], Request(c))
                                       /\ pool.id \in avail
                                       /\ PoolServes(pool, Request(c))
                                    THEN @ \cup {pool.id} ELSE @]

\* Nothing in the region the client asked for: scan all regions.
MayWiden(c) == call[c].regionAware /\ Request(c).region # NoRegion

\* Mutant: the second scan is taken for the first one.
WidenForever(c) ==
    /\ Scanned(c)
    /\ call[c].matches = {}
    /\ MayWiden(c)
    /\ call' = [call EXCEPT ![c].at = 1]

Widen(c) ==
    /\ Scanned(c)
    /\ call[c].matches = {}
    /\ MayWiden(c)
    /\ call' = [call EXCEPT ![c].regionAware = FALSE, ![c].at = 1]

NoMatch(c) ==
    /\ Scanned(c)
    /\ call[c].matches = {}
    /\ ~MayWiden(c)
    /\ call' = [call EXCEPT ![c] = SelectFailed(@)]

\* The weights of the matches among the first k pools, and the total that
\* weighted computes, which wraps.
WeightUpTo(matches, k) ==
    SumFunctionOnSet([j \in DOMAIN Pools |-> Pools[j].weight],
                     {j \in 1..k : Pools[j].id \in matches})

Weight(matches) == WeightUpTo(matches, Len(Pools))

Total(matches) == ((Weight(matches) + MaxInt + 1) % (2 * (MaxInt + 1))) - (MaxInt + 1)

\* Mutant: off by one, a ticket at the end of a pool's share is still its own.
DrawnLate(matches, pick) ==
    Pools[Min({k \in DOMAIN Pools :
                 Pools[k].id \in matches /\ pick <= WeightUpTo(matches, k)})].id

\* The match that a ticket falls to: the first whose share, counted in the order
\* of the file, is not used up. The last line of weighted is never reached.
Drawn(matches, pick) ==
    Pools[Min({k \in DOMAIN Pools :
                 Pools[k].id \in matches /\ pick < WeightUpTo(matches, k)})].id

Matched(c) == Scanned(c) /\ call[c].matches # {}

Pick(c) ==
    /\ Matched(c)
    /\ \E pick \in 0..Total(call[c].matches) - 1 :
         call' = [call EXCEPT ![c].pc = "done",
                              ![c].chosen = Drawn(call[c].matches, pick)]

\* rand.IntN does not take a total that is not positive.
Panic(c) ==
    /\ Matched(c)
    /\ Total(call[c].matches) <= 0
    /\ call' = [call EXCEPT ![c].pc = "panicked"]

Return(c) ==
    /\ call[c].pc \in {"done", "failed", "panicked"}
    /\ call' = [call EXCEPT ![c] = Idle]

Step(c) == CheckCatalog(c) \/ ScanPool(c) \/ Widen(c) \/ NoMatch(c) \/ Pick(c) \/ Panic(c)

SelectorNext ==
    \E c \in Caller :
        \/ \E rs \in RequestLists : Begin(c, rs)
        \/ CheckCatalog(c)
        \/ ScanPool(c)
        \/ Widen(c)
        \/ NoMatch(c)
        \/ Pick(c)
        \/ Panic(c)
        \/ Return(c)

\* What the scan is at the mercy of: pools go out of rotation, one or several
\* at a time, and come back.
Flip ==
    /\ avail' \in SUBSET PoolIds
    /\ UNCHANGED call

Next == (SelectorNext /\ UNCHANGED avail) \/ Flip

vars == <<avail, call>>

Safety == Init /\ [][Next]_vars

\* A goroutine that runs gets on; nobody has to call, and no pool has to stay
\* up or down.
Fairness == \A c \in Caller : WF_vars(Step(c) /\ UNCHANGED avail)

Spec == Safety /\ Fairness

-----------------------------------------------------------------------------

\* Every selection ends, however often the pools flap meanwhile: SelectFirst
\* scans the pools at most twice for each request (request.go:209-226).
SelectionEnds == \A c \in Caller : InFlight(c) ~> ~InFlight(c)

\* Each match is drawn by as many tickets as its weight and no ticket is lost,
\* for every set of matches a scan comes to; the draw panics only if the weights
\* of the matches do not fit in an int, and then it may (request.go:253-268).
DrawIsProportional ==
    \A c \in Caller :
        LET matches == call[c].matches
            tickets(id) == {t \in 0..Total(matches) - 1 : Drawn(matches, t) = id}
        IN  /\ Matched(c) /\ Weight(matches) <= MaxInt
                 => \A id \in matches : Cardinality(tickets(id)) = PoolOf(id).weight
            /\ call[c].pc = "panicked" => Weight(matches) > MaxInt
=============================================================================
