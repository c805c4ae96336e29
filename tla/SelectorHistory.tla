--------------------------- MODULE SelectorHistory ---------------------------
(***************************************************************************)
(* Selector with a memory of the pools' health since each call began, to    *)
(* compare what the scan concludes with what was true while it ran.         *)
(***************************************************************************)
EXTENDS Selector

VARIABLES
    upAll,          \* the pools that were up all the time since the call began
    upSome          \* the pools that were up at some time since

history == <<upAll, upSome>>

Supported(c) == {k \in DOMAIN call[c].requests : CatalogSupports(Catalog, call[c].requests[k])}

\* The pools that could serve the k-th request of the call.
Eligible(c, k) == {id \in PoolIds : PoolServes(PoolOf(id), call[c].requests[k])}

InRegion(c, k) == {id \in PoolIds : PoolOf(id).region = call[c].requests[k].region}

Servable(c) == UNION {Eligible(c, k) : k \in Supported(c)}

HInit ==
    /\ Init
    /\ upAll = [c \in Caller |-> {}]
    /\ upSome = [c \in Caller |-> {}]

HBegin ==
    \E c \in Caller, rs \in RequestLists :
        /\ Begin(c, rs)
        /\ upAll' = [upAll EXCEPT ![c] = avail]
        /\ upSome' = [upSome EXCEPT ![c] = avail]
        /\ UNCHANGED avail

HStep ==
    /\ \E c \in Caller : Step(c) \/ Return(c)
    /\ UNCHANGED <<avail, history>>

HFlip ==
    /\ Flip
    /\ upAll' = [c \in Caller |-> IF InFlight(c) THEN upAll[c] \cap avail' ELSE upAll[c]]
    /\ upSome' = [c \in Caller |-> IF InFlight(c) THEN upSome[c] \cup avail' ELSE upSome[c]]

HNext == HBegin \/ HStep \/ HFlip

HSpec ==
    /\ HInit
    /\ [][HNext]_<<vars, history>>
    /\ \A c \in Caller : WF_<<vars, history>>(Step(c) /\ UNCHANGED <<avail, history>>)

-----------------------------------------------------------------------------

\* A call fails only if every pool that could have served it was down at some
\* time while it ran: one steady pool is enough, whatever its region and
\* whichever of the client's alternatives it serves (request.go:209-229).
FailsOnlyIfNoPoolStayedUp ==
    \A c \in Caller : call[c].pc = "failed" => Servable(c) \cap upAll[c] = {}

\* A pool that was out of rotation all through the call is never chosen, and
\* neither is one that does not speak the request's protocol or a browser the
\* catalog does not list (request.go:220, 239-247).
ChosenCouldServe ==
    \A c \in Caller :
        call[c].pc = "done" =>
            /\ call[c].i \in Supported(c)
            /\ call[c].chosen \in Eligible(c, call[c].i) \cap upSome[c]

\* A pool of another region is chosen only if no pool of the region the client
\* asked for stayed up, and an alternative of firstMatch only if no earlier one
\* could be served throughout (request.go:209-214, 223-226).
PreferencesKept ==
    \A c \in Caller :
        call[c].pc = "done" =>
            /\ \/ call[c].requests[call[c].i].region = NoRegion
               \/ call[c].chosen \in InRegion(c, call[c].i)
               \/ Eligible(c, call[c].i) \cap InRegion(c, call[c].i) \cap upAll[c] = {}
            /\ \A k \in Supported(c) :
                 k < call[c].i => Eligible(c, k) \cap upAll[c] = {}
=============================================================================
