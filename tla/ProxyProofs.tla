----------------------------- MODULE ProxyProofs -----------------------------
(***************************************************************************)
(* What MCProxy checks with two requests on two pools, proved for every     *)
(* number of requests, every configuration and every choice the clients and *)
(* the backends have.                                                       *)
(***************************************************************************)
EXTENDS Proxy, FiniteSetTheorems, SequenceTheorems, TLAPS

\* The results about the selector alone, for the selector of this composition;
\* its memory of the pools' health plays no part.
SP == INSTANCE SelectorProofs WITH
        Caller <- Req,
        RequestLists <- WebDriverRequests \cup PlaywrightRequests,
        avail <- {id \in PoolIds : H!Available(id)},
        upAll <- {}, upSome <- {}

\* The selector of the composition is the one specified alone: the handlers call
\* it and return from it, and whatever else happens, the reports of other requests
\* above all, only changes which pools are up.
THEOREM SelectorIsUsed == Safety => UsesSelector
<1> DEFINE avail == {id \in PoolIds : H!Available(id)}
<1>1. Init => S!Init
  <2> SUFFICES ASSUME Init
               PROVE  avail = PoolIds
    BY DEF Init, S!Init, S!PoolIds, PoolIds
  <2> QED BY DEF Init, H!Init, H!Available, H!Ejected
<1>2. [Next]_vars => [S!Next]_(S!vars)
  <2> SUFFICES ASSUME [Next]_vars
               PROVE  S!Next \/ UNCHANGED S!vars
    OBVIOUS
  <2>1. ASSUME UNCHANGED call
        PROVE  S!Flip
    BY <2>1 DEF S!Flip, S!PoolIds, PoolIds
  <2>2. ASSUME UNCHANGED health
        PROVE  UNCHANGED avail
    BY <2>2 DEF health, H!Available, H!Ejected
  <2>3. ASSUME NEW r \in Req, UNCHANGED health,
               \/ \E rs \in WebDriverRequests \cup PlaywrightRequests : S!Begin(r, rs)
               \/ S!Step(r)
               \/ S!Return(r)
        PROVE  S!Next
    BY <2>2, <2>3 DEF S!Next, S!SelectorNext, S!Step
  <2>4. ASSUME NEW r \in Req, Outside(r)
        PROVE  S!Next
    <3>1. ASSUME NEW kind, NEW rs \in WebDriverRequests \cup PlaywrightRequests,
                 Arrive(r, kind, rs)
          PROVE  S!Next
      BY <2>3, <3>1 DEF Arrive
    <3>2. CASE \/ \E rs \in WebDriverRequests : Arrive(r, "create", rs)
               \/ \E rs \in PlaywrightRequests : Arrive(r, "playwright", rs)
      BY <3>1, <3>2
    <3>3. CASE \/ \E id \in Known : ForwardSession(r, id)
               \/ \E id \in Known : ForwardSide(r, id)
               \/ ArriveSettings(r)
               \/ Hangup(r)
               \/ Expire(r)
      BY <2>1, <3>3 DEF ForwardSession, ForwardSide, ArriveSettings, Hangup, Expire, S!Next
    <3>4. CASE \/ BackendCreates(r)
               \/ BackendUpgrades(r)
               \/ BackendServes(r)
               \/ BackendRefuses(r)
      BY <2>1, <3>4 DEF BackendCreates, BackendUpgrades, BackendServes, BackendRefuses, S!Next
    <3> QED BY <2>4, <3>2, <3>3, <3>4 DEF Outside
  <2>5. ASSUME NEW r \in Req, Router(r)
        PROVE  S!Next
    <3>1. \/ UNCHANGED health /\ (S!Step(r) \/ S!Return(r))
          \/ UNCHANGED call
      BY <2>5 DEF Router, Select, Refuse, ForwardCreate, ForwardUpgrade, DefaultBackend, Lose,
                  Truncate, Deny, Accept, RewriteSession, RewriteFails, Switch, SwitchFails
    <3> QED BY <3>1, <2>1, <2>3 DEF S!Next
  <2>6. ASSUME \/ \E r \in Req : TunnelEnds(r)
               \/ Scrape
               \/ Tick
        PROVE  UNCHANGED call
    BY <2>6 DEF TunnelEnds, Scrape, Tick
  <2>7. ASSUME UNCHANGED vars
        PROVE  UNCHANGED call
    BY <2>7 DEF vars
  <2> QED BY <2>1, <2>4, <2>5, <2>6, <2>7 DEF Next, S!Next
<1> QED BY <1>1, <1>2, PTL DEF Safety, UsesSelector, S!Safety

\* So what is proved about the selector holds here.
LEMMA SameSelector == S!Safety => SP!Safety
<1>1. S!PoolIds = PoolIds /\ SP!PoolIds = PoolIds /\ S!Idle = SP!Idle
  BY DEF S!PoolIds, SP!PoolIds, PoolIds, S!Idle, SP!Idle
<1>2. \A c : S!Request(c) = SP!Request(c)
  BY DEF S!Request, SP!Request
<1>3. \A q : S!CatalogSupports(Catalog, q) = SP!CatalogSupports(Catalog, q)
  BY DEF S!CatalogSupports, SP!CatalogSupports, S!BrowserServes, SP!BrowserServes,
         S!PrefixMatchAny, SP!PrefixMatchAny, S!IsPrefix, SP!IsPrefix
<1>4. \A m, k : S!WeightUpTo(m, k) = SP!WeightUpTo(m, k)
  BY DEF S!WeightUpTo, SP!WeightUpTo, S!SumFunctionOnSet, SP!SumFunctionOnSet,
         S!FoldFunctionOnSet, SP!FoldFunctionOnSet, S!MapThenFoldSet, SP!MapThenFoldSet
<1>5. \A m : S!Total(m) = SP!Total(m)
  BY <1>4 DEF S!Total, SP!Total, S!Weight, SP!Weight
<1>6. \A m, pick : S!Drawn(m, pick) = SP!Drawn(m, pick)
  BY <1>4 DEF S!Drawn, SP!Drawn, S!Min, SP!Min
<1>7. \A c : S!Scanned(c) = SP!Scanned(c) /\ S!Matched(c) = SP!Matched(c)
  BY DEF S!Scanned, SP!Scanned, S!Matched, SP!Matched
<1>8. \A s : S!SelectFailed(s) = SP!SelectFailed(s)
  BY DEF S!SelectFailed, SP!SelectFailed
<1>9. ASSUME NEW c \in Req
      PROVE  /\ \A rs : S!Begin(c, rs) => SP!Begin(c, rs)
             /\ S!CheckCatalog(c) => SP!CheckCatalog(c)
             /\ S!ScanPool(c) => SP!ScanPool(c)
             /\ S!Widen(c) => SP!Widen(c)
             /\ S!NoMatch(c) => SP!NoMatch(c)
             /\ S!Pick(c) => SP!Pick(c)
             /\ S!Panic(c) => SP!Panic(c)
             /\ S!Return(c) => SP!Return(c)
  <2>1. \A rs : S!Begin(c, rs) => SP!Begin(c, rs)
    BY <1>1 DEF S!Begin, SP!Begin
  <2>2. S!CheckCatalog(c) => SP!CheckCatalog(c)
    BY <1>2, <1>3, <1>8 DEF S!CheckCatalog, SP!CheckCatalog
  <2>3. S!ScanPool(c) => SP!ScanPool(c)
    BY <1>2 DEF S!ScanPool, SP!ScanPool, S!OutOfRegion, SP!OutOfRegion,
                S!PoolServes, SP!PoolServes
  <2>4. S!Widen(c) => SP!Widen(c)
    BY <1>2, <1>7 DEF S!Widen, SP!Widen, S!MayWiden, SP!MayWiden
  <2>5. S!NoMatch(c) => SP!NoMatch(c)
    BY <1>2, <1>7, <1>8 DEF S!NoMatch, SP!NoMatch, S!MayWiden, SP!MayWiden
  <2>6. S!Pick(c) => SP!Pick(c)
    BY <1>5, <1>6, <1>7 DEF S!Pick, SP!Pick
  <2>7. S!Panic(c) => SP!Panic(c)
    BY <1>5, <1>7 DEF S!Panic, SP!Panic
  <2>8. S!Return(c) => SP!Return(c)
    BY <1>1 DEF S!Return, SP!Return
  <2> QED BY <2>1, <2>2, <2>3, <2>4, <2>5, <2>6, <2>7, <2>8
<1>10. S!Init => SP!Init
  BY <1>1 DEF S!Init, SP!Init
<1>11. [S!Next]_(S!vars) => [SP!Next]_(SP!vars)
  <2>1. S!SelectorNext => SP!SelectorNext
    BY <1>9 DEF S!SelectorNext, SP!SelectorNext
  <2>2. S!Flip => SP!Flip
    BY <1>1 DEF S!Flip, SP!Flip
  <2>3. S!vars = SP!vars
    BY DEF S!vars, SP!vars
  <2> QED BY <2>1, <2>2, <2>3 DEF S!Next, SP!Next, S!vars, SP!vars
<1> QED BY <1>10, <1>11, PTL DEF S!Safety, SP!Safety

LEMMA SelectorTyping == Safety => []S!TypeOK
<1>1. /\ SP!PoolsAssumption /\ SP!RequestsAssumption
  BY PoolsAssumption, RequestsAssumption
  DEF SP!PoolsAssumption, SP!RequestsAssumption, SP!Range, SP!PoolIds
<1>2. SP!Safety => []SP!TypeOK
  BY <1>1, SP!Typing
<1>3. SP!TypeOK => S!TypeOK
  BY DEF S!TypeOK, SP!TypeOK, S!CallType, SP!CallType, S!PoolIds, SP!PoolIds,
         S!InFlight, SP!InFlight
<1> QED BY <1>2, <1>3, SelectorIsUsed, SameSelector, PTL DEF UsesSelector

-----------------------------------------------------------------------------
\* The inductive invariant. It says of each request, alone, how far it has come
\* and what is true of it there.

\* Until a request is placed nothing is known of it but its kind.
Unplaced(q) ==
    q.pc \in {"new", "selecting", "scanning"} =>
        /\ q.pool = NoPool /\ q.upstream = NoId /\ q.key = NoId /\ q.target = NoId
        /\ q.wire = "none" /\ q.verdicts = <<>> /\ q.records = <<>> /\ q.answer = "none"

\* A request that was sent has a pool, and a Playwright one an id of the router's.
Placed(q) ==
    /\ q.pc = "selecting" => q.kind \in {"create", "playwright"}
    /\ q.pc = "scanning" => q.kind = "settings"
    /\ q.pc \in {"sent", "rewriting", "switching", "tunnel"} => q.wire # "none"
    /\ q.wire # "none" => /\ q.pool \in PoolIds
                          /\ q.kind = "playwright" => q.upstream \in MintedIds

\* Only an accepted reply is looked at further, of the kind that is looked for.
Accepted(q) ==
    /\ q.pc = "rewriting" => q.kind = "create" /\ q.wire \in {"ok", "unusable"}
    /\ q.pc = "switching" => q.wire = "upgrade"
    /\ q.pc = "tunnel" =>
         /\ q.wire = "upgrade"
         /\ q.answer \in IF q.kind = "playwright" THEN {"session", "unread"} ELSE {"relayed"}
    /\ q.wire = "unusable" => q.kind = "create"
    /\ q.wire = "upgrade" => q.kind # "create"
    /\ q.wire = "ok" => q.kind # "playwright"

\* The backend keeps a session exactly when its reply may promise one, and the
\* client is given the id of none but a session that is kept. The id is written to
\* nobody only where the client left, or its time was up.
Kept(q) ==
    /\ q.kind = "create" /\ q.wire \in {"ok", "unusable"} => q.stored
    /\ q.kind = "playwright" /\ q.wire = "upgrade" => q.stored
    /\ q.stored => /\ q.kind \in {"create", "playwright"}
                   /\ q.wire \in {"ok", "unusable", "unhealthy", "upgrade"}
                   /\ q.kind = "create" => q.upstream \in WebDriverIds
    /\ q.answer = "session" => q.stored /\ q.pc \in {"done", "tunnel"}
    /\ q.answer = "unread" => q.client # "there"

\* A request that names a session goes where the public id says.
Addressed(q) ==
    q.target # NoId =>
        /\ q.kind \in {"session", "side"}
        /\ q.target \in PublicIds
        /\ q.pool = q.target.token
        /\ q.key = IF q.kind = "session" THEN q.target.upstream ELSE SideKey(q.target)

\* What was reported and what was recorded, at each point of a handler.
Account(q) == <<q.verdicts, q.records>>

\* A handler that is done without a failure has lost no session but one whose
\* client was not there to read of it; the failures it reported are recorded, but for those of a reply that broke off or named no
\* session.
Settled(q) ==
    \/ /\ Account(q) \in { << <<>>, <<>> >>, << <<>>, <<"client_error">> >>,
                           << <<"success">>, <<"success">> >> }
       /\ q.wire # "pending"
       /\ q.stored => q.answer \in {"session", "unread"}
    \/ Account(q) \in { << <<"failure">>, <<"error">> >>, << <<"failure">>, <<"failure">> >>,
                        << <<"success", "failure">>, <<"success", "error">> >> }
    \/ /\ Account(q) \in { << <<"failure">>, <<>> >>, << <<"success", "failure">>, <<"success">> >> }
       /\ q.kind = "create" /\ q.wire \notin {"none", "pending"} /\ q.answer = "502"

Accounted(q) ==
    /\ q.pc = "sent" => Account(q) = << <<>>, <<>> >> /\ q.answer = "none"
    /\ q.pc \in {"rewriting", "switching"} =>
         Account(q) = << <<"success">>, <<"success">> >> /\ q.answer = "none"
    /\ q.pc = "tunnel" => Account(q) = << <<"success">>, <<"success">> >>
    /\ q.pc = "done" => Settled(q)

Good(q) ==
    /\ q \in ReqType
    /\ Unplaced(q) /\ Placed(q) /\ Accepted(q) /\ Kept(q) /\ Addressed(q) /\ Accounted(q)

Inv == req \in [Req -> ReqType] /\ \A r \in Req : Good(req[r])

-----------------------------------------------------------------------------

LEMMA NewIsGood == Good(NewRequest)
<1>1. NewRequest \in ReqType
  BY DEF NewRequest, ReqType, Stages, Replies, Verdicts, Records, Answers
<1> QED BY <1>1 DEF NewRequest, Good, Unplaced, Placed, Accepted, Kept, Addressed, Accounted

LEMMA GoodStays ==
    ASSUME Inv, UNCHANGED req
    PROVE  Inv'
BY DEF Inv, Good, Unplaced, Placed, Accepted, Kept, Addressed, Accounted, Settled, Account, SideKey,
       PublicIds, ReqType, Verdicts, Records, PoolIds

LEMMA BecomesGood ==
    ASSUME Inv, NEW r \in Req, NEW state, Good(state), Becomes(r, state)
    PROVE  Inv'
<1>1. state \in ReqType /\ req' = [req EXCEPT ![r] = state]
  BY DEF Good, Becomes
<1>2. req' \in [Req -> ReqType]
  BY <1>1 DEF Inv
<1>3. ASSUME NEW q \in Req
      PROVE  Good(req'[q])
  BY <1>1, <1>3 DEF Inv
<1>4. \A q \in Req : Good(req[q])' <=> Good(req'[q])
  BY DEF Good, Unplaced, Placed, Accepted, Kept, Addressed, Accounted, Settled, Account, SideKey, PublicIds,
         ReqType, Verdicts, Records, PoolIds
<1> QED BY <1>2, <1>3, <1>4 DEF Inv

LEMMA GoodRequest ==
    ASSUME Inv, NEW r \in Req
    PROVE  Good(req[r])
BY DEF Inv

\* One field of a request at a time.
LEMMA UpdateLemma ==
    ASSUME NEW q \in ReqType
    PROVE  /\ \A x \in Kinds : [q EXCEPT !.kind = x] \in ReqType
           /\ \A x \in Stages : [q EXCEPT !.pc = x] \in ReqType
           /\ \A x \in Nat \ {0} : [q EXCEPT !.at = x] \in ReqType
           /\ \A x \in PoolIds : [q EXCEPT !.pool = x] \in ReqType
           /\ \A x \in Ids : [q EXCEPT !.upstream = x] \in ReqType
           /\ \A x \in Ids \cup PublicIds : [q EXCEPT !.key = x] \in ReqType
           /\ \A x \in PublicIds : [q EXCEPT !.target = x] \in ReqType
           /\ \A x \in BOOLEAN : [q EXCEPT !.stored = x] \in ReqType
           /\ \A x \in Replies : [q EXCEPT !.wire = x] \in ReqType
           /\ \A x \in {"late", "gone"} : [q EXCEPT !.client = x] \in ReqType
           /\ \A x \in Verdicts : [q EXCEPT !.verdicts = x] \in ReqType
           /\ \A x \in {"upstream", "client"} : [q EXCEPT !.blame = x] \in ReqType
           /\ \A x \in Records : [q EXCEPT !.records = x] \in ReqType
           /\ \A x \in Answers : [q EXCEPT !.answer = x] \in ReqType
<1>1. /\ \A x \in Kinds : [q EXCEPT !.kind = x] \in ReqType
      /\ \A x \in Stages : [q EXCEPT !.pc = x] \in ReqType
      /\ \A x \in Nat \ {0} : [q EXCEPT !.at = x] \in ReqType
  BY DEF ReqType
<1>2. /\ \A x \in PoolIds : [q EXCEPT !.pool = x] \in ReqType
      /\ \A x \in Ids : [q EXCEPT !.upstream = x] \in ReqType
      /\ \A x \in Ids \cup PublicIds : [q EXCEPT !.key = x] \in ReqType
  BY DEF ReqType
<1>3. /\ \A x \in PublicIds : [q EXCEPT !.target = x] \in ReqType
      /\ \A x \in BOOLEAN : [q EXCEPT !.stored = x] \in ReqType
      /\ \A x \in Replies : [q EXCEPT !.wire = x] \in ReqType
      /\ \A x \in {"late", "gone"} : [q EXCEPT !.client = x] \in ReqType
  BY DEF ReqType
<1>4. /\ \A x \in Verdicts : [q EXCEPT !.verdicts = x] \in ReqType
      /\ \A x \in {"upstream", "client"} : [q EXCEPT !.blame = x] \in ReqType
  BY DEF ReqType
<1>5. /\ \A x \in Records : [q EXCEPT !.records = x] \in ReqType
      /\ \A x \in Answers : [q EXCEPT !.answer = x] \in ReqType
  BY DEF ReqType
<1> QED BY <1>1, <1>2, <1>3, <1>4, <1>5

\* What a step of a handler leaves as it was once the request has been sent.
Alike(p, q) ==
    /\ p.kind = q.kind /\ p.pool = q.pool /\ p.upstream = q.upstream /\ p.key = q.key
    /\ p.target = q.target /\ p.stored = q.stored /\ p.wire = q.wire /\ p.client = q.client

LEMMA StateLemma ==
    ASSUME NEW q \in ReqType
    PROVE  /\ \A fault \in {"upstream", "client"} :
                LET p == Failed(q, fault)
                IN  /\ p \in ReqType /\ Alike(p, q)
                    /\ p.verdicts = Append(q.verdicts, "failure") /\ p.records = q.records
                    /\ p.pc = q.pc /\ p.answer = q.answer
           /\ \A outcome \in Outcomes :
                LET p == Recorded(q, outcome)
                IN  /\ p \in ReqType /\ Alike(p, q)
                    /\ p.verdicts = q.verdicts /\ p.records = Append(q.records, outcome)
                    /\ p.pc = q.pc /\ p.answer = q.answer
           /\ \A answer \in Answers :
                LET p == Answered(q, answer)
                IN  /\ p \in ReqType /\ Alike(p, q)
                    /\ p.verdicts = q.verdicts /\ p.records = q.records
                    /\ p.pc = "done" /\ p.answer = answer
<1>1. /\ Append(q.verdicts, "failure") \in Verdicts
      /\ \A outcome \in Outcomes : Append(q.records, outcome) \in Records
  BY DEF ReqType, Verdicts, Records
<1>2. ASSUME NEW fault \in {"upstream", "client"}
      PROVE  Failed(q, fault) \in ReqType
  <2>1. [q EXCEPT !.verdicts = Append(q.verdicts, "failure")] \in ReqType
    BY ONLY <1>1, q \in ReqType, UpdateLemma
  <2> DEFINE mid == [q EXCEPT !.verdicts = Append(q.verdicts, "failure")]
  <2> HIDE DEF mid
  <2>2. [mid EXCEPT !.blame = fault] \in ReqType
    BY ONLY <2>1, <1>2, UpdateLemma DEF mid
  <2> QED BY ONLY <2>2 DEF Failed, mid
<1>3. ASSUME NEW outcome \in Outcomes
      PROVE  Recorded(q, outcome) \in ReqType
  BY ONLY <1>1, <1>3, q \in ReqType, UpdateLemma DEF Recorded
<1>4. ASSUME NEW answer \in Answers
      PROVE  Answered(q, answer) \in ReqType
  <2>1. [q EXCEPT !.pc = "done"] \in ReqType
    BY ONLY q \in ReqType, UpdateLemma DEF Stages
  <2> DEFINE mid == [q EXCEPT !.pc = "done"]
  <2> HIDE DEF mid
  <2>2. [mid EXCEPT !.answer = answer] \in ReqType
    BY ONLY <2>1, <1>4, UpdateLemma DEF mid
  <2> QED BY ONLY <2>2 DEF Answered, mid
<1>5. ASSUME NEW fault
      PROVE  LET p == Failed(q, fault)
             IN  /\ Alike(p, q)
                 /\ p.verdicts = Append(q.verdicts, "failure") /\ p.records = q.records
                 /\ p.pc = q.pc /\ p.answer = q.answer
  BY DEF ReqType, Alike, Failed
<1>6. ASSUME NEW outcome
      PROVE  LET p == Recorded(q, outcome)
             IN  /\ Alike(p, q)
                 /\ p.verdicts = q.verdicts /\ p.records = Append(q.records, outcome)
                 /\ p.pc = q.pc /\ p.answer = q.answer
  BY DEF ReqType, Alike, Recorded
<1>7. ASSUME NEW answer
      PROVE  LET p == Answered(q, answer)
             IN  /\ Alike(p, q)
                 /\ p.verdicts = q.verdicts /\ p.records = q.records
                 /\ p.pc = "done" /\ p.answer = answer
  BY DEF ReqType, Alike, Answered
<1> QED BY ONLY <1>2, <1>3, <1>4, <1>5, <1>6, <1>7

\* A handler that ends leaves a request that is well settled.
LEMMA EndIsGood ==
    ASSUME NEW q, Good(q), q.wire # "none",
           NEW new \in ReqType, Alike(new, q), new.pc = "done",
           new.answer = "session" => q.stored,
           new.answer = "unread" => q.client # "there",
           Settled(new)
    PROVE  Good(new)
<1>1. Unplaced(new) /\ Placed(new) /\ Accepted(new)
  BY DEF Alike, Good, Unplaced, Placed, Accepted
<1>2. Kept(new) /\ Addressed(new)
  BY DEF Alike, Good, Kept, Addressed
<1>3. Accounted(new)
  BY DEF Accounted
<1> QED BY <1>1, <1>2, <1>3 DEF Good

\* Before a request is placed.
LEMMA Choosing ==
    ASSUME Inv, S!TypeOK, NEW r \in Req,
           \/ \E rs \in WebDriverRequests : "create" \in Kinds /\ Arrive(r, "create", rs)
           \/ \E rs \in PlaywrightRequests : "playwright" \in Kinds /\ Arrive(r, "playwright", rs)
           \/ "settings" \in Kinds /\ ArriveSettings(r)
           \/ Select(r) \/ Refuse(r) \/ ForwardCreate(r) \/ ForwardUpgrade(r) \/ DefaultBackend(r)
    PROVE  Inv'
<1> DEFINE q == req[r]
<1>1. Good(q)
  BY GoodRequest
<1>0. q \in ReqType
  BY <1>1 DEF Good
<1>2. ASSUME NEW kind \in Kinds \cap {"create", "playwright"}, NEW rs, Arrive(r, kind, rs)
      PROVE  Inv'
  <2> DEFINE new == [q EXCEPT !.kind = kind, !.pc = "selecting"]
  <2>1. q.pc = "new"
    BY <1>2 DEF Arrive
  <2>2. new \in ReqType
    BY ONLY <1>0, <1>2, UpdateLemma DEF Stages
  <2>3. /\ new.kind = kind /\ new.pc = "selecting" /\ new.pool = q.pool
        /\ new.upstream = q.upstream /\ new.key = q.key /\ new.target = q.target
        /\ new.stored = q.stored /\ new.wire = q.wire /\ new.verdicts = q.verdicts
        /\ new.records = q.records /\ new.answer = q.answer /\ new.client = q.client
    BY ONLY <1>0 DEF ReqType
  <2> HIDE DEF new
  <2>4. Good(new)
    BY <1>1, <1>2, <2>1, <2>2, <2>3 DEF Good, Unplaced, Placed, Accepted, Kept, Addressed, Accounted
  <2> QED BY ONLY <1>2, <2>4, Inv, r \in Req, BecomesGood DEF Arrive, new
<1>3. ASSUME ArriveSettings(r), "settings" \in Kinds
      PROVE  Inv'
  <2> DEFINE new == [q EXCEPT !.kind = "settings", !.pc = "scanning"]
  <2>1. q.pc = "new"
    BY <1>3 DEF ArriveSettings
  <2>2. new \in ReqType
    BY ONLY <1>0, <1>3, UpdateLemma DEF Stages
  <2>3. /\ new.kind = "settings" /\ new.pc = "scanning" /\ new.pool = q.pool
        /\ new.upstream = q.upstream /\ new.key = q.key /\ new.target = q.target
        /\ new.stored = q.stored /\ new.wire = q.wire /\ new.verdicts = q.verdicts
        /\ new.records = q.records /\ new.answer = q.answer /\ new.client = q.client
    BY ONLY <1>0 DEF ReqType
  <2> HIDE DEF new
  <2>4. Good(new)
    BY <1>1, <2>1, <2>2, <2>3 DEF Good, Unplaced, Placed, Accepted, Kept, Addressed, Accounted
  <2> QED BY ONLY <1>3, <2>4, Inv, r \in Req, BecomesGood DEF ArriveSettings, new
<1>4. ASSUME Select(r)
      PROVE  Inv'
  BY ONLY <1>4, Inv, GoodStays DEF Select
<1>5. ASSUME NEW answer \in {"400", "503"}, q.pc \in {"selecting", "scanning"},
             Becomes(r, [q EXCEPT !.pc = "done", !.answer = answer])
      PROVE  Inv'
  <2> DEFINE new == [q EXCEPT !.pc = "done", !.answer = answer]
  <2>2. new \in ReqType
    BY ONLY <1>0, <1>5, UpdateLemma DEF Stages, Answers
  <2>3. /\ new.kind = q.kind /\ new.pc = "done" /\ new.pool = q.pool
        /\ new.upstream = q.upstream /\ new.key = q.key /\ new.target = q.target
        /\ new.stored = q.stored /\ new.wire = q.wire /\ new.verdicts = q.verdicts
        /\ new.records = q.records /\ new.answer = answer /\ new.client = q.client
    BY ONLY <1>0 DEF ReqType
  <2> HIDE DEF new
  <2>4. Good(new)
    BY <1>1, <1>5, <2>2, <2>3
    DEF Good, Unplaced, Placed, Accepted, Kept, Addressed, Accounted, Settled, Account
  <2> QED BY ONLY <1>5, <2>4, Inv, r \in Req, BecomesGood DEF new
<1>6. ASSUME NEW id \in PoolIds,
             \/ q.pc = "selecting" /\ q.kind = "create"
             \/ q.pc = "scanning",
             Becomes(r, [q EXCEPT !.pc = "sent", !.pool = id, !.wire = "pending"])
      PROVE  Inv'
  <2> DEFINE new == [q EXCEPT !.pc = "sent", !.pool = id, !.wire = "pending"]
  <2>2. new \in ReqType
    BY ONLY <1>0, <1>6, UpdateLemma DEF Stages, Replies
  <2>3. /\ new.kind = q.kind /\ new.pc = "sent" /\ new.pool = id
        /\ new.upstream = q.upstream /\ new.key = q.key /\ new.target = q.target
        /\ new.stored = q.stored /\ new.wire = "pending" /\ new.verdicts = q.verdicts
        /\ new.records = q.records /\ new.answer = q.answer /\ new.client = q.client
    BY ONLY <1>0 DEF ReqType
  <2> HIDE DEF new
  <2>4. Good(new)
    BY <1>1, <1>6, <2>2, <2>3
    DEF Good, Unplaced, Placed, Accepted, Kept, Addressed, Accounted, Account
  <2> QED BY ONLY <1>6, <2>4, Inv, r \in Req, BecomesGood DEF new
<1>7. ASSUME ForwardUpgrade(r)
      PROVE  Inv'
  <2>1. PICK id \in MintedIds :
          Becomes(r, [q EXCEPT !.pc = "sent", !.pool = call[r].chosen, !.upstream = id,
                               !.key = PublicId(call[r].chosen, id), !.wire = "pending"])
    BY <1>7 DEF ForwardUpgrade
  <2> DEFINE pool == call[r].chosen
             key == PublicId(pool, id)
             new == [q EXCEPT !.pc = "sent", !.pool = pool, !.upstream = id, !.key = key,
                              !.wire = "pending"]
  <2>2. q.pc = "selecting" /\ q.kind = "playwright" /\ pool \in PoolIds
    BY <1>7 DEF ForwardUpgrade, S!TypeOK, S!PoolIds, PoolIds
  <2>3. key \in PublicIds /\ id \in Ids
    BY <2>2 DEF PublicId, PublicIds, Ids
  <2> HIDE DEF key, pool
  <2>4. new \in ReqType
    BY ONLY <1>0, <2>2, <2>3, UpdateLemma DEF Stages, Replies
  <2>5. /\ new.kind = q.kind /\ new.pc = "sent" /\ new.pool = pool
        /\ new.upstream = id /\ new.key = key /\ new.target = q.target
        /\ new.stored = q.stored /\ new.wire = "pending" /\ new.verdicts = q.verdicts
        /\ new.records = q.records /\ new.answer = q.answer /\ new.client = q.client
    BY ONLY <1>0 DEF ReqType
  <2> HIDE DEF new
  <2>6. Good(new)
    BY <1>1, <2>2, <2>4, <2>5
    DEF Good, Unplaced, Placed, Accepted, Kept, Addressed, Accounted, Account
  <2> QED BY ONLY <2>1, <2>6, Inv, r \in Req, BecomesGood DEF new, key, pool
<1>8. ASSUME DefaultBackend(r)
      PROVE  Inv'
  <2>1. q.pc = "scanning"
    BY <1>8 DEF DefaultBackend
  <2>2. CASE q.at > Len(Pools)
    BY <1>5, <1>8, <2>1, <2>2 DEF DefaultBackend
  <2>3. CASE ~(q.at > Len(Pools))
    <3> DEFINE id == Pools[q.at].id
               at == q.at + 1
               new == [q EXCEPT !.at = at]
    <3>1. q.at \in 1..Len(Pools) /\ at \in Nat \ {0}
      BY <1>0, <2>3, PoolsAssumption DEF ReqType
    <3>2. id \in PoolIds
      BY <3>1, PoolsAssumption DEF PoolIds
    <3>3. \/ Becomes(r, [q EXCEPT !.pc = "sent", !.pool = id, !.wire = "pending"])
          \/ Becomes(r, new)
      BY <1>8, <2>3 DEF DefaultBackend
    <3> HIDE DEF at, id
    <3>4. new \in ReqType
      BY ONLY <1>0, <3>1, UpdateLemma
    <3>5. /\ new.kind = q.kind /\ new.pc = q.pc /\ new.pool = q.pool
          /\ new.upstream = q.upstream /\ new.key = q.key /\ new.target = q.target
          /\ new.stored = q.stored /\ new.wire = q.wire /\ new.verdicts = q.verdicts
          /\ new.records = q.records /\ new.answer = q.answer /\ new.client = q.client
      BY ONLY <1>0 DEF ReqType
    <3> HIDE DEF new
    <3>6. Good(new)
      BY <1>1, <2>1, <3>4, <3>5
      DEF Good, Unplaced, Placed, Accepted, Kept, Addressed, Accounted
    <3>7. CASE Becomes(r, [q EXCEPT !.pc = "sent", !.pool = id, !.wire = "pending"])
      BY ONLY <3>7, <3>2, <2>1, <1>6
    <3> QED BY ONLY <3>3, <3>6, <3>7, Inv, r \in Req, BecomesGood
  <2> QED BY ONLY <2>2, <2>3
<1>9. ASSUME ForwardCreate(r)
      PROVE  Inv'
  <2>1. q.pc = "selecting" /\ q.kind = "create" /\ call[r].chosen \in PoolIds
    BY <1>9 DEF ForwardCreate, S!TypeOK, S!PoolIds, PoolIds
  <2> QED BY ONLY <1>6, <1>9, <2>1 DEF ForwardCreate
<1>10. ASSUME Refuse(r)
       PROVE  Inv'
  BY ONLY <1>5, <1>10 DEF Refuse
<1> QED BY <1>2, <1>3, <1>4, <1>7, <1>8, <1>9, <1>10

\* The ids clients were given are public ids.
LEMMA KnownIds ==
    ASSUME Inv
    PROVE  Known \subseteq PublicIds
<1>1. ASSUME NEW r \in Req, req[r].answer = "session"
      PROVE  req[r].pool \in PoolIds /\ req[r].upstream \in WebDriverIds \cup MintedIds
  <2>1. Good(req[r])
    BY GoodRequest
  <2> QED BY <1>1, <2>1 DEF Good, Kept, Placed
<1> QED BY <1>1 DEF Known, PublicId, PublicIds

\* Clients that name a session or hang up, and what the backends do.
LEMMA Outsiders ==
    ASSUME Inv, NEW r \in Req,
           \/ \E id \in Known : "session" \in Kinds /\ ForwardSession(r, id)
           \/ \E id \in Known : "side" \in Kinds /\ ForwardSide(r, id)
           \/ Hangup(r) \/ Expire(r)
           \/ BackendCreates(r) \/ BackendUpgrades(r) \/ BackendServes(r) \/ BackendRefuses(r)
    PROVE  Inv'
<1> DEFINE q == req[r]
<1>1. Good(q)
  BY GoodRequest
<1>0. q \in ReqType
  BY <1>1 DEF Good
<1>2. ASSUME NEW id \in Known, NEW kind \in Kinds \cap {"session", "side"},
             NEW key, key = IF kind = "session" THEN id.upstream ELSE SideKey(id),
             q.pc = "new",
             Becomes(r, [q EXCEPT !.kind = kind, !.pc = "sent", !.target = id,
                                  !.pool = id.token, !.key = key, !.wire = "pending"])
      PROVE  Inv'
  <2> DEFINE new == [q EXCEPT !.kind = kind, !.pc = "sent", !.target = id,
                              !.pool = id.token, !.key = key, !.wire = "pending"]
  <2>1. id \in PublicIds
    BY <1>2, KnownIds
  <2>2. id.token \in PoolIds /\ key \in Ids \cup PublicIds
    BY <1>2, <2>1 DEF PublicIds, Ids, SideKey
  <2>3. new \in ReqType
    BY ONLY <1>0, <1>2, <2>1, <2>2, UpdateLemma DEF Stages, Replies
  <2>4. /\ new.kind = kind /\ new.pc = "sent" /\ new.pool = id.token
        /\ new.upstream = q.upstream /\ new.key = key /\ new.target = id
        /\ new.stored = q.stored /\ new.wire = "pending" /\ new.verdicts = q.verdicts
        /\ new.records = q.records /\ new.answer = q.answer /\ new.client = q.client
    BY ONLY <1>0 DEF ReqType
  <2> HIDE DEF new
  <2>5. Unplaced(new) /\ Placed(new) /\ Accepted(new)
    BY <1>1, <1>2, <2>2, <2>4 DEF Good, Unplaced, Placed, Accepted
  <2>6. Kept(new) /\ Accounted(new)
    BY <1>1, <1>2, <2>4 DEF Good, Unplaced, Kept, Accounted, Account
  <2>7. Addressed(new)
    BY <1>2, <2>1, <2>4 DEF Addressed
  <2> QED BY ONLY <1>2, <2>3, <2>5, <2>6, <2>7, Inv, r \in Req, BecomesGood DEF Good, new
<1>3. ASSUME NEW id \in Known, "session" \in Kinds, ForwardSession(r, id)
      PROVE  Inv'
  BY <1>2, <1>3 DEF ForwardSession
<1>4. ASSUME NEW id \in Known, "side" \in Kinds, ForwardSide(r, id)
      PROVE  Inv'
  <2>1. /\ "side" \in Kinds \cap {"session", "side"}
        /\ SideKey(id) = IF "side" = "session" THEN id.upstream ELSE SideKey(id)
    BY <1>4
  <2>2. /\ q.pc = "new"
        /\ Becomes(r, [q EXCEPT !.kind = "side", !.pc = "sent", !.target = id,
                                !.pool = id.token, !.key = SideKey(id), !.wire = "pending"])
    BY <1>4 DEF ForwardSide
  <2> QED BY ONLY <1>2, <1>4, <2>1, <2>2
<1>5. ASSUME NEW client \in {"late", "gone"}, Becomes(r, [q EXCEPT !.client = client])
      PROVE  Inv'
  <2> DEFINE new == [q EXCEPT !.client = client]
  <2>2. new \in ReqType
    BY ONLY <1>0, <1>5, UpdateLemma
  <2>3. /\ new.kind = q.kind /\ new.pc = q.pc /\ new.pool = q.pool
        /\ new.upstream = q.upstream /\ new.key = q.key /\ new.target = q.target
        /\ new.stored = q.stored /\ new.wire = q.wire /\ new.verdicts = q.verdicts
        /\ new.records = q.records /\ new.answer = q.answer /\ new.client = client
    BY ONLY <1>0 DEF ReqType
  <2> HIDE DEF new
  <2>4. Good(new)
    BY <1>1, <1>5, <2>2, <2>3
    DEF Good, Unplaced, Placed, Accepted, Kept, Addressed, Accounted, Settled, Account
  <2> QED BY ONLY <1>5, <2>4, Inv, r \in Req, BecomesGood DEF new
<1>6. ASSUME NEW wire \in Replies, wire \notin {"none", "pending", "unusable", "upgrade"},
             wire = "ok" => q.kind \in {"session", "side", "settings"}, q.wire = "pending",
             Becomes(r, [q EXCEPT !.wire = wire])
      PROVE  Inv'
  <2> DEFINE new == [q EXCEPT !.wire = wire]
  <2>2. new \in ReqType
    BY ONLY <1>0, <1>6, UpdateLemma
  <2>3. /\ new.kind = q.kind /\ new.pc = q.pc /\ new.pool = q.pool
        /\ new.upstream = q.upstream /\ new.key = q.key /\ new.target = q.target
        /\ new.stored = q.stored /\ new.wire = wire /\ new.verdicts = q.verdicts
        /\ new.records = q.records /\ new.answer = q.answer /\ new.client = q.client
    BY ONLY <1>0 DEF ReqType
  <2> HIDE DEF new
  <2>4. Good(new)
    BY <1>1, <1>6, <2>2, <2>3
    DEF Good, Unplaced, Placed, Accepted, Kept, Addressed, Accounted, Settled, Account
  <2> QED BY ONLY <1>6, <2>4, Inv, r \in Req, BecomesGood DEF new
<1>7. ASSUME BackendUpgrades(r)
      PROVE  Inv'
  <2> DEFINE starts == q.kind = "playwright"
             new == [q EXCEPT !.stored = starts, !.wire = "upgrade"]
  <2>1. q.kind # "create" /\ q.wire = "pending" /\ starts \in BOOLEAN
    BY <1>7 DEF BackendUpgrades
  <2>2. new \in ReqType
    BY ONLY <1>0, <2>1, UpdateLemma DEF Replies
  <2>3. /\ new.kind = q.kind /\ new.pc = q.pc /\ new.pool = q.pool
        /\ new.upstream = q.upstream /\ new.key = q.key /\ new.target = q.target
        /\ new.stored = starts /\ new.wire = "upgrade" /\ new.verdicts = q.verdicts
        /\ new.records = q.records /\ new.answer = q.answer /\ new.client = q.client
    BY ONLY <1>0 DEF ReqType
  <2> HIDE DEF new
  <2>4. Good(new)
    BY <1>1, <2>1, <2>2, <2>3
    DEF Good, Unplaced, Placed, Accepted, Kept, Addressed, Accounted, Settled, Account
  <2> QED BY ONLY <1>7, <2>4, Inv, r \in Req, BecomesGood DEF BackendUpgrades, new
<1>8. ASSUME BackendCreates(r)
      PROVE  Inv'
  <2>1. PICK id \in WebDriverIds, answer \in {"ok", "unusable", "unhealthy"} :
          Becomes(r, [q EXCEPT !.upstream = id, !.stored = TRUE, !.wire = answer])
    BY <1>8 DEF BackendCreates
  <2>2. q.kind = "create" /\ q.wire = "pending"
    BY <1>8 DEF BackendCreates
  <2> DEFINE new == [q EXCEPT !.upstream = id, !.stored = TRUE, !.wire = answer]
  <2>3. new \in ReqType
    BY ONLY <1>0, <2>1, UpdateLemma DEF Ids, Replies
  <2>4. /\ new.kind = q.kind /\ new.pc = q.pc /\ new.pool = q.pool
        /\ new.upstream = id /\ new.key = q.key /\ new.target = q.target
        /\ new.stored = TRUE /\ new.wire = answer /\ new.verdicts = q.verdicts
        /\ new.records = q.records /\ new.answer = q.answer /\ new.client = q.client
    BY ONLY <1>0 DEF ReqType
  <2> HIDE DEF new
  <2>5. Good(new)
    BY <1>1, <2>1, <2>2, <2>3, <2>4
    DEF Good, Unplaced, Placed, Accepted, Kept, Addressed, Accounted, Settled, Account
  <2> QED BY ONLY <2>1, <2>5, Inv, r \in Req, BecomesGood DEF new
<1>9. ASSUME BackendServes(r)
      PROVE  Inv'
  BY <1>6, <1>9 DEF BackendServes, Replies
<1>10. ASSUME BackendRefuses(r)
       PROVE  Inv'
  BY <1>6, <1>10 DEF BackendRefuses, Replies
<1>11. ASSUME Hangup(r) \/ Expire(r)
       PROVE  Inv'
  BY <1>5, <1>11 DEF Hangup, Expire
<1> QED BY <1>3, <1>4, <1>7, <1>8, <1>9, <1>10, <1>11

\* The first things an account says.
LEMMA Accounts ==
    /\ \A x : Append(<<>>, x) = <<x>>
    /\ \A x, y : Append(<<x>>, y) = <<x, y>>
<1>1. ASSUME NEW x
      PROVE  Append(<<>>, x) = <<x>>
  <2> DEFINE s == Append(<<>>, x)
  <2>1. s \in Seq({x}) /\ Len(s) = 1 /\ s[1] = x
    BY <<>> \in Seq({x}), Len(<<>>) = 0
  <2>2. <<x>> \in Seq({x}) /\ Len(<<x>>) = 1 /\ <<x>>[1] = x
    OBVIOUS
  <2> HIDE DEF s
  <2>3. s = <<x>>
    BY <2>1, <2>2, SeqEqual
  <2> QED BY <2>3 DEF s
<1>2. ASSUME NEW x, NEW y
      PROVE  Append(<<x>>, y) = <<x, y>>
  <2> DEFINE s == Append(<<x>>, y)
  <2>1. <<x>> \in Seq({x, y}) /\ Len(<<x>>) = 1 /\ <<x>>[1] = x
    OBVIOUS
  <2>2. /\ s \in Seq({x, y}) /\ Len(s) = 2
        /\ s[1] = x /\ s[2] = y
    BY <2>1, AppendProperties
  <2>3. <<x, y>> \in Seq({x, y}) /\ Len(<<x, y>>) = 2 /\ <<x, y>>[1] = x /\ <<x, y>>[2] = y
    OBVIOUS
  <2> HIDE DEF s
  <2>4. \A i \in 1..Len(s) : s[i] = <<x, y>>[i]
    BY <2>2, <2>3
  <2>5. s = <<x, y>>
    BY <2>2, <2>3, <2>4, SeqEqual
  <2> QED BY <2>5 DEF s
<1> QED BY <1>1, <1>2

\* What becomes of a request that was sent, or accepted.
LEMMA Ending ==
    ASSUME Inv, NEW r \in Req,
           \/ Lose(r) \/ Truncate(r) \/ Deny(r)
           \/ RewriteSession(r) \/ RewriteFails(r) \/ Switch(r) \/ SwitchFails(r) \/ TunnelEnds(r)
    PROVE  Inv'
<1> DEFINE q == req[r]
<1>1. Good(q)
  BY GoodRequest
<1>2. q \in ReqType
  BY <1>1 DEF Good
<1>3. Fault(r) \in {"upstream", "client"}
  BY DEF Fault
<1>4. q.pc \in {"sent", "rewriting", "switching", "tunnel"} => q.wire # "none"
  BY <1>1 DEF Good, Placed
<1>5. ASSUME NEW new \in ReqType, Alike(new, q), new.pc = "done", Settled(new),
             q.pc \in {"sent", "rewriting", "switching", "tunnel"},
             new.answer = "session" => q.stored,
             new.answer = "unread" => q.client # "there", Becomes(r, new)
      PROVE  Inv'
  <2>1. Good(new)
    BY ONLY <1>1, <1>4, <1>5, EndIsGood
  <2> QED BY ONLY <1>5, <2>1, Inv, r \in Req, BecomesGood
\* A failure that is recorded, and one that is not.
<1>6. ASSUME NEW fault \in {"upstream", "client"}, NEW outcome \in Outcomes, NEW answer \in Answers
      PROVE  LET new == Answered(Recorded(Failed(q, fault), outcome), answer)
             IN  /\ new \in ReqType /\ Alike(new, q) /\ new.pc = "done" /\ new.answer = answer
                 /\ new.verdicts = Append(q.verdicts, "failure")
                 /\ new.records = Append(q.records, outcome)
  <2> DEFINE first == Failed(q, fault)
             second == Recorded(first, outcome)
             new == Answered(second, answer)
  <2>1. /\ first \in ReqType /\ Alike(first, q)
        /\ first.verdicts = Append(q.verdicts, "failure") /\ first.records = q.records
    BY ONLY <1>2, <1>6, StateLemma
  <2> HIDE DEF first
  <2>2. /\ second \in ReqType /\ Alike(second, first)
        /\ second.verdicts = first.verdicts /\ second.records = Append(first.records, outcome)
    BY ONLY <2>1, <1>6, StateLemma
  <2> HIDE DEF second
  <2>3. /\ new \in ReqType /\ Alike(new, second) /\ new.pc = "done" /\ new.answer = answer
        /\ new.verdicts = second.verdicts /\ new.records = second.records
    BY ONLY <2>2, <1>6, StateLemma
  <2> HIDE DEF new
  <2>4. Alike(new, q)
    BY ONLY <2>1, <2>2, <2>3 DEF Alike
  <2> QED BY ONLY <2>1, <2>2, <2>3, <2>4 DEF new, second, first
<1>7. ASSUME NEW fault \in {"upstream", "client"}, NEW answer \in Answers
      PROVE  LET new == Answered(Failed(q, fault), answer)
             IN  /\ new \in ReqType /\ Alike(new, q) /\ new.pc = "done" /\ new.answer = answer
                 /\ new.verdicts = Append(q.verdicts, "failure")
                 /\ new.records = q.records
  <2> DEFINE first == Failed(q, fault)
             new == Answered(first, answer)
  <2>1. /\ first \in ReqType /\ Alike(first, q)
        /\ first.verdicts = Append(q.verdicts, "failure") /\ first.records = q.records
    BY ONLY <1>2, <1>7, StateLemma
  <2> HIDE DEF first
  <2>2. /\ new \in ReqType /\ Alike(new, first) /\ new.pc = "done" /\ new.answer = answer
        /\ new.verdicts = first.verdicts /\ new.records = first.records
    BY ONLY <2>1, <1>7, StateLemma
  <2> HIDE DEF new
  <2>3. Alike(new, q)
    BY ONLY <2>1, <2>2 DEF Alike
  <2> QED BY ONLY <2>1, <2>2, <2>3 DEF new, first
<1>8. "error" \in Outcomes /\ "failure" \in Outcomes /\ "client_error" \in Outcomes
  BY DEF Outcomes
<1>9. /\ "502" \in Answers /\ "relayed" \in Answers /\ "session" \in Answers
      /\ "unread" \in Answers
  BY DEF Answers
<1>10. q.pc = "sent" => q.verdicts = <<>> /\ q.records = <<>>
  BY <1>1 DEF Good, Accounted, Account
<1>11. q.pc \in {"rewriting", "switching", "tunnel"} =>
           q.verdicts = <<"success">> /\ q.records = <<"success">>
  BY <1>1 DEF Good, Accounted, Account
<1>12. ASSUME Lose(r) \/ SwitchFails(r)
       PROVE  Inv'
  <2> DEFINE new == Answered(Recorded(Failed(q, Fault(r)), "error"), "502")
  <2>1. /\ new \in ReqType /\ Alike(new, q) /\ new.pc = "done" /\ new.answer = "502"
        /\ new.verdicts = Append(q.verdicts, "failure") /\ new.records = Append(q.records, "error")
    BY ONLY <1>3, <1>6, <1>8, <1>9
  <2>2. Becomes(r, new) /\ q.pc \in {"sent", "switching"}
    BY <1>12 DEF Lose, SwitchFails
  <2> HIDE DEF new
  <2>3. Account(new) \in { << <<"failure">>, <<"error">> >>,
                           << <<"success", "failure">>, <<"success", "error">> >> }
    BY ONLY <1>10, <1>11, <2>1, <2>2, Accounts DEF Account
  <2>4. Settled(new)
    BY ONLY <2>3 DEF Settled
  <2> QED BY ONLY <1>5, <2>1, <2>2, <2>4
<1>13. ASSUME Truncate(r) \/ RewriteFails(r)
       PROVE  Inv'
  <2>1. PICK fault \in {"upstream", "client"} : Becomes(r, Answered(Failed(q, fault), "502"))
    BY <1>3, <1>13 DEF Truncate, RewriteFails
  <2> DEFINE new == Answered(Failed(q, fault), "502")
  <2>2. /\ new \in ReqType /\ Alike(new, q) /\ new.pc = "done" /\ new.answer = "502"
        /\ new.verdicts = Append(q.verdicts, "failure") /\ new.records = q.records
    BY ONLY <1>7, <1>9
  <2>3. q.pc \in {"sent", "rewriting"} /\ q.kind = "create" /\ q.wire \notin {"none", "pending"}
    BY <1>1, <1>13 DEF Truncate, RewriteFails, ReplyArrived, Good, Accepted
  <2> HIDE DEF new
  <2>4. Account(new) \in { << <<"failure">>, <<>> >>, << <<"success", "failure">>, <<"success">> >> }
    BY ONLY <1>10, <1>11, <2>2, <2>3, Accounts DEF Account
  <2>5. Settled(new)
    BY ONLY <2>2, <2>3, <2>4 DEF Settled, Alike
  <2> QED BY ONLY <1>5, <2>1, <2>2, <2>3, <2>5 DEF new
<1>14. ASSUME Deny(r)
       PROVE  Inv'
  <2>1. CASE /\ q.pc = "sent"
             /\ Becomes(r, Answered(Recorded(Failed(q, "upstream"), "failure"), "relayed"))
    <3> DEFINE new == Answered(Recorded(Failed(q, "upstream"), "failure"), "relayed")
    <3>1. /\ new \in ReqType /\ Alike(new, q) /\ new.pc = "done" /\ new.answer = "relayed"
          /\ new.verdicts = Append(q.verdicts, "failure")
          /\ new.records = Append(q.records, "failure")
      BY ONLY <1>6, <1>8, <1>9
    <3> HIDE DEF new
    <3>2. Settled(new)
      BY ONLY <1>10, <2>1, <3>1, Accounts DEF Settled, Account
    <3> QED BY ONLY <1>5, <2>1, <3>1, <3>2 DEF new
  <2>2. CASE /\ q.pc = "sent" /\ q.wire = "client_error"
             /\ Becomes(r, Answered(Recorded(q, "client_error"), "relayed"))
    <3> DEFINE first == Recorded(q, "client_error")
               new == Answered(first, "relayed")
    <3>1. /\ first \in ReqType /\ Alike(first, q)
          /\ first.verdicts = q.verdicts /\ first.records = Append(q.records, "client_error")
      BY ONLY <1>2, <1>8, StateLemma
    <3> HIDE DEF first
    <3>2. /\ new \in ReqType /\ Alike(new, first) /\ new.pc = "done" /\ new.answer = "relayed"
          /\ new.verdicts = first.verdicts /\ new.records = first.records
      BY ONLY <1>9, <3>1, StateLemma
    <3> HIDE DEF new
    <3>3. Alike(new, q)
      BY ONLY <3>1, <3>2 DEF Alike
    <3>4. ~q.stored
      BY <1>1, <2>2 DEF Good, Kept
    <3>5. Settled(new)
      BY ONLY <1>10, <2>2, <3>1, <3>2, <3>3, <3>4, Accounts DEF Settled, Account, Alike
    <3> QED BY ONLY <1>5, <2>2, <3>2, <3>3, <3>5 DEF new, first
  <2> QED BY ONLY <1>14, <2>1, <2>2 DEF Deny
<1>15. ASSUME RewriteSession(r)
       PROVE  Inv'
  <2> DEFINE answer == Reaches(r, {"there"})
             new == Answered(q, answer)
  <2>0. /\ answer \in Answers
        /\ answer = "session" \/ (answer = "unread" /\ q.client # "there")
    BY <1>9 DEF Reaches
  <2> HIDE DEF answer
  <2>1. /\ new \in ReqType /\ Alike(new, q) /\ new.pc = "done" /\ new.answer = answer
        /\ new.verdicts = q.verdicts /\ new.records = q.records
    BY ONLY <1>2, <2>0, StateLemma
  <2>2. Becomes(r, new) /\ q.pc = "rewriting" /\ q.wire = "ok"
    BY <1>15 DEF RewriteSession, answer
  <2>3. q.stored
    BY <1>1, <2>2 DEF Good, Accepted, Kept
  <2> HIDE DEF new
  <2>4. Settled(new)
    BY ONLY <1>11, <2>0, <2>1, <2>2 DEF Settled, Account, Alike
  <2> QED BY ONLY <1>5, <2>0, <2>1, <2>2, <2>3, <2>4
<1>16. ASSUME Switch(r)
       PROVE  Inv'
  <2> DEFINE answer == IF q.kind = "playwright" THEN Reaches(r, {"there", "late"}) ELSE "relayed"
             new == [q EXCEPT !.pc = "tunnel", !.answer = answer]
  <2>0. /\ answer \in Answers
        /\ answer = "unread" => q.client # "there"
        /\ answer \in IF q.kind = "playwright" THEN {"session", "unread"} ELSE {"relayed"}
    BY <1>9 DEF Reaches
  <2>1. q.pc = "switching" /\ Becomes(r, new)
    BY <1>16 DEF Switch
  <2> HIDE DEF answer
  <2>2. new \in ReqType
    <3>1. [q EXCEPT !.pc = "tunnel"] \in ReqType
      BY ONLY <1>2, UpdateLemma DEF Stages
    <3> DEFINE mid == [q EXCEPT !.pc = "tunnel"]
    <3> HIDE DEF mid
    <3>2. [mid EXCEPT !.answer = answer] \in ReqType
      BY ONLY <2>0, <3>1, UpdateLemma DEF mid
    <3> QED BY ONLY <3>2 DEF mid
  <2>3. /\ new.kind = q.kind /\ new.pc = "tunnel" /\ new.pool = q.pool
        /\ new.upstream = q.upstream /\ new.key = q.key /\ new.target = q.target
        /\ new.stored = q.stored /\ new.wire = q.wire /\ new.verdicts = q.verdicts
        /\ new.records = q.records /\ new.answer = answer /\ new.client = q.client
    BY ONLY <1>2 DEF ReqType
  <2> HIDE DEF new
  <2>4. Good(new)
    BY <1>1, <2>0, <2>1, <2>2, <2>3
    DEF Good, Unplaced, Placed, Accepted, Kept, Addressed, Accounted, Account
  <2> QED BY ONLY <2>1, <2>4, Inv, r \in Req, BecomesGood
<1>17. ASSUME TunnelEnds(r)
       PROVE  Inv'
  <2> DEFINE new == [q EXCEPT !.pc = "done"]
  <2>1. q.pc = "tunnel" /\ Becomes(r, new)
    BY <1>17 DEF TunnelEnds
  <2>2. new \in ReqType
    BY ONLY <1>2, UpdateLemma DEF Stages
  <2>3. /\ Alike(new, q) /\ new.pc = "done" /\ new.answer = q.answer
        /\ new.verdicts = q.verdicts /\ new.records = q.records
    BY ONLY <1>2 DEF ReqType, Alike
  <2> HIDE DEF new
  <2>4. /\ q.wire = "upgrade"
        /\ q.stored => q.answer \in {"session", "unread"}
        /\ q.answer = "session" => q.stored
        /\ q.answer = "unread" => q.client # "there"
    BY <1>1, <2>1 DEF Good, Accepted, Kept
  <2>5. Settled(new)
    BY ONLY <1>11, <2>1, <2>3, <2>4 DEF Settled, Account, Alike
  <2> QED BY ONLY <1>5, <2>1, <2>2, <2>3, <2>4, <2>5
<1> QED BY <1>12, <1>13, <1>14, <1>15, <1>16, <1>17

\* An answer of the upstream that is a success.
LEMMA Accepting ==
    ASSUME Inv, NEW r \in Req, Accept(r)
    PROVE  Inv'
<1> DEFINE q == req[r]
           seen == [q EXCEPT !.verdicts = Append(@, "success")]
           state == Recorded(seen, "success")
           carried == IF q.kind = "create" THEN "rewriting" ELSE "switching"
<1>1. Good(q)
  BY GoodRequest
<1>2. q \in ReqType /\ q.pc = "sent" /\ q.wire \in {"ok", "upgrade", "unusable", "other"}
  BY <1>1 DEF Good, Accept
<1>3. q.verdicts = <<>> /\ q.records = <<>> /\ q.answer = "none"
  BY <1>1, <1>2 DEF Good, Accounted, Account
<1>4. Append(q.verdicts, "success") \in Verdicts
  BY <1>2 DEF ReqType, Verdicts
<1>5. seen \in ReqType
  BY ONLY <1>2, <1>4, UpdateLemma
<1>6. /\ Alike(seen, q) /\ seen.verdicts = <<"success">> /\ seen.records = <<>>
      /\ seen.pc = "sent" /\ seen.answer = "none"
  BY ONLY <1>2, <1>3, Accounts DEF ReqType, Alike
<1>7. \/ /\ q.wire = "other" \/ (q.wire = "ok" /\ q.kind # "create")
         /\ Becomes(r, Answered(state, "relayed"))
      \/ /\ q.wire = "upgrade" \/ (q.wire \in {"ok", "unusable"} /\ q.kind = "create")
         /\ Becomes(r, [state EXCEPT !.pc = carried])
  BY <1>1, <1>2 DEF Accept, Good, Accepted
<1> HIDE DEF seen
<1>8. /\ state \in ReqType /\ Alike(state, seen) /\ state.verdicts = <<"success">>
      /\ state.records = <<"success">> /\ state.answer = "none"
  BY ONLY <1>5, <1>6, StateLemma, Accounts DEF Outcomes
<1> HIDE DEF state
<1>9. Alike(state, q)
  BY ONLY <1>6, <1>8 DEF Alike
<1>10. CASE /\ q.wire = "other" \/ (q.wire = "ok" /\ q.kind # "create")
            /\ Becomes(r, Answered(state, "relayed"))
  <2> DEFINE new == Answered(state, "relayed")
  <2>1. /\ new \in ReqType /\ Alike(new, state) /\ new.pc = "done" /\ new.answer = "relayed"
        /\ new.verdicts = <<"success">> /\ new.records = <<"success">>
    BY ONLY <1>8, StateLemma DEF Answers
  <2> HIDE DEF new
  <2>2. Alike(new, q)
    BY ONLY <1>9, <2>1 DEF Alike
  <2>3. ~q.stored
    BY <1>1, <1>10 DEF Good, Accepted, Kept
  <2>4. Settled(new)
    BY ONLY <1>2, <2>1, <2>2, <2>3 DEF Settled, Account, Alike
  <2>5. Good(new)
    BY ONLY <1>1, <1>2, <2>1, <2>2, <2>4, EndIsGood
  <2> QED BY ONLY <1>10, <2>5, Inv, r \in Req, BecomesGood DEF new
<1>11. CASE /\ q.wire = "upgrade" \/ (q.wire \in {"ok", "unusable"} /\ q.kind = "create")
            /\ Becomes(r, [state EXCEPT !.pc = carried])
  <2> DEFINE new == [state EXCEPT !.pc = carried]
  <2>1. carried \in Stages
    BY DEF Stages
  <2>2. new \in ReqType
    BY ONLY <1>8, <2>1, UpdateLemma
  <2>3. /\ Alike(new, state) /\ new.pc = carried /\ new.answer = "none"
        /\ new.verdicts = <<"success">> /\ new.records = <<"success">>
    BY ONLY <1>8 DEF ReqType, Alike
  <2> HIDE DEF new
  <2>4. Alike(new, q)
    BY ONLY <1>9, <2>3 DEF Alike
  <2>5. Good(new)
    BY ONLY <1>1, <1>2, <1>11, <2>2, <2>3, <2>4
    DEF Good, Unplaced, Placed, Accepted, Kept, Addressed, Accounted, Account, Alike
  <2> QED BY ONLY <1>11, <2>5, Inv, r \in Req, BecomesGood DEF new
<1> QED BY ONLY <1>7, <1>10, <1>11

\* The invariant, and the types of the whole composition.
LEMMA Inductive == Safety => []Inv
<1>1. Init => Inv
  BY NewIsGood DEF Init, Inv, Good
<1>2. Inv /\ S!TypeOK /\ [Next]_vars => Inv'
  <2> SUFFICES ASSUME Inv, S!TypeOK, [Next]_vars
               PROVE  Inv'
    OBVIOUS
  <2>1. ASSUME NEW r \in Req, Outside(r)
        PROVE  Inv'
    BY ONLY Inv, S!TypeOK, <2>1, Choosing, Outsiders DEF Outside
  <2>2. ASSUME NEW r \in Req, Router(r)
        PROVE  Inv'
    BY ONLY Inv, S!TypeOK, <2>2, Choosing, Ending, Accepting DEF Router
  <2>3. ASSUME NEW r \in Req, TunnelEnds(r)
        PROVE  Inv'
    BY ONLY Inv, <2>3, Ending
  <2>4. ASSUME Scrape \/ Tick \/ UNCHANGED vars
        PROVE  Inv'
    BY ONLY Inv, <2>4, GoodStays DEF Scrape, Tick, vars
  <2> QED BY <2>1, <2>2, <2>3, <2>4 DEF Next
<1> QED BY <1>1, <1>2, SelectorTyping, PTL DEF Safety

LEMMA PolicyLemma ==
    ASSUME NEW p \in PoolIds
    PROVE  H!Threshold(p) \in Nat \ {0} /\ H!Cooldown(p) \in Int
BY PolicyAssumption, HealthAssumption DEF H!HealthPolicies, H!Threshold, H!Cooldown

\* What the handlers do to the manager of their runtime keeps its types.
LEMMA HealthTypes ==
    ASSUME H!TypeOK,
           \/ UNCHANGED health
           \/ \E p \in PoolIds : H!ReportSuccess(p) \/ H!ReportFailure(p)
           \/ H!Snapshot \/ H!Tick
    PROVE  H!TypeOK'
<1> USE DEF H!TypeOK
<1>1. ASSUME NEW p \in PoolIds, H!ReportSuccess(p)
      PROVE  H!TypeOK'
  BY <1>1 DEF H!ReportSuccess, H!vars
<1>2. ASSUME NEW p \in PoolIds, H!ReportFailure(p)
      PROVE  H!TypeOK'
  <2>1. failures[p] + 1 \in Nat /\ now + H!Cooldown(p) \in Int
    BY PolicyLemma
  <2> QED BY <1>2, <2>1 DEF H!ReportFailure, H!vars
<1>3. CASE H!Snapshot
  BY <1>3 DEF H!Snapshot
<1>4. CASE H!Tick
  BY <1>4 DEF H!Tick
<1>5. CASE UNCHANGED health
  BY <1>5 DEF health
<1> QED BY <1>1, <1>2, <1>3, <1>4, <1>5

-----------------------------------------------------------------------------
\* The manager of the composition is the one specified alone. Its counters have a
\* bound there, and no request fails its pool more than once.

FailedAt(q) == \E k \in DOMAIN q.verdicts : q.verdicts[k] = "failure"

ChargedTo(p) == {r \in Req : req[r].pool = p /\ FailedAt(req[r])}

\* A pool's counter never exceeds the requests that failed on it.
CountersAreCharges == \A p \in PoolIds : failures[p] <= Cardinality(ChargedTo(p))

LEMMA NotYetCharged ==
    ASSUME Inv, NEW r \in Req, req[r].pc # "done"
    PROVE  ~FailedAt(req[r])
<1>1. Good(req[r])
  BY GoodRequest
<1>2. req[r].verdicts = <<>> \/ req[r].verdicts = <<"success">>
  BY <1>1 DEF Good, ReqType, Stages, Unplaced, Accounted, Account
<1>3. CASE req[r].verdicts = <<>>
  BY <1>3 DEF FailedAt
<1>4. CASE req[r].verdicts = <<"success">>
  BY <1>4 DEF FailedAt
<1> QED BY <1>2, <1>3, <1>4

\* A charge stays with its pool.
LEMMA ChargesStay ==
    ASSUME Inv, [Next]_vars, NEW p
    PROVE  ChargedTo(p) \subseteq ChargedTo(p)'
<1>1. SUFFICES ASSUME NEW r \in Req, req[r].pool = p, FailedAt(req[r])
               PROVE  req'[r].pool = p /\ FailedAt(req'[r])
  BY DEF ChargedTo, FailedAt
<1>2. req[r].pc = "done"
  BY <1>1, NotYetCharged
<1>3. req[r] \in ReqType
  BY DEF Inv
<1>4. ASSUME NEW q \in Req, NEW new, Becomes(q, new), q = r => req[r].pc # "done"
      PROVE  req'[r] = req[r]
  BY <1>2, <1>4 DEF Inv, Becomes
<1>5. ASSUME NEW q \in Req, Outside(q)
      PROVE  req'[r].pool = p /\ FailedAt(req'[r])
  <2>1. CASE \/ \E rs \in WebDriverRequests : Arrive(q, "create", rs)
             \/ \E rs \in PlaywrightRequests : Arrive(q, "playwright", rs)
             \/ \E id \in Known : ForwardSession(q, id)
             \/ \E id \in Known : ForwardSide(q, id)
             \/ ArriveSettings(q)
             \/ Hangup(q)
             \/ Expire(q)
    <3>1. req'[r] = req[r]
      BY <1>4, <2>1, <1>2 DEF Arrive, ForwardSession, ForwardSide, ArriveSettings, Hangup, Expire
    <3> QED BY <1>1, <3>1
  <2>2. CASE BackendCreates(q) \/ BackendUpgrades(q) \/ BackendServes(q) \/ BackendRefuses(q)
    <3>1. req'[r].pool = req[r].pool /\ req'[r].verdicts = req[r].verdicts
      <4>1. req[q] \in ReqType /\ req \in [Req -> ReqType]
        BY DEF Inv
      <4>2. PICK new : /\ Becomes(q, new)
                       /\ new.pool = req[q].pool /\ new.verdicts = req[q].verdicts
        <5>1. ASSUME NEW id, NEW answer
              PROVE  /\ LET new == [req[q] EXCEPT !.upstream = id, !.stored = TRUE, !.wire = answer]
                        IN  new.pool = req[q].pool /\ new.verdicts = req[q].verdicts
                     /\ LET new == [req[q] EXCEPT !.stored = id, !.wire = answer]
                        IN  new.pool = req[q].pool /\ new.verdicts = req[q].verdicts
                     /\ LET new == [req[q] EXCEPT !.wire = answer]
                        IN  new.pool = req[q].pool /\ new.verdicts = req[q].verdicts
          BY ONLY <4>1 DEF ReqType
        <5>2. CASE BackendCreates(q)
          <6>1. PICK id \in WebDriverIds, answer \in {"ok", "unusable", "unhealthy"} :
                  Becomes(q, [req[q] EXCEPT !.upstream = id, !.stored = TRUE, !.wire = answer])
            BY ONLY <5>2 DEF BackendCreates
          <6> DEFINE new == [req[q] EXCEPT !.upstream = id, !.stored = TRUE, !.wire = answer]
          <6>2. new.pool = req[q].pool /\ new.verdicts = req[q].verdicts
            BY ONLY <5>1
          <6> HIDE DEF new
          <6>3. Becomes(q, new)
            BY ONLY <6>1 DEF new
          <6> QED BY ONLY <6>2, <6>3
        <5>3. CASE BackendUpgrades(q)
          <6> DEFINE starts == req[q].kind = "playwright"
                     new == [req[q] EXCEPT !.stored = starts, !.wire = "upgrade"]
          <6>1. Becomes(q, new)
            BY ONLY <5>3 DEF BackendUpgrades
          <6> HIDE DEF starts
          <6>2. new.pool = req[q].pool /\ new.verdicts = req[q].verdicts
            BY ONLY <5>1
          <6> QED BY ONLY <6>1, <6>2
        <5>4. CASE BackendServes(q)
          BY ONLY <5>1, <5>4 DEF BackendServes
        <5>5. CASE BackendRefuses(q)
          BY ONLY <5>1, <5>5 DEF BackendRefuses
        <5> QED BY <2>2, <5>2, <5>3, <5>4, <5>5
      <4> QED BY <4>1, <4>2 DEF Becomes
    <3> QED BY <1>1, <3>1 DEF FailedAt
  <2> QED BY <1>5, <2>1, <2>2 DEF Outside
<1>6. ASSUME NEW q \in Req, Router(q) \/ TunnelEnds(q)
      PROVE  req'[r].pool = p /\ FailedAt(req'[r])
  <2>1. CASE Select(q)
    BY <1>1, <2>1 DEF Select
  <2>2. CASE Refuse(q) \/ ForwardCreate(q) \/ ForwardUpgrade(q) \/ DefaultBackend(q)
    <3>1. req'[r] = req[r]
      BY <1>4, <2>2, <1>2 DEF Refuse, ForwardCreate, ForwardUpgrade, DefaultBackend
    <3> QED BY <1>1, <3>1
  <2>3. CASE Lose(q) \/ Truncate(q) \/ Deny(q) \/ Accept(q)
    <3>1. req'[r] = req[r]
      BY <1>4, <2>3, <1>2 DEF Lose, Truncate, Deny, Accept
    <3> QED BY <1>1, <3>1
  <2>4. CASE \/ RewriteSession(q) \/ RewriteFails(q) \/ Switch(q) \/ SwitchFails(q)
             \/ TunnelEnds(q)
    <3>1. req'[r] = req[r]
      BY <1>4, <2>4, <1>2 DEF RewriteSession, RewriteFails, Switch, SwitchFails, TunnelEnds
    <3> QED BY <1>1, <3>1
  <2> QED BY <1>6, <2>1, <2>2, <2>3, <2>4 DEF Router
<1>7. ASSUME Scrape \/ Tick \/ UNCHANGED vars
      PROVE  req'[r].pool = p /\ FailedAt(req'[r])
  BY <1>1, <1>7 DEF Scrape, Tick, vars
<1> QED BY <1>5, <1>6, <1>7 DEF Next

\* A handler that reports a failure has not reported one before.
LEMMA FailureIsNew ==
    ASSUME Inv, NEW r \in Req,
           Lose(r) \/ Truncate(r) \/ RewriteFails(r) \/ SwitchFails(r) \/ Deny(r)
    PROVE  \/ UNCHANGED health
           \/ \E p \in PoolIds :
                H!ReportFailure(p) /\ r \notin ChargedTo(p) /\ r \in ChargedTo(p)'
<1> DEFINE q == req[r]
<1>1. Good(q) /\ q \in ReqType
  BY GoodRequest DEF Good
<1>2. q.pc \in {"sent", "rewriting", "switching"}
  BY DEF Lose, Truncate, RewriteFails, SwitchFails, Deny
<1>3. PICK p \in PoolIds : q.pool = p
  BY <1>1, <1>2 DEF Good, Placed
<1>4. r \notin ChargedTo(p)
  BY <1>2, NotYetCharged DEF ChargedTo
<1>5. Fault(r) \in {"upstream", "client"} /\ "upstream" \in {"upstream", "client"}
      /\ "error" \in Outcomes /\ "failure" \in Outcomes
      /\ "502" \in Answers /\ "relayed" \in Answers
  BY DEF Fault, Outcomes, Answers
<1>6. ASSUME NEW new, Becomes(r, new), new.pool = q.pool,
             new.verdicts = Append(q.verdicts, "failure")
      PROVE  r \in ChargedTo(p)'
  <2>1. req'[r] = new
    BY <1>6 DEF Becomes, Inv
  <2>2. q.verdicts \in Seq({"success", "failure"})
    BY <1>1 DEF ReqType, Verdicts
  <2>3. FailedAt(new)
    <3>1. /\ Len(q.verdicts) + 1 \in DOMAIN new.verdicts
          /\ new.verdicts[Len(q.verdicts) + 1] = "failure"
      BY <1>6, <2>2
    <3> QED BY <3>1 DEF FailedAt
  <2> QED BY <1>3, <1>6, <2>1, <2>3 DEF ChargedTo, FailedAt
<1>7. ASSUME NEW fault \in {"upstream", "client"}, NEW outcome \in Outcomes, NEW answer \in Answers
      PROVE  /\ LET new == Answered(Recorded(Failed(q, fault), outcome), answer)
                IN  new.pool = q.pool /\ new.verdicts = Append(q.verdicts, "failure")
             /\ LET new == Answered(Failed(q, fault), answer)
                IN  new.pool = q.pool /\ new.verdicts = Append(q.verdicts, "failure")
  BY ONLY <1>1, <1>7 DEF Answered, Recorded, Failed, ReqType
<1>8. CASE Lose(r) \/ SwitchFails(r)
  <2>1. /\ H!ReportFailure(q.pool)
        /\ Becomes(r, Answered(Recorded(Failed(q, Fault(r)), "error"), "502"))
    BY <1>8 DEF Lose, SwitchFails
  <2> QED BY ONLY <1>3, <1>4, <1>5, <1>6, <1>7, <2>1
<1>9. CASE Truncate(r) \/ RewriteFails(r)
  <2>1. PICK fault \in {"upstream", "client"} :
          H!ReportFailure(q.pool) /\ Becomes(r, Answered(Failed(q, fault), "502"))
    BY <1>5, <1>9 DEF Truncate, RewriteFails
  <2> QED BY ONLY <1>3, <1>4, <1>5, <1>6, <1>7, <2>1
<1>10. CASE Deny(r)
  <2>1. \/ UNCHANGED health
        \/ /\ H!ReportFailure(q.pool)
           /\ Becomes(r, Answered(Recorded(Failed(q, "upstream"), "failure"), "relayed"))
    BY <1>10 DEF Deny
  <2> QED BY ONLY <1>3, <1>4, <1>5, <1>6, <1>7, <2>1
<1> QED BY <1>8, <1>9, <1>10

\* The steps of the composition are steps of the manager, or none of its business.
LEMMA HealthSteps ==
    ASSUME Inv, [Next]_vars
    PROVE  \/ UNCHANGED health
           \/ \E p \in PoolIds : H!ReportSuccess(p)
           \/ \E p \in PoolIds, r \in Req :
                H!ReportFailure(p) /\ r \notin ChargedTo(p) /\ r \in ChargedTo(p)'
           \/ H!Snapshot \/ H!Tick
<1>1. ASSUME NEW r \in Req, Outside(r) \/ TunnelEnds(r)
      PROVE  UNCHANGED health
  BY <1>1 DEF Outside, Arrive, ForwardSession, ForwardSide, ArriveSettings, Hangup, Expire, TunnelEnds,
              BackendCreates, BackendUpgrades, BackendServes, BackendRefuses
<1>2. ASSUME NEW r \in Req, \/ Select(r) \/ Refuse(r) \/ ForwardCreate(r) \/ ForwardUpgrade(r)
                            \/ DefaultBackend(r) \/ RewriteSession(r) \/ Switch(r)
      PROVE  UNCHANGED health
  BY <1>2 DEF Select, Refuse, ForwardCreate, ForwardUpgrade, DefaultBackend, RewriteSession, Switch
<1>3. ASSUME NEW r \in Req, Accept(r)
      PROVE  \E p \in PoolIds : H!ReportSuccess(p)
  <2>1. req[r].pool \in PoolIds /\ H!ReportSuccess(req[r].pool)
    BY <1>3, GoodRequest DEF Accept, Good, Placed
  <2> QED BY <2>1
<1>4. ASSUME Scrape \/ Tick \/ UNCHANGED vars
      PROVE  UNCHANGED health \/ H!Snapshot \/ H!Tick
  BY <1>4 DEF Scrape, Tick, vars
<1> QED BY <1>1, <1>2, <1>3, <1>4, FailureIsNew DEF Next, Router

LEMMA HealthIsKept ==
    ASSUME Inv, H!TypeOK, [Next]_vars
    PROVE  H!TypeOK'
BY HealthSteps, HealthTypes

\* Requests, deadlines and counters keep their types, and a request waits for an
\* answer only where it was sent.
THEOREM Typing == Safety => []TypeOK
<1>1. Init => H!TypeOK
  BY DEF Init, H!Init, H!TypeOK
<1>2. Inv /\ H!TypeOK /\ [Next]_vars => H!TypeOK'
  BY HealthIsKept
<1>3. Inv /\ H!TypeOK => TypeOK
  BY DEF Inv, Good, Placed, TypeOK
<1> QED BY <1>1, <1>2, <1>3, Inductive, PTL DEF Safety

\* Sessions are not lost silently: a backend session whose id no client was given
\* has cost its pool a failure by the time its handler returns, unless its reply was
\* good and the client no longer there to read it, which createSession does not see.
THEOREM LostSessionsCost == Safety => []LostSessionsAreCharged
<1>1. ASSUME Inv
      PROVE  LostSessionsAreCharged
  <2> SUFFICES ASSUME NEW r \in Req, req[r].stored, req[r].pc = "done", req[r].answer # "session",
                      req[r].client = "there" \/ req[r].answer # "unread"
               PROVE  \E k \in DOMAIN req[r].verdicts : req[r].verdicts[k] = "failure"
    BY DEF LostSessionsAreCharged
  <2>1. \/ req[r].verdicts = <<"failure">>
        \/ req[r].verdicts = <<"success", "failure">>
    BY <1>1, GoodRequest DEF Good, Kept, Accounted, Settled, Account
  <2>2. CASE req[r].verdicts = <<"failure">>
    <3>1. 1 \in DOMAIN req[r].verdicts /\ req[r].verdicts[1] = "failure"
      BY <2>2
    <3> QED BY <3>1
  <2>3. CASE req[r].verdicts = <<"success", "failure">>
    <3>1. 2 \in DOMAIN req[r].verdicts /\ req[r].verdicts[2] = "failure"
      BY <2>3
    <3> QED BY <3>1
  <2> QED BY <2>1, <2>2, <2>3
<1> QED BY <1>1, Inductive, PTL

\* A request that names a session gets to the pool that keeps it, under the id that
\* pool knows it by, for every set of ids the backends may choose.
THEOREM SessionsFound == Safety => []SessionsAreReached
<1>1. ASSUME Inv
      PROVE  SessionsAreReached
  <2> SUFFICES ASSUME NEW r \in Req, NEW q \in Req,
                      req[r].target # NoId,
                      req[q].answer = "session",
                      req[r].target = PublicId(req[q].pool, req[q].upstream),
                      req[r].kind = "session" => req[q].kind = "create",
                      req[r].kind = "side" =>
                          req[q].kind = "playwright" \/ req[q].upstream \notin PwIds
               PROVE  /\ req[r].pool = req[q].pool
                      /\ req[r].key = KeyOf(q)
                      /\ Stored(req[r].pool, req[r].key)
    BY DEF SessionsAreReached
  <2>1. /\ req[q].stored /\ req[q].kind \in {"create", "playwright"}
        /\ req[q].kind = "playwright" => req[q].upstream \in PwIds
    BY <1>1, GoodRequest, IdsAssumption DEF Good, Kept, Placed
  <2>2. /\ req[r].kind \in {"session", "side"}
        /\ req[r].pool = req[r].target.token
        /\ req[r].key = IF req[r].kind = "session" THEN req[r].target.upstream
                        ELSE SideKey(req[r].target)
    BY <1>1, GoodRequest DEF Good, Addressed
  <2>3. req[r].target.token = req[q].pool /\ req[r].target.upstream = req[q].upstream
    BY DEF PublicId
  <2>4. req[r].key = KeyOf(q)
    BY <2>1, <2>2, <2>3 DEF KeyOf, SideKey
  <2> QED BY <2>1, <2>2, <2>3, <2>4 DEF Stored
<1> QED BY <1>1, Inductive, PTL

\* How often a short account says one of some values.
LEMMA OccurrencesLemma ==
    ASSUME NEW values
    PROVE  /\ Occurrences(<<>>, values) = 0
           /\ \A x : Occurrences(<<x>>, values) = IF x \in values THEN 1 ELSE 0
           /\ \A x, y : Occurrences(<<x, y>>, values) =
                            IF x \in values /\ y \in values THEN 2
                            ELSE IF x \in values \/ y \in values THEN 1 ELSE 0
<1>1. Cardinality({}) = 0 /\ Cardinality({1}) = 1 /\ Cardinality({2}) = 1
  BY FS_EmptySet, FS_Singleton
<1>2. Cardinality({1, 2}) = 2
  <2>1. IsFiniteSet({1}) /\ {1} \cup {2} = {1, 2}
    BY FS_Singleton
  <2>2. Cardinality({1} \cup {2}) = Cardinality({1}) + 1
    BY <2>1, FS_AddElement
  <2> QED BY <1>1, <2>1, <2>2
<1>3. Occurrences(<<>>, values) = 0
  BY <1>1 DEF Occurrences
<1>4. ASSUME NEW x
      PROVE  Occurrences(<<x>>, values) = IF x \in values THEN 1 ELSE 0
  <2>1. {k \in DOMAIN <<x>> : <<x>>[k] \in values} = IF x \in values THEN {1} ELSE {}
    OBVIOUS
  <2> QED BY <1>1, <2>1 DEF Occurrences
<1>5. ASSUME NEW x, NEW y
      PROVE  Occurrences(<<x, y>>, values) =
                 IF x \in values /\ y \in values THEN 2
                 ELSE IF x \in values \/ y \in values THEN 1 ELSE 0
  <2>1. {k \in DOMAIN <<x, y>> : <<x, y>>[k] \in values} =
            IF x \in values
            THEN IF y \in values THEN {1, 2} ELSE {1}
            ELSE IF y \in values THEN {2} ELSE {}
    OBVIOUS
  <2> QED BY <1>1, <1>2, <2>1 DEF Occurrences
<1> QED BY <1>3, <1>4, <1>5

\* The counter of proxy requests and the health manager are told the same story of
\* every attempt, but for new sessions whose reply breaks off or names none.
THEOREM MetricsAgree == Safety => []MetricsMatchReports
<1>1. ASSUME Inv
      PROVE  MetricsMatchReports
  <2> SUFFICES ASSUME NEW r \in Req
               PROVE  LET missed == Occurrences(req[r].verdicts, {"failure"})
                                      - Occurrences(req[r].records, {"failure", "error"})
                      IN  /\ Occurrences(req[r].records, {"success"})
                               = Occurrences(req[r].verdicts, {"success"})
                          /\ missed \in {0, 1}
                          /\ missed = 1 =>
                               req[r].kind = "create" /\ ReplyArrived(r) /\ req[r].answer = "502"
    BY DEF MetricsMatchReports
  <2> DEFINE q == req[r]
  <2>1. Good(q)
    BY <1>1, GoodRequest
  <2>2. \/ Account(q) \in { << <<>>, <<>> >>, << <<>>, <<"client_error">> >>,
                            << <<"success">>, <<"success">> >> }
        \/ Account(q) \in { << <<"failure">>, <<"error">> >>, << <<"failure">>, <<"failure">> >>,
                            << <<"success", "failure">>, <<"success", "error">> >> }
        \/ /\ Account(q) \in { << <<"failure">>, <<>> >>,
                               << <<"success", "failure">>, <<"success">> >> }
           /\ q.kind = "create" /\ q.wire \notin {"none", "pending"} /\ q.answer = "502"
    <3>1. q.pc \in Stages
      BY <2>1 DEF Good, ReqType
    <3>2. CASE q.pc \in {"new", "selecting", "scanning"}
      BY <2>1, <3>2 DEF Good, Unplaced, Account
    <3>3. CASE q.pc \in {"sent", "rewriting", "switching", "tunnel"}
      BY <2>1, <3>3 DEF Good, Accounted, Account
    <3>4. CASE q.pc = "done"
      BY <2>1, <3>4 DEF Good, Accounted, Settled
    <3> QED BY <3>1, <3>2, <3>3, <3>4 DEF Stages
  <2>3. /\ \A v \in { {"failure"}, {"success"}, {"failure", "error"} } : Occurrences(<<>>, v) = 0
        /\ Occurrences(<<"success">>, {"success"}) = 1
        /\ Occurrences(<<"success">>, {"failure"}) = 0
        /\ Occurrences(<<"success">>, {"failure", "error"}) = 0
        /\ Occurrences(<<"failure">>, {"success"}) = 0
        /\ Occurrences(<<"failure">>, {"failure"}) = 1
        /\ Occurrences(<<"failure">>, {"failure", "error"}) = 1
        /\ Occurrences(<<"error">>, {"success"}) = 0
        /\ Occurrences(<<"error">>, {"failure", "error"}) = 1
        /\ Occurrences(<<"client_error">>, {"success"}) = 0
        /\ Occurrences(<<"client_error">>, {"failure", "error"}) = 0
        /\ Occurrences(<<"success", "failure">>, {"success"}) = 1
        /\ Occurrences(<<"success", "failure">>, {"failure"}) = 1
        /\ Occurrences(<<"success", "error">>, {"success"}) = 1
        /\ Occurrences(<<"success", "error">>, {"failure", "error"}) = 1
    BY OccurrencesLemma
  <2>4. ASSUME NEW verdicts, NEW records, Account(q) = <<verdicts, records>>
        PROVE  q.verdicts = verdicts /\ q.records = records
    BY <2>4 DEF Account
  <2>5. CASE Account(q) \in { << <<>>, <<>> >>, << <<>>, <<"client_error">> >>,
                              << <<"success">>, <<"success">> >> }
    BY <2>3, <2>4, <2>5
  <2>6. CASE Account(q) \in { << <<"failure">>, <<"error">> >>, << <<"failure">>, <<"failure">> >>,
                              << <<"success", "failure">>, <<"success", "error">> >> }
    BY <2>3, <2>4, <2>6
  <2>7. CASE /\ Account(q) \in { << <<"failure">>, <<>> >>,
                                 << <<"success", "failure">>, <<"success">> >> }
             /\ q.kind = "create" /\ q.wire \notin {"none", "pending"} /\ q.answer = "502"
    BY <2>3, <2>4, <2>7 DEF ReplyArrived
  <2> QED BY <2>2, <2>5, <2>6, <2>7
<1> QED BY <1>1, Inductive, PTL

-----------------------------------------------------------------------------
\* So every result about the manager alone holds of the manager the handlers of a
\* runtime share: the reports they send are steps of its specification, within the
\* bound it sets on its counters, because each request fails its pool at most once.
LEMMA CountersStep ==
    ASSUME Inv, H!TypeOK, CountersAreCharges, [Next]_vars
    PROVE  CountersAreCharges'
<1>1. SUFFICES ASSUME NEW p \in PoolIds
               PROVE  failures'[p] <= Cardinality(ChargedTo(p)')
  BY DEF CountersAreCharges, ChargedTo, FailedAt, PoolIds
<1>2. failures[p] \in Nat /\ failures[p] <= Cardinality(ChargedTo(p))
  BY DEF H!TypeOK, CountersAreCharges
<1>3. /\ IsFiniteSet(ChargedTo(p)) /\ IsFiniteSet(ChargedTo(p)')
      /\ Cardinality(ChargedTo(p)) \in Nat /\ Cardinality(ChargedTo(p)') \in Nat
  <2>1. ChargedTo(p) \in SUBSET Req /\ ChargedTo(p)' \in SUBSET Req
    BY DEF ChargedTo
  <2>2. IsFiniteSet(ChargedTo(p)) /\ IsFiniteSet(ChargedTo(p)')
    BY ONLY <2>1, BoundAssumption, FS_Subset
  <2> QED BY ONLY <2>2, FS_CardinalityType
<1>4. ChargedTo(p) \subseteq ChargedTo(p)'
  BY ChargesStay
<1>5. Cardinality(ChargedTo(p)) <= Cardinality(ChargedTo(p)')
  BY ONLY <1>3, <1>4, FS_Subset
<1>6. ASSUME failures'[p] <= failures[p], failures'[p] \in Int
      PROVE  failures'[p] <= Cardinality(ChargedTo(p)')
  BY ONLY <1>2, <1>3, <1>5, <1>6
<1>7. CASE UNCHANGED health
  BY <1>2, <1>6, <1>7 DEF health
<1>8. CASE \E c \in PoolIds : H!ReportSuccess(c)
  <2>1. failures'[p] = failures[p] \/ failures'[p] = 0
    BY <1>8 DEF H!ReportSuccess, H!vars, H!TypeOK
  <2> QED BY <1>2, <1>6, <2>1
<1>9. CASE H!Snapshot \/ H!Tick
  <2>1. failures'[p] = failures[p] \/ failures'[p] = 0
    BY <1>9 DEF H!Snapshot, H!Tick
  <2> QED BY <1>2, <1>6, <2>1
<1>10. ASSUME NEW c \in PoolIds, NEW r \in Req,
              H!ReportFailure(c), r \notin ChargedTo(c), r \in ChargedTo(c)'
       PROVE  failures'[p] <= Cardinality(ChargedTo(p)')
  <2>1. CASE c # p
    <3>1. failures'[p] = failures[p]
      BY <1>10, <2>1 DEF H!ReportFailure, H!vars, H!TypeOK
    <3> QED BY <1>2, <1>6, <3>1
  <2>2. CASE c = p
    <3>1. failures'[p] <= failures[p] + 1 /\ failures'[p] \in Nat
      BY <1>2, <1>10, <2>2 DEF H!ReportFailure, H!vars, H!TypeOK
    <3>2. r \notin ChargedTo(p) /\ ChargedTo(p) \cup {r} \subseteq ChargedTo(p)'
      BY <1>4, <1>10, <2>2
    <3>3. /\ Cardinality(ChargedTo(p) \cup {r}) = Cardinality(ChargedTo(p)) + 1
          /\ Cardinality(ChargedTo(p) \cup {r}) <= Cardinality(ChargedTo(p)')
      BY ONLY <1>3, <3>2, FS_AddElement, FS_Subset
    <3> QED BY ONLY <1>2, <1>3, <3>1, <3>3
  <2> QED BY <2>1, <2>2
<1> QED BY <1>7, <1>8, <1>9, <1>10, HealthSteps

\* The bound on the counters is never in the way of a report.
LEMMA BelowTheBound ==
    ASSUME H!TypeOK, CountersAreCharges, NEW r \in Req, NEW p \in PoolIds, r \notin ChargedTo(p)
    PROVE  failures[p] < MaxFailures
<1>1. ChargedTo(p) \in SUBSET Req /\ ChargedTo(p) \cup {r} \in SUBSET Req
  BY DEF ChargedTo
<1>2. /\ IsFiniteSet(ChargedTo(p)) /\ Cardinality(ChargedTo(p)) \in Nat
      /\ Cardinality(Req) \in Nat
  BY ONLY <1>1, BoundAssumption, FS_Subset, FS_CardinalityType
<1>3. Cardinality(ChargedTo(p)) + 1 <= Cardinality(Req)
  BY ONLY <1>1, <1>2, BoundAssumption, r \notin ChargedTo(p), FS_AddElement, FS_Subset
<1>4. failures[p] \in Nat /\ failures[p] <= Cardinality(ChargedTo(p))
  BY DEF H!TypeOK, CountersAreCharges
<1> QED BY ONLY <1>2, <1>3, <1>4, BoundAssumption, HealthAssumption

THEOREM HealthManagerIsUsed == Safety => UsesHealthManager
<1> DEFINE I == Inv /\ H!TypeOK /\ CountersAreCharges
<1>1. Init => H!Init
  BY DEF Init
<1>2. Init => CountersAreCharges
  <2> SUFFICES ASSUME Init, NEW p \in PoolIds
               PROVE  failures[p] <= Cardinality(ChargedTo(p))
    BY DEF CountersAreCharges
  <2>1. ChargedTo(p) \in SUBSET Req
    BY DEF ChargedTo
  <2>2. Cardinality(ChargedTo(p)) \in Nat
    BY ONLY <2>1, BoundAssumption, FS_Subset, FS_CardinalityType
  <2>3. failures[p] = 0
    BY DEF Init, H!Init
  <2> QED BY <2>2, <2>3
<1>3. Init => H!TypeOK
  BY DEF Init, H!Init, H!TypeOK
<1>4. I /\ [Next]_vars => H!TypeOK' /\ CountersAreCharges'
  BY HealthIsKept, CountersStep
<1>5. I /\ [Next]_vars => [H!Next]_(H!vars)
  <2> SUFFICES ASSUME I, [Next]_vars
               PROVE  H!Next \/ UNCHANGED H!vars
    OBVIOUS
  <2>1. ASSUME NEW p \in PoolIds, NEW r \in Req, H!ReportFailure(p), r \notin ChargedTo(p)
        PROVE  H!Next
    <3>1. failures[p] < MaxFailures
      BY <2>1, BelowTheBound
    <3> QED BY <2>1, <3>1 DEF H!Next
  <2> QED BY <2>1, HealthSteps DEF H!Next, H!vars, health
<1> QED BY <1>1, <1>2, <1>3, <1>4, <1>5, Inductive, PTL DEF Safety, UsesHealthManager, H!Spec
=============================================================================
