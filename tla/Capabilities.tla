---------------------------- MODULE Capabilities ----------------------------
(***************************************************************************)
(* internal/routing/request.go, the part that turns what a client sends     *)
(* into the requests a selector tries in turn. A JSON object is a function  *)
(* from its keys to texts, NonString stands for every value that is no    *)
(* string, NoObject and NoArray for a key that is absent or holds something *)
(* else. A payload has the two keys the parser looks for; its capabilities  *)
(* have the two it looks for there, and the rest of the object as "plain".  *)
(***************************************************************************)
EXTENDS Naturals, Sequences, FiniteSets

CONSTANTS NonString, NoObject, NoArray

\* What a loop that leaves out some indices of s appends. It is SelectSeq but
\* for its argument, a set, where SelectSeq has an operator.
Picked(s, indices) ==
    LET upTo[n \in 0..Len(s)] ==
            IF n = 0 THEN <<>>
            ELSE IF n \in indices THEN Append(upTo[n - 1], s[n]) ELSE upTo[n - 1]
    IN  upTo[Len(s)]

StringValue(caps, key) ==
    IF key \in DOMAIN caps /\ caps[key] # NonString THEN caps[key] ELSE <<>>

FirstStringValue(caps, keys) ==
    LET given == {i \in DOMAIN keys : StringValue(caps, keys[i]) # <<>>}
    IN  IF given = {} THEN <<>>
        ELSE StringValue(caps, keys[CHOOSE i \in given : \A j \in given : i <= j])

BrowserKeys == <<"browserName", "deviceName", "appium:deviceName">>
VersionKeys == <<"browserVersion", "version">>
PlatformKeys == <<"platformName", "platform">>
RegionKeys == <<"gridlane:region", "selenoid:region", "region">>

\* A device is asked for by its name when no browser is.
RequestFromCapabilities(caps) ==
    [protocol |-> "webdriver",
     browser |-> FirstStringValue(caps, BrowserKeys),
     version |-> FirstStringValue(caps, VersionKeys),
     platform |-> FirstStringValue(caps, PlatformKeys),
     region |-> FirstStringValue(caps, RegionKeys)]

\* Mutant: what every alternative shares wins over the alternative.
MergedBelow(always, entry) ==
    [key \in DOMAIN always \cup DOMAIN entry |->
        IF key \in DOMAIN always THEN always[key] ELSE entry[key]]

\* copyObject, then every key of the entry written over it.
Merged(always, entry) ==
    [key \in DOMAIN always \cup DOMAIN entry |->
        IF key \in DOMAIN entry THEN entry[key] ELSE always[key]]

Object(value) == IF value = NoObject THEN <<>> ELSE value

\* The candidates of a payload, none where the code returns an error.
CapabilityCandidates(payload) ==
    LET c == payload.capabilities
        always == Object(c.alwaysMatch)
        entries == Picked(c.firstMatch, {k \in DOMAIN c.firstMatch : c.firstMatch[k] # NoObject})
    IN  IF c = NoObject
        THEN IF payload.desired = NoObject THEN <<>> ELSE << payload.desired >>
        ELSE IF c.firstMatch \in {NoArray, <<>>}
        THEN << IF always = <<>> THEN c.plain ELSE always >>
        ELSE [i \in DOMAIN entries |-> Merged(always, entries[i])]

\* Candidates that name neither browser nor device are left out; with none left
\* the request is refused.
ParseWebDriverNewSession(payload) ==
    LET candidates == CapabilityCandidates(payload)
        requests == [i \in DOMAIN candidates |-> RequestFromCapabilities(candidates[i])]
    IN  Picked(requests, {i \in DOMAIN requests : requests[i].browser # <<>>})

\* The segments after /playwright/: browser, version, and what does not matter.
ParsePlaywrightPath(segments) ==
    IF Len(segments) < 2 \/ <<>> \in {segments[1], segments[2]} THEN <<>>
    ELSE << [protocol |-> "playwright", browser |-> segments[1], version |-> segments[2],
             platform |-> <<>>, region |-> <<>>] >>

-----------------------------------------------------------------------------
\* The reference: what a client asks for with its k-th alternative, key by key
\* and without building objects. W3C is stricter than request.go:91-124: there
\* a key in both parts, or an entry that is no object, makes the request invalid.

Wanted(c, k, key) ==
    CASE key \in DOMAIN c.firstMatch[k] -> StringValue(c.firstMatch[k], key)
      [] key \notin DOMAIN c.firstMatch[k] /\ c.alwaysMatch # NoObject ->
             StringValue(c.alwaysMatch, key)
      [] OTHER -> <<>>

FirstWanted(c, k, keys) ==
    IF \A i \in DOMAIN keys : Wanted(c, k, keys[i]) = <<>> THEN <<>>
    ELSE Wanted(c, k, keys[CHOOSE i \in DOMAIN keys :
            /\ Wanted(c, k, keys[i]) # <<>>
            /\ \A j \in 1..(i - 1) : Wanted(c, k, keys[j]) = <<>>])

\* The alternatives that can be tried.
Triable(c) ==
    {k \in DOMAIN c.firstMatch :
        c.firstMatch[k] # NoObject /\ FirstWanted(c, k, BrowserKeys) # <<>>}

IsReferenceMerge(c, requests) ==
    /\ Len(requests) = Cardinality(Triable(c))
    /\ \A k \in Triable(c) :
         LET request == requests[Cardinality({j \in Triable(c) : j <= k})]
         IN  /\ request.browser = FirstWanted(c, k, BrowserKeys)
             /\ request.version = FirstWanted(c, k, VersionKeys)
             /\ request.platform = FirstWanted(c, k, PlatformKeys)
             /\ request.region = FirstWanted(c, k, RegionKeys)
=============================================================================
