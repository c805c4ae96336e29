---------------------------- MODULE SessionPaths ----------------------------
(***************************************************************************)
(* What the proxy does with a path that names a session: the id a backend   *)
(* gave becomes the public id of the client, the client puts it on paths,   *)
(* and the handlers make of those the paths and the pool of the backend.    *)
(* The text of a path is what follows its fixed prefix.                     *)
(***************************************************************************)
EXTENDS SessionId, SequencesExt

CONSTANTS
    Slash,
    Pw,                 \* "pw_"
    ArtifactSuffix,     \* ".mp4" of /video/ and ".log" of /logs/
    Endpoints,          \* /session/, /host/ and the prefixes of sideroute
    Tokens,             \* route tokens, hexadecimal
    Configured,         \* those of the pools that are configured now
    Upstreams,          \* session ids backends give
    Rests,              \* what may follow the id on a path
    Texts               \* other texts clients may ask for

HasSlash(s) == \E i \in DOMAIN s : s[i] = Slash

ASSUME SlashAssumption == Slash # Sep /\ ~HasSlash(Prefix)
ASSUME EndpointsAssumption ==
    {"session", "host", "video", "logs"} \subseteq Endpoints /\ "none" \notin Endpoints
ASSUME SuffixAssumption ==
    /\ DOMAIN ArtifactSuffix = {"video", "logs"}
    /\ \A e \in DOMAIN ArtifactSuffix :
         LET suffix == ArtifactSuffix[e]
         IN  suffix \in Text /\ suffix # <<>> /\ ~HasSep(suffix) /\ ~HasSlash(suffix)

\* A session id has no slash and is not the name of a recording or a log.
ASSUME UpstreamsAssumption ==
    \A u \in Upstreams :
        /\ u \in Text /\ u # <<>> /\ ~HasSlash(u)
        /\ \A e \in DOMAIN ArtifactSuffix : ~IsSuffix(ArtifactSuffix[e], u)
ASSUME TokensAssumption ==
    /\ Configured \subseteq Tokens
    /\ \A t \in Tokens : t \in Text /\ t # <<>> /\ ~HasSep(t) /\ ~HasSlash(t)
ASSUME RestsAssumption == \A r \in Rests : r \in Text /\ (r # <<>> => r[1] = Slash)
ASSUME TextsAssumption == Texts \subseteq Text

VARIABLES
    token, upstream,    \* the session: the token of its pool, its id there
    public,             \* the public id, once given out
    ask,                \* what the client asks for
    answer              \* what becomes of it

vars == <<token, upstream, public, ask, answer>>

Reply(status) == [status |-> status, pool |-> <<>>, path |-> <<>>]

Init ==
    /\ token \in Tokens
    /\ upstream \in Upstreams
    /\ public = [ok |-> FALSE, id |-> <<>>]
    /\ ask = [endpoint |-> "none", text |-> <<>>]
    /\ answer = Reply("none")

-----------------------------------------------------------------------------

\* firstPathSegment.
Segment(text) ==
    LET ends == {i \in DOMAIN text : text[i] = Slash}
        end == IF ends = {} THEN Len(text) + 1 ELSE CHOOSE i \in ends : \A j \in ends : i <= j
    IN  [head |-> SubSeq(text, 1, end - 1), tail |-> SubSeq(text, end, Len(text))]

\* trimArtifactSuffix: .mp4 belongs to /video/ and .log to /logs/.
TrimArtifactSuffix(endpoint, part) ==
    IF endpoint \in DOMAIN ArtifactSuffix /\ IsSuffix(ArtifactSuffix[endpoint], part)
    THEN [name |-> SubSeq(part, 1, Len(part) - Len(ArtifactSuffix[endpoint])),
          suffix |-> ArtifactSuffix[endpoint]]
    ELSE [name |-> part, suffix |-> <<>>]

\* routeSession, then what is done with the pool it finds.
Route(name, sent) ==
    IF ~Decode(name).ok THEN Reply("400")
    ELSE IF Decode(name).token \notin Configured THEN Reply("404")
    ELSE sent

\* Mutant: what follows the id is lost.
ForwardSessionHead(text) ==
    LET name == Segment(text).head
    IN  Route(name, [status |-> "sent", pool |-> Decode(name).token,
                     path |-> Decode(name).upstream])

\* proxyWebDriverSession.
ForwardSession(text) ==
    IF text = <<>> THEN Reply("400")
    ELSE LET name == Segment(text).head
         IN  Route(name, [status |-> "sent", pool |-> Decode(name).token,
                          path |-> Decode(name).upstream \o Segment(text).tail])

\* Mutant: a video gets its .mp4 whether the client gave it or not.
ForwardSideTwice(endpoint, text) ==
    LET trimmed == TrimArtifactSuffix(endpoint, Segment(text).head)
        parts == Decode(trimmed.name)
        key == IF IsPrefix(Pw, parts.upstream) THEN trimmed.name ELSE parts.upstream
        named == key \o trimmed.suffix
    IN  Route(trimmed.name,
              [status |-> "sent", pool |-> parts.token,
               path |-> (IF endpoint = "video" /\ Segment(text).tail = <<>>
                         THEN named \o ArtifactSuffix["video"] ELSE named)
                        \o Segment(text).tail])

\* proxySideEndpoint: a Playwright session keeps its public id, and a bare
\* /video/ path gets its .mp4. Without an id it is the index of some pool.
ForwardSide(endpoint, text) ==
    LET trimmed == TrimArtifactSuffix(endpoint, Segment(text).head)
        parts == Decode(trimmed.name)
        key == IF IsPrefix(Pw, parts.upstream) THEN trimmed.name ELSE parts.upstream
        named == key \o trimmed.suffix
        bareVideo == endpoint = "video" /\ trimmed.suffix = <<>> /\ Segment(text).tail = <<>>
    IN  IF text = <<>> THEN Reply("index")
        ELSE Route(trimmed.name,
                   [status |-> "sent", pool |-> parts.token,
                    path |-> (IF bareVideo THEN named \o ArtifactSuffix["video"] ELSE named)
                             \o Segment(text).tail])

\* hostInfo.
HostInfo(text) ==
    IF text = <<>> \/ HasSlash(text) THEN Reply("400")
    ELSE Route(text, [status |-> "info", pool |-> Decode(text).token, path |-> <<>>])

ServeHTTP(endpoint, text) ==
    CASE endpoint = "session" -> ForwardSession(text)
      [] endpoint = "host"    -> HostInfo(text)
      [] OTHER                -> ForwardSide(endpoint, text)

\* createSession and proxyPlaywright give the public id out.
Issue ==
    /\ ~public.ok
    /\ public' = Encode(token, upstream)
    /\ UNCHANGED <<token, upstream, ask, answer>>

Ask(endpoint, text) ==
    /\ ask.endpoint = "none"
    /\ ask' = [endpoint |-> endpoint, text |-> text]
    /\ answer' = ServeHTTP(endpoint, text)
    /\ UNCHANGED <<token, upstream, public>>

\* The client puts the id it was given on a path, with or without the suffix of
\* an artifact.
AskForSession ==
    /\ public.ok
    /\ \E endpoint \in Endpoints, rest \in Rests :
         \/ Ask(endpoint, public.id \o rest)
         \/ /\ endpoint \in DOMAIN ArtifactSuffix
            /\ Ask(endpoint, (public.id \o ArtifactSuffix[endpoint]) \o rest)

\* Or something else: an id from elsewhere, or none.
AskForOther == \E endpoint \in Endpoints, text \in Texts : Ask(endpoint, text)

Forget ==
    /\ ask.endpoint # "none"
    /\ ask' = [endpoint |-> "none", text |-> <<>>]
    /\ answer' = Reply("none")
    /\ UNCHANGED <<token, upstream, public>>

Next == Issue \/ AskForSession \/ AskForOther \/ Forget

Spec == Init /\ [][Next]_vars

-----------------------------------------------------------------------------

\* The id the client was given is decoded to its session, whatever the backend
\* called it (sessionid.go:32-58).
IdsRoundTrip == public.ok => Decode(public.id) = [ok |-> TRUE, token |-> token, upstream |-> upstream]

\* What is routed at all is an id Encode makes of the pool and the session it is
\* routed to (sessionid.go:45-58, session.go:136-146).
OnlyEncodedIdsAreRouted ==
    answer.status \in {"sent", "info"} =>
        LET name == TrimArtifactSuffix(ask.endpoint, Segment(ask.text).head).name
        IN  /\ Decode(name).ok
            /\ Encode(Decode(name).token, Decode(name).upstream) = [ok |-> TRUE, id |-> name]

\* The path of a WebDriver command reaches the pool of the session with the id
\* exchanged and the rest as it was; a pool that is gone means 404
\* (session.go:114-131, 260-273).
CommandsReachTheirSession ==
    \A rest \in Rests :
        (public.ok /\ ask = [endpoint |-> "session", text |-> public.id \o rest]) =>
            answer = IF token \in Configured
                     THEN [status |-> "sent", pool |-> token, path |-> upstream \o rest]
                     ELSE Reply("404")

\* The name selenwright files the session's artifacts under. Ids of WebDriver
\* sessions that begin with pw_ are left to module Proxy.
Filed == IF IsPrefix(Pw, upstream) THEN public.id ELSE upstream

\* A recording is asked for by its own name, with one .mp4, whether or not the
\* client gave it (side.go:59-87, 167-176).
RecordingsAreNamedOnce ==
    ( /\ public.ok /\ token \in Configured
      /\ ask.endpoint = "video"
      /\ ask.text \in {public.id, public.id \o ArtifactSuffix["video"]} ) =>
        answer = [status |-> "sent", pool |-> token, path |-> Filed \o ArtifactSuffix["video"]]
=============================================================================
