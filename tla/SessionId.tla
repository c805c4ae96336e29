------------------------------ MODULE SessionId ------------------------------
(***************************************************************************)
(* internal/sessionid: the public session id r1_<token>_<upstream id>.      *)
(* Strings are sequences over an alphabet of which only the underscore      *)
(* matters here. A result says whether there was an error.                  *)
(***************************************************************************)
EXTENDS Naturals, Sequences

CONSTANTS
    Char,           \* the alphabet
    Sep,            \* the underscore
    Prefix          \* "r1"

Text == Seq(Char)

HasSep(s) == \E i \in DOMAIN s : s[i] = Sep

ASSUME SepAssumption == Sep \in Char
ASSUME PrefixAssumption == Prefix \in Text /\ ~HasSep(Prefix)

\* strings.Cut at the underscore: what is before and after the first one.
FirstSep(s) == CHOOSE i \in DOMAIN s : s[i] = Sep /\ \A j \in 1..(i - 1) : s[j] # Sep

\* Mutant: cut at the last underscore.
LastSep(s) == CHOOSE i \in DOMAIN s : s[i] = Sep /\ \A j \in (i + 1)..Len(s) : s[j] # Sep

CutAtLast(s) ==
    IF HasSep(s)
    THEN [found |-> TRUE, before |-> SubSeq(s, 1, LastSep(s) - 1),
          after |-> SubSeq(s, LastSep(s) + 1, Len(s))]
    ELSE [found |-> FALSE, before |-> s, after |-> <<>>]

Cut(s) ==
    IF HasSep(s)
    THEN [found |-> TRUE, before |-> SubSeq(s, 1, FirstSep(s) - 1),
          after |-> SubSeq(s, FirstSep(s) + 1, Len(s))]
    ELSE [found |-> FALSE, before |-> s, after |-> <<>>]

Encode(token, upstream) ==
    IF token = <<>> \/ upstream = <<>> \/ HasSep(token)
    THEN [ok |-> FALSE, id |-> <<>>]
    ELSE [ok |-> TRUE, id |-> (Prefix \o <<Sep>>) \o ((token \o <<Sep>>) \o upstream)]

NoParts == [ok |-> FALSE, token |-> <<>>, upstream |-> <<>>]

\* Mutant: the version of the id is not looked at.
DecodeAnyVersion(id) ==
    LET outer == Cut(id)
        inner == Cut(outer.after)
    IN  IF /\ outer.found
           /\ inner.found /\ inner.before # <<>> /\ inner.after # <<>>
        THEN [ok |-> TRUE, token |-> inner.before, upstream |-> inner.after]
        ELSE NoParts

Decode(id) ==
    LET outer == Cut(id)
        inner == Cut(outer.after)
    IN  IF /\ outer.found /\ outer.before = Prefix
           /\ inner.found /\ inner.before # <<>> /\ inner.after # <<>>
        THEN [ok |-> TRUE, token |-> inner.before, upstream |-> inner.after]
        ELSE NoParts

-----------------------------------------------------------------------------

\* An id that Encode gives out is decoded to the token and the upstream id it
\* was made of, underscores of the upstream id included (sessionid.go:32-58).
RoundTrip(token, upstream) ==
    Encode(token, upstream).ok =>
        Decode(Encode(token, upstream).id) =
            [ok |-> TRUE, token |-> token, upstream |-> upstream]

\* A text that Decode accepts is the id Encode makes of its parts, so that each
\* session has one public id (sessionid.go:32-58).
Canonical(id) ==
    Decode(id).ok => Encode(Decode(id).token, Decode(id).upstream) = [ok |-> TRUE, id |-> id]
=============================================================================
