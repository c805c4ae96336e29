------------------------- MODULE SessionPathsProofs -------------------------
(***************************************************************************)
(* The ids given out are decoded to their sessions, for every alphabet,     *)
(* every set of ids backends may choose and everything clients ask.         *)
(***************************************************************************)
EXTENDS SessionPaths, SetLemmas

-----------------------------------------------------------------------------
\* Encode and Decode are inverse to each other, for every alphabet and texts of
\* every length.

\* Cutting a text that was put together around its first underscore gives the
\* two pieces back.
LEMMA CutConcat ==
    ASSUME NEW a \in Text, NEW b \in Text, ~HasSep(a)
    PROVE  Cut((a \o <<Sep>>) \o b) = [found |-> TRUE, before |-> a, after |-> b]
<1> DEFINE s == (a \o <<Sep>>) \o b
           n == Len(a) + 1
<1>0. a \in Seq(Char) /\ b \in Seq(Char) /\ Sep \in Char
  BY SepAssumption DEF Text
<1>1. s \in Seq(Char) /\ Len(s) = Len(a) + 1 + Len(b)
  BY <1>0
<1>2. s[n] = Sep /\ n \in DOMAIN s
  BY <1>0, <1>1
<1>3. \A j \in 1..(n - 1) : s[j] = a[j] /\ s[j] # Sep
  BY <1>0, <1>1 DEF HasSep
<1>4. HasSep(s)
  BY <1>2 DEF HasSep
<1>5. FirstSep(s) = n
  <2>1. \A i \in DOMAIN s :
          (s[i] = Sep /\ \A j \in 1..(i - 1) : s[j] # Sep) => i = n
    <3> SUFFICES ASSUME NEW i \in DOMAIN s, s[i] = Sep,
                        \A j \in 1..(i - 1) : s[j] # Sep
                 PROVE  i = n
      OBVIOUS
    <3>1. i \in Nat /\ i >= 1 /\ n \in Nat /\ n >= 1
      BY <1>0, <1>1
    <3>2. ~(i < n)
      BY <3>1, <1>3
    <3>3. ~(n < i)
      BY <3>1, <1>2
    <3> QED BY <3>1, <3>2, <3>3
  <2>2. \A j \in 1..(n - 1) : s[j] # Sep
    BY <1>3
  <2> HIDE DEF s, n
  <2> QED BY <2>1, <2>2, <1>2 DEF FirstSep
<1>6. SubSeq(s, 1, n - 1) = a
  BY <1>0, <1>1, <1>3
<1>7. SubSeq(s, n + 1, Len(s)) = b
  BY <1>0, <1>1
<1> HIDE DEF s, n
<1>8. Cut(s) = [found |-> TRUE, before |-> a, after |-> b]
  BY <1>4, <1>5, <1>6, <1>7 DEF Cut
<1> QED BY <1>8 DEF s

\* A text with an underscore has a first one.
LEMMA FirstExists ==
    ASSUME NEW s \in Text, HasSep(s)
    PROVE  FirstSep(s) \in DOMAIN s /\ s[FirstSep(s)] = Sep
           /\ \A j \in 1..(FirstSep(s) - 1) : s[j] # Sep
<1> DEFINE T == {i \in DOMAIN s : s[i] = Sep}
           k == Min(T)
<1>0. DOMAIN s = 1..Len(s) /\ Len(s) \in Nat
  BY DEF Text
<1>1. T \in SUBSET Nat /\ T # {}
  BY <1>0 DEF HasSep
<1>2. k \in T /\ \A j \in T : k <= j
  <2> HIDE DEF T
  <2> QED BY <1>1, MinLemma
<1> HIDE DEF k
<1>3. k \in 1..Len(s) /\ s[k] = Sep
  BY <1>0, <1>2
<1>4. ASSUME NEW j \in 1..(k - 1)
      PROVE  s[j] # Sep
  <2>1. j \in DOMAIN s /\ ~(k <= j)
    BY <1>0, <1>3
  <2> QED BY <2>1, <1>2
<1> QED BY <1>0, <1>3, <1>4 DEF FirstSep

\* Conversely a text in which an underscore was found is its two pieces around
\* one, and the first piece has none.
LEMMA CutFound ==
    ASSUME NEW s \in Text, Cut(s).found
    PROVE  /\ Cut(s).before \in Text /\ Cut(s).after \in Text
           /\ ~HasSep(Cut(s).before)
           /\ s = (Cut(s).before \o <<Sep>>) \o Cut(s).after
<1> DEFINE k == FirstSep(s)
           a == SubSeq(s, 1, k - 1)
           b == SubSeq(s, k + 1, Len(s))
<1>1. s \in Seq(Char) /\ HasSep(s)
  BY DEF Cut, Text
<1>2. k \in 1..Len(s) /\ s[k] = Sep /\ \A j \in 1..(k - 1) : s[j] # Sep
  BY <1>1, FirstExists
<1>3. Cut(s).before = a /\ Cut(s).after = b
  BY <1>1 DEF Cut
<1> HIDE DEF k
<1>4. a \in Seq(Char) /\ Len(a) = k - 1 /\ \A j \in 1..(k - 1) : a[j] = s[j]
  BY <1>1, <1>2
<1>5. b \in Seq(Char) /\ Len(b) = Len(s) - k /\ \A j \in 1..Len(b) : b[j] = s[k + j]
  BY <1>1, <1>2
<1>6. ~HasSep(a)
  BY <1>2, <1>4 DEF HasSep
<1>7. s = (a \o <<Sep>>) \o b
  <2> DEFINE t == (a \o <<Sep>>) \o b
  <2> HIDE DEF a, b
  <2>1. t \in Seq(Char) /\ Len(t) = Len(s)
    BY <1>1, <1>2, <1>4, <1>5, SepAssumption
  <2>2. \A j \in 1..Len(s) : t[j] = s[j]
    <3> TAKE j \in 1..Len(s)
    <3>1. CASE j < k
      BY <3>1, <1>1, <1>2, <1>4, <1>5, SepAssumption
    <3>2. CASE j = k
      BY <3>2, <1>1, <1>2, <1>4, <1>5, SepAssumption
    <3>3. CASE j > k
      <4>1. j - k \in 1..Len(b) /\ b[j - k] = s[j]
        BY <3>3, <1>1, <1>2, <1>5
      <4>2. t[j] = b[j - k]
        BY <4>1, <3>3, <1>1, <1>2, <1>4, <1>5, SepAssumption
      <4> QED BY <4>1, <4>2
    <3>4. j \in Nat /\ k \in Nat
      BY <1>1, <1>2
    <3>5. j < k \/ j = k \/ j > k
      BY <3>4
    <3> HIDE DEF t
    <3> QED BY <3>1, <3>2, <3>3, <3>5
  <2> HIDE DEF t
  <2>3. t = s
    BY <2>1, <2>2, <1>1
  <2> QED BY <2>3 DEF t
<1> QED
  BY <1>3, <1>4, <1>5, <1>6, <1>7 DEF Text

\* Decode gives back what Encode was given: sessionid.Encode and Decode, with
\* the token free of underscores and both parts there, as Encode demands.
THEOREM EncodeDecode ==
    ASSUME NEW tok \in Text, NEW up \in Text
    PROVE  RoundTrip(tok, up)
<1> DEFINE inner == (tok \o <<Sep>>) \o up
           id == (Prefix \o <<Sep>>) \o inner
<1> SUFFICES ASSUME Encode(tok, up).ok
             PROVE  Decode(Encode(tok, up).id)
                      = [ok |-> TRUE, token |-> tok, upstream |-> up]
  BY DEF RoundTrip
<1>1. tok # <<>> /\ up # <<>> /\ ~HasSep(tok) /\ Encode(tok, up).id = id
  BY DEF Encode
<1>2. inner \in Text
  BY SepAssumption DEF Text
<1>3. Cut(id) = [found |-> TRUE, before |-> Prefix, after |-> inner]
  <2> HIDE DEF inner
  <2> QED BY <1>2, CutConcat, PrefixAssumption
<1>4. Cut(inner) = [found |-> TRUE, before |-> tok, after |-> up]
  BY <1>1, CutConcat
<1> HIDE DEF inner, id
<1>5. /\ Cut(id).found /\ Cut(id).before = Prefix
      /\ Cut(Cut(id).after).found
      /\ Cut(Cut(id).after).before = tok /\ Cut(Cut(id).after).after = up
  BY <1>3, <1>4
<1>6. Decode(id) = [ok |-> TRUE, token |-> tok, upstream |-> up]
  BY <1>1, <1>5 DEF Decode
<1> QED BY <1>1, <1>6

\* Decode accepts nothing but what Encode makes, so that one session cannot be
\* addressed under two public ids.
THEOREM DecodeEncode ==
    ASSUME NEW id \in Text
    PROVE  Canonical(id)
<1> DEFINE outer == Cut(id)
           inner == Cut(outer.after)
<1> SUFFICES ASSUME Decode(id).ok
             PROVE  Encode(Decode(id).token, Decode(id).upstream) = [ok |-> TRUE, id |-> id]
  BY DEF Canonical
<1>1. /\ outer.found /\ outer.before = Prefix
      /\ inner.found /\ inner.before # <<>> /\ inner.after # <<>>
      /\ Decode(id).token = inner.before /\ Decode(id).upstream = inner.after
  BY DEF Decode, NoParts
<1>2. outer.after \in Text /\ id = (Prefix \o <<Sep>>) \o outer.after
  BY <1>1, CutFound
<1>3. ~HasSep(inner.before) /\ outer.after = (inner.before \o <<Sep>>) \o inner.after
  <2> HIDE DEF outer
  <2> QED BY <1>1, <1>2, CutFound
<1> HIDE DEF inner, outer
<1> QED
  BY <1>1, <1>2, <1>3 DEF Encode

-----------------------------------------------------------------------------
\* The pieces of a path.

\* A name without a slash, and what follows it, are told apart again.
LEMMA SegmentOfName ==
    ASSUME NEW name \in Text, ~HasSlash(name),
           NEW rest \in Text, rest # <<>> => rest[1] = Slash
    PROVE  Segment(name \o rest) = [head |-> name, tail |-> rest]
<1> DEFINE text == name \o rest
           ends == {i \in DOMAIN text : text[i] = Slash}
           n == Len(name) + 1
<1>0. name \in Seq(Char) /\ rest \in Seq(Char)
  BY DEF Text
<1>1. /\ text \in Seq(Char) /\ Len(text) = Len(name) + Len(rest)
      /\ \A i \in 1..Len(name) : text[i] = name[i]
      /\ \A i \in 1..Len(rest) : text[Len(name) + i] = rest[i]
  BY <1>0
<1>2. \A i \in ends : n <= i
  BY <1>0, <1>1 DEF HasSlash
<1>3. SubSeq(text, 1, n - 1) = name
  BY <1>0, <1>1
<1>4. SubSeq(text, n, Len(text)) = rest
  BY <1>0, <1>1
<1>5. CASE rest = <<>>
  <2>1. ends = {} /\ Len(text) + 1 = n
    BY <1>0, <1>1, <1>2, <1>5
  <2> QED BY <2>1, <1>3, <1>4 DEF Segment
<1>6. CASE rest # <<>>
  <2>1. n \in ends
    BY <1>0, <1>1, <1>6
  <2>2. \A i \in ends : i \in Nat
    BY <1>1
  <2> HIDE DEF ends
  <2> DEFINE end == CHOOSE i \in ends : \A j \in ends : i <= j
  <2>3. end \in ends /\ \A j \in ends : end <= j
    BY <2>1, <1>2
  <2>4. end <= n /\ n <= end /\ end \in Nat /\ n \in Nat
    BY <2>1, <2>2, <2>3, <1>2
  <2> HIDE DEF end
  <2>5. end = n
    BY <2>4
  <2> QED BY <2>1, <2>5, <1>3, <1>4 DEF Segment, ends, end
<1> QED BY <1>5, <1>6

LEMMA SegmentType ==
    ASSUME NEW text \in Text
    PROVE  Segment(text).head \in Text
<1> DEFINE ends == {i \in DOMAIN text : text[i] = Slash}
           end == IF ends = {} THEN Len(text) + 1
                  ELSE CHOOSE i \in ends : \A j \in ends : i <= j
<1>0. text \in Seq(Char) /\ Len(text) \in Nat /\ DOMAIN text = 1..Len(text)
  BY DEF Text
<1>1. end \in 1..Len(text) + 1
  <2>1. CASE ends = {}
    BY <2>1, <1>0
  <2>2. CASE ends # {}
    <3>1. ends \in SUBSET Nat /\ ends \subseteq 1..Len(text)
      BY <1>0
    <3> HIDE DEF ends
    <3>2. Min(ends) \in ends
      BY <3>1, <2>2, MinLemma
    <3>3. end = Min(ends)
      BY <2>2 DEF Min
    <3>4. end \in 1..Len(text)
      BY <3>1, <3>2, <3>3
    <3> HIDE DEF end
    <3> QED BY <3>4, <1>0
  <2> QED BY <2>1, <2>2
<1> HIDE DEF end
<1>2. SubSeq(text, 1, end - 1) \in Seq(Char)
  BY <1>0, <1>1
<1>3. Segment(text).head = SubSeq(text, 1, end - 1)
  BY DEF Segment, end
<1> QED BY <1>2, <1>3 DEF Text

LEMMA SuffixLemma ==
    ASSUME NEW suffix \in Text, NEW text \in Text
    PROVE  IsSuffix(suffix, text) <=>
             /\ Len(suffix) <= Len(text)
             /\ \A i \in 1..Len(suffix) : suffix[i] = text[(Len(text) - Len(suffix)) + i]
<1> DEFINE n == Len(suffix)
           m == Len(text)
           r == Reverse(suffix)
           q == Reverse(text)
<1>0. suffix \in Seq(Char) /\ text \in Seq(Char) /\ n \in Nat /\ m \in Nat
  BY DEF Text
<1>1. /\ r \in Seq(Char) /\ Len(r) = n /\ \A i \in 1..n : r[i] = suffix[(n - i) + 1]
      /\ q \in Seq(Char) /\ Len(q) = m /\ \A i \in 1..m : q[i] = text[(m - i) + 1]
  BY <1>0 DEF Reverse
<1> HIDE DEF r, q
<1>2. IsSuffix(suffix, text) <=> n <= m /\ SubSeq(r, 1, n) = SubSeq(q, 1, n)
  BY <1>1 DEF IsSuffix, IsPrefix, r, q
<1>3. ASSUME n <= m
      PROVE  SubSeq(r, 1, n) = SubSeq(q, 1, n) <=> \A i \in 1..n : r[i] = q[i]
  BY <1>0, <1>1, <1>3
<1>4. ASSUME n <= m
      PROVE  (\A i \in 1..n : r[i] = q[i]) <=>
               \A i \in 1..n : suffix[i] = text[(m - n) + i]
  <2>1. \A i \in 1..n : /\ (n - i) + 1 \in 1..n
                        /\ (n - ((n - i) + 1)) + 1 = i
                        /\ (m - ((n - i) + 1)) + 1 = (m - n) + i
                        /\ i \in 1..m
    BY <1>0, <1>4
  <2>2. ASSUME \A i \in 1..n : r[i] = q[i], NEW i \in 1..n
        PROVE  suffix[i] = text[(m - n) + i]
    <3> DEFINE j == (n - i) + 1
    <3>1. /\ j \in 1..n /\ j \in 1..m
          /\ (n - j) + 1 = i /\ (m - j) + 1 = (m - n) + i
      BY <2>1
    <3> HIDE DEF j
    <3>2. r[j] = suffix[(n - j) + 1] /\ q[j] = text[(m - j) + 1] /\ r[j] = q[j]
      BY <3>1, <2>2, <1>1
    <3> QED BY <3>1, <3>2
  <2>3. ASSUME \A i \in 1..n : suffix[i] = text[(m - n) + i], NEW j \in 1..n
        PROVE  r[j] = q[j]
    <3>1. /\ (n - j) + 1 \in 1..n /\ j \in 1..m
          /\ (m - n) + ((n - j) + 1) = (m - j) + 1
      BY <2>1, <1>0, <1>4
    <3>2. suffix[(n - j) + 1] = text[(m - n) + ((n - j) + 1)]
      BY <3>1, <2>3
    <3> QED BY <3>1, <3>2, <1>1
  <2> QED BY <2>2, <2>3
<1> QED BY <1>2, <1>3, <1>4

LEMMA NoSlashConcat ==
    ASSUME NEW a \in Text, NEW b \in Text, ~HasSlash(a), ~HasSlash(b)
    PROVE  a \o b \in Text /\ ~HasSlash(a \o b)
<1>0. a \in Seq(Char) /\ b \in Seq(Char)
  BY DEF Text
<1>1. /\ a \o b \in Seq(Char) /\ Len(a \o b) = Len(a) + Len(b)
      /\ \A i \in 1..Len(a) : (a \o b)[i] = a[i]
      /\ \A i \in 1..Len(b) : (a \o b)[Len(a) + i] = b[i]
  BY <1>0
<1>2. ASSUME NEW i \in 1..Len(a) + Len(b)
      PROVE  (a \o b)[i] # Slash
  <2>1. CASE i <= Len(a)
    BY <2>1, <1>0, <1>1 DEF HasSlash
  <2>2. CASE i > Len(a)
    <3>1. i - Len(a) \in 1..Len(b) /\ Len(a) + (i - Len(a)) = i
      BY <2>2, <1>0
    <3> QED BY <3>1, <1>0, <1>1 DEF HasSlash
  <2> QED BY <2>1, <2>2, <1>0
<1> QED BY <1>1, <1>2 DEF HasSlash, Text

\* A suffix without an underscore does not reach over one.
LEMMA NoSuffixConcat ==
    ASSUME NEW suffix \in Text, ~HasSep(suffix),
           NEW a \in Text, NEW b \in Text, ~IsSuffix(suffix, b)
    PROVE  ~IsSuffix(suffix, (a \o <<Sep>>) \o b)
<1> DEFINE text == (a \o <<Sep>>) \o b
           n == Len(suffix)
<1>0. suffix \in Seq(Char) /\ a \in Seq(Char) /\ b \in Seq(Char) /\ Sep \in Char
  BY SepAssumption DEF Text
<1>1. /\ text \in Text /\ Len(text) = (Len(a) + 1) + Len(b)
      /\ text[Len(a) + 1] = Sep
      /\ \A i \in 1..Len(b) : text[(Len(a) + 1) + i] = b[i]
  BY <1>0 DEF Text
<1> SUFFICES ASSUME IsSuffix(suffix, text)
             PROVE  FALSE
  OBVIOUS
<1> HIDE DEF text
<1>2. n <= Len(text) /\ \A i \in 1..n : suffix[i] = text[(Len(text) - n) + i]
  BY <1>1, SuffixLemma
<1>3. CASE n <= Len(b)
  <2>1. \A i \in 1..n : /\ (Len(b) - n) + i \in 1..Len(b)
                        /\ (Len(text) - n) + i = (Len(a) + 1) + ((Len(b) - n) + i)
    BY <1>0, <1>1, <1>3
  <2>2. \A i \in 1..n : suffix[i] = b[(Len(b) - n) + i]
    BY <2>1, <1>1, <1>2
  <2> QED BY <2>2, <1>3, SuffixLemma
<1>4. CASE n > Len(b)
  <2> DEFINE i == n - Len(b)
  <2>1. i \in 1..n /\ (Len(text) - n) + i = Len(a) + 1
    BY <1>0, <1>1, <1>4, <1>2
  <2> HIDE DEF i
  <2>2. suffix[i] = Sep /\ i \in DOMAIN suffix
    BY <2>1, <1>0, <1>1, <1>2
  <2> QED BY <2>2 DEF HasSep
<1> QED BY <1>0, <1>3, <1>4

\* What an id that is given out looks like to the handlers.
LEMMA IdLemma ==
    ASSUME NEW t \in Tokens, NEW u \in Upstreams
    PROVE  /\ Encode(t, u).ok
           /\ Encode(t, u).id \in Text
           /\ Encode(t, u).id # <<>>
           /\ ~HasSlash(Encode(t, u).id)
           /\ Decode(Encode(t, u).id) = [ok |-> TRUE, token |-> t, upstream |-> u]
           /\ \A e \in DOMAIN ArtifactSuffix : ~IsSuffix(ArtifactSuffix[e], Encode(t, u).id)
<1> DEFINE inner == (t \o <<Sep>>) \o u
           id == (Prefix \o <<Sep>>) \o inner
<1>0. /\ t \in Text /\ t # <<>> /\ ~HasSep(t) /\ ~HasSlash(t)
      /\ u \in Text /\ u # <<>> /\ ~HasSlash(u)
      /\ <<Sep>> \in Text /\ ~HasSlash(<<Sep>>)
      /\ Prefix \in Text /\ ~HasSlash(Prefix)
  <2>1. t \in Text /\ t # <<>> /\ ~HasSep(t) /\ ~HasSlash(t)
    BY TokensAssumption
  <2>2. u \in Text /\ u # <<>> /\ ~HasSlash(u)
    BY UpstreamsAssumption
  <2>3. <<Sep>> \in Text /\ ~HasSlash(<<Sep>>)
    BY SepAssumption, SlashAssumption DEF Text, HasSlash
  <2> QED BY <2>1, <2>2, <2>3, SlashAssumption, PrefixAssumption
<1>1. Encode(t, u) = [ok |-> TRUE, id |-> id]
  BY <1>0 DEF Encode
<1>2. inner \in Text /\ ~HasSlash(inner)
  BY <1>0, NoSlashConcat
<1>3. id \in Text /\ ~HasSlash(id)
  <2> HIDE DEF inner
  <2> QED BY <1>0, <1>2, NoSlashConcat
<1>4. id # <<>>
  <2> HIDE DEF inner
  <2> QED BY <1>0, <1>2 DEF Text
<1>5. Decode(id) = [ok |-> TRUE, token |-> t, upstream |-> u]
  <2>1. RoundTrip(t, u)
    BY <1>0, EncodeDecode
  <2> HIDE DEF id
  <2> QED BY <2>1, <1>1 DEF RoundTrip
<1>6. ASSUME NEW e \in DOMAIN ArtifactSuffix
      PROVE  ~IsSuffix(ArtifactSuffix[e], id)
  <2>1. ArtifactSuffix[e] \in Text /\ ~HasSep(ArtifactSuffix[e])
    BY SuffixAssumption
  <2>2. ~IsSuffix(ArtifactSuffix[e], inner)
    BY <2>1, <1>0, UpstreamsAssumption, NoSuffixConcat
  <2> HIDE DEF inner
  <2> QED BY <2>1, <2>2, <1>0, <1>2, NoSuffixConcat
<1> HIDE DEF id
<1> QED BY <1>1, <1>3, <1>4, <1>5, <1>6

\* An artifact suffix that was put on a name is taken off, and nothing else is.
LEMMA TrimLemma ==
    ASSUME NEW e \in DOMAIN ArtifactSuffix, NEW name \in Text
    PROVE  /\ name \o ArtifactSuffix[e] \in Text
           /\ ~HasSlash(name) => ~HasSlash(name \o ArtifactSuffix[e])
           /\ TrimArtifactSuffix(e, name \o ArtifactSuffix[e]) =
                [name |-> name, suffix |-> ArtifactSuffix[e]]
<1> DEFINE suffix == ArtifactSuffix[e]
           text == name \o suffix
<1>0. suffix \in Text /\ ~HasSlash(suffix)
  BY SuffixAssumption
<1>1. suffix \in Seq(Char) /\ name \in Seq(Char)
  BY <1>0 DEF Text
<1> HIDE DEF suffix
<1>2. /\ text \in Seq(Char) /\ Len(text) = Len(name) + Len(suffix)
      /\ \A i \in 1..Len(suffix) : text[Len(name) + i] = suffix[i]
  BY <1>1
<1>3. Len(text) - Len(suffix) = Len(name) /\ Len(suffix) <= Len(text)
  BY <1>1, <1>2
<1>4. IsSuffix(suffix, text)
  BY <1>0, <1>2, <1>3, SuffixLemma DEF Text
<1>5. SubSeq(text, 1, Len(text) - Len(suffix)) = name
  BY <1>1, <1>3
<1>6. TrimArtifactSuffix(e, text) = [name |-> name, suffix |-> suffix]
  BY <1>4, <1>5 DEF TrimArtifactSuffix, suffix
<1>7. text \in Text /\ (~HasSlash(name) => ~HasSlash(text))
  BY <1>0, <1>2, NoSlashConcat DEF Text
<1> QED BY <1>6, <1>7 DEF suffix

LEMMA TrimType ==
    ASSUME NEW e, NEW text \in Text
    PROVE  TrimArtifactSuffix(e, text).name \in Text
<1>1. text \in Seq(Char) /\ Len(text) \in Nat
  BY DEF Text
<1>2. CASE e \in DOMAIN ArtifactSuffix /\ IsSuffix(ArtifactSuffix[e], text)
  <2> DEFINE n == Len(text) - Len(ArtifactSuffix[e])
  <2>1. ArtifactSuffix[e] \in Text
    BY <1>2, SuffixAssumption
  <2>2. n \in 0..Len(text)
    BY <2>1, <1>1, <1>2, SuffixLemma DEF Text
  <2>3. SubSeq(text, 1, n) \in Seq(Char)
    BY <2>2, <1>1
  <2> QED BY <2>3, <1>2 DEF TrimArtifactSuffix, Text
<1>3. CASE ~(e \in DOMAIN ArtifactSuffix /\ IsSuffix(ArtifactSuffix[e], text))
  BY <1>3 DEF TrimArtifactSuffix
<1> QED BY <1>2, <1>3

-----------------------------------------------------------------------------

\* What all rests on: the id that was given out is the encoding of the session,
\* whose parts never change.
IssuedByEncode ==
    /\ token \in Tokens /\ upstream \in Upstreams
    /\ public.ok => public = Encode(token, upstream)

LEMMA Issued == Spec => []IssuedByEncode
<1>1. Init => IssuedByEncode
  BY DEF Init, IssuedByEncode
<1>2. IssuedByEncode /\ [Next]_vars => IssuedByEncode'
  <2> SUFFICES ASSUME IssuedByEncode, [Next]_vars
               PROVE  IssuedByEncode'
    OBVIOUS
  <2>1. CASE Issue
    BY <2>1 DEF Issue, IssuedByEncode
  <2>2. CASE AskForSession
    BY <2>2 DEF AskForSession, Ask, IssuedByEncode
  <2>3. CASE AskForOther
    BY <2>3 DEF AskForOther, Ask, IssuedByEncode
  <2>4. CASE Forget
    BY <2>4 DEF Forget, IssuedByEncode
  <2>5. CASE UNCHANGED vars
    BY <2>5 DEF vars, IssuedByEncode
  <2> QED BY <2>1, <2>2, <2>3, <2>4, <2>5 DEF Next
<1> QED BY <1>1, <1>2, PTL DEF Spec

\* The public id of a session is decoded to it, whatever the id the backend gave
\* and whatever is asked meanwhile: createSession, proxyPlaywright and
\* routeSession agree.
THEOREM IssuedIdsRoundTrip == Spec => []IdsRoundTrip
<1>1. IssuedByEncode => IdsRoundTrip
  BY IdLemma DEF IssuedByEncode, IdsRoundTrip
<1> QED BY <1>1, Issued, PTL

\* What the answers rest on: there is one just while something is asked, it is
\* the one ServeHTTP gives, and what is asked is a text.
AskedText == ask.text \in Text
Answered ==
    \/ ask = [endpoint |-> "none", text |-> <<>>] /\ answer = Reply("none")
    \/ ask.endpoint \in Endpoints /\ answer = ServeHTTP(ask.endpoint, ask.text)

AnswerInv == IssuedByEncode /\ AskedText /\ Answered

LEMMA AskStep ==
    ASSUME NEW endpoint \in Endpoints, NEW text \in Text, Ask(endpoint, text)
    PROVE  AskedText' /\ Answered'
<1>1. ask' = [endpoint |-> endpoint, text |-> text] /\ answer' = ServeHTTP(endpoint, text)
  BY DEF Ask
<1>2. ask'.endpoint = endpoint /\ ask'.text = text
  BY <1>1
<1> QED BY <1>1, <1>2 DEF AskedText, Answered

LEMMA AlwaysAnswered == Spec => []AnswerInv
<1>1. Init => AskedText /\ Answered
  BY DEF Init, AskedText, Answered, Text
<1>2. IssuedByEncode /\ AskedText /\ Answered /\ [Next]_vars => AskedText' /\ Answered'
  <2> SUFFICES ASSUME IssuedByEncode, AskedText, Answered, [Next]_vars
               PROVE  AskedText' /\ Answered'
    OBVIOUS
  <2>1. CASE Issue
    BY <2>1 DEF Issue, AskedText, Answered
  <2>2. CASE AskForSession
    <3>1. public.id \in Text
      BY <2>2, IdLemma DEF AskForSession, IssuedByEncode
    <3>2. PICK endpoint \in Endpoints, rest \in Rests :
             \/ Ask(endpoint, public.id \o rest)
             \/ /\ endpoint \in DOMAIN ArtifactSuffix
                /\ Ask(endpoint, (public.id \o ArtifactSuffix[endpoint]) \o rest)
      BY <2>2 DEF AskForSession
    <3>3. rest \in Text
      BY RestsAssumption
    <3>4. CASE Ask(endpoint, public.id \o rest)
      <4>1. public.id \o rest \in Text
        BY <3>1, <3>3 DEF Text
      <4> QED BY <3>4, <4>1, AskStep
    <3>5. CASE /\ endpoint \in DOMAIN ArtifactSuffix
               /\ Ask(endpoint, (public.id \o ArtifactSuffix[endpoint]) \o rest)
      <4>1. ArtifactSuffix[endpoint] \in Text
        BY <3>5, SuffixAssumption
      <4>2. (public.id \o ArtifactSuffix[endpoint]) \o rest \in Text
        BY <3>1, <3>3, <4>1 DEF Text
      <4> QED BY <3>5, <4>2, AskStep
    <3> QED BY <3>2, <3>4, <3>5
  <2>3. CASE AskForOther
    <3>1. PICK endpoint \in Endpoints, text \in Texts : Ask(endpoint, text)
      BY <2>3 DEF AskForOther
    <3> QED BY <3>1, AskStep, TextsAssumption
  <2>4. CASE Forget
    BY <2>4 DEF Forget, AskedText, Answered, Text
  <2>5. CASE UNCHANGED vars
    BY <2>5 DEF vars, AskedText, Answered
  <2> QED BY <2>1, <2>2, <2>3, <2>4, <2>5 DEF Next
<1>3. Spec => [](AskedText /\ Answered)
  BY <1>1, <1>2, Issued, PTL DEF Spec
<1> QED BY <1>3, Issued, PTL DEF AnswerInv

-----------------------------------------------------------------------------

LEMMA RouteLemma ==
    ASSUME NEW name, NEW sent, Route(name, sent).status \in {"sent", "info"}
    PROVE  Decode(name).ok
BY DEF Route, Reply

\* What the handlers make of an id they can decode.
LEMMA RouteDecoded ==
    ASSUME NEW name, NEW sent, Decode(name).ok
    PROVE  Route(name, sent) = IF Decode(name).token \in Configured THEN sent ELSE Reply("404")
BY DEF Route

LEMMA SideLemma ==
    ASSUME NEW endpoint, NEW text, text # <<>>,
           LET parts == Decode(TrimArtifactSuffix(endpoint, Segment(text).head).name)
           IN  parts.ok /\ parts.token \in Configured
    PROVE  LET trimmed == TrimArtifactSuffix(endpoint, Segment(text).head)
               parts == Decode(trimmed.name)
               named == (IF IsPrefix(Pw, parts.upstream) THEN trimmed.name ELSE parts.upstream)
                          \o trimmed.suffix
           IN  ForwardSide(endpoint, text) =
                 [status |-> "sent", pool |-> parts.token,
                  path |-> (IF endpoint = "video" /\ trimmed.suffix = <<>> /\ Segment(text).tail = <<>>
                            THEN named \o ArtifactSuffix["video"] ELSE named)
                           \o Segment(text).tail]
<1> DEFINE name == TrimArtifactSuffix(endpoint, Segment(text).head).name
<1>1. \A sent : Route(name, sent) = sent
  BY RouteDecoded
<1> QED BY <1>1 DEF ForwardSide

\* What is routed at all is an id that Encode makes of the pool and the session
\* it is routed to: routeSession decodes nothing else, on any endpoint.
THEOREM RoutedIdsAreEncoded == Spec => []OnlyEncodedIdsAreRouted
<1>1. AnswerInv => OnlyEncodedIdsAreRouted
  <2> DEFINE name == TrimArtifactSuffix(ask.endpoint, Segment(ask.text).head).name
  <2> SUFFICES ASSUME AnswerInv, answer.status \in {"sent", "info"}
               PROVE  Decode(name).ok /\ Canonical(name)
    BY DEF OnlyEncodedIdsAreRouted, Canonical
  <2>1. ask.text \in Text /\ Segment(ask.text).head \in Text
    BY SegmentType DEF AnswerInv, AskedText
  <2>2. name \in Text
    BY <2>1, TrimType
  <2>3. answer = ServeHTTP(ask.endpoint, ask.text)
    BY DEF AnswerInv, Answered, Reply
  <2>4. CASE ask.endpoint = "session"
    <3>1. name = Segment(ask.text).head
      BY <2>4, SuffixAssumption DEF TrimArtifactSuffix
    <3>2. Decode(Segment(ask.text).head).ok
      BY <2>3, <2>4, RouteLemma DEF ServeHTTP, ForwardSession, Reply
    <3> QED BY <3>1, <3>2, <2>2, DecodeEncode
  <2>5. CASE ask.endpoint = "host"
    <3>1. ~HasSlash(ask.text) /\ Decode(ask.text).ok
      BY <2>3, <2>5, RouteLemma DEF ServeHTTP, HostInfo, Reply
    <3>2. Segment(ask.text).head = ask.text
      <4>1. <<>> \in Text /\ ask.text \o <<>> = ask.text
        BY <2>1 DEF Text
      <4>2. Segment(ask.text \o <<>>) = [head |-> ask.text, tail |-> <<>>]
        BY <2>1, <3>1, <4>1, SegmentOfName
      <4> QED BY <4>1, <4>2
    <3>3. name = ask.text
      BY <3>2, <2>5, SuffixAssumption DEF TrimArtifactSuffix
    <3> QED BY <3>1, <3>3, <2>2, DecodeEncode
  <2>6. CASE ask.endpoint \notin {"session", "host"}
    <3>1. answer = ForwardSide(ask.endpoint, ask.text)
      BY <2>3, <2>6 DEF ServeHTTP
    <3>2. answer.status # "index"
      OBVIOUS
    <3>3. PICK sent : answer = Route(name, sent)
      BY <3>1, <3>2 DEF ForwardSide, Reply
    <3>4. Decode(name).ok
      BY <3>3, RouteLemma
    <3> QED BY <3>4, <2>2, DecodeEncode
  <2> QED BY <2>4, <2>5, <2>6
<1> QED BY <1>1, AlwaysAnswered, PTL

\* A WebDriver command reaches the pool that has the session, with the id it has
\* there and the rest of the path as it was: proxyWebDriverSession.
THEOREM CommandsArrive == Spec => []CommandsReachTheirSession
<1>1. AnswerInv => CommandsReachTheirSession
  <2> SUFFICES ASSUME AnswerInv, NEW rest \in Rests, public.ok,
                      ask = [endpoint |-> "session", text |-> public.id \o rest]
               PROVE  answer = IF token \in Configured
                               THEN [status |-> "sent", pool |-> token,
                                     path |-> upstream \o rest]
                               ELSE Reply("404")
    BY DEF CommandsReachTheirSession
  <2> DEFINE text == public.id \o rest
  <2>1. /\ public.id \in Text /\ public.id # <<>> /\ ~HasSlash(public.id)
        /\ Decode(public.id) = [ok |-> TRUE, token |-> token, upstream |-> upstream]
    BY IdLemma DEF AnswerInv, IssuedByEncode
  <2>2. rest \in Text /\ (rest # <<>> => rest[1] = Slash)
    BY RestsAssumption
  <2>3. Segment(text) = [head |-> public.id, tail |-> rest]
    BY <2>1, <2>2, SegmentOfName
  <2>4. text # <<>>
    BY <2>1, <2>2 DEF Text
  <2>5. answer = ForwardSession(text)
    BY DEF AnswerInv, Answered, ServeHTTP
  <2> DEFINE sent == [status |-> "sent", pool |-> token, path |-> upstream \o rest]
  <2>6. ForwardSession(text) = Route(public.id, sent)
    <3> HIDE DEF text
    <3>1. Segment(text).head = public.id /\ Segment(text).tail = rest
      BY <2>3
    <3>2. Decode(public.id).token = token /\ Decode(public.id).upstream = upstream
      BY <2>1
    <3> QED BY <2>4, <3>1, <3>2 DEF ForwardSession
  <2>7. Route(public.id, sent) = IF token \in Configured THEN sent ELSE Reply("404")
    <3>1. Decode(public.id).ok /\ Decode(public.id).token = token
      BY <2>1
    <3> HIDE DEF sent
    <3> QED BY <3>1, RouteDecoded
  <2> QED BY <2>5, <2>6, <2>7
<1> QED BY <1>1, AlwaysAnswered, PTL

\* A recording is asked for by its own name with one .mp4, whether or not the
\* client gave it: proxySideEndpoint with trimArtifactSuffix.
THEOREM RecordingsHaveOneName == Spec => []RecordingsAreNamedOnce
<1>1. AnswerInv => RecordingsAreNamedOnce
  <2> DEFINE mp4 == ArtifactSuffix["video"]
             id == public.id
  <2> SUFFICES ASSUME AnswerInv, public.ok, token \in Configured,
                      ask.endpoint = "video", ask.text \in {id, id \o mp4}
               PROVE  answer = [status |-> "sent", pool |-> token, path |-> Filed \o mp4]
    BY DEF RecordingsAreNamedOnce
  <2>1. /\ id \in Text /\ id # <<>> /\ ~HasSlash(id)
        /\ Decode(id) = [ok |-> TRUE, token |-> token, upstream |-> upstream]
        /\ upstream \in Text
        /\ \A e \in DOMAIN ArtifactSuffix : ~IsSuffix(ArtifactSuffix[e], id)
    BY IdLemma, UpstreamsAssumption DEF AnswerInv, IssuedByEncode
  <2>2. "video" \in DOMAIN ArtifactSuffix /\ mp4 \in Text /\ mp4 # <<>>
    BY SuffixAssumption
  <2>3. /\ id \o mp4 \in Text /\ ~HasSlash(id \o mp4)
        /\ TrimArtifactSuffix("video", id \o mp4) = [name |-> id, suffix |-> mp4]
    BY <2>1, <2>2, TrimLemma
  <2>4. TrimArtifactSuffix("video", id) = [name |-> id, suffix |-> <<>>]
    BY <2>1, <2>2 DEF TrimArtifactSuffix
  <2>5. answer = ForwardSide("video", ask.text)
    <3>1. answer = ServeHTTP("video", ask.text)
      BY DEF AnswerInv, Answered
    <3> QED BY <3>1 DEF ServeHTTP
  <2>6. /\ ask.text \in Text /\ ask.text # <<>>
        /\ Segment(ask.text) = [head |-> ask.text, tail |-> <<>>]
    <3>1. ask.text \in Text /\ ~HasSlash(ask.text)
      BY <2>1, <2>3
    <3>2. ask.text # <<>>
      BY <2>1, <2>2 DEF Text
    <3>3. <<>> \in Text /\ ask.text \o <<>> = ask.text
      BY <3>1 DEF Text
    <3>4. Segment(ask.text \o <<>>) = [head |-> ask.text, tail |-> <<>>]
      BY <3>1, <3>3, SegmentOfName
    <3> QED BY <3>1, <3>2, <3>3, <3>4
  <2> DEFINE key == Filed
  <2>7. key \in Text /\ key = IF IsPrefix(Pw, upstream) THEN id ELSE upstream
    BY <2>1 DEF Filed
  <2>8. key \o <<>> = key /\ (key \o mp4) \o <<>> = key \o mp4
    BY <2>2, <2>7 DEF Text
  <2> DEFINE trimmed == TrimArtifactSuffix("video", Segment(ask.text).head)
             named == key \o trimmed.suffix
  <2>9. ASSUME trimmed.name = id
        PROVE  answer = [status |-> "sent", pool |-> token,
                         path |-> (IF trimmed.suffix = <<>> THEN named \o mp4 ELSE named) \o <<>>]
    <3>1. /\ Decode(trimmed.name).ok
          /\ Decode(trimmed.name).token = token /\ Decode(trimmed.name).upstream = upstream
      BY <2>1, <2>9
    <3>2. Segment(ask.text).tail = <<>>
      BY <2>6
    <3> DEFINE parts == Decode(trimmed.name)
               sideKey == IF IsPrefix(Pw, parts.upstream) THEN trimmed.name ELSE parts.upstream
               full == sideKey \o trimmed.suffix
    <3>3. sideKey = key
      BY <3>1, <2>7, <2>9
    <3>4. ForwardSide("video", ask.text) =
            [status |-> "sent", pool |-> parts.token,
             path |-> (IF "video" = "video" /\ trimmed.suffix = <<>> /\ Segment(ask.text).tail = <<>>
                       THEN full \o mp4 ELSE full) \o Segment(ask.text).tail]
      BY <3>1, <2>6, SideLemma
    <3> HIDE DEF id, key, mp4, trimmed, sideKey
    <3> QED BY <3>1, <3>2, <3>3, <3>4, <2>5
  <2>10. CASE ask.text = id
    <3>1. trimmed.name = id /\ trimmed.suffix = <<>>
      BY <2>4, <2>6, <2>10
    <3> HIDE DEF id, key, trimmed
    <3> QED BY <3>1, <2>8, <2>9 DEF key
  <2>11. CASE ask.text = id \o mp4
    <3>1. trimmed.name = id /\ trimmed.suffix = mp4
      BY <2>3, <2>6, <2>11
    <3> HIDE DEF id, key, trimmed
    <3> QED BY <3>1, <2>2, <2>8, <2>9 DEF key
  <2> QED BY <2>10, <2>11
<1> QED BY <1>1, AlwaysAnswered, PTL
=============================================================================
