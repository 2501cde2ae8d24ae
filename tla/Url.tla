---------------------------------- MODULE Url ----------------------------------
(***************************************************************************)
(* The URL parser of source/url.c: url_parse splits a URL into pointer and *)
(* length pairs, url_parse_scheme looks a scheme up in the scheme table.  *)
(* A component is Absent (its pointer NULL), a text, or Wrapped: a length *)
(* computed as a negative pointer difference, which the size_t field      *)
(* holds as a huge number.                                                *)
(***************************************************************************)
EXTENDS Text, TLC

CONSTANTS Schemes,    \* scheme texts, or Absent
          Userinfos,  \* userinfo texts, or Absent
          Hosts,      \* host texts, or Absent
          Ports,      \* port texts, or Absent
          Paths,      \* path texts starting with '/', or Absent
          Queries     \* query texts, or Absent

Absent == [is |-> "absent"]
Wrapped == [is |-> "wrapped"]
Part(u, from, len) ==
    IF len < 0 THEN Wrapped ELSE [is |-> "text", text |-> SubSeq(u, from, from + len - 1)]

\* The rest of the string from position i: strlen(u + i).
Rest(u, i) == Len(u) - i + 1

SCHEME_END == <<COLON, SLASH, SLASH>>

\* The scheme table, in its order.
SchemeTable ==
    << [name |-> <<W("mqtt"), W("s")>>, port |-> 8883, encrypted |-> TRUE],
       [name |-> <<W("mqtt")>>,         port |-> 1883, encrypted |-> FALSE],
       [name |-> <<W("ws"), W("s")>>,   port |-> 443,  encrypted |-> TRUE],
       [name |-> <<W("ws")>>,           port |-> 80,   encrypted |-> FALSE] >>

\* The table with mqtt listed before mqtts.
SchemeTableMqttFirst ==
    << SchemeTable[2], SchemeTable[1], SchemeTable[3], SchemeTable[4] >>

\* url_parse_scheme: the first entry whose name the scheme text starts
\* with (strncmp over strlen(name)).
LookUpScheme(table, t) ==
    LET I == {i \in 1..Len(table) :
                Len(table[i].name) <= Len(t) /\
                SubSeq(t, 1, Len(table[i].name)) = table[i].name}
        i == CHOOSE i \in I : \A j \in I : i <= j
    IN IF I = {} THEN [found |-> FALSE]
       ELSE [found |-> TRUE, port |-> table[i].port, encrypted |-> table[i].encrypted]

UrlParseSchemeMqttFirst(t) == LookUpScheme(SchemeTableMqttFirst, t)

\* url_parse_scheme
UrlParseScheme(t) == LookUpScheme(SchemeTable, t)

\* The query with its '?' left in.
PathQueryKeepMark(u, p) ==
    LET q == StrChr(u, p, QMARK) IN
    IF q = 0 THEN [path |-> Part(u, p, Rest(u, p)), query |-> Absent]
    ELSE [path |-> Part(u, p, q - p), query |-> Part(u, q, Rest(u, q))]

\* The last step of url_parse: path up to the first '?', query after it.
PathQuery(u, p) ==
    LET q == StrChr(u, p, QMARK) IN
    IF q = 0 THEN [path |-> Part(u, p, Rest(u, p)), query |-> Absent]
    ELSE [path |-> Part(u, p, q - p), query |-> Part(u, q + 1, Rest(u, q + 1))]

NoPath == [path |-> Absent, query |-> Absent]

\* url_parse after the scheme, from position h: userinfo up to the first
\* '@' anywhere in the rest, then host, port and path split at the first
\* ':' and the first '/' anywhere in the rest.
Authority(u, tmp) ==
    LET at == StrChr(u, tmp, AT)
        h == IF at = 0 THEN tmp ELSE at + 1
        colon == StrChr(u, h, COLON)
        slash == StrChr(u, h, SLASH)
        user == IF at = 0 THEN Absent ELSE Part(u, tmp, at - tmp)
    IN CASE colon = 0 /\ slash # 0 ->
              [userinfo |-> user, host |-> Part(u, h, slash - h), port |-> Absent]
                @@ PathQuery(u, slash)
         [] colon = 0 ->
              [userinfo |-> user, host |-> Part(u, h, Rest(u, h)), port |-> Absent]
                @@ NoPath
         [] slash # 0 ->
              [userinfo |-> user, host |-> Part(u, h, colon - h),
               port |-> Part(u, colon + 1, slash - (colon + 1))]
                @@ PathQuery(u, slash)
         [] OTHER ->
              [userinfo |-> user, host |-> Part(u, h, colon - h),
               port |-> Part(u, colon + 1, Rest(u, colon + 1))]
                @@ NoPath

\* url_parse
UrlParse(u) ==
    LET colon == StrStr(u, 1, SCHEME_END)
        tmp == IF colon = 0 THEN 1 ELSE colon + 3
        scheme == IF colon = 0 THEN Absent ELSE Part(u, 1, colon - 1)
    IN [scheme |-> scheme] @@
       IF Char(u, tmp) = SLASH
       THEN [userinfo |-> Absent, host |-> Absent, port |-> Absent] @@ PathQuery(u, tmp)
       ELSE Authority(u, tmp)

-----------------------------------------------------------------------------
(* Section 4.11 of the specification: scheme://userinfo@host:port/path?query, *)
(* any component optional, schemes mqtt:1883, mqtts:8883 over TLS,         *)
(* ws:80, wss:443 over TLS.                                                 *)

Piece(c, before, after) == IF c = Absent THEN <<>> ELSE before \o c.text \o after
Given(t) == [is |-> "text", text |-> t]

\* The URL of a choice of components.
Build(c) ==
    Piece(c.scheme, <<>>, SCHEME_END) \o Piece(c.userinfo, <<>>, <<AT>>)
    \o Piece(c.host, <<>>, <<>>) \o Piece(c.port, <<COLON>>, <<>>)
    \o Piece(c.path, <<>>, <<>>) \o Piece(c.query, <<QMARK>>, <<>>)

SpecSchemes ==
    {[name |-> <<W("mqtt")>>, port |-> 1883, encrypted |-> FALSE],
     [name |-> <<W("mqtt"), W("s")>>, port |-> 8883, encrypted |-> TRUE],
     [name |-> <<W("ws")>>, port |-> 80, encrypted |-> FALSE],
     [name |-> <<W("ws"), W("s")>>, port |-> 443, encrypted |-> TRUE]}

SpecScheme(name) ==
    IF \E s \in SpecSchemes : s.name = name
    THEN LET s == CHOOSE s \in SpecSchemes : s.name = name
         IN [found |-> TRUE, port |-> s.port, encrypted |-> s.encrypted]
    ELSE [found |-> FALSE]

Components ==
    [scheme : Schemes, userinfo : Userinfos, host : Hosts, port : Ports,
     path : Paths, query : Queries]

\* The URLs section 4.11 describes unambiguously and the code was written
\* for: a query comes after a path, a userinfo or a port goes with a host,
\* and something follows the scheme.  Paths and queries hold no ':' or '@'.
WellFormed(c) ==
    /\ c.query # Absent => c.path # Absent
    /\ c.host = Absent => c.userinfo = Absent /\ c.port = Absent /\ c.path # Absent

\* url_parse gives back the components c of a well-formed URL, and only
\* those: each present one as its text, each missing one as NULL.
ParsesBack(c) == UrlParse(Build(c)) = c

WellFormedComponents == {c \in Components : WellFormed(c)}

\* url_parse_scheme, given the scheme s that url_parse found (the pointer
\* into the URL), yields the port and encryption section 4.11 gives that
\* scheme, and refuses a scheme the table lacks.  It does not hold of a
\* text that extends a name of the table (mqttx is taken as mqtt).
SchemeAsSpec(s) == UrlParseScheme(s.text \o SCHEME_END \o <<W("host")>>) = SpecScheme(s.text)
================================================================================
