------------------------------- MODULE HttpView -------------------------------
(***************************************************************************)
(* The HTTP text helpers the WebSocket handshake uses: the view parser    *)
(* and header lookup of source/http.c, and the two handshake checks of    *)
(* source/stream_ws.c built on them, over the texts of module Text.       *)
(***************************************************************************)
EXTENDS Text

CONSTANTS Uris,          \* request URIs the client application passes
          ExtraHeaders,  \* header lines it adds to the request
          Browsers,      \* requests as other clients spell them
          HandshakeKeys  \* Sec-WebSocket-Key values

CRLF == <<CR, LF>>                        \* HTTP_LINE_END
CRLFCRLF == <<CR, LF, CR, LF>>            \* HTTP_HEADERS_END
Blanks == {SP, HT}                        \* HTTP_WHITESPACE_CHARS

\* A plain strncmp in place of strncasecmp.
StartsWithCaseSensitive(t, i, name) ==
    /\ i + Len(name) - 1 <= Len(t)
    /\ \A k \in 1..Len(name) : t[i + k - 1] = name[k]

\* strncasecmp(t + i, name, Len(name)) = 0
StartsWithCase(t, i, name) ==
    /\ i + Len(name) - 1 <= Len(t)
    /\ \A k \in 1..Len(name) : Fold(t[i + k - 1]) = Fold(name[k])

-----------------------------------------------------------------------------
(* http.c                                                                  *)

\* http_view_parse: nothing until the blank line has arrived; then the
\* three words of the first line (each strchr scans on past its line), the
\* headers after the first line end and the body after the blank line.
ViewParse(t) ==
    LET hend == StrStr(t, 1, CRLFCRLF)
        first == XStrLTrim(t, 1)
        sp1 == StrChr(t, first, SP)
        second == IF sp1 = 0 THEN 0 ELSE XStrLTrim(t, sp1)
        sp2 == IF second = 0 THEN 0 ELSE StrChr(t, second, SP)
        third == IF sp2 = 0 THEN 0 ELSE XStrLTrim(t, sp2)
    IN IF hend = 0 THEN [ok |-> FALSE]
       ELSE [ok |-> TRUE, first |-> first, second |-> second, third |-> third,
             headers |-> StrStr(t, 1, CRLF) + 2, body |-> hend + 4]

\* http_msg_view_parse_request: method, uri, version.
ParseRequest(t) == ViewParse(t)

\* http_msg_view_parse_response: version, status, reason.
ParseResponse(t) == ViewParse(t)

\* http_header_find from position i: skip blanks; stop at a missing or
\* empty line; a line that starts with the name (any case) must go on
\* with blanks and a colon, or the search ends; the value starts after the
\* colon and blanks.  n bounds the lines looked at.
RECURSIVE FindFrom(_, _, _, _)
FindFrom(t, i, name, n) ==
    LET ls == i + XStrSpaceLen(t, i, Blanks)
        le == StrStr(t, ls, CRLF)
        colon == ls + Len(name) + XStrSpaceLen(t, ls + Len(name), Blanks)
    IN CASE n = 0 \/ le = 0 \/ le = ls -> [found |-> FALSE]
         [] StartsWithCase(t, ls, name) ->
              IF Char(t, colon) # COLON THEN [found |-> FALSE]
              ELSE [found |-> TRUE, line |-> ls,
                    value |-> colon + 1 + XStrSpaceLen(t, colon + 1, Blanks)]
         [] OTHER -> FindFrom(t, le + 2, name, n - 1)

HeaderFind(t, headers, name) == FindFrom(t, headers, name, Len(t))

-----------------------------------------------------------------------------
(* The handshake checks of stream_ws.c                                     *)

KEY == <<W("sec-websocket-key")>>
ACCEPT == <<W("sec-websocket-accept")>>

\* The value word cut at blanks only, as xstr_word_len(key,
\* HTTP_WHITESPACE_CHARS) would.
ValueWordBlanks(t, v) == SubSeq(t, v, v + XStrWordLen(t, v, Blanks) - 1)

\* The word at a header value: xstr_word_len(key, NULL), then key[len] = 0.
ValueWord(t, v) == SubSeq(t, v, v + XStrWordLen(t, v, {}) - 1)

\* What a lookup yields: nothing yet, no header, or a value.
Wait == [is |-> "wait"]
None == [is |-> "none"]
Found(value) == [is |-> "found", value |-> value]

\* stream_ws_handle_handshake_request: once the request is complete, the
\* key the server answers, or None when the header is missing (the
\* server disconnects).
ServerKey(t) ==
    LET v == ParseRequest(t)
        h == HeaderFind(t, v.headers, KEY)
    IN IF ~v.ok THEN Wait ELSE IF ~h.found THEN None ELSE Found(ValueWord(t, h.value))

\* ws_calculate_accept_key, abstracted to one word per key.
AcceptWord(key) == <<W("accept-" \o key[1][1])>>

\* strncmp(accept_key, key, key_len) = 0 for the received word got.
PrefixOf(got, expected) ==
    Len(got) <= Len(expected) /\ SubSeq(expected, 1, Len(got)) = got

\* The received accept word checked against the key the client sent, with
\* the accept key computation left out.
ClientAcceptsRawKey(t, key) ==
    LET v == ParseResponse(t)
        h == HeaderFind(t, v.headers, ACCEPT)
    IN v.ok /\ h.found /\ PrefixOf(ValueWord(t, h.value), key)

\* stream_ws_handle_handshake_accept: the response is accepted when its
\* Sec-WebSocket-Accept word, key_len long, matches the first key_len
\* characters of the accept key computed from the client's key.
ClientAccepts(t, key) ==
    LET v == ParseResponse(t)
        h == HeaderFind(t, v.headers, ACCEPT)
    IN v.ok /\ h.found /\ PrefixOf(ValueWord(t, h.value), AcceptWord(key))

\* A header line: name, colon, space, value, line end.
HeaderLine(name, value) == <<W(name), COLON, SP>> \o value \o CRLF

\* The request stream_ws_connect writes.
RequestText(uri, header, key) ==
    <<W("get"), SP>> \o uri \o <<SP, W("http/1.1")>> \o CRLF
    \o header
    \o HeaderLine("upgrade", <<W("websocket")>>)
    \o HeaderLine("connection", <<W("upgrade")>>)
    \o HeaderLine("sec-websocket-version", <<W("13")>>)
    \o HeaderLine("sec-websocket-key", key)
    \o CRLF

\* The response stream_ws_handle_handshake_request writes.
ResponseText(accept) ==
    <<W("http/1.1"), SP, W("101"), SP, W("switching"), SP, W("protocols")>>
    \o CRLF
    \o HeaderLine("upgrade", <<W("websocket")>>)
    \o HeaderLine("connection", <<W("upgrade")>>)
    \o HeaderLine("sec-websocket-accept", accept)
    \o CRLF


-----------------------------------------------------------------------------
(* What RFC 7230, section 3.2, makes of a header block: the header lines  *)
(* are the lines between the request line and the blank line; a line's   *)
(* field name is what precedes its first colon, compared without regard   *)
(* to case; its value is what follows, without the blanks around it.      *)

CRLFAt(t) == {i \in 1..Len(t) - 1 : t[i] = CR /\ t[i + 1] = LF}
LineAt(t, i) == SubSeq(t, i, StrStr(t, i, CRLF) - 1)
StripBlanks(s) ==
    LET Keep == {i \in 1..Len(s) : s[i] \notin Blanks}
        lo == IF Keep = {} THEN 1 ELSE CHOOSE i \in Keep : \A j \in Keep : i <= j
        hi == IF Keep = {} THEN 0 ELSE CHOOSE i \in Keep : \A j \in Keep : i >= j
    IN SubSeq(s, lo, hi)
ColonOf(line) == IF \E i \in 1..Len(line) : line[i] = COLON
                 THEN CHOOSE i \in 1..Len(line) : line[i] = COLON /\
                          \A j \in 1..i - 1 : line[j] # COLON
                 ELSE 0
SameFold(a, b) == Len(a) = Len(b) /\ \A k \in 1..Len(a) : Fold(a[k]) = Fold(b[k])
FieldNamed(t, i, name) ==
    LET line == LineAt(t, i) IN
    ColonOf(line) > 0 /\ SameFold(StripBlanks(SubSeq(line, 1, ColonOf(line) - 1)), name)
RefHeader(t, name) ==
    LET hend == StrStr(t, 1, CRLFCRLF)
        S == {e + 2 : e \in {e \in CRLFAt(t) : e < hend}}
        M == {i \in S : FieldNamed(t, i, name)}
        i == CHOOSE i \in M : \A j \in M : i <= j
    IN IF M = {} THEN None
       ELSE Found(StripBlanks(SubSeq(LineAt(t, i), ColonOf(LineAt(t, i)) + 1, Len(LineAt(t, i)))))

Requests == {RequestText(u, h, k) : u \in Uris, h \in ExtraHeaders, k \in HandshakeKeys}
            \cup Browsers

\* The server's reading of request t: the key of its Sec-WebSocket-Key
\* header as RefHeader finds it, and Wait on every proper prefix.
KeyFoundIn(t) ==
    /\ ServerKey(t) = RefHeader(t, KEY)
    /\ \A n \in 0..Len(t) - 1 : ServerKey(SubSeq(t, 1, n)) = Wait

\* The client holding key k1 accepts the complete response to key k2
\* exactly when k1 = k2, and no proper prefix of it.
AcceptVerified(k1, k2) ==
    LET t == ResponseText(AcceptWord(k2)) IN
    /\ ClientAccepts(t, k1) <=> k1 = k2
    /\ \A n \in 0..Len(t) - 1 : ~ClientAccepts(SubSeq(t, 1, n), k1)
=============================================================================
