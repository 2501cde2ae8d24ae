-------------------------------- MODULE HttpMsg --------------------------------
(***************************************************************************)
(* The HTTP message of source/http.c: struct http_msg with its header     *)
(* list, the constructors and editors, http_msg_parse_request and         *)
(* http_msg_parse_response, which copy out what the view parser finds,    *)
(* and http_msg_serialize.  A NULL string is the empty text: the parsers  *)
(* never store an empty word.  The byte counting of http_msg_serialize    *)
(* against buffer_len is left out (texts are atoms, not characters).      *)
(***************************************************************************)
EXTENDS HttpView, SequencesExt

CONSTANT Messages   \* messages an application builds with the calls above

\* Outcomes that are no return value: the call dereferences NULL, or
\* xstrrtrim runs off the front of its buffer.
NULL_DEREF == -100
OUT_OF_BOUNDS == -101

\* strtol over the status words the model uses: a decimal numeral and its
\* value; any other word leaves characters behind.
Numerals == [w \in {"101", "200", "404"} |->
                CASE w = "101" -> 101 [] w = "200" -> 200 [] OTHER -> 404]

\* xstrtol(word, &val, 10)
XStrToL(word) ==
    IF Len(word) = 1 /\ Fold(word[1]) \in DOMAIN Numerals
    THEN [ok |-> TRUE, val |-> Numerals[Fold(word[1])]]
    ELSE [ok |-> FALSE]

\* The %u conversion of a status.
Numeral(n) == <<W(CHOOSE w \in DOMAIN Numerals : Numerals[w] = n)>>

\* xstrrtrim of a non-empty string: blank the non-printable characters
\* from the end down to the second; the first is never looked at.  On an
\* empty string strlen - 1 wraps and the loop runs off the front of the
\* buffer (OUT_OF_BOUNDS, decided by the caller).
RECURSIVE RTrimFrom(_, _)
RTrimFrom(s, i) ==
    IF i = 1 \/ IsGraph(s[i]) THEN SubSeq(s, 1, i) ELSE RTrimFrom(s, i - 1)
XStrRTrim(s) == RTrimFrom(s, Len(s))

-----------------------------------------------------------------------------
\* http_msg_init: everything zero, the header list empty, no body.
MsgInit == [method |-> <<>>, uri |-> <<>>, version |-> <<>>, status |-> 0,
            reason |-> <<>>, headers |-> <<>>, body |-> <<>>, hasBody |-> FALSE]

\* http_msg_new_request
NewRequest(method, uri, version) ==
    [MsgInit EXCEPT !.method = method, !.uri = uri, !.version = version]

\* http_msg_new_response
NewResponse(version, status, reason) ==
    [MsgInit EXCEPT !.version = version, !.status = status, !.reason = reason]

\* http_msg_add_header: LIST_INSERT_HEAD of a new header.
AddHeader(msg, name, value) ==
    [msg EXCEPT !.headers = <<[name |-> name, value |-> value]>> \o @]

\* http_msg_remove_header: every header of that name, in any case.
RemoveHeader(msg, name) ==
    [msg EXCEPT !.headers = SelectSeq(@, LAMBDA h : ~SameFold(h.name, name))]

\* http_msg_append_body: a body buffer is created on first use.
AppendBody(msg, data) ==
    [msg EXCEPT !.body = @ \o data, !.hasBody = TRUE]

-----------------------------------------------------------------------------
\* The header value without xstrltrim: the blanks after the colon kept.
HeaderValueUntrimmed(line, colon) == SubSeq(line, colon + 1, Len(line))

\* The value of a header line before xstrrtrim: xstrltrim(colon + 1).
HeaderValue(line, colon) == SubSeq(line, XStrLTrim(line, colon + 1), Len(line))

\* xstrrtrim of a value.  An empty value makes the loop start one before
\* it, on the colon or a blank the line split already made non-printable,
\* and walk back to the name's last character: the value stays empty.
TrimValue(value) == IF value = <<>> THEN <<>> ELSE XStrRTrim(value)

\* http_msg_parse_headers from position i: each line up to the blank one
\* is split at its first colon into a right-trimmed name and a trimmed
\* value and added (at the head); a line without a colon or end is an
\* error; an empty name sends xstrrtrim off the front of the line's
\* stack buffer.  n bounds the lines.
RECURSIVE ParseHeadersFrom(_, _, _, _)
ParseHeadersFrom(msg, t, i, n) ==
    LET ls == i + XStrSpaceLen(t, i, Blanks)
        le == StrStr(t, ls, CRLF)
        line == SubSeq(t, ls, le - 1)
        colon == StrChr(line, 1, COLON)
        name == SubSeq(line, 1, colon - 1)
        value == HeaderValue(line, colon)
    IN CASE n = 0 \/ le = 0 -> [ret |-> -1, msg |-> msg]
         [] le = ls -> [ret |-> 1, msg |-> msg]
         [] colon = 0 -> [ret |-> -1, msg |-> msg]
         [] name = <<>> -> [ret |-> OUT_OF_BOUNDS, msg |-> msg]
         [] OTHER -> ParseHeadersFrom(AddHeader(msg, XStrRTrim(name), TrimValue(value)),
                                      t, le + 2, n - 1)

ParseHeaders(msg, t, i) == ParseHeadersFrom(msg, t, i, Len(t))

\* The word at position p: xstr_word_len(p, NULL).  Position 0 (no space
\* on the first line) is a NULL the parsers pass on.
WordAt(t, p) == IF p = 0 THEN <<>> ELSE SubSeq(t, p, p + XStrWordLen(t, p, {}) - 1)

\* The end of both parsers: the headers, then the body if any is left.
ParseRest(msg, t, v) ==
    LET h == ParseHeaders(msg, t, v.headers)
    IN IF h.ret # 1 THEN [ret |-> h.ret]
       ELSE [ret |-> 1, msg |-> IF v.body <= Len(t)
                               THEN AppendBody(h.msg, SubSeq(t, v.body, Len(t)))
                               ELSE h.msg]

\* http_msg_parse_request into a fresh message: 0 while incomplete, -1
\* on an empty word or a bad header, 1 with the message.  Each word is
\* measured in turn, a NULL one by dereferencing it.
ParseRequestMsg(t) ==
    LET v == ParseRequest(t)
        w == <<WordAt(t, v.first), WordAt(t, v.second), WordAt(t, v.third)>>
    IN CASE ~v.ok -> [ret |-> 0]
         [] w[1] = <<>> -> [ret |-> -1]
         [] v.second = 0 -> [ret |-> NULL_DEREF]
         [] w[2] = <<>> -> [ret |-> -1]
         [] v.third = 0 -> [ret |-> NULL_DEREF]
         [] w[3] = <<>> -> [ret |-> -1]
         [] OTHER -> ParseRest(NewRequest(w[1], w[2], w[3]), t, v)

\* http_msg_parse_response into a fresh message; the status must convert.
ParseResponseMsg(t) ==
    LET v == ParseResponse(t)
        w == <<WordAt(t, v.first), WordAt(t, v.second), WordAt(t, v.third)>>
    IN CASE ~v.ok -> [ret |-> 0]
         [] w[1] = <<>> -> [ret |-> -1]
         [] v.second = 0 -> [ret |-> NULL_DEREF]
         [] w[2] = <<>> \/ ~XStrToL(w[2]).ok -> [ret |-> -1]
         [] v.third = 0 -> [ret |-> NULL_DEREF]
         [] w[3] = <<>> -> [ret |-> -1]
         [] OTHER -> ParseRest(NewResponse(w[1], XStrToL(w[2]).val, w[3]), t, v)

\* http_msg_serialize: the request or status line, each header of the
\* list in list order, the blank line, the body.  The body gets a NUL
\* appended on every call, which %s does not print.
Serialize(msg) ==
    LET first == IF msg.method # <<>> /\ msg.uri # <<>>
                 THEN msg.method \o <<SP>> \o msg.uri \o <<SP>> \o msg.version
                 ELSE msg.version \o <<SP>> \o Numeral(msg.status) \o <<SP>> \o msg.reason
        line(h) == h.name \o <<COLON, SP>> \o h.value \o CRLF
        hs == [k \in 1..Len(msg.headers) |-> line(msg.headers[k])]
        nul == SelectInSeq(msg.body, LAMBDA a : a = NUL)
        printed == IF nul = 0 THEN msg.body ELSE SubSeq(msg.body, 1, nul - 1)
    IN [text |-> first \o CRLF \o FlattenSeq(hs) \o CRLF \o printed,
        msg |-> IF msg.hasBody THEN [msg EXCEPT !.body = @ \o <<NUL>>] ELSE msg]

-----------------------------------------------------------------------------
\* The values of the headers named n, in list order.
ValuesOf(msg, n) ==
    LET named == SelectSeq(msg.headers, LAMBDA h : SameFold(h.name, n))
    IN [k \in 1..Len(named) |-> named[k].value]

Names(msg) == {msg.headers[k].name : k \in 1..Len(msg.headers)}

\* The first line, the body and, name by name, the header values agree
\* (RFC 7230, 3.2.2: only the order of fields with one name matters).
SameMessage(a, b) ==
    /\ <<a.method, a.uri, a.version, a.status, a.reason, a.body>>
         = <<b.method, b.uri, b.version, b.status, b.reason, b.body>>
    /\ \A n \in Names(a) \cup Names(b) : ValuesOf(a, n) = ValuesOf(b, n)

IsRequest(msg) == msg.method # <<>> /\ msg.uri # <<>>

\* http_msg_parse_request or http_msg_parse_response, as the message is.
ParseMsg(msg, t) == IF IsRequest(msg) THEN ParseRequestMsg(t) ELSE ParseResponseMsg(t)

\* The reason field of a status line as spec.md 4 tokenises the first
\* line, by whitespace into three fields: the reason up to its first blank.
ReasonField(r) == LET sp == SelectInSeq(r, LAMBDA a : a = SP)
                  IN IF sp = 0 THEN r ELSE SubSeq(r, 1, sp - 1)

\* Message m serialized by http_msg_serialize is read back by
\* http_msg_parse_request or http_msg_parse_response as the same message,
\* its reason as the field spec.md's tokenising gives, and a second
\* serialization, after the NUL appended to the body, writes the same text.
RoundTrips(m) ==
    LET s == Serialize(m)
        p == ParseMsg(m, s.text)
    IN /\ p.ret = 1
       /\ SameMessage(p.msg, [m EXCEPT !.reason = ReasonField(@)])
       /\ Serialize(s.msg).text = s.text
====
