----------------------------- MODULE MCWsStream -----------------------------
(* Model-checking instance of WsStream.  The cfg keeps the order of the   *)
(* code's keep-alive timeouts, server 100 s > client 90 s, as 2 > 1.      *)
EXTENDS WsStream, HttpMsg

\* The mask rand_data draws.
MasksMC == {<<1, 2, 3, 4>>}

\* Payloads of one and two bytes.
PayloadsMC == {<<72>>, <<104, 105>>}

\* The client reads with stream_read, the server with read_frame.
ReadApiMC == [e \in {"client", "server"} |->
                IF e = "client" THEN "read" ELSE "read_frame"]
\* The client writes a fragmented message or two frames, the server one.
MaxFramesMC == [e \in {"client", "server"} |-> IF e = "client" THEN 2 ELSE 1]

-----------------------------------------------------------------------------
(* The handshake texts.  The application connects to "/" or to a path    *)
(* with a query, with no extra header, an Origin or a subprotocol header; *)
(* two keys tell a right accept key from a wrong one.  Other clients      *)
(* spell names in other cases, put tabs and spaces around values, or      *)
(* leave the key out.                                                     *)
UrisMC == {<<SLASH>>, <<SLASH, W("chat"), QMARK, W("v=1")>>}
ExtraHeadersMC ==
    {<<>>,
     HeaderLine("origin", <<W("http"), COLON, SLASH, SLASH, W("example")>>),
     HeaderLine("sec-websocket-protocol", <<W("chat")>>)}
HandshakeKeysMC == {<<W("k1")>>, <<W("k2")>>}
BrowsersMC ==
    {<<Atom("get", 2), SP, SLASH, SP, W("http/1.1")>> \o CRLF
       \o <<Atom("host", 2), COLON, SP, W("h")>> \o CRLF
       \o <<Atom("sec-websocket-key", 2), COLON, HT, W("k1"), SP>> \o CRLF
       \o <<Atom("upgrade", 3), COLON, SP, W("websocket")>> \o CRLF \o CRLF,
     <<W("get"), SP, SLASH, SP, W("http/1.1")>> \o CRLF
       \o <<Atom("sec-websocket-version", 3), COLON, W("13")>> \o CRLF
       \o <<Atom("sec-websocket-key", 3), SP, COLON, SP, SP, W("k2")>> \o CRLF
       \o CRLF,
     <<W("get"), SP, SLASH, SP, W("http/1.1")>> \o CRLF
       \o <<W("host"), COLON, SP, W("h")>> \o CRLF \o CRLF}

\* Messages built with the http_msg calls: a request and three responses,
\* spec.md's "101 Switching Protocols" among them, reasons of one word or
\* of two, with no header, one, or two of distinct names (one of them then
\* removed by another spelling of its name), values of one word or of two,
\* and with or without a body.  Two headers of one name come back in
\* reverse order (http.c:280), which TLC shows once HostHeader is added
\* twice; that needs a run of its own.
HostHeader == [name |-> <<W("host")>>, value |-> <<W("h")>>]
ProtoHeader == [name |-> <<W("sec-websocket-protocol")>>,
                value |-> <<W("chat,"), SP, W("superchat")>>]
FirstsMC == {NewRequest(<<W("get")>>, <<SLASH, W("chat")>>, <<W("http/1.1")>>),
             NewResponse(<<W("http/1.1")>>, 200, <<W("ok")>>),
             NewResponse(<<W("http/1.1")>>, 101, <<W("switching"), SP, W("protocols")>>),
             NewResponse(<<W("http/1.1")>>, 404, <<W("not"), SP, W("found")>>)}
WithHeaders(m) ==
    {m, AddHeader(m, HostHeader.name, HostHeader.value),
     AddHeader(AddHeader(m, HostHeader.name, HostHeader.value),
               ProtoHeader.name, ProtoHeader.value),
     RemoveHeader(AddHeader(AddHeader(m, HostHeader.name, HostHeader.value),
                            ProtoHeader.name, ProtoHeader.value),
                  <<Atom("host", 2)>>)}
MessagesMC == UNION {{h, AppendBody(h, <<W("hi"), SP, W("there")>>)} :
                        h \in UNION {WithHeaders(m) : m \in FirstsMC}}

-----------------------------------------------------------------------------
(* The handshake and message texts are checked on the operators of        *)
(* HttpView and HttpMsg.  Each input is held by probe in an initial state *)
(* of its own that takes no step; the streams run with probe = NoProbe.   *)

VARIABLE probe

NoProbe == [kind |-> "none"]
Probes == {NoProbe}
          \cup {[kind |-> "request", text |-> t] : t \in Requests}
          \cup {[kind |-> "accept", keys |-> <<k1, k2>>] : k1, k2 \in HandshakeKeys}
          \cup {[kind |-> "message", msg |-> m] : m \in Messages}

MCInit == Init /\ probe \in Probes
MCNext == probe = NoProbe /\ Next /\ UNCHANGED probe
MCSpec == MCInit /\ [][MCNext]_<<vars, probe>>

\* The server answers the key of the request's Sec-WebSocket-Key header,
\* found as RFC 7230 finds it (any case, blanks around the value), for the
\* requests stream_ws_connect writes and those of other clients; and
\* stream_ws_handle_handshake_request waits while any part of the request
\* is still to come, since the peek hands it whatever has arrived.
ServerFindsKey == probe.kind = "request" => KeyFoundIn(probe.text)

\* stream_ws_handle_handshake_accept takes the server's response to its
\* own key, and only that, and not before the response is complete.
ClientVerifiesAccept == probe.kind = "accept" => AcceptVerified(probe.keys[1], probe.keys[2])

\* What http_msg_serialize writes, http_msg_parse_request or
\* http_msg_parse_response reads back as the same message (its reason as
\* the one field spec.md's whitespace tokenising makes of it, its headers
\* of distinct names); and serializing the message again, after the call
\* appended a NUL to its body, writes the same text.
MsgRoundTrip == probe.kind = "message" => RoundTrips(probe.msg)

=============================================================================
