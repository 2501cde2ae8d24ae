------------------------------ MODULE WsStream ------------------------------
(***************************************************************************)
(* The WebSocket decorator of source/stream_ws.c: a client and a server    *)
(* endpoint, each a stream_ws over a transport that delivers what the     *)
(* other end wrote, in order (the decorated stream chain; StreamChain      *)
(* checks that it implements ByteStream).                                  *)
(*                                                                         *)
(* What travels is a sequence of units: the HTTP upgrade request, the 101  *)
(* response, and frames as the bytes ws_format_frame produces, parsed on   *)
(* arrival by ws_parse_frame (WsCodec).  A unit is never split: a read     *)
(* returns every unit that has arrived, and MaxChunk bounds how many       *)
(* arrive at once (one TCP segment).  HTTP text is abstracted to the key   *)
(* it carries, and the accept key to an injective function of the key      *)
(* (base64 of SHA-1 is out of scope).                                      *)
(*                                                                         *)
(* One thread owns each endpoint: a library call is one atomic step.       *)
(***************************************************************************)
EXTENDS WsCodec, Timer

CONSTANTS Keys,            \* Sec-WebSocket-Key values the client may use
          Masks,           \* masks rand_data may draw
          Payloads,        \* application payloads
          MaxFrames,       \* endpoint -> bound on the data frames it writes
          MaxChunk,        \* most units one segment delivers
          ReadLens,        \* buffer sizes the application reads with
          ReadApi,         \* endpoint -> "read" (stream_read) | "read_frame"
          FragmentWriters, \* endpoints whose application writes fragments
          Prompt,          \* TRUE: a segment is read before the next arrives
                           \* and the clock waits for the endpoints (no delay)
          LittleEndian,    \* byte order of the build
          WS_KEEP_ALIVE_SERVER_TIMEOUT,
          WS_KEEP_ALIVE_CLIENT_TIMEOUT

Client == "client"
Server == "server"
Endpoint == {Client, Server}
Peer(e) == IF e = Client THEN Server ELSE Client

WS_CLOSE_NORMAL == 1000
WS_CLOSE_PROTOCOL_ERROR == 1002
DataOpcodes == {WS_OPCODE_CONTINUE, WS_OPCODE_TEXT, WS_OPCODE_BINARY}
NoKey == "none"
NoMsg == [opcode |-> WS_OPCODE_CONTINUE, data |-> <<>>]

\* ws_calculate_accept_key, abstracted to an injective function.
AcceptKey(k) == <<k>>

Unit(kind, key, bytes) == [kind |-> kind, key |-> key, bytes |-> bytes]
Request(k)      == Unit("request", k, <<>>)
Response(a)     == Unit("response", a, <<>>)
FrameUnit(data) == Unit("frame", NoKey, data)

VARIABLES ws,       \* endpoint -> its struct stream_ws
          net,      \* endpoint -> units on their way to it
          rx,       \* endpoint -> units arrived, not yet read
          msgs,     \* endpoint -> messages its application completed
          open,     \* endpoint -> the fragmented message it is writing
          frames,   \* endpoint -> data frames its application wrote
          got,      \* endpoint -> payload bytes its application read
          gotMsgs   \* endpoint -> messages read with stream_ws_read_frame

vars == <<ws, net, rx, msgs, open, frames, got, gotMsgs>>

-----------------------------------------------------------------------------
(* The handlers, on one endpoint's state s.  s.out collects the units the  *)
(* call writes through stream_do_write.                                    *)

\* stream_ws_generate_mask: a fresh mask m for a client, none for a server.
GenerateMask(s, m) == IF s.clientRole THEN m ELSE NoMask

\* stream_ws_write_frame
WriteFrame(s, fin, opcode, mask, data) ==
    [s EXCEPT !.out = Append(@, FrameUnit(FormatFrame(
                         (IF fin THEN WS_FIN_FLAG ELSE 0) + opcode, mask, data)))]

\* The bytes of "unsigned short payload[2]" holding code >> 8 and
\* code & 0xFF: sizeof(payload) = 4 bytes in the build's byte order.
CloseBytes(code) ==
    LET hi == (code \div 256) % 256
        lo == code % 256
    IN IF LittleEndian THEN <<hi, 0, lo, 0>> ELSE <<0, hi, 0, lo>>

\* stream_ws_disconnect
Disconnect(s, code, m) ==
    [WriteFrame(s, TRUE, WS_OPCODE_CLOSE, GenerateMask(s, m), CloseBytes(code))
        EXCEPT !.status = "CLOSING"]

\* The payload bytes of the whole frame in data.
RawPayload(data, f) ==
    SubSeq(data, f.payloadOffset + 1, f.payloadOffset + f.payloadLength)

\* Mutant: a server does not unmask what it receives.
ReceivedPayloadNoUnmask(s, data, f) == RawPayload(data, f)

\* The payload handle_received_frame passes on: a server unmasks it, a
\* client keeps it as it came.
ReceivedPayload(s, data, f) ==
    IF f.maskFlag /\ ~s.clientRole THEN Unmasked(data, f) ELSE RawPayload(data, f)

\* Mutant: a continuation also overwrites the message's opcode.
AppendToLastSliceOpcode(cache, payload, f) ==
    IF cache = <<>> THEN cache
    ELSE [cache EXCEPT ![Len(cache)] = [@ EXCEPT !.data = @ \o payload,
                                                 !.fin = f.fin, !.opcode = f.opcode]]

\* CONTINUE: append to the last slice, if any, and take the frame's fin.
AppendToLastSlice(cache, payload, f) ==
    IF cache = <<>> THEN cache
    ELSE [cache EXCEPT ![Len(cache)] = [@ EXCEPT !.data = @ \o payload, !.fin = f.fin]]

\* The switch of stream_ws_handle_received_frame on the opcode of frame f,
\* with s the state after the mask check and payload what it passes on.
HandleOpcode(s, f, payload, m) ==
    CASE f.opcode \in {WS_OPCODE_TEXT, WS_OPCODE_BINARY} ->
           [s EXCEPT !.dataType = f.opcode,
                     !.cache = Append(@, [fin |-> f.fin, opcode |-> f.opcode,
                                          data |-> payload])]
      [] f.opcode = WS_OPCODE_CONTINUE ->
           [s EXCEPT !.cache = AppendToLastSlice(@, payload, f)]
      [] f.opcode = WS_OPCODE_PING ->
           [WriteFrame(s, TRUE, WS_OPCODE_PONG, GenerateMask(s, m), payload)
               EXCEPT !.timer = TimerStart(s.keepAlive)]
      [] f.opcode = WS_OPCODE_PONG -> [s EXCEPT !.responded = TRUE]
      [] OTHER -> s                                      \* CLOSE

\* A client that receives a masked frame disconnects and goes on handling it.
HandleParsedFrame(s, data, f, m) ==
    HandleOpcode(IF f.maskFlag /\ s.clientRole
                 THEN Disconnect(s, WS_CLOSE_PROTOCOL_ERROR, m) ELSE s,
                 f, ReceivedPayload(s, data, f), m)

\* stream_ws_handle_received_frame, data holding one whole frame.
HandleReceivedFrame(s, data, m) == HandleParsedFrame(s, data, ParseFrame(data), m)

\* The frame loop of stream_ws_peek_frame: handle and cut every frame.
RECURSIVE HandleFrames(_, _, _)
HandleFrames(s, units, m) ==
    IF units = <<>> THEN s
    ELSE HandleFrames(HandleReceivedFrame(s, Head(units).bytes, m), Tail(units), m)

\* Mutant: the server arms the client's keep-alive timeout.
HandleHandshakeRequestClientTimeout(s) ==
    LET req == Head(s.buffer) IN
    CASE req.kind # "request" -> [s |-> s, ret |-> -1]
      [] req.key = NoKey -> [s |-> [s EXCEPT !.buffer = <<>>], ret |-> 0]
      [] OTHER ->
           [s |-> [s EXCEPT !.out = Append(@, Response(AcceptKey(req.key))),
                            !.status = "READY", !.buffer = <<>>,
                            !.keepAlive = WS_KEEP_ALIVE_CLIENT_TIMEOUT,
                            !.timer = TimerStart(WS_KEEP_ALIVE_CLIENT_TIMEOUT)],
            ret |-> -1]

\* stream_ws_handle_handshake_request: ret 0 disconnects, -1 is EAGAIN.
HandleHandshakeRequest(s) ==
    LET req == Head(s.buffer) IN
    CASE req.kind # "request" -> [s |-> s, ret |-> -1]
      [] req.key = NoKey -> [s |-> [s EXCEPT !.buffer = <<>>], ret |-> 0]
      [] OTHER ->
           [s |-> [s EXCEPT !.out = Append(@, Response(AcceptKey(req.key))),
                            !.status = "READY", !.buffer = <<>>,
                            !.keepAlive = WS_KEEP_ALIVE_SERVER_TIMEOUT,
                            !.timer = TimerStart(WS_KEEP_ALIVE_SERVER_TIMEOUT)],
            ret |-> -1]

\* stream_ws_handle_handshake_accept: the received accept key is checked
\* with strncmp over its own length, so it need only be a prefix of the
\* expected one.
HandleHandshakeAccept(s) ==
    LET resp == Head(s.buffer) IN
    CASE resp.kind # "response" -> [s |-> s, ret |-> -1]
      [] s.key = NoKey
           \/ Len(resp.key) > Len(AcceptKey(s.key))
           \/ SubSeq(AcceptKey(s.key), 1, Len(resp.key)) # resp.key ->
           [s |-> [s EXCEPT !.buffer = <<>>], ret |-> 0]
      [] OTHER ->
           [s |-> [s EXCEPT !.status = "READY", !.buffer = <<>>, !.key = NoKey,
                            !.keepAlive = WS_KEEP_ALIVE_CLIENT_TIMEOUT,
                            !.timer = TimerStart(WS_KEEP_ALIVE_CLIENT_TIMEOUT)],
            ret |-> -1]

\* The result peek_frame reports from the cache.
CacheResult(s) ==
    IF s.cache # <<>> /\ Head(s.cache).fin THEN Len(Head(s.cache).data) ELSE -1

\* The result of peek_frame after the handshake handler returned h.
HandshakeResult(h) == [s |-> h.s, ret |-> h.ret, took |-> TRUE]

\* The result of peek_frame after the frame loop left state s.
FramesResult(s) == [s |-> s, ret |-> CacheResult(s), took |-> TRUE]

\* stream_ws_peek_frame once the read appended data to the buffer of s.
PeekBuffer(s, m) ==
    IF s.status # "READY"
    THEN HandshakeResult(IF s.clientRole THEN HandleHandshakeAccept(s)
                         ELSE HandleHandshakeRequest(s))
    ELSE FramesResult(HandleFrames([s EXCEPT !.buffer = <<>>], s.buffer, m))

\* stream_ws_peek_frame with data the units that have arrived.  took says
\* whether the read consumed them.  The loop's second read finds nothing.
Peek(s, data, m) ==
    IF CacheResult(s) >= 0 THEN [s |-> s, ret |-> CacheResult(s), took |-> FALSE]
    ELSE IF data = <<>> THEN [s |-> s, ret |-> -1, took |-> FALSE]
    ELSE PeekBuffer([s EXCEPT !.buffer = @ \o data], m)

\* The copy loop of stream_ws_do_read after peek returned p: take up to
\* len bytes from the head slice, complete or not, dropping the slice once
\* it is empty.  A 0 from peek (a failed handshake) is returned as an error.
TakeBytes(p, len) ==
    LET c == p.s.cache
        k == IF c = <<>> THEN 0 ELSE IF len < Len(Head(c).data) THEN len
                                     ELSE Len(Head(c).data)
        rest == IF c = <<>> THEN <<>> ELSE SubSeq(Head(c).data, k + 1, Len(Head(c).data))
    IN IF p.ret = 0 \/ c = <<>> THEN [s |-> p.s, took |-> p.took, got |-> <<>>]
       ELSE [s |-> [p.s EXCEPT !.cache = IF rest = <<>> THEN Tail(c)
                                         ELSE [c EXCEPT ![1].data = rest]],
             took |-> p.took, got |-> SubSeq(Head(c).data, 1, k)]

\* stream_ws_do_read: peek, then copy.
DoRead(s, data, len, m) == TakeBytes(Peek(s, data, m), len)

\* stream_ws_do_write: one FIN frame of the sticky data type.
DoWrite(s, data, m) ==
    WriteFrame(s, TRUE, s.dataType, GenerateMask(s, m), data)

\* stream_ws_do_time on an expired keep-alive timer: a client whose last
\* PING was answered pings again, any other endpoint gives up.
DoTime(s, m) ==
    IF ~TimerExpired(s.timer) THEN s
    ELSE IF s.clientRole /\ s.responded
         THEN [WriteFrame(s, TRUE, WS_OPCODE_PING, GenerateMask(s, m), <<>>)
                  EXCEPT !.responded = FALSE, !.timer = TimerRestart(@)]
         ELSE [s EXCEPT !.status = "CLOSING"]

\* do_time would change the endpoint.
TimeDue(s) ==
    TimerExpired(s.timer) /\ ((s.clientRole /\ s.responded) \/ s.status # "CLOSING")

-----------------------------------------------------------------------------
(* Actions                                                                 *)

\* stream_ws_new over a connected socket, then stream_ws_init.
Init ==
    /\ ws = [e \in Endpoint |->
               [status |-> "INIT", clientRole |-> FALSE, buffer |-> <<>>,
                cache |-> <<>>, dataType |-> WS_OPCODE_BINARY, key |-> NoKey,
                keepAlive |-> 0, responded |-> TRUE, timer |-> TimerStop,
                out |-> <<>>]]
    /\ net = [e \in Endpoint |-> <<>>]
    /\ rx = [e \in Endpoint |-> <<>>]
    /\ msgs = [e \in Endpoint |-> <<>>]
    /\ open = [e \in Endpoint |-> NoMsg]
    /\ frames = [e \in Endpoint |-> 0]
    /\ got = [e \in Endpoint |-> <<>>]
    /\ gotMsgs = [e \in Endpoint |-> <<>>]

\* The owner deletes a stream once it is CLOSING (stream_ws_delete closes
\* the socket); until then it keeps serving it.
Live(e) == ws[e].status # "CLOSING"

\* Endpoint e takes state s after a call: what it wrote goes to its peer,
\* what it read (took) leaves its receive buffer.
Commit(e, s, took) ==
    /\ ws' = [ws EXCEPT ![e] = [s EXCEPT !.out = <<>>]]
    /\ net' = [net EXCEPT ![Peer(e)] = @ \o s.out]
    /\ rx' = IF took THEN [rx EXCEPT ![e] = <<>>] ELSE rx

\* stream_ws_connect(client, uri, key, NULL)
Connect ==
    /\ ws[Client].status = "INIT" /\ ~ws[Client].clientRole
    /\ \E k \in Keys :
         Commit(Client, [ws[Client] EXCEPT !.clientRole = TRUE, !.key = k,
                                           !.out = Append(@, Request(k))], FALSE)
    /\ UNCHANGED <<msgs, open, frames, got, gotMsgs>>

\* Endpoint e after a peek that returned p.
CommitPeek(e, p) ==
    /\ p.took
    /\ Commit(e, p.s, TRUE)
    /\ UNCHANGED <<msgs, open, frames, got, gotMsgs>>

\* stream_ws_peek_frame, called when the socket is readable.
PeekFrame(e) ==
    /\ Live(e)
    /\ \E m \in Masks : CommitPeek(e, Peek(ws[e], rx[e], m))

\* Endpoint e after a stream_read that returned r.
CommitRead(e, r) ==
    /\ r.took \/ r.got # <<>>
    /\ Commit(e, r.s, r.took)
    /\ got' = [got EXCEPT ![e] = @ \o r.got]
    /\ UNCHANGED <<msgs, open, frames, gotMsgs>>

\* stream_read on the WebSocket stream.
Read(e) ==
    /\ Live(e) /\ ReadApi[e] = "read"
    /\ \E len \in ReadLens, m \in Masks : CommitRead(e, DoRead(ws[e], rx[e], len, m))

\* stream_ws_read_frame: the head slice, once complete and if it fits.
ReadFrame(e) ==
    LET c == ws[e].cache IN
    /\ Live(e) /\ ReadApi[e] = "read_frame"
    /\ c # <<>> /\ Head(c).fin
    /\ \E len \in ReadLens : Len(Head(c).data) <= len
    /\ ws' = [ws EXCEPT ![e].cache = Tail(c)]
    /\ got' = [got EXCEPT ![e] = @ \o Head(c).data]
    /\ gotMsgs' = [gotMsgs EXCEPT ![e] = Append(@, [opcode |-> Head(c).opcode,
                                                     data |-> Head(c).data])]
    /\ UNCHANGED <<net, rx, msgs, open, frames>>

\* stream_write on a READY stream, outside a fragmented message.
Write(e) ==
    /\ ws[e].status = "READY" /\ open[e] = NoMsg /\ frames[e] < MaxFrames[e]
    /\ \E p \in Payloads, m \in Masks :
         /\ Commit(e, DoWrite(ws[e], p, m), FALSE)
         /\ msgs' = [msgs EXCEPT ![e] = Append(@, [opcode |-> ws[e].dataType,
                                                   data |-> p])]
    /\ frames' = [frames EXCEPT ![e] = @ + 1]
    /\ UNCHANGED <<open, got, gotMsgs>>

\* stream_ws_write_frame of one fragment of a TEXT message (a client
\* passes a fresh mask, a server none).
WriteFragment(e) ==
    /\ e \in FragmentWriters
    /\ ws[e].status = "READY" /\ frames[e] < MaxFrames[e]
    /\ \E fin \in BOOLEAN, p \in Payloads, m \in Masks :
         LET opcode == IF open[e] = NoMsg THEN WS_OPCODE_TEXT ELSE WS_OPCODE_CONTINUE
             msg == [opcode |-> WS_OPCODE_TEXT, data |-> open[e].data \o p]
         IN /\ Commit(e, WriteFrame(ws[e], fin, opcode, GenerateMask(ws[e], m), p), FALSE)
            /\ msgs' = IF fin THEN [msgs EXCEPT ![e] = Append(@, msg)] ELSE msgs
            /\ open' = [open EXCEPT ![e] = IF fin THEN NoMsg ELSE msg]
    /\ frames' = [frames EXCEPT ![e] = @ + 1]
    /\ UNCHANGED <<got, gotMsgs>>

\* stream_time on the stream.
Time(e) ==
    /\ Live(e) /\ TimeDue(ws[e])
    /\ \E m \in Masks : Commit(e, DoTime(ws[e], m), FALSE)
    /\ UNCHANGED <<msgs, open, frames, got, gotMsgs>>

\* stream_ws_disconnect(e, WS_CLOSE_NORMAL) by the application.
Close(e) ==
    /\ ws[e].status = "READY" /\ open[e] = NoMsg
    /\ \E m \in Masks : Commit(e, Disconnect(ws[e], WS_CLOSE_NORMAL, m), FALSE)
    /\ UNCHANGED <<msgs, open, frames, got, gotMsgs>>

\* A segment of up to MaxChunk units arrives at e.
Arrive(e) ==
    /\ Prompt => rx[e] = <<>>
    /\ \E k \in 1..MaxChunk :
         /\ k <= Len(net[e])
         /\ rx' = [rx EXCEPT ![e] = @ \o SubSeq(net[e], 1, k)]
         /\ net' = [net EXCEPT ![e] = SubSeq(@, k + 1, Len(@))]
    /\ UNCHANGED <<ws, msgs, open, frames, got, gotMsgs>>

\* Nothing is due at e: every unit for it was read, its time handler idle.
Settled(e) == ~Live(e) \/ (net[e] = <<>> /\ rx[e] = <<>> /\ ~TimeDue(ws[e]))

\* One second of the clock passes.
Tick ==
    /\ Prompt => \A e \in Endpoint : Settled(e)
    /\ \E e \in Endpoint : TimerRunning(ws[e].timer) /\ ws[e].timer.remaining > 0
    /\ ws' = [e \in Endpoint |-> [ws[e] EXCEPT !.timer = TimerElapse(@)]]
    /\ UNCHANGED <<net, rx, msgs, open, frames, got, gotMsgs>>

Next ==
    \/ Connect \/ Tick
    \/ \E e \in Endpoint :
          \/ PeekFrame(e) \/ Read(e) \/ ReadFrame(e) \/ Write(e)
          \/ WriteFragment(e) \/ Time(e) \/ Close(e) \/ Arrive(e)

Spec == Init /\ [][Next]_vars

-----------------------------------------------------------------------------
(* Properties                                                              *)

\* The payload bytes of the data frames among units, unmasked.
DataBytes(units) ==
    LET Bytes(u) == LET f == ParseFrame(u.bytes) IN
                    IF u.kind = "frame" /\ f.opcode \in DataOpcodes
                    THEN Unmasked(u.bytes, f) ELSE <<>>
    IN FoldLeft(LAMBDA acc, u : acc \o Bytes(u), <<>>, units)

\* The bytes held in reassembly slices.
CachedBytes(cache) == FoldLeft(LAMBDA acc, sl : acc \o sl.data, <<>>, cache)

\* The bytes an application has written in data frames.
WrittenBytes(e) ==
    FoldLeft(LAMBDA acc, msg : acc \o msg.data, <<>>, msgs[e]) \o open[e].data

\* Write and read preservation across the WebSocket layer (spec.md 4.7,
\* invariants 2 and 8): what an application has read, followed by what its
\* stream holds in reassembly slices and receive buffer and what is still
\* on its way, is exactly the payload bytes the peer's application wrote.
\* Breaks if peek_frame drops, duplicates or reorders a frame, if a
\* server fails to unmask a client frame, or if a server masks its own.
DataPreserved ==
    \A e \in Endpoint :
        got[e] \o CachedBytes(ws[e].cache) \o DataBytes(ws[e].buffer)
               \o DataBytes(rx[e]) \o DataBytes(net[e])
        = WrittenBytes(Peer(e))

\* stream_ws_read_frame returns whole messages (spec.md 4.7, scenario S5):
\* the messages an application has read are, in order, the messages its
\* peer completed, each with the opcode of its first fragment.
MessagesIntact == \A e \in Endpoint : IsPrefix(gotMsgs[e], msgs[Peer(e)])

\* Keep-alive between two connected endpoints (spec.md 4.7, keep-alive):
\* with no network delay, the server's 100 s timer never runs out while
\* the client pings every 90 s, and whenever the client's timer runs out
\* its last PING has been answered, so neither end closes the connection.
KeepAliveHealthy ==
    ws[Client].status = "READY" /\ ws[Server].status = "READY" =>
        /\ ~TimerExpired(ws[Server].timer)
        /\ TimerExpired(ws[Client].timer) => ws[Client].responded

\* Payload lengths where the header changes form (7-bit, 16-bit, 64-bit).
LengthBoundaries == {0, 125, 126, 65535, 65536}

\* ws_parse_frame reads back from every header ws_format_frame writes, for
\* every boundary length and mask, the frame's whole length, and it parses
\* every frame on the wire as exactly one frame (spec.md invariant 3).
FrameLengthsAgree ==
    /\ \A len \in LengthBoundaries, mask \in Masks \cup {NoMask} :
         LET h == FormatHeader(WS_FIN_FLAG + WS_OPCODE_BINARY, mask, len)
             f == ParseFrame(h)
         IN f.ok = (len = 0) /\ f.frameLength = Len(h) + len
    /\ \A e \in Endpoint : \A i \in DOMAIN net[e] :
         net[e][i].kind = "frame" =>
             LET f == ParseFrame(net[e][i].bytes)
             IN f.ok /\ f.frameLength = Len(net[e][i].bytes)
=============================================================================
