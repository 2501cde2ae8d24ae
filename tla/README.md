# TLA+ models of c-mx

TLA+ modules for the stream stack of c-mx (`src/source`, `src/include/mx`),
the TLC configurations that check them, and what the checks show.
`PROJECT.json` lists every component, run, mutant, finding and hazard, and
maps each modelled definition to the source lines it translates.

## The system

c-mx is a single-threaded, poll-driven networking library. A connection is a
chain of *streams*: a socket stream at the bottom, optionally decorated by a
TLS stream, and at the top a WebSocket or MQTT stream. The owner (the
application's loop or the `idler` poller) calls `peek`/`read_frame`,
`write`/`flush` and, once per scheduling tick, `time` on the top stream. Each
decorator passes the call down to the stream it decorates.

| Component | Source | State it keeps | Operations that change state |
|---|---|---|---|
| Stream base | `stream.c`, `private_stream.h` | status (INIT/READY/CLOSING), per-layer outgoing slice queue, decorated pointer | `stream_do_write` (queue on EAGAIN or partial write), `stream_do_flush`, `stream_handle_outgoing_data`, `stream_do_time` |
| MQTT decorator | `stream_mqtt.c`, `stream_mqtt.h` | `client_role`, queues `incoming`/`outgoing`/`inbound`, `keep_alive`, `keep_alive_responded`, keep-alive timer, `resend_attempts`, resend timer, receive buffer | connect, connack, publish, pubrel, subscribe, suback, unsubscribe, unsuback, puback/pubrec/pubcomp, ping, disconnect; `peek_frame` → `handle_received_frame`; `read_frame`; `do_time`; raw read/write (closes) |
| MQTT codec | `mqtt.c` | none | frame parse/format, remaining-length encode/decode, put/get primitives, parse/format/eval of every packet body, `mqtt_request_type` |
| WebSocket decorator | `stream_ws.c` | role, handshake state, fragment slices, keep-alive timer and flag | handshake request/accept, frame reassembly, masking policy, PING/PONG/CLOSE, `do_time` |
| WebSocket codec | `websocket.c` | none | header encode/parse, masking |
| TLS decorator | `stream_ssl.c`, `ssl.c` | OpenSSL session, want-read/want-write | handshake, read/write retries |
| Timer and clock | `timer.h`, `timer.c` | `(start, interval, flags)`; global `clock_s`, `clock_ms`, `clock_chrono` | `timer_start/stop/restart`, `clock_update` |
| Idler (poller) | `idler.c` | list of streams | add/remove, poll round (write interest from `has_outgoing_data`), reaping of CLOSING streams |
| Repeater | `repeater.c` | counter, limit, timer | attempt, wait, postpone, back-off |
| Buffer | `buffer.c`, `buffer.h` | allocation, data pointer, length, size | init, rewind, resize, append, cut, take, reset |
| Observer | `observer.c`, `stream_mqtt.c` | observer records, observer list, the MQTT stream's observer | create, add, remove, find, clean; set/remove the stream's observer |
| HTTP | `http.c`, `http.h` | `struct http_msg` (first line, header list, body) | view parse, header find, message parse, add/remove header, append body, serialize |
| URL | `url.c` | none | scheme lookup, `url_parse` |
| MQTT containers | `mqtt.c` | `struct mqtt_msg`, `struct mqtt_conf` and their heap blocks | init, clean, create, copy, move |
| String helpers | `string.c` | tokenizer `(prev_chunk, chunk)` | copy, join, trim, starts/ends, tokenize |
| JSON | `json.c` | none (json-c values) | get, copy, compare |
| Socket, net, log, memory, rand | | | OS wrappers, logging, allocation, random bytes (see Not modelled) |

**Interactions.** Two MQTT (or WS) streams in different processes talk
through their decorated byte streams; TCP makes that path reliable and
ordered. Inside one process the MQTT decorator writes through
`stream_do_write` into the layer below; the poller learns from
`has_outgoing_data` when to ask for write readiness; the `time` tick drives
keep-alive and retransmission in the MQTT and WS decorators.

**Hard behaviours.** Retransmission of unacknowledged MQTT frames from a
single resend timer and a single attempt counter shared by the whole
`outgoing` queue; QoS 2 release through the `inbound` queue; keep-alive
timers on both ends started at different moments (server: CONNECT + 15 s
slack; client: CONNACK); duplicated and late acknowledgements caused by
resends; several frames handled per read chunk; back-pressure queues in every
stream layer; the WS handshake sharing a read chunk with the first frames.

**Properties per component** (checked ones in bold, the rest planned):
MQTT – **QoS 2 surfaced at most once**, **acknowledged requests were
delivered**, **retransmission cap**, **no early abandonment**, **QoS 0 at
most once**, **ACCEPTED CONNACK makes the client READY**, **no keep-alive
false alarm**, **every QoS 1/2 publish eventually handed to the server**, QoS 2
surfaced in PUBLISH order. Stream base – **bytes leave each layer in write order, with
none lost or duplicated**,
**refines ByteStream**. MQTT codec – **minimal remaining length, decoded
back**, **frames survive chunking**, **no phantom frame after a malformed
header**, **every packet body with non-empty strings parses back to its sender's arguments**.
Buffer – **the data is always the last bytes appended**. WS – **no payload byte lost or duplicated**, **messages
reassembled intact**, **no keep-alive false alarm**, **header lengths parse
back**, **the server finds the handshake key as RFC 7230 does**, **the client
accepts only the answer to its own key**. HTTP – **a serialized message
parses back to itself**. URL – **URLs of well-formed components parse back
to them**, **each scheme of the table is recognised whatever the table order, other
schemes are refused (save ones extending a name)**. MQTT containers – **no double
free, NULL dereference or leak, copies and moves carry the values**. Idler –
**an iteration reports exactly the streams the wait found ready**, **every
stream with queued data is eventually served for writing**.

## Modules

### `Timer.tla` — `timer.h`
The MQTT and WS decorators use their timers with `TIMER_SEC` only. The code
keeps `(start, interval)` and compares `now - start` with `interval`. The
module keeps `(interval, remaining)` instead, and one `TimerElapse` step per
second of `clock_s`. `TimerExpired` is the code's predicate on every state,
and the state space stays finite without a bound on the clock.
`interval = 0` means stopped, as in the code.

### `MqttStream.tla` — `stream_mqtt.c`
There are two endpoints, `Client` and `Server`. Each has one record
`mqtt[e]` holding the fields of `struct stream_mqtt` plus the stream status.
The field `out` holds the frames the endpoint wrote with `stream_do_write`
that the peer has not read yet. This is the decorated socket, TCP and the
peer's socket seen as one FIFO. Frames are records `[type, qos, id, msg,
arg]`; payloads and topics are model values.

Each code function is an operator on one endpoint record:
`Connect`, `Connack`, `Publish`, `SendRequest`/`Subscribe`/`Unsubscribe`,
`Pubrel`, `Disconnect`, `RemoveFrame`, and one operator per case of
`handle_received_frame` (`HandleConnect`, `HandleConnack`, `HandlePublish`,
`HandleAck`, `HandlePubrel`, `HandlePingreq`). `DoTime` is the three steps of
`stream_mqtt_do_time` in order (`KeepAliveTick`, `ResendTick`,
`SendNextTick`).

The actions:
- `ClientConnect`, `ClientRequest` (publish/subscribe/unsubscribe, each
  request of `Requests` once) and `ClientDisconnect` are the client
  application.
- `ServerAnswer` is the server application answering what it read: CONNECT
  with `connack` and either return code, SUBSCRIBE with `suback`,
  UNSUBSCRIBE with `unsuback`.
- `Receive(e)` is one read of the decorated stream inside `peek_frame`. It
  happens only while `incoming` is empty, as the code's loop checks. It takes
  1..`MaxChunk` whole frames and folds `HandleReceivedFrame` over them.
- `ReadFrame(e)` is `read_frame`.
- `Time(e)` is `stream_mqtt_time_impl`.
- `RawAccess(e)` is `stream_read`/`stream_write` on an MQTT stream, which
  set CLOSING.
- `Tick` is one second of the clock.

A CLOSING endpoint takes no further steps, because its owner destroys it.

`FairSpec` adds weak fairness on `Receive`, `ReadFrame`, `Time`,
`ServerAnswer` and `Tick` (see Fairness).

There are three history variables:
- `delivered[e]`: the frames the application read.
- `requested`: the requests issued.
- `toAnswer`: what the server application still has to answer.

One ghost field per queued item, `sent`, counts how often that item's frame
was written. `dropped` collects the items that `do_time` abandoned.

`MCMqttStream.tla` supplies the request scenarios (`ReqsQoS`, `ReqsQoS0`, and
`ReqsPing`, which adds SUBSCRIBE and UNSUBSCRIBE to a QoS 2 publish) and the wire bound `MaxWire` (a state constraint).

### `StreamChain.tla` and `ByteStream.tla` — `stream.c`, `stream_ssl.c`
The write side of a decorator chain: a base stream `top` over a TLS stream
`tls` over the socket stream `sock` (or `top` directly over `sock` when
`UseTls` is FALSE). The state `st` holds:
- `q[l]`: each layer's outgoing queue of slices;
- `ready`: whether `SSL_is_init_finished`, i.e. TLS status READY;
- `hs`: whether the server's handshake flight has arrived;
- `kbuf`: the kernel send buffer of `Cap` bytes;
- `recv`: what the peer has read;
- `broken`: the connection was reset;
- `errno`.

The library calls are operators that return `[s, ret]`, translated line by
line: `DoWrite` (`stream_do_write`), `RealWrite`, `StreamWrite` (virtual
dispatch), `SslDoWrite`, `Handshake`, `SslWrite` (`bio_stream_ssl_write`
with OpenSSL's SYSCALL mapping), `BioFlush` (the `BIO_CTRL_FLUSH` that
OpenSSL issues after the client's last flight: `stream_flush` busy-waits
until the socket queue is in the kernel buffer, the peer reading meanwhile), `DrainQueue` and `HandleOutgoing`
(`stream_handle_outgoing_data`, recursive like the code), and `HasOutgoing`.
The actions are:
- `AppWrite`: the application's write into `top`.
- `AppFlush` then `FlushStep`: `stream_do_flush`, one loop iteration per
  step, so that the peer's steps can fall between iterations.
- `OwnerDrain`: the poller drains on write interest from `idler_prepare`.
- `TlsRead`: a read that completes the handshake.
- `PeerRead`, `PeerHandshake`, `PeerReset`: the peer.

The peer is another process: the cunit tests' loopback pair, where one
thread drives both ends, is not a configuration of the model. Bytes are tokens; the handshake flights are tokens that `AppBytes` filters out.

`ByteStream` is the abstract promise of spec.md invariant 2: accepted writes
form a sequence, the peer receives a growing prefix of it, and delivery is
weakly fair. `StreamChain` maps its `sent` to `accepted` (the writes that
returned their whole length) and its `received` to the application bytes of
`recv`; the run `stream_chain` checks `Abstract!Spec` as a
property.

### `Buffer.tla` — `buffer.c`, `buffer.h`
A `struct buffer` is a record: the allocation `mem` (a function from the
offsets `0..size-1` to bytes), the offset `start` of the data pointer in it,
`length` and `size`. Bytes that `xmalloc`/`xrealloc` allocated and nothing
wrote are `Uninit`, and so is a read past the allocation. `BufferInit`,
`BufferRewind` (the `memmove`), `BufferResize` (rewind, then `BufferGrow`,
the `xrealloc` branch), `BufferAppend` (resize, then the `memcpy` of
`CopyIn`), `BufferCut`, `BufferReset` and `BufferIsEmpty` are operators on
the record, and `BufferData` is the `length` bytes at the data pointer.
`BufferTake` copies `MIN(length, len)` bytes out and cuts them,
`BufferCopy` resizes the target for the source's length and copies the
source's data to the target's data pointer, and `BufferClean` frees the
allocation. `TakeScripts` runs every script of appends and takes.

### `MqttPacket.tla` — the packet bodies of `mqtt.c`
Pure operators, no state. `PutByte`, `PutShort` (big-endian), `PutData` and
`PutString` return the bytes `mqtt_put_*` writes; `unsigned short`
parameters truncate to 16 bits (`U16`). `ByteAt`, `GetShort` and `GetData`
read at a 0-based offset, and `GetFields` chains reads the way a parser
advances `offset`; none checks the body's length, as in the code, and a read
past the body gives `Uninit`. Each packet type has its `Format*`, `Eval*`
and `Parse*` operator. A NULL-able pointer argument is a set: `NULL` is
`{}` and a string `s` is `{s}`; a field a parser leaves unassigned is `{}`.

### `MqttCodec.tla` — `mqtt.c` and the receive loop of `stream_mqtt_peek_frame`
Bytes are integers 0..255.
- `EncodeLength` and `DecodeLength` are `mqtt_encode_length` and
  `mqtt_decode_length`. They are RECURSIVE operators that follow the code's
  loops.
- `FormatFrame`, `FormatFixedHeader` and `ParseFrame` are
  `mqtt_format_frame`, `mqtt_format_fixed_header` and `mqtt_parse_frame`.
- `PacketBytes` is what a `stream_mqtt_*` sender writes: the fixed header
  with the sender's flags and either the `mqtt_eval_*` size (connect,
  publish, subscribe, unsubscribe) or the formatted length
  (`stream_mqtt_write_frame`), then the body. `Decode` is the parser
  `handle_received_frame` picks by the frame's type.
- The receive buffer `buffer` is a `Buffer` record initialised with
  `MQTT_MESSAGE_BUFFER_SIZE`. `ParseBuffer` is the while loop of
  `stream_mqtt_peek_frame`: it hands over every whole frame and cuts it,
  resets the buffer on an error, and stops when it needs more bytes.
- The single action `Receive` is one `stream_read` of 1 to
  `MQTT_MESSAGE_BUFFER_SIZE` bytes (the size of `tmpbuf`), appended with
  `buffer_append` and parsed. The history variable `appended` holds every
  byte appended.

`MCMqttCodec.tla` supplies three kinds of input:
- well-formed traffic with bodies that look like headers, and a 128-byte body
  that needs a two-byte length;
- the packets of `stream_mqtt_*` calls with conformant arguments: a CONNECT
  with every optional field and one with none, PUBLISH at QoS 2 and 0, a
  packet id above 255, and every acknowledgement, PINGREQ, PINGRESP and
  DISCONNECT, all strings non-empty;
- `EmptyFieldInputs`: a CONNECT with a present, empty password, then a
  PINGREQ (mqtt_empty_password);
- a header with four continuation bytes followed by valid frames.

### `WsCodec.tla` — `websocket.c`
`ApplyMask` (`ws_apply_mask`, XOR with `Bitwise`), `FormatHeader` and
`FormatFrame` (`ws_format_frame`: 7-bit, 16-bit or 64-bit length, then the
mask), and `ParseFrame` (`ws_parse_frame`, which returns `ok = FALSE` with the
length to wait for, like the code's `false`). The frames are real bytes.

### `WsStream.tla` — `stream_ws.c`
There are two endpoints, client and server. Each has one record `ws[e]` with
the fields of `struct stream_ws`:
- `clientRole`, `key`, `keepAlive`, `responded` and `timer`;
- `dataType`;
- the receive `buffer`;
- the fragment slices `cache`, whose elements are `[fin, opcode, data]`;
- the stream status.

`net[e]` is what is in flight to `e`. `rx[e]` is what has arrived and is
waiting in the socket. Both are sequences of *units*: an HTTP handshake
request, an HTTP response, or one formatted frame. The HTTP text is
abstracted to the key it carries, and `AcceptKey` stands for the SHA-1/base64
accept value.

The code's functions are operators on one record:
- `WriteFrame` (`stream_ws_write_frame`), `GenerateMask` and `Disconnect`
  (with `CloseBytes`, the 4-byte close payload the code sends);
- `HandleReceivedFrame`: the parse, then `HandleParsedFrame` (the
  masked-frame disconnect of a client and unmasking), then `HandleOpcode`
  (every opcode case);
- `HandleHandshakeRequest` and `HandleHandshakeAccept`;
- `Peek` and `PeekBuffer` (`stream_ws_peek_frame`: handshake or frame loop,
  then `CacheResult`);
- `DoRead` (`stream_ws_do_read`: `Peek`, then `TakeBytes` from the head
  slice);
- `DoWrite`;
- `DoTime` (the client's PING and the timeout disconnect).

The actions are:
- `Connect`;
- `PeekFrame`, `Read` and `ReadFrame`: the owner's calls when data arrived;
- `Write` and `WriteFragment`: one frame, or fragments of a TEXT message;
- `Time`;
- `Close`;
- `Arrive`: the next 1..`MaxChunk` units reach the socket;
- `Tick`: one second of the clock.

A CLOSING endpoint only writes what is still queued. Its owner then reaps it
(`Live`).

History variables:
- `msgs[e]` and `frames[e]`: what the application of `e` wrote;
- `got[e]` and `gotMsgs[e]`: what the application of `e` read;
- `open[e]`: the fragmented message that `e` is writing.

### `Idler.tla` — `idler.c`
The poller and the application loop that drives it, in one thread. The list
is a BSD `LIST`: `head` and one `nxt` (le_next) per stream, so
`LIST_INSERT_HEAD` (`InsertHead`) and `LIST_REMOVE` (`ListRemove`, which
leaves the removed stream's own `le_next` alone) are modelled as the code
does them. `rfds`/`wfds` are the fd sets select() left behind. A stream is
reduced to what the poller sees: `readable`, `writable` (kernel room) and
`out`, the slices `stream_has_outgoing_data` finds.

Actions: `AddStream` (`idler_add_stream`), `RemoveByFd`
(`idler_find_stream` then `idler_remove_stream`), `Wait` (`idler_prepare`
then select: some ready fds, a timeout, or EINTR/error with the sets as
prepared), `GetNext` (`idler_get_next_stream` from the cursor, which may have
left the list), `Serve` (the application reads on INCOMING, flushes on
OUTGOING, and may unregister the stream), `AppWrite` (`stream_write` between
poller calls), `PeerSends`, `PeerDrains` and `Delete` (`idler_delete`).
`readyAtWait` and `reported` are history variables.

### `Text.tla` — the string helpers of `string.c`
Texts are sequences of *atoms*: a word (its lower-case spelling and a
spelling variant, so that case-insensitive comparison is `Fold`) or a
separator (SP, HT, CR, LF, ':', '/', '@', '?', NUL). `XStrSpaceLen`,
`XStrWordLen` (with `{}` for the NULL, isgraph, mode) and `XStrLTrim`
translate `string.c`; `StrStr` and `StrChr` are the libc searches.

### `HttpView.tla` — `http.c` views and the WebSocket handshake checks
`ViewParse` (`http_view_parse`, each `strchr` free to run past the first
line), `FindFrom`/`HeaderFind` (`http_header_find`, which ends the search at a
name that matches as a prefix but is not followed by blanks and ':'),
`ServerKey` (`stream_ws_handle_handshake_request`) and `ClientAccepts`
(`stream_ws_handle_handshake_accept` with its `strncmp` over the received
length). `RequestText` and `ResponseText` are what `stream_ws_connect` and the
server write. `RefHeader` is RFC 7230's reading of a header block, the
reference both checks compare with.

### `HttpMsg.tla` — `struct http_msg`
`MsgInit`, `NewRequest`, `NewResponse`, `AddHeader` (at the head),
`RemoveHeader`, `AppendBody`, `ParseHeaders` (`http_msg_parse_headers`, with
`xstrrtrim` of `XStrRTrim`), `ParseRequestMsg`, `ParseResponseMsg` and
`Serialize` (which appends a NUL to the body on each call). Outcomes the code
does not return are values: `NULL_DEREF` for a NULL word measured, and
`OUT_OF_BOUNDS` for `xstrrtrim` of an empty name.

### `Url.tla` — `url.c`
`SchemeTable` and `UrlParseScheme` (the table lookup by prefix), `UrlParse`
with `Authority` (the userinfo, host and port split by the first '@', ':' and
'/') and `PathQuery`. A negative length (`size_t` wrap) is `Wrapped`.
`Build` composes a URL from components as RFC 3986 does; `WellFormed` says
which components make a URL.

### `MqttContainers.tla` — `mqtt_msg_*` and `mqtt_conf_*` of `mqtt.c`
A *world* is two records of a kind, the set of live heap blocks, the next
block number and the first fault. `Alloc` and `Free` are `xmalloc`/`xfree`
(a second free of a block is a fault). `MqttMsgInit/Clean/Create/Copy/Move`
and `MqttConfInit/Clean/Create/Copy/Move` translate the functions, including
what they leave behind: `payload_len` after a clean, `password_len` after a
move, the target's old fields in `mqtt_conf_copy`, and the NULL dereference
of `mqtt_msg_copy` on a message without a topic. `MsgScripts` and
`ConfScripts` run every script of calls.

### `Repeater.tla` — `repeater.c`, `timer.c`, `timer.h`, `rand_time_increase` of `rand.c`
The code's timer, as the code keeps it: a record `(start, interval,
flags)` read by `TStamp` (`timer_tstamp`) against the clock counters
`ms`, `s` and `chrono` that `ClockUpdate` (`clock_update`) advances. A
repeater is `(counter, limit, timeout, timer)`, and each `repeater_*`
function is an operator of the same name. `RandTimeIncrease` is
`rand_time_increase`, with the value of `rand() % (val/4 + 1)` a parameter
`k` ranging over `RandChoices`. `TimerScripts` runs every script of
repeater calls and clock updates beside the abstract `Timer` of
`Timer.tla`, which the code's timer must implement: the module shows the
refinement from `(start, interval, clock_s)` to `(interval, remaining)`,
one `TimerElapse` per second `clock_s` counts.

### `CString.tla` — the C-string primitives of `string.c`
Buffers are sequences of small integers, `ChNul` ending a string; `Store`
is a `memcpy`/`memset` that extends the sequence when it writes past the
end, so an overflow is visible as a longer buffer. `XStrCpy`, `XStrNCpy`
(the `memchr` within `maxlen`, then the NUL padding), `XStrLCpy`,
`XStrJoin` (`xstrjoinex` on the buffer it sizes), `XStrStarts` and
`XStrEnds` translate the functions. The tokenizer is `(prev, chunk)`:
`XStrTokNext` folds `strchr` over the separators in the order given,
keeping the nearest, as the loop of `xstrtok_next` does. `TokScripts` and
`CopiesAsSpecified` compare them with reference meanings (`SelectInSeq`,
`IsPrefix`, `IsSuffix`).

### `Json.tla` — `json.c`
A json-c value is a record whose `type` is `json_object_get_type` and whose
other field, named after the type, is what the accessor returns (an
array's items, an object's members as a function of its keys).
`JsonCompareString`, `JsonCompareArray`, `JsonCompareObject` and
`JsonCompare` are the four mutually recursive functions, with the strict
flags tested by `&` as the code does; `JsonGet` and `JsonCopy` are
`json_get` and `json_copy`.

### `Observer.tla` — `observer.c` and the observer of `stream_mqtt.c`
Observers are records named by pointers (strings of a small set). The list
is a sequence of pointers: `ObserverListAdd` inserts at the head
(`LIST_INSERT_HEAD`), `ObserverListRemove` removes, `ObserverListFind`
returns the first observer whose tests of `observer_list_find_observer`
(`ObserverMatches`) pass, and `ObserverListClean` deletes all.
`StreamMqttSetObserver` keeps an observer already set. `FindScripts` runs
every script of adds and removes against the query's reference meaning,
`Wanted`.

## Runs

| Run | cfg | Expect | Checks |
|---|---|---|---|
| mqtt_delivery | `MCMqttDelivery.cfg` | pass | `TypeOK`, `QoS2AtMostOnce`, `AcknowledgedDelivered` and, under `FairSpec`, `PublishEventuallyHanded`, with a QoS 2 and a QoS 1 publish |
| mqtt_keepalive | `MCMqttPrompt.cfg` | pass | `KeepAliveHealthy` and `AcknowledgedDelivered` under prompt delivery, keep_alive 2, with PUBLISH, SUBSCRIBE and UNSUBSCRIBE |
| mqtt_resend_cap | `MCMqttResendCap.cfg` | violation | `RetransmissionCap` (spec.md invariant 6) |
| mqtt_early_abandon | `MCMqttEarlyAbandon.cfg` | violation | `NoEarlyAbandon` |
| mqtt_qos0_duplicate | `MCMqttQoS0.cfg` | violation | `QoS0AtMostOnce` |
| stream_chain | `MCStreamLive.cfg` | pass | `TypeOK`, `WritePreserved` and `ImplementsByteStream` (refinement of `ByteStream`, fairness included) over TLS with resets |
| mqtt_codec | `MCMqttCodec.cfg` | pass | `LengthCodecAgrees` at every length boundary, `FramesRoundTrip` under every chunking of up to 3 bytes, `BufferConservation` and `PacketsRoundTrip`; `UrlParsesPerSpec`, `SchemesPerSpec`, `ContainersOwnership`, `BufferTakeConserves`, `RepeaterImplementsTimer`, `BackOffPerComment`, `ObserverFindPerList`, `TokenizerSplits`, `StringCopiesBounded`, `JsonStrictIsEquality` and `JsonMatchPreorder` |
| mqtt_phantom_frame | `MCMqttPhantom.cfg` | violation | `FramesAuthentic` after a malformed header |
| mqtt_empty_password | `MCMqttEmptyPassword.cfg` | violation | `PacketsRoundTrip` for a CONNECT with an empty password |
| ws_stream | `MCWsStream.cfg` | pass | `DataPreserved`, `MessagesIntact`, `KeepAliveHealthy` and `FrameLengthsAgree`; `ServerFindsKey`, `ClientVerifiesAccept` and `MsgRoundTrip` |
| ws_pipelined_handshake | `MCWsPipelined.cfg` | violation | `DataPreserved` when the 101 response and a frame share a read |
| poller | `MCIdler.cfg` | pass | `IterationReportsWait` and, under `FairSpec`, `OutgoingEventuallyServed`, with two streams |

The pure operators (HTTP texts, URLs, containers, buffer, repeater, observers, strings, JSON) are checked inside
ws_stream and mqtt_codec through a `probe` variable of the MC module. `MCSpec`
starts either with `probe = NoProbe`, and then runs the streams or the codec
as `Spec` does, or with `probe` holding one input of a check, and then takes
no step. Each such check is an invariant that constrains only states with
its kind of probe. So every input is checked once, and the state space grows
by the number of inputs instead of being multiplied by it.

What the runs show:
- **QoS 2 is surfaced at most once.** The client resends the PUBLISH and the
  PUBREL, and late PUBRECs insert extra PUBRELs. The server still surfaces
  the message only once, because TCP keeps order: every copy of the PUBLISH
  reaches the server before the first PUBREL, and `HandlePubrel` removes the
  message from `inbound` when it surfaces it.
- **Acknowledged requests were delivered.** Every request that the client
  dropped from `outgoing` on its acknowledgement had been handed to the
  server application. This holds for SUBACK and UNSUBACK too.
- **Every QoS 1/2 publish is eventually handed over.** `do_time` abandons a
  frame after its resends (`stream_mqtt.c:826`), but over TCP an abandoned
  PUBLISH or PUBREL was written at least once, and a late PUBREC still
  releases the QoS 2 message with a new PUBREL. Unless a stream closes, the
  server application gets the message.
- **No keep-alive false alarm** in MQTT and in WS. The MQTT 15 s slack and
  PINGREQ restart, and the WS 90 s client ping under the 100 s server
  timeout, keep a READY connection alive as long as delivery is prompt.
- **The stream chain preserves bytes.** Partial writes, EAGAIN, the
  handshake's own flight and a reset never make an accepted byte lost,
  repeated or reordered. With a poller draining on write interest, every accepted byte
  reaches the peer (the refinement of `ByteStream`).
- **The MQTT codec.** Remaining lengths are encoded minimally and decoded
  back. Frames survive any chunking. The receive buffer, through rewinds,
  reallocations, cuts and resets, always holds the last bytes appended. A
  packet of every type, sent by its `stream_mqtt_*` sender and parsed by the
  parser `handle_received_frame` picks, gives back the sender's arguments:
  big-endian shorts, length-prefixed strings, connect and publish flags, and
  `mqtt_eval_*` sizes that match the bodies. The strings are non-empty: an
  empty password breaks the round trip (Findings).
- **The WS stream.** Handshake, masking by the client, unmasking, fragment
  reassembly, PING/PONG and CLOSE preserve every payload byte and every
  message, whatever the interleaving. Header lengths parse back at 125, 126,
  65535 and 65536.
- **The handshake texts** (checked on the operators of HttpView): for every request `stream_ws_connect` writes and
  for browser-style requests (other case, tabs, no key), the server finds the
  key RFC 7230 finds, and waits on every proper prefix of the request; the
  client accepts the server's response to its own key only, and no prefix of
  it.
- **HTTP messages.** A request or response built with the `http_msg_*` calls,
  with or without a body and after a header removal, serializes to a text
  that parses back to the same message (header order compared per name), and
  serializing again writes the same text although the body grew a NUL. The
  responses include spec.md's `101 Switching Protocols` and `404 Not Found`;
  the reason is compared as the one field that spec.md 4's whitespace
  tokenising of the first line makes of it (RFC 7230 3.1.2 has clients
  ignore it). Headers have distinct names: two of one name come back
  reversed, which needs a run of its own (Found but not run).
- **URLs.** Every well-formed combination of scheme, userinfo, host, port,
  path and query parses back to its components. Each of the four schemes
  of the table gets its own port and encryption (mqtt and ws, whose names
  the longer mqtts and wss extend, included), and the unknown texts
  `http`, `s` and `s ws` are refused. A text that extends a name of the
  table (`mqttx`) is not among the inputs: `url.c:38` compares only
  `strlen(name)` bytes and takes it for that name (Found but not run).
  Names are words, so a proper prefix of a name (`mqt`) is one more unknown
  word.
- **MQTT containers.** Every script of up to four create/copy/move/clean
  calls on two messages, and on two configurations, that respects ownership
  (a target owns nothing) has no double free, no NULL dereference, no leak
  once cleaned, and copies and moves give the source's values.
- **Buffer take and copy.** Over every script of five appends (of one and
  two bytes) and takes (of one and two), the bytes taken are, in order, a
  prefix of those appended and the buffer holds the rest; `buffer_copy`
  into a fresh, a cleaned or a cut buffer copies exactly them.
- **The repeater's timer implements `Timer`.** Over every script of five
  calls (clock updates of 400, 700 and 1000 ms, attempt, wait, reset,
  limit, postpone to 0 or 2 s, back-off under a maximum of 3 with every
  `rand()` value), `clock_s` counts the whole seconds of `clock_ms`, and
  `repeater_is_waiting` and `timer_remaining` agree with the abstract
  timer started by the same call.
- **Back-off.** From every timeout 0..40 under maxima 0, 5 and 30 and every
  `rand()` value, a back-off never shortens the timeout and, from below the
  maximum, never exceeds it. From 0 without a maximum, the smallest and
  largest `rand()` give the rows of the table in the `rand_time_increase`
  comment — the highest row only for its first twelve entries (see below).
- **Observers.** Over every script of four adds and removes of three
  observers, `observer_list_find_observer` returns, for every query, the
  matching observer added last, and NULL only when none matches.
- **C strings.** Every text of up to four of `a`, `;` and `/` is split by
  `xstrtok_next`, with `;`, `/;` or `;/` at each call, at the first
  separator of that call, empty tokens included, then NULL. For every
  string of up to three characters and every size up to 4, `xstrlcpy`
  never writes outside the destination, truncates to `size - 1` and returns
  `strlen`; two chained `xstrncpy` calls write exactly their `maxlen` bytes
  with NUL padding; `xstrjoin` fills exactly the buffer it sizes.
- **JSON comparison.** Over 77 JSON values up to three levels deep,
  `json_compare` with `JSON_COMPARE_FLAG_STRICT` holds exactly between equal
  values, and under each of the four flag combinations it is reflexive and
  transitive, so matching against a pattern of a pattern is safe.
- **The poller.** An iteration reports exactly the streams the wait found
  ready and still registered, although streams are added and the served one
  removed while iterating; a stream with queued data is eventually served
  for writing.
- **Findings** (see `PROJECT.json`):
  - `do_time` writes a queued frame up to 5 times. Acknowledgements stop the
    resend timer without counting the next send, and late PUBRECs reset the
    attempt counter.
  - `resend_attempts` carries over from an acknowledged head, so the next
    head can be abandoned after 2 sends.
  - A QoS 0 PUBLISH queued behind another frame is retained and resent.
  - On a malformed MQTT header, the whole receive buffer is reset. The next
    read starts inside a frame, and body bytes are handed over as a PUBACK
    the peer never sent.
  - A CONNECT with an empty password is announced 2 bytes short:
    `mqtt_eval_connect` counts the password only when `password_len > 0`
    (`mqtt.c:270`), and `mqtt_format_connect` writes its 2-byte length
    whenever the pointer is set (`mqtt.c:323`). The receiver takes the
    CONNECT without its password and the 2 zero bytes as a frame of type 0
    (mqtt_empty_password). MQTT 3.1.1 allows an empty password, and
    spec.md section 4 says the codec round-trips every conformant frame.
  - `stream_ws_handle_handshake_accept` resets the receive buffer. A frame
    that the server writes right after its 101 response, and that arrives in
    the same read, is lost.

**Found but not run** (no run is left for a violation of its own; each was
reproduced with TLC by adding one input to the named constant, or is a value
the operator returns; see the hazards in `PROJECT.json`):
- A client that connects with keep_alive 0 never becomes READY
  (`stream_mqtt.c:344`); an earlier run reported `ConnackReady` violated.
- `http_header_find` stops at a header whose name extends the one sought:
  a `Sec-WebSocket-Key1` line before `Sec-WebSocket-Key` in `ExtraHeaders`
  makes `ServerFindsKey` fail (`http.c:89`).
- The accept check `strncmp(accept_key, key, key_len)` uses the received
  length, so an empty or truncated accept value is accepted, and the status
  code is never checked (`stream_ws.c:317`).
- `url_parse` takes an '@' in the path as the end of a userinfo
  (`UrlParsesPerSpec` fails for a path holding '@'), a ':' after the host in the
  path makes the port length negative (`url.c:121`), a query without a path
  stays in the host, and `url_parse_scheme` takes `mqttx` for `mqtt`
  (`SchemesPerSpec` fails).
- Headers are added at the head of the list, so parse then serialize
  reverses same-name headers (`MsgRoundTrip` fails with two lines of one name).
  `http_msg_parse_response` keeps only the first word of the reason phrase
  (`Switching Protocols` comes back as `Switching`, as spec.md 4 tokenises
  it but not as its own example response reads);
  `http_msg_parse_request` measures a NULL word when the first line has one
  space (`NULL_DEREF`); a header line starting with ':' makes `xstrrtrim`
  run off the front of its buffer (`OUT_OF_BOUNDS`).
- `mqtt_msg_copy` dereferences a NULL topic; `mqtt_conf_move` leaves
  `password_len` on the moved-from conf; `mqtt_conf_create` drops an empty
  password; `mqtt_conf_copy` keeps the target's fields the source lacks.
- The highest row of the table in the `rand_time_increase` comment
  (`rand.c:94`) has 1238 and 2167 as its last entries; the code gives
  764 + 383 + 191 = 1338, then 2342. `BackOffPerComment` checks the first
  twelve entries and fails on the thirteenth.
- `rand_time_increase` returns `max` without storing it when the value is
  already at or above `max`. `repeater_back_off` after a
  `repeater_postpone` above `max_timeout` therefore waits the longer
  timeout (`rand.c:103`): `BackOffBounded` from a value above the maximum
  would fail, which is why it assumes `val < max`.
- `json_compare_string` compares lengths and then `strcmp`, so two strings
  of one length that differ only after a NUL are equal even under the strict
  flags (`json.c:82`): `JsonStrictIsEquality` fails once `<<NUL, a>>` and
  `<<NUL, b>>` are among the values. Ints are compared through
  `json_object_get_int`, which clamps 64-bit values (`json.c:179`; beyond
  TLC's integers).
- A CONNECT with an empty will message: as for the empty password
  (Findings), `mqtt_eval_connect` skips it and `mqtt_format_connect`
  writes its 2-byte length.

Every property of a passing run has a mutant in `PROJECT.json`: a plausible
bug in the operator it depends on, which TLC then catches. The mutants are:
- PUBREL that leaves the message in `inbound`;
- a QoS 1 PUBLISH that is acknowledged but not surfaced;
- a subscribe that is not retained once sent;
- keep-alive without the slack;
- abandonment that does not reset `resend_attempts`;
- a write that leaves an empty slice queued;
- a partial write that does not cut the slice;
- write interest from the stream's own queue only;
- a length encoder without the continuation bit;
- a frame parser that waits for one byte too many;
- a received payload that is not unmasked;
- a continuation that overwrites the message's opcode;
- a server that arms the client's timeout;
- a 16-bit length that starts at 127;
- a `do_time` without its third step (send a head not in flight);
- a `buffer_resize` that grows without rewinding;
- a `mqtt_put_short` that writes the low byte first;
- header names compared with case (`strncmp` for `strncasecmp`);
- an accept check against the raw key instead of the accept value;
- header values that keep the blanks after the colon;
- a path split that keeps '?' in the path;
- a scheme table with `mqtt` before `mqtts`;
- an `mqtt_msg_move` that leaves the source's topic;
- a `LIST_REMOVE` that clears the removed stream's `le_next` (as debug
  builds of `queue.h` do);
- an `idler_prepare` that asks for no write readiness;
- a `buffer_take` that copies the bytes out without cutting them;
- a `clock_update` that drops the millisecond carry;
- a `rand_time_increase` without the final clamp to `max`;
- an observer list that adds at the tail;
- a tokenizer that keeps the farthest separator;
- an `xstrlcpy` that truncates only above `size` (`ret > size`);
- a strict array comparison without its length check;
- a non-strict array search that stops before the last item.

## Bounds and why they suffice
- **StreamChain.** Messages are 1 or 2 bytes, with a kernel buffer of 1 or 2
  bytes, a one-byte ClientHello and a two-byte last flight. Each write can
  then be taken whole, in part, or not at all. A two-byte flight into a
  one-byte buffer leaves the socket queue non-empty while the top queue
  still holds pre-handshake data, which the `written` trace needs. The run
  keeps two messages, because its fair-cycle search is slow.
- **MQTT resends.** `MQTT_RESEND_ATTEMPTS` keeps its value, 3.
- **MQTT timeouts.** They are scaled down with their ratio kept: slack 1 :
  resend 2 stands for 15 s : 30 s, and keep_alive 2 for the client. In the
  delivery runs the resend timeout is 1 and keep-alive is off.
- **WS timeouts.** They keep the order of the code's timeouts, server 100 s
  > client 90 s, as 2 > 1. The order of expiries, not their length, is what
  the code's branches depend on.
- **MQTT `MaxChunk = 2`.** One read then hands several frames to
  `handle_received_frame`, so duplicate PUBRECs are handled back to back.
- **MQTT `MaxWire`.** It is 2, or 3 where needed. Three frames in flight are
  needed for the uncounted-resend trace: three PUBRECs answering three
  resends.
- **MQTT requests.** Two or three requests with distinct packet ids cover
  queueing behind a head, head-insertion of PUBREL, and abandonment followed
  by the next head.
- **MqttCodec.** Chunks of 1 to 3 bytes split every header and every length
  byte, and the 128-byte body crosses the one-byte length boundary. The
  larger boundaries are checked on the codec operators directly.
  `MQTT_MESSAGE_BUFFER_SIZE` is 3 instead of 1024, scaled with the frames:
  the code reads at most the buffer's size at once, as here, and frames
  longer than the buffer (here the 131-byte one, in the code any frame above
  1 KiB) make `buffer_append` rewind and reallocate. With 1024 and these
  frames the buffer would never grow. Strings are 1 or 2 bytes, payloads 0
  or 2; values above 255 in the 16-bit fields make the byte order matter.
  The 16-bit truncations need 64 KiB bodies and are not reached.
- **WsStream.**
  - One mask: the mask's value does not affect control flow.
  - Payloads of 1 and 2 bytes, with read lengths 1 and 8: a read takes a
    slice whole or in part.
  - The client writes two frames, either two messages or one fragmented
    message. The server writes one.
  - `MaxChunk = 1` in the passing run. `MaxChunk = 2` lets the response and
    a frame share a read, which is the violation run.

- **Idler.** Two streams with descriptors 3 and 4, one outgoing slice each:
  enough for one to be added during an iteration and the other removed
  under the cursor, and for write interest to matter.
- **Text inputs.** Two URIs, three extra header sets, two keys and three
  browser requests (other case, tabs, missing key); every proper prefix of
  each request. Three first lines, each with no header, one, two, or two
  and a removal, with and without a body. Schemes,
  userinfo, hosts, ports, paths and queries each with one or two values and
  absence, 4 x 2 x 2 x 2 x 3 x 2 combinations before `WellFormed`. Container
  scripts of four calls reach create, copy and move in both directions and
  clean before and after.

A value that a handler uses several times, such as a parsed frame or the
result of a peek, is passed as an operator parameter, not bound by `LET`.
TLC's coverage pass walks a `LET` definition again at every use, so deep
`LET` nesting makes that pass explode. For the same reason StreamChain's write path binds
each nested call's result once, with `WithResult(call, LAMBDA r : ...)`:
when TLC computes `ENABLED` for the fairness conditions it evaluates a
`LET` definition or an argument again at each use, and the cost of the
three-slice drain through a completing handshake grew exponentially.

## Fairness and deadlock
`StreamChain!FairSpec` is used by `stream_chain`:
- Weak fairness on the peer (`PeerRead`, `PeerHandshake`): it is another
  process.
- Weak fairness on `FlushStep`: a started loop keeps running. Whether the
  busy-wait of `stream_do_flush` ends is not checked: it ends exactly when
  the peer reads, which this fairness assumes.
- Strong fairness on `OwnerDrain` and `TlsRead`. The owner returns to the
  poller between calls, and the poller serves every ready descriptor each
  round. These actions are disabled while a flush runs, so weak fairness
  would let repeated flushes starve them.

`MqttStream!FairSpec` is used by `mqtt_delivery`: weak fairness on
`Receive(e)`, `ReadFrame(e)` and `Time(e)` of both endpoints (the poller loop
calls read, read_frame and time on every stream in every round), on
`ServerAnswer` (the server application answers what it read) and on `Tick`
(the clock advances). Nothing forces `ClientRequest`, `ClientDisconnect` or
`RawAccess`; `PublishEventuallyHanded` therefore only speaks of requests
issued and allows a stream to close instead.

`Idler!FairSpec` is used by `poller`: weak fairness on `Wait`, `GetNext` and
`Serve` (the poller loop is the program's main loop) and on `PeerDrains` (a
peer keeps reading). `AppWrite`, `AddStream`, removals and `PeerSends` are
not forced. The run sets `CHECK_DEADLOCK FALSE` because `Delete` ends the
loop.

MqttStream's other runs and WsStream's `Spec` have no fairness.
- `PromptDelivery` (MQTT) and `Prompt` (WS) are environment assumptions, not
  fairness. They allow `Tick` only when nothing is due: no unread unit, no
  unanswered request, and no pending time work. This stands for network,
  poller and application delays below the clock's one-second resolution.
  With unbounded delays, a keep-alive timeout is the designed behaviour.
- **Call scripts** (buffer, repeater, observers, containers). Five buffer
  calls reach a take across two appends, a cut followed by a growth (the
  rewind) and a take larger than what is held. Five repeater calls with
  ticks of 400, 700 and 1000 ms reach a carry into a second, a wait that
  expires and one that is reset or postponed midway, and a back-off that
  reaches the maximum 3. Four observer calls reach a list of three with
  two observers of one object, and a removal before a re-add that moves an
  observer to the head. Tokenized texts of four characters reach two
  adjacent separators, separators at both ends, and calls whose lists find
  the two separators in either order; copied strings of three characters
  meet sizes below, at and above their length plus one. JSON values have
  every scalar type (an int and a double of one value, which must differ),
  arrays of zero to two items (repeats included, which non-strict matching
  lets one item serve twice), objects with none, one or both keys, and a
  third level of nesting for the recursion.
- The WS and codec runs set `CHECK_DEADLOCK FALSE`. Their behaviours end:
  - the writers have a bound on what they write;
  - a WS stream stops once it is CLOSING and reaped;
  - the codec stops once the wire is read.

## Not modelled, and why
- **The MQTT observer callback.** `stream_mqtt_set_observer` and
  `stream_mqtt_remove_observer` are operators of Observer, but
  `stream_mqtt.c` never invokes the observer it holds, so every frame goes
  to `incoming` in MqttStream.
- **MQTT partial frames** only delay the read. MqttCodec covers them
  byte by byte.
- **Connection loss.** Nothing is persisted, and a lost connection destroys
  both streams.
- **Per-layer outgoing queues below MQTT and WS.** They are the reliable
  FIFO in MqttStream and WsStream; StreamChain models them on their own.
- **`stream_reset_outgoing_data`** discards the queues by design at
  teardown. The read path of `stream.c` is a pass-through to `read(2)`.
- **OpenSSL's state machine.** The handshake is two flights (the ClientHello
  written by `stream_ssl_connect`, and the client's last flight), and records
  carry plaintext. The BIO flush after the client's last flight
  (`stream_ssl.c:539`) is modelled as completing inside the handshake: a
  peer reset while it spins, and a peer that stops reading (which would
  block the owning thread), are not.
- **SHA-1 and base64.** `AcceptKey`/`AcceptWord` stand for the accept
  value. WsStream's handshake units carry the key; the HTTP text around it
  is checked on its own in HttpView and HttpMsg.
- **Byte counting in `http_msg_serialize`** against `buffer_len`: texts are
  atoms, not characters.
- **WS close-code content.** It is modelled as sent (4 bytes), but nothing
  in the library reads a received close code (hazard `stream_ws.c:634`).
- **WS `stream_read` at the server.** Reading fragmented messages with
  `stream_read` loses later fragments (hazard `stream_ws.c:533`). Setting
  `ReadApi` to `read` for the server shows it. The passing run uses
  `read_frame` there.
- **`mqtt_packet_name`** is for logging; the `_new`/`_delete` wrappers of
  the containers only allocate the struct around init and clean.
- **Buffers inside WsStream** are sequences; `buffer_take` and
  `buffer_copy` are checked on their own in Buffer.
- **`clock_update_sys`** reads the OS clock; the scripts drive
  `clock_update` as the tests do. The 32-bit wrap of `rand_time_increase`
  with no maximum needs about fifty back-offs and values TLC's integers do
  not reach in a script.
- **log, `rand_data`, socket, net**, `json_new`/`json_delete` and the
  copies of `string.c` (`xstrdup`, `xstrndup`): formatting, printing,
  random bytes, allocation and OS wrappers, with no control state the
  properties depend on. `memory.c` appears only as the heap of
  MqttContainers.

## Plan
1. **MqttDelivery**: an abstract delivery specification for QoS 1/2, refined
   by MqttStream under `FairSpec` (eventual delivery is already checked
   directly by `PublishEventuallyHanded`).
2. **Buffer in WsStream**: the WS fragment slices as `struct buffer`s
   through `BufferTake`.
3. **Repeater in a stream**: no stream of the library uses the repeater
   yet; a client reconnect loop built on it would be its own module.
