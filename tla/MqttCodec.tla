----------------------------- MODULE MqttCodec -----------------------------
(***************************************************************************)
(* The MQTT fixed-header codec (source/mqtt.c) and the receive-buffer loop *)
(* of stream_mqtt_peek_frame (source/stream_mqtt.c) that feeds it.        *)
(*                                                                         *)
(* Bytes are integers 0..255.  The peer formats a sequence of frames      *)
(* (mqtt_format_frame) or sends raw bytes; TCP hands them to the reader   *)
(* in chunks of any size up to MaxChunk, and after every chunk the reader *)
(* appends it to its buffer and parses frames out of it until it needs    *)
(* more data.                                                             *)
(***************************************************************************)
EXTENDS Integers, Sequences, SequencesExt, Functions, Buffer, MqttPacket

CONSTANTS Inputs,                  \* what the peer may send: [frames, bytes,
                                   \* packets] records
          MQTT_MESSAGE_BUFFER_SIZE \* the initial receive buffer and the
                                   \* largest chunk one stream_read returns

MQTT_LENGTH_IDX == 1            \* mqtt.h: offset of the remaining length
MQTT_MAX_LENGTH_SIZE == 4
MQTT_MIN_FIXED_HEADER_SIZE == 2

\* mqtt_decode_length: the do-while loop, checking for data before the
\* size limit.  ret 0 is "need more data", -1 an error, else the number
\* of length bytes.
RECURSIVE DecodeLoop(_, _, _, _)
DecodeLoop(buf, idx, multiplier, val) ==
    IF Len(buf) <= idx THEN [ret |-> 0, value |-> val]
    ELSE IF idx >= MQTT_MAX_LENGTH_SIZE THEN [ret |-> -1, value |-> val]
    ELSE LET c == buf[idx + 1]
             v == val + (c % 128) * multiplier
         IN IF c >= 128 THEN DecodeLoop(buf, idx + 1, multiplier * 128, v)
            ELSE [ret |-> idx + 1, value |-> v]

DecodeLength(buf) == DecodeLoop(buf, 0, 1, 0)

\* Mutant: the continuation bit is never set.
RECURSIVE EncodeLengthNoMark(_)
EncodeLengthNoMark(value) ==
    LET d == value % 128
        rest == value \div 128
    IN IF rest > 0 THEN <<d>> \o EncodeLengthNoMark(rest) ELSE <<d>>

\* mqtt_encode_length: seven bits per byte, low digits first, the high
\* bit marking that more digits follow.
RECURSIVE EncodeLength(_)
EncodeLength(value) ==
    LET d == value % 128
        rest == value \div 128
    IN IF rest > 0 THEN <<d + 128>> \o EncodeLength(rest) ELSE <<d>>

\* mqtt_format_frame: the type and flags byte, the remaining length, the
\* body.
FormatFrame(typeFlags, body) == <<typeFlags>> \o EncodeLength(Len(body)) \o body

\* Mutant: a frame is complete only with one byte more than its length.
ParseFrameOffByOne(data) ==
    IF Len(data) < MQTT_MIN_FIXED_HEADER_SIZE
    THEN [ret |-> 0, frameLength |-> MQTT_MIN_FIXED_HEADER_SIZE]
    ELSE LET d == DecodeLength(SubSeq(data, MQTT_LENGTH_IDX + 1, Len(data)))
             offset == MQTT_LENGTH_IDX + d.ret
         IN CASE d.ret < 0  -> [ret |-> d.ret, frameLength |-> 0]
              [] d.ret = 0  -> [ret |-> 0, frameLength |-> Len(data) + 1]
              [] Len(data) <= offset + d.value ->
                               [ret |-> 0, frameLength |-> offset + d.value]
              [] OTHER      -> [ret |-> offset, frameLength |-> offset + d.value]

\* mqtt_parse_frame on the first bytes of data: ret 0 with the length to
\* wait for, a negative error, or the body offset with the frame's length.
ParseFrame(data) ==
    IF Len(data) < MQTT_MIN_FIXED_HEADER_SIZE
    THEN [ret |-> 0, frameLength |-> MQTT_MIN_FIXED_HEADER_SIZE]
    ELSE LET d == DecodeLength(SubSeq(data, MQTT_LENGTH_IDX + 1, Len(data)))
             offset == MQTT_LENGTH_IDX + d.ret
         IN CASE d.ret < 0  -> [ret |-> d.ret, frameLength |-> 0]
              [] d.ret = 0  -> [ret |-> 0, frameLength |-> Len(data) + 1]
              [] Len(data) < offset + d.value ->
                               [ret |-> 0, frameLength |-> offset + d.value]
              [] OTHER      -> [ret |-> offset, frameLength |-> offset + d.value]

\* The frame handed to stream_mqtt_handle_received_frame: its first byte
\* (type and flags) and its body.
Frame(data, p) == <<data[1], SubSeq(data, p.ret + 1, p.frameLength)>>

-----------------------------------------------------------------------------
(* Packets: what the stream_mqtt_* senders write, and what                *)
(* handle_received_frame parses out of a frame.                           *)

\* mqtt_format_fixed_header: type and flags, then the given body length.
FormatFixedHeader(type, flags, bodyLength) ==
    <<(type * 16 + flags) % 256>> \o EncodeLength(bodyLength)

\* The flags each sender puts in the fixed header.
PacketFlags(p) ==
    CASE p.type = MQTT_PUBLISH -> PublishFlags(p)
      [] p.type \in {MQTT_PUBREL, MQTT_SUBSCRIBE, MQTT_UNSUBSCRIBE} ->
             MQTT_QOS_TO_FLAGS(MQTT_QOS_1)
      [] OTHER -> 0

\* The body each sender formats.
PacketBody(p) ==
    CASE p.type = MQTT_CONNECT     -> FormatConnect(p)
      [] p.type = MQTT_CONNACK     -> FormatConnack(p)
      [] p.type = MQTT_PUBLISH     -> FormatPublish(p)
      [] p.type = MQTT_SUBSCRIBE   -> FormatSubscribe(p)
      [] p.type = MQTT_SUBACK      -> FormatSuback(p)
      [] p.type = MQTT_UNSUBSCRIBE -> FormatUnsubscribe(p)
      [] p.type \in IdOnly         -> FormatVarHeaderId(p.id)
      [] p.type \in NoBody         -> <<>>

\* The body length in the fixed header: connect, publish, subscribe and
\* unsubscribe put the mqtt_eval_* size in front of the body; the others
\* go through stream_mqtt_write_frame (mqtt_format_frame), which uses the
\* length of the formatted body.
PacketBodyLength(p) ==
    CASE p.type = MQTT_CONNECT     -> EvalConnect(p)
      [] p.type = MQTT_PUBLISH     -> EvalPublish(p)
      [] p.type = MQTT_SUBSCRIBE   -> EvalSubscribe(p)
      [] p.type = MQTT_UNSUBSCRIBE -> EvalUnsubscribe(p)
      [] OTHER                     -> Len(PacketBody(p))

\* The bytes stream_mqtt_real_write is given for packet p.
PacketBytes(p) ==
    FormatFixedHeader(p.type, PacketFlags(p), PacketBodyLength(p)) \o PacketBody(p)

\* The frame the sender meant: its type and flags byte and its body.
PacketFrame(p) == <<p.type * 16 + PacketFlags(p), PacketBody(p)>>

\* The switch of stream_mqtt_handle_received_frame: the parser each
\* packet type goes through (subscribe, unsubscribe, suback and unsuback
\* are parsed when an observer is attached), by the type and flags of the
\* frame's first byte.
DecodeBody(type, flags, body) ==
    CASE type = MQTT_CONNECT     -> ParseConnect(body)
      [] type = MQTT_CONNACK     -> ParseConnack(body)
      [] type = MQTT_PUBLISH     -> ParsePublish(body, flags)
      [] type = MQTT_SUBSCRIBE   -> ParseSubscribe(body)
      [] type = MQTT_SUBACK      -> ParseSuback(body)
      [] type = MQTT_UNSUBSCRIBE -> ParseUnsubscribe(body)
      [] type \in IdOnly         -> [type |-> type] @@ ParseVarHeaderId(body)
      [] OTHER                   -> [type |-> type]
Decode(frame) == DecodeBody(frame[1] \div 16, frame[1] % 16, frame[2])

\* The while loop of stream_mqtt_peek_frame (lines 511-527) over the
\* receive buffer b: hand over every complete frame and cut it; on an
\* error reset the whole buffer; stop when more data is needed.
RECURSIVE ParseBuffer(_, _)
ParseBuffer(b, out) ==
    IF BufferIsEmpty(b) THEN [buf |-> b, out |-> out]
    ELSE LET p == ParseFrame(BufferData(b)) IN
         CASE p.ret = 0 -> [buf |-> b, out |-> out]
           [] p.ret < 0 -> ParseBuffer(BufferReset(b), out)
           [] OTHER     -> ParseBuffer(BufferCut(b, p.frameLength),
                                       Append(out, Frame(BufferData(b), p)))

VARIABLES wire,       \* bytes sent by the peer and not yet read
          buffer,     \* self->buffer, the receive buffer (struct buffer)
          surfaced,   \* frames handed to handle_received_frame, in order
          sent,       \* the frames the peer formatted (fixed per behaviour)
          packets,    \* the stream_mqtt_* calls that formatted them, if any
          appended    \* every byte ever appended to the buffer (history)

vars == <<wire, buffer, surfaced, sent, packets, appended>>

Init ==
    \E in \in Inputs :
        /\ wire = in.bytes /\ sent = in.frames /\ packets = in.packets
        /\ buffer = BufferInit(MQTT_MESSAGE_BUFFER_SIZE)
        /\ surfaced = <<>> /\ appended = <<>>

\* One stream_read into tmpbuf[MQTT_MESSAGE_BUFFER_SIZE] returns the next
\* k bytes; buffer_append adds them to the buffer and the frames in it
\* are parsed.
Receive ==
    \E k \in 1..MQTT_MESSAGE_BUFFER_SIZE :
        /\ k <= Len(wire)
        /\ LET r == ParseBuffer(BufferAppend(buffer, SubSeq(wire, 1, k)), surfaced) IN
           /\ buffer' = r.buf
           /\ surfaced' = r.out
        /\ appended' = appended \o SubSeq(wire, 1, k)
        /\ wire' = SubSeq(wire, k + 1, Len(wire))
        /\ UNCHANGED <<sent, packets>>

Next == Receive

Spec == Init /\ [][Next]_vars

-----------------------------------------------------------------------------
\* The values where the remaining length gains a byte (MQTT 3.1.1, 2.2.3),
\* and the number of bytes its minimal encoding takes.
LengthBoundaries == {0, 127, 128, 16383, 16384, 2097151, 2097152, 268435455}
MinimalSize(v) == CASE v < 128 -> 1 [] v < 16384 -> 2 [] v < 2097152 -> 3
                    [] OTHER -> 4

\* mqtt_encode_length writes the minimal 1-4 byte encoding of every
\* boundary value and of the body length of every frame the peer sent,
\* and mqtt_decode_length reads back the same value, consuming exactly
\* those bytes (spec.md 4.8 and invariant 3).
LengthCodecAgrees ==
    \A v \in LengthBoundaries \cup {Len(f[2]) : f \in ToSet(sent)} :
        /\ Len(EncodeLength(v)) = MinimalSize(v)
        /\ DecodeLength(EncodeLength(v)) = [ret |-> MinimalSize(v), value |-> v]

\* Frame round-trip (spec.md invariant 3): whatever the chunking, the
\* frames peek_frame hands over are the frames the peer formatted, in
\* order, and once every byte has been read all of them were handed over.
FramesRoundTrip ==
    /\ IsPrefix(surfaced, sent)
    /\ wire = <<>> => surfaced = sent

\* Every frame handed to handle_received_frame is one the peer formatted:
\* the buffer reset on a malformed header (stream_mqtt.c:520) never makes
\* the reader parse the middle of a later frame as a header.
FramesAuthentic == \A i \in DOMAIN surfaced : surfaced[i] \in ToSet(sent)

\* The receive buffer is never corrupted (spec.md invariant 1, buffer
\* conservation): across buffer_append's rewind and xrealloc and the
\* cuts and resets of peek_frame, the bytes at the data pointer are always
\* the last bytes appended, in order, with nothing uninitialized.
BufferConservation == IsSuffix(BufferData(buffer), appended)

\* What a conformant packet means (MQTT 3.1.1, section 3): the arguments
\* of the stream_mqtt_* call without the lengths, the protocol name and
\* level, no will QoS or retain without a will, and a packet identifier
\* in a PUBLISH only above QoS 0.
Expected(p) ==
    CASE p.type = MQTT_CONNECT ->
           [protocol_name |-> MQTT_PROTOCOL_NAME, protocol_level |-> MQTT_PROTOCOL_LEVEL,
            will_retain |-> p.will_topic # NULL /\ p.will_retain,
            will_qos |-> IF p.will_topic = NULL THEN 0 ELSE p.will_qos]
           @@ Restrict(p, {"type", "clean_session", "keep_alive", "client_id",
                           "will_topic", "will_msg", "user_name", "password"})
      [] p.type = MQTT_PUBLISH ->
           [id |-> IF p.qos > MQTT_QOS_0 THEN {p.id} ELSE NULL]
           @@ Restrict(p, {"type", "retain", "dup", "qos", "topic", "payload"})
      [] OTHER -> p

\* Packet round trip (spec.md invariant 3 for the packet bodies): every
\* frame peek_frame hands to handle_received_frame parses, with the parser
\* its type selects, to the arguments of the stream_mqtt_* call that sent
\* it: big-endian shorts, length-prefixed strings, connect, publish and
\* subscribe flags, and the eval_* sizes in the fixed header all agree.
PacketsRoundTrip ==
    \A i \in DOMAIN packets :
        i \in DOMAIN surfaced => Decode(surfaced[i]) = Expected(packets[i])
=============================================================================
