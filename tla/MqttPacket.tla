----------------------------- MODULE MqttPacket -----------------------------
(***************************************************************************)
(* The MQTT packet body codec of source/mqtt.c: the mqtt_put_* and        *)
(* mqtt_get_* primitives and the mqtt_format_*, mqtt_eval_* and           *)
(* mqtt_parse_* functions of every packet type.  MqttCodec puts the fixed *)
(* header of the stream_mqtt_* senders in front of these bodies.          *)
(*                                                                         *)
(* A body is a sequence of bytes 0..255 and offsets into it are 0-based   *)
(* as in the C code.  A get_* past the end of the body reads the receive  *)
(* buffer behind it, which the model does not follow: it reads Uninit.    *)
(* A C string is a byte sequence; a pointer argument that may be NULL is  *)
(* a set: NULL is {}, a string s is {s}.                                  *)
(***************************************************************************)
EXTENDS Integers, Sequences, Buffer

\* mqtt.h: packet types, sizes and flag bits.
MQTT_CONNECT == 1
MQTT_CONNACK == 2
MQTT_PUBLISH == 3
MQTT_PUBACK == 4
MQTT_PUBREC == 5
MQTT_PUBREL == 6
MQTT_PUBCOMP == 7
MQTT_SUBSCRIBE == 8
MQTT_SUBACK == 9
MQTT_UNSUBSCRIBE == 10
MQTT_UNSUBACK == 11
MQTT_PINGREQ == 12
MQTT_PINGRESP == 13
MQTT_DISCONNECT == 14

MQTT_STR_LENGTH_SIZE == 2
MQTT_PACKET_ID_SIZE == 2
MQTT_CONNECT_VARIABLE_HEADER_SIZE == 10
MQTT_PROTOCOL_NAME == <<77, 81, 84, 84>>        \* "MQTT"
MQTT_PROTOCOL_LEVEL == 4
MQTT_CONNECT_CLEAN_SESSION == 2
MQTT_CONNECT_WILL_FLAG == 4
MQTT_CONNECT_WILL_RETAIN == 32
MQTT_CONNECT_PASSWORD == 64
MQTT_CONNECT_USER_NAME == 128
MQTT_CONNACK_SESSION_PRESENT_FLAG == 1
MQTT_RETAIN_FLAG == 1
MQTT_DUP_FLAG == 8
MQTT_QOS_0 == 0
MQTT_QOS_1 == 1

\* (flags & bit) for a single-bit mask, and the two-bit QoS fields.
HasFlag(flags, bit) == (flags \div bit) % 2 = 1
FlagIf(cond, bit) == IF cond THEN bit ELSE 0
MQTT_QOS_TO_FLAGS(qos) == (qos % 4) * 2
MQTT_QOS_FROM_FLAGS(flags) == (flags \div 2) % 4
WillQosToFlags(qos) == (qos % 4) * 8            \* (qos << 3) & 0x18
WillQosFromFlags(flags) == (flags % 32) \div 8  \* (flags & 0x18) >> 3

NULL == {}
Deref(ptr) == CHOOSE s \in ptr : TRUE

-----------------------------------------------------------------------------
(* Formatting.  Every mqtt_put_* writes at the offset and returns the     *)
(* number of bytes it wrote; the model returns the bytes.  unsigned short *)
(* parameters truncate their argument to 16 bits.                         *)

U16(n) == n % 65536

PutByte(v) == <<v % 256>>

\* Mutant: the short written low byte first.
PutShortLittleEndian(v) == <<U16(v) % 256, U16(v) \div 256>>

\* mqtt_put_short: big-endian.
PutShort(v) == <<U16(v) \div 256, U16(v) % 256>>

\* mqtt_put_data: memcpy of data_len bytes; past the end of the source
\* it copies whatever follows it.
PutData(data, len) ==
    [i \in 1..U16(len) |-> IF i <= Len(data) THEN data[i] ELSE Uninit]

\* mqtt_put_string: strlen as a short, then the characters.
PutString(s) == PutShort(Len(s)) \o PutData(s, Len(s))

\* A field written only when its pointer is not NULL.
PutOptString(ptr) == IF ptr = NULL THEN <<>> ELSE PutString(Deref(ptr))
PutOptData(ptr, len) ==
    IF ptr = NULL THEN <<>> ELSE PutShort(len) \o PutData(Deref(ptr), len)

-----------------------------------------------------------------------------
(* Parsing.  get_byte, get_short and get_string read at an offset; a      *)
(* parser is a list of such reads, each at the offset the previous one    *)
(* returned.  None of them checks the length of the body.                 *)

ByteAt(body, off) == IF off + 1 \in 1..Len(body) THEN body[off + 1] ELSE Uninit

GetShort(body, off) == ByteAt(body, off) * 256 + ByteAt(body, off + 1)

GetData(body, off, len) == [i \in 1..len |-> ByteAt(body, off + i - 1)]

\* One read: the value and the number of bytes it advanced.
GetField(body, off, kind) ==
    CASE kind = "byte"   -> [v |-> ByteAt(body, off), n |-> 1]
      [] kind = "short"  -> [v |-> GetShort(body, off), n |-> 2]
      [] kind = "string" -> [v |-> GetData(body, off + 2, GetShort(body, off)),
                             n |-> 2 + GetShort(body, off)]

\* The reads of kinds in order from offset off: their values and the
\* offset after the last one.
RECURSIVE GetFields(_, _, _)
GetFields(body, off, kinds) ==
    IF kinds = <<>> THEN [vals |-> <<>>, off |-> off]
    ELSE LET f == GetField(body, off, Head(kinds))
             r == GetFields(body, off + f.n, Tail(kinds))
         IN [vals |-> <<f.v>> \o r.vals, off |-> r.off]

\* The reads of kinds when cond holds, none otherwise; a field read is a
\* one-element set, a field left unassigned the empty set.
OptFields(body, off, cond, kinds) ==
    IF cond THEN GetFields(body, off, kinds) ELSE [vals |-> <<>>, off |-> off]
Opt(r, i) == IF i \in DOMAIN r.vals THEN {r.vals[i]} ELSE NULL

-----------------------------------------------------------------------------
(* The packet bodies, one per packet type.  A packet p is the arguments   *)
(* of the stream_mqtt_* call that sends it, with its type.                *)

\* mqtt_format_var_header_id / stream_mqtt_write_frame_packet_id
FormatVarHeaderId(id) == PutShort(id)

\* mqtt_parse_var_header_id
ParseVarHeaderId(body) == [id |-> GetShort(body, 0)]

\* mqtt_eval_connect: a will message or a password counts only when its
\* length is not 0.
EvalConnect(p) ==
    MQTT_CONNECT_VARIABLE_HEADER_SIZE
      + MQTT_STR_LENGTH_SIZE + Len(p.client_id)
      + (IF p.will_topic = NULL THEN 0
         ELSE MQTT_STR_LENGTH_SIZE + Len(Deref(p.will_topic)))
      + (IF p.will_msg_len > 0 THEN MQTT_STR_LENGTH_SIZE + p.will_msg_len ELSE 0)
      + (IF p.user_name = NULL THEN 0
         ELSE MQTT_STR_LENGTH_SIZE + Len(Deref(p.user_name)))
      + (IF p.password_len > 0 THEN MQTT_STR_LENGTH_SIZE + p.password_len ELSE 0)

\* The connect flags of mqtt_format_connect: the will only with both a
\* topic and a message.
ConnectFlags(p) ==
    LET will == p.will_topic # NULL /\ p.will_msg # NULL IN
    FlagIf(p.clean_session, MQTT_CONNECT_CLEAN_SESSION)
      + FlagIf(will, MQTT_CONNECT_WILL_FLAG + WillQosToFlags(p.will_qos)
                       + FlagIf(p.will_retain, MQTT_CONNECT_WILL_RETAIN))
      + FlagIf(p.password # NULL, MQTT_CONNECT_PASSWORD)
      + FlagIf(p.user_name # NULL, MQTT_CONNECT_USER_NAME)

\* mqtt_format_connect: every optional field goes by its own pointer.
FormatConnect(p) ==
    PutString(MQTT_PROTOCOL_NAME) \o PutByte(MQTT_PROTOCOL_LEVEL)
      \o PutByte(ConnectFlags(p)) \o PutShort(p.keep_alive)
      \o PutString(p.client_id) \o PutOptString(p.will_topic)
      \o PutOptData(p.will_msg, p.will_msg_len) \o PutOptString(p.user_name)
      \o PutOptData(p.password, p.password_len)

\* mqtt_parse_connect given the fixed part (name, level, flags, keep
\* alive, client id) already read.
ConnectFields(body, head) ==
    LET flags == head.vals[3]
        will == OptFields(body, head.off, HasFlag(flags, MQTT_CONNECT_WILL_FLAG),
                          <<"string", "string">>)
        user == OptFields(body, will.off, HasFlag(flags, MQTT_CONNECT_USER_NAME),
                          <<"string">>)
        pass == OptFields(body, user.off, HasFlag(flags, MQTT_CONNECT_PASSWORD),
                          <<"string">>)
    IN [type |-> MQTT_CONNECT, protocol_name |-> head.vals[1],
        protocol_level |-> head.vals[2],
        clean_session |-> HasFlag(flags, MQTT_CONNECT_CLEAN_SESSION),
        will_retain |-> HasFlag(flags, MQTT_CONNECT_WILL_RETAIN),
        will_qos |-> WillQosFromFlags(flags), keep_alive |-> head.vals[4],
        client_id |-> head.vals[5], will_topic |-> Opt(will, 1),
        will_msg |-> Opt(will, 2), user_name |-> Opt(user, 1),
        password |-> Opt(pass, 1)]

\* mqtt_parse_connect
ParseConnect(body) ==
    ConnectFields(body, GetFields(body, 0, <<"string", "byte", "byte", "short", "string">>))

\* mqtt_format_connack / mqtt_parse_connack
FormatConnack(p) ==
    PutByte(FlagIf(p.session_present, MQTT_CONNACK_SESSION_PRESENT_FLAG))
      \o PutByte(p.return_code)
ParseConnack(body) ==
    [type |-> MQTT_CONNACK,
     session_present |-> HasFlag(ByteAt(body, 0), MQTT_CONNACK_SESSION_PRESENT_FLAG),
     return_code |-> ByteAt(body, 1)]

\* The flags of stream_mqtt_publish.
PublishFlags(p) ==
    MQTT_QOS_TO_FLAGS(p.qos) + FlagIf(p.retain, MQTT_RETAIN_FLAG)
      + FlagIf(p.dup, MQTT_DUP_FLAG)

\* mqtt_eval_publish / mqtt_format_publish: the payload length is a size_t
\* in eval and an unsigned short in put_data.
EvalPublish(p) ==
    MQTT_STR_LENGTH_SIZE + Len(p.topic)
      + (IF p.qos > MQTT_QOS_0 THEN MQTT_PACKET_ID_SIZE ELSE 0) + p.payload_len
FormatPublish(p) ==
    PutString(p.topic) \o (IF p.qos > MQTT_QOS_0 THEN PutShort(p.id) ELSE <<>>)
      \o PutData(p.payload, p.payload_len)

\* mqtt_parse_publish: the payload is the rest of the body, its length an
\* unsigned short; with flags, from which the handler takes the QoS.
ParsePublish(body, flags) ==
    LET qos == MQTT_QOS_FROM_FLAGS(flags)
        r == GetFields(body, 0, IF qos > MQTT_QOS_0 THEN <<"string", "short">>
                                                    ELSE <<"string">>)
    IN [type |-> MQTT_PUBLISH, retain |-> HasFlag(flags, MQTT_RETAIN_FLAG),
        dup |-> HasFlag(flags, MQTT_DUP_FLAG), qos |-> qos,
        topic |-> r.vals[1], id |-> Opt(r, 2),
        payload |-> GetData(body, r.off, U16(Len(body) - r.off))]

\* mqtt_eval_subscribe / format_subscribe / parse_subscribe
EvalSubscribe(p) == MQTT_PACKET_ID_SIZE + MQTT_STR_LENGTH_SIZE + Len(p.topic) + 1
FormatSubscribe(p) == PutShort(p.id) \o PutString(p.topic) \o PutByte(p.qos)
ParseSubscribe(body) ==
    LET r == GetFields(body, 0, <<"short", "string", "byte">>)
    IN [type |-> MQTT_SUBSCRIBE, id |-> r.vals[1], topic |-> r.vals[2], qos |-> r.vals[3]]

\* mqtt_format_suback / parse_suback
FormatSuback(p) == PutShort(p.id) \o PutByte(p.return_code)
ParseSuback(body) ==
    [type |-> MQTT_SUBACK, id |-> GetShort(body, 0), return_code |-> ByteAt(body, 2)]

\* mqtt_eval_unsubscribe / format_unsubscribe / parse_unsubscribe
EvalUnsubscribe(p) == MQTT_PACKET_ID_SIZE + MQTT_STR_LENGTH_SIZE + Len(p.topic)
FormatUnsubscribe(p) == PutShort(p.id) \o PutString(p.topic)
ParseUnsubscribe(body) ==
    LET r == GetFields(body, 0, <<"short", "string">>)
    IN [type |-> MQTT_UNSUBSCRIBE, id |-> r.vals[1], topic |-> r.vals[2]]

\* The packets that carry only a packet identifier, and those without a
\* body.
IdOnly == {MQTT_PUBACK, MQTT_PUBREC, MQTT_PUBREL, MQTT_PUBCOMP, MQTT_UNSUBACK}
NoBody == {MQTT_PINGREQ, MQTT_PINGRESP, MQTT_DISCONNECT}
====
