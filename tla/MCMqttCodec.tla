---------------------------- MODULE MCMqttCodec ----------------------------
EXTENDS MqttCodec, Url, MqttContainers, Repeater, Observer, CString, Json

\* Frames as <<type and flags byte, body>>, formatted by FormatFrame.
\* Bodies that look like headers (48 = PUBLISH, 64 = PUBACK) and a length
\* byte with the continuation bit (129) make a misaligned parse visible.
F1 == <<48, <<129, 1>>>>
F2 == <<32, <<>>>>
F3 == <<48, <<64, 0>>>>
F4 == <<48, [i \in 1..128 |-> 0]>>          \* a two-byte remaining length
Bytes(fs) == FoldLeft(LAMBDA acc, f : acc \o FormatFrame(f[1], f[2]), <<>>, fs)

\* Strings: "t", "c1", "u", "p", "wm".
T == <<116>>
C == <<99, 49>>
U == <<117>>
PW == <<112>>
WM == <<119, 109>>

\* Calls of every stream_mqtt_* sender with conformant arguments: a
\* CONNECT with every optional field and one with none (its will QoS and
\* retain must then not reach the wire), publishes at QoS 2 and 0, a
\* packet identifier above 255, and every acknowledgement.
ConnectFull == [type |-> MQTT_CONNECT, clean_session |-> TRUE, keep_alive |-> 300,
                client_id |-> C, will_topic |-> {T}, will_msg |-> {WM},
                will_msg_len |-> 2, will_retain |-> TRUE, will_qos |-> 1,
                user_name |-> {U}, password |-> {PW}, password_len |-> 1]
ConnectBare == [type |-> MQTT_CONNECT, clean_session |-> FALSE, keep_alive |-> 0,
                client_id |-> <<>>, will_topic |-> NULL, will_msg |-> NULL,
                will_msg_len |-> 0, will_retain |-> TRUE, will_qos |-> 2,
                user_name |-> NULL, password |-> NULL, password_len |-> 0]
Publish(qos, id, payload) ==
    [type |-> MQTT_PUBLISH, retain |-> qos > 0, dup |-> qos > 0, qos |-> qos, id |-> id,
     topic |-> T, payload |-> payload, payload_len |-> Len(payload)]
Acks == <<[type |-> MQTT_CONNACK, session_present |-> TRUE, return_code |-> 0],
          [type |-> MQTT_PUBACK, id |-> 1], [type |-> MQTT_PUBREC, id |-> 258],
          [type |-> MQTT_PUBREL, id |-> 3], [type |-> MQTT_PUBCOMP, id |-> 4],
          [type |-> MQTT_SUBSCRIBE, id |-> 5, topic |-> T, qos |-> 2],
          [type |-> MQTT_SUBACK, id |-> 5, return_code |-> 1],
          [type |-> MQTT_UNSUBSCRIBE, id |-> 6, topic |-> T],
          [type |-> MQTT_UNSUBACK, id |-> 6], [type |-> MQTT_PINGREQ],
          [type |-> MQTT_PINGRESP], [type |-> MQTT_DISCONNECT]>>
\* The strings are non-empty: an empty password or will message is the
\* case of EmptyFieldInputs below.
PacketInputs == {<<ConnectFull, Publish(2, 258, <<1, 2>>), ConnectBare, Publish(0, 7, <<>>)>>,
                 Acks}

\* A conformant CONNECT whose password is present and empty (MQTT 3.1.1
\* 3.1.3.5 allows 0 bytes), followed by a PINGREQ.
ConnectEmptyPassword == [ConnectFull EXCEPT !.password = {<<>>}, !.password_len = 0]

\* What the peer sends for a sequence of calls.
Sent(ps) == [frames |-> [i \in DOMAIN ps |-> PacketFrame(ps[i])],
             bytes |-> FoldLeft(LAMBDA acc, p : acc \o PacketBytes(p), <<>>, ps),
             packets |-> ps]

\* Well-formed traffic.
GoodInputs == {[frames |-> <<F1, F2, F3>>, bytes |-> Bytes(<<F1, F2, F3>>), packets |-> <<>>],
               [frames |-> <<F4, F2>>, bytes |-> Bytes(<<F4, F2>>), packets |-> <<>>]}
              \cup {Sent(ps) : ps \in PacketInputs}

EmptyFieldInputs == {Sent(<<ConnectEmptyPassword, [type |-> MQTT_PINGREQ]>>)}

\* A header whose remaining length has four continuation bytes, then F2
\* and F3.
Malformed == <<48, 128, 128, 128, 128>>
BadInputs == {[frames |-> <<F2, F3>>, bytes |-> Malformed \o Bytes(<<F2, F3>>),
               packets |-> <<>>]}

-----------------------------------------------------------------------------
(* URLs an MQTT or WebSocket client is given: with or without each        *)
(* component, two schemes the table has (one whose name extends another's)*)
(* and one it lacks, and paths of none, one and two segments.             *)
SchemesMC == {Absent, Given(<<W("ws")>>), Given(<<W("mqtt"), W("s")>>),
              Given(<<W("http")>>)}
UserinfosMC == {Absent, Given(<<W("user")>>)}
HostsMC == {Absent, Given(<<W("host")>>)}
PortsMC == {Absent, Given(<<W("1000")>>)}
PathsMC == {Absent, Given(<<SLASH>>), Given(<<SLASH, W("a"), SLASH, W("b")>>)}
QueriesMC == {Absent, Given(<<W("q")>>)}

(* The scheme texts given to url_parse_scheme: every name of the table,   *)
(* the shorter of two names where the longer comes first in the table     *)
(* (mqtt after mqtts, ws after wss), and texts the table lacks: another    *)
(* word, the last letter of a name, and a name not at the start.  Texts   *)
(* that extend a name (mqttx) are left out: url.c:38 compares only         *)
(* strlen(name) bytes and takes them for that name, which is a divergence  *)
(* from section 4.11 this run does not check.  A name is one word here, so *)
(* a text that is a proper prefix of a name (mqt) is one more unknown word.*)
SchemeTextsMC ==
    {Given(t) : t \in {<<W("mqtt")>>, <<W("mqtt"), W("s")>>, <<W("ws")>>,
                       <<W("ws"), W("s")>>, <<W("http")>>, <<W("s")>>,
                       <<W("s"), W("ws")>>}}

-----------------------------------------------------------------------------
(* The URL parser and the containers are checked on their operators.      *)
(* Each input is held by probe in an initial state of its own that takes  *)
(* no step; the codec runs with probe = NoProbe.                          *)

VARIABLE probe

\* Calls per buffer script: appends and takes of one and two bytes.
BufferCalls == 5
\* Calls per repeater script, and the back-off inputs.
RepeaterCalls == 5
BackOffValues == 0..40
BackOffMaxima == {0, 5, 30}

\* Three observers, two on one object, and every query of object, type
\* (0 for any) and handler (NULL for any) on them; calls per script.
ObserversMC == [p \in {"o1", "o2", "o3"} |->
                  CASE p = "o1" -> ObserverCreate("objA", 1, "h1")
                    [] p = "o2" -> ObserverCreate("objA", 2, "h2")
                    [] OTHER -> ObserverCreate("objB", 1, "h1")]
ObserverQueries == [object : {"objA", "objB"}, type : 0..2, handler : {NullPtr, "h1", "h2"}]
ObserverCalls == 4

\* Strings to tokenize (up to four of a, ';' and '/'), strings to copy
\* (up to three of a and b, in buffers with junk after the NUL), and the
\* strings joined or tested against them.
Words(chars, n) == UNION {[1..k -> chars] : k \in 0..n}
TokTexts == Words({ChA, ChSemi, ChSlash}, 4)
CopySources == {w \o <<ChNul, ChJunk>> : w \in Words({ChA, ChB}, 3)}
CopyOthers == Words({ChA, ChB}, 2)
CopyMaxSize == 4

\* JSON values of three levels: scalars of every type (an int and a
\* double of one value, an empty string); arrays of up to two and objects
\* of keys k1, k2 over scalars; arrays of up to two and objects of key k1
\* over some of those.  Strings hold no NUL here.
JScalars == {JNull, JBool(TRUE), JInt(0), JInt(1), JDouble(0), JString(<<ChA>>), JString(<<>>)}
JItems == {JNull, JInt(0), JInt(1), JString(<<ChA>>)}
JMembers(vals, keys) == UNION {[ks -> vals] : ks \in SUBSET keys}
JLevel2 == {JArray(s) : s \in Words(JItems, 2)} \cup {JObject(f) : f \in JMembers(JItems, {"k1", "k2"})}
JInner == {JArray(<<>>), JArray(<<JInt(0)>>), JObject(<<>>), JObject([k \in {"k1"} |-> JInt(0)])}
JLevel3 == {JArray(s) : s \in Words(JInner, 2)} \cup {JObject(f) : f \in JMembers(JInner, {"k1"})}
JValues == JScalars \cup JLevel2 \cup JLevel3

NoProbe == [kind |-> "none"]
Probes == {NoProbe}
          \cup {[kind |-> "url", url |-> c] : c \in WellFormedComponents}
          \cup {[kind |-> "scheme", scheme |-> sc] : sc \in SchemeTextsMC}
          \cup {[kind |-> "scripts", of |-> k] : k \in {"msg", "conf"}}
          \cup {[kind |-> "buffer", calls |-> n] : n \in {BufferCalls}}
          \cup {[kind |-> "repeater", calls |-> n] : n \in {RepeaterCalls}}
          \cup {[kind |-> "observers", steps |-> n] : n \in {ObserverCalls}}
          \cup {[kind |-> "tokens", text |-> t] : t \in TokTexts}
          \cup {[kind |-> "copies", src |-> b] : b \in CopySources}
          \cup {[kind |-> "json", value |-> v] : v \in JValues}
          \cup {[kind |-> "backoff", val |-> v, max |-> m] : v \in BackOffValues, m \in BackOffMaxima}

MCInit == Init /\ probe \in Probes
MCNext == probe = NoProbe /\ Next /\ UNCHANGED probe
MCSpec == MCInit /\ [][MCNext]_<<vars, probe>>

\* url_parse gives back every component of a well-formed URL, and only
\* those: each present one as its text, each missing one as NULL.
UrlParsesPerSpec == probe.kind = "url" => ParsesBack(probe.url)

\* url_parse_scheme, given the scheme url_parse found, yields the port and
\* encryption section 4.11 gives that scheme, whatever the order of the
\* table, and refuses a scheme the table lacks, for every text of
\* SchemeTextsMC (a text extending a name, such as mqttx, excepted).
SchemesPerSpec == probe.kind = "scheme" => SchemeAsSpec(probe.scheme)

\* Every script of up to four calls on two messages, and on two
\* configurations, that keeps to the ownership rules runs without a
\* double free or a NULL dereference, leaves no block behind once both
\* records are cleaned, and a copy or move gives the target the values
\* the source held.
ContainersOwnership == probe.kind = "scripts" => ScriptsSound(probe.of)

\* Buffer conservation (spec.md 8, property 1): after any sequence of
\* buffer_append and buffer_take calls, the bytes taken, in order, are a
\* prefix of the bytes appended and the buffer holds the rest, through the
\* cuts, rewinds and reallocations those calls make; buffer_copy of the
\* buffer, into a fresh, a cleaned or a cut buffer, copies exactly them.
BufferTakeConserves ==
    probe.kind = "buffer" => TakeScripts(BufferInit(1), <<>>, <<>>, probe.calls)

\* The repeater's timer, kept by timer_start/timer_stop against clock_s
\* that clock_update advances, implements the abstract timer of module
\* Timer: over every script of repeater calls and clock updates of 400,
\* 700 and 1000 ms, clock_s counts the whole seconds of clock_ms (the
\* carry of clock_update), and repeater_is_waiting and timer_remaining
\* agree with the abstract timer started by the same wait, postpone or
\* back-off and elapsed one step per second.
RepeaterImplementsTimer == probe.kind = "repeater" => TimerScripts(RepeaterWorld, probe.calls)

\* repeater_back_off never shortens the timeout and, from a timeout below
\* max_timeout, never waits longer than max_timeout; from 0 without a
\* maximum, the timeouts it reaches with the smallest and the largest
\* rand() are the rows of the table in rand_time_increase's comment.  The
\* highest row holds for its first twelve entries: the code's thirteenth
\* is 764 + 383 + 191 = 1338, where the comment has 1238 (and 2167, the
\* step from 1238, after it).
BackOffPerComment ==
    /\ probe.kind = "backoff" => BackOffBounded(probe.val, probe.max)
    /\ probe.kind = "repeater" =>
          /\ Progress(0, Len(LowestProgress), FALSE) = LowestProgress
          /\ Progress(0, 12, TRUE) = SubSeq(HighestProgress, 1, 12)

\* observer_list_find_observer, over every sequence of up to four adds and
\* removes on a list of three observers, returns for each query the
\* observer added last of those in the list that match it (a type of 0
\* and a NULL handler matching any), and NULL only when none matches; and
\* observer_list_clean deletes exactly the observers in the list.
ObserverFindPerList ==
    probe.kind = "observers" =>
        FindScripts(ObserversMC, ObserverQueries, ObserverListInit,
                    [p \in DOMAIN ObserversMC |-> 0], 1, probe.steps)

\* xstrtok_next, called again and again with any of the separator lists
\* ";", "/;" and ";/" (the test's shortest-chunk search over several
\* separators), splits every text at the first separator of each call,
\* empty tokens included, gives the rest once no separator is left, and
\* NULL after that.
TokenizerSplits ==
    probe.kind = "tokens" => TokScripts(probe.text, XStrTokNew, probe.text, FALSE, Len(probe.text) + 2)

\* xstrlcpy, xstrncpy, xstrcpy, xstrjoin, xstrstarts and xstrends do what
\* their names promise at every size boundary: no write outside the
\* destination, truncation to size - 1, strlen returned, NUL padding.
StringCopiesBounded ==
    probe.kind = "copies" => CopiesAsSpecified(probe.src, CopyOthers, CopyMaxSize)

\* json_compare with JSON_COMPARE_FLAG_STRICT is equality of JSON values:
\* it accepts a value against a pattern exactly when the two are the same
\* value, whatever their nesting, member order or array lengths.
JsonStrictIsEquality ==
    probe.kind = "json" =>
        \A pat \in JValues : JsonCompare(probe.value, pat, 3) <=> probe.value = pat

\* Under every combination of flags, json_compare is a preorder: a value
\* matches itself, and a value that matches a pattern matching a second
\* pattern matches that one too (tests compare against patterns built
\* from patterns).
JsonMatchPreorder ==
    probe.kind = "json" =>
        \A flags \in JsonFlags :
            /\ JsonCompare(probe.value, probe.value, flags)
            /\ \A b, c \in JValues :
                  JsonCompare(probe.value, b, flags) /\ JsonCompare(b, c, flags)
                    => JsonCompare(probe.value, c, flags)

=============================================================================
