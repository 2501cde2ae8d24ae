----------------------------- MODULE MCMqttStream -----------------------------
(* Model-checking instances of MqttStream.  Timeouts are scaled down       *)
(* keeping the code's proportions (keep-alive slack 15 s : resend 30 s);   *)
(* MQTT_RESEND_ATTEMPTS keeps its value 3.  Each request set is one        *)
(* application scenario of the client; ids are distinct as the client      *)
(* application's packet ids are.                                           *)
EXTENDS MqttStream

CONSTANTS m1, m2,
          MaxWire   \* bound on frames in flight in one direction (socket buffers)

Pub(qos, id, m) == [type |-> "PUBLISH", qos |-> qos, id |-> id, msg |-> m]
Req(type, id)   == [type |-> type, qos |-> 1, id |-> id, msg |-> NoMsg]

\* QoS 2 and QoS 1 publishing.
ReqsQoS == {Pub(2, 1, m1), Pub(1, 2, m2)}


\* A QoS 2 publish followed by a QoS 0 publish.
ReqsQoS0 == {Pub(2, 1, m1), Pub(0, 2, m2)}

\* One QoS 0 publish, a subscribe and an unsubscribe beside connection and
\* keep-alive.
ReqsPing == {Pub(0, 2, m2), Req("SUBSCRIBE", 3), Req("UNSUBSCRIBE", 4)}

WireBound == \A e \in Endpoint : Len(mqtt[e].out) <= MaxWire
==============================================================================
