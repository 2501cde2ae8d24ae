------------------------------ MODULE MqttStream ------------------------------
(***************************************************************************)
(* source/stream_mqtt.c: the MQTT stream decorator, two instances of it    *)
(* (a client and a server) joined by the decorated byte streams.           *)
(*                                                                         *)
(* Each endpoint's state is one record (struct stream_mqtt plus the status *)
(* of its struct stream).  Its field `out` is everything the endpoint has  *)
(* written with stream_do_write that the peer has not read yet: the        *)
(* decorated socket streams and TCP deliver bytes reliably and in order,   *)
(* so the whole path from one decorator to the other is one FIFO of        *)
(* frames.  A frame is a record; payloads and topics are model values.     *)
(*                                                                         *)
(* Operations of the code are operators on an endpoint record; actions     *)
(* apply them.  No observer is installed (stream_mqtt_set_observer), so    *)
(* every surfaced frame goes to the `incoming` queue and the application   *)
(* takes it with stream_mqtt_read_frame.                                   *)
(***************************************************************************)
EXTENDS Integers, Sequences, SequencesExt, FiniteSets, Timer

CONSTANTS
    Client, Server,           \* the two endpoints (model values)
    NoMsg,                    \* payload of frames that carry none
    MQTT_KEEP_ALIVE_TIMEOUT,  \* slack added to a peer's keep-alive (15 s)
    MQTT_RESEND_ATTEMPTS,     \* 3
    MQTT_RESEND_TIMEOUT,      \* 30 s
    KeepAlive,                \* keep_alive the client passes to stream_mqtt_connect
    Requests,                 \* PUBLISH/SUBSCRIBE/UNSUBSCRIBE calls of the client application
    MaxChunk,                 \* most frames one read of the decorated stream returns
    PromptDelivery            \* TRUE: frames, replies and do_time all happen
                              \* within the second they become due

Endpoint == {Client, Server}
Peer(e) == IF e = Client THEN Server ELSE Client

ACCEPTED == 0                 \* MQTT_CONNACK_ACCEPTED
REFUSED  == 5                 \* MQTT_CONNACK_REFUSED_NOT_AUTHORIZED
ReturnCodes == {ACCEPTED, REFUSED}

FrameTypes == {"CONNECT", "CONNACK", "PUBLISH", "PUBACK", "PUBREC", "PUBREL",
               "PUBCOMP", "SUBSCRIBE", "SUBACK", "UNSUBSCRIBE", "UNSUBACK",
               "PINGREQ", "PINGRESP", "DISCONNECT"}

\* A frame on the wire.  arg is keep_alive of CONNECT, return code of CONNACK.
Frame(type, qos, id, msg, arg) ==
    [type |-> type, qos |-> qos, id |-> id, msg |-> msg, arg |-> arg]

\* stream_mqtt_write_frame_packet_id / stream_mqtt_write_frame without body.
Ctl(type, id) == Frame(type, 0, id, NoMsg, 0)

\* struct mqtt_frame_item.  sent is a history field: how often the item's
\* frame has been written (saturates two above MQTT_RESEND_ATTEMPTS).
Item(frame, id, sent) == [frame |-> frame, id |-> id, sent |-> sent]

\* mqtt_request_type: the request an acknowledgement answers.
RequestType(ack) ==
    CASE ack = "SUBACK"   -> "SUBSCRIBE"
      [] ack = "UNSUBACK" -> "UNSUBSCRIBE"
      [] ack = "PUBACK"   -> "PUBLISH"
      [] ack = "PUBREC"   -> "PUBLISH"
      [] ack = "PUBCOMP"  -> "PUBREL"

AckTypes == {"SUBACK", "UNSUBACK", "PUBACK", "PUBREC", "PUBCOMP"}

VARIABLES
    mqtt,        \* mqtt[e]: the stream_mqtt of endpoint e
    delivered,   \* delivered[e]: frames the application took with read_frame (history)
    requested,   \* client requests issued so far, in order (history)
    toAnswer     \* requests the server application has read and not answered yet

vars == <<mqtt, delivered, requested, toAnswer>>

-----------------------------------------------------------------------------
(* Queue helpers of stream_mqtt.c                                          *)

\* stream_mqtt_real_write -> stream_do_write on the decorated stream.
Write(s, f) == [s EXCEPT !.out = Append(@, f)]

Matches(it, type, id) == it.frame.type = type /\ it.id = id

\* stream_mqtt_remove_frame: removes every item of that type and id.
RemoveFrame(q, type, id) == SelectSeq(q, LAMBDA it : ~Matches(it, type, id))

Found(q, type, id) == \E i \in 1..Len(q) : Matches(q[i], type, id)

\* Surface a frame to the application (no observer: append to incoming).
Surface(s, f) == [s EXCEPT !.incoming = Append(@, f)]

Bump(n) == IF n > MQTT_RESEND_ATTEMPTS + 1 THEN n ELSE n + 1

\* Write the head of outgoing again (counting the send).
SendHead(s) ==
    [Write(s, Head(s.outgoing).frame) EXCEPT !.outgoing[1].sent = Bump(@)]

-----------------------------------------------------------------------------
(* Initial state: stream_init(fd = -1) and stream_mqtt_init                *)

InitState ==
    [status         |-> "INIT",
     clientRole     |-> FALSE,
     incoming       |-> <<>>,
     outgoing       |-> <<>>,
     inbound        |-> <<>>,
     keepAlive      |-> 0,
     responded      |-> TRUE,
     kaTimer        |-> TimerStop,
     resendAttempts |-> 0,
     resendTimer    |-> TimerStop,
     out            |-> <<>>,
     dropped        |-> {}]       \* history: items abandoned by do_time

-----------------------------------------------------------------------------
(* Write path                                                              *)

\* stream_mqtt_connect
Connect(s, keepAlive) ==
    [Write(s, Frame("CONNECT", 0, 0, NoMsg, keepAlive))
        EXCEPT !.clientRole = TRUE, !.keepAlive = keepAlive]

\* stream_mqtt_connack
Connack(s, rc) ==
    LET s1 == IF rc = ACCEPTED THEN [s EXCEPT !.status = "READY"] ELSE s
    IN  Write(s1, Frame("CONNACK", 0, 0, NoMsg, rc))

\* stream_mqtt_publish(qos, id, payload): the packet id is on the wire only
\* when qos > 0; the queued item keeps the id it was called with.
Publish(s, r) ==
    LET f    == Frame("PUBLISH", r.qos, IF r.qos > 0 THEN r.id ELSE 0, r.msg, 0)
        sent == s.outgoing = <<>>
        s1   == IF sent /\ r.qos > 0
                THEN [Write(s, f) EXCEPT !.resendTimer = TimerStart(MQTT_RESEND_TIMEOUT),
                                         !.resendAttempts = 0]
                ELSE IF sent THEN Write(s, f) ELSE s
    IN  IF ~sent \/ r.qos > 0
        THEN [s1 EXCEPT !.outgoing = Append(@, Item(f, r.id, IF sent THEN 1 ELSE 0))]
        ELSE s1

\* Mutant: the request is retained only when it could not be sent at once.
SendRequestNotRetained(s, f) ==
    IF s.outgoing = <<>>
    THEN [Write(s, f) EXCEPT !.resendTimer = TimerStart(MQTT_RESEND_TIMEOUT),
                             !.resendAttempts = 0]
    ELSE [s EXCEPT !.outgoing = Append(@, Item(f, f.id, 0))]

\* stream_mqtt_subscribe / stream_mqtt_unsubscribe: sent at once only when
\* nothing is waiting for an acknowledgement, queued always.
SendRequest(s, f) ==
    LET sent == s.outgoing = <<>>
        s1   == IF sent
                THEN [Write(s, f) EXCEPT !.resendTimer = TimerStart(MQTT_RESEND_TIMEOUT),
                                         !.resendAttempts = 0]
                ELSE s
    IN  [s1 EXCEPT !.outgoing = Append(@, Item(f, f.id, IF sent THEN 1 ELSE 0))]

Subscribe(s, id)   == SendRequest(s, Frame("SUBSCRIBE", 1, id, NoMsg, 0))
Unsubscribe(s, id) == SendRequest(s, Frame("UNSUBSCRIBE", 1, id, NoMsg, 0))

\* stream_mqtt_pubrel: queued at the head of outgoing and written.
Pubrel(s, id) ==
    [Write(s, Ctl("PUBREL", id))
        EXCEPT !.outgoing = <<Item(Ctl("PUBREL", id), id, 1)>> \o @]

\* stream_mqtt_disconnect
Disconnect(s) == [Write(s, Ctl("DISCONNECT", 0)) EXCEPT !.status = "CLOSING"]

-----------------------------------------------------------------------------
(* Read path: stream_mqtt_handle_received_frame, one operator per case     *)

\* Mutant: the peer's keep-alive is used without the 15 s slack.
HandleConnectNoSlack(s, f) ==
    LET s1 == IF f.arg > 0
              THEN [s EXCEPT !.keepAlive = f.arg, !.kaTimer = TimerStart(f.arg)]
              ELSE s
    IN  Surface(s1, f)

HandleConnect(s, f) ==
    LET s1 == IF f.arg > 0
              THEN [s EXCEPT !.keepAlive = f.arg + MQTT_KEEP_ALIVE_TIMEOUT,
                             !.kaTimer   = TimerStart(f.arg + MQTT_KEEP_ALIVE_TIMEOUT)]
              ELSE s
    IN  Surface(s1, f)

HandleConnack(s, f) ==
    LET s1 == IF f.arg = ACCEPTED /\ s.keepAlive > 0
              THEN [s EXCEPT !.kaTimer = TimerStart(s.keepAlive), !.status = "READY"]
              ELSE s
    IN  Surface(s1, f)

\* Mutant: a QoS 1 PUBLISH is acknowledged but not surfaced.
HandlePublishQoS1Lost(s, f) ==
    IF f.qos = 2
    THEN [Write(s, Ctl("PUBREC", f.id))
            EXCEPT !.inbound = Append(RemoveFrame(@, "PUBLISH", f.id), Item(f, f.id, 0))]
    ELSE IF f.qos = 1 THEN Write(s, Ctl("PUBACK", f.id)) ELSE Surface(s, f)

HandlePublish(s, f) ==
    IF f.qos = 2
    THEN [Write(s, Ctl("PUBREC", f.id))
            EXCEPT !.inbound = Append(RemoveFrame(@, "PUBLISH", f.id), Item(f, f.id, 0))]
    ELSE Surface(IF f.qos = 1 THEN Write(s, Ctl("PUBACK", f.id)) ELSE s, f)

HandleAck(s, f) ==
    LET req == RequestType(f.type)
        s1  == [s EXCEPT !.outgoing    = RemoveFrame(@, req, f.id),
                         !.resendTimer = IF Found(s.outgoing, req, f.id) THEN TimerStop ELSE @]
    IN  CASE f.type = "PUBREC" ->
               [Pubrel(s1, f.id) EXCEPT !.resendTimer = TimerStart(MQTT_RESEND_TIMEOUT),
                                        !.resendAttempts = 0]
          [] f.type \in {"SUBACK", "UNSUBACK"} -> Surface(s1, f)
          [] OTHER -> s1

\* Mutant: the released PUBLISH is surfaced but left in inbound.
HandlePubrelKeepsHeld(s, f) ==
    LET held == SelectSeq(s.inbound, LAMBDA it : it.id = f.id)
    IN  [Write(s, Ctl("PUBCOMP", f.id))
            EXCEPT !.incoming = @ \o [i \in 1..Len(held) |-> held[i].frame]]

\* PUBREL: answer PUBCOMP, then surface the held QoS 2 PUBLISH with that id.
HandlePubrel(s, f) ==
    LET held == SelectSeq(s.inbound, LAMBDA it : it.id = f.id)
    IN  [Write(s, Ctl("PUBCOMP", f.id))
            EXCEPT !.inbound  = SelectSeq(@, LAMBDA it : it.id # f.id),
                   !.incoming = @ \o [i \in 1..Len(held) |-> held[i].frame]]

HandlePingreq(s) ==
    [Write(s, Ctl("PINGRESP", 0)) EXCEPT !.kaTimer = TimerStart(s.keepAlive)]

HandleReceivedFrame(s, f) ==
    CASE f.type = "CONNECT"  -> HandleConnect(s, f)
      [] f.type = "CONNACK"  -> HandleConnack(s, f)
      [] f.type = "PUBLISH"  -> HandlePublish(s, f)
      [] f.type \in AckTypes -> HandleAck(s, f)
      [] f.type = "PUBREL"   -> HandlePubrel(s, f)
      [] f.type = "PINGREQ"  -> HandlePingreq(s)
      [] f.type = "PINGRESP" -> [s EXCEPT !.responded = TRUE]
      [] f.type \in {"SUBSCRIBE", "UNSUBSCRIBE", "DISCONNECT"} -> Surface(s, f)

-----------------------------------------------------------------------------
(* Time: stream_mqtt_do_time                                               *)

KeepAliveTick(s) ==
    IF ~TimerExpired(s.kaTimer) THEN s
    ELSE IF s.clientRole /\ s.responded
         THEN [Write(s, Ctl("PINGREQ", 0))
                  EXCEPT !.responded = FALSE, !.kaTimer = TimerRestart(@)]
         ELSE [s EXCEPT !.status = "CLOSING"]   \* missing PING response / request

\* Mutant: abandoning the head does not reset resend_attempts.
ResendTickNoReset(s) ==
    IF ~(TimerExpired(s.resendTimer) /\ s.outgoing # <<>>) THEN s
    ELSE IF s.resendAttempts + 1 < MQTT_RESEND_ATTEMPTS
         THEN [SendHead(s) EXCEPT !.resendAttempts = @ + 1,
                                  !.resendTimer = TimerStart(MQTT_RESEND_TIMEOUT)]
         ELSE [s EXCEPT !.outgoing = Tail(@), !.resendTimer = TimerStop,
                        !.resendAttempts = @ + 1, !.dropped = @ \cup {Head(s.outgoing)}]

ResendTick(s) ==
    IF ~(TimerExpired(s.resendTimer) /\ s.outgoing # <<>>) THEN s
    ELSE IF s.resendAttempts + 1 < MQTT_RESEND_ATTEMPTS
         THEN [SendHead(s) EXCEPT !.resendAttempts = @ + 1,
                                  !.resendTimer = TimerStart(MQTT_RESEND_TIMEOUT)]
         ELSE [s EXCEPT !.outgoing = Tail(@), !.resendTimer = TimerStop,
                        !.resendAttempts = 0, !.dropped = @ \cup {Head(s.outgoing)}]

\* Mutant: do_time never sends a head that is not yet in flight.
SendNextTickMissing(s) == s

SendNextTick(s) ==
    IF ~TimerRunning(s.resendTimer) /\ s.outgoing # <<>>
    THEN [SendHead(s) EXCEPT !.resendTimer = TimerStart(MQTT_RESEND_TIMEOUT)]
    ELSE s

DoTime(s) == SendNextTick(ResendTick(KeepAliveTick(s)))

-----------------------------------------------------------------------------
(* Actions                                                                 *)

Live(e) == mqtt[e].status # "CLOSING"   \* the owner reaps CLOSING streams

Init ==
    /\ mqtt = [e \in Endpoint |-> InitState]
    /\ delivered = [e \in Endpoint |-> <<>>]
    /\ requested = <<>>
    /\ toAnswer = <<>>

\* Client application: stream_mqtt_connect, once.
ClientConnect ==
    /\ Live(Client) /\ ~mqtt[Client].clientRole
    /\ mqtt' = [mqtt EXCEPT ![Client] = Connect(@, KeepAlive)]
    /\ UNCHANGED <<delivered, requested, toAnswer>>

\* Client application: publish / subscribe / unsubscribe, each request once.
ClientRequest ==
    \E r \in Requests :
        /\ Live(Client)
        /\ ~Contains(requested, r)
        /\ mqtt' = [mqtt EXCEPT ![Client] =
                       CASE r.type = "PUBLISH"   -> Publish(@, r)
                         [] r.type = "SUBSCRIBE" -> Subscribe(@, r.id)
                         [] OTHER                -> Unsubscribe(@, r.id)]
        /\ requested' = Append(requested, r)
        /\ UNCHANGED <<delivered, toAnswer>>

\* Client application: stream_mqtt_disconnect.
ClientDisconnect ==
    /\ Live(Client)
    /\ mqtt' = [mqtt EXCEPT ![Client] = Disconnect(@)]
    /\ UNCHANGED <<delivered, requested, toAnswer>>

\* Server application answers a request it read: connack / suback / unsuback.
ServerAnswer ==
    /\ Live(Server) /\ toAnswer # <<>>
    /\ LET f == Head(toAnswer) IN
       \E rc \in ReturnCodes :
          mqtt' = [mqtt EXCEPT ![Server] =
                     CASE f.type = "CONNECT"   -> Connack(@, rc)
                       [] f.type = "SUBSCRIBE" -> Write(@, Ctl("SUBACK", f.id))
                       [] OTHER                -> Write(@, Ctl("UNSUBACK", f.id))]
    /\ toAnswer' = Tail(toAnswer)
    /\ UNCHANGED <<delivered, requested>>

\* stream_mqtt_peek_frame, one read of the decorated stream: only while
\* nothing waits in incoming; every complete frame of the chunk is handled.
Receive(e) ==
    LET p == Peer(e) IN
    /\ Live(e) /\ mqtt[e].incoming = <<>> /\ mqtt[p].out # <<>>
    /\ \E k \in 1..MaxChunk :
         /\ k <= Len(mqtt[p].out)
         /\ mqtt' = [mqtt EXCEPT
                       ![e] = FoldLeft(HandleReceivedFrame, @, SubSeq(mqtt[p].out, 1, k)),
                       ![p].out = SubSeq(@, k + 1, Len(@))]
    /\ UNCHANGED <<delivered, requested, toAnswer>>

\* stream_mqtt_read_frame: the application takes the head of incoming.
ReadFrame(e) ==
    /\ Live(e) /\ mqtt[e].incoming # <<>>
    /\ LET f == Head(mqtt[e].incoming) IN
       /\ mqtt' = [mqtt EXCEPT ![e].incoming = Tail(@)]
       /\ delivered' = [delivered EXCEPT ![e] = Append(@, f)]
       /\ toAnswer' = IF e = Server /\ f.type \in {"CONNECT", "SUBSCRIBE", "UNSUBSCRIBE"}
                      THEN Append(toAnswer, f) ELSE toAnswer
    /\ UNCHANGED requested

\* stream_time on the stream: stream_mqtt_do_time.
Time(e) ==
    /\ Live(e)
    /\ mqtt' = [mqtt EXCEPT ![e] = DoTime(@)]
    /\ UNCHANGED <<delivered, requested, toAnswer>>

\* stream_read / stream_write on an MQTT stream: rejected, stream closes.
RawAccess(e) ==
    /\ Live(e)
    /\ mqtt' = [mqtt EXCEPT ![e].status = "CLOSING"]
    /\ UNCHANGED <<delivered, requested, toAnswer>>

\* Nothing is due at endpoint e: nothing for it to read or hand to its
\* application, and stream_mqtt_do_time would change nothing.
Settled(e) ==
    ~Live(e) \/ (/\ mqtt[e].incoming = <<>> /\ mqtt[Peer(e)].out = <<>>
                /\ DoTime(mqtt[e]) = mqtt[e]
                /\ (e = Server => toAnswer = <<>>))

\* One second of the clock passes.  Under PromptDelivery only once both
\* endpoints have done what is due: delays of the network, the poller and
\* the server application stay below the clock's one-second resolution.
Tick ==
    /\ PromptDelivery => \A e \in Endpoint : Settled(e)
    /\ mqtt' = [e \in Endpoint |-> [mqtt[e] EXCEPT !.kaTimer = TimerElapse(@),
                                                   !.resendTimer = TimerElapse(@)]]
    /\ UNCHANGED <<delivered, requested, toAnswer>>

Next ==
    \/ ClientConnect \/ ClientRequest \/ ClientDisconnect \/ ServerAnswer
    \/ \E e \in Endpoint : Receive(e) \/ ReadFrame(e) \/ Time(e) \/ RawAccess(e)
    \/ Tick

Spec == Init /\ [][Next]_vars

\* The poller loop serves both endpoints again and again (idler_wait, then
\* for each stream read, write and stream_time), the server application
\* reads and answers what it is handed, TCP delivers what was written and
\* the clock advances.
Fairness ==
    /\ WF_vars(ServerAnswer) /\ WF_vars(Tick)
    /\ \A e \in Endpoint : WF_vars(Receive(e)) /\ WF_vars(ReadFrame(e)) /\ WF_vars(Time(e))

FairSpec == Spec /\ Fairness

-----------------------------------------------------------------------------
(* Properties                                                              *)

TypeOK ==
    /\ \A e \in Endpoint :
         /\ mqtt[e].status \in {"INIT", "READY", "CLOSING"}
         /\ mqtt[e].clientRole \in BOOLEAN /\ mqtt[e].responded \in BOOLEAN
         /\ mqtt[e].kaTimer \in TimerRec /\ mqtt[e].resendTimer \in TimerRec
         /\ mqtt[e].resendAttempts \in 0..MQTT_RESEND_ATTEMPTS
         /\ \A f \in ToSet(mqtt[e].out) \cup ToSet(mqtt[e].incoming) : f.type \in FrameTypes
    /\ Len(requested) <= Cardinality(Requests)

\* Every frame the application on endpoint e has been handed so far.
Surfaced(e) == delivered[e] \o mqtt[e].incoming

CountMsg(seq, m) == Len(SelectSeq(seq, LAMBDA f : f.type = "PUBLISH" /\ f.msg = m))

\* QoS 2 exactly-once, safety half: the server application is handed each
\* QoS 2 PUBLISH at most once, however often the client's resend logic
\* (do_time) repeats the PUBLISH or the PUBREL and however the server's
\* inbound queue (handle_received_frame, PUBLISH and PUBREL cases) holds it.
QoS2AtMostOnce ==
    \A r \in Requests : r.type = "PUBLISH" /\ r.qos = 2 => CountMsg(Surfaced(Server), r.msg) <= 1

\* QoS 0 is at most once: the server application is never handed the same
\* QoS 0 PUBLISH twice (stream_mqtt_publish queues a QoS 0 frame when
\* outgoing is not empty, and do_time resends the head of outgoing).
QoS0AtMostOnce ==
    \A r \in Requests : r.type = "PUBLISH" /\ r.qos = 0 => CountMsg(Surfaced(Server), r.msg) <= 1

\* Retransmission cap: a frame queued in outgoing is retransmitted at most
\* MQTT_RESEND_ATTEMPTS times, i.e. written at most MQTT_RESEND_ATTEMPTS + 1
\* times by publish/subscribe/pubrel (first send) and do_time (resends).
RetransmissionCap ==
    \A it \in ToSet(mqtt[Client].outgoing) \cup mqtt[Client].dropped :
        it.sent <= MQTT_RESEND_ATTEMPTS + 1

\* The server application has been handed the frame of request r.
HandedToServer(r) ==
    \E i \in 1..Len(Surfaced(Server)) :
        Surfaced(Server)[i].type = r.type /\ Surfaced(Server)[i].id = r.id

\* Request r is over at the client: issued, none of its frames (the
\* request itself or, for QoS 2, its PUBREL) is left in outgoing, and the
\* resend logic abandoned none of them.
Acknowledged(r) ==
    /\ Contains(requested, r)
    /\ \A it \in ToSet(mqtt[Client].outgoing) \cup mqtt[Client].dropped : it.id # r.id

\* At-least-once: a PUBLISH (QoS 1 or 2), SUBSCRIBE or UNSUBSCRIBE that the
\* client removed from outgoing on its acknowledgement (handle_received_frame,
\* PUBACK/PUBCOMP/SUBACK/UNSUBACK cases) has been handed to the server
\* application; for QoS 2 that takes the PUBREL to release it from inbound.
AcknowledgedDelivered ==
    \A r \in Requests : r.qos > 0 /\ Acknowledged(r) => HandedToServer(r)

\* Keep-alive without false alarms: while the client is READY and the
\* server is live, and every frame and do_time call is prompt, neither
\* endpoint's keep-alive timer is ever expired in a way that makes do_time
\* close the stream: the server's timer (keep_alive + 15 s from CONNECT,
\* restarted on PINGREQ) outlasts the client's PINGREQ period (keep_alive
\* from CONNACK), and a client's PINGREQ is answered before it expires again.
KeepAliveHealthy ==
    mqtt[Client].status = "READY" /\ Live(Server) =>
        /\ ~TimerExpired(mqtt[Server].kaTimer)
        /\ TimerExpired(mqtt[Client].kaTimer) => mqtt[Client].responded

\* A CONNACK with return code ACCEPTED makes the client's stream READY
\* (handle_received_frame, CONNACK case).
ConnackReady ==
    (\E i \in 1..Len(Surfaced(Client)) :
        Surfaced(Client)[i].type = "CONNACK" /\ Surfaced(Client)[i].arg = ACCEPTED)
    => mqtt[Client].status \in {"READY", "CLOSING"}

\* A frame do_time abandons has been written MQTT_RESEND_ATTEMPTS times
\* (resend_attempts counts the resends of the current head only).
NoEarlyAbandon ==
    \A it \in mqtt[Client].dropped : it.sent >= MQTT_RESEND_ATTEMPTS

\* Eventual delivery: a PUBLISH at QoS 1 or 2 the client application
\* issued is eventually handed to the server application unless one of
\* the streams closes.  do_time abandons a frame after its resends
\* (stream_mqtt.c:826), but over a connection that loses nothing every
\* abandoned PUBLISH or PUBREL was written at least once, and a late
\* PUBREC still releases the QoS 2 message through a new PUBREL.
PublishEventuallyHanded ==
    \A r \in Requests :
        r.type = "PUBLISH" /\ r.qos > 0 =>
            (Contains(requested, r) ~> (HandedToServer(r) \/ ~Live(Client) \/ ~Live(Server)))
==============================================================================
