---------------------------- MODULE MqttContainers ----------------------------
(***************************************************************************)
(* The application records of source/mqtt.c: struct mqtt_msg and struct   *)
(* mqtt_conf with their initializers, constructors, cleaners, copy and    *)
(* move operators, over a heap of numbered blocks.  A pointer field is    *)
(* Null or a reference to a block with the value it holds.  A world is    *)
(* the records in two slots, the blocks allocated and not freed, the      *)
(* next block number, and the first fault: a double free or a NULL        *)
(* dereference.                                                            *)
(***************************************************************************)
EXTENDS Integers, Sequences, FiniteSets, MqttPacket

Slots == {"a", "b"}
Null == [null |-> TRUE]
Ref(w, k, v) == [null |-> FALSE, blk |-> w.next + k, val |-> v]
IsNull(p) == p.null

\* free(p); free(NULL) does nothing.
Free(w, p) ==
    CASE IsNull(p) -> w
      [] p.blk \notin w.live -> [w EXCEPT !.err = "double free"]
      [] OTHER -> [w EXCEPT !.live = @ \ {p.blk}]

\* Allocate the blocks w.next .. w.next + k - 1.
Alloc(w, k) == [w EXCEPT !.live = @ \cup {w.next + i : i \in 0..k - 1}, !.next = @ + k]

Fault(w, what) == IF w.err = "none" THEN [w EXCEPT !.err = what] ELSE w

-----------------------------------------------------------------------------
(* struct mqtt_msg                                                         *)

\* mqtt_msg_init
MqttMsgInit == [topic |-> Null, payload |-> Null, payload_len |-> 0,
                qos |-> MQTT_QOS_0, retain |-> FALSE]

\* mqtt_msg_clean: frees topic and payload; payload_len stays.
MqttMsgClean(w, s) ==
    LET m == w.obj[s]
        w1 == Free(Free(w, m.topic), m.payload)
    IN [w1 EXCEPT !.obj[s] = [m EXCEPT !.topic = Null, !.payload = Null]]

\* mqtt_msg_create into slot s: a new record with copies of topic and
\* payload (xstrdup, xmemdup).
MqttMsgCreate(w, s, topic, payload, qos, retain) ==
    [Alloc(w, 2) EXCEPT !.obj[s] = [topic |-> Ref(w, 0, topic),
                                     payload |-> Ref(w, 1, payload),
                                     payload_len |-> Len(payload),
                                     qos |-> qos, retain |-> retain]]

\* mqtt_msg_copy: xstrdup of a NULL topic dereferences it.
MqttMsgCopy(w, s, o) ==
    LET m == w.obj[o] IN
    IF IsNull(m.topic) THEN Fault(w, "null dereference")
    ELSE [Alloc(w, 2) EXCEPT
            !.obj[s] = [topic |-> Ref(w, 0, m.topic.val),
                        payload |-> Ref(w, 1, IF IsNull(m.payload) THEN <<>>
                                              ELSE m.payload.val),
                        payload_len |-> m.payload_len,
                        qos |-> m.qos, retain |-> m.retain]]

\* The move with the source's topic left in place.
MqttMsgMoveKeepTopic(w, s, o) ==
    LET m == w.obj[o] IN
    [w EXCEPT !.obj[s] = m,
              !.obj[o] = [m EXCEPT !.payload = Null, !.payload_len = 0]]

\* mqtt_msg_move: the pointers pass to s, the source is left empty.
MqttMsgMove(w, s, o) ==
    LET m == w.obj[o] IN
    [w EXCEPT !.obj[s] = m,
              !.obj[o] = [m EXCEPT !.topic = Null, !.payload = Null, !.payload_len = 0]]

-----------------------------------------------------------------------------
(* struct mqtt_conf                                                        *)

MQTT_DEFAULT_KEEP_ALIVE == 3 * 60

\* mqtt_conf_init
MqttConfInit == [client_id |-> Null, user_name |-> Null, password |-> Null,
                 password_len |-> 0, keep_alive |-> MQTT_DEFAULT_KEEP_ALIVE]

\* mqtt_conf_clean: frees the three strings; password_len stays.
MqttConfClean(w, s) ==
    LET c == w.obj[s]
        w1 == Free(Free(Free(w, c.client_id), c.user_name), c.password)
    IN [w1 EXCEPT !.obj[s] = [c EXCEPT !.client_id = Null, !.user_name = Null,
                                       !.password = Null]]

\* Copy the optional value v (a string, or "none" for NULL) into the k-th
\* fresh block, if given.
OptRef(w, k, v) == IF v = "none" THEN Null ELSE Ref(w, k, v)
Count(vs) == Cardinality({i \in DOMAIN vs : vs[i] # "none"})

\* mqtt_conf_create into slot s: client_id and user_name if given, the
\* password only if given and its length is not 0.
MqttConfCreate(w, s, id, keep, user, pw, pwlen) ==
    LET pass == IF pw # "none" /\ pwlen > 0 THEN pw ELSE "none"
    IN [Alloc(w, Count(<<id, user, pass>>)) EXCEPT
          !.obj[s] = [client_id |-> OptRef(w, 0, id),
                      user_name |-> OptRef(w, Count(<<id>>), user),
                      password |-> OptRef(w, Count(<<id, user>>), pass),
                      password_len |-> IF pass = "none" THEN 0 ELSE pwlen,
                      keep_alive |-> keep]]

\* The value a field points to, or "none".
Val(p) == IF IsNull(p) THEN "none" ELSE p.val

\* mqtt_conf_copy: each string copied if the source has it, the password
\* if it has one with a length; a field the source lacks keeps its value.
MqttConfCopy(w, s, o) ==
    LET c == w.obj[o]
        d == w.obj[s]
        id == Val(c.client_id)
        user == Val(c.user_name)
        pass == IF ~IsNull(c.password) /\ c.password_len > 0 THEN c.password.val ELSE "none"
    IN [Alloc(w, Count(<<id, user, pass>>)) EXCEPT
          !.obj[s] = [client_id |-> IF id = "none" THEN d.client_id ELSE Ref(w, 0, id),
                      user_name |-> IF user = "none" THEN d.user_name
                                    ELSE Ref(w, Count(<<id>>), user),
                      password |-> IF pass = "none" THEN d.password
                                   ELSE Ref(w, Count(<<id, user>>), pass),
                      password_len |-> IF pass = "none" THEN d.password_len
                                       ELSE c.password_len,
                      keep_alive |-> c.keep_alive]]

\* mqtt_conf_move: the pointers pass to s; the source's password_len is
\* not reset.
MqttConfMove(w, s, o) ==
    LET c == w.obj[o] IN
    [w EXCEPT !.obj[s] = c,
              !.obj[o] = [c EXCEPT !.client_id = Null, !.user_name = Null,
                                   !.password = Null]]

-----------------------------------------------------------------------------
(* Scripts of calls an application makes on two records of each kind.     *)

\* The calls.  A record is created, copied or moved into only when it owns
\* nothing (freshly initialized or cleaned), and a message is copied or
\* moved only from one holding a topic.
Calls ==
    {[op |-> "create", s |-> s, o |-> s] : s \in Slots}
    \cup {x \in [op : {"copy", "move"}, s : Slots, o : Slots] : x.s # x.o}
    \cup {[op |-> "clean", s |-> s, o |-> s] : s \in Slots}

MsgOwnsNothing(m) == IsNull(m.topic) /\ IsNull(m.payload)
ConfOwnsNothing(c) == IsNull(c.client_id) /\ IsNull(c.user_name) /\ IsNull(c.password)

MsgAllowed(w, c) ==
    /\ c.op \in {"create", "copy", "move"} => MsgOwnsNothing(w.obj[c.s])
    /\ c.op \in {"copy", "move"} => ~IsNull(w.obj[c.o].topic)
ConfAllowed(w, c) ==
    c.op \in {"create", "copy", "move"} => ConfOwnsNothing(w.obj[c.s])

\* The values a record holds.
MsgValues(m) == <<Val(m.topic), IF IsNull(m.payload) THEN <<>> ELSE m.payload.val,
                  m.payload_len, m.qos, m.retain>>
\* A configuration's password is the pair of pointer and length; a
\* length without a password is no password.
ConfValues(c) == <<Val(c.client_id), Val(c.user_name), Val(c.password),
                   IF IsNull(c.password) THEN 0 ELSE c.password_len, c.keep_alive>>

\* A world whose records are all cleaned has no fault and no block left.
Sound(w, Clean(_, _)) ==
    LET f == Clean(Clean(w, "a"), "b") IN
    w.err = "none" /\ f.err = "none" /\ f.live = {}

\* The message calls, with the create inputs of the script.
MsgApply(w, c, k) ==
    CASE c.op = "create" -> MqttMsgCreate(w, c.s, "t" , <<k>>, 1, FALSE)
      [] c.op = "copy" -> MqttMsgCopy(w, c.s, c.o)
      [] c.op = "move" -> MqttMsgMove(w, c.s, c.o)
      [] OTHER -> MqttMsgClean(w, c.s)

\* The configuration calls; creates alternate between a full one, one
\* with an empty password, and one with nothing but a keep-alive.
ConfApply(w, c, k) ==
    CASE c.op = "create" /\ k % 3 = 0 -> MqttConfCreate(w, c.s, "id", 10, "user", "pw", 2)
      [] c.op = "create" /\ k % 3 = 1 -> MqttConfCreate(w, c.s, "id", 20, "none", "pw", 0)
      [] c.op = "create" -> MqttConfCreate(w, c.s, "none", 30, "none", "none", 0)
      [] c.op = "copy" -> MqttConfCopy(w, c.s, c.o)
      [] c.op = "move" -> MqttConfMove(w, c.s, c.o)
      [] OTHER -> MqttConfClean(w, c.s)

RECURSIVE MsgScripts(_, _)
MsgScripts(w, n) ==
    /\ Sound(w, MqttMsgClean)
    /\ n > 0 => \A c \in Calls : MsgAllowed(w, c) =>
                  LET w2 == MsgApply(w, c, n) IN
                  /\ c.op \in {"copy", "move"} => MsgValues(w2.obj[c.s]) = MsgValues(w.obj[c.o])
                  /\ MsgScripts(w2, n - 1)

RECURSIVE ConfScripts(_, _)
ConfScripts(w, n) ==
    /\ Sound(w, MqttConfClean)
    /\ n > 0 => \A c \in Calls : ConfAllowed(w, c) =>
                  LET w2 == ConfApply(w, c, n) IN
                  /\ c.op \in {"copy", "move"} => ConfValues(w2.obj[c.s]) = ConfValues(w.obj[c.o])
                  /\ ConfScripts(w2, n - 1)

World(init) == [obj |-> [s \in Slots |-> init], live |-> {}, next |-> 1, err |-> "none"]

CallsPerScript == 4

\* The scripts of up to CallsPerScript calls on two records of a kind
\* ("msg" or "conf"), from initialized records.
ScriptsSound(kind) ==
    IF kind = "msg" THEN MsgScripts(World(MqttMsgInit), CallsPerScript)
    ELSE ConfScripts(World(MqttConfInit), CallsPerScript)
=============================================================================
