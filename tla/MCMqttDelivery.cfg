CONSTANTS
    Client = Client
    Server = Server
    NoMsg = NoMsg
    m1 = m1
    m2 = m2
    MaxWire = 2
    MQTT_KEEP_ALIVE_TIMEOUT = 1
    MQTT_RESEND_ATTEMPTS = 3
    MQTT_RESEND_TIMEOUT = 1
    KeepAlive = 0
    MaxChunk = 2
    PromptDelivery = FALSE
    Requests <- ReqsQoS
SPECIFICATION FairSpec
CONSTRAINT WireBound
INVARIANTS TypeOK QoS2AtMostOnce AcknowledgedDelivered
PROPERTY PublishEventuallyHanded
