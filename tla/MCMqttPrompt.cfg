CONSTANTS
    Client = Client
    Server = Server
    NoMsg = NoMsg
    m1 = m1
    m2 = m2
    MaxWire = 2
    MQTT_KEEP_ALIVE_TIMEOUT = 1
    MQTT_RESEND_ATTEMPTS = 3
    MQTT_RESEND_TIMEOUT = 2
    KeepAlive = 2
    MaxChunk = 2
    PromptDelivery = TRUE
    Requests <- ReqsPing
SPECIFICATION Spec
CONSTRAINT WireBound
INVARIANTS KeepAliveHealthy AcknowledgedDelivered
