CONSTANTS
    Inputs <- BadInputs
    MQTT_MESSAGE_BUFFER_SIZE = 4
    Schemes <- SchemesMC
    Userinfos <- UserinfosMC
    Hosts <- HostsMC
    Ports <- PortsMC
    Paths <- PathsMC
    Queries <- QueriesMC
SPECIFICATION MCSpec
INVARIANT FramesAuthentic
CHECK_DEADLOCK FALSE
