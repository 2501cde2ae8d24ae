CONSTANTS
    Inputs <- EmptyFieldInputs
    MQTT_MESSAGE_BUFFER_SIZE = 4
    Schemes <- SchemesMC
    Userinfos <- UserinfosMC
    Hosts <- HostsMC
    Ports <- PortsMC
    Paths <- PathsMC
    Queries <- QueriesMC
SPECIFICATION MCSpec
INVARIANT PacketsRoundTrip
CHECK_DEADLOCK FALSE
