CONSTANTS
    Inputs <- GoodInputs
    MQTT_MESSAGE_BUFFER_SIZE = 3
    Schemes <- SchemesMC
    Userinfos <- UserinfosMC
    Hosts <- HostsMC
    Ports <- PortsMC
    Paths <- PathsMC
    Queries <- QueriesMC
SPECIFICATION MCSpec
INVARIANTS LengthCodecAgrees FramesRoundTrip BufferConservation PacketsRoundTrip UrlParsesPerSpec SchemesPerSpec ContainersOwnership BufferTakeConserves RepeaterImplementsTimer BackOffPerComment ObserverFindPerList TokenizerSplits StringCopiesBounded JsonStrictIsEquality JsonMatchPreorder
CHECK_DEADLOCK FALSE
