CONSTANTS
    Keys = {"k1"}
    Masks <- MasksMC
    Payloads <- PayloadsMC
    MaxFrames <- MaxFramesMC
    MaxChunk = 1
    ReadLens = {1, 8}
    ReadApi <- ReadApiMC
    FragmentWriters = {"client"}
    Prompt = TRUE
    LittleEndian = TRUE
    WS_KEEP_ALIVE_SERVER_TIMEOUT = 2
    WS_KEEP_ALIVE_CLIENT_TIMEOUT = 1
    Uris <- UrisMC
    ExtraHeaders <- ExtraHeadersMC
    Browsers <- BrowsersMC
    HandshakeKeys <- HandshakeKeysMC
    Messages <- MessagesMC
SPECIFICATION MCSpec
CHECK_DEADLOCK FALSE
INVARIANTS DataPreserved MessagesIntact KeepAliveHealthy FrameLengthsAgree ServerFindsKey ClientVerifiesAccept MsgRoundTrip
