CONSTANTS
    UseTls = TRUE
    Cap = 1
    MsgLen <- Msgs3
    HelloLen = 1
    FinLen = 2
    AllowFailure = TRUE
SPECIFICATION FairSpec
INVARIANTS TypeOK WritePreserved
PROPERTIES ImplementsByteStream
