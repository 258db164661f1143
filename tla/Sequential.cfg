SPECIFICATION Spec
CONSTANTS
    TokenIds <- MCTokenIds
    TextOf <- MCTextOf
    CertifiedIds <- MCCertifiedIds
    TRC20Tokens <- MCTRC20Tokens
    Word = 16
    MaxPrintable = 10
    MaxVoteText = 6
    MaxSwapFee = 5
    LongNames <- MCLongNames
    ContactOf <- MCContactOf
    ServiceOf <- MCServiceOf
    KeyAddress <- MCKeyAddress
    Chunks <- SequentialChunks
    TokenMeta = {}
    ExchangeMeta = {}
    Paths <- MCPaths
    Digests = {"d1"}
    Peers <- MCPeers
    MessageLengths = {0, 1, 2}
    ValidatedSwaps = {}
    InSwap = FALSE
    Instructions = {"INS_GET_PUBLIC_KEY", "INS_SIGN", "INS_SIGN_TXN_HASH", "INS_GET_APP_CONFIGURATION",
        "INS_SIGN_PERSONAL_MESSAGE", "INS_GET_ECDH_SECRET", "INS_SIGN_TIP_712_MESSAGE", "other"}
    SequentialHost = TRUE
    MaxHashed = 2
    MaxMessage = 2
INVARIANTS
    SignedWithOpeningPath
    MessageComplete
PROPERTIES
    DataWarned
VIEW View
