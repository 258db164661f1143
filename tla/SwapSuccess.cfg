SPECIFICATION Spec
CONSTANTS
    TokenIds <- MCTokenIds
    TextOf <- MCTextOf
    CertifiedIds <- MCCertifiedIds
    TRC20Tokens <- MCTRC20Tokens
    Word = 16
    MaxPrintable = 10
    MaxVoteText = 6
    MaxSwapFee = 5
    LongNames <- MCLongNames
    ContactOf <- MCContactOf
    ServiceOf <- MCServiceOf
    KeyAddress <- MCKeyAddress
    Chunks <- SwapChunks
    TokenMeta = {}
    ExchangeMeta = {}
    Paths <- OnePath
    Digests = {}
    Peers <- NoPeers
    MessageLengths = {}
    ValidatedSwaps <- MCValidatedSwaps
    InSwap = TRUE
    Instructions = {"INS_SIGN"}
    SequentialHost = FALSE
    MaxHashed = 1
    MaxMessage = 2
INVARIANTS
    SwapSuccessIsSigned
CHECK_DEADLOCK FALSE
