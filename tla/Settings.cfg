SPECIFICATION Spec
CONSTANTS
    TokenIds <- MCTokenIds
    TextOf <- MCTextOf
    CertifiedIds <- MCCertifiedIds
    TRC20Tokens <- MCTRC20Tokens
    Word = 16
    MaxPrintable = 10
    MaxVoteText = 6
    MaxSwapFee = 5
    LongNames <- MCLongNames
    ContactOf <- MCContactOf
    ServiceOf <- MCServiceOf
    KeyAddress <- MCKeyAddress
    Chunks <- DocumentChunks
    TokenMeta = {}
    ExchangeMeta = {}
    Paths <- OnePath
    Digests = {}
    Peers <- NoPeers
    MessageLengths = {1}
    ValidatedSwaps = {}
    InSwap = FALSE
    Instructions = {"INS_SIGN", "INS_SIGN_PERSONAL_MESSAGE"}
    SequentialHost = FALSE
    MaxHashed = 1
    MaxMessage = 2
INVARIANTS
    EitherSettingHolds
