SPECIFICATION Spec
CONSTANTS
    TokenIds <- MCTokenIds
    TextOf <- MCTextOf
    CertifiedIds <- MCCertifiedIds
    TRC20Tokens <- MCTRC20Tokens
    Word = 16
    MaxPrintable = 10
    MaxVoteText = 6
    MaxSwapFee = 5
    LongNames <- MCLongNames
    ContactOf <- MCContactOf
    ServiceOf <- MCServiceOf
    KeyAddress <- MCKeyAddress
    Chunks <- SessionChunks
    TokenMeta = {}
    ExchangeMeta = {}
    Paths <- OnePath
    Digests = {}
    Peers <- NoPeers
    MessageLengths = {0, 1}
    ValidatedSwaps = {}
    InSwap = FALSE
    Instructions = {"INS_SIGN", "INS_SIGN_PERSONAL_MESSAGE", "INS_GET_PUBLIC_KEY"}
    SequentialHost = FALSE
    MaxHashed = 3
    MaxMessage = 1
INVARIANTS
    HashMatchesContent
    FinalisedOnce
    BlindSigningAllowed
VIEW View
