SPECIFICATION Spec
CONSTANTS
    TokenIds <- MCTokenIds
    TextOf <- MCTextOf
    CertifiedIds <- MCCertifiedIds
    TRC20Tokens <- MCTRC20Tokens
    Word = 16
    MaxPrintable = 10
    MaxVoteText = 6
    MaxSwapFee = 5
    LongNames <- MCLongNames
    ContactOf <- MCContactOf
    ServiceOf <- MCServiceOf
    KeyAddress <- MCKeyAddress
    Chunks <- ContractsChunks
    TokenMeta <- AllTokenMeta
    ExchangeMeta <- AllExchangeMeta
    Paths <- OnePath
    Digests = {}
    Peers <- NoPeers
    MessageLengths = {}
    ValidatedSwaps = {}
    InSwap = FALSE
    Instructions = {"INS_SIGN"}
    SequentialHost = FALSE
    MaxHashed = 1
    MaxMessage = 2
INVARIANTS
    ReviewShowsContract
    NamesAreCertified
    FieldsFit
VIEW View
