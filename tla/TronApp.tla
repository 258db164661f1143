------------------------------- MODULE TronApp -------------------------------
(***************************************************************************)
(* The Tron app as a state machine: the command loop of src/app_main.c,    *)
(* the dispatcher and the handlers of src/handlers/, the callbacks of      *)
(* src/ui/ and the globals they share.                                     *)
(*                                                                         *)
(* One action is one APDU, one press of the user or one event of the       *)
(* operating system, run to completion: the app has a single thread.  A    *)
(* handler either answers at once or puts a review on the screen; the      *)
(* answer then comes from the review's callback.  The transport is half    *)
(* duplex (external): no APDU is received while an answer is due.          *)
(*                                                                         *)
(* Cryptography is abstract: a hash is the sequence of what was hashed, an *)
(* ECDSA signature is the pair of the key's path and the hash, and a       *)
(* derivation or signature may fail.                                       *)
(***************************************************************************)
EXTENDS TxReview

CONSTANTS
    Chunks,             \* INS_SIGN payloads (decoded) that the host may send
    TokenMeta,          \* TokenDetails payloads of P1_TRC10_NAME
    ExchangeMeta,       \* ExchangeDetails payloads of P1_TRC10_NAME
    Paths,              \* BIP32 paths under 44'/195'
    KeyAddress,         \* the address of the key at each path
    Digests,            \* 32-byte values given by the host
    Peers,              \* public keys given by the host: peer -> address
    MessageLengths,     \* announced lengths of personal messages
    ValidatedSwaps,     \* what Exchange may have validated
    InSwap,             \* G_called_from_swap
    Instructions,       \* the instructions that the host uses
    SequentialHost,     \* the host finishes or abandons a flow before the next
    MaxHashed,          \* bound: chunks hashed in one signing session
    MaxMessage          \* bound: bytes hashed for one personal message

\* "other" stands for an unknown instruction and for a malformed APDU.
AllInstructions ==
    { "INS_GET_PUBLIC_KEY", "INS_SIGN", "INS_SIGN_TXN_HASH", "INS_GET_APP_CONFIGURATION",
      "INS_SIGN_PERSONAL_MESSAGE", "INS_GET_ECDH_SECRET", "INS_SIGN_TIP_712_MESSAGE", "other" }

ASSUME TronAppAssumption ==
    /\ InSwap \in BOOLEAN
    /\ Instructions \subseteq AllInstructions
    /\ SequentialHost \in BOOLEAN
    /\ MaxHashed \in Nat
    /\ MaxMessage \in Nat
    /\ MessageLengths \subseteq Nat

\* What nanopb can decode, whatever the bytes: an int64 field holds an int64.
ASSUME ChunkAssumption ==
    \A k \in Chunks :
        /\ k.fee_limit \in Int64
        /\ HasContract(k) => {k.contract[1].m.amount, k.contract[1].m.callTokenValue} \subseteq Int64

\* A selector is read from data that is there.
ASSUME SelectorAssumption ==
    \A k \in Chunks : HasContract(k) =>
        LET m == k.contract[1].m IN m.data.present \/ TriggerMethod(m) = 0

\* A repeated field is a sequence; owner and witness are single fields.
ASSUME RepeatedAssumption ==
    \A k \in Chunks : HasContract(k) =>
        LET m == k.contract[1].m
            p == m.permissions
            entries == {p.owner, p.witness, p.actives}
        IN  /\ \A s \in {m.votes} \cup entries : s \in Seq(Range(s))
            /\ \A s \in entries : \A i \in DOMAIN s : s[i].keys \in Seq(Range(s[i].keys))
            /\ Len(p.owner) <= 1 /\ Len(p.witness) <= 1

\* The contacts and the known services are looked up for any address.
ASSUME AddressAssumption ==
    /\ DOMAIN ServiceOf = DOMAIN ContactOf
    /\ \A path \in Paths : KeyAddress[path] \in DOMAIN ContactOf
    /\ \A k \in Chunks : HasContract(k) =>
          LET m == k.contract[1].m
          IN  {m.owner, m.to, m.data.to} \subseteq DOMAIN ContactOf

\* Ledger signs metadata for TRC10 identifiers only (external).
ASSUME MetadataAssumption == \A d \in TokenMeta : d.id # "TRX"

VARIABLES
    settings,                   \* N_settings (NVRAM)
    txContext,                  \* initialized, and what sha2 has absorbed
    txContent,                  \* the parsed transaction
    msg,                        \* the decoded permissions in the global msg
    transactionContext,         \* path, hash and peer key to be used next
    personal_msg_ctx,           \* the Keccak context of a personal message
    messageSigningContext712,   \* path and hashes of a TIP-712 message
    publicKeyContext,           \* the key derived last
    contacts,                   \* g_recipient_contact, g_sender_contact, g_recipient_service
    review,                     \* what is on the screen, if not the home screen
    out,                        \* the last answer
    swap,                       \* swap globals, and whether the app still runs
    flow                        \* history: the flow the host is in

vars == <<settings, txContext, txContent, msg, transactionContext, personal_msg_ctx,
          messageSigningContext712, publicKeyContext, contacts, review, out, swap, flow>>

\* What a signing session is made of.
session == <<txContext, txContent, msg>>

Toggles == {"S_DATA_ALLOWED", "S_CUSTOM_CONTRACT", "S_SIGN_BY_HASH"}

OffSubtree == "outside 44'/195'"    \* well formed, refused for its prefix
Malformed == "malformed"            \* refused before anything is stored
NoPath == "no path"
PathArguments == Paths \cup {OffSubtree, Malformed}

\* A path under 44'/195' is neither of them.
ASSUME PathsAssumption == Paths \cap {OffSubtree, Malformed, NoPath} = {}

NoHash == <<"none">>
TxHash(chunks, again) == <<"tx", chunks, again>>
MessageHash(announced, got) == <<"message", announced, got>>
RawHash(d) == <<"raw", d>>
Tip712Hash(domain, message) == <<"tip712", domain, message>>

Nothing == <<"nothing">>
Signature(path, hash) == <<"signature", path, hash>>
Secret(path, peer) == <<"secret", path, peer>>
PublicKey(key) == <<"public key", key.path, key.getChaincode>>
Configuration(flags) == <<"configuration", flags>>

NoResponse == [sw |-> "none", what |-> Nothing]
NoReview == [state |-> "none", screens |-> <<>>, fields |-> <<>>]
EmptyChunk == [len |-> 0, ok |-> TRUE, fee_limit |-> 0, data |-> NoData, contract |-> <<>>]

\* terminate_signing_session and initTx.  Two history fields: final tells that
\* sha2 was finalised, opened is the path of the command that opened the session.
NoContext == [initialized |-> FALSE, sha2 |-> <<>>, final |-> FALSE, opened |-> NoPath]
FreshContext(path) == [initialized |-> TRUE, sha2 |-> <<>>, final |-> FALSE, opened |-> path]
NoMessage == [initialized |-> FALSE, announced |-> 0, got |-> 0]

NoKey == [path |-> NoPath, getChaincode |-> FALSE]
NoTransaction == [path |-> NoPath, hash |-> NoHash, peer |-> NoPath]
No712 == [path |-> NoPath, domain |-> NoPath, message |-> NoPath]
NoSwap == [initialized |-> FALSE, amount |-> 0, decimals |-> 0, ticker |-> "", recipient |-> ZeroAddress]

-----------------------------------------------------------------------------
(* Receiving and answering.                                                *)

Running == swap.status = "running"
Idle == Running /\ review = NoReview

\* A continuation (P1_MORE, P1_LAST, P1_TRC10_NAME) from a sequential host
\* belongs to the flow it is in.
HostContinues(f) == SequentialHost => flow = f

\* Mutant: the contacts of an earlier command survive.
dispatched_kept(c) == c

\* Every command of the right class starts without resolved contacts.
dispatched(c) == NoContacts

\* Mutant: an answer never ends the app.
Answer_stays(sw, what, ready) ==
    /\ out' = [sw |-> sw, what |-> what]
    /\ swap' = [swap EXCEPT
                    !.ready = ready,
                    !.signatures = IF InSwap /\ what[1] = "signature" THEN @ + 1 ELSE @]

\* io_send_sw, io_send_response_pointer.  With G_swap_response_ready set, the
\* answer is the last thing the app does (external: the SDK then calls
\* swap_finalize_exchange_sign_transaction with the success of the answer).
\* signatures is history, kept in a swap only.
Answer(sw, what, ready) ==
    /\ out' = [sw |-> sw, what |-> what]
    /\ swap' = [swap EXCEPT
                    !.ready = ready,
                    !.status = IF ~ready THEN @
                               ELSE IF sw = "E_OK" THEN "success" ELSE "failure",
                    !.signatures = IF InSwap /\ what[1] = "signature" THEN @ + 1 ELSE @]

Send(sw, what) == Answer(sw, what, swap.ready)
SendSw(sw) == Send(sw, Nothing)

\* ux_flow_display: the warnings and the review, and no answer yet.
Display(state, b, isTrigger, data_warning, c) ==
    /\ review' = [state |-> state, screens |-> Screens(state, data_warning),
                  fields |-> prepareTxInfos(state, b, isTrigger, c)]
    /\ out' = NoResponse
    /\ UNCHANGED swap

\* Mutants: a truncated path is stored as it is; a path once stored is kept.
read_bip32_path_unchecked(path, argument) == argument
read_bip32_path_once(path, argument) == IF path \in Paths THEN path ELSE argument

\* read_bip32_path stores the indices before it checks the prefix.
read_bip32_path(path, argument) == IF argument = Malformed THEN path ELSE argument

PathAccepted(argument) == argument \in Paths

-----------------------------------------------------------------------------
(* INS_SIGN.                                                               *)

\* The sha2 context after a chunk, an empty chunk adding nothing.
absorb(context, chunk) ==
    IF chunk.len = 0 THEN context ELSE [context EXCEPT !.sha2 = Append(@, chunk)]

\* terminate_signing_session leaves msg alone.
Terminated == txContext' = NoContext /\ txContent' = ZeroContent

\* The end of handleSign, once the last chunk is in: finalise the hash, pass
\* the gates, show the review (or, in a swap, sign at once).
FinishSign(context, content, permissions, tc) ==
    LET hash == TxHash(context.sha2, context.final)
        verdict == ReviewVerdict(content, permissions, settings, InSwap)
        b == Buffers(content, permissions, hash)
        c == ResolveContacts(dispatched(contacts), content)
        refused == RefusedContacts(dispatched(contacts), content, settings, InSwap)
        isTrigger == content.contractType = "TRIGGERSMARTCONTRACT"
        state == ApprovalState(content)
    IN  /\ transactionContext' = [tc EXCEPT !.hash = hash]
        /\ msg' = permissions
        /\ \/ /\ verdict # Pass /\ verdict.ends
              /\ Terminated
              /\ contacts' = refused
              /\ Answer(verdict.sw, Nothing, InSwap)
              /\ review' = NoReview
           \/ /\ verdict # Pass /\ ~verdict.ends
              /\ txContext' = [context EXCEPT !.final = TRUE]
              /\ txContent' = content
              /\ contacts' = refused
              /\ Answer(verdict.sw, Nothing, InSwap)
              /\ review' = NoReview
           \/ /\ verdict = Pass /\ ~InSwap
              /\ txContext' = [context EXCEPT !.final = TRUE]
              /\ txContent' = content
              /\ contacts' = c
              /\ Display(state, b, isTrigger, content.dataBytes > 0, c)
           \/ /\ verdict = Pass /\ InSwap
              /\ Terminated
              /\ contacts' = c
              /\ review' = NoReview
              /\ \/ /\ SwapVerdict(content, b, swap.validated) = Pass
                    /\ PathAccepted(tc.path)
                    /\ Answer("E_OK", Signature(tc.path, hash), TRUE)
                 \/ /\ SwapVerdict(content, b, swap.validated) = Pass
                    /\ Answer("E_SECURITY_STATUS_NOT_SATISFIED", Nothing, TRUE)
                 \/ /\ SwapVerdict(content, b, swap.validated) # Pass
                    /\ Answer("E_SWAP_CHECKING_FAIL", Nothing, TRUE)

\* From "Context must be initialized first" on, for a payload of any P1.
SignChunk(p1, chunk, context, content, tc) ==
    LET status == processTxStatus(content, chunk, "S_DATA_ALLOWED" \in settings)
        more == /\ status = "USTREAM_PROCESSING"
                /\ p1 \notin {"P1_LAST", "P1_SIGN"}
    IN  /\ Len(absorb(context, chunk).sha2) <= MaxHashed
        /\ UNCHANGED <<personal_msg_ctx, messageSigningContext712, publicKeyContext>>
        /\ \/ /\ ~context.initialized
              /\ UNCHANGED <<session, transactionContext, review>>
              /\ contacts' = dispatched(contacts)
              /\ SendSw("E_INCORRECT_P1_P2")
              /\ flow' = "none"
           \/ /\ context.initialized /\ more
              /\ txContext' = absorb(context, chunk)
              /\ txContent' = processTxContent(content, chunk)
              /\ msg' = processTxMsg(msg, chunk)
              /\ transactionContext' = tc
              /\ contacts' = dispatched(contacts)
              /\ UNCHANGED review
              /\ Answer("E_OK", Nothing, InSwap)
              /\ flow' = "sign"
           \/ /\ context.initialized
              /\ status \in {"USTREAM_FAULT", "USTREAM_MISSING_SETTING_DATA_ALLOWED"}
              /\ txContext' = FreshContext(context.opened)
              /\ txContent' = ZeroContent
              /\ msg' = NoPermissions
              /\ transactionContext' = tc
              /\ contacts' = dispatched(contacts)
              /\ UNCHANGED review
              /\ Answer(IF status = "USTREAM_FAULT" THEN "E_INCORRECT_DATA"
                        ELSE IF InSwap THEN "E_SWAP_CHECKING_FAIL"
                        ELSE "E_MISSING_SETTING_DATA_ALLOWED", Nothing, InSwap)
              /\ flow' = "none"
           \/ /\ context.initialized
              /\ ~more /\ status \in {"USTREAM_PROCESSING", "USTREAM_FINISHED"}
              /\ FinishSign(absorb(context, chunk), processTxContent(content, chunk),
                            processTxMsg(msg, chunk), tc)
              /\ flow' = "none"

\* P1_FIRST and P1_SIGN.  A refused path leaves the session as it was, but not
\* the path it will be signed with.
SignOpen(p1, argument, chunk) ==
    LET tc == [transactionContext EXCEPT !.path = read_bip32_path(@, argument)]
    IN  /\ Idle
        /\ UNCHANGED settings
        /\ \/ /\ ~PathAccepted(argument)
              /\ chunk = EmptyChunk
              /\ transactionContext' = tc
              /\ contacts' = dispatched(contacts)
              /\ SendSw("E_INCORRECT_BIP32_PATH")
              /\ flow' = "none"
              /\ UNCHANGED <<session, personal_msg_ctx, messageSigningContext712,
                             publicKeyContext, review>>
           \/ /\ PathAccepted(argument)
              /\ SignChunk(p1, chunk, FreshContext(argument), ZeroContent, tc)

\* P1_MORE and P1_LAST.
SignMore(p1, chunk) ==
    /\ Idle
    /\ HostContinues("sign")
    /\ UNCHANGED settings
    /\ SignChunk(p1, chunk, txContext, txContent, transactionContext)

NamedContracts == {"TRANSFERASSETCONTRACT", "EXCHANGECREATECONTRACT"}
PairedContracts == {"EXCHANGEINJECTCONTRACT", "EXCHANGEWITHDRAWCONTRACT",
                    "EXCHANGETRANSACTIONCONTRACT"}

\* A handler that answers and changes nothing else but what it names.
AnswerOnly(sw) ==
    /\ contacts' = dispatched(contacts)
    /\ SendSw(sw)
    /\ UNCHANGED <<settings, personal_msg_ctx, messageSigningContext712, review>>

\* P1_TRC10_NAME with a TokenDetails payload d for slot 0 or 1 (1 or 2 here).
\* The last one goes on as an empty chunk would.
SignTokenName(slot, last, d) ==
    LET r == parseTokenName(txContent.tokens, slot, d)
        content == [txContent EXCEPT !.tokens = r.tokens]
    IN  /\ Idle
        /\ HostContinues("sign")
        /\ txContent.contractType \in NamedContracts
        /\ \/ /\ ~r.ok \/ ~last
              /\ txContent' = content
              /\ AnswerOnly(IF r.ok THEN "E_OK" ELSE "E_INCORRECT_DATA")
              /\ flow' = IF r.ok THEN "sign" ELSE "none"
              /\ UNCHANGED <<txContext, msg, transactionContext, publicKeyContext>>
           \/ /\ r.ok /\ last
              /\ UNCHANGED settings
              /\ SignChunk("P1_TRC10_NAME", EmptyChunk, txContext, content, transactionContext)

\* P1_TRC10_NAME with an ExchangeDetails payload d, always the last.
SignExchange(d) ==
    LET r == parseExchange(txContent, d)
        content == [txContent EXCEPT !.tokens = r.tokens]
    IN  /\ Idle
        /\ HostContinues("sign")
        /\ txContent.contractType \in PairedContracts
        /\ \/ /\ ~r.ok
              /\ txContent' = content
              /\ AnswerOnly("E_INCORRECT_DATA")
              /\ flow' = "none"
              /\ UNCHANGED <<txContext, msg, transactionContext, publicKeyContext>>
           \/ /\ r.ok
              /\ UNCHANGED settings
              /\ SignChunk("P1_TRC10_NAME", EmptyChunk, txContext, content, transactionContext)

\* P2 # 0, an unknown P1, a slot out of range, metadata for another contract.
SignRefused ==
    /\ Idle
    /\ \/ AnswerOnly("E_INCORRECT_P1_P2")
       \/ /\ txContent.contractType \notin NamedContracts \cup PairedContracts
          /\ AnswerOnly("E_INCORRECT_DATA")
    /\ flow' = "none"
    /\ UNCHANGED <<session, transactionContext, publicKeyContext>>

-----------------------------------------------------------------------------
(* The other commands.  A swap refuses all of them but GET_PUBLIC_KEY.     *)

\* initPublicKeyContext: the operating system derives keys under 44'/195' only
\* (external), and any derivation may fail.
CanDerive(path) == PathAccepted(path)

\* The buffers of a review that signs with the key at path.
KeyBuffers(path) == [NoBuffers EXCEPT !.fromAddress = Address(KeyAddress[path])]

\* What no command but INS_SIGN touches, and an early return.
OutsideSign == UNCHANGED <<settings, txContext, msg>>
EarlyReturn(sw) ==
    /\ SendSw(sw)
    /\ flow' = "none"
    /\ UNCHANGED <<publicKeyContext, review>>

\* Mutant: the data that comes with the length is not hashed.
absorbMessage_late(ctx, size) == IF ctx.got = 0 THEN ctx ELSE [ctx EXCEPT !.got = @ + size]

\* The Keccak context after size more bytes of the message.
absorbMessage(ctx, size) == [ctx EXCEPT !.got = @ + size]

\* handleSignPersonalMessage from the check of P2 on.  left bytes are still due,
\* counted in the dataBytes that INS_SIGN uses for the custom data.
MessageData(path, ctx, left, size, p2) ==
    LET grown == absorbMessage(ctx, size)
        hash == MessageHash(grown.announced, grown.got)
        Keep(bytes, c, h) == /\ txContent' = [txContent EXCEPT !.dataBytes = bytes]
                             /\ personal_msg_ctx' = c
                             /\ transactionContext' = [transactionContext EXCEPT
                                                           !.path = path, !.hash = h]
    IN  /\ grown.got <= MaxMessage
        /\ \/ /\ p2 # 0
              /\ Keep(left, ctx, transactionContext.hash)
              /\ EarlyReturn("E_INCORRECT_P1_P2")
           \/ /\ p2 = 0 /\ size > left
              /\ Keep(left, NoMessage, transactionContext.hash)
              /\ EarlyReturn("E_INCORRECT_LENGTH")
           \/ /\ p2 = 0 /\ size < left
              /\ Keep(left - size, grown, transactionContext.hash)
              /\ SendSw("E_OK")
              /\ flow' = "message"
              /\ UNCHANGED <<publicKeyContext, review>>
           \/ /\ p2 = 0 /\ size = left
              /\ Keep(0, NoMessage, hash)
              /\ EarlyReturn("E_SECURITY_STATUS_NOT_SATISFIED")
           \/ /\ p2 = 0 /\ size = left /\ CanDerive(path)
              /\ Keep(0, NoMessage, hash)
              /\ publicKeyContext' = [publicKeyContext EXCEPT !.path = path]
              /\ Display("APPROVAL_SIGN_PERSONAL_MESSAGE",
                         [KeyBuffers(path) EXCEPT !.fullContract = Hash(hash)],
                         FALSE, FALSE, dispatched(contacts))
              /\ flow' = "none"

\* P1_FIRST and P1_SIGN; short: fewer than the four bytes of the length follow.
PersonalMessageFirst(argument, short, announced, size, p2) ==
    LET path == read_bip32_path(transactionContext.path, argument)
    IN  /\ Idle /\ ~InSwap
        /\ OutsideSign
        /\ contacts' = dispatched(contacts)
        /\ UNCHANGED messageSigningContext712
        /\ \/ /\ "S_SIGN_BY_HASH" \notin settings
              /\ EarlyReturn("E_MISSING_SETTING_SIGN_BY_HASH")
              /\ UNCHANGED <<txContent, transactionContext, personal_msg_ctx>>
           \/ /\ "S_SIGN_BY_HASH" \in settings /\ (short \/ ~PathAccepted(argument))
              /\ transactionContext' = [transactionContext EXCEPT !.path = path]
              /\ personal_msg_ctx' = NoMessage
              /\ UNCHANGED txContent
              /\ EarlyReturn(IF PathAccepted(argument) THEN "E_INCORRECT_LENGTH"
                             ELSE "E_INCORRECT_BIP32_PATH")
           \/ /\ "S_SIGN_BY_HASH" \in settings /\ ~short /\ PathAccepted(argument)
              /\ MessageData(path, [initialized |-> TRUE, announced |-> announced, got |-> 0],
                             announced, size, p2)

\* P1_MORE; any other P1 is refused as P1_MORE without a context is.
PersonalMessageMore(size, p2) ==
    /\ Idle /\ ~InSwap
    /\ HostContinues("message")
    /\ OutsideSign
    /\ contacts' = dispatched(contacts)
    /\ UNCHANGED messageSigningContext712
    /\ \/ /\ "S_SIGN_BY_HASH" \notin settings \/ ~personal_msg_ctx.initialized
          /\ EarlyReturn(IF "S_SIGN_BY_HASH" \in settings THEN "E_INCORRECT_P1_P2"
                         ELSE "E_MISSING_SETTING_SIGN_BY_HASH")
          /\ UNCHANGED <<txContent, transactionContext, personal_msg_ctx>>
       \/ /\ "S_SIGN_BY_HASH" \in settings /\ personal_msg_ctx.initialized
          /\ MessageData(transactionContext.path, personal_msg_ctx, txContent.dataBytes,
                         size, p2)

\* The setting is checked after P1 and P2 here, before them in the others.
handleSignByHash(argument, digest) ==
    LET path == read_bip32_path(transactionContext.path, argument)
    IN  /\ Idle /\ ~InSwap
        /\ OutsideSign
        /\ contacts' = dispatched(contacts)
        /\ UNCHANGED <<txContent, personal_msg_ctx, messageSigningContext712>>
        /\ \/ /\ EarlyReturn("E_INCORRECT_P1_P2")
              /\ UNCHANGED transactionContext
           \/ /\ "S_SIGN_BY_HASH" \notin settings
              /\ EarlyReturn("E_MISSING_SETTING_SIGN_BY_HASH")
              /\ UNCHANGED transactionContext
           \/ /\ "S_SIGN_BY_HASH" \in settings
              /\ transactionContext' = [transactionContext EXCEPT !.path = path]
              /\ \/ /\ ~PathAccepted(argument)
                    /\ EarlyReturn("E_INCORRECT_BIP32_PATH")
                 \/ /\ PathAccepted(argument)
                    /\ EarlyReturn("E_SECURITY_STATUS_NOT_SATISFIED")
                 \/ /\ PathAccepted(argument)
                    /\ publicKeyContext' = [publicKeyContext EXCEPT !.path = path]
                    /\ SendSw("E_INCORRECT_LENGTH")
                    /\ flow' = "none"
                    /\ UNCHANGED review
           \/ /\ "S_SIGN_BY_HASH" \in settings /\ CanDerive(argument)
              /\ transactionContext' = [transactionContext EXCEPT
                                            !.path = path, !.hash = RawHash(digest)]
              /\ publicKeyContext' = [publicKeyContext EXCEPT !.path = path]
              /\ Display("APPROVAL_SIMPLE_TRANSACTION",
                         [KeyBuffers(path) EXCEPT !.hash = Hash(RawHash(digest))],
                         FALSE, FALSE, dispatched(contacts))
              /\ flow' = "none"

\* The path is kept in messageSigningContext712, a truncated one as no path.
handleSignTIP712Message(argument, domain, message) ==
    LET path == IF argument = Malformed THEN NoPath ELSE argument
        c == [dispatched(contacts) EXCEPT !.sender = ContactOf[KeyAddress[path]]]
    IN  /\ Idle /\ ~InSwap
        /\ OutsideSign
        /\ UNCHANGED <<txContent, transactionContext, personal_msg_ctx>>
        /\ \/ /\ EarlyReturn(IF "S_SIGN_BY_HASH" \in settings THEN "E_INCORRECT_P1_P2"
                             ELSE "E_MISSING_SETTING_SIGN_BY_HASH")
              /\ contacts' = dispatched(contacts)
              /\ UNCHANGED messageSigningContext712
           \/ /\ "S_SIGN_BY_HASH" \in settings
              /\ messageSigningContext712' = [messageSigningContext712 EXCEPT !.path = path]
              /\ contacts' = dispatched(contacts)
              /\ EarlyReturn("E_INCORRECT_DATA")
           \/ /\ "S_SIGN_BY_HASH" \in settings /\ PathAccepted(argument)
              /\ messageSigningContext712' = [path |-> path, domain |-> domain, message |-> message]
              /\ contacts' = dispatched(contacts)
              /\ EarlyReturn("E_SECURITY_STATUS_NOT_SATISFIED")
           \/ /\ "S_SIGN_BY_HASH" \in settings /\ CanDerive(argument)
              /\ messageSigningContext712' = [path |-> path, domain |-> domain, message |-> message]
              /\ publicKeyContext' = [publicKeyContext EXCEPT !.path = path]
              /\ contacts' = c
              /\ Display("APPROVAL_SIGN_TIP72_TRANSACTION",
                         [KeyBuffers(path) EXCEPT !.amount = Hash(RawHash(domain)),
                                                  !.amount2 = Hash(RawHash(message))],
                         FALSE, FALSE, c)
              /\ flow' = "none"

handleECDHSecret(argument, peer) ==
    LET path == read_bip32_path(transactionContext.path, argument)
    IN  /\ Idle /\ ~InSwap
        /\ OutsideSign
        /\ contacts' = dispatched(contacts)
        /\ UNCHANGED <<txContent, personal_msg_ctx, messageSigningContext712>>
        /\ \/ /\ EarlyReturn("E_INCORRECT_P1_P2")
              /\ UNCHANGED transactionContext
           \/ /\ transactionContext' = [transactionContext EXCEPT !.path = path]
              /\ \/ /\ ~PathAccepted(argument)
                    /\ EarlyReturn("E_INCORRECT_BIP32_PATH")
                 \/ /\ PathAccepted(argument)
                    /\ \/ EarlyReturn("E_INCORRECT_LENGTH")
                       \/ EarlyReturn("E_SECURITY_STATUS_NOT_SATISFIED")
           \/ /\ CanDerive(argument)
              /\ transactionContext' = [transactionContext EXCEPT !.path = path, !.peer = peer]
              /\ publicKeyContext' = [publicKeyContext EXCEPT !.path = path]
              /\ Display("APPROVAL_SHARED_ECDH_SECRET",
                         [KeyBuffers(path) EXCEPT !.toAddress = Address(Peers[peer])],
                         FALSE, FALSE, dispatched(contacts))
              /\ flow' = "none"

\* Mutant: the check of G_called_from_swap is missing.
ScreenRefused_never == FALSE

\* Exchange has the screen in a swap.
ScreenRefused == InSwap

\* The path is local to the handler; the address review has no aliases.
handleGetPublicKey(confirm, chaincode, argument) ==
    LET key == [path |-> argument, getChaincode |-> chaincode]
        asked == [publicKeyContext EXCEPT !.getChaincode = chaincode]
    IN  /\ Idle
        /\ OutsideSign
        /\ contacts' = dispatched(contacts)
        /\ flow' = "none"
        /\ UNCHANGED <<txContent, transactionContext, personal_msg_ctx, messageSigningContext712>>
        /\ \/ /\ SendSw("E_INCORRECT_P1_P2")
              /\ UNCHANGED <<publicKeyContext, review>>
           \/ /\ ~PathAccepted(argument)
              /\ publicKeyContext' = asked
              /\ SendSw("E_INCORRECT_BIP32_PATH")
              /\ UNCHANGED review
           \/ /\ PathAccepted(argument)
              /\ publicKeyContext' = asked
              /\ SendSw("E_SECURITY_STATUS_NOT_SATISFIED")
              /\ UNCHANGED review
           \/ /\ CanDerive(argument) /\ ~confirm
              /\ publicKeyContext' = key
              /\ Send("E_OK", PublicKey(key))
              /\ UNCHANGED review
           \/ /\ CanDerive(argument) /\ confirm /\ ScreenRefused
              /\ publicKeyContext' = key
              /\ SendSw("E_SWAP_CHECKING_FAIL")
              /\ UNCHANGED review
           \/ /\ CanDerive(argument) /\ confirm /\ ~ScreenRefused
              /\ publicKeyContext' = key
              /\ review' = [state |-> "APPROVAL_VERIFY_ADDRESS", screens |-> <<"review">>,
                            fields |-> <<Plain("Address", Address(KeyAddress[argument]))>>]
              /\ out' = NoResponse
              /\ UNCHANGED swap

\* The wire layout keeps bit 2 reserved, so its bits are not those of N_settings.
ConfigurationBit == [S_DATA_ALLOWED |-> 0, S_CUSTOM_CONTRACT |-> 1, S_SIGN_BY_HASH |-> 3]

handleGetAppConfiguration ==
    /\ Idle /\ ~InSwap
    /\ contacts' = dispatched(contacts)
    /\ Send("E_OK", Configuration({ConfigurationBit[s] : s \in settings}))
    /\ UNCHANGED <<settings, session, transactionContext, personal_msg_ctx,
                   messageSigningContext712, publicKeyContext, review, flow>>

\* An unknown instruction, or in a swap any but GET_PUBLIC_KEY and SIGN.
RefusedInstruction ==
    /\ Idle
    /\ AnswerOnly(IF InSwap THEN "E_SWAP_CHECKING_FAIL" ELSE "E_INS_NOT_SUPPORTED")
    /\ flow' = "none"
    /\ UNCHANGED <<session, transactionContext, publicKeyContext>>

\* A wrong length or class is answered before the contacts are cleared.
RefusedApdu ==
    /\ Idle
    /\ \E sw \in {"E_WRONG_DATA_LENGTH", "E_CLA_NOT_SUPPORTED"} : SendSw(sw)
    /\ flow' = "none"
    /\ UNCHANGED <<settings, session, transactionContext, personal_msg_ctx,
                   messageSigningContext712, publicKeyContext, contacts, review>>

-----------------------------------------------------------------------------
(* The user.  review.screens are the screens still to go, the current one  *)
(* first; only the last one can approve.                                   *)

Reviewing == review # NoReview
LastScreen == Len(review.screens) = 1
ReviewOver == review' = NoReview /\ UNCHANGED transactionContext

\* What no callback touches.
CallbackFrame == UNCHANGED <<settings, msg, personal_msg_ctx, messageSigningContext712,
                             publicKeyContext, contacts, flow>>

ui_callback_tx_cancel ==
    /\ SendSw("E_CONDITIONS_OF_USE_NOT_SATISFIED")
    /\ Terminated

\* Mutant: the choice on a warning puts the warning back behind the next screen.
AcceptWarning_again ==
    /\ Reviewing /\ Len(review.screens) > 1
    /\ review' = [review EXCEPT !.screens = Tail(@) \o <<Head(@)>>]
    /\ CallbackFrame
    /\ UNCHANGED <<txContext, txContent, transactionContext, out, swap>>

\* dataWarningChoice and customContractWarningChoice, accepting.
AcceptWarning ==
    /\ Reviewing /\ ~LastScreen
    /\ review' = [review EXCEPT !.screens = Tail(@)]
    /\ CallbackFrame
    /\ UNCHANGED <<txContext, txContent, transactionContext, out, swap>>

\* Rejecting a warning, a review or an address.  Only TIP-712 keeps the session.
Reject ==
    /\ Reviewing
    /\ ReviewOver
    /\ CallbackFrame
    /\ IF review.state = "APPROVAL_SIGN_TIP72_TRANSACTION"
       THEN /\ SendSw("E_CONDITIONS_OF_USE_NOT_SATISFIED")
            /\ UNCHANGED <<txContext, txContent>>
       ELSE ui_callback_tx_cancel

\* signTransaction on the path and the hash in transactionContext.
SignTransaction ==
    \/ /\ CanDerive(transactionContext.path)
       /\ Send("E_OK", Signature(transactionContext.path, transactionContext.hash))
    \/ SendSw("E_SECURITY_STATUS_NOT_SATISFIED")

ui_callback_tx_ok ==
    /\ review.state \notin {"APPROVAL_SIGN_PERSONAL_MESSAGE", "APPROVAL_SHARED_ECDH_SECRET",
                            "APPROVAL_SIGN_TIP72_TRANSACTION", "APPROVAL_VERIFY_ADDRESS"}
    /\ SignTransaction
    /\ Terminated

ui_callback_signMessage_ok ==
    /\ review.state = "APPROVAL_SIGN_PERSONAL_MESSAGE"
    /\ SignTransaction
    /\ UNCHANGED <<txContext, txContent>>

\* Mutant: a failure is not answered.
ui_callback_ecdh_ok_silent ==
    /\ review.state = "APPROVAL_SHARED_ECDH_SECRET"
    /\ \/ Send("E_OK", Secret(transactionContext.path, transactionContext.peer))
       \/ UNCHANGED <<out, swap>>
    /\ UNCHANGED <<txContext, txContent>>

ui_callback_ecdh_ok ==
    /\ review.state = "APPROVAL_SHARED_ECDH_SECRET"
    /\ \/ Send("E_OK", Secret(transactionContext.path, transactionContext.peer))
       \/ SendSw("E_SECURITY_STATUS_NOT_SATISFIED")
    /\ UNCHANGED <<txContext, txContent>>

\* Mutant: the path of the last transaction command is used.
ui_callback_signMessage712_v0_ok_path ==
    LET c == messageSigningContext712
    IN  /\ review.state = "APPROVAL_SIGN_TIP72_TRANSACTION"
        /\ Send("E_OK", Signature(transactionContext.path, Tip712Hash(c.domain, c.message)))
        /\ UNCHANGED <<txContext, txContent>>

\* A failure of the hash is not answered at all.
ui_callback_signMessage712_v0_ok ==
    LET c == messageSigningContext712
    IN  /\ review.state = "APPROVAL_SIGN_TIP72_TRANSACTION"
        /\ \/ Send("E_OK", Signature(c.path, Tip712Hash(c.domain, c.message)))
           \/ SendSw("E_SECURITY_STATUS_NOT_SATISFIED")
           \/ UNCHANGED <<out, swap>>
        /\ UNCHANGED <<txContext, txContent>>

ui_callback_address_ok ==
    /\ review.state = "APPROVAL_VERIFY_ADDRESS"
    /\ Send("E_OK", PublicKey(publicKeyContext))
    /\ UNCHANGED <<txContext, txContent>>

\* reviewChoice and display_address_callback, confirming.
Approve ==
    /\ Reviewing /\ LastScreen
    /\ ReviewOver
    /\ CallbackFrame
    /\ \/ ui_callback_tx_ok
       \/ ui_callback_signMessage_ok
       \/ ui_callback_ecdh_ok
       \/ ui_callback_signMessage712_v0_ok
       \/ ui_callback_address_ok

\* settingsControlsCallback, from the home screen.
ToggleSetting(s) ==
    /\ Idle /\ ~InSwap
    /\ settings' = IF s \in settings THEN settings \ {s} ELSE settings \cup {s}
    /\ UNCHANGED <<session, transactionContext, personal_msg_ctx, messageSigningContext712,
                   publicKeyContext, contacts, review, out, swap, flow>>

-----------------------------------------------------------------------------
(* The operating system.                                                   *)

\* EXCEPTION_IO_RESET: the session ends, app_main starts again on the home
\* screen; the other globals keep their values.
IoReset ==
    /\ Running
    /\ Terminated
    /\ ReviewOver
    /\ out' = NoResponse
    /\ flow' = "none"
    /\ UNCHANGED <<settings, msg, personal_msg_ctx, messageSigningContext712,
                   publicKeyContext, contacts, swap>>

Init ==
    /\ settings \in SUBSET Toggles
    /\ txContext = NoContext
    /\ txContent = ZeroContent
    /\ msg = NoPermissions
    /\ transactionContext = NoTransaction
    /\ personal_msg_ctx = NoMessage
    /\ messageSigningContext712 = No712
    /\ publicKeyContext = NoKey
    /\ contacts = NoContacts
    /\ review = NoReview
    /\ out = NoResponse
    /\ \E v \in IF InSwap THEN ValidatedSwaps ELSE {NoSwap} :
          swap = [ready |-> FALSE, validated |-> v, status |-> "running", signatures |-> 0]
    /\ flow = "none"

\* onQuitCallback, then the app is started again.
Relaunch ==
    /\ Idle /\ ~InSwap
    /\ txContext' = NoContext
    /\ txContent' = ZeroContent
    /\ msg' = NoPermissions
    /\ transactionContext' = NoTransaction
    /\ personal_msg_ctx' = NoMessage
    /\ messageSigningContext712' = No712
    /\ publicKeyContext' = NoKey
    /\ contacts' = NoContacts
    /\ out' = NoResponse
    /\ flow' = "none"
    /\ UNCHANGED <<settings, review, swap>>

-----------------------------------------------------------------------------
SignCommand ==
    /\ "INS_SIGN" \in Instructions
    /\ \/ \E p1 \in {"P1_FIRST", "P1_SIGN"}, a \in PathArguments, k \in Chunks \cup {EmptyChunk} :
                SignOpen(p1, a, k)
       \/ \E p1 \in {"P1_MORE", "P1_LAST"}, k \in Chunks \cup {EmptyChunk} : SignMore(p1, k)
       \/ \E slot \in 1..2, last \in BOOLEAN, d \in TokenMeta : SignTokenName(slot, last, d)
       \/ \E d \in ExchangeMeta : SignExchange(d)
       \/ SignRefused

MessageCommand ==
    /\ "INS_SIGN_PERSONAL_MESSAGE" \in Instructions
    /\ \/ \E a \in PathArguments, short \in BOOLEAN, n, size \in MessageLengths, p2 \in 0..1 :
                PersonalMessageFirst(a, short, n, size, p2)
       \/ \E size \in MessageLengths, p2 \in 0..1 : PersonalMessageMore(size, p2)

OtherCommand ==
    \/ /\ "INS_SIGN_TXN_HASH" \in Instructions
       /\ \E a \in PathArguments, d \in Digests : handleSignByHash(a, d)
    \/ /\ "INS_SIGN_TIP_712_MESSAGE" \in Instructions
       /\ \E a \in PathArguments, d, h \in Digests : handleSignTIP712Message(a, d, h)
    \/ /\ "INS_GET_ECDH_SECRET" \in Instructions
       /\ \E a \in PathArguments, peer \in DOMAIN Peers : handleECDHSecret(a, peer)
    \/ /\ "INS_GET_PUBLIC_KEY" \in Instructions
       /\ \E confirm, chaincode \in BOOLEAN, a \in PathArguments :
                handleGetPublicKey(confirm, chaincode, a)
    \/ "INS_GET_APP_CONFIGURATION" \in Instructions /\ handleGetAppConfiguration
    \/ "other" \in Instructions /\ (RefusedInstruction \/ RefusedApdu)

User ==
    \/ AcceptWarning
    \/ Reject
    \/ Approve

Next ==
    \/ SignCommand
    \/ MessageCommand
    \/ OtherCommand
    \/ User
    \/ \E s \in Toggles : ToggleSetting(s)
    \/ IoReset
    \/ Relaunch

Spec == Init /\ [][Next]_vars
=============================================================================
