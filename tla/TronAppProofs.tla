---------------------------- MODULE TronAppProofs ----------------------------
(***************************************************************************)
(* Proofs about TronApp for every value of its constants.                  *)
(***************************************************************************)
EXTENDS TronAppProperties, TLAPS

-----------------------------------------------------------------------------
(* Type correctness.                                                       *)

\* The hash context of a session only grows by chunks that were sent.
LEMMA AbsorbType ==
    ASSUME NEW context \in Contexts, NEW chunk \in Chunks \cup {EmptyChunk}
    PROVE  /\ absorb(context, chunk) \in Contexts
           /\ absorb(context, chunk).opened = context.opened
           /\ absorb(context, chunk).sha2
                = IF chunk.len = 0 THEN context.sha2 ELSE Append(context.sha2, chunk)
  <1>1. CASE chunk.len = 0
    BY <1>1 DEF absorb
  <1>2. CASE chunk.len # 0
    <2>1. chunk \in Chunks
      BY <1>2 DEF EmptyChunk
    <2>2. Append(context.sha2, chunk) \in Seq(Chunks)
      BY <2>1 DEF Contexts
    <2> QED
      BY <1>2, <2>2 DEF absorb, Contexts
  <1> QED
    BY <1>1, <1>2

\* Parsing a chunk keeps the shape of the content.
LEMMA ProcessTxType ==
    ASSUME NEW content, DOMAIN content = DOMAIN ZeroContent,
           content.contractSeen \in BOOLEAN, content.feeLimitSeen \in BOOLEAN,
           NEW chunk
    PROVE  LET c == processTxContent(content, chunk)
           IN  /\ DOMAIN c = DOMAIN ZeroContent
               /\ c.contractSeen \in BOOLEAN /\ c.feeLimitSeen \in BOOLEAN
  BY DEF processTxContent, pb_get_tx_data_size, feeLimitOf, contractOf, ZeroContent

\* An answer keeps the swap state in its type.
LEMMA AnswerType ==
    ASSUME swap \in Swaps, NEW sw, NEW what, NEW ready \in BOOLEAN, Answer(sw, what, ready)
    PROVE  /\ swap' \in Swaps
           /\ ready => swap'.status # "running"
           /\ ~ready => swap'.status = swap.status
           /\ ~InSwap \/ what[1] # "signature" => swap'.signatures = swap.signatures
           /\ swap'.signatures <= swap.signatures + 1
  <1> DEFINE status == IF ~ready THEN swap.status
                       ELSE IF sw = "E_OK" THEN "success" ELSE "failure"
             count == IF InSwap /\ what[1] = "signature" THEN swap.signatures + 1
                      ELSE swap.signatures
  <1>1. swap' = [swap EXCEPT !.ready = ready, !.status = status, !.signatures = count]
    BY DEF Answer
  <1>2. /\ status \in {"running", "success", "failure"}
        /\ ready => status # "running"
        /\ ~ready => status = swap.status
    BY DEF Swaps
  <1>3. /\ count \in Nat
        /\ count <= swap.signatures + 1
        /\ ~InSwap \/ what[1] # "signature" => count = swap.signatures
    BY DEF Swaps
  <1> HIDE DEF status, count
  <1> QED
    BY <1>1, <1>2, <1>3 DEF Swaps

\* A session that is closed has the right type.
LEMMA ClosedType == NoContext \in Contexts /\ ContentShape(ZeroContent)
  BY DEF Contexts, ContentShape, NoContext, ZeroContent

\* So has a session that was just opened.
LEMMA FreshType ==
    ASSUME NEW path \in Paths \cup {NoPath}
    PROVE  /\ FreshContext(path) \in Contexts
           /\ FreshContext(path).sha2 = <<>>
  BY DEF FreshContext, Contexts

\* The end of handleSign keeps the types.
LEMMA FinishSignType ==
    ASSUME swap \in Swaps,
           NEW context \in Contexts, NEW content, ContentShape(content),
           NEW permissions, NEW tc, TransactionShape(tc),
           FinishSign(context, content, permissions, tc)
    PROVE  /\ txContext' \in Contexts
           /\ ContentShape(txContent')
           /\ TransactionShape(transactionContext')
           /\ swap' \in Swaps
  <1>1. TransactionShape(transactionContext')
    BY DEF FinishSign, TransactionShape, NoTransaction
  <1>2. [context EXCEPT !.final = TRUE] \in Contexts
    BY DEF Contexts
  <1>3. txContext' \in Contexts /\ ContentShape(txContent')
    BY <1>2, ClosedType DEF FinishSign, Terminated
  <1>4. swap' \in Swaps
    <2>1. ASSUME NEW sw, Answer(sw, Nothing, InSwap) PROVE swap' \in Swaps
      BY <2>1, AnswerType, TronAppAssumption
    <2>2. ASSUME NEW sw, NEW what, Answer(sw, what, TRUE) PROVE swap' \in Swaps
      BY <2>2, AnswerType
    <2> QED
      BY <2>1, <2>2 DEF FinishSign, Display
  <1> QED
    BY <1>1, <1>3, <1>4

\* So does an answer with the swap flag as it is.
LEMMA SendType ==
    ASSUME swap \in Swaps, NEW sw, NEW what, Send(sw, what)
    PROVE  swap' \in Swaps
  <1>1. swap.ready \in BOOLEAN
    BY DEF Swaps
  <1> QED
    BY <1>1, AnswerType DEF Send

\* handleSign from the check of the context on keeps the types.
LEMMA SignChunkType ==
    ASSUME TypeOK, UNCHANGED settings,
           NEW p1, NEW chunk \in Chunks \cup {EmptyChunk},
           NEW context \in Contexts, NEW content, ContentShape(content),
           NEW tc, TransactionShape(tc),
           SignChunk(p1, chunk, context, content, tc)
    PROVE  TypeOK'
  <1> DEFINE grown == absorb(context, chunk)
             parsed == processTxContent(content, chunk)
  <1>1. grown \in Contexts /\ FreshContext(context.opened) \in Contexts
    <2>1. context.opened \in Paths \cup {NoPath}
      BY DEF Contexts
    <2> QED
      BY <2>1, AbsorbType, FreshType
  <1>2. ContentShape(parsed)
    BY ProcessTxType DEF ContentShape
  <1> HIDE DEF grown, parsed
  <1>3. /\ UNCHANGED <<settings, personal_msg_ctx, messageSigningContext712>>
        /\ flow' \in {"none", "sign", "message"}
    BY DEF SignChunk
  <1>4. ASSUME NEW sw, NEW what, Send(sw, what) \/ Answer(sw, what, InSwap)
        PROVE  swap' \in Swaps
    BY <1>4, SendType, AnswerType, TronAppAssumption DEF TypeOK
  <1>5. CASE FinishSign(grown, parsed, processTxMsg(msg, chunk), tc)
    <2>1. /\ txContext' \in Contexts /\ ContentShape(txContent')
          /\ TransactionShape(transactionContext') /\ swap' \in Swaps
      BY <1>1, <1>2, <1>5, FinishSignType DEF TypeOK
    <2> QED
      BY <1>3, <2>1 DEF TypeOK
  <1>6. CASE ~FinishSign(grown, parsed, processTxMsg(msg, chunk), tc)
    <2>1. txContext' \in Contexts
      BY <1>1, <1>6 DEF SignChunk, TypeOK, session, grown, parsed
    <2>2. ContentShape(txContent')
      BY <1>2, <1>6, ClosedType DEF SignChunk, TypeOK, session, grown, parsed
    <2>3. TransactionShape(transactionContext')
      BY <1>6 DEF SignChunk, TypeOK, grown, parsed
    <2>4. swap' \in Swaps
      BY <1>4, <1>6 DEF SignChunk, SendSw, grown, parsed
    <2> QED
      BY <1>3, <2>1, <2>2, <2>3, <2>4 DEF TypeOK
  <1> QED
    BY <1>5, <1>6

\* The path that a command stores is never a malformed one.
LEMMA PathType ==
    ASSUME NEW path \in StoredPaths, NEW argument \in PathArguments
    PROVE  read_bip32_path(path, argument) \in StoredPaths
  BY DEF read_bip32_path, StoredPaths, PathArguments

\* The metadata parsers only touch the token slots.
LEMMA TokensShape ==
    ASSUME NEW content, ContentShape(content), NEW tokens
    PROVE  ContentShape([content EXCEPT !.tokens = tokens])
  BY DEF ContentShape, ZeroContent

\* INS_SIGN keeps the types.
LEMMA SignCommandType == TypeOK /\ SignCommand => TypeOK'
  <1> SUFFICES ASSUME TypeOK, SignCommand PROVE TypeOK'
    OBVIOUS
  <1>1. ASSUME NEW p1, NEW a \in PathArguments, NEW k \in Chunks \cup {EmptyChunk},
               SignOpen(p1, a, k)
        PROVE  TypeOK'
    <2> DEFINE tc == [transactionContext EXCEPT
                          !.path = read_bip32_path(transactionContext.path, a)]
    <2>1. TransactionShape(tc)
      BY PathType DEF TypeOK, TransactionShape, NoTransaction
    <2> HIDE DEF tc
    <2>2. CASE PathAccepted(a)
      <3>1. SignChunk(p1, k, FreshContext(a), ZeroContent, tc) /\ UNCHANGED settings
        BY <1>1, <2>2 DEF SignOpen, tc
      <3>2. FreshContext(a) \in Contexts
        BY <2>2, FreshType DEF PathAccepted
      <3> QED
        BY <2>1, <3>1, <3>2, ClosedType, SignChunkType
    <2>3. CASE ~PathAccepted(a)
      <3>1. /\ transactionContext' = tc /\ SendSw("E_INCORRECT_BIP32_PATH") /\ flow' = "none"
            /\ UNCHANGED <<settings, session, personal_msg_ctx, messageSigningContext712>>
        BY <1>1, <2>3 DEF SignOpen, tc
      <3>2. swap' \in Swaps
        BY <3>1, SendType DEF TypeOK, SendSw
      <3> QED
        BY <2>1, <3>1, <3>2 DEF TypeOK, session
    <2> QED
      BY <2>2, <2>3
  <1>2. ASSUME NEW p1, NEW k \in Chunks \cup {EmptyChunk}, SignMore(p1, k)
        PROVE  TypeOK'
    BY <1>2, SignChunkType DEF SignMore, TypeOK
  <1>3. ASSUME NEW content, ContentShape(content),
               UNCHANGED settings,
               SignChunk("P1_TRC10_NAME", EmptyChunk, txContext, content, transactionContext)
        PROVE  TypeOK'
    BY <1>3, SignChunkType DEF TypeOK
  <1>4. ASSUME NEW content, ContentShape(content), txContent' = content,
               NEW sw, AnswerOnly(sw), flow' \in {"none", "sign"},
               UNCHANGED <<txContext, transactionContext>>
        PROVE  TypeOK'
    <2>1. swap' \in Swaps
      BY <1>4, SendType DEF TypeOK, AnswerOnly, SendSw
    <2> QED
      BY <1>4, <2>1 DEF TypeOK, AnswerOnly
  <1>5. ASSUME NEW slot, NEW last, NEW d, SignTokenName(slot, last, d)
        PROVE  TypeOK'
    <2> DEFINE r == parseTokenName(txContent.tokens, slot, d)
               content == [txContent EXCEPT !.tokens = r.tokens]
    <2>1. ContentShape(content)
      BY TokensShape DEF TypeOK
    <2> HIDE DEF content
    <2> QED
      BY <1>3, <1>4, <1>5, <2>1 DEF SignTokenName, content
  <1>6. ASSUME NEW d, SignExchange(d)
        PROVE  TypeOK'
    <2> DEFINE r == parseExchange(txContent, d)
               content == [txContent EXCEPT !.tokens = r.tokens]
    <2>1. ContentShape(content)
      BY TokensShape DEF TypeOK
    <2> HIDE DEF content
    <2> QED
      BY <1>3, <1>4, <1>6, <2>1 DEF SignExchange, content
  <1>7. CASE SignRefused
    <2>1. txContent' = txContent /\ ContentShape(txContent)
      BY <1>7 DEF SignRefused, session, TypeOK
    <2> QED
      BY <1>4, <1>7, <2>1 DEF SignRefused, session
  <1> QED
    BY <1>1, <1>2, <1>5, <1>6, <1>7 DEF SignCommand

\* An answer or a review leaves the swap state in its type.
LEMMA ReplyType ==
    ASSUME swap \in Swaps, 
           \/ \E sw, what : Send(sw, what)
           \/ \E sw : SendSw(sw)
           \/ \E sw : EarlyReturn(sw)
           \/ \E state, b, isTrigger, data_warning, c :
                  Display(state, b, isTrigger, data_warning, c)
           \/ UNCHANGED swap
    PROVE  swap' \in Swaps
  BY SendType DEF SendSw, EarlyReturn, Display

\* handleSignPersonalMessage keeps the types.
LEMMA MessageDataType ==
    ASSUME TypeOK, OutsideSign, UNCHANGED messageSigningContext712,
           NEW path \in StoredPaths, NEW ctx \in Messages, NEW left, NEW size \in Nat, NEW p2,
           MessageData(path, ctx, left, size, p2)
    PROVE  TypeOK'
  <1>1. absorbMessage(ctx, size) \in Messages /\ NoMessage \in Messages
    BY DEF absorbMessage, Messages, NoMessage
  <1>2. \E bytes : txContent' = [txContent EXCEPT !.dataBytes = bytes]
    BY DEF MessageData
  <1>3. ContentShape(txContent')
    BY <1>2 DEF TypeOK, ContentShape, ZeroContent
  <1>4. personal_msg_ctx' \in Messages
    BY <1>1 DEF MessageData
  <1>5. \E h : transactionContext' = [transactionContext EXCEPT !.path = path, !.hash = h]
    BY DEF MessageData
  <1>6. TransactionShape(transactionContext')
    BY <1>5 DEF TypeOK, TransactionShape, NoTransaction
  <1>7. swap' \in Swaps
    BY ReplyType DEF MessageData, TypeOK
  <1>8. flow' \in {"none", "sign", "message"}
    BY DEF MessageData, EarlyReturn
  <1> QED
    BY <1>3, <1>4, <1>6, <1>7, <1>8 DEF TypeOK, OutsideSign

\* INS_SIGN_PERSONAL_MESSAGE keeps the types.
LEMMA MessageCommandType == TypeOK /\ MessageCommand => TypeOK'
  <1> SUFFICES ASSUME TypeOK, MessageCommand PROVE TypeOK'
    OBVIOUS
  <1>1. ASSUME NEW a \in PathArguments, NEW short, NEW n \in MessageLengths,
               NEW size \in MessageLengths, NEW p2, PersonalMessageFirst(a, short, n, size, p2)
        PROVE  TypeOK'
    <2> DEFINE path == read_bip32_path(transactionContext.path, a)
               ctx == [initialized |-> TRUE, announced |-> n, got |-> 0]
    <2>1. path \in StoredPaths
      BY PathType DEF TypeOK, TransactionShape
    <2>2. ctx \in Messages /\ NoMessage \in Messages /\ size \in Nat
      BY TronAppAssumption DEF Messages, NoMessage
    <2> HIDE DEF path, ctx
    <2>3. OutsideSign /\ UNCHANGED messageSigningContext712
      BY <1>1 DEF PersonalMessageFirst
    <2>4. CASE MessageData(path, ctx, n, size, p2)
      BY <2>1, <2>2, <2>3, <2>4, MessageDataType
    <2>5. CASE ~MessageData(path, ctx, n, size, p2)
      <3>1. /\ \E sw : EarlyReturn(sw)
            /\ UNCHANGED txContent
            /\ transactionContext' \in {transactionContext,
                                        [transactionContext EXCEPT !.path = path]}
            /\ personal_msg_ctx' \in {personal_msg_ctx, NoMessage}
        BY <1>1, <2>5 DEF PersonalMessageFirst, path, ctx
      <3>2. swap' \in Swaps /\ flow' = "none"
        BY <3>1, ReplyType DEF TypeOK, EarlyReturn
      <3>3. TransactionShape(transactionContext')
        BY <2>1, <3>1 DEF TypeOK, TransactionShape, NoTransaction
      <3> QED
        BY <2>2, <2>3, <3>1, <3>2, <3>3 DEF TypeOK, OutsideSign
    <2> QED
      BY <2>4, <2>5
  <1>2. ASSUME NEW size \in MessageLengths, NEW p2, PersonalMessageMore(size, p2)
        PROVE  TypeOK'
    <2> DEFINE path == transactionContext.path
    <2>1. OutsideSign /\ UNCHANGED messageSigningContext712 /\ size \in Nat
          /\ path \in StoredPaths
      BY <1>2, TronAppAssumption DEF PersonalMessageMore, TypeOK, TransactionShape
    <2>2. CASE MessageData(path, personal_msg_ctx, txContent.dataBytes, size, p2)
      BY <2>1, <2>2, MessageDataType DEF TypeOK
    <2>3. CASE ~MessageData(path, personal_msg_ctx, txContent.dataBytes, size, p2)
      <3>1. /\ \E sw : EarlyReturn(sw)
            /\ UNCHANGED <<txContent, transactionContext, personal_msg_ctx>>
        BY <1>2, <2>3 DEF PersonalMessageMore
      <3>2. swap' \in Swaps /\ flow' = "none"
        BY <3>1, ReplyType DEF TypeOK, EarlyReturn
      <3> QED
        BY <2>1, <3>1, <3>2 DEF TypeOK, OutsideSign
    <2> QED
      BY <2>2, <2>3
  <1> QED
    BY <1>1, <1>2 DEF MessageCommand

\* The commands outside INS_SIGN and INS_SIGN_PERSONAL_MESSAGE keep the types.
LEMMA OtherCommandType == TypeOK /\ OtherCommand => TypeOK'
  <1> SUFFICES ASSUME TypeOK, OtherCommand PROVE TypeOK'
    OBVIOUS
  <1>1. ASSUME NEW a \in PathArguments, NEW d, handleSignByHash(a, d)
        PROVE  TypeOK'
    <2> DEFINE path == read_bip32_path(transactionContext.path, a)
    <2>1. path \in StoredPaths
      BY PathType DEF TypeOK, TransactionShape
    <2> HIDE DEF path
    <2>2. /\ OutsideSign /\ flow' = "none"
          /\ UNCHANGED <<txContent, personal_msg_ctx, messageSigningContext712>>
      BY <1>1 DEF handleSignByHash, EarlyReturn
    <2>3. \/ transactionContext' = transactionContext
          \/ transactionContext' = [transactionContext EXCEPT !.path = path]
          \/ transactionContext' = [transactionContext EXCEPT !.path = path, !.hash = RawHash(d)]
      BY <1>1 DEF handleSignByHash, path
    <2>4. TransactionShape(transactionContext')
      BY <2>1, <2>3 DEF TypeOK, TransactionShape, NoTransaction
    <2>5. swap' \in Swaps
      BY <1>1, ReplyType DEF handleSignByHash, TypeOK
    <2> QED
      BY <2>2, <2>4, <2>5 DEF TypeOK, OutsideSign
  <1>2. ASSUME NEW a \in PathArguments, NEW d, NEW h, handleSignTIP712Message(a, d, h)
        PROVE  TypeOK'
    <2> DEFINE path == IF a = Malformed THEN NoPath ELSE a
    <2>1. path \in StoredPaths
      BY DEF PathArguments, StoredPaths
    <2> HIDE DEF path
    <2>2. /\ OutsideSign /\ flow' = "none"
          /\ UNCHANGED <<txContent, transactionContext, personal_msg_ctx>>
      BY <1>2 DEF handleSignTIP712Message, EarlyReturn
    <2>3. \/ messageSigningContext712' = messageSigningContext712
          \/ messageSigningContext712' = [messageSigningContext712 EXCEPT !.path = path]
          \/ messageSigningContext712' = [path |-> path, domain |-> d, message |-> h]
      BY <1>2 DEF handleSignTIP712Message, path
    <2>4. /\ DOMAIN messageSigningContext712' = DOMAIN No712
          /\ messageSigningContext712'.path \in StoredPaths
      BY <2>1, <2>3 DEF TypeOK, No712
    <2>5. swap' \in Swaps
      BY <1>2, ReplyType DEF handleSignTIP712Message, TypeOK
    <2> QED
      BY <2>2, <2>4, <2>5 DEF TypeOK, OutsideSign
  <1>3. ASSUME NEW a \in PathArguments, NEW peer, handleECDHSecret(a, peer)
        PROVE  TypeOK'
    <2> DEFINE path == read_bip32_path(transactionContext.path, a)
    <2>1. path \in StoredPaths
      BY PathType DEF TypeOK, TransactionShape
    <2> HIDE DEF path
    <2>2. /\ OutsideSign /\ flow' = "none"
          /\ UNCHANGED <<txContent, personal_msg_ctx, messageSigningContext712>>
      BY <1>3 DEF handleECDHSecret, EarlyReturn
    <2>3. \/ transactionContext' = transactionContext
          \/ transactionContext' = [transactionContext EXCEPT !.path = path]
          \/ transactionContext' = [transactionContext EXCEPT !.path = path, !.peer = peer]
      BY <1>3 DEF handleECDHSecret, path
    <2>4. TransactionShape(transactionContext')
      BY <2>1, <2>3 DEF TypeOK, TransactionShape, NoTransaction
    <2>5. swap' \in Swaps
      BY <1>3, ReplyType DEF handleECDHSecret, TypeOK
    <2> QED
      BY <2>2, <2>4, <2>5 DEF TypeOK, OutsideSign
  <1>4. ASSUME NEW confirm, NEW chaincode, NEW a, handleGetPublicKey(confirm, chaincode, a)
        PROVE  TypeOK'
    <2>1. swap' \in Swaps
      BY <1>4, ReplyType DEF handleGetPublicKey, TypeOK
    <2> QED
      BY <1>4, <2>1 DEF handleGetPublicKey, TypeOK, OutsideSign
  <1>5. CASE handleGetAppConfiguration \/ RefusedInstruction \/ RefusedApdu
    <2>1. swap' \in Swaps
      BY <1>5, ReplyType
      DEF handleGetAppConfiguration, RefusedInstruction, RefusedApdu, AnswerOnly, TypeOK
    <2> QED
      BY <1>5, <2>1
      DEF handleGetAppConfiguration, RefusedInstruction, RefusedApdu, AnswerOnly, TypeOK, session
  <1> QED
    BY <1>1, <1>2, <1>3, <1>4, <1>5 DEF OtherCommand

\* What the user does keeps the types.
LEMMA UserType == TypeOK /\ User => TypeOK'
  <1> SUFFICES ASSUME TypeOK, User PROVE TypeOK'
    OBVIOUS
  <1>1. /\ UNCHANGED <<settings, transactionContext, personal_msg_ctx,
                       messageSigningContext712, flow>>
        /\ UNCHANGED <<txContext, txContent>> \/ Terminated
    BY DEF User, AcceptWarning, Reject, Approve, ReviewOver, CallbackFrame,
           ui_callback_tx_cancel, ui_callback_tx_ok, ui_callback_signMessage_ok,
           ui_callback_ecdh_ok, ui_callback_signMessage712_v0_ok, ui_callback_address_ok
  <1>2. swap' \in Swaps
    BY ReplyType
    DEF User, AcceptWarning, Reject, Approve, TypeOK, SignTransaction,
        ui_callback_tx_cancel, ui_callback_tx_ok, ui_callback_signMessage_ok,
        ui_callback_ecdh_ok, ui_callback_signMessage712_v0_ok, ui_callback_address_ok
  <1> QED
    BY <1>1, <1>2, ClosedType DEF TypeOK, Terminated

\* Every step keeps the types.
LEMMA NextType == TypeOK /\ [Next]_vars => TypeOK'
  <1> SUFFICES ASSUME TypeOK, [Next]_vars PROVE TypeOK'
    OBVIOUS
  <1>1. ASSUME NEW s \in Toggles, ToggleSetting(s) PROVE TypeOK'
    BY <1>1 DEF ToggleSetting, TypeOK, session
  <1>2. CASE IoReset
    BY <1>2, ClosedType DEF IoReset, Terminated, ReviewOver, TypeOK
  <1>3. CASE Relaunch
    <2>1. /\ TransactionShape(NoTransaction) /\ NoMessage \in Messages
          /\ No712.path \in StoredPaths
      BY DEF TransactionShape, NoTransaction, NoMessage, Messages, No712, StoredPaths
    <2> QED
      BY <1>3, <2>1, ClosedType DEF Relaunch, TypeOK
  <1>4. CASE UNCHANGED vars
    BY <1>4 DEF vars, TypeOK
  <1> QED
    BY <1>1, <1>2, <1>3, <1>4, SignCommandType, MessageCommandType, OtherCommandType, UserType
    DEF Next

\* The initial state has the right type.
LEMMA InitType == Init => TypeOK
  <1> SUFFICES ASSUME Init PROVE TypeOK
    OBVIOUS
  <1>1. swap \in Swaps
    BY DEF Init, Swaps
  <1>2. /\ TransactionShape(NoTransaction) /\ NoMessage \in Messages
        /\ No712.path \in StoredPaths
    BY DEF TransactionShape, NoTransaction, NoMessage, Messages, No712, StoredPaths
  <1> QED
    BY <1>1, <1>2, ClosedType DEF Init, TypeOK

\* In every reachable state, for every set of chunks, keys, metadata and validated
\* swaps, the globals hold what their declarations allow.
THEOREM TypeCorrect == Spec => []TypeOK
  BY InitType, NextType, PTL DEF Spec

-----------------------------------------------------------------------------
(* The transaction under review is the one that is hashed.                 *)

\* What txContent holds is what was hashed, at every point of a session: nothing
\* before the first contract, the only contract after it, and its fee limit.
Agrees(chunks, content) ==
    /\ ~content.contractSeen =>
          /\ ContractChunks(chunks) = {}
          /\ content.parsed = ZeroParsed
          /\ content.contractType = "INVALID_CONTRACT"
    /\ content.contractSeen => ContractParsed(chunks, content)
    /\ \A i \in FeeChunks(chunks) :
          content.feeLimitSeen /\ content.feeLimit = feeLimit(chunks[i])

\* The inductive invariant: a review is about the session that is still open, and
\* that session has its contract.
SessionInv == Agrees(txContext.sha2, txContent)
ReviewInv ==
    TransactionReview => HashedChunks = txContext.sha2 /\ txContent.contractSeen
HashInv == TypeOK /\ SessionInv /\ ReviewInv

\* An opened or closed session agrees with itself.
LEMMA EmptyAgrees == Agrees(<<>>, ZeroContent)
  BY DEF Agrees, ContractChunks, FeeChunks, ZeroContent

\* Only the contract, the permission, the parsed fields and the fee limit count:
\* neither the metadata nor the byte counter of a personal message matter.
LEMMA AgreesFrame ==
    ASSUME NEW chunks, NEW content, NEW content2, Agrees(chunks, content),
           content2.contractSeen = content.contractSeen,
           content2.contractType = content.contractType,
           content2.permission_id = content.permission_id,
           content2.parsed = content.parsed,
           content2.feeLimitSeen = content.feeLimitSeen,
           content2.feeLimit = content.feeLimit
    PROVE  Agrees(chunks, content2)
  BY DEF Agrees, ContractParsed

\* A chunk that processTx accepts keeps the agreement: it refuses a second
\* contract and a fee limit that differs.
LEMMA ChunkAgrees ==
    ASSUME NEW chunks \in Seq(Chunks), NEW content, ContentShape(content),
           Agrees(chunks, content), NEW chunk, chunk.len # 0, NEW dataAllowed,
           processTxStatus(content, chunk, dataAllowed) = "USTREAM_PROCESSING"
    PROVE  Agrees(Append(chunks, chunk), processTxContent(content, chunk))
  <1> DEFINE grown == Append(chunks, chunk)
             n == Len(chunks) + 1
             c == processTxContent(content, chunk)
  <1>1. /\ DOMAIN grown = 1..n /\ DOMAIN chunks = 1..(n - 1) /\ n \in Nat \ {0}
        /\ grown[n] = chunk
        /\ \A i \in DOMAIN chunks : grown[i] = chunks[i]
    OBVIOUS
  <1>2. /\ ~FeeLimitConflict(content, chunk)
        /\ HasContract(chunk) => ~content.contractSeen
    BY DEF processTxStatus, ContractRefused
  <1>3. /\ ~HasContract(chunk) =>
              /\ c.contractSeen = content.contractSeen
              /\ c.contractType = content.contractType
              /\ c.permission_id = content.permission_id
              /\ c.parsed = content.parsed
        /\ HasContract(chunk) =>
              LET k == chunk.contract[1]
              IN  /\ c.contractSeen = TRUE
                  /\ c.contractType = k.type
                  /\ c.permission_id = k.permission_id
                  /\ c.parsed = ExtractParsed(k.type, content.parsed, k.m)
        /\ feeLimit(chunk) = 0 =>
              c.feeLimit = content.feeLimit /\ c.feeLimitSeen = content.feeLimitSeen
        /\ feeLimit(chunk) # 0 => c.feeLimit = feeLimit(chunk) /\ c.feeLimitSeen
    BY DEF processTxContent, pb_get_tx_data_size, feeLimitOf, contractOf, ContentShape,
           ZeroContent
  <1> HIDE DEF grown, n, c
  <1>4. ContractChunks(grown)
            = ContractChunks(chunks) \cup (IF HasContract(chunk) THEN {n} ELSE {})
    <2>1. ASSUME NEW i
          PROVE  i \in ContractChunks(grown)
                    <=> i \in ContractChunks(chunks) \/ (i = n /\ HasContract(chunk))
      BY <1>1 DEF ContractChunks
    <2> QED
      BY <2>1
  <1>5. \A i \in FeeChunks(grown) : c.feeLimitSeen /\ c.feeLimit = feeLimit(grown[i])
    BY <1>1, <1>2, <1>3 DEF FeeChunks, Agrees, FeeLimitConflict
  <1>6. CASE HasContract(chunk)
    <2>1. content.parsed = ZeroParsed /\ ContractChunks(grown) = {n}
      BY <1>2, <1>4, <1>6 DEF Agrees
    <2>2. ContractParsed(grown, c)
      <3>1. n \in DOMAIN grown /\ grown[n] = chunk
        BY <1>1
      <3> QED
        BY <1>3, <1>6, <2>1, <3>1 DEF ContractParsed
    <2> QED
      BY <1>3, <1>5, <1>6, <2>2 DEF Agrees, grown, c
  <1>7. CASE ~HasContract(chunk)
    <2>1. content.contractSeen => ContractParsed(grown, c)
      BY <1>1, <1>3, <1>4, <1>7 DEF Agrees, ContractParsed
    <2> QED
      BY <1>3, <1>4, <1>5, <1>7, <2>1 DEF Agrees, grown, c
  <1> QED
    BY <1>6, <1>7

\* The same for any chunk, the empty one included.
LEMMA AbsorbAgrees ==
    ASSUME NEW context \in Contexts, NEW content, ContentShape(content),
           Agrees(context.sha2, content), NEW chunk \in Chunks \cup {EmptyChunk},
           NEW dataAllowed,
           processTxStatus(content, chunk, dataAllowed)
                \in {"USTREAM_PROCESSING", "USTREAM_FINISHED"}
    PROVE  Agrees(absorb(context, chunk).sha2, processTxContent(content, chunk))
  <1>1. CASE chunk.len = 0
    BY <1>1, AbsorbType DEF processTxContent
  <1>2. CASE chunk.len # 0
    <2>1. processTxStatus(content, chunk, dataAllowed) = "USTREAM_PROCESSING"
      BY <1>2 DEF processTxStatus
    <2>2. context.sha2 \in Seq(Chunks)
      BY DEF Contexts
    <2> QED
      BY <1>2, <2>1, <2>2, AbsorbType, ChunkAgrees
  <1> QED
    BY <1>1, <1>2

\* handleSign shows nothing for a session that never had a contract.
LEMMA PassHasContract ==
    ASSUME NEW chunks, NEW content, Agrees(chunks, content), content.contractSeen \in BOOLEAN,
           NEW permissions, NEW allowed, NEW inSwap,
           ReviewVerdict(content, permissions, allowed, inSwap) = Pass
    PROVE  content.contractSeen
  <1> SUFFICES ASSUME ~content.contractSeen PROVE FALSE
    OBVIOUS
  <1>1. content.contractType = "INVALID_CONTRACT"
    BY DEF Agrees
  <1>2. ContractVerdict(content, permissions, allowed) = Refuse("E_INCORRECT_DATA")
    BY <1>1 DEF ContractVerdict, IsCustomCall
  <1> QED
    BY <1>2 DEF ReviewVerdict, Refuse, Pass

\* The end of handleSign: the review is about what was hashed.
LEMMA FinishSignHash ==
    ASSUME NEW context \in Contexts, NEW content, ContentShape(content),
           Agrees(context.sha2, content), NEW permissions, NEW tc, TransactionShape(tc),
           FinishSign(context, content, permissions, tc)
    PROVE  SessionInv' /\ ReviewInv'
  <1> DEFINE verdict == ReviewVerdict(content, permissions, settings, InSwap)
             hash == TxHash(context.sha2, context.final)
  <1>1. transactionContext'.hash = hash
    BY DEF FinishSign, TransactionShape, NoTransaction
  <1>2. hash[2] = context.sha2
    BY DEF TxHash
  <1>3. CASE Terminated /\ review' = NoReview
    <2>1. SessionInv'
      BY <1>3, EmptyAgrees DEF SessionInv, Terminated, NoContext
    <2> QED
      BY <1>3, <2>1 DEF ReviewInv, TransactionReview, Reviewing
  <1>4. CASE txContext' = [context EXCEPT !.final = TRUE] /\ txContent' = content
    <2>1. txContext'.sha2 = context.sha2
      BY <1>4 DEF Contexts
    <2>2. SessionInv'
      BY <1>4, <2>1 DEF SessionInv
    <2>3. CASE review' = NoReview
      BY <2>2, <2>3 DEF ReviewInv, TransactionReview, Reviewing
    <2>4. CASE verdict = Pass
      BY <1>1, <1>2, <1>4, <2>1, <2>2, <2>4, PassHasContract
      DEF ReviewInv, HashedChunks, ContentShape
    <2> QED
      BY <1>4, <2>3, <2>4 DEF FinishSign
  <1> QED
    BY <1>3, <1>4 DEF FinishSign

\* handleSign from the check of the context on.
LEMMA SignChunkHash ==
    ASSUME HashInv, review = NoReview,
           NEW p1, NEW chunk \in Chunks \cup {EmptyChunk},
           NEW context \in Contexts, NEW content, ContentShape(content),
           Agrees(context.sha2, content), NEW tc, TransactionShape(tc),
           SignChunk(p1, chunk, context, content, tc)
    PROVE  SessionInv' /\ ReviewInv'
  <1> DEFINE status == processTxStatus(content, chunk, "S_DATA_ALLOWED" \in settings)
             grown == absorb(context, chunk)
             parsed == processTxContent(content, chunk)
  <1>1. grown \in Contexts /\ ContentShape(parsed)
    BY AbsorbType, ProcessTxType DEF ContentShape
  <1>2. status \in {"USTREAM_PROCESSING", "USTREAM_FINISHED"} => Agrees(grown.sha2, parsed)
    BY AbsorbAgrees
  <1> HIDE DEF status, grown, parsed
  <1>3. CASE /\ status \in {"USTREAM_PROCESSING", "USTREAM_FINISHED"}
             /\ FinishSign(grown, parsed, processTxMsg(msg, chunk), tc)
    BY <1>1, <1>2, <1>3, FinishSignHash
  <1>4. CASE review' = review
    <2>1. ReviewInv'
      BY <1>4 DEF ReviewInv, TransactionReview, Reviewing
    <2>2. CASE UNCHANGED session
      BY <2>1, <2>2 DEF session, HashInv, SessionInv
    <2>3. CASE txContext' = FreshContext(context.opened) /\ txContent' = ZeroContent
      BY <2>1, <2>3, EmptyAgrees DEF SessionInv, FreshContext
    <2>4. CASE /\ status = "USTREAM_PROCESSING"
               /\ txContext' = grown /\ txContent' = parsed
      BY <1>2, <2>1, <2>4 DEF SessionInv
    <2>5. \/ UNCHANGED session
          \/ txContext' = FreshContext(context.opened) /\ txContent' = ZeroContent
          \/ /\ status = "USTREAM_PROCESSING"
             /\ txContext' = grown /\ txContent' = parsed
          \/ /\ status \in {"USTREAM_PROCESSING", "USTREAM_FINISHED"}
             /\ FinishSign(grown, parsed, processTxMsg(msg, chunk), tc)
      BY DEF SignChunk, status, grown, parsed
    <2> QED
      BY <1>3, <2>2, <2>3, <2>4, <2>5
  <1> QED
    BY <1>3, <1>4 DEF SignChunk, status, grown, parsed

\* INS_SIGN keeps the invariant.
LEMMA SignCommandHash == HashInv /\ SignCommand => SessionInv' /\ ReviewInv'
  <1> SUFFICES ASSUME HashInv, SignCommand PROVE SessionInv' /\ ReviewInv'
    OBVIOUS
  <1> USE DEF HashInv
  <1>1. ASSUME NEW p1, NEW a \in PathArguments, NEW k \in Chunks \cup {EmptyChunk},
               SignOpen(p1, a, k)
        PROVE  SessionInv' /\ ReviewInv'
    <2> DEFINE tc == [transactionContext EXCEPT
                          !.path = read_bip32_path(transactionContext.path, a)]
    <2>1. TransactionShape(tc)
      BY PathType DEF TypeOK, TransactionShape, NoTransaction
    <2> HIDE DEF tc
    <2>2. CASE PathAccepted(a)
      <3>1. SignChunk(p1, k, FreshContext(a), ZeroContent, tc) /\ review = NoReview
        BY <1>1, <2>2 DEF SignOpen, Idle, tc
      <3>2. FreshContext(a) \in Contexts /\ FreshContext(a).sha2 = <<>>
        BY <2>2, FreshType DEF PathAccepted
      <3> QED
        BY <2>1, <3>1, <3>2, ClosedType, EmptyAgrees, SignChunkHash
    <2>3. CASE ~PathAccepted(a)
      BY <1>1, <2>3 DEF SignOpen, Idle, session, SessionInv, ReviewInv, TransactionReview, Reviewing
    <2> QED
      BY <2>2, <2>3
  <1>2. ASSUME NEW p1, NEW k \in Chunks \cup {EmptyChunk}, SignMore(p1, k)
        PROVE  SessionInv' /\ ReviewInv'
    BY <1>2, SignChunkHash DEF SignMore, Idle, TypeOK, SessionInv
  <1>3. ASSUME NEW tokens, Idle,
               LET content == [txContent EXCEPT !.tokens = tokens]
               IN  \/ SignChunk("P1_TRC10_NAME", EmptyChunk, txContext, content,
                                transactionContext)
                   \/ txContent' = content /\ UNCHANGED <<txContext, review>>
        PROVE  SessionInv' /\ ReviewInv'
    <2> DEFINE content == [txContent EXCEPT !.tokens = tokens]
    <2>1. /\ content.contractSeen = txContent.contractSeen
          /\ content.contractType = txContent.contractType
          /\ content.permission_id = txContent.permission_id
          /\ content.parsed = txContent.parsed
          /\ content.feeLimitSeen = txContent.feeLimitSeen
          /\ content.feeLimit = txContent.feeLimit
      BY DEF TypeOK, ContentShape, ZeroContent
    <2>2. ContentShape(content)
      BY TokensShape DEF TypeOK
    <2> HIDE DEF content
    <2>3. Agrees(txContext.sha2, content)
      BY <2>1, AgreesFrame DEF SessionInv
    <2>4. CASE SignChunk("P1_TRC10_NAME", EmptyChunk, txContext, content, transactionContext)
      BY <1>3, <2>2, <2>3, <2>4, SignChunkHash DEF Idle, TypeOK
    <2>5. CASE txContent' = content /\ UNCHANGED <<txContext, review>>
      BY <1>3, <2>3, <2>5 DEF Idle, SessionInv, ReviewInv, TransactionReview, Reviewing
    <2> QED
      BY <1>3, <2>4, <2>5 DEF content
  <1>4. ASSUME NEW slot, NEW last, NEW d, SignTokenName(slot, last, d)
        PROVE  SessionInv' /\ ReviewInv'
    BY <1>3, <1>4 DEF SignTokenName, AnswerOnly
  <1>5. ASSUME NEW d, SignExchange(d)
        PROVE  SessionInv' /\ ReviewInv'
    BY <1>3, <1>5 DEF SignExchange, AnswerOnly
  <1>6. CASE SignRefused
    BY <1>6 DEF SignRefused, AnswerOnly, Idle, session, SessionInv, ReviewInv,
                TransactionReview, Reviewing
  <1> QED
    BY <1>1, <1>2, <1>4, <1>5, <1>6 DEF SignCommand

\* A review is shown in the state that was asked for.
LEMMA DisplayState ==
    ASSUME NEW state, NEW b, NEW isTrigger, NEW data_warning, NEW c,
           Display(state, b, isTrigger, data_warning, c)
    PROVE  review'.state = state
  BY DEF Display

\* A personal message counts in txContent.dataBytes, which no transaction under
\* review depends on: the session keeps its agreement.
LEMMA MessageCommandHash == HashInv /\ MessageCommand => SessionInv' /\ ReviewInv'
  <1> SUFFICES ASSUME HashInv, MessageCommand PROVE SessionInv' /\ ReviewInv'
    OBVIOUS
  <1>1. /\ UNCHANGED txContext
        /\ review' = NoReview \/ review'.state = "APPROVAL_SIGN_PERSONAL_MESSAGE"
        /\ \/ UNCHANGED txContent
           \/ \E bytes : txContent' = [txContent EXCEPT !.dataBytes = bytes]
    <2>1. ASSUME NEW path, NEW ctx, NEW left, NEW size, NEW p2, review = NoReview,
                 MessageData(path, ctx, left, size, p2)
          PROVE  /\ \/ review' = NoReview
                    \/ \E b, c : Display("APPROVAL_SIGN_PERSONAL_MESSAGE", b, FALSE, FALSE, c)
                 /\ \E bytes : txContent' = [txContent EXCEPT !.dataBytes = bytes]
      BY <2>1 DEF MessageData, EarlyReturn
    <2>2. UNCHANGED txContext /\ review = NoReview
      BY DEF MessageCommand, PersonalMessageFirst, PersonalMessageMore, OutsideSign, Idle
    <2>3. \/ \E path, ctx, left, size, p2 : MessageData(path, ctx, left, size, p2)
          \/ UNCHANGED <<txContent, review>>
      BY DEF MessageCommand, PersonalMessageFirst, PersonalMessageMore, EarlyReturn
    <2> QED
      BY <2>1, <2>2, <2>3, DisplayState
  <1>2. /\ txContent'.contractSeen = txContent.contractSeen
        /\ txContent'.contractType = txContent.contractType
        /\ txContent'.permission_id = txContent.permission_id
        /\ txContent'.parsed = txContent.parsed
        /\ txContent'.feeLimitSeen = txContent.feeLimitSeen
        /\ txContent'.feeLimit = txContent.feeLimit
    BY <1>1 DEF HashInv, TypeOK, ContentShape, ZeroContent
  <1>3. SessionInv'
    BY <1>1, <1>2, AgreesFrame DEF HashInv, SessionInv
  <1> QED
    BY <1>1, <1>3 DEF ReviewInv, TransactionReview, Reviewing

\* The other commands leave the session alone, and what they show is not the
\* review of a transaction.
LEMMA OtherCommandHash == HashInv /\ OtherCommand => SessionInv' /\ ReviewInv'
  <1> SUFFICES ASSUME HashInv, OtherCommand PROVE SessionInv' /\ ReviewInv'
    OBVIOUS
  <1>1. ASSUME NEW a, NEW d, handleSignByHash(a, d)
        PROVE  SessionInv' /\ ReviewInv'
    <2>1. review' = NoReview \/ transactionContext'.hash = RawHash(d)
      BY <1>1 DEF handleSignByHash, EarlyReturn, Idle, HashInv, TypeOK, TransactionShape,
                  NoTransaction
    <2>2. UNCHANGED <<txContext, txContent>>
      BY <1>1 DEF handleSignByHash, OutsideSign
    <2>3. RawHash(d)[1] # "tx"
      BY DEF RawHash
    <2> QED
      BY <2>1, <2>2, <2>3 DEF HashInv, SessionInv, ReviewInv, TransactionReview, Reviewing
  <1>2. ASSUME UNCHANGED <<txContext, txContent>>,
               \/ review' = NoReview
               \/ review'.state \in {"APPROVAL_VERIFY_ADDRESS", "APPROVAL_SHARED_ECDH_SECRET",
                                     "APPROVAL_SIGN_TIP72_TRANSACTION"}
        PROVE  SessionInv' /\ ReviewInv'
    BY <1>2 DEF HashInv, SessionInv, ReviewInv, TransactionReview, Reviewing
  <1>3. ASSUME NEW a, NEW d, NEW h, handleSignTIP712Message(a, d, h)
        PROVE  SessionInv' /\ ReviewInv'
    <2>1. \/ review' = NoReview
          \/ \E b, c : Display("APPROVAL_SIGN_TIP72_TRANSACTION", b, FALSE, FALSE, c)
      BY <1>3 DEF handleSignTIP712Message, EarlyReturn, Idle
    <2>2. UNCHANGED <<txContext, txContent>>
      BY <1>3 DEF handleSignTIP712Message, OutsideSign
    <2> QED
      BY <1>2, <2>1, <2>2, DisplayState
  <1>4. ASSUME NEW a, NEW peer, handleECDHSecret(a, peer)
        PROVE  SessionInv' /\ ReviewInv'
    <2>1. \/ review' = NoReview
          \/ \E b, c : Display("APPROVAL_SHARED_ECDH_SECRET", b, FALSE, FALSE, c)
      BY <1>4 DEF handleECDHSecret, EarlyReturn, Idle
    <2>2. UNCHANGED <<txContext, txContent>>
      BY <1>4 DEF handleECDHSecret, OutsideSign
    <2> QED
      BY <1>2, <2>1, <2>2, DisplayState
  <1>5. ASSUME NEW confirm, NEW chaincode, NEW a, handleGetPublicKey(confirm, chaincode, a)
        PROVE  SessionInv' /\ ReviewInv'
    BY <1>2, <1>5 DEF handleGetPublicKey, OutsideSign, Idle
  <1>6. CASE handleGetAppConfiguration \/ RefusedInstruction \/ RefusedApdu
    BY <1>2, <1>6 DEF handleGetAppConfiguration, RefusedInstruction, RefusedApdu, AnswerOnly,
                      Idle, session
  <1> QED
    BY <1>1, <1>3, <1>4, <1>5, <1>6 DEF OtherCommand

\* Every step keeps the invariant.
LEMMA NextHash == HashInv /\ [Next]_vars => HashInv'
  <1> SUFFICES ASSUME HashInv, [Next]_vars PROVE SessionInv' /\ ReviewInv'
    BY NextType DEF HashInv
  <1>1. CASE User
    <2>1. CASE UNCHANGED <<txContext, txContent, transactionContext>>
               /\ review' = [review EXCEPT !.screens = Tail(review.screens)] /\ Reviewing
      BY <2>1 DEF HashInv, SessionInv, ReviewInv, TransactionReview, HashedChunks
    <2>2. CASE review' = NoReview /\ (UNCHANGED <<txContext, txContent>> \/ Terminated)
      BY <2>2, EmptyAgrees DEF HashInv, SessionInv, ReviewInv, TransactionReview, Reviewing,
                               Terminated, NoContext
    <2> QED
      BY <1>1, <2>1, <2>2
      DEF User, AcceptWarning, Reject, Approve, ReviewOver,
          ui_callback_tx_cancel, ui_callback_tx_ok, ui_callback_signMessage_ok,
          ui_callback_ecdh_ok, ui_callback_signMessage712_v0_ok, ui_callback_address_ok
  <1>2. ASSUME NEW s, ToggleSetting(s) PROVE SessionInv' /\ ReviewInv'
    BY <1>2 DEF ToggleSetting, Idle, HashInv, session, SessionInv, ReviewInv, TransactionReview,
                Reviewing
  <1>3. CASE IoReset \/ Relaunch
    BY <1>3, EmptyAgrees DEF IoReset, Relaunch, Terminated, ReviewOver, Idle, NoContext,
                SessionInv, ReviewInv, TransactionReview, Reviewing
  <1>4. CASE UNCHANGED vars
    BY <1>4 DEF vars, HashInv, SessionInv, ReviewInv, TransactionReview, Reviewing, HashedChunks
  <1> QED
    BY <1>1, <1>2, <1>3, <1>4, SignCommandHash, MessageCommandHash, OtherCommandHash DEF Next

\* The initial state satisfies the invariant.
LEMMA InitHash == Init => HashInv
  <1> SUFFICES ASSUME Init PROVE SessionInv /\ ReviewInv
    BY InitType DEF HashInv
  <1>1. txContext.sha2 = <<>> /\ txContent = ZeroContent /\ review = NoReview
    BY DEF Init, NoContext
  <1> QED
    BY <1>1, EmptyAgrees DEF SessionInv, ReviewInv, TransactionReview, Reviewing

\* The transaction under review is the one that is hashed, whatever the chunks and
\* in whatever order the commands come.
THEOREM ReviewedIsHashed == Spec => []HashMatchesContent
  <1>1. HashInv => HashMatchesContent
    BY DEF HashInv, SessionInv, ReviewInv, Agrees, HashMatchesContent
  <1> QED
    BY <1>1, InitHash, NextHash, PTL DEF Spec

-----------------------------------------------------------------------------
(* A swap shows nothing and signs once.                                    *)

\* The inductive invariant: as long as the app runs it has signed nothing for
\* Exchange, and without a screen no callback can sign.
SwapCount ==
    /\ swap.signatures <= 1
    /\ Running \/ ~InSwap => swap.signatures = 0
SwapInv == TypeOK /\ SwapHasNoScreen /\ SwapCount

\* An answer of the running app is either no signature or the last thing it does.
LEMMA AnswerCount ==
    ASSUME TypeOK, SwapCount, Running \/ ~InSwap,
           NEW sw, NEW what, NEW ready \in BOOLEAN, Answer(sw, what, ready),
           ~InSwap \/ what[1] # "signature" \/ ready = TRUE
    PROVE  SwapCount'
  <1>1. swap \in Swaps /\ swap.signatures = 0
    BY DEF TypeOK, SwapCount
  <1>2. /\ swap' \in Swaps
        /\ ready => swap'.status # "running"
        /\ ~InSwap \/ what[1] # "signature" => swap'.signatures = swap.signatures
        /\ swap'.signatures <= swap.signatures + 1
    BY <1>1, AnswerType
  <1>3. swap'.signatures \in Nat
    BY <1>2 DEF Swaps
  <1> QED
    BY <1>1, <1>2, <1>3 DEF SwapCount, Running

\* The same for the handlers that answer with no signature, or outside a swap.
LEMMA SendCount ==
    ASSUME TypeOK, SwapCount, Running \/ ~InSwap, NEW sw, NEW what, Send(sw, what),
           ~InSwap \/ what[1] # "signature"
    PROVE  SwapCount'
  <1>1. swap.ready \in BOOLEAN
    BY DEF TypeOK, Swaps
  <1> QED
    BY <1>1, AnswerCount DEF Send

\* A plain status word.
LEMMA SendSwCount ==
    ASSUME TypeOK, SwapCount, Running \/ ~InSwap, NEW sw, SendSw(sw)
    PROVE  SwapCount'
  <1>1. Nothing[1] # "signature"
    BY DEF Nothing
  <1> QED
    BY <1>1, SendCount DEF SendSw

\* A step that changes neither the review nor the swap state.
LEMMA QuietSwap ==
    ASSUME SwapInv, UNCHANGED swap, UNCHANGED review \/ review' = NoReview
    PROVE  SwapHasNoScreen' /\ SwapCount'
  BY DEF SwapInv, SwapHasNoScreen, SwapCount, Running, Reviewing

\* INS_SIGN in a swap signs only with its last answer.
LEMMA SignChunkSwap ==
    ASSUME SwapInv, Idle, NEW p1, NEW chunk, NEW context, NEW content, NEW tc,
           SignChunk(p1, chunk, context, content, tc)
    PROVE  SwapHasNoScreen' /\ SwapCount'
  <1> USE DEF SwapInv
  <1>0. Running /\ review = NoReview /\ Nothing[1] # "signature" /\ InSwap \in BOOLEAN
    BY TronAppAssumption DEF Idle, Nothing
  <1>1. ASSUME NEW sw, Answer(sw, Nothing, InSwap), review' = NoReview
        PROVE  SwapHasNoScreen' /\ SwapCount'
    BY <1>0, <1>1, AnswerCount DEF SwapHasNoScreen, Reviewing
  <1>2. ASSUME NEW sw, NEW what, Answer(sw, what, TRUE), review' = NoReview
        PROVE  SwapHasNoScreen' /\ SwapCount'
    BY <1>0, <1>2, AnswerCount DEF SwapHasNoScreen, Reviewing
  <1>3. ASSUME NEW sw, SendSw(sw), UNCHANGED review
        PROVE  SwapHasNoScreen' /\ SwapCount'
    BY <1>0, <1>3, SendSwCount DEF SwapHasNoScreen, Reviewing
  <1>4. CASE ~InSwap /\ UNCHANGED swap
    BY <1>4 DEF SwapHasNoScreen, SwapCount, Running
  <1>5. ASSUME NEW grown, NEW parsed, NEW permissions,
               FinishSign(grown, parsed, permissions, tc)
        PROVE  SwapHasNoScreen' /\ SwapCount'
    BY <1>1, <1>2, <1>4, <1>5 DEF FinishSign, Display
  <1> QED
    BY <1>0, <1>1, <1>3, <1>5 DEF SignChunk

\* Every command keeps the invariant.
LEMMA CommandSwap ==
    SwapInv /\ (SignCommand \/ MessageCommand \/ OtherCommand)
        => SwapHasNoScreen' /\ SwapCount'
  <1> SUFFICES ASSUME SwapInv, SignCommand \/ MessageCommand \/ OtherCommand
               PROVE  SwapHasNoScreen' /\ SwapCount'
    OBVIOUS
  <1> USE DEF SwapInv
  <1>1. ASSUME NEW sw, NEW what, Running, Send(sw, what), what[1] # "signature",
               UNCHANGED review
        PROVE  SwapHasNoScreen' /\ SwapCount'
    BY <1>1, SendCount DEF SwapHasNoScreen, Reviewing
  <1>2. ASSUME NEW sw, Running, SendSw(sw), UNCHANGED review
        PROVE  SwapHasNoScreen' /\ SwapCount'
    BY <1>2, SendSwCount DEF SwapHasNoScreen, Reviewing
  <1>3. CASE ~InSwap /\ UNCHANGED swap
    BY <1>3 DEF SwapHasNoScreen, SwapCount, Running
  <1>4. CASE SignCommand
    <2>1. ASSUME NEW p1, NEW a, NEW k, SignOpen(p1, a, k)
          PROVE  SwapHasNoScreen' /\ SwapCount'
      BY <1>2, <2>1, SignChunkSwap DEF SignOpen, Idle
    <2>2. ASSUME NEW p1, NEW k, SignMore(p1, k)
          PROVE  SwapHasNoScreen' /\ SwapCount'
      BY <2>2, SignChunkSwap DEF SignMore
    <2>3. ASSUME NEW slot, NEW last, NEW d, SignTokenName(slot, last, d)
          PROVE  SwapHasNoScreen' /\ SwapCount'
      BY <1>2, <2>3, SignChunkSwap DEF SignTokenName, AnswerOnly, Idle
    <2>4. ASSUME NEW d, SignExchange(d)
          PROVE  SwapHasNoScreen' /\ SwapCount'
      BY <1>2, <2>4, SignChunkSwap DEF SignExchange, AnswerOnly, Idle
    <2>5. CASE SignRefused
      BY <1>2, <2>5 DEF SignRefused, AnswerOnly, Idle
    <2> QED
      BY <1>4, <2>1, <2>2, <2>3, <2>4, <2>5 DEF SignCommand
  <1>5. CASE MessageCommand
    <2>1. ASSUME NEW path, NEW ctx, NEW left, NEW size, NEW p2, Running, ~InSwap,
                 MessageData(path, ctx, left, size, p2)
          PROVE  SwapHasNoScreen' /\ SwapCount'
      BY <1>2, <1>3, <2>1 DEF MessageData, EarlyReturn, Display
    <2>2. Running /\ ~InSwap
      BY <1>5 DEF MessageCommand, PersonalMessageFirst, PersonalMessageMore, Idle
    <2>3. \/ \E path, ctx, left, size, p2 : MessageData(path, ctx, left, size, p2)
          \/ \E sw : EarlyReturn(sw)
      BY <1>5 DEF MessageCommand, PersonalMessageFirst, PersonalMessageMore
    <2> QED
      BY <1>2, <2>1, <2>2, <2>3 DEF EarlyReturn
  <1>6. CASE OtherCommand
    <2>1. ASSUME NEW a, NEW d, handleSignByHash(a, d)
          PROVE  SwapHasNoScreen' /\ SwapCount'
      BY <1>2, <1>3, <2>1 DEF handleSignByHash, EarlyReturn, Display, Idle
    <2>2. ASSUME NEW a, NEW d, NEW h, handleSignTIP712Message(a, d, h)
          PROVE  SwapHasNoScreen' /\ SwapCount'
      BY <1>2, <1>3, <2>2 DEF handleSignTIP712Message, EarlyReturn, Display, Idle
    <2>3. ASSUME NEW a, NEW peer, handleECDHSecret(a, peer)
          PROVE  SwapHasNoScreen' /\ SwapCount'
      BY <1>2, <1>3, <2>3 DEF handleECDHSecret, EarlyReturn, Display, Idle
    <2>4. ASSUME NEW confirm, NEW chaincode, NEW a, handleGetPublicKey(confirm, chaincode, a)
          PROVE  SwapHasNoScreen' /\ SwapCount'
      <3>1. ASSUME NEW key PROVE PublicKey(key)[1] # "signature"
        BY DEF PublicKey
      <3> QED
        BY <1>1, <1>2, <1>3, <2>4, <3>1 DEF handleGetPublicKey, ScreenRefused, Idle
    <2>5. CASE handleGetAppConfiguration
      <3>1. ASSUME NEW flags PROVE Configuration(flags)[1] # "signature"
        BY DEF Configuration
      <3> QED
        BY <1>1, <2>5, <3>1 DEF handleGetAppConfiguration, Idle
    <2>6. CASE RefusedInstruction \/ RefusedApdu
      BY <1>2, <2>6 DEF RefusedInstruction, RefusedApdu, AnswerOnly, Idle
    <2> QED
      BY <1>6, <2>1, <2>2, <2>3, <2>4, <2>5, <2>6 DEF OtherCommand
  <1> QED
    BY <1>4, <1>5, <1>6

\* So does every step: a callback needs a screen, which a swap does not have.
LEMMA NextSwap == SwapInv /\ [Next]_vars => SwapInv'
  <1> SUFFICES ASSUME SwapInv, [Next]_vars PROVE SwapHasNoScreen' /\ SwapCount'
    BY NextType DEF SwapInv
  <1> USE DEF SwapInv
  <1>1. CASE User
    <2>1. ~InSwap
      BY <1>1 DEF User, AcceptWarning, Reject, Approve, SwapHasNoScreen
    <2>2. ASSUME NEW sw, NEW what, Send(sw, what) PROVE SwapCount'
      BY <2>1, <2>2, SendCount
    <2>3. ASSUME UNCHANGED swap PROVE SwapCount'
      BY <2>3 DEF SwapCount, Running
    <2>4. SwapCount'
      BY <1>1, <2>2, <2>3
      DEF User, AcceptWarning, Reject, Approve, SendSw, SignTransaction,
          ui_callback_tx_cancel, ui_callback_tx_ok, ui_callback_signMessage_ok,
          ui_callback_ecdh_ok, ui_callback_signMessage712_v0_ok, ui_callback_address_ok
    <2> QED
      BY <2>1, <2>4 DEF SwapHasNoScreen
  <1>2. ASSUME NEW s, ToggleSetting(s) PROVE SwapHasNoScreen' /\ SwapCount'
    BY <1>2, QuietSwap DEF ToggleSetting
  <1>3. CASE IoReset \/ Relaunch
    BY <1>3, QuietSwap DEF IoReset, Relaunch, ReviewOver
  <1>4. CASE UNCHANGED vars
    BY <1>4, QuietSwap DEF vars
  <1> QED
    BY <1>1, <1>2, <1>3, <1>4, CommandSwap DEF Next

\* The app starts with no screen and no signature.
LEMMA InitSwap == Init => SwapInv
  <1> SUFFICES ASSUME Init PROVE SwapHasNoScreen /\ SwapCount
    BY InitType DEF SwapInv
  <1>1. review = NoReview /\ swap.signatures = 0
    BY DEF Init
  <1> QED
    BY <1>1 DEF SwapHasNoScreen, SwapCount, Reviewing

\* Called from Exchange, the app puts nothing on the screen.
THEOREM SwapStaysSilent == Spec => []SwapHasNoScreen
  <1>1. SwapInv => SwapHasNoScreen
    BY DEF SwapInv
  <1> QED
    BY <1>1, InitSwap, NextSwap, PTL DEF Spec

\* Called from Exchange, the app signs at most once, whatever the host sends and
\* whatever Exchange validated.
THEOREM SwapSignsAtMostOnce == Spec => []SwapSignsOnce
  <1>1. SwapInv => SwapSignsOnce
    BY DEF SwapInv, SwapCount, SwapSignsOnce
  <1> QED
    BY <1>1, InitSwap, NextSwap, PTL DEF Spec

-----------------------------------------------------------------------------
(* Blind signing needs its settings.                                       *)

\* The inductive invariant: what is on the screen was allowed when it came up, and
\* no setting changes behind a review.
BlindInv ==
    /\ review.state \in {"APPROVAL_SIMPLE_TRANSACTION", "APPROVAL_SIGN_PERSONAL_MESSAGE",
                         "APPROVAL_SIGN_TIP72_TRANSACTION"} => "S_SIGN_BY_HASH" \in settings
    /\ review.state = "APPROVAL_CUSTOM_CONTRACT" => "S_CUSTOM_CONTRACT" \in settings
    /\ TransactionReview /\ IsCustomCall(txContent) => "S_CUSTOM_CONTRACT" \in settings

\* The gates of handleSign against the state it asks ux_flow_display for.
LEMMA PassIsAllowed ==
    ASSUME NEW content, NEW permissions, NEW allowed, NEW inSwap,
           ReviewVerdict(content, permissions, allowed, inSwap) = Pass
    PROVE  /\ IsCustomCall(content) => "S_CUSTOM_CONTRACT" \in allowed
           /\ ApprovalState(content) = "APPROVAL_CUSTOM_CONTRACT" => IsCustomCall(content)
           /\ ApprovalState(content) = "APPROVAL_SIMPLE_TRANSACTION" =>
                  "S_SIGN_BY_HASH" \in allowed
           /\ ApprovalState(content) \notin {"APPROVAL_SIGN_PERSONAL_MESSAGE",
                                             "APPROVAL_SIGN_TIP72_TRANSACTION"}
  <1>1. ContractVerdict(content, permissions, allowed) = Pass
    BY DEF ReviewVerdict, Refuse, Pass
  <1>2. ASSUME IsCustomCall(content) PROVE "S_CUSTOM_CONTRACT" \in allowed
    <2>1. ContractVerdict(content, permissions, allowed) = CustomCallVerdict(content, allowed)
      BY <1>2 DEF ContractVerdict, IsCustomCall
    <2> QED
      BY <1>1, <2>1 DEF CustomCallVerdict, Refuse, Pass
  <1>3. /\ ApprovalState(content) = "APPROVAL_CUSTOM_CONTRACT" => IsCustomCall(content)
        /\ ApprovalState(content) \notin {"APPROVAL_SIGN_PERSONAL_MESSAGE",
                                          "APPROVAL_SIGN_TIP72_TRANSACTION"}
    BY DEF ApprovalState
  <1>4. ASSUME ApprovalState(content) = "APPROVAL_SIMPLE_TRANSACTION"
        PROVE  "S_SIGN_BY_HASH" \in allowed
    BY <1>1, <1>4 DEF ContractVerdict, ApprovalState, IsCustomCall, Refuse, Pass
  <1> QED
    BY <1>2, <1>3, <1>4

\* The extractor of a call reports a known method only for a known token and a
\* selector that it knows.
LEMMA TriggerParsed ==
    ASSUME NEW m,
           m.contract \notin DOMAIN TRC20Tokens \/ TriggerMethod(m) = 0
    PROVE  ExtractParsed("TRIGGERSMARTCONTRACT", ZeroParsed, m).TRC20Method = 0
  <1>1. ExtractParsed("TRIGGERSMARTCONTRACT", ZeroParsed, m)
            = trigger_smart_contract(ZeroParsed, m)
    BY DEF ExtractParsed
  <1> DEFINE q == pb_decode_trigger_smart_contract_data(ZeroParsed, m)
  <1>2. "TRC20Method" \in DOMAIN q /\ (TriggerMethod(m) = 0 => q.TRC20Method = 0)
    BY DEF pb_decode_trigger_smart_contract_data, ZeroParsed
  <1> HIDE DEF q
  <1>3. trigger_smart_contract(ZeroParsed, m).TRC20Method = 0
    BY <1>2 DEF trigger_smart_contract, account, getKnownToken, q
  <1> QED
    BY <1>1, <1>3

\* On the home screen there is nothing to allow.
LEMMA HomeIsAllowed ==
    ASSUME review' = NoReview
    PROVE  BlindInv'
  BY DEF BlindInv, NoReview, TransactionReview, Reviewing

\* INS_SIGN shows what the settings allow.
LEMMA SignChunkBlind ==
    ASSUME Idle, UNCHANGED settings, NEW p1, NEW chunk, NEW context, NEW content, NEW tc,
           SignChunk(p1, chunk, context, content, tc)
    PROVE  BlindInv'
  <1>1. CASE review' = NoReview
    BY <1>1, HomeIsAllowed
  <1>2. ASSUME NEW grown, NEW parsed, NEW permissions,
               FinishSign(grown, parsed, permissions, tc), review' # NoReview
        PROVE  BlindInv'
    <2>1. /\ ReviewVerdict(parsed, permissions, settings, InSwap) = Pass
          /\ txContent' = parsed
          /\ \E b, isTrigger, data_warning, c :
                Display(ApprovalState(parsed), b, isTrigger, data_warning, c)
      BY <1>2 DEF FinishSign
    <2>2. review'.state = ApprovalState(parsed)
      BY <2>1, DisplayState
    <2> QED
      BY <2>1, <2>2, PassIsAllowed DEF BlindInv
  <1> QED
    BY <1>1, <1>2 DEF SignChunk, Idle

\* Every command shows what the settings allow.
LEMMA CommandBlind ==
    TypeOK /\ (SignCommand \/ MessageCommand \/ OtherCommand) => BlindInv'
  <1> SUFFICES ASSUME TypeOK, SignCommand \/ MessageCommand \/ OtherCommand PROVE BlindInv'
    OBVIOUS
  <1>1. CASE SignCommand
    <2>1. ASSUME NEW p1, NEW a, NEW k, SignOpen(p1, a, k) PROVE BlindInv'
      BY <2>1, SignChunkBlind, HomeIsAllowed DEF SignOpen, Idle
    <2>2. ASSUME NEW p1, NEW k, SignMore(p1, k) PROVE BlindInv'
      BY <2>2, SignChunkBlind DEF SignMore
    <2>3. ASSUME NEW slot, NEW last, NEW d, SignTokenName(slot, last, d) PROVE BlindInv'
      BY <2>3, SignChunkBlind, HomeIsAllowed DEF SignTokenName, AnswerOnly, Idle
    <2>4. ASSUME NEW d, SignExchange(d) PROVE BlindInv'
      BY <2>4, SignChunkBlind, HomeIsAllowed DEF SignExchange, AnswerOnly, Idle
    <2>5. CASE SignRefused
      BY <2>5, HomeIsAllowed DEF SignRefused, AnswerOnly, Idle
    <2> QED
      BY <1>1, <2>1, <2>2, <2>3, <2>4, <2>5 DEF SignCommand
  <1>2. ASSUME UNCHANGED settings, "S_SIGN_BY_HASH" \in settings,
               \/ review'.state \in {"APPROVAL_SIGN_PERSONAL_MESSAGE",
                                     "APPROVAL_SIGN_TIP72_TRANSACTION"}
               \/ /\ review'.state = "APPROVAL_SIMPLE_TRANSACTION"
                  /\ transactionContext'.hash[1] # "tx"
        PROVE  BlindInv'
    BY <1>2 DEF BlindInv, TransactionReview
  <1>3. CASE MessageCommand
    <2>1. ASSUME NEW path, NEW ctx, NEW left, NEW size, NEW p2,
                 MessageData(path, ctx, left, size, p2)
          PROVE  \/ UNCHANGED review
                 \/ \E b, c : Display("APPROVAL_SIGN_PERSONAL_MESSAGE", b, FALSE, FALSE, c)
      BY <2>1 DEF MessageData, EarlyReturn
    <2>2. UNCHANGED settings /\ review = NoReview
      BY <1>3 DEF MessageCommand, PersonalMessageFirst, PersonalMessageMore, OutsideSign, Idle
    <2>3. \/ /\ \E path, ctx, left, size, p2 : MessageData(path, ctx, left, size, p2)
             /\ "S_SIGN_BY_HASH" \in settings
          \/ UNCHANGED review
      BY <1>3 DEF MessageCommand, PersonalMessageFirst, PersonalMessageMore, EarlyReturn
    <2> QED
      BY <1>2, <2>1, <2>2, <2>3, DisplayState, HomeIsAllowed
  <1>4. CASE OtherCommand
    <2>1. ASSUME NEW a, NEW d, handleSignByHash(a, d) PROVE BlindInv'
      <3>1. \/ review' = NoReview
            \/ /\ "S_SIGN_BY_HASH" \in settings
               /\ transactionContext' = [transactionContext EXCEPT
                        !.path = read_bip32_path(transactionContext.path, a),
                        !.hash = RawHash(d)]
               /\ \E b, c : Display("APPROVAL_SIMPLE_TRANSACTION", b, FALSE, FALSE, c)
        BY <2>1 DEF handleSignByHash, EarlyReturn, Idle
      <3>2. transactionContext' = [transactionContext EXCEPT
                !.path = read_bip32_path(transactionContext.path, a), !.hash = RawHash(d)]
            => transactionContext'.hash[1] # "tx"
        BY <2>1 DEF TypeOK, TransactionShape, NoTransaction, RawHash
      <3>3. UNCHANGED settings
        BY <2>1 DEF handleSignByHash, OutsideSign
      <3> QED
        BY <1>2, <3>1, <3>2, <3>3, DisplayState, HomeIsAllowed
    <2>2. ASSUME NEW a, NEW d, NEW h, handleSignTIP712Message(a, d, h) PROVE BlindInv'
      <3>1. \/ review' = NoReview
            \/ /\ "S_SIGN_BY_HASH" \in settings
               /\ \E b, c : Display("APPROVAL_SIGN_TIP72_TRANSACTION", b, FALSE, FALSE, c)
        BY <2>2 DEF handleSignTIP712Message, EarlyReturn, Idle
      <3>2. UNCHANGED settings
        BY <2>2 DEF handleSignTIP712Message, OutsideSign
      <3> QED
        BY <1>2, <3>1, <3>2, DisplayState, HomeIsAllowed
    <2>3. ASSUME review'.state \in {"APPROVAL_VERIFY_ADDRESS", "APPROVAL_SHARED_ECDH_SECRET"}
          PROVE  BlindInv'
      BY <2>3 DEF BlindInv, TransactionReview
    <2>4. ASSUME NEW a, NEW peer, handleECDHSecret(a, peer) PROVE BlindInv'
      <3>1. \/ review' = NoReview
            \/ \E b, c : Display("APPROVAL_SHARED_ECDH_SECRET", b, FALSE, FALSE, c)
        BY <2>4 DEF handleECDHSecret, EarlyReturn, Idle
      <3> QED
        BY <2>3, <3>1, DisplayState, HomeIsAllowed
    <2>5. ASSUME NEW confirm, NEW chaincode, NEW a, handleGetPublicKey(confirm, chaincode, a)
          PROVE  BlindInv'
      BY <2>3, <2>5, HomeIsAllowed DEF handleGetPublicKey, Idle
    <2>6. CASE handleGetAppConfiguration \/ RefusedInstruction \/ RefusedApdu
      BY <2>6, HomeIsAllowed
      DEF handleGetAppConfiguration, RefusedInstruction, RefusedApdu, AnswerOnly, Idle
    <2> QED
      BY <1>4, <2>1, <2>2, <2>4, <2>5, <2>6 DEF OtherCommand
  <1> QED
    BY <1>1, <1>3, <1>4

\* Every step keeps the invariant: the settings only change on the home screen.
LEMMA NextBlind == TypeOK /\ BlindInv /\ [Next]_vars => BlindInv'
  <1> SUFFICES ASSUME TypeOK, BlindInv, [Next]_vars PROVE BlindInv'
    OBVIOUS
  <1>1. CASE AcceptWarning
    <2>1. /\ UNCHANGED <<settings, txContent, transactionContext>>
          /\ Reviewing /\ review'.state = review.state
      BY <1>1 DEF AcceptWarning, CallbackFrame
    <2> QED
      BY <2>1 DEF BlindInv, TransactionReview
  <1>2. CASE Reject \/ Approve \/ IoReset \/ Relaunch \/ \E s \in Toggles : ToggleSetting(s)
    BY <1>2, HomeIsAllowed DEF Reject, Approve, IoReset, Relaunch, ToggleSetting, ReviewOver, Idle
  <1>3. CASE UNCHANGED vars
    BY <1>3 DEF vars, BlindInv, TransactionReview, Reviewing
  <1> QED
    BY <1>1, <1>2, <1>3, CommandBlind DEF Next, User

\* Blind signing needs its setting whatever the contract, its chunks and the order
\* of the commands, and a setting cannot be withdrawn behind a review.
THEOREM BlindSigningGated == Spec => []BlindSigningAllowed
  <1>1. TypeOK /\ HashInv /\ BlindInv => BlindSigningAllowed
    <2> SUFFICES ASSUME HashInv, BlindInv, TransactionReview,
                        NEW i \in ContractChunks(HashedChunks),
                        LET k == HashedChunks[i].contract[1]
                        IN  k.type = "TRIGGERSMARTCONTRACT"
                            /\ (k.m.contract \notin DOMAIN TRC20Tokens \/ TriggerMethod(k.m) = 0)
                 PROVE  IsCustomCall(txContent)
      BY DEF BlindInv, BlindSigningAllowed
    <2>1. ContractParsed(HashedChunks, txContent)
      BY DEF HashInv, ReviewInv, SessionInv, Agrees
    <2>2. LET k == HashedChunks[i].contract[1]
          IN  /\ txContent.contractType = k.type
              /\ txContent.parsed = ExtractParsed(k.type, ZeroParsed, k.m)
      BY <2>1 DEF ContractParsed
    <2> QED
      BY <2>2, TriggerParsed DEF IsCustomCall
  <1>2. Init => BlindInv
    BY DEF Init, BlindInv, NoReview, TransactionReview, Reviewing
  <1> QED
    BY <1>1, <1>2, InitHash, NextHash, InitType, NextType, NextBlind, PTL DEF Spec

=============================================================================
