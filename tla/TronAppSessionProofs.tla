------------------------ MODULE TronAppSessionProofs ------------------------
(***************************************************************************)
(* Proofs about a signing session from its first command to the review:    *)
(* what every step may do to it, that a hash is finalised once, that the   *)
(* path, the data and the message under review are those of one flow, that *)
(* its token labels are certified for the contract it hashes, and that a   *)
(* swap signs exactly the payment Exchange validated.                      *)
(***************************************************************************)
EXTENDS TronAppProofs

-----------------------------------------------------------------------------
(* The kinds of steps, as far as a session can tell them apart.            *)

\* What is on the screen has an approval state.
Stated == Reviewing => review.state # "none"

\* txContent with the token labels that a metadata command leaves.
Relabelled(content) ==
    \/ /\ txContent.contractType \in NamedContracts
       /\ \E slot \in 1..2, d \in TokenMeta :
             content = [txContent EXCEPT !.tokens = parseTokenName(@, slot, d).tokens]
    \/ /\ txContent.contractType \in PairedContracts
       /\ \E d \in ExchangeMeta :
             content = [txContent EXCEPT !.tokens = parseExchange(txContent, d).tokens]

\* Where handleSign goes on from: a session just opened, or the one at hand.
Opened(context, content, tc) ==
    /\ \E a \in Paths : context = FreshContext(a) /\ tc = [transactionContext EXCEPT !.path = a]
    /\ content = ZeroContent
Continued(context, content, chunk, tc) ==
    /\ context = txContext /\ tc = transactionContext
    /\ content = txContent \/ (Relabelled(content) /\ chunk = EmptyChunk)
    /\ HostContinues("sign")

\* A command that reaches the parser.
SignStep ==
    \E chunk \in Chunks \cup {EmptyChunk} : \E p1, context, content, tc :
        /\ Idle /\ UNCHANGED settings
        /\ Opened(context, content, tc) \/ Continued(context, content, chunk, tc)
        /\ SignChunk(p1, chunk, context, content, tc)

\* A metadata command that does not.
LabelStep ==
    /\ Idle /\ UNCHANGED <<settings, txContext, msg, transactionContext, personal_msg_ctx, review>>
    /\ Relabelled(txContent')
    /\ HostContinues("sign")
    /\ flow' \in {"none", "sign"}

\* A command of a personal message, which counts in txContent.
MessageStep ==
    /\ Idle /\ ~InSwap
    /\ MessageCommand
    /\ UNCHANGED <<settings, txContext, msg>>
    /\ UNCHANGED txContent \/ \E bytes : txContent' = [txContent EXCEPT !.dataBytes = bytes]
    /\ ~TransactionReview'
    /\ Stated' /\ (Reviewing' => flow' = "none") /\ flow' # "sign"

\* A step that leaves the session alone and is not about its review.
QuietStep ==
    /\ UNCHANGED <<txContext, txContent, msg>>
    /\ ~TransactionReview /\ ~TransactionReview'
    /\ flow' = "none" \/ UNCHANGED <<flow, transactionContext, personal_msg_ctx>>
    /\ Stated' /\ (Reviewing' => flow' = "none")
    /\ review'.state # "APPROVAL_SIGN_PERSONAL_MESSAGE"

\* A step that closes the session: an answer on the screen, a reset, a relaunch.
CloseStep ==
    /\ txContext' = NoContext /\ txContent' = ZeroContent
    /\ review' = NoReview
    /\ flow' \in {flow, "none"}
    /\ Reviewing \/ flow' = "none"

\* A step from one screen of a review to the next.
ScreenStep ==
    /\ UNCHANGED <<settings, txContext, txContent, msg, transactionContext, personal_msg_ctx, flow>>
    /\ review'.state = review.state /\ review'.fields = review.fields
    /\ Reviewing' <=> Reviewing

\* A secret leaves the device on a review, if the answer is a new one at all.
KeepsSecrets ==
    Reviewing \/ out'.what = out.what \/ out'.what[1] \notin {"signature", "secret"}

\* A plain status word is no secret, and neither is a review.
LEMMA PlainAnswer ==
    ASSUME \/ \E sw : SendSw(sw)
           \/ \E state, b, isTrigger, data_warning, c : Display(state, b, isTrigger, data_warning, c)
           \/ out' = NoResponse
    PROVE  KeepsSecrets
  <1>1. out'.what = Nothing
    <2>1. ASSUME NEW sw, SendSw(sw) PROVE out'.what = Nothing
      BY <2>1 DEF SendSw, Send, Answer
    <2>2. ASSUME out' = NoResponse PROVE out'.what = Nothing
      BY <2>2 DEF NoResponse
    <2> QED
      BY <2>1, <2>2 DEF Display
  <1> QED
    BY <1>1 DEF KeepsSecrets, Nothing

\* handleSign asks for a review in a state of its own.
LEMMA SignStates ==
    ASSUME NEW content
    PROVE  ApprovalState(content) \notin {"none", "APPROVAL_VERIFY_ADDRESS",
               "APPROVAL_SHARED_ECDH_SECRET", "APPROVAL_SIGN_PERSONAL_MESSAGE",
               "APPROVAL_SIGN_TIP72_TRANSACTION"}
  BY DEF ApprovalState

\* INS_SIGN goes to the parser, relabels or leaves the session alone.
LEMMA SignKinds ==
    TypeOK /\ SignCommand => SignStep \/ ((LabelStep \/ QuietStep) /\ KeepsSecrets /\ UNCHANGED review)
  <1> SUFFICES ASSUME TypeOK, SignCommand
               PROVE  SignStep \/ ((LabelStep \/ QuietStep) /\ KeepsSecrets /\ UNCHANGED review)
    OBVIOUS
  <1>1. ASSUME NEW p1, NEW a \in PathArguments, NEW k \in Chunks \cup {EmptyChunk},
               SignOpen(p1, a, k)
        PROVE  SignStep \/ (QuietStep /\ KeepsSecrets /\ UNCHANGED review)
    <2>1. CASE PathAccepted(a)
      <3> DEFINE tc == [transactionContext EXCEPT !.path = a]
      <3>1. a \in Paths /\ a # Malformed
        BY <2>1, PathsAssumption DEF PathAccepted
      <3>2. /\ Idle /\ UNCHANGED settings
            /\ SignChunk(p1, k, FreshContext(a), ZeroContent, tc)
        BY <1>1, <2>1, <3>1 DEF SignOpen, read_bip32_path
      <3>3. Opened(FreshContext(a), ZeroContent, tc)
        BY <3>1 DEF Opened
      <3> HIDE DEF tc
      <3> QED
        BY <3>2, <3>3 DEF SignStep
    <2>2. CASE ~PathAccepted(a)
      BY <1>1, <2>2, PlainAnswer DEF SignOpen, QuietStep, Stated, Idle, session, TransactionReview, Reviewing,
          NoReview
    <2> QED
      BY <2>1, <2>2
  <1>2. ASSUME NEW p1, NEW k \in Chunks \cup {EmptyChunk}, SignMore(p1, k)
        PROVE  SignStep
    <2>1. /\ Idle /\ UNCHANGED settings
          /\ SignChunk(p1, k, txContext, txContent, transactionContext)
          /\ Continued(txContext, txContent, k, transactionContext)
      BY <1>2 DEF SignMore, Continued
    <2> QED
      BY <2>1 DEF SignStep
  <1>3. ASSUME NEW content, Relabelled(content), Idle, HostContinues("sign"),
               \/ /\ UNCHANGED settings
                  /\ SignChunk("P1_TRC10_NAME", EmptyChunk, txContext, content, transactionContext)
               \/ /\ txContent' = content
                  /\ \E sw : AnswerOnly(sw)
                  /\ flow' \in {"none", "sign"}
                  /\ UNCHANGED <<txContext, msg, transactionContext>>
        PROVE  SignStep \/ (LabelStep /\ KeepsSecrets)
    <2>1. Continued(txContext, content, EmptyChunk, transactionContext)
      BY <1>3 DEF Continued
    <2>2. EmptyChunk \in Chunks \cup {EmptyChunk}
      OBVIOUS
    <2>3. CASE SignChunk("P1_TRC10_NAME", EmptyChunk, txContext, content, transactionContext)
               /\ UNCHANGED settings
      BY <1>3, <2>1, <2>2, <2>3 DEF SignStep
    <2>4. CASE ~SignChunk("P1_TRC10_NAME", EmptyChunk, txContext, content, transactionContext)
      BY <1>3, <2>4, PlainAnswer DEF LabelStep, AnswerOnly
    <2> QED
      BY <1>3, <2>3, <2>4, PlainAnswer DEF LabelStep, AnswerOnly
  <1>4. ASSUME NEW slot \in 1..2, NEW last, NEW d \in TokenMeta, SignTokenName(slot, last, d)
        PROVE  SignStep \/ (LabelStep /\ KeepsSecrets)
    <2> DEFINE r == parseTokenName(txContent.tokens, slot, d)
               content == [txContent EXCEPT !.tokens = r.tokens]
    <2>1. Relabelled(content) /\ Idle /\ HostContinues("sign")
      BY <1>4 DEF SignTokenName, Relabelled
    <2> HIDE DEF content
    <2> QED
      BY <1>3, <1>4, <2>1 DEF SignTokenName, content
  <1>5. ASSUME NEW d \in ExchangeMeta, SignExchange(d)
        PROVE  SignStep \/ (LabelStep /\ KeepsSecrets)
    <2> DEFINE r == parseExchange(txContent, d)
               content == [txContent EXCEPT !.tokens = r.tokens]
    <2>1. Relabelled(content) /\ Idle /\ HostContinues("sign")
      BY <1>5 DEF SignExchange, Relabelled
    <2> HIDE DEF content
    <2> QED
      BY <1>3, <1>5, <2>1 DEF SignExchange, content
  <1>6. CASE SignRefused
    BY <1>6, PlainAnswer DEF SignRefused, AnswerOnly, QuietStep, Stated, Idle, session, TransactionReview, Reviewing,
          NoReview
  <1>7. LabelStep => UNCHANGED review
    BY DEF LabelStep
  <1> QED
    BY <1>1, <1>2, <1>4, <1>5, <1>6, <1>7 DEF SignCommand

\* A personal message counts in txContent or leaves the session alone.
LEMMA MessageKinds == TypeOK /\ MessageCommand => MessageStep
  <1> SUFFICES ASSUME TypeOK, MessageCommand PROVE MessageStep
    OBVIOUS
  <1>1. Idle /\ ~InSwap /\ UNCHANGED <<settings, txContext, msg>>
    BY DEF MessageCommand, PersonalMessageFirst, PersonalMessageMore, OutsideSign
  <1>2. ASSUME NEW path, NEW ctx, NEW left, NEW size, NEW p2, MessageData(path, ctx, left, size, p2)
        PROVE  /\ \E bytes : txContent' = [txContent EXCEPT !.dataBytes = bytes]
               /\ \/ review' = NoReview
                  \/ /\ \E b, c : Display("APPROVAL_SIGN_PERSONAL_MESSAGE", b, FALSE, FALSE, c)
                     /\ flow' = "none"
    BY <1>1, <1>2 DEF MessageData, EarlyReturn, Idle
  <1>4. \/ \E path, ctx, left, size, p2 : MessageData(path, ctx, left, size, p2)
        \/ UNCHANGED txContent /\ review' = NoReview
    BY <1>1 DEF MessageCommand, PersonalMessageFirst, PersonalMessageMore, EarlyReturn, Idle
  <1>5. UNCHANGED txContent \/ \E bytes : txContent' = [txContent EXCEPT !.dataBytes = bytes]
    BY <1>2, <1>4
  <1>6. review' = NoReview \/ (review'.state = "APPROVAL_SIGN_PERSONAL_MESSAGE" /\ flow' = "none")
    BY <1>2, <1>4, DisplayState
  <1>7. flow' # "sign"
    <2>1. ASSUME NEW sw, EarlyReturn(sw) PROVE flow' # "sign"
      BY <2>1 DEF EarlyReturn
    <2>2. ASSUME NEW path, NEW ctx, NEW left, NEW size, NEW p2,
                 MessageData(path, ctx, left, size, p2)
          PROVE  flow' # "sign"
      BY <2>1, <2>2 DEF MessageData
    <2> QED
      BY <2>1, <2>2 DEF MessageCommand, PersonalMessageFirst, PersonalMessageMore
  <1> QED
    BY <1>1, <1>5, <1>6, <1>7 DEF MessageStep, Stated, TransactionReview, Reviewing

\* The other commands leave the session alone.
LEMMA OtherKinds == TypeOK /\ OtherCommand => QuietStep
  <1> SUFFICES ASSUME TypeOK, OtherCommand PROVE QuietStep
    OBVIOUS
  <1>1. ASSUME UNCHANGED <<txContext, txContent, msg>>, review = NoReview,
               \/ review' = NoReview
               \/ review'.state \in {"APPROVAL_VERIFY_ADDRESS", "APPROVAL_SHARED_ECDH_SECRET",
                                     "APPROVAL_SIGN_TIP72_TRANSACTION"}
               \/ /\ review'.state = "APPROVAL_SIMPLE_TRANSACTION"
                  /\ transactionContext'.hash[1] # "tx",
               \/ flow' = "none"
               \/ review' = NoReview /\ UNCHANGED <<flow, transactionContext, personal_msg_ctx>>
        PROVE  QuietStep
    BY <1>1 DEF QuietStep, Stated, TransactionReview, Reviewing, NoReview
  <1>2. ASSUME NEW a, NEW d, handleSignByHash(a, d) PROVE QuietStep
    <2>1. \/ review' = NoReview
          \/ /\ transactionContext'.hash = RawHash(d)
             /\ \E b, c : Display("APPROVAL_SIMPLE_TRANSACTION", b, FALSE, FALSE, c)
      BY <1>2 DEF handleSignByHash, EarlyReturn, Idle, TypeOK, TransactionShape, NoTransaction
    <2>2. UNCHANGED <<txContext, txContent, msg>> /\ review = NoReview /\ flow' = "none"
      BY <1>2 DEF handleSignByHash, OutsideSign, Idle, EarlyReturn
    <2>3. RawHash(d)[1] # "tx"
      BY DEF RawHash
    <2> QED
      BY <1>1, <2>1, <2>2, <2>3, DisplayState
  <1>3. ASSUME NEW a, NEW d, NEW h, handleSignTIP712Message(a, d, h) PROVE QuietStep
    <2>1. \/ review' = NoReview
          \/ \E b, c : Display("APPROVAL_SIGN_TIP72_TRANSACTION", b, FALSE, FALSE, c)
      BY <1>3 DEF handleSignTIP712Message, EarlyReturn, Idle
    <2>2. UNCHANGED <<txContext, txContent, msg>> /\ review = NoReview /\ flow' = "none"
      BY <1>3 DEF handleSignTIP712Message, OutsideSign, Idle, EarlyReturn
    <2> QED
      BY <1>1, <2>1, <2>2, DisplayState
  <1>4. ASSUME NEW a, NEW peer, handleECDHSecret(a, peer) PROVE QuietStep
    <2>1. \/ review' = NoReview
          \/ \E b, c : Display("APPROVAL_SHARED_ECDH_SECRET", b, FALSE, FALSE, c)
      BY <1>4 DEF handleECDHSecret, EarlyReturn, Idle
    <2>2. UNCHANGED <<txContext, txContent, msg>> /\ review = NoReview /\ flow' = "none"
      BY <1>4 DEF handleECDHSecret, OutsideSign, Idle, EarlyReturn
    <2> QED
      BY <1>1, <2>1, <2>2, DisplayState
  <1>5. ASSUME NEW confirm, NEW chaincode, NEW a, handleGetPublicKey(confirm, chaincode, a)
        PROVE  QuietStep
    BY <1>1, <1>5 DEF handleGetPublicKey, OutsideSign, Idle
  <1>6. CASE handleGetAppConfiguration \/ RefusedInstruction \/ RefusedApdu
    BY <1>1, <1>6 DEF handleGetAppConfiguration, RefusedInstruction, RefusedApdu, AnswerOnly,
                      Idle, session
  <1> QED
    BY <1>2, <1>3, <1>4, <1>5, <1>6 DEF OtherCommand

\* The user moves on, ends the session or answers about something else.
LEMMA UserKinds == TypeOK /\ Stated /\ User => QuietStep \/ CloseStep \/ ScreenStep
  <1> SUFFICES ASSUME TypeOK, Stated, User PROVE QuietStep \/ CloseStep \/ ScreenStep
    OBVIOUS
  <1>1. CASE AcceptWarning
    <2>1. /\ review'.state = review.state /\ review'.fields = review.fields /\ Reviewing
          /\ UNCHANGED <<settings, txContext, txContent, msg, transactionContext,
                         personal_msg_ctx, flow>>
      BY <1>1 DEF AcceptWarning, CallbackFrame
    <2>2. review' # NoReview
      BY <2>1 DEF Stated, NoReview
    <2> QED
      BY <2>1, <2>2 DEF ScreenStep, Reviewing
  <1>2. CASE Reject \/ Approve
    <2>1. /\ review' = NoReview /\ Reviewing
          /\ UNCHANGED <<flow, msg, transactionContext, personal_msg_ctx>>
      BY <1>2 DEF Reject, Approve, ReviewOver, CallbackFrame
    <2>2. CASE Terminated
      BY <2>1, <2>2 DEF CloseStep, Terminated
    <2>3. CASE ~Terminated
      <3>1. /\ UNCHANGED <<txContext, txContent>>
            /\ review.state \in {"APPROVAL_VERIFY_ADDRESS", "APPROVAL_SHARED_ECDH_SECRET",
                                 "APPROVAL_SIGN_PERSONAL_MESSAGE",
                                 "APPROVAL_SIGN_TIP72_TRANSACTION"}
        BY <1>2, <2>3 DEF Reject, Approve, ui_callback_tx_cancel, ui_callback_tx_ok,
              ui_callback_signMessage_ok, ui_callback_ecdh_ok,
              ui_callback_signMessage712_v0_ok, ui_callback_address_ok
      <3> QED
        BY <2>1, <3>1 DEF QuietStep, Stated, TransactionReview, Reviewing, NoReview
    <2> QED
      BY <2>2, <2>3
  <1> QED
    BY <1>1, <1>2 DEF User

\* Every step is of one kind.
LEMMA StepKinds ==
    TypeOK /\ Stated /\ [Next]_vars =>
        SignStep \/ LabelStep \/ MessageStep \/ QuietStep \/ CloseStep \/ ScreenStep
  <1> SUFFICES ASSUME TypeOK, Stated, [Next]_vars
               PROVE  SignStep \/ LabelStep \/ MessageStep \/ QuietStep \/ CloseStep
                          \/ ScreenStep
    OBVIOUS
  <1>1. ASSUME NEW s, ToggleSetting(s) PROVE QuietStep
    BY <1>1 DEF ToggleSetting, Idle, QuietStep, Stated, session, TransactionReview, Reviewing,
                NoReview
  <1>2. CASE IoReset \/ Relaunch
    BY <1>2 DEF IoReset, Relaunch, Terminated, ReviewOver, Idle, CloseStep
  <1>3. CASE UNCHANGED vars
    BY <1>3 DEF vars, ScreenStep, Reviewing
  <1> QED
    BY <1>1, <1>2, <1>3, SignKinds, MessageKinds, OtherKinds, UserKinds DEF Next

\* handleSign apart, a secret needs a review.
LEMMA SecretSource == TypeOK /\ [Next]_vars => SignStep \/ KeepsSecrets
  <1> SUFFICES ASSUME TypeOK, [Next]_vars PROVE SignStep \/ KeepsSecrets
    OBVIOUS
  <1>1. CASE SignCommand
    BY <1>1, SignKinds
  <1>2. CASE MessageCommand
    <2>1. ASSUME NEW path, NEW ctx, NEW left, NEW size, NEW p2, MessageData(path, ctx, left, size, p2)
          PROVE  KeepsSecrets
      BY <2>1, PlainAnswer DEF MessageData, EarlyReturn
    <2>2. ASSUME NEW sw, EarlyReturn(sw) PROVE KeepsSecrets
      BY <2>2, PlainAnswer DEF EarlyReturn
    <2> QED
      BY <1>2, <2>1, <2>2 DEF MessageCommand, PersonalMessageFirst, PersonalMessageMore
  <1>3. CASE OtherCommand
    <2>1. ASSUME NEW key, Send("E_OK", PublicKey(key)) PROVE KeepsSecrets
      BY <2>1 DEF Send, Answer, PublicKey, KeepsSecrets
    <2>2. ASSUME NEW flags, Send("E_OK", Configuration(flags)) PROVE KeepsSecrets
      BY <2>2 DEF Send, Answer, Configuration, KeepsSecrets
    <2>3. ASSUME NEW sw, EarlyReturn(sw) \/ AnswerOnly(sw) \/ SendSw(sw) PROVE KeepsSecrets
      BY <2>3, PlainAnswer DEF EarlyReturn, AnswerOnly
    <2>4. ASSUME NEW a, NEW d, handleSignByHash(a, d) PROVE KeepsSecrets
      BY <2>3, <2>4, PlainAnswer DEF handleSignByHash
    <2>5. ASSUME NEW a, NEW d, NEW h, handleSignTIP712Message(a, d, h) PROVE KeepsSecrets
      BY <2>3, <2>5, PlainAnswer DEF handleSignTIP712Message
    <2>6. ASSUME NEW a, NEW peer, handleECDHSecret(a, peer) PROVE KeepsSecrets
      BY <2>3, <2>6, PlainAnswer DEF handleECDHSecret
    <2>7. ASSUME NEW confirm, NEW chaincode, NEW a, handleGetPublicKey(confirm, chaincode, a)
          PROVE  KeepsSecrets
      BY <2>1, <2>3, <2>7, PlainAnswer DEF handleGetPublicKey
    <2> QED
      BY <1>3, <2>2, <2>3, <2>4, <2>5, <2>6, <2>7
      DEF OtherCommand, handleGetAppConfiguration, RefusedInstruction, RefusedApdu
  <1>4. CASE User
    BY <1>4 DEF User, AcceptWarning, Reject, Approve, KeepsSecrets
  <1>5. CASE (\E s \in Toggles : ToggleSetting(s)) \/ UNCHANGED vars
    BY <1>5 DEF ToggleSetting, vars, KeepsSecrets
  <1>6. CASE IoReset \/ Relaunch
    BY <1>6, PlainAnswer DEF IoReset, Relaunch
  <1> QED
    BY <1>1, <1>2, <1>3, <1>4, <1>5, <1>6 DEF Next

\* What is on the screen keeps its approval state.
LEMMA NextStated == TypeOK /\ Stated /\ [Next]_vars => Stated'
  <1> SUFFICES ASSUME TypeOK, Stated, [Next]_vars PROVE Stated'
    OBVIOUS
  <1>1. CASE SignStep
    <2>1. PICK p1, chunk, context, content, tc : Idle /\ SignChunk(p1, chunk, context, content, tc)
      BY <1>1 DEF SignStep
    <2>2. ASSUME NEW grown, NEW parsed, NEW permissions, FinishSign(grown, parsed, permissions, tc)
          PROVE  \/ review' = NoReview
                 \/ \E b, isTrigger, data_warning, c :
                        Display(ApprovalState(parsed), b, isTrigger, data_warning, c)
      BY <2>2 DEF FinishSign
    <2>3. review' = NoReview \/ \E parsed : review'.state = ApprovalState(parsed)
      BY <2>1, <2>2, DisplayState DEF SignChunk, Idle
    <2> QED
      BY <2>3, SignStates DEF Stated, Reviewing
  <1>2. CASE LabelStep \/ CloseStep
    BY <1>2 DEF LabelStep, CloseStep, Idle, Stated, Reviewing
  <1>3. CASE ScreenStep
    BY <1>3 DEF ScreenStep, Stated
  <1> QED
    BY <1>1, <1>2, <1>3, StepKinds DEF MessageStep, QuietStep

-----------------------------------------------------------------------------
(* A hash is finalised once.                                               *)

\* The numbers that handleSign prints with print_amount, for a contract of a type
\* with the fields p and a fee limit.
Printed(type, p, fee) ==
    CASE type = "TRIGGERSMARTCONTRACT" /\ p.TRC20Method = 0 ->
            {p.amount[1], Unsigned(p.callTokenValue), fee}
      [] type = "TRIGGERSMARTCONTRACT" /\ p.TRC20Method # 0 -> {fee}
      [] type = "EXCHANGECREATECONTRACT" -> {p.amount[1], p.amount[2]}
      [] type \in {"EXCHANGEINJECTCONTRACT", "EXCHANGEWITHDRAWCONTRACT"} ->
            {p.exchangeID, p.amount[1]}
      [] type = "EXCHANGETRANSACTIONCONTRACT" -> {p.exchangeID, p.amount[1], p.amount[2]}
      [] type \in {"TRANSFERCONTRACT", "TRANSFERASSETCONTRACT",
                   "FREEZEBALANCECONTRACT", "FREEZEBALANCEV2CONTRACT",
                   "UNFREEZEBALANCEV2CONTRACT", "DELEGATERESOURCECONTRACT",
                   "UNDELEGATERESOURCECONTRACT"} -> {p.amount[1]}
      [] OTHER -> {}

\* One of them cannot be printed: every attempt at a review throws.
Stuck(content) ==
    \E v \in Printed(content.contractType, content.parsed, content.feeLimit) : Unprintable(v)

\* The invariant: a session behind its finalised hash is under review or stuck.
FeeKept(content) == ~content.feeLimitSeen => content.feeLimit = 0
FinalInv ==
    /\ FeeKept(txContent)
    /\ txContext.final => TransactionReview \/ Stuck(txContent)
    /\ FinalisedOnce

\* A review comes up only when everything can be printed.
LEMMA PassIsPrinted ==
    ASSUME NEW content, NEW permissions, NEW allowed, NEW inSwap,
           ReviewVerdict(content, permissions, allowed, inSwap) = Pass
    PROVE  ~Stuck(content)
  <1> DEFINE type == content.contractType
             p == content.parsed
             printed == Printed(type, p, content.feeLimit)
  <1>1. ContractVerdict(content, permissions, allowed) = Pass
    BY DEF ReviewVerdict, Refuse, Pass
  <1>2. ASSUME NEW values, PrintVerdict(values) = Pass
        PROVE  ~\E v \in values : Unprintable(v)
    BY <1>2 DEF PrintVerdict, Throw, Pass
  <1>3. Refuse("E_INCORRECT_DATA") # Pass /\ Refuse("E_MISSING_SETTING_CUSTOM_CONTRACT") # Pass
    BY DEF Refuse, Pass
  <1>4. printed = {} \/ PrintVerdict(printed) = Pass
    BY <1>1, <1>3 DEF ContractVerdict, CustomCallVerdict, IsCustomCall, Printed
  <1> QED
    BY <1>2, <1>4 DEF Stuck

\* A refusal that keeps the session is a THROW of print_amount.
LEMMA ThrowIsStuck ==
    ASSUME NEW content, NEW permissions, NEW allowed, NEW inSwap,
           ReviewVerdict(content, permissions, allowed, inSwap) # Pass,
           ~ReviewVerdict(content, permissions, allowed, inSwap).ends
    PROVE  Stuck(content)
  <1> DEFINE printed == Printed(content.contractType, content.parsed, content.feeLimit)
             verdict == ContractVerdict(content, permissions, allowed)
  <1>1. ASSUME NEW sw PROVE Refuse(sw).ends
    BY DEF Refuse
  <1>2. verdict # Pass /\ ~verdict.ends
    BY <1>1 DEF ReviewVerdict
  <1>3. verdict = PrintVerdict(printed)
    BY <1>1, <1>2 DEF ContractVerdict, CustomCallVerdict, VotesVerdict, IsCustomCall, Printed
  <1> QED
    BY <1>2, <1>3 DEF PrintVerdict, Stuck

\* What is printed but for the fee limit does not depend on the fee limit.
LEMMA PrintedBesidesFee ==
    ASSUME NEW type, NEW p, NEW fee, NEW v \in Printed(type, p, fee)
    PROVE  v = fee \/ \A f : v \in Printed(type, p, f)
  BY DEF Printed

\* A chunk that the parser accepts after the contract cannot free a stuck session.
LEMMA StuckStays ==
    ASSUME NEW content, ContentShape(content), content.contractSeen, FeeKept(content),
           Stuck(content), NEW chunk, NEW allowed,
           processTxStatus(content, chunk, allowed) \in {"USTREAM_PROCESSING", "USTREAM_FINISHED"}
    PROVE  Stuck(processTxContent(content, chunk))
  <1> DEFINE c == processTxContent(content, chunk)
  <1>1. CASE chunk.len = 0
    BY <1>1 DEF processTxContent
  <1>2. CASE chunk.len # 0
    <2>1. ~HasContract(chunk) /\ ~FeeLimitConflict(content, chunk)
      BY <1>2 DEF processTxStatus, ContractRefused
    <2>2. /\ c.contractType = content.contractType
          /\ c.parsed = content.parsed
          /\ feeLimit(chunk) = 0 => c.feeLimit = content.feeLimit
          /\ feeLimit(chunk) # 0 => c.feeLimit = feeLimit(chunk)
      BY <1>2, <2>1 DEF processTxContent, pb_get_tx_data_size, feeLimitOf, ContentShape, ZeroContent
    <2> HIDE DEF c
    <2>3. PICK v \in Printed(content.contractType, content.parsed, content.feeLimit) : Unprintable(v)
      BY DEF Stuck
    <2>4. CASE v = content.feeLimit
      <3>1. content.feeLimitSeen
        BY <2>3, <2>4, PrintableAssumption DEF FeeKept, Unprintable, ContentShape
      <3>2. c.feeLimit = content.feeLimit
        BY <2>1, <2>2, <3>1 DEF FeeLimitConflict
      <3> QED
        BY <2>2, <2>3, <3>2 DEF Stuck, c
    <2>5. CASE v # content.feeLimit
      BY <2>2, <2>3, <2>5, PrintedBesidesFee DEF Stuck, c
    <2> QED
      BY <2>4, <2>5
  <1> QED
    BY <1>1, <1>2

\* The parser keeps a fee limit only with its mark.
LEMMA FeeStaysKept ==
    ASSUME NEW content, ContentShape(content), FeeKept(content), NEW chunk
    PROVE  FeeKept(processTxContent(content, chunk))
  BY DEF FeeKept, processTxContent, pb_get_tx_data_size, feeLimitOf, contractOf, ContentShape,
         ZeroContent

\* A session that is stuck has its contract.
LEMMA StuckIsSeen ==
    ASSUME NEW chunks, NEW content, Agrees(chunks, content), ContentShape(content), Stuck(content)
    PROVE  content.contractSeen
  <1> SUFFICES ASSUME ~content.contractSeen PROVE FALSE
    BY DEF ContentShape
  <1>1. Printed("INVALID_CONTRACT", content.parsed, content.feeLimit) = {}
    BY DEF Printed
  <1> QED
    BY <1>1 DEF Stuck, Agrees

\* handleSign keeps the invariant.
LEMMA SignChunkFinal ==
    ASSUME HashInv, FinalInv, Idle,
           NEW p1, NEW chunk \in Chunks \cup {EmptyChunk},
           NEW context \in Contexts, NEW content, ContentShape(content), FeeKept(content),
           Agrees(context.sha2, content), context.final => Stuck(content),
           NEW tc, TransactionShape(tc),
           SignChunk(p1, chunk, context, content, tc)
    PROVE  FinalInv'
  <1> DEFINE status == processTxStatus(content, chunk, "S_DATA_ALLOWED" \in settings)
             grown == absorb(context, chunk)
             parsed == processTxContent(content, chunk)
             permissions == processTxMsg(msg, chunk)
             verdict == ReviewVerdict(parsed, permissions, settings, InSwap)
  <1>1. grown \in Contexts /\ grown.final = context.final /\ FeeKept(parsed)
    BY AbsorbType, FeeStaysKept DEF absorb, Contexts
  <1>2. status \in {"USTREAM_PROCESSING", "USTREAM_FINISHED"} /\ context.final => Stuck(parsed)
    BY StuckIsSeen, StuckStays
  <1>3. FeeKept(ZeroContent) /\ ~NoContext.final /\ ~FreshContext(context.opened).final
    BY DEF FeeKept, ZeroContent, NoContext, FreshContext
  <1>4. context.final \in BOOLEAN
    BY DEF Contexts
  <1> HIDE DEF status, grown, parsed, permissions, verdict
  <1>5. ASSUME review' = NoReview PROVE FinalisedOnce' /\ ~TransactionReview'
    BY <1>5 DEF FinalisedOnce, TransactionReview, Reviewing
  <1>6. CASE /\ status \in {"USTREAM_PROCESSING", "USTREAM_FINISHED"}
             /\ FinishSign(grown, parsed, permissions, tc)
    <2>1. CASE Terminated /\ review' = NoReview
      BY <1>3, <1>5, <2>1 DEF Terminated, FinalInv
    <2>2. CASE verdict # Pass /\ ~verdict.ends /\ txContent' = parsed /\ review' = NoReview
      <3>1. Stuck(parsed)
        BY <2>2, ThrowIsStuck DEF verdict
      <3> QED
        BY <1>1, <1>5, <2>2, <3>1 DEF FinalInv
    <2>3. CASE /\ verdict = Pass /\ txContent' = parsed
               /\ transactionContext' = [tc EXCEPT !.hash = TxHash(grown.sha2, grown.final)]
               /\ \E b, isTrigger, data_warning, c :
                      Display(ApprovalState(parsed), b, isTrigger, data_warning, c)
      <3>1. ~grown.final
        BY <1>1, <1>2, <1>4, <1>6, <2>3, PassIsPrinted DEF verdict
      <3>2. transactionContext'.hash = TxHash(grown.sha2, grown.final)
        BY <2>3 DEF TransactionShape, NoTransaction
      <3>3. review'.state = ApprovalState(parsed)
        BY <2>3, DisplayState
      <3>4. TransactionReview' /\ ~transactionContext'.hash[3]
        BY <3>1, <3>2, <3>3, SignStates DEF TransactionReview, Reviewing, NoReview, TxHash
      <3> QED
        BY <1>1, <2>3, <3>4 DEF FinalInv, FinalisedOnce
    <2>4. \/ Terminated /\ review' = NoReview
          \/ verdict # Pass /\ ~verdict.ends /\ txContent' = parsed /\ review' = NoReview
          \/ /\ verdict = Pass /\ txContent' = parsed
             /\ \E b, isTrigger, data_warning, c :
                    Display(ApprovalState(parsed), b, isTrigger, data_warning, c)
      BY <1>6 DEF FinishSign, verdict
    <2>5. transactionContext' = [tc EXCEPT !.hash = TxHash(grown.sha2, grown.final)]
      BY <1>6 DEF FinishSign
    <2> QED
      BY <2>1, <2>2, <2>3, <2>4, <2>5
  <1>7. CASE UNCHANGED session /\ review' = NoReview
    BY <1>5, <1>7 DEF FinalInv, session, Idle, TransactionReview, Reviewing
  <1>8. CASE /\ txContext' = FreshContext(context.opened) /\ txContent' = ZeroContent
             /\ review' = NoReview
    BY <1>3, <1>5, <1>8 DEF FinalInv
  <1>9. CASE /\ status = "USTREAM_PROCESSING" /\ txContext' = grown /\ txContent' = parsed
             /\ review' = NoReview
    BY <1>1, <1>2, <1>5, <1>9 DEF FinalInv
  <1> QED
    BY <1>6, <1>7, <1>8, <1>9 DEF SignChunk, Idle, status, grown, parsed, permissions

\* A metadata command changes nothing of the content but the labels.
LEMMA RelabelledFrame ==
    ASSUME TypeOK, NEW content, Relabelled(content)
    PROVE  /\ ContentShape(content)
           /\ content.contractSeen = txContent.contractSeen
           /\ content.contractType = txContent.contractType
           /\ content.permission_id = txContent.permission_id
           /\ content.parsed = txContent.parsed
           /\ content.dataBytes = txContent.dataBytes
           /\ content.feeLimitSeen = txContent.feeLimitSeen
           /\ content.feeLimit = txContent.feeLimit
  <1>1. PICK tokens : content = [txContent EXCEPT !.tokens = tokens]
    BY DEF Relabelled
  <1> QED
    BY <1>1, TokensShape DEF TypeOK, ContentShape, ZeroContent

\* handleSign goes on from a session of the right shape that agrees with its hash.
LEMMA SeedAgrees ==
    ASSUME HashInv, NEW context, NEW content, NEW chunk, NEW tc,
           Opened(context, content, tc) \/ Continued(context, content, chunk, tc)
    PROVE  /\ context \in Contexts /\ ContentShape(content) /\ TransactionShape(tc)
           /\ Agrees(context.sha2, content)
  <1>1. CASE Opened(context, content, tc)
    <2>1. PICK a \in Paths : /\ context = FreshContext(a)
                             /\ tc = [transactionContext EXCEPT !.path = a]
      BY <1>1 DEF Opened
    <2>2. TransactionShape(tc)
      BY <2>1 DEF HashInv, TypeOK, TransactionShape, NoTransaction, StoredPaths
    <2> QED
      BY <1>1, <2>1, <2>2, FreshType, ClosedType, EmptyAgrees DEF Opened
  <1>2. CASE Continued(context, content, chunk, tc)
    <2>1. CASE content = txContent
      BY <1>2, <2>1 DEF Continued, HashInv, TypeOK, SessionInv
    <2>2. CASE Relabelled(content)
      <3>1. Agrees(txContext.sha2, content)
        BY <2>2, RelabelledFrame, AgreesFrame DEF HashInv, SessionInv
      <3> QED
        BY <1>2, <2>2, <3>1, RelabelledFrame DEF Continued, HashInv, TypeOK
    <2> QED
      BY <1>2, <2>1, <2>2 DEF Continued
  <1> QED
    BY <1>1, <1>2

\* Relabelling frees no session.
LEMMA RelabelledFinal ==
    ASSUME TypeOK, NEW content, Relabelled(content)
    PROVE  /\ FeeKept(txContent) => FeeKept(content)
           /\ Stuck(txContent) => Stuck(content)
  BY RelabelledFrame DEF FeeKept, Stuck

\* Every step keeps the invariant.
LEMMA NextFinal == HashInv /\ Stated /\ FinalInv /\ [Next]_vars => FinalInv'
  <1> SUFFICES ASSUME HashInv, Stated, FinalInv, [Next]_vars PROVE FinalInv'
    OBVIOUS
  <1>1. CASE SignStep
    <2>1. PICK chunk \in Chunks \cup {EmptyChunk} : \E p1, context, content, tc :
              /\ Idle
              /\ Opened(context, content, tc) \/ Continued(context, content, chunk, tc)
              /\ SignChunk(p1, chunk, context, content, tc)
      BY <1>1 DEF SignStep
    <2>2. PICK p1, context, content, tc :
              /\ Idle
              /\ Opened(context, content, tc) \/ Continued(context, content, chunk, tc)
              /\ SignChunk(p1, chunk, context, content, tc)
      BY <2>1
    <2>3. /\ context \in Contexts /\ ContentShape(content) /\ TransactionShape(tc)
          /\ Agrees(context.sha2, content)
      BY <2>2, SeedAgrees
    <2>4. FeeKept(content) /\ (context.final => Stuck(content))
      <3>1. CASE Opened(context, content, tc)
        BY <3>1 DEF Opened, FreshContext, FeeKept, ZeroContent
      <3>2. ~TransactionReview
        BY <2>2 DEF Idle, TransactionReview, Reviewing
      <3>3. CASE Continued(context, content, chunk, tc)
        BY <3>2, <3>3, RelabelledFinal DEF Continued, FinalInv, HashInv
      <3> QED
        BY <2>2, <3>1, <3>3
    <2> QED
      BY <2>2, <2>3, <2>4, SignChunkFinal
  <1>2. CASE LabelStep
    BY <1>2, RelabelledFinal
    DEF LabelStep, FinalInv, HashInv, Idle, FinalisedOnce, TransactionReview, Reviewing
  <1>3. CASE MessageStep
    <2>1. FeeKept(txContent') /\ (Stuck(txContent) => Stuck(txContent'))
      BY <1>3 DEF MessageStep, FinalInv, FeeKept, Stuck, HashInv, TypeOK, ContentShape, ZeroContent
    <2>2. ~TransactionReview /\ ~TransactionReview' /\ UNCHANGED txContext
      BY <1>3 DEF MessageStep, Idle, TransactionReview, Reviewing
    <2> QED
      BY <2>1, <2>2 DEF FinalInv, FinalisedOnce
  <1>4. CASE QuietStep
    BY <1>4 DEF QuietStep, FinalInv, FinalisedOnce
  <1>5. CASE CloseStep
    BY <1>5 DEF CloseStep, FinalInv, FinalisedOnce, FeeKept, NoContext, ZeroContent,
                TransactionReview, Reviewing
  <1>6. CASE ScreenStep
    <2>1. /\ UNCHANGED <<txContext, txContent, transactionContext>>
          /\ TransactionReview' <=> TransactionReview
      BY <1>6 DEF ScreenStep, TransactionReview
    <2> QED
      BY <2>1 DEF FinalInv, FinalisedOnce
  <1> QED
    BY <1>1, <1>2, <1>3, <1>4, <1>5, <1>6, StepKinds DEF HashInv

\* The initial state satisfies the invariant.
LEMMA InitFinal == Init => Stated /\ FinalInv
  BY DEF Init, Stated, FinalInv, FeeKept, FinalisedOnce, NoContext, ZeroContent,
         TransactionReview, Reviewing

\* A hash under review comes from a context that was finalised once: no command
\* brings a session to a review after a THROW, whatever the chunks and the
\* metadata that come in between.
THEOREM HashFinalisedOnce == Spec => []FinalisedOnce
  <1>1. FinalInv => FinalisedOnce
    BY DEF FinalInv
  <1>2. HashInv => TypeOK
    BY DEF HashInv
  <1> QED
    BY <1>1, <1>2, InitHash, NextHash, InitFinal, NextStated, NextFinal, PTL DEF Spec

-----------------------------------------------------------------------------
(* The data of a transaction.                                              *)

\* txContent.dataBytes is the size in the last chunk that has a data field.
DataAgrees(chunks, content) ==
    \/ DataChunks(chunks) = {} /\ content.dataBytes = 0
    \/ \E i \in DataChunks(chunks) :
          content.dataBytes = chunks[i].data /\ \A j \in DataChunks(chunks) : j <= i

\* A session that has absorbed nothing has no data.
LEMMA EmptyData == DataAgrees(<<>>, ZeroContent)
  BY DEF DataAgrees, DataChunks, ZeroContent

\* Then the counter tells whether the hashed transaction carries data.
LEMMA DataMeaning ==
    ASSUME NEW chunks \in Seq(Chunks), NEW content, DataAgrees(chunks, content)
    PROVE  content.dataBytes > 0 <=> CarriesData(chunks)
  <1>1. DataChunks(chunks) \subseteq Nat
    BY DEF DataChunks
  <1>2. CASE DataChunks(chunks) = {} /\ content.dataBytes = 0
    BY <1>2 DEF CarriesData
  <1>3. ASSUME NEW i \in DataChunks(chunks), content.dataBytes = chunks[i].data,
               \A j \in DataChunks(chunks) : j <= i
        PROVE  content.dataBytes > 0 <=> CarriesData(chunks)
    <2>1. ASSUME NEW k \in DataChunks(chunks), \A j \in DataChunks(chunks) : j <= k
          PROVE  k = i
      BY <1>1, <1>3, <2>1
    <2> QED
      BY <1>3, <2>1 DEF CarriesData
  <1> QED
    BY <1>2, <1>3 DEF DataAgrees

\* The parser keeps the agreement with every chunk.
LEMMA AbsorbData ==
    ASSUME NEW context \in Contexts, NEW content, ContentShape(content),
           DataAgrees(context.sha2, content), NEW chunk \in Chunks \cup {EmptyChunk}
    PROVE  DataAgrees(absorb(context, chunk).sha2, processTxContent(content, chunk))
  <1> DEFINE chunks == context.sha2
             c == processTxContent(content, chunk)
             grown == Append(chunks, chunk)
             n == Len(chunks) + 1
  <1>1. CASE chunk.len = 0
    BY <1>1, AbsorbType DEF processTxContent
  <1>2. CASE chunk.len # 0
    <2>0. chunks \in Seq(Chunks)
      BY DEF Contexts
    <2>1. /\ DOMAIN grown = 1..n /\ DOMAIN chunks = 1..(n - 1) /\ n \in Nat \ {0}
          /\ grown[n] = chunk
          /\ \A i \in DOMAIN chunks : grown[i] = chunks[i]
      BY <2>0
    <2>2. /\ chunk.data = NoData => c.dataBytes = content.dataBytes
          /\ chunk.data # NoData => c.dataBytes = chunk.data
      BY <1>2 DEF processTxContent, pb_get_tx_data_size, feeLimitOf, contractOf, ContentShape,
                  ZeroContent
    <2>3. absorb(context, chunk).sha2 = grown
      BY <1>2, AbsorbType
    <2> HIDE DEF chunks, c, grown, n
    <2>4. ASSUME NEW i
          PROVE  i \in DataChunks(grown)
                    <=> i \in DataChunks(chunks) \/ (i = n /\ chunk.data # NoData)
      BY <2>1 DEF DataChunks
    <2>5. \A i \in DataChunks(chunks) : i \in Nat /\ i < n /\ grown[i] = chunks[i]
      BY <2>1 DEF DataChunks
    <2>6. CASE chunk.data # NoData
      <3>1. n \in DataChunks(grown) /\ \A j \in DataChunks(grown) : j <= n
        BY <2>1, <2>4, <2>5, <2>6
      <3> QED
        BY <2>1, <2>2, <2>3, <2>6, <3>1 DEF DataAgrees, c
    <2>7. CASE chunk.data = NoData
      <3>1. DataChunks(grown) = DataChunks(chunks)
        BY <2>4, <2>7
      <3>2. DataAgrees(grown, c)
        BY <2>2, <2>5, <2>7, <3>1 DEF DataAgrees, chunks
      <3> QED
        BY <2>3, <3>2 DEF c
    <2> QED
      BY <2>6, <2>7
  <1> QED
    BY <1>1, <1>2

\* Only the byte counter counts.
LEMMA DataFrame ==
    ASSUME NEW chunks, NEW content, NEW content2, DataAgrees(chunks, content),
           content2.dataBytes = content.dataBytes
    PROVE  DataAgrees(chunks, content2)
  BY DEF DataAgrees

-----------------------------------------------------------------------------
(* One flow at a time: the path, the data and the message of one flow.     *)

\* The invariant of a host that finishes or abandons a flow before the next: in
\* the flow of a transaction the path and the byte counter are its own, in the
\* flow of a personal message the counter is what is still due.
FlowInv ==
    /\ Reviewing => flow = "none"
    /\ flow = "sign" =>
          /\ transactionContext.path = txContext.opened
          /\ DataAgrees(txContext.sha2, txContent)
    /\ flow = "message" =>
          /\ txContent.dataBytes \in Nat
          /\ personal_msg_ctx.announced = personal_msg_ctx.got + txContent.dataBytes
    /\ SignedWithOpeningPath
    /\ MessageComplete

\* Nothing to say on the home screen outside a flow.
LEMMA HomeFlow ==
    ASSUME review' = NoReview, flow' = "none"
    PROVE  FlowInv'
  BY DEF FlowInv, SignedWithOpeningPath, MessageComplete, TransactionReview, Reviewing, NoReview

\* In a transaction's flow handleSign goes on from its path and its data.
LEMMA SeedFlow ==
    ASSUME SequentialHost, HashInv, FlowInv, NEW context, NEW content, NEW chunk, NEW tc,
           Opened(context, content, tc) \/ Continued(context, content, chunk, tc)
    PROVE  tc.path = context.opened /\ DataAgrees(context.sha2, content)
  <1>1. CASE Opened(context, content, tc)
    BY <1>1, EmptyData
    DEF Opened, FreshContext, HashInv, TypeOK, TransactionShape, NoTransaction
  <1>2. CASE Continued(context, content, chunk, tc)
    <2>1. flow = "sign"
      BY <1>2 DEF Continued, HostContinues
    <2>2. DataAgrees(txContext.sha2, content)
      BY <1>2, <2>1, RelabelledFrame, DataFrame DEF Continued, FlowInv, HashInv
    <2> QED
      BY <1>2, <2>1, <2>2 DEF Continued, FlowInv
  <1> QED
    BY <1>1, <1>2

\* handleSign shows the review of the session it was given, the chunk absorbed.
Shows(chunk, context, content, tc) ==
    LET grown == absorb(context, chunk)
        parsed == processTxContent(content, chunk)
        permissions == processTxMsg(msg, chunk)
        hash == TxHash(grown.sha2, grown.final)
        c == ResolveContacts(NoContacts, parsed)
    IN  /\ ~InSwap /\ context.initialized
        /\ processTxStatus(content, chunk, "S_DATA_ALLOWED" \in settings)
              \in {"USTREAM_PROCESSING", "USTREAM_FINISHED"}
        /\ ReviewVerdict(parsed, permissions, settings, InSwap) = Pass
        /\ txContext' = [grown EXCEPT !.final = TRUE]
        /\ txContent' = parsed /\ msg' = permissions
        /\ transactionContext' = [tc EXCEPT !.hash = hash]
        /\ contacts' = c
        /\ Display(ApprovalState(parsed), Buffers(parsed, permissions, hash),
                   parsed.contractType = "TRIGGERSMARTCONTRACT", parsed.dataBytes > 0, c)
        /\ flow' = "none"

\* That is the only way for INS_SIGN to a review.
LEMMA SignReview ==
    ASSUME Idle, NEW p1, NEW chunk, NEW context, NEW content, NEW tc,
           SignChunk(p1, chunk, context, content, tc), Reviewing'
    PROVE  Shows(chunk, context, content, tc)
  <1> DEFINE grown == absorb(context, chunk)
             parsed == processTxContent(content, chunk)
             permissions == processTxMsg(msg, chunk)
  <1>1. /\ FinishSign(grown, parsed, permissions, tc) /\ context.initialized /\ flow' = "none"
        /\ processTxStatus(content, chunk, "S_DATA_ALLOWED" \in settings)
               \in {"USTREAM_PROCESSING", "USTREAM_FINISHED"}
    BY DEF SignChunk, Idle, Reviewing
  <1> HIDE DEF grown, parsed, permissions
  <1> QED
    BY <1>1 DEF FinishSign, Reviewing, dispatched, Shows, grown, parsed, permissions

\* handleSign keeps the invariant.
LEMMA SignChunkFlow ==
    ASSUME Idle, NEW p1, NEW chunk \in Chunks \cup {EmptyChunk},
           NEW context \in Contexts, NEW content, ContentShape(content),
           NEW tc, TransactionShape(tc),
           tc.path = context.opened, DataAgrees(context.sha2, content),
           SignChunk(p1, chunk, context, content, tc)
    PROVE  FlowInv'
  <1> DEFINE grown == absorb(context, chunk)
             parsed == processTxContent(content, chunk)
  <1>1. grown \in Contexts /\ grown.opened = context.opened
    BY AbsorbType
  <1>2. DataAgrees(grown.sha2, parsed)
    BY AbsorbData
  <1> HIDE DEF grown, parsed
  <1>3. CASE review' = NoReview
    <2>1. CASE flow' = "none"
      BY <1>3, <2>1, HomeFlow
    <2>2. CASE flow' # "none"
      <3>1. flow' = "sign" /\ txContext' = grown /\ txContent' = parsed /\ transactionContext' = tc
        BY <2>2 DEF SignChunk, grown, parsed
      <3> QED
        BY <1>1, <1>2, <1>3, <3>1
        DEF FlowInv, SignedWithOpeningPath, MessageComplete, TransactionReview, Reviewing, NoReview
    <2> QED
      BY <2>1, <2>2
  <1>4. CASE review' # NoReview
    <2>1. /\ txContext' = [grown EXCEPT !.final = TRUE] /\ flow' = "none"
          /\ \E h : transactionContext' = [tc EXCEPT !.hash = h]
          /\ \E b, isTrigger, data_warning, c :
                Display(ApprovalState(parsed), b, isTrigger, data_warning, c)
      <3>1. Shows(chunk, context, content, tc)
        BY <1>4, SignReview DEF Reviewing
      <3> QED
        BY <3>1 DEF Shows, grown, parsed
    <2>2. review'.state # "APPROVAL_SIGN_PERSONAL_MESSAGE"
      BY <2>1, DisplayState, SignStates
    <2>3. transactionContext'.path = tc.path /\ txContext'.opened = context.opened
      BY <1>1, <2>1 DEF Contexts, TransactionShape, NoTransaction
    <2> QED
      BY <2>1, <2>2, <2>3 DEF FlowInv, SignedWithOpeningPath, MessageComplete
  <1> QED
    BY <1>3, <1>4

\* A message that grows is still due what its counter says, and one that is
\* complete is as long as announced.
LEMMA MessageDataFlow ==
    ASSUME TypeOK, Idle, NEW path, NEW ctx \in Messages, NEW left \in Nat, NEW size \in Nat, NEW p2,
           ctx.announced = ctx.got + left,
           MessageData(path, ctx, left, size, p2)
    PROVE  FlowInv'
  <1> DEFINE grown == absorbMessage(ctx, size)
  <1>0. /\ grown.announced = ctx.announced /\ grown.got = ctx.got + size
        /\ ctx.got \in Nat /\ ctx.announced \in Nat
    BY DEF absorbMessage, Messages
  <1> HIDE DEF grown
  <1>1. CASE review' = NoReview /\ flow' = "none"
    BY <1>1, HomeFlow
  <1>2. CASE /\ size < left /\ flow' = "message" /\ review' = NoReview
             /\ txContent' = [txContent EXCEPT !.dataBytes = left - size]
             /\ personal_msg_ctx' = grown
    <2>1. txContent'.dataBytes = left - size /\ left - size \in Nat
      BY <1>2 DEF TypeOK, ContentShape, ZeroContent
    <2>2. grown.announced = grown.got + (left - size)
      BY <1>0, <1>2
    <2> QED
      BY <1>2, <2>1, <2>2
      DEF FlowInv, SignedWithOpeningPath, MessageComplete, TransactionReview, Reviewing, NoReview
  <1>3. CASE /\ size = left /\ flow' = "none"
             /\ transactionContext' = [transactionContext EXCEPT
                    !.path = path, !.hash = MessageHash(grown.announced, grown.got)]
             /\ \E b, c : Display("APPROVAL_SIGN_PERSONAL_MESSAGE", b, FALSE, FALSE, c)
    <2>1. transactionContext'.hash = MessageHash(grown.announced, grown.got)
      BY <1>3 DEF TypeOK, TransactionShape, NoTransaction
    <2>2. transactionContext'.hash[2] = transactionContext'.hash[3]
      BY <1>0, <1>3, <2>1 DEF MessageHash
    <2>3. review'.state = "APPROVAL_SIGN_PERSONAL_MESSAGE"
      BY <1>3, DisplayState
    <2> QED
      BY <1>3, <2>2, <2>3 DEF FlowInv, SignedWithOpeningPath, MessageComplete, TransactionReview
  <1> QED
    BY <1>1, <1>2, <1>3 DEF MessageData, EarlyReturn, Idle, grown

\* Every step keeps the invariant.
LEMMA NextFlow ==
    ASSUME SequentialHost
    PROVE  HashInv /\ Stated /\ FlowInv /\ [Next]_vars => FlowInv'
  <1> SUFFICES ASSUME HashInv, Stated, FlowInv, [Next]_vars PROVE FlowInv'
    OBVIOUS
  <1>1. CASE SignStep
    <2>1. PICK chunk \in Chunks \cup {EmptyChunk} : \E p1, context, content, tc :
              /\ Idle
              /\ Opened(context, content, tc) \/ Continued(context, content, chunk, tc)
              /\ SignChunk(p1, chunk, context, content, tc)
      BY <1>1 DEF SignStep
    <2>2. PICK p1, context, content, tc :
              /\ Idle
              /\ Opened(context, content, tc) \/ Continued(context, content, chunk, tc)
              /\ SignChunk(p1, chunk, context, content, tc)
      BY <2>1
    <2>3. /\ context \in Contexts /\ ContentShape(content) /\ TransactionShape(tc)
          /\ tc.path = context.opened /\ DataAgrees(context.sha2, content)
      BY <2>2, SeedAgrees, SeedFlow
    <2> QED
      BY <2>2, <2>3, SignChunkFlow
  <1>2. CASE LabelStep
    <2>1. /\ UNCHANGED <<txContext, transactionContext>> /\ review' = NoReview
          /\ flow = "sign" /\ flow' \in {"none", "sign"}
          /\ txContent'.dataBytes = txContent.dataBytes
      BY <1>2, RelabelledFrame DEF LabelStep, Idle, HostContinues, HashInv
    <2>2. DataAgrees(txContext'.sha2, txContent')
      BY <2>1, DataFrame DEF FlowInv
    <2> QED
      BY <2>1, <2>2 DEF FlowInv, SignedWithOpeningPath, MessageComplete, TransactionReview,
                        Reviewing, NoReview
  <1>3. CASE MessageStep
    <2>0. TypeOK /\ Idle
      BY <1>3 DEF MessageStep, HashInv
    <2>1. ASSUME NEW a \in PathArguments, NEW short, NEW n \in MessageLengths,
                 NEW size \in MessageLengths, NEW p2, PersonalMessageFirst(a, short, n, size, p2)
          PROVE  FlowInv'
      <3> DEFINE path == read_bip32_path(transactionContext.path, a)
                 ctx == [initialized |-> TRUE, announced |-> n, got |-> 0]
      <3>1. ctx \in Messages /\ n \in Nat /\ size \in Nat /\ ctx.announced = ctx.got + n
        BY TronAppAssumption DEF Messages
      <3> HIDE DEF path, ctx
      <3>2. CASE MessageData(path, ctx, n, size, p2)
        BY <2>0, <3>1, <3>2, MessageDataFlow
      <3>3. CASE ~MessageData(path, ctx, n, size, p2)
        <4>1. \E sw : EarlyReturn(sw)
          BY <2>1, <3>3 DEF PersonalMessageFirst, path, ctx
        <4> QED
          BY <2>0, <4>1, HomeFlow DEF EarlyReturn, Idle
      <3> QED
        BY <3>2, <3>3
    <2>2. ASSUME NEW size \in MessageLengths, NEW p2, PersonalMessageMore(size, p2)
          PROVE  FlowInv'
      <3>1. /\ flow = "message" /\ size \in Nat /\ personal_msg_ctx \in Messages
            /\ txContent.dataBytes \in Nat
            /\ personal_msg_ctx.announced = personal_msg_ctx.got + txContent.dataBytes
        BY <2>0, <2>2, TronAppAssumption DEF PersonalMessageMore, HostContinues, FlowInv, TypeOK
      <3>2. CASE MessageData(transactionContext.path, personal_msg_ctx, txContent.dataBytes, size, p2)
        BY <2>0, <3>1, <3>2, MessageDataFlow
      <3>3. CASE \E sw : EarlyReturn(sw)
        BY <2>0, <3>3, HomeFlow DEF EarlyReturn, Idle
      <3> QED
        BY <2>2, <3>2, <3>3 DEF PersonalMessageMore
    <2> QED
      BY <1>3, <2>1, <2>2 DEF MessageStep, MessageCommand
  <1>4. CASE QuietStep
    BY <1>4 DEF QuietStep, FlowInv, SignedWithOpeningPath, MessageComplete
  <1>5. CASE CloseStep
    BY <1>5, HomeFlow DEF CloseStep, FlowInv
  <1>6. CASE ScreenStep
    <2>1. /\ UNCHANGED <<txContext, txContent, transactionContext, personal_msg_ctx, flow>>
          /\ Reviewing' <=> Reviewing
          /\ TransactionReview' <=> TransactionReview
          /\ review'.state = review.state
      BY <1>6 DEF ScreenStep, TransactionReview
    <2> QED
      BY <2>1 DEF FlowInv, SignedWithOpeningPath, MessageComplete
  <1> QED
    BY <1>1, <1>2, <1>3, <1>4, <1>5, <1>6, StepKinds DEF HashInv

\* The initial state satisfies the invariant.
LEMMA InitFlow == Init => FlowInv
  BY DEF Init, FlowInv, SignedWithOpeningPath, MessageComplete, TransactionReview, Reviewing,
         NoReview

\* Together with what it rests on.
SequentialInv == HashInv /\ Stated /\ FlowInv

\* It is inductive for a sequential host.
LEMMA SequentialInvariant ==
    ASSUME SequentialHost
    PROVE  Spec => []SequentialInv
  <1>1. Init => SequentialInv
    BY InitHash, InitFinal, InitFlow DEF SequentialInv
  <1>2. SequentialInv /\ [Next]_vars => SequentialInv'
    BY NextHash, NextStated, NextFlow DEF SequentialInv, HashInv
  <1> QED
    BY <1>1, <1>2, PTL DEF Spec

\* With a host that finishes or abandons a flow before the next, a transaction is
\* signed with the key of the path that opened it, although every other handler
\* writes the same path.
THEOREM PathOfTheFlow ==
    ASSUME SequentialHost
    PROVE  Spec => []SignedWithOpeningPath
  <1>1. SequentialInv => SignedWithOpeningPath
    BY DEF SequentialInv, FlowInv
  <1> QED
    BY <1>1, SequentialInvariant, PTL

\* With such a host, a personal message under review is as long as its prefix
\* announces, although its counter is the one that INS_SIGN uses for the data.
THEOREM MessagesComplete ==
    ASSUME SequentialHost
    PROVE  Spec => []MessageComplete
  <1>1. SequentialInv => MessageComplete
    BY DEF SequentialInv, FlowInv
  <1> QED
    BY <1>1, SequentialInvariant, PTL

ScreenNames == {"data warning", "custom contract warning", "review"}

\* Sequences of at most one element.
LEMMA ShortSequences ==
    ASSUME NEW S
    PROVE  /\ <<>> \in Seq(S)
           /\ \A x \in S : <<x>> \in Seq(S) /\ <<x>> # <<>> /\ <<x>>[1] = x
  OBVIOUS

\* Two sequences and an element after them.
LEMMA ThreeParts ==
    ASSUME NEW S, NEW a \in Seq(S), NEW b \in Seq(S), NEW x \in S
    PROVE  /\ a \o b \o <<x>> \in Seq(S)
           /\ Len(a \o b \o <<x>>) >= 1
           /\ Head(a \o b \o <<x>>)
                = IF a # <<>> THEN a[1] ELSE IF b # <<>> THEN b[1] ELSE x
  <1> DEFINE s == a \o b \o <<x>>
  <1>1. /\ s \in Seq(S) /\ Len(s) = Len(a) + Len(b) + 1
        /\ Len(a) \in Nat /\ Len(b) \in Nat
    OBVIOUS
  <1>2. Head(s) = s[1]
    BY <1>1
  <1>3. CASE a # <<>>
    <2>1. Len(a) >= 1
      BY <1>3
    <2> QED
      BY <1>1, <1>2, <1>3, <2>1
  <1>4. CASE a = <<>> /\ b # <<>>
    <2>1. Len(b) >= 1 /\ Len(a) = 0
      BY <1>4
    <2> QED
      BY <1>1, <1>2, <1>4, <2>1
  <1>5. CASE a = <<>> /\ b = <<>>
    <2>1. Len(b) = 0 /\ Len(a) = 0
      BY <1>5
    <2> QED
      BY <1>1, <1>2, <1>5, <2>1
  <1> QED
    BY <1>3, <1>4, <1>5

\* Of the screens of a review, the first is the data warning when one is due.
LEMMA FirstScreen ==
    ASSUME NEW state, NEW data_warning \in BOOLEAN
    PROVE  /\ data_warning <=> Head(Screens(state, data_warning)) = "data warning"
           /\ Screens(state, data_warning) \in Seq(ScreenNames)
           /\ Len(Screens(state, data_warning)) >= 1
  <1> DEFINE warning == "data warning"
             call == "custom contract warning"
             last == "review"
             custom == IF state = "APPROVAL_CUSTOM_CONTRACT" THEN <<call>> ELSE <<>>
             data == IF data_warning THEN <<warning>> ELSE <<>>
  <1>1. Screens(state, data_warning) = data \o custom \o <<last>>
    BY DEF Screens
  <1>2. /\ {warning, call, last} \subseteq ScreenNames
        /\ call # warning /\ last # warning
    BY DEF ScreenNames
  <1> HIDE DEF warning, call, last
  <1>3. /\ custom = <<>> \/ custom = <<call>>
        /\ ~data_warning => data = <<>>
        /\ data_warning => data = <<warning>>
    OBVIOUS
  <1> HIDE DEF custom, data
  <1>4. /\ data \in Seq(ScreenNames) /\ custom \in Seq(ScreenNames)
        /\ ~data_warning => data = <<>>
        /\ data_warning => data # <<>> /\ data[1] = warning
        /\ custom # <<>> => custom[1] = call
    BY <1>2, <1>3, ShortSequences
  <1>5. /\ Screens(state, data_warning) \in Seq(ScreenNames)
        /\ Len(Screens(state, data_warning)) >= 1
        /\ Head(Screens(state, data_warning))
             = IF data # <<>> THEN data[1] ELSE IF custom # <<>> THEN custom[1] ELSE last
    BY <1>1, <1>2, <1>4, ThreeParts
  <1>6. data_warning <=> Head(Screens(state, data_warning)) = warning
    BY <1>2, <1>4, <1>5
  <1> QED
    BY <1>5, <1>6 DEF warning

\* With such a host, a review comes up behind the data warning exactly when the
\* hashed transaction carries data, and then the setting allows it.
THEOREM DataIsWarned ==
    ASSUME SequentialHost
    PROVE  Spec => DataWarned
  <1> DEFINE warned == LET data == CarriesData(HashedChunks')
                       IN  /\ data => "S_DATA_ALLOWED" \in settings
                           /\ data <=> Head(review'.screens) = "data warning"
  <1>1. ASSUME SequentialInv, [Next]_vars, ~Reviewing, TransactionReview' PROVE warned
    <2>1. SignStep
      <3>1. Reviewing' /\ review' # NoReview
        BY <1>1 DEF TransactionReview, Reviewing
      <3>2. ~LabelStep /\ ~CloseStep /\ ~ScreenStep
        BY <1>1, <3>1 DEF LabelStep, CloseStep, ScreenStep, Idle
      <3>3. ~MessageStep /\ ~QuietStep
        BY <1>1 DEF MessageStep, QuietStep
      <3> QED
        BY <1>1, <3>2, <3>3, StepKinds DEF SequentialInv, HashInv
    <2>2. PICK chunk \in Chunks \cup {EmptyChunk} : \E p1, context, content, tc :
              /\ Idle
              /\ Opened(context, content, tc) \/ Continued(context, content, chunk, tc)
              /\ SignChunk(p1, chunk, context, content, tc)
      BY <2>1 DEF SignStep
    <2>3. PICK p1, context, content, tc :
              /\ Idle
              /\ Opened(context, content, tc) \/ Continued(context, content, chunk, tc)
              /\ SignChunk(p1, chunk, context, content, tc)
      BY <2>2
    <2>4. /\ context \in Contexts /\ ContentShape(content) /\ TransactionShape(tc)
          /\ DataAgrees(context.sha2, content)
      BY <1>1, <2>3, SeedAgrees, SeedFlow DEF SequentialInv
    <2>5. Shows(chunk, context, content, tc)
      BY <1>1, <2>3, SignReview DEF TransactionReview
    <2> DEFINE grown == absorb(context, chunk)
               parsed == processTxContent(content, chunk)
               data_warning == parsed.dataBytes > 0
    <2>6. /\ transactionContext' = [tc EXCEPT !.hash = TxHash(grown.sha2, grown.final)]
          /\ review'.screens = Screens(ApprovalState(parsed), data_warning)
          /\ \E permissions : ReviewVerdict(parsed, permissions, settings, InSwap) = Pass
      BY <2>5 DEF Shows, Display
    <2>7. data_warning <=> CarriesData(grown.sha2)
      <3>1. grown \in Contexts /\ DataAgrees(grown.sha2, parsed)
        BY <2>4, AbsorbType, AbsorbData
      <3> QED
        BY <3>1, DataMeaning DEF Contexts
    <2>8. HashedChunks' = grown.sha2
      BY <2>4, <2>6 DEF HashedChunks, TransactionShape, NoTransaction, TxHash
    <2>9. data_warning => "S_DATA_ALLOWED" \in settings
      <3>1. ~DataNotAllowed(parsed, settings)
        BY <2>6 DEF ReviewVerdict, Refuse, Pass
      <3> QED
        BY <3>1 DEF DataNotAllowed
    <2>10. data_warning <=> Head(review'.screens) = "data warning"
      <3>1. data_warning \in BOOLEAN
        OBVIOUS
      <3> HIDE DEF data_warning
      <3> QED
        BY <2>6, <3>1, FirstScreen
    <2> QED
      BY <2>7, <2>8, <2>9, <2>10
  <1>2. SequentialInv /\ [Next]_vars => [~Reviewing /\ TransactionReview' => warned]_vars
    BY <1>1
  <1> QED
    BY <1>2, SequentialInvariant, PTL DEF Spec, DataWarned

-----------------------------------------------------------------------------
(* What handleSign leaves of a session.                                    *)

\* The session goes on, untouched or with the chunk, or it starts again.
LEMMA SignOutcome ==
    ASSUME TypeOK, NEW p1, NEW chunk \in Chunks \cup {EmptyChunk},
           NEW context \in Contexts, NEW content, NEW tc,
           SignChunk(p1, chunk, context, content, tc)
    PROVE  \/ UNCHANGED <<txContext, txContent>>
           \/ txContext'.sha2 = <<>> /\ txContent' = ZeroContent
           \/ /\ processTxStatus(content, chunk, "S_DATA_ALLOWED" \in settings)
                    \in {"USTREAM_PROCESSING", "USTREAM_FINISHED"}
              /\ txContext'.sha2 = absorb(context, chunk).sha2
              /\ txContent' = processTxContent(content, chunk)
  <1> DEFINE grown == absorb(context, chunk)
             parsed == processTxContent(content, chunk)
             permissions == processTxMsg(msg, chunk)
             status == processTxStatus(content, chunk, "S_DATA_ALLOWED" \in settings)
  <1>1. grown \in Contexts
    BY AbsorbType
  <1>2. NoContext.sha2 = <<>> /\ FreshContext(context.opened).sha2 = <<>>
    BY DEF NoContext, FreshContext
  <1> HIDE DEF grown, parsed, permissions, status
  <1>3. ASSUME FinishSign(grown, parsed, permissions, tc)
        PROVE  \/ Terminated
               \/ txContext' = [grown EXCEPT !.final = TRUE] /\ txContent' = parsed
    BY <1>3 DEF FinishSign
  <1>4. CASE /\ FinishSign(grown, parsed, permissions, tc)
             /\ status \in {"USTREAM_PROCESSING", "USTREAM_FINISHED"}
    BY <1>1, <1>2, <1>3, <1>4 DEF Terminated, Contexts, grown, parsed, status
  <1>5. CASE ~FinishSign(grown, parsed, permissions, tc)
    BY <1>2, <1>5 DEF SignChunk, session, grown, parsed, permissions, status
  <1>6. FinishSign(grown, parsed, permissions, tc)
            => \/ status \in {"USTREAM_PROCESSING", "USTREAM_FINISHED"}
               \/ UNCHANGED <<txContext, txContent>>
               \/ txContext'.sha2 = <<>> /\ txContent' = ZeroContent
    BY <1>2 DEF SignChunk, session, grown, parsed, permissions, status
  <1> QED
    BY <1>4, <1>5, <1>6 DEF grown, parsed, status

-----------------------------------------------------------------------------
(* The labels of the tokens.                                               *)

\* CertifiedSlot, for the labels of any content.  A label may say one of two things
\* of an identifier that reads as a text: the text, or a name signed for it.
Says(label, decimals, text) ==
    \/ label = <<text>> /\ decimals = 0
    \/ \E d \in TokenMeta : label = <<d.name, text>> /\ d.id = text /\ decimals = d.precision
    \/ \E e \in ExchangeMeta : \E d \in {e.first, e.second} :
          e.signed /\ label = <<d.name, text>> /\ d.id = text /\ decimals = d.precision

Certified(tokens, slot, field) ==
    IF tokens.isTrx[slot]
    THEN field.bytes = "_" /\ tokens.names[slot] = <<"TRX">>
    ELSE field.bytes # "_" /\ Says(tokens.names[slot], tokens.decimals[slot], TextOf[field])

TwoSlots(tokens) ==
    /\ DOMAIN tokens = DOMAIN NoTokens
    /\ DOMAIN tokens.names = 1..2 /\ DOMAIN tokens.decimals = 1..2 /\ DOMAIN tokens.isTrx = 1..2

\* The labels say what the only contract among the chunks lets them say.
LabelsOf(k, tokens) ==
    /\ k.type \in NamedContracts \cup PairedContracts => Certified(tokens, 1, k.m.token)
    /\ k.type = "EXCHANGECREATECONTRACT" => Certified(tokens, 2, k.m.token2)
    /\ k.type \notin NamedContracts \cup PairedContracts =>
          tokens = ExtractTokens(k.type, NoTokens, k.m)

Labelled(chunks, content) ==
    /\ TwoSlots(content.tokens)
    /\ ~content.contractSeen => content.tokens = NoTokens
    /\ \A i \in ContractChunks(chunks) : LabelsOf(chunks[i].contract[1], content.tokens)

\* A session that has absorbed nothing has no labels.
LEMMA EmptyLabels == Labelled(<<>>, ZeroContent)
  BY DEF Labelled, TwoSlots, ContractChunks, ZeroContent, NoTokens

\* A label tells a bare identifier from a name with its identifier.
LEMMA LabelKinds ==
    ASSUME NEW a, NEW b, NEW c
    PROVE  (<<a>> = <<b>> => a = b) /\ <<a>> # <<b, c>>
  <1>1. <<a>> = <<b>> => <<a>>[1] = <<b>>[1]
    OBVIOUS
  <1>2. Len(<<a>>) # Len(<<b, c>>)
    OBVIOUS
  <1> QED
    BY <1>1, <1>2

\* A certified bare label that is not TRX's is the text of the identifier.
LEMMA BareLabel ==
    ASSUME NEW tokens, NEW slot, NEW field, NEW own, Certified(tokens, slot, field),
           tokens.names[slot] = <<own>>, own # "TRX"
    PROVE  /\ ~tokens.isTrx[slot] /\ field.bytes # "_"
           /\ TextOf[field] = own
  <1> DEFINE trx == "TRX"
             text == TextOf[field]
  <1>1. own # trx
    OBVIOUS
  <1>2. <<own>> # <<trx>> /\ \A name : <<own>> # <<name, text>>
    <2> HIDE DEF trx
    <2> QED
      BY <1>1, LabelKinds, Zenon
  <1>3. ~tokens.isTrx[slot] /\ field.bytes # "_"
    BY <1>2 DEF Certified
  <1>4. Says(<<own>>, tokens.decimals[slot], text)
    BY <1>3 DEF Certified
  <1>5. <<own>> = <<text>>
    <2> HIDE DEF trx, text
    <2> QED
      BY <1>2, <1>4 DEF Says
  <1> QED
    BY <1>3, <1>5, LabelKinds, Zenon

\* Two slots remain two slots.
LEMMA SlotsStay ==
    ASSUME NEW tokens, TwoSlots(tokens), NEW slot \in 1..2, NEW name, NEW id, NEW precision
    PROVE  LET new == set_token_info(tokens, slot, name, id, precision)
           IN  /\ TwoSlots(new) /\ new.isTrx = tokens.isTrx
               /\ new.names[slot] = <<name, id>> /\ new.decimals[slot] = precision
               /\ \A other \in 1..2 : other # slot =>
                     /\ new.names[other] = tokens.names[other]
                     /\ new.decimals[other] = tokens.decimals[other]
  BY DEF TwoSlots, set_token_info, NoTokens

\* A label of an identifier is replaced by what was signed for the identifier.
LEMMA TokenNameLabels ==
    ASSUME NEW tokens, TwoSlots(tokens), NEW slot \in 1..2, NEW d \in TokenMeta
    PROVE  LET new == parseTokenName(tokens, slot, d).tokens
           IN  /\ TwoSlots(new)
               /\ \A i \in 1..2 : \A field : Certified(tokens, i, field) => Certified(new, i, field)
  <1> DEFINE new == parseTokenName(tokens, slot, d).tokens
  <1>1. CASE new = tokens
    BY <1>1
  <1>2. CASE new # tokens
    <2>1. /\ new = set_token_info(tokens, slot, d.name, d.id, d.precision)
          /\ tokens.names[slot] = <<d.id>>
      BY <1>2 DEF parseTokenName, verifyTokenNameID
    <2>2. /\ TwoSlots(new) /\ new.isTrx = tokens.isTrx
          /\ new.names[slot] = <<d.name, d.id>> /\ new.decimals[slot] = d.precision
          /\ \A other \in 1..2 : other # slot =>
                /\ new.names[other] = tokens.names[other]
                /\ new.decimals[other] = tokens.decimals[other]
      BY <2>1, SlotsStay
    <2> HIDE DEF new
    <2>3. ASSUME NEW i \in 1..2, NEW field, Certified(tokens, i, field)
          PROVE  Certified(new, i, field)
      <3>1. CASE i # slot
        BY <2>2, <2>3, <3>1 DEF Certified
      <3>2. CASE i = slot
        <4>1. d.id # "TRX"
          BY MetadataAssumption
        <4>2. ~tokens.isTrx[slot] /\ field.bytes # "_" /\ TextOf[field] = d.id
          BY <2>1, <2>3, <3>2, <4>1, BareLabel
        <4>3. Says(<<d.name, d.id>>, d.precision, d.id)
          BY DEF Says
        <4> QED
          BY <2>2, <3>2, <4>2, <4>3 DEF Certified
      <3> QED
        BY <3>1, <3>2
    <2> QED
      BY <2>2, <2>3 DEF new
  <1> QED
    BY <1>1, <1>2

\* The same for the first slot and the pair of an exchange.
LEMMA ExchangeLabels ==
    ASSUME NEW content, TwoSlots(content.tokens), NEW d \in ExchangeMeta
    PROVE  LET new == parseExchange(content, d).tokens
           IN  /\ TwoSlots(new)
               /\ \A field : Certified(content.tokens, 1, field) => Certified(new, 1, field)
  <1> DEFINE tokens == content.tokens
             new == parseExchange(content, d).tokens
             one(slot) == set_token_info(tokens, slot, d.first.name, d.first.id, d.first.precision)
             both(a, b) == set_token_info(one(a), b, d.second.name, d.second.id, d.second.precision)
  <1>1. CASE new = tokens
    BY <1>1
  <1>2. CASE new # tokens
    <2> DEFINE slots == IF tokens.names[1] = <<d.first.id>> THEN <<1, 2>>
                        ELSE IF tokens.names[1] = <<d.second.id>> THEN <<2, 1>>
                        ELSE <<>>
    <2>7. /\ d.signed /\ slots # <<>>
          /\ d.first.id \in CertifiedIds /\ d.second.id \in CertifiedIds
          /\ new \in {one(slots[1]), both(slots[1], slots[2])}
      BY <1>2 DEF parseExchange
    <2>8. \/ tokens.names[1] = <<d.first.id>> /\ slots[1] = 1 /\ slots[2] = 2
          \/ tokens.names[1] = <<d.second.id>> /\ slots[1] = 2 /\ slots[2] = 1
      <3> DEFINE first == tokens.names[1] = <<d.first.id>>
                 second == tokens.names[1] = <<d.second.id>>
      <3>1. slots = IF first THEN <<1, 2>> ELSE IF second THEN <<2, 1>> ELSE <<>>
        OBVIOUS
      <3> HIDE DEF slots, first, second, new, one, both
      <3>2. \/ first /\ slots = <<1, 2>>
            \/ second /\ slots = <<2, 1>>
        BY <2>7, <3>1
      <3> QED
        BY <3>2 DEF first, second
    <2> HIDE DEF slots, new, one, both, tokens
    <2>9. d.first.id # "TRX" /\ d.second.id # "TRX"
      BY <2>7, CertifiedIdsAssumption
    <2>1. /\ d.signed /\ d.first.id # "TRX" /\ d.second.id # "TRX"
          /\ \/ tokens.names[1] = <<d.first.id>> /\ new \in {one(1), both(1, 2)}
             \/ tokens.names[1] = <<d.second.id>> /\ new \in {one(2), both(2, 1)}
      BY <2>7, <2>8, <2>9
    <2> USE DEF one, both, tokens
    <2>2. /\ TwoSlots(one(1)) /\ TwoSlots(one(2))
          /\ one(1).isTrx = tokens.isTrx /\ one(2).isTrx = tokens.isTrx
          /\ one(1).names[1] = <<d.first.name, d.first.id>>
          /\ one(1).decimals[1] = d.first.precision
          /\ one(2).names[1] = tokens.names[1] /\ one(2).decimals[1] = tokens.decimals[1]
      BY SlotsStay
    <2> HIDE DEF one
    <2>3. /\ TwoSlots(both(1, 2)) /\ TwoSlots(both(2, 1))
          /\ both(1, 2).isTrx = tokens.isTrx /\ both(2, 1).isTrx = tokens.isTrx
          /\ both(1, 2).names[1] = one(1).names[1] /\ both(1, 2).decimals[1] = one(1).decimals[1]
          /\ both(2, 1).names[1] = <<d.second.name, d.second.id>>
          /\ both(2, 1).decimals[1] = d.second.precision
      BY <2>2, SlotsStay
    <2> HIDE DEF both, tokens
    <2>4. TwoSlots(new) /\ new.isTrx = tokens.isTrx
      BY <2>1, <2>2, <2>3
    <2>5. ASSUME NEW field, Certified(tokens, 1, field) PROVE Certified(new, 1, field)
      <3>1. /\ tokens.names[1] = <<d.first.id>> =>
                  ~tokens.isTrx[1] /\ field.bytes # "_" /\ TextOf[field] = d.first.id
            /\ tokens.names[1] = <<d.second.id>> =>
                  ~tokens.isTrx[1] /\ field.bytes # "_" /\ TextOf[field] = d.second.id
        <4>1. \A own : tokens.names[1] = <<own>> /\ own # "TRX" =>
                 ~tokens.isTrx[1] /\ field.bytes # "_" /\ TextOf[field] = own
          BY <2>5, BareLabel
        <4> QED
          BY <2>1, <4>1
      <3>5. /\ Says(<<d.first.name, d.first.id>>, d.first.precision, d.first.id)
            /\ Says(<<d.second.name, d.second.id>>, d.second.precision, d.second.id)
        BY <2>1 DEF Says
      <3>2. CASE new.names[1] = tokens.names[1] /\ new.decimals[1] = tokens.decimals[1]
        BY <2>4, <2>5, <3>2 DEF Certified
      <3>3. CASE /\ tokens.names[1] = <<d.first.id>>
                 /\ new.names[1] = <<d.first.name, d.first.id>>
                 /\ new.decimals[1] = d.first.precision
        BY <2>4, <3>1, <3>3, <3>5 DEF Certified
      <3>4. CASE /\ tokens.names[1] = <<d.second.id>>
                 /\ new.names[1] = <<d.second.name, d.second.id>>
                 /\ new.decimals[1] = d.second.precision
        BY <2>4, <3>1, <3>4, <3>5 DEF Certified
      <3> QED
        BY <2>1, <2>2, <2>3, <3>2, <3>3, <3>4
    <2> QED
      BY <2>4, <2>5 DEF new, tokens
  <1> QED
    BY <1>1, <1>2

\* A metadata command leaves certified labels certified.
LEMMA RelabelledLabels ==
    ASSUME HashInv, Labelled(txContext.sha2, txContent), NEW content, Relabelled(content)
    PROVE  Labelled(txContext.sha2, content)
  <1> DEFINE chunks == txContext.sha2
  <1>1. txContent.contractType \in NamedContracts \cup PairedContracts
    BY DEF Relabelled
  <1>2. txContent.contractSeen
    BY <1>1 DEF HashInv, SessionInv, Agrees, NamedContracts, PairedContracts
  <1>3. \A i \in ContractChunks(chunks) :
            chunks[i].contract[1].type = txContent.contractType
    BY <1>2 DEF HashInv, SessionInv, Agrees, ContractParsed
  <1>4. content.contractSeen = txContent.contractSeen
    BY RelabelledFrame DEF HashInv
  <1>5. TwoSlots(txContent.tokens)
    BY DEF Labelled
  <1>6. NamedContracts \cap PairedContracts = {}
    BY DEF NamedContracts, PairedContracts
  <1>7. "tokens" \in DOMAIN txContent
    BY DEF HashInv, TypeOK, ContentShape, ZeroContent
  <1>8. CASE txContent.contractType \in NamedContracts
    <2>1. PICK slot \in 1..2, d \in TokenMeta :
              content = [txContent EXCEPT !.tokens = parseTokenName(@, slot, d).tokens]
      BY <1>6, <1>8 DEF Relabelled
    <2>2. content.tokens = parseTokenName(txContent.tokens, slot, d).tokens
      BY <1>7, <2>1
    <2>3. /\ TwoSlots(content.tokens)
          /\ \A i \in 1..2 : \A field :
                Certified(txContent.tokens, i, field) => Certified(content.tokens, i, field)
      BY <1>5, <2>2, TokenNameLabels
    <2> QED
      BY <1>2, <1>3, <1>4, <1>8, <2>3 DEF Labelled, LabelsOf
  <1>9. CASE txContent.contractType \in PairedContracts
    <2>1. PICK d \in ExchangeMeta :
              content = [txContent EXCEPT !.tokens = parseExchange(txContent, d).tokens]
      BY <1>6, <1>9 DEF Relabelled
    <2>2. content.tokens = parseExchange(txContent, d).tokens
      BY <1>7, <2>1
    <2>3. /\ TwoSlots(content.tokens)
          /\ \A field : Certified(txContent.tokens, 1, field) => Certified(content.tokens, 1, field)
      BY <1>5, <2>2, ExchangeLabels
    <2>4. txContent.contractType # "EXCHANGECREATECONTRACT"
      BY <1>9 DEF PairedContracts
    <2> QED
      BY <1>2, <1>3, <1>4, <1>9, <2>3, <2>4 DEF Labelled, LabelsOf
  <1> QED
    BY <1>1, <1>8, <1>9

\* A slot with a bare identifier.
PrintedAs(tokens, slot, field) ==
    /\ tokens.names[slot] = IF field.bytes = "_" THEN <<"TRX">> ELSE <<TextOf[field]>>
    /\ tokens.isTrx[slot] <=> field.bytes = "_"

\* A bare identifier for one slot, and nothing for the other.
LEMMA PrintedSlot ==
    ASSUME NEW tokens, TwoSlots(tokens), NEW slot \in 1..2, NEW field
    PROVE  LET new == printTokenFromID(tokens, slot, field)
           IN  /\ TwoSlots(new) /\ new.decimals = tokens.decimals
               /\ PrintedAs(new, slot, field)
               /\ \A other \in 1..2 : \A f :
                     other # slot /\ PrintedAs(tokens, other, f) => PrintedAs(new, other, f)
  BY DEF TwoSlots, printTokenFromID, NoTokens, PrintedAs

\* Without decimals, a bare identifier needs no certificate.
LEMMA BareCertified ==
    ASSUME NEW tokens, NEW slot, NEW field, PrintedAs(tokens, slot, field), tokens.decimals[slot] = 0
    PROVE  Certified(tokens, slot, field)
  BY DEF Certified, PrintedAs, Says

\* An extractor labels the slots of its contract with bare identifiers.
LEMMA ExtractedLabels ==
    ASSUME NEW k
    PROVE  LET tokens == ExtractTokens(k.type, NoTokens, k.m)
           IN  TwoSlots(tokens) /\ LabelsOf(k, tokens)
  <1> DEFINE first == k.m.token
             second == k.m.token2
             one == printTokenFromID(NoTokens, 1, first)
             two == printTokenFromID(one, 2, second)
             tokens == ExtractTokens(k.type, NoTokens, k.m)
  <1>0. /\ TwoSlots(NoTokens) /\ NoTokens.decimals[1] = 0 /\ NoTokens.decimals[2] = 0
        /\ 1 \in 1..2 /\ 2 \in 1..2 /\ 1 # 2
    BY DEF TwoSlots, NoTokens
  <1>1. TwoSlots(one) /\ one.decimals = NoTokens.decimals /\ PrintedAs(one, 1, first)
    <2> HIDE DEF first
    <2> QED
      BY <1>0, PrintedSlot
  <1>2. /\ TwoSlots(two) /\ two.decimals = NoTokens.decimals
        /\ PrintedAs(two, 1, first) /\ PrintedAs(two, 2, second)
    <2> HIDE DEF one, first, second
    <2> QED
      BY <1>0, <1>1, PrintedSlot
  <1> HIDE DEF one, two
  <1>3. Certified(one, 1, first) /\ Certified(two, 1, first) /\ Certified(two, 2, second)
    <2> HIDE DEF first, second
    <2> QED
      BY <1>0, <1>1, <1>2, BareCertified
  <1>4. CASE k.type = "EXCHANGECREATECONTRACT"
    <2>1. tokens = two
      BY <1>4 DEF ExtractTokens, one, two
    <2> HIDE DEF tokens
    <2>2. TwoSlots(tokens) /\ LabelsOf(k, tokens)
      BY <1>2, <1>3, <1>4, <2>1 DEF LabelsOf, NamedContracts
    <2> QED
      BY <2>2 DEF tokens
  <1>5. CASE k.type \in {"TRANSFERASSETCONTRACT"} \cup PairedContracts
    <2>1. tokens = one /\ k.type # "EXCHANGECREATECONTRACT"
      BY <1>5 DEF ExtractTokens, one, PairedContracts
    <2> HIDE DEF tokens
    <2>2. TwoSlots(tokens) /\ LabelsOf(k, tokens)
      BY <1>1, <1>3, <1>5, <2>1 DEF LabelsOf, NamedContracts
    <2> QED
      BY <2>2 DEF tokens
  <1>6. CASE k.type \notin NamedContracts \cup PairedContracts
    <2>1. TwoSlots(tokens)
      BY <1>6 DEF ExtractTokens, TwoSlots, NoTokens, NamedContracts, PairedContracts
    <2> QED
      BY <1>6, <2>1 DEF LabelsOf, NamedContracts
  <1> QED
    BY <1>4, <1>5, <1>6 DEF NamedContracts

\* The parser keeps the labels with every chunk.
LEMMA AbsorbLabels ==
    ASSUME NEW context \in Contexts, NEW content, ContentShape(content),
           Agrees(context.sha2, content), Labelled(context.sha2, content),
           NEW chunk \in Chunks \cup {EmptyChunk}, NEW allowed,
           processTxStatus(content, chunk, allowed) \in {"USTREAM_PROCESSING", "USTREAM_FINISHED"}
    PROVE  Labelled(absorb(context, chunk).sha2, processTxContent(content, chunk))
  <1> DEFINE chunks == context.sha2
             c == processTxContent(content, chunk)
             grown == Append(chunks, chunk)
             n == Len(chunks) + 1
             k == chunk.contract[1]
  <1>1. CASE chunk.len = 0
    BY <1>1, AbsorbType DEF processTxContent
  <1>2. CASE chunk.len # 0
    <2>1. chunks \in Seq(Chunks) /\ absorb(context, chunk).sha2 = grown
      BY <1>2, AbsorbType DEF Contexts
    <2>2. /\ DOMAIN grown = 1..n /\ DOMAIN chunks = 1..(n - 1) /\ n \in Nat \ {0}
          /\ grown[n] = chunk
          /\ \A i \in DOMAIN chunks : grown[i] = chunks[i]
      BY <2>1
    <2>3. HasContract(chunk) => ~content.contractSeen
      BY <1>2 DEF processTxStatus, ContractRefused
    <2>4. /\ ~HasContract(chunk) =>
                c.tokens = content.tokens /\ c.contractSeen = content.contractSeen
          /\ HasContract(chunk) =>
                c.tokens = ExtractTokens(k.type, content.tokens, k.m) /\ c.contractSeen
      BY <1>2 DEF processTxContent, pb_get_tx_data_size, feeLimitOf, contractOf, ContentShape,
                  ZeroContent
    <2> HIDE DEF chunks, c, grown, n, k
    <2>5. CASE HasContract(chunk)
      <3>1. ContractChunks(chunks) = {} /\ content.tokens = NoTokens
        BY <2>3, <2>5 DEF Agrees, Labelled, chunks
      <3>2. \A i \in ContractChunks(grown) : grown[i] = chunk
        BY <2>2, <3>1 DEF ContractChunks
      <3>3. TwoSlots(c.tokens) /\ LabelsOf(k, c.tokens)
        BY <2>4, <2>5, <3>1, ExtractedLabels
      <3> QED
        BY <2>1, <2>4, <2>5, <3>2, <3>3 DEF Labelled, c, k
    <2>6. CASE ~HasContract(chunk)
      <3>1. \A i \in ContractChunks(grown) : i \in ContractChunks(chunks) /\ grown[i] = chunks[i]
        BY <2>2, <2>6 DEF ContractChunks
      <3> QED
        BY <2>1, <2>4, <2>6, <3>1 DEF Labelled, c, chunks
    <2> QED
      BY <2>5, <2>6
  <1> QED
    BY <1>1, <1>2

\* The invariant of the labels.
LabelInv == Labelled(txContext.sha2, txContent)

\* handleSign goes on from a labelled session.
LEMMA SeedLabels ==
    ASSUME HashInv, LabelInv, NEW context, NEW content, NEW chunk, NEW tc,
           Opened(context, content, tc) \/ Continued(context, content, chunk, tc)
    PROVE  Labelled(context.sha2, content)
  <1>1. CASE Opened(context, content, tc)
    BY <1>1, EmptyLabels DEF Opened, FreshContext
  <1>2. CASE Continued(context, content, chunk, tc)
    BY <1>2, RelabelledLabels DEF Continued, LabelInv
  <1> QED
    BY <1>1, <1>2

\* Every step keeps it.
LEMMA NextLabels == HashInv /\ Stated /\ LabelInv /\ [Next]_vars => LabelInv'
  <1> SUFFICES ASSUME HashInv, Stated, LabelInv, [Next]_vars PROVE LabelInv'
    OBVIOUS
  <1>1. CASE SignStep
    <2>1. PICK chunk \in Chunks \cup {EmptyChunk} : \E p1, context, content, tc :
              /\ Opened(context, content, tc) \/ Continued(context, content, chunk, tc)
              /\ SignChunk(p1, chunk, context, content, tc)
      BY <1>1 DEF SignStep
    <2>2. PICK p1, context, content, tc :
              /\ Opened(context, content, tc) \/ Continued(context, content, chunk, tc)
              /\ SignChunk(p1, chunk, context, content, tc)
      BY <2>1
    <2>3. /\ context \in Contexts /\ ContentShape(content)
          /\ Agrees(context.sha2, content) /\ Labelled(context.sha2, content)
      BY <2>2, SeedAgrees, SeedLabels
    <2>4. \/ UNCHANGED <<txContext, txContent>>
          \/ txContext'.sha2 = <<>> /\ txContent' = ZeroContent
          \/ /\ processTxStatus(content, chunk, "S_DATA_ALLOWED" \in settings)
                   \in {"USTREAM_PROCESSING", "USTREAM_FINISHED"}
             /\ txContext'.sha2 = absorb(context, chunk).sha2
             /\ txContent' = processTxContent(content, chunk)
      BY <2>2, <2>3, SignOutcome DEF HashInv
    <2> QED
      BY <2>3, <2>4, EmptyLabels, AbsorbLabels DEF LabelInv
  <1>2. CASE LabelStep
    BY <1>2, RelabelledLabels DEF LabelStep, LabelInv
  <1>3. CASE MessageStep
    <2>1. /\ UNCHANGED txContext
          /\ txContent'.tokens = txContent.tokens /\ txContent'.contractSeen = txContent.contractSeen
      BY <1>3 DEF MessageStep, HashInv, TypeOK, ContentShape, ZeroContent
    <2> QED
      BY <2>1 DEF LabelInv, Labelled
  <1>4. CASE QuietStep \/ ScreenStep
    BY <1>4 DEF QuietStep, ScreenStep, LabelInv
  <1>5. CASE CloseStep
    BY <1>5, EmptyLabels DEF CloseStep, LabelInv, NoContext
  <1> QED
    BY <1>1, <1>2, <1>3, <1>4, <1>5, StepKinds DEF HashInv

\* The initial state satisfies the invariant.
LEMMA InitLabels == Init => LabelInv
  BY EmptyLabels DEF Init, LabelInv, NoContext

\* A name shown for a TRC10 token was signed for what the identifier in the contract
\* of the session reads as, and so was the precision of its amount, whatever bytes
\* the identifier has, whatever metadata the host sends and however often; a slot is
\* taken for TRX by the byte of TRX only.
THEOREM LabelsAreCertified == Spec => []NamesAreCertified
  <1>0. ASSUME NEW slot, NEW field, Certified(txContent.tokens, slot, field)
        PROVE  CertifiedSlot(slot, field)
    BY <1>0 DEF Certified, Says, CertifiedSlot
  <1>1. LabelInv => NamesAreCertified
    BY <1>0 DEF LabelInv, Labelled, LabelsOf, NamesAreCertified
  <1>2. HashInv => TypeOK
    BY DEF HashInv
  <1> QED
    BY <1>1, <1>2, InitHash, NextHash, InitFinal, NextStated, InitLabels, NextLabels, PTL DEF Spec

-----------------------------------------------------------------------------
(* A swap signs what Exchange validated.                                   *)

\* What a signature over chunks says in a swap: the body of SwapSignsValidated.
PaysForChunks(chunks, validated) ==
    /\ validated.initialized
    /\ \E i \in DOMAIN chunks :
          ContractChunks(chunks) = {i} /\ PaysValidated(chunks[i].contract[1], validated)
    /\ \A i \in FeeChunks(chunks) : feeLimit(chunks[i]) <= MaxSwapFee
    /\ ~CarriesData(chunks)

\* The invariant: no command of a swap counts in the data of the transaction.
SwapSessionInv == InSwap => DataAgrees(txContext.sha2, txContent)

\* The cast to uint64 has one zero.
LEMMA UnsignedZero == ASSUME NEW v \in Int64, Unsigned(v) = 0 PROVE v = 0
  BY WordAssumption DEF Int64, Unsigned

\* A fee limit is a natural number.
LEMMA UnsignedNatural == ASSUME NEW v \in Int64 PROVE Unsigned(v) \in Nat
  BY WordAssumption DEF Int64, Unsigned

Ticker(s) == <<s>>

\* Two tagged values are the same when their contents are.
LEMMA SameValues ==
    ASSUME NEW a, NEW b
    PROVE  (Address(a) = Address(b) => a = b) /\ (Label(Ticker(a)) = Label(Ticker(b)) => a = b)
  <1>1. ASSUME Address(a) = Address(b) PROVE a = b
    <2>1. Address(a)[2] = a /\ Address(b)[2] = b
      BY DEF Address
    <2> QED
      BY <1>1, <2>1
  <1>2. ASSUME Label(Ticker(a)) = Label(Ticker(b)) PROVE a = b
    <2>1. Label(Ticker(a))[2][1] = a /\ Label(Ticker(b))[2][1] = b
      BY DEF Label, Ticker
    <2> QED
      BY <1>2, <2>1
  <1> QED
    BY <1>1, <1>2

\* What a transfer or a call of a known token is paid in.
LEMMA PaidTokens ==
    ASSUME NEW type, NEW m
    PROVE  LET tokens == ExtractTokens(type, NoTokens, m)
           IN  /\ type = "TRANSFERCONTRACT" => tokens.names[1] = Ticker("TRX")
               /\ type = "TRIGGERSMARTCONTRACT" /\ getKnownToken(m) =>
                     /\ tokens.names[1] = Ticker(TRC20Tokens[m.contract].ticker)
                     /\ tokens.decimals[1] = TRC20Tokens[m.contract].decimals
  <1>1. TwoSlots(NoTokens)
    BY DEF TwoSlots, NoTokens
  <1>2. DOMAIN NoTokens = {"names", "decimals", "isTrx"}
    BY DEF NoTokens
  <1> QED
    BY <1>1, <1>2 DEF TwoSlots, ExtractTokens, Ticker

\* The gates of a swap let through the validated payment and nothing else.
LEMMA GatesValidate ==
    ASSUME NEW chunks \in Seq(Chunks), NEW content, content.contractSeen,
           Agrees(chunks, content), Labelled(chunks, content), DataAgrees(chunks, content),
           NEW permissions, NEW hash, NEW validated,
           ReviewVerdict(content, permissions, settings, TRUE) = Pass,
           SwapVerdict(content, Buffers(content, permissions, hash), validated) = Pass
    PROVE  PaysForChunks(chunks, validated)
  <1> DEFINE b == Buffers(content, permissions, hash)
             p == content.parsed
  <1>1. PICK i \in DOMAIN chunks :
            /\ ContractChunks(chunks) = {i}
            /\ LET k == chunks[i].contract[1]
               IN  /\ content.contractType = k.type
                   /\ content.permission_id = k.permission_id
                   /\ content.parsed = ExtractParsed(k.type, ZeroParsed, k.m)
    BY DEF Agrees, ContractParsed
  <1> DEFINE k == chunks[i].contract[1]
             m == k.m
  <1>2. /\ ~SwapRefusesContract(content)
        /\ ContractVerdict(content, permissions, settings) = Pass
    BY DEF ReviewVerdict, Refuse, Pass
  <1>3. ~(content.feeLimit > MaxSwapFee)
        /\ swap_check_validity(b, content.contractType = "TRANSFERCONTRACT", validated)
    BY DEF SwapVerdict, Refuse, Pass
  <1>4. /\ validated.initialized
        /\ SameAmountText(b.amount, content.contractType = "TRANSFERCONTRACT",
                          validated.amount, validated.decimals)
        /\ b.fullContract = Label(Ticker(validated.ticker))
        /\ b.toAddress = Address(validated.recipient)
    BY <1>3 DEF swap_check_validity, Ticker
  <1>5. chunks[i] \in Chunks /\ HasContract(chunks[i])
    BY <1>1 DEF ContractChunks
  <1>6. m.amount \in Int64 /\ m.callTokenValue \in Int64
    BY <1>5, ChunkAssumption
  <1>7. \A j \in FeeChunks(chunks) : feeLimit(chunks[j]) <= MaxSwapFee
    <2> SUFFICES ASSUME NEW j \in FeeChunks(chunks) PROVE feeLimit(chunks[j]) <= MaxSwapFee
      OBVIOUS
    <2>1. content.feeLimit = feeLimit(chunks[j]) /\ chunks[j] \in Chunks
      BY DEF Agrees, FeeChunks
    <2>2. feeLimit(chunks[j]) \in Nat
      BY <2>1, ChunkAssumption, UnsignedNatural DEF feeLimit
    <2> QED
      BY <1>3, <2>1, <2>2, PrintableAssumption
  <1>8. ~CarriesData(chunks)
    BY <1>2, DataMeaning DEF SwapRefusesContract
  <1>9. content.tokens = ExtractTokens(k.type, NoTokens, m)
    <2>1. i \in ContractChunks(chunks) /\ k.type \notin NamedContracts \cup PairedContracts
      BY <1>1, <1>2 DEF SwapRefusesContract, NamedContracts, PairedContracts
    <2> QED
      BY <2>1 DEF Labelled, LabelsOf
  <1>10. CASE k.type = "TRANSFERCONTRACT"
    <2>1. p.destination = m.to /\ p.amount[1] = Unsigned(m.amount)
      <3>1. p = transfer_contract(ZeroParsed, m)
        BY <1>1, <1>10 DEF ExtractParsed
      <3> QED
        BY <3>1 DEF transfer_contract, account, ZeroParsed
    <2>2. content.tokens.names[1] = Ticker("TRX")
      BY <1>9, <1>10, PaidTokens
    <2>3. /\ b.amount = Amount(p.amount[1], SUN_DIG)
          /\ b.fullContract = Label(content.tokens.names[1])
          /\ b.toAddress = Address(p.destination)
      BY <1>1, <1>10 DEF Buffers, TransferBuffers, IsCustomCall, NoBuffers
    <2> HIDE DEF b
    <2>4. validated.ticker = "TRX" /\ m.to = validated.recipient
      BY <1>4, <2>1, <2>2, <2>3, SameValues
    <2>5. Unsigned(m.amount) * 10 ^ validated.decimals = validated.amount * 10 ^ SUN_DIG
      <3>1. b.amount[2] = Unsigned(m.amount) /\ b.amount[3] = SUN_DIG
        BY <2>1, <2>3 DEF Amount
      <3> QED
        BY <1>4, <3>1 DEF SameAmountText
    <2>6. PaysValidated(k, validated)
      BY <1>10, <2>4, <2>5 DEF PaysValidated
    <2> QED
      BY <1>1, <1>4, <1>7, <1>8, <2>6 DEF PaysForChunks
  <1>11. CASE k.type = "TRIGGERSMARTCONTRACT"
    <2>1. p.TRC20Method = 1
      BY <1>1, <1>2, <1>11 DEF SwapRefusesContract
    <2>2. p = trigger_smart_contract(ZeroParsed, m)
      BY <1>1, <1>11 DEF ExtractParsed
    <2>3. getKnownToken(m) /\ m.data.present /\ TriggerMethod(m) = 1
      BY <2>1, <2>2 DEF trigger_smart_contract, pb_decode_trigger_smart_contract_data, account,
                        ZeroParsed
    <2>4. /\ p.destination = m.data.to /\ p.TRC20Amount = m.data.amount
          /\ p.amount[1] = Unsigned(m.amount) /\ p.callTokenValue = m.callTokenValue
      BY <2>2, <2>3 DEF trigger_smart_contract, pb_decode_trigger_smart_contract_data, account,
                        ZeroParsed
    <2>5. /\ content.tokens.names[1] = Ticker(TRC20Tokens[m.contract].ticker)
          /\ content.tokens.decimals[1] = TRC20Tokens[m.contract].decimals
      <3> HIDE DEF k, m
      <3> QED
        BY <1>9, <1>11, <2>3, PaidTokens
    <2>6. p.amount[1] = 0 /\ p.callTokenValue = 0
      BY <1>1, <1>2, <1>11, <2>1 DEF ContractVerdict, IsCustomCall, Refuse, Pass
    <2>7. /\ b.amount = Amount(p.TRC20Amount, content.tokens.decimals[1])
          /\ b.fullContract = Label(content.tokens.names[1])
          /\ b.toAddress = Address(p.destination)
      BY <1>1, <1>11, <2>1 DEF Buffers, TransferBuffers, IsCustomCall, NoBuffers
    <2> HIDE DEF b
    <2>8. validated.ticker = TRC20Tokens[m.contract].ticker /\ m.data.to = validated.recipient
      <3> DEFINE ticker == TRC20Tokens[m.contract].ticker
                 to == m.data.to
      <3> HIDE DEF k, m, p
      <3>1. /\ Label(Ticker(ticker)) = Label(Ticker(validated.ticker))
            /\ Address(to) = Address(validated.recipient)
        BY <1>4, <2>4, <2>5, <2>7
      <3> HIDE DEF ticker, to
      <3>2. ticker = validated.ticker /\ to = validated.recipient
        BY <3>1, SameValues
      <3> QED
        BY <3>2 DEF ticker, to
    <2>9. m.data.amount * 10 ^ validated.decimals
            = validated.amount * 10 ^ TRC20Tokens[m.contract].decimals
      <3>1. /\ b.amount[2] = m.data.amount
            /\ b.amount[3] = TRC20Tokens[m.contract].decimals
        BY <2>4, <2>5, <2>7 DEF Amount
      <3> QED
        BY <1>4, <3>1 DEF SameAmountText
    <2>10. m.amount = 0 /\ m.callTokenValue = 0
      BY <1>6, <2>4, <2>6, UnsignedZero
    <2>11. PaysValidated(k, validated)
      BY <1>11, <2>3, <2>8, <2>9, <2>10 DEF PaysValidated, getKnownToken
    <2> QED
      BY <1>1, <1>4, <1>7, <1>8, <2>11 DEF PaysForChunks
  <1> QED
    BY <1>1, <1>2, <1>10, <1>11 DEF SwapRefusesContract

\* A swap that has answered for good is over.
LEMMA SwapStopped ==
    ASSUME InSwap, SwapHasNoScreen, ~Running, [Next]_vars
    PROVE  UNCHANGED vars
  <1>1. ~Idle /\ ~Reviewing
    BY DEF Idle, SwapHasNoScreen
  <1>2. ~SignCommand
    BY <1>1 DEF SignCommand, SignOpen, SignMore, SignTokenName, SignExchange, SignRefused
  <1>3. ~MessageCommand
    BY <1>1 DEF MessageCommand, PersonalMessageFirst, PersonalMessageMore
  <1>4. ~OtherCommand
    BY <1>1 DEF OtherCommand, handleSignByHash, handleSignTIP712Message, handleECDHSecret,
                handleGetPublicKey, handleGetAppConfiguration, RefusedInstruction, RefusedApdu
  <1>5. ~User
    BY <1>1 DEF User, AcceptWarning, Reject, Approve
  <1>6. ~(\E s \in Toggles : ToggleSetting(s)) /\ ~IoReset /\ ~Relaunch
    BY <1>1 DEF ToggleSetting, IoReset, Relaunch
  <1> QED
    BY <1>2, <1>3, <1>4, <1>5, <1>6 DEF Next

\* handleSign in a swap signs behind all gates, as its last answer.
LEMMA SwapSignature ==
    ASSUME TypeOK, InSwap, NEW p1, NEW chunk, NEW context, NEW content, NEW tc,
           SignChunk(p1, chunk, context, content, tc), out'.what[1] = "signature"
    PROVE  LET grown == absorb(context, chunk)
               parsed == processTxContent(content, chunk)
               permissions == processTxMsg(msg, chunk)
               hash == TxHash(grown.sha2, grown.final)
           IN  /\ processTxStatus(content, chunk, "S_DATA_ALLOWED" \in settings)
                     \in {"USTREAM_PROCESSING", "USTREAM_FINISHED"}
               /\ ReviewVerdict(parsed, permissions, settings, TRUE) = Pass
               /\ SwapVerdict(parsed, Buffers(parsed, permissions, hash), swap.validated) = Pass
               /\ out'.what[3][2] = grown.sha2
               /\ swap'.validated = swap.validated /\ ~Running'
  <1> DEFINE grown == absorb(context, chunk)
             parsed == processTxContent(content, chunk)
             permissions == processTxMsg(msg, chunk)
             hash == TxHash(grown.sha2, grown.final)
             status == processTxStatus(content, chunk, "S_DATA_ALLOWED" \in settings)
  <1>1. ASSUME NEW sw, NEW what, NEW ready, Answer(sw, what, ready)
        PROVE  out'.what = what
    BY <1>1 DEF Answer
  <1>2. Nothing[1] # "signature" /\ NoResponse.what[1] # "signature" /\ InSwap = TRUE
    BY TronAppAssumption DEF Nothing, NoResponse
  <1> HIDE DEF grown, parsed, permissions, hash, status
  <1>3. ASSUME NEW sw, Answer(sw, Nothing, InSwap) \/ SendSw(sw) \/ Answer(sw, Nothing, TRUE)
        PROVE  FALSE
    BY <1>1, <1>2, <1>3 DEF SendSw, Send
  <1>4. /\ FinishSign(grown, parsed, permissions, tc)
        /\ status \in {"USTREAM_PROCESSING", "USTREAM_FINISHED"}
    BY <1>3 DEF SignChunk, grown, parsed, permissions, status
  <1>5. /\ ReviewVerdict(parsed, permissions, settings, TRUE) = Pass
        /\ SwapVerdict(parsed, Buffers(parsed, permissions, hash), swap.validated) = Pass
        /\ Answer("E_OK", Signature(tc.path, hash), TRUE)
    BY <1>2, <1>3, <1>4 DEF FinishSign, hash
  <1>6. out'.what[3][2] = grown.sha2
    <2>1. Signature(tc.path, hash)[3] = hash
      BY DEF Signature
    <2>2. hash[2] = grown.sha2
      BY DEF hash, TxHash
    <2> QED
      BY <1>1, <1>5, <2>1, <2>2
  <1>7. swap'.validated = swap.validated /\ swap'.status = "success"
    BY <1>5 DEF Answer, TypeOK, Swaps
  <1> QED
    BY <1>4, <1>5, <1>6, <1>7 DEF Running, grown, parsed, permissions, hash, status

\* The invariants that the signature of a swap rests on.
SwapSignedInv ==
    HashInv /\ Stated /\ LabelInv /\ SwapInv /\ SwapSessionInv /\ SwapSignsValidated

\* A swap has no command that counts in the data but INS_SIGN.
LEMMA NextSwapSession == SwapSignedInv /\ [Next]_vars => SwapSessionInv'
  <1> SUFFICES ASSUME SwapSignedInv, [Next]_vars, InSwap
               PROVE  DataAgrees(txContext'.sha2, txContent')
    BY DEF SwapSessionInv
  <1> USE DEF SwapSignedInv
  <1>1. DataAgrees(txContext.sha2, txContent) /\ TypeOK
    BY DEF SwapSessionInv, HashInv
  <1>2. CASE SignStep
    <2>1. PICK chunk \in Chunks \cup {EmptyChunk} : \E p1, context, content, tc :
              /\ Opened(context, content, tc) \/ Continued(context, content, chunk, tc)
              /\ SignChunk(p1, chunk, context, content, tc)
      BY <1>2 DEF SignStep
    <2>2. PICK p1, context, content, tc :
              /\ Opened(context, content, tc) \/ Continued(context, content, chunk, tc)
              /\ SignChunk(p1, chunk, context, content, tc)
      BY <2>1
    <2>3. context \in Contexts /\ ContentShape(content) /\ DataAgrees(context.sha2, content)
      <3>1. CASE Opened(context, content, tc)
        BY <2>2, <3>1, SeedAgrees, EmptyData DEF Opened, FreshContext
      <3>2. CASE Continued(context, content, chunk, tc)
        BY <1>1, <2>2, <3>2, SeedAgrees, RelabelledFrame, DataFrame DEF Continued
      <3> QED
        BY <2>2, <3>1, <3>2
    <2>4. \/ UNCHANGED <<txContext, txContent>>
          \/ txContext'.sha2 = <<>> /\ txContent' = ZeroContent
          \/ /\ txContext'.sha2 = absorb(context, chunk).sha2
             /\ txContent' = processTxContent(content, chunk)
      BY <1>1, <2>2, <2>3, SignOutcome
    <2> QED
      BY <1>1, <2>3, <2>4, EmptyData, AbsorbData
  <1>3. CASE LabelStep
    BY <1>1, <1>3, RelabelledFrame, DataFrame DEF LabelStep
  <1>4. CASE QuietStep \/ ScreenStep
    BY <1>1, <1>4 DEF QuietStep, ScreenStep
  <1>5. CASE CloseStep
    BY <1>5, EmptyData DEF CloseStep, NoContext
  <1> QED
    BY <1>1, <1>2, <1>3, <1>4, <1>5, StepKinds DEF MessageStep

\* What SwapSignsValidated says of an answer.
LEMMA PaymentIsValidated ==
    SwapSignsValidated <=>
        (InSwap /\ out.what[1] = "signature" =>
            PaysForChunks(out.what[3][2], swap.validated) /\ ~Running)
  BY DEF SwapSignsValidated, PaysForChunks

\* The signature of a swap is for the validated payment.
LEMMA NextSwapSigned == SwapSignedInv /\ [Next]_vars => SwapSignsValidated'
  <1> SUFFICES ASSUME SwapSignedInv, [Next]_vars, InSwap, out'.what[1] = "signature"
               PROVE  PaysForChunks(out'.what[3][2], swap'.validated) /\ ~Running'
    BY DEF SwapSignsValidated, PaysForChunks
  <1> USE DEF SwapSignedInv
  <1>1. TypeOK /\ SwapHasNoScreen
    BY DEF HashInv, SwapInv
  <1>2. CASE ~Running
    <2>1. UNCHANGED vars
      BY <1>1, <1>2, SwapStopped
    <2> QED
      BY <1>2, <2>1, PaymentIsValidated DEF vars, Running
  <1>3. CASE Running
    <2>1. out.what[1] # "signature" /\ ~Reviewing
      BY <1>1, <1>3, PaymentIsValidated DEF SwapHasNoScreen
    <2>2. SignStep
      BY <1>1, <2>1, SecretSource DEF KeepsSecrets
    <2>3. PICK chunk \in Chunks \cup {EmptyChunk} : \E p1, context, content, tc :
              /\ Opened(context, content, tc) \/ Continued(context, content, chunk, tc)
              /\ SignChunk(p1, chunk, context, content, tc)
      BY <2>2 DEF SignStep
    <2>4. PICK p1, context, content, tc :
              /\ Opened(context, content, tc) \/ Continued(context, content, chunk, tc)
              /\ SignChunk(p1, chunk, context, content, tc)
      BY <2>3
    <2>5. /\ context \in Contexts /\ ContentShape(content) /\ Agrees(context.sha2, content)
          /\ Labelled(context.sha2, content)
      BY <2>4, SeedAgrees, SeedLabels
    <2>6. DataAgrees(context.sha2, content)
      <3>1. CASE Opened(context, content, tc)
        BY <3>1, EmptyData DEF Opened, FreshContext
      <3>2. CASE Continued(context, content, chunk, tc)
        BY <1>1, <3>2, RelabelledFrame, DataFrame DEF Continued, SwapSessionInv
      <3> QED
        BY <2>4, <3>1, <3>2
    <2> DEFINE grown == absorb(context, chunk)
               parsed == processTxContent(content, chunk)
               permissions == processTxMsg(msg, chunk)
               hash == TxHash(grown.sha2, grown.final)
               status == processTxStatus(content, chunk, "S_DATA_ALLOWED" \in settings)
    <2>7. /\ status \in {"USTREAM_PROCESSING", "USTREAM_FINISHED"}
          /\ ReviewVerdict(parsed, permissions, settings, TRUE) = Pass
          /\ SwapVerdict(parsed, Buffers(parsed, permissions, hash), swap.validated) = Pass
          /\ out'.what[3][2] = grown.sha2
          /\ swap'.validated = swap.validated /\ ~Running'
      BY <1>1, <2>4, SwapSignature
    <2>8. /\ Agrees(grown.sha2, parsed) /\ Labelled(grown.sha2, parsed)
          /\ DataAgrees(grown.sha2, parsed)
      BY <2>5, <2>6, <2>7, AbsorbAgrees, AbsorbLabels, AbsorbData
    <2>9. grown.sha2 \in Seq(Chunks) /\ ContentShape(parsed)
      <3>1. grown \in Contexts
        BY <2>5, AbsorbType
      <3>2. ContentShape(parsed)
        BY <2>5, ProcessTxType DEF ContentShape
      <3> QED
        BY <3>1, <3>2 DEF Contexts
    <2> HIDE DEF grown, parsed, permissions, hash, status
    <2>10. parsed.contractSeen
      BY <2>7, <2>8, <2>9, PassHasContract DEF ContentShape
    <2>11. PaysForChunks(grown.sha2, swap.validated)
      BY <2>7, <2>8, <2>9, <2>10, GatesValidate
    <2> QED
      BY <2>7, <2>11
  <1> QED
    BY <1>2, <1>3

\* Called from Exchange, the app signs exactly the payment that Exchange validated:
\* its recipient, its ticker and its amount as numbers, without data and below the
\* cap on the fee limit, whatever chunks the host sends in whatever order.
THEOREM SwapPaysValidated == Spec => []SwapSignsValidated
  <1>1. Init => SwapSignedInv
    <2> SUFFICES ASSUME Init PROVE SwapSessionInv /\ SwapSignsValidated
      BY InitHash, InitFinal, InitLabels, InitSwap DEF SwapSignedInv
    <2>1. txContext.sha2 = <<>> /\ txContent = ZeroContent /\ out.what[1] # "signature"
      BY DEF Init, NoContext, NoResponse, Nothing
    <2> QED
      BY <2>1, EmptyData, PaymentIsValidated DEF SwapSessionInv
  <1>2. SwapSignedInv /\ [Next]_vars => SwapSignedInv'
    <2> SUFFICES ASSUME SwapSignedInv, [Next]_vars PROVE SwapSignedInv'
      OBVIOUS
    <2>1. HashInv' /\ Stated' /\ LabelInv' /\ SwapInv'
      BY NextHash, NextStated, NextLabels, NextSwap DEF SwapSignedInv, HashInv
    <2> QED
      BY <2>1, NextSwapSession, NextSwapSigned DEF SwapSignedInv
  <1>3. SwapSignedInv => SwapSignsValidated
    BY DEF SwapSignedInv
  <1> QED
    BY <1>1, <1>2, <1>3, PTL DEF Spec
=============================================================================
