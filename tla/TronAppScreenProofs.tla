------------------------- MODULE TronAppScreenProofs -------------------------
(***************************************************************************)
(* Proofs about the screen and what leaves the device: that a review tells *)
(* what would be released, that only that is released, and that the app    *)
(* implements SigningOracle.                                               *)
(***************************************************************************)
EXTENDS TronAppSessionProofs, TxReviewProofs, TronAppOracle

-----------------------------------------------------------------------------
(* The reviews about a key: its address is on the screen, and so is what it *)
(* is used on.                                                              *)

\* The buffers of such a review, before the handler adds its own value.
LEMMA KeyBuffersFilled ==
    ASSUME NEW path
    PROVE  KeyBuffers(path) =
             [ fromAddress |-> Address(KeyAddress[path]), toAddress |-> Blank,
               fullContract |-> Blank, amount |-> Blank, amount2 |-> Blank, sendAllow |-> "To",
               selector |-> Blank, hash |-> Blank, maxFee |-> Blank,
               votes |-> <<>>, permissions |-> NoPermissions ]
  BY DEF KeyBuffers, NoBuffers

\* Buffers without a list are those of a review.
LEMMA ListlessTagged ==
    ASSUME NEW b, Filled(b), b.votes = <<>>, b.permissions = NoPermissions
    PROVE  Tagged(b)
  <1>1. PermissionLists(b.permissions)
    BY NoneAreLists
  <1>2. Listed(b.votes) /\ Len(b.votes) <= MAX_VOTES
    <2>1. Listed(<<>>) /\ Len(<<>>) <= MAX_VOTES
      BY DEF Listed, MAX_VOTES
    <2> QED
      BY <2>1
  <1> QED
    BY <1>1, <1>2, FilledIsTagged

\* Without a contact nothing is named; the sender may be named after the key.
LEMMA KeyResolved ==
    ASSUME NEW path \in Paths, NEW b, b.fromAddress = Address(KeyAddress[path])
    PROVE  /\ Resolved(NoContacts, b)
           /\ Resolved([NoContacts EXCEPT !.sender = ContactOf[KeyAddress[path]]], b)
  <1>1. KeyAddress[path] \in DOMAIN ContactOf
    BY AddressAssumption
  <1> QED
    BY <1>1 DEF Resolved, NoContacts

\* The screen of a personal message.
LEMMA MessageScreen ==
    ASSUME NEW path \in Paths, NEW hash
    PROVE  Screen(prepareTxInfos("APPROVAL_SIGN_PERSONAL_MESSAGE",
                                 [KeyBuffers(path) EXCEPT !.fullContract = Hash(hash)],
                                 FALSE, NoContacts),
                  {Hash(hash), Address(KeyAddress[path])})
  <1> DEFINE b == [KeyBuffers(path) EXCEPT !.fullContract = Hash(hash)]
             list == FieldList("APPROVAL_SIGN_PERSONAL_MESSAGE", b, FALSE)
             shown == {b.fullContract, b.fromAddress}
  <1>1. /\ b.fromAddress = Address(KeyAddress[path]) /\ b.fullContract = Hash(hash)
        /\ Filled(b) /\ b.votes = <<>> /\ b.permissions = NoPermissions
    BY KeyBuffersFilled, TagsOfValues DEF Filled, Blank
  <1>2. Tagged(b) /\ Resolved(NoContacts, b)
    BY <1>1, ListlessTagged, KeyResolved
  <1> HIDE DEF b
  <1>3. Reveals(list, b, shown)
    BY <1>2, FixedReviews
  <1> HIDE DEF list, shown
  <1>4. Screen(Prepared(list, NoContacts), shown)
    BY <1>2, <1>3, ScreenOf DEF Reveals
  <1> QED
    BY <1>1, <1>4 DEF prepareTxInfos, Prepared, list, shown, b

\* The screen of a bare hash.
LEMMA HashScreen ==
    ASSUME NEW path \in Paths, NEW hash
    PROVE  Screen(prepareTxInfos("APPROVAL_SIMPLE_TRANSACTION",
                                 [KeyBuffers(path) EXCEPT !.hash = Hash(hash)],
                                 FALSE, NoContacts),
                  {Hash(hash), Address(KeyAddress[path])})
  <1> DEFINE b == [KeyBuffers(path) EXCEPT !.hash = Hash(hash)]
             list == FieldList("APPROVAL_SIMPLE_TRANSACTION", b, FALSE)
             shown == {b.hash, b.fromAddress}
  <1>1. /\ b.fromAddress = Address(KeyAddress[path]) /\ b.hash = Hash(hash)
        /\ Filled(b) /\ b.votes = <<>> /\ b.permissions = NoPermissions
    BY KeyBuffersFilled, TagsOfValues DEF Filled, Blank
  <1>2. Tagged(b) /\ Resolved(NoContacts, b)
    BY <1>1, ListlessTagged, KeyResolved
  <1> HIDE DEF b
  <1>3. Reveals(list, b, shown)
    BY <1>2, FixedReviews
  <1> HIDE DEF list, shown
  <1>4. Screen(Prepared(list, NoContacts), shown)
    BY <1>2, <1>3, ScreenOf DEF Reveals
  <1> QED
    BY <1>1, <1>4 DEF prepareTxInfos, Prepared, list, shown, b

\* The screen of a TIP-712 message, whose signer may be in the Address Book.
LEMMA Tip712Screen ==
    ASSUME NEW path \in Paths, NEW domain, NEW message
    PROVE  Screen(prepareTxInfos("APPROVAL_SIGN_TIP72_TRANSACTION",
                                 [KeyBuffers(path) EXCEPT !.amount = Hash(domain),
                                                          !.amount2 = Hash(message)],
                                 FALSE,
                                 [NoContacts EXCEPT !.sender = ContactOf[KeyAddress[path]]]),
                  {Hash(domain), Hash(message), Address(KeyAddress[path])})
  <1> DEFINE b == [KeyBuffers(path) EXCEPT !.amount = Hash(domain), !.amount2 = Hash(message)]
             c == [NoContacts EXCEPT !.sender = ContactOf[KeyAddress[path]]]
             list == FieldList("APPROVAL_SIGN_TIP72_TRANSACTION", b, FALSE)
             shown == {b.amount, b.amount2, b.fromAddress}
  <1>1. /\ b.fromAddress = Address(KeyAddress[path])
        /\ b.amount = Hash(domain) /\ b.amount2 = Hash(message)
        /\ Filled(b) /\ b.votes = <<>> /\ b.permissions = NoPermissions
    BY KeyBuffersFilled, TagsOfValues DEF Filled, Blank
  <1>2. Tagged(b) /\ Resolved(c, b)
    BY <1>1, ListlessTagged, KeyResolved
  <1> HIDE DEF b, c
  <1>3. Reveals(list, b, shown)
    BY <1>2, FixedReviews
  <1> HIDE DEF list, shown
  <1>4. Screen(Prepared(list, c), shown)
    BY <1>2, <1>3, ScreenOf DEF Reveals
  <1> QED
    BY <1>1, <1>4 DEF prepareTxInfos, Prepared, list, shown, b, c

\* The screen of a shared secret.
LEMMA SecretScreen ==
    ASSUME NEW path \in Paths, NEW peer
    PROVE  Screen(prepareTxInfos("APPROVAL_SHARED_ECDH_SECRET",
                                 [KeyBuffers(path) EXCEPT !.toAddress = Address(peer)],
                                 FALSE, NoContacts),
                  {Address(KeyAddress[path]), Address(peer)})
  <1> DEFINE b == [KeyBuffers(path) EXCEPT !.toAddress = Address(peer)]
             list == FieldList("APPROVAL_SHARED_ECDH_SECRET", b, FALSE)
             shown == {b.fromAddress, b.toAddress}
  <1>1. /\ b.fromAddress = Address(KeyAddress[path]) /\ b.toAddress = Address(peer)
        /\ Filled(b) /\ b.votes = <<>> /\ b.permissions = NoPermissions
    BY KeyBuffersFilled, TagsOfValues DEF Filled, Blank
  <1>2. Tagged(b) /\ Resolved(NoContacts, b)
    BY <1>1, ListlessTagged, KeyResolved
  <1> HIDE DEF b
  <1>3. Reveals(list, b, shown)
    BY <1>2, FixedReviews
  <1> HIDE DEF list, shown
  <1>4. Screen(Prepared(list, NoContacts), shown)
    BY <1>2, <1>3, ScreenOf DEF Reveals
  <1> QED
    BY <1>1, <1>4 DEF prepareTxInfos, Prepared, list, shown, b

\* The screen of an address, a single field without aliases.
LEMMA AddressScreen ==
    ASSUME NEW path
    PROVE  Screen(<<Plain("Address", Address(KeyAddress[path]))>>, {Address(KeyAddress[path])})
  <1> DEFINE fields == <<Plain("Address", Address(KeyAddress[path]))>>
             value == Address(KeyAddress[path])
  <1>1. /\ Len(fields) = 1 /\ DOMAIN fields = {1}
        /\ fields[1].item = "Address" /\ fields[1].value = value
    BY DEF Plain
  <1>2. value[1] = "address" /\ Unalias(value) = value
    BY DEF Address, Unalias
  <1> HIDE DEF fields, value
  <1>3. NamesStand(fields)
    BY <1>1, <1>2 DEF NamesStand
  <1>4. value \in ValuesOf(fields)
    BY <1>1, <1>2 DEF ValuesOf
  <1> QED
    BY <1>1, <1>3, <1>4
    DEF Screen, MAX_TX_FIELDS, PERMISSION_MAX_ACTIVES, PERMISSION_MAX_KEYS, fields, value

-----------------------------------------------------------------------------
(* The contract of a session was accepted, and its permissions are the ones *)
(* in the decoded message: a later chunk clears the message but cannot bring *)
(* another contract.                                                        *)

\* The contract among chunks, and the permissions kept for the review.
Kept(chunks, permissions) ==
    \A i \in ContractChunks(chunks) :
        LET k == chunks[i].contract[1]
        IN  /\ k.type \in ParsedTypes /\ Accepts(k.type, k.m)
            /\ k.type = "ACCOUNTPERMISSIONUPDATECONTRACT" =>
                  permissions \in {NoPermissions, k.m.permissions}
KeptInv == Kept(txContext.sha2, msg)

\* A session without chunks has no contract.
LEMMA EmptyKept == ASSUME NEW permissions PROVE Kept(<<>>, permissions)
  BY DEF Kept, ContractChunks

\* A chunk that the parser takes keeps them.
LEMMA AbsorbKept ==
    ASSUME NEW context \in Contexts, NEW content, Agrees(context.sha2, content),
           NEW permissions, Kept(context.sha2, permissions),
           NEW chunk \in Chunks \cup {EmptyChunk}, NEW allowed,
           processTxStatus(content, chunk, allowed) \in {"USTREAM_PROCESSING", "USTREAM_FINISHED"}
    PROVE  Kept(absorb(context, chunk).sha2, processTxMsg(permissions, chunk))
  <1> DEFINE chunks == context.sha2
             grown == Append(chunks, chunk)
             n == Len(chunks) + 1
             k == chunk.contract[1]
             new == processTxMsg(permissions, chunk)
  <1>1. CASE chunk.len = 0
    BY <1>1, AbsorbType DEF processTxMsg
  <1>2. CASE chunk.len # 0
    <2>1. chunks \in Seq(Chunks) /\ absorb(context, chunk).sha2 = grown
      BY <1>2, AbsorbType DEF Contexts
    <2>2. /\ DOMAIN grown = 1..n /\ DOMAIN chunks = 1..(n - 1) /\ n \in Nat \ {0}
          /\ grown[n] = chunk
          /\ \A i \in DOMAIN chunks : grown[i] = chunks[i]
      BY <2>1
    <2>3. HasContract(chunk) =>
              ~content.contractSeen /\ k.type \in ParsedTypes /\ Accepts(k.type, k.m)
      BY <1>2 DEF processTxStatus, ContractRefused
    <2>4. /\ new = NoPermissions \/ (HasContract(chunk) /\ new = k.m.permissions)
          /\ HasContract(chunk) /\ k.type = "ACCOUNTPERMISSIONUPDATECONTRACT" =>
                new = k.m.permissions
      BY <1>2 DEF processTxMsg
    <2> HIDE DEF chunks, grown, n, k, new
    <2>5. CASE HasContract(chunk)
      <3>1. ContractChunks(chunks) = {}
        BY <2>3, <2>5 DEF Agrees, chunks
      <3>2. \A i \in ContractChunks(grown) : grown[i] = chunk
        BY <2>2, <3>1 DEF ContractChunks
      <3> QED
        BY <2>1, <2>3, <2>4, <2>5, <3>2 DEF Kept, new, k
    <2>6. CASE ~HasContract(chunk)
      <3>1. \A i \in ContractChunks(grown) : i \in ContractChunks(chunks) /\ grown[i] = chunks[i]
        BY <2>2, <2>6 DEF ContractChunks
      <3> QED
        BY <2>1, <2>4, <2>6, <3>1 DEF Kept, new, chunks
    <2> QED
      BY <2>5, <2>6
  <1> QED
    BY <1>1, <1>2

\* What handleSign does to the session and to the decoded message.
LEMMA MessageOutcome ==
    ASSUME NEW p1, NEW chunk \in Chunks \cup {EmptyChunk},
           NEW context \in Contexts, NEW content, NEW tc,
           SignChunk(p1, chunk, context, content, tc)
    PROVE  \/ UNCHANGED <<txContext, msg>>
           \/ txContext'.sha2 = <<>>
           \/ /\ processTxStatus(content, chunk, "S_DATA_ALLOWED" \in settings)
                    \in {"USTREAM_PROCESSING", "USTREAM_FINISHED"}
              /\ txContext'.sha2 = absorb(context, chunk).sha2
              /\ msg' = processTxMsg(msg, chunk)
  <1> DEFINE grown == absorb(context, chunk)
             parsed == processTxContent(content, chunk)
             permissions == processTxMsg(msg, chunk)
             status == processTxStatus(content, chunk, "S_DATA_ALLOWED" \in settings)
  <1>1. grown \in Contexts
    BY AbsorbType
  <1>2. NoContext.sha2 = <<>> /\ FreshContext(context.opened).sha2 = <<>>
    BY DEF NoContext, FreshContext
  <1> HIDE DEF grown, parsed, permissions, status
  <1>3. ASSUME FinishSign(grown, parsed, permissions, tc)
        PROVE  Terminated \/ (txContext' = [grown EXCEPT !.final = TRUE] /\ msg' = permissions)
    BY <1>3 DEF FinishSign
  <1>4. \/ UNCHANGED <<txContext, msg>>
        \/ txContext'.sha2 = <<>>
        \/ status \in {"USTREAM_PROCESSING", "USTREAM_FINISHED"}
              /\ txContext' = grown /\ msg' = permissions
        \/ status \in {"USTREAM_PROCESSING", "USTREAM_FINISHED"}
              /\ FinishSign(grown, parsed, permissions, tc)
    BY <1>2 DEF SignChunk, session, grown, parsed, permissions, status
  <1> QED
    BY <1>1, <1>2, <1>3, <1>4 DEF Terminated, Contexts, grown, permissions, status

\* handleSign goes on from a session that keeps its contract.
LEMMA SeedKept ==
    ASSUME KeptInv, NEW context, NEW content, NEW chunk, NEW tc,
           Opened(context, content, tc) \/ Continued(context, content, chunk, tc)
    PROVE  Kept(context.sha2, msg)
  BY EmptyKept DEF Opened, Continued, FreshContext, KeptInv

\* Every step keeps the invariant.
LEMMA NextKept == HashInv /\ Stated /\ KeptInv /\ [Next]_vars => KeptInv'
  <1> SUFFICES ASSUME HashInv, Stated, KeptInv, [Next]_vars PROVE KeptInv'
    OBVIOUS
  <1>1. CASE SignStep
    <2>1. PICK chunk \in Chunks \cup {EmptyChunk} : \E p1, context, content, tc :
              /\ Opened(context, content, tc) \/ Continued(context, content, chunk, tc)
              /\ SignChunk(p1, chunk, context, content, tc)
      BY <1>1 DEF SignStep
    <2>2. PICK p1, context, content, tc :
              /\ Opened(context, content, tc) \/ Continued(context, content, chunk, tc)
              /\ SignChunk(p1, chunk, context, content, tc)
      BY <2>1
    <2>3. context \in Contexts /\ Agrees(context.sha2, content) /\ Kept(context.sha2, msg)
      BY <2>2, SeedAgrees, SeedKept
    <2>4. \/ UNCHANGED <<txContext, msg>>
          \/ txContext'.sha2 = <<>>
          \/ /\ processTxStatus(content, chunk, "S_DATA_ALLOWED" \in settings)
                   \in {"USTREAM_PROCESSING", "USTREAM_FINISHED"}
             /\ txContext'.sha2 = absorb(context, chunk).sha2
             /\ msg' = processTxMsg(msg, chunk)
      BY <2>2, <2>3, MessageOutcome
    <2> QED
      BY <2>3, <2>4, EmptyKept, AbsorbKept DEF KeptInv
  <1>2. CASE LabelStep \/ MessageStep \/ QuietStep \/ ScreenStep
    BY <1>2 DEF LabelStep, MessageStep, QuietStep, ScreenStep, KeptInv
  <1>3. CASE CloseStep
    BY <1>3, EmptyKept DEF CloseStep, KeptInv, NoContext
  <1> QED
    BY <1>1, <1>2, <1>3, StepKinds DEF HashInv

\* The initial state satisfies the invariant.
LEMMA InitKept == Init => KeptInv
  BY EmptyKept DEF Init, KeptInv, NoContext

-----------------------------------------------------------------------------
(* The invariant of the screen: what the callback of a review would release *)
(* is what the review tells.                                                *)

\* A review that fits, names what it names and waits for the user.
OnScreen ==
    /\ DOMAIN review = DOMAIN NoReview
    /\ review.screens \in Seq(ScreenNames) /\ Len(review.screens) >= 1
    /\ Screen(review.fields, {})
    /\ out = NoResponse

\* The key and the hash to be signed are both shown.
HashShown == ShowsKey(transactionContext.path) /\ Hash(transactionContext.hash) \in ShownValues

\* The transaction to be signed is told by the fields.
TransactionTold ==
    \A i \in ContractChunks(HashedChunks) :
        Discloses(HashedChunks[i].contract[1], txContent.feeLimit, ShownValues, review.state,
                  transactionContext.hash)

\* What each review tells of the globals that its callback reads.
Tellings ==
    LET m == messageSigningContext712
        hash == transactionContext.hash
    IN  CASE review.state = "APPROVAL_VERIFY_ADDRESS" -> ShowsKey(publicKeyContext.path)
          [] review.state = "APPROVAL_SHARED_ECDH_SECRET" ->
                /\ ShowsKey(transactionContext.path)
                /\ Address(Peers[transactionContext.peer]) \in ShownValues
          [] review.state = "APPROVAL_SIGN_TIP72_TRANSACTION" ->
                /\ ShowsKey(m.path)
                /\ {Hash(RawHash(m.domain)), Hash(RawHash(m.message))} \subseteq ShownValues
          [] review.state = "APPROVAL_SIGN_PERSONAL_MESSAGE" -> hash[1] = "message" /\ HashShown
          [] OTHER ->
                \/ hash[1] = "tx" /\ TransactionTold
                \/ hash[1] = "raw" /\ HashShown

Described == Reviewing => OnScreen /\ Tellings

\* The home screen tells nothing.
LEMMA HomeDescribed == ASSUME review' = NoReview PROVE Described'
  BY DEF Described, Reviewing

\* The fields of a review that comes up.
LEMMA DisplayedScreen ==
    ASSUME NEW state, NEW b, NEW isTrigger, NEW data_warning \in BOOLEAN, NEW c, NEW shown,
           Screen(prepareTxInfos(state, b, isTrigger, c), shown),
           Display(state, b, isTrigger, data_warning, c)
    PROVE  OnScreen' /\ review'.state = state /\ shown \subseteq ShownValues'
  <1> DEFINE fields == prepareTxInfos(state, b, isTrigger, c)
             screens == Screens(state, data_warning)
  <1>1. review' = [state |-> state, screens |-> screens, fields |-> fields] /\ out' = NoResponse
    BY DEF Display
  <1>2. screens \in Seq(ScreenNames) /\ Len(screens) >= 1
    BY FirstScreen
  <1>3. Screen(fields, shown)
    OBVIOUS
  <1> HIDE DEF fields, screens
  <1>4. Screen(fields, {}) /\ shown \subseteq ValuesOf(fields)
    BY <1>3 DEF Screen
  <1>5. review'.state = state /\ review'.screens = screens /\ review'.fields = fields
        /\ DOMAIN review' = DOMAIN NoReview
    BY <1>1 DEF NoReview
  <1>6. ShownValues' = ValuesOf(fields)
    BY <1>5 DEF ShownValues, ValuesOf
  <1> QED
    BY <1>1, <1>2, <1>4, <1>5, <1>6 DEF OnScreen

\* The review of a transaction tells what its contract does.
LEMMA SignChunkDescribed ==
    ASSUME HashInv, KeptInv, Idle, NEW p1, NEW chunk \in Chunks \cup {EmptyChunk},
           NEW context, NEW content, NEW tc,
           Opened(context, content, tc) \/ Continued(context, content, chunk, tc),
           SignChunk(p1, chunk, context, content, tc)
    PROVE  Described'
  <1> SUFFICES ASSUME Reviewing' PROVE OnScreen' /\ Tellings'
    BY DEF Described
  <1> DEFINE grown == absorb(context, chunk)
             parsed == processTxContent(content, chunk)
             permissions == processTxMsg(msg, chunk)
             hash == TxHash(grown.sha2, grown.final)
             fields == ReviewFields(parsed, permissions, hash)
  <1>1. Shows(chunk, context, content, tc)
    BY SignReview
  <1>2. /\ context \in Contexts /\ ContentShape(content) /\ TransactionShape(tc)
        /\ Agrees(context.sha2, content) /\ Kept(context.sha2, msg)
    BY SeedAgrees, SeedKept
  <1>3. /\ grown \in Contexts /\ Agrees(grown.sha2, parsed) /\ Kept(grown.sha2, permissions)
        /\ parsed.contractSeen \in BOOLEAN
    BY <1>1, <1>2, AbsorbType, AbsorbAgrees, AbsorbKept, ProcessTxType DEF Shows, ContentShape
  <1>4. /\ ReviewVerdict(parsed, permissions, settings, InSwap) = Pass
        /\ txContent' = parsed /\ transactionContext' = [tc EXCEPT !.hash = hash]
        /\ Display(ApprovalState(parsed), Buffers(parsed, permissions, hash),
                   parsed.contractType = "TRIGGERSMARTCONTRACT", parsed.dataBytes > 0,
                   ResolveContacts(NoContacts, parsed))
    BY <1>1 DEF Shows
  <1>5. transactionContext'.hash = hash /\ hash[1] = "tx" /\ hash[2] = grown.sha2
    BY <1>2, <1>4 DEF TransactionShape, NoTransaction, TxHash
  <1> HIDE DEF grown, parsed, permissions, hash
  <1>6. PICK i \in DOMAIN grown.sha2 :
            /\ ContractChunks(grown.sha2) = {i}
            /\ Decoded(parsed, grown.sha2[i].contract[1])
    <2>1. parsed.contractSeen
      BY <1>3, <1>4, PassHasContract
    <2> QED
      BY <1>3, <2>1 DEF Agrees, ContractParsed, Decoded
  <1> DEFINE k == grown.sha2[i].contract[1]
  <1>7. /\ Sendable(k) /\ k.type \in ParsedTypes /\ Accepts(k.type, k.m)
        /\ k.type = "ACCOUNTPERMISSIONUPDATECONTRACT" =>
              permissions \in {NoPermissions, k.m.permissions}
    <2>1. i \in ContractChunks(grown.sha2)
      BY <1>6
    <2>2. grown.sha2[i] \in Chunks /\ HasContract(grown.sha2[i])
      BY <1>3, <2>1 DEF Contexts, ContractChunks
    <2> QED
      BY <1>3, <2>1, <2>2, ChunkIsSendable DEF Kept
  <1>8. Told(k, parsed, permissions, hash)
    <2>1. Decoded(parsed, k)
      BY <1>6
    <2> HIDE DEF k
    <2> QED
      BY <1>4, <1>7, <2>1, ContractTold
  <1>9. Screen(fields, {}) /\ Discloses(k, parsed.feeLimit, ValuesOf(fields), ApprovalState(parsed), hash)
    BY <1>8 DEF Told
  <1>10. OnScreen' /\ review'.state = ApprovalState(parsed)
    <2> DEFINE isTrigger == parsed.contractType = "TRIGGERSMARTCONTRACT"
               data_warning == parsed.dataBytes > 0
               b == Buffers(parsed, permissions, hash)
               c == ResolveContacts(NoContacts, parsed)
               state == ApprovalState(parsed)
    <2>1. /\ Screen(prepareTxInfos(state, b, isTrigger, c), {})
          /\ Display(state, b, isTrigger, data_warning, c)
          /\ data_warning \in BOOLEAN
      BY <1>4, <1>9 DEF ReviewFields
    <2> HIDE DEF isTrigger, data_warning, b, c, state
    <2>2. OnScreen' /\ review'.state = state
      BY <2>1, DisplayedScreen
    <2> QED
      BY <2>2 DEF state
  <1>11. ShownValues' = ValuesOf(fields)
    <2>1. review'.fields = fields
      BY <1>4 DEF Display, ReviewFields
    <2> HIDE DEF fields
    <2> QED
      BY <2>1 DEF ShownValues, ValuesOf
  <1> HIDE DEF fields
  <1>12. TransactionTold'
    BY <1>4, <1>5, <1>6, <1>9, <1>10, <1>11 DEF TransactionTold, HashedChunks
  <1>13. Tellings'
    BY <1>5, <1>10, <1>12, SignStates DEF Tellings
  <1> QED
    BY <1>10, <1>13

\* The review of a personal message shows its hash and the key.
LEMMA MessageDataDescribed ==
    ASSUME TypeOK, Idle, contacts' = dispatched(contacts),
           NEW path, NEW ctx, NEW left, NEW size, NEW p2, MessageData(path, ctx, left, size, p2)
    PROVE  Described'
  <1> DEFINE grown == absorbMessage(ctx, size)
             hash == MessageHash(grown.announced, grown.got)
             b == [KeyBuffers(path) EXCEPT !.fullContract = Hash(hash)]
             shown == {Hash(hash), Address(KeyAddress[path])}
             state == "APPROVAL_SIGN_PERSONAL_MESSAGE"
  <1>1. \/ review' = NoReview
        \/ /\ path \in Paths
           /\ transactionContext' = [transactionContext EXCEPT !.path = path, !.hash = hash]
           /\ Display(state, b, FALSE, FALSE, NoContacts)
    BY DEF MessageData, EarlyReturn, Idle, CanDerive, PathAccepted, dispatched
  <1>2. CASE review' = NoReview
    BY <1>2, HomeDescribed
  <1>3. CASE review' # NoReview
    <2>1. /\ transactionContext'.path = path /\ path \in Paths
          /\ transactionContext'.hash = hash /\ hash[1] = "message"
      BY <1>1, <1>3 DEF TypeOK, TransactionShape, NoTransaction, MessageHash
    <2>2. Screen(prepareTxInfos(state, b, FALSE, NoContacts), shown)
      BY <2>1, MessageScreen
    <2>3. Display(state, b, FALSE, FALSE, NoContacts)
      BY <1>1, <1>3
    <2> HIDE DEF hash, b, shown
    <2>4. OnScreen' /\ review'.state = state /\ shown \subseteq ShownValues'
      BY <2>2, <2>3, DisplayedScreen
    <2> QED
      BY <2>1, <2>4 DEF Described, Tellings, HashShown, ShowsKey, shown
  <1> QED
    BY <1>2, <1>3

\* A command of a personal message keeps the invariant.
LEMMA MessageCommandDescribed == TypeOK /\ MessageCommand => Described'
  <1> SUFFICES ASSUME TypeOK, MessageCommand PROVE Described'
    OBVIOUS
  <1>1. ASSUME NEW sw, EarlyReturn(sw), Idle PROVE Described'
    BY <1>1, HomeDescribed DEF EarlyReturn, Idle
  <1> QED
    BY <1>1, MessageDataDescribed DEF MessageCommand, PersonalMessageFirst, PersonalMessageMore

\* The review of a bare hash shows it and the key.
LEMMA ByHashDescribed ==
    ASSUME TypeOK, NEW argument, NEW digest, handleSignByHash(argument, digest)
    PROVE  Described'
  <1> DEFINE path == read_bip32_path(transactionContext.path, argument)
             hash == RawHash(digest)
             b == [KeyBuffers(path) EXCEPT !.hash = Hash(hash)]
             shown == {Hash(hash), Address(KeyAddress[path])}
             state == "APPROVAL_SIMPLE_TRANSACTION"
  <1>1. \/ review' = NoReview
        \/ /\ argument \in Paths
           /\ transactionContext' = [transactionContext EXCEPT !.path = path, !.hash = hash]
           /\ Display(state, b, FALSE, FALSE, NoContacts)
    BY DEF handleSignByHash, EarlyReturn, Idle, CanDerive, PathAccepted, dispatched
  <1>2. CASE review' = NoReview
    BY <1>2, HomeDescribed
  <1>3. CASE review' # NoReview
    <2>1. /\ transactionContext'.path = path /\ path \in Paths
          /\ transactionContext'.hash = hash /\ hash[1] = "raw"
      BY <1>1, <1>3, PathsAssumption
      DEF TypeOK, TransactionShape, NoTransaction, RawHash, read_bip32_path
    <2>2. Screen(prepareTxInfos(state, b, FALSE, NoContacts), shown)
      BY <2>1, HashScreen
    <2>3. Display(state, b, FALSE, FALSE, NoContacts)
      BY <1>1, <1>3
    <2> HIDE DEF path, hash, b, shown
    <2>4. OnScreen' /\ review'.state = state /\ shown \subseteq ShownValues'
      BY <2>2, <2>3, DisplayedScreen
    <2> QED
      BY <2>1, <2>4 DEF Described, Tellings, HashShown, ShowsKey, shown
  <1> QED
    BY <1>2, <1>3

\* The review of a TIP-712 message shows both hashes and the key.
LEMMA Tip712Described ==
    ASSUME TypeOK, NEW argument, NEW domain, NEW message,
           handleSignTIP712Message(argument, domain, message)
    PROVE  Described'
  <1> DEFINE d == RawHash(domain)
             h == RawHash(message)
             b == [KeyBuffers(argument) EXCEPT !.amount = Hash(d), !.amount2 = Hash(h)]
             c == [NoContacts EXCEPT !.sender = ContactOf[KeyAddress[argument]]]
             shown == {Hash(d), Hash(h), Address(KeyAddress[argument])}
             state == "APPROVAL_SIGN_TIP72_TRANSACTION"
  <1>1. \/ review' = NoReview
        \/ /\ argument \in Paths
           /\ messageSigningContext712' = [path |-> argument, domain |-> domain, message |-> message]
           /\ Display(state, b, FALSE, FALSE, c)
    BY PathsAssumption
    DEF handleSignTIP712Message, EarlyReturn, Idle, CanDerive, PathAccepted, dispatched
  <1>2. CASE review' = NoReview
    BY <1>2, HomeDescribed
  <1>3. CASE review' # NoReview
    <2>1. /\ messageSigningContext712'.path = argument /\ argument \in Paths
          /\ messageSigningContext712'.domain = domain
          /\ messageSigningContext712'.message = message
      <3>1. /\ messageSigningContext712'
                  = [path |-> argument, domain |-> domain, message |-> message]
            /\ argument \in Paths
        BY <1>1, <1>3
      <3> QED
        BY <3>1
    <2>2. Screen(prepareTxInfos(state, b, FALSE, c), shown)
      BY <2>1, Tip712Screen
    <2>3. Display(state, b, FALSE, FALSE, c)
      BY <1>1, <1>3
    <2> HIDE DEF d, h, b, c, shown
    <2>4. OnScreen' /\ review'.state = state /\ shown \subseteq ShownValues'
      BY <2>2, <2>3, DisplayedScreen
    <2>5. /\ ShowsKey(messageSigningContext712.path)'
          /\ {Hash(d), Hash(h)} \subseteq ShownValues'
      BY <2>1, <2>4 DEF ShowsKey, shown
    <2> QED
      BY <2>1, <2>4, <2>5 DEF Described, Tellings, d, h
  <1> QED
    BY <1>2, <1>3

\* The review of a shared secret shows both keys.
LEMMA SecretDescribed ==
    ASSUME TypeOK, NEW argument, NEW peer, handleECDHSecret(argument, peer)
    PROVE  Described'
  <1> DEFINE path == read_bip32_path(transactionContext.path, argument)
             b == [KeyBuffers(path) EXCEPT !.toAddress = Address(Peers[peer])]
             shown == {Address(KeyAddress[path]), Address(Peers[peer])}
             state == "APPROVAL_SHARED_ECDH_SECRET"
  <1>1. \/ review' = NoReview
        \/ /\ argument \in Paths
           /\ transactionContext' = [transactionContext EXCEPT !.path = path, !.peer = peer]
           /\ Display(state, b, FALSE, FALSE, NoContacts)
    BY DEF handleECDHSecret, EarlyReturn, Idle, CanDerive, PathAccepted, dispatched
  <1>2. CASE review' = NoReview
    BY <1>2, HomeDescribed
  <1>3. CASE review' # NoReview
    <2>1. /\ transactionContext'.path = path /\ path \in Paths
          /\ transactionContext'.peer = peer
      BY <1>1, <1>3, PathsAssumption DEF TypeOK, TransactionShape, NoTransaction, read_bip32_path
    <2>2. Screen(prepareTxInfos(state, b, FALSE, NoContacts), shown)
      BY <2>1, SecretScreen
    <2>3. Display(state, b, FALSE, FALSE, NoContacts)
      BY <1>1, <1>3
    <2> HIDE DEF path, b, shown
    <2>4. OnScreen' /\ review'.state = state /\ shown \subseteq ShownValues'
      BY <2>2, <2>3, DisplayedScreen
    <2> QED
      BY <2>1, <2>4 DEF Described, Tellings, ShowsKey, shown
  <1> QED
    BY <1>2, <1>3

\* The review of an address shows that of the key to be returned.
LEMMA PublicKeyDescribed ==
    ASSUME NEW confirm, NEW chaincode, NEW argument,
           handleGetPublicKey(confirm, chaincode, argument)
    PROVE  Described'
  <1> DEFINE fields == <<Plain("Address", Address(KeyAddress[argument]))>>
             shown == {Address(KeyAddress[argument])}
  <1>1. \/ review' = NoReview
        \/ /\ argument \in Paths /\ publicKeyContext'.path = argument
           /\ review' = [state |-> "APPROVAL_VERIFY_ADDRESS", screens |-> <<"review">>,
                         fields |-> fields]
           /\ out' = NoResponse
    BY DEF handleGetPublicKey, Idle, CanDerive, PathAccepted
  <1>2. CASE review' = NoReview
    BY <1>2, HomeDescribed
  <1>3. CASE review' # NoReview
    <2>1. Screen(fields, shown)
      BY AddressScreen
    <2> HIDE DEF fields, shown
    <2>2. /\ review'.state = "APPROVAL_VERIFY_ADDRESS" /\ review'.fields = fields
          /\ review'.screens = <<"review">> /\ DOMAIN review' = DOMAIN NoReview
      BY <1>1, <1>3 DEF NoReview
    <2>3. <<"review">> \in Seq(ScreenNames) /\ Len(<<"review">>) >= 1
      BY DEF ScreenNames
    <2>4. Screen(fields, {}) /\ shown \subseteq ValuesOf(fields)
      BY <2>1 DEF Screen
    <2>5. ShownValues' = ValuesOf(fields)
      BY <2>2 DEF ShownValues, ValuesOf
    <2>6. OnScreen'
      BY <1>1, <1>3, <2>2, <2>3, <2>4 DEF OnScreen
    <2>7. ShowsKey(publicKeyContext.path)'
      BY <1>1, <1>3, <2>4, <2>5 DEF ShowsKey, shown
    <2> QED
      BY <2>2, <2>6, <2>7 DEF Described, Tellings
  <1> QED
    BY <1>2, <1>3

\* The other commands keep the invariant.
LEMMA OtherCommandDescribed == TypeOK /\ OtherCommand => Described'
  <1> SUFFICES ASSUME TypeOK, OtherCommand PROVE Described'
    OBVIOUS
  <1>1. CASE handleGetAppConfiguration \/ RefusedInstruction \/ RefusedApdu
    BY <1>1, HomeDescribed
    DEF handleGetAppConfiguration, RefusedInstruction, RefusedApdu, AnswerOnly, Idle
  <1> QED
    BY <1>1, ByHashDescribed, Tip712Described, SecretDescribed, PublicKeyDescribed
    DEF OtherCommand

\* The user goes through the screens of one review.
LEMMA UserDescribed == Described /\ User => Described'
  <1> SUFFICES ASSUME Described, User PROVE Described'
    OBVIOUS
  <1>1. CASE AcceptWarning
    <2>1. OnScreen /\ Tellings /\ Len(review.screens) # 1
      BY <1>1 DEF AcceptWarning, Described, LastScreen
    <2>2. /\ DOMAIN review' = DOMAIN review /\ review'.screens = Tail(review.screens)
          /\ review'.state = review.state /\ review'.fields = review.fields
          /\ UNCHANGED <<out, transactionContext, txContent, publicKeyContext,
                         messageSigningContext712>>
      BY <1>1, <2>1 DEF AcceptWarning, CallbackFrame, OnScreen, NoReview
    <2>3. Tail(review.screens) \in Seq(ScreenNames) /\ Len(Tail(review.screens)) >= 1
      <3>1. review.screens \in Seq(ScreenNames) /\ Len(review.screens) >= 1
        BY <2>1 DEF OnScreen
      <3>2. ASSUME NEW S, NEW s \in Seq(S), Len(s) >= 1, Len(s) # 1
            PROVE  Tail(s) \in Seq(S) /\ Len(Tail(s)) >= 1
        <4>1. s # <<>> /\ Len(s) \in Nat
          BY <3>2
        <4>2. Tail(s) \in Seq(S) /\ Len(Tail(s)) = Len(s) - 1
          BY <4>1, HeadTailProperties
        <4> QED
          BY <3>2, <4>1, <4>2
      <3> QED
        BY <2>1, <3>1, <3>2
    <2>4. OnScreen'
      BY <2>1, <2>2, <2>3 DEF OnScreen
    <2>5. ShownValues' = ShownValues
      BY <2>2 DEF ShownValues
    <2>6. Tellings'
      BY <2>1, <2>2, <2>5 DEF Tellings, HashShown, ShowsKey, TransactionTold, HashedChunks
    <2> QED
      BY <2>4, <2>6 DEF Described
  <1>2. CASE Reject \/ Approve
    BY <1>2, HomeDescribed DEF Reject, Approve, ReviewOver
  <1> QED
    BY <1>1, <1>2 DEF User

\* The invariant of the screen, with what it stands on.
ScreenInv == HashInv /\ Stated /\ KeptInv /\ Described

\* Every step keeps it.
LEMMA NextDescribed == ScreenInv /\ [Next]_vars => Described'
  <1> SUFFICES ASSUME ScreenInv, [Next]_vars PROVE Described'
    OBVIOUS
  <1> USE DEF ScreenInv
  <1>0. TypeOK
    BY DEF HashInv
  <1>1. CASE SignStep
    <2>1. PICK chunk \in Chunks \cup {EmptyChunk} : \E p1, context, content, tc :
              /\ Idle
              /\ Opened(context, content, tc) \/ Continued(context, content, chunk, tc)
              /\ SignChunk(p1, chunk, context, content, tc)
      BY <1>1 DEF SignStep
    <2>2. PICK p1, context, content, tc :
              /\ Idle
              /\ Opened(context, content, tc) \/ Continued(context, content, chunk, tc)
              /\ SignChunk(p1, chunk, context, content, tc)
      BY <2>1
    <2> QED
      BY <2>2, SignChunkDescribed
  <1>2. CASE SignCommand
    <2>1. review = NoReview
      BY <1>2 DEF SignCommand, SignOpen, SignMore, SignTokenName, SignExchange, SignRefused, Idle
    <2> QED
      BY <1>0, <1>1, <1>2, <2>1, SignKinds, HomeDescribed
  <1>3. CASE (\E s \in Toggles : ToggleSetting(s)) \/ IoReset \/ Relaunch
    BY <1>3, HomeDescribed DEF ToggleSetting, IoReset, Relaunch, ReviewOver, Idle
  <1>4. CASE UNCHANGED vars
    BY <1>4 DEF vars, Described, Reviewing, OnScreen, Tellings, HashShown, ShowsKey, ShownValues,
                TransactionTold, HashedChunks
  <1> QED
    BY <1>0, <1>2, <1>3, <1>4, MessageCommandDescribed, OtherCommandDescribed, UserDescribed
    DEF Next

\* The initial state has nothing on the screen.
LEMMA InitDescribed == Init => Described
  BY DEF Init, Described, Reviewing

\* The invariant of the screen is an invariant.
LEMMA ScreenInvariant == Spec => []ScreenInv
  <1>1. Init => ScreenInv
    BY InitHash, InitFinal, InitKept, InitDescribed DEF ScreenInv
  <1>2. ScreenInv /\ [Next]_vars => ScreenInv'
    BY NextHash, NextStated, NextKept, NextDescribed DEF ScreenInv, HashInv
  <1> QED
    BY <1>1, <1>2, PTL DEF Spec

-----------------------------------------------------------------------------
(* What the screen shows.                                                   *)

\* prepareTxInfos never writes past txInfos.fields: a review has at most
\* MAX_TX_FIELDS fields, the inserted service label included.
THEOREM ReviewsFit == Spec => []FieldsFit
  <1>1. ScreenInv => FieldsFit
    <2>1. Len(NoReview.fields) = 0 /\ MAX_TX_FIELDS \in Nat
      BY DEF NoReview, MAX_TX_FIELDS, PERMISSION_MAX_ACTIVES, PERMISSION_MAX_KEYS
    <2> QED
      BY <2>1 DEF ScreenInv, Described, Reviewing, OnScreen, Screen, FieldsFit
  <1> QED
    BY <1>1, ScreenInvariant, PTL

\* A contact name or a service label on the screen stands for the address it was
\* resolved from, in every review of every command.
THEOREM AliasesMatch == Spec => []AliasMatchesAddress
  <1>1. ScreenInv => AliasMatchesAddress
    <2>1. CASE Reviewing
      BY <2>1 DEF ScreenInv, Described, OnScreen, Screen, NamesStand, AliasMatchesAddress
    <2>2. CASE ~Reviewing
      <3>1. DOMAIN review.fields = {}
        BY <2>2 DEF Reviewing, NoReview
      <3> QED
        BY <3>1 DEF AliasMatchesAddress
    <2> QED
      BY <2>1, <2>2
  <1> QED
    BY <1>1, ScreenInvariant, PTL

\* Nothing that a contract does is hidden: whatever the chunks it came in, the
\* review of a transaction shows its sender, its receiver, its amounts, its votes,
\* its permissions and the fee limit of a call, or the hash.
THEOREM ContractsAreShown == Spec => []ReviewShowsContract
  <1>1. ScreenInv => ReviewShowsContract
    <2> SUFFICES ASSUME ScreenInv, TransactionReview, NEW i \in ContractChunks(HashedChunks)
                 PROVE  LET k == HashedChunks[i].contract[1]
                        IN  /\ EssentialAddresses(k) \subseteq ShownValues
                            /\ EssentialNumbers(k) \subseteq ShownNumbers
                            /\ k.type = "TRIGGERSMARTCONTRACT" =>
                                    \A j \in FeeChunks(HashedChunks) :
                                        feeLimit(HashedChunks[j]) \in ShownNumbers
                            /\ k.type = "VOTEWITNESSCONTRACT" =>
                                    \A j \in DOMAIN k.m.votes :
                                        <<"vote", k.m.votes[j].address,
                                          VoteText(k.m.votes[j].count)>> \in ShownValues
                            /\ k.type = "ACCOUNTPERMISSIONUPDATECONTRACT" =>
                                    \A f \in Range(PermissionUpdateFields(k.m.permissions)) :
                                        f.value \in ShownValues
                            /\ review.state = "APPROVAL_SIMPLE_TRANSACTION" =>
                                    Hash(transactionContext.hash) \in ShownValues
      BY DEF ReviewShowsContract
    <2> DEFINE k == HashedChunks[i].contract[1]
    <2>1. TransactionTold
      BY DEF ScreenInv, Described, Tellings, TransactionReview
    <2>2. Discloses(k, txContent.feeLimit, ShownValues, review.state, transactionContext.hash)
      BY <2>1 DEF TransactionTold
    <2>3. \A j \in FeeChunks(HashedChunks) : feeLimit(HashedChunks[j]) = txContent.feeLimit
      BY DEF ScreenInv, HashInv, SessionInv, ReviewInv, Agrees
    <2>4. ShownNumbers = Numbers(ShownValues)
      BY DEF ShownNumbers, Numbers
    <2> HIDE DEF k
    <2>5. /\ EssentialAddresses(k) \subseteq ShownValues
          /\ EssentialNumbers(k) \subseteq ShownNumbers
          /\ k.type = "TRIGGERSMARTCONTRACT" => txContent.feeLimit \in ShownNumbers
          /\ k.type = "VOTEWITNESSCONTRACT" =>
                \A j \in DOMAIN k.m.votes :
                    <<"vote", k.m.votes[j].address, VoteText(k.m.votes[j].count)>> \in ShownValues
          /\ k.type = "ACCOUNTPERMISSIONUPDATECONTRACT" =>
                \A f \in Range(PermissionUpdateFields(k.m.permissions)) : f.value \in ShownValues
          /\ review.state = "APPROVAL_SIMPLE_TRANSACTION" =>
                Hash(transactionContext.hash) \in ShownValues
      BY <2>2, <2>4 DEF Discloses
    <2> QED
      BY <2>3, <2>5 DEF k
  <1> QED
    BY <1>1, ScreenInvariant, PTL

-----------------------------------------------------------------------------
(* What leaves the device is what was on the screen.                        *)

\* The hash that a review would sign is of the kind of its state.
LEMMA RequestedIsTold ==
    ASSUME Described, Reviewing
    PROVE  /\ Requested # <<"no request">>
           /\ Requested[1] \in {"public key", "secret", "signature"}
           /\ Requested[1] = "public key" =>
                 review.state = "APPROVAL_VERIFY_ADDRESS" /\ ShowsKey(Requested[2])
           /\ IsSecret(Requested) => SecretApproved(Requested)
  <1> DEFINE path == transactionContext.path
             hash == transactionContext.hash
             m == messageSigningContext712
  <1>1. CASE review.state = "APPROVAL_VERIFY_ADDRESS"
    <2>1. Requested = <<"public key", publicKeyContext.path, publicKeyContext.getChaincode>>
      BY <1>1 DEF Requested, PublicKey
    <2>2. ShowsKey(publicKeyContext.path)
      BY <1>1 DEF Described, Tellings
    <2> QED
      BY <1>1, <2>1, <2>2 DEF IsSecret
  <1>2. CASE review.state = "APPROVAL_SHARED_ECDH_SECRET"
    <2>1. Requested = <<"secret", path, transactionContext.peer>>
      BY <1>2 DEF Requested, Secret
    <2>2. ShowsKey(path) /\ Address(Peers[transactionContext.peer]) \in ShownValues
      BY <1>2 DEF Described, Tellings
    <2> QED
      BY <2>1, <2>2 DEF SecretApproved
  <1>3. CASE review.state = "APPROVAL_SIGN_TIP72_TRANSACTION"
    <2>1. Requested = <<"signature", m.path, <<"tip712", m.domain, m.message>>>>
      BY <1>3 DEF Requested, Signature, Tip712Hash
    <2>2. ShowsKey(m.path) /\ {Hash(RawHash(m.domain)), Hash(RawHash(m.message))} \subseteq ShownValues
      BY <1>3 DEF Described, Tellings
    <2> QED
      BY <2>1, <2>2 DEF SecretApproved
  <1>4. CASE review.state \notin {"APPROVAL_VERIFY_ADDRESS", "APPROVAL_SHARED_ECDH_SECRET",
                                  "APPROVAL_SIGN_TIP72_TRANSACTION"}
    <2>1. Requested = <<"signature", path, hash>>
      BY <1>4 DEF Requested, Signature
    <2>2. \/ hash[1] = "tx" /\ review.state # "APPROVAL_SIGN_PERSONAL_MESSAGE"
          \/ hash[1] \in {"raw", "message"} /\ ShowsKey(path) /\ Hash(hash) \in ShownValues
      BY <1>4 DEF Described, Tellings, HashShown
    <2> QED
      BY <1>4, <2>1, <2>2 DEF SecretApproved, TransactionReview
  <1> QED
    BY <1>1, <1>2, <1>3, <1>4

\* A confirmation releases what was asked for, fails or, of a TIP-712 message, is
\* not answered.
LEMMA ApproveReleases ==
    ASSUME Approve
    PROVE  /\ Reviewing /\ LastScreen /\ review' = NoReview
           /\ \/ Send("E_OK", Requested)
              \/ \E sw : sw \notin {"none", "E_OK"} /\ SendSw(sw)
              \/ review.state = "APPROVAL_SIGN_TIP72_TRANSACTION" /\ UNCHANGED <<out, swap>>
           /\ Terminated \/ UNCHANGED txContext
  <1>1. Reviewing /\ LastScreen /\ review' = NoReview
    BY DEF Approve, ReviewOver
  <1>2. CASE ui_callback_tx_ok \/ ui_callback_signMessage_ok
    <2>1. Requested = Signature(transactionContext.path, transactionContext.hash)
      BY <1>1, <1>2 DEF Requested, ui_callback_tx_ok, ui_callback_signMessage_ok
    <2>2. \/ Send("E_OK", Signature(transactionContext.path, transactionContext.hash))
          \/ SendSw("E_SECURITY_STATUS_NOT_SATISFIED")
      BY <1>2 DEF ui_callback_tx_ok, ui_callback_signMessage_ok, SignTransaction
    <2>3. Terminated \/ UNCHANGED txContext
      BY <1>2 DEF ui_callback_tx_ok, ui_callback_signMessage_ok
    <2> QED
      BY <1>1, <2>1, <2>2, <2>3
  <1>3. CASE ui_callback_ecdh_ok
    <2>1. Requested = Secret(transactionContext.path, transactionContext.peer)
      BY <1>1, <1>3 DEF Requested, ui_callback_ecdh_ok
    <2> QED
      BY <1>1, <1>3, <2>1 DEF ui_callback_ecdh_ok
  <1>4. CASE ui_callback_signMessage712_v0_ok
    <2>1. Requested = Signature(messageSigningContext712.path,
                                Tip712Hash(messageSigningContext712.domain,
                                           messageSigningContext712.message))
      BY <1>1, <1>4 DEF Requested, ui_callback_signMessage712_v0_ok
    <2> QED
      BY <1>1, <1>4, <2>1 DEF ui_callback_signMessage712_v0_ok
  <1>5. CASE ui_callback_address_ok
    <2>1. Requested = PublicKey(publicKeyContext)
      BY <1>1, <1>5 DEF Requested, ui_callback_address_ok
    <2> QED
      BY <1>1, <1>5, <2>1 DEF ui_callback_address_ok
  <1> QED
    BY <1>2, <1>3, <1>4, <1>5 DEF Approve

\* Under a review only the user and the transport move.
LEMMA ReviewIsModal ==
    ASSUME [Next]_vars, Reviewing
    PROVE  User \/ IoReset \/ UNCHANGED vars
  <1>1. ~Idle
    BY DEF Idle, Reviewing
  <1>2. ~SignCommand
    BY <1>1 DEF SignCommand, SignOpen, SignMore, SignTokenName, SignExchange, SignRefused
  <1>3. ~MessageCommand
    BY <1>1 DEF MessageCommand, PersonalMessageFirst, PersonalMessageMore
  <1>4. ~OtherCommand
    BY <1>1 DEF OtherCommand, handleSignByHash, handleSignTIP712Message, handleECDHSecret,
                handleGetPublicKey, handleGetAppConfiguration, RefusedInstruction, RefusedApdu
  <1>5. ~Relaunch /\ \A s : ~ToggleSetting(s)
    BY <1>1 DEF Relaunch, ToggleSetting
  <1> QED
    BY <1>2, <1>3, <1>4, <1>5 DEF Next

\* INS_SIGN without a review signs in a swap only.
LEMMA SignsInSwap ==
    ASSUME SignStep, out'.what[1] \in {"signature", "secret"}, out'.what # out.what
    PROVE  InSwap
  <1>1. PICK chunk \in Chunks \cup {EmptyChunk} : \E p1, context, content, tc :
            SignChunk(p1, chunk, context, content, tc)
    BY DEF SignStep
  <1>2. PICK p1, context, content, tc : SignChunk(p1, chunk, context, content, tc)
    BY <1>1
  <1>3. ASSUME NEW sw, NEW ready, Answer(sw, Nothing, ready) PROVE FALSE
    BY <1>3 DEF Answer, Nothing
  <1>4. ASSUME NEW grown, NEW parsed, NEW permissions, FinishSign(grown, parsed, permissions, tc)
        PROVE  InSwap
    <2>1. \/ InSwap
          \/ \E sw, ready : Answer(sw, Nothing, ready)
          \/ out' = NoResponse
      BY <1>4 DEF FinishSign, Display
    <2>2. NoResponse.what[1] = "nothing"
      BY DEF NoResponse, Nothing
    <2> QED
      BY <1>3, <2>1, <2>2
  <1> QED
    BY <1>2, <1>3, <1>4 DEF SignChunk, SendSw, Send

\* What a user confirms is what leaves: outside a swap a signature or a shared
\* secret leaves the device only on the last screen of a review that tells it, and
\* an address that is approved is that of the key returned.
THEOREM ReleasesAreApproved == Spec => SecretsAreApproved
  <1> DEFINE Releases ==
                 /\ out'.what # out.what /\ out'.what[1] \in {"signature", "secret"} /\ ~InSwap =>
                        Reviewing /\ LastScreen /\ SecretApproved(out'.what)
                 /\ Reviewing /\ out'.what[1] = "public key" => ShowsKey(out'.what[2])
  <1>1. ASSUME ScreenInv, [Next]_vars, Reviewing PROVE Releases
    <2>1. Described /\ out = NoResponse
      BY <1>1 DEF ScreenInv, Described, OnScreen
    <2>2. ASSUME out'.what = Nothing PROVE Releases
      BY <2>2 DEF Nothing
    <2>3. NoResponse.what = Nothing
      BY DEF NoResponse
    <2>4. ASSUME NEW sw, NEW what, Send(sw, what) PROVE out'.what = what
      BY <2>4 DEF Send, Answer
    <2>5. CASE UNCHANGED vars \/ IoReset \/ AcceptWarning
      <3>1. out' = NoResponse
        BY <2>1, <2>5 DEF vars, IoReset, AcceptWarning
      <3> QED
        BY <2>2, <2>3, <3>1
    <2>6. CASE Reject
      <3>1. \E sw : Send(sw, Nothing)
        BY <2>6 DEF Reject, ui_callback_tx_cancel, SendSw
      <3> QED
        BY <2>2, <2>4, <3>1
    <2>7. CASE Approve
      <3>1. \/ out'.what = Requested
            \/ out'.what = Nothing
        BY <2>1, <2>7, <2>3, <2>4, ApproveReleases DEF SendSw
      <3>2. LastScreen
        BY <2>7, ApproveReleases
      <3> QED
        BY <1>1, <2>1, <2>2, <3>1, <3>2, RequestedIsTold DEF IsSecret
    <2> QED
      BY <1>1, <2>5, <2>6, <2>7, ReviewIsModal DEF User
  <1>2. ASSUME ScreenInv, [Next]_vars, ~Reviewing PROVE Releases
    <2>1. TypeOK
      BY <1>2 DEF ScreenInv, HashInv
    <2> QED
      BY <1>2, <2>1, SecretSource, SignsInSwap DEF KeepsSecrets
  <1>3. ScreenInv /\ [Next]_vars => [Releases]_vars
    BY <1>1, <1>2
  <1> QED
    BY <1>3, ScreenInvariant, PTL DEF Spec, SecretsAreApproved

-----------------------------------------------------------------------------
(* The app implements SigningOracle.                                        *)

\* Nothing is asked when the app starts.
LEMMA InitOracle == Init => Oracle!Init
  <1> SUFFICES ASSUME Init PROVE Oracle!Init
    OBVIOUS
  <1>1. review = NoReview /\ out = NoResponse /\ txContext = NoContext /\ swap.status = "running"
    BY DEF Init
  <1>2. Requested = <<"no request">>
    BY <1>1 DEF Requested, Reviewing, NoReview
  <1>3. review.fields = <<>> /\ Len(review.screens) = 0
    BY <1>1 DEF NoReview
  <1>4. Status = "none" /\ out.what = Nothing
    BY <1>1 DEF Status, NoResponse
  <1> QED
    BY <1>1, <1>2, <1>3, <1>4
    DEF Oracle!Init, Oracle!NoAnswer, Oracle!Answer, NoContext, Running

\* Outside a swap no answer ends the app; in one, the answer marked so does.
ReadyInv == (swap.ready <=> ~Running) /\ (~InSwap => Running)

\* A command is answered at once, with no secret but the signature of a swap.
Replies ==
    \E ready \in BOOLEAN : \E sw, what :
        /\ review' = NoReview
        /\ Answer(sw, what, ready)
        /\ ready => InSwap
        /\ sw # "none" /\ (sw # "E_OK" => what = Nothing)
        /\ IsSecret(what) => ready /\ sw = "E_OK" /\ what[1] = "signature"

\* Or it asks, and answers later.
Asks == review' # NoReview /\ UNCHANGED swap

\* An answer with no secret.
LEMMA ServedReply ==
    ASSUME TypeOK, ReadyInv, Idle, review' = NoReview,
           NEW sw, sw # "none", NEW what, ~IsSecret(what), sw # "E_OK" => what = Nothing,
           Send(sw, what) \/ Answer(sw, what, InSwap)
    PROVE  Replies
  <1>1. swap.ready = FALSE
    BY DEF ReadyInv, Idle, TypeOK, Swaps
  <1>2. InSwap \in BOOLEAN
    BY TronAppAssumption
  <1>3. CASE Answer(sw, what, InSwap)
    BY <1>2, <1>3 DEF Replies
  <1>4. CASE Answer(sw, what, FALSE)
    BY <1>4 DEF Replies
  <1> QED
    BY <1>1, <1>3, <1>4 DEF Send

\* A status word is no secret.
LEMMA StatusReply ==
    ASSUME TypeOK, ReadyInv, Idle, review' = NoReview,
           NEW sw, sw # "none",
           SendSw(sw) \/ EarlyReturn(sw) \/ AnswerOnly(sw) \/ Answer(sw, Nothing, InSwap)
    PROVE  Replies
  <1>1. ~IsSecret(Nothing)
    BY DEF IsSecret, Nothing
  <1>2. Send(sw, Nothing) \/ Answer(sw, Nothing, InSwap)
    BY DEF SendSw, EarlyReturn, AnswerOnly
  <1> QED
    BY <1>1, <1>2, ServedReply

\* The status word of a gate.
LEMMA VerdictStatus ==
    ASSUME NEW content, NEW permissions, NEW allowed, NEW inSwap
    PROVE  ReviewVerdict(content, permissions, allowed, inSwap).sw # "none"
  <1> DEFINE Named(verdict) == verdict.sw # "none"
             verdict == ContractVerdict(content, permissions, allowed)
  <1>1. /\ \A sw : sw # "none" => Named(Refuse(sw)) /\ Named(Throw(sw))
        /\ Named(Pass)
    BY DEF Refuse, Throw, Pass
  <1> HIDE DEF Named
  <1>2. \A values : Named(PrintVerdict(values))
    BY <1>1 DEF PrintVerdict
  <1>3. Named(CustomCallVerdict(content, allowed))
    BY <1>1, <1>2 DEF CustomCallVerdict
  <1>4. \A votes : Named(VotesVerdict(votes))
    BY <1>1 DEF VotesVerdict
  <1>5. Named(verdict)
    BY <1>1, <1>2, <1>3, <1>4 DEF ContractVerdict, IsCustomCall
  <1> HIDE DEF verdict
  <1>6. Named(ReviewVerdict(content, permissions, allowed, inSwap))
    BY <1>1, <1>5 DEF ReviewVerdict, verdict
  <1> QED
    BY <1>6 DEF Named

\* A review comes up with a screen at least.
LEMMA DisplayAsks ==
    ASSUME NEW state, NEW b, NEW isTrigger, NEW data_warning \in BOOLEAN, NEW c,
           Display(state, b, isTrigger, data_warning, c)
    PROVE  Asks
  <1>1. review'.screens = Screens(state, data_warning) /\ UNCHANGED swap
    BY DEF Display
  <1>2. Len(review'.screens) >= 1
    BY <1>1, FirstScreen
  <1>3. Len(NoReview.screens) = 0
    BY DEF NoReview
  <1> QED
    BY <1>1, <1>2, <1>3 DEF Asks

\* The end of handleSign.
LEMMA FinishReplies ==
    ASSUME TypeOK, ReadyInv, Idle, NEW context, NEW content, NEW permissions, NEW tc,
           FinishSign(context, content, permissions, tc)
    PROVE  Replies \/ Asks
  <1> DEFINE hash == TxHash(context.sha2, context.final)
             verdict == ReviewVerdict(content, permissions, settings, InSwap)
             warned == content.dataBytes > 0
  <1>1. verdict.sw # "none"
    BY VerdictStatus
  <1>2. warned \in BOOLEAN
    OBVIOUS
  <1> HIDE DEF hash, verdict, warned
  <1>3. \/ review' = NoReview /\ Answer(verdict.sw, Nothing, InSwap)
        \/ \E state, b, isTrigger, c : Display(state, b, isTrigger, warned, c)
        \/ /\ review' = NoReview /\ InSwap
           /\ \/ Answer("E_OK", Signature(tc.path, hash), TRUE)
              \/ Answer("E_SECURITY_STATUS_NOT_SATISFIED", Nothing, TRUE)
              \/ Answer("E_SWAP_CHECKING_FAIL", Nothing, TRUE)
    BY DEF FinishSign, hash, verdict, warned
  <1>4. \/ review' = NoReview /\ Answer(verdict.sw, Nothing, InSwap)
        \/ \E data_warning \in BOOLEAN : \E state, b, isTrigger, c :
              Display(state, b, isTrigger, data_warning, c)
        \/ /\ review' = NoReview /\ InSwap
           /\ \/ Answer("E_OK", Signature(tc.path, hash), TRUE)
              \/ Answer("E_SECURITY_STATUS_NOT_SATISFIED", Nothing, TRUE)
              \/ Answer("E_SWAP_CHECKING_FAIL", Nothing, TRUE)
    BY <1>2, <1>3
  <1>5. ASSUME review' = NoReview, Answer(verdict.sw, Nothing, InSwap) PROVE Replies
    BY <1>1, <1>5, StatusReply
  <1>6. ASSUME NEW data_warning \in BOOLEAN, NEW state, NEW b, NEW isTrigger, NEW c,
               Display(state, b, isTrigger, data_warning, c)
        PROVE  Asks
    BY <1>6, DisplayAsks
  <1>7. ASSUME review' = NoReview, InSwap, Answer("E_OK", Signature(tc.path, hash), TRUE)
        PROVE  Replies
    <2> DEFINE what == Signature(tc.path, hash)
    <2>1. what[1] = "signature"
      BY DEF Signature
    <2>2. Answer("E_OK", what, TRUE)
      BY <1>7
    <2> HIDE DEF what
    <2> QED
      BY <1>7, <2>1, <2>2 DEF Replies
  <1>8. ASSUME review' = NoReview, InSwap, NEW sw, sw # "none", Answer(sw, Nothing, TRUE)
        PROVE  Replies
    <2>1. ~IsSecret(Nothing)
      BY DEF IsSecret, Nothing
    <2> QED
      BY <1>8, <2>1 DEF Replies
  <1> QED
    BY <1>4, <1>5, <1>6, <1>7, <1>8

\* A command is answered at once or asks.
LEMMA CommandReplies ==
    ASSUME TypeOK, ReadyInv, SignCommand \/ MessageCommand \/ OtherCommand
    PROVE  Idle /\ (Replies \/ Asks)
  <1>1. Idle
    BY DEF SignCommand, SignOpen, SignMore, SignTokenName, SignExchange, SignRefused,
           MessageCommand, PersonalMessageFirst, PersonalMessageMore, OtherCommand,
           handleSignByHash, handleSignTIP712Message, handleECDHSecret, handleGetPublicKey,
           handleGetAppConfiguration, RefusedInstruction, RefusedApdu
  <1>2. review = NoReview
    BY <1>1 DEF Idle
  <1>3. ASSUME NEW sw, sw # "none",
               (SendSw(sw) /\ UNCHANGED review) \/ EarlyReturn(sw) \/ AnswerOnly(sw)
        PROVE  Replies
    <2>1. review' = NoReview
      BY <1>2, <1>3 DEF EarlyReturn, AnswerOnly
    <2> QED
      BY <1>1, <1>3, <2>1, StatusReply
  <1>4. ASSUME NEW sw, sw # "none", Answer(sw, Nothing, InSwap), UNCHANGED review PROVE Replies
    BY <1>1, <1>2, <1>4, StatusReply
  <1>5. ASSUME NEW p1, NEW chunk, NEW context, NEW content, NEW tc,
               SignChunk(p1, chunk, context, content, tc)
        PROVE  Replies \/ Asks
    BY <1>1, <1>3, <1>4, <1>5, FinishReplies DEF SignChunk
  <1>6. CASE SignCommand
    <2>1. ASSUME NEW p1, NEW a, NEW k, SignOpen(p1, a, k) PROVE Replies \/ Asks
      BY <1>3, <1>5, <2>1 DEF SignOpen
    <2>2. ASSUME NEW p1, NEW k, SignMore(p1, k) PROVE Replies \/ Asks
      BY <1>5, <2>2 DEF SignMore
    <2>3. ASSUME NEW slot, NEW last, NEW d, SignTokenName(slot, last, d) PROVE Replies \/ Asks
      BY <1>3, <1>5, <2>3 DEF SignTokenName
    <2>4. ASSUME NEW d, SignExchange(d) PROVE Replies \/ Asks
      BY <1>3, <1>5, <2>4 DEF SignExchange
    <2>5. CASE SignRefused
      BY <1>3, <2>5 DEF SignRefused
    <2> QED
      BY <1>1, <1>6, <2>1, <2>2, <2>3, <2>4, <2>5 DEF SignCommand
  <1>7. CASE MessageCommand
    <2>1. ASSUME NEW path, NEW ctx, NEW left, NEW size, NEW p2, MessageData(path, ctx, left, size, p2)
          PROVE  Replies \/ Asks
      BY <1>3, <2>1, DisplayAsks DEF MessageData
    <2> QED
      BY <1>3, <1>7, <2>1 DEF MessageCommand, PersonalMessageFirst, PersonalMessageMore
  <1>8. CASE OtherCommand
    <2>1. ASSUME NEW a, NEW d, handleSignByHash(a, d) PROVE Replies \/ Asks
      BY <1>3, <2>1, DisplayAsks DEF handleSignByHash
    <2>2. ASSUME NEW a, NEW d, NEW h, handleSignTIP712Message(a, d, h) PROVE Replies \/ Asks
      BY <1>3, <2>2, DisplayAsks DEF handleSignTIP712Message
    <2>3. ASSUME NEW a, NEW peer, handleECDHSecret(a, peer) PROVE Replies \/ Asks
      BY <1>3, <2>3, DisplayAsks DEF handleECDHSecret
    <2>4. ASSUME NEW confirm, NEW chaincode, NEW a, handleGetPublicKey(confirm, chaincode, a)
          PROVE  Replies \/ Asks
      <3>1. ASSUME NEW key, Send("E_OK", PublicKey(key)), UNCHANGED review PROVE Replies
        <4>1. ~IsSecret(PublicKey(key))
          BY DEF IsSecret, PublicKey
        <4> QED
          BY <1>1, <1>2, <3>1, <4>1, ServedReply
      <3>2. ASSUME NEW fields, UNCHANGED swap,
                   review' = [state |-> "APPROVAL_VERIFY_ADDRESS", screens |-> <<"review">>,
                              fields |-> fields]
            PROVE  Asks
        BY <3>2 DEF Asks, NoReview
      <3> QED
        BY <1>3, <2>4, <3>1, <3>2 DEF handleGetPublicKey
    <2>5. CASE handleGetAppConfiguration
      <3> DEFINE what == Configuration({ConfigurationBit[s] : s \in settings})
      <3>1. Send("E_OK", what) /\ review' = NoReview
        BY <1>2, <2>5 DEF handleGetAppConfiguration
      <3>2. ~IsSecret(what)
        BY DEF IsSecret, Configuration
      <3> HIDE DEF what
      <3> QED
        BY <1>1, <3>1, <3>2, ServedReply
    <2>6. CASE RefusedInstruction \/ RefusedApdu
      BY <1>3, <2>6 DEF RefusedInstruction, RefusedApdu
    <2> QED
      BY <1>1, <1>8, <2>1, <2>2, <2>3, <2>4, <2>5, <2>6 DEF OtherCommand
  <1> QED
    BY <1>1, <1>6, <1>7, <1>8

\* An answer ends the app exactly when it is marked so.
LEMMA AnswerReady ==
    ASSUME TypeOK, Running, NEW sw, NEW what, NEW ready \in BOOLEAN, ready => InSwap,
           Answer(sw, what, ready)
    PROVE  ReadyInv' /\ (ready <=> ~Running') /\ swap'.validated = swap.validated
  <1> DEFINE status == IF ~ready THEN swap.status
                       ELSE IF sw = "E_OK" THEN "success" ELSE "failure"
             count == IF InSwap /\ what[1] = "signature" THEN swap.signatures + 1
                      ELSE swap.signatures
  <1>1. swap' = [swap EXCEPT !.ready = ready, !.status = status, !.signatures = count]
    BY DEF Answer
  <1>2. ready <=> status # "running"
    BY DEF Running
  <1> HIDE DEF status, count
  <1>3. swap'.ready = ready /\ swap'.status = status /\ swap'.validated = swap.validated
    BY <1>1 DEF TypeOK, Swaps
  <1> QED
    BY <1>2, <1>3 DEF ReadyInv, Running

\* Under a review the app has not been told to end.
LEMMA ReviewReady ==
    ASSUME TypeOK, ReadyInv, SwapHasNoScreen, Reviewing
    PROVE  ~InSwap /\ Running /\ swap.ready = FALSE
  BY DEF TypeOK, Swaps, ReadyInv, SwapHasNoScreen

\* So the answer of a callback does not end it.
LEMMA CallbackReady ==
    ASSUME TypeOK, ReadyInv, SwapHasNoScreen, Reviewing, NEW sw, NEW what, Send(sw, what)
    PROVE  ReadyInv' /\ Running' /\ Running /\ swap'.validated = swap.validated
  <1>1. Running /\ Answer(sw, what, FALSE)
    BY ReviewReady DEF Send
  <1> QED
    BY <1>1, AnswerReady

\* Every step keeps the invariant.
LEMMA NextReady ==
    ASSUME TypeOK, ReadyInv, SwapHasNoScreen, [Next]_vars
    PROVE  ReadyInv'
  <1>1. ASSUME UNCHANGED swap PROVE ReadyInv'
    BY <1>1 DEF ReadyInv, Running
  <1>2. CASE SignCommand \/ MessageCommand \/ OtherCommand
    <2>1. Running /\ (Replies \/ Asks)
      BY <1>2, CommandReplies DEF Idle
    <2>2. CASE Replies
      <3>1. PICK ready \in BOOLEAN : \E sw, what : Answer(sw, what, ready) /\ (ready => InSwap)
        BY <2>2 DEF Replies
      <3> QED
        BY <2>1, <3>1, AnswerReady
    <2> QED
      BY <1>1, <2>1, <2>2 DEF Asks
  <1>3. CASE Reject
    BY <1>3, CallbackReady DEF Reject, ui_callback_tx_cancel, SendSw
  <1>4. CASE Approve
    BY <1>1, <1>4, ApproveReleases, CallbackReady DEF SendSw
  <1> QED
    BY <1>1, <1>2, <1>3, <1>4
    DEF Next, User, AcceptWarning, ToggleSetting, IoReset, Relaunch, vars

\* The readiness of the app is an invariant.
LEMMA ReadyInvariant == Spec => []ReadyInv
  <1>1. Init => ReadyInv
    <2> SUFFICES ASSUME Init PROVE ReadyInv
      OBVIOUS
    <2>1. swap.ready = FALSE /\ swap.status = "running"
      BY DEF Init
    <2> QED
      BY <2>1 DEF ReadyInv, Running
  <1>2. TypeOK /\ SwapHasNoScreen /\ ReadyInv /\ [Next]_vars => ReadyInv'
    BY NextReady
  <1> QED
    BY <1>1, <1>2, TypeCorrect, SwapStaysSilent, PTL DEF Spec

\* The screen describes what is requested.
ToldInv == Reviewing => Requested # <<"no request">> /\ Tells(Requested, review.fields)

\* What may be released is told.
LEMMA ApprovedTells ==
    ASSUME ScreenInv, NEW what,
           SecretApproved(what) \/ (what[1] = "public key" /\ ShowsKey(what[2]))
    PROVE  Tells(what, review.fields)
  <1>1. {Unalias(review.fields[i].value) : i \in DOMAIN review.fields} = ShownValues
    BY DEF ShownValues
  <1>2. CASE what[1] = "public key"
    BY <1>1, <1>2 DEF Tells, SecretApproved, ShowsKey, OfTip712
  <1>3. CASE what[1] = "secret"
    BY <1>1, <1>3 DEF Tells, SecretApproved, ShowsKey, OfTip712
  <1>4. CASE what[1] = "signature" /\ what[3][1] = "tip712"
    BY <1>1, <1>4 DEF Tells, SecretApproved, ShowsKey, OfTip712
  <1>5. CASE what[1] = "signature" /\ what[3][1] \in {"message", "raw"}
    BY <1>1, <1>5 DEF Tells, SecretApproved, ShowsKey, OfTip712
  <1>6. CASE what[1] = "signature" /\ what[3][1] = "tx"
    <2>1. TransactionReview /\ what[3] = transactionContext.hash
      BY <1>6 DEF SecretApproved
    <2>2. ContractParsed(HashedChunks, txContent) /\ TransactionTold
      BY <2>1
      DEF ScreenInv, HashInv, SessionInv, ReviewInv, Agrees, Described, Tellings, TransactionReview
    <2>3. PICK i \in DOMAIN HashedChunks : ContractChunks(HashedChunks) = {i}
      BY <2>2 DEF ContractParsed
    <2>4. EssentialAddresses(HashedChunks[i].contract[1]) \subseteq ShownValues
      BY <2>2, <2>3 DEF TransactionTold, Discloses
    <2>5. what[3][2] = HashedChunks
      BY <2>1 DEF HashedChunks
    <2> QED
      BY <1>1, <1>6, <2>3, <2>4, <2>5 DEF Tells, OfTip712
  <1> QED
    BY <1>2, <1>3, <1>4, <1>5, <1>6 DEF SecretApproved

\* The screen always describes what is requested.
LEMMA RequestsAreTold == Spec => []ToldInv
  <1>1. ScreenInv => ToldInv
    <2> SUFFICES ASSUME ScreenInv, Reviewing
                 PROVE  Requested # <<"no request">> /\ Tells(Requested, review.fields)
      BY DEF ToldInv
    <2>1. /\ Requested # <<"no request">>
          /\ \/ Requested[1] = "public key" /\ ShowsKey(Requested[2])
             \/ SecretApproved(Requested)
      BY RequestedIsTold DEF ScreenInv, IsSecret
    <2> QED
      BY <2>1, ApprovedTells
  <1> QED
    BY <1>1, ScreenInvariant, PTL

\* What the steps to the oracle stand on.
AppInv == ScreenInv /\ SwapHasNoScreen /\ SwapSignsValidated /\ ReadyInv /\ ToldInv

\* All of it is an invariant.
LEMMA AppInvariant == Spec => []AppInv
  <1>1. ScreenInv /\ SwapHasNoScreen /\ SwapSignsValidated /\ ReadyInv /\ ToldInv => AppInv
    BY DEF AppInv
  <1> QED
    BY <1>1, ScreenInvariant, SwapStaysSilent, SwapPaysValidated, ReadyInvariant,
       RequestsAreTold, PTL

\* What the oracle sees of the home screen.
LEMMA OracleHome ==
    ASSUME review = NoReview
    PROVE  Requested = <<"no request">> /\ review.fields = <<>> /\ Len(review.screens) = 0
  BY DEF Requested, Reviewing, NoReview

\* And after a step that goes there.
LEMMA OracleHomeNext ==
    ASSUME review' = NoReview
    PROVE  Requested' = <<"no request">> /\ review'.fields = <<>> /\ Len(review'.screens) = 0
  BY DEF Requested, Reviewing, NoReview

\* An answer without a secret is served, one with a secret settles the swap.
LEMMA ServeStep ==
    ASSUME AppInv, AppInv', Idle, Replies
    PROVE  Oracle!Serve \/ Oracle!Settle
  <1> USE DEF AppInv
  <1>1. PICK ready \in BOOLEAN : \E sw, what :
            /\ review' = NoReview
            /\ Answer(sw, what, ready)
            /\ ready => InSwap
            /\ sw # "none" /\ (sw # "E_OK" => what = Nothing)
            /\ IsSecret(what) => ready /\ sw = "E_OK" /\ what[1] = "signature"
    BY DEF Replies
  <1>2. PICK sw, what :
            /\ review' = NoReview
            /\ Answer(sw, what, ready)
            /\ ready => InSwap
            /\ sw # "none" /\ (sw # "E_OK" => what = Nothing)
            /\ IsSecret(what) => ready /\ sw = "E_OK" /\ what[1] = "signature"
    BY <1>1
  <1>3. TypeOK /\ TypeOK' /\ Running /\ review = NoReview
    BY DEF ScreenInv, HashInv, Idle
  <1>4. out'.sw = sw /\ out'.what = what
    BY <1>2 DEF Answer
  <1>5. Status' = IF sw = "E_OK" THEN "ok" ELSE "error"
    BY <1>2, <1>4 DEF Status
  <1>6. (ready <=> ~Running') /\ swap'.validated = swap.validated
    BY <1>2, <1>3, AnswerReady
  <1>7. /\ Requested = <<"no request">> /\ Requested' = <<"no request">>
        /\ review'.fields = review.fields /\ Len(review'.screens) = Len(review.screens)
    BY <1>2, <1>3, OracleHome, OracleHomeNext
  <1>8. txContext'.initialized \in BOOLEAN
    BY <1>3 DEF TypeOK, Contexts
  <1>9. CASE ~IsSecret(what)
    BY <1>2, <1>3, <1>4, <1>5, <1>6, <1>7, <1>8, <1>9, TronAppAssumption
    DEF Oracle!Serve, Oracle!Ready
  <1>10. CASE IsSecret(what)
    <2>1. InSwap /\ ready /\ sw = "E_OK" /\ what[1] = "signature"
      BY <1>2, <1>10
    <2>2. Pays(what, swap.validated)
      BY <1>4, <1>6, <2>1 DEF SwapSignsValidated, Pays
    <2> QED
      BY <1>3, <1>4, <1>5, <1>6, <1>7, <1>8, <2>1, <2>2 DEF Oracle!Settle, Oracle!Ready
  <1> QED
    BY <1>9, <1>10

\* A command that puts a review on the screen asks.
LEMMA AskStep ==
    ASSUME AppInv, AppInv', Idle, Asks
    PROVE  Oracle!Ask
  <1> USE DEF AppInv
  <1>1. TypeOK' /\ Running /\ review = NoReview /\ Reviewing' /\ UNCHANGED swap
    BY DEF ScreenInv, HashInv, Idle, Asks, Reviewing
  <1>2. ~InSwap /\ Running'
    BY <1>1 DEF SwapHasNoScreen, Running
  <1>3. Requested' # <<"no request">> /\ Tells(Requested', review'.fields)
    BY <1>1 DEF ToldInv
  <1>4. out' = NoResponse /\ Len(review'.screens) >= 1
    BY <1>1 DEF ScreenInv, Described, OnScreen
  <1>5. Status' = "none" /\ out'.what = Nothing
    BY <1>4 DEF Status, NoResponse
  <1>6. txContext'.initialized \in BOOLEAN
    BY <1>1 DEF TypeOK, Contexts
  <1>7. Requested = <<"no request">>
    BY <1>1, OracleHome
  <1> QED
    BY <1>1, <1>2, <1>3, <1>4, <1>5, <1>6, <1>7
    DEF Oracle!Ask, Oracle!Ready, Oracle!NoAnswer, Oracle!Answer

\* The user who accepts a warning proceeds.
LEMMA ProceedStep ==
    ASSUME AppInv, AcceptWarning
    PROVE  Oracle!Proceed
  <1> USE DEF AppInv
  <1>1. OnScreen /\ Reviewing /\ Len(review.screens) # 1
    BY DEF ScreenInv, Described, AcceptWarning, LastScreen
  <1>2. /\ review'.screens = Tail(review.screens) /\ DOMAIN review' = DOMAIN review
        /\ review'.state = review.state /\ review'.fields = review.fields
        /\ UNCHANGED <<out, swap, transactionContext, txContext, publicKeyContext,
                       messageSigningContext712>>
    BY <1>1 DEF AcceptWarning, CallbackFrame, OnScreen, NoReview
  <1>3. ASSUME NEW S, NEW s \in Seq(S), Len(s) >= 1, Len(s) # 1
        PROVE  Len(s) > 1 /\ Len(Tail(s)) = Len(s) - 1 /\ Len(Tail(s)) # 0
    <2>1. s # <<>> /\ Len(s) \in Nat
      BY <1>3
    <2>2. Len(Tail(s)) = Len(s) - 1
      BY <1>3, <2>1, HeadTailProperties
    <2> QED
      BY <1>3, <2>1, <2>2
  <1>4. /\ Len(review.screens) > 1
        /\ Len(review'.screens) = Len(review.screens) - 1 /\ Len(review'.screens) # 0
    <2>1. review.screens \in Seq(ScreenNames) /\ Len(review.screens) >= 1
      BY <1>1 DEF OnScreen
    <2> QED
      BY <1>1, <1>2, <1>3, <2>1
  <1>5. Reviewing'
    <2>1. Len(NoReview.screens) = 0
      BY DEF NoReview
    <2> QED
      BY <1>4, <2>1 DEF Reviewing
  <1>6. Requested' = Requested
    BY <1>1, <1>2, <1>5 DEF Requested
  <1>7. Status' = Status /\ Running' = Running
    BY <1>2 DEF Status, Running
  <1> QED
    BY <1>2, <1>4, <1>6, <1>7 DEF Oracle!Proceed

\* What the oracle sees when a review is over.
LEMMA ReviewOverStep ==
    ASSUME AppInv, Reviewing, review' = NoReview, Terminated \/ UNCHANGED txContext
    PROVE  /\ Oracle!Home
           /\ Len(review.screens) >= 1
           /\ txContext'.initialized => txContext.initialized
  <1>1. Len(review.screens) >= 1
    BY DEF AppInv, ScreenInv, Described, OnScreen
  <1>2. Oracle!Home
    BY OracleHomeNext DEF Oracle!Home
  <1>3. txContext'.initialized => txContext.initialized
    BY DEF Terminated, NoContext
  <1> QED
    BY <1>1, <1>2, <1>3

\* The answer of a callback as the oracle sees it.
LEMMA CallbackAnswer ==
    ASSUME AppInv, Reviewing, NEW sw, NEW what, sw # "none", Send(sw, what)
    PROVE  /\ Status' = IF sw = "E_OK" THEN "ok" ELSE "error"
           /\ out'.what = what
           /\ swap'.validated = swap.validated /\ Running' = Running
  <1>1. out'.sw = sw /\ out'.what = what
    BY DEF Send, Answer
  <1>2. Status' = IF sw = "E_OK" THEN "ok" ELSE "error"
    BY <1>1 DEF Status
  <1>3. Running' /\ Running /\ swap'.validated = swap.validated
    BY CallbackReady DEF AppInv, ScreenInv, HashInv
  <1> QED
    BY <1>1, <1>2, <1>3

\* The user who rejects refuses.
LEMMA RefuseStep ==
    ASSUME AppInv, Reject
    PROVE  Oracle!Refuse
  <1>1. Reviewing /\ review' = NoReview /\ (Terminated \/ UNCHANGED txContext)
    BY DEF Reject, ReviewOver, ui_callback_tx_cancel
  <1>2. Send("E_CONDITIONS_OF_USE_NOT_SATISFIED", Nothing)
    BY DEF Reject, ui_callback_tx_cancel, SendSw
  <1>3. /\ Status' = "error" /\ out'.what = Nothing
        /\ swap'.validated = swap.validated /\ Running' = Running
    BY <1>1, <1>2, CallbackAnswer
  <1> QED
    BY <1>1, <1>3, ReviewOverStep DEF Oracle!Refuse, Oracle!Error, Oracle!Answer

\* The user who approves confirms.
LEMMA ConfirmStep ==
    ASSUME AppInv, Approve
    PROVE  Oracle!Confirm
  <1>1. /\ Reviewing /\ LastScreen /\ review' = NoReview
        /\ Terminated \/ UNCHANGED txContext
    BY ApproveReleases
  <1>2. /\ Oracle!Home /\ Len(review.screens) = 1
        /\ txContext'.initialized => txContext.initialized
    BY <1>1, ReviewOverStep DEF LastScreen
  <1>3. CASE Send("E_OK", Requested)
    <2>1. /\ Status' = "ok" /\ out'.what = Requested
          /\ swap'.validated = swap.validated /\ Running' = Running
      BY <1>1, <1>3, CallbackAnswer
    <2> QED
      BY <1>2, <2>1 DEF Oracle!Confirm, Oracle!Answer
  <1>4. ASSUME NEW sw, sw \notin {"none", "E_OK"}, SendSw(sw)
        PROVE  Oracle!Confirm
    <2>1. /\ Status' = "error" /\ out'.what = Nothing
          /\ swap'.validated = swap.validated /\ Running' = Running
      BY <1>1, <1>4, CallbackAnswer DEF SendSw
    <2> QED
      BY <1>2, <2>1 DEF Oracle!Confirm, Oracle!Error, Oracle!Answer
  <1>5. CASE review.state = "APPROVAL_SIGN_TIP72_TRANSACTION" /\ UNCHANGED <<out, swap>>
    <2>1. OfTip712(Requested)
      BY <1>1, <1>5 DEF Requested, Signature, Tip712Hash, OfTip712
    <2>2. Status' = Status /\ Running' = Running
      BY <1>5 DEF Status, Running
    <2> QED
      BY <1>2, <1>5, <2>1, <2>2 DEF Oracle!Confirm
  <1> QED
    BY <1>3, <1>4, <1>5, ApproveReleases

\* A reset and a restart forget.
LEMMA ForgetStep ==
    ASSUME IoReset \/ Relaunch
    PROVE  Oracle!Forget
  <1>1. /\ Running /\ review' = NoReview /\ out' = NoResponse
        /\ txContext' = NoContext /\ UNCHANGED swap
    BY DEF IoReset, Relaunch, ReviewOver, Terminated, Idle
  <1>2. Status' = "none" /\ out'.what = Nothing /\ ~txContext'.initialized /\ Running'
    BY <1>1 DEF Status, NoResponse, NoContext, Running
  <1> QED
    BY <1>1, <1>2, OracleHomeNext
    DEF Oracle!Forget, Oracle!Home, Oracle!NoAnswer, Oracle!Answer

\* What the oracle does not see.
LEMMA HiddenStep ==
    ASSUME UNCHANGED <<txContext, transactionContext, messageSigningContext712,
                       publicKeyContext, review, out, swap>>
    PROVE  UNCHANGED Oracle!vars
  BY DEF Oracle!vars, Requested, Reviewing, Status, Running

\* Every step of the app is a step of the oracle.
LEMMA StepOracle ==
    ASSUME AppInv, AppInv', [Next]_vars
    PROVE  [Oracle!Next]_(Oracle!vars)
  <1>1. CASE SignCommand \/ MessageCommand \/ OtherCommand
    <2>1. Idle /\ (Replies \/ Asks)
      BY <1>1, CommandReplies DEF AppInv, ScreenInv, HashInv
    <2> QED
      BY <2>1, ServeStep, AskStep DEF Oracle!Next
  <1>2. CASE User
    BY <1>2, ProceedStep, RefuseStep, ConfirmStep DEF User, Oracle!Next
  <1>3. CASE (\E s \in Toggles : ToggleSetting(s)) \/ UNCHANGED vars
    BY <1>3, HiddenStep DEF ToggleSetting, vars, session
  <1>4. CASE IoReset \/ Relaunch
    BY <1>4, ForgetStep DEF Oracle!Next
  <1> QED
    BY <1>1, <1>2, <1>3, <1>4 DEF Next

\* The app implements SigningOracle: whatever the host interleaves, what a
\* confirmation releases is what the screen described when it was asked, it is
\* released once, and in a swap only under the mandate of Exchange.
THEOREM AppImplementsOracle == Spec => ImplementsOracle
  <1>1. AppInv /\ AppInv' /\ [Next]_vars => [Oracle!Next]_(Oracle!vars)
    BY StepOracle
  <1> QED
    BY <1>1, InitOracle, AppInvariant, PTL DEF Spec, ImplementsOracle, Oracle!Spec
=============================================================================
