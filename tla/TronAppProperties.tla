-------------------------- MODULE TronAppProperties --------------------------
(***************************************************************************)
(* What makes the app correct: the type invariant, the invariants on what  *)
(* is on the screen, and what a step may never do.                         *)
(***************************************************************************)
EXTENDS TronApp

Contexts == [initialized : BOOLEAN, sha2 : Seq(Chunks), final : BOOLEAN,
             opened : Paths \cup {NoPath}]
Messages == [initialized : BOOLEAN, announced : Nat, got : Nat]
Swaps == [ready : BOOLEAN, validated : ValidatedSwaps \cup {NoSwap},
          status : {"running", "success", "failure"}, signatures : Nat]
StoredPaths == Paths \cup {OffSubtree, NoPath}
ContentShape(content) ==
    /\ DOMAIN content = DOMAIN ZeroContent
    /\ content.contractSeen \in BOOLEAN /\ content.feeLimitSeen \in BOOLEAN
TransactionShape(tc) == DOMAIN tc = DOMAIN NoTransaction /\ tc.path \in StoredPaths

\* The variables hold what the C declarations allow them to hold: a session is
\* made of chunks that were sent, a malformed path is never stored, the counters
\* of a personal message do not go below zero.
TypeOK ==
    /\ settings \in SUBSET Toggles
    /\ txContext \in Contexts
    /\ ContentShape(txContent)
    /\ TransactionShape(transactionContext)
    /\ personal_msg_ctx \in Messages
    /\ DOMAIN messageSigningContext712 = DOMAIN No712
    /\ messageSigningContext712.path \in StoredPaths
    /\ swap \in Swaps
    /\ flow \in {"none", "sign", "message"}

-----------------------------------------------------------------------------
(* The transaction under review.                                           *)

\* handleSign's review is on the screen.
TransactionReview ==
    /\ Reviewing
    /\ review.state \notin {"APPROVAL_VERIFY_ADDRESS", "APPROVAL_SHARED_ECDH_SECRET",
                            "APPROVAL_SIGN_PERSONAL_MESSAGE",
                            "APPROVAL_SIGN_TIP72_TRANSACTION"}
    /\ transactionContext.hash[1] = "tx"

HashedChunks == transactionContext.hash[2]
ContractChunks(chunks) == {i \in DOMAIN chunks : HasContract(chunks[i])}
FeeChunks(chunks) == {i \in DOMAIN chunks : feeLimit(chunks[i]) # 0}

\* content holds what the only contract among the chunks says.
ContractParsed(chunks, content) ==
    \E i \in DOMAIN chunks :
        /\ ContractChunks(chunks) = {i}
        /\ LET k == chunks[i].contract[1]
           IN  /\ content.contractType = k.type
               /\ content.permission_id = k.permission_id
               /\ content.parsed = ExtractParsed(k.type, ZeroParsed, k.m)

\* The transaction that a review is about is the one that is hashed: exactly one
\* hashed chunk carries a contract, it is the one that was parsed, and every fee
\* limit among the hashed chunks is the one that was kept.  processTx must refuse
\* a second contract and a second fee limit, whatever the order of the chunks,
\* and initTx must restart the hash and the content together.
HashMatchesContent ==
    TransactionReview =>
        /\ ContractParsed(HashedChunks, txContent)
        /\ \A i \in FeeChunks(HashedChunks) : txContent.feeLimit = feeLimit(HashedChunks[i])

\* The hash under review comes from a context that was finalised once: after a
\* THROW from the rendering, which leaves the session open behind CX_LAST, no
\* later command may bring that session to a review.
FinalisedOnce == TransactionReview => ~transactionContext.hash[3]

\* The values on the screen, with the value behind an Address Book alias.
Unalias(v) == IF v[1] = "contact" THEN v[3] ELSE v
ShownValues == {Unalias(review.fields[i].value) : i \in DOMAIN review.fields}
ShownNumbers == {v[2] : v \in {x \in ShownValues : x[1] = "amount"}}

\* What a contract does, from its message alone: whose, to whom, how much.
EssentialAddresses(k) ==
    {IF k.permission_id > 0 THEN PermissionAddress(k.permission_id, k.m.owner)
     ELSE Address(k.m.owner)}
    \cup CASE k.type \in {"TRANSFERCONTRACT", "TRANSFERASSETCONTRACT",
                          "DELEGATERESOURCECONTRACT", "UNDELEGATERESOURCECONTRACT"} ->
                {Address(k.m.to)}
           [] k.type \in {"FREEZEBALANCECONTRACT", "UNFREEZEBALANCECONTRACT"} ->
                IF k.m.to = ZeroAddress THEN {} ELSE {Address(k.m.to)}
           [] k.type = "TRIGGERSMARTCONTRACT" ->
                IF k.m.contract \in DOMAIN TRC20Tokens /\ TriggerMethod(k.m) # 0
                THEN {Address(k.m.data.to)} ELSE {Address(k.m.contract)}
           [] OTHER -> {}

EssentialNumbers(k) ==
    CASE k.type \in {"TRANSFERCONTRACT", "TRANSFERASSETCONTRACT", "FREEZEBALANCECONTRACT",
                     "FREEZEBALANCEV2CONTRACT", "UNFREEZEBALANCEV2CONTRACT",
                     "DELEGATERESOURCECONTRACT", "UNDELEGATERESOURCECONTRACT"} ->
            {Unsigned(k.m.amount)}
      [] k.type = "EXCHANGECREATECONTRACT" -> {Unsigned(k.m.amount), Unsigned(k.m.amount2)}
      [] k.type \in {"EXCHANGEINJECTCONTRACT", "EXCHANGEWITHDRAWCONTRACT"} ->
            {Unsigned(k.m.id), Unsigned(k.m.amount)}
      [] k.type = "EXCHANGETRANSACTIONCONTRACT" ->
            {Unsigned(k.m.id), Unsigned(k.m.amount), Unsigned(k.m.amount2)}
      [] k.type = "TRIGGERSMARTCONTRACT" ->
            {Unsigned(v) : v \in {k.m.amount, k.m.callTokenValue} \ {0}}
            \cup (IF k.m.contract \in DOMAIN TRC20Tokens /\ TriggerMethod(k.m) # 0
                  THEN {k.m.data.amount} ELSE {})
      [] OTHER -> {}

\* Nothing a contract does is hidden: the review of a rendered contract shows its
\* sender, its receiver, every amount it moves (the TRX and the TRC10 value of a
\* call included), every vote and every permission, and the fee limit of a call.
\* Any other contract shows the hash that is signed.
ReviewShowsContract ==
    TransactionReview =>
        \A i \in ContractChunks(HashedChunks) :
            LET k == HashedChunks[i].contract[1]
            IN  /\ EssentialAddresses(k) \subseteq ShownValues
                /\ EssentialNumbers(k) \subseteq ShownNumbers
                /\ k.type = "TRIGGERSMARTCONTRACT" =>
                        \A j \in FeeChunks(HashedChunks) :
                            feeLimit(HashedChunks[j]) \in ShownNumbers
                /\ k.type = "VOTEWITNESSCONTRACT" =>
                        \A j \in DOMAIN k.m.votes :
                            <<"vote", k.m.votes[j].address, VoteText(k.m.votes[j].count)>>
                                \in ShownValues
                /\ k.type = "ACCOUNTPERMISSIONUPDATECONTRACT" =>
                        \A f \in Range(PermissionUpdateFields(k.m.permissions)) :
                            f.value \in ShownValues
                /\ review.state = "APPROVAL_SIMPLE_TRANSACTION" =>
                        Hash(transactionContext.hash) \in ShownValues

\* A slot is taken for TRX when the identifier is the single byte of TRX and only
\* then, whatever the label reads.  A name shown for a TRC10 token was signed for
\* what the identifier in the hashed contract reads as, and the amount next to it
\* uses the precision signed with the name.
CertifiedSlot(slot, field) ==
    LET label == txContent.tokens.names[slot]
        decimals == txContent.tokens.decimals[slot]
        text == TextOf[field]
    IN  IF txContent.tokens.isTrx[slot]
        THEN field.bytes = "_" /\ label = <<"TRX">>
        ELSE /\ field.bytes # "_"
             /\ \/ label = <<text>> /\ decimals = 0
                \/ \E d \in TokenMeta :
                      label = <<d.name, text>> /\ d.id = text /\ decimals = d.precision
                \/ \E e \in ExchangeMeta : \E d \in {e.first, e.second} :
                      /\ e.signed
                      /\ label = <<d.name, text>> /\ d.id = text /\ decimals = d.precision

NamesAreCertified ==
    \A i \in ContractChunks(txContext.sha2) :
        LET k == txContext.sha2[i].contract[1]
        IN  /\ k.type \in NamedContracts \cup PairedContracts => CertifiedSlot(1, k.m.token)
            /\ k.type = "EXCHANGECREATECONTRACT" => CertifiedSlot(2, k.m.token2)

-----------------------------------------------------------------------------
(* Warnings and settings.                                                  *)

\* The custom data of the hashed transaction: a later chunk overrides an earlier
\* one, as in any protobuf message that is the concatenation of several.
DataChunks(chunks) == {i \in DOMAIN chunks : chunks[i].data # NoData}
CarriesData(chunks) ==
    \E i \in DataChunks(chunks) :
        chunks[i].data > 0 /\ \A j \in DataChunks(chunks) : j <= i

\* When the review of a transaction with extra data comes up, the setting that
\* allows data is on and the data warning comes first; a review of a transaction
\* without data does not warn.  The size is kept in txContent.dataBytes, which
\* handleSignPersonalMessage uses as its own counter.
DataWarned ==
    [][ ~Reviewing /\ TransactionReview' =>
            LET data == CarriesData(HashedChunks')
            IN  /\ data => "S_DATA_ALLOWED" \in settings
                /\ data <=> Head(review'.screens) = "data warning" ]_vars

\* Blind signing needs its setting at the moment of the approval, whatever the
\* user toggled between two chunks: a hash alone only with S_SIGN_BY_HASH, an
\* unknown call only with S_CUSTOM_CONTRACT and after its own warning.
BlindSigningAllowed ==
    /\ review.state \in {"APPROVAL_SIMPLE_TRANSACTION", "APPROVAL_SIGN_PERSONAL_MESSAGE",
                         "APPROVAL_SIGN_TIP72_TRANSACTION"} => "S_SIGN_BY_HASH" \in settings
    /\ review.state = "APPROVAL_CUSTOM_CONTRACT" => "S_CUSTOM_CONTRACT" \in settings
    /\ TransactionReview =>
          \A i \in ContractChunks(HashedChunks) :
              LET k == HashedChunks[i].contract[1]
              IN  k.type = "TRIGGERSMARTCONTRACT"
                      /\ (k.m.contract \notin DOMAIN TRC20Tokens \/ TriggerMethod(k.m) = 0)
                  => "S_CUSTOM_CONTRACT" \in settings

-----------------------------------------------------------------------------
(* Names on the screen.                                                    *)

\* A contact name or a service label stands for the address it was resolved from.
\* The contacts are globals placed by pointer on whatever toAddress and
\* fromAddress hold, so a name left by an earlier command would label another
\* address, an exchange number or a token.
AliasMatchesAddress ==
    \A i \in DOMAIN review.fields :
        LET f == review.fields[i]
        IN  /\ f.value[1] = "contact" =>
                  \E a \in DOMAIN ContactOf :
                      f.value[3] = Address(a) /\ f.value[2] = ContactOf[a]
            /\ f.item = "Service" =>
                  \E a \in DOMAIN ServiceOf :
                      /\ Unalias(review.fields[i + 1].value) = Address(a)
                      /\ f.value = Text(ServiceOf[a])

\* prepareTxInfos never writes past txInfos.fields, whose size is a worst case
\* counted by hand.
FieldsFit == Len(review.fields) <= MAX_TX_FIELDS

-----------------------------------------------------------------------------
(* What leaves the device.                                                 *)

\* The key whose address is on the screen.
ShowsKey(path) == path \in Paths /\ Address(KeyAddress[path]) \in ShownValues

\* Outside a swap, a signature or a shared secret leaves the device only on the
\* last screen of the review of exactly that: the transaction under review, or
\* the hash on the screen with the key on the screen.  The callbacks read globals
\* that other handlers write, after the review was put together from them.
SecretApproved(what) ==
    \/ what[1] = "signature" /\ what[3][1] = "tx"
          /\ TransactionReview /\ what[3] = transactionContext.hash
    \/ what[1] = "signature" /\ what[3][1] \in {"message", "raw"}
          /\ ShowsKey(what[2]) /\ Hash(what[3]) \in ShownValues
    \/ what[1] = "signature" /\ what[3][1] = "tip712"
          /\ ShowsKey(what[2])
          /\ {Hash(RawHash(what[3][2])), Hash(RawHash(what[3][3]))} \subseteq ShownValues
    \/ what[1] = "secret"
          /\ ShowsKey(what[2]) /\ Address(Peers[what[3]]) \in ShownValues

\* An address that the user approves is the address of the key that is returned.
SecretsAreApproved ==
    [][ /\ out'.what # out.what /\ out'.what[1] \in {"signature", "secret"} /\ ~InSwap =>
              Reviewing /\ LastScreen /\ SecretApproved(out'.what)
        /\ Reviewing /\ out'.what[1] = "public key" => ShowsKey(out'.what[2]) ]_vars

-----------------------------------------------------------------------------
(* What holds when the host finishes or abandons a flow before the next.   *)

\* A transaction is signed with the key of the path it was opened with.
SignedWithOpeningPath ==
    TransactionReview => transactionContext.path = txContext.opened

\* A personal message under review has the length that its prefix announces.
MessageComplete ==
    review.state = "APPROVAL_SIGN_PERSONAL_MESSAGE" =>
        transactionContext.hash[2] = transactionContext.hash[3]

-----------------------------------------------------------------------------
(* Swap.                                                                   *)

\* The contract pays what Exchange validated: the recipient, the ticker and the
\* amount, compared as numbers and not as the texts swap_check_validity compares.
PaysValidated(k, v) ==
    \/ /\ k.type = "TRANSFERCONTRACT" /\ v.ticker = "TRX"
       /\ k.m.to = v.recipient
       /\ Unsigned(k.m.amount) * 10 ^ v.decimals = v.amount * 10 ^ SUN_DIG
    \/ /\ k.type = "TRIGGERSMARTCONTRACT" /\ k.m.contract \in DOMAIN TRC20Tokens
       /\ v.ticker = TRC20Tokens[k.m.contract].ticker
       /\ TriggerMethod(k.m) = 1 /\ k.m.data.to = v.recipient
       /\ k.m.amount = 0 /\ k.m.callTokenValue = 0
       /\ k.m.data.amount * 10 ^ v.decimals
             = v.amount * 10 ^ TRC20Tokens[k.m.contract].decimals

\* In a swap there is no review: a signature covers exactly the payment that
\* Exchange validated, without data and below the cap on the fee limit, and
\* nothing comes after it.
SwapSignsValidated ==
    InSwap /\ out.what[1] = "signature" =>
        LET chunks == out.what[3][2]
        IN  /\ swap.validated.initialized
            /\ \E i \in DOMAIN chunks :
                  /\ ContractChunks(chunks) = {i}
                  /\ PaysValidated(chunks[i].contract[1], swap.validated)
            /\ \A i \in FeeChunks(chunks) : feeLimit(chunks[i]) <= MaxSwapFee
            /\ ~CarriesData(chunks)
            /\ ~Running

SwapSignsOnce == swap.signatures <= 1

\* Nothing is displayed in a swap: Exchange has the screen.
SwapHasNoScreen == InSwap => ~Reviewing

\* The app reports a success to Exchange only with a signed transaction.
SwapSuccessIsSigned == swap.status = "success" => swap.signatures = 1

-----------------------------------------------------------------------------
(* What the documentation says (docs/APDU.md).                             *)

\* "Contracts with extra data require the Data allowed setting".
DataNeedsSetting ==
    TransactionReview /\ CarriesData(HashedChunks) => "S_DATA_ALLOWED" \in settings

\* "AccountPermissionUpdate and any contract type not individually rendered
\* require the Sign by hash setting".
PermissionUpdateNeedsSetting ==
    review.state = "APPROVAL_PERMISSION_UPDATE" => "S_SIGN_BY_HASH" \in settings

\* At every review one of the two sentences holds.  A review where this fails,
\* of a permission update with data while both settings are off, refutes both.
EitherSettingHolds == DataNeedsSetting \/ PermissionUpdateNeedsSetting

-----------------------------------------------------------------------------
(* Liveness: the user eventually answers what is on the screen (WF), the   *)
(* host and the operating system owe nothing.                              *)

FairSpec == Spec /\ WF_vars(User)

\* Every review ends, whatever warnings come before it: each screen that is
\* accepted leads to the next, and the app is back on the home screen.
ReviewEnds == Reviewing ~> ~Reviewing
=============================================================================
