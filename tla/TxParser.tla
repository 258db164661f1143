------------------------------ MODULE TxParser ------------------------------
(***************************************************************************)
(* The incremental transaction parser of src/parse.c: what processTx and   *)
(* the metadata parsers do to txContent.                                   *)
(*                                                                         *)
(* A chunk is what nanopb decodes from the payload of one INS_SIGN         *)
(* command.  Decoding itself is vendored code; what it yields is a record  *)
(*   [len, ok, fee_limit, data, contract]                                   *)
(* where len is 0 for an empty payload, ok says that pb_decode accepts the *)
(* bytes, data is the size of the custom_data field or NoData, and         *)
(* contract holds the contract with a parameter, at most one per chunk:    *)
(*   << >> or << [type, permission_id, value, m] >>                        *)
(* with value telling whether Any.value is non-empty and m the decoded     *)
(* contract message (every field is present: protobuf fills in zeroes).    *)
(* A token identifier is a field [bytes, behind]: its bytes, and what an   *)
(* earlier and longer occurrence of the field left behind them in its      *)
(* fixed buffer.                                                           *)
(*                                                                         *)
(* txContent is split in three: its own fields, the part that the          *)
(* extractor of the contract fills in (parsed) and the two token slots     *)
(* (tokens), which metadata commands may relabel later.                    *)
(***************************************************************************)
EXTENDS Integers, Sequences

CONSTANTS
    TokenIds,       \* TRC10 identifiers of the only accepted size, seven bytes
    TextOf,         \* token field -> its characters up to the first NUL
    CertifiedIds,   \* texts of one or seven characters
    TRC20Tokens,    \* TOKENS_TRC20: contract address -> [ticker, decimals]
    Word            \* 2^64: int64 fields are stored as uint64

ASSUME WordAssumption == Word \in Nat \ {0}

\* "TRX" has three.
ASSUME CertifiedIdsAssumption == "TRX" \notin CertifiedIds

NoData == -1
ZeroAddress == "zero"
NoPermissions == [owner |-> <<>>, witness |-> <<>>, actives |-> <<>>]

MAX_TOKEN_PRECISION == 18
MAX_VOTES == 5
PERMISSION_MAX_ACTIVES == 2
PERMISSION_MAX_KEYS == 3

\* What an int64 protobuf field holds, and its cast to the uint64 fields of txContent.
Int64 == -(Word \div 2)..(Word \div 2 - 1)
Unsigned(v) == v % Word

ZeroParsed ==
    [ account |-> ZeroAddress, destination |-> ZeroAddress,
      contractAddress |-> ZeroAddress, amount |-> <<0, 0>>, exchangeID |-> 0,
      resource |-> 0, customData |-> FALSE, TRC20Method |-> 0,
      TRC20Amount |-> 0, customSelector |-> "0", callTokenValue |-> 0,
      callTokenId |-> 0, votes |-> <<>> ]

\* A label is the character string shown for a token: <<>> (unset), <<"TRX">>,
\* <<text>> of an identifier, <<ticker>> or <<name, text>> for "name[text]".
NoTokens ==
    [names |-> <<<<>>, <<>>>>, decimals |-> <<0, 0>>, isTrx |-> <<FALSE, FALSE>>]

\* memset to zero, then contractType: the content part of initTx and of
\* terminate_signing_session.
ZeroContent ==
    [ contractType |-> "INVALID_CONTRACT", permission_id |-> 0,
      dataBytes |-> 0, feeLimit |-> 0, feeLimitSeen |-> FALSE,
      contractSeen |-> FALSE, parsed |-> ZeroParsed, tokens |-> NoTokens ]

-----------------------------------------------------------------------------
(* Token slots.  Slot i of the code is index i + 1 here.                   *)

\* The size is checked; the copy of an identifier ends at the first NUL.
TokenIdAccepted(field) == field.bytes \in TokenIds \cup {"_"}

printTokenFromID(tokens, slot, field) ==
    LET isTrx == field.bytes = "_"
    IN  [tokens EXCEPT !.names[slot] = IF isTrx THEN <<"TRX">> ELSE <<TextOf[field]>>,
                       !.isTrx[slot] = isTrx]

PrecisionAccepted(precision) == precision \in 0..MAX_TOKEN_PRECISION

set_token_info(tokens, slot, name, id, precision) ==
    [tokens EXCEPT !.names[slot] = <<name, id>>, !.decimals[slot] = precision]

\* Mutant: the signature is checked against the identifier in the payload.
verifyTokenNameID_own(label, d) == TRUE

\* A TokenDetails payload d = [ok, id, name, precision]: ok is the outcome of
\* pb_decode, id the identifier its signature covers.  The signature is checked
\* against the current label of the slot, so only an unnamed id can match.
verifyTokenNameID(label, d) == label = <<d.id>>

parseTokenName(tokens, slot, d) ==
    IF d.ok /\ verifyTokenNameID(tokens.names[slot], d) /\ PrecisionAccepted(d.precision)
    THEN [ok |-> TRUE,
          tokens |-> set_token_info(tokens, slot, d.name, d.id, d.precision)]
    ELSE [ok |-> FALSE, tokens |-> tokens]

\* An ExchangeDetails payload d = [ok, exchangeId, signed, first, second] with
\* first and second = [id, name, precision].  When the second precision is
\* refused the first slot has already been rewritten.
parseExchange(content, d) ==
    LET tokens == content.tokens
        refused == [ok |-> FALSE, tokens |-> tokens]
        slots == IF tokens.names[1] = <<d.first.id>> THEN <<1, 2>>
                 ELSE IF tokens.names[1] = <<d.second.id>> THEN <<2, 1>>
                 ELSE <<>>
        one == set_token_info(tokens, slots[1], d.first.name, d.first.id,
                              d.first.precision)
    IN  IF \/ ~d.ok
           \/ content.parsed.exchangeID # Unsigned(d.exchangeId)
           \/ d.first.id \notin CertifiedIds \/ d.second.id \notin CertifiedIds
           \/ ~d.signed
           \/ slots = <<>>
           \/ ~PrecisionAccepted(d.first.precision)
        THEN refused
        ELSE IF ~PrecisionAccepted(d.second.precision)
             THEN [ok |-> FALSE, tokens |-> one]
             ELSE [ok |-> TRUE,
                   tokens |-> set_token_info(one, slots[2], d.second.name,
                                             d.second.id, d.second.precision)]

-----------------------------------------------------------------------------
(* Extractors: one per contract type that processTx accepts.  The Accepts  *)
(* operator holds what makes an extractor return false; the others hold    *)
(* what it writes when it does not.                                        *)

TriggerMethod(m) ==
    CASE m.data.selector = "a9059cbb" -> 1
      [] m.data.selector = "095ea7b3" -> 2
      [] OTHER -> 0

\* pb_decode_trigger_smart_contract_data runs only when the field is present.
\* m.data.size says whether the size check of the method passes.
AcceptsTriggerData(m) == m.data.present => m.data.size

\* The max_count options of the permissions: pb_decode refuses what exceeds them.
PermissionsDecode(permissions) ==
    /\ Len(permissions.actives) <= PERMISSION_MAX_ACTIVES
    /\ \A entries \in {permissions.owner, permissions.witness, permissions.actives} :
          \A i \in DOMAIN entries : Len(entries[i].keys) <= PERMISSION_MAX_KEYS

Accepts(type, m) ==
    /\ m.ok
    /\ CASE type = "TRANSFERASSETCONTRACT" -> TokenIdAccepted(m.token)
         [] type = "VOTEWITNESSCONTRACT" -> Len(m.votes) <= MAX_VOTES
         [] type = "FREEZEBALANCECONTRACT" -> m.duration = 3
         [] type = "TRIGGERSMARTCONTRACT" -> AcceptsTriggerData(m)
         [] type = "EXCHANGECREATECONTRACT" ->
                TokenIdAccepted(m.token) /\ TokenIdAccepted(m.token2)
         [] type \in {"EXCHANGEINJECTCONTRACT", "EXCHANGEWITHDRAWCONTRACT",
                      "EXCHANGETRANSACTIONCONTRACT"} -> TokenIdAccepted(m.token)
         [] type = "ACCOUNTPERMISSIONUPDATECONTRACT" -> PermissionsDecode(m.permissions)
         [] OTHER -> TRUE

\* owner_address, which every contract message carries.
account(p, m) == [p EXCEPT !.account = m.owner]

transfer_contract(p, m) ==
    [account(p, m) EXCEPT !.destination = m.to, !.amount[1] = Unsigned(m.amount)]

vote_witness_contract(p, m) == [account(p, m) EXCEPT !.votes = m.votes]

freeze_balance_contract(p, m) ==
    [transfer_contract(p, m) EXCEPT !.resource = m.resource]

unfreeze_balance_contract(p, m) ==
    [account(p, m) EXCEPT !.destination = m.to, !.resource = m.resource]

freeze_balance_v2_contract(p, m) ==
    [account(p, m) EXCEPT !.destination = m.owner,
                          !.amount[1] = Unsigned(m.amount),
                          !.resource = m.resource]

delegate_resource_contract(p, m) ==
    [freeze_balance_contract(p, m) EXCEPT !.customData = m.lock]

proposal_create_contract(p, m) ==
    [account(p, m) EXCEPT !.amount[1] = m.parameters]

proposal_delete_contract(p, m) ==
    [account(p, m) EXCEPT !.exchangeID = Unsigned(m.id)]

\* The ABI words of transfer and approve; any other call leaves them alone.
pb_decode_trigger_smart_contract_data(p, m) ==
    IF ~m.data.present THEN p
    ELSE LET q == [p EXCEPT !.customSelector = m.data.selector,
                            !.TRC20Method = TriggerMethod(m)]
         IN  IF TriggerMethod(m) = 0 THEN q
             ELSE [q EXCEPT !.destination = m.data.to,
                            !.TRC20Amount = m.data.amount]

getKnownToken(m) == m.contract \in DOMAIN TRC20Tokens

trigger_smart_contract(p, m) ==
    LET q == pb_decode_trigger_smart_contract_data(p, m)
    IN  [account(q, m) EXCEPT
            !.contractAddress = m.contract,
            !.amount[1] = Unsigned(m.amount),
            !.callTokenValue = m.callTokenValue,
            !.callTokenId = m.callTokenId,
            !.TRC20Method = IF getKnownToken(m) THEN @ ELSE 0]

exchange_create_contract(p, m) ==
    [account(p, m) EXCEPT !.amount = <<Unsigned(m.amount), Unsigned(m.amount2)>>]

exchange_inject_contract(p, m) ==
    [account(p, m) EXCEPT !.exchangeID = Unsigned(m.id),
                          !.amount[1] = Unsigned(m.amount)]

exchange_transaction_contract(p, m) ==
    [exchange_inject_contract(p, m) EXCEPT !.amount[2] = Unsigned(m.amount2)]

\* The contract types of the switch in processTx; the others are a fault.
ParsedTypes ==
    { "TRANSFERCONTRACT", "TRANSFERASSETCONTRACT", "VOTEWITNESSCONTRACT",
      "FREEZEBALANCECONTRACT", "UNFREEZEBALANCECONTRACT",
      "FREEZEBALANCEV2CONTRACT", "UNFREEZEBALANCEV2CONTRACT",
      "WITHDRAWEXPIREUNFREEZECONTRACT", "DELEGATERESOURCECONTRACT",
      "UNDELEGATERESOURCECONTRACT", "WITHDRAWBALANCECONTRACT",
      "PROPOSALCREATECONTRACT", "PROPOSALAPPROVECONTRACT",
      "PROPOSALDELETECONTRACT", "ACCOUNTUPDATECONTRACT",
      "TRIGGERSMARTCONTRACT", "EXCHANGECREATECONTRACT",
      "EXCHANGEINJECTCONTRACT", "EXCHANGEWITHDRAWCONTRACT",
      "EXCHANGETRANSACTIONCONTRACT", "ACCOUNTPERMISSIONUPDATECONTRACT" }

ExtractParsed(type, p, m) ==
    CASE type \in {"TRANSFERCONTRACT", "TRANSFERASSETCONTRACT"} -> transfer_contract(p, m)
      [] type = "VOTEWITNESSCONTRACT" -> vote_witness_contract(p, m)
      [] type = "FREEZEBALANCECONTRACT" -> freeze_balance_contract(p, m)
      [] type = "UNFREEZEBALANCECONTRACT" -> unfreeze_balance_contract(p, m)
      [] type \in {"FREEZEBALANCEV2CONTRACT", "UNFREEZEBALANCEV2CONTRACT"} ->
            freeze_balance_v2_contract(p, m)
      [] type = "DELEGATERESOURCECONTRACT" -> delegate_resource_contract(p, m)
      [] type = "UNDELEGATERESOURCECONTRACT" -> freeze_balance_contract(p, m)
      [] type = "PROPOSALCREATECONTRACT" -> proposal_create_contract(p, m)
      [] type = "PROPOSALDELETECONTRACT" -> proposal_delete_contract(p, m)
      [] type = "TRIGGERSMARTCONTRACT" -> trigger_smart_contract(p, m)
      [] type = "EXCHANGECREATECONTRACT" -> exchange_create_contract(p, m)
      [] type \in {"EXCHANGEINJECTCONTRACT", "EXCHANGEWITHDRAWCONTRACT"} ->
            exchange_inject_contract(p, m)
      [] type = "EXCHANGETRANSACTIONCONTRACT" -> exchange_transaction_contract(p, m)
      [] OTHER -> account(p, m)

ExtractTokens(type, t, m) ==
    CASE type = "TRANSFERCONTRACT" ->
            [t EXCEPT !.names[1] = <<"TRX">>, !.isTrx[1] = TRUE]
      [] type = "TRIGGERSMARTCONTRACT" ->
            IF getKnownToken(m)
            THEN [t EXCEPT !.names[1] = <<TRC20Tokens[m.contract].ticker>>,
                           !.decimals[1] = TRC20Tokens[m.contract].decimals]
            ELSE t
      [] type \in {"TRANSFERASSETCONTRACT", "EXCHANGEINJECTCONTRACT",
                   "EXCHANGEWITHDRAWCONTRACT", "EXCHANGETRANSACTIONCONTRACT"} ->
            printTokenFromID(t, 1, m.token)
      [] type = "EXCHANGECREATECONTRACT" ->
            printTokenFromID(printTokenFromID(t, 1, m.token), 2, m.token2)
      [] OTHER -> t

-----------------------------------------------------------------------------
(* processTx, step by step: the fee limit, the custom data, the contract.  *)

HasContract(chunk) == chunk.contract # <<>>

\* fee_limit has no presence flag: zero means "not in this chunk".
feeLimit(chunk) == Unsigned(chunk.fee_limit)

feeLimitOf(content, chunk) ==
    IF feeLimit(chunk) = 0 THEN content
    ELSE [content EXCEPT !.feeLimit = feeLimit(chunk), !.feeLimitSeen = TRUE]

\* Mutant: a later fee limit replaces an earlier one.
FeeLimitConflict_last(content, chunk) == FALSE

FeeLimitConflict(content, chunk) ==
    feeLimit(chunk) # 0 /\ content.feeLimitSeen /\ content.feeLimit # feeLimit(chunk)

\* The custom_data callback: the last size seen wins.
pb_get_tx_data_size(content, chunk) ==
    IF chunk.data = NoData THEN content
    ELSE [content EXCEPT !.dataBytes = chunk.data]

\* Mutant: a second contract is accepted.
ContractRefused_again(content, chunk) ==
    LET k == chunk.contract[1]
    IN  ~k.value \/ k.type \notin ParsedTypes \/ ~Accepts(k.type, k.m)

ContractRefused(content, chunk) ==
    LET k == chunk.contract[1]
    IN  \/ content.contractSeen
        \/ ~k.value
        \/ k.type \notin ParsedTypes
        \/ ~Accepts(k.type, k.m)

contractOf(content, chunk) ==
    LET k == chunk.contract[1]
    IN  [content EXCEPT
            !.contractSeen = TRUE,
            !.permission_id = k.permission_id,
            !.contractType = k.type,
            !.parsed = ExtractParsed(k.type, @, k.m),
            !.tokens = ExtractTokens(k.type, @, k.m)]

\* The parser status of a chunk.  What a refused chunk leaves in txContent is
\* not kept: handleSign answers every refusal with initTx.
processTxStatus(content, chunk, dataAllowed) ==
    LET seen == pb_get_tx_data_size(content, chunk)
    IN  IF chunk.len = 0 THEN "USTREAM_FINISHED"
        ELSE IF ~chunk.ok \/ FeeLimitConflict(content, chunk) THEN "USTREAM_FAULT"
        ELSE IF ~dataAllowed /\ seen.dataBytes # 0
             THEN "USTREAM_MISSING_SETTING_DATA_ALLOWED"
        ELSE IF HasContract(chunk) /\ ContractRefused(content, chunk)
             THEN "USTREAM_FAULT"
        ELSE "USTREAM_PROCESSING"

processTxContent(content, chunk) ==
    LET fee == feeLimitOf(pb_get_tx_data_size(content, chunk), chunk)
    IN  IF chunk.len = 0 THEN content
        ELSE IF HasContract(chunk) THEN contractOf(fee, chunk)
        ELSE fee

\* The global decoded message: every non-empty chunk clears it first, and only
\* account_permission_update_contract leaves in it something that is read later.
processTxMsg(msg, chunk) ==
    IF chunk.len = 0 THEN msg
    ELSE IF HasContract(chunk) /\ chunk.contract[1].type = "ACCOUNTPERMISSIONUPDATECONTRACT"
         THEN chunk.contract[1].m.permissions
         ELSE NoPermissions
=============================================================================
