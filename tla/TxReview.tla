------------------------------ MODULE TxReview ------------------------------
(***************************************************************************)
(* What the app shows: the second half of handleSign (src/handlers/sign.c, *)
(* from the end of the parsing on) and prepareTxInfos with the helpers     *)
(* around it (src/ui/ui_review_menu_nbgl.c).                               *)
(*                                                                         *)
(* handleSign fills display buffers (toAddress, fromAddress, fullContract, *)
(* the two halves of G_io_apdu_buffer, ...) and asks for a review; the     *)
(* fields of the review point into those buffers.  A buffer holds a tagged *)
(* value, and a field remembers which buffer it points to because the      *)
(* Address Book aliases are placed by comparing pointers.                  *)
(***************************************************************************)
EXTENDS TxParser, SequencesExt

CONSTANTS
    MaxPrintable,   \* 10^19: print_amount throws from there on
    MaxVoteText,    \* a vote count from there on does not fit its slot
    MaxSwapFee,     \* MAX_SWAP_FEE_LIMIT
    LongNames,      \* token names whose label does not fit in toAddress
    ContactOf,      \* Address Book: address -> contact name, or NoName
    ServiceOf       \* known services: address -> label, or NoName

\* An int64 that is not negative has at most 19 digits.
ASSUME PrintableAssumption ==
    /\ MaxPrintable \in Nat \ {0}
    /\ Word \div 2 <= MaxPrintable /\ MaxPrintable <= Word
    /\ MaxSwapFee \in Nat

NoName == ""
MAX_PERMISSION_ID == 9
SUN_DIG == 6
\* Mutant: the sender is not counted.
MAX_TX_FIELDS_short == (2 + PERMISSION_MAX_ACTIVES) * (2 + PERMISSION_MAX_KEYS)

MAX_TX_FIELDS == 1 + (2 + PERMISSION_MAX_ACTIVES) * (2 + PERMISSION_MAX_KEYS)

-----------------------------------------------------------------------------
(* Displayed values.                                                       *)

Address(a) == <<"address", a>>
PermissionAddress(id, a) == <<"address under permission", id, a>>
Amount(v, decimals) == <<"amount", v, decimals>>
Label(l) == <<"label", l>>
Text(s) == <<"text", s>>
Hash(h) == <<"hash", h>>
Contact(name, full) == <<"contact", name, full>>

Unprintable(v) == v >= MaxPrintable

\* print_amount into a vote slot: a text that does not fit is left empty.
VoteText(count) == IF count >= MaxVoteText THEN Text("") ELSE Amount(count, 0)

NoContacts == [recipient |-> NoName, sender |-> NoName, service |-> NoName]

set_recipient_address(contacts, a) ==
    [contacts EXCEPT !.recipient = ContactOf[a], !.service = ServiceOf[a]]

-----------------------------------------------------------------------------
(* The gates between the end of the parsing and the review.  A verdict is  *)
(* the status word to answer and whether the signing session ends with it; *)
(* a THROW reaches app_main, which answers and keeps the session.          *)

Pass == [sw |-> "E_OK", ends |-> FALSE]
Refuse(sw) == [sw |-> sw, ends |-> TRUE]
Throw(sw) == [sw |-> sw, ends |-> FALSE]

PrintVerdict(values) ==
    IF \E v \in values : Unprintable(v) THEN Throw("E_INCORRECT_LENGTH") ELSE Pass

IsCustomCall(content) ==
    content.contractType = "TRIGGERSMARTCONTRACT" /\ content.parsed.TRC20Method = 0

\* Mutants: a call that pays in TRX and in a token is let through; the setting is
\* not checked.
CustomCallVerdict_both(content, settings) ==
    IF "S_CUSTOM_CONTRACT" \notin settings
    THEN Refuse("E_MISSING_SETTING_CUSTOM_CONTRACT")
    ELSE PrintVerdict({content.parsed.amount[1], content.feeLimit})
CustomCallVerdict_open(content, settings) ==
    PrintVerdict({content.parsed.amount[1], content.feeLimit})

CustomCallVerdict(content, settings) ==
    LET p == content.parsed
    IN  IF "S_CUSTOM_CONTRACT" \notin settings
        THEN Refuse("E_MISSING_SETTING_CUSTOM_CONTRACT")
        ELSE IF p.amount[1] # 0 /\ p.callTokenValue # 0 THEN Refuse("E_INCORRECT_DATA")
        ELSE PrintVerdict({p.amount[1], Unsigned(p.callTokenValue), content.feeLimit})

TotalVotes(votes) == FoldSeq(LAMBDA v, sum : v.count + sum, 0, votes)

VotesVerdict(votes) ==
    IF \/ votes = <<>>
       \/ \E i \in DOMAIN votes : votes[i].count <= 0
       \/ TotalVotes(votes) > Word - 1
    THEN Refuse("E_INCORRECT_DATA")
    ELSE Pass

\* The switch of handleSign, as far as it can refuse or throw.
ContractVerdict(content, permissions, settings) ==
    LET p == content.parsed
        type == content.contractType
    IN  CASE IsCustomCall(content) -> CustomCallVerdict(content, settings)
          [] type = "TRIGGERSMARTCONTRACT" /\ p.TRC20Method # 0 ->
                IF p.amount[1] # 0 \/ p.callTokenValue # 0
                THEN Refuse("E_INCORRECT_DATA")
                ELSE PrintVerdict({content.feeLimit})
          [] type = "EXCHANGECREATECONTRACT" ->
                IF /\ Len(content.tokens.names[2]) = 2
                   /\ content.tokens.names[2][1] \in LongNames
                THEN Refuse("E_INCORRECT_DATA")
                ELSE PrintVerdict({p.amount[1], p.amount[2]})
          [] type \in {"EXCHANGEINJECTCONTRACT", "EXCHANGEWITHDRAWCONTRACT"} ->
                PrintVerdict({p.exchangeID, p.amount[1]})
          [] type = "EXCHANGETRANSACTIONCONTRACT" ->
                PrintVerdict({p.exchangeID, p.amount[1], p.amount[2]})
          [] type = "VOTEWITNESSCONTRACT" -> VotesVerdict(p.votes)
          [] type \in {"TRANSFERCONTRACT", "TRANSFERASSETCONTRACT",
                       "FREEZEBALANCECONTRACT", "FREEZEBALANCEV2CONTRACT",
                       "UNFREEZEBALANCEV2CONTRACT", "DELEGATERESOURCECONTRACT",
                       "UNDELEGATERESOURCECONTRACT"} ->
                PrintVerdict({p.amount[1]})
          [] type \in {"UNFREEZEBALANCECONTRACT", "WITHDRAWEXPIREUNFREEZECONTRACT",
                       "WITHDRAWBALANCECONTRACT"} -> Pass
          [] type = "ACCOUNTPERMISSIONUPDATECONTRACT" ->
                IF permissions = NoPermissions THEN Refuse("E_INCORRECT_DATA") ELSE Pass
          [] type = "INVALID_CONTRACT" -> Refuse("E_INCORRECT_DATA")
          [] OTHER ->
                IF "S_SIGN_BY_HASH" \in settings THEN Pass
                ELSE Refuse("E_MISSING_SETTING_SIGN_BY_HASH")

\* Mutant: the check of the parser is taken to be enough.
DataNotAllowed_parser(content, settings) == FALSE

DataNotAllowed(content, settings) ==
    "S_DATA_ALLOWED" \notin settings /\ content.dataBytes # 0

\* Mutant: extra data is not refused.
SwapRefusesContract_data(content) ==
    \/ content.contractType \notin {"TRANSFERCONTRACT", "TRIGGERSMARTCONTRACT"}
    \/ content.contractType = "TRIGGERSMARTCONTRACT" /\ content.parsed.TRC20Method # 1

\* The first gates of a swap; the last ones, once the buffers are filled, are
\* in SwapVerdict below.
SwapRefusesContract(content) ==
    \/ content.contractType \notin {"TRANSFERCONTRACT", "TRIGGERSMARTCONTRACT"}
    \/ content.contractType = "TRIGGERSMARTCONTRACT" /\ content.parsed.TRC20Method # 1
    \/ content.dataBytes > 0

ReviewVerdict(content, permissions, settings, inSwap) ==
    IF DataNotAllowed(content, settings)
    THEN Refuse("E_MISSING_SETTING_DATA_ALLOWED")
    ELSE IF content.permission_id \notin 0..MAX_PERMISSION_ID
    THEN Refuse("E_INCORRECT_DATA")
    ELSE IF inSwap /\ SwapRefusesContract(content)
    THEN Refuse("E_SWAP_CHECKING_FAIL")
    ELSE ContractVerdict(content, permissions, settings)

-----------------------------------------------------------------------------
(* The display buffers that handleSign fills for a transaction.            *)

Blank == Text("")
NoBuffers ==
    [ fromAddress |-> Blank, toAddress |-> Blank, fullContract |-> Blank,
      amount |-> Blank, amount2 |-> Blank, sendAllow |-> "To",
      selector |-> Blank, hash |-> Blank, maxFee |-> Blank,
      votes |-> <<>>, permissions |-> NoPermissions ]

SenderText(content) ==
    IF content.permission_id > 0
    THEN PermissionAddress(content.permission_id, content.parsed.account)
    ELSE Address(content.parsed.account)

Resource(p) == Text(IF p.resource = 0 THEN "Bandwidth" ELSE "Energy")

\* The amount of a token slot: TRX in sun, any other token by its decimals.
SlotAmount(content, slot) ==
    Amount(content.parsed.amount[slot],
           IF content.tokens.isTrx[slot] THEN SUN_DIG ELSE content.tokens.decimals[slot])

\* Freezing without a receiver freezes for the owner.
FreezeReceiver(p) == IF p.destination = ZeroAddress THEN p.account ELSE p.destination

\* The address handed to set_recipient_address, if the contract has one.
Recipient(content) ==
    LET p == content.parsed
    IN  CASE IsCustomCall(content) -> <<>>
          [] content.contractType = "TRIGGERSMARTCONTRACT" /\ ~IsCustomCall(content) ->
                <<p.destination>>
          [] content.contractType \in
                {"TRANSFERCONTRACT", "TRANSFERASSETCONTRACT",
                 "DELEGATERESOURCECONTRACT", "UNDELEGATERESOURCECONTRACT"} ->
                <<p.destination>>
          [] content.contractType \in {"FREEZEBALANCECONTRACT", "UNFREEZEBALANCECONTRACT"} ->
                <<FreezeReceiver(p)>>
          [] content.contractType \in
                {"FREEZEBALANCEV2CONTRACT", "UNFREEZEBALANCEV2CONTRACT",
                 "WITHDRAWEXPIREUNFREEZECONTRACT", "WITHDRAWBALANCECONTRACT"} ->
                <<p.account>>
          [] OTHER -> <<>>

\* The contacts handleSign resolves, from what the dispatcher left: the sender
\* after the first two gates, the recipient when its buffer is filled.
ResolveSender(contacts, content) ==
    IF content.permission_id > 0 THEN contacts
    ELSE [contacts EXCEPT !.sender = ContactOf[content.parsed.account]]

ResolveContacts(contacts, content) ==
    LET to == Recipient(content)
    IN  IF to = <<>> THEN ResolveSender(contacts, content)
        ELSE set_recipient_address(ResolveSender(contacts, content), to[1])

\* What a refusal leaves of them: only the fee limit of a TRC20 call is printed
\* after the recipient is resolved.
RefusedContacts(contacts, content, settings, inSwap) ==
    LET p == content.parsed
    IN  IF \/ DataNotAllowed(content, settings)
           \/ content.permission_id \notin 0..MAX_PERMISSION_ID
        THEN contacts
        ELSE IF /\ content.contractType = "TRIGGERSMARTCONTRACT" /\ p.TRC20Method # 0
                /\ p.amount[1] = 0 /\ p.callTokenValue = 0
                /\ ~(inSwap /\ SwapRefusesContract(content))
        THEN ResolveContacts(contacts, content)
        ELSE ResolveSender(contacts, content)

CustomCallBuffers(content, b) ==
    LET p == content.parsed
    IN  [b EXCEPT
            !.fullContract = Address(p.contractAddress),
            !.selector = Text(p.customSelector),
            !.toAddress = IF p.amount[1] # 0 THEN Text("TRX")
                          ELSE IF p.callTokenValue # 0
                          THEN <<"token number", p.callTokenId>> ELSE Text("-"),
            !.amount = IF p.amount[1] # 0 THEN Amount(p.amount[1], SUN_DIG)
                       ELSE IF p.callTokenValue # 0
                       THEN Amount(Unsigned(p.callTokenValue), 0) ELSE Text("0"),
            !.maxFee = Amount(content.feeLimit, SUN_DIG)]

\* The TRC20 amount is formatted by tostring256 and adjustDecimals; with the at
\* most 78 digits of a uint256 and the decimals of TOKENS_TRC20 it always fits.
TransferBuffers(content, b) ==
    LET p == content.parsed
        c == [b EXCEPT !.toAddress = Address(p.destination),
                       !.fullContract = Label(content.tokens.names[1])]
    IN  CASE content.contractType = "TRANSFERCONTRACT" ->
                [c EXCEPT !.amount = Amount(p.amount[1], SUN_DIG)]
          [] content.contractType = "TRANSFERASSETCONTRACT" ->
                [c EXCEPT !.amount = Amount(p.amount[1], content.tokens.decimals[1])]
          [] OTHER ->
                [c EXCEPT !.amount = Amount(p.TRC20Amount, content.tokens.decimals[1]),
                          !.sendAllow = IF p.TRC20Method = 2 THEN "Allow" ELSE "To",
                          !.maxFee = Amount(content.feeLimit, SUN_DIG)]

ExchangeBuffers(content, b) ==
    LET p == content.parsed
        names == content.tokens.names
    IN  CASE content.contractType = "EXCHANGECREATECONTRACT" ->
                [b EXCEPT !.fullContract = Label(names[1]), !.toAddress = Label(names[2]),
                          !.amount = SlotAmount(content, 1),
                          !.amount2 = SlotAmount(content, 2)]
          [] content.contractType = "EXCHANGETRANSACTIONCONTRACT" ->
                [b EXCEPT !.fullContract = <<"pair", names[1], names[2]>>,
                          !.toAddress = Amount(p.exchangeID, 0),
                          !.amount = Amount(p.amount[1], content.tokens.decimals[1]),
                          !.amount2 = Amount(p.amount[2], content.tokens.decimals[2])]
          [] OTHER ->
                [b EXCEPT !.fullContract = Label(names[1]),
                          !.toAddress = Amount(p.exchangeID, 0),
                          !.amount = SlotAmount(content, 1),
                          !.amount2 = Text(IF content.contractType = "EXCHANGEINJECTCONTRACT"
                                           THEN "inject" ELSE "withdraw")]

\* Freezing, delegating and claiming: the resource, a TRX amount and a receiver.
ResourceBuffers(content, b) ==
    LET p == content.parsed
    IN  [b EXCEPT !.fullContract = Resource(p),
                  !.amount = Amount(p.amount[1], SUN_DIG),
                  !.amount2 = Text(IF p.customData THEN "True" ELSE "False"),
                  !.toAddress = Address(Recipient(content)[1])]

Buffers(content, permissions, hash) ==
    LET b == [NoBuffers EXCEPT !.fromAddress = SenderText(content)]
        type == content.contractType
    IN  CASE IsCustomCall(content) -> CustomCallBuffers(content, b)
          [] type \in {"TRANSFERCONTRACT", "TRANSFERASSETCONTRACT"}
                \/ (type = "TRIGGERSMARTCONTRACT" /\ ~IsCustomCall(content)) ->
                TransferBuffers(content, b)
          [] type \in {"EXCHANGECREATECONTRACT", "EXCHANGEINJECTCONTRACT",
                       "EXCHANGEWITHDRAWCONTRACT", "EXCHANGETRANSACTIONCONTRACT"} ->
                ExchangeBuffers(content, b)
          [] type = "VOTEWITNESSCONTRACT" ->
                [b EXCEPT !.votes = content.parsed.votes,
                          !.fullContract = Amount(TotalVotes(content.parsed.votes), 0)]
          [] type = "ACCOUNTPERMISSIONUPDATECONTRACT" ->
                [b EXCEPT !.permissions = permissions]
          [] Recipient(content) # <<>> /\ type # "TRIGGERSMARTCONTRACT"
                /\ type \notin {"TRANSFERCONTRACT", "TRANSFERASSETCONTRACT"} ->
                ResourceBuffers(content, b)
          [] OTHER -> [b EXCEPT !.hash = Hash(hash)]

\* The approval state that handleSign passes to ux_flow_display.
ApprovalState(content) ==
    LET type == content.contractType
    IN  CASE IsCustomCall(content) -> "APPROVAL_CUSTOM_CONTRACT"
          [] type \in {"TRANSFERCONTRACT", "TRANSFERASSETCONTRACT"} -> "APPROVAL_TRANSFER"
          [] type = "TRIGGERSMARTCONTRACT" /\ ~IsCustomCall(content) -> "APPROVAL_TRANSFER"
          [] type = "EXCHANGECREATECONTRACT" -> "APPROVAL_EXCHANGE_CREATE"
          [] type \in {"EXCHANGEINJECTCONTRACT", "EXCHANGEWITHDRAWCONTRACT"} ->
                "APPROVAL_EXCHANGE_WITHDRAW_INJECT"
          [] type = "EXCHANGETRANSACTIONCONTRACT" -> "APPROVAL_EXCHANGE_TRANSACTION"
          [] type = "VOTEWITNESSCONTRACT" -> "APPROVAL_WITNESSVOTE_TRANSACTION"
          [] type = "FREEZEBALANCECONTRACT" -> "APPROVAL_FREEZEASSET_TRANSACTION"
          [] type = "UNFREEZEBALANCECONTRACT" -> "APPROVAL_UNFREEZEASSET_TRANSACTION"
          [] type = "FREEZEBALANCEV2CONTRACT" -> "APPROVAL_FREEZEASSETV2_TRANSACTION"
          [] type = "UNFREEZEBALANCEV2CONTRACT" -> "APPROVAL_UNFREEZEASSETV2_TRANSACTION"
          [] type = "DELEGATERESOURCECONTRACT" -> "APPROVAL_DELEGATE_RESOURCE_TRANSACTION"
          [] type = "UNDELEGATERESOURCECONTRACT" -> "APPROVAL_UNDELEGATE_RESOURCE_TRANSACTION"
          [] type = "WITHDRAWEXPIREUNFREEZECONTRACT" ->
                "APPROVAL_WITHDRAWEXPIREUNFREEZE_TRANSACTION"
          [] type = "WITHDRAWBALANCECONTRACT" -> "APPROVAL_WITHDRAWBALANCE_TRANSACTION"
          [] type = "ACCOUNTPERMISSIONUPDATECONTRACT" -> "APPROVAL_PERMISSION_UPDATE"
          [] OTHER -> "APPROVAL_SIMPLE_TRANSACTION"
-----------------------------------------------------------------------------
(* prepareTxInfos: the fields of a review, in order.                       *)

Plain(item, value) == [item |-> item, buf |-> "none", value |-> value]
To(item, b) == [item |-> item, buf |-> "toAddress", value |-> b.toAddress]
From(item, b) == [item |-> item, buf |-> "fromAddress", value |-> b.fromAddress]

\* The first n elements of a sequence that may be shorter.
UpTo(n, s) == SubSeq(s, 1, IF Len(s) < n THEN Len(s) ELSE n)

\* fillPermissionEntry: an entry is [threshold, keys, operations].
PermissionFields(item, entry) ==
    <<Plain(item, <<"threshold", entry.threshold>>)>>
    \o [k \in DOMAIN UpTo(PERMISSION_MAX_KEYS, entry.keys) |->
            Plain(item, <<"key", entry.keys[k].address, entry.keys[k].weight>>)]
    \o <<Plain(item, <<"operations", entry.operations>>)>>

PermissionUpdateFields(permissions) ==
    LET of(item, entries) == [i \in DOMAIN entries |-> PermissionFields(item[i], entries[i])]
    IN  FlattenSeq(of(<<"Owner">>, permissions.owner)
                   \o of(<<"Witness">>, permissions.witness)
                   \o of(<<"Active 1", "Active 2">>,
                         UpTo(PERMISSION_MAX_ACTIVES, permissions.actives)))

VoteFields(votes) ==
    [i \in DOMAIN votes |->
        Plain("Vote", <<"vote", votes[i].address, VoteText(votes[i].count)>>)]

FieldList(state, b, isTrigger) ==
    CASE state = "APPROVAL_TRANSFER" ->
            <<Plain("Amount", b.amount), Plain("Token", b.fullContract),
              To(b.sendAllow, b), From("From", b)>>
            \o (IF isTrigger THEN <<Plain("Max Fee", b.maxFee)>> ELSE <<>>)
      [] state = "APPROVAL_SIMPLE_TRANSACTION" ->
            <<Plain("Hash", b.hash), From("From", b)>>
      [] state = "APPROVAL_PERMISSION_UPDATE" ->
            <<From("From", b)>> \o PermissionUpdateFields(b.permissions)
      [] state = "APPROVAL_EXCHANGE_CREATE" ->
            <<Plain("Token 1", b.fullContract), Plain("Amount 1", b.amount),
              To("Token 2", b), Plain("Amount 2", b.amount2), From("From", b)>>
      [] state = "APPROVAL_EXCHANGE_TRANSACTION" ->
            <<To("Exchange ID", b), Plain("Token pair", b.fullContract),
              Plain("Amount", b.amount), Plain("Expected", b.amount2), From("From", b)>>
      [] state = "APPROVAL_EXCHANGE_WITHDRAW_INJECT" ->
            <<Plain("Action", b.amount2), To("Exchange ID", b),
              Plain("Token Name", b.fullContract), Plain("Amount", b.amount),
              From("From", b)>>
      [] state = "APPROVAL_WITNESSVOTE_TRANSACTION" ->
            VoteFields(b.votes)
            \o <<Plain("Total Vote Count", b.fullContract), From("From", b)>>
      [] state = "APPROVAL_FREEZEASSET_TRANSACTION" ->
            <<Plain("Gain", b.fullContract), Plain("Amount", b.amount),
              To("Freeze To", b), From("From", b)>>
      [] state = "APPROVAL_UNFREEZEASSET_TRANSACTION" ->
            <<Plain("Resource", b.fullContract), To("Delegated To", b), From("From", b)>>
      [] state = "APPROVAL_FREEZEASSETV2_TRANSACTION" ->
            <<Plain("Gain", b.fullContract), Plain("Amount", b.amount),
              To("To", b), From("From", b)>>
      [] state = "APPROVAL_UNFREEZEASSETV2_TRANSACTION" ->
            <<Plain("Resource", b.fullContract), Plain("Amount", b.amount),
              To("To", b), From("From", b)>>
      [] state = "APPROVAL_DELEGATE_RESOURCE_TRANSACTION" ->
            <<Plain("Resource", b.fullContract), Plain("Amount", b.amount),
              Plain("Lock", b.amount2), To("To", b), From("From", b)>>
      [] state = "APPROVAL_UNDELEGATE_RESOURCE_TRANSACTION" ->
            <<Plain("Resource", b.fullContract), Plain("Amount", b.amount),
              From("To", b), To("From", b)>>
      [] state \in {"APPROVAL_WITHDRAWBALANCE_TRANSACTION",
                    "APPROVAL_WITHDRAWEXPIREUNFREEZE_TRANSACTION"} ->
            <<From("From", b)>>
      [] state = "APPROVAL_SIGN_PERSONAL_MESSAGE" ->
            <<Plain("Message hash", b.fullContract), From("Sign with", b)>>
      [] state = "APPROVAL_SIGN_TIP72_TRANSACTION" ->
            <<Plain("Domain hash", b.amount), Plain("Message hash", b.amount2),
              From("Sign with", b)>>
      [] state = "APPROVAL_CUSTOM_CONTRACT" ->
            <<Plain("Contract", b.fullContract), Plain("Selector", b.selector),
              To("Pay Token", b), Plain("Call Amount", b.amount), From("From", b),
              Plain("Max Fee", b.maxFee)>>
      [] state = "APPROVAL_SHARED_ECDH_SECRET" ->
            <<From("ECDH Address", b), To("Shared With", b)>>

\* The service label goes above the first field that points to toAddress.  The
\* refusal of a label without room is left out: the fields of a review that shows
\* toAddress are far fewer than MAX_TX_FIELDS.
ServiceSlot(fields) == SelectInSeq(fields, LAMBDA f : f.buf = "toAddress")

insert_known_service_label(fields, contacts) ==
    IF contacts.service = NoName \/ ServiceSlot(fields) = 0 THEN fields
    ELSE InsertAt(fields, ServiceSlot(fields), Plain("Service", Text(contacts.service)))

\* The contact's name replaces the value; the full value stays reachable.
apply_address_book_aliases(fields, contacts) ==
    [i \in DOMAIN fields |->
        LET f == fields[i]
        IN  CASE f.buf = "toAddress" /\ contacts.recipient # NoName ->
                    [f EXCEPT !.value = Contact(contacts.recipient, f.value)]
              [] f.buf = "fromAddress" /\ contacts.sender # NoName ->
                    [f EXCEPT !.value = Contact(contacts.sender, f.value)]
              [] OTHER -> f]

prepareTxInfos(state, b, isTrigger, contacts) ==
    apply_address_book_aliases(
        insert_known_service_label(FieldList(state, b, isTrigger), contacts), contacts)

\* The warning screens that reviewStart and the choices chain before the review.
Screens(state, data_warning) ==
    (IF data_warning THEN <<"data warning">> ELSE <<>>)
    \o (IF state = "APPROVAL_CUSTOM_CONTRACT" THEN <<"custom contract warning">> ELSE <<>>)
    \o <<"review">>

-----------------------------------------------------------------------------
(* The last gates of a swap (src/swap/handle_swap_sign_transaction.c).  The *)
(* validated record is [initialized, amount, decimals, ticker, recipient].  *)

\* The text of v with d decimals is canonical: two texts are equal when the
\* numbers are.  print_amount alone writes a zero with all its decimals.
SameAmountText(shown, printed, amount, decimals) ==
    /\ shown[2] * 10 ^ decimals = amount * 10 ^ shown[3]
    /\ printed => shown[2] # 0

swap_check_validity(b, printed, validated) ==
    /\ validated.initialized
    /\ SameAmountText(b.amount, printed, validated.amount, validated.decimals)
    /\ b.fullContract = Label(<<validated.ticker>>)
    /\ b.sendAllow = "To"
    /\ b.toAddress = Address(validated.recipient)

SwapVerdict(content, b, validated) ==
    IF \/ content.feeLimit > MaxSwapFee
       \/ ~swap_check_validity(b, content.contractType = "TRANSFERCONTRACT", validated)
    THEN Refuse("E_SWAP_CHECKING_FAIL")
    ELSE Pass
=============================================================================
