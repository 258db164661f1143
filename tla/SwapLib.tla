------------------------------ MODULE SwapLib ------------------------------
(***************************************************************************)
(* The application as a library of the Exchange app (src/swap): the calls  *)
(* swap_handle_check_address, swap_handle_get_printable_amount and         *)
(* swap_copy_transaction_parameters, and swap_check_validity as            *)
(* handlers/sign.c calls it for the transaction to be signed.              *)
(*                                                                         *)
(* Exchange may make any of the calls in any order with any parameters;    *)
(* a NULL pointer is a parameter too.  Decimal strings come from           *)
(* AmountFormat; tostring256 (module Uint256ToString) gives the digits of  *)
(* the amount, "0" for zero.                                               *)
(***************************************************************************)
EXTENDS AmountFormat, FiniteSets

CONSTANTS
  PrintableSize, \* MAX_PRINTABLE_AMOUNT_SIZE: 50
  ScreenSize,    \* the 100 bytes of G_io_apdu_buffer an amount is printed to
  TrxDecimals,   \* SUN_DIG: 6
  FeeCap,        \* MAX_SWAP_FEE_LIMIT
  MaxAmount,     \* the largest amount Exchange sends or a transaction holds
  Addresses,     \* base58 addresses of the right length
  Paths,         \* derivation paths read_bip32_path accepts
  AddressOf,     \* the address derived from a path
  Tokens         \* the tokens known to the parser: name -> decimals

ASSUME SwapAssumption ==
  /\ {PrintableSize, ScreenSize} \subseteq Nat
  /\ TmpSize < Tmp2Size /\ Tmp2Size < PrintableSize /\ PrintableSize < ScreenSize
  /\ {TrxDecimals, FeeCap, MaxAmount} \subseteq Nat
  /\ AddressOf \in [Paths -> Addresses] /\ "TRX" \notin DOMAIN Tokens
  /\ \A t \in DOMAIN Tokens : Tokens[t] \in Nat

VARIABLES
  mode,      \* "exchange": the library may be called; "app": it runs to sign
  bss,       \* the globals: what the swap keeps, and all the others
  asked,     \* the parameters of the current swap as Exchange gave them (history)
  reply,     \* the last call that answers at once: its parameters and its answer
  signed     \* the transactions signed for the current swap

vars == << mode, bss, asked, reply, signed >>

NULL == "NULL"
NoAmount == -1
NoReply == [call |-> "none"]
Amounts == 0 .. MaxAmount

\* swap_parse_config: a ticker and its decimals, unless it does not parse.
Malformed == [ticker |-> "malformed", decimals |-> 0]
Configs == [ticker : DOMAIN Tokens, decimals : {Tokens[t] : t \in DOMAIN Tokens}]
           \cup {Malformed, [ticker |-> NULL, decimals |-> 0]}
swap_parse_config(config) == config # Malformed

\* No configuration means TRX.
Currency(config) ==
  IF config.ticker = NULL THEN [ticker |-> "TRX", decimals |-> TrxDecimals] ELSE config

\* The digits that tostring256 has no room for (Uint256ToString) do not matter
\* here: both callers ignore its answer and have PrintableSize bytes, and
\* adjustDecimals refuses that many digits.
tostring256(amount) == IF amount = 0 THEN ZeroText ELSE Digits(amount)

-----------------------------------------------------------------------------
(* swap_handle_check_address.                                              *)

swap_handle_check_address(path, address, extra) ==
  /\ mode = "exchange"
  /\ reply' = [call |-> "check_address", path |-> path, address |-> address,
               result |-> /\ path \in Paths /\ address # NULL /\ extra = "empty"
                          /\ AddressOf[path] = address]
  /\ UNCHANGED << mode, bss, asked, signed >>

(* swap_handle_get_printable_amount: a fee is in TRX; strlcat cuts what    *)
(* does not fit behind the amount.                                         *)
swap_handle_get_printable_amount(amount, config, is_fee) ==
  /\ mode = "exchange"
  /\ LET currency == IF is_fee THEN Currency([ticker |-> NULL, decimals |-> 0])
                     ELSE Currency(config)
         adjusted == adjustDecimals(tostring256(amount), PrintableSize, currency.decimals)
         parsed == is_fee \/ swap_parse_config(config)
     IN reply' = [call |-> "printable_amount", amount |-> amount, currency |-> currency,
                  text |-> IF parsed THEN adjusted.text ELSE Empty,
                  ticker |-> IF parsed /\ adjusted.ok THEN currency.ticker ELSE NULL]
  /\ UNCHANGED << mode, bss, asked, signed >>

-----------------------------------------------------------------------------
(* swap_copy_transaction_parameters.  The memory it finds holds the        *)
(* globals and the parameters, and Exchange may have put the parameters    *)
(* where the globals are: they are copied to the stack, the whole BSS is   *)
(* zeroed, and the address of the result and the copy are committed to it. *)
(* When a check fails the library call ends.                               *)

NotInitialized == [initialized |-> FALSE, amount |-> 0, decimals |-> 0, ticker |-> NULL,
                   recipient |-> NULL]

Parameters == [amount : Amounts \cup {NoAmount}, config : Configs,
               recipient : Addresses \cup {NULL, "malformed"}]
NoParameters == [amount |-> NoAmount, config |-> Malformed, recipient |-> NULL]

\* What the checks make of the parameters on the stack.
Validated(params) ==
  [initialized |-> TRUE, amount |-> params.amount,
   decimals |-> Currency(params.config).decimals, ticker |-> Currency(params.config).ticker,
   recipient |-> params.recipient]

NotOurs == [swap |-> NotInitialized, return_address |-> NULL, others |-> "garbage"]

\* Parameters among the globals are zeroed with them: no amount bytes, no
\* configuration, an empty address.
ZeroParameters == [amount |-> 0, config |-> [ticker |-> NULL, decimals |-> 0],
                   recipient |-> ""]
os_explicit_zero_BSS_segment(memory) ==
  [memory EXCEPT !.bss = [NotOurs EXCEPT !.others = "zero"],
                 !.params = IF memory.overlap THEN ZeroParameters ELSE @]

\* Mutant: the parameters are read from where they are, once the globals are zero.
Committed_in_place(memory) ==
  LET zeroed == os_explicit_zero_BSS_segment(memory)
  IN [zeroed.bss EXCEPT !.return_address = "params.result", !.swap = Validated(zeroed.params)]

Committed(memory) ==
  LET swap_validated == Validated(memory.params)
      zeroed == os_explicit_zero_BSS_segment(memory)
  IN [zeroed.bss EXCEPT !.return_address = "params.result", !.swap = swap_validated]

swap_copy_transaction_parameters(params, extra, overlap) ==
  /\ mode = "exchange"
  /\ IF /\ extra = "empty" /\ params.recipient # NULL /\ params.amount # NoAmount
        /\ swap_parse_config(params.config) /\ params.recipient \in Addresses
     THEN /\ mode' = "app" /\ signed' = {} /\ asked' = params
          /\ bss' = Committed([bss |-> bss, params |-> params, overlap |-> overlap])
     ELSE UNCHANGED << mode, bss, asked, signed >>
  /\ reply' = NoReply

-----------------------------------------------------------------------------
(* The transaction: what sign.c prints and what swap_check_validity makes  *)
(* of it.  A TRC20 amount is printed from its 256 bits, any other one by   *)
(* print_amount.                                                           *)

Transactions ==
  {t \in [kind : {"TRX", "TRC10", "TRC20"}, token : DOMAIN Tokens \cup {"TRX"}, amount : Amounts,
          fee_limit : {0, FeeCap, FeeCap + 1}, action : {"To", "Allow"}, to : Addresses] :
     /\ t.kind = "TRX" <=> t.token = "TRX"
     /\ t.action = "Allow" => t.kind = "TRC20"}

Decimals(tx) == IF tx.kind = "TRX" THEN TrxDecimals ELSE Tokens[tx.token]
AmountText(tx) ==
  IF tx.kind = "TRC20" THEN adjustDecimals(tostring256(tx.amount), ScreenSize, Decimals(tx))
  ELSE Printed(print_amount(tx.amount, ScreenSize, Decimals(tx)))

\* Mutant: only as many characters as the transaction's text has are compared.
check_swap_amount_prefix(text, decimals) ==
  LET validated == adjustDecimals(tostring256(bss.swap.amount), PrintableSize, decimals)
  IN validated.ok /\ Len(text) <= Len(validated.text)
     /\ text = SubSeq(validated.text, 1, Len(text))

check_swap_amount(text, decimals) ==
  LET validated == adjustDecimals(tostring256(bss.swap.amount), PrintableSize, decimals)
  IN validated.ok /\ text = validated.text

swap_check_validity(text, token, action, to) ==
  /\ bss.swap.initialized
  /\ check_swap_amount(text, bss.swap.decimals)
  /\ token = bss.swap.ticker /\ action = "To" /\ to = bss.swap.recipient

\* The verdict on one transaction: TRX or a TRC20 token, by transfer, within
\* the cap, that pays what was validated.  That the answer to it ends the swap is
\* in TronApp; here any number of them may be tried before the end.
SwapValid(tx) ==
  /\ tx.kind \in {"TRX", "TRC20"} /\ (tx.kind = "TRC20" => tx.action = "To")
  /\ tx.kind = "TRC20" \/ ~TooManyDigits(tx.amount)
  /\ AmountText(tx).ok /\ tx.fee_limit <= FeeCap
  /\ swap_check_validity(AmountText(tx).text, tx.token, tx.action, tx.to)

SignTransaction(tx) ==
  /\ mode = "app"
  /\ signed' = IF SwapValid(tx) THEN signed \cup {tx} ELSE signed
  /\ UNCHANGED << mode, bss, asked, reply >>

\* os_lib_end: the globals are no longer the application's.
swap_finalize_exchange_sign_transaction ==
  /\ mode = "app" /\ bss.return_address # NULL
  /\ mode' = "exchange" /\ bss' = NotOurs /\ asked' = NoParameters /\ signed' = {}
  /\ UNCHANGED reply

-----------------------------------------------------------------------------
Init ==
  /\ mode = "exchange"
  /\ bss = NotOurs
  /\ asked = NoParameters
  /\ reply = NoReply
  /\ signed = {}

Next ==
  \/ \E path \in Paths \cup {NULL, "malformed"}, address \in Addresses \cup {NULL},
        extra \in {"empty", "memo", NULL} :
       swap_handle_check_address(path, address, extra)
  \/ \E amount \in Amounts, config \in Configs, is_fee \in BOOLEAN :
       swap_handle_get_printable_amount(amount, config, is_fee)
  \/ \E params \in Parameters, extra \in {"empty", "memo", NULL}, overlap \in BOOLEAN :
       swap_copy_transaction_parameters(params, extra, overlap)
  \/ \E tx \in Transactions : SignTransaction(tx)
  \/ swap_finalize_exchange_sign_transaction

Spec == Init /\ [][Next]_vars

-----------------------------------------------------------------------------
(* The library prints amounts without loss: a printable amount, with its   *)
(* point and without its trailing zeros, reads as exactly the amount it    *)
(* was called for, and it is empty only when the configuration does not    *)
(* parse or the decimals leave no room in the buffer.                      *)
PrintableExact ==
  reply.call = "printable_amount" =>
    IF reply.text = Empty
    THEN reply.currency = Malformed \/ reply.currency.decimals + 3 > PrintableSize
         \/ NumDigits(reply.amount) + 2 > PrintableSize
    ELSE /\ Denotes(reply.text, reply.amount, reply.currency.decimals)
         /\ reply.ticker = reply.currency.ticker
         /\ Len(reply.text) < PrintableSize
         /\ Fraction(reply.text) # Empty => reply.text[Len(reply.text)] # 0

(* What is signed in a swap is what was validated: for every transaction   *)
(* signed the recipient and the ticker are the validated ones, and the     *)
(* amount has the same value although the two were printed by different    *)
(* functions, into different buffers and from different decimals.  A TRC10 *)
(* token is never paid, also one with the ticker of a TRC20 token.         *)
SignedIsValidated ==
  \A tx \in signed :
    /\ tx.kind # "TRC10" /\ tx.to = bss.swap.recipient /\ tx.token = bss.swap.ticker
    /\ tx.action = "To" /\ tx.fee_limit <= FeeCap
    /\ tx.amount * Power(Radix, bss.swap.decimals)
         = bss.swap.amount * Power(Radix, Decimals(tx))

(* No TRX or TRC20 transfer that carries what was validated is refused: a  *)
(* swap of a nonzero amount that print_amount can print does go through.   *)
ValidatedIsSignable ==
  mode = "app" =>
    \A tx \in Transactions :
      /\ tx.kind # "TRC10" /\ tx.to = bss.swap.recipient /\ tx.token = bss.swap.ticker
      /\ tx.action = "To" /\ tx.fee_limit <= FeeCap
      /\ tx.amount = bss.swap.amount /\ Decimals(tx) = bss.swap.decimals
      /\ tx.amount > 0 /\ ~TooManyDigits(tx.amount)
      /\ Decimals(tx) + 3 <= Tmp2Size
      => SwapValid(tx)

(* The application never runs for a swap on globals left by somebody else, *)
(* and what it runs on is what Exchange asked for, also when the parameters *)
(* lay among the globals that were zeroed: the amount, the currency, the   *)
(* recipient and the address of the result are the ones of the call.       *)
RunsOnCleanGlobals ==
  mode = "app" =>
    /\ bss.others = "zero" /\ bss.return_address = "params.result"
    /\ bss.swap = Validated(asked)
=============================================================================
