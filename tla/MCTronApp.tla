------------------------------ MODULE MCTronApp ------------------------------
(***************************************************************************)
(* Small instances of TronApp: the chunks, metadata, keys and addresses    *)
(* the runs choose from.  An int64 is -8 .. 7 here, a uint64 0 .. 15, and  *)
(* print_amount throws from 10 on, so -1 is an amount that cannot be       *)
(* printed and -7 a negative one that can.                                 *)
(***************************************************************************)
EXTENDS TronAppOracle

\* Two of the identifiers are cut short by NULs, and a 9 may be left behind.
MCTokenIds == {"1000001", "1000002", "TRX0000", "_000000"}
MCTextOf == [field \in [bytes : MCTokenIds, behind : {"", "9"}] |->
    CASE field = [bytes |-> "1000001", behind |-> "9"] -> "10000019"
      [] field = [bytes |-> "1000002", behind |-> "9"] -> "10000029"
      [] field.bytes = "TRX0000" -> "TRX"
      [] field.bytes = "_000000" -> "_"
      [] OTHER -> field.bytes]
MCCertifiedIds == {"1000001", "1000002", "_"}
MCTRC20Tokens == [usdt |-> [ticker |-> "USDT", decimals |-> 1]]
MCLongNames == {"an overlong name"}

Addresses == {ZeroAddress, "alice", "bob", "carol", "witness", "usdt", "dapp"}
MCContactOf == [a \in Addresses |->
    CASE a = "bob" -> "Bob" [] a = "alice" -> "Me" [] OTHER -> NoName]
MCServiceOf == [a \in Addresses |->
    CASE a = "carol" -> "Carol's exchange" [] OTHER -> NoName]

MCPaths == {"m/0", "m/1"}
OnePath == {"m/0"}
MCKeyAddress == [p \in MCPaths |-> IF p = "m/0" THEN "alice" ELSE "carol"]
MCPeers == [peer |-> "bob"]
NoPeers == [p \in {} |-> ZeroAddress]

\* Between two reviews, transactionContext.hash and peer, messageSigningContext712,
\* publicKeyContext and the last answer are written again before they are read:
\* states that differ only in them behave alike.
View ==
    <<settings, session, personal_msg_ctx, contacts, review, swap, flow,
      transactionContext.path,
      IF Reviewing THEN <<transactionContext, messageSigningContext712, publicKeyContext, out>>
      ELSE <<>>>>

-----------------------------------------------------------------------------
(* Contract messages: a zero message with some fields set.                 *)

Id(bytes) == [bytes |-> bytes, behind |-> ""]
NoCall == [present |-> FALSE, selector |-> "0", size |-> FALSE, to |-> ZeroAddress, amount |-> 0]
Zero ==
    [ ok |-> TRUE, owner |-> "alice", to |-> ZeroAddress, amount |-> 0, amount2 |-> 0,
      token |-> Id("_"), token2 |-> Id("_"), id |-> 0, resource |-> 0, lock |-> FALSE,
      duration |-> 0, votes |-> <<>>, parameters |-> 0, contract |-> ZeroAddress,
      data |-> NoCall, callTokenValue |-> 0, callTokenId |-> 0,
      permissions |-> NoPermissions ]

Raw == [len |-> 1, ok |-> TRUE, fee_limit |-> 0, data |-> NoData, contract |-> <<>>]
Bearing(type, permission_id, m) ==
    [Raw EXCEPT !.contract = <<[type |-> type, permission_id |-> permission_id,
                                value |-> TRUE, m |-> m]>>]
Of(type, m) == Bearing(type, 0, m)

Pay(to, amount) == [Zero EXCEPT !.to = to, !.amount = amount]
Call(contract, selector, to, amount) ==
    [Zero EXCEPT !.contract = contract,
                 !.data = [present |-> TRUE, selector |-> selector, size |-> TRUE,
                           to |-> to, amount |-> amount]]
Vote(a, n) == [address |-> a, count |-> n]
Entry(threshold, keys) == [threshold |-> threshold, keys |-> keys, operations |-> "ops"]
Key(a, w) == [address |-> a, weight |-> w]

FullEntry == Entry(2, <<Key("alice", 1), Key("bob", 1), Key("carol", 1)>>)

Transfer == Of("TRANSFERCONTRACT", Pay("bob", 3))
Unprinted == Of("TRANSFERCONTRACT", Pay("carol", -1))
Inject == Of("EXCHANGEINJECTCONTRACT", [Zero EXCEPT !.token = Id("1000001"), !.id = 1, !.amount = 2])
Fee(n) == [Raw EXCEPT !.fee_limit = n]
Data(n) == [Raw EXCEPT !.data = n]
Undecodable == [Raw EXCEPT !.ok = FALSE]

\* Every contract type of the parser, and what each extractor and gate tells apart.
AllContracts ==
    { Transfer, Unprinted, Inject,
      Of("TRANSFERCONTRACT", Pay("carol", -7)),
      Bearing("TRANSFERCONTRACT", 2, Pay("carol", 1)),
      Bearing("TRANSFERCONTRACT", 10, Pay("carol", 1)),
      [Transfer EXCEPT !.contract[1].value = FALSE],
      [Transfer EXCEPT !.contract[1].m.ok = FALSE],
      Of("SHIELDEDTRANSFERCONTRACT", Zero),
      Of("TRANSFERASSETCONTRACT", [Pay("bob", 2) EXCEPT !.token = Id("1000001")]),
      Of("TRANSFERASSETCONTRACT", [Pay("bob", 2) EXCEPT !.token = Id("too long")]),
      Of("TRANSFERASSETCONTRACT", [Pay("bob", 2) EXCEPT !.token = Id("TRX0000")]),
      Of("TRANSFERASSETCONTRACT", [Pay("bob", 2) EXCEPT !.token = [Id("1000001") EXCEPT !.behind = "9"]]),
      Of("VOTEWITNESSCONTRACT",
         [Zero EXCEPT !.votes = <<Vote("witness", 7), Vote("carol", 1)>>]),
      Of("VOTEWITNESSCONTRACT", [Zero EXCEPT !.votes = <<Vote("witness", 0)>>]),
      Of("VOTEWITNESSCONTRACT", [Zero EXCEPT !.votes = [i \in 1..3 |-> Vote("witness", 7)]]),
      Of("VOTEWITNESSCONTRACT", [Zero EXCEPT !.votes = [i \in 1..6 |-> Vote("witness", 1)]]),
      Of("FREEZEBALANCECONTRACT", [Pay("carol", 2) EXCEPT !.duration = 3, !.resource = 1]),
      Of("FREEZEBALANCECONTRACT", [Pay(ZeroAddress, 2) EXCEPT !.duration = 3]),
      Of("FREEZEBALANCECONTRACT", [Pay("bob", 2) EXCEPT !.duration = 4]),
      Of("UNFREEZEBALANCECONTRACT", Pay("bob", 0)),
      Of("FREEZEBALANCEV2CONTRACT", Pay(ZeroAddress, 2)),
      Of("UNFREEZEBALANCEV2CONTRACT", [Pay(ZeroAddress, 2) EXCEPT !.resource = 1]),
      Of("WITHDRAWEXPIREUNFREEZECONTRACT", Zero),
      Of("DELEGATERESOURCECONTRACT", [Pay("carol", 2) EXCEPT !.lock = TRUE]),
      Of("UNDELEGATERESOURCECONTRACT", Pay("bob", 4)),
      Of("WITHDRAWBALANCECONTRACT", Zero),
      Of("PROPOSALCREATECONTRACT", [Zero EXCEPT !.parameters = 2]),
      Of("PROPOSALAPPROVECONTRACT", Zero),
      Of("PROPOSALDELETECONTRACT", [Zero EXCEPT !.id = 4]),
      Of("ACCOUNTUPDATECONTRACT", Zero),
      Of("TRIGGERSMARTCONTRACT", Call("usdt", "a9059cbb", "carol", 20)),
      Of("TRIGGERSMARTCONTRACT", Call("usdt", "095ea7b3", "bob", 5)),
      Of("TRIGGERSMARTCONTRACT", [Call("usdt", "a9059cbb", "bob", 5) EXCEPT !.amount = 1]),
      Of("TRIGGERSMARTCONTRACT", [Call("usdt", "a9059cbb", "bob", 5) EXCEPT !.callTokenValue = 2]),
      Of("TRIGGERSMARTCONTRACT", [Call("usdt", "a9059cbb", "bob", 5) EXCEPT !.data.size = FALSE]),
      Of("TRIGGERSMARTCONTRACT", Call("dapp", "a9059cbb", "bob", 5)),
      Of("TRIGGERSMARTCONTRACT", [Zero EXCEPT !.contract = "dapp", !.amount = 4]),
      Of("TRIGGERSMARTCONTRACT", [Call("usdt", "c0ffee00", "bob", 5) EXCEPT
                                      !.callTokenValue = 2, !.callTokenId = 7]),
      Of("TRIGGERSMARTCONTRACT", [Call("dapp", "c0ffee00", "bob", 5) EXCEPT
                                      !.amount = 1, !.callTokenValue = 2]),
      Of("EXCHANGECREATECONTRACT",
         [Zero EXCEPT !.token = Id("1000001"), !.amount = 1, !.token2 = Id("1000002"), !.amount2 = 3]),
      Of("EXCHANGECREATECONTRACT", [Zero EXCEPT !.token = Id("1000001"), !.amount = 2]),
      Of("EXCHANGEWITHDRAWCONTRACT", [Zero EXCEPT !.token = Id("1000002"), !.id = 1, !.amount = 2]),
      Of("EXCHANGETRANSACTIONCONTRACT",
         [Zero EXCEPT !.token = Id("1000001"), !.id = 1, !.amount = 2, !.amount2 = 4]),
      Of("EXCHANGETRANSACTIONCONTRACT", [Zero EXCEPT !.token = Id("too long")]),
      Of("EXCHANGEINJECTCONTRACT", [Zero EXCEPT !.token = Id("_000000"), !.id = 1, !.amount = 2]),
      Of("ACCOUNTPERMISSIONUPDATECONTRACT",
         [Zero EXCEPT !.permissions =
            [owner |-> <<Entry(1, <<Key("alice", 1)>>)>>, witness |-> <<>>,
             actives |-> <<Entry(2, <<Key("bob", 1), Key("carol", 1)>>),
                           Entry(1, <<Key("carol", 1)>>)>>]]),
      Of("ACCOUNTPERMISSIONUPDATECONTRACT",
         [Zero EXCEPT !.permissions =
            [owner |-> <<FullEntry>>, witness |-> <<FullEntry>>,
             actives |-> <<FullEntry, FullEntry>>]]),
      Of("ACCOUNTPERMISSIONUPDATECONTRACT",
         [Zero EXCEPT !.permissions =
            [owner |-> <<>>, witness |-> <<>>,
             actives |-> [i \in 1..3 |-> Entry(i, <<Key("bob", 1)>>)]]]),
      Of("ACCOUNTPERMISSIONUPDATECONTRACT",
         [Zero EXCEPT !.permissions.owner =
            <<Entry(1, [i \in 1..4 |-> Key("bob", i)])>>]),
      Of("ACCOUNTPERMISSIONUPDATECONTRACT", Zero) }

NoChunks == {}
\* With a fee limit on the calls, one that is not printable too.
ContractsChunks ==
    AllContracts \cup {Data(2)}
    \cup {[k EXCEPT !.fee_limit = n] :
              k \in {x \in AllContracts : x.contract[1].type = "TRIGGERSMARTCONTRACT"},
              n \in {3, -1}}

Details(id, name, precision) == [id |-> id, name |-> name, precision |-> precision]
Named(id, name, precision) ==
    [ok |-> TRUE, id |-> id, name |-> name, precision |-> precision]
AllTokenMeta ==
    { Named("1000001", "Alpha", 2), Named("1000002", "Beta", 0),
      Named("1000002", "an overlong name", 1), Named("1000001", "Alpha", 19),
      [Named("1000001", "Alpha", 2) EXCEPT !.ok = FALSE] }

Pair(first, second) ==
    [ok |-> TRUE, exchangeId |-> 1, signed |-> TRUE, first |-> first, second |-> second]
AllExchangeMeta ==
    LET pair == Pair(Details("1000001", "Alpha", 2), Details("1000002", "Beta", 0))
    IN  { pair,
          [pair EXCEPT !.exchangeId = 2],
          [pair EXCEPT !.signed = FALSE],
          [pair EXCEPT !.ok = FALSE],
          Pair(Details("1000002", "Beta", 0), Details("1000001", "Alpha", 19)),
          Pair(Details("_", "TRX", 6), Details("1000002", "Beta", 0)) }

-----------------------------------------------------------------------------
(* Sessions of several chunks: two contracts, two fee limits (one that     *)
(* cannot be printed), data with a size and without.                       *)
CustomCall == Of("TRIGGERSMARTCONTRACT", Call("dapp", "c0ffee00", "bob", 5))
SessionChunks == {Transfer, CustomCall, Fee(3), Fee(-1), Data(2), Data(0), Undecodable}

\* Commands of every kind around a transfer to a contact, a contract whose
\* toAddress is not an address and a review behind two warnings.
FlowChunks == {Transfer, Inject, [CustomCall EXCEPT !.data = 2]}
SequentialChunks == {Transfer, Data(2), Data(0)}

\* A permission update with data.
DocumentChunks ==
    {[Of("ACCOUNTPERMISSIONUPDATECONTRACT",
         [Zero EXCEPT !.permissions.owner = <<Entry(1, <<Key("alice", 1)>>)>>])
        EXCEPT !.data = 2]}

-----------------------------------------------------------------------------
(* Swap.  With six decimals, 3 sun is 0.000003 TRX.                        *)
WithFee(chunk, n) == [chunk EXCEPT !.fee_limit = n]
TokenPay(to, amount) == Of("TRIGGERSMARTCONTRACT", Call("usdt", "a9059cbb", to, amount))
SwapChunks ==
    { Transfer, Of("TRANSFERCONTRACT", Pay("carol", 3)), Of("TRANSFERCONTRACT", Pay("bob", 4)),
      Of("TRANSFERCONTRACT", Pay("bob", 0)), Unprinted,
      Bearing("TRANSFERCONTRACT", 2, Pay("bob", 3)), Bearing("TRANSFERCONTRACT", 10, Pay("bob", 3)),
      [Transfer EXCEPT !.data = 2], [Transfer EXCEPT !.data = 0],
      TokenPay("bob", 3), TokenPay("bob", 30), TokenPay("carol", 3),
      WithFee(TokenPay("bob", 3), 5), WithFee(TokenPay("bob", 3), 6),
      WithFee(TokenPay("bob", 3), -1),
      Of("TRIGGERSMARTCONTRACT", [Call("usdt", "a9059cbb", "bob", 3) EXCEPT !.amount = 1]),
      Of("TRIGGERSMARTCONTRACT", Call("usdt", "095ea7b3", "bob", 3)),
      CustomCall, Inject, Fee(3), Data(2), Undecodable }

Validated(amount, decimals, ticker) ==
    [initialized |-> TRUE, amount |-> amount, decimals |-> decimals, ticker |-> ticker,
     recipient |-> "bob"]
MCValidatedSwaps ==
    { NoSwap, Validated(3, SUN_DIG, "TRX"), Validated(0, SUN_DIG, "TRX"),
      Validated(3, 1, "USDT"), Validated(300, 3, "USDT"), Validated(3, 0, "USDT") }
=============================================================================
