----------------------------- MODULE TronSchema -----------------------------
(***************************************************************************)
(* The message descriptors nanopb decodes with: the field lists generated  *)
(* into proto/core/Tron.pb.h, proto/core/Contract.pb.h,                    *)
(* proto/google/protobuf/any.pb.h and proto/misc/TronApp.pb.h, for the     *)
(* messages src/parse.c decodes.                                           *)
(*                                                                         *)
(* A descriptor is a sequence of fields in tag order.  A field keeps what  *)
(* the decoder looks at: allocation (atype), repetition (htype), type      *)
(* (ltype), the bits or bytes it can hold (size), the length of its array  *)
(* (count) and the descriptor of a submessage (sub).                       *)
(***************************************************************************)
EXTENDS Integers, Sequences

CONSTANTS
  Bits64,         \* width of int64_t and uint64_t: 64 in the code
  Bits32,         \* width of int32_t and uint32_t: 32
  EnumBits,       \* width of an enum of at most 256 values: 8 (short enums)
  AddressSize,    \* max_size of an address in Contract.options: 21
  OperationsSize, \* max_size of Permission.operations: 32
  AssetNameSize,  \* max_size of TransferAssetContract.asset_name: 16
  TokenIdSize,    \* max_size of an exchange token id: 8
  TokenNameSize,  \* sizeof(TokenDetails.name): 32
  SignatureSize,  \* max_size of a certificate's signature: 72
  MaxVotes,       \* max_count of VoteWitnessContract.votes: 5
  MaxParameters,  \* max_count of ProposalCreateContract.parameters: 10
  MaxKeys,        \* max_count of Permission.keys: 3
  MaxActives,     \* max_count of AccountPermissionUpdateContract.actives: 2
  MaxContracts    \* max_count of Transaction.raw.contract: 1

ASSUME SchemaAssumption ==
  /\ {AddressSize, OperationsSize, AssetNameSize} \subseteq Nat \ {0}
  /\ {TokenIdSize, TokenNameSize, SignatureSize} \subseteq Nat \ {0}
  /\ {MaxVotes, MaxParameters, MaxKeys, MaxActives, MaxContracts} \subseteq Nat \ {0}
  /\ {EnumBits, Bits32, Bits64} \subseteq Nat \ {0} /\ EnumBits <= Bits32 /\ Bits32 < Bits64

-----------------------------------------------------------------------------
(* Kinds of fields: what PB_FIELDINFO makes of a line of a FIELDLIST.      *)

Field(atype, htype, ltype, name, tag, size, count, sub) ==
  [atype |-> atype, htype |-> htype, ltype |-> ltype, name |-> name, tag |-> tag,
   size |-> size, count |-> count, sub |-> sub]

Singular(ltype, name, tag, size) ==
  Field("STATIC", "SINGULAR", ltype, name, tag, size, 1, "")

INT64(name, tag)  == Singular("VARINT", name, tag, Bits64)
INT32(name, tag)  == Singular("VARINT", name, tag, Bits32)
UINT64(name, tag) == Singular("UVARINT", name, tag, Bits64)
UINT32(name, tag) == Singular("UVARINT", name, tag, Bits32)
UENUM(name, tag)  == Singular("UVARINT", name, tag, EnumBits)
BOOL(name, tag)   == Singular("BOOL", name, tag, 1)
BYTES(name, tag, size)  == Singular("BYTES", name, tag, size)
CSTRING(name, tag, size) == Singular("STRING", name, tag, size)
FIXED_LENGTH_BYTES(name, tag, size) == Singular("FIXED_LENGTH_BYTES", name, tag, size)
Address(name, tag) == FIXED_LENGTH_BYTES(name, tag, AddressSize)
OPTIONAL(name, tag, sub) == Field("STATIC", "OPTIONAL", "SUBMESSAGE", name, tag, 0, 1, sub)
REPEATED(name, tag, count, sub) ==
  Field("STATIC", "REPEATED", "SUBMESSAGE", name, tag, 0, count, sub)
CALLBACK(name, tag) == Field("CALLBACK", "SINGULAR", "BYTES", name, tag, 0, 1, "")

-----------------------------------------------------------------------------
(* The transaction envelope.                                               *)

Transaction_raw == <<
  CALLBACK("custom_data", 10), REPEATED("contract", 11, MaxContracts, "Contract"),
  INT64("fee_limit", 18) >>
Transaction_Contract == <<
  UENUM("type", 1), OPTIONAL("parameter", 2, "Any"), CALLBACK("provider", 3),
  CALLBACK("ContractName", 4), INT32("Permission_id", 5) >>
google_protobuf_Any == << CALLBACK("type_url", 1), CALLBACK("value", 2) >>

Key == << Address("address", 1), INT64("weight", 2) >>
Permission == <<
  UENUM("type", 1), INT32("id", 2), CALLBACK("permission_name", 3), INT64("threshold", 4),
  INT32("parent_id", 5), FIXED_LENGTH_BYTES("operations", 6, OperationsSize),
  REPEATED("keys", 7, MaxKeys, "Key") >>

-----------------------------------------------------------------------------
(* The contracts.                                                          *)

owner_address == Address("owner_address", 1)

TransferContract == <<
  owner_address, Address("to_address", 2), INT64("amount", 3) >>
TransferAssetContract == <<
  BYTES("asset_name", 1, AssetNameSize), Address("owner_address", 2),
  Address("to_address", 3), INT64("amount", 4) >>
VoteWitnessContract == << owner_address, REPEATED("votes", 2, MaxVotes, "Vote") >>
VoteWitnessContract_Vote == << Address("vote_address", 1), INT64("vote_count", 2) >>
FreezeBalanceContract == <<
  owner_address, INT64("frozen_balance", 2), INT64("frozen_duration", 3),
  UENUM("resource", 10), Address("receiver_address", 15) >>
UnfreezeBalanceContract == <<
  owner_address, UENUM("resource", 10), Address("receiver_address", 15) >>
FreezeBalanceV2Contract == << owner_address, INT64("frozen_balance", 2), UENUM("resource", 3) >>
UnfreezeBalanceV2Contract ==
  << owner_address, INT64("unfreeze_balance", 2), UENUM("resource", 3) >>
WithdrawExpireUnfreezeContract == << owner_address >>
UnDelegateResourceContract == <<
  owner_address, UENUM("resource", 2), INT64("balance", 3),
  Address("receiver_address", 4) >>
DelegateResourceContract == Append(UnDelegateResourceContract, BOOL("lock", 5))
WithdrawBalanceContract == << owner_address >>
ProposalCreateContract ==
  << owner_address, REPEATED("parameters", 2, MaxParameters, "ParametersEntry") >>
ProposalCreateContract_ParametersEntry == << INT64("key", 1), INT64("value", 2) >>
ProposalApproveContract ==
  << owner_address, INT64("proposal_id", 2), BOOL("is_add_approval", 3) >>
ProposalDeleteContract == << owner_address, INT64("proposal_id", 2) >>
AccountUpdateContract ==
  << CALLBACK("account_name", 1), Address("owner_address", 2) >>
TriggerSmartContract == <<
  owner_address, Address("contract_address", 2), INT64("call_value", 3),
  CALLBACK("data", 4), INT64("call_token_value", 5), INT64("token_id", 6) >>
ExchangeCreateContract == <<
  owner_address, BYTES("first_token_id", 2, TokenIdSize), INT64("first_token_balance", 3),
  BYTES("second_token_id", 4, TokenIdSize), INT64("second_token_balance", 5) >>
ExchangeInjectContract == <<
  owner_address, INT64("exchange_id", 2), BYTES("token_id", 3, TokenIdSize),
  INT64("quant", 4) >>
ExchangeWithdrawContract == ExchangeInjectContract
ExchangeTransactionContract == Append(ExchangeInjectContract, INT64("expected", 5))
AccountPermissionUpdateContract == <<
  owner_address, OPTIONAL("owner", 2, "Permission"), OPTIONAL("witness", 3, "Permission"),
  REPEATED("actives", 4, MaxActives, "Permission") >>

-----------------------------------------------------------------------------
(* The token and exchange certificates of the INS_SIGN name chunks.        *)

TokenDetails == <<
  CSTRING("name", 1, TokenNameSize), UINT32("precision", 2),
  BYTES("signature", 3, SignatureSize) >>
ExchangeDetails == <<
  UINT64("exchangeId", 1), CSTRING("token1Id", 2, TokenIdSize),
  CSTRING("token1Name", 3, TokenNameSize), UINT32("token1Precision", 4),
  CSTRING("token2Id", 5, TokenIdSize), CSTRING("token2Name", 6, TokenNameSize),
  UINT32("token2Precision", 7), BYTES("signature", 8, SignatureSize) >>

-----------------------------------------------------------------------------
(* PB_BIND: the descriptor of every message, by name.                      *)

Schema == [
  Transaction_raw |-> Transaction_raw, Contract |-> Transaction_Contract,
  Any |-> google_protobuf_Any, Key |-> Key, Permission |-> Permission,
  TransferContract |-> TransferContract, TransferAssetContract |-> TransferAssetContract,
  VoteWitnessContract |-> VoteWitnessContract, Vote |-> VoteWitnessContract_Vote,
  FreezeBalanceContract |-> FreezeBalanceContract,
  UnfreezeBalanceContract |-> UnfreezeBalanceContract,
  FreezeBalanceV2Contract |-> FreezeBalanceV2Contract,
  UnfreezeBalanceV2Contract |-> UnfreezeBalanceV2Contract,
  WithdrawExpireUnfreezeContract |-> WithdrawExpireUnfreezeContract,
  DelegateResourceContract |-> DelegateResourceContract,
  UnDelegateResourceContract |-> UnDelegateResourceContract,
  WithdrawBalanceContract |-> WithdrawBalanceContract,
  ProposalCreateContract |-> ProposalCreateContract,
  ParametersEntry |-> ProposalCreateContract_ParametersEntry,
  ProposalApproveContract |-> ProposalApproveContract,
  ProposalDeleteContract |-> ProposalDeleteContract,
  AccountUpdateContract |-> AccountUpdateContract,
  TriggerSmartContract |-> TriggerSmartContract,
  ExchangeCreateContract |-> ExchangeCreateContract,
  ExchangeInjectContract |-> ExchangeInjectContract,
  ExchangeWithdrawContract |-> ExchangeWithdrawContract,
  ExchangeTransactionContract |-> ExchangeTransactionContract,
  AccountPermissionUpdateContract |-> AccountPermissionUpdateContract,
  TokenDetails |-> TokenDetails, ExchangeDetails |-> ExchangeDetails ]

Messages == DOMAIN Schema

(* The values of Contract.type processTx has a parser for; it refuses the  *)
(* other ones.                                                             *)
ContractType == [
  TransferContract |-> 1, TransferAssetContract |-> 2, VoteWitnessContract |-> 4,
  AccountUpdateContract |-> 10, FreezeBalanceContract |-> 11, UnfreezeBalanceContract |-> 12,
  WithdrawBalanceContract |-> 13, ProposalCreateContract |-> 16,
  ProposalApproveContract |-> 17, ProposalDeleteContract |-> 18, TriggerSmartContract |-> 31,
  ExchangeCreateContract |-> 41, ExchangeInjectContract |-> 42,
  ExchangeWithdrawContract |-> 43, ExchangeTransactionContract |-> 44,
  AccountPermissionUpdateContract |-> 46, FreezeBalanceV2Contract |-> 54,
  UnfreezeBalanceV2Contract |-> 55, WithdrawExpireUnfreezeContract |-> 56,
  DelegateResourceContract |-> 57, UnDelegateResourceContract |-> 58 ]

Parsed(type) == \E c \in DOMAIN ContractType : ContractType[c] = type
ContractOf(type) == CHOOSE c \in DOMAIN ContractType : ContractType[c] = type
=============================================================================
