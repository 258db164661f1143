--------------------------- MODULE PbDecodeProofs ---------------------------
(***************************************************************************)
(* Theorems about the protobuf decoder, for every chunk and every size of  *)
(* the constants: its type invariant, that the substreams nest, that the   *)
(* arrays of the structs are never overrun, and which number a varint is.  *)
(***************************************************************************)
EXTENDS PbDecode, InductionLemmas, SequenceTheorems

-----------------------------------------------------------------------------
(* The descriptors.                                                        *)

\* The messages an optional field and an array can hold.
OptionalMessages == {"Any", "Permission"}
ElementMessages == {"Contract", "Key", "Permission", "Vote", "ParametersEntry"}

\* A field the decoder can decode.
GoodField(f) ==
  /\ f.atype \in {"STATIC", "CALLBACK"} /\ f.htype \in {"SINGULAR", "OPTIONAL", "REPEATED"}
  /\ f.tag \in Nat \ {0} /\ f.count \in Nat \ {0}
  /\ f.htype # "SINGULAR" <=> f.ltype = "SUBMESSAGE"
  /\ f.htype = "OPTIONAL" => f.sub \in OptionalMessages
  /\ f.htype = "REPEATED" => f.sub \in ElementMessages
  /\ f.htype = "SINGULAR" /\ f.atype = "STATIC" =>
       f.ltype \in {"BOOL", "VARINT", "UVARINT", "BYTES", "STRING", "FIXED_LENGTH_BYTES"}

\* Its tags ascend, as pb_field_iter_find relies on, and its names differ.
GoodDescriptor(fields) ==
  /\ DOMAIN fields = 1 .. Len(fields) /\ Len(fields) \in Nat \ {0}
  /\ \A i \in DOMAIN fields : GoodField(fields[i])
  /\ \A i, j \in DOMAIN fields : i < j => fields[i].tag < fields[j].tag
  /\ \A i, j \in DOMAIN fields : fields[i].name = fields[j].name => i = j

IsField(f, name, tag) == GoodField(f) /\ f.name = name /\ f.tag = tag

\* What PB_FIELDINFO makes of a line without a submessage.
LEMMA SimpleField ==
  ASSUME NEW name, NEW tag \in Nat \ {0}
  PROVE  /\ IsField(INT64(name, tag), name, tag)
         /\ IsField(INT32(name, tag), name, tag)
         /\ IsField(UINT64(name, tag), name, tag)
         /\ IsField(UINT32(name, tag), name, tag)
         /\ IsField(UENUM(name, tag), name, tag)
         /\ IsField(BOOL(name, tag), name, tag)
         /\ IsField(CALLBACK(name, tag), name, tag)
         /\ IsField(Address(name, tag), name, tag)
  BY DEF IsField, GoodField, Field, Singular, INT64, INT32, UINT64, UINT32, UENUM, BOOL,
         CALLBACK, Address, FIXED_LENGTH_BYTES

\* Of one with a size.
LEMMA SizedField ==
  ASSUME NEW name, NEW tag \in Nat \ {0}, NEW size
  PROVE  /\ IsField(BYTES(name, tag, size), name, tag)
         /\ IsField(CSTRING(name, tag, size), name, tag)
         /\ IsField(FIXED_LENGTH_BYTES(name, tag, size), name, tag)
  BY DEF IsField, GoodField, Field, Singular, BYTES, CSTRING, FIXED_LENGTH_BYTES

\* Of an optional submessage.
LEMMA OptionalField ==
  ASSUME NEW name, NEW tag \in Nat \ {0}, NEW sub \in OptionalMessages
  PROVE  IsField(OPTIONAL(name, tag, sub), name, tag)
  BY DEF IsField, GoodField, Field, OPTIONAL

\* And of an array of them.
LEMMA RepeatedField ==
  ASSUME NEW name, NEW tag \in Nat \ {0}, NEW count \in Nat \ {0}, NEW sub \in ElementMessages
  PROVE  IsField(REPEATED(name, tag, count, sub), name, tag)
  BY DEF IsField, GoodField, Field, REPEATED

\* A descriptor of one field.
LEMMA OneFields ==
  ASSUME NEW a,
         GoodField(a)
  PROVE  GoodDescriptor(<< a >>)
  <1> DEFINE s == << a >>
  <1>1. /\ DOMAIN s = 1 .. 1 /\ Len(s) = 1
        /\ s[1] = a
    OBVIOUS
  <1> HIDE DEF s
  <1>2. \A i \in DOMAIN s : i \in {1}
    BY <1>1
  <1> QED
    BY <1>1, <1>2 DEF GoodDescriptor

\* A descriptor of two fields.
LEMMA TwoFields ==
  ASSUME NEW a, NEW b,
         GoodField(a), GoodField(b),
         a.tag < b.tag,
         a.name # b.name
  PROVE  GoodDescriptor(<< a, b >>)
  <1> DEFINE s == << a, b >>
  <1>1. /\ DOMAIN s = 1 .. 2 /\ Len(s) = 2
        /\ s[1] = a /\ s[2] = b
    OBVIOUS
  <1> HIDE DEF s
  <1>2. \A i \in DOMAIN s : i \in {1, 2}
    BY <1>1
  <1> QED
    BY <1>1, <1>2 DEF GoodDescriptor

\* A descriptor of three fields.
LEMMA ThreeFields ==
  ASSUME NEW a, NEW b, NEW c,
         GoodField(a), GoodField(b), GoodField(c),
         a.tag < b.tag, b.tag < c.tag,
         a.name # b.name, a.name # c.name, b.name # c.name
  PROVE  GoodDescriptor(<< a, b, c >>)
  <1> DEFINE s == << a, b, c >>
  <1>1. /\ DOMAIN s = 1 .. 3 /\ Len(s) = 3
        /\ s[1] = a /\ s[2] = b /\ s[3] = c
    OBVIOUS
  <1> HIDE DEF s
  <1>2. \A i \in DOMAIN s : i \in {1, 2, 3}
    BY <1>1
  <1>3. a.tag < b.tag /\ a.tag < c.tag /\ b.tag < c.tag
    BY DEF GoodField
  <1> QED
    BY <1>1, <1>2, <1>3 DEF GoodDescriptor

\* A descriptor of four fields.
LEMMA FourFields ==
  ASSUME NEW a, NEW b, NEW c, NEW d,
         GoodField(a), GoodField(b), GoodField(c), GoodField(d),
         a.tag < b.tag, b.tag < c.tag, c.tag < d.tag,
         a.name # b.name, a.name # c.name, a.name # d.name, b.name # c.name,
         b.name # d.name, c.name # d.name
  PROVE  GoodDescriptor(<< a, b, c, d >>)
  <1> DEFINE s == << a, b, c, d >>
  <1>1. /\ DOMAIN s = 1 .. 4 /\ Len(s) = 4
        /\ s[1] = a /\ s[2] = b /\ s[3] = c /\ s[4] = d
    OBVIOUS
  <1> HIDE DEF s
  <1>2. \A i \in DOMAIN s : i \in {1, 2, 3, 4}
    BY <1>1
  <1>3. /\ a.tag < b.tag /\ a.tag < c.tag /\ a.tag < d.tag /\ b.tag < c.tag
        /\ b.tag < d.tag /\ c.tag < d.tag
    BY DEF GoodField
  <1> QED
    BY <1>1, <1>2, <1>3 DEF GoodDescriptor

\* A descriptor of five fields.
LEMMA FiveFields ==
  ASSUME NEW a, NEW b, NEW c, NEW d, NEW e,
         GoodField(a), GoodField(b), GoodField(c), GoodField(d), GoodField(e),
         a.tag < b.tag, b.tag < c.tag, c.tag < d.tag, d.tag < e.tag,
         a.name # b.name, a.name # c.name, a.name # d.name, a.name # e.name,
         b.name # c.name, b.name # d.name, b.name # e.name, c.name # d.name,
         c.name # e.name, d.name # e.name
  PROVE  GoodDescriptor(<< a, b, c, d, e >>)
  <1> DEFINE s == << a, b, c, d, e >>
  <1>1. /\ DOMAIN s = 1 .. 5 /\ Len(s) = 5
        /\ s[1] = a /\ s[2] = b /\ s[3] = c /\ s[4] = d /\ s[5] = e
    OBVIOUS
  <1> HIDE DEF s
  <1>2. \A i \in DOMAIN s : i \in {1, 2, 3, 4, 5}
    BY <1>1
  <1>3. /\ a.tag < b.tag /\ a.tag < c.tag /\ a.tag < d.tag /\ a.tag < e.tag
        /\ b.tag < c.tag /\ b.tag < d.tag /\ b.tag < e.tag /\ c.tag < d.tag
        /\ c.tag < e.tag /\ d.tag < e.tag
    BY DEF GoodField
  <1>4. \A i, j \in DOMAIN s : i < j => s[i].tag < s[j].tag
    BY <1>1, <1>2, <1>3
  <1>5. \A i, j \in DOMAIN s : s[i].name = s[j].name => i = j
    BY <1>1, <1>2
  <1>6. \A i \in DOMAIN s : GoodField(s[i])
    BY <1>1, <1>2
  <1> QED
    BY <1>1, <1>4, <1>5, <1>6 DEF GoodDescriptor

\* A descriptor of six fields.
LEMMA SixFields ==
  ASSUME NEW a, NEW b, NEW c, NEW d, NEW e, NEW f,
         GoodField(a), GoodField(b), GoodField(c), GoodField(d), GoodField(e),
         GoodField(f),
         a.tag < b.tag, b.tag < c.tag, c.tag < d.tag, d.tag < e.tag, e.tag < f.tag,
         a.name # b.name, a.name # c.name, a.name # d.name, a.name # e.name,
         a.name # f.name, b.name # c.name, b.name # d.name, b.name # e.name,
         b.name # f.name, c.name # d.name, c.name # e.name, c.name # f.name,
         d.name # e.name, d.name # f.name, e.name # f.name
  PROVE  GoodDescriptor(<< a, b, c, d, e, f >>)
  <1> DEFINE s == << a, b, c, d, e, f >>
  <1>1. /\ DOMAIN s = 1 .. 6 /\ Len(s) = 6
        /\ s[1] = a /\ s[2] = b /\ s[3] = c /\ s[4] = d /\ s[5] = e /\ s[6] = f
    OBVIOUS
  <1> HIDE DEF s
  <1>2. \A i \in DOMAIN s : i \in {1, 2, 3, 4, 5, 6}
    BY <1>1
  <1>3. /\ a.tag < b.tag /\ a.tag < c.tag /\ a.tag < d.tag /\ a.tag < e.tag
        /\ a.tag < f.tag /\ b.tag < c.tag /\ b.tag < d.tag /\ b.tag < e.tag
        /\ b.tag < f.tag /\ c.tag < d.tag /\ c.tag < e.tag /\ c.tag < f.tag
        /\ d.tag < e.tag /\ d.tag < f.tag /\ e.tag < f.tag
    BY DEF GoodField
  <1>4. \A i, j \in DOMAIN s : i < j => s[i].tag < s[j].tag
    BY <1>1, <1>2, <1>3
  <1>5. \A i, j \in DOMAIN s : s[i].name = s[j].name => i = j
    BY <1>1, <1>2
  <1>6. \A i \in DOMAIN s : GoodField(s[i])
    BY <1>1, <1>2
  <1> QED
    BY <1>1, <1>4, <1>5, <1>6 DEF GoodDescriptor

\* A descriptor of seven fields.
LEMMA SevenFields ==
  ASSUME NEW a, NEW b, NEW c, NEW d, NEW e, NEW f, NEW g,
         GoodField(a), GoodField(b), GoodField(c), GoodField(d), GoodField(e),
         GoodField(f), GoodField(g),
         a.tag < b.tag, b.tag < c.tag, c.tag < d.tag, d.tag < e.tag, e.tag < f.tag,
         f.tag < g.tag,
         a.name # b.name, a.name # c.name, a.name # d.name, a.name # e.name,
         a.name # f.name, a.name # g.name, b.name # c.name, b.name # d.name,
         b.name # e.name, b.name # f.name, b.name # g.name, c.name # d.name,
         c.name # e.name, c.name # f.name, c.name # g.name, d.name # e.name,
         d.name # f.name, d.name # g.name, e.name # f.name, e.name # g.name,
         f.name # g.name
  PROVE  GoodDescriptor(<< a, b, c, d, e, f, g >>)
  <1> DEFINE s == << a, b, c, d, e, f, g >>
  <1>1. /\ DOMAIN s = 1 .. 7 /\ Len(s) = 7
        /\ s[1] = a /\ s[2] = b /\ s[3] = c
        /\ s[4] = d /\ s[5] = e /\ s[6] = f /\ s[7] = g
    OBVIOUS
  <1> HIDE DEF s
  <1>2. \A i \in DOMAIN s : i \in {1, 2, 3, 4, 5, 6, 7}
    BY <1>1
  <1>3. /\ a.tag < b.tag /\ a.tag < c.tag /\ a.tag < d.tag /\ a.tag < e.tag
        /\ a.tag < f.tag /\ a.tag < g.tag /\ b.tag < c.tag /\ b.tag < d.tag
        /\ b.tag < e.tag /\ b.tag < f.tag /\ b.tag < g.tag /\ c.tag < d.tag
        /\ c.tag < e.tag /\ c.tag < f.tag /\ c.tag < g.tag /\ d.tag < e.tag
        /\ d.tag < f.tag /\ d.tag < g.tag /\ e.tag < f.tag /\ e.tag < g.tag
        /\ f.tag < g.tag
    BY DEF GoodField
  <1>4. \A i, j \in DOMAIN s : i < j => s[i].tag < s[j].tag
    BY <1>1, <1>2, <1>3
  <1>5. \A i, j \in DOMAIN s : s[i].name = s[j].name => i = j
    BY <1>1, <1>2
  <1>6. \A i \in DOMAIN s : GoodField(s[i])
    BY <1>1, <1>2
  <1> QED
    BY <1>1, <1>4, <1>5, <1>6 DEF GoodDescriptor

\* A descriptor of eight fields.
LEMMA EightFields ==
  ASSUME NEW a, NEW b, NEW c, NEW d, NEW e, NEW f, NEW g, NEW h,
         GoodField(a), GoodField(b), GoodField(c), GoodField(d), GoodField(e),
         GoodField(f), GoodField(g), GoodField(h),
         a.tag < b.tag, b.tag < c.tag, c.tag < d.tag, d.tag < e.tag, e.tag < f.tag,
         f.tag < g.tag, g.tag < h.tag,
         a.name # b.name, a.name # c.name, a.name # d.name, a.name # e.name,
         a.name # f.name, a.name # g.name, a.name # h.name, b.name # c.name,
         b.name # d.name, b.name # e.name, b.name # f.name, b.name # g.name,
         b.name # h.name, c.name # d.name, c.name # e.name, c.name # f.name,
         c.name # g.name, c.name # h.name, d.name # e.name, d.name # f.name,
         d.name # g.name, d.name # h.name, e.name # f.name, e.name # g.name,
         e.name # h.name, f.name # g.name, f.name # h.name, g.name # h.name
  PROVE  GoodDescriptor(<< a, b, c, d, e, f, g, h >>)
  <1> DEFINE s == << a, b, c, d, e, f, g, h >>
  <1>1. /\ DOMAIN s = 1 .. 8 /\ Len(s) = 8
        /\ s[1] = a /\ s[2] = b /\ s[3] = c /\ s[4] = d
        /\ s[5] = e /\ s[6] = f /\ s[7] = g /\ s[8] = h
    OBVIOUS
  <1> HIDE DEF s
  <1>2. \A i \in DOMAIN s : i \in {1, 2, 3, 4, 5, 6, 7, 8}
    BY <1>1
  <1>3. /\ a.tag < b.tag /\ a.tag < c.tag /\ a.tag < d.tag /\ a.tag < e.tag
        /\ a.tag < f.tag /\ a.tag < g.tag /\ a.tag < h.tag /\ b.tag < c.tag
        /\ b.tag < d.tag /\ b.tag < e.tag /\ b.tag < f.tag /\ b.tag < g.tag
        /\ b.tag < h.tag /\ c.tag < d.tag /\ c.tag < e.tag /\ c.tag < f.tag
        /\ c.tag < g.tag /\ c.tag < h.tag /\ d.tag < e.tag /\ d.tag < f.tag
        /\ d.tag < g.tag /\ d.tag < h.tag /\ e.tag < f.tag /\ e.tag < g.tag
        /\ e.tag < h.tag /\ f.tag < g.tag /\ f.tag < h.tag /\ g.tag < h.tag
    BY DEF GoodField
  <1>4. \A i, j \in DOMAIN s : i < j => s[i].tag < s[j].tag
    BY <1>1, <1>2, <1>3
  <1>5. \A i, j \in DOMAIN s : s[i].name = s[j].name => i = j
    BY <1>1, <1>2
  <1>6. \A i \in DOMAIN s : GoodField(s[i])
    BY <1>1, <1>2
  <1> QED
    BY <1>1, <1>4, <1>5, <1>6 DEF GoodDescriptor

\* The fifth field is appended to four.
LEMMA FifthField ==
  ASSUME NEW a, NEW b, NEW c, NEW d, NEW e
  PROVE  Append(<< a, b, c, d >>, e) = << a, b, c, d, e >>
  <1> DEFINE s == << a, b, c, d >>
             t == Append(s, e)
             u == << a, b, c, d, e >>
  <1>1. s \in Seq({a, b, c, d, e}) /\ Len(s) = 4
    OBVIOUS
  <1>2. t \in Seq({a, b, c, d, e}) /\ Len(t) = 5
        /\ t[1] = a /\ t[2] = b /\ t[3] = c /\ t[4] = d /\ t[5] = e
    BY <1>1
  <1>3. u \in Seq({a, b, c, d, e}) /\ Len(u) = 5
        /\ u[1] = a /\ u[2] = b /\ u[3] = c /\ u[4] = d /\ u[5] = e
    OBVIOUS
  <1> HIDE DEF t, u
  <1>4. \A i \in 1 .. 5 : t[i] = u[i]
    BY <1>2, <1>3
  <1>5. t = u
    BY <1>2, <1>3, <1>4, SeqEqual
  <1> QED
    BY <1>5 DEF t, u

-----------------------------------------------------------------------------
\* Every descriptor is good.
LEMMA Descriptors == \A m \in Messages : GoodDescriptor(Schema[m])
  <1>0. "Any" \in OptionalMessages /\ "Permission" \in OptionalMessages
        /\ {"Contract", "Key", "Permission", "Vote", "ParametersEntry"} = ElementMessages
        /\ {MaxVotes, MaxParameters, MaxKeys, MaxActives, MaxContracts} \subseteq Nat \ {0}
    BY SchemaAssumption DEF OptionalMessages, ElementMessages
  <1>1. GoodDescriptor(Transaction_raw)
    <2>1. IsField(CALLBACK("custom_data", 10), "custom_data", 10)
      BY SimpleField
    <2>2. IsField(REPEATED("contract", 11, MaxContracts, "Contract"), "contract", 11)
      BY <1>0, RepeatedField
    <2>3. IsField(INT64("fee_limit", 18), "fee_limit", 18)
      BY SimpleField
    <2> QED
      BY <2>1, <2>2, <2>3, ThreeFields
         DEF IsField, Transaction_raw
  <1>2. GoodDescriptor(Transaction_Contract)
    <2>1. IsField(UENUM("type", 1), "type", 1)
      BY SimpleField
    <2>2. IsField(OPTIONAL("parameter", 2, "Any"), "parameter", 2)
      BY <1>0, OptionalField
    <2>3. IsField(CALLBACK("provider", 3), "provider", 3)
      BY SimpleField
    <2>4. IsField(CALLBACK("ContractName", 4), "ContractName", 4)
      BY SimpleField
    <2>5. IsField(INT32("Permission_id", 5), "Permission_id", 5)
      BY SimpleField
    <2> QED
      BY <2>1, <2>2, <2>3, <2>4, <2>5, FiveFields
         DEF IsField, Transaction_Contract
  <1>3. GoodDescriptor(google_protobuf_Any)
    BY SimpleField, TwoFields DEF IsField, google_protobuf_Any
  <1>4. GoodDescriptor(Key)
    BY SimpleField, TwoFields DEF IsField, Key
  <1>5. GoodDescriptor(Permission)
    <2>1. IsField(UENUM("type", 1), "type", 1)
      BY SimpleField
    <2>2. IsField(INT32("id", 2), "id", 2)
      BY SimpleField
    <2>3. IsField(CALLBACK("permission_name", 3), "permission_name", 3)
      BY SimpleField
    <2>4. IsField(INT64("threshold", 4), "threshold", 4)
      BY SimpleField
    <2>5. IsField(INT32("parent_id", 5), "parent_id", 5)
      BY SimpleField
    <2>6. IsField(FIXED_LENGTH_BYTES("operations", 6, OperationsSize), "operations", 6)
      BY SizedField
    <2>7. IsField(REPEATED("keys", 7, MaxKeys, "Key"), "keys", 7)
      BY <1>0, RepeatedField
    <2> QED
      BY <2>1, <2>2, <2>3, <2>4, <2>5, <2>6, <2>7, SevenFields
         DEF IsField, Permission
  <1>6. GoodDescriptor(TransferContract)
    BY SimpleField, ThreeFields DEF IsField, TransferContract, owner_address
  <1>7. GoodDescriptor(TransferAssetContract)
    <2>1. IsField(BYTES("asset_name", 1, AssetNameSize), "asset_name", 1)
      BY SizedField
    <2>2. IsField(Address("owner_address", 2), "owner_address", 2)
      BY SimpleField
    <2>3. IsField(Address("to_address", 3), "to_address", 3)
      BY SimpleField
    <2>4. IsField(INT64("amount", 4), "amount", 4)
      BY SimpleField
    <2> QED
      BY <2>1, <2>2, <2>3, <2>4, FourFields
         DEF IsField, TransferAssetContract
  <1>8. GoodDescriptor(VoteWitnessContract)
    <2>1. IsField(Address("owner_address", 1), "owner_address", 1)
      BY SimpleField
    <2>2. IsField(REPEATED("votes", 2, MaxVotes, "Vote"), "votes", 2)
      BY <1>0, RepeatedField
    <2> QED
      BY <2>1, <2>2, TwoFields
         DEF IsField, VoteWitnessContract, owner_address
  <1>9. GoodDescriptor(VoteWitnessContract_Vote)
    BY SimpleField, TwoFields DEF IsField, VoteWitnessContract_Vote
  <1>10. GoodDescriptor(FreezeBalanceContract)
    <2>1. IsField(Address("owner_address", 1), "owner_address", 1)
      BY SimpleField
    <2>2. IsField(INT64("frozen_balance", 2), "frozen_balance", 2)
      BY SimpleField
    <2>3. IsField(INT64("frozen_duration", 3), "frozen_duration", 3)
      BY SimpleField
    <2>4. IsField(UENUM("resource", 10), "resource", 10)
      BY SimpleField
    <2>5. IsField(Address("receiver_address", 15), "receiver_address", 15)
      BY SimpleField
    <2> QED
      BY <2>1, <2>2, <2>3, <2>4, <2>5, FiveFields
         DEF IsField, FreezeBalanceContract, owner_address
  <1>11. GoodDescriptor(UnfreezeBalanceContract)
    BY SimpleField, ThreeFields DEF IsField, UnfreezeBalanceContract, owner_address
  <1>12. GoodDescriptor(FreezeBalanceV2Contract)
    BY SimpleField, ThreeFields DEF IsField, FreezeBalanceV2Contract, owner_address
  <1>13. GoodDescriptor(UnfreezeBalanceV2Contract)
    BY SimpleField, ThreeFields DEF IsField, UnfreezeBalanceV2Contract, owner_address
  <1>14. GoodDescriptor(WithdrawExpireUnfreezeContract)
    BY SimpleField, OneFields DEF IsField, WithdrawExpireUnfreezeContract, owner_address
  <1>15. GoodDescriptor(DelegateResourceContract)
    <2>1. IsField(Address("owner_address", 1), "owner_address", 1)
      BY SimpleField
    <2>2. IsField(UENUM("resource", 2), "resource", 2)
      BY SimpleField
    <2>3. IsField(INT64("balance", 3), "balance", 3)
      BY SimpleField
    <2>4. IsField(Address("receiver_address", 4), "receiver_address", 4)
      BY SimpleField
    <2>5. IsField(BOOL("lock", 5), "lock", 5)
      BY SimpleField
    <2>6. DelegateResourceContract =
            << Address("owner_address", 1),
               UENUM("resource", 2),
               INT64("balance", 3),
               Address("receiver_address", 4),
               BOOL("lock", 5) >>
      BY FifthField DEF DelegateResourceContract, UnDelegateResourceContract, owner_address
    <2> QED
      BY <2>1, <2>2, <2>3, <2>4, <2>5, <2>6, FiveFields
         DEF IsField
  <1>16. GoodDescriptor(UnDelegateResourceContract)
    <2>1. IsField(Address("owner_address", 1), "owner_address", 1)
      BY SimpleField
    <2>2. IsField(UENUM("resource", 2), "resource", 2)
      BY SimpleField
    <2>3. IsField(INT64("balance", 3), "balance", 3)
      BY SimpleField
    <2>4. IsField(Address("receiver_address", 4), "receiver_address", 4)
      BY SimpleField
    <2> QED
      BY <2>1, <2>2, <2>3, <2>4, FourFields
         DEF IsField, UnDelegateResourceContract, owner_address
  <1>17. GoodDescriptor(WithdrawBalanceContract)
    BY SimpleField, OneFields DEF IsField, WithdrawBalanceContract, owner_address
  <1>18. GoodDescriptor(ProposalCreateContract)
    <2>1. IsField(Address("owner_address", 1), "owner_address", 1)
      BY SimpleField
    <2>2. IsField(REPEATED("parameters", 2, MaxParameters, "ParametersEntry"), "parameters", 2)
      BY <1>0, RepeatedField
    <2> QED
      BY <2>1, <2>2, TwoFields
         DEF IsField, ProposalCreateContract, owner_address
  <1>19. GoodDescriptor(ProposalCreateContract_ParametersEntry)
    BY SimpleField, TwoFields DEF IsField, ProposalCreateContract_ParametersEntry
  <1>20. GoodDescriptor(ProposalApproveContract)
    BY SimpleField, ThreeFields DEF IsField, ProposalApproveContract, owner_address
  <1>21. GoodDescriptor(ProposalDeleteContract)
    BY SimpleField, TwoFields DEF IsField, ProposalDeleteContract, owner_address
  <1>22. GoodDescriptor(AccountUpdateContract)
    BY SimpleField, TwoFields DEF IsField, AccountUpdateContract
  <1>23. GoodDescriptor(TriggerSmartContract)
    <2>1. IsField(Address("owner_address", 1), "owner_address", 1)
      BY SimpleField
    <2>2. IsField(Address("contract_address", 2), "contract_address", 2)
      BY SimpleField
    <2>3. IsField(INT64("call_value", 3), "call_value", 3)
      BY SimpleField
    <2>4. IsField(CALLBACK("data", 4), "data", 4)
      BY SimpleField
    <2>5. IsField(INT64("call_token_value", 5), "call_token_value", 5)
      BY SimpleField
    <2>6. IsField(INT64("token_id", 6), "token_id", 6)
      BY SimpleField
    <2> QED
      BY <2>1, <2>2, <2>3, <2>4, <2>5, <2>6, SixFields
         DEF IsField, TriggerSmartContract, owner_address
  <1>24. GoodDescriptor(ExchangeCreateContract)
    <2>1. IsField(Address("owner_address", 1), "owner_address", 1)
      BY SimpleField
    <2>2. IsField(BYTES("first_token_id", 2, TokenIdSize), "first_token_id", 2)
      BY SizedField
    <2>3. IsField(INT64("first_token_balance", 3), "first_token_balance", 3)
      BY SimpleField
    <2>4. IsField(BYTES("second_token_id", 4, TokenIdSize), "second_token_id", 4)
      BY SizedField
    <2>5. IsField(INT64("second_token_balance", 5), "second_token_balance", 5)
      BY SimpleField
    <2> QED
      BY <2>1, <2>2, <2>3, <2>4, <2>5, FiveFields
         DEF IsField, ExchangeCreateContract, owner_address
  <1>25. GoodDescriptor(ExchangeInjectContract)
    <2>1. IsField(Address("owner_address", 1), "owner_address", 1)
      BY SimpleField
    <2>2. IsField(INT64("exchange_id", 2), "exchange_id", 2)
      BY SimpleField
    <2>3. IsField(BYTES("token_id", 3, TokenIdSize), "token_id", 3)
      BY SizedField
    <2>4. IsField(INT64("quant", 4), "quant", 4)
      BY SimpleField
    <2> QED
      BY <2>1, <2>2, <2>3, <2>4, FourFields
         DEF IsField, ExchangeInjectContract, owner_address
  <1>26. GoodDescriptor(ExchangeWithdrawContract)
    <2>1. IsField(Address("owner_address", 1), "owner_address", 1)
      BY SimpleField
    <2>2. IsField(INT64("exchange_id", 2), "exchange_id", 2)
      BY SimpleField
    <2>3. IsField(BYTES("token_id", 3, TokenIdSize), "token_id", 3)
      BY SizedField
    <2>4. IsField(INT64("quant", 4), "quant", 4)
      BY SimpleField
    <2> QED
      BY <2>1, <2>2, <2>3, <2>4, FourFields
         DEF IsField, ExchangeWithdrawContract, ExchangeInjectContract, owner_address
  <1>27. GoodDescriptor(ExchangeTransactionContract)
    <2>1. IsField(Address("owner_address", 1), "owner_address", 1)
      BY SimpleField
    <2>2. IsField(INT64("exchange_id", 2), "exchange_id", 2)
      BY SimpleField
    <2>3. IsField(BYTES("token_id", 3, TokenIdSize), "token_id", 3)
      BY SizedField
    <2>4. IsField(INT64("quant", 4), "quant", 4)
      BY SimpleField
    <2>5. IsField(INT64("expected", 5), "expected", 5)
      BY SimpleField
    <2>6. ExchangeTransactionContract =
            << Address("owner_address", 1),
               INT64("exchange_id", 2),
               BYTES("token_id", 3, TokenIdSize),
               INT64("quant", 4),
               INT64("expected", 5) >>
      BY FifthField DEF ExchangeTransactionContract, ExchangeInjectContract, owner_address
    <2> QED
      BY <2>1, <2>2, <2>3, <2>4, <2>5, <2>6, FiveFields
         DEF IsField
  <1>28. GoodDescriptor(AccountPermissionUpdateContract)
    <2>1. IsField(Address("owner_address", 1), "owner_address", 1)
      BY SimpleField
    <2>2. IsField(OPTIONAL("owner", 2, "Permission"), "owner", 2)
      BY <1>0, OptionalField
    <2>3. IsField(OPTIONAL("witness", 3, "Permission"), "witness", 3)
      BY <1>0, OptionalField
    <2>4. IsField(REPEATED("actives", 4, MaxActives, "Permission"), "actives", 4)
      BY <1>0, RepeatedField
    <2> QED
      BY <2>1, <2>2, <2>3, <2>4, FourFields
         DEF IsField, AccountPermissionUpdateContract, owner_address
  <1>29. GoodDescriptor(TokenDetails)
    <2>1. IsField(CSTRING("name", 1, TokenNameSize), "name", 1)
      BY SizedField
    <2>2. IsField(UINT32("precision", 2), "precision", 2)
      BY SimpleField
    <2>3. IsField(BYTES("signature", 3, SignatureSize), "signature", 3)
      BY SizedField
    <2> QED
      BY <2>1, <2>2, <2>3, ThreeFields
         DEF IsField, TokenDetails
  <1>30. GoodDescriptor(ExchangeDetails)
    <2>1. IsField(UINT64("exchangeId", 1), "exchangeId", 1)
      BY SimpleField
    <2>2. IsField(CSTRING("token1Id", 2, TokenIdSize), "token1Id", 2)
      BY SizedField
    <2>3. IsField(CSTRING("token1Name", 3, TokenNameSize), "token1Name", 3)
      BY SizedField
    <2>4. IsField(UINT32("token1Precision", 4), "token1Precision", 4)
      BY SimpleField
    <2>5. IsField(CSTRING("token2Id", 5, TokenIdSize), "token2Id", 5)
      BY SizedField
    <2>6. IsField(CSTRING("token2Name", 6, TokenNameSize), "token2Name", 6)
      BY SizedField
    <2>7. IsField(UINT32("token2Precision", 7), "token2Precision", 7)
      BY SimpleField
    <2>8. IsField(BYTES("signature", 8, SignatureSize), "signature", 8)
      BY SizedField
    <2> QED
      BY <2>1, <2>2, <2>3, <2>4, <2>5, <2>6, <2>7, <2>8, EightFields
         DEF IsField, ExchangeDetails
  <1> QED
    BY <1>1, <1>2, <1>3, <1>4, <1>5, <1>6, <1>7, <1>8, <1>9, <1>10, <1>11, <1>12,
       <1>13, <1>14, <1>15, <1>16, <1>17, <1>18, <1>19, <1>20, <1>21, <1>22, <1>23,
       <1>24, <1>25, <1>26, <1>27, <1>28, <1>29, <1>30
       DEF Messages, Schema

\* The submessages are messages; an optional one has no optional one in it.
LEMMA Submessages ==
  /\ OptionalMessages \cup ElementMessages \subseteq Messages
  /\ \A m \in OptionalMessages : \A i \in DOMAIN Schema[m] : Schema[m][i].htype # "OPTIONAL"
  <1>1. OptionalMessages \cup ElementMessages \subseteq Messages
    BY DEF OptionalMessages, ElementMessages, Messages, Schema
  <1>2. \A i \in DOMAIN google_protobuf_Any : google_protobuf_Any[i].htype # "OPTIONAL"
    <2> DEFINE s == google_protobuf_Any
    <2>1. DOMAIN s = 1 .. 2 /\ s[1].htype = "SINGULAR" /\ s[2].htype = "SINGULAR"
      <3>1. /\ CALLBACK("type_url", 1).htype = "SINGULAR"
            /\ CALLBACK("value", 2).htype = "SINGULAR"
        BY DEF CALLBACK, Field
      <3> QED
        BY <3>1 DEF google_protobuf_Any
    <2> HIDE DEF s
    <2>2. \A i \in DOMAIN s : i \in {1, 2}
      BY <2>1
    <2>3. \A i \in DOMAIN s : s[i].htype # "OPTIONAL"
      BY <2>1, <2>2
    <2> QED
      BY <2>3 DEF s
  <1>3. \A i \in DOMAIN Permission : Permission[i].htype # "OPTIONAL"
    <2> DEFINE s == Permission
    <2>1. /\ DOMAIN s = 1 .. 7 /\ s[7].htype = "REPEATED"
          /\ s[1].htype = "SINGULAR" /\ s[2].htype = "SINGULAR" /\ s[3].htype = "SINGULAR"
          /\ s[4].htype = "SINGULAR" /\ s[5].htype = "SINGULAR" /\ s[6].htype = "SINGULAR"
      <3>1. /\ UENUM("type", 1).htype = "SINGULAR" /\ INT32("id", 2).htype = "SINGULAR"
            /\ CALLBACK("permission_name", 3).htype = "SINGULAR"
            /\ INT64("threshold", 4).htype = "SINGULAR"
            /\ INT32("parent_id", 5).htype = "SINGULAR"
            /\ FIXED_LENGTH_BYTES("operations", 6, OperationsSize).htype = "SINGULAR"
            /\ REPEATED("keys", 7, MaxKeys, "Key").htype = "REPEATED"
        BY DEF UENUM, INT32, INT64, CALLBACK, FIXED_LENGTH_BYTES, REPEATED, Singular, Field
      <3> QED
        BY <3>1 DEF Permission
    <2> HIDE DEF s
    <2>2. \A i \in DOMAIN s : i \in {1, 2, 3, 4, 5, 6, 7}
      BY <2>1
    <2>3. \A i \in DOMAIN s : s[i].htype # "OPTIONAL"
      BY <2>1, <2>2
    <2> QED
      BY <2>3 DEF s
  <1>4. Schema["Any"] = google_protobuf_Any /\ Schema["Permission"] = Permission
    BY DEF Schema
  <1> QED
    BY <1>1, <1>2, <1>3, <1>4 DEF OptionalMessages

\* processTx decodes a contract it knows as a message of the schema.
LEMMA ContractsAreMessages ==
  ASSUME NEW type, Parsed(type)
  PROVE  ContractOf(type) \in Messages
  <1>1. DOMAIN ContractType \subseteq Messages
    BY DEF ContractType, Messages, Schema
  <1>2. ContractOf(type) \in DOMAIN ContractType
    BY DEF Parsed, ContractOf
  <1> QED
    BY <1>1, <1>2

Names(m) == {f.name : f \in Static(Schema[m])}

\* A static field is found by its name.
LEMMA StaticFields ==
  ASSUME NEW m \in Messages
  PROVE  /\ \A f \in Static(Schema[m]) :
              /\ GoodField(f) /\ f.name \in Names(m) /\ FieldNamed(Schema[m], f.name) = f
              /\ f.atype = "STATIC" /\ \E i \in DOMAIN Schema[m] : f = Schema[m][i]
         /\ \A i \in DOMAIN Schema[m] :
              Schema[m][i].atype = "STATIC" => Schema[m][i] \in Static(Schema[m])
         /\ \A f, g \in Static(Schema[m]) : f.name = g.name => f = g
         /\ \A n \in Names(m) : FieldNamed(Schema[m], n) \in Static(Schema[m])
  <1>1. GoodDescriptor(Schema[m])
    BY Descriptors
  <1>2. \A f \in Static(Schema[m]) :
          /\ GoodField(f) /\ f.atype = "STATIC"
          /\ \E i \in DOMAIN Schema[m] : f = Schema[m][i]
    BY <1>1 DEF Static, Range, GoodDescriptor
  <1>3. \A f, g \in Static(Schema[m]) : f.name = g.name => f = g
    BY <1>1, <1>2 DEF GoodDescriptor
  <1>4. \A f \in Static(Schema[m]) : FieldNamed(Schema[m], f.name) = f
    BY <1>3 DEF FieldNamed
  <1>5. \A i \in DOMAIN Schema[m] :
          Schema[m][i].atype = "STATIC" => Schema[m][i] \in Static(Schema[m])
    BY DEF Static, Range
  <1>6. \A n \in Names(m) : FieldNamed(Schema[m], n) \in Static(Schema[m])
    BY DEF FieldNamed, Names
  <1> QED
    BY <1>2, <1>3, <1>4, <1>5, <1>6 DEF Names

-----------------------------------------------------------------------------
(* The default values.                                                     *)

DefaultOf(defaults, f) == pb_field_set_to_default(f, defaults[f.sub])

DefaultsOf(defaults) ==
  [m \in Messages |-> [n \in Names(m) |-> DefaultOf(defaults, FieldNamed(Schema[m], n))]]

\* pb_message_set_to_defaults is defined: an optional submessage holds no other.
LEMMA Defaults == pb_message_set_to_defaults = DefaultsOf(pb_message_set_to_defaults)
  <1> DEFINE once == DefaultsOf([m \in Messages |-> 0])
             twice == DefaultsOf(once)
  <1>1. ASSUME NEW g, NEW h, NEW f, f.htype # "OPTIONAL"
        PROVE  DefaultOf(g, f) = DefaultOf(h, f)
    BY <1>1 DEF DefaultOf, pb_field_set_to_default
  <1>2. ASSUME NEW m \in OptionalMessages
        PROVE  once[m] = twice[m]
    <2>1. m \in Messages /\ \A f \in Static(Schema[m]) : f.htype # "OPTIONAL"
      BY Submessages, StaticFields
    <2>2. \A n \in Names(m) : FieldNamed(Schema[m], n).htype # "OPTIONAL"
      BY <2>1, StaticFields
    <2> QED
      BY <1>1, <2>1, <2>2 DEF DefaultsOf
  <1>3. ASSUME NEW f, GoodField(f) PROVE DefaultOf(once, f) = DefaultOf(twice, f)
    <2>1. CASE f.htype = "OPTIONAL"
      <3>1. f.sub \in OptionalMessages
        BY <1>3, <2>1 DEF GoodField
      <3>2. once[f.sub] = twice[f.sub]
        BY <1>2, <3>1
      <3> HIDE DEF once, twice
      <3> QED
        BY <2>1, <3>2 DEF DefaultOf
    <2> QED
      BY <1>1, <2>1
  <1>4. twice = DefaultsOf(twice)
    <2>1. \A m \in Messages : \A n \in Names(m) :
            DefaultOf(once, FieldNamed(Schema[m], n))
              = DefaultOf(twice, FieldNamed(Schema[m], n))
      BY <1>3, StaticFields
    <2> HIDE DEF once
    <2>2. twice = [m \in Messages |->
                     [n \in Names(m) |-> DefaultOf(twice, FieldNamed(Schema[m], n))]]
      <3> HIDE DEF twice
      <3>1. twice = [m \in Messages |->
                     [n \in Names(m) |-> DefaultOf(once, FieldNamed(Schema[m], n))]]
        BY DEF twice, DefaultsOf
      <3> QED
        BY <2>1, <3>1
    <2> HIDE DEF twice
    <2> QED
      BY <2>2 DEF DefaultsOf
  <1> DEFINE Is(d) == d = DefaultsOf(d)
  <1>5. \E d : Is(d)
    BY <1>4
  <1>6. pb_message_set_to_defaults = CHOOSE d : Is(d)
    BY DEF pb_message_set_to_defaults, DefaultsOf, DefaultOf, Names
  <1> HIDE DEF Is
  <1>7. Is(pb_message_set_to_defaults)
    BY <1>5, <1>6
  <1> QED
    BY <1>7 DEF Is

-----------------------------------------------------------------------------
(* The structs.                                                            *)

Listed(s) == s \in Seq(Range(s))

\* The arrays of a struct hold no more than their max_count, ...
ArraysHold(m, val) ==
  /\ DOMAIN val = Names(m)
  /\ \A f \in Static(Schema[m]) :
       f.htype = "REPEATED" => Listed(val[f.name]) /\ Len(val[f.name]) <= f.count

\* ... also those of an optional submessage, which may be decoded again.
StructHolds(m, val) ==
  /\ ArraysHold(m, val)
  /\ \A f \in Static(Schema[m]) :
       f.htype = "OPTIONAL" => ArraysHold(f.sub, val[f.name].val)

\* An array that got one more element.
LEMMA OneMore ==
  ASSUME NEW s, Listed(s), NEW e
  PROVE  Listed(Append(s, e)) /\ Len(Append(s, e)) = Len(s) + 1 /\ Len(s) \in Nat
  <1> DEFINE all == Range(s) \cup {e}
             t == Append(s, e)
  <1>1. s \in Seq(all) /\ e \in all
    BY DEF Listed
  <1>2. t \in Seq(all) /\ Len(t) = Len(s) + 1 /\ Len(s) \in Nat
    BY <1>1
  <1>3. t \in Seq(Range(t))
    <2> HIDE DEF t, all
    <2> QED
      BY <1>2 DEF Range
  <1> QED
    BY <1>2, <1>3 DEF Listed

\* The default struct has empty arrays.
LEMMA DefaultStruct ==
  ASSUME NEW m \in Messages
  PROVE  StructHolds(m, pb_message_set_to_defaults[m])
  <1> DEFINE d == pb_message_set_to_defaults
  <1>1. ASSUME NEW k \in Messages
        PROVE  /\ DOMAIN d[k] = Names(k)
               /\ \A f \in Static(Schema[k]) :
                    d[k][f.name] = pb_field_set_to_default(f, d[f.sub])
    <2>1. d[k] = [n \in Names(k) |-> DefaultOf(d, FieldNamed(Schema[k], n))]
      BY Defaults DEF DefaultsOf
    <2> HIDE DEF d
    <2> QED
      BY <2>1, StaticFields DEF DefaultOf
  <1> HIDE DEF d
  <1>2. Listed(<< >>) /\ Len(<< >>) = 0
    BY DEF Listed
  <1>3. ASSUME NEW k \in Messages PROVE ArraysHold(k, d[k])
    <2>1. ASSUME NEW f \in Static(Schema[k]), f.htype = "REPEATED"
          PROVE  Listed(d[k][f.name]) /\ Len(d[k][f.name]) <= f.count
      <3>1. d[k][f.name] = << >>
        <4>1. f.ltype = "SUBMESSAGE"
          BY <2>1, StaticFields DEF GoodField
        <4> QED
          BY <1>1, <2>1, <4>1 DEF pb_field_set_to_default
      <3>2. f.count \in Nat
        BY StaticFields DEF GoodField
      <3> QED
        BY <1>2, <3>1, <3>2
    <2> QED
      BY <1>1, <2>1 DEF ArraysHold
  <1>4. ASSUME NEW f \in Static(Schema[m]), f.htype = "OPTIONAL"
        PROVE  ArraysHold(f.sub, d[m][f.name].val)
    <2>1. d[m][f.name].val = d[f.sub]
      <3>1. f.ltype = "SUBMESSAGE"
        BY <1>4, StaticFields DEF GoodField
      <3>2. \A x : pb_field_set_to_default(f, x) = [has |-> FALSE, val |-> x]
        BY <1>4, <3>1 DEF pb_field_set_to_default
      <3>3. d[m][f.name] = [has |-> FALSE, val |-> d[f.sub]]
        BY <1>1, <3>2
      <3> QED
        BY <3>3
    <2>2. f.sub \in Messages
      BY <1>4, StaticFields, Submessages DEF GoodField
    <2> QED
      BY <1>3, <2>1, <2>2
  <1> QED
    BY <1>3, <1>4 DEF StructHolds, d

\* A scalar field has no part in it.
LEMMA StoreScalar ==
  ASSUME NEW m \in Messages, NEW val, StructHolds(m, val),
         NEW f \in Static(Schema[m]), f.htype = "SINGULAR", NEW x
  PROVE  StructHolds(m, [val EXCEPT ![f.name] = x])
  <1> DEFINE w == [val EXCEPT ![f.name] = x]
  <1>1. \A g \in Static(Schema[m]) : g.htype # "SINGULAR" => g.name # f.name
    BY StaticFields
  <1>2. DOMAIN w = Names(m) /\ \A n \in Names(m) : n # f.name => w[n] = val[n]
    BY DEF StructHolds, ArraysHold
  <1>3. \A g \in Static(Schema[m]) : g.htype # "SINGULAR" => w[g.name] = val[g.name]
    BY <1>1, <1>2, StaticFields
  <1> HIDE DEF w
  <1>4. StructHolds(m, w)
    BY <1>2, <1>3 DEF StructHolds, ArraysHold
  <1> QED
    BY <1>4 DEF w

\* A submessage is stored when there is a slot for it.
LEMMA StoreMessage ==
  ASSUME NEW m \in Messages, NEW val, StructHolds(m, val),
         NEW f \in Static(Schema[m]), f.htype # "SINGULAR",
         NEW sub, StructHolds(f.sub, sub),
         NEW x, x = IF f.htype = "REPEATED" THEN Append(val[f.name], sub)
                    ELSE [has |-> TRUE, val |-> sub],
         f.htype = "REPEATED" => Len(val[f.name]) + 1 <= f.count
  PROVE  StructHolds(m, [val EXCEPT ![f.name] = x])
  <1> DEFINE w == [val EXCEPT ![f.name] = x]
  <1>1. \A g \in Static(Schema[m]) : g # f => g.name # f.name
    BY StaticFields
  <1>2. /\ DOMAIN w = Names(m) /\ f.name \in Names(m) /\ w[f.name] = x
        /\ \A n \in Names(m) : n # f.name => w[n] = val[n]
    BY StaticFields DEF StructHolds, ArraysHold
  <1>3. \A g \in Static(Schema[m]) : g # f => w[g.name] = val[g.name]
    BY <1>1, <1>2, StaticFields
  <1> HIDE DEF w
  <1>4. ASSUME f.htype = "REPEATED" PROVE Listed(w[f.name]) /\ Len(w[f.name]) <= f.count
    <2>1. Listed(val[f.name])
      BY <1>4 DEF StructHolds, ArraysHold
    <2> QED
      BY <1>2, <1>4, <2>1, OneMore
  <1>5. ArraysHold(m, w)
    <2>1. ASSUME NEW g \in Static(Schema[m]), g.htype = "REPEATED"
          PROVE  Listed(w[g.name]) /\ Len(w[g.name]) <= g.count
      BY <1>3, <1>4, <2>1 DEF StructHolds, ArraysHold
    <2> QED
      BY <1>2, <2>1 DEF ArraysHold
  <1>6. ASSUME NEW g \in Static(Schema[m]), g.htype = "OPTIONAL"
        PROVE  ArraysHold(g.sub, w[g.name].val)
    <2>1. CASE g = f
      <3>1. w[g.name].val = sub
        BY <1>2, <1>6, <2>1
      <3> QED
        BY <2>1, <3>1 DEF StructHolds
    <2>2. CASE g # f
      BY <1>3, <1>6, <2>2 DEF StructHolds
    <2> QED
      BY <2>1, <2>2
  <1>7. StructHolds(m, w)
    BY <1>5, <1>6 DEF StructHolds
  <1> QED
    BY <1>7 DEF w

-----------------------------------------------------------------------------
(* Streams.                                                                *)

Chunk == buf \in Seq(Nat)
IsStream(s) == s.pos \in Nat /\ s.left \in Nat /\ s.pos + s.left <= Len(buf)

\* t goes on where s is, to the same end.
Onward(s, t) == IsStream(t) /\ s.pos <= t.pos /\ t.pos + t.left = s.pos + s.left

\* pb_read stays in its stream.
LEMMA ReadOnward ==
  ASSUME Chunk, NEW s, IsStream(s), NEW count \in Nat, pb_read(s, count).ok
  PROVE  Onward(s, pb_read(s, count).s) /\ pb_read(s, count).val \in Seq(Nat)
  <1>1. ~(s.left < count)
    BY DEF pb_read, Failed
  <1>2. pb_read(s, count) =
          Ok(SubSeq(buf, s.pos + 1, s.pos + count), Stream(s.pos + count, s.left - count))
    BY <1>1 DEF pb_read
  <1>3. s.pos + count <= Len(buf) /\ s.pos \in Nat
    BY <1>1 DEF IsStream
  <1>4. SubSeq(buf, s.pos + 1, s.pos + count) \in Seq(Nat)
    <2>1. s.pos + 1 \in Int /\ s.pos + count \in Int
      BY <1>3
    <2>2. \A i \in s.pos + 1 .. s.pos + count : buf[i] \in Nat
      BY <1>3 DEF Chunk
    <2> QED
      BY <2>1, <2>2, SubSeqProperties
  <1>5. Onward(s, Stream(s.pos + count, s.left - count))
    BY <1>1 DEF Onward, IsStream, Stream
  <1> QED
    BY <1>2, <1>4, <1>5 DEF Ok

\* A varint has a size: up to its first byte without a continuation bit.
LEMMA SizeOfVarint ==
  ASSUME Chunk, NEW s, IsStream(s)
  PROVE  /\ VarintSize(s) \in 1 .. s.left + 1
         /\ VarintSize(s) = s.left + 1 \/ ~Continues(buf[s.pos + VarintSize(s)])
         /\ \A k \in 1 .. VarintSize(s) - 1 : Continues(buf[s.pos + k])
  <1> DEFINE ends == {n \in 1 .. s.left + 1 : n = s.left + 1 \/ ~Continues(buf[s.pos + n])}
  <1>1. ends \in SUBSET Nat /\ s.left + 1 \in ends
    BY DEF IsStream
  <1>2. PICK n \in ends : \A j \in ends : n <= j
    <2> HIDE DEF ends
    <2> QED
      BY <1>1, LeastNatural
  <1>3. \A k \in 1 .. n - 1 : Continues(buf[s.pos + k])
    <2> SUFFICES ASSUME NEW k \in 1 .. n - 1, ~Continues(buf[s.pos + k]) PROVE FALSE
      OBVIOUS
    <2>1. k \in ends
      BY DEF IsStream
    <2> QED
      BY <1>1, <1>2, <2>1
  <1> DEFINE Ends(k) == /\ k = s.left + 1 \/ ~Continues(buf[s.pos + k])
                        /\ \A j \in 1 .. k - 1 : Continues(buf[s.pos + j])
  <1>4. n \in 1 .. s.left + 1 /\ Ends(n)
    BY <1>2, <1>3
  <1>5. VarintSize(s) = CHOOSE k \in 1 .. s.left + 1 : Ends(k)
    BY DEF VarintSize
  <1> HIDE DEF Ends
  <1>6. VarintSize(s) \in 1 .. s.left + 1 /\ Ends(VarintSize(s))
    BY <1>4, <1>5
  <1> QED
    BY <1>6 DEF Ends

\* The smaller of two numbers.
LEMMA SmallerOfTwo ==
  ASSUME NEW a \in Nat, NEW b \in Nat
  PROVE  Min({a, b}) \in {a, b} /\ Min({a, b}) <= a /\ Min({a, b}) <= b
  <1>1. \E x \in {a, b} : \A y \in {a, b} : x <= y
    OBVIOUS
  <1> QED
    BY <1>1 DEF Min

\* A turn of a varint loop: the state it leaves.
Turned == [state : {"more", "done", "overflow"}, result : Nat, bitpos : Nat, n : Nat]
Widths == {Bits32, Bits64}

\* The widths are numbers, and the greater is the second one.
LEMMA WidthsAreNumbers ==
  /\ Bits32 \in Nat /\ Bits64 \in Nat /\ GroupBits \in Nat
  /\ Bits32 < Bits64 /\ Bits32 # Bits64 /\ GroupBits > 0 /\ Bits32 > 0
  /\ \A width \in Widths : width \in Nat /\ (width = Bits32 \/ width = Bits64)
  <1>1. Bits32 \in Nat \ {0} /\ Bits64 \in Nat \ {0} /\ Bits32 < Bits64
    BY SchemaAssumption
  <1>2. GroupBits \in Nat \ {0}
    BY DecodeAssumption
  <1>3. Bits32 # Bits64
    BY <1>1
  <1> QED
    BY <1>1, <1>2, <1>3 DEF Widths

\* A shifted number is a natural one.
LEMMA Shifted ==
  ASSUME NEW x \in Nat, NEW n \in Nat, NEW width \in Nat
  PROVE  ShiftLeft(x, n, width) \in Nat
  <1>1. CASE n >= width
    BY <1>1 DEF ShiftLeft
  <1>2. CASE n < width
    <2> DEFINE p == Power(2, width - n)
               q == Power(2, n)
    <2>1. p \in Nat \ {0} /\ q \in Nat
      BY <1>2, PowerPositive
    <2>2. ShiftLeft(x, n, width) = (x % p) * q
      BY <1>2 DEF ShiftLeft
    <2> HIDE DEF p, q
    <2>3. x % p \in Nat
      BY <2>1
    <2>4. (x % p) * q \in Nat
      BY <2>1, <2>3
    <2> QED
      BY <2>2, <2>4
  <1> QED
    BY <1>1, <1>2

\* So are the payload bits of a byte.
LEMMA PayloadBits ==
  ASSUME NEW b \in Nat
  PROVE  Payload(b) \in Nat
  <1>1. Power(2, GroupBits) \in Nat \ {0}
    <2>1. GroupBits \in Nat /\ 2 \in Nat \ {0}
      BY DecodeAssumption
    <2> QED
      BY <2>1, PowerPositive
  <1> QED
    BY <1>1 DEF Payload

\* A turn counts the byte it took, and no other.
LEMMA TurnCounts ==
  ASSUME NEW width \in Widths, NEW v \in Turned, NEW b \in Nat
  PROVE  Turn(width, v, b) \in Turned /\ Turn(width, v, b).n <= v.n + 1
  <1>1. Bits32 \in Nat /\ Bits64 \in Nat /\ Bits32 # Bits64 /\ GroupBits \in Nat
    BY WidthsAreNumbers
  <1> DEFINE shifted(w) == ShiftLeft(Payload(b), v.bitpos, w)
  <1>2. v.bitpos \in Nat /\ v.result \in Nat /\ v.n \in Nat
    BY DEF Turned
  <1>3. shifted(Bits32) \in Nat /\ shifted(Bits64) \in Nat
    BY <1>1, <1>2, PayloadBits, Shifted
  <1>4. CASE v.state # "more"
    BY <1>2, <1>4 DEF Turn
  <1>5. CASE v.state = "more" /\ width = Bits32
    <2>1. Turn(width, v, b) = Turn32(v, b)
      BY <1>1, <1>5 DEF Turn
    <2>2. Turn32(v, b) \in Turned /\ Turn32(v, b).n = v.n + 1
      BY <1>1, <1>2, <1>3 DEF Turn32, Turned
    <2> QED
      BY <1>2, <2>1, <2>2
  <1>6. CASE v.state = "more" /\ width = Bits64
    <2>1. Turn(width, v, b) = Turn64(v, b)
      BY <1>1, <1>6 DEF Turn
    <2>2. Turn64(v, b) \in Turned /\ Turn64(v, b).n <= v.n + 1
      BY <1>1, <1>2, <1>3 DEF Turn64, Turned
    <2> QED
      BY <2>1, <2>2
  <1> QED
    BY <1>4, <1>5, <1>6 DEF Widths

\* The bytes of a stream are numbers.
LEMMA BytesAreNumbers ==
  ASSUME Chunk, NEW s, IsStream(s)
  PROVE  s.pos \in Nat /\ s.left \in Nat /\ \A k \in 1 .. s.left : buf[s.pos + k] \in Nat
  <1>1. s.pos \in Nat /\ s.left \in Nat /\ s.pos + s.left <= Len(buf) /\ Len(buf) \in Nat
    BY DEF IsStream, Chunk
  <1>2. \A i \in 1 .. Len(buf) : buf[i] \in Nat
    BY DEF Chunk
  <1>3. \A k \in 1 .. s.left : s.pos + k \in 1 .. Len(buf)
    BY <1>1
  <1> QED
    BY <1>1, <1>2, <1>3

\* The states after the turns of the loop.
Unturned == [state |-> "more", result |-> 0, bitpos |-> 0, n |-> 0]
After(width, s) ==
  LET after[n \in 0 .. s.left] ==
        IF n = 0 THEN [state |-> "more", result |-> 0, bitpos |-> 0, n |-> 0]
        ELSE Turn(width, after[n - 1], buf[s.pos + n])
  IN after

\* They are what their recursion says, and the loop ends with one of them.
LEMMA LoopDef ==
  ASSUME Chunk, NEW s, IsStream(s), NEW width \in Widths
  PROVE  /\ VarintLoop(width, s) = Result(After(width, s)[Min({VarintSize(s), s.left})], s)
         /\ After(width, s)[0] = Unturned
         /\ \A n \in 1 .. s.left :
              After(width, s)[n] = Turn(width, After(width, s)[n - 1], buf[s.pos + n])
         /\ \A n \in 0 .. s.left :
              After(width, s)[n] \in Turned /\ After(width, s)[n].n <= n
  <1> DEFINE start == [state |-> "more", result |-> 0, bitpos |-> 0, n |-> 0]
             step == [k \in Nat |-> [v \in Turned |->
                        IF k < s.left THEN Turn(width, v, buf[s.pos + (k + 1)]) ELSE v]]
             f == Iterates(Turned, start, step)
             Loop(g) == g = [n \in 0 .. s.left |->
                              IF n = 0
                              THEN [state |-> "more", result |-> 0, bitpos |-> 0, n |-> 0]
                              ELSE Turn(width, g[n - 1], buf[s.pos + n])]
             after == CHOOSE g : Loop(g)
  <1>1. s.pos \in Nat /\ s.left \in Nat /\ \A k \in 1 .. s.left : buf[s.pos + k] \in Nat
    BY BytesAreNumbers
  <1>2. start \in Turned
    BY DEF Turned
  <1>3. step \in [Nat -> [Turned -> Turned]]
    <2>1. \A k \in Nat, v \in Turned :
            (IF k < s.left THEN Turn(width, v, buf[s.pos + (k + 1)]) ELSE v) \in Turned
      <3> TAKE k \in Nat, v \in Turned
      <3>1. ASSUME k < s.left PROVE buf[s.pos + (k + 1)] \in Nat
        <4>1. k + 1 \in 1 .. s.left
          BY <1>1, <3>1
        <4> QED
          BY <1>1, <4>1
      <3> QED
        BY <3>1, TurnCounts
    <2> QED
      BY <2>1
  <1>4. f \in [Nat -> Turned] /\ f[0] = start /\ \A k \in Nat : f[k + 1] = step[k][f[k]]
    <2>1. Follows(f, Turned, start, step)
      <3> HIDE DEF start, step
      <3> QED
        BY <1>2, <1>3, Recursion
    <2> HIDE DEF f
    <2> QED
      BY <2>1 DEF Follows
  <1>5. \E g : Loop(g)
    <2> DEFINE g == [n \in 0 .. s.left |-> f[n]]
    <2>1. ASSUME NEW n \in 1 .. s.left PROVE f[n] = Turn(width, f[n - 1], buf[s.pos + n])
      <3>1. n - 1 \in Nat /\ (n - 1) + 1 = n /\ n - 1 < s.left
        BY <1>1
      <3>2. f[n - 1] \in Turned /\ f[(n - 1) + 1] = step[n - 1][f[n - 1]]
        <4> HIDE DEF f
        <4> QED
          BY <1>4, <3>1
      <3> HIDE DEF f
      <3> QED
        BY <3>1, <3>2
    <2>2. \A n \in 0 .. s.left :
            f[n] = IF n = 0 THEN [state |-> "more", result |-> 0, bitpos |-> 0, n |-> 0]
                   ELSE Turn(width, g[n - 1], buf[s.pos + n])
      <3>1. \A n \in 1 .. s.left : n - 1 \in 0 .. s.left /\ g[n - 1] = f[n - 1]
        BY <1>1
      <3>2. \A n \in 0 .. s.left : n # 0 => n \in 1 .. s.left
        BY <1>1
      <3>3. f[0] = [state |-> "more", result |-> 0, bitpos |-> 0, n |-> 0]
        BY <1>4
      <3> HIDE DEF f, g
      <3> QED
        BY <2>1, <3>1, <3>2, <3>3
    <2>3. Loop(g)
      <3> HIDE DEF f
      <3> QED
        BY <2>2
    <2> HIDE DEF g
    <2> QED
      BY <2>3
  <1>6. Loop(after)
    <2> HIDE DEF Loop
    <2> QED
      BY <1>5
  <1>7. /\ VarintLoop(width, s) = Result(after[Min({VarintSize(s), s.left})], s)
        /\ After(width, s) = after
    BY DEF VarintLoop, After
  <1> HIDE DEF after
  <1> DEFINE counted == {n \in Nat : n <= s.left => after[n] \in Turned /\ after[n].n <= n}
  <1>8. \A n \in Nat : n \in counted
    <2>1. 0 \in counted
      BY <1>1, <1>2, <1>6
    <2>2. ASSUME NEW n \in Nat, n \in counted PROVE n + 1 \in counted
      <3> SUFFICES ASSUME n + 1 <= s.left
                   PROVE  after[n + 1] \in Turned /\ after[n + 1].n <= n + 1
        OBVIOUS
      <3>1. after[n] \in Turned /\ after[n].n <= n /\ after[n].n \in Nat
        BY <1>1, <2>2 DEF Turned
      <3>2. after[n + 1] = Turn(width, after[n], buf[s.pos + (n + 1)])
        <4>1. n + 1 \in 0 .. s.left /\ n + 1 # 0 /\ (n + 1) - 1 = n
          BY <1>1
        <4> QED
          BY <1>6, <4>1
      <3>3. buf[s.pos + (n + 1)] \in Nat
        BY <1>1
      <3> DEFINE v == after[n]
                 w == after[n + 1]
      <3>4. w \in Turned /\ w.n <= v.n + 1
        BY <3>1, <3>2, <3>3, TurnCounts
      <3>5. w.n \in Nat
        BY <3>4 DEF Turned
      <3> HIDE DEF v, w
      <3>6. w.n <= n + 1
        BY <3>1, <3>4, <3>5 DEF v
      <3> QED
        BY <3>4, <3>6 DEF w
    <2> HIDE DEF counted
    <2> QED
      BY <2>1, <2>2, Induction
  <1>9. \A n \in 0 .. s.left : after[n] \in Turned /\ after[n].n <= n
    BY <1>1, <1>8
  <1>10. after[0] = Unturned
    BY <1>1, <1>6 DEF Unturned
  <1>11. ASSUME NEW n \in 1 .. s.left PROVE after[n] = Turn(width, after[n - 1], buf[s.pos + n])
    <2>1. n \in 0 .. s.left /\ n # 0
      BY <1>1
    <2> QED
      BY <1>6, <2>1
  <1> QED
    BY <1>7, <1>9, <1>10, <1>11

\* The loop over the bytes of a varint ends, inside of its stream.
LEMMA LoopOnward ==
  ASSUME Chunk, NEW s, IsStream(s), NEW width \in Widths, VarintLoop(width, s).ok
  PROVE  VarintLoop(width, s).val \in Nat /\ Onward(s, VarintLoop(width, s).s)
  <1> DEFINE last == Min({VarintSize(s), s.left})
             v == After(width, s)[last]
  <1>1. s.pos \in Nat /\ s.left \in Nat
    BY DEF IsStream
  <1>2. last \in Nat /\ last <= s.left
    BY <1>1, SizeOfVarint, SmallerOfTwo
  <1>3. v \in Turned /\ v.n <= last /\ VarintLoop(width, s) = Result(v, s)
    BY <1>1, <1>2, LoopDef
  <1>4. v.result \in Nat /\ v.n \in Nat
    BY <1>3 DEF Turned
  <1> HIDE DEF v, last
  <1>5. VarintLoop(width, s) = Ok(v.result, Stream(s.pos + v.n, s.left - v.n))
    BY <1>3 DEF Result, Failed
  <1>6. v.n <= s.left
    BY <1>1, <1>2, <1>3, <1>4
  <1>7. Onward(s, Stream(s.pos + v.n, s.left - v.n))
    BY <1>1, <1>4, <1>6 DEF Onward, IsStream, Stream
  <1> QED
    BY <1>4, <1>5, <1>7 DEF Ok

\* Both varint decoders.
LEMMA VarintOnward ==
  ASSUME Chunk, NEW s, IsStream(s)
  PROVE  /\ pb_decode_varint32(s).ok =>
              pb_decode_varint32(s).val \in Nat /\ Onward(s, pb_decode_varint32(s).s)
         /\ pb_decode_varint(s).ok =>
              pb_decode_varint(s).val \in Nat /\ Onward(s, pb_decode_varint(s).s)
  BY LoopOnward DEF pb_decode_varint32, pb_decode_varint, Widths

\* A tag leaves the stream after it.
LEMMA TagOnward ==
  ASSUME Chunk, NEW s, IsStream(s), pb_decode_tag(s).ok
  PROVE  Onward(s, pb_decode_tag(s).s) /\ pb_decode_tag(s).tag \in Nat
  <1> DEFINE temp == pb_decode_varint32(s)
  <1>1. /\ pb_decode_tag(s).ok = temp.ok /\ pb_decode_tag(s).s = temp.s
        /\ pb_decode_tag(s).tag = temp.val \div 8
    BY DEF pb_decode_tag
  <1>2. temp.val \in Nat /\ Onward(s, temp.s)
    BY <1>1, VarintOnward
  <1>3. temp.val \div 8 \in Nat
    <2> HIDE DEF temp
    <2> QED
      BY <1>2
  <1> QED
    BY <1>1, <1>2, <1>3

\* A substream and what its parent has left make up the stream they come from.
LEMMA SubstreamNests ==
  ASSUME Chunk, NEW s, IsStream(s), pb_make_string_substream(s).ok
  PROVE  LET sub == pb_make_string_substream(s)
         IN /\ IsStream(sub.s) /\ IsStream(sub.val)
            /\ s.pos <= sub.s.pos /\ sub.val.pos = sub.s.pos
            /\ sub.s.pos + sub.val.left + sub.s.left = s.pos + s.left
  <1> DEFINE size == pb_decode_varint32(s)
  <1>1. size.ok /\ size.val <= size.s.left
    BY DEF pb_make_string_substream, Failed
  <1>2. pb_make_string_substream(s) =
          Ok(Stream(size.s.pos, size.val), Stream(size.s.pos, size.s.left - size.val))
    BY <1>1 DEF pb_make_string_substream
  <1>3. size.val \in Nat /\ Onward(s, size.s)
    BY <1>1, VarintOnward
  <1> HIDE DEF size
  <1>4. pb_make_string_substream(s).val = Stream(size.s.pos, size.val)
        /\ pb_make_string_substream(s).s = Stream(size.s.pos, size.s.left - size.val)
    BY <1>2 DEF Ok
  <1> DEFINE p == size.s.pos
             l == size.s.left
             v == size.val
  <1>5. /\ p \in Nat /\ l \in Nat /\ v \in Nat /\ v <= l
        /\ s.pos <= p /\ p + l = s.pos + s.left /\ p + l <= Len(buf)
    BY <1>1, <1>3 DEF Onward, IsStream
  <1> HIDE DEF p, l, v
  <1>6. l - v \in Nat /\ p + (l - v) <= Len(buf) /\ p + v <= Len(buf)
        /\ p + v + (l - v) = s.pos + s.left
    BY <1>5 DEF Chunk
  <1>7. IsStream(Stream(p, l - v)) /\ IsStream(Stream(p, v))
    BY <1>5, <1>6 DEF IsStream, Stream
  <1> QED
    BY <1>4, <1>5, <1>6, <1>7 DEF Stream, p, l, v

\* Closed, the parent goes on behind it.
LEMMA ClosedOnward ==
  ASSUME Chunk, NEW s, IsStream(s), pb_make_string_substream(s).ok
  PROVE  LET sub == pb_make_string_substream(s)
         IN Onward(s, pb_close_string_substream(sub.s, sub.val))
  BY SubstreamNests DEF pb_close_string_substream, Onward, IsStream, Stream

\* The bytes of a value that is not length-delimited.
LEMMA RawSizeIsNatural ==
  ASSUME Chunk, NEW s, IsStream(s), NEW wire_type \in {0, 1, 5}
  PROVE  RawSize(s, wire_type) \in Nat
  BY SizeOfVarint, DecodeAssumption DEF RawSize, IsStream

\* pb_skip_field stays in its stream.
LEMMA SkipOnward ==
  ASSUME Chunk, NEW s, IsStream(s), NEW wire_type, pb_skip_field(s, wire_type).ok
  PROVE  Onward(s, pb_skip_field(s, wire_type).s)
  <1> DEFINE sub == pb_make_string_substream(s)
  <1>1. CASE wire_type = 2
    <2>1. pb_skip_field(s, wire_type) =
            IF sub.ok THEN Ok(0, pb_close_string_substream(sub.s, sub.val)) ELSE Failed(s)
      BY <1>1 DEF pb_skip_field
    <2>2. sub.ok
      BY <2>1 DEF Failed
    <2>3. pb_skip_field(s, wire_type).s = pb_close_string_substream(sub.s, sub.val)
      BY <2>1, <2>2 DEF Ok
    <2> QED
      BY <2>2, <2>3, ClosedOnward
  <1>2. CASE wire_type \in {0, 1, 5}
    <2>1. pb_skip_field(s, wire_type) = pb_read(s, RawSize(s, wire_type))
      BY <1>2 DEF pb_skip_field
    <2> QED
      BY <1>2, <2>1, RawSizeIsNatural, ReadOnward
  <1>3. CASE wire_type \notin {0, 1, 2, 5}
    BY <1>3 DEF pb_skip_field, Failed
  <1> QED
    BY <1>1, <1>2, <1>3

\* So do the decoders of the scalar fields.
LEMMA ScalarOnward ==
  ASSUME Chunk, NEW s, IsStream(s), NEW f, NEW wire_type,
         decode_basic_field(f, wire_type, s).ok
  PROVE  Onward(s, decode_basic_field(f, wire_type, s).s)
  <1>1. CASE f.ltype = "BOOL" /\ wire_type = 0
    <2>1. decode_basic_field(f, wire_type, s) = pb_dec_bool(s)
      BY <1>1 DEF decode_basic_field
    <2>2. pb_decode_varint32(s).ok /\ pb_dec_bool(s).s = pb_decode_varint32(s).s
      BY <2>1 DEF pb_dec_bool, Ok
    <2> QED
      BY <2>1, <2>2, VarintOnward
  <1>2. CASE f.ltype \in {"VARINT", "UVARINT"} /\ wire_type = 0
    <2>1. decode_basic_field(f, wire_type, s) = pb_dec_varint(f, s)
      BY <1>2 DEF decode_basic_field
    <2> DEFINE v == pb_decode_varint(s)
    <2>2. v.ok
      BY <2>1 DEF pb_dec_varint
    <2>3. pb_dec_varint(f, s).s = v.s
      <3>1. CASE f.ltype = "UVARINT"
        <4>1. pb_dec_varint(f, s) = IF v.val < Power(2, f.size) THEN v ELSE Failed(s)
          BY <2>2, <3>1 DEF pb_dec_varint
        <4> QED
          BY <2>1, <4>1 DEF Failed
      <3>2. CASE f.ltype = "VARINT"
        BY <2>2, <3>2 DEF pb_dec_varint, Ok
      <3> QED
        BY <1>2, <3>1, <3>2
    <2> QED
      BY <2>1, <2>2, <2>3, VarintOnward
  <1>3. CASE f.ltype \in {"BYTES", "STRING", "FIXED_LENGTH_BYTES"} /\ wire_type = 2
    <2>1. decode_basic_field(f, wire_type, s) = pb_dec_bytes(f, s)
      BY <1>3 DEF decode_basic_field
    <2> DEFINE size == pb_decode_varint32(s)
               r == pb_dec_bytes(f, s)
    <2>2. /\ size.ok
          /\ r = Ok(Zeros(f.size), size.s) \/ r = pb_read(size.s, size.val)
      <3>1. r.ok
        BY <2>1
      <3> QED
        BY <3>1 DEF pb_dec_bytes, Failed
    <2>3. size.val \in Nat /\ Onward(s, size.s)
      BY <2>2, VarintOnward
    <2>4. CASE r = Ok(Zeros(f.size), size.s)
      BY <2>1, <2>3, <2>4 DEF Ok
    <2>5. CASE r = pb_read(size.s, size.val)
      <3>1. Onward(size.s, pb_read(size.s, size.val).s)
        BY <2>1, <2>3, <2>5, ReadOnward DEF Onward
      <3> QED
        BY <2>1, <2>3, <2>5, <3>1 DEF Onward, IsStream
    <2> QED
      BY <2>2, <2>4, <2>5
  <1>4. CASE \/ f.ltype = "BOOL" /\ wire_type # 0
             \/ f.ltype \in {"VARINT", "UVARINT"} /\ wire_type # 0
             \/ f.ltype \in {"BYTES", "STRING", "FIXED_LENGTH_BYTES"} /\ wire_type # 2
             \/ f.ltype \notin {"BOOL", "VARINT", "UVARINT", "BYTES", "STRING",
                                "FIXED_LENGTH_BYTES"}
    <2>1. decode_basic_field(f, wire_type, s) = Failed(s)
      BY <1>4 DEF decode_basic_field
    <2> QED
      BY <2>1 DEF Failed
  <1> QED
    BY <1>1, <1>2, <1>3, <1>4

-----------------------------------------------------------------------------
(* The inductive invariant.                                                *)

\* A message being decoded: its stream lies in the chunk, its struct holds.
GoodFrame(fr) ==
  /\ DOMAIN fr = {"msg", "it", "s", "val"}
  /\ fr.msg \in Messages /\ fr.it \in DOMAIN Schema[fr.msg]
  /\ IsStream(fr.s) /\ StructHolds(fr.msg, fr.val)

\* Another is being decoded as the field its iterator is at: it lies behind
\* what the parent has read, and there is a slot for it.
FieldAt(fr) == Schema[fr.msg][fr.it]
Opens(fr, sub) ==
  /\ IsMessage(FieldAt(fr)) /\ sub.msg = FieldAt(fr).sub
  /\ fr.s.pos <= sub.s.pos
  /\ FieldAt(fr).htype = "REPEATED" =>
       Len(fr.val[FieldAt(fr).name]) + 1 <= FieldAt(fr).count

GoodStack(fs) ==
  /\ Listed(fs) /\ fs # << >>
  /\ \A i \in 1 .. Len(fs) : GoodFrame(fs[i])
  /\ \A i \in 1 .. Len(fs) - 1 : Opens(fs[i], fs[i + 1])

\* What the messages of a stack have left to read, summed up to each.
Sums(fs) ==
  LET sum[i \in 0 .. Len(fs)] == IF i = 0 THEN 0 ELSE sum[i - 1] + fs[i].s.left
  IN sum
Remaining(fs) == Sums(fs)[Len(fs)]
RegionEnd == IF stage = "contract" THEN cb.pos + cb.size ELSE Len(buf)

\* What the callbacks stored.  A contract is captured only once, so that the
\* region its decoding reads does not change under it.
GoodCallbacks(c) ==
  /\ {"captured", "mem", "pos", "size"} \subseteq DOMAIN c
  /\ c.captured \in BOOLEAN /\ c.mem \in {"null", "chunk", "stack"}
  /\ c.pos \in Nat /\ c.size \in Nat
  /\ c.mem # "null" => c.captured
SameCapture(c, d) == d.mem = c.mem /\ d.pos = c.pos /\ d.size = c.size
Captures(c, d) == GoodCallbacks(d) /\ (c.captured => SameCapture(c, d))
GoodCapture ==
  GoodCallbacks(cb) /\ (stage = "contract" => cb.mem = "chunk" /\ cb.pos + cb.size <= Len(buf))

DecoderInv ==
  /\ Chunk /\ top \in Messages
  /\ status \in {"decoding", "ok", "fault"} /\ stage \in {"chunk", "contract", "refused"}
  /\ GoodStack(frames) /\ GoodCapture
  /\ Last(frames).s.pos + Remaining(frames) = RegionEnd

-----------------------------------------------------------------------------
(* Stacks of messages.                                                     *)

\* A sequence without its last element.
LEMMA WithoutLast ==
  ASSUME NEW fs, Listed(fs), fs # << >>
  PROVE  /\ Listed(Front(fs)) /\ Len(fs) \in Nat \ {0} /\ Len(Front(fs)) = Len(fs) - 1
         /\ \A i \in 1 .. Len(fs) - 1 : Front(fs)[i] = fs[i]
  <1> DEFINE front == Front(fs)
  <1>1. fs \in Seq(Range(fs)) /\ Len(fs) \in Nat \ {0}
    BY DEF Listed
  <1>2. front = SubSeq(fs, 1, Len(fs) - 1)
    BY DEF Front
  <1>3. /\ front \in Seq(Range(fs)) /\ Len(front) = Len(fs) - 1
        /\ \A i \in 1 .. Len(fs) - 1 : front[i] = fs[i]
    <2> HIDE DEF front
    <2>1. \A i \in 1 .. Len(fs) - 1 : fs[i] \in Range(fs)
      BY <1>1 DEF Range
    <2> DEFINE m == Len(fs) - 1
    <2>2. /\ SubSeq(fs, 1, m) \in Seq(Range(fs))
          /\ Len(SubSeq(fs, 1, m)) = IF 1 <= m THEN m - 1 + 1 ELSE 0
          /\ \A i \in 1 .. m - 1 + 1 : SubSeq(fs, 1, m)[i] = fs[1 + i - 1]
      <3>1. 1 \in Int /\ m \in Int /\ \A i \in 1 .. m : fs[i] \in Range(fs)
        BY <1>1, <2>1
      <3> HIDE DEF m
      <3> QED
        BY <3>1, SubSeqProperties
    <2>3. m \in Nat /\ m - 1 + 1 = m /\ \A i \in 1 .. m : 1 + i - 1 = i
      BY <1>1
    <2> HIDE DEF m
    <2>4. front \in Seq(Range(fs)) /\ Len(front) = m /\ \A i \in 1 .. m : front[i] = fs[i]
      BY <1>2, <2>2, <2>3 DEF m
    <2> QED
      BY <2>4 DEF m
  <1>4. Listed(front)
    <2> HIDE DEF front
    <2> QED
      BY <1>3 DEF Listed, Range
  <1> QED
    BY <1>1, <1>3, <1>4

\* gs is fs with e for its last element.
Replaced(fs, gs, e) ==
  /\ Listed(gs) /\ gs # << >> /\ Len(gs) = Len(fs) /\ Len(fs) \in Nat \ {0}
  /\ gs[Len(fs)] = e /\ Last(fs) = fs[Len(fs)]
  /\ \A i \in 1 .. Len(fs) - 1 : gs[i] = fs[i]

\* What is left of a sequence when its last element is replaced.
LEMMA ReplaceLast ==
  ASSUME NEW fs, Listed(fs), fs # << >>, NEW e
  PROVE  Replaced(fs, Append(Front(fs), e), e)
  <1> DEFINE front == Front(fs)
             gs == Append(front, e)
  <1>1. /\ Listed(front) /\ Len(fs) \in Nat \ {0} /\ Len(front) = Len(fs) - 1
        /\ \A i \in 1 .. Len(fs) - 1 : front[i] = fs[i]
    BY WithoutLast
  <1> HIDE DEF front
  <1>2. Listed(gs) /\ Len(gs) = Len(fs)
    BY <1>1, OneMore
  <1>3. front \in Seq(Range(front))
    BY <1>1 DEF Listed
  <1>4. gs[Len(fs)] = e /\ \A i \in 1 .. Len(fs) - 1 : gs[i] = fs[i]
    BY <1>1, <1>3
  <1> QED
    BY <1>1, <1>2, <1>4 DEF Last, front, Replaced

\* The same, and one element more.
LEMMA ReplaceAndPush ==
  ASSUME NEW fs, Listed(fs), fs # << >>, NEW e, NEW top_e
  PROVE  LET gs == Append(Append(Front(fs), e), top_e)
         IN /\ Listed(gs) /\ gs # << >> /\ Len(gs) = Len(fs) + 1 /\ Len(fs) \in Nat \ {0}
            /\ gs[Len(fs)] = e /\ gs[Len(fs) + 1] = top_e /\ Last(fs) = fs[Len(fs)]
            /\ \A i \in 1 .. Len(fs) - 1 : gs[i] = fs[i]
  <1> DEFINE hs == Append(Front(fs), e)
             gs == Append(hs, top_e)
  <1>1. /\ Listed(hs) /\ hs # << >> /\ Len(hs) = Len(fs) /\ Len(fs) \in Nat \ {0}
        /\ hs[Len(fs)] = e /\ Last(fs) = fs[Len(fs)]
        /\ \A i \in 1 .. Len(fs) - 1 : hs[i] = fs[i]
    BY ReplaceLast DEF Replaced
  <1> HIDE DEF hs
  <1>2. Listed(gs) /\ Len(gs) = Len(fs) + 1
    BY <1>1, OneMore
  <1>3. hs \in Seq(Range(hs))
    BY <1>1 DEF Listed
  <1>4. gs[Len(fs) + 1] = top_e /\ \A i \in 1 .. Len(fs) : gs[i] = hs[i]
    BY <1>1, <1>3
  <1> QED
    BY <1>1, <1>2, <1>4 DEF hs

\* gs is fs without its last element and with e for the one before.
Popped(fs, gs, e) ==
  /\ Listed(gs) /\ gs # << >> /\ Len(gs) = Len(fs) - 1 /\ Len(gs) \in Nat \ {0}
  /\ Last(fs) = fs[Len(fs)] /\ Last(Front(fs)) = fs[Len(fs) - 1]
  /\ gs[Len(gs)] = e
  /\ \A i \in 1 .. Len(gs) - 1 : gs[i] = fs[i]

\* The last element removed and the one below it replaced.
LEMMA PopAndReplace ==
  ASSUME NEW fs, Listed(fs), Len(fs) > 1, NEW e
  PROVE  Popped(fs, Append(Front(Front(fs)), e), e)
  <1> DEFINE front == Front(fs)
             gs == Append(Front(front), e)
  <1>1. fs # << >>
    OBVIOUS
  <1>2. /\ Listed(front) /\ Len(fs) \in Nat \ {0} /\ Len(front) = Len(fs) - 1
        /\ \A i \in 1 .. Len(fs) - 1 : front[i] = fs[i]
    BY <1>1, WithoutLast
  <1> HIDE DEF front
  <1>3. front # << >>
    BY <1>2
  <1>4. /\ Listed(gs) /\ gs # << >> /\ Len(gs) = Len(front) /\ Len(front) \in Nat \ {0}
        /\ gs[Len(front)] = e /\ Last(front) = front[Len(front)]
        /\ \A i \in 1 .. Len(front) - 1 : gs[i] = front[i]
    <2>1. Listed(front) /\ front # << >>
      BY <1>2, <1>3
    <2>2. Replaced(front, gs, e)
      BY <2>1, ReplaceLast
    <2> HIDE DEF gs
    <2> QED
      BY <1>2, <2>2 DEF Replaced
  <1>5. Last(front) = fs[Len(fs) - 1]
    BY <1>2, <1>4
  <1>6. \A i \in 1 .. Len(front) - 1 : gs[i] = fs[i]
    BY <1>2, <1>4
  <1> QED
    BY <1>2, <1>4, <1>5, <1>6 DEF front, Last, Popped

\* The sums of what the messages have left are what their recursion says.
LEMMA SumsDef ==
  ASSUME NEW fs, Len(fs) \in Nat, \A i \in 1 .. Len(fs) : fs[i].s.left \in Nat
  PROVE  /\ \A i \in 0 .. Len(fs) : Sums(fs)[i] \in Nat
         /\ Sums(fs)[0] = 0
         /\ \A i \in 1 .. Len(fs) : Sums(fs)[i] = Sums(fs)[i - 1] + fs[i].s.left
  <1> DEFINE step == [k \in Nat |-> [x \in Nat |->
                        IF k < Len(fs) THEN x + fs[k + 1].s.left ELSE x]]
             f == Iterates(Nat, 0, step)
             Adds(g) == g = [i \in 0 .. Len(fs) |->
                               IF i = 0 THEN 0 ELSE g[i - 1] + fs[i].s.left]
             sum == CHOOSE g : Adds(g)
             h == [i \in 0 .. Len(fs) |-> f[i]]
  <1>1. step \in [Nat -> [Nat -> Nat]]
    OBVIOUS
  <1>2. f \in [Nat -> Nat] /\ f[0] = 0 /\ \A k \in Nat : f[k + 1] = step[k][f[k]]
    <2>1. Follows(f, Nat, 0, step)
      <3> HIDE DEF step
      <3> QED
        BY <1>1, Recursion
    <2> HIDE DEF f
    <2> QED
      BY <2>1 DEF Follows
  <1> HIDE DEF f
  <1>3. ASSUME NEW i \in 1 .. Len(fs) PROVE f[i] = f[i - 1] + fs[i].s.left
    <2>1. i - 1 \in Nat /\ (i - 1) + 1 = i /\ i - 1 < Len(fs)
      OBVIOUS
    <2>2. f[i - 1] \in Nat /\ f[(i - 1) + 1] = step[i - 1][f[i - 1]]
      <3> HIDE DEF step
      <3> QED
        BY <1>2, <2>1
    <2> QED
      BY <2>1, <2>2
  <1>4. Adds(h)
    <2>1. \A i \in 1 .. Len(fs) : i - 1 \in 0 .. Len(fs) /\ h[i - 1] = f[i - 1]
      OBVIOUS
    <2>2. \A i \in 0 .. Len(fs) : i # 0 => i \in 1 .. Len(fs)
      OBVIOUS
    <2>3. \A i \in 0 .. Len(fs) : f[i] = IF i = 0 THEN 0 ELSE h[i - 1] + fs[i].s.left
      BY <1>2, <1>3, <2>1, <2>2
    <2> QED
      BY <2>3
  <1>5. Adds(sum)
    <2> HIDE DEF Adds, h
    <2> QED
      BY <1>4
  <1>6. Sums(fs) = sum
    BY DEF Sums
  <1> HIDE DEF sum
  <1>7. sum[0] = 0 /\ \A i \in 1 .. Len(fs) : sum[i] = sum[i - 1] + fs[i].s.left
    BY <1>5
  <1> DEFINE naturals == {i \in Nat : i <= Len(fs) => sum[i] \in Nat}
  <1>8. \A i \in Nat : i \in naturals
    <2>1. 0 \in naturals
      BY <1>7
    <2>2. ASSUME NEW i \in Nat, i \in naturals PROVE i + 1 \in naturals
      <3>1. CASE i + 1 <= Len(fs)
        <4>1. i + 1 \in 1 .. Len(fs) /\ (i + 1) - 1 = i
          BY <3>1
        <4>2. sum[i + 1] = sum[i] + fs[i + 1].s.left
          BY <1>7, <4>1
        <4> QED
          BY <2>2, <3>1, <4>1, <4>2
      <3>2. CASE ~(i + 1 <= Len(fs))
        BY <3>2
      <3> QED
        BY <3>1, <3>2
    <2> HIDE DEF naturals
    <2> QED
      BY <2>1, <2>2, Induction
  <1>9. \A i \in 0 .. Len(fs) : sum[i] \in Nat
    BY <1>8
  <1> QED
    BY <1>6, <1>7, <1>9

\* Stacks that agree up to a message have the same sum up to it.
LEMMA SumsAgree ==
  ASSUME NEW fs, Len(fs) \in Nat, \A i \in 1 .. Len(fs) : fs[i].s.left \in Nat,
         NEW gs, Len(gs) \in Nat, \A i \in 1 .. Len(gs) : gs[i].s.left \in Nat,
         NEW n \in Nat, n <= Len(fs), n <= Len(gs),
         \A i \in 1 .. n : gs[i].s.left = fs[i].s.left
  PROVE  Sums(gs)[n] = Sums(fs)[n]
  <1> DEFINE agree == {i \in Nat : i <= n => Sums(gs)[i] = Sums(fs)[i]}
  <1>1. 0 \in agree
    BY SumsDef
  <1>2. ASSUME NEW i \in Nat, i \in agree PROVE i + 1 \in agree
    <2> SUFFICES ASSUME i + 1 <= n PROVE Sums(gs)[i + 1] = Sums(fs)[i + 1]
      OBVIOUS
    <2>1. /\ i + 1 \in 1 .. n /\ i + 1 \in 1 .. Len(fs) /\ i + 1 \in 1 .. Len(gs)
          /\ (i + 1) - 1 = i
      OBVIOUS
    <2>2. Sums(gs)[i + 1] = Sums(gs)[i] + gs[i + 1].s.left
      BY <2>1, SumsDef
    <2>3. Sums(fs)[i + 1] = Sums(fs)[i] + fs[i + 1].s.left
      BY <2>1, SumsDef
    <2> QED
      BY <1>2, <2>1, <2>2, <2>3
  <1>3. \A i \in Nat : i \in agree
    <2> HIDE DEF agree
    <2> QED
      BY <1>1, <1>2, Induction
  <1> QED
    BY <1>3

\* The messages of a stack have lists of bytes left.
LEMMA StackLefts ==
  ASSUME NEW fs, GoodStack(fs)
  PROVE  /\ Len(fs) \in Nat \ {0} /\ \A i \in 1 .. Len(fs) : fs[i].s.left \in Nat
         /\ Remaining(fs) = Sums(fs)[Len(fs) - 1] + Last(fs).s.left
         /\ Sums(fs)[Len(fs) - 1] \in Nat
  <1>1. Len(fs) \in Nat \ {0}
    BY DEF GoodStack, Listed
  <1>2. \A i \in 1 .. Len(fs) : fs[i].s.left \in Nat
    BY DEF GoodStack, GoodFrame, IsStream
  <1>3. Len(fs) \in 1 .. Len(fs) /\ Len(fs) - 1 \in 0 .. Len(fs)
    BY <1>1
  <1> QED
    BY <1>1, <1>2, <1>3, SumsDef DEF Remaining, Last

\* Opens looks at the message, the field and the position only.
LEMMA StaysOpen ==
  ASSUME NEW fr, NEW sub, Opens(fr, sub), fr.s.pos \in Nat, sub.s.pos \in Nat,
         NEW new, new.msg = sub.msg, new.s.pos \in Nat, sub.s.pos <= new.s.pos
  PROVE  Opens(fr, new)
  BY DEF Opens

\* The innermost message goes on.
LEMMA StackGoesOn ==
  ASSUME NEW fs, GoodStack(fs), NEW fr, GoodFrame(fr),
         fr.msg = Last(fs).msg, Onward(Last(fs).s, fr.s)
  PROVE  LET gs == Append(Front(fs), fr)
         IN GoodStack(gs) /\ Last(gs).s.pos + Remaining(gs) = Last(fs).s.pos + Remaining(fs)
  <1> DEFINE gs == Append(Front(fs), fr)
             n == Len(fs)
  <1>1. /\ Listed(gs) /\ gs # << >> /\ Len(gs) = n /\ n \in Nat \ {0}
        /\ gs[n] = fr /\ Last(fs) = fs[n] /\ Last(gs) = fr
        /\ \A i \in 1 .. n - 1 : gs[i] = fs[i]
    <2>1. Listed(fs) /\ fs # << >>
      BY DEF GoodStack
    <2>2. /\ Listed(gs) /\ gs # << >> /\ Len(gs) = n /\ n \in Nat \ {0}
          /\ gs[n] = fr /\ Last(fs) = fs[n]
          /\ \A i \in 1 .. n - 1 : gs[i] = fs[i]
      <3>1. Replaced(fs, gs, fr)
        BY <2>1, ReplaceLast
      <3> HIDE DEF gs
      <3> QED
        BY <3>1 DEF Replaced
    <2>3. Last(gs) = gs[Len(gs)]
      BY DEF Last
    <2> HIDE DEF gs
    <2> QED
      BY <2>2, <2>3
  <1> HIDE DEF gs
  <1>2. \A i \in 1 .. n : GoodFrame(fs[i])
    BY DEF GoodStack
  <1>3. \A i \in 1 .. n : GoodFrame(gs[i])
    BY <1>1, <1>2
  <1>4. ASSUME NEW i \in 1 .. n - 1 PROVE Opens(gs[i], gs[i + 1])
    <2>1. Opens(fs[i], fs[i + 1]) /\ gs[i] = fs[i] /\ i + 1 \in 1 .. n /\ i \in 1 .. n
      BY <1>1 DEF GoodStack
    <2>2. CASE i + 1 = n
      <3>1. gs[i + 1] = fr /\ fs[i + 1] = Last(fs)
        BY <1>1, <2>2
      <3>2. /\ fs[i].s.pos \in Nat /\ fs[i + 1].s.pos \in Nat /\ fr.s.pos \in Nat
            /\ fs[i + 1].s.pos <= fr.s.pos
        BY <1>2, <2>1, <3>1 DEF GoodFrame, IsStream, Onward
      <3> QED
        BY <2>1, <3>1, <3>2, StaysOpen
    <2>3. CASE i + 1 # n
      <3>1. gs[i + 1] = fs[i + 1]
        BY <1>1, <2>3
      <3> QED
        BY <2>1, <3>1
    <2> QED
      BY <2>2, <2>3
  <1>5. GoodStack(gs)
    BY <1>1, <1>3, <1>4 DEF GoodStack
  <1>6. Sums(gs)[n - 1] = Sums(fs)[n - 1]
    <2>1. /\ \A i \in 1 .. Len(fs) : fs[i].s.left \in Nat
          /\ \A i \in 1 .. Len(gs) : gs[i].s.left \in Nat
      BY <1>1, <1>5, StackLefts
    <2>2. n - 1 \in Nat /\ n - 1 <= Len(fs) /\ n - 1 <= Len(gs)
      BY <1>1
    <2>3. \A i \in 1 .. n - 1 : gs[i].s.left = fs[i].s.left
      BY <1>1
    <2> QED
      BY <1>1, <2>1, <2>2, <2>3, SumsAgree
  <1>7. /\ Remaining(fs) = Sums(fs)[n - 1] + Last(fs).s.left
        /\ Remaining(gs) = Sums(fs)[n - 1] + fr.s.left
        /\ Sums(fs)[n - 1] \in Nat
    BY <1>1, <1>5, <1>6, StackLefts
  <1>8. /\ Last(fs).s.left \in Nat /\ Last(fs).s.pos \in Nat
        /\ fr.s.left \in Nat /\ fr.s.pos \in Nat
        /\ fr.s.pos + fr.s.left = Last(fs).s.pos + Last(fs).s.left
    BY <1>1, <1>2 DEF GoodFrame, IsStream, Onward
  <1>9. fr.s.pos + Remaining(gs) = Last(fs).s.pos + Remaining(fs)
    <2> DEFINE total == Sums(fs)[n - 1]
               p == fr.s.pos
               l == fr.s.left
               q == Last(fs).s.pos
               m == Last(fs).s.left
    <2>1. Remaining(fs) = total + m /\ Remaining(gs) = total + l
          /\ total \in Nat /\ p \in Nat /\ l \in Nat /\ q \in Nat /\ m \in Nat /\ p + l = q + m
      BY <1>7, <1>8
    <2> HIDE DEF total, p, l, q, m
    <2>2. p + Remaining(gs) = q + Remaining(fs)
      BY <2>1
    <2> QED
      BY <2>2 DEF p, q
  <1>10. Last(gs).s.pos + Remaining(gs) = Last(fs).s.pos + Remaining(fs)
    BY <1>1, <1>9
  <1> QED
    BY <1>5, <1>10 DEF gs

\* A submessage is entered.
LEMMA StackGrows ==
  ASSUME NEW fs, GoodStack(fs), NEW fr, GoodFrame(fr), NEW sub, GoodFrame(sub),
         fr.msg = Last(fs).msg, Last(fs).s.pos <= fr.s.pos, Opens(fr, sub),
         sub.s.pos + sub.s.left + fr.s.left = Last(fs).s.pos + Last(fs).s.left
  PROVE  LET gs == Append(Append(Front(fs), fr), sub)
         IN GoodStack(gs) /\ Last(gs).s.pos + Remaining(gs) = Last(fs).s.pos + Remaining(fs)
  <1> DEFINE gs == Append(Append(Front(fs), fr), sub)
             n == Len(fs)
  <1>1. /\ Listed(gs) /\ gs # << >> /\ Len(gs) = n + 1 /\ n \in Nat \ {0}
        /\ gs[n] = fr /\ gs[n + 1] = sub /\ Last(fs) = fs[n] /\ Last(gs) = sub
        /\ \A i \in 1 .. n - 1 : gs[i] = fs[i]
    <2>1. Listed(fs) /\ fs # << >>
      BY DEF GoodStack
    <2>2. /\ Listed(gs) /\ gs # << >> /\ Len(gs) = n + 1 /\ n \in Nat \ {0}
          /\ gs[n] = fr /\ gs[n + 1] = sub /\ Last(fs) = fs[n]
          /\ \A i \in 1 .. n - 1 : gs[i] = fs[i]
      BY <2>1, ReplaceAndPush
    <2>3. Last(gs) = gs[Len(gs)]
      BY DEF Last
    <2> HIDE DEF gs
    <2> QED
      BY <2>2, <2>3
  <1> HIDE DEF gs
  <1>2. \A i \in 1 .. n : GoodFrame(fs[i])
    BY DEF GoodStack
  <1>3. \A i \in 1 .. n + 1 : GoodFrame(gs[i])
    BY <1>1, <1>2
  <1>4. ASSUME NEW i \in 1 .. n PROVE Opens(gs[i], gs[i + 1])
    <2>1. CASE i = n
      BY <1>1, <2>1
    <2>2. CASE i # n
      <3>1. Opens(fs[i], fs[i + 1]) /\ gs[i] = fs[i] /\ i + 1 \in 1 .. n /\ i \in 1 .. n
        BY <1>1, <2>2 DEF GoodStack
      <3>2. CASE i + 1 = n
        <4>1. gs[i + 1] = fr /\ fs[i + 1] = Last(fs)
          BY <1>1, <3>2
        <4>2. /\ fs[i].s.pos \in Nat /\ fs[i + 1].s.pos \in Nat /\ fr.s.pos \in Nat
              /\ fs[i + 1].s.pos <= fr.s.pos
          BY <1>2, <3>1, <4>1 DEF GoodFrame, IsStream
        <4> QED
          BY <3>1, <4>1, <4>2, StaysOpen
      <3>3. CASE i + 1 # n
        <4>1. gs[i + 1] = fs[i + 1]
          BY <1>1, <3>1, <3>3
        <4> QED
          BY <3>1, <4>1
      <3> QED
        BY <3>2, <3>3
    <2> QED
      BY <2>1, <2>2
  <1>5. GoodStack(gs)
    <2>1. Len(gs) - 1 = n
      BY <1>1
    <2> QED
      BY <1>1, <1>3, <1>4, <2>1 DEF GoodStack
  <1>6. /\ \A i \in 1 .. Len(fs) : fs[i].s.left \in Nat
        /\ \A i \in 1 .. Len(gs) : gs[i].s.left \in Nat
    BY <1>1, <1>5, StackLefts
  <1>7. Sums(gs)[n - 1] = Sums(fs)[n - 1]
    <2> DEFINE k == n - 1
    <2>1. k \in Nat /\ k <= Len(fs) /\ k <= Len(gs) /\ Len(fs) \in Nat /\ Len(gs) \in Nat
      BY <1>1
    <2>2. \A i \in 1 .. k : gs[i].s.left = fs[i].s.left
      BY <1>1
    <2> HIDE DEF k
    <2>3. Sums(gs)[k] = Sums(fs)[k]
      BY <1>6, <2>1, <2>2, SumsAgree
    <2> QED
      BY <2>3 DEF k
  <1>8. Sums(gs)[n] = Sums(gs)[n - 1] + fr.s.left
    <2>1. Len(gs) \in Nat /\ n \in 1 .. Len(gs)
      BY <1>1
    <2> QED
      BY <1>1, <1>6, <2>1, SumsDef
  <1>9. /\ Remaining(fs) = Sums(fs)[n - 1] + Last(fs).s.left
        /\ Remaining(gs) = Sums(gs)[n] + sub.s.left
        /\ Sums(fs)[n - 1] \in Nat
    <2>1. Len(gs) - 1 = n
      BY <1>1
    <2> QED
      BY <1>1, <1>5, <2>1, StackLefts
  <1>10. /\ Last(fs).s.left \in Nat /\ Last(fs).s.pos \in Nat
         /\ fr.s.left \in Nat /\ sub.s.left \in Nat /\ sub.s.pos \in Nat
    BY <1>1, <1>2 DEF GoodFrame, IsStream
  <1>11. sub.s.pos + Remaining(gs) = Last(fs).s.pos + Remaining(fs)
    <2>1. Remaining(gs) = (Sums(fs)[n - 1] + fr.s.left) + sub.s.left
      BY <1>7, <1>8, <1>9
    <2>2. sub.s.pos + sub.s.left + fr.s.left = Last(fs).s.pos + Last(fs).s.left
      OBVIOUS
    <2> DEFINE left == Sums(fs)[n - 1]
    <2>3. /\ Remaining(gs) = (left + fr.s.left) + sub.s.left
          /\ Remaining(fs) = left + Last(fs).s.left /\ left \in Nat
      BY <1>9, <2>1
    <2> HIDE DEF left, n
    <2> QED
      BY <1>10, <2>2, <2>3
  <1> QED
    BY <1>1, <1>5, <1>11 DEF gs

\* A submessage that was read to its end is left.
LEMMA StackShrinks ==
  ASSUME NEW fs, GoodStack(fs), Len(fs) > 1, Last(fs).s.left = 0,
         NEW fr, GoodFrame(fr), fr.msg = Last(Front(fs)).msg,
         fr.s = Stream(Last(fs).s.pos, Last(Front(fs)).s.left)
  PROVE  LET gs == Append(Front(Front(fs)), fr)
         IN GoodStack(gs) /\ Last(gs).s.pos + Remaining(gs) = Last(fs).s.pos + Remaining(fs)
  <1> DEFINE gs == Append(Front(Front(fs)), fr)
             n == Len(gs)
  <1>1. /\ Listed(gs) /\ gs # << >> /\ n = Len(fs) - 1 /\ n \in Nat \ {0}
        /\ Last(fs) = fs[Len(fs)] /\ Last(Front(fs)) = fs[Len(fs) - 1]
        /\ gs[n] = fr /\ Last(gs) = fr
        /\ \A i \in 1 .. n - 1 : gs[i] = fs[i]
    <2>1. Listed(fs)
      BY DEF GoodStack
    <2>2. /\ Listed(gs) /\ gs # << >> /\ n = Len(fs) - 1 /\ n \in Nat \ {0}
          /\ Last(fs) = fs[Len(fs)] /\ Last(Front(fs)) = fs[Len(fs) - 1]
          /\ gs[n] = fr /\ \A i \in 1 .. n - 1 : gs[i] = fs[i]
      <3>1. Popped(fs, gs, fr)
        BY <2>1, PopAndReplace
      <3> HIDE DEF gs
      <3> QED
        BY <3>1 DEF Popped
    <2>3. Last(gs) = gs[n]
      BY DEF Last
    <2> HIDE DEF gs
    <2> QED
      BY <2>2, <2>3
  <1> HIDE DEF gs
  <1>2. Len(fs) \in Nat /\ Len(fs) = n + 1 /\ Last(fs) = fs[n + 1] /\ Last(Front(fs)) = fs[n]
    BY <1>1 DEF GoodStack, Listed
  <1>3. \A i \in 1 .. n + 1 : GoodFrame(fs[i])
    BY <1>2 DEF GoodStack
  <1>4. \A i \in 1 .. n : GoodFrame(gs[i])
    BY <1>1, <1>3
  <1>5. \A i \in 1 .. n : Opens(fs[i], fs[i + 1])
    BY <1>1, <1>2 DEF GoodStack
  <1>6. /\ fr.s.pos = fs[n + 1].s.pos /\ fr.s.left = fs[n].s.left
        /\ fs[n].s.pos <= fr.s.pos
    <2>1. fr.s.pos = fs[n + 1].s.pos /\ fr.s.left = fs[n].s.left
      BY <1>2 DEF Stream
    <2>2. Opens(fs[n], fs[n + 1])
      BY <1>1, <1>5
    <2> QED
      BY <2>1, <2>2 DEF Opens
  <1>7. ASSUME NEW i \in 1 .. n - 1 PROVE Opens(gs[i], gs[i + 1])
    <2>1. Opens(fs[i], fs[i + 1]) /\ gs[i] = fs[i] /\ i + 1 \in 1 .. n /\ i \in 1 .. n
      BY <1>1, <1>5
    <2>2. CASE i + 1 = n
      <3>1. gs[i + 1] = fr /\ fs[i + 1] = fs[n]
        BY <1>1, <2>2
      <3>2. /\ fs[i].s.pos \in Nat /\ fs[i + 1].s.pos \in Nat /\ fr.s.pos \in Nat
            /\ fs[i + 1].s.pos <= fr.s.pos /\ fr.msg = fs[i + 1].msg
        <4>1. i \in 1 .. Len(fs) /\ i + 1 \in 1 .. Len(fs)
          BY <1>1, <2>1
        <4>2. fs[i].s.pos \in Nat /\ fs[i + 1].s.pos \in Nat
          BY <1>3, <4>1 DEF GoodFrame, IsStream
        <4>3. fr.s.pos \in Nat
          BY DEF GoodFrame, IsStream
        <4>4. fs[i + 1].s.pos <= fr.s.pos /\ fr.msg = fs[i + 1].msg
          BY <1>2, <1>6, <3>1
        <4> QED
          BY <4>2, <4>3, <4>4
      <3> QED
        BY <2>1, <3>1, <3>2, StaysOpen
    <2>3. CASE i + 1 # n
      <3>1. gs[i + 1] = fs[i + 1]
        BY <1>1, <2>1, <2>3
      <3> QED
        BY <2>1, <3>1
    <2> QED
      BY <2>2, <2>3
  <1>8. GoodStack(gs)
    BY <1>1, <1>4, <1>7 DEF GoodStack
  <1>9. /\ \A i \in 1 .. Len(fs) : fs[i].s.left \in Nat
        /\ \A i \in 1 .. Len(gs) : gs[i].s.left \in Nat
    BY <1>8, StackLefts
  <1>10. Sums(gs)[n - 1] = Sums(fs)[n - 1]
    <2> DEFINE k == n - 1
    <2>1. k \in Nat /\ k <= Len(fs) /\ k <= Len(gs) /\ Len(fs) \in Nat /\ Len(gs) \in Nat
      BY <1>1, <1>2
    <2>2. \A i \in 1 .. k : gs[i].s.left = fs[i].s.left
      BY <1>1
    <2> HIDE DEF k
    <2>3. Sums(gs)[k] = Sums(fs)[k]
      BY <1>9, <2>1, <2>2, SumsAgree
    <2> QED
      BY <2>3 DEF k
  <1>11. Sums(fs)[n] = Sums(fs)[n - 1] + fs[n].s.left
    <2>1. n \in 1 .. Len(fs)
      BY <1>1, <1>2
    <2> QED
      BY <1>2, <1>9, <2>1, SumsDef
  <1>12. /\ Remaining(fs) = Sums(fs)[n] + Last(fs).s.left
         /\ Remaining(gs) = Sums(gs)[n - 1] + fr.s.left
         /\ Sums(gs)[n - 1] \in Nat
    <2>1. Len(fs) - 1 = n
      BY <1>2
    <2> QED
      BY <1>1, <1>8, <2>1, StackLefts
  <1>13. fr.s.left \in Nat /\ fr.s.pos \in Nat
    BY DEF GoodFrame, IsStream
  <1>14. fr.s.pos + Remaining(gs) = Last(fs).s.pos + Remaining(fs)
    <2> DEFINE total == Sums(fs)[n - 1]
               p == fr.s.pos
               l == fr.s.left
    <2>1. /\ total \in Nat /\ p \in Nat /\ l \in Nat
          /\ Remaining(gs) = total + l
          /\ Remaining(fs) = Sums(fs)[n] + Last(fs).s.left
          /\ Sums(fs)[n] = total + fs[n].s.left
      BY <1>10, <1>11, <1>12, <1>13
    <2>2. fs[n].s.left = l /\ Last(fs).s.pos = p /\ Last(fs).s.left = 0
      BY <1>2, <1>6
    <2> HIDE DEF total, p, l
    <2>3. Remaining(fs) = total + l
      BY <2>1, <2>2
    <2> QED
      BY <2>1, <2>2, <2>3 DEF p
  <1> QED
    BY <1>1, <1>8, <1>14 DEF gs

\* A stack of one message.
LEMMA StackStarts ==
  ASSUME NEW m \in Messages, NEW s, IsStream(s)
  PROVE  /\ GoodStack(pb_decode(m, s))
         /\ Last(pb_decode(m, s)).s.pos + Remaining(pb_decode(m, s)) = s.pos + s.left
  <1> DEFINE fr == Frame(m, s, pb_message_set_to_defaults[m])
             fs == << fr >>
  <1>1. GoodFrame(fr) /\ fr.s = s
    <2>1. 1 \in DOMAIN Schema[m]
      BY Descriptors DEF GoodDescriptor
    <2> QED
      BY <2>1, DefaultStruct DEF Frame, GoodFrame
  <1> HIDE DEF fr
  <1>2. Listed(fs) /\ fs # << >> /\ Len(fs) = 1 /\ fs[1] = fr /\ Last(fs) = fr
    BY DEF Listed, Range, Last
  <1> HIDE DEF fs
  <1>3. GoodStack(fs)
    BY <1>1, <1>2 DEF GoodStack
  <1>4. Remaining(fs) = fr.s.left
    <2>1. fr.s.left \in Nat /\ \A i \in 1 .. Len(fs) : fs[i].s.left \in Nat
      BY <1>1, <1>2 DEF GoodFrame, IsStream
    <2>2. Sums(fs)[0] = 0 /\ Sums(fs)[1] = Sums(fs)[1 - 1] + fs[1].s.left
      BY <1>2, <2>1, SumsDef
    <2> QED
      BY <1>2, <2>1, <2>2 DEF Remaining
  <1>5. pb_decode(m, s) = fs
    BY DEF pb_decode, fs, fr
  <1> QED
    BY <1>1, <1>2, <1>3, <1>4, <1>5

-----------------------------------------------------------------------------
(* What a step finds and stores.                                           *)

(* pb_field_iter_find finds the field of a tag wherever the iterator is,   *)
(* also when the search starts behind that field or stops at the iterator: *)
(* the fields of a chunk may come in any order.                            *)
THEOREM FindsTheField ==
  ASSUME NEW m \in Messages, NEW it \in DOMAIN Schema[m], NEW tag \in Nat
  PROVE  LET found == pb_field_iter_find(Schema[m], it, tag)
         IN IF \E i \in DOMAIN Schema[m] : Schema[m][i].tag = tag
            THEN found \in DOMAIN Schema[m] /\ Schema[m][found].tag = tag
            ELSE found = 0
  <1> DEFINE fields == Schema[m]
             visited == IF tag < fields[it].tag THEN 1 .. it ELSE DOMAIN fields
             found == {i \in visited : fields[i].tag = tag}
             n == Len(fields)
  <1>1. /\ DOMAIN fields = 1 .. n /\ n \in Nat \ {0}
        /\ \A i \in DOMAIN fields : fields[i].tag \in Nat
        /\ \A i, j \in DOMAIN fields : i < j => fields[i].tag < fields[j].tag
    BY Descriptors DEF GoodDescriptor, GoodField
  <1>2. pb_field_iter_find(fields, it, tag) =
          IF tag > fields[n].tag \/ found = {} THEN 0 ELSE Min(found)
    BY DEF pb_field_iter_find, Last
  <1> HIDE DEF fields, n
  <1>3. it \in 1 .. n /\ visited \subseteq 1 .. n
    BY <1>1 DEF fields
  <1>4. CASE \E i \in DOMAIN fields : fields[i].tag = tag
    <2>1. PICK i \in 1 .. n : fields[i].tag = tag
      BY <1>1, <1>4
    <2>2. i \in visited
      <3>1. tag < fields[it].tag => i < it
        BY <1>1, <1>3, <2>1
      <3> QED
        BY <1>1, <1>3, <2>1, <3>1
    <2>3. \A j \in 1 .. n : fields[j].tag = tag => j = i
      BY <1>1, <2>1
    <2>4. found = {i}
      <3> HIDE DEF visited
      <3> QED
        BY <1>3, <2>1, <2>2, <2>3
    <2>5. ~(tag > fields[n].tag)
      BY <1>1, <2>1
    <2>6. Min(found) = i
      BY <2>1, <2>4 DEF Min
    <2>7. pb_field_iter_find(fields, it, tag) = i
      <3> HIDE DEF found
      <3> QED
        BY <1>2, <2>4, <2>5, <2>6
    <2> QED
      BY <1>1, <1>4, <2>1, <2>7 DEF fields
  <1>5. CASE ~\E i \in DOMAIN fields : fields[i].tag = tag
    <2>1. found = {}
      BY <1>1, <1>3, <1>5
    <2> QED
      BY <1>2, <1>5, <2>1 DEF fields
  <1> QED
    BY <1>4, <1>5 DEF fields

\* The innermost message.
LEMMA InnerFrame ==
  ASSUME DecoderInv
  PROVE  GoodFrame(Inner) /\ Inner = frames[Len(frames)] /\ Len(frames) \in Nat \ {0}
  BY DEF DecoderInv, GoodStack, Listed, Inner, Last

\* A tag the decoder can go on with, and the field it found for it.
LEMMA ReadTag ==
  ASSUME DecoderInv, Tag.valid
  PROVE  /\ Onward(Inner.s, Tag.s)
         /\ Tag.found # 0 => Tag.found \in DOMAIN Schema[Inner.msg]
  <1> DEFINE t == pb_decode_tag(Inner.s)
             fields == Schema[Inner.msg]
  <1>1. Chunk /\ IsStream(Inner.s) /\ Inner.msg \in Messages /\ Inner.it \in DOMAIN fields
    BY InnerFrame DEF DecoderInv, GoodFrame
  <1>2. /\ Tag.valid = (t.ok /\ t.tag # 0) /\ Tag.s = t.s
        /\ Tag.found = IF t.ok /\ t.tag # 0 THEN pb_field_iter_find(fields, Inner.it, t.tag)
                       ELSE 0
    BY DEF Tag, Found
  <1> HIDE DEF t, fields
  <1>3. Onward(Inner.s, t.s) /\ t.tag \in Nat
    BY <1>1, <1>2, TagOnward DEF t
  <1>4. Tag.found = pb_field_iter_find(fields, Inner.it, t.tag)
    BY <1>2
  <1>5. Tag.found \in DOMAIN fields \/ Tag.found = 0
    BY <1>1, <1>3, <1>4, FindsTheField DEF fields
  <1> QED
    BY <1>2, <1>3, <1>5 DEF fields

\* A field was found only for a good tag.
LEMMA FoundIsValid == Tag.found # 0 => Tag.valid
  <1> DEFINE t == pb_decode_tag(Inner.s)
             i == pb_field_iter_find(Schema[Inner.msg], Inner.it, t.tag)
  <1>1. /\ Tag.valid = (t.ok /\ t.tag # 0)
        /\ Tag.found = IF t.ok /\ t.tag # 0 THEN i ELSE 0
    BY DEF Tag, Found
  <1> HIDE DEF t, i
  <1> QED
    BY <1>1

\* The callbacks store what they are given, and a contract only once.
LEMMA CallbackCaptures ==
  ASSUME GoodCallbacks(cb), NEW f, NEW value, value.mem \in {"chunk", "stack"},
         value.pos \in Nat, Len(value.bytes) \in Nat
  PROVE  Captures(cb, field_callback(f, value).cb)
  <1>1. Captures(cb, cb)
    BY DEF Captures, SameCapture
  <1>2. CASE f.name = "custom_data"
    <2>1. field_callback(f, value).cb = [cb EXCEPT !.dataBytes = Len(value.bytes)]
      BY <1>2 DEF field_callback, pb_get_tx_data_size
    <2> QED
      BY <2>1 DEF Captures, SameCapture, GoodCallbacks
  <1>3. CASE f.name = "value"
    <2>1. field_callback(f, value) = pb_decode_contract_parameter(value)
      BY <1>3 DEF field_callback
    <2>2. CASE cb.captured
      BY <1>1, <2>1, <2>2 DEF pb_decode_contract_parameter
    <2>3. CASE ~cb.captured
      <3>1. field_callback(f, value).cb =
              [cb EXCEPT !.captured = TRUE, !.mem = value.mem, !.pos = value.pos,
                         !.size = Len(value.bytes)]
        BY <2>1, <2>3 DEF pb_decode_contract_parameter
      <3> QED
        BY <2>3, <3>1 DEF Captures, GoodCallbacks
    <2> QED
      BY <2>2, <2>3
  <1>4. CASE f.name = "data"
    <2>1. field_callback(f, value) = pb_decode_trigger_smart_contract_data(value)
      BY <1>4 DEF field_callback
    <2>2. \E d : /\ field_callback(f, value).cb = d /\ DOMAIN d = DOMAIN cb
                 /\ d.captured = cb.captured /\ d.mem = cb.mem /\ d.pos = cb.pos
                 /\ d.size = cb.size
      <3> DEFINE selector == SubSeq(value.bytes, 1, SelectorSize)
                 method == IF selector \in Range(Selectors)
                           THEN CHOOSE i \in DOMAIN Selectors : Selectors[i] = selector ELSE 0
                 to == SubSeq(value.bytes, SelectorSize + 1, SelectorSize + WordSize)
                 address == << Prefix >> \o SubSeq(to, WordSize - AddressSize + 2, WordSize)
                 amount == SubSeq(value.bytes, SelectorSize + WordSize + 1, Len(value.bytes))
                 left == Len(value.bytes) - SelectorSize
                 called == [cb EXCEPT !.selector = selector, !.method = method]
                 shown == [called EXCEPT !.destination = address, !.amount = amount]
                 r == pb_decode_trigger_smart_contract_data(value)
      <3>1. r = CASE left < 0 -> [ok |-> FALSE, cb |-> cb]
                  [] left >= 0 /\ method = 0 -> [ok |-> left % WordSize = 0, cb |-> called]
                  [] left >= 0 /\ method # 0 /\ left # 2 * WordSize ->
                       [ok |-> FALSE, cb |-> called]
                  [] left = 2 * WordSize /\ method # 0 -> [ok |-> TRUE, cb |-> shown]
        BY DEF pb_decode_trigger_smart_contract_data
      <3>2. left \in Int /\ 2 * WordSize \in Nat
        BY DecodeAssumption
      <3> HIDE DEF left, method, address, amount, selector, called, shown
      <3>3. r.cb \in {cb, called, shown}
        <4> HIDE DEF r
        <4>1. CASE left < 0
          BY <3>1, <3>2, <4>1
        <4>2. CASE left >= 0 /\ method = 0
          BY <3>1, <3>2, <4>2
        <4>3. CASE left >= 0 /\ method # 0 /\ left # 2 * WordSize
          BY <3>1, <3>2, <4>3
        <4>4. CASE left = 2 * WordSize /\ method # 0
          BY <3>1, <3>2, <4>4
        <4> QED
          BY <3>2, <4>1, <4>2, <4>3, <4>4
      <3>4. /\ DOMAIN called = DOMAIN cb /\ called.captured = cb.captured
            /\ called.mem = cb.mem /\ called.pos = cb.pos /\ called.size = cb.size
        BY DEF GoodCallbacks, called
      <3>5. /\ DOMAIN shown = DOMAIN cb /\ shown.captured = cb.captured
            /\ shown.mem = cb.mem /\ shown.pos = cb.pos /\ shown.size = cb.size
        BY <3>4 DEF GoodCallbacks, shown
      <3> HIDE DEF r
      <3> QED
        BY <2>1, <3>3, <3>4, <3>5 DEF r
    <2> QED
      BY <2>2 DEF Captures, SameCapture, GoodCallbacks
  <1>5. CASE f.name \notin {"custom_data", "value", "data"}
    BY <1>1, <1>5 DEF field_callback
  <1> QED
    BY <1>2, <1>3, <1>4, <1>5

-----------------------------------------------------------------------------
(* The steps.                                                              *)

\* In the same chunk, what holds of a stack still holds.
LEMMA SameChunk ==
  ASSUME buf' = buf, NEW fs, GoodStack(fs), frames' = fs
  PROVE  GoodStack(frames)'
  BY DEF GoodStack, GoodFrame, IsStream

\* A step that decodes on: a new stack, the same place in the region, and
\* what the callbacks stored.
LEMMA DecodesOn ==
  ASSUME DecoderInv, UNCHANGED << buf, top, status, stage >>, Captures(cb, cb'),
         NEW fs, GoodStack(fs), frames' = fs,
         Last(fs).s.pos + Remaining(fs) = Last(frames).s.pos + Remaining(frames)
  PROVE  DecoderInv'
  <1>1. GoodStack(frames)'
    BY SameChunk
  <1>2. stage = "contract" => SameCapture(cb, cb')
    BY DEF DecoderInv, GoodCapture, GoodCallbacks, Captures
  <1>3. GoodCapture'
    BY <1>2 DEF DecoderInv, GoodCapture, GoodCallbacks, Captures, SameCapture
  <1>4. RegionEnd' = RegionEnd
    BY <1>2 DEF RegionEnd, SameCapture
  <1>5. Last(frames') = Last(fs) /\ Remaining(frames') = Remaining(fs)
    OBVIOUS
  <1>6. (Last(frames).s.pos + Remaining(frames))' = RegionEnd'
    BY <1>4, <1>5 DEF DecoderInv, Remaining, Sums, Last
  <1> QED
    BY <1>1, <1>3, <1>6 DEF DecoderInv, Chunk

\* A step that stops.
LEMMA Stops ==
  ASSUME DecoderInv, Captures(cb, cb'), UNCHANGED << buf, top, frames >>,
         status' \in {"ok", "fault"},
         stage' = stage \/ (stage = "chunk" /\ stage' = "refused")
  PROVE  DecoderInv'
  <1>1. GoodStack(frames)'
    BY SameChunk DEF DecoderInv
  <1>2. stage = "contract" => SameCapture(cb, cb')
    BY DEF DecoderInv, GoodCapture, GoodCallbacks, Captures
  <1>3. GoodCapture'
    BY <1>2 DEF DecoderInv, GoodCapture, GoodCallbacks, Captures, SameCapture
  <1>4. RegionEnd' = RegionEnd
    BY <1>2 DEF RegionEnd, SameCapture
  <1>5. (Last(frames).s.pos + Remaining(frames))' = RegionEnd'
    BY <1>4 DEF DecoderInv, Remaining, Sums, Last
  <1> QED
    BY <1>1, <1>3, <1>5 DEF DecoderInv, Chunk

\* Nothing is captured by a step that leaves cb alone.
LEMMA KeepsCapture ==
  ASSUME DecoderInv, UNCHANGED cb
  PROVE  Captures(cb, cb')
  BY DEF DecoderInv, GoodCapture, Captures, SameCapture, GoodCallbacks

\* A decoding step that fails.
LEMMA FaultKeeps ==
  ASSUME DecoderInv, Fault, Captures(cb, cb')
  PROVE  DecoderInv'
  BY Stops DEF Fault

\* One that goes on in the innermost message.
LEMMA GoOnKeeps ==
  ASSUME DecoderInv, Captures(cb, cb'), NEW it \in DOMAIN Schema[Inner.msg],
         NEW s, Onward(Inner.s, s), NEW val, StructHolds(Inner.msg, val), GoOn(it, s, val)
  PROVE  DecoderInv'
  <1> DEFINE fr == [Inner EXCEPT !.it = it, !.s = s, !.val = val]
             fs == Append(Front(frames), fr)
  <1>1. GoodFrame(fr) /\ fr.msg = Inner.msg /\ fr.s = s
    <2>1. GoodFrame(Inner)
      BY InnerFrame
    <2> QED
      BY <2>1 DEF GoodFrame, Onward
  <1>2. frames' = fs /\ UNCHANGED << buf, top, status, stage >>
    BY DEF GoOn, Outer
  <1> HIDE DEF fr
  <1>3. GoodStack(fs) /\ Last(fs).s.pos + Remaining(fs) = Last(frames).s.pos + Remaining(frames)
    BY <1>1, StackGoesOn DEF DecoderInv, Inner
  <1> HIDE DEF fs
  <1> QED
    BY <1>2, <1>3, DecodesOn

\* An unknown field is skipped.
LEMMA UnknownFieldKeeps == DecoderInv /\ UnknownField => DecoderInv'
  <1> SUFFICES ASSUME DecoderInv, UnknownField PROVE DecoderInv'
    OBVIOUS
  <1> DEFINE r == pb_skip_field(Tag.s, Tag.wire_type)
  <1>1. /\ Tag.valid /\ UNCHANGED cb
        /\ IF r.ok THEN GoOn(Inner.it, r.s, Inner.val) ELSE Fault
    BY DEF UnknownField
  <1>2. Captures(cb, cb')
    BY <1>1, KeepsCapture
  <1>3. CASE r.ok
    <2>1. Chunk /\ IsStream(Tag.s) /\ Onward(Inner.s, Tag.s)
      BY <1>1, ReadTag DEF DecoderInv, Onward
    <2>2. Onward(Tag.s, r.s)
      BY <1>3, <2>1, SkipOnward
    <2>3. GoodFrame(Inner)
      BY InnerFrame
    <2> HIDE DEF r
    <2>4. Onward(Inner.s, r.s)
      BY <2>1, <2>2, <2>3 DEF Onward, IsStream, GoodFrame
    <2> QED
      BY <1>1, <1>2, <1>3, <2>3, <2>4, GoOnKeeps DEF GoodFrame
  <1>4. CASE ~r.ok
    BY <1>1, <1>2, <1>4, FaultKeeps
  <1> QED
    BY <1>3, <1>4

\* A scalar is stored.
LEMMA StaticFieldKeeps == DecoderInv /\ StaticField => DecoderInv'
  <1> SUFFICES ASSUME DecoderInv, StaticField PROVE DecoderInv'
    OBVIOUS
  <1> DEFINE f == FieldOf(Tag)
             r == decode_basic_field(f, Tag.wire_type, Tag.s)
             val == [Inner.val EXCEPT ![f.name] = r.val]
  <1>1. /\ Tag.found # 0 /\ IsScalar(f) /\ UNCHANGED cb
        /\ IF r.ok THEN GoOn(Tag.found, r.s, val) ELSE Fault
    BY DEF StaticField
  <1>2. Captures(cb, cb')
    BY <1>1, KeepsCapture
  <1>3. CASE r.ok
    <2>1. /\ Chunk /\ IsStream(Tag.s) /\ Onward(Inner.s, Tag.s)
          /\ Tag.found \in DOMAIN Schema[Inner.msg]
      BY <1>1, ReadTag, FoundIsValid DEF DecoderInv, Onward
    <2>2. Onward(Tag.s, r.s)
      BY <1>3, <2>1, ScalarOnward
    <2>3. GoodFrame(Inner)
      BY InnerFrame
    <2>4. f \in Static(Schema[Inner.msg]) /\ f.htype = "SINGULAR"
      <3>1. Inner.msg \in Messages /\ f = Schema[Inner.msg][Tag.found] /\ f.atype = "STATIC"
        BY <1>1, <2>3 DEF GoodFrame, FieldOf, IsScalar
      <3>2. f \in Static(Schema[Inner.msg])
        BY <2>1, <3>1, StaticFields
      <3>3. GoodField(f) /\ f.ltype # "SUBMESSAGE"
        BY <1>1, <3>1, <3>2, StaticFields DEF IsScalar
      <3> QED
        BY <3>2, <3>3 DEF GoodField
    <2>5. StructHolds(Inner.msg, val)
      BY <2>3, <2>4, StoreScalar DEF GoodFrame
    <2> HIDE DEF r, val
    <2>6. Onward(Inner.s, r.s)
      BY <2>1, <2>2, <2>3 DEF Onward, IsStream, GoodFrame
    <2> QED
      BY <1>1, <1>2, <1>3, <2>1, <2>5, <2>6, GoOnKeeps
  <1>4. CASE ~r.ok
    BY <1>1, <1>2, <1>4, FaultKeeps
  <1> QED
    BY <1>3, <1>4

\* The bytes a callback is given.
LEMMA BytesPassed ==
  ASSUME Chunk, NEW s, IsStream(s), NEW wire_type,
         NEW r, r = IF wire_type = 2 THEN pb_make_string_substream(s)
                    ELSE read_raw_value(s, wire_type),
         r.ok
  PROVE  LET v == Passed(wire_type, r.val)
             t == IF wire_type = 2 THEN pb_close_string_substream(r.s, r.val) ELSE r.s
         IN /\ v.mem \in {"chunk", "stack"} /\ v.pos \in Nat /\ Len(v.bytes) \in Nat
            /\ Onward(s, t)
  <1>1. CASE wire_type = 2
    <2> DEFINE sub == r.val
               bytes == SubSeq(buf, sub.pos + 1, sub.pos + sub.left)
    <2>1. IsStream(sub) /\ Onward(s, pb_close_string_substream(r.s, sub))
      BY <1>1, SubstreamNests, ClosedOnward
    <2>2. Passed(wire_type, sub) = [mem |-> "chunk", pos |-> sub.pos, bytes |-> bytes]
      BY <1>1 DEF Passed, Bytes
    <2> HIDE DEF sub
    <2>3. sub.pos \in Nat /\ sub.left \in Nat /\ sub.pos + sub.left <= Len(buf)
      BY <2>1 DEF IsStream
    <2>4. Len(bytes) \in Nat
      <3>1. \A i \in sub.pos + 1 .. sub.pos + sub.left : i \in 1 .. Len(buf)
        BY <2>3
      <3>2. \A i \in 1 .. Len(buf) : buf[i] \in Nat
        BY DEF Chunk
      <3>3. \A i \in sub.pos + 1 .. sub.pos + sub.left : buf[i] \in Nat
        BY <3>1, <3>2
      <3>4. bytes \in Seq(Nat)
        BY <2>3, <3>3, SubSeqProperties
      <3> QED
        BY <3>4
    <2> HIDE DEF bytes
    <2>5. /\ Passed(wire_type, r.val).mem = "chunk" /\ Passed(wire_type, r.val).pos = sub.pos
          /\ Passed(wire_type, r.val).bytes = bytes
      BY <2>2 DEF sub
    <2> QED
      BY <1>1, <2>1, <2>3, <2>4, <2>5 DEF sub
  <1>2. CASE wire_type # 2
    <2>1. r = read_raw_value(s, wire_type)
      BY <1>2
    <2>2. wire_type \in {0, 1, 5} /\ r = pb_read(s, RawSize(s, wire_type))
      BY <2>1 DEF read_raw_value, Failed
    <2>3. Onward(s, r.s) /\ r.val \in Seq(Nat)
      BY <2>2, RawSizeIsNatural, ReadOnward
    <2>4. Passed(wire_type, r.val) = [mem |-> "stack", pos |-> 0, bytes |-> r.val]
      BY <1>2 DEF Passed
    <2>5. Len(r.val) \in Nat
      BY <2>3
    <2> QED
      BY <1>2, <2>3, <2>4, <2>5
  <1> QED
    BY <1>1, <1>2

\* A callback gets its bytes.
LEMMA CallbackFieldKeeps == DecoderInv /\ CallbackField => DecoderInv'
  <1> SUFFICES ASSUME DecoderInv, CallbackField PROVE DecoderInv'
    OBVIOUS
  <1> DEFINE r == IF Tag.wire_type = 2 THEN pb_make_string_substream(Tag.s)
                  ELSE read_raw_value(Tag.s, Tag.wire_type)
             v == Passed(Tag.wire_type, r.val)
             c == field_callback(FieldOf(Tag), v)
             s == IF Tag.wire_type = 2 THEN pb_close_string_substream(r.s, r.val) ELSE r.s
  <1>1. /\ Tag.found # 0
        /\ IF r.ok
           THEN cb' = c.cb /\ IF c.ok THEN GoOn(Tag.found, s, Inner.val) ELSE Fault
           ELSE Fault /\ UNCHANGED cb
    BY DEF CallbackField
  <1>2. /\ Chunk /\ IsStream(Tag.s) /\ Onward(Inner.s, Tag.s)
        /\ Tag.found \in DOMAIN Schema[Inner.msg]
    BY <1>1, ReadTag, FoundIsValid DEF DecoderInv, Onward
  <1>3. CASE ~r.ok
    <2> HIDE DEF r, s, c
    <2>1. Fault /\ UNCHANGED cb
      BY <1>1, <1>3
    <2> QED
      BY <2>1, KeepsCapture, FaultKeeps
  <1>4. CASE r.ok
    <2>1. /\ v.mem \in {"chunk", "stack"} /\ v.pos \in Nat /\ Len(v.bytes) \in Nat
          /\ Onward(Tag.s, s)
      <3> DEFINE wire_type == Tag.wire_type
                 from == Tag.s
      <3>1. /\ IsStream(from) /\ r.ok
            /\ r = IF wire_type = 2 THEN pb_make_string_substream(from)
                   ELSE read_raw_value(from, wire_type)
        BY <1>2, <1>4
      <3> HIDE DEF r, from, wire_type
      <3> QED
        BY <1>2, <3>1, BytesPassed DEF from, wire_type
    <2>2. Captures(cb, c.cb)
      <3>1. GoodCallbacks(cb)
        BY DEF DecoderInv, GoodCapture
      <3> HIDE DEF v
      <3> QED
        BY <2>1, <3>1, CallbackCaptures
    <2> HIDE DEF r, v, s, c
    <2>3. cb' = c.cb /\ IF c.ok THEN GoOn(Tag.found, s, Inner.val) ELSE Fault
      BY <1>1, <1>4
    <2>4. Captures(cb, cb')
      BY <2>2, <2>3
    <2>5. CASE c.ok
      <3>1. GoodFrame(Inner)
        BY InnerFrame
      <3>2. Onward(Inner.s, s)
        BY <1>2, <2>1, <3>1 DEF Onward, IsStream, GoodFrame
      <3> QED
        BY <1>2, <2>3, <2>4, <2>5, <3>1, <3>2, GoOnKeeps DEF GoodFrame
    <2>6. CASE ~c.ok
      BY <2>3, <2>4, <2>6, FaultKeeps
    <2> QED
      BY <2>5, <2>6
  <1> QED
    BY <1>3, <1>4

\* A submessage is entered when it fits and there is a slot for it.
LEMMA EnterSubmessageKeeps == DecoderInv /\ EnterSubmessage => DecoderInv'
  <1> SUFFICES ASSUME DecoderInv, EnterSubmessage PROVE DecoderInv'
    OBVIOUS
  <1> DEFINE f == FieldOf(Tag)
             sub == pb_make_string_substream(Tag.s)
             fr == [Inner EXCEPT !.it = Tag.found, !.s = sub.s]
             new == Frame(f.sub, sub.val, Started(f))
             fs == Append(Append(Front(frames), fr), new)
             enters == ~ArrayFull(f, Len(Inner.val[f.name])) /\ Tag.wire_type = 2 /\ sub.ok
  <1>1. /\ Tag.found # 0 /\ IsMessage(f) /\ UNCHANGED cb
        /\ IF enters THEN frames' = fs /\ UNCHANGED << buf, top, status, stage >> ELSE Fault
    BY DEF EnterSubmessage, Outer
  <1>2. Captures(cb, cb')
    BY <1>1, KeepsCapture
  <1>3. CASE ~enters
    <2> HIDE DEF enters, fs
    <2> QED
      BY <1>1, <1>2, <1>3, FaultKeeps
  <1>4. CASE enters
    <2>1. /\ Chunk /\ IsStream(Tag.s) /\ Onward(Inner.s, Tag.s)
          /\ Tag.found \in DOMAIN Schema[Inner.msg]
      BY <1>1, ReadTag, FoundIsValid DEF DecoderInv, Onward
    <2>2. GoodFrame(Inner)
      BY InnerFrame
    <2>3. /\ IsStream(sub.s) /\ IsStream(sub.val)
          /\ Tag.s.pos <= sub.s.pos /\ sub.val.pos = sub.s.pos
          /\ sub.s.pos + sub.val.left + sub.s.left = Tag.s.pos + Tag.s.left
      BY <1>4, <2>1, SubstreamNests
    <2>4. /\ Inner.msg \in Messages /\ f = Schema[Inner.msg][Tag.found]
          /\ f \in Static(Schema[Inner.msg]) /\ GoodField(f) /\ f.ltype = "SUBMESSAGE"
      <3>1. Inner.msg \in Messages /\ f = Schema[Inner.msg][Tag.found] /\ f.atype = "STATIC"
        BY <1>1, <2>2 DEF GoodFrame, FieldOf, IsMessage
      <3>2. f \in Static(Schema[Inner.msg])
        BY <2>1, <3>1, StaticFields
      <3> QED
        BY <1>1, <3>1, <3>2, StaticFields DEF IsMessage
    <2>5. f.sub \in Messages /\ (f.htype = "REPEATED" \/ f.htype = "OPTIONAL")
      BY <2>4, Submessages DEF GoodField
    <2>6. StructHolds(f.sub, Started(f))
      <3>1. CASE f.htype = "REPEATED"
        BY <2>5, <3>1, DefaultStruct DEF Started
      <3>2. CASE f.htype = "OPTIONAL"
        <4>1. Started(f) = Inner.val[f.name].val
          BY <3>2 DEF Started
        <4>2. ArraysHold(f.sub, Inner.val[f.name].val)
          BY <2>2, <2>4, <3>2 DEF GoodFrame, StructHolds
        <4>3. \A g \in Static(Schema[f.sub]) : g.htype # "OPTIONAL"
          BY <2>4, <2>5, <3>2, Submessages, StaticFields DEF GoodField
        <4> QED
          BY <4>1, <4>2, <4>3 DEF StructHolds
      <3> QED
        BY <2>5, <3>1, <3>2
    <2>7. GoodFrame(new) /\ new.msg = f.sub /\ new.s = sub.val
      <3>1. 1 \in DOMAIN Schema[f.sub]
        BY <2>5, Descriptors DEF GoodDescriptor
      <3> HIDE DEF f, sub
      <3> QED
        BY <2>3, <2>5, <2>6, <3>1 DEF Frame, GoodFrame
    <2>8. GoodFrame(fr) /\ fr.msg = Inner.msg /\ fr.s = sub.s /\ fr.it = Tag.found
          /\ fr.val = Inner.val
      <3> HIDE DEF f, sub
      <3> QED
        BY <2>1, <2>2, <2>3 DEF GoodFrame
    <2>9. f.htype = "REPEATED" => Len(Inner.val[f.name]) + 1 <= f.count
      <3> SUFFICES ASSUME f.htype = "REPEATED" PROVE Len(Inner.val[f.name]) + 1 <= f.count
        OBVIOUS
      <3>1. ~(Len(Inner.val[f.name]) >= f.count)
        BY <1>4 DEF ArrayFull
      <3>2. f.count \in Nat
        BY <2>4 DEF GoodField
      <3>3. Listed(Inner.val[f.name])
        BY <2>2, <2>4 DEF GoodFrame, StructHolds, ArraysHold
      <3>4. Len(Inner.val[f.name]) \in Nat
        BY <3>3 DEF Listed
      <3> QED
        BY <3>1, <3>2, <3>4
    <2>10. Opens(fr, new)
      <3>1. FieldAt(fr) = f
        BY <2>4, <2>8 DEF FieldAt
      <3>2. fr.s.pos <= new.s.pos
        BY <2>3, <2>7, <2>8 DEF IsStream
      <3> HIDE DEF f, fr, new
      <3> QED
        BY <1>1, <2>7, <2>8, <2>9, <3>1, <3>2 DEF Opens
    <2> HIDE DEF f, sub, fr, new
    <2>11. /\ Last(frames).s.pos <= fr.s.pos /\ fr.msg = Last(frames).msg
           /\ new.s.pos + new.s.left + fr.s.left = Last(frames).s.pos + Last(frames).s.left
      BY <2>1, <2>2, <2>3, <2>7, <2>8 DEF Onward, IsStream, GoodFrame, Inner
    <2>12. GoodStack(fs)
           /\ Last(fs).s.pos + Remaining(fs) = Last(frames).s.pos + Remaining(frames)
      BY <2>7, <2>8, <2>10, <2>11, StackGrows DEF DecoderInv
    <2> HIDE DEF fs, enters
    <2>13. frames' = fs /\ UNCHANGED << buf, top, status, stage >>
      BY <1>1, <1>4
    <2> QED
      BY <1>2, <2>12, <2>13, DecodesOn
  <1> QED
    BY <1>3, <1>4

\* A submessage is stored in the slot kept for it.
LEMMA LeaveSubmessageKeeps == DecoderInv /\ LeaveSubmessage => DecoderInv'
  <1> SUFFICES ASSUME DecoderInv, LeaveSubmessage PROVE DecoderInv'
    OBVIOUS
  <1> DEFINE parent == Last(Front(frames))
             f == FieldAt(parent)
             stored == IF f.htype = "REPEATED" THEN Append(parent.val[f.name], Inner.val)
                       ELSE [has |-> TRUE, val |-> Inner.val]
             s == Stream(Inner.s.pos, parent.s.left)
             val == [parent.val EXCEPT ![f.name] = stored]
             fr == [parent EXCEPT !.s = s, !.val = val]
             fs == Append(Front(Front(frames)), fr)
  <1>1. /\ Inner.s.left = 0 /\ Len(frames) > 1 /\ UNCHANGED << buf, top, status, stage, cb >>
        /\ frames' = Append(Front(Front(frames)),
                            [parent EXCEPT !.s = pb_close_string_substream(parent.s, Inner.s),
                                           !.val = [@ EXCEPT ![f.name] = stored]])
    BY DEF LeaveSubmessage, Outer, FieldAt
  <1>2. GoodFrame(Inner) /\ GoodStack(frames) /\ Inner = frames[Len(frames)]
        /\ Len(frames) \in Nat
    BY InnerFrame DEF DecoderInv
  <1>3. parent = frames[Len(frames) - 1]
    BY <1>1, <1>2, PopAndReplace DEF GoodStack, Popped
  <1> HIDE DEF parent
  <1>4. GoodFrame(parent) /\ Opens(parent, Inner)
    <2>1. Len(frames) - 1 \in 1 .. Len(frames) - 1 /\ Len(frames) - 1 \in 1 .. Len(frames)
          /\ (Len(frames) - 1) + 1 = Len(frames)
      BY <1>1, <1>2
    <2> QED
      BY <1>2, <1>3, <2>1 DEF GoodStack
  <1>5. frames' = fs
    <2>1. pb_close_string_substream(parent.s, Inner.s) = s
      <3>1. Inner.s.pos \in Nat /\ Inner.s.left = 0
        BY <1>1, <1>2 DEF GoodFrame, IsStream
      <3> QED
        BY <3>1 DEF pb_close_string_substream
    <2>2. [parent EXCEPT !.s = s, !.val = [@ EXCEPT ![f.name] = stored]] = fr
      BY <1>4 DEF GoodFrame
    <2> HIDE DEF stored, s, fr, f
    <2> QED
      BY <1>1, <2>1, <2>2
  <1>6. /\ parent.msg \in Messages /\ f \in Static(Schema[parent.msg])
        /\ f.htype # "SINGULAR" /\ Inner.msg = f.sub
        /\ f.htype = "REPEATED" => Len(parent.val[f.name]) + 1 <= f.count
    <2>1. /\ parent.msg \in Messages /\ parent.it \in DOMAIN Schema[parent.msg]
          /\ f = Schema[parent.msg][parent.it]
      BY <1>4 DEF GoodFrame, FieldAt
    <2>2. /\ f.atype = "STATIC" /\ f.ltype = "SUBMESSAGE" /\ Inner.msg = f.sub
          /\ f.htype = "REPEATED" => Len(parent.val[f.name]) + 1 <= f.count
      BY <1>4 DEF Opens, IsMessage
    <2> HIDE DEF f
    <2>3. f \in Static(Schema[parent.msg])
      BY <2>1, <2>2, StaticFields
    <2>4. f.htype # "SINGULAR"
      BY <2>1, <2>2, <2>3, StaticFields DEF GoodField
    <2> QED
      BY <2>1, <2>2, <2>3, <2>4
  <1>7. StructHolds(parent.msg, val)
    <2>1. StructHolds(parent.msg, parent.val) /\ StructHolds(f.sub, Inner.val)
      BY <1>2, <1>4, <1>6 DEF GoodFrame
    <2> HIDE DEF f
    <2> QED
      BY <1>6, <2>1, StoreMessage
  <1>8. IsStream(s)
    <2>1. /\ Inner.s.pos \in Nat /\ parent.s.left \in Nat /\ Len(buf) \in Nat
      BY <1>2, <1>4 DEF GoodFrame, IsStream, DecoderInv, Chunk
    <2>2. Remaining(frames) \in Nat /\ parent.s.left <= Remaining(frames)
      <3> DEFINE k == Len(frames) - 1
      <3>1. k \in 1 .. Len(frames) /\ k - 1 \in 0 .. Len(frames) /\ Len(frames) \in Nat
        BY <1>1, <1>2
      <3>2. \A i \in 1 .. Len(frames) : frames[i].s.left \in Nat
        BY <1>2, StackLefts
      <3> HIDE DEF k
      <3>3. /\ Sums(frames)[k] = Sums(frames)[k - 1] + parent.s.left
            /\ Sums(frames)[k - 1] \in Nat
        BY <1>3, <3>1, <3>2, SumsDef DEF k
      <3>4. Remaining(frames) = Sums(frames)[k]
        BY <1>1, <1>2, <3>3, <2>1, StackLefts DEF Inner, k
      <3> QED
        BY <2>1, <3>3, <3>4
    <2>3. Inner.s.pos + Remaining(frames) = RegionEnd /\ RegionEnd <= Len(buf)
      BY <2>1 DEF DecoderInv, Inner, RegionEnd, GoodCapture
    <2>4. Inner.s.pos + parent.s.left <= Len(buf)
      BY <2>1, <2>2, <2>3
    <2> QED
      BY <2>1, <2>4 DEF IsStream, Stream
  <1>9. GoodFrame(fr) /\ fr.msg = parent.msg /\ fr.s = s
    <2> HIDE DEF s, val, f
    <2> QED
      BY <1>4, <1>7, <1>8 DEF GoodFrame
  <1>10. GoodStack(fs)
         /\ Last(fs).s.pos + Remaining(fs) = Last(frames).s.pos + Remaining(frames)
    <2> HIDE DEF fr
    <2> QED
      BY <1>1, <1>2, <1>9, StackShrinks DEF Inner, parent
  <1> HIDE DEF fs
  <1> QED
    BY <1>1, <1>5, <1>10, KeepsCapture, DecodesOn

\* The contract the chunk carried is decoded in its turn.
LEMMA ProcessContractKeeps == DecoderInv /\ ProcessContract => DecoderInv'
  <1> SUFFICES ASSUME DecoderInv, ProcessContract PROVE DecoderInv'
    OBVIOUS
  <1> DEFINE refused == CaptureRefused \/ ~Parsed(RawContract.type)
  <1>1. CASE refused
    <2>1. /\ stage = "chunk" /\ stage' = "refused" /\ status' = "fault"
          /\ UNCHANGED << buf, top, frames, cb >>
      BY <1>1 DEF ProcessContract
    <2> QED
      BY <2>1, KeepsCapture, Stops
  <1>2. CASE ~refused
    <2> DEFINE m == ContractOf(RawContract.type)
               s == Stream(cb.pos, cb.size)
               fs == pb_decode(m, s)
    <2>1. /\ ~CaptureRefused /\ Parsed(RawContract.type)
          /\ stage' = "contract" /\ status' = "decoding" /\ frames' = fs
          /\ UNCHANGED << buf, top, cb >>
      BY <1>2 DEF ProcessContract
    <2>2. cb.mem = "chunk" /\ cb.pos + cb.size <= Len(buf) /\ IsStream(s)
      <3>1. cb.pos \in Nat /\ cb.size \in Nat /\ Len(buf) \in Nat
        BY DEF DecoderInv, GoodCapture, GoodCallbacks, Chunk
      <3>2. cb.mem = "chunk" /\ ~(cb.pos > Len(buf)) /\ ~(cb.size > Len(buf) - cb.pos)
        BY <2>1 DEF CaptureRefused
      <3> QED
        BY <3>1, <3>2 DEF IsStream, Stream
    <2>3. /\ GoodStack(fs)
          /\ Last(fs).s.pos + Remaining(fs) = cb.pos + cb.size
      <3>1. m \in Messages
        BY <2>1, ContractsAreMessages
      <3>2. s.pos = cb.pos /\ s.left = cb.size
        BY DEF Stream
      <3> HIDE DEF m, s
      <3> QED
        BY <2>2, <3>1, <3>2, StackStarts
    <2> HIDE DEF fs
    <2>4. GoodStack(frames)'
      BY <2>1, <2>3, SameChunk
    <2>5. GoodCapture'
      BY <2>1, <2>2 DEF DecoderInv, GoodCapture, GoodCallbacks
    <2>6. (Last(frames).s.pos + Remaining(frames))' = RegionEnd'
      BY <2>1, <2>3 DEF RegionEnd, Remaining, Sums, Last
    <2> QED
      BY <2>1, <2>4, <2>5, <2>6 DEF DecoderInv, Chunk
  <1> QED
    BY <1>1, <1>2

\* The chunk the host sends.
LEMMA DecoderInit == Init => DecoderInv
  <1> SUFFICES ASSUME Init PROVE DecoderInv
    OBVIOUS
  <1> DEFINE s == Stream(0, Len(buf))
  <1>1. Chunk /\ top \in Messages
    <2>1. top \in Messages /\ buf \in Seq(0 .. Power(2, GroupBits + 1) - 1)
      BY DecodeAssumption DEF Init
    <2>2. buf \in Seq(Nat)
      <3> DEFINE bytes == 0 .. Power(2, GroupBits + 1) - 1
      <3>1. bytes \subseteq Nat
        OBVIOUS
      <3> HIDE DEF bytes
      <3>2. buf \in Seq(bytes)
        BY <2>1 DEF bytes
      <3> QED
        BY <3>1, <3>2, SeqMonotonic
    <2> QED
      BY <2>1, <2>2 DEF Chunk
  <1>2. IsStream(s) /\ s.pos = 0 /\ s.left = Len(buf) /\ Len(buf) \in Nat
    BY <1>1 DEF IsStream, Stream, Chunk
  <1>3. frames = pb_decode(top, s)
    BY DEF Init
  <1> HIDE DEF s
  <1>4. GoodStack(frames) /\ Last(frames).s.pos + Remaining(frames) = Len(buf)
    BY <1>1, <1>2, <1>3, StackStarts
  <1>5. GoodCapture /\ RegionEnd = Len(buf)
    BY DEF Init, GoodCapture, GoodCallbacks, NoCapture, RegionEnd
  <1>6. status = "decoding" /\ stage = "chunk"
    BY DEF Init
  <1> QED
    BY <1>1, <1>4, <1>5, <1>6 DEF DecoderInv

LEMMA DecoderStep == DecoderInv /\ [Next]_vars => DecoderInv'
  <1> SUFFICES ASSUME DecoderInv, [Next]_vars PROVE DecoderInv'
    OBVIOUS
  <1>1. CASE BadTag
    <2>1. Fault /\ UNCHANGED cb
      BY <1>1 DEF BadTag
    <2> QED
      BY <2>1, KeepsCapture, FaultKeeps
  <1>2. CASE UnknownField
    BY <1>2, UnknownFieldKeeps
  <1>3. CASE StaticField
    BY <1>3, StaticFieldKeeps
  <1>4. CASE CallbackField
    BY <1>4, CallbackFieldKeeps
  <1>5. CASE EnterSubmessage
    BY <1>5, EnterSubmessageKeeps
  <1>6. CASE LeaveSubmessage
    BY <1>6, LeaveSubmessageKeeps
  <1>7. CASE EndOfMessage
    <2>1. status' = "ok" /\ UNCHANGED << buf, top, frames, stage, cb >>
      BY <1>7 DEF EndOfMessage
    <2> QED
      BY <2>1, KeepsCapture, Stops
  <1>8. CASE ProcessContract
    BY <1>8, ProcessContractKeeps
  <1>9. CASE UNCHANGED vars
    BY <1>9, SameChunk
       DEF vars, DecoderInv, Chunk, GoodCapture, GoodCallbacks, RegionEnd, Remaining, Sums, Last
  <1> QED
    BY <1>1, <1>2, <1>3, <1>4, <1>5, <1>6, <1>7, <1>8, <1>9 DEF Next

(* The decoder keeps its invariant: at every step the open messages are    *)
(* frames whose streams lie in the chunk, whose structs hold, and which    *)
(* nest in each other and add up to the region being decoded.              *)
THEOREM DecoderInvariance == Spec => []DecoderInv
  BY DecoderInit, DecoderStep, PTL DEF Spec

(* bytes_left, a size_t, never wraps, and the stack of messages is what    *)
(* pb_decode_inner keeps on the C stack.                                   *)
THEOREM DecoderTypeCorrect == Spec => []TypeOK
  <1>1. ASSUME DecoderInv PROVE TypeOK
    <2>1. /\ frames # << >> /\ frames \in Seq(Range(frames)) /\ Len(buf) \in Nat
          /\ \A i \in 1 .. Len(frames) : GoodFrame(frames[i])
      BY <1>1 DEF DecoderInv, GoodStack, Listed, Chunk
    <2>2. DOMAIN frames = 1 .. Len(frames)
      BY <2>1
    <2>3. \A i \in DOMAIN frames :
            /\ frames[i].msg \in Messages /\ frames[i].it \in DOMAIN Schema[frames[i].msg]
            /\ frames[i].s.pos \in 0 .. Len(buf) /\ frames[i].s.left \in 0 .. Len(buf)
      BY <2>1, <2>2 DEF GoodFrame, IsStream
    <2> QED
      BY <1>1, <2>1, <2>3 DEF DecoderInv, GoodCapture, GoodCallbacks, TypeOK
  <1> QED
    BY <1>1, DecoderInvariance, PTL

(* StreamsNest, for every chunk: the lengths it declares for submessages   *)
(* never make the decoder read outside of the region it was given, read a  *)
(* byte for two messages or pass over one between them.                    *)
THEOREM SubstreamsNest == Spec => []StreamsNest
  <1>1. ASSUME DecoderInv PROVE StreamsNest
    <2>1. LeftUpTo = Sums(frames)
      BY DEF LeftUpTo, Sums
    <2>2. Inner.s.pos + LeftUpTo[Len(frames)] = RegionEnd
      BY <1>1, <2>1 DEF DecoderInv, Remaining, Inner
    <2>3. \A i \in DOMAIN Outer : frames[i].s.pos <= frames[i + 1].s.pos
      <3>1. Listed(Front(frames)) /\ Len(Front(frames)) = Len(frames) - 1
        BY <1>1, WithoutLast DEF DecoderInv, GoodStack
      <3>2. DOMAIN Outer = 1 .. Len(frames) - 1
        BY <3>1 DEF Outer, Listed
      <3>3. \A i \in 1 .. Len(frames) - 1 : Opens(frames[i], frames[i + 1])
        BY <1>1 DEF DecoderInv, GoodStack
      <3> QED
        BY <3>2, <3>3 DEF Opens
    <2> QED
      BY <2>2, <2>3 DEF StreamsNest, RegionEnd
  <1> QED
    BY <1>1, DecoderInvariance, PTL

(* ArraysFit, for every chunk: however often it repeats a field, and with  *)
(* an optional submessage decoded again into what is already there, no     *)
(* array of the decoded struct gets more than its max_count of elements.   *)
THEOREM ArraysNeverOverrun == Spec => []ArraysFit
  <1>1. ASSUME DecoderInv PROVE ArraysFit
    <2> SUFFICES ASSUME NEW i \in DOMAIN frames, NEW f \in Static(Schema[frames[i].msg]),
                        f.htype = "REPEATED"
                 PROVE  Len(frames[i].val[f.name])
                          + (IF i < Len(frames) /\ FieldAt(frames[i]) = f THEN 1 ELSE 0)
                            <= f.count
      BY DEF ArraysFit, FieldAt
    <2>1. i \in 1 .. Len(frames) /\ Len(frames) \in Nat /\ GoodFrame(frames[i])
      BY <1>1 DEF DecoderInv, GoodStack, Listed
    <2>2. Listed(frames[i].val[f.name]) /\ Len(frames[i].val[f.name]) <= f.count
      BY <2>1 DEF GoodFrame, StructHolds, ArraysHold
    <2>3. Len(frames[i].val[f.name]) \in Nat
      BY <2>2 DEF Listed
    <2>4. CASE i < Len(frames) /\ FieldAt(frames[i]) = f
      <3>1. Opens(frames[i], frames[i + 1])
        BY <1>1, <2>1, <2>4 DEF DecoderInv, GoodStack
      <3> QED
        BY <2>4, <3>1 DEF Opens
    <2>5. CASE ~(i < Len(frames) /\ FieldAt(frames[i]) = f)
      <3>1. (IF i < Len(frames) /\ FieldAt(frames[i]) = f THEN 1 ELSE 0) = 0
        BY <2>5
      <3> DEFINE slot == IF i < Len(frames) /\ FieldAt(frames[i]) = f THEN 1 ELSE 0
                 size == Len(frames[i].val[f.name])
      <3>2. slot = 0 /\ size \in Nat /\ size <= f.count
        BY <2>2, <2>3, <3>1
      <3> HIDE DEF slot, size
      <3>3. size + slot <= f.count
        BY <3>2
      <3> QED
        BY <3>3 DEF slot, size
    <2> QED
      BY <2>4, <2>5
  <1> QED
    BY <1>1, DecoderInvariance, PTL

-----------------------------------------------------------------------------
(* What a varint spells: its groups of bits, the lowest first.             *)

Spells(s) ==
  LET number[n \in 0 .. s.left] ==
        IF n = 0 THEN 0
        ELSE number[n - 1] + Payload(buf[s.pos + n]) * Power(2, GroupBits * (n - 1))
  IN number

\* The remainder of a division is the only one below the divisor.
LEMMA Remainder ==
  ASSUME NEW a \in Nat, NEW q \in Nat, NEW r \in Nat, NEW m \in Nat \ {0},
         a = q * m + r, r < m
  PROVE  a % m = r
  OBVIOUS

\* A multiple of the divisor does not change it.
LEMMA RemainderOfSum ==
  ASSUME NEW a \in Nat, NEW q \in Nat, NEW m \in Nat \ {0}
  PROVE  (a + q * m) % m = a % m
  <1> DEFINE p == a \div m
             r == a % m
             x == q * m
             y == p * m
  <1>1. p \in Nat /\ r \in Nat /\ r < m /\ a = m * p + r
    OBVIOUS
  <1>2. x \in Nat /\ y \in Nat /\ a = y + r
    <2> HIDE DEF p, r
    <2> QED
      BY <1>1
  <1>3. (p + q) * m = y + x
    <2> HIDE DEF p
    <2> QED
      BY <1>1
  <1> HIDE DEF x, y, p, r
  <1>4. a + x = (p + q) * m + r
    BY <1>1, <1>2, <1>3
  <1>5. (a + x) % m = r
    <2> DEFINE b == a + x
               k == p + q
    <2>1. b \in Nat /\ k \in Nat /\ b = k * m + r
      BY <1>1, <1>2, <1>4
    <2> HIDE DEF b, k
    <2>2. b % m = r
      BY <1>1, <2>1, Remainder
    <2> QED
      BY <2>2 DEF b
  <1> QED
    BY <1>5 DEF x, r

\* The bits a shifted number gets do not touch those below, and those it loses
\* are the ones beyond the width.
LEMMA ShiftAdds ==
  ASSUME NEW a \in Nat, NEW x \in Nat, NEW p \in Nat, NEW width \in Nat,
         a < Power(2, p)
  PROVE  (a % Power(2, width)) + ShiftLeft(x, p, width)
           = (a + x * Power(2, p)) % Power(2, width)
  <1> DEFINE m == Power(2, width)
             d == Power(2, p)
  <1>1. m \in Nat \ {0} /\ d \in Nat \ {0}
    BY PowerPositive
  <1>2. CASE p >= width
    <2> DEFINE e == Power(2, p - width)
               q == x * e
    <2>1. p - width \in Nat /\ (p - width) + width = p
      BY <1>2
    <2>2. e \in Nat
      BY <2>1, PowerDef
    <2>3. d = e * m
      <3>1. Power(2, (p - width) + width) = e * m
        BY <2>1, PowerSum
      <3> QED
        BY <2>1, <3>1
    <2> HIDE DEF e, m, d
    <2>4. q \in Nat /\ x * d = q * m
      BY <1>1, <2>2, <2>3
    <2> HIDE DEF q
    <2>5. (a + q * m) % m = a % m
      BY <1>1, <2>4, RemainderOfSum
    <2>6. ShiftLeft(x, p, width) = 0 /\ a % m \in Nat
      BY <1>1, <1>2 DEF ShiftLeft
    <2> QED
      BY <2>4, <2>5, <2>6 DEF m, d
  <1>3. CASE p < width
    <2> DEFINE c == Power(2, width - p)
               q == x \div c
               t == x % c
               u == t * d
    <2>1. width - p \in Nat /\ (width - p) + p = width
      BY <1>3
    <2>2. c \in Nat \ {0}
      BY <2>1, PowerPositive
    <2>3. m = c * d
      <3>1. Power(2, (width - p) + p) = c * d
        BY <2>1, PowerSum
      <3> QED
        BY <2>1, <3>1
    <2>4. ShiftLeft(x, p, width) = u
      BY <1>3 DEF ShiftLeft
    <2> HIDE DEF c, m, d
    <2>5. q \in Nat /\ t \in Nat /\ t < c /\ x = c * q + t
      BY <2>2
    <2> HIDE DEF q, t
    <2>6. u \in Nat /\ u + d <= m
      <3>1. u \in Nat
        BY <1>1, <2>5
      <3>2. (t + 1) * d <= c * d
        BY <1>1, <2>2, <2>5
      <3>3. (t + 1) * d = u + d
        BY <1>1, <2>5
      <3> QED
        BY <2>3, <3>1, <3>2, <3>3
    <2>7. x * d = q * m + u
      <3>1. (c * q + t) * d = (c * q) * d + t * d
        BY <1>1, <2>2, <2>5
      <3>2. (c * q) * d = q * (c * d)
        BY <1>1, <2>2, <2>5
      <3> QED
        BY <2>3, <2>5, <3>1, <3>2
    <2> HIDE DEF u
    <2>8. a < d /\ a < m /\ a + u \in Nat /\ a + u < m
      BY <1>1, <2>6 DEF d
    <2> DEFINE w == q * m
    <2>9. w \in Nat
      BY <1>1, <2>5
    <2> HIDE DEF w
    <2>10. a + x * d = w + (a + u)
      BY <2>6, <2>7, <2>9 DEF w
    <2>11. (a + x * d) % m = a + u
      <3> DEFINE b == a + u
                 n == a + x * d
      <3>1. n = q * m + b /\ n \in Nat /\ b \in Nat /\ b < m
        BY <2>8, <2>9, <2>10 DEF w
      <3> HIDE DEF b, n
      <3>2. n % m = b
        BY <1>1, <2>5, <3>1, Remainder
      <3> QED
        BY <3>2 DEF b, n
    <2>12. a % m = a
      BY <1>1, <2>8
    <2> QED
      BY <2>4, <2>11, <2>12 DEF m, d
  <1> QED
    BY <1>2, <1>3

\* A group of bits is below the next one.
LEMMA GroupBelow ==
  ASSUME NEW a \in Nat, NEW x \in Nat, NEW p \in Nat, NEW g \in Nat,
         a < Power(2, p), x < Power(2, g)
  PROVE  a + x * Power(2, p) \in Nat /\ a + x * Power(2, p) < Power(2, p + g)
  <1> DEFINE d == Power(2, p)
             c == Power(2, g)
             u == x * d
  <1>1. d \in Nat /\ c \in Nat /\ Power(2, p + g) = d * c
    BY PowerDef, PowerSum
  <1> HIDE DEF c, d
  <1>2. (x + 1) * d <= c * d
    BY <1>1 DEF c
  <1>3. (x + 1) * d = u + d /\ u \in Nat /\ c * d = d * c
    BY <1>1
  <1> HIDE DEF u
  <1>4. a < d
    BY DEF d
  <1> QED
    BY <1>1, <1>2, <1>3, <1>4 DEF u, d

\* The numbers are what their recursion says, and n bytes spell no more than
\* their bits can hold.
LEMMA SpellsDef ==
  ASSUME Chunk, NEW s, IsStream(s)
  PROVE  /\ Spells(s)[0] = 0
         /\ \A n \in 1 .. s.left :
              /\ Payload(buf[s.pos + n]) \in Nat
              /\ Payload(buf[s.pos + n]) < Power(2, GroupBits)
              /\ GroupBits * (n - 1) \in Nat
              /\ Spells(s)[n] =
                   Spells(s)[n - 1] + Payload(buf[s.pos + n]) * Power(2, GroupBits * (n - 1))
         /\ \A n \in 0 .. s.left :
              Spells(s)[n] \in Nat /\ Spells(s)[n] < Power(2, GroupBits * n)
  <1> DEFINE more(k) == Payload(buf[s.pos + (k + 1)]) * Power(2, GroupBits * k)
             step == [k \in Nat |-> [x \in Nat |-> IF k < s.left THEN x + more(k) ELSE x]]
             f == Iterates(Nat, 0, step)
             Spelling(g) == g = [n \in 0 .. s.left |->
                                   IF n = 0 THEN 0
                                   ELSE g[n - 1] + Payload(buf[s.pos + n])
                                                     * Power(2, GroupBits * (n - 1))]
             number == CHOOSE g : Spelling(g)
  <1>1. s.pos \in Nat /\ s.left \in Nat /\ GroupBits \in Nat /\ 2 \in Nat \ {0}
    BY DecodeAssumption DEF IsStream
  <1>2. \A n \in 1 .. s.left : /\ Payload(buf[s.pos + n]) \in Nat
                               /\ Payload(buf[s.pos + n]) < Power(2, GroupBits)
    <2> TAKE n \in 1 .. s.left
    <2> DEFINE b == buf[s.pos + n]
               m == Power(2, GroupBits)
    <2>1. b \in Nat
      BY BytesAreNumbers
    <2>2. m \in Nat \ {0}
      BY <1>1, PowerPositive
    <2> HIDE DEF b, m
    <2>3. b % m \in Nat /\ b % m < m
      BY <2>1, <2>2
    <2> QED
      BY <2>3 DEF Payload, b, m
  <1>3. \A n \in Nat : GroupBits * n \in Nat /\ Power(2, GroupBits * n) \in Nat
    <2> TAKE n \in Nat
    <2>1. GroupBits * n \in Nat
      BY <1>1
    <2> QED
      BY <2>1, PowerDef
  <1>4. \A k \in Nat : k < s.left => more(k) \in Nat
    <2> SUFFICES ASSUME NEW k \in Nat, k < s.left PROVE more(k) \in Nat
      OBVIOUS
    <2> DEFINE x == Payload(buf[s.pos + (k + 1)])
               y == Power(2, GroupBits * k)
    <2>1. k + 1 \in 1 .. s.left
      BY <1>1
    <2>2. x \in Nat /\ y \in Nat
      BY <1>2, <1>3, <2>1
    <2> HIDE DEF x, y
    <2>3. x * y \in Nat
      BY <2>2
    <2> QED
      BY <2>3 DEF x, y
  <1> HIDE DEF more
  <1>5. f \in [Nat -> Nat] /\ f[0] = 0 /\ \A k \in Nat : f[k + 1] = step[k][f[k]]
    <2>1. step \in [Nat -> [Nat -> Nat]]
      BY <1>1, <1>4
    <2>2. Follows(f, Nat, 0, step)
      <3> HIDE DEF step
      <3> QED
        BY <2>1, Recursion
    <2> HIDE DEF f
    <2> QED
      BY <2>2 DEF Follows
  <1> HIDE DEF f
  <1>6. ASSUME NEW n \in 1 .. s.left
        PROVE  f[n] = f[n - 1] + Payload(buf[s.pos + n]) * Power(2, GroupBits * (n - 1))
    <2>1. n - 1 \in Nat /\ (n - 1) + 1 = n /\ n - 1 < s.left
      BY <1>1
    <2>2. f[n - 1] \in Nat /\ f[(n - 1) + 1] = step[n - 1][f[n - 1]]
      <3> HIDE DEF step
      <3> QED
        BY <1>5, <2>1
    <2>3. f[n] = f[n - 1] + more(n - 1)
      BY <2>1, <2>2
    <2>4. more(n - 1) = Payload(buf[s.pos + n]) * Power(2, GroupBits * (n - 1))
      <3>1. more(n - 1) =
              Payload(buf[s.pos + ((n - 1) + 1)]) * Power(2, GroupBits * (n - 1))
        BY DEF more
      <3> QED
        BY <2>1, <3>1
    <2> QED
      BY <2>3, <2>4
  <1>7. \E g : Spelling(g)
    <2> DEFINE g == [n \in 0 .. s.left |-> f[n]]
    <2>1. \A n \in 1 .. s.left : n - 1 \in 0 .. s.left /\ g[n - 1] = f[n - 1]
      BY <1>1
    <2>2. \A n \in 0 .. s.left : n # 0 => n \in 1 .. s.left
      BY <1>1
    <2>3. \A n \in 0 .. s.left :
            f[n] = IF n = 0 THEN 0
                   ELSE g[n - 1] + Payload(buf[s.pos + n]) * Power(2, GroupBits * (n - 1))
      <3> HIDE DEF g
      <3> QED
        BY <1>5, <1>6, <2>1, <2>2
    <2>4. Spelling(g)
      BY <2>3
    <2> HIDE DEF g, Spelling
    <2> QED
      BY <2>4
  <1>8. Spelling(number)
    <2> HIDE DEF Spelling
    <2> QED
      BY <1>7
  <1>9. Spells(s) = number
    BY DEF Spells
  <1> HIDE DEF number
  <1>10. /\ number[0] = 0
         /\ \A n \in 1 .. s.left :
              number[n] = number[n - 1] + Payload(buf[s.pos + n]) * Power(2, GroupBits * (n - 1))
    <2>1. 0 \in 0 .. s.left /\ \A n \in 1 .. s.left : n \in 0 .. s.left /\ n # 0
      BY <1>1
    <2>2. \A n \in 0 .. s.left :
            number[n] = IF n = 0 THEN 0
                        ELSE number[n - 1]
                               + Payload(buf[s.pos + n]) * Power(2, GroupBits * (n - 1))
      BY <1>8, Zenon
    <2> QED
      BY <2>1, <2>2, Zenon
  <1> DEFINE below == {n \in Nat : n <= s.left =>
                         number[n] \in Nat /\ number[n] < Power(2, GroupBits * n)}
  <1>11. \A n \in Nat : n \in below
    <2>1. 0 \in below
      <3>1. GroupBits * 0 = 0 /\ Power(2, 0) = 1
        BY <1>1, PowerDef
      <3> QED
        BY <1>10, <3>1
    <2>2. ASSUME NEW n \in Nat, n \in below PROVE n + 1 \in below
      <3> SUFFICES ASSUME n + 1 <= s.left
                   PROVE  /\ number[n + 1] \in Nat
                          /\ number[n + 1] < Power(2, GroupBits * (n + 1))
        OBVIOUS
      <3> DEFINE a == number[n]
                 x == Payload(buf[s.pos + (n + 1)])
                 e == GroupBits * n
      <3>1. n + 1 \in 1 .. s.left /\ (n + 1) - 1 = n /\ n <= s.left
        BY <1>1
      <3>2. a \in Nat /\ a < Power(2, e) /\ e \in Nat
        BY <1>3, <2>2, <3>1
      <3>3. x \in Nat /\ x < Power(2, GroupBits)
        BY <1>2, <3>1
      <3>4. number[n + 1] = a + x * Power(2, e)
        <4>1. number[n + 1] = number[(n + 1) - 1]
                + Payload(buf[s.pos + (n + 1)]) * Power(2, GroupBits * ((n + 1) - 1))
          BY <1>10, <3>1
        <4> QED
          BY <3>1, <4>1
      <3>5. GroupBits * (n + 1) = e + GroupBits
        BY <1>1
      <3> HIDE DEF a, x, e
      <3> QED
        <4>1. a + x * Power(2, e) \in Nat /\ a + x * Power(2, e) < Power(2, e + GroupBits)
          BY <1>1, <3>2, <3>3, GroupBelow
        <4> QED
          BY <3>4, <3>5, <4>1, Zenon
    <2> HIDE DEF below
    <2> QED
      BY <2>1, <2>2, Induction
  <1>12. \A n \in 0 .. s.left : number[n] \in Nat /\ number[n] < Power(2, GroupBits * n)
    BY <1>1, <1>11
  <1>13. \A n \in 1 .. s.left : GroupBits * (n - 1) \in Nat
    <2> TAKE n \in 1 .. s.left
    <2>1. n - 1 \in Nat
      BY <1>1
    <2> QED
      BY <1>3, <2>1
  <1> QED
    BY <1>2, <1>9, <1>10, <1>12, <1>13

\* Greater exponents make no smaller powers.
LEMMA PowerGrows ==
  ASSUME NEW m \in Nat, NEW n \in Nat, m <= n
  PROVE  Power(2, m) <= Power(2, n)
  <1> DEFINE x == Power(2, m)
             y == Power(2, n - m)
  <1>1. n - m \in Nat /\ m + (n - m) = n
    OBVIOUS
  <1>2. Power(2, n) = x * y
    <2>1. Power(2, m + (n - m)) = x * y
      BY <1>1, PowerSum
    <2> QED
      BY <1>1, <2>1
  <1>3. x \in Nat \ {0} /\ y \in Nat \ {0}
    BY <1>1, PowerPositive
  <1> HIDE DEF x, y
  <1>4. x <= x * y
    BY <1>3
  <1> QED
    BY <1>2, <1>4 DEF x

\* Past32 is the first multiple of GroupBits from Bits32 on.
LEMMA Past32Def ==
  /\ Past32 \in Nat /\ Bits32 <= Past32 /\ Past32 < Bits32 + GroupBits
  /\ \A n \in Nat : GroupBits * n <= Past32 /\ GroupBits * n >= Bits32 => GroupBits * n = Past32
  <1> DEFINE g == GroupBits
             q == (Bits32 + g - 1) \div g
             p == g * q
  <1>1. g \in Nat \ {0} /\ Bits32 \in Nat \ {0}
    BY WidthsAreNumbers
  <1> HIDE DEF g
  <1>2. q \in Nat /\ p <= Bits32 + g - 1 /\ Bits32 + g - 1 < p + g
    <2> DEFINE a == Bits32 + g - 1
    <2>1. a \in Nat
      BY <1>1
    <2> HIDE DEF a
    <2>2. a \div g \in Nat /\ g * (a \div g) <= a /\ a < g * (a \div g) + g
      BY <1>1, <2>1
    <2> QED
      BY <2>2 DEF a
  <1>3. p % g = 0 /\ p \in Nat
    <2> HIDE DEF q
    <2>1. p \in Nat /\ p = q * g + 0
      BY <1>1, <1>2
    <2> HIDE DEF p
    <2> QED
      BY <1>1, <1>2, <2>1, Remainder
  <1>4. p \in Bits32 .. Bits32 + g - 1
    <2> HIDE DEF p
    <2> QED
      BY <1>1, <1>2, <1>3
  <1>5. Past32 \in Bits32 .. Bits32 + g - 1 /\ Past32 % g = 0
    <2> HIDE DEF p
    <2> QED
      BY <1>3, <1>4 DEF Past32, g
  <1>6. Past32 \in Nat /\ Bits32 <= Past32 /\ Past32 < Bits32 + g
    BY <1>1, <1>5
  <1>7. ASSUME NEW n \in Nat, g * n <= Past32, g * n >= Bits32 PROVE g * n = Past32
    <2> DEFINE j == Past32 \div g
    <2>1. j \in Nat /\ Past32 = g * j
      <3> DEFINE a == Past32
      <3>1. a \in Nat /\ a % g = 0
        BY <1>5, <1>6
      <3> HIDE DEF a
      <3>2. a \div g \in Nat /\ a = g * (a \div g) + (a % g)
        BY <1>1, <3>1
      <3> DEFINE i == a \div g
      <3>3. i \in Nat /\ g * i \in Nat /\ a = g * i
        <4> HIDE DEF i
        <4>1. i \in Nat /\ a = g * i + 0
          BY <3>1, <3>2 DEF i
        <4>2. g * i \in Nat
          BY <1>1, <4>1
        <4> QED
          BY <4>1, <4>2
      <3>4. i = j
        BY DEF a
      <3> HIDE DEF i, j
      <3> QED
        BY <3>3, <3>4 DEF a
    <2> HIDE DEF j
    <2>2. g * n <= g * j /\ g * j < g * n + g
      BY <1>1, <1>6, <1>7, <2>1
    <2>3. n <= j
      BY <1>1, <2>1, <2>2
    <2>4. ~(j >= n + 1)
      <3> SUFFICES ASSUME j >= n + 1 PROVE FALSE
        OBVIOUS
      <3>1. g * j >= g * (n + 1) /\ g * (n + 1) = g * n + g
        BY <1>1, <2>1
      <3> QED
        BY <1>1, <2>1, <2>2, <3>1
    <2>5. n = j
      BY <2>1, <2>3, <2>4
    <2> QED
      BY <2>1, <2>5
  <1> QED
    BY <1>6, <1>7 DEF g

\* Where a loop is after k bytes that spell the number a.
IsAt(v, k, a, width) ==
  v.n = k /\ v.bitpos = GroupBits * k /\ v.result = a % Power(2, width)

\* A turn that does not overflow adds the bits of its byte.
LEMMA TurnSpells ==
  ASSUME NEW width \in Widths, NEW v \in Turned, v.state = "more",
         NEW k \in Nat, NEW a \in Nat, IsAt(v, k, a, width), a < Power(2, GroupBits * k),
         NEW b \in Nat, Turn(width, v, b).state # "overflow"
  PROVE  /\ IsAt(Turn(width, v, b), k + 1, a + Payload(b) * Power(2, GroupBits * k), width)
         /\ Turn(width, v, b).state = IF Continues(b) THEN "more" ELSE "done"
         /\ GroupBits * k < Bits64
  <1> DEFINE p == GroupBits * k
             x == Payload(b)
             more == ShiftLeft(x, p, width)
             w == Turn(width, v, b)
  <1>1. /\ Bits32 \in Nat /\ Bits64 \in Nat /\ Bits32 < Bits64 /\ GroupBits \in Nat
        /\ width \in {Bits32, Bits64} /\ width \in Nat
    BY WidthsAreNumbers
  <1>2. p \in Nat /\ GroupBits * (k + 1) = p + GroupBits
    BY <1>1
  <1>3. x \in Nat /\ more \in Nat
    BY <1>1, <1>2, PayloadBits, Shifted
  <1> HIDE DEF p, x
  <1>4. (a % Power(2, width)) + more = (a + x * Power(2, p)) % Power(2, width)
    BY <1>1, <1>2, <1>3, ShiftAdds DEF p
  <1>5. v.bitpos = p /\ v.n = k /\ v.result = a % Power(2, width)
    BY DEF IsAt, p
  <1>6. v.result + more = (a + x * Power(2, p)) % Power(2, width)
    BY <1>4, <1>5
  <1>7. p >= width => more = 0
    BY DEF ShiftLeft
  <1>8. v.result \in Nat
    BY DEF Turned
  <1> HIDE DEF more
  <1>9. CASE width = Bits32
    <2>1. w = Turn32(v, b)
      BY <1>1, <1>9 DEF Turn
    <2>2. w.n = k + 1 /\ w.bitpos = p + GroupBits
      BY <1>5, <2>1 DEF Turn32
    <2>3. w.result = v.result + more
      <3>1. CASE p >= Bits32
        BY <1>5, <1>7, <1>8, <1>9, <2>1, <3>1 DEF Turn32
      <3>2. CASE ~(p >= Bits32)
        BY <1>5, <1>9, <2>1, <3>2 DEF Turn32, more, x
      <3> QED
        BY <3>1, <3>2
    <2>4. w.state = (IF Continues(b) THEN "more" ELSE "done") /\ ~(p >= Bits32 /\ p >= Bits64)
      BY <1>5, <2>1 DEF Turn32
    <2> HIDE DEF w
    <2> QED
      BY <1>1, <1>2, <1>6, <2>2, <2>3, <2>4 DEF IsAt, w, p, x
  <1>10. CASE width = Bits64
    <2>1. w = Turn64(v, b)
      BY <1>1, <1>10 DEF Turn
    <2>2. ~(p >= Bits64)
      BY <1>5, <2>1 DEF Turn64
    <2>3. w.n = k + 1 /\ w.bitpos = p + GroupBits
      BY <1>5, <2>1, <2>2 DEF Turn64
    <2>4. w.result = v.result + more
      BY <1>5, <1>10, <2>1, <2>2 DEF Turn64, more, x
    <2>5. w.state = IF Continues(b) THEN "more" ELSE "done"
      BY <1>5, <2>1, <2>2 DEF Turn64
    <2> HIDE DEF w
    <2> QED
      BY <1>1, <1>2, <1>6, <2>2, <2>3, <2>4, <2>5 DEF IsAt, w, p, x
  <1> QED
    BY <1>1, <1>9, <1>10

\* A group of bits that are not all below an exponent is not below it.
LEMMA GroupAbove ==
  ASSUME NEW a \in Nat, NEW x \in Nat, NEW p \in Nat, NEW g \in Nat, x >= Power(2, g)
  PROVE  a + x * Power(2, p) >= Power(2, p + g)
  <1> DEFINE d == Power(2, p)
             c == Power(2, g)
             u == x * d
  <1>1. d \in Nat /\ c \in Nat /\ Power(2, p + g) = d * c /\ x >= c
    <2>1. d \in Nat /\ c \in Nat
      BY PowerDef
    <2>2. Power(2, p + g) = d * c
      BY PowerSum
    <2> QED
      BY <2>1, <2>2
  <1> HIDE DEF c, d
  <1>2. u \in Nat /\ u >= d * c
    BY <1>1
  <1> HIDE DEF u
  <1>3. a + u >= d * c
    <2>1. d * c \in Nat
      BY <1>1
    <2> QED
      BY <1>2, <2>1
  <1> QED
    BY <1>1, <1>3 DEF u, d

\* A turn overflows at the end of 64 bits, or of 32 when they do not hold the
\* number.
LEMMA TurnOverflows ==
  ASSUME NEW width \in Widths, NEW v \in Turned, v.state = "more",
         NEW k \in Nat, NEW a \in Nat, IsAt(v, k, a, width),
         NEW b \in Nat, Turn(width, v, b).state = "overflow"
  PROVE  \/ GroupBits * k >= Bits64
         \/ width = Bits32 /\ a + Payload(b) * Power(2, GroupBits * k) >= Power(2, Bits32)
  <1> DEFINE p == GroupBits * k
             x == Payload(b)
  <1>1. /\ Bits32 \in Nat /\ Bits64 \in Nat /\ Bits32 < Bits64 /\ GroupBits \in Nat
        /\ width \in {Bits32, Bits64}
    BY WidthsAreNumbers
  <1>2. p \in Nat /\ x \in Nat /\ v.bitpos = p
    BY <1>1, PayloadBits DEF IsAt
  <1>3. CASE width = Bits64
    <2>1. Turn(width, v, b) = Turn64(v, b)
      BY <1>1, <1>3 DEF Turn
    <2>2. v.bitpos >= Bits64
      BY <2>1 DEF Turn64
    <2> QED
      BY <1>2, <2>2
  <1>4. CASE width = Bits32
    <2> HIDE DEF p, x
    <2>1. Turn(width, v, b) = Turn32(v, b)
      BY <1>1, <1>4 DEF Turn
    <2>2. \/ p >= Bits64
          \/ p >= Bits32 /\ x # 0
          \/ p + GroupBits = Past32 /\ x >= Power(2, Bits32 - p)
      BY <1>2, <2>1 DEF Turn32, x
    <2>3. CASE p >= Bits64
      BY <2>3 DEF p
    <2>4. CASE p >= Bits32 /\ x # 0
      <3>1. x >= Power(2, 0) /\ p + 0 = p
        BY <1>2, <2>4, PowerDef
      <3>2. a + x * Power(2, p) >= Power(2, p)
        <4>1. a + x * Power(2, p) >= Power(2, p + 0)
          BY <1>2, <3>1, GroupAbove
        <4> QED
          BY <3>1, <4>1
      <3>3. Power(2, p) >= Power(2, Bits32)
        BY <1>1, <1>2, <2>4, PowerGrows
      <3> DEFINE y == x * Power(2, p)
                 c == Power(2, p)
                 d == Power(2, Bits32)
      <3>4. y \in Nat /\ c \in Nat /\ d \in Nat
        <4>1. c \in Nat /\ d \in Nat
          BY <1>1, <1>2, PowerDef
        <4> HIDE DEF c, d
        <4> QED
          BY <1>2, <4>1 DEF c
      <3>5. a + y >= d
        <4>1. a + y >= c /\ c >= d
          BY <3>2, <3>3
        <4> HIDE DEF y, c, d
        <4> QED
          BY <3>4, <4>1
      <3> QED
        BY <1>4, <3>5 DEF p, x
    <2>5. CASE p + GroupBits = Past32 /\ x >= Power(2, Bits32 - p)
      <3>1. Bits32 - p \in Nat /\ p + (Bits32 - p) = Bits32
        BY <1>1, <1>2, <2>5, Past32Def
      <3>2. a + x * Power(2, p) >= Power(2, p + (Bits32 - p))
        BY <1>2, <2>5, <3>1, GroupAbove
      <3> QED
        BY <1>4, <3>1, <3>2 DEF p, x
    <2> QED
      BY <2>2, <2>3, <2>4, <2>5
  <1> QED
    BY <1>1, <1>3, <1>4

\* The last byte that holds some of 32 bits holds no others.
LEMMA TurnFits ==
  ASSUME NEW v \in Turned, v.state = "more",
         NEW k \in Nat, NEW a \in Nat, IsAt(v, k, a, Bits32), a < Power(2, GroupBits * k),
         NEW b \in Nat, Turn(Bits32, v, b).state = "done", GroupBits * (k + 1) <= Past32
  PROVE  a + Payload(b) * Power(2, GroupBits * k) < Power(2, Bits32)
  <1> DEFINE p == GroupBits * k
             x == Payload(b)
  <1>1. Bits32 \in Nat /\ Bits64 \in Nat /\ Bits32 < Bits64 /\ GroupBits \in Nat
    BY WidthsAreNumbers
  <1>2. p \in Nat /\ x \in Nat /\ v.bitpos = p /\ GroupBits * (k + 1) = p + GroupBits
    BY <1>1, PayloadBits DEF IsAt
  <1>3. x < Power(2, GroupBits)
    <2> DEFINE m == Power(2, GroupBits)
    <2>1. m \in Nat \ {0}
      BY <1>1, PowerPositive
    <2> HIDE DEF m
    <2>2. b % m < m
      BY <2>1
    <2> QED
      BY <2>2 DEF Payload, m
  <1>4. Turn(Bits32, v, b) = Turn32(v, b)
    BY <1>1 DEF Turn
  <1>5. p + GroupBits = Past32 => ~(x >= Power(2, Bits32 - p))
    BY <1>2, <1>4 DEF Turn32, x
  <1>6. Past32 \in Nat /\ Past32 < Bits32 + GroupBits
        /\ (p + GroupBits >= Bits32 => p + GroupBits = Past32)
    <2>1. k + 1 \in Nat
      OBVIOUS
    <2> HIDE DEF p
    <2> QED
      BY <1>2, <2>1, Past32Def
  <1> HIDE DEF p, x
  <1>7. CASE p + GroupBits < Bits32
    <2> DEFINE y == x * Power(2, p)
               c == Power(2, p + GroupBits)
               d == Power(2, Bits32)
    <2>1. a + y \in Nat /\ a + y < c
      BY <1>1, <1>2, <1>3, GroupBelow DEF p
    <2>2. c <= d /\ c \in Nat /\ d \in Nat
      <3>1. p + GroupBits \in Nat /\ p + GroupBits <= Bits32
        BY <1>1, <1>2, <1>7
      <3>2. c \in Nat /\ d \in Nat
        BY <1>1, <3>1, PowerDef
      <3>3. c <= d
        BY <1>1, <3>1, PowerGrows
      <3> QED
        BY <3>2, <3>3
    <2>3. a + y < d
      <3> HIDE DEF y, c, d
      <3> QED
        BY <2>1, <2>2
    <2> QED
      BY <2>3 DEF p, x
  <1>8. CASE p + GroupBits >= Bits32
    <2>1. Bits32 - p \in Nat /\ p + (Bits32 - p) = Bits32
      BY <1>1, <1>2, <1>6, <1>8
    <2>2. x < Power(2, Bits32 - p)
      <3> DEFINE c == Power(2, Bits32 - p)
      <3>1. c \in Nat /\ ~(x >= c)
        BY <1>5, <1>6, <1>8, <2>1, PowerDef
      <3> HIDE DEF c
      <3>2. x < c
        BY <1>2, <3>1
      <3> QED
        BY <3>2 DEF c
    <2>3. a + x * Power(2, p) < Power(2, p + (Bits32 - p))
      BY <1>2, <2>1, <2>2, GroupBelow DEF p
    <2> QED
      BY <2>1, <2>3 DEF p, x
  <1> QED
    BY <1>1, <1>2, <1>7, <1>8

\* Where a loop over a stream is after k bytes.
LoopAt(width, s, k) ==
  LET v == After(width, s)[k]
      number == Spells(s)[k]
  IN \/ /\ v.state = "overflow"
        /\ \/ GroupBits * (k - 1) >= Bits64
           \/ width = Bits32 /\ number >= Power(2, Bits32)
     \/ /\ IsAt(v, k, number, width)
        /\ k > 0 => GroupBits * (k - 1) < Bits64
        /\ v.state = IF k > 0 => Continues(buf[s.pos + k]) THEN "more" ELSE "done"
        /\ width = Bits32 /\ v.state = "done" /\ GroupBits * k <= Past32 =>
             number < Power(2, Bits32)

\* One turn more.
LEMMA LoopTurns ==
  ASSUME Chunk, NEW s, IsStream(s), NEW width \in Widths, NEW k \in Nat,
         k + 1 <= s.left, k + 1 <= VarintSize(s), LoopAt(width, s, k)
  PROVE  LoopAt(width, s, k + 1)
  <1> DEFINE v == After(width, s)[k]
             w == After(width, s)[k + 1]
             b == buf[s.pos + (k + 1)]
             a == Spells(s)[k]
             y == Payload(b) * Power(2, GroupBits * k)
             c == Spells(s)[k + 1]
  <1>1. s.pos \in Nat /\ s.left \in Nat /\ k \in 0 .. s.left /\ k + 1 \in 1 .. s.left
        /\ (k + 1) - 1 = k
    BY DEF IsStream
  <1>2. b \in Nat
    BY <1>1 DEF IsStream, Chunk
  <1>3. v \in Turned /\ w = Turn(width, v, b)
    <2>1. After(width, s)[k + 1] =
            Turn(width, After(width, s)[(k + 1) - 1], buf[s.pos + (k + 1)])
      BY <1>1, LoopDef
    <2> QED
      BY <1>1, <2>1, LoopDef
  <1>4. a \in Nat /\ a < Power(2, GroupBits * k)
    BY <1>1, SpellsDef
  <1>5. c = a + y
    <2>1. c = Spells(s)[(k + 1) - 1]
                + Payload(buf[s.pos + (k + 1)]) * Power(2, GroupBits * ((k + 1) - 1))
      BY <1>1, SpellsDef
    <2> QED
      BY <1>1, <2>1
  <1>6. y \in Nat
    <2> DEFINE x == Payload(b)
               d == Power(2, GroupBits * k)
    <2>1. x \in Nat
      BY <1>2, PayloadBits
    <2>2. d \in Nat
      <3>1. GroupBits * k \in Nat
        BY DecodeAssumption
      <3> QED
        BY <3>1, PowerDef
    <2> HIDE DEF x, d
    <2>3. x * d \in Nat
      BY <2>1, <2>2
    <2> QED
      BY <2>3 DEF x, d
  <1>7. k > 0 => Continues(buf[s.pos + k])
    <2>1. k > 0 => k \in 1 .. VarintSize(s) - 1
      <3>1. VarintSize(s) \in Nat
        BY <1>1, SizeOfVarint
      <3> QED
        BY <3>1
    <2> QED
      BY <2>1, SizeOfVarint
  <1> DEFINE Over(u, j, n) ==
               /\ u.state = "overflow"
               /\ \/ GroupBits * (j - 1) >= Bits64
                  \/ width = Bits32 /\ n >= Power(2, Bits32)
             Fits(u, j, n) ==
               /\ IsAt(u, j, n, width)
               /\ j > 0 => GroupBits * (j - 1) < Bits64
               /\ u.state = IF j > 0 => Continues(buf[s.pos + j]) THEN "more" ELSE "done"
               /\ width = Bits32 /\ u.state = "done" /\ GroupBits * j <= Past32 =>
                    n < Power(2, Bits32)
  <1>8. Over(v, k, a) \/ Fits(v, k, a)
    BY DEF LoopAt
  <1>9. SUFFICES Over(w, k + 1, c) \/ Fits(w, k + 1, c)
    BY DEF LoopAt
  <1> HIDE DEF v, w, b, a, y, c
  <1>10. CASE Over(v, k, a)
    <2>1. w = v
      BY <1>3, <1>10 DEF Turn
    <2>2. GroupBits * (k - 1) >= Bits64 => GroupBits * ((k + 1) - 1) >= Bits64
      <3>1. GroupBits * ((k + 1) - 1) = GroupBits * (k - 1) + GroupBits
            /\ GroupBits * (k - 1) \in Int
        BY DecodeAssumption
      <3> DEFINE g == GroupBits * (k - 1)
                 h == GroupBits * ((k + 1) - 1)
      <3>2. h = g + GroupBits /\ g \in Int /\ GroupBits \in Nat /\ Bits64 \in Nat
        BY <3>1, WidthsAreNumbers
      <3> HIDE DEF g, h
      <3>3. g >= Bits64 => h >= Bits64
        BY <3>2
      <3> QED
        BY <3>3 DEF g, h
    <2>3. a >= Power(2, Bits32) => c >= Power(2, Bits32)
      <3> DEFINE d == Power(2, Bits32)
      <3>1. d \in Nat
        <4>1. Bits32 \in Nat
          BY WidthsAreNumbers
        <4> QED
          BY <4>1, PowerDef
      <3> HIDE DEF d
      <3>2. a >= d => c >= d
        BY <1>4, <1>5, <1>6, <3>1
      <3> QED
        BY <3>2 DEF d
    <2>4. Over(w, k + 1, c)
      BY <1>10, <2>1, <2>2, <2>3
    <2> HIDE DEF Over
    <2> QED
      BY <2>4
  <1>11. CASE Fits(v, k, a)
    <2>1. IsAt(v, k, a, width) /\ v.state = "more"
      BY <1>7, <1>11
    <2>2. CASE w.state = "overflow"
      <3>1. \/ GroupBits * k >= Bits64
            \/ width = Bits32 /\ c >= Power(2, Bits32)
        BY <1>2, <1>3, <1>4, <1>5, <2>1, <2>2, TurnOverflows DEF y
      <3>2. Over(w, k + 1, c)
        BY <1>1, <2>2, <3>1
      <3> HIDE DEF Over
      <3> QED
        BY <3>2
    <2>3. CASE w.state # "overflow"
      <3>1. /\ IsAt(w, k + 1, c, width) /\ GroupBits * k < Bits64
            /\ w.state = IF Continues(b) THEN "more" ELSE "done"
        BY <1>2, <1>3, <1>4, <1>5, <2>1, <2>3, TurnSpells DEF y
      <3>2. width = Bits32 /\ w.state = "done" /\ GroupBits * (k + 1) <= Past32 =>
              c < Power(2, Bits32)
        BY <1>2, <1>3, <1>4, <1>5, <2>1, TurnFits DEF y
      <3>3. k + 1 > 0
        OBVIOUS
      <3>4. Fits(w, k + 1, c)
        BY <1>1, <3>1, <3>2, <3>3 DEF b
      <3> HIDE DEF Fits
      <3> QED
        BY <3>4
    <2> QED
      BY <2>2, <2>3
  <1> HIDE DEF Over, Fits
  <1> QED
    BY <1>8, <1>10, <1>11

\* So every turn leaves the loop where the bytes it took say.
LEMMA LoopSpells ==
  ASSUME Chunk, NEW s, IsStream(s), NEW width \in Widths, NEW n \in Nat,
         n <= s.left, n <= VarintSize(s)
  PROVE  LoopAt(width, s, n)
  <1> DEFINE right == {k \in Nat : k <= n => LoopAt(width, s, k)}
  <1>1. 0 \in right
    <2>1. After(width, s)[0] = Unturned /\ Spells(s)[0] = 0
      BY LoopDef, SpellsDef
    <2>2. IsAt(Unturned, 0, 0, width)
      <3> DEFINE m == Power(2, width)
      <3>1. width \in Nat /\ GroupBits \in Nat
        BY WidthsAreNumbers
      <3>2. m \in Nat \ {0}
        BY <3>1, PowerPositive
      <3> HIDE DEF m
      <3>3. 0 % m = 0
        BY <3>2
      <3> QED
        BY <3>1, <3>3 DEF IsAt, Unturned, m
    <2>3. LoopAt(width, s, 0)
      BY <2>1, <2>2 DEF LoopAt, Unturned
    <2> QED
      BY <2>3
  <1>2. ASSUME NEW k \in Nat, k \in right PROVE k + 1 \in right
    <2> SUFFICES ASSUME k + 1 <= n PROVE LoopAt(width, s, k + 1)
      OBVIOUS
    <2>1. s.left \in Nat /\ VarintSize(s) \in Nat
      BY SizeOfVarint DEF IsStream
    <2>2. k + 1 <= s.left /\ k + 1 <= VarintSize(s) /\ LoopAt(width, s, k)
      BY <1>2, <2>1
    <2> QED
      BY <2>2, LoopTurns
  <1>3. \A k \in Nat : k \in right
    <2> HIDE DEF right
    <2> QED
      BY <1>1, <1>2, Induction
  <1> QED
    BY <1>3

\* What a varint loop returns: a varint that does not end in its stream fails,
\* as does one at which the loop overflows.
LEMMA LoopReturns ==
  ASSUME Chunk, NEW s, IsStream(s), NEW width \in Widths
  PROVE  LET n == VarintSize(s)
             loop == VarintLoop(width, s)
         IN /\ loop.ok => n <= s.left
            /\ n <= s.left =>
                 \/ /\ ~loop.ok
                    /\ \/ GroupBits * (n - 1) >= Bits64
                       \/ width = Bits32 /\ Spells(s)[n] >= Power(2, Bits32)
                 \/ /\ loop = Ok(Spells(s)[n] % Power(2, width), Stream(s.pos + n, s.left - n))
                    /\ GroupBits * (n - 1) < Bits64
                    /\ width = Bits32 /\ GroupBits * n <= Past32 =>
                         Spells(s)[n] < Power(2, Bits32)
  <1> DEFINE n == VarintSize(s)
             loop == VarintLoop(width, s)
             last == Min({n, s.left})
             v == After(width, s)[last]
  <1>1. s.left \in Nat /\ n \in 1 .. s.left + 1
    BY SizeOfVarint DEF IsStream
  <1>2. last \in {n, s.left} /\ last <= n /\ last <= s.left
    BY <1>1, SmallerOfTwo
  <1>3. loop = Result(v, s) /\ LoopAt(width, s, last)
    BY <1>1, <1>2, LoopDef, LoopSpells
  <1>4. v.state = "overflow" => ~loop.ok
    BY <1>3 DEF Result, Failed
  <1>5. CASE n = s.left + 1
    <2>1. last = s.left
      BY <1>1, <1>2, <1>5
    <2>2. last > 0 => Continues(buf[s.pos + last])
      <3>1. last > 0 => last \in 1 .. n - 1
        BY <1>1, <1>5, <2>1
      <3> QED
        BY <3>1, SizeOfVarint
    <2>3. v.state \in {"overflow", "more"}
      BY <1>3, <2>2 DEF LoopAt
    <2>4. ~loop.ok
      BY <1>3, <2>3 DEF Result, Failed
    <2> QED
      BY <1>1, <1>5, <2>4
  <1>6. CASE n <= s.left
    <2>1. last = n /\ n > 0 /\ n # s.left + 1
      BY <1>1, <1>2, <1>6
    <2>2. ~Continues(buf[s.pos + n])
      BY <2>1, SizeOfVarint
    <2>3. LoopAt(width, s, n)
      BY <1>3, <2>1
    <2> DEFINE number == Spells(s)[n]
    <2>4. \/ /\ v.state = "overflow"
             /\ \/ GroupBits * (n - 1) >= Bits64
                \/ width = Bits32 /\ number >= Power(2, Bits32)
          \/ /\ IsAt(v, n, number, width) /\ v.state = "done"
             /\ GroupBits * (n - 1) < Bits64
             /\ width = Bits32 /\ GroupBits * n <= Past32 => number < Power(2, Bits32)
      <3> HIDE DEF n, number
      <3> QED
        BY <2>1, <2>2, <2>3 DEF LoopAt, number
    <2>5. CASE v.state = "overflow"
      BY <1>4, <1>6, <2>4, <2>5
    <2>6. CASE v.state = "done"
      <3>1. /\ IsAt(v, n, number, width) /\ GroupBits * (n - 1) < Bits64
            /\ width = Bits32 /\ GroupBits * n <= Past32 => number < Power(2, Bits32)
        BY <2>4, <2>6
      <3>2. loop = Ok(v.result, Stream(s.pos + v.n, s.left - v.n))
        BY <1>3, <2>6 DEF Result
      <3>3. v.n = n /\ v.result = number % Power(2, width)
        BY <3>1 DEF IsAt
      <3>4. loop = Ok(number % Power(2, width), Stream(s.pos + n, s.left - n))
        BY <3>2, <3>3
      <3> QED
        BY <1>6, <3>1, <3>4
    <2> QED
      BY <2>4, <2>5, <2>6
  <1> QED
    BY <1>1, <1>5, <1>6

\* pb_decode_varint accepts exactly the varints that end in their stream and
\* have no byte past 64 bits; the value is the number its bytes spell modulo
\* 2^64, and the stream goes on after them.
THEOREM VarintKeepsItsNumber ==
  ASSUME Chunk, NEW s, IsStream(s)
  PROVE  LET n == VarintSize(s)
             v == pb_decode_varint(s)
         IN /\ v.ok <=> n <= s.left /\ GroupBits * (n - 1) < Bits64
            /\ v.ok => v = Ok(Spells(s)[n] % Power(2, Bits64), Stream(s.pos + n, s.left - n))
  <1> DEFINE n == VarintSize(s)
             v == pb_decode_varint(s)
             number == Spells(s)[n]
  <1>1. Bits64 \in Widths /\ Bits64 # Bits32 /\ v = VarintLoop(Bits64, s)
    BY WidthsAreNumbers DEF Widths, pb_decode_varint
  <1>2. v.ok => n <= s.left
    BY <1>1, LoopReturns
  <1>3. n <= s.left =>
          \/ ~v.ok /\ GroupBits * (n - 1) >= Bits64
          \/ /\ v = Ok(number % Power(2, Bits64), Stream(s.pos + n, s.left - n))
             /\ GroupBits * (n - 1) < Bits64
    <2>1. n <= s.left =>
            \/ /\ ~v.ok
               /\ \/ GroupBits * (n - 1) >= Bits64
                  \/ Bits64 = Bits32 /\ Spells(s)[n] >= Power(2, Bits32)
            \/ /\ v = Ok(Spells(s)[n] % Power(2, Bits64), Stream(s.pos + n, s.left - n))
               /\ GroupBits * (n - 1) < Bits64
               /\ Bits64 = Bits32 /\ GroupBits * n <= Past32 =>
                    Spells(s)[n] < Power(2, Bits32)
      BY <1>1, LoopReturns
    <2> QED
      BY <1>1, <2>1
  <1>4. GroupBits * (n - 1) \in Int /\ Bits64 \in Nat
    <2>1. n \in Nat /\ GroupBits \in Nat /\ Bits64 \in Nat
      <3>1. s.left \in Nat /\ n \in 1 .. s.left + 1
        BY SizeOfVarint DEF IsStream
      <3> HIDE DEF n
      <3> QED
        BY <3>1, WidthsAreNumbers
    <2> HIDE DEF n
    <2> QED
      BY <2>1
  <1> DEFINE last == GroupBits * (n - 1)
             good == Ok(number % Power(2, Bits64), Stream(s.pos + n, s.left - n))
  <1>5. good.ok
    BY DEF Ok
  <1>6. ~(last >= Bits64 /\ last < Bits64)
    BY <1>4
  <1> HIDE DEF v, n, number, last, good
  <1>7. /\ v.ok <=> n <= s.left /\ last < Bits64
        /\ v.ok => v = good
    BY <1>2, <1>3, <1>5, <1>6 DEF last, good
  <1> QED
    BY <1>7 DEF v, n, number, last, good

\* pb_decode_varint32 returns the number its bytes spell modulo 2^32 and goes
\* on after them; it accepts every number below 2^32, unless zero bytes extend
\* it past 64 bits, and no other in the bytes that can hold one.
THEOREM Varint32KeepsItsNumber ==
  ASSUME Chunk, NEW s, IsStream(s)
  PROVE  LET n == VarintSize(s)
             v == pb_decode_varint32(s)
         IN /\ v.ok =>
                 /\ n <= s.left
                 /\ v = Ok(Spells(s)[n] % Power(2, Bits32), Stream(s.pos + n, s.left - n))
                 /\ GroupBits * n <= Past32 => Spells(s)[n] < Power(2, Bits32)
            /\ n <= s.left /\ GroupBits * (n - 1) < Bits64 /\ Spells(s)[n] < Power(2, Bits32) =>
                 v.ok
  <1> DEFINE n == VarintSize(s)
             v == pb_decode_varint32(s)
             number == Spells(s)[n]
             last == GroupBits * (n - 1)
             good == Ok(number % Power(2, Bits32), Stream(s.pos + n, s.left - n))
             limit == Power(2, Bits32)
  <1>1. Bits32 \in Widths /\ v = VarintLoop(Bits32, s)
    BY DEF Widths, pb_decode_varint32
  <1>2. v.ok => n <= s.left
    BY <1>1, LoopReturns
  <1>3. n <= s.left =>
          \/ ~v.ok /\ (last >= Bits64 \/ number >= limit)
          \/ v = good /\ (GroupBits * n <= Past32 => number < limit)
    BY <1>1, LoopReturns
  <1>4. last \in Int /\ Bits64 \in Nat /\ limit \in Nat
    <2>1. n \in Nat /\ GroupBits \in Nat /\ Bits64 \in Nat /\ Bits32 \in Nat
      <3>1. s.left \in Nat /\ n \in 1 .. s.left + 1
        BY SizeOfVarint DEF IsStream
      <3> HIDE DEF n
      <3> QED
        BY <3>1, WidthsAreNumbers
    <2>2. limit \in Nat
      BY <2>1, PowerDef
    <2> HIDE DEF n, limit
    <2> QED
      BY <2>1, <2>2
  <1>5. n <= s.left => number \in Nat
    <2>1. s.left \in Nat /\ n \in 1 .. s.left + 1
      BY SizeOfVarint DEF IsStream
    <2>2. n <= s.left => n \in 0 .. s.left
      BY <2>1
    <2> QED
      BY <2>2, SpellsDef
  <1>6. good.ok
    BY DEF Ok
  <1> HIDE DEF v, n, number, last, good, limit
  <1>7. v.ok => n <= s.left /\ v = good /\ (GroupBits * n <= Past32 => number < limit)
    BY <1>2, <1>3
  <1>8. n <= s.left /\ last < Bits64 /\ number < limit => v.ok
    <2> SUFFICES ASSUME n <= s.left, last < Bits64, number < limit PROVE v.ok
      OBVIOUS
    <2>1. ~(last >= Bits64) /\ ~(number >= limit)
      BY <1>4, <1>5
    <2> QED
      BY <1>3, <1>6, <2>1
  <1> QED
    BY <1>7, <1>8 DEF v, n, number, last, good, limit
=============================================================================
