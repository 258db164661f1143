----------------------------- MODULE MCPbDecode -----------------------------
(***************************************************************************)
(* The meaning of a protobuf message, stated without streams, iterators    *)
(* or in-place updates, and the chunks the decoder of PbDecode is checked  *)
(* on against it.                                                          *)
(***************************************************************************)
EXTENDS PbDecode

-----------------------------------------------------------------------------
(* A region of the chunk as a list of fields: tag, wire type and payload.  *)

Bad == << [tag |-> 0, wire_type |-> 0, payload |-> Stream(0, 0)] >>

\* The field a region starts with, once its tag is known.  A payload that is
\* no payload is longer than the chunk.
NoPayload == Stream(0, Len(buf) + 1)
Prefixed(size) == IF size.ok THEN Stream(size.s.pos, size.val) ELSE NoPayload
Element(t) ==
  [tag |-> t.tag, wire_type |-> t.wire_type,
   payload |-> CASE t.wire_type = 2 -> Prefixed(pb_decode_varint32(t.s))
                 [] t.wire_type \in {0, 1, 5} -> Stream(t.s.pos, RawSize(t.s, t.wire_type))
                 [] OTHER -> NoPayload]

RECURSIVE Split(_), SplitAfter(_, _, _)
Split(s) ==
  IF s.left = 0 THEN << >> ELSE LET e == Element(pb_decode_tag(s))
                                IN SplitAfter(e, e.payload.pos + e.payload.left, s.pos + s.left)
SplitAfter(e, pos, end) ==
  IF e.tag = 0 \/ pos > end THEN Bad ELSE << e >> \o Split(Stream(pos, end - pos))

WellFormed(fields) == \A i \in DOMAIN fields : fields[i].tag # 0
With(fields, tag) == SelectSeq(fields, LAMBDA e : e.tag = tag)

\* The fields of all the occurrences of a submessage, one after the other.
Merged(es) == FoldLeft(LAMBDA acc, e : acc \o Split(e.payload), << >>, es)

\* The number a varint stands for, and the value a scalar field has for it.
Number(p) ==
  LET sum[n \in 0 .. p.left] ==
        IF n = 0 THEN 0
        ELSE sum[n - 1] + ShiftLeft(Payload(buf[p.pos + n]), GroupBits * (n - 1), Bits64)
  IN sum[p.left]
Value(f, e) ==
  CASE f.ltype = "BOOL" -> Number(e.payload) % 2^Bits32 # 0
    [] f.ltype = "UVARINT" -> Number(e.payload)
    [] f.ltype = "VARINT" -> Signed(Number(e.payload) % 2^f.size, f.size)
    [] f.ltype = "FIXED_LENGTH_BYTES" /\ e.payload.left = 0 -> Zeros(f.size)
    [] OTHER -> Bytes(e.payload)

-----------------------------------------------------------------------------
(* What a list of fields means as a message: the last occurrence of a      *)
(* scalar, one element per occurrence of an array, and for a submessage    *)
(* the meaning of its occurrences concatenated.                            *)

RECURSIVE Meaning(_, _), FieldMeaning(_, _, _)
Meaning(m, fields) ==
  [n \in {f.name : f \in Static(Schema[m])} |->
     FieldMeaning(m, FieldNamed(Schema[m], n), fields)]
FieldMeaning(m, f, fields) ==
  LET es == With(fields, f.tag)
  IN CASE f.htype = "REPEATED" -> [i \in DOMAIN es |-> Meaning(f.sub, Split(es[i].payload))]
       [] f.htype = "OPTIONAL" -> [has |-> es # << >>, val |-> Meaning(f.sub, Merged(es))]
       [] f.htype = "SINGULAR" -> IF es = << >> THEN pb_message_set_to_defaults[m][f.name]
                                  ELSE Value(f, Last(es))

FitsScalar(f, e) ==
  CASE f.ltype = "BOOL" -> e.wire_type = 0 /\ pb_decode_varint32(e.payload).ok
    [] f.ltype = "VARINT" -> e.wire_type = 0 /\ (e.payload.left - 1) * GroupBits < Bits64
    [] f.ltype = "UVARINT" -> /\ e.wire_type = 0 /\ (e.payload.left - 1) * GroupBits < Bits64
                              /\ Number(e.payload) < 2^f.size
    [] f.ltype = "BYTES" -> e.wire_type = 2 /\ e.payload.left <= f.size
    [] f.ltype = "STRING" -> e.wire_type = 2 /\ e.payload.left < f.size
    [] f.ltype = "FIXED_LENGTH_BYTES" -> e.wire_type = 2 /\ e.payload.left \in {0, f.size}

TriggerDataFits(bytes) ==
  LET args == Len(bytes) - SelectorSize
  IN /\ args >= 0
     /\ IF SubSeq(bytes, 1, SelectorSize) \in Range(Selectors) THEN args = 2 * WordSize
        ELSE args % WordSize = 0

RECURSIVE Acceptable(_, _), FieldAcceptable(_, _)
Acceptable(m, fields) ==
  /\ WellFormed(fields)
  /\ \A f \in Range(Schema[m]) : FieldAcceptable(f, With(fields, f.tag))
FieldAcceptable(f, es) ==
  CASE f.htype = "REPEATED" ->
         /\ Len(es) <= f.count
         /\ \A e \in Range(es) : e.wire_type = 2 /\ Acceptable(f.sub, Split(e.payload))
    [] f.htype = "OPTIONAL" ->
         /\ \A e \in Range(es) : e.wire_type = 2 /\ WellFormed(Split(e.payload))
         /\ Acceptable(f.sub, Merged(es))
    [] f.atype = "CALLBACK" ->
         /\ \A e \in Range(es) : e.wire_type # 2 => e.payload.left <= RawBuffer
         /\ f.name = "data" => \A e \in Range(es) : TriggerDataFits(Bytes(e.payload))
         /\ f.name = "value" => Len(es) <= 1
    [] OTHER -> \A e \in Range(es) : FitsScalar(f, e)

-----------------------------------------------------------------------------
Region == IF stage = "contract" THEN Stream(cb.pos, cb.size) ELSE Stream(0, Len(buf))
Root == IF stage = "contract" THEN frames[1].msg ELSE top

(* The decoder computes what the chunk means.  It accepts a chunk (and     *)
(* then the contract in it) exactly when its fields fit the descriptor,    *)
(* and the struct it leaves is the meaning of the fields, in whatever      *)
(* order they come, however often they are repeated and whatever unknown   *)
(* fields stand between them.                                              *)
DecodesMeaning ==
  status # "decoding" /\ stage # "refused" =>
    \A fields \in {Split(Region)} :
      /\ status = "ok" <=> Acceptable(Root, fields)
      /\ status = "ok" => frames[1].val = Meaning(Root, fields)

\* The fields of the Any of the chunk's only contract.
AnyFields == Merged(With(Merged(With(Split(Stream(0, Len(buf))), 11)), 2))

(* processTx decodes the contract the transaction carries: the region it   *)
(* hands to the second pb_decode is the payload of the one length-delimited*)
(* value field of the contract's parameter, in the chunk and not in the    *)
(* stack buffer a scalar field of that tag would have been copied to.      *)
ContractIsTheParameter ==
  stage = "contract" =>
    With(AnyFields, 2) =
      << [tag |-> 2, wire_type |-> 2, payload |-> Stream(cb.pos, cb.size)] >>

\* The bytes of the last of the occurrences of a field, if there are any.
LastOf(es) == IF es = << >> THEN {} ELSE {Bytes(Last(es).payload)}

(* The other callbacks keep the last occurrence of their field: dataBytes  *)
(* is the size of the last custom_data, and the selector, recipient and    *)
(* amount shown for a contract call are those of its last data field.      *)
LastOccurrenceShown ==
  /\ top = "Transaction_raw" /\ status = "ok" =>
       \A es \in {With(Split(Stream(0, Len(buf))), 10)} :
         cb.dataBytes = IF es = << >> THEN 0 ELSE Last(es).payload.left
  /\ Root = "TriggerSmartContract" /\ status = "ok" =>
       \A data \in LastOf(With(Split(Region), 4)) :
         /\ cb.selector = SubSeq(data, 1, SelectorSize)
         /\ cb.method # 0 =>
              /\ cb.selector = Selectors[cb.method]
              /\ cb.amount = SubSeq(data, Len(data) - WordSize + 1, Len(data))
              /\ Tail(cb.destination) =
                   SubSeq(data, SelectorSize + WordSize - AddressSize + 2,
                          SelectorSize + WordSize)

-----------------------------------------------------------------------------
(* Chunks.  From the descriptor of a message: for every field encodings    *)
(* that fit, that are too long or that have the wrong wire type, and two   *)
(* unknown fields; then every sequence of up to two or three of them.      *)

Byte == 2^(GroupBits + 1)
Encoded(n) ==
  LET size == CHOOSE k \in 1 .. Bits64 : n < 2^(GroupBits * k) /\ (k = 1 \/ n >= 2^(GroupBits * (k - 1)))
  IN [i \in 1 .. size |-> ((n \div 2^(GroupBits * (i - 1))) % 2^GroupBits)
                           + (IF i < size THEN 2^GroupBits ELSE 0)]
VI(tag, bytes) == Encoded(tag * 8) \o bytes
LD(tag, bytes) == Encoded(tag * 8 + 2) \o Encoded(Len(bytes)) \o bytes
\* A number of 64 bits that no bool, enum or 32-bit field holds.
Large == LET n == Bits64 \div GroupBits
         IN [i \in 1 .. n |-> IF i < n THEN Byte - 1 ELSE 1]
Ones(n) == [i \in 1 .. n |-> 1]

Unknown == {VI(30, << Byte - 1, 1 >>), Encoded(30 * 8 + 5) \o Ones(Fixed32Bytes)}

RECURSIVE Samples(_)
Samples(m) ==
  Unknown \cup UNION
  {LET f == Schema[m][i]
   IN CASE f.ltype \in {"BOOL", "VARINT", "UVARINT"} ->
             {VI(f.tag, <<2>>), VI(f.tag, Large), LD(f.tag, <<1>>)}
        [] f.ltype = "SUBMESSAGE" ->
             {LD(f.tag, sub) : sub \in Samples(f.sub) \cup {<< >>}} \cup {VI(f.tag, <<0>>)}
        [] f.atype = "CALLBACK" -> {LD(f.tag, << >>), LD(f.tag, <<7>>), VI(f.tag, <<3>>)}
        [] OTHER -> {LD(f.tag, Ones(n)) : n \in {0, f.size, f.size + 1}}
   : i \in DOMAIN Schema[m]}

Pairs(F) == {a \o b : a \in F, b \in F}
Sequences3(F) == {a \o b : a \in Pairs(F), b \in F \cup {<< >>}}

\* Truncated chunks, and chunks with one byte off by one.
Damaged(F) ==
  UNION {{SubSeq(b, 1, n) : n \in 0 .. Len(b)} \cup
         {[b EXCEPT ![i] = (@ + 1) % Byte] : i \in DOMAIN b} : b \in F}

\* Contract calls: two methods the table knows, one it does not, and odd sizes.
CallData == {LD(4, sel \o args) : sel \in {<<1>>, <<2>>, <<9>>},
                                  args \in {<< >>, <<4, 5, 6>>, <<4, 5, 6, 7, 8, 9>>}}
            \cup {LD(4, << >>), VI(4, <<1>>), LD(1, <<3, 3>>), VI(3, <<5>>)}

\* Transactions around a transfer contract of type 1 and one of no known type.
Transfers == {LD(1, <<6, 6>>), VI(3, <<2>>), LD(1, <<6, 6>>) \o VI(3, <<2>>), << >>}
Anys == {LD(2, t) : t \in Transfers} \cup {VI(2, <<3>>), LD(1, <<7>>), << >>}
Contracts ==
  {ty \o rest : ty \in {VI(1, <<1>>), VI(1, <<3>>)},
                rest \in {LD(2, a) : a \in Anys}
                         \cup {LD(2, a) \o LD(2, b) : a, b \in Anys} \cup {VI(5, <<2>>)}}
Envelope == {LD(10, << >>), LD(10, <<7>>), VI(10, <<7>>), VI(18, <<5>>), VI(18, <<2>>)} \cup Unknown
Transactions ==
  {a \o LD(11, c) \o b : a \in Envelope \cup {<< >>}, c \in Contracts, b \in Envelope \cup {<< >>}}
  \cup Pairs({LD(11, c) : c \in {LD(2, a) : a \in Anys}} \cup Envelope)

-----------------------------------------------------------------------------
(* Varints of every length, also one byte too long, with groups of zeros,  *)
(* ones or only the lowest bit set: one field per kind of number the       *)
(* schema has, nested in a submessage for int32.                           *)

MaxBytes == CHOOSE k \in 1 .. Bits64 : GroupBits * k >= Bits64 /\ GroupBits * (k - 1) < Bits64
Groups == {0, 1, 2^GroupBits - 1}
Encodings ==
  UNION {{[i \in 1 .. k + 1 |-> IF i <= k THEN f[i] + 2^GroupBits ELSE f[i]]
          : f \in [1 .. k + 1 -> Groups]} : k \in 0 .. MaxBytes - 1}
  \cup {[i \in 1 .. MaxBytes + 1 |-> IF i <= MaxBytes THEN 2^GroupBits + b ELSE b] : b \in {0, 1}}

VarintInputs ==
  [m \in {"Transaction_raw", "DelegateResourceContract", "TokenDetails", "ExchangeDetails"} |->
     CASE m = "Transaction_raw" ->
            {Encoded(11 * 8 + 2) \o Encoded(Len(e) + Len(Encoded(5 * 8))) \o Encoded(5 * 8) \o e
             : e \in Encodings}
       [] m = "DelegateResourceContract" ->
            {Encoded(tag * 8) \o e : tag \in {2, 3, 5}, e \in Encodings}
       [] m = "TokenDetails" -> {Encoded(2 * 8) \o e : e \in Encodings}
       [] m = "ExchangeDetails" -> {Encoded(1 * 8) \o e : e \in Encodings}]

\* Three fields where two elements fill an array, elsewhere two.
Arrays == {"VoteWitnessContract", "ProposalCreateContract", "TransferContract"}
ChunkInputs ==
  [m \in (DOMAIN ContractType \cup {"TokenDetails", "ExchangeDetails", "Transaction_raw"}) |->
     CASE m = "Transaction_raw" -> Transactions \cup Damaged(Transactions \cap Pairs(Envelope))
       [] m = "TriggerSmartContract" -> Sequences3(CallData) \cup Damaged(CallData)
       [] m \in Arrays -> Sequences3(Samples(m)) \cup Damaged(Samples(m))
       [] OTHER -> Pairs(Samples(m)) \cup Damaged(Samples(m))]
MCSelectors == << <<1>>, <<2>> >>
MCInputs ==
  [m \in DOMAIN ChunkInputs |->
     ChunkInputs[m] \cup IF m \in DOMAIN VarintInputs THEN VarintInputs[m] ELSE {}]

\* A number as the only field of a chunk or of the chunk's only contract: its
\* descriptor, the bytes of its varint, the number they spell and the value
\* it is decoded to.
Spelt(p) ==
  FoldFunction(+, 0, [i \in 1 .. p.left |-> Payload(buf[p.pos + i]) * 2^(GroupBits * (i - 1))])
NumberIn(m, val, fields) ==
  IF Len(fields) = 1 /\ fields[1].wire_type = 0
  THEN {[f |-> f, n |-> fields[1].payload.left, number |-> Spelt(fields[1].payload),
         val |-> IF status = "ok" THEN val[f.name] ELSE 0]
        : f \in {g \in Range(Schema[m]) : /\ g.tag = fields[1].tag
                                          /\ g.ltype \in {"BOOL", "VARINT", "UVARINT"}}}
  ELSE {}
SoleNumber(fields) ==
  IF top = "Transaction_raw" /\ Len(fields) = 1
     /\ fields[1].tag = 11 /\ fields[1].wire_type = 2
  THEN NumberIn("Contract", frames[1].val.contract[1], Split(fields[1].payload))
  ELSE NumberIn(top, frames[1].val, fields)

(* A varint keeps its number.  A 64-bit one is accepted when it has no     *)
(* more bytes than 64 bits need, modulo 2^64, and must then fit an         *)
(* unsigned field.  A 32-bit one (pb_decode_varint32: bool, tags, lengths) *)
(* is accepted when it fits, however many zero bytes extend it, and when   *)
(* it is a negative number extended to 64 bits; if five bytes or less hold *)
(* it, nothing else is accepted.                                           *)
VarintsKeepTheirNumber ==
  stage = "chunk" /\ status # "decoding" =>
    \A x \in SoleNumber(Split(Stream(0, Len(buf)))) :
      LET modulo == x.number % 2^Bits64
          fits64 == x.n <= MaxBytes /\ (x.f.ltype = "UVARINT" => modulo < 2^x.f.size)
          fits32 == x.n <= MaxBytes
                    /\ \/ x.number < 2^Bits32
                       \/ x.number \in 2^Bits64 - 2^(Bits32 - 1) .. 2^Bits64 - 1
      IN IF x.f.ltype = "BOOL"
         THEN /\ fits32 => status = "ok"
              /\ status = "ok" => x.val = (x.number % 2^Bits32 # 0)
              /\ status = "ok" /\ x.n * GroupBits <= Past32 => fits32
         ELSE /\ status = "ok" <=> fits64
              /\ status = "ok" =>
                   x.val = IF x.f.ltype = "UVARINT" THEN modulo
                           ELSE Signed(modulo % 2^x.f.size, x.f.size)
=============================================================================
