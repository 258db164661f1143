------------------------------ MODULE PbDecode ------------------------------
(***************************************************************************)
(* The protobuf decoder under src/parse.c: nanopb/pb_decode.c and the      *)
(* field iterator of nanopb/pb_common.c, decoding a transaction chunk with *)
(* the descriptors of TronSchema, the decode callbacks parse.c installs,   *)
(* and the second decode processTx runs over the contract it captured.     *)
(*                                                                         *)
(* The C recursion (pb_decode_inner -> decode_field -> pb_dec_submessage   *)
(* -> pb_decode_inner) is a stack of frames, one per message being         *)
(* decoded; every step decodes one field of the innermost message.  The    *)
(* build defines neither PB_ENABLE_MALLOC nor PB_FIELD_32BIT, and the      *)
(* schema has no required, oneof, packed, fixed-count or extension field:  *)
(* what pb_decode.c does for those is left out.                            *)
(***************************************************************************)
EXTENDS TronSchema, SequencesExt, Powers

CONSTANTS
  GroupBits,     \* payload bits of a varint byte: 7 in the code
  Fixed32Bytes,  \* bytes of a PB_WT_32BIT value: 4
  Fixed64Bytes,  \* bytes of a PB_WT_64BIT value: 8
  RawBuffer,     \* sizeof(buffer) in decode_callback_field: 10
  SelectorSize,  \* bytes of a method selector: 4
  WordSize,      \* bytes of an encoded TVM value: 32
  Selectors,     \* the SELECTOR table: <<transfer, approve>>
  Prefix,        \* ADD_PRE_FIX_BYTE_MAINNET
  Inputs         \* the chunks the host may send for each message parse.c decodes

ASSUME DecodeAssumption ==
  /\ GroupBits \in Nat \ {0} /\ GroupBits < Bits32
  /\ {Fixed32Bytes, Fixed64Bytes, RawBuffer, SelectorSize, WordSize} \subseteq Nat \ {0}
  /\ AddressSize <= WordSize
  /\ DOMAIN Inputs \subseteq Messages
  /\ \A m \in DOMAIN Inputs : Inputs[m] \subseteq Seq(0 .. Power(2, GroupBits + 1) - 1)

VARIABLES
  buf,     \* the chunk: a sequence of bytes
  top,     \* the message it is decoded as
  frames,  \* the messages being decoded, innermost last
  status,  \* "decoding", "ok" or "fault"
  stage,   \* "chunk"; then "contract", the captured parameter, or "refused"
  cb       \* what the decode callbacks stored

vars == << buf, top, frames, status, stage, cb >>

-----------------------------------------------------------------------------
(* Input streams: the index of the last byte read and bytes_left.          *)

Stream(pos, left) == [pos |-> pos, left |-> left]
Bytes(s) == SubSeq(buf, s.pos + 1, s.pos + s.left)

Ok(val, s) == [ok |-> TRUE, val |-> val, s |-> s]
Failed(s)  == [ok |-> FALSE, val |-> 0, s |-> s]

pb_read(s, count) ==
  IF s.left < count
  THEN Failed(s)
  ELSE Ok(SubSeq(buf, s.pos + 1, s.pos + count), Stream(s.pos + count, s.left - count))

Payload(b)   == b % Power(2, GroupBits)
Continues(b) == b >= Power(2, GroupBits)
ShiftLeft(x, n, width) == IF n >= width THEN 0 ELSE (x % Power(2, width - n)) * Power(2, n)

\* The first bit position past the bytes that can hold bits of a uint32.
Past32 == CHOOSE p \in Bits32 .. Bits32 + GroupBits - 1 : p % GroupBits = 0
\* The byte that extends a negative int32 to 64 bits, at a bit position.
SignExtension(bitpos) ==
  IF bitpos < Bits64 - 1 THEN Power(2, GroupBits + 1) - 1 ELSE 1

\* Mutant: the high bits of the last byte that holds some are not checked.
Turn32_truncates(v, b) ==
  LET past == v.bitpos >= Bits32
  IN [state |-> IF past /\ (v.bitpos >= Bits64 \/ Payload(b) # 0) THEN "overflow"
                ELSE IF Continues(b) THEN "more" ELSE "done",
      result |-> IF past THEN v.result
                 ELSE (v.result + ShiftLeft(Payload(b), v.bitpos, Bits32)) % Power(2, Bits32),
      bitpos |-> v.bitpos + GroupBits, n |-> v.n + 1]

\* One turn of the loops of pb_decode_varint32_eof and pb_decode_varint.
Turn32(v, b) ==
  LET past == v.bitpos >= Bits32
      valid == Payload(b) = 0 \/ (v.result >= Power(2, Bits32 - 1) /\ b = SignExtension(v.bitpos))
      next == IF past THEN v.result
              ELSE v.result + ShiftLeft(Payload(b), v.bitpos, Bits32)
      overflow == \/ past /\ (v.bitpos >= Bits64 \/ ~valid)
                  \/ /\ ~Continues(b) /\ v.bitpos + GroupBits = Past32
                     /\ Payload(b) >= Power(2, Bits32 - v.bitpos)
  IN [state |-> IF overflow THEN "overflow" ELSE IF Continues(b) THEN "more" ELSE "done",
      result |-> next, bitpos |-> v.bitpos + GroupBits, n |-> v.n + 1]
Turn64(v, b) ==
  IF v.bitpos >= Bits64
  THEN [v EXCEPT !.state = "overflow"]
  ELSE [state |-> IF Continues(b) THEN "more" ELSE "done",
        result |-> v.result + ShiftLeft(Payload(b), v.bitpos, Bits64),
        bitpos |-> v.bitpos + GroupBits, n |-> v.n + 1]

\* The bytes of the varint a stream starts with: to the first byte without a
\* continuation bit, or one more than are left.
VarintSize(s) ==
  CHOOSE n \in 1 .. s.left + 1 :
    /\ n = s.left + 1 \/ ~Continues(buf[s.pos + n])
    /\ \A k \in 1 .. n - 1 : Continues(buf[s.pos + k])

\* Runs a loop over the bytes of a stream until it stops or the stream ends.
Turn(width, v, b) ==
  CASE v.state # "more" -> v
    [] v.state = "more" /\ width = Bits32 -> Turn32(v, b)
    [] v.state = "more" /\ width = Bits64 -> Turn64(v, b)
Result(v, s) ==
  IF v.state = "done" THEN Ok(v.result, Stream(s.pos + v.n, s.left - v.n)) ELSE Failed(s)
VarintLoop(width, s) ==
  LET after[n \in 0 .. s.left] ==
        IF n = 0 THEN [state |-> "more", result |-> 0, bitpos |-> 0, n |-> 0]
        ELSE Turn(width, after[n - 1], buf[s.pos + n])
  IN Result(after[Min({VarintSize(s), s.left})], s)

pb_decode_varint32(s) == VarintLoop(Bits32, s)
pb_decode_varint(s)   == VarintLoop(Bits64, s)

pb_decode_tag(s) ==
  LET temp == pb_decode_varint32(s)
  IN [ok |-> temp.ok, tag |-> temp.val \div 8, wire_type |-> temp.val % 8, s |-> temp.s]

\* Mutant: the parent's bytes_left still counts the substream.
pb_make_string_substream_shared(s) ==
  LET size == pb_decode_varint32(s)
  IN IF size.ok /\ size.val <= size.s.left
     THEN Ok(Stream(size.s.pos, size.val), size.s) ELSE Failed(s)

\* The value is the substream; the parent keeps its position until the
\* substream is closed.
pb_make_string_substream(s) ==
  LET size == pb_decode_varint32(s)
  IN IF size.ok /\ size.val <= size.s.left
     THEN Ok(Stream(size.s.pos, size.val), Stream(size.s.pos, size.s.left - size.val))
     ELSE Failed(s)

pb_close_string_substream(s, sub) == Stream(sub.pos + sub.left, s.left)

\* pb_skip_varint reads to the end of the varint, however far that is: only
\* read_raw_value bounds it.
RawSize(s, wire_type) ==
  CASE wire_type = 0 -> VarintSize(s)
    [] wire_type = 1 -> Fixed64Bytes
    [] wire_type = 5 -> Fixed32Bytes

\* Mutant: the bytes to skip are not checked against bytes_left.
pb_skip_field_unchecked(s, wire_type) ==
  IF wire_type \in {0, 1, 5}
  THEN Ok(0, Stream(s.pos + RawSize(s, wire_type), s.left - RawSize(s, wire_type)))
  ELSE Failed(s)

pb_skip_field(s, wire_type) ==
  LET sub == pb_make_string_substream(s)
  IN CASE wire_type = 2 -> IF sub.ok THEN Ok(0, pb_close_string_substream(sub.s, sub.val))
                           ELSE Failed(s)
       [] wire_type \in {0, 1, 5} -> pb_read(s, RawSize(s, wire_type))
       [] OTHER -> Failed(s)

-----------------------------------------------------------------------------
(* Field decoders: the value stored in the struct and the stream after it. *)

Signed(v, width) == IF v >= Power(2, width - 1) THEN v - Power(2, width) ELSE v

pb_dec_bool(s) ==
  LET v == pb_decode_varint32(s) IN IF v.ok THEN Ok(v.val # 0, v.s) ELSE v

pb_dec_varint(f, s) ==
  LET v == pb_decode_varint(s)
  IN CASE ~v.ok -> v
       [] v.ok /\ f.ltype = "UVARINT" -> IF v.val < Power(2, f.size) THEN v ELSE Failed(s)
       [] v.ok /\ f.ltype = "VARINT" -> Ok(Signed(v.val % Power(2, f.size), f.size), v.s)

Zeros(n) == [i \in 1 .. n |-> 0]

\* pb_dec_bytes, pb_dec_string (one byte is for the terminator) and
\* pb_dec_fixed_length_bytes (an empty field stands for zeros).
pb_dec_bytes(f, s) ==
  LET size == pb_decode_varint32(s)
      fits == CASE f.ltype = "BYTES"  -> size.val <= f.size
                [] f.ltype = "STRING" -> size.val + 1 <= f.size
                [] f.ltype = "FIXED_LENGTH_BYTES" -> size.val \in {0, f.size}
  IN CASE ~size.ok \/ ~fits -> Failed(s)
       [] size.ok /\ fits /\ size.val = 0 /\ f.ltype = "FIXED_LENGTH_BYTES" ->
            Ok(Zeros(f.size), size.s)
       [] OTHER -> pb_read(size.s, size.val)

\* Submessages, which the same function dispatches, are EnterSubmessage below.
decode_basic_field(f, wire_type, s) ==
  CASE f.ltype = "BOOL" /\ wire_type = 0 -> pb_dec_bool(s)
    [] f.ltype \in {"VARINT", "UVARINT"} /\ wire_type = 0 -> pb_dec_varint(f, s)
    [] f.ltype \in {"BYTES", "STRING", "FIXED_LENGTH_BYTES"} /\ wire_type = 2 ->
         pb_dec_bytes(f, s)
    [] OTHER -> Failed(s)

-----------------------------------------------------------------------------
(* Messages: a function of the names of the static fields.                 *)

Static(fields) == {f \in Range(fields) : f.atype = "STATIC"}
FieldNamed(fields, n) == CHOOSE f \in Static(fields) : f.name = n

\* The default of a static field; sub is the one of an optional submessage.
pb_field_set_to_default(f, sub) ==
  CASE f.htype = "REPEATED" -> << >>
    [] f.htype = "OPTIONAL" -> [has |-> FALSE, val |-> sub]
    [] f.ltype = "BOOL" -> FALSE
    [] f.ltype = "FIXED_LENGTH_BYTES" -> Zeros(f.size)
    [] f.ltype \in {"BYTES", "STRING"} -> << >>
    [] f.ltype \in {"VARINT", "UVARINT"} -> 0

(* Callback fields are left as they are: the decode functions parse.c      *)
(* installs before it decodes survive.                                     *)
pb_message_set_to_defaults[m \in Messages] ==
  [n \in {f.name : f \in Static(Schema[m])} |->
     LET f == FieldNamed(Schema[m], n)
     IN pb_field_set_to_default(f, pb_message_set_to_defaults[f.sub])]

(* pb_field_iter_find: from the field the iterator is at, forward and      *)
(* around to it again; a smaller tag restarts at the first field, so that  *)
(* only the fields up to the current one are visited.  0 is "not found".   *)
pb_field_iter_find(fields, it, tag) ==
  LET visited == IF tag < fields[it].tag THEN 1 .. it ELSE DOMAIN fields
      found == {i \in visited : fields[i].tag = tag}
  IN IF tag > Last(fields).tag \/ found = {} THEN 0 ELSE Min(found)

-----------------------------------------------------------------------------
(* The decode callbacks of parse.c.  "value" is where the bytes are: in    *)
(* the chunk, or for a field that is not length-delimited in the ten-byte  *)
(* buffer on the stack of decode_callback_field.                           *)

NoCapture == [captured |-> FALSE, mem |-> "null", pos |-> 0, size |-> 0, dataBytes |-> 0,
              selector |-> << >>, method |-> 0, destination |-> << >>, amount |-> << >>]

pb_decode_contract_parameter(value) ==
  IF cb.captured
  THEN [ok |-> FALSE, cb |-> cb]
  ELSE [ok |-> TRUE, cb |-> [cb EXCEPT !.captured = TRUE, !.mem = value.mem, !.pos = value.pos,
                                       !.size = Len(value.bytes)]]

\* Mutant: the first size is kept.
pb_get_tx_data_size_first(value) ==
  [ok |-> TRUE, cb |-> IF cb.dataBytes = 0 THEN [cb EXCEPT !.dataBytes = Len(value.bytes)] ELSE cb]

pb_get_tx_data_size(value) == [ok |-> TRUE, cb |-> [cb EXCEPT !.dataBytes = Len(value.bytes)]]

pb_decode_trigger_smart_contract_data(value) ==
  LET left == Len(value.bytes) - SelectorSize
      selector == SubSeq(value.bytes, 1, SelectorSize)
      method == IF selector \in Range(Selectors)
                THEN CHOOSE i \in DOMAIN Selectors : Selectors[i] = selector ELSE 0
      to == SubSeq(value.bytes, SelectorSize + 1, SelectorSize + WordSize)
      address == << Prefix >> \o SubSeq(to, WordSize - AddressSize + 2, WordSize)
      called == [cb EXCEPT !.selector = selector, !.method = method]
  IN CASE left < 0 -> [ok |-> FALSE, cb |-> cb]
       [] left >= 0 /\ method = 0 -> [ok |-> left % WordSize = 0, cb |-> called]
       [] left >= 0 /\ method # 0 /\ left # 2 * WordSize -> [ok |-> FALSE, cb |-> called]
       [] left = 2 * WordSize /\ method # 0 ->
            [ok |-> TRUE,
             cb |-> [called EXCEPT !.destination = address,
                                   !.amount = SubSeq(value.bytes, SelectorSize + WordSize + 1,
                                                     Len(value.bytes))]]

\* pb_default_field_callback: a field without a decode function is dropped.
field_callback(f, value) ==
  CASE f.name = "custom_data" -> pb_get_tx_data_size(value)
    [] f.name = "value" -> pb_decode_contract_parameter(value)
    [] f.name = "data" -> pb_decode_trigger_smart_contract_data(value)
    [] OTHER -> [ok |-> TRUE, cb |-> cb]

-----------------------------------------------------------------------------
(* pb_decode_inner.                                                        *)

Frame(m, s, val) == [msg |-> m, it |-> 1, s |-> s, val |-> val]
pb_decode(m, s) == << Frame(m, s, pb_message_set_to_defaults[m]) >>

Inner == Last(frames)
Outer == Front(frames)

\* The tag the innermost message reads next, and the field it finds for it.
\* The actions bind it, and what they read after it, over a singleton.
Found(t, fields) ==
  [valid |-> t.ok /\ t.tag # 0, wire_type |-> t.wire_type, s |-> t.s,
   found |-> IF t.ok /\ t.tag # 0 THEN pb_field_iter_find(fields, Inner.it, t.tag) ELSE 0]
Tag == Found(pb_decode_tag(Inner.s), Schema[Inner.msg])
FieldOf(t) == Schema[Inner.msg][t.found]

Fault ==
  /\ status' = "fault"
  /\ UNCHANGED << buf, top, frames, stage >>

\* The innermost message goes on after one of its fields.
GoOn(it, s, val) ==
  /\ frames' = Append(Outer, [Inner EXCEPT !.it = it, !.s = s, !.val = val])
  /\ UNCHANGED << buf, top, status, stage >>

Reading == status = "decoding" /\ Inner.s.left > 0
IsScalar(f)   == f.atype = "STATIC" /\ f.ltype # "SUBMESSAGE"
IsMessage(f)  == f.atype = "STATIC" /\ f.ltype = "SUBMESSAGE"
IsCallback(f) == f.atype = "CALLBACK"

BadTag == Reading /\ ~Tag.valid /\ Fault /\ UNCHANGED cb

UnknownField ==
  /\ Reading
  /\ \E t \in {Tag} :
       /\ t.valid /\ t.found = 0
       /\ \E r \in {pb_skip_field(t.s, t.wire_type)} :
            IF r.ok THEN GoOn(Inner.it, r.s, Inner.val) ELSE Fault
  /\ UNCHANGED cb

StaticField ==
  /\ Reading
  /\ \E t \in {Tag} :
       /\ t.found # 0
       /\ \E f \in {FieldOf(t)} :
            /\ IsScalar(f)
            /\ \E r \in {decode_basic_field(f, t.wire_type, t.s)} :
                 IF r.ok
                 THEN GoOn(t.found, r.s, [Inner.val EXCEPT ![f.name] = r.val])
                 ELSE Fault
  /\ UNCHANGED cb

\* A value that is not length-delimited goes through the ten-byte buffer.
read_raw_value(s, wire_type) ==
  IF wire_type \in {0, 1, 5} /\ RawSize(s, wire_type) <= RawBuffer
  THEN pb_read(s, RawSize(s, wire_type)) ELSE Failed(s)

\* What the callback is given: a substream of the chunk, or that buffer.
Passed(wire_type, v) ==
  IF wire_type = 2 THEN [mem |-> "chunk", pos |-> v.pos, bytes |-> Bytes(v)]
  ELSE [mem |-> "stack", pos |-> 0, bytes |-> v]

(* decode_callback_field.  No callback of parse.c leaves a part of its     *)
(* bytes for a second turn of the loop around it, and closing the          *)
(* substream skips what it did not read.                                   *)
CallbackField ==
  /\ Reading
  /\ \E t \in {Tag} :
       /\ t.found # 0 /\ IsCallback(FieldOf(t))
       /\ \E r \in {IF t.wire_type = 2 THEN pb_make_string_substream(t.s)
                    ELSE read_raw_value(t.s, t.wire_type)} :
            IF r.ok
            THEN \E c \in {field_callback(FieldOf(t), Passed(t.wire_type, r.val))} :
                   /\ cb' = c.cb
                   /\ IF c.ok
                      THEN GoOn(t.found, IF t.wire_type = 2
                                         THEN pb_close_string_substream(r.s, r.val)
                                         ELSE r.s, Inner.val)
                      ELSE Fault
            ELSE Fault /\ UNCHANGED cb

\* Mutant: one element too many.
ArrayFull_late(f, size) == f.htype = "REPEATED" /\ size > f.count

\* decode_static_field: no slot is left for another element.
ArrayFull(f, size) == f.htype = "REPEATED" /\ size >= f.count

\* Mutant: every submessage starts from the defaults.
Started_fresh(f) == pb_message_set_to_defaults[f.sub]

\* An element of an array starts from the defaults, an optional submessage
\* (PB_DECODE_NOINIT) from what an earlier occurrence of the field left in it.
Started(f) ==
  IF f.htype = "REPEATED" THEN pb_message_set_to_defaults[f.sub] ELSE Inner.val[f.name].val

\* pb_dec_submessage.
EnterSubmessage ==
  /\ Reading
  /\ \E t \in {Tag} :
       /\ t.found # 0
       /\ \E f \in {FieldOf(t)} :
            /\ IsMessage(f)
            /\ \E sub \in {pb_make_string_substream(t.s)} :
                 IF ~ArrayFull(f, Len(Inner.val[f.name])) /\ t.wire_type = 2 /\ sub.ok
                 THEN /\ frames' = Append(Append(Outer, [Inner EXCEPT !.it = t.found, !.s = sub.s]),
                                          Frame(f.sub, sub.val, Started(f)))
                      /\ UNCHANGED << buf, top, status, stage >>
                 ELSE Fault
  /\ UNCHANGED cb

LeaveSubmessage ==
  /\ status = "decoding" /\ Inner.s.left = 0 /\ Len(frames) > 1
  /\ \E parent \in {Last(Outer)} : \E f \in {Schema[parent.msg][parent.it]} :
       LET stored == IF f.htype = "REPEATED" THEN Append(parent.val[f.name], Inner.val)
                     ELSE [has |-> TRUE, val |-> Inner.val]
       IN frames' = Append(Front(Outer),
                           [parent EXCEPT !.s = pb_close_string_substream(parent.s, Inner.s),
                                          !.val = [@ EXCEPT ![f.name] = stored]])
  /\ UNCHANGED << buf, top, status, stage, cb >>

EndOfMessage ==
  /\ status = "decoding" /\ Inner.s.left = 0 /\ Len(frames) = 1
  /\ status' = "ok"
  /\ UNCHANGED << buf, top, frames, stage, cb >>

-----------------------------------------------------------------------------
(* processTx, once the chunk is decoded: the contract it captured is       *)
(* decoded in its turn, with the message its type names.                   *)

RawContract == Inner.val.contract[1]
HasParameter ==
  Inner.val.contract # << >> /\ RawContract.parameter.has

\* Mutant: where the captured pointer points is not checked.
CaptureRefused_anywhere == cb.mem = "null" \/ cb.size = 0

\* buf NULL or empty, or not inside the chunk.
CaptureRefused ==
  \/ cb.mem = "null" \/ cb.size = 0
  \/ cb.mem # "chunk" \/ cb.pos > Len(buf) \/ cb.size > Len(buf) - cb.pos

ProcessContract ==
  /\ top = "Transaction_raw" /\ stage = "chunk" /\ status = "ok" /\ HasParameter
  /\ IF CaptureRefused \/ ~Parsed(RawContract.type)
     THEN /\ stage' = "refused" /\ status' = "fault"
          /\ UNCHANGED << buf, top, frames, cb >>
     ELSE /\ stage' = "contract" /\ status' = "decoding"
          /\ frames' = pb_decode(ContractOf(RawContract.type), Stream(cb.pos, cb.size))
          /\ UNCHANGED << buf, top, cb >>

Init ==
  /\ top \in DOMAIN Inputs /\ buf \in Inputs[top]
  /\ frames = pb_decode(top, Stream(0, Len(buf)))
  /\ status = "decoding" /\ stage = "chunk" /\ cb = NoCapture

Next ==
  \/ BadTag \/ UnknownField \/ StaticField \/ CallbackField
  \/ EnterSubmessage \/ LeaveSubmessage \/ EndOfMessage \/ ProcessContract

Spec == Init /\ [][Next]_vars

-----------------------------------------------------------------------------
\* The frames are open messages whose positions and counts stay in the chunk:
\* bytes_left, a size_t, never wraps below zero.
TypeOK ==
  /\ top \in Messages
  /\ status \in {"decoding", "ok", "fault"} /\ stage \in {"chunk", "contract", "refused"}
  /\ frames # << >>
  /\ \A i \in DOMAIN frames :
       /\ frames[i].msg \in Messages /\ frames[i].it \in DOMAIN Schema[frames[i].msg]
       /\ frames[i].s.pos \in 0 .. Len(buf) /\ frames[i].s.left \in 0 .. Len(buf)
  /\ cb.captured \in BOOLEAN /\ cb.mem \in {"null", "chunk", "stack"}

\* bytes_left summed over the frames below and including the i-th.
LeftUpTo ==
  LET sum[i \in 0 .. Len(frames)] == IF i = 0 THEN 0 ELSE sum[i - 1] + frames[i].s.left
  IN sum

(* Substreams nest (pb_make_string_substream, pb_close_string_substream):  *)
(* whatever lengths the chunk declares, what the innermost message has     *)
(* read and what all the open messages have left add up to exactly the     *)
(* region being decoded.  So no read leaves the chunk, and no byte of it   *)
(* is decoded twice or passed over when a submessage ends.                 *)
StreamsNest ==
  LET end == IF stage = "contract" THEN cb.pos + cb.size ELSE Len(buf)
  IN /\ Inner.s.pos + LeftUpTo[Len(frames)] = end
     /\ \A i \in DOMAIN Outer : frames[i].s.pos <= frames[i + 1].s.pos

(* The arrays of the decoded struct are never overrun: an array holds at   *)
(* most its max_count of elements, and while one of its elements is being  *)
(* decoded that element too has a slot.                                    *)
ArraysFit ==
  \A i \in DOMAIN frames :
    \A fields \in {Schema[frames[i].msg]} : \A f \in Static(fields) :
      LET open == i < Len(frames) /\ fields[frames[i].it] = f
      IN f.htype = "REPEATED" =>
           Len(frames[i].val[f.name]) + (IF open THEN 1 ELSE 0) <= f.count
=============================================================================
