---------------------------- MODULE TxReviewProofs ----------------------------
(***************************************************************************)
(* Proofs about the operators of TxReview, for every content and every     *)
(* buffer: the fields that prepareTxInfos puts on the screen, how many     *)
(* they are, what an alias or a service label stands for, and that the     *)
(* buffers of handleSign tell what the contract does.                      *)
(***************************************************************************)
EXTENDS TronAppProperties, InductionLemmas, SequenceTheorems

-----------------------------------------------------------------------------
(* Sequences.                                                              *)

Listed(s) == s \in Seq(Range(s))

\* A sequence is on the numbers up to its length.
LEMMA ListDomain ==
    ASSUME NEW s, Listed(s)
    PROVE  /\ Len(s) \in Nat /\ DOMAIN s = 1..Len(s)
           /\ \A i \in 1..Len(s) : s[i] \in Range(s)
           /\ \A x \in Range(s) : \E i \in 1..Len(s) : s[i] = x
  BY DEF Listed, Range

\* A sequence given by its elements is one.
LEMMA MadeList ==
    ASSUME NEW n \in Nat, NEW s, DOMAIN s = 1..n, s = [i \in 1..n |-> s[i]]
    PROVE  Listed(s) /\ Len(s) = n
  BY DEF Listed, Range

\* So is a sequence over any set.
LEMMA SequenceListed == ASSUME NEW S, NEW s \in Seq(S) PROVE Listed(s)
  BY DEF Listed, Range

\* Two sequences one after the other.
LEMMA JoinedLists ==
    ASSUME NEW s, NEW t, Listed(s), Listed(t)
    PROVE  /\ Listed(s \o t)
           /\ Range(s \o t) = Range(s) \cup Range(t)
           /\ Len(s \o t) = Len(s) + Len(t)
  <1> DEFINE both == Range(s) \cup Range(t)
  <1>1. s \in Seq(both) /\ t \in Seq(both)
    BY DEF Listed
  <1>2. s \o t \in Seq(both) /\ Len(s \o t) = Len(s) + Len(t)
    BY <1>1
  <1>3. \A i \in 1..Len(s) : (s \o t)[i] = s[i]
    BY <1>1
  <1>4. \A i \in 1..Len(t) : (s \o t)[Len(s) + i] = t[i]
    BY <1>1
  <1>5. both \subseteq Range(s \o t)
    <2>1. Range(s) \subseteq Range(s \o t)
      <3>1. ASSUME NEW i \in 1..Len(s) PROVE s[i] \in Range(s \o t)
        <4>1. i \in DOMAIN (s \o t) /\ (s \o t)[i] = s[i]
          BY <1>1, <1>2, <1>3
        <4> QED
          BY <4>1 DEF Range
      <3> QED
        BY <3>1, ListDomain DEF Range
    <2>2. Range(t) \subseteq Range(s \o t)
      <3>1. ASSUME NEW i \in 1..Len(t) PROVE t[i] \in Range(s \o t)
        <4>1. Len(s) + i \in DOMAIN (s \o t)
          BY <1>2, ListDomain
        <4> QED
          BY <1>4, <4>1 DEF Range
      <3> QED
        BY <3>1, ListDomain
    <2> QED
      BY <2>1, <2>2
  <1>6. Range(s \o t) \subseteq both
    BY <1>2 DEF Range
  <1> QED
    BY <1>2, <1>5, <1>6 DEF Listed

\* A sequence of sequences, flattened: where its elements come from, and how many
\* they are when each part has at most m.
LEMMA Flattened ==
    ASSUME NEW seqs, Listed(seqs), \A i \in DOMAIN seqs : Listed(seqs[i]),
           NEW m \in Nat, \A i \in DOMAIN seqs : Len(seqs[i]) <= m
    PROVE  /\ Listed(FlattenSeq(seqs))
           /\ \A x \in Range(FlattenSeq(seqs)) : \E i \in DOMAIN seqs : x \in Range(seqs[i])
           /\ Len(FlattenSeq(seqs)) <= m * Len(seqs)
  <1> DEFINE top == Len(seqs)
             Flat(f, n) == f = [i \in 1..n |-> IF i = 1 THEN seqs[i] ELSE f[i - 1] \o seqs[i]]
             All == UNION {Range(seqs[i]) : i \in DOMAIN seqs}
             flat == CHOOSE f : Flat(f, top)
  <1>1. top \in Nat /\ DOMAIN seqs = 1..top
    BY ListDomain
  <1>2. \E f : Flat(f, top)
    <2> DEFINE Exists(n) == \E f : Flat(f, n)
               bad == {n \in 0..top : ~Exists(n)}
    <2> HIDE DEF Exists
    <2>0. bad \in SUBSET Nat
      BY <1>1
    <2>1. ASSUME bad # {} PROVE FALSE
      <3>1. PICK n \in bad : \A j \in bad : n <= j
        <4> HIDE DEF bad
        <4> QED
          BY <2>0, <2>1, LeastNatural
      <3>2. CASE n = 0
        <4>1. Flat([i \in 1..0 |-> <<>>], 0)
          OBVIOUS
        <4>2. Exists(0)
          BY <4>1 DEF Exists
        <4> QED
          BY <3>1, <3>2, <4>2
      <3>3. CASE n # 0
        <4>1. n \in 1..top /\ n - 1 \in 0..top /\ n - 1 \notin bad
          BY <1>1, <3>1, <3>3
        <4>2. PICK g : Flat(g, n - 1)
          <5>1. Exists(n - 1)
            BY <4>1
          <5> QED
            BY <5>1 DEF Exists
        <4> DEFINE last == IF n = 1 THEN seqs[1] ELSE g[n - 1] \o seqs[n]
                   f == [i \in 1..n |-> IF i = n THEN last ELSE g[i]]
        <4>3. \A i \in 1..(n - 1) : g[i] = IF i = 1 THEN seqs[i] ELSE g[i - 1] \o seqs[i]
          BY <4>2
        <4>4. ASSUME NEW i \in 1..n
              PROVE  f[i] = IF i = 1 THEN seqs[i] ELSE f[i - 1] \o seqs[i]
          <5>1. i \in 1..(n - 1) \/ i = n
            BY <4>1
          <5>2. i # 1 => i - 1 \in 1..n /\ i - 1 # n
            BY <4>1
          <5> HIDE DEF last
          <5>3. /\ f[i] = IF i = n THEN last ELSE g[i]
                /\ i # 1 => f[i - 1] = g[i - 1]
            BY <5>2
          <5> HIDE DEF f
          <5> QED
            BY <4>1, <4>3, <5>1, <5>3 DEF last
        <4>5. f = [i \in 1..n |-> f[i]]
          OBVIOUS
        <4> HIDE DEF f
        <4>6. Flat(f, n)
          BY <4>4, <4>5
        <4>7. Exists(n)
          BY <4>6 DEF Exists
        <4> QED
          BY <3>1, <4>7
      <3> QED
        BY <3>2, <3>3
    <2>2. Exists(top)
      BY <1>1, <2>1
    <2> QED
      BY <2>2 DEF Exists
  <1>3. Flat(flat, top)
    <2> HIDE DEF Flat
    <2> QED
      BY <1>2
  <1>4. FlattenSeq(seqs) = IF top = 0 THEN seqs ELSE flat[top]
    BY DEF FlattenSeq
  <1> HIDE DEF flat
  <1>5. /\ 1 \in 1..top => flat[1] = seqs[1]
        /\ \A i \in 1..top : i # 1 => flat[i] = flat[i - 1] \o seqs[i]
    BY <1>1, <1>3
  <1>6. \A i \in 1..top : seqs[i] \in Seq(All) /\ Len(seqs[i]) \in Nat /\ Len(seqs[i]) <= m
    BY <1>1 DEF Listed
  <1> DEFINE Good(i) == flat[i] \in Seq(All) /\ Len(flat[i]) <= m * i
  <1>7. \A i \in 1..top : Good(i)
    <2> DEFINE bad == {i \in 1..top : ~Good(i)}
    <2> HIDE DEF Good, All
    <2>0. bad \in SUBSET Nat
      BY <1>1
    <2>1. ASSUME bad # {} PROVE FALSE
      <3>1. PICK i \in bad : \A j \in bad : i <= j
        <4> HIDE DEF bad
        <4> QED
          BY <2>0, <2>1, LeastNatural
      <3>2. CASE i = 1
        BY <1>1, <1>5, <1>6, <3>1, <3>2 DEF Good
      <3>3. CASE i # 1
        <4>1. i - 1 \in 1..top /\ i \in 1..top /\ i - 1 \notin bad
          BY <1>1, <3>1, <3>3
        <4>2. flat[i - 1] \in Seq(All) /\ Len(flat[i - 1]) <= m * (i - 1)
          BY <4>1 DEF Good
        <4>3. flat[i] \in Seq(All) /\ Len(flat[i]) = Len(flat[i - 1]) + Len(seqs[i])
          <5>1. flat[i] = flat[i - 1] \o seqs[i] /\ seqs[i] \in Seq(All)
            BY <1>5, <1>6, <3>3, <4>1
          <5> QED
            BY <4>2, <5>1
        <4>4. m * (i - 1) + m = m * i /\ Len(flat[i - 1]) \in Nat /\ m * (i - 1) \in Int
          BY <1>1, <4>1, <4>2
        <4>5. Len(flat[i]) <= m * i
          BY <1>1, <1>6, <4>1, <4>2, <4>3, <4>4
        <4> QED
          BY <3>1, <4>3, <4>5 DEF Good
      <3> QED
        BY <3>2, <3>3
    <2> QED
      BY <2>1
  <1>8. FlattenSeq(seqs) \in Seq(All) /\ Len(FlattenSeq(seqs)) <= m * top
    <2>1. CASE top = 0
      <3>1. seqs \in Seq(All)
        BY <1>1, <2>1 DEF Listed
      <3> QED
        BY <1>4, <2>1, <3>1
    <2>2. CASE top # 0
      BY <1>1, <1>4, <1>7, <2>2
    <2> QED
      BY <2>1, <2>2
  <1> QED
    BY <1>8 DEF Listed, Range

-----------------------------------------------------------------------------
(* The fields of a review.                                                 *)

\* A field as it is before the aliases: no name of a contact, no service, and if
\* it points to a buffer of an address, with the value of that buffer.
FieldOf(f, b) ==
    /\ f = [item |-> f.item, buf |-> f.buf, value |-> f.value]
    /\ f.item # "Service" /\ f.value[1] # "contact"
    /\ f.buf = "toAddress" => f.value = b.toAddress
    /\ f.buf = "fromAddress" => f.value = b.fromAddress

FieldsOf(s, b, n) == Listed(s) /\ Len(s) <= n /\ \A f \in Range(s) : FieldOf(f, b)

\* A field that points to no buffer of an address, and n of them at most.
PlainField(f) ==
    /\ f = [item |-> f.item, buf |-> "none", value |-> f.value]
    /\ f.item # "Service" /\ f.value[1] # "contact"
PlainFields(s, n) == Listed(s) /\ Len(s) <= n /\ \A f \in Range(s) : PlainField(f)

\* What handleSign and the other handlers leave in the buffers: no buffer holds the
\* name of a contact, and the lists are the bounded ones that nanopb decodes.
Entries(s, n) ==
    /\ Listed(s) /\ Len(s) <= n
    /\ \A i \in DOMAIN s : Listed(s[i].keys)
Tagged(b) ==
    /\ \A v \in {b.fromAddress, b.toAddress, b.fullContract, b.amount, b.amount2,
                 b.selector, b.hash, b.maxFee} : v[1] # "contact"
    /\ b.sendAllow # "Service"
    /\ Listed(b.votes) /\ Len(b.votes) <= MAX_VOTES
    /\ Entries(b.permissions.owner, 1) /\ Entries(b.permissions.witness, 1)
    /\ Listed(b.permissions.actives)
    /\ \A i \in DOMAIN b.permissions.actives : Listed(b.permissions.actives[i].keys)

\* The three ways to make a field.
LEMMA MadeFields ==
    ASSUME NEW b, NEW item, item # "Service", NEW v, v[1] # "contact",
           b.toAddress[1] # "contact", b.fromAddress[1] # "contact"
    PROVE  FieldOf(Plain(item, v), b) /\ FieldOf(To(item, b), b) /\ FieldOf(From(item, b), b)
  BY DEF FieldOf, Plain, To, From

\* The first way needs no buffer.
LEMMA MadePlain ==
    ASSUME NEW item, item # "Service", NEW v, v[1] # "contact"
    PROVE  PlainField(Plain(item, v))
  BY DEF PlainField, Plain

\* The beginning of a sequence.
LEMMA Beginning ==
    ASSUME NEW s, Listed(s), NEW n \in Nat
    PROVE  /\ Listed(UpTo(n, s)) /\ Len(UpTo(n, s)) <= n /\ Len(UpTo(n, s)) <= Len(s)
           /\ \A i \in DOMAIN UpTo(n, s) : i \in DOMAIN s /\ UpTo(n, s)[i] = s[i]
  <1> DEFINE m == IF Len(s) < n THEN Len(s) ELSE n
  <1>1. Len(s) \in Nat /\ DOMAIN s = 1..Len(s)
    BY ListDomain
  <1>2. m \in Nat /\ m <= n /\ m <= Len(s)
    BY <1>1
  <1> HIDE DEF m
  <1>3. UpTo(n, s) = SubSeq(s, 1, m)
    BY DEF UpTo, m
  <1>4. s \in Seq(Range(s))
    BY DEF Listed
  <1>5. /\ SubSeq(s, 1, m) \in Seq(Range(s)) /\ Len(SubSeq(s, 1, m)) = m
        /\ \A i \in 1..m : SubSeq(s, 1, m)[i] = s[i]
    BY <1>1, <1>2, <1>4
  <1>6. DOMAIN SubSeq(s, 1, m) = 1..m
    BY <1>2, <1>5
  <1>7. Listed(SubSeq(s, 1, m))
    BY <1>5, SequenceListed
  <1>8. \A i \in 1..m : i \in DOMAIN s
    BY <1>1, <1>2
  <1> QED
    BY <1>2, <1>3, <1>5, <1>6, <1>7, <1>8

\* The fields of one permission.
LEMMA PermissionShown ==
    ASSUME NEW item, item # "Service", NEW entry, Listed(entry.keys)
    PROVE  PlainFields(PermissionFields(item, entry), 2 + PERMISSION_MAX_KEYS)
  <1> DEFINE keys == [k \in DOMAIN UpTo(PERMISSION_MAX_KEYS, entry.keys) |->
                         Plain(item, <<"key", entry.keys[k].address, entry.keys[k].weight>>)]
             first == <<Plain(item, <<"threshold", entry.threshold>>)>>
             last == <<Plain(item, <<"operations", entry.operations>>)>>
  <1>1. PlainFields(first, 1) /\ PlainFields(last, 1)
    <2>1. ASSUME NEW v, v[1] # "contact" PROVE PlainFields(<<Plain(item, v)>>, 1)
      <3> DEFINE f == Plain(item, v)
      <3>1. PlainField(f)
        BY <2>1, MadePlain
      <3> HIDE DEF f
      <3>2. Listed(<<f>>) /\ Range(<<f>>) = {f} /\ Len(<<f>>) = 1
        BY DEF Listed, Range
      <3> QED
        BY <3>1, <3>2 DEF PlainFields, f
    <2> QED
      BY <2>1
  <1>2. PlainFields(keys, PERMISSION_MAX_KEYS)
    <2> DEFINE up == UpTo(PERMISSION_MAX_KEYS, entry.keys)
    <2>1. PERMISSION_MAX_KEYS \in Nat
      BY DEF PERMISSION_MAX_KEYS
    <2>2. Listed(up) /\ Len(up) <= PERMISSION_MAX_KEYS
      BY <2>1, Beginning
    <2>3. Len(up) \in Nat /\ DOMAIN up = 1..Len(up)
      BY <2>2, ListDomain
    <2> HIDE DEF up
    <2>4. ASSUME NEW k \in 1..Len(up) PROVE PlainField(keys[k])
      <3>1. <<"key", entry.keys[k].address, entry.keys[k].weight>>[1] # "contact"
        OBVIOUS
      <3> QED
        BY <2>3, <3>1, MadePlain DEF up
    <2>5. DOMAIN keys = 1..Len(up) /\ keys = [k \in 1..Len(up) |-> keys[k]]
      BY <2>3 DEF up
    <2> HIDE DEF keys
    <2> QED
      BY <2>2, <2>3, <2>4, <2>5, MadeList, ListDomain DEF PlainFields
  <1> HIDE DEF keys, first, last
  <1>3. PermissionFields(item, entry) = first \o keys \o last
    BY DEF PermissionFields, keys, first, last
  <1>4. /\ Listed(first \o keys) /\ Range(first \o keys) = Range(first) \cup Range(keys)
        /\ Len(first \o keys) = Len(first) + Len(keys)
    BY <1>1, <1>2, JoinedLists DEF PlainFields
  <1>5. /\ Listed((first \o keys) \o last)
        /\ Range((first \o keys) \o last) = Range(first \o keys) \cup Range(last)
        /\ Len((first \o keys) \o last) = Len(first \o keys) + Len(last)
    BY <1>1, <1>4, JoinedLists DEF PlainFields
  <1>6. Len(first) \in Nat /\ Len(keys) \in Nat /\ Len(last) \in Nat
    BY <1>1, <1>2, ListDomain DEF PlainFields
  <1> QED
    BY <1>1, <1>2, <1>3, <1>4, <1>5, <1>6 DEF PlainFields, PERMISSION_MAX_KEYS

\* Sequences of the fields of n permissions at most.
PermissionsOf(parts, n) ==
    /\ Listed(parts) /\ Len(parts) <= n
    /\ \A i \in DOMAIN parts : PlainFields(parts[i], 2 + PERMISSION_MAX_KEYS)

\* The fields of the permissions of one kind.
LEMMA EntriesShown ==
    ASSUME NEW entries, NEW n, Entries(entries, n), NEW items,
           \A i \in DOMAIN entries : items[i] # "Service"
    PROVE  PermissionsOf([i \in DOMAIN entries |-> PermissionFields(items[i], entries[i])], n)
  <1> DEFINE parts == [i \in DOMAIN entries |-> PermissionFields(items[i], entries[i])]
  <1>1. Len(entries) \in Nat /\ DOMAIN entries = 1..Len(entries) /\ Len(entries) <= n
    BY ListDomain DEF Entries
  <1>2. DOMAIN parts = 1..Len(entries) /\ parts = [i \in 1..Len(entries) |-> parts[i]]
    BY <1>1
  <1>3. ASSUME NEW i \in DOMAIN entries
        PROVE  PlainFields(parts[i], 2 + PERMISSION_MAX_KEYS)
    BY PermissionShown DEF Entries
  <1> HIDE DEF parts
  <1>4. Listed(parts) /\ Len(parts) = Len(entries)
    BY <1>1, <1>2, MadeList
  <1>5. PermissionsOf(parts, n)
    BY <1>1, <1>2, <1>3, <1>4 DEF PermissionsOf
  <1> QED
    BY <1>5 DEF parts

\* Those of several kinds together.
LEMMA JoinedPermissions ==
    ASSUME NEW s, NEW t, NEW n \in Nat, NEW k \in Nat,
           PermissionsOf(s, n), PermissionsOf(t, k)
    PROVE  PermissionsOf(s \o t, n + k)
  <1>1. /\ Listed(s \o t) /\ Len(s \o t) = Len(s) + Len(t)
        /\ Range(s \o t) = Range(s) \cup Range(t)
    BY JoinedLists DEF PermissionsOf
  <1>2. Len(s) \in Nat /\ Len(t) \in Nat /\ Len(s) <= n /\ Len(t) <= k
    BY ListDomain DEF PermissionsOf
  <1>3. \A x \in Range(s) \cup Range(t) : PlainFields(x, 2 + PERMISSION_MAX_KEYS)
    BY DEF PermissionsOf, Range
  <1>4. \A i \in DOMAIN (s \o t) : (s \o t)[i] \in Range(s) \cup Range(t)
    BY <1>1 DEF Range
  <1> QED
    BY <1>1, <1>2, <1>3, <1>4 DEF PermissionsOf

\* The fields of a permission update: four permissions of five fields at most.
LEMMA PermissionsShown ==
    ASSUME NEW b, Tagged(b)
    PROVE  PlainFields(PermissionUpdateFields(b.permissions),
                       (2 + PERMISSION_MAX_ACTIVES) * (2 + PERMISSION_MAX_KEYS))
  <1> DEFINE p == b.permissions
             actives == UpTo(PERMISSION_MAX_ACTIVES, p.actives)
             of(items, entries) == [i \in DOMAIN entries |-> PermissionFields(items[i], entries[i])]
             owner == of(<<"Owner">>, p.owner)
             witness == of(<<"Witness">>, p.witness)
             active == of(<<"Active 1", "Active 2">>, actives)
  <1>1. PERMISSION_MAX_ACTIVES = 2 /\ PERMISSION_MAX_KEYS = 3
    BY DEF PERMISSION_MAX_ACTIVES, PERMISSION_MAX_KEYS
  <1>3. Entries(p.owner, 1) /\ Entries(p.witness, 1) /\ Entries(actives, 2)
    <2>1. \A i \in DOMAIN actives : i \in DOMAIN p.actives /\ actives[i] = p.actives[i]
      BY <1>1, Beginning DEF Tagged
    <2>2. Listed(actives) /\ Len(actives) <= 2
      BY <1>1, Beginning DEF Tagged
    <2> HIDE DEF actives
    <2> QED
      BY <2>1, <2>2 DEF Entries, Tagged
  <1> HIDE DEF actives
  <1>4. /\ \A i \in DOMAIN p.owner : i = 1
        /\ \A i \in DOMAIN p.witness : i = 1
        /\ \A i \in DOMAIN actives : i \in 1..2
    BY <1>3, ListDomain DEF Entries
  <1>5. PermissionsOf(owner, 1)
    <2>1. \A i \in DOMAIN p.owner : <<"Owner">>[i] # "Service"
      BY <1>4
    <2> QED
      BY <1>3, <2>1, EntriesShown
  <1>6. PermissionsOf(witness, 1)
    <2>1. \A i \in DOMAIN p.witness : <<"Witness">>[i] # "Service"
      BY <1>4
    <2> QED
      BY <1>3, <2>1, EntriesShown
  <1>7. PermissionsOf(active, 2)
    <2>1. \A i \in 1..2 : <<"Active 1", "Active 2">>[i] # "Service"
      <3> DEFINE items == <<"Active 1", "Active 2">>
      <3>1. items[1] # "Service"
        OBVIOUS
      <3>2. items[2] # "Service"
        OBVIOUS
      <3> HIDE DEF items
      <3>3. \A i \in 1..2 : items[i] # "Service"
        BY <3>1, <3>2
      <3> QED
        BY <3>3 DEF items
    <2>2. \A i \in DOMAIN actives : <<"Active 1", "Active 2">>[i] # "Service"
      BY <1>4, <2>1
    <2> QED
      BY <1>3, <2>2, EntriesShown
  <1> DEFINE all == owner \o witness \o active
  <1>8. PermissionUpdateFields(b.permissions) = FlattenSeq(all)
    BY DEF PermissionUpdateFields, actives
  <1> HIDE DEF owner, witness, active
  <1>9. PermissionsOf(all, 4)
    <2>1. PermissionsOf(owner \o witness, 2)
      BY <1>5, <1>6, JoinedPermissions
    <2> QED
      BY <1>7, <2>1, JoinedPermissions
  <1> HIDE DEF all
  <1>10. /\ Listed(FlattenSeq(all))
         /\ \A x \in Range(FlattenSeq(all)) : \E i \in DOMAIN all : x \in Range(all[i])
         /\ Len(FlattenSeq(all)) <= 5 * Len(all)
    BY <1>1, <1>9, Flattened DEF PermissionsOf, PlainFields
  <1>11. Len(all) \in Nat /\ Len(all) <= 4 /\ Len(FlattenSeq(all)) \in Nat
    BY <1>9, <1>10, ListDomain DEF PermissionsOf
  <1>12. Len(FlattenSeq(all)) <= 20
    BY <1>10, <1>11
  <1>13. \A x \in Range(FlattenSeq(all)) : PlainField(x)
    BY <1>9, <1>10 DEF PermissionsOf, PlainFields
  <1> QED
    BY <1>1, <1>8, <1>10, <1>12, <1>13 DEF PlainFields

\* The fields of the votes.
LEMMA VotesShown ==
    ASSUME NEW b, Tagged(b)
    PROVE  /\ PlainFields(VoteFields(b.votes), MAX_VOTES)
           /\ \A j \in DOMAIN b.votes : \E f \in Range(VoteFields(b.votes)) :
                 f.value = <<"vote", b.votes[j].address, VoteText(b.votes[j].count)>>
  <1> DEFINE votes == b.votes
             fields == VoteFields(votes)
             text(j) == <<"vote", votes[j].address, VoteText(votes[j].count)>>
  <1>1. Listed(votes) /\ Len(votes) \in Nat /\ DOMAIN votes = 1..Len(votes) /\ Len(votes) <= MAX_VOTES
    BY ListDomain DEF Tagged
  <1>2. /\ DOMAIN fields = 1..Len(votes) /\ fields = [j \in 1..Len(votes) |-> fields[j]]
        /\ \A j \in 1..Len(votes) : fields[j] = Plain("Vote", text(j))
    BY <1>1 DEF VoteFields
  <1>3. \A j \in 1..Len(votes) : text(j)[1] # "contact"
    OBVIOUS
  <1> HIDE DEF fields, text
  <1>4. ASSUME NEW j \in 1..Len(votes)
        PROVE  PlainField(fields[j]) /\ fields[j].value = text(j) /\ fields[j] \in Range(fields)
    <2>1. fields[j] = Plain("Vote", text(j)) /\ text(j)[1] # "contact"
      BY <1>2, <1>3
    <2>3. PlainField(Plain("Vote", text(j)))
      BY <2>1, MadePlain
    <2>4. Plain("Vote", text(j)).value = text(j)
      BY DEF Plain
    <2>5. fields[j] \in Range(fields)
      BY <1>2 DEF Range
    <2> QED
      BY <2>1, <2>3, <2>4, <2>5
  <1>5. Listed(fields) /\ Len(fields) = Len(votes)
    BY <1>1, <1>2, MadeList
  <1>6. PlainFields(fields, MAX_VOTES)
    BY <1>1, <1>2, <1>4, <1>5 DEF PlainFields, Range
  <1> QED
    BY <1>1, <1>4, <1>6 DEF fields, text

\* The values of the fields.
Values(s) == {f.value : f \in Range(s)}

\* A review of one field.
LEMMA OneShown ==
    ASSUME NEW b, NEW u,
           FieldOf(u, b)
    PROVE  /\ FieldsOf(<<u>>, b, 6)
           /\ Values(<<u>>) = {u.value}
  <1>1. Listed(<<u>>) /\ Range(<<u>>) = {u} /\ Len(<<u>>) = 1
    BY DEF Listed, Range
  <1> QED
    BY <1>1 DEF FieldsOf, Values

\* A review of two fields.
LEMMA TwoShown ==
    ASSUME NEW b, NEW u, NEW v,
           FieldOf(u, b), FieldOf(v, b)
    PROVE  /\ FieldsOf(<<u, v>>, b, 6)
           /\ Values(<<u, v>>) = {u.value, v.value}
  <1>1. Listed(<<u, v>>) /\ Range(<<u, v>>) = {u, v} /\ Len(<<u, v>>) = 2
    BY DEF Listed, Range
  <1> QED
    BY <1>1 DEF FieldsOf, Values

\* A review of three fields.
LEMMA ThreeShown ==
    ASSUME NEW b, NEW u, NEW v, NEW w,
           FieldOf(u, b), FieldOf(v, b), FieldOf(w, b)
    PROVE  /\ FieldsOf(<<u, v, w>>, b, 6)
           /\ Values(<<u, v, w>>) = {u.value, v.value, w.value}
  <1>1. Listed(<<u, v, w>>) /\ Range(<<u, v, w>>) = {u, v, w} /\ Len(<<u, v, w>>) = 3
    BY DEF Listed, Range
  <1> QED
    BY <1>1 DEF FieldsOf, Values

\* A review of four fields.
LEMMA FourShown ==
    ASSUME NEW b, NEW u, NEW v, NEW w, NEW x,
           FieldOf(u, b), FieldOf(v, b), FieldOf(w, b), FieldOf(x, b)
    PROVE  /\ FieldsOf(<<u, v, w, x>>, b, 6)
           /\ Values(<<u, v, w, x>>) = {u.value, v.value, w.value, x.value}
  <1>1. Listed(<<u, v, w, x>>) /\ Range(<<u, v, w, x>>) = {u, v, w, x} /\ Len(<<u, v, w, x>>) = 4
    BY DEF Listed, Range
  <1> QED
    BY <1>1 DEF FieldsOf, Values

\* A review of five fields.
LEMMA FiveShown ==
    ASSUME NEW b, NEW u, NEW v, NEW w, NEW x, NEW y,
           FieldOf(u, b), FieldOf(v, b), FieldOf(w, b), FieldOf(x, b), FieldOf(y, b)
    PROVE  /\ FieldsOf(<<u, v, w, x, y>>, b, 6)
           /\ Values(<<u, v, w, x, y>>) = {u.value, v.value, w.value, x.value, y.value}
  <1>1. Listed(<<u, v, w, x, y>>) /\ Range(<<u, v, w, x, y>>) = {u, v, w, x, y} /\ Len(<<u, v, w, x, y>>) = 5
    BY DEF Listed, Range
  <1> QED
    BY <1>1 DEF FieldsOf, Values

\* A review of six fields.
LEMMA SixShown ==
    ASSUME NEW b, NEW u, NEW v, NEW w, NEW x, NEW y, NEW z,
           FieldOf(u, b), FieldOf(v, b), FieldOf(w, b), FieldOf(x, b), FieldOf(y, b), FieldOf(z, b)
    PROVE  /\ FieldsOf(<<u, v, w, x, y, z>>, b, 6)
           /\ Values(<<u, v, w, x, y, z>>) = {u.value, v.value, w.value, x.value, y.value, z.value}
  <1>1. Listed(<<u, v, w, x, y, z>>) /\ Range(<<u, v, w, x, y, z>>) = {u, v, w, x, y, z} /\ Len(<<u, v, w, x, y, z>>) = 6
    BY DEF Listed, Range
  <1> QED
    BY <1>1 DEF FieldsOf, Values

\* What the review of a state shows: few fields, the sender always.
Reveals(s, b, shown) == FieldsOf(s, b, 7) /\ shown \subseteq Values(s)

\* The reviews that are a list of a few fixed fields.
LEMMA FixedReviews ==
    ASSUME NEW b, Tagged(b), NEW isTrigger
    PROVE  /\ Reveals(FieldList("APPROVAL_SIMPLE_TRANSACTION", b, isTrigger), b,
                    {b.hash, b.fromAddress})
           /\ Reveals(FieldList("APPROVAL_EXCHANGE_CREATE", b, isTrigger), b,
                    {b.fullContract, b.amount, b.toAddress, b.amount2, b.fromAddress})
           /\ Reveals(FieldList("APPROVAL_EXCHANGE_TRANSACTION", b, isTrigger), b,
                    {b.toAddress, b.fullContract, b.amount, b.amount2, b.fromAddress})
           /\ Reveals(FieldList("APPROVAL_EXCHANGE_WITHDRAW_INJECT", b, isTrigger), b,
                    {b.amount2, b.toAddress, b.fullContract, b.amount, b.fromAddress})
           /\ Reveals(FieldList("APPROVAL_FREEZEASSET_TRANSACTION", b, isTrigger), b,
                    {b.fullContract, b.amount, b.toAddress, b.fromAddress})
           /\ Reveals(FieldList("APPROVAL_UNFREEZEASSET_TRANSACTION", b, isTrigger), b,
                    {b.fullContract, b.toAddress, b.fromAddress})
           /\ Reveals(FieldList("APPROVAL_FREEZEASSETV2_TRANSACTION", b, isTrigger), b,
                    {b.fullContract, b.amount, b.toAddress, b.fromAddress})
           /\ Reveals(FieldList("APPROVAL_UNFREEZEASSETV2_TRANSACTION", b, isTrigger), b,
                    {b.fullContract, b.amount, b.toAddress, b.fromAddress})
           /\ Reveals(FieldList("APPROVAL_DELEGATE_RESOURCE_TRANSACTION", b, isTrigger), b,
                    {b.fullContract, b.amount, b.amount2, b.toAddress, b.fromAddress})
           /\ Reveals(FieldList("APPROVAL_UNDELEGATE_RESOURCE_TRANSACTION", b, isTrigger), b,
                    {b.fullContract, b.amount, b.fromAddress, b.toAddress})
           /\ Reveals(FieldList("APPROVAL_WITHDRAWBALANCE_TRANSACTION", b, isTrigger), b,
                    {b.fromAddress})
           /\ Reveals(FieldList("APPROVAL_WITHDRAWEXPIREUNFREEZE_TRANSACTION", b, isTrigger), b,
                    {b.fromAddress})
           /\ Reveals(FieldList("APPROVAL_SIGN_PERSONAL_MESSAGE", b, isTrigger), b,
                    {b.fullContract, b.fromAddress})
           /\ Reveals(FieldList("APPROVAL_SIGN_TIP72_TRANSACTION", b, isTrigger), b,
                    {b.amount, b.amount2, b.fromAddress})
           /\ Reveals(FieldList("APPROVAL_CUSTOM_CONTRACT", b, isTrigger), b,
                    {b.fullContract, b.selector, b.toAddress, b.amount, b.fromAddress, b.maxFee})
           /\ Reveals(FieldList("APPROVAL_SHARED_ECDH_SECRET", b, isTrigger), b,
                    {b.fromAddress, b.toAddress})
  <1>1. /\ \A item, v : item # "Service" /\ v[1] # "contact" =>
              FieldOf(Plain(item, v), b) /\ Plain(item, v).value = v
        /\ \A item : item # "Service" =>
              /\ FieldOf(To(item, b), b) /\ To(item, b).value = b.toAddress
              /\ FieldOf(From(item, b), b) /\ From(item, b).value = b.fromAddress
    <2>1. b.toAddress[1] # "contact" /\ b.fromAddress[1] # "contact"
      BY DEF Tagged
    <2>2. /\ \A item, v : Plain(item, v).value = v
          /\ \A item : To(item, b).value = b.toAddress /\ From(item, b).value = b.fromAddress
      BY DEF Plain, To, From
    <2>3. ASSUME NEW item, NEW v, item # "Service", v[1] # "contact"
          PROVE  FieldOf(Plain(item, v), b)
      BY <2>1, <2>3, MadeFields
    <2>4. ASSUME NEW item, item # "Service"
          PROVE  FieldOf(To(item, b), b) /\ FieldOf(From(item, b), b)
      BY <2>1, <2>4 DEF FieldOf, To, From
    <2> QED
      BY <2>2, <2>3, <2>4
  <1>2. /\ b.fullContract[1] # "contact" /\ b.amount[1] # "contact" /\ b.amount2[1] # "contact"
        /\ b.selector[1] # "contact" /\ b.hash[1] # "contact" /\ b.maxFee[1] # "contact"
    BY DEF Tagged
  <1>3. ASSUME NEW s, FieldsOf(s, b, 6) PROVE FieldsOf(s, b, 7)
    BY <1>3, ListDomain DEF FieldsOf
  <1>4. Reveals(FieldList("APPROVAL_SIMPLE_TRANSACTION", b, isTrigger), b,
               {b.hash, b.fromAddress})
    <2> DEFINE u == Plain("Hash", b.hash)
             v == From("From", b)
    <2>1. FieldList("APPROVAL_SIMPLE_TRANSACTION", b, isTrigger) = <<u, v>>
      BY DEF FieldList
    <2>2. /\ FieldOf(u, b)
          /\ FieldOf(v, b)
          /\ u.value = b.hash
          /\ v.value = b.fromAddress
      BY <1>1, <1>2
    <2> HIDE DEF u, v
    <2>3. FieldsOf(<<u, v>>, b, 6) /\ Values(<<u, v>>) = {u.value, v.value}
      BY <2>2, TwoShown
    <2> QED
      BY <1>3, <2>1, <2>2, <2>3 DEF Reveals
  <1>5. Reveals(FieldList("APPROVAL_EXCHANGE_CREATE", b, isTrigger), b,
               {b.fullContract, b.amount, b.toAddress, b.amount2, b.fromAddress})
    <2> DEFINE u == Plain("Token 1", b.fullContract)
             v == Plain("Amount 1", b.amount)
             w == To("Token 2", b)
             x == Plain("Amount 2", b.amount2)
             y == From("From", b)
    <2>1. FieldList("APPROVAL_EXCHANGE_CREATE", b, isTrigger) = <<u, v, w, x, y>>
      BY DEF FieldList
    <2>2. /\ FieldOf(u, b) /\ FieldOf(v, b) /\ FieldOf(w, b)
          /\ FieldOf(x, b) /\ FieldOf(y, b)
          /\ u.value = b.fullContract /\ v.value = b.amount /\ w.value = b.toAddress
          /\ x.value = b.amount2 /\ y.value = b.fromAddress
      BY <1>1, <1>2
    <2> HIDE DEF u, v, w, x, y
    <2>3. FieldsOf(<<u, v, w, x, y>>, b, 6) /\ Values(<<u, v, w, x, y>>) = {u.value, v.value, w.value, x.value, y.value}
      BY <2>2, FiveShown
    <2> QED
      BY <1>3, <2>1, <2>2, <2>3 DEF Reveals
  <1>6. Reveals(FieldList("APPROVAL_EXCHANGE_TRANSACTION", b, isTrigger), b,
               {b.toAddress, b.fullContract, b.amount, b.amount2, b.fromAddress})
    <2> DEFINE u == To("Exchange ID", b)
             v == Plain("Token pair", b.fullContract)
             w == Plain("Amount", b.amount)
             x == Plain("Expected", b.amount2)
             y == From("From", b)
    <2>1. FieldList("APPROVAL_EXCHANGE_TRANSACTION", b, isTrigger) = <<u, v, w, x, y>>
      BY DEF FieldList
    <2>2. /\ FieldOf(u, b) /\ FieldOf(v, b) /\ FieldOf(w, b)
          /\ FieldOf(x, b) /\ FieldOf(y, b)
          /\ u.value = b.toAddress /\ v.value = b.fullContract /\ w.value = b.amount
          /\ x.value = b.amount2 /\ y.value = b.fromAddress
      BY <1>1, <1>2
    <2> HIDE DEF u, v, w, x, y
    <2>3. FieldsOf(<<u, v, w, x, y>>, b, 6) /\ Values(<<u, v, w, x, y>>) = {u.value, v.value, w.value, x.value, y.value}
      BY <2>2, FiveShown
    <2> QED
      BY <1>3, <2>1, <2>2, <2>3 DEF Reveals
  <1>7. Reveals(FieldList("APPROVAL_EXCHANGE_WITHDRAW_INJECT", b, isTrigger), b,
               {b.amount2, b.toAddress, b.fullContract, b.amount, b.fromAddress})
    <2> DEFINE u == Plain("Action", b.amount2)
             v == To("Exchange ID", b)
             w == Plain("Token Name", b.fullContract)
             x == Plain("Amount", b.amount)
             y == From("From", b)
    <2>1. FieldList("APPROVAL_EXCHANGE_WITHDRAW_INJECT", b, isTrigger) = <<u, v, w, x, y>>
      BY DEF FieldList
    <2>2. /\ FieldOf(u, b) /\ FieldOf(v, b) /\ FieldOf(w, b)
          /\ FieldOf(x, b) /\ FieldOf(y, b)
          /\ u.value = b.amount2 /\ v.value = b.toAddress /\ w.value = b.fullContract
          /\ x.value = b.amount /\ y.value = b.fromAddress
      BY <1>1, <1>2
    <2> HIDE DEF u, v, w, x, y
    <2>3. FieldsOf(<<u, v, w, x, y>>, b, 6) /\ Values(<<u, v, w, x, y>>) = {u.value, v.value, w.value, x.value, y.value}
      BY <2>2, FiveShown
    <2> QED
      BY <1>3, <2>1, <2>2, <2>3 DEF Reveals
  <1>8. Reveals(FieldList("APPROVAL_FREEZEASSET_TRANSACTION", b, isTrigger), b,
               {b.fullContract, b.amount, b.toAddress, b.fromAddress})
    <2> DEFINE u == Plain("Gain", b.fullContract)
             v == Plain("Amount", b.amount)
             w == To("Freeze To", b)
             x == From("From", b)
    <2>1. FieldList("APPROVAL_FREEZEASSET_TRANSACTION", b, isTrigger) = <<u, v, w, x>>
      BY DEF FieldList
    <2>2. /\ FieldOf(u, b) /\ FieldOf(v, b)
          /\ FieldOf(w, b) /\ FieldOf(x, b)
          /\ u.value = b.fullContract /\ v.value = b.amount
          /\ w.value = b.toAddress /\ x.value = b.fromAddress
      BY <1>1, <1>2
    <2> HIDE DEF u, v, w, x
    <2>3. FieldsOf(<<u, v, w, x>>, b, 6) /\ Values(<<u, v, w, x>>) = {u.value, v.value, w.value, x.value}
      BY <2>2, FourShown
    <2> QED
      BY <1>3, <2>1, <2>2, <2>3 DEF Reveals
  <1>9. Reveals(FieldList("APPROVAL_UNFREEZEASSET_TRANSACTION", b, isTrigger), b,
               {b.fullContract, b.toAddress, b.fromAddress})
    <2> DEFINE u == Plain("Resource", b.fullContract)
             v == To("Delegated To", b)
             w == From("From", b)
    <2>1. FieldList("APPROVAL_UNFREEZEASSET_TRANSACTION", b, isTrigger) = <<u, v, w>>
      BY DEF FieldList
    <2>2. /\ FieldOf(u, b) /\ FieldOf(v, b)
          /\ FieldOf(w, b)
          /\ u.value = b.fullContract /\ v.value = b.toAddress
          /\ w.value = b.fromAddress
      BY <1>1, <1>2
    <2> HIDE DEF u, v, w
    <2>3. FieldsOf(<<u, v, w>>, b, 6) /\ Values(<<u, v, w>>) = {u.value, v.value, w.value}
      BY <2>2, ThreeShown
    <2> QED
      BY <1>3, <2>1, <2>2, <2>3 DEF Reveals
  <1>10. Reveals(FieldList("APPROVAL_FREEZEASSETV2_TRANSACTION", b, isTrigger), b,
               {b.fullContract, b.amount, b.toAddress, b.fromAddress})
    <2> DEFINE u == Plain("Gain", b.fullContract)
             v == Plain("Amount", b.amount)
             w == To("To", b)
             x == From("From", b)
    <2>1. FieldList("APPROVAL_FREEZEASSETV2_TRANSACTION", b, isTrigger) = <<u, v, w, x>>
      BY DEF FieldList
    <2>2. /\ FieldOf(u, b) /\ FieldOf(v, b)
          /\ FieldOf(w, b) /\ FieldOf(x, b)
          /\ u.value = b.fullContract /\ v.value = b.amount
          /\ w.value = b.toAddress /\ x.value = b.fromAddress
      BY <1>1, <1>2
    <2> HIDE DEF u, v, w, x
    <2>3. FieldsOf(<<u, v, w, x>>, b, 6) /\ Values(<<u, v, w, x>>) = {u.value, v.value, w.value, x.value}
      BY <2>2, FourShown
    <2> QED
      BY <1>3, <2>1, <2>2, <2>3 DEF Reveals
  <1>11. Reveals(FieldList("APPROVAL_UNFREEZEASSETV2_TRANSACTION", b, isTrigger), b,
               {b.fullContract, b.amount, b.toAddress, b.fromAddress})
    <2> DEFINE u == Plain("Resource", b.fullContract)
             v == Plain("Amount", b.amount)
             w == To("To", b)
             x == From("From", b)
    <2>1. FieldList("APPROVAL_UNFREEZEASSETV2_TRANSACTION", b, isTrigger) = <<u, v, w, x>>
      BY DEF FieldList
    <2>2. /\ FieldOf(u, b) /\ FieldOf(v, b)
          /\ FieldOf(w, b) /\ FieldOf(x, b)
          /\ u.value = b.fullContract /\ v.value = b.amount
          /\ w.value = b.toAddress /\ x.value = b.fromAddress
      BY <1>1, <1>2
    <2> HIDE DEF u, v, w, x
    <2>3. FieldsOf(<<u, v, w, x>>, b, 6) /\ Values(<<u, v, w, x>>) = {u.value, v.value, w.value, x.value}
      BY <2>2, FourShown
    <2> QED
      BY <1>3, <2>1, <2>2, <2>3 DEF Reveals
  <1>12. Reveals(FieldList("APPROVAL_DELEGATE_RESOURCE_TRANSACTION", b, isTrigger), b,
               {b.fullContract, b.amount, b.amount2, b.toAddress, b.fromAddress})
    <2> DEFINE u == Plain("Resource", b.fullContract)
             v == Plain("Amount", b.amount)
             w == Plain("Lock", b.amount2)
             x == To("To", b)
             y == From("From", b)
    <2>1. FieldList("APPROVAL_DELEGATE_RESOURCE_TRANSACTION", b, isTrigger) = <<u, v, w, x, y>>
      BY DEF FieldList
    <2>2. /\ FieldOf(u, b) /\ FieldOf(v, b) /\ FieldOf(w, b)
          /\ FieldOf(x, b) /\ FieldOf(y, b)
          /\ u.value = b.fullContract /\ v.value = b.amount /\ w.value = b.amount2
          /\ x.value = b.toAddress /\ y.value = b.fromAddress
      BY <1>1, <1>2
    <2> HIDE DEF u, v, w, x, y
    <2>3. FieldsOf(<<u, v, w, x, y>>, b, 6) /\ Values(<<u, v, w, x, y>>) = {u.value, v.value, w.value, x.value, y.value}
      BY <2>2, FiveShown
    <2> QED
      BY <1>3, <2>1, <2>2, <2>3 DEF Reveals
  <1>13. Reveals(FieldList("APPROVAL_UNDELEGATE_RESOURCE_TRANSACTION", b, isTrigger), b,
               {b.fullContract, b.amount, b.fromAddress, b.toAddress})
    <2> DEFINE u == Plain("Resource", b.fullContract)
             v == Plain("Amount", b.amount)
             w == From("To", b)
             x == To("From", b)
    <2>1. FieldList("APPROVAL_UNDELEGATE_RESOURCE_TRANSACTION", b, isTrigger) = <<u, v, w, x>>
      BY DEF FieldList
    <2>2. /\ FieldOf(u, b) /\ FieldOf(v, b)
          /\ FieldOf(w, b) /\ FieldOf(x, b)
          /\ u.value = b.fullContract /\ v.value = b.amount
          /\ w.value = b.fromAddress /\ x.value = b.toAddress
      BY <1>1, <1>2
    <2> HIDE DEF u, v, w, x
    <2>3. FieldsOf(<<u, v, w, x>>, b, 6) /\ Values(<<u, v, w, x>>) = {u.value, v.value, w.value, x.value}
      BY <2>2, FourShown
    <2> QED
      BY <1>3, <2>1, <2>2, <2>3 DEF Reveals
  <1>14. Reveals(FieldList("APPROVAL_WITHDRAWBALANCE_TRANSACTION", b, isTrigger), b,
               {b.fromAddress})
    <2> DEFINE u == From("From", b)
    <2>1. FieldList("APPROVAL_WITHDRAWBALANCE_TRANSACTION", b, isTrigger) = <<u>>
      BY DEF FieldList
    <2>2. /\ FieldOf(u, b)
          /\ u.value = b.fromAddress
      BY <1>1, <1>2
    <2> HIDE DEF u
    <2>3. FieldsOf(<<u>>, b, 6) /\ Values(<<u>>) = {u.value}
      BY <2>2, OneShown
    <2> QED
      BY <1>3, <2>1, <2>2, <2>3 DEF Reveals
  <1>15. Reveals(FieldList("APPROVAL_WITHDRAWEXPIREUNFREEZE_TRANSACTION", b, isTrigger), b,
               {b.fromAddress})
    <2> DEFINE u == From("From", b)
    <2>1. FieldList("APPROVAL_WITHDRAWEXPIREUNFREEZE_TRANSACTION", b, isTrigger) = <<u>>
      BY DEF FieldList
    <2>2. /\ FieldOf(u, b)
          /\ u.value = b.fromAddress
      BY <1>1, <1>2
    <2> HIDE DEF u
    <2>3. FieldsOf(<<u>>, b, 6) /\ Values(<<u>>) = {u.value}
      BY <2>2, OneShown
    <2> QED
      BY <1>3, <2>1, <2>2, <2>3 DEF Reveals
  <1>16. Reveals(FieldList("APPROVAL_SIGN_PERSONAL_MESSAGE", b, isTrigger), b,
               {b.fullContract, b.fromAddress})
    <2> DEFINE u == Plain("Message hash", b.fullContract)
             v == From("Sign with", b)
    <2>1. FieldList("APPROVAL_SIGN_PERSONAL_MESSAGE", b, isTrigger) = <<u, v>>
      BY DEF FieldList
    <2>2. /\ FieldOf(u, b)
          /\ FieldOf(v, b)
          /\ u.value = b.fullContract
          /\ v.value = b.fromAddress
      BY <1>1, <1>2
    <2> HIDE DEF u, v
    <2>3. FieldsOf(<<u, v>>, b, 6) /\ Values(<<u, v>>) = {u.value, v.value}
      BY <2>2, TwoShown
    <2> QED
      BY <1>3, <2>1, <2>2, <2>3 DEF Reveals
  <1>17. Reveals(FieldList("APPROVAL_SIGN_TIP72_TRANSACTION", b, isTrigger), b,
               {b.amount, b.amount2, b.fromAddress})
    <2> DEFINE u == Plain("Domain hash", b.amount)
             v == Plain("Message hash", b.amount2)
             w == From("Sign with", b)
    <2>1. FieldList("APPROVAL_SIGN_TIP72_TRANSACTION", b, isTrigger) = <<u, v, w>>
      BY DEF FieldList
    <2>2. /\ FieldOf(u, b) /\ FieldOf(v, b)
          /\ FieldOf(w, b)
          /\ u.value = b.amount /\ v.value = b.amount2
          /\ w.value = b.fromAddress
      BY <1>1, <1>2
    <2> HIDE DEF u, v, w
    <2>3. FieldsOf(<<u, v, w>>, b, 6) /\ Values(<<u, v, w>>) = {u.value, v.value, w.value}
      BY <2>2, ThreeShown
    <2> QED
      BY <1>3, <2>1, <2>2, <2>3 DEF Reveals
  <1>18. Reveals(FieldList("APPROVAL_CUSTOM_CONTRACT", b, isTrigger), b,
               {b.fullContract, b.selector, b.toAddress, b.amount, b.fromAddress, b.maxFee})
    <2> DEFINE u == Plain("Contract", b.fullContract)
             v == Plain("Selector", b.selector)
             w == To("Pay Token", b)
             x == Plain("Call Amount", b.amount)
             y == From("From", b)
             z == Plain("Max Fee", b.maxFee)
    <2>1. FieldList("APPROVAL_CUSTOM_CONTRACT", b, isTrigger) = <<u, v, w, x, y, z>>
      BY DEF FieldList
    <2>2. /\ FieldOf(u, b) /\ FieldOf(v, b) /\ FieldOf(w, b)
          /\ FieldOf(x, b) /\ FieldOf(y, b) /\ FieldOf(z, b)
          /\ u.value = b.fullContract /\ v.value = b.selector /\ w.value = b.toAddress
          /\ x.value = b.amount /\ y.value = b.fromAddress /\ z.value = b.maxFee
      BY <1>1, <1>2
    <2> HIDE DEF u, v, w, x, y, z
    <2>3. FieldsOf(<<u, v, w, x, y, z>>, b, 6) /\ Values(<<u, v, w, x, y, z>>) = {u.value, v.value, w.value, x.value, y.value, z.value}
      BY <2>2, SixShown
    <2> QED
      BY <1>3, <2>1, <2>2, <2>3 DEF Reveals
  <1>19. Reveals(FieldList("APPROVAL_SHARED_ECDH_SECRET", b, isTrigger), b,
               {b.fromAddress, b.toAddress})
    <2> DEFINE u == From("ECDH Address", b)
             v == To("Shared With", b)
    <2>1. FieldList("APPROVAL_SHARED_ECDH_SECRET", b, isTrigger) = <<u, v>>
      BY DEF FieldList
    <2>2. /\ FieldOf(u, b)
          /\ FieldOf(v, b)
          /\ u.value = b.fromAddress
          /\ v.value = b.toAddress
      BY <1>1, <1>2
    <2> HIDE DEF u, v
    <2>3. FieldsOf(<<u, v>>, b, 6) /\ Values(<<u, v>>) = {u.value, v.value}
      BY <2>2, TwoShown
    <2> QED
      BY <1>3, <2>1, <2>2, <2>3 DEF Reveals
  <1> QED
    BY <1>4, <1>5, <1>6, <1>7, <1>8, <1>9, <1>10, <1>11, <1>12, <1>13, <1>14, <1>15, <1>16, <1>17, <1>18, <1>19

\* The review of a transfer, with the fee limit of a call.
LEMMA TransferReview ==
    ASSUME NEW b, Tagged(b), NEW isTrigger \in BOOLEAN
    PROVE  Reveals(FieldList("APPROVAL_TRANSFER", b, isTrigger), b,
                 {b.amount, b.fullContract, b.toAddress, b.fromAddress}
                     \cup (IF isTrigger THEN {b.maxFee} ELSE {}))
  <1> DEFINE u == Plain("Amount", b.amount)
             v == Plain("Token", b.fullContract)
             w == To(b.sendAllow, b)
             x == From("From", b)
             y == Plain("Max Fee", b.maxFee)
             list == FieldList("APPROVAL_TRANSFER", b, isTrigger)
  <1>1. /\ b.toAddress[1] # "contact" /\ b.fromAddress[1] # "contact" /\ b.amount[1] # "contact"
        /\ b.fullContract[1] # "contact" /\ b.maxFee[1] # "contact" /\ b.sendAllow # "Service"
    BY DEF Tagged
  <1>2. FieldOf(u, b) /\ FieldOf(v, b) /\ FieldOf(x, b) /\ FieldOf(y, b)
    BY <1>1, MadeFields
  <1>3. FieldOf(w, b)
    BY <1>1, MadeFields
  <1>4. /\ u.value = b.amount /\ v.value = b.fullContract /\ w.value = b.toAddress
        /\ x.value = b.fromAddress /\ y.value = b.maxFee
    BY DEF Plain, To, From
  <1>5. list = <<u, v, w, x>> \o (IF isTrigger THEN <<y>> ELSE <<>>)
    BY DEF FieldList
  <1> HIDE DEF u, v, w, x, y, list
  <1>6. CASE isTrigger
    <2>1. list = <<u, v, w, x>> \o <<y>>
      BY <1>5, <1>6
    <2>2. /\ Listed(<<u, v, w, x>>) /\ Range(<<u, v, w, x>>) = {u, v, w, x}
          /\ Len(<<u, v, w, x>>) = 4
      BY DEF Listed, Range
    <2>3. Listed(<<y>>) /\ Range(<<y>>) = {y} /\ Len(<<y>>) = 1
      BY DEF Listed, Range
    <2>4. Listed(list) /\ Range(list) = {u, v, w, x, y} /\ Len(list) = 5
      BY <2>1, <2>2, <2>3, JoinedLists
    <2>5. FieldsOf(list, b, 7)
      BY <1>2, <1>3, <2>4 DEF FieldsOf
    <2>6. Values(list) = {u.value, v.value, w.value, x.value, y.value}
      BY <2>4 DEF Values
    <2> QED
      BY <1>4, <1>6, <2>5, <2>6 DEF Reveals, list
  <1>7. CASE ~isTrigger
    <2>1. list = <<u, v, w, x>>
      BY <1>5, <1>7
    <2>2. /\ FieldsOf(<<u, v, w, x>>, b, 6)
          /\ Values(<<u, v, w, x>>) = {u.value, v.value, w.value, x.value}
      BY <1>2, <1>3, FourShown
    <2>3. FieldsOf(list, b, 7)
      <3>1. Len(list) \in Nat /\ Len(list) <= 6
        BY <2>1, <2>2, ListDomain DEF FieldsOf
      <3>2. Len(list) <= 7
        BY <3>1
      <3> QED
        BY <2>1, <2>2, <3>2 DEF FieldsOf
    <2> QED
      BY <1>4, <1>7, <2>1, <2>2, <2>3 DEF Reveals, list
  <1> QED
    BY <1>6, <1>7

\* A plain field points to no buffer.
LEMMA PlainIsField == ASSUME NEW f, PlainField(f), NEW b PROVE FieldOf(f, b) /\ f.buf # "toAddress"
  BY DEF PlainField, FieldOf

\* The review of a vote.
LEMMA VoteReview ==
    ASSUME NEW b, Tagged(b), NEW isTrigger
    PROVE  Reveals(FieldList("APPROVAL_WITNESSVOTE_TRANSACTION", b, isTrigger), b,
                 {b.fromAddress} \cup {<<"vote", b.votes[j].address, VoteText(b.votes[j].count)>> :
                                         j \in DOMAIN b.votes})
  <1> DEFINE u == Plain("Total Vote Count", b.fullContract)
             v == From("From", b)
             votes == VoteFields(b.votes)
             list == FieldList("APPROVAL_WITNESSVOTE_TRANSACTION", b, isTrigger)
             text(j) == <<"vote", b.votes[j].address, VoteText(b.votes[j].count)>>
  <1>1. /\ b.toAddress[1] # "contact" /\ b.fromAddress[1] # "contact"
        /\ b.fullContract[1] # "contact"
    BY DEF Tagged
  <1>2. FieldOf(u, b) /\ FieldOf(v, b) /\ v.value = b.fromAddress
    BY <1>1, MadeFields DEF From
  <1>3. list = votes \o <<u, v>>
    BY DEF FieldList
  <1>4. PlainFields(votes, 5) /\ \A j \in DOMAIN b.votes : \E f \in Range(votes) : f.value = text(j)
    BY VotesShown DEF MAX_VOTES
  <1> HIDE DEF u, v, votes, list, text
  <1>5. /\ Listed(<<u, v>>) /\ Range(<<u, v>>) = {u, v} /\ Len(<<u, v>>) = 2
    BY DEF Listed, Range
  <1>6. /\ Listed(list) /\ Range(list) = Range(votes) \cup {u, v} /\ Len(list) = Len(votes) + 2
    BY <1>3, <1>4, <1>5, JoinedLists DEF PlainFields
  <1>7. Len(votes) \in Nat /\ Len(votes) <= 5
    BY <1>4, ListDomain DEF PlainFields
  <1>8. FieldsOf(list, b, 7)
    BY <1>2, <1>4, <1>6, <1>7, PlainIsField DEF FieldsOf, PlainFields
  <1>9. {b.fromAddress} \cup {text(j) : j \in DOMAIN b.votes} \subseteq Values(list)
    BY <1>2, <1>4, <1>6 DEF Values
  <1> QED
    BY <1>8, <1>9 DEF Reveals, list, text

\* The review of a permission update fills the array of the fields exactly, and
\* has no recipient.
LEMMA PermissionReview ==
    ASSUME NEW b, Tagged(b), NEW isTrigger
    PROVE  LET list == FieldList("APPROVAL_PERMISSION_UPDATE", b, isTrigger)
           IN  /\ FieldsOf(list, b, MAX_TX_FIELDS)
               /\ \A f \in Range(list) : f.buf # "toAddress"
               /\ {b.fromAddress} \cup {f.value : f \in Range(PermissionUpdateFields(b.permissions))}
                     \subseteq Values(list)
  <1> DEFINE u == From("From", b)
             rest == PermissionUpdateFields(b.permissions)
             list == FieldList("APPROVAL_PERMISSION_UPDATE", b, isTrigger)
  <1>1. b.toAddress[1] # "contact" /\ b.fromAddress[1] # "contact"
    BY DEF Tagged
  <1>2. FieldOf(u, b) /\ u.value = b.fromAddress /\ u.buf # "toAddress"
    BY <1>1 DEF From, FieldOf
  <1>3. list = <<u>> \o rest
    BY DEF FieldList
  <1>4. PlainFields(rest, 20)
    BY PermissionsShown DEF PERMISSION_MAX_ACTIVES, PERMISSION_MAX_KEYS
  <1> HIDE DEF u, rest, list
  <1>5. Listed(<<u>>) /\ Range(<<u>>) = {u} /\ Len(<<u>>) = 1
    BY DEF Listed, Range
  <1>6. Listed(list) /\ Range(list) = {u} \cup Range(rest) /\ Len(list) = 1 + Len(rest)
    BY <1>3, <1>4, <1>5, JoinedLists DEF PlainFields
  <1>7. Len(rest) \in Nat /\ Len(rest) <= 20
    BY <1>4, ListDomain DEF PlainFields
  <1>8. MAX_TX_FIELDS = 21
    BY DEF MAX_TX_FIELDS, PERMISSION_MAX_ACTIVES, PERMISSION_MAX_KEYS
  <1>9. \A f \in Range(list) : FieldOf(f, b) /\ f.buf # "toAddress"
    BY <1>2, <1>4, <1>6, PlainIsField DEF PlainFields
  <1>10. {b.fromAddress} \cup {f.value : f \in Range(rest)} \subseteq Values(list)
    BY <1>2, <1>6 DEF Values
  <1>11. FieldsOf(list, b, MAX_TX_FIELDS)
    BY <1>6, <1>7, <1>8, <1>9 DEF FieldsOf
  <1> QED
    BY <1>9, <1>10, <1>11 DEF list, rest

-----------------------------------------------------------------------------
(* The service label and the aliases.                                      *)

\* The label goes above the first field that points to toAddress, if there is one.
LEMMA SlotOfService ==
    ASSUME NEW s, Listed(s)
    PROVE  \/ ServiceSlot(s) = 0
           \/ ServiceSlot(s) \in 1..Len(s) /\ s[ServiceSlot(s)].buf = "toAddress"
  <1> DEFINE is == {i \in 1..Len(s) : s[i].buf = "toAddress"}
  <1>1. ServiceSlot(s) = IF is # {} THEN Min(is) ELSE 0
    BY DEF ServiceSlot, SelectInSeq
  <1>2. is \in SUBSET Nat
    BY ListDomain
  <1>3. ASSUME is # {} PROVE Min(is) \in is
    <2> HIDE DEF is
    <2>1. \E i \in is : \A j \in is : i <= j
      BY <1>2, <1>3, LeastNatural
    <2> QED
      BY <2>1 DEF Min
  <1> QED
    BY <1>1, <1>3

\* Inserting a field moves the later ones down.
LEMMA Inserted ==
    ASSUME NEW s, Listed(s), NEW n \in 1..Len(s), NEW e
    PROVE  LET t == InsertAt(s, n, e)
           IN  /\ Listed(t) /\ Len(t) = Len(s) + 1 /\ t[n] = e
               /\ \A i \in 1..(n - 1) : t[i] = s[i]
               /\ \A i \in n..Len(s) : t[i + 1] = s[i]
  <1> DEFINE All == Range(s) \cup {e}
             before == SubSeq(s, 1, n - 1)
             after == SubSeq(s, n, Len(s))
  <1>1. s \in Seq(All) /\ Len(s) \in Nat /\ e \in All
    BY ListDomain DEF Listed
  <1> HIDE DEF All
  <1>2. /\ before \in Seq(All) /\ Len(before) = n - 1
        /\ \A i \in 1..(n - 1) : before[i] = s[i]
    BY <1>1
  <1>3. /\ after \in Seq(All) /\ Len(after) = Len(s) - n + 1
        /\ \A i \in 1..(Len(s) - n + 1) : after[i] = s[i + n - 1]
    BY <1>1
  <1>4. InsertAt(s, n, e) = (before \o <<e>>) \o after
    BY DEF InsertAt
  <1> HIDE DEF before, after
  <1> DEFINE head == before \o <<e>>
  <1>5. /\ head \in Seq(All) /\ Len(head) = n /\ head[n] = e
        /\ \A i \in 1..(n - 1) : head[i] = s[i]
    BY <1>1, <1>2
  <1> HIDE DEF head
  <1> DEFINE t == head \o after
  <1>6. /\ t \in Seq(All) /\ Len(t) = Len(s) + 1
        /\ \A i \in 1..n : t[i] = head[i]
    <2>1. t \in Seq(All) /\ Len(t) = Len(head) + Len(after)
      <3>1. head \in Seq(All) /\ after \in Seq(All)
        BY <1>3, <1>5
      <3>2. head \o after \in Seq(All)
        BY <3>1, ConcatProperties
      <3>3. Len(head \o after) = Len(head) + Len(after)
        BY <3>1, ConcatProperties
      <3> QED
        BY <3>2, <3>3
    <2>2. \A i \in 1..Len(head) : t[i] = head[i]
      BY <1>3, <1>5
    <2> QED
      BY <1>1, <1>3, <1>5, <2>1, <2>2
  <1>7. \A i \in 1..(Len(s) - n + 1) : t[n + i] = after[i]
    BY <1>3, <1>5
  <1>8. InsertAt(s, n, e) = t /\ Listed(t)
    BY <1>4, <1>6, SequenceListed DEF head
  <1> HIDE DEF t
  <1>9. t[n] = e /\ \A i \in 1..(n - 1) : t[i] = s[i]
    BY <1>1, <1>5, <1>6
  <1>10. ASSUME NEW i \in n..Len(s) PROVE t[i + 1] = s[i]
    <2> DEFINE j == i - n + 1
    <2>1. j \in 1..(Len(s) - n + 1) /\ n + j = i + 1 /\ j + n - 1 = i
      BY <1>1
    <2> HIDE DEF j
    <2> QED
      BY <1>3, <1>7, <2>1
  <1> QED
    BY <1>6, <1>8, <1>9, <1>10

\* What an alias does to a field, and to the label of a service.
Alias(f, c) ==
    CASE f.buf = "toAddress" /\ c.recipient # NoName ->
            [f EXCEPT !.value = Contact(c.recipient, f.value)]
      [] f.buf = "fromAddress" /\ c.sender # NoName ->
            [f EXCEPT !.value = Contact(c.sender, f.value)]
      [] OTHER -> f

\* An aliased value stands for the buffer it was made from.
Stands(f, c, b) ==
    f.value[1] = "contact" =>
        \/ c.recipient # NoName /\ f.value = Contact(c.recipient, b.toAddress)
        \/ c.sender # NoName /\ f.value = Contact(c.sender, b.fromAddress)

\* Every field keeps its item, and the full value stays reachable behind an alias.
LEMMA AliasStands ==
    ASSUME NEW f, NEW b, FieldOf(f, b), NEW c
    PROVE  /\ Alias(f, c).item = f.item
           /\ Unalias(Alias(f, c).value) = f.value
           /\ Stands(Alias(f, c), c, b)
  <1>1. \A name : /\ [f EXCEPT !.value = Contact(name, f.value)].item = f.item
                  /\ [f EXCEPT !.value = Contact(name, f.value)].value = Contact(name, f.value)
    BY DEF FieldOf
  <1>2. \A name : Contact(name, f.value)[1] = "contact" /\ Contact(name, f.value)[3] = f.value
    BY DEF Contact
  <1>3. CASE f.buf = "toAddress" /\ c.recipient # NoName
    <2>1. Alias(f, c) = [f EXCEPT !.value = Contact(c.recipient, f.value)]
      BY <1>3 DEF Alias
    <2> QED
      BY <1>1, <1>2, <1>3, <2>1 DEF Unalias, FieldOf, Stands
  <1>4. CASE f.buf = "fromAddress" /\ c.sender # NoName
    <2>1. Alias(f, c) = [f EXCEPT !.value = Contact(c.sender, f.value)]
      BY <1>4 DEF Alias
    <2> QED
      BY <1>1, <1>2, <1>4, <2>1 DEF Unalias, FieldOf, Stands
  <1>5. CASE /\ ~(f.buf = "toAddress" /\ c.recipient # NoName)
             /\ ~(f.buf = "fromAddress" /\ c.sender # NoName)
    <2>1. Alias(f, c) = f
      BY <1>5 DEF Alias
    <2> QED
      BY <2>1 DEF Unalias, FieldOf, Stands
  <1> QED
    BY <1>3, <1>4, <1>5

\* What ends up on the screen from a list of fields.
Prepared(list, c) ==
    apply_address_book_aliases(insert_known_service_label(list, c), c)

\* A label of a service stands for the address in the field below it.
Labels(fields, i, c, b) ==
    fields[i].item = "Service" =>
        /\ c.service # NoName /\ fields[i].value = Text(c.service)
        /\ i + 1 \in DOMAIN fields /\ Unalias(fields[i + 1].value) = b.toAddress

\* Every field is on the screen, at most one label more, and every name stands for
\* the buffer it was resolved for.
LEMMA PreparedFields ==
    ASSUME NEW list, NEW b, NEW n \in Nat, FieldsOf(list, b, n), NEW c
    PROVE  LET fields == Prepared(list, c)
           IN  /\ Listed(fields)
               /\ Len(fields) <= n + 1
               /\ (\A f \in Range(list) : f.buf # "toAddress") => Len(fields) <= n
               /\ Values(list) \subseteq {Unalias(fields[i].value) : i \in DOMAIN fields}
               /\ \A i \in DOMAIN fields :
                     Stands(fields[i], c, b) /\ Labels(fields, i, c, b)
  <1> DEFINE slot == ServiceSlot(list)
             label == Plain("Service", Text(c.service))
             labelled == insert_known_service_label(list, c)
             fields == Prepared(list, c)
  <1>1. /\ Listed(list) /\ Len(list) \in Nat /\ Len(list) <= n /\ DOMAIN list = 1..Len(list)
        /\ \A i \in 1..Len(list) : FieldOf(list[i], b) /\ list[i] \in Range(list)
        /\ \A f \in Range(list) : \E i \in 1..Len(list) : list[i] = f
    BY ListDomain DEF FieldsOf
  <1>2. /\ DOMAIN fields = DOMAIN labelled
        /\ fields = [i \in DOMAIN labelled |-> fields[i]]
        /\ \A i \in DOMAIN labelled : fields[i] = Alias(labelled[i], c)
    BY DEF Prepared, apply_address_book_aliases, Alias
  <1>3. CASE c.service = NoName \/ slot = 0
    <2>1. labelled = list
      BY <1>3 DEF insert_known_service_label
    <2> HIDE DEF slot, label, labelled, fields
    <2>2. Listed(fields) /\ Len(fields) = Len(list) /\ DOMAIN fields = 1..Len(list)
      BY <1>1, <1>2, <2>1, MadeList
    <2>3. ASSUME NEW i \in 1..Len(list)
          PROVE  /\ Unalias(fields[i].value) = list[i].value
                 /\ Stands(fields[i], c, b) /\ Labels(fields, i, c, b)
      BY <1>1, <1>2, <2>1, <2>2, AliasStands DEF Labels, FieldOf
    <2>4. Values(list) \subseteq {Unalias(fields[i].value) : i \in DOMAIN fields}
      BY <1>1, <2>2, <2>3 DEF Values
    <2> QED
      BY <1>1, <2>2, <2>3, <2>4 DEF fields
  <1>4. CASE c.service # NoName /\ slot # 0
    <2>1. slot \in 1..Len(list) /\ list[slot].buf = "toAddress"
      BY <1>1, <1>4, SlotOfService
    <2>2. labelled = InsertAt(list, slot, label)
      BY <1>4 DEF insert_known_service_label
    <2>3. /\ label.item = "Service" /\ label.value = Text(c.service)
          /\ label.buf = "none" /\ label.value[1] # "contact"
      BY DEF Plain, Text
    <2> HIDE DEF slot, label, labelled, fields
    <2>4. /\ Listed(labelled) /\ Len(labelled) = Len(list) + 1 /\ labelled[slot] = label
          /\ \A i \in 1..(slot - 1) : labelled[i] = list[i]
          /\ \A i \in slot..Len(list) : labelled[i + 1] = list[i]
      BY <1>1, <2>1, <2>2, Inserted
    <2>5. /\ Listed(fields) /\ Len(fields) = Len(list) + 1
          /\ DOMAIN fields = 1..(Len(list) + 1) /\ DOMAIN labelled = 1..(Len(list) + 1)
      BY <1>1, <1>2, <2>4, MadeList, ListDomain
    <2>6. ASSUME NEW i \in 1..Len(list), NEW j \in 1..(Len(list) + 1), labelled[j] = list[i]
          PROVE  /\ Unalias(fields[j].value) = list[i].value
                 /\ Stands(fields[j], c, b) /\ fields[j].item # "Service"
      <3>1. fields[j] = Alias(list[i], c) /\ FieldOf(list[i], b)
        BY <1>1, <1>2, <2>5, <2>6
      <3>2. list[i].item # "Service"
        BY <3>1 DEF FieldOf
      <3>3. /\ Alias(list[i], c).item = list[i].item
            /\ Unalias(Alias(list[i], c).value) = list[i].value
            /\ Stands(Alias(list[i], c), c, b)
        BY <3>1, AliasStands
      <3> QED
        BY <3>1, <3>2, <3>3
    <2>7. ASSUME NEW i \in 1..Len(list)
          PROVE  \E j \in 1..(Len(list) + 1) : labelled[j] = list[i]
      <3>1. CASE i < slot
        <4>1. i \in 1..(slot - 1) /\ i \in 1..(Len(list) + 1)
          BY <1>1, <2>1, <3>1
        <4> QED
          BY <2>4, <4>1
      <3>2. CASE i >= slot
        <4>1. i \in slot..Len(list) /\ i + 1 \in 1..(Len(list) + 1)
          BY <1>1, <2>1, <3>2
        <4> QED
          BY <2>4, <4>1
      <3> QED
        BY <1>1, <2>1, <3>1, <3>2
    <2>8. Values(list) \subseteq {Unalias(fields[j].value) : j \in DOMAIN fields}
      BY <1>1, <2>5, <2>6, <2>7 DEF Values
    <2>9. ASSUME NEW j \in 1..(Len(list) + 1)
          PROVE  Stands(fields[j], c, b) /\ Labels(fields, j, c, b)
      <3>1. CASE j = slot
        <4>1. fields[j] = Alias(label, c)
          BY <1>2, <2>4, <2>5, <3>1
        <4>2. Alias(label, c) = label
          BY <2>3 DEF Alias
        <4>3. slot + 1 \in 1..(Len(list) + 1) /\ labelled[slot + 1] = list[slot]
          BY <1>1, <2>1, <2>4
        <4>4. Unalias(fields[slot + 1].value) = b.toAddress
          BY <1>1, <2>1, <2>6, <4>3 DEF FieldOf
        <4> QED
          BY <1>4, <2>3, <2>5, <3>1, <4>1, <4>2, <4>3, <4>4 DEF Stands, Labels
      <3>2. CASE j # slot
        <4>1. \E i \in 1..Len(list) : labelled[j] = list[i]
          <5>1. CASE j < slot
            <6>1. j \in 1..(slot - 1) /\ j \in 1..Len(list)
              BY <1>1, <2>1, <5>1
            <6> QED
              BY <2>4, <6>1
          <5>2. CASE j > slot
            <6>1. j - 1 \in slot..Len(list) /\ j - 1 \in 1..Len(list) /\ (j - 1) + 1 = j
              BY <1>1, <2>1, <5>2
            <6> QED
              BY <2>4, <6>1
          <5> QED
            BY <1>1, <2>1, <3>2, <5>1, <5>2
        <4> QED
          BY <2>6, <4>1 DEF Labels
      <3> QED
        BY <3>1, <3>2
    <2>10. ~\A f \in Range(list) : f.buf # "toAddress"
      BY <1>1, <2>1
    <2>11. Len(fields) <= n + 1
      BY <1>1, <2>5
    <2> QED
      BY <2>5, <2>8, <2>9, <2>10, <2>11 DEF fields
  <1> QED
    BY <1>3, <1>4

-----------------------------------------------------------------------------
(* From a decoded contract to the buffers of its review.                   *)

\* What the extractors keep of a contract message.
PaidTypes ==
    { "TRANSFERCONTRACT", "TRANSFERASSETCONTRACT", "FREEZEBALANCECONTRACT",
      "FREEZEBALANCEV2CONTRACT", "UNFREEZEBALANCEV2CONTRACT", "DELEGATERESOURCECONTRACT",
      "UNDELEGATERESOURCECONTRACT", "TRIGGERSMARTCONTRACT", "EXCHANGECREATECONTRACT",
      "EXCHANGEINJECTCONTRACT", "EXCHANGEWITHDRAWCONTRACT", "EXCHANGETRANSACTIONCONTRACT" }
ReceivedTypes ==
    { "TRANSFERCONTRACT", "TRANSFERASSETCONTRACT", "FREEZEBALANCECONTRACT",
      "UNFREEZEBALANCECONTRACT", "DELEGATERESOURCECONTRACT", "UNDELEGATERESOURCECONTRACT" }

\* Every extractor keeps the owner; votes come from a vote only; an amount, a
\* receiver and an exchange come from the contracts that have them.
LEMMA ParsedMessage ==
    ASSUME NEW type, NEW m
    PROVE  LET p == ExtractParsed(type, ZeroParsed, m)
           IN  /\ p.account = m.owner
               /\ p.votes = IF type = "VOTEWITNESSCONTRACT" THEN m.votes ELSE <<>>
               /\ type \in ReceivedTypes => p.destination = m.to
               /\ type \in PaidTypes => p.amount[1] = Unsigned(m.amount)
               /\ type \in {"EXCHANGECREATECONTRACT", "EXCHANGETRANSACTIONCONTRACT"} =>
                     p.amount[2] = Unsigned(m.amount2)
               /\ type \in {"EXCHANGEINJECTCONTRACT", "EXCHANGEWITHDRAWCONTRACT",
                            "EXCHANGETRANSACTIONCONTRACT"} => p.exchangeID = Unsigned(m.id)
  <1> DEFINE p == ExtractParsed(type, ZeroParsed, m)
  <1> USE DEF ExtractParsed, ZeroParsed, PaidTypes, ReceivedTypes, account
  <1> DEFINE t == transfer_contract(ZeroParsed, m)
             f == freeze_balance_contract(ZeroParsed, m)
             e == exchange_inject_contract(ZeroParsed, m)
             Shape(q) == /\ q = [x \in DOMAIN ZeroParsed |-> q[x]]
                         /\ q.account = m.owner /\ q.votes = <<>>
                         /\ DOMAIN q.amount = 1..2 /\ q.amount[1] = Unsigned(m.amount)
  <1>z. DOMAIN <<0, 0>> = 1..2
    OBVIOUS
  <1>t. Shape(t) /\ t.destination = m.to
    <2>1. t = [x \in DOMAIN ZeroParsed |-> t[x]]
      BY DEF transfer_contract
    <2>2. t.account = m.owner /\ t.votes = <<>> /\ t.destination = m.to
      BY DEF transfer_contract
    <2>3. t.amount = [<<0, 0>> EXCEPT ![1] = Unsigned(m.amount)]
      BY DEF transfer_contract
    <2>4. DOMAIN t.amount = 1..2
      BY <1>z, <2>3
    <2>5. t.amount[1] = Unsigned(m.amount)
      BY <1>z, <2>3
    <2> QED
      BY <2>1, <2>2, <2>4, <2>5
  <1> HIDE DEF t
  <1>f. Shape(f) /\ f.destination = m.to
    <2>1. f = [t EXCEPT !.resource = m.resource]
      BY DEF freeze_balance_contract, t
    <2> QED
      BY <1>t, <2>1
  <1>e. Shape(e) /\ e.exchangeID = Unsigned(m.id)
    <2>1. e = [x \in DOMAIN ZeroParsed |-> e[x]]
      BY DEF exchange_inject_contract
    <2>2. e.account = m.owner /\ e.votes = <<>> /\ e.exchangeID = Unsigned(m.id)
      BY DEF exchange_inject_contract
    <2>3. e.amount = [<<0, 0>> EXCEPT ![1] = Unsigned(m.amount)]
      BY DEF exchange_inject_contract
    <2>4. DOMAIN e.amount = 1..2
      BY <1>z, <2>3
    <2>5. e.amount[1] = Unsigned(m.amount)
      BY <1>z, <2>3
    <2> QED
      BY <2>1, <2>2, <2>4, <2>5
  <1> HIDE DEF f, e
  <1>1. CASE type \in {"TRANSFERCONTRACT", "TRANSFERASSETCONTRACT"}
    BY <1>1, <1>t DEF t
  <1>2. CASE type = "VOTEWITNESSCONTRACT"
    BY <1>2 DEF vote_witness_contract
  <1>3. CASE type = "FREEZEBALANCECONTRACT"
    BY <1>3, <1>f DEF f
  <1>4. CASE type = "UNFREEZEBALANCECONTRACT"
    BY <1>4 DEF unfreeze_balance_contract
  <1>5. CASE type \in {"FREEZEBALANCEV2CONTRACT", "UNFREEZEBALANCEV2CONTRACT"}
    BY <1>5 DEF freeze_balance_v2_contract
  <1>6. CASE type = "DELEGATERESOURCECONTRACT"
    <2>1. p = [f EXCEPT !.customData = m.lock]
      BY <1>6 DEF delegate_resource_contract, f
    <2> QED
      BY <1>6, <1>f, <2>1
  <1>7. CASE type = "UNDELEGATERESOURCECONTRACT"
    BY <1>7, <1>f DEF f
  <1>8. CASE type = "PROPOSALCREATECONTRACT"
    BY <1>8 DEF proposal_create_contract
  <1>9. CASE type = "PROPOSALDELETECONTRACT"
    BY <1>9 DEF proposal_delete_contract
  <1>10. CASE type = "TRIGGERSMARTCONTRACT"
    <2> DEFINE q == pb_decode_trigger_smart_contract_data(ZeroParsed, m)
    <2>1. q = [x \in DOMAIN ZeroParsed |-> q[x]] /\ q.votes = <<>> /\ q.amount = <<0, 0>>
      BY ZenonT(30) DEF pb_decode_trigger_smart_contract_data
    <2> HIDE DEF q
    <2>2. p = [account(q, m) EXCEPT
                  !.contractAddress = m.contract, !.amount[1] = Unsigned(m.amount),
                  !.callTokenValue = m.callTokenValue, !.callTokenId = m.callTokenId,
                  !.TRC20Method = IF getKnownToken(m) THEN @ ELSE 0]
      BY <1>10 DEF trigger_smart_contract, q
    <2> HIDE DEF p, ExtractParsed
    <2>3. p.account = m.owner /\ p.votes = <<>>
      BY <2>1, <2>2
    <2>4. p.amount = [<<0, 0>> EXCEPT ![1] = Unsigned(m.amount)]
      BY <2>1, <2>2
    <2>5. p.amount[1] = Unsigned(m.amount)
      BY <1>z, <2>4
    <2> QED
      BY <1>10, <2>3, <2>5 DEF p
  <1>11. CASE type = "EXCHANGECREATECONTRACT"
    BY <1>11 DEF exchange_create_contract
  <1>12. CASE type \in {"EXCHANGEINJECTCONTRACT", "EXCHANGEWITHDRAWCONTRACT"}
    BY <1>12 DEF exchange_inject_contract
  <1>13. CASE type = "EXCHANGETRANSACTIONCONTRACT"
    <2>1. p = [e EXCEPT !.amount[2] = Unsigned(m.amount2)]
      BY <1>13 DEF exchange_transaction_contract, e
    <2> QED
      BY <1>13, <1>e, <2>1
  <1>14. CASE type \notin ReceivedTypes \cup PaidTypes \cup
                 {"VOTEWITNESSCONTRACT", "PROPOSALCREATECONTRACT", "PROPOSALDELETECONTRACT"}
    BY <1>14
  <1> QED
    BY <1>1, <1>2, <1>3, <1>4, <1>5, <1>6, <1>7, <1>8, <1>9, <1>10, <1>11, <1>12, <1>13, <1>14

\* What it keeps of a call.
LEMMA ParsedCall ==
    ASSUME NEW m, m.data.present \/ TriggerMethod(m) = 0
    PROVE  LET p == ExtractParsed("TRIGGERSMARTCONTRACT", ZeroParsed, m)
           IN  /\ p.contractAddress = m.contract
               /\ p.callTokenValue = m.callTokenValue
               /\ p.TRC20Method = IF getKnownToken(m) THEN TriggerMethod(m) ELSE 0
               /\ p.TRC20Method # 0 =>
                     p.destination = m.data.to /\ p.TRC20Amount = m.data.amount
  <1> DEFINE q == pb_decode_trigger_smart_contract_data(ZeroParsed, m)
  <1>1. /\ DOMAIN q = DOMAIN ZeroParsed /\ q = [x \in DOMAIN ZeroParsed |-> q[x]]
        /\ q.TRC20Method = TriggerMethod(m)
        /\ TriggerMethod(m) # 0 => q.destination = m.data.to /\ q.TRC20Amount = m.data.amount
    BY ZenonT(30) DEF pb_decode_trigger_smart_contract_data, ZeroParsed
  <1> HIDE DEF q
  <1>2. ExtractParsed("TRIGGERSMARTCONTRACT", ZeroParsed, m) =
            [account(q, m) EXCEPT
                !.contractAddress = m.contract, !.amount[1] = Unsigned(m.amount),
                !.callTokenValue = m.callTokenValue, !.callTokenId = m.callTokenId,
                !.TRC20Method = IF getKnownToken(m) THEN @ ELSE 0]
    BY DEF ExtractParsed, trigger_smart_contract, q
  <1> QED
    BY <1>1, <1>2, ZenonT(30) DEF account, ZeroParsed

\* The permissions of a contract as they are decoded.
PermissionLists(p) ==
    /\ Entries(p.owner, 1) /\ Entries(p.witness, 1)
    /\ Listed(p.actives) /\ \A i \in DOMAIN p.actives : Listed(p.actives[i].keys)

\* A contract as it comes in a chunk.
Sendable(k) ==
    /\ k.m.amount \in Int64 /\ k.m.callTokenValue \in Int64
    /\ k.m.data.present \/ TriggerMethod(k.m) = 0
    /\ Listed(k.m.votes) /\ PermissionLists(k.m.permissions)
    /\ k.m.owner \in DOMAIN ContactOf /\ k.m.to \in DOMAIN ContactOf
    /\ k.m.data.to \in DOMAIN ContactOf

\* So is every contract in one.
LEMMA ChunkIsSendable ==
    ASSUME NEW chunk \in Chunks, HasContract(chunk)
    PROVE  Sendable(chunk.contract[1])
  <1> DEFINE k == chunk.contract[1]
             p == k.m.permissions
  <1>1. /\ k.m.amount \in Int64 /\ k.m.callTokenValue \in Int64
        /\ k.m.data.present \/ TriggerMethod(k.m) = 0
    BY ChunkAssumption, SelectorAssumption
  <1>2. {k.m.owner, k.m.to, k.m.data.to} \subseteq DOMAIN ContactOf
    BY AddressAssumption
  <1>3. /\ \A s \in {k.m.votes} \cup {p.owner, p.witness, p.actives} : s \in Seq(Range(s))
        /\ \A s \in {p.owner, p.witness, p.actives} : \A i \in DOMAIN s :
              s[i].keys \in Seq(Range(s[i].keys))
        /\ Len(p.owner) <= 1 /\ Len(p.witness) <= 1
    BY RepeatedAssumption
  <1> HIDE DEF k, p
  <1>4. \A s \in {k.m.votes} \cup {p.owner, p.witness, p.actives} : Listed(s)
    BY <1>3 DEF Listed
  <1>5. \A s \in {p.owner, p.witness, p.actives} : \A i \in DOMAIN s : Listed(s[i].keys)
    BY <1>3 DEF Listed
  <1>6. PermissionLists(p)
    BY <1>3, <1>4, <1>5 DEF PermissionLists, Entries
  <1>7. Sendable(k)
    BY <1>1, <1>2, <1>4, <1>6 DEF Sendable, p
  <1> QED
    BY <1>7 DEF k

\* No permissions are permissions too.
LEMMA NoneAreLists == PermissionLists(NoPermissions)
  <1>1. Listed(<<>>) /\ Len(<<>>) = 0 /\ DOMAIN <<>> = {}
    BY DEF Listed
  <1> QED
    BY <1>1 DEF PermissionLists, NoPermissions, Entries

\* A value that is no name of a contact.
Unnamed(v) == v[1] # "contact"

\* The values that the buffers may hold are none.
LEMMA TagsOfValues ==
    /\ \A x : Unnamed(Address(x)) /\ Unnamed(Label(x)) /\ Unnamed(Text(x)) /\ Unnamed(Hash(x))
    /\ \A x, y : Unnamed(Amount(x, y)) /\ Unnamed(PermissionAddress(x, y))
    /\ \A x, y : Unnamed(<<"pair", x, y>>) /\ Unnamed(<<"token number", x>>)
  BY DEF Unnamed, Address, Label, Text, Hash, Amount, PermissionAddress

\* Buffers that hold nothing but such values.
Filled(b) ==
    /\ Unnamed(b.fromAddress) /\ Unnamed(b.toAddress) /\ Unnamed(b.fullContract)
    /\ Unnamed(b.amount) /\ Unnamed(b.amount2) /\ Unnamed(b.selector)
    /\ Unnamed(b.hash) /\ Unnamed(b.maxFee)
    /\ b.sendAllow # "Service"

\* Buffers filled so, with lists in them, are what the fields are made from.
LEMMA FilledIsTagged ==
    ASSUME NEW b, Filled(b), PermissionLists(b.permissions), Listed(b.votes), Len(b.votes) <= MAX_VOTES
    PROVE  Tagged(b)
  BY DEF Filled, PermissionLists, Tagged, Unnamed

\* The buffers before the contract is looked at.
SenderBuffers(content) == [NoBuffers EXCEPT !.fromAddress = SenderText(content)]

\* All but the sender is blank there.
LEMMA StartOfBuffers ==
    ASSUME NEW content
    PROVE  /\ Unnamed(SenderText(content)) /\ Unnamed(Blank)
           /\ SenderBuffers(content) =
                [ fromAddress |-> SenderText(content), toAddress |-> Blank, fullContract |-> Blank,
                  amount |-> Blank, amount2 |-> Blank, sendAllow |-> "To",
                  selector |-> Blank, hash |-> Blank, maxFee |-> Blank,
                  votes |-> <<>>, permissions |-> NoPermissions ]
  <1>1. Unnamed(SenderText(content)) /\ Unnamed(Blank)
    BY TagsOfValues DEF SenderText, Blank
  <1> QED
    BY <1>1 DEF SenderBuffers, NoBuffers

\* The buffers of a contract without lists, from the sender on.
FilledFor(b, content) ==
    Filled(b) /\ b.fromAddress = SenderText(content) /\ b.votes = <<>> /\ b.permissions = NoPermissions

\* A call that is not rendered.
LEMMA CustomCallFilled ==
    ASSUME NEW content, NEW permissions, NEW hash, IsCustomCall(content)
    PROVE  LET b == Buffers(content, permissions, hash)
               p == content.parsed
           IN  /\ FilledFor(b, content)
               /\ b.fullContract = Address(p.contractAddress)
               /\ b.maxFee = Amount(content.feeLimit, SUN_DIG)
               /\ p.amount[1] # 0 => b.amount = Amount(p.amount[1], SUN_DIG)
               /\ p.amount[1] = 0 /\ p.callTokenValue # 0 =>
                     b.amount = Amount(Unsigned(p.callTokenValue), 0)
               /\ Recipient(content) = <<>>
  <1> DEFINE b == Buffers(content, permissions, hash)
             b0 == SenderBuffers(content)
             p == content.parsed
             to == IF p.amount[1] # 0 THEN Text("TRX")
                   ELSE IF p.callTokenValue # 0
                   THEN <<"token number", p.callTokenId>> ELSE Text("-")
             amount == IF p.amount[1] # 0 THEN Amount(p.amount[1], SUN_DIG)
                       ELSE IF p.callTokenValue # 0
                       THEN Amount(Unsigned(p.callTokenValue), 0) ELSE Text("0")
  <1>1. b = [b0 EXCEPT !.fullContract = Address(p.contractAddress),
                       !.selector = Text(p.customSelector),
                       !.toAddress = to, !.amount = amount,
                       !.maxFee = Amount(content.feeLimit, SUN_DIG)]
    <2>1. b = CustomCallBuffers(content, b0)
      BY DEF Buffers, SenderBuffers, IsCustomCall
    <2> HIDE DEF b, b0
    <2> QED
      BY <2>1 DEF CustomCallBuffers
  <1>2. Unnamed(to) /\ Unnamed(amount)
    BY TagsOfValues
  <1>3. /\ p.amount[1] # 0 => amount = Amount(p.amount[1], SUN_DIG)
        /\ p.amount[1] = 0 /\ p.callTokenValue # 0 => amount = Amount(Unsigned(p.callTokenValue), 0)
    OBVIOUS
  <1> HIDE DEF to, amount, b0, b
  <1>4. /\ b.fromAddress = SenderText(content) /\ b.toAddress = to /\ b.amount = amount
        /\ b.fullContract = Address(p.contractAddress) /\ b.selector = Text(p.customSelector)
        /\ b.maxFee = Amount(content.feeLimit, SUN_DIG) /\ b.amount2 = Blank /\ b.hash = Blank
        /\ b.sendAllow = "To" /\ b.votes = <<>> /\ b.permissions = NoPermissions
    BY <1>1, StartOfBuffers DEF b0
  <1>5. FilledFor(b, content)
    BY <1>2, <1>4, StartOfBuffers, TagsOfValues DEF FilledFor, Filled
  <1>6. Recipient(content) = <<>>
    BY DEF Recipient, IsCustomCall
  <1> QED
    BY <1>3, <1>4, <1>5, <1>6 DEF b

\* A transfer, of TRX or of a token.
LEMMA TransferFilled ==
    ASSUME NEW content, NEW permissions, NEW hash, ~IsCustomCall(content),
           content.contractType
               \in {"TRANSFERCONTRACT", "TRANSFERASSETCONTRACT", "TRIGGERSMARTCONTRACT"}
    PROVE  LET b == Buffers(content, permissions, hash)
               p == content.parsed
           IN  /\ FilledFor(b, content)
               /\ b.toAddress = Address(p.destination)
               /\ \E d : b.amount = Amount(IF content.contractType = "TRIGGERSMARTCONTRACT"
                                           THEN p.TRC20Amount ELSE p.amount[1], d)
               /\ content.contractType = "TRIGGERSMARTCONTRACT" =>
                     b.maxFee = Amount(content.feeLimit, SUN_DIG)
               /\ Recipient(content) = <<p.destination>>
  <1> DEFINE b == Buffers(content, permissions, hash)
             b0 == SenderBuffers(content)
             p == content.parsed
             to == Address(p.destination)
             label == Label(content.tokens.names[1])
             c == [b0 EXCEPT !.toAddress = to, !.fullContract = label]
  <1>0. Recipient(content) = <<p.destination>>
    BY DEF Recipient
  <1>1. b = TransferBuffers(content, b0)
    BY DEF Buffers, SenderBuffers
  <1>2. Unnamed(to) /\ Unnamed(label)
    BY TagsOfValues
  <1>3. /\ DOMAIN c = DOMAIN NoBuffers
        /\ c.fromAddress = SenderText(content) /\ c.toAddress = to /\ c.fullContract = label
        /\ c.amount = Blank /\ c.amount2 = Blank /\ c.sendAllow = "To" /\ c.selector = Blank
        /\ c.hash = Blank /\ c.maxFee = Blank /\ c.votes = <<>> /\ c.permissions = NoPermissions
    <2> HIDE DEF to, label
    <2> QED
      BY DEF SenderBuffers, NoBuffers
  <1> HIDE DEF b, b0, to, label
  <1>4. CASE content.contractType = "TRANSFERCONTRACT"
    <2> DEFINE amount == Amount(p.amount[1], SUN_DIG)
    <2>1. b = [c EXCEPT !.amount = amount]
      BY <1>1, <1>4 DEF TransferBuffers, to, label
    <2>2. Unnamed(amount)
      BY TagsOfValues
    <2> HIDE DEF amount, c
    <2>3. /\ b.fromAddress = SenderText(content) /\ b.toAddress = to /\ b.fullContract = label
          /\ b.amount = amount /\ b.amount2 = Blank /\ b.sendAllow = "To" /\ b.selector = Blank
          /\ b.hash = Blank /\ b.maxFee = Blank /\ b.votes = <<>> /\ b.permissions = NoPermissions
      BY <1>3, <2>1 DEF NoBuffers
    <2> QED
      BY <1>0, <1>2, <1>4, <2>2, <2>3, StartOfBuffers DEF FilledFor, Filled, b, amount, to
  <1>5. CASE content.contractType = "TRANSFERASSETCONTRACT"
    <2> DEFINE amount == Amount(p.amount[1], content.tokens.decimals[1])
    <2>1. b = [c EXCEPT !.amount = amount]
      BY <1>1, <1>5 DEF TransferBuffers, to, label
    <2>2. Unnamed(amount)
      BY TagsOfValues
    <2> HIDE DEF amount, c
    <2>3. /\ b.fromAddress = SenderText(content) /\ b.toAddress = to /\ b.fullContract = label
          /\ b.amount = amount /\ b.amount2 = Blank /\ b.sendAllow = "To" /\ b.selector = Blank
          /\ b.hash = Blank /\ b.maxFee = Blank /\ b.votes = <<>> /\ b.permissions = NoPermissions
      BY <1>3, <2>1 DEF NoBuffers
    <2> QED
      BY <1>0, <1>2, <1>5, <2>2, <2>3, StartOfBuffers DEF FilledFor, Filled, b, amount, to
  <1>6. CASE content.contractType = "TRIGGERSMARTCONTRACT"
    <2> DEFINE amount == Amount(p.TRC20Amount, content.tokens.decimals[1])
               send == IF p.TRC20Method = 2 THEN "Allow" ELSE "To"
               fee == Amount(content.feeLimit, SUN_DIG)
    <2>1. b = [c EXCEPT !.amount = amount, !.sendAllow = send, !.maxFee = fee]
      BY <1>1, <1>6 DEF TransferBuffers, to, label
    <2>2. Unnamed(amount) /\ Unnamed(fee) /\ send # "Service"
      BY TagsOfValues
    <2> HIDE DEF amount, c, send, fee
    <2>3. /\ b.fromAddress = SenderText(content) /\ b.toAddress = to /\ b.fullContract = label
          /\ b.amount = amount /\ b.amount2 = Blank /\ b.sendAllow = send /\ b.selector = Blank
          /\ b.hash = Blank /\ b.maxFee = fee /\ b.votes = <<>> /\ b.permissions = NoPermissions
      BY <1>3, <2>1 DEF NoBuffers
    <2> QED
      BY <1>0, <1>2, <1>6, <2>2, <2>3, StartOfBuffers DEF FilledFor, Filled, b, amount, to, fee
  <1> QED
    BY <1>4, <1>5, <1>6

\* An exchange: the buffer of the recipient holds a token or a number.
LEMMA ExchangeFilled ==
    ASSUME NEW content, NEW permissions, NEW hash,
           content.contractType \in {"EXCHANGECREATECONTRACT", "EXCHANGEINJECTCONTRACT",
                                     "EXCHANGEWITHDRAWCONTRACT", "EXCHANGETRANSACTIONCONTRACT"}
    PROVE  LET b == Buffers(content, permissions, hash)
               p == content.parsed
           IN  /\ FilledFor(b, content)
               /\ \E d : b.amount = Amount(p.amount[1], d)
               /\ content.contractType \in {"EXCHANGECREATECONTRACT", "EXCHANGETRANSACTIONCONTRACT"} =>
                     \E d : b.amount2 = Amount(p.amount[2], d)
               /\ content.contractType # "EXCHANGECREATECONTRACT" =>
                     b.toAddress = Amount(p.exchangeID, 0)
               /\ Recipient(content) = <<>>
  <1> DEFINE b == Buffers(content, permissions, hash)
             b0 == SenderBuffers(content)
             p == content.parsed
             Puts(full, to, x, y) ==
                 b = [b0 EXCEPT !.fullContract = full, !.toAddress = to, !.amount = x, !.amount2 = y]
  <1>0. Recipient(content) = <<>>
    BY DEF Recipient, IsCustomCall
  <1>1. b = ExchangeBuffers(content, b0)
    BY <1>0 DEF Buffers, SenderBuffers, IsCustomCall
  <1> HIDE DEF b
  <1>2. ASSUME NEW full, NEW to, NEW x, NEW y, Puts(full, to, x, y),
               Unnamed(full), Unnamed(to), Unnamed(x), Unnamed(y)
        PROVE  FilledFor(b, content) /\ b.toAddress = to /\ b.amount = x /\ b.amount2 = y
    <2>1. /\ b.fromAddress = SenderText(content) /\ b.toAddress = to /\ b.fullContract = full
          /\ b.amount = x /\ b.amount2 = y /\ b.sendAllow = "To" /\ b.selector = Blank
          /\ b.hash = Blank /\ b.maxFee = Blank /\ b.votes = <<>> /\ b.permissions = NoPermissions
      BY <1>2, StartOfBuffers
    <2> QED
      BY <1>2, <2>1, StartOfBuffers DEF FilledFor, Filled
  <1> HIDE DEF b0
  <1>3. CASE content.contractType = "EXCHANGECREATECONTRACT"
    <2> DEFINE full == Label(content.tokens.names[1])
               to == Label(content.tokens.names[2])
               x == SlotAmount(content, 1)
               y == SlotAmount(content, 2)
    <2>1. Puts(full, to, x, y)
      BY <1>1, <1>3 DEF ExchangeBuffers
    <2>2. /\ \E d : x = Amount(p.amount[1], d)
          /\ \E d : y = Amount(p.amount[2], d)
      BY DEF SlotAmount
    <2>3. Unnamed(full) /\ Unnamed(to) /\ Unnamed(x) /\ Unnamed(y)
      BY <2>2, TagsOfValues
    <2> HIDE DEF full, to, x, y, Puts
    <2> QED
      BY <1>0, <1>2, <1>3, <2>1, <2>2, <2>3 DEF b
  <1>4. CASE content.contractType = "EXCHANGETRANSACTIONCONTRACT"
    <2> DEFINE full == <<"pair", content.tokens.names[1], content.tokens.names[2]>>
               to == Amount(p.exchangeID, 0)
               x == Amount(p.amount[1], content.tokens.decimals[1])
               y == Amount(p.amount[2], content.tokens.decimals[2])
    <2>1. Puts(full, to, x, y)
      BY <1>1, <1>4 DEF ExchangeBuffers
    <2>2. /\ \E d : x = Amount(p.amount[1], d)
          /\ \E d : y = Amount(p.amount[2], d)
      OBVIOUS
    <2>3. Unnamed(full) /\ Unnamed(to) /\ Unnamed(x) /\ Unnamed(y)
      BY TagsOfValues
    <2> HIDE DEF full, x, y, Puts
    <2> QED
      BY <1>0, <1>2, <1>4, <2>1, <2>2, <2>3 DEF b
  <1>5. CASE content.contractType \in {"EXCHANGEINJECTCONTRACT", "EXCHANGEWITHDRAWCONTRACT"}
    <2> DEFINE full == Label(content.tokens.names[1])
               to == Amount(p.exchangeID, 0)
               x == SlotAmount(content, 1)
               y == Text(IF content.contractType = "EXCHANGEINJECTCONTRACT"
                         THEN "inject" ELSE "withdraw")
    <2>1. Puts(full, to, x, y)
      BY <1>1, <1>5 DEF ExchangeBuffers
    <2>2. \E d : x = Amount(p.amount[1], d)
      BY DEF SlotAmount
    <2>3. Unnamed(full) /\ Unnamed(to) /\ Unnamed(x) /\ Unnamed(y)
      BY <2>2, TagsOfValues
    <2> HIDE DEF full, x, y, Puts
    <2> QED
      BY <1>0, <1>2, <1>5, <2>1, <2>2, <2>3 DEF b
  <1> QED
    BY <1>0, <1>3, <1>4, <1>5

\* The contracts of the resources, with the receiver that the contacts are for.
ResourceTypes ==
    { "FREEZEBALANCECONTRACT", "UNFREEZEBALANCECONTRACT", "FREEZEBALANCEV2CONTRACT",
      "UNFREEZEBALANCEV2CONTRACT", "DELEGATERESOURCECONTRACT", "UNDELEGATERESOURCECONTRACT",
      "WITHDRAWEXPIREUNFREEZECONTRACT", "WITHDRAWBALANCECONTRACT" }
Receiver(content) ==
    CASE content.contractType \in {"DELEGATERESOURCECONTRACT", "UNDELEGATERESOURCECONTRACT"} ->
            content.parsed.destination
      [] content.contractType \in {"FREEZEBALANCECONTRACT", "UNFREEZEBALANCECONTRACT"} ->
            FreezeReceiver(content.parsed)
      [] OTHER -> content.parsed.account

\* They fill the receiver and the amount.
LEMMA ResourceFilled ==
    ASSUME NEW content, NEW permissions, NEW hash, content.contractType \in ResourceTypes
    PROVE  LET b == Buffers(content, permissions, hash)
           IN  /\ FilledFor(b, content)
               /\ Recipient(content) = <<Receiver(content)>>
               /\ b.toAddress = Address(Receiver(content))
               /\ b.amount = Amount(content.parsed.amount[1], SUN_DIG)
  <1> DEFINE b == Buffers(content, permissions, hash)
             b0 == SenderBuffers(content)
             p == content.parsed
             full == Resource(p)
             to == Address(Receiver(content))
             x == Amount(p.amount[1], SUN_DIG)
             y == Text(IF p.customData THEN "True" ELSE "False")
  <1>1. Recipient(content) = <<Receiver(content)>>
    BY DEF Recipient, Receiver, ResourceTypes, IsCustomCall
  <1>2. Recipient(content) # <<>> /\ Recipient(content)[1] = Receiver(content)
    BY <1>1
  <1>3. b = ResourceBuffers(content, b0)
    <2> HIDE DEF b0
    <2> QED
      BY <1>2 DEF Buffers, SenderBuffers, IsCustomCall, ResourceTypes, b0
  <1> HIDE DEF b, b0
  <1>4. b = [b0 EXCEPT !.fullContract = full, !.amount = x, !.amount2 = y, !.toAddress = to]
    BY <1>2, <1>3 DEF ResourceBuffers
  <1>5. Unnamed(full) /\ Unnamed(to) /\ Unnamed(x) /\ Unnamed(y)
    BY TagsOfValues DEF Resource
  <1> HIDE DEF full, to, x, y
  <1>6. /\ b.fromAddress = SenderText(content) /\ b.toAddress = to /\ b.fullContract = full
        /\ b.amount = x /\ b.amount2 = y /\ b.sendAllow = "To" /\ b.selector = Blank
        /\ b.hash = Blank /\ b.maxFee = Blank /\ b.votes = <<>> /\ b.permissions = NoPermissions
    BY <1>4, StartOfBuffers DEF b0
  <1>7. FilledFor(b, content)
    BY <1>5, <1>6, StartOfBuffers DEF FilledFor, Filled
  <1> QED
    BY <1>1, <1>6, <1>7 DEF b, to, x

\* A vote, a permission update, and any contract that is signed by its hash.
LEMMA VoteFilled ==
    ASSUME NEW content, NEW permissions, NEW hash, content.contractType = "VOTEWITNESSCONTRACT"
    PROVE  LET b == Buffers(content, permissions, hash)
           IN  /\ Filled(b) /\ b.fromAddress = SenderText(content)
               /\ b.votes = content.parsed.votes /\ b.permissions = NoPermissions
               /\ Recipient(content) = <<>>
  <1> DEFINE b == Buffers(content, permissions, hash)
             b0 == SenderBuffers(content)
             full == Amount(TotalVotes(content.parsed.votes), 0)
  <1>0. Recipient(content) = <<>>
    BY DEF Recipient, IsCustomCall
  <1>1. b = [b0 EXCEPT !.votes = content.parsed.votes, !.fullContract = full]
    BY <1>0 DEF Buffers, SenderBuffers, IsCustomCall
  <1>2. Unnamed(full)
    BY TagsOfValues
  <1> HIDE DEF b, b0, full
  <1>3. /\ b.fromAddress = SenderText(content) /\ b.toAddress = Blank /\ b.fullContract = full
        /\ b.amount = Blank /\ b.amount2 = Blank /\ b.sendAllow = "To" /\ b.selector = Blank
        /\ b.hash = Blank /\ b.maxFee = Blank /\ b.votes = content.parsed.votes
        /\ b.permissions = NoPermissions
    BY <1>1, StartOfBuffers DEF b0
  <1> QED
    BY <1>0, <1>2, <1>3, StartOfBuffers DEF Filled, b

\* A permission update.
LEMMA PermissionFilled ==
    ASSUME NEW content, NEW permissions, NEW hash,
           content.contractType = "ACCOUNTPERMISSIONUPDATECONTRACT"
    PROVE  LET b == Buffers(content, permissions, hash)
           IN  /\ Filled(b) /\ b.fromAddress = SenderText(content)
               /\ b.votes = <<>> /\ b.permissions = permissions
               /\ Recipient(content) = <<>>
  <1> DEFINE b == Buffers(content, permissions, hash)
             b0 == SenderBuffers(content)
  <1>0. Recipient(content) = <<>>
    BY DEF Recipient, IsCustomCall
  <1>1. b = [b0 EXCEPT !.permissions = permissions]
    BY <1>0 DEF Buffers, SenderBuffers, IsCustomCall
  <1> HIDE DEF b, b0
  <1>3. /\ b.fromAddress = SenderText(content) /\ b.toAddress = Blank /\ b.fullContract = Blank
        /\ b.amount = Blank /\ b.amount2 = Blank /\ b.sendAllow = "To" /\ b.selector = Blank
        /\ b.hash = Blank /\ b.maxFee = Blank /\ b.votes = <<>> /\ b.permissions = permissions
    BY <1>1, StartOfBuffers DEF b0
  <1> QED
    BY <1>0, <1>3, StartOfBuffers DEF Filled, b

\* The contracts that are not rendered.
HashedTypes ==
    ParsedTypes \ (ResourceTypes \cup
        { "TRANSFERCONTRACT", "TRANSFERASSETCONTRACT", "TRIGGERSMARTCONTRACT",
          "EXCHANGECREATECONTRACT", "EXCHANGEINJECTCONTRACT", "EXCHANGEWITHDRAWCONTRACT",
          "EXCHANGETRANSACTIONCONTRACT", "VOTEWITNESSCONTRACT",
          "ACCOUNTPERMISSIONUPDATECONTRACT" })

\* They show the hash.
LEMMA HashFilled ==
    ASSUME NEW content, NEW permissions, NEW hash, content.contractType \in HashedTypes
    PROVE  LET b == Buffers(content, permissions, hash)
           IN  FilledFor(b, content) /\ b.hash = Hash(hash) /\ Recipient(content) = <<>>
  <1> DEFINE b == Buffers(content, permissions, hash)
             b0 == SenderBuffers(content)
  <1>1. Recipient(content) = <<>>
    BY DEF Recipient, HashedTypes, IsCustomCall, ResourceTypes
  <1>2. b = [b0 EXCEPT !.hash = Hash(hash)]
    BY <1>1 DEF Buffers, SenderBuffers, IsCustomCall, HashedTypes, ResourceTypes
  <1>3. Unnamed(Hash(hash))
    BY TagsOfValues
  <1> HIDE DEF b, b0
  <1>4. /\ b.fromAddress = SenderText(content) /\ b.toAddress = Blank /\ b.fullContract = Blank
        /\ b.amount = Blank /\ b.amount2 = Blank /\ b.sendAllow = "To" /\ b.selector = Blank
        /\ b.hash = Hash(hash) /\ b.maxFee = Blank /\ b.votes = <<>> /\ b.permissions = NoPermissions
    BY <1>2, StartOfBuffers DEF b0
  <1> QED
    BY <1>1, <1>3, <1>4, StartOfBuffers DEF FilledFor, Filled, b

-----------------------------------------------------------------------------
(* What a review shows of its contract.                                    *)

\* The contacts were resolved from what the buffers hold.
Resolved(c, b) ==
    /\ c.recipient # NoName =>
          \E a \in DOMAIN ContactOf : b.toAddress = Address(a) /\ c.recipient = ContactOf[a]
    /\ c.service # NoName =>
          \E a \in DOMAIN ServiceOf : b.toAddress = Address(a) /\ c.service = ServiceOf[a]
    /\ c.sender # NoName =>
          \E a \in DOMAIN ContactOf : b.fromAddress = Address(a) /\ c.sender = ContactOf[a]

\* handleSign resolves the recipient from the address it prints.
LEMMA ContactsResolve ==
    ASSUME NEW content, NEW b, b.fromAddress = SenderText(content),
           content.parsed.account \in DOMAIN ContactOf,
           \/ Recipient(content) = <<>>
           \/ \E a \in DOMAIN ContactOf : Recipient(content) = <<a>> /\ b.toAddress = Address(a)
    PROVE  Resolved(ResolveContacts(NoContacts, content), b)
  <1> DEFINE s == ResolveSender(NoContacts, content)
             c == ResolveContacts(NoContacts, content)
  <1>1. /\ s = [recipient |-> NoName, sender |-> s.sender, service |-> NoName]
        /\ s.sender # NoName =>
              b.fromAddress = Address(content.parsed.account)
              /\ s.sender = ContactOf[content.parsed.account]
    BY DEF ResolveSender, NoContacts, SenderText
  <1> HIDE DEF s
  <1>2. CASE Recipient(content) = <<>>
    <2>1. c = s
      BY <1>2 DEF ResolveContacts, s
    <2> QED
      BY <1>1, <2>1 DEF Resolved
  <1>3. CASE Recipient(content) # <<>>
    <2>1. PICK a \in DOMAIN ContactOf : Recipient(content) = <<a>> /\ b.toAddress = Address(a)
      BY <1>3
    <2>2. Recipient(content)[1] = a
      BY <2>1
    <2>3. c = [s EXCEPT !.recipient = ContactOf[a], !.service = ServiceOf[a]]
      BY <1>3, <2>2 DEF ResolveContacts, s, set_recipient_address
    <2> HIDE DEF c
    <2>4. c.recipient = ContactOf[a] /\ c.service = ServiceOf[a] /\ c.sender = s.sender
      BY <1>1, <2>3
    <2>5. a \in DOMAIN ServiceOf
      BY AddressAssumption
    <2>6. Resolved(c, b)
      BY <1>1, <2>1, <2>4, <2>5 DEF Resolved
    <2> QED
      BY <2>6 DEF c
  <1> QED
    BY <1>2, <1>3

\* AliasMatchesAddress, of any fields.
NamesStand(fields) ==
    \A i \in DOMAIN fields :
        /\ fields[i].value[1] = "contact" =>
              \E a \in DOMAIN ContactOf :
                  fields[i].value[3] = Address(a) /\ fields[i].value[2] = ContactOf[a]
        /\ fields[i].item = "Service" =>
              \E a \in DOMAIN ServiceOf :
                  /\ Unalias(fields[i + 1].value) = Address(a)
                  /\ fields[i].value = Text(ServiceOf[a])

\* The values of a review, with the value behind an alias.
ValuesOf(fields) == {Unalias(fields[i].value) : i \in DOMAIN fields}

\* A review that fits, whose names stand for addresses and that shows some values.
Screen(fields, shown) ==
    Len(fields) <= MAX_TX_FIELDS /\ NamesStand(fields) /\ shown \subseteq ValuesOf(fields)

\* So are all those put together from buffers and the contacts resolved for them.
LEMMA ScreenOf ==
    ASSUME NEW list, NEW b, NEW c, Resolved(c, b), NEW shown, shown \subseteq Values(list),
           \/ FieldsOf(list, b, 7)
           \/ FieldsOf(list, b, MAX_TX_FIELDS) /\ \A f \in Range(list) : f.buf # "toAddress"
    PROVE  Screen(Prepared(list, c), shown)
  <1> DEFINE fields == Prepared(list, c)
             bound == MAX_TX_FIELDS
  <1>1. bound \in Nat /\ 8 <= bound
    BY DEF MAX_TX_FIELDS, PERMISSION_MAX_ACTIVES, PERMISSION_MAX_KEYS
  <1> HIDE DEF bound
  <1>2. \E n \in Nat : /\ FieldsOf(list, b, n)
                       /\ \/ n = 7
                          \/ n = bound /\ \A f \in Range(list) : f.buf # "toAddress"
    BY <1>1 DEF bound
  <1>3. PICK n \in Nat : /\ FieldsOf(list, b, n)
                         /\ \/ n = 7
                            \/ n = bound /\ \A f \in Range(list) : f.buf # "toAddress"
    BY <1>2
  <1>4. /\ Listed(fields) /\ Len(fields) <= n + 1
        /\ (\A f \in Range(list) : f.buf # "toAddress") => Len(fields) <= n
        /\ Values(list) \subseteq {Unalias(fields[i].value) : i \in DOMAIN fields}
        /\ \A i \in DOMAIN fields : Stands(fields[i], c, b) /\ Labels(fields, i, c, b)
    BY <1>3, PreparedFields
  <1> HIDE DEF fields
  <1>5. Len(fields) \in Nat
    BY <1>4, ListDomain
  <1>6. Len(fields) <= bound
    BY <1>1, <1>3, <1>4, <1>5
  <1>7. ASSUME NEW i \in DOMAIN fields, fields[i].value[1] = "contact"
        PROVE  \E a \in DOMAIN ContactOf :
                  fields[i].value[3] = Address(a) /\ fields[i].value[2] = ContactOf[a]
    <2>1. \A x, y : Contact(x, y)[3] = y /\ Contact(x, y)[2] = x
      BY DEF Contact
    <2> QED
      BY <1>4, <1>7, <2>1 DEF Stands, Resolved
  <1>8. ASSUME NEW i \in DOMAIN fields, fields[i].item = "Service"
        PROVE  \E a \in DOMAIN ServiceOf :
                  /\ Unalias(fields[i + 1].value) = Address(a)
                  /\ fields[i].value = Text(ServiceOf[a])
    BY <1>4, <1>8 DEF Labels, Resolved
  <1>9. NamesStand(fields)
    BY <1>7, <1>8 DEF NamesStand
  <1> QED
    BY <1>4, <1>6, <1>9 DEF Screen, ValuesOf, fields, bound

\* ReviewShowsContract, of any values: what a contract and a fee limit have to show.
Numbers(values) == {v[2] : v \in {x \in values : x[1] = "amount"}}
Discloses(k, fee, values, state, hash) ==
    /\ EssentialAddresses(k) \subseteq values
    /\ EssentialNumbers(k) \subseteq Numbers(values)
    /\ k.type = "TRIGGERSMARTCONTRACT" => fee \in Numbers(values)
    /\ k.type = "VOTEWITNESSCONTRACT" =>
          \A j \in DOMAIN k.m.votes :
              <<"vote", k.m.votes[j].address, VoteText(k.m.votes[j].count)>> \in values
    /\ k.type = "ACCOUNTPERMISSIONUPDATECONTRACT" =>
          \A f \in Range(PermissionUpdateFields(k.m.permissions)) : f.value \in values
    /\ state = "APPROVAL_SIMPLE_TRANSACTION" => Hash(hash) \in values

\* An amount on the screen shows its number.
LEMMA AmountShown ==
    ASSUME NEW values, NEW x, NEW d, Amount(x, d) \in values
    PROVE  x \in Numbers(values)
  <1>1. Amount(x, d)[1] = "amount" /\ Amount(x, d)[2] = x
    BY DEF Amount
  <1> QED
    BY <1>1 DEF Numbers

\* The content of a parsed contract.
Decoded(content, k) ==
    /\ content.contractType = k.type /\ content.permission_id = k.permission_id
    /\ content.parsed = ExtractParsed(k.type, ZeroParsed, k.m)

\* The sender on the screen is the owner of the contract.
LEMMA OwnerDecoded ==
    ASSUME NEW k, NEW content, Decoded(content, k)
    PROVE  /\ content.parsed.account = k.m.owner
           /\ SenderText(content) =
                IF k.permission_id > 0 THEN PermissionAddress(k.permission_id, k.m.owner)
                ELSE Address(k.m.owner)
  BY ParsedMessage DEF Decoded, SenderText

\* The fields that handleSign asks for.
ReviewFields(content, permissions, hash) ==
    prepareTxInfos(ApprovalState(content), Buffers(content, permissions, hash),
                   content.contractType = "TRIGGERSMARTCONTRACT",
                   ResolveContacts(NoContacts, content))
ReviewList(content, permissions, hash) ==
    FieldList(ApprovalState(content), Buffers(content, permissions, hash),
              content.contractType = "TRIGGERSMARTCONTRACT")

\* Buffers without lists are tagged.
LEMMA FilledForTagged == ASSUME NEW b, NEW content, FilledFor(b, content) PROVE Tagged(b)
  <1>1. Listed(<<>>) /\ Len(<<>>) <= MAX_VOTES
    BY DEF Listed, MAX_VOTES
  <1> QED
    BY <1>1, FilledIsTagged, NoneAreLists DEF FilledFor

\* What the recipient of a contract is for its buffers.
RecipientPrinted(content, b) ==
    \/ Recipient(content) = <<>>
    \/ \E a \in DOMAIN ContactOf : Recipient(content) = <<a>> /\ b.toAddress = Address(a)

\* The screen of a contract whose buffers reveal some values.
LEMMA ScreenOfContract ==
    ASSUME NEW k, Sendable(k), NEW content, Decoded(content, k), NEW permissions, NEW hash,
           NEW b, b = Buffers(content, permissions, hash), b.fromAddress = SenderText(content),
           RecipientPrinted(content, b), NEW shown,
           Reveals(ReviewList(content, permissions, hash), b, shown)
    PROVE  Screen(ReviewFields(content, permissions, hash), shown)
  <1> DEFINE c == ResolveContacts(NoContacts, content)
             list == ReviewList(content, permissions, hash)
  <1>1. content.parsed.account \in DOMAIN ContactOf
    BY OwnerDecoded DEF Sendable
  <1>2. Resolved(c, b)
    BY <1>1, ContactsResolve DEF RecipientPrinted
  <1>3. FieldsOf(list, b, 7) /\ shown \subseteq Values(list)
    BY DEF Reveals
  <1>4. ReviewFields(content, permissions, hash) = Prepared(list, c)
    BY DEF ReviewFields, ReviewList, prepareTxInfos, Prepared
  <1> HIDE DEF c, list
  <1> QED
    BY <1>2, <1>3, <1>4, ScreenOf

\* What is left to show of a contract, from a screen.
Told(k, content, permissions, hash) ==
    LET fields == ReviewFields(content, permissions, hash)
    IN  /\ Screen(fields, {})
        /\ Discloses(k, content.feeLimit, ValuesOf(fields), ApprovalState(content), hash)

\* The review of a call that is not rendered: of TRX and of a token, at most one.
LEMMA CustomCallTold ==
    ASSUME NEW k, Sendable(k), NEW content, Decoded(content, k), NEW permissions, NEW hash,
           NEW allowed, NEW inSwap, IsCustomCall(content),
           ReviewVerdict(content, permissions, allowed, inSwap) = Pass
    PROVE  Told(k, content, permissions, hash)
  <1> DEFINE b == Buffers(content, permissions, hash)
             p == content.parsed
             fields == ReviewFields(content, permissions, hash)
             values == ValuesOf(fields)
             shown == {b.fullContract, b.selector, b.toAddress, b.amount, b.fromAddress, b.maxFee}
  <1>1. /\ FilledFor(b, content) /\ Recipient(content) = <<>>
        /\ b.fullContract = Address(p.contractAddress)
        /\ b.maxFee = Amount(content.feeLimit, SUN_DIG)
        /\ p.amount[1] # 0 => b.amount = Amount(p.amount[1], SUN_DIG)
        /\ p.amount[1] = 0 /\ p.callTokenValue # 0 =>
              b.amount = Amount(Unsigned(p.callTokenValue), 0)
    BY CustomCallFilled
  <1>2. k.type = "TRIGGERSMARTCONTRACT" /\ p.TRC20Method = 0
    BY DEF IsCustomCall, Decoded
  <1>3. /\ p.contractAddress = k.m.contract /\ p.callTokenValue = k.m.callTokenValue
        /\ p.amount[1] = Unsigned(k.m.amount)
        /\ ~(getKnownToken(k.m) /\ TriggerMethod(k.m) # 0)
    <2>1. p = ExtractParsed("TRIGGERSMARTCONTRACT", ZeroParsed, k.m)
      BY <1>2 DEF Decoded
    <2>2. k.m.data.present \/ TriggerMethod(k.m) = 0
      BY DEF Sendable
    <2>3. "TRIGGERSMARTCONTRACT" \in PaidTypes
      BY DEF PaidTypes
    <2> QED
      BY <1>2, <2>1, <2>2, <2>3, ParsedCall, ParsedMessage
  <1>4. p.amount[1] = 0 \/ p.callTokenValue = 0
    <2>1. ContractVerdict(content, permissions, allowed) = Pass
      BY DEF ReviewVerdict, Pass, Refuse
    <2>2. CustomCallVerdict(content, allowed) = Pass
      BY <1>2, <2>1 DEF ContractVerdict, IsCustomCall
    <2> QED
      BY <2>2 DEF CustomCallVerdict, Pass, Refuse
  <1>5. ApprovalState(content) = "APPROVAL_CUSTOM_CONTRACT"
    BY <1>2 DEF ApprovalState, IsCustomCall, Decoded
  <1>6. Screen(fields, shown)
    <2> DEFINE t == content.contractType = "TRIGGERSMARTCONTRACT"
    <2>1. Tagged(b)
      BY <1>1, FilledForTagged
    <2> HIDE DEF b, t
    <2>2. Reveals(FieldList("APPROVAL_CUSTOM_CONTRACT", b, t), b, shown)
      BY <2>1, FixedReviews
    <2>3. Reveals(ReviewList(content, permissions, hash), b, shown)
      BY <1>5, <2>2 DEF ReviewList, b, t
    <2>4. b = Buffers(content, permissions, hash) /\ b.fromAddress = SenderText(content)
          /\ RecipientPrinted(content, b)
      BY <1>1 DEF b, FilledFor, RecipientPrinted
    <2> HIDE DEF shown
    <2> QED
      BY <2>3, <2>4, ScreenOfContract
  <1>7. /\ Screen(fields, {})
        /\ b.fullContract \in values /\ b.amount \in values /\ b.fromAddress \in values
        /\ b.maxFee \in values
    <2> HIDE DEF fields, b
    <2> QED
      BY <1>6 DEF Screen
  <1> HIDE DEF fields, values
  <1>8. EssentialAddresses(k) \subseteq values
    BY <1>1, <1>2, <1>3, <1>7, OwnerDecoded DEF EssentialAddresses, FilledFor, getKnownToken
  <1>9. content.feeLimit \in Numbers(values)
    BY <1>1, <1>7, AmountShown
  <1>10. EssentialNumbers(k) \subseteq Numbers(values)
    <2>1. EssentialNumbers(k) = {Unsigned(v) : v \in {k.m.amount, k.m.callTokenValue} \ {0}}
      BY <1>2, <1>3 DEF EssentialNumbers, getKnownToken
    <2>2. ASSUME k.m.amount # 0 PROVE Unsigned(k.m.amount) \in Numbers(values)
      <3>1. p.amount[1] # 0
        <4>1. \A v \in Int64 : Unsigned(v) = 0 => v = 0
          BY WordAssumption DEF Int64, Unsigned
        <4> QED
          BY <1>3, <2>2, <4>1 DEF Sendable
      <3> QED
        BY <1>1, <1>3, <1>7, <3>1, AmountShown
    <2>3. ASSUME k.m.callTokenValue # 0 PROVE Unsigned(k.m.callTokenValue) \in Numbers(values)
      BY <1>1, <1>3, <1>4, <1>7, <2>3, AmountShown
    <2> QED
      BY <2>1, <2>2, <2>3
  <1>11. Discloses(k, content.feeLimit, values, ApprovalState(content), hash)
    BY <1>2, <1>5, <1>8, <1>9, <1>10 DEF Discloses
  <1> QED
    BY <1>7, <1>11 DEF Told, fields, values

\* The review of a transfer, of TRX or of a token; a call pays nothing else.
LEMMA TransferTold ==
    ASSUME NEW k, Sendable(k), NEW content, Decoded(content, k), NEW permissions, NEW hash,
           NEW allowed, NEW inSwap, ~IsCustomCall(content),
           k.type \in {"TRANSFERCONTRACT", "TRANSFERASSETCONTRACT", "TRIGGERSMARTCONTRACT"},
           ReviewVerdict(content, permissions, allowed, inSwap) = Pass
    PROVE  Told(k, content, permissions, hash)
  <1> DEFINE b == Buffers(content, permissions, hash)
             p == content.parsed
             fields == ReviewFields(content, permissions, hash)
             values == ValuesOf(fields)
             t == content.contractType = "TRIGGERSMARTCONTRACT"
             shown == {b.amount, b.fullContract, b.toAddress, b.fromAddress}
                          \cup (IF t THEN {b.maxFee} ELSE {})
  <1>0. content.contractType = k.type
    BY DEF Decoded
  <1>1. /\ FilledFor(b, content) /\ Recipient(content) = <<p.destination>>
        /\ b.toAddress = Address(p.destination)
        /\ \E d : b.amount = Amount(IF k.type = "TRIGGERSMARTCONTRACT"
                                    THEN p.TRC20Amount ELSE p.amount[1], d)
        /\ t => b.maxFee = Amount(content.feeLimit, SUN_DIG)
    BY <1>0, TransferFilled
  <1>3. ASSUME k.type = "TRIGGERSMARTCONTRACT"
        PROVE  /\ p.callTokenValue = k.m.callTokenValue /\ p.amount[1] = Unsigned(k.m.amount)
               /\ getKnownToken(k.m) /\ TriggerMethod(k.m) # 0
               /\ p.destination = k.m.data.to /\ p.TRC20Amount = k.m.data.amount
               /\ k.m.amount = 0 /\ k.m.callTokenValue = 0
    <2>1. p = ExtractParsed("TRIGGERSMARTCONTRACT", ZeroParsed, k.m)
      BY <1>3 DEF Decoded
    <2>2. k.m.data.present \/ TriggerMethod(k.m) = 0
      BY DEF Sendable
    <2>3. "TRIGGERSMARTCONTRACT" \in PaidTypes
      BY DEF PaidTypes
    <2>4. p.TRC20Method # 0
      BY <1>0, <1>3 DEF IsCustomCall
    <2>5. /\ p.callTokenValue = k.m.callTokenValue /\ p.amount[1] = Unsigned(k.m.amount)
          /\ getKnownToken(k.m) /\ TriggerMethod(k.m) # 0
          /\ p.destination = k.m.data.to /\ p.TRC20Amount = k.m.data.amount
      BY <2>1, <2>2, <2>3, <2>4, ParsedCall, ParsedMessage
    <2>6. ContractVerdict(content, permissions, allowed) = Pass
      BY DEF ReviewVerdict, Pass, Refuse
    <2>7. p.amount[1] = 0 /\ p.callTokenValue = 0
      BY <1>0, <1>3, <2>4, <2>6 DEF ContractVerdict, IsCustomCall, Pass, Refuse
    <2>8. \A v \in Int64 : Unsigned(v) = 0 => v = 0
      BY WordAssumption DEF Int64, Unsigned
    <2> QED
      BY <2>5, <2>7, <2>8 DEF Sendable
  <1>4. p.destination \in DOMAIN ContactOf
    <2>1. CASE k.type = "TRIGGERSMARTCONTRACT"
      BY <1>3, <2>1 DEF Sendable
    <2>2. CASE k.type # "TRIGGERSMARTCONTRACT"
      <3>1. p.destination = k.m.to
        BY <2>2, ParsedMessage DEF Decoded, ReceivedTypes
      <3> QED
        BY <3>1 DEF Sendable
    <2> QED
      BY <2>1, <2>2
  <1>5. ApprovalState(content) = "APPROVAL_TRANSFER"
    BY <1>0 DEF ApprovalState, IsCustomCall
  <1>6. Screen(fields, shown)
    <2>1. Tagged(b) /\ t \in BOOLEAN
      BY <1>1, FilledForTagged
    <2> HIDE DEF b, t
    <2>2. Reveals(FieldList("APPROVAL_TRANSFER", b, t), b, shown)
      BY <2>1, TransferReview
    <2>3. Reveals(ReviewList(content, permissions, hash), b, shown)
      BY <1>5, <2>2 DEF ReviewList, b, t
    <2>4. b = Buffers(content, permissions, hash) /\ b.fromAddress = SenderText(content)
          /\ RecipientPrinted(content, b)
      BY <1>1, <1>4 DEF b, FilledFor, RecipientPrinted
    <2> HIDE DEF shown
    <2> QED
      BY <2>3, <2>4, ScreenOfContract
  <1>7. /\ Screen(fields, {})
        /\ b.amount \in values /\ b.fromAddress \in values /\ b.toAddress \in values
        /\ t => b.maxFee \in values
    <2> HIDE DEF fields, b, t
    <2> QED
      BY <1>6 DEF Screen
  <1> HIDE DEF fields, values
  <1>8. CASE k.type = "TRIGGERSMARTCONTRACT"
    <2>1. EssentialAddresses(k) \subseteq values
      BY <1>1, <1>3, <1>7, <1>8, OwnerDecoded DEF EssentialAddresses, FilledFor, getKnownToken
    <2>2. content.feeLimit \in Numbers(values)
      BY <1>0, <1>1, <1>7, <1>8, AmountShown
    <2>3. EssentialNumbers(k) = {k.m.data.amount}
      BY <1>3, <1>8 DEF EssentialNumbers, getKnownToken
    <2>4. k.m.data.amount \in Numbers(values)
      BY <1>1, <1>3, <1>7, <1>8, AmountShown
    <2>5. Discloses(k, content.feeLimit, values, ApprovalState(content), hash)
      BY <1>5, <1>8, <2>1, <2>2, <2>3, <2>4 DEF Discloses
    <2> QED
      BY <1>7, <2>5 DEF Told, fields, values
  <1>9. CASE k.type # "TRIGGERSMARTCONTRACT"
    <2>0. p.destination = k.m.to /\ p.amount[1] = Unsigned(k.m.amount)
      BY <1>9, ParsedMessage DEF Decoded, ReceivedTypes, PaidTypes
    <2>1. EssentialAddresses(k) \subseteq values
      BY <1>1, <1>7, <1>9, <2>0, OwnerDecoded DEF EssentialAddresses, FilledFor
    <2>3. EssentialNumbers(k) = {Unsigned(k.m.amount)}
      BY <1>9 DEF EssentialNumbers
    <2>4. Unsigned(k.m.amount) \in Numbers(values)
      BY <1>1, <1>7, <1>9, <2>0, AmountShown
    <2>5. Discloses(k, content.feeLimit, values, ApprovalState(content), hash)
      BY <1>5, <1>9, <2>1, <2>3, <2>4 DEF Discloses
    <2> QED
      BY <1>7, <2>5 DEF Told, fields, values
  <1> QED
    BY <1>8, <1>9

\* The review of an exchange: its number and its amounts.
LEMMA ExchangeTold ==
    ASSUME NEW k, Sendable(k), NEW content, Decoded(content, k), NEW permissions, NEW hash,
           k.type \in {"EXCHANGECREATECONTRACT", "EXCHANGEINJECTCONTRACT",
                       "EXCHANGEWITHDRAWCONTRACT", "EXCHANGETRANSACTIONCONTRACT"}
    PROVE  Told(k, content, permissions, hash)
  <1> DEFINE b == Buffers(content, permissions, hash)
             p == content.parsed
             fields == ReviewFields(content, permissions, hash)
             values == ValuesOf(fields)
             t == content.contractType = "TRIGGERSMARTCONTRACT"
             shown == {b.toAddress, b.amount, b.amount2, b.fromAddress}
             state == ApprovalState(content)
  <1>0. content.contractType = k.type
    BY DEF Decoded
  <1>1. /\ FilledFor(b, content) /\ Recipient(content) = <<>>
        /\ \E d : b.amount = Amount(p.amount[1], d)
        /\ k.type \in {"EXCHANGECREATECONTRACT", "EXCHANGETRANSACTIONCONTRACT"} =>
              \E d : b.amount2 = Amount(p.amount[2], d)
        /\ k.type # "EXCHANGECREATECONTRACT" => b.toAddress = Amount(p.exchangeID, 0)
    BY <1>0, ExchangeFilled, SMTT(20)
  <1>2. /\ p.amount[1] = Unsigned(k.m.amount)
        /\ k.type \in {"EXCHANGECREATECONTRACT", "EXCHANGETRANSACTIONCONTRACT"} =>
              p.amount[2] = Unsigned(k.m.amount2)
        /\ k.type # "EXCHANGECREATECONTRACT" => p.exchangeID = Unsigned(k.m.id)
    BY ParsedMessage DEF Decoded, PaidTypes
  <1>5. state \in {"APPROVAL_EXCHANGE_CREATE", "APPROVAL_EXCHANGE_WITHDRAW_INJECT",
                   "APPROVAL_EXCHANGE_TRANSACTION"}
    BY <1>0 DEF ApprovalState, IsCustomCall
  <1>6. Screen(fields, shown)
    <2>1. Tagged(b)
      BY <1>1, FilledForTagged
    <2> HIDE DEF b, t
    <2>2. Reveals(FieldList(state, b, t), b, shown)
      <3>1. /\ Reveals(FieldList("APPROVAL_EXCHANGE_CREATE", b, t), b,
                       {b.fullContract, b.amount, b.toAddress, b.amount2, b.fromAddress})
            /\ Reveals(FieldList("APPROVAL_EXCHANGE_TRANSACTION", b, t), b,
                       {b.toAddress, b.fullContract, b.amount, b.amount2, b.fromAddress})
            /\ Reveals(FieldList("APPROVAL_EXCHANGE_WITHDRAW_INJECT", b, t), b,
                       {b.amount2, b.toAddress, b.fullContract, b.amount, b.fromAddress})
        BY <2>1, FixedReviews
      <3> HIDE DEF state
      <3> QED
        BY <1>5, <3>1 DEF Reveals
    <2>3. Reveals(ReviewList(content, permissions, hash), b, shown)
      BY <2>2 DEF ReviewList, b, t
    <2>4. b = Buffers(content, permissions, hash) /\ b.fromAddress = SenderText(content)
          /\ RecipientPrinted(content, b)
      BY <1>1 DEF b, FilledFor, RecipientPrinted
    <2> HIDE DEF shown
    <2> QED
      BY <2>3, <2>4, ScreenOfContract
  <1>7. /\ Screen(fields, {}) /\ b.toAddress \in values
        /\ b.amount \in values /\ b.amount2 \in values /\ b.fromAddress \in values
    <2> HIDE DEF fields, b
    <2> QED
      BY <1>6 DEF Screen
  <1> HIDE DEF fields, values, state
  <1>8. EssentialAddresses(k) \subseteq values
    BY <1>1, <1>7, OwnerDecoded DEF EssentialAddresses, FilledFor
  <1>9. /\ Unsigned(k.m.amount) \in Numbers(values)
        /\ k.type \in {"EXCHANGECREATECONTRACT", "EXCHANGETRANSACTIONCONTRACT"} =>
              Unsigned(k.m.amount2) \in Numbers(values)
        /\ k.type # "EXCHANGECREATECONTRACT" => Unsigned(k.m.id) \in Numbers(values)
    BY <1>1, <1>2, <1>7, AmountShown
  <1>10. EssentialNumbers(k) \subseteq Numbers(values)
    BY <1>9 DEF EssentialNumbers
  <1>11. Discloses(k, content.feeLimit, values, state, hash)
    BY <1>5, <1>8, <1>10 DEF Discloses
  <1> QED
    BY <1>7, <1>11 DEF Told, fields, values, state

\* The reviews of the contracts of the resources: the receiver and the amount.
LEMMA ResourceTold ==
    ASSUME NEW k, Sendable(k), NEW content, Decoded(content, k), NEW permissions, NEW hash,
           k.type \in ResourceTypes
    PROVE  Told(k, content, permissions, hash)
  <1> DEFINE b == Buffers(content, permissions, hash)
             p == content.parsed
             fields == ReviewFields(content, permissions, hash)
             values == ValuesOf(fields)
             t == content.contractType = "TRIGGERSMARTCONTRACT"
             Without == {"APPROVAL_WITHDRAWBALANCE_TRANSACTION",
                         "APPROVAL_WITHDRAWEXPIREUNFREEZE_TRANSACTION"}
             state == ApprovalState(content)
             shown == {b.fromAddress}
                \cup (IF state \in Without THEN {} ELSE {b.toAddress})
                \cup (IF state \in Without \cup {"APPROVAL_UNFREEZEASSET_TRANSACTION"}
                      THEN {} ELSE {b.amount})
  <1>0. content.contractType = k.type
    BY DEF Decoded
  <1>1. /\ FilledFor(b, content) /\ Recipient(content) = <<Receiver(content)>>
        /\ b.toAddress = Address(Receiver(content))
        /\ b.amount = Amount(p.amount[1], SUN_DIG)
    BY <1>0, ResourceFilled
  <1>2. /\ p.account = k.m.owner
        /\ k.type \in ReceivedTypes => p.destination = k.m.to
        /\ k.type \in PaidTypes => p.amount[1] = Unsigned(k.m.amount)
    BY ParsedMessage DEF Decoded
  <1>3. /\ Receiver(content) \in {k.m.owner, k.m.to}
        /\ k.type \in {"DELEGATERESOURCECONTRACT", "UNDELEGATERESOURCECONTRACT"} =>
              Receiver(content) = k.m.to
        /\ k.type \in {"FREEZEBALANCECONTRACT", "UNFREEZEBALANCECONTRACT"} /\ k.m.to # ZeroAddress =>
              Receiver(content) = k.m.to
    <2>1. CASE k.type \in {"DELEGATERESOURCECONTRACT", "UNDELEGATERESOURCECONTRACT"}
      BY <1>0, <1>2, <2>1 DEF Receiver, ReceivedTypes
    <2>2. CASE k.type \in {"FREEZEBALANCECONTRACT", "UNFREEZEBALANCECONTRACT"}
      BY <1>0, <1>2, <2>2 DEF Receiver, ReceivedTypes, FreezeReceiver
    <2>3. CASE k.type \notin {"DELEGATERESOURCECONTRACT", "UNDELEGATERESOURCECONTRACT",
                              "FREEZEBALANCECONTRACT", "UNFREEZEBALANCECONTRACT"}
      BY <1>0, <1>2, <2>3 DEF Receiver
    <2> QED
      BY <2>1, <2>2, <2>3
  <1>4. Receiver(content) \in DOMAIN ContactOf
    BY <1>3 DEF Sendable
  <1>5. /\ state = CASE k.type = "FREEZEBALANCECONTRACT" -> "APPROVAL_FREEZEASSET_TRANSACTION"
                     [] k.type = "UNFREEZEBALANCECONTRACT" -> "APPROVAL_UNFREEZEASSET_TRANSACTION"
                     [] k.type = "FREEZEBALANCEV2CONTRACT" -> "APPROVAL_FREEZEASSETV2_TRANSACTION"
                     [] k.type = "UNFREEZEBALANCEV2CONTRACT" ->
                            "APPROVAL_UNFREEZEASSETV2_TRANSACTION"
                     [] k.type = "DELEGATERESOURCECONTRACT" ->
                            "APPROVAL_DELEGATE_RESOURCE_TRANSACTION"
                     [] k.type = "UNDELEGATERESOURCECONTRACT" ->
                            "APPROVAL_UNDELEGATE_RESOURCE_TRANSACTION"
                     [] k.type = "WITHDRAWEXPIREUNFREEZECONTRACT" ->
                            "APPROVAL_WITHDRAWEXPIREUNFREEZE_TRANSACTION"
                     [] k.type = "WITHDRAWBALANCECONTRACT" -> "APPROVAL_WITHDRAWBALANCE_TRANSACTION"
    BY <1>0 DEF ApprovalState, IsCustomCall, ResourceTypes
  <1>s. \/ state \in Without
             /\ k.type \in {"WITHDRAWEXPIREUNFREEZECONTRACT", "WITHDRAWBALANCECONTRACT"}
        \/ state = "APPROVAL_UNFREEZEASSET_TRANSACTION" /\ k.type = "UNFREEZEBALANCECONTRACT"
        \/ /\ state \in {"APPROVAL_FREEZEASSET_TRANSACTION", "APPROVAL_FREEZEASSETV2_TRANSACTION",
                         "APPROVAL_UNFREEZEASSETV2_TRANSACTION",
                         "APPROVAL_DELEGATE_RESOURCE_TRANSACTION",
                         "APPROVAL_UNDELEGATE_RESOURCE_TRANSACTION"}
           /\ k.type \in PaidTypes
    <2> HIDE DEF state
    <2> QED
      BY <1>5 DEF ResourceTypes, PaidTypes
  <1>6. Screen(fields, shown)
    <2>1. Tagged(b)
      BY <1>1, FilledForTagged
    <2> HIDE DEF b, t
    <2>2. Reveals(FieldList(state, b, t), b, shown)
      <3>1. /\ Reveals(FieldList("APPROVAL_FREEZEASSET_TRANSACTION", b, t), b,
                       {b.fullContract, b.amount, b.toAddress, b.fromAddress})
            /\ Reveals(FieldList("APPROVAL_UNFREEZEASSET_TRANSACTION", b, t), b,
                       {b.fullContract, b.toAddress, b.fromAddress})
            /\ Reveals(FieldList("APPROVAL_FREEZEASSETV2_TRANSACTION", b, t), b,
                       {b.fullContract, b.amount, b.toAddress, b.fromAddress})
            /\ Reveals(FieldList("APPROVAL_UNFREEZEASSETV2_TRANSACTION", b, t), b,
                       {b.fullContract, b.amount, b.toAddress, b.fromAddress})
            /\ Reveals(FieldList("APPROVAL_DELEGATE_RESOURCE_TRANSACTION", b, t), b,
                       {b.fullContract, b.amount, b.amount2, b.toAddress, b.fromAddress})
            /\ Reveals(FieldList("APPROVAL_UNDELEGATE_RESOURCE_TRANSACTION", b, t), b,
                       {b.fullContract, b.amount, b.fromAddress, b.toAddress})
            /\ Reveals(FieldList("APPROVAL_WITHDRAWBALANCE_TRANSACTION", b, t), b, {b.fromAddress})
            /\ Reveals(FieldList("APPROVAL_WITHDRAWEXPIREUNFREEZE_TRANSACTION", b, t), b,
                       {b.fromAddress})
        BY <2>1, FixedReviews
      <3> HIDE DEF state
      <3>2. \A list, s1, s2 : Reveals(list, b, s1) /\ s2 \subseteq s1 => Reveals(list, b, s2)
        BY DEF Reveals
      <3>3. CASE state \in Without
        BY <3>1, <3>2, <3>3
      <3>4. CASE state = "APPROVAL_UNFREEZEASSET_TRANSACTION"
        BY <3>1, <3>2, <3>4
      <3>5. CASE state \in {"APPROVAL_FREEZEASSET_TRANSACTION", "APPROVAL_FREEZEASSETV2_TRANSACTION",
                            "APPROVAL_UNFREEZEASSETV2_TRANSACTION",
                            "APPROVAL_DELEGATE_RESOURCE_TRANSACTION",
                            "APPROVAL_UNDELEGATE_RESOURCE_TRANSACTION"}
        <4>1. shown = {b.fromAddress, b.toAddress, b.amount}
          BY <3>5
        <4> HIDE DEF shown
        <4> QED
          BY <3>1, <3>5, <4>1 DEF Reveals
      <3> QED
        BY <1>s, <3>3, <3>4, <3>5
    <2>3. Reveals(ReviewList(content, permissions, hash), b, shown)
      BY <2>2 DEF ReviewList, b, t
    <2>4. b = Buffers(content, permissions, hash) /\ b.fromAddress = SenderText(content)
          /\ RecipientPrinted(content, b)
      BY <1>1, <1>4 DEF b, FilledFor, RecipientPrinted
    <2> HIDE DEF shown
    <2> QED
      BY <2>3, <2>4, ScreenOfContract
  <1> HIDE DEF state
  <1>7. /\ Screen(fields, {}) /\ b.fromAddress \in values
        /\ state \notin Without => b.toAddress \in values
        /\ state \notin Without \cup {"APPROVAL_UNFREEZEASSET_TRANSACTION"} => b.amount \in values
    <2> HIDE DEF fields, b
    <2> QED
      BY <1>6 DEF Screen
  <1> HIDE DEF fields, values
  <1>8. EssentialAddresses(k) \subseteq values
    <2>1. CASE state \in Without
      BY <1>1, <1>s, <1>7, <2>1, OwnerDecoded DEF EssentialAddresses, FilledFor
    <2>2. CASE state \notin Without
      <3>1. b.toAddress \in values
        BY <1>7, <2>2
      <3>2. CASE k.type \in {"DELEGATERESOURCECONTRACT", "UNDELEGATERESOURCECONTRACT"}
        BY <1>1, <1>3, <1>7, <3>1, <3>2, OwnerDecoded DEF EssentialAddresses, FilledFor
      <3>3. CASE k.type \in {"FREEZEBALANCECONTRACT", "UNFREEZEBALANCECONTRACT"}
        BY <1>1, <1>3, <1>7, <3>1, <3>3, OwnerDecoded DEF EssentialAddresses, FilledFor
      <3>4. CASE k.type \notin {"DELEGATERESOURCECONTRACT", "UNDELEGATERESOURCECONTRACT",
                                "FREEZEBALANCECONTRACT", "UNFREEZEBALANCECONTRACT"}
        BY <1>1, <1>7, <3>4, OwnerDecoded DEF EssentialAddresses, FilledFor, ResourceTypes
      <3> QED
        BY <3>2, <3>3, <3>4
    <2> QED
      BY <2>1, <2>2
  <1>10. EssentialNumbers(k) \subseteq Numbers(values)
    <2>1. CASE k.type \in PaidTypes
      <3>1. EssentialNumbers(k) = {Unsigned(k.m.amount)}
        BY <2>1 DEF EssentialNumbers, ResourceTypes, PaidTypes
      <3>2. b.amount \in values /\ b.amount = Amount(Unsigned(k.m.amount), SUN_DIG)
        BY <1>1, <1>2, <1>s, <1>7, <2>1 DEF PaidTypes
      <3> QED
        BY <3>1, <3>2, AmountShown
    <2>2. CASE k.type \notin PaidTypes
      BY <2>2 DEF EssentialNumbers, ResourceTypes, PaidTypes
    <2> QED
      BY <2>1, <2>2
  <1>11. Discloses(k, content.feeLimit, values, state, hash)
    BY <1>s, <1>8, <1>10 DEF Discloses, ResourceTypes
  <1> QED
    BY <1>7, <1>11 DEF Told, fields, values, state

\* The review of a vote: every vote.
LEMMA VoteTold ==
    ASSUME NEW k, Sendable(k), NEW content, Decoded(content, k), NEW permissions, NEW hash,
           k.type = "VOTEWITNESSCONTRACT", Accepts(k.type, k.m)
    PROVE  Told(k, content, permissions, hash)
  <1> DEFINE b == Buffers(content, permissions, hash)
             fields == ReviewFields(content, permissions, hash)
             values == ValuesOf(fields)
             t == content.contractType = "TRIGGERSMARTCONTRACT"
             votes == {<<"vote", b.votes[j].address, VoteText(b.votes[j].count)>> :
                          j \in DOMAIN b.votes}
             shown == {b.fromAddress} \cup votes
  <1>0. content.contractType = k.type
    BY DEF Decoded
  <1>1. /\ Filled(b) /\ b.fromAddress = SenderText(content) /\ b.permissions = NoPermissions
        /\ b.votes = content.parsed.votes /\ Recipient(content) = <<>>
    BY <1>0, VoteFilled
  <1>2. content.parsed.votes = k.m.votes
    BY ParsedMessage DEF Decoded
  <1>3. Len(k.m.votes) <= MAX_VOTES /\ Listed(k.m.votes)
    BY DEF Accepts, Sendable
  <1>4. Tagged(b)
    <2> HIDE DEF b
    <2> QED
      BY <1>1, <1>2, <1>3, FilledIsTagged, NoneAreLists
  <1>5. ApprovalState(content) = "APPROVAL_WITNESSVOTE_TRANSACTION"
    BY <1>0 DEF ApprovalState, IsCustomCall
  <1>6. Screen(fields, shown)
    <2> HIDE DEF b, t
    <2>2. Reveals(FieldList("APPROVAL_WITNESSVOTE_TRANSACTION", b, t), b, shown)
      BY <1>4, VoteReview
    <2>3. Reveals(ReviewList(content, permissions, hash), b, shown)
      BY <1>5, <2>2 DEF ReviewList, b, t
    <2>4. b = Buffers(content, permissions, hash) /\ b.fromAddress = SenderText(content)
          /\ RecipientPrinted(content, b)
      BY <1>1 DEF b, RecipientPrinted
    <2> HIDE DEF shown
    <2> QED
      BY <2>3, <2>4, ScreenOfContract
  <1> HIDE DEF fields, b
  <1>7. Screen(fields, {}) /\ b.fromAddress \in values /\ votes \subseteq values
    BY <1>6 DEF Screen
  <1> HIDE DEF values
  <1>8. EssentialAddresses(k) \subseteq values
    BY <1>1, <1>7, OwnerDecoded DEF EssentialAddresses
  <1>9. EssentialNumbers(k) = {}
    BY DEF EssentialNumbers
  <1>10. ASSUME NEW j \in DOMAIN k.m.votes
         PROVE  <<"vote", k.m.votes[j].address, VoteText(k.m.votes[j].count)>> \in values
    BY <1>1, <1>2, <1>7
  <1>11. Discloses(k, content.feeLimit, values, ApprovalState(content), hash)
    BY <1>5, <1>8, <1>9, <1>10 DEF Discloses
  <1> QED
    BY <1>7, <1>11 DEF Told, fields, values

\* The review of a permission update: every permission, and no recipient.
LEMMA PermissionTold ==
    ASSUME NEW k, Sendable(k), NEW content, Decoded(content, k), NEW permissions, NEW hash,
           k.type = "ACCOUNTPERMISSIONUPDATECONTRACT", permissions = k.m.permissions
    PROVE  Told(k, content, permissions, hash)
  <1> DEFINE b == Buffers(content, permissions, hash)
             c == ResolveContacts(NoContacts, content)
             fields == ReviewFields(content, permissions, hash)
             values == ValuesOf(fields)
             t == content.contractType = "TRIGGERSMARTCONTRACT"
             granted == {f.value : f \in Range(PermissionUpdateFields(b.permissions))}
             shown == {b.fromAddress} \cup granted
             list == ReviewList(content, permissions, hash)
  <1>0. content.contractType = k.type
    BY DEF Decoded
  <1>1. /\ Filled(b) /\ b.fromAddress = SenderText(content) /\ b.permissions = permissions
        /\ b.votes = <<>> /\ Recipient(content) = <<>>
    BY <1>0, PermissionFilled
  <1>2. Tagged(b)
    <2>1. Listed(<<>>) /\ Len(<<>>) <= MAX_VOTES
      BY DEF Listed, MAX_VOTES
    <2>2. PermissionLists(b.permissions)
      BY <1>1 DEF Sendable
    <2> HIDE DEF b
    <2> QED
      BY <1>1, <2>1, <2>2, FilledIsTagged
  <1>3. ApprovalState(content) = "APPROVAL_PERMISSION_UPDATE"
    BY <1>0 DEF ApprovalState, IsCustomCall
  <1>4. Resolved(c, b)
    <2>1. content.parsed.account \in DOMAIN ContactOf
      BY OwnerDecoded DEF Sendable
    <2> HIDE DEF b
    <2> QED
      BY <1>1, <2>1, ContactsResolve
  <1>5. list = FieldList("APPROVAL_PERMISSION_UPDATE", b, t) /\ fields = Prepared(list, c)
    BY <1>3 DEF ReviewList, ReviewFields, prepareTxInfos, Prepared
  <1> HIDE DEF b, t, list, c, fields
  <1>6. /\ FieldsOf(list, b, MAX_TX_FIELDS)
        /\ \A f \in Range(list) : f.buf # "toAddress"
        /\ shown \subseteq Values(list)
    BY <1>2, <1>5, PermissionReview
  <1> HIDE DEF shown
  <1>7. Screen(fields, shown)
    BY <1>4, <1>5, <1>6, ScreenOf
  <1>8. Screen(fields, {}) /\ b.fromAddress \in values /\ granted \subseteq values
    BY <1>7 DEF Screen, shown
  <1> HIDE DEF values
  <1>9. EssentialAddresses(k) \subseteq values
    BY <1>1, <1>8, OwnerDecoded DEF EssentialAddresses
  <1>10. EssentialNumbers(k) = {}
    BY DEF EssentialNumbers
  <1>11. ASSUME NEW f \in Range(PermissionUpdateFields(k.m.permissions)) PROVE f.value \in values
    BY <1>1, <1>8
  <1>12. Discloses(k, content.feeLimit, values, ApprovalState(content), hash)
    BY <1>3, <1>9, <1>10, <1>11 DEF Discloses
  <1> QED
    BY <1>8, <1>12 DEF Told, fields, values

\* The review of any other contract: the hash that is signed.
LEMMA HashTold ==
    ASSUME NEW k, Sendable(k), NEW content, Decoded(content, k), NEW permissions, NEW hash,
           k.type \in HashedTypes
    PROVE  Told(k, content, permissions, hash)
  <1> DEFINE b == Buffers(content, permissions, hash)
             fields == ReviewFields(content, permissions, hash)
             values == ValuesOf(fields)
             t == content.contractType = "TRIGGERSMARTCONTRACT"
             shown == {b.hash, b.fromAddress}
  <1>0. content.contractType = k.type
    BY DEF Decoded
  <1>1. FilledFor(b, content) /\ b.hash = Hash(hash) /\ Recipient(content) = <<>>
    BY <1>0, HashFilled
  <1>2. Tagged(b)
    BY <1>1, FilledForTagged
  <1>3. ApprovalState(content) = "APPROVAL_SIMPLE_TRANSACTION"
    BY <1>0 DEF ApprovalState, IsCustomCall, HashedTypes, ResourceTypes, ParsedTypes
  <1>4. Screen(fields, shown)
    <2> HIDE DEF b, t
    <2>2. Reveals(FieldList("APPROVAL_SIMPLE_TRANSACTION", b, t), b, shown)
      BY <1>2, FixedReviews
    <2>3. Reveals(ReviewList(content, permissions, hash), b, shown)
      BY <1>3, <2>2 DEF ReviewList, b, t
    <2>4. b = Buffers(content, permissions, hash) /\ b.fromAddress = SenderText(content)
          /\ RecipientPrinted(content, b)
      BY <1>1 DEF b, RecipientPrinted, FilledFor
    <2> HIDE DEF shown
    <2> QED
      BY <2>3, <2>4, ScreenOfContract
  <1> HIDE DEF fields, b
  <1>5. Screen(fields, {}) /\ b.fromAddress \in values /\ b.hash \in values
    BY <1>4 DEF Screen
  <1> HIDE DEF values
  <1>6. EssentialAddresses(k) \subseteq values
    BY <1>1, <1>5, OwnerDecoded DEF EssentialAddresses, FilledFor, HashedTypes, ResourceTypes
  <1>7. EssentialNumbers(k) = {}
    BY DEF EssentialNumbers, HashedTypes, ResourceTypes
  <1>8. Discloses(k, content.feeLimit, values, ApprovalState(content), hash)
    BY <1>1, <1>5, <1>6, <1>7 DEF Discloses, HashedTypes
  <1> QED
    BY <1>5, <1>8 DEF Told, fields, values

\* Whatever the contract, its review tells what it does.
LEMMA ContractTold ==
    ASSUME NEW k, Sendable(k), k.type \in ParsedTypes, Accepts(k.type, k.m),
           NEW content, Decoded(content, k), NEW permissions, NEW hash, NEW allowed, NEW inSwap,
           k.type = "ACCOUNTPERMISSIONUPDATECONTRACT" =>
               permissions \in {NoPermissions, k.m.permissions},
           ReviewVerdict(content, permissions, allowed, inSwap) = Pass
    PROVE  Told(k, content, permissions, hash)
  <1>0. content.contractType = k.type
    BY DEF Decoded
  <1>1. CASE IsCustomCall(content)
    BY <1>1, CustomCallTold
  <1>2. CASE ~IsCustomCall(content)
             /\ k.type \in {"TRANSFERCONTRACT", "TRANSFERASSETCONTRACT", "TRIGGERSMARTCONTRACT"}
    BY <1>2, TransferTold
  <1>3. CASE k.type \in {"EXCHANGECREATECONTRACT", "EXCHANGEINJECTCONTRACT",
                         "EXCHANGEWITHDRAWCONTRACT", "EXCHANGETRANSACTIONCONTRACT"}
    BY <1>3, ExchangeTold
  <1>4. CASE k.type \in ResourceTypes
    BY <1>4, ResourceTold
  <1>5. CASE k.type = "VOTEWITNESSCONTRACT"
    BY <1>5, VoteTold
  <1>6. CASE k.type = "ACCOUNTPERMISSIONUPDATECONTRACT"
    <2>1. ContractVerdict(content, permissions, allowed) = Pass
      BY DEF ReviewVerdict, Pass, Refuse
    <2>2. permissions # NoPermissions
      BY <1>0, <1>6, <2>1 DEF ContractVerdict, IsCustomCall, Pass, Refuse
    <2> QED
      BY <1>6, <2>2, PermissionTold
  <1>7. CASE k.type \in HashedTypes
    BY <1>7, HashTold
  <1> QED
    BY <1>0, <1>1, <1>2, <1>3, <1>4, <1>5, <1>6, <1>7 DEF HashedTypes, IsCustomCall
=============================================================================
