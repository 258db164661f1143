-------------------------- MODULE AddressBookProofs --------------------------
(***************************************************************************)
(* Proofs about AddressBook for every set of addresses, accounts, names,   *)
(* scopes and groups, and a heap and contacts of any size.                 *)
(***************************************************************************)
EXTENDS AddressBook, SequenceTheorems, FiniteSetTheorems, InductionLemmas, TLAPS

-----------------------------------------------------------------------------
(* The list.                                                               *)

\* A nonempty set of positions has a first one, which is the one First picks.
LEMMA FirstOf ==
    ASSUME NEW is \in SUBSET Nat, is # {}
    PROVE  First(is) \in is /\ \A j \in is : First(is) <= j
  <1>1. \E i \in is : \A j \in is : i <= j
    BY LeastNatural
  <1> QED
    BY <1>1 DEF First

\* A function on the positions of a list is a list as long.
LEMMA SameLength ==
    ASSUME NEW S, NEW T, NEW list \in Seq(S), NEW f \in [DOMAIN list -> T]
    PROVE  f \in Seq(T) /\ Len(f) = Len(list)
  <1>1. Len(list) \in Nat /\ DOMAIN list = 1 .. Len(list)
    BY LenProperties
  <1> QED
    BY <1>1

\* A contact with one field changed.
With(c, field, value) == [c EXCEPT ![field] = value]

\* A list that differs from the present one in a field of some contacts with an address.
UpdatedBy(list, type, addr, field, value) ==
  /\ list \in Seq(Contacts) /\ DOMAIN list = DOMAIN g_ab_contact_list
  /\ Len(list) = Len(g_ab_contact_list)
  /\ \A i \in DOMAIN list :
       \/ list[i] = g_ab_contact_list[i]
       \/ /\ i \in Positions({type}, addr)
          /\ list[i] = With(g_ab_contact_list[i], field, value)

\* What UpdateFirst does to a list of contacts.
LEMMA UpdateFirstEffect ==
    ASSUME g_ab_contact_list \in Seq(Contacts),
           NEW type \in Types, NEW addr, NEW field, NEW value,
           \A c \in Contacts : With(c, field, value) \in Contacts
    PROVE  UpdatedBy(UpdateFirst(type, addr, field, value), type, addr, field, value)
  <1> DEFINE list == UpdateFirst(type, addr, field, value)
             found == Positions({type}, addr)
             first == First(found)
  <1>1. Len(g_ab_contact_list) \in Nat /\ DOMAIN g_ab_contact_list = 1 .. Len(g_ab_contact_list)
    BY LenProperties
  <1>2. CASE found = {}
    BY <1>2 DEF UpdateFirst, UpdatedBy
  <1>3. CASE found # {}
    <2>1. found \in SUBSET Nat /\ found \subseteq 1 .. Len(g_ab_contact_list)
      BY <1>1 DEF Positions
    <2>2. first \in found
      BY <1>3, <2>1, FirstOf
    <2>3. list = [g_ab_contact_list EXCEPT ![first] = With(g_ab_contact_list[first], field, value)]
      BY <1>3 DEF UpdateFirst, With
    <2> HIDE DEF found, first, list
    <2>4. g_ab_contact_list[first] \in Contacts
      BY <2>1, <2>2, ElementOfSeq
    <2>5. list \in Seq(Contacts) /\ Len(list) = Len(g_ab_contact_list)
          /\ \A j \in 1 .. Len(g_ab_contact_list) :
               list[j] = IF j = first THEN With(g_ab_contact_list[first], field, value)
                         ELSE g_ab_contact_list[j]
      BY <2>1, <2>2, <2>3, <2>4, ExceptSeq
    <2>6. DOMAIN list = DOMAIN g_ab_contact_list
      BY <2>5, <1>1, LenProperties
    <2> QED
      BY <1>1, <2>2, <2>5, <2>6 DEF found, list, UpdatedBy
  <1> QED
    BY <1>2, <1>3

\* update_contact_name renames identities and leaves the rest of the list alone.
LEMMA RenameEffect ==
    ASSUME g_ab_contact_list \in Seq(Contacts), NEW old, NEW new \in Names
    PROVE  LET list == update_contact_name(old, new)
           IN /\ list \in Seq(Contacts) /\ DOMAIN list = DOMAIN g_ab_contact_list
              /\ Len(list) = Len(g_ab_contact_list)
              /\ \A i \in DOMAIN list :
                   \/ list[i] = g_ab_contact_list[i]
                   \/ /\ g_ab_contact_list[i].type = "IDENTITY"
                      /\ g_ab_contact_list[i].contact_name = old
                      /\ list[i] = [g_ab_contact_list[i] EXCEPT !.contact_name = new]
  <1> DEFINE list == update_contact_name(old, new)
  <1>1. \A i \in DOMAIN g_ab_contact_list : g_ab_contact_list[i] \in Contacts
    BY LenProperties
  <1>2. \A c \in Contacts : [c EXCEPT !.contact_name = new] \in Contacts
    BY DEF Contacts
  <1>3. list \in [DOMAIN g_ab_contact_list -> Contacts]
    BY <1>1, <1>2 DEF update_contact_name
  <1>4. list \in Seq(Contacts) /\ Len(list) = Len(g_ab_contact_list)
    <2> HIDE DEF list
    <2> QED
      BY <1>3, SameLength
  <1> QED
    BY <1>3, <1>4 DEF update_contact_name

-----------------------------------------------------------------------------
(* The heap.                                                               *)

Contexts == [Slots -> Values]
Texts(c) == {s \in Slots : c[s] = "text"}

\* The buffers of a context are a finite set.
LEMMA LiveFinite ==
    ASSUME NEW c
    PROVE  /\ Live(c) \subseteq Slots /\ IsFiniteSet(Live(c)) /\ Cardinality(Live(c)) \in Nat
  <1>1. IsFiniteSet(Slots)
    <2>1. 1 \in Int /\ 4 \in Int
      OBVIOUS
    <2>2. IsFiniteSet(1 .. 4)
      BY <2>1, FS_Interval, Zenon
    <2> QED
      BY <2>2 DEF Slots
  <1>2. Live(c) \in SUBSET Slots
    BY DEF Live
  <1>3. IsFiniteSet(Live(c))
    BY <1>1, <1>2, FS_Subset
  <1> QED
    BY <1>2, <1>3, FS_CardinalityType

\* What the contacts of a list take, alone and with one more.
LEMMA ContactsTake ==
    ASSUME NEW n \in Nat
    PROVE  /\ ContactBlocks * n \in Nat
           /\ ContactBlocks * (n + 1) = ContactBlocks * n + ContactBlocks
  BY BookAssumption

\* What a list and a context take of the heap is a number.
LEMMA UsedIsNat ==
    ASSUME NEW list \in Seq(Contacts), NEW c
    PROVE  Used(list, c) \in Nat
  <1> DEFINE taken == ContactBlocks * Len(list)
  <1>1. taken \in Nat /\ Cardinality(Live(c)) \in Nat
    BY LenProperties, ContactsTake, LiveFinite
  <1>2. Used(list, c) = taken + Cardinality(Live(c))
    BY DEF Used
  <1> HIDE DEF taken
  <1> QED
    BY <1>1, <1>2

\* Fewer buffers take less of the heap, and one more takes one block.
LEMMA FewerUsed ==
    ASSUME NEW c, NEW d, Live(c) \subseteq Live(d), NEW list \in Seq(Contacts)
    PROVE  Used(list, c) <= Used(list, d)
  <1> DEFINE taken == ContactBlocks * Len(list)
  <1>1. Cardinality(Live(c)) <= Cardinality(Live(d))
    BY LiveFinite, FS_Subset
  <1>2. taken \in Nat /\ Cardinality(Live(c)) \in Nat /\ Cardinality(Live(d)) \in Nat
    BY LiveFinite, LenProperties, ContactsTake
  <1>3. Used(list, c) = taken + Cardinality(Live(c)) /\ Used(list, d) = taken + Cardinality(Live(d))
    BY DEF Used
  <1> HIDE DEF taken
  <1> QED
    BY <1>1, <1>2, <1>3

LEMMA OneMoreUsed ==
    ASSUME NEW c, NEW d, NEW s \in Slots, s \notin Live(c), Live(d) = Live(c) \cup {s},
           NEW list \in Seq(Contacts)
    PROVE  Used(list, d) = Used(list, c) + 1
  <1> DEFINE taken == ContactBlocks * Len(list)
  <1>1. Cardinality(Live(d)) = Cardinality(Live(c)) + 1
    BY LiveFinite, FS_AddElement
  <1>2. taken \in Nat /\ Cardinality(Live(c)) \in Nat
    BY LiveFinite, LenProperties, ContactsTake
  <1>3. Used(list, c) = taken + Cardinality(Live(c)) /\ Used(list, d) = taken + Cardinality(Live(d))
    BY DEF Used
  <1> HIDE DEF taken
  <1> QED
    BY <1>1, <1>2, <1>3

\* Giving slots back leaves the others as they are.
LEMMA FreedEffect ==
    ASSUME NEW c \in Contexts, NEW slots
    PROVE  /\ Freed(c, slots) \in Contexts
           /\ Live(Freed(c, slots)) = Live(c) \ slots
           /\ Texts(Freed(c, slots)) = Texts(c) \ slots
  BY DEF Freed, Contexts, Values, Live, Texts

\* An allocation takes one block, and only one that is left.
LEMMA AllocateEffect ==
    ASSUME NEW c \in Contexts, NEW s \in Slots, g_ab_contact_list \in Seq(Contacts),
           Used(g_ab_contact_list, c) <= HeapBlocks
    PROVE  LET d == APP_MEM_PERMANENT(c, s)
           IN /\ d \in Contexts
              /\ Allocated(c, s) => Live(d) = Live(c) \cup {s}
              /\ ~Allocated(c, s) => Live(d) = Live(c) \ {s}
              /\ Texts(d) = Texts(c) \ {s}
              /\ Used(g_ab_contact_list, d) <= HeapBlocks
  <1> DEFINE d == APP_MEM_PERMANENT(c, s)
             free == Freed(c, {s})
  <1>1. free \in Contexts /\ Live(free) = Live(c) \ {s} /\ Texts(free) = Texts(c) \ {s}
    BY FreedEffect
  <1>2. /\ Used(g_ab_contact_list, c) \in Nat /\ Used(g_ab_contact_list, free) \in Nat
        /\ HeapBlocks \in Nat
    BY UsedIsNat, BookAssumption
  <1>3. Used(g_ab_contact_list, free) <= HeapBlocks
    <2>1. Used(g_ab_contact_list, free) <= Used(g_ab_contact_list, c)
      BY <1>1, FewerUsed
    <2> HIDE DEF free
    <2> QED
      BY <1>2, <2>1
  <1>4. d = IF Room(g_ab_contact_list, free, 1) THEN [free EXCEPT ![s] = "live"] ELSE free
    BY DEF APP_MEM_PERMANENT
  <1>5. Allocated(c, s) <=> d[s] = "live"
    BY DEF Allocated
  <1>6. free[s] = "null"
    BY DEF Freed
  <1> HIDE DEF d, free
  <1>7. CASE Room(g_ab_contact_list, free, 1)
    <2>1. d = [free EXCEPT ![s] = "live"]
      BY <1>4, <1>7
    <2>2. d \in Contexts /\ d[s] = "live"
      BY <1>1, <2>1 DEF Contexts, Values
    <2>3. Live(d) = Live(free) \cup {s} /\ Texts(d) = Texts(free)
      BY <1>1, <1>6, <2>1 DEF Contexts, Live, Texts
    <2>4. Used(g_ab_contact_list, d) = Used(g_ab_contact_list, free) + 1
      BY <1>1, <2>3, OneMoreUsed
    <2>5. Used(g_ab_contact_list, d) <= HeapBlocks
      BY <1>7, <2>4 DEF Room
    <2>6. Live(d) = Live(c) \cup {s}
      BY <1>1, <2>3
    <2> QED
      BY <1>1, <1>5, <2>2, <2>3, <2>5, <2>6 DEF d
  <1>8. CASE ~Room(g_ab_contact_list, free, 1)
    <2>1. d = free
      BY <1>4, <1>8
    <2> QED
      BY <1>1, <1>3, <1>5, <1>6, <2>1 DEF d
  <1> QED
    BY <1>7, <1>8

\* What the review of an account leaves in the union: both of its texts or none.
UnionInv(c) == Texts(c) \in {{}, {old_identifier, new_identifier}}

\* Registering or editing an account allocates both of its buffers or neither.
LEMMA AccountEffect ==
    ASSUME ctx \in Contexts, Live(ctx) = {}, UnionInv(ctx), g_ab_contact_list \in Seq(Contacts),
           Used(g_ab_contact_list, ctx) <= HeapBlocks, NEW derived \in BOOLEAN
    PROVE  LET r == RegisterAccountCtx(derived)
           IN /\ r.ok \in BOOLEAN /\ r.c \in Contexts /\ Texts(r.c) = Texts(ctx)
              /\ Live(r.c) = IF r.ok THEN {ledger_account, address_display} ELSE {}
              /\ Used(g_ab_contact_list, r.c) <= HeapBlocks
  <1> DEFINE c1 == APP_MEM_PERMANENT(ctx, address_display)
             c2 == APP_MEM_PERMANENT(c1, ledger_account)
             a1 == Allocated(ctx, address_display)
             a2 == Allocated(c1, ledger_account)
             r == RegisterAccountCtx(derived)
             u(c) == Used(g_ab_contact_list, c) <= HeapBlocks
             t(c) == Texts(c) = Texts(ctx)
  <1>0. /\ address_display = 2 /\ ledger_account = 1 /\ 1 \in Slots /\ 2 \in Slots
        /\ Texts(ctx) \ {1} = Texts(ctx) /\ Texts(ctx) \ {2} = Texts(ctx)
    BY DEF address_display, ledger_account, Slots, UnionInv, old_identifier, new_identifier
  <1>1. /\ c1 \in Contexts /\ u(c1) /\ t(c1)
        /\ a1 => Live(c1) = {2}
        /\ ~a1 => Live(c1) = {}
    <2>1. /\ c1 \in Contexts /\ u(c1) /\ Texts(c1) = Texts(ctx) \ {2}
          /\ a1 => Live(c1) = Live(ctx) \cup {2}
          /\ ~a1 => Live(c1) = Live(ctx) \ {2}
      BY <1>0, AllocateEffect
    <2> HIDE DEF c1, a1
    <2> QED
      BY <1>0, <2>1
  <1>2. /\ c2 \in Contexts /\ u(c2) /\ t(c2)
        /\ a2 => Live(c2) = Live(c1) \cup {1}
        /\ ~a2 => Live(c2) = Live(c1) \ {1}
    BY <1>0, <1>1, AllocateEffect
  <1>3. ASSUME NEW c \in Contexts, u(c), t(c), Live(c) \subseteq {2}
        PROVE  /\ Freed(c, {2}) \in Contexts /\ Live(Freed(c, {2})) = {}
               /\ u(Freed(c, {2})) /\ t(Freed(c, {2}))
    <2>1. Freed(c, {2}) \in Contexts /\ Live(Freed(c, {2})) = {} /\ t(Freed(c, {2}))
      <3>1. /\ Freed(c, {2}) \in Contexts /\ Live(Freed(c, {2})) = Live(c) \ {2}
            /\ Texts(Freed(c, {2})) = Texts(c) \ {2}
        BY FreedEffect
      <3> QED
        BY <1>0, <1>3, <3>1
    <2>2. Used(g_ab_contact_list, Freed(c, {2})) <= Used(g_ab_contact_list, c)
      BY <2>1, FewerUsed
    <2>3. Used(g_ab_contact_list, Freed(c, {2})) \in Nat /\ Used(g_ab_contact_list, c) \in Nat
      BY UsedIsNat
    <2> QED
      BY <1>3, <2>1, <2>2, <2>3, BookAssumption
  <1>4. r = IF a1 /\ derived /\ a2 THEN [ok |-> TRUE, c |-> c2]
            ELSE [ok |-> FALSE, c |-> IF ~a1 THEN c1
                                      ELSE IF derived THEN Freed(c2, {2}) ELSE Freed(c1, {2})]
    BY <1>0 DEF RegisterAccountCtx
  <1> HIDE DEF c1, c2, a1, a2, u, t
  <1>5. CASE a1 /\ derived /\ a2
    <2> HIDE DEF r
    <2>1. r.ok = TRUE /\ r.c = c2
      BY <1>4, <1>5
    <2> QED
      BY <1>0, <1>1, <1>2, <1>5, <2>1 DEF r, u, t
  <1>6. CASE ~(a1 /\ derived /\ a2)
    <2>1. /\ Live(c1) \subseteq {2}
          /\ ~a2 => Live(c2) \subseteq {2}
      BY <1>1, <1>2
    <2>2. r.ok = FALSE /\ r.c \in Contexts /\ Live(r.c) = {} /\ u(r.c) /\ t(r.c)
      <3>1. CASE ~a1
        BY <1>1, <1>4, <3>1
      <3>2. CASE a1 /\ ~derived
        BY <1>1, <1>3, <1>4, <2>1, <3>2
      <3>3. CASE a1 /\ derived /\ ~a2
        BY <1>2, <1>3, <1>4, <2>1, <3>3
      <3> QED
        BY <1>6, <3>1, <3>2, <3>3
    <2> HIDE DEF r
    <2> QED
      BY <2>2 DEF r, u, t
  <1> QED
    BY <1>5, <1>6

\* What its review writes over the union is no buffer of it.
LEMMA AccountReviewEffect ==
    ASSUME NEW c \in Contexts, Live(c) = {ledger_account, address_display},
           NEW list \in Seq(Contacts)
    PROVE  LET d == display_register_ledger_account_review(c)
           IN d \in Contexts /\ Live(d) = Live(c) /\ UnionInv(d) /\ Used(list, d) = Used(list, c)
  <1> DEFINE d == display_register_ledger_account_review(c)
  <1>1. /\ address_display = 2 /\ ledger_account = 1 /\ old_identifier = 3 /\ new_identifier = 4
        /\ Slots = {1, 2, 3, 4}
    BY DEF address_display, ledger_account, old_identifier, new_identifier, Slots
  <1>2. d = [c EXCEPT ![3] = "text", ![4] = "text"]
    BY <1>1 DEF display_register_ledger_account_review
  <1> HIDE DEF d
  <1>3. d \in Contexts /\ c[1] = "live" /\ c[2] = "live"
    BY <1>1, <1>2 DEF Contexts, Values, Live
  <1>4. Live(d) = Live(c) /\ Texts(d) = {3, 4}
    BY <1>1, <1>2, <1>3 DEF Contexts, Live, Texts
  <1>5. Used(list, d) = Used(list, c)
    BY <1>4 DEF Used
  <1> QED
    BY <1>1, <1>3, <1>4, <1>5 DEF d, UnionInv

-----------------------------------------------------------------------------
(* The inductive invariant.  A request under review is well formed, and    *)
(* the buffers that are live are those its finalize function frees: the    *)
(* invariants of the runs say what is there, this one also what is not.    *)
(* What an account's review left in the union is where no account or       *)
(* identity gives anything back, and the name an edit of an identifier     *)
(* shows is a proved one of its group.                                     *)

Requests ==
  {None}
  \cup [op : {"register_identity"}, group : Groups, addr : Addresses, name : Names]
  \cup [op : {"edit_name"}, group : Groups, old : Names, name : Names]
  \cup [op : {"edit_scope"}, addr : Addresses, scope : Scopes]
  \cup [op : {"edit_identifier"}, group : Groups, old : Addresses, addr : Addresses, name : Names]
  \cup [op : {"register_account", "edit_account"}, addr : Accounts, name : Names]

\* The buffers a review of this kind has, and those it may have.
Needed(op) ==
  CASE op = "register_identity" -> {identity}
    [] op = "edit_identifier" -> Slots
    [] op \in {"register_account", "edit_account"} -> {ledger_account, address_display}
    [] OTHER -> {}
Allowed(op) == IF op = "register_identity" THEN {identity, identifier_display} ELSE Needed(op)

HeapInv(list, c, r) ==
  /\ Needed(r.op) \subseteq Live(c) /\ Live(c) \subseteq Allowed(r.op)
  /\ Used(list, c) <= HeapBlocks

LeftBehind(c) == (\E s \in Slots : c[s] = "stale") \/ c[old_identifier] = "text"

NameProved(r, p) == r.op = "edit_identifier" => << r.group, r.name >> \in p.names

BookInv ==
  /\ TypeOK /\ request \in Requests
  /\ HeapInv(g_ab_contact_list, ctx, request) /\ UnionInv(ctx)
  /\ heap = "undefined" => LeftBehind(ctx)
  /\ NameProved(request, proofs)

\* The invariant says what the runs check of the buffers.
LEMMA BuffersFromInv ==
    ASSUME BookInv
    PROVE  BuffersMatchReview
  <1>1. /\ Needed(request.op) \subseteq Live(ctx) /\ Live(ctx) \subseteq Allowed(request.op)
        /\ Used(g_ab_contact_list, ctx) <= HeapBlocks
    BY DEF BookInv, HeapInv
  <1>2. request = None => Live(ctx) = {}
    BY <1>1 DEF None, Allowed, Needed
  <1>3. \A s \in Needed(request.op) : ctx[s] = "live"
    BY <1>1 DEF Live
  <1>4. heap = "undefined" => LeftBehind(ctx)
    BY DEF BookInv
  <1> QED
    BY <1>1, <1>2, <1>3, <1>4 DEF BuffersMatchReview, Needed, LeftBehind

\* A step of a sound heap that changes neither the list nor the proofs.
LEMMA ReviewStep ==
    ASSUME BookInv, NEW r \in Requests, NEW c \in Contexts, Review(r, c), heap = "sound",
           HeapInv(g_ab_contact_list, c, r), UnionInv(c), NameProved(r, proofs)
    PROVE  BookInv'
  <1>1. UNCHANGED << g_ab_contact_list, heap, proofs >> /\ request' = r /\ ctx' = c
    BY DEF Review
  <1>2. TypeOK'
    BY <1>1 DEF BookInv, TypeOK, Contexts
  <1>3. UnionInv(ctx') /\ HeapInv(g_ab_contact_list', ctx', request') /\ NameProved(request', proofs')
    BY <1>1
  <1> QED
    BY <1>1, <1>2, <1>3 DEF BookInv, UnionInv, LeftBehind, Texts

\* What is no block was left behind by an account's review or a restart.
LEMMA CorruptStep ==
    ASSUME BookInv, NEW slots, slots = Slots \/ slots \subseteq {1, 2}, ~Blocks(ctx, slots), Corrupt
    PROVE  BookInv'
  <1>1. UNCHANGED << g_ab_contact_list, ctx, request, proofs >> /\ heap' = "undefined"
    BY DEF Corrupt
  <1>2. /\ Slots = {1, 2, 3, 4} /\ old_identifier = 3 /\ new_identifier = 4
        /\ ctx \in Contexts /\ UnionInv(ctx)
    BY DEF Slots, old_identifier, new_identifier, BookInv, TypeOK, Contexts
  <1>3. PICK s \in slots : ctx[s] \notin {"null", "live"}
    BY DEF Blocks
  <1>4. s \in Slots /\ ctx[s] \in {"stale", "text"}
    BY <1>2, <1>3 DEF Contexts, Values
  <1>5. ctx[s] = "text" => ctx[3] = "text"
    <2>1. ctx[s] = "text" => s \in Texts(ctx)
      BY <1>4 DEF Texts
    <2>2. Texts(ctx) \in {{}, {3, 4}}
      BY <1>2 DEF UnionInv
    <2>3. 3 \in Texts(ctx) => ctx[3] = "text"
      BY DEF Texts
    <2> QED
      BY <2>1, <2>2, <2>3
  <1>6. LeftBehind(ctx)
    BY <1>2, <1>4, <1>5 DEF LeftBehind
  <1>7. TypeOK'
    BY <1>1 DEF BookInv, TypeOK
  <1> QED
    BY <1>1, <1>6, <1>7 DEF BookInv, HeapInv, UnionInv, LeftBehind, NameProved, Texts, Live, Used

\* Between two requests no buffer is live.
LEMMA IdleHeap ==
    ASSUME BookInv, request = None
    PROVE  /\ ctx \in Contexts /\ Live(ctx) = {} /\ UnionInv(ctx)
           /\ g_ab_contact_list \in Seq(Contacts) /\ Used(g_ab_contact_list, ctx) <= HeapBlocks
  BY DEF BookInv, TypeOK, Contexts, HeapInv, None, Allowed, Needed

\* A refused request leaves no buffer.
LEMMA RefuseStep ==
    ASSUME BookInv, NEW c \in Contexts, Refuse(c), heap = "sound", Live(c) = {}, UnionInv(c),
           Used(g_ab_contact_list, c) <= HeapBlocks
    PROVE  BookInv'
  <1>1. HeapInv(g_ab_contact_list, c, None) /\ NameProved(None, proofs)
    BY DEF HeapInv, None, Needed, Allowed, NameProved
  <1>2. None \in Requests
    BY DEF Requests
  <1> QED
    BY <1>1, <1>2, ReviewStep DEF Refuse

\* handle_check_register_identity and the page it is reviewed on.
LEMMA RegisterIdentityStep ==
    ASSUME BookInv, NEW group \in Groups, NEW addr, NEW name \in Names,
           handle_check_register_identity(group, addr, name)
    PROVE  BookInv'
  <1> DEFINE d == APP_MEM_PERMANENT(ctx, identity)
             r == [op |-> "register_identity", group |-> group, addr |-> addr, name |-> name]
  <1>1. /\ ctx \in Contexts /\ g_ab_contact_list \in Seq(Contacts) /\ identity \in Slots
        /\ Used(g_ab_contact_list, ctx) <= HeapBlocks /\ Live(ctx) = {} /\ UnionInv(ctx)
        /\ identity = 1 /\ heap = "sound"
    BY IdleHeap DEF identity, Slots, handle_check_register_identity, Idle
  <1>2. /\ d \in Contexts /\ Used(g_ab_contact_list, d) <= HeapBlocks
        /\ Texts(d) = Texts(ctx) \ {1}
        /\ Allocated(ctx, identity) => Live(d) = {1}
        /\ ~Allocated(ctx, identity) => Live(d) = {}
    BY <1>1, AllocateEffect
  <1>3. UnionInv(d)
    BY <1>1, <1>2 DEF UnionInv, old_identifier, new_identifier
  <1>4. \/ Refuse(ctx)
        \/ Corrupt /\ ~Blocks(ctx, {1})
        \/ addr \in Addresses /\ Allocated(ctx, identity) /\ Review(r, d)
        \/ ~Allocated(ctx, identity) /\ Refuse(d)
    BY <1>1 DEF handle_check_register_identity, is_valid_tron_identifier
  <1> HIDE DEF d
  <1>5. CASE Refuse(ctx)
    BY <1>1, <1>5, RefuseStep
  <1>6. CASE Corrupt /\ ~Blocks(ctx, {1})
    BY <1>6, CorruptStep
  <1>7. CASE addr \in Addresses /\ Allocated(ctx, identity) /\ Review(r, d)
    <2>1. r \in Requests /\ NameProved(r, proofs)
      BY <1>7 DEF Requests, NameProved
    <2>2. HeapInv(g_ab_contact_list, d, r)
      BY <1>1, <1>2, <1>7 DEF HeapInv, Needed, Allowed
    <2> HIDE DEF r
    <2> QED
      BY <1>1, <1>2, <1>3, <1>7, <2>1, <2>2, ReviewStep
  <1>8. CASE ~Allocated(ctx, identity) /\ Refuse(d)
    BY <1>1, <1>2, <1>3, <1>8, RefuseStep
  <1> QED
    BY <1>4, <1>5, <1>6, <1>7, <1>8

\* The page of a registration takes the buffer of the identifier, or gives it back.
LEMMA RegisterPageStep ==
    ASSUME BookInv, get_register_identity_tagValue
    PROVE  BookInv'
  <1> DEFINE d == APP_MEM_PERMANENT(ctx, identifier_display)
  <1>1. /\ request.op = "register_identity" /\ Review(request, d) /\ heap = "sound"
        /\ identifier_display = 2 /\ 2 \in Slots /\ identity = 1
    BY DEF get_register_identity_tagValue, Review, identifier_display, Slots, identity
  <1>2. /\ ctx \in Contexts /\ g_ab_contact_list \in Seq(Contacts) /\ request \in Requests
        /\ Used(g_ab_contact_list, ctx) <= HeapBlocks /\ UnionInv(ctx)
        /\ {1} \subseteq Live(ctx) /\ Live(ctx) \subseteq {1, 2}
    BY <1>1 DEF BookInv, TypeOK, Contexts, HeapInv, Needed, Allowed
  <1>3. /\ d \in Contexts /\ Used(g_ab_contact_list, d) <= HeapBlocks
        /\ Texts(d) = Texts(ctx) \ {2}
        /\ Live(d) = Live(ctx) \cup {2} \/ Live(d) = Live(ctx) \ {2}
    BY <1>1, <1>2, AllocateEffect
  <1>4. {1} \subseteq Live(d) /\ Live(d) \subseteq {1, 2}
    BY <1>2, <1>3
  <1>5. UnionInv(d)
    BY <1>2, <1>3 DEF UnionInv, old_identifier, new_identifier
  <1> HIDE DEF d
  <1>6. HeapInv(g_ab_contact_list, d, request)
    BY <1>1, <1>3, <1>4 DEF HeapInv, Needed, Allowed
  <1>7. NameProved(request, proofs)
    BY DEF BookInv
  <1> QED
    BY <1>1, <1>2, <1>3, <1>5, <1>6, <1>7, ReviewStep

\* The edits the SDK reviews by itself.
LEMMA EditStep ==
    ASSUME BookInv, NEW r \in Requests, r.op \in {"edit_name", "edit_scope"}, EditNameOrScope(r)
    PROVE  BookInv'
  <1>1. request = None /\ heap = "sound" /\ Review(r, ctx)
    BY DEF EditNameOrScope, Idle
  <1>2. /\ ctx \in Contexts /\ Live(ctx) = {} /\ Used(g_ab_contact_list, ctx) <= HeapBlocks
        /\ UnionInv(ctx)
    BY <1>1, IdleHeap
  <1>3. HeapInv(g_ab_contact_list, ctx, r) /\ NameProved(r, proofs)
    BY <1>2 DEF HeapInv, Needed, Allowed, NameProved
  <1> QED
    BY <1>1, <1>2, <1>3, ReviewStep

\* handle_check_edit_identifier: all four strings or none.
LEMMA EditIdentifierStep ==
    ASSUME BookInv, NEW group \in Groups, NEW old, NEW new, NEW name \in Names,
           handle_check_edit_identifier(group, old, new, name)
    PROVE  BookInv'
  <1> DEFINE c1 == APP_MEM_PERMANENT(ctx, contact_name)
             c2 == APP_MEM_PERMANENT(c1, scope)
             c3 == APP_MEM_PERMANENT(c2, old_identifier)
             c4 == APP_MEM_PERMANENT(c3, new_identifier)
             all == /\ Allocated(ctx, contact_name) /\ Allocated(c1, scope)
                    /\ Allocated(c2, old_identifier) /\ Allocated(c3, new_identifier)
             r == [op |-> "edit_identifier", group |-> group, old |-> old, addr |-> new,
                   name |-> name]
             u(c) == Used(g_ab_contact_list, c) <= HeapBlocks
  <1>0. request = None /\ heap = "sound" /\ << group, name >> \in proofs.names
    BY DEF handle_check_edit_identifier, Idle, Named
  <1>1. /\ ctx \in Contexts /\ g_ab_contact_list \in Seq(Contacts) /\ Live(ctx) = {} /\ u(ctx)
        /\ UnionInv(ctx)
        /\ contact_name = 1 /\ scope = 2 /\ old_identifier = 3 /\ new_identifier = 4
        /\ Slots = {1, 2, 3, 4}
    BY <1>0, IdleHeap DEF contact_name, scope, old_identifier, new_identifier, Slots
  <1>2. c1 \in Contexts /\ u(c1) /\ (Allocated(ctx, contact_name) => Live(c1) = Live(ctx) \cup {1})
    BY <1>1, AllocateEffect
  <1>3. c2 \in Contexts /\ u(c2) /\ (Allocated(c1, scope) => Live(c2) = Live(c1) \cup {2})
    BY <1>1, <1>2, AllocateEffect
  <1>4. c3 \in Contexts /\ u(c3) /\ (Allocated(c2, old_identifier) => Live(c3) = Live(c2) \cup {3})
    BY <1>1, <1>3, AllocateEffect
  <1>5. c4 \in Contexts /\ u(c4) /\ (Allocated(c3, new_identifier) => Live(c4) = Live(c3) \cup {4})
    BY <1>1, <1>4, AllocateEffect
  <1>6. \/ Refuse(ctx)
        \/ Corrupt /\ ~Blocks(ctx, Slots)
        \/ old \in Addresses /\ new \in Addresses /\ all /\ Review(r, c4)
        \/ Refuse(Freed(ctx, Slots))
    BY DEF handle_check_edit_identifier, is_valid_tron_identifier
  <1>7. CASE Refuse(ctx)
    BY <1>0, <1>1, <1>7, RefuseStep
  <1>8. CASE Corrupt /\ ~Blocks(ctx, Slots)
    BY <1>8, CorruptStep
  <1>9. CASE old \in Addresses /\ new \in Addresses /\ all /\ Review(r, c4)
    <2>1. Live(c4) = Slots
      BY <1>1, <1>2, <1>3, <1>4, <1>5, <1>9
    <2>2. r \in Requests /\ NameProved(r, proofs)
      BY <1>0, <1>9 DEF Requests, NameProved
    <2>3. HeapInv(g_ab_contact_list, c4, r) /\ UnionInv(c4)
      BY <1>5, <2>1 DEF HeapInv, Needed, Allowed, UnionInv, Live, Texts
    <2> HIDE DEF r, c4
    <2> QED
      BY <1>0, <1>5, <1>9, <2>2, <2>3, ReviewStep
  <1>10. CASE Refuse(Freed(ctx, Slots))
    <2> DEFINE d == Freed(ctx, Slots)
    <2>1. d \in Contexts /\ Live(d) = {} /\ Texts(d) = {}
      BY <1>1, FreedEffect DEF Texts
    <2>2. Used(g_ab_contact_list, d) = Used(g_ab_contact_list, ctx)
      BY <1>1, <2>1 DEF Used
    <2> HIDE DEF d
    <2>3. UnionInv(d)
      BY <2>1 DEF UnionInv
    <2> QED
      BY <1>0, <1>1, <1>10, <2>1, <2>2, <2>3, RefuseStep DEF d
  <1> QED
    BY <1>6, <1>7, <1>8, <1>9, <1>10

\* The review of an account, registered or edited.
LEMMA AccountReviewStep ==
    ASSUME BookInv, heap = "sound", NEW c \in Contexts,
           Live(c) = {ledger_account, address_display}, Used(g_ab_contact_list, c) <= HeapBlocks,
           NEW q \in Requests, q.op \in {"register_account", "edit_account"},
           Review(q, display_register_ledger_account_review(c))
    PROVE  BookInv'
  <1> DEFINE d == display_register_ledger_account_review(c)
  <1>1. g_ab_contact_list \in Seq(Contacts)
    BY DEF BookInv, TypeOK
  <1>2. /\ d \in Contexts /\ Live(d) = {ledger_account, address_display} /\ UnionInv(d)
        /\ Used(g_ab_contact_list, d) <= HeapBlocks
    BY <1>1, AccountReviewEffect
  <1> HIDE DEF d
  <1>3. HeapInv(g_ab_contact_list, d, q) /\ NameProved(q, proofs)
    BY <1>2 DEF HeapInv, Needed, Allowed, NameProved
  <1> QED
    BY <1>2, <1>3, ReviewStep DEF d

\* handle_check_register_ledger_account.
LEMMA RegisterAccountStep ==
    ASSUME BookInv, NEW addr \in Accounts, NEW name \in Names, NEW derived \in BOOLEAN,
           handle_check_register_ledger_account(addr, name, derived)
    PROVE  BookInv'
  <1> DEFINE r == RegisterAccountCtx(derived)
             q == [op |-> "register_account", addr |-> addr, name |-> name]
             d == display_register_ledger_account_review(r.c)
  <1>1. request = None /\ heap = "sound"
    BY DEF handle_check_register_ledger_account, Idle
  <1>2. \/ Corrupt /\ ~AccountBlocks(derived)
        \/ r.ok /\ Review(q, d)
        \/ ~r.ok /\ Refuse(r.c)
    BY DEF handle_check_register_ledger_account
  <1>3. /\ r.ok \in BOOLEAN /\ r.c \in Contexts /\ Texts(r.c) = Texts(ctx) /\ UnionInv(ctx)
        /\ Live(r.c) = IF r.ok THEN {ledger_account, address_display} ELSE {}
        /\ Used(g_ab_contact_list, r.c) <= HeapBlocks
    BY <1>1, IdleHeap, AccountEffect
  <1>4. q \in Requests /\ q.op = "register_account"
    BY DEF Requests
  <1> HIDE DEF r, q
  <1>5. CASE Corrupt /\ ~AccountBlocks(derived)
    <2>1. \E slots \in {{1}, {2}} : ~Blocks(ctx, slots)
      BY <1>5 DEF AccountBlocks, address_display, ledger_account
    <2> QED
      BY <1>5, <2>1, CorruptStep
  <1>6. CASE r.ok /\ Review(q, d)
    BY <1>1, <1>3, <1>4, <1>6, AccountReviewStep
  <1>7. CASE ~r.ok /\ Refuse(r.c)
    BY <1>1, <1>3, <1>7, RefuseStep DEF UnionInv
  <1> QED
    BY <1>2, <1>5, <1>6, <1>7

\* handle_check_edit_ledger_account.
LEMMA EditAccountStep ==
    ASSUME BookInv, NEW addr \in Accounts, NEW name \in Names,
           NEW derived \in BOOLEAN, NEW again \in BOOLEAN,
           handle_check_edit_ledger_account(addr, name, derived, again)
    PROVE  BookInv'
  <1> DEFINE r == RegisterAccountCtx(derived)
             q == [op |-> "edit_account", addr |-> addr, name |-> name]
             d == display_register_ledger_account_review(r.c)
             freed == Freed(r.c, {address_display, ledger_account})
  <1>1. request = None /\ heap = "sound"
    BY DEF handle_check_edit_ledger_account, Idle
  <1>2. /\ ctx \in Contexts /\ g_ab_contact_list \in Seq(Contacts) /\ Live(ctx) = {}
        /\ Used(g_ab_contact_list, ctx) <= HeapBlocks /\ UnionInv(ctx)
    BY <1>1, IdleHeap
  <1>3. /\ r.ok \in BOOLEAN /\ r.c \in Contexts /\ Texts(r.c) = Texts(ctx)
        /\ Live(r.c) = IF r.ok THEN {ledger_account, address_display} ELSE {}
        /\ Used(g_ab_contact_list, r.c) <= HeapBlocks
    BY <1>2, AccountEffect
  <1>4. \/ Corrupt /\ ~AccountBlocks(derived)
        \/ r.ok /\ Review(q, d)
        \/ r.ok /\ Refuse(freed)
        \/ ~r.ok /\ Refuse(r.c)
    <2> HIDE DEF r
    <2>1. CASE ~AccountBlocks(derived) /\ Corrupt
      BY <2>1
    <2>2. CASE CASE r.ok /\ again -> Review(q, d)
                 [] r.ok /\ ~again -> Refuse(freed)
                 [] ~r.ok -> Refuse(r.c)
      BY <1>3, <2>2
    <2> QED
      BY <2>1, <2>2 DEF handle_check_edit_ledger_account, r
  <1>5. /\ freed \in Contexts /\ UnionInv(freed)
        /\ r.ok => Live(freed) = {} /\ Used(g_ab_contact_list, freed) <= HeapBlocks
    <2> HIDE DEF r
    <2>1. /\ freed \in Contexts /\ Live(freed) = Live(r.c) \ {address_display, ledger_account}
          /\ Texts(freed) = Texts(ctx) \ {address_display, ledger_account}
      BY <1>3, FreedEffect
    <2>2. r.ok => Live(freed) = {}
      BY <1>3, <2>1
    <2>3. r.ok => Used(g_ab_contact_list, freed) = Used(g_ab_contact_list, ctx)
      BY <1>2, <2>2 DEF Used
    <2>4. UnionInv(freed)
      BY <1>2, <2>1 DEF UnionInv, address_display, ledger_account, old_identifier, new_identifier
    <2> QED
      BY <1>2, <2>1, <2>2, <2>3, <2>4
  <1>6. q \in Requests /\ q.op = "edit_account"
    BY DEF Requests
  <1> HIDE DEF r, q, freed
  <1>7. CASE Corrupt /\ ~AccountBlocks(derived)
    <2>1. \E slots \in {{1}, {2}} : ~Blocks(ctx, slots)
      BY <1>7 DEF AccountBlocks, address_display, ledger_account
    <2> QED
      BY <1>7, <2>1, CorruptStep
  <1>8. CASE r.ok /\ Review(q, d)
    BY <1>1, <1>3, <1>6, <1>8, AccountReviewStep
  <1>9. CASE r.ok /\ Refuse(freed)
    BY <1>1, <1>5, <1>9, RefuseStep
  <1>10. CASE ~r.ok /\ Refuse(r.c)
    BY <1>1, <1>2, <1>3, <1>10, RefuseStep DEF UnionInv
  <1> QED
    BY <1>4, <1>7, <1>8, <1>9, <1>10

\* The finalize function of a request frees every buffer of its review.
LEMMA FinalizedHeap ==
    ASSUME BookInv
    PROVE  /\ Finalized \in Contexts /\ Live(Finalized) = {} /\ UnionInv(Finalized)
           /\ Used(g_ab_contact_list, Finalized) <= HeapBlocks
  <1>1. /\ ctx \in Contexts /\ g_ab_contact_list \in Seq(Contacts) /\ UnionInv(ctx)
        /\ Live(ctx) \subseteq Allowed(request.op) /\ Used(g_ab_contact_list, ctx) <= HeapBlocks
    BY DEF BookInv, TypeOK, Contexts, HeapInv
  <1>2. /\ Slots = {1, 2, 3, 4} /\ identity = 1 /\ identifier_display = 2
        /\ contact_name = 1 /\ scope = 2 /\ old_identifier = 3 /\ new_identifier = 4
        /\ ledger_account = 1 /\ address_display = 2
    BY DEF Slots, identity, identifier_display, contact_name, scope, old_identifier,
           new_identifier, ledger_account, address_display
  <1>3. Texts(ctx) \in {{}, {3, 4}}
    BY <1>1, <1>2 DEF UnionInv
  <1>4. Finalized \in Contexts /\ Live(Finalized) = {} /\ Texts(Finalized) \in {{}, {3, 4}}
    <2>1. CASE request.op \in {"register_identity", "register_account", "edit_account"}
      <3>1. Finalized = Freed(ctx, {2, 1}) /\ Live(ctx) \subseteq {1, 2}
        BY <1>1, <1>2, <2>1 DEF Finalized, Allowed, Needed
      <3>2. Texts(ctx) \ {2, 1} = Texts(ctx)
        BY <1>3
      <3> QED
        BY <1>1, <1>3, <3>1, <3>2, FreedEffect
    <2>2. CASE request.op = "edit_identifier"
      <3>1. Finalized = Freed(ctx, {1, 2, 3, 4}) /\ Live(ctx) \subseteq {1, 2, 3, 4}
        BY <1>1, <1>2, <2>2 DEF Finalized, Allowed, Needed
      <3>2. Texts(ctx) \ {1, 2, 3, 4} = {}
        BY <1>3
      <3> QED
        BY <1>1, <3>1, <3>2, FreedEffect
    <2>3. CASE request.op \notin {"register_identity", "edit_identifier", "register_account",
                                 "edit_account"}
      BY <1>1, <1>3, <2>3 DEF Finalized, Allowed, Needed
    <2> QED
      BY <2>1, <2>2, <2>3
  <1>5. Used(g_ab_contact_list, Finalized) <= Used(g_ab_contact_list, ctx)
    BY <1>1, <1>4, FewerUsed
  <1>6. Used(g_ab_contact_list, Finalized) \in Nat /\ Used(g_ab_contact_list, ctx) \in Nat
        /\ HeapBlocks \in Nat
    BY <1>1, UsedIsNat, BookAssumption
  <1> QED
    BY <1>1, <1>2, <1>4, <1>5, <1>6 DEF UnionInv

\* The three edits that change the first contact with an address.
LEMMA AppliedUpdate ==
    ASSUME BookInv
    PROVE  /\ request.op = "edit_identifier" =>
                UpdatedBy(Applied(request), "IDENTITY", request.old, "identifier", request.addr)
           /\ request.op = "edit_scope" =>
                UpdatedBy(Applied(request), "IDENTITY", request.addr, "scope", request.scope)
           /\ request.op = "edit_account" =>
                UpdatedBy(Applied(request), "LEDGER_ACCOUNT", request.addr, "contact_name",
                          request.name)
  <1>1. /\ g_ab_contact_list \in Seq(Contacts) /\ request \in Requests
        /\ "IDENTITY" \in Types /\ "LEDGER_ACCOUNT" \in Types
    BY DEF BookInv, TypeOK, Types
  <1>2. CASE request.op = "edit_identifier"
    <2>1. request.addr \in Addresses
      BY <1>1, <1>2 DEF Requests, None
    <2>2. \A c \in Contacts : With(c, "identifier", request.addr) \in Contacts
      BY <2>1 DEF Contacts, With
    <2>3. UpdatedBy(UpdateFirst("IDENTITY", request.old, "identifier", request.addr),
                    "IDENTITY", request.old, "identifier", request.addr)
      BY <1>1, <2>2, UpdateFirstEffect, Zenon
    <2> QED
      BY <1>2, <2>3 DEF Applied, update_contact_identifier
  <1>3. CASE request.op = "edit_scope"
    <2>1. request.scope \in Scopes
      BY <1>1, <1>3 DEF Requests, None
    <2>2. \A c \in Contacts : With(c, "scope", request.scope) \in Contacts
      BY <2>1 DEF Contacts, With
    <2>3. UpdatedBy(UpdateFirst("IDENTITY", request.addr, "scope", request.scope),
                    "IDENTITY", request.addr, "scope", request.scope)
      BY <1>1, <2>2, UpdateFirstEffect, Zenon
    <2> QED
      BY <1>3, <2>3 DEF Applied, update_contact_scope
  <1>4. CASE request.op = "edit_account"
    <2>1. request.name \in Names
      BY <1>1, <1>4 DEF Requests, None
    <2>2. \A c \in Contacts : With(c, "contact_name", request.name) \in Contacts
      BY <2>1 DEF Contacts, With
    <2>3. UpdatedBy(UpdateFirst("LEDGER_ACCOUNT", request.addr, "contact_name", request.name),
                    "LEDGER_ACCOUNT", request.addr, "contact_name", request.name)
      BY <1>1, <2>2, UpdateFirstEffect, Zenon
    <2> QED
      BY <1>4, <2>3 DEF Applied, update_ledger_account_contact_name
  <1> QED
    BY <1>2, <1>3, <1>4

\* What a confirmed request makes of the list is a list of contacts as long.
LEMMA ConfirmList ==
    ASSUME BookInv, Confirm
    PROVE  /\ g_ab_contact_list' \in Seq(Contacts)
           /\ Len(g_ab_contact_list') = Len(g_ab_contact_list)
  <1>1. /\ g_ab_contact_list \in Seq(Contacts) /\ request \in Requests
        /\ g_ab_contact_list' = Applied(request)
    BY DEF Confirm, BookInv, TypeOK
  <1>2. CASE request.op = "edit_name"
    <2>1. request.name \in Names
      BY <1>1, <1>2 DEF Requests, None
    <2>2. g_ab_contact_list' = update_contact_name(request.old, request.name)
      BY <1>1, <1>2 DEF Applied
    <2> QED
      BY <1>1, <2>1, <2>2, RenameEffect
  <1>3. CASE request.op \in {"edit_identifier", "edit_scope", "edit_account"}
    BY <1>1, <1>3, AppliedUpdate DEF UpdatedBy
  <1>4. CASE request.op \notin {"edit_name", "edit_identifier", "edit_scope", "edit_account"}
    BY <1>1, <1>4 DEF Applied
  <1> QED
    BY <1>2, <1>3, <1>4

\* The proofs are of names and addresses, and are never taken back.
ProofsTyped(p) ==
  /\ p.names \subseteq Groups \X Names
  /\ p.identifiers \subseteq Groups \X Addresses /\ p.accounts \subseteq Names
ProofsGrow ==
  /\ proofs.names \subseteq proofs'.names
  /\ proofs.identifiers \subseteq proofs'.identifiers /\ proofs.accounts \subseteq proofs'.accounts

\* What a confirmation proves.
LEMMA ConfirmProofs ==
    ASSUME BookInv, Confirm
    PROVE  /\ ProofsTyped(proofs') /\ ProofsGrow
           /\ request.op = "edit_name" =>
                << request.group, request.name >> \in proofs'.names
           /\ request.op = "edit_identifier" =>
                << request.group, request.addr >> \in proofs'.identifiers
           /\ request.op = "edit_account" => request.name \in proofs'.accounts
           /\ request.op = "edit_scope" => proofs' = proofs
  <1>1. ProofsTyped(proofs) /\ request \in Requests /\ request # None
    BY DEF BookInv, TypeOK, ProofsTyped, Confirm
  <1>2. CASE request.op = "register_identity"
    <2>1. /\ request.group \in Groups /\ request.name \in Names /\ request.addr \in Addresses
      BY <1>1, <1>2 DEF Requests, None
    <2>2. Grant({<< request.group, request.name >>}, {<< request.group, request.addr >>}, {})
      BY <1>2 DEF Confirm
    <2> QED
      BY <1>1, <1>2, <2>1, <2>2 DEF Grant, ProofsTyped, ProofsGrow
  <1>3. CASE request.op = "edit_name"
    <2>1. request.group \in Groups /\ request.name \in Names
      BY <1>1, <1>3 DEF Requests, None
    <2>2. Grant({<< request.group, request.name >>}, {}, {})
      BY <1>3 DEF Confirm
    <2> QED
      BY <1>1, <1>3, <2>1, <2>2 DEF Grant, ProofsTyped, ProofsGrow
  <1>4. CASE request.op = "edit_identifier"
    <2>1. request.group \in Groups /\ request.addr \in Addresses
      BY <1>1, <1>4 DEF Requests, None
    <2>2. Grant({}, {<< request.group, request.addr >>}, {})
      BY <1>4 DEF Confirm
    <2> QED
      BY <1>1, <1>4, <2>1, <2>2 DEF Grant, ProofsTyped, ProofsGrow
  <1>5. CASE request.op \in {"register_account", "edit_account"}
    <2>1. request.name \in Names
      BY <1>1, <1>5 DEF Requests, None
    <2>2. Grant({}, {}, {request.name})
      BY <1>5 DEF Confirm
    <2> QED
      BY <1>1, <1>5, <2>1, <2>2 DEF Grant, ProofsTyped, ProofsGrow
  <1>6. CASE request.op = "edit_scope"
    <2>1. proofs' = proofs
      BY <1>6 DEF Confirm
    <2> QED
      BY <1>1, <1>6, <2>1 DEF ProofsTyped, ProofsGrow
  <1>7. request.op \in {"register_identity", "edit_name", "edit_identifier", "register_account",
                        "edit_account", "edit_scope"}
    BY <1>1 DEF Requests, None
  <1> QED
    BY <1>2, <1>3, <1>4, <1>5, <1>6, <1>7

\* The end of a review.
LEMMA EndStep ==
    ASSUME BookInv, Confirm \/ Cancel
    PROVE  BookInv'
  <1>1. ctx' = Finalized /\ request' = None /\ None \in Requests /\ heap' = heap /\ heap = "sound"
    BY DEF Confirm, Cancel, Requests
  <1>2. /\ ctx' \in Contexts /\ Live(ctx') = {} /\ Used(g_ab_contact_list, ctx') <= HeapBlocks
        /\ UnionInv(ctx')
    BY <1>1, FinalizedHeap
  <1>3. /\ g_ab_contact_list' \in Seq(Contacts)
        /\ Len(g_ab_contact_list') = Len(g_ab_contact_list)
        /\ ProofsTyped(proofs')
    <2>1. CASE Confirm
      BY <2>1, ConfirmList, ConfirmProofs
    <2>2. CASE Cancel
      <3>1. UNCHANGED << g_ab_contact_list, proofs >>
        BY <2>2 DEF Cancel
      <3> QED
        BY <3>1 DEF BookInv, TypeOK, ProofsTyped
    <2> QED
      BY <2>1, <2>2
  <1>4. TypeOK'
    BY <1>1, <1>2, <1>3 DEF TypeOK, Contexts, ProofsTyped
  <1>5. HeapInv(g_ab_contact_list', ctx', request')
    BY <1>1, <1>2, <1>3 DEF HeapInv, Used, None, Needed, Allowed
  <1>6. NameProved(request', proofs') /\ heap' # "undefined"
    BY <1>1 DEF NameProved, None
  <1> QED
    BY <1>1, <1>2, <1>4, <1>5, <1>6 DEF BookInv, UnionInv, Texts

\* What the list is after a contact was provided.
LEMMA PushList ==
    ASSUME g_ab_contact_list \in Seq(Contacts), NEW node \in Contacts, Push(node)
    PROVE  /\ g_ab_contact_list' \in Seq(Contacts)
           /\ \A i \in DOMAIN g_ab_contact_list' :
                \/ i \in DOMAIN g_ab_contact_list /\ g_ab_contact_list'[i] = g_ab_contact_list[i]
                \/ g_ab_contact_list'[i] = node
           /\ \/ g_ab_contact_list' = g_ab_contact_list
              \/ /\ Len(g_ab_contact_list') = Len(g_ab_contact_list) + 1
                 /\ Room(g_ab_contact_list, ctx, ContactBlocks)
  <1> DEFINE list == g_ab_contact_list
  <1>1. CASE Room(list, ctx, ContactBlocks)
    <2>1. g_ab_contact_list' = Append(list, node)
      BY <1>1 DEF Push, ab_contact_list_push
    <2>2. /\ Append(list, node) \in Seq(Contacts) /\ Len(Append(list, node)) = Len(list) + 1
          /\ \A i \in 1 .. Len(list) : Append(list, node)[i] = list[i]
          /\ Append(list, node)[Len(list) + 1] = node
      BY AppendProperties
    <2>3. /\ DOMAIN Append(list, node) = 1 .. Len(list) + 1
          /\ DOMAIN list = 1 .. Len(list) /\ Len(list) \in Nat
      BY <2>2, LenProperties
    <2>4. \A i \in 1 .. Len(list) + 1 : i \in 1 .. Len(list) \/ i = Len(list) + 1
      BY <2>3
    <2> QED
      BY <1>1, <2>1, <2>2, <2>3, <2>4
  <1>2. CASE ~Room(list, ctx, ContactBlocks)
    BY <1>2 DEF Push
  <1> QED
    BY <1>1, <1>2

\* A contact is provided.
LEMMA PushStep ==
    ASSUME BookInv, NEW node \in Contacts, Push(node)
    PROVE  BookInv'
  <1> DEFINE list == g_ab_contact_list
             new == g_ab_contact_list'
  <1>1. /\ list \in Seq(Contacts) /\ ctx \in Contexts /\ HeapInv(list, ctx, request)
    BY DEF BookInv, TypeOK, Contexts
  <1>2. UNCHANGED << ctx, request, heap, proofs >>
    BY DEF Push
  <1>3. new \in Seq(Contacts) /\ Used(new, ctx) <= HeapBlocks
    <2>1. /\ new \in Seq(Contacts)
          /\ new = list \/ (Len(new) = Len(list) + 1 /\ Room(list, ctx, ContactBlocks))
      BY <1>1, PushList
    <2>2. Len(list) \in Nat /\ Cardinality(Live(ctx)) \in Nat /\ HeapBlocks \in Nat
          /\ ContactBlocks \in Nat
      BY <1>1, LenProperties, LiveFinite, BookAssumption
    <2>3. CASE new = list
      BY <1>1, <2>1, <2>3 DEF HeapInv
    <2>4. CASE Len(new) = Len(list) + 1 /\ Room(list, ctx, ContactBlocks)
      <3> DEFINE taken == ContactBlocks * Len(list)
      <3>1. taken \in Nat /\ ContactBlocks * Len(new) = taken + ContactBlocks
        BY <2>2, <2>4, ContactsTake
      <3>2. taken + Cardinality(Live(ctx)) + ContactBlocks <= HeapBlocks
        BY <2>4 DEF Room, Used
      <3>3. Used(new, ctx) = taken + ContactBlocks + Cardinality(Live(ctx))
        BY <3>1 DEF Used
      <3> HIDE DEF taken, list, new
      <3> QED
        BY <2>1, <2>2, <3>1, <3>2, <3>3
    <2> QED
      BY <2>1, <2>3, <2>4
  <1>4. TypeOK'
    BY <1>2, <1>3 DEF BookInv, TypeOK, Contexts
  <1>5. HeapInv(g_ab_contact_list', ctx', request')
    BY <1>1, <1>2, <1>3 DEF HeapInv
  <1> QED
    BY <1>2, <1>4, <1>5 DEF BookInv, UnionInv, LeftBehind, NameProved, Texts

\* The two ways a contact is provided.
LEMMA ProvideIdentity ==
    ASSUME NEW addr \in Addresses, NEW name \in Names, NEW sc \in Scopes,
           handle_provide_identity(addr, name, sc)
    PROVE  \E node \in Contacts : Push(node)
  <1>1. Contact("IDENTITY", name, sc, addr) \in Contacts
    BY DEF Contact, Contacts, Types
  <1> QED
    BY <1>1 DEF handle_provide_identity

LEMMA ProvideAccount ==
    ASSUME NEW addr \in Accounts, NEW name \in Names, handle_provide_ledger_account(addr, name)
    PROVE  \E node \in Contacts : Push(node)
  <1>1. Contact("LEDGER_ACCOUNT", name, "", addr) \in Contacts
    BY BookAssumption DEF Contact, Contacts, Types
  <1> QED
    BY <1>1 DEF handle_provide_ledger_account

\* A restart empties the list, with no buffer live in the new heap; so does a new
\* start of the application, which clears the contexts too.
LEMMA RestartStep ==
    ASSUME BookInv, Restart \/ Relaunch
    PROVE  BookInv'
  <1>1. /\ g_ab_contact_list' = << >> /\ request' = None /\ proofs' = proofs /\ heap' = "sound"
        /\ \/ ctx' = [s \in Slots |-> IF ctx[s] = "live" THEN "stale" ELSE ctx[s]]
           \/ ctx' = [s \in Slots |-> "null"]
    BY DEF Restart, Relaunch
  <1>2. ctx \in Contexts /\ UnionInv(ctx)
    BY DEF BookInv, TypeOK, Contexts
  <1>3. ctx' \in Contexts /\ Live(ctx') = {} /\ Texts(ctx') \in {{}, Texts(ctx)}
    <2>1. CASE ctx' = [s \in Slots |-> IF ctx[s] = "live" THEN "stale" ELSE ctx[s]]
      BY <1>2, <2>1 DEF Contexts, Values, Live, Texts
    <2>2. CASE ctx' = [s \in Slots |-> "null"]
      BY <2>2 DEF Contexts, Values, Live, Texts
    <2> QED
      BY <1>1, <2>1, <2>2
  <1>4. Used(<< >>, ctx') <= HeapBlocks
    <2>1. Cardinality(Live(ctx')) = 0
      BY <1>3, FS_EmptySet
    <2>2. Len(<< >>) = 0 /\ ContactBlocks * 0 = 0
      BY BookAssumption
    <2> QED
      BY <2>1, <2>2, BookAssumption DEF Used
  <1>5. HeapInv(g_ab_contact_list', ctx', request') /\ NameProved(request', proofs')
    BY <1>1, <1>3, <1>4 DEF HeapInv, None, Needed, Allowed, NameProved
  <1>6. TypeOK'
    BY <1>1, <1>3 DEF BookInv, TypeOK, Contexts
  <1>7. UnionInv(ctx')
    BY <1>2, <1>3 DEF UnionInv
  <1> QED
    BY <1>1, <1>5, <1>6, <1>7 DEF BookInv, Requests, UnionInv, Texts

\* Every step keeps the invariant.
LEMMA NextBook ==
    ASSUME BookInv, [Next]_vars
    PROVE  BookInv'
  <1>1. CASE UNCHANGED vars
    <2>1. UNCHANGED << g_ab_contact_list, ctx, request, heap, proofs >>
      BY <1>1 DEF vars
    <2>2. TypeOK'
      BY <2>1 DEF BookInv, TypeOK
    <2> QED
      BY <2>1, <2>2 DEF BookInv, HeapInv, UnionInv, LeftBehind, NameProved, Used, Live, Texts
  <1>2. ASSUME NEW group \in Groups, NEW old \in Names, NEW new \in Names,
               EditNameOrScope([op |-> "edit_name", group |-> group, old |-> old, name |-> new])
        PROVE  BookInv'
    <2> DEFINE r == [op |-> "edit_name", group |-> group, old |-> old, name |-> new]
    <2>1. r \in Requests /\ r.op \in {"edit_name", "edit_scope"}
      BY DEF Requests
    <2> HIDE DEF r
    <2> QED
      BY <1>2, <2>1, EditStep DEF r
  <1>3. ASSUME NEW addr \in Addresses, NEW sc \in Scopes,
               EditNameOrScope([op |-> "edit_scope", addr |-> addr, scope |-> sc])
        PROVE  BookInv'
    <2> DEFINE r == [op |-> "edit_scope", addr |-> addr, scope |-> sc]
    <2>1. r \in Requests /\ r.op \in {"edit_name", "edit_scope"}
      BY DEF Requests
    <2> HIDE DEF r
    <2> QED
      BY <1>3, <2>1, EditStep DEF r
  <1> QED
    BY <1>1, <1>2, <1>3, RegisterIdentityStep, RegisterPageStep, EditIdentifierStep,
       RegisterAccountStep, EditAccountStep, EndStep, ProvideIdentity, ProvideAccount, PushStep,
       RestartStep
       DEF Next

\* The empty book satisfies it.
LEMMA InitBook ==
    ASSUME Init
    PROVE  BookInv
  <1>1. /\ ctx \in Contexts /\ Live(ctx) = {} /\ Texts(ctx) = {}
        /\ g_ab_contact_list = << >> /\ request = None /\ heap = "sound"
        /\ ProofsTyped(proofs)
    BY DEF Init, Contexts, Values, Live, Texts, ProofsTyped
  <1>2. HeapInv(g_ab_contact_list, ctx, request)
    <2>1. Cardinality(Live(ctx)) = 0 /\ Len(g_ab_contact_list) = 0 /\ ContactBlocks * 0 = 0
      BY <1>1, FS_EmptySet, BookAssumption
    <2> QED
      BY <1>1, <2>1, BookAssumption DEF HeapInv, Used, None, Needed, Allowed
  <1>3. UnionInv(ctx) /\ NameProved(request, proofs)
    BY <1>1 DEF UnionInv, NameProved, None
  <1> QED
    BY <1>1, <1>2, <1>3 DEF BookInv, TypeOK, Contexts, ProofsTyped, Requests

(* Type correctness: every contact of the list has a mainnet address and a *)
(* name, whatever is registered, edited, provided and restarted.           *)
THEOREM BookTypeCorrect == Spec => []TypeOK
  <1>1. BookInv => TypeOK
    BY DEF BookInv
  <1> QED
    BY <1>1, InitBook, NextBook, PTL DEF Spec

(* The buffers on the heap are those of the review under way, for a heap   *)
(* of any size: no refusal, cancellation or confirmation leaks one, and    *)
(* no page reads one that was not allocated; what is no block is given     *)
(* back only after a restart or the review of an account.                  *)
THEOREM BuffersAlwaysMatch == Spec => []BuffersMatchReview
  <1>1. BookInv => BuffersMatchReview
    BY BuffersFromInv
  <1> QED
    BY <1>1, InitBook, NextBook, PTL DEF Spec

-----------------------------------------------------------------------------
(* What a step may do to the list.                                         *)

Edits == {"edit_name", "edit_identifier", "edit_scope", "edit_account"}

\* Only the end of an edit, a provided contact and a restart change the list.
LEMMA ListChange ==
    ASSUME BookInv, [Next]_vars
    PROVE  \/ UNCHANGED g_ab_contact_list
           \/ g_ab_contact_list' = << >>
           \/ Confirm /\ request.op \in Edits
           \/ \E addr \in Addresses, name \in Names, sc \in Scopes :
                handle_provide_identity(addr, name, sc)
           \/ \E addr \in Accounts, name \in Names : handle_provide_ledger_account(addr, name)
  <1>1. CASE Confirm
    <2>1. request \in Requests /\ request # None /\ g_ab_contact_list' = Applied(request)
      BY <1>1 DEF Confirm, BookInv
    <2> QED
      BY <1>1, <2>1 DEF Requests, Applied, Edits
  <1>2. CASE UNCHANGED vars \/ Cancel \/ Restart \/ Relaunch
    BY <1>2 DEF vars, Cancel, Restart, Relaunch
  <1>3. ASSUME NEW group, NEW addr, NEW name, handle_check_register_identity(group, addr, name)
        PROVE  UNCHANGED g_ab_contact_list
    BY <1>3 DEF handle_check_register_identity, Review, Refuse, Corrupt
  <1>4. get_register_identity_tagValue => UNCHANGED g_ab_contact_list
    BY DEF get_register_identity_tagValue
  <1>5. ASSUME NEW r, EditNameOrScope(r)
        PROVE  UNCHANGED g_ab_contact_list
    BY <1>5 DEF EditNameOrScope, Review
  <1>6. ASSUME NEW group, NEW old, NEW new, NEW name,
               handle_check_edit_identifier(group, old, new, name)
        PROVE  UNCHANGED g_ab_contact_list
    BY <1>6 DEF handle_check_edit_identifier, Review, Refuse, Corrupt
  <1>7. ASSUME NEW addr \in Accounts, NEW name \in Names, NEW derived \in BOOLEAN,
               NEW again \in BOOLEAN,
               \/ handle_check_register_ledger_account(addr, name, derived)
               \/ handle_check_edit_ledger_account(addr, name, derived, again)
        PROVE  UNCHANGED g_ab_contact_list
    <2>1. request = None
      BY <1>7 DEF handle_check_register_ledger_account, handle_check_edit_ledger_account, Idle
    <2>2. RegisterAccountCtx(derived).ok \in BOOLEAN
      BY <2>1, IdleHeap, AccountEffect
    <2> QED
      BY <1>7, <2>2 DEF handle_check_register_ledger_account, handle_check_edit_ledger_account,
                        Review, Refuse, Corrupt
  <1> QED
    BY <1>1, <1>2, <1>3, <1>4, <1>5, <1>6, <1>7 DEF Next

\* What the proofs tie together, said of given proofs.
TiedBy(p, c) ==
  IF c.type = "IDENTITY"
  THEN \E g \in Groups : << g, c.contact_name >> \in p.names /\ << g, c.identifier >> \in p.identifiers
  ELSE c.contact_name \in p.accounts

\* A confirmed edit ties together what it changes, but for the two ways.
LEMMA ConfirmTies ==
    ASSUME BookInv, Confirm, request.op \in Edits,
           NEW i \in DOMAIN g_ab_contact_list'
    PROVE  /\ i \in DOMAIN g_ab_contact_list
           /\ TiedBy(proofs', g_ab_contact_list'[i]) \/ MayStray(g_ab_contact_list[i])
  <1> DEFINE list == g_ab_contact_list
             new == g_ab_contact_list'
  <1>1. /\ list \in Seq(Contacts) /\ request \in Requests /\ new = Applied(request)
        /\ ProofsGrow /\ NameProved(request, proofs)
    BY ConfirmProofs DEF Confirm, BookInv, TypeOK
  <1>2. ASSUME NEW c, TiedBy(proofs, c)
        PROVE  TiedBy(proofs', c)
    BY <1>1, <1>2 DEF TiedBy, ProofsGrow
  <1>3. \A c : TiedBy(proofs, c) \/ MayStray(c)
    BY DEF MayStray, Backed, TiedBy, Named, Holds
  <1>4. CASE request.op = "edit_name"
    <2>1. request.name \in Names /\ request.group \in Groups
          /\ new = update_contact_name(request.old, request.name)
      BY <1>1, <1>4 DEF Requests, None, Applied
    <2>2. /\ i \in DOMAIN list /\ list[i] \in Contacts
          /\ \/ new[i] = list[i]
             \/ /\ list[i].type = "IDENTITY" /\ list[i].contact_name = request.old
                /\ new[i] = With(list[i], "contact_name", request.name)
      <3>1. /\ DOMAIN new = DOMAIN list
            /\ \A j \in DOMAIN new :
                 \/ new[j] = list[j]
                 \/ /\ list[j].type = "IDENTITY" /\ list[j].contact_name = request.old
                    /\ new[j] = With(list[j], "contact_name", request.name)
        <4> HIDE DEF list
        <4>1. \A c : [c EXCEPT !.contact_name = request.name] = With(c, "contact_name", request.name)
          BY DEF With
        <4> QED
          BY <1>1, <2>1, <4>1, RenameEffect DEF list
      <3>2. i \in DOMAIN list /\ list[i] \in Contacts
        BY <1>1, <3>1, LenProperties, ElementOfSeq
      <3> QED
        BY <3>1, <3>2
    <2>3. CASE new[i] = list[i]
      BY <1>2, <1>3, <2>2, <2>3
    <2>4. CASE /\ list[i].type = "IDENTITY" /\ list[i].contact_name = request.old
               /\ new[i] = With(list[i], "contact_name", request.name)
      <3>1. CASE ~Holds(request.group, list[i].identifier)
        BY <1>4, <2>2, <2>4, <3>1 DEF MayStray
      <3>2. CASE Holds(request.group, list[i].identifier)
        <4>1. << request.group, list[i].identifier >> \in proofs'.identifiers
              /\ << request.group, request.name >> \in proofs'.names
          BY <1>1, <1>4, <3>2, ConfirmProofs DEF Holds, ProofsGrow
        <4>2. /\ new[i].type = "IDENTITY" /\ new[i].contact_name = request.name
              /\ new[i].identifier = list[i].identifier
          BY <2>2, <2>4 DEF With, Contacts
        <4> QED
          BY <2>1, <2>2, <4>1, <4>2 DEF TiedBy
      <3> QED
        BY <3>1, <3>2
    <2> QED
      BY <2>2, <2>3, <2>4
  <1>5. CASE request.op = "edit_identifier"
    <2>1. request.group \in Groups
      BY <1>1, <1>5 DEF Requests, None
    <2>2. /\ i \in DOMAIN list /\ list[i] \in Contacts
          /\ \/ new[i] = list[i]
             \/ /\ i \in Positions({"IDENTITY"}, request.old)
                /\ new[i] = With(list[i], "identifier", request.addr)
      BY <1>1, <1>5, AppliedUpdate, LenProperties, ElementOfSeq DEF UpdatedBy
    <2>3. CASE new[i] = list[i]
      BY <1>2, <1>3, <2>2, <2>3
    <2>4. CASE /\ i \in Positions({"IDENTITY"}, request.old)
               /\ new[i] = With(list[i], "identifier", request.addr)
      <3>1. list[i].type = "IDENTITY" /\ list[i].identifier = request.old
        BY <2>4 DEF Positions
      <3>2. CASE list[i].contact_name # request.name
        BY <1>5, <2>2, <3>1, <3>2 DEF MayStray
      <3>3. CASE list[i].contact_name = request.name
        <4>1. << request.group, request.name >> \in proofs'.names
              /\ << request.group, request.addr >> \in proofs'.identifiers
          BY <1>1, <1>5, ConfirmProofs DEF NameProved, ProofsGrow
        <4>2. /\ new[i].type = "IDENTITY" /\ new[i].contact_name = request.name
              /\ new[i].identifier = request.addr
          BY <2>2, <2>4, <3>1, <3>3 DEF With, Contacts
        <4> QED
          BY <2>1, <2>2, <4>1, <4>2 DEF TiedBy
      <3> QED
        BY <3>2, <3>3
    <2> QED
      BY <2>2, <2>3, <2>4
  <1>6. CASE request.op = "edit_scope"
    <2>1. /\ i \in DOMAIN list /\ list[i] \in Contacts
          /\ new[i] = list[i] \/ new[i] = With(list[i], "scope", request.scope)
      BY <1>1, <1>6, AppliedUpdate, LenProperties, ElementOfSeq DEF UpdatedBy
    <2>2. /\ new[i].type = list[i].type /\ new[i].contact_name = list[i].contact_name
          /\ new[i].identifier = list[i].identifier
      BY <2>1 DEF With, Contacts
    <2>3. TiedBy(proofs, list[i]) => TiedBy(proofs, new[i])
      BY <2>2 DEF TiedBy
    <2> QED
      BY <1>2, <1>3, <2>1, <2>3
  <1>7. CASE request.op = "edit_account"
    <2>1. /\ i \in DOMAIN list /\ list[i] \in Contacts
          /\ \/ new[i] = list[i]
             \/ /\ i \in Positions({"LEDGER_ACCOUNT"}, request.addr)
                /\ new[i] = With(list[i], "contact_name", request.name)
      BY <1>1, <1>7, AppliedUpdate, LenProperties, ElementOfSeq DEF UpdatedBy
    <2>2. CASE new[i] = list[i]
      BY <1>2, <1>3, <2>1, <2>2
    <2>3. CASE /\ i \in Positions({"LEDGER_ACCOUNT"}, request.addr)
               /\ new[i] = With(list[i], "contact_name", request.name)
      <3>1. new[i].type = "LEDGER_ACCOUNT" /\ new[i].contact_name = request.name
        BY <2>1, <2>3 DEF Positions, With, Contacts
      <3> QED
        BY <1>7, <2>1, <3>1, ConfirmProofs DEF TiedBy
    <2> QED
      BY <2>1, <2>2, <2>3
  <1> QED
    BY <1>4, <1>5, <1>6, <1>7 DEF Edits

\* A contact that is provided is tied, and the others are as they were.
LEMMA PushTies ==
    ASSUME BookInv, NEW node \in Contacts, Push(node), NEW i \in DOMAIN g_ab_contact_list'
    PROVE  \/ TiedBy(proofs', g_ab_contact_list'[i])
           \/ i \in DOMAIN g_ab_contact_list /\ MayStray(g_ab_contact_list[i])
  <1>1. TiedBy(proofs, node) /\ proofs' = proofs
    BY DEF Push, Backed, TiedBy, Named, Holds
  <1>2. \A c : TiedBy(proofs, c) \/ MayStray(c)
    BY DEF MayStray, Backed, TiedBy, Named, Holds
  <1>3. \/ i \in DOMAIN g_ab_contact_list /\ g_ab_contact_list'[i] = g_ab_contact_list[i]
        \/ g_ab_contact_list'[i] = node
    BY PushList DEF BookInv, TypeOK
  <1> QED
    BY <1>1, <1>2, <1>3

(* A name stands with an address that no proof ties it to in two ways      *)
(* only, whatever contacts are registered, edited, provided and restarted: *)
(* the edit of an identifier moves another contact than the one shown, the *)
(* edit of a name reaches an identity of another group.                    *)
THEOREM AliasesStrayInTwoWays == Spec => AliasesStrayTwoWays
  <1>1. ASSUME BookInv, [Next]_vars, g_ab_contact_list' # g_ab_contact_list,
               NEW i \in DOMAIN g_ab_contact_list'
        PROVE  \/ Backed(g_ab_contact_list[i])'
               \/ i \in DOMAIN g_ab_contact_list /\ MayStray(g_ab_contact_list[i])
    <2>1. Backed(g_ab_contact_list[i])' <=> TiedBy(proofs', g_ab_contact_list'[i])
      BY DEF Backed, TiedBy, Named, Holds
    <2>2. CASE g_ab_contact_list' = << >>
      BY <1>1, <2>2
    <2>3. CASE Confirm /\ request.op \in Edits
      BY <1>1, <2>1, <2>3, ConfirmTies
    <2>4. CASE \E node \in Contacts : Push(node)
      BY <1>1, <2>1, <2>4, PushTies
    <2> QED
      BY <1>1, <2>2, <2>3, <2>4, ListChange, ProvideIdentity, ProvideAccount
  <1>2. BookInv /\ [Next]_vars =>
          [ g_ab_contact_list' # g_ab_contact_list =>
              \A i \in DOMAIN g_ab_contact_list' :
                \/ Backed(g_ab_contact_list[i])'
                \/ i \in DOMAIN g_ab_contact_list /\ MayStray(g_ab_contact_list[i]) ]_vars
    BY <1>1
  <1> QED
    BY <1>2, InitBook, NextBook, PTL DEF Spec, AliasesStrayTwoWays

\* A contact pushed behind the others does not change the first one of any address
\* that is known.
LEMMA PushKeepsFirst ==
    ASSUME g_ab_contact_list \in Seq(Contacts), NEW node \in Contacts, Push(node),
           NEW a, Known(a)
    PROVE  get_address_book_contact(a, None)' = get_address_book_contact(a, None)
  <1> DEFINE list == g_ab_contact_list
             found == Positions(Types, a)
             later == Positions(Types, a)'
  <1>1. CASE ~Room(list, ctx, ContactBlocks)
    BY <1>1 DEF Push, get_address_book_contact, Positions
  <1>2. CASE Room(list, ctx, ContactBlocks)
    <2>1. g_ab_contact_list' = Append(list, node)
      BY <1>2 DEF Push, ab_contact_list_push
    <2>2. /\ Len(list) \in Nat /\ DOMAIN list = 1 .. Len(list)
          /\ \A i \in 1 .. Len(list) : list[i] \in Contacts
      BY LenProperties, ElementOfSeq
    <2>3. /\ DOMAIN Append(list, node) = 1 .. Len(list) + 1
          /\ \A i \in 1 .. Len(list) : Append(list, node)[i] = list[i]
      BY LenProperties, AppendProperties
    <2>4. PICK k \in 1 .. Len(list) : k \in found
      BY <2>2 DEF Known, Positions, Contacts
    <2>5. found \in SUBSET Nat /\ later \in SUBSET Nat /\ found \subseteq 1 .. Len(list)
      BY <2>1, <2>2, <2>3 DEF Positions
    <2>6. \A i \in 1 .. Len(list) : i \in found <=> i \in later
      BY <2>1, <2>2, <2>3 DEF Positions
    <2>7. \A i \in later : i \in 1 .. Len(list) \/ i = Len(list) + 1
      BY <2>1, <2>2, <2>3 DEF Positions
    <2>8. found # {} /\ later # {}
      BY <2>4, <2>6
    <2> HIDE DEF found, later
    <2>9. /\ First(found) \in found /\ \A j \in found : First(found) <= j
          /\ First(later) \in later /\ \A j \in later : First(later) <= j
      BY <2>5, <2>8, FirstOf
    <2>10. First(later) \in 1 .. Len(list)
      BY <2>2, <2>4, <2>6, <2>7, <2>9
    <2>11. First(later) = First(found)
      <3>1. First(later) \in found /\ First(found) \in later
        BY <2>5, <2>6, <2>9, <2>10
      <3>2. First(found) <= First(later) /\ First(later) <= First(found)
        BY <2>9, <3>1
      <3>3. First(found) \in Nat /\ First(later) \in Nat
        BY <2>5, <2>9
      <3> QED
        BY <3>2, <3>3
    <2>12. get_address_book_contact(a, None) = list[First(found)]
      BY <2>8 DEF get_address_book_contact, found
    <2>13. get_address_book_contact(a, None)' = g_ab_contact_list'[First(later)]
      BY <2>8 DEF get_address_book_contact, later
    <2> QED
      BY <2>1, <2>3, <2>10, <2>11, <2>12, <2>13
  <1> QED
    BY <1>1, <1>2

(* The name a known address shows changes only when an edit the user       *)
(* confirmed is applied or the list is emptied: providing contacts, in any *)
(* order and number, never does.                                           *)
THEOREM NamesChangeByEdits == Spec => OnlyEditsRename
  <1>1. ASSUME BookInv, [Next]_vars, g_ab_contact_list' \notin {g_ab_contact_list, << >>},
               request.op \notin Edits, NEW a \in Addresses, Known(a)
        PROVE  get_address_book_contact(a, None)' = get_address_book_contact(a, None)
    <2>1. g_ab_contact_list \in Seq(Contacts)
      BY <1>1 DEF BookInv, TypeOK
    <2>2. \E node \in Contacts : Push(node)
      BY <1>1, ListChange, ProvideIdentity, ProvideAccount
    <2> QED
      BY <1>1, <2>1, <2>2, PushKeepsFirst
  <1>2. BookInv /\ [Next]_vars =>
          [ g_ab_contact_list' \notin {g_ab_contact_list, << >>} =>
              \/ request.op \in {"edit_name", "edit_identifier", "edit_scope", "edit_account"}
              \/ \A a \in Addresses :
                   Known(a) => get_address_book_contact(a, None)' = get_address_book_contact(a, None)
          ]_vars
    BY <1>1 DEF Edits
  <1> QED
    BY <1>2, InitBook, NextBook, PTL DEF Spec, OnlyEditsRename

\* A new contact keeps the addresses unique when no contact of its type has its own.
LEMMA PushKeepsUnique ==
    ASSUME g_ab_contact_list \in Seq(Contacts), IdentifierUnique,
           NEW node \in Contacts, Push(node), Positions({node.type}, node.identifier) = {}
    PROVE  IdentifierUnique'
  <1> DEFINE list == g_ab_contact_list
  <1>1. CASE ~Room(list, ctx, ContactBlocks)
    BY <1>1 DEF Push, IdentifierUnique
  <1>2. CASE Room(list, ctx, ContactBlocks)
    <2>1. g_ab_contact_list' = Append(list, node)
      BY <1>2 DEF Push, ab_contact_list_push
    <2>2. Len(list) \in Nat /\ DOMAIN list = 1 .. Len(list)
      BY LenProperties
    <2>3. /\ DOMAIN Append(list, node) = 1 .. Len(list) + 1
          /\ \A i \in 1 .. Len(list) : Append(list, node)[i] = list[i]
          /\ Append(list, node)[Len(list) + 1] = node
      BY LenProperties, AppendProperties
    <2>4. \A i \in 1 .. Len(list) : ~(list[i].type = node.type /\ list[i].identifier = node.identifier)
      BY <2>2 DEF Positions
    <2>5. \A i \in 1 .. Len(list) + 1 : i \in 1 .. Len(list) \/ i = Len(list) + 1
      BY <2>2
    <2>6. \A i, j \in 1 .. Len(list) :
            list[i].type = list[j].type /\ list[i].identifier = list[j].identifier => i = j
      BY <2>2 DEF IdentifierUnique
    <2> QED
      BY <2>1, <2>3, <2>4, <2>5, <2>6 DEF IdentifierUnique
  <1> QED
    BY <1>1, <1>2

\* An account is provided again only while an identity with its address stands before it.
LEMMA AccountBehindIdentity ==
    ASSUME g_ab_contact_list \in Seq(Contacts), NEW a, NEW none,
           Positions({"LEDGER_ACCOUNT"}, a) # {},
           get_address_book_contact(a, none).type # "LEDGER_ACCOUNT"
    PROVE  \E i \in Positions({"IDENTITY"}, a), j \in Positions({"LEDGER_ACCOUNT"}, a) : i < j
  <1> DEFINE found == Positions(Types, a)
  <1>1. /\ \A i \in DOMAIN g_ab_contact_list : i \in Nat /\ g_ab_contact_list[i] \in Contacts
    BY LenProperties, ElementOfSeq
  <1>2. PICK j \in Positions({"LEDGER_ACCOUNT"}, a) : TRUE
    OBVIOUS
  <1>3. j \in found /\ found \in SUBSET Nat
    BY <1>1 DEF Positions, Types
  <1>4. First(found) \in found /\ First(found) <= j
    BY <1>3, FirstOf
  <1>5. g_ab_contact_list[First(found)].type # "LEDGER_ACCOUNT"
    BY <1>3 DEF get_address_book_contact
  <1>6. First(found) \in Positions({"IDENTITY"}, a)
    BY <1>4, <1>5 DEF Positions, Types
  <1>7. First(found) # j
    BY <1>2, <1>5 DEF Positions
  <1>8. First(found) \in Nat /\ j \in Nat
    BY <1>3, <1>4
  <1> QED
    BY <1>4, <1>6, <1>7, <1>8

\* Edits that leave every type and address where it is.
LEMMA EditKeepsUnique ==
    ASSUME IdentifierUnique, DOMAIN g_ab_contact_list' = DOMAIN g_ab_contact_list,
           \A i \in DOMAIN g_ab_contact_list :
             /\ g_ab_contact_list'[i].type = g_ab_contact_list[i].type
             /\ g_ab_contact_list'[i].identifier = g_ab_contact_list[i].identifier
    PROVE  IdentifierUnique'
  BY DEF IdentifierUnique

\* So does a confirmed edit, unless it moves a contact to a known address.
LEMMA ConfirmUnique ==
    ASSUME BookInv, IdentifierUnique, Confirm, request.op \in Edits,
           ~(request.op = "edit_identifier" /\ Known(request.addr))
    PROVE  IdentifierUnique'
  <1> DEFINE list == g_ab_contact_list
  <1>1. /\ list \in Seq(Contacts) /\ request \in Requests /\ request # None
        /\ g_ab_contact_list' = Applied(request)
        /\ \A i \in DOMAIN list : list[i] \in Contacts
    BY LenProperties, ElementOfSeq DEF BookInv, TypeOK, Confirm
  <1>2. CASE request.op = "edit_name"
    <2>1. request.name \in Names /\ g_ab_contact_list' = update_contact_name(request.old, request.name)
      BY <1>1, <1>2 DEF Requests, None, Applied
    <2>2. /\ DOMAIN g_ab_contact_list' = DOMAIN list
          /\ \A i \in DOMAIN g_ab_contact_list' :
               \/ g_ab_contact_list'[i] = list[i]
               \/ g_ab_contact_list'[i] = [list[i] EXCEPT !.contact_name = request.name]
      BY <1>1, <2>1, RenameEffect
    <2>3. \A i \in DOMAIN list :
            LET c == [list[i] EXCEPT !.contact_name = request.name]
            IN c.type = list[i].type /\ c.identifier = list[i].identifier
      BY <1>1 DEF Contacts
    <2> QED
      BY <2>2, <2>3, EditKeepsUnique
  <1>3. CASE request.op \in {"edit_scope", "edit_account"}
    <2>1. \E field \in {"scope", "contact_name"} : \E value :
            /\ DOMAIN g_ab_contact_list' = DOMAIN list
            /\ \A i \in DOMAIN g_ab_contact_list' :
                 \/ g_ab_contact_list'[i] = list[i]
                 \/ g_ab_contact_list'[i] = With(list[i], field, value)
      BY <1>1, <1>3, AppliedUpdate DEF UpdatedBy
    <2>2. \A i \in DOMAIN list, field \in {"scope", "contact_name"} : \A value :
            /\ With(list[i], field, value).type = list[i].type
            /\ With(list[i], field, value).identifier = list[i].identifier
      BY <1>1 DEF Contacts, With
    <2> QED
      BY <2>1, <2>2, EditKeepsUnique
  <1>4. CASE request.op = "edit_identifier"
    <2>1. /\ DOMAIN g_ab_contact_list' = DOMAIN list
          /\ \A i \in DOMAIN g_ab_contact_list' :
               \/ g_ab_contact_list'[i] = list[i]
               \/ /\ i \in Positions({"IDENTITY"}, request.old)
                  /\ g_ab_contact_list'[i] = With(list[i], "identifier", request.addr)
      BY <1>1, <1>4, AppliedUpdate DEF UpdatedBy
    <2>2. \A i \in DOMAIN list : list[i].identifier # request.addr
      BY <1>4 DEF Known
    <2>3. \A i \in DOMAIN list :
            /\ With(list[i], "identifier", request.addr).type = list[i].type
            /\ With(list[i], "identifier", request.addr).identifier = request.addr
      BY <1>1 DEF Contacts, With
    <2>4. \A i, j \in DOMAIN list :
            i \in Positions({"IDENTITY"}, request.old) /\ j \in Positions({"IDENTITY"}, request.old)
              => i = j
      BY DEF Positions, IdentifierUnique
    <2>5. ASSUME NEW i \in DOMAIN list, NEW j \in DOMAIN list,
                 g_ab_contact_list'[i].type = g_ab_contact_list'[j].type,
                 g_ab_contact_list'[i].identifier = g_ab_contact_list'[j].identifier
          PROVE  i = j
      <3>1. CASE g_ab_contact_list'[i] = list[i] /\ g_ab_contact_list'[j] = list[j]
        BY <2>5, <3>1 DEF IdentifierUnique
      <3>2. CASE ~(g_ab_contact_list'[i] = list[i] /\ g_ab_contact_list'[j] = list[j])
        BY <2>1, <2>2, <2>3, <2>4, <2>5, <3>2
      <3> QED
        BY <3>1, <3>2
    <2> QED
      BY <2>1, <2>5 DEF IdentifierUnique
  <1> QED
    BY <1>2, <1>3, <1>4 DEF Edits

(* The uniqueness the updates rely on is lost in the two ways the property *)
(* names and in no other, for any number of contacts.                      *)
THEOREM UniqueExceptTwoWays == Spec => UniqueButForTwoWays
  <1> DEFINE Moved == request.op = "edit_identifier" /\ Known(request.addr)
             Behind == \E a \in Accounts :
                         \E i \in Positions({"IDENTITY"}, a), j \in Positions({"LEDGER_ACCOUNT"}, a) : i < j
  <1>1. ASSUME BookInv, [Next]_vars, IdentifierUnique, ~Moved, ~Behind
        PROVE  IdentifierUnique'
    <2>1. g_ab_contact_list \in Seq(Contacts)
      BY <1>1 DEF BookInv, TypeOK
    <2>2. CASE UNCHANGED g_ab_contact_list \/ g_ab_contact_list' = << >>
      BY <1>1, <2>2 DEF IdentifierUnique
    <2>3. CASE Confirm /\ request.op \in Edits
      BY <1>1, <2>3, ConfirmUnique
    <2>4. ASSUME NEW addr \in Addresses, NEW name \in Names, NEW sc \in Scopes,
                 handle_provide_identity(addr, name, sc)
          PROVE  IdentifierUnique'
      <3> DEFINE node == Contact("IDENTITY", name, sc, addr)
      <3>1. node \in Contacts /\ node.type = "IDENTITY" /\ node.identifier = addr /\ Push(node)
        BY <2>4 DEF handle_provide_identity, Contact, Contacts, Types
      <3>2. Positions({"IDENTITY"}, addr) = {}
        BY <2>4 DEF handle_provide_identity, Known, Positions
      <3> HIDE DEF node
      <3> QED
        BY <1>1, <2>1, <3>1, <3>2, PushKeepsUnique
    <2>5. ASSUME NEW addr \in Accounts, NEW name \in Names,
                 handle_provide_ledger_account(addr, name)
          PROVE  IdentifierUnique'
      <3> DEFINE node == Contact("LEDGER_ACCOUNT", name, "", addr)
      <3>1. /\ node \in Contacts /\ node.type = "LEDGER_ACCOUNT" /\ node.identifier = addr
            /\ Push(node)
        BY <2>5, BookAssumption DEF handle_provide_ledger_account, Contact, Contacts, Types
      <3>2. Positions({"LEDGER_ACCOUNT"}, addr) = {}
        BY <1>1, <2>1, <2>5, AccountBehindIdentity DEF handle_provide_ledger_account
      <3> HIDE DEF node
      <3> QED
        BY <1>1, <2>1, <3>1, <3>2, PushKeepsUnique
    <2> QED
      BY <1>1, <2>2, <2>3, <2>4, <2>5, ListChange
  <1>2. BookInv /\ [Next]_vars =>
          [ g_ab_contact_list' # g_ab_contact_list /\ IdentifierUnique =>
              IdentifierUnique' \/ Moved \/ Behind ]_vars
    BY <1>1
  <1> QED
    BY <1>2, InitBook, NextBook, PTL DEF Spec, UniqueButForTwoWays
=============================================================================
