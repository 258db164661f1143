---------------------------- MODULE AddressBook ----------------------------
(***************************************************************************)
(* src/addr_book: the list of contacts a review shows names from, the      *)
(* callbacks the SDK's Address Book calls to check, review and apply a     *)
(* request, and the heap of src/mem_utils.c that the list and the review   *)
(* buffers share.                                                          *)
(*                                                                         *)
(* The SDK is external: it calls a check function, has the user confirm    *)
(* or cancel the review, applies a confirmed edit, and calls the finalize  *)
(* function; it handles one request at a time.  It keeps nothing: what the *)
(* user confirmed goes to the host as proofs, and an edit or a contact     *)
(* comes with the proofs of what it builds on (the tests show which).      *)
(***************************************************************************)
EXTENDS Integers, SequencesExt

CONSTANTS
  Addresses,   \* 21-byte mainnet addresses
  Accounts,    \* the ones of this device
  Names,       \* contact and account names
  Scopes,      \* address names
  Groups,      \* the gids that tie the names and addresses of an identity together
  HeapBlocks,  \* review buffers the heap has room for
  ContactBlocks \* what a contact takes of them

ASSUME BookAssumption == Accounts \subseteq Addresses /\ {HeapBlocks, ContactBlocks} \subseteq Nat

VARIABLES
  g_ab_contact_list, \* the contacts, oldest first
  ctx,      \* g_ab_ctx: what the pointers of the union hold
  request,  \* the request under review
  heap,     \* "undefined" once something that is no block of it was given back
  proofs    \* the proofs the SDK gave out: of a group's names and identifiers,
            \* and of account names, which cover neither address nor path

vars == << g_ab_contact_list, ctx, request, heap, proofs >>

Types == {"IDENTITY", "LEDGER_ACCOUNT"}
Contact(type, name, scope, addr) ==
  [type |-> type, contact_name |-> name, scope |-> scope, identifier |-> addr]
Contacts == [type : Types, contact_name : Names,
             scope : Scopes \cup {""}, identifier : Addresses]

-----------------------------------------------------------------------------
(* handle_contacts.c.                                                      *)

Positions(types, addr) ==
  {i \in DOMAIN g_ab_contact_list :
     g_ab_contact_list[i].type \in types /\ g_ab_contact_list[i].identifier = addr}
First(is) == CHOOSE i \in is : \A j \in is : i <= j

\* The first contact with an address; the last argument is for when there is none.
get_address_book_contact(addr, none) ==
  LET found == Positions(Types, addr)
  IN IF found = {} THEN none ELSE g_ab_contact_list[First(found)]
Known(addr) == \E i \in DOMAIN g_ab_contact_list : g_ab_contact_list[i].identifier = addr

\* Mutant: the newest contact comes first.
ab_contact_list_push_front(node) == << node >> \o g_ab_contact_list

ab_contact_list_push(node) == Append(g_ab_contact_list, node)

\* The loops stop at the first contact of the type with the address.
UpdateFirst(type, addr, field, value) ==
  LET found == Positions({type}, addr)
  IN IF found = {} THEN g_ab_contact_list
     ELSE [g_ab_contact_list EXCEPT ![First(found)][field] = value]

\* Mutant: the accounts of that name are renamed too.
update_contact_name_all(old, new) ==
  [i \in DOMAIN g_ab_contact_list |->
     LET c == g_ab_contact_list[i]
     IN IF c.contact_name = old THEN [c EXCEPT !.contact_name = new] ELSE c]

\* Every identity of that name, whatever its address.
update_contact_name(old, new) ==
  [i \in DOMAIN g_ab_contact_list |->
     LET c == g_ab_contact_list[i]
     IN IF c.type = "IDENTITY" /\ c.contact_name = old THEN [c EXCEPT !.contact_name = new] ELSE c]
update_contact_identifier(old, new) ==
  UpdateFirst("IDENTITY", old, "identifier", new)
update_contact_scope(addr, value) ==
  UpdateFirst("IDENTITY", addr, "scope", value)
update_ledger_account_contact_name(addr, new) ==
  UpdateFirst("LEDGER_ACCOUNT", addr, "contact_name", new)

-----------------------------------------------------------------------------
(* The heap.  The contexts of the flows are a union: an identity and its   *)
(* display string are at the same place as a ledger account and its one,   *)
(* and as the first two of the four strings of an identifier edit.  The    *)
(* other two are where the account review keeps the address it shows (on   *)
(* the small screens, its first pair).                                     *)
(*                                                                         *)
(* A slot holds no pointer, one to a block of the heap, one that a restart *)
(* of the heap made stale, or bytes that are no pointer of this heap.      *)

Slots == 1 .. 4
identity == 1
identifier_display == 2
contact_name == 1
scope == 2
old_identifier == 3
new_identifier == 4
ledger_account == 1
address_display == 2

Values == {"null", "live", "stale", "text"}
Live(c) == {s \in Slots : c[s] = "live"}
Used(list, c) == ContactBlocks * Len(list) + Cardinality(Live(c))
Room(list, c, blocks) == Used(list, c) + blocks <= HeapBlocks

\* APP_MEM_PERMANENT gives back what the pointer had before it allocates.
Freed(c, slots) == [s \in Slots |-> IF s \in slots THEN "null" ELSE c[s]]
APP_MEM_PERMANENT(c, s) ==
  LET free == Freed(c, {s})
  IN IF Room(g_ab_contact_list, free, 1) THEN [free EXCEPT ![s] = "live"] ELSE free
Allocated(c, s) == APP_MEM_PERMANENT(c, s)[s] = "live"

\* What is given back has to be a block.  What happens otherwise is undefined:
\* only a new start of the application makes it known again.
Blocks(c, slots) == \A s \in slots : c[s] \in {"null", "live"}
Corrupt == heap' = "undefined" /\ UNCHANGED << g_ab_contact_list, ctx, request, proofs >>

None == [op |-> "none"]
Idle == heap = "sound" /\ request = None

-----------------------------------------------------------------------------
(* The proofs.                                                             *)

Named(group, name) == << group, name >> \in proofs.names
Holds(group, addr) == << group, addr >> \in proofs.identifiers
Fresh(group) == \A pair \in proofs.names \cup proofs.identifiers : pair[1] # group

Grant(names, identifiers, accounts) ==
  proofs' = [names |-> proofs.names \cup names,
             identifiers |-> proofs.identifiers \cup identifiers,
             accounts |-> proofs.accounts \cup accounts]

\* The proofs at hand say that the contact may be provided as it is.
Backed(c) ==
  IF c.type = "IDENTITY"
  THEN \E g \in Groups : Named(g, c.contact_name) /\ Holds(g, c.identifier)
  ELSE c.contact_name \in proofs.accounts

-----------------------------------------------------------------------------
(* The checks.  A request under review has its buffers; a refused one has  *)
(* left none.                                                              *)

\* Mutant: any identifier is taken.
is_valid_tron_identifier_any(addr) == TRUE

is_valid_tron_identifier(addr) == addr \in Addresses

Review(r, c) ==
  /\ request' = r /\ ctx' = c
  /\ UNCHANGED << g_ab_contact_list, heap, proofs >>
Refuse(c) == Review(None, c)

\* A new identity has a new group; a further address comes with the proof of the name.
handle_check_register_identity(group, addr, name) ==
  /\ Idle /\ (Fresh(group) \/ Named(group, name))
  /\ \/ ~is_valid_tron_identifier(addr) /\ Refuse(ctx)
     \/ is_valid_tron_identifier(addr) /\ ~Blocks(ctx, {identity}) /\ Corrupt
     \/ /\ is_valid_tron_identifier(addr) /\ Blocks(ctx, {identity})
        /\ LET c == APP_MEM_PERMANENT(ctx, identity)
           IN IF Allocated(ctx, identity)
              THEN Review([op |-> "register_identity", group |-> group, addr |-> addr,
                           name |-> name], c)
              ELSE Refuse(c)

\* The address pair of the review, each time its page is drawn; a failed
\* allocation leaves the page out.
get_register_identity_tagValue ==
  /\ heap = "sound" /\ request.op = "register_identity"
  /\ ctx' = APP_MEM_PERMANENT(ctx, identifier_display)
  /\ UNCHANGED << g_ab_contact_list, request, heap, proofs >>

\* The edits whose review is the SDK's.
EditNameOrScope(r) == Idle /\ Review(r, ctx)

\* All four strings are given back, by the allocations or after one that failed.
handle_check_edit_identifier(group, old, new, name) ==
  /\ Idle /\ Named(group, name) /\ Holds(group, old)
  /\ LET c1 == APP_MEM_PERMANENT(ctx, contact_name)
         c2 == APP_MEM_PERMANENT(c1, scope)
         c3 == APP_MEM_PERMANENT(c2, old_identifier)
         c4 == APP_MEM_PERMANENT(c3, new_identifier)
         valid == is_valid_tron_identifier(old) /\ is_valid_tron_identifier(new)
     IN \/ ~valid /\ Refuse(ctx)
        \/ valid /\ ~Blocks(ctx, Slots) /\ Corrupt
        \/ /\ valid /\ Blocks(ctx, Slots)
           /\ IF /\ Allocated(ctx, contact_name) /\ Allocated(c1, scope)
                 /\ Allocated(c2, old_identifier) /\ Allocated(c3, new_identifier)
              THEN Review([op |-> "edit_identifier", group |-> group, old |-> old,
                           addr |-> new, name |-> name], c4)
              ELSE Refuse(Freed(ctx, Slots))

\* Mutant: a failed derivation leaves the display string behind.
RegisterAccountCtx_leaks(derived) ==
  LET c1 == APP_MEM_PERMANENT(ctx, address_display)
      c2 == APP_MEM_PERMANENT(c1, ledger_account)
  IN IF Allocated(ctx, address_display) /\ derived /\ Allocated(c1, ledger_account)
     THEN [ok |-> TRUE, c |-> c2] ELSE [ok |-> FALSE, c |-> c1]

\* The key derivation may fail.
RegisterAccountCtx(derived) ==
  LET c1 == APP_MEM_PERMANENT(ctx, address_display)
      c2 == APP_MEM_PERMANENT(c1, ledger_account)
  IN CASE ~Allocated(ctx, address_display) -> [ok |-> FALSE, c |-> c1]
       [] Allocated(ctx, address_display) /\ ~derived ->
            [ok |-> FALSE, c |-> Freed(c1, {address_display})]
       [] Allocated(ctx, address_display) /\ derived ->
            IF Allocated(c1, ledger_account) THEN [ok |-> TRUE, c |-> c2]
            ELSE [ok |-> FALSE, c |-> Freed(c2, {address_display})]

\* What it gives back: the account only once the display string is there.
AccountBlocks(derived) ==
  /\ Blocks(ctx, {address_display})
  /\ Allocated(ctx, address_display) /\ derived => Blocks(ctx, {ledger_account})

\* The review of both requests; what it wrote stays when it is over.
display_register_ledger_account_review(c) ==
  [c EXCEPT ![old_identifier] = "text", ![new_identifier] = "text"]

handle_check_register_ledger_account(addr, name, derived) ==
  /\ Idle
  /\ \/ ~AccountBlocks(derived) /\ Corrupt
     \/ /\ AccountBlocks(derived)
        /\ LET r == RegisterAccountCtx(derived)
           IN IF r.ok
              THEN Review([op |-> "register_account", addr |-> addr, name |-> name],
                          display_register_ledger_account_review(r.c))
              ELSE Refuse(r.c)

\* The path is derived once for the review and again for the address to edit.
handle_check_edit_ledger_account(addr, name, derived, again) ==
  /\ Idle /\ proofs.accounts # {}
  /\ \/ ~AccountBlocks(derived) /\ Corrupt
     \/ /\ AccountBlocks(derived)
        /\ LET r == RegisterAccountCtx(derived)
           IN CASE r.ok /\ again ->
                     Review([op |-> "edit_account", addr |-> addr, name |-> name],
                            display_register_ledger_account_review(r.c))
                [] r.ok /\ ~again -> Refuse(Freed(r.c, {address_display, ledger_account}))
                [] ~r.ok -> Refuse(r.c)

-----------------------------------------------------------------------------
(* The end of a review: the user's choice, the update of the list, and the *)
(* finalize function of the request.                                       *)

\* What it gives back are the blocks of the review.
Finalized ==
  CASE request.op = "register_identity" -> Freed(ctx, {identifier_display, identity})
    [] request.op = "edit_identifier" ->
         Freed(ctx, {contact_name, scope, old_identifier, new_identifier})
    [] request.op \in {"register_account", "edit_account"} ->
         Freed(ctx, {address_display, ledger_account})
    [] OTHER -> ctx

Applied(r) ==
  CASE r.op = "edit_name" -> update_contact_name(r.old, r.name)
    [] r.op = "edit_identifier" -> update_contact_identifier(r.old, r.addr)
    [] r.op = "edit_scope" -> update_contact_scope(r.addr, r.scope)
    [] r.op = "edit_account" -> update_ledger_account_contact_name(r.addr, r.name)
    [] OTHER -> g_ab_contact_list

Confirm ==
  /\ heap = "sound" /\ request # None
  /\ g_ab_contact_list' = Applied(request)
  /\ CASE request.op = "register_identity" ->
            Grant({<< request.group, request.name >>}, {<< request.group, request.addr >>}, {})
       [] request.op = "edit_name" -> Grant({<< request.group, request.name >>}, {}, {})
       [] request.op = "edit_identifier" ->
            Grant({}, {<< request.group, request.addr >>}, {})
       [] request.op \in {"register_account", "edit_account"} -> Grant({}, {}, {request.name})
       [] request.op = "edit_scope" -> UNCHANGED proofs
  /\ ctx' = Finalized /\ request' = None
  /\ UNCHANGED heap

Cancel ==
  /\ heap = "sound" /\ request # None
  /\ ctx' = Finalized /\ request' = None
  /\ UNCHANGED << g_ab_contact_list, heap, proofs >>

-----------------------------------------------------------------------------
(* Contacts are provided at any time, with the proofs for them.            *)

Push(node) ==
  /\ heap = "sound" /\ Backed(node)
  /\ g_ab_contact_list' = IF Room(g_ab_contact_list, ctx, ContactBlocks)
                          THEN ab_contact_list_push(node) ELSE g_ab_contact_list
  /\ UNCHANGED << ctx, request, heap, proofs >>

\* Mutant: provided again, the contact is pushed again.
handle_provide_identity_again(addr, name, sc) == Push(Contact("IDENTITY", name, sc, addr))

handle_provide_identity(addr, name, sc) ==
  ~Known(addr) /\ Push(Contact("IDENTITY", name, sc, addr))

\* Any of the device's accounts can have any account name: its proof is of the name.
handle_provide_ledger_account(addr, name) ==
  /\ get_address_book_contact(addr, Contact("IDENTITY", name, "", addr)).type # "LEDGER_ACCOUNT"
  /\ Push(Contact("LEDGER_ACCOUNT", name, "", addr))

(* app_main starts again after a reset of the link: the list is freed and  *)
(* the heap made anew.  The contexts are not cleared; what they point to   *)
(* is gone.                                                                *)
Restart ==
  /\ heap = "sound"
  /\ g_ab_contact_list' = << >>
  /\ ctx' = [s \in Slots |-> IF ctx[s] = "live" THEN "stale" ELSE ctx[s]]
  /\ request' = None
  /\ UNCHANGED << heap, proofs >>

\* The application is left and opened again: all globals are zero.
Relaunch ==
  /\ g_ab_contact_list' = << >> /\ ctx' = [s \in Slots |-> "null"]
  /\ request' = None /\ heap' = "sound"
  /\ UNCHANGED proofs

Init ==
  /\ g_ab_contact_list = << >> /\ ctx = [s \in Slots |-> "null"]
  /\ request = None /\ heap = "sound"
  /\ proofs = [names |-> {}, identifiers |-> {}, accounts |-> {}]

Next ==
  \/ \E group \in Groups, addr \in Addresses \cup {"invalid"}, name \in Names :
       handle_check_register_identity(group, addr, name)
  \/ get_register_identity_tagValue
  \/ \E group \in Groups, old, new \in Names :
       /\ Named(group, old)
       /\ EditNameOrScope([op |-> "edit_name", group |-> group, old |-> old, name |-> new])
  \/ \E group \in Groups, addr \in Addresses, sc \in Scopes :
       /\ Holds(group, addr)
       /\ EditNameOrScope([op |-> "edit_scope", addr |-> addr, scope |-> sc])
  \/ \E group \in Groups, old, new \in Addresses \cup {"invalid"}, name \in Names :
       handle_check_edit_identifier(group, old, new, name)
  \/ \E addr \in Accounts, name \in Names, derived \in BOOLEAN :
       handle_check_register_ledger_account(addr, name, derived)
  \/ \E addr \in Accounts, name \in Names, derived, again \in BOOLEAN :
       handle_check_edit_ledger_account(addr, name, derived, again)
  \/ Confirm \/ Cancel
  \/ \E addr \in Addresses, name \in Names, sc \in Scopes : handle_provide_identity(addr, name, sc)
  \/ \E addr \in Accounts, name \in Names : handle_provide_ledger_account(addr, name)
  \/ Restart \/ Relaunch

Spec == Init /\ [][Next]_vars

-----------------------------------------------------------------------------
\* The list holds contacts with mainnet addresses only, however they came in.
TypeOK ==
  /\ g_ab_contact_list \in Seq(Contacts)
  /\ ctx \in [Slots -> Values] /\ heap \in {"sound", "undefined"}
  /\ proofs.names \subseteq Groups \X Names
  /\ proofs.identifiers \subseteq Groups \X Addresses /\ proofs.accounts \subseteq Names

(* The heap holds what the open review needs and nothing else: whenever no *)
(* review is open, after a refusal halfway through the allocations as well *)
(* as after a confirmation or a cancellation, only the contacts are left,  *)
(* and while an address is under review every buffer its pages read is     *)
(* allocated; the heap is never overcommitted.  Something that is no block *)
(* is given back in two ways only: after a restart in the middle of a      *)
(* review, and by an edit of an identifier after the review of an account. *)
BuffersMatchReview ==
  /\ request = None => Live(ctx) = {}
  /\ request.op = "register_identity" => ctx[identity] = "live"
  /\ request.op = "edit_identifier" => \A s \in Slots : ctx[s] = "live"
  /\ request.op \in {"register_account", "edit_account"} =>
       ctx[ledger_account] = "live" /\ ctx[address_display] = "live"
  /\ Used(g_ab_contact_list, ctx) <= HeapBlocks
  /\ heap = "undefined" =>
       (\E s \in Slots : ctx[s] = "stale") \/ ctx[old_identifier] = "text"


\* The contacts a confirmed edit changes although its proofs are not about them.
MayStray(c) ==
  \/ ~Backed(c)
  \/ /\ c.type = "IDENTITY" /\ request.op = "edit_identifier"
     /\ c.identifier = request.old /\ c.contact_name # request.name
  \/ /\ c.type = "IDENTITY" /\ request.op = "edit_name"
     /\ c.contact_name = request.old /\ ~Holds(request.group, c.identifier)

(* No contact gets a name and an address that no proof ties together, but  *)
(* in two ways: the edit of an identifier moves the first identity with    *)
(* the old address, and that one has another name than the review showed;  *)
(* and the edit of a name renames every identity of that name, also one    *)
(* whose address is not of the group the name was changed for.             *)
AliasesStrayTwoWays ==
  [][ g_ab_contact_list' # g_ab_contact_list =>
        \A i \in DOMAIN g_ab_contact_list' :
          \/ Backed(g_ab_contact_list[i])'
          \/ i \in DOMAIN g_ab_contact_list /\ MayStray(g_ab_contact_list[i])
    ]_vars

(* Providing contacts never changes the name an address already has: only  *)
(* a confirmed edit or a restart does.                                     *)
OnlyEditsRename ==
  [][ g_ab_contact_list' \notin {g_ab_contact_list, << >>} =>
        \/ request.op \in {"edit_name", "edit_identifier", "edit_scope", "edit_account"}
        \/ \A a \in Addresses :
             Known(a) => get_address_book_contact(a, None)' = get_address_book_contact(a, None)
    ]_vars

(* Among the contacts of one type that an update looks at, no two have     *)
(* the same address.                                                       *)
IdentifierUnique ==
  \A i, j \in DOMAIN g_ab_contact_list :
    LET c == g_ab_contact_list[i]
        d == g_ab_contact_list[j]
    IN c.type = d.type /\ c.identifier = d.identifier => i = j

(* The updates rely on "identifier is unique in the list" and "address is  *)
(* unique in the list" (handle_contacts.c:66, :80, :94) and change the     *)
(* first contact only.  That is so but for two ways: an identity is moved  *)
(* to an address another contact has, or an account is provided again      *)
(* while an identity with its address stands in front of it.               *)
UniqueButForTwoWays ==
  [][ g_ab_contact_list' # g_ab_contact_list /\ IdentifierUnique =>
        \/ IdentifierUnique'
        \/ request.op = "edit_identifier" /\ Known(request.addr)
        \/ \E a \in Accounts :
             \E i \in Positions({"IDENTITY"}, a), j \in Positions({"LEDGER_ACCOUNT"}, a) : i < j
    ]_vars
=============================================================================
