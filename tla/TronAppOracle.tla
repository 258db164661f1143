---------------------------- MODULE TronAppOracle ----------------------------
(***************************************************************************)
(* The app implements SigningOracle.  What is under review is read, as the *)
(* callbacks of ui_globals.c read it, from the globals that every handler  *)
(* writes: the refinement holds only if nothing changes them between the   *)
(* screen and the confirmation.                                            *)
(***************************************************************************)
EXTENDS TronAppProperties

\* What the callback of the review would release now.
Requested ==
    CASE ~Reviewing -> <<"no request">>
      [] review.state = "APPROVAL_VERIFY_ADDRESS" -> PublicKey(publicKeyContext)
      [] review.state = "APPROVAL_SHARED_ECDH_SECRET" ->
            Secret(transactionContext.path, transactionContext.peer)
      [] review.state = "APPROVAL_SIGN_TIP72_TRANSACTION" ->
            Signature(messageSigningContext712.path,
                      Tip712Hash(messageSigningContext712.domain,
                                 messageSigningContext712.message))
      [] OTHER -> Signature(transactionContext.path, transactionContext.hash)

Status == CASE out.sw = "none" -> "none" [] out.sw = "E_OK" -> "ok" [] OTHER -> "error"

IsSecret(what) == what[1] \in {"signature", "secret"}
OfTip712(what) == what[1] = "signature" /\ what[3][1] = "tip712"

\* The fields tell whose key is used and on what; of a transaction they tell
\* whose, to whom and how much.
Tells(what, fields) ==
    LET values == {Unalias(fields[i].value) : i \in DOMAIN fields}
        key == Address(KeyAddress[what[2]]) \in values
    IN  CASE what[1] = "public key" -> key
          [] what[1] = "secret" -> key /\ Address(Peers[what[3]]) \in values
          [] OfTip712(what) ->
                key /\ {Hash(RawHash(what[3][2])), Hash(RawHash(what[3][3]))} \subseteq values
          [] what[1] = "signature" /\ what[3][1] = "tx" ->
                \E i \in DOMAIN what[3][2] :
                    /\ ContractChunks(what[3][2]) = {i}
                    /\ EssentialAddresses(what[3][2][i].contract[1]) \subseteq values
          [] OTHER -> key /\ Hash(what[3]) \in values

Pays(what, validated) ==
    /\ what[1] = "signature" /\ validated.initialized
    /\ \E i \in DOMAIN what[3][2] :
          /\ ContractChunks(what[3][2]) = {i}
          /\ PaysValidated(what[3][2][i].contract[1], validated)

Oracle == INSTANCE SigningOracle WITH
    NeedsApproval <- IsSecret, Describes <- Tells, MayBeSilent <- OfTip712, Mandated <- Pays,
    Unattended <- InSwap, NoRequest <- <<"no request">>, NoScreen <- <<>>, Nothing <- Nothing,
    request <- Requested, shown <- review.fields, steps <- Len(review.screens),
    answer <- [status |-> Status, what |-> out.what],
    open <- txContext.initialized, mandate <- swap.validated, closed <- ~Running

\* Whatever the host interleaves, the app is a signing oracle: from the screen to
\* the confirmation the release is frozen although it lives in shared globals,
\* each confirmation releases once, a refusal or a reset releases nothing, a
\* review left without an answer ends the session as a reset does, and so
\* every confirmation is answered but that of a TIP-712 message, whose callback
\* returns without an answer when the hash fails.
ImplementsOracle == Oracle!Spec
=============================================================================
