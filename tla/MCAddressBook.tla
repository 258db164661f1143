--------------------------- MODULE MCAddressBook ---------------------------
(***************************************************************************)
(* Names and gids are told apart by equality only, so the runs identify    *)
(* states that differ by a permutation of them.                            *)
(***************************************************************************)
EXTENDS AddressBook

Symmetry == Permutations(Names) \cup Permutations(Groups)
=============================================================================
