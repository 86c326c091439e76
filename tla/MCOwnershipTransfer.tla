------------------------ MODULE MCOwnershipTransfer ------------------------
(***************************************************************************)
(* Instances of OwnershipTransfer for TLC.                                 *)
(***************************************************************************)
EXTENDS OwnershipTransfer, TLC

\* No property names a chat, a reply, a sign-in or a user.
Symmetry == Permutations(Chats) \cup Permutations(Records)
              \cup Permutations(Transfers) \cup Permutations(Users)
=============================================================================
