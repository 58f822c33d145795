--------------------------- MODULE MCMailComposer ---------------------------
(***************************************************************************)
(* Instances of MailComposer for TLC.                                      *)
(***************************************************************************)
EXTENDS MailComposer, TLC

Symmetry == Permutations(Picks) \cup Permutations(Files)
=============================================================================
