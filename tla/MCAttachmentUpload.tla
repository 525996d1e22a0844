-------------------------- MODULE MCAttachmentUpload --------------------------
(***************************************************************************)
(* Instances of AttachmentUpload for TLC: two uploads of one shopper, who  *)
(* competes with nobody but herself for the quota, or a single upload that *)
(* two workers compete for.                                                *)
(***************************************************************************)
EXTENDS AttachmentUpload, TLC

CONSTANTS a1, a2, o1, w1, w2

SameOwner == [a \in Att |-> o1]
Symmetry  == Permutations({a1, a2}) \union Permutations({w1, w2})
=============================================================================
