--------------------------- MODULE MCAttachments ---------------------------
(***************************************************************************)
(* Attachments for TLC.  The calls are interchangeable.                    *)
(***************************************************************************)
EXTENDS Attachments, TLC

Symmetry == Permutations(Call)
=============================================================================
