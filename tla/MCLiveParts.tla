---------------------------- MODULE MCLiveParts -----------------------------
(***************************************************************************)
(* The parts of LiveParts on the smallest instances in which the           *)
(* interesting cases happen.                                               *)
(***************************************************************************)
EXTENDS LiveParts
=============================================================================
