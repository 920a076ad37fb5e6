----------------------------- MODULE MCHiggsMlx -----------------------------
(***************************************************************************)
(* Two calls of two voices.                                                *)
(***************************************************************************)
EXTENDS HiggsMlx
=============================================================================
