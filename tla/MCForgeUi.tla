----------------------------- MODULE MCForgeUi -----------------------------
(***************************************************************************)
(* Two voice ids, one of which is stored with a setting of its own, two    *)
(* designs of two takes, two settings of the slider, one the default, and  *)
(* two requests at a time.                                                 *)
(***************************************************************************)
EXTENDS ForgeUi

FirstIsTuned == [n \in Names |-> IF n = 1 THEN 1 ELSE Default]
=============================================================================
