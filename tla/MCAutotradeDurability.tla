------------------------ MODULE MCAutotradeDurability ------------------------
(***************************************************************************)
(* Instances of AutotradeDurability; intents are symmetric.                *)
(***************************************************************************)
EXTENDS AutotradeDurability, TLC

Symmetry == Permutations(Intent)
=============================================================================
