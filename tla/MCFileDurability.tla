--------------------------- MODULE MCFileDurability ---------------------------
(* Model-checking instance of FileDurability: a few lines of two chunks.       *)
EXTENDS FileDurability, TLC
===============================================================================
