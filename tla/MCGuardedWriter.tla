---------------------------- MODULE MCGuardedWriter ----------------------------
(* Model-checking instances of GuardedWriter: an operator who knows what he    *)
(* does, with two servers in turn, and one who removes a living lock.      *)
EXTENDS GuardedWriter, TLC

ServerSymmetry == Permutations(Boots) \cup Permutations(Disposers)
===============================================================================
