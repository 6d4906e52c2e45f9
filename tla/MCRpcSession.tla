----------------------------- MODULE MCRpcSession -----------------------------
(* Model-checking instance of RpcSession.  MaxEpoch leaves room for one close    *)
(* and one reopen per generation, one close per event that may overflow the     *)
(* buffer and at least one per lost time-out record, so no close or reopen of   *)
(* the code is ever refused by the bound.                                       *)
EXTENDS RpcSession, TLC

SendSymmetry == Permutations(Intents)
===============================================================================
