------------------------------ MODULE MCDispatch ------------------------------
(* Model-checking instance of DispatchCoordinator under every order of calls.   *)
EXTENDS DispatchCoordinator, TLC

\* Three events with one close or reopen of the gate, two with a close and a reopen.
Budget == arrived + opEpoch <= MaxEvents + 1
IntentSymmetry == Permutations(Intents)
===============================================================================
