---------------------------- MODULE MCSessionParts ----------------------------
(* Model-checking instance of TurnGate and ProcessSupervisor, each by itself:   *)
(* in a behaviour one of the two moves and the other stays as it began.         *)
EXTENDS TurnGate, ProcessSupervisor

PartsInit == GateInit /\ SupInit
PartsNext ==
  \/ SupInit /\ GateNext /\ UNCHANGED supVars
  \/ GateInit /\ SupNext /\ UNCHANGED gateVars
PartsSpec ==
  PartsInit /\ [][PartsNext]_<< gateVars, supVars >> /\ GateFairness /\ SupFairness
===============================================================================
