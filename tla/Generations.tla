----------------------------- MODULE Generations -----------------------------
(* The numbers of the pi processes of one session, counted from 1 by           *)
(* ProcessSupervisor.nextGeneration and carried in every key of a turn.        *)
EXTENDS Naturals

CONSTANT MaxGen  \* bound: how many process generations there may be

ASSUME GenerationAssumption == MaxGen \in Nat

Gens == 1 .. MaxGen
===============================================================================
