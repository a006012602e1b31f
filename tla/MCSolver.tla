------------------------------ MODULE MCSolver -------------------------------
(***************************************************************************)
(* Small instance of TrackingSolver for TLC: the weights of mpc_params.yaml *)
(* in proportion, a vehicle up to a unit off the line, and solutions of the *)
(* call before that brake, that accelerate and that steer.                  *)
(***************************************************************************)
EXTENDS TrackingSolver

MCCost(p, V, at) == EvalCost(p, V, at)
MCGradient(p, V, at) == CentralDifferences(p, V, at)
MCAccelMin == -2
MCProblems ==
  [x0 : [x : {0}, y : -1..1, yaw : -1..1, v : 0..2], speed : 0..2,
   prev : [delta : -1..1, accel : {-2, 0, 1}]]
MCWarmStarts ==
  {[i \in Steps |-> [delta |-> d, accel |-> a]] : d \in {0}, a \in {-2, 1}} \cup
  {[i \in Steps |-> [delta |-> 2 - i, accel |-> 0]]}
==============================================================================
