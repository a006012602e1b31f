--------------------------- MODULE TrackingSolver ----------------------------
(***************************************************************************)
(* The optimiser with the model and the cost it has in mpc_node.            *)
(***************************************************************************)
EXTENDS Solver

CONSTANTS
  VelMin, VelMax, LinearVelMax,
  WPath, WHeading, WSpeed, WSteer, WAccel, WSteerRate, WAccelRate,
  WTerminalPath, WTerminalHeading, WTerminalSpeed

INSTANCE Tracking

States == [x : Int, y : Int, yaw : Int, v : Int]

\* mpc_params.yaml: no driving backwards, no negative weights; a problem is a
\* pose, the speed of the reference and the control sent last.
ASSUME TrackingAssumption ==
  /\ VelMin = 0 /\ VelMax \in Nat /\ LinearVelMax \in Nat
  /\ {WPath, WHeading, WSpeed, WSteer, WAccel, WSteerRate, WAccelRate,
      WTerminalPath, WTerminalHeading, WTerminalSpeed} \subseteq Nat
  /\ \A p \in Problems : p.x0 \in States /\ p.speed \in Int

(***************************************************************************)
(* The cost the search compared with is that of the states the model        *)
(* predicts (result.cost and result.predicted_states): trials are costed    *)
(* with models around themselves, where linearising loses nothing           *)
(* (mpc_solver.cpp:216-220, 243-252).  The two predictions bound the speed  *)
(* with different numbers (vel_max, and 100 m/s at mpc_solver.cpp:54), so   *)
(* this is about vehicles that cannot reach vel_max within the horizon.     *)
(***************************************************************************)
CostIsOfPrediction == pc = "done" => cost_cur = EvalCostNonlinear(problem, U)

(***************************************************************************)
(* Once its memory is cleared, the optimiser pulls away by itself from      *)
(* standing on a reference that moves (mpc_controller/src/main.cpp:137-145).*)
(* Both must be cleared: after a solution that brakes, or a brake sent      *)
(* last, it stays where it is, as braking a vehicle that stands is no       *)
(* worse than braking it less.                                              *)
(***************************************************************************)
AtRest == problem.x0.v = 0 /\ problem.x0.y = 0 /\ problem.x0.yaw = 0
Cleared == warm_start = None /\ problem.prev = ZeroControl
PullsAway == pc = "done" /\ AtRest /\ Cleared /\ problem.speed > 0 => U[1].accel > 0
==============================================================================
