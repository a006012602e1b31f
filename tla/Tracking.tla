------------------------------ MODULE Tracking -------------------------------
(***************************************************************************)
(* What the optimiser of mpc_node minimises: the bicycle model              *)
(* (model/vehicle_model.cpp), its linearisation around a trajectory, and    *)
(* the cost of cost/cost_function.cpp.                                      *)
(*                                                                         *)
(* Integers throughout: a unit of time per step, small angles (tan, sin     *)
(* are the angle and cos is 1), a wheelbase of 1.  The reference is a       *)
(* straight line driven at a constant speed, ref[i] the target at time i.   *)
(***************************************************************************)
EXTENDS Integers

CONSTANTS
  Horizon,
  VelMin, VelMax,
  LinearVelMax,  \* what predictTrajectoryLTV() bounds the speed with
  WPath, WHeading, WSpeed, WSteer, WAccel, WSteerRate, WAccelRate,
  WTerminalPath, WTerminalHeading, WTerminalSpeed

Bounded(v, lo, hi) == IF v < lo THEN lo ELSE IF v > hi THEN hi ELSE v

\* updateVehicleState()
Update(st, u) ==
  [x |-> st.x + st.v, y |-> st.y + st.v * st.yaw, yaw |-> st.yaw + st.v * u.delta,
   v |-> Bounded(st.v + u.accel, VelMin, VelMax)]

\* predictTrajectory(): the state after k controls.
Predict(x0, U) ==
  LET state[k \in 0..Horizon] ==
        IF k = 0 THEN x0 ELSE LET st == state[k - 1] IN Update(st, U[k])
  IN  state

\* Seeded fault: the steering is multiplied by the speed of the trajectory, and
\* the share of the operating point is not taken off again.
LinearWithoutOffset(bar, ubar, st, u) ==
  [x |-> st.x + st.v, y |-> st.y + bar.v * st.yaw + bar.yaw * st.v,
   yaw |-> st.yaw + ubar.delta * st.v + bar.v * u.delta,
   v |-> st.v + u.accel]

(***************************************************************************)
(* linearizeBicycle() at (bar, ubar) applied to (st, u): the value at the   *)
(* operating point and the first derivatives, without the bound on speed.   *)
(***************************************************************************)
Linear(bar, ubar, st, u) ==
  [x |-> st.x + st.v,
   y |-> st.y + bar.v * bar.yaw + bar.v * (st.yaw - bar.yaw) + bar.yaw * (st.v - bar.v),
   yaw |-> st.yaw + bar.v * ubar.delta + ubar.delta * (st.v - bar.v)
             + bar.v * (u.delta - ubar.delta),
   v |-> st.v + u.accel]

\* buildLTVModels() around the controls `at', then predictTrajectoryLTV() of U,
\* which bounds the speed, with numbers of its own.
PredictLTV(x0, U, at) ==
  LET bar == Predict(x0, at)
      state[k \in 0..Horizon] ==
        IF k = 0 THEN x0
        ELSE LET next == Linear(bar[k - 1], at[k], state[k - 1], U[k])
             IN  [next EXCEPT !.v = Bounded(@, 0, LinearVelMax)]
  IN  state
------------------------------------------------------------------------------
Sq(v) == v * v

\* Tracking errors of state st against ref[i] of a reference with this speed.
PathError(st, i, speed) == Sq(st.x - i * speed) + Sq(st.y)
HeadingError(st) == Sq(st.yaw)
SpeedError(st, speed) == Sq(st.v - speed)

\* Stage cost of step i = 1..Horizon: the state before the control, the control
\* and its change.
StageCost(st, u, before, i, speed) ==
  WPath * PathError(st, i - 1, speed) + WHeading * HeadingError(st)
    + WSpeed * SpeedError(st, speed)
    + WSteer * Sq(u.delta) + WAccel * Sq(u.accel)
    + WSteerRate * Sq(u.delta - before.delta) + WAccelRate * Sq(u.accel - before.accel)

\* The last state is compared with the last target, which is a step older.
TerminalCost(st, speed) ==
  WTerminalPath * PathError(st, Horizon - 1, speed) + WTerminalHeading * HeadingError(st)
    + WTerminalSpeed * SpeedError(st, speed)

\* computeTotalCost()
TotalCost(state, U, prev, speed) ==
  LET sum[i \in 0..Horizon] ==
        IF i = 0 THEN TerminalCost(state[Horizon], speed)
        ELSE sum[i - 1]
               + StageCost(state[i - 1], U[i], IF i = 1 THEN prev ELSE U[i - 1], i, speed)
  IN  sum[Horizon]

\* evalCost() of a problem [x0, speed, prev, ...], with and without models.
EvalCost(p, U, at) == TotalCost(PredictLTV(p.x0, U, at), U, p.prev, p.speed)
EvalCostNonlinear(p, U) == TotalCost(Predict(p.x0, U), U, p.prev, p.speed)

\* Seeded fault: differences to one side.  A vehicle that stands feels no
\* difference when it brakes harder.
BackwardDifferences(p, U, at) ==
  [k \in 1..Horizon |->
    [delta |-> 2 * (EvalCost(p, U, at) - EvalCost(p, [U EXCEPT ![k].delta = @ - 1], at)),
     accel |-> 2 * (EvalCost(p, U, at) - EvalCost(p, [U EXCEPT ![k].accel = @ - 1], at))]]

\* computeGradient(): central differences, here over a unit on either side,
\* twice the derivative.
CentralDifferences(p, U, at) ==
  [k \in 1..Horizon |->
    [delta |-> EvalCost(p, [U EXCEPT ![k].delta = @ + 1], at)
                 - EvalCost(p, [U EXCEPT ![k].delta = @ - 1], at),
     accel |-> EvalCost(p, [U EXCEPT ![k].accel = @ + 1], at)
                 - EvalCost(p, [U EXCEPT ![k].accel = @ - 1], at)]]

==============================================================================
