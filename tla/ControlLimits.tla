---------------------------- MODULE ControlLimits ----------------------------
(***************************************************************************)
(* Box and rate limits of the MPC (constraints/constraints.cpp) and the     *)
(* projection solveMPC applies to every control sequence it tries           *)
(* (solver/mpc_solver.cpp).  Angles and accelerations are integers: the     *)
(* unit is immaterial, the limits are constants.                            *)
(***************************************************************************)
EXTENDS Integers

CONSTANTS
  SteerMax,   \* steering_max
  SteerStep,  \* steering_rate_max * dt
  AccelMin,   \* accel_min
  AccelMax    \* accel_max

ASSUME LimitsAssumption ==
  /\ SteerMax \in Nat
  /\ SteerStep \in Nat
  /\ AccelMin \in Int /\ AccelMin <= 0
  /\ AccelMax \in Nat

Controls == [delta : -SteerMax..SteerMax, accel : AccelMin..AccelMax]

\* MPCControl{}: straight ahead, no longitudinal input.
ZeroControl == [delta |-> 0, accel |-> 0]

Clip(v, lo, hi) == IF v < lo THEN lo ELSE IF v > hi THEN hi ELSE v

ClipControl(u) ==
  [delta |-> Clip(u.delta, -SteerMax, SteerMax),
   accel |-> Clip(u.accel, AccelMin, AccelMax)]

ClipSteeringRate(u, prev) ==
  [u EXCEPT !.delta = prev.delta + Clip(u.delta - prev.delta, -SteerStep, SteerStep)]

\* One element of projectControls(): the box first, then the rate.
Project(u, prev) == ClipSteeringRate(ClipControl(u), prev)

WithinRate(a, b) == a - b <= SteerStep /\ b - a <= SteerStep
==============================================================================
