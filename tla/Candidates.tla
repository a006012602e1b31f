------------------------------ MODULE Candidates ------------------------------
(***************************************************************************)
(* The paths the planner chooses from: ResolveManeuver() of                 *)
(* frenet/path_generator.cpp for the modes LANE_KEEPING and AVOID, the      *)
(* collision filter of frenet/collision_checker.cpp and the choice of       *)
(* frenet/cost.cpp, on a straight road.                                     *)
(*                                                                         *)
(* Positions along the road (s) and across it (d) are integers.  A          *)
(* candidate ends at a lateral position `to' after `time' and keeps a       *)
(* `speed'; the samples of the code lie closer than a position, so a path   *)
(* is examined at every position.                                           *)
(***************************************************************************)
EXTENDS Integers, FiniteSets

CONSTANTS
  Durations,   \* time_horizon
  SpeedSteps,  \* delta_s_dot
  Tolerance,   \* lateral_target_tolerance
  LateralRate, \* what max_lateral_accel lets a path shift in a unit of time
  TurnRate,    \* what max_curvature lets a path shift in a unit of length
  Lookahead,   \* reactive_lookahead
  Reach,       \* half of both lengths, margin included
  Width,       \* half of both widths, margin included
  TimeWeight, TerminalWeight, PathWeight, StepWeight  \* kt, kd, kd_path, ks_dot

ASSUME CandidatesAssumption ==
  /\ Durations \subseteq Nat \ {0} /\ SpeedSteps \subseteq Int
  /\ Tolerance \in Nat /\ LateralRate \in Nat /\ TurnRate \in Nat
  /\ Lookahead \in Nat /\ Reach \in Nat /\ Width \in Nat
  /\ TimeWeight \in Nat /\ TerminalWeight \in Nat
  /\ PathWeight \in Nat /\ StepWeight \in Nat

Abs(x) == IF x < 0 THEN -x ELSE x
Larger(x, y) == IF x < y THEN y ELSE x

\* How far a shift by delta over span has come after x.  A shift begins at
\* once: the next call goes on from the lateral speed it finds.
Part(delta, x, span) ==
  LET part == (Abs(delta) * x + span - 1) \div span
  IN  IF x >= span THEN delta ELSE IF delta < 0 THEN -part ELSE part

Span(c) == c.speed * c.time

\* The lateral position of candidate c, planned at position e, x further on.
Lateral(c, e, x) == e.d + Part(c.to - e.d, x, Span(c))
------------------------------------------------------------------------------
(***************************************************************************)
(* Generation.  The lateral ends lie around the target of the mode, each    *)
(* with every duration; the speeds around the target speed, likewise; one   *)
(* of each with the same duration make a candidate.  Ends too far off for   *)
(* the duration (acceleration) or for the length (curvature) are dropped.   *)
(***************************************************************************)
LateralCandidates(target) ==
  {[to |-> target + k, time |-> T] : k \in -Tolerance..Tolerance, T \in Durations}

SpeedCandidates(speed) ==
  {[speed |-> speed + step, step |-> step, time |-> T] : step \in SpeedSteps, T \in Durations}

WithinLateralAccel(e, lat) == Abs(lat.to - e.d) <= LateralRate * lat.time

WithinCurvature(e, c) == Abs(c.to - e.d) <= TurnRate * Span(c)

Combine(lats, lons) ==
  {[to |-> p[1].to, time |-> p[1].time, speed |-> p[2].speed, step |-> p[2].step] :
     p \in {q \in lats \X lons : q[1].time = q[2].time}}

ResolveManeuver(e, target, speed) ==
  {c \in Combine({lat \in LateralCandidates(target) : WithinLateralAccel(e, lat)},
                 SpeedCandidates(speed)) : WithinCurvature(e, c)}
------------------------------------------------------------------------------
(***************************************************************************)
(* The collision filter: the candidate and then, at its last speed and      *)
(* lateral position, what it covers within Lookahead.  The margin, which    *)
(* the code lets grow a little with time, is one number: Reach and Width.   *)
(***************************************************************************)
Overlaps(s, d, place) == Abs(place.s - s) <= Reach /\ Abs(place.d - d) < Width

Examined(c) == 0..c.speed * Larger(c.time, Lookahead)

Clear(c, e, places) ==
  \A x \in Examined(c), p \in places : ~Overlaps(e.s + x, Lateral(c, e, x), p)

FilterByCollision(cands, e, places) == {c \in cands : Clear(c, e, places)}
------------------------------------------------------------------------------
\* The lateral error of a shift goes evenly from that at e to that at the end;
\* the integral of its square is what PathWeight multiplies.
Cost(c, e, target) ==
  LET now == e.d - target
      end == c.to - target
  IN  TimeWeight * c.time + StepWeight * c.step * c.step + TerminalWeight * end * end
        + PathWeight * c.time * (now * now + now * end + end * end)

\* The order in which candidates are made.
Earlier(c, other) ==
  \/ c.time < other.time
  \/ c.time = other.time /\ c.to < other.to
  \/ c.time = other.time /\ c.to = other.to /\ c.step <= other.step

\* The first one of the least cost.
SelectBest(cands, e, target) ==
  LET cost == [c \in cands |-> Cost(c, e, target)]
  IN  CHOOSE c \in cands : \A other \in cands :
        cost[c] < cost[other] \/ (cost[c] = cost[other] /\ Earlier(c, other))
==============================================================================
