# Verification of the mpc_ws driving stack

TLA+ models, TLC runs and TLAPS proofs for the autonomous driving workspace
under `src/` (Frenet planner, MPC controller, behavior planner, bridges for the
MORAI simulator).

## 1. The system

```
MORAI --Ego :911, ObjectInfo :7505, GPS :1111, IMU :2222--> frenet_planner_node
frenet_planner_node --PlannedPath :9300 (UDP)--> mpc_node --CtrlCmd (UDP)--> MORAI
```

| component | state it keeps | operations | what is hard |
|---|---|---|---|
| planner loop (`frenet_planner/src/main.cpp`) | failure streak, last path, last vehicle state | one iteration per 50 ms | a path kept across failures, collision verdicts and localization gaps |
| `FrenetPlanner::Plan` (`frenet_planner.cpp`) | merge, following and avoidance contexts | one call per iteration | a state machine spread over 900 lines with many early returns |
| localization (`udp_manager.cpp`, receivers) | dead-reckoned pose, last fix applied | receive, propagate, correct | time-outs, gaps, limited corrections |
| object reception | last snapshot | overwrite | never expires |
| MPC loop (`mpc_controller/src/main.cpp`) | stuck and recovery counters, warm start, last control | one iteration per 50 ms | counters that interlock; memory that must match what was sent |
| PlannedPath channel | datagrams in flight | send, receive | loss, reordering, no sequence number, restarts |
| MPC optimiser (`solveMPC`) | controls, models and cost of the search; the warm start of the caller | one solve per iteration | a line search whose parts must agree, limits applied one after the other |
| UDP receivers | socket, thread, running flag | construct, receive, destroy | a thread that outlives part of its object |
| behavior planner (ROS) | last messages, feature history | callbacks, 10 Hz decision | stale inputs; not connected to the planner |
| MGeo map | link graph | searches | shortest distance against first hit |
| object bridge (ROS) | none | encode ego and objects | slot limit, unstable ids |

The two nodes share nothing but the PlannedPath datagrams. Within a node the
loop shares the last parsed datagram with each receiver thread, under a mutex.

What makes each component correct, and where it is hard:

- **Planner loop.** The datagram of an iteration is a new path, the last one
  again, or a stop path. A path that was vetoed must not come back, the number
  of resends must be paid for by a success, and failure for good must end in
  stop paths, for every alternation of failures, verdicts and localization gaps.
- **Merge state machine.** A call of `Plan()` detects a zone, replays a locked
  path, evaluates a gap, and commits, over six early returns. The flags must not
  contradict the phase, a commit must be confirmed, a lock must hold past the
  stop line, checkpoints must come in order, and no combination may wait for ever.
- **Following.** The kept leader and the search for the nearest one run on the
  same snapshot. Nobody in the lane may be overlooked, and the leader may not
  alternate.
- **Avoidance.** Phases TRACKING, SHIFT, PASS; the side is chosen when the
  manoeuvre begins, and the obstacle is left out of the collision filter until
  then. The filter may see it a little before it is tracked: a slower candidate must
  be left until then. Nothing may be touched on a path planned without it, and a
  stop must not be for good.
- **MPC loop.** Stuck detection, launch assist and warm start interlock: assist
  must be earned, limited and repeatable, and the memory of the optimiser must be
  what the vehicle was sent.
- **Localization.** Two receiver threads feed one pose. Dead reckoning must end,
  a repeated place must not be taken for a new one, standing must be noticed and
  forgotten, and although a fix pulls by a limited step the pose must come back.
- **Optimiser.** Whatever a line search accepts, rejects or grows, the controls
  are never worse than what it began with, stay within box and rate limits, and
  come in time; and the memory of a braking solution must not hold the vehicle at
  rest.
- **PlannedPath channel.** Each side keeps the last datagram, without number or
  age. A verdict must be heard and stay heard, failure for good must stop the
  vehicle, although datagrams are lost, doubled and overtaken and either process
  may be restarted.
- **Receivers.** The thread of a receiver must end with it, also when one of the
  later sockets cannot be bound. Objects have no age: `Following`.
- **Behavior planner and MGeo map.** Searches on a link graph, three stages of
  rules with priorities, and a leader remembered from one iteration to the next.
  The searches must find the nearest line and the shortest way, the stages
  together must put safety first.
- **Object bridge.** Ids are places in the list: an obstacle may change its
  number, or lose it, while it is driven around (`Avoidance`).

`PROJECT.json` lists every component with its status, and every hazard at its
line with the properties that watch it.

## 2. Modules

| module | what it models | extends / instantiates |
|---|---|---|
| `PlannerLoop` | the loop of `frenet_planner/src/main.cpp` | `DriveLease` as its abstraction |
| `DriveLease` | what that loop promises: a planned path is a lease with a budget of reuses | |
| `Pipeline` | the loop, the PlannedPath datagrams, the receiver and reader of `mpc_node`, restarts | extends `PlannerLoop` |
| `Pipeline_proofs` | invariants of the loop and of the pipeline, the refinement, and the bound on the last drive datagram, proved | `NatFacts` |
| `MergeFsm` | the merge state machine in `FrenetPlanner::Plan()` | |
| `PlannerNode`, `MCPlannerNode` | `MergeFsm`, `PlannerLoop` and the vehicle in closed loop | both |
| `PlannerNode_proofs` | invariants and action properties of the machine and of the node, and that the node implements both, proved | `NatFacts` |
| `Following`, `MCFollowing` | choice of the leader, and the object snapshot it reads | |
| `Candidates` | candidate paths on a straight road, collision filter, choice by cost | |
| `Avoidance`, `MCAvoidance` | driving around standing obstacles, with the list of the bridge and the vehicle | extends `Candidates` |
| `Contexts_proofs` | invariants and action properties of `Following` and `Avoidance`, proved | both, `NatFacts` |
| `Localization` | GPS and IMU receivers, time-outs, prediction and correction of the pose | |
| `Localization_proofs` | its types, the bound on dead reckoning, and that a standing vehicle is located, proved | `NatFacts` |
| `MGeo` | forward distance and next stop line on the link graph, with reference definitions | |
| `BehaviorNode`, `MCBehaviorNode` | the 10 Hz loop of `behavior_node`: feature, rules, scores, decision | extends `MGeo` |
| `BehaviorNode_proofs` | what the two searches find on any map, and the decisions on safety and lane changes, proved | `NatFacts` |
| `ControlLimits` | box and rate limits, one element of `projectControls` | |
| `Solver` | `solveMPC()` for any cost and gradient | extends `ControlLimits` |
| `Tracking` | the vehicle model, its linearisation and the cost, on integers | |
| `TrackingSolver`, `MCSolver` | the optimiser with that model and cost | `Solver`, `Tracking` |
| `Solver_proofs` | its invariants and its bound, proved for any cost and gradient; that the cost of `mpc_node` is that of the prediction, what a cleared memory guarantees, and that it fits `MpcLoop` | `NatFacts` |
| `MpcLoop`, `MCMpcLoop` | the loop of `mpc_node` with its receiver | `ControlLimits` |
| `MpcLoop_proofs` | its invariants and action properties, proved | |
| `ReceiverExit` | how the UDP receivers are opened and given up again | |
| `NatFacts` | least elements of sets of naturals; products and ranks that fall; what recursive functions that stand for loops return | |

An operator or action headed "Seeded fault" is a wrong variant of the definition
that follows it. No specification uses it: it is there so that each property can
be shown to fail when the code is changed that way (`mutants` in `PROJECT.json`).

### PlannerLoop and Pipeline

State: `plan_fail_streak`, `last_cp` (None while `has_last_cp` is false),
`last_vehicle_state`, and `out`, the datagram of the iteration. A path is its
kind: "drive", "hold" (a path of `Plan()` whose speed profile stops) or "stop"
(`MakeStopPath`). One action per branch of `while (true)`: `LocalizationLost`
(77-97), `PlanSucceeds` (132-142), `CollisionBlocked` (148-156),
`ResendLastPath` (157-161), `GiveUp` (162-169). `age`, `resends`, `vetoed` and
`gap` are observers; `parity` makes every iteration a step, so that fairness of
the loop can be stated.

`Pipeline` puts a network between the loops. A datagram in flight is its path and
how many were sent after it (`behind`); it may arrive any number of times until
`MaxDelay` later ones are out, or never, and `ParseData` stores whatever arrives.
`FollowPath` is an iteration of `mpc_node` that reads what is stored. Every branch
of the planner's loop publishes at most one datagram (`PlanAndSend`, `Veto`).
`RestartPlanner` and `RestartMpc` forget what the process keeps in memory, which
is everything; neither tells the other side. `newest`, `told` and the marks
`vetoed`, `before` and `late` are observers of what the code cannot see: which of
two datagrams is the older.

### MergeFsm

State: `merge_` as a record (`zone` 0 is `active == false`), the position of the
last call and what it returned. The actions split a call by its early returns:
`ReplayLockedPath`, `LockedPathExhausted`, `LockedPathBlocked` (a locked path is
replayed, runs out, or is blocked past the stop line), `LowSpeedFallback`, and
`CancelCommit`, `ReachConflict`, `PlanUncommitted`, which go on through zone
detection, gap evaluation, choice of the mode, candidates and commit
(`Continue`). Which gap the selector finds, whether the locked path is clear,
whether avoidance has precedence, and what is left of the candidates are chosen
freely. The position is a projection, so it may fall back by `Noise`. The second
block of code that advances a checkpoint (740-765) is kept in `KeepLock` although
388-412 has normally done so before; the reset at 715-719 cannot be reached and
is left out. The path is not closed in this module: no zone lies on the seam.

### PlannerNode

One step is one period of 50 ms: the vehicle moves (or not) on the path it was
last sent, then the call of `Plan()` and the branch of `main.cpp` for its
answer are one action. `authority` is how far the kept path may lead (a "yield"
path no further than the stop line), `kept` what is in `last_cp`. The vehicle
moves by at most one position per period and stands in the period after a stop
path; the MPC and the brakes are inside that abstraction.

### Following

One step is one call of `Plan()`: with a new packet or with the old snapshot
(`Receive`), after a move on the closed loop (`Move`), reaching lines 578-667
(`Follow`) or returning before them (`ReturnEarly`: replay of a locked path,
low-speed fallback). `KeepLeader` is 587-627, `Nearest` is `FindLeader`,
`HandOver` 626-667. An object that is slow, in another lane or oncoming is
"Elsewhere": the code treats these alike. `leader_s` is carried over the seam as
the code does.

### Candidates and Avoidance

The road is straight, positions along and across it are integers. A candidate is
where it ends (`to`), after which `time`, at which `speed`. `FilterByCollision`
looks at every position of it and at what follows within `Lookahead`;
`SelectBest` takes the first of least cost, as `std::min_element` does.

A period is the vehicle's part (`Advance`, `Stay`) and a call of `Plan()` with the
reaction of `main.cpp` (`Cycle`). `LowSpeedFallback` is the branch below
`kLowSpeedFallbackV`, which returns before context and obstacles are looked at.
Otherwise `Resolve` goes through the call in the order of the code: the stored
place follows the id (`Refreshed`), phases move on (`Advanced`), an obstacle is
acquired within `AcquisitionRange`, which is what the code computes and not what the
filter sees (`Acquired`), the tracked one is left out of the filter until its
manoeuvre begins (`PlanningObstacles`), and at that moment both sides are planned
and one is taken (`Begin`). `Listed` is the list of `bridge_node.cpp`: a stranger
beside the road that is listed first shifts the ids of all others, and with
`MaxSlots` the last may fall off (in the runs none does). `GenerationFails` is a call whose candidates are
gone before the collision filter, for limits of acceleration that the model does
not compute. The vehicle advances by one position when `CallsPerPosition` calls
in a row led to the same next place (`NextD`, counted in `held`); it stands on a
stop path, and a vehicle that stands is slow. `EarlyEnough` says that a manoeuvre
begins out of reach of its obstacle and that the filter looks further than one
position: 25 m against half of two lengths, and 8 s. `ShortResend` says that a path sent again in the grace is replaced before a
position is driven on it: 5 calls of 50 ms, against positions of some metres.

### MpcLoop, ControlLimits and Solver

State: the receiver's `path_`, `stuck_cycles`, `recovery_cycles_left`,
`warm_start`, `last_control`, the command sent. The receiver thread is
`ReceivePath`, possible between any two iterations. An iteration is
`WaitForPath`, `NotStuck`, `CountStuck`, `StartRecovery` or `ContinueRecovery`;
each ends in `SolveAndSend`, because solving, launch assist, memory and output
are the same tail for all of them. The optimiser proposes any raw control and
`Project` (box, then rate) decides what it may return.

`Solver` is the optimiser itself. `ProjectNext` is one step of
`projectControls()`; `Start` costs the projected warm start; `Differentiate`,
`Search` and `Converge` are an iteration up to the trial, `Accept`, `Backtrack`
and `Abandon` what becomes of it. Cost and gradient are parameters: the limits,
the bound and `NeverWorse` do not depend on them. Step sizes are multiples of
`1 / Unit`; the sufficient decrease that Armijo's rule asks for is below one unit
of cost and is dropped, so the model accepts what the code accepts and, at most,
decreases smaller than that. `Tracking` gives the parameters their values of
`mpc_node`: bicycle model with small angles and a wheelbase of 1, its
linearisation (`Linear` keeps the value at the operating point), stage and
terminal cost. Two details are kept because a reader would correct them: the last
state is compared with the last reference point, which is a step older
(`TerminalCost`), and `predictTrajectoryLTV()` bounds the speed with 0 and
100 m/s (`mpc_solver.cpp:54`) where the model has `vel_max`.

### Localization

One axis, the direction of travel; time in periods of the loop; places relative
to the vehicle, so that they all fall back by what it moves. `Sentence` is
`update_position()` (`Changed`, `Confirms`, `Derived`, `Filtered`, `Advances`,
`Refreshes` name its conditions and assignments), `ImuPacket` the IMU receiver.
`Period` is `has_gps_imu_pose()` and, if it agrees, `get_gps_imu_pose()`:
`Initialize`, `Correct` or `Predict`; else `Blind`. Sentences and packets come
any number of times in any order between periods, none or many, with the current
place or the last one again, with or without a reported speed. Both functions of
the loop read the receivers separately; a packet between the two readings acts
as one that came just before the first, so one step for both loses nothing.
Gains and filters end on the next whole step. Lateral correction, the projection
to UTM and the source `ego_udp`, which has no time-out and no memory, are left out.

### ReceiverExit

The main thread constructs receivers one after the other (`Bind`: the thread
starts while the object is still the base class; `Derive`), or a socket cannot be
bound and those before are destroyed in reverse order (`Destroy`, `Close`,
`Join`). A receiver thread tests `running_`, calls `recv()` and parses. On Linux a
`recv()` that waits is not ended by `close()` in another thread: only `Arrive`
ends it. `parse_data()` on an object that is no longer, or not yet, derived is a
call of a pure virtual function ("aborted").

### MGeo and BehaviorNode

`FindForwardDistance` and `FindNextStopLine` are what precedes the loop of each
search; the loops are `ForwardSearch` and `StopSearch`, recursive functions on what
the search knows (`Searches`: the queue and the links expanded), translated with
the order of expansion and the place where each returns. `WalkLengths` and
`FirstStopLines` say what was meant, over all ways.

`BehaviorNode` has two actions, the early return of `runOnce()` (`Waiting`) and a
full `Iterate`: `spinOnce()` and `runOnce()` run on one thread, and of the queued
messages only the last of each topic leaves a trace. `Feature` is
`FeatureBuilder::build`, `StopLineConstraint`, `EmergencyStop` and `ForceStop` the
hard rules, `Score` the scorer, `Decide` the decision. An object that is off the route
or off the map has no link and is skipped (`Valid`). A place is a link and
metres on it; the geometric gate in front of the topological search is a free
choice per iteration and object. Lateral places are decimetres, published speeds
decimetres per second, times to collision are cross-multiplied: the formulas stay
exact on integers. Lights keep one colour per run of the system, as the
provider's do.

## 3. Runs and bounds

| run | properties | what it shows |
|---|---|---|
| `pipeline` | `VetoHeard`, `StaleOnlyAfterGap`, `FailureStopsVehicle`, `ImplementsLease` | planner loop, network and MPC, with restarts |
| `mpc_loop` | `MemoryIsWhatWasSent`, `AssistIsBounded`, `AssistIsEarned`, `StuckIsRelaunched` | every sequence of received paths |
| `solver` | `NeverWorse`, `ResultIsFeasible`, `CostIsOfPrediction`, `PullsAway`, `SolveIsBounded` | every small problem and warm start |
| `planner_node` | `StopLineHeld`, `MergeCompletes`, `ContextIsCoherent`, `DriveNeedsLock`, `CommitIsConfirmed`, `LockHoldsPastStopLine`, `CheckpointsInOrder` | loop, state machine and vehicle together |
| `following` | `NobodyNearer`, `HandoverIsEarned` | two vehicles on a closed loop, any packets |
| `avoidance` | `LoneObstacleNeverStops`, `ContactOnlyCrawling`, `KeepsGoing` | one or two obstacles, ids that change, calls that fail |
| `localization` | `CoastingRunsOut`, `StandingIsLocated`, `MotionIsTracked` | any sequence of sentences, packets and gaps |
| `behavior_node` | `ImminentCollisionStops`, `LaneChangeIsForSlowLeader`, `RedOnEveryWayStops`, `GapIsOfSomeWay` | a forking road and one that joins again |
| `planner_node_blocked`, `receiver_exit`, `avoidance_contact`, `behavior_red` | one each | the disagreements of section 6 |

Each passing run also checks the type invariant of its module.

Bounds:

- `pipeline`: grace 2 instead of 5, so that a resend can follow a resend and still
  be followed by a third failure; the proofs cover every grace. `MaxDelay` 2: a
  datagram may be overtaken by one that is overtaken itself. `AgeBound` 3 saturates
  an observer that is only compared with the grace. One vehicle state: which one a
  path was planned for matters to nobody here.
- `solver`: horizon 3 (a first, a middle and a last control), 4 iterations, 3 line
  search steps, weights in the proportions of `mpc_params.yaml`. Vehicles up to a
  unit off the line, at 0 to 2 units of speed, against references of 0 to 2; warm
  starts that brake, accelerate and steer, and none. Every way out of the search
  is taken. `VelMax` 8 and `LinearVelMax` 13 do not bind within the horizon, as
  60 and 100 m/s do not in the code.
- `avoidance`: detection is configured as 6 and the code makes 10 of it (`Cruise *
  Lookahead` = 9 and a `VehicleLength` of 1). Candidates at the target speed see an
  obstacle from 11 positions, faster ones from 14, slower ones from 8: the order the
  configured values have too (84.8 m, 85.0 m and more, 77 m). Manoeuvres begin at 5.
  One obstacle at the left edge, in the middle and at the right edge of the lane; two
  in a row, 3 and 5 apart. Three slots for up to three objects, so none is cut.
- `avoidance_contact`: the same numbers, three obstacles side by side over everything
  a candidate can end at (`Barred`), and a slot more for the third.
- `planner_node`: a roundabout zone and a highway zone with two checkpoints, which
  ask for different numbers of confirmations; the gap between the commit distance
  and the stop line is wide enough to confirm, reject and confirm again.
  `safe_cycles` stops counting at the confirmation it is compared with. The proofs
  cover all other values. `MaxTransientFailCycles` 2 and buffers of 3: a commit may
  be cancelled one position before the stop line and the old path be sent twice
  more, so that the vehicle ends beyond the line, as `StopLineHeld` allows, and
  before the conflict. `SpacingAssumption` asks for what makes that so, resends no
  longer than the buffer. In the code: buffer 3.5 or 4 m, resends 5 x 0.05 s, so
  2.5 m at 10 m/s.
- `following`: loop of 5 positions, range 2, margins 1, grace 2, one position per
  period. Two vehicles give every handover; they are interchangeable, hence the
  symmetry (safety properties only).
- `mpc_loop`: timeout 3, recovery 2, steering box of 2 steps, so that a rate limit
  binds twice before the box does; `RunBound` is timeout plus recovery, the longest
  run a property looks at.
- `localization`: all time constants keep the order they have in the code (0.10 s
  < 0.50 s < 0.60 s < 2.0 s), at 2, 2, 3 and 5 periods, with 0.60 s plus 0.50 s
  still below 2.0 s; the vehicle moves 0 or 1 place per period; a fix pulls
  forward by at most 2 places and back by 1 before the gain. `Reach` 4 saturates
  errors: farther off, more fixes are needed, and nothing else changes. The proof
  covers every other choice.
- `behavior_node`: the map `Fork` has two stop lines after a fork, the farther on
  the link expanded last, and a parallel lane; `Rejoin` has two branches of unequal
  length that meet again and a loop. Between them they reach every return of both
  searches. Lights are yellow or green; in `behavior_red` red or green. Two slow
  vehicles, one speeding up and one slowing down, or one pedestrian or obstacle, on
  the map or off it, give every change of leader, every emergency and both lane
  changes.

## 4. Fairness

- `Pipeline`: `WF_parity(Iterate)` and `WF_used(FollowPath)`: both loops are
  `while (true)` with a sleep to the next period and block on nothing.
  `SF_<<received, newest>>(Deliver)`: the network is lossy, not dead; of the
  datagrams sent again and again the newest gets through again and again. Nothing
  is assumed of what an iteration meets, nor that restarts end; that planning fails
  for good, with a pose known, is the premise of `FailureStopsVehicle`.
- `MpcLoop`: `WF` of an iteration, for the same reason.
- `PlannerNode`: `WF_parity(Tick)` is the same for the composed node.
  `SF_ego(Advance)` says that a vehicle given paths to drive on again and again
  moves. `MergeCompletes` asks in addition that periods are *calm* from some point
  on (localization valid, the same gap safe, candidates found, the locked path
  clear): it is a premise of the property, not a fairness assumption.
- `Localization`: `WF(Move)`, the period of the loop. Nothing is assumed of the
  sensors: that each is heard in every period is the premise (`calm`) of the two
  liveness properties.
- `Avoidance`: `WF_moved(Goes)`, the periods go on; `SF_avoidVars(Advance)`, a
  vehicle that is again and again given paths that lead to the same place moves.
  `KeepsGoing` asks that the list stays one way in the end (`ListSettles`), its
  premise; calls may go on failing.
- `ReceiverExit`: `WF` of the main thread and of each receiver thread, the
  scheduler of the system. None of `Arrive`: nobody promises a datagram.
- `Solver`, `Following`, `MergeFsm` and `BehaviorNode` state safety only;
  `SolveIsBounded` needs no fairness, it bounds the steps.

## 5. Proofs

All proofs hold for every value of the constants allowed by the assumptions of
the module (`...Assumption`), which say that counts are naturals, ranges are not
inverted and markers differ from values.

- **PlannerLoop and Pipeline.** `VetoedPathNeverSent` is not inductive: it says
  nothing of `last_cp`, which a later resend sends. `IInv` adds that while a path is
  kept the streak is within the grace and counts its resends, and its age too unless
  localization was lost (`KeptPathWithinGrace`), that a veto has replaced the kept
  path (`VetoDiscards`), that a path sent is the one kept, and that nothing is
  sent before a pose is known. `VetoIsFinal`,
  `ResendsAreBounded` and `StalenessNeedsGap` follow; `LoopImplementsLease` maps
  the allowance of the lease to what the streak leaves of the grace, and each
  branch of the loop to a grant, a reuse, a suspension or a revocation. A restart
  of the planner is a revocation (`PipelineImplementsLease`), and keeps `IInv`.
  `VerdictIsHeard` needs the network too: a datagram from before the verdict is
  further behind than every one sent since, and once one of those has been stored
  nothing from before can be the newest. It holds for every delay and every grace.
  `LastDriveIsBounded` is the measure behind `FailureStopsVehicle`. `DriveLeft` is
  what the streak leaves of the grace, each reuse worth `MaxDelay + 2` datagrams, plus
  how many datagrams must still be sent before the youngest drive datagram under way
  is too old to arrive. It never exceeds
  `MaxTransientFailCycles * (MaxDelay + 2) + MaxDelay + 1`, only a success of `Plan()`
  raises it, and each other iteration that sends something and leaves a drive datagram
  under way lowers it, whatever is lost, doubled, reordered or restarted.
- **MergeFsm** (in `PlannerNode_proofs`). `IInv` = `Good(merge)` (type, index and the coherence of flags and
  phase) and `CountIsCovered` (`safe_cycles` never exceeds the calls in a row the
  observer has counted for the same gap, checkpoint and zone). Each transformer of
  the context preserves `Good`; a call is composed of them. From it `TypeCorrect`,
  `ContextStaysCoherent`, `CommitsAreConfirmed`, `LocksHold`,
  `CheckpointsPassInOrder` and, with a lemma on what a call may answer,
  `DrivingNeedsLock`.
- **PlannerNode.** `NodeBase` is `IInv` with the types of loop and vehicle, that the
  machine was last called where the vehicle is or was (`Located`), and that the loop
  keeps a path of `Plan()` exactly when the vehicle has one (`KeptIsKnown`). From it
  `NodeTypeCorrect` and that every step of the node is one of the machine
  (`NodeImplementsMergeFsm`) and one of the loop (`NodeImplementsLoop`), so that what
  is proved of either holds of the node: `NodeMerges`, and the lease and the veto
  of `Pipeline_proofs`. `StopLineIsHeld` needs to know how far the kept path leads.
  `StopInv` says: outside of all zones, how far the next line is (`OutsideZones`);
  in a zone without a lock, that ego plus the resends that are left, or else the
  limit of the path, ends short of the bound (`InsideZone`, `PathIsLimited`); that
  the conflict passed last lies behind (`BehindConflict`); and that a locked vehicle
  has not reached the next one (`LockedToConflict`). It rests on `SpacingAssumption`:
  zones do not overlap, the line of a checkpoint lies beyond the checkpoint before,
  and the resends are no longer than the stop buffer. `ConflictIsReachedLocked`
  follows. The property was first stated from the line itself on; the proof showed
  that to be false for more than one resend, since a commit may be cancelled right
  in front of it, and TLC confirms it.
  `WaitIsBounded` is the measure behind `MergeCompletes`: a vehicle that waits in a
  calm period is confirming a gap, and from there to the next calm period that it
  waits in, `safe_cycles` has grown by one for the same checkpoint. As it never
  reaches `confirm` without a lock, fewer than `confirm` periods are waited, whatever
  rejections, cancellations and stops came before.
- **Following** (in `Contexts_proofs`). The types are inductive. `NobodyIsOverlooked` needs no further
  invariant but three facts: somebody is found when somebody is there (least
  element, `NatFacts`), the handover leaves a leader at most the margin behind the
  one found, and a kept leader that is itself the nearest has the gap seen in this
  call. `LeadersAreKept` splits on what `KeepLeader` ends in.
- **Avoidance** (in `Contexts_proofs`). A candidate moves, so its span is positive,
  and of any candidates there is a first one of least cost (`BestIsCandidate`); from
  that the types (`AvoidTypes`), with the fact that a path that drives is within the
  grace. `OnlyCrawlingTouches` is about the obstacle the filter leaves out.
  `ResolveFacts` says what one call may drive into within two positions: nothing that
  is listed, unless the call leaves tracking something; and if something was tracked
  before, only what is beyond `ShiftStart`. The invariant is `PathsAreClear`: a
  planned path starts where the vehicle is or one position behind, in which case
  it was sent here by failing calls only (`PathIsRecent`); while nothing is tracked
  it is clear of every obstacle for two positions (`KeptPathIsClear`); while something
  is, the next place is free or has been led to by no more calls than failed in a row
  and one (`TrackedIsSeen`). That last case is real (a call that acquires an
  obstacle right in front of the vehicle plans through it), and `ShortResend` is
  what ends it before the vehicle advances. Ids need no invariant: whatever object
  has the id, the call that leaves it out has refreshed its place from the same
  list. The theorem supposes that no obstacle falls off the list (`AllListed`); one
  that does is invisible to the code. Tried first with the old rule of the model,
  which counted calls with the same lateral end, the proof failed: two paths with
  the same end and different lengths are not at the same place one position on.
  `StandingIsGivenAWay` and `StandingUntilMoving` are about a vehicle that stands
  where the road is free, the core of `KeepsGoing`: each call sends a path to drive on
  and lowers `CallsToGo`, and nothing but moving on ends it (`CrawlIsCurrent`: the
  path it has is the one the next call would plan).
  `ApproachNeverStops` is `LoneObstacleNeverStops` up to where the manoeuvre is due.
  `BeforeManoeuvre` says that calls do not fail, that at most one object of the list
  is in the lane and still farther than `ShiftStart`, and that the others are beside
  it. The invariant `Approach`: the vehicle and its path are on the centre line, and
  nothing is tracked but that object, where the list has it (`TracksTheOne`). Then
  the candidate that stays on the centre line survives the filter, so there is one,
  and the one of least cost ends there too: it costs less than one of the same
  duration that leaves the centre line. It supposes `SlowerSeesLess`: no duration is
  longer than the lookahead, and one of the sampled speeds is so slow that an
  obstacle is registered before a candidate with it sees it, and so near the target
  speed that it costs less than a lateral step. The filter at the target speed does
  see an obstacle before (section 6), so that without such a speed the theorem is
  false. With `params.yaml:102-104`, 12 and 127-133 it is 9 m/s: 72 m in 8 s and 5.3 m
  of reach are 77.3 m of 84.8 m (80 m while it slows down to 9 m/s), and it costs 1
  against 5 at least. The instance of the run satisfies `SlowerSeesLess` (8 positions
  of 10), and TLC found `Approach` to hold there before it was proved.
- **MpcLoop.** `ProjectionRespectsLimits` shows that the rate limit cannot push a
  control out of the box. `IInv` relates the episode counter to the observer of
  standing still and the pulse to what is used up of the recovery; without these
  `AssistIsBounded` and `AssistIsEarned` are not inductive. `AssistFollowsTimeout`
  and `SteeringStaysInRate` are the action properties. `AssistIsInTime` is the core of
  `StuckIsRelaunched`: the observer of standing still is always the counter of the
  code (`RestIsCounted`), which a pulse resets, so that no vehicle has stood for
  `StuckTimeout` iterations without a pulse, after the first one as before it.
- **Solver.** For every cost and gradient over the integers (`CostIsNumber` is the
  assumption of the theorems). While a trial is projected, its first `k - 1`
  controls follow the limits (`ProjectedSoFar`); an accepted trial is projected to
  the end, so the controls follow them too (`SolverKeepsLimits`). The models are
  always those of the controls (`ModelsAreOfControls`), so that a trial is compared
  with the cost it was accepted at (`SolverNeverWorse`). `SolverIsBounded` shows
  for each action that it lowers `StepsLeft`. `SolverCostIsOfPrediction` is about the
  cost of `Tracking` (`CostIsTracking`): linearising at the controls one predicts
  with loses nothing (`LinearisingLosesNothing`), so the trajectory, and with it the
  cost, of the linear model at the accepted controls is that of the bicycle model,
  for every problem that starts so slow that the bounds of speed, which differ
  (section 2), are not met within the horizon (`BelowSpeedLimits`).
  `ClearedDrivesOrDoesNothing` is the half of `PullsAway` that holds for every weight,
  limit, step of the line search and reference: with its memory cleared the search
  begins with no control at all, and has either kept that or found something cheaper
  (`BeginsWithNothing`); and what never accelerates costs a vehicle that stands no
  less than doing nothing does (`NotDrivingIsNoBetter`), as its trajectory is to
  stand (`StandingTrajectory`). `SolverFitsLoop` shows that the first control of every
  result is `Project(raw, prev)` of some `raw` in `Controls`, which is what `MpcLoop`
  takes any solve to return. Its theorems are proved for every `RawControls`, all of
  `Controls` included, so they hold with this optimiser in it.
- **Localization.** `CoastingRunsOut` says only how long was coasted. `IInv` adds
  that a sentence leaves a baseline younger than `ConfirmTime`, and so the baseline
  is never older than that plus the age of the last sentence (`BaselineIsYoung`),
  and that what was coasted happened since the baseline (`CoastIsCovered`). A pose
  is predicted only while the last sentence is within `GpsTimeout`; the two give
  the bound (`PredictionEnds`). It rests on `ConfirmTime + GpsTimeout <= MaxBaseline`.
  `StandingComesToRest` is the measure behind `StandingIsLocated`. While the vehicle
  stands and is heard, `PeriodsLeft` counts down what has to happen in turn: the
  baseline grows old enough to be replaced, standing is confirmed, the speed of the
  pose becomes zero, and each confirmation pulls the pose nearer. No step raises
  it, each period lowers it until it is zero, and then the pose stands where the
  vehicle is (`LocatedAtTheEnd`), for all time constants and limits.
- **BehaviorNode.** The published decision is a function of the published feature
  (`Coherent`). `SomeoneWins` shows that the first candidate of best score exists,
  and `Winner` that it is chosen; the scores then decide `EmergencyIsHeeded` and
  `LaneChangesAreForSlowLeaders`, for every map, message and light.
- **MGeo** (in `BehaviorNode_proofs`). Both searches are loops over a state, written
  as recursive functions. `RecursionHasSolution` and `LoopHasResult` (`NatFacts`) give
  what such a function returns from a well-founded order in which the state falls
  (`SearchEnds`: a link is expanded, or else the queue gets shorter) and an invariant
  of the loop. The invariant has two halves: whatever is in the queue is reached by a
  walk of as many links as were expanded at most (`OnWalks`, `LeadsOn`), so that an
  answer is that of a walk, and whatever walk would give an answer still passes
  through the queue at no less than its cost there (`NothingMissed`, `Covered`), so
  that an empty queue means that there is none. `ForwardDistance` and `NextStopLine`
  state the result against the reference definitions, for every map; `GapsAreWays` and
  `RedIsHeeded` follow. That it is the shortest way, or the nearest line, is false
  (section 6).

Only model-checked:

- the liveness properties (`FailureStopsVehicle`, `StuckIsRelaunched`,
  `MergeCompletes`, `StandingIsLocated`, `MotionIsTracked`, `KeepsGoing`). To conclude
  them from fairness takes `ENABLED` and an induction that counts a measure down,
  which are beyond the prover. What the code contributes, the measure and that steps
  lower it, is proved for all of them but `MotionIsTracked`: how near the pose of a
  moving vehicle comes depends on the rounding of the gain and on where the
  correction saturates, and is a fact about numbers of the configuration;
- `LoneObstacleNeverStops` from where the manoeuvre begins on: whether a shift that is
  planned anew in every call still clears the obstacle is a matter of the distances,
  widths and durations of a configuration, and false of others. `ApproachNeverStops`
  claims the approach only;
- `PullsAway`: with steps of the line search too coarse, or steering weighted high, the
  search may rightly keep standing or accelerate only later in the horizon.

`VetoedPathNeverSent`, `ResendBudget`,
`AssistOnlyWhenStuck` and `SteeringIsRateLimited` are proved and not run.

## 6. Disagreements found

| run | what the text says | what the code does |
|---|---|---|
| `planner_node_blocked` | a path that has become dangerous is not reused (`main.cpp:149-151`) | the verdict on a locked path is forgotten when the same call then fails for another reason, and `last_cp` is resent |
| `receiver_exit` | the socket is closed first to wake the `recv()` that blocks (`receiver.cpp:38`) | nothing wakes it: when a later socket cannot be bound, `join()` may wait for ever and "UDP init failed" is never printed |
| `avoidance_contact` | where both sides are blocked the planner stops safely (`avoidance_selector.cpp:70-74`, `frenet_planner.cpp:990-992`) | both sides' candidates fail the collision check and the vehicle stops; once slow, the low-speed branch (458-479) plans to the side picked first without looking at obstacles; stop and crawl alternate until the vehicle is in the row |
| `behavior_red` | a red light 10 m ahead forces a stop (`behavior_logic_test.cpp:22-34`) | where the road forks the stop line found last replaces a nearer one (`mgeo_loader.cpp:313`), and its light may be green |

How often the last one bites on the map that is shipped (`link_set.json`, 634
links, 150 stop lines), counted outside the models: of 1902 queries, from three
places on every link, 49 answer with a line farther than the nearest, 3 of them
with the nearest inside the 30 m window (for instance from link A2256W001151,
36.5 m instead of 23.5 m). `findForwardDistance` returns at the first way found;
for 16 pairs of links that is not the shortest, by up to 55 m (A2256W001092 to
A2256W001110: 111 m instead of 56 m). `GapIsOfSomeWay` claims no more than that.

Disagreements documented without a run of their own:

- `frenet_planner/src/main.cpp:62-64`: the grace is 5 cycles, 0.25 s. The streak does
  not count cycles without localization, so after a gap a drive path of any age is
  sent again; `StaleOnlyAfterGap` claims no more than its name.
- `params.yaml:30`: ObjectInfo may be missing for 0.25 s. The last snapshot never
  expires, so a leader counts as seen for as long as no packet comes.
- `leader_selector.cpp:60`: past the seam the leader has a continuous s ahead of the
  vehicle. A leader missing while the vehicle crosses the seam keeps its s
  (`frenet_planner.cpp:623`) and seems a lap ahead until the grace is over. AVOID
  does not wrap the distance to its obstacle at the seam either.
- `mpc_controller/src/main.cpp:141-142` says that the start of a recovery keeps
  the steering plan, but `last_control` is zeroed as a whole, so the steering may
  jump. `SteeringIsRateLimited` excepts that step, and only that step. `PullsAway`
  says why both must be cleared all the same: with a braking warm start, or a brake
  sent last, a vehicle at rest stays there.
- `network.yaml:25` calls `max_prediction_time` (0.5 s) the limit of prediction
  since the last GPS fix. The code applies it to each call (`udp_manager.cpp:122`),
  and a repeated sentence renews the time-out: the limit that holds is
  `CoastingRunsOut`, 0.6 s plus 0.5 s.
- `frenet_planner.cpp:547-552` says that obstacles are registered at a distance always
  longer than what the collision filter looks ahead. With the configured values they
  are registered at 84.8 m (10 m/s x 8 s + 4.5 m + 0.3 m), while a candidate at
  10 m/s is examined for an obstacle of the same length up to 85.0 to 85.3 m, as its
  margin grows with time (`collision_checker.cpp:98`, 118), and one at 12 m/s farther.
  So for some calls only slower candidates are left, and the vehicle slows down a
  little. It is not stopped, which is what the comment is about: see
  `LoneObstacleNeverStops` and `ApproachNeverStops`.
- An obstacle that is acquired when it is already within `shift_start_distance` is
  left out of the collision filter for that one call, as its manoeuvre begins only
  with the next (`frenet_planner.cpp:882-894`); `ContactOnlyCrawling` holds because
  that path is replaced in time (`ShortResend`).
- `behavior_params.yaml` has a `red_light_stop_distance` that no code reads.

## 7. Not modelled

- Polynomials, reference line, Frenet conversion and the candidates of FOLLOWING,
  STOP and MERGE stand behind free choices: `MergeFsm`, `PlannerNode` and
  `Following` allow every verdict the geometry could give, so their safety
  properties do not depend on it. `Candidates` has the candidates of LANE_KEEPING
  and AVOID on a straight road; the rounding of curvature and acceleration limits
  there is chosen, not derived.
- `MergeFsm` asks nothing of a path that AVOID takes through a merge zone
  (`detoured` exempts it in `StopLineHeld`), and `Avoidance` has no zone. Braking
  distance is inside "the vehicle stands in the period after a stop path".
- `Avoidance`: moving objects, obstacles that appear or leave, and the closed
  road. A stranger stands for the rest of the list. `LoneObstacleNeverStops` is
  about one obstacle and a list that does not change: with two in a row, or an id
  that passes to the stranger, the code may stop, and `KeepsGoing` says that it goes
  on.
- `Pipeline`: the layout of the datagram and the two ports of the simulator behind
  the MPC. A planner that is restarted without a pose sends nothing, and the MPC
  drives on along the path it has: the code has no answer to it, and no property
  claims one.
- `Solver`: floating point. `Tracking` has small angles: the sine and the tangent
  are the angle and the cosine is 1, in the model and in its linearisation alike.
- Debug output, dashboards, logging, loaders of parameters and the ego packet of the
  bridge carry no state the control reads. `PROJECT.json` lists every component with
  its reason.

## 8. Plan

In this order:

1. `Avoidance` composed with `MergeFsm`, to remove the exemption of `StopLineHeld`
   where AVOID takes precedence (`frenet_planner.cpp:815`).
2. Candidates of FOLLOWING and of the stop before a stop line, with the braking
   distance that `frenet_planner.cpp:792` ignores.
3. `Localization` composed with `PlannerNode` in place of its "lost" choice, and
   the lateral correction.
4. Proofs to come: `LoneObstacleNeverStops` beyond the approach, from assumptions
   that relate the sampled durations to the width of the lane.
