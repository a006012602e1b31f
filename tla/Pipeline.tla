------------------------------ MODULE Pipeline -------------------------------
(***************************************************************************)
(* frenet_planner_node and mpc_node with the PlannedPath datagrams between  *)
(* them: PlannerLoop, a network that loses, duplicates, delays and reorders *)
(* datagrams, the receiver thread of mpc_node and the loop that reads what  *)
(* it stored.  A datagram has no number and no time stamp, the receiver     *)
(* stores whatever comes and the MPC never asks how old it is.  Either      *)
(* process may be restarted by hand; the other one is not told.             *)
(***************************************************************************)
EXTENDS PlannerLoop

\* A datagram arrives before MaxDelay + 1 later ones are sent, or never.
CONSTANT MaxDelay

ASSUME DelayAssumption == MaxDelay \in Nat

VARIABLES
  network,   \* what may still arrive
  received,  \* path_ of PlannedPathReceiver, None while has_data_ is false
  used,      \* path the last iteration of mpc_node followed, None at first
  (* Observers: they record what happened and guard nothing. *)
  newest,    \* how many datagrams were sent after the newest one ever stored
  told       \* a datagram sent since the last collision verdict was stored

pipelineVars == <<vars, network, received, used, newest, told>>

\* behind: datagrams sent later; vetoed: the path was planned before the last
\* collision verdict; before: the datagram was sent before it.  late: a newer
\* datagram had been stored already.
InFlight == [path : PathKinds, behind : 0..MaxDelay,
             vetoed : BOOLEAN, before : BOOLEAN]
Stored == [path : PathKinds, vetoed : BOOLEAN, late : BOOLEAN]

Later(n) == IF n <= MaxDelay THEN n + 1 ELSE n

PipelineInit ==
  /\ Init
  /\ network = {}
  /\ received = None
  /\ used = None
  /\ newest = MaxDelay + 1
  /\ told = FALSE
------------------------------------------------------------------------------
(***************************************************************************)
(* send_planned_path(): sendto() and no answer.                             *)
(***************************************************************************)
Overtaken ==
  {[d EXCEPT !.behind = @ + 1] : d \in {e \in network : e.behind < MaxDelay}}

Publish(before) ==
  IF out' = None THEN network' = before
  ELSE network' = before \cup
         {[path |-> out'.path, behind |-> 0, before |-> FALSE,
           vetoed |-> vetoed' /\ out'.path \in PlanKinds]}

Number == newest' = IF out' = None THEN newest ELSE Later(newest)

\* An iteration of the planner loop without a collision verdict.
PlanAndSend ==
  /\ \/ LocalizationLost
     \/ \E vs \in VehicleStates :
          \/ \E k \in PlanKinds : PlanSucceeds(vs, k)
          \/ ResendLastPath(vs)
          \/ GiveUp(vs)
  /\ Publish(IF out' = None THEN network ELSE Overtaken)
  /\ Number
  /\ UNCHANGED <<received, used, told>>

\* One with: every path planned so far is out of date from now on.
Outdated(d) == [d EXCEPT !.vetoed = d.path \in PlanKinds]

Veto ==
  /\ \E vs \in VehicleStates : CollisionBlocked(vs)
  /\ Publish({[Outdated(d) EXCEPT !.before = TRUE] : d \in Overtaken})
  /\ Number
  /\ received' = IF received = None THEN None ELSE Outdated(received)
  /\ told' = FALSE
  /\ UNCHANGED used

\* Seeded fault: a path of one sample is taken for no path.
ParseDropsOnePoint(d) ==
  /\ received' = IF d.path # "stop" THEN
                   [path |-> d.path, vetoed |-> d.vetoed, late |-> d.behind > newest]
                 ELSE received
  /\ newest' = IF d.behind < newest THEN d.behind ELSE newest
  /\ told' = (told \/ ~d.before)
  /\ UNCHANGED <<vars, network, used>>

(***************************************************************************)
(* receive_loop() and parse_data(): whatever arrives replaces path_ under   *)
(* the mutex.  A datagram may arrive twice.                                 *)
(***************************************************************************)
ParseData(d) ==
  /\ received' = [path |-> d.path, vetoed |-> d.vetoed, late |-> d.behind > newest]
  /\ newest' = IF d.behind < newest THEN d.behind ELSE newest
  /\ told' = (told \/ ~d.before)
  /\ UNCHANGED <<vars, network, used>>

(***************************************************************************)
(* An iteration of mpc_node: it has_planned_path() and copies it.           *)
(***************************************************************************)
FollowPath ==
  /\ received # None
  /\ used' = received.path
  /\ UNCHANGED <<vars, network, received, newest, told>>

(***************************************************************************)
(* Restarts.  The planner forgets its last path and the last pose with it,  *)
(* the MPC the path it followed.                                            *)
(***************************************************************************)
RestartPlanner ==
  /\ plan_fail_streak' = 0 /\ last_cp' = None /\ last_vehicle_state' = None
  /\ out' = None
  /\ Observe(AgeBound, 0, FALSE, FALSE)
  /\ UNCHANGED <<network, received, used, newest, told>>

RestartMpc ==
  /\ received' = None
  /\ used' = None
  /\ UNCHANGED <<vars, network, newest, told>>

Iterate == PlanAndSend \/ Veto

PipelineNext ==
  \/ Iterate
  \/ \E d \in network : ParseData(d)
  \/ FollowPath
  \/ RestartPlanner
  \/ RestartMpc

PipelineSpec == PipelineInit /\ [][PipelineNext]_pipelineVars

(***************************************************************************)
(* Both loops run for ever, and the network is lossy, not dead: of the      *)
(* datagrams sent again and again, the newest gets through again and again. *)
(***************************************************************************)
Deliver == \E d \in network : d.behind = 0 /\ ParseData(d)

FairPipelineSpec ==
  PipelineSpec /\ WF_parity(Iterate) /\ SF_<<received, newest>>(Deliver) /\ WF_used(FollowPath)

------------------------------------------------------------------------------
PipelineTypeOK ==
  /\ TypeOK
  /\ network \subseteq InFlight
  /\ received \in Stored \cup {None}
  /\ used \in PathKinds \cup {None}
  /\ newest \in 0..MaxDelay + 1
  /\ told \in BOOLEAN

(***************************************************************************)
(* Once the MPC has heard of a collision verdict (any datagram sent since), *)
(* the path it reads next was planned after the verdict, whatever failures, *)
(* resends, gaps and restarts follow; the exception is a datagram from      *)
(* before that arrives after a newer one, which nothing in it gives away    *)
(* (frenet_planner/src/main.cpp:143-156, planned_path_sender.cpp:28-71).    *)
(***************************************************************************)
VetoHeard == told /\ received # None /\ received.vetoed => received.late

(***************************************************************************)
(* When planning fails for good, the vehicle is in the end given no path to *)
(* drive on, although datagrams are lost, doubled and reordered and the     *)
(* MPC follows whatever came last (mpc_controller/src/main.cpp:104).  A     *)
(* planner restarted before it knows a pose sends nothing at all, so this   *)
(* is about a planner that knows one.                                       *)
(***************************************************************************)
Failing == age > 0 /\ last_vehicle_state # None
FailureStopsVehicle == <>[]Failing => <>[](used # "drive")
==============================================================================
