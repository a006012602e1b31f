---------------------------- MODULE MCPlannerNode ----------------------------
(***************************************************************************)
(* Small instance of PlannerNode: the roundabout and a highway zone with    *)
(* two checkpoints, long enough before each to approach, to confirm and to  *)
(* stop.                                                                    *)
(***************************************************************************)
EXTENDS PlannerNode

MCZones ==
  <<[early |-> 0, start |-> 1, completion |-> 7, checkpoints |-> <<6>>,
     stop_buffer |-> 3, commit_distance |-> 4, confirm |-> 3],
    [early |-> 9, start |-> 9, completion |-> 20, checkpoints |-> <<14, 19>>,
     stop_buffer |-> 3, commit_distance |-> 4, confirm |-> 2]>>
==============================================================================
