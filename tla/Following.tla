------------------------------ MODULE Following ------------------------------
(***************************************************************************)
(* Which vehicle the planner follows: the FollowingContext of               *)
(* FrenetPlanner::Plan() (frenet_planner.cpp:578-667) with FindLeader       *)
(* (frenet/leader_selector.cpp) and the object snapshot it reads            *)
(* (udp_network/receiver/object_info_receiver.cpp).                         *)
(*                                                                         *)
(* The path is a closed loop of TrackLength positions.  An object either    *)
(* leads (in the lane of the ego vehicle, moving along the path), and then  *)
(* its position counts, or it does not, and the code treats all those alike *)
(* (Elsewhere).  One step is one call of Plan(): the vehicle has moved, and *)
(* a packet has come in since the last call or not.                         *)
(***************************************************************************)
EXTENDS Integers

CONSTANTS
  Ids,           \* object ids
  TrackLength,   \* length of the closed path
  SearchRange,   \* effective max_leader_search_s
  ExitMargin,    \* exit_search_margin
  SwitchMargin,  \* leader_switch_margin
  Grace,         \* dropout_grace_cycles
  Stride         \* how far any vehicle moves in a cycle, at most

ASSUME FollowingAssumption ==
  /\ TrackLength \in Nat \ {0}
  /\ SearchRange \in Nat /\ ExitMargin \in Nat /\ SwitchMargin \in Nat
  /\ SearchRange + ExitMargin < TrackLength
  /\ Grace \in Nat /\ Stride \in Nat

Positions == 0..TrackLength - 1
Elsewhere == -1

VARIABLES
  objects,    \* what get_objects() returns: the last packet, by object id
  ego_s,        \* s of the last call
  following,  \* FollowingContext following_
  (* Observer. *)
  searched    \* the last call came to the search for a leader

vars == <<objects, ego_s, following, searched>>

\* A packet lists some of the objects; the list may be empty.
Packets == UNION {[seen -> Positions \cup {Elsewhere}] : seen \in SUBSET Ids}

NoLeader == [active |-> FALSE]
Leader(id, s, missing) == [active |-> TRUE, id |-> id, s |-> s, missing |-> missing]

Init ==
  /\ objects = [i \in {} |-> Elsewhere]
  /\ ego_s = 0
  /\ following = NoLeader
  /\ searched = FALSE
------------------------------------------------------------------------------
Leads(objs, i) == i \in DOMAIN objs /\ objs[i] # Elsewhere

\* The distance ahead along the loop; an object level with the vehicle or
\* behind it is a lap ahead.
Gap(o, s) == IF o - s > 0 THEN o - s ELSE o - s + TrackLength

\* Leaders FindLeader() considers, and those it may return.
InSearch(objs, s) == {i \in Ids : Leads(objs, i) /\ Gap(objs[i], s) <= SearchRange}

Nearest(objs, s) ==
  {i \in InSearch(objs, s) : \A j \in InSearch(objs, s) : Gap(objs[i], s) <= Gap(objs[j], s)}

\* Seeded fault: a missing leader is predicted without end.
KeepLeaderForEver(f, objs, s, step) ==
  IF ~f.active THEN f
  ELSE IF Leads(objs, f.id) /\ Gap(objs[f.id], s) <= SearchRange + ExitMargin
    THEN Leader(f.id, s + Gap(objs[f.id], s), 0)
  ELSE IF f.id \in DOMAIN objs THEN NoLeader
  ELSE Leader(f.id, f.s + step, f.missing + 1)

\* The leader of the last call: seen and still leading, seen and leading no
\* more, or missing and predicted for a while, by step positions a call (its
\* last known speed).
KeepLeader(f, objs, s, step) ==
  IF ~f.active THEN f
  ELSE IF Leads(objs, f.id) /\ Gap(objs[f.id], s) <= SearchRange + ExitMargin
    THEN Leader(f.id, s + Gap(objs[f.id], s), 0)
  ELSE IF f.id \in DOMAIN objs \/ f.missing + 1 > Grace THEN NoLeader
  ELSE Leader(f.id, f.s + step, f.missing + 1)

\* Seeded fault: the margin is not asked for.
HandOverEagerly(f, n, objs, s) ==
  IF ~f.active \/ (n # f.id /\ Gap(objs[n], s) < f.s - s)
    THEN Leader(n, s + Gap(objs[n], s), 0) ELSE f

\* Seeded fault: once there is a leader nobody else is considered.
NeverHandOver(f, n, objs, s) ==
  IF ~f.active THEN Leader(n, s + Gap(objs[n], s), 0) ELSE f

\* The nearest one becomes leader if there is none, or if it is nearer than
\* the present one by more than the margin.
HandOver(f, n, objs, s) ==
  IF ~f.active \/ (n # f.id /\ Gap(objs[n], s) + SwitchMargin < f.s - s)
    THEN Leader(n, s + Gap(objs[n], s), 0) ELSE f

Track(objs, s) ==
  \E step \in 0..Stride :
    LET kept == KeepLeader(following, objs, s, step)
    IN  IF Nearest(objs, s) = {} THEN following' = kept
        ELSE \E n \in Nearest(objs, s) : following' = HandOver(kept, n, objs, s)

\* The snapshot of this call: a new packet, or the last one once more, however
\* old it is.
Receive == objects' \in Packets

Move == \E step \in 0..Stride : ego_s' = (ego_s + step) % TrackLength

Follow ==
  /\ Receive /\ Move
  /\ Track(objects', ego_s')
  /\ searched' = TRUE

\* A call that replays a locked path or falls back to low speed returns before
\* it looks for a leader.
ReturnEarly ==
  /\ Receive /\ Move
  /\ UNCHANGED following
  /\ searched' = FALSE

Next == Follow \/ ReturnEarly

Spec == Init /\ [][Next]_vars

------------------------------------------------------------------------------
TypeOK ==
  /\ objects \in Packets
  /\ ego_s \in Positions
  /\ following = NoLeader \/ following \in
       [active : {TRUE}, id : Ids, s : Nat, missing : 0..Grace]
  /\ searched \in BOOLEAN

(***************************************************************************)
(* No vehicle in the lane is overlooked by a call that looks: whatever leader is kept, predicted *)
(* or handed over, every vehicle in the search range is at most the margin  *)
(* nearer than it (frenet_planner.cpp:626-654: "looking only at the kept id *)
(* would miss a vehicle that is in fact nearer").                           *)
(***************************************************************************)
NobodyNearer ==
  searched => \A i \in InSearch(objects, ego_s) :
    following.active /\ following.s - ego_s <= Gap(objects[i], ego_s) + SwitchMargin

(***************************************************************************)
(* The leader does not alternate: one that is still seen leading in its     *)
(* range is given up only for a vehicle nearer by more than the margin      *)
(* (frenet_planner.cpp:627-628, 637); one that is missing only for such a   *)
(* vehicle or after the grace (614-621).                                    *)
(***************************************************************************)
HandoverIsEarned ==
  [][following.active /\ ~(following'.active /\ following'.id = following.id) =>
       \/ following.id \in DOMAIN objects' /\ ~Leads(objects', following.id)
       \/ Leads(objects', following.id)
            /\ Gap(objects'[following.id], ego_s') > SearchRange + ExitMargin
       \/ following.id \notin DOMAIN objects' /\ following.missing = Grace
       \/ /\ following'.active
          /\ following'.s - ego_s' + SwitchMargin <
               IF Leads(objects', following.id) THEN Gap(objects'[following.id], ego_s')
               ELSE following.s + Stride - ego_s']_vars
==============================================================================
