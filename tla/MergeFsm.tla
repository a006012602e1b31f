------------------------------- MODULE MergeFsm -------------------------------
(***************************************************************************)
(* The merge state machine inside FrenetPlanner::Plan()                     *)
(* (frenet_planner/frenet_planner/frenet_planner.cpp).                      *)
(*                                                                         *)
(* A merge zone is a stretch of the global path with one conflict point     *)
(* (the roundabout) or several checkpoints passed in order (a highway       *)
(* zone).  Positions are integers along the path.  One action is one call   *)
(* of Plan(): the replay of a locked path with its early returns, or the    *)
(* state machine followed by candidate generation.  Geometry stands behind  *)
(* free choices: the verdict of the gap selector, whether the locked path   *)
(* is clear, whether AVOID takes the manoeuvre over, and what is left of    *)
(* the candidates.                                                          *)
(***************************************************************************)
EXTENDS Integers, Sequences

CONSTANTS
  Zones,     \* sequence of zones, the roundabout first
  GapPairs,  \* (preceding_id, following_id) of a safe gap
  OpenGap,   \* the pair (-1, -1): nobody before, nobody behind
  Length,    \* end of the modelled path
  Noise      \* how far the projected position may fall back between calls

ZoneIds == DOMAIN Zones
Conflict(z, i) == Zones[z].checkpoints[i]

Zone == [early : Nat, start : Nat, completion : Nat, checkpoints : Seq(Nat),
         stop_buffer : Nat, commit_distance : Nat, confirm : Nat \ {0}]

ASSUME ZonesAssumption ==
  /\ Length \in Nat
  /\ Noise \in Nat
  /\ OpenGap \in GapPairs
  /\ Zones \in Seq(Zone)
  /\ \A z \in ZoneIds :
       /\ Zones[z].early <= Zones[z].start
       /\ Zones[z].checkpoints # <<>>
       /\ \A i \in DOMAIN Zones[z].checkpoints :
            /\ Zones[z].start <= Conflict(z, i)
            /\ Conflict(z, i) <= Zones[z].completion

Phases == {"APPROACH", "WAIT", "COMMIT", "CROSS"}
Verdicts == {"unconfirmed", "unsafe"} \cup GapPairs
ASSUME VerdictsAssumption == {"unconfirmed", "unsafe"} \cap GapPairs = {}

(***************************************************************************)
(* What a call of Plan() returns: a path ("free": no merge; "avoid";        *)
(* "approach": towards the conflict; "yield": never past the stop line;     *)
(* "locked", "cross": through the conflict), or the reason it failed for.   *)
(***************************************************************************)
Paths == {"free", "avoid", "approach", "yield", "locked", "cross"}
Failures == {"blocked", "transient"}

VARIABLES
  merge,     \* MergeContext merge_
  position,  \* s of the last call
  result,    \* what the last call returned, "none" before the first
  (* Observers: they record what happened and guard nothing. *)
  run        \* calls in a row that found one and the same safe gap, and where

vars == <<merge, position, result, run>>

MergeContext ==
  [zone : ZoneIds \cup {0}, conflict_index : Nat, phase : Phases,
   gap_safe : BOOLEAN, gap_locked : BOOLEAN, commit_pending : BOOLEAN,
   safe_cycles : Nat, gap : GapPairs, locked_path : BOOLEAN]

\* MergeContext{}.  merge_.active is zone # 0.
NoMerge ==
  [zone |-> 0, conflict_index |-> 1, phase |-> "APPROACH",
   gap_safe |-> FALSE, gap_locked |-> FALSE, commit_pending |-> FALSE,
   safe_cycles |-> 0, gap |-> OpenGap, locked_path |-> FALSE]

NoRun == [zone |-> 0, index |-> 0, gap |-> OpenGap, count |-> 0]

Init ==
  /\ merge = NoMerge
  /\ position = 0
  /\ result = "none"
  /\ run = NoRun

Active(m) == m.zone # 0
ConflictS(m) == Conflict(m.zone, m.conflict_index)
StopS(m) == ConflictS(m) - Zones[m.zone].stop_buffer
HasNext(m) == m.conflict_index + 1 \in DOMAIN Zones[m.zone].checkpoints

\* safe_cycles is only compared with the confirmation count: counting stops there.
Bump(n, z) == IF n < Zones[z].confirm THEN n + 1 ELSE n

Committed(m) == Active(m) /\ m.gap_locked /\ m.phase = "COMMIT"
------------------------------------------------------------------------------
(***************************************************************************)
(* Which zone a position activates.  The roundabout's window grows with     *)
(* speed (`far`) from start to at most early.                               *)
(***************************************************************************)
InWindow(z, s, far) ==
  /\ s >= IF far THEN Zones[z].early ELSE Zones[z].start
  /\ s <= Zones[z].completion

Detected(s, far) == {z \in ZoneIds : InWindow(z, s, far)}

FirstDetected(s, far) ==
  IF Detected(s, far) = {} THEN 0
  ELSE CHOOSE z \in Detected(s, far) : \A y \in Detected(s, far) : z <= y

\* The context of this call: kept until the zone is completed, else started
\* afresh where a zone is detected.
Enter(m, s, far) ==
  IF Active(m)
    THEN IF s <= Zones[m.zone].completion THEN m ELSE NoMerge
    ELSE [NoMerge EXCEPT !.zone = FirstDetected(s, far)]

(***************************************************************************)
(* Passing the conflict point under a lock.                                 *)
(***************************************************************************)
Unlock(m, phase) ==
  [m EXCEPT !.gap_locked = FALSE, !.gap_safe = FALSE, !.safe_cycles = 0,
            !.phase = phase, !.locked_path = FALSE]

NextCheckpoint(m) ==
  [Unlock(m, "APPROACH") EXCEPT !.conflict_index = m.conflict_index + 1,
                                !.commit_pending = FALSE]

\* Seeded fault: the context is dropped at the conflict, not at the completion.
PassConflictForgets(m) == IF HasNext(m) THEN NextCheckpoint(m) ELSE NoMerge

PassConflict(m) ==
  IF HasNext(m) THEN NextCheckpoint(m)
  ELSE [m EXCEPT !.phase = "CROSS", !.locked_path = FALSE]

\* With the lock held the gap is not evaluated any more.
KeepLock(m, s) ==
  LET held == [m EXCEPT !.commit_pending = FALSE, !.gap_safe = TRUE]
  IN IF s < ConflictS(m) THEN held
     ELSE IF HasNext(m) THEN [NextCheckpoint(held) EXCEPT !.gap = OpenGap]
     ELSE [held EXCEPT !.phase = "CROSS"]

(***************************************************************************)
(* Without a lock the gap selector is asked.  Near the conflict a gap that  *)
(* was safe often enough in a row asks for a commit; it is not locked yet.  *)
(***************************************************************************)
\* Seeded fault: a safe verdict counts whichever gap it is about.
CountAnySafe(m, verdict) ==
  IF verdict \notin GapPairs THEN 0 ELSE Bump(m.safe_cycles, m.zone)

CountSafe(m, verdict) ==
  IF verdict \notin GapPairs THEN 0
  ELSE IF m.gap = verdict THEN Bump(m.safe_cycles, m.zone) ELSE 1

\* Seeded fault: an unconfirmed gap near the conflict still counts as safe.
EvaluateKeepsSafe(m, s, verdict) ==
  LET cycles == CountSafe(m, verdict)
      near == ConflictS(m) - s <= Zones[m.zone].commit_distance
  IN [m EXCEPT !.safe_cycles = cycles,
               !.gap = IF verdict \in GapPairs THEN verdict ELSE OpenGap,
               !.phase = IF near THEN "WAIT" ELSE "APPROACH",
               !.gap_safe = verdict # "unsafe",
               !.commit_pending = near /\ cycles >= Zones[m.zone].confirm]

\* Seeded fault: a commit is requested only ahead of the stop line.
EvaluateBeforeStopLine(m, s, verdict) ==
  LET cycles == CountSafe(m, verdict)
      near == ConflictS(m) - s <= Zones[m.zone].commit_distance
      ready == near /\ s < StopS(m) /\ cycles >= Zones[m.zone].confirm
  IN [m EXCEPT !.safe_cycles = cycles,
               !.gap = IF verdict \in GapPairs THEN verdict ELSE OpenGap,
               !.phase = IF near THEN "WAIT" ELSE "APPROACH",
               !.gap_safe = IF near THEN ready ELSE verdict # "unsafe",
               !.commit_pending = ready]

EvaluateGap(m, s, verdict) ==
  LET cycles == CountSafe(m, verdict)
      near == ConflictS(m) - s <= Zones[m.zone].commit_distance
      ready == near /\ cycles >= Zones[m.zone].confirm
  IN [m EXCEPT !.safe_cycles = cycles,
               !.gap = IF verdict \in GapPairs THEN verdict ELSE OpenGap,
               !.phase = IF near THEN "WAIT" ELSE "APPROACH",
               !.gap_safe = IF near THEN ready ELSE verdict # "unsafe",
               !.commit_pending = ready]

Track(m, s, verdict) ==
  IF ~Active(m) THEN m
  ELSE IF m.gap_locked THEN KeepLock(m, s)
  ELSE EvaluateGap(m, s, verdict)

(***************************************************************************)
(* The commit: the selected path is locked.                                 *)
(***************************************************************************)
\* Seeded fault: the commit does not clear the request.
LockStillPending(m) ==
  [m EXCEPT !.gap_locked = TRUE, !.phase = "COMMIT", !.locked_path = TRUE]

Lock(m) ==
  [m EXCEPT !.commit_pending = FALSE, !.gap_locked = TRUE,
            !.phase = "COMMIT", !.locked_path = TRUE]

\* The commit is rejected before the stop line.
Reject(m) ==
  [m EXCEPT !.gap_locked = FALSE, !.commit_pending = FALSE, !.gap_safe = FALSE,
            !.safe_cycles = 0, !.phase = "WAIT"]

PathOf(m, avoiding) ==
  IF avoiding THEN "avoid"
  ELSE IF ~Active(m) THEN "free"
  ELSE IF m.phase = "CROSS" THEN "cross"
  ELSE IF m.gap_safe THEN "approach" ELSE "yield"

(***************************************************************************)
(* The rest of the call once the early returns are passed: state machine,   *)
(* choice of the mode, candidates (outcome "valid", "blocked" or            *)
(* "transient"; a pending commit rechecks them to the end of the conflict). *)
(***************************************************************************)
PlanCandidates(m, s, verdict, far, avoiding, outcome) ==
  LET tracked == Track(Enter(m, s, far), s, verdict)
      committing == ~avoiding /\ tracked.commit_pending
  IN
  /\ position' = s
  /\ IF outcome = "valid"
       THEN /\ merge' = IF committing THEN Lock(tracked) ELSE tracked
            /\ result' = IF committing THEN "locked" ELSE PathOf(tracked, avoiding)
       ELSE /\ merge' = IF committing /\ s < StopS(tracked)
                          THEN Reject(tracked) ELSE tracked
            /\ result' = outcome

\* What the observer makes of the same call.
Observe(m, s, verdict, far) ==
  LET entered == Enter(m, s, far)
  IN run' = IF ~Active(entered) \/ entered.gap_locked \/ verdict \notin GapPairs
              THEN NoRun
              ELSE [zone |-> entered.zone, index |-> entered.conflict_index,
                    gap |-> verdict,
                    count |-> IF /\ run.zone = entered.zone
                                 /\ run.index = entered.conflict_index
                                 /\ run.gap = verdict
                                THEN Bump(run.count, entered.zone) ELSE 1]

Continue(m, s, verdict, far, avoiding, outcome) ==
  /\ PlanCandidates(m, s, verdict, far, avoiding, outcome)
  /\ Observe(m, s, verdict, far)
------------------------------------------------------------------------------
(***************************************************************************)
(* One call of Plan() at position s.                                        *)
(***************************************************************************)
Return(r, s) ==
  /\ result' = r
  /\ position' = s
  /\ run' = NoRun
  /\ UNCHANGED merge

Replaying(s) == Committed(merge) /\ s < ConflictS(merge) /\ merge.locked_path

\* The locked path is clear and at least two samples of it remain.
ReplayLockedPath(s) ==
  /\ Replaying(s)
  /\ Return("locked", s)

\* Clear, but exhausted before the conflict.
LockedPathExhausted(s) ==
  /\ Replaying(s)
  /\ Return("transient", s)

\* Blocked past the stop line: emergency stop, the lock is kept.
LockedPathBlocked(s) ==
  /\ Replaying(s)
  /\ s >= StopS(merge)
  /\ Return("blocked", s)

\* Seeded fault: the commit is cancelled wherever the vehicle is.
CancelCommitAnywhere(s, verdict, far, avoiding, outcome) ==
  /\ Replaying(s)
  /\ Continue(Unlock(merge, "WAIT"), s, verdict, far, avoiding, outcome)

\* Blocked before the stop line: the commit is cancelled.
CancelCommit(s, verdict, far, avoiding, outcome) ==
  /\ Replaying(s)
  /\ s < StopS(merge)
  /\ Continue(Unlock(merge, "WAIT"), s, verdict, far, avoiding, outcome)

\* The conflict point is reached under the lock.
ReachConflict(s, verdict, far, avoiding, outcome) ==
  /\ Committed(merge)
  /\ s >= ConflictS(merge)
  /\ Continue(PassConflict(merge), s, verdict, far, avoiding, outcome)

\* Nothing is locked, or the crossing is under way.
PlanUncommitted(s, verdict, far, avoiding, outcome) ==
  /\ Committed(merge) => ~merge.locked_path /\ s < ConflictS(merge)
  /\ Continue(merge, s, verdict, far, avoiding, outcome)

\* Nearly standing still and away from every merge: a crawl to the centre.
LowSpeedFallback(s) ==
  /\ ~Active(merge)
  /\ Detected(s, FALSE) = {}
  /\ Return("free", s)

Plan(s, verdict, far, avoiding, outcome) ==
  \/ CancelCommit(s, verdict, far, avoiding, outcome)
  \/ ReachConflict(s, verdict, far, avoiding, outcome)
  \/ PlanUncommitted(s, verdict, far, avoiding, outcome)

Next ==
  \E s \in 0..Length :
    /\ s + Noise >= position
    /\ \/ ReplayLockedPath(s)
       \/ LockedPathExhausted(s)
       \/ LockedPathBlocked(s)
       \/ LowSpeedFallback(s)
       \/ \E verdict \in Verdicts, far \in BOOLEAN, avoiding \in BOOLEAN,
             outcome \in {"valid"} \cup Failures :
            Plan(s, verdict, far, avoiding, outcome)

Spec == Init /\ [][Next]_vars

------------------------------------------------------------------------------
TypeOK ==
  /\ merge \in MergeContext
  /\ Active(merge) => merge.conflict_index \in DOMAIN Zones[merge.zone].checkpoints
  /\ position \in 0..Length
  /\ result \in Paths \cup Failures \cup {"none"}
  /\ run \in [zone : ZoneIds \cup {0}, index : Nat, gap : GapPairs, count : Nat]

(***************************************************************************)
(* The flags and the phase of the context never contradict each other,      *)
(* whatever early return, rejection or hand-over to AVOID ended the call:   *)
(* a lock is held exactly in COMMIT and CROSS, COMMIT has a path to replay, *)
(* and a request for a commit stands only in WAIT, without a lock, for a    *)
(* confirmed gap (frenet_planner.cpp:387-454, 730-810, 1111-1122,           *)
(* 1207-1218).                                                              *)
(***************************************************************************)
ContextIsCoherent ==
  /\ merge.gap_locked <=> merge.phase \in {"COMMIT", "CROSS"}
  /\ merge.phase = "COMMIT" => merge.locked_path
  /\ merge.commit_pending =>
       /\ merge.phase = "WAIT" /\ Active(merge)
       /\ merge.gap_safe /\ merge.safe_cycles >= Zones[merge.zone].confirm
  /\ ~Active(merge) => merge = NoMerge

(***************************************************************************)
(* Within the commit distance a call in MERGE mode never returns a path     *)
(* that drives on towards the conflict without a lock, and a path through   *)
(* the conflict only with it (frenet_planner.cpp:792-809, 834-841,          *)
(* 1207-1218; path_generator.cpp:517-571).                                  *)
(***************************************************************************)
DriveNeedsLock ==
  /\ result = "approach" => ConflictS(merge) - position > Zones[merge.zone].commit_distance
  /\ result \in {"locked", "cross"} => merge.gap_locked

(***************************************************************************)
(* A gap is locked only after `confirm` calls in a row found the very same  *)
(* safe gap at the very same checkpoint, counted afresh after every lock,   *)
(* cancellation, checkpoint and zone (frenet_planner.cpp:781-782, 799-800;  *)
(* params.yaml:57).                                                         *)
(***************************************************************************)
CommitIsConfirmed ==
  [][~merge.gap_locked /\ merge'.gap_locked =>
       /\ run'.count >= Zones[merge'.zone].confirm
       /\ run'.gap = merge'.gap
       /\ run'.zone = merge'.zone /\ run'.index = merge'.conflict_index]_vars

(***************************************************************************)
(* Past the stop line and before the conflict a lock is never given up: no  *)
(* block, failure or avoidance may make the vehicle start to wait there     *)
(* (frenet_planner.cpp:385-386, 421-437).                                   *)
(***************************************************************************)
LockHoldsPastStopLine ==
  [][Committed(merge) /\ position' >= StopS(merge) /\ position' < ConflictS(merge)
       => Committed(merge')]_vars

(***************************************************************************)
(* A checkpoint is left behind only by reaching it under a lock, one at a   *)
(* time, and the crossing of the last one ends only with the zone           *)
(* (frenet_planner.cpp:388-412, 740-765).                                   *)
(***************************************************************************)
CheckpointsInOrder ==
  [][/\ Active(merge) /\ Active(merge') =>
          /\ merge'.zone = merge.zone
          /\ merge'.conflict_index # merge.conflict_index =>
               /\ merge'.conflict_index = merge.conflict_index + 1
               /\ merge.gap_locked /\ position' >= ConflictS(merge)
     /\ merge.phase = "CROSS" => merge'.phase = "CROSS" \/ ~Active(merge')]_vars
==============================================================================
