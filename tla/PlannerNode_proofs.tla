-------------------------- MODULE PlannerNode_proofs --------------------------
(***************************************************************************)
(* Theorems about the merge state machine and about the planner node in     *)
(* closed loop, for all zones, gaps, positions and resend budgets.  First   *)
(* the machine alone (Spec); then the node (NodeSpec), which implements it, *)
(* and the stop line, which takes the machine, the loop and the vehicle     *)
(* together.                                                                *)
(***************************************************************************)
EXTENDS PlannerNode, NatFacts, TLAPS

\* What the assumption on the zones says of one of them.
LEMMA ZoneTypes ==
  ASSUME NEW z \in ZoneIds
  PROVE  /\ Zones[z].start \in Nat /\ Zones[z].early \in Nat
         /\ Zones[z].completion \in Nat
         /\ Zones[z].stop_buffer \in Nat /\ Zones[z].commit_distance \in Nat
         /\ Zones[z].confirm \in Nat /\ Zones[z].confirm > 0
         /\ 1 \in DOMAIN Zones[z].checkpoints
         /\ \A i \in DOMAIN Zones[z].checkpoints :
              i \in Nat /\ i > 0 /\ Conflict(z, i) \in Nat
<1>1. Zones[z] \in Zone
  BY ZonesAssumption DEF ZoneIds
<1>2. Zones[z].checkpoints \in Seq(Nat) /\ Zones[z].checkpoints # <<>>
  BY <1>1, ZonesAssumption DEF Zone
<1>3. 1 \in DOMAIN Zones[z].checkpoints
  BY <1>2
<1>4. ASSUME NEW i \in DOMAIN Zones[z].checkpoints
      PROVE  i \in Nat /\ i > 0 /\ Conflict(z, i) \in Nat
  BY <1>2 DEF Conflict
<1>5. QED
  BY <1>1, <1>3, <1>4 DEF Zone

LEMMA ZoneIdsArePositive == ZoneIds \subseteq Nat \ {0}
BY ZonesAssumption DEF ZoneIds

LEMMA FirstDetectedIsDetected ==
  ASSUME NEW s, NEW far, Detected(s, far) # {}
  PROVE  FirstDetected(s, far) \in Detected(s, far)
<1>1. Detected(s, far) \in SUBSET Nat
  BY ZoneIdsArePositive DEF Detected
<1>2. \E z \in Detected(s, far) : \A y \in Detected(s, far) : z <= y
  BY <1>1, LeastElement
<1>3. QED
  BY <1>2 DEF FirstDetected

LEMMA FirstDetectedType ==
  ASSUME NEW s, NEW far
  PROVE  FirstDetected(s, far) \in ZoneIds \cup {0}
<1>1. CASE Detected(s, far) # {}
  BY <1>1, FirstDetectedIsDetected DEF Detected
<1>2. QED
  BY <1>1 DEF FirstDetected

------------------------------------------------------------------------------
(***************************************************************************)
(* The inductive invariant of the context: ContextIsCoherent, and the       *)
(* crossing is the one of the last checkpoint.                              *)
(***************************************************************************)
Typed(m) ==
  /\ m \in MergeContext
  /\ Active(m) => m.conflict_index \in DOMAIN Zones[m.zone].checkpoints

LockMatchesPhase(m) == m.gap_locked <=> m.phase \in {"COMMIT", "CROSS"}

CommitHasPath(m) == m.phase = "COMMIT" => m.locked_path

RequestIsConfirmed(m) ==
  m.commit_pending =>
    /\ m.phase = "WAIT" /\ Active(m)
    /\ m.gap_safe /\ m.safe_cycles >= Zones[m.zone].confirm

InactiveIsFresh(m) == ~Active(m) => m = NoMerge

CrossesLast(m) == m.phase = "CROSS" => ~HasNext(m)

Good(m) ==
  /\ Typed(m)
  /\ LockMatchesPhase(m)
  /\ CommitHasPath(m)
  /\ RequestIsConfirmed(m)
  /\ InactiveIsFresh(m)
  /\ CrossesLast(m)

LEMMA NoMergeGood == Good(NoMerge)
<1>1. NoMerge \in MergeContext
  BY ZonesAssumption DEF NoMerge, MergeContext, Phases
<1>2. QED
  BY <1>1 DEF Good, Typed, LockMatchesPhase, CommitHasPath, RequestIsConfirmed,
              InactiveIsFresh, CrossesLast, NoMerge, Active

LEMMA EnterGood ==
  ASSUME NEW m, Good(m), NEW s, NEW far
  PROVE  Good(Enter(m, s, far))
<1>1. CASE Active(m)
  BY <1>1, NoMergeGood DEF Enter
<1>2. CASE ~Active(m)
  <2> DEFINE z == FirstDetected(s, far)
             e == [NoMerge EXCEPT !.zone = z]
  <2>1. z \in ZoneIds \cup {0}
    BY FirstDetectedType
  <2> HIDE DEF z
  <2>2. e \in MergeContext
    BY <2>1, ZonesAssumption DEF NoMerge, MergeContext, Phases
  <2>3. e.zone = z /\ e.conflict_index = 1 /\ e.phase = "APPROACH"
    BY DEF NoMerge
  <2>4. ~e.gap_locked /\ ~e.commit_pending
    BY DEF NoMerge
  <2>5. Active(e) => e.conflict_index \in DOMAIN Zones[e.zone].checkpoints
    BY <2>1, <2>3, ZoneTypes DEF Active
  <2>6. ~Active(e) => e = NoMerge
    <3>1. NoMerge \in MergeContext /\ NoMerge.zone = 0
      BY NoMergeGood DEF Good, Typed, NoMerge
    <3>2. QED
      BY <2>3, <3>1 DEF Active, MergeContext
  <2>7. Good(e)
    <3> HIDE DEF e
    <3> QED
      BY <2>2, <2>3, <2>4, <2>5, <2>6
         DEF Good, Typed, LockMatchesPhase, CommitHasPath, RequestIsConfirmed,
             InactiveIsFresh, CrossesLast
  <2>8. QED
    BY <1>2, <2>7 DEF Enter, z
<1>3. QED
  BY <1>1, <1>2

\* A lock that is given up leaves a fresh context at the same checkpoint.
LEMMA UnlockGood ==
  ASSUME NEW m, Good(m), Active(m), ~m.commit_pending,
         NEW phase \in {"APPROACH", "WAIT"}
  PROVE  Good(Unlock(m, phase))
<1> DEFINE n == Unlock(m, phase)
<1>1. m \in MergeContext
  BY DEF Good, Typed
<1>2. n \in MergeContext
  BY <1>1 DEF Unlock, MergeContext, Phases
<1>3. n.zone = m.zone /\ n.conflict_index = m.conflict_index /\ n.phase = phase
  BY <1>1 DEF Unlock, MergeContext
<1>4. ~n.gap_locked /\ ~n.commit_pending
  BY <1>1 DEF Unlock, MergeContext
<1>5. QED
  <2> HIDE DEF n
  <2>1. Good(n)
    BY <1>2, <1>3, <1>4
    DEF Good, Typed, LockMatchesPhase, CommitHasPath, RequestIsConfirmed,
           InactiveIsFresh, CrossesLast, Active, HasNext
  <2>2. QED
    BY <2>1 DEF n

LEMMA NextCheckpointGood ==
  ASSUME NEW m, m \in MergeContext, Active(m), HasNext(m)
  PROVE  /\ Good(NextCheckpoint(m))
         /\ NextCheckpoint(m).zone = m.zone
         /\ NextCheckpoint(m).conflict_index = m.conflict_index + 1
         /\ NextCheckpoint(m).phase = "APPROACH"
         /\ NextCheckpoint(m).safe_cycles = 0
         /\ ~NextCheckpoint(m).gap_locked
<1> DEFINE n == NextCheckpoint(m)
<1>1. m.conflict_index + 1 \in Nat
  BY DEF MergeContext
<1>2. n \in MergeContext
  BY <1>1 DEF NextCheckpoint, Unlock, MergeContext, Phases
<1>3. /\ n.zone = m.zone /\ n.conflict_index = m.conflict_index + 1
      /\ n.phase = "APPROACH" /\ n.safe_cycles = 0
  BY DEF NextCheckpoint, Unlock, MergeContext
<1>4. ~n.gap_locked /\ ~n.commit_pending
  BY DEF NextCheckpoint, Unlock, MergeContext
<1>5. n.conflict_index \in DOMAIN Zones[n.zone].checkpoints
  BY <1>3 DEF HasNext
<1>6. QED
  <2> HIDE DEF n
  <2>1. Good(n)
    BY <1>2, <1>3, <1>4, <1>5
    DEF Good, Typed, LockMatchesPhase, CommitHasPath, RequestIsConfirmed,
           InactiveIsFresh, CrossesLast, Active, HasNext
  <2>2. QED
    BY <2>1, <1>3, <1>4 DEF n

LEMMA PassConflictGood ==
  ASSUME NEW m, Good(m), Committed(m)
  PROVE  /\ Good(PassConflict(m))
         /\ PassConflict(m).zone = m.zone
         /\ IF HasNext(m)
              THEN /\ PassConflict(m).conflict_index = m.conflict_index + 1
                   /\ ~PassConflict(m).gap_locked
                   /\ PassConflict(m).safe_cycles = 0
              ELSE /\ PassConflict(m).conflict_index = m.conflict_index
                   /\ PassConflict(m).phase = "CROSS"
                   /\ PassConflict(m).gap_locked
<1>1. m \in MergeContext /\ Active(m)
  BY DEF Good, Typed, Committed
<1>2. CASE HasNext(m)
  BY <1>1, <1>2, NextCheckpointGood DEF PassConflict
<1>3. CASE ~HasNext(m)
  <2> DEFINE n == [m EXCEPT !.phase = "CROSS", !.locked_path = FALSE]
  <2>1. n \in MergeContext
    BY <1>1 DEF MergeContext, Phases
  <2>2. n.zone = m.zone /\ n.conflict_index = m.conflict_index /\ n.phase = "CROSS"
    BY <1>1 DEF MergeContext
  <2>3. n.gap_locked /\ ~n.commit_pending
    BY <1>1 DEF MergeContext, Committed, Good, RequestIsConfirmed
  <2>4. Good(n)
    <3> HIDE DEF n
    <3> QED
      BY <1>1, <1>3, <2>1, <2>2, <2>3
      DEF Good, Typed, LockMatchesPhase, CommitHasPath, RequestIsConfirmed,
           InactiveIsFresh, CrossesLast, Active, HasNext
  <2>5. QED
    BY <1>3, <2>2, <2>3, <2>4 DEF PassConflict
<1>4. QED
  BY <1>2, <1>3

LEMMA LockGood ==
  ASSUME NEW m, Good(m), m.commit_pending
  PROVE  /\ Good(Lock(m))
         /\ Lock(m).zone = m.zone
         /\ Lock(m).conflict_index = m.conflict_index
         /\ Lock(m).phase = "COMMIT"
         /\ Lock(m).gap = m.gap
<1> DEFINE n == Lock(m)
<1>1. m \in MergeContext /\ Active(m) /\ m.phase = "WAIT"
  BY DEF Good, Typed, RequestIsConfirmed
<1>2. n \in MergeContext
  BY <1>1 DEF Lock, MergeContext, Phases
<1>3. /\ n.zone = m.zone /\ n.conflict_index = m.conflict_index
      /\ n.phase = "COMMIT" /\ n.gap = m.gap
  BY <1>1 DEF Lock, MergeContext
<1>4. n.gap_locked /\ ~n.commit_pending /\ n.locked_path
  BY <1>1 DEF Lock, MergeContext
<1>5. QED
  <2> HIDE DEF n
  <2>1. Good(n)
    BY <1>1, <1>2, <1>3, <1>4
    DEF Good, Typed, LockMatchesPhase, CommitHasPath, RequestIsConfirmed,
           InactiveIsFresh, CrossesLast, Active, HasNext
  <2>2. QED
    BY <2>1, <1>3 DEF n

LEMMA RejectGood ==
  ASSUME NEW m, Good(m), Active(m)
  PROVE  /\ Good(Reject(m))
         /\ Reject(m).zone = m.zone
         /\ Reject(m).conflict_index = m.conflict_index
         /\ Reject(m).safe_cycles = 0
         /\ ~Reject(m).gap_locked
<1> DEFINE n == Reject(m)
<1>1. m \in MergeContext
  BY DEF Good, Typed
<1>2. n \in MergeContext
  BY <1>1 DEF Reject, MergeContext, Phases
<1>3. /\ n.zone = m.zone /\ n.conflict_index = m.conflict_index
      /\ n.phase = "WAIT" /\ n.safe_cycles = 0
  BY <1>1 DEF Reject, MergeContext
<1>4. ~n.gap_locked /\ ~n.commit_pending
  BY <1>1 DEF Reject, MergeContext
<1>5. QED
  <2> HIDE DEF n
  <2>1. Good(n)
    BY <1>2, <1>3, <1>4
    DEF Good, Typed, LockMatchesPhase, CommitHasPath, RequestIsConfirmed,
           InactiveIsFresh, CrossesLast, Active, HasNext
  <2>2. QED
    BY <2>1, <1>3, <1>4 DEF n

\* With the lock held the state stays coherent; only CROSS outlives the conflict.
LEMMA KeepLockGood ==
  ASSUME NEW m, Good(m), Active(m), m.gap_locked, NEW s
  PROVE  /\ Good(KeepLock(m, s))
         /\ ~KeepLock(m, s).commit_pending
         /\ KeepLock(m, s).zone = m.zone
         /\ s < ConflictS(m) =>
              /\ KeepLock(m, s).conflict_index = m.conflict_index
              /\ KeepLock(m, s).phase = m.phase
         /\ m.phase = "CROSS" =>
              /\ KeepLock(m, s).conflict_index = m.conflict_index
              /\ KeepLock(m, s).phase = "CROSS"
         /\ KeepLock(m, s).conflict_index \in {m.conflict_index, m.conflict_index + 1}
         /\ ~KeepLock(m, s).gap_locked => KeepLock(m, s).safe_cycles = 0
<1> DEFINE held == [m EXCEPT !.commit_pending = FALSE, !.gap_safe = TRUE]
<1>1. m \in MergeContext
  BY DEF Good, Typed
<1>2. held \in MergeContext
  BY <1>1 DEF MergeContext
<1>3. /\ held.zone = m.zone /\ held.conflict_index = m.conflict_index
      /\ held.phase = m.phase
  BY <1>1 DEF MergeContext
<1>4. held.gap_locked /\ ~held.commit_pending
  BY <1>1 DEF MergeContext
<1>5. held.locked_path <=> m.locked_path
  BY <1>1 DEF MergeContext
<1>6. KeepLock(m, s) =
        IF s < ConflictS(m) THEN held
        ELSE IF HasNext(m) THEN [NextCheckpoint(held) EXCEPT !.gap = OpenGap]
        ELSE [held EXCEPT !.phase = "CROSS"]
  BY DEF KeepLock
<1> HIDE DEF held
<1>7. Good(held)
  BY <1>2, <1>3, <1>4, <1>5
  DEF Good, Typed, LockMatchesPhase, CommitHasPath, RequestIsConfirmed,
           InactiveIsFresh, CrossesLast, Active, HasNext
<1>8. CASE s < ConflictS(m)
  BY <1>3, <1>4, <1>6, <1>7, <1>8 DEF Good, CrossesLast
<1>9. CASE ~(s < ConflictS(m)) /\ HasNext(m)
  <2> DEFINE c == NextCheckpoint(held)
             n == [c EXCEPT !.gap = OpenGap]
  <2>1. /\ Good(c)
        /\ c.zone = m.zone /\ c.conflict_index = m.conflict_index + 1
        /\ c.phase = "APPROACH" /\ ~c.gap_locked /\ c.safe_cycles = 0
    BY <1>2, <1>3, <1>9, NextCheckpointGood DEF HasNext, Active
  <2> HIDE DEF c
  <2>2. c \in MergeContext /\ ~c.commit_pending
    BY <2>1 DEF Good, Typed, RequestIsConfirmed
  <2>3. n \in MergeContext
    BY <2>2, ZonesAssumption DEF MergeContext
  <2>4. /\ n.zone = c.zone /\ n.conflict_index = c.conflict_index
        /\ n.phase = c.phase /\ n.safe_cycles = c.safe_cycles
    BY <2>2 DEF MergeContext
  <2>5. ~n.gap_locked /\ ~n.commit_pending
    BY <2>1, <2>2 DEF MergeContext
  <2>6. Good(n)
    <3> HIDE DEF n
    <3> QED
      BY <2>1, <2>3, <2>4, <2>5
      DEF Good, Typed, LockMatchesPhase, CommitHasPath, RequestIsConfirmed,
           InactiveIsFresh, CrossesLast, Active, HasNext
  <2>7. KeepLock(m, s) = n /\ m.phase # "CROSS"
    BY <1>6, <1>9 DEF c, Good, CrossesLast
  <2>8. QED
    <3> HIDE DEF n
    <3> QED
      BY <1>9, <2>1, <2>4, <2>5, <2>6, <2>7
<1>10. CASE ~(s < ConflictS(m)) /\ ~HasNext(m)
  <2> DEFINE n == [held EXCEPT !.phase = "CROSS"]
  <2>1. n \in MergeContext
    BY <1>2 DEF MergeContext, Phases
  <2>2. n.zone = m.zone /\ n.conflict_index = m.conflict_index /\ n.phase = "CROSS"
    BY <1>2, <1>3 DEF MergeContext
  <2>3. n.gap_locked /\ ~n.commit_pending
    BY <1>2, <1>4 DEF MergeContext
  <2>4. Good(n)
    <3> HIDE DEF n
    <3> QED
      BY <1>10, <2>1, <2>2, <2>3
      DEF Good, Typed, LockMatchesPhase, CommitHasPath, RequestIsConfirmed,
           InactiveIsFresh, CrossesLast, Active, HasNext
  <2>5. KeepLock(m, s) = n
    BY <1>6, <1>10
  <2>6. QED
    <3> HIDE DEF n
    <3> QED
      BY <1>10, <2>2, <2>3, <2>4, <2>5
<1>11. QED
  BY <1>8, <1>9, <1>10

LEMMA CountSafeType ==
  ASSUME NEW m, m \in MergeContext, Active(m), NEW verdict
  PROVE  CountSafe(m, verdict) \in Nat
<1>1. m.zone \in ZoneIds /\ m.safe_cycles \in Nat
  BY DEF MergeContext, Active
<1>2. Zones[m.zone].confirm \in Nat
  BY <1>1, ZoneTypes
<1>3. QED
  BY <1>1, <1>2 DEF CountSafe, Bump

\* An evaluation never locks: it asks for a commit, in WAIT, or asks for none.
LEMMA EvaluateGapGood ==
  ASSUME NEW m, Good(m), Active(m), ~m.gap_locked, NEW s, NEW verdict \in Verdicts
  PROVE  /\ Good(EvaluateGap(m, s, verdict))
         /\ ~EvaluateGap(m, s, verdict).gap_locked
         /\ EvaluateGap(m, s, verdict).zone = m.zone
         /\ EvaluateGap(m, s, verdict).conflict_index = m.conflict_index
<1> DEFINE cycles == CountSafe(m, verdict)
           near == ConflictS(m) - s <= Zones[m.zone].commit_distance
           ready == near /\ cycles >= Zones[m.zone].confirm
           safe == IF near THEN ready ELSE verdict # "unsafe"
           found == IF verdict \in GapPairs THEN verdict ELSE OpenGap
           phase == IF near THEN "WAIT" ELSE "APPROACH"
           n == [m EXCEPT !.safe_cycles = cycles, !.gap = found, !.phase = phase,
                          !.gap_safe = safe, !.commit_pending = ready]
<1>1. m \in MergeContext
  BY DEF Good, Typed
<1>2. cycles \in Nat
  BY <1>1, CountSafeType
<1>3. found \in GapPairs /\ phase \in {"APPROACH", "WAIT"}
  BY ZonesAssumption
<1>4. safe \in BOOLEAN /\ ready \in BOOLEAN
  OBVIOUS
<1>5. ready => phase = "WAIT" /\ safe /\ cycles >= Zones[m.zone].confirm
  OBVIOUS
<1>6. EvaluateGap(m, s, verdict) = n
  BY DEF EvaluateGap
<1> HIDE DEF cycles, ready, safe, found, phase
<1>7. n \in MergeContext
  BY <1>1, <1>2, <1>3, <1>4 DEF MergeContext, Phases
<1>8. /\ n.zone = m.zone /\ n.conflict_index = m.conflict_index
      /\ n.phase = phase /\ n.safe_cycles = cycles
  BY <1>1 DEF MergeContext
<1>9. n.gap_locked <=> m.gap_locked
  BY <1>1 DEF MergeContext
<1>10. (n.commit_pending <=> ready) /\ (n.gap_safe <=> safe)
  BY <1>1, <1>4 DEF MergeContext
<1> HIDE DEF n
<1>11. Good(n)
  BY <1>3, <1>5, <1>7, <1>8, <1>9, <1>10
  DEF Good, Typed, LockMatchesPhase, CommitHasPath, RequestIsConfirmed,
           InactiveIsFresh, CrossesLast, Active, HasNext
<1>12. QED
  BY <1>6, <1>8, <1>9, <1>11

------------------------------------------------------------------------------
(***************************************************************************)
(* One call, from a good context m.                                         *)
(***************************************************************************)
LEMMA TrackGood ==
  ASSUME NEW m, Good(m), NEW s \in Nat, NEW verdict \in Verdicts
  PROVE  /\ Good(Track(m, s, verdict))
         /\ Track(m, s, verdict).zone = m.zone
         /\ Track(m, s, verdict).gap_locked => m.gap_locked
         /\ m.phase = "CROSS" => Track(m, s, verdict).phase = "CROSS"
         /\ Track(m, s, verdict).conflict_index # m.conflict_index =>
              /\ Track(m, s, verdict).conflict_index = m.conflict_index + 1
              /\ m.gap_locked /\ s >= ConflictS(m)
<1>1. CASE ~Active(m)
  BY <1>1 DEF Track
<1>2. CASE Active(m) /\ m.gap_locked
  <2>1. ConflictS(m) \in Nat
    <3>1. m.zone \in ZoneIds /\ m.conflict_index \in DOMAIN Zones[m.zone].checkpoints
      BY <1>2 DEF Good, Typed, MergeContext, Active
    <3>2. QED
      BY <3>1, ZoneTypes DEF ConflictS
  <2>2. ~(s < ConflictS(m)) => s >= ConflictS(m)
    BY <2>1
  <2>3. QED
    BY <1>2, <2>2, KeepLockGood DEF Track
<1>3. CASE Active(m) /\ ~m.gap_locked
  <2>1. m.phase # "CROSS"
    BY <1>3 DEF Good, LockMatchesPhase
  <2>2. QED
    BY <1>3, <2>1, EvaluateGapGood DEF Track
<1>4. QED
  BY <1>1, <1>2, <1>3

LEMMA EnterFacts ==
  ASSUME NEW m, Good(m), NEW s, NEW far
  PROVE  /\ Enter(m, s, far).gap_locked => m.gap_locked /\ Enter(m, s, far) = m
         /\ Active(m) => Enter(m, s, far) = m \/ ~Active(Enter(m, s, far))
         /\ Enter(m, s, far) = m \/ Enter(m, s, far).safe_cycles = 0
<1>1. CASE Active(m)
  BY <1>1 DEF Enter, NoMerge, Active
<1>2. CASE ~Active(m)
  <2> DEFINE e == [NoMerge EXCEPT !.zone = FirstDetected(s, far)]
  <2>1. ~e.gap_locked /\ e.safe_cycles = 0
    BY DEF NoMerge
  <2>2. QED
    BY <1>2, <2>1 DEF Enter
<1>3. QED
  BY <1>1, <1>2

\* The context after the state machine and the candidates, as it was tracked,
\* locked or rejected.
LEMMA PlanCandidatesCases ==
  ASSUME NEW m, NEW s, NEW verdict, NEW far, NEW avoiding, NEW outcome,
         PlanCandidates(m, s, verdict, far, avoiding, outcome)
  PROVE  LET t == Track(Enter(m, s, far), s, verdict)
         IN  \/ merge' = t
             \/ merge' = Lock(t) /\ t.commit_pending
             \/ merge' = Reject(t) /\ t.commit_pending
BY DEF PlanCandidates

LEMMA PlanCandidatesGood ==
  ASSUME NEW m, Good(m), NEW s \in Nat, NEW verdict \in Verdicts, NEW far,
         NEW avoiding, NEW outcome,
         PlanCandidates(m, s, verdict, far, avoiding, outcome)
  PROVE  /\ Good(merge')
         /\ Active(m) /\ Active(merge') =>
              /\ merge'.zone = m.zone
              /\ merge'.conflict_index # m.conflict_index =>
                   /\ merge'.conflict_index = m.conflict_index + 1
                   /\ m.gap_locked /\ s >= ConflictS(m)
              /\ m.phase = "CROSS" => merge'.phase = "CROSS"
<1> DEFINE e == Enter(m, s, far)
           t == Track(e, s, verdict)
<1>1. Good(e)
  BY EnterGood
<1>2. Active(m) => e = m \/ ~Active(e)
  BY EnterFacts
<1>3. /\ Good(t) /\ t.zone = e.zone
      /\ e.phase = "CROSS" => t.phase = "CROSS"
      /\ t.conflict_index # e.conflict_index =>
           /\ t.conflict_index = e.conflict_index + 1
           /\ e.gap_locked /\ s >= ConflictS(e)
  BY <1>1, TrackGood
<1>4. \/ merge' = t
      \/ merge' = Lock(t) /\ t.commit_pending
      \/ merge' = Reject(t) /\ t.commit_pending
  BY PlanCandidatesCases
<1> HIDE DEF e, t
<1>5. t.commit_pending => Active(t) /\ t.phase # "CROSS"
  BY <1>3 DEF Good, RequestIsConfirmed
<1>6. /\ Good(merge') /\ merge'.zone = t.zone
      /\ merge'.conflict_index = t.conflict_index
      /\ t.phase = "CROSS" => merge'.phase = "CROSS"
  <2>1. CASE merge' = t
    BY <1>3, <2>1
  <2>2. CASE merge' = Lock(t) /\ t.commit_pending
    BY <1>3, <1>5, <2>2, LockGood
  <2>3. CASE merge' = Reject(t) /\ t.commit_pending
    BY <1>3, <1>5, <2>3, RejectGood
  <2>4. QED
    BY <1>4, <2>1, <2>2, <2>3
<1>7. QED
  BY <1>2, <1>3, <1>6 DEF Active

------------------------------------------------------------------------------
(***************************************************************************)
(* The observer never counts less than the planner: while safe verdicts are *)
(* counted, it has seen the same gap at the same checkpoint as often.       *)
(***************************************************************************)
RunType == [zone : ZoneIds \cup {0}, index : Nat, gap : GapPairs, count : Nat]

CountIsCovered(m, r) ==
  Active(m) /\ ~m.gap_locked /\ m.safe_cycles > 0 =>
    /\ r.zone = m.zone /\ r.index = m.conflict_index /\ r.gap = m.gap
    /\ r.count >= m.safe_cycles

LEMMA ObserveType ==
  ASSUME NEW m, Good(m), run \in RunType, NEW s, NEW far, NEW verdict,
         Observe(m, s, verdict, far)
  PROVE  run' \in RunType
<1> DEFINE e == Enter(m, s, far)
<1>1. e \in MergeContext
  BY EnterGood DEF Good, Typed
<1>2. NoRun \in RunType
  BY ZonesAssumption DEF NoRun, RunType
<1> HIDE DEF e
<1>3. CASE ~Active(e) \/ e.gap_locked \/ verdict \notin GapPairs
  BY <1>2, <1>3 DEF Observe, e
<1>4. CASE Active(e) /\ ~e.gap_locked /\ verdict \in GapPairs
  <2>1. e.zone \in ZoneIds /\ e.conflict_index \in Nat
    BY <1>1, <1>4 DEF MergeContext, Active
  <2>2. Bump(run.count, e.zone) \in Nat
    <3>1. Zones[e.zone].confirm \in Nat
      BY <2>1, ZoneTypes
    <3>2. QED
      BY <3>1 DEF Bump, RunType
  <2>3. PICK c \in Nat : run' = [zone |-> e.zone, index |-> e.conflict_index,
                                 gap |-> verdict, count |-> c]
    BY <1>4, <2>2 DEF Observe, e
  <2>4. QED
    BY <1>4, <2>1, <2>3 DEF RunType
<1>5. QED
  BY <1>3, <1>4

\* A safe verdict is counted by the planner and by the observer alike.
LEMMA EvaluationIsCovered ==
  ASSUME NEW m, Good(m), run \in RunType, NEW s, NEW far, NEW verdict \in Verdicts,
         CountIsCovered(m, run), Observe(m, s, verdict, far),
         Active(Enter(m, s, far)), ~Enter(m, s, far).gap_locked
  PROVE  CountIsCovered(EvaluateGap(Enter(m, s, far), s, verdict), run')
<1> DEFINE e == Enter(m, s, far)
           t == EvaluateGap(e, s, verdict)
<1>1. Good(e) /\ e \in MergeContext /\ e.zone \in ZoneIds
  BY EnterGood DEF Good, Typed, MergeContext, Active
<1>2. e = m \/ e.safe_cycles = 0
  BY EnterFacts
<1>3. t.zone = e.zone /\ t.conflict_index = e.conflict_index
  BY <1>1, EvaluateGapGood
<1>4. /\ t.safe_cycles = CountSafe(e, verdict)
      /\ t.gap = IF verdict \in GapPairs THEN verdict ELSE OpenGap
  BY <1>1 DEF EvaluateGap, MergeContext
<1>5. verdict \in GapPairs =>
        run' = [zone |-> e.zone, index |-> e.conflict_index, gap |-> verdict,
                count |-> IF /\ run.zone = e.zone /\ run.index = e.conflict_index
                             /\ run.gap = verdict
                            THEN Bump(run.count, e.zone) ELSE 1]
  BY DEF Observe
<1>6. Zones[e.zone].confirm \in Nat /\ Zones[e.zone].confirm > 0
  BY <1>1, ZoneTypes
<1> HIDE DEF e, t
<1> SUFFICES CountIsCovered(t, run')
  BY DEF e, t
<1>7. CASE verdict \notin GapPairs
  BY <1>4, <1>7 DEF CountSafe, CountIsCovered
<1>8. CASE verdict \in GapPairs
  <2>1. /\ run'.zone = e.zone /\ run'.index = e.conflict_index /\ run'.gap = verdict
        /\ run'.count = IF /\ run.zone = e.zone /\ run.index = e.conflict_index
                           /\ run.gap = verdict
                          THEN Bump(run.count, e.zone) ELSE 1
    BY <1>5, <1>8
  <2>2. run.count \in Nat /\ e.safe_cycles \in Nat
    BY <1>1 DEF RunType, MergeContext
  <2>3. run'.count >= CountSafe(e, verdict)
    <3>1. run'.count >= 1
      BY <1>6, <2>1, <2>2 DEF Bump
    <3>2. CASE e.gap # verdict \/ e.safe_cycles = 0
      BY <1>6, <1>8, <3>1, <3>2 DEF CountSafe, Bump
    <3>3. CASE e.gap = verdict /\ e.safe_cycles > 0
      <4>1. /\ run.zone = e.zone /\ run.index = e.conflict_index /\ run.gap = verdict
            /\ run.count >= e.safe_cycles
        BY <1>2, <3>3 DEF CountIsCovered, e
      <4>2. run'.count = Bump(run.count, e.zone)
        BY <2>1, <4>1
      <4>3. QED
        BY <1>6, <1>8, <2>2, <3>3, <4>1, <4>2 DEF CountSafe, Bump
    <3>4. QED
      BY <2>2, <3>2, <3>3
  <2>4. QED
    BY <1>3, <1>4, <1>8, <2>1, <2>3 DEF CountIsCovered
<1>9. QED
  BY <1>7, <1>8

LEMMA PlanCandidatesCovered ==
  ASSUME NEW m, Good(m), run \in RunType, CountIsCovered(m, run),
         NEW s \in Nat, NEW verdict \in Verdicts, NEW far, NEW avoiding, NEW outcome,
         PlanCandidates(m, s, verdict, far, avoiding, outcome),
         Observe(m, s, verdict, far)
  PROVE  /\ CountIsCovered(merge', run')
         /\ ~m.gap_locked /\ merge'.gap_locked =>
              /\ run'.count >= Zones[merge'.zone].confirm
              /\ run'.gap = merge'.gap
              /\ run'.zone = merge'.zone /\ run'.index = merge'.conflict_index
<1> DEFINE e == Enter(m, s, far)
           t == Track(e, s, verdict)
<1>1. Good(e) /\ (e.gap_locked => m.gap_locked)
  BY EnterGood, EnterFacts
<1>2. Good(t) /\ (t.gap_locked => e.gap_locked)
  BY <1>1, TrackGood
<1>3. CountIsCovered(t, run')
  <2>1. CASE ~Active(e)
    BY <2>1 DEF Track, CountIsCovered
  <2>2. CASE Active(e) /\ e.gap_locked
    <3>1. ~KeepLock(e, s).gap_locked => KeepLock(e, s).safe_cycles = 0
      BY <1>1, <2>2, KeepLockGood
    <3>2. t = KeepLock(e, s)
      BY <2>2 DEF Track
    <3> HIDE DEF t
    <3>3. QED
      BY <3>1, <3>2 DEF CountIsCovered
  <2>3. CASE Active(e) /\ ~e.gap_locked
    BY <2>3, EvaluationIsCovered DEF Track
  <2>4. QED
    BY <2>1, <2>2, <2>3
<1>4. \/ merge' = t
      \/ merge' = Lock(t) /\ t.commit_pending
      \/ merge' = Reject(t) /\ t.commit_pending
  BY PlanCandidatesCases
<1> HIDE DEF e, t
<1>5. CASE merge' = t
  BY <1>1, <1>2, <1>3, <1>5
<1>6. CASE merge' = Lock(t) /\ t.commit_pending
  <2>1. /\ merge'.zone = t.zone /\ merge'.conflict_index = t.conflict_index
        /\ merge'.phase = "COMMIT" /\ merge'.gap = t.gap /\ Good(merge')
    BY <1>2, <1>6, LockGood
  <2>2. merge'.gap_locked
    BY <2>1 DEF Good, LockMatchesPhase
  <2>3. /\ t.phase = "WAIT" /\ Active(t) /\ t.safe_cycles >= Zones[t.zone].confirm
        /\ ~t.gap_locked /\ t \in MergeContext
    BY <1>2, <1>6 DEF Good, RequestIsConfirmed, LockMatchesPhase, Typed
  <2>4. /\ t.zone \in ZoneIds /\ t.safe_cycles \in Nat
        /\ Zones[t.zone].confirm \in Nat /\ Zones[t.zone].confirm > 0
    <3>1. t.zone \in ZoneIds /\ t.safe_cycles \in Nat
      BY <2>3 DEF MergeContext, Active
    <3>2. QED
      BY <3>1, ZoneTypes
  <2>5. /\ run'.zone = t.zone /\ run'.index = t.conflict_index /\ run'.gap = t.gap
        /\ run'.count >= t.safe_cycles
    BY <1>3, <2>3, <2>4 DEF CountIsCovered
  <2>6. run'.count \in Nat
    BY ObserveType DEF RunType
  <2>7. QED
    BY <2>1, <2>2, <2>3, <2>4, <2>5, <2>6 DEF CountIsCovered
<1>7. CASE merge' = Reject(t) /\ t.commit_pending
  <2>1. merge'.safe_cycles = 0 /\ ~merge'.gap_locked
    BY <1>2, <1>7, RejectGood DEF Good, RequestIsConfirmed
  <2>2. QED
    BY <2>1 DEF CountIsCovered
<1>8. QED
  BY <1>4, <1>5, <1>6, <1>7

------------------------------------------------------------------------------
(***************************************************************************)
(* The inductive invariant, and what one call from it does.                 *)
(***************************************************************************)
IInv ==
  /\ Good(merge)
  /\ CountIsCovered(merge, run)
  /\ run \in RunType
  /\ position \in 0..Length
  /\ result \in Paths \cup Failures \cup {"none"}

\* The actions that end in the candidates, as one: from merge, or from what
\* the cancelled or completed commit leaves of it.
Continues(m, s) ==
  \E verdict \in Verdicts, far \in BOOLEAN, avoiding \in BOOLEAN,
     outcome \in {"valid"} \cup Failures :
    Continue(m, s, verdict, far, avoiding, outcome)

Keeps(s) ==
  /\ result' \in Paths \cup Failures /\ position' = s /\ run' = NoRun /\ UNCHANGED merge
  /\ result' \notin {"approach", "yield", "cross"}
  /\ (result' = "locked" => merge.gap_locked) /\ (result' = "free" => ~Active(merge))

LEMMA StepCases ==
  ASSUME IInv, Next
  PROVE  \E s \in 0..Length :
           \/ Keeps(s) /\ (Replaying(s) \/ (~Active(merge) /\ Detected(s, FALSE) = {}))
           \/ Committed(merge) /\ s < StopS(merge) /\ Continues(Unlock(merge, "WAIT"), s)
           \/ Committed(merge) /\ s >= ConflictS(merge) /\ Continues(PassConflict(merge), s)
           \/ ~Committed(merge) /\ Continues(merge, s)
<1>1. PICK s \in 0..Length :
        \/ ReplayLockedPath(s)
        \/ LockedPathExhausted(s)
        \/ LockedPathBlocked(s)
        \/ LowSpeedFallback(s)
        \/ \E verdict \in Verdicts, far \in BOOLEAN, avoiding \in BOOLEAN,
              outcome \in {"valid"} \cup Failures :
             Plan(s, verdict, far, avoiding, outcome)
  BY DEF Next
<1>2. CASE ReplayLockedPath(s)
  BY <1>2 DEF ReplayLockedPath, Replaying, Committed, Return, Keeps, Paths
<1>3. CASE LockedPathExhausted(s)
  BY <1>3 DEF LockedPathExhausted, Replaying, Committed, Return, Keeps, Failures
<1>4. CASE LockedPathBlocked(s)
  BY <1>4 DEF LockedPathBlocked, Replaying, Committed, Return, Keeps, Failures
<1>5. CASE LowSpeedFallback(s)
  BY <1>5 DEF LowSpeedFallback, Return, Keeps, Paths
<1>6. ASSUME NEW verdict \in Verdicts, NEW far \in BOOLEAN, NEW avoiding \in BOOLEAN,
             NEW outcome \in {"valid"} \cup Failures,
             Plan(s, verdict, far, avoiding, outcome)
      PROVE  \/ Committed(merge) /\ s < StopS(merge) /\ Continues(Unlock(merge, "WAIT"), s)
             \/ Committed(merge) /\ s >= ConflictS(merge) /\ Continues(PassConflict(merge), s)
             \/ ~Committed(merge) /\ Continues(merge, s)
  <2>1. CASE CancelCommit(s, verdict, far, avoiding, outcome)
    BY <2>1 DEF CancelCommit, Replaying, Continues
  <2>2. CASE ReachConflict(s, verdict, far, avoiding, outcome)
    BY <2>2 DEF ReachConflict, Continues
  <2>3. CASE PlanUncommitted(s, verdict, far, avoiding, outcome)
    <3>1. Committed(merge) => merge.locked_path
      BY DEF IInv, Good, CommitHasPath, Committed
    <3>2. QED
      BY <2>3, <3>1 DEF PlanUncommitted, Continues
  <2>4. QED
    BY <1>6, <2>1, <2>2, <2>3 DEF Plan
<1>7. QED
  BY <1>1, <1>2, <1>3, <1>4, <1>5, <1>6

LEMMA PlanCandidatesAnswers ==
  ASSUME NEW m, NEW s, NEW verdict, NEW far, NEW avoiding \in BOOLEAN,
         NEW outcome \in {"valid"} \cup Failures,
         PlanCandidates(m, s, verdict, far, avoiding, outcome)
  PROVE  result' \in Paths \cup Failures /\ position' = s
BY DEF PlanCandidates, PathOf, Paths, Failures

\* A continuation from a good context restores the invariant, moves at most one
\* checkpoint on, and locks only what was confirmed.
LEMMA ContinuesGood ==
  ASSUME NEW m, Good(m), CountIsCovered(m, run), run \in RunType,
         NEW s \in 0..Length, Continues(m, s)
  PROVE  /\ IInv' /\ position' = s
         /\ Active(m) /\ Active(merge') =>
              /\ merge'.zone = m.zone
              /\ merge'.conflict_index # m.conflict_index =>
                   /\ merge'.conflict_index = m.conflict_index + 1
                   /\ m.gap_locked /\ s >= ConflictS(m)
              /\ m.phase = "CROSS" => merge'.phase = "CROSS"
         /\ ~m.gap_locked /\ merge'.gap_locked =>
              /\ run'.count >= Zones[merge'.zone].confirm
              /\ run'.gap = merge'.gap
              /\ run'.zone = merge'.zone /\ run'.index = merge'.conflict_index
<1>1. PICK verdict \in Verdicts, far \in BOOLEAN, avoiding \in BOOLEAN,
           outcome \in {"valid"} \cup Failures :
             /\ PlanCandidates(m, s, verdict, far, avoiding, outcome)
             /\ Observe(m, s, verdict, far)
  BY DEF Continues, Continue
<1>2. s \in Nat
  BY ZonesAssumption
<1>3. run' \in RunType
  BY <1>1, ObserveType
<1>4. result' \in Paths \cup Failures /\ position' = s
  BY <1>1, PlanCandidatesAnswers
<1>5. Good(merge')
  BY <1>1, <1>2, PlanCandidatesGood
<1>6. CountIsCovered(merge', run')
  BY <1>1, <1>2, PlanCandidatesCovered
<1>7. IInv'
  BY <1>3, <1>4, <1>5, <1>6 DEF IInv, Good, Typed, LockMatchesPhase, CommitHasPath,
        RequestIsConfirmed, InactiveIsFresh, CrossesLast, CountIsCovered
<1>8. Active(m) /\ Active(merge') =>
        /\ merge'.zone = m.zone
        /\ merge'.conflict_index # m.conflict_index =>
             /\ merge'.conflict_index = m.conflict_index + 1
             /\ m.gap_locked /\ s >= ConflictS(m)
        /\ m.phase = "CROSS" => merge'.phase = "CROSS"
  BY <1>1, <1>2, PlanCandidatesGood
<1>9. ~m.gap_locked /\ merge'.gap_locked =>
        /\ run'.count >= Zones[merge'.zone].confirm
        /\ run'.gap = merge'.gap
        /\ run'.zone = merge'.zone /\ run'.index = merge'.conflict_index
  BY <1>1, <1>2, PlanCandidatesCovered
<1>10. QED
  BY <1>4, <1>7, <1>8, <1>9

\* What a cancelled or completed commit leaves is a good context.
LEMMA CancelledGood ==
  ASSUME IInv, Committed(merge)
  PROVE  /\ Good(Unlock(merge, "WAIT")) /\ CountIsCovered(Unlock(merge, "WAIT"), run)
         /\ Unlock(merge, "WAIT").zone = merge.zone
         /\ Unlock(merge, "WAIT").conflict_index = merge.conflict_index
         /\ ~Unlock(merge, "WAIT").gap_locked
<1>1. Good(merge) /\ Active(merge) /\ ~merge.commit_pending /\ merge \in MergeContext
  BY DEF IInv, Good, Typed, Committed, RequestIsConfirmed
<1>2. Good(Unlock(merge, "WAIT"))
  BY <1>1, UnlockGood
<1>3. /\ Unlock(merge, "WAIT").zone = merge.zone
      /\ Unlock(merge, "WAIT").conflict_index = merge.conflict_index
      /\ Unlock(merge, "WAIT").safe_cycles = 0
  BY <1>1 DEF Unlock, MergeContext
<1>4. ~Unlock(merge, "WAIT").gap_locked
  BY <1>1 DEF Unlock, MergeContext
<1>5. QED
  BY <1>2, <1>3, <1>4 DEF CountIsCovered

LEMMA PassedGood ==
  ASSUME IInv, Committed(merge)
  PROVE  Good(PassConflict(merge)) /\ CountIsCovered(PassConflict(merge), run)
<1>1. Good(merge)
  BY DEF IInv
<1>2. QED
  BY <1>1, PassConflictGood DEF CountIsCovered

LEMMA InvariantInit == Init => IInv
<1> SUFFICES ASSUME Init PROVE IInv
  OBVIOUS
<1>1. Good(merge) /\ ~Active(merge)
  BY NoMergeGood DEF Init, NoMerge, Active
<1>2. CountIsCovered(merge, run)
  BY <1>1 DEF CountIsCovered
<1>3. run \in RunType /\ position \in 0..Length
  BY ZonesAssumption DEF Init, NoRun, RunType
<1>4. QED
  BY <1>1, <1>2, <1>3 DEF Init, IInv

LEMMA InvariantStep == IInv /\ [Next]_vars => IInv'
<1> SUFFICES ASSUME IInv, [Next]_vars PROVE IInv'
  OBVIOUS
<1>1. CASE Next
  <2>1. PICK s \in 0..Length :
           \/ Keeps(s) /\ (merge.gap_locked \/ ~Active(merge))
           \/ Committed(merge) /\ s < StopS(merge) /\ Continues(Unlock(merge, "WAIT"), s)
           \/ Committed(merge) /\ s >= ConflictS(merge) /\ Continues(PassConflict(merge), s)
           \/ ~Committed(merge) /\ Continues(merge, s)
    BY <1>1, StepCases DEF Replaying, Committed
  <2>2. CASE Keeps(s) /\ (merge.gap_locked \/ ~Active(merge))
    <3>1. NoRun \in RunType
      BY ZonesAssumption DEF NoRun, RunType
    <3>2. merge' = merge /\ run' \in RunType /\ position' \in 0..Length
          /\ result' \in Paths \cup Failures
      BY <2>2, <3>1 DEF Keeps
    <3>3. CountIsCovered(merge', run')
      BY <2>2, <3>2 DEF CountIsCovered
    <3>4. Good(merge')
      BY <3>2 DEF IInv
    <3>5. QED
      BY <3>2, <3>3, <3>4 DEF IInv, Good, Typed, LockMatchesPhase, CommitHasPath,
           RequestIsConfirmed, InactiveIsFresh, CrossesLast, CountIsCovered
  <2>3. CASE Committed(merge) /\ Continues(Unlock(merge, "WAIT"), s)
    BY <2>3, CancelledGood, ContinuesGood DEF IInv
  <2>4. CASE Committed(merge) /\ Continues(PassConflict(merge), s)
    BY <2>4, PassedGood, ContinuesGood DEF IInv
  <2>5. CASE Continues(merge, s)
    BY <2>5, ContinuesGood DEF IInv
  <2>6. QED
    BY <2>1, <2>2, <2>3, <2>4, <2>5
<1>2. CASE UNCHANGED vars
  BY <1>2 DEF vars, IInv, Good, Typed, LockMatchesPhase, CommitHasPath,
     RequestIsConfirmed, InactiveIsFresh, CrossesLast, CountIsCovered
<1>3. QED
  BY <1>1, <1>2

\* Every call of Plan() keeps the flags coherent and the confirmations counted.
THEOREM Inductive == Spec => []IInv
BY InvariantInit, InvariantStep, PTL DEF Spec

------------------------------------------------------------------------------
(***************************************************************************)
(* Type correctness, for all zones: in particular the checkpoint index of   *)
(* an active context is always one of its zone's (frenet_planner.cpp:       *)
(* 704-719, whose reset is therefore never reached).                        *)
(***************************************************************************)
THEOREM TypeCorrect == Spec => []TypeOK
<1>1. IInv => TypeOK
  BY DEF IInv, TypeOK, Good, Typed, RunType
<1>2. QED
  BY <1>1, Inductive, PTL

(***************************************************************************)
(* The flags and the phase of the merge context never contradict each       *)
(* other, whichever early return ended a call of Plan().                    *)
(***************************************************************************)
THEOREM ContextStaysCoherent == Spec => []ContextIsCoherent
<1>1. IInv => ContextIsCoherent
  BY DEF IInv, ContextIsCoherent, Good, LockMatchesPhase, CommitHasPath,
         RequestIsConfirmed, InactiveIsFresh
<1>2. QED
  BY <1>1, Inductive, PTL

(***************************************************************************)
(* A gap is locked only after enough calls in a row found it safe, counted  *)
(* by an observer that forgets at every change of gap, checkpoint or zone.  *)
(***************************************************************************)
THEOREM CommitsAreConfirmed == Spec => CommitIsConfirmed
<1> DEFINE Confirmed ==
      ~merge.gap_locked /\ merge'.gap_locked =>
        /\ run'.count >= Zones[merge'.zone].confirm
        /\ run'.gap = merge'.gap
        /\ run'.zone = merge'.zone /\ run'.index = merge'.conflict_index
<1>1. IInv /\ [Next]_vars => [Confirmed]_vars
  <2> SUFFICES ASSUME IInv, Next PROVE Confirmed
    OBVIOUS
  <2>1. PICK s \in 0..Length :
           \/ Keeps(s)
           \/ Committed(merge)
           \/ Continues(merge, s)
    BY StepCases
  <2>2. CASE Keeps(s)
    BY <2>2 DEF Keeps
  <2>3. CASE Committed(merge)
    BY <2>3 DEF Committed
  <2>4. CASE Continues(merge, s)
    BY <2>4, ContinuesGood DEF IInv
  <2>5. QED
    BY <2>1, <2>2, <2>3, <2>4
<1>2. QED
  BY <1>1, Inductive, PTL DEF Spec, CommitIsConfirmed

(***************************************************************************)
(* Past the stop line and before the conflict no call of Plan() gives up a  *)
(* lock.                                                                    *)
(***************************************************************************)
THEOREM LocksHold == Spec => LockHoldsPastStopLine
<1>1. IInv /\ [Next]_vars =>
        [Committed(merge) /\ position' >= StopS(merge) /\ position' < ConflictS(merge)
           => Committed(merge')]_vars
  <2> SUFFICES ASSUME IInv, Next, Committed(merge), position' >= StopS(merge),
                      position' < ConflictS(merge)
               PROVE  Committed(merge')
    OBVIOUS
  <2>1. PICK s \in 0..Length :
           \/ Keeps(s)
           \/ s < StopS(merge) /\ Continues(Unlock(merge, "WAIT"), s)
           \/ s >= ConflictS(merge) /\ Continues(PassConflict(merge), s)
    BY StepCases
  <2>2. StopS(merge) \in Int /\ ConflictS(merge) \in Int /\ s \in Int
    <3>1. /\ merge.zone \in ZoneIds
          /\ merge.conflict_index \in DOMAIN Zones[merge.zone].checkpoints
      BY DEF IInv, Good, Typed, MergeContext, Committed, Active
    <3>2. QED
      BY <3>1, ZoneTypes, ZonesAssumption DEF StopS, ConflictS
  <2>3. CASE Keeps(s)
    BY <2>3 DEF Keeps
  <2>4. CASE s < StopS(merge) /\ Continues(Unlock(merge, "WAIT"), s)
    BY <2>2, <2>4, CancelledGood, ContinuesGood DEF IInv
  <2>5. CASE s >= ConflictS(merge) /\ Continues(PassConflict(merge), s)
    BY <2>2, <2>5, PassedGood, ContinuesGood DEF IInv
  <2>6. QED
    BY <2>1, <2>3, <2>4, <2>5
<1>2. QED
  BY <1>1, Inductive, PTL DEF Spec, LockHoldsPastStopLine

(***************************************************************************)
(* Checkpoints are passed one at a time, under a lock and at their conflict *)
(* point; the crossing of the last one ends only with the zone.             *)
(***************************************************************************)
THEOREM CheckpointsPassInOrder == Spec => CheckpointsInOrder
<1> DEFINE InOrder ==
      /\ Active(merge) /\ Active(merge') =>
           /\ merge'.zone = merge.zone
           /\ merge'.conflict_index # merge.conflict_index =>
                /\ merge'.conflict_index = merge.conflict_index + 1
                /\ merge.gap_locked /\ position' >= ConflictS(merge)
      /\ merge.phase = "CROSS" => merge'.phase = "CROSS" \/ ~Active(merge')
<1>1. IInv /\ [Next]_vars => [InOrder]_vars
  <2> SUFFICES ASSUME IInv, Next PROVE InOrder
    OBVIOUS
  <2>1. PICK s \in 0..Length :
           \/ Keeps(s)
           \/ Committed(merge) /\ Continues(Unlock(merge, "WAIT"), s)
           \/ Committed(merge) /\ s >= ConflictS(merge) /\ Continues(PassConflict(merge), s)
           \/ ~Committed(merge) /\ Continues(merge, s)
    BY StepCases
  <2>2. merge.phase = "CROSS" => Active(merge)
    BY DEF IInv, Good, InactiveIsFresh, NoMerge
  <2>3. CASE Keeps(s)
    BY <2>3 DEF Keeps
  <2>4. CASE Committed(merge) /\ Continues(Unlock(merge, "WAIT"), s)
    <3>1. Active(Unlock(merge, "WAIT")) /\ merge.phase # "CROSS"
      BY <2>4, CancelledGood DEF Committed, Active
    <3>2. QED
      BY <2>4, <3>1, CancelledGood, ContinuesGood DEF IInv
  <2>5. CASE Committed(merge) /\ s >= ConflictS(merge) /\ Continues(PassConflict(merge), s)
    <3> DEFINE m == PassConflict(merge)
    <3>1. /\ Good(m) /\ m.zone = merge.zone /\ CountIsCovered(m, run)
          /\ IF HasNext(merge)
               THEN m.conflict_index = merge.conflict_index + 1 /\ ~m.gap_locked
               ELSE m.conflict_index = merge.conflict_index /\ m.phase = "CROSS"
      BY <2>5, PassConflictGood, PassedGood DEF IInv
    <3>2. Active(m) /\ merge.phase # "CROSS" /\ merge.gap_locked
      BY <2>5, <3>1 DEF Committed, Active
    <3> HIDE DEF m
    <3>3. /\ position' = s
          /\ Active(merge') =>
               /\ merge'.zone = m.zone
               /\ merge'.conflict_index # m.conflict_index =>
                    m.gap_locked /\ merge'.conflict_index = m.conflict_index + 1
               /\ m.phase = "CROSS" => merge'.phase = "CROSS"
               /\ IInv'
      <4>1. Continues(m, s)
        BY <2>5 DEF m
      <4>2. QED
        BY <3>1, <3>2, <4>1, ContinuesGood DEF IInv
    <3>4. Active(merge') /\ m.phase = "CROSS" => merge'.conflict_index = m.conflict_index
      <4>1. ASSUME Active(merge') PROVE merge'.conflict_index \in DOMAIN Zones[merge'.zone].checkpoints
        BY <3>3, <4>1 DEF IInv, Good, Typed
      <4>2. m.phase = "CROSS" => ~HasNext(m)
        BY <3>1 DEF Good, CrossesLast
      <4>3. QED
        BY <3>3, <4>1, <4>2 DEF HasNext
    <3>5. QED
      BY <2>5, <3>1, <3>2, <3>3, <3>4
  <2>6. CASE ~Committed(merge) /\ Continues(merge, s)
    BY <2>2, <2>6, ContinuesGood DEF IInv
  <2>7. QED
    BY <2>1, <2>3, <2>4, <2>5, <2>6
<1>2. QED
  BY <1>1, Inductive, PTL DEF Spec, CheckpointsInOrder

(***************************************************************************)
(* What a call that comes to the candidates may return.                     *)
(***************************************************************************)
LEMMA ApproachIsFar ==
  ASSUME NEW m, Good(m), m.phase # "COMMIT",
         NEW s \in Nat, NEW verdict \in Verdicts, NEW far,
         LET t == Track(Enter(m, s, far), s, verdict)
         IN  Active(t) /\ t.phase # "CROSS" /\ t.gap_safe /\ ~t.commit_pending
  PROVE  LET t == Track(Enter(m, s, far), s, verdict)
         IN  ConflictS(t) - s > Zones[t.zone].commit_distance
<1> DEFINE e == Enter(m, s, far)
           t == Track(e, s, verdict)
<1>1. Good(e) /\ e.phase # "COMMIT"
  <2>1. Good(e)
    BY EnterGood
  <2>2. e.phase # "COMMIT"
    BY DEF Enter, NoMerge
  <2>3. QED
    BY <2>1, <2>2
<1>2. Active(t) /\ t.phase # "CROSS" /\ t.gap_safe /\ ~t.commit_pending
  OBVIOUS
<1> HIDE DEF e
<1>3. Active(e)
  BY <1>2 DEF Track
<1>4. ~e.gap_locked
  <2>1. e.phase # "CROSS"
    BY <1>1, <1>2, TrackGood
  <2>2. QED
    BY <1>1, <2>1 DEF Good, LockMatchesPhase
<1>5. t = EvaluateGap(e, s, verdict)
  BY <1>3, <1>4 DEF Track
<1> DEFINE near == ConflictS(e) - s <= Zones[e.zone].commit_distance
           ready == near /\ CountSafe(e, verdict) >= Zones[e.zone].confirm
<1>6. /\ t.gap_safe = IF near THEN ready ELSE verdict # "unsafe"
      /\ t.commit_pending = ready
      /\ t.zone = e.zone /\ t.conflict_index = e.conflict_index
  <2>1. e \in MergeContext
    BY <1>1 DEF Good, Typed
  <2>2. QED
    BY <1>5, <2>1 DEF EvaluateGap, MergeContext
<1> HIDE DEF t
<1>7. ~near
  BY <1>2, <1>6
<1>8. ConflictS(e) \in Nat /\ Zones[e.zone].commit_distance \in Nat
  <2>1. e.zone \in ZoneIds /\ e.conflict_index \in DOMAIN Zones[e.zone].checkpoints
    BY <1>1, <1>3 DEF Good, Typed, MergeContext, Active
  <2>2. QED
    BY <2>1, ZoneTypes DEF ConflictS
<1>9. ConflictS(t) = ConflictS(e)
  BY <1>6 DEF ConflictS
<1>10. ConflictS(t) - s > Zones[t.zone].commit_distance
  BY <1>6, <1>7, <1>8, <1>9
<1>11. QED
  BY <1>10 DEF t, e

Answers(m, s, r) ==
  /\ r = "approach" => ConflictS(m) - s > Zones[m.zone].commit_distance
  /\ r \in {"locked", "cross"} => m.gap_locked
  /\ r \in {"approach", "yield"} => Active(m)
  /\ r = "free" => ~Active(m)

LEMMA CandidatesNeedLock ==
  ASSUME NEW m, Good(m), m.phase # "COMMIT",
         NEW s \in Nat, NEW verdict \in Verdicts, NEW far,
         NEW avoiding \in BOOLEAN, NEW outcome \in {"valid"} \cup Failures,
         PlanCandidates(m, s, verdict, far, avoiding, outcome)
  PROVE  Answers(merge', s, result') /\ position' = s
<1> DEFINE t == Track(Enter(m, s, far), s, verdict)
<1>1. position' = s
  BY DEF PlanCandidates
<1>2. CASE outcome # "valid"
  <2>1. result' \in {"blocked", "transient"}
    BY <1>2 DEF PlanCandidates, Failures
  <2>2. QED
    BY <1>1, <2>1 DEF Answers
<1>3. CASE outcome = "valid" /\ ~avoiding /\ t.commit_pending
  <2>1. merge' = Lock(t) /\ result' = "locked"
    BY <1>3 DEF PlanCandidates
  <2>2. t \in MergeContext
    BY EnterGood, TrackGood DEF Good, Typed
  <2> HIDE DEF t
  <2>3. merge'.gap_locked
    BY <2>1, <2>2 DEF Lock, MergeContext
  <2>4. QED
    BY <1>1, <2>1, <2>3 DEF Answers
<1>4. CASE outcome = "valid" /\ ~(~avoiding /\ t.commit_pending)
  <2>1. merge' = t /\ result' = PathOf(t, avoiding)
    BY <1>4 DEF PlanCandidates
  <2>2. Good(t)
    BY EnterGood, TrackGood
  <2>3. ASSUME result' = "approach"
        PROVE  ConflictS(t) - s > Zones[t.zone].commit_distance
    <3>1. ~avoiding /\ Active(t) /\ t.phase # "CROSS" /\ t.gap_safe
      <4> HIDE DEF t
      <4>1. QED
        BY <2>1, <2>3 DEF PathOf
    <3>2. ~t.commit_pending
      BY <1>4, <3>1
    <3>3. QED
      BY <3>1, <3>2, ApproachIsFar
  <2> HIDE DEF t
  <2>4. result' # "locked"
    BY <2>1 DEF PathOf
  <2>5. ASSUME result' = "cross" PROVE t.gap_locked
    <3>1. t.phase = "CROSS"
      BY <2>1, <2>5 DEF PathOf
    <3>2. QED
      BY <2>2, <3>1 DEF Good, LockMatchesPhase
  <2>6. /\ result' \in {"approach", "yield"} => Active(t)
        /\ result' = "free" => ~Active(t)
    BY <2>1 DEF PathOf
  <2>7. QED
    BY <1>1, <2>1, <2>3, <2>4, <2>5, <2>6 DEF Answers
<1>5. QED
  BY <1>2, <1>3, <1>4

LEMMA NextAnswers ==
  ASSUME IInv, Next
  PROVE  Answers(merge', position', result')
<1>1. ASSUME NEW m, Good(m), m.phase # "COMMIT", NEW s \in 0..Length, Continues(m, s)
      PROVE  Answers(merge', position', result')
  <2>1. s \in Nat
    BY ZonesAssumption
  <2>2. QED
    BY <1>1, <2>1, CandidatesNeedLock DEF Continues, Continue
<1>2. PICK s \in 0..Length :
        \/ Keeps(s)
        \/ Committed(merge) /\ Continues(Unlock(merge, "WAIT"), s)
        \/ Committed(merge) /\ Continues(PassConflict(merge), s)
        \/ ~Committed(merge) /\ Continues(merge, s)
  BY StepCases
<1>3. Good(merge) /\ merge \in MergeContext
  BY DEF IInv, Good, Typed
<1>4. CASE Keeps(s)
  BY <1>4 DEF Keeps, Answers
<1>5. CASE Committed(merge) /\ Continues(Unlock(merge, "WAIT"), s)
  <2>1. Unlock(merge, "WAIT").phase # "COMMIT"
    BY <1>3 DEF Unlock, MergeContext
  <2>2. QED
    BY <1>1, <1>5, <2>1, CancelledGood
<1>6. CASE Committed(merge) /\ Continues(PassConflict(merge), s)
  <2>1. PassConflict(merge).phase # "COMMIT"
    BY <1>3 DEF PassConflict, NextCheckpoint, Unlock, MergeContext
  <2>2. QED
    BY <1>1, <1>6, <2>1, PassedGood
<1>7. CASE ~Committed(merge) /\ Continues(merge, s)
  <2>1. merge.phase = "COMMIT" => merge.gap_locked
    BY <1>3 DEF Good, LockMatchesPhase
  <2>2. merge.phase = "COMMIT" => Active(merge)
    BY <1>3 DEF Good, InactiveIsFresh, NoMerge
  <2>3. QED
    BY <1>1, <1>3, <1>7, <2>1, <2>2 DEF Committed
<1>8. QED
  BY <1>2, <1>4, <1>5, <1>6, <1>7

(***************************************************************************)
(* Within the commit distance nothing drives on towards the conflict, and   *)
(* nothing goes through it, without a lock.                                 *)
(***************************************************************************)
THEOREM DrivingNeedsLock == Spec => []DriveNeedsLock
<1>1. Init => DriveNeedsLock
  BY DEF Init, DriveNeedsLock
<1>2. IInv /\ DriveNeedsLock /\ [Next]_vars => DriveNeedsLock'
  <2> SUFFICES ASSUME IInv, DriveNeedsLock, [Next]_vars PROVE DriveNeedsLock'
    OBVIOUS
  <2>1. CASE UNCHANGED vars
    BY <2>1 DEF vars, DriveNeedsLock, ConflictS
  <2>2. CASE Next
    BY <2>2, NextAnswers DEF Answers, DriveNeedsLock, ConflictS
  <2>3. QED
    BY <2>1, <2>2
<1>3. QED
  BY <1>1, <1>2, Inductive, PTL DEF Spec
------------------------------------------------------------------------------
(***************************************************************************)
(* What one call of Plan() at a position does to the zone, the checkpoint   *)
(* and the lock.                                                            *)
(***************************************************************************)
LiesOutside(z, s) == s < Zones[z].start \/ s > Zones[z].completion

ZoneOfCall(m, n, s) ==
  /\ Active(n) => s <= Zones[n.zone].completion
  /\ Active(m) /\ ~Active(n) => s > Zones[m.zone].completion
  /\ ~Active(m) /\ Active(n) => n.conflict_index = 1
  /\ ~Active(m) /\ ~Active(n) => \A z \in ZoneIds : LiesOutside(z, s)

LEMMA EnterWhere ==
  ASSUME NEW m, Good(m), NEW s \in Nat, NEW far \in BOOLEAN
  PROVE  /\ ZoneOfCall(m, Enter(m, s, far), s)
         /\ ~Active(m) => ~Enter(m, s, far).gap_locked
<1> DEFINE e == Enter(m, s, far)
<1>1. CASE Active(m)
  <2>1. m.zone \in ZoneIds
    BY <1>1 DEF Good, Typed, MergeContext, Active
  <2>2. Zones[m.zone].completion \in Nat
    BY <2>1, ZoneTypes
  <2>3. ~Active(NoMerge)
    BY DEF NoMerge, Active
  <2>4. IF s <= Zones[m.zone].completion THEN e = m ELSE e = NoMerge
    BY <1>1 DEF Enter
  <2> HIDE DEF e
  <2>5. QED
    <3>1. ZoneOfCall(m, e, s)
      BY <1>1, <2>2, <2>3, <2>4 DEF ZoneOfCall
    <3>2. QED
      BY <1>1, <3>1 DEF e
<1>2. CASE ~Active(m)
  <2>1. e = [NoMerge EXCEPT !.zone = FirstDetected(s, far)]
    BY <1>2 DEF Enter
  <2>2. e.zone = FirstDetected(s, far) /\ e.conflict_index = 1 /\ ~e.gap_locked
    BY <2>1 DEF NoMerge
  <2> HIDE DEF e
  <2>3. ASSUME Detected(s, far) = {} PROVE ZoneOfCall(m, e, s)
    <3>1. ~Active(e)
      BY <2>2, <2>3 DEF FirstDetected, Active
    <3>2. ASSUME NEW z \in ZoneIds
          PROVE  LiesOutside(z, s)
      <4>1. ~InWindow(z, s, far)
        BY <2>3 DEF Detected
      <4>2. Zones[z].early <= Zones[z].start
        BY ZonesAssumption
      <4>3. QED
        BY <4>1, <4>2, ZoneTypes DEF InWindow, LiesOutside
    <3>3. QED
      BY <1>2, <3>1, <3>2 DEF ZoneOfCall
  <2>4. ASSUME Detected(s, far) # {} PROVE ZoneOfCall(m, e, s)
    <3>1. e.zone \in ZoneIds /\ InWindow(e.zone, s, far)
      BY <2>2, <2>4, FirstDetectedIsDetected DEF Detected
    <3>2. Active(e) /\ s <= Zones[e.zone].completion
      BY <3>1, ZoneIdsArePositive DEF Active, InWindow
    <3>3. QED
      BY <1>2, <2>2, <3>2 DEF ZoneOfCall
  <2>5. ZoneOfCall(m, e, s)
    BY <2>3, <2>4
  <2>6. QED
    BY <2>2, <2>5 DEF e
<1>3. QED
  BY <1>1, <1>2

LEMMA ContinuesWhere ==
  ASSUME NEW m, Good(m), NEW s \in Nat, Continues(m, s)
  PROVE  ZoneOfCall(m, merge', s)
<1>1. PICK verdict \in Verdicts, far \in BOOLEAN, avoiding \in BOOLEAN,
           outcome \in {"valid"} \cup Failures :
             PlanCandidates(m, s, verdict, far, avoiding, outcome)
  BY DEF Continues, Continue
<1> DEFINE e == Enter(m, s, far)
           t == Track(e, s, verdict)
<1>2. Good(e)
  BY EnterGood
<1>3. ZoneOfCall(m, e, s) /\ (~Active(m) => ~e.gap_locked)
  BY EnterWhere
<1>4. /\ Good(t) /\ t.zone = e.zone
      /\ t.conflict_index # e.conflict_index => e.gap_locked
  BY <1>2, TrackGood
<1>5. \/ merge' = t
      \/ merge' = Lock(t) /\ t.commit_pending
      \/ merge' = Reject(t) /\ t.commit_pending
  BY <1>1, PlanCandidatesCases
<1> HIDE DEF e, t
<1>6. merge'.zone = t.zone /\ merge'.conflict_index = t.conflict_index
  BY <1>4, <1>5 DEF Good, Typed, MergeContext, Lock, Reject
<1>7. QED
  BY <1>3, <1>4, <1>6 DEF ZoneOfCall, Active

\* While the zone stays: the checkpoint changes only at its conflict point, and
\* the lock is given up only before the stop line.
WithinZone(s) ==
  /\ merge'.zone = merge.zone
  /\ \/ merge'.conflict_index = merge.conflict_index
     \/ /\ merge'.conflict_index = merge.conflict_index + 1
        /\ Committed(merge) /\ s >= ConflictS(merge)
  /\ merge'.conflict_index = merge.conflict_index /\ merge.gap_locked =>
       /\ ~merge'.gap_locked => s < StopS(merge)
       /\ Committed(merge') => s < ConflictS(merge)

LEMMA ConflictTypes ==
  ASSUME NEW m, Good(m), Active(m)
  PROVE  /\ m.zone \in ZoneIds
         /\ m.conflict_index \in DOMAIN Zones[m.zone].checkpoints
         /\ ConflictS(m) \in Nat /\ StopS(m) \in Int /\ StopS(m) < ConflictS(m)
         /\ Zones[m.zone].start <= ConflictS(m)
         /\ ConflictS(m) <= Zones[m.zone].completion
         /\ Zones[m.zone].completion <= Length
         /\ StopS(m) + MaxTransientFailCycles <= ConflictS(m)
         /\ ConflictS(m) - Zones[m.zone].commit_distance < StopS(m)
<1>1. /\ m.zone \in ZoneIds
      /\ m.conflict_index \in DOMAIN Zones[m.zone].checkpoints
  BY DEF Good, Typed, MergeContext, Active
<1>2. /\ Zones[m.zone].start <= ConflictS(m)
      /\ ConflictS(m) <= Zones[m.zone].completion
  BY <1>1, ZonesAssumption DEF ConflictS
<1>3. /\ Zones[m.zone].completion <= Length
      /\ 0 < Zones[m.zone].stop_buffer
      /\ MaxTransientFailCycles <= Zones[m.zone].stop_buffer
      /\ Zones[m.zone].stop_buffer < Zones[m.zone].commit_distance
  BY <1>1, SpacingAssumption
<1>4. MaxTransientFailCycles \in Nat /\ ConflictS(m) \in Nat
  BY <1>1, ZoneTypes, LoopAssumption DEF ConflictS
<1>5. QED
  BY <1>1, <1>2, <1>3, <1>4, ZoneTypes DEF StopS

LEMMA CallStaysInZone ==
  ASSUME IInv, Next, Active(merge), Active(merge')
  PROVE  WithinZone(position')
<1>1. PICK s \in 0..Length :
        \/ Keeps(s) /\ Replaying(s)
        \/ Committed(merge) /\ s < StopS(merge) /\ Continues(Unlock(merge, "WAIT"), s)
        \/ Committed(merge) /\ s >= ConflictS(merge) /\ Continues(PassConflict(merge), s)
        \/ ~Committed(merge) /\ Continues(merge, s)
  BY StepCases
<1>2. /\ Good(merge) /\ CountIsCovered(merge, run) /\ run \in RunType
      /\ ConflictS(merge) \in Nat /\ StopS(merge) \in Int /\ StopS(merge) < ConflictS(merge)
      /\ s \in Nat /\ merge.conflict_index \in Nat
  <2>1. s \in Nat
    BY ZonesAssumption
  <2>2. QED
    BY <2>1, ConflictTypes DEF IInv, Good, Typed, MergeContext
<1>3. CASE Keeps(s) /\ Replaying(s)
  BY <1>2, <1>3 DEF Keeps, Replaying, WithinZone
<1>4. CASE Committed(merge) /\ s < StopS(merge) /\ Continues(Unlock(merge, "WAIT"), s)
  <2>1. /\ Active(Unlock(merge, "WAIT"))
        /\ Unlock(merge, "WAIT").zone = merge.zone
        /\ Unlock(merge, "WAIT").conflict_index = merge.conflict_index
        /\ ~Unlock(merge, "WAIT").gap_locked
    BY <1>4, CancelledGood DEF Active
  <2>2. position' = s /\ merge'.zone = merge.zone
        /\ merge'.conflict_index = merge.conflict_index
    BY <1>2, <1>4, <2>1, CancelledGood, ContinuesGood
  <2>3. QED
    BY <1>2, <1>4, <2>2 DEF WithinZone
<1>5. CASE Committed(merge) /\ s >= ConflictS(merge) /\ Continues(PassConflict(merge), s)
  <2> DEFINE m == PassConflict(merge)
  <2>1. /\ Good(m) /\ m.zone = merge.zone /\ CountIsCovered(m, run)
        /\ IF HasNext(merge)
             THEN m.conflict_index = merge.conflict_index + 1 /\ ~m.gap_locked
             ELSE m.conflict_index = merge.conflict_index /\ m.phase = "CROSS"
    BY <1>2, <1>5, PassConflictGood, PassedGood
  <2>2. Continues(m, s) /\ Active(m)
    BY <1>5, <2>1 DEF Active
  <2> HIDE DEF m
  <2>3. /\ position' = s /\ merge'.zone = merge.zone /\ IInv'
        /\ merge'.conflict_index # m.conflict_index =>
             m.gap_locked /\ merge'.conflict_index = m.conflict_index + 1
        /\ m.phase = "CROSS" => merge'.phase = "CROSS"
    BY <1>2, <2>1, <2>2, ContinuesGood
  <2>4. m.phase = "CROSS" => merge'.conflict_index = m.conflict_index
    <3>1. merge'.conflict_index \in DOMAIN Zones[merge'.zone].checkpoints
      BY <2>3 DEF IInv, Good, Typed
    <3>2. m.phase = "CROSS" => ~HasNext(m)
      BY <2>1 DEF Good, CrossesLast
    <3>3. QED
      BY <2>1, <2>3, <3>1, <3>2 DEF HasNext
  <2>5. CASE HasNext(merge)
    BY <1>2, <1>5, <2>1, <2>3, <2>5 DEF WithinZone
  <2>6. CASE ~HasNext(merge)
    <3>1. merge'.phase = "CROSS" /\ merge'.conflict_index = merge.conflict_index
      BY <2>1, <2>3, <2>4, <2>6
    <3>2. merge'.gap_locked
      BY <2>3, <3>1 DEF IInv, Good, LockMatchesPhase
    <3>3. QED
      BY <2>3, <3>1, <3>2 DEF WithinZone, Committed
  <2>7. QED
    BY <2>5, <2>6
<1>6. CASE ~Committed(merge) /\ Continues(merge, s)
  <2>1. /\ IInv' /\ position' = s /\ merge'.zone = merge.zone
        /\ merge'.conflict_index # merge.conflict_index =>
             merge'.conflict_index = merge.conflict_index + 1 /\ merge.gap_locked
        /\ merge.phase = "CROSS" => merge'.phase = "CROSS"
    BY <1>2, <1>6, ContinuesGood
  <2>2. merge.gap_locked => merge.phase = "CROSS" /\ ~HasNext(merge)
    BY <1>2, <1>6 DEF Good, LockMatchesPhase, CrossesLast, Committed
  <2>3. merge'.conflict_index \in DOMAIN Zones[merge'.zone].checkpoints
    BY <2>1 DEF IInv, Good, Typed
  <2>4. merge'.conflict_index = merge.conflict_index
    BY <2>1, <2>2, <2>3 DEF HasNext
  <2>5. merge.gap_locked => merge'.gap_locked /\ ~Committed(merge')
    BY <2>1, <2>2 DEF IInv, Good, LockMatchesPhase, Committed
  <2>6. QED
    BY <2>1, <2>4, <2>5 DEF WithinZone
<1>7. QED
  BY <1>1, <1>3, <1>4, <1>5, <1>6

LEMMA CallFindsZone ==
  ASSUME IInv, Next
  PROVE  ZoneOfCall(merge, merge', position')
<1>1. PICK s \in 0..Length :
        \/ Keeps(s) /\ (Replaying(s) \/ (~Active(merge) /\ Detected(s, FALSE) = {}))
        \/ Committed(merge) /\ Continues(Unlock(merge, "WAIT"), s)
        \/ Committed(merge) /\ Continues(PassConflict(merge), s)
        \/ ~Committed(merge) /\ Continues(merge, s)
  BY StepCases
<1>2. Good(merge) /\ CountIsCovered(merge, run) /\ run \in RunType /\ s \in Nat
  BY ZonesAssumption DEF IInv
<1>3. CASE Keeps(s) /\ Replaying(s)
  <2>1. Active(merge) /\ s < ConflictS(merge)
    BY <1>3 DEF Replaying, Committed
  <2>2. s <= Zones[merge.zone].completion
    <3>1. merge.zone \in ZoneIds /\ ConflictS(merge) \in Nat
          /\ ConflictS(merge) <= Zones[merge.zone].completion
      BY <1>2, <2>1, ConflictTypes
    <3>2. QED
      BY <1>2, <2>1, <3>1, ZoneTypes
  <2>3. QED
    BY <1>3, <2>1, <2>2 DEF Keeps, ZoneOfCall
<1>4. CASE Keeps(s) /\ ~Active(merge) /\ Detected(s, FALSE) = {}
  <2>1. ASSUME NEW z \in ZoneIds PROVE LiesOutside(z, s)
    <3>1. ~InWindow(z, s, FALSE)
      BY <1>4 DEF Detected
    <3>2. QED
      BY <1>2, <3>1, ZoneTypes DEF InWindow, LiesOutside
  <2>2. QED
    BY <1>4, <2>1 DEF Keeps, ZoneOfCall
<1>5. CASE Committed(merge) /\ Continues(Unlock(merge, "WAIT"), s)
  <2>1. ZoneOfCall(Unlock(merge, "WAIT"), merge', s) /\ position' = s
    BY <1>2, <1>5, CancelledGood, ContinuesWhere, ContinuesGood
  <2>2. Active(merge) /\ Unlock(merge, "WAIT").zone = merge.zone
    BY <1>5, CancelledGood DEF Committed
  <2>3. QED
    BY <2>1, <2>2 DEF ZoneOfCall, Active
<1>6. CASE Committed(merge) /\ Continues(PassConflict(merge), s)
  <2>1. ZoneOfCall(PassConflict(merge), merge', s) /\ position' = s
    BY <1>2, <1>6, PassedGood, ContinuesWhere, ContinuesGood
  <2>2. Active(merge) /\ PassConflict(merge).zone = merge.zone
    BY <1>2, <1>6, PassConflictGood DEF Committed
  <2>3. QED
    BY <2>1, <2>2 DEF ZoneOfCall, Active
<1>7. CASE Continues(merge, s)
  BY <1>2, <1>7, ContinuesWhere, ContinuesGood
<1>8. QED
  BY <1>1, <1>3, <1>4, <1>5, <1>6, <1>7

------------------------------------------------------------------------------
(***************************************************************************)
(* The loop and the vehicle around the state machine.  What is always true  *)
(* of where the vehicle is and of the path that is kept.                    *)
(***************************************************************************)
\* The last call was made here, or one position back; then localization was
\* lost since, and a stop path was sent.
Located == ego = position \/ (ego = position + 1 /\ ~Driving)

KeptIsKnown ==
  /\ last_cp \in Loop!PlanKinds <=> kept # "none"
  /\ kept # "none" => plan_fail_streak <= MaxTransientFailCycles
  /\ Driving => kept # "none"

NodeBase ==
  /\ IInv
  /\ Loop!TypeOK
  /\ ego \in 0..Length /\ kept \in Kept /\ authority \in 0..Length
  /\ detoured \in BOOLEAN /\ calm \in BOOLEAN
  /\ Located
  /\ KeptIsKnown

\* The three things the loop does after a call of Plan().
PathPlanned ==
  /\ result' \in Paths
  /\ plan_fail_streak' = 0 /\ Driving'
  /\ kept' = IF result' = "avoid" THEN "avoid" ELSE "planned"
  /\ authority' = Limit(result')

PathDropped ==
  /\ result' \in Failures
  /\ ~Driving' /\ kept' = "none" /\ authority' = 0

PathResent ==
  /\ result' = "transient"
  /\ plan_fail_streak' = plan_fail_streak + 1
  /\ plan_fail_streak' <= MaxTransientFailCycles
  /\ Driving' <=> kept' # "none"
  /\ kept' = IF Cancelled /\ kept # "none" THEN "blocked" ELSE kept
  /\ authority' = authority

LEMMA SentIsNotNone ==
  ASSUME NEW p, p \in Loop!PathKinds
  PROVE  [path |-> p, ego |-> Pose] # None
BY LoopAssumption DEF Loop!Datagrams

LEMMA ReactEffect ==
  ASSUME Loop!TypeOK, kept \in Kept, KeptIsKnown, React
  PROVE  /\ PathPlanned \/ PathDropped \/ PathResent
         /\ last_cp' \in Loop!PlanKinds <=> kept' # "none"
         /\ last_cp' \in Loop!PathKinds
<1> USE DEF Loop!SendPlannedPath, Loop!Observe, Loop!PlanKinds, Loop!PathKinds, Driving
<1>1. CASE Succeed
  <2> DEFINE k == IF result' = "yield" THEN "hold" ELSE "drive"
  <2>1. /\ result' \in Paths /\ plan_fail_streak' = 0 /\ last_cp' = k
        /\ out' = [path |-> k, ego |-> Pose]
        /\ kept' = IF result' = "avoid" THEN "avoid" ELSE "planned"
        /\ authority' = Limit(result')
    BY <1>1 DEF Succeed, Loop!PlanSucceeds
  <2>2. k \in Loop!PlanKinds
    OBVIOUS
  <2> HIDE DEF k
  <2>3. out' # None /\ out'.path = k
    BY <2>1, <2>2, SentIsNotNone
  <2>4. PathPlanned
    BY <2>1, <2>2, <2>3 DEF PathPlanned
  <2>5. QED
    BY <2>1, <2>2, <2>4
<1>2. CASE Block
  <2>1. /\ result' = "blocked" /\ last_cp' = "stop"
        /\ out' = [path |-> "stop", ego |-> Pose]
        /\ kept' = "none" /\ authority' = 0
    BY <1>2 DEF Block, Discard, Loop!CollisionBlocked
  <2>2. QED
    BY <2>1 DEF PathDropped, Failures
<1>3. CASE Abandon
  <2>1. /\ result' = "transient" /\ last_cp' = "stop"
        /\ out' = [path |-> "stop", ego |-> Pose]
        /\ kept' = "none" /\ authority' = 0
    BY <1>3 DEF Abandon, Discard, Loop!GiveUp
  <2>2. QED
    BY <2>1 DEF PathDropped, Failures
<1>4. CASE Resend
  <2>1. /\ result' = "transient" /\ last_cp' = last_cp /\ last_cp # None
        /\ plan_fail_streak' <= MaxTransientFailCycles
        /\ plan_fail_streak' = Loop!Bump(plan_fail_streak, Loop!StreakBound)
        /\ out' = [path |-> last_cp, ego |-> Pose]
        /\ kept' = IF Cancelled /\ kept # "none" THEN "blocked" ELSE kept
        /\ authority' = authority
    BY <1>4 DEF Resend, Loop!ResendLastPath, Loop!PlanFails
  <2>2. last_cp \in Loop!PathKinds
    BY <2>1 DEF Loop!TypeOK
  <2>3. plan_fail_streak' = plan_fail_streak + 1
    <3>1. plan_fail_streak \in Nat /\ MaxTransientFailCycles \in Nat
      BY LoopAssumption DEF Loop!TypeOK, Loop!StreakBound
    <3>2. QED
      BY <2>1, <3>1 DEF Loop!Bump, Loop!StreakBound
  <2>4. out' # None /\ out'.path = last_cp
    BY <2>1, <2>2, SentIsNotNone
  <2>5. kept' # "none" <=> kept # "none"
    BY <2>1
  <2>6. Driving' <=> kept' # "none"
    BY <2>4, <2>5 DEF KeptIsKnown
  <2>7. PathResent
    BY <2>1, <2>3, <2>6 DEF PathResent
  <2>8. QED
    BY <2>1, <2>2, <2>5, <2>7 DEF KeptIsKnown
<1>5. QED
  BY <1>1, <1>2, <1>3, <1>4 DEF React

LEMMA LoopTypes ==
  ASSUME Loop!TypeOK, Loop!Next
  PROVE  Loop!TypeOK'
<1> USE DEF Loop!PathKinds, Loop!PlanKinds, Loop!SendPlannedPath, Loop!Observe,
            Loop!StreakBound
<1>1. /\ MaxTransientFailCycles \in Nat
      /\ plan_fail_streak \in 0..MaxTransientFailCycles + 1
      /\ age \in 0..MaxTransientFailCycles + 1 /\ resends \in 0..MaxTransientFailCycles + 1
      /\ parity \in {0, 1}
      /\ last_cp \in Loop!PathKinds \cup {None}
      /\ last_vehicle_state \in {Pose, None}
  BY LoopAssumption DEF Loop!TypeOK
<1>2. ASSUME NEW n \in 0..MaxTransientFailCycles + 1
      PROVE  Loop!Bump(n, MaxTransientFailCycles + 1) \in 0..MaxTransientFailCycles + 1
  BY <1>1, <1>2 DEF Loop!Bump
<1>3. 1 - parity \in {0, 1}
  BY <1>1
<1>4. ASSUME NEW p \in Loop!PathKinds
      PROVE  [path |-> p, ego |-> Pose] \in Loop!Datagrams
  BY DEF Loop!Datagrams
<1>5. CASE Loop!LocalizationLost
  <2>1. out' \in Loop!Datagrams \cup {None}
    BY <1>1, <1>4, <1>5 DEF Loop!LocalizationLost
  <2>2. QED
    BY <1>1, <1>2, <1>3, <1>5, <2>1 DEF Loop!LocalizationLost, Loop!TypeOK, Loop!loopVars
<1>6. ASSUME NEW k \in Loop!PlanKinds, Loop!PlanSucceeds(Pose, k)
      PROVE  Loop!TypeOK'
  <2>1. k \in Loop!PathKinds
    OBVIOUS
  <2>2. /\ last_vehicle_state' = Pose /\ plan_fail_streak' = 0 /\ last_cp' = k
        /\ out' = [path |-> k, ego |-> Pose]
        /\ age' = 0 /\ resends' = 0 /\ vetoed' = FALSE /\ gap' = FALSE
        /\ parity' = 1 - parity
    BY <1>6 DEF Loop!PlanSucceeds
  <2>3. out' \in Loop!Datagrams
    BY <1>4, <2>1, <2>2
  <2>4. 0 \in 0..MaxTransientFailCycles + 1
    BY <1>1
  <2>5. QED
    BY <1>3, <2>1, <2>2, <2>3, <2>4 DEF Loop!TypeOK
<1>7. CASE Loop!CollisionBlocked(Pose)
  BY <1>1, <1>2, <1>3, <1>4, <1>7
     DEF Loop!CollisionBlocked, Loop!PlanFails, Loop!TypeOK
<1>8. CASE Loop!ResendLastPath(Pose)
  <2>1. out' \in Loop!Datagrams
    BY <1>1, <1>4, <1>8 DEF Loop!ResendLastPath
  <2>2. resends' \in 0..MaxTransientFailCycles + 1
    BY <1>1, <1>2, <1>8 DEF Loop!ResendLastPath
  <2>3. QED
    BY <1>1, <1>2, <1>3, <1>8, <2>1, <2>2
       DEF Loop!ResendLastPath, Loop!PlanFails, Loop!TypeOK
<1>9. CASE Loop!GiveUp(Pose)
  BY <1>1, <1>2, <1>3, <1>4, <1>9 DEF Loop!GiveUp, Loop!PlanFails, Loop!TypeOK
<1>10. QED
  BY <1>5, <1>6, <1>7, <1>8, <1>9 DEF Loop!Next

LEMMA ReactIsLoopStep ==
  ASSUME React
  PROVE  Loop!Next
BY DEF React, Succeed, Block, Resend, Abandon, Loop!Next, Loop!PlanKinds

LEMMA MoveEffect ==
  ASSUME NodeBase, Move
  PROVE  /\ ego' \in 0..Length
         /\ \/ ego' = ego
            \/ ego' = ego + 1 /\ Driving /\ ego < authority /\ ego = position
BY ZonesAssumption DEF NodeBase, Move, Advance, Located

\* The call of a period is a step of the state machine, at the vehicle.
LEMMA CycleCalls ==
  ASSUME NodeBase, Cycle
  PROVE  Next /\ position' = ego'
<1>1. ego' \in 0..Length /\ ego' + Noise >= position
  <2>1. position \in 0..Length
    BY DEF NodeBase, IInv
  <2>2. QED
    BY <2>1, MoveEffect, ZonesAssumption DEF Cycle, NodeBase, Located
<1>2. PICK s \in 0..Length : s = ego' /\ s + Noise >= position
  BY <1>1
<1>3. \/ ReplayLockedPath(s)
      \/ LockedPathExhausted(s)
      \/ LockedPathBlocked(s)
      \/ LowSpeedFallback(s)
      \/ \E verdict \in Verdicts, far \in BOOLEAN, avoiding \in BOOLEAN,
            outcome \in {"valid"} \cup Failures :
           Plan(s, verdict, far, avoiding, outcome)
  <2>1. CASE PlanCalmly
    <3>1. OpenGap \in Verdicts
      BY ZonesAssumption DEF Verdicts
    <3>2. QED
      BY <1>2, <2>1, <3>1 DEF PlanCalmly, Plan
  <2>2. CASE PlanDisturbed
    BY <1>2, <2>2 DEF PlanDisturbed
  <2>3. QED
    BY <2>1, <2>2 DEF Cycle
<1>4. position' = s
  <2>1. \A r : Return(r, s) => position' = s
    BY DEF Return
  <2>2. \A m, verdict, far, avoiding, outcome :
          Continue(m, s, verdict, far, avoiding, outcome) => position' = s
    BY DEF Continue, PlanCandidates
  <2>3. QED
    BY <1>3, <2>1, <2>2
       DEF ReplayLockedPath, LockedPathExhausted, LockedPathBlocked, LowSpeedFallback,
           Plan, CancelCommit, ReachConflict, PlanUncommitted
<1>5. QED
  BY <1>2, <1>3, <1>4 DEF Next

LEMMA GoodAfter == IInv' => Good(merge')
BY DEF IInv, Good, Typed, LockMatchesPhase, CommitHasPath, RequestIsConfirmed,
       InactiveIsFresh, CrossesLast

LEMMA LimitType ==
  ASSUME IInv', Answers(merge', position', result'), ego' \in 0..Length
  PROVE  Limit(result') \in 0..Length
<1>1. CASE result' # "yield"
  BY <1>1, ZonesAssumption DEF Limit
<1>2. CASE result' = "yield"
  <2>1. Active(merge') /\ Good(merge')
    BY <1>2, GoodAfter DEF Answers
  <2>2. /\ merge'.zone \in ZoneIds /\ Zones[merge'.zone].completion \in Nat
        /\ ConflictS(merge') \in Nat /\ StopS(merge') \in Int
        /\ StopS(merge') < ConflictS(merge')
        /\ ConflictS(merge') <= Zones[merge'.zone].completion
        /\ Zones[merge'.zone].completion <= Length
    BY <2>1, ConflictTypes, ZoneTypes
  <2>3. StopS(merge') <= Length
    BY <2>2, ZonesAssumption
  <2>4. QED
    BY <1>2, <2>2, <2>3, ZonesAssumption DEF Limit
<1>3. QED
  BY <1>1, <1>2

LEMMA NodeBaseInit == NodeInit => NodeBase
<1> SUFFICES ASSUME NodeInit PROVE NodeBase
  OBVIOUS
<1>1. IInv
  BY InvariantInit DEF NodeInit
<1>2. Loop!TypeOK
  <2>1. /\ plan_fail_streak = 0 /\ last_cp = None /\ last_vehicle_state = None
        /\ out = None /\ age = MaxTransientFailCycles + 1 /\ resends = 0
        /\ vetoed = FALSE /\ gap = FALSE /\ parity = 0
    BY DEF NodeInit, Loop!Init
  <2>2. 0 \in 0..MaxTransientFailCycles + 1
        /\ MaxTransientFailCycles + 1 \in 0..MaxTransientFailCycles + 1
    BY LoopAssumption
  <2>3. QED
    BY <2>1, <2>2 DEF Loop!TypeOK, Loop!StreakBound
<1>3. last_cp = None /\ last_cp \notin Loop!PlanKinds
  BY LoopAssumption DEF NodeInit, Loop!Init, Loop!PathKinds
<1>4. ~Driving
  BY DEF NodeInit, Loop!Init, Driving
<1>5. ego = 0 /\ position = 0 /\ kept = "none" /\ authority = 0
      /\ detoured = FALSE /\ calm = FALSE
  BY DEF NodeInit, Init
<1>6. QED
  <2>1. 0 \in 0..Length
    BY ZonesAssumption
  <2>2. Located /\ KeptIsKnown
    BY <1>3, <1>4, <1>5 DEF Located, KeptIsKnown
  <2>3. QED
    BY <1>1, <1>2, <1>5, <2>1, <2>2 DEF NodeBase, Kept

LEMMA NodeBaseCycle ==
  ASSUME NodeBase, Cycle
  PROVE  NodeBase'
<1>1. Next /\ position' = ego' /\ ego' \in 0..Length
  BY CycleCalls, MoveEffect DEF Cycle
<1>2. IInv'
  BY <1>1, InvariantStep DEF NodeBase
<1>3. Loop!TypeOK'
  BY LoopTypes, ReactIsLoopStep DEF NodeBase, Cycle
<1>4. /\ PathPlanned \/ PathDropped \/ PathResent
      /\ last_cp' \in Loop!PlanKinds <=> kept' # "none"
  BY ReactEffect DEF NodeBase, Cycle
<1>5. kept' \in Kept /\ authority' \in 0..Length
  <2>1. CASE PathPlanned
    BY <1>1, <1>2, <2>1, NextAnswers, LimitType DEF PathPlanned, Kept, NodeBase
  <2>2. CASE PathDropped
    BY <2>2, ZonesAssumption DEF PathDropped, Kept
  <2>3. CASE PathResent
    BY <2>3 DEF PathResent, Kept, NodeBase
  <2>4. QED
    BY <1>4, <2>1, <2>2, <2>3
<1>6. detoured' \in BOOLEAN /\ calm' \in BOOLEAN
  BY DEF Cycle, Move, PlanCalmly, PlanDisturbed
<1>7. KeptIsKnown'
  <2>1. (kept' # "none" => plan_fail_streak' <= MaxTransientFailCycles)
        /\ (Driving' => kept' # "none")
    BY <1>4, LoopAssumption DEF PathPlanned, PathDropped, PathResent
  <2>2. QED
    BY <1>4, <2>1 DEF KeptIsKnown, Loop!PlanKinds
<1>8. Located'
  BY <1>1 DEF Located
<1>9. QED
  BY <1>1, <1>2, <1>3, <1>5, <1>6, <1>7, <1>8 DEF NodeBase, Kept

\* Without localization a stop path is sent, or nothing.
LEMMA LostEffect ==
  ASSUME NodeBase, LoseLocalization
  PROVE  /\ ~Driving' /\ UNCHANGED <<fsmVars, plan_fail_streak, last_cp, kept, authority>>
         /\ Loop!Next
<1>1. Loop!LocalizationLost /\ UNCHANGED <<fsmVars, kept, authority>>
  BY DEF LoseLocalization
<1>2. out' = None \/ (out' # None /\ out'.path = "stop")
  <2>1. out' = None \/ out' = [path |-> "stop", ego |-> last_vehicle_state]
    BY <1>1 DEF Loop!LocalizationLost, Loop!SendPlannedPath
  <2>2. CASE out' # None
    BY <2>1, <2>2
  <2>3. QED
    BY <2>2
<1>3. ~Driving'
  BY <1>2 DEF Driving, Loop!PlanKinds
<1>4. plan_fail_streak' = plan_fail_streak /\ last_cp' = last_cp
  BY <1>1 DEF Loop!LocalizationLost, Loop!loopVars
<1>5. QED
  BY <1>1, <1>3, <1>4 DEF Loop!Next

LEMMA NodeBaseLost ==
  ASSUME NodeBase, LoseLocalization
  PROVE  NodeBase'
<1>1. /\ ~Driving' /\ Loop!Next
      /\ UNCHANGED <<fsmVars, plan_fail_streak, last_cp, kept, authority>>
  BY LostEffect
<1>2. IInv' /\ position' = position
  BY <1>1, InvariantStep DEF NodeBase, fsmVars, vars
<1>3. Loop!TypeOK'
  BY <1>1, LoopTypes DEF NodeBase
<1>4. /\ ego' \in 0..Length
      /\ ego' = ego \/ (ego' = ego + 1 /\ Driving /\ ego = position)
  BY MoveEffect DEF LoseLocalization
<1>5. Located'
  BY <1>1, <1>2, <1>4 DEF NodeBase, Located
<1>6. KeptIsKnown'
  BY <1>1 DEF NodeBase, KeptIsKnown, Loop!PlanKinds
<1>7. detoured' \in BOOLEAN /\ calm' \in BOOLEAN
  BY DEF LoseLocalization, Move
<1>8. QED
  BY <1>1, <1>2, <1>3, <1>4, <1>5, <1>6, <1>7 DEF NodeBase, Kept

LEMMA NodeBaseStep == NodeBase /\ [NodeNext]_nodeVars => NodeBase'
<1> SUFFICES ASSUME NodeBase, [NodeNext]_nodeVars PROVE NodeBase'
  OBVIOUS
<1>1. CASE NodeNext
  BY <1>1, NodeBaseCycle, NodeBaseLost DEF NodeNext
<1>2. CASE UNCHANGED nodeVars
  <2>1. UNCHANGED <<fsmVars, loopVars, ego, kept, authority, detoured, calm>>
    BY <1>2 DEF nodeVars
  <2>2. IInv'
    BY <2>1, InvariantStep DEF NodeBase, fsmVars
  <2>3. Loop!TypeOK'
    BY <2>1 DEF NodeBase, loopVars, Loop!TypeOK
  <2>4. Located' /\ KeptIsKnown'
    BY <2>1 DEF NodeBase, fsmVars, vars, loopVars, Located, KeptIsKnown, Driving
  <2>5. QED
    BY <2>1, <2>2, <2>3, <2>4 DEF NodeBase
<1>3. QED
  BY <1>1, <1>2

LEMMA NodeBaseAlways == NodeSpec => []NodeBase
BY NodeBaseInit, NodeBaseStep, PTL DEF NodeSpec

(***************************************************************************)
(* Type correctness of the composition: in particular the loop holds a path *)
(* of Plan() exactly when the vehicle has one to drive on, and the vehicle  *)
(* stays on the global path, whatever limit it was given last.              *)
(***************************************************************************)
THEOREM NodeTypeCorrect == NodeSpec => []NodeTypeOK
<1>1. NodeBase => NodeTypeOK
  <2>1. IInv => TypeOK
    BY DEF IInv, TypeOK, Good, Typed, RunType
  <2>2. QED
    BY <2>1 DEF NodeBase, NodeTypeOK, KeptIsKnown
<1>2. QED
  BY <1>1, NodeBaseAlways, PTL

(***************************************************************************)
(* The planner in closed loop calls Plan() as the machine on its own        *)
(* allows: what is proved of the machine holds of the node.                 *)
(***************************************************************************)
THEOREM NodeImplementsMergeFsm == NodeSpec => Spec
<1>1. NodeInit => Init
  BY DEF NodeInit
<1>2. NodeBase /\ [NodeNext]_nodeVars => [Next]_vars
  <2> SUFFICES ASSUME NodeBase, [NodeNext]_nodeVars PROVE [Next]_vars
    OBVIOUS
  <2>1. CASE Cycle
    BY <2>1, CycleCalls
  <2>2. CASE LoseLocalization
    BY <2>2, LostEffect DEF fsmVars
  <2>3. CASE UNCHANGED nodeVars
    BY <2>3 DEF nodeVars, fsmVars
  <2>4. QED
    BY <2>1, <2>2, <2>3 DEF NodeNext
<1>3. QED
  BY <1>1, <1>2, NodeBaseAlways, PTL DEF NodeSpec, Spec

(***************************************************************************)
(* In closed loop the loop of main.cpp sends what it sends on its own: a    *)
(* vetoed path never, a path again only within its budget.                  *)
(***************************************************************************)
THEOREM NodeImplementsLoop == NodeSpec => Loop!Spec
<1>1. NodeInit => Loop!Init
  BY DEF NodeInit
<1>2. NodeBase /\ [NodeNext]_nodeVars => [Loop!Next]_(Loop!vars)
  <2> SUFFICES ASSUME NodeBase, [NodeNext]_nodeVars PROVE [Loop!Next]_(Loop!vars)
    OBVIOUS
  <2>1. CASE Cycle
    BY <2>1, ReactIsLoopStep DEF Cycle
  <2>2. CASE LoseLocalization
    BY <2>2, LostEffect
  <2>3. CASE UNCHANGED nodeVars
    BY <2>3 DEF nodeVars, loopVars, Loop!vars, Loop!loopVars, Loop!observers
  <2>4. QED
    BY <2>1, <2>2, <2>3 DEF NodeNext
<1>3. QED
  BY <1>1, <1>2, NodeBaseAlways, PTL DEF NodeSpec, Loop!Spec

(***************************************************************************)
(* The context stays coherent and needs a lock to drive, a lock is          *)
(* confirmed and held, and checkpoints come in order also where the next    *)
(* call of Plan() happens where the vehicle drove on the path it was sent:  *)
(* what the run of the node checks, for all zones and every grace.          *)
(***************************************************************************)
COROLLARY NodeMerges ==
  NodeSpec => /\ []ContextIsCoherent /\ []DriveNeedsLock
              /\ CommitIsConfirmed /\ LockHoldsPastStopLine /\ CheckpointsInOrder
BY NodeImplementsMergeFsm, ContextStaysCoherent, DrivingNeedsLock,
   CommitsAreConfirmed, LocksHold, CheckpointsPassInOrder, PTL

------------------------------------------------------------------------------
(***************************************************************************)
(* The stop line.  A path that Plan() gave without a lock is driven on only *)
(* to where it leads (authority) and only while it is resent (Reach), and   *)
(* every call that could make that matter happens ahead of the line.        *)
(***************************************************************************)
\* Where the vehicle can be at the next call, and how far the path it has can
\* take it before a failing Plan() runs out of resends.
Front == IF Driving THEN ego + 1 ELSE ego
Reach == Front + MaxTransientFailCycles - plan_fail_streak

Unlocked == Active(merge) /\ ~merge.gap_locked /\ ~detoured

OutsideZones ==
  ~Active(merge) =>
    \A z \in ZoneIds : Front <= Zones[z].start \/ ego > Zones[z].completion

InsideZone == Active(merge) => position <= Zones[merge.zone].completion

PathIsLimited ==
  Unlocked /\ kept \notin {"none", "avoid"} =>
    \/ authority <= StopS(merge)
    \/ authority <= ego
    \/ Reach < StopS(merge) + MaxTransientFailCycles

BehindConflict == Unlocked => ego < ConflictS(merge)

LockedToConflict == Committed(merge) /\ ~detoured => Front <= ConflictS(merge)

StopInv ==
  /\ OutsideZones
  /\ InsideZone
  /\ PathIsLimited
  /\ BehindConflict
  /\ LockedToConflict

LEMMA NodeNumbers ==
  ASSUME NodeBase
  PROVE  /\ ego \in Nat /\ position \in Nat /\ authority \in Nat /\ Length \in Nat
         /\ plan_fail_streak \in Nat /\ MaxTransientFailCycles \in Nat
         /\ Front \in Nat /\ Reach \in Int /\ ego <= Front /\ Front <= position + 1
         /\ Driving => plan_fail_streak <= MaxTransientFailCycles
<1>1. /\ MaxTransientFailCycles \in Nat /\ Length \in Nat
  BY LoopAssumption, ZonesAssumption
<1>2. plan_fail_streak \in 0..MaxTransientFailCycles + 1
  BY DEF NodeBase, Loop!TypeOK, Loop!StreakBound
<1>3. ego \in 0..Length /\ authority \in 0..Length /\ position \in 0..Length
  BY DEF NodeBase, IInv
<1>4. Front <= position + 1
  BY <1>1, <1>3 DEF NodeBase, Located, Front
<1>5. QED
  BY <1>1, <1>2, <1>3, <1>4 DEF NodeBase, KeptIsKnown, Front, Reach

\* The vehicle without a lock: what it does when it moves.
LEMMA MovesUnlocked ==
  ASSUME NodeBase, StopInv, Move, Active(merge), ~merge.gap_locked, ~detoured'
  PROVE  /\ ego' < ConflictS(merge)
         /\ ego' > ego => \/ ego' <= StopS(merge)
                          \/ ego' < StopS(merge) + MaxTransientFailCycles
<1>1. /\ Good(merge)
      /\ ConflictS(merge) \in Nat /\ StopS(merge) \in Int /\ StopS(merge) < ConflictS(merge)
      /\ StopS(merge) + MaxTransientFailCycles <= ConflictS(merge)
  BY ConflictTypes DEF NodeBase, IInv
<1>2. /\ Unlocked
      /\ ego' # ego => kept # "avoid"
  BY DEF Move, Unlocked
<1>3. ego < ConflictS(merge)
  BY <1>2 DEF StopInv, BehindConflict
<1>4. CASE ego' = ego
  BY <1>1, <1>3, <1>4, NodeNumbers
<1>5. CASE ego' = ego + 1 /\ Driving /\ ego < authority
  <2>1. kept \notin {"none", "avoid"}
    BY <1>2, <1>5, NodeNumbers DEF NodeBase, KeptIsKnown
  <2>2. \/ authority <= StopS(merge)
        \/ authority <= ego
        \/ Reach < StopS(merge) + MaxTransientFailCycles
    BY <1>2, <2>1 DEF StopInv, PathIsLimited
  <2>3. Reach >= ego'
    BY <1>5, NodeNumbers DEF Front, Reach
  <2>4. ego' <= StopS(merge) \/ ego' < StopS(merge) + MaxTransientFailCycles
    BY <1>1, <1>5, <2>2, <2>3, NodeNumbers
  <2>5. QED
    BY <1>1, <1>5, <2>4, NodeNumbers
<1>6. QED
  BY <1>4, <1>5, MoveEffect

\* What the lemmas above say of one period, at the position of its call.
Called(s) ==
  /\ s = ego' /\ s = position' /\ s \in Nat
  /\ ego <= s /\ s <= Front
  /\ Good(merge) /\ Good(merge')
  /\ ZoneOfCall(merge, merge', s)
  /\ Active(merge) /\ Active(merge') => WithinZone(s)
  /\ Answers(merge', s, result')

LEMMA CycleIsCalled ==
  ASSUME NodeBase, Cycle
  PROVE  \E s : Called(s)
<1>1. Next /\ position' = ego'
  BY CycleCalls
<1>2. ego' \in Nat /\ ego <= ego' /\ ego' <= Front
  BY MoveEffect, NodeNumbers DEF Cycle, Front
<1>3. Good(merge) /\ Good(merge')
  BY <1>1, InvariantStep, GoodAfter DEF NodeBase, IInv
<1>4. /\ ZoneOfCall(merge, merge', position')
      /\ Active(merge) /\ Active(merge') => WithinZone(position')
      /\ Answers(merge', position', result')
  BY <1>1, CallFindsZone, CallStaysInZone, NextAnswers DEF NodeBase
<1>5. Called(position')
  BY <1>1, <1>2, <1>3, <1>4 DEF Called
<1>6. QED
  BY <1>5

\* Where the machine begins to wait without a lock: at the start of a zone,
\* after a checkpoint, or where a commit was cancelled.
Begins ==
  /\ Active(merge')
  /\ \/ ~Active(merge)
     \/ merge'.conflict_index # merge.conflict_index
     \/ merge.gap_locked /\ ~merge'.gap_locked

LEMMA BeginsAheadOfLine ==
  ASSUME NodeBase, StopInv, Move, NEW s, Called(s), Begins, ~detoured'
  PROVE  s < StopS(merge')
<1> DEFINE z == merge'.zone
<1>1. /\ z \in ZoneIds /\ merge'.conflict_index \in DOMAIN Zones[z].checkpoints
      /\ StopS(merge') \in Int
  BY ConflictTypes DEF Called, Begins
<1>2. CASE ~Active(merge)
  <2>1. merge'.conflict_index = 1 /\ s <= Zones[z].completion
    BY <1>2 DEF Called, Begins, ZoneOfCall
  <2>2. Front <= Zones[z].start \/ ego > Zones[z].completion
    BY <1>1, <1>2 DEF StopInv, OutsideZones
  <2>3. Zones[z].start < Conflict(z, 1) - Zones[z].stop_buffer
    BY <1>1, SpacingAssumption
  <2>4. /\ Zones[z].start \in Nat /\ Zones[z].completion \in Nat
        /\ Conflict(z, 1) \in Nat /\ Zones[z].stop_buffer \in Nat
    BY <1>1, ZoneTypes
  <2>5. s <= Zones[z].start
    BY <2>1, <2>2, <2>4, NodeNumbers DEF Called
  <2>6. StopS(merge') = Conflict(z, 1) - Zones[z].stop_buffer
    BY <2>1 DEF StopS, ConflictS
  <2>7. QED
    BY <2>3, <2>4, <2>5, <2>6 DEF Called
<1>3. CASE Active(merge) /\ merge'.conflict_index # merge.conflict_index
  <2>1. /\ z = merge.zone /\ merge'.conflict_index = merge.conflict_index + 1
        /\ Committed(merge) /\ s >= ConflictS(merge)
    BY <1>3 DEF Called, Begins, WithinZone
  <2>2. /\ merge.conflict_index \in DOMAIN Zones[z].checkpoints
        /\ ConflictS(merge) \in Nat
    BY <1>3, <2>1, ConflictTypes DEF Called
  <2>3. ~detoured
    BY <1>3 DEF Move
  <2>4. s <= ConflictS(merge)
    BY <2>1, <2>2, <2>3, NodeNumbers DEF StopInv, LockedToConflict, Called
  <2>5. Conflict(z, merge.conflict_index)
          < Conflict(z, merge.conflict_index + 1) - Zones[z].stop_buffer
    BY <1>1, <2>1, <2>2, SpacingAssumption
  <2>6. /\ ConflictS(merge) = Conflict(z, merge.conflict_index)
        /\ StopS(merge') = Conflict(z, merge.conflict_index + 1) - Zones[z].stop_buffer
    BY <2>1 DEF StopS, ConflictS
  <2>7. QED
    BY <1>1, <2>2, <2>4, <2>5, <2>6 DEF Called
<1>4. CASE Active(merge) /\ merge'.conflict_index = merge.conflict_index
  <2>1. s < StopS(merge) /\ z = merge.zone
    BY <1>4 DEF Called, Begins, WithinZone
  <2>2. StopS(merge') = StopS(merge)
    BY <1>4, <2>1 DEF StopS, ConflictS
  <2>3. QED
    BY <2>1, <2>2
<1>5. QED
  BY <1>2, <1>3, <1>4

\* Otherwise nothing changed that an unlocked path depends on.
LEMMA OtherwiseUnchanged ==
  ASSUME NEW s, Called(s), Move, Active(merge'), ~detoured', ~Begins
  PROVE  /\ Active(merge) /\ ~detoured
         /\ ConflictS(merge') = ConflictS(merge) /\ StopS(merge') = StopS(merge)
         /\ merge.gap_locked => merge'.gap_locked
         /\ merge.gap_locked /\ Committed(merge') => s < ConflictS(merge)
<1>1. Active(merge) /\ merge'.conflict_index = merge.conflict_index
      /\ (merge.gap_locked => merge'.gap_locked)
  BY DEF Begins
<1>2. /\ merge'.zone = merge.zone
      /\ merge.gap_locked /\ Committed(merge') => s < ConflictS(merge)
  BY <1>1 DEF Called, WithinZone
<1>3. QED
  BY <1>1, <1>2 DEF Move, ConflictS, StopS

LEMMA ResendShortens ==
  ASSUME NodeBase, NEW s, Called(s), PathResent, kept' # "none"
  PROVE  Reach' <= Reach /\ Reach' <= s + MaxTransientFailCycles
<1>1. Driving' /\ plan_fail_streak' = plan_fail_streak + 1
  BY DEF PathResent
<1>2. Reach' = s + 1 + MaxTransientFailCycles - (plan_fail_streak + 1)
  BY <1>1 DEF Reach, Front, Called
<1>3. QED
  BY <1>2, NodeNumbers DEF Reach, Called

LEMMA OutsideZonesAfter ==
  ASSUME NodeBase, StopInv, NEW s, Called(s), ~Active(merge'), NEW z \in ZoneIds
  PROVE  Front' <= Zones[z].start \/ ego' > Zones[z].completion
<1>1. Zones[z].start \in Nat /\ Zones[z].completion \in Nat
  BY ZoneTypes
<1>2. s \in Nat /\ ego' = s /\ Front' <= s + 1 /\ Front' \in Nat
  <2>1. s \in Nat /\ ego' = s
    BY DEF Called
  <2>2. QED
    BY <2>1 DEF Front
<1>3. CASE ~Active(merge)
  <2>1. LiesOutside(z, s)
    BY <1>3 DEF Called, ZoneOfCall
  <2>2. QED
    BY <1>1, <1>2, <2>1 DEF LiesOutside
<1>4. CASE Active(merge)
  <2> DEFINE y == merge.zone
  <2>1. y \in ZoneIds
    BY <1>4, ConflictTypes DEF Called
  <2>2. /\ Zones[y].start \in Nat /\ Zones[y].completion \in Nat
        /\ Zones[y].start <= Zones[y].completion
    <3>1. /\ Zones[y].start <= ConflictS(merge) /\ ConflictS(merge) \in Nat
          /\ ConflictS(merge) <= Zones[y].completion
      BY <1>4, ConflictTypes DEF Called
    <3>2. QED
      BY <2>1, <3>1, ZoneTypes
  <2>3. s > Zones[y].completion
    BY <1>4 DEF Called, ZoneOfCall
  <2>4. s <= Zones[y].completion + 1
    <3>1. position <= Zones[y].completion
      BY <1>4 DEF StopInv, InsideZone
    <3>2. QED
      BY <2>2, <3>1, NodeNumbers DEF Called
  <2>5. z # y => \/ Zones[y].completion + 1 < Zones[z].start
                 \/ Zones[z].completion + 1 < Zones[y].start
    BY <2>1, SpacingAssumption
  <2> HIDE DEF y
  <2>6. CASE z = y
    BY <1>2, <2>3, <2>6
  <2>7. CASE Zones[y].completion + 1 < Zones[z].start
    BY <1>1, <1>2, <2>2, <2>4, <2>7
  <2>8. CASE Zones[z].completion + 1 < Zones[y].start
    BY <1>1, <1>2, <2>2, <2>3, <2>8
  <2>9. QED
    BY <2>5, <2>6, <2>7, <2>8
<1>5. QED
  BY <1>3, <1>4

LEMMA PathIsLimitedAfter ==
  ASSUME NodeBase, StopInv, Cycle, NEW s, Called(s)
  PROVE  PathIsLimited'
<1> SUFFICES ASSUME Active(merge'), ~merge'.gap_locked, ~detoured',
                    kept' \notin {"none", "avoid"}
             PROVE  \/ authority' <= StopS(merge')
                    \/ authority' <= s
                    \/ Reach' < StopS(merge') + MaxTransientFailCycles
  BY DEF PathIsLimited, Unlocked, Called, Active, StopS, ConflictS
<1>1. /\ ConflictS(merge') \in Nat /\ StopS(merge') \in Int /\ s \in Nat
      /\ MaxTransientFailCycles \in Nat
      /\ merge'.zone \in ZoneIds
      /\ ConflictS(merge') - Zones[merge'.zone].commit_distance < StopS(merge')
  BY ConflictTypes, LoopAssumption DEF Called
<1>2. PathPlanned \/ PathDropped \/ PathResent
  BY ReactEffect DEF NodeBase, Cycle
<1>3. CASE PathPlanned
  <2>1. result' \in {"yield", "approach"}
    BY <1>3 DEF PathPlanned, Paths, Called, Answers
  <2>2. CASE result' = "yield"
    <3>1. authority' = IF StopS(merge') > ego' THEN StopS(merge') ELSE ego'
      BY <1>3, <2>2 DEF PathPlanned, Limit
    <3>2. ego' = s
      BY DEF Called
    <3>3. QED
      BY <1>1, <3>1, <3>2
  <2>3. CASE result' = "approach"
    <3>1. Reach' = s + 1 + MaxTransientFailCycles
      BY <1>1, <1>3 DEF PathPlanned, Reach, Front, Called
    <3>2. ConflictS(merge') - s > Zones[merge'.zone].commit_distance
      BY <2>3 DEF Called, Answers
    <3>3. Zones[merge'.zone].commit_distance \in Nat
      BY <1>1, ZoneTypes
    <3>4. s + 1 < StopS(merge')
      BY <1>1, <3>2, <3>3
    <3>5. QED
      BY <1>1, <3>1, <3>4
  <2>4. QED
    BY <2>1, <2>2, <2>3
<1>4. CASE PathDropped
  BY <1>4 DEF PathDropped
<1>5. CASE PathResent
  <2>1. Reach' <= Reach /\ Reach' <= s + MaxTransientFailCycles /\ Reach' \in Int
    <3>1. Reach' \in Int
      BY <1>1, <1>5, NodeNumbers DEF PathResent, Reach, Front, Called
    <3>2. QED
      BY <1>5, <3>1, ResendShortens
  <2>2. CASE Begins
    <3>1. s < StopS(merge')
      BY <2>2, BeginsAheadOfLine DEF Cycle
    <3>2. QED
      BY <1>1, <2>1, <3>1
  <2>3. CASE ~Begins
    <3>1. /\ Active(merge) /\ ~detoured /\ ~merge.gap_locked
          /\ StopS(merge') = StopS(merge)
      BY <2>3, OtherwiseUnchanged DEF Cycle
    <3>2. ~Cancelled
      BY <3>1 DEF Cancelled, Replaying, Committed
    <3>3. kept \notin {"none", "avoid"} /\ authority' = authority
      BY <1>5, <3>2 DEF PathResent
    <3>4. \/ authority <= StopS(merge)
          \/ authority <= ego
          \/ Reach < StopS(merge) + MaxTransientFailCycles
      BY <3>1, <3>3 DEF StopInv, PathIsLimited, Unlocked
    <3>5. QED
      BY <1>1, <2>1, <3>1, <3>3, <3>4, NodeNumbers DEF Called
  <2>4. QED
    BY <2>2, <2>3
<1>6. QED
  BY <1>2, <1>3, <1>4, <1>5

LEMMA StopInvCycle ==
  ASSUME NodeBase, StopInv, Cycle
  PROVE  StopInv'
<1>1. PICK s : Called(s)
  BY CycleIsCalled
<1>2. s = ego' /\ s = position' /\ s \in Nat /\ Front' <= s + 1 /\ Front' \in Nat
  <2>1. s \in Nat /\ ego' = s /\ position' = s
    BY <1>1 DEF Called
  <2>2. QED
    BY <2>1 DEF Front
<1>3. OutsideZones'
  BY <1>1, OutsideZonesAfter DEF OutsideZones, Active
<1>4. InsideZone'
  BY <1>1 DEF InsideZone, Called, ZoneOfCall, Active
<1>5. PathIsLimited'
  BY <1>1, PathIsLimitedAfter
<1>6. ASSUME Active(merge'), ~detoured'
      PROVE  /\ ConflictS(merge') \in Nat /\ StopS(merge') \in Int
             /\ StopS(merge') < ConflictS(merge')
             /\ Begins => s < StopS(merge')
             /\ ~Begins /\ ~merge.gap_locked => s < ConflictS(merge')
             /\ ~Begins /\ merge.gap_locked =>
                  merge'.gap_locked /\ (Committed(merge') => s < ConflictS(merge'))
  <2>1. /\ ConflictS(merge') \in Nat /\ StopS(merge') \in Int
        /\ StopS(merge') < ConflictS(merge')
    BY <1>1, <1>6, ConflictTypes DEF Called
  <2>2. Begins => s < StopS(merge')
    BY <1>1, <1>6, BeginsAheadOfLine DEF Cycle
  <2>3. ASSUME ~Begins
        PROVE  /\ Active(merge) /\ ConflictS(merge') = ConflictS(merge)
               /\ merge.gap_locked => merge'.gap_locked
               /\ merge.gap_locked /\ Committed(merge') => s < ConflictS(merge)
    BY <1>1, <1>6, <2>3, OtherwiseUnchanged DEF Cycle
  <2>4. ASSUME ~Begins, ~merge.gap_locked
        PROVE  s < ConflictS(merge')
    BY <1>2, <1>6, <2>3, <2>4, MovesUnlocked DEF Cycle
  <2>5. QED
    BY <2>1, <2>2, <2>3, <2>4
<1>7. BehindConflict'
  <2> SUFFICES ASSUME Active(merge'), ~merge'.gap_locked, ~detoured'
               PROVE  s < ConflictS(merge')
    BY <1>2 DEF BehindConflict, Unlocked, Active, ConflictS
  <2>1. QED
    BY <1>2, <1>6
<1>8. LockedToConflict'
  <2> SUFFICES ASSUME Committed(merge'), ~detoured'
               PROVE  Front' <= ConflictS(merge')
    BY DEF LockedToConflict, Committed, Active, ConflictS
  <2>1. Active(merge')
    BY DEF Committed
  <2>2. ConflictS(merge') \in Nat /\ s < ConflictS(merge')
    BY <1>2, <1>6, <2>1
  <2>3. s \in Nat /\ Front' \in Nat /\ Front' <= s + 1
    BY <1>2
  <2>4. QED
    BY <2>2, <2>3
<1>9. QED
  BY <1>3, <1>4, <1>5, <1>7, <1>8 DEF StopInv

LEMMA StopInvLost ==
  ASSUME NodeBase, StopInv, LoseLocalization
  PROVE  StopInv'
<1>1. /\ ~Driving' /\ merge' = merge /\ position' = position
      /\ plan_fail_streak' = plan_fail_streak /\ kept' = kept /\ authority' = authority
  BY LostEffect DEF fsmVars, vars
<1>2. Move
  BY DEF LoseLocalization
<1>3. /\ ego' \in Nat /\ ego <= ego' /\ ego' <= Front /\ Front' = ego'
  BY <1>1, <1>2, MoveEffect, NodeNumbers DEF Front
<1>4. Reach' <= Reach /\ Reach' \in Int
  BY <1>1, <1>3, NodeNumbers DEF Reach
<1>5. Active(merge) /\ ~detoured' => ~detoured
  BY <1>2 DEF Move
<1>6. Active(merge) => ConflictS(merge) \in Nat /\ StopS(merge) \in Int
  BY ConflictTypes DEF NodeBase, IInv
<1>7. OutsideZones'
  <2> SUFFICES ASSUME ~Active(merge), NEW z \in ZoneIds
               PROVE  Front' <= Zones[z].start \/ ego' > Zones[z].completion
    BY <1>1 DEF OutsideZones
  <2>1. Front <= Zones[z].start \/ ego > Zones[z].completion
    BY DEF StopInv, OutsideZones
  <2>2. QED
    BY <1>3, <2>1, ZoneTypes, NodeNumbers
<1>8. InsideZone'
  BY <1>1 DEF StopInv, InsideZone
<1>9. PathIsLimited'
  <2> SUFFICES ASSUME Active(merge), ~merge.gap_locked, ~detoured',
                      kept \notin {"none", "avoid"}
               PROVE  \/ authority <= StopS(merge)
                      \/ authority <= ego'
                      \/ Reach' < StopS(merge) + MaxTransientFailCycles
    BY <1>1 DEF PathIsLimited, Unlocked
  <2>1. \/ authority <= StopS(merge)
        \/ authority <= ego
        \/ Reach < StopS(merge) + MaxTransientFailCycles
    BY <1>5 DEF StopInv, PathIsLimited, Unlocked
  <2>2. QED
    BY <1>3, <1>4, <1>6, <2>1, NodeNumbers
<1>10. BehindConflict'
  BY <1>1, <1>2, MovesUnlocked DEF BehindConflict, Unlocked
<1>11. LockedToConflict'
  <2> SUFFICES ASSUME Committed(merge), ~detoured'
               PROVE  Front' <= ConflictS(merge)
    BY <1>1 DEF LockedToConflict
  <2>1. Active(merge) /\ Front <= ConflictS(merge)
    BY <1>5 DEF Committed, StopInv, LockedToConflict
  <2>2. QED
    BY <1>3, <1>6, <2>1, NodeNumbers
<1>12. QED
  BY <1>7, <1>8, <1>9, <1>10, <1>11 DEF StopInv

LEMMA StopInvAlways == NodeSpec => []StopInv
<1>1. NodeInit => StopInv
  <2> SUFFICES ASSUME NodeInit PROVE StopInv
    OBVIOUS
  <2>1. ~Active(merge) /\ ~Driving /\ ego = 0
    BY NoMergeGood DEF NodeInit, Init, NoMerge, Active, Loop!Init, Driving
  <2>2. ASSUME NEW z \in ZoneIds PROVE Front <= Zones[z].start
    BY <2>1, ZoneTypes DEF Front
  <2>3. QED
    BY <2>1, <2>2 DEF StopInv, OutsideZones, InsideZone, PathIsLimited, BehindConflict,
       LockedToConflict, Unlocked, Committed
<1>2. NodeBase /\ StopInv /\ [NodeNext]_nodeVars => StopInv'
  <2> SUFFICES ASSUME NodeBase, StopInv, [NodeNext]_nodeVars PROVE StopInv'
    OBVIOUS
  <2>1. CASE NodeNext
    BY <2>1, StopInvCycle, StopInvLost DEF NodeNext
  <2>2. CASE UNCHANGED nodeVars
    BY <2>2 DEF nodeVars, fsmVars, vars, loopVars, StopInv, OutsideZones, InsideZone,
       PathIsLimited, BehindConflict, LockedToConflict, Unlocked, Front, Reach, Driving
  <2>3. QED
    BY <2>1, <2>2
<1>3. QED
  BY <1>1, <1>2, NodeBaseAlways, PTL DEF NodeSpec

(***************************************************************************)
(* Past the stop line and without a lock the vehicle drives on only as far  *)
(* as the resends of a failing Plan() reach, unless AVOID moved it.         *)
(***************************************************************************)
THEOREM StopLineIsHeld == NodeSpec => StopLineHeld
<1>1. NodeBase /\ StopInv /\ [NodeNext]_nodeVars =>
        [InStopZone(ego) /\ ego' > ego =>
           \/ merge.gap_locked \/ detoured'
           \/ ego' < StopS(merge) + MaxTransientFailCycles]_nodeVars
  <2> SUFFICES ASSUME NodeBase, StopInv, NodeNext, InStopZone(ego), ego' > ego,
                      ~merge.gap_locked, ~detoured'
               PROVE  ego' < StopS(merge) + MaxTransientFailCycles
    OBVIOUS
  <2>1. Move
    BY DEF NodeNext, Cycle, LoseLocalization
  <2>2. Active(merge) /\ StopS(merge) <= ego /\ StopS(merge) \in Int
    BY ConflictTypes DEF InStopZone, NodeBase, IInv
  <2>3. ego' <= StopS(merge) \/ ego' < StopS(merge) + MaxTransientFailCycles
    BY <2>1, <2>2, MovesUnlocked
  <2>4. QED
    BY <2>1, <2>2, <2>3, MoveEffect, NodeNumbers
<1>2. QED
  BY <1>1, NodeBaseAlways, StopInvAlways, PTL DEF NodeSpec, StopLineHeld

(***************************************************************************)
(* So the conflict point is never reached without a lock, unless AVOID      *)
(* moved the vehicle in this zone (the stop buffer is what the resends use  *)
(* up at most: params.yaml:48, main.cpp:62-64).                             *)
(***************************************************************************)
ConflictNeedsLock ==
  Active(merge) /\ ego >= ConflictS(merge) => merge.gap_locked \/ detoured

\* It holds of the closed loop of Plan(), main.cpp and the vehicle.
THEOREM ConflictIsReachedLocked == NodeSpec => []ConflictNeedsLock
<1>1. NodeBase /\ StopInv => ConflictNeedsLock
  <2> SUFFICES ASSUME NodeBase, StopInv, Active(merge), ~merge.gap_locked, ~detoured
               PROVE  ~(ego >= ConflictS(merge))
    BY DEF ConflictNeedsLock
  <2>1. ego < ConflictS(merge)
    BY DEF StopInv, BehindConflict, Unlocked
  <2>2. ConflictS(merge) \in Nat
    BY ConflictTypes DEF NodeBase, IInv
  <2>3. QED
    BY <2>1, <2>2, NodeNumbers
<1>2. QED
  BY <1>1, NodeBaseAlways, StopInvAlways, PTL

------------------------------------------------------------------------------
(***************************************************************************)
(* How long the vehicle waits.  In a calm period it stands still in a merge *)
(* only while the safe gap is being confirmed, and the count goes up by one *)
(* in each such period.                                                     *)
(***************************************************************************)
Waiting == Active(merge) /\ ego < Length /\ ~(Driving /\ ego < authority)

Confirming(m) ==
  /\ ~m.gap_locked /\ m.phase = "WAIT" /\ m.gap = OpenGap
  /\ m.safe_cycles \in 1..Zones[m.zone].confirm - 1

WaitIsCounted == calm /\ Waiting => Confirming(merge)

WaitCounts ==
  [][calm /\ Waiting /\ calm' /\ Waiting' =>
       /\ ego' = ego
       /\ merge'.zone = merge.zone /\ merge'.conflict_index = merge.conflict_index
       /\ merge'.safe_cycles = merge.safe_cycles + 1]_nodeVars

\* A safe gap that does not lead to "approach" is one being confirmed.
LEMMA UnsafeIsConfirming ==
  ASSUME NEW m, Good(m), Active(m), ~m.gap_locked, NEW s,
         ~EvaluateGap(m, s, OpenGap).gap_safe,
         ~EvaluateGap(m, s, OpenGap).commit_pending
  PROVE  /\ Confirming(EvaluateGap(m, s, OpenGap))
         /\ EvaluateGap(m, s, OpenGap).safe_cycles = CountSafe(m, OpenGap)
<1> DEFINE cycles == CountSafe(m, OpenGap)
           near == ConflictS(m) - s <= Zones[m.zone].commit_distance
           ready == near /\ cycles >= Zones[m.zone].confirm
           safe == IF near THEN ready ELSE OpenGap # "unsafe"
           phase == IF near THEN "WAIT" ELSE "APPROACH"
           n == [m EXCEPT !.safe_cycles = cycles, !.gap = OpenGap, !.phase = phase,
                          !.gap_safe = safe, !.commit_pending = ready]
<1>1. m \in MergeContext /\ OpenGap \in GapPairs /\ OpenGap # "unsafe"
  BY ZonesAssumption, VerdictsAssumption DEF Good, Typed
<1>2. /\ m.safe_cycles \in Nat /\ m.zone \in ZoneIds
      /\ Zones[m.zone].confirm \in Nat
  BY <1>1, ZoneTypes DEF MergeContext, Active
<1>3. cycles \in Nat /\ cycles >= 1
  BY <1>1, <1>2, ZoneTypes DEF CountSafe, Bump
<1>4. safe \in BOOLEAN /\ ready \in BOOLEAN
  OBVIOUS
<1>5. EvaluateGap(m, s, OpenGap) = n
  BY <1>1 DEF EvaluateGap
<1>6. ~safe /\ ~ready => phase = "WAIT" /\ ~(cycles >= Zones[m.zone].confirm)
  BY <1>1
<1> HIDE DEF cycles, ready, safe, phase
<1>7. /\ n.zone = m.zone /\ n.phase = phase /\ n.safe_cycles = cycles /\ n.gap = OpenGap
  BY <1>1 DEF MergeContext
<1>8. n.gap_locked <=> m.gap_locked
  BY <1>1 DEF MergeContext
<1>9. (n.commit_pending <=> ready) /\ (n.gap_safe <=> safe)
  BY <1>1, <1>4 DEF MergeContext
<1> HIDE DEF n
<1>10. ~safe /\ ~ready
  BY <1>5, <1>9
<1>11. Confirming(n)
  BY <1>2, <1>3, <1>6, <1>7, <1>8, <1>10 DEF Confirming
<1>12. QED
  BY <1>5, <1>7, <1>11 DEF cycles

\* A call that meets the safe gap and has candidates answers with "yield" only
\* to confirm the gap.
LEMMA YieldConfirms ==
  ASSUME NEW m, Good(m), ~Committed(m), NEW s \in Nat, NEW far,
         Continue(m, s, OpenGap, far, FALSE, "valid"), result' = "yield"
  PROVE  /\ Active(Enter(m, s, far)) /\ ~Enter(m, s, far).gap_locked
         /\ merge' = EvaluateGap(Enter(m, s, far), s, OpenGap)
         /\ Confirming(merge')
         /\ merge'.safe_cycles = CountSafe(Enter(m, s, far), OpenGap)
<1> DEFINE e == Enter(m, s, far)
           t == Track(e, s, OpenGap)
<1>1. Good(e) /\ Good(t)
  <2>1. Good(e)
    BY EnterGood
  <2>2. OpenGap \in Verdicts
    BY ZonesAssumption DEF Verdicts
  <2> HIDE DEF e
  <2>3. QED
    BY <2>1, <2>2, TrackGood
<1>2. /\ ~t.commit_pending /\ merge' = t
      /\ Active(t) /\ t.phase # "CROSS" /\ ~t.gap_safe
  BY DEF Continue, PlanCandidates, PathOf
<1>3. e.gap_locked => m.gap_locked /\ e = m
  BY EnterFacts
<1> HIDE DEF e
<1>4. Active(e)
  BY <1>2 DEF Track
<1>5. ~e.gap_locked
  <2> SUFFICES ASSUME e.gap_locked PROVE FALSE
    OBVIOUS
  <2>1. e = m /\ m.gap_locked
    BY <1>3
  <2>2. e.phase = "CROSS"
    BY <1>1, <1>4, <2>1 DEF Good, LockMatchesPhase, Committed
  <2>3. OpenGap \in Verdicts
    BY ZonesAssumption DEF Verdicts
  <2>4. t.phase = "CROSS"
    BY <1>1, <2>2, <2>3, TrackGood
  <2>5. QED
    BY <1>2, <2>4
<1>6. t = EvaluateGap(e, s, OpenGap)
  BY <1>4, <1>5 DEF Track
<1>7. Confirming(t) /\ t.safe_cycles = CountSafe(e, OpenGap)
  BY <1>1, <1>2, <1>4, <1>5, <1>6, UnsafeIsConfirming
<1>8. QED
  BY <1>2, <1>4, <1>5, <1>6, <1>7 DEF e

\* What a calm period is, when the vehicle still waits after it.
LEMMA CalmWait ==
  ASSUME NodeBase, Cycle, calm', Waiting'
  PROVE  /\ result' = "yield"
         /\ \E far \in BOOLEAN :
              \/ /\ Committed(merge)
                 /\ Continue(PassConflict(merge), ego', OpenGap, far, FALSE, "valid")
              \/ /\ ~Committed(merge)
                 /\ Continue(merge, ego', OpenGap, far, FALSE, "valid")
<1>1. PlanCalmly
  BY DEF Cycle, PlanDisturbed
<1>2. result' \in Paths
  <2>1. \A m, s, far : Continue(m, s, OpenGap, far, FALSE, "valid") => result' \in Paths
    BY DEF Continue, PlanCandidates, PathOf, Paths
  <2>2. \A s : Return("locked", s) \/ Return("free", s) => result' \in Paths
    BY DEF Return, Paths
  <2>3. QED
    BY <1>1, <2>1, <2>2
       DEF PlanCalmly, ReplayLockedPath, LowSpeedFallback, ReachConflict, PlanUncommitted
<1>3. PathPlanned
  <2>1. result' \notin Failures
    BY <1>2 DEF Paths, Failures
  <2>2. PathPlanned \/ PathDropped \/ PathResent
    BY ReactEffect DEF NodeBase, Cycle
  <2>3. QED
    BY <2>1, <2>2 DEF PathDropped, PathResent, Failures
<1>4. result' = "yield"
  <2>1. ego' < Length /\ ~(ego' < authority') /\ authority' = Limit(result')
    BY <1>3 DEF Waiting, PathPlanned
  <2>2. QED
    BY <2>1 DEF Limit
<1>5. \/ \E far \in BOOLEAN : ReachConflict(ego', OpenGap, far, FALSE, "valid")
      \/ \E far \in BOOLEAN : PlanUncommitted(ego', OpenGap, far, FALSE, "valid")
  <2>1. ~ReplayLockedPath(ego') /\ ~LowSpeedFallback(ego')
    BY <1>4 DEF ReplayLockedPath, LowSpeedFallback, Return
  <2>2. QED
    BY <1>1, <2>1 DEF PlanCalmly
<1>6. CASE \E far \in BOOLEAN : ReachConflict(ego', OpenGap, far, FALSE, "valid")
  BY <1>4, <1>6 DEF ReachConflict
<1>7. CASE \E far \in BOOLEAN : PlanUncommitted(ego', OpenGap, far, FALSE, "valid")
  <2>1. Committed(merge) => merge.locked_path
    BY DEF NodeBase, IInv, Good, CommitHasPath, Committed
  <2>2. QED
    BY <1>4, <1>7, <2>1 DEF PlanUncommitted
<1>8. QED
  BY <1>5, <1>6, <1>7

LEMMA WaitConfirms ==
  ASSUME NodeBase, Cycle, calm', Waiting'
  PROVE  Confirming(merge')
<1>1. ego' \in Nat
  BY MoveEffect DEF Cycle
<1>2. Good(merge)
  BY DEF NodeBase, IInv
<1>3. PICK far \in BOOLEAN :
        \/ /\ Committed(merge)
           /\ Continue(PassConflict(merge), ego', OpenGap, far, FALSE, "valid")
        \/ /\ ~Committed(merge)
           /\ Continue(merge, ego', OpenGap, far, FALSE, "valid")
  BY CalmWait
<1>4. result' = "yield"
  BY CalmWait
<1>5. CASE Committed(merge)
  <2> DEFINE m == PassConflict(merge)
  <2>1. Good(m)
    BY <1>2, <1>5, PassConflictGood
  <2>2. ~Committed(m)
    <3>1. CASE HasNext(merge)
      BY <1>2, <1>5, <3>1, PassConflictGood DEF Committed
    <3>2. CASE ~HasNext(merge)
      <4>1. merge \in MergeContext
        BY <1>2 DEF Good, Typed
      <4>2. m.phase = "CROSS"
        BY <3>2, <4>1 DEF PassConflict, MergeContext
      <4>3. QED
        BY <4>2 DEF Committed
    <3>3. QED
      BY <3>1, <3>2
  <2>3. Continue(m, ego', OpenGap, far, FALSE, "valid")
    BY <1>3, <1>5
  <2> HIDE DEF m
  <2>4. QED
    BY <1>1, <1>4, <2>1, <2>2, <2>3, YieldConfirms
<1>6. CASE ~Committed(merge)
  BY <1>1, <1>2, <1>3, <1>4, <1>6, YieldConfirms
<1>7. QED
  BY <1>5, <1>6

LEMMA WaitIsCountedStep ==
  NodeBase /\ WaitIsCounted /\ [NodeNext]_nodeVars => WaitIsCounted'
<1> SUFFICES ASSUME NodeBase, WaitIsCounted, [NodeNext]_nodeVars, calm', Waiting'
             PROVE  Confirming(merge')
  BY DEF WaitIsCounted, Confirming
<1>1. CASE Cycle
  BY <1>1, WaitConfirms
<1>2. CASE LoseLocalization
  BY <1>2 DEF LoseLocalization
<1>3. CASE UNCHANGED nodeVars
  <2>1. UNCHANGED <<merge, ego, authority, calm, out>>
    BY <1>3 DEF nodeVars, fsmVars, vars, loopVars
  <2>2. calm /\ Waiting
    BY <2>1 DEF Waiting, Driving
  <2>3. QED
    BY <2>1, <2>2 DEF WaitIsCounted
<1>4. QED
  BY <1>1, <1>2, <1>3 DEF NodeNext

LEMMA WaitCountsStep ==
  ASSUME NodeBase, WaitIsCounted, [NodeNext]_nodeVars, nodeVars' # nodeVars,
         calm, Waiting, calm', Waiting'
  PROVE  /\ ego' = ego
         /\ merge'.zone = merge.zone /\ merge'.conflict_index = merge.conflict_index
         /\ merge'.safe_cycles = merge.safe_cycles + 1
<1>1. Cycle
  BY DEF NodeNext, LoseLocalization
<1>2. ego' = ego
  BY <1>1 DEF Cycle, Move, Advance, Waiting
<1>3. Confirming(merge) /\ Active(merge) /\ Good(merge)
  BY DEF WaitIsCounted, Waiting, NodeBase, IInv
<1>4. ~Committed(merge) /\ ego' \in Nat /\ result' = "yield"
  <2>1. ~Committed(merge)
    BY <1>3 DEF Confirming, Committed
  <2>2. ego' \in Nat
    BY <1>1, MoveEffect DEF Cycle
  <2>3. result' = "yield"
    BY <1>1, CalmWait
  <2>4. QED
    BY <2>1, <2>2, <2>3
<1>5. PICK far \in BOOLEAN : Continue(merge, ego', OpenGap, far, FALSE, "valid")
  BY <1>1, <1>4, CalmWait
<1>6. Active(Enter(merge, ego', far))
  BY <1>3, <1>4, <1>5, YieldConfirms
<1>7. Enter(merge, ego', far) = merge
  BY <1>3, <1>6, EnterFacts
<1>8. /\ merge' = EvaluateGap(merge, ego', OpenGap)
      /\ merge'.safe_cycles = CountSafe(merge, OpenGap)
  BY <1>3, <1>4, <1>5, <1>7, YieldConfirms
<1>9. merge'.zone = merge.zone /\ merge'.conflict_index = merge.conflict_index
  <2>1. OpenGap \in Verdicts
    BY ZonesAssumption DEF Verdicts
  <2>2. QED
    BY <1>3, <1>8, <2>1, EvaluateGapGood DEF Confirming
<1>10. CountSafe(merge, OpenGap) = merge.safe_cycles + 1
  <2>1. OpenGap \in GapPairs
    BY ZonesAssumption
  <2>2. merge.zone \in ZoneIds
    BY <1>3 DEF Good, Typed, MergeContext, Active
  <2>3. Zones[merge.zone].confirm \in Nat
    BY <2>2, ZoneTypes
  <2>4. QED
    BY <1>3, <2>1, <2>3 DEF Confirming, CountSafe, Bump
<1>11. QED
  BY <1>2, <1>8, <1>9, <1>10

(***************************************************************************)
(* The measure behind MergeCompletes: from calm period to calm period the   *)
(* vehicle waits in a merge for at most `confirm` - 1 periods, each of      *)
(* which counts for the same gap of the same checkpoint; no rejection,      *)
(* cancellation or emergency stop of before leaves it waiting for anything  *)
(* else (frenet_planner.cpp:455-457, 792-809; params.yaml:57).              *)
(***************************************************************************)
THEOREM WaitIsBounded == NodeSpec => []WaitIsCounted /\ WaitCounts
<1>1. NodeInit => WaitIsCounted
  BY DEF NodeInit, WaitIsCounted
<1>2. NodeBase /\ WaitIsCounted /\ [NodeNext]_nodeVars
        => [calm /\ Waiting /\ calm' /\ Waiting' =>
              /\ ego' = ego
              /\ merge'.zone = merge.zone /\ merge'.conflict_index = merge.conflict_index
              /\ merge'.safe_cycles = merge.safe_cycles + 1]_nodeVars
  BY WaitCountsStep
<1>3. QED
  BY <1>1, <1>2, WaitIsCountedStep, NodeBaseAlways, PTL DEF NodeSpec, WaitCounts
=============================================================================
