---------------------------- MODULE Contexts_proofs ----------------------------
(***************************************************************************)
(* Theorems about the two contexts the planner keeps from call to call: the *)
(* choice of the leader, for every track, range, margin, grace, any number  *)
(* of objects and any sequence of packets; and the drive around standing    *)
(* obstacles, for every road, list, size, distance and weight.              *)
(***************************************************************************)
EXTENDS Following, Avoidance, NatFacts, TLAPS

(***************************************************************************)
(* The leader.                                                              *)
(***************************************************************************)

LEMMA GapInLap ==
  ASSUME NEW o \in Positions, NEW s \in Positions
  PROVE  Gap(o, s) \in 1..TrackLength
BY FollowingAssumption DEF Gap, Positions

Leaders == [active : {TRUE}, id : Ids, s : Nat, missing : 0..Grace]
Contexts == Leaders \cup {NoLeader}

LEMMA LeaderIsTyped ==
  ASSUME NEW id \in Ids, NEW s \in Nat, NEW missing \in 0..Grace
  PROVE  /\ Leader(id, s, missing) \in Leaders
         /\ Leader(id, s, missing).active
         /\ Leader(id, s, missing).id = id
         /\ Leader(id, s, missing).s = s
         /\ Leader(id, s, missing).missing = missing
BY DEF Leader, Leaders

LEMMA NoLeaderApart == NoLeader \notin Leaders /\ ~NoLeader.active
<1>1. NoLeader.active \notin {TRUE}
  BY DEF NoLeader
<1>2. \A f \in Leaders : f.active \in {TRUE}
  BY DEF Leaders
<1>3. NoLeader \notin Leaders
  BY <1>1, <1>2
<1>4. ~NoLeader.active
  BY DEF NoLeader
<1>5. QED
  BY <1>3, <1>4

\* A leading object has a position, and its gap a length.
LEMMA LeadingGap ==
  ASSUME NEW objs \in Packets, NEW i \in Ids, Leads(objs, i), NEW s \in Positions
  PROVE  objs[i] \in Positions /\ Gap(objs[i], s) \in Nat
<1>1. PICK seen \in SUBSET Ids : objs \in [seen -> Positions \cup {Elsewhere}]
  BY DEF Packets
<1>2. objs[i] \in Positions
  BY <1>1 DEF Leads
<1>3. QED
  BY <1>2, GapInLap, FollowingAssumption

LEMMA KeepLeaderIsTyped ==
  ASSUME NEW f \in Contexts, NEW objs \in Packets, NEW s \in Positions,
         NEW step \in 0..Stride
  PROVE  KeepLeader(f, objs, s, step) \in Contexts
<1> DEFINE k == KeepLeader(f, objs, s, step)
<1>0. Positions \subseteq Nat /\ Grace \in Nat /\ Stride \in Nat
  BY FollowingAssumption DEF Positions
<1>1. CASE f = NoLeader
  BY <1>1 DEF KeepLeader, NoLeader, Contexts
<1>2. CASE f \in Leaders
  <2>1. f.active /\ f.id \in Ids /\ f.s \in Nat /\ f.missing \in 0..Grace
    BY <1>2 DEF Leaders
  <2>2. CASE Leads(objs, f.id) /\ Gap(objs[f.id], s) <= SearchRange + ExitMargin
    <3>1. Gap(objs[f.id], s) \in Nat
      BY <2>1, <2>2, LeadingGap
    <3>2. s + Gap(objs[f.id], s) \in Nat /\ 0 \in 0..Grace
      BY <1>0, <3>1
    <3>3. k = Leader(f.id, s + Gap(objs[f.id], s), 0)
      BY <2>1, <2>2 DEF KeepLeader
    <3>4. QED
      BY <2>1, <3>2, <3>3, LeaderIsTyped DEF Contexts
  <2>3. CASE /\ ~(Leads(objs, f.id) /\ Gap(objs[f.id], s) <= SearchRange + ExitMargin)
             /\ f.id \in DOMAIN objs \/ f.missing + 1 > Grace
    BY <2>1, <2>3 DEF KeepLeader, Contexts
  <2>4. CASE /\ ~(Leads(objs, f.id) /\ Gap(objs[f.id], s) <= SearchRange + ExitMargin)
             /\ ~(f.id \in DOMAIN objs \/ f.missing + 1 > Grace)
    <3>1. k = Leader(f.id, f.s + step, f.missing + 1)
      BY <2>1, <2>4 DEF KeepLeader
    <3>2. f.s + step \in Nat /\ f.missing + 1 \in 0..Grace
      BY <1>0, <2>1, <2>4
    <3>3. QED
      BY <2>1, <3>1, <3>2, LeaderIsTyped DEF Contexts
  <2>5. QED
    BY <2>2, <2>3, <2>4
<1>3. QED
  BY <1>1, <1>2 DEF Contexts

(***************************************************************************)
(* After the handover there is a leader, and it is at most the margin       *)
(* behind the nearest one.                                                  *)
(***************************************************************************)
LEMMA HandOverOutcome ==
  ASSUME NEW f \in Contexts, NEW objs \in Packets, NEW s \in Positions,
         NEW n \in InSearch(objs, s)
  PROVE  /\ HandOver(f, n, objs, s) \in Leaders
         /\ \/ HandOver(f, n, objs, s) = Leader(n, s + Gap(objs[n], s), 0)
            \/ HandOver(f, n, objs, s) = f
         /\ n = f.id \/ HandOver(f, n, objs, s).s - s <= Gap(objs[n], s) + SwitchMargin
<1> DEFINE h == HandOver(f, n, objs, s)
           new == Leader(n, s + Gap(objs[n], s), 0)
<1>1. n \in Ids /\ Leads(objs, n)
  BY DEF InSearch
<1>2. Gap(objs[n], s) \in Nat /\ s \in Nat /\ Grace \in Nat /\ SwitchMargin \in Nat
  BY <1>1, LeadingGap, FollowingAssumption DEF Positions
<1>3. new \in Leaders /\ new.s = s + Gap(objs[n], s)
  <2>1. s + Gap(objs[n], s) \in Nat /\ 0 \in 0..Grace
    BY <1>2
  <2>2. QED
    BY <1>1, <2>1, LeaderIsTyped
<1>4. CASE ~f.active \/ (n # f.id /\ Gap(objs[n], s) + SwitchMargin < f.s - s)
  <2>1. h = new
    BY <1>4 DEF HandOver
  <2> HIDE DEF h, new
  <2>2. QED
    BY <1>2, <1>3, <2>1 DEF h, new
<1>5. CASE f.active /\ ~(n # f.id /\ Gap(objs[n], s) + SwitchMargin < f.s - s)
  <2>1. h = f
    BY <1>5 DEF HandOver
  <2>2. f \in Leaders
    BY <1>5 DEF Contexts, NoLeader
  <2>3. f.s \in Nat
    BY <2>2 DEF Leaders
  <2>4. n = f.id \/ f.s - s <= Gap(objs[n], s) + SwitchMargin
    BY <1>2, <1>5, <2>3
  <2>5. QED
    BY <2>1, <2>2, <2>4
<1>6. QED
  BY <1>4, <1>5
(***************************************************************************)
(* What the check of the present leader can end in.                         *)
(***************************************************************************)
LEMMA KeepLeaderOutcome ==
  ASSUME NEW f \in Leaders, NEW objs \in Packets, NEW s \in Positions,
         NEW step \in 0..Stride
  PROVE  LET k == KeepLeader(f, objs, s, step)
             near == Gap(objs[f.id], s) <= SearchRange + ExitMargin
         IN  \/ /\ k = NoLeader
                /\ ~(Leads(objs, f.id) /\ near)
                /\ f.id \in DOMAIN objs \/ f.missing = Grace
             \/ /\ k \in Leaders /\ k.active /\ k.id = f.id
                /\ Leads(objs, f.id) /\ near
                /\ k.s - s = Gap(objs[f.id], s)
             \/ /\ k \in Leaders /\ k.active /\ k.id = f.id
                /\ ~Leads(objs, f.id)
                /\ k.s - s <= f.s + Stride - s
<1> DEFINE k == KeepLeader(f, objs, s, step)
           near == Gap(objs[f.id], s) <= SearchRange + ExitMargin
<1>0. Positions \subseteq Nat /\ Grace \in Nat /\ Stride \in Nat
  BY FollowingAssumption DEF Positions
<1>1. f.active /\ f.id \in Ids /\ f.s \in Nat /\ f.missing \in 0..Grace
  BY DEF Leaders
<1>2. k \in Contexts
  BY KeepLeaderIsTyped DEF Contexts
<1>3. CASE Leads(objs, f.id) /\ near
  <2>1. k = Leader(f.id, s + Gap(objs[f.id], s), 0)
    BY <1>1, <1>3 DEF KeepLeader
  <2>2. Gap(objs[f.id], s) \in Nat
    BY <1>1, <1>3, LeadingGap
  <2>3. s + Gap(objs[f.id], s) \in Nat /\ 0 \in 0..Grace
    BY <1>0, <2>2
  <2>4. k \in Leaders /\ k.active /\ k.id = f.id /\ k.s = s + Gap(objs[f.id], s)
    BY <1>1, <2>1, <2>3, LeaderIsTyped
  <2> HIDE DEF k
  <2>5. k.s - s = Gap(objs[f.id], s)
    BY <1>0, <2>2, <2>4
  <2>6. QED
    BY <1>3, <2>4, <2>5 DEF k
<1>4. CASE ~(Leads(objs, f.id) /\ near) /\ (f.id \in DOMAIN objs \/ f.missing + 1 > Grace)
  <2>1. k = NoLeader
    BY <1>1, <1>4 DEF KeepLeader
  <2>2. f.id \in DOMAIN objs \/ f.missing = Grace
    BY <1>0, <1>1, <1>4
  <2>3. QED
    BY <1>4, <2>1, <2>2
<1>5. CASE ~(Leads(objs, f.id) /\ near) /\ ~(f.id \in DOMAIN objs \/ f.missing + 1 > Grace)
  <2>1. k = Leader(f.id, f.s + step, f.missing + 1)
    BY <1>1, <1>5 DEF KeepLeader
  <2>2. f.s + step \in Nat /\ f.missing + 1 \in 0..Grace
    BY <1>0, <1>1, <1>5
  <2>3. k \in Leaders /\ k.active /\ k.id = f.id /\ k.s = f.s + step
    BY <1>1, <2>1, <2>2, LeaderIsTyped
  <2>4. ~Leads(objs, f.id)
    BY <1>5 DEF Leads
  <2> HIDE DEF k
  <2>5. k.s - s <= f.s + Stride - s
    BY <1>0, <1>1, <2>3
  <2>6. QED
    BY <2>3, <2>4, <2>5 DEF k
<1>6. QED
  BY <1>3, <1>4, <1>5
------------------------------------------------------------------------------
(***************************************************************************)
(* The types are inductive: what a call leaves is a well-typed context.     *)
(***************************************************************************)
LEMMA TypeStep ==
  ASSUME TypeOK, [Next]_vars
  PROVE  TypeOK'
<1> USE FollowingAssumption
<1>1. TypeOK <=> /\ objects \in Packets /\ ego_s \in Positions
                /\ following \in Contexts
                /\ searched \in BOOLEAN
  BY DEF TypeOK, Contexts, Leaders
<1>2. ASSUME Receive, Move
      PROVE  objects' \in Packets /\ ego_s' \in Positions
  <2>1. objects' \in Packets
    BY <1>1, <1>2 DEF Receive
  <2>2. PICK step \in 0..Stride : ego_s' = (ego_s + step) % TrackLength
    BY <1>2 DEF Move
  <2>3. ego_s + step \in Int /\ TrackLength \in Nat \ {0}
    BY <1>1 DEF Positions
  <2>4. (ego_s + step) % TrackLength \in 0..TrackLength - 1
    BY <2>3
  <2>5. QED
    BY <2>1, <2>2, <2>4 DEF Positions
<1>3. CASE Follow
  <2>1. objects' \in Packets /\ ego_s' \in Positions
    BY <1>2, <1>3 DEF Follow
  <2>2. PICK step \in 0..Stride :
          LET kept == KeepLeader(following, objects', ego_s', step)
          IN  \/ following' = kept
              \/ \E n \in Nearest(objects', ego_s') :
                   following' = HandOver(kept, n, objects', ego_s')
    BY <1>3 DEF Follow, Track
  <2>3. KeepLeader(following, objects', ego_s', step) \in Contexts
    BY <1>1, <2>1, KeepLeaderIsTyped
  <2>4. following' \in Contexts
    BY <2>1, <2>2, <2>3, HandOverOutcome DEF Nearest, Contexts
  <2>5. QED
    BY <1>3, <2>1, <2>4 DEF Follow, TypeOK, Contexts, Leaders
<1>4. CASE ReturnEarly
  BY <1>1, <1>2, <1>4 DEF ReturnEarly, TypeOK
<1>5. CASE UNCHANGED vars
  BY <1>5 DEF vars, TypeOK
<1>6. QED
  BY <1>3, <1>4, <1>5 DEF Next

\* The context is inactive or a leader with an id of the snapshot, whose
\* dropout count never exceeds the grace.
THEOREM TypeCorrect == Spec => []TypeOK
<1>1. Init => TypeOK
  <2>1. [i \in {} |-> Elsewhere] \in [{} -> Positions \cup {Elsewhere}]
    OBVIOUS
  <2>2. [i \in {} |-> Elsewhere] \in Packets
    BY <2>1 DEF Packets
  <2>3. 0 \in Positions /\ 0 \in 0..Grace + 1
    BY FollowingAssumption DEF Positions
  <2>4. QED
    BY <2>2, <2>3 DEF Init, TypeOK
<1>2. QED
  BY <1>1, TypeStep, PTL DEF Spec

(***************************************************************************)
(* The search finds somebody whenever somebody is there.                    *)
(***************************************************************************)
LEMMA NearestExists ==
  ASSUME NEW objs \in Packets, NEW s \in Positions, InSearch(objs, s) # {}
  PROVE  Nearest(objs, s) # {}
<1> DEFINE Gaps == {Gap(objs[i], s) : i \in InSearch(objs, s)}
<1>1. ASSUME NEW i \in InSearch(objs, s) PROVE Gap(objs[i], s) \in Nat
  BY LeadingGap DEF InSearch
<1>2. Gaps \in SUBSET Nat /\ Gaps # {}
  BY <1>1
<1>3. PICK g \in Gaps : \A h \in Gaps : g <= h
  <2> HIDE DEF Gaps
  <2>1. QED
    BY <1>2, LeastElement
<1>4. PICK i \in InSearch(objs, s) : Gap(objs[i], s) = g
  OBVIOUS
<1>5. i \in Nearest(objs, s)
  BY <1>3, <1>4 DEF Nearest
<1>6. QED
  BY <1>5

(***************************************************************************)
(* One call that looks for a leader overlooks nobody.                       *)
(***************************************************************************)
LEMMA SearchOverlooksNobody ==
  ASSUME NEW f \in Contexts, NEW objs \in Packets, NEW s \in Positions,
         NEW step \in 0..Stride, NEW i \in InSearch(objs, s),
         NEW n \in Nearest(objs, s)
  PROVE  LET h == HandOver(KeepLeader(f, objs, s, step), n, objs, s)
         IN  h.active /\ h.s - s <= Gap(objs[i], s) + SwitchMargin
<1> DEFINE kept == KeepLeader(f, objs, s, step)
           h == HandOver(kept, n, objs, s)
<1>1. /\ n \in InSearch(objs, s) /\ n \in Ids /\ Leads(objs, n)
      /\ Gap(objs[n], s) <= SearchRange
      /\ Gap(objs[n], s) <= Gap(objs[i], s)
  BY DEF Nearest, InSearch
<1>2. /\ Gap(objs[n], s) \in Nat /\ Gap(objs[i], s) \in Nat /\ s \in Nat
      /\ SwitchMargin \in Nat /\ SearchRange \in Nat /\ ExitMargin \in Nat
  BY <1>1, LeadingGap, FollowingAssumption DEF InSearch, Positions
<1>3. kept \in Contexts
  BY KeepLeaderIsTyped
<1> HIDE DEF kept
<1>4. /\ h \in Leaders
      /\ h = Leader(n, s + Gap(objs[n], s), 0) \/ h = kept
      /\ n = kept.id \/ h.s - s <= Gap(objs[n], s) + SwitchMargin
  BY <1>1, <1>3, HandOverOutcome
<1> HIDE DEF h
<1>5. h.active /\ h.s \in Nat
  BY <1>4 DEF Leaders
<1>6. h.s - s <= Gap(objs[n], s) + SwitchMargin
  <2>1. CASE h = Leader(n, s + Gap(objs[n], s), 0)
    <3>1. h.s = s + Gap(objs[n], s)
      BY <2>1 DEF Leader
    <3>2. QED
      BY <1>2, <3>1
  \* The leader kept is the nearest itself, seen in this very call.
  <2>2. CASE h = kept /\ n = kept.id
    <3>1. kept \in Leaders /\ kept # NoLeader
      <4>1. kept \in Leaders
        BY <1>4, <2>2
      <4>2. QED
        BY <4>1, NoLeaderApart
    <3>2. f \in Leaders
      <4>1. CASE f = NoLeader
        BY <3>1, <4>1 DEF kept, KeepLeader, NoLeader
      <4>2. QED
        BY <4>1 DEF Contexts
    <3>3. kept.id = f.id /\ (Leads(objs, f.id) => kept.s - s = Gap(objs[f.id], s))
      BY <3>1, <3>2, KeepLeaderOutcome DEF kept
    <3>4. h.s - s = Gap(objs[n], s)
      BY <1>1, <2>2, <3>3
    <3>5. QED
      BY <1>2, <3>4
  <2>3. QED
    BY <1>4, <2>1, <2>2
<1>7. QED
  BY <1>1, <1>2, <1>5, <1>6 DEF h, kept

(***************************************************************************)
(* No vehicle in the search range is ever more than the margin nearer than  *)
(* the leader, whoever is missing, predicted or handed over.                *)
(***************************************************************************)
THEOREM NobodyIsOverlooked == Spec => []NobodyNearer
<1>1. Init => NobodyNearer
  BY DEF Init, NobodyNearer
<1>2. TypeOK /\ NobodyNearer /\ [Next]_vars => NobodyNearer'
  <2> SUFFICES ASSUME TypeOK, NobodyNearer, [Next]_vars PROVE NobodyNearer'
    OBVIOUS
  <2>1. TypeOK'
    BY TypeStep
  <2>2. CASE Follow
    <3>1. /\ objects' \in Packets /\ ego_s' \in Positions /\ following \in Contexts
      BY <2>1 DEF TypeOK, Contexts, Leaders
    <3>2. ASSUME NEW i \in InSearch(objects', ego_s')
          PROVE  /\ following'.active
                 /\ following'.s - ego_s' <= Gap(objects'[i], ego_s') + SwitchMargin
      <4>1. Nearest(objects', ego_s') # {}
        BY <3>1, NearestExists
      <4>2. PICK step \in 0..Stride, n \in Nearest(objects', ego_s') :
              following' = HandOver(KeepLeader(following, objects', ego_s', step),
                                    n, objects', ego_s')
        BY <2>2, <4>1 DEF Follow, Track
      <4>3. QED
        BY <3>1, <4>2, SearchOverlooksNobody
    <3>3. QED
      <4>1. NobodyNearer' <=>
              (searched' => \A i \in InSearch(objects', ego_s') :
                 /\ following'.active
                 /\ following'.s - ego_s' <= Gap(objects'[i], ego_s') + SwitchMargin)
        BY DEF NobodyNearer, InSearch, Leads, Gap
      <4>2. QED
        BY <3>2, <4>1
  <2>3. CASE ReturnEarly
    BY <2>3 DEF ReturnEarly, NobodyNearer
  <2>4. CASE UNCHANGED vars
    BY <2>4 DEF vars, NobodyNearer, InSearch, Leads, Gap
  <2>5. QED
    BY <2>2, <2>3, <2>4 DEF Next
<1>3. QED
  BY <1>1, <1>2, TypeCorrect, PTL DEF Spec

(***************************************************************************)
(* A leader is given up only for a reason: seen leading no more, seen out   *)
(* of range, missing beyond the grace, or a vehicle nearer by the margin.   *)
(***************************************************************************)
THEOREM LeadersAreKept == Spec => HandoverIsEarned
<1> DEFINE GivenUp == following.active /\ ~(following'.active /\ following'.id = following.id)
           Earned ==
             \/ following.id \in DOMAIN objects' /\ ~Leads(objects', following.id)
             \/ Leads(objects', following.id)
                  /\ Gap(objects'[following.id], ego_s') > SearchRange + ExitMargin
             \/ following.id \notin DOMAIN objects' /\ following.missing = Grace
             \/ /\ following'.active
                /\ following'.s - ego_s' + SwitchMargin <
                     IF Leads(objects', following.id) THEN Gap(objects'[following.id], ego_s')
                     ELSE following.s + Stride - ego_s'
<1>1. TypeOK /\ [Next]_vars => [GivenUp => Earned]_vars
  <2> SUFFICES ASSUME TypeOK, Next, GivenUp PROVE Earned
    BY DEF vars
  <2>1. TypeOK'
    BY TypeStep
  <2>2. /\ objects' \in Packets /\ ego_s' \in Positions /\ ego_s' \in Nat
        /\ following \in Leaders /\ following.id \in Ids /\ following.s \in Nat
    <3>1. objects' \in Packets /\ ego_s' \in Positions /\ ego_s' \in Nat
      BY <2>1, FollowingAssumption DEF TypeOK, Positions
    <3>2. following \in Leaders
      <4>1. following # NoLeader
        BY NoLeaderApart
      <4>2. QED
        BY <4>1 DEF TypeOK, Leaders
    <3>3. QED
      BY <3>1, <3>2 DEF Leaders
  <2>3. Follow
    BY DEF Next, ReturnEarly
  <2>4. PICK step \in 0..Stride :
          LET kept == KeepLeader(following, objects', ego_s', step)
          IN  \/ following' = kept
              \/ \E n \in Nearest(objects', ego_s') :
                   following' = HandOver(kept, n, objects', ego_s')
    BY <2>3 DEF Follow, Track
  <2> DEFINE kept == KeepLeader(following, objects', ego_s', step)
             near == Gap(objects'[following.id], ego_s') <= SearchRange + ExitMargin
  <2>5. \/ /\ kept = NoLeader
           /\ ~(Leads(objects', following.id) /\ near)
           /\ following.id \in DOMAIN objects' \/ following.missing = Grace
        \/ /\ kept \in Leaders /\ kept.active /\ kept.id = following.id
           /\ Leads(objects', following.id) /\ near
           /\ kept.s - ego_s' = Gap(objects'[following.id], ego_s')
        \/ /\ kept \in Leaders /\ kept.active /\ kept.id = following.id
           /\ ~Leads(objects', following.id)
           /\ kept.s - ego_s' <= following.s + Stride - ego_s'
    BY <2>2, KeepLeaderOutcome
  <2>6. \/ following' = kept
        \/ \E n \in Nearest(objects', ego_s') : following' = HandOver(kept, n, objects', ego_s')
    BY <2>4
  <2> HIDE DEF kept
  <2>7. CASE kept = NoLeader
    <3>1. /\ ~(Leads(objects', following.id) /\ near)
          /\ following.id \in DOMAIN objects' \/ following.missing = Grace
      BY <2>5, <2>7, NoLeaderApart
    <3>2. CASE Leads(objects', following.id)
      <4>1. Gap(objects'[following.id], ego_s') \in Nat
        BY <2>2, <3>2, LeadingGap
      <4>2. QED
        BY <3>1, <3>2, <4>1, FollowingAssumption
    <3>3. CASE ~Leads(objects', following.id)
      BY <3>1, <3>3
    <3>4. QED
      BY <3>2, <3>3
  \* The leader was kept: only the handover can have replaced it.
  <2>8. CASE kept \in Leaders /\ kept.active /\ kept.id = following.id
    <3>1. PICK n \in Nearest(objects', ego_s') : following' = HandOver(kept, n, objects', ego_s')
      BY <2>6, <2>8
    <3>2. /\ following' = Leader(n, ego_s' + Gap(objects'[n], ego_s'), 0)
          /\ Gap(objects'[n], ego_s') + SwitchMargin < kept.s - ego_s'
      BY <2>8, <3>1 DEF HandOver
    <3>3. Gap(objects'[n], ego_s') \in Nat
      BY <2>2, LeadingGap DEF Nearest, InSearch
    <3>4. following'.active /\ following'.s = ego_s' + Gap(objects'[n], ego_s')
      BY <3>2 DEF Leader
    <3>5. following'.s - ego_s' + SwitchMargin < kept.s - ego_s'
      BY <2>2, <3>2, <3>3, <3>4
    <3>6. CASE Leads(objects', following.id)
      <4>1. kept.s - ego_s' = Gap(objects'[following.id], ego_s')
        BY <2>5, <2>8, <3>6, NoLeaderApart
      <4>2. QED
        BY <3>4, <3>5, <3>6, <4>1
    <3>7. CASE ~Leads(objects', following.id)
      <4>1. kept.s - ego_s' <= following.s + Stride - ego_s'
        BY <2>5, <2>8, <3>7, NoLeaderApart
      <4>2. kept.s \in Nat /\ SwitchMargin \in Nat /\ Stride \in Nat
        BY <2>8, FollowingAssumption DEF Leaders
      <4>3. following'.s - ego_s' + SwitchMargin < following.s + Stride - ego_s'
        BY <2>2, <3>3, <3>4, <3>5, <4>1, <4>2
      <4>4. QED
        BY <3>4, <3>7, <4>3
    <3>8. QED
      BY <3>6, <3>7
  <2>9. QED
    BY <2>5, <2>7, <2>8
<1>2. QED
  BY <1>1, TypeCorrect, PTL DEF Spec, HandoverIsEarned
------------------------------------------------------------------------------
(***************************************************************************)
(* The candidates.  Part divides by the length of a path: the lateral       *)
(* position it gives is one again.                                          *)
(***************************************************************************)
LEMMA PartIsInt ==
  ASSUME NEW delta \in Int, NEW x \in Int, NEW span \in Nat \ {0}
  PROVE  Part(delta, x, span) \in Int
<1>1. Abs(delta) \in Int
  BY DEF Abs
<1>2. PICK y \in Int : y = Abs(delta) * x + span - 1
  BY <1>1
<1>3. y \div span \in Int
  OBVIOUS
<1>4. QED
  BY <1>2, <1>3 DEF Part

(***************************************************************************)
(* Every candidate moves and has an end within the tolerance of the target. *)
(***************************************************************************)
LEMMA CandidateType ==
  ASSUME NEW e, e.d \in Int, NEW target \in Int, NEW base \in {Slow, Cruise},
         NEW c \in ResolveManeuver(e, target, base)
  PROVE  /\ c.to \in Int /\ c.to + Tolerance >= target
         /\ c.time \in Nat \ {0}
         /\ c.step \in Int /\ c.step + base >= 1
         /\ c.speed = base + c.step /\ c.speed \in Nat \ {0}
<1>1. PICK lat \in LateralCandidates(target), lon \in SpeedCandidates(base) :
        c = [to |-> lat.to, time |-> lat.time, speed |-> lon.speed, step |-> lon.step]
  BY DEF ResolveManeuver, Combine
<1>2. PICK k \in -Tolerance..Tolerance, T \in Durations : lat = [to |-> target + k, time |-> T]
  BY DEF LateralCandidates
<1>3. PICK step \in SpeedSteps, U \in Durations :
        lon = [speed |-> base + step, step |-> step, time |-> U]
  BY DEF SpeedCandidates
<1>4. c.to = target + k /\ c.time = T /\ c.speed = base + step /\ c.step = step
  BY <1>1, <1>2, <1>3
<1>5. T \in Nat \ {0} /\ step \in Int /\ Tolerance \in Nat
  BY CandidatesAssumption
<1>6. base \in Int /\ base + step > 0
  BY AvoidanceAssumption
<1>7. QED
  BY <1>4, <1>5, <1>6

LEMMA SpanIsPositive ==
  ASSUME NEW c, c.time \in Nat \ {0}, c.speed \in Nat \ {0}
  PROVE  Span(c) \in Nat \ {0}
<1>1. \A m, n \in Nat \ {0} : m * n \in Nat \ {0}
  OBVIOUS
<1>2. QED
  BY <1>1 DEF Span

LEMMA SquareIsNat == ASSUME NEW x \in Int PROVE x * x \in Nat
OBVIOUS

LEMMA ErrorIsNat ==
  ASSUME NEW x \in Int, NEW y \in Int
  PROVE  x * x + x * y + y * y \in Nat
<1>1. x * x \in Nat /\ y * y \in Nat /\ x * y \in Int /\ (x + y) * (x + y) \in Nat
  BY SquareIsNat
<1>2. (x + y) * (x + y) = x * x + 2 * (x * y) + y * y
  OBVIOUS
<1>3. QED
  BY <1>1, <1>2

LEMMA CostIsNat ==
  ASSUME NEW e, e.d \in Int, NEW target \in Int, NEW base \in {Slow, Cruise},
         NEW c \in ResolveManeuver(e, target, base)
  PROVE  Cost(c, e, target) \in Nat
<1>1. /\ c.to \in Int /\ c.time \in Nat /\ c.step \in Int
  BY CandidateType
<1>2. PICK now \in Int, end \in Int : now = e.d - target /\ end = c.to - target
  BY <1>1
<1>3. PICK error \in Nat : error = now * now + now * end + end * end
  BY ErrorIsNat
<1>4. \A m, n \in Nat : m * n \in Nat
  OBVIOUS
<1>5. /\ TimeWeight * c.time \in Nat
      /\ PathWeight * c.time * error \in Nat
  BY <1>1, <1>4, CandidatesAssumption
<1>6. \A w \in Nat, x \in Int : w * x * x \in Nat
  <2> SUFFICES ASSUME NEW w \in Nat, NEW x \in Int PROVE w * x * x \in Nat
    OBVIOUS
  <2>1. x * x \in Nat /\ w * x * x = w * (x * x)
    BY SquareIsNat
  <2>2. QED
    BY <2>1, <1>4
<1>7. StepWeight * c.step * c.step \in Nat /\ TerminalWeight * end * end \in Nat
  BY <1>1, <1>6, CandidatesAssumption
<1>8. Cost(c, e, target) = TimeWeight * c.time + StepWeight * c.step * c.step
                             + TerminalWeight * end * end + PathWeight * c.time * error
  BY <1>2, <1>3 DEF Cost
<1>9. QED
  BY <1>5, <1>7, <1>8

LEMMA LeastOf ==
  ASSUME NEW S, NEW f \in [S -> Nat], NEW T \in SUBSET S, T # {}
  PROVE  \E x \in T : \A y \in T : f[x] <= f[y]
<1>1. PICK V \in SUBSET Nat : V = {f[x] : x \in T}
  OBVIOUS
<1>2. V # {}
  BY <1>1
<1>3. PICK v \in V : \A w \in V : v <= w
  BY <1>2, LeastElement
<1>4. QED
  BY <1>1, <1>3

(***************************************************************************)
(* There is a first candidate of least cost, and SelectBest takes it        *)
(* (std::min_element over a vector that is not empty).                      *)
(***************************************************************************)
LEMMA BestIsCandidate ==
  ASSUME NEW e, e.d \in Int, NEW target \in Int, NEW base \in {Slow, Cruise},
         NEW S \in SUBSET ResolveManeuver(e, target, base), S # {}
  PROVE  /\ SelectBest(S, e, target) \in S
         /\ \A y \in S : Cost(SelectBest(S, e, target), e, target) <= Cost(y, e, target)
<1>1. \A c \in S : /\ c.to \in Int /\ c.to + Tolerance >= target /\ c.time \in Nat
                   /\ c.step \in Int /\ c.step + base >= 1
                   /\ Cost(c, e, target) \in Nat
  BY CandidateType, CostIsNat
<1>2. base \in Int /\ Tolerance \in Nat
  BY CandidatesAssumption, AvoidanceAssumption
<1>3. PICK cost : cost = [c \in S |-> Cost(c, e, target)]
  OBVIOUS
<1>4. PICK time : time = [c \in S |-> c.time]
  OBVIOUS
<1>5. PICK to : to = [c \in S |-> c.to + Tolerance - target]
  OBVIOUS
<1>6. PICK step : step = [c \in S |-> c.step + base - 1]
  OBVIOUS
<1>7. /\ cost \in [S -> Nat] /\ time \in [S -> Nat]
      /\ to \in [S -> Nat] /\ step \in [S -> Nat]
  BY <1>1, <1>2, <1>3, <1>4, <1>5, <1>6
<1>8. PICK S1 : S1 = {c \in S : \A y \in S : cost[c] <= cost[y]}
  OBVIOUS
<1>9. S1 # {} /\ S1 \subseteq S
  BY <1>7, <1>8, LeastOf
<1>10. PICK S2 : S2 = {c \in S1 : \A y \in S1 : time[c] <= time[y]}
  OBVIOUS
<1>11. S2 # {} /\ S2 \subseteq S1
  <2>1. \E x \in S1 : \A y \in S1 : time[x] <= time[y]
    BY <1>7, <1>9, LeastOf
  <2>2. QED
    BY <2>1, <1>10
<1>12. PICK S3 : S3 = {c \in S2 : \A y \in S2 : to[c] <= to[y]}
  OBVIOUS
<1>13. S3 # {} /\ S3 \subseteq S2
  <2>1. S2 \in SUBSET S
    BY <1>9, <1>11
  <2>2. \E x \in S2 : \A y \in S2 : to[x] <= to[y]
    BY <1>7, <1>11, <2>1, LeastOf
  <2>3. QED
    BY <2>2, <1>12
<1>14. PICK c \in S3 : \A y \in S3 : step[c] <= step[y]
  <2>1. S3 \in SUBSET S
    BY <1>9, <1>11, <1>13
  <2>2. QED
    BY <1>7, <1>13, <2>1, LeastOf
<1>15. c \in S /\ c \in S1 /\ c \in S2
  BY <1>9, <1>11, <1>13
<1>16. \A y \in S : cost[c] < cost[y] \/ (cost[c] = cost[y] /\ Earlier(c, y))
  <2> SUFFICES ASSUME NEW y \in S, ~(cost[c] < cost[y])
               PROVE  cost[c] = cost[y] /\ Earlier(c, y)
    OBVIOUS
  <2>1. cost[c] = cost[y] /\ y \in S1
    BY <1>7, <1>8, <1>15
  <2>2. c.time \in Nat /\ y.time \in Nat /\ c.to \in Int /\ y.to \in Int
        /\ c.step \in Int /\ y.step \in Int
    BY <1>1, <1>15
  <2>3. c.time < y.time \/ (c.time = y.time /\ y \in S2)
    BY <2>1, <2>2, <1>4, <1>9, <1>10, <1>15
  <2>4. \/ c.time < y.time
        \/ c.time = y.time /\ c.to < y.to
        \/ c.time = y.time /\ c.to = y.to /\ y \in S3
    <3>1. CASE y \in S2
      <4>1. to[c] <= to[y]
        BY <3>1, <1>12
      <4>2. to[c] = c.to + Tolerance - target /\ to[y] = y.to + Tolerance - target
        BY <1>5, <1>15
      <4>3. c.to <= y.to
        BY <4>1, <4>2, <2>2, <1>2
      <4>4. c.to = y.to => to[c] = to[y]
        BY <4>2
      <4>5. to[c] = to[y] => y \in S3
        BY <3>1, <1>12
      <4>6. QED
        BY <2>2, <2>3, <4>3, <4>4, <4>5
    <3>2. QED
      BY <3>1, <2>3
  <2>5. y \in S3 => c.step <= y.step
    BY <2>2, <1>2, <1>6, <1>14, <1>15
  <2>6. QED
    BY <2>1, <2>4, <2>5 DEF Earlier
<1>17. SelectBest(S, e, target) = CHOOSE x \in S : \A y \in S :
         cost[x] < cost[y] \/ (cost[x] = cost[y] /\ Earlier(x, y))
  BY <1>3 DEF SelectBest
<1>18. PICK best : best = SelectBest(S, e, target)
  OBVIOUS
<1>19. /\ best \in S
       /\ \A y \in S : cost[best] < cost[y] \/ (cost[best] = cost[y] /\ Earlier(best, y))
  BY <1>15, <1>16, <1>17, <1>18
<1>20. \A y \in S : cost[y] = Cost(y, e, target) /\ Cost(y, e, target) \in Nat
  BY <1>1, <1>3
<1>21. \A y \in S : cost[best] <= cost[y]
  BY <1>19, <1>20
<1>22. \A y \in S : Cost(best, e, target) <= Cost(y, e, target)
  BY <1>19, <1>20, <1>21
<1>23. QED
  BY <1>18, <1>19, <1>22

------------------------------------------------------------------------------
(***************************************************************************)
(* The list of the bridge.                                                  *)
(***************************************************************************)
Lists == {{}} \cup {{p} : p \in Strangers}

\* kMaxSlots leaves room for all obstacles and the stranger.
AllListed == \A w \in Worlds : Len(w) < MaxSlots

IsList(objs) ==
  /\ \E n \in 0..MaxSlots : DOMAIN objs = 1..n
  /\ \A i \in DOMAIN objs : objs[i] \in Places

LEMMA ListedType ==
  ASSUME NEW w \in Worlds, NEW ahead \in Lists
  PROVE  IsList(Listed(ahead, w))
<1>1. PICK head : head = IF ahead = {} THEN <<>> ELSE <<CHOOSE p \in ahead : TRUE>>
  OBVIOUS
<1>2. head \in Seq(Places)
  BY <1>1, AvoidanceAssumption DEF Lists
<1>3. w \in Seq(Places) /\ MaxSlots \in Nat
  BY AvoidanceAssumption
<1>4. PICK all : all = head \o w
  OBVIOUS
<1>5. all \in Seq(Places)
  BY <1>2, <1>3, <1>4
<1>6. PICK n \in 0..MaxSlots :
        n <= Len(all) /\ n = IF Len(all) < MaxSlots THEN Len(all) ELSE MaxSlots
  BY <1>3, <1>5
<1>7. Listed(ahead, w) = SubSeq(all, 1, n)
  BY <1>1, <1>4, <1>6 DEF Listed
<1>8. /\ DOMAIN SubSeq(all, 1, n) = 1..n
      /\ \A i \in 1..n : SubSeq(all, 1, n)[i] = all[i]
  BY <1>5, <1>6
<1>9. \A i \in 1..n : all[i] \in Places
  BY <1>5, <1>6
<1>10. QED
  BY <1>7, <1>8, <1>9 DEF IsList

LEMMA ListedWorld ==
  ASSUME AllListed, NEW w \in Worlds, NEW ahead \in Lists, NEW i \in 1..Len(w)
  PROVE  \E j \in DOMAIN Listed(ahead, w) : Listed(ahead, w)[j] = w[i]
<1>1. PICK head : head = IF ahead = {} THEN <<>> ELSE <<CHOOSE p \in ahead : TRUE>>
  OBVIOUS
<1>2. head \in Seq(Places) /\ Len(head) \in {0, 1}
  BY <1>1, AvoidanceAssumption DEF Lists
<1>3. w \in Seq(Places) /\ MaxSlots \in Nat /\ Len(w) < MaxSlots
  BY AvoidanceAssumption DEF AllListed
<1>4. PICK all : all = head \o w
  OBVIOUS
<1>5. /\ all \in Seq(Places) /\ Len(all) = Len(head) + Len(w)
      /\ \A j \in 1..Len(all) : j > Len(head) => all[j] = w[j - Len(head)]
  BY <1>2, <1>3, <1>4
<1>6. PICK n \in Nat : n = Len(all)
  BY <1>5
<1>7. n <= MaxSlots /\ (n < MaxSlots \/ MaxSlots = n)
  <2>1. PICK k \in Nat : k = Len(w)
    BY <1>3
  <2>2. n = Len(head) + k
    BY <2>1, <1>5, <1>6
  <2>4. CASE Len(head) = 0
    BY <2>1, <2>2, <2>4, <1>3
  <2>5. CASE Len(head) = 1
    BY <2>1, <2>2, <2>5, <1>3
  <2>6. QED
    BY <2>4, <2>5, <1>2
<1>8. Listed(ahead, w) = SubSeq(all, 1, n)
  BY <1>1, <1>4, <1>6, <1>7 DEF Listed
<1>9. /\ DOMAIN SubSeq(all, 1, n) = 1..n
      /\ \A k \in 1..n : SubSeq(all, 1, n)[k] = all[k]
  BY <1>5, <1>6
<1>10. i + Len(head) \in 1..n /\ i + Len(head) > Len(head) /\ (i + Len(head)) - Len(head) = i
  BY <1>2, <1>3, <1>5, <1>6
<1>11. all[i + Len(head)] = w[i]
  BY <1>5, <1>6, <1>10
<1>12. QED
  BY <1>8, <1>9, <1>10, <1>11

------------------------------------------------------------------------------
(***************************************************************************)
(* What a call makes of the context.                                        *)
(***************************************************************************)
GoodContext(a) ==
  /\ a \in [phase : Phases, id : 0..MaxSlots, s : Int, d : Int, target : Int]
  /\ a.phase = "NONE" => a = NoContext

LEMMA NoContextIsGood == GoodContext(NoContext)
BY AvoidanceAssumption DEF GoodContext, NoContext, Phases

LEMMA RefreshedFacts ==
  ASSUME NEW a, GoodContext(a), NEW objs, IsList(objs)
  PROVE  /\ GoodContext(Refreshed(a, objs))
         /\ Refreshed(a, objs).phase = a.phase /\ Refreshed(a, objs).id = a.id
         /\ a.phase # "NONE" /\ a.id \in DOMAIN objs => Refreshed(a, objs).s = objs[a.id].s
<1>1. CASE Active(a) /\ a.id \in DOMAIN objs
  <2>1. objs[a.id].s \in Int /\ objs[a.id].d \in Int
    BY <1>1 DEF IsList, Places
  <2>2. Refreshed(a, objs) = [a EXCEPT !.s = objs[a.id].s, !.d = objs[a.id].d]
    BY <1>1 DEF Refreshed
  <2>3. QED
    BY <1>1, <2>1, <2>2 DEF GoodContext, Active
<1>2. CASE ~(Active(a) /\ a.id \in DOMAIN objs)
  BY <1>2 DEF Refreshed, Active
<1>3. QED
  BY <1>1, <1>2

LEMMA AdvancedFacts ==
  ASSUME NEW a, GoodContext(a), NEW e
  PROVE  /\ GoodContext(Advanced(a, e))
         /\ a.phase \in {"TRACKING", "NONE"} => Advanced(a, e) = a
         /\ a.phase # "TRACKING" => Advanced(a, e).phase # "TRACKING"
BY NoContextIsGood DEF GoodContext, Advanced, Maneuvering, NoContext, Phases

LEMMA NearestIsInLane ==
  ASSUME NEW objs, IsList(objs), NEW e, e.s \in Int, InLane(objs, e) # {}
  PROVE  NearestInLane(objs, e) \in InLane(objs, e)
<1>1. PICK L : L = InLane(objs, e)
  OBVIOUS
<1>2. \A i \in L : i \in Nat /\ objs[i].s \in Int /\ objs[i].s - e.s \in Nat
  BY <1>1 DEF InLane, Ahead, IsList, Places
<1>3. PICK f : f = [i \in L |-> objs[i].s - e.s]
  OBVIOUS
<1>4. f \in [L -> Nat] /\ L # {}
  BY <1>1, <1>2, <1>3
<1>5. PICK T : T = {i \in L : \A j \in L : f[i] <= f[j]}
  OBVIOUS
<1>6. T # {} /\ T \subseteq L
  <2>1. \E i \in L : \A j \in L : f[i] <= f[j]
    BY <1>4, LeastOf
  <2>2. QED
    BY <2>1, <1>5
<1>7. PICK i \in T : \A j \in T : i <= j
  <2>1. T \in SUBSET Nat
    BY <1>2, <1>6
  <2>2. QED
    BY <2>1, <1>6, LeastElement
<1>8. \A j \in L : objs[i].s < objs[j].s \/ (objs[i].s = objs[j].s /\ i <= j)
  <2> SUFFICES ASSUME NEW j \in L, ~(objs[i].s < objs[j].s)
               PROVE  objs[i].s = objs[j].s /\ i <= j
    OBVIOUS
  <2>1. f[i] <= f[j] /\ f[i] = objs[i].s - e.s /\ f[j] = objs[j].s - e.s
    BY <1>3, <1>5, <1>6, <1>7
  <2>2. objs[i].s = objs[j].s
    BY <2>1, <1>2, <1>6, <1>7
  <2>3. f[i] = f[j]
    BY <2>1, <2>2
  <2>4. j \in T
    BY <2>3, <1>5, <1>7
  <2>5. QED
    BY <2>2, <2>4, <1>7
<1>9. i \in L
  BY <1>6, <1>7
<1>10. NearestInLane(objs, e) =
         CHOOSE x \in L : \A j \in L :
           objs[x].s < objs[j].s \/ (objs[x].s = objs[j].s /\ x <= j)
  BY <1>1 DEF NearestInLane
<1>11. NearestInLane(objs, e) \in L
  BY <1>8, <1>9, <1>10
<1>12. QED
  BY <1>1, <1>11

LEMMA AcquiredFacts ==
  ASSUME NEW a, GoodContext(a), NEW objs, IsList(objs), NEW e, e.s \in Int
  PROVE  /\ GoodContext(Acquired(a, objs, e))
         /\ Active(a) => Acquired(a, objs, e) = a
<1>1. CASE Active(a) \/ InLane(objs, e) = {}
  BY <1>1 DEF Acquired, Active
<1>2. CASE ~Active(a) /\ InLane(objs, e) # {}
  <2>1. PICK i : i = NearestInLane(objs, e)
    OBVIOUS
  <2>2. i \in InLane(objs, e)
    BY <1>2, <2>1, NearestIsInLane
  <2>3. i \in DOMAIN objs /\ i \in 0..MaxSlots /\ objs[i].s \in Int /\ objs[i].d \in Int
    BY <2>2, AvoidanceAssumption DEF InLane, Ahead, IsList, Places
  <2>4. FirstOffset(objs, e) \in Int
    BY AvoidanceAssumption DEF FirstOffset
  <2>5. Acquired(a, objs, e) = [phase |-> "TRACKING", id |-> i, s |-> objs[i].s,
                               d |-> objs[i].d, target |-> FirstOffset(objs, e)]
    BY <1>2, <2>1 DEF Acquired
  <2>6. QED
    BY <1>2, <2>2, <2>3, <2>4, <2>5 DEF GoodContext, Phases
<1>3. QED
  BY <1>1, <1>2

------------------------------------------------------------------------------
(***************************************************************************)
(* What a call finds.                                                       *)
(***************************************************************************)
GoodCandidates(cands, e, places) ==
  /\ cands.target \in Int
  /\ \E base \in {Slow, Cruise} :
       cands.valid \subseteq {c \in ResolveManeuver(e, cands.target, base) : Clear(c, e, places)}

LEMMA AvoidCandidatesFacts ==
  ASSUME NEW e, NEW target \in Int, NEW places
  PROVE  /\ GoodCandidates(AvoidCandidates(e, target, places), e, places)
         /\ AvoidCandidates(e, target, places).target = target
<1>1. PICK first : first = FilterByCollision(ResolveManeuver(e, target, Cruise), e, places)
  OBVIOUS
<1>2. PICK speed : speed = IF first = {} THEN Cruise
                           ELSE SpeedLimit(SelectBest(first, e, target), e)
  OBVIOUS
<1>3. speed \in {Slow, Cruise}
  BY <1>2 DEF SpeedLimit
<1>4. PICK clear : clear = FilterByCollision(ResolveManeuver(e, target, speed), e, places)
  OBVIOUS
<1>5. AvoidCandidates(e, target, places) =
        [valid |-> {c \in clear : c.speed <= SpeedLimit(c, e)},
         blocked |-> clear # ResolveManeuver(e, target, speed), target |-> target]
  BY <1>1, <1>2, <1>4 DEF AvoidCandidates
<1>6. QED
  BY <1>3, <1>4, <1>5 DEF GoodCandidates, FilterByCollision

LEMMA LaneCandidatesFacts ==
  ASSUME NEW e, NEW places
  PROVE  GoodCandidates(LaneCandidates(e, places), e, places)
BY DEF LaneCandidates, GoodCandidates, FilterByCollision

LEMMA BeginFacts ==
  ASSUME NEW a, GoodContext(a), a.phase = "TRACKING", NEW e, NEW places
  PROVE  /\ GoodContext(Begin(a, e, places).context)
         /\ GoodCandidates(Begin(a, e, places).cands, e, places)
         /\ \/ Begin(a, e, places).context = a
            \/ /\ Begin(a, e, places).context.phase = "SHIFT"
               /\ Begin(a, e, places).cands.valid # {}
<1>1. LeftOf(a) \in Int /\ RightOf(a) \in Int
  BY CandidatesAssumption, AvoidanceAssumption DEF GoodContext, LeftOf, RightOf
<1>2. PICK left : left = AvoidCandidates(e, LeftOf(a), places)
  OBVIOUS
<1>3. PICK right : right = AvoidCandidates(e, RightOf(a), places)
  OBVIOUS
<1>4. /\ GoodCandidates(left, e, places) /\ left.target \in Int
      /\ GoodCandidates(right, e, places) /\ right.target \in Int
  BY <1>1, <1>2, <1>3, AvoidCandidatesFacts
<1>5. PICK r : r = Begin(a, e, places)
  OBVIOUS
<1>6. CASE ChooseRight(left, right, e)
  <2>1. r = [context |-> [a EXCEPT !.phase = "SHIFT", !.target = right.target], cands |-> right]
    BY <1>2, <1>3, <1>5, <1>6 DEF Begin
  <2>2. right.valid # {}
    BY <1>6 DEF ChooseRight
  <2>3. r.cands = right /\ r.context = [a EXCEPT !.phase = "SHIFT", !.target = right.target]
    BY <2>1
  <2>4. /\ GoodContext([a EXCEPT !.phase = "SHIFT", !.target = right.target])
        /\ [a EXCEPT !.phase = "SHIFT", !.target = right.target].phase = "SHIFT"
    BY <1>4 DEF GoodContext, Phases
  <2>5. QED
    BY <1>4, <1>5, <2>2, <2>3, <2>4
<1>7. CASE ~ChooseRight(left, right, e) /\ left.valid # {}
  <2>1. r = [context |-> [a EXCEPT !.phase = "SHIFT", !.target = left.target], cands |-> left]
    BY <1>2, <1>3, <1>5, <1>7 DEF Begin
  <2>3. r.cands = left /\ r.context = [a EXCEPT !.phase = "SHIFT", !.target = left.target]
    BY <2>1
  <2>4. /\ GoodContext([a EXCEPT !.phase = "SHIFT", !.target = left.target])
        /\ [a EXCEPT !.phase = "SHIFT", !.target = left.target].phase = "SHIFT"
    BY <1>4 DEF GoodContext, Phases
  <2>5. QED
    BY <1>4, <1>5, <1>7, <2>3, <2>4
<1>8. CASE ~ChooseRight(left, right, e) /\ left.valid = {}
  <2>1. r = [context |-> a, cands |-> [left EXCEPT !.blocked = left.blocked \/ right.blocked]]
    BY <1>2, <1>3, <1>5, <1>8 DEF Begin
  <2>2. [left EXCEPT !.blocked = left.blocked \/ right.blocked].target = left.target
        /\ [left EXCEPT !.blocked = left.blocked \/ right.blocked].valid = left.valid
    <3>1. \E v, b, t : left = [valid |-> v, blocked |-> b, target |-> t]
      BY <1>2 DEF AvoidCandidates
    <3>2. QED
      BY <3>1
  <2>3. GoodCandidates(r.cands, e, places) /\ r.context = a
    BY <1>4, <2>1, <2>2 DEF GoodCandidates
  <2>4. QED
    BY <1>5, <2>3
<1>9. QED
  BY <1>6, <1>7, <1>8

\* The filter looks at the next two positions, whatever the speed.
LEMMA NextTwoAreExamined ==
  ASSUME NEW e, e.d \in Int, NEW target \in Int, NEW base \in {Slow, Cruise},
         NEW c \in ResolveManeuver(e, target, base), NEW places, Clear(c, e, places),
         NEW p \in places, NEW x \in 1..2
  PROVE  ~Overlaps(e.s + x, Lateral(c, e, x), p)
<1>1. PICK v \in Nat \ {0}, t \in Nat : v = c.speed /\ t = c.time
  BY CandidateType
<1>2. PICK far \in Nat : far = Larger(t, Lookahead) /\ far >= 2
  BY CandidatesAssumption, EarlyEnough DEF Larger
<1>3. v * far = (v - 1) * far + far /\ (v - 1) * far \in Nat
  OBVIOUS
<1>4. x \in 0..v * far
  BY <1>2, <1>3
<1>5. QED
  BY <1>1, <1>2, <1>4 DEF Clear, Examined

(***************************************************************************)
(* What a call may drive into: nothing that is listed, but the obstacle it  *)
(* tracks.  One tracked before is far away.  One it has just acquired may   *)
(* be near.                                                                 *)
(***************************************************************************)
MayBeLeftOut(objs, e, j) ==
  avoidance.phase = "TRACKING" => objs[j].s - e.s > ShiftStart

LEMMA ResolveFacts ==
  ASSUME GoodContext(avoidance), NEW objs, IsList(objs), NEW e, e.s \in Int, e.d \in Int
  PROVE  /\ GoodContext(Resolve(objs, e).context)
         /\ Resolve(objs, e).cands.target \in Int
         /\ \E base \in {Slow, Cruise} : Resolve(objs, e).cands.valid \subseteq
              ResolveManeuver(e, Resolve(objs, e).cands.target, base)
         /\ avoidance.phase = "TRACKING" =>
              \/ Resolve(objs, e).context.phase = "TRACKING"
              \/ Resolve(objs, e).cands.valid # {}
         /\ \A c \in Resolve(objs, e).cands.valid, j \in DOMAIN objs, x \in 1..2 :
              \/ ~Overlaps(e.s + x, Lateral(c, e, x), objs[j])
              \/ Resolve(objs, e).context.phase = "TRACKING" /\ MayBeLeftOut(objs, e, j)
<1>1. PICK seen : seen = Refreshed(avoidance, objs)
  OBVIOUS
<1>2. /\ GoodContext(seen) /\ seen.phase = avoidance.phase
      /\ seen.phase # "NONE" /\ seen.id \in DOMAIN objs => seen.s = objs[seen.id].s
  BY <1>1, RefreshedFacts
<1>3. PICK begins \in BOOLEAN : begins = Begins(seen, e)
  BY DEF Begins
<1>4. begins => seen.phase = "TRACKING"
  BY <1>3 DEF Begins
<1>5. PICK b : b = IF begins THEN seen ELSE Advanced(seen, e)
  OBVIOUS
<1>6. /\ GoodContext(b)
      /\ seen.phase \in {"TRACKING", "NONE"} => b = seen
      /\ seen.phase # "TRACKING" => b.phase # "TRACKING"
  BY <1>2, <1>4, <1>5, AdvancedFacts
<1>7. PICK a : a = Acquired(b, objs, e)
  OBVIOUS
<1>8. /\ GoodContext(a)
      /\ b.phase # "NONE" => a = b
  BY <1>6, <1>7, AcquiredFacts DEF Active
<1>9. PICK places : places = PlanningObstacles(a, begins, objs)
  OBVIOUS
<1>10. \A j \in DOMAIN objs :
         objs[j] \in places \/ (a.phase = "TRACKING" /\ ~begins /\ j = a.id)
  BY <1>9 DEF PlanningObstacles
<1>11. PICK r : r = Resolve(objs, e)
  OBVIOUS
<1>12. /\ GoodContext(r.context)
       /\ GoodCandidates(r.cands, e, places)
       /\ ~begins => r.context = a
       /\ begins => \/ r.context = a
                   \/ (r.context.phase = "SHIFT" /\ r.cands.valid # {})
  <2>1. CASE begins
    <3>1. a = seen /\ seen.phase = "TRACKING"
      BY <2>1, <1>4, <1>5, <1>8
    <3>2. r = Begin(a, e, places)
      BY <2>1, <1>1, <1>3, <1>5, <1>7, <1>9, <1>11 DEF Resolve
    <3>3. QED
      BY <2>1, <3>1, <3>2, <1>8, BeginFacts
  <2>2. CASE ~begins
    <3>1. r = [context |-> a,
               cands |-> IF Maneuvering(a) THEN AvoidCandidates(e, a.target, places)
                         ELSE LaneCandidates(e, places)]
      BY <2>2, <1>1, <1>3, <1>5, <1>7, <1>9, <1>11 DEF Resolve
    <3>2. a.target \in Int
      BY <1>8 DEF GoodContext
    <3>3. GoodCandidates(r.cands, e, places)
      BY <3>1, <3>2, AvoidCandidatesFacts, LaneCandidatesFacts
    <3>4. QED
      BY <2>2, <3>1, <3>3, <1>8
  <2>3. QED
    BY <2>1, <2>2
<1>14. PICK base \in {Slow, Cruise} :
         \A c \in r.cands.valid : /\ c \in ResolveManeuver(e, r.cands.target, base)
                                 /\ Clear(c, e, places)
  BY <1>12 DEF GoodCandidates
<1>15. r.cands.target \in Int
  BY <1>12 DEF GoodCandidates
<1>16. avoidance.phase = "TRACKING" => r.context.phase = "TRACKING" \/ r.cands.valid # {}
  BY <1>2, <1>6, <1>8, <1>12
<1>17. ASSUME NEW c \in r.cands.valid, NEW j \in DOMAIN objs, NEW x \in 1..2
       PROVE  \/ ~Overlaps(e.s + x, Lateral(c, e, x), objs[j])
              \/ r.context.phase = "TRACKING" /\ MayBeLeftOut(objs, e, j)
  <2>1. CASE objs[j] \in places
    BY <2>1, <1>14, <1>15, <1>17, NextTwoAreExamined
  <2>2. CASE a.phase = "TRACKING" /\ ~begins /\ j = a.id
    <3>1. r.context.phase = "TRACKING"
      BY <2>2, <1>12
    <3>2. CASE avoidance.phase = "TRACKING"
      <4>1. a = seen
        BY <3>2, <1>2, <1>6, <1>8
      <4>2. seen.s = objs[j].s
        BY <2>2, <3>2, <4>1, <1>2, <1>17
      <4>3. ~(objs[j].s - e.s <= ShiftStart)
        BY <2>2, <3>2, <4>2, <1>2, <1>3 DEF Begins
      <4>4. objs[j].s \in Int /\ ShiftStart \in Int
        BY <1>17, AvoidanceAssumption DEF IsList, Places
      <4>5. objs[j].s - e.s > ShiftStart
        BY <4>3, <4>4
      <4>6. QED
        BY <3>1, <3>2, <4>5 DEF MayBeLeftOut
    <3>3. CASE avoidance.phase # "TRACKING"
      BY <3>1, <3>3 DEF MayBeLeftOut
    <3>4. QED
      BY <3>2, <3>3
  <2>3. QED
    BY <2>1, <2>2, <1>10, <1>17
<1>18. QED
  BY <1>11, <1>12, <1>14, <1>15, <1>16, <1>17

------------------------------------------------------------------------------
(***************************************************************************)
(* Types.  A path that drives is no older than the grace of main.cpp:       *)
(* failures in a row, and then a stop path.                                 *)
(***************************************************************************)
DrivingPaths ==
  [kind : {"plan", "crawl"}, s : Int, d : Int, to : Int, span : Nat \ {0},
   held : 0..CallsPerPosition]

AvoidTypes ==
  /\ world \in Worlds
  /\ stranger \in Lists
  /\ ego \in [s : 0..Length, d : Int, slow : BOOLEAN]
  /\ GoodContext(avoidance)
  /\ path \in {NoPath, StopPath} \cup DrivingPaths
  /\ plan_fail_streak \in 0..MaxTransientFailCycles + 1
  /\ Drives(path) => plan_fail_streak <= MaxTransientFailCycles
  /\ moved \in BOOLEAN /\ calm \in BOOLEAN

LEMMA DrivesIsDriving ==
  ASSUME path \in {NoPath, StopPath} \cup DrivingPaths
  PROVE  Drives(path) <=> path \in DrivingPaths
BY DEF Drives, NoPath, StopPath, DrivingPaths

LEMMA EgoIsPosition ==
  ASSUME AvoidTypes
  PROVE  ego.s \in Int /\ ego.d \in Int
BY AvoidanceAssumption DEF AvoidTypes

\* What is sent drives, from one call on.
LEMMA SentFacts ==
  ASSUME AvoidTypes, NEW p \in DrivingPaths, Sent(p)
  PROVE  /\ path' \in DrivingPaths
         /\ path' = [p EXCEPT !.held = Held(p)]
         /\ path'.kind = p.kind /\ path'.s = p.s /\ path'.d = p.d
         /\ path'.to = p.to /\ path'.span = p.span
         /\ path'.held = Held(p)
         /\ \/ path'.held = 1
            \/ /\ path.kind = p.kind /\ NextD(path) = NextD(p)
               /\ path'.held <= path.held + 1
<1>1. Held(p) \in 0..CallsPerPosition
  <2>1. CASE Drives(path) /\ path.kind = p.kind /\ NextD(path) = NextD(p)
    <3>1. path \in DrivingPaths
      BY <2>1, DrivesIsDriving DEF AvoidTypes
    <3>2. path.held \in 0..CallsPerPosition
      BY <3>1 DEF DrivingPaths
    <3>3. QED
      BY <2>1, <3>2, AvoidanceAssumption DEF Held
  <2>2. CASE ~(Drives(path) /\ path.kind = p.kind /\ NextD(path) = NextD(p))
    BY <2>2, AvoidanceAssumption, ShortResend DEF Held
  <2>3. QED
    BY <2>1, <2>2
<1>2. path' = [p EXCEPT !.held = Held(p)]
  BY DEF Sent
<1>3. /\ path' \in DrivingPaths /\ path'.held = Held(p)
      /\ path'.kind = p.kind /\ path'.s = p.s /\ path'.d = p.d
      /\ path'.to = p.to /\ path'.span = p.span
  BY <1>1, <1>2 DEF DrivingPaths
<1>4. CASE Drives(path) /\ path.kind = p.kind /\ NextD(path) = NextD(p)
  <2>1. path \in DrivingPaths
    BY <1>4, DrivesIsDriving DEF AvoidTypes
  <2>2. path.held \in 0..CallsPerPosition
    BY <2>1 DEF DrivingPaths
  <2>3. Held(p) <= path.held + 1
    BY <1>4, <2>2, AvoidanceAssumption DEF Held
  <2>4. QED
    BY <1>2, <1>3, <1>4, <2>2, <2>3
<1>5. CASE ~(Drives(path) /\ path.kind = p.kind /\ NextD(path) = NextD(p))
  <2>1. Held(p) = 1
    BY <1>5 DEF Held
  <2>2. QED
    BY <1>2, <1>3, <2>1
<1>6. QED
  BY <1>4, <1>5

LEMMA DriveKeepsTypes ==
  ASSUME AvoidTypes, NEW kind \in {"plan", "crawl"}, NEW to \in Int, NEW span \in Nat \ {0},
         Drive(kind, ego, to, span)
  PROVE  /\ path' \in DrivingPaths
         /\ plan_fail_streak' = 0
<1>1. [kind |-> kind, s |-> ego.s, d |-> ego.d, to |-> to, span |-> span, held |-> 0]
        \in DrivingPaths
  BY EgoIsPosition, AvoidanceAssumption DEF DrivingPaths
<1>2. QED
  BY <1>1, SentFacts DEF Drive

LEMMA FailFacts ==
  ASSUME AvoidTypes, Fail
  PROVE  /\ plan_fail_streak' \in 0..MaxTransientFailCycles + 1
         /\ plan_fail_streak < MaxTransientFailCycles =>
              /\ plan_fail_streak' = plan_fail_streak + 1
              /\ plan_fail_streak' <= MaxTransientFailCycles
BY AvoidanceAssumption DEF AvoidTypes, Fail

\* A failed call stops the vehicle, or sends its path once more.
LEMMA ResendFacts ==
  ASSUME AvoidTypes, Resend
  PROVE  \/ path' \in {NoPath, StopPath}
         \/ /\ Drives(path) /\ path \in DrivingPaths /\ Sent(path)
            /\ plan_fail_streak' = plan_fail_streak + 1
            /\ plan_fail_streak' <= MaxTransientFailCycles
<1>1. Fail
  BY DEF Resend
<1>2. CASE path = NoPath \/ plan_fail_streak >= MaxTransientFailCycles
  BY <1>2 DEF Resend
<1>3. CASE ~(path = NoPath \/ plan_fail_streak >= MaxTransientFailCycles)
  <2>1. plan_fail_streak < MaxTransientFailCycles
    BY <1>3, AvoidanceAssumption DEF AvoidTypes
  <2>2. /\ plan_fail_streak' = plan_fail_streak + 1
        /\ plan_fail_streak' <= MaxTransientFailCycles
    BY <1>1, <2>1, FailFacts
  <2>3. CASE Drives(path)
    <3>1. path \in DrivingPaths
      BY <2>3, DrivesIsDriving DEF AvoidTypes
    <3>2. Sent(path)
      BY <1>3, <2>3 DEF Resend
    <3>3. QED
      BY <2>2, <2>3, <3>1, <3>2
  <2>4. CASE ~Drives(path)
    BY <1>3, <2>4, DrivesIsDriving DEF Resend, AvoidTypes
  <2>5. QED
    BY <2>3, <2>4
<1>4. QED
  BY <1>2, <1>3

LEMMA NotDriving ==
  ASSUME path' \in {NoPath, StopPath}
  PROVE  ~Drives(path')
BY DEF Drives, NoPath, StopPath

LEMMA ResendKeepsTypes ==
  ASSUME AvoidTypes, Resend
  PROVE  /\ path' \in {NoPath, StopPath} \cup DrivingPaths
         /\ plan_fail_streak' \in 0..MaxTransientFailCycles + 1
         /\ Drives(path') => plan_fail_streak' <= MaxTransientFailCycles
<1>1. plan_fail_streak' \in 0..MaxTransientFailCycles + 1
  BY FailFacts DEF Resend
<1>2. CASE path' \in {NoPath, StopPath}
  BY <1>1, <1>2, NotDriving
<1>3. CASE path \in DrivingPaths /\ Sent(path) /\ plan_fail_streak' <= MaxTransientFailCycles
  BY <1>1, <1>3, SentFacts
<1>4. QED
  BY <1>2, <1>3, ResendFacts

\* What SelectBest takes from what a call found.
LEMMA ChosenFacts ==
  ASSUME AvoidTypes, NEW objs, IsList(objs), Resolve(objs, ego).cands.valid # {}
  PROVE  LET r == Resolve(objs, ego)
             c == SelectBest(r.cands.valid, ego, r.cands.target)
         IN  /\ c \in r.cands.valid
             /\ c.to \in Int
             /\ Span(c) \in Nat \ {0}
<1>1. ego.s \in Int /\ ego.d \in Int /\ GoodContext(avoidance)
  BY EgoIsPosition DEF AvoidTypes
<1>2. PICK r : r = Resolve(objs, ego)
  OBVIOUS
<1>3. /\ r.cands.target \in Int
      /\ \E base \in {Slow, Cruise} :
           r.cands.valid \subseteq ResolveManeuver(ego, r.cands.target, base)
  BY <1>1, <1>2, ResolveFacts
<1>4. PICK base \in {Slow, Cruise} :
        r.cands.valid \subseteq ResolveManeuver(ego, r.cands.target, base)
  BY <1>3
<1>5. PICK c : c = SelectBest(r.cands.valid, ego, r.cands.target)
  OBVIOUS
<1>6. c \in r.cands.valid
  BY <1>1, <1>2, <1>3, <1>4, <1>5, BestIsCandidate
<1>7. c.to \in Int /\ c.time \in Nat \ {0} /\ c.speed \in Nat \ {0}
  BY <1>1, <1>3, <1>4, <1>6, CandidateType
<1>8. Span(c) \in Nat \ {0}
  BY <1>7, SpanIsPositive
<1>9. QED
  BY <1>2, <1>5, <1>6, <1>7, <1>8

LEMMA PlanPathKeepsTypes ==
  ASSUME AvoidTypes, NEW objs, IsList(objs), PlanPath(objs, ego)
  PROVE  /\ GoodContext(avoidance')
         /\ path' \in {NoPath, StopPath} \cup DrivingPaths
         /\ plan_fail_streak' \in 0..MaxTransientFailCycles + 1
         /\ Drives(path') => plan_fail_streak' <= MaxTransientFailCycles
<1>1. PICK r : r = Resolve(objs, ego)
  OBVIOUS
<1>2. GoodContext(avoidance')
  BY <1>1, EgoIsPosition, ResolveFacts DEF PlanPath, AvoidTypes
<1>3. CASE r.cands.valid # {}
  <2>1. PICK c : c = SelectBest(r.cands.valid, ego, r.cands.target)
    OBVIOUS
  <2>2. c.to \in Int /\ Span(c) \in Nat \ {0}
    BY <1>1, <1>3, <2>1, ChosenFacts
  <2>3. Drive("plan", ego, c.to, Span(c))
    BY <1>1, <1>3, <2>1 DEF PlanPath
  <2>4. path' \in DrivingPaths /\ plan_fail_streak' = 0
    BY <2>2, <2>3, DriveKeepsTypes
  <2>5. QED
    BY <1>2, <2>4, AvoidanceAssumption
<1>4. CASE Stop
  BY <1>2, <1>4, FailFacts, NotDriving DEF Stop
<1>5. CASE Resend
  BY <1>2, <1>5, ResendKeepsTypes
<1>6. QED
  BY <1>1, <1>3, <1>4, <1>5 DEF PlanPath

LEMMA GenerationFailsFacts ==
  ASSUME AvoidTypes, NEW objs, IsList(objs), GenerationFails(objs, ego)
  PROVE  /\ Resend
         /\ GoodContext(avoidance')
         /\ avoidance.phase = "TRACKING" => avoidance'.phase = "TRACKING"
<1>1. PICK seen : seen = Refreshed(avoidance, objs)
  OBVIOUS
<1>2. GoodContext(seen) /\ seen.phase = avoidance.phase
  BY <1>1, RefreshedFacts DEF AvoidTypes
<1>3. PICK a : a = Acquired(Advanced(seen, ego), objs, ego)
  OBVIOUS
<1>4. /\ GoodContext(a)
      /\ seen.phase = "TRACKING" => a = seen
  BY <1>2, <1>3, AdvancedFacts, AcquiredFacts, EgoIsPosition DEF Active
<1>5. avoidance' = IF Begins(seen, ego) THEN seen ELSE a
  BY <1>1, <1>3 DEF GenerationFails
<1>6. Begins(seen, ego) => seen.phase = "TRACKING"
  BY DEF Begins
<1>7. Resend
  BY DEF GenerationFails
<1>8. QED
  BY <1>2, <1>4, <1>5, <1>6, <1>7

\* Where Plan() is called, and with which list.
LEMMA CycleFacts ==
  ASSUME AvoidTypes, Cycle
  PROVE  /\ stranger' \in Lists /\ IsList(Listed(stranger', world))
         /\ UNCHANGED <<world, ego>>
         /\ moved' \in BOOLEAN /\ calm' \in BOOLEAN
         /\ \/ LowSpeedFallback(ego)
            \/ PlanPath(Listed(stranger', world), ego)
            \/ GenerationFails(Listed(stranger', world), ego)
<1>1. stranger' \in Lists
  BY DEF Cycle, Lists
<1>2. IsList(Listed(stranger', world))
  BY <1>1, ListedType DEF AvoidTypes
<1>3. calm' = (calm /\ stranger' = stranger) \/ calm' = FALSE
  BY DEF Cycle
<1>4. calm' \in BOOLEAN
  BY <1>3
<1>5. QED
  BY <1>1, <1>2, <1>4 DEF Cycle

LEMMA NextDIsInt ==
  ASSUME AvoidTypes, NEW p \in DrivingPaths
  PROVE  NextD(p) \in Int
<1>1. p.to - p.d \in Int /\ ego.s + 1 - p.s \in Int /\ p.span \in Nat \ {0} /\ p.d \in Int
  BY EgoIsPosition DEF DrivingPaths
<1>2. Part(p.to - p.d, ego.s + 1 - p.s, p.span) \in Int
  BY <1>1, PartIsInt
<1>3. QED
  BY <1>1, <1>2 DEF NextD

LEMMA AdvanceFacts ==
  ASSUME AvoidTypes, Advance
  PROVE  /\ path \in DrivingPaths /\ path.held = CallsPerPosition
         /\ ego.s < Length
         /\ ego' = [s |-> ego.s + 1, d |-> NextD(path), slow |-> FALSE]
         /\ path' = [path EXCEPT !.held = 0] /\ path' \in DrivingPaths
         /\ UNCHANGED <<world, stranger, avoidance, plan_fail_streak, calm>>
<1>1. path \in DrivingPaths
  BY DrivesIsDriving DEF AvoidTypes, Advance, Driving
<1>2. [path EXCEPT !.held = 0] \in DrivingPaths
  <2>1. 0 \in 0..CallsPerPosition
    BY AvoidanceAssumption
  <2>2. QED
    BY <1>1, <2>1 DEF DrivingPaths
<1>3. QED
  BY <1>1, <1>2 DEF Advance, Driving

LEMMA AvoidTypesStart == AvoidInit => AvoidTypes
<1> SUFFICES ASSUME AvoidInit PROVE AvoidTypes
  OBVIOUS
<1>1. ~Drives(path)
  BY DEF AvoidInit, NoPath, Drives
<1>2. ego \in [s : 0..Length, d : Int, slow : BOOLEAN]
  BY AvoidanceAssumption DEF AvoidInit
<1>3. GoodContext(avoidance) /\ path \in {NoPath, StopPath} \cup DrivingPaths
  BY NoContextIsGood DEF AvoidInit
<1>4. plan_fail_streak \in 0..MaxTransientFailCycles + 1
  BY AvoidanceAssumption DEF AvoidInit
<1>5. world \in Worlds /\ stranger \in Lists /\ moved \in BOOLEAN /\ calm \in BOOLEAN
  BY DEF AvoidInit, Lists
<1>6. QED
  BY <1>1, <1>2, <1>3, <1>4, <1>5 DEF AvoidTypes

LEMMA AvoidTypesStep == AvoidTypes /\ [AvoidNext]_avoidVars => AvoidTypes'
<1> SUFFICES ASSUME AvoidTypes, [AvoidNext]_avoidVars PROVE AvoidTypes'
  OBVIOUS
<1>1. CASE Advance
  <2>1. ego' \in [s : 0..Length, d : Int, slow : BOOLEAN]
    <3>1. ego.s \in 0..Length /\ ego.s < Length /\ NextD(path) \in Int
      BY <1>1, AdvanceFacts, NextDIsInt DEF AvoidTypes
    <3>2. ego.s + 1 \in 0..Length
      BY <3>1, AvoidanceAssumption
    <3>3. ego' = [s |-> ego.s + 1, d |-> NextD(path), slow |-> FALSE]
      BY <1>1, AdvanceFacts
    <3>4. NextD(path) \in Int
      BY <1>1, AdvanceFacts, NextDIsInt
    <3>5. QED
      BY <3>2, <3>3, <3>4
  <2>2. path \in DrivingPaths /\ path' \in DrivingPaths
    BY <1>1, AdvanceFacts
  <2>3. plan_fail_streak' <= MaxTransientFailCycles
    BY <1>1, <2>2, DrivesIsDriving, AdvanceFacts DEF AvoidTypes
  <2>4. UNCHANGED <<world, stranger, avoidance, plan_fail_streak, calm>> /\ moved' = TRUE
    BY <1>1, AdvanceFacts DEF Advance
  <2>5. QED
    BY <2>1, <2>2, <2>3, <2>4 DEF AvoidTypes, GoodContext
<1>2. CASE Stay
  <2>1. ego' \in [s : 0..Length, d : Int, slow : BOOLEAN]
    BY <1>2 DEF Stay, AvoidTypes
  <2>2. UNCHANGED <<world, stranger, avoidance, path, plan_fail_streak, calm>> /\ moved' = TRUE
    BY <1>2 DEF Stay
  <2>3. QED
    BY <2>1, <2>2 DEF AvoidTypes, GoodContext, Drives
<1>3. CASE Cycle
  <2>1. /\ stranger' \in Lists /\ IsList(Listed(stranger', world))
        /\ world' = world /\ ego' = ego
        /\ moved' \in BOOLEAN /\ calm' \in BOOLEAN
    BY <1>3, CycleFacts
  <2>2. /\ GoodContext(avoidance')
        /\ path' \in {NoPath, StopPath} \cup DrivingPaths
        /\ plan_fail_streak' \in 0..MaxTransientFailCycles + 1
        /\ Drives(path') => plan_fail_streak' <= MaxTransientFailCycles
    <3>1. CASE LowSpeedFallback(ego)
      <4>1. \E to \in Int : Drive("crawl", ego, to, Recenter) /\ avoidance' = avoidance
        BY <3>1 DEF LowSpeedFallback, AvoidTypes, GoodContext
      <4>2. path' \in DrivingPaths /\ plan_fail_streak' = 0
        BY <4>1, DriveKeepsTypes, AvoidanceAssumption
      <4>3. QED
        BY <4>1, <4>2, AvoidanceAssumption DEF AvoidTypes
    <3>2. CASE PlanPath(Listed(stranger', world), ego)
      BY <3>2, <2>1, PlanPathKeepsTypes
    <3>3. CASE GenerationFails(Listed(stranger', world), ego)
      BY <3>3, <2>1, GenerationFailsFacts, ResendKeepsTypes
    <3>4. QED
      BY <3>1, <3>2, <3>3, <1>3, CycleFacts
  <2>3. QED
    BY <2>1, <2>2 DEF AvoidTypes, GoodContext
<1>4. CASE UNCHANGED avoidVars
  BY <1>4 DEF avoidVars, AvoidTypes, GoodContext, Drives
<1>5. QED
  BY <1>1, <1>2, <1>3, <1>4 DEF AvoidNext

(***************************************************************************)
(* Context, path, failure streak and vehicle have their types, whatever is  *)
(* listed and whichever calls fail; an inactive context is a blank one.     *)
(***************************************************************************)
THEOREM AvoidTypeCorrect == AvoidSpec => []AvoidTypeOK
<1>1. AvoidTypes => AvoidTypeOK
  <2> SUFFICES ASSUME AvoidTypes PROVE AvoidTypeOK
    OBVIOUS
  <2>1. \A p \in stranger : p \in Strangers
    BY DEF AvoidTypes, Lists
  <2>2. path.kind \in {"none", "stop", "plan", "crawl"}
    BY DEF AvoidTypes, DrivingPaths, NoPath, StopPath
  <2>3. QED
    BY <2>1, <2>2 DEF AvoidTypes, AvoidTypeOK, GoodContext
<1>2. QED
  BY AvoidTypesStart, AvoidTypesStep, <1>1, PTL DEF AvoidSpec

------------------------------------------------------------------------------
(***************************************************************************)
(* Why nothing is touched above crawling speed.                             *)
(*                                                                         *)
(* While nothing is tracked, the path that was planned is clear of all       *)
(* obstacles for two positions.  While something is, it was either tracked  *)
(* before, and then out of reach, or just acquired, perhaps right in front  *)
(* of the vehicle; the path from before is clear of it then, and a new one  *)
(* that leads elsewhere is a single call's.  The failed calls that follow   *)
(* send it again, fewer times than the vehicle needs for a position.        *)
(***************************************************************************)
Free(s, d) == \A i \in 1..Len(world) : ~Overlaps(s, d, world[i])

\* Where p leads to across the road, x positions from its start.
Across(p, x) == p.d + Part(p.to - p.d, x, p.span)

PathIsRecent ==
  path.kind = "plan" =>
    path.s = ego.s \/ (path.s = ego.s - 1 /\ path.held <= plan_fail_streak)

KeptPathIsClear ==
  path.kind = "plan" /\ avoidance.phase # "TRACKING" =>
    \A x \in 1..2 : Free(path.s + x, Across(path, x))

TrackedIsSeen ==
  path.kind = "plan" /\ avoidance.phase = "TRACKING" =>
    Free(ego.s + 1, NextD(path)) \/ path.held <= plan_fail_streak + 1

PathsAreClear == AvoidTypes /\ PathIsRecent /\ KeptPathIsClear /\ TrackedIsSeen

\* A path that is not planned, or not driven, leaves nothing to show.
LEMMA NotPlanned ==
  ASSUME AvoidTypes', path'.kind # "plan"
  PROVE  PathsAreClear'
BY DEF PathsAreClear, PathIsRecent, KeptPathIsClear, TrackedIsSeen

LEMMA PlanDrives ==
  ASSUME AvoidTypes, path.kind = "plan"
  PROVE  /\ path \in DrivingPaths /\ Drives(path)
         /\ path.s \in Int /\ path.held \in 0..CallsPerPosition
         /\ plan_fail_streak \in 0..MaxTransientFailCycles
<1>1. Drives(path)
  BY DEF Drives
<1>2. path \in DrivingPaths
  BY <1>1, DrivesIsDriving DEF AvoidTypes
<1>3. plan_fail_streak \in 0..MaxTransientFailCycles
  BY <1>1, AvoidanceAssumption DEF AvoidTypes
<1>4. QED
  BY <1>1, <1>2, <1>3 DEF DrivingPaths

\* An untracked obstacle is not in the way of the next position.
LEMMA NextIsFree ==
  ASSUME PathsAreClear, path.kind = "plan", avoidance.phase # "TRACKING"
  PROVE  Free(ego.s + 1, NextD(path))
<1>1. path.s \in Int /\ ego.s \in Int
  BY PlanDrives, EgoIsPosition DEF PathsAreClear
<1>2. \A x \in 1..2 : Free(path.s + x, Across(path, x))
  BY DEF PathsAreClear, KeptPathIsClear
<1>3. NextD(path) = Across(path, ego.s + 1 - path.s)
  BY DEF NextD, Across
<1>4. CASE path.s = ego.s
  <2>1. path.s + 1 = ego.s + 1 /\ ego.s + 1 - path.s = 1 /\ 1 \in 1..2
    BY <1>1, <1>4
  <2>2. Free(path.s + 1, Across(path, 1))
    BY <1>2, <2>1
  <2>3. QED
    BY <2>1, <2>2, <1>3
<1>5. CASE path.s = ego.s - 1
  <2>1. path.s + 2 = ego.s + 1 /\ ego.s + 1 - path.s = 2 /\ 2 \in 1..2
    BY <1>1, <1>5
  <2>2. Free(path.s + 2, Across(path, 2))
    BY <1>2, <2>1
  <2>3. QED
    BY <2>1, <2>2, <1>3
<1>6. QED
  BY <1>4, <1>5 DEF PathsAreClear, PathIsRecent

\* The vehicle comes on only with a path that was sent at this position, by
\* more calls than fail in a row.
LEMMA AdvancesFreely ==
  ASSUME PathsAreClear, Advance, path.kind = "plan"
  PROVE  path.s = ego.s /\ Free(ego.s + 1, NextD(path))
<1>1. /\ path.held \in Int /\ plan_fail_streak \in 0..MaxTransientFailCycles
      /\ path.held = CallsPerPosition
  BY PlanDrives, AdvanceFacts DEF PathsAreClear
<1>2. path.held > plan_fail_streak + 1
  BY <1>1, ShortResend, AvoidanceAssumption
<1>3. ~(path.held <= plan_fail_streak + 1) /\ ~(path.held <= plan_fail_streak)
  BY <1>1, <1>2, AvoidanceAssumption
<1>4. path.s = ego.s
  BY <1>3 DEF PathsAreClear, PathIsRecent
<1>5. Free(ego.s + 1, NextD(path))
  BY <1>3, NextIsFree DEF PathsAreClear, TrackedIsSeen
<1>6. QED
  BY <1>4, <1>5

\* A failed call, whatever it makes of the context.
LEMMA ResendKeepsClear ==
  ASSUME PathsAreClear, AvoidTypes', UNCHANGED <<world, ego>>, Resend,
         avoidance.phase = "TRACKING" => avoidance'.phase = "TRACKING"
  PROVE  PathsAreClear'
<1>1. AvoidTypes
  BY DEF PathsAreClear
<1>2. CASE path' \in {NoPath, StopPath}
  BY <1>2, NotPlanned DEF NoPath, StopPath
<1>3. CASE path'.kind # "plan"
  BY <1>3, NotPlanned
<1>4. CASE path'.kind = "plan" /\ path' \notin {NoPath, StopPath}
  <2>1. /\ path \in DrivingPaths /\ Sent(path)
        /\ plan_fail_streak' = plan_fail_streak + 1
    BY <1>1, <1>4, ResendFacts
  <2>2. /\ path' = [path EXCEPT !.held = Held(path)]
        /\ path'.kind = path.kind /\ path'.s = path.s /\ path'.d = path.d
        /\ path'.to = path.to /\ path'.span = path.span
        /\ path'.held = 1 \/ path'.held <= path.held + 1
    BY <1>1, <2>1, SentFacts DEF DrivingPaths
  <2>3. path.kind = "plan"
    BY <1>4, <2>2
  <2>4. /\ path.held \in Nat /\ plan_fail_streak \in Nat /\ path'.held \in Int
    BY <1>1, <2>1, <2>3, PlanDrives, SentFacts, AvoidanceAssumption DEF DrivingPaths
  <2>5. PathIsRecent'
    BY <2>1, <2>2, <2>3, <2>4 DEF PathsAreClear, PathIsRecent
  <2>6. KeptPathIsClear'
    BY <2>2, <2>3 DEF PathsAreClear, KeptPathIsClear, Free, Across
  <2>7. TrackedIsSeen'
    <3> SUFFICES ASSUME avoidance'.phase = "TRACKING"
                 PROVE  Free(ego.s + 1, NextD(path))' \/ path'.held <= plan_fail_streak' + 1
      BY DEF TrackedIsSeen
    <3>1. Free(ego.s + 1, NextD(path))' = Free(ego.s + 1, NextD(path))
      BY <2>2 DEF Free, NextD
    <3>2. CASE Free(ego.s + 1, NextD(path))
      BY <3>1, <3>2
    <3>3. CASE ~Free(ego.s + 1, NextD(path))
      <4>1. avoidance.phase = "TRACKING"
        BY <3>3, <2>3, NextIsFree
      <4>2. path.held <= plan_fail_streak + 1
        BY <3>3, <4>1, <2>3 DEF PathsAreClear, TrackedIsSeen
      <4>3. QED
        BY <4>2, <2>1, <2>2, <2>4
    <3>4. QED
      BY <3>2, <3>3
  <2>8. QED
    BY <2>5, <2>6, <2>7 DEF PathsAreClear
<1>5. QED
  BY <1>2, <1>3, <1>4

\* An obstacle may be left out only where the next position is clear of it, or
\* the vehicle has no path that leads there.
LEMMA LeftOutIsAway ==
  ASSUME PathsAreClear, NEW objs, IsList(objs),
         NEW i \in 1..Len(world), NEW j \in DOMAIN objs, objs[j] = world[i],
         MayBeLeftOut(objs, ego, j), path.kind = "plan"
  PROVE  ~Overlaps(ego.s + 1, NextD(path), world[i])
<1>1. ego.s \in Int /\ objs[j].s \in Int
  BY EgoIsPosition DEF PathsAreClear, AvoidTypes, IsList, Places
<1>2. CASE avoidance.phase = "TRACKING"
  <2>1. objs[j].s - ego.s > ShiftStart
    BY <1>2 DEF MayBeLeftOut
  <2>2. ShiftStart \in Nat /\ Reach \in Nat /\ Reach < ShiftStart
    BY AvoidanceAssumption, CandidatesAssumption, EarlyEnough
  <2>3. objs[j].s - (ego.s + 1) > Reach /\ objs[j].s - (ego.s + 1) \in Nat
    BY <1>1, <2>1, <2>2
  <2>4. ~(Abs(objs[j].s - (ego.s + 1)) <= Reach)
    BY <2>2, <2>3 DEF Abs
  <2>5. QED
    BY <2>4 DEF Overlaps
<1>3. CASE avoidance.phase # "TRACKING"
  BY <1>3, NextIsFree DEF Free
<1>4. QED
  BY <1>2, <1>3

LEMMA PlanKeepsClear ==
  ASSUME AllListed, PathsAreClear, AvoidTypes', UNCHANGED <<world, ego>>,
         stranger' \in Lists, PlanPath(Listed(stranger', world), ego),
         Resolve(Listed(stranger', world), ego).cands.valid # {}
  PROVE  PathsAreClear'
<1>1. AvoidTypes /\ world \in Worlds /\ ego.s \in Int /\ ego.d \in Int
  BY EgoIsPosition DEF PathsAreClear, AvoidTypes
<1>2. PICK objs : objs = Listed(stranger', world)
  OBVIOUS
<1>3. IsList(objs) /\ GoodContext(avoidance)
  BY <1>1, <1>2, ListedType DEF AvoidTypes
<1>4. \A i \in 1..Len(world) : \E j \in DOMAIN objs : objs[j] = world[i]
  BY <1>1, <1>2, ListedWorld
<1>5. PICK r : r = Resolve(objs, ego)
  OBVIOUS
<1>6. \A c \in r.cands.valid, j \in DOMAIN objs, x \in 1..2 :
        \/ ~Overlaps(ego.s + x, Lateral(c, ego, x), objs[j])
        \/ r.context.phase = "TRACKING" /\ MayBeLeftOut(objs, ego, j)
  BY <1>1, <1>3, <1>5, ResolveFacts
<1>7. PICK c : c = SelectBest(r.cands.valid, ego, r.cands.target)
  OBVIOUS
<1>8. c \in r.cands.valid /\ c.to \in Int /\ Span(c) \in Nat \ {0}
  BY <1>1, <1>2, <1>3, <1>5, <1>7, ChosenFacts
<1>9. avoidance' = r.context /\ Drive("plan", ego, c.to, Span(c))
  BY <1>2, <1>5, <1>7 DEF PlanPath
<1>10. PICK p : p = [kind |-> "plan", s |-> ego.s, d |-> ego.d, to |-> c.to,
                     span |-> Span(c), held |-> 0]
  OBVIOUS
<1>11. p \in DrivingPaths /\ Sent(p) /\ plan_fail_streak' = 0
  <2>1. p \in DrivingPaths
    BY <1>1, <1>8, <1>10, AvoidanceAssumption DEF DrivingPaths
  <2>2. QED
    BY <2>1, <1>9, <1>10 DEF Drive
<1>12. /\ path' = [p EXCEPT !.held = Held(p)]
       /\ path'.kind = p.kind /\ path'.s = p.s /\ path'.d = p.d
       /\ path'.to = p.to /\ path'.span = p.span
       /\ \/ path'.held <= 1
          \/ path.kind = p.kind /\ NextD(path) = NextD(p)
  BY <1>1, <1>11, SentFacts
<1>13. /\ path'.kind = "plan" /\ path'.s = ego.s /\ path'.d = ego.d
       /\ path'.to = c.to /\ path'.span = Span(c) /\ p.kind = "plan"
  BY <1>10, <1>12
<1>14. \A x : Lateral(c, ego, x) = Across(path, x)'
  BY <1>13 DEF Lateral, Across
<1>15. NextD(path)' = NextD(p) /\ NextD(p) = Lateral(c, ego, 1)
  <2>1. ego.s + 1 - ego.s = 1
    BY <1>1
  <2>2. NextD(p) = Lateral(c, ego, 1)
    BY <2>1, <1>10 DEF NextD, Lateral
  <2>3. NextD(path)' = NextD(p)
    BY <1>10, <1>13 DEF NextD
  <2>4. QED
    BY <2>2, <2>3
<1>16. PathIsRecent'
  BY <1>13 DEF PathIsRecent
<1>17. KeptPathIsClear'
  <2> SUFFICES ASSUME avoidance'.phase # "TRACKING", NEW x \in 1..2, NEW i \in 1..Len(world)
               PROVE  ~Overlaps(ego.s + x, Lateral(c, ego, x), world[i])
    BY <1>13, <1>14 DEF KeptPathIsClear, Free
  <2>1. PICK j \in DOMAIN objs : objs[j] = world[i]
    BY <1>4
  <2>2. QED
    BY <2>1, <1>6, <1>8, <1>9
<1>18. TrackedIsSeen'
  <2> SUFFICES ASSUME ~(path'.held <= 1), NEW i \in 1..Len(world)
               PROVE  ~Overlaps(ego.s + 1, NextD(p), world[i])
    BY <1>11, <1>15 DEF TrackedIsSeen, Free
  <2>1. path.kind = "plan" /\ NextD(path) = NextD(p)
    BY <1>12, <1>13
  <2>2. PICK j \in DOMAIN objs : objs[j] = world[i]
    BY <1>4
  <2>3. 1 \in 1..2
    OBVIOUS
  <2>4. CASE ~Overlaps(ego.s + 1, Lateral(c, ego, 1), objs[j])
    BY <2>2, <2>4, <1>15
  <2>5. CASE MayBeLeftOut(objs, ego, j)
    BY <2>1, <2>2, <2>5, <1>3, LeftOutIsAway
  <2>6. QED
    BY <2>3, <2>4, <2>5, <1>6, <1>8
<1>19. QED
  BY <1>16, <1>17, <1>18 DEF PathsAreClear

LEMMA AdvanceKeepsClear ==
  ASSUME PathsAreClear, AvoidTypes', Advance
  PROVE  PathsAreClear'
<1>1. /\ AvoidTypes /\ ego.s \in Int /\ path \in DrivingPaths
      /\ ego' = [s |-> ego.s + 1, d |-> NextD(path), slow |-> FALSE]
      /\ path' = [path EXCEPT !.held = 0]
      /\ UNCHANGED <<world, stranger, avoidance, plan_fail_streak, calm>>
  BY EgoIsPosition, AdvanceFacts DEF PathsAreClear
<1>2. /\ path'.kind = path.kind /\ path'.s = path.s /\ path'.d = path.d
      /\ path'.to = path.to /\ path'.span = path.span /\ path'.held = 0
  BY <1>1 DEF DrivingPaths
<1>3. CASE path.kind = "plan"
  <2>1. path.s = ego.s /\ plan_fail_streak \in Nat
    BY <1>1, <1>3, AdvancesFreely, PlanDrives
  <2>2. PathIsRecent'
    BY <2>1, <1>1, <1>2 DEF PathIsRecent
  <2>3. KeptPathIsClear'
    BY <1>1, <1>2 DEF PathsAreClear, KeptPathIsClear, Free, Across
  <2>4. TrackedIsSeen'
    BY <2>1, <1>1, <1>2 DEF TrackedIsSeen
  <2>5. QED
    BY <2>2, <2>3, <2>4 DEF PathsAreClear
<1>4. CASE path.kind # "plan"
  BY <1>2, <1>4, NotPlanned
<1>5. QED
  BY <1>3, <1>4

LEMMA PathsAreClearStep ==
  ASSUME AllListed, PathsAreClear, [AvoidNext]_avoidVars
  PROVE  PathsAreClear'
<1>1. AvoidTypes /\ AvoidTypes'
  BY AvoidTypesStep DEF PathsAreClear
<1>2. CASE Advance
  BY <1>1, <1>2, AdvanceKeepsClear
<1>3. CASE Stay \/ UNCHANGED avoidVars
  <2>1. /\ UNCHANGED <<world, avoidance, path, plan_fail_streak>>
        /\ ego'.s = ego.s /\ ego'.d = ego.d
    BY <1>1, <1>3 DEF Stay, avoidVars, AvoidTypes
  <2>2. QED
    BY <1>1, <2>1 DEF PathsAreClear, PathIsRecent, KeptPathIsClear, TrackedIsSeen,
                     Free, Across, NextD
<1>4. CASE Cycle
  <2>1. PICK objs : objs = Listed(stranger', world)
    OBVIOUS
  <2>2. /\ stranger' \in Lists /\ IsList(objs) /\ UNCHANGED <<world, ego>>
        /\ LowSpeedFallback(ego) \/ PlanPath(objs, ego) \/ GenerationFails(objs, ego)
    BY <1>1, <1>4, <2>1, CycleFacts
  <2>3. CASE LowSpeedFallback(ego)
    <3>1. \E to \in Int : Drive("crawl", ego, to, Recenter)
      BY <1>1, <2>3 DEF LowSpeedFallback, AvoidTypes, GoodContext
    <3>2. path'.kind = "crawl"
      <4>1. PICK to \in Int : Drive("crawl", ego, to, Recenter)
        BY <3>1
      <4>2. path' = [[kind |-> "crawl", s |-> ego.s, d |-> ego.d, to |-> to,
                      span |-> Recenter, held |-> 0] EXCEPT !.held = path'.held]
        BY <4>1 DEF Drive, Sent
      <4>3. QED
        BY <4>2
    <3>3. QED
      BY <3>2, <1>1, NotPlanned
  <2>4. CASE PlanPath(objs, ego)
    <3>1. PICK r : r = Resolve(objs, ego)
      OBVIOUS
    <3>2. CASE r.cands.valid # {}
      BY <1>1, <2>1, <2>2, <2>4, <3>1, <3>2, PlanKeepsClear
    <3>3. CASE Stop
      BY <3>3, <1>1, NotPlanned DEF Stop, StopPath
    <3>4. CASE r.cands.valid = {} /\ Resend
      <4>1. avoidance' = r.context
        BY <2>4, <3>1 DEF PlanPath
      <4>2. avoidance.phase = "TRACKING" => avoidance'.phase = "TRACKING"
        BY <1>1, <2>2, <3>1, <3>4, <4>1, EgoIsPosition, ResolveFacts DEF AvoidTypes
      <4>3. QED
        BY <1>1, <2>2, <3>4, <4>2, ResendKeepsClear
    <3>5. QED
      BY <2>4, <3>1, <3>2, <3>3, <3>4 DEF PlanPath
  <2>5. CASE GenerationFails(objs, ego)
    BY <1>1, <2>2, <2>5, GenerationFailsFacts, ResendKeepsClear
  <2>6. QED
    BY <2>2, <2>3, <2>4, <2>5
<1>5. QED
  BY <1>2, <1>3, <1>4 DEF AvoidNext

LEMMA TouchesCrawling ==
  ASSUME PathsAreClear, [AvoidNext]_avoidVars
  PROVE  [~Touches(ego) /\ Touches(ego') => path.kind = "crawl"]_avoidVars
<1> SUFFICES ASSUME ~Touches(ego), Touches(ego'), AvoidNext
             PROVE  path.kind = "crawl"
  OBVIOUS
<1>1. AvoidTypes
  BY DEF PathsAreClear
<1>2. CASE Advance
  <2>1. path.kind \in {"plan", "crawl"}
    BY <1>1, <1>2, AdvanceFacts DEF DrivingPaths
  <2>2. ego'.s = ego.s + 1 /\ ego'.d = NextD(path)
    BY <1>1, <1>2, AdvanceFacts
  <2>3. ~Free(ego.s + 1, NextD(path))
    BY <2>2 DEF Touches, Free
  <2>4. QED
    BY <2>1, <2>3, <1>2, AdvancesFreely
<1>3. CASE Stay \/ Cycle
  <2>1. ego'.s = ego.s /\ ego'.d = ego.d
    BY <1>1, <1>3 DEF Stay, Cycle, AvoidTypes
  <2>2. QED
    BY <2>1 DEF Touches
<1>4. QED
  BY <1>2, <1>3 DEF AvoidNext

(***************************************************************************)
(* A vehicle above crawling speed never drives into an obstacle, however    *)
(* the ids in the list change and whichever calls fail, as long as the list *)
(* has room for all.  AVOID leaves the obstacle it tracks out of the filter *)
(* until the manoeuvre begins (frenet_planner.cpp:882-894).                 *)
(***************************************************************************)
THEOREM OnlyCrawlingTouches ==
  ASSUME AllListed
  PROVE  AvoidSpec => ContactOnlyCrawling
<1>1. AvoidInit => PathsAreClear
  BY AvoidTypesStart DEF AvoidInit, PathsAreClear, PathIsRecent, KeptPathIsClear,
                         TrackedIsSeen, NoPath
<1>2. PathsAreClear /\ [AvoidNext]_avoidVars => PathsAreClear'
  BY PathsAreClearStep
<1>3. PathsAreClear /\ [AvoidNext]_avoidVars
        => [~Touches(ego) /\ Touches(ego') => path.kind = "crawl"]_avoidVars
  BY TouchesCrawling
<1>4. QED
  BY <1>1, <1>2, <1>3, PTL DEF AvoidSpec, ContactOnlyCrawling

------------------------------------------------------------------------------
(***************************************************************************)
(* What makes KeepsGoing true: a stop path is not for good.  A vehicle that *)
(* stands is in the low speed branch, whatever is listed and whichever      *)
(* calls fail; that branch looks at nothing that changes while it stands,   *)
(* and so each call leads the same way as the one before, until the vehicle *)
(* moves (frenet_planner.cpp:465-468, 534-575).                             *)
(***************************************************************************)
Standing == ego.slow /\ ego.s < Length /\ ~Touches(ego)

CrawlTarget ==
  IF (avoidance.phase = "TRACKING" /\ avoidance.s - ego.s <= ShiftStart) \/ Maneuvering(avoidance)
    THEN avoidance.target ELSE 0

\* Calls until Advance may follow the path.
CallsToGo == IF path.kind = "crawl" THEN CallsPerPosition - path.held ELSE CallsPerPosition

StandingPullsAway ==
  [][Standing /\ Cycle =>
       path'.kind = "crawl" /\ (CallsToGo' < CallsToGo \/ CallsToGo' = 0)]_avoidVars

StandingEndsMoving == [][Standing /\ ~Standing' => ego'.s = ego.s + 1]_avoidVars

CrawlIsCurrent ==
  Standing /\ path.kind = "crawl" =>
    /\ path.s = ego.s /\ path.d = ego.d
    /\ path.to = CrawlTarget /\ path.span = Recenter

StandingInv == AvoidTypes /\ CrawlIsCurrent

LEMMA CrawlTargetIsInt == ASSUME AvoidTypes PROVE CrawlTarget \in Int
BY DEF AvoidTypes, GoodContext, CrawlTarget

\* What a call makes of a vehicle that stands.
LEMMA StandingCycle ==
  ASSUME StandingInv, Standing, Cycle
  PROVE  /\ CrawlIsCurrent'
         /\ path'.kind = "crawl"
         /\ CallsToGo' < CallsToGo \/ CallsToGo' = 0
         /\ ego' = ego /\ world' = world
<1>1. AvoidTypes /\ CrawlTarget \in Int
  BY CrawlTargetIsInt DEF StandingInv
<1>2. UNCHANGED <<world, ego>>
  BY <1>1, CycleFacts
<1>3. LowSpeedFallback(ego)
  BY <1>1, CycleFacts DEF Standing, PlanPath, GenerationFails
<1>4. Drive("crawl", ego, CrawlTarget, Recenter) /\ avoidance' = avoidance
  BY <1>3 DEF LowSpeedFallback, CrawlTarget
<1>5. PICK p : p = [kind |-> "crawl", s |-> ego.s, d |-> ego.d, to |-> CrawlTarget,
                    span |-> Recenter, held |-> 0]
  OBVIOUS
<1>6. Sent(p)
  BY <1>4, <1>5 DEF Drive
<1>7. /\ p.kind = "crawl" /\ p.s = ego.s /\ p.d = ego.d /\ p.to = CrawlTarget
      /\ p.span = Recenter
  BY <1>5
<1>8. p \in DrivingPaths
  BY <1>1, <1>5, EgoIsPosition, AvoidanceAssumption DEF DrivingPaths
<1>9. /\ path'.kind = "crawl" /\ path'.s = ego.s /\ path'.d = ego.d
      /\ path'.to = CrawlTarget /\ path'.span = Recenter /\ path'.held = Held(p)
  BY <1>1, <1>6, <1>7, <1>8, SentFacts
<1>10. CrawlTarget' = CrawlTarget
  BY <1>2, <1>4 DEF CrawlTarget
<1>11. CrawlIsCurrent'
  BY <1>2, <1>9, <1>10 DEF CrawlIsCurrent
<1>12. CallsToGo' = CallsPerPosition - Held(p)
  BY <1>9 DEF CallsToGo
<1>13. CASE path.kind = "crawl"
  <2>1. path \in DrivingPaths
    BY <1>1, <1>13 DEF AvoidTypes, NoPath, StopPath
  <2>2. path.held \in 0..CallsPerPosition /\ CallsPerPosition \in Nat
    BY <2>1, AvoidanceAssumption DEF DrivingPaths
  <2>3. NextD(path) = NextD(p)
    BY <1>7, <1>13 DEF StandingInv, CrawlIsCurrent, NextD
  <2>4. Held(p) = IF path.held < CallsPerPosition THEN path.held + 1 ELSE path.held
    BY <1>7, <1>13, <2>3 DEF Held, Drives
  <2>5. CallsToGo = CallsPerPosition - path.held
    BY <1>13 DEF CallsToGo
  <2>6. CallsToGo' < CallsToGo \/ CallsToGo' = 0
    BY <1>12, <2>2, <2>4, <2>5
  <2>7. QED
    BY <1>2, <1>9, <1>11, <2>6
<1>14. CASE path.kind # "crawl"
  <2>1. Held(p) = 1
    BY <1>7, <1>14 DEF Held
  <2>2. CallsToGo = CallsPerPosition /\ CallsPerPosition \in Nat
    BY <1>14, AvoidanceAssumption DEF CallsToGo
  <2>3. CallsToGo' < CallsToGo
    BY <1>12, <2>1, <2>2
  <2>4. QED
    BY <1>2, <1>9, <1>11, <2>3
<1>15. QED
  BY <1>13, <1>14

\* Only a stop path, or none, makes the vehicle stand on the road.
LEMMA StandingStay ==
  ASSUME StandingInv, Stay
  PROVE  /\ CrawlIsCurrent'
         /\ Standing => Standing'
<1>1. /\ UNCHANGED <<world, avoidance, path>>
      /\ ego'.s = ego.s /\ ego'.d = ego.d
      /\ ego'.slow = (ego.slow \/ ~Driving)
  BY DEF Stay, StandingInv, AvoidTypes
<1>2. Touches(ego') = Touches(ego) /\ Touches(ego)' = Touches(ego)
  BY <1>1 DEF Touches
<1>3. CrawlTarget' = CrawlTarget
  BY <1>1 DEF CrawlTarget
<1>4. Standing => Standing'
  BY <1>1, <1>2 DEF Standing
<1>5. ASSUME Standing', path'.kind = "crawl" PROVE Standing
  <2>1. Drives(path)
    BY <1>1, <1>5 DEF Drives
  <2>2. ego.s < Length /\ ~Touches(ego) /\ ego'.slow
    BY <1>1, <1>2, <1>5 DEF Standing
  <2>3. QED
    BY <1>1, <2>1, <2>2 DEF Standing, Driving
<1>6. CrawlIsCurrent'
  BY <1>1, <1>3, <1>5 DEF CrawlIsCurrent, StandingInv
<1>7. QED
  BY <1>4, <1>6

LEMMA StandingStep ==
  ASSUME StandingInv, [AvoidNext]_avoidVars
  PROVE  /\ StandingInv'
         /\ Standing /\ ~Standing' => ego'.s = ego.s + 1
<1>1. AvoidTypes /\ AvoidTypes'
  BY AvoidTypesStep DEF StandingInv
<1>2. CASE Advance
  <2>1. ego' = [s |-> ego.s + 1, d |-> NextD(path), slow |-> FALSE]
    BY <1>1, <1>2, AdvanceFacts
  <2>2. ~Standing' /\ ego'.s = ego.s + 1
    BY <2>1 DEF Standing
  <2>3. QED
    BY <1>1, <2>2 DEF StandingInv, CrawlIsCurrent
<1>3. CASE Stay
  BY <1>1, <1>3, StandingStay DEF StandingInv
<1>4. CASE Cycle
  <2>1. ego' = ego /\ world' = world
    BY <1>1, <1>4, CycleFacts
  <2>2. Standing' = Standing
    BY <2>1 DEF Standing, Touches
  <2>3. Standing => CrawlIsCurrent'
    BY <1>4, StandingCycle
  <2>4. ~Standing => CrawlIsCurrent'
    BY <2>2 DEF CrawlIsCurrent
  <2>5. QED
    BY <1>1, <2>2, <2>3, <2>4 DEF StandingInv
<1>5. CASE UNCHANGED avoidVars
  BY <1>1, <1>5 DEF avoidVars, StandingInv, CrawlIsCurrent, CrawlTarget, Standing, Touches
<1>6. QED
  BY <1>2, <1>3, <1>4, <1>5 DEF AvoidNext

LEMMA StandingAlways == AvoidSpec => []StandingInv
<1>1. AvoidInit => StandingInv
  BY AvoidTypesStart DEF AvoidInit, StandingInv, CrawlIsCurrent, NoPath
<1>2. StandingInv /\ [AvoidNext]_avoidVars => StandingInv'
  BY StandingStep
<1>3. QED
  BY <1>1, <1>2, PTL DEF AvoidSpec

(***************************************************************************)
(* Every call of a vehicle that stands on the free road sends a path to     *)
(* drive on, and after CallsPerPosition of them in a row the vehicle may    *)
(* follow it.                                                               *)
(***************************************************************************)
THEOREM StandingIsGivenAWay == AvoidSpec => StandingPullsAway
<1>1. StandingInv /\ [AvoidNext]_avoidVars
        => [Standing /\ Cycle =>
              path'.kind = "crawl" /\ (CallsToGo' < CallsToGo \/ CallsToGo' = 0)]_avoidVars
  BY StandingCycle
<1>2. QED
  BY <1>1, StandingAlways, PTL DEF AvoidSpec, StandingPullsAway

(***************************************************************************)
(* It stands until it moves on: no failure, list or stop path comes between *)
(* two of those calls.                                                      *)
(***************************************************************************)
THEOREM StandingUntilMoving == AvoidSpec => StandingEndsMoving
<1>1. StandingInv /\ [AvoidNext]_avoidVars
        => [Standing /\ ~Standing' => ego'.s = ego.s + 1]_avoidVars
  BY StandingStep
<1>2. QED
  BY <1>1, StandingAlways, PTL DEF AvoidSpec, StandingEndsMoving
------------------------------------------------------------------------------
(***************************************************************************)
(* The way to an obstacle.  One of the speeds a candidate may have is so    *)
(* slow that what it is examined for does not reach further than obstacles  *)
(* are registered, and keeping to it costs less than leaving the centre of  *)
(* the lane (params.yaml: 1 m/s below the target speed it is 77 m of 85 m,  *)
(* and costs 1 where a shift by one step costs 5; no duration is longer     *)
(* than reactive_lookahead).                                                *)
(***************************************************************************)
SlowEnough(step) ==
  /\ (Cruise + step) * Lookahead + Reach <= AcquisitionRange
  /\ StepWeight * step * step < TerminalWeight + PathWeight

SlowerSeesLess ==
  /\ Durations # {} /\ \A T \in Durations : T <= Lookahead
  /\ \E step \in SpeedSteps : SlowEnough(step)

InTheLane(p) == Abs(p.d) <= HalfLane
Beside(p) == Abs(p.d) > HalfLane /\ Abs(p.d) >= Width

\* At most one object is in the lane, and its manoeuvre is not due yet; the
\* others are nowhere near the centre of the lane.
FarFromAny(objs, e) ==
  /\ \A i \in DOMAIN objs : \/ Beside(objs[i])
                            \/ InTheLane(objs[i]) /\ objs[i].s - e.s > ShiftStart
  /\ \A i, j \in DOMAIN objs : InTheLane(objs[i]) /\ InTheLane(objs[j]) => i = j

\* The context tracks the object in the lane, or nothing.
TracksTheOne(a, objs) ==
  \/ a.phase = "NONE"
  \/ /\ a.phase = "TRACKING" /\ a.id \in DOMAIN objs
     /\ InTheLane(objs[a.id]) /\ a.s = objs[a.id].s

\* To stay where it is, a path needs no part of a shift.
LEMMA PartOfNothing ==
  ASSUME NEW x \in Int, NEW span \in Nat \ {0}
  PROVE  Part(0, x, span) = 0
<1>1. Abs(0) * x + span - 1 = span - 1
  BY DEF Abs
<1>2. (span - 1) \div span = 0
  OBVIOUS
<1>3. QED
  BY <1>1, <1>2 DEF Part

\* The candidates that stay in the centre, at one of the speeds.
Centre(T, r) == [to |-> 0, time |-> T, speed |-> Cruise + r, step |-> r]

LEMMA RangeIsInt == AcquisitionRange \in Int
<1>1. \A m, n \in Int : m * n \in Int
  OBVIOUS
<1>2. Cruise * Lookahead + VehicleLength \in Int
  BY <1>1, CandidatesAssumption, AvoidanceAssumption
<1>3. QED
  BY <1>2, AvoidanceAssumption DEF AcquisitionRange, Larger

LEMMA CentreIsMade ==
  ASSUME NEW e, e.d = 0, NEW T \in Durations, NEW r \in SpeedSteps
  PROVE  Centre(T, r) \in ResolveManeuver(e, 0, Cruise)
<1>1. /\ Tolerance \in Nat /\ LateralRate \in Nat /\ TurnRate \in Nat
      /\ T \in Nat \ {0} /\ r \in Int
  BY CandidatesAssumption
<1>2. Cruise + r \in Nat \ {0}
  BY <1>1, AvoidanceAssumption
<1>3. [to |-> 0, time |-> T] \in LateralCandidates(0)
  <2>1. 0 \in -Tolerance..Tolerance /\ 0 + 0 = 0
    BY <1>1
  <2>2. QED
    BY <2>1 DEF LateralCandidates
<1>4. [speed |-> Cruise + r, step |-> r, time |-> T] \in SpeedCandidates(Cruise)
  BY DEF SpeedCandidates
<1>5. Abs(0 - e.d) = 0
  BY DEF Abs
<1>6. WithinLateralAccel(e, [to |-> 0, time |-> T])
  <2>1. LateralRate * T \in Nat
    BY <1>1
  <2>2. QED
    BY <1>5, <2>1 DEF WithinLateralAccel
<1>7. WithinCurvature(e, Centre(T, r))
  <2>1. Span(Centre(T, r)) \in Nat \ {0}
    BY <1>1, <1>2, SpanIsPositive DEF Centre
  <2>2. TurnRate * Span(Centre(T, r)) \in Nat
    BY <1>1, <2>1
  <2>3. Centre(T, r).to = 0
    BY DEF Centre
  <2>4. QED
    BY <1>5, <2>2, <2>3 DEF WithinCurvature
<1>8. Centre(T, r) \in Combine({lat \in LateralCandidates(0) : WithinLateralAccel(e, lat)},
                              SpeedCandidates(Cruise))
  <2>1. PICK lat : lat = [to |-> 0, time |-> T]
    OBVIOUS
  <2>2. PICK lon : lon = [speed |-> Cruise + r, step |-> r, time |-> T]
    OBVIOUS
  <2>3. PICK L : L = {l \in LateralCandidates(0) : WithinLateralAccel(e, l)}
    OBVIOUS
  <2>4. <<lat, lon>> \in {q \in L \X SpeedCandidates(Cruise) : q[1].time = q[2].time}
    BY <1>3, <1>4, <1>6, <2>1, <2>2, <2>3
  <2>5. Centre(T, r) = [to |-> lat.to, time |-> lat.time, speed |-> lon.speed, step |-> lon.step]
    BY <2>1, <2>2 DEF Centre
  <2>6. Centre(T, r) \in Combine(L, SpeedCandidates(Cruise))
    BY <2>4, <2>5 DEF Combine
  <2>7. QED
    BY <2>3, <2>6
<1>9. QED
  BY <1>7, <1>8 DEF ResolveManeuver

\* A centre that is slow enough is clear of what is beside it, and of what is
\* not registered because it is too far away.
LEMMA CentreIsClear ==
  ASSUME NEW e, e.d = 0, e.s \in Int, NEW T \in Nat \ {0}, T <= Lookahead,
         NEW r \in SpeedSteps, SlowEnough(r), NEW places,
         \A p \in places : p \in Places /\ (Beside(p) \/ p.s - e.s > AcquisitionRange)
  PROVE  Clear(Centre(T, r), e, places)
<1>1. Lookahead \in Nat /\ Reach \in Nat /\ Width \in Nat
  BY CandidatesAssumption
<1>2. PICK v \in Nat \ {0} : v = Cruise + r
  BY AvoidanceAssumption, CandidatesAssumption
<1>3. /\ Centre(T, r).to = 0 /\ Centre(T, r).time = T /\ Centre(T, r).speed = v
      /\ Span(Centre(T, r)) \in Nat \ {0}
  <2>1. Centre(T, r).to = 0 /\ Centre(T, r).time = T /\ Centre(T, r).speed = v
    BY <1>2 DEF Centre
  <2>2. QED
    BY <2>1, SpanIsPositive
<1>4. Larger(T, Lookahead) = Lookahead
  BY <1>1 DEF Larger
<1>5. PICK far \in Nat : far = v * Lookahead
  BY <1>1
<1>6. Examined(Centre(T, r)) = 0..far
  BY <1>3, <1>4, <1>5 DEF Examined
<1>7. far + Reach <= AcquisitionRange
  BY <1>2, <1>5 DEF SlowEnough
<1>8. SUFFICES ASSUME NEW x \in 0..far, NEW p \in places
               PROVE  ~Overlaps(e.s + x, Lateral(Centre(T, r), e, x), p)
  BY <1>6 DEF Clear
<1>9. Lateral(Centre(T, r), e, x) = 0
  <2>1. Part(0, x, Span(Centre(T, r))) = 0
    BY <1>3, PartOfNothing
  <2>2. QED
    BY <1>3, <2>1 DEF Lateral
<1>10. p \in Places /\ p.s \in Int /\ p.d \in Int
  BY DEF Places
<1>11. CASE Beside(p)
  <2>1. p.d - 0 = p.d
    BY <1>10
  <2>2. ~ (Abs(p.d - 0) < Width)
    BY <1>1, <1>10, <1>11, <2>1 DEF Beside, Abs
  <2>3. QED
    BY <1>9, <2>2 DEF Overlaps
<1>12. CASE p.s - e.s > AcquisitionRange
  <2>1. p.s - (e.s + x) > Reach
    BY <1>1, <1>7, <1>10, <1>12, RangeIsInt
  <2>2. Abs(p.s - (e.s + x)) > Reach
    BY <1>1, <1>10, <2>1 DEF Abs
  <2>3. QED
    BY <1>1, <1>10, <2>2 DEF Overlaps, Abs
<1>13. QED
  BY <1>11, <1>12

\* From the centre, a candidate that leaves it costs more than the one of the
\* same duration that stays and is slow enough.
LEMMA LeavingCosts ==
  ASSUME NEW e, e.d = 0, NEW r \in Int, SlowEnough(r),
         NEW c, c.to \in Int \ {0}, c.time \in Nat \ {0}, c.step \in Int
  PROVE  Cost(Centre(c.time, r), e, 0) < Cost(c, e, 0)
<1>1. /\ TimeWeight \in Nat /\ StepWeight \in Nat /\ TerminalWeight \in Nat /\ PathWeight \in Nat
  BY CandidatesAssumption
<1>2. PICK end \in Int \ {0}, t \in Nat \ {0}, st \in Int : end = c.to /\ t = c.time /\ st = c.step
  OBVIOUS
<1>3. PICK q \in Nat \ {0} : q = end * end
  <2>1. end * end \in Nat
    BY SquareIsNat
  <2>2. end * end # 0
    OBVIOUS
  <2>3. QED
    BY <2>1, <2>2
<1>4. PICK z \in Nat : z = st * st
  BY SquareIsNat
<1>5. PICK y \in Int : y = StepWeight * r * r /\ y < TerminalWeight + PathWeight
  BY <1>1 DEF SlowEnough
<1>6. PICK b \in Nat : b = TimeWeight * t
  BY <1>1
<1>7. /\ e.d - 0 = 0 /\ c.to - 0 = end /\ Centre(t, r).to - 0 = 0
      /\ Centre(t, r).time = t /\ Centre(t, r).step = r
  BY <1>2 DEF Centre
<1>8. Cost(Centre(t, r), e, 0) = b + y
  <2>1. Cost(Centre(t, r), e, 0) = TimeWeight * t + StepWeight * r * r + TerminalWeight * 0 * 0
                                     + PathWeight * t * (0 * 0 + 0 * 0 + 0 * 0)
    BY <1>7 DEF Cost
  <2>2. TerminalWeight * 0 * 0 = 0 /\ 0 * 0 + 0 * 0 + 0 * 0 = 0
    BY <1>1
  <2>3. PathWeight * t \in Nat
    BY <1>1
  <2>4. PathWeight * t * 0 = 0
    BY <2>3
  <2>5. QED
    BY <1>5, <1>6, <2>1, <2>2, <2>4
<1>9. PICK s \in Nat, f \in Nat, p \in Nat :
        /\ s = StepWeight * z /\ f = TerminalWeight * q /\ p = PathWeight * t * q
        /\ f >= TerminalWeight /\ p >= PathWeight
  <2>1. \A m, n \in Nat : m * n \in Nat
    OBVIOUS
  <2>2. \A m \in Nat, n \in Nat \ {0} : m <= m * n
    BY ProductMonotone
  <2>3. PICK m \in Nat : m = PathWeight * t /\ PathWeight <= m
    BY <1>1, <2>1, <2>2
  <2>4. StepWeight * z \in Nat /\ TerminalWeight * q \in Nat /\ m * q \in Nat
    BY <1>1, <2>1
  <2>5. TerminalWeight <= TerminalWeight * q /\ m <= m * q
    BY <1>1, <2>2
  <2>6. PathWeight * t * q = m * q /\ PathWeight <= m * q
    BY <1>1, <2>3, <2>4, <2>5
  <2>7. QED
    BY <2>4, <2>5, <2>6
<1>10. Cost(c, e, 0) = b + s + f + p
  <2>1. Cost(c, e, 0) = TimeWeight * t + StepWeight * st * st + TerminalWeight * end * end
                          + PathWeight * t * (0 * 0 + 0 * end + end * end)
    BY <1>2, <1>7 DEF Cost
  <2>2. StepWeight * st * st = StepWeight * z /\ TerminalWeight * end * end = TerminalWeight * q
    BY <1>1, <1>3, <1>4
  <2>3. 0 * 0 + 0 * end + end * end = q
    BY <1>3
  <2>4. QED
    BY <1>6, <1>9, <2>1, <2>2, <2>3
<1>11. b + y < b + s + f + p
  BY <1>1, <1>5, <1>9
<1>12. QED
  BY <1>2, <1>8, <1>10, <1>11

LEMMA CentreIsChosen ==
  ASSUME NEW e, e.d = 0, NEW r \in SpeedSteps, SlowEnough(r), Durations # {},
         NEW S \in SUBSET ResolveManeuver(e, 0, Cruise),
         \A T \in Durations : Centre(T, r) \in S
  PROVE  SelectBest(S, e, 0).to = 0
<1>1. PICK c : c = SelectBest(S, e, 0)
  OBVIOUS
<1>2. c \in S /\ \A T \in Durations : Cost(c, e, 0) <= Cost(Centre(T, r), e, 0)
  BY <1>1, BestIsCandidate
<1>3. c.to \in Int /\ c.time \in Nat \ {0} /\ c.step \in Int /\ r \in Int
  BY <1>2, CandidateType, CandidatesAssumption
<1>4. c.time \in Durations
  <2>1. PICK lat \in LateralCandidates(0), lon \in SpeedCandidates(Cruise) :
          c = [to |-> lat.to, time |-> lat.time, speed |-> lon.speed, step |-> lon.step]
    BY <1>2 DEF ResolveManeuver, Combine
  <2>2. lat.time \in Durations
    BY DEF LateralCandidates
  <2>3. QED
    BY <2>1, <2>2
<1>5. CASE c.to # 0
  <2>1. Cost(Centre(c.time, r), e, 0) < Cost(c, e, 0)
    BY <1>3, <1>5, LeavingCosts
  <2>2. Cost(Centre(c.time, r), e, 0) \in Nat /\ Cost(c, e, 0) \in Nat
    BY <1>2, <1>4, CostIsNat
  <2>3. QED
    BY <1>2, <1>4, <2>1, <2>2
<1>6. QED
  BY <1>1, <1>5

LEMMA OneOrTheOther ==
  ASSUME NEW p \in Places, InTheLane(p)
  PROVE  ~Beside(p)
<1>1. Abs(p.d) \in Int /\ HalfLane \in Int
  BY AvoidanceAssumption DEF Abs, Places
<1>2. QED
  BY <1>1 DEF InTheLane, Beside

\* Far from any manoeuvre a call has a path in the centre of the lane to offer,
\* and goes on tracking what it tracked.
LEMMA FarCallGoesOn ==
  ASSUME SlowerSeesLess, GoodContext(avoidance), NEW objs, IsList(objs),
         NEW e, e.d = 0, e.s \in Int, FarFromAny(objs, e), TracksTheOne(avoidance, objs)
  PROVE  LET r == Resolve(objs, e)
         IN  /\ TracksTheOne(r.context, objs)
             /\ r.cands.valid # {}
             /\ SelectBest(r.cands.valid, e, r.cands.target).to = 0
<1>1. PICK seen : seen = Refreshed(avoidance, objs)
  OBVIOUS
<1>2. /\ GoodContext(seen) /\ seen.phase = avoidance.phase /\ seen.id = avoidance.id
      /\ TracksTheOne(seen, objs)
  BY <1>1, RefreshedFacts DEF TracksTheOne
<1>3. ~Begins(seen, e)
  <2>1. CASE seen.phase = "TRACKING"
    <3>1. seen.id \in DOMAIN objs /\ InTheLane(objs[seen.id]) /\ seen.s = objs[seen.id].s
      BY <1>2, <2>1 DEF TracksTheOne
    <3>2. objs[seen.id].s - e.s > ShiftStart /\ objs[seen.id].s \in Int
      BY <3>1, OneOrTheOther DEF FarFromAny, IsList, Places
    <3>3. QED
      BY <3>1, <3>2, AvoidanceAssumption DEF Begins
  <2>2. CASE seen.phase # "TRACKING"
    BY <2>2 DEF Begins
  <2>3. QED
    BY <2>1, <2>2
<1>4. Advanced(seen, e) = seen
  BY <1>2, AdvancedFacts DEF TracksTheOne
<1>5. PICK a : a = Acquired(seen, objs, e)
  OBVIOUS
<1>6. TracksTheOne(a, objs) /\ (a.phase = "NONE" => InLane(objs, e) = {})
  <2>1. CASE Active(seen)
    BY <1>2, <1>5, <2>1 DEF Acquired, Active
  <2>2. CASE ~Active(seen) /\ InLane(objs, e) = {}
    BY <1>2, <1>5, <2>2 DEF Acquired
  <2>3. CASE ~Active(seen) /\ InLane(objs, e) # {}
    <3>1. PICK i : i = NearestInLane(objs, e)
      OBVIOUS
    <3>2. i \in InLane(objs, e)
      BY <2>3, <3>1, NearestIsInLane
    <3>3. i \in DOMAIN objs /\ InTheLane(objs[i])
      BY <3>2 DEF InLane, Ahead, InTheLane
    <3>4. a = [phase |-> "TRACKING", id |-> i, s |-> objs[i].s, d |-> objs[i].d,
               target |-> FirstOffset(objs, e)]
      BY <1>5, <2>3, <3>1 DEF Acquired
    <3>5. QED
      BY <3>3, <3>4 DEF TracksTheOne
  <2>4. QED
    BY <2>1, <2>2, <2>3
<1>7. PICK places : places = PlanningObstacles(a, Begins(seen, e), objs)
  OBVIOUS
<1>8. ~Maneuvering(a)
  BY <1>6 DEF TracksTheOne, Maneuvering
<1>9. PICK r : r = Resolve(objs, e)
  OBVIOUS
<1>10. r = [context |-> a, cands |-> LaneCandidates(e, places)]
  BY <1>1, <1>3, <1>4, <1>5, <1>7, <1>8, <1>9 DEF Resolve
<1>11. \A p \in places : p \in Places /\ (Beside(p) \/ p.s - e.s > AcquisitionRange)
  <2> SUFFICES ASSUME NEW p \in places, ~Beside(p)
               PROVE  p \in Places /\ p.s - e.s > AcquisitionRange
    <3>1. \A p \in places : p \in Places
      BY <1>7 DEF PlanningObstacles, IsList
    <3>2. QED
      BY <3>1
  <2>1. PICK j \in DOMAIN objs : p = objs[j] /\ ~(a.phase = "TRACKING" /\ j = a.id)
    BY <1>3, <1>7 DEF PlanningObstacles
  <2>2. InTheLane(p) /\ p.s - e.s > ShiftStart /\ p \in Places /\ p.s \in Int
    BY <2>1 DEF FarFromAny, IsList, Places
  <2>3. a.phase = "NONE"
    <3>1. a.phase = "TRACKING" => a.id = j
      BY <1>6, <2>1, <2>2 DEF TracksTheOne, FarFromAny
    <3>2. QED
      BY <1>6, <2>1, <3>1 DEF TracksTheOne
  <2>4. j \notin InLane(objs, e)
    BY <1>6, <2>3
  <2>5. p.s > e.s
    BY <2>2, AvoidanceAssumption
  <2>6. ~ (p.s - e.s <= AcquisitionRange)
    BY <2>1, <2>2, <2>4, <2>5 DEF InLane, Ahead, InTheLane
  <2>7. QED
    BY <2>2, <2>6, RangeIsInt
<1>12. PICK step \in SpeedSteps : SlowEnough(step)
  BY DEF SlowerSeesLess
<1>13. Durations # {} /\ Durations \subseteq Nat \ {0} /\ \A T \in Durations : T <= Lookahead
  BY CandidatesAssumption DEF SlowerSeesLess
<1>14. \A T \in Durations : Clear(Centre(T, step), e, places)
  BY <1>11, <1>12, <1>13, CentreIsClear
<1>15. PICK S : S = FilterByCollision(ResolveManeuver(e, 0, Cruise), e, places)
  OBVIOUS
<1>16. /\ \A T \in Durations : Centre(T, step) \in S
       /\ S \in SUBSET ResolveManeuver(e, 0, Cruise) /\ S # {}
  <2>1. \A T \in Durations : Centre(T, step) \in S
    BY <1>14, <1>15, CentreIsMade DEF FilterByCollision
  <2>2. QED
    BY <1>13, <1>15, <2>1 DEF FilterByCollision
<1>17. r.context = a /\ r.cands.valid = S /\ r.cands.target = 0
  BY <1>10, <1>15 DEF LaneCandidates
<1>18. SelectBest(S, e, 0).to = 0
  BY <1>12, <1>13, <1>16, CentreIsChosen
<1>19. TracksTheOne(r.context, objs) /\ r.cands.valid # {}
       /\ SelectBest(r.cands.valid, e, r.cands.target).to = 0
  BY <1>6, <1>16, <1>17, <1>18
<1>20. QED
  BY <1>9, <1>19

(***************************************************************************)
(* As long as every call generates and the list stays as it is, the vehicle *)
(* is in the centre of the lane until the manoeuvre is due, on a path that  *)
(* stays there.                                                             *)
(***************************************************************************)
BeforeManoeuvre == calm /\ FarFromAny(Listed(stranger, world), ego)

KeepsCentre(p) == p = NoPath \/ (Drives(p) /\ p.d = 0 /\ p.to = 0)

Approach ==
  BeforeManoeuvre =>
    /\ ego.d = 0
    /\ KeepsCentre(path)
    /\ TracksTheOne(avoidance, Listed(stranger, world))

LEMMA CentreIsNext ==
  ASSUME AvoidTypes, NEW p \in DrivingPaths, p.d = 0, p.to = 0
  PROVE  NextD(p) = 0
<1>1. p.to - p.d = 0 /\ ego.s + 1 - p.s \in Int /\ p.span \in Nat \ {0}
  BY EgoIsPosition DEF DrivingPaths
<1>2. Part(p.to - p.d, ego.s + 1 - p.s, p.span) = 0
  BY <1>1, PartOfNothing
<1>3. QED
  BY <1>2 DEF NextD

LEMMA DriveKeepsCentre ==
  ASSUME AvoidTypes, NEW kind \in {"plan", "crawl"}, NEW span \in Nat \ {0}, ego.d = 0,
         Drive(kind, ego, 0, span)
  PROVE  KeepsCentre(path')
<1>1. PICK p : p = [kind |-> kind, s |-> ego.s, d |-> ego.d, to |-> 0, span |-> span, held |-> 0]
  OBVIOUS
<1>2. p \in DrivingPaths /\ p.d = 0 /\ p.to = 0 /\ p.kind = kind
  BY <1>1, EgoIsPosition, AvoidanceAssumption DEF DrivingPaths
<1>3. Sent(p)
  BY <1>1 DEF Drive
<1>4. path'.kind = kind /\ path'.d = 0 /\ path'.to = 0
  BY <1>2, <1>3, SentFacts
<1>5. QED
  BY <1>4 DEF KeepsCentre, Drives

LEMMA ApproachCycle ==
  ASSUME SlowerSeesLess, AvoidTypes, Approach, Cycle
  PROVE  Approach'
<1> SUFFICES ASSUME BeforeManoeuvre'
             PROVE  /\ ego'.d = 0
                    /\ KeepsCentre(path')
                    /\ TracksTheOne(avoidance', Listed(stranger', world'))
  BY DEF Approach
<1>1. PICK objs : objs = Listed(stranger, world)
  OBVIOUS
<1>2. IsList(objs) /\ UNCHANGED <<world, ego>>
  BY <1>1, CycleFacts, ListedType DEF AvoidTypes
<1>3. /\ calm /\ stranger' = stranger
      /\ LowSpeedFallback(ego) \/ PlanPath(Listed(stranger', world), ego)
  BY DEF Cycle, BeforeManoeuvre
<1>4. Listed(stranger', world') = objs
  BY <1>1, <1>2, <1>3
<1>5. BeforeManoeuvre /\ FarFromAny(objs, ego)
  BY <1>1, <1>2, <1>3, <1>4 DEF BeforeManoeuvre
<1>6. ego.d = 0 /\ TracksTheOne(avoidance, objs)
  BY <1>1, <1>5 DEF Approach
<1>7. CASE LowSpeedFallback(ego)
  <2>1. ~(avoidance.phase = "TRACKING" /\ avoidance.s - ego.s <= ShiftStart)
        /\ ~Maneuvering(avoidance)
    <3>1. CASE avoidance.phase = "TRACKING"
      <4>1. avoidance.id \in DOMAIN objs /\ InTheLane(objs[avoidance.id])
            /\ avoidance.s = objs[avoidance.id].s
        BY <1>6, <3>1 DEF TracksTheOne
      <4>2. avoidance.s - ego.s > ShiftStart /\ objs[avoidance.id].s \in Int
        BY <1>2, <1>5, <4>1, OneOrTheOther DEF FarFromAny, IsList, Places
      <4>3. QED
        BY <3>1, <4>1, <4>2, EgoIsPosition, AvoidanceAssumption DEF Maneuvering
    <3>2. CASE avoidance.phase = "NONE"
      BY <3>2 DEF Maneuvering
    <3>3. QED
      BY <1>6, <3>1, <3>2 DEF TracksTheOne
  <2>2. Drive("crawl", ego, 0, Recenter) /\ avoidance' = avoidance
    BY <1>7, <2>1 DEF LowSpeedFallback
  <2>3. KeepsCentre(path')
    BY <1>6, <2>2, DriveKeepsCentre, AvoidanceAssumption
  <2>4. QED
    BY <1>2, <1>4, <1>6, <2>2, <2>3
<1>8. CASE PlanPath(objs, ego)
  <2>1. PICK r : r = Resolve(objs, ego)
    OBVIOUS
  <2>2. PICK c : c = SelectBest(r.cands.valid, ego, r.cands.target)
    OBVIOUS
  <2>3. TracksTheOne(r.context, objs) /\ r.cands.valid # {} /\ c.to = 0
    BY <1>2, <1>5, <1>6, <2>1, <2>2, EgoIsPosition, FarCallGoesOn DEF AvoidTypes
  <2>4. Span(c) \in Nat \ {0}
    BY <1>2, <2>1, <2>2, <2>3, ChosenFacts
  <2>5. Drive("plan", ego, 0, Span(c)) /\ avoidance' = r.context
    BY <1>8, <2>1, <2>2, <2>3 DEF PlanPath
  <2>6. KeepsCentre(path')
    BY <1>6, <2>4, <2>5, DriveKeepsCentre
  <2>7. QED
    BY <1>2, <1>4, <1>6, <2>3, <2>5, <2>6
<1>9. QED
  BY <1>2, <1>3, <1>4, <1>7, <1>8

LEMMA ApproachStep ==
  ASSUME SlowerSeesLess, AvoidTypes, Approach, [AvoidNext]_avoidVars
  PROVE  Approach'
<1>1. CASE Advance
  <2> SUFFICES ASSUME BeforeManoeuvre' PROVE Approach'
    BY DEF Approach
  <2>1. /\ path \in DrivingPaths
        /\ ego' = [s |-> ego.s + 1, d |-> NextD(path), slow |-> FALSE]
        /\ path' = [path EXCEPT !.held = 0]
        /\ UNCHANGED <<world, stranger, avoidance, calm>>
    BY <1>1, AdvanceFacts
  <2>2. PICK objs : objs = Listed(stranger, world)
    OBVIOUS
  <2>3. IsList(objs) /\ objs = Listed(stranger', world') /\ ego.s \in Int
    BY <2>1, <2>2, ListedType, EgoIsPosition DEF AvoidTypes
  <2>4. FarFromAny(objs, ego') /\ calm
    BY <2>1, <2>3 DEF BeforeManoeuvre
  <2>5. FarFromAny(objs, ego)
    <3>1. ego'.s = ego.s + 1
      BY <2>1
    <3>2. \A i \in DOMAIN objs : objs[i].s \in Int
      BY <2>3 DEF IsList, Places
    <3>3. \A i \in DOMAIN objs : objs[i].s - ego'.s > ShiftStart => objs[i].s - ego.s > ShiftStart
      BY <2>3, <3>1, <3>2, AvoidanceAssumption
    <3>4. QED
      BY <2>4, <3>3 DEF FarFromAny
  <2>6. KeepsCentre(path) /\ TracksTheOne(avoidance, objs)
    BY <2>2, <2>4, <2>5 DEF Approach, BeforeManoeuvre
  <2>7. Drives(path) /\ path.d = 0 /\ path.to = 0
    <3>1. Drives(path)
      BY <2>1, DrivesIsDriving
    <3>2. path # NoPath
      BY <3>1 DEF NoPath, Drives
    <3>3. QED
      BY <2>6, <3>1, <3>2 DEF KeepsCentre
  <2>8. NextD(path) = 0
    BY <2>1, <2>7, CentreIsNext
  <2>9. ego'.d = 0
    BY <2>1, <2>8
  <2>10. path'.d = 0 /\ path'.to = 0 /\ path'.kind = path.kind
    BY <2>1, <2>7 DEF DrivingPaths
  <2>11. KeepsCentre(path')
    BY <2>7, <2>10 DEF KeepsCentre, Drives
  <2>12. TracksTheOne(avoidance', Listed(stranger', world'))
    BY <2>1, <2>3, <2>6
  <2>13. QED
    BY <2>9, <2>11, <2>12 DEF Approach
<1>2. CASE Stay
  <2>1. /\ ego'.s = ego.s /\ ego'.d = ego.d
        /\ UNCHANGED <<world, stranger, avoidance, path, calm>>
    BY <1>2 DEF Stay, AvoidTypes
  <2>2. BeforeManoeuvre' => BeforeManoeuvre
    BY <2>1 DEF BeforeManoeuvre, FarFromAny
  <2>3. QED
    BY <2>1, <2>2 DEF Approach
<1>3. CASE Cycle
  BY <1>3, ApproachCycle
<1>4. CASE UNCHANGED avoidVars
  BY <1>4 DEF avoidVars, Approach, BeforeManoeuvre
<1>5. QED
  BY <1>1, <1>2, <1>3, <1>4 DEF AvoidNext

LEMMA ApproachStart == AvoidInit => Approach
BY DEF AvoidInit, Approach, KeepsCentre, TracksTheOne, NoContext

(***************************************************************************)
(* An obstacle in the lane does not stop the vehicle before its manoeuvre   *)
(* is due, from wherever the vehicle comes.  The candidates at the target   *)
(* speed may all be ruled out before it is registered                       *)
(* (frenet_planner.cpp:547-558, collision_checker.cpp:98, 118): a slower    *)
(* one in the centre of the lane is not, and is chosen over every one that  *)
(* leaves the centre.  Once registered, the obstacle is not looked at.      *)
(* Obstacles beside the lane, however many, never stop the vehicle either.  *)
(***************************************************************************)
NeverStopsBefore == BeforeManoeuvre => path # StopPath

THEOREM ApproachNeverStops ==
  ASSUME SlowerSeesLess
  PROVE  AvoidSpec => []NeverStopsBefore /\ [](BeforeManoeuvre => LoneObstacleNeverStops)
<1>1. AvoidTypes /\ Approach => NeverStopsBefore
  <2> SUFFICES ASSUME Approach, BeforeManoeuvre PROVE path # StopPath
    BY DEF NeverStopsBefore
  <2>1. KeepsCentre(path)
    BY DEF Approach
  <2>2. QED
    BY <2>1 DEF KeepsCentre, Drives, NoPath, StopPath
<1>2. NeverStopsBefore => (BeforeManoeuvre => LoneObstacleNeverStops)
  BY DEF NeverStopsBefore, LoneObstacleNeverStops
<1>3. AvoidTypes /\ Approach /\ [AvoidNext]_avoidVars => AvoidTypes' /\ Approach'
  BY ApproachStep, AvoidTypesStep
<1>4. AvoidInit => AvoidTypes /\ Approach
  BY ApproachStart, AvoidTypesStart
<1>5. QED
  BY <1>1, <1>2, <1>3, <1>4, PTL DEF AvoidSpec
=============================================================================
