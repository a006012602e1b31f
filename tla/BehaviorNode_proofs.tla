------------------------- MODULE BehaviorNode_proofs -------------------------
(***************************************************************************)
(* What the node guarantees for every map, every light and every message:   *)
(* what the choice of a behaviour puts first, and what the two searches over*)
(* the links may answer on any map, with forks, cycles and branches that join*)
(* again.                                                                   *)
(***************************************************************************)
EXTENDS BehaviorNode, NatFacts, FiniteSetTheorems, TLAPS

(***************************************************************************)
(* The candidates and their points, written out.                            *)
(***************************************************************************)
LEMMA CandidatesAre ==
  ASSUME NEW f
  PROVE  /\ Candidates(f) \subseteq 1..6
         /\ 1 \in Candidates(f)
         /\ 2 \in Candidates(f) <=> HasLead(f)
         /\ 5 \in Candidates(f) <=> ForceStop(f)
         /\ 6 \in Candidates(f) <=> EmergencyStop(f)
<1>1. /\ Behaviors[1] = "KEEP" /\ Behaviors[2] = "FOLLOW"
      /\ Behaviors[5] = "STOP" /\ Behaviors[6] = "EMERGENCY_STOP"
  BY DEF Behaviors
<1>2. /\ Enabled(f)["KEEP"] = TRUE
      /\ Enabled(f)["FOLLOW"] = HasLead(f)
      /\ Enabled(f)["STOP"] = ForceStop(f)
      /\ Enabled(f)["EMERGENCY_STOP"] = EmergencyStop(f)
  BY DEF Enabled
<1> QED  BY <1>1, <1>2 DEF Candidates

LEMMA PointsAre ==
  ASSUME NEW f
  PROVE  /\ Points(f, 1) = IF ~HasLead(f) THEN 70 ELSE IF LeadIsNear(f) THEN 35 ELSE 60
         /\ Points(f, 2) = IF LeadIsNear(f) THEN 85 ELSE 70
         /\ Points(f, 3) = IF LeadIsSlow(f) THEN 85 ELSE 45
         /\ Points(f, 4) = IF LeadIsSlow(f) THEN 80 ELSE 40
         /\ Points(f, 5) = 100000
         /\ Points(f, 6) = 1000000
BY DEF Points, Score, Behaviors

(***************************************************************************)
(* Some enabled candidate has the highest score, so the choice is defined.  *)
(***************************************************************************)
LEMMA SomeoneWins ==
  ASSUME NEW f
  PROVE  \E i \in Candidates(f) : Wins(f, i)
<1> DEFINE C == Candidates(f)
           p(i) == Points(f, i)
           W(i) == \A j \in C : p(i) > p(j) \/ (p(i) = p(j) /\ i <= j)
<1>1. /\ C \subseteq 1..6 /\ 1 \in C
  BY CandidatesAre
<1>2. \A i \in 1..6 : p(i) \in Int
  BY PointsAre
<1>3. SUFFICES \E i \in C : W(i)
  BY DEF Wins
<1> HIDE DEF C, p
<1> QED
  <2> DEFINE Better(i, j) == p(i) > p(j) \/ (p(i) = p(j) /\ i <= j)
             B(k, i) == i \in C /\ \A j \in C : j <= k => Better(i, j)
  <2>1. B(1, 1)
    BY <1>1, <1>2
  <2>2. ASSUME NEW k \in 1..5, NEW i \in C, B(k, i)
        PROVE  \E h \in C : B(k + 1, h)
    <3>1. CASE k + 1 \in C /\ ~Better(i, k + 1)
      <4>1. i \in 1..6 /\ p(i) \in Int /\ p(k + 1) \in Int
        BY <1>1, <1>2
      <4>2. p(k + 1) >= p(i)
        BY <3>1, <4>1
      <4>3. ASSUME NEW j \in C, j <= k + 1
            PROVE  Better(k + 1, j)
        <5>1. j \in 1..6 /\ p(j) \in Int
          BY <1>1, <1>2
        <5>2. CASE j = k + 1
          BY <5>2, <5>1
        <5>3. CASE j <= k
          <6>1. Better(i, j)
            BY <5>3, <2>2
          <6>2. p(k + 1) > p(i) \/ (p(k + 1) = p(i) /\ i > k + 1)
            BY <3>1, <4>1
          <6>3. CASE p(k + 1) > p(i)
            BY <6>1, <6>3, <4>1, <5>1
          <6>4. CASE p(k + 1) = p(i) /\ i > k + 1
            BY <6>1, <6>4, <4>1, <5>1, <5>3
          <6> QED  BY <6>2, <6>3, <6>4
        <5> QED  BY <5>1, <5>2, <5>3, <4>3
      <4> QED  BY <3>1, <4>3
    <3>2. CASE ~(k + 1 \in C /\ ~Better(i, k + 1))
      <4>1. ASSUME NEW j \in C, j <= k + 1
            PROVE  Better(i, j)
        BY <4>1, <3>2, <2>2, <1>1
      <4> QED  BY <4>1
    <3> QED  BY <3>1, <3>2
  <2> HIDE DEF B
  <2>3. PICK h2 \in C : B(2, h2)  BY <2>1, <2>2, <1>1
  <2>4. PICK h3 \in C : B(3, h3)  BY <2>3, <2>2
  <2>5. PICK h4 \in C : B(4, h4)  BY <2>4, <2>2
  <2>6. PICK h5 \in C : B(5, h5)  BY <2>5, <2>2
  <2>7. PICK h6 \in C : B(6, h6)  BY <2>6, <2>2
  <2>8. W(h6)
    BY <2>7, <1>1 DEF B
  <2> QED  BY <2>8

LEMMA Winner ==
  ASSUME NEW f
  PROVE  \E i \in Candidates(f) : Wins(f, i) /\ Selected(f) = Behaviors[i]
BY SomeoneWins DEF Selected

(***************************************************************************)
(* An emergency outbids everything else.                                    *)
(***************************************************************************)
LEMMA EmergencyWins ==
  ASSUME NEW f, EmergencyStop(f)
  PROVE  Selected(f) = "EMERGENCY_STOP"
<1>1. PICK i \in Candidates(f) : Wins(f, i) /\ Selected(f) = Behaviors[i]
  BY Winner
<1>2. i \in 1..6 /\ 6 \in Candidates(f)
  BY CandidatesAre
<1>3. Points(f, i) > 1000000 \/ (Points(f, i) = 1000000 /\ i <= 6)
  BY <1>1, <1>2, PointsAre DEF Wins
<1>4. i = 6
  BY <1>2, <1>3, PointsAre
<1> QED  BY <1>1, <1>4 DEF Behaviors

(***************************************************************************)
(* A lane change outbids KEEP and FOLLOW only if the leader is slow and not *)
(* near: without a leader KEEP has more, and near a leader FOLLOW has as    *)
(* much and comes first.                                                    *)
(***************************************************************************)
LEMMA LaneChangeWins ==
  ASSUME NEW f, Selected(f) \in {"LEFT_CHANGE", "RIGHT_CHANGE"}
  PROVE  LeadIsSlow(f) /\ ~LeadIsNear(f)
<1>1. PICK i \in Candidates(f) : Wins(f, i) /\ Selected(f) = Behaviors[i]
  BY Winner
<1>2. i \in 1..6 /\ 1 \in Candidates(f)
  BY CandidatesAre
<1>3. i \in {3, 4}
  BY <1>1, <1>2 DEF Behaviors
<1>4. Points(f, i) > Points(f, 1)
  BY <1>1, <1>2, <1>3, PointsAre DEF Wins
<1>5. HasLead(f)
  BY <1>3, <1>4, PointsAre DEF LeadIsSlow
<1>6. Points(f, i) > Points(f, 2)
  <2>1. 2 \in Candidates(f)
    BY <1>5, CandidatesAre
  <2> QED  BY <1>1, <1>3, <2>1, PointsAre DEF Wins
<1> QED  BY <1>3, <1>4, <1>5, <1>6, PointsAre

(***************************************************************************)
(* The decision published is the one for the feature published, and a       *)
(* feature with something about to be hit carries the emergency risk.       *)
(***************************************************************************)
Coherent ==
  feature # None =>
    /\ context = Decide(feature)
    /\ (\E o \in feature.front : o.ttc_below_1) => feature.emergency_risk

LEMMA FeatureSeesRisk ==
  ASSUME NEW e, NEW list, NEW gate, NEW last,
         \E o \in Feature(e, list, gate, last).front : o.ttc_below_1
  PROVE  Feature(e, list, gate, last).emergency_risk
<1> DEFINE seen == {o \in {list[i] : i \in DOMAIN list} : Valid(o)}
           front == {o \in seen : InFront(e, o, gate) /\ Gap(e, o, gate) > 0}
           lead == Lead(e, list, gate, last)
<1>1. /\ Feature(e, list, gate, last).front
           = {[id |-> o.id, type |-> o.type, gap |-> Gap(e, o, gate),
               ttc_below_1 |-> TtcBelow(e, o, Gap(e, o, gate), 1, 1)] : o \in front}
      /\ Feature(e, list, gate, last).emergency_risk = EmergencyRisk(e, front, lead, gate)
  BY DEF Feature
<1> HIDE DEF front, lead
<1>2. PICK o \in front : TtcBelow(e, o, Gap(e, o, gate), 1, 1)
  BY <1>1
<1> QED  BY <1>1, <1>2 DEF EmergencyRisk

\* Of whatever the 10 Hz loop has published last, feature and decision belong
\* together (behavior_node, runOnce).
THEOREM CoherentInvariant == Spec => []Coherent
<1>1. Init => Coherent
  BY DEF Init, Coherent
<1>2. Coherent /\ [Next]_vars => Coherent'
  <2> SUFFICES ASSUME Coherent, [Next]_vars
               PROVE  Coherent'
    OBVIOUS
  <2>1. CASE Waiting \/ UNCHANGED vars
    <3>1. UNCHANGED <<feature, context, map>>
      BY <2>1 DEF Waiting, vars
    <3> QED  BY <3>1 DEF Coherent, Decide, TargetLink, Target, DesiredSpeed, SpeedLimit, FollowSpeed
  <2>2. CASE Iterate
    <3>1. PICK e, list, gate :
            /\ feature' = Feature(e, list, gate, last_lead_vehicle_id)
            /\ context' = Decide(feature')
            /\ map' = map
      BY <2>2 DEF Iterate
    <3>2. context' = Decide(feature)'
      BY <3>1 DEF Decide, TargetLink, Target, DesiredSpeed, SpeedLimit, FollowSpeed
    <3> QED  BY <3>1, <3>2, FeatureSeesRisk DEF Coherent
  <2> QED  BY <2>1, <2>2 DEF Next
<1> QED  BY <1>1, <1>2, PTL DEF Spec

(***************************************************************************)
(* Anything ahead that would be hit within a second makes the decision an   *)
(* emergency stop, whatever the map, the leader, the lanes and the lights.  *)
(***************************************************************************)
THEOREM EmergencyIsHeeded == Spec => []ImminentCollisionStops
<1>1. Coherent => ImminentCollisionStops
  <2> SUFFICES ASSUME Coherent, Decided, \E o \in feature.front : o.ttc_below_1
               PROVE  context.selected = "EMERGENCY_STOP" /\ context.desired_speed = 0
    BY DEF ImminentCollisionStops
  <2>1. context = Decide(feature) /\ EmergencyStop(feature)
    BY DEF Coherent, Decided, EmergencyStop
  <2>2. Selected(feature) = "EMERGENCY_STOP"
    BY <2>1, EmergencyWins
  <2>3. DesiredSpeed(feature, "EMERGENCY_STOP") = 0
    BY DEF DesiredSpeed
  <2> QED  BY <2>1, <2>2, <2>3 DEF Decide
<1> QED  BY <1>1, CoherentInvariant, PTL

(***************************************************************************)
(* A lane change is only ever chosen to get past a slow leader that is not  *)
(* near.                                                                    *)
(***************************************************************************)
THEOREM LaneChangesAreForSlowLeaders == Spec => []LaneChangeIsForSlowLeader
<1>1. Coherent => LaneChangeIsForSlowLeader
  <2> SUFFICES ASSUME Coherent, Decided,
                      context.selected \in {"LEFT_CHANGE", "RIGHT_CHANGE"}
               PROVE  LeadIsSlow(feature) /\ ~LeadIsNear(feature)
    BY DEF LaneChangeIsForSlowLeader
  <2>1. context.selected = Selected(feature)
    BY DEF Coherent, Decided, Decide
  <2> QED  BY <2>1, LaneChangeWins
<1> QED  BY <1>1, CoherentInvariant, PTL

------------------------------------------------------------------------------
(***************************************************************************)
(* The searches over the links.  The queue always has a first entry: the    *)
(* least cost, and of those the least link (std::priority_queue with        *)
(* std::greater, mgeo_loader.cpp:215-217).                                  *)
(***************************************************************************)
LEMMA TopIsLeast ==
  ASSUME NEW L \in SUBSET Nat, NEW q \in SUBSET (Nat \X L), q # {}
  PROVE  /\ Top(q) \in q
         /\ \A e \in q : Top(q)[1] <= e[1]
         /\ \A e \in q : Top(q)[1] < e[1] \/ (Top(q)[1] = e[1] /\ Top(q)[2] <= e[2])
<1> DEFINE costs == {e[1] : e \in q}
<1>1. costs \in SUBSET Nat /\ costs # {}
  OBVIOUS
<1>2. PICK c \in costs : \A d \in costs : c <= d
  <2> HIDE DEF costs
  <2> QED
    BY <1>1, LeastElement
<1> DEFINE cheapest == {e \in q : e[1] = c}
           ids == {e[2] : e \in cheapest}
<1>3. ids \in SUBSET Nat /\ ids # {}
  BY <1>2
<1>4. PICK l \in ids : \A k \in ids : l <= k
  <2> HIDE DEF ids
  <2> QED
    BY <1>3, LeastElement
<1>5. PICK t \in q : t[1] = c /\ t[2] = l
  BY <1>4
<1>6. \A e \in q : t[1] < e[1] \/ (t[1] = e[1] /\ t[2] <= e[2])
  <2> SUFFICES ASSUME NEW e \in q
               PROVE  t[1] < e[1] \/ (t[1] = e[1] /\ t[2] <= e[2])
    OBVIOUS
  <2>1. e[1] \in Nat /\ e[2] \in Nat /\ c \in Nat /\ c <= e[1]
    BY <1>1, <1>2
  <2>2. CASE e[1] = c
    BY <1>4, <1>5, <2>2
  <2>3. CASE e[1] # c
    BY <1>5, <2>1, <2>3
  <2>4. QED
    BY <2>2, <2>3
<1>7. /\ Top(q) \in q
      /\ \A f \in q : Top(q)[1] < f[1] \/ (Top(q)[1] = f[1] /\ Top(q)[2] <= f[2])
  BY <1>6 DEF Top
<1>8. \A e \in q : e[1] \in Nat
  OBVIOUS
<1>9. QED
  BY <1>7, <1>8

\* What a step of either search looks at and goes on with.
TopCost(st) == Top(st.queue)[1]
TopLink(st) == Top(st.queue)[2]
EndNode(m, st) == m.to[TopLink(st)]
EndCost(m, st) == TopCost(st) + m.length[TopLink(st)]
Refused(st, max) == TopCost(st) > max \/ TopLink(st) \in st.done

LEMMA TopFacts ==
  ASSUME NEW m \in Maps, NEW st \in Searches(m), st.queue # {}
  PROVE  /\ Top(st.queue) \in st.queue
         /\ TopCost(st) \in Nat /\ TopLink(st) \in m.links
         /\ EndCost(m, st) \in Nat /\ EndNode(m, st) \in Nat
         /\ EndCost(m, st) >= TopCost(st)
         /\ \A e \in st.queue : TopCost(st) <= e[1]
         /\ Top(st.queue) = <<TopCost(st), TopLink(st)>>
<1>1. m.links \in SUBSET Nat /\ st.queue \in SUBSET (Nat \X m.links)
      /\ m.length \in [m.links -> Nat] /\ m.to \in [m.links -> Nat]
  BY MapsAssumption DEF Searches
<1>2. Top(st.queue) \in st.queue /\ \A e \in st.queue : Top(st.queue)[1] <= e[1]
  BY <1>1, TopIsLeast
<1>3. Top(st.queue) \in Nat \X m.links
  BY <1>1, <1>2
<1>4. TopCost(st) \in Nat /\ TopLink(st) \in m.links /\ Top(st.queue) = <<TopCost(st), TopLink(st)>>
  BY <1>3 DEF TopCost, TopLink
<1>5. m.length[TopLink(st)] \in Nat /\ EndNode(m, st) \in Nat
  BY <1>1, <1>4 DEF EndNode
<1>6. EndCost(m, st) \in Nat /\ EndCost(m, st) >= TopCost(st)
  BY <1>4, <1>5 DEF EndCost
<1>7. QED
  BY <1>2, <1>4, <1>5, <1>6 DEF TopCost

LEMMA EntriesFacts ==
  ASSUME NEW m \in Maps, NEW n \in Nat, NEW c \in Nat
  PROVE  /\ Entries(m, n, c) \in SUBSET (Nat \X m.links)
         /\ IsFiniteSet(Entries(m, n, c))
         /\ \A l \in Outgoing(m, n) : <<c, l>> \in Entries(m, n, c)
         /\ \A e \in Entries(m, n, c) : e[1] = c /\ e[2] \in m.links /\ m.from[e[2]] = n
         /\ Outgoing(m, n) \subseteq m.links
<1>1. Outgoing(m, n) \in SUBSET m.links
  BY DEF Outgoing
<1>2. IsFiniteSet(Outgoing(m, n))
  BY <1>1, MapsAssumption, FS_Subset
<1>3. IsFiniteSet(Entries(m, n, c))
  <2> DEFINE f == [l \in Outgoing(m, n) |-> <<c, l>>]
  <2>1. f \in Surjection(Outgoing(m, n), Entries(m, n, c))
    BY DEF Surjection, Entries
  <2> HIDE DEF f
  <2>2. QED
    BY <1>2, <2>1, FS_Surjection
<1>4. QED
  BY <1>1, <1>3 DEF Entries, Outgoing

LEMMA StepFacts ==
  ASSUME NEW m \in Maps, NEW st \in Searches(m), st.queue # {},
         NEW E \in SUBSET (Nat \X m.links)
  PROVE  /\ Popped(st) \in Searches(m) /\ Expanded(m, st, E) \in Searches(m)
         /\ Popped(st).queue = st.queue \ {Top(st.queue)} /\ Popped(st).done = st.done
         /\ Expanded(m, st, E).queue = (st.queue \ {Top(st.queue)}) \cup E
         /\ Expanded(m, st, E).done = st.done \cup {TopLink(st)}
<1>1. TopLink(st) \in m.links
  BY TopFacts
<1>2. /\ Popped(st) = [queue |-> st.queue \ {Top(st.queue)}, done |-> st.done]
      /\ Expanded(m, st, E) = [queue |-> (st.queue \ {Top(st.queue)}) \cup E,
                               done |-> st.done \cup {TopLink(st)}]
  <2>1. st = [queue |-> st.queue, done |-> st.done]
    BY DEF Searches
  <2>2. Popped(st) = [st EXCEPT !.queue = st.queue \ {Top(st.queue)}]
    BY DEF Popped
  <2>3. Popped(st) = [queue |-> st.queue \ {Top(st.queue)}, done |-> st.done]
    BY <2>1, <2>2
  <2>4. QED
    BY <2>3 DEF Expanded, TopLink
<1>3. QED
  BY <1>1, <1>2 DEF Searches

\* The state of the search after a step that does not end it.
After(m, st, max) ==
  IF Refused(st, max) THEN Popped(st)
  ELSE IF EndCost(m, st) > max THEN Expanded(m, st, {})
  ELSE Expanded(m, st, Entries(m, EndNode(m, st), EndCost(m, st)))

Arrives(m, st, to, to_s, max) ==
  /\ ~Refused(st, max) /\ EndCost(m, st) <= max
  /\ Leads(m, EndNode(m, st), EndCost(m, st), to, to_s, max)

LEMMA AfterIsSearch ==
  ASSUME NEW m \in Maps, NEW max, NEW st \in Searches(m), st.queue # {}
  PROVE  After(m, st, max) \in Searches(m)
<1>1. Entries(m, EndNode(m, st), EndCost(m, st)) \in SUBSET (Nat \X m.links)
  BY TopFacts, EntriesFacts
<1>2. QED
  BY <1>1, StepFacts DEF After

(***************************************************************************)
(* The loop of findForwardDistance() is what its definition says.           *)
(***************************************************************************)
LEMMA ForwardSearchIsLoop ==
  ASSUME NEW m \in Maps, NEW to, NEW to_s, NEW max \in Nat, NEW st \in Searches(m)
  PROVE  LET S == ForwardSearch(m, to, to_s, max)
         IN S[st] = IF st.queue = {} THEN NotFound
                    ELSE IF Arrives(m, st, to, to_s, max) THEN EndCost(m, st) + to_s
                    ELSE S[After(m, st, max)]
<1> DEFINE X == Searches(m)
           Ended(x) == x.queue = {} \/ Arrives(m, x, to, to_s, max)
           answer(x) == IF x.queue = {} THEN NotFound ELSE EndCost(m, x) + to_s
           Body(f) ==
             f = [x \in X |->
                   IF x.queue = {} THEN NotFound
                   ELSE LET top == Top(x.queue)
                            end == top[1] + m.length[top[2]]
                            node == m.to[top[2]]
                        IN IF top[1] > max \/ top[2] \in x.done THEN f[Popped(x)]
                           ELSE IF end > max THEN f[Expanded(m, x, {})]
                           ELSE IF Leads(m, node, end, to, to_s, max) THEN end + to_s
                           ELSE f[Expanded(m, x, Entries(m, node, end))]]
           Loop(f) == f = [x \in X |-> IF Ended(x) THEN answer(x) ELSE f[After(m, x, max)]]
<1>1. ForwardSearch(m, to, to_s, max) = CHOOSE f : Body(f)
  BY DEF ForwardSearch
<1>2. ASSUME NEW f PROVE Body(f) <=> Loop(f)
  <2> DEFINE b(x) == IF x.queue = {} THEN NotFound
                   ELSE LET top == Top(x.queue)
                            end == top[1] + m.length[top[2]]
                            node == m.to[top[2]]
                        IN IF top[1] > max \/ top[2] \in x.done THEN f[Popped(x)]
                           ELSE IF end > max THEN f[Expanded(m, x, {})]
                           ELSE IF Leads(m, node, end, to, to_s, max) THEN end + to_s
                           ELSE f[Expanded(m, x, Entries(m, node, end))]
             c(x) == IF Ended(x) THEN answer(x) ELSE f[After(m, x, max)]
  <2>1. ASSUME NEW x \in X PROVE b(x) = c(x)
    <3>1. CASE x.queue = {}
      BY <3>1
    <3>2. CASE x.queue # {}
      <4>1. EndCost(m, x) \in Nat
        BY <3>2, TopFacts
      <4> DEFINE end == EndCost(m, x)
                 node == EndNode(m, x)
      <4>2. b(x) = IF Refused(x, max) THEN f[Popped(x)]
                   ELSE IF end > max THEN f[Expanded(m, x, {})]
                   ELSE IF Leads(m, node, end, to, to_s, max) THEN end + to_s
                   ELSE f[Expanded(m, x, Entries(m, node, end))]
        BY <3>2 DEF Refused, TopCost, TopLink, EndCost, EndNode
      <4>3. c(x) = IF Arrives(m, x, to, to_s, max) THEN end + to_s ELSE f[After(m, x, max)]
        BY <3>2
      <4> HIDE DEF b, c, end, node
      <4>40. end <= max <=> ~(end > max)
        BY <4>1 DEF end
      <4>4. /\ Refused(x, max) => c(x) = f[Popped(x)]
            /\ ~Refused(x, max) /\ end > max => c(x) = f[Expanded(m, x, {})]
        BY <4>3, <4>40 DEF Arrives, After, end
      <4>5. ~Refused(x, max) /\ ~(end > max) =>
              c(x) = IF Leads(m, node, end, to, to_s, max) THEN end + to_s
                     ELSE f[Expanded(m, x, Entries(m, node, end))]
        BY <4>3, <4>40 DEF Arrives, After, end, node
      <4>6. QED
        BY <4>2, <4>4, <4>5
    <3>3. QED
      BY <3>1, <3>2
  <2>2. [x \in X |-> b(x)] = [x \in X |-> c(x)]
    <3> HIDE DEF b, c
    <3> QED BY <2>1
  <2>3. QED
    BY <2>2
<1>3. \E f : Loop(f)
  <2> DEFINE St == [x \in X |-> IF Ended(x) THEN x ELSE After(m, x, max)]
             Fi == {x \in X : Ended(x)}
             Ou == [x \in X |-> answer(x)]
  <2>1. PICK Step, Final, out :
          /\ Step \in [X -> X] /\ Final \in SUBSET X
          /\ \A x \in X : x \in Final <=> Ended(x)
          /\ \A x \in X : out[x] = answer(x)
          /\ \A x \in X : ~Ended(x) => Step[x] = After(m, x, max)
    <3>1. \A x \in X : Ended(x) \/ After(m, x, max) \in X
      BY AfterIsSearch
    <3> HIDE DEF Ended, answer, X
    <3>2. St \in [X -> X] /\ Fi \in SUBSET X
      BY <3>1
    <3>3. \A x \in X : x \in Fi <=> Ended(x)
      OBVIOUS
    <3>4. \A x \in X : Ou[x] = answer(x)
      OBVIOUS
    <3>5. \A x \in X : ~Ended(x) => St[x] = After(m, x, max)
      OBVIOUS
    <3> HIDE DEF St, Fi, Ou
    <3>6. QED
      BY <3>2, <3>3, <3>4, <3>5
  <2> HIDE DEF Ended, answer, X
  <2>2. PICK f : IsResult(f, X, Step, Final, out)
    BY <2>1, LoopHasResult
  <2>3. f = [x \in X |-> IF x \in Final THEN out[x] ELSE f[Step[x]]]
    BY <2>2 DEF IsResult
  <2>4. [x \in X |-> IF x \in Final THEN out[x] ELSE f[Step[x]]]
          = [x \in X |-> IF Ended(x) THEN answer(x) ELSE f[After(m, x, max)]]
    BY <2>1
  <2>5. Loop(f)
    BY <2>3, <2>4
  <2> HIDE DEF Loop
  <2>6. QED
    BY <2>5
<1>4. PICK S : S = ForwardSearch(m, to, to_s, max)
  OBVIOUS
<1>5. Loop(S)
  <2> HIDE DEF Body, Loop
  <2>1. PICK f : Body(f)
    BY <1>2, <1>3
  <2>2. Body(CHOOSE g : Body(g))
    BY <2>1, Zenon
  <2>3. QED
    BY <1>1, <1>2, <1>4, <2>2
<1>6. S[st] = IF Ended(st) THEN answer(st) ELSE S[After(m, st, max)]
  <2> HIDE DEF Ended, answer, X
  <2>1. st \in X
    BY DEF X
  <2>2. S = [x \in X |-> IF Ended(x) THEN answer(x) ELSE S[After(m, x, max)]]
    BY <1>5
  <2>3. QED
    BY <2>1, <2>2, Zenon
<1>7. QED
  BY <1>4, <1>6

Bests == [node : Nat, distance : Nat]
StopRefused(st, best, max) == Refused(st, max) \/ TopCost(st) >= best.distance

AfterStop(m, st, best, max) ==
  IF StopRefused(st, best, max) THEN <<Popped(st), best>>
  ELSE IF EndCost(m, st) > max THEN <<Expanded(m, st, {}), best>>
  ELSE IF EndNode(m, st) \in m.stops
    THEN <<Expanded(m, st, {}), [node |-> EndNode(m, st), distance |-> EndCost(m, st)]>>
  ELSE <<Expanded(m, st, Entries(m, EndNode(m, st), EndCost(m, st))), best>>

LEMMA AfterStopIsSearch ==
  ASSUME NEW m \in Maps, NEW max, NEW st \in Searches(m), NEW best \in Bests, st.queue # {}
  PROVE  AfterStop(m, st, best, max) \in Searches(m) \X Bests
<1>1. Entries(m, EndNode(m, st), EndCost(m, st)) \in SUBSET (Nat \X m.links)
  BY TopFacts, EntriesFacts
<1>2. [node |-> EndNode(m, st), distance |-> EndCost(m, st)] \in Bests
  BY TopFacts DEF Bests
<1>3. QED
  BY <1>1, <1>2, StepFacts DEF AfterStop

(***************************************************************************)
(* The loop of findNextStopLine() is what its definition says.              *)
(***************************************************************************)
LEMMA StopSearchIsLoop ==
  ASSUME NEW m \in Maps, NEW max \in Nat, NEW st \in Searches(m), NEW best \in Bests
  PROVE  LET S == StopSearch(m, max)
         IN S[<<st, best>>] = IF st.queue = {} THEN best ELSE S[AfterStop(m, st, best, max)]
<1> DEFINE X == Searches(m) \X Bests
           After2(x) == AfterStop(m, x[1], x[2], max)
           b(f, x) == LET s == x[1]
                          o == x[2]
                      IN IF s.queue = {} THEN o
                         ELSE LET top == Top(s.queue)
                                  end == top[1] + m.length[top[2]]
                                  node == m.to[top[2]]
                              IN IF top[1] > max \/ top[1] >= o.distance \/ top[2] \in s.done
                                   THEN f[<<Popped(s), o>>]
                                 ELSE IF end > max THEN f[<<Expanded(m, s, {}), o>>]
                                 ELSE IF node \in m.stops
                                   THEN f[<<Expanded(m, s, {}), [node |-> node, distance |-> end]>>]
                                 ELSE f[<<Expanded(m, s, Entries(m, node, end)), o>>]
           c(f, x) == IF x[1].queue = {} THEN x[2] ELSE f[After2(x)]
           Body(f) == f = [x \in X |-> b(f, x)]
           Loop(f) == f = [x \in X |-> c(f, x)]
<1>1. StopSearch(m, max) = CHOOSE f : Body(f)
  BY DEF StopSearch, Bests
<1>2. ASSUME NEW f PROVE Body(f) <=> Loop(f)
  <2>1. ASSUME NEW x \in X PROVE b(f, x) = c(f, x)
    <3>1. CASE x[1].queue = {}
      BY <3>1
    <3>2. CASE x[1].queue # {}
      <4> DEFINE s == x[1]
                 o == x[2]
      <4>1. b(f, x) = IF StopRefused(s, o, max) THEN f[<<Popped(s), o>>]
                      ELSE IF EndCost(m, s) > max THEN f[<<Expanded(m, s, {}), o>>]
                      ELSE IF EndNode(m, s) \in m.stops
                        THEN f[<<Expanded(m, s, {}),
                                 [node |-> EndNode(m, s), distance |-> EndCost(m, s)]>>]
                      ELSE f[<<Expanded(m, s, Entries(m, EndNode(m, s), EndCost(m, s))), o>>]
        BY <3>2, Zenon DEF StopRefused, Refused, TopCost, TopLink, EndCost, EndNode
      <4>2. c(f, x) = f[AfterStop(m, s, o, max)]
        BY <3>2
      <4> HIDE DEF b, c, s, o
      <4>3. QED
        BY <4>1, <4>2 DEF AfterStop
    <3>3. QED
      BY <3>1, <3>2
  <2>2. [x \in X |-> b(f, x)] = [x \in X |-> c(f, x)]
    <3> HIDE DEF b, c
    <3> QED BY <2>1
  <2> HIDE DEF b, c
  <2>3. QED
    BY <2>2
<1>3. \E f : Loop(f)
  <2> DEFINE Ended(x) == x[1].queue = {}
             St == [x \in X |-> IF Ended(x) THEN x ELSE After2(x)]
             Fi == {x \in X : Ended(x)}
             Ou == [x \in X |-> x[2]]
  <2>1. PICK Step, Final, out :
          /\ Step \in [X -> X] /\ Final \in SUBSET X
          /\ \A x \in X : x \in Final <=> Ended(x)
          /\ \A x \in X : out[x] = x[2]
          /\ \A x \in X : ~Ended(x) => Step[x] = After2(x)
    <3>1. \A x \in X : Ended(x) \/ After2(x) \in X
      BY AfterStopIsSearch
    <3> HIDE DEF Ended, X, After2
    <3>2. St \in [X -> X] /\ Fi \in SUBSET X
      BY <3>1
    <3>3. \A x \in X : x \in Fi <=> Ended(x)
      OBVIOUS
    <3>4. \A x \in X : Ou[x] = x[2]
      OBVIOUS
    <3>5. \A x \in X : ~Ended(x) => St[x] = After2(x)
      OBVIOUS
    <3> HIDE DEF St, Fi, Ou
    <3>6. QED
      BY <3>2, <3>3, <3>4, <3>5
  <2>2. \A f, x : c(f, x) = IF Ended(x) THEN x[2] ELSE f[After2(x)]
    OBVIOUS
  <2> HIDE DEF Ended, X, After2, c
  <2>3. PICK f : IsResult(f, X, Step, Final, out)
    BY <2>1, LoopHasResult
  <2>4. f = [x \in X |-> IF x \in Final THEN out[x] ELSE f[Step[x]]]
    BY <2>3 DEF IsResult
  <2>5. [x \in X |-> IF x \in Final THEN out[x] ELSE f[Step[x]]] = [x \in X |-> c(f, x)]
    BY <2>1, <2>2
  <2>6. Loop(f)
    BY <2>4, <2>5
  <2> HIDE DEF Loop
  <2>7. QED
    BY <2>6
<1>4. PICK S : S = StopSearch(m, max)
  OBVIOUS
<1>5. Loop(S)
  <2> HIDE DEF Body, Loop
  <2>1. PICK f : Body(f)
    BY <1>2, <1>3
  <2>2. Body(CHOOSE g : Body(g))
    BY <2>1, Zenon
  <2>3. QED
    BY <1>1, <1>2, <1>4, <2>2
<1>6. \A x \in X : S[x] = c(S, x)
  <2> HIDE DEF c, X
  <2>1. S = [x \in X |-> c(S, x)]
    BY <1>5
  <2>2. QED
    BY <2>1, Zenon
<1>7. <<st, best>> \in X
  OBVIOUS
<1>8. QED
  BY <1>4, <1>6, <1>7

------------------------------------------------------------------------------
(***************************************************************************)
(* Both searches end: a step expands a link that was not expanded before,   *)
(* or takes an entry off a finite queue and adds none.                      *)
(***************************************************************************)
Closer(a, b) ==
  \/ b.done \subseteq a.done /\ b.done # a.done
  \/ a.done = b.done /\ a.queue \subseteq b.queue /\ a.queue # b.queue

LEMMA SearchEnds ==
  ASSUME NEW m \in Maps, NEW B \in SUBSET Searches(m),
         \A st \in B : IsFiniteSet(st.queue),
         \A st \in B : \E nx \in B : Closer(nx, st)
  PROVE  B = {}
<1> DEFINE S1 == FiniteSubsetsOf(m.links)
           S2 == FiniteSubsetsOf(Nat \X m.links)
           R1 == StrictSubsetOrdering(m.links)
           R2 == StrictSubsetOrdering(Nat \X m.links)
           R == LexPairOrdering(R1, R2, S1, S2)
           Measure(st) == <<m.links \ st.done, st.queue>>
           T == {Measure(st) : st \in B}
<1>1. IsWellFoundedOn(R1, S1) /\ IsWellFoundedOn(R2, S2)
  BY FS_StrictSubsetOrderingWellFounded
<1>2. IsWellFoundedOn(R, S1 \X S2)
  <2> HIDE DEF R1, R2, S1, S2
  <2> QED
    BY <1>1, WFLexPairOrdering
<1>3. \A st \in B : /\ Measure(st)[1] = m.links \ st.done /\ Measure(st)[2] = st.queue
                    /\ m.links \ st.done \in S1 /\ st.queue \in S2
  <2> SUFFICES ASSUME NEW st \in B
               PROVE  m.links \ st.done \in S1 /\ st.queue \in S2
    OBVIOUS
  <2>1. IsFiniteSet(m.links \ st.done)
    BY MapsAssumption, FS_Subset
  <2>2. QED
    BY <2>1 DEF FiniteSubsetsOf, Searches
<1>4. ASSUME NEW a \in B, NEW b \in B, Closer(a, b)
      PROVE  <<Measure(a), Measure(b)>> \in R
  <2>1. Measure(a) \in S1 \X S2 /\ Measure(b) \in S1 \X S2
    BY <1>3
  <2>2. a.done \subseteq m.links /\ b.done \subseteq m.links
        /\ a.queue \in SUBSET (Nat \X m.links) /\ b.queue \in SUBSET (Nat \X m.links)
    BY DEF Searches
  <2>3. CASE b.done \subseteq a.done /\ b.done # a.done
    <3>1. <<m.links \ a.done, m.links \ b.done>> \in R1
      BY <2>2, <2>3 DEF StrictSubsetOrdering
    <3>2. QED
      BY <2>1, <3>1 DEF LexPairOrdering
  <2>4. CASE a.done = b.done /\ a.queue \subseteq b.queue /\ a.queue # b.queue
    <3>1. <<a.queue, b.queue>> \in R2
      BY <2>2, <2>4 DEF StrictSubsetOrdering
    <3>2. QED
      BY <2>1, <2>4, <3>1 DEF LexPairOrdering
  <2>5. QED
    BY <1>4, <2>3, <2>4 DEF Closer
<1>5. T \subseteq S1 \X S2
  <2> SUFFICES ASSUME NEW st \in B
               PROVE  Measure(st) \in S1 \X S2
    OBVIOUS
  <2> HIDE DEF S1, S2
  <2> QED
    BY <1>3
<1>6. SUFFICES ASSUME T # {} PROVE FALSE
  OBVIOUS
<1>7. PICK x \in T : \A y \in T : ~ (<<y, x>> \in R)
  <2> HIDE DEF R, S1, S2, T
  <2> QED
    BY <1>2, <1>5, <1>6, WFMin
<1>8. PICK st \in B : x = Measure(st)
  OBVIOUS
<1>9. PICK nx \in B : Closer(nx, st)
  OBVIOUS
<1>10. <<Measure(nx), x>> \in R /\ Measure(nx) \in T
  <2> HIDE DEF R
  <2> QED
    BY <1>4, <1>8, <1>9
<1>11. QED
  BY <1>7, <1>10

------------------------------------------------------------------------------
(***************************************************************************)
(* The walks a search is compared with, one more link at a time.  First the *)
(* recursion itself: walks of k links are what those of k - 1 make them.    *)
(***************************************************************************)
WaysFrom(m, to, to_s, n) == {s \in {to_s} : to \in Outgoing(m, n)}
Lengthened(m, g, n) == UNION {{w + m.length[l] : w \in g[m.to[l]]} : l \in Outgoing(m, n)}
MoreWays(m, to, to_s, g) ==
  [n \in Nat |-> WaysFrom(m, to, to_s, n) \cup Lengthened(m, g, n)]

WaysBuilt(m, to, to_s, N, W) ==
  /\ N = Cardinality(m.links)
  /\ W \in [0..N -> [Nat -> SUBSET Nat]]
  /\ \A k \in 0..N : Ways(m, to, to_s)[k] = W[k]
  /\ W[0] = [n \in Nat |-> WaysFrom(m, to, to_s, n)]
  /\ \A k \in 1..N : W[k] = MoreWays(m, to, to_s, W[k - 1])

LEMMA WaysRecur ==
  ASSUME NEW m \in Maps, NEW to, NEW to_s \in Nat
  PROVE  \E N \in Nat : \E W : WaysBuilt(m, to, to_s, N, W)
<1>1. PICK N \in Nat : N = Cardinality(m.links)
  BY MapsAssumption, FS_CardinalityType
<1> DEFINE S == [Nat -> SUBSET Nat]
           body(f, k) == [node \in Nat |->
              {s \in {to_s} : to \in Outgoing(m, node)}
              \cup (IF k = 0 THEN {}
                    ELSE UNION {{w + m.length[l] : w \in f[k - 1][m.to[l]]} :
                                  l \in Outgoing(m, node)})]
           Body(f) == f = [k \in 0..N |-> body(f, k)]
           first == [n \in Nat |-> WaysFrom(m, to, to_s, n)]
<1>2. Ways(m, to, to_s) = CHOOSE f : Body(f)
  BY <1>1 DEF Ways
<1>3. ASSUME NEW f PROVE /\ body(f, 0) = first
                         /\ \A k \in 1..N : body(f, k) = MoreWays(m, to, to_s, f[k - 1])
  BY DEF WaysFrom, MoreWays, Lengthened
<1>4. ASSUME NEW g \in S PROVE MoreWays(m, to, to_s, g) \in S
  <2>1. ASSUME NEW n \in Nat PROVE Lengthened(m, g, n) \in SUBSET Nat
    <3>1. ASSUME NEW l \in Outgoing(m, n), NEW w \in g[m.to[l]] PROVE w + m.length[l] \in Nat
      BY MapsAssumption DEF Outgoing
    <3>2. QED
      BY <3>1 DEF Lengthened
  <2>2. ASSUME NEW n \in Nat PROVE WaysFrom(m, to, to_s, n) \in SUBSET Nat
    BY DEF WaysFrom
  <2>3. QED
    BY <2>1, <2>2 DEF MoreWays
<1>5. first \in S
  BY DEF WaysFrom
<1>6. PICK F : F = [k \in 1..N |-> [g \in S |-> MoreWays(m, to, to_s, g)]]
  OBVIOUS
<1>7. F \in [1..N -> [S -> S]] /\ \A k \in 1..N, g \in S : F[k][g] = MoreWays(m, to, to_s, g)
  <2> HIDE DEF S
  <2> QED BY <1>4, <1>6
<1> HIDE DEF S, body, first
<1>8. PICK W : W \in [0..N -> S] /\ Recurs(W, first, N, F)
  BY <1>1, <1>5, <1>7, RecursionHasSolution
<1>9. W[0] = first /\ \A k \in 1..N : W[k] = MoreWays(m, to, to_s, W[k - 1])
  <2>1. \A k \in 1..N : k - 1 \in 0..N /\ k \in 0..N
    BY <1>1
  <2>2. QED
    BY <1>7, <1>8, <2>1 DEF Recurs
<1>10. Body(W)
  <2>1. \A k \in 0..N : W[k] = body(W, k)
    <3>1. \A k \in 0..N : k = 0 \/ k \in 1..N
      BY <1>1
    <3>2. QED
      BY <1>3, <1>9, <3>1
  <2>2. W = [k \in 0..N |-> W[k]]
    BY <1>8
  <2>3. QED
    BY <2>1, <2>2
<1>11. PICK V : V = Ways(m, to, to_s) /\ Body(V)
  <2> HIDE DEF Body
  <2>1. Body(CHOOSE f : Body(f))
    BY <1>10, Zenon
  <2>2. QED
    BY <1>2, <2>1
<1>12. \A k \in 0..N : V[k] = W[k]
  <2>1. \A k \in 0..N : V[k] = body(V, k)
    BY <1>11
  <2>2. V[0] = W[0]
    BY <1>1, <1>3, <1>9, <2>1
  <2>3. \A k \in 1..N : V[k - 1] = W[k - 1] => V[k] = W[k]
    <3>1. \A k \in 1..N : k \in 0..N
      BY <1>1
    <3>2. QED
      BY <1>3, <1>9, <2>1, <3>1
  <2> HIDE DEF Body
  <2>4. QED
    BY <1>1, <2>2, <2>3, StepsAlike
<1>13. WaysBuilt(m, to, to_s, N, W)
  BY <1>1, <1>8, <1>9, <1>11, <1>12 DEF S, first, WaysBuilt
<1>14. QED
  BY <1>13
Here(n) == [node |-> n, distance |-> 0]
Shifted(w, c) == [w EXCEPT !.distance = @ + c]

LEMMA ShiftedFacts ==
  ASSUME NEW w \in Bests, NEW c \in Nat, NEW n \in Nat
  PROVE  /\ Shifted(w, c) \in Bests
         /\ Shifted(w, c).distance = w.distance + c /\ Shifted(w, c).node = w.node
         /\ w.distance \in Nat /\ w.node \in Nat
         /\ \A d \in Nat : Shifted(Shifted(w, c), d) = Shifted(w, d + c)
         /\ Here(n) \in Bests
         /\ Shifted(Here(n), c) = [node |-> n, distance |-> c]
<1>1. w = [node |-> w.node, distance |-> w.distance] /\ w.node \in Nat /\ w.distance \in Nat
  BY DEF Bests
<1>2. ASSUME NEW a, NEW b, NEW x
      PROVE  Shifted([node |-> a, distance |-> b], x) = [node |-> a, distance |-> b + x]
  BY DEF Shifted
<1>3. Shifted(w, c) = [node |-> w.node, distance |-> w.distance + c]
  BY <1>1, <1>2
<1>4. ASSUME NEW d \in Nat
      PROVE  Shifted(Shifted(w, c), d) = Shifted(w, d + c)
  <2>1. Shifted(Shifted(w, c), d) = [node |-> w.node, distance |-> (w.distance + c) + d]
    BY <1>2, <1>3
  <2>2. Shifted(w, d + c) = [node |-> w.node, distance |-> w.distance + (d + c)]
    BY <1>1, <1>2
  <2>3. (w.distance + c) + d = w.distance + (d + c)
    BY <1>1
  <2>4. QED
    BY <2>1, <2>2, <2>3
<1>5. /\ Shifted(w, c) \in Bests /\ Shifted(w, c).distance = w.distance + c
      /\ Shifted(w, c).node = w.node
  BY <1>1, <1>3 DEF Bests
<1>6. Here(n) \in Bests
  BY DEF Here, Bests
<1>7. Shifted(Here(n), c) = [node |-> n, distance |-> c]
  <2>1. Shifted(Here(n), c) = [node |-> n, distance |-> 0 + c]
    BY <1>2 DEF Here
  <2>2. 0 + c = c
    OBVIOUS
  <2>3. QED
    BY <2>1, <2>2
<1>8. QED
  BY <1>1, <1>4, <1>5, <1>6, <1>7

StopAt(m, n) == IF n \in m.stops THEN {Here(n)} ELSE {}
Farther(m, g, n) == UNION {{Shifted(w, m.length[l]) : w \in g[m.to[l]]} : l \in Outgoing(m, n)}
MoreStops(m, g) ==
  [n \in Nat |-> IF n \in m.stops THEN StopAt(m, n) ELSE Farther(m, g, n)]

StopsBuilt(m, N, W) ==
  /\ N = Cardinality(m.links)
  /\ W \in [0..N -> [Nat -> SUBSET Bests]]
  /\ \A k \in 0..N : StopsAhead(m)[k] = W[k]
  /\ W[0] = [n \in Nat |-> StopAt(m, n)]
  /\ \A k \in 1..N : W[k] = MoreStops(m, W[k - 1])

LEMMA StopsRecur ==
  ASSUME NEW m \in Maps
  PROVE  \E N \in Nat : \E W : StopsBuilt(m, N, W)
<1>1. PICK N \in Nat : N = Cardinality(m.links)
  BY MapsAssumption, FS_CardinalityType
<1> DEFINE S == [Nat -> SUBSET Bests]
           body(f, k) == [node \in Nat |->
              IF node \in m.stops THEN {[node |-> node, distance |-> 0]}
              ELSE IF k = 0 THEN {}
              ELSE UNION {{[w EXCEPT !.distance = @ + m.length[l]] : w \in f[k - 1][m.to[l]]} :
                            l \in Outgoing(m, node)}]
           Body(f) == f = [k \in 0..N |-> body(f, k)]
           first == [n \in Nat |-> StopAt(m, n)]
<1>2. StopsAhead(m) = CHOOSE f : Body(f)
  BY <1>1 DEF StopsAhead
<1>3. ASSUME NEW f PROVE /\ body(f, 0) = first
                         /\ \A k \in 1..N : body(f, k) = MoreStops(m, f[k - 1])
  BY DEF StopAt, MoreStops, Farther, Shifted, Here
<1>4. ASSUME NEW g \in S PROVE MoreStops(m, g) \in S
  <2>1. ASSUME NEW n \in Nat PROVE Farther(m, g, n) \in SUBSET Bests
    <3>1. ASSUME NEW l \in Outgoing(m, n), NEW w \in g[m.to[l]]
          PROVE  Shifted(w, m.length[l]) \in Bests
      BY MapsAssumption, ShiftedFacts DEF Outgoing
    <3>2. QED
      BY <3>1 DEF Farther
  <2>2. ASSUME NEW n \in Nat PROVE StopAt(m, n) \in SUBSET Bests
    BY DEF StopAt, Bests, Here
  <2>3. QED
    BY <2>1, <2>2 DEF MoreStops
<1>5. first \in S
  BY DEF StopAt, Bests, Here
<1>6. PICK F : F = [k \in 1..N |-> [g \in S |-> MoreStops(m, g)]]
  OBVIOUS
<1>7. F \in [1..N -> [S -> S]] /\ \A k \in 1..N, g \in S : F[k][g] = MoreStops(m, g)
  <2> HIDE DEF S
  <2> QED BY <1>4, <1>6
<1> HIDE DEF S, body, first
<1>8. PICK W : W \in [0..N -> S] /\ Recurs(W, first, N, F)
  BY <1>1, <1>5, <1>7, RecursionHasSolution
<1>9. W[0] = first /\ \A k \in 1..N : W[k] = MoreStops(m, W[k - 1])
  <2>1. \A k \in 1..N : k - 1 \in 0..N /\ k \in 0..N
    BY <1>1
  <2>2. QED
    BY <1>7, <1>8, <2>1 DEF Recurs
<1>10. Body(W)
  <2>1. \A k \in 0..N : W[k] = body(W, k)
    <3>1. \A k \in 0..N : k = 0 \/ k \in 1..N
      BY <1>1
    <3>2. QED
      BY <1>3, <1>9, <3>1
  <2>2. W = [k \in 0..N |-> W[k]]
    BY <1>8
  <2>3. QED
    BY <2>1, <2>2
<1>11. PICK V : V = StopsAhead(m) /\ Body(V)
  <2> HIDE DEF Body
  <2>1. Body(CHOOSE f : Body(f))
    BY <1>10, Zenon
  <2>2. QED
    BY <1>2, <2>1
<1>12. \A k \in 0..N : V[k] = W[k]
  <2>1. \A k \in 0..N : V[k] = body(V, k)
    BY <1>11
  <2>2. V[0] = W[0]
    BY <1>1, <1>3, <1>9, <2>1
  <2>3. \A k \in 1..N : V[k - 1] = W[k - 1] => V[k] = W[k]
    <3>1. \A k \in 1..N : k \in 0..N
      BY <1>1
    <3>2. QED
      BY <1>3, <1>9, <2>1, <3>1
  <2> HIDE DEF Body
  <2>4. QED
    BY <1>1, <2>2, <2>3, StepsAlike
<1>13. StopsBuilt(m, N, W)
  BY <1>1, <1>8, <1>9, <1>11, <1>12 DEF S, first, StopsBuilt
<1>14. QED
  BY <1>13

(***************************************************************************)
(* Why what a search finds is a walk.  An entry of the queue either repeats *)
(* an expanded link or stands for a walk that still has as many links to go *)
(* as there are links not yet expanded: its end is a member of G, a set of  *)
(* <<links to go, node, cost>> that contains the end of every link beyond   *)
(* its members, up to the nodes where a search stays.                       *)
(***************************************************************************)
LeadsOn(G, m, stay) ==
  /\ G \subseteq Nat \X Nat \X Nat
  /\ \A k \in Nat, n \in Nat, c \in Nat : \A l \in Outgoing(m, n) :
       <<k + 1, n, c>> \in G /\ n \notin stay => <<k, m.to[l], c + m.length[l]>> \in G

EnoughToGo(G, m, st, node, cost) ==
  \E k \in Nat : /\ k + Cardinality(st.done) + 1 >= Cardinality(m.links)
                 /\ <<k, node, cost>> \in G

OnWalks(G, m, st) ==
  \A e \in st.queue : \/ e[2] \in st.done
                      \/ EnoughToGo(G, m, st, m.to[e[2]], e[1] + m.length[e[2]])

LEMMA StartIsOnWalks ==
  ASSUME NEW m \in Maps, NEW stay, NEW G, LeadsOn(G, m, stay),
         NEW n \in Nat, NEW c \in Nat, n \notin stay,
         <<Cardinality(m.links), n, c>> \in G
  PROVE  OnWalks(G, m, [queue |-> Entries(m, n, c), done |-> {}])
<1>1. PICK N \in Nat : N = Cardinality(m.links)
  BY MapsAssumption, FS_CardinalityType
<1> DEFINE st == [queue |-> Entries(m, n, c), done |-> {}]
<1>2. SUFFICES ASSUME NEW l \in Outgoing(m, n)
               PROVE  EnoughToGo(G, m, st, m.to[l], c + m.length[l])
  BY DEF OnWalks, Entries
<1>3. N # 0
  <2>1. m.links # {}
    BY DEF Outgoing
  <2>2. QED
    BY <1>1, <2>1, MapsAssumption, FS_EmptySet
<1>4. <<N - 1, m.to[l], c + m.length[l]>> \in G
  <2>1. N - 1 \in Nat /\ N - 1 + 1 = N
    BY <1>3
  <2>2. QED
    BY <1>1, <2>1 DEF LeadsOn
<1>5. Cardinality(st.done) = 0
  BY FS_EmptySet
<1>6. QED
  BY <1>1, <1>3, <1>4, <1>5 DEF EnoughToGo

LEMMA StepIsOnWalks ==
  ASSUME NEW m \in Maps, NEW stay, NEW G, LeadsOn(G, m, stay),
         NEW st \in Searches(m), st.queue # {}, OnWalks(G, m, st)
  PROVE  /\ OnWalks(G, m, Popped(st))
         /\ OnWalks(G, m, Expanded(m, st, {}))
         /\ TopLink(st) \notin st.done => EnoughToGo(G, m, st, EndNode(m, st), EndCost(m, st))
         /\ TopLink(st) \notin st.done /\ EndNode(m, st) \notin stay =>
              OnWalks(G, m, Expanded(m, st, Entries(m, EndNode(m, st), EndCost(m, st))))
<1> DEFINE more == Entries(m, EndNode(m, st), EndCost(m, st))
<1>1. PICK N \in Nat : N = Cardinality(m.links)
  BY MapsAssumption, FS_CardinalityType
<1>2. /\ EndNode(m, st) \in Nat /\ EndCost(m, st) \in Nat /\ TopLink(st) \in m.links
      /\ Top(st.queue) \in st.queue /\ Top(st.queue) = <<TopCost(st), TopLink(st)>>
  BY TopFacts
<1>3. more \in SUBSET (Nat \X m.links) /\ {} \in SUBSET (Nat \X m.links)
  BY <1>2, EntriesFacts
<1>4. PICK D \in Nat : D = Cardinality(st.done) /\ IsFiniteSet(st.done)
  BY MapsAssumption, FS_Subset, FS_CardinalityType DEF Searches
<1> DEFINE done == st.done \cup {TopLink(st)}
<1>50. /\ IsFiniteSet(done)
       /\ Cardinality(done) = IF TopLink(st) \in st.done THEN D ELSE D + 1
  <2>1. IsFiniteSet(st.done)
    BY <1>4
  <2>2. /\ IsFiniteSet(done)
        /\ Cardinality(done) = IF TopLink(st) \in st.done THEN Cardinality(st.done)
                               ELSE Cardinality(st.done) + 1
    BY <2>1, FS_AddElement, Zenon
  <2>3. QED
    BY <1>4, <2>2
<1> HIDE DEF done
<1>5. TopLink(st) \notin st.done => EnoughToGo(G, m, st, EndNode(m, st), EndCost(m, st))
  BY <1>2 DEF OnWalks, EndNode, EndCost
<1>6. OnWalks(G, m, Popped(st))
  BY <1>3, StepFacts DEF OnWalks, EnoughToGo
<1>7. ASSUME NEW E \in SUBSET (Nat \X m.links), NEW e \in st.queue, e # Top(st.queue),
             NEW nx, nx = Expanded(m, st, E)
      PROVE  e[2] \in nx.done \/ EnoughToGo(G, m, nx, m.to[e[2]], e[1] + m.length[e[2]])
  <2>1. nx.done = st.done \cup {TopLink(st)}
    BY <1>7, StepFacts
  <2>2. Cardinality(nx.done) \in Nat /\ Cardinality(nx.done) >= D
    BY <1>4, <1>50, <2>1 DEF done
  <2>3. CASE e[2] \in st.done
    BY <2>1, <2>3
  <2>4. CASE EnoughToGo(G, m, st, m.to[e[2]], e[1] + m.length[e[2]])
    <3>1. PICK k \in Nat : k + D + 1 >= N /\ <<k, m.to[e[2]], e[1] + m.length[e[2]]>> \in G
      BY <1>1, <1>4, <2>4 DEF EnoughToGo
    <3>2. k + Cardinality(nx.done) + 1 >= N
      BY <1>1, <1>4, <2>2, <3>1
    <3>3. QED
      BY <1>1, <3>1, <3>2 DEF EnoughToGo
  <2>5. QED
    BY <2>3, <2>4 DEF OnWalks
<1>8. OnWalks(G, m, Expanded(m, st, {}))
  <2>1. Expanded(m, st, {}).queue = st.queue \ {Top(st.queue)}
    BY <1>3, StepFacts
  <2>2. QED
    BY <1>3, <1>7, <2>1 DEF OnWalks
<1>9. ASSUME TopLink(st) \notin st.done, EndNode(m, st) \notin stay
      PROVE  OnWalks(G, m, Expanded(m, st, more))
  <2>1. PICK nx : nx = Expanded(m, st, more)
    OBVIOUS
  <2>2. /\ nx.queue = (st.queue \ {Top(st.queue)}) \cup more
        /\ nx.done = st.done \cup {TopLink(st)}
    BY <1>3, <2>1, StepFacts
  <2>3. ASSUME NEW l \in Outgoing(m, EndNode(m, st)), l \notin nx.done
        PROVE  EnoughToGo(G, m, nx, m.to[l], EndCost(m, st) + m.length[l])
    <3>1. PICK k \in Nat : k + D + 1 >= N /\ <<k, EndNode(m, st), EndCost(m, st)>> \in G
      BY <1>1, <1>4, <1>5, <1>9 DEF EnoughToGo
    <3>2. Cardinality(nx.done) = D + 1 /\ IsFiniteSet(nx.done)
      BY <1>50, <1>9, <2>2 DEF done
    <3>3. D + 1 < N
      <4>1. nx.done \in SUBSET m.links /\ l \in m.links /\ IsFiniteSet(m.links)
        BY <1>2, <2>2, MapsAssumption DEF Searches, Outgoing
      <4>2. nx.done # m.links
        BY <2>3, <4>1
      <4>3. QED
        BY <1>1, <1>4, <3>2, <4>1, <4>2, FS_Subset
    <3>4. k - 1 \in Nat /\ (k - 1) + 1 = k /\ (k - 1) + (D + 1) + 1 >= N
      BY <1>1, <1>4, <3>1, <3>3
    <3>5. <<k - 1, m.to[l], EndCost(m, st) + m.length[l]>> \in G
      BY <1>2, <1>9, <3>1, <3>4 DEF LeadsOn
    <3>6. QED
      BY <1>1, <3>2, <3>4, <3>5 DEF EnoughToGo
  <2>4. ASSUME NEW e \in nx.queue
        PROVE  e[2] \in nx.done \/ EnoughToGo(G, m, nx, m.to[e[2]], e[1] + m.length[e[2]])
    <3>1. CASE e \in more
      BY <2>3, <3>1 DEF Entries
    <3>2. CASE e \in st.queue /\ e # Top(st.queue)
      BY <1>3, <1>7, <2>1, <3>2
    <3>3. QED
      BY <2>2, <3>1, <3>2
  <2>5. QED
    BY <2>1, <2>4 DEF OnWalks
<1>10. QED
  BY <1>5, <1>6, <1>8, <1>9

(***************************************************************************)
(* Why a search that finds nothing has missed nothing.  d is the cost at    *)
(* which each link was expanded.  From a place that was looked at, in vain  *)
(* (it is in Q), every link out of it is in the queue or was expanded at no *)
(* higher cost; so are the places the expanded links end at, as far as the  *)
(* lookahead goes.                                                          *)
(***************************************************************************)
Covered(Q, m, st, d, n, c) ==
  /\ <<n, c>> \in Q
  /\ \A l \in Outgoing(m, n) : <<c, l>> \in st.queue \/ (l \in st.done /\ d[l] <= c)

NothingMissed(Q, m, st, n0, c0, max, d) ==
  /\ d \in [m.links -> Nat]
  /\ Covered(Q, m, st, d, n0, c0)
  /\ \A l \in st.done :
       /\ \A e \in st.queue : d[l] <= e[1]
       /\ d[l] + m.length[l] <= max => Covered(Q, m, st, d, m.to[l], d[l] + m.length[l])
  /\ \A e \in st.queue : e[1] <= max

LEMMA StartMissesNothing ==
  ASSUME NEW m \in Maps, NEW Q, NEW n \in Nat, NEW c \in Nat, NEW max \in Nat,
         <<n, c>> \in Q, c <= max
  PROVE  NothingMissed(Q, m, [queue |-> Entries(m, n, c), done |-> {}], n, c, max,
                       [l \in m.links |-> 0])
BY EntriesFacts DEF NothingMissed, Covered

LEMMA DroppingMissesNothing ==
  ASSUME NEW m \in Maps, NEW Q, NEW st \in Searches(m), st.queue # {},
         NEW n \in Nat, NEW c \in Nat, NEW max \in Nat, NEW d,
         NothingMissed(Q, m, st, n, c, max, d)
  PROVE  /\ TopCost(st) <= max
         /\ TopLink(st) \in st.done => NothingMissed(Q, m, Popped(st), n, c, max, d)
<1>1. /\ Top(st.queue) \in st.queue /\ Top(st.queue) = <<TopCost(st), TopLink(st)>>
      /\ TopCost(st) \in Nat /\ \A e \in st.queue : TopCost(st) <= e[1]
      /\ TopLink(st) \in m.links
  BY TopFacts
<1>2. TopCost(st) <= max
  BY <1>1 DEF NothingMissed, TopCost
<1>3. ASSUME TopLink(st) \in st.done
      PROVE  NothingMissed(Q, m, Popped(st), n, c, max, d)
  <2>1. {} \in SUBSET (Nat \X m.links)
    OBVIOUS
  <2>2. Popped(st).queue = st.queue \ {Top(st.queue)} /\ Popped(st).done = st.done
    BY <2>1, StepFacts
  <2>3. d[TopLink(st)] <= TopCost(st)
    BY <1>1, <1>3 DEF NothingMissed, TopCost
  <2>4. ASSUME NEW p, NEW x, Covered(Q, m, st, d, p, x)
        PROVE  Covered(Q, m, Popped(st), d, p, x)
    BY <1>1, <1>3, <2>2, <2>3, <2>4 DEF Covered
  <2>5. QED
    BY <2>2, <2>4 DEF NothingMissed
<1>4. QED
  BY <1>2, <1>3

LEMMA ExpandingMissesNothing ==
  ASSUME NEW m \in Maps, NEW Q, NEW st \in Searches(m), st.queue # {},
         NEW n \in Nat, NEW c \in Nat, NEW max \in Nat, NEW d,
         NothingMissed(Q, m, st, n, c, max, d),
         TopLink(st) \notin st.done,
         NEW E \in SUBSET (Nat \X m.links),
         \/ EndCost(m, st) > max /\ E = {}
         \/ /\ EndCost(m, st) <= max /\ <<EndNode(m, st), EndCost(m, st)>> \in Q
            /\ E = Entries(m, EndNode(m, st), EndCost(m, st))
  PROVE  NothingMissed(Q, m, Expanded(m, st, E), n, c, max,
                       [d EXCEPT ![TopLink(st)] = TopCost(st)])
<1> DEFINE top == TopLink(st)
           at == TopCost(st)
<1>1. PICK nx, b : nx = Expanded(m, st, E) /\ b = [d EXCEPT ![top] = at]
  OBVIOUS
<1>2. /\ Top(st.queue) \in st.queue /\ Top(st.queue) = <<at, top>>
      /\ at \in Nat /\ \A e \in st.queue : at <= e[1]
      /\ top \in m.links /\ EndCost(m, st) \in Nat /\ at <= EndCost(m, st)
      /\ EndNode(m, st) \in Nat
  BY TopFacts
<1>3. /\ nx.queue = (st.queue \ {Top(st.queue)}) \cup E
      /\ nx.done = st.done \cup {top}
  BY <1>1, StepFacts
<1>4. /\ d \in [m.links -> Nat] /\ b \in [m.links -> Nat]
      /\ b[top] = at /\ \A l \in st.done : b[l] = d[l]
      /\ st.done \in SUBSET m.links
  <2>1. d \in [m.links -> Nat] /\ st.done \in SUBSET m.links
    BY DEF NothingMissed, Searches
  <2>2. QED
    BY <1>1, <1>2, <2>1
<1>5. \A e \in E : e[1] = EndCost(m, st) /\ EndCost(m, st) <= max
  BY <1>2, EntriesFacts
<1>6. ASSUME NEW p, NEW x \in Nat, Covered(Q, m, st, d, p, x)
      PROVE  Covered(Q, m, nx, b, p, x)
  <2> SUFFICES ASSUME NEW l \in Outgoing(m, p)
               PROVE  <<x, l>> \in nx.queue \/ (l \in nx.done /\ b[l] <= x)
    BY <1>6 DEF Covered
  <2>1. CASE <<x, l>> = <<at, top>>
    BY <1>2, <1>3, <1>4, <2>1
  <2>2. CASE <<x, l>> \in st.queue /\ <<x, l>> # <<at, top>>
    BY <1>2, <1>3, <2>2
  <2>3. CASE l \in st.done /\ d[l] <= x
    BY <1>3, <1>4, <2>3
  <2>4. QED
    BY <1>6, <2>1, <2>2, <2>3 DEF Covered
<1>7. ASSUME NEW l \in nx.done, NEW e \in nx.queue
      PROVE  b[l] <= e[1]
  <2>1. e[1] \in Nat /\ b[l] \in Nat
    <3>1. nx.queue \in SUBSET (Nat \X m.links) /\ nx.done \in SUBSET m.links
      BY <1>2, <1>3, <1>4 DEF Searches
    <3>2. QED
      BY <1>4, <3>1
  <2>2. b[l] <= at
    <3>1. CASE l = top
      BY <1>2, <1>4, <3>1
    <3>2. CASE l \in st.done
      BY <1>2, <1>4, <3>2 DEF NothingMissed, TopCost
    <3>3. QED
      BY <1>3, <3>1, <3>2
  <2>3. at <= e[1]
    BY <1>2, <1>3, <1>5
  <2>4. QED
    BY <1>2, <2>1, <2>2, <2>3
<1>8. ASSUME NEW l \in nx.done, b[l] + m.length[l] <= max
      PROVE  Covered(Q, m, nx, b, m.to[l], b[l] + m.length[l])
  <2>1. CASE l = top
    <3>1. b[l] + m.length[l] = EndCost(m, st) /\ m.to[l] = EndNode(m, st)
      BY <1>4, <2>1 DEF EndCost, EndNode
    <3>2. EndCost(m, st) <= max /\ <<EndNode(m, st), EndCost(m, st)>> \in Q
          /\ E = Entries(m, EndNode(m, st), EndCost(m, st))
      BY <1>2, <1>8, <3>1
    <3>3. \A k \in Outgoing(m, EndNode(m, st)) : <<EndCost(m, st), k>> \in nx.queue
      BY <1>2, <1>3, <3>2, EntriesFacts
    <3>4. QED
      BY <3>1, <3>2, <3>3 DEF Covered
  <2>2. CASE l \in st.done
    <3>1. Covered(Q, m, st, d, m.to[l], d[l] + m.length[l]) /\ b[l] = d[l]
      BY <1>4, <1>8, <2>2 DEF NothingMissed
    <3>2. d[l] + m.length[l] \in Nat
      BY <1>4, <2>2, MapsAssumption
    <3>3. QED
      BY <1>6, <3>1, <3>2
  <2>3. QED
    BY <1>3, <2>1, <2>2
<1>9. \A e \in nx.queue : e[1] <= max
  BY <1>3, <1>5 DEF NothingMissed
<1>10. Covered(Q, m, nx, b, n, c)
  BY <1>6 DEF NothingMissed
<1>11. QED
  BY <1>1, <1>4, <1>7, <1>8, <1>9, <1>10 DEF NothingMissed

\* D[k][n]: what can be reached by k links from n.  It is out of the question
\* from a place in Q, or lies beyond a link.
BeyondLinks(D, N, m, Q, max) ==
  \A k \in 0..N, n \in Nat : \A w \in D[k][n] :
    /\ w \in Nat
    /\ \/ \A c \in Nat : c + w <= max => <<n, c>> \notin Q
       \/ /\ k >= 1
          /\ \E l \in Outgoing(m, n) : \E v \in D[k - 1][m.to[l]] : w = v + m.length[l]

LEMMA NothingIsNear ==
  ASSUME NEW m \in Maps, NEW Q, NEW st \in Searches(m), st.queue = {},
         NEW n0 \in Nat, NEW c0 \in Nat, NEW max \in Nat, NEW d, c0 <= max,
         NothingMissed(Q, m, st, n0, c0, max, d),
         NEW N \in Nat, NEW D, BeyondLinks(D, N, m, Q, max)
  PROVE  \A k \in 0..N : \A w \in D[k][n0] : c0 + w > max
<1> DEFINE Near(k) == \E n \in Nat, c \in 0..max : \E w \in D[k][n] :
                        Covered(Q, m, st, d, n, c) /\ ~(c + w > max)
           T == {k \in 0..N : Near(k)}
<1>1. SUFFICES T = {}
  BY DEF NothingMissed
<1>2. SUFFICES ASSUME T # {} PROVE FALSE
  OBVIOUS
<1>3. PICK k \in T : \A j \in T : k <= j
  <2>1. T \in SUBSET Nat
    OBVIOUS
  <2> HIDE DEF T
  <2>2. QED
    BY <1>2, <2>1, LeastElement
<1>4. PICK n \in Nat, c \in 0..max : \E w \in D[k][n] :
        Covered(Q, m, st, d, n, c) /\ ~(c + w > max)
  OBVIOUS
<1>5. PICK w \in D[k][n] : Covered(Q, m, st, d, n, c) /\ ~(c + w > max)
  BY <1>4
<1>6. k \in 0..N /\ w \in Nat /\ c \in Nat
  BY DEF BeyondLinks
<1>7. c + w <= max
  BY <1>5, <1>6
<1>8. <<n, c>> \in Q
  BY <1>5 DEF Covered
<1>9. k >= 1 /\ \E l \in Outgoing(m, n) : \E v \in D[k - 1][m.to[l]] : w = v + m.length[l]
  BY <1>6, <1>7, <1>8 DEF BeyondLinks
<1>10. PICK l \in Outgoing(m, n) : \E v \in D[k - 1][m.to[l]] : w = v + m.length[l]
  BY <1>9
<1>11. PICK v \in D[k - 1][m.to[l]] : w = v + m.length[l]
  BY <1>10
<1>12. l \in m.links /\ m.to[l] \in Nat /\ m.length[l] \in Nat /\ d[l] \in Nat
  BY MapsAssumption DEF Outgoing, NothingMissed
<1>13. k - 1 \in 0..N /\ v \in Nat
  <2>1. k - 1 \in 0..N
    BY <1>6, <1>9
  <2>2. QED
    BY <1>12, <2>1 DEF BeyondLinks
<1>14. l \in st.done /\ d[l] <= c
  BY <1>5 DEF Covered
<1>15. d[l] + m.length[l] \in 0..max /\ ~((d[l] + m.length[l]) + v > max)
  BY <1>6, <1>7, <1>11, <1>12, <1>13, <1>14
<1>16. Covered(Q, m, st, d, m.to[l], d[l] + m.length[l])
  BY <1>14, <1>15 DEF NothingMissed
<1>17. k - 1 \in T
  BY <1>12, <1>13, <1>15, <1>16
<1>18. QED
  BY <1>3, <1>6, <1>17

LEMMA StepIsCloser ==
  ASSUME NEW m \in Maps, NEW st \in Searches(m), st.queue # {}, IsFiniteSet(st.queue),
         NEW E \in SUBSET (Nat \X m.links), IsFiniteSet(E)
  PROVE  /\ IsFiniteSet(Popped(st).queue) /\ Closer(Popped(st), st)
         /\ IsFiniteSet(Expanded(m, st, E).queue)
         /\ TopLink(st) \notin st.done => Closer(Expanded(m, st, E), st)
<1>1. /\ Popped(st).queue = st.queue \ {Top(st.queue)} /\ Popped(st).done = st.done
      /\ Expanded(m, st, E).queue = (st.queue \ {Top(st.queue)}) \cup E
      /\ Expanded(m, st, E).done = st.done \cup {TopLink(st)}
  BY StepFacts
<1>2. Top(st.queue) \in st.queue
  BY TopFacts
<1>3. IsFiniteSet(st.queue \ {Top(st.queue)})
  BY FS_Subset
<1>4. IsFiniteSet((st.queue \ {Top(st.queue)}) \cup E)
  BY <1>3, FS_Union
<1>5. QED
  BY <1>1, <1>2, <1>3, <1>4 DEF Closer

\* W holds, for every k <= N, the lengths of the walks of k links to the goal.
AreWays(m, to, to_s, N, W) ==
  /\ N = Cardinality(m.links)
  /\ \A k \in 0..N : Ways(m, to, to_s)[k] = W[k]
  /\ \A k \in 0..N, n \in Nat :
       /\ W[k][n] \in SUBSET Nat
       /\ to \in Outgoing(m, n) => to_s \in W[k][n]
       /\ \A w \in W[k][n] :
            \/ to \in Outgoing(m, n) /\ w = to_s
            \/ /\ k >= 1
               /\ \E l \in Outgoing(m, n) : \E v \in W[k - 1][m.to[l]] :
                    w = v + m.length[l]
  /\ \A k \in 1..N, n \in Nat : \A l \in Outgoing(m, n) :
       \A v \in W[k - 1][m.to[l]] : v + m.length[l] \in W[k][n]

LEMMA WaysFacts ==
  ASSUME NEW m \in Maps, NEW to, NEW to_s \in Nat
  PROVE  \E N \in Nat : \E W : AreWays(m, to, to_s, N, W)
<1>1a. PICK N \in Nat : \E W : WaysBuilt(m, to, to_s, N, W)
  BY WaysRecur
<1>1. PICK W : WaysBuilt(m, to, to_s, N, W)
  BY <1>1a
<1>2. /\ N = Cardinality(m.links)
      /\ W \in [0..N -> [Nat -> SUBSET Nat]]
      /\ \A k \in 0..N : Ways(m, to, to_s)[k] = W[k]
      /\ W[0] = [n \in Nat |-> WaysFrom(m, to, to_s, n)]
      /\ \A k \in 1..N : W[k] = MoreWays(m, to, to_s, W[k - 1])
  BY <1>1 DEF WaysBuilt
<1>3. \A n \in Nat : W[0][n] = WaysFrom(m, to, to_s, n)
  BY <1>2
<1>4. \A k \in 1..N, n \in Nat :
        W[k][n] = WaysFrom(m, to, to_s, n) \cup Lengthened(m, W[k - 1], n)
  <2>1. \A k \in 1..N : W[k] =
          [n \in Nat |-> WaysFrom(m, to, to_s, n) \cup Lengthened(m, W[k - 1], n)]
    BY <1>2 DEF MoreWays
  <2>2. QED
    BY <2>1
<1>5. \A k \in 0..N : k = 0 \/ (k \in 1..N /\ k >= 1)
  BY <1>1
<1>6. \A k \in 0..N, n \in Nat :
        /\ W[k][n] \in SUBSET Nat
        /\ to \in Outgoing(m, n) => to_s \in W[k][n]
  BY <1>2, <1>3, <1>4, <1>5 DEF WaysFrom
<1>7. ASSUME NEW k \in 0..N, NEW n \in Nat, NEW w \in W[k][n]
      PROVE  \/ to \in Outgoing(m, n) /\ w = to_s
             \/ /\ k >= 1
                /\ \E l \in Outgoing(m, n) : \E v \in W[k - 1][m.to[l]] : w = v + m.length[l]
  BY <1>3, <1>4, <1>5 DEF WaysFrom, Lengthened
<1>8. \A k \in 1..N, n \in Nat : \A l \in Outgoing(m, n) :
        \A v \in W[k - 1][m.to[l]] : v + m.length[l] \in W[k][n]
  BY <1>4 DEF Lengthened
<1>9. AreWays(m, to, to_s, N, W)
  BY <1>2, <1>6, <1>7, <1>8 DEF AreWays
<1>10. QED
  BY <1>9

(***************************************************************************)
(* findForwardDistance() finds a way within the lookahead if there is one,  *)
(* and what it returns is the length of one: the search from the end of the *)
(* first link, whose end does not lead to the goal yet.                     *)
(***************************************************************************)
LEMMA ForwardSearchFinds ==
  ASSUME NEW m \in Maps, NEW to, NEW to_s \in Nat, NEW max \in Nat,
         NEW n \in Nat, NEW left \in Nat, left <= max,
         ~Leads(m, n, left, to, to_s, max),
         NEW ways, ways = {w + left : w \in Ways(m, to, to_s)[Cardinality(m.links)][n]},
         NEW r, r = ForwardSearch(m, to, to_s, max)[[queue |-> Entries(m, n, left), done |-> {}]]
  PROVE  IF \E w \in ways : w <= max THEN r \in ways /\ r <= max ELSE r = NotFound
<1>0a. PICK N \in Nat : \E W : AreWays(m, to, to_s, N, W)
  BY WaysFacts
<1>0. PICK W : AreWays(m, to, to_s, N, W)
  BY <1>0a
<1>1. /\ N = Cardinality(m.links)
      /\ \A k \in 0..N : Ways(m, to, to_s)[k] = W[k]
      /\ \A k \in 0..N, x \in Nat :
           /\ W[k][x] \in SUBSET Nat
           /\ to \in Outgoing(m, x) => to_s \in W[k][x]
           /\ \A w \in W[k][x] :
                \/ to \in Outgoing(m, x) /\ w = to_s
                \/ /\ k >= 1
                   /\ \E l \in Outgoing(m, x) : \E v \in W[k - 1][m.to[l]] :
                        w = v + m.length[l]
      /\ \A k \in 1..N, x \in Nat : \A l \in Outgoing(m, x) :
           \A v \in W[k - 1][m.to[l]] : v + m.length[l] \in W[k][x]
  BY <1>0 DEF AreWays
<1>2. ways = {w + left : w \in W[N][n]} /\ ways \in SUBSET Nat
  BY <1>1
<1>3. PICK S : S = ForwardSearch(m, to, to_s, max)
  OBVIOUS
<1>4. PICK G : G = {g \in (0..N) \X Nat \X Nat : \A w \in W[g[1]][g[2]] : w + g[3] \in ways}
  OBVIOUS
<1>5. PICK Q : Q = {q \in Nat \X Nat : ~Leads(m, q[1], q[2], to, to_s, max)}
  OBVIOUS
<1>6. LeadsOn(G, m, {})
  <2> SUFFICES ASSUME NEW k \in Nat, NEW p \in Nat, NEW c \in Nat, NEW l \in Outgoing(m, p),
                      <<k + 1, p, c>> \in G
               PROVE  <<k, m.to[l], c + m.length[l]>> \in G
    <3>1. G \subseteq Nat \X Nat \X Nat
      BY <1>4
    <3>2. QED
      BY <3>1 DEF LeadsOn
  <2>1. k + 1 \in 1..N /\ k \in 0..N /\ (k + 1) - 1 = k
    BY <1>4
  <2>2. m.to[l] \in Nat /\ m.length[l] \in Nat
    BY MapsAssumption DEF Outgoing
  <2>3. ASSUME NEW v \in W[k][m.to[l]] PROVE v + (c + m.length[l]) \in ways
    <3>1. v + m.length[l] \in W[k + 1][p]
      BY <1>1, <2>1
    <3>2. (v + m.length[l]) + c \in ways
      BY <1>4, <3>1
    <3>3. v \in Nat
      BY <1>1, <2>1, <2>2
    <3>4. QED
      BY <2>2, <3>2, <3>3
  <2>4. QED
    BY <1>4, <2>1, <2>2, <2>3
<1>7. BeyondLinks(W, N, m, Q, max)
  <2> SUFFICES ASSUME NEW k \in 0..N, NEW p \in Nat, NEW w \in W[k][p],
                      to \in Outgoing(m, p), w = to_s, NEW c \in Nat, c + w <= max
               PROVE  <<p, c>> \notin Q
    BY <1>1 DEF BeyondLinks
  <2> QED
    BY <1>5 DEF Leads
<1> DEFINE Inv(st) == /\ IsFiniteSet(st.queue) /\ OnWalks(G, m, st)
                      /\ \E d : NothingMissed(Q, m, st, n, left, max, d)
           Good(x) == IF \E w \in ways : w <= max THEN x \in ways /\ x <= max ELSE x = NotFound
           B == {st \in Searches(m) : Inv(st) /\ ~Good(S[st])}
<1>8. ASSUME NEW st \in Searches(m), Inv(st), st.queue = {}
      PROVE  Good(S[st])
  <2>1. PICK d : NothingMissed(Q, m, st, n, left, max, d)
    BY <1>8
  <2>2. \A w \in W[N][n] : left + w > max
    <3>1. N \in 0..N
      OBVIOUS
    <3>2. QED
      BY <1>7, <1>8, <2>1, <3>1, NothingIsNear
  <2>3. ~(\E w \in ways : w <= max)
    <3>1. \A w \in W[N][n] : w \in Nat
      BY <1>1
    <3>2. QED
      BY <1>2, <2>2, <3>1
  <2>4. S[st] = NotFound
    BY <1>3, <1>8, ForwardSearchIsLoop
  <2>5. QED
    BY <2>3, <2>4
<1>9. ASSUME NEW st \in Searches(m), Inv(st), st.queue # {}, Arrives(m, st, to, to_s, max)
      PROVE  Good(S[st])
  <2>1. S[st] = EndCost(m, st) + to_s
    BY <1>3, <1>9, ForwardSearchIsLoop
  <2>2. TopLink(st) \notin st.done
    BY <1>9 DEF Arrives, Refused
  <2>3. EnoughToGo(G, m, st, EndNode(m, st), EndCost(m, st))
    BY <1>6, <1>9, <2>2, StepIsOnWalks
  <2>4. PICK k \in Nat : <<k, EndNode(m, st), EndCost(m, st)>> \in G
    BY <2>3 DEF EnoughToGo
  <2>5. k \in 0..N /\ EndNode(m, st) \in Nat /\ EndCost(m, st) \in Nat
    BY <1>4, <2>4
  <2>6. to_s \in W[k][EndNode(m, st)] /\ EndCost(m, st) + to_s <= max
    BY <1>1, <1>9, <2>5 DEF Arrives, Leads
  <2>7. to_s + EndCost(m, st) \in ways
    BY <1>4, <2>4, <2>6
  <2>8. S[st] \in ways /\ S[st] <= max
    BY <2>1, <2>5, <2>6, <2>7
  <2>9. QED
    BY <2>8
<1>10. ASSUME NEW st \in Searches(m), Inv(st), st.queue # {}, ~Arrives(m, st, to, to_s, max)
       PROVE  \E nx \in Searches(m) : Closer(nx, st) /\ Inv(nx) /\ S[nx] = S[st]
  <2>1. PICK d : NothingMissed(Q, m, st, n, left, max, d)
    BY <1>10
  <2>2. PICK more : more = Entries(m, EndNode(m, st), EndCost(m, st))
    OBVIOUS
  <2>3. /\ EndNode(m, st) \in Nat /\ EndCost(m, st) \in Nat /\ TopCost(st) \in Nat
        /\ more \in SUBSET (Nat \X m.links) /\ IsFiniteSet(more)
        /\ {} \in SUBSET (Nat \X m.links) /\ IsFiniteSet({})
    BY <1>10, <2>2, TopFacts, EntriesFacts, FS_EmptySet
  <2>4. PICK nx : nx = After(m, st, max)
    OBVIOUS
  <2>5. nx \in Searches(m) /\ S[nx] = S[st]
    BY <1>3, <1>10, <2>4, AfterIsSearch, ForwardSearchIsLoop
  <2>6. CASE Refused(st, max)
    <3>1. nx = Popped(st)
      BY <2>4, <2>6 DEF After
    <3>2. TopLink(st) \in st.done
      <4>1. TopCost(st) <= max
        BY <1>10, <2>1, DroppingMissesNothing
      <4>2. QED
        BY <2>3, <2>6, <4>1 DEF Refused
    <3>3. NothingMissed(Q, m, nx, n, left, max, d)
      BY <1>10, <2>1, <3>1, <3>2, DroppingMissesNothing
    <3>4. Closer(nx, st) /\ IsFiniteSet(nx.queue)
      BY <1>10, <2>3, <3>1, StepIsCloser
    <3>5. OnWalks(G, m, nx)
      BY <1>6, <1>10, <3>1, StepIsOnWalks
    <3>6. QED
      BY <2>5, <3>3, <3>4, <3>5
  <2>7. CASE ~Refused(st, max)
    <3>1. TopLink(st) \notin st.done
      BY <2>7 DEF Refused
    <3>2. CASE EndCost(m, st) > max
      <4>1. nx = Expanded(m, st, {})
        BY <2>4, <2>7, <3>2 DEF After
      <4>2. NothingMissed(Q, m, nx, n, left, max, [d EXCEPT ![TopLink(st)] = TopCost(st)])
        BY <1>10, <2>1, <2>3, <3>1, <3>2, <4>1, ExpandingMissesNothing
      <4>3. Closer(nx, st) /\ IsFiniteSet(nx.queue)
        BY <1>10, <2>3, <3>1, <4>1, StepIsCloser
      <4>4. OnWalks(G, m, nx)
        BY <1>6, <1>10, <4>1, StepIsOnWalks
      <4>5. QED
        BY <2>5, <4>2, <4>3, <4>4
    <3>3. CASE EndCost(m, st) <= max
      <4>1. nx = Expanded(m, st, more)
        BY <2>2, <2>3, <2>4, <2>7, <3>3 DEF After
      <4>2. <<EndNode(m, st), EndCost(m, st)>> \in Q
        BY <1>5, <1>10, <2>3, <2>7, <3>3 DEF Arrives
      <4>3. NothingMissed(Q, m, nx, n, left, max, [d EXCEPT ![TopLink(st)] = TopCost(st)])
        BY <1>10, <2>1, <2>2, <2>3, <3>1, <3>3, <4>1, <4>2, ExpandingMissesNothing
      <4>4. Closer(nx, st) /\ IsFiniteSet(nx.queue)
        BY <1>10, <2>3, <3>1, <4>1, StepIsCloser
      <4>5. OnWalks(G, m, nx)
        BY <1>6, <1>10, <2>2, <3>1, <4>1, StepIsOnWalks
      <4>6. QED
        BY <2>5, <4>3, <4>4, <4>5
    <3>4. QED
      BY <2>3, <3>2, <3>3
  <2>8. QED
    BY <2>6, <2>7
<1>11. B = {}
  <2>1. \A st \in B : \E nx \in B : Closer(nx, st)
    <3> SUFFICES ASSUME NEW st \in Searches(m), Inv(st), ~Good(S[st])
                 PROVE  \E nx \in Searches(m) : Closer(nx, st) /\ Inv(nx) /\ S[nx] = S[st]
      OBVIOUS
    <3> HIDE DEF Inv, Good
    <3> QED
      BY <1>8, <1>9, <1>10
  <2>2. \A st \in B : IsFiniteSet(st.queue)
    OBVIOUS
  <2>3. B \in SUBSET Searches(m)
    OBVIOUS
  <2> HIDE DEF B
  <2>4. QED
    BY <2>1, <2>2, <2>3, SearchEnds
<1>12. PICK st : st = [queue |-> Entries(m, n, left), done |-> {}]
  OBVIOUS
<1>13. st \in Searches(m) /\ IsFiniteSet(st.queue)
  BY <1>12, EntriesFacts DEF Searches
<1>14. OnWalks(G, m, st)
  <2>1. <<N, n, left>> \in G
    BY <1>2, <1>4
  <2>2. n \notin {}
    OBVIOUS
  <2>3. QED
    BY <1>1, <1>6, <1>12, <2>1, <2>2, StartIsOnWalks
<1>15. NothingMissed(Q, m, st, n, left, max, [l \in m.links |-> 0])
  <2>1. <<n, left>> \in Q
    BY <1>5
  <2>2. QED
    BY <1>12, <2>1, StartMissesNothing
<1>16. Good(S[st])
  <2> HIDE DEF Good
  <2> QED
    BY <1>11, <1>13, <1>14, <1>15
<1>17. QED
  BY <1>3, <1>12, <1>16

\* W holds, for every k <= N, the first stop lines of the walks of k links.
AreStops(m, N, W) ==
  /\ N = Cardinality(m.links)
  /\ \A k \in 0..N : StopsAhead(m)[k] = W[k]
  /\ \A k \in 0..N, n \in Nat :
       /\ W[k][n] \in SUBSET Bests
       /\ n \in m.stops => Here(n) \in W[k][n]
       /\ \A w \in W[k][n] :
            \/ n \in m.stops
            \/ /\ k >= 1
               /\ \E l \in Outgoing(m, n) : \E v \in W[k - 1][m.to[l]] :
                    w = Shifted(v, m.length[l])
  /\ \A k \in 1..N, n \in Nat \ m.stops : \A l \in Outgoing(m, n) :
       \A v \in W[k - 1][m.to[l]] : Shifted(v, m.length[l]) \in W[k][n]

LEMMA StopsFacts ==
  ASSUME NEW m \in Maps
  PROVE  \E N \in Nat : \E W : AreStops(m, N, W)
<1>1a. PICK N \in Nat : \E W : StopsBuilt(m, N, W)
  BY StopsRecur
<1>1. PICK W : StopsBuilt(m, N, W)
  BY <1>1a
<1>2. /\ N = Cardinality(m.links)
      /\ W \in [0..N -> [Nat -> SUBSET Bests]]
      /\ \A k \in 0..N : StopsAhead(m)[k] = W[k]
      /\ W[0] = [n \in Nat |-> StopAt(m, n)]
      /\ \A k \in 1..N : W[k] = MoreStops(m, W[k - 1])
  BY <1>1 DEF StopsBuilt
<1>3. \A n \in Nat : W[0][n] = StopAt(m, n)
  BY <1>2
<1>4. \A k \in 1..N, n \in Nat :
        W[k][n] = IF n \in m.stops THEN StopAt(m, n) ELSE Farther(m, W[k - 1], n)
  <2>1. \A k \in 1..N : W[k] =
          [n \in Nat |-> IF n \in m.stops THEN StopAt(m, n) ELSE Farther(m, W[k - 1], n)]
    BY <1>2 DEF MoreStops
  <2>2. QED
    BY <2>1
<1>5. \A k \in 0..N : k = 0 \/ (k \in 1..N /\ k >= 1)
  BY <1>1
<1>6. ASSUME NEW k \in 0..N, NEW n \in Nat
      PROVE  /\ W[k][n] \in SUBSET Bests
             /\ n \in m.stops => Here(n) \in W[k][n]
  <2>1. W[k] \in [Nat -> SUBSET Bests]
    BY <1>2
  <2>2. n \in m.stops => W[k][n] = {Here(n)}
    BY <1>3, <1>4, <1>5 DEF StopAt
  <2>3. QED
    BY <2>1, <2>2
<1>7. ASSUME NEW k \in 0..N, NEW n \in Nat, NEW w \in W[k][n], n \notin m.stops
      PROVE  /\ k >= 1
             /\ \E l \in Outgoing(m, n) : \E v \in W[k - 1][m.to[l]] : w = Shifted(v, m.length[l])
  <2>1. k # 0
    BY <1>3, <1>7 DEF StopAt
  <2>2. k \in 1..N /\ k >= 1
    BY <1>5, <2>1
  <2>3. w \in Farther(m, W[k - 1], n)
    BY <1>4, <1>7, <2>2
  <2>4. QED
    BY <2>2, <2>3 DEF Farther
<1>8. ASSUME NEW k \in 1..N, NEW n \in Nat \ m.stops, NEW l \in Outgoing(m, n),
             NEW v \in W[k - 1][m.to[l]]
      PROVE  Shifted(v, m.length[l]) \in W[k][n]
  <2>1. W[k][n] = Farther(m, W[k - 1], n)
    BY <1>4
  <2>2. QED
    BY <2>1 DEF Farther
<1>9. AreStops(m, N, W)
  BY <1>2, <1>6, <1>7, <1>8 DEF AreStops
<1>10. QED
  BY <1>9

(***************************************************************************)
(* findNextStopLine() returns the first stop line of some walk, or finds    *)
(* none and there is none within the lookahead: the search from the end of  *)
(* the first link, where no stop line is.                                   *)
(***************************************************************************)
LEMMA StopSearchFinds ==
  ASSUME NEW m \in Maps, NEW max \in Nat, max < Far,
         NEW n \in Nat, n \notin m.stops, NEW left \in Nat, left <= max,
         NEW first, first = {Shifted(w, left) : w \in StopsAhead(m)[Cardinality(m.links)][n]},
         NEW r, r = StopSearch(m, max)[<<[queue |-> Entries(m, n, left), done |-> {}], NoStopLine>>]
  PROVE  /\ r \in Bests
         /\ \/ r \in first /\ r.node \in m.stops
            \/ r = NoStopLine /\ \A w \in first : w.distance > max
<1>0a. PICK N \in Nat : \E W : AreStops(m, N, W)
  BY StopsFacts
<1>0. PICK W : AreStops(m, N, W)
  BY <1>0a
<1>1. /\ N = Cardinality(m.links)
      /\ \A k \in 0..N : StopsAhead(m)[k] = W[k]
      /\ \A k \in 0..N, p \in Nat :
           /\ W[k][p] \in SUBSET Bests
           /\ p \in m.stops => Here(p) \in W[k][p]
           /\ \A w \in W[k][p] :
                \/ p \in m.stops
                \/ /\ k >= 1
                   /\ \E l \in Outgoing(m, p) : \E v \in W[k - 1][m.to[l]] :
                        w = Shifted(v, m.length[l])
      /\ \A k \in 1..N, p \in Nat \ m.stops : \A l \in Outgoing(m, p) :
           \A v \in W[k - 1][m.to[l]] : Shifted(v, m.length[l]) \in W[k][p]
  BY <1>0 DEF AreStops
<1>2. first = {Shifted(w, left) : w \in W[N][n]}
  BY <1>1
<1>3. PICK S : S = StopSearch(m, max)
  OBVIOUS
<1>4. PICK G : G = {g \in (0..N) \X Nat \X Nat :
                      \A w \in W[g[1]][g[2]] : Shifted(w, g[3]) \in first}
  OBVIOUS
<1>5. PICK Q : Q = {q \in Nat \X Nat : q[1] \notin m.stops}
  OBVIOUS
<1>6. LeadsOn(G, m, m.stops)
  <2> SUFFICES ASSUME NEW k \in Nat, NEW p \in Nat, NEW c \in Nat, NEW l \in Outgoing(m, p),
                      <<k + 1, p, c>> \in G, p \notin m.stops
               PROVE  <<k, m.to[l], c + m.length[l]>> \in G
    <3>1. G \subseteq Nat \X Nat \X Nat
      BY <1>4
    <3>2. QED
      BY <3>1 DEF LeadsOn
  <2>1. k + 1 \in 1..N /\ k \in 0..N /\ (k + 1) - 1 = k
    BY <1>4
  <2>2. m.to[l] \in Nat /\ m.length[l] \in Nat
    BY MapsAssumption DEF Outgoing
  <2>3. ASSUME NEW v \in W[k][m.to[l]] PROVE Shifted(v, c + m.length[l]) \in first
    <3>1. Shifted(v, m.length[l]) \in W[k + 1][p]
      BY <1>1, <2>1
    <3>2. Shifted(Shifted(v, m.length[l]), c) \in first
      BY <1>4, <3>1
    <3>3. v \in Bests
      BY <1>1, <2>1, <2>2
    <3>4. Shifted(Shifted(v, m.length[l]), c) = Shifted(v, c + m.length[l])
      <4>1. PICK x \in Nat : x = m.length[l]
        BY <2>2
      <4>2. Shifted(Shifted(v, x), c) = Shifted(v, c + x)
        BY <3>3, ShiftedFacts
      <4>3. QED
        BY <4>1, <4>2
    <3>5. QED
      BY <3>2, <3>4
  <2>4. c + m.length[l] \in Nat
    BY <2>2
  <2>5. PICK g : g = <<k, m.to[l], c + m.length[l]>>
    OBVIOUS
  <2>6. g \in (0..N) \X Nat \X Nat /\ g[1] = k /\ g[2] = m.to[l] /\ g[3] = c + m.length[l]
    BY <2>1, <2>2, <2>4, <2>5
  <2>7. g \in G
    BY <1>4, <2>3, <2>6
  <2>8. QED
    BY <2>5, <2>7
<1>7. PICK D : D = [k \in 0..N |-> [p \in Nat |-> {w.distance : w \in W[k][p]}]]
  OBVIOUS
<1>8. BeyondLinks(D, N, m, Q, max)
  <2> SUFFICES ASSUME NEW k \in 0..N, NEW p \in Nat, NEW w \in W[k][p]
               PROVE  /\ w.distance \in Nat
                      /\ \/ \A c \in Nat : c + w.distance <= max => <<p, c>> \notin Q
                         \/ /\ k >= 1
                            /\ \E l \in Outgoing(m, p) : \E v \in D[k - 1][m.to[l]] :
                                 w.distance = v + m.length[l]
    <3>1. \A k \in 0..N, p \in Nat : D[k][p] = {w.distance : w \in W[k][p]}
      BY <1>7
    <3>2. QED
      BY <3>1 DEF BeyondLinks
  <2>1. w.distance \in Nat
    BY <1>1, ShiftedFacts
  <2>2. CASE p \in m.stops
    BY <1>5, <2>1, <2>2
  <2>3. CASE p \notin m.stops
    <3>1. PICK l \in Outgoing(m, p) : \E v \in W[k - 1][m.to[l]] : w = Shifted(v, m.length[l])
      BY <1>1, <2>3
    <3>2. PICK v \in W[k - 1][m.to[l]] : w = Shifted(v, m.length[l])
      BY <3>1
    <3>3. k >= 1 /\ k - 1 \in 0..N
      BY <1>1, <2>3
    <3>40. m.length[l] \in Nat
      BY MapsAssumption DEF Outgoing
    <3>4. m.to[l] \in Nat
      BY MapsAssumption DEF Outgoing
    <3>5. v.distance \in D[k - 1][m.to[l]] /\ v \in Bests
      BY <1>1, <1>7, <3>3, <3>4
    <3>6. w.distance = v.distance + m.length[l]
      BY <3>2, <3>5, <3>40, ShiftedFacts
    <3>7. QED
      BY <2>1, <3>3, <3>5, <3>6
  <2>4. QED
    BY <2>2, <2>3
<1> DEFINE Met(b) == b \in first /\ b.node \in m.stops
           Inv(st, b) == /\ IsFiniteSet(st.queue) /\ OnWalks(G, m, st) /\ b \in Bests
                         /\ \/ Met(b)
                            \/ /\ b = NoStopLine
                               /\ \E d : NothingMissed(Q, m, st, n, left, max, d)
           Good(x) == /\ x \in Bests
                      /\ Met(x) \/ (x = NoStopLine /\ \A w \in first : w.distance > max)
           B == {st \in Searches(m) : \E b \in Bests : Inv(st, b) /\ ~Good(S[<<st, b>>])}
<1>9. ASSUME NEW st \in Searches(m), NEW b \in Bests, Inv(st, b), st.queue = {}
      PROVE  Good(S[<<st, b>>])
  <2>1. S[<<st, b>>] = b
    BY <1>3, <1>9, StopSearchIsLoop
  <2>2. ASSUME NEW d, NothingMissed(Q, m, st, n, left, max, d), NEW w \in first
        PROVE  w.distance > max
    <3>1. N \in 0..N
      OBVIOUS
    <3>2. \A x \in D[N][n] : left + x > max
      BY <1>8, <1>9, <2>2, <3>1, NothingIsNear
    <3>3. PICK v \in W[N][n] : w = Shifted(v, left)
      BY <1>2
    <3>4. v \in Bests /\ v.distance \in D[N][n]
      BY <1>1, <1>7, <3>1
    <3>5. w.distance = left + v.distance
      BY <3>3, <3>4, ShiftedFacts
    <3>6. QED
      BY <3>2, <3>4, <3>5
  <2>3. QED
    BY <1>9, <2>1, <2>2
<1>10. ASSUME NEW st \in Searches(m), NEW b \in Bests, Inv(st, b), st.queue # {}
       PROVE  \E nx \in Searches(m), o \in Bests :
                Closer(nx, st) /\ Inv(nx, o) /\ S[<<nx, o>>] = S[<<st, b>>]
  <2>1. PICK more : more = Entries(m, EndNode(m, st), EndCost(m, st))
    OBVIOUS
  <2>2. /\ EndNode(m, st) \in Nat /\ EndCost(m, st) \in Nat /\ TopCost(st) \in Nat
        /\ more \in SUBSET (Nat \X m.links) /\ IsFiniteSet(more)
        /\ {} \in SUBSET (Nat \X m.links) /\ IsFiniteSet({})
    BY <1>10, <2>1, TopFacts, EntriesFacts, FS_EmptySet
  <2>3. PICK nx, o : <<nx, o>> = AfterStop(m, st, b, max)
    BY DEF AfterStop
  <2>4. nx \in Searches(m) /\ o \in Bests /\ S[<<nx, o>>] = S[<<st, b>>]
    <3>1. <<nx, o>> \in Searches(m) \X Bests
      BY <1>10, <2>3, AfterStopIsSearch
    <3>2. S[<<st, b>>] = S[AfterStop(m, st, b, max)]
      BY <1>3, <1>10, StopSearchIsLoop
    <3>3. QED
      BY <2>3, <3>1, <3>2
  <2>5. SUFFICES Closer(nx, st) /\ Inv(nx, o)
    BY <2>4
  <2>6. CASE StopRefused(st, b, max)
    <3>1. nx = Popped(st) /\ o = b
      BY <2>3, <2>6 DEF AfterStop
    <3>2. Closer(nx, st) /\ IsFiniteSet(nx.queue)
      BY <1>10, <2>2, <3>1, StepIsCloser
    <3>3. OnWalks(G, m, nx)
      BY <1>6, <1>10, <3>1, StepIsOnWalks
    <3>4. ASSUME NEW d, NothingMissed(Q, m, st, n, left, max, d), b = NoStopLine
          PROVE  NothingMissed(Q, m, nx, n, left, max, d)
      <4>1. TopCost(st) <= max
        BY <1>10, <3>4, DroppingMissesNothing
      <4>2. ~(TopCost(st) >= b.distance)
        BY <2>2, <3>4, <4>1 DEF NoStopLine, Far
      <4>3. TopLink(st) \in st.done
        BY <2>2, <2>6, <4>1, <4>2 DEF StopRefused, Refused
      <4>4. QED
        BY <1>10, <3>1, <3>4, <4>3, DroppingMissesNothing
    <3>5. QED
      BY <1>10, <3>1, <3>2, <3>3, <3>4
  <2>7. CASE ~StopRefused(st, b, max)
    <3>1. TopLink(st) \notin st.done
      BY <2>7 DEF StopRefused, Refused
    <3>2. CASE EndCost(m, st) > max
      <4>1. nx = Expanded(m, st, {}) /\ o = b
        BY <2>3, <2>7, <3>2 DEF AfterStop
      <4>2. Closer(nx, st) /\ IsFiniteSet(nx.queue)
        BY <1>10, <2>2, <3>1, <4>1, StepIsCloser
      <4>3. OnWalks(G, m, nx)
        BY <1>6, <1>10, <4>1, StepIsOnWalks
      <4>4. ASSUME NEW d, NothingMissed(Q, m, st, n, left, max, d)
            PROVE  NothingMissed(Q, m, nx, n, left, max, [d EXCEPT ![TopLink(st)] = TopCost(st)])
        BY <1>10, <2>2, <3>1, <3>2, <4>1, <4>4, ExpandingMissesNothing
      <4>5. QED
        BY <1>10, <4>1, <4>2, <4>3, <4>4
    <3>3. CASE EndCost(m, st) <= max /\ EndNode(m, st) \in m.stops
      <4>1. ~(EndCost(m, st) > max)
        BY <2>2, <3>3
      <4>2. nx = Expanded(m, st, {}) /\ o = [node |-> EndNode(m, st), distance |-> EndCost(m, st)]
        BY <2>3, <2>7, <3>3, <4>1 DEF AfterStop
      <4>3. Closer(nx, st) /\ IsFiniteSet(nx.queue)
        BY <1>10, <2>2, <3>1, <4>2, StepIsCloser
      <4>4. OnWalks(G, m, nx)
        BY <1>6, <1>10, <4>2, StepIsOnWalks
      <4>5. EnoughToGo(G, m, st, EndNode(m, st), EndCost(m, st))
        BY <1>6, <1>10, <3>1, StepIsOnWalks
      <4>6. PICK k \in Nat : <<k, EndNode(m, st), EndCost(m, st)>> \in G
        BY <4>5 DEF EnoughToGo
      <4>7. Here(EndNode(m, st)) \in W[k][EndNode(m, st)]
        <5>1. k \in 0..N
          BY <1>4, <4>6
        <5>2. QED
          BY <1>1, <2>2, <3>3, <5>1
      <4>8. Shifted(Here(EndNode(m, st)), EndCost(m, st)) \in first
        BY <1>4, <4>6, <4>7
      <4>9. o \in first /\ o.node \in m.stops
        <5>1. Shifted(Here(EndNode(m, st)), EndCost(m, st)) = o
          BY <2>2, <2>4, <4>2, ShiftedFacts
        <5>2. o.node = EndNode(m, st)
          BY <4>2
        <5>3. QED
          BY <3>3, <4>8, <5>1, <5>2
      <4>10. QED
        BY <2>4, <4>3, <4>4, <4>9
    <3>4. CASE EndCost(m, st) <= max /\ EndNode(m, st) \notin m.stops
      <4>1. ~(EndCost(m, st) > max)
        BY <2>2, <3>4
      <4>2. nx = Expanded(m, st, more) /\ o = b
        BY <2>1, <2>3, <2>7, <3>4, <4>1 DEF AfterStop
      <4>3. Closer(nx, st) /\ IsFiniteSet(nx.queue)
        BY <1>10, <2>2, <3>1, <4>2, StepIsCloser
      <4>4. OnWalks(G, m, nx)
        BY <1>6, <1>10, <2>1, <3>1, <3>4, <4>2, StepIsOnWalks
      <4>5. <<EndNode(m, st), EndCost(m, st)>> \in Q
        BY <1>5, <2>2, <3>4
      <4>6. ASSUME NEW d, NothingMissed(Q, m, st, n, left, max, d)
            PROVE  NothingMissed(Q, m, nx, n, left, max, [d EXCEPT ![TopLink(st)] = TopCost(st)])
        BY <1>10, <2>1, <2>2, <3>1, <3>4, <4>2, <4>5, <4>6, ExpandingMissesNothing
      <4>7. QED
        BY <1>10, <4>2, <4>3, <4>4, <4>6
    <3>5. QED
      BY <2>2, <3>2, <3>3, <3>4
  <2>8. QED
    BY <2>6, <2>7
<1>11. B = {}
  <2>1. \A st \in B : \E nx \in B : Closer(nx, st)
    <3> SUFFICES ASSUME NEW st \in Searches(m), NEW b \in Bests, Inv(st, b), ~Good(S[<<st, b>>])
                 PROVE  \E nx \in Searches(m), o \in Bests :
                          Closer(nx, st) /\ Inv(nx, o) /\ S[<<nx, o>>] = S[<<st, b>>]
      <4> HIDE DEF Inv, Good
      <4> QED OBVIOUS
    <3>1. ~(st.queue = {})
      <4> HIDE DEF Inv, Good
      <4> QED
        BY <1>9
    <3>2. QED
      <4> HIDE DEF Inv, Good
      <4> QED
        BY <1>10, <3>1
  <2>2. \A st \in B : IsFiniteSet(st.queue)
    OBVIOUS
  <2>3. B \in SUBSET Searches(m)
    OBVIOUS
  <2> HIDE DEF B
  <2>4. QED
    BY <2>1, <2>2, <2>3, SearchEnds
<1>12. PICK st : st = [queue |-> Entries(m, n, left), done |-> {}]
  OBVIOUS
<1>13. st \in Searches(m) /\ IsFiniteSet(st.queue)
  BY <1>12, EntriesFacts DEF Searches
<1>14. OnWalks(G, m, st)
  <2>1. <<N, n, left>> \in G
    BY <1>2, <1>4
  <2>2. QED
    BY <1>1, <1>6, <1>12, <2>1, StartIsOnWalks
<1>15. NothingMissed(Q, m, st, n, left, max, [l \in m.links |-> 0])
  <2>1. <<n, left>> \in Q
    BY <1>5
  <2>2. QED
    BY <1>12, <2>1, StartMissesNothing
<1>16. NoStopLine \in Bests
  BY DEF NoStopLine, Bests, Far
<1>17. Good(S[<<st, NoStopLine>>])
  <2>1. Inv(st, NoStopLine)
    BY <1>13, <1>14, <1>15, <1>16
  <2> HIDE DEF Good, Inv
  <2> QED
    BY <1>11, <1>13, <1>16, <2>1
<1>18. QED
  BY <1>3, <1>12, <1>17

LEMMA MapFacts ==
  ASSUME NEW m \in Maps, NEW link \in m.links \cup {NoLink}, NEW s \in Nat
  PROVE  /\ NoLink \notin m.links
         /\ link \in m.links => m.to[link] \in Nat /\ Remaining(m, link, s) \in Nat
         /\ \A l \in Outgoing(m, m.to[link]) : l \in m.links
BY MapsAssumption DEF Remaining, Outgoing, NoLink

(***************************************************************************)
(* What findForwardDistance() returns, on any map, from any place to any    *)
(* other: a way within the lookahead if there is one, else NotFound.        *)
(***************************************************************************)
WayOrNone(r, ways, max) ==
  IF \E w \in ways : w <= max THEN r \in ways /\ r <= max ELSE r = NotFound

LEMMA ForwardDistance ==
  ASSUME NEW m \in Maps, NEW from \in m.links \cup {NoLink}, NEW from_s \in Nat,
         NEW to \in m.links \cup {NoLink}, NEW to_s \in Nat, NEW max \in Nat
  PROVE  /\ FindForwardDistance(m, from, from_s, to, to_s, max) \in Int
         /\ from # NoLink /\ to # from =>
              WayOrNone(FindForwardDistance(m, from, from_s, to, to_s, max),
                        WalkLengths(m, from, from_s, to, to_s), max)
<1> SUFFICES ASSUME NEW r, r = FindForwardDistance(m, from, from_s, to, to_s, max),
                     NEW ways, ways = WalkLengths(m, from, from_s, to, to_s)
              PROVE  /\ r \in Int
                     /\ from # NoLink /\ to # from => WayOrNone(r, ways, max)
  OBVIOUS
<1>1. NotFound \in Int
  BY DEF NotFound
<1>2. CASE from \notin m.links
  <2>1. from = NoLink /\ r = NotFound
    BY <1>2 DEF FindForwardDistance
  <2>2. QED
    BY <1>1, <2>1
<1>3. CASE from \in m.links
  <2> DEFINE left == Remaining(m, from, from_s)
             n == m.to[from]
  <2>0a. PICK N \in Nat : \E W : AreWays(m, to, to_s, N, W)
    BY WaysFacts
  <2>0. PICK W : AreWays(m, to, to_s, N, W)
    BY <2>0a
  <2>1. /\ N = Cardinality(m.links)
        /\ Ways(m, to, to_s)[N] = W[N]
        /\ \A k \in 0..N, p \in Nat :
             /\ W[k][p] \in SUBSET Nat
             /\ to \in Outgoing(m, p) => to_s \in W[k][p]
             /\ \A w \in W[k][p] :
                  \/ to \in Outgoing(m, p) /\ w = to_s
                  \/ /\ k >= 1
                     /\ \E l \in Outgoing(m, p) : \E v \in W[k - 1][m.to[l]] :
                          w = v + m.length[l]
    <3>1. N \in 0..N
      OBVIOUS
    <3>2. QED
      BY <2>0, <3>1 DEF AreWays
  <2>2. n \in Nat /\ left \in Nat /\ N \in 0..N
    BY <1>3, MapFacts
  <2>3. ways = {w + left : w \in W[N][n]} /\ W[N][n] \in SUBSET Nat
    BY <2>1, <2>2 DEF WalkLengths
  <2>4. ways \in SUBSET Nat /\ \A w \in ways : w >= left
    BY <2>2, <2>3
  <2>5. CASE to \notin m.links
    <3>1. r = NotFound
      BY <2>5 DEF FindForwardDistance
    <3>2. \A p \in Nat : to \notin Outgoing(m, p)
      BY <2>5 DEF Outgoing
    <3> DEFINE T == {k \in 0..N : \E p \in Nat : W[k][p] # {}}
    <3>3. ASSUME T # {} PROVE FALSE
      <4>1. PICK k \in T : \A j \in T : k <= j
        <5>1. T \in SUBSET Nat
          OBVIOUS
        <5> HIDE DEF T
        <5>2. QED
          BY <3>3, <5>1, LeastElement
      <4>20. PICK p \in Nat : W[k][p] # {}
        OBVIOUS
      <4>2. PICK w : w \in W[k][p]
        BY <4>20
      <4>3. k \in 0..N /\ k >= 1
        BY <2>1, <3>2, <4>2
      <4>4. PICK l \in Outgoing(m, p) : \E v \in W[k - 1][m.to[l]] : w = v + m.length[l]
        BY <2>1, <3>2, <4>2, <4>3
      <4>5. m.to[l] \in Nat
        BY MapsAssumption DEF Outgoing
      <4>6. k - 1 \in 0..N /\ W[k - 1][m.to[l]] # {}
        BY <4>3, <4>4
      <4>7. k - 1 \in T
        BY <4>5, <4>6
      <4>8. QED
        BY <4>1, <4>3, <4>7
    <3>4. W[N][n] = {}
      BY <2>2, <3>3
    <3>5. QED
      BY <1>1, <2>3, <3>1, <3>4 DEF WayOrNone
  <2>6. CASE to = from
    <3>1. r = IF to_s - from_s \in 0..max THEN to_s - from_s ELSE NotFound
      BY <1>3, <2>6 DEF FindForwardDistance
    <3>2. QED
      BY <1>1, <2>6, <3>1
  <2>7. CASE to \in m.links /\ to # from /\ left > max
    <3>1. r = NotFound
      BY <1>3, <2>7 DEF FindForwardDistance
    <3>2. ~(\E w \in ways : w <= max)
      BY <2>2, <2>4, <2>7
    <3>3. QED
      BY <1>1, <3>1, <3>2 DEF WayOrNone
  <2>8. CASE to \in m.links /\ to # from /\ ~(left > max) /\ Leads(m, n, left, to, to_s, max)
    <3>1. r = left + to_s
      BY <1>3, <2>8 DEF FindForwardDistance
    <3>2. to_s \in W[N][n]
      BY <2>1, <2>2, <2>8 DEF Leads
    <3>3. to_s + left \in ways
      BY <2>3, <3>2
    <3>4. r \in ways /\ r <= max
      BY <2>2, <2>8, <3>1, <3>3 DEF Leads
    <3>5. r \in Int
      BY <2>4, <3>4
    <3>6. QED
      BY <3>4, <3>5 DEF WayOrNone
  <2>9. CASE to \in m.links /\ to # from /\ ~(left > max) /\ ~Leads(m, n, left, to, to_s, max)
    <3>1. r = ForwardSearch(m, to, to_s, max)[[queue |-> Entries(m, n, left), done |-> {}]]
      BY <1>3, <2>9 DEF FindForwardDistance
    <3>2. left <= max
      BY <2>2, <2>9
    <3>3. ways = {w + left : w \in Ways(m, to, to_s)[Cardinality(m.links)][n]}
      BY DEF WalkLengths
    <3>4. IF \E w \in ways : w <= max THEN r \in ways /\ r <= max ELSE r = NotFound
      <4> HIDE DEF left, n
      <4> QED
        BY <2>2, <2>9, <3>1, <3>2, <3>3, ForwardSearchFinds
    <3>5. r \in Int
      BY <1>1, <2>4, <3>4
    <3>6. QED
      BY <3>4, <3>5 DEF WayOrNone
  <2>10. QED
    BY <2>5, <2>6, <2>7, <2>8, <2>9
<1>4. QED
  BY <1>2, <1>3

(***************************************************************************)
(* What findNextStopLine() returns: the first stop line of some way ahead;  *)
(* NoStopLine only if there is none within the lookahead.                   *)
(***************************************************************************)
LEMMA NextStopLine ==
  ASSUME NEW m \in Maps, NEW link \in m.links \cup {NoLink}, NEW s \in Nat,
         NEW max \in Nat, max < Far,
         NEW r, r = FindNextStopLine(m, link, s, max),
         NEW first, first = FirstStopLines(m, link, s)
  PROVE  /\ r \in Bests /\ first \in SUBSET Bests
         /\ \/ r \in first /\ r.node \in m.stops
            \/ r = NoStopLine /\ \A w \in first : w.distance > max
<1>1. NoStopLine \in Bests
  BY DEF NoStopLine, Bests, Far
<1>2. CASE link \notin m.links
  <2>1. r = NoStopLine /\ first = {}
    BY <1>2 DEF FindNextStopLine, FirstStopLines
  <2>2. QED
    BY <1>1, <2>1
<1>3. CASE link \in m.links
  <2> DEFINE left == Remaining(m, link, s)
             n == m.to[link]
  <2>0a. PICK N \in Nat : \E W : AreStops(m, N, W)
    BY StopsFacts
  <2>0. PICK W : AreStops(m, N, W)
    BY <2>0a
  <2>1. /\ N = Cardinality(m.links)
        /\ StopsAhead(m)[N] = W[N]
        /\ \A p \in Nat : /\ W[N][p] \in SUBSET Bests
                          /\ p \in m.stops => Here(p) \in W[N][p]
    <3>1. N \in 0..N
      OBVIOUS
    <3>2. QED
      BY <2>0, <3>1 DEF AreStops
  <2>2. n \in Nat /\ left \in Nat
    BY <1>3, MapFacts
  <2>3. first = {Shifted(w, left) : w \in W[N][n]} /\ W[N][n] \in SUBSET Bests
    BY <1>3, <2>1, <2>2 DEF FirstStopLines, Shifted
  <2>31. first \in SUBSET Bests
    <3> HIDE DEF left
    <3> QED
      BY <2>2, <2>3, ShiftedFacts
  <2>4. CASE n \in m.stops /\ left <= max
    <3>1. r = [node |-> n, distance |-> left]
      BY <1>3, <2>4 DEF FindNextStopLine
    <3>2. Here(n) \in W[N][n] /\ Here(n) \in Bests
      BY <2>1, <2>2, <2>3, <2>4
    <3>3. Shifted(Here(n), left) = r
      <4> HIDE DEF left, n
      <4> QED
        BY <2>2, <3>1, <3>2, ShiftedFacts
    <3>4. r \in Bests /\ r \in first /\ r.node = n
      BY <2>2, <2>3, <3>1, <3>2, <3>3 DEF Bests
    <3>5. QED
      BY <2>4, <2>31, <3>4
  <2>5. ASSUME ~(n \in m.stops /\ left <= max)
        PROVE  r = StopSearch(m, max)[
                     <<[queue |-> Entries(m, n, left), done |-> {}], NoStopLine>>]
    BY <1>3, <2>5 DEF FindNextStopLine
  <2>6. CASE n \notin m.stops /\ left <= max
    <3>1. first = {Shifted(w, left) : w \in StopsAhead(m)[Cardinality(m.links)][n]}
      BY <2>1, <2>3
    <3>2. QED
      <4>1. r = StopSearch(m, max)[<<[queue |-> Entries(m, n, left), done |-> {}], NoStopLine>>]
        BY <2>5, <2>6
      <4>2. n \notin m.stops /\ left <= max /\ n \in Nat /\ left \in Nat
        BY <2>2, <2>6
      <4> HIDE DEF left, n
      <4>3. QED
        BY <2>31, <3>1, <4>1, <4>2, StopSearchFinds
  <2>7. CASE ~(left <= max)
    <3>1. PICK st : st = [queue |-> Entries(m, n, left), done |-> {}]
      OBVIOUS
    <3>2. st \in Searches(m) /\ IsFiniteSet(st.queue) /\ \A e \in st.queue : e[1] = left
      BY <2>2, <3>1, EntriesFacts DEF Searches
    <3>3. PICK S : S = StopSearch(m, max)
      OBVIOUS
    <3> DEFINE B == {x \in Searches(m) :
                      /\ IsFiniteSet(x.queue) /\ \A e \in x.queue : e[1] = left
                      /\ S[<<x, NoStopLine>>] # NoStopLine}
    <3>4. ASSUME NEW x \in B PROVE \E nx \in B : Closer(nx, x)
      <4>1. x.queue # {}
        <5>1. S[<<x, NoStopLine>>] =
                IF x.queue = {} THEN NoStopLine ELSE S[AfterStop(m, x, NoStopLine, max)]
          BY <1>1, <3>3, StopSearchIsLoop
        <5>2. QED
          BY <5>1
      <4>2. TopCost(x) = left /\ StopRefused(x, NoStopLine, max)
        <5>1. TopCost(x) = left
          BY <4>1, TopFacts DEF TopCost
        <5>2. QED
          BY <2>2, <2>7, <5>1 DEF StopRefused, Refused
      <4>3. S[<<Popped(x), NoStopLine>>] = S[<<x, NoStopLine>>]
        BY <1>1, <3>3, <4>1, <4>2, StopSearchIsLoop DEF AfterStop
      <4>4. {} \in SUBSET (Nat \X m.links) /\ IsFiniteSet({})
        BY FS_EmptySet
      <4>5. /\ Popped(x) \in Searches(m) /\ Popped(x).queue \subseteq x.queue
            /\ IsFiniteSet(Popped(x).queue) /\ Closer(Popped(x), x)
        BY <4>1, <4>4, StepFacts, StepIsCloser
      <4>6. QED
        BY <4>3, <4>5
    <3>5. B = {}
      <4>1. B \in SUBSET Searches(m) /\ \A x \in B : IsFiniteSet(x.queue)
        OBVIOUS
      <4> HIDE DEF B
      <4>2. QED
        BY <3>4, <4>1, SearchEnds
    <3>6. r = NoStopLine
      BY <2>5, <2>7, <3>1, <3>2, <3>3, <3>5
    <3>7. ASSUME NEW w \in first PROVE w.distance > max
      <4>1. PICK v \in W[N][n] : w = Shifted(v, left)
        BY <2>3
      <4>2. w.distance = v.distance + left /\ v.distance \in Nat
        BY <2>2, <2>3, <4>1, ShiftedFacts
      <4>3. QED
        BY <2>2, <2>7, <4>2
    <3>8. QED
      BY <1>1, <2>31, <3>6, <3>7
  <2>8. QED
    BY <2>4, <2>6, <2>7
<1>4. QED
  BY <1>2, <1>3

------------------------------------------------------------------------------
(***************************************************************************)
(* The types of what an iteration computes.                                 *)
(***************************************************************************)
LEMMA EgoType ==
  ASSUME map \in Maps, NEW e \in EgoMessages(map)
  PROVE  e.link \in map.links \cup {NoLink} /\ e.s \in Nat /\ e.speed \in Int /\ e # None
BY MessagesAssumption

LEMMA GapType ==
  ASSUME map \in Maps, NEW e \in EgoMessages(map), NEW o \in Objects(map), NEW gate
  PROVE  Gap(e, o, gate) \in Int
<1>1. e.link \in map.links \cup {NoLink} /\ e.s \in Nat
  BY EgoType
<1>2. o.link \in map.links \cup {NoLink} /\ o.s \in Nat
  BY DEF Objects
<1>3. TopologyGap(e, o) \in Int
  <2>1. FrontLookahead \in Nat
    BY DEF FrontLookahead
  <2>2. QED
    BY <1>1, <1>2, <2>1, ForwardDistance DEF TopologyGap
<1>4. ASSUME NEW link \in map.links \cup {NoLink}, NEW s \in Nat
      PROVE  RouteS(link, s) \in Int
  BY MapsAssumption DEF RouteS
<1>5. QED
  <2>1. o.s - e.s \in Int
    BY <1>1, <1>2
  <2>2. RouteS(o.link, o.s) \in Int /\ RouteS(e.link, e.s) \in Int
    BY <1>1, <1>2, <1>4
  <2>3. RouteS(o.link, o.s) - RouteS(e.link, e.s) \in Int
    BY <2>2
  <2>4. QED
    BY <1>3, <2>1, <2>3 DEF Gap

LEMMA GapIsWay ==
  ASSUME map \in Maps, NEW e \in EgoMessages(map), NEW o \in Objects(map),
         e.link # NoLink, o.link # e.link,
         NEW ways, ways = WalkLengths(map, e.link, e.s, o.link, o.s),
         NEW r, r = TopologyGap(e, o)
  PROVE  WayOrNone(r, ways, FrontLookahead)
<1>1. e.link \in map.links \cup {NoLink} /\ e.s \in Nat
  BY EgoType
<1>2. o.link \in map.links \cup {NoLink} /\ o.s \in Nat
  BY DEF Objects
<1>3. FrontLookahead \in Nat
  BY DEF FrontLookahead
<1>4. QED
  <2>1. r = FindForwardDistance(map, e.link, e.s, o.link, o.s, FrontLookahead)
    BY DEF TopologyGap
  <2>2. QED
    BY <1>1, <1>2, <1>3, <2>1, ForwardDistance

LEMMA LeadType ==
  ASSUME map \in Maps, NEW e \in EgoMessages(map), NEW list \in Seq(Objects(map)),
         NEW gate, NEW last \in Int
  PROVE  Lead(e, list, gate, last) \in Objects(map) \cup {NoVehicle}
<1> DEFINE score(i) == Gap(e, list[i], gate) - (IF list[i].id = last THEN LeadBonus ELSE 0)
           all == Leaders(e, list, gate)
           wins(i) == \A j \in all : score(i) < score(j) \/ (score(i) = score(j) /\ i <= j)
           q == {<<score(i) + LeadBonus, i>> : i \in all}
<1>1. /\ DOMAIN list \in SUBSET Nat /\ all \in SUBSET DOMAIN list
      /\ \A i \in DOMAIN list : list[i] \in Objects(map)
  BY DEF Leaders
<1>2. \A i \in all : score(i) \in Int /\ score(i) + LeadBonus \in Nat
  <2> SUFFICES ASSUME NEW i \in all
               PROVE  score(i) \in Int /\ score(i) + LeadBonus \in Nat
    OBVIOUS
  <2>1. Gap(e, list[i], gate) \in Int
    BY <1>1, GapType
  <2>2. Gap(e, list[i], gate) > 0
    BY DEF Leaders
  <2>3. QED
    BY <2>1, <2>2 DEF LeadBonus
<1>3. CASE all = {}
  BY <1>3 DEF Lead
<1>4. CASE all # {}
  <2>1. q \in SUBSET (Nat \X Nat) /\ q # {}
    <3> HIDE DEF all, score
    <3>1. \A i \in all : <<score(i) + LeadBonus, i>> \in Nat \X Nat
      BY <1>1, <1>2
    <3>2. QED
      BY <1>4, <3>1
  <2>2. PICK i \in all : Top(q) = <<score(i) + LeadBonus, i>>
    <3> HIDE DEF all, score
    <3>1. Top(q) \in q
      <4> HIDE DEF q
      <4> QED
        BY <2>1, TopIsLeast
    <3>2. QED
      BY <3>1
  <2>3. wins(i)
    <3> SUFFICES ASSUME NEW j \in all
                 PROVE  score(i) < score(j) \/ (score(i) = score(j) /\ i <= j)
      OBVIOUS
    <3> HIDE DEF all, score
    <3>1. PICK t : t = <<score(j) + LeadBonus, j>> /\ t \in q
      OBVIOUS
    <3>2. Top(q)[1] < t[1] \/ (Top(q)[1] = t[1] /\ Top(q)[2] <= t[2])
      <4>1. t \in q
        BY <3>1
      <4> HIDE DEF q
      <4>2. QED
        BY <2>1, <4>1, TopIsLeast
    <3>3. /\ Top(q)[1] = score(i) + LeadBonus /\ Top(q)[2] = i
          /\ t[1] = score(j) + LeadBonus /\ t[2] = j
      BY <2>2, <3>1
    <3>4. score(i) \in Int /\ score(j) \in Int
      BY <1>2
    <3>5. QED
      BY <3>2, <3>3, <3>4 DEF LeadBonus
  <2>4. PICK k : k = CHOOSE h \in all : wins(h)
    OBVIOUS
  <2>5. k \in all
    <3> HIDE DEF all, wins
    <3> QED
      BY <2>3, <2>4
  <2>6. Lead(e, list, gate, last) = list[k]
    BY <1>4, <2>4 DEF Lead
  <2>7. QED
    BY <1>1, <2>5, <2>6
<1>5. QED
  BY <1>3, <1>4

LEMMA StopType ==
  ASSUME map \in Maps, lights \in [map.stops -> Lights], NEW e \in EgoMessages(map),
         NEW stop, stop = FindNextStopLine(map, e.link, e.s, StopLookahead)
  PROVE  /\ stop \in [node : Nat, distance : Nat]
         /\ (IF stop = NoStopLine THEN "UNKNOWN" ELSE lights[stop.node]) \in Lights \cup {"UNKNOWN"}
         /\ RouteS(e.link, e.s) + stop.distance \in Int
<1>1. e.link \in map.links \cup {NoLink} /\ e.s \in Nat
  BY EgoType
<1>2. StopLookahead \in Nat /\ StopLookahead < Far
  BY DEF StopLookahead, Far
<1>3. stop \in Bests /\ (stop.node \in map.stops \/ stop = NoStopLine)
  BY <1>1, <1>2, NextStopLine
<1>4. RouteS(e.link, e.s) \in Int
  BY <1>1, MapsAssumption DEF RouteS
<1>5. QED
  BY <1>3, <1>4 DEF Bests

LEMMA FeatureType ==
  ASSUME map \in Maps, lights \in [map.stops -> Lights], NEW e \in EgoMessages(map),
         NEW list \in Seq(Objects(map)), NEW gate \in SUBSET Int, NEW last \in Int,
         NEW f, f = Feature(e, list, gate, last)
  PROVE  /\ f \in Features(map)
         /\ f.lead.id \in Int
         /\ f.stop = FindNextStopLine(map, e.link, e.s, StopLookahead)
         /\ f.light = IF f.stop = NoStopLine THEN "UNKNOWN" ELSE lights[f.stop.node]
<1> DEFINE seen == {o \in {list[i] : i \in DOMAIN list} : Valid(o)}
           front == {o \in seen : InFront(e, o, gate) /\ Gap(e, o, gate) > 0}
           lead == Lead(e, list, gate, last)
           stop == FindNextStopLine(map, e.link, e.s, StopLookahead)
           ahead == {[id |-> o.id, type |-> o.type, gap |-> Gap(e, o, gate),
                      ttc_below_1 |-> TtcBelow(e, o, Gap(e, o, gate), 1, 1)] : o \in front}
           light == IF stop = NoStopLine THEN "UNKNOWN" ELSE lights[stop.node]
           gap == IF lead = NoVehicle THEN Unbounded ELSE Gap(e, lead, gate)
           walkers == \E o \in seen : /\ o.type = "pedestrian"
                                      /\ Gap(e, o, gate) \in 1..14
                                      /\ AbsOf(RelativeD(e, o)) < LaneWidth
<1>1. e.link \in map.links \cup {NoLink} /\ e.speed \in Int
  BY EgoType
<1>2. seen \in SUBSET Objects(map)
  OBVIOUS
<1>3. lead \in Objects(map) \cup {NoVehicle} /\ lead.id \in Int
  <2>1. lead \in Objects(map) \cup {NoVehicle}
    BY LeadType
  <2> HIDE DEF lead
  <2>2. QED
    BY <2>1 DEF Objects, NoVehicle, NoLead
<1>4. gap \in Int
  <2> HIDE DEF lead
  <2> QED
    BY <1>3, GapType DEF Unbounded
<1>5. /\ stop \in [node : Nat, distance : Nat] /\ light \in Lights \cup {"UNKNOWN"}
      /\ RouteS(e.link, e.s) + stop.distance \in Int
  BY StopType
<1>6. ahead \in SUBSET [id : Int, type : {"vehicle", "pedestrian", "obstacle"}, gap : Int,
                        ttc_below_1 : BOOLEAN]
  <2> HIDE DEF seen
  <2> SUFFICES ASSUME NEW o \in front
               PROVE  /\ o.id \in Int /\ o.type \in {"vehicle", "pedestrian", "obstacle"}
                      /\ Gap(e, o, gate) \in Int
                      /\ TtcBelow(e, o, Gap(e, o, gate), 1, 1) \in BOOLEAN
    OBVIOUS
  <2>1. o \in Objects(map)
    BY <1>2
  <2>2. QED
    BY <2>1, GapType DEF Objects, TtcBelow
<1>7. /\ LaneSafe(e, seen, gate, "left", 1) \in BOOLEAN
      /\ LaneSafe(e, seen, gate, "right", -1) \in BOOLEAN
      /\ walkers \in BOOLEAN
      /\ EmergencyRisk(e, front, lead, gate) \in BOOLEAN
  <2> HIDE DEF seen, front, lead
  <2> QED
    BY DEF LaneSafe, EmergencyRisk
<1>8. f = [gate |-> gate, link |-> e.link, speed |-> e.speed, stop |-> stop, light |-> light,
           stop_line_s |-> RouteS(e.link, e.s) + stop.distance,
           lead |-> lead, front_gap |-> gap, front |-> ahead,
           left_lane_safe |-> LaneSafe(e, seen, gate, "left", 1),
           right_lane_safe |-> LaneSafe(e, seen, gate, "right", -1),
           pedestrian_risk |-> walkers,
           emergency_risk |-> EmergencyRisk(e, front, lead, gate)]
  BY DEF Feature
<1> HIDE DEF seen, front, lead, stop, ahead, light, gap, walkers
<1>9. f.lead = lead /\ f.stop = stop /\ f.light = light
  BY <1>8
<1>10. f \in Features(map)
  BY <1>1, <1>3, <1>4, <1>5, <1>6, <1>7, <1>8 DEF Features
<1>11. QED
  BY <1>3, <1>9, <1>10 DEF stop, light

LEMMA DecideType ==
  ASSUME map \in Maps, NEW f \in Features(map)
  PROVE  Decide(f) \in Contexts(map)
<1>1. /\ f.link \in map.links \cup {NoLink} /\ f.speed \in Int /\ f.front_gap \in Int
      /\ f.lead \in Objects(map) \cup {NoVehicle} /\ f.stop_line_s \in Int
      /\ f.pedestrian_risk \in BOOLEAN /\ f.emergency_risk \in BOOLEAN
  BY DEF Features
<1>2. PICK i \in Candidates(f) : Selected(f) = Behaviors[i]
  BY Winner
<1>3. i \in 1..6
  BY CandidatesAre
<1>4. Selected(f) = "FOLLOW" => f.lead \in Objects(map)
  <2> SUFFICES ASSUME Selected(f) = "FOLLOW" PROVE f.lead \in Objects(map)
    OBVIOUS
  <2>1. i = 2
    BY <1>2, <1>3 DEF Behaviors
  <2>2. HasLead(f)
    BY <2>1, CandidatesAre
  <2>3. QED
    BY <1>1, <2>2 DEF HasLead
<1>5. SpeedLimit(f) \in Nat
  BY <1>1, MapsAssumption DEF SpeedLimit, DefaultSpeed
<1>6. DesiredSpeed(f, Selected(f)) \in Nat
  <2>1. CASE Selected(f) = "FOLLOW"
    <3>1. f.lead.speed \in Int
      BY <1>4, <2>1 DEF Objects
    <3>2. 10 * f.lead.speed + 4 * f.front_gap - 20 - 6 * f.speed \in Int
      BY <1>1, <3>1
    <3>3. QED
      BY <1>5, <2>1, <3>2 DEF DesiredSpeed, FollowSpeed, AtMost, AtLeast
  <2>2. CASE Selected(f) # "FOLLOW"
    BY <1>5, <2>2 DEF DesiredSpeed
  <2>3. QED
    BY <2>1, <2>2
<1>7. TargetLink(f, Selected(f)) \in map.links \cup {NoLink}
  BY <1>1, MapsAssumption DEF TargetLink, Target
<1>8. ForceStop(f) \in BOOLEAN
  BY DEF ForceStop
<1>9. (IF StopLineConstraint(f) THEN f.stop_line_s - 6 ELSE Unbounded) \in Int
  BY <1>1 DEF Unbounded
<1>10. Selected(f) \in {Behaviors[j] : j \in 1..6}
  BY <1>2, <1>3
<1>11. QED
  BY <1>6, <1>7, <1>8, <1>9, <1>10 DEF Decide, Contexts

(***************************************************************************)
(* Between iterations the messages, the feature and the decision are of     *)
(* their types, and appear together.                                        *)
(***************************************************************************)
LEMMA ObjectsType ==
  ASSUME map \in Maps, NEW list \in ObjectMessages(map) \cup {<<>>}
  PROVE  /\ list \in Seq(Objects(map))
         /\ \A gate \in SUBSET {list[i].id : i \in DOMAIN list} : gate \in SUBSET Int
<1>1. list \in Seq(Objects(map))
  <2>1. CASE list = <<>>
    BY <2>1
  <2>2. CASE list \in ObjectMessages(map)
    BY <2>2, MessagesAssumption
  <2>3. QED
    BY <2>1, <2>2
<1>2. \A s \in Seq(Objects(map)) : \A i \in DOMAIN s : s[i].id \in Int
  <2>1. ASSUME NEW s \in Seq(Objects(map)), NEW i \in DOMAIN s PROVE s[i] \in Objects(map)
    OBVIOUS
  <2>2. \A x \in Objects(map) : x.id \in Int
    BY DEF Objects
  <2>3. QED
    BY <2>1, <2>2
<1>3. QED
  BY <1>1, <1>2

LEMMA IterateTypes ==
  ASSUME TypeOK, Iterate
  PROVE  /\ TypeOK'
         /\ feature'.stop = FindNextStopLine(map, ego'.link, ego'.s, StopLookahead)
         /\ feature'.light =
              IF feature'.stop = NoStopLine THEN "UNKNOWN" ELSE lights[feature'.stop.node]
<1>1. map \in Maps /\ lights \in [map.stops -> Lights] /\ last_lead_vehicle_id \in Int
  BY DEF TypeOK
<1>2. PICK e, list, gate :
          /\ e \in EgoMessages(map) \cup ({ego} \ {None})
          /\ list \in ObjectMessages(map) \cup {objects}
          /\ gate \in SUBSET {list[i].id : i \in DOMAIN list}
          /\ ego' = e
          /\ objects' = list
          /\ feature' = Feature(e, list, gate, last_lead_vehicle_id)
          /\ last_lead_vehicle_id' = feature'.lead.id
          /\ context' = Decide(feature')
          /\ map' = map /\ lights' = lights
  BY DEF Iterate
<1>4. e \in EgoMessages(map) /\ list \in ObjectMessages(map) \cup {<<>>}
  BY <1>2 DEF TypeOK
<1>5. list \in Seq(Objects(map)) /\ gate \in SUBSET Int
  BY <1>1, <1>2, <1>4, ObjectsType
<1>6. /\ feature' \in Features(map) /\ feature'.lead.id \in Int
      /\ feature'.stop = FindNextStopLine(map, e.link, e.s, StopLookahead)
      /\ feature'.light =
              IF feature'.stop = NoStopLine THEN "UNKNOWN" ELSE lights[feature'.stop.node]
  <2>1. PICK f : f = Feature(e, list, gate, last_lead_vehicle_id)
    OBVIOUS
  <2>2. /\ f \in Features(map) /\ f.lead.id \in Int
        /\ f.stop = FindNextStopLine(map, e.link, e.s, StopLookahead)
        /\ f.light = IF f.stop = NoStopLine THEN "UNKNOWN" ELSE lights[f.stop.node]
    BY <1>1, <1>4, <1>5, <2>1, FeatureType
  <2>3. QED
    BY <1>2, <2>1, <2>2
<1>7. context' \in Contexts(map)
  <2>1. PICK f : f = feature'
    OBVIOUS
  <2>2. Decide(f) \in Contexts(map)
    BY <1>1, <1>6, <2>1, DecideType
  <2>3. QED
    BY <1>2, <2>1, <2>2
<1>8. feature' # None /\ context' # None /\ e # None
  BY <1>1, <1>4, <1>6, <1>7, NoneAssumption, MessagesAssumption
<1>9. /\ map' \in Maps /\ lights' \in [map'.stops -> Lights]
      /\ Features(map)' = Features(map') /\ Contexts(map)' = Contexts(map')
      /\ ego' \in EgoMessages(map')
      /\ objects' \in ObjectMessages(map') \cup {<<>>}
      /\ feature' \in Features(map')
      /\ context' \in Contexts(map')
  BY <1>1, <1>2, <1>4, <1>6, <1>7
<1>10. TypeOK'
  BY <1>2, <1>6, <1>8, <1>9 DEF TypeOK
<1>11. QED
  BY <1>2, <1>6, <1>10

(***************************************************************************)
(* Whatever the map, the lights and the messages: every decision names a    *)
(* behaviour, a link of the map or none, and a speed that is not negative.  *)
(***************************************************************************)
THEOREM TypeCorrect == Spec => []TypeOK
<1>1. Init => TypeOK
  BY DEF Init, TypeOK, NoLead
<1>2. TypeOK /\ [Next]_vars => TypeOK'
  <2> SUFFICES ASSUME TypeOK, [Next]_vars PROVE TypeOK'
    OBVIOUS
  <2>1. CASE Waiting
    BY <2>1 DEF Waiting, TypeOK
  <2>2. CASE Iterate
    BY <2>2, IterateTypes
  <2>3. CASE UNCHANGED vars
    BY <2>3 DEF vars, TypeOK
  <2>4. QED
    BY <2>1, <2>2, <2>3 DEF Next
<1>3. QED
  BY <1>1, <1>2, PTL DEF Spec

(***************************************************************************)
(* The gap to an object ahead is the length of a way to it along the links, *)
(* within the lookahead, on any map: with cycles, forks and branches that   *)
(* join again.                                                              *)
(***************************************************************************)
THEOREM GapsAreWays == Spec => []GapIsOfSomeWay
<1>1. TypeOK => GapIsOfSomeWay
  <2> SUFFICES ASSUME TypeOK, Decided, NEW i \in DOMAIN objects,
                      NEW o, o = objects[i],
                      NEW ways, ways = WalkLengths(map, ego.link, ego.s, o.link, o.s),
                      ego.link # NoLink, o.link # ego.link,
                      NEW near, near = {w \in ways : w <= FrontLookahead}
               PROVE  IF near = {} THEN ~InFront(ego, o, feature.gate)
                      ELSE TopologyGap(ego, o) \in near
    BY DEF GapIsOfSomeWay
  <2>1. map \in Maps /\ ego \in EgoMessages(map) /\ objects \in ObjectMessages(map) \cup {<<>>}
    BY DEF TypeOK, Decided
  <2>2. ego.link \in map.links \cup {NoLink} /\ ego.s \in Nat
    BY <2>1, EgoType
  <2>3. o \in Objects(map)
    BY <2>1, ObjectsType
  <2>4. PICK r : r = TopologyGap(ego, o)
    OBVIOUS
  <2>5. WayOrNone(r, ways, FrontLookahead)
    BY <2>1, <2>3, <2>4, GapIsWay
  <2>6. QED
    BY <2>4, <2>5 DEF InFront, WayOrNone
<1>2. QED
  BY <1>1, TypeCorrect, PTL

(***************************************************************************)
(* The feature shows the stop line the search found, and its light.         *)
(***************************************************************************)
StopIsShown ==
  Decided =>
    /\ feature.stop = FindNextStopLine(map, ego.link, ego.s, StopLookahead)
    /\ feature.light = IF feature.stop = NoStopLine THEN "UNKNOWN" ELSE lights[feature.stop.node]

\* That holds of every iteration: the place and light published are those of
\* findNextStopLine() and of the provider.
THEOREM StopShown == Spec => []StopIsShown
<1>1. Init => StopIsShown
  BY DEF Init, StopIsShown, Decided
<1>2. TypeOK /\ StopIsShown /\ [Next]_vars => StopIsShown'
  <2> SUFFICES ASSUME TypeOK, StopIsShown, [Next]_vars PROVE StopIsShown'
    OBVIOUS
  <2>1. CASE Waiting \/ UNCHANGED vars
    <3>1. UNCHANGED <<map, lights, ego, feature>>
      BY <2>1 DEF Waiting, vars
    <3>2. QED
      BY <3>1 DEF StopIsShown, Decided
  <2>2. CASE Iterate
    <3>1. map' = map /\ lights' = lights
      BY <2>2 DEF Iterate
    <3>2. QED
      BY <2>2, <3>1, IterateTypes DEF StopIsShown
  <2>3. QED
    BY <2>1, <2>2 DEF Next
<1>3. QED
  BY <1>1, <1>2, TypeCorrect, PTL DEF Spec

LEMMA ForcedStopStands ==
  ASSUME NEW f, ForceStop(f)
  PROVE  DesiredSpeed(f, Selected(f)) = 0
<1>1. PICK i \in Candidates(f) : Wins(f, i) /\ Selected(f) = Behaviors[i]
  BY Winner
<1>2. i \in 1..6 /\ 5 \in Candidates(f)
  BY CandidatesAre
<1>3. Points(f, i) > 100000 \/ Points(f, i) = 100000
  BY <1>1, <1>2, PointsAre DEF Wins
<1>4. i \in {5, 6}
  BY <1>2, <1>3, PointsAre
<1>5. QED
  BY <1>1, <1>4 DEF Behaviors, DesiredSpeed

(***************************************************************************)
(* If every way ahead meets a red or yellow stop line within the window,    *)
(* the vehicle is told to stand, on any map: the search may settle for any  *)
(* of them, but it settles for one.                                         *)
(***************************************************************************)
THEOREM RedIsHeeded == Spec => []RedOnEveryWayStops
<1>1. TypeOK /\ StopIsShown /\ Coherent => RedOnEveryWayStops
  <2> SUFFICES ASSUME TypeOK, StopIsShown, Coherent, Decided,
                      NEW first, first = FirstStopLines(map, ego.link, ego.s), first # {},
                      \A w \in first : /\ w.distance <= StopWindow
                                       /\ lights[w.node] \in {"RED", "YELLOW"}
               PROVE  context.desired_speed = 0
    BY DEF RedOnEveryWayStops
  <2>1. map \in Maps /\ ego \in EgoMessages(map)
    BY DEF TypeOK, Decided
  <2>2. ego.link \in map.links \cup {NoLink} /\ ego.s \in Nat
    BY <2>1, EgoType
  <2>3. StopLookahead \in Nat /\ StopLookahead < Far
    BY DEF StopLookahead, Far
  <2>4. PICK stop : stop = FindNextStopLine(map, ego.link, ego.s, StopLookahead)
    OBVIOUS
  <2>5. first \in SUBSET Bests
        /\ (\/ stop \in first
            \/ stop = NoStopLine /\ \A w \in first : w.distance > StopLookahead)
    BY <2>1, <2>2, <2>3, <2>4, NextStopLine
  <2>6. stop \in first
    <3>1. ASSUME NEW w \in first, w.distance > StopLookahead PROVE FALSE
      BY <2>5, <3>1 DEF StopLookahead, StopWindow, Bests
    <3>2. QED
      BY <2>5, <3>1
  <2>7. stop # NoStopLine
    BY <2>6 DEF NoStopLine, StopWindow, Far
  <2>8. feature.stop = stop /\ feature.light = lights[stop.node]
    BY <2>4, <2>7 DEF StopIsShown
  <2>9. ForceStop(feature)
    BY <2>6, <2>7, <2>8 DEF ForceStop, StopLineConstraint
  <2>10. DesiredSpeed(feature, Selected(feature)) = 0
    BY <2>9, ForcedStopStands
  <2>11. QED
    BY <2>10 DEF Coherent, Decided, Decide
<1>2. QED
  BY <1>1, TypeCorrect, StopShown, CoherentInvariant, PTL
==============================================================================
