--------------------------- MODULE MCBehaviorNode ---------------------------
(***************************************************************************)
(* Small maps and messages for BehaviorNode.                                *)
(***************************************************************************)
EXTENDS BehaviorNode

\* A road that forks to two stop lines, the farther on the link with the larger
\* id; link 4 runs beside link 1, on its left.
Fork ==
  [links |-> 1..4,
   from |-> <<1, 2, 2, 5>>, to |-> <<2, 3, 4, 6>>, length |-> <<20, 8, 14, 20>>,
   stops |-> {3, 4},
   left |-> <<4, 0, 0, 0>>, right |-> <<0, 0, 0, 1>>,
   movable |-> [left |-> {1}, right |-> {4}],
   limit |-> <<13, 13, 0, 13>>,
   base |-> <<0, 20, 20, 0>>, offset |-> <<0, 0, -60, 35>>,
   places |-> {<<1, 2>>, <<1, 18>>, <<4, 10>>},
   spots |-> {<<1, 4>>, <<3, 12>>, <<4, 8>>}]

\* Two branches of unequal length that join again: the join is expanded first
\* from the one that starts nearer, not from the one that ends nearer.  A short
\* loop leads back to the start.
Rejoin ==
  [links |-> 1..6,
   from |-> <<1, 2, 2, 3, 4, 5>>, to |-> <<2, 4, 3, 4, 5, 1>>,
   length |-> <<10, 90, 5, 5, 25, 10>>,
   stops |-> {5},
   left |-> <<0, 0, 0, 0, 0, 0>>, right |-> <<0, 0, 0, 0, 0, 0>>,
   movable |-> [left |-> {}, right |-> {}],
   limit |-> <<13, 13, 8, 8, 13, 0>>,
   base |-> <<0, 10, 10, 15, 20, 45>>, offset |-> <<0, -60, 0, 0, 0, 0>>,
   places |-> {<<1, 5>>, <<3, 0>>, <<6, 2>>},
   spots |-> {<<3, 2>>, <<5, 8>>}]

MCMaps == {Fork, Rejoin}

MCEgoMessages(m) ==
  {[link |-> p[1], s |-> p[2], speed |-> 12] : p \in m.places}
  \cup {[link |-> 1, s |-> 2, speed |-> 4], [link |-> NoLink, s |-> 5, speed |-> 4]}

\* Two slow vehicles, each at one of the spots, the first speeding up and the
\* second slowing down; or one other object, on the map or off it.
Vehicle(id, p, braking) ==
  [id |-> id, type |-> "vehicle", link |-> p[1], s |-> p[2] + id, lat |-> 0,
   speed |-> 3, braking |-> braking]
Others(m) ==
  {[id |-> 3, type |-> t, link |-> p[1], s |-> p[2], lat |-> 20, speed |-> 0, braking |-> 0] :
     p \in m.spots \cup {<<NoLink, 8>>}, t \in {"pedestrian", "obstacle"}}
MCObjectMessages(m) ==
  {<<>>} \cup {<<a>> : a \in Others(m)}
  \cup {<<Vehicle(1, p, -2), Vehicle(2, q, 2)>> : p \in m.spots, q \in m.spots}
=============================================================================
