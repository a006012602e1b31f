----------------------------- MODULE MCFollowing -----------------------------
(***************************************************************************)
(* Small instance of Following: two vehicles are interchangeable.           *)
(***************************************************************************)
EXTENDS Following, TLC

Swap == Permutations(Ids)
==============================================================================
