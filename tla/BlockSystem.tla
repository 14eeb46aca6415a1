----------------------------- MODULE BlockSystem -----------------------------
(***************************************************************************)
(* Block signalling on a ring of blocks, without sensors, motors, modes or *)
(* rounds: a train claims the block ahead while nobody else holds it, and  *)
(* gives up its old one when it has got there.  CoasterBlocks shows that   *)
(* the control thread of controller.c implements it.                       *)
(***************************************************************************)
CONSTANTS
  Train, \* the trains
  Ring,  \* its blocks
  Ahead  \* Ahead[b]: the block after b, in [Ring -> Ring]

VARIABLE holds \* holds[t]: the blocks that train t keeps others out of

Free(b) == \A t \in Train : b \notin holds[t]

Init ==
  /\ holds \in [Train -> {{b} : b \in Ring}]
  /\ \A t, u \in Train : t # u => holds[t] # holds[u]

Claim(t) ==
  \E b \in Ring :
    /\ holds[t] = {b}
    /\ Free(Ahead[b])
    /\ holds' = [holds EXCEPT ![t] = {b, Ahead[b]}]

Release(t) ==
  \E b \in Ring :
    /\ holds[t] = {b, Ahead[b]}
    /\ holds' = [holds EXCEPT ![t] = {Ahead[b]}]

Next == \E t \in Train : Claim(t) \/ Release(t)

Spec == Init /\ [][Next]_holds

-----------------------------------------------------------------------------
(***************************************************************************)
(* The block rule: no block is held by two trains.                         *)
(***************************************************************************)
Exclusive == \A t, u \in Train : t # u => holds[t] \cap holds[u] = {}
=============================================================================
