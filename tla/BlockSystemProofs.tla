-------------------------- MODULE BlockSystemProofs --------------------------
(***************************************************************************)
(* The block rule of BlockSystem, for every set of trains and every ring   *)
(* of blocks.  Coaster inherits it through CoasterBlocks.                  *)
(***************************************************************************)
EXTENDS BlockSystem, TLAPS

\* The ring need not even be closed.
Block == Ring \cup {Ahead[b] : b \in Ring}

\* Exclusive is inductive once it is known that holds is a function.
ExclusiveInv ==
  /\ holds \in [Train -> SUBSET Block]
  /\ Exclusive

(***************************************************************************)
(* No two trains of a block system ever hold the same block: claiming only *)
(* free blocks is enough, however many trains there are, in whatever order *)
(* they move, and even on a ring that is too short for them.               *)
(***************************************************************************)
THEOREM BlocksAreExclusive == Spec => []Exclusive
<1>1. Init => ExclusiveInv
  BY DEF Init, ExclusiveInv, Exclusive, Block
<1>2. ExclusiveInv /\ [Next]_holds => ExclusiveInv'
  <2> SUFFICES ASSUME ExclusiveInv, [Next]_holds
               PROVE  ExclusiveInv'
    OBVIOUS
  <2> USE DEF ExclusiveInv, Exclusive
  <2>1. ASSUME NEW t \in Train, Claim(t)
        PROVE  ExclusiveInv'
    <3>1. PICK b \in Ring : /\ holds[t] = {b}
                            /\ Free(Ahead[b])
                            /\ holds' = [holds EXCEPT ![t] = {b, Ahead[b]}]
      BY <2>1 DEF Claim
    <3>2. b \in Block /\ Ahead[b] \in Block
      BY DEF Block
    <3>3. ASSUME NEW u \in Train, u # t
          PROVE  holds'[t] \cap holds'[u] = {}
      \* b was t's own, and nobody had the block ahead of it.
      <4>1. b \notin holds[u]
        BY <3>1, <3>3
      <4>2. Ahead[b] \notin holds[u]
        BY <3>1 DEF Free
      <4>3. holds'[t] = {b, Ahead[b]} /\ holds'[u] = holds[u]
        BY <3>1, <3>3
      <4> QED
        BY <4>1, <4>2, <4>3
    <3>4. ASSUME NEW u \in Train, NEW v \in Train, u # t, v # t, u # v
          PROVE  holds'[u] \cap holds'[v] = {}
      BY <3>1, <3>4
    <3>5. holds' \in [Train -> SUBSET Block]
      BY <3>1, <3>2
    <3> QED
      BY <3>3, <3>4, <3>5
  <2>2. ASSUME NEW t \in Train, Release(t)
        PROVE  ExclusiveInv'
    <3>1. PICK b \in Ring : /\ holds[t] = {b, Ahead[b]}
                            /\ holds' = [holds EXCEPT ![t] = {Ahead[b]}]
      BY <2>2 DEF Release
    <3>2. holds' \in [Train -> SUBSET Block]
      <4>1. Ahead[b] \in Block
        BY DEF Block
      <4> QED
        BY <3>1, <4>1
    <3>3. \A u \in Train : holds'[u] \subseteq holds[u]
      BY <3>1
    <3> QED
      BY <3>2, <3>3
  <2>3. CASE UNCHANGED holds
    BY <2>3
  <2> QED
    BY <2>1, <2>2, <2>3 DEF Next
<1>3. ExclusiveInv => Exclusive
  BY DEF ExclusiveInv
<1> QED
  BY <1>1, <1>2, <1>3, PTL DEF Spec
=============================================================================
