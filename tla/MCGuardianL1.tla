---------------------------- MODULE MCGuardianL1 ----------------------------
(* A root, a branch of one block and one of three.                          *)
EXTENDS GuardianL1

MCBlock == {"r", "a1", "b1", "b2", "b3"}

MCParent ==
  [b \in MCBlock |->
     CASE b = "r" -> NoBlock
       [] b \in {"a1", "b1"} -> "r"
       [] b = "b2" -> "b1"
       [] b = "b3" -> "b2"]

MCNumber[b \in MCBlock] == IF b = "r" THEN 1 ELSE MCNumber[MCParent[b]] + 1

MCAnc[b \in MCBlock] == {b} \cup (IF b = "r" THEN {} ELSE MCAnc[MCParent[b]])
=============================================================================
