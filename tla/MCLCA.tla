------------------------------- MODULE MCLCA -------------------------------
(* An L1 with its genesis block g, two forks at height 2 and one at 3, and  *)
(* a branch whose lowest block x2 the enclave never stored.                 *)
EXTENDS LCA

MCBlock == {"g", "a1", "a2", "a3", "a4", "b2", "b3", "b4", "c3", "c4", "x2", "x3", "x4"}

MCParent ==
  [b \in MCBlock |->
     CASE b = "g" -> NoBlock
       [] b = "a1" -> "g"
       [] b \in {"a2", "b2", "x2"} -> "a1"
       [] b \in {"a3", "c3"} -> "a2"
       [] b = "a4" -> "a3"
       [] b = "c4" -> "c3"
       [] b = "b3" -> "b2"
       [] b = "b4" -> "b3"
       [] b = "x3" -> "x2"
       [] b = "x4" -> "x3"]

MCNumber[b \in MCBlock] == IF b = "g" THEN 0 ELSE MCNumber[MCParent[b]] + 1

MCAnc[b \in MCBlock] == {b} \cup (IF b = "g" THEN {} ELSE MCAnc[MCParent[b]])

MCStored == MCBlock \ {"x2"}
=============================================================================
