------------------------ MODULE MCBatchHeightCache -------------------------
(* A root r with a branch of one block and a branch of two.                  *)
EXTENDS BatchHeightCache

MCBlock == {"r", "a1", "a2", "b1"}

MCParent ==
  [b \in MCBlock |->
     CASE b = "r" -> NoBlock
       [] b \in {"a1", "b1"} -> "r"
       [] b = "a2" -> "a1"]

MCNumber[b \in MCBlock] == IF b = "r" THEN 1 ELSE MCNumber[MCParent[b]] + 1

MCAnc[b \in MCBlock] == {b} \cup (IF b = "r" THEN {} ELSE MCAnc[MCParent[b]])
=============================================================================
