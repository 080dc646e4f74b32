------------------------- MODULE MCSequencerEnclave -------------------------
(* A root r with two branches; the left one forks again at its first block.  *)
EXTENDS RollupCompression

MCBlock == {"r", "a1", "a2", "a3", "b1", "c2"}

MCParent ==
  [b \in MCBlock |->
     CASE b = "r" -> NoBlock
       [] b \in {"a1", "b1"} -> "r"
       [] b \in {"a2", "c2"} -> "a1"
       [] b = "a3" -> "a2"]

MCNumber[b \in MCBlock] == IF b = "r" THEN 1 ELSE MCNumber[MCParent[b]] + 1

MCAnc[b \in MCBlock] == {b} \cup (IF b = "r" THEN {} ELSE MCAnc[MCParent[b]])
=============================================================================
