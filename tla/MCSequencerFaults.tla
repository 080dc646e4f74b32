------------------------- MODULE MCSequencerFaults -------------------------
(* A root r with two branches of two blocks each.                            *)
EXTENDS SequencerFaults

MCBlock == {"r", "a1", "a2", "b1", "b2"}

MCParent ==
  [b \in MCBlock |->
     CASE b = "r" -> NoBlock
       [] b \in {"a1", "b1"} -> "r"
       [] b = "a2" -> "a1"
       [] b = "b2" -> "b1"]

MCNumber[b \in MCBlock] == IF b = "r" THEN 1 ELSE MCNumber[MCParent[b]] + 1

MCAnc[b \in MCBlock] == {b} \cup (IF b = "r" THEN {} ELSE MCAnc[MCParent[b]])
=============================================================================
