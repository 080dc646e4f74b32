------------------------- MODULE MCValidatorEnclave -------------------------
(* A root r with two branches, of two blocks and of one.                     *)
EXTENDS ValidatorEnclave

MCBlock == {"r", "a1", "a2", "b1"}

MCParent ==
  [b \in MCBlock |->
     CASE b = "r" -> NoBlock
       [] b \in {"a1", "b1"} -> "r"
       [] b = "a2" -> "a1"]

MCNumber[b \in MCBlock] == IF b = "r" THEN 1 ELSE MCNumber[MCParent[b]] + 1

MCAnc[b \in MCBlock] == {b} \cup (IF b = "r" THEN {} ELSE MCAnc[MCParent[b]])
=============================================================================
