--------------------------- MODULE MCBatchCatchUp ---------------------------
(* One L1 block: the L1 stands still.                                       *)
EXTENDS BatchCatchUp

MCBlock == {"r"}
MCParent == [b \in MCBlock |-> NoBlock]
MCNumber == [b \in MCBlock |-> 1]
MCAnc == [b \in MCBlock |-> {b}]
=============================================================================
