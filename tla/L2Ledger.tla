------------------------------ MODULE L2Ledger ------------------------------
(***************************************************************************)
(* What the L2 promises its users: a ledger, from batch height to the      *)
(* transactions of that height, that only grows at its end.  L1 reorgs,    *)
(* the batches produced again and restarts do not show.                    *)
(***************************************************************************)
EXTENDS Naturals

CONSTANT Content  \* what a batch may hold

VARIABLE ledger

Init == ledger = [h \in {} |-> 0]

\* the next height: the first, or the one above the last
Free == ({0} \cup {h + 1 : h \in DOMAIN ledger}) \ DOMAIN ledger

Extend(n, c) == ledger' = [h \in DOMAIN ledger \cup {n} |-> IF h = n THEN c ELSE ledger[h]]

Next == \E n \in Free, c \in Content : Extend(n, c)

Spec == Init /\ [][Next]_ledger
=============================================================================
