------------------------------- MODULE L1Tree -------------------------------
(***************************************************************************)
(* The L1 blocks a TEN node can be shown, as a tree.  A block header       *)
(* carries the hash of its parent and its number (geth types.Header); a    *)
(* block is identified by its hash, so blocks are opaque values here.      *)
(*                                                                         *)
(* Anc[b] is the set of blocks on the path from b down to its root, b      *)
(* included.  The code never holds that set: it follows ParentHash one     *)
(* block at a time (see LCA.tla).  It is a constant, tied to Parent by the *)
(* assumption below, so that theorems can speak of ancestors without an    *)
(* induction over the length of the path.                                  *)
(***************************************************************************)
EXTENDS Integers

CONSTANTS
  Block,    \* the L1 blocks
  NoBlock,  \* not a block: the parent of a root, the head of an empty chain
  Parent,   \* Header.ParentHash: the block below, NoBlock if out of the tree
  Number,   \* Header.Number: the height of a block
  Anc       \* the ancestors of a block, itself included

\* The links and heights of a chain of headers.
ASSUME HeadersAssumption ==
  /\ NoBlock \notin Block
  /\ Parent \in [Block -> Block \cup {NoBlock}]
  /\ Number \in [Block -> Nat]
  /\ \A b \in Block : Parent[b] \in Block => Number[b] = Number[Parent[b]] + 1

\* Anc is the reflexive and transitive closure of Parent; the ancestors of a
\* block are ordered by their height.
ASSUME AncestorsAssumption ==
  /\ Anc \in [Block -> SUBSET Block]
  /\ \A b \in Block :
       Anc[b] = {b} \cup (IF Parent[b] \in Block THEN Anc[Parent[b]] ELSE {})
  /\ \A b \in Block : \A a \in Anc[b] :
       /\ Anc[a] \subseteq Anc[b]
       /\ a # b => Number[a] < Number[b]
  /\ \A b \in Block : \A a, c \in Anc[b] :
       Number[a] <= Number[c] => a \in Anc[c]
=============================================================================
