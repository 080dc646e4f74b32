-------------------------------- MODULE LCA --------------------------------
(***************************************************************************)
(* gethutil.LCA: the latest common ancestor of the block that becomes the  *)
(* L1 head (newCanonical) and the previous head (oldCanonical), with the   *)
(* blocks that become canonical and the ones that leave the canonical      *)
(* chain.  internalLCA is tail recursive: a call is a step of this         *)
(* specification, its parameters are the variables.                        *)
(***************************************************************************)
EXTENDS L1Tree

CONSTANT Stored  \* the blocks the resolver (the enclave's storage) can fetch

ASSUME StoredAssumption == Stored \subseteq Block

\* an L1 has one genesis block
ASSUME GenesisAssumption ==
  \A a, b \in Block : Number[a] = 0 /\ Number[b] = 0 => a = b

VARIABLES
  args,              \* the arguments of LCA: <<newCanonical, oldCanonical>>
  newCanonical,      \* the parameters of the current call of internalLCA
  oldCanonical,
  canonicalPath,     \* the lists of hashes collected on the way, as sets:
  nonCanonicalPath,  \* no caller depends on their order
  result             \* "walking", "found" or "error" (a parent is not stored)

lcaVars == <<args, newCanonical, oldCanonical, canonicalPath, nonCanonicalPath, result>>

L1GenesisHeight == 0

LCAInit ==
  /\ args \in Stored \X Stored
  /\ newCanonical = args[1]
  /\ oldCanonical = args[2]
  /\ canonicalPath = {}
  /\ nonCanonicalPath = {}
  /\ result = "walking"

AtGenesis ==
  \/ Number[newCanonical] = L1GenesisHeight
  \/ Number[oldCanonical] = L1GenesisHeight

\* one of the two blocks is the L1 genesis block: the walk stops there
StopAtGenesis ==
  /\ result = "walking"
  /\ AtGenesis
  /\ result' = "found"
  /\ UNCHANGED <<args, newCanonical, oldCanonical, canonicalPath, nonCanonicalPath>>

\* Mutant: the common ancestor is left out of the canonical path.
StopAtAncestorMutant ==
  /\ result = "walking"
  /\ ~AtGenesis
  /\ newCanonical = oldCanonical
  /\ result' = "found"
  /\ UNCHANGED <<args, newCanonical, oldCanonical, canonicalPath, nonCanonicalPath>>

\* the common ancestor, which is added to the canonical path
StopAtAncestor ==
  /\ result = "walking"
  /\ ~AtGenesis
  /\ newCanonical = oldCanonical
  /\ canonicalPath' = canonicalPath \cup {newCanonical}
  /\ result' = "found"
  /\ UNCHANGED <<args, newCanonical, oldCanonical, nonCanonicalPath>>

\* which of the two blocks the call replaces by its parent
StepNew == Number[newCanonical] >= Number[oldCanonical]
StepOld == Number[oldCanonical] >= Number[newCanonical]

Walking ==
  /\ result = "walking"
  /\ ~AtGenesis
  /\ newCanonical # oldCanonical

\* Mutant: the parent of both blocks is always fetched.
ParentsStoredMutant ==
  Parent[newCanonical] \in Stored /\ Parent[oldCanonical] \in Stored

\* Mutant: the error of the resolver is not looked at.
ParentsStoredMutant2 == TRUE

ParentsStored ==
  /\ StepNew => Parent[newCanonical] \in Stored
  /\ StepOld => Parent[oldCanonical] \in Stored

\* Mutant: the recursive call passes the old block itself, not its parent.
StepDownMutant ==
  /\ Walking
  /\ ParentsStored
  /\ IF StepNew
       THEN /\ newCanonical' = Parent[newCanonical]
            /\ canonicalPath' = canonicalPath \cup {newCanonical}
       ELSE UNCHANGED <<newCanonical, canonicalPath>>
  /\ UNCHANGED <<args, result, oldCanonical, nonCanonicalPath>>

\* the higher block steps down to its parent, both do at the same height
StepDown ==
  /\ Walking
  /\ ParentsStored
  /\ IF StepNew
       THEN /\ newCanonical' = Parent[newCanonical]
            /\ canonicalPath' = canonicalPath \cup {newCanonical}
       ELSE UNCHANGED <<newCanonical, canonicalPath>>
  /\ IF StepOld
       THEN /\ oldCanonical' = Parent[oldCanonical]
            /\ nonCanonicalPath' = nonCanonicalPath \cup {oldCanonical}
       ELSE UNCHANGED <<oldCanonical, nonCanonicalPath>>
  /\ UNCHANGED <<args, result>>

\* the resolver cannot fetch a parent
MissingParent ==
  /\ Walking
  /\ ~ParentsStored
  /\ result' = "error"
  /\ UNCHANGED <<args, newCanonical, oldCanonical, canonicalPath, nonCanonicalPath>>

LCANext == StopAtGenesis \/ StopAtAncestor \/ StepDown \/ MissingParent

LCASpec == LCAInit /\ [][LCANext]_lcaVars /\ WF_lcaVars(LCANext)
-----------------------------------------------------------------------------
LCATypeOK ==
  /\ args \in Stored \X Stored
  /\ newCanonical \in Stored
  /\ oldCanonical \in Stored
  /\ canonicalPath \subseteq Stored
  /\ nonCanonicalPath \subseteq Stored
  /\ result \in {"walking", "found", "error"}

\* neither argument of LCA is the L1 genesis block (for which the code returns
\* at once, with empty paths)
AboveGenesis == Number[args[1]] # L1GenesisHeight /\ Number[args[2]] # L1GenesisHeight

\* What LCA returns, stated without the walk: the block found is the highest
\* common ancestor; NonCanonicalPath is what only the old head has below it,
\* CanonicalPath what only the new head has, with the common ancestor (unless
\* that is the L1 genesis block).  StoreBlock and duplicateBatches flip the
\* canonical flag of exactly those blocks (storage.go, sequencer.go).
PathsAreTheFork ==
  result = "found" /\ AboveGenesis =>
    LET common == Anc[args[1]] \cap Anc[args[2]]
    IN  /\ newCanonical \in common
        /\ \A a \in common : Number[a] <= Number[newCanonical]
        /\ nonCanonicalPath = Anc[args[2]] \ Anc[args[1]]
        /\ canonicalPath \cup {newCanonical} = (Anc[args[1]] \ Anc[args[2]]) \cup {newCanonical}
        /\ newCanonical \in canonicalPath <=> Number[newCanonical] # L1GenesisHeight

\* LCA gives up only when a block it needs is really out of reach: some block
\* between a head and the highest common ancestor is not stored, or there is
\* none (ingestBlock turns this into ErrBlockAncestorNotFound).
ErrorMeansGap ==
  result = "error" =>
    LET common == Anc[args[1]] \cap Anc[args[2]]
    IN  \/ ~(Anc[args[1]] \ Anc[args[2]] \subseteq Stored)
        \/ ~(Anc[args[2]] \ Anc[args[1]] \subseteq Stored)
        \/ ~(\E a \in common \cap Stored : \A c \in common : Number[c] <= Number[a])

\* the recursion ends
Terminates == <>(result # "walking")
=============================================================================
