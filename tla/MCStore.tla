------------------------------- MODULE MCStore -------------------------------
(***************************************************************************)
(* The delta log, or the item references: a behaviour is one or the        *)
(* other.                                                                  *)
(***************************************************************************)
EXTENDS MCDeltaLog, ItemReferences

VARIABLE part

StoreInit ==
  /\ Init /\ ReferencesInit
  /\ part \in {"log", "references"}
StoreNext ==
  /\ part' = part
  /\ \/ part = "log" /\ Next /\ UNCHANGED references
     \/ part = "references" /\ ReferencesNext /\ UNCHANGED vars
StoreSpec == StoreInit /\ [][StoreNext]_<<vars, references, part>>

StoreSymmetry == Symmetry \cup Permutations(Requests)
=============================================================================
