------------------------- MODULE MCCompletionBudget -------------------------
(* Instances of CompletionBudget for TLC: rates in thirds.                  *)
EXTENDS CompletionBudget

MCEquivalences ==
    {[uncached |-> 1, cached |-> 0, output |-> 2],    \* discounted output
     [uncached |-> 4, cached |-> 1, output |-> 6]}    \* a dear model
MCGrants == {2, Unlimited}
MCCaps == {1, Unlimited}
MCInputs == {0, 1}
=============================================================================
