------------------------------- MODULE Totals -------------------------------
(***************************************************************************)
(* The sum of a sequence of numbers, as the loops of the program add it    *)
(* up: element by element, from the first.                                 *)
(***************************************************************************)
EXTENDS Integers, Sequences

Total(numbers) ==
    LET total[n \in 0..Len(numbers)] == IF n = 0 THEN 0 ELSE total[n - 1] + numbers[n]
    IN  total[Len(numbers)]
=============================================================================
