--------------------------- MODULE MCRiderPayouts ---------------------------
(* RiderPayouts with one rider and earnings of equal amount: payouts and runs *)
(* are interchangeable.                                                       *)
EXTENDS RiderPayouts, TLC

Owner == [e \in Earnings |-> 1]
Fee == [e \in Earnings |-> 1]

Symmetry == Permutations(Payouts) \cup Permutations(Runs)
=============================================================================
