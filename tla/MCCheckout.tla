----------------------------- MODULE MCCheckout -----------------------------
(* Checkout with two taps of one customer, and one of another; one code is   *)
(* scarce for everybody, the other for each customer.                        *)
EXTENDS Checkout, TLC

CONSTANTS a1, a2, b1

KeyOfTap == [r \in Requests |-> IF r = b1 THEN "kb" ELSE "ka"]
OwnerOf == [k \in Keys |-> IF k = "kb" THEN "bola" ELSE "ada"]
Overall == [c \in Codes |-> IF c = "first" THEN 1 ELSE 2]
Each == [c \in Codes |-> IF c = "first" THEN 2 ELSE 1]

Symmetry == Permutations({a1, a2})
=============================================================================
