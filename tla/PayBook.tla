------------------------------ MODULE PayBook ------------------------------
(***************************************************************************)
(* What a rider payout promises, seen from the bank: an earning is paid    *)
(* for by at most one transfer at a time, a transfer pays a set of         *)
(* earnings at once and never pays again, and only a reversal, which       *)
(* brings the money back, makes an earning payable a second time.          *)
(***************************************************************************)
EXTENDS Integers

CONSTANTS Earnings, Payouts, Nobody

VARIABLES
  paidBy,   \* the transfer whose money the rider has, by earning
  spent     \* transfers that have paid

vars == <<paidBy, spent>>

Init ==
  /\ paidBy = [e \in Earnings |-> Nobody]
  /\ spent = {}

Pay(p, es) ==
  /\ p \notin spent
  /\ \A e \in es : paidBy[e] = Nobody
  /\ paidBy' = [e \in Earnings |-> IF e \in es THEN p ELSE paidBy[e]]
  /\ spent' = spent \cup {p}

Reverse(p) ==
  /\ p \in spent
  /\ paidBy' = [e \in Earnings |-> IF paidBy[e] = p THEN Nobody ELSE paidBy[e]]
  /\ UNCHANGED spent

Next == \E p \in Payouts : Reverse(p) \/ \E es \in SUBSET Earnings : Pay(p, es)

Spec == Init /\ [][Next]_vars
=============================================================================
