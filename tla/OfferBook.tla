----------------------------- MODULE OfferBook -----------------------------
(***************************************************************************)
(* What dispatch promises of its offers, without requests, sweeps and      *)
(* clocks: an order is offered to one rider at a time and never twice to   *)
(* the same one, to Max riders at most; a rider who has said yes, or no,   *)
(* or nothing for too long is not asked to say it again, and one rider     *)
(* says yes.                                                               *)
(***************************************************************************)
EXTENDS Integers, FiniteSets

CONSTANTS Orders, Riders, Max

VARIABLE answer   \* by order and rider: "none", "asked", "yes" or "no"

BookInit == answer = [o \in Orders |-> [r \in Riders |-> "none"]]

Out(o) == {r \in Riders : answer[o][r] = "asked"}
Tried(o) == {r \in Riders : answer[o][r] # "none"}

\* Some offers end unaccepted.
Ends(o) ==
  \A r \in Riders :
    answer'[o][r] = answer[o][r] \/ (answer[o][r] = "asked" /\ answer'[o][r] = "no")

\* The next rider is asked; whoever was asked before is not any more.
Ask(o, r) ==
  /\ answer[o][r] = "none" /\ Cardinality(Tried(o)) < Max
  /\ answer'[o][r] = "asked"
  /\ \A x \in Riders \ {r} : answer'[o][x] = IF x \in Out(o) THEN "no" ELSE answer[o][x]

Take(o, r) ==
  /\ answer[o][r] = "asked" /\ \A x \in Riders : answer[o][x] # "yes"
  /\ answer'[o][r] = "yes"
  /\ \A x \in Riders \ {r} : answer'[o][x] = IF x \in Out(o) THEN "no" ELSE answer[o][x]

\* One sweep ends offers of several orders at once.
BookNext == \A o \in Orders : Ends(o) \/ \E r \in Riders : Ask(o, r) \/ Take(o, r)

BookSpec == BookInit /\ [][BookNext]_answer
=============================================================================
