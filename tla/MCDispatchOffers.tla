-------------------------- MODULE MCDispatchOffers --------------------------
(* DispatchOffers up to the names of the riders and the requests. *)
EXTENDS DispatchOffers, TLC

\* The three riders are alike, and so are the two requests; the run checks no liveness.
Alike == Permutations(Riders) \cup Permutations(Requests)
=============================================================================
