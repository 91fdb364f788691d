----------------------------- MODULE JobLedger -----------------------------
(* What the work queue promises of a job, without rows, drainers or leases:  *)
(* it waits, is taken at most Allowance times, and ends once.                *)
EXTENDS Naturals

CONSTANTS Jobs, Allowance

VARIABLES state, takes

ledger == <<state, takes>>

LedgerStates == {"absent", "waiting", "held", "done", "dead"}

LedgerInit ==
  /\ state = [j \in Jobs |-> "absent"]
  /\ takes = [j \in Jobs |-> 0]

Moves(j, from, to) ==
  /\ state[j] = from
  /\ state' = [state EXCEPT ![j] = to]

Take(j) ==
  /\ takes[j] < Allowance
  /\ Moves(j, "waiting", "held")
  /\ takes' = [takes EXCEPT ![j] = @ + 1]

\* Added; given back for another try; done; dead.
Settle(j) ==
  /\ \/ Moves(j, "absent", "waiting")
     \/ Moves(j, "held", "waiting") \/ Moves(j, "held", "done") \/ Moves(j, "held", "dead")
  /\ UNCHANGED takes

LedgerNext == \E j \in Jobs : Take(j) \/ Settle(j)

LedgerSpec == LedgerInit /\ [][LedgerNext]_ledger
=============================================================================
