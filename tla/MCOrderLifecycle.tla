-------------------------- MODULE MCOrderLifecycle --------------------------
(* OrderLifecycle with the workers each run lets overlap. *)
EXTENDS OrderLifecycle

Sweeps == {"acceptance_sweep", "release_sweep"}

\* Every writer but the customer's own requests.
Guarded == [web |-> {"webhook"}, staff |-> StaffOps, cron |-> Sweeps]

\* The customer's requests beside the webhook and the restaurant's and dispatcher's.
Desk    == StaffOps \ (CourierOps \cup {"ready", "self_delivered"})
Counter == [customer |-> CustomerOps, staff |-> Desk, web |-> {"webhook"}]

\* A customer's screens, with and without the payment coming in.
Screens == [customer |-> {"view", "refresh"}]
Reader  == [web |-> {"webhook"}, customer |-> {"view", "refresh"}]
=============================================================================
