----------------------------- MODULE WorkQueue -----------------------------
(***************************************************************************)
(* A queue_* table and the drainer invocations that work it.               *)
(*                                                                         *)
(* A runner is the part of a drainer invocation that handles one row: it   *)
(* selects and claims a due row, or reads and reclaims a stale one, runs   *)
(* the handler and writes the outcome.  Every database call is a step of   *)
(* its own, a call may fail (a fault), and the invocation may die between  *)
(* any two steps.  Claiming and reclaiming are compare-and-swaps; the      *)
(* outcome is written by id alone.                                         *)
(*                                                                         *)
(* Time: `deferred' is available_at in the future, `stamp' is updated_at,  *)
(* and a row is past the visibility timeout only when no runner still      *)
(* holds it, the assumption queue.ts states for VISIBILITY_TIMEOUT_MS.     *)
(***************************************************************************)
EXTENDS Integers, FiniteSets

CONSTANTS
  Jobs,
  Runners,
  Parts,       \* recipient groups of a notification job, pushed to one by one
  MaxRetries,
  MaxFaults    \* bound on failing database calls

ASSUME PartsAssumption == Parts \in Nat \ {0}
ASSUME RetriesAssumption == MaxRetries \in Nat
ASSUME FaultsAssumption == MaxFaults \in Nat

VARIABLES
  row,         \* the table
  runner,      \* what each runner is doing
  sent,        \* pushes made, by job and part
  tries,       \* history: how often each job was claimed
  told,        \* jobs whose dead-letter alert was recorded
  faults       \* database calls that failed so far

vars == <<row, runner, sent, tries, told, faults>>

QueueStatus == {"absent", "pending", "processing", "completed", "failed"}
Record == [status : QueueStatus, retries : Nat, deferred : BOOLEAN, stamp : Nat]

\* Steps of a runner that holds a claimed row, and of one that does not (yet).
Working == {"send", "complete", "count", "defer", "return", "exhaust", "bury"}
Looking == {"claim", "reclaim", "alert"}

\* n is the part to send, or the retry count read or computed.
Idle == [pc |-> "idle"]
Busy == [pc : Working \cup Looking, job : Jobs, n : Nat, stamp : Nat]

TypeOK ==
  /\ row \in [Jobs -> Record]
  /\ runner \in [Runners -> Busy \cup {Idle}]
  /\ sent \in [Jobs -> [1..Parts -> Nat]]
  /\ tries \in [Jobs -> Nat]
  /\ told \in SUBSET Jobs
  /\ faults \in 0..MaxFaults

Init ==
  /\ row = [j \in Jobs |-> [status |-> "absent", retries |-> 0, deferred |-> FALSE, stamp |-> 0]]
  /\ runner = [r \in Runners |-> Idle]
  /\ sent = [j \in Jobs |-> [p \in 1..Parts |-> 0]]
  /\ tries = [j \in Jobs |-> 0]
  /\ told = {} /\ faults = 0

Holds(r, j) == runner[r].pc \in Working /\ runner[r].job = j
Held(j) == \E r \in Runners : Holds(r, j)

-----------------------------------------------------------------------------
At(r, pc) == runner[r].pc = pc
Job(r) == runner[r].job

Goto(r, pc, n) == runner' = [runner EXCEPT ![r].pc = pc, ![r].n = n]
Release(r) == runner' = [runner EXCEPT ![r] = Idle]

\* A database call of a runner that fails: nothing is written.
Fault == faults < MaxFaults /\ faults' = faults + 1 /\ UNCHANGED row

\* updateJobStatus: by id, whatever the row says now; an error is only logged.
UpdateJobStatus(j, status) ==
  \/ row' = [row EXCEPT ![j].status = status, ![j].stamp = @ + 1] /\ UNCHANGED faults
  \/ Fault

\* enqueueNotification.
Enqueue(j) ==
  /\ row[j].status = "absent"
  /\ row' = [row EXCEPT ![j].status = "pending"]
  /\ UNCHANGED <<runner, sent, tries, told, faults>>

\* claimPendingQueueJobs, the select: pending and available.
Select(r, j) ==
  /\ runner[r] = Idle
  /\ row[j].status = "pending" /\ ~row[j].deferred
  /\ runner' = [runner EXCEPT ![r] = [pc |-> "claim", job |-> j, n |-> 0, stamp |-> 0]]
  /\ UNCHANGED <<row, sent, tries, told, faults>>

\* Mutant: the claim does not check that the row is still pending.
MutantClaimable(j) == TRUE

\* The condition of the claiming compare-and-swap.
Claimable(j) == row[j].status = "pending"

\* The compare-and-swap pending -> processing.
Claim(r) ==
  /\ At(r, "claim")
  /\ IF Claimable(Job(r))
       THEN /\ row' = [row EXCEPT ![Job(r)].status = "processing", ![Job(r)].stamp = @ + 1]
            /\ tries' = [tries EXCEPT ![Job(r)] = @ + 1]
            /\ Goto(r, "send", 1)
       ELSE Release(r) /\ UNCHANGED <<row, tries>>
  /\ UNCHANGED <<sent, told, faults>>

\* Mutant: the last group is left out.
MutantLastPart(p) == p >= Parts - 1

\* No group of recipients is left after this one.
LastPart(p) == p >= Parts

\* processNotificationJob: one group of recipients after the other.
Send(r) ==
  /\ At(r, "send")
  /\ LET p == runner[r].n IN
     /\ sent' = [sent EXCEPT ![Job(r)][p] = @ + 1]
     /\ IF LastPart(p) THEN Goto(r, "complete", 0) ELSE Goto(r, "send", p + 1)
  /\ UNCHANGED <<row, tries, told, faults>>

\* The handler throws, before its first group or between two.
Throw(r) ==
  /\ At(r, "send")
  /\ Goto(r, "count", 0)
  /\ UNCHANGED <<row, sent, tries, told, faults>>

\* Mutant: a status the table does not know.
MutantOutcome == "done"

\* The status drainQueue writes after its handler returned.
Outcome == "completed"

Complete(r) ==
  /\ At(r, "complete")
  /\ UpdateJobStatus(Job(r), Outcome)
  /\ Release(r)
  /\ UNCHANGED <<sent, tries, told>>

\* Mutant: the cap is compared before the retry is counted.
MutantExhausted(n) == n > MaxRetries + 1

\* More retries than the queue's maxRetries.
Exhausted(n) == n > MaxRetries

\* incrementRetry, the read: a read that fails counts from zero.
CountRetry(r) ==
  /\ At(r, "count")
  /\ \E known \in BOOLEAN :
       LET n == (IF known THEN row[Job(r)].retries ELSE 0) + 1 IN
       /\ IF known THEN UNCHANGED <<row, faults>> ELSE Fault
       /\ Goto(r, IF Exhausted(n) THEN "exhaust" ELSE "defer", n)
  /\ UNCHANGED <<sent, tries, told>>

\* incrementRetry, the write: count and backoff; its error is ignored.
DeferRetry(r) ==
  /\ At(r, "defer")
  /\ \/ /\ row' = [row EXCEPT ![Job(r)].retries = runner[r].n, ![Job(r)].deferred = TRUE]
        /\ UNCHANGED faults
     \/ Fault
  /\ Goto(r, "return", 0)
  /\ UNCHANGED <<sent, tries, told>>

\* drainQueue: back to pending.
ReturnJob(r) ==
  /\ At(r, "return")
  /\ UpdateJobStatus(Job(r), "pending")
  /\ Release(r)
  /\ UNCHANGED <<sent, tries, told>>

\* incrementRetry gives up, and drainQueue writes the failure once more.
ExhaustJob(r) ==
  /\ At(r, "exhaust")
  /\ UpdateJobStatus(Job(r), "failed")
  /\ Goto(r, "bury", 0)
  /\ UNCHANGED <<sent, tries, told>>

BuryJob(r) ==
  /\ At(r, "bury")
  /\ UpdateJobStatus(Job(r), "failed")
  /\ Release(r)
  /\ UNCHANGED <<sent, tries, told>>

\* Mutant: the reclaim looks for rows of the wrong status.
MutantStale(j) == row[j].status = "pending" /\ ~Held(j)

\* Processing, and past the visibility timeout.
Stale(j) == row[j].status = "processing" /\ ~Held(j)

\* reclaimStaleQueueJobs, the select.
ReadStale(r, j) ==
  /\ runner[r] = Idle /\ Stale(j)
  /\ runner' = [runner EXCEPT ![r] =
       [pc |-> "reclaim", job |-> j, n |-> row[j].retries, stamp |-> row[j].stamp]]
  /\ UNCHANGED <<row, sent, tries, told, faults>>

\* Mutant: the reclaim is not qualified by the updated_at it read.
MutantSameLease(r) == row[Job(r)].status = "processing"

\* The condition of the reclaiming compare-and-swap.
SameLease(r) == row[Job(r)].status = "processing" /\ row[Job(r)].stamp = runner[r].stamp

\* The compare-and-swap on (status, updated_at): back with a backoff, or dead-lettered.
Reclaim(r) ==
  /\ At(r, "reclaim")
  /\ LET j == Job(r)
         n == runner[r].n + 1
     IN \/ /\ SameLease(r)
           /\ row' = [row EXCEPT ![j].status = IF Exhausted(n) THEN "failed" ELSE "pending",
                                 ![j].deferred = @ \/ ~Exhausted(n),
                                 ![j].retries = n, ![j].stamp = @ + 1]
           /\ IF Exhausted(n) THEN Goto(r, "alert", 0) ELSE Release(r)
           /\ UNCHANGED faults
        \/ ~SameLease(r) /\ Release(r) /\ UNCHANGED <<row, faults>>
        \/ Fault /\ Release(r)
  /\ UNCHANGED <<sent, tries, told>>

\* onDeadLetter: a human is told the job will not run again.
AlertDeadLetter(r) ==
  /\ At(r, "alert")
  /\ told' = told \cup {Job(r)}
  /\ Release(r)
  /\ UNCHANGED <<row, sent, tries, faults>>

\* The invocation dies.
Crash(r) ==
  /\ runner[r] # Idle
  /\ Release(r)
  /\ UNCHANGED <<row, sent, tries, told, faults>>

\* available_at passes.
BackoffEnds(j) ==
  /\ row[j].deferred
  /\ row' = [row EXCEPT ![j].deferred = FALSE]
  /\ UNCHANGED <<runner, sent, tries, told, faults>>

RunnerStep(r) ==
  \/ Claim(r) \/ Send(r) \/ Throw(r) \/ Complete(r)
  \/ CountRetry(r) \/ DeferRetry(r) \/ ReturnJob(r) \/ ExhaustJob(r) \/ BuryJob(r)
  \/ Reclaim(r) \/ AlertDeadLetter(r)

Next ==
  \/ \E j \in Jobs : Enqueue(j) \/ BackoffEnds(j)
  \/ \E r \in Runners, j \in Jobs : Select(r, j) \/ ReadStale(r, j)
  \/ \E r \in Runners : RunnerStep(r) \/ Crash(r)

Spec == Init /\ [][Next]_vars

\* pg_cron posts the drainer every minute: a due or stale row keeps being selected, a
\* runner that is not killed goes on, and not every one is killed before its
\* compare-and-swap.
Fairness ==
  /\ \A j \in Jobs :
       /\ WF_vars(BackoffEnds(j))
       /\ SF_vars(\E r \in Runners : Select(r, j))
       /\ SF_vars(\E r \in Runners : ReadStale(r, j))
  /\ \A r \in Runners : WF_vars(RunnerStep(r)) /\ SF_vars(Claim(r)) /\ SF_vars(Reclaim(r))

FairSpec == Spec /\ Fairness

-----------------------------------------------------------------------------
(* What the queue owes its jobs. *)

\* Two drainers never run the handler of one job at the same time: the claim and the
\* reclaim are compare-and-swaps, and a reclaim is void once the lease it read is over.
ExclusiveRun ==
  \A r1, r2 \in Runners, j \in Jobs : Holds(r1, j) /\ Holds(r2, j) => r1 = r2

\* A job ends after a bounded number of runs, whatever crashes: a run that fails or
\* times out counts as a retry, and only a failing database call can lose count.
RunsBounded == \A j \in Jobs : tries[j] <= (MaxRetries + 1) * (faults + 1)

\* A job recorded as completed reached every recipient group at least once.
CompletedWasSent ==
  \A j \in Jobs : row[j].status = "completed" => \A p \in 1..Parts : sent[j][p] >= 1

\* A dead-letter alert is true, and stays true: the job it names never runs again.
AlertIsTrue == \A j \in told : row[j].status = "failed" /\ ~Held(j)

\* A job that is completed or failed is not brought back, although outcomes are written
\* by id alone.
FinishedIsFinal ==
  [][\A j \in Jobs : row[j].status \in {"completed", "failed"}
       => row'[j].status = row[j].status]_vars

\* Every job ends.
EveryJobEnds ==
  \A j \in Jobs : row[j].status = "pending" ~> row[j].status \in {"completed", "failed"}

-----------------------------------------------------------------------------
(* The queue keeps the ledger of its jobs. *)

LedgerState(status) ==
  CASE status = "absent"     -> "absent"
    [] status = "pending"    -> "waiting"
    [] status = "processing" -> "held"
    [] status = "completed"  -> "done"
    [] status = "failed"     -> "dead"

Ledger == INSTANCE JobLedger
  WITH Jobs <- Jobs, Allowance <- (MaxRetries + 1) * (MaxFaults + 1),
       state <- [j \in Jobs |-> LedgerState(row[j].status)], takes <- tries

KeepsLedger == Ledger!LedgerSpec
=============================================================================
