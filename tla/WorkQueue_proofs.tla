-------------------------- MODULE WorkQueue_proofs --------------------------
(* Theorems about WorkQueue, for every number of jobs, drainers, recipient   *)
(* groups, retries and failing database calls.                               *)
EXTENDS WorkQueue, TLAPS

-----------------------------------------------------------------------------
(* The inductive invariant. *)

\* The row of a runner at work is processing, unless that runner just failed it.
HeldIsProcessing ==
  \A r \in Runners : runner[r].pc \in Working =>
    \/ row[Job(r)].status = "processing"
    \/ runner[r].pc = "bury" /\ row[Job(r)].status = "failed"

\* While the lease a reclaim read is still the row's, nobody works on the row and its
\* count is the one that was read.
LeaseRead ==
  \A r \in Runners, k \in Jobs : runner[r].pc = "reclaim" /\ Job(r) = k =>
    /\ runner[r].stamp <= row[k].stamp
    /\ SameLease(r) => ~Held(k) /\ runner[r].n = row[k].retries

\* An alert is raised for a row that is failed for good.
AlertDue ==
  \A r \in Runners, k \in Jobs : runner[r].pc = "alert" /\ Job(r) = k =>
    row[k].status = "failed" /\ ~Held(k)

LeaseInv == TypeOK /\ HeldIsProcessing /\ ExclusiveRun /\ LeaseRead /\ AlertDue /\ AlertIsTrue

-----------------------------------------------------------------------------
(* The ways a step changes the runners. *)

LEMMA BusyRunner ==
  ASSUME TypeOK, NEW r \in Runners, runner[r] # Idle
  PROVE  runner[r] \in Busy /\ Job(r) \in Jobs /\ runner[r].n \in Nat /\ runner[r].stamp \in Nat
  BY DEF TypeOK, Busy, Job

LEMMA IdlePc == Idle.pc = "idle" /\ "idle" \notin Working \cup Looking
  BY DEF Idle, Working, Looking

\* A runner that goes on keeps its job and its lease.
LEMMA GotoKeeps ==
  ASSUME TypeOK, NEW r \in Runners, runner[r] # Idle,
         NEW pc \in Working \cup Looking, NEW n \in Nat, Goto(r, pc, n)
  PROVE  /\ runner' \in [Runners -> Busy \cup {Idle}]
         /\ \A q \in Runners \ {r} : runner'[q] = runner[q]
         /\ runner'[r].pc = pc /\ runner'[r].n = n /\ runner'[r].job = Job(r)
         /\ runner'[r].stamp = runner[r].stamp
  <1>1. runner[r] \in Busy
    BY BusyRunner
  <1>2. runner' = [runner EXCEPT ![r] = [runner[r] EXCEPT !.pc = pc, !.n = n]]
    BY DEF Goto
  <1>3. [runner[r] EXCEPT !.pc = pc, !.n = n] \in Busy
    BY <1>1 DEF Busy
  <1> QED
    BY <1>1, <1>2, <1>3 DEF TypeOK, Busy, Job

LEMMA ReleaseKeeps ==
  ASSUME TypeOK, NEW r \in Runners, Release(r)
  PROVE  /\ runner' \in [Runners -> Busy \cup {Idle}]
         /\ \A q \in Runners \ {r} : runner'[q] = runner[q]
         /\ runner'[r] = Idle /\ runner'[r].pc = "idle"
  BY DEF TypeOK, Release, Idle

LEMMA SelectKeeps ==
  ASSUME TypeOK, NEW r \in Runners, NEW new \in Busy, runner' = [runner EXCEPT ![r] = new]
  PROVE  /\ runner' \in [Runners -> Busy \cup {Idle}]
         /\ \A q \in Runners \ {r} : runner'[q] = runner[q]
         /\ runner'[r] = new
  BY DEF TypeOK

\* What updateJobStatus may do to the table.
LEMMA StatusWritten ==
  ASSUME TypeOK, NEW j \in Jobs, NEW s \in QueueStatus, UpdateJobStatus(j, s)
  PROVE  /\ row' \in [Jobs -> Record] /\ faults' \in 0..MaxFaults /\ faults' >= faults
         /\ \A k \in Jobs \ {j} : row'[k] = row[k]
         /\ row'[j].retries = row[j].retries
         /\ \/ row'[j].status = s /\ row'[j].stamp = row[j].stamp + 1 /\ faults' = faults
            \/ row' = row /\ faults' = faults + 1
  <1>1. CASE row' = [row EXCEPT ![j].status = s, ![j].stamp = @ + 1] /\ UNCHANGED faults
    BY <1>1 DEF TypeOK, Record
  <1>2. CASE Fault
    BY <1>2, FaultsAssumption DEF Fault, TypeOK
  <1> QED
    BY <1>1, <1>2 DEF UpdateJobStatus

-----------------------------------------------------------------------------
(* Type correctness. *)

\* Counting one entry of a table of counters up leaves such a table.
LEMMA CountUp ==
  ASSUME NEW S, NEW f \in [S -> Nat], NEW p
  PROVE  [f EXCEPT ![p] = f[p] + 1] \in [S -> Nat]
  <1>1. CASE p \in S
    BY <1>1
  <1>2. CASE p \notin S
    BY <1>2
  <1> QED
    BY <1>1, <1>2

LEMMA TypeInit == Init => TypeOK
  BY FaultsAssumption, PartsAssumption DEF Init, TypeOK, Record, QueueStatus

LEMMA TypeRunner ==
  ASSUME TypeOK, NEW r \in Runners, RunnerStep(r) \/ Crash(r)
  PROVE  TypeOK'
  <1>0. runner[r] # Idle
    BY IdlePc
    DEF RunnerStep, Crash, Claim, Send, Throw, Complete, CountRetry, DeferRetry, ReturnJob,
        ExhaustJob, BuryJob, Reclaim, AlertDeadLetter, At
  <1> DEFINE j == Job(r)
  <1>1. j \in Jobs /\ runner[r].n \in Nat
    BY <1>0, BusyRunner
  <1>2. \A pc \in Working \cup Looking, n \in Nat :
          Goto(r, pc, n) => runner' \in [Runners -> Busy \cup {Idle}]
    BY <1>0, GotoKeeps
  <1>3. Release(r) => runner' \in [Runners -> Busy \cup {Idle}]
    BY ReleaseKeeps
  <1>4. \A s \in QueueStatus :
          UpdateJobStatus(j, s) => row' \in [Jobs -> Record] /\ faults' \in 0..MaxFaults
    BY <1>1, StatusWritten
  <1>5. CASE Claim(r)
    <2>1. CASE Claimable(j)
      <3>1. row' \in [Jobs -> Record] /\ tries' \in [Jobs -> Nat]
        <4>1. /\ row' = [row EXCEPT ![j].status = "processing", ![j].stamp = @ + 1]
              /\ tries' = [tries EXCEPT ![j] = @ + 1]
          BY <1>5, <2>1 DEF Claim
        <4>2. row' \in [Jobs -> Record]
          BY <1>4, <1>5, <4>1 DEF Claim, UpdateJobStatus, QueueStatus
        <4>3. tries' \in [Jobs -> Nat]
          BY <1>1, <4>1 DEF TypeOK
        <4> QED
          BY <4>2, <4>3
      <3> QED
        BY <1>2, <1>5, <2>1, <3>1 DEF Claim, TypeOK, Working
    <2>2. CASE ~Claimable(j)
      BY <1>3, <1>5, <2>2 DEF Claim, TypeOK
    <2> QED
      BY <2>1, <2>2
  <1>6. CASE Send(r)
    <2> DEFINE p == runner[r].n
    <2>1. p + 1 \in Nat
      BY <1>1
    <2>2. runner' \in [Runners -> Busy \cup {Idle}]
      BY <1>2, <1>6, <2>1 DEF Send, Working
    <2>3. sent' \in [Jobs -> [1..Parts -> Nat]]
      <3>1. sent' = [sent EXCEPT ![j] = [sent[j] EXCEPT ![p] = sent[j][p] + 1]]
        BY <1>6 DEF Send
      <3>2. sent[j] \in [1..Parts -> Nat]
        BY <1>1 DEF TypeOK
      <3>3. [sent[j] EXCEPT ![p] = sent[j][p] + 1] \in [1..Parts -> Nat]
        BY <3>2, CountUp
      <3> QED
        BY <3>1, <3>3 DEF TypeOK
    <2> QED
      BY <1>6, <2>2, <2>3 DEF Send, TypeOK
  <1>7. CASE Throw(r)
    BY <1>2, <1>7 DEF Throw, TypeOK, Working
  <1>8. CASE Complete(r) \/ ReturnJob(r) \/ BuryJob(r)
    BY <1>3, <1>4, <1>8 DEF Complete, ReturnJob, BuryJob, TypeOK, QueueStatus, Outcome
  <1>9. CASE ExhaustJob(r)
    BY <1>2, <1>4, <1>9 DEF ExhaustJob, TypeOK, QueueStatus, Working
  <1>10. CASE CountRetry(r)
    <2>1. PICK known \in BOOLEAN, n \in Nat :
            /\ IF known THEN UNCHANGED <<row, faults>> ELSE Fault
            /\ Goto(r, IF Exhausted(n) THEN "exhaust" ELSE "defer", n)
      <3>1. row[j].retries \in Nat
        BY <1>1 DEF TypeOK, Record
      <3> QED
        BY <1>10, <3>1 DEF CountRetry
    <2>2. runner' \in [Runners -> Busy \cup {Idle}]
      BY <1>2, <2>1 DEF Working
    <2>3. row' = row /\ faults' \in 0..MaxFaults
      BY <2>1, FaultsAssumption DEF Fault, TypeOK
    <2> QED
      BY <1>10, <2>2, <2>3 DEF CountRetry, TypeOK
  <1>11. CASE DeferRetry(r)
    <2>1. row' \in [Jobs -> Record] /\ faults' \in 0..MaxFaults
      <3>1. CASE Fault
        BY <3>1, FaultsAssumption DEF Fault, TypeOK
      <3>2. CASE ~Fault
        <4>1. row' = [row EXCEPT ![j] = [row[j] EXCEPT !.retries = runner[r].n, !.deferred = TRUE]]
              /\ faults' = faults
          BY <1>11, <3>2 DEF DeferRetry
        <4>2. [row[j] EXCEPT !.retries = runner[r].n, !.deferred = TRUE] \in Record
          BY <1>1 DEF TypeOK, Record
        <4> QED
          BY <1>1, <4>1, <4>2 DEF TypeOK
      <3> QED
        BY <3>1, <3>2
    <2> QED
      BY <1>2, <1>11, <2>1 DEF DeferRetry, TypeOK, Working
  <1>12. CASE Reclaim(r)
    <2>1. runner' \in [Runners -> Busy \cup {Idle}]
      BY <1>2, <1>3, <1>12 DEF Reclaim, Looking
    <2>2. row' \in [Jobs -> Record] /\ faults' \in 0..MaxFaults
      <3>1. CASE row' = row
        BY <1>12, <3>1, FaultsAssumption DEF Reclaim, Fault, TypeOK
      <3>2. CASE row' # row
        <4> DEFINE n == runner[r].n + 1
                   s == IF Exhausted(n) THEN "failed" ELSE "pending"
                   d == row[j].deferred \/ ~Exhausted(n)
        <4>1. /\ row' = [row EXCEPT ![j] = [row[j] EXCEPT !.status = s, !.deferred = d,
                                                        !.retries = n, !.stamp = @ + 1]]
              /\ faults' = faults
          BY <1>12, <3>2 DEF Reclaim, Fault
        <4>2. s \in QueueStatus /\ n \in Nat
          BY <1>1 DEF QueueStatus
        <4>3. d \in BOOLEAN
          OBVIOUS
        <4> HIDE DEF n, s, d
        <4>4. row[j] \in Record
          BY <1>1 DEF TypeOK
        <4>5. [row[j] EXCEPT !.status = s, !.deferred = d, !.retries = n, !.stamp = @ + 1] \in Record
          <5>1. row[j].stamp + 1 \in Nat
            BY <4>4 DEF Record
          <5> QED
            BY <4>2, <4>3, <4>4, <5>1 DEF Record
        <4> QED
          BY <1>1, <4>1, <4>5 DEF TypeOK
      <3> QED
        BY <3>1, <3>2
    <2> QED
      BY <1>12, <2>1, <2>2 DEF Reclaim, TypeOK
  <1>13. CASE AlertDeadLetter(r)
    BY <1>1, <1>3, <1>13 DEF AlertDeadLetter, TypeOK
  <1>14. CASE Crash(r)
    BY <1>3, <1>14 DEF Crash, TypeOK
  <1> QED
    BY <1>5, <1>6, <1>7, <1>8, <1>9, <1>10, <1>11, <1>12, <1>13, <1>14 DEF RunnerStep

LEMMA TypeNext == TypeOK /\ [Next]_vars => TypeOK'
  <1> SUFFICES ASSUME TypeOK, [Next]_vars PROVE TypeOK'
    OBVIOUS
  <1>1. CASE UNCHANGED vars
    BY <1>1 DEF vars, TypeOK
  <1>2. ASSUME NEW j \in Jobs, Enqueue(j) \/ BackoffEnds(j) PROVE TypeOK'
    <2>1. row' \in [Jobs -> Record]
      <3>1. CASE Enqueue(j)
        BY <3>1 DEF Enqueue, TypeOK, Record, QueueStatus
      <3>2. CASE BackoffEnds(j)
        BY <3>2 DEF BackoffEnds, TypeOK, Record
      <3> QED
        BY <1>2, <3>1, <3>2
    <2> QED
      BY <1>2, <2>1 DEF Enqueue, BackoffEnds, TypeOK
  <1>3. ASSUME NEW r \in Runners, NEW j \in Jobs, Select(r, j) PROVE TypeOK'
    <2>1. [pc |-> "claim", job |-> j, n |-> 0, stamp |-> 0] \in Busy
      BY DEF Busy, Looking
    <2> QED
      BY <1>3, <2>1, SelectKeeps DEF Select, TypeOK
  <1>4. ASSUME NEW r \in Runners, NEW j \in Jobs, ReadStale(r, j) PROVE TypeOK'
    <2>1. [pc |-> "reclaim", job |-> j, n |-> row[j].retries, stamp |-> row[j].stamp] \in Busy
      BY DEF Busy, Looking, TypeOK, Record
    <2> QED
      BY <1>4, <2>1, SelectKeeps DEF ReadStale, TypeOK
  <1> QED
    BY <1>1, <1>2, <1>3, <1>4, TypeRunner DEF Next

-----------------------------------------------------------------------------
(* Leases. *)

\* Every step of a runner that holds a row: it may drop the row or go on with it, and
\* only writes its own row.
LEMMA HolderStep ==
  ASSUME LeaseInv, TypeOK', told' = told,
         NEW r \in Runners, runner[r].pc \in Working,
         NEW j \in Jobs, j = Job(r),
         \A q \in Runners \ {r} : runner'[q] = runner[q],
         \A k \in Jobs \ {j} : row'[k] = row[k],
         row'[j].stamp >= row[j].stamp,
         row'[j].stamp = row[j].stamp => row'[j].status = row[j].status,
         runner'[r].pc \in Working \cup {"idle"},
         runner'[r].pc \in Working =>
           /\ runner'[r].job = j
           /\ \/ row'[j].status = "processing"
              \/ runner'[r].pc = "bury" /\ row'[j].status = "failed"
  PROVE  LeaseInv'
  <1>1. \A q \in Runners, k \in Jobs : Holds(q, k)' => Holds(q, k)
    BY DEF Holds, Job
  <1>2. Held(j) /\ \A q \in Runners \ {r} : ~Holds(q, j)
    BY DEF LeaseInv, ExclusiveRun, Held, Holds, Job
  <1>3. \A q \in Runners : runner[q].pc \in Working \cup Looking => Job(q) \in Jobs
    BY BusyRunner, IdlePc DEF LeaseInv
  <1>4. \A k \in Jobs : ~Held(k) => ~Held(k)'
    BY <1>1 DEF Held
  <1>5. HeldIsProcessing'
    <2> SUFFICES ASSUME NEW q \in Runners, runner'[q].pc \in Working
                 PROVE  \/ row'[runner'[q].job].status = "processing"
                        \/ runner'[q].pc = "bury" /\ row'[runner'[q].job].status = "failed"
      BY DEF HeldIsProcessing, Job
    <2>1. CASE q = r
      BY <2>1
    <2>2. CASE q # r
      <3>1. Job(q) \in Jobs \ {j} /\ runner'[q] = runner[q]
        BY <1>2, <1>3, <2>2 DEF Holds, Job
      <3> QED
        BY <3>1 DEF LeaseInv, HeldIsProcessing, Job
    <2> QED
      BY <2>1, <2>2
  <1>6. ExclusiveRun'
    BY <1>1 DEF LeaseInv, ExclusiveRun
  <1>7. LeaseRead'
    <2> SUFFICES ASSUME NEW q \in Runners, NEW k \in Jobs,
                        runner'[q].pc = "reclaim", runner'[q].job = k
                 PROVE  /\ runner'[q].stamp <= row'[k].stamp
                        /\ SameLease(q)' => ~Held(k)' /\ runner'[q].n = row'[k].retries
      BY DEF LeaseRead, Job
    <2>1. q # r /\ runner'[q] = runner[q]
      BY DEF Working
    <2>2. Job(q) = k /\ runner[q].stamp \in Nat /\ runner[q].stamp <= row[k].stamp
          /\ (SameLease(q) => ~Held(k) /\ runner[q].n = row[k].retries)
      BY <2>1, BusyRunner, IdlePc DEF LeaseInv, LeaseRead, Looking, Job
    <2>3. CASE k = j
      <3>1. ~SameLease(q)
        BY <1>2, <2>2, <2>3
      <3>2. row[j].stamp \in Nat /\ row'[j].stamp \in Nat
        BY DEF LeaseInv, TypeOK, Record
      <3>3. ~SameLease(q)'
        BY <2>1, <2>2, <2>3, <3>1, <3>2 DEF SameLease, Job
      <3> QED
        BY <2>1, <2>2, <2>3, <3>2, <3>3
    <2>4. CASE k # j
      BY <1>4, <2>1, <2>2, <2>4 DEF SameLease, Job
    <2> QED
      BY <2>3, <2>4
  <1>8. AlertDue'
    <2> SUFFICES ASSUME NEW q \in Runners, NEW k \in Jobs,
                        runner'[q].pc = "alert", runner'[q].job = k
                 PROVE  row'[k].status = "failed" /\ ~Held(k)'
      BY DEF AlertDue, Job
    <2>1. q # r /\ runner'[q] = runner[q]
      BY DEF Working
    <2>2. row[k].status = "failed" /\ ~Held(k)
      BY <2>1 DEF LeaseInv, AlertDue, Job
    <2> QED
      BY <1>2, <1>4, <2>2
  <1>9. AlertIsTrue'
    BY <1>2, <1>4 DEF LeaseInv, AlertIsTrue, TypeOK
  <1> QED
    BY <1>5, <1>6, <1>7, <1>8, <1>9 DEF LeaseInv

LEMMA LeaseInit == Init => LeaseInv
  BY TypeInit, IdlePc
  DEF Init, LeaseInv, HeldIsProcessing, ExclusiveRun, Holds, LeaseRead, AlertDue, AlertIsTrue,
      Looking

\* The steps of a runner at work.
LEMMA LeaseWorking ==
  ASSUME LeaseInv, NEW r \in Runners, runner[r].pc \in Working, RunnerStep(r) \/ Crash(r)
  PROVE  LeaseInv'
  <1> DEFINE j == Job(r)
  <1>0. TypeOK /\ TypeOK' /\ runner[r] # Idle
    BY IdlePc, TypeRunner DEF LeaseInv
  <1>1. j \in Jobs /\ runner[r].n \in Nat /\ row[j].stamp \in Nat
    BY <1>0, BusyRunner DEF TypeOK, Record
  <1>2. \/ row[j].status = "processing"
        \/ runner[r].pc = "bury" /\ row[j].status = "failed"
    BY DEF LeaseInv, HeldIsProcessing
  <1>3. CASE Send(r) \/ Throw(r)
    <2>1. row' = row /\ told' = told /\ row[j].status = "processing"
      BY <1>2, <1>3 DEF Send, Throw, At
    <2>2. PICK pc \in Working, n \in Nat : Goto(r, pc, n)
      BY <1>1, <1>3 DEF Send, Throw, Working
    <2> QED
      BY <1>0, <1>1, <2>1, <2>2, GotoKeeps, HolderStep
  <1>4. CASE CountRetry(r)
    <2>1. row' = row /\ told' = told /\ row[j].status = "processing"
      BY <1>2, <1>4 DEF CountRetry, Fault, At
    <2>2. PICK pc \in Working, n \in Nat : Goto(r, pc, n)
      <3>1. row[j].retries \in Nat
        BY <1>0, <1>1 DEF TypeOK, Record
      <3> QED
        BY <1>4, <3>1 DEF CountRetry, Working
    <2> QED
      BY <1>0, <1>1, <2>1, <2>2, GotoKeeps, HolderStep
  <1>5. CASE DeferRetry(r)
    <2>1. told' = told /\ row[j].status = "processing"
      BY <1>2, <1>5 DEF DeferRetry, At
    <2>2. /\ \A k \in Jobs \ {j} : row'[k] = row[k]
          /\ row'[j].stamp = row[j].stamp /\ row'[j].status = row[j].status
      <3>1. CASE Fault
        BY <3>1 DEF Fault
      <3>2. CASE ~Fault
        <4>1. row' = [row EXCEPT ![j] = [row[j] EXCEPT !.retries = runner[r].n, !.deferred = TRUE]]
          BY <1>5, <3>2 DEF DeferRetry
        <4> QED
          BY <1>0, <1>1, <4>1 DEF TypeOK, Record
      <3> QED
        BY <3>1, <3>2
    <2>3. PICK pc \in Working, n \in Nat : Goto(r, pc, n)
      BY <1>5 DEF DeferRetry, Working
    <2> QED
      BY <1>0, <1>1, <2>1, <2>2, <2>3, GotoKeeps, HolderStep
  <1>6. CASE Complete(r) \/ ReturnJob(r) \/ BuryJob(r)
    <2>1. PICK s \in QueueStatus : UpdateJobStatus(j, s)
      BY <1>6 DEF Complete, ReturnJob, BuryJob, QueueStatus, Outcome
    <2>2. /\ \A k \in Jobs \ {j} : row'[k] = row[k]
          /\ row'[j].stamp >= row[j].stamp
          /\ row'[j].stamp = row[j].stamp => row'[j].status = row[j].status
      BY <1>0, <1>1, <2>1, StatusWritten
    <2>3. Release(r) /\ told' = told
      BY <1>6 DEF Complete, ReturnJob, BuryJob
    <2> QED
      BY <1>0, <1>1, <2>2, <2>3, ReleaseKeeps, HolderStep, IdlePc
  <1>7. CASE ExhaustJob(r)
    <2>1. UpdateJobStatus(j, "failed") /\ Goto(r, "bury", 0) /\ told' = told
          /\ row[j].status = "processing"
      BY <1>2, <1>7 DEF ExhaustJob, At
    <2>2. /\ \A k \in Jobs \ {j} : row'[k] = row[k]
          /\ row'[j].stamp >= row[j].stamp
          /\ row'[j].stamp = row[j].stamp => row'[j].status = row[j].status
          /\ row'[j].status \in {"failed", "processing"}
      BY <1>0, <1>1, <2>1, StatusWritten DEF QueueStatus
    <2>3. "bury" \in Working
      BY DEF Working
    <2> QED
      BY <1>0, <1>1, <2>1, <2>2, <2>3, GotoKeeps, HolderStep
  <1>8. CASE Crash(r)
    <2>1. Release(r) /\ row' = row /\ told' = told
      BY <1>8 DEF Crash
    <2> QED
      BY <1>0, <1>1, <2>1, ReleaseKeeps, HolderStep, IdlePc
  <1>9. ~(Claim(r) \/ Reclaim(r) \/ AlertDeadLetter(r))
    BY DEF Claim, Reclaim, AlertDeadLetter, At, Working
  <1> QED
    BY <1>3, <1>4, <1>5, <1>6, <1>7, <1>8, <1>9 DEF RunnerStep

\* A step that takes no row into work and none out of it: it may move rows nobody holds,
\* giving each a new lease unless it leaves them off processing.
LEMMA IdleStep ==
  ASSUME LeaseInv, TypeOK',
         \A q \in Runners : \/ runner'[q] = runner[q]
                            \/ /\ runner[q].pc \notin Working /\ runner'[q].pc \notin Working
                               /\ \A k \in Jobs : runner'[q].pc = "reclaim" /\ runner'[q].job = k =>
                                    /\ ~Held(k) /\ runner'[q].stamp = row'[k].stamp
                                    /\ runner'[q].n = row'[k].retries
                               /\ \A k \in Jobs : runner'[q].pc = "alert" /\ runner'[q].job = k =>
                                    ~Held(k) /\ row'[k].status = "failed",
         \A k \in Jobs : \/ /\ row'[k].status = row[k].status /\ row'[k].stamp = row[k].stamp
                            /\ row'[k].retries = row[k].retries
                         \/ /\ ~Held(k) /\ row[k].status # "failed"
                            /\ row'[k].stamp >= row[k].stamp
                            /\ row'[k].stamp > row[k].stamp \/ row'[k].status # "processing",
         \A k \in told' : k \in told \/ (~Held(k) /\ row'[k].status = "failed")
  PROVE  LeaseInv'
  <1>1. \A q \in Runners, k \in Jobs : Holds(q, k)' <=> Holds(q, k)
    BY DEF Holds, Job
  <1>2. \A k \in Jobs : Held(k)' <=> Held(k)
    BY <1>1 DEF Held
  <1>3. \A q \in Runners : runner[q].pc \in Working \cup Looking => Job(q) \in Jobs
    BY BusyRunner, IdlePc DEF LeaseInv
  <1>4. HeldIsProcessing'
    <2> SUFFICES ASSUME NEW q \in Runners, runner'[q].pc \in Working
                 PROVE  \/ row'[runner'[q].job].status = "processing"
                        \/ runner'[q].pc = "bury" /\ row'[runner'[q].job].status = "failed"
      BY DEF HeldIsProcessing, Job
    <2>1. runner'[q] = runner[q] /\ Job(q) \in Jobs /\ Held(Job(q))
      BY <1>3 DEF Held, Holds, Job
    <2> QED
      BY <2>1 DEF LeaseInv, HeldIsProcessing, Job
  <1>5. ExclusiveRun'
    BY <1>1 DEF LeaseInv, ExclusiveRun
  <1>6. LeaseRead'
    <2> SUFFICES ASSUME NEW q \in Runners, NEW k \in Jobs,
                        runner'[q].pc = "reclaim", runner'[q].job = k
                 PROVE  /\ runner'[q].stamp <= row'[k].stamp
                        /\ SameLease(q)' => ~Held(k)' /\ runner'[q].n = row'[k].retries
      BY DEF LeaseRead, Job
    <2>0. row[k].stamp \in Nat /\ row'[k].stamp \in Nat
      BY DEF LeaseInv, TypeOK, Record
    <2>1. CASE runner'[q] # runner[q]
      BY <1>2, <2>0, <2>1
    <2>2. CASE runner'[q] = runner[q]
      <3>1. Job(q) = k /\ runner[q].stamp \in Nat /\ runner[q].stamp <= row[k].stamp
            /\ (SameLease(q) => ~Held(k) /\ runner[q].n = row[k].retries)
        BY <2>2, BusyRunner, IdlePc DEF LeaseInv, LeaseRead, Looking, Job
      <3> QED
        BY <1>2, <2>0, <2>2, <3>1 DEF SameLease, Job
    <2> QED
      BY <2>1, <2>2
  <1>7. AlertDue'
    <2> SUFFICES ASSUME NEW q \in Runners, NEW k \in Jobs,
                        runner'[q].pc = "alert", runner'[q].job = k
                 PROVE  row'[k].status = "failed" /\ ~Held(k)'
      BY DEF AlertDue, Job
    <2>1. CASE runner'[q] # runner[q]
      BY <1>2, <2>1
    <2>2. CASE runner'[q] = runner[q]
      <3>1. row[k].status = "failed" /\ ~Held(k)
        BY <2>2 DEF LeaseInv, AlertDue, Job
      <3> QED
        BY <1>2, <3>1
    <2> QED
      BY <2>1, <2>2
  <1>8. AlertIsTrue'
    <2> SUFFICES ASSUME NEW k \in told' PROVE row'[k].status = "failed" /\ ~Held(k)'
      BY DEF AlertIsTrue
    <2>1. k \in Jobs
      BY DEF TypeOK
    <2>2. k \in told => row[k].status = "failed" /\ ~Held(k)
      BY DEF LeaseInv, AlertIsTrue
    <2> QED
      BY <1>2, <2>1, <2>2
  <1> QED
    BY <1>4, <1>5, <1>6, <1>7, <1>8 DEF LeaseInv

\* The claim takes a row nobody holds.
LEMMA LeaseClaim ==
  ASSUME LeaseInv, NEW r \in Runners, Claim(r), Claimable(Job(r))
  PROVE  LeaseInv'
  <1> DEFINE j == Job(r)
  <1>0. TypeOK /\ TypeOK' /\ runner[r] # Idle
    BY IdlePc, TypeRunner DEF LeaseInv, Claim, At, RunnerStep
  <1>1. j \in Jobs /\ row[j].stamp \in Nat
    BY <1>0, BusyRunner DEF TypeOK, Record
  <1>2. ~Held(j)
    BY DEF Claimable, LeaseInv, HeldIsProcessing, Held, Holds, Job
  <1>3. /\ runner' \in [Runners -> Busy \cup {Idle}]
        /\ \A q \in Runners \ {r} : runner'[q] = runner[q]
        /\ runner'[r].pc = "send" /\ runner'[r].job = j
    BY <1>0, GotoKeeps DEF Claim, Working
  <1>4. /\ \A k \in Jobs \ {j} : row'[k] = row[k]
        /\ row'[j].status = "processing" /\ row'[j].stamp = row[j].stamp + 1
        /\ told' = told
    BY <1>0, <1>1 DEF Claim, TypeOK, Record
  <1>5. \A q \in Runners, k \in Jobs : Holds(q, k)' <=> (Holds(q, k) \/ (q = r /\ k = j))
    BY <1>3 DEF Holds, Job, Working, Claim, At
  <1>6. \A k \in Jobs \ {j} : Held(k)' <=> Held(k)
    BY <1>5 DEF Held
  <1>7. \A q \in Runners : runner[q].pc \in Working \cup Looking => Job(q) \in Jobs
    BY <1>0, BusyRunner, IdlePc
  <1>8. HeldIsProcessing'
    <2> SUFFICES ASSUME NEW q \in Runners, runner'[q].pc \in Working
                 PROVE  \/ row'[runner'[q].job].status = "processing"
                        \/ runner'[q].pc = "bury" /\ row'[runner'[q].job].status = "failed"
      BY DEF HeldIsProcessing, Job
    <2>1. CASE q = r
      BY <1>3, <1>4, <2>1
    <2>2. CASE q # r
      <3>1. runner'[q] = runner[q] /\ Job(q) \in Jobs \ {j}
        BY <1>2, <1>3, <1>7, <2>2 DEF Held, Holds, Job
      <3> QED
        BY <1>4, <3>1 DEF LeaseInv, HeldIsProcessing, Job
    <2> QED
      BY <2>1, <2>2
  <1>9. ExclusiveRun'
    BY <1>2, <1>5 DEF LeaseInv, ExclusiveRun, Held
  <1>10. LeaseRead'
    <2> SUFFICES ASSUME NEW q \in Runners, NEW k \in Jobs,
                        runner'[q].pc = "reclaim", runner'[q].job = k
                 PROVE  /\ runner'[q].stamp <= row'[k].stamp
                        /\ SameLease(q)' => ~Held(k)' /\ runner'[q].n = row'[k].retries
      BY DEF LeaseRead, Job
    <2>1. runner'[q] = runner[q] /\ Job(q) = k /\ runner[q].stamp \in Nat
          /\ runner[q].stamp <= row[k].stamp
          /\ (SameLease(q) => ~Held(k) /\ runner[q].n = row[k].retries)
      BY <1>0, <1>3, BusyRunner, IdlePc DEF LeaseInv, LeaseRead, Looking, Job
    <2>2. CASE k = j
      BY <1>1, <1>4, <2>1, <2>2 DEF SameLease, Job
    <2>3. CASE k # j
      BY <1>4, <1>6, <2>1, <2>3 DEF SameLease, Job
    <2> QED
      BY <2>2, <2>3
  <1>11. AlertDue'
    <2> SUFFICES ASSUME NEW q \in Runners, NEW k \in Jobs,
                        runner'[q].pc = "alert", runner'[q].job = k
                 PROVE  row'[k].status = "failed" /\ ~Held(k)'
      BY DEF AlertDue, Job
    <2>1. row[k].status = "failed" /\ ~Held(k)
      BY <1>3 DEF LeaseInv, AlertDue, Job
    <2>2. k # j
      BY <2>1 DEF Claimable
    <2> QED
      BY <1>4, <1>6, <2>1, <2>2
  <1>12. AlertIsTrue'
    BY <1>0, <1>4, <1>6 DEF LeaseInv, AlertIsTrue, Claimable, TypeOK
  <1> QED
    BY <1>0, <1>8, <1>9, <1>10, <1>11, <1>12 DEF LeaseInv

\* The other steps of a runner that holds nothing.
LEMMA LeaseLooking ==
  ASSUME LeaseInv, NEW r \in Runners, runner[r].pc \in Looking, RunnerStep(r) \/ Crash(r)
  PROVE  LeaseInv'
  <1> DEFINE j == Job(r)
  <1>0. TypeOK /\ TypeOK' /\ runner[r] # Idle /\ runner[r].pc \notin Working
    BY IdlePc, TypeRunner DEF LeaseInv, Looking, Working
  <1>1. j \in Jobs /\ row[j] \in Record /\ row[j].stamp \in Nat
    BY <1>0, BusyRunner DEF TypeOK, Record
  <1>2. ASSUME row' = row, told' = told, Release(r) PROVE LeaseInv'
    BY <1>0, <1>2, ReleaseKeeps, IdleStep, IdlePc, Zenon DEF Looking
  <1>3. CASE Claim(r)
    BY <1>2, <1>3, LeaseClaim DEF Claim
  <1>4. CASE Reclaim(r)
    <2>1. CASE row' = row
      <3>1. ~SameLease(r) \/ Fault \/ row'[j].stamp # row[j].stamp
        <4>1. SUFFICES ASSUME SameLease(r), ~Fault PROVE row'[j].stamp # row[j].stamp
          OBVIOUS
        <4>2. row'[j].stamp = row[j].stamp + 1
          BY <1>0, <1>1, <1>4, <4>1 DEF Reclaim, TypeOK, Record
        <4> QED
          BY <1>1, <4>2
      <3>2. Release(r) \/ row'[j].stamp # row[j].stamp
        <4>1. CASE SameLease(r) /\ ~Fault
          BY <3>1, <4>1
        <4>2. CASE ~SameLease(r)
          BY <1>4, <4>2 DEF Reclaim
        <4>3. CASE SameLease(r) /\ Fault
          <5>1. faults' # faults
            BY <1>0, <4>3 DEF Fault, TypeOK
          <5> QED
            BY <1>4, <4>3, <5>1 DEF Reclaim
        <4> QED
          BY <4>1, <4>2, <4>3
      <3>3. Release(r) /\ told' = told
        BY <1>4, <2>1, <3>2 DEF Reclaim
      <3> QED
        BY <1>2, <2>1, <3>3
    <2>2. CASE row' # row
      <3> DEFINE n == runner[r].n + 1
      <3>1. /\ SameLease(r) /\ told' = told
            /\ row' = [row EXCEPT ![j].status = IF Exhausted(n) THEN "failed" ELSE "pending",
                                  ![j].deferred = @ \/ ~Exhausted(n),
                                  ![j].retries = n, ![j].stamp = @ + 1]
            /\ IF Exhausted(n) THEN Goto(r, "alert", 0) ELSE Release(r)
        BY <1>4, <2>2 DEF Reclaim, Fault
      <3>2. ~Held(j) /\ row[j].status = "processing"
        BY <1>1, <3>1, <1>4 DEF LeaseInv, LeaseRead, SameLease, Reclaim, At
      <3>3. /\ \A k \in Jobs \ {j} : row'[k] = row[k]
            /\ row'[j].stamp = row[j].stamp + 1
            /\ row'[j].status = IF Exhausted(n) THEN "failed" ELSE "pending"
        BY <1>0, <1>1, <3>1 DEF TypeOK, Record
      <3>4. \A k \in Jobs : \/ /\ row'[k].status = row[k].status /\ row'[k].stamp = row[k].stamp
                               /\ row'[k].retries = row[k].retries
                            \/ /\ ~Held(k) /\ row[k].status # "failed"
                               /\ row'[k].stamp >= row[k].stamp
                               /\ row'[k].stamp > row[k].stamp \/ row'[k].status # "processing"
        BY <1>1, <3>2, <3>3
      <3>5. \A k \in told' : k \in told
        BY <3>1
      <3>6. CASE Exhausted(n)
        <4>1. /\ \A q \in Runners \ {r} : runner'[q] = runner[q]
              /\ runner'[r].pc = "alert" /\ runner'[r].job = j
          BY <1>0, <3>1, <3>6, GotoKeeps DEF Looking
        <4>2. row'[j].status = "failed" /\ "alert" \notin Working
          BY <3>3, <3>6 DEF Working
        <4> QED
          BY <1>0, <3>2, <3>4, <3>5, <4>1, <4>2, IdleStep
      <3>7. CASE ~Exhausted(n)
        <4>1. /\ \A q \in Runners \ {r} : runner'[q] = runner[q]
              /\ runner'[r].pc = "idle"
          BY <1>0, <3>1, <3>7, ReleaseKeeps
        <4> QED
          BY <1>0, <3>4, <3>5, <4>1, IdleStep, IdlePc
      <3> QED
        BY <3>6, <3>7
    <2> QED
      BY <2>1, <2>2
  <1>5. CASE AlertDeadLetter(r)
    <2>1. row[j].status = "failed" /\ ~Held(j)
      BY <1>1, <1>5 DEF LeaseInv, AlertDue, AlertDeadLetter, At
    <2>2. Release(r) /\ row' = row /\ told' = told \cup {j}
      BY <1>5 DEF AlertDeadLetter
    <2>3. /\ \A q \in Runners \ {r} : runner'[q] = runner[q]
          /\ runner'[r].pc = "idle"
      BY <1>0, <2>2, ReleaseKeeps
    <2> QED
      BY <1>0, <2>1, <2>2, <2>3, IdleStep, IdlePc
  <1>6. CASE Crash(r)
    BY <1>2, <1>6 DEF Crash
  <1>7. ~(\/ Send(r) \/ Throw(r) \/ Complete(r) \/ CountRetry(r) \/ DeferRetry(r)
          \/ ReturnJob(r) \/ ExhaustJob(r) \/ BuryJob(r))
    BY <1>0 DEF Send, Throw, Complete, CountRetry, DeferRetry, ReturnJob, ExhaustJob, BuryJob, At,
                Working
  <1> QED
    BY <1>3, <1>4, <1>5, <1>6, <1>7 DEF RunnerStep

LEMMA LeaseNext == LeaseInv /\ [Next]_vars => LeaseInv'
  <1> SUFFICES ASSUME LeaseInv, [Next]_vars PROVE LeaseInv'
    OBVIOUS
  <1>0. TypeOK /\ TypeOK'
    BY TypeNext DEF LeaseInv
  <1>1. CASE UNCHANGED vars
    BY <1>0, <1>1, IdleStep DEF vars
  <1>2. ASSUME NEW j \in Jobs, Enqueue(j) PROVE LeaseInv'
    <2>1. ~Held(j) /\ row[j].status = "absent"
      BY <1>2 DEF Enqueue, LeaseInv, HeldIsProcessing, Held, Holds, Job
    <2>2. /\ \A k \in Jobs \ {j} : row'[k] = row[k]
          /\ row'[j].stamp = row[j].stamp /\ row'[j].status = "pending"
          /\ row[j].stamp \in Nat /\ runner' = runner /\ told' = told
      BY <1>0, <1>2 DEF Enqueue, TypeOK, Record
    <2> QED
      BY <1>0, <2>1, <2>2, IdleStep
  <1>3. ASSUME NEW j \in Jobs, BackoffEnds(j) PROVE LeaseInv'
    <2>1. /\ \A k \in Jobs : /\ row'[k].status = row[k].status /\ row'[k].stamp = row[k].stamp
                             /\ row'[k].retries = row[k].retries
          /\ runner' = runner /\ told' = told
      BY <1>0, <1>3 DEF BackoffEnds, TypeOK, Record
    <2> QED
      BY <1>0, <2>1, IdleStep
  <1>4. ASSUME NEW r \in Runners, NEW j \in Jobs, Select(r, j) PROVE LeaseInv'
    <2> DEFINE new == [pc |-> "claim", job |-> j, n |-> 0, stamp |-> 0]
    <2>1. new \in Busy
      BY DEF Busy, Looking
    <2>2. /\ \A q \in Runners \ {r} : runner'[q] = runner[q]
          /\ runner'[r].pc = "claim" /\ runner[r].pc = "idle" /\ row' = row /\ told' = told
      BY <1>0, <1>4, <2>1, SelectKeeps, IdlePc DEF Select
    <2>3. "claim" \notin Working
      BY DEF Working
    <2> QED
      BY <1>0, <2>2, <2>3, IdlePc, IdleStep
  <1>5. ASSUME NEW r \in Runners, NEW j \in Jobs, ReadStale(r, j) PROVE LeaseInv'
    <2> DEFINE new == [pc |-> "reclaim", job |-> j, n |-> row[j].retries, stamp |-> row[j].stamp]
    <2>1. new \in Busy
      BY <1>0 DEF Busy, Looking, TypeOK, Record
    <2>2. /\ \A q \in Runners \ {r} : runner'[q] = runner[q]
          /\ runner'[r] = new /\ runner[r].pc = "idle" /\ row' = row /\ told' = told
      BY <1>0, <1>5, <2>1, SelectKeeps, IdlePc DEF ReadStale
    <2>3. "reclaim" \notin Working /\ ~Held(j)
      BY <1>5 DEF Working, ReadStale, Stale
    <2> QED
      BY <1>0, <2>2, <2>3, IdlePc, IdleStep
  <1>6. ASSUME NEW r \in Runners, RunnerStep(r) \/ Crash(r) PROVE LeaseInv'
    <2>1. runner[r].pc \in Working \cup Looking
      BY <1>0, <1>6, BusyRunner
      DEF RunnerStep, Crash, Claim, Send, Throw, Complete, CountRetry, DeferRetry, ReturnJob,
          ExhaustJob, BuryJob, Reclaim, AlertDeadLetter, At, Working, Looking, Busy
    <2> QED
      BY <1>6, <2>1, LeaseWorking, LeaseLooking
  <1> QED
    BY <1>1, <1>2, <1>3, <1>4, <1>5, <1>6 DEF Next

THEOREM TypeCorrect == Spec => []TypeOK
  BY TypeInit, TypeNext, PTL DEF Spec

\* Whatever drainers overlap, crash or lose database calls, one job is never in the
\* hands of two of them.
THEOREM ExclusiveRuns == Spec => []ExclusiveRun
  <1>1. Spec => []LeaseInv
    BY LeaseInit, LeaseNext, PTL DEF Spec
  <1>2. LeaseInv => ExclusiveRun
    BY DEF LeaseInv
  <1> QED
    BY <1>1, <1>2, PTL

\* A job named in a dead-letter alert is failed, held by nobody, and stays so.
THEOREM AlertsAreTrue == Spec => []AlertIsTrue
  <1>1. Spec => []LeaseInv
    BY LeaseInit, LeaseNext, PTL DEF Spec
  <1>2. LeaseInv => AlertIsTrue
    BY DEF LeaseInv
  <1> QED
    BY <1>1, <1>2, PTL

-----------------------------------------------------------------------------
(* Counting runs.  A run is paid for by a retry counted on the row, or by a  *)
(* database call that failed: losing the count costs at most a whole cap.    *)

Cap == MaxRetries + 1
Lost == Cap * faults

RowCount(rec, t, lost) ==
  /\ t <= lost + Cap
  /\ rec.status = "absent" => t = 0 /\ rec.retries = 0
  /\ rec.status = "pending" => rec.retries <= MaxRetries /\ t <= rec.retries + lost
  /\ rec.status = "processing" => rec.retries <= MaxRetries /\ t <= rec.retries + 1 + lost

RunnerCount(rn, rec, t, lost) ==
  /\ rn.pc = "defer" => rn.n <= MaxRetries /\ t <= rn.n + lost
  /\ rn.pc = "return" => t <= rec.retries + lost

CountInv ==
  /\ LeaseInv
  /\ \A k \in Jobs : RowCount(row[k], tries[k], Lost)
  /\ \A q \in Runners, k \in Jobs :
       Holds(q, k) => RunnerCount(runner[q], row[k], tries[k], Lost)

\* A failing call buys a whole cap of runs.
LEMMA LostGrows ==
  ASSUME TypeOK, TypeOK'
  PROVE  /\ Lost \in Nat /\ Lost' \in Nat /\ Cap \in Nat /\ Cap >= 1
         /\ faults' = faults => Lost' = Lost
         /\ faults' = faults + 1 => Lost' = Lost + Cap
         /\ Cap * (faults + 1) = Lost + Cap
  <1>1. Cap \in Nat /\ Cap >= 1 /\ faults \in Nat /\ faults' \in Nat
    BY RetriesAssumption, FaultsAssumption DEF Cap, TypeOK
  <1>2. \A c, f \in Nat : c * f \in Nat /\ c * (f + 1) = c * f + c
    OBVIOUS
  <1> QED
    BY <1>1, <1>2 DEF Lost

\* What a step must establish: the rows and runners it changed.
LEMMA CountStep ==
  ASSUME CountInv, LeaseInv', faults' = faults \/ faults' = faults + 1,
         \A k \in Jobs : \/ /\ row'[k].status = row[k].status /\ row'[k].retries = row[k].retries
                            /\ tries'[k] = tries[k]
                         \/ RowCount(row'[k], tries'[k], Lost'),
         \A q \in Runners, k \in Jobs : runner'[q].pc \in Working /\ runner'[q].job = k =>
            \/ /\ runner'[q] = runner[q] /\ row'[k].retries = row[k].retries
               /\ tries'[k] = tries[k]
            \/ RunnerCount(runner'[q], row'[k], tries'[k], Lost')
  PROVE  CountInv'
  <1>1. Lost \in Nat /\ Lost' \in Nat /\ Lost <= Lost' /\ Cap \in Nat
    BY LostGrows DEF CountInv, LeaseInv
  <1>2. \A k \in Jobs : tries[k] \in Nat /\ row[k].retries \in Nat
    BY DEF CountInv, LeaseInv, TypeOK, Record
  <1>3. ASSUME NEW k \in Jobs PROVE RowCount(row'[k], tries'[k], Lost')
    BY <1>1, <1>2 DEF CountInv, RowCount
  <1>4. ASSUME NEW q \in Runners, NEW k \in Jobs, Holds(q, k)'
        PROVE  RunnerCount(runner'[q], row'[k], tries'[k], Lost')
    <2>1. runner'[q].pc \in Working /\ runner'[q].job = k
      BY <1>4 DEF Holds, Job
    <2>2. CASE /\ runner'[q] = runner[q] /\ row'[k].retries = row[k].retries
               /\ tries'[k] = tries[k]
      <3>1. RunnerCount(runner[q], row[k], tries[k], Lost) /\ runner[q].n \in Nat
        BY <2>1, <2>2, BusyRunner, IdlePc DEF CountInv, LeaseInv, Holds, Job
      <3> QED
        BY <1>1, <1>2, <2>2, <3>1 DEF RunnerCount
    <2> QED
      BY <2>1, <2>2
  <1> QED
    BY <1>3, <1>4 DEF CountInv

LEMMA CountInit == Init => CountInv
  <1> SUFFICES ASSUME Init PROVE CountInv
    OBVIOUS
  <1>1. LeaseInv /\ TypeOK
    BY LeaseInit, TypeInit
  <1>2. faults = 0 /\ Cap \in Nat
    BY RetriesAssumption DEF Init, Cap
  <1>3. Lost = 0
    BY <1>2 DEF Lost
  <1>4. \A k \in Jobs : RowCount(row[k], tries[k], Lost)
    BY <1>2, <1>3 DEF Init, RowCount
  <1>5. \A q \in Runners, k \in Jobs : ~Holds(q, k)
    BY IdlePc DEF Init, Holds
  <1> QED
    BY <1>1, <1>4, <1>5 DEF CountInv

\* A step of the runner at work on j, the only one at work on j.
LEMMA CountWorking ==
  ASSUME CountInv, LeaseInv', faults' = faults \/ faults' = faults + 1, tries' = tries,
         NEW r \in Runners, runner[r].pc \in Working, NEW j \in Jobs, j = Job(r),
         \A q \in Runners \ {r} : runner'[q] = runner[q],
         \A k \in Jobs \ {j} : row'[k] = row[k],
         row'[j] = row[j] \/ RowCount(row'[j], tries[j], Lost'),
         runner'[r].pc \in Working =>
           runner'[r].job = j /\ RunnerCount(runner'[r], row'[j], tries[j], Lost')
  PROVE  CountInv'
  <1>1. \A q \in Runners \ {r} : ~Holds(q, j)
    BY DEF CountInv, LeaseInv, ExclusiveRun, Holds, Job
  <1>2. ASSUME NEW q \in Runners, NEW k \in Jobs, runner'[q].pc \in Working, runner'[q].job = k
        PROVE  \/ /\ runner'[q] = runner[q] /\ row'[k].retries = row[k].retries
                  /\ tries'[k] = tries[k]
               \/ RunnerCount(runner'[q], row'[k], tries'[k], Lost')
    BY <1>1, <1>2 DEF Holds, Job
  <1> QED
    BY <1>2, CountStep

\* A step that writes no row, counts no run, and has no runner take up a row.
LEMMA CountIdle ==
  ASSUME CountInv, LeaseInv', faults' = faults \/ faults' = faults + 1, tries' = tries,
         row' = row, NEW r \in Runners, runner'[r].pc \notin Working,
         \A q \in Runners \ {r} : runner'[q] = runner[q]
  PROVE  CountInv'
  BY CountStep

LEMMA CountHolder ==
  ASSUME CountInv, LeaseInv', NEW r \in Runners, runner[r].pc \in Working, RunnerStep(r)
  PROVE  CountInv'
  <1> DEFINE j == Job(r)
  <1>0. LeaseInv /\ TypeOK /\ TypeOK' /\ runner[r] # Idle
    BY IdlePc DEF CountInv, LeaseInv
  <1>1. /\ j \in Jobs /\ runner[r].n \in Nat /\ row[j].retries \in Nat /\ tries[j] \in Nat
        /\ faults \in Nat /\ row[j] \in Record
    BY <1>0, BusyRunner, FaultsAssumption DEF TypeOK, Record
  <1>2. /\ Lost \in Nat /\ Lost' \in Nat /\ Cap \in Nat /\ Cap = MaxRetries + 1
        /\ faults' = faults => Lost' = Lost
        /\ faults' = faults + 1 => Lost' = Lost + Cap
        /\ MaxRetries \in Nat
    BY <1>0, LostGrows, RetriesAssumption DEF Cap
  <1>3. RowCount(row[j], tries[j], Lost) /\ RunnerCount(runner[r], row[j], tries[j], Lost)
    BY <1>1 DEF CountInv, Holds, Job
  <1>4. \/ row[j].status = "processing"
        \/ runner[r].pc = "bury" /\ row[j].status = "failed"
    BY <1>0 DEF LeaseInv, HeldIsProcessing
  <1> HIDE DEF j
  <1>5. CASE Send(r) \/ Throw(r)
    <2>1. row' = row /\ tries' = tries /\ faults' = faults
      BY <1>5 DEF Send, Throw
    <2>2. PICK pc \in {"send", "complete", "count"}, n \in Nat : Goto(r, pc, n)
      BY <1>1, <1>5 DEF Send, Throw
    <2>3. /\ \A q \in Runners \ {r} : runner'[q] = runner[q]
          /\ runner'[r].pc = pc /\ runner'[r].job = j
      BY <1>0, <2>2, GotoKeeps DEF Working, j
    <2>4. RunnerCount(runner'[r], row'[j], tries[j], Lost')
      BY <2>3 DEF RunnerCount
    <2> QED
      BY <1>0, <1>1, <2>1, <2>3, <2>4, CountWorking DEF j
  <1>6. CASE CountRetry(r)
    <2>1. row[j].status = "processing"
      BY <1>4, <1>6 DEF CountRetry, At
    <2>2. PICK known \in BOOLEAN, n \in Nat :
            /\ n = (IF known THEN row[j].retries ELSE 0) + 1
            /\ IF known THEN UNCHANGED <<row, faults>> ELSE Fault
            /\ Goto(r, IF Exhausted(n) THEN "exhaust" ELSE "defer", n)
      BY <1>1, <1>6 DEF CountRetry, j
    <2>3. /\ row' = row /\ tries' = tries
          /\ known => faults' = faults
          /\ ~known => faults' = faults + 1
      BY <1>6, <2>2 DEF CountRetry, Fault
    <2>4. /\ \A q \in Runners \ {r} : runner'[q] = runner[q]
          /\ runner'[r].pc = IF Exhausted(n) THEN "exhaust" ELSE "defer"
          /\ runner'[r].n = n /\ runner'[r].job = j
      BY <1>0, <2>2, GotoKeeps DEF Working, j
    <2>5. tries[j] <= n + Lost'
      BY <1>1, <1>2, <1>3, <2>1, <2>2, <2>3 DEF RowCount
    <2>6. RunnerCount(runner'[r], row'[j], tries[j], Lost')
      BY <1>1, <1>2, <2>4, <2>5 DEF RunnerCount, Exhausted
    <2>7. runner'[r].pc \in Working
      BY <2>4 DEF Working
    <2> QED
      BY <1>0, <1>1, <2>3, <2>4, <2>6, CountWorking DEF j
  <1>7. CASE DeferRetry(r)
    <2>1. row[j].status = "processing" /\ runner[r].n <= MaxRetries /\ tries[j] <= runner[r].n + Lost
      BY <1>3, <1>4, <1>7 DEF DeferRetry, At, RunnerCount
    <2>2. /\ \A q \in Runners \ {r} : runner'[q] = runner[q]
          /\ runner'[r].pc = "return" /\ runner'[r].job = j
      BY <1>0, <1>7, GotoKeeps DEF DeferRetry, Working, j
    <2>3. tries' = tries
      BY <1>7 DEF DeferRetry
    <2>4. CASE Fault
      <3>1. row' = row /\ faults' = faults + 1
        BY <2>4 DEF Fault
      <3>2. RunnerCount(runner'[r], row'[j], tries[j], Lost')
        BY <1>1, <1>2, <2>1, <2>2, <3>1 DEF RunnerCount
      <3> QED
        BY <1>0, <1>1, <2>2, <2>3, <3>1, <3>2, CountWorking DEF j
    <2>5. CASE ~Fault
      <3>1. /\ row' = [row EXCEPT ![j] = [row[j] EXCEPT !.retries = runner[r].n, !.deferred = TRUE]]
            /\ faults' = faults
        BY <1>7, <2>5 DEF DeferRetry, j
      <3>2. /\ \A k \in Jobs \ {j} : row'[k] = row[k]
            /\ row'[j].status = "processing" /\ row'[j].retries = runner[r].n
        BY <1>0, <1>1, <2>1, <3>1 DEF TypeOK, Record
      <3>3. RunnerCount(runner'[r], row'[j], tries[j], Lost')
        BY <1>2, <2>1, <2>2, <3>1, <3>2 DEF RunnerCount
      <3>4. RowCount(row'[j], tries[j], Lost')
        BY <1>1, <1>2, <2>1, <3>1, <3>2 DEF RowCount
      <3> QED
        BY <1>0, <1>1, <2>2, <2>3, <3>1, <3>2, <3>3, <3>4, CountWorking DEF j
    <2> QED
      BY <2>4, <2>5
  <1>8. ASSUME NEW s \in {"completed", "failed", "pending"}, UpdateJobStatus(j, s),
               s = "pending" => row[j].status = "processing" /\ tries[j] <= row[j].retries + Lost
        PROVE  /\ faults' = faults \/ faults' = faults + 1
               /\ \A k \in Jobs \ {j} : row'[k] = row[k]
               /\ row'[j] = row[j] \/ RowCount(row'[j], tries[j], Lost')
    <2>1. /\ \A k \in Jobs \ {j} : row'[k] = row[k]
          /\ row'[j].retries = row[j].retries
          /\ \/ row'[j].status = s /\ faults' = faults
             \/ row' = row /\ faults' = faults + 1
      BY <1>0, <1>1, <1>8, StatusWritten DEF QueueStatus
    <2>2. CASE row'[j].status = s /\ faults' = faults
      <3>1. RowCount(row'[j], tries[j], Lost')
        BY <1>1, <1>2, <1>3, <1>8, <2>1, <2>2 DEF RowCount
      <3> QED
        BY <2>1, <2>2, <3>1
    <2> QED
      BY <2>1, <2>2
  <1>9. CASE Complete(r) \/ BuryJob(r) \/ ReturnJob(r)
    <2>1. PICK s \in {"completed", "failed", "pending"} :
            /\ UpdateJobStatus(j, s)
            /\ s = "pending" => At(r, "return")
      BY <1>9 DEF Complete, BuryJob, ReturnJob, Outcome, j
    <2>2. s = "pending" => row[j].status = "processing" /\ tries[j] <= row[j].retries + Lost
      BY <1>3, <1>4, <2>1 DEF At, RunnerCount
    <2>3. Release(r) /\ tries' = tries
      BY <1>9 DEF Complete, BuryJob, ReturnJob
    <2>4. /\ \A q \in Runners \ {r} : runner'[q] = runner[q]
          /\ runner'[r].pc = "idle"
      BY <1>0, <2>3, ReleaseKeeps
    <2> QED
      BY <1>0, <1>1, <1>8, <2>1, <2>2, <2>3, <2>4, IdlePc, CountWorking DEF j
  <1>10. CASE ExhaustJob(r)
    <2>1. UpdateJobStatus(j, "failed") /\ tries' = tries
      BY <1>10 DEF ExhaustJob, j
    <2>2. /\ \A q \in Runners \ {r} : runner'[q] = runner[q]
          /\ runner'[r].pc = "bury" /\ runner'[r].job = j
      BY <1>0, <1>10, GotoKeeps DEF ExhaustJob, Working, j
    <2>3. RunnerCount(runner'[r], row'[j], tries[j], Lost')
      BY <2>2 DEF RunnerCount
    <2> QED
      BY <1>0, <1>1, <1>8, <2>1, <2>2, <2>3, CountWorking DEF j
  <1>11. ~Claim(r) /\ ~Reclaim(r) /\ ~AlertDeadLetter(r)
    BY DEF Claim, Reclaim, AlertDeadLetter, At, Working
  <1> QED
    BY <1>5, <1>6, <1>7, <1>9, <1>10, <1>11 DEF RunnerStep

LEMMA CountLooking ==
  ASSUME CountInv, LeaseInv', NEW r \in Runners, runner[r].pc \in Looking, RunnerStep(r)
  PROVE  CountInv'
  <1> DEFINE j == Job(r)
  <1>0. LeaseInv /\ TypeOK /\ TypeOK' /\ runner[r] # Idle /\ runner[r].pc \notin Working
    BY IdlePc DEF CountInv, LeaseInv, Looking, Working
  <1>1. /\ j \in Jobs /\ runner[r].n \in Nat /\ row[j].retries \in Nat /\ tries[j] \in Nat
        /\ row[j] \in Record
    BY <1>0, BusyRunner DEF TypeOK, Record
  <1>2. /\ Lost \in Nat /\ Cap \in Nat /\ Cap = MaxRetries + 1
        /\ faults' = faults => Lost' = Lost
        /\ MaxRetries \in Nat
    BY <1>0, LostGrows, RetriesAssumption DEF Cap
  <1>3. RowCount(row[j], tries[j], Lost)
    BY <1>1 DEF CountInv
  <1>4. ASSUME row' = row, tries' = tries, faults' = faults \/ faults' = faults + 1, Release(r)
        PROVE  CountInv'
    <2>1. /\ \A q \in Runners \ {r} : runner'[q] = runner[q]
          /\ runner'[r].pc \notin Working
      BY <1>0, <1>4, ReleaseKeeps, IdlePc
    <2> QED
      BY <1>4, <2>1, CountIdle
  <1> HIDE DEF j
  <1>5. CASE Claim(r)
    <2>1. CASE Claimable(j)
      <3>1. /\ row' = [row EXCEPT ![j].status = "processing", ![j].stamp = @ + 1]
            /\ tries' = [tries EXCEPT ![j] = @ + 1]
            /\ Goto(r, "send", 1) /\ faults' = faults
        BY <1>5, <2>1 DEF Claim, j
      <3>2. /\ \A k \in Jobs \ {j} : row'[k] = row[k] /\ tries'[k] = tries[k]
            /\ row'[j].status = "processing" /\ row'[j].retries = row[j].retries
            /\ tries'[j] = tries[j] + 1
        BY <1>0, <1>1, <3>1 DEF TypeOK, Record
      <3>3. RowCount(row'[j], tries'[j], Lost')
        BY <1>1, <1>2, <1>3, <2>1, <3>1, <3>2 DEF RowCount, Claimable
      <3>4. /\ \A q \in Runners \ {r} : runner'[q] = runner[q]
            /\ runner'[r].pc = "send"
        BY <1>0, <3>1, GotoKeeps DEF Working
      <3>5. \A q \in Runners : ~Holds(q, j)
        BY <1>0, <2>1 DEF LeaseInv, HeldIsProcessing, Holds, Job, Claimable
      <3>6. ASSUME NEW q \in Runners, NEW k \in Jobs, runner'[q].pc \in Working, runner'[q].job = k
            PROVE  \/ /\ runner'[q] = runner[q] /\ row'[k].retries = row[k].retries
                      /\ tries'[k] = tries[k]
                   \/ RunnerCount(runner'[q], row'[k], tries'[k], Lost')
        <4>1. CASE q = r
          BY <3>4, <4>1 DEF RunnerCount
        <4>2. CASE q # r
          BY <3>2, <3>4, <3>5, <3>6, <4>2 DEF Holds, Job
        <4> QED
          BY <4>1, <4>2
      <3> QED
        BY <3>1, <3>2, <3>3, <3>6, CountStep
    <2>2. CASE ~Claimable(j)
      BY <1>4, <1>5, <2>2 DEF Claim, j
    <2> QED
      BY <2>1, <2>2
  <1>6. CASE Reclaim(r)
    <2> DEFINE n == runner[r].n + 1
    <2>1. CASE SameLease(r) /\ faults' = faults /\ row' # row
      <3>1. /\ row' = [row EXCEPT ![j].status = IF Exhausted(n) THEN "failed" ELSE "pending",
                                  ![j].deferred = @ \/ ~Exhausted(n),
                                  ![j].retries = n, ![j].stamp = @ + 1]
            /\ IF Exhausted(n) THEN Goto(r, "alert", 0) ELSE Release(r)
            /\ tries' = tries
        BY <1>6, <2>1 DEF Reclaim, Fault, j
      <3>2. /\ ~Held(j) /\ runner[r].n = row[j].retries /\ row[j].status = "processing"
        BY <1>0, <1>1, <1>6, <2>1 DEF LeaseInv, LeaseRead, SameLease, Reclaim, At, j
      <3>3. /\ \A k \in Jobs \ {j} : row'[k] = row[k]
            /\ row'[j].retries = n
            /\ row'[j].status = IF Exhausted(n) THEN "failed" ELSE "pending"
        BY <1>0, <1>1, <3>1 DEF TypeOK, Record
      <3>4. RowCount(row'[j], tries'[j], Lost')
        BY <1>1, <1>2, <1>3, <2>1, <3>1, <3>2, <3>3 DEF RowCount, Exhausted
      <3>5. /\ \A q \in Runners \ {r} : runner'[q] = runner[q]
            /\ runner'[r].pc \notin Working
        BY <1>0, <3>1, GotoKeeps, ReleaseKeeps, IdlePc DEF Working, Looking
      <3>6. ASSUME NEW q \in Runners, NEW k \in Jobs, runner'[q].pc \in Working, runner'[q].job = k
            PROVE  /\ runner'[q] = runner[q] /\ row'[k].retries = row[k].retries
                   /\ tries'[k] = tries[k]
        BY <3>1, <3>2, <3>3, <3>5, <3>6 DEF Held, Holds, Job
      <3> QED
        BY <2>1, <3>1, <3>3, <3>4, <3>6, CountStep
    <2>2. CASE ~(SameLease(r) /\ faults' = faults /\ row' # row)
      <3>1. tries' = tries /\ (faults' = faults \/ faults' = faults + 1)
        BY <1>6 DEF Reclaim, Fault
      <3>2. SameLease(r) /\ faults' = faults => row' # row
        <4>1. SUFFICES ASSUME SameLease(r), faults' = faults PROVE row' # row
          OBVIOUS
        <4>2. row'[j].stamp = row[j].stamp + 1
          BY <1>0, <1>1, <1>6, <4>1 DEF Reclaim, Fault, TypeOK, Record, j
        <4> QED
          BY <1>1, <4>2 DEF Record
      <3>3. row' = row /\ Release(r)
        BY <1>6, <2>2, <3>2 DEF Reclaim, Fault
      <3> QED
        BY <1>4, <3>1, <3>3
    <2> QED
      BY <2>1, <2>2
  <1>7. CASE AlertDeadLetter(r)
    BY <1>4, <1>7 DEF AlertDeadLetter
  <1>8. ~(\/ Send(r) \/ Throw(r) \/ Complete(r) \/ CountRetry(r) \/ DeferRetry(r)
          \/ ReturnJob(r) \/ ExhaustJob(r) \/ BuryJob(r))
    BY <1>0 DEF Send, Throw, Complete, CountRetry, DeferRetry, ReturnJob, ExhaustJob, BuryJob, At,
                Working
  <1> QED
    BY <1>5, <1>6, <1>7, <1>8 DEF RunnerStep

LEMMA CountNext == CountInv /\ [Next]_vars => CountInv'
  <1> SUFFICES ASSUME CountInv, [Next]_vars PROVE CountInv'
    OBVIOUS
  <1>0. LeaseInv /\ TypeOK /\ LeaseInv' /\ TypeOK'
    BY LeaseNext DEF CountInv, LeaseInv
  <1>1. CASE UNCHANGED vars
    BY <1>0, <1>1, CountStep DEF vars
  <1>2. ASSUME NEW j \in Jobs, Enqueue(j) PROVE CountInv'
    <2>1. /\ \A k \in Jobs \ {j} : row'[k] = row[k]
          /\ row[j].status = "absent" /\ row'[j].status = "pending"
          /\ row'[j].retries = row[j].retries
          /\ runner' = runner /\ tries' = tries /\ faults' = faults
      BY <1>0, <1>2 DEF Enqueue, TypeOK, Record
    <2>2. MaxRetries \in Nat /\ Lost \in Nat /\ Lost' = Lost /\ Cap \in Nat
      BY <1>0, <2>1, LostGrows, RetriesAssumption
    <2>3. RowCount(row'[j], tries'[j], Lost')
      BY <2>1, <2>2 DEF CountInv, RowCount
    <2> QED
      BY <1>0, <2>1, <2>3, CountStep
  <1>3. ASSUME NEW j \in Jobs, BackoffEnds(j) PROVE CountInv'
    <2>1. /\ \A k \in Jobs : row'[k].status = row[k].status /\ row'[k].retries = row[k].retries
          /\ runner' = runner /\ tries' = tries /\ faults' = faults
      BY <1>0, <1>3 DEF BackoffEnds, TypeOK, Record
    <2> QED
      BY <1>0, <2>1, CountStep
  <1>4. ASSUME NEW r \in Runners, NEW j \in Jobs, Select(r, j) \/ ReadStale(r, j) PROVE CountInv'
    <2>1. PICK new \in Busy : runner' = [runner EXCEPT ![r] = new] /\ new.pc \notin Working
      <3>1. /\ [pc |-> "claim", job |-> j, n |-> 0, stamp |-> 0] \in Busy
            /\ [pc |-> "reclaim", job |-> j, n |-> row[j].retries, stamp |-> row[j].stamp] \in Busy
        BY <1>0 DEF Busy, Looking, TypeOK, Record
      <3>2. "claim" \notin Working /\ "reclaim" \notin Working
        BY DEF Working
      <3> QED
        BY <1>4, <3>1, <3>2 DEF Select, ReadStale
    <2>2. row' = row /\ tries' = tries /\ faults' = faults
      BY <1>4 DEF Select, ReadStale
    <2> QED
      BY <1>0, <2>1, <2>2, SelectKeeps, CountIdle
  <1>5. ASSUME NEW r \in Runners, RunnerStep(r) PROVE CountInv'
    <2>1. runner[r].pc \in Working \cup Looking
      BY <1>5
      DEF RunnerStep, Claim, Send, Throw, Complete, CountRetry, DeferRetry, ReturnJob,
          ExhaustJob, BuryJob, Reclaim, AlertDeadLetter, At, Working, Looking
    <2> QED
      BY <1>0, <1>5, <2>1, CountHolder, CountLooking
  <1>6. ASSUME NEW r \in Runners, Crash(r) PROVE CountInv'
    <2>1. /\ row' = row /\ tries' = tries /\ faults' = faults
          /\ \A q \in Runners \ {r} : runner'[q] = runner[q]
          /\ runner'[r].pc \notin Working
      BY <1>0, <1>6, ReleaseKeeps, IdlePc DEF Crash
    <2> QED
      BY <1>0, <2>1, CountIdle
  <1> QED
    BY <1>1, <1>2, <1>3, <1>4, <1>5, <1>6 DEF Next

\* A job is run at most MaxRetries + 1 times, and at most that often again for every
\* database call that fails.
THEOREM RunsAreBounded == Spec => []RunsBounded
  <1>1. Spec => []CountInv
    BY CountInit, CountNext, PTL DEF Spec
  <1>2. CountInv => RunsBounded
    <2> SUFFICES ASSUME CountInv, NEW j \in Jobs
                 PROVE  tries[j] <= (MaxRetries + 1) * (faults + 1)
      BY DEF RunsBounded
    <2>1. TypeOK
      BY DEF CountInv, LeaseInv
    <2>2. Cap * (faults + 1) = Lost + Cap
      <3>1. Cap \in Nat /\ faults \in Nat
        BY <2>1, RetriesAssumption, FaultsAssumption DEF Cap, TypeOK
      <3>2. \A c, f \in Nat : c * (f + 1) = c * f + c
        OBVIOUS
      <3> QED
        BY <3>1, <3>2 DEF Lost
    <2>3. tries[j] <= Lost + Cap
      BY DEF CountInv, RowCount
    <2> QED
      BY <2>2, <2>3 DEF Cap
  <1> QED
    BY <1>1, <1>2, PTL

-----------------------------------------------------------------------------
(* The queue implements the ledger of its jobs. *)

Allowed == (MaxRetries + 1) * (MaxFaults + 1)

\* A step moves at most one job, along an edge of the ledger.
Take(j) ==
  /\ row[j].status = "pending" /\ row'[j].status = "processing"
  /\ tries[j] < Allowed /\ tries' = [tries EXCEPT ![j] = @ + 1]

Settle(j) ==
  /\ \/ row[j].status = "absent" /\ row'[j].status = "pending"
     \/ /\ row[j].status = "processing"
        /\ row'[j].status \in {"pending", "completed", "failed"}
  /\ tries' = tries

Moves(j) ==
  /\ \A k \in Jobs \ {j} : row'[k].status = row[k].status
  /\ Take(j) \/ Settle(j)

Rests == (\A k \in Jobs : row'[k].status = row[k].status) /\ tries' = tries

LEMMA WithinAllowance ==
  ASSUME CountInv, NEW j \in Jobs, row[j].status = "pending"
  PROVE  tries[j] < Allowed
  <1>1. TypeOK /\ RowCount(row[j], tries[j], Lost)
    BY DEF CountInv, LeaseInv
  <1>2. /\ row[j].retries \in Nat /\ tries[j] \in Nat /\ faults \in Nat /\ faults <= MaxFaults
        /\ MaxFaults \in Nat /\ MaxRetries \in Nat /\ Cap \in Nat /\ Cap = MaxRetries + 1
    BY <1>1, RetriesAssumption, FaultsAssumption DEF TypeOK, Record, Cap
  <1>3. \A c, f, m \in Nat : f <= m => c * f \in Nat /\ c * f <= c * m /\ c * (m + 1) = c * m + c
    OBVIOUS
  <1>4. Lost \in Nat /\ Lost <= Cap * MaxFaults /\ Cap * (MaxFaults + 1) = Cap * MaxFaults + Cap
    BY <1>2, <1>3 DEF Lost
  <1>5. tries[j] < Lost + Cap
    BY <1>1, <1>2, <1>4 DEF RowCount
  <1>6. Cap * MaxFaults \in Nat
    BY <1>2, <1>3
  <1> HIDE DEF Cap
  <1>7. Allowed = Cap * (MaxFaults + 1)
    BY DEF Allowed, Cap
  <1> QED
    BY <1>2, <1>4, <1>5, <1>6, <1>7

LEMMA JobMoves ==
  ASSUME CountInv, [Next]_vars
  PROVE  Rests \/ \E j \in Jobs : Moves(j)
  <1>0. LeaseInv /\ TypeOK
    BY DEF CountInv, LeaseInv
  <1>1. CASE UNCHANGED vars
    BY <1>1 DEF vars, Rests
  <1>2. ASSUME NEW j \in Jobs, Enqueue(j) PROVE Moves(j)
    BY <1>0, <1>2 DEF Enqueue, TypeOK, Record, Moves, Settle
  <1>3. ASSUME NEW j \in Jobs, BackoffEnds(j) PROVE Rests
    BY <1>0, <1>3 DEF BackoffEnds, TypeOK, Record, Rests
  <1>4. ASSUME NEW r \in Runners, NEW j \in Jobs, Select(r, j) \/ ReadStale(r, j) PROVE Rests
    BY <1>4 DEF Select, ReadStale, Rests
  <1>5. ASSUME NEW r \in Runners, Crash(r) PROVE Rests
    BY <1>5 DEF Crash, Rests
  <1>6. ASSUME NEW r \in Runners, RunnerStep(r) PROVE Rests \/ (Moves(Job(r)) /\ Job(r) \in Jobs)
    <2>0. runner[r] # Idle
      BY <1>6, IdlePc
      DEF RunnerStep, Claim, Send, Throw, Complete, CountRetry, DeferRetry, ReturnJob, ExhaustJob,
          BuryJob, Reclaim, AlertDeadLetter, At
    <2> DEFINE j == Job(r)
    <2>1. j \in Jobs /\ row[j] \in Record
      BY <1>0, <2>0, BusyRunner DEF TypeOK
    <2> HIDE DEF j
    <2>2. CASE Claim(r)
      <3>1. CASE Claimable(j)
        <4>1. /\ row' = [row EXCEPT ![j].status = "processing", ![j].stamp = @ + 1]
              /\ tries' = [tries EXCEPT ![j] = @ + 1]
          BY <2>2, <3>1 DEF Claim, j
        <4>2. /\ \A k \in Jobs \ {j} : row'[k].status = row[k].status
              /\ row'[j].status = "processing"
          BY <1>0, <2>1, <4>1 DEF TypeOK, Record
        <4>3. Moves(j)
          BY <2>1, <3>1, <4>1, <4>2, WithinAllowance DEF Claimable, Moves, Take
        <4> QED
          BY <2>1, <4>3 DEF j
      <3>2. CASE ~Claimable(j)
        BY <2>2, <3>2 DEF Claim, Rests, j
      <3> QED
        BY <3>1, <3>2
    <2>3. CASE Send(r) \/ Throw(r) \/ CountRetry(r) \/ AlertDeadLetter(r)
      BY <2>3 DEF Send, Throw, CountRetry, AlertDeadLetter, Fault, Rests
    <2>4. CASE Complete(r) \/ ReturnJob(r) \/ ExhaustJob(r) \/ BuryJob(r)
      <3>1. PICK s \in {"completed", "failed", "pending"} :
              UpdateJobStatus(j, s) /\ (At(r, "bury") => s = "failed")
        BY <2>4 DEF Complete, ReturnJob, ExhaustJob, BuryJob, Outcome, At, j
      <3>2. tries' = tries
        BY <2>4 DEF Complete, ReturnJob, ExhaustJob, BuryJob
      <3>3. row[j].status = "processing" \/ (row[j].status = "failed" /\ s = "failed")
        BY <1>0, <2>4, <3>1
        DEF LeaseInv, HeldIsProcessing, Complete, ReturnJob, ExhaustJob, BuryJob, At, Working, j
      <3>4. /\ \A k \in Jobs \ {j} : row'[k] = row[k]
            /\ row'[j].status = s \/ row' = row
        BY <1>0, <2>1, <3>1, StatusWritten DEF QueueStatus
      <3>5. Rests \/ Moves(j)
        BY <3>2, <3>3, <3>4 DEF Rests, Moves, Settle
      <3> QED
        BY <2>1, <3>5 DEF j
    <2>5. CASE DeferRetry(r)
      <3>1. \A k \in Jobs : row'[k].status = row[k].status
        BY <1>0, <2>1, <2>5 DEF DeferRetry, Fault, TypeOK, Record, j
      <3> QED
        BY <2>5, <3>1 DEF DeferRetry, Rests
    <2>6. CASE Reclaim(r)
      <3>1. tries' = tries
        BY <2>6 DEF Reclaim
      <3>2. CASE row' = row
        BY <3>1, <3>2 DEF Rests
      <3>3. CASE row' # row
        <4> DEFINE n == runner[r].n + 1
        <4>1. /\ SameLease(r)
              /\ row' = [row EXCEPT ![j].status = IF Exhausted(n) THEN "failed" ELSE "pending",
                                    ![j].deferred = @ \/ ~Exhausted(n),
                                    ![j].retries = n, ![j].stamp = @ + 1]
          BY <2>6, <3>3 DEF Reclaim, Fault, j
        <4>2. /\ \A k \in Jobs \ {j} : row'[k] = row[k]
              /\ row'[j].status = IF Exhausted(n) THEN "failed" ELSE "pending"
          BY <1>0, <2>1, <4>1 DEF TypeOK, Record
        <4>3. row'[j].status \in {"pending", "failed"} /\ row[j].status = "processing"
          BY <4>1, <4>2 DEF SameLease, j
        <4>4. Moves(j)
          BY <3>1, <4>2, <4>3 DEF Moves, Settle
        <4> QED
          BY <2>1, <4>4 DEF j
      <3> QED
        BY <3>2, <3>3
    <2> QED
      BY <1>6, <2>2, <2>3, <2>4, <2>5, <2>6 DEF RunnerStep
  <1> QED
    BY <1>1, <1>2, <1>3, <1>4, <1>5, <1>6 DEF Next

\* A finished job is not brought back.
THEOREM FinishedStaysFinished == Spec => FinishedIsFinal
  <1>1. CountInv /\ [Next]_vars =>
          [\A j \in Jobs : row[j].status \in {"completed", "failed"}
             => row'[j].status = row[j].status]_vars
    BY JobMoves DEF Rests, Moves, Take, Settle
  <1>2. Spec => []CountInv
    BY CountInit, CountNext, PTL DEF Spec
  <1> QED
    BY <1>1, <1>2, PTL DEF Spec, FinishedIsFinal

\* The queue with its drainers, leases, retries and lost database calls implements the
\* ledger: every job waits, is taken at most the allowance, and ends once.
THEOREM ImplementsLedger == Spec => KeepsLedger
  <1> DEFINE states == [j \in Jobs |-> LedgerState(row[j].status)]
  <1>1. Init => Ledger!LedgerInit
    BY DEF Init, Ledger!LedgerInit, LedgerState
  <1>2. ASSUME CountInv, [Next]_vars PROVE [Ledger!LedgerNext]_(Ledger!ledger)
    <2>0. TypeOK
      BY <1>2 DEF CountInv, LeaseInv
    <2>1. CASE Rests
      BY <2>1 DEF Rests, Ledger!ledger
    <2>2. ASSUME NEW j \in Jobs, Moves(j) PROVE Ledger!Take(j) \/ Ledger!Settle(j)
      <3>1. states' = [states EXCEPT ![j] = LedgerState(row'[j].status)]
        BY <2>2 DEF Moves
      <3>2. CASE Take(j)
        BY <2>0, <3>1, <3>2 DEF Take, Allowed, Ledger!Take, Ledger!Moves, LedgerState, TypeOK
      <3>3. CASE Settle(j)
        BY <3>1, <3>3 DEF Settle, Ledger!Settle, Ledger!Moves, LedgerState
      <3> QED
        BY <2>2, <3>2, <3>3 DEF Moves
    <2> QED
      BY <1>2, <2>1, <2>2, JobMoves DEF Ledger!LedgerNext
  <1>3. Spec => []CountInv
    BY CountInit, CountNext, PTL DEF Spec
  <1> QED
    BY <1>1, <1>2, <1>3, PTL DEF Spec, KeepsLedger, Ledger!LedgerSpec

-----------------------------------------------------------------------------
(* A job is completed only after its last group of recipients was sent to.   *)
(* The count of a group only grows, so this needs neither the lease nor the  *)
(* runner's exclusive hold on the row.                                       *)

SentUpTo(k, n) == \A p \in 1..Parts : p < n => sent[k][p] >= 1

\* A runner has sent to the groups before the one it is at, and to all before completing.
GroupsInOrder ==
  \A r \in Runners, k \in Jobs : Job(r) = k =>
    /\ runner[r].pc = "send" => runner[r].n \in 1..Parts /\ SentUpTo(k, runner[r].n)
    /\ runner[r].pc = "complete" => SentUpTo(k, Parts + 1)

SentInv == TypeOK /\ GroupsInOrder /\ CompletedWasSent

\* Only Send touches the counts, and it counts up.
LEMMA SentGrows ==
  ASSUME TypeOK, [Next]_vars, NEW k \in Jobs, NEW p \in 1..Parts, sent[k][p] >= 1
  PROVE  sent'[k][p] >= 1
  <1>1. CASE UNCHANGED sent
    BY <1>1
  <1>2. ASSUME NEW r \in Runners, Send(r) PROVE sent'[k][p] >= 1
    <2>1. sent' = [sent EXCEPT ![Job(r)][runner[r].n] = @ + 1]
      BY <1>2 DEF Send
    <2>2. sent'[k][p] \in {sent[k][p], sent[k][p] + 1}
      BY <2>1 DEF TypeOK
    <2>3. sent[k][p] \in Nat
      BY DEF TypeOK
    <2> QED
      BY <2>2, <2>3
  <1> QED
    BY <1>1, <1>2
    DEF Next, vars, Enqueue, BackoffEnds, Select, ReadStale, RunnerStep, Crash, Claim, Throw,
        Complete, CountRetry, DeferRetry, ReturnJob, ExhaustJob, BuryJob, Reclaim, AlertDeadLetter

\* A runner comes to a group by claiming or by having sent to the one before.
LEMMA RunnerSends ==
  ASSUME TypeOK, [Next]_vars, NEW q \in Runners, runner'[q].pc \in {"send", "complete"}
  PROVE  \/ runner'[q] = runner[q]
         \/ runner'[q].pc = "send" /\ runner'[q].n = 1
         \/ /\ Send(q) /\ runner'[q].job = Job(q) /\ runner[q] \in Busy
            /\ runner'[q].pc = "send" => ~LastPart(runner[q].n) /\ runner'[q].n = runner[q].n + 1
            /\ runner'[q].pc = "complete" => LastPart(runner[q].n)
  <1>1. ASSUME NEW r \in Runners, NEW j \in Jobs, Select(r, j) \/ ReadStale(r, j)
        PROVE  runner'[q] = runner[q]
    BY <1>1 DEF Select, ReadStale, TypeOK
  <1>2. ASSUME NEW r \in Runners, r # q, RunnerStep(r) \/ Crash(r)
        PROVE  runner'[q] = runner[q]
    <2>1. \E new : runner' = [runner EXCEPT ![r] = new]
      BY <1>2 DEF RunnerStep, Crash, Claim, Send, Throw, Complete, CountRetry, DeferRetry,
         ReturnJob, ExhaustJob, BuryJob, Reclaim, AlertDeadLetter, Goto, Release
    <2> QED
      BY <1>2, <2>1 DEF TypeOK
  <1>3. ~Release(q)
    BY ReleaseKeeps
  <1>4. ASSUME RunnerStep(q) \/ Crash(q)
        PROVE  \/ runner'[q].pc = "send" /\ runner'[q].n = 1
               \/ /\ Send(q) /\ runner'[q].job = Job(q) /\ runner[q] \in Busy
                  /\ runner'[q].pc = "send" =>
                       ~LastPart(runner[q].n) /\ runner'[q].n = runner[q].n + 1
                  /\ runner'[q].pc = "complete" => LastPart(runner[q].n)
    <2>1. runner[q] # Idle
      BY <1>4, IdlePc
      DEF RunnerStep, Crash, Claim, Send, Throw, Complete, CountRetry, DeferRetry, ReturnJob,
          ExhaustJob, BuryJob, Reclaim, AlertDeadLetter, At
    <2>2. runner[q] \in Busy /\ runner[q].n \in Nat
      BY <2>1, BusyRunner
    <2>3. \A pc \in Working \cup Looking, n \in Nat :
            Goto(q, pc, n) => runner'[q].pc = pc /\ runner'[q].n = n /\ runner'[q].job = Job(q)
      BY <2>1, GotoKeeps
    <2>4. CASE Claim(q)
      BY <1>3, <2>3, <2>4 DEF Claim, Working
    <2>5. CASE Send(q)
      <3>1. IF LastPart(runner[q].n) THEN Goto(q, "complete", 0)
            ELSE Goto(q, "send", runner[q].n + 1)
        BY <2>5 DEF Send
      <3>2. runner[q].n + 1 \in Nat /\ 0 \in Nat /\ {"send", "complete"} \subseteq Working
        BY <2>2 DEF Working
      <3>3. CASE LastPart(runner[q].n)
        BY <2>2, <2>3, <2>5, <3>1, <3>2, <3>3
      <3>4. CASE ~LastPart(runner[q].n)
        BY <2>2, <2>3, <2>5, <3>1, <3>2, <3>4
      <3> QED
        BY <3>3, <3>4
    <2>6. CASE Throw(q) \/ DeferRetry(q) \/ ExhaustJob(q)
      BY <2>3, <2>6 DEF Throw, DeferRetry, ExhaustJob, Working
    <2>7. CASE CountRetry(q)
      <3>1. PICK known \in BOOLEAN :
              LET n == (IF known THEN row[Job(q)].retries ELSE 0) + 1 IN
              Goto(q, IF Exhausted(n) THEN "exhaust" ELSE "defer", n)
        BY <2>7 DEF CountRetry
      <3>2. row[Job(q)].retries \in Nat
        BY <2>1, BusyRunner DEF TypeOK, Record
      <3> QED
        BY <2>3, <3>1, <3>2 DEF Working
    <2>8. CASE Reclaim(q)
      <3>1. Goto(q, "alert", 0)
        BY <1>3, <2>8 DEF Reclaim
      <3> QED
        BY <2>3, <3>1 DEF Looking
    <2> QED
      BY <1>3, <1>4, <2>4, <2>5, <2>6, <2>7, <2>8
      DEF RunnerStep, Crash, Complete, ReturnJob, BuryJob, AlertDeadLetter
  <1>5. CASE UNCHANGED runner
    BY <1>5
  <1> QED
    BY <1>1, <1>2, <1>4, <1>5 DEF Next, vars, Enqueue, BackoffEnds

\* A row becomes completed only by the runner that is about to complete it.
LEMMA RowCompletes ==
  ASSUME TypeOK, [Next]_vars, NEW k \in Jobs, row'[k].status = "completed"
  PROVE  \/ row[k].status = "completed"
         \/ \E r \in Runners : runner[r].pc = "complete" /\ Job(r) = k
  <1> SUFFICES ASSUME row[k].status # "completed"
               PROVE  \E r \in Runners : runner[r].pc = "complete" /\ Job(r) = k
    OBVIOUS
  <1>1. row \in [Jobs -> Record]
    BY DEF TypeOK
  <1>2. ASSUME NEW j \in Jobs, Enqueue(j) \/ BackoffEnds(j) PROVE FALSE
    BY <1>1, <1>2 DEF Enqueue, BackoffEnds, Record
  <1>3. ASSUME NEW r \in Runners, RunnerStep(r), ~Complete(r) PROVE FALSE
    <2>1. runner[r] # Idle
      BY <1>3, IdlePc
      DEF RunnerStep, Claim, Send, Throw, CountRetry, DeferRetry, ReturnJob, ExhaustJob,
          BuryJob, Reclaim, AlertDeadLetter, At
    <2>2. Job(r) \in Jobs
      BY <2>1, BusyRunner
    <2>3. \A s \in QueueStatus \ {"completed"} : ~UpdateJobStatus(Job(r), s)
      BY <2>2, StatusWritten
    <2> QED
      BY <1>1, <1>3, <2>2, <2>3
      DEF RunnerStep, Claim, Send, Throw, CountRetry, DeferRetry, ReturnJob, ExhaustJob,
          BuryJob, Reclaim, AlertDeadLetter, Fault, QueueStatus, Record
  <1>4. ASSUME NEW r \in Runners, Complete(r) PROVE runner[r].pc = "complete" /\ Job(r) = k
    <2>1. Job(r) \in Jobs /\ At(r, "complete")
      BY <1>4, BusyRunner, IdlePc DEF Complete, At
    <2> QED
      BY <1>4, <2>1, StatusWritten DEF Complete, Outcome, QueueStatus, At
  <1> QED
    BY <1>2, <1>3, <1>4 DEF Next, vars, Select, ReadStale, Crash

LEMMA SentNext == SentInv /\ [Next]_vars => SentInv'
  <1> SUFFICES ASSUME SentInv, [Next]_vars PROVE SentInv'
    OBVIOUS
  <1> USE DEF SentInv
  <1>1. TypeOK' /\ Parts \in Nat \ {0}
    BY TypeNext, PartsAssumption
  <1>2. ASSUME NEW q \in Runners, NEW k \in Jobs, runner'[q].job = k,
               runner'[q].pc \in {"send", "complete"}
        PROVE  /\ runner'[q].pc = "send" => runner'[q].n \in 1..Parts
               /\ \A p \in 1..Parts :
                    (runner'[q].pc = "send" => p < runner'[q].n) => sent'[k][p] >= 1
    <2>1. CASE runner'[q] = runner[q]
      <3>1. /\ runner[q].pc = "send" => runner[q].n \in 1..Parts
            /\ \A p \in 1..Parts : (runner[q].pc = "send" => p < runner[q].n) => sent[k][p] >= 1
        BY <1>1, <1>2, <2>1 DEF GroupsInOrder, SentUpTo, Job
      <3> QED
        BY <2>1, <3>1, SentGrows
    <2>2. CASE runner'[q].pc = "send" /\ runner'[q].n = 1
      BY <1>1, <2>2
    <2>3. CASE /\ Send(q) /\ runner'[q].job = Job(q) /\ runner[q] \in Busy
               /\ runner'[q].pc = "send" =>
                    ~LastPart(runner[q].n) /\ runner'[q].n = runner[q].n + 1
               /\ runner'[q].pc = "complete" => LastPart(runner[q].n)
      <3>1. /\ Job(q) = k /\ runner[q].pc = "send"
            /\ sent' = [sent EXCEPT ![k][runner[q].n] = @ + 1]
        BY <1>2, <2>3 DEF Send, At
      <3>2. runner[q].n \in 1..Parts /\ SentUpTo(k, runner[q].n)
        BY <3>1 DEF GroupsInOrder
      <3>3. sent'[k][runner[q].n] = sent[k][runner[q].n] + 1 /\ sent[k][runner[q].n] \in Nat
        BY <3>1, <3>2 DEF TypeOK
      <3>4. \A p \in 1..Parts : p <= runner[q].n => sent'[k][p] >= 1
        BY <1>1, <3>2, <3>3, SentGrows DEF SentUpTo
      <3> QED
        BY <1>1, <1>2, <2>3, <3>2, <3>4 DEF LastPart
    <2> QED
      BY <1>2, <2>1, <2>2, <2>3, RunnerSends
  <1>3. ASSUME NEW k \in Jobs, row'[k].status = "completed", NEW p \in 1..Parts
        PROVE  sent'[k][p] >= 1
    <2>1. sent[k][p] >= 1
      BY <1>1, <1>3, RowCompletes DEF CompletedWasSent, GroupsInOrder, SentUpTo
    <2> QED
      BY <2>1, SentGrows
  <1>4. GroupsInOrder'
    BY <1>1, <1>2 DEF GroupsInOrder, SentUpTo, Job
  <1> QED
    BY <1>1, <1>3, <1>4 DEF CompletedWasSent

\* No job is recorded as completed before every group of its recipients was sent to,
\* whichever drainers die or throw between two groups and whoever takes the job over.
THEOREM CompletedJobsWereSent == Spec => []CompletedWasSent
  <1>1. Init => SentInv
    BY TypeInit, IdlePc DEF Init, SentInv, GroupsInOrder, CompletedWasSent, Idle, Working
  <1>2. SentInv => CompletedWasSent
    BY DEF SentInv
  <1> QED
    BY <1>1, <1>2, SentNext, PTL DEF Spec
=============================================================================
