---------------------------- MODULE RiderPayouts ----------------------------
(***************************************************************************)
(* Paying riders through Paystack: a daily run looks up the payouts whose  *)
(* outcome it does not know, plans a batch of pending earnings per rider,  *)
(* records each batch as a payout and only then sends the transfer.        *)
(* Transfer webhooks settle payouts at any time beside it.                 *)
(*                                                                         *)
(* An answer of Paystack may be lost, and a request that timed out may     *)
(* still arrive; webhooks are lost, repeated and reordered; a run may die  *)
(* or throw between any two calls, and may outlive its lease, so that runs *)
(* overlap.  Every database or Paystack call is a step of its own.         *)
(***************************************************************************)
EXTENDS Integers, FiniteSets, Functions

CONSTANTS
  Riders,        \* in the order of their ids
  Earnings,      \* in the order of delivery
  RiderOf,
  Amount,
  Payouts,
  NoPayout,
  Runs,
  NoRun,
  MinPayout,     \* RIDER_PAYOUT_LIMITS, from here on
  MaxTransfer,
  RiderDay,
  PlatformDay,
  MaxPerRun

ASSUME NumbersAssumption == Riders \subseteq Nat /\ Earnings \subseteq Nat
ASSUME EarningsAssumption == RiderOf \in [Earnings -> Riders] /\ Amount \in [Earnings -> Nat \ {0}]
ASSUME FiniteAssumption == IsFiniteSet(Earnings)
ASSUME LimitsAssumption == {MinPayout, MaxTransfer, RiderDay, PlatformDay, MaxPerRun} \subseteq Nat
ASSUME NoneAssumption == NoPayout \notin Payouts /\ NoRun \notin Runs

VARIABLES
  earning,     \* RiderEarning rows
  payout,      \* RiderPayout rows
  covers,      \* history: the earnings a payout was created for
  recipient,   \* may the rider be paid, or does a hold, or an administrator, forbid it
  lease,       \* holder of an unexpired RiderPayoutRunLease
  run,         \* what each invocation of the run is doing
  transfer,    \* the transfer of a payout's reference, at Paystack
  late         \* payouts whose timed-out request may still arrive before any other

vars == <<earning, payout, covers, recipient, lease, run, transfer, late>>

-----------------------------------------------------------------------------
Earning == [status : {"none", "pending", "processing", "paid"}, payout : Payouts \cup {NoPayout}]

\* stale: untouched for reconcileAfterMinutes.  code: transferCode is known.  The age of
\* createdAt: the Lagos day, and whether reinitiateWithinHours is over.
Payout == [status : {"none", "processing", "paid", "failed", "reversed"},
           stale : BOOLEAN, code : BOOLEAN, age : {"today", "yesterday", "old"}]

Transfers == {"none", "pending", "otp", "success", "failed", "reversed"}

\* Each run: stale payouts left to look up, earnings read, batches left to create, the
\* payout it is at and what Paystack said of it.
Run == [pc : {"idle", "stale", "look", "resend", "found", "resent", "earnings", "plan",
              "create", "send", "sent", "release"},
        list : SUBSET Payouts, pending : SUBSET Earnings,
        plan : [Riders -> SUBSET Earnings], at : Payouts \cup {NoPayout},
        answer : Transfers \cup {"unknown", "rejected"}]

TypeOK ==
  /\ earning \in [Earnings -> Earning]
  /\ payout \in [Payouts -> Payout]
  /\ covers \in [Payouts -> SUBSET Earnings]
  /\ recipient \in [Riders -> {"ready", "held"}]
  /\ lease \in Runs \cup {NoRun}
  /\ run \in [Runs -> Run]
  /\ transfer \in [Payouts -> Transfers]
  /\ late \subseteq Payouts

NoPlan == [r \in Riders |-> {}]
RunIdle == [pc |-> "idle", list |-> {}, pending |-> {}, plan |-> NoPlan,
            at |-> NoPayout, answer |-> "none"]

Init ==
  /\ earning = [e \in Earnings |-> [status |-> "none", payout |-> NoPayout]]
  /\ payout = [p \in Payouts |-> [status |-> "none", stale |-> FALSE, code |-> FALSE,
                                  age |-> "today"]]
  /\ covers = [p \in Payouts |-> {}]
  /\ recipient = [r \in Riders |-> "ready"]
  /\ lease = NoRun
  /\ run = [u \in Runs |-> RunIdle]
  /\ transfer = [p \in Payouts |-> "none"]
  /\ late = {}

-----------------------------------------------------------------------------
Pending == {e \in Earnings : earning[e].status = "pending" /\ earning[e].payout = NoPayout}
Sum(es) == SumFunctionOnSet(Amount, es)
Of(r, es) == {e \in es : RiderOf[e] = r}
InFlight(r) ==
  \E p \in Payouts : payout[p].status = "processing" /\ Of(r, covers[p]) # {}

\* Money that left or may still leave today.
OutToday ==
  UNION {covers[p] : p \in {q \in Payouts : payout[q].status \in {"processing", "paid"}
                                            /\ payout[q].age = "today"}}

Lower(m, n) == IF m < n THEN m ELSE n

\* Mutant: money that has left no longer counts.
MutantRoom(r, taken) ==
  LET out == UNION {covers[p] : p \in {q \in Payouts : payout[q].status = "processing"}} IN
  Lower(RiderDay - Sum(Of(r, out)), PlatformDay - Sum(out) - taken)

\* What may still leave today for a rider, when a plan has taken some of it already.
Room(r, taken) ==
  Lower(RiderDay - Sum(Of(r, OutToday)), PlatformDay - Sum(OutToday) - taken)

\* planRiderPayouts for one rider: the oldest earnings that fit.
BatchOf(r, es, taken) ==
  LET mine == Of(r, es)
      room == Lower(MaxTransfer, Room(r, taken))
      fit  == {e \in mine : Sum({f \in mine : f <= e}) <= room}
  IN IF /\ recipient[r] = "ready" /\ ~InFlight(r)
        /\ \A e \in mine : Amount[e] <= MaxTransfer
        /\ Sum(mine) >= MinPayout /\ Sum(fit) >= MinPayout
       THEN fit ELSE {}

\* The plan, rider by rider.
IsPlan(plan, es) ==
  \A r \in Riders :
    LET before == {q \in Riders : q < r /\ plan[q] # {}} IN
    plan[r] = IF Cardinality(before) >= MaxPerRun THEN {}
              ELSE BatchOf(r, es, Sum(UNION {plan[q] : q \in before}))

-----------------------------------------------------------------------------
(* ebuy_settle_rider_payout, one transaction under the lock of the payout's row. *)

Pays(p, outcome) == outcome = "success" /\ payout[p].status = "processing"

Releases(p, outcome) ==
  \/ outcome = "failed" /\ payout[p].status = "processing"
  \/ outcome = "reversed" /\ payout[p].status \in {"processing", "paid"}

\* Reported to a human, and nothing is changed.
Anomalous(p, outcome) ==
  \/ outcome = "success" /\ payout[p].status \in {"failed", "reversed"}
  \/ outcome = "failed" /\ payout[p].status = "paid"

\* Mutant: the earnings take the status of their payout.
MutantGivenBack == [status |-> "failed", payout |-> NoPayout]

\* An earning that is released: the next run may pay it.
GivenBack == [status |-> "pending", payout |-> NoPayout]

Settle(p, outcome, hold, coded) ==
  /\ payout' = [payout EXCEPT
       ![p].status = IF Pays(p, outcome) THEN "paid"
                     ELSE IF Releases(p, outcome) THEN outcome ELSE @,
       ![p].code = @ \/ coded, ![p].stale = FALSE]
  /\ earning' = [e \in Earnings |->
       IF earning[e].payout # p THEN earning[e]
       ELSE IF Pays(p, outcome) THEN [status |-> "paid", payout |-> p]
       ELSE IF Releases(p, outcome) THEN GivenBack
       ELSE earning[e]]
  /\ recipient' = [r \in Riders |->
       IF hold /\ Releases(p, outcome) /\ Of(r, covers[p]) # {} THEN "held" ELSE recipient[r]]

-----------------------------------------------------------------------------
(* The run looks up what it does not know. *)

At(u, pc) == run' = [run EXCEPT ![u] = [RunIdle EXCEPT !.pc = pc]]

\* acquireLease: free, or expired.
StartRun(u) ==
  /\ run[u].pc = "idle" /\ lease = NoRun
  /\ lease' = u
  /\ At(u, "stale")
  /\ UNCHANGED <<earning, payout, covers, recipient, transfer, late>>

\* Mutant: a transfer Paystack acknowledged is left to its webhook.
MutantStale(p) == payout[p].status = "processing" /\ payout[p].stale /\ ~payout[p].code

\* The filter of loadStaleProcessing.
Stale(p) == payout[p].status = "processing" /\ payout[p].stale

\* What is left to look up, or else the earnings.
Looking(list) == [RunIdle EXCEPT !.pc = IF list = {} THEN "earnings" ELSE "look", !.list = list]

LoadStale(u) ==
  /\ run[u].pc = "stale"
  /\ run' = [run EXCEPT ![u] = Looking({p \in Payouts : Stale(p)})]
  /\ UNCHANGED <<earning, payout, covers, recipient, lease, transfer, late>>

\* Never acknowledged, and younger than reinitiateWithinHours: a day later it may be.
MayResend(p) == ~payout[p].code /\ payout[p].age # "old"

\* verifyTransfer, answered.
VerifyFinds(u) ==
  /\ run[u].pc = "look"
  /\ \E p \in run[u].list :
       /\ transfer[p] # "none"
       /\ run' = [run EXCEPT ![u] = [Looking(@.list \ {p}) EXCEPT
                                       !.pc = "found", !.at = p, !.answer = transfer[p]]]
  /\ UNCHANGED <<earning, payout, covers, recipient, lease, transfer, late>>

\* Refused: Paystack does not know the reference, or says so.
VerifyRefused(u) ==
  /\ run[u].pc = "look"
  /\ \E p \in run[u].list :
       /\ MayResend(p)
       /\ run' = [run EXCEPT ![u] = [Looking(@.list \ {p}) EXCEPT !.pc = "resend", !.at = p]]
  /\ UNCHANGED <<earning, payout, covers, recipient, lease, transfer, late>>

\* No answer, or a refusal of a payout that is not re-sent.
VerifyLeaves(u) ==
  /\ run[u].pc = "look"
  /\ \E p \in run[u].list : run' = [run EXCEPT ![u] = Looking(@.list \ {p})]
  /\ UNCHANGED <<earning, payout, covers, recipient, lease, transfer, late>>

\* A transfer request.  Paystack refuses a reference it knows, and may refuse any other;
\* without an answer it may have been accepted, be lost, or still be travelling.
Request(u, p, pc) ==
  LET answered(a) == run' = [run EXCEPT ![u].pc = pc, ![u].answer = a]
      accepted(s) == transfer[p] = "none" /\ transfer' = [transfer EXCEPT ![p] = s]
  IN \/ /\ \E s \in {"pending", "otp", "success", "failed"} :
             accepted(s) /\ (answered(s) \/ answered("unknown"))
        /\ late' = late \ {p}
     \/ answered("rejected") /\ UNCHANGED <<transfer, late>>
     \/ /\ answered("unknown") /\ UNCHANGED transfer
        /\ late' \in {late} \cup (IF transfer[p] = "none" THEN {late \cup {p}} ELSE {})

\* Re-sent under the same reference.
Resend(u) ==
  /\ run[u].pc = "resend"
  /\ Request(u, run[u].at, "resent")
  /\ UNCHANGED <<earning, payout, covers, recipient, lease>>

-----------------------------------------------------------------------------
(* The run pays what is pending. *)

LoadEarnings(u) ==
  /\ run[u].pc = "earnings"
  /\ IF Pending = {} THEN At(u, "release")
     ELSE run' = [run EXCEPT ![u] = [RunIdle EXCEPT !.pc = "plan", !.pending = Pending]]
  /\ UNCHANGED <<earning, payout, covers, recipient, lease, transfer, late>>

\* The batches left to pay.
Paying(plan) ==
  [RunIdle EXCEPT !.pc = IF plan = NoPlan THEN "release" ELSE "create", !.plan = plan]

MakePlan(u) ==
  /\ run[u].pc = "plan"
  /\ \E plan \in [Riders -> SUBSET run[u].pending] :
       IsPlan(plan, run[u].pending) /\ run' = [run EXCEPT ![u] = Paying(plan)]
  /\ UNCHANGED <<earning, payout, covers, recipient, lease, transfer, late>>

\* Mutant: the earnings of the plan are not looked at again.
MutantUnclaimed(es) == TRUE

\* Every earning asked for is still pending and in no payout.
Unclaimed(es) == es \subseteq Pending

WithinCaps(r, es) == Sum(es) >= MinPayout /\ Sum(es) <= Lower(MaxTransfer, Room(r, 0))

Creatable(r, es) ==
  recipient[r] = "ready" /\ ~InFlight(r) /\ Unclaimed(es) /\ WithinCaps(r, es)

\* ebuy_create_rider_payout for the next batch, serialized by an advisory lock; a refusal
\* skips the batch.
CreatePayout(u) ==
  /\ run[u].pc = "create"
  /\ \E r \in Riders :
       LET es   == run[u].plan[r]
           rest == Paying([run[u].plan EXCEPT ![r] = {}])
       IN
       /\ es # {} /\ \A q \in Riders : q < r => run[u].plan[q] = {}
       /\ IF Creatable(r, es)
            THEN \E p \in Payouts :
                 /\ payout[p].status = "none"
                 /\ payout' = [payout EXCEPT ![p].status = "processing"]
                 /\ covers' = [covers EXCEPT ![p] = es]
                 /\ earning' = [e \in Earnings |->
                      IF e \in es THEN [status |-> "processing", payout |-> p] ELSE earning[e]]
                 /\ run' = [run EXCEPT ![u] = [rest EXCEPT !.pc = "send", !.at = p]]
            ELSE run' = [run EXCEPT ![u] = rest] /\ UNCHANGED <<earning, payout, covers>>
  /\ UNCHANGED <<recipient, lease, transfer, late>>

Send(u) ==
  /\ run[u].pc = "send"
  /\ Request(u, run[u].at, "sent")
  /\ UNCHANGED <<earning, payout, covers, recipient, lease>>

-----------------------------------------------------------------------------
(* applyTransferOutcome, and the branch of a refused re-send before it. *)

\* Go on with the run, or stop it.
Continue(u) ==
  run' = [run EXCEPT ![u] = IF @.pc = "sent" THEN Paying(@.plan) ELSE Looking(@.list)]
Halt(u) == At(u, "release")

Applying(u) == run[u].pc \in {"found", "resent", "sent"}

\* Mutant: a refusal of a re-sent transfer is taken for a refusal of the transfer.
MutantRefused(u) == run[u].answer = "rejected"

\* Only a refusal of the first request says that there is no transfer.
Refused(u) == run[u].answer = "rejected" /\ run[u].pc = "sent"

\* The payout stays processing and the run stops.
ApplyNothing(u) ==
  /\ Applying(u) /\ run[u].answer \in {"unknown", "rejected"} /\ ~Refused(u)
  /\ Halt(u)
  /\ UNCHANGED <<earning, payout, covers, recipient, lease, transfer, late>>

ApplyRefusal(u) ==
  /\ Applying(u) /\ Refused(u)
  /\ Settle(run[u].at, "failed", FALSE, FALSE)
  /\ Halt(u)
  /\ UNCHANGED <<covers, lease, transfer, late>>

\* A transfer that failed when it was sent stops the run; one found failed later holds
\* the rider's account.
ApplyFinal(u) ==
  LET p == run[u].at
      a == run[u].answer
      found == run[u].pc = "found"
  IN
  /\ Applying(u) /\ a \in {"success", "failed", "reversed"}
  /\ Settle(p, a, a # "success" /\ found, TRUE)
  /\ IF Anomalous(p, a) \/ (a = "failed" /\ ~found) THEN Halt(u) ELSE Continue(u)
  /\ UNCHANGED <<covers, lease, transfer, late>>

\* markInitiated.
ApplyInProgress(u) ==
  LET p == run[u].at IN
  /\ Applying(u) /\ run[u].answer \in {"pending", "otp"}
  /\ payout' = IF payout[p].status = "processing"
                 THEN [payout EXCEPT ![p].code = TRUE, ![p].stale = FALSE] ELSE payout
  /\ IF run[u].answer = "otp" THEN Halt(u) ELSE Continue(u)
  /\ UNCHANGED <<earning, covers, recipient, lease, transfer, late>>

Apply(u) == ApplyNothing(u) \/ ApplyRefusal(u) \/ ApplyFinal(u) \/ ApplyInProgress(u)

Released(u) == IF lease = u THEN NoRun ELSE lease

ReleaseLease(u) ==
  /\ run[u].pc = "release"
  /\ At(u, "idle") /\ lease' = Released(u)
  /\ UNCHANGED <<earning, payout, covers, recipient, transfer, late>>

\* A call throws, and the lease is given back; or the invocation dies, and it is not.
Stop(u) ==
  /\ run[u].pc # "idle"
  /\ At(u, "idle") /\ lease' \in {Released(u), lease}
  /\ UNCHANGED <<earning, payout, covers, recipient, transfer, late>>

LeaseExpires ==
  /\ lease # NoRun /\ lease' = NoRun
  /\ UNCHANGED <<earning, payout, covers, recipient, run, transfer, late>>

-----------------------------------------------------------------------------
(* Paystack. *)

\* External: transfers move on by themselves.
Edges == {<<"pending", "success">>, <<"pending", "failed">>, <<"otp", "pending">>,
          <<"otp", "failed">>, <<"success", "reversed">>}

BankMoves(p) ==
  /\ \E s \in Transfers : <<transfer[p], s>> \in Edges /\ transfer' = [transfer EXCEPT ![p] = s]
  /\ UNCHANGED <<earning, payout, covers, recipient, lease, run, late>>

\* External: a request nobody waits for any more arrives.
LateLands(p) ==
  /\ p \in late /\ late' = late \ {p}
  /\ \E s \in {"pending", "otp"} : transfer' = [transfer EXCEPT ![p] = s]
  /\ UNCHANGED <<earning, payout, covers, recipient, lease, run>>

\* handleRiderTransferWebhook: anything that has happened to the transfer, in any order,
\* any number of times.
Happened(p) ==
  IF transfer[p] = "reversed" THEN {"success", "reversed"}
  ELSE {transfer[p]} \cap {"success", "failed"}

Webhook(p) ==
  /\ \E outcome \in Happened(p) : Settle(p, outcome, outcome # "success", TRUE)
  /\ UNCHANGED <<covers, lease, run, transfer, late>>

-----------------------------------------------------------------------------
(* Time, riders and administrators. *)

\* A delivery with a verified code made the earning, and its clearing days are over.
Clear(e) ==
  /\ earning[e].status = "none"
  /\ earning' = [earning EXCEPT ![e].status = "pending"]
  /\ UNCHANGED <<payout, covers, recipient, lease, run, transfer, late>>

\* reconcileAfterMinutes pass.  An invocation does not live that long after it created
\* the payout, nor does its request.
GrowStale(p) ==
  /\ payout[p].status = "processing" /\ ~payout[p].stale
  /\ \A u \in Runs : run[u].at = p => run[u].pc \notin {"send", "sent"}
  /\ payout' = [payout EXCEPT ![p].stale = TRUE]
  /\ UNCHANGED <<earning, covers, recipient, lease, run, transfer, late>>

\* The age of a settled payout only matters today.
Older(p) ==
  CASE payout[p].status = "none" -> "today"
    [] payout[p].status = "processing" /\ payout[p].age = "today" -> "yesterday"
    [] OTHER -> "old"

NextDay ==
  /\ payout' = [p \in Payouts |-> [payout[p] EXCEPT !.age = Older(p)]]
  /\ UNCHANGED <<earning, covers, recipient, lease, run, transfer, late>>

\* The rider submits bank details, which ends a failure hold, or starts the hold of a
\* changed account, which ends by itself; an administrator suspends or approves the rider.
RecipientChanges(r) ==
  /\ \E s \in {"ready", "held"} : s # recipient[r] /\ recipient' = [recipient EXCEPT ![r] = s]
  /\ UNCHANGED <<earning, payout, covers, lease, run, transfer, late>>

RunStep(u) ==
  \/ LoadStale(u) \/ VerifyFinds(u) \/ VerifyRefused(u) \/ VerifyLeaves(u) \/ Resend(u)
  \/ LoadEarnings(u) \/ MakePlan(u) \/ CreatePayout(u) \/ Send(u) \/ Apply(u) \/ ReleaseLease(u)

Next ==
  \/ \E u \in Runs : StartRun(u) \/ RunStep(u) \/ Stop(u)
  \/ \E p \in Payouts : BankMoves(p) \/ LateLands(p) \/ Webhook(p) \/ GrowStale(p)
  \/ \E e \in Earnings : Clear(e)
  \/ \E r \in Riders : RecipientChanges(r)
  \/ LeaseExpires \/ NextDay

Spec == Init /\ [][Next]_vars

\* Time passes; pg_cron starts a run every day, none hangs, and not every one dies before
\* it reads the list, hears from Paystack of a transfer, or writes down what it heard.
\* Nothing is assumed of webhooks, riders and transfers.
Fairness ==
  /\ WF_vars(LeaseExpires)
  /\ \A p \in Payouts : WF_vars(GrowStale(p))
  /\ \A u \in Runs :
       /\ WF_vars(RunStep(u)) /\ SF_vars(StartRun(u)) /\ SF_vars(LoadStale(u))
       /\ SF_vars(VerifyFinds(u)) /\ SF_vars(ApplyFinal(u))

FairSpec == Spec /\ Fairness

-----------------------------------------------------------------------------
(* What the riders and the platform are promised. *)

\* The books and the bank agree: a payout marked paid did pay, and one whose earnings
\* were given back pays nobody and never will, although answers were lost.
BooksMatchBank ==
  \A p \in Payouts :
    /\ payout[p].status = "paid" => transfer[p] \in {"success", "reversed"}
    /\ payout[p].status \in {"failed", "reversed"} =>
         transfer[p] \in {"failed", "reversed"} \/ (transfer[p] = "none" /\ p \notin late)

\* No earning is forgotten: one that is not pending belongs to a payout that is under way
\* or has paid, and that payout's amount includes it.
NoEarningStranded ==
  \A e \in Earnings :
    LET p == earning[e].payout IN
    IF p = NoPayout THEN earning[e].status \in {"none", "pending"}
    ELSE e \in covers[p] /\ payout[p].status = earning[e].status

\* The caps of a day hold, the platform's and each rider's, however plans, runs and
\* settlements interleave: what has left counts as much as what may still leave.
WithinDay ==
  /\ Sum(OutToday) <= PlatformDay
  /\ \A r \in Riders : Sum(Of(r, OutToday)) <= RiderDay

\* The bank's view: which transfer's money a rider has for an earning.
PaidBy ==
  [e \in Earnings |->
     IF \E p \in Payouts : e \in covers[p] /\ transfer[p] = "success"
       THEN CHOOSE p \in Payouts : e \in covers[p] /\ transfer[p] = "success"
       ELSE NoPayout]
Spent == {p \in Payouts : transfer[p] \in {"success", "reversed"}}

Book == INSTANCE PayBook WITH paidBy <- PaidBy, spent <- Spent, Nobody <- NoPayout

\* An earning is paid for by at most one transfer, whatever runs overlap or die, whatever
\* is lost, late, repeated or reordered.
PaysOnce == Book!Spec

\* A transfer that came to its end is written down, even if every webhook is lost.
EveryTransferSettles ==
  \A p \in Payouts :
    (payout[p].status = "processing" /\ transfer[p] \in {"success", "failed", "reversed"})
      ~> payout[p].status # "processing"
=============================================================================
