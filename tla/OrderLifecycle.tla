--------------------------- MODULE OrderLifecycle ---------------------------
(***************************************************************************)
(* One CustomerOrder row of FEASTY and every handler that writes it.       *)
(*                                                                         *)
(* The row is never locked across a request: a handler reads it, decides,  *)
(* and writes later, with either an unconditional UPDATE by id             *)
(* (updateOrderRecord), an UPDATE qualified by the status it read          *)
(* (updateOrderRecordIfStatus), or an RPC that re-checks the status under  *)
(* a row lock.  A request is therefore a worker that carries the snapshot  *)
(* it read, and each database access is one step, so that every            *)
(* interleaving of the handlers is a behaviour.                            *)
(*                                                                         *)
(* `payment' and `timeline' are JSON columns written whole: a write built  *)
(* from a snapshot puts back every field of the column the snapshot had.   *)
(***************************************************************************)
EXTENDS Integers, FiniteSets

CONSTANTS
  Workers,     \* execution contexts that may run requests concurrently
  OpsOf,       \* the operations each worker runs
  Crowding,    \* whether older rows may fill the page of the acceptance sweep
  Methods,     \* payment methods an order may be created with
  Starts,      \* statuses an order may be created in
  PayWindow,   \* the unpaid-checkout window, in units of the acceptance deadline
  MaxAge       \* bound on the clocks, in the same units

PartnerOps  == {"accept", "preparing", "ready", "self_delivered", "reject"}
CourierOps  == {"picked_up", "on_the_way", "delivered", "failed_delivery"}
DispatchOps == CourierOps \cup {"escalate", "resolve_escalation", "cancel_escalated"}
StaffOps    == PartnerOps \cup DispatchOps
CustomerOps == {"view", "cancel", "refresh"}
BundleOps   == StaffOps \cup CustomerOps
Ops         == BundleOps \cup {"webhook", "acceptance_sweep", "release_sweep"}

ASSUME OpsOfAssumption == OpsOf \in [Workers -> SUBSET Ops]
ASSUME MethodsAssumption == Methods \subseteq {"card", "cash"}
ASSUME StartsAssumption == Starts \subseteq {"placed", "scheduled"}
ASSUME CrowdingAssumption == Crowding \in BOOLEAN
ASSUME ClockAssumption == MaxAge \in Nat /\ MaxAge >= 1 /\ PayWindow \in 1..(MaxAge + 1)

Terminal == {"delivered", "cancelled", "rejected", "failed_delivery"}
Closed   == Terminal \ {"delivered"}
Live     == {"scheduled", "placed", "accepted", "preparing", "ready_for_pickup",
             "picked_up", "on_the_way", "escalated"}
Status   == Terminal \cup Live
PayState == {"pending", "paid", "failed", "refunded"}
Causes   == {"none", "payment_timeout", "payment_initialization_failed", "customer",
             "acceptance_deadline", "dispatch_escalation"}
Charges  == {"none", "opened", "open", "success", "reversed", "dead"}

\* What a request keeps of the row it read: the columns a later write puts back.
Snapshot == [status : Status, pay : PayState, captured : BOOLEAN,
             placedAt : BOOLEAN, escFrom : Status \cup {"none"}]

Row == [status : Status, pay : PayState, captured : BOOLEAN, placedAt : BOOLEAN,
        escFrom : Status \cup {"none"}, method : Methods, attention : BOOLEAN,
        cause : Causes]

VARIABLES
  order,       \* the CustomerOrder row
  courier,     \* DeliveryAssignment.courierId is set
  idem,        \* the verification's IdempotencyRecord exists
  charge,      \* the Paystack transaction, at the gateway
  age,         \* time since createdAt
  inPlaced,    \* time since the order was offered to the restaurant as `placed'
  crowded,     \* a full page of older `placed' rows hides the order from the sweep
  job          \* what each worker is doing

vars == <<order, courier, idem, charge, age, inPlaced, crowded, job>>

NoRow == [status |-> "cancelled"]
Idle  == [op |-> "none", pc |-> "idle", row |-> NoRow, answer |-> "none"]
\* A delivery of the webhook that has only its outcome left to record.
Storing == [op |-> "webhook", pc |-> "record", row |-> NoRow, answer |-> "none"]
Pcs   == {"expire", "write", "verify", "sync", "advance", "reload", "force", "late",
          "flag", "time_out", "release"}
Busy  == [op : Ops, pc : Pcs, row : Snapshot, answer : {"none", "success", "failed", "pending"}]

TypeOK ==
  /\ order \in Row
  /\ courier \in BOOLEAN /\ idem \in BOOLEAN /\ crowded \in BOOLEAN
  /\ charge \in Charges
  /\ age \in 0..MaxAge /\ inPlaced \in 0..MaxAge
  /\ job \in [Workers -> Busy \cup {Idle, Storing}]

Init ==
  /\ order \in {[status |-> s, method |-> m, pay |-> "pending", captured |-> FALSE,
                 placedAt |-> s = "placed", escFrom |-> "none", attention |-> FALSE,
                 cause |-> "none"] : s \in Starts, m \in Methods}
  /\ courier = FALSE /\ idem = FALSE /\ crowded = FALSE
  /\ charge = "none" /\ age = 0 /\ inPlaced = 0
  /\ job = [w \in Workers |-> Idle]

-----------------------------------------------------------------------------
(* What the handlers decide from a row they have read. *)

Seen == [status |-> order.status, pay |-> order.pay, captured |-> order.captured,
         placedAt |-> order.placedAt, escFrom |-> order.escFrom]

\* The row with the JSON columns and the status of an earlier snapshot.
Restored(row) ==
  [order EXCEPT !.status = row.status, !.pay = row.pay, !.captured = row.captured,
                !.placedAt = row.placedAt, !.escFrom = row.escFrom]

\* Mutant: operations no longer wait for the online payment.
MutantVisible(row) == TRUE

\* Mutant: a cash order waits for an online payment too.
MutantCashHidden(row) == row.pay = "paid" \/ row.status \in Terminal

\* isOrderOperationallyVisible
Visible(row) == order.method = "cash" \/ row.pay = "paid" \/ row.status \in Terminal

Expirable(row) ==
  /\ row.status \notin Terminal
  /\ order.method # "cash" /\ row.pay = "pending"
  /\ age >= PayWindow

Expired(row) == [row EXCEPT !.status = "cancelled", !.pay = "failed"]

\* Mutant: the cancellation keeps the payment column as it was.
MutantRefund(row) == row.pay

\* buildRefundUpdate: a refund is recorded only of money that was captured.
Refund(row) == IF order.method # "cash" /\ row.captured THEN "refunded" ELSE row.pay

PartnerFrom(op) ==
  CASE op = "accept"         -> {"placed"}
    [] op = "preparing"      -> {"placed", "accepted"}
    [] op = "ready"          -> {"accepted", "preparing"}
    [] op = "self_delivered" -> {"preparing", "ready_for_pickup"}
    [] op = "reject"         -> {"placed", "accepted"}

DispatchFrom(op) ==
  CASE op = "picked_up"  -> {"ready_for_pickup"}
    [] op = "on_the_way" -> {"picked_up"}
    [] op \in {"delivered", "failed_delivery"} -> {"picked_up", "on_the_way"}
    [] op = "escalate"   -> Live \ {"escalated"}
    [] op \in {"resolve_escalation", "cancel_escalated"} -> {"escalated"}

\* Mutant: a legacy spelling reaches the row.
MutantTarget(op, row) == IF op = "ready" THEN "ready" ELSE op

\* buildPartnerStatusUpdate and buildDispatchStatusUpdate: the next status.
Target(op, row) ==
  CASE op = "accept"            -> "accepted"
    [] op = "ready"             -> "ready_for_pickup"
    [] op = "self_delivered"    -> "delivered"
    [] op = "reject"            -> "rejected"
    [] op = "escalate"          -> "escalated"
    [] op = "resolve_escalation" -> row.escFrom
    [] op = "cancel_escalated"  -> "cancelled"
    [] OTHER -> op

\* Mutant: escalate forgets the stage it took the order from.
MutantStageKept(op, row) == row.escFrom

\* timeline.escalatedFrom after the update.
StageKept(op, row) == IF op = "escalate" THEN row.status ELSE row.escFrom

Resolvable(row) ==
  /\ row.escFrom \notin Terminal \cup {"none", "escalated"}
  /\ row.escFrom \in {"picked_up", "on_the_way"} => courier

\* partnerUpdateOrderStatus, up to its write.
PartnerAdmits(op, row) ==
  op \in PartnerOps /\ Visible(row) /\ row.status \in PartnerFrom(op)

\* dispatchUpdateOrderStatus, up to its write.
DispatchAdmits(op, row) ==
  /\ op \in DispatchOps /\ Visible(row) /\ row.status \in DispatchFrom(op)
  /\ op \in CourierOps => courier
  /\ op = "resolve_escalation" => Resolvable(row)

Admit(op, row) ==
  \/ PartnerAdmits(op, row) \/ DispatchAdmits(op, row)
  \/ op = "cancel" /\ row.status \in {"scheduled", "placed", "accepted"}
  \/ op = "refresh" /\ order.method # "cash" /\ charge \notin {"none", "dead"}

-----------------------------------------------------------------------------
(* Steps every request shares. *)

\* Mutant: the update is qualified by the id alone.
MutantUnmoved(row) == TRUE

\* updateOrderRecordIfStatus: the stored status is still the one observed.
Unmoved(row) == order.status = row.status

Finish(w) == job' = [job EXCEPT ![w] = Idle]
Step(w, pc) == job' = [job EXCEPT ![w].pc = pc]
Store(w) == job' = [job EXCEPT ![w] = Storing]

\* loadOrderBundle: read the row, and settle an unpaid order on the way.
LoadBundle(w, op) ==
  /\ job[w] = Idle /\ op \in OpsOf[w] \cap BundleOps
  /\ Expirable(order) \/ Admit(op, order)
  /\ job' = [job EXCEPT ![w] =
       [op |-> op, row |-> Seen, answer |-> "none",
        pc |-> IF Expirable(order) THEN "expire"
               ELSE IF op = "refresh" THEN "verify" ELSE "write"]]
  /\ UNCHANGED <<order, courier, idem, charge, age, inPlaced, crowded>>

\* maybeExpireUnpaidOrder: an unconditional write built from the snapshot.
ExpireUnpaid(w) ==
  /\ job[w].pc = "expire"
  /\ LET row == job[w].row IN
     /\ order' = [Restored(Expired(row)) EXCEPT !.cause = "payment_timeout"]
     /\ IF Admit(job[w].op, Expired(row))
          THEN job' = [job EXCEPT ![w].pc = "verify", ![w].row = Expired(row)]
          ELSE Finish(w)
  /\ UNCHANGED <<courier, idem, charge, age, inPlaced, crowded>>

\* The invocation dies, or a call it makes fails, before its next write.
Abort(w) ==
  /\ job[w] # Idle
  /\ Finish(w)
  /\ UNCHANGED <<order, courier, idem, charge, age, inPlaced, crowded>>

-----------------------------------------------------------------------------
(* The customer. *)

\* cancelCustomerOrder: the guard ran on the snapshot, the write has none.
CancelOrder(w) ==
  /\ job[w].pc = "write" /\ job[w].op = "cancel"
  /\ LET row == job[w].row IN
     order' = [Restored(row) EXCEPT !.status = "cancelled", !.pay = Refund(row),
                                    !.cause = "customer"]
  /\ Finish(w)
  /\ UNCHANGED <<courier, idem, charge, age, inPlaced, crowded>>

\* What verifyPaystackTransaction can answer, by state of the transaction.
Answers ==
  CASE charge = "success"  -> {"success"}
    [] charge = "reversed" -> {"failed"}
    [] OTHER               -> {"failed", "pending"}

\* refreshPaystackPaymentForOrder: ask the gateway.
VerifyForRefresh(w) ==
  /\ job[w].pc = "verify" /\ job[w].op = "refresh"
  /\ \E a \in Answers :
       job' = [job EXCEPT ![w].pc = "sync", ![w].answer = a]
  /\ UNCHANGED <<order, courier, idem, charge, age, inPlaced, crowded>>

\* Mutant: an unfinished transaction counts as a payment.
MutantPaymentFor(answer) == IF answer = "failed" THEN "failed" ELSE "paid"

\* The payment status an answer of the gateway stands for.
PaymentFor(answer) ==
  CASE answer = "success" -> "paid" [] answer = "failed" -> "failed" [] OTHER -> "pending"

\* syncOrderPaymentState: fold the answer into the payment column.
SyncPayment(w) ==
  /\ job[w].pc = "sync"
  /\ order' = [order EXCEPT
       !.pay = PaymentFor(job[w].answer),
       !.captured = job[w].answer = "success" \/ job[w].row.captured]
  /\ Finish(w)
  /\ UNCHANGED <<courier, idem, charge, age, inPlaced, crowded>>

-----------------------------------------------------------------------------
(* Partner and dispatch: one compare-and-swap on the status read. *)

PartnerCommit(w) ==
  /\ job[w].pc = "write" /\ job[w].op \in PartnerOps
  /\ LET row == job[w].row IN
     IF Unmoved(row)
       THEN order' = [Restored(row) EXCEPT !.status = Target(job[w].op, row)]
       ELSE UNCHANGED order  \* 409
  /\ Finish(w)
  /\ UNCHANGED <<courier, idem, charge, age, inPlaced, crowded>>

DispatchCommit(w) ==
  /\ job[w].pc = "write" /\ job[w].op \in DispatchOps
  /\ LET row == job[w].row
         op  == job[w].op
         writtenOff == op = "cancel_escalated"
     IN IF Unmoved(row)
          THEN order' = [Restored(row) EXCEPT
                 !.status  = Target(op, row),
                 !.pay     = IF writtenOff THEN Refund(row) ELSE @,
                 !.escFrom = StageKept(op, row),
                 !.cause   = IF writtenOff THEN "dispatch_escalation" ELSE @]
          ELSE UNCHANGED order  \* 409
  /\ Finish(w)
  /\ UNCHANGED <<courier, idem, charge, age, inPlaced, crowded>>

\* ebuy_reassign_dispatch_assignment_courier and the offer acceptance RPC:
\* both lock the row and require a status at which a rider may be claimed.
AssignCourier ==
  /\ ~courier /\ order.status \in {"accepted", "preparing", "ready_for_pickup"}
  /\ courier' = TRUE
  /\ UNCHANGED <<order, idem, charge, age, inPlaced, crowded, job>>

-----------------------------------------------------------------------------
(* Checkout and the gateway. *)

\* initializeCustomerPayment after Paystack answered: the payment column.
CheckoutInitialized ==
  /\ charge = "none" /\ order.method # "cash"
  /\ charge' = "opened"
  /\ order' = [order EXCEPT !.pay = "pending", !.captured = FALSE]
  /\ UNCHANGED <<courier, idem, age, inPlaced, crowded, job>>

\* The rest of the handler, up to its answer: only that gives the customer the URL.
CheckoutAnswered ==
  /\ charge = "opened" /\ charge' = "open"
  /\ UNCHANGED <<order, courier, idem, age, inPlaced, crowded, job>>

\* Its catch block: cancel the order.  A transaction that was opened may still be paid:
\* the answer may have been recorded before the failure, and a retry replays it.
CheckoutFailed ==
  /\ charge \in {"none", "opened"} /\ order.method # "cash"
  /\ charge' = IF charge = "none" THEN "dead" ELSE "open"
  /\ order' = [order EXCEPT !.status = "cancelled", !.pay = "failed", !.captured = FALSE,
                 !.escFrom = "none", !.cause = "payment_initialization_failed"]
  /\ UNCHANGED <<courier, idem, age, inPlaced, crowded, job>>

\* External: the customer completes the payment; the gateway may reverse it.
CustomerPays ==
  /\ charge = "open" /\ charge' = "success"
  /\ UNCHANGED <<order, courier, idem, age, inPlaced, crowded, job>>

GatewayReverses ==
  /\ charge = "success" /\ charge' = "reversed"
  /\ UNCHANGED <<order, courier, idem, age, inPlaced, crowded, job>>

-----------------------------------------------------------------------------
(* charge.success webhook -> handlePaymentVerification. *)

\* A delivery, or the redelivery of one that died: skip what is recorded, and verify
\* what the row does not show as paid.
WebhookArrives(w) ==
  /\ job[w] = Idle /\ "webhook" \in OpsOf[w]
  /\ charge \in {"success", "reversed"} /\ ~idem
  /\ IF order.pay = "paid"
       THEN Store(w)
       ELSE job' = [job EXCEPT ![w] =
              [op |-> "webhook", pc |-> "verify", row |-> Seen, answer |-> "none"]]
  /\ UNCHANGED <<order, courier, idem, charge, age, inPlaced, crowded>>

WebhookVerify(w) ==
  /\ job[w].pc = "verify" /\ job[w].op = "webhook"
  /\ IF charge = "success"
       THEN Step(w, IF job[w].row.status = "placed" THEN "advance" ELSE "late")
       ELSE Finish(w)
  /\ UNCHANGED <<order, courier, idem, charge, age, inPlaced, crowded>>

\* The row is at a status in which it awaits this payment.
Awaiting == order.status = "placed"

Advanced(row) ==
  [Restored(row) EXCEPT !.status = "placed", !.pay = "paid", !.captured = TRUE]

\* Compare-and-set on the awaiting statuses; a lost race reloads the row.
WebhookAdvance(w) ==
  /\ job[w].pc = "advance"
  /\ IF Awaiting
       THEN order' = Advanced(job[w].row) /\ Store(w)
       ELSE Step(w, "reload") /\ UNCHANGED order
  /\ UNCHANGED <<courier, idem, charge, age, inPlaced, crowded>>

WebhookReload(w) ==
  /\ job[w].pc = "reload"
  /\ job' = [job EXCEPT ![w].row = Seen,
                        ![w].pc = IF Awaiting THEN "force" ELSE "late"]
  /\ UNCHANGED <<order, courier, idem, charge, age, inPlaced, crowded>>

\* "Still awaiting": the plain advance, without the compare-and-set.
WebhookForce(w) ==
  /\ job[w].pc = "force"
  /\ order' = Advanced(job[w].row)
  /\ Store(w)
  /\ UNCHANGED <<courier, idem, charge, age, inPlaced, crowded>>

\* Not awaiting payment: record the money, leave the status alone.
WebhookLate(w) ==
  /\ job[w].pc = "late"
  /\ LET row == job[w].row IN
     order' = [Restored(row) EXCEPT !.status = order.status, !.pay = "paid", !.captured = TRUE,
                                    !.attention = @ \/ row.status \in Closed]
  /\ Store(w)
  /\ UNCHANGED <<courier, idem, charge, age, inPlaced, crowded>>

\* storeIdempotencyRecord, after the ledger, the risk signals and the notices of the
\* handler, any of which may throw (Abort): then the verification is not recorded.
WebhookRecord(w) ==
  /\ job[w].pc = "record"
  /\ idem' = TRUE
  /\ Finish(w)
  /\ UNCHANGED <<order, courier, charge, age, inPlaced, crowded>>

-----------------------------------------------------------------------------
(* The minute sweeps of the queue drainer. *)

\* Time since timeline.placedAt, or since createdAt where that is absent.
PlacedAge(row) == IF row.placedAt THEN inPlaced ELSE age

\* External: other orders fill the page of the sweep's query (ACCEPTANCE_SWEEP_LIMIT
\* oldest `placed' rows by createdAt, paid or not), or leave it.
PageShifts ==
  /\ Crowding /\ crowded' = ~crowded
  /\ UNCHANGED <<order, courier, idem, charge, age, inPlaced, job>>

AcceptanceSweepReads(w) ==
  /\ job[w] = Idle /\ "acceptance_sweep" \in OpsOf[w] /\ ~crowded
  /\ order.status = "placed" /\ Visible(order) /\ PlacedAge(order) >= 1
  /\ job' = [job EXCEPT ![w] =
       [op |-> "acceptance_sweep", row |-> Seen, answer |-> "none",
        pc |-> IF PlacedAge(order) >= 2 THEN "time_out" ELSE "flag"]]
  /\ UNCHANGED <<order, courier, idem, charge, age, inPlaced, crowded>>

\* Mutant: the RPC trusts the sweep's read.
MutantStillPlaced == TRUE

\* The status both RPCs re-read under the row lock.
StillPlaced == order.status = "placed"

\* ebuy_escalate_unaccepted_order: under the row lock, and only once.
FlagUnaccepted(w) ==
  /\ job[w].pc = "flag"
  /\ order' = [order EXCEPT !.attention = @ \/ StillPlaced]
  /\ Finish(w)
  /\ UNCHANGED <<courier, idem, charge, age, inPlaced, crowded>>

\* ebuy_auto_cancel_unaccepted_order: status re-checked under the row lock, the
\* refund and the timeline as the sweep computed them from its snapshot.
TimeOutUnaccepted(w) ==
  /\ job[w].pc = "time_out"
  /\ LET row == job[w].row IN
     IF StillPlaced
       THEN order' = [Restored(row) EXCEPT !.status = "cancelled", !.pay = Refund(row),
                                           !.attention = FALSE,
                                           !.cause = "acceptance_deadline"]
       ELSE UNCHANGED order
  /\ Finish(w)
  /\ UNCHANGED <<courier, idem, charge, age, inPlaced, crowded>>

ReleaseSweepReads(w) ==
  /\ job[w] = Idle /\ "release_sweep" \in OpsOf[w]
  /\ order.status = "scheduled"
  /\ job' = [job EXCEPT ![w] =
       [op |-> "release_sweep", pc |-> "release", row |-> Seen, answer |-> "none"]]
  /\ UNCHANGED <<order, courier, idem, charge, age, inPlaced, crowded>>

\* scheduled -> placed by compare-and-swap; the acceptance clock starts here.
ReleaseScheduled(w) ==
  /\ job[w].pc = "release"
  /\ IF order.status = "scheduled"
       THEN /\ order' = [order EXCEPT !.status = "placed", !.placedAt = TRUE,
                           !.escFrom = job[w].row.escFrom]
            /\ inPlaced' = 0
       ELSE UNCHANGED <<order, inPlaced>>
  /\ Finish(w)
  /\ UNCHANGED <<courier, idem, charge, age, crowded>>

Later(t) == IF t < MaxAge THEN t + 1 ELSE t

Tick ==
  /\ age' = Later(age)
  /\ inPlaced' = IF order.status = "scheduled" THEN 0 ELSE Later(inPlaced)
  /\ UNCHANGED <<order, courier, idem, charge, crowded, job>>

-----------------------------------------------------------------------------
WorkerStep(w) ==
  \/ \E op \in BundleOps : LoadBundle(w, op)
  \/ ExpireUnpaid(w) \/ Abort(w)
  \/ CancelOrder(w) \/ VerifyForRefresh(w) \/ SyncPayment(w)
  \/ PartnerCommit(w) \/ DispatchCommit(w)
  \/ WebhookArrives(w) \/ WebhookVerify(w) \/ WebhookAdvance(w)
  \/ WebhookReload(w) \/ WebhookForce(w) \/ WebhookLate(w)
  \/ WebhookRecord(w)
  \/ AcceptanceSweepReads(w) \/ FlagUnaccepted(w) \/ TimeOutUnaccepted(w)
  \/ ReleaseSweepReads(w) \/ ReleaseScheduled(w)

Next ==
  \/ \E w \in Workers : WorkerStep(w)
  \/ AssignCourier
  \/ CheckoutInitialized \/ CheckoutAnswered \/ CheckoutFailed
  \/ CustomerPays \/ GatewayReverses
  \/ PageShifts \/ Tick

Spec == Init /\ [][Next]_vars

\* A request that has begun ends, by answering or by dying; pg_cron posts the drainer
\* every minute and the apps keep reading the order, so neither is starved for ever,
\* and not every one of those requests dies before its write.
Fairness ==
  /\ WF_vars(Tick)
  /\ \A w \in {v \in Workers : "acceptance_sweep" \in OpsOf[v]} :
       /\ WF_vars(job[w] # Idle /\ WorkerStep(w))
       /\ SF_vars(AcceptanceSweepReads(w)) /\ SF_vars(TimeOutUnaccepted(w))
  /\ \A w \in {v \in Workers : "view" \in OpsOf[v]} :
       /\ WF_vars(job[w] # Idle /\ WorkerStep(w))
       /\ SF_vars(LoadBundle(w, "view")) /\ SF_vars(ExpireUnpaid(w))

FairSpec == Spec /\ Fairness

-----------------------------------------------------------------------------
(* What must hold however the handlers interleave. *)

Resting == \A w \in Workers : job[w] = Idle
GatewayHasMoney == charge \in {"success", "reversed"}
Handed == {"accepted", "preparing", "ready_for_pickup", "picked_up", "on_the_way",
           "escalated", "delivered", "rejected", "failed_delivery"}

\* No card order reaches the kitchen, a rider or an escalation unless the gateway
\* took the money, whatever mix of stale snapshots was written back
\* (assertOrderPaymentReadyForOperations runs on a snapshot, never on the row).
FoodNeedsMoney == order.method = "card" /\ order.status \in Handed => GatewayHasMoney

\* A payment the row calls paid or refunded was made: no handler invents one out of
\* an unfinished transaction or an older snapshot.
PaidMeansCaptured == order.pay \in {"paid", "refunded"} => GatewayHasMoney

\* Once the verification is recorded and nothing is in flight, the row shows the
\* captured money as paid or refunded: no overlapping handler wrote it away.
CapturedMoneyAccounted ==
  idem /\ Resting /\ charge = "success" => order.pay \in {"paid", "refunded"}

\* A cancelled order that had captured money has a refund on record, or a human is
\* pointed at it.
CancelledMoneyReturned ==
  order.status = "cancelled" /\ order.captured => order.pay = "refunded" \/ order.attention

\* An escalated order knows the live stage it can be returned to.
EscalationReversible ==
  order.status = "escalated" => order.escFrom \in Live \ {"escalated"}

\* An order that ended keeps the end it had: neither a late payment nor a request
\* that read it earlier moves it.
TerminalIsFinal == [][order.status \in Terminal => order'.status = order.status]_vars

\* A closed order is never served, and nothing but the arrival of its money puts it back
\* before the restaurant, although most handlers write what they read before it closed
\* (the advance of the payment handler after a lost compare-and-set does reopen).
OnlyPaymentReopens ==
  [][order.status \in Closed /\ order'.status \notin Closed
       => order'.status = "placed" /\ order'.pay = "paid"]_vars

\* A recorded refund is not written away, except by a late payment a human is told of.
RefundNotErased ==
  [][order.pay = "refunded" /\ order'.pay # "refunded" => order'.attention]_vars

\* The payment window cancels only orders nobody has paid for (maybeExpireUnpaidOrder).
ExpiryOnlyUnpaid ==
  [][order.cause # "payment_timeout" /\ order'.cause = "payment_timeout"
       => order.pay # "paid"]_vars

\* An order the restaurant can act on does not wait for ever for its answer, provided
\* it comes within the page of oldest placed rows for good: rows the sweep skips, unpaid
\* ones among them, count against the page and may keep a newer order off it.
PaidOrderAnswered ==
  <>[]~crowded =>
    ((order.status = "placed" /\ (order.method = "cash" \/ order.pay = "paid"))
       ~> (order.status # "placed"))

\* A card checkout that is never paid ends (ORDER_PAYMENT_TIMEOUT_MS).
UnpaidCheckoutEnds ==
  (order.status = "placed" /\ order.method = "card" /\ ~GatewayHasMoney)
    ~> (order.status # "placed" \/ GatewayHasMoney)
=============================================================================
