------------------------ MODULE OrderGuarded_proofs ------------------------
(* What OrderLifecycle guarantees when neither of its unguarded writers runs: *)
(* the customer's own cancel and refresh, which write without a check of the  *)
(* status, and the lapse of the payment window.  Any number of staff requests *)
(* and sweeps overlap; the webhook is delivered, and delivered again after a  *)
(* delivery died anywhere, one delivery at a time.                            *)
EXTENDS OrderLifecycle_proofs

\* The mixes of handlers the theorems of this module are about.
GuardedMix ==
  /\ \A w \in Workers : {"cancel", "refresh"} \cap OpsOf[w] = {}
  /\ \A v, w \in Workers : "webhook" \in OpsOf[v] \cap OpsOf[w] => v = w
  /\ PayWindow > MaxAge

\* A row, or a snapshot of one, that shows the money or shows none of it.
Recorded(row)   == row.pay \in {"paid", "refunded"} /\ row.captured
Unrecorded(row) == row.pay \notin {"paid", "refunded"} /\ ~row.captured

\* The row shows money only if the gateway holds it, and shows it once the verification is
\* recorded; until it does, a card order is where checkout left it.
MoneyOfRow ==
  /\ order.method = "cash" => charge = "none"
  /\ IF order.captured THEN GatewayHasMoney /\ Recorded(order) ELSE Unrecorded(order)
  /\ idem => order.captured
  /\ order.method = "card" /\ ~order.captured =>
       order.status \in {"scheduled", "placed", "cancelled"}

\* A refund is one of a cancelled order, and captured money of a cancelled order is
\* refunded or in front of a human.
EndOfRow ==
  /\ order.pay = "refunded" => order.status = "cancelled"
  /\ order.status = "cancelled" /\ order.captured =>
       order.pay = "refunded" \/ order.attention

\* A webhook under way has read an order that awaits its payment still, or a cancelled one:
\* a redelivery after the row was written finds it paid, unless it was refunded meanwhile.
PaymentJob(w) ==
  /\ "webhook" \in OpsOf[w] /\ job[w].op = "webhook" /\ GatewayHasMoney
  /\ job[w].row.status \in {"scheduled", "placed", "cancelled"}
  /\ job[w].row.status # "cancelled" =>
       ~order.captured /\ order.status \in {job[w].row.status, "placed"}
  /\ job[w].row.status = "cancelled" => order.status = "cancelled"
  /\ job[w].pc = "advance" => job[w].row.status = "placed"

\* A staff write or an automatic cancellation was decided on a row that already showed
\* the payment, or on one that never will; an escalation starts and ends at another status.
DecidedJob(w) ==
  /\ job[w].pc = "write" => job[w].op \in StaffOps
  /\ job[w].op = "escalate" => job[w].row.status # "escalated"
  /\ job[w].op = "resolve_escalation" => job[w].row.escFrom # "escalated"
  /\ IF order.method = "card"
       THEN order.captured /\ job[w].row.pay = "paid" /\ job[w].row.captured
       ELSE Unrecorded(job[w].row)

GuardedJob(w) ==
  /\ job[w].pc \notin {"expire", "sync", "reload", "force"}
  /\ job[w].pc \in {"verify", "advance", "late"} => PaymentJob(w)
  /\ job[w].pc = "record" => order.captured
  /\ job[w].pc \in {"write", "time_out"} => DecidedJob(w)

GuardedJobs == \A w \in Workers : GuardedJob(w)

GuardedRow == MoneyOfRow /\ EndOfRow /\ EscalationReversible

GuardInv == CloseInv /\ GuardedRow /\ GuardedJobs

\* What a step may not do to the row.
Lasting ==
  /\ order.status \in Terminal => order'.status = order.status
  /\ order.pay = "refunded" => order'.pay = "refunded" \/ order'.attention

-----------------------------------------------------------------------------
LEMMA GuardTypes ==
  ASSUME GuardInv
  PROVE  /\ order \in Row /\ job \in [Workers -> Busy \cup {Idle, Storing}]
         /\ order.method \in {"card", "cash"} /\ TypeInv /\ TypeOK
         /\ idem \in BOOLEAN /\ charge \in Charges
  BY MethodsAssumption DEF GuardInv, CloseInv, TypeInv, TypeOK, Row

\* The payment window never lapses within the clocks of such a mix.
LEMMA NeverExpires ==
  ASSUME GuardedMix, TypeOK
  PROVE  ~Expirable(order)
  <1>1. age <= MaxAge /\ age \in Int /\ MaxAge \in Int /\ PayWindow \in Int
    BY ClockAssumption DEF TypeOK
  <1> QED
    BY <1>1 DEF GuardedMix, Expirable

\* The order's method never changes, and the money shows exactly in the cases of MoneyOfRow.
LEMMA Money ==
  ASSUME GuardInv
  PROVE  /\ MoneyOfRow /\ EndOfRow
         /\ order.captured => GatewayHasMoney /\ order.method = "card" /\ Recorded(order)
         /\ ~order.captured => Unrecorded(order)
         /\ GatewayHasMoney => order.method = "card"
  BY GuardTypes DEF GuardInv, GuardedRow, MoneyOfRow, GatewayHasMoney

\* What a job was admitted for still holds after a step that takes no captured money off
\* the row and respects the payment under way.
LEMMA JobKept ==
  ASSUME NEW v \in Workers, GuardedJob(v), job'[v] = job[v],
         order'.method = order.method, order.captured => order'.captured,
         PaymentJob(v) => PaymentJob(v)'
  PROVE  GuardedJob(v)'
  BY DEF GuardedJob, DecidedJob, Unrecorded

\* A payment under way bears the release of its order.
LEMMA PaymentKept ==
  ASSUME NEW v \in Workers, PaymentJob(v), job'[v] = job[v],
         GatewayHasMoney => GatewayHasMoney', order'.captured = order.captured,
         \/ order'.status = order.status
         \/ order.status = "scheduled" /\ order'.status = "placed"
  PROVE  PaymentJob(v)'
  BY DEF PaymentJob

LEMMA GuardInit == Init => GuardInv
  <1> SUFFICES ASSUME Init PROVE GuardInv
    OBVIOUS
  <1>1. PICK s \in Starts, m \in Methods :
          order = [status |-> s, method |-> m, pay |-> "pending", captured |-> FALSE,
                   placedAt |-> s = "placed", escFrom |-> "none", attention |-> FALSE,
                   cause |-> "none"]
    BY DEF Init
  <1>2. s \in {"scheduled", "placed"}
    BY StartsAssumption
  <1>3. GuardedRow
    BY <1>1, <1>2
    DEF Init, GuardedRow, MoneyOfRow, EndOfRow, EscalationReversible, Unrecorded
  <1>4. GuardedJobs
    BY DEF Init, GuardedJobs, GuardedJob, Idle
  <1> QED
    BY <1>3, <1>4, CloseInit DEF GuardInv

-----------------------------------------------------------------------------
(* A request begins or ends, or moves on without a write. *)

\* The row, the record and the charge stay; one worker's job changes.
LEMMA GuardJob ==
  ASSUME GuardInv, NEW w \in Workers, UNCHANGED <<order, idem, charge>>,
         \A v \in Workers \ {w} : job'[v] = job[v], GuardedJob(w)'
  PROVE  GuardedRow' /\ GuardedJobs' /\ Lasting
  <1>1. GuardedRow'
    BY DEF GuardInv, GuardedRow, MoneyOfRow, EndOfRow, EscalationReversible, Recorded,
           Unrecorded, GatewayHasMoney
  <1>2. \A v \in Workers \ {w} : GuardedJob(v)'
    BY JobKept, PaymentKept DEF GuardInv, GuardedJobs, GatewayHasMoney
  <1> QED
    BY <1>1, <1>2 DEF GuardedJobs, Lasting

\* Ending a request leaves an idle worker behind.
LEMMA GuardFinish ==
  ASSUME GuardInv, NEW w \in Workers, Finish(w)
  PROVE  GuardedJob(w)' /\ (\A v \in Workers \ {w} : job'[v] = job[v])
  BY GuardTypes DEF Finish, Idle, GuardedJob

\* Only staff requests get past their read, on a row whose payment they may rely on.
LEMMA GuardLoad ==
  ASSUME GuardedMix, GuardInv, NEW w \in Workers, NEW op \in BundleOps, LoadBundle(w, op)
  PROVE  GuardedRow' /\ GuardedJobs' /\ Lasting
  <1>1. ~Expirable(order) /\ Admit(op, order) /\ op \notin {"cancel", "refresh"}
    BY GuardTypes, NeverExpires DEF LoadBundle, GuardedMix
  <1>2. PartnerAdmits(op, order) \/ DispatchAdmits(op, order)
    BY <1>1 DEF Admit
  <1>3. op \in StaffOps /\ Visible(order)
    BY <1>2 DEF PartnerAdmits, DispatchAdmits, StaffOps
  <1>4. order.status \notin Terminal
    BY <1>1, <1>3, StaffAdmits DEF Live, Terminal
  <1>5. IF order.method = "card" THEN order.pay = "paid" /\ order.captured
        ELSE Unrecorded(order)
    BY <1>3, <1>4, GuardTypes, Money DEF Visible, Unrecorded
  <1>6. /\ job'[w] = [op |-> op, row |-> Seen, answer |-> "none", pc |-> "write"]
        /\ \A v \in Workers \ {w} : job'[v] = job[v]
        /\ UNCHANGED <<order, idem, charge>>
    BY <1>1, GuardTypes DEF LoadBundle
  <1>7. /\ op = "escalate" => order.status # "escalated"
        /\ op = "resolve_escalation" => order.escFrom # "escalated"
    BY <1>2 DEF PartnerAdmits, PartnerOps, DispatchAdmits, DispatchFrom, Resolvable
  <1>8. GuardedJob(w)'
    BY <1>3, <1>5, <1>6, <1>7 DEF GuardedJob, DecidedJob, Seen, Unrecorded
  <1> QED
    BY <1>6, <1>8, GuardJob

LEMMA GuardRead ==
  ASSUME GuardedMix, GuardInv, NEW w \in Workers,
         \/ Abort(w) \/ WebhookArrives(w) \/ WebhookVerify(w) \/ WebhookRecord(w)
         \/ AcceptanceSweepReads(w) \/ ReleaseSweepReads(w)
  PROVE  GuardedRow' /\ GuardedJobs' /\ Lasting
  <1> USE GuardTypes
  <1>1. CASE Abort(w)
    BY <1>1, GuardFinish, GuardJob DEF Abort
  <1>2. CASE WebhookArrives(w)
    <2>1. /\ GatewayHasMoney /\ "webhook" \in OpsOf[w]
          /\ \A v \in Workers \ {w} : job'[v] = job[v]
          /\ UNCHANGED <<order, idem, charge>>
      BY <1>2 DEF WebhookArrives, Store, GatewayHasMoney
    <2>2. CASE order.pay = "paid"
      <3>1. job'[w] = Storing /\ order.captured
        BY <1>2, <2>2, Money DEF WebhookArrives, Store, Unrecorded
      <3>2. GuardedJob(w)'
        BY <2>1, <3>1 DEF GuardedJob, Storing
      <3> QED
        BY <2>1, <3>2, GuardJob
    <2>3. CASE order.pay # "paid"
      <3>1. job'[w] = [op |-> "webhook", pc |-> "verify", row |-> Seen, answer |-> "none"]
        BY <1>2, <2>3 DEF WebhookArrives
      <3>2. /\ order.captured => order.status = "cancelled"
            /\ ~order.captured => order.status \in {"scheduled", "placed", "cancelled"}
        BY <2>1, <2>3, Money DEF MoneyOfRow, EndOfRow, Recorded
      <3>3. GuardedJob(w)'
        BY <2>1, <3>1, <3>2 DEF GuardedJob, PaymentJob, Seen, GatewayHasMoney
      <3> QED
        BY <2>1, <3>3, GuardJob
    <2> QED
      BY <2>2, <2>3
  <1>3. CASE WebhookVerify(w)
    <2>1. /\ PaymentJob(w) /\ job[w] \in Busy
          /\ UNCHANGED <<order, idem, charge>>
      BY <1>3, BusyType, IdleJob DEF WebhookVerify, GuardInv, GuardedJobs, GuardedJob
    <2>2. CASE Finish(w)
      BY <2>1, <2>2, GuardFinish, GuardJob
    <2>3. CASE ~Finish(w)
      <3> DEFINE pc == IF job[w].row.status = "placed" THEN "advance" ELSE "late"
      <3>1. Step(w, pc)
        BY <1>3, <2>3 DEF WebhookVerify
      <3>2. /\ job'[w] = [job[w] EXCEPT !.pc = pc]
            /\ \A v \in Workers \ {w} : job'[v] = job[v]
        BY <3>1 DEF Step
      <3>3. job'[w].pc = pc /\ job'[w].row = job[w].row /\ job'[w].op = job[w].op
        BY <2>1, <3>2 DEF Busy
      <3>4. GuardedJob(w)'
        BY <2>1, <3>3 DEF GuardedJob, PaymentJob, GatewayHasMoney
      <3> QED
        BY <2>1, <3>2, <3>4, GuardJob
    <2> QED
      BY <2>2, <2>3
  <1>4. CASE AcceptanceSweepReads(w)
    <2>1. /\ job'[w].pc \in {"flag", "time_out"} /\ job'[w].op = "acceptance_sweep"
          /\ job'[w].row = Seen
          /\ \A v \in Workers \ {w} : job'[v] = job[v]
          /\ UNCHANGED <<order, idem, charge>>
      BY <1>4 DEF AcceptanceSweepReads
    <2>2. order.status \notin Terminal /\ Visible(order)
      BY <1>4 DEF AcceptanceSweepReads, Terminal
    <2>3. IF order.method = "card" THEN order.pay = "paid" /\ order.captured
          ELSE Unrecorded(order)
      BY <2>2, Money DEF Visible, Unrecorded
    <2>4. GuardedJob(w)'
      BY <2>1, <2>3 DEF GuardedJob, DecidedJob, Seen, Unrecorded
    <2> QED
      BY <2>1, <2>4, GuardJob
  <1>5. CASE ReleaseSweepReads(w)
    <2>1. /\ job'[w].pc = "release"
          /\ \A v \in Workers \ {w} : job'[v] = job[v]
          /\ UNCHANGED <<order, idem, charge>>
      BY <1>5 DEF ReleaseSweepReads
    <2>2. GuardedJob(w)'
      BY <2>1 DEF GuardedJob
    <2> QED
      BY <2>1, <2>2, GuardJob
  <1>6. CASE WebhookRecord(w)
    <2>1. order.captured /\ idem' /\ Finish(w) /\ UNCHANGED <<order, charge>>
      BY <1>6 DEF WebhookRecord, GuardInv, GuardedJobs, GuardedJob
    <2>2. GuardedRow'
      BY <2>1 DEF GuardInv, GuardedRow, MoneyOfRow, EndOfRow, EscalationReversible, Recorded,
         Unrecorded, GatewayHasMoney
    <2>3. GuardedJobs'
      BY <2>1, GuardFinish, JobKept, PaymentKept DEF GuardInv, GuardedJobs, GatewayHasMoney
    <2> QED
      BY <2>1, <2>2, <2>3 DEF Lasting
  <1> QED
    BY <1>1, <1>2, <1>3, <1>4, <1>5, <1>6

-----------------------------------------------------------------------------
(* The writes. *)

\* In such a mix nobody writes without a check of the status, and a webhook that finds
\* the order awaiting still finds it so when it writes.
LEMMA NotInMix ==
  ASSUME GuardInv, NEW w \in Workers
  PROVE  /\ ~ExpireUnpaid(w) /\ ~CancelOrder(w) /\ ~VerifyForRefresh(w) /\ ~SyncPayment(w)
         /\ ~WebhookReload(w) /\ ~WebhookForce(w)
         /\ WebhookAdvance(w) => Awaiting
  <1>1. GuardedJob(w)
    BY DEF GuardInv, GuardedJobs
  <1>2. "cancel" \notin StaffOps
    BY DEF StaffOps, PartnerOps, DispatchOps, CourierOps
  <1> QED
    BY <1>1, <1>2 DEF GuardedJob, DecidedJob, PaymentJob, ExpireUnpaid, CancelOrder,
       VerifyForRefresh, SyncPayment, WebhookReload, WebhookForce, WebhookAdvance, Awaiting

\* A write that ends a request keeps every job's terms, if it takes no captured money off
\* the row and respects the payments under way.
LEMMA GuardWrite ==
  ASSUME GuardInv, NEW w \in Workers, Finish(w), order'.method = order.method,
         order.captured => order'.captured,
         \A v \in Workers \ {w} : PaymentJob(v) => PaymentJob(v)'
  PROVE  GuardedJobs'
  <1>1. GuardedJob(w)' /\ (\A v \in Workers \ {w} : job'[v] = job[v])
    BY GuardFinish
  <1>2. \A v \in Workers \ {w} : GuardedJob(v)'
    BY <1>1, JobKept DEF GuardInv, GuardedJobs
  <1> QED
    BY <1>1, <1>2 DEF GuardedJobs

\* A live order with a decided write under way has no payment under way.
LEMMA DecidedAlone ==
  ASSUME GuardInv, NEW w \in Workers, DecidedJob(w), NEW v \in Workers,
         order.status \notin Terminal
  PROVE  ~PaymentJob(v)
  BY Money DEF DecidedJob, PaymentJob, Terminal

\* The row a decided write leaves: the snapshot's money, refunded if it cancels.
LEMMA DecidedWrite ==
  ASSUME GuardInv, NEW w \in Workers, DecidedJob(w), Finish(w),
         order'.method = order.method, UNCHANGED <<idem, charge>>,
         order'.captured = job[w].row.captured,
         order'.pay = IF order'.status = "cancelled" THEN Refund(job[w].row)
                      ELSE job[w].row.pay,
         order.status \notin Terminal,
         EscalationReversible'
  PROVE  GuardedRow' /\ GuardedJobs' /\ Lasting
  <1> USE GuardTypes
  <1>1. MoneyOfRow /\ EndOfRow
    BY Money
  <1>2. Lasting
    BY <1>1 DEF EndOfRow, Lasting, Terminal
  <1>3. CASE order.method = "card"
    <2>1. order.captured /\ job[w].row.pay = "paid" /\ job[w].row.captured
      BY <1>3 DEF DecidedJob
    <2>2. order'.pay = (IF order'.status = "cancelled" THEN "refunded" ELSE "paid")
      BY <1>3, <2>1 DEF Refund
    <2>3. MoneyOfRow' /\ EndOfRow'
      BY <1>1, <1>3, <2>1, <2>2 DEF MoneyOfRow, EndOfRow, Recorded, GatewayHasMoney
    <2>4. GuardedJobs'
      BY <2>1, GuardWrite, DecidedAlone
    <2> QED
      BY <1>2, <2>3, <2>4 DEF GuardedRow
  <1>4. CASE order.method = "cash"
    <2>1. Unrecorded(job[w].row) /\ ~order.captured
      BY <1>4, Money DEF DecidedJob
    <2>2. Unrecorded(order)'
      BY <1>4, <2>1 DEF Refund, Unrecorded
    <2>3. MoneyOfRow' /\ EndOfRow'
      BY <1>1, <1>4, <2>1, <2>2 DEF MoneyOfRow, EndOfRow, Unrecorded
    <2>4. GuardedJobs'
      BY <2>1, GuardWrite, DecidedAlone
    <2> QED
      BY <1>2, <2>3, <2>4 DEF GuardedRow
  <1> QED
    BY <1>3, <1>4

\* What a staff request writes where it finds the status it read.
LEMMA StaffWrites ==
  ASSUME GuardInv, NEW w \in Workers, PartnerCommit(w) \/ DispatchCommit(w),
         Unmoved(job[w].row)
  PROVE  /\ order'.method = order.method /\ order'.captured = job[w].row.captured
         /\ order'.pay = IF order'.status = "cancelled" THEN Refund(job[w].row)
                         ELSE job[w].row.pay
         /\ order.status \notin Terminal
         /\ EscalationReversible'
  <1> DEFINE row == job[w].row
             op  == job[w].op
  <1>1. /\ job[w].pc = "write" /\ op \in StaffOps /\ row \in Snapshot /\ TypeOK
    BY GuardTypes, BusyType, IdleJob DEF PartnerCommit, DispatchCommit, StaffOps
  <1>2. row.status \in Live /\ (op = "resolve_escalation" => row.escFrom \notin Terminal)
    BY <1>1 DEF GuardInv, CloseInv, Admitted
  <1>3. order.status = row.status /\ row.status \notin Terminal
    BY <1>2 DEF Unmoved, Live, Terminal
  <1>4. /\ Restored(row) \in Row /\ Restored(row).method = order.method
        /\ Restored(row).pay = row.pay /\ Restored(row).captured = row.captured
        /\ Restored(row).escFrom = row.escFrom
    BY <1>1, RestoredType
  <1>5. CASE PartnerCommit(w)
    <2>1. order' = [Restored(row) EXCEPT !.status = Target(op, row)]
      BY <1>5 DEF PartnerCommit
    <2>2. Target(op, row) \notin {"cancelled", "escalated"}
      BY <1>5 DEF PartnerCommit, PartnerOps, Target
    <2>3. /\ order'.status = Target(op, row) /\ order'.pay = row.pay
          /\ order'.captured = row.captured /\ order'.method = order.method
      BY <1>4, <2>1 DEF Row
    <2> QED
      BY <1>3, <2>2, <2>3 DEF EscalationReversible
  <1>6. CASE DispatchCommit(w)
    <2>1. /\ order'.status = Target(op, row) /\ order'.escFrom = StageKept(op, row)
          /\ order'.pay = (IF op = "cancel_escalated" THEN Refund(row) ELSE row.pay)
          /\ order'.captured = row.captured /\ order'.method = order.method
      BY <1>4, <1>6 DEF DispatchCommit, Row
    <2>2. Target(op, row) = "cancelled" <=> op = "cancel_escalated"
      BY <1>2, <1>6 DEF DispatchCommit, DispatchOps, CourierOps, Target, Terminal
    <2>3. DecidedJob(w)
      BY <1>1 DEF GuardInv, GuardedJobs, GuardedJob
    <2>4. Target(op, row) = "escalated" => op = "escalate"
      BY <1>6, <2>3 DEF DecidedJob, DispatchCommit, DispatchOps, CourierOps, Target
    <2>5. op = "escalate" => StageKept(op, row) \in Live \ {"escalated"}
      BY <1>2, <2>3 DEF DecidedJob, StageKept
    <2> QED
      BY <1>3, <2>1, <2>2, <2>4, <2>5 DEF EscalationReversible
  <1> QED
    BY <1>5, <1>6

LEMMA GuardStaff ==
  ASSUME GuardInv, NEW w \in Workers, PartnerCommit(w) \/ DispatchCommit(w)
  PROVE  GuardedRow' /\ GuardedJobs' /\ Lasting
  <1>1. Finish(w) /\ UNCHANGED <<idem, charge>> /\ DecidedJob(w)
    BY DEF PartnerCommit, DispatchCommit, GuardInv, GuardedJobs, GuardedJob
  <1>2. CASE Unmoved(job[w].row)
    BY <1>1, <1>2, StaffWrites, DecidedWrite
  <1>3. CASE ~Unmoved(job[w].row)
    <2>1. UNCHANGED order
      BY <1>3 DEF PartnerCommit, DispatchCommit
    <2> QED
      BY <1>1, <2>1, GuardFinish, GuardJob
  <1> QED
    BY <1>2, <1>3

LEMMA GuardTimeOut ==
  ASSUME GuardInv, NEW w \in Workers, TimeOutUnaccepted(w)
  PROVE  GuardedRow' /\ GuardedJobs' /\ Lasting
  <1> DEFINE row == job[w].row
  <1>1. /\ Finish(w) /\ UNCHANGED <<idem, charge>> /\ DecidedJob(w)
        /\ row \in Snapshot /\ TypeOK
    BY GuardTypes, BusyType, IdleJob
    DEF TimeOutUnaccepted, GuardInv, GuardedJobs, GuardedJob
  <1>2. CASE StillPlaced
    <2>1. /\ Restored(row) \in Row /\ Restored(row).method = order.method
          /\ Restored(row).captured = row.captured
      BY <1>1, RestoredType
    <2>2. /\ order'.status = "cancelled" /\ order'.pay = Refund(row)
          /\ order'.captured = row.captured /\ order'.method = order.method
      BY <1>2, <2>1 DEF TimeOutUnaccepted, Row
    <2>3. order.status \notin Terminal /\ EscalationReversible'
      BY <1>2, <2>2 DEF StillPlaced, Terminal, EscalationReversible
    <2> QED
      BY <1>1, <2>2, <2>3, DecidedWrite
  <1>3. CASE ~StillPlaced
    <2>1. UNCHANGED order
      BY <1>3 DEF TimeOutUnaccepted
    <2> QED
      BY <1>1, <2>1, GuardFinish, GuardJob
  <1> QED
    BY <1>2, <1>3

\* Writing the payment down: no other delivery is under way, and the order awaits it still
\* or is cancelled, and then a human is told.
LEMMA GuardPayment ==
  ASSUME GuardedMix, GuardInv, NEW w \in Workers, WebhookAdvance(w) \/ WebhookLate(w)
  PROVE  GuardedRow' /\ GuardedJobs' /\ Lasting
  <1> DEFINE row == job[w].row
  <1>1. /\ PaymentJob(w) /\ row \in Snapshot /\ TypeOK
    BY GuardTypes, BusyType, IdleJob
    DEF WebhookAdvance, WebhookLate, GuardInv, GuardedJobs, GuardedJob
  <1>2. /\ order.method = "card" /\ GatewayHasMoney
        /\ order.status \in {"scheduled", "placed", "cancelled"}
    BY <1>1, Money DEF PaymentJob
  <1>3. /\ Store(w) /\ UNCHANGED <<idem, charge>>
        /\ \/ order' = Advanced(row) /\ order.status = "placed"
           \/ WebhookLate(w)
    BY NotInMix DEF WebhookAdvance, WebhookLate, Awaiting
  <1>4. /\ Restored(row) \in Row /\ Restored(row).method = order.method
    BY <1>1, RestoredType
  <1>5. /\ order'.pay = "paid" /\ order'.captured = TRUE /\ order'.method = "card"
        /\ order'.status = order.status
        /\ order.status = "cancelled" => order'.attention
    <2>1. CASE order' = Advanced(row) /\ order.status = "placed"
      BY <1>2, <1>4, <2>1 DEF Advanced, Row
    <2>2. CASE WebhookLate(w)
      <3>1. order.status = "cancelled" => row.status \in Closed
        BY <1>1 DEF PaymentJob, Closed, Terminal
      <3> QED
        BY <1>2, <1>4, <2>2, <3>1 DEF WebhookLate, Row
    <2> QED
      BY <1>3, <2>1, <2>2
  <1>6. GuardedRow'
    BY <1>2, <1>3, <1>5
    DEF GuardedRow, MoneyOfRow, EndOfRow, EscalationReversible, Recorded, GatewayHasMoney
  <1>7. /\ job'[w] = Storing
        /\ \A v \in Workers \ {w} : job'[v] = job[v]
    BY <1>3, GuardTypes DEF Store
  <1>8. GuardedJob(w)'
    BY <1>5, <1>7 DEF GuardedJob, Storing
  <1>9. ASSUME NEW v \in Workers \ {w} PROVE GuardedJob(v)'
    <2>1. ~PaymentJob(v)
      BY <1>1 DEF GuardedMix, PaymentJob
    <2> QED
      BY <1>2, <1>5, <1>7, <2>1, JobKept DEF GuardInv, GuardedJobs
  <1>10. Lasting
    BY <1>5, Money DEF EndOfRow, Lasting
  <1> QED
    BY <1>6, <1>8, <1>9, <1>10 DEF GuardedJobs

LEMMA GuardSweep ==
  ASSUME GuardInv, NEW w \in Workers, FlagUnaccepted(w) \/ ReleaseScheduled(w)
  PROVE  GuardedRow' /\ GuardedJobs' /\ Lasting
  <1> USE GuardTypes
  <1>1. Finish(w) /\ UNCHANGED <<idem, charge>>
    BY DEF FlagUnaccepted, ReleaseScheduled
  <1>2. /\ order'.method = order.method /\ order'.pay = order.pay
        /\ order'.captured = order.captured /\ (order.attention => order'.attention)
        /\ \/ order'.status = order.status /\ order'.escFrom = order.escFrom
           \/ order'.status = "placed" /\ order.status = "scheduled"
    BY DEF FlagUnaccepted, ReleaseScheduled, Row
  <1>3. \A v \in Workers \ {w} : PaymentJob(v) => PaymentJob(v)'
    BY <1>1, <1>2, PaymentKept, GuardFinish DEF GatewayHasMoney
  <1>4. GuardedJobs'
    BY <1>1, <1>2, <1>3, GuardWrite
  <1>5. MoneyOfRow'
    BY <1>1, <1>2, Money DEF MoneyOfRow, Recorded, Unrecorded, GatewayHasMoney
  <1>6. EndOfRow' /\ EscalationReversible' /\ Lasting
    BY <1>2 DEF GuardInv, GuardedRow, EndOfRow, EscalationReversible, Lasting, Terminal
  <1> QED
    BY <1>4, <1>5, <1>6 DEF GuardedRow

-----------------------------------------------------------------------------
(* Checkout, the gateway, the courier and the clocks. *)

LEMMA GuardOutside ==
  ASSUME GuardInv,
         \/ AssignCourier \/ CheckoutInitialized \/ CheckoutAnswered \/ CheckoutFailed
         \/ CustomerPays \/ GatewayReverses \/ PageShifts \/ Tick
  PROVE  GuardedRow' /\ GuardedJobs' /\ Lasting
  <1> USE GuardTypes
  <1> USE DEF AssignCourier, CheckoutInitialized, CheckoutAnswered, CheckoutFailed,
              CustomerPays, GatewayReverses, PageShifts, Tick
  <1>1. job' = job /\ idem' = idem
    OBVIOUS
  <1>2. order'.method = order.method /\ (GatewayHasMoney => GatewayHasMoney')
    BY DEF Row, GatewayHasMoney
  <1>3. GatewayHasMoney => order' = order
    BY DEF GatewayHasMoney
  <1>4. \A v \in Workers : PaymentJob(v) => PaymentJob(v)'
    BY <1>1, <1>2, <1>3, PaymentKept DEF PaymentJob
  <1>5. GuardedJobs'
    BY <1>1, <1>2, <1>3, <1>4, JobKept, Money DEF GuardInv, GuardedJobs
  <1>6. MoneyOfRow /\ EndOfRow /\ EscalationReversible
    BY DEF GuardInv, GuardedRow
  <1>7. CASE \/ AssignCourier \/ CheckoutAnswered \/ CustomerPays \/ GatewayReverses
             \/ PageShifts \/ Tick
    <2>1. order' = order /\ (charge' = charge \/ charge \in {"opened", "open", "success"})
      BY <1>7
    <2>2. GuardedRow'
      BY <1>1, <1>2, <1>6, <1>7, <2>1
      DEF GuardedRow, MoneyOfRow, EndOfRow, EscalationReversible, Recorded, Unrecorded
    <2> QED
      BY <1>5, <1>7, <2>2 DEF Lasting
  <1>8. CASE CheckoutInitialized \/ CheckoutFailed
    <2>1. /\ ~order.captured /\ order.method = "card" /\ ~idem
          /\ order.status \in {"scheduled", "placed", "cancelled"} /\ order.pay # "refunded"
      BY <1>6, <1>8, Money DEF MoneyOfRow, GatewayHasMoney, Unrecorded
    <2>2. /\ Unrecorded(order)' /\ order'.escFrom \in {order.escFrom, "none"}
          /\ order'.status = order.status \/ order'.status = "cancelled"
      BY <1>8 DEF Unrecorded, Row
    <2>3. GuardedRow'
      BY <1>1, <1>2, <2>1, <2>2
      DEF GuardedRow, MoneyOfRow, EndOfRow, EscalationReversible, Unrecorded
    <2>4. Lasting
      BY <2>1, <2>2 DEF Lasting, Terminal
    <2> QED
      BY <1>5, <2>3, <2>4
  <1> QED
    BY <1>7, <1>8

LEMMA GuardStep ==
  ASSUME GuardedMix, GuardInv, [Next]_vars
  PROVE  GuardedRow' /\ GuardedJobs' /\ Lasting
  <1>1. ASSUME NEW w \in Workers, WorkerStep(w) PROVE GuardedRow' /\ GuardedJobs' /\ Lasting
    BY <1>1, NotInMix, GuardLoad, GuardRead, GuardStaff, GuardTimeOut, GuardPayment, GuardSweep
    DEF WorkerStep
  <1>2. CASE UNCHANGED vars
    <2>1. UNCHANGED <<order, idem, charge, job>>
      BY <1>2 DEF vars
    <2>2. GuardedJobs'
      BY <2>1, JobKept, PaymentKept DEF GuardInv, GuardedJobs, GatewayHasMoney
    <2>3. GuardedRow'
      BY <2>1 DEF GuardInv, GuardedRow, MoneyOfRow, EndOfRow, EscalationReversible,
         Recorded, Unrecorded, GatewayHasMoney
    <2> QED
      BY <2>1, <2>2, <2>3 DEF Lasting
  <1> QED
    BY <1>1, <1>2, GuardOutside DEF Next

LEMMA SpecGuardInv ==
  ASSUME GuardedMix
  PROVE  Spec => []GuardInv
  <1>1. GuardInv /\ [Next]_vars => GuardInv'
    BY GuardStep, CloseNext DEF GuardInv
  <1> QED
    BY <1>1, GuardInit, PTL DEF Spec

-----------------------------------------------------------------------------
(* The theorems. *)

\* Under a guarded mix, money whose verification is recorded is on the row as paid or as
\* refunded, with requests in flight or without: no write of an older snapshot takes it
\* off, because every snapshot that can still be written was read after the payment, or
\* is a redelivery's, which writes the payment again.
THEOREM MoneyStaysAccounted ==
  ASSUME GuardedMix
  PROVE  Spec => []CapturedMoneyAccounted
  <1>1. GuardInv => CapturedMoneyAccounted
    BY DEF GuardInv, GuardedRow, MoneyOfRow, Recorded, CapturedMoneyAccounted
  <1> QED
    BY <1>1, SpecGuardInv, PTL

\* Under a guarded mix, an order that captured money and was cancelled shows the refund,
\* or stands before a human: when its payment landed after the cancellation, and when a
\* redelivery wrote the payment over the refund.
THEOREM CancelledMoneyGoesBack ==
  ASSUME GuardedMix
  PROVE  Spec => []CancelledMoneyReturned
  <1>1. GuardInv => CancelledMoneyReturned
    BY DEF GuardInv, GuardedRow, EndOfRow, CancelledMoneyReturned
  <1> QED
    BY <1>1, SpecGuardInv, PTL

\* Under a guarded mix, an escalated order can be put back where it was taken from: no
\* delivery that read the row before its first escalation is left to write it back.
THEOREM EscalationKeepsItsStage ==
  ASSUME GuardedMix
  PROVE  Spec => []EscalationReversible
  <1>1. GuardInv => EscalationReversible
    BY DEF GuardInv, GuardedRow
  <1> QED
    BY <1>1, SpecGuardInv, PTL

\* Under a guarded mix an order that ended keeps its end, however many staff requests and
\* sweeps had read it while it was open.
THEOREM EndsAreFinal ==
  ASSUME GuardedMix
  PROVE  Spec => TerminalIsFinal
  <1>1. GuardInv /\ [Next]_vars
          => [order.status \in Terminal => order'.status = order.status]_vars
    BY GuardStep DEF Lasting
  <1> QED
    BY <1>1, SpecGuardInv, PTL DEF Spec, TerminalIsFinal

\* Under a guarded mix a refund on record is written away only by a redelivery whose first
\* delivery died before it was recorded, and then the order is put before a human.
THEOREM RefundsStayOrAreFlagged ==
  ASSUME GuardedMix
  PROVE  Spec => RefundNotErased
  <1>1. GuardInv /\ [Next]_vars
          => [order.pay = "refunded" /\ order'.pay # "refunded" => order'.attention]_vars
    BY GuardStep DEF Lasting
  <1> QED
    BY <1>1, SpecGuardInv, PTL DEF Spec, RefundNotErased
=============================================================================
