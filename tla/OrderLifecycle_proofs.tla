----------------------- MODULE OrderLifecycle_proofs -----------------------
(* Theorems about OrderLifecycle, for every set of workers, every assignment *)
(* of operations to them and every payment window.                           *)
EXTENDS OrderLifecycle, TLAPS

\* A write that returns an escalated order to a stage knows that stage.
StageKnown ==
  \A w \in Workers : job[w].pc = "write" /\ job[w].op = "resolve_escalation"
                       => job[w].row.escFrom \in Status

TypeInv == TypeOK /\ StageKnown

-----------------------------------------------------------------------------
(* The shapes the steps write. *)

\* The snapshot a request keeps is one of the row it read.
LEMMA SeenType == TypeOK => Seen \in Snapshot
  BY DEF TypeOK, Row, Seen, Snapshot

\* Writing a snapshot's columns back gives a row, with the payment method untouched.
LEMMA RestoredType ==
  ASSUME TypeOK, NEW r \in Snapshot
  PROVE  /\ Restored(r) \in Row
         /\ Restored(r).method = order.method
         /\ Restored(r).status = r.status /\ Restored(r).pay = r.pay
         /\ Restored(r).captured = r.captured /\ Restored(r).escFrom = r.escFrom
  BY DEF TypeOK, Row, Restored, Snapshot

\* A worker that is past its first read carries a whole job.
LEMMA BusyType ==
  ASSUME TypeOK, NEW w \in Workers, job[w] \notin {Idle, Storing}
  PROVE  /\ job[w] \in Busy
         /\ job[w].row \in Snapshot /\ job[w].op \in Ops /\ job[w].pc \in Pcs
  BY DEF TypeOK, Busy

\* A worker that ends its request, moves to another step or starts one stays well typed.
LEMMA JobType ==
  ASSUME TypeOK, NEW w \in Workers, NEW new \in Busy \cup {Idle, Storing},
         job' = [job EXCEPT ![w] = new]
  PROVE  job' \in [Workers -> Busy \cup {Idle, Storing}]
  BY DEF TypeOK

\* A step of one worker that does not bring it to a resolving write keeps StageKnown.
LEMMA StageKnownKept ==
  ASSUME TypeInv, NEW w \in Workers, NEW new \in Busy \cup {Idle, Storing},
         job' = [job EXCEPT ![w] = new],
         new.pc = "write" /\ new.op = "resolve_escalation" => new.row.escFrom \in Status
  PROVE  StageKnown'
  BY DEF TypeInv, TypeOK, StageKnown

LEMMA IdleJob == Idle.pc = "idle" /\ Storing.pc = "record"
  BY DEF Idle, Storing

-----------------------------------------------------------------------------
(* Type correctness. *)

LEMMA TypeInit == Init => TypeInv
  <1> SUFFICES ASSUME Init PROVE TypeInv
    OBVIOUS
  <1>1. order \in Row
    <2>1. PICK s \in Starts, m \in Methods :
            order = [status |-> s, method |-> m, pay |-> "pending", captured |-> FALSE,
                     placedAt |-> s = "placed", escFrom |-> "none", attention |-> FALSE,
                     cause |-> "none"]
      BY DEF Init
    <2>2. s \in Status
      BY StartsAssumption DEF Status, Live
    <2>3. (s = "placed") \in BOOLEAN /\ FALSE \in BOOLEAN
      OBVIOUS
    <2>4. "pending" \in PayState /\ "none" \in Causes
      BY DEF PayState, Causes
    <2> QED
      BY <2>1, <2>2, <2>3, <2>4 DEF Row
  <1>2. charge \in Charges /\ age \in 0..MaxAge /\ inPlaced \in 0..MaxAge
    BY ClockAssumption DEF Init, Charges
  <1>3. job \in [Workers -> Busy \cup {Idle, Storing}]
    BY DEF Init
  <1>4. StageKnown
    BY IdleJob DEF Init, StageKnown
  <1>5. courier \in BOOLEAN /\ crowded \in BOOLEAN /\ idem \in BOOLEAN
    <2>1. courier \in BOOLEAN
      BY DEF Init
    <2>2. idem \in BOOLEAN
      BY DEF Init
    <2>3. crowded \in BOOLEAN
      BY DEF Init
    <2> QED
      BY <2>1, <2>2, <2>3
  <1> QED
    BY <1>1, <1>2, <1>3, <1>4, <1>5 DEF TypeInv, TypeOK

\* A request that ends, or a webhook with only its record left, stays well typed.
LEMMA TypeFinish ==
  ASSUME TypeInv, NEW w \in Workers, Finish(w) \/ Store(w)
  PROVE  job' \in [Workers -> Busy \cup {Idle, Storing}] /\ StageKnown'
  BY IdleJob, JobType, StageKnownKept DEF TypeInv, Finish, Store

LEMMA TypeLoad ==
  ASSUME TypeInv, NEW w \in Workers, NEW op \in BundleOps, LoadBundle(w, op)
  PROVE  TypeInv'
  <1> DEFINE new == [op |-> op, row |-> Seen, answer |-> "none",
                     pc |-> IF Expirable(order) THEN "expire"
                            ELSE IF op = "refresh" THEN "verify" ELSE "write"]
  <1>1. new \in Busy
    BY SeenType DEF TypeInv, Busy, Pcs, Ops
  <1>2. job' = [job EXCEPT ![w] = new]
    BY DEF LoadBundle
  <1>3. ASSUME new.pc = "write", new.op = "resolve_escalation"
        PROVE  new.row.escFrom \in Status
    <2>1. ~Expirable(order)
      BY <1>3
    <2>2. Admit(op, order) /\ op = "resolve_escalation"
      BY <2>1, <1>3 DEF LoadBundle
    <2>3. Resolvable(order)
      BY <2>2 DEF Admit, PartnerAdmits, DispatchAdmits, PartnerOps
    <2> QED
      BY <2>3, SeenType DEF Resolvable, Seen, TypeInv, TypeOK, Row
  <1>4. job' \in [Workers -> Busy \cup {Idle, Storing}]
    BY <1>1, <1>2, JobType DEF TypeInv
  <1>5. StageKnown'
    BY <1>1, <1>2, <1>3, StageKnownKept
  <1> QED
    BY <1>4, <1>5 DEF LoadBundle, TypeInv, TypeOK

LEMMA TypeStep ==
  ASSUME TypeInv, NEW w \in Workers, job[w] \in Busy, NEW pc \in Pcs \ {"write"}, Step(w, pc)
  PROVE  job' \in [Workers -> Busy \cup {Idle, Storing}] /\ StageKnown'
  <1> DEFINE new == [job[w] EXCEPT !.pc = pc]
  <1>1. new \in Busy /\ new.pc # "write"
    BY DEF Busy
  <1>2. job' = [job EXCEPT ![w] = new]
    BY DEF Step
  <1> QED
    BY <1>1, <1>2, JobType, StageKnownKept DEF TypeInv

LEMMA TypeExpire ==
  ASSUME TypeInv, NEW w \in Workers, ExpireUnpaid(w)
  PROVE  TypeInv'
  <1> DEFINE row == job[w].row
             new == [job[w] EXCEPT !.pc = "verify", !.row = Expired(row)]
  <1>1. job[w] \in Busy /\ row \in Snapshot
    BY BusyType, IdleJob DEF ExpireUnpaid, TypeInv
  <1>2. Expired(row) \in Snapshot
    BY <1>1 DEF Expired, Snapshot, Status, Terminal, PayState
  <1>3. order' \in Row
    BY <1>2, RestoredType DEF ExpireUnpaid, Row, Causes, TypeInv
  <1>4. job' \in [Workers -> Busy \cup {Idle, Storing}] /\ StageKnown'
    <2>1. CASE Finish(w)
      BY <2>1, TypeFinish
    <2>2. CASE ~Finish(w)
      <3>1. job' = [job EXCEPT ![w] = new]
        BY <2>2 DEF ExpireUnpaid
      <3>2. new \in Busy /\ new.pc # "write"
        BY <1>1, <1>2 DEF Busy, Pcs
      <3> QED
        BY <3>1, <3>2, JobType, StageKnownKept DEF TypeInv
    <2> QED
      BY <2>1, <2>2
  <1> QED
    BY <1>3, <1>4 DEF ExpireUnpaid, TypeInv, TypeOK

\* The writes that end a request leave a row behind.
LEMMA TypeWrite ==
  ASSUME TypeInv, NEW w \in Workers,
         \/ CancelOrder(w) \/ SyncPayment(w) \/ PartnerCommit(w) \/ DispatchCommit(w)
         \/ WebhookForce(w) \/ WebhookLate(w)
         \/ FlagUnaccepted(w) \/ TimeOutUnaccepted(w) \/ ReleaseScheduled(w)
  PROVE  TypeInv'
  <1> DEFINE row == job[w].row
             op  == job[w].op
  <1>1. job[w] \in Busy /\ row \in Snapshot /\ op \in Ops
    BY BusyType, IdleJob
    DEF CancelOrder, SyncPayment, PartnerCommit, DispatchCommit, WebhookForce, WebhookLate,
        FlagUnaccepted, TimeOutUnaccepted, ReleaseScheduled, TypeInv
  <1>2. /\ Restored(row) \in Row /\ order \in Row
        /\ row.pay \in PayState /\ row.captured \in BOOLEAN
        /\ row.status \in Status /\ row.escFrom \in Status \cup {"none"}
    BY <1>1, RestoredType DEF Snapshot, TypeInv, TypeOK
  <1>3. Refund(row) \in PayState
    BY <1>2 DEF Refund, PayState
  <1>4. Finish(w) \/ Store(w)
    BY DEF CancelOrder, SyncPayment, PartnerCommit, DispatchCommit, WebhookForce, WebhookLate,
           FlagUnaccepted, TimeOutUnaccepted, ReleaseScheduled
  <1>5. job' \in [Workers -> Busy \cup {Idle, Storing}] /\ StageKnown'
    BY <1>4, TypeFinish
  <1>6. CASE CancelOrder(w)
    <2>1. order' \in Row
      BY <1>2, <1>3, <1>6 DEF CancelOrder, Row, Status, Terminal, Causes
    <2> QED
      BY <1>5, <1>6, <2>1 DEF CancelOrder, TypeInv, TypeOK
  <1>7. CASE SyncPayment(w)
    <2>1. PaymentFor(job[w].answer) \in PayState
      BY DEF PaymentFor, PayState
    <2>2. (job[w].answer = "success" \/ row.captured) \in BOOLEAN
      BY <1>2
    <2>3. order' \in Row
      BY <1>2, <1>7, <2>1, <2>2 DEF SyncPayment, Row
    <2> QED
      BY <1>5, <1>7, <2>3 DEF SyncPayment, TypeInv, TypeOK
  <1>8. CASE PartnerCommit(w)
    <2>1. Target(op, row) \in Status
      BY <1>8 DEF PartnerCommit, PartnerOps, Target, Status, Terminal, Live
    <2>2. order' \in Row
      BY <1>2, <1>8, <2>1 DEF PartnerCommit, Row
    <2> QED
      BY <1>5, <1>8, <2>2 DEF PartnerCommit, TypeInv, TypeOK
  <1>9. CASE DispatchCommit(w)
    <2>1. op = "resolve_escalation" => row.escFrom \in Status
      BY <1>9 DEF DispatchCommit, TypeInv, StageKnown
    <2>2. Target(op, row) \in Status
      BY <1>9, <2>1 DEF DispatchCommit, DispatchOps, CourierOps, Target, Status, Terminal, Live
    <2>3. StageKept(op, row) \in Status \cup {"none"}
      BY <1>2 DEF StageKept
    <2>4. order' \in Row
      BY <1>2, <1>3, <1>9, <2>2, <2>3 DEF DispatchCommit, Row, Causes
    <2> QED
      BY <1>5, <1>9, <2>4 DEF DispatchCommit, TypeInv, TypeOK
  <1>10. CASE WebhookForce(w)
    <2>1. order' \in Row
      BY <1>2, <1>10 DEF WebhookForce, Advanced, Row, Status, Live, PayState
    <2> QED
      BY <1>5, <1>10, <2>1 DEF WebhookForce, TypeInv, TypeOK
  <1>11. CASE WebhookLate(w)
    <2>1. order' \in Row
      BY <1>2, <1>11 DEF WebhookLate, Row, PayState
    <2> QED
      BY <1>5, <1>11, <2>1 DEF WebhookLate, TypeInv, TypeOK
  <1>12. CASE FlagUnaccepted(w)
    <2>1. order' \in Row
      BY <1>2, <1>12 DEF FlagUnaccepted, Row
    <2> QED
      BY <1>5, <1>12, <2>1 DEF FlagUnaccepted, TypeInv, TypeOK
  <1>13. CASE TimeOutUnaccepted(w)
    <2>1. order' \in Row
      BY <1>2, <1>3, <1>13 DEF TimeOutUnaccepted, Row, Status, Terminal, Causes
    <2> QED
      BY <1>5, <1>13, <2>1 DEF TimeOutUnaccepted, TypeInv, TypeOK
  <1>14. CASE ReleaseScheduled(w)
    <2>1. order' \in Row
      BY <1>2, <1>14 DEF ReleaseScheduled, Row, Status, Live
    <2>2. inPlaced' \in 0..MaxAge
      BY <1>14, ClockAssumption DEF ReleaseScheduled, TypeInv, TypeOK
    <2> QED
      BY <1>5, <1>14, <2>1, <2>2 DEF ReleaseScheduled, TypeInv, TypeOK
  <1> QED
    BY <1>6, <1>7, <1>8, <1>9, <1>10, <1>11, <1>12, <1>13, <1>14

\* The steps of a request before its last write.
LEMMA TypeRead ==
  ASSUME TypeInv, NEW w \in Workers,
         \/ VerifyForRefresh(w) \/ WebhookArrives(w) \/ WebhookVerify(w) \/ WebhookAdvance(w)
         \/ WebhookReload(w) \/ WebhookRecord(w) \/ AcceptanceSweepReads(w)
         \/ ReleaseSweepReads(w) \/ Abort(w)
  PROVE  TypeInv'
  <1> USE DEF TypeInv
  <1>0. Seen \in Snapshot
    BY SeenType
  <1>1. CASE VerifyForRefresh(w)
    <2>1. PICK a \in Answers : job' = [job EXCEPT ![w].pc = "sync", ![w].answer = a]
      BY <1>1 DEF VerifyForRefresh
    <2> DEFINE new == [job[w] EXCEPT !.pc = "sync", !.answer = a]
    <2>2. job[w] \in Busy
      BY <1>1, BusyType, IdleJob DEF VerifyForRefresh
    <2>3. a \in {"none", "success", "failed", "pending"}
      BY DEF Answers
    <2>4. new \in Busy /\ new.pc # "write"
      BY <2>2, <2>3 DEF Busy, Pcs
    <2>5. job' = [job EXCEPT ![w] = new]
      BY <2>1
    <2>6. job' \in [Workers -> Busy \cup {Idle, Storing}] /\ StageKnown'
      BY <2>4, <2>5, JobType, StageKnownKept
    <2> QED
      BY <1>1, <2>6 DEF VerifyForRefresh, TypeOK
  <1>2. CASE WebhookArrives(w)
    <2> DEFINE new == [op |-> "webhook", pc |-> "verify", row |-> Seen, answer |-> "none"]
    <2>1. new \in Busy /\ new.pc # "write"
      BY <1>0 DEF Busy, Pcs, Ops
    <2>2. CASE order.pay = "paid"
      BY <1>2, <2>2, TypeFinish DEF WebhookArrives, TypeOK
    <2>3. CASE order.pay # "paid"
      <3>1. job' \in [Workers -> Busy \cup {Idle, Storing}] /\ StageKnown'
        BY <1>2, <2>1, <2>3, JobType, StageKnownKept DEF WebhookArrives
      <3> QED
        BY <1>2, <2>3, <3>1 DEF WebhookArrives, TypeOK
    <2> QED
      BY <2>2, <2>3
  <1>3. CASE WebhookVerify(w)
    <2>1. job[w] \in Busy
      BY <1>3, BusyType, IdleJob DEF WebhookVerify
    <2>2. {"advance", "late"} \subseteq Pcs \ {"write"}
      BY DEF Pcs
    <2>3. Step(w, "advance") \/ Step(w, "late") \/ Finish(w)
      BY <1>3 DEF WebhookVerify
    <2>4. job' \in [Workers -> Busy \cup {Idle, Storing}] /\ StageKnown'
      BY <2>1, <2>2, <2>3, TypeStep, TypeFinish
    <2> QED
      BY <1>3, <2>4 DEF WebhookVerify, TypeOK
  <1>4. CASE WebhookAdvance(w)
    <2>1. job[w] \in Busy /\ job[w].row \in Snapshot
      BY <1>4, BusyType, IdleJob DEF WebhookAdvance
    <2>2. CASE Awaiting
      <3>1. order' \in Row
        BY <1>4, <2>1, <2>2, RestoredType
        DEF WebhookAdvance, Advanced, Row, Status, Live, PayState
      <3>2. job' \in [Workers -> Busy \cup {Idle, Storing}] /\ StageKnown'
        BY <1>4, <2>2, TypeFinish DEF WebhookAdvance
      <3> QED
        BY <1>4, <2>2, <3>1, <3>2 DEF WebhookAdvance, TypeOK
    <2>3. CASE ~Awaiting
      <3>1. job' \in [Workers -> Busy \cup {Idle, Storing}] /\ StageKnown'
        BY <1>4, <2>1, <2>3, TypeStep DEF WebhookAdvance, Pcs
      <3> QED
        BY <1>4, <2>3, <3>1 DEF WebhookAdvance, TypeOK
    <2> QED
      BY <2>2, <2>3
  <1>5. CASE WebhookReload(w)
    <2> DEFINE new == [job[w] EXCEPT !.row = Seen, !.pc = IF Awaiting THEN "force" ELSE "late"]
    <2>1. new \in Busy /\ new.pc # "write"
      BY <1>0, <1>5, BusyType, IdleJob DEF WebhookReload, Busy, Pcs
    <2>2. job' = [job EXCEPT ![w] = new]
      BY <1>5 DEF WebhookReload
    <2>3. job' \in [Workers -> Busy \cup {Idle, Storing}] /\ StageKnown'
      BY <2>1, <2>2, JobType, StageKnownKept
    <2> QED
      BY <1>5, <2>3 DEF WebhookReload, TypeOK
  <1>6. CASE AcceptanceSweepReads(w)
    <2> DEFINE new == [op |-> "acceptance_sweep", row |-> Seen, answer |-> "none",
                       pc |-> IF PlacedAge(order) >= 2 THEN "time_out" ELSE "flag"]
    <2>1. new \in Busy /\ new.pc # "write"
      BY <1>0 DEF Busy, Pcs, Ops
    <2>2. job' = [job EXCEPT ![w] = new]
      BY <1>6 DEF AcceptanceSweepReads
    <2>3. job' \in [Workers -> Busy \cup {Idle, Storing}] /\ StageKnown'
      BY <2>1, <2>2, JobType, StageKnownKept
    <2> QED
      BY <1>6, <2>3 DEF AcceptanceSweepReads, TypeOK
  <1>7. CASE ReleaseSweepReads(w)
    <2> DEFINE new == [op |-> "release_sweep", pc |-> "release", row |-> Seen, answer |-> "none"]
    <2>1. new \in Busy /\ new.pc # "write"
      BY <1>0 DEF Busy, Pcs, Ops
    <2>2. job' = [job EXCEPT ![w] = new]
      BY <1>7 DEF ReleaseSweepReads
    <2>3. job' \in [Workers -> Busy \cup {Idle, Storing}] /\ StageKnown'
      BY <2>1, <2>2, JobType, StageKnownKept
    <2> QED
      BY <1>7, <2>3 DEF ReleaseSweepReads, TypeOK
  <1>8. CASE Abort(w) \/ WebhookRecord(w)
    BY <1>8, TypeFinish DEF Abort, WebhookRecord, TypeOK
  <1> QED
    BY <1>1, <1>2, <1>3, <1>4, <1>5, <1>6, <1>7, <1>8

\* The steps that belong to no worker.
LEMMA TypeOutside ==
  ASSUME TypeInv,
         \/ AssignCourier \/ CheckoutInitialized \/ CheckoutAnswered \/ CheckoutFailed
         \/ CustomerPays \/ GatewayReverses \/ PageShifts \/ Tick
  PROVE  TypeInv'
  <1> USE DEF TypeInv
  <1>1. CASE AssignCourier
    BY <1>1 DEF AssignCourier, TypeOK, StageKnown
  <1>2. CASE CheckoutInitialized
    <2>1. order' \in Row
      BY <1>2 DEF CheckoutInitialized, TypeOK, Row, PayState
    <2> QED
      BY <1>2, <2>1 DEF CheckoutInitialized, TypeOK, Charges, StageKnown
  <1>3. CASE CheckoutFailed
    <2>1. order' \in Row
      BY <1>3 DEF CheckoutFailed, TypeOK, Row, PayState, Status, Terminal, Causes
    <2> QED
      BY <1>3, <2>1 DEF CheckoutFailed, TypeOK, Charges, StageKnown
  <1>4. CASE CheckoutAnswered \/ CustomerPays \/ GatewayReverses
    BY <1>4 DEF CheckoutAnswered, CustomerPays, GatewayReverses, TypeOK, Charges, StageKnown
  <1>5. CASE Tick
    <2>1. age' \in 0..MaxAge /\ inPlaced' \in 0..MaxAge
      BY <1>5, ClockAssumption DEF Tick, Later, TypeOK
    <2> QED
      BY <1>5, <2>1 DEF Tick, TypeOK, StageKnown
  <1>6. CASE PageShifts
    BY <1>6 DEF PageShifts, TypeOK, StageKnown
  <1> QED
    BY <1>1, <1>2, <1>3, <1>4, <1>5, <1>6

LEMMA TypeNext == TypeInv /\ [Next]_vars => TypeInv'
  <1> SUFFICES ASSUME TypeInv, [Next]_vars PROVE TypeInv'
    OBVIOUS
  <1>1. CASE UNCHANGED vars
    BY <1>1 DEF vars, TypeInv, TypeOK, StageKnown
  <1>2. ASSUME NEW w \in Workers, WorkerStep(w) PROVE TypeInv'
    BY <1>2, TypeLoad, TypeExpire, TypeWrite, TypeRead DEF WorkerStep
  <1>3. CASE ~(\E w \in Workers : WorkerStep(w)) /\ Next
    BY <1>3, TypeOutside DEF Next
  <1> QED
    BY <1>1, <1>2, <1>3 DEF Next

\* The row, the clocks and every request in flight keep their shape, whatever the
\* handlers are and however many run at once.
THEOREM TypeCorrect == Spec => []TypeOK
  <1>1. Spec => []TypeInv
    BY TypeInit, TypeNext, PTL DEF Spec
  <1>2. TypeInv => TypeOK
    BY DEF TypeInv
  <1> QED
    BY <1>1, <1>2, PTL

-----------------------------------------------------------------------------
(* Money before food.  The guards run on snapshots, so the invariant is not  *)
(* inductive on the row alone: every snapshot in flight must be as honest as *)
(* the row, every answer must be the gateway's, and a staff write that was   *)
(* admitted must still find the money there.                                 *)

\* A row, or a snapshot of one, that shows money only if the gateway holds it.
Honest(row, method, money) ==
  /\ row.pay \in {"paid", "refunded"} => money
  /\ row.captured => money
  /\ method = "card" /\ row.status \in Handed => money
  /\ method = "card" /\ row.escFrom \in Handed => money

HonestJob(j, method, money) ==
  /\ Honest(j.row, method, money)
  /\ j.answer = "success" => money
  /\ j.pc \in {"advance", "reload", "force", "late"} => money
  /\ j.pc = "write" /\ j.op \in StaffOps /\ method = "card" => money

HonestJobs ==
  \A w \in Workers :
    job[w] \in {Idle, Storing} \/ HonestJob(job[w], order.method, GatewayHasMoney)

HonestRow == Honest(order, order.method, GatewayHasMoney)

MoneyInv == TypeInv /\ HonestRow /\ HonestJobs

\* The gateway does not give up money (a reversal is recorded as one), and no handler
\* changes how an order is paid.
LEMMA MoneyStable ==
  ASSUME TypeInv, [Next]_vars
  PROVE  (GatewayHasMoney => GatewayHasMoney') /\ order'.method = order.method
  <1> USE DEF TypeInv
  <1>1. CASE UNCHANGED vars
    BY <1>1 DEF vars, GatewayHasMoney
  <1>2. ASSUME NEW w \in Workers, WorkerStep(w)
        PROVE  charge' = charge /\ order'.method = order.method
    <2>1. ASSUME NEW op \in BundleOps, LoadBundle(w, op)
          PROVE  charge' = charge /\ order' = order
      BY <2>1 DEF LoadBundle
    <2>2. CASE \/ Abort(w) \/ VerifyForRefresh(w) \/ WebhookArrives(w) \/ WebhookVerify(w)
               \/ WebhookReload(w) \/ WebhookRecord(w) \/ AcceptanceSweepReads(w)
               \/ ReleaseSweepReads(w)
      BY <2>2 DEF Abort, VerifyForRefresh, WebhookArrives, WebhookVerify, WebhookReload,
                  WebhookRecord, AcceptanceSweepReads, ReleaseSweepReads
    <2>3. CASE \/ ExpireUnpaid(w) \/ CancelOrder(w) \/ PartnerCommit(w) \/ DispatchCommit(w)
               \/ WebhookAdvance(w) \/ WebhookForce(w) \/ WebhookLate(w)
               \/ TimeOutUnaccepted(w)
      <3>1. order \in Row
        BY DEF TypeOK
      <3> QED
        BY <2>3, <3>1 DEF ExpireUnpaid, CancelOrder, PartnerCommit, DispatchCommit, WebhookAdvance,
                          WebhookForce, WebhookLate, TimeOutUnaccepted, Advanced, Restored, Row
    <2>4. CASE SyncPayment(w) \/ FlagUnaccepted(w) \/ ReleaseScheduled(w)
      BY <2>4 DEF SyncPayment, FlagUnaccepted, ReleaseScheduled, TypeOK, Row
    <2> QED
      BY <1>2, <2>1, <2>2, <2>3, <2>4 DEF WorkerStep
  <1>3. CASE \/ AssignCourier \/ CheckoutAnswered \/ CustomerPays \/ GatewayReverses
             \/ PageShifts \/ Tick
    BY <1>3 DEF AssignCourier, CheckoutAnswered, CustomerPays, GatewayReverses, PageShifts,
                Tick, GatewayHasMoney
  <1>4. CASE CheckoutInitialized \/ CheckoutFailed
    BY <1>4 DEF CheckoutInitialized, CheckoutFailed, GatewayHasMoney, TypeOK, Row
  <1> QED
    BY <1>1, <1>2, <1>3, <1>4 DEF Next, GatewayHasMoney

\* What was honest stays honest while the money does.
LEMMA HonestKept ==
  ASSUME TypeInv, [Next]_vars
  PROVE  /\ \A row : Honest(row, order.method, GatewayHasMoney)
                     => Honest(row, order'.method, GatewayHasMoney')
         /\ \A j : HonestJob(j, order.method, GatewayHasMoney)
                   => HonestJob(j, order'.method, GatewayHasMoney')
  BY MoneyStable DEF Honest, HonestJob

\* One worker's new job is all that HonestJobs depends on.
LEMMA HonestJobsKept ==
  ASSUME MoneyInv, [Next]_vars, NEW w \in Workers, NEW new,
         job' = [job EXCEPT ![w] = new],
         new \in {Idle, Storing} \/ HonestJob(new, order.method, GatewayHasMoney)
  PROVE  HonestJobs'
  <1>1. ASSUME NEW v \in Workers
        PROVE  \/ job'[v] \in {Idle, Storing}
               \/ HonestJob(job'[v], order.method, GatewayHasMoney)
    BY <1>1 DEF MoneyInv, TypeInv, TypeOK, HonestJobs
  <1> QED
    BY <1>1, HonestKept DEF HonestJobs, MoneyInv

LEMMA HonestFinish ==
  ASSUME MoneyInv, [Next]_vars, NEW w \in Workers, Finish(w) \/ Store(w)
  PROVE  HonestJobs'
  BY HonestJobsKept DEF Finish, Store

\* The columns a worker writes back are as honest as the snapshot it holds.
LEMMA HonestRestored ==
  ASSUME MoneyInv, NEW w \in Workers, job[w] \notin {Idle, Storing}
  PROVE  /\ HonestJob(job[w], order.method, GatewayHasMoney)
         /\ Honest(job[w].row, order.method, GatewayHasMoney)
         /\ Honest(Restored(job[w].row), order.method, GatewayHasMoney)
  <1>1. HonestJob(job[w], order.method, GatewayHasMoney)
    BY DEF MoneyInv, HonestJobs
  <1>2. Honest(job[w].row, order.method, GatewayHasMoney)
    BY <1>1 DEF HonestJob
  <1>3. job[w].row \in Snapshot
    BY BusyType DEF MoneyInv, TypeInv
  <1> QED
    BY <1>1, <1>2, <1>3, RestoredType DEF Honest, MoneyInv, TypeInv

LEMMA MoneyInit == Init => MoneyInv
  <1> SUFFICES ASSUME Init PROVE MoneyInv
    OBVIOUS
  <1>1. TypeInv
    BY TypeInit
  <1>2. order.pay = "pending" /\ order.captured = FALSE /\ order.escFrom = "none"
        /\ order.status \in {"placed", "scheduled"}
    BY StartsAssumption DEF Init
  <1>3. HonestRow
    BY <1>2 DEF HonestRow, Honest, Handed
  <1>4. HonestJobs
    BY DEF Init, HonestJobs
  <1> QED
    BY <1>1, <1>3, <1>4 DEF MoneyInv

LEMMA MoneyLoad ==
  ASSUME MoneyInv, [Next]_vars, NEW w \in Workers, NEW op \in BundleOps, LoadBundle(w, op)
  PROVE  HonestRow' /\ HonestJobs'
  <1> DEFINE new == [op |-> op, row |-> Seen, answer |-> "none",
                     pc |-> IF Expirable(order) THEN "expire"
                            ELSE IF op = "refresh" THEN "verify" ELSE "write"]
  <1>1. HonestRow'
    BY HonestKept DEF LoadBundle, HonestRow, MoneyInv
  <1>2. Honest(Seen, order.method, GatewayHasMoney)
    BY DEF MoneyInv, HonestRow, Honest, Seen
  <1>3. ASSUME new.pc = "write", op \in StaffOps, order.method = "card"
        PROVE  GatewayHasMoney
    <2>1. Admit(op, order)
      BY <1>3 DEF LoadBundle
    <2>2. PartnerAdmits(op, order) \/ DispatchAdmits(op, order)
      BY <1>3, <2>1 DEF Admit, StaffOps, PartnerOps, DispatchOps, CourierOps
    <2>3. Visible(order) /\ order.status \notin Terminal
      <3>1. CASE PartnerAdmits(op, order)
        BY <3>1 DEF PartnerAdmits, PartnerFrom, PartnerOps, Terminal
      <3>2. CASE DispatchAdmits(op, order)
        BY <3>2 DEF DispatchAdmits, DispatchFrom, DispatchOps, CourierOps, Terminal, Live
      <3> QED
        BY <2>2, <3>1, <3>2
    <2>4. order.pay = "paid"
      BY <1>3, <2>3 DEF Visible
    <2> QED
      BY <2>4 DEF MoneyInv, HonestRow, Honest
  <1>4. HonestJob(new, order.method, GatewayHasMoney)
    BY <1>2, <1>3 DEF HonestJob
  <1>5. job' = [job EXCEPT ![w] = new]
    BY DEF LoadBundle
  <1>6. HonestJobs'
    BY <1>4, <1>5, HonestJobsKept
  <1> QED
    BY <1>1, <1>6

\* A row whose columns are honest is honest after the step too.
LEMMA HonestWrite ==
  ASSUME MoneyInv, [Next]_vars, Honest(order', order.method, GatewayHasMoney)
  PROVE  HonestRow'
  BY HonestKept DEF HonestRow, MoneyInv

LEMMA MoneyExpire ==
  ASSUME MoneyInv, [Next]_vars, NEW w \in Workers, ExpireUnpaid(w)
  PROVE  HonestRow' /\ HonestJobs'
  <1> DEFINE row == job[w].row
             new == [job[w] EXCEPT !.pc = "verify", !.row = Expired(row)]
  <1>1. job[w] \in Busy /\ row \in Snapshot /\ job[w] \notin {Idle, Storing}
    BY BusyType, IdleJob DEF ExpireUnpaid, MoneyInv, TypeInv
  <1>2. /\ HonestJob(job[w], order.method, GatewayHasMoney)
        /\ Honest(row, order.method, GatewayHasMoney)
    BY <1>1, HonestRestored
  <1>3. Expired(row) \in Snapshot /\ Expired(row).pay = "failed"
        /\ Expired(row).status = "cancelled" /\ Expired(row).captured = row.captured
        /\ Expired(row).escFrom = row.escFrom
    BY <1>1 DEF Expired, Snapshot, Status, Terminal, PayState
  <1>4. Honest(Expired(row), order.method, GatewayHasMoney)
    BY <1>2, <1>3 DEF Honest, Handed
  <1>5. HonestRow'
    <2>1. Restored(Expired(row)) \in Row
      BY <1>3, RestoredType DEF MoneyInv, TypeInv
    <2>2. order'.pay = "failed" /\ order'.status = "cancelled"
          /\ order'.captured = row.captured /\ order'.escFrom = row.escFrom
      BY <1>3, <2>1, RestoredType DEF ExpireUnpaid, MoneyInv, TypeInv, Row
    <2> QED
      BY <1>2, <2>2, HonestWrite DEF Honest, Handed
  <1>6. HonestJobs'
    <2>1. CASE Finish(w)
      BY <2>1, HonestFinish
    <2>2. CASE ~Finish(w)
      <3>1. job' = [job EXCEPT ![w] = new]
        BY <2>2 DEF ExpireUnpaid
      <3>2. new.pc = "verify" /\ new.row = Expired(row) /\ new.answer = job[w].answer
        BY <1>1 DEF Busy
      <3>3. HonestJob(new, order.method, GatewayHasMoney)
        BY <1>2, <1>4, <3>2 DEF HonestJob
      <3> QED
        BY <3>1, <3>3, HonestJobsKept
    <2> QED
      BY <2>1, <2>2
  <1> QED
    BY <1>5, <1>6

\* The writes that end a request.
LEMMA MoneyWrite ==
  ASSUME MoneyInv, [Next]_vars, NEW w \in Workers,
         \/ CancelOrder(w) \/ SyncPayment(w) \/ PartnerCommit(w) \/ DispatchCommit(w)
         \/ WebhookForce(w) \/ WebhookLate(w)
         \/ FlagUnaccepted(w) \/ TimeOutUnaccepted(w) \/ ReleaseScheduled(w)
  PROVE  HonestRow' /\ HonestJobs'
  <1> DEFINE row == job[w].row
             op  == job[w].op
             old == Restored(row)
  <1>1. job[w] \notin {Idle, Storing}
    BY IdleJob
    DEF CancelOrder, SyncPayment, PartnerCommit, DispatchCommit, WebhookForce, WebhookLate,
        FlagUnaccepted, TimeOutUnaccepted, ReleaseScheduled
  <1>2. /\ HonestJob(job[w], order.method, GatewayHasMoney)
        /\ Honest(row, order.method, GatewayHasMoney)
        /\ Honest(old, order.method, GatewayHasMoney)
        /\ Honest(order, order.method, GatewayHasMoney)
    BY <1>1, HonestRestored DEF MoneyInv, HonestRow
  <1>3. old \in Row /\ order \in Row /\ row \in Snapshot
    BY <1>1, BusyType, RestoredType DEF MoneyInv, TypeInv, TypeOK
  <1>4. HonestJobs'
    BY HonestFinish
    DEF CancelOrder, SyncPayment, PartnerCommit, DispatchCommit, WebhookForce, WebhookLate,
        FlagUnaccepted, TimeOutUnaccepted, ReleaseScheduled
  <1>5. Refund(row) \in {"paid", "refunded"} => GatewayHasMoney
    BY <1>2 DEF Refund, Honest
  <1>6. CASE CancelOrder(w)
    <2>1. /\ order'.status = "cancelled" /\ order'.pay = Refund(row)
          /\ order'.captured = old.captured /\ order'.escFrom = old.escFrom
      BY <1>3, <1>6 DEF CancelOrder, Row
    <2> QED
      BY <1>2, <1>4, <1>5, <2>1, HonestWrite DEF Honest, Handed
  <1>7. CASE SyncPayment(w)
    <2>1. /\ order'.status = order.status /\ order'.pay = PaymentFor(job[w].answer)
          /\ order'.captured = (job[w].answer = "success" \/ row.captured)
          /\ order'.escFrom = order.escFrom
      BY <1>3, <1>7 DEF SyncPayment, Row
    <2>2. PaymentFor(job[w].answer) \in {"paid", "refunded"} => GatewayHasMoney
      BY <1>2 DEF PaymentFor, HonestJob
    <2>3. order'.captured => GatewayHasMoney
      BY <1>2, <2>1 DEF HonestJob, Honest
    <2> QED
      BY <1>2, <1>4, <2>1, <2>2, <2>3, HonestWrite DEF Honest
  <1>8. CASE PartnerCommit(w)
    <2>1. order.method = "card" => GatewayHasMoney
      BY <1>2, <1>8 DEF PartnerCommit, HonestJob, StaffOps
    <2>2. order'.pay \in {old.pay, order.pay} /\ order'.captured \in {old.captured, order.captured}
      BY <1>3, <1>8 DEF PartnerCommit, Row
    <2> QED
      BY <1>2, <1>4, <2>1, <2>2, HonestWrite DEF Honest
  <1>9. CASE DispatchCommit(w)
    <2>1. order.method = "card" => GatewayHasMoney
      BY <1>2, <1>9 DEF DispatchCommit, HonestJob, StaffOps
    <2>2. /\ order'.pay \in {old.pay, order.pay, Refund(row)}
          /\ order'.captured \in {old.captured, order.captured}
      BY <1>3, <1>9 DEF DispatchCommit, Row
    <2> QED
      BY <1>2, <1>4, <1>5, <2>1, <2>2, HonestWrite DEF Honest
  <1>10. CASE WebhookForce(w) \/ WebhookLate(w)
    BY <1>2, <1>4, <1>10, HonestWrite DEF WebhookForce, WebhookLate, HonestJob, Honest
  <1>11. CASE FlagUnaccepted(w)
    <2>1. /\ order'.status = order.status /\ order'.pay = order.pay
          /\ order'.captured = order.captured /\ order'.escFrom = order.escFrom
      BY <1>3, <1>11 DEF FlagUnaccepted, Row
    <2> QED
      BY <1>2, <1>4, <2>1, HonestWrite DEF Honest
  <1>12. CASE TimeOutUnaccepted(w)
    <2>1. CASE StillPlaced
      <3>1. /\ order'.status = "cancelled" /\ order'.pay = Refund(row)
            /\ order'.captured = old.captured /\ order'.escFrom = old.escFrom
        BY <1>3, <1>12, <2>1 DEF TimeOutUnaccepted, Row
      <3> QED
        BY <1>2, <1>4, <1>5, <3>1, HonestWrite DEF Honest, Handed
    <2>2. CASE ~StillPlaced
      BY <1>2, <1>4, <1>12, <2>2, HonestWrite DEF TimeOutUnaccepted
    <2> QED
      BY <2>1, <2>2
  <1>13. CASE ReleaseScheduled(w)
    <2>1. CASE order.status = "scheduled"
      <3>1. /\ order'.status = "placed" /\ order'.pay = order.pay
            /\ order'.captured = order.captured /\ order'.escFrom = row.escFrom
        BY <1>3, <1>13, <2>1 DEF ReleaseScheduled, Row
      <3> QED
        BY <1>2, <1>4, <3>1, HonestWrite DEF Honest, Handed
    <2>2. CASE order.status # "scheduled"
      BY <1>2, <1>4, <1>13, <2>2, HonestWrite DEF ReleaseScheduled
    <2> QED
      BY <2>1, <2>2
  <1> QED
    BY <1>6, <1>7, <1>8, <1>9, <1>10, <1>11, <1>12, <1>13

\* The steps of a request before its last write: the webhook goes on only with the
\* gateway's word for the money, and every snapshot is one of an honest row.
LEMMA MoneyRead ==
  ASSUME MoneyInv, [Next]_vars, NEW w \in Workers,
         \/ VerifyForRefresh(w) \/ WebhookArrives(w) \/ WebhookVerify(w) \/ WebhookAdvance(w)
         \/ WebhookReload(w) \/ WebhookRecord(w) \/ AcceptanceSweepReads(w)
         \/ ReleaseSweepReads(w) \/ Abort(w)
  PROVE  HonestRow' /\ HonestJobs'
  <1>1. /\ Honest(order, order.method, GatewayHasMoney)
        /\ Honest(Seen, order.method, GatewayHasMoney)
    BY DEF MoneyInv, HonestRow, Honest, Seen
  <1>2. order' = order => HonestRow'
    BY <1>1, HonestWrite
  <1>3. CASE VerifyForRefresh(w)
    <2>1. PICK a \in Answers : job' = [job EXCEPT ![w].pc = "sync", ![w].answer = a]
      BY <1>3 DEF VerifyForRefresh
    <2> DEFINE new == [job[w] EXCEPT !.pc = "sync", !.answer = a]
    <2>2. job[w] \in Busy /\ job[w] \notin {Idle, Storing}
      BY <1>3, BusyType, IdleJob DEF VerifyForRefresh, MoneyInv, TypeInv
    <2>3. a = "success" => GatewayHasMoney
      BY DEF Answers, GatewayHasMoney
    <2>4. new.pc = "sync" /\ new.answer = a /\ new.row = job[w].row
      BY <2>2 DEF Busy
    <2>5. HonestJob(new, order.method, GatewayHasMoney)
      BY <2>2, <2>3, <2>4, HonestRestored DEF HonestJob
    <2>6. job' = [job EXCEPT ![w] = new]
      BY <2>1
    <2> QED
      BY <1>2, <1>3, <2>5, <2>6, HonestJobsKept DEF VerifyForRefresh
  <1>4. CASE WebhookArrives(w)
    <2> DEFINE new == [op |-> "webhook", pc |-> "verify", row |-> Seen, answer |-> "none"]
    <2>1. CASE order.pay = "paid"
      BY <1>2, <1>4, <2>1, HonestFinish DEF WebhookArrives
    <2>2. CASE order.pay # "paid"
      <3>1. HonestJob(new, order.method, GatewayHasMoney)
        BY <1>1 DEF HonestJob
      <3>2. job' = [job EXCEPT ![w] = new]
        BY <1>4, <2>2 DEF WebhookArrives
      <3> QED
        BY <1>2, <1>4, <3>1, <3>2, HonestJobsKept DEF WebhookArrives
    <2> QED
      BY <2>1, <2>2
  <1>5. CASE WebhookVerify(w) \/ (WebhookAdvance(w) /\ ~Awaiting)
    <2>1. order' = order
      BY <1>5 DEF WebhookVerify, WebhookAdvance
    <2>2. job[w] \in Busy /\ job[w] \notin {Idle, Storing}
      BY <1>5, BusyType, IdleJob DEF WebhookVerify, WebhookAdvance, MoneyInv, TypeInv
    <2>3. HonestJob(job[w], order.method, GatewayHasMoney)
      BY <2>2, HonestRestored
    <2>4. CASE Finish(w)
      BY <1>2, <2>1, <2>4, HonestFinish
    <2>5. CASE ~Finish(w)
      <3>1. PICK pc \in {"advance", "late", "reload"} : Step(w, pc)
        BY <1>5, <2>5 DEF WebhookVerify, WebhookAdvance
      <3>2. GatewayHasMoney
        BY <1>5, <2>3, <2>5 DEF WebhookVerify, WebhookAdvance, GatewayHasMoney, HonestJob
      <3> DEFINE new == [job[w] EXCEPT !.pc = pc]
      <3>3. new.pc = pc /\ new.row = job[w].row /\ new.answer = job[w].answer
        BY <2>2 DEF Busy
      <3>4. HonestJob(new, order.method, GatewayHasMoney)
        BY <2>3, <3>2, <3>3 DEF HonestJob
      <3>5. job' = [job EXCEPT ![w] = new]
        BY <3>1 DEF Step
      <3> QED
        BY <1>2, <2>1, <3>4, <3>5, HonestJobsKept
    <2> QED
      BY <2>4, <2>5
  <1>6. CASE WebhookAdvance(w) /\ Awaiting
    <2>1. job[w] \notin {Idle, Storing}
      BY <1>6, IdleJob DEF WebhookAdvance
    <2>2. GatewayHasMoney
      BY <1>6, <2>1, HonestRestored DEF WebhookAdvance, HonestJob
    <2>3. HonestRow'
      BY <2>2, HonestWrite DEF Honest
    <2> QED
      BY <1>6, <2>3, HonestFinish DEF WebhookAdvance
  <1>7. CASE WebhookReload(w)
    <2> DEFINE new == [job[w] EXCEPT !.row = Seen, !.pc = IF Awaiting THEN "force" ELSE "late"]
    <2>1. job[w] \in Busy /\ job[w] \notin {Idle, Storing}
      BY <1>7, BusyType, IdleJob DEF WebhookReload, MoneyInv, TypeInv
    <2>2. new.pc \in {"force", "late"} /\ new.row = Seen
      BY <2>1 DEF Busy
    <2>3. GatewayHasMoney
      BY <1>7, <2>1, HonestRestored DEF WebhookReload, HonestJob
    <2>4. HonestJob(new, order.method, GatewayHasMoney)
      BY <1>1, <2>2, <2>3 DEF HonestJob
    <2>5. job' = [job EXCEPT ![w] = new]
      BY <1>7 DEF WebhookReload
    <2> QED
      BY <1>2, <1>7, <2>4, <2>5, HonestJobsKept DEF WebhookReload
  <1>8. CASE AcceptanceSweepReads(w)
    <2> DEFINE new == [op |-> "acceptance_sweep", row |-> Seen, answer |-> "none",
                       pc |-> IF PlacedAge(order) >= 2 THEN "time_out" ELSE "flag"]
    <2>1. HonestJob(new, order.method, GatewayHasMoney)
      BY <1>1 DEF HonestJob
    <2>2. job' = [job EXCEPT ![w] = new]
      BY <1>8 DEF AcceptanceSweepReads
    <2> QED
      BY <1>2, <1>8, <2>1, <2>2, HonestJobsKept DEF AcceptanceSweepReads
  <1>9. CASE ReleaseSweepReads(w)
    <2> DEFINE new == [op |-> "release_sweep", pc |-> "release", row |-> Seen, answer |-> "none"]
    <2>1. HonestJob(new, order.method, GatewayHasMoney)
      BY <1>1 DEF HonestJob
    <2>2. job' = [job EXCEPT ![w] = new]
      BY <1>9 DEF ReleaseSweepReads
    <2> QED
      BY <1>2, <1>9, <2>1, <2>2, HonestJobsKept DEF ReleaseSweepReads
  <1>10. CASE Abort(w) \/ WebhookRecord(w)
    BY <1>2, <1>10, HonestFinish DEF Abort, WebhookRecord
  <1> QED
    BY <1>3, <1>4, <1>5, <1>6, <1>7, <1>8, <1>9, <1>10

LEMMA MoneyOutside ==
  ASSUME MoneyInv, [Next]_vars,
         \/ AssignCourier \/ CheckoutInitialized \/ CheckoutAnswered \/ CheckoutFailed
         \/ CustomerPays \/ GatewayReverses \/ PageShifts \/ Tick
  PROVE  HonestRow' /\ HonestJobs'
  <1>1. job' = job
    BY DEF AssignCourier, CheckoutInitialized, CheckoutAnswered, CheckoutFailed, CustomerPays,
           GatewayReverses, PageShifts, Tick
  <1>2. HonestJobs'
    BY <1>1, HonestKept DEF MoneyInv, HonestJobs
  <1>3. CASE \/ AssignCourier \/ CheckoutAnswered \/ CustomerPays \/ GatewayReverses
             \/ PageShifts \/ Tick
    BY <1>2, <1>3, HonestWrite
    DEF AssignCourier, CheckoutAnswered, CustomerPays, GatewayReverses, PageShifts, Tick,
        MoneyInv, HonestRow
  <1>4. CASE CheckoutInitialized \/ CheckoutFailed
    <2>1. order \in Row
      BY DEF MoneyInv, TypeInv, TypeOK
    <2>2. /\ order'.pay \in {"pending", "failed"} /\ order'.captured = FALSE
          /\ order'.status \in {order.status, "cancelled"}
          /\ order'.escFrom \in {order.escFrom, "none"}
      BY <1>4, <2>1 DEF CheckoutInitialized, CheckoutFailed, Row
    <2> QED
      BY <1>2, <2>2, HonestWrite DEF MoneyInv, HonestRow, Honest, Handed
  <1> QED
    BY <1>3, <1>4

LEMMA MoneyNext == MoneyInv /\ [Next]_vars => MoneyInv'
  <1> SUFFICES ASSUME MoneyInv, [Next]_vars PROVE MoneyInv'
    OBVIOUS
  <1>1. TypeInv'
    BY TypeNext DEF MoneyInv
  <1>2. CASE UNCHANGED vars
    BY <1>1, <1>2 DEF vars, MoneyInv, HonestRow, HonestJobs, GatewayHasMoney
  <1>3. ASSUME NEW w \in Workers, WorkerStep(w) PROVE HonestRow' /\ HonestJobs'
    BY <1>3, MoneyLoad, MoneyExpire, MoneyWrite, MoneyRead DEF WorkerStep
  <1>4. CASE ~(\E w \in Workers : WorkerStep(w)) /\ Next
    BY <1>1, <1>4, MoneyOutside DEF Next, MoneyInv
  <1> QED
    BY <1>1, <1>2, <1>3, <1>4 DEF Next, MoneyInv

\* However many requests overlap on stale reads, and wherever one of them dies, a card
\* order is in the kitchen's, a rider's or dispatch's hands only if the gateway took the
\* money: the check on the snapshot is enough, because money once taken stays taken.
THEOREM MoneyBeforeFood == Spec => []FoodNeedsMoney
  <1>1. Spec => []MoneyInv
    BY MoneyInit, MoneyNext, PTL DEF Spec
  <1>2. MoneyInv => FoodNeedsMoney
    BY DEF MoneyInv, HonestRow, Honest, FoodNeedsMoney
  <1> QED
    BY <1>1, <1>2, PTL

\* No interleaving of refreshes, webhooks, cancellations and sweeps leaves a row that
\* shows a payment or a refund of money the gateway never took.
THEOREM NoInventedPayment == Spec => []PaidMeansCaptured
  <1>1. Spec => []MoneyInv
    BY MoneyInit, MoneyNext, PTL DEF Spec
  <1>2. MoneyInv => PaidMeansCaptured
    BY DEF MoneyInv, HonestRow, Honest, PaidMeansCaptured
  <1> QED
    BY <1>1, <1>2, PTL

-----------------------------------------------------------------------------
(* How orders close, for every mix of handlers.  Only staff writes depend on *)
(* the snapshot's status, and they were admitted from a live one, which the  *)
(* compare-and-swap finds again.                                             *)

\* A staff write under way starts from a live status, and resolves to one.
Admitted ==
  \A w \in Workers :
    job[w].pc = "write" /\ job[w].op \in StaffOps =>
      /\ job[w].row.status \in Live
      /\ job[w].op = "resolve_escalation" => job[w].row.escFrom \notin Terminal

CloseInv == TypeInv /\ Admitted

\* What the guards on the snapshot admit.
LEMMA StaffAdmits ==
  ASSUME NEW op \in StaffOps, NEW row, Admit(op, row)
  PROVE  row.status \in Live /\ (op = "resolve_escalation" => row.escFrom \notin Terminal)
  <1>1. PartnerAdmits(op, row) \/ DispatchAdmits(op, row)
    BY DEF Admit, StaffOps, PartnerOps, DispatchOps, CourierOps
  <1>2. CASE PartnerAdmits(op, row)
    BY <1>2 DEF PartnerAdmits, PartnerOps, PartnerFrom, Live
  <1>3. CASE DispatchAdmits(op, row)
    BY <1>3 DEF DispatchAdmits, DispatchOps, CourierOps, DispatchFrom, Resolvable, Live
  <1> QED
    BY <1>1, <1>2, <1>3

\* Nothing but its load brings a request to its write.
LEMMA WriteKept ==
  ASSUME TypeInv, NEW w \in Workers, WorkerStep(w), ~\E op \in BundleOps : LoadBundle(w, op),
         NEW v \in Workers, job'[v].pc = "write"
  PROVE  job'[v] = job[v]
  <1> USE DEF TypeInv, TypeOK
  <1>1. job[w] \in Busy \/ job[w] \in {Idle, Storing}
    OBVIOUS
  <1>2. CASE v # w
    BY <1>2 DEF WorkerStep, ExpireUnpaid, Abort, CancelOrder, VerifyForRefresh, SyncPayment,
       PartnerCommit, DispatchCommit, WebhookArrives, WebhookVerify, WebhookAdvance,
       WebhookReload, WebhookForce, WebhookLate, WebhookRecord, AcceptanceSweepReads,
       FlagUnaccepted, TimeOutUnaccepted, ReleaseSweepReads, ReleaseScheduled, Finish, Step, Store
  <1>3. CASE v = w
    <2>1. CASE Finish(w) \/ Store(w)
      BY <1>3, <2>1 DEF Finish, Store, Idle, Storing
    <2>2. CASE VerifyForRefresh(w) \/ WebhookVerify(w) \/ WebhookAdvance(w) \/ WebhookReload(w)
      BY <1>1, <1>3, <2>1, <2>2
      DEF VerifyForRefresh, WebhookVerify, WebhookAdvance, WebhookReload, Step, Busy, Idle, Storing
    <2>3. CASE WebhookArrives(w) \/ AcceptanceSweepReads(w) \/ ReleaseSweepReads(w)
      BY <1>3, <2>1, <2>3 DEF WebhookArrives, AcceptanceSweepReads, ReleaseSweepReads
    <2>4. CASE ExpireUnpaid(w)
      BY <1>1, <1>3, <2>1, <2>4 DEF ExpireUnpaid, Busy, Idle, Storing
    <2> QED
      BY <2>1, <2>2, <2>3, <2>4
      DEF WorkerStep, Abort, CancelOrder, SyncPayment, PartnerCommit, DispatchCommit,
          WebhookForce, WebhookLate, WebhookRecord, FlagUnaccepted, TimeOutUnaccepted,
          ReleaseScheduled
  <1> QED
    BY <1>2, <1>3

LEMMA AdmittedStep ==
  ASSUME TypeInv, Admitted, NEW w \in Workers, WorkerStep(w)
  PROVE  Admitted'
  <1>1. CASE ~\E op \in BundleOps : LoadBundle(w, op)
    BY <1>1, WriteKept DEF Admitted
  <1>2. ASSUME NEW op \in BundleOps, LoadBundle(w, op) PROVE Admitted'
    <2> SUFFICES ASSUME NEW v \in Workers, job'[v].pc = "write", job'[v].op \in StaffOps
                 PROVE  /\ job'[v].row.status \in Live
                        /\ job'[v].op = "resolve_escalation" =>
                             job'[v].row.escFrom \notin Terminal
      BY DEF Admitted
    <2>1. CASE v # w
      BY <1>2, <2>1 DEF LoadBundle, Admitted, TypeInv, TypeOK
    <2>2. CASE v = w
      <3>1. /\ job'[w].row = Seen /\ job'[w].op = op
            /\ job'[w].pc = "write" => Admit(op, order)
        BY <1>2 DEF LoadBundle, TypeInv, TypeOK
      <3> QED
        BY <2>2, <3>1, StaffAdmits DEF Seen
    <2> QED
      BY <2>1, <2>2
  <1> QED
    BY <1>1, <1>2
\* What a step may do to a closed order.
Reopens ==
  order.status \in Closed /\ order'.status \notin Closed
    => order'.status = "placed" /\ order'.pay = "paid"

\* The staff's writes leave closed orders alone.
LEMMA StaffCloses ==
  ASSUME CloseInv, NEW w \in Workers, PartnerCommit(w) \/ DispatchCommit(w)
  PROVE  Reopens
  <1> DEFINE row == job[w].row
             op  == job[w].op
  <1>1. /\ job[w].pc = "write" /\ op \in StaffOps
    BY DEF PartnerCommit, DispatchCommit, StaffOps
  <1>2. row.status \in Live
    BY <1>1 DEF CloseInv, Admitted
  <1>3. Unmoved(row) => order.status \notin Closed
    BY <1>2 DEF Unmoved, Live, Closed, Terminal
  <1>4. CASE ~Unmoved(row)
    BY <1>4 DEF PartnerCommit, DispatchCommit, Reopens
  <1> QED
    BY <1>3, <1>4 DEF Reopens

\* Every other step keeps the status, cancels the order, releases a scheduled one, or
\* records its payment.
LEMMA OthersClose ==
  ASSUME CloseInv, [Next]_vars, ~\E w \in Workers : PartnerCommit(w) \/ DispatchCommit(w)
  PROVE  Reopens
  <1> USE DEF Reopens
  <1>0. order \in Row
    BY DEF CloseInv, TypeInv, TypeOK
  <1>1. CASE order'.status = order.status
    BY <1>1
  <1>2. CASE order'.status = "cancelled"
    BY <1>2 DEF Closed, Terminal
  <1>3. CASE order'.status = "placed" /\ (order.status = "scheduled" \/ order'.pay = "paid")
    BY <1>3 DEF Closed, Terminal
  <1>4. ASSUME NEW w \in Workers, WorkerStep(w) PROVE Reopens
    <2>1. CASE ExpireUnpaid(w) \/ CancelOrder(w)
      <3>1. job[w].row \in Snapshot
        BY <2>1, BusyType, IdleJob DEF ExpireUnpaid, CancelOrder, CloseInv, TypeInv
      <3>2. Expired(job[w].row).status = "cancelled"
        BY <3>1 DEF Expired, Snapshot
      <3>3. order'.status = "cancelled"
        BY <1>0, <2>1, <3>2 DEF ExpireUnpaid, CancelOrder, Restored, Row
      <3> QED
        BY <1>2, <3>3
    <2>2. CASE TimeOutUnaccepted(w)
      BY <1>0, <1>1, <1>2, <2>2 DEF TimeOutUnaccepted, Restored, Row
    <2>3. CASE SyncPayment(w) \/ WebhookLate(w) \/ FlagUnaccepted(w)
      BY <1>0, <1>1, <2>3 DEF SyncPayment, WebhookLate, FlagUnaccepted, Restored, Row
    <2>4. CASE WebhookAdvance(w) \/ WebhookForce(w)
      BY <1>0, <1>1, <1>3, <2>4 DEF WebhookAdvance, WebhookForce, Advanced, Restored, Row
    <2>5. CASE ReleaseScheduled(w)
      BY <1>0, <1>1, <1>3, <2>5 DEF ReleaseScheduled, Row
    <2>6. CASE UNCHANGED order
      BY <1>1, <2>6
    <2> QED
      BY <1>4, <2>1, <2>2, <2>3, <2>4, <2>5, <2>6
      DEF WorkerStep, LoadBundle, Abort, VerifyForRefresh, WebhookArrives, WebhookVerify,
          WebhookReload, WebhookRecord, AcceptanceSweepReads, ReleaseSweepReads
  <1>5. CASE CheckoutFailed
    BY <1>0, <1>2, <1>5 DEF CheckoutFailed, Row
  <1>6. CASE \/ AssignCourier \/ CheckoutInitialized \/ CheckoutAnswered \/ CustomerPays
             \/ GatewayReverses \/ PageShifts \/ Tick
    BY <1>0, <1>1, <1>6 DEF AssignCourier, CheckoutInitialized, CheckoutAnswered, CustomerPays,
       GatewayReverses, PageShifts, Tick, Row
  <1>7. CASE UNCHANGED vars
    BY <1>1, <1>7 DEF vars
  <1> QED
    BY <1>4, <1>5, <1>6, <1>7 DEF Next

LEMMA CloseInit == Init => CloseInv
  <1> SUFFICES ASSUME Init PROVE CloseInv
    OBVIOUS
  <1> QED
    BY TypeInit DEF Init, Idle, Admitted, CloseInv

LEMMA CloseStep == CloseInv /\ [Next]_vars => Reopens
  BY StaffCloses, OthersClose

LEMMA CloseNext == CloseInv /\ [Next]_vars => CloseInv'
  <1> SUFFICES ASSUME CloseInv, [Next]_vars PROVE Admitted'
    BY TypeNext DEF CloseInv
  <1>1. CASE \E w \in Workers : WorkerStep(w)
    BY <1>1, AdmittedStep DEF CloseInv
  <1>2. CASE job' = job
    BY <1>2 DEF CloseInv, Admitted
  <1> QED
    BY <1>1, <1>2 DEF Next, vars, AssignCourier, CheckoutInitialized, CheckoutAnswered,
       CheckoutFailed, CustomerPays, GatewayReverses, PageShifts, Tick

LEMMA SpecCloseInv == Spec => []CloseInv
  BY CloseInit, CloseNext, PTL DEF Spec

\* Whatever the mix of handlers, a closed order is reopened only by the arrival of its
\* money, and then stands before the restaurant; it is never served as it is.
THEOREM PaymentAloneReopens == Spec => OnlyPaymentReopens
  <1>1. CloseInv /\ [Next]_vars => [Reopens]_vars
    BY CloseStep
  <1> QED
    BY <1>1, SpecCloseInv, PTL DEF Spec, OnlyPaymentReopens, Reopens
=============================================================================
