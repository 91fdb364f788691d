--------------------------- MODULE DispatchOffers ---------------------------
(***************************************************************************)
(* How an order finds its rider: automatic selection offers it to one      *)
(* rider at a time, the rider accepts, declines or lets the offer lapse,   *)
(* and after Max offers the order is marked for the manual queue, where a  *)
(* rider takes it or an administrator assigns one.  Every assignment is a  *)
(* claim on a rider's activeLoad, given back when the order ends.          *)
(*                                                                         *)
(* The SQL functions lock the order and are one step each.  The requests   *)
(* around them (status updates, declines, the minute sweep, a manual       *)
(* assignment) are not: each database call is a step, other requests run   *)
(* in between, and a request may die there.  The flag platform_dispatch is *)
(* on and the orders are deliveries.                                       *)
(***************************************************************************)
EXTENDS Integers, FiniteSets

CONSTANTS
  Orders,
  Riders,
  NoRider,
  Requests,
  Max         \* MAX_DISPATCH_OFFERS

ASSUME FiniteAssumption == IsFiniteSet(Orders) /\ IsFiniteSet(Riders)
ASSUME RiderAssumption == NoRider \notin Riders
ASSUME MaxAssumption == Max \in Nat \ {0}

VARIABLES
  stage,      \* the status of an order, as far as dispatch tells them apart
  offer,      \* the DeliveryOffer rows, one per order and rider
  courier,    \* DeliveryAssignment.courierId
  released,   \* DeliveryAssignment.loadReleasedAt is set
  load,       \* DispatchRiderRecord.activeLoad
  marks,      \* dispatch_offers_exhausted events of an order
  job,        \* what each request is doing
  abandoned,  \* history: a claim was left on an ended order, by the death of the request
              \* that was to release it or by a write that releases nobody
  reopened    \* history: an advance of the payment put an ended order back

vars == <<stage, offer, courier, released, load, marks, job, abandoned, reopened>>

-----------------------------------------------------------------------------
\* "moving" is picked up or on the way, "ended" any terminal status.
Stages == {"placed", "accepted", "preparing", "ready", "moving", "ended"}

\* A row with status pending is "live" until respondsBy and "lapsed" from then on.
\* "none": no row.
OfferStatus == {"none", "live", "lapsed", "accepted", "declined", "expired", "superseded"}

Idle == [pc |-> "idle"]
Committing == [pc : {"commit"}, order : Orders, actor : {"partner", "customer", "dispatch"},
               from : Stages, to : Stages, owned : BOOLEAN]
\* batch: the orders a sweep has still to look at.
Selecting == [pc : {"select"}, order : Orders, stage : Stages, owned : BOOLEAN,
              batch : SUBSET Orders]
Offering == [pc : {"offer"}, order : Orders, rider : Riders, batch : SUBSET Orders]
Handling == [pc : {"reload", "lookup", "mark"}, order : Orders, batch : SUBSET Orders]
Sweeping == [pc : {"expire", "list"}]
Assigning == [pc : {"assign"}, order : Orders, rider : Riders]
Closing == [pc : {"tidy", "release"}, order : Orders]
Unpaid == [pc : {"time_out", "advance"}, order : Orders]

Job == {Idle} \cup Committing \cup Selecting \cup Offering \cup Handling
         \cup Sweeping \cup Assigning \cup Closing \cup Unpaid

TypeOK ==
  /\ stage \in [Orders -> Stages]
  /\ offer \in [Orders -> [Riders -> OfferStatus]]
  /\ courier \in [Orders -> Riders \cup {NoRider}]
  /\ released \in [Orders -> BOOLEAN]
  /\ load \in [Riders -> Nat]
  /\ marks \in [Orders -> Nat]
  /\ job \in [Requests -> Job]
  /\ abandoned \in [Orders -> BOOLEAN]
  /\ reopened \in [Orders -> BOOLEAN]

Init ==
  /\ stage = [o \in Orders |-> "placed"]
  /\ offer = [o \in Orders |-> [r \in Riders |-> "none"]]
  /\ courier = [o \in Orders |-> NoRider]
  /\ released = [o \in Orders |-> FALSE]
  /\ load = [r \in Riders |-> 0]
  /\ marks = [o \in Orders |-> 0]
  /\ job = [w \in Requests |-> Idle]
  /\ abandoned = [o \in Orders |-> FALSE]
  /\ reopened = [o \in Orders |-> FALSE]

-----------------------------------------------------------------------------
Offerable == {"accepted", "preparing", "ready"}

Asked(o) == {r \in Riders : offer[o][r] # "none"}
Pending(o) == {r \in Riders : offer[o][r] \in {"live", "lapsed"}}
Live(o) == {r \in Riders : offer[o][r] = "live"}
Owned(o) == courier[o] # NoRider

\* ebuy_adjust_dispatch_rider_load is clamped at zero.
Less(n) == IF n = 0 THEN 0 ELSE n - 1

End(w) == job' = [job EXCEPT ![w] = Idle]
Continue(w, step) == job' = [job EXCEPT ![w] = step]

\* A sweep goes on with the next order of its batch, any other request is over.
Finish(w) ==
  \/ job[w].batch = {} /\ End(w)
  \/ \E o \in job[w].batch :
       Continue(w, [pc |-> "reload", order |-> o, batch |-> job[w].batch \ {o}])

-----------------------------------------------------------------------------
(* Status updates of the restaurant, the customer and the rider. *)

\* buildPartnerStatusUpdate, cancelCustomerOrder, buildDispatchStatusUpdate.
Moves(actor) ==
  CASE actor = "partner"  -> {<<"placed", "accepted">>, <<"placed", "preparing">>,
                              <<"accepted", "preparing">>, <<"accepted", "ready">>,
                              <<"preparing", "ready">>, <<"preparing", "ended">>,
                              <<"ready", "ended">>, <<"placed", "ended">>,
                              <<"accepted", "ended">>}
    [] actor = "customer" -> {<<"placed", "ended">>, <<"accepted", "ended">>}
    [] actor = "dispatch" -> {<<"ready", "moving">>, <<"moving", "ended">>}

\* The bundle is read and the move checked against it.
LoadBundle(w, o, actor, to) ==
  /\ job[w] = Idle
  /\ <<stage[o], to>> \in Moves(actor)
  /\ actor = "dispatch" => Owned(o)
  /\ Continue(w, [pc |-> "commit", order |-> o, actor |-> actor, from |-> stage[o],
                  to |-> to, owned |-> Owned(o)])
  /\ UNCHANGED <<stage, offer, courier, released, load, marks, abandoned, reopened>>

\* The staff write by compare-and-swap, the customer by id.
Commit(w) ==
  /\ job[w].pc = "commit"
  /\ LET j == job[w] IN
     IF stage[j.order] = j.from \/ j.actor = "customer"
       THEN /\ stage' = [stage EXCEPT ![j.order] = j.to]
            /\ Continue(w,
                 IF j.to = "ended" THEN [pc |-> "release", order |-> j.order]
                 ELSE IF j.actor = "partner"
                   THEN [pc |-> "select", order |-> j.order, stage |-> j.to,
                         owned |-> j.owned, batch |-> {}]
                   ELSE Idle)
       ELSE End(w) /\ UNCHANGED stage
  /\ UNCHANGED <<offer, courier, released, load, marks, abandoned, reopened>>

\* The claim ebuy_release_dispatch_assignment_load finds on the row.
Releasable(o) == Owned(o) /\ ~released[o]

\* releaseDispatchAssignmentLoad.
Release(w) ==
  /\ job[w].pc = "release"
  /\ LET o == job[w].order IN
     IF Releasable(o)
       THEN /\ released' = [released EXCEPT ![o] = TRUE]
            /\ load' = [load EXCEPT ![courier[o]] = Less(@)]
       ELSE UNCHANGED <<released, load>>
  /\ End(w)
  /\ UNCHANGED <<stage, offer, courier, marks, abandoned, reopened>>

-----------------------------------------------------------------------------
(* The writes of the payment and of the acceptance deadline.  None calls the release. *)

\* The order ends; a claim that is open on it stays open.
EndUnreleased(o) ==
  /\ stage' = [stage EXCEPT ![o] = "ended"]
  /\ abandoned' = [abandoned EXCEPT ![o] = @ \/ (stage[o] # "ended" /\ Releasable(o))]
  /\ UNCHANGED <<offer, courier, released, load, marks, reopened>>

\* A request finds the payment column pending: past its window in any request that reads
\* the order, at `placed' in the payment handler that lost its compare-and-set.  Payment
\* itself is not kept here (a stale answer of the gateway may make any live order pending).
ReadUnpaid(w, o) ==
  /\ job[w] = Idle
  /\ \/ stage[o] # "ended" /\ Continue(w, [pc |-> "time_out", order |-> o])
     \/ stage[o] = "placed" /\ Continue(w, [pc |-> "advance", order |-> o])
  /\ UNCHANGED <<stage, offer, courier, released, load, marks, abandoned, reopened>>

\* maybeExpireUnpaidOrder: the cancellation, by id.
ExpireUnpaid(w) ==
  /\ job[w].pc = "time_out"
  /\ EndUnreleased(job[w].order)
  /\ End(w)

\* markOrderPaymentState, after the reload: the plain advance, by id.
AdvancePaid(w) ==
  /\ job[w].pc = "advance"
  /\ LET o == job[w].order IN
     /\ stage' = [stage EXCEPT ![o] = "placed"]
     /\ reopened' = [reopened EXCEPT ![o] = @ \/ stage[o] = "ended"]
  /\ End(w)
  /\ UNCHANGED <<offer, courier, released, load, marks, abandoned>>

\* ebuy_auto_cancel_unaccepted_order, under the lock of the order.
CancelUnaccepted(o) ==
  /\ stage[o] = "placed"
  /\ EndUnreleased(o)
  /\ UNCHANGED job

-----------------------------------------------------------------------------
(* Automatic selection: runAutomaticDispatchAssignment. *)

\* The offers are read, then the pool; which riders are online is left open.  An order
\* whose dishes take longer than the ride is put off until it is being prepared.
Select(w) ==
  /\ job[w].pc = "select"
  /\ LET j == job[w]
         o == j.order
         wanted == j.stage \in Offerable /\ ~j.owned /\ Live(o) = {}
         full == Cardinality(Asked(o)) >= Max
     IN
     \/ (~wanted \/ j.stage = "accepted") /\ Finish(w)
     \/ wanted /\ ~full /\ Asked(o) = {} /\ Finish(w)          \* pool_empty
     \/ wanted /\ (full \/ Asked(o) # {})
          /\ Continue(w, [pc |-> "lookup", order |-> o, batch |-> j.batch])
     \/ wanted /\ ~full
          /\ \E r \in Riders \ Asked(o) :
               Continue(w, [pc |-> "offer", order |-> o, rider |-> r, batch |-> j.batch])
  /\ UNCHANGED <<stage, offer, courier, released, load, marks, abandoned, reopened>>

\* The lazy expiry of ebuy_offer_dispatch_assignment.
Expired(rows) == [r \in Riders |-> IF rows[r] = "lapsed" THEN "expired" ELSE rows[r]]

\* Mutant: an offer that is out does not stop the next one.
MutantRoomFor(o, r) == Cardinality(Asked(o)) < Max /\ offer[o][r] = "none"

\* Nobody is being asked, the offers are not used up, and the rider was not asked before.
RoomFor(o, r) == Live(o) = {} /\ Cardinality(Asked(o)) < Max /\ offer[o][r] = "none"

\* ebuy_offer_dispatch_assignment, under the lock of the order.
MakeOffer(w) ==
  /\ job[w].pc = "offer"
  /\ LET o == job[w].order
         r == job[w].rider
         open == stage[o] \in Offerable /\ ~Owned(o)
         full == Live(o) = {} /\ Cardinality(Asked(o)) >= Max
     IN
     \/ open /\ RoomFor(o, r)
          /\ offer' = [offer EXCEPT ![o] = [Expired(@) EXCEPT ![r] = "live"]]
          /\ Finish(w)
     \/ open /\ ~RoomFor(o, r)
          /\ offer' = [offer EXCEPT ![o] = Expired(@)]
          /\ IF full THEN Continue(w, [pc |-> "lookup", order |-> o, batch |-> job[w].batch])
                     ELSE Finish(w)
     \/ ~open /\ Finish(w) /\ UNCHANGED offer
  /\ UNCHANGED <<stage, courier, released, load, marks, abandoned, reopened>>

\* recordDispatchOffersExhausted looks for its event, then inserts it.
LookUpMark(w) ==
  /\ job[w].pc = "lookup"
  /\ IF marks[job[w].order] > 0 THEN Finish(w)
     ELSE Continue(w, [pc |-> "mark", order |-> job[w].order, batch |-> job[w].batch])
  /\ UNCHANGED <<stage, offer, courier, released, load, marks, abandoned, reopened>>

InsertMark(w) ==
  /\ job[w].pc = "mark"
  /\ marks' = [marks EXCEPT ![job[w].order] = @ + 1]
  /\ Finish(w)
  /\ UNCHANGED <<stage, offer, courier, released, load, abandoned, reopened>>

\* reofferDispatchOrder reads the order and its assignment anew.
Reload(w) ==
  /\ job[w].pc = "reload"
  /\ LET o == job[w].order IN
     Continue(w, [pc |-> "select", order |-> o, stage |-> stage[o], owned |-> Owned(o),
                  batch |-> job[w].batch])
  /\ UNCHANGED <<stage, offer, courier, released, load, marks, abandoned, reopened>>

-----------------------------------------------------------------------------
(* The answers of the riders, and the clock. *)

Lapse(o, r) ==
  /\ offer[o][r] = "live"
  /\ offer' = [offer EXCEPT ![o][r] = "lapsed"]
  /\ UNCHANGED <<stage, courier, released, load, marks, job, abandoned, reopened>>

\* Mutant: the claim does not look at the committed status.
MutantClaimable(o) == ~Owned(o)

\* ebuy_claim_dispatch_assignment, which ebuy_accept_dispatch_offer calls.
Claimable(o) == stage[o] \in Offerable /\ ~Owned(o)

\* ebuy_accept_dispatch_offer, under the lock of the order.
Accept(o, r) ==
  /\ \/ /\ offer[o][r] = "live" /\ Claimable(o)
        /\ courier' = [courier EXCEPT ![o] = r]
        /\ released' = [released EXCEPT ![o] = FALSE]
        /\ load' = [load EXCEPT ![r] = @ + 1]
        /\ offer' = [offer EXCEPT ![o] = [x \in Riders |->
             IF x = r THEN "accepted" ELSE IF x \in Pending(o) THEN "superseded" ELSE @[x]]]
     \/ /\ offer[o][r] = "live" /\ ~Claimable(o)
        /\ offer' = [offer EXCEPT ![o][r] = "superseded"]
        /\ UNCHANGED <<courier, released, load>>
     \/ /\ offer[o][r] = "lapsed"
        /\ offer' = [offer EXCEPT ![o][r] = "expired"]
        /\ UNCHANGED <<courier, released, load>>
  /\ UNCHANGED <<stage, marks, job, abandoned, reopened>>

\* ebuy_decline_dispatch_offer; dispatchDeclineOffer then offers the order again.
Decline(w, o, r) ==
  /\ job[w] = Idle
  /\ offer[o][r] \in {"live", "lapsed"}
  /\ offer' = [offer EXCEPT ![o][r] = "declined"]
  /\ Continue(w, [pc |-> "reload", order |-> o, batch |-> {}])
  /\ UNCHANGED <<stage, courier, released, load, marks, abandoned, reopened>>

-----------------------------------------------------------------------------
(* The sweep of every minute: sweepDispatchOffers. *)

StartSweep(w) ==
  /\ job[w] = Idle
  /\ Continue(w, [pc |-> "expire"])
  /\ UNCHANGED <<stage, offer, courier, released, load, marks, abandoned, reopened>>

ExpireOffers(w) ==
  /\ job[w].pc = "expire"
  /\ offer' = [o \in Orders |-> Expired(offer[o])]
  /\ Continue(w, [pc |-> "list"])
  /\ UNCHANGED <<stage, courier, released, load, marks, abandoned, reopened>>

\* A failed first pass does not keep the sweep from its second.
ExpireFails(w) ==
  /\ job[w].pc = "expire"
  /\ Continue(w, [pc |-> "list"])
  /\ UNCHANGED <<stage, offer, courier, released, load, marks, abandoned, reopened>>

\* Mutant: only orders whose offers ran out by themselves are listed.
MutantCandidate(o) ==
  /\ stage[o] \in Offerable /\ ~Owned(o) /\ marks[o] = 0
  /\ Pending(o) = {} /\ Asked(o) # {} /\ Cardinality(Asked(o)) < Max
  /\ \A r \in Asked(o) : offer[o][r] = "expired"

\* ebuy_list_dispatch_reoffer_candidates.
Candidate(o) ==
  /\ stage[o] \in Offerable /\ ~Owned(o) /\ marks[o] = 0
  /\ Pending(o) = {} /\ Asked(o) # {} /\ Cardinality(Asked(o)) < Max

ListCandidates(w) ==
  /\ job[w].pc = "list"
  /\ LET found == {o \in Orders : Candidate(o)} IN
     \/ found = {} /\ End(w)
     \/ \E o \in found :
          Continue(w, [pc |-> "reload", order |-> o, batch |-> found \ {o}])
  /\ UNCHANGED <<stage, offer, courier, released, load, marks, abandoned, reopened>>

-----------------------------------------------------------------------------
(* The manual queue: dispatchAssignOrderCourier. *)

\* loadManualQueueOrderIds and isUnownedDispatchableOrder.
InManualQueue(o) == marks[o] > 0 /\ Live(o) = {} /\ ~Owned(o)

\* An administrator assigns any rider, a rider only takes an order for themselves.
LoadAssignment(w, o, r, admin) ==
  /\ job[w] = Idle
  /\ stage[o] \in Offerable
  /\ admin \/ courier[o] = r \/ InManualQueue(o)
  /\ Continue(w, [pc |-> "assign", order |-> o, rider |-> r])
  /\ UNCHANGED <<stage, offer, courier, released, load, marks, abandoned, reopened>>

\* Mutant: the previous rider is not relieved.
MutantHandedOver(from, to) == [load EXCEPT ![to] = @ + 1]

\* Mutant: the two adjustments are swapped.
MutantSwapped(from, to) ==
  [r \in Riders |-> IF from = to THEN load[r]
                    ELSE IF r = to THEN load[r] - 1
                    ELSE IF r = from THEN load[r] + 1 ELSE load[r]]

\* The two adjustments of ebuy_reassign_dispatch_assignment_courier.
HandedOver(from, to) ==
  [r \in Riders |-> IF from = to THEN load[r]
                    ELSE IF r = to THEN load[r] + 1
                    ELSE IF r = from THEN Less(load[r]) ELSE load[r]]

\* ebuy_reassign_dispatch_assignment_courier, under the lock of the order.
Assign(w) ==
  /\ job[w].pc = "assign"
  /\ LET o == job[w].order
         r == job[w].rider
     IN
     IF stage[o] \in Offerable /\ ~released[o]
       THEN /\ courier' = [courier EXCEPT ![o] = r]
            /\ load' = HandedOver(courier[o], r)
            /\ Continue(w, [pc |-> "tidy", order |-> o])
       ELSE End(w) /\ UNCHANGED <<courier, load>>
  /\ UNCHANGED <<stage, offer, released, marks, abandoned, reopened>>

\* supersedePendingOffersForOrder.
Tidy(w) ==
  /\ job[w].pc = "tidy"
  /\ LET o == job[w].order IN
     offer' = [offer EXCEPT ![o] = [r \in Riders |->
                 IF r \in Pending(o) THEN "superseded" ELSE @[r]]]
  /\ End(w)
  /\ UNCHANGED <<stage, courier, released, load, marks, abandoned, reopened>>

-----------------------------------------------------------------------------
Die(w) ==
  /\ job[w] # Idle
  /\ abandoned' = IF job[w].pc = "release"
                    THEN [abandoned EXCEPT ![job[w].order] = TRUE] ELSE abandoned
  /\ End(w)
  /\ UNCHANGED <<stage, offer, courier, released, load, marks, reopened>>

Step(w) ==
  \/ Commit(w) \/ Release(w) \/ ExpireUnpaid(w) \/ AdvancePaid(w)
  \/ Select(w) \/ MakeOffer(w) \/ LookUpMark(w) \/ InsertMark(w) \/ Reload(w)
  \/ ExpireOffers(w) \/ ExpireFails(w) \/ ListCandidates(w)
  \/ Assign(w) \/ Tidy(w)

Next ==
  \/ \E w \in Requests, o \in Orders, actor \in {"partner", "customer", "dispatch"},
        to \in Stages : LoadBundle(w, o, actor, to)
  \/ \E w \in Requests, o \in Orders, r \in Riders, admin \in BOOLEAN :
        LoadAssignment(w, o, r, admin)
  \/ \E w \in Requests, o \in Orders, r \in Riders : Decline(w, o, r)
  \/ \E w \in Requests, o \in Orders : ReadUnpaid(w, o)
  \/ \E o \in Orders : CancelUnaccepted(o)
  \/ \E w \in Requests : StartSweep(w) \/ Step(w) \/ Die(w)
  \/ \E o \in Orders, r \in Riders : Lapse(o, r) \/ Accept(o, r)

Spec == Init /\ [][Next]_vars

\* Offers lapse, pg_cron starts a sweep every minute, and not every one fails or dies
\* before each of its calls.
Fairness ==
  /\ \A o \in Orders, r \in Riders : WF_vars(Lapse(o, r))
  /\ SF_vars(\E w \in Requests : StartSweep(w))
  /\ \A w \in Requests : WF_vars(Step(w))
  /\ SF_vars(\E w \in Requests : ExpireOffers(w))
  /\ SF_vars(\E w \in Requests : ListCandidates(w))
  /\ \A o \in Orders :
       /\ SF_vars(\E w \in Requests : Reload(w) /\ job[w].order = o)
       /\ SF_vars(\E w \in Requests : Select(w) /\ job[w].order = o)
       /\ SF_vars(\E w \in Requests : MakeOffer(w) /\ job[w].order = o)
       /\ SF_vars(\E w \in Requests : LookUpMark(w) /\ job[w].order = o)
       /\ SF_vars(\E w \in Requests : InsertMark(w) /\ job[w].order = o)

FairSpec == Spec /\ Fairness

-----------------------------------------------------------------------------
(* What dispatch owes the riders, the restaurant and the customer. *)

Carried(r) == {o \in Orders : courier[o] = r /\ ~released[o]}

\* A rider's activeLoad, the dominant term of the score, counts exactly the claims that
\* rider has open: no update loses an increment, lands a decrement twice or hits the
\* wrong rider, and the clamp at zero never hides one.
LoadIsLive == \A r \in Riders : load[r] = Cardinality(Carried(r))

Releasing(o) == \E w \in Requests : job[w].pc = "release" /\ job[w].order = o

\* A claim is given back only when its order ended (the payment handler may have reopened
\* it since), and a claim on an order that ended has a request on its way to give it back,
\* unless that request died or the claim was open when the payment window or the acceptance
\* deadline ended the order, whose writes release nobody: no claim lands on an order nobody
\* will touch again.
ClaimsFollowOrder ==
  \A o \in Orders :
    /\ released[o] => stage[o] = "ended" \/ reopened[o]
    /\ stage[o] = "ended" /\ Owned(o) /\ ~released[o] => Releasing(o) \/ abandoned[o]

\* An order in the kitchen that was offered, with offers left, is not left alone: it is
\* offered again, taken, or handed to the manual queue.
Unattended(o) ==
  /\ stage[o] \in {"preparing", "ready"} /\ ~Owned(o) /\ marks[o] = 0
  /\ Live(o) = {} /\ Asked(o) # {}

OfferMovesOn ==
  \A o \in Orders : Unattended(o) /\ Cardinality(Asked(o)) < Max ~> ~Unattended(o)

\* After this many offers for one order, stop offering and fall back to the manual queue
\* (dispatchOffers.ts).
FallsBackToManual ==
  \A o \in Orders : Unattended(o) /\ Cardinality(Asked(o)) = Max ~> ~Unattended(o)

-----------------------------------------------------------------------------
(* The offers keep the book. *)

AnswerOf(status) ==
  CASE status = "none"               -> "none"
    [] status \in {"live", "lapsed"} -> "asked"
    [] status = "accepted"           -> "yes"
    [] OTHER                         -> "no"

Book == INSTANCE OfferBook
  WITH answer <- [o \in Orders |-> [r \in Riders |-> AnswerOf(offer[o][r])]]

\* Whatever selections, sweeps and answers run at once on what each of them read before,
\* an order is offered to one rider at a time, to MAX_DISPATCH_OFFERS at most and never
\* twice to one, one rider takes it, and no answer is undone.
KeepsOfferBook == Book!BookSpec
=============================================================================
