------------------------ MODULE DispatchOffers_proofs ------------------------
(***************************************************************************)
(* What holds of DispatchOffers for any orders, riders, requests and       *)
(* maximum of offers.                                                      *)
(***************************************************************************)
EXTENDS DispatchOffers, FiniteSetTheorems, TLAPS

-----------------------------------------------------------------------------
(* Types. *)

\* The program counter tells what else a request holds.
LEMMA Kinds ==
  ASSUME NEW j \in Job
  PROVE  /\ j.pc = "commit" => j \in Committing
         /\ j.pc = "select" => j \in Selecting
         /\ j.pc = "offer" => j \in Offering
         /\ j.pc \in {"reload", "lookup", "mark"} => j \in Handling
         /\ j.pc = "assign" => j \in Assigning
         /\ j.pc \in {"tidy", "release"} => j \in Closing
         /\ j.pc \in {"time_out", "advance"} => j \in Unpaid
  BY DEF Job, Idle, Committing, Selecting, Offering, Handling, Sweeping, Assigning, Closing,
         Unpaid

\* A request that goes on with a step of the model is still one.
LEMMA Continues ==
  ASSUME TypeOK, NEW w \in Requests, NEW j \in Job, Continue(w, j)
  PROVE  job' \in [Requests -> Job]
  BY DEF TypeOK, Continue

LEMMA Ends ==
  ASSUME TypeOK, NEW w \in Requests, End(w)
  PROVE  job' \in [Requests -> Job]
  BY DEF TypeOK, End, Job

\* The end of one order of a batch leaves a request.
LEMMA Finishes ==
  ASSUME TypeOK, NEW w \in Requests, job[w].batch \in SUBSET Orders, Finish(w)
  PROVE  job' \in [Requests -> Job]
  <1>1. CASE job[w].batch = {} /\ End(w)
    BY <1>1, Ends
  <1>2. ASSUME NEW o \in job[w].batch,
               Continue(w, [pc |-> "reload", order |-> o, batch |-> job[w].batch \ {o}])
        PROVE  job' \in [Requests -> Job]
    <2>1. [pc |-> "reload", order |-> o, batch |-> job[w].batch \ {o}] \in Job
      BY DEF Job, Handling
    <2> QED
      BY <1>2, <2>1, Continues
  <1> QED
    BY <1>1, <1>2 DEF Finish

\* The rows of one order keep their type when the lapsed ones expire.
LEMMA ExpiredType ==
  ASSUME NEW rows \in [Riders -> OfferStatus]
  PROVE  Expired(rows) \in [Riders -> OfferStatus]
  BY DEF Expired, OfferStatus

\* Every move leads from a stage to a stage, and none leads out of "ended".
LEMMA MoveStages ==
  ASSUME NEW actor \in {"partner", "customer", "dispatch"}, NEW from, NEW to,
         <<from, to>> \in Moves(actor)
  PROVE  /\ from \in Stages \ {"ended"} /\ to \in Stages
         /\ actor = "customer" => to = "ended"
  BY DEF Moves, Stages

\* The initial state is of the declared types.
LEMMA TypeInit ==
  ASSUME Init
  PROVE  TypeOK
  BY DEF Init, TypeOK, Stages, OfferStatus, Job

\* Status updates and their release.
LEMMA TypeUpdates ==
  ASSUME TypeOK, NEW w \in Requests
  PROVE  /\ \A o \in Orders, actor \in {"partner", "customer", "dispatch"}, to \in Stages :
              LoadBundle(w, o, actor, to) => TypeOK'
         /\ Commit(w) => TypeOK'
         /\ Release(w) => TypeOK'
  <1>0. job[w] \in Job
    BY DEF TypeOK
  <1>1. ASSUME NEW o \in Orders, NEW actor \in {"partner", "customer", "dispatch"},
               NEW to \in Stages, LoadBundle(w, o, actor, to)
        PROVE  TypeOK'
    <2> DEFINE j == [pc |-> "commit", order |-> o, actor |-> actor, from |-> stage[o],
                     to |-> to, owned |-> Owned(o)]
    <2>1. stage[o] \in Stages /\ Owned(o) \in BOOLEAN
      BY DEF TypeOK, Owned
    <2>2. j \in Committing
      BY <2>1 DEF Committing
    <2>3. Continue(w, j)
      BY <1>1 DEF LoadBundle
    <2>4. job' \in [Requests -> Job]
      <3> HIDE DEF j
      <3> QED
        BY <2>2, <2>3, Continues DEF Job
    <2> QED
      BY <1>1, <2>4 DEF LoadBundle, TypeOK
  <1>2. ASSUME Commit(w) PROVE TypeOK'
    <2> DEFINE j == job[w]
               sel == [pc |-> "select", order |-> j.order, stage |-> j.to,
                       owned |-> j.owned, batch |-> {}]
               rel == [pc |-> "release", order |-> j.order]
    <2>1. j \in Committing
      BY <1>0, <1>2, Kinds DEF Commit
    <2>2. sel \in Job /\ rel \in Job /\ Idle \in Job
      BY <2>1 DEF Committing, Selecting, Closing, Job
    <2>3. CASE stage[j.order] = j.from \/ j.actor = "customer"
      <3>1. stage' = [stage EXCEPT ![j.order] = j.to]
        BY <1>2, <2>3 DEF Commit
      <3>2. stage' \in [Orders -> Stages]
        BY <2>1, <3>1 DEF Committing, TypeOK
      <3>3. \/ Continue(w, rel) \/ Continue(w, sel) \/ Continue(w, Idle)
        BY <1>2, <2>3 DEF Commit
      <3>4. job' \in [Requests -> Job]
        <4> HIDE DEF sel, rel
        <4> QED
          BY <2>2, <3>3, Continues
      <3> QED
        BY <1>2, <3>2, <3>4 DEF Commit, TypeOK
    <2>4. CASE ~(stage[j.order] = j.from \/ j.actor = "customer")
      BY <1>2, <2>4, Ends DEF Commit, TypeOK
    <2> QED
      BY <2>3, <2>4
  <1>3. ASSUME Release(w) PROVE TypeOK'
    <2>1. job' \in [Requests -> Job]
      BY <1>3, Ends DEF Release
    <2>2. CASE Releasable(job[w].order)
      <3> DEFINE o == job[w].order
      <3>1. released' = [released EXCEPT ![o] = TRUE]
        BY <1>3, <2>2 DEF Release
      <3>2. load' = [load EXCEPT ![courier[o]] = Less(@)]
        BY <1>3, <2>2 DEF Release
      <3>3. \A n \in Nat : Less(n) \in Nat
        BY DEF Less
      <3>4. job[w] \in Closing
        BY <1>0, <1>3, Kinds DEF Release
      <3>5. courier[o] \in Riders
        BY <2>2, <3>4 DEF Releasable, Owned, Closing, TypeOK
      <3>6. Less(load[courier[o]]) \in Nat
        BY <3>3, <3>5 DEF TypeOK
      <3>7. load' \in [Riders -> Nat]
        BY <3>2, <3>5, <3>6 DEF TypeOK
      <3> QED
        BY <1>3, <2>1, <3>1, <3>7 DEF Release, TypeOK
    <2>3. CASE ~Releasable(job[w].order)
      BY <1>3, <2>1, <2>3 DEF Release, TypeOK
    <2> QED
      BY <2>2, <2>3
  <1> QED
    BY <1>1, <1>2, <1>3

\* The writes of the payment and of the acceptance deadline.
LEMMA TypeUnpaid ==
  ASSUME TypeOK
  PROVE  /\ \A w \in Requests, o \in Orders : ReadUnpaid(w, o) => TypeOK'
         /\ \A w \in Requests : ExpireUnpaid(w) \/ AdvancePaid(w) => TypeOK'
         /\ \A o \in Orders : CancelUnaccepted(o) => TypeOK'
  <1>1. ASSUME NEW w \in Requests, NEW o \in Orders, ReadUnpaid(w, o) PROVE TypeOK'
    <2>1. /\ [pc |-> "time_out", order |-> o] \in Job
          /\ [pc |-> "advance", order |-> o] \in Job
      BY DEF Unpaid, Job
    <2>2. job' \in [Requests -> Job]
      BY <1>1, <2>1, Continues DEF ReadUnpaid
    <2> QED
      BY <1>1, <2>2 DEF ReadUnpaid, TypeOK
  <1>2. ASSUME NEW o \in Orders, EndUnreleased(o), job' \in [Requests -> Job] PROVE TypeOK'
    <2>1. stage' \in [Orders -> Stages] /\ abandoned' \in [Orders -> BOOLEAN]
      BY <1>2 DEF EndUnreleased, TypeOK, Stages
    <2> QED
      BY <1>2, <2>1 DEF EndUnreleased, TypeOK
  <1>3. ASSUME NEW w \in Requests, ExpireUnpaid(w) PROVE TypeOK'
    <2>1. job[w].order \in Orders
      BY <1>3, Kinds DEF ExpireUnpaid, Unpaid, TypeOK
    <2> QED
      BY <1>2, <1>3, <2>1, Ends DEF ExpireUnpaid
  <1>4. ASSUME NEW w \in Requests, AdvancePaid(w) PROVE TypeOK'
    <2>1. stage' \in [Orders -> Stages] /\ reopened' \in [Orders -> BOOLEAN]
      BY <1>4 DEF AdvancePaid, TypeOK, Stages
    <2> QED
      BY <1>4, <2>1, Ends DEF AdvancePaid, TypeOK
  <1>5. ASSUME NEW o \in Orders, CancelUnaccepted(o) PROVE TypeOK'
    BY <1>2, <1>5 DEF CancelUnaccepted, TypeOK
  <1> QED
    BY <1>1, <1>3, <1>4, <1>5

\* The steps of a selection.
LEMMA TypeSelection ==
  ASSUME TypeOK, NEW w \in Requests
  PROVE  /\ Select(w) => TypeOK'
         /\ MakeOffer(w) => TypeOK'
         /\ LookUpMark(w) => TypeOK'
         /\ InsertMark(w) => TypeOK'
         /\ Reload(w) => TypeOK'
  <1>0. job[w] \in Job
    BY DEF TypeOK
  <1>1. ASSUME Select(w) PROVE TypeOK'
    <2> DEFINE o == job[w].order
               look == [pc |-> "lookup", order |-> o, batch |-> job[w].batch]
    <2>1. job[w] \in Selecting
      BY <1>0, <1>1, Kinds DEF Select
    <2>2. look \in Job
      BY <2>1 DEF Selecting, Handling, Job
    <2>3. \A r \in Riders :
            [pc |-> "offer", order |-> o, rider |-> r, batch |-> job[w].batch] \in Job
      BY <2>1 DEF Selecting, Offering, Job
    <2>4. \/ Finish(w)
          \/ Continue(w, look)
          \/ \E r \in Riders :
               Continue(w, [pc |-> "offer", order |-> o, rider |-> r, batch |-> job[w].batch])
      BY <1>1 DEF Select
    <2>5. job' \in [Requests -> Job]
      <3>1. CASE Finish(w)
        BY <2>1, <3>1, Finishes DEF Selecting
      <3>2. CASE Continue(w, look)
        <4> HIDE DEF look
        <4> QED
          BY <2>2, <3>2, Continues
      <3>3. ASSUME NEW r \in Riders,
                   Continue(w, [pc |-> "offer", order |-> o, rider |-> r, batch |-> job[w].batch])
            PROVE  job' \in [Requests -> Job]
        BY <2>3, <3>3, Continues
      <3> QED
        BY <2>4, <3>1, <3>2, <3>3
    <2> QED
      BY <1>1, <2>5 DEF Select, TypeOK
  <1>2. ASSUME MakeOffer(w) PROVE TypeOK'
    <2> DEFINE o == job[w].order
               r == job[w].rider
               look == [pc |-> "lookup", order |-> o, batch |-> job[w].batch]
    <2>1. job[w] \in Offering
      BY <1>0, <1>2, Kinds DEF MakeOffer
    <2>2. look \in Job
      BY <2>1 DEF Offering, Handling, Job
    <2>3. Finish(w) \/ Continue(w, look)
      BY <1>2 DEF MakeOffer
    <2>4. job' \in [Requests -> Job]
      <3>1. CASE Finish(w)
        BY <2>1, <3>1, Finishes DEF Offering
      <3>2. CASE Continue(w, look)
        <4> HIDE DEF look
        <4> QED
          BY <2>2, <3>2, Continues
      <3> QED
        BY <2>3, <3>1, <3>2
    <2>5. offer[o] \in [Riders -> OfferStatus] /\ r \in Riders
      BY <2>1 DEF Offering, TypeOK
    <2>6. Expired(offer[o]) \in [Riders -> OfferStatus]
      BY <2>5, ExpiredType
    <2>7. [Expired(offer[o]) EXCEPT ![r] = "live"] \in [Riders -> OfferStatus]
      BY <2>6 DEF OfferStatus
    <2>8. \/ offer' = [offer EXCEPT ![o] = [Expired(offer[o]) EXCEPT ![r] = "live"]]
          \/ offer' = [offer EXCEPT ![o] = Expired(offer[o])]
          \/ offer' = offer
      BY <1>2 DEF MakeOffer
    <2>9. offer' \in [Orders -> [Riders -> OfferStatus]]
      BY <2>6, <2>7, <2>8 DEF TypeOK
    <2> QED
      BY <1>2, <2>4, <2>9 DEF MakeOffer, TypeOK
  <1>3. ASSUME LookUpMark(w) PROVE TypeOK'
    <2> DEFINE mark == [pc |-> "mark", order |-> job[w].order, batch |-> job[w].batch]
    <2>1. job[w] \in Handling
      BY <1>0, <1>3, Kinds DEF LookUpMark
    <2>2. mark \in Job
      BY <2>1 DEF Handling, Job
    <2>3. Finish(w) \/ Continue(w, mark)
      BY <1>3 DEF LookUpMark
    <2>4. job' \in [Requests -> Job]
      <3>1. CASE Finish(w)
        BY <2>1, <3>1, Finishes DEF Handling
      <3>2. CASE Continue(w, mark)
        <4> HIDE DEF mark
        <4> QED
          BY <2>2, <3>2, Continues
      <3> QED
        BY <2>3, <3>1, <3>2
    <2> QED
      BY <1>3, <2>4 DEF LookUpMark, TypeOK
  <1>4. ASSUME InsertMark(w) PROVE TypeOK'
    <2>1. job[w] \in Handling
      BY <1>0, <1>4, Kinds DEF InsertMark
    <2>2. job' \in [Requests -> Job]
      BY <1>4, <2>1, Finishes DEF InsertMark, Handling
    <2>3. marks' \in [Orders -> Nat]
      <3>1. job[w].order \in Orders
        BY <2>1 DEF Handling
      <3>2. marks[job[w].order] + 1 \in Nat
        BY <3>1 DEF TypeOK
      <3> QED
        BY <1>4, <3>1, <3>2 DEF InsertMark, TypeOK
    <2> QED
      BY <1>4, <2>2, <2>3 DEF InsertMark, TypeOK
  <1>5. ASSUME Reload(w) PROVE TypeOK'
    <2> DEFINE o == job[w].order
               sel == [pc |-> "select", order |-> o, stage |-> stage[o], owned |-> Owned(o),
                       batch |-> job[w].batch]
    <2>1. job[w] \in Handling
      BY <1>0, <1>5, Kinds DEF Reload
    <2>2. sel \in Job
      BY <2>1 DEF Handling, Selecting, Job, TypeOK, Owned
    <2>3. Continue(w, sel)
      BY <1>5 DEF Reload
    <2>4. job' \in [Requests -> Job]
      <3> HIDE DEF sel
      <3> QED
        BY <2>2, <2>3, Continues
    <2> QED
      BY <1>5, <2>4 DEF Reload, TypeOK
  <1> QED
    BY <1>1, <1>2, <1>3, <1>4, <1>5

\* The answers of the riders.
LEMMA TypeAnswers ==
  ASSUME TypeOK, NEW o \in Orders, NEW r \in Riders
  PROVE  /\ Lapse(o, r) => TypeOK'
         /\ Accept(o, r) => TypeOK'
         /\ \A w \in Requests : Decline(w, o, r) => TypeOK'
  <1>0. offer[o] \in [Riders -> OfferStatus]
    BY DEF TypeOK
  <1>a. \A v \in OfferStatus : [offer EXCEPT ![o][r] = v] \in [Orders -> [Riders -> OfferStatus]]
    BY DEF TypeOK
  <1>b. {"lapsed", "superseded", "expired", "declined"} \subseteq OfferStatus
    BY DEF OfferStatus
  <1>1. ASSUME Lapse(o, r) PROVE TypeOK'
    BY <1>a, <1>b, <1>1 DEF Lapse, TypeOK
  <1>2. ASSUME Accept(o, r) PROVE TypeOK'
    <2>1. CASE offer[o][r] = "live" /\ Claimable(o)
      <3>1. courier' = [courier EXCEPT ![o] = r] /\ released' = [released EXCEPT ![o] = FALSE]
        BY <1>2, <2>1 DEF Accept
      <3>2. load' = [load EXCEPT ![r] = load[r] + 1]
        BY <1>2, <2>1 DEF Accept
      <3>3. load[r] + 1 \in Nat
        BY DEF TypeOK
      <3>4. load' \in [Riders -> Nat]
        BY <3>2, <3>3 DEF TypeOK
      <3>5. offer' = [offer EXCEPT ![o] = [x \in Riders |->
              IF x = r THEN "accepted" ELSE IF x \in Pending(o) THEN "superseded"
                                            ELSE offer[o][x]]]
        BY <1>2, <2>1 DEF Accept
      <3>6. offer' \in [Orders -> [Riders -> OfferStatus]]
        BY <1>0, <3>5 DEF TypeOK, OfferStatus
      <3> QED
        BY <1>2, <3>1, <3>4, <3>6 DEF Accept, TypeOK
    <2>2. CASE ~(offer[o][r] = "live" /\ Claimable(o))
      <3>1. /\ UNCHANGED <<courier, released, load>>
            /\ \/ offer' = [offer EXCEPT ![o][r] = "superseded"]
               \/ offer' = [offer EXCEPT ![o][r] = "expired"]
        BY <1>2, <2>2 DEF Accept
      <3>2. offer' \in [Orders -> [Riders -> OfferStatus]]
        BY <1>a, <1>b, <3>1
      <3> QED
        BY <1>2, <3>1, <3>2 DEF Accept, TypeOK
    <2> QED
      BY <2>1, <2>2
  <1>3. ASSUME NEW w \in Requests, Decline(w, o, r) PROVE TypeOK'
    <2> DEFINE j == [pc |-> "reload", order |-> o, batch |-> {}]
    <2>1. j \in Job
      BY DEF Handling, Job
    <2>2. Continue(w, j)
      BY <1>3 DEF Decline
    <2>3. job' \in [Requests -> Job]
      <3> HIDE DEF j
      <3> QED
        BY <2>1, <2>2, Continues
    <2>4. offer' \in [Orders -> [Riders -> OfferStatus]]
      BY <1>a, <1>b, <1>3 DEF Decline
    <2> QED
      BY <1>3, <2>3, <2>4 DEF Decline, TypeOK
  <1> QED
    BY <1>1, <1>2, <1>3

\* The sweep.
LEMMA TypeSweep ==
  ASSUME TypeOK, NEW w \in Requests
  PROVE  /\ StartSweep(w) => TypeOK'
         /\ ExpireOffers(w) => TypeOK'
         /\ ExpireFails(w) => TypeOK'
         /\ ListCandidates(w) => TypeOK'
  <1>0. [pc |-> "expire"] \in Job /\ [pc |-> "list"] \in Job
    BY DEF Sweeping, Job
  <1>1. ASSUME StartSweep(w) PROVE TypeOK'
    BY <1>0, <1>1, Continues DEF StartSweep, TypeOK
  <1>2. ASSUME ExpireOffers(w) PROVE TypeOK'
    <2>1. job' \in [Requests -> Job]
      BY <1>0, <1>2, Continues DEF ExpireOffers
    <2>2. offer' = [o \in Orders |-> Expired(offer[o])]
      BY <1>2 DEF ExpireOffers
    <2>3. \A o \in Orders : Expired(offer[o]) \in [Riders -> OfferStatus]
      BY ExpiredType DEF TypeOK
    <2>4. offer' \in [Orders -> [Riders -> OfferStatus]]
      BY <2>2, <2>3
    <2> QED
      BY <1>2, <2>1, <2>4 DEF ExpireOffers, TypeOK
  <1>3. ASSUME ExpireFails(w) PROVE TypeOK'
    BY <1>0, <1>3, Continues DEF ExpireFails, TypeOK
  <1>4. ASSUME ListCandidates(w) PROVE TypeOK'
    <2> DEFINE found == {o \in Orders : Candidate(o)}
    <2>1. CASE End(w)
      BY <1>4, <2>1, Ends DEF ListCandidates, TypeOK
    <2>2. ASSUME NEW o \in found,
                 Continue(w, [pc |-> "reload", order |-> o, batch |-> found \ {o}])
          PROVE  TypeOK'
      <3>1. [pc |-> "reload", order |-> o, batch |-> found \ {o}] \in Job
        BY DEF Handling, Job
      <3>2. job' \in [Requests -> Job]
        BY <2>2, <3>1, Continues
      <3> QED
        BY <1>4, <3>2 DEF ListCandidates, TypeOK
    <2> QED
      BY <1>4, <2>1, <2>2 DEF ListCandidates
  <1> QED
    BY <1>1, <1>2, <1>3, <1>4

\* The loads after a hand-over are still loads.
LEMMA HandedOverType ==
  ASSUME TypeOK, NEW from, NEW to
  PROVE  HandedOver(from, to) \in [Riders -> Nat]
  <1>1. \A r \in Riders : load[r] \in Nat /\ load[r] + 1 \in Nat /\ Less(load[r]) \in Nat
    BY DEF TypeOK, Less
  <1> QED
    BY <1>1 DEF HandedOver

\* A manual assignment, and the death of a request.
LEMMA TypeManual ==
  ASSUME TypeOK, NEW w \in Requests
  PROVE  /\ \A o \in Orders, r \in Riders, admin \in BOOLEAN :
              LoadAssignment(w, o, r, admin) => TypeOK'
         /\ Assign(w) => TypeOK'
         /\ Tidy(w) => TypeOK'
         /\ Die(w) => TypeOK'
  <1>0. job[w] \in Job
    BY DEF TypeOK
  <1>1. ASSUME NEW o \in Orders, NEW r \in Riders, NEW admin \in BOOLEAN,
               LoadAssignment(w, o, r, admin)
        PROVE  TypeOK'
    <2>1. [pc |-> "assign", order |-> o, rider |-> r] \in Job
      BY DEF Assigning, Job
    <2>2. job' \in [Requests -> Job]
      BY <1>1, <2>1, Continues DEF LoadAssignment
    <2> QED
      BY <1>1, <2>2 DEF LoadAssignment, TypeOK
  <1>2. ASSUME Assign(w) PROVE TypeOK'
    <2> DEFINE o == job[w].order
               r == job[w].rider
               tidy == [pc |-> "tidy", order |-> o]
    <2>1. job[w] \in Assigning
      BY <1>0, <1>2, Kinds DEF Assign
    <2>2. CASE stage[o] \in Offerable /\ ~released[o]
      <3>1. /\ courier' = [courier EXCEPT ![o] = r]
            /\ load' = HandedOver(courier[o], r)
            /\ Continue(w, tidy)
        BY <1>2, <2>2 DEF Assign
      <3>2. courier' \in [Orders -> Riders \cup {NoRider}]
        BY <2>1, <3>1 DEF Assigning, TypeOK
      <3>3. load' \in [Riders -> Nat]
        BY <3>1, HandedOverType
      <3>4. tidy \in Job
        BY <2>1 DEF Assigning, Closing, Job
      <3>5. job' \in [Requests -> Job]
        <4> HIDE DEF tidy
        <4> QED
          BY <3>1, <3>4, Continues
      <3> QED
        BY <1>2, <3>2, <3>3, <3>5 DEF Assign, TypeOK
    <2>3. CASE ~(stage[o] \in Offerable /\ ~released[o])
      BY <1>2, <2>3, Ends DEF Assign, TypeOK
    <2> QED
      BY <2>2, <2>3
  <1>3. ASSUME Tidy(w) PROVE TypeOK'
    <2> DEFINE o == job[w].order
    <2>1. job[w] \in Closing
      BY <1>0, <1>3, Kinds DEF Tidy
    <2>2. offer' = [offer EXCEPT ![o] = [r \in Riders |->
                      IF r \in Pending(o) THEN "superseded" ELSE offer[o][r]]]
      BY <1>3 DEF Tidy
    <2>3. offer' \in [Orders -> [Riders -> OfferStatus]]
      BY <2>1, <2>2 DEF Closing, TypeOK, OfferStatus
    <2> QED
      BY <1>3, <2>3, Ends DEF Tidy, TypeOK
  <1>4. ASSUME Die(w) PROVE TypeOK'
    <2>1. abandoned' \in [Orders -> BOOLEAN]
      BY <1>4 DEF Die, TypeOK
    <2> QED
      BY <1>4, <2>1, Ends DEF Die, TypeOK
  <1> QED
    BY <1>1, <1>2, <1>3, <1>4

\* Every step keeps the types.
LEMMA TypeStep ==
  ASSUME TypeOK, [Next]_vars
  PROVE  TypeOK'
  <1>1. CASE UNCHANGED vars
    BY <1>1 DEF vars, TypeOK
  <1>2. CASE Next
    <2>1. ASSUME NEW w \in Requests, Step(w) PROVE TypeOK'
      BY <2>1, TypeUpdates, TypeUnpaid, TypeSelection, TypeSweep, TypeManual DEF Step
    <2> QED
      BY <1>2, <2>1, TypeUpdates, TypeUnpaid, TypeAnswers, TypeSweep, TypeManual DEF Next
  <1> QED
    BY <1>1, <1>2

\* Orders, offers, claims, loads and the requests around them keep their types: whatever
\* runs at once, no load falls below zero and no request acts on anything but an order
\* and a rider of the model.
THEOREM TypeCorrect == Spec => []TypeOK
  <1>1. Init => TypeOK
    BY TypeInit
  <1>2. TypeOK /\ [Next]_vars => TypeOK'
    BY TypeStep
  <1> QED
    BY <1>1, <1>2, PTL DEF Spec

-----------------------------------------------------------------------------
(* The offers of an order: what a step can do to them. *)

\* Open offers lapse or are answered without a claim; the others stay.
Settles(o) ==
  \A r \in Riders :
    \/ offer'[o][r] = offer[o][r]
    \/ /\ offer[o][r] \in {"live", "lapsed"}
       /\ offer'[o][r] \in {"lapsed", "expired", "declined", "superseded"}

\* One rider more is asked.
Asks(o) ==
  \E r \in Riders :
    /\ RoomFor(o, r) /\ offer'[o][r] = "live"
    /\ \A x \in Riders \ {r} : offer'[o][x] = Expired(offer[o])[x]

\* The rider who is asked claims the order.
Takes(o) ==
  \E r \in Riders :
    /\ offer[o][r] = "live" /\ ~Owned(o) /\ courier'[o] = r /\ offer'[o][r] = "accepted"
    /\ \A x \in Riders \ {r} :
         offer'[o][x] = IF x \in Pending(o) THEN "superseded" ELSE offer[o][x]

\* Expiry settles the offers of an order.
LEMMA ExpirySettles ==
  ASSUME TypeOK, NEW o \in Orders, offer'[o] = Expired(offer[o])
  PROVE  Settles(o)
  BY DEF Settles, Expired

\* A step that leaves the offers alone settles none.
LEMMA UnchangedSettles ==
  ASSUME offer' = offer
  PROVE  \A o \in Orders : Settles(o)
  BY DEF Settles

\* Every step does one of the three to every order.
LEMMA OffersMove ==
  ASSUME TypeOK, [Next]_vars
  PROVE  \A o \in Orders : Settles(o) \/ Asks(o) \/ Takes(o)
  <1>0. /\ \A o \in Orders : offer[o] \in [Riders -> OfferStatus]
        /\ DOMAIN offer = Orders
    BY DEF TypeOK
  <1>1. ASSUME NEW w \in Requests, MakeOffer(w)
        PROVE  \A o \in Orders : Settles(o) \/ Asks(o) \/ Takes(o)
    <2> DEFINE p == job[w].order
               r == job[w].rider
    <2>1. p \in Orders /\ r \in Riders
      BY <1>1, Kinds DEF MakeOffer, Offering, TypeOK
    <2>2. CASE offer' = offer
      BY <2>2, UnchangedSettles
    <2>3. CASE offer' = [offer EXCEPT ![p] = Expired(offer[p])]
      <3>1. TAKE o \in Orders
      <3>2. CASE o = p
        BY <1>0, <2>3, <3>2, ExpirySettles
      <3>3. CASE o # p
        BY <1>0, <2>3, <3>3 DEF Settles
      <3> QED
        BY <3>2, <3>3
    <2>4. CASE /\ RoomFor(p, r)
               /\ offer' = [offer EXCEPT ![p] = [Expired(offer[p]) EXCEPT ![r] = "live"]]
      <3>1. TAKE o \in Orders
      <3>2. CASE o = p
        <4>1. offer'[p] = [Expired(offer[p]) EXCEPT ![r] = "live"]
          BY <1>0, <2>1, <2>4
        <4>2. /\ offer'[p][r] = "live"
              /\ \A x \in Riders \ {r} : offer'[p][x] = Expired(offer[p])[x]
          BY <2>1, <4>1 DEF Expired
        <4>3. Asks(p)
          BY <2>1, <2>4, <4>2 DEF Asks
        <4> QED
          BY <3>2, <4>3
      <3>3. CASE o # p
        BY <1>0, <2>4, <3>3 DEF Settles
      <3> QED
        BY <3>2, <3>3
    <2> QED
      BY <1>1, <2>2, <2>3, <2>4 DEF MakeOffer
  <1>2. ASSUME NEW p \in Orders, NEW r \in Riders, Accept(p, r)
        PROVE  \A o \in Orders : Settles(o) \/ Asks(o) \/ Takes(o)
    <2>1. CASE offer[p][r] = "live" /\ Claimable(p)
      <3>1. offer' = [offer EXCEPT ![p] = [x \in Riders |->
              IF x = r THEN "accepted" ELSE IF x \in Pending(p) THEN "superseded"
                                            ELSE offer[p][x]]]
        BY <1>2, <2>1 DEF Accept
      <3>2. courier'[p] = r
        BY <1>2, <2>1 DEF Accept, TypeOK
      <3>3. TAKE o \in Orders
      <3>4. CASE o = p
        <4>1. Takes(p)
          BY <1>0, <2>1, <3>1, <3>2 DEF Takes, Claimable
        <4> QED
          BY <3>4, <4>1
      <3>5. CASE o # p
        BY <1>0, <3>1, <3>5 DEF Settles
      <3> QED
        BY <3>4, <3>5
    <2>2. CASE ~(offer[p][r] = "live" /\ Claimable(p))
      <3>1. \/ offer[p][r] = "live" /\ offer' = [offer EXCEPT ![p][r] = "superseded"]
            \/ offer[p][r] = "lapsed" /\ offer' = [offer EXCEPT ![p][r] = "expired"]
        BY <1>2, <2>2 DEF Accept
      <3> QED
        BY <1>0, <3>1 DEF Settles
    <2> QED
      BY <2>1, <2>2
  <1>3. ASSUME NEW p \in Orders, NEW r \in Riders, Lapse(p, r)
        PROVE  \A o \in Orders : Settles(o)
    BY <1>0, <1>3 DEF Lapse, Settles
  <1>4. ASSUME NEW w \in Requests, NEW p \in Orders, NEW r \in Riders, Decline(w, p, r)
        PROVE  \A o \in Orders : Settles(o)
    BY <1>0, <1>4 DEF Decline, Settles
  <1>5. ASSUME NEW w \in Requests, ExpireOffers(w)
        PROVE  \A o \in Orders : Settles(o)
    BY <1>0, <1>5, ExpirySettles DEF ExpireOffers
  <1>6. ASSUME NEW w \in Requests, Tidy(w)
        PROVE  \A o \in Orders : Settles(o)
    BY <1>0, <1>6 DEF Tidy, Settles, Pending
  <1>7. ASSUME NEW w \in Requests,
               \/ Commit(w) \/ Release(w) \/ Select(w) \/ LookUpMark(w) \/ InsertMark(w)
               \/ Reload(w) \/ ExpireFails(w) \/ ListCandidates(w) \/ Assign(w)
               \/ StartSweep(w) \/ Die(w) \/ ExpireUnpaid(w) \/ AdvancePaid(w)
        PROVE  offer' = offer
    BY <1>7 DEF Commit, Release, Select, LookUpMark, InsertMark, Reload, ExpireFails,
                ListCandidates, Assign, StartSweep, Die, ExpireUnpaid, EndUnreleased, AdvancePaid
  <1>8. ASSUME NEW w \in Requests, NEW o \in Orders,
               \/ \E actor \in {"partner", "customer", "dispatch"}, to \in Stages :
                    LoadBundle(w, o, actor, to)
               \/ \E r \in Riders, admin \in BOOLEAN : LoadAssignment(w, o, r, admin)
               \/ ReadUnpaid(w, o)
        PROVE  offer' = offer
    BY <1>8 DEF LoadBundle, LoadAssignment, ReadUnpaid
  <1>9. ASSUME NEW o \in Orders, CancelUnaccepted(o) PROVE offer' = offer
    BY <1>9 DEF CancelUnaccepted, EndUnreleased
  <1>10. CASE UNCHANGED vars
    BY <1>10, UnchangedSettles DEF vars
  <1>11. CASE Next
    BY <1>11, <1>1, <1>2, <1>3, <1>4, <1>5, <1>6, <1>7, <1>8, <1>9, UnchangedSettles
    DEF Next, Step
  <1> QED
    BY <1>10, <1>11

\* Nobody takes a rider off an order, other than for another one.
LEMMA OwnerStays ==
  ASSUME TypeOK, [Next]_vars, NEW o \in Orders, Owned(o)
  PROVE  Owned(o)'
  <1>1. ASSUME NEW w \in Requests, Assign(w) PROVE Owned(o)'
    <2>1. job[w].rider \in Riders
      BY <1>1, Kinds DEF Assign, Assigning, TypeOK
    <2> QED
      BY <1>1, <2>1, RiderAssumption DEF Assign, Owned, TypeOK
  <1>2. ASSUME NEW p \in Orders, NEW r \in Riders, Accept(p, r) PROVE Owned(o)'
    BY <1>2, RiderAssumption DEF Accept, Owned, TypeOK
  <1>3. ASSUME courier' = courier PROVE Owned(o)'
    BY <1>3 DEF Owned
  <1>4. ASSUME NEW w \in Requests, Step(w), ~Assign(w) PROVE courier' = courier
    BY <1>4 DEF Step, Commit, Release, ExpireUnpaid, EndUnreleased, AdvancePaid, Select,
                MakeOffer, LookUpMark, InsertMark, Reload, ExpireOffers, ExpireFails,
                ListCandidates, Tidy
  <1>5. CASE UNCHANGED vars
    BY <1>3, <1>5 DEF vars
  <1>6. CASE Next
    <2>1. ASSUME NEW w \in Requests, StartSweep(w) \/ Die(w) PROVE courier' = courier
      BY <2>1 DEF StartSweep, Die
    <2>2. ASSUME NEW w \in Requests, NEW p \in Orders,
                 \/ \E actor \in {"partner", "customer", "dispatch"}, to \in Stages :
                      LoadBundle(w, p, actor, to)
                 \/ \E r \in Riders, admin \in BOOLEAN : LoadAssignment(w, p, r, admin)
                 \/ \E r \in Riders : Decline(w, p, r)
                 \/ ReadUnpaid(w, p)
          PROVE  courier' = courier
      BY <2>2 DEF LoadBundle, LoadAssignment, Decline, ReadUnpaid
    <2>3. ASSUME NEW p \in Orders, NEW r \in Riders, Lapse(p, r) PROVE courier' = courier
      BY <2>3 DEF Lapse
    <2>4. ASSUME NEW p \in Orders, CancelUnaccepted(p) PROVE courier' = courier
      BY <2>4 DEF CancelUnaccepted, EndUnreleased
    <2> QED
      BY <1>6, <1>1, <1>2, <1>3, <1>4, <2>1, <2>2, <2>3, <2>4 DEF Next
  <1> QED
    BY <1>5, <1>6

-----------------------------------------------------------------------------
(* Answers, and who is asked. *)

\* An answer is final: neither the sweep, a late tap nor another selection changes it.
AnswerIsFinal ==
  [][\A o \in Orders, r \in Riders :
       offer[o][r] \notin {"none", "live", "lapsed"} => offer'[o][r] = offer[o][r]]_vars

\* An answer is final: a declined, expired, superseded or accepted offer stays so,
\* whatever sweeps, taps and selections run.
THEOREM AnswersAreFinal == Spec => AnswerIsFinal
  <1>1. ASSUME TypeOK, [Next]_vars,
               NEW o \in Orders, NEW r \in Riders, offer[o][r] \notin {"none", "live", "lapsed"}
        PROVE  offer'[o][r] = offer[o][r]
    <2>1. CASE Settles(o)
      BY <1>1, <2>1 DEF Settles
    <2>2. CASE Asks(o)
      BY <1>1, <2>2 DEF Asks, RoomFor, Expired
    <2>3. CASE Takes(o)
      BY <1>1, <2>3 DEF Takes, Pending
    <2> QED
      BY <1>1, <2>1, <2>2, <2>3, OffersMove
  <1>2. TypeOK /\ [Next]_vars =>
          [\A o \in Orders, r \in Riders :
             offer[o][r] \notin {"none", "live", "lapsed"} => offer'[o][r] = offer[o][r]]_vars
    BY <1>1
  <1> QED
    BY <1>2, TypeCorrect, PTL DEF Spec, AnswerIsFinal

\* One rider is asked at a time and one accepts, whatever selections run at once.
OneRiderAsked ==
  \A o \in Orders, r, x \in Riders :
    /\ r \in Pending(o) /\ x \in Pending(o) => r = x
    /\ offer[o][r] = "accepted" /\ offer[o][x] = "accepted" => r = x

\* The rider who accepted is on the order, or another rider after them.
AcceptedIsOwned == \A o \in Orders, r \in Riders : offer[o][r] = "accepted" => Owned(o)

AskInv == TypeOK /\ OneRiderAsked /\ AcceptedIsOwned

LEMMA AskInit ==
  ASSUME Init
  PROVE  AskInv
  BY TypeInit DEF Init, AskInv, OneRiderAsked, AcceptedIsOwned, Pending

\* Asking and accepting leave one rider pending at most, and one accepted.
LEMMA AskStep ==
  ASSUME AskInv, [Next]_vars
  PROVE  AskInv'
  <1>0. TypeOK /\ TypeOK'
    BY TypeStep DEF AskInv
  <1>1. ASSUME NEW o \in Orders
        PROVE  /\ \A r \in Riders : offer'[o][r] = "accepted" => Owned(o)'
               /\ \A r, x \in Riders :
                    /\ r \in Pending(o)' /\ x \in Pending(o)' => r = x
                    /\ offer'[o][r] = "accepted" /\ offer'[o][x] = "accepted" => r = x
    <2>1. CASE Settles(o)
      <3>1. \A r \in Riders : offer'[o][r] = "accepted" => offer[o][r] = "accepted"
        BY <2>1 DEF Settles
      <3>2. \A r \in Riders : r \in Pending(o)' => r \in Pending(o)
        BY <2>1 DEF Settles, Pending
      <3> QED
        BY <1>0, <3>1, <3>2, OwnerStays DEF AskInv, OneRiderAsked, AcceptedIsOwned
    <2>2. CASE Asks(o)
      <3>1. PICK r \in Riders :
              /\ RoomFor(o, r) /\ offer'[o][r] = "live"
              /\ \A x \in Riders \ {r} : offer'[o][x] = Expired(offer[o])[x]
        BY <2>2 DEF Asks
      <3>2. \A x \in Riders \ {r} : x \notin Pending(o)'
        BY <3>1 DEF RoomFor, Live, Pending, Expired
      <3>3. \A x \in Riders : offer'[o][x] = "accepted" => offer[o][x] = "accepted"
        BY <3>1 DEF Expired
      <3>4. \A x \in Riders : x \in Pending(o)' => x = r
        BY <3>2
      <3> QED
        BY <1>0, <3>3, <3>4, OwnerStays DEF AskInv, OneRiderAsked, AcceptedIsOwned
    <2>3. CASE Takes(o)
      <3>1. PICK r \in Riders :
              /\ offer[o][r] = "live" /\ ~Owned(o) /\ courier'[o] = r
              /\ offer'[o][r] = "accepted"
              /\ \A x \in Riders \ {r} :
                   offer'[o][x] = IF x \in Pending(o) THEN "superseded" ELSE offer[o][x]
        BY <2>3 DEF Takes
      <3>2. Owned(o)'
        BY <3>1, RiderAssumption DEF Owned
      <3>3. \A x \in Riders : offer[o][x] # "accepted"
        BY <3>1 DEF AskInv, AcceptedIsOwned
      <3>4. \A x \in Riders \ {r} : offer'[o][x] # "accepted" /\ x \notin Pending(o)'
        BY <3>1, <3>3 DEF Pending
      <3>5. r \notin Pending(o)'
        BY <3>1 DEF Pending
      <3> QED
        BY <3>2, <3>4, <3>5
    <2> QED
      BY <1>0, <2>1, <2>2, <2>3, OffersMove
  <1> QED
    BY <1>0, <1>1 DEF AskInv, OneRiderAsked, AcceptedIsOwned

\* An order is on the screen of one rider at a time and accepted by one, for any number of
\* selections, sweeps and answers at once: the lock of the order, the count of live offers
\* under it and the refusal of a claim on an owned order suffice.
THEOREM OneRiderIsAsked == Spec => []OneRiderAsked
  <1>1. Init => AskInv
    BY AskInit
  <1>2. AskInv /\ [Next]_vars => AskInv'
    BY AskStep
  <1>3. AskInv => OneRiderAsked
    BY DEF AskInv
  <1> QED
    BY <1>1, <1>2, <1>3, PTL DEF Spec

\* MAX_DISPATCH_OFFERS holds although it is counted by several requests.
OffersBounded == \A o \in Orders : Cardinality(Asked(o)) <= Max

\* The riders asked about an order are finitely many.
LEMMA AskedFinite ==
  ASSUME NEW o \in Orders
  PROVE  IsFiniteSet(Asked(o))
  BY FiniteAssumption, FS_Subset DEF Asked

\* At most Max riders are ever asked about an order, although every request counts the
\* offers on its own.
THEOREM OffersAreBounded == Spec => []OffersBounded
  <1>1. Init => OffersBounded
    <2> SUFFICES ASSUME Init, NEW o \in Orders PROVE Cardinality(Asked(o)) <= Max
      BY DEF OffersBounded
    <2>1. Asked(o) = {}
      BY DEF Init, Asked
    <2> QED
      BY <2>1, FS_EmptySet, MaxAssumption
  <1>2. TypeOK /\ OffersBounded /\ [Next]_vars => OffersBounded'
    <2> SUFFICES ASSUME TypeOK, OffersBounded, [Next]_vars, NEW o \in Orders
                 PROVE  Cardinality(Asked(o)') <= Max
      BY DEF OffersBounded
    <2>0. Cardinality(Asked(o)) <= Max
      BY DEF OffersBounded
    <2>1. CASE Settles(o)
      <3>1. Asked(o)' = Asked(o)
        BY <2>1 DEF Settles, Asked
      <3> QED
        BY <2>0, <3>1
    <2>2. CASE Asks(o)
      <3>1. PICK r \in Riders :
              /\ RoomFor(o, r) /\ offer'[o][r] = "live"
              /\ \A x \in Riders \ {r} : offer'[o][x] = Expired(offer[o])[x]
        BY <2>2 DEF Asks
      <3>2. Asked(o)' = Asked(o) \cup {r} /\ r \notin Asked(o)
        BY <3>1 DEF RoomFor, Asked, Expired
      <3>3. Cardinality(Asked(o)') = Cardinality(Asked(o)) + 1
        BY <3>2, AskedFinite, FS_AddElement
      <3>4. Cardinality(Asked(o)) \in Nat /\ Cardinality(Asked(o)) < Max
        BY <3>1, AskedFinite, FS_CardinalityType DEF RoomFor
      <3> QED
        BY <3>3, <3>4, MaxAssumption
    <2>3. CASE Takes(o)
      <3>1. Asked(o)' = Asked(o)
        BY <2>3 DEF Takes, Asked, Pending
      <3> QED
        BY <2>0, <3>1
    <2> QED
      BY <2>1, <2>2, <2>3, OffersMove
  <1> QED
    BY <1>1, <1>2, TypeCorrect, PTL DEF Spec

-----------------------------------------------------------------------------
(* The offers keep the book. *)

LEMMA Answers ==
  /\ \A r \in Riders, o \in Orders : offer[o][r] = "none" <=> AnswerOf(offer[o][r]) = "none"
  /\ \A r \in Riders, o \in Orders :
       offer[o][r] \in {"live", "lapsed"} <=> AnswerOf(offer[o][r]) = "asked"
  /\ \A r \in Riders, o \in Orders : offer[o][r] = "accepted" <=> AnswerOf(offer[o][r]) = "yes"
  /\ \A r \in Riders, o \in Orders :
       offer[o][r] \notin {"none", "live", "lapsed", "accepted"} => AnswerOf(offer[o][r]) = "no"
  BY DEF AnswerOf

\* KeepsOfferBook: selections, sweeps, answers and assignments, for any number of orders,
\* riders and requests, do to the offers only what OfferBook allows.
THEOREM ImplementsOfferBook == Spec => KeepsOfferBook
  <1> DEFINE answer == [o \in Orders |-> [r \in Riders |-> AnswerOf(offer[o][r])]]
  <1>1. Init => Book!BookInit
    BY DEF Init, Book!BookInit, AnswerOf
  <1>2. ASSUME AskInv, [Next]_vars PROVE Book!BookNext
    <2>0. TypeOK
      BY <1>2 DEF AskInv
    <2> SUFFICES ASSUME NEW o \in Orders
                 PROVE  Book!Ends(o) \/ \E r \in Riders : Book!Ask(o, r) \/ Book!Take(o, r)
      BY DEF Book!BookNext
    <2>1. /\ \A r \in Riders : answer[o][r] = AnswerOf(offer[o][r])
          /\ \A r \in Riders : answer'[o][r] = AnswerOf(offer'[o][r])
      OBVIOUS
    <2>2. Book!Out(o) = Pending(o) /\ Book!Tried(o) = Asked(o)
      BY <2>1, Answers DEF Book!Out, Book!Tried, Pending, Asked
    <2> HIDE DEF answer
    <2>3. CASE Settles(o)
      <3>1. ASSUME NEW r \in Riders
            PROVE  \/ answer'[o][r] = answer[o][r]
                   \/ answer[o][r] = "asked" /\ answer'[o][r] = "no"
        BY <2>1, <2>3 DEF Settles, AnswerOf
      <3> QED
        BY <3>1 DEF Book!Ends, answer
    <2>4. CASE Asks(o)
      <3>1. PICK r \in Riders :
              /\ RoomFor(o, r) /\ offer'[o][r] = "live"
              /\ \A x \in Riders \ {r} : offer'[o][x] = Expired(offer[o])[x]
        BY <2>4 DEF Asks
      <3>2. answer[o][r] = "none" /\ answer'[o][r] = "asked"
        BY <2>1, <3>1 DEF RoomFor, AnswerOf
      <3>3. ASSUME NEW x \in Riders \ {r}
            PROVE  answer'[o][x] = IF x \in Pending(o) THEN "no" ELSE answer[o][x]
        <4>1. offer[o][x] # "live"
          BY <3>1 DEF RoomFor, Live
        <4>2. offer'[o][x] = IF offer[o][x] = "lapsed" THEN "expired" ELSE offer[o][x]
          BY <3>1 DEF Expired
        <4> QED
          BY <2>1, <4>1, <4>2 DEF Pending, AnswerOf
      <3>4. Book!Cardinality(Book!Tried(o)) < Max
        <4>1. Cardinality(Book!Tried(o)) < Max
          BY <2>2, <3>1 DEF RoomFor
        <4>2. Book!Cardinality(Book!Tried(o)) = Cardinality(Book!Tried(o))
          BY Zenon DEF Book!Cardinality, Cardinality
        <4> QED
          BY <4>1, <4>2
      <3>5. Book!Ask(o, r)
        BY <2>2, <3>2, <3>3, <3>4 DEF Book!Ask, answer
      <3> QED
        BY <3>5
    <2>5. CASE Takes(o)
      <3>1. PICK r \in Riders :
              /\ offer[o][r] = "live" /\ ~Owned(o) /\ offer'[o][r] = "accepted"
              /\ \A x \in Riders \ {r} :
                   offer'[o][x] = IF x \in Pending(o) THEN "superseded" ELSE offer[o][x]
        BY <2>5 DEF Takes
      <3>2. answer[o][r] = "asked" /\ answer'[o][r] = "yes"
        BY <2>1, <3>1 DEF AnswerOf
      <3>3. ASSUME NEW x \in Riders \ {r}
            PROVE  answer'[o][x] = IF x \in Pending(o) THEN "no" ELSE answer[o][x]
        BY <2>1, <3>1 DEF Pending, AnswerOf
      <3>4. \A x \in Riders : answer[o][x] # "yes"
        <4>1. \A x \in Riders : offer[o][x] # "accepted"
          BY <1>2, <3>1 DEF AskInv, AcceptedIsOwned
        <4> QED
          BY <2>1, <4>1 DEF AnswerOf
      <3>5. Book!Take(o, r)
        BY <2>2, <3>2, <3>3, <3>4 DEF Book!Take, answer
      <3> QED
        BY <3>5
    <2> QED
      BY <2>0, <1>2, <2>3, <2>4, <2>5, OffersMove
  <1>3. Spec => []AskInv
    BY AskInit, AskStep, PTL DEF Spec
  <1> QED
    BY <1>1, <1>2, <1>3, PTL DEF Spec, KeepsOfferBook, Book!BookSpec

-----------------------------------------------------------------------------
(* The claims on an order: what a step can do to them. *)

Claims(o, r) ==
  /\ Claimable(o)
  /\ courier' = [courier EXCEPT ![o] = r]
  /\ released' = [released EXCEPT ![o] = FALSE]
  /\ load' = [load EXCEPT ![r] = @ + 1]

HandsOver(o, r) ==
  /\ stage[o] \in Offerable /\ ~released[o]
  /\ courier' = [courier EXCEPT ![o] = r]
  /\ load' = HandedOver(courier[o], r)
  /\ released' = released

Releases(o) ==
  /\ Releasable(o)
  /\ \E w \in Requests : job[w].pc = "release" /\ job[w].order = o
  /\ released' = [released EXCEPT ![o] = TRUE]
  /\ load' = [load EXCEPT ![courier[o]] = Less(@)]
  /\ courier' = courier

LEMMA ClaimsMove ==
  ASSUME TypeOK, [Next]_vars
  PROVE  \/ UNCHANGED <<courier, released, load>>
         \/ \E o \in Orders, r \in Riders : Claims(o, r) \/ HandsOver(o, r)
         \/ \E o \in Orders : Releases(o)
  <1> DEFINE Goal == \/ UNCHANGED <<courier, released, load>>
                     \/ \E o \in Orders, r \in Riders : Claims(o, r) \/ HandsOver(o, r)
                     \/ \E o \in Orders : Releases(o)
  <1>1. ASSUME NEW w \in Requests, Release(w) PROVE Goal
    <2>1. job[w].order \in Orders
      BY <1>1, Kinds DEF Release, Closing, TypeOK
    <2> QED
      BY <1>1, <2>1 DEF Release, Releases
  <1>2. ASSUME NEW w \in Requests, Assign(w) PROVE Goal
    <2>1. job[w].order \in Orders /\ job[w].rider \in Riders
      BY <1>2, Kinds DEF Assign, Assigning, TypeOK
    <2> QED
      BY <1>2, <2>1 DEF Assign, HandsOver
  <1>3. ASSUME NEW o \in Orders, NEW r \in Riders, Accept(o, r) PROVE Goal
    BY <1>3 DEF Accept, Claims
  <1>4. ASSUME NEW w \in Requests,
               \/ Commit(w) \/ Select(w) \/ MakeOffer(w) \/ LookUpMark(w) \/ InsertMark(w)
               \/ Reload(w) \/ ExpireOffers(w) \/ ExpireFails(w) \/ ListCandidates(w)
               \/ Tidy(w) \/ StartSweep(w) \/ Die(w) \/ ExpireUnpaid(w) \/ AdvancePaid(w)
        PROVE  UNCHANGED <<courier, released, load>>
    BY <1>4 DEF Commit, Select, MakeOffer, LookUpMark, InsertMark, Reload, ExpireOffers,
                ExpireFails, ListCandidates, Tidy, StartSweep, Die, ExpireUnpaid,
                EndUnreleased, AdvancePaid
  <1>5. ASSUME NEW w \in Requests, NEW o \in Orders,
               \/ \E actor \in {"partner", "customer", "dispatch"}, to \in Stages :
                    LoadBundle(w, o, actor, to)
               \/ \E r \in Riders, admin \in BOOLEAN : LoadAssignment(w, o, r, admin)
               \/ \E r \in Riders : Decline(w, o, r)
               \/ ReadUnpaid(w, o)
        PROVE  UNCHANGED <<courier, released, load>>
    BY <1>5 DEF LoadBundle, LoadAssignment, Decline, ReadUnpaid
  <1>6. ASSUME NEW o \in Orders, CancelUnaccepted(o) \/ \E r \in Riders : Lapse(o, r)
        PROVE  UNCHANGED <<courier, released, load>>
    BY <1>6 DEF CancelUnaccepted, EndUnreleased, Lapse
  <1>7. CASE UNCHANGED vars
    BY <1>7 DEF vars
  <1>8. CASE Next
    <2>0. SUFFICES Goal
      OBVIOUS
    <2>1. ASSUME UNCHANGED <<courier, released, load>> PROVE Goal
      BY <2>1
    <2> HIDE DEF Goal
    <2>2. ASSUME NEW w \in Requests, Step(w) PROVE Goal
      BY <1>1, <1>2, <1>4, <2>1, <2>2 DEF Step
    <2> QED
      BY <1>8, <1>3, <1>4, <1>5, <1>6, <2>1, <2>2 DEF Next
  <1> QED
    BY <1>7, <1>8

-----------------------------------------------------------------------------
(* The load of a rider. *)

LEMMA CarriedFinite ==
  ASSUME NEW r \in Riders
  PROVE  IsFiniteSet(Carried(r)) /\ Cardinality(Carried(r)) \in Nat
  BY FiniteAssumption, FS_Subset, FS_CardinalityType DEF Carried

\* Giving back one of the claims takes one off their number.
LEMMA OneLess ==
  ASSUME NEW S, IsFiniteSet(S), NEW o \in S
  PROVE  Cardinality(S \ {o}) = Less(Cardinality(S))
  <1>1. Cardinality(S \ {o}) = Cardinality(S) - 1
    BY FS_RemoveElement
  <1>2. Cardinality(S) \in Nat /\ Cardinality(S \ {o}) \in Nat
    BY FS_CardinalityType, FS_RemoveElement
  <1>3. Cardinality(S) # 0
    BY <1>1, <1>2
  <1> QED
    BY <1>1, <1>3 DEF Less

LEMMA LoadStep ==
  ASSUME TypeOK, LoadIsLive, [Next]_vars
  PROVE  LoadIsLive'
  <1>1. CASE UNCHANGED <<courier, released, load>>
    BY <1>1 DEF LoadIsLive, Carried
  <1>2. ASSUME NEW o \in Orders, NEW r \in Riders, Claims(o, r)
        PROVE  LoadIsLive'
    <2>1. SUFFICES ASSUME NEW x \in Riders
                   PROVE  load'[x] = Cardinality(Carried(x)')
      BY DEF LoadIsLive
    <2>2. /\ courier[o] = NoRider
          /\ \A p \in Orders : /\ courier'[p] = IF p = o THEN r ELSE courier[p]
                               /\ released'[p] = IF p = o THEN FALSE ELSE released[p]
          /\ load'[x] = IF x = r THEN load[x] + 1 ELSE load[x]
      BY <1>2 DEF Claims, Claimable, Owned, TypeOK
    <2>3. CASE x = r
      <3>1. Carried(x)' = Carried(x) \cup {o} /\ o \notin Carried(x)
        BY <2>2, <2>3, RiderAssumption DEF Carried
      <3>2. Cardinality(Carried(x)') = Cardinality(Carried(x)) + 1
        BY <3>1, CarriedFinite, FS_AddElement
      <3> QED
        BY <2>2, <2>3, <3>2 DEF LoadIsLive
    <2>4. CASE x # r
      <3>1. Carried(x)' = Carried(x)
        BY <2>2, <2>4, RiderAssumption DEF Carried
      <3> QED
        BY <2>2, <2>4, <3>1 DEF LoadIsLive
    <2> QED
      BY <2>3, <2>4
  <1>3. ASSUME NEW o \in Orders, NEW r \in Riders, HandsOver(o, r)
        PROVE  LoadIsLive'
    <2>1. SUFFICES ASSUME NEW x \in Riders
                   PROVE  load'[x] = Cardinality(Carried(x)')
      BY DEF LoadIsLive
    <2>2. /\ ~released[o]
          /\ \A p \in Orders : /\ courier'[p] = IF p = o THEN r ELSE courier[p]
                               /\ released'[p] = released[p]
          /\ load'[x] = IF courier[o] = r THEN load[x]
                        ELSE IF x = r THEN load[x] + 1
                        ELSE IF x = courier[o] THEN Less(load[x]) ELSE load[x]
      BY <1>3 DEF HandsOver, HandedOver, TypeOK
    <2>3. CASE courier[o] = r
      <3>1. Carried(x)' = Carried(x)
        BY <2>2, <2>3 DEF Carried
      <3> QED
        BY <2>2, <2>3, <3>1 DEF LoadIsLive
    <2>4. CASE courier[o] # r /\ x = r
      <3>1. Carried(x)' = Carried(x) \cup {o} /\ o \notin Carried(x)
        BY <2>2, <2>4 DEF Carried
      <3>2. Cardinality(Carried(x)') = Cardinality(Carried(x)) + 1
        BY <3>1, CarriedFinite, FS_AddElement
      <3> QED
        BY <2>2, <2>4, <3>2 DEF LoadIsLive
    <2>5. CASE courier[o] # r /\ x # r /\ x = courier[o]
      <3>1. Carried(x)' = Carried(x) \ {o} /\ o \in Carried(x)
        BY <2>2, <2>5 DEF Carried
      <3>2. Cardinality(Carried(x)') = Less(Cardinality(Carried(x)))
        BY <3>1, CarriedFinite, OneLess
      <3> QED
        BY <2>2, <2>5, <3>2 DEF LoadIsLive
    <2>6. CASE courier[o] # r /\ x # r /\ x # courier[o]
      <3>1. Carried(x)' = Carried(x)
        BY <2>2, <2>6 DEF Carried
      <3> QED
        BY <2>2, <2>6, <3>1 DEF LoadIsLive
    <2> QED
      BY <2>3, <2>4, <2>5, <2>6
  <1>4. ASSUME NEW o \in Orders, Releases(o)
        PROVE  LoadIsLive'
    <2>1. SUFFICES ASSUME NEW x \in Riders
                   PROVE  load'[x] = Cardinality(Carried(x)')
      BY DEF LoadIsLive
    <2>2. /\ ~released[o]
          /\ \A p \in Orders : /\ courier'[p] = courier[p]
                               /\ released'[p] = IF p = o THEN TRUE ELSE released[p]
          /\ load'[x] = IF x = courier[o] THEN Less(load[x]) ELSE load[x]
      BY <1>4 DEF Releases, Releasable, TypeOK
    <2>3. CASE x = courier[o]
      <3>1. Carried(x)' = Carried(x) \ {o} /\ o \in Carried(x)
        BY <2>2, <2>3 DEF Carried
      <3>2. Cardinality(Carried(x)') = Less(Cardinality(Carried(x)))
        BY <3>1, CarriedFinite, OneLess
      <3> QED
        BY <2>2, <2>3, <3>2 DEF LoadIsLive
    <2>4. CASE x # courier[o]
      <3>1. Carried(x)' = Carried(x)
        BY <2>2, <2>4 DEF Carried
      <3> QED
        BY <2>2, <2>4, <3>1 DEF LoadIsLive
    <2> QED
      BY <2>3, <2>4
  <1> QED
    BY <1>1, <1>2, <1>3, <1>4, ClaimsMove

\* A rider's activeLoad is the number of claims open on that rider, whatever acceptances,
\* reassignments, cancellations and repeated releases interleave; so the clamp at zero,
\* which would hide a lost count, never acts.
THEOREM LoadIsAlwaysLive == Spec => []LoadIsLive
  <1>1. Init => LoadIsLive
    <2> SUFFICES ASSUME Init, NEW r \in Riders PROVE load[r] = Cardinality(Carried(r))
      BY DEF LoadIsLive
    <2>1. Carried(r) = {}
      BY RiderAssumption DEF Init, Carried
    <2> QED
      BY <2>1, FS_EmptySet DEF Init
  <1>2. TypeOK /\ LoadIsLive /\ [Next]_vars => LoadIsLive'
    BY LoadStep
  <1> QED
    BY <1>1, <1>2, TypeCorrect, PTL DEF Spec

-----------------------------------------------------------------------------
(* Claims end with their order. *)

\* What is known of the writes and releases that are under way.
JobsTrue ==
  \A w \in Requests :
    /\ job[w].pc = "commit" => <<job[w].from, job[w].to>> \in Moves(job[w].actor)
    /\ job[w].pc = "release" => stage[job[w].order] = "ended" \/ reopened[job[w].order]

ClaimInv == TypeOK /\ JobsTrue /\ ClaimsFollowOrder

\* A step of one request leaves the others where they are.
LEMMA OneMoves ==
  ASSUME TypeOK, NEW w \in Requests, NEW v \in Requests \ {w}
  PROVE  /\ End(w) => job'[v] = job[v]
         /\ \A j : Continue(w, j) => job'[v] = job[v]
         /\ Finish(w) => job'[v] = job[v]
  BY DEF TypeOK, End, Continue, Finish

\* What the request itself does next.
LEMMA MovesTo ==
  ASSUME TypeOK, NEW w \in Requests
  PROVE  /\ End(w) => job'[w] = Idle
         /\ \A j : Continue(w, j) => job'[w] = j
         /\ Finish(w) => job'[w].pc \in {"idle", "reload"}
  BY DEF TypeOK, End, Continue, Finish, Idle

\* A request that comes to write or to release comes from a read or a write.
Turns(w) ==
  \/ job'[w] = job[w]
  \/ /\ job'[w].pc \notin {"commit", "release"}
     /\ job[w].pc = "release" => Release(w) \/ Die(w)
  \/ \E o \in Orders, actor \in {"partner", "customer", "dispatch"}, to \in Stages :
       LoadBundle(w, o, actor, to)
  \/ Commit(w)

LEMMA JobsMove ==
  ASSUME TypeOK, [Next]_vars
  PROVE  \A v \in Requests : Turns(v)
  <1>1. ASSUME NEW v \in Requests, NEW w \in Requests, v # w,
               \/ Step(w) \/ StartSweep(w) \/ Die(w)
               \/ \E o \in Orders, actor \in {"partner", "customer", "dispatch"}, to \in Stages :
                    LoadBundle(w, o, actor, to)
               \/ \E o \in Orders, r \in Riders, admin \in BOOLEAN :
                    LoadAssignment(w, o, r, admin)
               \/ \E o \in Orders, r \in Riders : Decline(w, o, r)
               \/ \E o \in Orders : ReadUnpaid(w, o)
        PROVE  job'[v] = job[v]
    <2>1. End(w) \/ Finish(w) \/ \E j : Continue(w, j)
      <3>1. CASE Step(w)
        BY <3>1 DEF Step, Commit, Release, ExpireUnpaid, AdvancePaid, Select, MakeOffer,
                    LookUpMark, InsertMark, Reload, ExpireOffers, ExpireFails, ListCandidates,
                    Assign, Tidy
      <3> QED
        BY <1>1, <3>1 DEF StartSweep, Die, LoadBundle, LoadAssignment, Decline, ReadUnpaid
    <2> QED
      BY <1>1, <2>1, OneMoves
  <1>2. ASSUME NEW w \in Requests,
               \/ Select(w) \/ MakeOffer(w) \/ LookUpMark(w) \/ InsertMark(w) \/ Reload(w)
               \/ ExpireOffers(w) \/ ExpireFails(w) \/ ListCandidates(w)
               \/ Assign(w) \/ Tidy(w) \/ ExpireUnpaid(w) \/ AdvancePaid(w)
        PROVE  job'[w].pc \notin {"commit", "release"} /\ job[w].pc # "release"
    <2>1. job[w].pc # "release"
      BY <1>2 DEF Select, MakeOffer, LookUpMark, InsertMark, Reload, ExpireOffers,
                  ExpireFails, ListCandidates, Assign, Tidy, ExpireUnpaid, AdvancePaid
    <2>2. \/ End(w) \/ Finish(w)
          \/ \E j : Continue(w, j) /\ j.pc \notin {"commit", "release"}
      <3>1. CASE Select(w)
        <4> DEFINE look == [pc |-> "lookup", order |-> job[w].order, batch |-> job[w].batch]
                   ask(r) == [pc |-> "offer", order |-> job[w].order, rider |-> r,
                              batch |-> job[w].batch]
        <4>1. Finish(w) \/ Continue(w, look) \/ \E r \in Riders : Continue(w, ask(r))
          BY <3>1 DEF Select
        <4>2. look.pc = "lookup" /\ \A r \in Riders : ask(r).pc = "offer"
          OBVIOUS
        <4> HIDE DEF look, ask
        <4> QED
          BY <4>1, <4>2
      <3>2. CASE MakeOffer(w) \/ LookUpMark(w) \/ InsertMark(w)
        <4> DEFINE at(pc) == [pc |-> pc, order |-> job[w].order, batch |-> job[w].batch]
        <4>1. Finish(w) \/ Continue(w, at("lookup")) \/ Continue(w, at("mark"))
          BY <3>2 DEF MakeOffer, LookUpMark, InsertMark
        <4>2. at("lookup").pc = "lookup" /\ at("mark").pc = "mark"
          OBVIOUS
        <4> HIDE DEF at
        <4> QED
          BY <4>1, <4>2
      <3>3. CASE Reload(w)
        BY <3>3 DEF Reload
      <3>4. CASE ExpireOffers(w) \/ ExpireFails(w)
        <4> DEFINE list == [pc |-> "list"]
        <4>1. Continue(w, list) /\ list.pc = "list"
          BY <3>4 DEF ExpireOffers, ExpireFails
        <4> HIDE DEF list
        <4> QED
          BY <4>1
      <3>5. CASE Assign(w) \/ Tidy(w)
        <4> DEFINE tidy == [pc |-> "tidy", order |-> job[w].order]
        <4>1. End(w) \/ Continue(w, tidy)
          BY <3>5 DEF Assign, Tidy
        <4>2. tidy.pc = "tidy"
          OBVIOUS
        <4> HIDE DEF tidy
        <4> QED
          BY <4>1, <4>2
      <3>6. CASE ListCandidates(w)
        <4> DEFINE found == {o \in Orders : Candidate(o)}
                   next(o) == [pc |-> "reload", order |-> o, batch |-> found \ {o}]
        <4>1. End(w) \/ \E o \in found : Continue(w, next(o))
          BY <3>6 DEF ListCandidates
        <4>2. \A o \in found : next(o).pc = "reload"
          OBVIOUS
        <4> HIDE DEF found, next
        <4> QED
          BY <4>1, <4>2
      <3>7. CASE ExpireUnpaid(w) \/ AdvancePaid(w)
        BY <3>7 DEF ExpireUnpaid, AdvancePaid
      <3> QED
        BY <1>2, <3>1, <3>2, <3>3, <3>4, <3>5, <3>6, <3>7
    <2> QED
      BY <2>1, <2>2, MovesTo DEF Idle
  <1>3. ASSUME NEW w \in Requests, Step(w) PROVE Turns(w)
    <2>1. CASE Release(w)
      BY <2>1, MovesTo DEF Release, Idle, Turns
    <2>2. CASE Commit(w)
      BY <2>2 DEF Turns
    <2> QED
      BY <1>2, <1>3, <2>1, <2>2 DEF Step, Turns
  <1>4. ASSUME NEW w \in Requests, NEW o \in Orders,
               \/ \E r \in Riders, admin \in BOOLEAN : LoadAssignment(w, o, r, admin)
               \/ \E r \in Riders : Decline(w, o, r)
               \/ ReadUnpaid(w, o)
        PROVE  Turns(w)
    <2>1. ASSUME NEW r \in Riders, NEW admin \in BOOLEAN, LoadAssignment(w, o, r, admin)
          PROVE  Turns(w)
      BY <2>1, MovesTo DEF LoadAssignment, Idle, Turns
    <2>2. ASSUME NEW r \in Riders, Decline(w, o, r) PROVE Turns(w)
      BY <2>2, MovesTo DEF Decline, Idle, Turns
    <2>3. CASE ReadUnpaid(w, o)
      BY <2>3, MovesTo DEF ReadUnpaid, Idle, Turns
    <2> QED
      BY <1>4, <2>1, <2>2, <2>3
  <1>5. ASSUME NEW o \in Orders,
               CancelUnaccepted(o) \/ \E r \in Riders : Lapse(o, r) \/ Accept(o, r)
        PROVE  job' = job
    BY <1>5 DEF CancelUnaccepted, Lapse, Accept
  <1>6. CASE UNCHANGED vars
    BY <1>6 DEF vars, Turns
  <1>7. CASE Next
    <2>1. TAKE v \in Requests
    <2>2. ASSUME NEW w \in Requests,
                 \/ Step(w) \/ StartSweep(w) \/ Die(w)
                 \/ \E o \in Orders, actor \in {"partner", "customer", "dispatch"},
                       to \in Stages : LoadBundle(w, o, actor, to)
                 \/ \E o \in Orders, r \in Riders, admin \in BOOLEAN :
                      LoadAssignment(w, o, r, admin)
                 \/ \E o \in Orders, r \in Riders : Decline(w, o, r)
                 \/ \E o \in Orders : ReadUnpaid(w, o)
          PROVE  Turns(v)
      <3>1. CASE v # w
        BY <1>1, <2>2, <3>1 DEF Turns
      <3>2. CASE v = w
        <4>1. CASE Step(w)
          BY <1>3, <3>2, <4>1
        <4>2. CASE StartSweep(w)
          BY <3>2, <4>2, MovesTo DEF StartSweep, Idle, Turns
        <4>3. CASE Die(w)
          BY <3>2, <4>3, MovesTo DEF Die, Idle, Turns
        <4>4. CASE \E o \in Orders, actor \in {"partner", "customer", "dispatch"},
                     to \in Stages : LoadBundle(w, o, actor, to)
          BY <3>2, <4>4 DEF Turns
        <4>5. CASE \E o \in Orders :
                     \/ ReadUnpaid(w, o)
                     \/ \E r \in Riders :
                          Decline(w, o, r) \/ \E admin \in BOOLEAN : LoadAssignment(w, o, r, admin)
          BY <1>4, <3>2, <4>5
        <4> QED
          BY <2>2, <4>1, <4>2, <4>3, <4>4, <4>5
      <3> QED
        BY <3>1, <3>2
    <2>3. CASE job' = job
      BY <2>3 DEF Turns
    <2> QED
      BY <1>5, <1>7, <2>2, <2>3 DEF Next
  <1> QED
    BY <1>6, <1>7

\* The status update of a request is written to an order.
Writes(w, o) ==
  /\ job[w].pc = "commit" /\ job[w].order = o /\ stage'[o] = job[w].to
  /\ stage[o] = job[w].from \/ job[w].actor = "customer"
  /\ job[w].to = "ended" => job'[w] = [pc |-> "release", order |-> o]

\* The order ended by a write that releases nobody.
Drops(o) ==
  stage'[o] = "ended" /\ courier' = courier /\ released' = released
    /\ (stage[o] # "ended" /\ Releasable(o) => abandoned'[o])

\* The order was put back before the restaurant.
Returns(o) == stage'[o] = "placed" /\ (stage[o] = "ended" => reopened'[o])

\* What moves an order, and that the status update that ends it goes on to release it.
LEMMA StagesMove ==
  ASSUME TypeOK, [Next]_vars, NEW o \in Orders
  PROVE  \/ stage'[o] = stage[o] \/ Drops(o) \/ Returns(o)
         \/ \E w \in Requests : Writes(w, o)
  <1> DEFINE Moved == \/ stage'[o] = stage[o] \/ Drops(o) \/ Returns(o)
                      \/ \E w \in Requests : Writes(w, o)
  <1>1. ASSUME NEW w \in Requests, Commit(w) PROVE Moved
    <2> DEFINE j == job[w]
               rel == [pc |-> "release", order |-> j.order]
    <2>1. j.pc = "commit" /\ j.order \in Orders
      BY <1>1, Kinds DEF Commit, Committing, TypeOK
    <2>2. CASE stage[j.order] = j.from \/ j.actor = "customer"
      <3>1. stage' = [stage EXCEPT ![j.order] = j.to]
        BY <1>1, <2>2 DEF Commit
      <3>2. j.to = "ended" => Continue(w, rel)
        BY <1>1, <2>2 DEF Commit
      <3>3. j.to = "ended" => job'[w] = rel
        <4> HIDE DEF rel
        <4> QED
          BY <3>2, MovesTo
      <3>4. CASE j.order = o
        BY <2>1, <2>2, <3>1, <3>3, <3>4 DEF TypeOK, Writes
      <3>5. CASE j.order # o
        BY <3>1, <3>5 DEF TypeOK
      <3> QED
        BY <3>4, <3>5
    <2>3. CASE ~(stage[j.order] = j.from \/ j.actor = "customer")
      BY <1>1, <2>3 DEF Commit
    <2> QED
      BY <2>2, <2>3
  <1>2. ASSUME NEW p \in Orders, EndUnreleased(p) PROVE Moved
    <2>1. CASE p = o
      BY <1>2, <2>1 DEF EndUnreleased, Drops, TypeOK
    <2>2. CASE p # o
      BY <1>2, <2>2 DEF EndUnreleased, TypeOK
    <2> QED
      BY <2>1, <2>2
  <1>3. ASSUME NEW w \in Requests, AdvancePaid(w) PROVE Moved
    <2>1. job[w].order \in Orders
      BY <1>3, Kinds DEF AdvancePaid, Unpaid, TypeOK
    <2>2. CASE job[w].order = o
      BY <1>3, <2>2 DEF AdvancePaid, Returns, TypeOK
    <2>3. CASE job[w].order # o
      BY <1>3, <2>3 DEF AdvancePaid, TypeOK
    <2> QED
      BY <2>2, <2>3
  <1>4. ASSUME NEW w \in Requests, Step(w), ~Commit(w), ~ExpireUnpaid(w), ~AdvancePaid(w)
        PROVE  stage' = stage
    BY <1>4 DEF Step, Release, Select, MakeOffer, LookUpMark, InsertMark, Reload, ExpireOffers,
                ExpireFails, ListCandidates, Assign, Tidy
  <1>5. ASSUME NEW w \in Requests, NEW p \in Orders,
               \/ StartSweep(w) \/ Die(w) \/ ReadUnpaid(w, p)
               \/ \E actor \in {"partner", "customer", "dispatch"}, to \in Stages :
                    LoadBundle(w, p, actor, to)
               \/ \E r \in Riders, admin \in BOOLEAN : LoadAssignment(w, p, r, admin)
               \/ \E r \in Riders : Decline(w, p, r)
        PROVE  stage' = stage
    BY <1>5 DEF StartSweep, Die, ReadUnpaid, LoadBundle, LoadAssignment, Decline
  <1>6. ASSUME NEW p \in Orders, NEW r \in Riders, Lapse(p, r) \/ Accept(p, r)
        PROVE  stage' = stage
    BY <1>6 DEF Lapse, Accept
  <1>7. CASE UNCHANGED vars
    BY <1>7 DEF vars
  <1>8. CASE Next
    <2>0. SUFFICES Moved
      OBVIOUS
    <2>1. ASSUME stage' = stage PROVE Moved
      BY <2>1
    <2> HIDE DEF Moved
    <2>2. ASSUME NEW w \in Requests, ExpireUnpaid(w) PROVE Moved
      <3>1. job[w].order \in Orders
        BY <2>2, Kinds DEF ExpireUnpaid, Unpaid, TypeOK
      <3> QED
        BY <1>2, <2>2, <3>1 DEF ExpireUnpaid
    <2>3. ASSUME NEW w \in Requests, Step(w) PROVE Moved
      BY <1>1, <1>3, <1>4, <2>1, <2>2, <2>3
    <2>4. ASSUME NEW p \in Orders, CancelUnaccepted(p) PROVE Moved
      BY <1>2, <2>4 DEF CancelUnaccepted
    <2> QED
      BY <1>8, <1>5, <1>6, <2>1, <2>3, <2>4 DEF Next
  <1> QED
    BY <1>7, <1>8

\* What is written in the histories stays there.
LEMMA HistoriesStay ==
  ASSUME TypeOK, [Next]_vars, NEW o \in Orders
  PROVE  /\ abandoned[o] => abandoned'[o]
         /\ reopened[o] => reopened'[o]
  <1> DEFINE Kept == (abandoned[o] => abandoned'[o]) /\ (reopened[o] => reopened'[o])
  <1>1. ASSUME NEW w \in Requests, Die(w) \/ AdvancePaid(w) PROVE Kept
    BY <1>1 DEF Die, AdvancePaid, TypeOK
  <1>2. ASSUME NEW p \in Orders, EndUnreleased(p) PROVE Kept
    BY <1>2 DEF EndUnreleased, TypeOK
  <1>3. ASSUME NEW w \in Requests, Step(w), ~ExpireUnpaid(w), ~AdvancePaid(w) PROVE Kept
    BY <1>3 DEF Step, Commit, Release, Select, MakeOffer, LookUpMark, InsertMark, Reload,
                ExpireOffers, ExpireFails, ListCandidates, Assign, Tidy
  <1>4. ASSUME NEW w \in Requests, NEW p \in Orders,
               \/ StartSweep(w) \/ ReadUnpaid(w, p)
               \/ \E actor \in {"partner", "customer", "dispatch"}, to \in Stages :
                    LoadBundle(w, p, actor, to)
               \/ \E r \in Riders, admin \in BOOLEAN : LoadAssignment(w, p, r, admin)
               \/ \E r \in Riders : Decline(w, p, r)
        PROVE  Kept
    BY <1>4 DEF StartSweep, ReadUnpaid, LoadBundle, LoadAssignment, Decline
  <1>5. ASSUME NEW p \in Orders, NEW r \in Riders, Lapse(p, r) \/ Accept(p, r) PROVE Kept
    BY <1>5 DEF Lapse, Accept
  <1>6. CASE UNCHANGED vars
    BY <1>6 DEF vars
  <1>7. CASE Next
    <2>0. SUFFICES Kept
      OBVIOUS
    <2> HIDE DEF Kept
    <2>1. ASSUME NEW w \in Requests, ExpireUnpaid(w) PROVE Kept
      <3>1. job[w].order \in Orders
        BY <2>1, Kinds DEF ExpireUnpaid, Unpaid, TypeOK
      <3> QED
        BY <1>2, <2>1, <3>1 DEF ExpireUnpaid
    <2>2. ASSUME NEW w \in Requests, Step(w) PROVE Kept
      BY <1>1, <1>3, <2>1, <2>2
    <2>3. ASSUME NEW p \in Orders, CancelUnaccepted(p) PROVE Kept
      BY <1>2, <2>3 DEF CancelUnaccepted
    <2> QED
      BY <1>7, <1>1, <1>4, <1>5, <2>2, <2>3 DEF Next
  <1> QED
    BY <1>6, <1>7

\* Only the advance of a payment puts an order that ended back, the customer's
\* unconditional write included.
LEMMA EndedStays ==
  ASSUME TypeOK, JobsTrue, [Next]_vars, NEW o \in Orders, stage[o] = "ended"
  PROVE  stage'[o] = "ended" \/ reopened'[o]
  <1>1. ASSUME NEW w \in Requests, job[w].pc = "commit", job[w].order = o,
               stage[o] = job[w].from \/ job[w].actor = "customer"
        PROVE  job[w].to = "ended"
    <2>1. job[w] \in Committing /\ <<job[w].from, job[w].to>> \in Moves(job[w].actor)
      BY <1>1, Kinds DEF JobsTrue, TypeOK
    <2>2. job[w].actor \in {"partner", "customer", "dispatch"}
      BY <2>1 DEF Committing
    <2> QED
      BY <1>1, <2>1, <2>2, MoveStages
  <1>2. ASSUME NEW w \in Requests, Writes(w, o) PROVE stage'[o] = "ended"
    BY <1>1, <1>2 DEF Writes
  <1> QED
    BY <1>2, StagesMove DEF Drops, Returns

\* The end of an order, or what reopened it, is not forgotten.
LEMMA EndingKnown ==
  ASSUME TypeOK, JobsTrue, [Next]_vars, NEW o \in Orders, stage[o] = "ended" \/ reopened[o]
  PROVE  stage'[o] = "ended" \/ reopened'[o]
  BY EndedStays, HistoriesStay

\* A request about to release has seen its order end.
LEMMA JobsStep ==
  ASSUME TypeOK, JobsTrue, [Next]_vars
  PROVE  JobsTrue'
  <1> SUFFICES ASSUME NEW w \in Requests
               PROVE  /\ job'[w].pc = "commit" =>
                           <<job'[w].from, job'[w].to>> \in Moves(job'[w].actor)
                      /\ job'[w].pc = "release" =>
                           stage'[job'[w].order] = "ended" \/ reopened'[job'[w].order]
    BY DEF JobsTrue, Moves
  <1>1. CASE job'[w] = job[w]
    <2>1. job[w].pc = "release" => job[w].order \in Orders
      BY Kinds DEF Closing, TypeOK
    <2> QED
      BY <1>1, <2>1, EndingKnown DEF JobsTrue
  <1>2. CASE job'[w].pc \notin {"commit", "release"}
    BY <1>2
  <1>3. ASSUME NEW o \in Orders, NEW actor \in {"partner", "customer", "dispatch"},
               NEW to \in Stages, LoadBundle(w, o, actor, to)
        PROVE  /\ <<job'[w].from, job'[w].to>> \in Moves(job'[w].actor)
               /\ job'[w].pc # "release"
    <2> DEFINE j == [pc |-> "commit", order |-> o, actor |-> actor, from |-> stage[o],
                     to |-> to, owned |-> Owned(o)]
    <2>1. Continue(w, j) /\ <<stage[o], to>> \in Moves(actor)
      BY <1>3 DEF LoadBundle
    <2>2. job'[w] = j
      <3> HIDE DEF j
      <3> QED
        BY <2>1, MovesTo
    <2> QED
      BY <2>1, <2>2
  <1>4. ASSUME Commit(w), job'[w].pc \in {"commit", "release"}
        PROVE  job'[w].pc = "release" /\ stage'[job'[w].order] = "ended"
    <2> DEFINE j == job[w]
               sel == [pc |-> "select", order |-> j.order, stage |-> j.to,
                       owned |-> j.owned, batch |-> {}]
               rel == [pc |-> "release", order |-> j.order]
    <2>1. j.order \in Orders
      BY <1>4, Kinds DEF Commit, Committing, TypeOK
    <2>2. \/ /\ stage' = [stage EXCEPT ![j.order] = j.to]
             /\ j.to = "ended" /\ Continue(w, rel)
          \/ Continue(w, sel) \/ Continue(w, Idle) \/ End(w)
      BY <1>4 DEF Commit
    <2>3. \/ /\ stage' = [stage EXCEPT ![j.order] = j.to]
             /\ j.to = "ended" /\ job'[w] = rel
          \/ job'[w] = sel \/ job'[w] = Idle
      <3> HIDE DEF rel, sel
      <3> QED
        BY <2>2, MovesTo
    <2>4. sel.pc = "select" /\ Idle.pc = "idle" /\ rel.pc = "release" /\ rel.order = j.order
      BY DEF Idle
    <2> QED
      BY <1>4, <2>1, <2>3, <2>4 DEF TypeOK
  <1> QED
    BY <1>1, <1>2, <1>3, <1>4, JobsMove DEF Turns

LEMMA ClaimInit ==
  ASSUME Init
  PROVE  ClaimInv
  BY TypeInit DEF Init, ClaimInv, JobsTrue, ClaimsFollowOrder, Idle

\* The claim is taken and moved only while the order can be offered, and the request that
\* ends the order carries the release.
LEMMA ClaimStep ==
  ASSUME ClaimInv, [Next]_vars
  PROVE  ClaimInv'
  <1>0. TypeOK /\ JobsTrue /\ ClaimsFollowOrder /\ TypeOK' /\ JobsTrue'
    BY TypeStep, JobsStep DEF ClaimInv
  <1>1. ASSUME NEW o \in Orders, stage[o] = "ended"
        PROVE  /\ courier'[o] = courier[o]
               /\ released'[o] = released[o]
                    \/ \E w \in Requests : job[w].pc = "release" /\ job[w].order = o
               /\ released[o] => released'[o]
    <2>1. ASSUME NEW p \in Orders, NEW r \in Riders, Claims(p, r) \/ HandsOver(p, r)
          PROVE  /\ p # o /\ courier'[o] = courier[o] /\ released'[o] = released[o]
      <3>1. stage[p] \in Offerable
        BY <2>1 DEF Claims, Claimable, HandsOver
      <3>2. p # o
        BY <1>1, <3>1 DEF Offerable
      <3> QED
        BY <1>0, <2>1, <3>2 DEF Claims, HandsOver, TypeOK
    <2>2. ASSUME NEW p \in Orders, Releases(p)
          PROVE  /\ courier'[o] = courier[o]
                 /\ released'[o] = released[o]
                      \/ \E w \in Requests : job[w].pc = "release" /\ job[w].order = o
                 /\ released[o] => released'[o]
      <3>1. CASE p = o
        BY <1>0, <2>2, <3>1 DEF Releases, TypeOK
      <3>2. CASE p # o
        BY <1>0, <2>2, <3>2 DEF Releases, TypeOK
      <3> QED
        BY <3>1, <3>2
    <2> QED
      BY <1>0, <2>1, <2>2, ClaimsMove
  <1>2. ASSUME NEW o \in Orders, released'[o]
        PROVE  stage'[o] = "ended" \/ reopened'[o]
    <2>1. CASE released[o]
      BY <1>0, <2>1, EndingKnown DEF ClaimsFollowOrder
    <2>2. CASE ~released[o]
      <3>1. Releases(o)
        BY <1>0, <1>2, <2>2, ClaimsMove DEF Claims, HandsOver, Releases, TypeOK
      <3>2. stage[o] = "ended" \/ reopened[o]
        BY <1>0, <3>1 DEF Releases, JobsTrue
      <3> QED
        BY <1>0, <3>2, EndingKnown
    <2> QED
      BY <2>1, <2>2
  <1>3. ASSUME NEW o \in Orders, stage'[o] = "ended", Owned(o)', ~released'[o]
        PROVE  Releasing(o)' \/ abandoned'[o]
    <2>1. CASE stage[o] # "ended"
      <3>1. CASE Drops(o)
        BY <1>3, <2>1, <3>1 DEF Drops, Releasable, Owned
      <3>2. ASSUME NEW w \in Requests, Writes(w, o) PROVE Releasing(o)'
        <4>1. job'[w] = [pc |-> "release", order |-> o]
          BY <1>3, <3>2 DEF Writes
        <4> QED
          BY <4>1 DEF Releasing
      <3> QED
        BY <1>0, <1>3, <2>1, <3>1, <3>2, StagesMove DEF Returns
    <2>2. CASE stage[o] = "ended"
      <3>1. Owned(o) /\ ~released[o]
        BY <1>1, <1>3, <2>2 DEF Owned
      <3>2. abandoned[o] => abandoned'[o]
        BY <1>0, HistoriesStay
      <3>3. ASSUME NEW w \in Requests, job[w].pc = "release", job[w].order = o
            PROVE  Releasing(o)' \/ abandoned'[o]
        <4>1. CASE job'[w] = job[w]
          BY <3>3, <4>1 DEF Releasing
        <4>2. CASE Release(w)
          BY <1>0, <1>3, <3>1, <3>3, <4>2 DEF Release, Releasable, TypeOK
        <4>3. CASE Die(w)
          BY <1>0, <3>3, <4>3 DEF Die, TypeOK
        <4>4. CASE \E p \in Orders, actor \in {"partner", "customer", "dispatch"}, to \in Stages :
                     LoadBundle(w, p, actor, to)
          BY <3>3, <4>4 DEF LoadBundle, Idle
        <4>5. CASE Commit(w)
          BY <3>3, <4>5 DEF Commit
        <4> QED
          BY <1>0, <3>3, <4>1, <4>2, <4>3, <4>4, <4>5, JobsMove DEF Turns
      <3> QED
        BY <1>0, <2>2, <3>1, <3>2, <3>3 DEF ClaimsFollowOrder, Releasing
    <2> QED
      BY <2>1, <2>2
  <1>4. ClaimsFollowOrder'
    BY <1>2, <1>3 DEF ClaimsFollowOrder
  <1> QED
    BY <1>0, <1>4 DEF ClaimInv

\* No claim is given back before its order ended, and no claim is left on an order that
\* ended but by the death of the request that was to give it back or by the payment window
\* or the acceptance deadline, whose writes release nobody, on a claim that was open: not by
\* an acceptance or an assignment that was on its way when the order ended, nor by an order
\* that was reopened and ended again.
THEOREM ClaimsFollowTheirOrder == Spec => []ClaimsFollowOrder
  <1>1. Init => ClaimInv
    BY ClaimInit
  <1>2. ClaimInv /\ [Next]_vars => ClaimInv'
    BY ClaimStep
  <1>3. ClaimInv => ClaimsFollowOrder
    BY DEF ClaimInv
  <1> QED
    BY <1>1, <1>2, <1>3, PTL DEF Spec
=============================================================================
