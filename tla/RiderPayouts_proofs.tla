------------------------ MODULE RiderPayouts_proofs ------------------------
(* Theorems about RiderPayouts, for every number of riders, earnings, payouts *)
(* and overlapping runs, and whatever the limits are.                         *)
EXTENDS RiderPayouts, TLAPS

-----------------------------------------------------------------------------
(* What a step makes of a run. *)

LEMMA Plans == NoPlan \in [Riders -> SUBSET Earnings]
  BY DEF NoPlan

LEMMA IdleRun ==
  ASSUME NEW pc \in {"idle", "stale", "release"}
  PROVE  LET x == [RunIdle EXCEPT !.pc = pc] IN
         x \in Run /\ x.pc = pc /\ x.list = {} /\ x.at = NoPayout
  BY Plans DEF RunIdle, Run, Transfers

LEMMA LookingRun ==
  ASSUME NEW list \in SUBSET Payouts
  PROVE  LET x == Looking(list) IN
         x \in Run /\ x.pc \in {"earnings", "look"} /\ x.list = list /\ x.at = NoPayout
  BY Plans DEF Looking, RunIdle, Run, Transfers

LEMMA ResendRun ==
  ASSUME NEW list \in SUBSET Payouts, NEW p \in Payouts
  PROVE  LET x == [Looking(list) EXCEPT !.pc = "resend", !.at = p] IN
         x \in Run /\ x.pc = "resend" /\ x.list = list /\ x.at = p
  BY Plans DEF Looking, RunIdle, Run, Transfers

LEMMA PlanRun ==
  ASSUME NEW es \in SUBSET Earnings
  PROVE  LET x == [RunIdle EXCEPT !.pc = "plan", !.pending = es] IN
         x \in Run /\ x.pc = "plan" /\ x.list = {} /\ x.at = NoPayout
  BY Plans DEF RunIdle, Run, Transfers

LEMMA PayingRun ==
  ASSUME NEW plan \in [Riders -> SUBSET Earnings]
  PROVE  LET x == Paying(plan) IN
         x \in Run /\ x.pc \in {"release", "create"} /\ x.list = {} /\ x.at = NoPayout
  BY Plans DEF Paying, RunIdle, Run, Transfers

LEMMA SendRun ==
  ASSUME NEW plan \in [Riders -> SUBSET Earnings], NEW p \in Payouts
  PROVE  LET x == [Paying(plan) EXCEPT !.pc = "send", !.at = p] IN
         x \in Run /\ x.pc = "send" /\ x.list = {} /\ x.at = p
  BY Plans DEF Paying, RunIdle, Run, Transfers

-----------------------------------------------------------------------------
(* The invariant. *)

Working == {"resend", "found", "resent", "send", "sent"}

\* No run is about to ask Paystack for the transfer of p, or to apply an answer to it.
Untouched(p) == \A w \in Runs : p \notin run[w].list /\ run[w].at # p

Unsent(p) == payout[p].status = "processing" /\ transfer[p] = "none" /\ p \notin late

\* The payout a run has just created is its own, and a refusal of it is final.
OwnPayout(u) ==
  LET p == run[u].at IN
  /\ ~payout[p].stale
  /\ \A w \in Runs : p \notin run[w].list /\ (run[w].at = p => w = u)
  /\ run[u].pc = "send" \/ run[u].answer = "rejected" => Unsent(p)

\* What Paystack said is still so, except that money may have come back.
AnswerTrue(u) ==
  LET p == run[u].at IN
  /\ run[u].answer = "success" => transfer[p] \in {"success", "reversed"}
  /\ run[u].answer = "failed" => transfer[p] = "failed"
  /\ run[u].answer = "reversed" => transfer[p] = "reversed"

RunTrue(u) ==
  /\ IF run[u].pc \in Working THEN run[u].at \in Payouts ELSE run[u].at = NoPayout
  /\ run[u].pc \in {"send", "sent"} => OwnPayout(u)
  /\ run[u].pc \in {"found", "resent", "sent"} => AnswerTrue(u)

PayoutTrue(p) ==
  /\ payout[p].status = "none" =>
       /\ transfer[p] = "none" /\ p \notin late /\ Untouched(p)
       /\ covers[p] = {} /\ ~payout[p].stale
  /\ payout[p].status \in {"processing", "paid"} =>
       \A e \in covers[p] : earning[e].payout = p
  /\ payout[p].status = "paid" => transfer[p] \in {"success", "reversed"}
  /\ payout[p].status \in {"failed", "reversed"} =>
       \/ transfer[p] \in {"failed", "reversed"}
       \/ transfer[p] = "none" /\ p \notin late /\ Untouched(p)
  /\ p \in late => transfer[p] = "none"

PayInv ==
  /\ TypeOK
  /\ NoEarningStranded
  /\ \A p \in Payouts : PayoutTrue(p)
  /\ \A u \in Runs : RunTrue(u)

LEMMA PayInit == Init => PayInv
  <1> SUFFICES ASSUME Init PROVE PayInv
    OBVIOUS
  <1>1. \A u \in Runs : run[u] = RunIdle
    BY DEF Init
  <1>2. RunIdle \in Run /\ RunIdle.pc = "idle" /\ RunIdle.list = {} /\ RunIdle.at = NoPayout
    BY Plans DEF RunIdle, Run, Transfers
  <1>3. TypeOK
    <2>1. run \in [Runs -> Run]
      BY <1>2 DEF Init
    <2> QED
      BY <2>1 DEF Init, TypeOK, Earning, Payout, Transfers
  <1>4. NoEarningStranded
    BY DEF Init, NoEarningStranded
  <1>5. ASSUME NEW p \in Payouts PROVE PayoutTrue(p)
    BY <1>1, <1>2, NoneAssumption DEF Init, PayoutTrue, Untouched
  <1>6. ASSUME NEW u \in Runs PROVE RunTrue(u)
    BY <1>1, <1>2 DEF RunTrue, Working
  <1> QED
    BY <1>3, <1>4, <1>5, <1>6 DEF PayInv

-----------------------------------------------------------------------------
(* Steps of a run that only read. *)

\* The new record x of run u: it takes up stale payouts, or some of those it had.
Reads(u, x) ==
  /\ x \in Run
  /\ run' = [run EXCEPT ![u] = x]
  /\ \A p \in x.list : p \in run[u].list \/ Stale(p)
  /\ x.at # NoPayout => x.at \in run[u].list
  /\ x.pc \notin {"send", "sent", "resent"}
  /\ x.pc \in {"resend", "found"} => x.at \in Payouts
  /\ x.pc \notin {"resend", "found"} => x.at = NoPayout
  /\ x.pc = "found" => x.answer = transfer[x.at]
  /\ UNCHANGED <<earning, payout, covers, recipient, transfer, late>>

LEMMA ReadsKeep ==
  ASSUME PayInv, NEW u \in Runs, NEW x, Reads(u, x), lease' \in Runs \cup {NoRun}
  PROVE  PayInv'
  <1>1. TypeOK /\ TypeOK'
    BY DEF PayInv, TypeOK, Reads
  <1>2. run'[u] = x /\ \A w \in Runs \ {u} : run'[w] = run[w]
    BY <1>1 DEF TypeOK, Reads
  <1>3. NoEarningStranded'
    BY DEF PayInv, NoEarningStranded, Reads
  <1>4. ASSUME NEW p \in Payouts, Untouched(p), ~Stale(p) PROVE Untouched(p)'
    BY <1>2, <1>4, NoneAssumption DEF Untouched, Reads
  <1>5. ASSUME NEW p \in Payouts PROVE PayoutTrue(p)'
    <2>1. PayoutTrue(p)
      BY DEF PayInv
    <2>2. UNCHANGED <<earning, payout, covers, transfer, late>>
      BY DEF Reads
    <2>3. payout[p].status \in {"none", "failed", "reversed"} => ~Stale(p)
      BY DEF Stale
    <2> QED
      BY <1>4, <2>1, <2>2, <2>3 DEF PayoutTrue
  <1>6. ASSUME NEW w \in Runs PROVE RunTrue(w)'
    <2>1. RunTrue(w)
      BY DEF PayInv
    <2>2. UNCHANGED <<payout, transfer, late>>
      BY DEF Reads
    <2>3. CASE w = u
      BY <1>2, <2>2, <2>3 DEF Reads, RunTrue, Working, AnswerTrue
    <2>4. CASE w # u
      <3>1. run'[w] = run[w]
        BY <1>2, <2>4
      <3>2. run[w].pc \in {"send", "sent"} => OwnPayout(w)'
        <4> SUFFICES ASSUME run[w].pc \in {"send", "sent"} PROVE OwnPayout(w)'
          OBVIOUS
        <4>1. OwnPayout(w) /\ run[w].at \in Payouts
          BY <2>1 DEF RunTrue, Working
        <4>2. ~Stale(run[w].at)
          BY <4>1 DEF OwnPayout, Stale
        <4>3. run[w].at \notin x.list /\ run[w].at # x.at
          BY <4>1, <4>2, NoneAssumption DEF OwnPayout, Reads
        <4> QED
          BY <1>2, <2>2, <3>1, <4>1, <4>3 DEF OwnPayout, Unsent
      <3> QED
        BY <2>1, <2>2, <3>1, <3>2 DEF RunTrue, AnswerTrue
    <2> QED
      BY <2>3, <2>4
  <1> QED
    BY <1>1, <1>3, <1>5, <1>6 DEF PayInv

-----------------------------------------------------------------------------
(* Requests for a transfer. *)

\* The outcomes of a request: a transfer appears, or none does; the answer tells.
Asks(u, p, pc, a, s) ==
  /\ run' = [run EXCEPT ![u].pc = pc, ![u].answer = a]
  /\ transfer' = [transfer EXCEPT ![p] = s]
  /\ \/ /\ transfer[p] = "none" /\ s \in {"pending", "otp", "success", "failed"}
        /\ a \in {s, "unknown"} /\ late' = late \ {p}
     \/ s = transfer[p] /\ a = "rejected" /\ late' = late
     \/ s = transfer[p] /\ a = "unknown" /\ (late' = late \/ (s = "none" /\ late' = late \cup {p}))

LEMMA RequestAsks ==
  ASSUME TypeOK, NEW u \in Runs, NEW p \in Payouts, NEW pc, Request(u, p, pc)
  PROVE  \E a, s : Asks(u, p, pc, a, s)
  <1>0. transfer = [transfer EXCEPT ![p] = transfer[p]]
    BY DEF TypeOK
  <1>1. ASSUME NEW s \in {"pending", "otp", "success", "failed"}, NEW a \in {s, "unknown"},
               transfer[p] = "none", transfer' = [transfer EXCEPT ![p] = s],
               run' = [run EXCEPT ![u].pc = pc, ![u].answer = a], late' = late \ {p}
        PROVE  Asks(u, p, pc, a, s)
    BY <1>1 DEF Asks
  <1>2. CASE run' = [run EXCEPT ![u].pc = pc, ![u].answer = "rejected"] /\ UNCHANGED <<transfer, late>>
    <2>1. Asks(u, p, pc, "rejected", transfer[p])
      BY <1>0, <1>2 DEF Asks
    <2> QED
      BY <2>1
  <1>3. CASE /\ run' = [run EXCEPT ![u].pc = pc, ![u].answer = "unknown"] /\ UNCHANGED transfer
             /\ late' \in {late} \cup (IF transfer[p] = "none" THEN {late \cup {p}} ELSE {})
    <2>1. Asks(u, p, pc, "unknown", transfer[p])
      BY <1>0, <1>3 DEF Asks
    <2> QED
      BY <2>1
  <1>4. CASE /\ \E s \in {"pending", "otp", "success", "failed"} :
                  /\ transfer[p] = "none" /\ transfer' = [transfer EXCEPT ![p] = s]
                  /\ \/ run' = [run EXCEPT ![u].pc = pc, ![u].answer = s]
                     \/ run' = [run EXCEPT ![u].pc = pc, ![u].answer = "unknown"]
             /\ late' = late \ {p}
    <2>1. PICK s \in {"pending", "otp", "success", "failed"} :
                  /\ transfer[p] = "none" /\ transfer' = [transfer EXCEPT ![p] = s]
                  /\ \/ run' = [run EXCEPT ![u].pc = pc, ![u].answer = s]
                     \/ run' = [run EXCEPT ![u].pc = pc, ![u].answer = "unknown"]
      BY <1>4
    <2>2. CASE run' = [run EXCEPT ![u].pc = pc, ![u].answer = s]
      <3>1. Asks(u, p, pc, s, s)
        BY <1>1, <1>4, <2>1, <2>2
      <3> QED
        BY <3>1
    <2>3. CASE run' = [run EXCEPT ![u].pc = pc, ![u].answer = "unknown"]
      <3>1. Asks(u, p, pc, "unknown", s)
        BY <1>1, <1>4, <2>1, <2>3
      <3> QED
        BY <3>1
    <2> QED
      BY <2>1, <2>2, <2>3
  <1> QED
    BY <1>2, <1>3, <1>4 DEF Request

LEMMA AsksKeep ==
  ASSUME PayInv, NEW u \in Runs, NEW pc, NEW a, NEW s,
         Asks(u, run[u].at, pc, a, s),
         \/ run[u].pc = "send" /\ pc = "sent"
         \/ run[u].pc = "resend" /\ pc = "resent",
         UNCHANGED <<earning, payout, covers, recipient, lease>>
  PROVE  PayInv'
  <1> DEFINE p == run[u].at
  <1>0. TypeOK /\ p \in Payouts /\ run[u] \in Run /\ RunTrue(u) /\ PayoutTrue(p)
    BY DEF PayInv, RunTrue, Working, TypeOK
  <1>1. /\ run'[u] = [run[u] EXCEPT !.pc = pc, !.answer = a]
        /\ \A w \in Runs \ {u} : run'[w] = run[w]
        /\ \A w \in Runs : run'[w].list = run[w].list /\ run'[w].at = run[w].at
        /\ run'[u].pc = pc /\ run'[u].answer = a
    BY <1>0 DEF TypeOK, Asks, Run
  <1>2. transfer'[p] = s /\ \A q \in Payouts \ {p} : transfer'[q] = transfer[q]
    BY <1>0 DEF TypeOK, Asks
  <1>3. \A q \in Payouts \ {p} : q \in late' <=> q \in late
    BY DEF Asks
  <1>4. TypeOK'
    <2>1. s \in Transfers /\ a \in Transfers \cup {"unknown", "rejected"} /\ late' \subseteq Payouts
      BY <1>0 DEF Asks, TypeOK, Transfers
    <2>2. [run[u] EXCEPT !.pc = pc, !.answer = a] \in Run
      BY <1>0, <2>1 DEF Run
    <2>3. run' \in [Runs -> Run]
      <3>1. run' = [run EXCEPT ![u] = [run[u] EXCEPT !.pc = pc, !.answer = a]]
        BY DEF Asks
      <3> QED
        BY <1>0, <2>2, <3>1 DEF TypeOK
    <2>4. transfer' \in [Payouts -> Transfers]
      BY <1>0, <2>1 DEF Asks, TypeOK
    <2> QED
      BY <1>0, <2>1, <2>3, <2>4 DEF TypeOK
  <1>5. NoEarningStranded'
    BY DEF PayInv, NoEarningStranded
  <1>6. \A q \in Payouts : Untouched(q)' <=> Untouched(q)
    BY <1>1 DEF Untouched
  <1>7. ~Untouched(p)
    BY DEF Untouched
  <1>8. transfer[p] = "none" => payout[p].status = "processing"
    BY <1>0, <1>7 DEF PayoutTrue, TypeOK, Payout
  <1>9. ASSUME NEW q \in Payouts PROVE PayoutTrue(q)'
    <2>1. PayoutTrue(q)
      BY DEF PayInv
    <2>2. CASE q # p
      BY <1>2, <1>3, <1>6, <2>1, <2>2 DEF PayoutTrue
    <2>3. CASE q = p
      <3>1. CASE transfer[p] = "none"
        BY <1>2, <1>8, <2>1, <2>3, <3>1 DEF PayoutTrue, Asks
      <3>2. CASE transfer[p] # "none"
        BY <1>2, <1>6, <1>7, <2>1, <2>3, <3>2 DEF PayoutTrue, Asks
      <3> QED
        BY <3>1, <3>2
    <2> QED
      BY <2>2, <2>3
  <1>10. ASSUME NEW w \in Runs PROVE RunTrue(w)'
    <2>1. RunTrue(w)
      BY DEF PayInv
    <2>2. CASE w = u
      <3>1. pc \in {"send", "sent"} => OwnPayout(u) /\ Unsent(p) /\ pc = "sent"
        BY <1>0 DEF RunTrue, OwnPayout
      <3>2. pc \in {"send", "sent"} => OwnPayout(u)'
        <4>1. a = "rejected" => transfer'[p] = transfer[p] /\ late' = late
          BY <1>2 DEF Asks
        <4> QED
          BY <1>1, <3>1, <4>1 DEF OwnPayout, Unsent
      <3>3. AnswerTrue(u)'
        BY <1>1, <1>2 DEF AnswerTrue, Asks
      <3> QED
        BY <1>0, <1>1, <2>2, <3>2, <3>3 DEF RunTrue, Working
    <2>3. CASE w # u
      <3>1. run'[w] = run[w]
        BY <1>1, <2>3
      <3>2. run[w].pc \in {"send", "sent"} => OwnPayout(w)'
        <4> SUFFICES ASSUME run[w].pc \in {"send", "sent"} PROVE OwnPayout(w)'
          OBVIOUS
        <4>1. OwnPayout(w) /\ run[w].at \in Payouts
          BY <2>1 DEF RunTrue, Working
        <4>2. run[w].at # p
          BY <2>3, <4>1 DEF OwnPayout
        <4> QED
          BY <1>1, <1>2, <1>3, <3>1, <4>1, <4>2 DEF OwnPayout, Unsent
      <3>3. run[w].pc \in {"found", "resent", "sent"} => AnswerTrue(w)'
        <4> SUFFICES ASSUME run[w].pc \in {"found", "resent", "sent"} PROVE AnswerTrue(w)'
          OBVIOUS
        <4>1. AnswerTrue(w) /\ run[w].at \in Payouts
          BY <2>1 DEF RunTrue, Working
        <4>2. transfer[run[w].at] = "none" \/ transfer'[run[w].at] = transfer[run[w].at]
          BY <1>2, <4>1 DEF Asks
        <4> QED
          BY <3>1, <4>1, <4>2 DEF AnswerTrue
      <3> QED
        BY <2>1, <3>1, <3>2, <3>3 DEF RunTrue
    <2> QED
      BY <2>2, <2>3
  <1> QED
    BY <1>4, <1>5, <1>9, <1>10 DEF PayInv

-----------------------------------------------------------------------------
(* Steps that settle or only mark payouts. *)

\* Runs go on as they are, or leave the payout they are at.
Leaves ==
  /\ run' \in [Runs -> Run]
  /\ \A w \in Runs :
       \/ run'[w] = run[w]
       \/ run'[w].at = NoPayout /\ run'[w].pc \notin Working /\ run'[w].list \subseteq run[w].list

LEMMA LeavesUntouched ==
  ASSUME Leaves, NEW p \in Payouts, Untouched(p)
  PROVE  Untouched(p)'
  BY NoneAssumption DEF Leaves, Untouched

\* The status of no payout changes.
Marks ==
  /\ payout' \in [Payouts -> Payout]
  /\ \A p \in Payouts :
       /\ payout'[p].status = payout[p].status
       /\ payout'[p].stale =>
            \/ payout[p].stale
            \/ /\ payout[p].status = "processing"
               /\ \A u \in Runs : run[u].at = p => run[u].pc \notin {"send", "sent"}

LEMMA MarksKeep ==
  ASSUME PayInv, Leaves, Marks, UNCHANGED <<earning, covers, transfer, late>>,
         recipient' \in [Riders -> {"ready", "held"}], lease' \in Runs \cup {NoRun}
  PROVE  PayInv'
  <1>1. TypeOK'
    BY DEF PayInv, TypeOK, Leaves, Marks
  <1>2. NoEarningStranded'
    <2> SUFFICES ASSUME NEW e \in Earnings, earning[e].payout # NoPayout
                 PROVE  payout'[earning[e].payout].status = payout[earning[e].payout].status
      BY DEF PayInv, NoEarningStranded
    <2>1. earning[e].payout \in Payouts
      BY DEF PayInv, TypeOK, Earning
    <2> QED
      BY <2>1 DEF Marks
  <1>3. ASSUME NEW p \in Payouts PROVE PayoutTrue(p)'
    BY <1>3, LeavesUntouched DEF PayInv, PayoutTrue, Marks
  <1>4. ASSUME NEW w \in Runs PROVE RunTrue(w)'
    <2>1. RunTrue(w)
      BY DEF PayInv
    <2>2. CASE run'[w].at = NoPayout /\ run'[w].pc \notin Working
      BY <2>2 DEF RunTrue, Working
    <2>3. CASE run'[w] = run[w]
      <3>1. run[w].pc \in {"send", "sent"} => OwnPayout(w)'
        <4> SUFFICES ASSUME run[w].pc \in {"send", "sent"} PROVE OwnPayout(w)'
          OBVIOUS
        <4>1. OwnPayout(w) /\ run[w].at \in Payouts
          BY <2>1 DEF RunTrue, Working
        <4>2. ~payout'[run[w].at].stale
          BY <4>1 DEF OwnPayout, Marks
        <4>3. \A v \in Runs : run[w].at \notin run'[v].list /\ (run'[v].at = run[w].at => v = w)
          BY <4>1, NoneAssumption DEF OwnPayout, Leaves
        <4>4. Unsent(run[w].at) => Unsent(run[w].at)'
          BY <2>3, <4>1 DEF Unsent, Marks
        <4> QED
          BY <2>3, <4>1, <4>2, <4>3, <4>4 DEF OwnPayout, Unsent
      <3> QED
        BY <2>1, <2>3, <3>1 DEF RunTrue, AnswerTrue
    <2> QED
      BY <2>2, <2>3 DEF Leaves
  <1> QED
    BY <1>1, <1>2, <1>3, <1>4 DEF PayInv

\* What may be written down: what has happened to the transfer, or that there is none
\* and nobody will ask for it.
Justified(p, outcome) ==
  \/ outcome = "success" /\ transfer[p] \in {"success", "reversed"}
  \/ outcome = "failed" /\ transfer[p] = "failed"
  \/ outcome = "reversed" /\ transfer[p] = "reversed"
  \/ outcome = "failed" /\ transfer[p] = "none" /\ p \notin late /\ Untouched(p)'

LEMMA SettleKeep ==
  ASSUME PayInv, Leaves, NEW p \in Payouts, NEW outcome, NEW hold \in BOOLEAN,
         NEW coded \in BOOLEAN, Settle(p, outcome, hold, coded), Justified(p, outcome),
         UNCHANGED <<covers, lease, transfer, late>>
  PROVE  PayInv'
  <1> DEFINE new == IF Pays(p, outcome) THEN "paid"
                    ELSE IF Releases(p, outcome) THEN outcome ELSE payout[p].status
  <1>0. TypeOK /\ NoEarningStranded /\ outcome \in {"success", "failed", "reversed"}
    BY DEF PayInv, Justified
  <1>1. /\ payout' \in [Payouts -> Payout]
        /\ payout'[p].status = new /\ ~payout'[p].stale
        /\ \A q \in Payouts \ {p} : payout'[q] = payout[q]
    <2>0. payout[p] \in Payout
      BY <1>0 DEF TypeOK
    <2>1. new \in {"none", "processing", "paid", "failed", "reversed"}
      <3>1. payout[p].status \in {"none", "processing", "paid", "failed", "reversed"}
        BY <2>0 DEF Payout
      <3> QED
        BY <1>0, <3>1 DEF Pays, Releases
    <2>2. payout' = [payout EXCEPT ![p] = [payout[p] EXCEPT
                        !.status = new, !.code = payout[p].code \/ coded, !.stale = FALSE]]
      BY DEF Settle
    <2>3. payout[p].code \in BOOLEAN
      BY <2>0 DEF Payout
    <2>4. [payout[p] EXCEPT !.status = new, !.code = payout[p].code \/ coded, !.stale = FALSE] \in Payout
      BY <2>0, <2>1, <2>3 DEF Payout
    <2> HIDE DEF new
    <2> QED
      BY <1>0, <2>0, <2>1, <2>2, <2>4 DEF TypeOK, Payout
  <1>2. /\ earning' \in [Earnings -> Earning]
        /\ \A e \in Earnings : earning'[e] =
             IF earning[e].payout # p THEN earning[e]
             ELSE IF Pays(p, outcome) THEN [status |-> "paid", payout |-> p]
             ELSE IF Releases(p, outcome) THEN [status |-> "pending", payout |-> NoPayout]
             ELSE earning[e]
    BY <1>0 DEF Settle, TypeOK, Earning, GivenBack
  <1>3. TypeOK'
    <2>1. recipient' \in [Riders -> {"ready", "held"}]
      BY <1>0 DEF Settle, TypeOK
    <2> QED
      BY <1>0, <1>1, <1>2, <2>1 DEF TypeOK, Leaves
  <1>4. NoEarningStranded'
    <2> SUFFICES ASSUME NEW e \in Earnings, earning'[e].payout # NoPayout \/ earning'[e].status \notin {"none", "pending"}
                 PROVE  /\ earning'[e].payout # NoPayout
                        /\ e \in covers[earning'[e].payout]
                        /\ payout'[earning'[e].payout].status = earning'[e].status
      BY DEF NoEarningStranded
    <2>1. earning[e] \in Earning
      BY <1>0 DEF TypeOK
    <2>2. CASE earning[e].payout # p
      BY <1>0, <1>1, <1>2, <2>1, <2>2 DEF NoEarningStranded, Earning
    <2>3. CASE earning[e].payout = p
      BY <1>0, <1>1, <1>2, <2>1, <2>3, NoneAssumption DEF NoEarningStranded, Earning
    <2> QED
      BY <2>2, <2>3
  <1>5. ASSUME NEW q \in Payouts PROVE PayoutTrue(q)'
    <2>1. PayoutTrue(q)
      BY DEF PayInv
    <2>2. CASE q # p
      <3>1. payout'[q] = payout[q]
        BY <1>1, <2>2
      <3>2. \A e \in Earnings : earning[e].payout = q => earning'[e].payout = q
        BY <1>2, <2>2
      <3>3. covers[q] \subseteq Earnings
        BY <1>0 DEF TypeOK
      <3> QED
        BY <2>1, <3>1, <3>2, <3>3, LeavesUntouched DEF PayoutTrue
    <2>3. CASE q = p
      <3>1. covers[p] \subseteq Earnings
        BY <1>0 DEF TypeOK
      <3>2. CASE Pays(p, outcome)
        <4>1. transfer[p] \in {"success", "reversed"} /\ new = "paid" /\ payout[p].status = "processing"
          BY <3>2 DEF Justified, Pays
        <4>2. \A e \in covers[p] : earning'[e].payout = p
          BY <1>2, <2>1, <2>3, <3>1, <3>2, <4>1 DEF PayoutTrue
        <4> QED
          BY <1>1, <2>1, <2>3, <4>1, <4>2 DEF PayoutTrue
      <3>3. CASE ~Pays(p, outcome) /\ Releases(p, outcome)
        <4>1. new = outcome /\ outcome \in {"failed", "reversed"}
          BY <3>3 DEF Releases
        <4>2. transfer[p] \in {"failed", "reversed"} \/ (transfer[p] = "none" /\ p \notin late /\ Untouched(p)')
          BY <4>1 DEF Justified
        <4> QED
          BY <1>1, <2>1, <2>3, <4>1, <4>2 DEF PayoutTrue
      <3>4. CASE ~Pays(p, outcome) /\ ~Releases(p, outcome)
        <4>1. payout'[p].status = payout[p].status /\ \A e \in Earnings : earning'[e] = earning[e]
          BY <1>1, <1>2, <3>4
        <4> QED
          BY <1>1, <2>1, <2>3, <3>1, <4>1, LeavesUntouched DEF PayoutTrue
      <3> QED
        BY <3>2, <3>3, <3>4
    <2> QED
      BY <2>2, <2>3
  <1>6. ASSUME NEW w \in Runs PROVE RunTrue(w)'
    <2>1. RunTrue(w)
      BY DEF PayInv
    <2>2. CASE run'[w].at = NoPayout /\ run'[w].pc \notin Working
      BY <2>2 DEF RunTrue, Working
    <2>3. CASE run'[w] = run[w]
      <3>1. run[w].pc \in {"send", "sent"} => OwnPayout(w)'
        <4> SUFFICES ASSUME run[w].pc \in {"send", "sent"} PROVE OwnPayout(w)'
          OBVIOUS
        <4>1. OwnPayout(w) /\ run[w].at \in Payouts
          BY <2>1 DEF RunTrue, Working
        <4>2. ~payout'[run[w].at].stale
          BY <1>1, <4>1 DEF OwnPayout
        <4>3. \A v \in Runs : run[w].at \notin run'[v].list /\ (run'[v].at = run[w].at => v = w)
          BY <4>1, NoneAssumption DEF OwnPayout, Leaves
        <4>4. Unsent(run[w].at) => Unsent(run[w].at)'
          <5> SUFFICES ASSUME Unsent(run[w].at) PROVE Unsent(run[w].at)'
            OBVIOUS
          <5>1. CASE run[w].at # p
            BY <1>1, <4>1, <2>3, <5>1 DEF Unsent
          <5>2. CASE run[w].at = p
            BY <2>3, <5>2 DEF Unsent, Justified, Untouched
          <5> QED
            BY <5>1, <5>2
        <4> QED
          BY <2>3, <4>1, <4>2, <4>3, <4>4 DEF OwnPayout, Unsent
      <3> QED
        BY <2>1, <2>3, <3>1 DEF RunTrue, AnswerTrue
    <2> QED
      BY <2>2, <2>3 DEF Leaves
  <1> QED
    BY <1>3, <1>4, <1>5, <1>6 DEF PayInv

-----------------------------------------------------------------------------
(* The steps. *)

\* A run that stops or goes on with its list or its plan.
LEMMA RunLeaves ==
  ASSUME PayInv, NEW u \in Runs, NEW x, run' = [run EXCEPT ![u] = x],
         x \in Run, x.at = NoPayout, x.pc \notin Working, x.list \subseteq run[u].list
  PROVE  Leaves
  BY DEF PayInv, TypeOK, Leaves

LEMMA SameLeaves ==
  ASSUME PayInv, UNCHANGED run
  PROVE  Leaves
  BY DEF PayInv, TypeOK, Leaves

LEMMA HaltLeaves ==
  ASSUME PayInv, NEW u \in Runs, NEW pc \in {"idle", "release"}, At(u, pc)
  PROVE  Leaves /\ run'[u].at = NoPayout /\ run'[u].list = {}
  <1>1. LET x == [RunIdle EXCEPT !.pc = pc] IN
        x \in Run /\ x.pc = pc /\ x.list = {} /\ x.at = NoPayout
    BY IdleRun
  <1>2. run'[u] = [RunIdle EXCEPT !.pc = pc]
    BY DEF At, PayInv, TypeOK
  <1> QED
    BY <1>1, <1>2, RunLeaves DEF At, Working

LEMMA ContinueLeaves ==
  ASSUME PayInv, NEW u \in Runs, Continue(u)
  PROVE  Leaves
  <1>1. run[u] \in Run
    BY DEF PayInv, TypeOK
  <1>2. CASE run[u].pc = "sent"
    <2>1. run[u].plan \in [Riders -> SUBSET Earnings]
      BY <1>1 DEF Run
    <2>2. LET x == Paying(run[u].plan) IN
          x \in Run /\ x.pc \in {"release", "create"} /\ x.list = {} /\ x.at = NoPayout
      BY <2>1, PayingRun
    <2>3. run' = [run EXCEPT ![u] = Paying(run[u].plan)]
      BY <1>2 DEF Continue
    <2> QED
      BY <2>2, <2>3, RunLeaves DEF Working
  <1>3. CASE run[u].pc # "sent"
    <2>1. run[u].list \in SUBSET Payouts
      BY <1>1 DEF Run
    <2>2. LET x == Looking(run[u].list) IN
          x \in Run /\ x.pc \in {"earnings", "look"} /\ x.list = run[u].list /\ x.at = NoPayout
      BY <2>1, LookingRun
    <2>3. run' = [run EXCEPT ![u] = Looking(run[u].list)]
      BY <1>3 DEF Continue
    <2> QED
      BY <2>2, <2>3, RunLeaves DEF Working
  <1> QED
    BY <1>2, <1>3

LEMMA StartKeep ==
  ASSUME PayInv, NEW u \in Runs, StartRun(u)
  PROVE  PayInv'
  <1>1. LET x == [RunIdle EXCEPT !.pc = "stale"] IN
        x \in Run /\ x.pc = "stale" /\ x.list = {} /\ x.at = NoPayout
    BY IdleRun
  <1>2. Reads(u, [RunIdle EXCEPT !.pc = "stale"])
    BY <1>1 DEF StartRun, At, Reads
  <1> QED
    BY <1>2, ReadsKeep DEF StartRun

LEMMA LoadStaleKeep ==
  ASSUME PayInv, NEW u \in Runs, LoadStale(u)
  PROVE  PayInv'
  <1> DEFINE list == {p \in Payouts : Stale(p)}
  <1>1. LET x == Looking(list) IN
        x \in Run /\ x.pc \in {"earnings", "look"} /\ x.list = list /\ x.at = NoPayout
    BY LookingRun
  <1>2. Reads(u, Looking(list))
    BY <1>1 DEF LoadStale, Reads
  <1> QED
    BY <1>2, ReadsKeep DEF LoadStale, PayInv, TypeOK

LEMMA VerifyKeep ==
  ASSUME PayInv, NEW u \in Runs, VerifyFinds(u) \/ VerifyRefused(u) \/ VerifyLeaves(u)
  PROVE  PayInv'
  <1>0. run[u].list \in SUBSET Payouts /\ transfer \in [Payouts -> Transfers] /\ lease' \in Runs \cup {NoRun}
    BY DEF PayInv, TypeOK, Run, VerifyFinds, VerifyRefused, VerifyLeaves
  <1>1. CASE VerifyFinds(u)
    <2>1. PICK p \in run[u].list :
            run' = [run EXCEPT ![u] = [Looking(@.list \ {p}) EXCEPT
                                         !.pc = "found", !.at = p, !.answer = transfer[p]]]
      BY <1>1 DEF VerifyFinds
    <2> DEFINE x == [Looking(run[u].list \ {p}) EXCEPT !.pc = "found", !.at = p, !.answer = transfer[p]]
    <2>2. x \in Run /\ x.pc = "found" /\ x.list = run[u].list \ {p} /\ x.at = p /\ x.answer = transfer[p]
      BY <1>0, Plans DEF Looking, RunIdle, Run, Transfers
    <2>3. run' = [run EXCEPT ![u] = x]
      BY <2>1
    <2> HIDE DEF x
    <2>4. Reads(u, x)
      BY <1>0, <1>1, <2>1, <2>2, <2>3 DEF Reads, VerifyFinds
    <2> QED
      BY <1>0, <2>4, ReadsKeep
  <1>2. CASE VerifyRefused(u)
    <2>1. PICK p \in run[u].list :
            run' = [run EXCEPT ![u] = [Looking(@.list \ {p}) EXCEPT !.pc = "resend", !.at = p]]
      BY <1>2 DEF VerifyRefused
    <2> DEFINE x == [Looking(run[u].list \ {p}) EXCEPT !.pc = "resend", !.at = p]
    <2>2. x \in Run /\ x.pc = "resend" /\ x.list = run[u].list \ {p} /\ x.at = p
      BY <1>0, <2>1, ResendRun
    <2>3. run' = [run EXCEPT ![u] = x]
      BY <2>1
    <2> HIDE DEF x
    <2>4. Reads(u, x)
      BY <1>0, <1>2, <2>1, <2>2, <2>3 DEF Reads, VerifyRefused
    <2> QED
      BY <1>0, <2>4, ReadsKeep
  <1>3. CASE VerifyLeaves(u)
    <2>1. PICK p \in run[u].list : run' = [run EXCEPT ![u] = Looking(@.list \ {p})]
      BY <1>3 DEF VerifyLeaves
    <2>2. LET x == Looking(run[u].list \ {p}) IN
          x \in Run /\ x.pc \in {"earnings", "look"} /\ x.list = run[u].list \ {p} /\ x.at = NoPayout
      BY <1>0, <2>1, LookingRun
    <2>3. Leaves
      BY <2>1, <2>2, RunLeaves DEF Working
    <2>4. Marks
      BY <1>3 DEF Marks, VerifyLeaves, PayInv, TypeOK
    <2> QED
      BY <1>3, <2>3, <2>4, MarksKeep DEF VerifyLeaves, PayInv, TypeOK
  <1> QED
    BY <1>1, <1>2, <1>3

LEMMA RequestKeep ==
  ASSUME PayInv, NEW u \in Runs, Resend(u) \/ Send(u)
  PROVE  PayInv'
  <1>1. RunTrue(u) /\ TypeOK
    BY DEF PayInv
  <1>2. run[u].at \in Payouts
    BY <1>1 DEF RunTrue, Working, Resend, Send
  <1>3. CASE Resend(u)
    <2>1. \E a, s : Asks(u, run[u].at, "resent", a, s)
      BY <1>1, <1>2, <1>3, RequestAsks DEF Resend
    <2> QED
      BY <1>3, <2>1, AsksKeep DEF Resend
  <1>4. CASE Send(u)
    <2>1. \E a, s : Asks(u, run[u].at, "sent", a, s)
      BY <1>1, <1>2, <1>4, RequestAsks DEF Send
    <2> QED
      BY <1>4, <2>1, AsksKeep DEF Send
  <1> QED
    BY <1>3, <1>4

LEMMA LoadEarningsKeep ==
  ASSUME PayInv, NEW u \in Runs, LoadEarnings(u)
  PROVE  PayInv'
  <1>1. CASE At(u, "release")
    <2>1. Leaves
      BY <1>1, HaltLeaves
    <2>2. Marks
      BY DEF Marks, LoadEarnings, PayInv, TypeOK
    <2> QED
      BY <2>1, <2>2, MarksKeep DEF LoadEarnings, PayInv, TypeOK
  <1>2. CASE run' = [run EXCEPT ![u] = [RunIdle EXCEPT !.pc = "plan", !.pending = Pending]]
    <2>1. LET x == [RunIdle EXCEPT !.pc = "plan", !.pending = Pending] IN
          x \in Run /\ x.pc = "plan" /\ x.list = {} /\ x.at = NoPayout
      BY PlanRun DEF Pending
    <2>2. Leaves
      BY <1>2, <2>1, RunLeaves DEF Working
    <2>3. Marks
      BY DEF Marks, LoadEarnings, PayInv, TypeOK
    <2> QED
      BY <2>2, <2>3, MarksKeep DEF LoadEarnings, PayInv, TypeOK
  <1> QED
    BY <1>1, <1>2 DEF LoadEarnings

LEMMA MakePlanKeep ==
  ASSUME PayInv, NEW u \in Runs, MakePlan(u)
  PROVE  PayInv'
  <1>1. PICK plan \in [Riders -> SUBSET run[u].pending] : run' = [run EXCEPT ![u] = Paying(plan)]
    BY DEF MakePlan
  <1>2. plan \in [Riders -> SUBSET Earnings]
    BY <1>1 DEF PayInv, TypeOK, Run
  <1>3. LET x == Paying(plan) IN
        x \in Run /\ x.pc \in {"release", "create"} /\ x.list = {} /\ x.at = NoPayout
    BY <1>2, PayingRun
  <1>4. Leaves
    BY <1>1, <1>3, RunLeaves DEF Working
  <1>5. Marks
    BY DEF Marks, MakePlan, PayInv, TypeOK
  <1> QED
    BY <1>4, <1>5, MarksKeep DEF MakePlan, PayInv, TypeOK

LEMMA CreateKeep ==
  ASSUME PayInv, NEW u \in Runs, CreatePayout(u)
  PROVE  PayInv'
  <1>0. TypeOK /\ run[u] \in Run /\ run[u].plan \in [Riders -> SUBSET Earnings]
    BY DEF PayInv, TypeOK, Run
  <1>1. PICK r \in Riders :
          LET es   == run[u].plan[r]
              rest == Paying([run[u].plan EXCEPT ![r] = {}])
          IN IF Creatable(r, es)
               THEN \E p \in Payouts :
                    /\ payout[p].status = "none"
                    /\ payout' = [payout EXCEPT ![p].status = "processing"]
                    /\ covers' = [covers EXCEPT ![p] = es]
                    /\ earning' = [e \in Earnings |->
                         IF e \in es THEN [status |-> "processing", payout |-> p] ELSE earning[e]]
                    /\ run' = [run EXCEPT ![u] = [rest EXCEPT !.pc = "send", !.at = p]]
               ELSE run' = [run EXCEPT ![u] = rest] /\ UNCHANGED <<earning, payout, covers>>
    BY DEF CreatePayout
  <1> DEFINE es   == run[u].plan[r]
             plan == [run[u].plan EXCEPT ![r] = {}]
  <1>2. es \in SUBSET Earnings /\ plan \in [Riders -> SUBSET Earnings]
    BY <1>0
  <1> HIDE DEF plan
  <1>3. UNCHANGED <<recipient, lease, transfer, late>>
    BY DEF CreatePayout
  <1>4. CASE ~Creatable(r, es)
    <2>1. run' = [run EXCEPT ![u] = Paying(plan)] /\ UNCHANGED <<earning, payout, covers>>
      BY <1>1, <1>4 DEF plan
    <2>2. LET x == Paying(plan) IN
          x \in Run /\ x.pc \in {"release", "create"} /\ x.list = {} /\ x.at = NoPayout
      BY <1>2, PayingRun
    <2>3. Leaves
      BY <2>1, <2>2, RunLeaves DEF Working
    <2>4. Marks
      BY <1>0, <2>1 DEF Marks, TypeOK
    <2> QED
      BY <1>0, <1>3, <2>1, <2>3, <2>4, MarksKeep DEF TypeOK
  <1>5. CASE Creatable(r, es)
    <2>1. PICK p \in Payouts :
            /\ payout[p].status = "none"
            /\ payout' = [payout EXCEPT ![p].status = "processing"]
            /\ covers' = [covers EXCEPT ![p] = es]
            /\ earning' = [e \in Earnings |->
                 IF e \in es THEN [status |-> "processing", payout |-> p] ELSE earning[e]]
            /\ run' = [run EXCEPT ![u] = [Paying(plan) EXCEPT !.pc = "send", !.at = p]]
      BY <1>1, <1>5 DEF plan
    <2> DEFINE x == [Paying(plan) EXCEPT !.pc = "send", !.at = p]
    <2>2. x \in Run /\ x.pc = "send" /\ x.list = {} /\ x.at = p
      BY <1>2, SendRun
    <2>3. run' = [run EXCEPT ![u] = x]
      BY <2>1
    <2> HIDE DEF x
    <2>4. run'[u] = x /\ \A w \in Runs \ {u} : run'[w] = run[w]
      BY <1>0, <2>3 DEF TypeOK
    <2>5. \A e \in es : earning[e].status = "pending" /\ earning[e].payout = NoPayout
      BY <1>5 DEF Creatable, Unclaimed, Pending
    <2>6. PayoutTrue(p) /\ transfer[p] = "none" /\ p \notin late /\ Untouched(p) /\ covers[p] = {}
          /\ ~payout[p].stale
      BY <2>1 DEF PayInv, PayoutTrue
    <2>7. /\ payout'[p].status = "processing" /\ ~payout'[p].stale
          /\ \A q \in Payouts \ {p} : payout'[q] = payout[q] /\ covers'[q] = covers[q]
          /\ covers'[p] = es
      BY <1>0, <2>1, <2>6 DEF TypeOK, Payout
    <2>8. TypeOK'
      <3>1. payout' \in [Payouts -> Payout] /\ covers' \in [Payouts -> SUBSET Earnings]
        BY <1>0, <1>2, <2>1 DEF TypeOK, Payout
      <3>2. earning' \in [Earnings -> Earning]
        BY <1>0, <2>1 DEF TypeOK, Earning
      <3>3. run' \in [Runs -> Run]
        BY <1>0, <2>2, <2>3 DEF TypeOK
      <3> QED
        BY <1>0, <1>3, <3>1, <3>2, <3>3 DEF TypeOK
    <2>9. NoEarningStranded'
      <3> SUFFICES ASSUME NEW e \in Earnings,
                          earning'[e].payout # NoPayout \/ earning'[e].status \notin {"none", "pending"}
                   PROVE  /\ earning'[e].payout # NoPayout
                          /\ e \in covers'[earning'[e].payout]
                          /\ payout'[earning'[e].payout].status = earning'[e].status
        BY DEF NoEarningStranded
      <3>1. CASE e \in es
        BY <2>1, <2>7, <3>1, NoneAssumption
      <3>2. CASE e \notin es
        <4>1. earning'[e] = earning[e] /\ earning[e] \in Earning
          BY <1>0, <2>1, <3>2 DEF TypeOK
        <4>2. /\ earning[e].payout \in Payouts /\ e \in covers[earning[e].payout]
              /\ payout[earning[e].payout].status = earning[e].status
          BY <4>1 DEF PayInv, NoEarningStranded, Earning
        <4>3. earning[e].payout # p
          BY <2>6, <4>2
        <4> QED
          BY <2>7, <4>1, <4>2, <4>3, NoneAssumption
      <3> QED
        BY <3>1, <3>2
    <2>10. ASSUME NEW q \in Payouts PROVE PayoutTrue(q)'
      <3>1. PayoutTrue(q)
        BY DEF PayInv
      <3>2. CASE q = p
        <4>1. \A e \in covers'[p] : earning'[e].payout = p
          BY <1>2, <2>1, <2>7
        <4> QED
          BY <1>3, <2>6, <2>7, <3>2, <4>1 DEF PayoutTrue
      <3>3. CASE q # p
        <4>1. \A e \in covers[q] : earning[e].payout = q => earning'[e].payout = q
          BY <1>0, <2>1, <2>5, NoneAssumption DEF TypeOK
        <4>2. Untouched(q) => Untouched(q)'
          BY <2>2, <2>4, <3>3 DEF Untouched
        <4> QED
          BY <1>3, <2>7, <3>1, <3>3, <4>1, <4>2 DEF PayoutTrue
      <3> QED
        BY <3>2, <3>3
    <2>11. ASSUME NEW w \in Runs PROVE RunTrue(w)'
      <3>1. RunTrue(w)
        BY DEF PayInv
      <3>2. CASE w = u
        <4>1. OwnPayout(u)'
          BY <1>3, <2>2, <2>4, <2>6, <2>7 DEF OwnPayout, Untouched, Unsent
        <4> QED
          BY <2>2, <2>4, <3>2, <4>1 DEF RunTrue, Working
      <3>3. CASE w # u
        <4>1. run'[w] = run[w] /\ run[w].at # p
          BY <2>4, <2>6, <3>3 DEF Untouched
        <4>2. run[w].pc \in {"send", "sent"} => OwnPayout(w)'
          <5> SUFFICES ASSUME run[w].pc \in {"send", "sent"} PROVE OwnPayout(w)'
            OBVIOUS
          <5>1. OwnPayout(w) /\ run[w].at \in Payouts
            BY <3>1 DEF RunTrue, Working
          <5>2. payout'[run[w].at] = payout[run[w].at]
            BY <2>7, <4>1, <5>1
          <5> QED
            BY <1>3, <2>2, <2>4, <4>1, <5>1, <5>2 DEF OwnPayout, Unsent
        <4> QED
          BY <1>3, <3>1, <4>1, <4>2 DEF RunTrue, AnswerTrue
      <3> QED
        BY <3>2, <3>3
    <2> QED
      BY <2>8, <2>9, <2>10, <2>11 DEF PayInv
  <1> QED
    BY <1>4, <1>5

LEMMA ApplyKeep ==
  ASSUME PayInv, NEW u \in Runs, Apply(u)
  PROVE  PayInv'
  <1>0. TypeOK /\ RunTrue(u) /\ run[u].pc \in {"found", "resent", "sent"}
    BY DEF PayInv, Apply, ApplyNothing, ApplyRefusal, ApplyFinal, ApplyInProgress, Applying
  <1>a. PICK p \in Payouts : p = run[u].at
    BY <1>0 DEF RunTrue, Working
  <1>b. PICK a : a = run[u].answer
    OBVIOUS
  <1>1. AnswerTrue(u) /\ p = run[u].at /\ a = run[u].answer
    BY <1>0, <1>a, <1>b DEF RunTrue
  <1>2. Halt(u) => Leaves /\ run'[u].at = NoPayout /\ run'[u].list = {}
    BY HaltLeaves DEF Halt
  <1>3. Continue(u) => Leaves
    BY ContinueLeaves
  <1>4. CASE ApplyNothing(u)
    <2>1. Marks
      BY <1>0, <1>4 DEF Marks, ApplyNothing, TypeOK
    <2> QED
      BY <1>0, <1>2, <1>4, <2>1, MarksKeep DEF ApplyNothing, TypeOK
  <1>5. CASE ApplyRefusal(u)
    <2>1. OwnPayout(u) /\ a = "rejected"
      BY <1>0, <1>1, <1>5 DEF ApplyRefusal, Refused, RunTrue
    <2>2. Leaves /\ run'[u].at = NoPayout /\ run'[u].list = {}
      BY <1>2, <1>5 DEF ApplyRefusal
    <2>3. Untouched(p)'
      BY <1>1, <2>1, <2>2, NoneAssumption DEF OwnPayout, Untouched, Leaves
    <2>4. Justified(p, "failed")
      BY <1>1, <2>1, <2>3 DEF Justified, OwnPayout, Unsent
    <2> QED
      BY <1>1, <1>5, <2>2, <2>4, SettleKeep DEF ApplyRefusal
  <1>6. CASE ApplyFinal(u)
    <2> DEFINE found == run[u].pc = "found"
    <2>1. Justified(p, a)
      BY <1>1, <1>6 DEF ApplyFinal, AnswerTrue, Justified
    <2>2. Leaves
      BY <1>2, <1>3, <1>6 DEF ApplyFinal
    <2>3. Settle(p, a, a # "success" /\ found, TRUE) /\ UNCHANGED <<covers, lease, transfer, late>>
      BY <1>1, <1>6 DEF ApplyFinal
    <2>4. (a # "success" /\ found) \in BOOLEAN
      OBVIOUS
    <2> HIDE DEF found
    <2> QED
      BY <1>1, <2>1, <2>2, <2>3, <2>4, SettleKeep
  <1>7. CASE ApplyInProgress(u)
    <2>1. Leaves
      BY <1>2, <1>3, <1>7 DEF ApplyInProgress
    <2>2. payout' = payout \/ payout' = [payout EXCEPT ![p] = [payout[p] EXCEPT !.code = TRUE, !.stale = FALSE]]
      BY <1>1, <1>7 DEF ApplyInProgress
    <2>3. Marks
      <3>1. payout[p] \in Payout
        BY <1>0 DEF TypeOK
      <3>2. CASE payout' = payout
        BY <1>0, <3>2 DEF Marks, TypeOK
      <3>3. CASE payout' = [payout EXCEPT ![p] = [payout[p] EXCEPT !.code = TRUE, !.stale = FALSE]]
        <4>1. [payout[p] EXCEPT !.code = TRUE, !.stale = FALSE] \in Payout
          BY <3>1 DEF Payout
        <4>2. /\ payout'[p].status = payout[p].status /\ ~payout'[p].stale
              /\ payout' \in [Payouts -> Payout]
          BY <1>0, <3>1, <3>3, <4>1 DEF TypeOK, Payout
        <4>3. \A q \in Payouts \ {p} : payout'[q] = payout[q]
          BY <1>0, <3>3 DEF TypeOK
        <4> QED
          BY <4>2, <4>3 DEF Marks
      <3> QED
        BY <2>2, <3>2, <3>3
    <2> QED
      BY <1>0, <1>7, <2>1, <2>3, MarksKeep DEF ApplyInProgress, TypeOK
  <1> QED
    BY <1>4, <1>5, <1>6, <1>7 DEF Apply

LEMMA StopKeep ==
  ASSUME PayInv, NEW u \in Runs, ReleaseLease(u) \/ Stop(u)
  PROVE  PayInv'
  <1>0. TypeOK
    BY DEF PayInv
  <1>1. Leaves
    BY HaltLeaves DEF ReleaseLease, Stop
  <1>2. Marks
    BY <1>0 DEF Marks, ReleaseLease, Stop, TypeOK
  <1>3. lease' \in Runs \cup {NoRun}
    BY <1>0 DEF ReleaseLease, Stop, Released, TypeOK
  <1> QED
    BY <1>0, <1>1, <1>2, <1>3, MarksKeep DEF ReleaseLease, Stop, TypeOK

\* Only the transfer of p changes.
LEMMA TransferKeep ==
  ASSUME PayInv, NEW p \in Payouts, BankMoves(p) \/ LateLands(p)
  PROVE  PayInv'
  <1>0. TypeOK /\ PayoutTrue(p)
    BY DEF PayInv
  <1>1. PICK s \in Transfers :
          /\ transfer' = [transfer EXCEPT ![p] = s]
          /\ \/ <<transfer[p], s>> \in Edges /\ late' = late
             \/ transfer[p] = "none" /\ s \in {"pending", "otp"} /\ p \in late /\ late' = late \ {p}
    BY <1>0 DEF BankMoves, LateLands, PayoutTrue, Transfers
  <1>2. transfer'[p] = s /\ \A q \in Payouts \ {p} : transfer'[q] = transfer[q]
    BY <1>0, <1>1 DEF TypeOK
  <1>3. UNCHANGED <<earning, payout, covers, recipient, lease, run>>
    BY DEF BankMoves, LateLands
  <1>4. \/ transfer[p] = "pending" /\ s \in {"success", "failed"} /\ late' = late
        \/ transfer[p] = "otp" /\ s \in {"pending", "failed"} /\ late' = late
        \/ transfer[p] = "success" /\ s = "reversed" /\ late' = late
        \/ transfer[p] = "none" /\ s \in {"pending", "otp"} /\ p \in late /\ late' = late \ {p}
    BY <1>1 DEF Edges
  <1>5. TypeOK'
    BY <1>0, <1>1, <1>3 DEF TypeOK
  <1>6. NoEarningStranded'
    BY <1>3 DEF PayInv, NoEarningStranded
  <1>7. ASSUME NEW q \in Payouts PROVE PayoutTrue(q)'
    <2>1. PayoutTrue(q) /\ (Untouched(q)' <=> Untouched(q))
      BY <1>3 DEF PayInv, Untouched
    <2>2. CASE q # p
      BY <1>2, <1>3, <1>4, <2>1, <2>2 DEF PayoutTrue
    <2>3. CASE q = p
      <3>1. payout[p].status \in {"none", "processing", "paid", "failed", "reversed"}
        BY <1>0 DEF TypeOK, Payout
      <3> QED
        BY <1>2, <1>3, <1>4, <2>1, <2>3, <3>1 DEF PayoutTrue
    <2> QED
      BY <2>2, <2>3
  <1>8. ASSUME NEW w \in Runs PROVE RunTrue(w)'
    <2>1. RunTrue(w)
      BY DEF PayInv
    <2>2. run[w].at \in Payouts /\ OwnPayout(w) => OwnPayout(w)'
      <3> SUFFICES ASSUME OwnPayout(w), run[w].at \in Payouts PROVE OwnPayout(w)'
        OBVIOUS
      <3>1. CASE run[w].at # p
        BY <1>2, <1>3, <1>4, <3>1 DEF OwnPayout, Unsent
      <3>2. CASE run[w].at = p
        BY <1>2, <1>3, <1>4, <3>2 DEF OwnPayout, Unsent
      <3> QED
        BY <3>1, <3>2
    <2>3. run[w].at \in Payouts /\ AnswerTrue(w) => AnswerTrue(w)'
      BY <1>2, <1>3, <1>4 DEF AnswerTrue
    <2> QED
      BY <1>3, <2>1, <2>2, <2>3 DEF RunTrue, Working
  <1> QED
    BY <1>5, <1>6, <1>7, <1>8 DEF PayInv

LEMMA WebhookKeep ==
  ASSUME PayInv, NEW p \in Payouts, Webhook(p)
  PROVE  PayInv'
  <1>1. PICK outcome \in Happened(p) : Settle(p, outcome, outcome # "success", TRUE)
    BY DEF Webhook
  <1>2. Justified(p, outcome)
    BY <1>1 DEF Happened, Justified
  <1>3. Leaves
    BY SameLeaves DEF Webhook
  <1>4. (outcome # "success") \in BOOLEAN
    OBVIOUS
  <1> QED
    BY <1>1, <1>2, <1>3, <1>4, SettleKeep DEF Webhook

LEMMA ClearKeep ==
  ASSUME PayInv, NEW e \in Earnings, Clear(e)
  PROVE  PayInv'
  <1>0. TypeOK /\ earning[e] \in Earning
    BY DEF PayInv, TypeOK
  <1>1. earning[e].payout = NoPayout
    <2> SUFFICES ASSUME earning[e].payout # NoPayout PROVE FALSE
      OBVIOUS
    <2>1. LET q == earning[e].payout IN q \in Payouts /\ e \in covers[q] /\ payout[q].status = "none"
      BY <1>0 DEF PayInv, NoEarningStranded, Clear, Earning
    <2> QED
      BY <2>1 DEF PayInv, PayoutTrue
  <1>2. /\ earning' \in [Earnings -> Earning]
        /\ earning'[e].status = "pending" /\ earning'[e].payout = NoPayout
        /\ \A f \in Earnings \ {e} : earning'[f] = earning[f]
    BY <1>0, <1>1 DEF Clear, TypeOK, Earning
  <1>3. UNCHANGED <<payout, covers, recipient, lease, run, transfer, late>>
    BY DEF Clear
  <1>4. TypeOK'
    BY <1>0, <1>2, <1>3 DEF TypeOK
  <1>5. NoEarningStranded'
    BY <1>2, <1>3 DEF PayInv, NoEarningStranded
  <1>6. ASSUME NEW q \in Payouts PROVE PayoutTrue(q)'
    <2>1. covers[q] \subseteq Earnings /\ PayoutTrue(q) /\ (Untouched(q)' <=> Untouched(q))
      BY <1>0, <1>3 DEF PayInv, TypeOK, Untouched
    <2>2. \A f \in Earnings : earning'[f].payout = earning[f].payout
      BY <1>1, <1>2
    <2> QED
      BY <1>3, <2>1, <2>2 DEF PayoutTrue
  <1>7. ASSUME NEW w \in Runs PROVE RunTrue(w)'
    BY <1>3 DEF PayInv, RunTrue, OwnPayout, Unsent, AnswerTrue
  <1> QED
    BY <1>4, <1>5, <1>6, <1>7 DEF PayInv

LEMMA TimeKeep ==
  ASSUME PayInv, \/ LeaseExpires \/ NextDay
                 \/ \E p \in Payouts : GrowStale(p)
                 \/ \E r \in Riders : RecipientChanges(r)
  PROVE  PayInv'
  <1>0. TypeOK
    BY DEF PayInv
  <1>1. Leaves
    BY SameLeaves DEF LeaseExpires, NextDay, GrowStale, RecipientChanges
  <1>2. Marks
    <2>1. CASE \E p \in Payouts : GrowStale(p)
      <3>1. PICK p \in Payouts : GrowStale(p)
        BY <2>1
      <3>2. payout' = [payout EXCEPT ![p] = [payout[p] EXCEPT !.stale = TRUE]] /\ payout[p] \in Payout
        BY <1>0, <3>1 DEF GrowStale, TypeOK
      <3>3. payout'[p].status = payout[p].status /\ payout' \in [Payouts -> Payout]
        BY <1>0, <3>2 DEF TypeOK, Payout
      <3>4. \A q \in Payouts \ {p} : payout'[q] = payout[q]
        BY <1>0, <3>2 DEF TypeOK
      <3> QED
        BY <3>1, <3>3, <3>4 DEF Marks, GrowStale
    <2>2. CASE NextDay
      <3>1. \A p \in Payouts : Older(p) \in {"today", "yesterday", "old"}
        BY DEF Older
      <3> QED
        BY <1>0, <2>2, <3>1 DEF NextDay, Marks, TypeOK, Payout
    <2>3. CASE UNCHANGED payout
      BY <1>0, <2>3 DEF Marks, TypeOK
    <2> QED
      BY <2>1, <2>2, <2>3 DEF LeaseExpires, RecipientChanges
  <1>3. recipient' \in [Riders -> {"ready", "held"}] /\ lease' \in Runs \cup {NoRun}
    BY <1>0 DEF TypeOK, LeaseExpires, NextDay, GrowStale, RecipientChanges
  <1>4. UNCHANGED <<earning, covers, transfer, late>>
    BY DEF LeaseExpires, NextDay, GrowStale, RecipientChanges
  <1> QED
    BY <1>1, <1>2, <1>3, <1>4, MarksKeep

LEMMA PayNext ==
  ASSUME PayInv, [Next]_vars
  PROVE  PayInv'
  <1>1. CASE UNCHANGED vars
    BY <1>1 DEF vars, PayInv, TypeOK, NoEarningStranded, PayoutTrue, RunTrue, Untouched,
                OwnPayout, Unsent, AnswerTrue
  <1>2. ASSUME NEW u \in Runs, StartRun(u) \/ RunStep(u) \/ Stop(u) PROVE PayInv'
    BY <1>2, StartKeep, LoadStaleKeep, VerifyKeep, RequestKeep, LoadEarningsKeep, MakePlanKeep,
       CreateKeep, ApplyKeep, StopKeep DEF RunStep
  <1>3. ASSUME NEW p \in Payouts, BankMoves(p) \/ LateLands(p) \/ Webhook(p) \/ GrowStale(p)
        PROVE  PayInv'
    BY <1>3, TransferKeep, WebhookKeep, TimeKeep
  <1>4. ASSUME NEW e \in Earnings, Clear(e) PROVE PayInv'
    BY <1>4, ClearKeep
  <1>5. CASE LeaseExpires \/ NextDay \/ \E r \in Riders : RecipientChanges(r)
    BY <1>5, TimeKeep
  <1> QED
    BY <1>1, <1>2, <1>3, <1>4, <1>5 DEF Next

LEMMA SpecPayInv == Spec => []PayInv
  BY PayInit, PayNext, PTL DEF Spec

\* TypeOK: every row, transfer and run keeps its type.
THEOREM TypeCorrect == Spec => []TypeOK
  <1>1. PayInv => TypeOK
    BY DEF PayInv
  <1> QED
    BY <1>1, SpecPayInv, PTL

\* NoEarningStranded: an earning that is not pending is in a payout of the same status,
\* which covers it, whatever runs overlap and wherever they die.
THEOREM NothingStranded == Spec => []NoEarningStranded
  <1>1. PayInv => NoEarningStranded
    BY DEF PayInv
  <1> QED
    BY <1>1, SpecPayInv, PTL

\* BooksMatchBank: a payout is marked paid only for a transfer that paid, and gives its
\* earnings back only if its transfer never pays, whatever answers and webhooks are lost,
\* late, repeated or reordered.
THEOREM BooksAgree == Spec => []BooksMatchBank
  <1>1. PayInv => BooksMatchBank
    BY DEF PayInv, PayoutTrue, BooksMatchBank
  <1> QED
    BY <1>1, SpecPayInv, PTL

-----------------------------------------------------------------------------
(* An earning is paid for once. *)

LEMMA SoleCover ==
  ASSUME PayInv, NEW p \in Payouts, NEW q \in Payouts,
         payout[p].status \in {"processing", "paid"}, payout[q].status \in {"processing", "paid"},
         NEW e \in covers[p], e \in covers[q]
  PROVE  p = q
  BY DEF PayInv, PayoutTrue

LEMMA SuccessIsLive ==
  ASSUME PayInv, NEW p \in Payouts, transfer[p] \in {"pending", "otp", "success"}
  PROVE  payout[p].status \in {"processing", "paid"}
  <1>1. PayoutTrue(p) /\ payout[p].status \in {"none", "processing", "paid", "failed", "reversed"}
    BY DEF PayInv, TypeOK, Payout
  <1> QED
    BY <1>1 DEF PayoutTrue

\* PaidBy chooses the only one there is.
SolePayer ==
  \A e \in Earnings :
    /\ PaidBy[e] \in Payouts \cup {NoPayout}
    /\ \A p \in Payouts : PaidBy[e] = p <=> e \in covers[p] /\ transfer[p] = "success"

LEMMA WhoPaid == PayInv => SolePayer
  <1> SUFFICES ASSUME PayInv, NEW e \in Earnings
      PROVE  /\ PaidBy[e] \in Payouts \cup {NoPayout}
             /\ \A p \in Payouts : PaidBy[e] = p <=> e \in covers[p] /\ transfer[p] = "success"
    BY DEF SolePayer
  <1>1. CASE \E p \in Payouts : e \in covers[p] /\ transfer[p] = "success"
    <2>1. PICK p \in Payouts : PaidBy[e] = p /\ e \in covers[p] /\ transfer[p] = "success"
      BY <1>1 DEF PaidBy
    <2>2. ASSUME NEW q \in Payouts, e \in covers[q], transfer[q] = "success" PROVE p = q
      BY <2>1, <2>2, SoleCover, SuccessIsLive
    <2> QED
      BY <2>1, <2>2
  <1>2. CASE ~\E p \in Payouts : e \in covers[p] /\ transfer[p] = "success"
    <2>1. PaidBy[e] = NoPayout
      BY <1>2 DEF PaidBy
    <2> QED
      BY <1>2, <2>1, NoneAssumption
  <1> QED
    BY <1>1, <1>2

LEMMA WhoPaidBoth ==
  ASSUME PayInv, PayInv'
  PROVE  SolePayer /\ SolePayer'
  BY WhoPaid, PTL

\* Steps that move no money.
LEMMA BookStutters ==
  ASSUME PayInv, PayInv',
         \A p \in Payouts : /\ transfer'[p] = "success" <=> transfer[p] = "success"
                            /\ transfer'[p] = "reversed" <=> transfer[p] = "reversed"
                            /\ transfer[p] = "success" => covers'[p] = covers[p]
  PROVE  UNCHANGED Book!vars
  <1>1. Spent' = Spent
    BY DEF Spent
  <1>2. ASSUME NEW e \in Earnings PROVE PaidBy'[e] = PaidBy[e]
    <2>1. /\ PaidBy[e] \in Payouts \cup {NoPayout}
          /\ \A p \in Payouts : PaidBy[e] = p <=> e \in covers[p] /\ transfer[p] = "success"
      BY WhoPaidBoth DEF SolePayer
    <2>2. /\ PaidBy'[e] \in Payouts \cup {NoPayout}
          /\ \A p \in Payouts : PaidBy'[e] = p <=> e \in covers'[p] /\ transfer'[p] = "success"
      BY WhoPaidBoth DEF SolePayer
    <2> QED
      BY <2>1, <2>2
  <1>3. PaidBy' = PaidBy
    BY <1>2 DEF PaidBy
  <1> QED
    BY <1>1, <1>3 DEF Book!vars

LEMMA BookPays ==
  ASSUME PayInv, PayInv', NEW p \in Payouts, payout[p].status = "processing",
         transfer[p] \in {"none", "pending"}, transfer' = [transfer EXCEPT ![p] = "success"],
         UNCHANGED covers
  PROVE  Book!Pay(p, covers[p])
  <1>0. transfer'[p] = "success" /\ \A q \in Payouts \ {p} : transfer'[q] = transfer[q]
    BY DEF PayInv, TypeOK
  <1>1. p \notin Spent /\ Spent' = Spent \cup {p}
    BY <1>0 DEF Spent
  <1>2. ASSUME NEW e \in covers[p] PROVE e \in Earnings /\ PaidBy[e] = NoPayout
    <2>1. e \in Earnings
      BY DEF PayInv, TypeOK
    <2>2. ASSUME NEW q \in Payouts, e \in covers[q], transfer[q] = "success" PROVE FALSE
      BY <2>2, SoleCover, SuccessIsLive
    <2> QED
      BY <2>1, <2>2 DEF PaidBy
  <1>3. ASSUME NEW e \in Earnings
        PROVE  PaidBy'[e] = IF e \in covers[p] THEN p ELSE PaidBy[e]
    <2>1. /\ PaidBy[e] \in Payouts \cup {NoPayout}
          /\ \A q \in Payouts : PaidBy[e] = q <=> e \in covers[q] /\ transfer[q] = "success"
      BY WhoPaidBoth DEF SolePayer
    <2>2. /\ PaidBy'[e] \in Payouts \cup {NoPayout}
          /\ \A q \in Payouts : PaidBy'[e] = q <=> e \in covers[q] /\ transfer'[q] = "success"
      BY WhoPaidBoth DEF SolePayer
    <2> QED
      BY <1>0, <2>1, <2>2
  <1>4. PaidBy' = [e \in Earnings |-> IF e \in covers[p] THEN p ELSE PaidBy[e]]
    BY <1>3 DEF PaidBy
  <1> QED
    BY <1>1, <1>2, <1>4 DEF Book!Pay

LEMMA BookReverses ==
  ASSUME PayInv, PayInv', NEW p \in Payouts, transfer[p] = "success",
         transfer' = [transfer EXCEPT ![p] = "reversed"], UNCHANGED covers
  PROVE  Book!Reverse(p)
  <1>0. transfer'[p] = "reversed" /\ \A q \in Payouts \ {p} : transfer'[q] = transfer[q]
    BY DEF PayInv, TypeOK
  <1>1. p \in Spent /\ Spent' = Spent
    BY <1>0 DEF Spent
  <1>2. ASSUME NEW e \in Earnings
        PROVE  PaidBy'[e] = IF PaidBy[e] = p THEN NoPayout ELSE PaidBy[e]
    <2>1. /\ PaidBy[e] \in Payouts \cup {NoPayout}
          /\ \A q \in Payouts : PaidBy[e] = q <=> e \in covers[q] /\ transfer[q] = "success"
      BY WhoPaidBoth DEF SolePayer
    <2>2. /\ PaidBy'[e] \in Payouts \cup {NoPayout}
          /\ \A q \in Payouts : PaidBy'[e] = q <=> e \in covers[q] /\ transfer'[q] = "success"
      BY WhoPaidBoth DEF SolePayer
    <2> QED
      BY <1>0, <2>1, <2>2, NoneAssumption
  <1>3. PaidBy' = [e \in Earnings |-> IF PaidBy[e] = p THEN NoPayout ELSE PaidBy[e]]
    BY <1>2 DEF PaidBy
  <1> QED
    BY <1>1, <1>3 DEF Book!Reverse

\* What a step does to the transfers.
Moves(p) ==
  /\ UNCHANGED covers
  /\ \E s \in Transfers :
       /\ transfer' = [transfer EXCEPT ![p] = s]
       /\ \/ transfer[p] = "none" /\ payout[p].status = "processing"
             /\ s \in {"none", "pending", "otp", "success", "failed"}
          \/ <<transfer[p], s>> \in Edges
          \/ s = transfer[p]

Rests ==
  /\ UNCHANGED transfer
  /\ \A p \in Payouts : payout[p].status # "none" => covers'[p] = covers[p]

LEMMA RequestMoves ==
  ASSUME PayInv, NEW u \in Runs, Resend(u) \/ Send(u)
  PROVE  \E p \in Payouts : Moves(p)
  <1>1. RunTrue(u) /\ TypeOK
    BY DEF PayInv
  <1>2. PICK p \in Payouts : p = run[u].at
    BY <1>1 DEF RunTrue, Working, Resend, Send
  <1>3. PICK a, s, pc : Asks(u, p, pc, a, s)
    BY <1>1, <1>2, RequestAsks DEF Resend, Send
  <1>4. PayoutTrue(p) /\ ~Untouched(p)
        /\ payout[p].status \in {"none", "processing", "paid", "failed", "reversed"}
    BY <1>1, <1>2 DEF PayInv, Untouched, TypeOK, Payout
  <1>5. transfer[p] = "none" => payout[p].status = "processing"
    BY <1>4 DEF PayoutTrue
  <1>6. s \in Transfers
    BY <1>1, <1>3 DEF Asks, TypeOK, Transfers
  <1>7. Moves(p)
    BY <1>3, <1>5, <1>6 DEF Moves, Asks, Resend, Send
  <1> QED
    BY <1>7

LEMMA StepMoves ==
  ASSUME PayInv, Next
  PROVE  Rests \/ \E p \in Payouts : Moves(p)
  <1>0. TypeOK
    BY DEF PayInv
  <1>1. ASSUME NEW u \in Runs, StartRun(u) \/ RunStep(u) \/ Stop(u)
        PROVE  Rests \/ \E p \in Payouts : Moves(p)
    <2>1. CASE Resend(u) \/ Send(u)
      BY <2>1, RequestMoves
    <2>2. CASE CreatePayout(u)
      BY <1>0, <2>2 DEF CreatePayout, Rests, TypeOK
    <2>3. CASE StartRun(u) \/ Stop(u) \/ LoadStale(u) \/ VerifyFinds(u) \/ VerifyRefused(u)
               \/ VerifyLeaves(u) \/ LoadEarnings(u) \/ MakePlan(u) \/ Apply(u) \/ ReleaseLease(u)
      BY <2>3 DEF Rests, StartRun, Stop, LoadStale, VerifyFinds, VerifyRefused, VerifyLeaves,
                  LoadEarnings, MakePlan, Apply, ApplyNothing, ApplyRefusal, ApplyFinal,
                  ApplyInProgress, ReleaseLease
    <2> QED
      BY <1>1, <2>1, <2>2, <2>3 DEF RunStep
  <1>2. ASSUME NEW p \in Payouts, BankMoves(p) PROVE Moves(p)
    BY <1>2 DEF BankMoves, Moves
  <1>3. ASSUME NEW p \in Payouts, LateLands(p) PROVE Moves(p)
    <2>1. transfer[p] = "none" /\ payout[p].status = "processing"
      <3>1. PayoutTrue(p) /\ payout[p].status \in {"none", "processing", "paid", "failed", "reversed"}
        BY <1>0 DEF PayInv, TypeOK, Payout
      <3> QED
        BY <1>3, <3>1 DEF PayoutTrue, LateLands
    <2> QED
      BY <1>3, <2>1 DEF LateLands, Moves, Transfers
  <1>4. CASE \/ LeaseExpires \/ NextDay \/ \E e \in Earnings : Clear(e)
             \/ \E r \in Riders : RecipientChanges(r)
             \/ \E p \in Payouts : Webhook(p) \/ GrowStale(p)
    BY <1>4 DEF Rests, LeaseExpires, NextDay, Clear, RecipientChanges, Webhook, GrowStale
  <1> QED
    BY <1>1, <1>2, <1>3, <1>4 DEF Next

LEMMA BookStep ==
  ASSUME PayInv, PayInv', [Next]_vars
  PROVE  [Book!Next]_(Book!vars)
  <1>0. TypeOK
    BY DEF PayInv
  <1>1. CASE UNCHANGED vars
    BY <1>1, BookStutters DEF vars
  <1>2. CASE Rests
    <2>1. ASSUME NEW p \in Payouts, transfer[p] = "success" PROVE payout[p].status # "none"
      BY <2>1, SuccessIsLive
    <2> QED
      BY <1>2, <2>1, BookStutters DEF Rests
  <1>3. ASSUME NEW p \in Payouts, Moves(p) PROVE [Book!Next]_(Book!vars)
    <2>1. PICK s \in Transfers :
            /\ transfer' = [transfer EXCEPT ![p] = s]
            /\ \/ transfer[p] = "none" /\ payout[p].status = "processing"
                  /\ s \in {"none", "pending", "otp", "success", "failed"}
               \/ <<transfer[p], s>> \in Edges
               \/ s = transfer[p]
      BY <1>3 DEF Moves
    <2>2. /\ UNCHANGED covers /\ covers[p] \in SUBSET Earnings
          /\ transfer'[p] = s /\ \A q \in Payouts \ {p} : transfer'[q] = transfer[q]
      BY <1>0, <1>3, <2>1 DEF Moves, TypeOK
    <2>3. CASE s = "success" /\ transfer[p] # "success"
      <3>1. transfer[p] \in {"none", "pending"}
        BY <2>1, <2>3 DEF Edges
      <3>2. payout[p].status = "processing"
        <4>1. transfer[p] = "pending" => payout[p].status \in {"processing", "paid"}
          BY SuccessIsLive
        <4>2. payout[p].status = "paid" => transfer[p] \in {"success", "reversed"}
          BY DEF PayInv, PayoutTrue
        <4> QED
          BY <2>1, <2>3, <3>1, <4>1, <4>2 DEF Edges
      <3>3. Book!Pay(p, covers[p])
        BY <2>1, <2>2, <2>3, <3>1, <3>2, BookPays
      <3> QED
        BY <2>2, <3>3 DEF Book!Next
    <2>4. CASE s = "reversed" /\ transfer[p] # "reversed"
      <3>1. transfer[p] = "success"
        BY <2>1, <2>4 DEF Edges
      <3>2. Book!Reverse(p)
        BY <2>1, <2>2, <2>4, <3>1, BookReverses
      <3> QED
        BY <3>2 DEF Book!Next
    <2>5. CASE (s = "success" <=> transfer[p] = "success") /\ (s = "reversed" <=> transfer[p] = "reversed")
      BY <2>2, <2>5, BookStutters
    <2>6. transfer[p] = "success" => s \in {"success", "reversed"}
      BY <2>1 DEF Edges
    <2>7. transfer[p] = "reversed" => s = "reversed"
      BY <2>1 DEF Edges
    <2> QED
      BY <2>3, <2>4, <2>5, <2>6, <2>7
  <1> QED
    BY <1>1, <1>2, <1>3, StepMoves

\* PaysOnce: seen from the bank, every run of the system is one of PayBook, in which no
\* earning is paid for by two transfers and none pays twice.
THEOREM PaysEachOnce == Spec => PaysOnce
  <1>1. Init => Book!Init
    BY DEF Init, Book!Init, PaidBy, Spent
  <1>2. PayInv /\ PayInv' /\ [Next]_vars => [Book!Next]_(Book!vars)
    BY BookStep
  <1> QED
    BY <1>1, <1>2, SpecPayInv, PTL DEF Spec, PaysOnce, Book!Spec
=============================================================================
