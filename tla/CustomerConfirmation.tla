------------------------ MODULE CustomerConfirmation ------------------------
(***************************************************************************)
(* A restaurant marks an order delivered; the customer confirms it or      *)
(* reports a problem; an order nobody confirms is reminded about and then  *)
(* closes by itself.                                                       *)
(*                                                                         *)
(* Three kinds of process overlap: sweeps (one per minute, each working    *)
(* through the rows it selected with the time it started at), and the      *)
(* confirm and report requests of a customer, who may tap twice or use two *)
(* devices.  Each database call and each notification is a step of its     *)
(* own, and a sweep or a request may die between two of them.              *)
(*                                                                         *)
(* Time is counted in half hours since a midnight in Lagos, the unit in    *)
(* which every constant of customerConfirmation.ts is a whole number.      *)
(***************************************************************************)
EXTENDS Integers, FiniteSets

CONSTANTS
  Orders,
  Sweeps,
  Requests,
  Limit,        \* CONFIRMATION_SWEEP_LIMIT
  Deliveries,   \* times at which a restaurant may complete an order
  Horizon       \* bound on the clock

ASSUME LimitAssumption == Limit \in Nat \ {0}
ASSUME TimesAssumption == Deliveries \subseteq Nat /\ Horizon \in Nat

VARIABLES
  order,     \* the columns of this flow
  sweep,     \* what each sweep is doing
  request,   \* what each request is doing
  clock,
  pushed,    \* history: reminders sent, by order and stage
  heard      \* history: notices to the restaurant, posts to support, alerts to admins

vars == <<order, sweep, request, clock, pushed, heard>>

-----------------------------------------------------------------------------
(* customerConfirmation.ts *)

\* CUSTOMER_CONFIRM_WINDOW_MS.
Window == 6

\* CUSTOMER_CONFIRM_REMINDER_OFFSETS_MS.
Offset == <<1, 3, 5>>

Stages == 1..3

\* 22:00 to 07:00.
Quiet(t) == t % 48 >= 44 \/ t % 48 < 14

\* Mutant: the index of the offsets taken for the stage, one too high.
MutantStageDue(due, sent, now) ==
  {s + 1 : s \in {t \in Stages : t > sent /\ now < due /\ now >= due - Window + Offset[t]}}

\* Mutant: a stage that a later one has superseded may still be sent.
MutantSuperseded(due, sent, now) ==
  {s \in Stages : s > sent /\ now < due /\ ~Quiet(now) /\ now >= due - Window + Offset[s]}

\* getReminderDecision: the stages that may be sent; only the latest counts.
StageDue(due, sent, now) ==
  {s \in Stages : /\ s > sent /\ now < due /\ ~Quiet(now)
                  /\ now >= due - Window + Offset[s]
                  /\ \A t \in Stages : now >= due - Window + Offset[t] => t <= s}

-----------------------------------------------------------------------------
\* confirmed is customerConfirmationSource, set together with customerConfirmedAt.
Row == [delivered : BOOLEAN, due : Nat, confirmed : {"no", "customer", "auto"},
        reported : BOOLEAN, reminders : 0..3]

\* A sweep knows the time it started at and its batch, then also the reminder it claimed.
Batch == UNION {[os -> 0..3] : os \in SUBSET Orders}
Reading == [pc : {"idle", "select", "decide"}, now : Nat, batch : Batch]
Pushing == [pc : {"push"}, now : Nat, batch : Batch, order : Orders, stage : Stages]

Asking == [pc : {"confirm", "notice", "report", "post", "alert"}, order : Orders]
RequestIdle == [pc |-> "idle"]

Heard == [notices : Nat, posts : Nat, alerts : Nat]

TypeOK ==
  /\ order \in [Orders -> Row]
  /\ sweep \in [Sweeps -> Reading \cup Pushing]
  /\ request \in [Requests -> Asking \cup {RequestIdle}]
  /\ clock \in Nat
  /\ pushed \in [Orders -> [Stages -> Nat]]
  /\ heard \in [Orders -> Heard]

NoBatch == [o \in {} |-> 0]
SweepIdle == [pc |-> "idle", now |-> 0, batch |-> NoBatch]

Init ==
  /\ order = [o \in Orders |-> [delivered |-> FALSE, due |-> 0, confirmed |-> "no",
                                reported |-> FALSE, reminders |-> 0]]
  /\ sweep = [s \in Sweeps |-> SweepIdle]
  /\ request = [q \in Requests |-> RequestIdle]
  /\ clock \in Deliveries
  /\ pushed = [o \in Orders |-> [s \in Stages |-> 0]]
  /\ heard = [o \in Orders |-> [notices |-> 0, posts |-> 0, alerts |-> 0]]

Open(o) == order[o].delivered /\ order[o].confirmed = "no" /\ ~order[o].reported

-----------------------------------------------------------------------------
\* The partner's `delivered' starts the clock of the order.
MarkDelivered(o) ==
  /\ ~order[o].delivered /\ clock \in Deliveries
  /\ order' = [order EXCEPT ![o].delivered = TRUE, ![o].due = clock + Window]
  /\ UNCHANGED <<sweep, request, clock, pushed, heard>>

\* A sweep does not live for half an hour, so it sees at most one tick.
Tick ==
  /\ clock < Horizon
  /\ \A s \in Sweeps : sweep[s].pc = "idle" \/ sweep[s].now = clock
  /\ clock' = clock + 1
  /\ UNCHANGED <<order, sweep, request, pushed, heard>>

StartSweep(s) ==
  /\ sweep[s].pc = "idle"
  /\ sweep' = [sweep EXCEPT ![s] = [pc |-> "select", now |-> clock, batch |-> NoBatch]]
  /\ UNCHANGED <<order, request, clock, pushed, heard>>

\* Mutant: orders that had every reminder are left out.
MutantCandidate(o) == Open(o) /\ order[o].reminders < 3

\* The filter of the candidate query.
Candidate(o) == Open(o)

\* The candidates, oldest deadline first, up to the limit.
SelectCandidates(s) ==
  /\ sweep[s].pc = "select"
  /\ \E chosen \in SUBSET {o \in Orders : Candidate(o)} :
       LET all == {o \in Orders : Candidate(o)} IN
       /\ Cardinality(chosen) = IF Cardinality(all) <= Limit THEN Cardinality(all) ELSE Limit
       /\ \A o \in chosen, p \in all \ chosen : order[o].due <= order[p].due
       /\ sweep' = [sweep EXCEPT ![s].pc = IF chosen = {} THEN "idle" ELSE "decide",
                                 ![s].batch = [o \in chosen |-> order[o].reminders]]
  /\ UNCHANGED <<order, request, clock, pushed, heard>>

\* Mutant: the closing write is not qualified by the report.
MutantClosable(o) == order[o].delivered /\ order[o].confirmed = "no"

\* updateDeliveredOrderIfNull(customerConfirmedAt, customerIssueReportedAt).
Closable(o) == order[o].delivered /\ order[o].confirmed = "no" /\ ~order[o].reported

\* The compare-and-swap of claimReminder.
Claimable(o, read) == Open(o) /\ order[o].reminders = read

\* The order a sweep has come to: the oldest deadline of what is left of its batch.
Turn(s, o) ==
  /\ o \in DOMAIN sweep[s].batch
  /\ \A p \in DOMAIN sweep[s].batch : order[o].due <= order[p].due

Rest(s, o) == [p \in DOMAIN sweep[s].batch \ {o} |-> sweep[s].batch[p]]

\* The sweep without that order: over, or at the next one.
After(s, o) == IF DOMAIN Rest(s, o) = {} THEN SweepIdle
               ELSE [pc |-> "decide", now |-> sweep[s].now, batch |-> Rest(s, o)]

\* Close the order if its window is over by the time the sweep started at, else claim the
\* reminder that is due.
Decide(s) ==
  /\ sweep[s].pc = "decide"
  /\ \E o \in DOMAIN sweep[s].batch :
       LET now   == sweep[s].now
           read  == sweep[s].batch[o]
           stage == StageDue(order[o].due, read, now)
       IN
       /\ Turn(s, o)
       /\ \/ /\ now >= order[o].due /\ Closable(o)
             /\ order' = [order EXCEPT ![o].confirmed = "auto"]
             /\ sweep' = [sweep EXCEPT ![s] = After(s, o)]
          \/ /\ now < order[o].due /\ Claimable(o, read)
             /\ \E t \in stage :
                  /\ order' = [order EXCEPT ![o].reminders = t]
                  /\ sweep' = [sweep EXCEPT ![s] =
                       [pc |-> "push", now |-> now, batch |-> Rest(s, o), order |-> o,
                        stage |-> t]]
          \/ /\ IF now >= order[o].due THEN ~Closable(o)
                                       ELSE stage = {} \/ ~Claimable(o, read)
             /\ sweep' = [sweep EXCEPT ![s] = After(s, o)]
             /\ UNCHANGED order
  /\ UNCHANGED <<request, clock, pushed, heard>>

\* The write of one order fails, or it lands and its answer is lost: the sweep goes on
\* with the next order.
OrderFails(s) ==
  /\ sweep[s].pc = "decide"
  /\ \E o \in DOMAIN sweep[s].batch :
       LET now  == sweep[s].now
           read == sweep[s].batch[o]
       IN
       /\ Turn(s, o)
       /\ \/ UNCHANGED order
          \/ /\ now < order[o].due /\ Claimable(o, read)
             /\ \E t \in StageDue(order[o].due, read, now) :
                  order' = [order EXCEPT ![o].reminders = t]
       /\ sweep' = [sweep EXCEPT ![s] = After(s, o)]
  /\ UNCHANGED <<request, clock, pushed, heard>>

\* The reminder is pushed after it was claimed.
PushReminder(s) ==
  /\ sweep[s].pc = "push"
  /\ pushed' = [pushed EXCEPT ![sweep[s].order][sweep[s].stage] = @ + 1]
  /\ sweep' = [sweep EXCEPT ![s] =
       IF DOMAIN sweep[s].batch = {} THEN SweepIdle
       ELSE [pc |-> "decide", now |-> sweep[s].now, batch |-> sweep[s].batch]]
  /\ UNCHANGED <<order, request, clock, heard>>

SweepDies(s) ==
  /\ sweep[s].pc # "idle"
  /\ sweep' = [sweep EXCEPT ![s] = SweepIdle]
  /\ UNCHANGED <<order, request, clock, pushed, heard>>

-----------------------------------------------------------------------------
Continue(q, pc) == request' = [request EXCEPT ![q].pc = pc]
Answer(q) == request' = [request EXCEPT ![q] = RequestIdle]

\* loadOwnedOrderForConfirmation and the checks on what it returned.  A reported order
\* may still be confirmed; a second report is answered without a write.
LoadOrder(q, o, kind) ==
  /\ request[q].pc = "idle"
  /\ order[o].delivered /\ order[o].confirmed = "no"
  /\ kind = "report" => ~order[o].reported
  /\ request' = [request EXCEPT ![q] = [pc |-> kind, order |-> o]]
  /\ UNCHANGED <<order, sweep, clock, pushed, heard>>

\* Mutant: the confirming write does not look for an earlier one.
MutantConfirmable(o) == order[o].delivered

\* updateDeliveredOrderIfNull(customerConfirmedAt).
Confirmable(o) == order[o].delivered /\ order[o].confirmed = "no"

\* customerConfirmOrderReceived; a lost race is answered from a reload.
Confirm(q) ==
  /\ request[q].pc = "confirm"
  /\ LET o == request[q].order IN
     IF Confirmable(o)
       THEN order' = [order EXCEPT ![o].confirmed = "customer"] /\ Continue(q, "notice")
       ELSE Answer(q) /\ UNCHANGED order
  /\ UNCHANGED <<sweep, clock, pushed, heard>>

NotifyRestaurant(q) ==
  /\ request[q].pc = "notice"
  /\ heard' = [heard EXCEPT ![request[q].order].notices = @ + 1]
  /\ Answer(q)
  /\ UNCHANGED <<order, sweep, clock, pushed>>

\* Mutant: the reporting write does not look for an earlier report.
MutantReportable(o) == order[o].delivered /\ order[o].confirmed = "no"

\* updateDeliveredOrderIfNull(customerIssueReportedAt, customerConfirmedAt).
Reportable(o) == order[o].delivered /\ order[o].confirmed = "no" /\ ~order[o].reported

\* customerReportOrderProblem.
Report(q) ==
  /\ request[q].pc = "report"
  /\ LET o == request[q].order IN
     IF Reportable(o)
       THEN order' = [order EXCEPT ![o].reported = TRUE] /\ Continue(q, "post")
       ELSE Answer(q) /\ UNCHANGED order
  /\ UNCHANGED <<sweep, clock, pushed, heard>>

\* postCustomerSupportMessage may fail; the admins are told all the same.
PostToSupport(q) ==
  /\ request[q].pc = "post"
  /\ \/ heard' = [heard EXCEPT ![request[q].order].posts = @ + 1]
     \/ UNCHANGED heard
  /\ Continue(q, "alert")
  /\ UNCHANGED <<order, sweep, clock, pushed>>

NotifyAdmins(q) ==
  /\ request[q].pc = "alert"
  /\ heard' = [heard EXCEPT ![request[q].order].alerts = @ + 1]
  /\ Answer(q)
  /\ UNCHANGED <<order, sweep, clock, pushed>>

RequestDies(q) ==
  /\ request[q].pc # "idle"
  /\ Answer(q)
  /\ UNCHANGED <<order, sweep, clock, pushed, heard>>

SweepStep(s) ==
  StartSweep(s) \/ SelectCandidates(s) \/ Decide(s) \/ OrderFails(s) \/ PushReminder(s)

RequestStep(q) ==
  Confirm(q) \/ NotifyRestaurant(q) \/ Report(q) \/ PostToSupport(q) \/ NotifyAdmins(q)

Next ==
  \/ Tick
  \/ \E o \in Orders : MarkDelivered(o)
  \/ \E s \in Sweeps : SweepStep(s) \/ SweepDies(s)
  \/ \E q \in Requests, o \in Orders, kind \in {"confirm", "report"} : LoadOrder(q, o, kind)
  \/ \E q \in Requests : RequestStep(q) \/ RequestDies(q)

Spec == Init /\ [][Next]_vars

\* Time passes, pg_cron starts a sweep every minute, none hangs, and not every one fails
\* or dies before its query or its write.
Fairness ==
  /\ WF_vars(Tick)
  /\ \A s \in Sweeps : WF_vars(SweepStep(s))
  /\ SF_vars(\E s \in Sweeps : SelectCandidates(s))
  /\ SF_vars(\E s \in Sweeps : Decide(s))

FairSpec == Spec /\ Fairness

-----------------------------------------------------------------------------
(* What the flow owes the customer and the restaurant. *)

\* The stage whose turn it is when so many half hours have passed since the delivery: the
\* reminders come after 30, 90 and 150 minutes, and none once the window is over.
InTurn(past) == IF past \in 1..2 THEN 1 ELSE IF past \in 3..4 THEN 2 ELSE IF past = 5 THEN 3 ELSE 0

\* Each reminder stage goes out at most once per order and only after its claim, however
\* many sweeps overlap, fail or die; and what a sweep sends is the latest stage due by the
\* time it goes by, never one a later stage had superseded when it claimed it, never
\* early, and never at night.
RemindedOnce ==
  /\ \A o \in Orders, s \in Stages :
       pushed[o][s] <= 1 /\ (pushed[o][s] = 1 => s <= order[o].reminders)
  /\ \A w \in Sweeps : sweep[w].pc = "push" =>
       /\ sweep[w].stage = InTurn(sweep[w].now + Window - order[sweep[w].order].due)
       /\ ~Quiet(sweep[w].now)

\* The order closes by itself only at the end of its window, and never once a problem
\* was reported, although the sweep decided on a row it read earlier.
ClosesOnlyUnreported ==
  \A o \in Orders :
    order[o].confirmed = "auto" => clock >= order[o].due /\ ~order[o].reported

\* An order is confirmed once: the customer's word and the sweep's do not replace each
\* other, and a report does not land on an order that was closed.
ConfirmedOnce ==
  [][\A o \in Orders : order[o].confirmed # "no" =>
       /\ order'[o].confirmed = order[o].confirmed
       /\ order'[o].reported = order[o].reported]_vars

\* The restaurant hears of a confirmation once, and only of the customer's own; support
\* and the admins hear of a problem once, and only when it is on the order.
HeardOnce ==
  \A o \in Orders :
    /\ heard[o].notices <= (IF order[o].confirmed = "customer" THEN 1 ELSE 0)
    /\ heard[o].posts <= (IF order[o].reported THEN 1 ELSE 0)
    /\ heard[o].alerts <= (IF order[o].reported THEN 1 ELSE 0)

\* No delivered order stays open for ever.
EveryOrderSettles == \A o \in Orders : order[o].delivered ~> ~Open(o)
=============================================================================
