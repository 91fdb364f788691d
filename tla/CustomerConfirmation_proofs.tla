--------------------- MODULE CustomerConfirmation_proofs ---------------------
(* Theorems about CustomerConfirmation, for every number of orders, sweeps   *)
(* and requests, every cap, and every time of day.                           *)
EXTENDS CustomerConfirmation, TLAPS

-----------------------------------------------------------------------------
(* Type correctness. *)

LEMMA BatchOf ==
  ASSUME NEW os \in SUBSET Orders, NEW f \in [os -> 0..3]
  PROVE  f \in Batch
  BY DEF Batch

LEMMA Singles ==
  /\ NoBatch \in Batch
  /\ SweepIdle \in Reading /\ SweepIdle.pc = "idle"
  /\ RequestIdle.pc = "idle"
  <1>1. NoBatch \in Batch
    <2>1. NoBatch \in [{} -> 0..3]
      BY DEF NoBatch
    <2> QED
      BY <2>1, BatchOf
  <1> QED
    BY <1>1 DEF SweepIdle, Reading, RequestIdle

\* The rest of a batch is a batch, and the sweep goes on with it or is over.
LEMMA RestTyped ==
  ASSUME NEW s, sweep[s] \in Reading, NEW o \in DOMAIN sweep[s].batch
  PROVE  /\ o \in Orders /\ Rest(s, o) \in Batch
         /\ After(s, o) \in Reading /\ After(s, o).pc # "push"
         /\ After(s, o).now \in {0, sweep[s].now}
  <1>1. PICK os \in SUBSET Orders : sweep[s].batch \in [os -> 0..3]
    BY DEF Reading, Batch
  <1>2. o \in Orders /\ Rest(s, o) \in Batch
    <2>1. os \ {o} \in SUBSET Orders /\ Rest(s, o) \in [os \ {o} -> 0..3]
      BY <1>1 DEF Rest
    <2> QED
      BY <1>1, <2>1, BatchOf
  <1>3. [pc |-> "decide", now |-> sweep[s].now, batch |-> Rest(s, o)] \in Reading
    BY <1>2 DEF Reading
  <1> QED
    BY <1>2, <1>3, Singles DEF After, SweepIdle

LEMMA DueStages == ASSUME NEW d, NEW n, NEW t PROVE StageDue(d, n, t) \subseteq Stages
  BY DEF StageDue

LEMMA TypeInit == Init => TypeOK
  BY Singles, TimesAssumption DEF Init, TypeOK, Row, Heard, RequestIdle, Stages

\* A step of a sweep replaces what that sweep is doing, and at most one order.
LEMMA SweepTyped ==
  ASSUME TypeOK, NEW s \in Sweeps, SweepStep(s) \/ SweepDies(s)
  PROVE  TypeOK'
  <1>0. sweep[s] \in Reading \cup Pushing
    BY DEF TypeOK
  <1>1. CASE StartSweep(s)
    <2>1. [pc |-> "select", now |-> clock, batch |-> NoBatch] \in Reading
      BY Singles DEF Reading, TypeOK
    <2> QED
      BY <1>1, <2>1 DEF StartSweep, TypeOK
  <1>2. CASE SelectCandidates(s)
    <2>1. PICK chosen \in SUBSET Orders :
            sweep' = [sweep EXCEPT ![s].pc = IF chosen = {} THEN "idle" ELSE "decide",
                                   ![s].batch = [o \in chosen |-> order[o].reminders]]
      BY <1>2 DEF SelectCandidates
    <2>2. [o \in chosen |-> order[o].reminders] \in Batch
      <3>1. [o \in chosen |-> order[o].reminders] \in [chosen -> 0..3]
        BY DEF TypeOK, Row
      <3> QED
        BY <3>1, BatchOf
    <2>3. sweep' \in [Sweeps -> Reading \cup Pushing]
      <3> DEFINE pc == IF chosen = {} THEN "idle" ELSE "decide"
                 b == [o \in chosen |-> order[o].reminders]
      <3>1. sweep' = [sweep EXCEPT ![s] = [sweep[s] EXCEPT !.pc = pc, !.batch = b]]
        BY <2>1
      <3>2. sweep[s] \in Reading /\ pc \in {"idle", "select", "decide"}
        BY <1>0, <1>2 DEF SelectCandidates, Pushing
      <3> HIDE DEF pc, b
      <3>3. [sweep[s] EXCEPT !.pc = pc, !.batch = b] \in Reading
        BY <2>2, <3>2 DEF Reading, b
      <3> QED
        BY <3>1, <3>3 DEF TypeOK
    <2> QED
      BY <1>2, <2>3 DEF SelectCandidates, TypeOK
  <1>3. CASE Decide(s) \/ OrderFails(s)
    <2>0. sweep[s] \in Reading
      BY <1>0, <1>3 DEF Decide, OrderFails, Pushing
    <2>1. PICK o \in DOMAIN sweep[s].batch :
            LET push(t) == [pc |-> "push", now |-> sweep[s].now, batch |-> Rest(s, o),
                            order |-> o, stage |-> t]
            IN
            \/ /\ order' = [order EXCEPT ![o].confirmed = "auto"]
               /\ sweep' = [sweep EXCEPT ![s] = After(s, o)]
            \/ \E t \in Stages :
                 /\ order' = [order EXCEPT ![o].reminders = t]
                 /\ \/ sweep' = [sweep EXCEPT ![s] = push(t)]
                    \/ sweep' = [sweep EXCEPT ![s] = After(s, o)]
            \/ sweep' = [sweep EXCEPT ![s] = After(s, o)] /\ order' = order
      BY <1>3, DueStages DEF Decide, OrderFails
    <2>2. /\ o \in Orders /\ Rest(s, o) \in Batch /\ After(s, o) \in Reading
          /\ order[o] \in Row
      BY <2>0, RestTyped DEF TypeOK
    <2>3. ASSUME sweep' = [sweep EXCEPT ![s] = After(s, o)]
          PROVE  sweep' \in [Sweeps -> Reading \cup Pushing]
      BY <2>2, <2>3 DEF TypeOK
    <2>4. ASSUME NEW t \in Stages,
                 sweep' = [sweep EXCEPT ![s] = [pc |-> "push", now |-> sweep[s].now,
                                                batch |-> Rest(s, o), order |-> o, stage |-> t]]
          PROVE  sweep' \in [Sweeps -> Reading \cup Pushing]
      <3>1. [pc |-> "push", now |-> sweep[s].now, batch |-> Rest(s, o), order |-> o,
             stage |-> t] \in Pushing
        BY <2>0, <2>2 DEF Reading, Pushing
      <3> QED
        BY <2>4, <3>1 DEF TypeOK
    <2>5. ASSUME NEW t \in Stages, order' = [order EXCEPT ![o].reminders = t]
          PROVE  order' \in [Orders -> Row]
      <3>1. order' = [order EXCEPT ![o] = [order[o] EXCEPT !.reminders = t]]
        BY <2>5
      <3>2. t \in 0..3
        BY DEF Stages
      <3>3. [order[o] EXCEPT !.reminders = t] \in Row
        BY <2>2, <3>2 DEF Row
      <3> QED
        BY <3>1, <3>3 DEF TypeOK
    <2>6. ASSUME order' = [order EXCEPT ![o].confirmed = "auto"]
          PROVE  order' \in [Orders -> Row]
      BY <2>2, <2>6 DEF TypeOK, Row
    <2>7. sweep' \in [Sweeps -> Reading \cup Pushing]
      BY <2>1, <2>3, <2>4
    <2>8. order' \in [Orders -> Row]
      BY <2>1, <2>5, <2>6 DEF TypeOK
    <2> QED
      BY <1>3, <2>7, <2>8 DEF Decide, OrderFails, TypeOK
  <1>4. CASE PushReminder(s)
    <2>1. sweep[s] \in Pushing
      BY <1>0, <1>4 DEF PushReminder, Reading
    <2> DEFINE o == sweep[s].order
               t == sweep[s].stage
    <2>2. o \in Orders /\ t \in Stages
      BY <2>1 DEF Pushing
    <2>3. pushed' \in [Orders -> [Stages -> Nat]]
      <3>1. pushed' = [pushed EXCEPT ![o] = [pushed[o] EXCEPT ![t] = pushed[o][t] + 1]]
        BY <1>4 DEF PushReminder
      <3>2. [pushed[o] EXCEPT ![t] = pushed[o][t] + 1] \in [Stages -> Nat]
        BY <2>2 DEF TypeOK
      <3> QED
        BY <3>1, <3>2 DEF TypeOK
    <2>4. [pc |-> "decide", now |-> sweep[s].now, batch |-> sweep[s].batch] \in Reading
      BY <2>1 DEF Pushing, Reading
    <2> QED
      BY <1>4, <2>3, <2>4, Singles DEF PushReminder, TypeOK
  <1>5. CASE SweepDies(s)
    BY <1>5, Singles DEF SweepDies, TypeOK
  <1> QED
    BY <1>1, <1>2, <1>3, <1>4, <1>5 DEF SweepStep

LEMMA RequestTyped ==
  ASSUME TypeOK, NEW q \in Requests, RequestStep(q) \/ RequestDies(q)
  PROVE  TypeOK'
  <1> DEFINE o == request[q].order
  <1>0. request[q] \in Asking /\ o \in Orders
    BY Singles
    DEF RequestStep, RequestDies, Confirm, NotifyRestaurant, Report, PostToSupport, NotifyAdmins,
        TypeOK, Asking
  <1>1. Answer(q) => request' \in [Requests -> Asking \cup {RequestIdle}]
    BY DEF Answer, TypeOK
  <1>2. \A pc \in {"notice", "post", "alert"} :
          Continue(q, pc) => request' \in [Requests -> Asking \cup {RequestIdle}]
    <2> SUFFICES ASSUME NEW pc \in {"notice", "post", "alert"}, Continue(q, pc)
                 PROVE  request' \in [Requests -> Asking \cup {RequestIdle}]
      OBVIOUS
    <2>1. request' = [request EXCEPT ![q] = [request[q] EXCEPT !.pc = pc]]
      BY DEF Continue
    <2>2. [request[q] EXCEPT !.pc = pc] \in Asking
      BY <1>0 DEF Asking
    <2> QED
      BY <2>1, <2>2 DEF TypeOK
  <1>3. CASE Confirm(q) \/ Report(q)
    <2>1. \/ order' = order
          \/ order' = [order EXCEPT ![o] = [order[o] EXCEPT !.confirmed = "customer"]]
          \/ order' = [order EXCEPT ![o] = [order[o] EXCEPT !.reported = TRUE]]
      BY <1>3 DEF Confirm, Report
    <2>2. /\ [order[o] EXCEPT !.confirmed = "customer"] \in Row
          /\ [order[o] EXCEPT !.reported = TRUE] \in Row
      <3>1. order[o] \in Row
        BY <1>0 DEF TypeOK
      <3> QED
        BY <3>1 DEF Row
    <2>3. order' \in [Orders -> Row]
      BY <2>1, <2>2 DEF TypeOK
    <2> QED
      BY <1>1, <1>2, <1>3, <2>3 DEF Confirm, Report, TypeOK
  <1>4. CASE NotifyRestaurant(q) \/ PostToSupport(q) \/ NotifyAdmins(q)
    <2>1. \/ heard' = heard
          \/ heard' = [heard EXCEPT ![o] = [heard[o] EXCEPT !.notices = heard[o].notices + 1]]
          \/ heard' = [heard EXCEPT ![o] = [heard[o] EXCEPT !.posts = heard[o].posts + 1]]
          \/ heard' = [heard EXCEPT ![o] = [heard[o] EXCEPT !.alerts = heard[o].alerts + 1]]
      BY <1>4 DEF NotifyRestaurant, PostToSupport, NotifyAdmins
    <2>2. /\ [heard[o] EXCEPT !.notices = heard[o].notices + 1] \in Heard
          /\ [heard[o] EXCEPT !.posts = heard[o].posts + 1] \in Heard
          /\ [heard[o] EXCEPT !.alerts = heard[o].alerts + 1] \in Heard
      <3>1. heard[o] \in Heard
        BY <1>0 DEF TypeOK
      <3> QED
        BY <3>1 DEF Heard
    <2>3. heard' \in [Orders -> Heard]
      BY <2>1, <2>2 DEF TypeOK
    <2> QED
      BY <1>1, <1>2, <1>4, <2>3 DEF NotifyRestaurant, PostToSupport, NotifyAdmins, TypeOK
  <1>5. CASE RequestDies(q)
    BY <1>1, <1>5 DEF RequestDies, TypeOK
  <1> QED
    BY <1>3, <1>4, <1>5 DEF RequestStep

LEMMA TypeNext == TypeOK /\ [Next]_vars => TypeOK'
  <1> SUFFICES ASSUME TypeOK, [Next]_vars PROVE TypeOK'
    OBVIOUS
  <1>1. CASE UNCHANGED vars
    BY <1>1 DEF vars, TypeOK
  <1>2. CASE Tick
    BY <1>2 DEF Tick, TypeOK
  <1>3. ASSUME NEW o \in Orders, MarkDelivered(o) PROVE TypeOK'
    <2>1. order' = [order EXCEPT ![o] = [order[o] EXCEPT !.delivered = TRUE, !.due = clock + Window]]
      BY <1>3 DEF MarkDelivered
    <2>2. [order[o] EXCEPT !.delivered = TRUE, !.due = clock + Window] \in Row
      <3>1. order[o] \in Row /\ clock + Window \in Nat
        BY DEF TypeOK, Window
      <3> QED
        BY <3>1 DEF Row
    <2> QED
      BY <1>3, <2>1, <2>2 DEF MarkDelivered, TypeOK
  <1>4. ASSUME NEW q \in Requests, NEW o \in Orders, NEW kind \in {"confirm", "report"},
               LoadOrder(q, o, kind)
        PROVE  TypeOK'
    <2>1. [pc |-> kind, order |-> o] \in Asking
      BY DEF Asking
    <2> QED
      BY <1>4, <2>1 DEF LoadOrder, TypeOK
  <1> QED
    BY <1>1, <1>2, <1>3, <1>4, SweepTyped, RequestTyped DEF Next

THEOREM TypeCorrect == Spec => []TypeOK
  BY TypeInit, TypeNext, PTL DEF Spec

-----------------------------------------------------------------------------
(* What a step may do to the columns. *)

\* A stage that may be sent is the one whose turn it is, and a new one.
LEMMA DueInTurn ==
  ASSUME NEW due \in Nat, NEW now \in Nat, NEW sent \in 0..3, NEW t \in StageDue(due, sent, now)
  PROVE  t \in Stages /\ sent < t /\ t = InTurn(now + Window - due) /\ ~Quiet(now)
  <1>1. /\ t \in {1, 2, 3} /\ sent < t /\ now < due /\ ~Quiet(now)
        /\ \A u \in {1, 2, 3} : now >= due - 6 + Offset[u] => u <= t
        /\ now >= due - 6 + Offset[t]
    BY DEF StageDue, Stages, Window
  <1>2. Offset[1] = 1 /\ Offset[2] = 3 /\ Offset[3] = 5
    BY DEF Offset
  <1>3. t = InTurn(now + 6 - due)
    BY <1>1, <1>2 DEF InTurn
  <1> QED
    BY <1>1, <1>3 DEF Stages, Window

\* What Decide and OrderFails amount to: the order the sweep has come to is closed, or its
\* reminder is claimed, to be pushed or not, or neither, and the other sweeps are left alone.
LEMMA DecideMoves ==
  ASSUME TypeOK, NEW s \in Sweeps, Decide(s) \/ OrderFails(s)
  PROVE  /\ \A r \in Sweeps \ {s} : sweep'[r] = sweep[r]
         /\ \E o \in Orders :
              \/ /\ order[o].due <= sweep[s].now /\ Closable(o)
                 /\ order' = [order EXCEPT ![o] = [order[o] EXCEPT !.confirmed = "auto"]]
                 /\ sweep'[s].pc # "push" /\ sweep'[s].now \in {0, sweep[s].now}
              \/ \E t \in Stages :
                   /\ Open(o) /\ order[o].reminders < t
                   /\ order' = [order EXCEPT ![o] = [order[o] EXCEPT !.reminders = t]]
                   /\ \/ /\ sweep'[s].order = o /\ sweep'[s].stage = t
                         /\ sweep'[s].pc = "push" /\ sweep'[s].now = sweep[s].now
                         /\ t = InTurn(sweep[s].now + Window - order[o].due)
                         /\ ~Quiet(sweep[s].now)
                      \/ sweep'[s].pc # "push" /\ sweep'[s].now \in {0, sweep[s].now}
              \/ /\ order' = order
                 /\ sweep'[s].pc # "push" /\ sweep'[s].now \in {0, sweep[s].now}
  <1>0. sweep[s] \in Reading
    BY DEF TypeOK, Decide, OrderFails, Pushing
  <1> DEFINE push(o, t) == [pc |-> "push", now |-> sweep[s].now, batch |-> Rest(s, o),
                            order |-> o, stage |-> t]
  <1>1. PICK o \in DOMAIN sweep[s].batch :
          \/ /\ sweep[s].now >= order[o].due /\ Closable(o)
             /\ order' = [order EXCEPT ![o].confirmed = "auto"]
             /\ sweep' = [sweep EXCEPT ![s] = After(s, o)]
          \/ /\ Claimable(o, sweep[s].batch[o])
             /\ \E t \in StageDue(order[o].due, sweep[s].batch[o], sweep[s].now) :
                  /\ order' = [order EXCEPT ![o].reminders = t]
                  /\ \/ sweep' = [sweep EXCEPT ![s] = push(o, t)]
                     \/ sweep' = [sweep EXCEPT ![s] = After(s, o)]
          \/ sweep' = [sweep EXCEPT ![s] = After(s, o)] /\ order' = order
    BY DEF Decide, OrderFails
  <1>2. o \in Orders /\ After(s, o).pc # "push" /\ After(s, o).now \in {0, sweep[s].now}
    BY <1>0, RestTyped
  <1>3. /\ order[o] \in Row /\ order[o].due \in Nat /\ sweep[s].now \in Nat
        /\ order[o].reminders \in 0..3
    BY <1>0, <1>2 DEF TypeOK, Row, Reading
  <1>4. \A r \in Sweeps \ {s} : sweep'[r] = sweep[r]
    <2> HIDE DEF push
    <2> QED
      BY <1>1 DEF TypeOK
  <1>5. ASSUME sweep' = [sweep EXCEPT ![s] = After(s, o)]
        PROVE  sweep'[s].pc # "push" /\ sweep'[s].now \in {0, sweep[s].now}
    BY <1>2, <1>5 DEF TypeOK
  <1>6. CASE /\ sweep[s].now >= order[o].due /\ Closable(o)
             /\ order' = [order EXCEPT ![o].confirmed = "auto"]
             /\ sweep' = [sweep EXCEPT ![s] = After(s, o)]
    BY <1>2, <1>3, <1>4, <1>5, <1>6
  <1>7. ASSUME Claimable(o, sweep[s].batch[o]),
               NEW t \in StageDue(order[o].due, sweep[s].batch[o], sweep[s].now),
               order' = [order EXCEPT ![o].reminders = t],
               \/ sweep' = [sweep EXCEPT ![s] = push(o, t)]
               \/ sweep' = [sweep EXCEPT ![s] = After(s, o)]
        PROVE  /\ t \in Stages /\ Open(o) /\ order[o].reminders < t
               /\ order' = [order EXCEPT ![o] = [order[o] EXCEPT !.reminders = t]]
               /\ \/ /\ sweep'[s].order = o /\ sweep'[s].stage = t
                     /\ sweep'[s].pc = "push" /\ sweep'[s].now = sweep[s].now
                     /\ t = InTurn(sweep[s].now + Window - order[o].due)
                     /\ ~Quiet(sweep[s].now)
                  \/ sweep'[s].pc # "push" /\ sweep'[s].now \in {0, sweep[s].now}
    <2>1. Open(o) /\ sweep[s].batch[o] = order[o].reminders
      BY <1>7 DEF Claimable
    <2>2. /\ t \in Stages /\ order[o].reminders < t
          /\ t = InTurn(sweep[s].now + Window - order[o].due) /\ ~Quiet(sweep[s].now)
      BY <1>3, <1>7, <2>1, DueInTurn
    <2>3. CASE sweep' = [sweep EXCEPT ![s] = push(o, t)]
      <3>1. sweep'[s] = push(o, t)
        <4> HIDE DEF push
        <4> QED
          BY <2>3 DEF TypeOK
      <3> QED
        BY <1>7, <2>1, <2>2, <3>1
    <2>4. CASE sweep' = [sweep EXCEPT ![s] = After(s, o)]
      BY <1>5, <1>7, <2>1, <2>2, <2>4
    <2> QED
      BY <1>7, <2>3, <2>4
  <1>8. CASE sweep' = [sweep EXCEPT ![s] = After(s, o)] /\ order' = order
    BY <1>2, <1>4, <1>5, <1>8
  <1>9. CASE /\ Claimable(o, sweep[s].batch[o])
             /\ \E t \in StageDue(order[o].due, sweep[s].batch[o], sweep[s].now) :
                  /\ order' = [order EXCEPT ![o].reminders = t]
                  /\ \/ sweep' = [sweep EXCEPT ![s] = push(o, t)]
                     \/ sweep' = [sweep EXCEPT ![s] = After(s, o)]
    <2> HIDE DEF push
    <2> QED
      BY <1>2, <1>4, <1>7, <1>9, Zenon
  <1> QED
    BY <1>1, <1>6, <1>8, <1>9

\* Every step leaves an order's columns alone or changes them in one of these ways.
ColumnStep(o) ==
  \/ order'[o] = order[o]
  \/ /\ ~order[o].delivered
     /\ order'[o] = [order[o] EXCEPT !.delivered = TRUE, !.due = clock + Window]
  \/ /\ Closable(o) /\ \E s \in Sweeps : order[o].due <= sweep[s].now
     /\ order'[o] = [order[o] EXCEPT !.confirmed = "auto"]
  \/ /\ Open(o)
     /\ \E t \in Stages : order[o].reminders < t /\ order'[o] = [order[o] EXCEPT !.reminders = t]
  \/ Confirmable(o) /\ order'[o] = [order[o] EXCEPT !.confirmed = "customer"]
  \/ Reportable(o) /\ order'[o] = [order[o] EXCEPT !.reported = TRUE]

LEMMA Columns ==
  ASSUME TypeOK, [Next]_vars, NEW o \in Orders
  PROVE  ColumnStep(o)
  <1>1. CASE order' = order
    BY <1>1 DEF ColumnStep
  <1>2. ASSUME NEW p \in Orders, MarkDelivered(p) PROVE ColumnStep(o)
    BY <1>2 DEF MarkDelivered, TypeOK, ColumnStep
  <1>3. ASSUME NEW s \in Sweeps, Decide(s) \/ OrderFails(s) PROVE ColumnStep(o)
    <2>1. PICK p \in Orders :
            \/ /\ order[p].due <= sweep[s].now /\ Closable(p)
               /\ order' = [order EXCEPT ![p] = [order[p] EXCEPT !.confirmed = "auto"]]
            \/ \E t \in Stages :
                 /\ Open(p) /\ order[p].reminders < t
                 /\ order' = [order EXCEPT ![p] = [order[p] EXCEPT !.reminders = t]]
            \/ order' = order
      BY <1>3, DecideMoves, SMTT(30)
    <2>2. CASE p # o
      <3>1. order'[o] = order[o]
        BY <2>1, <2>2 DEF TypeOK
      <3> QED
        BY <3>1 DEF ColumnStep
    <2>3. CASE p = o
      BY <2>1, <2>3 DEF TypeOK, ColumnStep
    <2> QED
      BY <2>2, <2>3
  <1>4. ASSUME NEW q \in Requests, Confirm(q) PROVE ColumnStep(o)
    BY <1>4 DEF Confirm, TypeOK, ColumnStep
  <1>5. ASSUME NEW q \in Requests, Report(q) PROVE ColumnStep(o)
    BY <1>5 DEF Report, TypeOK, ColumnStep
  <1>6. ASSUME NEW s \in Sweeps, SweepStep(s) \/ SweepDies(s) PROVE ColumnStep(o)
    BY <1>1, <1>3, <1>6 DEF SweepStep, StartSweep, SelectCandidates, PushReminder, SweepDies
  <1>7. ASSUME NEW q \in Requests, RequestStep(q) \/ RequestDies(q) PROVE ColumnStep(o)
    BY <1>1, <1>4, <1>5, <1>7
    DEF RequestStep, NotifyRestaurant, PostToSupport, NotifyAdmins, RequestDies
  <1>8. ASSUME NEW q \in Requests, NEW p \in Orders, NEW kind \in {"confirm", "report"},
               LoadOrder(q, p, kind)
        PROVE  ColumnStep(o)
    BY <1>1, <1>8 DEF LoadOrder
  <1>9. CASE Tick \/ UNCHANGED vars
    BY <1>1, <1>9 DEF Tick, vars
  <1> QED
    BY <1>2, <1>6, <1>7, <1>8, <1>9 DEF Next

\* An order is confirmed once: whoever comes second, the customer, another device or a
\* sweep, finds customer_confirmed_at set and changes nothing.
THEOREM ConfirmedOnceHolds == Spec => ConfirmedOnce
  <1>1. TypeOK /\ [Next]_vars =>
          [\A o \in Orders : order[o].confirmed # "no" =>
             /\ order'[o].confirmed = order[o].confirmed
             /\ order'[o].reported = order[o].reported]_vars
    <2> SUFFICES ASSUME TypeOK, [Next]_vars, NEW o \in Orders, order[o].confirmed # "no"
                 PROVE  /\ order'[o].confirmed = order[o].confirmed
                        /\ order'[o].reported = order[o].reported
      OBVIOUS
    <2>1. order[o] \in Row
      BY DEF TypeOK
    <2> QED
      BY <2>1, Columns DEF ColumnStep, Closable, Open, Confirmable, Reportable, Row
  <1> QED
    BY <1>1, TypeCorrect, PTL DEF Spec, ConfirmedOnce

-----------------------------------------------------------------------------
(* Closing. *)

\* A sweep's idea of the time is never ahead of the clock, and nothing is decided about
\* an order that was not delivered.
SettleInv ==
  /\ \A s \in Sweeps : sweep[s].now <= clock
  /\ \A o \in Orders : ~order[o].delivered => order[o].confirmed = "no"

LEMMA SweepTimes ==
  ASSUME TypeOK, [Next]_vars, SettleInv
  PROVE  clock <= clock' /\ \A s \in Sweeps : sweep'[s].now <= clock'
  <1>0. clock \in Nat /\ \A s \in Sweeps : sweep[s].now \in Nat
    BY DEF TypeOK, Reading, Pushing
  <1>1. CASE clock' = clock /\ sweep' = sweep
    BY <1>0, <1>1 DEF SettleInv
  <1>2. CASE Tick
    BY <1>0, <1>2 DEF SettleInv, Tick
  <1>3. ASSUME NEW s \in Sweeps, SweepStep(s) \/ SweepDies(s)
        PROVE  clock' = clock /\ \A r \in Sweeps : sweep'[r].now <= clock
    <2>0. ASSUME sweep'[s].now \in {0, clock, sweep[s].now}, clock' = clock,
                 \A r \in Sweeps \ {s} : sweep'[r] = sweep[r]
          PROVE  clock' = clock /\ \A r \in Sweeps : sweep'[r].now <= clock
      BY <1>0, <2>0 DEF SettleInv
    <2>1. CASE StartSweep(s)
      BY <2>0, <2>1 DEF StartSweep, TypeOK
    <2>2. CASE SelectCandidates(s)
      <3>1. PICK chosen \in SUBSET Orders :
              sweep' = [sweep EXCEPT ![s].pc = IF chosen = {} THEN "idle" ELSE "decide",
                                     ![s].batch = [o \in chosen |-> order[o].reminders]]
        BY <2>2 DEF SelectCandidates
      <3>2. sweep[s] \in Reading
        BY <2>2 DEF SelectCandidates, TypeOK, Pushing
      <3>3. sweep'[s].now = sweep[s].now /\ \A r \in Sweeps \ {s} : sweep'[r] = sweep[r]
        BY <3>1, <3>2 DEF TypeOK, Reading
      <3> QED
        BY <2>0, <2>2, <3>3 DEF SelectCandidates
    <2>3. CASE Decide(s) \/ OrderFails(s)
      <3>1. sweep'[s].now \in {0, sweep[s].now} /\ \A r \in Sweeps \ {s} : sweep'[r] = sweep[r]
        BY <2>3, DecideMoves
      <3> QED
        BY <2>0, <2>3, <3>1 DEF Decide, OrderFails
    <2>4. CASE PushReminder(s)
      BY <2>0, <2>4 DEF PushReminder, TypeOK, SweepIdle
    <2>5. CASE SweepDies(s)
      BY <2>0, <2>5 DEF SweepDies, TypeOK, SweepIdle
    <2> QED
      BY <1>3, <2>1, <2>2, <2>3, <2>4, <2>5 DEF SweepStep
  <1>4. ASSUME NEW q \in Requests, RequestStep(q) \/ RequestDies(q)
        PROVE  clock' = clock /\ sweep' = sweep
    BY <1>4 DEF RequestStep, RequestDies, Confirm, NotifyRestaurant, Report, PostToSupport, NotifyAdmins
  <1>5. ASSUME NEW o \in Orders, MarkDelivered(o) PROVE clock' = clock /\ sweep' = sweep
    BY <1>5 DEF MarkDelivered
  <1>6. ASSUME NEW q \in Requests, NEW o \in Orders, NEW kind \in {"confirm", "report"},
               LoadOrder(q, o, kind)
        PROVE  clock' = clock /\ sweep' = sweep
    BY <1>6 DEF LoadOrder
  <1>7. CASE \E s \in Sweeps : SweepStep(s) \/ SweepDies(s)
    BY <1>0, <1>3, <1>7
  <1>8. CASE UNCHANGED vars
    BY <1>1, <1>8 DEF vars
  <1> QED
    BY <1>1, <1>2, <1>4, <1>5, <1>6, <1>7, <1>8 DEF Next

LEMMA SettleNext ==
  TypeOK /\ SettleInv /\ ClosesOnlyUnreported /\ [Next]_vars =>
    (SettleInv /\ ClosesOnlyUnreported)'
  <1> SUFFICES ASSUME TypeOK, SettleInv, ClosesOnlyUnreported, [Next]_vars, NEW o \in Orders
               PROVE  /\ ~order'[o].delivered => order'[o].confirmed = "no"
                      /\ order'[o].confirmed = "auto" =>
                           clock' >= order'[o].due /\ ~order'[o].reported
    BY SweepTimes DEF SettleInv, ClosesOnlyUnreported
  <1>0. order[o] \in Row /\ order'[o] \in Row /\ clock \in Nat /\ clock' \in Nat
    BY TypeNext DEF TypeOK
  <1>1. clock <= clock'
    BY SweepTimes
  <1>2. ~order[o].delivered => order[o].confirmed = "no"
    BY DEF SettleInv
  <1>3. order[o].confirmed = "auto" => clock >= order[o].due /\ ~order[o].reported
    BY DEF ClosesOnlyUnreported
  <1>4. ASSUME NEW s \in Sweeps, order[o].due <= sweep[s].now PROVE order[o].due <= clock
    <2>1. sweep[s].now \in Nat /\ sweep[s].now <= clock
      BY DEF TypeOK, Reading, Pushing, SettleInv
    <2> QED
      BY <1>0, <1>4, <2>1 DEF Row
  <1>5. ColumnStep(o)
    BY Columns
  <1>6. CASE order'[o] = order[o]
    BY <1>0, <1>1, <1>2, <1>3, <1>6 DEF Row
  <1>7. CASE ~order[o].delivered /\ order'[o].confirmed = order[o].confirmed
    BY <1>2, <1>7, <1>0, <1>5 DEF ColumnStep, Row, Closable, Open, Confirmable, Reportable
  <1>8. CASE /\ Closable(o) /\ \E s \in Sweeps : order[o].due <= sweep[s].now
             /\ order'[o] = [order[o] EXCEPT !.confirmed = "auto"]
    <2>1. order[o].due <= clock /\ order[o].delivered /\ ~order[o].reported
      BY <1>4, <1>8 DEF Closable
    <2>2. /\ order'[o].due = order[o].due /\ order'[o].reported = order[o].reported
          /\ order'[o].delivered = order[o].delivered
      BY <1>0, <1>8 DEF Row
    <2> QED
      BY <1>0, <1>1, <2>1, <2>2 DEF Row
  <1>9. CASE /\ order[o].delivered /\ order[o].confirmed = "no"
             /\ order'[o].confirmed \in {"no", "customer"} /\ order'[o].delivered
    BY <1>9
  <1> QED
    BY <1>0, <1>5, <1>6, <1>7, <1>8, <1>9
    DEF ColumnStep, Row, Closable, Open, Confirmable, Reportable

\* The flow closes an order only after its window, and never one with a problem
\* reported: the write itself looks for the report, so that a report that lands after
\* the sweep's query is not overruled.
THEOREM ClosesOnlyUnreportedHolds == Spec => []ClosesOnlyUnreported
  <1>1. Init => SettleInv /\ ClosesOnlyUnreported
    BY TimesAssumption DEF Init, SettleInv, ClosesOnlyUnreported, SweepIdle
  <1> QED
    BY <1>1, TypeCorrect, SettleNext, PTL DEF Spec

-----------------------------------------------------------------------------
(* Who hears of it. *)

On(q, o, pcs) == request[q].pc \in pcs /\ request[q].order = o

\* A request with a notice, a post or an alert ahead of it won the write, and is the
\* only one that did.
HeardInv(o) ==
  /\ order[o].confirmed # "customer" => heard[o].notices = 0
  /\ ~order[o].reported => heard[o].posts = 0 /\ heard[o].alerts = 0
  /\ heard[o].notices <= 1 /\ heard[o].posts <= 1 /\ heard[o].alerts <= 1
  /\ \A q \in Requests :
       /\ On(q, o, {"notice"}) => order[o].confirmed = "customer" /\ heard[o].notices = 0
       /\ On(q, o, {"post"}) => order[o].reported /\ heard[o].posts = 0
       /\ On(q, o, {"post", "alert"}) => order[o].reported /\ heard[o].alerts = 0
  /\ \A q, p \in Requests :
       /\ On(q, o, {"notice"}) /\ On(p, o, {"notice"}) => q = p
       /\ On(q, o, {"post", "alert"}) /\ On(p, o, {"post", "alert"}) => q = p

\* A request that moves on or ends, and writes nothing.
LEMMA HeardQuiet ==
  ASSUME TypeOK, NEW o \in Orders, HeardInv(o),
         heard'[o] = heard[o],
         order[o].reported => order'[o].reported,
         order[o].confirmed = "customer" <=> order'[o].confirmed = "customer",
         order'[o].reported => order[o].reported,
         \A q \in Requests : \/ request'[q] = request[q]
                             \/ request'[q].pc \notin {"notice", "post", "alert"}
  PROVE  HeardInv(o)'
  BY DEF HeardInv, On

LEMMA HeardNext == ASSUME TypeOK, NEW o \in Orders, HeardInv(o), [Next]_vars PROVE HeardInv(o)'
  <1>0. order[o] \in Row /\ heard[o] \in Heard /\ ColumnStep(o)
    BY Columns DEF TypeOK
  <1>1. ASSUME NEW q \in Requests, Confirm(q) PROVE HeardInv(o)'
    <2>1. request[q] \in Asking
      BY <1>1, Singles DEF Confirm, TypeOK
    <2>2. CASE request[q].order = o /\ Confirmable(o)
      <3>1. /\ order'[o] = [order[o] EXCEPT !.confirmed = "customer"] /\ heard' = heard
            /\ request' = [request EXCEPT ![q] = [request[q] EXCEPT !.pc = "notice"]]
        BY <1>1, <2>2 DEF Confirm, Continue, TypeOK
      <3>2. request'[q].pc = "notice" /\ \A p \in Requests \ {q} : request'[p] = request[p]
        BY <2>1, <3>1 DEF TypeOK, Asking
      <3>3. order'[o].confirmed = "customer" /\ order'[o].reported = order[o].reported
        BY <1>0, <3>1 DEF Row
      <3>4. \A p \in Requests : ~On(p, o, {"notice"})
        BY <2>2 DEF HeardInv, Confirmable
      <3>5. heard[o].notices = 0
        BY <2>2 DEF HeardInv, Confirmable
      <3> QED
        BY <3>1, <3>2, <3>3, <3>4, <3>5 DEF HeardInv, On
    <2>3. CASE request[q].order # o /\ Confirmable(request[q].order)
      <3>1. /\ order'[o] = order[o] /\ heard' = heard
            /\ request' = [request EXCEPT ![q] = [request[q] EXCEPT !.pc = "notice"]]
        BY <1>1, <2>3 DEF Confirm, Continue, TypeOK
      <3>2. request'[q].order # o /\ \A p \in Requests \ {q} : request'[p] = request[p]
        BY <2>1, <2>3, <3>1 DEF TypeOK, Asking
      <3> QED
        BY <3>1, <3>2 DEF HeardInv, On
    <2>4. CASE ~Confirmable(request[q].order)
      <3>1. order' = order /\ heard' = heard /\ request' = [request EXCEPT ![q] = RequestIdle]
        BY <1>1, <2>4 DEF Confirm, Answer
      <3> QED
        BY <3>1, HeardQuiet DEF RequestIdle, TypeOK
    <2> QED
      BY <2>2, <2>3, <2>4
  <1>2. ASSUME NEW q \in Requests, Report(q) PROVE HeardInv(o)'
    <2>1. request[q] \in Asking
      BY <1>2, Singles DEF Report, TypeOK
    <2>2. CASE request[q].order = o /\ Reportable(o)
      <3>1. /\ order'[o] = [order[o] EXCEPT !.reported = TRUE] /\ heard' = heard
            /\ request' = [request EXCEPT ![q] = [request[q] EXCEPT !.pc = "post"]]
        BY <1>2, <2>2 DEF Report, Continue, TypeOK
      <3>2. request'[q].pc = "post" /\ \A p \in Requests \ {q} : request'[p] = request[p]
        BY <2>1, <3>1 DEF TypeOK, Asking
      <3>3. order'[o].confirmed = order[o].confirmed /\ order'[o].reported
        BY <1>0, <3>1 DEF Row
      <3>4. \A p \in Requests : ~On(p, o, {"post", "alert"})
        BY <2>2 DEF HeardInv, Reportable
      <3>5. heard[o].posts = 0 /\ heard[o].alerts = 0
        BY <2>2 DEF HeardInv, Reportable
      <3> QED
        BY <3>1, <3>2, <3>3, <3>4, <3>5 DEF HeardInv, On
    <2>3. CASE request[q].order # o /\ Reportable(request[q].order)
      <3>1. /\ order'[o] = order[o] /\ heard' = heard
            /\ request' = [request EXCEPT ![q] = [request[q] EXCEPT !.pc = "post"]]
        BY <1>2, <2>3 DEF Report, Continue, TypeOK
      <3>2. request'[q].order # o /\ \A p \in Requests \ {q} : request'[p] = request[p]
        BY <2>1, <2>3, <3>1 DEF TypeOK, Asking
      <3> QED
        BY <3>1, <3>2 DEF HeardInv, On
    <2>4. CASE ~Reportable(request[q].order)
      <3>1. order' = order /\ heard' = heard /\ request' = [request EXCEPT ![q] = RequestIdle]
        BY <1>2, <2>4 DEF Report, Answer
      <3> QED
        BY <3>1, HeardQuiet DEF RequestIdle, TypeOK
    <2> QED
      BY <2>2, <2>3, <2>4
  <1>3. ASSUME NEW q \in Requests, NotifyRestaurant(q) PROVE HeardInv(o)'
    <2>1. /\ order' = order /\ request'[q].pc = "idle"
          /\ \A p \in Requests \ {q} : request'[p] = request[p]
      BY <1>3 DEF NotifyRestaurant, Answer, TypeOK, RequestIdle
    <2>2. CASE request[q].order # o
      <3>1. heard'[o] = heard[o]
        BY <1>3, <2>2 DEF NotifyRestaurant, TypeOK
      <3> QED
        BY <2>1, <3>1, HeardQuiet
    <2>3. CASE request[q].order = o
      <3>1. heard' = [heard EXCEPT ![o] = [heard[o] EXCEPT !.notices = heard[o].notices + 1]]
        BY <1>3, <2>3 DEF NotifyRestaurant
      <3>2. heard'[o] = [heard[o] EXCEPT !.notices = heard[o].notices + 1]
        BY <3>1 DEF TypeOK
      <3>3. On(q, o, {"notice"})
        BY <1>3, <2>3 DEF NotifyRestaurant, On
      <3>4. /\ order[o].confirmed = "customer" /\ heard'[o].notices = 1
            /\ heard'[o].posts = heard[o].posts /\ heard'[o].alerts = heard[o].alerts
        BY <1>0, <3>2, <3>3 DEF HeardInv, Heard
      <3> QED
        BY <2>1, <3>3, <3>4 DEF HeardInv, On
    <2> QED
      BY <2>2, <2>3
  <1>4. ASSUME NEW q \in Requests, PostToSupport(q) PROVE HeardInv(o)'
    <2>0. request[q] \in Asking
      BY <1>4, Singles DEF PostToSupport, TypeOK
    <2>1. /\ order' = order /\ request'[q].pc = "alert" /\ request'[q].order = request[q].order
          /\ \A p \in Requests \ {q} : request'[p] = request[p]
      <3>1. request' = [request EXCEPT ![q] = [request[q] EXCEPT !.pc = "alert"]]
        BY <1>4 DEF PostToSupport, Continue
      <3> QED
        BY <1>4, <2>0, <3>1 DEF PostToSupport, TypeOK, Asking
    <2>2. CASE request[q].order # o
      <3>1. heard'[o] = heard[o]
        BY <1>4, <2>2 DEF PostToSupport, TypeOK
      <3> QED
        BY <2>1, <2>2, <3>1 DEF HeardInv, On
    <2>3. CASE request[q].order = o
      <3>1. \/ heard'[o] = heard[o]
            \/ heard'[o] = [heard[o] EXCEPT !.posts = heard[o].posts + 1]
        BY <1>4, <2>3 DEF PostToSupport, TypeOK
      <3>2. On(q, o, {"post"}) /\ On(q, o, {"post", "alert"})
        BY <1>4, <2>3 DEF PostToSupport, On
      <3>3. /\ order[o].reported /\ heard'[o].posts <= 1
            /\ heard'[o].notices = heard[o].notices /\ heard'[o].alerts = heard[o].alerts
        BY <1>0, <3>1, <3>2 DEF HeardInv, Heard
      <3> QED
        BY <2>1, <3>2, <3>3 DEF HeardInv, On
    <2> QED
      BY <2>2, <2>3
  <1>5. ASSUME NEW q \in Requests, NotifyAdmins(q) PROVE HeardInv(o)'
    <2>1. /\ order' = order /\ request'[q].pc = "idle"
          /\ \A p \in Requests \ {q} : request'[p] = request[p]
      BY <1>5 DEF NotifyAdmins, Answer, TypeOK, RequestIdle
    <2>2. CASE request[q].order # o
      <3>1. heard'[o] = heard[o]
        BY <1>5, <2>2 DEF NotifyAdmins, TypeOK
      <3> QED
        BY <2>1, <3>1, HeardQuiet
    <2>3. CASE request[q].order = o
      <3>1. heard' = [heard EXCEPT ![o] = [heard[o] EXCEPT !.alerts = heard[o].alerts + 1]]
        BY <1>5, <2>3 DEF NotifyAdmins
      <3>2. heard'[o] = [heard[o] EXCEPT !.alerts = heard[o].alerts + 1]
        BY <3>1 DEF TypeOK
      <3>3. On(q, o, {"post", "alert"})
        BY <1>5, <2>3 DEF NotifyAdmins, On
      <3>4. /\ order[o].reported /\ heard'[o].alerts = 1
            /\ heard'[o].posts = heard[o].posts /\ heard'[o].notices = heard[o].notices
        BY <1>0, <3>2, <3>3 DEF HeardInv, Heard
      <3> QED
        BY <2>1, <3>3, <3>4 DEF HeardInv, On
    <2> QED
      BY <2>2, <2>3
  <1>6. ASSUME order'[o].reported = order[o].reported, heard' = heard,
               order'[o].confirmed = "customer" <=> order[o].confirmed = "customer",
               \A q \in Requests : \/ request'[q] = request[q]
                                   \/ request'[q].pc \notin {"notice", "post", "alert"}
        PROVE  HeardInv(o)'
    BY <1>6, HeardQuiet
  <1>7. ASSUME NEW s \in Sweeps, SweepStep(s) \/ SweepDies(s) PROVE HeardInv(o)'
    <2>1. /\ order'[o].reported = order[o].reported
          /\ order'[o].confirmed = "customer" <=> order[o].confirmed = "customer"
      <3>1. CASE Decide(s) \/ OrderFails(s)
        <4>1. PICK p \in Orders :
                \/ /\ Closable(p)
                   /\ order' = [order EXCEPT ![p] = [order[p] EXCEPT !.confirmed = "auto"]]
                \/ \E t \in Stages :
                     order' = [order EXCEPT ![p] = [order[p] EXCEPT !.reminders = t]]
                \/ order' = order
          BY <3>1, DecideMoves, SMTT(30)
        <4>2. CASE p # o
          <5>1. order'[o] = order[o]
            BY <4>1, <4>2 DEF TypeOK
          <5> QED
            BY <5>1
        <4>3. CASE p = o
          BY <1>0, <4>1, <4>3 DEF TypeOK, Row, Closable
        <4> QED
          BY <4>2, <4>3
      <3> QED
        BY <1>7, <3>1 DEF SweepStep, SweepDies, StartSweep, SelectCandidates, PushReminder
    <2>2. request' = request /\ heard' = heard
      BY <1>7 DEF SweepStep, SweepDies, StartSweep, SelectCandidates, Decide, OrderFails,
                  PushReminder
    <2> QED
      BY <1>6, <2>1, <2>2
  <1>8. ASSUME NEW p \in Orders, MarkDelivered(p) PROVE HeardInv(o)'
    <2>1. \/ order'[o] = order[o]
          \/ order'[o] = [order[o] EXCEPT !.delivered = TRUE, !.due = clock + Window]
      BY <1>8 DEF MarkDelivered, TypeOK
    <2>2. request' = request /\ heard' = heard
      BY <1>8 DEF MarkDelivered
    <2>3. order'[o].reported = order[o].reported /\ order'[o].confirmed = order[o].confirmed
      BY <1>0, <2>1 DEF Row
    <2> QED
      BY <1>6, <2>2, <2>3
  <1>9. ASSUME NEW q \in Requests, NEW p \in Orders, NEW kind \in {"confirm", "report"},
               LoadOrder(q, p, kind)
        PROVE  HeardInv(o)'
    <2>1. /\ order' = order /\ heard' = heard
          /\ request' = [request EXCEPT ![q] = [pc |-> kind, order |-> p]]
      BY <1>9 DEF LoadOrder
    <2>2. request'[q].pc = kind /\ \A r \in Requests \ {q} : request'[r] = request[r]
      BY <2>1 DEF TypeOK
    <2> QED
      BY <1>6, <2>1, <2>2
  <1>10. ASSUME NEW q \in Requests, RequestDies(q) PROVE HeardInv(o)'
    <2>1. /\ order' = order /\ heard' = heard /\ request'[q].pc = "idle"
          /\ \A r \in Requests \ {q} : request'[r] = request[r]
      BY <1>10 DEF RequestDies, Answer, RequestIdle, TypeOK
    <2> QED
      BY <1>6, <2>1
  <1>11. CASE Tick \/ UNCHANGED vars
    BY <1>6, <1>11 DEF Tick, vars
  <1> QED
    BY <1>1, <1>2, <1>3, <1>4, <1>5, <1>7, <1>8, <1>9, <1>10, <1>11 DEF Next, RequestStep

\* A confirmation is told to the restaurant once and a problem to support and the admins
\* once, whatever the customer's taps and devices do: only the request that won the write
\* goes on to tell anyone.
THEOREM HeardOnceHolds == Spec => []HeardOnce
  <1>1. Init => \A o \in Orders : HeardInv(o)
    BY DEF Init, HeardInv, On, RequestIdle
  <1>2. TypeOK /\ (\A o \in Orders : HeardInv(o)) /\ [Next]_vars =>
          (\A o \in Orders : HeardInv(o))'
    BY HeardNext
  <1>3. TypeOK /\ (\A o \in Orders : HeardInv(o)) => HeardOnce
    <2> SUFFICES ASSUME TypeOK, NEW o \in Orders, HeardInv(o)
                 PROVE  /\ heard[o].notices <= (IF order[o].confirmed = "customer" THEN 1 ELSE 0)
                        /\ heard[o].posts <= (IF order[o].reported THEN 1 ELSE 0)
                        /\ heard[o].alerts <= (IF order[o].reported THEN 1 ELSE 0)
      BY DEF HeardOnce
    <2> QED
      BY DEF HeardInv
  <1> QED
    BY <1>1, <1>2, <1>3, TypeCorrect, PTL DEF Spec

-----------------------------------------------------------------------------
(* Reminders. *)

Owes(s, o, t) == sweep[s].pc = "push" /\ sweep[s].order = o /\ sweep[s].stage = t

\* A stage is sent, or owed by one sweep, only once the order's counter has reached it.
ReminderInv(o) ==
  \A t \in Stages :
    /\ pushed[o][t] <= 1
    /\ pushed[o][t] = 1 => t <= order[o].reminders
    /\ \A s \in Sweeps : Owes(s, o, t) => t <= order[o].reminders /\ pushed[o][t] = 0
    /\ \A s, r \in Sweeps : Owes(s, o, t) /\ Owes(r, o, t) => s = r

LEMMA ReminderQuiet ==
  ASSUME TypeOK, NEW o \in Orders, ReminderInv(o),
         pushed'[o] = pushed[o], order'[o].reminders = order[o].reminders,
         \A s \in Sweeps : sweep'[s] = sweep[s] \/ sweep'[s].pc # "push"
  PROVE  ReminderInv(o)'
  BY DEF ReminderInv, Owes

LEMMA ReminderNext ==
  ASSUME TypeOK, NEW o \in Orders, ReminderInv(o), [Next]_vars
  PROVE  ReminderInv(o)'
  <1>0. order[o] \in Row /\ order[o].reminders \in 0..3 /\ pushed[o] \in [Stages -> Nat]
    BY DEF TypeOK, Row
  <1>1. ASSUME NEW s \in Sweeps, Decide(s) \/ OrderFails(s) PROVE ReminderInv(o)'
    <2>0. pushed' = pushed /\ \A r \in Sweeps \ {s} : sweep'[r] = sweep[r]
      BY <1>1, DecideMoves DEF Decide, OrderFails
    <2>1. PICK p \in Orders :
            \/ /\ order' = [order EXCEPT ![p] = [order[p] EXCEPT !.confirmed = "auto"]]
               /\ sweep'[s].pc # "push"
            \/ \E t \in Stages :
                 /\ order[p].reminders < t
                 /\ order' = [order EXCEPT ![p] = [order[p] EXCEPT !.reminders = t]]
                 /\ \/ /\ sweep'[s].order = p /\ sweep'[s].stage = t
                       /\ sweep'[s].pc = "push"
                    \/ sweep'[s].pc # "push"
            \/ order' = order /\ sweep'[s].pc # "push"
      BY <1>1, DecideMoves, SMTT(30)
    <2>2. CASE /\ sweep'[s].pc # "push"
               /\ \/ order' = [order EXCEPT ![p] = [order[p] EXCEPT !.confirmed = "auto"]]
                  \/ order' = order
      <3>1. order'[o].reminders = order[o].reminders
        <4>1. \/ order' = [order EXCEPT ![p] = [order[p] EXCEPT !.confirmed = "auto"]]
              \/ order' = order
          BY <2>1, <2>2
        <4>2. order'[o] \in {order[o], [order[o] EXCEPT !.confirmed = "auto"]}
          BY <4>1 DEF TypeOK
        <4> QED
          BY <1>0, <4>2 DEF Row
      <3> QED
        BY <2>0, <2>2, <3>1, ReminderQuiet
    <2>3. ASSUME NEW t \in Stages, order[p].reminders < t,
                 order' = [order EXCEPT ![p] = [order[p] EXCEPT !.reminders = t]],
                 sweep'[s].order = p, sweep'[s].stage = t, sweep'[s].pc = "push"
          PROVE  ReminderInv(o)'
      <3>1. CASE p # o
        <4>1. order'[o] = order[o]
          BY <2>3, <3>1 DEF TypeOK
        <4> QED
          BY <2>0, <2>3, <3>1, <4>1 DEF ReminderInv, Owes
      <3>2. CASE p = o
        <4>1. order'[o].reminders = t
          BY <1>0, <2>3, <3>2 DEF TypeOK, Row
        <4>2. pushed[o][t] = 0 /\ \A r \in Sweeps : ~Owes(r, o, t)
          BY <1>0, <2>3, <3>2 DEF ReminderInv, Stages
        <4>3. ASSUME NEW u \in Stages
              PROVE  /\ pushed'[o][u] <= 1
                     /\ pushed'[o][u] = 1 => u <= order'[o].reminders
            BY <1>0, <2>0, <2>3, <3>2, <4>1 DEF ReminderInv, Stages
        <4>4. ASSUME NEW u \in Stages, NEW r \in Sweeps, Owes(r, o, u)'
              PROVE  u <= order'[o].reminders /\ pushed'[o][u] = 0
          <5>1. CASE r = s
            BY <2>0, <2>3, <4>1, <4>2, <4>4, <5>1 DEF Owes, Stages
          <5>2. CASE r # s
            BY <1>0, <2>0, <2>3, <3>2, <4>1, <4>4, <5>2 DEF ReminderInv, Owes, Stages
          <5> QED
            BY <5>1, <5>2
        <4>5. ASSUME NEW u \in Stages, NEW r \in Sweeps, NEW q \in Sweeps,
                     Owes(r, o, u)', Owes(q, o, u)'
              PROVE  r = q
          <5>1. CASE u = t
            BY <2>0, <4>2, <4>5, <5>1 DEF Owes
          <5>2. CASE u # t
            <6>1. r # s /\ q # s
              BY <2>3, <4>5, <5>2 DEF Owes
            <6> QED
              BY <2>0, <4>5, <6>1 DEF ReminderInv, Owes
          <5> QED
            BY <5>1, <5>2
        <4> QED
          BY <4>3, <4>4, <4>5 DEF ReminderInv
      <3> QED
        BY <3>1, <3>2
    <2>4. ASSUME NEW t \in Stages, order[p].reminders < t, sweep'[s].pc # "push",
                 order' = [order EXCEPT ![p] = [order[p] EXCEPT !.reminders = t]]
          PROVE  ReminderInv(o)'
      <3>1. order'[o].reminders \in 0..3 /\ order[o].reminders <= order'[o].reminders
        <4>1. CASE p = o
          BY <1>0, <2>4, <4>1 DEF TypeOK, Row, Stages
        <4>2. CASE p # o
          BY <1>0, <2>4, <4>2 DEF TypeOK
        <4> QED
          BY <4>1, <4>2
      <3> QED
        BY <1>0, <2>0, <2>4, <3>1 DEF ReminderInv, Owes, Stages
    <2> QED
      BY <2>1, <2>2, <2>3, <2>4
  <1>2. ASSUME NEW s \in Sweeps, PushReminder(s) PROVE ReminderInv(o)'
    <2>1. /\ order' = order /\ sweep'[s].pc # "push"
          /\ \A r \in Sweeps \ {s} : sweep'[r] = sweep[r]
      BY <1>2 DEF PushReminder, TypeOK, SweepIdle
    <2>2. sweep[s].order \in Orders /\ sweep[s].stage \in Stages
      BY <1>2 DEF PushReminder, TypeOK, Reading, Pushing
    <2>3. CASE sweep[s].order # o
      <3>1. pushed'[o] = pushed[o]
        BY <1>2, <2>3 DEF PushReminder, TypeOK
      <3> QED
        BY <2>1, <3>1, ReminderQuiet
    <2>4. CASE sweep[s].order = o
      <3> DEFINE t == sweep[s].stage
      <3>1. pushed' = [pushed EXCEPT ![o] = [pushed[o] EXCEPT ![t] = pushed[o][t] + 1]]
        BY <1>2, <2>4 DEF PushReminder
      <3>2. pushed'[o] = [pushed[o] EXCEPT ![t] = pushed[o][t] + 1]
        BY <3>1 DEF TypeOK
      <3>3. Owes(s, o, t) /\ t \in Stages
        BY <1>2, <2>2, <2>4 DEF PushReminder, Owes
      <3>4. pushed'[o][t] = 1 /\ \A u \in Stages \ {t} : pushed'[o][u] = pushed[o][u]
        BY <1>0, <3>2, <3>3 DEF ReminderInv
      <3>5. \A r \in Sweeps \ {s} : ~Owes(r, o, t)
        BY <3>3 DEF ReminderInv
      <3> HIDE DEF t
      <3> QED
        BY <1>0, <2>1, <3>3, <3>4, <3>5 DEF ReminderInv, Owes
    <2> QED
      BY <2>3, <2>4
  <1>3. ASSUME order' = order, pushed' = pushed,
               \A s \in Sweeps : sweep'[s] = sweep[s] \/ sweep'[s].pc # "push"
        PROVE  ReminderInv(o)'
    BY <1>3, ReminderQuiet
  <1>4. ASSUME NEW s \in Sweeps, StartSweep(s) \/ SweepDies(s) PROVE ReminderInv(o)'
    BY <1>3, <1>4 DEF StartSweep, SweepDies, SweepIdle, TypeOK
  <1>5. ASSUME NEW s \in Sweeps, SelectCandidates(s) PROVE ReminderInv(o)'
    <2>1. PICK chosen \in SUBSET Orders :
            sweep' = [sweep EXCEPT ![s].pc = IF chosen = {} THEN "idle" ELSE "decide",
                                   ![s].batch = [p \in chosen |-> order[p].reminders]]
      BY <1>5 DEF SelectCandidates
    <2>2. sweep[s] \in Reading
      BY <1>5 DEF SelectCandidates, TypeOK, Pushing
    <2>3. sweep'[s].pc # "push" /\ \A r \in Sweeps \ {s} : sweep'[r] = sweep[r]
      BY <2>1, <2>2 DEF TypeOK, Reading
    <2> QED
      BY <1>3, <1>5, <2>3 DEF SelectCandidates
  <1>6. ASSUME NEW q \in Requests, RequestStep(q) \/ RequestDies(q) PROVE ReminderInv(o)'
    <2>1. sweep' = sweep /\ pushed' = pushed
      BY <1>6 DEF RequestStep, RequestDies, Confirm, NotifyRestaurant, Report, PostToSupport, NotifyAdmins
    <2>2. \/ order' = order
          \/ \E p \in Orders : order' = [order EXCEPT ![p].confirmed = "customer"]
          \/ \E p \in Orders : order' = [order EXCEPT ![p].reported = TRUE]
      <3>1. request[q] \in Asking
        BY <1>6, Singles
        DEF RequestStep, RequestDies, Confirm, NotifyRestaurant, Report, PostToSupport, NotifyAdmins,
            TypeOK
      <3> QED
        BY <1>6, <3>1
        DEF RequestStep, RequestDies, Confirm, NotifyRestaurant, Report, PostToSupport, NotifyAdmins,
            Asking
    <2>3. order'[o] \in {order[o], [order[o] EXCEPT !.confirmed = "customer"],
                         [order[o] EXCEPT !.reported = TRUE]}
      BY <2>2 DEF TypeOK
    <2>4. order'[o].reminders = order[o].reminders
      BY <1>0, <2>3 DEF Row
    <2> QED
      BY <2>1, <2>4, ReminderQuiet
  <1>7. ASSUME NEW p \in Orders, MarkDelivered(p) PROVE ReminderInv(o)'
    <2>1. order'[o] \in {order[o], [order[o] EXCEPT !.delivered = TRUE, !.due = clock + Window]}
      BY <1>7 DEF MarkDelivered, TypeOK
    <2>2. order'[o].reminders = order[o].reminders
      BY <1>0, <2>1 DEF Row
    <2> QED
      BY <1>7, <2>2, ReminderQuiet DEF MarkDelivered
  <1>8. ASSUME NEW q \in Requests, NEW p \in Orders, NEW kind \in {"confirm", "report"},
               LoadOrder(q, p, kind)
        PROVE  ReminderInv(o)'
    BY <1>3, <1>8 DEF LoadOrder
  <1>9. CASE Tick \/ UNCHANGED vars
    BY <1>3, <1>9 DEF Tick, vars
  <1> QED
    BY <1>1, <1>2, <1>4, <1>5, <1>6, <1>7, <1>8, <1>9 DEF Next, SweepStep

\* A sweep that is about to push does so for a delivered order, in the turn of the stage.
TurnInv ==
  \A w \in Sweeps : sweep[w].pc = "push" =>
    /\ order[sweep[w].order].delivered
    /\ sweep[w].stage = InTurn(sweep[w].now + Window - order[sweep[w].order].due)
    /\ ~Quiet(sweep[w].now)

\* The deadline of an order is set once, with its delivery.
LEMMA DueStays ==
  ASSUME TypeOK, [Next]_vars, NEW o \in Orders, order[o].delivered
  PROVE  order'[o].delivered /\ order'[o].due = order[o].due
  <1>1. order[o] \in Row
    BY DEF TypeOK
  <1> QED
    BY <1>1, Columns DEF ColumnStep, Row

\* A sweep that comes to push has just claimed a stage in its turn.
LEMMA TurnNext ==
  ASSUME TypeOK, TurnInv, [Next]_vars
  PROVE  TurnInv'
  <1> SUFFICES ASSUME NEW w \in Sweeps, sweep'[w].pc = "push"
               PROVE  /\ order'[sweep'[w].order].delivered
                      /\ sweep'[w].stage =
                           InTurn(sweep'[w].now + Window - order'[sweep'[w].order].due)
                      /\ ~Quiet(sweep'[w].now)
    BY DEF TurnInv
  <1>1. CASE sweep'[w] = sweep[w]
    <2>1. sweep[w].order \in Orders
      BY <1>1 DEF TypeOK, Reading, Pushing
    <2> QED
      BY <1>1, <2>1, DueStays DEF TurnInv
  <1>2. ASSUME Decide(w) \/ OrderFails(w)
        PROVE  /\ order'[sweep'[w].order].delivered
               /\ sweep'[w].stage =
                    InTurn(sweep'[w].now + Window - order'[sweep'[w].order].due)
               /\ ~Quiet(sweep'[w].now)
    <2>1. PICK o \in Orders :
            /\ Open(o) /\ sweep'[w].order = o /\ sweep'[w].now = sweep[w].now
            /\ sweep'[w].stage = InTurn(sweep[w].now + Window - order[o].due)
            /\ ~Quiet(sweep[w].now)
      BY <1>2, DecideMoves, SMTT(30)
    <2>2. order'[o].delivered /\ order'[o].due = order[o].due
      BY <2>1, DueStays DEF Open
    <2> QED
      BY <2>1, <2>2
  <1>3. ASSUME NEW s \in Sweeps, SweepStep(s) \/ SweepDies(s)
        PROVE  sweep'[w] = sweep[w] \/ (s = w /\ (Decide(w) \/ OrderFails(w)))
    <2>1. CASE Decide(s) \/ OrderFails(s)
      BY <2>1, DecideMoves
    <2>2. CASE SelectCandidates(s)
      <3>1. PICK chosen \in SUBSET Orders :
              sweep' = [sweep EXCEPT ![s].pc = IF chosen = {} THEN "idle" ELSE "decide",
                                     ![s].batch = [p \in chosen |-> order[p].reminders]]
        BY <2>2 DEF SelectCandidates
      <3>2. sweep[s] \in Reading
        BY <2>2 DEF SelectCandidates, TypeOK, Pushing
      <3> QED
        BY <3>1, <3>2 DEF TypeOK, Reading
    <2>3. CASE StartSweep(s) \/ PushReminder(s) \/ SweepDies(s)
      BY <2>3 DEF StartSweep, PushReminder, SweepDies, SweepIdle, TypeOK
    <2> QED
      BY <1>3, <2>1, <2>2, <2>3 DEF SweepStep
  <1>4. ASSUME NEW q \in Requests, RequestStep(q) \/ RequestDies(q) PROVE sweep' = sweep
    BY <1>4 DEF RequestStep, RequestDies, Confirm, NotifyRestaurant, Report, PostToSupport,
                NotifyAdmins
  <1>5. ASSUME NEW o \in Orders,
               \/ MarkDelivered(o)
               \/ \E q \in Requests, kind \in {"confirm", "report"} : LoadOrder(q, o, kind)
        PROVE  sweep' = sweep
    BY <1>5 DEF MarkDelivered, LoadOrder
  <1>6. CASE Tick \/ UNCHANGED vars
    BY <1>1, <1>6 DEF Tick, vars
  <1>7. sweep' = sweep => sweep'[w] = sweep[w]
    OBVIOUS
  <1> QED
    BY <1>1, <1>2, <1>3, <1>4, <1>5, <1>6, <1>7 DEF Next

\* However many sweeps overlap and wherever they fail or die, a reminder stage is pushed at
\* most once: the sweep that pushes it is the one whose claim moved the counter.  And it
\* is the stage whose turn it is: no superseded stage, none early, none at night.
THEOREM RemindedOnceHolds == Spec => []RemindedOnce
  <1>1. Init => TurnInv /\ \A o \in Orders : ReminderInv(o)
    BY DEF Init, TurnInv, ReminderInv, Owes, SweepIdle
  <1>2. TypeOK /\ (\A o \in Orders : ReminderInv(o)) /\ [Next]_vars =>
          (\A o \in Orders : ReminderInv(o))'
    BY ReminderNext
  <1>3. TypeOK /\ TurnInv /\ [Next]_vars => TurnInv'
    BY TurnNext
  <1>4. TurnInv /\ (\A o \in Orders : ReminderInv(o)) => RemindedOnce
    BY DEF TurnInv, ReminderInv, RemindedOnce
  <1> QED
    BY <1>1, <1>2, <1>3, <1>4, TypeCorrect, PTL DEF Spec
=============================================================================
