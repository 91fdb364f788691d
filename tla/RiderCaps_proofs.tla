-------------------------- MODULE RiderCaps_proofs --------------------------
(* The caps of a day, for every number of riders, earnings, payouts and       *)
(* overlapping runs.  The sums of the caps are folds over sets of earnings;   *)
(* what a proof needs of them is derived here from the least-number principle,*)
(* by looking at a smallest set for which it would fail.                      *)
EXTENDS RiderPayouts_proofs, FiniteSetTheorems

-----------------------------------------------------------------------------
(* A smallest number. *)

\* Every set of numbers that is not empty has a least one.
LEMMA LeastNumber ==
  ASSUME NEW N \in SUBSET Nat, N # {}
  PROVE  \E n \in N : \A m \in N : n <= m
  <1> DEFINE R == OpToRel(<, Nat)
  <1>1. PICK n \in N : \A m \in N : <<m, n>> \notin R
    BY NatLessThanWellFounded, WFMin
  <1>2. \A m \in N : ~(m < n)
    BY <1>1 DEF OpToRel
  <1> QED
    BY <1>2

\* A family of finite sets of earnings that is not empty has a smallest member.
LEMMA SmallestSet ==
  ASSUME NEW F \in SUBSET (SUBSET Earnings), F # {}
  PROVE  \E s \in F : \A t \in F : Cardinality(s) <= Cardinality(t)
  <1> DEFINE N == {Cardinality(s) : s \in F}
  <1>1. \A s \in F : Cardinality(s) \in Nat
    BY FiniteAssumption, FS_Subset, FS_CardinalityType
  <1>2. N \in SUBSET Nat /\ N # {}
    BY <1>1
  <1>3. PICK n \in N : \A m \in N : n <= m
    BY <1>2, LeastNumber
  <1> QED
    BY <1>3

\* Taking an earning out of a set makes it smaller.
LEMMA Smaller ==
  ASSUME NEW s \in SUBSET Earnings, NEW e \in s
  PROVE  /\ Cardinality(s) \in Nat /\ Cardinality(s \ {e}) \in Nat
         /\ Cardinality(s \ {e}) = Cardinality(s) - 1
  <1>1. IsFiniteSet(s)
    BY FiniteAssumption, FS_Subset
  <1> QED
    BY <1>1, FS_RemoveElement, FS_CardinalityType

-----------------------------------------------------------------------------
(* The fold behind Sum. *)

Picked(s) == CHOOSE x \in s : TRUE

\* g adds up the amounts of s, one picked earning after the other.
AddsUp(g, s) == g[s] = IF s = {} THEN 0 ELSE Amount[Picked(s)] + g[s \ {Picked(s)}]

IsTally(g, S) ==
  g = [s \in SUBSET S |-> IF s = {} THEN 0 ELSE Amount[Picked(s)] + g[s \ {Picked(s)}]]

LEMMA SumIsTally ==
  ASSUME NEW S
  PROVE  Sum(S) = (CHOOSE g : IsTally(g, S))[S]
  BY DEF Sum, SumFunctionOnSet, FoldFunctionOnSet, MapThenFoldSet, IsTally, Picked

LEMMA PickedIn ==
  ASSUME NEW s, s # {}
  PROVE  Picked(s) \in s
  BY DEF Picked

LEMMA AmountNat ==
  ASSUME NEW e \in Earnings
  PROVE  Amount[e] \in Nat
  BY EarningsAssumption

\* Functions on the sets of earnings that add up all those of at most n members.
Partial(n) ==
  {g \in [SUBSET Earnings -> Nat] : \A s \in SUBSET Earnings : Cardinality(s) <= n => AddsUp(g, s)}

LEMMA PartialZero == Partial(0) # {}
  <1> DEFINE g == [s \in SUBSET Earnings |-> 0]
  <1>1. ASSUME NEW s \in SUBSET Earnings, Cardinality(s) <= 0 PROVE AddsUp(g, s)
    <2>1. ASSUME NEW e \in s PROVE FALSE
      <3>1. /\ Cardinality(s) \in Nat /\ Cardinality(s \ {e}) \in Nat
            /\ Cardinality(s \ {e}) = Cardinality(s) - 1
        BY Smaller
      <3> QED
        BY <1>1, <3>1
    <2>2. s = {}
      BY <2>1
    <2> QED
      BY <2>2 DEF AddsUp
  <1>2. g \in Partial(0)
    BY <1>1 DEF Partial
  <1> QED
    BY <1>2

LEMMA PartialStep ==
  ASSUME NEW n \in Nat, Partial(n) # {}
  PROVE  Partial(n + 1) # {}
  <1>1. PICK g : g \in Partial(n)
    OBVIOUS
  <1>2. g \in [SUBSET Earnings -> Nat]
    BY <1>1 DEF Partial
  <1> DEFINE value(s) == IF s = {} THEN 0 ELSE Amount[Picked(s)] + g[s \ {Picked(s)}]
             h == [s \in SUBSET Earnings |-> value(s)]
  <1>3. \A s \in SUBSET Earnings : value(s) \in Nat
    <2> SUFFICES ASSUME NEW s \in SUBSET Earnings, s # {}
                 PROVE  Amount[Picked(s)] + g[s \ {Picked(s)}] \in Nat
      OBVIOUS
    <2> QED
      BY <1>2, PickedIn, AmountNat
  <1>4. \A s \in SUBSET Earnings : Cardinality(s) <= n => h[s] = g[s]
    BY <1>1 DEF Partial, AddsUp
  <1>5. ASSUME NEW s \in SUBSET Earnings, Cardinality(s) <= n + 1, s # {}
        PROVE  h[s \ {Picked(s)}] = g[s \ {Picked(s)}]
    <2>1. Picked(s) \in s
      BY <1>5, PickedIn
    <2>2. Cardinality(s \ {Picked(s)}) <= n
      BY <1>5, <2>1, Smaller
    <2> QED
      BY <1>4, <2>2
  <1>6. ASSUME NEW s \in SUBSET Earnings, Cardinality(s) <= n + 1 PROVE AddsUp(h, s)
    BY <1>5, <1>6 DEF AddsUp
  <1>7. h \in [SUBSET Earnings -> Nat]
    BY <1>3
  <1> HIDE DEF h
  <1>8. h \in Partial(n + 1)
    BY <1>6, <1>7 DEF Partial
  <1> QED
    BY <1>8

\* There is a function that adds up every set of earnings.
LEMMA TallyExists ==
  \E g \in [SUBSET Earnings -> Nat] : \A s \in SUBSET Earnings : AddsUp(g, s)
  <1> DEFINE N == {n \in Nat : Partial(n) = {}}
             c == Cardinality(Earnings)
  <1>1. N = {}
    <2> SUFFICES ASSUME N # {} PROVE FALSE
      OBVIOUS
    <2>1. PICK n \in N : \A m \in N : n <= m
      BY LeastNumber
    <2>2. n \in Nat /\ n # 0 /\ Partial(n) = {}
      BY PartialZero
    <2>3. n - 1 \in Nat /\ n - 1 \notin N
      BY <2>1, <2>2
    <2>4. Partial((n - 1) + 1) # {}
      BY <2>3, PartialStep
    <2> QED
      BY <2>2, <2>4
  <1>2. c \in Nat /\ (\A s \in SUBSET Earnings : Cardinality(s) <= c)
    BY FiniteAssumption, FS_CardinalityType, FS_Subset
  <1>3. PICK g : g \in Partial(c)
    BY <1>1, <1>2
  <1> QED
    BY <1>2, <1>3 DEF Partial

\* The total of a set of earnings, independent of the set the fold started from.
Total == CHOOSE g : g \in [SUBSET Earnings -> Nat] /\ \A s \in SUBSET Earnings : AddsUp(g, s)

LEMMA TotalAddsUp ==
  Total \in [SUBSET Earnings -> Nat] /\ \A s \in SUBSET Earnings : AddsUp(Total, s)
  BY TallyExists DEF Total

\* Any tally of a set of earnings agrees with the total on that set's subsets.
LEMMA TallyUnique ==
  ASSUME NEW S \in SUBSET Earnings, NEW g, IsTally(g, S)
  PROVE  \A s \in SUBSET S : g[s] = Total[s]
  <1> DEFINE F == {s \in SUBSET S : g[s] # Total[s]}
  <1> SUFFICES ASSUME F # {} PROVE FALSE
    OBVIOUS
  <1>1. F \in SUBSET (SUBSET Earnings)
    OBVIOUS
  <1>2. PICK s \in F : \A t \in F : Cardinality(s) <= Cardinality(t)
    BY <1>1, SmallestSet
  <1>3. s \in SUBSET S /\ s \in SUBSET Earnings
    OBVIOUS
  <1>4. AddsUp(g, s)
    BY <1>3 DEF IsTally, AddsUp
  <1>5. AddsUp(Total, s)
    BY <1>3, TotalAddsUp
  <1>6. s # {}
    BY <1>4, <1>5 DEF AddsUp
  <1> DEFINE t == s \ {Picked(s)}
  <1>7. Cardinality(t) < Cardinality(s)
    BY <1>3, <1>6, PickedIn, Smaller
  <1>8. t \notin F
    <2> SUFFICES ASSUME t \in F PROVE FALSE
      OBVIOUS
    <2>1. Cardinality(s) <= Cardinality(t)
      BY <1>2
    <2> QED
      BY <1>3, <1>6, <1>7, <2>1, PickedIn, Smaller
  <1>9. g[t] = Total[t]
    BY <1>3, <1>8
  <1> QED
    BY <1>4, <1>5, <1>6, <1>9 DEF AddsUp

\* Total restricted to the subsets of S is a tally of S, so the fold exists.
LEMMA SumIsTotal ==
  ASSUME NEW S \in SUBSET Earnings
  PROVE  Sum(S) = Total[S]
  <1> DEFINE g == [s \in SUBSET S |-> Total[s]]
  <1>1. \A s \in SUBSET S : AddsUp(Total, s)
    BY TotalAddsUp
  <1>2. IsTally(g, S)
    BY <1>1 DEF IsTally, AddsUp
  <1>3. IsTally(CHOOSE f : IsTally(f, S), S)
    BY <1>2
  <1> HIDE DEF g
  <1> QED
    BY <1>3, SumIsTally, TallyUnique

-----------------------------------------------------------------------------
(* What a sum of amounts does. *)

LEMMA SumEmpty == Sum({}) = 0
  BY SumIsTotal, TotalAddsUp DEF AddsUp

LEMMA SumNat ==
  ASSUME NEW S \in SUBSET Earnings
  PROVE  Sum(S) \in Nat
  BY SumIsTotal, TotalAddsUp

\* One earning more or less, whichever the fold would pick.
LEMMA SumRemove ==
  ASSUME NEW S \in SUBSET Earnings, NEW e \in S
  PROVE  Sum(S) = Amount[e] + Sum(S \ {e})
  <1> DEFINE Fails(s) == \E x \in s : Total[s] # Amount[x] + Total[s \ {x}]
             F == {s \in SUBSET Earnings : Fails(s)}
  <1>1. F = {}
    <2> SUFFICES ASSUME F # {} PROVE FALSE
      OBVIOUS
    <2>1. PICK s \in F : \A t \in F : Cardinality(s) <= Cardinality(t)
      BY SmallestSet
    <2>2. s \in SUBSET Earnings /\ Fails(s)
      OBVIOUS
    <2>3. PICK x \in s : Total[s] # Amount[x] + Total[s \ {x}]
      BY <2>2
    <2> DEFINE y == Picked(s)
    <2>4. y \in s
      BY <2>3, PickedIn
    <2>5. Total[s] = Amount[y] + Total[s \ {y}]
      BY <2>2, <2>4, TotalAddsUp DEF AddsUp
    <2> HIDE DEF y
    <2>6. x # y
      BY <2>3, <2>5
    <2>7. \A z \in s : ~Fails(s \ {z})
      <3> SUFFICES ASSUME NEW z \in s, Fails(s \ {z}) PROVE FALSE
        OBVIOUS
      <3>1. s \ {z} \in F
        BY <2>2
      <3>2. Cardinality(s) <= Cardinality(s \ {z})
        BY <2>1, <3>1
      <3> QED
        BY <2>2, <3>2, Smaller
    <2>8. Total[s \ {y}] = Amount[x] + Total[(s \ {y}) \ {x}]
      BY <2>4, <2>6, <2>7
    <2>9. Total[s \ {x}] = Amount[y] + Total[(s \ {x}) \ {y}]
      BY <2>4, <2>6, <2>7
    <2>10. (s \ {y}) \ {x} = (s \ {x}) \ {y}
      OBVIOUS
    <2>11. Amount[x] \in Nat /\ Amount[y] \in Nat /\ Total[(s \ {x}) \ {y}] \in Nat
      BY <2>2, <2>4, AmountNat, TotalAddsUp
    <2>12. Total[s] = Amount[y] + (Amount[x] + Total[(s \ {x}) \ {y}])
      BY <2>5, <2>8, <2>10
    <2>13. \A a, b, c \in Nat : b + (a + c) = a + (b + c)
      OBVIOUS
    <2>14. Total[s] = Amount[x] + (Amount[y] + Total[(s \ {x}) \ {y}])
      BY <2>11, <2>12, <2>13
    <2> QED
      BY <2>3, <2>9, <2>14
  <1>2. Total[S] = Amount[e] + Total[S \ {e}]
    BY <1>1
  <1> QED
    BY <1>2, SumIsTotal

LEMMA SumAdd ==
  ASSUME NEW S \in SUBSET Earnings, NEW e \in Earnings \ S
  PROVE  Sum(S \cup {e}) = Amount[e] + Sum(S)
  <1>1. (S \cup {e}) \ {e} = S
    OBVIOUS
  <1> QED
    BY <1>1, SumRemove

\* Earnings that have nothing in common add up.
LEMMA SumUnion ==
  ASSUME NEW S \in SUBSET Earnings, NEW T \in SUBSET (Earnings \ S)
  PROVE  Sum(S \cup T) = Sum(S) + Sum(T)
  <1> DEFINE F == {t \in SUBSET (Earnings \ S) : Sum(S \cup t) # Sum(S) + Sum(t)}
  <1> SUFFICES ASSUME F # {} PROVE FALSE
    OBVIOUS
  <1>1. F \in SUBSET (SUBSET Earnings)
    OBVIOUS
  <1>2. PICK t \in F : \A u \in F : Cardinality(t) <= Cardinality(u)
    BY <1>1, SmallestSet
  <1>3. t \in SUBSET (Earnings \ S) /\ t \in SUBSET Earnings /\ Sum(S \cup t) # Sum(S) + Sum(t)
    OBVIOUS
  <1>4. t # {}
    BY <1>3, SumEmpty, SumNat
  <1>5. PICK e \in t : TRUE
    BY <1>4
  <1>6. t \ {e} \notin F
    BY <1>2, <1>3, Smaller
  <1>7. Sum(S \cup (t \ {e})) = Sum(S) + Sum(t \ {e})
    BY <1>3, <1>6
  <1>8. Sum(t) = Amount[e] + Sum(t \ {e})
    BY <1>3, SumRemove
  <1>9. Sum(S \cup t) = Amount[e] + Sum(S \cup (t \ {e}))
    <2>1. S \cup t \in SUBSET Earnings /\ e \in S \cup t /\ (S \cup t) \ {e} = S \cup (t \ {e})
      BY <1>3
    <2> QED
      BY <2>1, SumRemove
  <1>10. Sum(S) \in Nat /\ Sum(t \ {e}) \in Nat /\ Amount[e] \in Nat
    BY <1>3, SumNat, AmountNat
  <1> QED
    BY <1>3, <1>7, <1>8, <1>9, <1>10

\* A part of the earnings adds up to no more than all of them.
LEMMA SumPart ==
  ASSUME NEW S \in SUBSET Earnings, NEW T \in SUBSET S
  PROVE  Sum(T) <= Sum(S)
  <1>1. T \cup (S \ T) = S /\ S \ T \in SUBSET (Earnings \ T) /\ T \in SUBSET Earnings
    OBVIOUS
  <1>2. Sum(S) = Sum(T) + Sum(S \ T)
    BY <1>1, SumUnion
  <1>3. Sum(T) \in Nat /\ Sum(S \ T) \in Nat
    BY <1>1, SumNat
  <1> QED
    BY <1>2, <1>3

-----------------------------------------------------------------------------
(* The caps of a day. *)

Capped(es) ==
  /\ Sum(es) <= PlatformDay
  /\ \A r \in Riders : Sum(Of(r, es)) <= RiderDay

LEMMA CappedPart ==
  ASSUME NEW S \in SUBSET Earnings, NEW T \in SUBSET S, Capped(S)
  PROVE  Capped(T)
  <1>1. {RiderDay, PlatformDay} \subseteq Nat
    BY LimitsAssumption
  <1>2. Sum(T) <= PlatformDay
    BY <1>1, SumPart, SumNat DEF Capped
  <1>3. ASSUME NEW r \in Riders PROVE Sum(Of(r, T)) <= RiderDay
    <2>1. Of(r, S) \in SUBSET Earnings /\ Of(r, T) \in SUBSET Of(r, S)
      BY DEF Of
    <2>2. Of(r, T) \in SUBSET Earnings
      BY <2>1
    <2>3. Sum(Of(r, S)) \in Nat /\ Sum(Of(r, T)) \in Nat /\ Sum(Of(r, T)) <= Sum(Of(r, S))
      BY <2>1, <2>2, SumPart, SumNat
    <2>4. Sum(Of(r, S)) <= RiderDay
      BY DEF Capped
    <2> QED
      BY <1>1, <2>3, <2>4
  <1> QED
    BY <1>2, <1>3 DEF Capped

\* What the caps leave a batch of one rider's earnings, in numbers.
LEMMA RoomBound ==
  ASSUME NEW r \in Riders, NEW taken \in Nat, NEW n \in Int, OutToday \in SUBSET Earnings,
         n <= Lower(MaxTransfer, Room(r, taken))
  PROVE  /\ n <= MaxTransfer
         /\ Sum(Of(r, OutToday)) + n <= RiderDay
         /\ Sum(OutToday) + taken + n <= PlatformDay
  <1>1. {MaxTransfer, RiderDay, PlatformDay} \subseteq Nat
    BY LimitsAssumption
  <1>2. Of(r, OutToday) \in SUBSET Earnings
    BY DEF Of
  <1>3. Sum(OutToday) \in Nat /\ Sum(Of(r, OutToday)) \in Nat
    BY <1>2, SumNat
  <1> QED
    BY <1>1, <1>3 DEF Lower, Room

\* A batch within the caps keeps them.
LEMMA CappedBatch ==
  ASSUME NEW r \in Riders, OutToday \in SUBSET Earnings, NEW es \in SUBSET (Earnings \ OutToday),
         \A e \in es : RiderOf[e] = r, WithinCaps(r, es), Capped(OutToday)
  PROVE  Capped(OutToday \cup es)
  <1>1. Sum(es) \in Nat /\ {RiderDay, PlatformDay} \subseteq Nat
    BY SumNat, LimitsAssumption
  <1>2. Sum(Of(r, OutToday)) + Sum(es) <= RiderDay /\ Sum(OutToday) + 0 + Sum(es) <= PlatformDay
    BY <1>1, RoomBound DEF WithinCaps
  <1>3. Sum(OutToday \cup es) = Sum(OutToday) + Sum(es) /\ Sum(OutToday) \in Nat
    BY SumUnion, SumNat
  <1>4. ASSUME NEW q \in Riders PROVE Sum(Of(q, OutToday \cup es)) <= RiderDay
    <2>1. CASE q = r
      <3>1. Of(q, OutToday \cup es) = Of(r, OutToday) \cup es
        BY <2>1 DEF Of
      <3>2. Of(r, OutToday) \in SUBSET Earnings /\ es \in SUBSET (Earnings \ Of(r, OutToday))
        BY DEF Of
      <3>3. Sum(Of(r, OutToday) \cup es) = Sum(Of(r, OutToday)) + Sum(es)
        BY <3>2, SumUnion
      <3> QED
        BY <1>2, <3>1, <3>3
    <2>2. CASE q # r
      <3>1. Of(q, OutToday \cup es) = Of(q, OutToday)
        BY <2>2 DEF Of
      <3> QED
        BY <3>1 DEF Capped
    <2> QED
      BY <2>1, <2>2
  <1>5. Sum(OutToday \cup es) <= PlatformDay
    BY <1>1, <1>2, <1>3
  <1> QED
    BY <1>4, <1>5 DEF Capped

-----------------------------------------------------------------------------
(* The plans of the runs. *)

\* A plan gives each rider earnings of his own.
OwnPlan(plan) == \A q \in Riders : \A e \in plan[q] : RiderOf[e] = q

PlansOwn == \A u \in Runs : OwnPlan(run[u].plan)

LEMMA PlannedOwn ==
  ASSUME NEW es, NEW plan, IsPlan(plan, es)
  PROVE  OwnPlan(plan)
  BY DEF IsPlan, BatchOf, Of, OwnPlan

LEMMA OwnPlans ==
  /\ \A pc : OwnPlan([RunIdle EXCEPT !.pc = pc].plan)
  /\ \A list : OwnPlan(Looking(list).plan)
  /\ \A plan : Paying(plan).plan = plan
  <1>1. OwnPlan(NoPlan)
    BY DEF OwnPlan, NoPlan
  <1> QED
    BY <1>1 DEF RunIdle, Looking, Paying

\* The plan of a run that moves: kept, dropped, made, or shortened by its first batch.
LEMMA PlanMoves ==
  ASSUME PayInv, NEW u \in Runs, StartRun(u) \/ RunStep(u) \/ Stop(u), OwnPlan(run[u].plan)
  PROVE  OwnPlan(run'[u].plan)
  <1> USE OwnPlans
  <1>0. run \in [Runs -> Run] /\ run[u] \in Run /\ run[u].plan \in [Riders -> SUBSET Earnings]
    BY DEF PayInv, TypeOK, Run
  <1>1. \A pc : At(u, pc) => OwnPlan(run'[u].plan)
    BY <1>0 DEF At
  <1>2. Continue(u) => OwnPlan(run'[u].plan)
    BY <1>0 DEF Continue
  <1>3. CASE StartRun(u) \/ LoadStale(u) \/ ReleaseLease(u) \/ Stop(u)
    BY <1>0, <1>1, <1>3 DEF StartRun, LoadStale, ReleaseLease, Stop
  <1>4. CASE VerifyFinds(u) \/ VerifyRefused(u) \/ VerifyLeaves(u)
    <2>1. \A list, pc, at, answer :
            /\ Looking(list).plan = NoPlan
            /\ [Looking(list) EXCEPT !.pc = pc, !.at = at].plan = NoPlan
            /\ [Looking(list) EXCEPT !.pc = pc, !.at = at, !.answer = answer].plan = NoPlan
      BY DEF Looking, RunIdle
    <2>2. CASE VerifyFinds(u)
      <3>1. PICK p : run' = [run EXCEPT ![u] = [Looking(@.list \ {p}) EXCEPT
                               !.pc = "found", !.at = p, !.answer = transfer[p]]]
        BY <2>2, Zenon DEF VerifyFinds
      <3> QED
        BY <1>0, <2>1, <3>1 DEF OwnPlan, NoPlan
    <2>3. CASE VerifyRefused(u)
      <3>1. PICK p : run' = [run EXCEPT ![u] = [Looking(@.list \ {p}) EXCEPT
                               !.pc = "resend", !.at = p]]
        BY <2>3, Zenon DEF VerifyRefused
      <3> QED
        BY <1>0, <2>1, <3>1 DEF OwnPlan, NoPlan
    <2>4. CASE VerifyLeaves(u)
      BY <1>0, <2>1, <2>4 DEF VerifyLeaves, OwnPlan, NoPlan
    <2> QED
      BY <1>4, <2>2, <2>3, <2>4
  <1>5. CASE Resend(u) \/ Send(u)
    <2>1. \E pc, a : run' = [run EXCEPT ![u].pc = pc, ![u].answer = a]
      BY <1>5 DEF Resend, Send, Request
    <2> QED
      BY <1>0, <2>1 DEF Run
  <1>6. CASE LoadEarnings(u)
    BY <1>0, <1>1, <1>6 DEF LoadEarnings, RunIdle
  <1>7. CASE MakePlan(u)
    BY <1>0, <1>7, PlannedOwn DEF MakePlan
  <1>8. CASE CreatePayout(u)
    <2>1. \E r \in Riders :
            LET rest == Paying([run[u].plan EXCEPT ![r] = {}]) IN
            \/ run' = [run EXCEPT ![u] = rest]
            \/ \E p \in Payouts : run' = [run EXCEPT ![u] = [rest EXCEPT !.pc = "send", !.at = p]]
      <3>1. PICK r \in Riders :
              LET es   == run[u].plan[r]
                  rest == Paying([run[u].plan EXCEPT ![r] = {}])
              IN IF Creatable(r, es)
                   THEN \E p \in Payouts :
                          run' = [run EXCEPT ![u] = [rest EXCEPT !.pc = "send", !.at = p]]
                   ELSE run' = [run EXCEPT ![u] = rest]
        BY <1>8, Zenon DEF CreatePayout
      <3> QED
        BY <3>1, Zenon
    <2>2. PICK r \in Riders : run'[u].plan = [run[u].plan EXCEPT ![r] = {}]
      <3>1. PICK r \in Riders :
              LET rest == Paying([run[u].plan EXCEPT ![r] = {}]) IN
              \/ run' = [run EXCEPT ![u] = rest]
              \/ \E p \in Payouts : run' = [run EXCEPT ![u] = [rest EXCEPT !.pc = "send", !.at = p]]
        BY <2>1, Zenon
      <3> DEFINE rest == Paying([run[u].plan EXCEPT ![r] = {}])
      <3>2. /\ rest.plan = [run[u].plan EXCEPT ![r] = {}]
            /\ \A p : [rest EXCEPT !.pc = "send", !.at = p].plan = rest.plan
        BY DEF Paying, RunIdle
      <3> HIDE DEF rest
      <3>3. run'[u] = rest \/ \E p \in Payouts : run'[u] = [rest EXCEPT !.pc = "send", !.at = p]
        BY <1>0, <3>1 DEF rest
      <3> QED
        BY <3>2, <3>3
    <2> QED
      BY <1>0, <2>2 DEF OwnPlan
  <1>9. CASE Apply(u)
    BY <1>1, <1>2, <1>9 DEF Apply, ApplyNothing, ApplyRefusal, ApplyFinal, ApplyInProgress, Halt
  <1> QED
    BY <1>3, <1>4, <1>5, <1>6, <1>7, <1>8, <1>9 DEF RunStep

LEMMA PlansNext == PayInv /\ PlansOwn /\ [Next]_vars => PlansOwn'
  <1> SUFFICES ASSUME PayInv, PlansOwn, [Next]_vars PROVE PlansOwn'
    OBVIOUS
  <1>1. ASSUME NEW u \in Runs, StartRun(u) \/ RunStep(u) \/ Stop(u) PROVE PlansOwn'
    <2>1. \A w \in Runs \ {u} : run'[w] = run[w]
      BY <1>1 DEF StartRun, RunStep, Stop, LoadStale, VerifyFinds, VerifyRefused, VerifyLeaves,
         Resend, LoadEarnings, MakePlan, CreatePayout, Send, Request, Apply, ApplyNothing,
         ApplyRefusal, ApplyFinal, ApplyInProgress, ReleaseLease, At, Continue, Halt,
         PayInv, TypeOK
    <2>2. OwnPlan(run'[u].plan)
      BY <1>1, PlanMoves DEF PlansOwn
    <2> QED
      BY <2>1, <2>2 DEF PlansOwn
  <1>2. CASE UNCHANGED run
    BY <1>2 DEF PlansOwn
  <1> QED
    BY <1>1, <1>2 DEF Next, vars, BankMoves, LateLands, Webhook, GrowStale, Clear,
       RecipientChanges, LeaseExpires, NextDay

-----------------------------------------------------------------------------
(* The money that counts today. *)

LiveToday(p) == payout[p].status \in {"processing", "paid"} /\ payout[p].age = "today"

LEMMA OutIs ==
  ASSUME TypeOK
  PROVE  /\ OutToday \in SUBSET Earnings
         /\ \A e : e \in OutToday <=> \E p \in Payouts : LiveToday(p) /\ e \in covers[p]
  BY DEF OutToday, LiveToday, TypeOK

\* Settling a payout never makes it count that did not.
LEMMA SettleShrinks ==
  ASSUME TypeOK, NEW p \in Payouts, NEW outcome, NEW hold, NEW coded,
         Settle(p, outcome, hold, coded), NEW q \in Payouts, LiveToday(q)'
  PROVE  LiveToday(q)
  <1>1. payout[q] \in Payout /\ payout[p] \in Payout
    BY DEF TypeOK
  <1>2. CASE q = p
    <2>1. /\ payout'[p].age = payout[p].age
          /\ payout'[p].status = IF Pays(p, outcome) THEN "paid"
                                 ELSE IF Releases(p, outcome) THEN outcome ELSE payout[p].status
      BY <1>1 DEF Settle, TypeOK, Payout
    <2>2. Releases(p, outcome) => outcome \in {"failed", "reversed"}
      BY DEF Releases
    <2>3. Pays(p, outcome) => payout[p].status = "processing"
      BY DEF Pays
    <2> QED
      BY <1>2, <2>1, <2>2, <2>3 DEF LiveToday
  <1>3. CASE q # p
    BY <1>3 DEF Settle, TypeOK, LiveToday
  <1> QED
    BY <1>2, <1>3

\* Nothing but a new payout makes more earnings count.
LEMMA OthersShrink ==
  ASSUME PayInv, [Next]_vars, ~\E u \in Runs : CreatePayout(u)
  PROVE  /\ UNCHANGED covers
         /\ \A q \in Payouts : LiveToday(q)' => LiveToday(q)
  <1>0. TypeOK /\ \A u \in Runs : RunTrue(u)
    BY DEF PayInv
  <1>1. UNCHANGED covers
    BY DEF Next, vars, StartRun, RunStep, Stop, LoadStale, VerifyFinds, VerifyRefused, VerifyLeaves,
       Resend, LoadEarnings, MakePlan, Send, Apply, ApplyNothing, ApplyRefusal, ApplyFinal,
       ApplyInProgress, ReleaseLease, BankMoves, LateLands, Webhook, GrowStale, Clear,
       RecipientChanges, LeaseExpires, NextDay
  <1>2. ASSUME NEW q \in Payouts, LiveToday(q)' PROVE LiveToday(q)
    <2>1. CASE UNCHANGED payout
      BY <1>2, <2>1 DEF LiveToday
    <2>2. ASSUME NEW u \in Runs, ApplyRefusal(u) \/ ApplyFinal(u) PROVE LiveToday(q)
      <3>1. run[u].at \in Payouts
        BY <1>0, <2>2 DEF RunTrue, Applying, Working, ApplyRefusal, ApplyFinal
      <3>2. \E outcome, hold, coded : Settle(run[u].at, outcome, hold, coded)
        BY <2>2 DEF ApplyRefusal, ApplyFinal
      <3> QED
        BY <1>0, <1>2, <3>1, <3>2, SettleShrinks
    <2>3. ASSUME NEW p \in Payouts, Webhook(p) PROVE LiveToday(q)
      BY <1>0, <1>2, <2>3, SettleShrinks DEF Webhook
    <2>4. ASSUME NEW u \in Runs, ApplyInProgress(u) PROVE LiveToday(q)
      BY <1>0, <1>2, <2>4 DEF ApplyInProgress, LiveToday, TypeOK, Payout
    <2>5. ASSUME NEW p \in Payouts, GrowStale(p) PROVE LiveToday(q)
      BY <1>0, <1>2, <2>5 DEF GrowStale, LiveToday, TypeOK, Payout
    <2>6. CASE NextDay
      BY <1>0, <1>2, <2>6 DEF NextDay, Older, LiveToday, TypeOK, Payout
    <2> QED
      BY <2>1, <2>2, <2>3, <2>4, <2>5, <2>6
      DEF Next, vars, StartRun, RunStep, Stop, LoadStale, VerifyFinds, VerifyRefused, VerifyLeaves,
          Resend, LoadEarnings, MakePlan, Send, Apply, ApplyNothing, ReleaseLease, BankMoves,
          LateLands, Clear, RecipientChanges, LeaseExpires
  <1> QED
    BY <1>1, <1>2

\* A new payout adds its batch, which no other payout counts.
LEMMA CreateAdds ==
  ASSUME PayInv, PlansOwn, NEW u \in Runs, CreatePayout(u)
  PROVE  \/ OutToday' = OutToday
         \/ \E r \in Riders, es \in SUBSET (Earnings \ OutToday) :
              /\ \A e \in es : RiderOf[e] = r
              /\ WithinCaps(r, es) /\ OutToday' \in SUBSET (OutToday \cup es)
  <1>0. TypeOK /\ TypeOK' /\ run[u].plan \in [Riders -> SUBSET Earnings]
    BY CreateKeep DEF PayInv, TypeOK, Run
  <1>1. PICK r \in Riders :
          LET es == run[u].plan[r] IN
          IF Creatable(r, es)
            THEN \E p \in Payouts :
                   /\ payout[p].status = "none"
                   /\ payout' = [payout EXCEPT ![p].status = "processing"]
                   /\ covers' = [covers EXCEPT ![p] = es]
            ELSE UNCHANGED <<payout, covers>>
    BY DEF CreatePayout
  <1> DEFINE es == run[u].plan[r]
  <1>2. CASE ~Creatable(r, es)
    BY <1>1, <1>2 DEF OutToday
  <1>3. CASE Creatable(r, es)
    <2>1. PICK p \in Payouts :
            /\ payout[p].status = "none"
            /\ payout' = [payout EXCEPT ![p].status = "processing"]
            /\ covers' = [covers EXCEPT ![p] = es]
      BY <1>1, <1>3
    <2>2. ASSUME NEW e \in es PROVE e \notin OutToday
      <3>1. e \in Earnings /\ earning[e].payout = NoPayout
        BY <1>0, <1>3 DEF Creatable, Unclaimed, Pending
      <3>2. ASSUME NEW q \in Payouts, LiveToday(q), e \in covers[q] PROVE FALSE
        <4>1. earning[e].payout = q
          BY <3>2 DEF PayInv, PayoutTrue, LiveToday
        <4> QED
          BY <3>1, <4>1, NoneAssumption
      <3> QED
        BY <1>0, <3>2, OutIs
    <2>3. \A q \in Payouts \ {p} : (LiveToday(q)' <=> LiveToday(q)) /\ covers'[q] = covers[q]
      BY <1>0, <2>1 DEF LiveToday, TypeOK
    <2>4. covers'[p] = es
      BY <1>0, <2>1 DEF TypeOK
    <2>5. OutToday' \in SUBSET (OutToday \cup es)
      <3> SUFFICES ASSUME NEW e \in OutToday' PROVE e \in OutToday \cup es
        OBVIOUS
      <3>1. PICK q \in Payouts : LiveToday(q)' /\ e \in covers'[q]
        BY <1>0 DEF OutToday, LiveToday
      <3> QED
        BY <1>0, <2>3, <2>4, <3>1, OutIs
    <2>6. es \in SUBSET (Earnings \ OutToday)
      BY <1>0, <2>2
    <2>7. WithinCaps(r, es) /\ \A e \in es : RiderOf[e] = r
      BY <1>3 DEF Creatable, PlansOwn, OwnPlan
    <2> QED
      BY <2>5, <2>6, <2>7
  <1> QED
    BY <1>2, <1>3

CapInv == PayInv /\ PlansOwn /\ Capped(OutToday)

LEMMA CapInit == Init => CapInv
  <1> SUFFICES ASSUME Init PROVE CapInv
    OBVIOUS
  <1>1. PayInv /\ PlansOwn
    BY PayInit, OwnPlans DEF Init, PlansOwn, RunIdle, OwnPlan, NoPlan
  <1>2. OutToday = {}
    BY DEF Init, OutToday
  <1>3. Of(1, {}) = {} /\ \A r \in Riders : Of(r, {}) = {}
    BY DEF Of
  <1>4. {RiderDay, PlatformDay} \subseteq Nat
    BY LimitsAssumption
  <1>5. Capped({})
    BY <1>3, <1>4, SumEmpty DEF Capped
  <1> QED
    BY <1>1, <1>2, <1>5 DEF CapInv

LEMMA CapNext == CapInv /\ [Next]_vars => CapInv'
  <1> SUFFICES ASSUME CapInv, [Next]_vars PROVE CapInv'
    OBVIOUS
  <1>1. PayInv /\ PayInv' /\ PlansOwn /\ PlansOwn' /\ TypeOK /\ TypeOK'
    BY PayNext, PlansNext DEF CapInv, PayInv
  <1>2. OutToday \in SUBSET Earnings /\ Capped(OutToday)
    BY <1>1, OutIs DEF CapInv
  <1>3. ASSUME NEW u \in Runs, CreatePayout(u) PROVE Capped(OutToday')
    <2>1. ASSUME NEW r \in Riders, NEW es \in SUBSET (Earnings \ OutToday),
                 \A e \in es : RiderOf[e] = r, WithinCaps(r, es),
                 OutToday' \in SUBSET (OutToday \cup es)
          PROVE  Capped(OutToday')
      <3>1. Capped(OutToday \cup es) /\ OutToday \cup es \in SUBSET Earnings
        BY <1>2, <2>1, CappedBatch
      <3> QED
        BY <2>1, <3>1, CappedPart
    <2> QED
      BY <1>1, <1>2, <1>3, <2>1, CreateAdds
  <1>4. ASSUME ~\E u \in Runs : CreatePayout(u) PROVE Capped(OutToday')
    <2>1. OutToday' \in SUBSET OutToday
      <3> SUFFICES ASSUME NEW e \in OutToday' PROVE e \in OutToday
        OBVIOUS
      <3>1. PICK q \in Payouts : LiveToday(q)' /\ e \in covers'[q]
        BY DEF OutToday, LiveToday
      <3> QED
        BY <1>1, <1>4, <3>1, OthersShrink, OutIs
    <2> QED
      BY <1>2, <2>1, CappedPart
  <1> QED
    BY <1>1, <1>3, <1>4, Zenon DEF CapInv

LEMMA SpecCapInv == Spec => []CapInv
  BY CapInit, CapNext, PTL DEF Spec

\* Neither the platform's cap of a day nor a rider's is exceeded by what has left and what
\* may still leave, whatever runs overlap, die or act on a plan made before another's
\* payouts: the caps are checked again where a payout is created, against the day as it
\* is then, and no later step makes more money count.
THEOREM CapsHold == Spec => []WithinDay
  <1>1. CapInv => WithinDay
    BY DEF CapInv, Capped, WithinDay
  <1> QED
    BY <1>1, SpecCapInv, PTL

-----------------------------------------------------------------------------
(* The planner against the function that creates payouts. *)

\* Of some earnings, one has the greatest key.
LEMMA GreatestOf ==
  ASSUME NEW S \in SUBSET Earnings, S # {}, NEW key \in [Earnings -> Nat]
  PROVE  \E m \in S : \A e \in S : key[e] <= key[m]
  <1> DEFINE HasGreatest(t) == \E m \in t : \A e \in t : key[e] <= key[m]
             F == {t \in SUBSET Earnings : t # {} /\ ~HasGreatest(t)}
  <1>1. ASSUME F # {} PROVE FALSE
    <2>1. PICK t \in F : \A w \in F : Cardinality(t) <= Cardinality(w)
      BY <1>1, SmallestSet
    <2>2. PICK e \in t : TRUE
      BY <2>1
    <2>3. t \in SUBSET Earnings /\ ~HasGreatest(t)
      BY <2>1
    <2>4. t \ {e} \notin F
      <3>1. /\ Cardinality(t) \in Nat /\ Cardinality(t \ {e}) \in Nat
            /\ Cardinality(t \ {e}) = Cardinality(t) - 1
        BY <2>2, <2>3, Smaller
      <3>2. ~(Cardinality(t) <= Cardinality(t \ {e}))
        BY <3>1
      <3> QED
        BY <2>1, <3>2, Zenon
    <2>5. CASE t \ {e} = {}
      <3>1. t = {e} /\ key[e] \in Nat
        BY <2>2, <2>3, <2>5
      <3> QED
        BY <2>3, <3>1
    <2>6. CASE t \ {e} # {}
      <3>1. PICK m \in t \ {e} : \A d \in t \ {e} : key[d] <= key[m]
        BY <2>3, <2>4, <2>6
      <3>2. key[e] \in Nat /\ key[m] \in Nat /\ \A d \in t : key[d] \in Nat
        BY <2>2, <2>3, <3>1
      <3>3. CASE key[e] <= key[m]
        BY <2>3, <3>1, <3>3
      <3>4. CASE key[m] <= key[e]
        <4>1. \A d \in t : key[d] <= key[e]
          BY <3>1, <3>2, <3>4
        <4> QED
          BY <2>2, <2>3, <4>1
      <3> QED
        BY <3>2, <3>3, <3>4
    <2> QED
      BY <2>5, <2>6
  <1> QED
    BY <1>1

\* The oldest earnings whose running total fits in a room.
FitOf(mine, room) == {e \in mine : Sum({f \in mine : f <= e}) <= room}

LEMMA FitFits ==
  ASSUME NEW mine \in SUBSET Earnings, NEW room \in Int, FitOf(mine, room) # {}
  PROVE  /\ Sum(FitOf(mine, room)) <= room
         /\ \A e \in FitOf(mine, room), f \in mine : f < e => f \in FitOf(mine, room)
  <1> DEFINE upTo(e) == {f \in mine : f <= e}
             fit == FitOf(mine, room)
  <1>1. mine \in SUBSET Nat /\ fit \in SUBSET mine
    BY NumbersAssumption DEF FitOf
  <1>2. ASSUME NEW e \in mine PROVE upTo(e) \in SUBSET Earnings /\ Sum(upTo(e)) \in Nat
    BY SumNat
  <1>3. Sum(fit) <= room
    <2>1. [e \in Earnings |-> e] \in [Earnings -> Nat]
      BY NumbersAssumption
    <2>2. fit \in SUBSET Earnings /\ fit # {}
      BY <1>1
    <2>3. PICK m \in fit : \A e \in fit : [d \in Earnings |-> d][e] <= [d \in Earnings |-> d][m]
      BY <2>1, <2>2, GreatestOf
    <2>4. \A e \in fit : e <= m
      BY <2>2, <2>3
    <2>5. fit \in SUBSET upTo(m)
      BY <1>1, <2>4
    <2>6. Sum(fit) <= Sum(upTo(m)) /\ Sum(fit) \in Nat /\ Sum(upTo(m)) \in Nat
      BY <1>1, <1>2, <2>2, <2>5, SumPart, SumNat
    <2>7. Sum(upTo(m)) <= room
      BY DEF FitOf
    <2> QED
      BY <2>6, <2>7
  <1>4. ASSUME NEW e \in fit, NEW f \in mine, f < e PROVE f \in fit
    <2>1. e \in mine /\ e \in Nat /\ f \in Nat /\ mine \in SUBSET Nat
      BY <1>1
    <2>2. \A g \in Nat : g <= f => g <= e
      BY <1>4, <2>1
    <2>3. upTo(f) \in SUBSET upTo(e)
      BY <2>1, <2>2
    <2>4. Sum(upTo(f)) <= Sum(upTo(e))
      BY <1>2, <2>1, <2>3, SumPart
    <2>5. Sum(upTo(e)) <= room
      BY DEF FitOf
    <2>6. Sum(upTo(f)) <= room
      BY <1>2, <2>1, <2>4, <2>5
    <2> QED
      BY <2>6 DEF FitOf
  <1> QED
    BY <1>3, <1>4

\* What a plan takes before it comes to a rider.
Before(plan, r) == {q \in Riders : q < r /\ plan[q] # {}}
Taken(plan, qs) == UNION {plan[q] : q \in qs}

LEMMA BatchIs ==
  ASSUME NEW r \in Riders, NEW es \in SUBSET Earnings, NEW taken, BatchOf(r, es, taken) # {}
  PROVE  /\ BatchOf(r, es, taken) = FitOf(Of(r, es), Lower(MaxTransfer, Room(r, taken)))
         /\ recipient[r] = "ready" /\ ~InFlight(r)
         /\ Sum(BatchOf(r, es, taken)) >= MinPayout
  BY DEF BatchOf, FitOf

LEMMA PlanPart ==
  ASSUME NEW es \in SUBSET Earnings, NEW plan, IsPlan(plan, es), NEW r \in Riders
  PROVE  /\ plan[r] \in SUBSET Of(r, es) /\ plan[r] \in SUBSET Earnings
         /\ plan[r] # {} => /\ plan[r] = BatchOf(r, es, Sum(Taken(plan, Before(plan, r))))
                            /\ ~(Cardinality(Before(plan, r)) >= MaxPerRun)
  <1>1. \/ plan[r] = {}
        \/ /\ plan[r] = BatchOf(r, es, Sum(Taken(plan, Before(plan, r))))
           /\ ~(Cardinality(Before(plan, r)) >= MaxPerRun)
    BY DEF IsPlan, Taken, Before
  <1>2. \A taken : BatchOf(r, es, taken) \in SUBSET Of(r, es)
    BY DEF BatchOf
  <1>3. Of(r, es) \in SUBSET Earnings
    BY DEF Of
  <1> QED
    BY <1>1, <1>2, <1>3

LEMMA PlanOf ==
  ASSUME NEW es \in SUBSET Earnings, NEW plan, IsPlan(plan, es), NEW r \in Riders
  PROVE  \A e \in plan[r] : e \in es /\ e \in Earnings /\ RiderOf[e] = r
  BY PlanPart DEF Of

LEMMA TakenPart ==
  ASSUME NEW es \in SUBSET Earnings, NEW plan, IsPlan(plan, es), NEW qs \in SUBSET Riders
  PROVE  Taken(plan, qs) \in SUBSET es /\ Sum(Taken(plan, qs)) \in Nat
  <1>1. \A q \in qs : plan[q] \in SUBSET es
    BY PlanPart DEF Of
  <1>2. Taken(plan, qs) \in SUBSET es
    BY <1>1 DEF Taken
  <1> QED
    BY <1>2, SumNat

\* What a batch of a plan weighs.
LEMMA BatchWeighs ==
  ASSUME TypeOK, NEW es \in SUBSET Earnings, NEW plan, IsPlan(plan, es),
         NEW r \in Riders, plan[r] # {}
  PROVE  LET taken == Sum(Taken(plan, Before(plan, r))) IN
         /\ taken \in Nat /\ Sum(plan[r]) \in Nat
         /\ Sum(plan[r]) >= MinPayout
         /\ Sum(plan[r]) <= Lower(MaxTransfer, Room(r, taken))
         /\ \A e \in plan[r], f \in Of(r, es) : f < e => f \in plan[r]
  <1> DEFINE taken == Sum(Taken(plan, Before(plan, r)))
             room  == Lower(MaxTransfer, Room(r, taken))
  <1>1. taken \in Nat
    BY TakenPart DEF Before
  <1>2. plan[r] \in SUBSET Earnings /\ plan[r] = BatchOf(r, es, taken)
    BY PlanPart
  <1>3. plan[r] = FitOf(Of(r, es), room) /\ Sum(plan[r]) >= MinPayout
    BY <1>2, BatchIs
  <1>4. Of(r, es) \in SUBSET Earnings
    BY DEF Of
  <1>5. room \in Int
    <2>1. Of(r, OutToday) \in SUBSET Earnings /\ OutToday \in SUBSET Earnings
      BY OutIs DEF Of
    <2>2. Sum(OutToday) \in Nat /\ Sum(Of(r, OutToday)) \in Nat
      BY <2>1, SumNat
    <2> QED
      BY <1>1, <2>2, LimitsAssumption DEF Room, Lower
  <1> HIDE DEF taken, room
  <1>6. /\ Sum(plan[r]) <= room
        /\ \A e \in plan[r], f \in Of(r, es) : f < e => f \in plan[r]
    BY <1>3, <1>4, <1>5, FitFits
  <1> QED
    BY <1>1, <1>2, <1>3, <1>6, SumNat DEF taken, room

\* What the planner gives a rider in the state the plan was made for.
LEMMA PlansArePayable ==
  ASSUME TypeOK, NEW plan, IsPlan(plan, Pending), NEW r \in Riders, plan[r] # {}
  PROVE  /\ Creatable(r, plan[r])
         /\ \A e \in plan[r], f \in Of(r, Pending) : f < e => f \in plan[r]
  <1> DEFINE taken == Sum(Taken(plan, Before(plan, r)))
  <1>1. Pending \in SUBSET Earnings
    BY DEF Pending
  <1>2. /\ taken \in Nat /\ Sum(plan[r]) \in Nat /\ Sum(plan[r]) >= MinPayout
        /\ Sum(plan[r]) <= Lower(MaxTransfer, Room(r, taken))
        /\ \A e \in plan[r], f \in Of(r, Pending) : f < e => f \in plan[r]
    BY <1>1, BatchWeighs
  <1>3. Sum(plan[r]) <= Lower(MaxTransfer, Room(r, 0))
    <2>1. Of(r, OutToday) \in SUBSET Earnings /\ OutToday \in SUBSET Earnings
      BY OutIs DEF Of
    <2>2. Sum(OutToday) \in Nat /\ Sum(Of(r, OutToday)) \in Nat
      BY <2>1, SumNat
    <2> HIDE DEF taken
    <2> QED
      BY <1>2, <2>2, LimitsAssumption DEF Room, Lower
  <1>4. recipient[r] = "ready" /\ ~InFlight(r)
    <2>1. plan[r] = BatchOf(r, Pending, taken)
      BY <1>1, PlanPart
    <2> HIDE DEF taken
    <2> QED
      BY <1>1, <2>1, BatchIs
  <1>5. Unclaimed(plan[r])
    BY <1>1, PlanOf DEF Unclaimed
  <1> QED
    BY <1>2, <1>3, <1>4, <1>5 DEF Creatable, WithinCaps

\* A set of riders some of whose earnings are planned has a last one.
LEMMA LastPlanned ==
  ASSUME NEW es \in SUBSET Earnings, NEW plan, IsPlan(plan, es),
         NEW qs \in SUBSET Riders, qs # {}, \A q \in qs : plan[q] # {}
  PROVE  IsFiniteSet(qs) /\ \E m \in qs : \A q \in qs : q <= m
  <1> DEFINE taken == Taken(plan, qs)
  <1>1. taken \in SUBSET Earnings
    BY TakenPart
  <1>2. ASSUME NEW q \in qs, NEW e \in plan[q] PROVE RiderOf[e] = q /\ e \in taken
    BY PlanOf DEF Taken
  <1>3. \A e \in taken : \E q \in qs : e \in plan[q]
    BY DEF Taken
  <1>4. RiderOf \in [Earnings -> Nat]
    BY NumbersAssumption, EarningsAssumption
  <1> HIDE DEF taken
  <1>5. \A q \in qs : \E e \in taken : RiderOf[e] = q
    BY <1>2
  <1>6. \A e \in taken : RiderOf[e] \in qs
    BY <1>2, <1>3
  <1>7. PICK l \in taken : \A e \in taken : RiderOf[e] <= RiderOf[l]
    BY <1>1, <1>4, <1>5, GreatestOf
  <1>8. \A q \in qs : q <= RiderOf[l]
    BY <1>5, <1>7
  <1>9. qs \in SUBSET (0 .. RiderOf[l]) /\ RiderOf[l] \in Nat
    BY <1>1, <1>4, <1>8, NumbersAssumption
  <1>10. IsFiniteSet(qs)
    <2>1. IsFiniteSet(0 .. RiderOf[l])
      BY <1>9, FS_Interval
    <2> QED
      BY <1>9, <2>1, FS_Subset
  <1> QED
    BY <1>6, <1>8, <1>10

\* A whole plan, created at once, would keep the caps of the day and the limit of a run:
\* what a rider's batch takes is no longer there for the riders after him.
LEMMA PlansKeepTheLimits ==
  ASSUME CapInv, NEW plan, IsPlan(plan, Pending)
  PROVE  /\ Capped(OutToday \cup Taken(plan, Riders))
         /\ Cardinality({q \in Riders : plan[q] # {}}) <= MaxPerRun
  <1> DEFINE planned == {q \in Riders : plan[q] # {}}
             all     == Taken(plan, Riders)
  <1>1. TypeOK /\ Pending \in SUBSET Earnings /\ OutToday \in SUBSET Earnings
    BY OutIs DEF CapInv, PayInv, Pending
  <1>2. {MaxTransfer, RiderDay, PlatformDay, MaxPerRun} \subseteq Nat
    BY LimitsAssumption
  <1>3. all \in SUBSET (Earnings \ OutToday)
    <2>1. all \in SUBSET Pending
      BY <1>1, TakenPart
    <2>2. ASSUME NEW e \in Pending, e \in OutToday PROVE FALSE
      <3>1. PICK p \in Payouts : LiveToday(p) /\ e \in covers[p]
        BY <1>1, <2>2, OutIs
      <3>2. earning[e].payout = p
        BY <3>1 DEF CapInv, PayInv, PayoutTrue, LiveToday
      <3> QED
        BY <3>2, NoneAssumption DEF Pending
    <2> QED
      BY <1>1, <2>1, <2>2
  <1>4. \A q \in Riders : \A e \in plan[q] : RiderOf[e] = q /\ e \in Earnings
    BY <1>1, PlanOf
  <1>5. ASSUME NEW r \in Riders
        PROVE  /\ Of(r, OutToday) \in SUBSET Earnings /\ Sum(Of(r, OutToday)) \in Nat
               /\ Of(r, OutToday \cup all) = Of(r, OutToday) \cup plan[r]
               /\ plan[r] \in SUBSET (Earnings \ Of(r, OutToday))
    <2>1. \A q \in Riders : \A e \in plan[q] : RiderOf[e] = q
      BY <1>4
    <2>2. Of(r, all) = plan[r]
      BY <2>1 DEF Of, Taken
    <2>3. plan[r] \in SUBSET all
      BY DEF Taken
    <2> HIDE DEF all
    <2>4. Of(r, OutToday) \in SUBSET Earnings
      BY <1>1 DEF Of
    <2>5. Of(r, OutToday \cup all) = Of(r, OutToday) \cup Of(r, all)
      BY DEF Of
    <2>6. plan[r] \in SUBSET (Earnings \ Of(r, OutToday))
      BY <1>3, <2>3 DEF Of
    <2> QED
      BY <2>2, <2>4, <2>5, <2>6, SumNat
  <1>6. ASSUME NEW r \in planned
        PROVE  LET taken == Sum(Taken(plan, Before(plan, r))) IN
               /\ taken \in Nat /\ Sum(plan[r]) \in Nat
               /\ Sum(Of(r, OutToday)) + Sum(plan[r]) <= RiderDay
               /\ Sum(OutToday) + taken + Sum(plan[r]) <= PlatformDay
    <2> DEFINE taken == Sum(Taken(plan, Before(plan, r)))
    <2>1. /\ taken \in Nat /\ Sum(plan[r]) \in Nat
          /\ Sum(plan[r]) <= Lower(MaxTransfer, Room(r, taken))
      BY <1>1, <1>6, BatchWeighs
    <2> HIDE DEF taken
    <2>2. /\ Sum(Of(r, OutToday)) + Sum(plan[r]) <= RiderDay
          /\ Sum(OutToday) + taken + Sum(plan[r]) <= PlatformDay
      BY <1>1, <1>6, <2>1, RoomBound
    <2> QED
      BY <2>1, <2>2 DEF taken
  <1> HIDE DEF all
  <1>7. ASSUME NEW r \in Riders PROVE Sum(Of(r, OutToday \cup all)) <= RiderDay
    <2>1. CASE plan[r] = {}
      <3>1. Of(r, OutToday \cup all) = Of(r, OutToday)
        BY <1>5, <2>1
      <3> QED
        BY <3>1 DEF CapInv, Capped
    <2>2. CASE plan[r] # {}
      <3>1. Sum(Of(r, OutToday) \cup plan[r]) = Sum(Of(r, OutToday)) + Sum(plan[r])
        BY <1>5, SumUnion
      <3>2. Sum(Of(r, OutToday)) + Sum(plan[r]) <= RiderDay
        BY <1>6, <2>2
      <3> QED
        BY <1>5, <3>1, <3>2
    <2> QED
      BY <2>1, <2>2
  <1>8. CASE planned = {}
    <2>1. all = {}
      BY <1>8 DEF all, Taken
    <2>2. OutToday \cup all = OutToday /\ Cardinality(planned) = 0
      BY <1>8, <2>1, FS_EmptySet
    <2>3. 0 <= MaxPerRun
      BY <1>2
    <2>4. Capped(OutToday \cup all)
      BY <2>2, Zenon DEF CapInv
    <2> QED
      BY <2>2, <2>3, <2>4 DEF all
  <1>9. CASE planned # {}
    <2>1. IsFiniteSet(planned) /\ \E m \in planned : \A q \in planned : q <= m
      BY <1>1, <1>9, LastPlanned
    <2>2. PICK m \in planned : \A q \in planned : q <= m
      BY <2>1
    <2>3. Before(plan, m) = planned \ {m}
      <3>1. m \in Nat /\ \A q \in Riders : q \in Nat
        BY <2>2, NumbersAssumption
      <3>2. \A q \in planned : q < m <=> q # m
        BY <2>2, <3>1
      <3> QED
        BY <3>2 DEF Before
    <2> DEFINE earlier == Taken(plan, Before(plan, m))
    <2>4. all = earlier \cup plan[m]
      BY <2>2, <2>3 DEF all, Taken
    <2>5. earlier \in SUBSET (Earnings \ plan[m]) /\ plan[m] \in SUBSET Earnings
      <3>1. \A q \in Riders : \A e \in plan[q] : RiderOf[e] = q /\ e \in Earnings
        BY <1>4
      <3>2. \A e \in earlier : \E q \in planned \ {m} : e \in plan[q]
        BY <2>3 DEF Taken
      <3> HIDE DEF earlier
      <3> QED
        BY <2>2, <3>1, <3>2
    <2> HIDE DEF earlier
    <2>6. Sum(all) = Sum(earlier) + Sum(plan[m])
      <3>1. plan[m] \in SUBSET (Earnings \ earlier) /\ earlier \in SUBSET Earnings
        BY <2>5
      <3> QED
        BY <2>4, <3>1, SumUnion
    <2>7. /\ Sum(earlier) \in Nat /\ Sum(plan[m]) \in Nat
          /\ Sum(OutToday) + Sum(earlier) + Sum(plan[m]) <= PlatformDay
      BY <1>6, <2>2 DEF earlier
    <2>8. Sum(OutToday \cup all) = Sum(OutToday) + Sum(all) /\ Sum(OutToday) \in Nat
      BY <1>1, <1>3, SumUnion, SumNat
    <2>9. Sum(OutToday \cup all) <= PlatformDay
      BY <1>2, <2>6, <2>7, <2>8
    <2>10. Cardinality(planned) <= MaxPerRun
      <3>1. ~(Cardinality(planned \ {m}) >= MaxPerRun)
        BY <1>1, <2>2, <2>3, PlanPart
      <3>2. /\ Cardinality(planned \ {m}) = Cardinality(planned) - 1
            /\ Cardinality(planned) \in Nat
        BY <2>1, <2>2, FS_RemoveElement, FS_CardinalityType
      <3> QED
        BY <1>2, <3>1, <3>2
    <2>11. Capped(OutToday \cup all)
      BY <1>7, <2>9 DEF Capped
    <2> QED
      BY <2>10, <2>11 DEF all
  <1> QED
    BY <1>8, <1>9

\* A plan is payable: every batch would be accepted where payouts are created, and leaves
\* no older earning of its rider behind; all of them together keep the day's caps and the
\* number of transfers of a run.
Payable(plan) ==
  /\ \A r \in Riders : plan[r] # {} =>
       /\ Creatable(r, plan[r])
       /\ \A e \in plan[r], f \in Of(r, Pending) : f < e => f \in plan[r]
  /\ Capped(OutToday \cup Taken(plan, Riders))
  /\ Cardinality({q \in Riders : plan[q] # {}}) <= MaxPerRun

\* In every state the program can be in, planRiderPayouts proposes nothing that
\* ebuy_create_rider_payout would refuse in that state, although one counts against the
\* caps what it has planned so far and the other what has been created: a refusal always
\* means that something moved since the plan was made.
THEOREM PlannerAgrees == Spec => [](\A plan : IsPlan(plan, Pending) => Payable(plan))
  <1>1. CapInv => \A plan : IsPlan(plan, Pending) => Payable(plan)
    <2> SUFFICES ASSUME CapInv, NEW plan, IsPlan(plan, Pending) PROVE Payable(plan)
      OBVIOUS
    <2>1. TypeOK
      BY DEF CapInv, PayInv
    <2>2. ASSUME NEW r \in Riders, plan[r] # {}
          PROVE  /\ Creatable(r, plan[r])
                 /\ \A e \in plan[r], f \in Of(r, Pending) : f < e => f \in plan[r]
      BY <2>1, <2>2, PlansArePayable
    <2> QED
      BY <2>2, PlansKeepTheLimits DEF Payable
  <1> QED
    BY <1>1, SpecCapInv, PTL
=============================================================================
