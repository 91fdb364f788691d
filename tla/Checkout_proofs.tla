-------------------------- MODULE Checkout_proofs --------------------------
(* Theorems about Checkout, for every set of requests, keys, customers and   *)
(* codes, and whatever the caps are.                                         *)
EXTENDS Checkout, FiniteSetTheorems, TLAPS

-----------------------------------------------------------------------------
(* The invariant. *)

Unplaced == {"idle", "lock", "count", "redeem", "insert"}
Placed == {"items", "pay", "store", "cancel"}

\* A request that holds a row lock, or is past its counts, is alone with its code.
LockTrue(r) ==
  /\ pc[r] \in Locked \cup {"lock"} => code[r] \in Codes
  /\ pc[r] \in Locked => lock[code[r]] = r
  /\ pc[r] = "redeem" => /\ Cardinality(Uses(code[r])) < GlobalCap[code[r]]
                         /\ Cardinality(UsesBy(code[r], Customer(r))) < UserCap[code[r]]

\* What a request has written by the time it is where it is.
OrderTrue(r) ==
  /\ pc[r] \in Unplaced => order[r] = "none" /\ r \notin closing
  /\ pc[r] \in Unplaced \cup {"items", "pay", "undo"} => r \notin payable
  /\ pc[r] \in Locked \cup {"idle", "lock"} => r \notin redeemed
  /\ pc[r] = "insert" /\ code[r] # NoCode => r \in redeemed
  /\ pc[r] \in Placed /\ order[r] = "live" /\ code[r] # NoCode => r \in redeemed
  /\ pc[r] \in Placed /\ r \in redeemed => order[r] = "live" \/ r \in closing \cup lost
  /\ r \in closing => order[r] # "live"

\* A key that was answered has a record, and a request that came later has ended.
RetryTrue(r) ==
  /\ told[r] # NoRequest => record[KeyOf[r]] # NoRequest
  /\ r \in repeats => pc[r] = "done"

CheckoutInv ==
  /\ TypeOK
  /\ \A r \in Requests : LockTrue(r) /\ OrderTrue(r) /\ RetryTrue(r)
  /\ CapsHold /\ DiscountBacked /\ SlotsComeBack /\ RetryPlacesNothing

Step(r) == Placing(r) \/ Close(r) \/ ReleaseClosed(r)

-----------------------------------------------------------------------------
(* The redemptions of a code. *)

\* There are finitely many.
LEMMA UsesFinite ==
  ASSUME TypeOK, NEW c, NEW u
  PROVE  /\ IsFiniteSet(Uses(c)) /\ Cardinality(Uses(c)) \in Nat
         /\ IsFiniteSet(UsesBy(c, u)) /\ Cardinality(UsesBy(c, u)) \in Nat
  <1>1. Uses(c) \subseteq Requests /\ UsesBy(c, u) \subseteq Requests
    BY DEF TypeOK, Uses, UsesBy
  <1> QED BY <1>1, RequestsAssumption, FS_Subset, FS_CardinalityType

\* A step redeems for nobody but a request that is past its counts, and the code of an
\* order that holds a redemption stays.
LEMMA UsesStep ==
  ASSUME CheckoutInv, NEW r \in Requests, Step(r), ~Redeem(r), NEW c, NEW u
  PROVE  Uses(c)' \subseteq Uses(c) /\ UsesBy(c, u)' \subseteq UsesBy(c, u)
  <1>1. redeemed' \subseteq redeemed
    BY DEF Step, Placing, Lookup, LockCode, CountUses, Insert, InsertItems, Undo,
           OpenPayment, StoreRecord, CancelOrder, Die, Close, ReleaseClosed
  <1>2. \A q \in redeemed : code'[q] = code[q]
    BY DEF CheckoutInv, TypeOK, OrderTrue, Step, Placing, Lookup, LockCode, CountUses,
           Redeem, Insert, InsertItems, Undo, OpenPayment, StoreRecord, CancelOrder, Die,
           Close, ReleaseClosed
  <1> QED BY <1>1, <1>2 DEF Uses, UsesBy

\* A redemption is one more use of its code, by its customer, and of no other.
LEMMA UsesRedeem ==
  ASSUME CheckoutInv, NEW r \in Requests, Redeem(r), NEW c, NEW u
  PROVE  /\ Uses(c)' = IF c = code[r] THEN Uses(c) \cup {r} ELSE Uses(c)
         /\ UsesBy(c, u)' = IF c = code[r] /\ u = Customer(r)
                            THEN UsesBy(c, u) \cup {r} ELSE UsesBy(c, u)
         /\ r \notin Uses(c) /\ r \notin UsesBy(c, u)
  BY DEF CheckoutInv, OrderTrue, Locked, Redeem, Uses, UsesBy, Customer

LEMMA UsesFewer ==
  ASSUME TypeOK, NEW c, NEW u, Uses(c)' \subseteq Uses(c), UsesBy(c, u)' \subseteq UsesBy(c, u)
  PROVE  /\ Cardinality(Uses(c)') \in Nat /\ Cardinality(Uses(c)') <= Cardinality(Uses(c))
         /\ Cardinality(UsesBy(c, u)') \in Nat
         /\ Cardinality(UsesBy(c, u)') <= Cardinality(UsesBy(c, u))
  BY UsesFinite, FS_Subset, FS_CardinalityType

-----------------------------------------------------------------------------
(* One step of one request preserves each part. *)

LEMMA TypeInit == Init => TypeOK
  BY DEF Init, TypeOK, Working, Locked

LEMMA TypeStep ==
  ASSUME CheckoutInv, NEW r \in Requests, Step(r)
  PROVE  TypeOK'
  <1> USE RequestsAssumption, KeysAssumption, CapsAssumption
      DEF CheckoutInv, TypeOK, Working, Locked, Goto, Lose
  <1>1. CASE Lookup(r)
    BY <1>1 DEF Lookup
  <1>2. CASE LockCode(r)
    BY <1>2 DEF LockCode, LockTrue
  <1>3. CASE CountUses(r)
    BY <1>3 DEF CountUses, LockTrue
  <1>4. CASE Redeem(r)
    BY <1>4 DEF Redeem, LockTrue
  <1>5. CASE Insert(r)
    BY <1>5 DEF Insert
  <1>6. CASE InsertItems(r)
    BY <1>6 DEF InsertItems
  <1>7. CASE OpenPayment(r)
    BY <1>7 DEF OpenPayment
  <1>8. CASE StoreRecord(r)
    BY <1>8 DEF StoreRecord
  <1>9. CASE CancelOrder(r)
    BY <1>9 DEF CancelOrder
  <1>10. CASE Undo(r)
    BY <1>10 DEF Undo
  <1>11. CASE Die(r)
    BY <1>11 DEF Die
  <1>12. CASE Close(r)
    BY <1>12 DEF Close
  <1>13. CASE ReleaseClosed(r)
    BY <1>13 DEF ReleaseClosed
  <1> QED
    BY <1>1, <1>2, <1>3, <1>4, <1>5, <1>6, <1>7, <1>8, <1>9, <1>10, <1>11, <1>12, <1>13
    DEF Step, Placing

\* While a request is past its counts, nobody else adds a use of its code.
LEMMA LockStep ==
  ASSUME CheckoutInv, NEW r \in Requests, Step(r), NEW q \in Requests
  PROVE  LockTrue(q)'
  <1>t. TypeOK'
    BY TypeStep
  <1>1. pc'[q] \in Locked \cup {"lock"} => code'[q] \in Codes
    BY CapsAssumption DEF CheckoutInv, TypeOK, LockTrue, Working, Locked, Goto, Step, Placing,
       Lookup, LockCode, CountUses, Redeem, Insert, InsertItems, Undo, OpenPayment,
       StoreRecord, CancelOrder, Die, Close, ReleaseClosed
  <1>2. pc'[q] \in Locked => lock'[code'[q]] = q
    BY RequestsAssumption DEF CheckoutInv, TypeOK, LockTrue, Working, Locked, Goto, Step,
       Placing, Lookup, LockCode, CountUses, Redeem, Insert, InsertItems, Undo, OpenPayment,
       StoreRecord, CancelOrder, Die, Close, ReleaseClosed
  <1>3. ASSUME pc'[q] = "redeem"
        PROVE  /\ Cardinality(Uses(code[q])') < GlobalCap[code[q]]
               /\ Cardinality(UsesBy(code[q], Customer(q))') < UserCap[code[q]]
               /\ code'[q] = code[q]
    <2>c. PICK c : c = code[q]
      OBVIOUS
    <2>u. PICK u : u = Customer(q)
      OBVIOUS
    <2>1. /\ Cardinality(Uses(c)) < GlobalCap[c] /\ Cardinality(UsesBy(c, u)) < UserCap[c]
          /\ c \in Codes /\ lock[c] = q /\ code'[q] = c /\ ~Redeem(q)
      BY <1>3, <2>c, <2>u
      DEF CheckoutInv, TypeOK, LockTrue, Working, Locked, Goto, Step, Placing,
         Lookup, LockCode, CountUses, Redeem, Insert, InsertItems, Undo, OpenPayment,
         StoreRecord, CancelOrder, Die, Close, ReleaseClosed
    <2>2. Uses(c)' \subseteq Uses(c) /\ UsesBy(c, u)' \subseteq UsesBy(c, u)
      <3>1. CASE Redeem(r)
        <4>1. code[r] # c
          BY <3>1, <2>1 DEF CheckoutInv, LockTrue, Locked, Redeem
        <4>2. /\ Uses(c)' = IF c = code[r] THEN Uses(c) \cup {r} ELSE Uses(c)
              /\ UsesBy(c, u)' = IF c = code[r] /\ u = Customer(r)
                                 THEN UsesBy(c, u) \cup {r} ELSE UsesBy(c, u)
          BY <3>1, UsesRedeem
        <4> QED BY <4>1, <4>2
      <3> QED BY <3>1, UsesStep
    <2>3. /\ Cardinality(Uses(c)') \in Nat /\ Cardinality(Uses(c)') <= Cardinality(Uses(c))
          /\ Cardinality(UsesBy(c, u)') \in Nat
          /\ Cardinality(UsesBy(c, u)') <= Cardinality(UsesBy(c, u))
          /\ Cardinality(Uses(c)) \in Nat /\ Cardinality(UsesBy(c, u)) \in Nat
      BY <2>2, UsesFewer, UsesFinite DEF CheckoutInv
    <2>4. GlobalCap[c] \in Nat /\ UserCap[c] \in Nat
      BY <2>1, CapsAssumption
    <2>5. Cardinality(Uses(c)') < GlobalCap[c] /\ Cardinality(UsesBy(c, u)') < UserCap[c]
      BY <2>1, <2>3, <2>4
    <2> QED BY <2>c, <2>u, <2>1, <2>5 DEF Uses, UsesBy, Customer
  <1>4. Customer(q)' = Customer(q)
    BY DEF Customer
  <1> QED BY <1>1, <1>2, <1>3, <1>4 DEF LockTrue

LEMMA OrderStep ==
  ASSUME CheckoutInv, NEW r \in Requests, Step(r), NEW q \in Requests
  PROVE  OrderTrue(q)'
  <1> USE RequestsAssumption, CapsAssumption
      DEF CheckoutInv, TypeOK, OrderTrue, Unplaced, Placed, Working, Locked, Goto, Lose
  <1>1. CASE Lookup(r)
    BY <1>1 DEF Lookup
  <1>2. CASE LockCode(r)
    BY <1>2 DEF LockCode
  <1>3. CASE CountUses(r)
    BY <1>3 DEF CountUses
  <1>4. CASE Redeem(r)
    BY <1>4 DEF Redeem
  <1>5. CASE Insert(r)
    BY <1>5 DEF Insert
  <1>6. CASE InsertItems(r)
    BY <1>6 DEF InsertItems
  <1>7. CASE OpenPayment(r)
    BY <1>7 DEF OpenPayment
  <1>8. CASE StoreRecord(r)
    BY <1>8 DEF StoreRecord
  <1>9. CASE CancelOrder(r)
    BY <1>9 DEF CancelOrder
  <1>10. CASE Undo(r)
    BY <1>10 DEF Undo
  <1>11. CASE Die(r)
    BY <1>11 DEF Die
  <1>12. CASE Close(r)
    BY <1>12 DEF Close
  <1>13. CASE ReleaseClosed(r)
    BY <1>13 DEF ReleaseClosed
  <1> QED
    BY <1>1, <1>2, <1>3, <1>4, <1>5, <1>6, <1>7, <1>8, <1>9, <1>10, <1>11, <1>12, <1>13
    DEF Step, Placing

\* A request whose key was answered finds the record, and ends.
LEMMA RetryStep ==
  ASSUME CheckoutInv, NEW r \in Requests, Step(r), NEW q \in Requests
  PROVE  RetryTrue(q)'
  <1> USE RequestsAssumption, KeysAssumption
      DEF CheckoutInv, TypeOK, RetryTrue, Working, Locked, Goto
  <1>1. CASE Lookup(r)
    BY <1>1 DEF Lookup
  <1>2. CASE StoreRecord(r)
    BY <1>2 DEF StoreRecord
  <1>3. CASE Step(r) /\ ~Lookup(r) /\ ~StoreRecord(r)
    BY <1>3 DEF Step, Placing, LockCode, CountUses, Redeem, Insert, InsertItems, Undo,
       OpenPayment, CancelOrder, Die, Close, ReleaseClosed
  <1> QED BY <1>1, <1>2, <1>3

LEMMA CapsStep ==
  ASSUME CheckoutInv, NEW r \in Requests, Step(r)
  PROVE  CapsHold'
  <1> SUFFICES ASSUME NEW c \in Codes, NEW u
               PROVE  /\ Cardinality(Uses(c)') <= GlobalCap[c]
                      /\ u \in Customers => Cardinality(UsesBy(c, u)') <= UserCap[c]
    BY DEF CapsHold
  <1>1. /\ IsFiniteSet(Uses(c)) /\ Cardinality(Uses(c)) \in Nat
        /\ IsFiniteSet(UsesBy(c, u)) /\ Cardinality(UsesBy(c, u)) \in Nat
        /\ GlobalCap[c] \in Nat /\ UserCap[c] \in Nat
        /\ Cardinality(Uses(c)) <= GlobalCap[c]
        /\ u \in Customers => Cardinality(UsesBy(c, u)) <= UserCap[c]
    BY UsesFinite, CapsAssumption DEF CheckoutInv, CapsHold
  <1>2. CASE Redeem(r)
    <2>1. /\ c = code[r] => Cardinality(Uses(c)) < GlobalCap[c]
          /\ c = code[r] /\ u = Customer(r) => Cardinality(UsesBy(c, u)) < UserCap[c]
      BY <1>2 DEF CheckoutInv, LockTrue, Redeem
    <2>2. /\ Cardinality(Uses(c) \cup {r}) = Cardinality(Uses(c)) + 1
          /\ Cardinality(UsesBy(c, u) \cup {r}) = Cardinality(UsesBy(c, u)) + 1
      BY <1>1, <1>2, UsesRedeem, FS_AddElement
    <2>3. /\ Uses(c)' = IF c = code[r] THEN Uses(c) \cup {r} ELSE Uses(c)
          /\ UsesBy(c, u)' = IF c = code[r] /\ u = Customer(r)
                             THEN UsesBy(c, u) \cup {r} ELSE UsesBy(c, u)
      BY <1>2, UsesRedeem
    <2>4. Cardinality(Uses(c)') <= GlobalCap[c]
      BY <1>1, <2>1, <2>2, <2>3
    <2>5. u \in Customers => Cardinality(UsesBy(c, u)') <= UserCap[c]
      BY <1>1, <2>1, <2>2, <2>3
    <2> QED BY <2>4, <2>5
  <1>3. CASE ~Redeem(r)
    <2>1. Uses(c)' \subseteq Uses(c) /\ UsesBy(c, u)' \subseteq UsesBy(c, u)
      BY <1>3, UsesStep
    <2>2. /\ Cardinality(Uses(c)') \in Nat /\ Cardinality(Uses(c)') <= Cardinality(Uses(c))
          /\ Cardinality(UsesBy(c, u)') \in Nat
          /\ Cardinality(UsesBy(c, u)') <= Cardinality(UsesBy(c, u))
      BY <2>1, UsesFewer DEF CheckoutInv
    <2> QED BY <1>1, <2>2
  <1> QED BY <1>2, <1>3

\* The row that turns payable, and every redemption a request leaves behind.
LEMMA SlotsStep ==
  ASSUME CheckoutInv, NEW r \in Requests, Step(r)
  PROVE  DiscountBacked' /\ SlotsComeBack' /\ RetryPlacesNothing'
  <1>0. TypeOK' /\ \A q \in Requests : OrderTrue(q)' /\ RetryTrue(q)'
    BY TypeStep, OrderStep, RetryStep
  <1> USE RequestsAssumption, CapsAssumption
      DEF CheckoutInv, TypeOK, OrderTrue, Unplaced, Placed, Working, Locked, Goto, Lose
  <1>1. DiscountBacked'
    BY DEF DiscountBacked, Step, Placing, Lookup, LockCode, CountUses, Redeem, Insert,
       InsertItems, Undo, OpenPayment, StoreRecord, CancelOrder, Die, Close, ReleaseClosed
  <1>2. SlotsComeBack'
    BY DEF SlotsComeBack, Step, Placing, Lookup, LockCode, CountUses, Redeem, Insert,
       InsertItems, Undo, OpenPayment, StoreRecord, CancelOrder, Die, Close, ReleaseClosed
  <1>3. RetryPlacesNothing'
    BY KeysAssumption
    DEF RetryPlacesNothing, RetryTrue, Step, Placing, Lookup, LockCode, CountUses, Redeem,
       Insert, InsertItems, Undo, OpenPayment, StoreRecord, CancelOrder, Die, Close, ReleaseClosed
  <1> QED BY <1>1, <1>2, <1>3

-----------------------------------------------------------------------------
LEMMA InvInit == Init => CheckoutInv
  <1> SUFFICES ASSUME Init PROVE CheckoutInv
    OBVIOUS
  <1>1. \A c \in Codes : Uses(c) = {} /\ \A u \in Customers : UsesBy(c, u) = {}
    BY DEF Init, Uses, UsesBy
  <1>2. CapsHold
    BY <1>1, FS_EmptySet, CapsAssumption DEF CapsHold
  <1>3. \A r \in Requests : LockTrue(r) /\ OrderTrue(r) /\ RetryTrue(r)
    BY DEF Init, LockTrue, OrderTrue, RetryTrue, Unplaced, Placed, Locked
  <1> QED
    BY <1>2, <1>3, TypeInit
    DEF CheckoutInv, Init, DiscountBacked, SlotsComeBack, RetryPlacesNothing

LEMMA InvNext == CheckoutInv /\ [Next]_vars => CheckoutInv'
  <1> SUFFICES ASSUME CheckoutInv, [Next]_vars PROVE CheckoutInv'
    OBVIOUS
  <1>1. CASE Next
    <2>1. PICK r \in Requests : Step(r)
      BY <1>1 DEF Next, Step
    <2> QED
      BY <2>1, TypeStep, LockStep, OrderStep, RetryStep, CapsStep, SlotsStep DEF CheckoutInv
  <1>2. CASE UNCHANGED vars
    <2> USE <1>2 DEF vars, CheckoutInv
    <2>1. \A c, u : Uses(c)' = Uses(c) /\ UsesBy(c, u)' = UsesBy(c, u)
      BY DEF Uses, UsesBy
    <2>2. CapsHold'
      BY <2>1 DEF CapsHold
    <2>3. \A r \in Requests : LockTrue(r)'
      BY <2>1 DEF LockTrue, Customer
    <2>4. \A r \in Requests : OrderTrue(r)' /\ RetryTrue(r)'
      BY DEF OrderTrue, RetryTrue
    <2>5. TypeOK' /\ DiscountBacked' /\ SlotsComeBack' /\ RetryPlacesNothing'
      BY DEF TypeOK, DiscountBacked, SlotsComeBack, RetryPlacesNothing
    <2> QED BY <2>2, <2>3, <2>4, <2>5
  <1> QED BY <1>1, <1>2

LEMMA Invariant == Spec => []CheckoutInv
  BY InvInit, InvNext, PTL DEF Spec

\* The state keeps its type, and every row lock has a holder that will commit or die.
THEOREM TypeCorrect == Spec => []TypeOK
  <1>1. CheckoutInv => TypeOK
    BY DEF CheckoutInv
  <1> QED BY <1>1, Invariant, PTL

\* No promo code is redeemed beyond its overall or its per-customer cap.
THEOREM CapsAreKept == Spec => []CapsHold
  <1>1. CheckoutInv => CapsHold
    BY DEF CheckoutInv
  <1> QED BY <1>1, Invariant, PTL

\* Every live order that can be paid at a discount holds its redemption.
THEOREM DiscountsAreBacked == Spec => []DiscountBacked
  <1>1. CheckoutInv => DiscountBacked
    BY DEF CheckoutInv
  <1> QED BY <1>1, Invariant, PTL

\* Every redemption is used, on its way back, or accounted for by a failed release.
THEOREM SlotsAreKept == Spec => []SlotsComeBack
  <1>1. CheckoutInv => SlotsComeBack
    BY DEF CheckoutInv
  <1> QED BY <1>1, Invariant, PTL

\* A retry of a checkout that was answered places no second order.
THEOREM RetriesAreSafe == Spec => []RetryPlacesNothing
  <1>1. CheckoutInv => RetryPlacesNothing
    BY DEF CheckoutInv
  <1> QED BY <1>1, Invariant, PTL
=============================================================================
