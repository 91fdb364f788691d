------------------------------ MODULE Checkout ------------------------------
(***************************************************************************)
(* The placement of a single-restaurant order: a request looks up its      *)
(* idempotency key, redeems the promo code of its basket under a cap,      *)
(* inserts the order, opens a Paystack transaction and records its answer, *)
(* undoing what it did when a later step fails.                            *)
(*                                                                         *)
(* Every database or Paystack call is a step: it may fail, with or without *)
(* effect, and the request may die before it.  Requests overlap, with one  *)
(* key (a second tap) or one code, and orders are cancelled beside them.   *)
(***************************************************************************)
EXTENDS Integers, FiniteSets

CONSTANTS
  Requests,      \* each also stands for the order id it generates
  NoRequest,
  Keys,          \* idempotency keys, each of one customer
  KeyOf,
  Customers,
  CustomerOf,
  Codes,         \* PromoCode rows
  NoCode,
  GlobalCap,
  UserCap

ASSUME RequestsAssumption == IsFiniteSet(Requests) /\ NoRequest \notin Requests
ASSUME KeysAssumption == KeyOf \in [Requests -> Keys] /\ CustomerOf \in [Keys -> Customers]
ASSUME CapsAssumption ==
  /\ NoCode \notin Codes
  /\ GlobalCap \in [Codes -> Nat] /\ UserCap \in [Codes -> Nat]

VARIABLES
  pc,         \* the next call of each request
  code,       \* the code that discounts the basket of a request
  lock,       \* the request whose transaction locks a PromoCode row
  redeemed,   \* orders with a PromoRedemption row
  order,      \* CustomerOrder rows; an order that was not cancelled is live
  payable,    \* orders whose row shows the customer an authorizationUrl
  record,     \* the order in the IdempotencyRecord of a key
  told,       \* the order a request answered with
  repeats,    \* history: requests that found their key answered when they began
  closing,    \* cancelled orders whose canceller has yet to release the redemption
  lost        \* history: redemptions whose release failed, or was never reached

vars == <<pc, code, lock, redeemed, order, payable, record, told, repeats, closing, lost>>

-----------------------------------------------------------------------------
Locked == {"count", "redeem"}
Working == Locked \cup {"lock", "insert", "items", "pay", "store", "cancel", "undo"}

TypeOK ==
  /\ pc \in [Requests -> Working \cup {"idle", "done"}]
  /\ code \in [Requests -> Codes \cup {NoCode}]
  /\ lock \in [Codes -> Requests \cup {NoRequest}]
  /\ \A c \in Codes : lock[c] # NoRequest => pc[lock[c]] \in Locked /\ code[lock[c]] = c
  /\ redeemed \subseteq Requests
  /\ order \in [Requests -> {"none", "live", "cancelled"}]
  /\ payable \subseteq Requests
  /\ record \in [Keys -> Requests \cup {NoRequest}]
  /\ told \in [Requests -> Requests \cup {NoRequest}]
  /\ repeats \subseteq Requests
  /\ closing \subseteq Requests
  /\ lost \subseteq Requests

Init ==
  /\ pc = [r \in Requests |-> "idle"]
  /\ code = [r \in Requests |-> NoCode]
  /\ lock = [c \in Codes |-> NoRequest]
  /\ redeemed = {}
  /\ order = [r \in Requests |-> "none"]
  /\ payable = {}
  /\ record = [k \in Keys |-> NoRequest]
  /\ told = [r \in Requests |-> NoRequest]
  /\ repeats = {}
  /\ closing = {}
  /\ lost = {}

Goto(r, l) == pc' = [pc EXCEPT ![r] = l]
Lose(o) == lost' = lost \cup ({o} \cap redeemed)

\* The redemptions of a code, and those among them of one customer.
Uses(c) == {q \in redeemed : code[q] = c}
UsesBy(c, u) == {q \in Uses(c) : CustomerOf[KeyOf[q]] = u}
Customer(r) == CustomerOf[KeyOf[r]]

-----------------------------------------------------------------------------
\* The draft is priced with a code, typed or automatic, or with none.  A recorded answer
\* is returned as it was.
Lookup(r) ==
  /\ pc[r] = "idle"
  /\ repeats' = IF \E q \in Requests : KeyOf[q] = KeyOf[r] /\ told[q] # NoRequest
                THEN repeats \cup {r} ELSE repeats
  /\ \E c \in Codes \cup {NoCode} : code' = [code EXCEPT ![r] = c]
  /\ told' = [told EXCEPT ![r] = record[KeyOf[r]]]
  /\ IF record[KeyOf[r]] # NoRequest THEN Goto(r, "done")
     ELSE Goto(r, IF code'[r] = NoCode THEN "insert" ELSE "lock")
  /\ UNCHANGED <<lock, redeemed, order, payable, record, closing, lost>>

-----------------------------------------------------------------------------
(* ebuy_redeem_promo_code: the row lock, the counts, the insert. *)

\* Mutant: select without "for update".
MutantLockCode(r) ==
  /\ pc[r] = "lock"
  /\ lock' = [lock EXCEPT ![code[r]] = r]
  /\ Goto(r, "count")
  /\ UNCHANGED <<code, redeemed, order, payable, record, told, repeats, closing, lost>>

LockCode(r) ==
  /\ pc[r] = "lock" /\ lock[code[r]] = NoRequest
  /\ lock' = [lock EXCEPT ![code[r]] = r]
  /\ Goto(r, "count")
  /\ UNCHANGED <<code, redeemed, order, payable, record, told, repeats, closing, lost>>

\* A cap that is reached refuses the order; so does a code switched off since.
CountUses(r) ==
  /\ pc[r] = "count"
  /\ \/ /\ Cardinality(Uses(code[r])) < GlobalCap[code[r]]
        /\ Cardinality(UsesBy(code[r], Customer(r))) < UserCap[code[r]]
        /\ Goto(r, "redeem") /\ UNCHANGED lock
     \/ /\ lock' = [lock EXCEPT ![code[r]] = NoRequest]
        /\ Goto(r, "done")
  /\ UNCHANGED <<code, redeemed, order, payable, record, told, repeats, closing, lost>>

\* The commit.  When its answer is lost, the request fails and nothing is undone.
Redeem(r) ==
  /\ pc[r] = "redeem"
  /\ lock' = [lock EXCEPT ![code[r]] = NoRequest]
  /\ redeemed' = redeemed \cup {r}
  /\ \/ Goto(r, "insert") /\ UNCHANGED lost
     \/ Goto(r, "done") /\ lost' = lost \cup {r}
  /\ UNCHANGED <<code, order, payable, record, told, repeats, closing>>

-----------------------------------------------------------------------------
(* createOrderWithItems. *)

Insert(r) ==
  /\ pc[r] = "insert"
  /\ \/ order' = [order EXCEPT ![r] = "live"] /\ Goto(r, "items")
     \/ order' \in {order, [order EXCEPT ![r] = "live"]} /\ Goto(r, "undo")
  /\ UNCHANGED <<code, lock, redeemed, payable, record, told, repeats, closing, lost>>

\* When the items fail, the order is deleted; an error of that delete is not looked at.
InsertItems(r) ==
  /\ pc[r] = "items"
  /\ \/ Goto(r, "pay") /\ UNCHANGED order
     \/ Goto(r, "undo") /\ order' \in {order, [order EXCEPT ![r] = "none"]}
  /\ UNCHANGED <<code, lock, redeemed, payable, record, told, repeats, closing, lost>>

\* Mutant: the release after a failed creation is forgotten.
MutantUndo(r) ==
  /\ pc[r] = "undo"
  /\ Goto(r, "done")
  /\ UNCHANGED <<code, lock, redeemed, order, payable, record, told, repeats, closing, lost>>

\* releasePromoRedemption, best effort, at the end of either failure path.
Undo(r) ==
  /\ pc[r] = "undo"
  /\ Goto(r, "done")
  /\ \/ redeemed' = redeemed \ {r} /\ UNCHANGED lost
     \/ Lose(r) /\ UNCHANGED redeemed
  /\ UNCHANGED <<code, lock, order, payable, record, told, repeats, closing>>

-----------------------------------------------------------------------------
(* The payment. *)

\* The first PaymentTransaction is written outside the try: when that fails, the order
\* stays, unpaid, for the payment window.  Then come Paystack, the order's payment,
\* PaymentTransaction, an event and risk signals: whichever fails, the order is cancelled.
OpenPayment(r) ==
  /\ pc[r] = "pay"
  /\ \/ payable' = payable \cup {r} /\ Goto(r, "store")
     \/ payable' \in {payable, payable \cup {r}} /\ Goto(r, "cancel")
     \/ Goto(r, "done") /\ UNCHANGED payable
  /\ UNCHANGED <<code, lock, redeemed, order, record, told, repeats, closing, lost>>

\* Mutant: the record is best effort.
MutantStoreRecord(r) ==
  /\ pc[r] = "store"
  /\ record' \in {record, [record EXCEPT ![KeyOf[r]] = r]}
  /\ told' = [told EXCEPT ![r] = r]
  /\ Goto(r, "done")
  /\ UNCHANGED <<code, lock, redeemed, order, payable, repeats, closing, lost>>

StoreRecord(r) ==
  /\ pc[r] = "store"
  /\ \/ /\ record' = [record EXCEPT ![KeyOf[r]] = r]
        /\ told' = [told EXCEPT ![r] = r]
        /\ Goto(r, "done")
     \/ /\ record' \in {record, [record EXCEPT ![KeyOf[r]] = r]}
        /\ Goto(r, "cancel") /\ UNCHANGED told
  /\ UNCHANGED <<code, lock, redeemed, order, payable, repeats, closing, lost>>

\* Mutant: the cancel is best effort.
MutantCancelOrder(r) ==
  /\ pc[r] = "cancel"
  /\ \/ order' = [order EXCEPT ![r] = "cancelled"] /\ payable' = payable \ {r}
     \/ UNCHANGED <<order, payable>>
  /\ Goto(r, "undo")
  /\ UNCHANGED <<code, lock, redeemed, record, told, repeats, closing, lost>>

\* By id, whatever the row says; then PaymentTransaction is marked failed.  An error of
\* either ends the request, and whatever the rows hold by then, nothing is released.
CancelOrder(r) ==
  /\ pc[r] = "cancel"
  /\ \/ /\ order' = [order EXCEPT ![r] = "cancelled"] /\ payable' = payable \ {r}
        /\ \/ Goto(r, "undo") /\ UNCHANGED lost
           \/ Goto(r, "done") /\ Lose(r)
     \/ Goto(r, "done") /\ UNCHANGED <<order, payable, lost>>
  /\ UNCHANGED <<code, lock, redeemed, record, told, repeats, closing>>

\* Mutant: the row lock outlives the transaction.
MutantDie(r) ==
  /\ pc[r] \in Working
  /\ Goto(r, "done")
  /\ IF order[r] = "live" THEN UNCHANGED lost ELSE Lose(r)
  /\ UNCHANGED <<code, lock, redeemed, order, payable, record, told, repeats, closing>>

\* A transaction that was open is rolled back.
Die(r) ==
  /\ pc[r] \in Working
  /\ Goto(r, "done")
  /\ lock' = [c \in Codes |-> IF lock[c] = r THEN NoRequest ELSE lock[c]]
  /\ IF order[r] = "live" THEN UNCHANGED lost ELSE Lose(r)
  /\ UNCHANGED <<code, redeemed, order, payable, record, told, repeats, closing>>

-----------------------------------------------------------------------------
(* Cancellations beside the request: by the customer, by the payment window, by the *)
(* acceptance deadline.  Each writes the order and then releases its redemption.    *)

Close(o) ==
  /\ order[o] = "live"
  /\ order' = [order EXCEPT ![o] = "cancelled"]
  /\ closing' = closing \cup {o}
  /\ UNCHANGED <<pc, code, lock, redeemed, payable, record, told, repeats, lost>>

ReleaseClosed(o) ==
  /\ o \in closing
  /\ closing' = closing \ {o}
  /\ \/ redeemed' = redeemed \ {o} /\ UNCHANGED lost
     \/ Lose(o) /\ UNCHANGED redeemed
  /\ UNCHANGED <<pc, code, lock, order, payable, record, told, repeats>>

-----------------------------------------------------------------------------
Placing(r) ==
  \/ Lookup(r) \/ LockCode(r) \/ CountUses(r) \/ Redeem(r)
  \/ Insert(r) \/ InsertItems(r) \/ OpenPayment(r) \/ StoreRecord(r)
  \/ CancelOrder(r) \/ Undo(r) \/ Die(r)

Next == \E r \in Requests : Placing(r) \/ Close(r) \/ ReleaseClosed(r)

Spec == Init /\ [][Next]_vars

-----------------------------------------------------------------------------
\* No code is redeemed more often than its caps allow, however its redemptions overlap
\* with each other and with releases.
CapsHold ==
  \A c \in Codes :
    /\ Cardinality(Uses(c)) <= GlobalCap[c]
    /\ \A u \in Customers : Cardinality(UsesBy(c, u)) <= UserCap[c]

\* A live order that can be paid at a discount holds its redemption: no failure path
\* releases it under an order the customer still gets.
DiscountBacked ==
  \A o \in payable : order[o] = "live" /\ code[o] # NoCode => o \in redeemed

\* A redemption whose order is not live is about to be released, unless the release
\* failed or its caller did not get that far.
SlotsComeBack ==
  \A o \in redeemed :
    order[o] = "live" \/ pc[o] \in Working \/ o \in closing \/ o \in lost

\* Once a checkout was answered, a later request with its key places no second order and
\* takes no second slot of a code.
RetryPlacesNothing ==
  \A r \in repeats : order[r] = "none" /\ r \notin redeemed
=============================================================================
